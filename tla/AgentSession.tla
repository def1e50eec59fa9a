---------------------------- MODULE AgentSession ----------------------------
(***************************************************************************)
(* The durable side of one Coding Agent session: its row, the job, task    *)
(* and run that carry it, its newest checkpoint, the owner's approvals and *)
(* replies, the ledger of tool executions, and the database functions that *)
(* change them.  Each function is one transaction that locks the session   *)
(* or the row it changes, so each is one step.                             *)
(*                                                                         *)
(* A call of a tool is named <<turn, tool, n>>.  The lease token is the    *)
(* number of the claim that drew it.                                       *)
(***************************************************************************)
EXTENDS Naturals, FiniteSets, Sequences

VARIABLES
    session,    \* agent_sessions: status, cancel_requested, lease_token (0: null), claims so
                \* far, and whether lease_expires_at is in the past
    carrier,    \* jobs.status, tasks.status and runs.status of the session
    checkpoint, \* the newest agent_checkpoints row: what a worker resumes from
    approvals,  \* agent_approvals.status by call
    inputs,     \* agent_owner_inputs: "unread" or "taken" by reply
    ledger      \* tool_executions.status by idempotency key

rows == <<session, carrier, checkpoint, approvals, inputs, ledger>>

Closed   == {"completed", "failed", "cancelled"}
Statuses == {"queued", "running", "awaiting_approval", "blocked"} \cup Closed

Tools == {"", "write", "commit", "push", "again", "merge"}

Ids  == Nat \X Tools \X Nat
Keys == Ids \X BOOLEAN      \* TRUE: the key of an approved call (":approved")

Put(f, x, v) == [y \in DOMAIN f \cup {x} |-> IF y = x THEN v ELSE f[y]]

Is(f, x, v) == x \in DOMAIN f /\ f[x] = v

SessionRows == [status : Statuses, cancel : BOOLEAN, holder : Nat, claims : Nat, late : BOOLEAN]

Carriers == [job : {"running", "waiting_approval", "blocked", "completed", "failed", "cancelled"},
             task : {"assigned", "done", "failed"},
             run : {"running", "succeeded", "failed", "cancelled"}]

SessionTypeOK ==
    /\ session \in SessionRows /\ carrier \in Carriers
    /\ DOMAIN approvals \subseteq Ids
    /\ \A id \in DOMAIN approvals : approvals[id] \in {"pending", "approved", "rejected", "consumed"}
    /\ DOMAIN inputs \subseteq Nat
    /\ \A n \in DOMAIN inputs : inputs[n] \in {"unread", "taken"}
    /\ DOMAIN ledger \subseteq Keys
    /\ \A k \in DOMAIN ledger : ledger[k] \in {"running", "succeeded", "failed", "approval_required"}

(* create_coding_session; work is what a session without a checkpoint is.   *)
SessionInit(work) ==
    /\ session = [status |-> "queued", cancel |-> FALSE, holder |-> 0, claims |-> 0, late |-> FALSE]
    /\ carrier = [job |-> "running", task |-> "assigned", run |-> "running"]
    /\ checkpoint = work
    /\ approvals = << >>
    /\ inputs = << >>
    /\ ledger = << >>

-----------------------------------------------------------------------------
\* Seeded mistake: only a queued session is claimed, not one whose worker died.
ClaimableQueued == ~session.cancel /\ session.status = "queued"

Claimable ==
    /\ ~session.cancel
    /\ \/ session.status = "queued"
       \/ session.status = "running" /\ session.late

ClaimSession ==
    /\ session' = [session EXCEPT !.status = "running", !.holder = session.claims + 1,
                                  !.claims = session.claims + 1, !.late = FALSE]
    /\ carrier' = [carrier EXCEPT !.job = "running"]
    /\ UNCHANGED <<checkpoint, approvals, inputs, ledger>>

Holds(t) == session.holder = t

\* Seeded mistake: the token is not compared, only the status.
MayWriteRunning(t) == session.status = "running"

MayWrite(t) == Holds(t) /\ session.status = "running"

RenewLease ==
    /\ session' = [session EXCEPT !.late = FALSE]
    /\ UNCHANGED <<carrier, checkpoint, approvals, inputs, ledger>>

(* save_agent_checkpoint also extends the lease.                            *)
SaveCheckpoint(work) ==
    /\ checkpoint' = work
    /\ session' = [session EXCEPT !.late = FALSE]
    /\ UNCHANGED <<carrier, approvals, inputs, ledger>>

FinishedCarrier(st) ==
    CASE st = "completed"         -> [job |-> "completed", task |-> "done", run |-> "succeeded"]
      [] st \in {"failed", "cancelled"} -> [job |-> st, task |-> "failed", run |-> st]
      [] st = "awaiting_approval" -> [carrier EXCEPT !.job = "waiting_approval"]
      [] st = "blocked"           -> [carrier EXCEPT !.job = "blocked"]

FinishSession(st) ==
    /\ session' = [session EXCEPT !.status = st, !.holder = 0, !.late = FALSE]
    /\ carrier' = FinishedCarrier(st)
    /\ UNCHANGED <<checkpoint, approvals, inputs, ledger>>

-----------------------------------------------------------------------------
(* on conflict (session_id, call_id) do nothing                             *)
RequestApproval(id) ==
    /\ approvals' = IF id \in DOMAIN approvals THEN approvals ELSE Put(approvals, id, "pending")
    /\ UNCHANGED <<session, carrier, checkpoint, inputs, ledger>>

LastPending(id) == \A i \in DOMAIN approvals \ {id} : approvals[i] # "pending"

\* Seeded mistake: the last decision re-queues the session whatever it is.
DecideApprovalAlways(id, decision) ==
    /\ Is(approvals, id, "pending")
    /\ approvals' = [approvals EXCEPT ![id] = decision]
    /\ session' = IF LastPending(id) THEN [session EXCEPT !.status = "queued"] ELSE session
    /\ carrier' = IF LastPending(id) /\ carrier.job = "waiting_approval"
                  THEN [carrier EXCEPT !.job = "running"] ELSE carrier
    /\ UNCHANGED <<checkpoint, inputs, ledger>>

DecideApproval(id, decision) ==
    LET requeues == LastPending(id) /\ session.status = "awaiting_approval" IN
    /\ Is(approvals, id, "pending")
    /\ approvals' = [approvals EXCEPT ![id] = decision]
    /\ session' = IF requeues THEN [session EXCEPT !.status = "queued"] ELSE session
    /\ carrier' = IF LastPending(id) /\ carrier.job = "waiting_approval"
                  THEN [carrier EXCEPT !.job = "running"] ELSE carrier
    /\ UNCHANGED <<checkpoint, inputs, ledger>>

MayConsume(id) == Is(approvals, id, "approved")

ConsumeApproval(id) ==
    /\ approvals' = [approvals EXCEPT ![id] = "consumed"]
    /\ UNCHANGED <<session, carrier, checkpoint, inputs, ledger>>

Waiting == {"queued", "awaiting_approval", "blocked"}

\* Seeded mistake: the function before 20261009090000, which left the run open.
CancelledCarrierJobOnly == [carrier EXCEPT !.job = "cancelled"]

CancelledCarrier == [job |-> "cancelled", task |-> "failed", run |-> "cancelled"]

RequestCancel ==
    /\ session' = IF session.status \in Closed THEN session
                  ELSE [session EXCEPT !.cancel = TRUE,
                                       !.status = IF @ \in Waiting THEN "cancelled" ELSE @]
    /\ carrier' = IF session'.status = "cancelled" THEN CancelledCarrier ELSE carrier
    /\ UNCHANGED <<checkpoint, approvals, inputs, ledger>>

ResumeSession ==
    /\ session.status = "blocked" /\ ~session.cancel
    /\ session' = [session EXCEPT !.status = "queued"]
    /\ carrier' = [carrier EXCEPT !.job = "running"]
    /\ UNCHANGED <<checkpoint, approvals, inputs, ledger>>

ReplySession(n) ==
    /\ session.status \notin Closed /\ ~session.cancel
    /\ inputs' = Put(inputs, n, "unread")
    /\ IF session.status = "blocked"
       THEN /\ session' = [session EXCEPT !.status = "queued"]
            /\ carrier' = [carrier EXCEPT !.job = "running"]
       ELSE UNCHANGED <<session, carrier>>
    /\ UNCHANGED <<checkpoint, approvals, ledger>>

Unread == {n \in DOMAIN inputs : inputs[n] = "unread"}

TakeInputs ==
    /\ inputs' = [n \in DOMAIN inputs |-> "taken"]
    /\ UNCHANGED <<session, carrier, checkpoint, approvals, ledger>>

-----------------------------------------------------------------------------
\* Seeded mistake: a call that somebody already began is begun again.
FreshUnfinished(key) == key \in DOMAIN ledger => ledger[key] = "running"

(* begin_tool_execution returns 'execute' only to the call that inserted    *)
(* the row: no coding tool is retry-safe (tools.js:90).                     *)
Fresh(key) == key \notin DOMAIN ledger

BeginExecution(key, st) ==
    /\ ledger' = Put(ledger, key, st)
    /\ UNCHANGED <<session, carrier, checkpoint, approvals, inputs>>

FinishExecution(key, st) ==
    /\ ledger' = IF Is(ledger, key, "running") THEN [ledger EXCEPT ![key] = st] ELSE ledger
    /\ UNCHANGED <<session, carrier, checkpoint, approvals, inputs>>
=============================================================================
