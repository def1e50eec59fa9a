----------------------------- MODULE CodingLease -----------------------------
(***************************************************************************)
(* The durable side of the Coding Continuity Supervisor for one task       *)
(* branch: worker sessions, write leases, checkpoints and handoffs, and    *)
(* the database functions that change them.  Each function is one          *)
(* transaction that locks its row, so each is one step.                    *)
(*                                                                         *)
(* Every caller acquires at most one lease for a session it just created   *)
(* and proposes at most one handoff to it, so a lease and a handoff are    *)
(* named by the session that receives them.  Tokens are left out: a lease  *)
(* is only ever used by the process that got it from acquire.              *)
(***************************************************************************)
EXTENDS Naturals, FiniteSets

CONSTANTS
    Sessions,   \* identifiers of the worker sessions that may be created
    Workers,    \* the keys of coding_workers
    Native,     \* those whose work is an Office agent session (kind 'native')
    None        \* not a session

ASSUME LeaseAssumption ==
    /\ IsFiniteSet(Sessions)
    /\ Native \subseteq Workers
    /\ None \notin Sessions

VARIABLES
    status,     \* coding_worker_sessions.status ("absent": no row yet)
    worker,     \* coding_worker_sessions.worker_key
    ended,      \* sessions with ended_at
    proven,     \* sessions with exit_reason LEASE_LOST_STOP_CONFIRMED
    bound,      \* sessions with native_session_id
    lease,      \* coding_leases.status ("none": no lease yet)
    expired,    \* sessions whose ACTIVE lease has expires_at in the past
    saved,      \* sessions with a checkpoint
    giver,      \* coding_handoffs.from_session_id of the handoff to a session
    baton       \* coding_handoffs.status of it ("none": no handoff)

sessionRows == <<status, worker, ended, proven, bound>>
leaseRows   == <<lease, expired>>
handoffRows == <<giver, baton>>
rows        == <<sessionRows, leaseRows, saved, handoffRows>>

Failures == {"RATE_LIMITED", "QUOTA_EXHAUSTED", "AUTH_REQUIRED", "UNAVAILABLE", "FAILED",
             "ABNORMAL_EXIT"}
Terminal == {"RELEASED", "COMPLETED"}
States   == {"STANDBY", "ACQUIRING", "ACTIVE", "DRAINING", "CHECKPOINTING", "HANDOFF_READY"}
            \cup Terminal \cup Failures

(* The moves states.js allows.                                              *)
Moves ==
    [absent        |-> {"STANDBY"},
     STANDBY       |-> {"ACQUIRING", "UNAVAILABLE", "AUTH_REQUIRED"},
     ACQUIRING     |-> {"ACTIVE", "STANDBY"} \cup Failures,
     ACTIVE        |-> {"DRAINING"} \cup Failures,
     DRAINING      |-> {"CHECKPOINTING"} \cup Failures,
     CHECKPOINTING |-> {"HANDOFF_READY", "COMPLETED"} \cup Failures,
     HANDOFF_READY |-> {"RELEASED"},
     RELEASED      |-> {},
     COMPLETED     |-> {},
     RATE_LIMITED  |-> {"ACTIVE", "DRAINING", "HANDOFF_READY", "RELEASED"}]

CanTransition(from, to) ==
    to \in IF from \in DOMAIN Moves THEN Moves[from] ELSE {"HANDOFF_READY", "RELEASED"}

MayMove(s, to) == status[s] = to \/ CanTransition(status[s], to)

LeaseTypeOK ==
    /\ status \in [Sessions -> States \cup {"absent"}]
    /\ worker \in [Sessions -> Workers \cup {None}]
    /\ ended \subseteq Sessions
    /\ proven \subseteq Sessions
    /\ bound \subseteq Sessions
    /\ lease \in [Sessions -> {"none", "ACTIVE", "RELEASED", "FROZEN", "RECLAIMED"}]
    /\ expired \subseteq Sessions
    /\ saved \subseteq Sessions
    /\ giver \in [Sessions -> Sessions \cup {None}]
    /\ baton \in [Sessions -> {"none", "PROPOSED", "ACCEPTED", "FAILED"}]

LeaseInit ==
    /\ status = [s \in Sessions |-> "absent"]
    /\ worker = [s \in Sessions |-> None]
    /\ ended = {}
    /\ proven = {}
    /\ bound = {}
    /\ lease = [s \in Sessions |-> "none"]
    /\ expired = {}
    /\ saved = {}
    /\ giver = [s \in Sessions |-> None]
    /\ baton = [s \in Sessions |-> "none"]

(* The statuses of coding_leases_one_writer, the unique index.              *)
Holds(s) == lease[s] \in {"ACTIVE", "FROZEN"}

Live(s) == lease[s] = "ACTIVE" /\ s \notin expired

-----------------------------------------------------------------------------
CreateSession(s, w) ==
    /\ status' = [status EXCEPT ![s] = "STANDBY"]
    /\ worker' = [worker EXCEPT ![s] = w]
    /\ UNCHANGED <<ended, proven, bound, leaseRows, saved, handoffRows>>

(* updateSession without a reason: the second half of transitionSession.    *)
SetStatus(s, to) ==
    /\ status' = [status EXCEPT ![s] = to]
    /\ UNCHANGED <<worker, ended, proven, bound, leaseRows, saved, handoffRows>>

(* The same for failSession, which also closes the session.                 *)
CloseAbnormal(s, confirmed) ==
    /\ status' = [status EXCEPT ![s] = "ABNORMAL_EXIT"]
    /\ ended' = ended \cup {s}
    /\ proven' = IF confirmed THEN proven \cup {s} ELSE proven \ {s}
    /\ UNCHANGED <<worker, bound, leaseRows, saved, handoffRows>>

BindNative(s) ==
    /\ bound' = bound \cup {s}
    /\ UNCHANGED <<status, worker, ended, proven, leaseRows, saved, handoffRows>>

\* Seeded mistake: a frozen lease does not keep the branch taken.
MayAcquireBesideFrozen(s) == s \notin ended /\ \A t \in Sessions : lease[t] # "ACTIVE"

MayAcquire(s) == s \notin ended /\ \A t \in Sessions : ~Holds(t)

AcquireLease(s) ==
    /\ lease' = [lease EXCEPT ![s] = "ACTIVE"]
    /\ status' = [status EXCEPT ![s] = "ACTIVE"]
    /\ UNCHANGED <<worker, ended, proven, bound, expired, saved, handoffRows>>

MaySave(s) == Live(s)

SaveCheckpoint(s) ==
    /\ saved' = saved \cup {s}
    /\ UNCHANGED <<sessionRows, leaseRows, handoffRows>>

MayRelease(s) == lease[s] = "ACTIVE" /\ s \in saved

ReleaseLease(s, final) ==
    /\ lease' = [lease EXCEPT ![s] = "RELEASED"]
    /\ status' = [status EXCEPT ![s] = final]
    /\ ended' = IF final = "HANDOFF_READY" THEN ended ELSE ended \cup {s}
    /\ expired' = expired \ {s}
    /\ UNCHANGED <<worker, proven, bound, saved, handoffRows>>

(* freeze_stale_coding_leases: every expired lease at once, and the         *)
(* sessions that were not closed before.                                    *)
Stale(s) == s \in expired

FreezeStaleLeases ==
    LET closed == {s \in Sessions :
                     /\ Stale(s)
                     /\ status[s] \notin Terminal \cup {"FAILED", "ABNORMAL_EXIT"}}
    IN  /\ lease' = [s \in Sessions |-> IF Stale(s) THEN "FROZEN" ELSE lease[s]]
        /\ status' = [s \in Sessions |-> IF s \in closed THEN "ABNORMAL_EXIT" ELSE status[s]]
        /\ ended' = ended \cup closed
        /\ proven' = proven \ closed
        /\ expired' = {s \in expired : ~Stale(s)}
        /\ UNCHANGED <<worker, bound, saved, handoffRows>>

MayReclaim(s) == lease[s] = "FROZEN"

ReclaimLease(s) ==
    /\ lease' = [lease EXCEPT ![s] = "RECLAIMED"]
    /\ UNCHANGED <<sessionRows, expired, saved, handoffRows>>

(* One open handoff per giving session (coding_handoffs_one_open).          *)
MayPropose(s) ==
    /\ s \in saved
    /\ \A t \in Sessions : ~(giver[t] = s /\ baton[t] = "PROPOSED")

ProposeHandoff(s, t) ==
    /\ giver' = [giver EXCEPT ![t] = s]
    /\ baton' = [baton EXCEPT ![t] = "PROPOSED"]
    /\ UNCHANGED <<sessionRows, leaseRows, saved>>

MayAccept(t) ==
    /\ baton[t] = "PROPOSED"
    /\ \A s \in Sessions : Holds(s) => s = t

AcceptHandoff(t) ==
    /\ baton' = [baton EXCEPT ![t] = "ACCEPTED"]
    /\ UNCHANGED <<sessionRows, leaseRows, saved, giver>>

FailHandoff(t) ==
    /\ baton' = [baton EXCEPT ![t] = "FAILED"]
    /\ UNCHANGED <<sessionRows, leaseRows, saved, giver>>

(* Time passes without a heartbeat that reaches the database.               *)
Expire(s) ==
    /\ Live(s)
    /\ expired' = expired \cup {s}
    /\ UNCHANGED <<sessionRows, lease, saved, handoffRows>>

=============================================================================
