--------------------------- MODULE AgentRunProofs ---------------------------
(***************************************************************************)
(* The conversation of a Coding Agent session and what it lets out, for any *)
(* turns of the model, any limits, and any number of replies, resumptions   *)
(* and crashes: what is pushed passed a finish gate, and what the model      *)
(* reads is whole.                                                         *)
(***************************************************************************)
EXTENDS AgentRun, FiniteSetTheorems, WellFoundedInduction, TLAPS

USE DEF w

-----------------------------------------------------------------------------
(* Types.                                                                   *)
Phases == {"work", "publish", "ci", "deploy", "verify", "report"}

Thinking == {"take", "trim", "model", "switched", "waited", "call"}

Pcs == {"idle", "save", "loop", "publish", "pull", "ci", "deploy", "verify", "report"}
           \cup Thinking \cup Ends

CallIds == Nat \X Nat
Routes  == {"", "first", "second"}
Thens   == Pcs \cup {""}
Gates   == [edits : Nat, last : BOOLEAN]
TalkSet == [calls : SUBSET CallIds, results : SUBSET ResultRows, heard : SUBSET Nat,
            orphans : SUBSET CallIds]
FewRows == {rows \in SUBSET ResultRows : IsFiniteSet(rows)}
TurnSet == [calls : Seq(Tools), at : Nat, results : FewRows, heard : SUBSET Nat]

Works ==
    [phase : Phases, iter : Nat, talk : TalkSet, pending : TurnSet, route : Routes,
     told : SUBSET Nat, sizeAt : Nat, fired : SUBSET {"escalate", "replan"}, gateFailures : Nat,
     ciRounds : Nat, gate : Gates, pushed : Nat, green : Nat, merged : BOOLEAN]

Memories ==
    [pc : Pcs, then : Thens, work : Works, force : BOOLEAN, text : Nat, errors : Nat,
     read : [hash : Nat, id : CallIds], inbox : SUBSET Nat, again : BOOLEAN, finished : BOOLEAN,
     waits : Nat, polls : Nat]

Pushes == [edits : Nat, guarded : BOOLEAN, gate : Gates]

Types ==
    /\ status \in {"queued", "running"} \cup Ends
    /\ publish \in Publishes
    /\ mem \in Memories /\ saved \in Works
    /\ tree \in [edits : Nat, guarded : BOOLEAN]
    /\ leave \in [{"change", "merge"} -> {"no", "pending", "approved", "rejected"}]
    /\ unread \in SUBSET Nat /\ taken \in SUBSET Nat /\ dropped \in SUBSET taken
    /\ published \in SUBSET Pushes
    /\ resumes \in Nat /\ crashes \in Nat

(* What is let out.  Beyond the model's work the worktree is what a gate      *)
(* passed (if finish was the last call of its turn); from CI on, it is also  *)
(* what was pushed; merged is what was green, with the owner's approval.      *)
Passed(gate) == gate.last => gate.edits = tree.edits /\ Allowed

OnBranch(work) == \E p \in published : p.edits = work.pushed

Shipped(work) ==
    /\ work.phase # "work" => Passed(work.gate)
    /\ work.phase \in {"ci", "deploy", "verify"} => work.pushed = tree.edits /\ OnBranch(work)
    /\ work.phase \in {"deploy", "verify"} => work.green = work.pushed
    /\ work.merged => /\ work.phase \in {"deploy", "verify", "report"}
                      /\ work.green = work.pushed /\ OnBranch(work)
                      /\ leave.merge = "approved"
    /\ work.phase = "report" /\ publish # "none" /\ work.gate.last => work.pushed = tree.edits
    /\ work.pushed <= tree.edits

(* Where a worker stands, it has the phase of; it leaves the model's work,    *)
(* and returns to it, only with a checkpoint.                               *)
Stands(pc, work) ==
    /\ pc \in Thinking => work.phase = "work"
    /\ pc \in {"publish", "pull"} => work.phase = "publish"
    /\ pc = "pull" => work.pushed = tree.edits /\ OnBranch(work)
    /\ pc \in {"ci", "deploy", "verify", "report"} => work.phase = pc
    /\ pc = "completed" => work.phase = "report"

NoneLeft(turn) == DOMAIN turn.calls \subseteq {r.id[2] : r \in turn.results}

Ahead == Pcs \ {"idle", "save", "call"}

Ships(m) ==
    /\ Shipped(m.work)
    /\ m.pc = "save" => m.then \in Ahead
    /\ IF m.pc = "save" THEN Stands(m.then, m.work) ELSE Stands(m.pc, m.work)
    /\ m.pc \notin Thinking \cup {"save", "idle"} => saved = m.work
    /\ m.pc \in Thinking => saved.phase = "work"
    /\ m.pc = "call" /\ m.finished /\ m.work.gate.last =>
           Passed(m.work.gate) /\ NoneLeft(m.work.pending)

GatedPushes ==
    \A p \in published : p.gate.last =>
        p.edits = p.gate.edits /\ (p.guarded => leave.change = "approved")

(* What the model reads.  A call without a result is one of the turn that is *)
(* carried out; a note points at a result of the conversation; a reply that  *)
(* was put somewhere is one the summary repeats.                            *)
ShownIn(n, results) ==
    n.kind = "note" =>
        \E r \in results : r.id = n.of /\ (r.kind = "long" \/ (r.kind = "elided" /\ n.id[1] <= r.of[1]))

Whole(work) ==
    /\ \A c \in work.talk.calls :
         \/ c \in {r.id : r \in work.talk.results} \cup work.talk.orphans
         \/ c[1] = work.pending.at /\ c[2] \in DOMAIN work.pending.calls
    /\ \A r \in work.talk.results \cup work.pending.results :
         r.id[1] <= work.iter /\ ShownIn(r, work.talk.results)
    /\ \A r \in work.pending.results : r.id[1] = work.pending.at
    /\ work.pending.at <= work.iter
    /\ Known(work) \subseteq work.told
    /\ work.pending.heard # {} => \E r \in work.pending.results : r.kind # "error"
    /\ work.iter <= MaxTurns

Answering == {"trim", "model", "switched"}

InLimit(work) == work.iter < MaxTurns

Follows(pc, m) ==
    /\ pc \in Answering => m.inbox = {} /\ m.work.pending = NoTurn
    /\ pc \in {"take"} \cup Answering => InLimit(m.work)

Recalls(m) ==
    /\ Whole(m.work)
    /\ m.inbox \subseteq m.work.told /\ m.inbox \subseteq taken
    /\ taken \subseteq Known(m.work) \cup m.inbox \cup dropped

Tells(m) ==
    m.pc # "idle" =>
        /\ Recalls(m)
        /\ IF m.pc = "save" THEN Follows(m.then, m) ELSE Follows(m.pc, m)

Replies == \E n \in Nat : taken \cup unread = 1..n /\ taken \cap unread = {}

AgentIInv ==
    /\ Types /\ GatedPushes /\ Replies
    /\ Ships(mem) /\ Shipped(saved)
    /\ Tells(mem) /\ Whole(saved)
    /\ mem.pc = "idle" => w = NoWork /\ taken \subseteq Known(saved) \cup dropped
    /\ mem.pc # "idle" => status = "running"
    /\ status = "completed" => saved.phase = "report"

-----------------------------------------------------------------------------
(* Memories.                                                                *)
LEMMA StationType ==
    /\ DOMAIN Station = Phases
    /\ \A p \in Phases : Station[p] \in Pcs /\ Station[p] # "idle"
    /\ Station["work"] = "take"
    /\ \A p \in Phases \ {"work"} : Station[p] = p
BY DEF Station, Phases, Pcs, Thinking, Ends

LEMMA NoTurnType == NoTurn \in TurnSet /\ NoTurn.calls = << >> /\ NoTurn.results = {}
                        /\ NoTurn.heard = {} /\ NoTurn.at = 0
<1>1. << >> \in Seq(Tools)
  OBVIOUS
<1>2. {} \in FewRows
  BY FS_EmptySet DEF FewRows
<1> QED
  BY <1>1, <1>2 DEF NoTurn, TurnSet

LEMMA NewTalkType == NewTalk \in TalkSet
BY DEF NewTalk, TalkSet

LEMMA NoWorkType == NoWork \in Works
<1>1. MaxTurns + 1 \in Nat
  BY AgentRunAssumption
<1>2. NoGate \in Gates
  BY DEF NoGate, Gates
<1> QED
  BY <1>1, <1>2, NoTurnType, NewTalkType DEF NoWork, Works, Phases, Routes

(* No route: the empty string, which is left out of sight of the provers.    *)
LEMMA Empty ==
    "" \in Routes /\ "" \in Thens /\ Pcs \subseteq Thens
BY DEF Routes, Thens

LEMMA FreshType == Fresh \in Memories /\ Fresh.pc = "loop" /\ Fresh.inbox = {} /\ Fresh.work = NoWork
<1>1. [hash |-> 0, id |-> NoCall] \in [hash : Nat, id : CallIds]
  BY DEF NoCall, CallIds
<1> QED
  BY <1>1, NoWorkType DEF Fresh, Memories, Pcs, Thens

LEMMA IdleType == Idle \in Memories /\ Idle.pc = "idle" /\ Idle.inbox = {} /\ Idle.work = NoWork
BY FreshType DEF Idle, Memories, Pcs

(* The parts of a memory that the invariant speaks of.                      *)
Same(m, n) ==
    /\ n.inbox = m.inbox /\ n.again = m.again /\ n.finished = m.finished /\ n.work = m.work

LEMMA GoType ==
    ASSUME NEW m \in Memories, NEW pc \in Pcs
    PROVE  Go(m, pc) \in Memories /\ Go(m, pc).pc = pc /\ Same(m, Go(m, pc))
BY DEF Go, Memories, Same

LEMMA SaveType ==
    ASSUME NEW m \in Memories, NEW pc \in Pcs
    PROVE  /\ SaveThen(m, pc) \in Memories /\ SaveThen(m, pc).pc = "save" /\ SaveThen(m, pc).then = pc
           /\ Same(m, SaveThen(m, pc))
<1>1. pc \in Thens /\ "save" \in Pcs
  BY Empty DEF Pcs
<1> QED
  BY <1>1 DEF SaveThen, Memories, Same

LEMMA WorkType ==
    ASSUME NEW m \in Memories, NEW k \in Works
    PROVE  /\ [m EXCEPT !.work = k] \in Memories /\ [m EXCEPT !.work = k].work = k
           /\ [m EXCEPT !.work = k].pc = m.pc /\ [m EXCEPT !.work = k].inbox = m.inbox
           /\ [m EXCEPT !.work = k].finished = m.finished /\ [m EXCEPT !.work = k].again = m.again
BY DEF Memories

-----------------------------------------------------------------------------
(* Steps that only change the memory of the worker.                         *)
MemoryOnly == UNCHANGED <<Durable, Outside, Inbox>>

LEMMA OnlyMemory ==
    ASSUME AgentIInv, NEW m \in Memories, mem' = m, mem.pc # "idle", m.pc # "idle", MemoryOnly,
           Ships(m), Tells(m)
    PROVE  AgentIInv'
<1>1. UNCHANGED <<status, saved, dropped, crashes, resumes, publish, tree, leave, published, unread,
                  taken>>
  BY DEF MemoryOnly, Durable, Outside, Inbox, ownerVars
<1>2. Types'
  BY <1>1 DEF AgentIInv, Types
<1>3. GatedPushes' /\ Replies' /\ Shipped(saved)' /\ Whole(saved)'
  BY <1>1 DEF AgentIInv, GatedPushes, Replies, Shipped, Passed, Allowed, OnBranch, Whole, Known
<1>4. Ships(mem)'
  BY <1>1 DEF Ships, Shipped, Passed, Allowed, OnBranch, Stands
<1>5. Tells(mem)'
  BY <1>1 DEF Tells, Recalls, Whole, Known, Follows
<1>6. mem'.pc # "idle" /\ status' = "running"
  BY <1>1 DEF AgentIInv
<1> QED
  BY <1>2, <1>3, <1>4, <1>5, <1>6 DEF AgentIInv

LEMMA Facts ==
    ASSUME AgentIInv, mem.pc # "idle"
    PROVE  /\ mem \in Memories /\ w \in Works /\ saved \in Works
           /\ Shipped(w) /\ Whole(w) /\ Recalls(mem) /\ Ships(mem)
           /\ mem.pc # "save" => Stands(mem.pc, w) /\ Follows(mem.pc, mem)
           /\ mem.pc \notin Thinking \cup {"save"} => saved = w
           /\ mem.pc \in Thinking => w.phase = "work" /\ saved.phase = "work"
<1>1. mem \in Memories /\ saved \in Works /\ Ships(mem) /\ Recalls(mem)
  BY DEF AgentIInv, Types, Tells
<1>2. mem.pc # "save" => Stands(mem.pc, w) /\ Follows(mem.pc, mem)
  BY DEF AgentIInv, Ships, Tells
<1>3. "save" \notin Thinking
  BY DEF Thinking
<1> QED
  BY <1>1, <1>2, <1>3 DEF Ships, Recalls, Memories, Stands

LEMMA SavesNext ==
    ASSUME AgentIInv, mem.pc # "idle", NEW m \in Memories, NEW pc \in Ahead,
           mem' = SaveThen(m, pc), MemoryOnly,
           Shipped(m.work), Stands(pc, m.work), Recalls(m), Follows(pc, m)
    PROVE  AgentIInv'
<1> DEFINE n == SaveThen(m, pc)
<1>1. n \in Memories /\ n.pc = "save" /\ n.then = pc /\ Same(m, n)
  BY SaveType DEF Ahead
<1> HIDE DEF n
<1>2. Ships(n)
  BY <1>1 DEF Ships, Same, Thinking
<1>3. Tells(n)
  BY <1>1 DEF Tells, Recalls, Same, Follows
<1> QED
  BY <1>1, <1>2, <1>3, OnlyMemory DEF n

KeepsTalk(work, k) ==
    k.iter = work.iter /\ k.talk = work.talk /\ k.pending = work.pending /\ k.told = work.told

KeepsShip(work, k) ==
    /\ k.phase = work.phase /\ k.gate = work.gate /\ k.pushed = work.pushed
    /\ k.green = work.green /\ k.merged = work.merged

LEMMA WholeSame ==
    ASSUME NEW work, NEW k, KeepsTalk(work, k), Whole(work)
    PROVE  Whole(k) /\ Known(k) = Known(work)
BY DEF KeepsTalk, Whole, Known

LEMMA WholeHeard ==
    ASSUME NEW work, NEW k, k.iter = work.iter, k.pending = work.pending,
           k.talk.calls = work.talk.calls, k.talk.results = work.talk.results,
           k.talk.orphans = work.talk.orphans, Known(k) \subseteq k.told, Whole(work)
    PROVE  Whole(k)
BY DEF Whole

LEMMA ShippedSame ==
    ASSUME NEW work, NEW k, KeepsShip(work, k), Shipped(work)
    PROVE  Shipped(k)
BY DEF KeepsShip, Shipped, OnBranch

LEMMA RecallsSame ==
    ASSUME NEW m, NEW n, KeepsTalk(m.work, n.work), n.inbox = m.inbox, Recalls(m)
    PROVE  Recalls(n)
BY WholeSame DEF Recalls, KeepsTalk

(* It stops, or goes round.                                                 *)
LEMMA Stops ==
    ASSUME AgentIInv, mem.pc # "idle", NEW pc \in {"blocked", "awaiting_approval", "loop"},
           mem' = SaveThen(mem, pc), MemoryOnly
    PROVE  AgentIInv'
<1>1. pc \in Ahead /\ Stands(pc, w) /\ Follows(pc, mem)
  BY DEF Ahead, Pcs, Ends, Stands, Follows, Thinking, Answering
<1> QED
  BY <1>1, Facts, SavesNext

LEMMA LoopKeeps ==
    ASSUME AgentIInv, Loop
    PROVE  AgentIInv'
<1>1. mem.pc = "loop" /\ MemoryOnly
  BY DEF Loop, At, MemoryOnly
<1>2. CASE OverLimit
  BY <1>1, <1>2, Stops DEF Loop
<1>3. CASE ~OverLimit
  <2> DEFINE m == [mem EXCEPT !.pc = Station[w.phase], !.polls = 0]
  <2>1. mem' = m
    BY <1>3 DEF Loop
  <2>2. mem \in Memories /\ w \in Works /\ saved = w /\ Recalls(mem) /\ Shipped(w)
    BY <1>1, Facts DEF Thinking
  <2>3. w.phase \in Phases /\ Station[w.phase] \in Pcs
    BY <2>2, StationType DEF Works
  <2>4. m \in Memories /\ m.pc = Station[w.phase] /\ m.work = w /\ m.inbox = mem.inbox
    BY <2>2, <2>3 DEF Memories
  <2>5. InLimit(w)
    <3>1. ~(w.iter >= MaxTurns)
      BY <1>3, Zenon DEF OverLimit
    <3>2. w.iter \in Nat /\ MaxTurns \in Nat
      BY <2>2, AgentRunAssumption DEF Works
    <3> QED
      BY <3>1, <3>2 DEF InLimit
  <2> HIDE DEF m
  <2>6. m.pc = "take" \/ m.pc \in {"publish", "ci", "deploy", "verify", "report"}
    BY <2>3, <2>4, StationType DEF Phases
  <2>7. Ships(m)
    BY <2>2, <2>3, <2>4, <2>6, StationType DEF Ships, Stands, Thinking, Phases
  <2>8. Tells(m)
    BY <2>2, <2>4, <2>5, <2>6, RecallsSame DEF Tells, Follows, KeepsTalk, Answering
  <2> QED
    BY <1>1, <2>1, <2>4, <2>6, <2>7, <2>8, OnlyMemory
<1> QED
  BY <1>2, <1>3

-----------------------------------------------------------------------------
(* Steps that change a row: claims, checkpoints, ends, crashes, the owner.   *)

(* What the owner decided stays decided, and what is on GitHub stays there.   *)
Onward ==
    /\ tree' = tree /\ publish' = publish
    /\ published \subseteq published'
    /\ \A what \in {"change", "merge"} : leave[what] = "approved" => leave'[what] = "approved"

LEMMA ShippedStays ==
    ASSUME Onward
    PROVE  /\ \A g : Passed(g) => Passed(g)'
           /\ \A k : Shipped(k) => Shipped(k)'
           /\ \A pc, k : Stands(pc, k) => Stands(pc, k)'
<1>1. ASSUME NEW g, Passed(g) PROVE Passed(g)'
  BY <1>1 DEF Passed, Allowed, Onward
<1>2. ASSUME NEW k, OnBranch(k) PROVE OnBranch(k)'
  BY <1>2 DEF OnBranch, Onward
<1>3. ASSUME NEW k, Shipped(k) PROVE Shipped(k)'
  BY <1>1, <1>2, <1>3 DEF Shipped, Onward
<1>4. ASSUME NEW pc, NEW k, Stands(pc, k) PROVE Stands(pc, k)'
  BY <1>2, <1>4 DEF Stands, Onward
<1> QED
  BY <1>1, <1>3, <1>4

LEMMA RowTypes ==
    ASSUME AgentIInv
    PROVE  /\ mem \in Memories /\ saved \in Works /\ Shipped(saved) /\ Whole(saved)
           /\ dropped \subseteq taken /\ taken \subseteq Nat /\ unread \subseteq Nat
           /\ resumes \in Nat /\ crashes \in Nat
BY DEF AgentIInv, Types

(* The memory after a step, and the checkpoint, are told apart from the state *)
(* they are parts of, so that what is known of them can be carried over.     *)
LEMMA NextState ==
    ASSUME NEW m \in Memories, NEW k \in Works, mem' = m, saved' = k,
           Types', GatedPushes', Replies',
           Ships(m)', Shipped(k)', Tells(m)', Whole(k),
           m.pc = "idle" => m.work = NoWork /\ taken' \subseteq Known(k) \cup dropped',
           m.pc # "idle" => status' = "running",
           status' = "completed" => k.phase = "report"
    PROVE  AgentIInv'
<1>1. Ships(mem)'
  BY DEF Ships, Shipped, Stands, Passed, Allowed, OnBranch
<1>2. Shipped(saved)'
  BY DEF Shipped, Passed, Allowed, OnBranch
<1>3. Tells(mem)'
  BY DEF Tells, Recalls, Whole, Known, Follows
<1>4. Whole(saved)' /\ Known(saved)' = Known(k)
  BY DEF Whole, Known
<1> QED
  BY <1>1, <1>2, <1>3, <1>4 DEF AgentIInv

LEMMA NoWorkShips ==
    ASSUME AgentIInv
    PROVE  Shipped(NoWork) /\ Stands("idle", NoWork)
<1>1. NoWork.phase = "work" /\ NoWork.merged = FALSE /\ NoWork.pushed = 0
  BY DEF NoWork
<1> QED
  BY <1>1 DEF Shipped, Stands, AgentIInv, Types, Thinking

LEMMA StartKeeps ==
    ASSUME AgentIInv, Start
    PROVE  AgentIInv'
<1>1. /\ mem.pc = "idle" /\ status' = "running" /\ mem' = [Fresh EXCEPT !.work = saved]
      /\ UNCHANGED <<saved, dropped, crashes, resumes, publish, tree, leave, published, unread, taken>>
  BY DEF Start, At, Outside, Inbox, ownerVars
<1>2. PICK k \in Works : k = saved
  BY RowTypes
<1>3. PICK m \in Memories : m = mem' /\ m.pc = "loop" /\ m.work = k /\ m.inbox = {}
  <2>1. mem' = [Fresh EXCEPT !.work = k]
    BY <1>1, <1>2
  <2>2. /\ mem' \in Memories /\ mem'.pc = Fresh.pc /\ mem'.work = k
        /\ mem'.inbox = Fresh.inbox
    BY <2>1, FreshType, WorkType
  <2> QED
    BY <2>2, FreshType
<1>4. Onward
  BY <1>1 DEF Onward
<1>5. Types' /\ GatedPushes' /\ Replies' /\ Whole(k)
  BY <1>1, <1>2, <1>3, RowTypes DEF AgentIInv, Types, GatedPushes, Replies
<1>6. Shipped(k)'
  BY <1>2, <1>4, RowTypes, ShippedStays
<1>7. Ships(m)'
  BY <1>1, <1>2, <1>3, <1>6 DEF Ships, Stands, Thinking
<1>8. taken \subseteq Known(k) \cup dropped
  BY <1>1, <1>2 DEF AgentIInv
<1>9. Tells(m)'
  BY <1>1, <1>3, <1>5, <1>8 DEF Tells, Recalls, Follows, Answering
<1> QED
  BY <1>1, <1>2, <1>3, <1>5, <1>6, <1>7, <1>9, NextState

LEMMA CheckpointKeeps ==
    ASSUME AgentIInv, Checkpoint
    PROVE  AgentIInv'
<1>1. /\ mem.pc = "save" /\ saved' = w /\ mem' = Go(mem, mem.then)
      /\ UNCHANGED <<status, dropped, crashes, resumes, publish, tree, leave, published, unread, taken>>
  BY DEF Checkpoint, At, Outside, Inbox, ownerVars
<1>2. /\ mem.then \in Ahead /\ Stands(mem.then, w) /\ Follows(mem.then, mem)
      /\ mem \in Memories /\ w \in Works /\ Shipped(w) /\ Recalls(mem)
  BY <1>1, Facts DEF AgentIInv, Ships, Tells
<1>3. PICK k \in Works : k = w
  BY <1>2
<1>4. PICK m \in Memories : m = mem' /\ m.pc = mem.then /\ m.work = k /\ m.inbox = mem.inbox
  BY <1>1, <1>2, <1>3, GoType DEF Ahead, Same
<1>5. Onward
  BY <1>1 DEF Onward
<1>6. m.pc \in Ahead /\ Stands(m.pc, k) /\ Follows(m.pc, m) /\ Recalls(m) /\ Shipped(k) /\ Whole(k)
  <2>1. Follows(m.pc, m)
    BY <1>2, <1>3, <1>4 DEF Follows
  <2>2. Recalls(m)
    BY <1>2, <1>3, <1>4, RecallsSame DEF KeepsTalk
  <2> QED
    BY <1>2, <1>3, <1>4, <2>1, <2>2 DEF Recalls
<1>7. Types' /\ GatedPushes' /\ Replies'
  BY <1>1, <1>3, <1>4 DEF AgentIInv, Types, GatedPushes, Replies
<1>8. Shipped(k)' /\ Stands(m.pc, k)'
  BY <1>5, <1>6, ShippedStays
<1>9. Ships(m)'
  BY <1>1, <1>3, <1>4, <1>6, <1>8 DEF Ships, Stands, Ahead
<1>10. Tells(m)'
  BY <1>1, <1>6 DEF Tells, Recalls, Ahead
<1>11. status' = "running" /\ m.pc # "idle"
  BY <1>1, <1>6 DEF AgentIInv, Ahead
<1> QED
  BY <1>1, <1>3, <1>4, <1>6, <1>7, <1>8, <1>9, <1>10, <1>11, NextState

LEMMA FinishKeeps ==
    ASSUME AgentIInv, Finish
    PROVE  AgentIInv'
<1>1. /\ mem.pc \in Ends /\ status' = mem.pc /\ mem' = Idle
      /\ dropped' = dropped \cup (mem.inbox \ Known(w))
      /\ UNCHANGED <<saved, crashes, resumes, publish, tree, leave, published, unread, taken>>
  BY DEF Finish, Outside, Inbox, ownerVars
<1>2. mem.pc \notin {"idle", "save"} /\ mem.pc \notin Thinking
  BY <1>1 DEF Ends, Thinking
<1>3. saved = w /\ Recalls(mem) /\ Stands(mem.pc, w)
  BY <1>2, Facts
<1>4. PICK k \in Works : k = saved
  BY RowTypes
<1>5. PICK m \in Memories : m = mem' /\ m.pc = "idle" /\ m.work = NoWork
  BY <1>1, IdleType
<1>6. Onward
  BY <1>1 DEF Onward
<1>7. dropped' \subseteq taken
  BY <1>1, <1>3 DEF Recalls, AgentIInv, Types
<1>8. Types' /\ GatedPushes' /\ Replies' /\ Whole(k)
  BY <1>1, <1>4, <1>5, <1>7 DEF AgentIInv, Types, GatedPushes, Replies
<1>9. Shipped(k)'
  BY <1>4, <1>6, RowTypes, ShippedStays
<1>10. Ships(m)'
  <2>1. Shipped(NoWork)' /\ Stands("idle", NoWork)'
    BY <1>6, NoWorkShips, ShippedStays
  <2> QED
    BY <1>1, <1>5, <2>1 DEF Ships, Thinking
<1>11. taken \subseteq Known(k) \cup dropped'
  BY <1>1, <1>3, <1>4 DEF Recalls
<1>12. status' = "completed" => k.phase = "report"
  BY <1>1, <1>3, <1>4 DEF Stands
<1>13. Tells(m)'
  BY <1>5 DEF Tells
<1> QED
  BY <1>1, <1>4, <1>5, <1>8, <1>9, <1>10, <1>11, <1>12, <1>13, NextState

LEMMA CrashKeeps ==
    ASSUME AgentIInv, Crash
    PROVE  AgentIInv'
<1>1. /\ mem.pc # "idle" /\ mem' = Idle /\ crashes' = crashes + 1
      /\ dropped' = dropped \cup (taken \ Known(saved))
      /\ UNCHANGED <<status, saved, resumes, publish, tree, leave, published, unread, taken>>
  BY DEF Crash, At, Outside, Inbox, ownerVars
<1>2. PICK k \in Works : k = saved
  BY RowTypes
<1>3. PICK m \in Memories : m = mem' /\ m.pc = "idle" /\ m.work = NoWork
  BY <1>1, IdleType
<1>4. Onward
  BY <1>1 DEF Onward
<1>5. dropped' \subseteq taken /\ crashes' \in Nat
  BY <1>1, RowTypes
<1>6. Types' /\ GatedPushes' /\ Replies' /\ Whole(k)
  BY <1>1, <1>2, <1>3, <1>5 DEF AgentIInv, Types, GatedPushes, Replies
<1>7. Shipped(k)'
  BY <1>2, <1>4, RowTypes, ShippedStays
<1>8. Ships(m)'
  <2>1. Shipped(NoWork)' /\ Stands("idle", NoWork)'
    BY <1>4, NoWorkShips, ShippedStays
  <2> QED
    BY <1>1, <1>3, <2>1 DEF Ships, Thinking
<1>9. taken \subseteq Known(k) \cup dropped'
  BY <1>1, <1>2
<1>10. Tells(m)'
  BY <1>3 DEF Tells
<1>11. status' = "running"
  BY <1>1 DEF AgentIInv
<1> QED
  BY <1>1, <1>2, <1>3, <1>6, <1>7, <1>8, <1>9, <1>10, <1>11, NextState

(* The owner.                                                               *)
LEMMA OwnerKeeps ==
    ASSUME AgentIInv, UNCHANGED <<mem, saved, taken, dropped, crashes, publish, tree, published>>,
           Types', Replies', Onward,
           status' = status \/ (status # "completed" /\ status' = "queued" /\ mem.pc = "idle")
    PROVE  AgentIInv'
<1>1. PICK k \in Works : k = saved
  BY RowTypes
<1>2. PICK m \in Memories : m = mem
  BY RowTypes
<1>3. Shipped(k)' /\ Whole(k)
  BY <1>1, ShippedStays, RowTypes
<1>4. Ships(m)'
  <2>1. Ships(m)
    BY <1>2 DEF AgentIInv
  <2>2. Shipped(m.work)'
    BY <2>1, ShippedStays DEF Ships
  <2>3. IF m.pc = "save" THEN Stands(m.then, m.work)' ELSE Stands(m.pc, m.work)'
    BY <2>1, ShippedStays DEF Ships
  <2>4. Passed(m.work.gate) => Passed(m.work.gate)'
    BY ShippedStays
  <2> QED
    BY <2>1, <2>2, <2>3, <2>4 DEF Ships, Stands
<1>5. Tells(m)'
  BY <1>2 DEF AgentIInv, Tells, Recalls
<1>6. GatedPushes'
  BY DEF AgentIInv, GatedPushes, Onward
<1>7. m.pc = "idle" => m.work = NoWork /\ taken \subseteq Known(k) \cup dropped
  BY <1>1, <1>2 DEF AgentIInv
<1>8. m.pc # "idle" => status' = "running"
  BY <1>2 DEF AgentIInv
<1>9. status' = "completed" => k.phase = "report"
  BY <1>1 DEF AgentIInv
<1> QED
  BY <1>1, <1>2, <1>3, <1>4, <1>5, <1>6, <1>7, <1>8, <1>9, NextState

LEMMA ReplyKeeps ==
    ASSUME AgentIInv, Reply
    PROVE  AgentIInv'
<1>1. /\ status # "completed" /\ unread' = unread \cup {Cardinality(taken \cup unread) + 1}
      /\ status' = IF status = "blocked" THEN "queued" ELSE status
      /\ UNCHANGED <<mem, saved, taken, dropped, crashes, resumes, publish, tree, leave, published>>
  BY DEF Reply, Outside, ownerVars
<1>2. PICK n \in Nat : taken \cup unread = 1..n /\ taken \cap unread = {}
  BY DEF AgentIInv, Replies
<1>3. Cardinality(taken \cup unread) = n
  <2>1. Cardinality(1..n) = n
    BY FS_Interval
  <2> QED
    BY <1>2, <2>1
<1>4. taken' \cup unread' = 1..(n + 1) /\ taken' \cap unread' = {} /\ n + 1 \in Nat
  <2>1. unread' = unread \cup {n + 1} /\ taken' = taken
    BY <1>1, <1>3
  <2>2. 1..(n + 1) = (1..n) \cup {n + 1} /\ n + 1 \notin 1..n
    OBVIOUS
  <2>3. n + 1 \notin taken
    BY <1>2, <2>2
  <2> QED
    BY <1>2, <2>1, <2>2, <2>3
<1>5. Types' /\ Replies'
  <2>1. unread' \in SUBSET Nat
    BY <1>1, <1>3, RowTypes
  <2>2. Replies'
    BY <1>4 DEF Replies
  <2> QED
    BY <1>1, <2>1, <2>2 DEF AgentIInv, Types
<1>6. status = "blocked" => mem.pc = "idle"
  BY DEF AgentIInv
<1> QED
  BY <1>1, <1>5, <1>6, OwnerKeeps DEF Onward

LEMMA ResumeKeeps ==
    ASSUME AgentIInv, Resume
    PROVE  AgentIInv'
<1>1. /\ status = "blocked" /\ resumes' = resumes + 1 /\ status' = "queued"
      /\ UNCHANGED <<mem, saved, taken, unread, dropped, crashes, publish, tree, leave, published>>
  BY DEF Resume, Outside, Inbox
<1>2. Types' /\ Replies'
  BY <1>1, RowTypes DEF AgentIInv, Types, Replies
<1>3. mem.pc = "idle"
  BY <1>1 DEF AgentIInv
<1> QED
  BY <1>1, <1>2, <1>3, OwnerKeeps DEF Onward

LEMMA DecideKeeps ==
    ASSUME AgentIInv, NEW what \in {"change", "merge"}, NEW decision \in {"approved", "rejected"},
           Decide(what, decision)
    PROVE  AgentIInv'
<1>1. /\ leave[what] = "pending" /\ status # "completed"
      /\ leave' = [leave EXCEPT ![what] = decision]
      /\ status' = IF status = "awaiting_approval" THEN "queued" ELSE status
      /\ UNCHANGED <<mem, saved, taken, unread, dropped, crashes, resumes, publish, tree, published>>
  BY DEF Decide, Inbox, ownerVars
<1>2. leave \in [{"change", "merge"} -> {"no", "pending", "approved", "rejected"}]
  BY DEF AgentIInv, Types
<1>3. Types' /\ Replies'
  BY <1>1, <1>2 DEF AgentIInv, Types, Replies
<1>4. Onward
  BY <1>1, <1>2 DEF Onward
<1>5. status = "awaiting_approval" => mem.pc = "idle"
  BY DEF AgentIInv
<1> QED
  BY <1>1, <1>3, <1>4, <1>5, OwnerKeeps

-----------------------------------------------------------------------------
(* The model's work.                                                        *)
LEMMA TakeKeeps ==
    ASSUME AgentIInv, Take
    PROVE  AgentIInv'
<1> DEFINE m == [mem EXCEPT !.inbox = @ \cup unread, !.work.told = @ \cup unread]
           called == [m EXCEPT !.pc = "call", !.again = TRUE, !.finished = FALSE]
<1>1. /\ mem.pc = "take" /\ unread' = {} /\ taken' = taken \cup unread
      /\ mem' = IF w.pending # NoTurn THEN called
                ELSE IF m.inbox # {} THEN SaveThen(Deliver(m), "trim") ELSE Go(m, "trim")
      /\ UNCHANGED <<status, saved, dropped, crashes, resumes, publish, tree, leave, published>>
  BY DEF Take, At, Durable, Outside, ownerVars
<1>2. /\ mem \in Memories /\ w \in Works /\ Shipped(w) /\ Recalls(mem)
      /\ w.phase = "work" /\ saved.phase = "work" /\ InLimit(w)
  BY <1>1, Facts DEF Thinking, Follows
<1>3. PICK k \in Works : /\ k = [w EXCEPT !.told = @ \cup unread]
                         /\ KeepsShip(w, k) /\ k.told = w.told \cup unread /\ k.iter = w.iter
                         /\ k.talk = w.talk /\ k.pending = w.pending
  <2> DEFINE k == [w EXCEPT !.told = @ \cup unread]
  <2>1. w.told \cup unread \in SUBSET Nat
    BY <1>2, RowTypes DEF Works
  <2>2. k \in Works
    BY <1>2, <2>1 DEF Works
  <2>3. /\ KeepsShip(w, k) /\ k.told = w.told \cup unread /\ k.iter = w.iter
        /\ k.talk = w.talk /\ k.pending = w.pending
    BY <1>2 DEF Works, KeepsShip
  <2> QED
    BY <2>2, <2>3
<1>4. /\ m \in Memories /\ m.work = k /\ m.inbox = mem.inbox \cup unread /\ m.pc = "take"
  BY <1>1, <1>2, <1>3, RowTypes DEF Memories
<1>5. PICK m1 \in Memories : m1 = m
  BY <1>4
<1> HIDE DEF m
<1>6. Onward
  BY <1>1 DEF Onward
<1>7. Shipped(k) /\ k.phase = "work" /\ Whole(k) /\ Known(k) = Known(w)
  <2>1. Shipped(k)
    BY <1>2, <1>3, ShippedSame
  <2>2. Whole(k) /\ Known(k) = Known(w)
    BY <1>2, <1>3 DEF Recalls, Whole, Known
  <2> QED
    BY <1>2, <1>3, <2>1, <2>2 DEF KeepsShip
<1>8. PICK s \in Works : s = saved
  BY RowTypes
<1>9. Shipped(s)' /\ Shipped(k)' /\ Whole(s)
  BY <1>6, <1>7, <1>8, RowTypes, ShippedStays
<1>10. GatedPushes' /\ Replies'
  BY <1>1 DEF AgentIInv, GatedPushes, Replies
<1>11. m1.work = k /\ m1.inbox = mem.inbox \cup unread /\ m1.inbox \subseteq k.told
       /\ m1.inbox \subseteq taken' /\ taken' \subseteq Known(k) \cup m1.inbox \cup dropped
  BY <1>1, <1>2, <1>3, <1>4, <1>5, <1>7 DEF Recalls
<1>12. ASSUME NEW n \in Memories, mem' = n, n.pc # "idle", Ships(n)', Tells(n)'
       PROVE  AgentIInv'
  <2>1. Types'
    BY <1>1, <1>12, RowTypes DEF AgentIInv, Types
  <2>2. status' = "running"
    BY <1>1 DEF AgentIInv
  <2> QED
    BY <1>1, <1>8, <1>9, <1>10, <1>12, <2>1, <2>2, NextState
<1>13. CASE w.pending # NoTurn
  <2>1. PICK n \in Memories : /\ n = mem' /\ n.pc = "call" /\ n.finished = FALSE /\ n.work = k
                              /\ n.inbox = m1.inbox
    <3> DEFINE n == [m1 EXCEPT !.pc = "call", !.again = TRUE, !.finished = FALSE]
    <3>1. mem' = n
      BY <1>1, <1>5, <1>13
    <3>2. n \in Memories
      BY DEF Memories, Pcs, Thinking
    <3>3. n.pc = "call" /\ n.finished = FALSE /\ n.work = m1.work /\ n.inbox = m1.inbox
      BY DEF Memories
    <3> QED
      BY <1>11, <3>1, <3>2, <3>3
  <2>2. Ships(n)'
    BY <1>1, <1>2, <1>7, <1>9, <2>1 DEF Ships, Stands, Thinking
  <2>3. Tells(n)'
    BY <1>1, <1>7, <1>11, <2>1 DEF Tells, Recalls, Follows, Answering
  <2> QED
    BY <1>12, <2>1, <2>2, <2>3
<1>14. CASE w.pending = NoTurn /\ m.inbox # {}
  <2> DEFINE d == Deliver(m)
  <2>1. PICK j \in Works : /\ j = [k EXCEPT !.talk.heard = @ \cup m1.inbox] /\ KeepsShip(k, j)
                           /\ j.told = k.told /\ j.iter = k.iter /\ j.pending = k.pending
                           /\ j.talk = [k.talk EXCEPT !.heard = @ \cup m1.inbox]
    <3>1. k.talk \in TalkSet /\ m1.inbox \in SUBSET Nat
      BY DEF Works, Memories
    <3>2. [k.talk EXCEPT !.heard = @ \cup m1.inbox] \in TalkSet
      BY <3>1 DEF TalkSet
    <3> DEFINE j == [k EXCEPT !.talk.heard = @ \cup m1.inbox]
               t == [k.talk EXCEPT !.heard = @ \cup m1.inbox]
    <3>3. j = [k EXCEPT !.talk = t]
      BY DEF Works
    <3> HIDE DEF j, t
    <3>4. /\ [k EXCEPT !.talk = t] \in Works /\ KeepsShip(k, [k EXCEPT !.talk = t])
          /\ [k EXCEPT !.talk = t].talk = t
      BY <3>2 DEF Works, KeepsShip, t
    <3>5. /\ j.told = k.told /\ j.iter = k.iter /\ j.pending = k.pending
      BY <3>3 DEF Works
    <3> QED
      BY <3>3, <3>4, <3>5 DEF j, t
  <2>2. d \in Memories /\ d.work = j /\ d.inbox = {}
    BY <1>4, <1>5, <2>1 DEF Memories, Deliver
  <2> HIDE DEF d
  <2>3. PICK n \in Memories : /\ n = mem' /\ n.pc = "save" /\ n.then = "trim" /\ n.work = j
                              /\ n.inbox = {}
    <3>1. mem' = SaveThen(d, "trim")
      BY <1>1, <1>14 DEF d
    <3> QED
      BY <2>2, <3>1, SaveType DEF Same, Pcs, Thinking
  <2>4. Shipped(j)' /\ Shipped(j)
    BY <1>6, <1>7, <2>1, ShippedSame, ShippedStays
  <2>5. j.phase = "work"
    BY <1>7, <2>1 DEF KeepsShip
  <2>6. Ships(n)'
    BY <1>1, <1>2, <2>3, <2>4, <2>5 DEF Ships, Stands, Thinking, Ahead, Pcs
  <2>7. /\ j.talk.calls = k.talk.calls /\ j.talk.results = k.talk.results
        /\ j.talk.orphans = k.talk.orphans /\ j.talk.heard = k.talk.heard \cup m1.inbox
    BY <2>1 DEF Works, TalkSet
  <2>8. Known(j) = Known(k) \cup m1.inbox
    BY <2>1, <2>7 DEF Known
  <2>9. Whole(j)
    <3>1. Known(j) \subseteq j.told
      BY <1>7, <1>11, <2>1, <2>8 DEF Whole
    <3> QED
      BY <1>7, <2>1, <2>7, <3>1, WholeHeard
  <2>10. Recalls(n)'
    BY <1>1, <1>11, <2>3, <2>8, <2>9 DEF Recalls
  <2>11. Tells(n)'
    BY <1>2, <1>3, <1>14, <2>1, <2>3, <2>10 DEF Tells, Follows, Answering, InLimit
  <2> QED
    BY <1>12, <2>3, <2>6, <2>11
<1>15. CASE w.pending = NoTurn /\ m.inbox = {}
  <2>1. PICK n \in Memories : n = mem' /\ n.pc = "trim" /\ n.work = k /\ n.inbox = {}
    BY <1>1, <1>4, <1>15, GoType DEF Same, Pcs, Thinking
  <2>2. Ships(n)'
    BY <1>1, <1>2, <1>7, <1>9, <2>1 DEF Ships, Stands, Thinking
  <2>3. Recalls(n)'
    BY <1>1, <1>5, <1>7, <1>11, <1>15, <2>1 DEF Recalls
  <2>4. Tells(n)'
    BY <1>2, <1>3, <1>15, <2>1, <2>3 DEF Tells, Follows, Answering, InLimit
  <2> QED
    BY <1>12, <2>1, <2>2, <2>4
<1> QED
  BY <1>13, <1>14, <1>15

LEMMA TalkedType ==
    ASSUME NEW k \in Works, NEW t \in TalkSet
    PROVE  LET j == [k EXCEPT !.talk = t] IN
           /\ j \in Works /\ KeepsShip(k, j) /\ j.talk = t
           /\ j.iter = k.iter /\ j.told = k.told /\ j.pending = k.pending
BY DEF Works, KeepsShip

LEMMA RoutedType ==
    ASSUME NEW k \in Works, NEW t \in TalkSet, NEW route \in Routes
    PROVE  LET j == [k EXCEPT !.talk = t, !.route = route] IN
           /\ j \in Works /\ KeepsShip(k, j) /\ j.talk = t
           /\ j.iter = k.iter /\ j.told = k.told /\ j.pending = k.pending
BY DEF Works, KeepsShip

LEMMA ForcedType ==
    ASSUME NEW m \in Memories, NEW k \in Works, NEW b \in BOOLEAN
    PROVE  LET n == [m EXCEPT !.work = k, !.force = b] IN
           /\ n \in Memories /\ n.work = k /\ n.inbox = m.inbox
BY DEF Memories

LEMMA ElidedType ==
    ASSUME NEW t \in TalkSet, NEW now \in Nat
    PROVE  /\ Elided(t, now) \in TalkSet
           /\ Elided(t, now).calls = t.calls /\ Elided(t, now).orphans = t.orphans
           /\ Elided(t, now).heard = t.heard
           /\ \A r \in t.results :
                r \in Elided(t, now).results
                \/ \E q \in Elided(t, now).results :
                     q.id = r.id /\ q.kind = "elided" /\ q.of = <<now, 0>>
           /\ \A q \in Elided(t, now).results :
                q \in t.results \/ (q.kind = "elided" /\ \E r \in t.results : q.id = r.id)
<1> DEFINE old == {r \in Long(t) : Old(t, r.id[1])}
           new == {[r EXCEPT !.kind = "elided", !.of = <<now, 0>>] : r \in old}
           e   == [t EXCEPT !.results = (@ \ old) \cup new]
<1>1. Elided(t, now) = t \/ Elided(t, now) = e
  BY DEF Elided
<1>2. old \subseteq t.results /\ t.results \subseteq ResultRows
  BY DEF Long, TalkSet
<1>3. \A r \in old : LET q == [r EXCEPT !.kind = "elided", !.of = <<now, 0>>] IN
          q \in ResultRows /\ q \in new /\ q.id = r.id /\ q.kind = "elided" /\ q.of = <<now, 0>>
  BY <1>2 DEF ResultRows
<1>4. \A q \in new : \E r \in old : q = [r EXCEPT !.kind = "elided", !.of = <<now, 0>>]
  OBVIOUS
<1> HIDE DEF old, new
<1>5. \A q \in new : q \in ResultRows /\ q.kind = "elided" /\ \E r \in t.results : q.id = r.id
  <2> SUFFICES ASSUME NEW q \in new
               PROVE  q \in ResultRows /\ q.kind = "elided" /\ \E r \in t.results : q.id = r.id
    OBVIOUS
  <2>1. PICK r \in old : q = [r EXCEPT !.kind = "elided", !.of = <<now, 0>>]
    BY <1>4
  <2> QED
    BY <1>2, <1>3, <2>1
<1>6. e \in TalkSet /\ e.results = (t.results \ old) \cup new
      /\ e.calls = t.calls /\ e.orphans = t.orphans /\ e.heard = t.heard
  BY <1>2, <1>5 DEF TalkSet
<1> HIDE DEF e
<1>7. \A r \in t.results : r \in e.results \/ \E q \in e.results :
          q.id = r.id /\ q.kind = "elided" /\ q.of = <<now, 0>>
  BY <1>3, <1>6
<1>8. \A q \in e.results : q \in t.results \/ (q.kind = "elided" /\ \E r \in t.results : q.id = r.id)
  BY <1>5, <1>6
<1>9. CASE Elided(t, now) = t
  BY <1>9
<1>10. CASE Elided(t, now) = e
  BY <1>6, <1>7, <1>8, <1>10
<1> QED
  BY <1>1, <1>9, <1>10

LEMMA ElidedWhole ==
    ASSUME NEW work \in Works, NEW k \in Works, Whole(work), work.pending = NoTurn,
           k.talk = Elided(work.talk, work.iter), k.iter = work.iter, k.pending = NoTurn,
           k.told = work.told
    PROVE  Whole(k) /\ Known(k) = Known(work)
<1> DEFINE e == k.talk.results
           t == work.talk.results
<1>1. work.talk \in TalkSet /\ work.iter \in Nat /\ t \subseteq ResultRows
  BY DEF Works, TalkSet
<1>2. /\ k.talk.calls = work.talk.calls /\ k.talk.orphans = work.talk.orphans
      /\ k.talk.heard = work.talk.heard
      /\ \A r \in t : r \in e \/ \E q \in e :
             q.id = r.id /\ q.kind = "elided" /\ q.of = <<work.iter, 0>>
      /\ \A q \in e : q \in t \/ (q.kind = "elided" /\ \E r \in t : q.id = r.id)
  <2> HIDE DEF e, t
  <2>1. /\ Elided(work.talk, work.iter).calls = work.talk.calls
        /\ Elided(work.talk, work.iter).orphans = work.talk.orphans
        /\ Elided(work.talk, work.iter).heard = work.talk.heard
    BY <1>1, ElidedType
  <2>2. /\ \A r \in work.talk.results :
             r \in Elided(work.talk, work.iter).results
             \/ \E q \in Elided(work.talk, work.iter).results :
                  q.id = r.id /\ q.kind = "elided" /\ q.of = <<work.iter, 0>>
        /\ \A q \in Elided(work.talk, work.iter).results :
             q \in work.talk.results
             \/ (q.kind = "elided" /\ \E r \in work.talk.results : q.id = r.id)
    BY <1>1, ElidedType
  <2> QED
    BY <2>1, <2>2 DEF e, t
<1>3. Known(k) = Known(work)
  BY <1>2 DEF Known
<1> HIDE DEF e, t
<1>4. /\ \A c \in work.talk.calls : c \in {r.id : r \in t} \cup work.talk.orphans
      /\ \A r \in t : r.id[1] <= work.iter /\ ShownIn(r, t)
  BY NoTurnType DEF Whole, t
<1>5. \A c \in k.talk.calls : c \in {r.id : r \in e} \cup k.talk.orphans
  BY <1>2, <1>4
<1>6. \A q \in e : q.id[1] <= k.iter
  BY <1>2, <1>4
<1>7. ASSUME NEW n \in e, n.kind = "note" PROVE ShownIn(n, e)
  <2>1. n \in t
    BY <1>2, <1>7
  <2>2. PICK r \in t : r.id = n.of /\ (r.kind = "long" \/ (r.kind = "elided" /\ n.id[1] <= r.of[1]))
    BY <1>4, <1>7, <2>1 DEF ShownIn
  <2>3. CASE r \in e
    BY <2>2, <2>3 DEF ShownIn
  <2>4. CASE r \notin e
    <3>1. PICK q \in e : q.id = r.id /\ q.kind = "elided" /\ q.of = <<work.iter, 0>>
      BY <1>2, <2>4
    <3>2. n.id[1] <= q.of[1]
      BY <1>4, <2>1, <3>1
    <3> QED
      BY <2>2, <3>1, <3>2 DEF ShownIn
  <2> QED
    BY <2>3, <2>4
<1>8. \A n \in e : ShownIn(n, e)
  BY <1>7 DEF ShownIn
<1>9. Known(k) \subseteq k.told /\ k.pending.at <= k.iter /\ k.iter <= MaxTurns
  BY <1>3, NoTurnType DEF Whole
<1> QED
  BY <1>3, <1>5, <1>6, <1>8, <1>9, NoTurnType DEF Whole, e

LEMMA SummaryWhole ==
    ASSUME NEW work \in Works, NEW k \in Works, k.talk = Summary(work), k.told = work.told,
           k.pending = NoTurn, k.iter = work.iter, work.iter <= MaxTurns
    PROVE  Whole(k) /\ Known(k) = k.told
<1>1. k.talk.calls = {} /\ k.talk.results = {} /\ k.talk.heard = k.told
  BY DEF Summary, NewTalk
<1>2. k.iter \in Nat
  BY DEF Works
<1> QED
  BY <1>1, <1>2, NoTurnType DEF Whole, Known

LEMMA SummaryType ==
    ASSUME NEW work \in Works
    PROVE  Summary(work) \in TalkSet
BY NewTalkType DEF Summary, TalkSet, Works

LEMMA TrimKeeps ==
    ASSUME AgentIInv, Trim
    PROVE  AgentIInv'
<1> DEFINE t  == Elided(w.talk, w.iter)
           m  == [mem EXCEPT !.work.talk = t]
           ms == [m EXCEPT !.work.talk = Summary(m.work), !.force = FALSE, !.work.route = ""]
<1>1. mem.pc = "trim" /\ MemoryOnly /\ (mem' = SaveThen(ms, "model") \/ mem' = Go(m, "model"))
  BY DEF Trim, At, MemoryOnly
<1>2. /\ mem \in Memories /\ w \in Works /\ Shipped(w) /\ Recalls(mem)
      /\ w.phase = "work" /\ saved.phase = "work" /\ InLimit(w)
      /\ mem.inbox = {} /\ w.pending = NoTurn
  BY <1>1, Facts DEF Thinking, Follows, Answering
<1>3. t \in TalkSet
  BY <1>2, ElidedType DEF Works
<1>4. PICK k \in Works : /\ k = [w EXCEPT !.talk = t]
                         /\ KeepsShip(w, k) /\ k.talk = t /\ k.iter = w.iter /\ k.told = w.told
                         /\ k.pending = w.pending
  <2> HIDE DEF t
  <2> QED
    BY <1>2, <1>3, TalkedType
<1>5. m = [mem EXCEPT !.work = k]
  BY <1>2, <1>4 DEF Memories
<1>6. m \in Memories /\ m.work = k /\ m.inbox = {} /\ m.pc = "trim"
  <2> HIDE DEF m
  <2> QED
    BY <1>1, <1>2, <1>5, WorkType
<1>7. Whole(k) /\ Known(k) = Known(w) /\ Shipped(k)
  BY <1>2, <1>4, ElidedWhole, ShippedSame DEF Recalls
<1> HIDE DEF m, t
<1>8. CASE mem' = Go(m, "model")
  <2>1. PICK n \in Memories : n = mem' /\ n.pc = "model" /\ n.work = k /\ n.inbox = {}
    BY <1>6, <1>8, GoType DEF Same, Pcs, Thinking
  <2>2. Ships(n)
    BY <1>2, <1>4, <1>7, <2>1 DEF Ships, Stands, Thinking, KeepsShip
  <2>3. Tells(n)
    BY <1>2, <1>4, <1>7, <2>1 DEF Tells, Recalls, Follows, Answering, InLimit
  <2> QED
    BY <1>1, <2>1, <2>2, <2>3, OnlyMemory
<1>9. CASE mem' = SaveThen(ms, "model")
  <2>1. Summary(k) \in TalkSet
    BY SummaryType
  <2>2. PICK j \in Works : /\ j = [k EXCEPT !.talk = Summary(k), !.route = ""]
                           /\ KeepsShip(k, j) /\ j.talk = Summary(k) /\ j.iter = k.iter
                           /\ j.told = k.told /\ j.pending = k.pending
    <3>1. PICK none \in Routes : none = ""
      BY Empty
    <3> DEFINE j == [k EXCEPT !.talk = Summary(k), !.route = none]
    <3>2. /\ j \in Works /\ KeepsShip(k, j) /\ j.talk = Summary(k) /\ j.iter = k.iter
          /\ j.told = k.told /\ j.pending = k.pending
      BY <2>1, RoutedType
    <3>3. j = [k EXCEPT !.talk = Summary(k), !.route = ""]
      BY <3>1, Zenon
    <3> QED
      BY <3>2, <3>3, Zenon
  <2>3. PICK n \in Memories : n = ms /\ n.work = j /\ n.inbox = {}
    <3>1. m.work = k /\ m \in Memories
      BY <1>6
    <3>2. ms = [m EXCEPT !.work = j, !.force = FALSE]
      BY <2>2, <3>1 DEF Memories
    <3> HIDE DEF ms
    <3>3. ms \in Memories /\ ms.work = j /\ ms.inbox = m.inbox
      BY <3>1, <3>2, ForcedType
    <3> QED
      BY <1>6, <3>3
  <2>4. Whole(j) /\ Known(j) = j.told /\ Shipped(j)
    <3>1. j.pending = NoTurn /\ j.iter = k.iter /\ k.iter <= MaxTurns
      BY <1>2, <1>4, <1>7, <2>2 DEF Whole
    <3> QED
      BY <1>7, <2>2, <3>1, SummaryWhole, ShippedSame
  <2>5. Recalls(n)
    <3>1. Known(k) \subseteq k.told /\ taken \subseteq Known(k) \cup dropped
      BY <1>2, <1>7 DEF Recalls, Whole
    <3> QED
      BY <2>2, <2>3, <2>4, <3>1 DEF Recalls
  <2>6. Stands("model", j) /\ Follows("model", n) /\ "model" \in Ahead
    BY <1>2, <1>4, <2>2, <2>3
       DEF Stands, Thinking, KeepsShip, Follows, Answering, Ahead, Pcs, InLimit
  <2> QED
    BY <1>1, <1>9, <2>3, <2>4, <2>5, <2>6, SavesNext
<1> QED
  BY <1>1, <1>8, <1>9

(* An answer, to the conversation m has or to a summary of it.               *)
Next1(work) == work.iter + 1

LEMMA NextTurn ==
    ASSUME NEW work \in Works
    PROVE  /\ work.iter \in Nat /\ Next1(work) \in Nat /\ work.iter <= Next1(work)
           /\ InLimit(work) => Next1(work) <= MaxTurns
<1>1. PICK i \in Nat : i = work.iter
  BY DEF Works
<1>2. Next1(work) = i + 1 /\ (InLimit(work) <=> i < MaxTurns)
  BY <1>1, Zenon DEF Next1, InLimit
<1> QED
  BY <1>1, <1>2, AgentRunAssumption

NewCalls(n, list) == {<<n, i>> : i \in DOMAIN list}

LEMMA SaidType ==
    ASSUME NEW m \in Memories, NEW list \in Turns, NEW route \in Routes
    PROVE  LET n == Said(m, list, route) IN
           /\ n \in Memories /\ n.pc = m.pc /\ n.inbox = m.inbox
           /\ KeepsShip(m.work, n.work) /\ n.work.iter = Next1(m.work)
           /\ n.work.told = m.work.told /\ n.work.pending = m.work.pending
           /\ n.work.talk.calls = m.work.talk.calls \cup NewCalls(Next1(m.work), list)
           /\ n.work.talk.results = m.work.talk.results
           /\ n.work.talk.orphans = m.work.talk.orphans
           /\ n.work.talk.heard = m.work.talk.heard
<1> DEFINE c == m.work.talk.calls \cup NewCalls(Next1(m.work), list)
           t == [m.work.talk EXCEPT !.calls = c]
           j == [m.work EXCEPT !.iter = Next1(m.work), !.route = route, !.talk = t]
<1>1. m.work \in Works /\ m.work.iter \in Nat /\ m.work.talk \in TalkSet /\ list \in Seq(Tools)
  BY AgentRunAssumption DEF Memories, Works
<1>2. NewCalls(Next1(m.work), list) \in SUBSET CallIds
  <2>1. DOMAIN list \subseteq Nat /\ Next1(m.work) \in Nat
    BY <1>1, NextTurn
  <2> QED
    BY <2>1 DEF NewCalls, CallIds
<1>3. /\ t \in TalkSet /\ t.calls = c
      /\ t.results = m.work.talk.results /\ t.orphans = m.work.talk.orphans
      /\ t.heard = m.work.talk.heard
  BY <1>1, <1>2 DEF TalkSet
<1>4. Said(m, list, route) = [m EXCEPT !.work = j]
  BY <1>1 DEF Said, NewCalls, Next1, Memories, Works
<1> HIDE DEF t
<1>5. /\ j \in Works /\ KeepsShip(m.work, j) /\ j.iter = Next1(m.work) /\ j.talk = t
      /\ j.told = m.work.told /\ j.pending = m.work.pending
  <2>1. PICK k \in Works, i \in Nat, s \in TalkSet : k = m.work /\ i = Next1(m.work) /\ s = t
    BY <1>1, <1>3, NextTurn
  <2> DEFINE q == [k EXCEPT !.iter = i, !.route = route, !.talk = s]
  <2>2. /\ q \in Works /\ KeepsShip(k, q) /\ q.talk = s /\ q.iter = i
        /\ q.told = k.told /\ q.pending = k.pending
    BY DEF Works, KeepsShip
  <2>3. j = q
    BY <2>1
  <2> QED
    BY <2>1, <2>2, <2>3
<1> HIDE DEF j
<1>6. LET n == [m EXCEPT !.work = j] IN
      n \in Memories /\ n.pc = m.pc /\ n.inbox = m.inbox /\ n.work = j
  BY <1>5, WorkType
<1> QED
  BY <1>3, <1>4, <1>5, <1>6

LEMMA AnswerKeeps ==
    ASSUME AgentIInv, MemoryOnly, mem.pc \in {"model", "switched"},
           NEW m \in Memories, NEW route \in Routes, Answer(m, route),
           m.inbox = {}, m.work.pending = NoTurn, InLimit(m.work), m.work.phase = "work",
           Shipped(m.work), Recalls(m)
    PROVE  AgentIInv'
<1>0. mem.pc # "idle" /\ saved.phase = "work"
  BY Facts DEF Thinking
<1>1. PICK list \in Turns :
          LET said == Said(m, list, route)
              text == [said EXCEPT !.text = @ + 1] IN
          mem' = IF list # << >> THEN Calls(said, list)
                 ELSE SaveThen(text, IF text.text >= MaxText THEN "blocked" ELSE "loop")
  BY DEF Answer
<1>2. PICK n \in Memories :
           /\ n = Said(m, list, route) /\ n.pc = m.pc /\ n.inbox = m.inbox
           /\ KeepsShip(m.work, n.work) /\ n.work.iter = Next1(m.work)
           /\ n.work.told = m.work.told /\ n.work.pending = m.work.pending
           /\ n.work.talk.calls = m.work.talk.calls \cup NewCalls(Next1(m.work), list)
           /\ n.work.talk.results = m.work.talk.results
           /\ n.work.talk.orphans = m.work.talk.orphans
           /\ n.work.talk.heard = m.work.talk.heard
  BY SaidType
<1>3. PICK k \in Works : k = n.work
  BY DEF Memories
<1>4. /\ m.work.iter \in Nat /\ k.iter \in Nat /\ k.iter <= MaxTurns /\ k.phase = "work" /\ Shipped(k)
      /\ k.talk \in TalkSet /\ k.talk.results \subseteq ResultRows /\ list \in Seq(Tools)
  <2>1. m.work \in Works
    BY DEF Memories
  <2>2. k.iter = Next1(m.work) /\ list \in Seq(Tools)
    BY <1>2, <1>3, AgentRunAssumption
  <2>3. k.phase = "work" /\ Shipped(k)
    BY <1>2, <1>3, ShippedSame DEF KeepsShip
  <2>4. k.talk \in TalkSet /\ k.talk.results \subseteq ResultRows
    BY DEF Works, TalkSet
  <2>5. m.work.iter \in Nat /\ k.iter \in Nat /\ k.iter <= MaxTurns
    BY <2>1, <2>2, NextTurn
  <2> QED
    BY <2>1, <2>2, <2>3, <2>4, <2>5
<1>5. /\ \A c \in m.work.talk.calls :
           c \in {r.id : r \in k.talk.results} \cup k.talk.orphans
      /\ \A r \in k.talk.results : r.id[1] <= m.work.iter /\ ShownIn(r, k.talk.results)
      /\ k.talk.heard \subseteq k.told
      /\ taken \subseteq k.talk.heard \cup dropped
  <2>1. /\ Whole(m.work) /\ taken \subseteq Known(m.work) \cup dropped
        /\ k.talk.results = m.work.talk.results /\ k.talk.orphans = m.work.talk.orphans
        /\ k.talk.heard = m.work.talk.heard /\ k.told = m.work.told
    BY <1>2, <1>3 DEF Recalls
  <2>2. Known(m.work) = k.talk.heard
    BY <2>1, NoTurnType DEF Known
  <2>3. \A c \in m.work.talk.calls : c \in {r.id : r \in k.talk.results} \cup k.talk.orphans
    BY <2>1, NoTurnType DEF Whole
  <2>4. \A r \in k.talk.results : r.id[1] <= m.work.iter /\ ShownIn(r, k.talk.results)
    BY <2>1 DEF Whole
  <2>5. k.talk.heard \subseteq k.told
    BY <2>1, <2>2 DEF Whole
  <2> QED
    BY <2>1, <2>2, <2>3, <2>4, <2>5
<1>6. \A r \in k.talk.results : r.id[1] <= k.iter
  <2>1. \A r \in k.talk.results : r.id[1] \in Nat
    BY <1>4 DEF ResultRows
  <2>2. m.work.iter <= k.iter
    BY <1>2, <1>3, NextTurn DEF Memories
  <2>3. PICK i \in Nat, j \in Nat : i = m.work.iter /\ j = k.iter
    BY <1>4
  <2> QED
    BY <1>5, <2>1, <2>2, <2>3
<1>7. CASE list # << >>
  <2> DEFINE turn == [NoTurn EXCEPT !.calls = list, !.at = k.iter]
             j == [k EXCEPT !.pending = turn]
  <2>1. /\ turn \in TurnSet /\ turn.calls = list /\ turn.at = k.iter /\ turn.results = {}
        /\ turn.heard = {}
    BY <1>4, NoTurnType DEF TurnSet, Works
  <2> HIDE DEF turn
  <2>2. /\ j \in Works /\ KeepsShip(k, j) /\ j.pending = turn /\ j.talk = k.talk
        /\ j.iter = k.iter /\ j.told = k.told
    BY <2>1 DEF Works, KeepsShip
  <2> HIDE DEF j
  <2>3. PICK q \in Memories : /\ q = mem' /\ q.pc = "call" /\ q.finished = FALSE
                              /\ q.work = j /\ q.inbox = {}
    <3>1. mem' = Calls(n, list)
      BY <1>1, <1>2, <1>7
    <3>2. n.work = k /\ n.inbox = {}
      BY <1>2, <1>3
    <3> DEFINE q == [n EXCEPT !.pc = "call", !.text = 0, !.again = FALSE, !.finished = FALSE,
                             !.work = j]
    <3>3. Calls(n, list) = q
      BY <3>2 DEF Calls, j, turn, Memories, Works
    <3>4. q \in Memories /\ q.pc = "call" /\ q.work = j /\ q.inbox = n.inbox
      BY <2>2 DEF Memories, Pcs, Thinking
    <3>5. q.finished = FALSE
      BY DEF Memories
    <3> QED
      BY <3>1, <3>2, <3>3, <3>4, <3>5
  <2>4. Whole(j)
    <3>1. \A c \in j.talk.calls :
            \/ c \in {r.id : r \in j.talk.results} \cup j.talk.orphans
            \/ c[1] = j.pending.at /\ c[2] \in DOMAIN j.pending.calls
      <4>1. j.talk.calls = m.work.talk.calls \cup NewCalls(k.iter, list)
        BY <1>2, <1>3, <2>2
      <4>2. \A c \in NewCalls(k.iter, list) : c[1] = k.iter /\ c[2] \in DOMAIN list
        BY DEF NewCalls
      <4> QED
        BY <1>5, <2>1, <2>2, <4>1, <4>2
    <3>2. Known(j) = k.talk.heard
      BY <2>1, <2>2 DEF Known
    <3> QED
      <4>1. \A x \in j.talk.results \cup j.pending.results :
              x.id[1] <= j.iter /\ ShownIn(x, j.talk.results)
        BY <1>5, <1>6, <2>1, <2>2
      <4>2. j.pending.results = {} /\ j.pending.heard = {} /\ j.pending.at <= j.iter
            /\ j.iter <= MaxTurns /\ Known(j) \subseteq j.told
        <5>1. k.iter <= k.iter
          BY <1>4
        <5> QED
          BY <1>4, <1>5, <2>1, <2>2, <3>2, <5>1
      <4> QED
        BY <3>1, <4>1, <4>2 DEF Whole
  <2>5. Ships(q)
    BY <1>0, <1>4, <2>2, <2>3, ShippedSame DEF Ships, Stands, Thinking, KeepsShip
  <2>6. Tells(q)
    <3>1. Known(j) = k.talk.heard
      BY <2>1, <2>2 DEF Known
    <3> QED
      BY <1>5, <2>3, <2>4, <3>1 DEF Tells, Recalls, Follows, Answering
  <2> QED
    BY <1>0, <2>3, <2>5, <2>6, OnlyMemory
<1>8. CASE list = << >>
  <2>1. PICK q \in Memories : /\ q.work = k /\ q.inbox = {}
                              /\ mem' = SaveThen(q, "blocked") \/ mem' = SaveThen(q, "loop")
    <3> DEFINE q == [n EXCEPT !.text = @ + 1]
    <3>1. mem' = SaveThen(q, "blocked") \/ mem' = SaveThen(q, "loop")
      BY <1>1, <1>2, <1>8
    <3>2. q \in Memories /\ q.work = n.work /\ q.inbox = n.inbox
      <4>1. n.text + 1 \in Nat
        BY DEF Memories
      <4> QED
        BY <4>1 DEF Memories
    <3> QED
      BY <1>2, <1>3, <3>1, <3>2
  <2>2. Whole(k) /\ Known(k) = k.talk.heard
    <3>1. NewCalls(Next1(m.work), list) = {}
      <4>1. DOMAIN list = {}
        BY <1>8
      <4> QED
        BY <4>1 DEF NewCalls
    <3>2. k.talk.calls = m.work.talk.calls /\ k.pending = NoTurn
      BY <1>2, <1>3, <3>1
    <3>3. Known(k) = k.talk.heard
      BY <3>2, NoTurnType DEF Known
    <3>4. 0 <= k.iter
      BY <1>4
    <3> QED
      BY <1>4, <1>5, <1>6, <3>2, <3>3, <3>4, NoTurnType DEF Whole
  <2>3. Recalls(q)
    BY <1>5, <2>1, <2>2 DEF Recalls
  <2>4. \A pc \in {"blocked", "loop"} : pc \in Ahead /\ Stands(pc, k) /\ Follows(pc, q)
    BY DEF Ahead, Pcs, Ends, Stands, Follows, Thinking, Answering
  <2> QED
    BY <1>0, <1>4, <2>1, <2>3, <2>4, SavesNext
<1> QED
  BY <1>7, <1>8

(* The model that carries the conversation, or another with a summary of it.  *)
LEMMA RouteType ==
    ASSUME NEW k \in Works
    PROVE  /\ (IF k.route = "" THEN "first" ELSE k.route) \in Routes
           /\ (IF k.route = "first" THEN "second" ELSE "first") \in Routes
BY Zenon DEF Works, Routes

LEMMA AtModel ==
    ASSUME AgentIInv, mem.pc \in {"model", "switched"}
    PROVE  /\ mem.pc # "idle" /\ mem \in Memories /\ w \in Works /\ Shipped(w) /\ Recalls(mem)
           /\ w.phase = "work" /\ saved.phase = "work" /\ InLimit(w)
           /\ mem.inbox = {} /\ w.pending = NoTurn
BY Facts DEF Thinking, Follows, Answering

LEMMA SameModelKeeps ==
    ASSUME AgentIInv, SameModel
    PROVE  AgentIInv'
<1> DEFINE route == IF w.route = "" THEN "first" ELSE w.route
<1>1. mem.pc = "model" /\ MemoryOnly /\ Answer(mem, route)
  BY Zenon DEF SameModel, At, MemoryOnly
<1>2. /\ mem \in Memories /\ w \in Works /\ Shipped(w) /\ Recalls(mem)
      /\ w.phase = "work" /\ InLimit(w) /\ mem.inbox = {} /\ w.pending = NoTurn
  BY <1>1, AtModel
<1>3. route \in Routes
  BY <1>2, RouteType
<1> HIDE DEF route
<1>4. PICK m \in Memories, r \in Routes : m = mem /\ r = route
  BY <1>2, <1>3
<1>5. Answer(m, r)
  BY <1>1, <1>4
<1>6. /\ m.inbox = {} /\ m.work.pending = NoTurn /\ InLimit(m.work) /\ m.work.phase = "work"
      /\ Shipped(m.work) /\ Recalls(m)
  BY <1>2, <1>4
<1> QED
  BY <1>1, <1>5, <1>6, AnswerKeeps

LEMMA SwitchKeeps ==
    ASSUME AgentIInv, Switch
    PROVE  AgentIInv'
<1>1. mem.pc = "model" /\ MemoryOnly /\ mem' = SaveThen(mem, "switched")
  BY Zenon DEF Switch, At, MemoryOnly
<1>2. "switched" \in Ahead /\ Stands("switched", w) /\ Follows("switched", mem)
  BY <1>1, AtModel DEF Ahead, Pcs, Stands, Follows, Thinking, Answering
<1> QED
  BY <1>1, <1>2, AtModel, SavesNext

LEMMA OtherModelKeeps ==
    ASSUME AgentIInv, OtherModel
    PROVE  AgentIInv'
<1> DEFINE route == IF w.route = "first" THEN "second" ELSE "first"
           sum   == Summary(w)
           n     == [mem EXCEPT !.work.talk = sum]
<1>1. mem.pc = "switched" /\ MemoryOnly /\ Answer(n, route)
  BY Zenon DEF OtherModel, At, MemoryOnly
<1>2. /\ mem \in Memories /\ w \in Works /\ Shipped(w) /\ Recalls(mem)
      /\ w.phase = "work" /\ InLimit(w) /\ mem.inbox = {} /\ w.pending = NoTurn
  BY <1>1, AtModel
<1>3. route \in Routes /\ sum \in TalkSet
  BY <1>2, RouteType, SummaryType
<1>4. PICK k \in Works : /\ k = [w EXCEPT !.talk = sum]
                         /\ KeepsShip(w, k) /\ k.talk = sum /\ k.iter = w.iter /\ k.told = w.told
                         /\ k.pending = w.pending
  <2> HIDE DEF sum
  <2> QED
    BY <1>2, <1>3, TalkedType
<1>5. n = [mem EXCEPT !.work = k]
  <2> HIDE DEF sum
  <2> QED
    BY <1>2, <1>4 DEF Memories
<1>6. n \in Memories /\ n.work = k /\ n.inbox = {}
  <2> HIDE DEF n
  <2> QED
    BY <1>2, <1>5, WorkType
<1> HIDE DEF route, n
<1>7. PICK m \in Memories, r \in Routes : m = n /\ r = route
  BY <1>3, <1>6
<1>8. Answer(m, r)
  BY <1>1, <1>7
<1>9. Whole(w) /\ taken \subseteq Known(w) \cup dropped /\ Known(w) \subseteq w.told
  BY <1>2 DEF Recalls, Whole
<1>10. Whole(k) /\ Known(k) = k.told /\ Shipped(k)
  <2>1. w.iter <= MaxTurns
    BY <1>9 DEF Whole
  <2> QED
    BY <1>2, <1>4, <2>1, SummaryWhole, ShippedSame
<1>11. Recalls(m)
  BY <1>4, <1>6, <1>7, <1>9, <1>10 DEF Recalls
<1>12. m.inbox = {} /\ m.work.pending = NoTurn /\ InLimit(m.work) /\ m.work.phase = "work"
       /\ Shipped(m.work)
  BY <1>2, <1>4, <1>6, <1>7, <1>10 DEF InLimit, KeepsShip
<1> QED
  BY <1>1, <1>8, <1>11, <1>12, AnswerKeeps

LEMMA WaitedKeeps ==
    ASSUME AgentIInv, Waited
    PROVE  AgentIInv'
<1>1. mem.pc = "waited" /\ MemoryOnly
      /\ (mem' = SaveThen(mem, "blocked") \/ mem' = SaveThen(mem, "loop"))
  BY DEF Waited, At, MemoryOnly
<1> QED
  BY <1>1, Stops

LEMMA NoModelKeeps ==
    ASSUME AgentIInv, NoModel
    PROVE  AgentIInv'
<1> DEFINE waits == [mem EXCEPT !.waits = @ + 1]
           small == [mem EXCEPT !.work.sizeAt = w.iter, !.force = TRUE]
<1>1. mem.pc \in {"model", "switched"} /\ MemoryOnly
      /\ \/ mem' = SaveThen(waits, "waited")
         \/ mem' = SaveThen(small, "loop")
         \/ mem' = SaveThen(mem, "blocked")
  BY DEF NoModel, MemoryOnly
<1>2. /\ mem.pc # "idle" /\ mem \in Memories /\ w \in Works /\ Shipped(w) /\ Recalls(mem)
      /\ w.phase = "work" /\ InLimit(w) /\ mem.inbox = {} /\ w.pending = NoTurn
  BY <1>1, AtModel
<1>3. CASE mem' = SaveThen(waits, "waited")
  <2>1. mem.waits \in Nat
    BY <1>2 DEF Memories
  <2>2. mem.waits + 1 \in Nat
    BY <2>1
  <2>3. waits \in Memories /\ waits.work = w /\ waits.inbox = mem.inbox
    BY <1>2, <2>2 DEF Memories
  <2> HIDE DEF waits
  <2>4. PICK m \in Memories : m = waits
    BY <2>3
  <2>5. "waited" \in Ahead /\ Stands("waited", m.work) /\ Follows("waited", m)
    BY <1>2, <2>3, <2>4 DEF Ahead, Pcs, Stands, Follows, Thinking, Answering
  <2>6. Shipped(m.work) /\ Recalls(m)
    BY <1>2, <2>3, <2>4, RecallsSame DEF KeepsTalk
  <2> QED
    BY <1>1, <1>2, <1>3, <2>4, <2>5, <2>6, SavesNext
<1>4. CASE mem' = SaveThen(small, "loop")
  <2>1. w.iter \in Nat
    BY <1>2 DEF Works
  <2>2. PICK k \in Works : /\ k = [w EXCEPT !.sizeAt = w.iter]
                           /\ KeepsShip(w, k) /\ KeepsTalk(w, k)
    <3> DEFINE k == [w EXCEPT !.sizeAt = w.iter]
    <3>1. PICK i \in Nat : i = w.iter
      BY <2>1
    <3>2. [w EXCEPT !.sizeAt = i] \in Works
      BY <1>2 DEF Works
    <3>3. KeepsShip(w, k) /\ KeepsTalk(w, k)
      BY <1>2 DEF Works, KeepsShip, KeepsTalk
    <3> QED
      BY <3>1, <3>2, <3>3
  <2>3. small = [mem EXCEPT !.work = k, !.force = TRUE]
    BY <1>2, <2>2 DEF Memories
  <2> HIDE DEF small
  <2>4. small \in Memories /\ small.work = k /\ small.inbox = mem.inbox
    BY <1>2, <2>3, ForcedType
  <2>5. PICK m \in Memories : m = small
    BY <2>4
  <2>6. "loop" \in Ahead /\ Stands("loop", m.work) /\ Follows("loop", m)
    BY DEF Ahead, Pcs, Stands, Follows, Thinking, Answering
  <2>7. Shipped(m.work) /\ Recalls(m)
    BY <1>2, <2>2, <2>4, <2>5, RecallsSame, ShippedSame
  <2> QED
    BY <1>1, <1>2, <1>4, <2>5, <2>6, <2>7, SavesNext
<1>5. CASE mem' = SaveThen(mem, "blocked")
  BY <1>1, <1>2, <1>5, Stops
<1> QED
  BY <1>1, <1>3, <1>4, <1>5


-----------------------------------------------------------------------------
(* The tools.                                                               *)
Rows == UNCHANGED <<status, saved, dropped, crashes, resumes, publish, unread, taken>>

OutTypes ==
    /\ tree \in [edits : Nat, guarded : BOOLEAN]
    /\ leave \in [{"change", "merge"} -> {"no", "pending", "approved", "rejected"}]
    /\ published \in SUBSET Pushes

LEMMA StepKeeps ==
    ASSUME AgentIInv, mem.pc # "idle", NEW n \in Memories, mem' = n, n.pc # "idle", Rows,
           OutTypes', GatedPushes', Shipped(saved)', Ships(n)', Tells(n)
    PROVE  AgentIInv'
<1>1. PICK k \in Works : k = saved
  BY RowTypes
<1>2. Types' /\ Replies'
  BY DEF AgentIInv, Types, Replies, Rows, OutTypes
<1>3. Tells(n)'
  BY DEF Tells, Recalls, Rows
<1>4. saved' = k /\ Whole(k) /\ status' = "running"
  BY <1>1 DEF Rows, AgentIInv
<1>5. Shipped(k)'
  BY <1>4 DEF Shipped, Passed, Allowed, OnBranch
<1> QED
  BY <1>2, <1>3, <1>4, <1>5, NextState

LEMMA StepSaves ==
    ASSUME AgentIInv, mem.pc # "idle", NEW m \in Memories, NEW pc \in Ahead,
           mem' = SaveThen(m, pc), Rows, OutTypes', GatedPushes', Shipped(saved)',
           Shipped(m.work)', Stands(pc, m.work)', Recalls(m), Follows(pc, m)
    PROVE  AgentIInv'
<1>1. PICK n \in Memories : /\ n = SaveThen(m, pc)
                            /\ n.pc = "save" /\ n.then = pc /\ n.work = m.work /\ n.inbox = m.inbox
  BY SaveType DEF Ahead, Same
<1>2. Ships(n)'
  BY <1>1 DEF Ships, Thinking
<1>3. Tells(n)
  BY <1>1 DEF Tells, Recalls, Follows
<1> QED
  BY <1>1, <1>2, <1>3, StepKeeps

LEMMA RequestedOnward ==
    ASSUME AgentIInv, NEW what \in {"change", "merge"}, Requested(what),
           UNCHANGED <<tree, published, publish>>
    PROVE  /\ Onward /\ OutTypes' /\ GatedPushes'
           /\ leave[what] # "no" => leave' = leave
<1>1. leave' = [leave EXCEPT ![what] = IF leave[what] = "no" THEN "pending" ELSE leave[what]]
  BY DEF Requested
<1>2. leave \in [{"change", "merge"} -> {"no", "pending", "approved", "rejected"}]
  BY DEF AgentIInv, Types
<1>3. Onward /\ leave' \in [{"change", "merge"} -> {"no", "pending", "approved", "rejected"}]
  BY <1>1, <1>2 DEF Onward
<1>4. OutTypes' /\ GatedPushes'
  BY <1>3 DEF AgentIInv, Types, OutTypes, GatedPushes, Onward
<1>5. leave[what] # "no" => leave' = leave
  BY <1>1, <1>2
<1> QED
  BY <1>3, <1>4, <1>5

(* While the model works, edits change nothing that was let out.             *)
LEMMA WorkShips ==
    ASSUME NEW k \in Works, k.phase = "work", Shipped(k), OutTypes, OutTypes',
           tree.edits <= tree'.edits
    PROVE  Shipped(k)'
<1>1. k.merged = FALSE
  BY DEF Shipped, Works
<1>2. k.pushed <= tree'.edits
  <2>1. k.pushed \in Nat /\ tree.edits \in Nat /\ tree'.edits \in Nat
    BY DEF Works, OutTypes
  <2>2. k.pushed <= tree.edits
    BY DEF Shipped
  <2> QED
    BY <2>1, <2>2
<1> QED
  BY <1>1, <1>2 DEF Shipped

(* The next call to carry out.                                              *)
LEMMA LeastOne ==
    ASSUME NEW S, S \subseteq Nat, S # {}
    PROVE  \E i \in S : \A j \in S : i <= j
<1> DEFINE Less == OpToRel(<, Nat)
<1>1. IsWellFoundedOn(Less, Nat)
  BY NatLessThanWellFounded
<1>2. PICK i \in S : \A j \in S : ~(<<j, i>> \in Less)
  <2> HIDE DEF Less
  <2> QED
    BY <1>1, WFMin
<1>3. \A j \in S : j < i => <<j, i>> \in Less
  BY DEF OpToRel
<1>4. \A j \in S : ~(j < i)
  <2> HIDE DEF Less
  <2> QED
    BY <1>2, <1>3
<1>5. \A j \in S : i <= j
  <2> TAKE j \in S
  <2>1. i \in Nat /\ j \in Nat
    OBVIOUS
  <2> QED
    BY <1>4, <2>1
<1> QED
  BY <1>5

LEMMA CallIdType ==
    ASSUME mem \in Memories, Left # {}
    PROVE  /\ Position \in Left /\ CallId \in CallIds /\ CallId[1] = w.pending.at
           /\ CallId[2] = Position
<1>1. w.pending.at \in Nat /\ w.pending.calls \in Seq(Tools)
  BY DEF Memories, Works, TurnSet
<1>2. DOMAIN w.pending.calls \subseteq Nat
  BY <1>1
<1>3. Left \subseteq Nat
  BY <1>2 DEF Left
<1>4. Position \in Left
  <2> DEFINE L == Left
  <2>1. Position = CHOOSE i \in L : \A j \in L : i <= j
    BY DEF Position
  <2>2. L \subseteq Nat /\ L # {}
    BY <1>3
  <2> HIDE DEF L
  <2>3. \E i \in L : \A j \in L : i <= j
    BY <2>2, LeastOne
  <2>4. Position \in L
    BY <2>1, <2>3
  <2> QED
    BY <2>4 DEF L
<1> QED
  BY <1>1, <1>3, <1>4 DEF CallId, CallIds


(* A call gets its result, and nothing but the memory of the turn changes in   *)
(* the work: what GetsResult says of the work j after it.                      *)
Row(kind, of) == [id |-> CallId, kind |-> kind, of |-> of]

Kinds == {"long", "short", "error", "note", "elided"}

LEMMA RowType ==
    ASSUME mem \in Memories, Left # {}, NEW kind \in Kinds, NEW of \in CallIds
    PROVE  Row(kind, of) \in ResultRows /\ Row(kind, of).id = CallId
           /\ Row(kind, of).kind = kind /\ Row(kind, of).of = of
BY CallIdType DEF Row, ResultRows, Kinds, CallIds

GetsResult(j, row) ==
    /\ j.iter = w.iter /\ j.talk = w.talk /\ j.told = w.told
    /\ j.phase = w.phase /\ j.pushed = w.pushed /\ j.green = w.green /\ j.merged = w.merged
    /\ j.pending.calls = w.pending.calls /\ j.pending.at = w.pending.at
    /\ j.pending.results = w.pending.results \cup {row}

LEMMA AtCall ==
    ASSUME AgentIInv, mem.pc = "call"
    PROVE  /\ mem.pc # "idle" /\ mem \in Memories /\ w \in Works /\ saved \in Works
           /\ Shipped(w) /\ Shipped(saved) /\ Recalls(mem)
           /\ w.phase = "work" /\ saved.phase = "work" /\ OutTypes
           /\ Left # {} => ~(mem.finished /\ w.gate.last)
<1>1. Left # {} => ~NoneLeft(w.pending)
  BY DEF NoneLeft, Left, Done
<1>2. Ships(mem) /\ OutTypes /\ Shipped(saved)
  BY DEF AgentIInv, Types, OutTypes
<1>3. Left # {} => ~(mem.finished /\ w.gate.last)
  BY <1>1, <1>2 DEF Ships
<1> QED
  BY <1>2, <1>3, Facts DEF Thinking

LEMMA RowKeeps ==
    ASSUME AgentIInv, mem.pc = "call", Left # {},
           NEW n \in Memories, mem' = n, n.pc = "call", NEW row \in ResultRows, row.id = CallId,
           GetsResult(n.work, row), ShownIn(row, w.talk.results),
           \/ n.inbox = mem.inbox /\ n.work.pending.heard = w.pending.heard
           \/ /\ n.inbox = {} /\ row.kind # "error"
              /\ n.work.pending.heard = w.pending.heard \cup mem.inbox,
           Rows, OutTypes', GatedPushes', tree.edits <= tree'.edits,
           n.finished /\ n.work.gate.last => Passed(n.work.gate)' /\ NoneLeft(n.work.pending)
    PROVE  AgentIInv'
<1>1. /\ mem.pc # "idle" /\ mem \in Memories /\ w \in Works /\ saved \in Works
      /\ Shipped(w) /\ Shipped(saved) /\ Recalls(mem)
      /\ w.phase = "work" /\ saved.phase = "work" /\ OutTypes
  BY AtCall
<1>2. PICK j \in Works : j = n.work
  BY DEF Memories
<1>3. GetsResult(j, row)
  BY <1>2
<1>4. Shipped(j)
  BY <1>1, <1>3 DEF GetsResult, Shipped, OnBranch
<1>5. j.phase = "work"
  BY <1>1, <1>3 DEF GetsResult
<1>6. Shipped(j)' /\ Shipped(saved)'
  <2>1. Shipped(j)'
    BY <1>1, <1>4, <1>5, WorkShips
  <2>2. PICK k \in Works : k = saved
    BY <1>1
  <2>3. Shipped(k)'
    BY <1>1, <2>2, WorkShips
  <2>4. saved' = k
    BY <2>2 DEF Rows
  <2> QED
    BY <2>1, <2>3, <2>4 DEF Shipped, Passed, Allowed, OnBranch
<1>7. Ships(n)'
  <2>1. saved'.phase = "work"
    BY <1>1 DEF Rows
  <2> QED
    BY <1>2, <1>5, <1>6, <2>1 DEF Ships, Stands, Thinking
<1>8. /\ \A c \in w.talk.calls :
           \/ c \in {r.id : r \in w.talk.results} \cup w.talk.orphans
           \/ c[1] = w.pending.at /\ c[2] \in DOMAIN w.pending.calls
      /\ \A r \in w.talk.results \cup w.pending.results :
           r.id[1] <= w.iter /\ ShownIn(r, w.talk.results)
      /\ \A r \in w.pending.results : r.id[1] = w.pending.at
      /\ w.pending.at <= w.iter /\ w.iter <= MaxTurns
      /\ w.pending.heard # {} => \E r \in w.pending.results : r.kind # "error"
      /\ Known(w) \subseteq w.told /\ mem.inbox \subseteq w.told /\ mem.inbox \subseteq taken
      /\ taken \subseteq Known(w) \cup mem.inbox \cup dropped
  BY <1>1 DEF Recalls, Whole
<1>9. row.id[1] = w.pending.at
  BY <1>1, CallIdType
<1>10. Known(j) \cup n.inbox = Known(w) \cup mem.inbox
  BY <1>2, <1>3 DEF GetsResult, Known
<1>11. Whole(j)
  <2>1. \A c \in j.talk.calls :
          \/ c \in {r.id : r \in j.talk.results} \cup j.talk.orphans
          \/ c[1] = j.pending.at /\ c[2] \in DOMAIN j.pending.calls
    BY <1>3, <1>8 DEF GetsResult
  <2>2. \A r \in j.talk.results \cup j.pending.results :
          r.id[1] <= j.iter /\ ShownIn(r, j.talk.results)
    BY <1>3, <1>8, <1>9 DEF GetsResult
  <2>3. \A r \in j.pending.results : r.id[1] = j.pending.at
    BY <1>3, <1>8, <1>9 DEF GetsResult
  <2>4. j.pending.at <= j.iter /\ j.iter <= MaxTurns /\ Known(j) \subseteq j.told
    BY <1>3, <1>8, <1>10 DEF GetsResult
  <2>5. j.pending.heard # {} => \E r \in j.pending.results : r.kind # "error"
    BY <1>2, <1>3, <1>8 DEF GetsResult
  <2> QED
    BY <2>1, <2>2, <2>3, <2>4, <2>5 DEF Whole
<1>12. Tells(n)
  <2>1. Recalls(n)
    BY <1>2, <1>3, <1>8, <1>10, <1>11 DEF Recalls, GetsResult
  <2> QED
    BY <2>1 DEF Tells, Follows, Answering
<1> QED
  BY <1>1, <1>6, <1>7, <1>12, StepKeeps


Adds(k, j, row) ==
    /\ KeepsShip(k, j) /\ j.iter = k.iter /\ j.talk = k.talk /\ j.told = k.told
    /\ j.pending = [k.pending EXCEPT !.results = @ \cup {row}]

LEMMA PendingType ==
    ASSUME NEW k \in Works, NEW t \in TurnSet
    PROVE  LET j == [k EXCEPT !.pending = t] IN
           /\ j \in Works /\ KeepsShip(k, j) /\ j.pending = t
           /\ j.iter = k.iter /\ j.told = k.told /\ j.talk = k.talk
BY DEF Works, KeepsShip

LEMMA ResultType ==
    ASSUME mem \in Memories, Left # {}, NEW m \in Memories, NEW kind \in Kinds, NEW of \in CallIds
    PROVE  \E n \in Memories :
             /\ n = Result(m, kind, of) /\ n.pc = m.pc /\ n.inbox = m.inbox
             /\ n.finished = m.finished /\ Adds(m.work, n.work, Row(kind, of))
<1>1. PICK row \in ResultRows : row = Row(kind, of)
  BY RowType
<1>2. PICK k \in Works : k = m.work
  BY DEF Memories
<1> DEFINE t == [k.pending EXCEPT !.results = @ \cup {row}]
           j == [k EXCEPT !.pending = t]
           n == [m EXCEPT !.work = j]
<1>3. t \in TurnSet
  <2>1. k.pending \in TurnSet /\ k.pending.results \in FewRows
    BY DEF Works, TurnSet
  <2>2. k.pending.results \cup {row} \in FewRows
    BY <2>1, FS_AddElement DEF FewRows
  <2> QED
    BY <2>1, <2>2 DEF TurnSet
<1>4. Result(m, kind, of) = n
  BY <1>1, <1>2 DEF Result, Row, Memories, Works
<1>5. j \in Works /\ Adds(k, j, row)
  <2>1. PICK s \in TurnSet : s = t
    BY <1>3
  <2> HIDE DEF t
  <2>2. /\ [k EXCEPT !.pending = s] \in Works /\ KeepsShip(k, [k EXCEPT !.pending = s])
        /\ [k EXCEPT !.pending = s].pending = s
        /\ [k EXCEPT !.pending = s].iter = k.iter /\ [k EXCEPT !.pending = s].told = k.told
        /\ [k EXCEPT !.pending = s].talk = k.talk
    BY PendingType
  <2> QED
    BY <2>1, <2>2 DEF Adds, t
<1> HIDE DEF j
<1>6. n \in Memories /\ n.pc = m.pc /\ n.inbox = m.inbox /\ n.finished = m.finished /\ n.work = j
  BY <1>5, WorkType
<1> HIDE DEF n
<1> QED
  BY <1>1, <1>2, <1>4, <1>5, <1>6

LEMMA AddsGets ==
    ASSUME NEW j \in Works, NEW row, mem \in Memories, Adds(w, j, row)
    PROVE  GetsResult(j, row) /\ j.pending.heard = w.pending.heard /\ j.gate = w.gate
<1>1. w.pending \in TurnSet
  BY DEF Memories, Works
<1>2. LET p == [w.pending EXCEPT !.results = @ \cup {row}] IN
      /\ p.calls = w.pending.calls /\ p.at = w.pending.at /\ p.heard = w.pending.heard
      /\ p.results = w.pending.results \cup {row}
  BY <1>1 DEF TurnSet
<1> QED
  BY <1>2 DEF Adds, GetsResult, KeepsShip

(* Most calls give a result that is not a note.                              *)
LEMMA ResultKeeps ==
    ASSUME AgentIInv, mem.pc = "call", Left # {}, NEW kind \in Kinds, NEW of \in CallIds,
           NEW n \in Memories, mem' = n, n.pc = "call", n.inbox = mem.inbox,
           n.finished = mem.finished, Adds(w, n.work, Row(kind, of)),
           kind = "note" => ShownIn(Row(kind, of), w.talk.results),
           Rows, OutTypes', GatedPushes', tree.edits <= tree'.edits
    PROVE  AgentIInv'
<1>1. mem \in Memories /\ ~(mem.finished /\ w.gate.last)
  BY AtCall
<1>2. PICK row \in ResultRows : row = Row(kind, of) /\ row.id = CallId /\ row.kind = kind
  BY <1>1, RowType
<1>3. GetsResult(n.work, row) /\ n.work.pending.heard = w.pending.heard /\ n.work.gate = w.gate
  BY <1>1, <1>2, AddsGets DEF Memories
<1>4. ShownIn(row, w.talk.results)
  BY <1>2 DEF ShownIn
<1> QED
  BY <1>1, <1>2, <1>3, <1>4, RowKeeps

LEMMA Calls1 ==
    ASSUME AgentIInv, NEW tools, Calling(tools)
    PROVE  /\ mem.pc = "call" /\ Left # {} /\ mem.pc # "idle" /\ mem \in Memories /\ w \in Works
           /\ NoCall \in CallIds /\ OutTypes /\ GatedPushes
<1>1. mem.pc = "call" /\ Left # {}
  BY DEF Calling, At
<1> QED
  BY <1>1, AtCall DEF NoCall, CallIds, AgentIInv

LEMMA StaysOut ==
    ASSUME AgentIInv, MemoryOnly
    PROVE  Rows /\ OutTypes' /\ GatedPushes' /\ tree.edits <= tree'.edits
<1>1. UNCHANGED <<status, saved, dropped, crashes, resumes, publish, tree, leave, published, unread,
                  taken>>
  BY DEF MemoryOnly, Durable, Outside, Inbox, ownerVars
<1>2. OutTypes' /\ GatedPushes' /\ Rows
  BY <1>1 DEF AgentIInv, Types, OutTypes, GatedPushes, Rows
<1>3. tree.edits \in Nat
  BY DEF AgentIInv, Types
<1> QED
  BY <1>1, <1>2, <1>3

LEMMA BadKeeps ==
    ASSUME AgentIInv, Bad
    PROVE  AgentIInv'
<1>1. Calling({"bad"}) /\ mem' = Result(mem, "error", NoCall) /\ MemoryOnly
  BY DEF Bad, MemoryOnly
<1>2. mem.pc = "call" /\ Left # {} /\ mem \in Memories /\ NoCall \in CallIds
  BY <1>1, Calls1
<1>3. "error" \in Kinds /\ "error" # "note"
  BY DEF Kinds
<1>4. PICK n \in Memories : /\ n = Result(mem, "error", NoCall) /\ n.pc = mem.pc
                            /\ n.inbox = mem.inbox /\ n.finished = mem.finished
                            /\ Adds(w, n.work, Row("error", NoCall))
  BY <1>2, <1>3, ResultType
<1> QED
  BY <1>1, <1>2, <1>3, <1>4, StaysOut, ResultKeeps

LEMMA ChangeKeeps ==
    ASSUME AgentIInv, Change
    PROVE  AgentIInv'
<1>1. /\ Calling({"edit", "shell"}) /\ mem' = Result(mem, "short", NoCall)
      /\ tree' = [edits |-> tree.edits + 1, guarded |-> tree.guarded \/ Calling({"shell"})]
      /\ UNCHANGED <<status, saved, dropped, crashes, resumes, publish, leave, published, unread, taken>>
  BY DEF Change, Durable, Inbox, ownerVars
<1>2. mem.pc = "call" /\ Left # {} /\ mem \in Memories /\ NoCall \in CallIds /\ OutTypes /\ GatedPushes
  BY <1>1, Calls1
<1>3. "short" \in Kinds /\ "short" # "note"
  BY DEF Kinds
<1>4. PICK n \in Memories : /\ n = Result(mem, "short", NoCall) /\ n.pc = mem.pc
                            /\ n.inbox = mem.inbox /\ n.finished = mem.finished
                            /\ Adds(w, n.work, Row("short", NoCall))
  BY <1>2, <1>3, ResultType
<1>5. tree.edits + 1 \in Nat /\ tree.edits <= tree.edits + 1
  BY <1>2 DEF OutTypes
<1>6. (tree.guarded \/ Calling({"shell"})) \in BOOLEAN
  <2>1. tree.guarded \in BOOLEAN
    BY <1>2 DEF OutTypes
  <2>2. Calling({"shell"}) \in BOOLEAN
    BY Zenon DEF Calling, At
  <2> QED
    BY <2>1, <2>2, Zenon
<1>7. tree' \in [edits : Nat, guarded : BOOLEAN] /\ tree.edits <= tree'.edits
  BY <1>1, <1>5, <1>6
<1>8. OutTypes' /\ GatedPushes' /\ Rows
  BY <1>1, <1>2, <1>7 DEF OutTypes, GatedPushes, Rows
<1> QED
  BY <1>1, <1>2, <1>3, <1>4, <1>7, <1>8, ResultKeeps


LEMMA ReadKeeps ==
    ASSUME AgentIInv, Read
    PROVE  AgentIInv'
<1> DEFINE hash == tree.edits + 1
           long == [Result(mem, "long", NoCall) EXCEPT !.read = [hash |-> hash, id |-> CallId]]
           same == mem.read.hash = hash /\ Present(w.talk, mem.read.id)
<1>1. Calling({"read"}) /\ MemoryOnly
      /\ mem' = IF same THEN Result(mem, "note", mem.read.id) ELSE long
  BY DEF Read, MemoryOnly
<1>2. mem.pc = "call" /\ Left # {} /\ mem \in Memories /\ NoCall \in CallIds /\ OutTypes
  BY <1>1, Calls1
<1>3. "long" \in Kinds /\ "long" # "note" /\ "note" \in Kinds
  BY DEF Kinds
<1>4. CASE same
  <2>1. mem.read.id \in CallIds
    BY <1>2 DEF Memories
  <2>2. PICK of \in CallIds : of = mem.read.id
    BY <2>1
  <2>3. PICK n \in Memories : /\ n = Result(mem, "note", of) /\ n.pc = mem.pc
                              /\ n.inbox = mem.inbox /\ n.finished = mem.finished
                              /\ Adds(w, n.work, Row("note", of))
    BY <1>2, <1>3, ResultType
  <2>4. ShownIn(Row("note", of), w.talk.results)
    <3>1. PICK r \in w.talk.results : r.kind = "long" /\ r.id = of
      BY <1>4, <2>2 DEF Present, Long
    <3>2. Row("note", of).of = of
      BY DEF Row
    <3> QED
      BY <3>1, <3>2 DEF ShownIn
  <2>5. mem' = n
    BY <1>1, <1>4, <2>2, <2>3
  <2> QED
    BY <1>1, <1>2, <1>3, <2>3, <2>4, <2>5, StaysOut, ResultKeeps
<1>5. CASE ~same
  <2>1. PICK m \in Memories : /\ m = Result(mem, "long", NoCall) /\ m.pc = mem.pc
                              /\ m.inbox = mem.inbox /\ m.finished = mem.finished
                              /\ Adds(w, m.work, Row("long", NoCall))
    BY <1>2, <1>3, ResultType
  <2>2. [hash |-> hash, id |-> CallId] \in [hash : Nat, id : CallIds]
    <3>1. hash \in Nat
      BY <1>2 DEF OutTypes
    <3> QED
      BY <1>2, <3>1, CallIdType
  <2>3. PICK seen \in [hash : Nat, id : CallIds] : seen = [hash |-> hash, id |-> CallId]
    BY <2>2
  <2>4. PICK n \in Memories : /\ n = [m EXCEPT !.read = seen] /\ n.pc = m.pc /\ n.inbox = m.inbox
                              /\ n.finished = m.finished /\ n.work = m.work
    <3> DEFINE n == [m EXCEPT !.read = seen]
    <3>1. n \in Memories
      BY DEF Memories
    <3>2. n.pc = m.pc /\ n.inbox = m.inbox /\ n.finished = m.finished /\ n.work = m.work
      BY DEF Memories
    <3> QED
      BY <3>1, <3>2
  <2>5. mem' = n
    BY <1>1, <1>5, <2>1, <2>3, <2>4
  <2>6. n.pc = "call" /\ n.inbox = mem.inbox /\ n.finished = mem.finished
        /\ Adds(w, n.work, Row("long", NoCall))
    BY <1>2, <2>1, <2>4
  <2> QED
    BY <1>1, <1>2, <1>3, <2>5, <2>6, StaysOut, ResultKeeps
<1> QED
  BY <1>4, <1>5

LEMMA AskKeeps ==
    ASSUME AgentIInv, Ask
    PROVE  AgentIInv'
<1> DEFINE r == Result(mem, "short", NoCall)
           heard == [r EXCEPT !.work.pending.heard = @ \cup mem.inbox, !.inbox = {}]
<1>1. Calling({"ask"}) /\ MemoryOnly
      /\ mem' = IF mem.inbox = {} THEN SaveThen(mem, "blocked") ELSE heard
  BY DEF Ask, MemoryOnly
<1>2. mem.pc = "call" /\ Left # {} /\ mem \in Memories /\ NoCall \in CallIds /\ w \in Works
  BY <1>1, Calls1
<1>3. CASE mem.inbox = {}
  <2>1. mem' = SaveThen(mem, "blocked") /\ mem.pc # "idle"
    BY <1>1, <1>2, <1>3
  <2> QED
    BY <1>1, <2>1, Stops
<1>4. CASE mem.inbox # {}
  <2>1. "short" \in Kinds /\ "short" # "note" /\ "short" # "error"
    BY DEF Kinds
  <2>2. PICK m \in Memories : /\ m = r /\ m.pc = mem.pc
                              /\ m.inbox = mem.inbox /\ m.finished = mem.finished
                              /\ Adds(w, m.work, Row("short", NoCall))
    BY <1>2, <2>1, ResultType
  <2>3. PICK row \in ResultRows : row = Row("short", NoCall) /\ row.id = CallId /\ row.kind = "short"
    BY <1>2, <2>1, RowType
  <2>4. PICK k \in Works : k = m.work
    BY DEF Memories
  <2>5. GetsResult(k, row) /\ k.pending.heard = w.pending.heard /\ k.gate = w.gate
    BY <1>2, <2>2, <2>3, <2>4, AddsGets
  <2> DEFINE t == [k.pending EXCEPT !.heard = @ \cup mem.inbox]
  <2>6. /\ t \in TurnSet /\ t.calls = k.pending.calls /\ t.at = k.pending.at
        /\ t.results = k.pending.results /\ t.heard = k.pending.heard \cup mem.inbox
    <3>1. k.pending \in TurnSet /\ mem.inbox \in SUBSET Nat
      BY <1>2 DEF Works, Memories
    <3> QED
      BY <3>1 DEF TurnSet
  <2>7. PICK s \in TurnSet : s = t
    BY <2>6
  <2> HIDE DEF t
  <2>8. PICK j \in Works : /\ j = [k EXCEPT !.pending = s] /\ KeepsShip(k, j) /\ j.pending = s
                           /\ j.iter = k.iter /\ j.told = k.told /\ j.talk = k.talk
    BY PendingType
  <2>9. PICK n \in Memories : /\ n = [m EXCEPT !.work = j, !.inbox = {}] /\ n.pc = m.pc
                              /\ n.inbox = {} /\ n.finished = m.finished /\ n.work = j
    <3> DEFINE n == [m EXCEPT !.work = j, !.inbox = {}]
    <3>1. n \in Memories
      BY DEF Memories
    <3>2. n.pc = m.pc /\ n.inbox = {} /\ n.finished = m.finished /\ n.work = j
      BY DEF Memories
    <3> QED
      BY <3>1, <3>2
  <2>10. mem' = n
    <3>1. heard = [m EXCEPT !.work.pending.heard = @ \cup mem.inbox, !.inbox = {}]
      BY <2>2
    <3>2. heard = n
      BY <2>4, <2>7, <2>8, <2>9, <3>1 DEF t, Memories, Works
    <3> HIDE DEF heard
    <3> QED
      BY <1>1, <1>4, <3>2
  <2>11. GetsResult(j, row) /\ j.gate = w.gate
         /\ j.pending.heard = w.pending.heard \cup mem.inbox
    BY <2>5, <2>6, <2>7, <2>8 DEF GetsResult, KeepsShip
  <2>12. ~(n.finished /\ n.work.gate.last)
    BY <1>2, <2>2, <2>9, <2>11, AtCall
  <2>13. ShownIn(row, w.talk.results)
    BY <2>1, <2>3 DEF ShownIn
  <2>14. n.pc = "call" /\ n.inbox = {} /\ n.work = j /\ row.id = CallId /\ row.kind # "error"
    BY <1>2, <2>1, <2>2, <2>3, <2>9
  <2> QED
    BY <1>1, <1>2, <2>10, <2>11, <2>12, <2>13, <2>14, StaysOut, RowKeeps
<1> QED
  BY <1>3, <1>4

LEMMA GrantKeeps ==
    ASSUME AgentIInv, Grant
    PROVE  AgentIInv'
<1>1. /\ Calling({"grant"}) /\ Requested("change")
      /\ mem' = CASE leave.change = "approved" -> Result(mem, "short", NoCall)
                  [] leave.change = "rejected" -> Result(mem, "error", NoCall)
                  [] OTHER -> SaveThen(mem, "awaiting_approval")
      /\ UNCHANGED <<status, saved, dropped, crashes, resumes, publish, tree, published, unread, taken>>
  BY DEF Grant, Durable, Inbox, ownerVars
<1>2. mem.pc = "call" /\ Left # {} /\ mem \in Memories /\ NoCall \in CallIds /\ w \in Works /\ OutTypes
  BY <1>1, Calls1
<1>3. Onward /\ OutTypes' /\ GatedPushes' /\ Rows /\ tree.edits <= tree'.edits
  <2>1. Onward /\ OutTypes' /\ GatedPushes'
    BY <1>1, RequestedOnward
  <2>2. tree.edits \in Nat /\ tree' = tree
    BY <1>1, <1>2 DEF OutTypes
  <2> QED
    BY <1>1, <2>1, <2>2 DEF Rows
<1>4. ASSUME NEW kind \in {"short", "error"}, mem' = Result(mem, kind, NoCall)
      PROVE  AgentIInv'
  <2>1. kind \in Kinds /\ kind # "note"
    BY DEF Kinds
  <2>2. PICK n \in Memories : /\ n = Result(mem, kind, NoCall) /\ n.pc = mem.pc
                              /\ n.inbox = mem.inbox /\ n.finished = mem.finished
                              /\ Adds(w, n.work, Row(kind, NoCall))
    BY <1>2, <2>1, ResultType
  <2> QED
    BY <1>2, <1>3, <1>4, <2>1, <2>2, ResultKeeps
<1>5. ASSUME mem' = SaveThen(mem, "awaiting_approval")
      PROVE  AgentIInv'
  <2>1. Shipped(w) /\ Shipped(saved) /\ Recalls(mem) /\ mem.pc # "idle"
    BY <1>2, AtCall
  <2>2. PICK m \in Memories, s \in Works : m = mem /\ s = saved /\ s = saved'
    BY <1>1, <1>2, RowTypes
  <2>3. Shipped(m.work)' /\ Shipped(s)'
    BY <1>3, <2>1, <2>2, ShippedStays
  <2>4. Shipped(saved)'
    BY <2>2, <2>3 DEF Shipped, Passed, Allowed, OnBranch
  <2>5. "awaiting_approval" \in Ahead /\ Stands("awaiting_approval", m.work)'
        /\ Follows("awaiting_approval", m)
    BY DEF Ahead, Pcs, Ends, Stands, Follows, Thinking, Answering
  <2>6. Recalls(m)
    BY <2>1, <2>2
  <2> QED
    BY <1>3, <1>5, <2>1, <2>2, <2>3, <2>4, <2>5, <2>6, StepSaves
<1> QED
  BY <1>1, <1>4, <1>5


(* The finish gate.                                                         *)
LEMMA FailedType ==
    ASSUME NEW m \in Memories
    PROVE  \E n \in Memories :
             /\ n = [m EXCEPT !.work.gateFailures = @ + 1] /\ n.pc = m.pc /\ n.inbox = m.inbox
             /\ n.finished = m.finished /\ KeepsShip(m.work, n.work) /\ KeepsTalk(m.work, n.work)
<1>1. PICK k \in Works : k = m.work
  BY DEF Memories
<1>2. PICK i \in Nat : i = k.gateFailures + 1
  <2>1. k.gateFailures \in Nat
    BY DEF Works
  <2> QED
    BY <2>1
<1> DEFINE j == [k EXCEPT !.gateFailures = i]
           n == [m EXCEPT !.work = j]
<1>3. j \in Works
  BY DEF Works
<1>4. KeepsShip(k, j) /\ KeepsTalk(k, j)
  BY DEF Works, KeepsShip, KeepsTalk
<1>5. n = [m EXCEPT !.work.gateFailures = @ + 1]
  BY <1>1, <1>2 DEF Memories, Works
<1> HIDE DEF j
<1>6. n \in Memories /\ n.pc = m.pc /\ n.inbox = m.inbox /\ n.finished = m.finished /\ n.work = j
  BY <1>3, WorkType
<1> HIDE DEF n
<1> QED
  BY <1>1, <1>4, <1>5, <1>6

LEMMA GatePassesKeeps ==
    ASSUME AgentIInv, Calling({"finish"}), MemoryOnly, Allowed, mem' = GatePasses
    PROVE  AgentIInv'
<1> DEFINE r == Result(mem, "short", NoCall)
           g == [edits |-> tree.edits, last |-> Left = {Position}]
<1>1. mem.pc = "call" /\ Left # {} /\ mem \in Memories /\ NoCall \in CallIds /\ w \in Works /\ OutTypes
  BY Calls1
<1>2. "short" \in Kinds /\ "short" # "note" /\ "short" # "error"
  BY DEF Kinds
<1>3. PICK m \in Memories : /\ m = r /\ m.pc = mem.pc
                            /\ m.inbox = mem.inbox /\ m.finished = mem.finished
                            /\ Adds(w, m.work, Row("short", NoCall))
  BY <1>1, <1>2, ResultType
<1>4. PICK row \in ResultRows : row = Row("short", NoCall) /\ row.id = CallId /\ row.kind = "short"
  BY <1>1, <1>2, RowType
<1>5. PICK k \in Works : k = m.work
  BY DEF Memories
<1>6. GetsResult(k, row) /\ k.pending.heard = w.pending.heard
  BY <1>1, <1>3, <1>4, <1>5, AddsGets
<1>7. g \in Gates /\ g.edits = tree.edits /\ g.last = (Left = {Position})
  <2>1. (Left = {Position}) \in BOOLEAN
    BY Zenon
  <2>2. tree.edits \in Nat
    BY <1>1 DEF OutTypes
  <2>3. g.edits = tree.edits /\ g.last = (Left = {Position})
    BY Zenon
  <2> QED
    BY <2>1, <2>2, <2>3, Zenon DEF Gates
<1>8. PICK gate \in Gates : gate = g
  BY <1>7
<1>9. gate.edits = tree.edits /\ (gate.last => Left = {Position})
  BY <1>7, <1>8, Zenon
<1> HIDE DEF g
<1> DEFINE j == [k EXCEPT !.gate = gate]
           n == [m EXCEPT !.finished = TRUE, !.work = j]
<1>10. /\ j \in Works /\ j.gate = gate /\ j.phase = k.phase /\ j.pushed = k.pushed
       /\ j.green = k.green /\ j.merged = k.merged /\ KeepsTalk(k, j)
  BY DEF Works, KeepsTalk
<1>11. mem' = n
  <2>1. mem' = [r EXCEPT !.finished = TRUE, !.work.gate = g]
    BY Zenon DEF GatePasses, g
  <2> HIDE DEF r
  <2> QED
    BY <1>3, <1>5, <1>8, <2>1 DEF Memories
<1>12. GetsResult(j, row) /\ j.pending.heard = w.pending.heard
  BY <1>6, <1>10 DEF GetsResult, KeepsTalk
<1>13. n \in Memories /\ n.pc = "call" /\ n.inbox = mem.inbox /\ n.work = j
  <2> HIDE DEF j
  <2>1. n \in Memories
    BY <1>10 DEF Memories
  <2> QED
    BY <1>1, <1>3, <2>1 DEF Memories
<1>14. gate.last => Passed(gate)' /\ NoneLeft(j.pending)
  <2> SUFFICES ASSUME gate.last PROVE Passed(gate)' /\ NoneLeft(j.pending)
    OBVIOUS
  <2>1. tree' = tree /\ leave' = leave
    BY DEF MemoryOnly, Outside
  <2>2. Passed(gate)'
    BY <1>9, <2>1 DEF Passed, Allowed
  <2>3. DOMAIN w.pending.calls \subseteq Done \cup {Position}
    BY <1>9 DEF Left
  <2>4. row.id[2] = Position /\ row \in j.pending.results
    BY <1>1, <1>4, <1>12, CallIdType DEF GetsResult
  <2>5. Done \subseteq {x.id[2] : x \in j.pending.results}
    BY <1>12 DEF Done, GetsResult
  <2>6. DOMAIN j.pending.calls = DOMAIN w.pending.calls
    BY <1>12 DEF GetsResult
  <2> QED
    BY <2>2, <2>3, <2>4, <2>5, <2>6 DEF NoneLeft
<1>15. ShownIn(row, w.talk.results)
  BY <1>2, <1>4 DEF ShownIn
<1> HIDE DEF n, j, r
<1>16. PICK q \in Memories : q = n
  BY <1>13
<1> QED
  BY <1>1, <1>4, <1>10, <1>11, <1>12, <1>13, <1>14, <1>15, <1>16, StaysOut, RowKeeps

LEMMA GateKeeps ==
    ASSUME AgentIInv, Gate
    PROVE  AgentIInv'
<1>1. /\ Calling({"finish"}) /\ MemoryOnly
      /\ \/ Allowed /\ mem' = GatePasses
         \/ mem' = GateFails
         \/ mem' = SaveThen(mem, "blocked")
  BY DEF Gate, MemoryOnly
<1>2. mem.pc = "call" /\ Left # {} /\ mem \in Memories /\ NoCall \in CallIds /\ w \in Works
      /\ mem.pc # "idle" /\ Shipped(w) /\ Recalls(mem)
  BY <1>1, Calls1, AtCall
<1>3. CASE Allowed /\ mem' = GatePasses
  BY <1>1, <1>3, GatePassesKeeps
<1>4. CASE mem' = SaveThen(mem, "blocked")
  BY <1>1, <1>2, <1>4, Stops
<1>5. CASE mem' = GateFails
  <2>1. PICK m \in Memories :
          /\ m = [mem EXCEPT !.work.gateFailures = @ + 1] /\ m.pc = mem.pc /\ m.inbox = mem.inbox
          /\ m.finished = mem.finished /\ KeepsShip(w, m.work) /\ KeepsTalk(w, m.work)
    BY <1>2, FailedType
  <2>2. mem' = SaveThen(m, "blocked") \/ mem' = Result(m, "error", NoCall)
    BY <1>5, <2>1 DEF GateFails
  <2>3. CASE mem' = SaveThen(m, "blocked")
    <3>1. Shipped(m.work) /\ Recalls(m)
      BY <1>2, <2>1, ShippedSame, RecallsSame
    <3>2. "blocked" \in Ahead /\ Stands("blocked", m.work) /\ Follows("blocked", m)
      BY DEF Ahead, Pcs, Ends, Stands, Follows, Thinking, Answering
    <3> QED
      BY <1>1, <1>2, <2>3, <3>1, <3>2, SavesNext
  <2>4. CASE mem' = Result(m, "error", NoCall)
    <3>1. "error" \in Kinds /\ "error" # "note"
      BY DEF Kinds
    <3>2. PICK n \in Memories : /\ n = Result(m, "error", NoCall) /\ n.pc = m.pc
                                /\ n.inbox = m.inbox /\ n.finished = m.finished
                                /\ Adds(m.work, n.work, Row("error", NoCall))
      BY <1>2, <3>1, ResultType
    <3>3. Adds(w, n.work, Row("error", NoCall))
      BY <2>1, <3>2 DEF Adds, KeepsShip, KeepsTalk
    <3> QED
      BY <1>1, <1>2, <2>1, <2>4, <3>1, <3>2, <3>3, StaysOut, ResultKeeps
  <2> QED
    BY <2>2, <2>3, <2>4
<1> QED
  BY <1>1, <1>3, <1>4, <1>5


(* The end of a turn.                                                        *)
LEMMA CountedType ==
    ASSUME NEW m \in Memories, NEW e \in Nat
    PROVE  LET n == [m EXCEPT !.errors = e] IN
           n \in Memories /\ n.work = m.work /\ n.inbox = m.inbox /\ n.force = m.force
BY DEF Memories

(* The turn is closed, its results gone: it only failed, so no reply is lost.  *)
LEMMA ClosedWhole ==
    ASSUME NEW k \in Works, NEW j \in Works, Whole(k), NoneLeft(k.pending), k.pending.heard = {},
           j.pending = NoTurn, j.iter = k.iter, j.told = k.told,
           j.talk.calls = k.talk.calls, j.talk.results = k.talk.results,
           j.talk.heard = k.talk.heard,
           j.talk.orphans = k.talk.orphans \cup {r.id : r \in k.pending.results}
    PROVE  Whole(j) /\ Known(j) = Known(k)
<1>1. Known(j) = Known(k)
  BY NoTurnType DEF Known
<1>2. k.pending.results \subseteq ResultRows /\ k.talk.calls \subseteq CallIds
  BY DEF Works, TurnSet, TalkSet, FewRows
<1>3. \A c \in k.talk.calls :
        c \in {r.id : r \in k.talk.results} \cup k.talk.orphans \cup {r.id : r \in k.pending.results}
  <2> SUFFICES ASSUME NEW c \in k.talk.calls,
                      c \notin {r.id : r \in k.talk.results} \cup k.talk.orphans
               PROVE  c \in {r.id : r \in k.pending.results}
    OBVIOUS
  <2>1. c[1] = k.pending.at /\ c[2] \in DOMAIN k.pending.calls
    BY DEF Whole
  <2>2. PICK r \in k.pending.results : r.id[2] = c[2]
    BY <2>1 DEF NoneLeft
  <2>3. r.id[1] = c[1]
    BY <2>1, <2>2 DEF Whole
  <2>4. r.id \in CallIds /\ c \in CallIds
    BY <1>2, <2>2 DEF ResultRows, CallIds
  <2>5. r.id = c
    BY <2>2, <2>3, <2>4 DEF CallIds
  <2> QED
    BY <2>2, <2>5
<1>4. 0 <= j.iter
  BY DEF Works
<1> QED
  BY <1>1, <1>3, <1>4, NoTurnType DEF Whole

(* Its results go into the conversation.                                     *)
LEMMA PushedWhole ==
    ASSUME NEW k \in Works, NEW j \in Works, Whole(k), NoneLeft(k.pending), NEW heard,
           j.pending = NoTurn, j.iter = k.iter, j.told = k.told, heard \subseteq k.told,
           j.talk.calls = k.talk.calls, j.talk.results = k.talk.results \cup k.pending.results,
           j.talk.heard = k.talk.heard \cup k.pending.heard \cup heard,
           j.talk.orphans = k.talk.orphans
    PROVE  Whole(j) /\ Known(j) = Known(k) \cup heard
<1>1. Known(j) = Known(k) \cup heard
  BY NoTurnType DEF Known
<1>2. k.pending.results \subseteq ResultRows /\ k.talk.calls \subseteq CallIds
  BY DEF Works, TurnSet, TalkSet, FewRows
<1>3. \A c \in k.talk.calls : c \in {r.id : r \in j.talk.results} \cup k.talk.orphans
  <2> SUFFICES ASSUME NEW c \in k.talk.calls,
                      c \notin {r.id : r \in k.talk.results} \cup k.talk.orphans
               PROVE  c \in {r.id : r \in k.pending.results}
    OBVIOUS
  <2>1. c[1] = k.pending.at /\ c[2] \in DOMAIN k.pending.calls
    BY DEF Whole
  <2>2. PICK r \in k.pending.results : r.id[2] = c[2]
    BY <2>1 DEF NoneLeft
  <2>3. r.id[1] = c[1]
    BY <2>1, <2>2 DEF Whole
  <2>4. r.id \in CallIds /\ c \in CallIds
    BY <1>2, <2>2 DEF ResultRows, CallIds
  <2>5. r.id = c
    BY <2>2, <2>3, <2>4 DEF CallIds
  <2> QED
    BY <2>2, <2>5
<1>4. \A r \in j.talk.results : r.id[1] <= j.iter /\ ShownIn(r, j.talk.results)
  BY DEF Whole, ShownIn
<1>5. 0 <= j.iter /\ Known(j) \subseteq j.told
  <2>1. j.iter \in Nat
    BY DEF Works
  <2>2. 0 <= j.iter
    BY <2>1
  <2> QED
    BY <1>1, <2>2 DEF Whole
<1> QED
  BY <1>1, <1>3, <1>4, <1>5, NoTurnType DEF Whole

LEMMA ClosedKeeps ==
    ASSUME AgentIInv, mem.pc = "call", Left = {}, MemoryOnly, NEW e \in Nat,
           w.pending.heard = {},
           mem' = SaveThen([[mem EXCEPT !.errors = e] EXCEPT !.work.pending = NoTurn,
                     !.work.talk.orphans = @ \cup {r.id : r \in w.pending.results}], "blocked")
    PROVE  AgentIInv'
<1>1. mem.pc # "idle" /\ mem \in Memories /\ w \in Works /\ Shipped(w) /\ Recalls(mem)
  BY AtCall
<1>2. NoneLeft(w.pending)
  BY DEF Left, Done, NoneLeft
<1>3. PICK m \in Memories : m = [mem EXCEPT !.errors = e] /\ m.work = w /\ m.inbox = mem.inbox
  BY <1>1, CountedType
<1>4. PICK k \in Works : k = w
  BY <1>1
<1> DEFINE t == [k.talk EXCEPT !.orphans = @ \cup {r.id : r \in k.pending.results}]
<1>5. /\ t \in TalkSet /\ t.calls = k.talk.calls /\ t.results = k.talk.results
      /\ t.heard = k.talk.heard /\ t.orphans = k.talk.orphans \cup {r.id : r \in k.pending.results}
  <2>1. {r.id : r \in k.pending.results} \subseteq CallIds
    BY DEF Works, TurnSet, FewRows, ResultRows, CallIds
  <2>2. k.talk \in TalkSet
    BY DEF Works
  <2> QED
    BY <2>1, <2>2 DEF TalkSet
<1>6. PICK s \in TalkSet : s = t
  BY <1>5
<1> HIDE DEF t
<1> DEFINE j == [k EXCEPT !.pending = NoTurn, !.talk = s]
           n == [m EXCEPT !.work = j]
<1>7. /\ j \in Works /\ KeepsShip(k, j) /\ j.pending = NoTurn /\ j.talk = s
      /\ j.iter = k.iter /\ j.told = k.told
  BY NoTurnType DEF Works, KeepsShip
<1>8. mem' = SaveThen(n, "blocked")
  <2> DEFINE ids == {r.id : r \in k.pending.results}
             x   == [m EXCEPT !.work.pending = NoTurn, !.work.talk.orphans = @ \cup ids]
  <2>1. mem' = SaveThen(x, "blocked")
    BY <1>3, <1>4, Zenon
  <2> HIDE DEF ids
  <2>2. x = [m EXCEPT !.work = [m.work EXCEPT !.pending = NoTurn,
                                  !.talk = [m.work.talk EXCEPT !.orphans = @ \cup ids]]]
    BY DEF Memories, Works
  <2>3. x = n
    BY <1>3, <1>4, <1>6, <2>2, Zenon DEF t, ids
  <2> QED
    BY <2>1, <2>3, Zenon
<1> HIDE DEF j
<1>9. n \in Memories /\ n.work = j /\ n.inbox = mem.inbox
  BY <1>3, <1>7, WorkType
<1> HIDE DEF n
<1>10. PICK q \in Memories : q = n
  BY <1>9
<1>11. Whole(j) /\ Known(j) = Known(k)
  BY <1>1, <1>2, <1>4, <1>5, <1>6, <1>7, ClosedWhole DEF Recalls
<1>12. Recalls(q)
  BY <1>1, <1>4, <1>7, <1>9, <1>10, <1>11 DEF Recalls
<1>13. Shipped(q.work) /\ Stands("blocked", q.work) /\ Follows("blocked", q) /\ "blocked" \in Ahead
  BY <1>1, <1>4, <1>7, <1>9, <1>10, ShippedSame
     DEF Ahead, Pcs, Ends, Stands, Follows, Thinking, Answering
<1> QED
  BY <1>1, <1>8, <1>10, <1>12, <1>13, SavesNext


Pushed(k, j) ==
    /\ KeepsShip(k, j) /\ j.iter = k.iter /\ j.told = k.told /\ j.pending = NoTurn
    /\ j.talk.calls = k.talk.calls /\ j.talk.orphans = k.talk.orphans
    /\ j.talk.results = k.talk.results \cup k.pending.results
    /\ j.talk.heard = k.talk.heard \cup k.pending.heard

LEMMA PushType ==
    ASSUME NEW m \in Memories
    PROVE  \E n \in Memories : n = Push(m) /\ n.inbox = m.inbox /\ Pushed(m.work, n.work)
<1>1. PICK k \in Works : k = m.work
  BY DEF Memories
<1> DEFINE t == [k.talk EXCEPT !.results = @ \cup k.pending.results,
                               !.heard = @ \cup k.pending.heard]
<1>2. /\ t \in TalkSet /\ t.calls = k.talk.calls /\ t.orphans = k.talk.orphans
      /\ t.results = k.talk.results \cup k.pending.results
      /\ t.heard = k.talk.heard \cup k.pending.heard
  <2>1. k.talk \in TalkSet /\ k.pending \in TurnSet
    BY DEF Works
  <2> QED
    BY <2>1 DEF TalkSet, TurnSet, FewRows
<1>3. PICK s \in TalkSet : s = t
  BY <1>2
<1> DEFINE j == [k EXCEPT !.pending = NoTurn, !.talk = s]
           n == [m EXCEPT !.work = j]
<1>4. Push(m) = n
  BY <1>1, <1>3 DEF Push, Memories, Works
<1> HIDE DEF t
<1>5. /\ j \in Works /\ KeepsShip(k, j) /\ j.pending = NoTurn /\ j.talk = s
      /\ j.iter = k.iter /\ j.told = k.told
  BY NoTurnType DEF Works, KeepsShip
<1> HIDE DEF j
<1>6. n \in Memories /\ n.work = j /\ n.inbox = m.inbox
  BY <1>5, WorkType
<1>7. Pushed(k, j)
  BY <1>2, <1>3, <1>5 DEF Pushed
<1> HIDE DEF n
<1> QED
  BY <1>1, <1>4, <1>6, <1>7

LEMMA ReplanType ==
    ASSUME NEW m \in Memories
    PROVE  \E n \in Memories : /\ n = Replan(m) /\ n.inbox = m.inbox
                               /\ KeepsShip(m.work, n.work) /\ KeepsTalk(m.work, n.work)
<1>1. PICK k \in Works : k = m.work
  BY DEF Memories
<1>2. PICK d \in SUBSET {"escalate", "replan"} : d = Due(k)
  BY DEF Due
<1>3. PICK b \in BOOLEAN : b = (m.force \/ d = {"replan"})
  BY Zenon DEF Memories
<1> DEFINE f == k.fired \cup d
           j == [k EXCEPT !.fired = f]
           n == [m EXCEPT !.work = j, !.force = b]
<1>4. f \in SUBSET {"escalate", "replan"}
  BY DEF Works
<1>5. j \in Works
  <2> HIDE DEF f
  <2> QED
    BY <1>4 DEF Works
<1>6. KeepsShip(k, j) /\ KeepsTalk(k, j)
  BY DEF Works, KeepsShip, KeepsTalk
<1>7. Replan(m) = n
  <2>1. Replan(m) = [m EXCEPT !.work.fired = @ \cup d, !.force = b]
    BY <1>1, <1>2, <1>3, Zenon DEF Replan
  <2> QED
    BY <1>1, <2>1 DEF Memories, Works
<1> HIDE DEF j
<1>8. n \in Memories /\ n.work = j /\ n.inbox = m.inbox
  BY <1>5, ForcedType
<1> HIDE DEF n
<1> QED
  BY <1>1, <1>6, <1>7, <1>8

LEMMA PhasedType ==
    ASSUME NEW m \in Memories, NEW phase \in Phases
    PROVE  \E n \in Memories :
             /\ n = [m EXCEPT !.work.phase = phase] /\ n.inbox = m.inbox /\ n.pc = m.pc
             /\ KeepsTalk(m.work, n.work) /\ n.work.phase = phase
             /\ n.work.gate = m.work.gate /\ n.work.pushed = m.work.pushed
             /\ n.work.green = m.work.green /\ n.work.merged = m.work.merged
<1>1. PICK k \in Works : k = m.work
  BY DEF Memories
<1> DEFINE j == [k EXCEPT !.phase = phase]
           n == [m EXCEPT !.work = j]
<1>2. j \in Works
  BY DEF Works
<1>3. /\ KeepsTalk(k, j) /\ j.phase = phase /\ j.gate = k.gate /\ j.pushed = k.pushed
      /\ j.green = k.green /\ j.merged = k.merged
  BY DEF Works, KeepsTalk
<1>4. n = [m EXCEPT !.work.phase = phase]
  BY <1>1 DEF Memories
<1> HIDE DEF j
<1>5. n \in Memories /\ n.work = j /\ n.inbox = m.inbox /\ n.pc = m.pc
  BY <1>2, WorkType
<1> HIDE DEF n
<1> QED
  BY <1>1, <1>3, <1>4, <1>5

LEMMA DeliverType ==
    ASSUME NEW m \in Memories
    PROVE  \E n \in Memories :
             /\ n = Deliver(m) /\ n.inbox = {} /\ KeepsShip(m.work, n.work)
             /\ n.work.iter = m.work.iter /\ n.work.told = m.work.told
             /\ n.work.pending = m.work.pending
             /\ n.work.talk = [m.work.talk EXCEPT !.heard = @ \cup m.inbox]
<1>1. PICK k \in Works : k = m.work
  BY DEF Memories
<1> DEFINE t == [k.talk EXCEPT !.heard = @ \cup m.inbox]
<1>2. t \in TalkSet
  <2>1. k.talk \in TalkSet /\ m.inbox \in SUBSET Nat
    BY DEF Works, Memories
  <2> QED
    BY <2>1 DEF TalkSet
<1>3. PICK s \in TalkSet : s = t
  BY <1>2
<1>4. PICK j \in Works : /\ j = [k EXCEPT !.talk = s] /\ KeepsShip(k, j) /\ j.talk = s
                         /\ j.iter = k.iter /\ j.told = k.told /\ j.pending = k.pending
  BY TalkedType
<1> DEFINE n == [m EXCEPT !.work = j, !.inbox = {}]
<1>5. n \in Memories
  BY DEF Memories
<1>6. n.work = j /\ n.inbox = {}
  BY DEF Memories
<1>7. Deliver(m) = n
  BY <1>1, <1>3, <1>4 DEF Deliver, Memories, Works
<1> HIDE DEF n, t
<1> QED
  BY <1>1, <1>3, <1>4, <1>5, <1>6, <1>7 DEF t


LEMMA EndTurnKeeps ==
    ASSUME AgentIInv, EndTurn
    PROVE  AgentIInv'
<1> DEFINE results == w.pending.results
           errors  == {r \in results : r.kind = "error"}
           count   == IF errors = results THEN mem.errors + Cardinality(errors) ELSE 0
           counted == [mem EXCEPT !.errors = count]
           closed  == [counted EXCEPT !.work.pending = NoTurn,
                                      !.work.talk.orphans = @ \cup {r.id : r \in results}]
           next    == Replan(Push(counted))
<1>1. /\ mem.pc = "call" /\ Left = {} /\ MemoryOnly
      /\ mem' = IF counted.errors >= MaxErrors THEN SaveThen(closed, "blocked")
                ELSE SaveThen(IF mem.finished THEN [next EXCEPT !.work.phase = AfterGate(w.gate)]
                              ELSE IF mem.again THEN Deliver(next) ELSE next, "loop")
  BY DEF EndTurn, At, MemoryOnly
<1>2. /\ mem.pc # "idle" /\ mem \in Memories /\ w \in Works /\ Shipped(w) /\ Recalls(mem)
      /\ w.phase = "work" /\ OutTypes
  BY <1>1, AtCall
<1>3. NoneLeft(w.pending)
  BY <1>1 DEF Left, Done, NoneLeft
<1>4. count \in Nat
  <2>1. results \in FewRows
    BY <1>2 DEF Works, TurnSet
  <2>2. IsFiniteSet(errors)
    BY <2>1, FS_Subset DEF FewRows
  <2>3. Cardinality(errors) \in Nat
    BY <2>2, FS_CardinalityType
  <2>4. mem.errors \in Nat
    BY <1>2 DEF Memories
  <2> HIDE DEF errors, results
  <2> QED
    BY <2>3, <2>4
<1>5. PICK e \in Nat : e = count
  BY <1>4
<1>6. PICK c \in Memories : c = counted /\ c.work = w /\ c.inbox = mem.inbox
  BY <1>2, <1>5, CountedType
<1>7. CASE counted.errors >= MaxErrors
  <2>1. counted.errors = e
    BY <1>2, <1>5 DEF Memories
  <2>2. e # 0
    BY <1>7, <2>1, AgentRunAssumption
  <2>3. errors = results
    BY <1>5, <2>2
  <2>4. w.pending.heard = {}
    BY <1>2, <2>3 DEF Recalls, Whole
  <2>5. mem' = SaveThen(closed, "blocked")
    <3> HIDE DEF counted, closed, next
    <3> QED
      BY <1>1, <1>7, Zenon
  <2> HIDE DEF count
  <2> QED
    BY <1>1, <1>5, <2>4, <2>5, ClosedKeeps
<1>8. PICK n \in Memories : /\ n = next /\ n.inbox = mem.inbox /\ KeepsShip(w, n.work)
                            /\ n.work.iter = w.iter /\ n.work.told = w.told
                            /\ n.work.pending = NoTurn
                            /\ n.work.talk.calls = w.talk.calls
                            /\ n.work.talk.orphans = w.talk.orphans
                            /\ n.work.talk.results = w.talk.results \cup w.pending.results
                            /\ n.work.talk.heard = w.talk.heard \cup w.pending.heard
  <2>1. PICK p \in Memories : p = Push(c) /\ p.inbox = c.inbox /\ Pushed(c.work, p.work)
    BY PushType
  <2>2. PICK n \in Memories : /\ n = Replan(p) /\ n.inbox = p.inbox
                              /\ KeepsShip(p.work, n.work) /\ KeepsTalk(p.work, n.work)
    BY ReplanType
  <2>3. n = next
    BY <1>6, <2>1, <2>2
  <2> HIDE DEF next
  <2>4. Pushed(w, p.work) /\ n.inbox = mem.inbox
    BY <1>6, <2>1, <2>2
  <2> QED
    BY <2>2, <2>3, <2>4 DEF Pushed, KeepsShip, KeepsTalk
<1>9. Whole(n.work) /\ Known(n.work) = Known(w)
  <2>1. PICK k \in Works, j \in Works : k = w /\ j = n.work
    BY <1>2 DEF Memories
  <2>2. Whole(k) /\ {} \subseteq k.told
    BY <1>2, <2>1 DEF Recalls
  <2>3. /\ j.pending = NoTurn /\ j.iter = k.iter /\ j.told = k.told
        /\ j.talk.calls = k.talk.calls /\ j.talk.orphans = k.talk.orphans
        /\ j.talk.results = k.talk.results \cup k.pending.results
    BY <1>8, <2>1
  <2>4. j.talk.heard = k.talk.heard \cup k.pending.heard \cup {}
    BY <1>8, <2>1
  <2>5. NoneLeft(k.pending)
    BY <1>3, <2>1
  <2>6. PICK none : none = {}
    OBVIOUS
  <2>7. j.talk.heard = k.talk.heard \cup k.pending.heard \cup none /\ none \subseteq k.told
    BY <2>4, <2>6
  <2>8. Whole(j) /\ Known(j) = Known(k) \cup none
    BY <2>2, <2>3, <2>5, <2>7, PushedWhole
  <2> QED
    BY <2>1, <2>6, <2>8
<1>10. Recalls(n)
  BY <1>2, <1>8, <1>9 DEF Recalls
<1>11. Shipped(n.work)
  BY <1>2, <1>8, ShippedSame
<1>12. "loop" \in Ahead /\ \A m \in Memories : Stands("loop", m.work) /\ Follows("loop", m)
  BY DEF Ahead, Pcs, Stands, Follows, Thinking, Answering
<1>13. CASE ~(counted.errors >= MaxErrors) /\ mem.finished
  <2>1. PICK p \in Phases : p = AfterGate(w.gate)
    BY DEF AfterGate, Phases
  <2>2. PICK m \in Memories :
             /\ m = [n EXCEPT !.work.phase = p] /\ m.inbox = n.inbox
             /\ KeepsTalk(n.work, m.work) /\ m.work.phase = p
             /\ m.work.gate = n.work.gate /\ m.work.pushed = n.work.pushed
             /\ m.work.green = n.work.green /\ m.work.merged = n.work.merged
    BY PhasedType
  <2>3. mem' = SaveThen(m, "loop")
    <3>1. mem' = SaveThen([next EXCEPT !.work.phase = AfterGate(w.gate)], "loop")
      BY <1>1, <1>13
    <3> HIDE DEF next
    <3> QED
      BY <1>8, <2>1, <2>2, <3>1
  <2>4. Passed(w.gate)
    BY <1>1, <1>13 DEF AgentIInv, Ships, Passed
  <2>5. Recalls(m)
    BY <1>10, <2>2, RecallsSame
  <2>6. Shipped(m.work)
    <3>1. /\ m.work.gate = w.gate /\ m.work.pushed = w.pushed /\ m.work.merged = FALSE
          /\ m.work.pushed <= tree.edits
      BY <1>2, <1>8, <2>2 DEF KeepsShip, Shipped, Works
    <3>2. p \in {"report", "publish"}
      BY <2>1 DEF AfterGate
    <3>3. p = "report" /\ publish # "none" /\ w.gate.last => m.work.pushed = tree.edits
      <4> SUFFICES ASSUME p = "report", publish # "none", w.gate.last PROVE m.work.pushed = tree.edits
        OBVIOUS
      <4>1. w.gate.edits = 0
        BY <2>1 DEF AfterGate
      <4>2. tree.edits = 0
        BY <2>4, <4>1 DEF Passed
      <4>3. m.work.pushed \in Nat
        BY DEF Memories, Works
      <4> QED
        BY <3>1, <4>2, <4>3
    <3> QED
      BY <2>2, <2>4, <3>1, <3>2, <3>3 DEF Shipped
  <2> QED
    BY <1>1, <1>2, <1>12, <2>3, <2>5, <2>6, SavesNext
<1>14. CASE ~(counted.errors >= MaxErrors) /\ ~mem.finished /\ mem.again
  <2>1. PICK d \in Memories :
             /\ d = Deliver(n) /\ d.inbox = {} /\ KeepsShip(n.work, d.work)
             /\ d.work.iter = n.work.iter /\ d.work.told = n.work.told
             /\ d.work.pending = n.work.pending
             /\ d.work.talk = [n.work.talk EXCEPT !.heard = @ \cup n.inbox]
    BY DeliverType
  <2>2. mem' = SaveThen(d, "loop")
    BY <1>1, <1>8, <1>14, <2>1
  <2>3. n.work.talk \in TalkSet
    BY DEF Memories, Works
  <2>4. /\ d.work.talk.calls = n.work.talk.calls /\ d.work.talk.results = n.work.talk.results
        /\ d.work.talk.orphans = n.work.talk.orphans
        /\ d.work.talk.heard = n.work.talk.heard \cup n.inbox
    BY <2>1, <2>3 DEF TalkSet
  <2>5. Known(d.work) = Known(n.work) \cup n.inbox
    BY <2>1, <2>4 DEF Known
  <2>6. Known(d.work) \subseteq d.work.told
    BY <1>9, <1>10, <2>1, <2>5 DEF Recalls, Whole
  <2>7. Whole(d.work)
    BY <1>9, <2>1, <2>4, <2>6, WholeHeard
  <2>8. Recalls(d)
    BY <1>10, <2>1, <2>5, <2>7 DEF Recalls
  <2>9. Shipped(d.work)
    BY <1>11, <2>1, ShippedSame
  <2> QED
    BY <1>1, <1>2, <1>12, <2>2, <2>8, <2>9, SavesNext
<1>15. CASE ~(counted.errors >= MaxErrors) /\ ~mem.finished /\ ~mem.again
  <2>1. mem' = SaveThen(n, "loop")
    BY <1>1, <1>8, <1>15
  <2> QED
    BY <1>1, <1>2, <1>10, <1>11, <1>12, <2>1, SavesNext
<1> HIDE DEF counted, closed, next
<1> QED
  BY <1>7, <1>13, <1>14, <1>15


-----------------------------------------------------------------------------
(* What goes out.                                                            *)
LEMMA AtShip ==
    ASSUME AgentIInv, mem.pc \in {"publish", "pull", "ci", "deploy", "verify", "report"}
    PROVE  /\ mem.pc # "idle" /\ mem \in Memories /\ w \in Works /\ saved = w
           /\ Shipped(w) /\ Recalls(mem) /\ Stands(mem.pc, w) /\ OutTypes /\ GatedPushes
           /\ Passed(w.gate)
<1>1. mem.pc # "idle" /\ mem.pc \notin Thinking \cup {"save"}
  BY DEF Thinking
<1>2. /\ mem \in Memories /\ w \in Works /\ saved = w
      /\ Shipped(w) /\ Recalls(mem) /\ Stands(mem.pc, w)
  BY <1>1, Facts
<1>3. OutTypes /\ GatedPushes
  BY DEF AgentIInv, Types, OutTypes
<1>4. w.phase # "work"
  BY <1>2 DEF Stands
<1> QED
  BY <1>1, <1>2, <1>3, <1>4 DEF Shipped

(* From there it goes round, ends, or looks once more.                       *)
LEMMA ShipSaves ==
    ASSUME AgentIInv, mem.pc \in {"publish", "pull", "ci", "deploy", "verify", "report"},
           NEW m \in Memories, NEW pc \in Ahead, mem' = SaveThen(m, pc), Rows, Onward, OutTypes',
           GatedPushes', KeepsTalk(w, m.work), m.inbox = mem.inbox,
           Shipped(m.work)', Stands(pc, m.work)', pc \notin {"take"} \cup Answering
    PROVE  AgentIInv'
<1>1. mem.pc # "idle" /\ mem \in Memories /\ w \in Works /\ saved = w /\ Shipped(w) /\ Recalls(mem)
  BY AtShip
<1>2. Recalls(m)
  BY <1>1, RecallsSame
<1>3. Follows(pc, m)
  BY DEF Follows
<1>4. PICK k \in Works : k = w
  BY <1>1
<1>5. Shipped(k)' /\ saved' = k
  BY <1>1, <1>4, ShippedStays DEF Rows
<1>6. Shipped(saved)'
  BY <1>5 DEF Shipped, Passed, Allowed, OnBranch
<1> QED
  BY <1>1, <1>2, <1>3, <1>6, StepSaves

LEMMA ShipStops ==
    ASSUME AgentIInv, mem.pc \in {"publish", "pull", "ci", "deploy", "verify", "report"},
           NEW pc \in {"blocked", "awaiting_approval", "loop"}, mem' = SaveThen(mem, pc), Rows,
           Onward, OutTypes', GatedPushes'
    PROVE  AgentIInv'
<1>1. mem \in Memories /\ w \in Works /\ Shipped(w)
  BY AtShip
<1>2. PICK m \in Memories, k \in Works : m = mem /\ k = w
  BY <1>1
<1>3. Shipped(k)' /\ m.work = k
  BY <1>1, <1>2, ShippedStays
<1>4. pc \in Ahead /\ Stands(pc, k)' /\ pc \notin {"take"} \cup Answering
  BY DEF Ahead, Pcs, Ends, Stands, Thinking, Answering
<1>5. KeepsTalk(w, m.work) /\ m.inbox = mem.inbox
  BY <1>2 DEF KeepsTalk
<1> QED
  BY <1>2, <1>3, <1>4, <1>5, ShipSaves

LEMMA StaysOnward ==
    ASSUME AgentIInv, MemoryOnly
    PROVE  Rows /\ Onward /\ OutTypes' /\ GatedPushes'
<1>1. UNCHANGED <<tree, publish, published, leave>>
  BY DEF MemoryOnly, Durable, Outside, ownerVars
<1> QED
  BY <1>1, StaysOut DEF Onward

LEMMA PushBranchKeeps ==
    ASSUME AgentIInv, PushBranch
    PROVE  AgentIInv'
<1> DEFINE row == [edits |-> tree.edits, guarded |-> tree.guarded, gate |-> w.gate]
           m == [mem EXCEPT !.work.pushed = tree.edits]
<1>1. /\ mem.pc = "publish"
      /\ \/ published' = published \cup {row} /\ (mem' = SaveThen(m, "pull") \/ Blocked)
         \/ published' = published /\ Blocked
      /\ UNCHANGED <<status, saved, dropped, crashes, resumes, publish, tree, leave, unread, taken>>
  BY DEF PushBranch, At, Durable, Inbox, ownerVars
<1>2. /\ mem \in Memories /\ w \in Works /\ Shipped(w) /\ Stands("publish", w)
      /\ OutTypes /\ GatedPushes /\ Passed(w.gate)
  BY <1>1, AtShip
<1>3. row \in Pushes /\ row.edits = tree.edits /\ row.guarded = tree.guarded /\ row.gate = w.gate
  BY <1>2 DEF Works, OutTypes, Pushes
<1> HIDE DEF row
<1>4. row.gate.last => row.edits = row.gate.edits /\ (row.guarded => leave.change = "approved")
  BY <1>2, <1>3 DEF Passed, Allowed
<1>5. Rows /\ Onward
  BY <1>1 DEF Rows, Onward
<1>6. OutTypes' /\ GatedPushes'
  BY <1>1, <1>2, <1>3, <1>4 DEF OutTypes, GatedPushes
<1>7. CASE Blocked
  BY <1>1, <1>5, <1>6, <1>7, ShipStops DEF Blocked
<1>8. CASE published' = published \cup {row} /\ mem' = SaveThen(m, "pull")
  <2>1. PICK i \in Nat : i = tree.edits
    BY <1>2 DEF OutTypes
  <2> DEFINE k == [w EXCEPT !.pushed = i]
  <2>2. k \in Works
    BY <1>2 DEF Works
  <2>3. KeepsTalk(w, k) /\ k.phase = w.phase /\ k.gate = w.gate /\ k.pushed = i
        /\ k.merged = w.merged
    BY <1>2 DEF Works, KeepsTalk
  <2>4. m = [mem EXCEPT !.work = k]
    BY <1>2, <2>1 DEF Memories
  <2>5. PICK j \in Works : j = k
    BY <2>2
  <2> HIDE DEF k
  <2>6. m \in Memories /\ m.work = j /\ m.inbox = mem.inbox
    <3> HIDE DEF m
    <3> QED
      BY <1>2, <2>2, <2>4, <2>5, WorkType
  <2> HIDE DEF m
  <2>7. PICK n \in Memories : n = m
    BY <2>6
  <2>8. j.phase = "publish" /\ j.merged = FALSE /\ j.gate = w.gate /\ j.pushed = i
    BY <1>2, <2>3, <2>5 DEF Stands, Shipped, Works
  <2>9. tree' = tree /\ leave' = leave /\ publish' = publish /\ i <= i
    BY <1>1
  <2>10. OnBranch(j)'
    BY <1>3, <1>8, <2>1, <2>8 DEF OnBranch
  <2>11. Shipped(j)'
    BY <1>2, <2>1, <2>8, <2>9 DEF Shipped, Passed, Allowed
  <2>12. Stands("pull", j)'
    BY <2>1, <2>8, <2>9, <2>10 DEF Stands, Thinking
  <2>13. "pull" \in Ahead /\ "pull" \notin {"take"} \cup Answering
    BY DEF Ahead, Pcs, Answering, Thinking
  <2> QED
    BY <1>1, <1>5, <1>6, <1>8, <2>3, <2>5, <2>6, <2>7, <2>11, <2>12, <2>13, ShipSaves
<1> QED
  BY <1>1, <1>7, <1>8

(* A new phase.                                                              *)
LEMMA PhaseKeeps ==
    ASSUME AgentIInv, mem.pc \in {"publish", "pull", "ci", "deploy", "verify", "report"},
           MemoryOnly, NEW phase \in Phases, mem' = ToPhase(phase),
           phase # "work" /\ (phase \in {"ci", "deploy", "verify"} => w.pushed = tree.edits /\ OnBranch(w)),
           phase \in {"deploy", "verify"} \/ w.merged => w.green = w.pushed,
           w.merged => phase \in {"deploy", "verify", "report"},
           phase = "report" /\ publish # "none" => w.pushed = tree.edits
    PROVE  AgentIInv'
<1>1. mem \in Memories /\ w \in Works /\ Shipped(w) /\ Passed(w.gate)
  BY AtShip
<1>2. PICK m \in Memories :
           /\ m = [mem EXCEPT !.work.phase = phase] /\ m.inbox = mem.inbox
           /\ KeepsTalk(w, m.work) /\ m.work.phase = phase
           /\ m.work.gate = w.gate /\ m.work.pushed = w.pushed
           /\ m.work.green = w.green /\ m.work.merged = w.merged
  BY <1>1, PhasedType
<1>3. mem' = SaveThen(m, "loop")
  BY <1>2 DEF ToPhase
<1>4. Shipped(m.work)
  BY <1>1, <1>2 DEF Shipped, OnBranch
<1>5. Rows /\ Onward /\ OutTypes' /\ GatedPushes'
  BY StaysOnward
<1>6. PICK k \in Works : k = m.work
  BY DEF Memories
<1>7. Shipped(k)' /\ Stands("loop", k)'
  BY <1>4, <1>5, <1>6, ShippedStays DEF Stands, Thinking
<1>8. "loop" \in Ahead /\ "loop" \notin {"take"} \cup Answering
  BY DEF Ahead, Pcs, Answering
<1> QED
  BY <1>2, <1>3, <1>5, <1>6, <1>7, <1>8, ShipSaves

LEMMA PullRequestKeeps ==
    ASSUME AgentIInv, PullRequest
    PROVE  AgentIInv'
<1>1. /\ mem.pc = "pull" /\ MemoryOnly
      /\ mem' = ToPhase("report") \/ mem' = ToPhase("ci") \/ Blocked
  BY DEF PullRequest, At, MemoryOnly
<1>2. /\ Stands("pull", w) /\ Shipped(w) /\ w \in Works
  BY <1>1, AtShip
<1>3. w.pushed = tree.edits /\ OnBranch(w) /\ ~w.merged
  BY <1>2 DEF Stands, Shipped, Works
<1>4. CASE Blocked
  BY <1>1, <1>4, StaysOnward, ShipStops DEF Blocked
<1>5. ASSUME NEW phase \in {"report", "ci"}, mem' = ToPhase(phase)
      PROVE  AgentIInv'
  BY <1>1, <1>3, <1>5, PhaseKeeps DEF Phases
<1> QED
  BY <1>1, <1>4, <1>5


LEMMA ShipWork ==
    ASSUME AgentIInv, mem.pc \in {"publish", "pull", "ci", "deploy", "verify", "report"}, MemoryOnly,
           NEW k \in Works, NEW pc \in Ahead, mem' = SaveThen([mem EXCEPT !.work = k], pc),
           KeepsTalk(w, k), Shipped(k), Stands(pc, k), pc \notin {"take"} \cup Answering
    PROVE  AgentIInv'
<1>1. PICK m \in Memories : m = [mem EXCEPT !.work = k] /\ m.work = k /\ m.inbox = mem.inbox
  BY AtShip, WorkType
<1>2. Rows /\ Onward /\ OutTypes' /\ GatedPushes'
  BY StaysOnward
<1>3. Shipped(k)' /\ Stands(pc, k)'
  BY <1>2, ShippedStays
<1> QED
  BY <1>1, <1>2, <1>3, ShipSaves

LEMMA PolledKeeps ==
    ASSUME AgentIInv, mem.pc \in {"ci", "deploy"}, MemoryOnly,
           \/ mem' = [SaveThen(mem, "ci") EXCEPT !.polls = @ + 1] /\ mem.pc = "ci"
           \/ mem' = [mem EXCEPT !.polls = @ + 1] /\ mem.pc = "deploy"
    PROVE  AgentIInv'
<1>1. /\ mem \in Memories /\ w \in Works /\ saved = w /\ mem.pc # "idle"
      /\ Shipped(w) /\ Recalls(mem) /\ Stands(mem.pc, w)
  BY AtShip
<1>2. PICK i \in Nat : i = mem.polls + 1
  <2>1. mem.polls \in Nat
    BY <1>1 DEF Memories
  <2> QED
    BY <2>1
<1> DEFINE n == [mem EXCEPT !.polls = i]
<1>3. n \in Memories
  BY <1>1 DEF Memories
<1>4. n.work = w /\ n.inbox = mem.inbox /\ n.pc = mem.pc
  BY <1>1 DEF Memories
<1>5. CASE mem' = [mem EXCEPT !.polls = @ + 1] /\ mem.pc = "deploy"
  <2>1. mem' = n
    BY <1>2, <1>5
  <2> HIDE DEF n
  <2>2. PICK m \in Memories : m = n
    BY <1>3
  <2>3. Ships(m)
    BY <1>1, <1>4, <1>5, <2>2 DEF Ships, Thinking
  <2>4. Recalls(m)
    BY <1>1, <1>4, <2>2, RecallsSame DEF KeepsTalk
  <2>5. Tells(m)
    BY <1>4, <1>5, <2>2, <2>4 DEF Tells, Follows, Answering
  <2> QED
    BY <1>1, <1>4, <2>1, <2>2, <2>3, <2>5, OnlyMemory
<1>6. CASE mem' = [SaveThen(mem, "ci") EXCEPT !.polls = @ + 1] /\ mem.pc = "ci"
  <2>1. mem' = SaveThen(n, "ci")
    BY <1>1, <1>2, <1>6 DEF SaveThen, Memories
  <2> HIDE DEF n
  <2>2. PICK m \in Memories : m = n
    BY <1>3
  <2>3. Recalls(m) /\ Shipped(m.work) /\ Stands("ci", m.work)
    BY <1>1, <1>4, <1>6, <2>2, RecallsSame DEF KeepsTalk
  <2>4. "ci" \in Ahead /\ Follows("ci", m)
    BY DEF Ahead, Pcs, Follows, Answering
  <2> QED
    BY <1>1, <2>1, <2>2, <2>3, <2>4, SavesNext
<1> QED
  BY <1>5, <1>6

LEMMA CiKeeps ==
    ASSUME AgentIInv, Ci
    PROVE  AgentIInv'
<1> DEFINE next == IF publish = "merge" THEN "deploy" ELSE "report"
           green == [mem EXCEPT !.work.green = w.pushed, !.work.phase = next]
           n == [mem EXCEPT !.work.ciRounds = @ + 1]
<1>1. /\ mem.pc = "ci" /\ MemoryOnly
      /\ \/ mem' = SaveThen(green, "loop")
         \/ mem' = SaveThen(n, "blocked")
         \/ mem' = SaveThen([n EXCEPT !.work.phase = "work"], "loop")
         \/ Blocked
         \/ mem' = [SaveThen(mem, "ci") EXCEPT !.polls = @ + 1]
  BY DEF Ci, At, CiFails, Polled, MemoryOnly
<1>2. /\ mem \in Memories /\ w \in Works /\ Shipped(w) /\ Stands("ci", w) /\ Passed(w.gate)
  BY <1>1, AtShip
<1>3. w.phase = "ci" /\ w.merged = FALSE /\ w.pushed = tree.edits /\ OnBranch(w)
  BY <1>2 DEF Stands, Shipped, Works
<1>4. "loop" \in Ahead /\ "loop" \notin {"take"} \cup Answering
      /\ "blocked" \in Ahead /\ "blocked" \notin {"take"} \cup Answering
      /\ \A k : Stands("loop", k) /\ Stands("blocked", k)
  BY DEF Ahead, Pcs, Ends, Answering, Stands, Thinking
<1>5. CASE mem' = SaveThen(green, "loop")
  <2>1. PICK p \in {"deploy", "report"}, g \in Nat : p = next /\ g = w.pushed
    BY <1>2 DEF Works
  <2> DEFINE k == [w EXCEPT !.green = g, !.phase = p]
  <2>2. k \in Works
    BY <1>2 DEF Works, Phases
  <2>3. KeepsTalk(w, k) /\ k.phase = p /\ k.gate = w.gate /\ k.pushed = w.pushed /\ k.green = g
        /\ k.merged = w.merged
    BY <1>2 DEF Works, KeepsTalk
  <2>4. green = [mem EXCEPT !.work = k]
    BY <1>2, <2>1 DEF Memories
  <2>5. PICK j \in Works : j = k
    BY <2>2
  <2> HIDE DEF k
  <2>6. Shipped(j)
    BY <1>2, <1>3, <2>1, <2>3, <2>5 DEF Shipped, OnBranch
  <2>7. mem' = SaveThen([mem EXCEPT !.work = j], "loop") /\ KeepsTalk(w, j)
    BY <1>5, <2>3, <2>4, <2>5
  <2> QED
    BY <1>1, <1>4, <2>6, <2>7, ShipWork
<1>6. CASE mem' = SaveThen(n, "blocked") \/ mem' = SaveThen([n EXCEPT !.work.phase = "work"], "loop")
  <2>1. PICK i \in Nat : i = w.ciRounds + 1
    <3>1. w.ciRounds \in Nat
      BY <1>2 DEF Works
    <3> QED
      BY <3>1
  <2> DEFINE k == [w EXCEPT !.ciRounds = i]
             q == [w EXCEPT !.ciRounds = i, !.phase = "work"]
  <2>2. k \in Works /\ KeepsTalk(w, k) /\ KeepsShip(w, k)
    <3>1. k \in Works
      BY <1>2 DEF Works
    <3>2. KeepsTalk(w, k) /\ KeepsShip(w, k)
      BY <1>2 DEF Works, KeepsTalk, KeepsShip
    <3> QED
      BY <3>1, <3>2
  <2>3. q \in Works /\ KeepsTalk(w, q) /\ q.phase = "work" /\ q.merged = w.merged
        /\ q.pushed = w.pushed
    <3>1. q \in Works
      BY <1>2 DEF Works, Phases
    <3>2. KeepsTalk(w, q) /\ q.phase = "work" /\ q.merged = w.merged /\ q.pushed = w.pushed
      BY <1>2 DEF Works, KeepsTalk
    <3> QED
      BY <3>1, <3>2
  <2>4. n = [mem EXCEPT !.work = k] /\ [n EXCEPT !.work.phase = "work"] = [mem EXCEPT !.work = q]
    BY <1>2, <2>1 DEF Memories, Works
  <2>5. PICK j \in Works, s \in Works : j = k /\ s = q
    BY <2>2, <2>3
  <2> HIDE DEF k, q, n
  <2>6. Shipped(j) /\ KeepsTalk(w, j)
    BY <1>2, <2>2, <2>5, ShippedSame
  <2>7. Shipped(s) /\ KeepsTalk(w, s)
    BY <1>2, <1>3, <2>3, <2>5 DEF Shipped
  <2>8. \/ mem' = SaveThen([mem EXCEPT !.work = j], "blocked")
        \/ mem' = SaveThen([mem EXCEPT !.work = s], "loop")
    BY <1>6, <2>4, <2>5
  <2> QED
    BY <1>1, <1>4, <2>6, <2>7, <2>8, ShipWork
<1>7. CASE Blocked
  BY <1>1, <1>7, StaysOnward, ShipStops DEF Blocked
<1>8. CASE mem' = [SaveThen(mem, "ci") EXCEPT !.polls = @ + 1]
  BY <1>1, <1>8, PolledKeeps
<1> HIDE DEF green, n
<1> QED
  BY <1>1, <1>5, <1>6, <1>7, <1>8

LEMMA MergeKeeps ==
    ASSUME AgentIInv, Merge
    PROVE  AgentIInv'
<1>1. /\ mem.pc = "deploy" /\ Requested("merge")
      /\ \/ leave.merge = "approved" /\ mem' = SaveThen([mem EXCEPT !.work.merged = TRUE], "deploy")
         \/ mem' = SaveThen(mem, "blocked")
         \/ mem' = SaveThen(mem, "awaiting_approval")
      /\ UNCHANGED <<status, saved, dropped, crashes, resumes, publish, tree, published, unread, taken>>
  BY DEF Merge, At, Blocked, Durable, Inbox, ownerVars
<1>2. Rows /\ Onward /\ OutTypes' /\ GatedPushes' /\ (leave.merge # "no" => leave' = leave)
  BY <1>1, RequestedOnward DEF Rows
<1>3. CASE mem' = SaveThen(mem, "blocked") \/ mem' = SaveThen(mem, "awaiting_approval")
  BY <1>1, <1>2, <1>3, ShipStops
<1>4. CASE leave.merge = "approved" /\ mem' = SaveThen([mem EXCEPT !.work.merged = TRUE], "deploy")
  <2>1. mem \in Memories /\ w \in Works /\ Shipped(w) /\ Stands("deploy", w)
    BY <1>1, AtShip
  <2> DEFINE k == [w EXCEPT !.merged = TRUE]
  <2>2. k \in Works
    BY <2>1 DEF Works
  <2>3. KeepsTalk(w, k) /\ k.phase = w.phase /\ k.gate = w.gate /\ k.pushed = w.pushed
        /\ k.green = w.green
    BY <2>1 DEF Works, KeepsTalk
  <2>4. [mem EXCEPT !.work.merged = TRUE] = [mem EXCEPT !.work = k]
    BY <2>1 DEF Memories
  <2>5. PICK j \in Works : j = k
    BY <2>2
  <2> HIDE DEF k
  <2>6. w.phase = "deploy"
    BY <2>1 DEF Stands
  <2>7. Shipped(j)
    BY <1>4, <2>1, <2>3, <2>5, <2>6 DEF Shipped, OnBranch
  <2>8. Stands("deploy", j)
    BY <2>3, <2>5, <2>6 DEF Stands, Thinking
  <2>9. MemoryOnly
    BY <1>1, <1>2, <1>4 DEF MemoryOnly, Durable, Outside, Inbox, ownerVars
  <2>10. "deploy" \in Ahead /\ "deploy" \notin {"take"} \cup Answering
    BY DEF Ahead, Pcs, Answering
  <2> QED
    BY <1>1, <1>4, <2>3, <2>4, <2>5, <2>7, <2>8, <2>9, <2>10, ShipWork
<1> QED
  BY <1>1, <1>3, <1>4

LEMMA DeployKeeps ==
    ASSUME AgentIInv, Deploy
    PROVE  AgentIInv'
<1>1. /\ mem.pc = "deploy" /\ MemoryOnly
      /\ mem' = ToPhase("verify") \/ Blocked \/ mem' = [mem EXCEPT !.polls = @ + 1]
  BY DEF Deploy, At, Polled, MemoryOnly
<1>2. Shipped(w) /\ Stands("deploy", w)
  BY <1>1, AtShip
<1>3. w.phase = "deploy"
  BY <1>2 DEF Stands
<1>4. CASE Blocked
  BY <1>1, <1>4, StaysOnward, ShipStops DEF Blocked
<1>5. CASE mem' = [mem EXCEPT !.polls = @ + 1]
  BY <1>1, <1>5, PolledKeeps
<1>6. CASE mem' = ToPhase("verify")
  BY <1>1, <1>2, <1>3, <1>6, PhaseKeeps DEF Phases, Shipped
<1> QED
  BY <1>1, <1>4, <1>5, <1>6

LEMMA VerifyKeeps ==
    ASSUME AgentIInv, Verify
    PROVE  AgentIInv'
<1>1. mem.pc = "verify" /\ MemoryOnly /\ (mem' = ToPhase("report") \/ Blocked)
  BY DEF Verify, At, MemoryOnly
<1>2. Shipped(w) /\ Stands("verify", w)
  BY <1>1, AtShip
<1>3. w.phase = "verify"
  BY <1>2 DEF Stands
<1>4. CASE Blocked
  BY <1>1, <1>4, StaysOnward, ShipStops DEF Blocked
<1>5. CASE mem' = ToPhase("report")
  BY <1>1, <1>2, <1>3, <1>5, PhaseKeeps DEF Phases, Shipped
<1> QED
  BY <1>1, <1>4, <1>5

LEMMA CompleteKeeps ==
    ASSUME AgentIInv, Complete
    PROVE  AgentIInv'
<1>1. mem.pc = "report" /\ MemoryOnly /\ mem' = SaveThen(mem, "completed")
  BY DEF Complete, At, MemoryOnly
<1>2. mem \in Memories /\ mem.pc # "idle" /\ Shipped(w) /\ Recalls(mem) /\ Stands("report", w)
  BY <1>1, AtShip
<1>3. Stands("completed", w) /\ "completed" \in Ahead /\ Follows("completed", mem)
  BY <1>2 DEF Stands, Thinking, Ahead, Pcs, Ends, Follows, Answering
<1> QED
  BY <1>1, <1>2, <1>3, SavesNext


-----------------------------------------------------------------------------
(* The specification.                                                       *)
LEMMA AgentInitHolds ==
    ASSUME AgentInit
    PROVE  AgentIInv
<1>1. /\ status = "queued" /\ publish \in Publishes /\ mem = Idle /\ saved = NoWork
      /\ tree = [edits |-> 0, guarded |-> FALSE] /\ leave = [change |-> "no", merge |-> "no"]
      /\ unread = {} /\ taken = {} /\ dropped = {} /\ published = {} /\ resumes = 0 /\ crashes = 0
  BY DEF AgentInit
<1>2. /\ mem \in Memories /\ mem.pc = "idle" /\ w = NoWork /\ saved \in Works
  BY <1>1, IdleType, NoWorkType
<1>3. leave \in [{"change", "merge"} -> {"no", "pending", "approved", "rejected"}]
  BY <1>1
<1>4. Types
  BY <1>1, <1>2, <1>3 DEF Types
<1>5. GatedPushes
  BY <1>1 DEF GatedPushes
<1>6. Replies
  <2>1. 1..0 = {}
    OBVIOUS
  <2> QED
    BY <1>1, <2>1 DEF Replies
<1>7. /\ NoWork.phase = "work" /\ NoWork.merged = FALSE /\ NoWork.pushed = 0
      /\ NoWork.iter = 0 /\ NoWork.pending = NoTurn /\ NoWork.talk = NewTalk
      /\ NoWork.told = {}
  BY DEF NoWork
<1>8. Shipped(NoWork) /\ Stands("idle", NoWork)
  BY <1>1, <1>7 DEF Shipped, Stands, Thinking
<1>9. Ships(mem)
  BY <1>2, <1>8 DEF Ships, Thinking
<1>10. Whole(NoWork)
  <2>1. NewTalk.calls = {} /\ NewTalk.results = {} /\ NewTalk.heard = {}
    BY DEF NewTalk
  <2>2. 0 <= MaxTurns /\ 0 <= 0
    BY AgentRunAssumption
  <2> QED
    BY <1>7, <2>1, <2>2, NoTurnType DEF Whole, Known
<1>11. Tells(mem)
  BY <1>2 DEF Tells
<1> QED
  BY <1>1, <1>2, <1>4, <1>5, <1>6, <1>8, <1>9, <1>10, <1>11 DEF AgentIInv

LEMMA AgentStutters ==
    ASSUME AgentIInv, UNCHANGED agentVars
    PROVE  AgentIInv'
<1>1. UNCHANGED <<status, mem, saved, tree, leave, unread, taken, dropped, published, crashes,
                  resumes, publish>>
  BY DEF agentVars, ownerVars
<1>2. Types' /\ GatedPushes' /\ Replies' /\ Shipped(saved)' /\ Whole(saved)' /\ Known(saved)' = Known(saved)
  BY <1>1 DEF AgentIInv, Types, GatedPushes, Replies, Shipped, Passed, Allowed, OnBranch, Whole, Known
<1>3. Ships(mem)' /\ Tells(mem)'
  BY <1>1 DEF AgentIInv, Ships, Shipped, Passed, Allowed, OnBranch, Stands, Tells, Recalls, Whole,
              Known, Follows
<1> QED
  BY <1>1, <1>2, <1>3 DEF AgentIInv

LEMMA AgentStepHolds ==
    ASSUME AgentIInv, [AgentNext]_agentVars
    PROVE  AgentIInv'
<1>1. CASE Start \/ Checkpoint \/ Loop \/ Finish
  BY <1>1, StartKeeps, CheckpointKeeps, LoopKeeps, FinishKeeps
<1>2. CASE Turn
  BY <1>2, TakeKeeps, TrimKeeps, SameModelKeeps, SwitchKeeps, OtherModelKeeps, NoModelKeeps,
     WaitedKeeps DEF Turn
<1>3. CASE Tool
  BY <1>3, ReadKeeps, ChangeKeeps, BadKeeps, AskKeeps, GrantKeeps, GateKeeps, EndTurnKeeps DEF Tool
<1>4. CASE Ship
  BY <1>4, PushBranchKeeps, PullRequestKeeps, CiKeeps, MergeKeeps, DeployKeeps, VerifyKeeps,
     CompleteKeeps DEF Ship
<1>5. CASE Crash \/ Owner
  BY <1>5, CrashKeeps, ReplyKeeps, ResumeKeeps, DecideKeeps DEF Owner
<1>6. CASE UNCHANGED agentVars
  BY <1>6, AgentStutters
<1> QED
  BY <1>1, <1>2, <1>3, <1>4, <1>5, <1>6 DEF AgentNext, AgentStep

(* The inductive invariant: how the phase a session is in, its newest         *)
(* checkpoint, the worktree and GitHub hang together, and what of the         *)
(* conversation, the turn being carried out and the replies is where.         *)
THEOREM AgentInvariant == AgentSpec => []AgentIInv
BY AgentInitHolds, AgentStepHolds, PTL DEF AgentSpec

(* Conversations, checkpoints, the worktree and the owner's decisions are of  *)
(* their types, and no session takes more turns than maxIterations.           *)
THEOREM AgentTypes == AgentSpec => []AgentTypeOK
<1>1. ASSUME AgentIInv PROVE AgentTypeOK
  <2>1. /\ Types /\ Replies /\ Whole(saved) /\ (mem.pc = "idle" => w = NoWork)
        /\ (mem.pc # "idle" => Whole(w))
    BY <1>1 DEF AgentIInv, Tells, Recalls
  <2>2. NoWork.iter <= MaxTurns
    <3>1. NoWork.iter = 0
      BY DEF NoWork
    <3> QED
      BY <3>1, AgentRunAssumption
  <2>3. w.iter <= MaxTurns /\ saved.iter <= MaxTurns
    BY <2>1, <2>2 DEF Whole
  <2>4. w \in Works /\ saved \in Works /\ mem.pc \in Pcs
    BY <2>1 DEF Types, Memories
  <2>5. \A k \in Works : /\ k.phase \in DOMAIN Station /\ k.gateFailures \in Nat
                         /\ k.talk.results \cup k.pending.results \subseteq ResultRows
    <3> TAKE k \in Works
    <3>1. k.phase \in Phases /\ k.gateFailures \in Nat /\ k.talk \in TalkSet /\ k.pending \in TurnSet
      BY DEF Works
    <3>2. k.talk.results \cup k.pending.results \subseteq ResultRows
      BY <3>1 DEF TalkSet, TurnSet, FewRows
    <3> QED
      BY <3>1, <3>2, StationType
  <2>6. mem.pc \in {"idle", "save", "loop", "take", "trim", "model", "switched", "waited", "call",
                    "pull"} \cup {Station[p] : p \in DOMAIN Station} \cup Ends
    <3>1. \A p \in {"publish", "ci", "deploy", "verify", "report"} :
            p \in DOMAIN Station /\ Station[p] = p
      BY StationType DEF Phases
    <3> QED
      BY <2>4, <3>1 DEF Pcs, Thinking
  <2>7. unread \cap taken = {}
    BY <2>1 DEF Replies
  <2> QED
    BY <2>1, <2>3, <2>4, <2>5, <2>6, <2>7 DEF AgentTypeOK, Types
<1> QED
  BY <1>1, AgentInvariant, PTL

(* PublishedPassedGate (controller.js: finishGate, publish, watchCi, deploy):  *)
(* for any turns of the model, what is pushed is what a gate passed, what is  *)
(* merged was green and approved, and a completed session left nothing behind. *)
THEOREM OnlyGatedWorkIsPublished == AgentSpec => []PublishedPassedGate
<1>1. ASSUME AgentIInv PROVE PublishedPassedGate
  <2>1. GatedPushes /\ Shipped(saved) /\ (status = "completed" => saved.phase = "report")
    BY <1>1 DEF AgentIInv
  <2> QED
    BY <2>1 DEF PublishedPassedGate, GatedPushes, Shipped, OnBranch
<1> QED
  BY <1>1, AgentInvariant, PTL

(* WhatTheModelReads (controller.js: takeOwnerMessages, executeToolCalls;     *)
(* context-budget.js): for any turns and any number of replies and crashes,   *)
(* every call has its result, a note leads to what it stands for, and a reply *)
(* is in front of the model or went with the memory of a worker.              *)
THEOREM TheModelReadsAll == AgentSpec => []WhatTheModelReads
<1>1. ASSUME AgentIInv PROVE WhatTheModelReads
  <2> SUFFICES ASSUME AtTheModel
               PROVE  /\ w.talk.calls \subseteq {r.id : r \in w.talk.results} \cup w.talk.orphans
                      /\ \A n \in w.talk.results : n.kind = "note" =>
                           \E r \in w.talk.results :
                             r.id = n.of /\ (r.kind = "long" \/ (r.kind = "elided" /\ n.id[1] <= r.of[1]))
                      /\ taken \subseteq w.talk.heard \cup dropped
    BY DEF WhatTheModelReads
  <2>1. mem.pc \in {"model", "switched"}
    BY DEF AtTheModel
  <2>2. Recalls(mem) /\ mem.inbox = {} /\ w.pending = NoTurn
    BY <1>1, <2>1, AtModel
  <2>3. w.talk.calls \subseteq {r.id : r \in w.talk.results} \cup w.talk.orphans
    BY <2>2, NoTurnType DEF Recalls, Whole
  <2>4. \A n \in w.talk.results : ShownIn(n, w.talk.results)
    BY <2>2 DEF Recalls, Whole
  <2>5. taken \subseteq w.talk.heard \cup dropped
    BY <2>2, NoTurnType DEF Recalls, Known
  <2> QED
    BY <2>3, <2>4, <2>5 DEF ShownIn
<1> QED
  BY <1>1, AgentInvariant, PTL


=============================================================================
