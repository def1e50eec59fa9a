----------------------------- MODULE StageWork -----------------------------
(***************************************************************************)
(* What the steps of one objective do inside: workflow.js, with the        *)
(* deterministic gates of office/finance.js and office/quality.js.         *)
(*                                                                         *)
(* A text is reduced to the figures it states: pairs <<kind, value>>, where *)
(* the kind says which check can see the figure.                           *)
(*   "table"  a total or headline row of a table or chart                   *)
(*   "month"  a value of a monthly schedule table                          *)
(*   "line"   a large labelled figure in a sentence                         *)
(*   "claim"  a labelled figure too small for the line filter               *)
(*   "loose"  a figure without a label                                     *)
(* calc is what code calculates from the assumptions of a FINANCE text, 0   *)
(* when it has no structured model.  The steps of an objective run one at a *)
(* time here; they share nothing but what they deliver.                    *)
(***************************************************************************)
EXTENDS Naturals, Sequences, FiniteSetsExt

CONSTANTS
    Values,        \* figures; 0 is none of them
    Drafts,        \* Drafts[e]: the sets of figures employee e may write
    Drills,        \* the owner's drill markers: some of "before", "after", "none"
    Kinds,         \* some of "project" and "direct"
    MaxAttempts,   \* attempts of a step
    MaxFaults      \* bound on failed stages

Marks   == {"table", "month", "line", "claim", "loose"}
Figures == Marks \X Values
Finding == {"finance", "product", "audit"} \X Marks \X Values

Streams == {"finance", "product", "audit", "dev"}
Routes  == {"answer", "development", "research", "orchestrate"}
Wishes  == Streams \cup {"no", "consult", "malformed"}

TextType == [calc : Values \cup {0}, says : SUBSET Figures, findings : SUBSET Finding,
             asks : Wishes \cup Routes \cup {"closed", "not closed"}]

(* Every employee but the Coding Agent writes texts, and no model writes the   *)
(* findings of the code's own checks.                                        *)
ASSUME DraftsAssumption ==
    \A e \in {"finance", "product", "audit", "chief", "research", "consult"} :
        \A o \in Drafts[e] : o \in TextType /\ o.findings = {}

ASSUME AttemptsAssumption == MaxAttempts \in Nat

VARIABLES
    kind,       \* a project, or a conversation with FINANCE
    drill,      \* the drill the owner asked for
    out,        \* out[t]: what step t delivered
    done,       \* steps that delivered
    created,    \* steps that exist
    again,      \* again[i]: whose work the i-th revision step redoes
    reads,      \* the steps the final synthesis reads, {} until it exists
    work,       \* the stage that runs: its step, place, draft, rounds
    tries,      \* tries[t]: attempts begun
    answer,     \* what the owner was told: the figures, and whether it is closed
    effects,    \* effects[t]: how often t saved its artifacts or launched its session
    lost        \* failed stages so far

stageVars == <<kind, drill, out, done, created, again, reads, work, tries, answer, effects, lost>>

Revisable == Streams \ {"dev"}     \* parseRevisionRequest: not the Coding Agent
Revisions == {"again1", "again2"}
Conversation == {"direct", "consult", "follow-up"}
Steps == Streams \cup Revisions \cup {"synthesis", "final"} \cup Conversation
         \cup {"plan", "research", "review"}

Nothing == [calc |-> 0, says |-> {}, findings |-> {}, asks |-> "no"]
Rest      == [step |-> "none", at |-> "idle", draft |-> Nothing, round |-> 0]

Employee(t) ==
    CASE t = "again1" -> again[1]
      [] t = "again2" -> again[2]
      [] t \in {"direct", "follow-up"} -> "finance"
      [] t \in {"plan", "review", "synthesis", "final"} -> "chief"
      [] OTHER -> t

-----------------------------------------------------------------------------
(* office/finance.js                                                        *)
InTable(s) == s[1] \in {"table", "month"}
Labelled(s) == s[1] # "loose"

Wrong(o) == {s \in o.says : Labelled(s) /\ s[2] # o.calc}

Validation(o) ==
    IF o.calc = 0 THEN "INSUFFICIENT"
    ELSE IF Wrong(o) = {} THEN "VERIFIED" ELSE "INCONSISTENT"

NeedsCorrection(o) ==
    \/ Validation(o) = "INCONSISTENT"
    \/ Validation(o) = "INSUFFICIENT" /\ o.says # {}

(* injectFinanceError: only a text with a structured model can be falsified. *)
Injected(o) ==
    IF o.calc = 0 THEN {o}
    ELSE {[o EXCEPT !.says = @ \cup {<<"claim", v>>}] : v \in Values \ {o.calc}}

(* The tables of a text that contradict the calculation c.                  *)
BadTables(o, c) == {s \in o.says : InTable(s) /\ s[2] # c}

(* sanitizeFinancial: the calculator's own schedule replaces every monthly   *)
(* table, and tables that contradict it go.                                 *)
Sanitized(says, c) ==
    IF c = 0 THEN says ELSE {s \in says : InTable(s) => s[1] = "table" /\ s[2] = c}

-----------------------------------------------------------------------------
(* office/quality.js                                                        *)
(* numericChecks: the findings of AUDIT's code checks, <<owner, kind, value>>*)
FinanceFindings(fin) ==
    IF Validation(fin) = "INCONSISTENT"
    THEN {<<"finance", s[1], s[2]>> : s \in Wrong(fin)} ELSE {}

Verified(fin) == IF Validation(fin) = "VERIFIED" THEN fin.calc ELSE 0

TableFindings(owner, o, c) ==
    IF c = 0 THEN {} ELSE {<<owner, s[1], s[2]>> : s \in BadTables(o, c)}

(* A finding that bans its figure: not every monthly value, which may recur.  *)
Telling(f) == f[1] = "finance" \/ f[2] = "table"

(* enforceAudit, auditOwnTables: what the code found is in the report,       *)
(* whatever the model wrote, and AUDIT's own bad tables are gone.           *)
Audited(draft, finance, product) ==
    LET c == Verified(finance)
    IN [draft EXCEPT !.says = Sanitized(@, c),
                     !.findings = FinanceFindings(finance) \cup TableFindings("product", product, c)
                                  \cup TableFindings("audit", draft, c)]

(* The lines the fact filter keeps.                                         *)
Kept(says, g) ==
    {s \in Sanitized(says, g.calc) :
        /\ s[2] \notin g.banned
        /\ g.calc # 0 /\ s[1] = "line" => s[2] = g.calc
        /\ g.calc = 0 /\ g.unverified => s[1] \notin {"line", "table", "month"}}

(* remainingContradictions                                                  *)
Remaining(says, g) ==
    IF g.calc = 0 THEN {}
    ELSE {s \in says : \/ InTable(s) /\ s[2] # g.calc
                       \/ ~InTable(s) /\ s[2] \in g.banned
                       \/ s[1] \in {"line", "claim"} /\ s[2] # g.calc}

(* enforceFacts                                                             *)
Enforced(says, g) ==
    IF g.calc = 0 /\ ~g.unverified /\ g.banned = {} THEN says ELSE Kept(says, g)

\* Seeded mistake: what the filter could not remove does not block.
ClosesUnchecked(says, g) == ~g.blocked

Closes(says, g) == ~g.blocked /\ Remaining(says, g) = {}

-----------------------------------------------------------------------------
(* The steps and what they read.                                            *)
Needs(t) ==
    CASE t \in {"finance", "product", "research"} -> {"plan"}
      [] t = "audit" -> {"finance", "product"}
      [] t = "dev" -> {"product"}
      [] t = "review" -> {"research"}
      [] t = "synthesis" -> Streams
      [] t \in Revisions -> {"synthesis"}
      [] t = "final" -> reads
      [] t = "consult" -> {"direct"}
      [] t = "follow-up" -> {"consult"}
      [] OTHER -> {}

(* What t reads of employee e: places in the order of their sequences.        *)
Order == <<"finance", "product", "audit", "dev", "again1", "again2">>

By(e, t) == {i \in DOMAIN Order : Order[i] \in Needs(t) /\ Employee(Order[i]) = e}

Text(i) == out[Order[i]]

(* What the AUDIT reports that t reads show to be wrong.                       *)
Findings(t) == UNION {Text(i).findings : i \in By("audit", t)}
Shown(t) == {f[3] : f \in {g \in Findings(t) : Telling(g)}}

(* The figures no result may repeat: those, and the mistakes of FINANCE.        *)
Banned(t) ==
    Shown(t) \cup UNION {{f[3] : f \in FinanceFindings(Text(i))} : i \in By("finance", t)}

(* chiefGate: what a synthesis may state, and what has to go back.            *)
FactGate(t) ==
    LET finance == By("finance", t)
        product == By("product", t)
        verified == {i \in finance : Validation(Text(i)) = "VERIFIED"}
        calc == IF verified = {} THEN 0 ELSE Text(Min(verified)).calc
        unverified == \E i \in finance : NeedsCorrection(Text(i))
        clean == calc # 0 /\ product # {} /\ BadTables(Text(Max(product)), calc) = {}
        open == {f \in Findings(t) :
                   \/ f[1] = "finance" /\ (finance = {} \/ unverified)
                   \/ f[1] = "product" /\ ~clean}
    IN [calc |-> calc,
        unverified |-> unverified,
        open |-> {f[1] : f \in open},
        banned |-> Banned(t),
        blocked |-> unverified \/ open # {}]

Is(place) == work.at = place
Step == work.step
Keep(vs) == UNCHANGED <<kind, drill, vs, lost>>

(* The first place of a step's work.                                        *)
Entry(t) ==
    CASE t = "plan" -> "plan"
      [] t \in {"synthesis", "final"} -> "gate"
      [] t = "dev" -> "launch"
      [] OTHER -> "draft"

Begin(t) ==
    /\ Is("idle")
    /\ t \in created \ done /\ tries[t] < MaxAttempts /\ Needs(t) \subseteq done
    /\ tries' = [tries EXCEPT ![t] = @ + 1]
    /\ work' = [step |-> t, at |-> Entry(t), draft |-> Nothing, round |-> 0]
    /\ Keep(<<out, done, created, again, reads, answer, effects>>)

(* executePlan: the Chief answers, hands the request to the Coding Agent, to     *)
(* one specialist, or to the workstreams of a project.                        *)
ChoosePlan ==
    /\ Is("plan")
    /\ \E route \in Routes :
         work' = [work EXCEPT !.draft.asks = route,
                              !.at = IF route = "development" THEN "launch" ELSE "complete"]
    /\ Keep(<<out, done, created, again, reads, tries, answer, effects>>)

(* launchDevelopment, executeLaunchDev: createCodingSession has no key.       *)
Launch ==
    /\ Is("launch")
    /\ effects' = [effects EXCEPT ![Step] = @ + 1]
    /\ work' = [work EXCEPT !.at = "complete"]
    /\ Keep(<<out, done, created, again, reads, tries, answer>>)

(* requestRevisions: the i-th revision keeps the step that the place i        *)
(* already has, whoever it was for.  The process can die after any of them.   *)
Asked(owners, n) ==
    [i \in 1..(IF n > Len(again) THEN n ELSE Len(again)) |->
        IF i <= Len(again) THEN again[i] ELSE owners[i]]

Place(i) == IF i = 1 THEN "again1" ELSE "again2"

Redone(owners) ==
    {IF \E i \in DOMAIN owners : owners[i] = s
     THEN Place(CHOOSE i \in DOMAIN owners : owners[i] = s) ELSE s : s \in Streams}

RequestRevisions(owners) ==
    /\ again' = Asked(owners, Len(owners))
    /\ created' = created \cup {Place(i) : i \in DOMAIN owners} \cup {"final"}
    /\ reads' = IF reads # {} THEN reads ELSE Redone(owners)
    /\ work' = [work EXCEPT !.at = "complete", !.draft = Nothing]

HalfRequested(owners) ==
    \E n \in DOMAIN owners :
        /\ again' = Asked(owners, n)
        /\ created' = created \cup {Place(i) : i \in 1..n}

(* The owners of what the gate blocks, FINANCE first.                       *)
Returned(g) ==
    LET owners == g.open \cup (IF g.unverified THEN {"finance"} ELSE {})
    IN IF owners = {"finance", "product"} THEN <<"finance", "product">>
       ELSE IF owners = {} THEN <<>> ELSE <<CHOOSE o \in owners : TRUE>>

(* executeSynthesis before the model is called.                             *)
CheckGate ==
    /\ Is("gate")
    /\ LET owners == Returned(FactGate(Step))
       IN IF Step = "synthesis" /\ owners # <<>>
          THEN RequestRevisions(owners)
          ELSE work' = [work EXCEPT !.at = "draft"] /\ UNCHANGED <<again, created, reads>>
    /\ Keep(<<out, done, tries, answer, effects>>)

(* The model writes; a drill may falsify FINANCE's first text before its      *)
(* validation.  A direct answer may ask a colleague first.                   *)
AfterDraft(o) ==
    CASE Employee(Step) = "finance" ->
            IF Step = "direct" /\ o.asks = "consult" THEN "complete" ELSE "validate"
      [] Employee(Step) = "chief" ->
            IF Step = "review" THEN "complete"
            ELSE IF o.asks = "no" \/ work.round > 0 THEN "close" ELSE "review"
      [] Step \in {"consult", "research"} -> "complete"
      [] OTHER -> "save"

ModelWrites ==
    /\ Is("draft")
    /\ \E o \in Drafts[Employee(Step)] :
         \E d \in IF /\ Employee(Step) = "finance" /\ drill = "before"
                     /\ Step \notin Revisions /\ work.round = 0
                  THEN Injected(o)
                  ELSE {IF Step = "audit"
                        THEN Audited(o, out["finance"], out["product"]) ELSE o} :
            work' = [work EXCEPT !.draft = d, !.at = AfterDraft(o)]
    /\ Keep(<<out, done, created, again, reads, tries, answer, effects>>)

(* The validation of FINANCE's text and its return to FINANCE.               *)
Failing(o) == IF kind = "project" THEN NeedsCorrection(o) ELSE Validation(o) = "INCONSISTENT"

Returns ==
    /\ Failing(work.draft) /\ work.round < 2
    /\ Validation(work.draft) = "INSUFFICIENT" => work.round = 0

Validate ==
    /\ Is("validate")
    /\ IF Returns
       THEN work' = [work EXCEPT !.round = @ + 1, !.at = "draft"]
       ELSE \E d \in IF drill = "after" /\ Step \notin Revisions
                     THEN Injected(work.draft) ELSE {work.draft} :
               work' = [work EXCEPT !.draft = d, !.at = "save"]
    /\ Keep(<<out, done, created, again, reads, tries, answer, effects>>)

(* The Chief's text is a request for a revision; only the first synthesis may  *)
(* ask, anything else is written once more and used whatever it says.        *)
Review ==
    /\ Is("review")
    /\ IF Step = "synthesis" /\ work.draft.asks \in Revisable
       THEN RequestRevisions(<<work.draft.asks>>)
       ELSE work' = [work EXCEPT !.at = "draft", !.round = 1]
            /\ UNCHANGED <<again, created, reads>>
    /\ Keep(<<out, done, tries, answer, effects>>)

Close ==
    /\ Is("close")
    /\ LET g == FactGate(Step)
           says == Enforced(work.draft.says, g)
       IN work' = [work EXCEPT !.at = "save",
                               !.draft = [Nothing EXCEPT !.says = says, !.calc = g.calc,
                                          !.asks = IF Closes(says, g) THEN "closed"
                                                   ELSE "not closed"]]
    /\ Keep(<<out, done, created, again, reads, tries, answer, effects>>)

(* persistOutputs                                                           *)
Save ==
    /\ Is("save")
    /\ effects' = [effects EXCEPT ![Step] = @ + 1]
    /\ work' = [work EXCEPT !.at = "complete"]
    /\ Keep(<<out, done, created, again, reads, tries, answer>>)

(* The steps a plan or a question to a colleague creates before completeTask. *)
Follows ==
    CASE Step = "plan" /\ work.draft.asks = "orchestrate" -> Streams \cup {"synthesis"}
      [] Step = "plan" /\ work.draft.asks = "research" -> {"research", "review"}
      [] Step = "direct" /\ work.draft.asks = "consult" -> {"consult", "follow-up"}
      [] OTHER -> {}

(* completeTask.  The answer of an objective is what its last step delivers.    *)
Answers ==
    \/ Step \in {"plan", "direct"} /\ Follows = {}
    \/ Step \in {"review", "final", "follow-up"}
    \/ Step = "synthesis" /\ "final" \notin created

CompleteStep ==
    /\ Is("complete")
    /\ out' = [out EXCEPT ![Step] = work.draft]
    /\ done' = done \cup {Step}
    /\ created' = created \cup Follows
    /\ answer' = IF Answers THEN Step ELSE answer
    /\ work' = Rest
    /\ Keep(<<again, reads, tries, effects>>)

(* The stage throws, or the process dies: nothing of it is kept but what it    *)
(* saved, and the revision steps it had created.                            *)
StageFails ==
    /\ ~Is("idle") /\ lost < MaxFaults
    /\ lost' = lost + 1
    /\ work' = Rest
    /\ \/ UNCHANGED <<again, created>>
       \/ /\ Step = "synthesis"
          /\ \/ Is("gate") /\ HalfRequested(Returned(FactGate(Step)))
             \/ Is("review") /\ work.draft.asks \in Revisable /\ HalfRequested(<<work.draft.asks>>)
    /\ UNCHANGED <<kind, drill, out, done, reads, tries, answer, effects>>

StageMoves ==
    \/ ChoosePlan \/ Launch \/ CheckGate \/ ModelWrites \/ Validate
    \/ Review \/ Close \/ Save \/ CompleteStep

StageStep == (\E t \in Steps : Begin(t)) \/ StageMoves

StageNext == StageStep \/ StageFails

StageInit ==
    /\ kind \in Kinds /\ drill \in Drills
    /\ out = [t \in Steps |-> Nothing]
    /\ done = {}
    /\ created = IF kind = "project" THEN {"plan"} ELSE {"direct"}
    /\ again = <<>>
    /\ reads = {}
    /\ work = Rest
    /\ tries = [t \in Steps |-> 0]
    /\ answer = "none"
    /\ effects = [t \in Steps |-> 0]
    /\ lost = 0

StageSpec == StageInit /\ [][StageNext]_stageVars

-----------------------------------------------------------------------------
Places == {"idle", "plan", "launch", "gate", "draft", "validate", "review", "close", "save",
           "complete"}

StageTypeOK ==
    /\ done \subseteq created /\ created \subseteq Steps
    /\ \A i \in DOMAIN again : again[i] \in Revisable
    /\ reads \subseteq Steps
    /\ work.step \in Steps \cup {"none"} /\ work.at \in Places /\ work.round \in 0..2
    /\ work.draft.says \subseteq Figures
    /\ \A t \in Steps : tries[t] \in 0..MaxAttempts /\ effects[t] <= tries[t]
                        /\ out[t].says \subseteq Figures
    /\ answer \in Steps \cup {"none"}

(* What a text may state that is made from what step t read: no labelled       *)
(* figure but the calculation of a FINANCE text it read, and no figure that     *)
(* the AUDIT reports it read show to be wrong; and none of those FINANCE       *)
(* texts needs correction.                                                  *)
TrueFor(t, says) ==
    LET finance == {Text(i) : i \in By("finance", t)}
    IN /\ \A o \in finance : ~NeedsCorrection(o)
       /\ \A s \in says :
             /\ Labelled(s) => \/ \E o \in finance : Validation(o) = "VERIFIED" /\ s[2] = o.calc
                             \/ \A o \in finance : o.calc = 0
             /\ s[1] = "loose" => s[2] \notin Shown(t)

(* A result that is presented as closed states only figures that are true for  *)
(* the texts its step read, as they are now and not only as they were when it   *)
(* was checked (executeSynthesis: "CHIEF may not restate a financial figure   *)
(* differently from the validated calculation, nor repeat a figure already     *)
(* proven wrong").                                                          *)
ShipsOnlyTrueFigures ==
    \A t \in {"synthesis", "final"} \cap done :
        out[t].asks = "closed" => TrueFor(t, out[t].says)

(* The owner is answered, or a step has used up its attempts.                *)
StageEnded == answer # "none" \/ \E t \in created \ done : tries[t] = MaxAttempts
=============================================================================
