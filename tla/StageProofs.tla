----------------------------- MODULE StageProofs -----------------------------
(***************************************************************************)
(* What an objective presents as closed is true for what it read, for any    *)
(* texts of the employees, any number of attempts and any failures.          *)
(***************************************************************************)
EXTENDS StageWork, FiniteSetTheorems, WellFoundedInduction, TLAPS

-----------------------------------------------------------------------------
(* Types.                                                                   *)
Workers == {"finance", "product", "audit", "chief", "research", "consult"}

StageTypes ==
    /\ out \in [Steps -> TextType]
    /\ done \subseteq created /\ created \subseteq Steps
    /\ again \in Seq(Revisable) /\ Len(again) <= 2
    /\ reads \subseteq Steps
    /\ work \in [step : Steps \cup {"none"}, at : Places, draft : TextType, round : 0..2]
    /\ tries \in [Steps -> 0..MaxAttempts] /\ effects \in [Steps -> Nat]
    /\ answer \in Steps \cup {"none"}

Results == {"synthesis", "final"}

(* A step runs after what it reads is delivered, a revision step has its place *)
(* in again, and the final synthesis knows what it reads.                     *)
StepsInOrder ==
    /\ \A t \in done : Needs(t) \subseteq done
    /\ work.at # "idle" => /\ Step \in created \ done /\ Needs(Step) \subseteq done
                           /\ Step \in Steps
    /\ "again1" \in created => Len(again) >= 1
    /\ "again2" \in created => Len(again) >= 2
    /\ "final" \in created => reads # {}

(* A result only comes out of the gate: Close, or a request for a revision;     *)
(* the Coding Agent's step writes nothing.                                    *)
OnTheWay ==
    /\ work.at \notin {"idle", "launch", "complete"} => Step # "dev"
    /\ work.at \in {"plan", "launch", "validate"} => Step \notin Results
    /\ work.at \in {"save", "complete"} /\ Step \in Results /\ work.draft.asks = "closed"
          => TrueFor(Step, work.draft.says)

(* An attempt has at most one effect, and has it last.                        *)
EffectsLast ==
    /\ \A t \in Steps : effects[t] <= tries[t]
    /\ work.at \notin {"idle", "complete"} => effects[Step] < tries[Step]

StageInv ==
    StageTypes /\ StepsInOrder /\ OnTheWay /\ EffectsLast /\ ShipsOnlyTrueFigures

-----------------------------------------------------------------------------
(* What the gate lets through.                                              *)
LEMMA PlacesInOrder ==
    ASSUME NEW e, NEW t
    PROVE  By(e, t) \subseteq 1..6 /\ DOMAIN Order = 1..6
BY DEF By, Order

LEMMA LeastOne ==
    ASSUME NEW S, S \subseteq Nat, S # {}
    PROVE  \E i \in S : \A j \in S : i <= j
<1> DEFINE Less == OpToRel(<, Nat)
<1>1. IsWellFoundedOn(Less, Nat)
  BY NatLessThanWellFounded
<1>2. PICK i \in S : \A j \in S : ~(<<j, i>> \in Less)
  <2> HIDE DEF Less
  <2> QED
    BY <1>1, WFMin
<1>3. \A j \in S : j < i => <<j, i>> \in Less
  BY DEF OpToRel
<1>4. \A j \in S : ~(j < i)
  <2> HIDE DEF Less
  <2> QED
    BY <1>2, <1>3
<1>5. \A j \in S : i <= j
  <2> TAKE j \in S
  <2>1. i \in Nat /\ j \in Nat
    OBVIOUS
  <2> QED
    BY <1>4, <2>1
<1> QED
  BY <1>5

(* The least of some places is one of them.                                   *)
LEMMA MinIsOne ==
    ASSUME NEW S, S \subseteq Nat, S # {}
    PROVE  Min(S) \in S
BY LeastOne DEF Min

(* What the filter keeps was written, and states no banned figure.             *)
LEMMA FilterKeeps ==
    ASSUME NEW says, NEW g, says \subseteq Figures
    PROVE  /\ Enforced(says, g) \subseteq says
           /\ \A s \in Enforced(says, g) : s[2] \notin g.banned
BY DEF Enforced, Kept, Sanitized

(* What the gate knows.                                                     *)
Checked(t) == {i \in By("finance", t) : Validation(Text(i)) = "VERIFIED"}

LEMMA GateSays ==
    ASSUME NEW t
    PROVE  /\ FactGate(t).calc = IF Checked(t) = {} THEN 0 ELSE Text(Min(Checked(t))).calc
           /\ FactGate(t).unverified = (\E i \in By("finance", t) : NeedsCorrection(Text(i)))
           /\ FactGate(t).unverified => FactGate(t).blocked
           /\ Shown(t) \subseteq FactGate(t).banned
<1>1. Shown(t) \subseteq FactGate(t).banned
  BY DEF FactGate, Banned
<1>2. FactGate(t).calc = IF Checked(t) = {} THEN 0 ELSE Text(Min(Checked(t))).calc
  BY DEF FactGate, Checked
<1>3. FactGate(t).unverified = (\E i \in By("finance", t) : NeedsCorrection(Text(i)))
  BY DEF FactGate
<1>4. FactGate(t).unverified => FactGate(t).blocked
  BY DEF FactGate
<1> QED
  BY <1>1, <1>2, <1>3, <1>4

(* A text that passes the gate and is closed is true for what its step read.   *)
LEMMA ClosedIsTrue ==
    ASSUME NEW t, NEW says, says \subseteq Figures,
           Closes(Enforced(says, FactGate(t)), FactGate(t))
    PROVE  TrueFor(t, Enforced(says, FactGate(t)))
<1> DEFINE g == FactGate(t)
           kept == Enforced(says, g)
           finance == {Text(i) : i \in By("finance", t)}
           verified == Checked(t)
           calc == IF verified = {} THEN 0 ELSE Text(Min(verified)).calc
<1>1. ~g.blocked /\ Remaining(kept, g) = {}
  BY DEF Closes
<1>2. /\ g.calc = calc
      /\ g.unverified = (\E i \in By("finance", t) : NeedsCorrection(Text(i)))
      /\ g.unverified => g.blocked
      /\ Shown(t) \subseteq g.banned
  BY GateSays
<1>3. \A i \in By("finance", t) : ~NeedsCorrection(Text(i))
  BY <1>1, <1>2
<1>4. kept \subseteq Figures /\ \A s \in kept : s[2] \notin Shown(t)
  <2> HIDE DEF g
  <2> QED
    BY FilterKeeps, <1>2
<1>5. verified \subseteq Nat
  BY PlacesInOrder DEF Checked
<1>6. verified # {} => Min(verified) \in By("finance", t)
                       /\ Validation(Text(Min(verified))) = "VERIFIED"
  <2> SUFFICES ASSUME verified # {}
               PROVE  Min(verified) \in verified
    BY DEF Checked
  <2> HIDE DEF verified
  <2> QED
    BY <1>5, MinIsOne
<1>7. ASSUME NEW s \in kept, Labelled(s)
      PROVE  \/ \E o \in finance : Validation(o) = "VERIFIED" /\ s[2] = o.calc
             \/ \A o \in finance : o.calc = 0
  <2>1. CASE verified = {}
    <3>1. \A i \in By("finance", t) : Validation(Text(i)) # "VERIFIED"
      BY <2>1 DEF Checked
    <3>2. \A i \in By("finance", t) : Text(i).calc = 0
      BY <3>1, <1>3 DEF Validation, NeedsCorrection
    <3> QED
      BY <3>2
  <2>2. CASE verified # {}
    <3>1. PICK i \in By("finance", t) : Validation(Text(i)) = "VERIFIED" /\ g.calc = Text(i).calc
      BY <1>6, <1>2, <2>2
    <3>2. g.calc # 0
      <4> HIDE DEF g
      <4> QED
        BY <3>1 DEF Validation
    <3>3. s \in Figures
      BY <1>4, <1>7
    <3>4. s[2] = g.calc
      <4> HIDE DEF g, kept
      <4> QED
        BY <1>1, <1>7, <3>2, <3>3 DEF Remaining, Labelled, InTable, Figures, Marks
    <3> QED
      BY <3>1, <3>4
  <2> QED
    BY <2>1, <2>2
<1> HIDE DEF g, kept
<1>8. \A o \in finance : ~NeedsCorrection(o)
  BY <1>3
<1>9. TrueFor(t, kept)
  <2> HIDE DEF finance
  <2>1. /\ \A o \in finance : ~NeedsCorrection(o)
        /\ \A s \in kept :
             /\ Labelled(s) => \/ \E o \in finance : Validation(o) = "VERIFIED" /\ s[2] = o.calc
                             \/ \A o \in finance : o.calc = 0
             /\ s[1] = "loose" => s[2] \notin Shown(t)
    BY <1>4, <1>7, <1>8
  <2> QED
    BY <2>1 DEF TrueFor, finance
<1> QED
  BY <1>9 DEF g, kept

-----------------------------------------------------------------------------
(* What a step read stays as it was: delivered texts do not change, and a       *)
(* revision step keeps whose work it redoes.                                  *)
StaysRead(t) ==
    /\ Needs(t)' = Needs(t)
    /\ \A s \in Needs(t) : Employee(s)' = Employee(s) /\ out'[s] = out[s]

LEMMA TrueStays ==
    ASSUME NEW t, NEW says, StaysRead(t), TrueFor(t, says)
    PROVE  TrueFor(t, says)'
<1>1. \A e : By(e, t)' = By(e, t)
  BY DEF StaysRead, By
<1>2. \A e : \A i \in By(e, t) : Text(i)' = Text(i)
  BY DEF StaysRead, By, Text
<1>3. {Text(i) : i \in By("finance", t)}' = {Text(i) : i \in By("finance", t)}
  BY <1>1, <1>2
<1>4. Findings(t)' = Findings(t)
  BY <1>1, <1>2 DEF Findings
<1>5. Shown(t)' = Shown(t)
  BY <1>4 DEF Shown
<1> QED
  BY <1>3, <1>5 DEF TrueFor

LEMMA OpenType ==
    ASSUME NEW t
    PROVE  FactGate(t).open \subseteq {"finance", "product"}
BY DEF FactGate

LEMMA GateCalcType ==
    ASSUME StageTypes, NEW t
    PROVE  FactGate(t).calc \in Values \cup {0}
<1>1. ASSUME NEW i \in 1..6
      PROVE  Text(i).calc \in Values \cup {0}
  <2>1. Order[i] \in Steps
    BY <1>1 DEF Order, Steps, Streams, Revisions
  <2> QED
    BY <2>1 DEF Text, StageTypes, TextType
<1>2. Checked(t) \subseteq 1..6
  BY PlacesInOrder DEF Checked
<1>3. Checked(t) # {} => Min(Checked(t)) \in 1..6
  BY <1>2, MinIsOne
<1> QED
  BY <1>1, <1>3, GateSays

-----------------------------------------------------------------------------
(* What the steps write are texts.                                           *)
LEMMA NothingIsText == Nothing \in TextType
BY DEF Nothing, TextType, Wishes

LEMMA InjectedIsText ==
    ASSUME NEW o \in TextType
    PROVE  Injected(o) \subseteq TextType
<1>1. ASSUME NEW v \in Values
      PROVE  [o EXCEPT !.says = @ \cup {<<"claim", v>>}] \in TextType
  <2>1. <<"claim", v>> \in Figures
    BY <1>1 DEF Figures, Marks
  <2> QED
    BY <2>1 DEF TextType
<1> QED
  BY <1>1 DEF Injected

LEMMA TableFindingsType ==
    ASSUME NEW owner \in {"finance", "product", "audit"}, NEW o \in TextType, NEW c
    PROVE  TableFindings(owner, o, c) \subseteq Finding
<1>1. ASSUME NEW s \in o.says
      PROVE  <<owner, s[1], s[2]>> \in Finding
  BY DEF Finding, Figures, TextType
<1> QED
  BY <1>1 DEF TableFindings, BadTables

LEMMA FinanceFindingsType ==
    ASSUME NEW o \in TextType
    PROVE  FinanceFindings(o) \subseteq Finding
<1>1. ASSUME NEW s \in o.says
      PROVE  <<"finance", s[1], s[2]>> \in Finding
  BY DEF Finding, Figures, TextType
<1> QED
  BY <1>1 DEF FinanceFindings, Wrong

LEMMA AuditedIsText ==
    ASSUME NEW o \in TextType, NEW f \in TextType, NEW p \in TextType
    PROVE  Audited(o, f, p) \in TextType
<1> DEFINE c == Verified(f)
           found == FinanceFindings(f) \cup TableFindings("product", p, c)
                        \cup TableFindings("audit", o, c)
<1>1. found \subseteq Finding
  BY TableFindingsType, FinanceFindingsType
<1>2. Sanitized(o.says, c) \subseteq Figures
  BY DEF Sanitized, TextType
<1>3. [o EXCEPT !.says = Sanitized(@, c), !.findings = found] \in TextType
  <2> HIDE DEF c, found
  <2> QED
    BY <1>1, <1>2 DEF TextType
<1> QED
  BY <1>3 DEF Audited

(* Employees that write: every step but the launches of the Coding Agent.       *)
LEMMA DraftIsText ==
    ASSUME NEW e \in Workers, NEW o \in Drafts[e]
    PROVE  o \in TextType
BY DraftsAssumption DEF Workers

-----------------------------------------------------------------------------
(* What a step does to what is already delivered: nothing.                     *)
KeepsDelivered ==
    /\ Len(again) <= Len(again') /\ \A i \in 1..Len(again) : again'[i] = again[i]
    /\ \A s \in done : out'[s] = out[s]
    /\ reads # {} => reads' = reads

LEMMA SameIsKept ==
    ASSUME StageTypes, again' = again, out' = out, reads' = reads
    PROVE  KeepsDelivered
BY DEF KeepsDelivered, StageTypes

LEMMA ReadStays ==
    ASSUME StageTypes, StepsInOrder, KeepsDelivered,
           NEW t \in Results, t \in created, Needs(t) \subseteq done
    PROVE  StaysRead(t)
<1>1. Needs(t)' = Needs(t)
  BY DEF KeepsDelivered, StepsInOrder, Results, Needs
<1>2. ASSUME NEW s \in done
      PROVE  Employee(s)' = Employee(s) /\ out'[s] = out[s]
  <2>1. s = "again1" => again'[1] = again[1]
    BY <1>2 DEF KeepsDelivered, StepsInOrder, StageTypes
  <2>2. s = "again2" => again'[2] = again[2]
    BY <1>2 DEF KeepsDelivered, StepsInOrder, StageTypes
  <2> QED
    BY <1>2, <2>1, <2>2 DEF KeepsDelivered, Employee
<1> QED
  BY <1>1, <1>2 DEF StaysRead

LEMMA TrueResultsStay ==
    ASSUME StageInv, KeepsDelivered
    PROVE  \A t \in Results \cap done :
               out[t].asks = "closed" => out'[t] = out[t] /\ TrueFor(t, out[t].says)'
<1> SUFFICES ASSUME NEW t \in Results \cap done, out[t].asks = "closed"
             PROVE  out'[t] = out[t] /\ TrueFor(t, out[t].says)'
  OBVIOUS
<1>1. TrueFor(t, out[t].says)
  BY DEF StageInv, ShipsOnlyTrueFigures, Results
<1>2. StaysRead(t)
  BY ReadStays DEF StageInv, StageTypes, StepsInOrder
<1>3. out'[t] = out[t]
  BY DEF KeepsDelivered
<1> DEFINE says == out[t].says
<1>4. ASSUME NEW x, x = out[t].says
      PROVE  TrueFor(t, x)'
  BY <1>1, <1>2, <1>4, TrueStays
<1> QED
  BY <1>3, <1>4

LEMMA FirstStages ==
    ASSUME StageInit
    PROVE  StageInv
<1>1. StageTypes
  BY NothingIsText, AttemptsAssumption
    DEF StageInit, StageTypes, Rest, Places, Steps, Conversation
<1>2. StepsInOrder /\ OnTheWay /\ EffectsLast /\ ShipsOnlyTrueFigures
  BY AttemptsAssumption
    DEF StageInit, StepsInOrder, OnTheWay, EffectsLast, ShipsOnlyTrueFigures, Rest
<1> QED
  BY <1>1, <1>2 DEF StageInv

-----------------------------------------------------------------------------
(* The stages that leave alone what is delivered and what exists.              *)
Aside == UNCHANGED <<out, done, created, again, reads, tries, answer>>

LEMMA AsideKeeps ==
    ASSUME StageInv, Aside
    PROVE  /\ ShipsOnlyTrueFigures'
           /\ KeepsDelivered
<1>1. KeepsDelivered
  BY SameIsKept DEF Aside, StageInv
<1>2. ShipsOnlyTrueFigures'
  BY <1>1, TrueResultsStay DEF Aside, ShipsOnlyTrueFigures, Results
<1> QED
  BY <1>1, <1>2

(* A stage that goes on with the same step.                                   *)
GoesOn ==
    /\ work.at # "idle"
    /\ work' \in [step : Steps \cup {"none"}, at : Places \ {"idle"}, draft : TextType, round : 0..2]
    /\ work'.step = work.step

LEMMA OrderStays ==
    ASSUME StageInv, Aside, GoesOn
    PROVE  StepsInOrder'
<1>1. \A t : Needs(t)' = Needs(t)
  BY DEF Aside, Needs
<1> QED
  BY <1>1 DEF StageInv, StepsInOrder, GoesOn, Aside, Step

LEMMA GoingOn ==
    ASSUME StageInv, Aside, GoesOn, UNCHANGED effects, work.at # "complete",
           /\ work'.at \notin {"launch", "complete"} => Step # "dev"
           /\ work'.at \in {"plan", "launch", "validate"} => Step \notin Results
           /\ work'.at \in {"save", "complete"} /\ Step \in Results /\ work'.draft.asks = "closed"
                 => TrueFor(Step, work'.draft.says)
    PROVE  StageInv'
<1>1. StageTypes'
  BY DEF StageInv, StageTypes, Aside, GoesOn
<1>2. StepsInOrder' /\ ShipsOnlyTrueFigures'
  BY OrderStays, AsideKeeps
<1>3. EffectsLast'
  BY DEF StageInv, EffectsLast, Aside, GoesOn, Step
<1>4. ASSUME NEW t, NEW says, TrueFor(t, says)
      PROVE  TrueFor(t, says)'
  <2>1. StaysRead(t)
    BY DEF StaysRead, Aside, Needs, Employee
  <2> QED
    BY <1>4, <2>1, TrueStays
<1>5. OnTheWay'
  BY <1>4 DEF OnTheWay, GoesOn, Step
<1> QED
  BY <1>1, <1>2, <1>3, <1>5 DEF StageInv

LEMMA StutterKeeps ==
    ASSUME StageInv, Aside, UNCHANGED <<work, effects>>
    PROVE  StageInv'
<1>1. ShipsOnlyTrueFigures'
  BY AsideKeeps
<1>2. \A t : Needs(t)' = Needs(t)
  BY DEF Aside, Needs
<1>3. ASSUME NEW t, NEW says, TrueFor(t, says)
      PROVE  TrueFor(t, says)'
  <2>1. StaysRead(t)
    BY DEF StaysRead, Aside, Needs, Employee
  <2> QED
    BY <1>3, <2>1, TrueStays
<1>4. OnTheWay'
  BY <1>3 DEF StageInv, OnTheWay, Step
<1>5. StageTypes' /\ StepsInOrder' /\ EffectsLast'
  BY <1>2 DEF StageInv, Aside, StageTypes, StepsInOrder, EffectsLast, Step
<1> QED
  BY <1>1, <1>4, <1>5 DEF StageInv

LEMMA AtWork ==
    ASSUME StageInv, work.at # "idle"
    PROVE  /\ Step \in Steps /\ work.step = Step
           /\ work \in [step : Steps \cup {"none"}, at : Places, draft : TextType, round : 0..2]
BY DEF StageInv, StageTypes, StepsInOrder, Step

-----------------------------------------------------------------------------
LEMMA BeginKeeps ==
    ASSUME StageInv, NEW t \in Steps, Begin(t)
    PROVE  StageInv'
<1>1. /\ UNCHANGED <<out, done, created, again, reads, answer, effects>>
      /\ t \in created \ done /\ tries[t] < MaxAttempts /\ Needs(t) \subseteq done
      /\ tries' = [tries EXCEPT ![t] = @ + 1]
      /\ work' = [step |-> t, at |-> Entry(t), draft |-> Nothing, round |-> 0]
  BY DEF Begin, Keep
<1>2. /\ Entry(t) \in {"plan", "gate", "launch", "draft"}
      /\ Entry(t) \in {"plan", "launch"} => t \notin Results
      /\ Entry(t) # "launch" => t # "dev"
  BY DEF Entry, Results
<1>3. StageTypes'
  BY <1>1, <1>2, NothingIsText, AttemptsAssumption DEF StageInv, StageTypes, Places
<1>4. StepsInOrder'
  <2>1. \A s : Needs(s)' = Needs(s)
    BY <1>1 DEF Needs
  <2> QED
    BY <1>1, <1>2, <2>1 DEF StageInv, StepsInOrder, Step
<1>5. OnTheWay'
  BY <1>1, <1>2 DEF OnTheWay, Step
<1>6. EffectsLast'
  BY <1>1, AttemptsAssumption DEF StageInv, StageTypes, EffectsLast, Step
<1>7. ShipsOnlyTrueFigures'
  <2>1. KeepsDelivered
    BY <1>1, SameIsKept DEF StageInv
  <2> QED
    BY <1>1, <2>1, TrueResultsStay DEF ShipsOnlyTrueFigures, Results
<1> QED
  BY <1>3, <1>4, <1>5, <1>6, <1>7 DEF StageInv

LEMMA ChoosePlanKeeps ==
    ASSUME StageInv, ChoosePlan
    PROVE  StageInv'
<1>1. Aside /\ UNCHANGED effects /\ work.at = "plan"
  BY DEF ChoosePlan, Keep, Aside, Is
<1>2. PICK route \in Routes :
          work' = [work EXCEPT !.draft.asks = route,
                               !.at = IF route = "development" THEN "launch" ELSE "complete"]
  BY DEF ChoosePlan
<1>3. Step \notin Results
  BY <1>1 DEF StageInv, OnTheWay
<1>4. GoesOn /\ work'.at \in {"launch", "complete"}
  BY <1>1, <1>2, AtWork DEF GoesOn, Places, TextType
<1> QED
  BY <1>1, <1>3, <1>4, GoingOn

(* Whose text it is: a revision step has its place in again.                   *)
LEMMA WorkerIs ==
    ASSUME StageInv, work.at # "idle", Step # "dev"
    PROVE  Employee(Step) \in Workers
<1>1. Step \in created /\ Step \in Steps
  BY DEF StageInv, StepsInOrder
<1>2. /\ Step = "again1" => again[1] \in Revisable
      /\ Step = "again2" => again[2] \in Revisable
  BY <1>1 DEF StageInv, StageTypes, StepsInOrder
<1> QED
  BY <1>1, <1>2 DEF Employee, Workers, Revisable, Streams, Steps, Revisions, Conversation

LEMMA ResultsAreChiefs ==
    ASSUME NEW t \in Results
    PROVE  Employee(t) = "chief"
BY DEF Results, Employee

LEMMA ModelWritesKeeps ==
    ASSUME StageInv, ModelWrites
    PROVE  StageInv'
<1>1. Aside /\ UNCHANGED effects /\ work.at = "draft"
  BY DEF ModelWrites, Keep, Aside, Is
<1>2. Step # "dev"
  BY <1>1 DEF StageInv, OnTheWay
<1>3. PICK o \in Drafts[Employee(Step)] :
        \E d \in IF /\ Employee(Step) = "finance" /\ drill = "before"
                    /\ Step \notin Revisions /\ work.round = 0
                 THEN Injected(o)
                 ELSE {IF Step = "audit"
                       THEN Audited(o, out["finance"], out["product"]) ELSE o} :
            work' = [work EXCEPT !.draft = d, !.at = AfterDraft(o)]
  BY DEF ModelWrites
<1>4. o \in TextType
  BY <1>1, <1>2, <1>3, WorkerIs, DraftIsText
<1>5. Audited(o, out["finance"], out["product"]) \in TextType
  <2>1. out["finance"] \in TextType /\ out["product"] \in TextType
    BY DEF StageInv, StageTypes, Steps, Streams
  <2> QED
    BY <1>4, <2>1, AuditedIsText
<1>6. Injected(o) \subseteq TextType
  BY <1>4, InjectedIsText
<1>7. PICK d \in TextType : work' = [work EXCEPT !.draft = d, !.at = AfterDraft(o)]
  BY <1>3, <1>4, <1>5, <1>6
<1>8. /\ AfterDraft(o) \in {"complete", "validate", "close", "review", "save"}
      /\ Step \in Results => AfterDraft(o) \in {"close", "review"}
  BY ResultsAreChiefs DEF AfterDraft, Results
<1>9. GoesOn
  BY <1>1, <1>7, <1>8, AtWork DEF GoesOn, Places
<1>10. work'.at = AfterDraft(o)
  BY <1>1, <1>7, AtWork
<1> QED
  BY <1>1, <1>2, <1>8, <1>9, <1>10, GoingOn

LEMMA ValidateKeeps ==
    ASSUME StageInv, Validate
    PROVE  StageInv'
<1>1. Aside /\ UNCHANGED effects /\ work.at = "validate"
  BY DEF Validate, Keep, Aside, Is
<1>2. Step \notin Results /\ Step # "dev"
  BY <1>1 DEF StageInv, OnTheWay
<1>3. work.draft \in TextType /\ work.round \in 0..2
  BY <1>1, AtWork
<1>4. GoesOn /\ work'.at \in {"draft", "save"}
  <2>1. CASE Returns
    <3>1. work' = [work EXCEPT !.round = @ + 1, !.at = "draft"] /\ work.round < 2
      BY <2>1 DEF Validate, Returns
    <3>2. work.round + 1 \in 0..2
      BY <1>3, <3>1
    <3> QED
      BY <1>1, <1>3, <3>1, <3>2, AtWork DEF GoesOn, Places
  <2>2. CASE ~Returns
    <3>1. PICK d \in IF drill = "after" /\ Step \notin Revisions
                     THEN Injected(work.draft) ELSE {work.draft} :
              work' = [work EXCEPT !.draft = d, !.at = "save"]
      BY <2>2 DEF Validate
    <3>2. d \in TextType
      BY <1>3, <3>1, InjectedIsText
    <3> QED
      BY <1>1, <3>1, <3>2, AtWork DEF GoesOn, Places
  <2> QED
    BY <2>1, <2>2
<1> QED
  BY <1>1, <1>2, <1>4, GoingOn

LEMMA CloseKeeps ==
    ASSUME StageInv, Close
    PROVE  StageInv'
<1> DEFINE g == FactGate(Step)
           says == Enforced(work.draft.says, g)
           closed == IF Closes(says, g) THEN "closed" ELSE "not closed"
           text == [Nothing EXCEPT !.says = says, !.calc = g.calc, !.asks = closed]
<1>1. Aside /\ UNCHANGED effects /\ work.at = "close"
  BY DEF Close, Keep, Aside, Is
<1>2. work' = [work EXCEPT !.at = "save", !.draft = text]
  BY DEF Close
<1>3. work.draft.says \subseteq Figures
  BY <1>1, AtWork DEF TextType
<1>4. says \subseteq Figures
  <2> HIDE DEF g
  <2> QED
    BY <1>3, FilterKeeps
<1>5. g.calc \in Values \cup {0}
  BY GateCalcType DEF StageInv
<1>6. text \in TextType /\ text.says = says /\ text.asks = closed
  <2> HIDE DEF g, says
  <2> QED
    BY <1>4, <1>5, NothingIsText DEF TextType
<1>7. text.asks = "closed" => TrueFor(Step, text.says)
  <2>1. closed = "closed" => Closes(says, g)
    OBVIOUS
  <2>2. Closes(says, g) => TrueFor(Step, says)
    BY <1>3, ClosedIsTrue
  <2> HIDE DEF closed, text, says
  <2> QED
    BY <1>6, <2>1, <2>2
<1>8. Step # "dev"
  BY <1>1 DEF StageInv, OnTheWay
<1> HIDE DEF text
<1>9. GoesOn /\ work'.at = "save" /\ work'.draft = text
  BY <1>1, <1>2, <1>6, AtWork DEF GoesOn, Places
<1> QED
  BY <1>1, <1>7, <1>8, <1>9, GoingOn

-----------------------------------------------------------------------------
(* The stages with an effect outside.                                        *)
LEMMA EffectKeeps ==
    ASSUME StageInv, Aside, GoesOn, work.at \in {"launch", "save"},
           effects' = [effects EXCEPT ![Step] = @ + 1],
           work' = [work EXCEPT !.at = "complete"]
    PROVE  StageInv'
<1>1. Step \in Steps /\ effects[Step] < tries[Step]
  BY AtWork DEF StageInv, EffectsLast
<1>2. StageTypes'
  BY <1>1 DEF StageInv, StageTypes, Aside, GoesOn
<1>3. StepsInOrder' /\ ShipsOnlyTrueFigures'
  BY OrderStays, AsideKeeps
<1>4. EffectsLast'
  <2>1. work'.at = "complete"
    BY AtWork
  <2>2. \A t \in Steps : effects'[t] <= tries'[t]
    BY <1>1, AttemptsAssumption DEF StageInv, StageTypes, EffectsLast, Aside
  <2> QED
    BY <2>1, <2>2 DEF EffectsLast
<1>5. ASSUME NEW t, NEW says, TrueFor(t, says)
      PROVE  TrueFor(t, says)'
  <2>1. StaysRead(t)
    BY DEF StaysRead, Aside, Needs, Employee
  <2> QED
    BY <1>5, <2>1, TrueStays
<1>6. OnTheWay'
  <2>1. work'.at = "complete" /\ work'.draft = work.draft /\ Step' = Step
    BY AtWork DEF Step
  <2>2. work.at = "save" /\ Step \in Results /\ work.draft.asks = "closed"
            => TrueFor(Step, work.draft.says)
    BY DEF StageInv, OnTheWay
  <2>3. work.at = "launch" => Step \notin Results
    BY DEF StageInv, OnTheWay
  <2> QED
    BY <1>5, <2>1, <2>2, <2>3 DEF OnTheWay
<1> QED
  BY <1>2, <1>3, <1>4, <1>6 DEF StageInv

LEMMA LaunchKeeps ==
    ASSUME StageInv, Launch
    PROVE  StageInv'
<1>1. Aside /\ work.at = "launch"
  BY DEF Launch, Keep, Aside, Is
<1>2. effects' = [effects EXCEPT ![Step] = @ + 1] /\ work' = [work EXCEPT !.at = "complete"]
  BY DEF Launch
<1>3. GoesOn
  BY <1>1, <1>2, AtWork DEF GoesOn, Places
<1> QED
  BY <1>1, <1>2, <1>3, EffectKeeps

LEMMA SaveKeeps ==
    ASSUME StageInv, Save
    PROVE  StageInv'
<1>1. Aside /\ work.at = "save"
  BY DEF Save, Keep, Aside, Is
<1>2. effects' = [effects EXCEPT ![Step] = @ + 1] /\ work' = [work EXCEPT !.at = "complete"]
  BY DEF Save
<1>3. GoesOn
  BY <1>1, <1>2, AtWork DEF GoesOn, Places
<1> QED
  BY <1>1, <1>2, <1>3, EffectKeeps

-----------------------------------------------------------------------------
(* Requests for revisions.                                                  *)
Owners == {o \in Seq(Revisable) : 1 <= Len(o) /\ Len(o) <= 2}

LEMMA AskedType ==
    ASSUME StageInv, NEW o \in Owners, NEW n \in 1..Len(o)
    PROVE  /\ Asked(o, n) \in Seq(Revisable) /\ Len(Asked(o, n)) <= 2
           /\ Len(again) <= Len(Asked(o, n)) /\ n <= Len(Asked(o, n))
           /\ \A i \in 1..Len(again) : Asked(o, n)[i] = again[i]
<1> DEFINE m == IF n > Len(again) THEN n ELSE Len(again)
<1>1. again \in Seq(Revisable) /\ Len(again) \in Nat /\ Len(again) <= 2
  BY DEF StageInv, StageTypes
<1>2. o \in Seq(Revisable) /\ Len(o) \in Nat /\ Len(o) <= 2 /\ n \in Nat /\ n <= Len(o)
  BY DEF Owners
<1>3. m \in Nat /\ m <= 2 /\ Len(again) <= m /\ n <= m /\ (m > Len(again) => m = n)
  BY <1>1, <1>2
<1> DEFINE f == [i \in 1..m |-> IF i <= Len(again) THEN again[i] ELSE o[i]]
<1>4. Asked(o, n) = f
  BY DEF Asked
<1> HIDE DEF m
<1>5. f \in Seq(Revisable) /\ Len(f) = m
  <2>1. ASSUME NEW i \in 1..m
        PROVE  (IF i <= Len(again) THEN again[i] ELSE o[i]) \in Revisable
    BY <1>1, <1>2, <1>3, <2>1
  <2> QED
    BY <1>3, <2>1
<1>6. \A i \in 1..Len(again) : f[i] = again[i]
  BY <1>1, <1>3
<1> HIDE DEF f
<1> QED
  BY <1>3, <1>4, <1>5, <1>6

(* The revision steps that exist are those of the first n owners, and each has *)
(* its place.                                                               *)
LEMMA PlacesTaken ==
    ASSUME StageInv, NEW o \in Owners, NEW n \in 1..Len(o), again' = Asked(o, n),
           created \subseteq created',
           created' \subseteq created \cup {Place(i) : i \in 1..n} \cup {"final"}
    PROVE  /\ again' \in Seq(Revisable) /\ Len(again') <= 2
           /\ created' \subseteq Steps /\ created \subseteq created'
           /\ "again1" \in created' => Len(again') >= 1
           /\ "again2" \in created' => Len(again') >= 2
           /\ Len(again) <= Len(again') /\ \A i \in 1..Len(again) : again'[i] = again[i]
<1>1. n \in Nat /\ n >= 1 /\ Len(again) \in Nat /\ Len(again') \in Nat
  BY AskedType DEF Owners, StageInv, StageTypes
<1>2. /\ again' \in Seq(Revisable) /\ Len(again') <= 2 /\ Len(again) <= Len(again')
      /\ n <= Len(again') /\ \A i \in 1..Len(again) : again'[i] = again[i]
  BY AskedType
<1>3. created' \subseteq Steps /\ created \subseteq created'
  BY DEF StageInv, StageTypes, Steps, Revisions, Place
<1>4. "again1" \in created' => Len(again') >= 1
  BY <1>1, <1>2
<1>5. "again2" \in created' => Len(again') >= 2
  <2>1. CASE "again2" \in created
    BY <1>1, <1>2, <2>1 DEF StageInv, StageTypes, StepsInOrder
  <2>2. CASE "again2" \notin created /\ "again2" \in created'
    <3>1. PICK i \in 1..n : Place(i) = "again2"
      BY <2>2
    <3>2. i # 1
      BY <3>1 DEF Place
    <3> QED
      BY <1>1, <1>2, <3>1, <3>2
  <2> QED
    BY <2>1, <2>2
<1> QED
  BY <1>2, <1>3, <1>4, <1>5

LEMMA RedoneType ==
    ASSUME NEW o
    PROVE  Redone(o) \subseteq Steps /\ Redone(o) # {}
<1>1. Redone(o) \subseteq Streams \cup {"again1", "again2"}
  BY DEF Redone, Place
<1>2. Redone(o) # {}
  <2> DEFINE of(s) == IF \E i \in DOMAIN o : o[i] = s
                      THEN Place(CHOOSE i \in DOMAIN o : o[i] = s) ELSE s
  <2>1. "dev" \in Streams
    BY DEF Streams
  <2>2. Redone(o) = {of(s) : s \in Streams}
    BY DEF Redone
  <2> HIDE DEF of
  <2>3. of("dev") \in Redone(o)
    BY <2>1, <2>2
  <2> QED
    BY <2>3
<1> QED
  BY <1>1, <1>2 DEF Steps, Revisions

LEMMA NeedsStay ==
    ASSUME StageInv, reads # {} => reads' = reads, NEW t \in created
    PROVE  Needs(t)' = Needs(t)
BY DEF Needs, StageInv, StepsInOrder

(* Revisions that were asked for are no result.                               *)
LEMMA RequestKeeps ==
    ASSUME StageInv, work.at \in {"gate", "review"}, Step = "synthesis",
           NEW o \in Owners, RequestRevisions(o),
           UNCHANGED <<out, done, tries, answer, effects>>
    PROVE  StageInv'
<1>1. /\ again' = Asked(o, Len(o)) /\ DOMAIN o = 1..Len(o) /\ Len(o) \in 1..Len(o)
      /\ created' = created \cup {Place(i) : i \in 1..Len(o)} \cup {"final"}
  BY DEF RequestRevisions, Owners
<1>2. /\ again' \in Seq(Revisable) /\ Len(again') <= 2
      /\ created' \subseteq Steps /\ created \subseteq created'
      /\ "again1" \in created' => Len(again') >= 1
      /\ "again2" \in created' => Len(again') >= 2
      /\ Len(again) <= Len(again') /\ \A i \in 1..Len(again) : again'[i] = again[i]
  BY <1>1, PlacesTaken
<1>3. reads' \subseteq Steps /\ reads' # {} /\ (reads # {} => reads' = reads)
  BY RedoneType DEF RequestRevisions, StageInv, StageTypes
<1>4. /\ work' \in [step : Steps \cup {"none"}, at : Places, draft : TextType, round : 0..2]
      /\ work'.step = Step /\ work'.at = "complete" /\ work'.draft = Nothing
  BY AtWork, NothingIsText DEF RequestRevisions, Places
<1>5. StageTypes'
  BY <1>2, <1>3, <1>4 DEF StageInv, StageTypes
<1>6. KeepsDelivered
  BY <1>2, <1>3 DEF KeepsDelivered
<1>7. StepsInOrder'
  <2>1. \A t \in created : Needs(t)' = Needs(t)
    BY <1>3, NeedsStay
  <2>2. Step \in created \ done /\ Needs(Step) \subseteq done /\ Step \in Steps
    BY DEF StageInv, StepsInOrder
  <2>3. done \subseteq created
    BY DEF StageInv, StageTypes
  <2>4. Step' = Step
    BY <1>4 DEF Step
  <2>5. Needs(Step)' \subseteq done'
    BY <2>1, <2>2, <2>4
  <2>6. \A t \in done' : Needs(t)' \subseteq done'
    BY <2>1, <2>3 DEF StageInv, StepsInOrder
  <2> QED
    BY <1>2, <1>3, <2>2, <2>4, <2>5, <2>6 DEF StepsInOrder
<1>8. OnTheWay'
  BY <1>4 DEF OnTheWay, Nothing
<1>9. EffectsLast'
  BY <1>4 DEF StageInv, EffectsLast
<1>10. ShipsOnlyTrueFigures'
  BY <1>6, TrueResultsStay DEF ShipsOnlyTrueFigures, Results
<1> QED
  BY <1>5, <1>7, <1>8, <1>9, <1>10 DEF StageInv

(* What the gate sends back, goes to FINANCE or PRODUCT.                      *)
LEMMA ReturnedType ==
    ASSUME NEW t, Returned(FactGate(t)) # <<>>
    PROVE  Returned(FactGate(t)) \in Owners
<1> DEFINE g == FactGate(t)
           owners == g.open \cup (IF g.unverified THEN {"finance"} ELSE {})
<1>1. g.open \subseteq {"finance", "product"}
  BY OpenType
<1>2. owners \subseteq {"finance", "product"}
  <2> HIDE DEF g
  <2> QED
    BY <1>1
<1>3. Returned(g) = IF owners = {"finance", "product"} THEN <<"finance", "product">>
                    ELSE IF owners = {} THEN <<>> ELSE <<CHOOSE o \in owners : TRUE>>
  <2> HIDE DEF g
  <2> QED
    BY DEF Returned
<1>4. <<"finance", "product">> \in Owners
  BY DEF Owners, Revisable, Streams
<1>5. owners # {} => <<CHOOSE o \in owners : TRUE>> \in Owners
  <2> HIDE DEF owners
  <2> DEFINE x == CHOOSE o \in owners : TRUE
  <2>1. owners # {} => x \in owners
    OBVIOUS
  <2>2. \A y \in {"finance", "product"} : <<y>> \in Owners
    BY DEF Owners, Revisable, Streams
  <2> HIDE DEF x
  <2>3. owners # {} => <<x>> \in Owners
    BY <1>2, <2>1, <2>2
  <2> QED
    BY <2>3 DEF x
<1> HIDE DEF g, owners
<1> QED
  BY <1>3, <1>4, <1>5 DEF g

LEMMA CheckGateKeeps ==
    ASSUME StageInv, CheckGate
    PROVE  StageInv'
<1> DEFINE owners == Returned(FactGate(Step))
<1>1. work.at = "gate" /\ UNCHANGED <<out, done, tries, answer, effects>>
  BY DEF CheckGate, Keep, Is
<1>2. CASE Step = "synthesis" /\ owners # <<>>
  <2>1. RequestRevisions(owners)
    BY <1>2 DEF CheckGate
  <2>2. owners \in Owners
    BY <1>2, ReturnedType
  <2> HIDE DEF owners
  <2> QED
    BY <1>1, <1>2, <2>1, <2>2, RequestKeeps
<1>3. CASE ~(Step = "synthesis" /\ owners # <<>>)
  <2>1. work' = [work EXCEPT !.at = "draft"] /\ UNCHANGED <<again, created, reads>>
    BY <1>3 DEF CheckGate
  <2>2. Aside /\ UNCHANGED effects
    BY <1>1, <2>1 DEF Aside
  <2>3. GoesOn /\ work'.at = "draft"
    BY <1>1, <2>1, AtWork DEF GoesOn, Places
  <2>4. Step # "dev"
    BY <1>1 DEF StageInv, OnTheWay
  <2> QED
    BY <1>1, <2>2, <2>3, <2>4, GoingOn
<1> QED
  BY <1>2, <1>3

LEMMA ReviewKeeps ==
    ASSUME StageInv, Review
    PROVE  StageInv'
<1>1. work.at = "review" /\ UNCHANGED <<out, done, tries, answer, effects>>
  BY DEF Review, Keep, Is
<1>2. CASE Step = "synthesis" /\ work.draft.asks \in Revisable
  <2>1. RequestRevisions(<<work.draft.asks>>)
    BY <1>2 DEF Review
  <2>2. <<work.draft.asks>> \in Owners
    BY <1>2 DEF Owners
  <2> QED
    BY <1>1, <1>2, <2>1, <2>2, RequestKeeps
<1>3. CASE ~(Step = "synthesis" /\ work.draft.asks \in Revisable)
  <2>1. work' = [work EXCEPT !.at = "draft", !.round = 1] /\ UNCHANGED <<again, created, reads>>
    BY <1>3 DEF Review
  <2>2. Aside /\ UNCHANGED effects
    BY <1>1, <2>1 DEF Aside
  <2>3. GoesOn /\ work'.at = "draft"
    <3>1. 1 \in 0..2
      OBVIOUS
    <3> QED
      BY <1>1, <2>1, <3>1, AtWork DEF GoesOn, Places
  <2>4. Step # "dev"
    BY <1>1 DEF StageInv, OnTheWay
  <2> QED
    BY <1>1, <2>2, <2>3, <2>4, GoingOn
<1> QED
  BY <1>2, <1>3

-----------------------------------------------------------------------------
(* A step delivers.                                                         *)
LEMMA CompleteStepKeeps ==
    ASSUME StageInv, CompleteStep
    PROVE  StageInv'
<1>1. /\ work.at = "complete" /\ UNCHANGED <<again, reads, tries, effects>>
      /\ out' = [out EXCEPT ![Step] = work.draft] /\ done' = done \cup {Step}
      /\ created' = created \cup Follows /\ work' = Rest
      /\ answer' = IF Answers THEN Step ELSE answer
  BY DEF CompleteStep, Keep, Is
<1>2. /\ Step \in Steps /\ work.draft \in TextType
      /\ Step \in created /\ Step \notin done /\ Needs(Step) \subseteq done
  BY <1>1, AtWork DEF StageInv, StepsInOrder
<1>3. Follows \subseteq Steps \ {"again1", "again2", "final"}
  BY DEF Follows, Steps, Streams, Conversation
<1>4. work'.at = "idle"
  BY <1>1 DEF Rest
<1>5. StageTypes'
  <2>1. work' \in [step : Steps \cup {"none"}, at : Places, draft : TextType, round : 0..2]
    BY <1>1, NothingIsText DEF Rest, Places
  <2>2. out' \in [Steps -> TextType]
    BY <1>1, <1>2 DEF StageInv, StageTypes
  <2>3. done' \subseteq created' /\ created' \subseteq Steps /\ answer' \in Steps \cup {"none"}
    BY <1>1, <1>2, <1>3 DEF StageInv, StageTypes
  <2> QED
    BY <1>1, <2>1, <2>2, <2>3 DEF StageInv, StageTypes
<1>6. KeepsDelivered
  BY <1>1, <1>2 DEF KeepsDelivered, StageInv, StageTypes
<1>7. StepsInOrder'
  <2>1. \A t : Needs(t)' = Needs(t)
    BY <1>1 DEF Needs
  <2>2. \A t \in done' : Needs(t)' \subseteq done'
    BY <1>1, <1>2, <2>1 DEF StageInv, StepsInOrder
  <2> QED
    BY <1>1, <1>3, <1>4, <2>2 DEF StageInv, StepsInOrder
<1>8. OnTheWay' /\ EffectsLast'
  BY <1>1, <1>4 DEF StageInv, OnTheWay, EffectsLast
<1>9. ShipsOnlyTrueFigures'
  <2> SUFFICES ASSUME NEW t \in Results, t \in done', out'[t].asks = "closed"
               PROVE  TrueFor(t, out[t].says)'
    BY DEF ShipsOnlyTrueFigures, Results
  <2>1. CASE t # Step
    BY <1>1, <1>6, <2>1, TrueResultsStay
  <2>2. CASE t = Step
    <3>1. out'[t] = work.draft
      BY <1>1, <1>2, <2>2 DEF StageInv, StageTypes
    <3>2. TrueFor(t, work.draft.says)
      BY <1>1, <2>2, <3>1 DEF StageInv, OnTheWay
    <3>3. StaysRead(t)
      BY <1>2, <1>6, <2>2, ReadStays DEF StageInv
    <3>4. \A says : TrueFor(t, says) => TrueFor(t, says)'
      BY <3>3, TrueStays
    <3> QED
      BY <3>1, <3>2, <3>4
  <2> QED
    BY <2>1, <2>2
<1> QED
  BY <1>5, <1>7, <1>8, <1>9 DEF StageInv

-----------------------------------------------------------------------------
(* A stage fails; revision steps it had created stay.                          *)
HalfKept ==
    \/ UNCHANGED <<again, created>>
    \/ \E o \in Owners : HalfRequested(o)

LEMMA FailureKeeps ==
    ASSUME StageInv, HalfKept, work' = Rest,
           UNCHANGED <<out, done, reads, tries, answer, effects>>
    PROVE  StageInv'
<1>1. /\ again' \in Seq(Revisable) /\ Len(again') <= 2
      /\ created' \subseteq Steps /\ created \subseteq created'
      /\ "again1" \in created' => Len(again') >= 1
      /\ "again2" \in created' => Len(again') >= 2
      /\ Len(again) <= Len(again') /\ \A i \in 1..Len(again) : again'[i] = again[i]
      /\ "final" \in created' => "final" \in created
  <2>1. CASE UNCHANGED <<again, created>>
    BY <2>1 DEF StageInv, StageTypes, StepsInOrder
  <2>2. ASSUME NEW o \in Owners, HalfRequested(o)
        PROVE  /\ again' \in Seq(Revisable) /\ Len(again') <= 2
               /\ created' \subseteq Steps /\ created \subseteq created'
               /\ "again1" \in created' => Len(again') >= 1
               /\ "again2" \in created' => Len(again') >= 2
               /\ Len(again) <= Len(again') /\ \A i \in 1..Len(again) : again'[i] = again[i]
               /\ "final" \in created' => "final" \in created
    <3>1. DOMAIN o = 1..Len(o)
      BY DEF Owners
    <3>2. PICK n \in 1..Len(o) : /\ again' = Asked(o, n)
                                /\ created' = created \cup {Place(i) : i \in 1..n}
      BY <2>2, <3>1 DEF HalfRequested
    <3>3. "final" \in created' => "final" \in created
      BY <3>2 DEF Place
    <3>4. /\ again' \in Seq(Revisable) /\ Len(again') <= 2
          /\ created' \subseteq Steps /\ created \subseteq created'
          /\ "again1" \in created' => Len(again') >= 1
          /\ "again2" \in created' => Len(again') >= 2
          /\ Len(again) <= Len(again') /\ \A i \in 1..Len(again) : again'[i] = again[i]
      BY <3>2, PlacesTaken
    <3> QED
      BY <3>3, <3>4
  <2> QED
    BY <2>1, <2>2 DEF HalfKept
<1>2. work'.at = "idle"
  BY DEF Rest
<1>3. StageTypes'
  <2>1. work' \in [step : Steps \cup {"none"}, at : Places, draft : TextType, round : 0..2]
    BY NothingIsText DEF Rest, Places
  <2> QED
    BY <1>1, <2>1 DEF StageInv, StageTypes
<1>4. KeepsDelivered
  BY <1>1 DEF KeepsDelivered
<1>5. StepsInOrder'
  <2>1. \A t : Needs(t)' = Needs(t)
    BY DEF Needs
  <2> QED
    BY <1>1, <1>2, <2>1 DEF StageInv, StepsInOrder
<1>6. OnTheWay' /\ EffectsLast'
  BY <1>2 DEF StageInv, OnTheWay, EffectsLast
<1>7. ShipsOnlyTrueFigures'
  BY <1>4, TrueResultsStay DEF ShipsOnlyTrueFigures, Results
<1> QED
  BY <1>3, <1>5, <1>6, <1>7 DEF StageInv

LEMMA StageFailsKeeps ==
    ASSUME StageInv, StageFails
    PROVE  StageInv'
<1>1. work' = Rest /\ UNCHANGED <<out, done, reads, tries, answer, effects>>
  BY DEF StageFails
<1>2. CASE UNCHANGED <<again, created>>
  BY <1>1, <1>2, FailureKeeps DEF HalfKept
<1>3. CASE Is("gate") /\ HalfRequested(Returned(FactGate(Step)))
  <2>1. Returned(FactGate(Step)) # <<>>
    BY <1>3 DEF HalfRequested
  <2>2. Returned(FactGate(Step)) \in Owners
    BY <2>1, ReturnedType
  <2> QED
    BY <1>1, <1>3, <2>2, FailureKeeps DEF HalfKept
<1>4. CASE work.draft.asks \in Revisable /\ HalfRequested(<<work.draft.asks>>)
  <2>1. <<work.draft.asks>> \in Owners
    BY <1>4 DEF Owners
  <2> QED
    BY <1>1, <1>4, <2>1, FailureKeeps DEF HalfKept
<1> QED
  BY <1>2, <1>3, <1>4 DEF StageFails

-----------------------------------------------------------------------------
LEMMA StageStepKeeps ==
    ASSUME StageInv, [StageNext]_stageVars
    PROVE  StageInv'
<1>1. ASSUME NEW t \in Steps, Begin(t)
      PROVE  StageInv'
  BY <1>1, BeginKeeps
<1>2. CASE StageMoves
  BY <1>2, ChoosePlanKeeps, LaunchKeeps, CheckGateKeeps, ModelWritesKeeps, ValidateKeeps,
     ReviewKeeps, CloseKeeps, SaveKeeps, CompleteStepKeeps DEF StageMoves
<1>3. CASE StageFails
  BY <1>3, StageFailsKeeps
<1>4. CASE UNCHANGED stageVars
  BY <1>4, StutterKeeps DEF stageVars, Aside
<1> QED
  BY <1>1, <1>2, <1>3, <1>4 DEF StageNext, StageStep

THEOREM StageInductive == StageSpec => []StageInv
<1> QED
  BY FirstStages, StageStepKeeps, PTL DEF StageSpec

(* A result presented as closed is true for what its step read, and stays so:   *)
(* no revision, retry or failure changes what it was made from.               *)
THEOREM ShippedFiguresAreTrue == StageSpec => []ShipsOnlyTrueFigures
<1>1. StageInv => ShipsOnlyTrueFigures
  BY DEF StageInv
<1> QED
  BY <1>1, StageInductive, PTL

(* Types, and no attempt of a step saves artifacts or launches a session twice. *)
THEOREM StageTypesCorrect == StageSpec => []StageTypeOK
<1>1. StageInv => StageTypeOK
  <2> SUFFICES ASSUME StageInv
               PROVE  StageTypeOK
    OBVIOUS
  <2>1. /\ done \subseteq created /\ created \subseteq Steps /\ reads \subseteq Steps
        /\ \A i \in DOMAIN again : again[i] \in Revisable
        /\ answer \in Steps \cup {"none"}
    BY DEF StageInv, StageTypes
  <2>2. /\ work.step \in Steps \cup {"none"} /\ work.at \in Places /\ work.round \in 0..2
        /\ work.draft.says \subseteq Figures
    BY DEF StageInv, StageTypes, TextType
  <2>3. \A t \in Steps : tries[t] \in 0..MaxAttempts /\ effects[t] <= tries[t]
                         /\ out[t].says \subseteq Figures
    BY DEF StageInv, StageTypes, EffectsLast, TextType
  <2> QED
    BY <2>1, <2>2, <2>3 DEF StageTypeOK
<1> QED
  BY <1>1, StageInductive, PTL

=============================================================================
