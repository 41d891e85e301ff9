--------------------------- MODULE AlarmEngineProofs ---------------------------
(***************************************************************************)
(* Proofs about AlarmEngine, for any number of rules, tags, handlers and   *)
(* calls: its type invariant, and that a rule does not trigger twice within*)
(* the window as long as no two handlers are in Evaluate at once.          *)
(***************************************************************************)
EXTENDS AlarmEngine, TLAPS

\* The initial values of job and cur have the right type.
LEMMA PointNotEmpty == AnyPoint \in Point
<1>1. PICK t \in Tag, s \in Ts, v \in Value : TRUE
  BY AlarmAssumption
<1>2. [tag |-> t, ts |-> s, val |-> v] \in Point
  BY <1>1 DEF Point
<1>3. QED
  BY <1>2 DEF AnyPoint

LEMMA RuleNotEmpty == AnyRule \in Rule
<1>1. PICK n \in RuleName, t \in Tag, c \in Condition : TRUE
  BY AlarmAssumption
<1>2. [name |-> n, tag |-> t, cond |-> c] \in Rule
  BY <1>1 DEF Rule
<1>3. QED
  BY <1>2 DEF AnyRule

-----------------------------------------------------------------------------
(* Type correctness *)

\* What the statements that change rules_ have in common keeps the types.
LEMMA ChangeRulesType ==
    ASSUME TypeOK, ChangeRules, rules' \in SUBSET Rule
    PROVE  TypeOK'
BY AlarmAssumption DEF TypeOK, ChangeRules, log, evalVars

\* Every step of AlarmEngine keeps the types.
LEMMA StepType ==
    ASSUME TypeOK, [Next]_vars
    PROVE  TypeOK'
<1>1. ASSUME NEW r \in Rule, AddRule(r) PROVE TypeOK'
  BY <1>1, ChangeRulesType DEF AddRule, TypeOK
<1>2. ASSUME NEW n \in RuleName, RemoveRule(n) PROVE TypeOK'
  BY <1>2, ChangeRulesType DEF RemoveRule, TypeOK
<1>3. ASSUME NEW n \in RuleName, NEW c \in Condition, AlterRule(n, c) PROVE TypeOK'
  <2>1. \A r \in Rule : [r EXCEPT !.cond = c] \in Rule
    BY DEF Rule
  <2>2. rules' \in SUBSET Rule
    BY <1>3, <2>1 DEF AlterRule, TypeOK
  <2>3. QED
    BY <1>3, <2>2, ChangeRulesType DEF AlterRule
<1>4. ASSUME NEW t \in Tag, RemoveRulesByTag(t) PROVE TypeOK'
  BY <1>4, ChangeRulesType DEF RemoveRulesByTag, TypeOK
<1>5. ASSUME NEW h \in Handler, NEW p \in Point, BeginEvaluate(h, p) PROVE TypeOK'
  BY <1>5, AlarmAssumption DEF BeginEvaluate, TypeOK, log
<1>6. ASSUME NEW h \in Handler, NEW r \in todo[h], ScanRule(h, r) PROVE TypeOK'
  <2>1. r \in Rule /\ todo' \in [Handler -> SUBSET Rule]
    BY <1>6 DEF TypeOK, ScanRule
  <2>2. hpc' \in [Handler -> {"idle", "scan", "trigger"}] /\ cur' \in [Handler -> Rule]
    BY <1>6, <2>1 DEF TypeOK, ScanRule
  <2>3. QED
    BY <1>6, <2>1, <2>2 DEF ScanRule, TypeOK, log
<1>7. ASSUME NEW h \in Handler, Trigger(h) PROVE TypeOK'
  <2> DEFINE e == [name |-> cur[h].name, tag |-> job[h].tag, ts |-> job[h].ts]
  <2>1. e \in Event /\ cur[h].name \in RuleName /\ job[h].ts \in Ts
    BY DEF TypeOK, Rule, Point, Event
  <2>2. fired' \in Seq(Event) /\ events' \in Seq(Event)
    BY <1>7, <2>1 DEF Trigger, Record, TypeOK
  <2>3. lastTrigger' \in [RuleName -> SUBSET Ts]
    BY <1>7, <2>1 DEF Trigger, TriggerTime, TypeOK
  <2>4. hpc' \in [Handler -> {"idle", "scan", "trigger"}]
    BY <1>7 DEF Trigger, TypeOK
  <2>5. QED
    BY <1>7, <2>2, <2>3, <2>4 DEF Trigger, TypeOK
<1>8. ASSUME NEW h \in Handler, EndEvaluate(h) PROVE TypeOK'
  BY <1>8, PointNotEmpty, RuleNotEmpty DEF EndEvaluate, TypeOK, log
<1>9. CASE UNCHANGED vars
  BY <1>9 DEF vars, log, evalVars, TypeOK
<1>10. QED
  BY <1>1, <1>2, <1>3, <1>4, <1>5, <1>6, <1>7, <1>8, <1>9 DEF Next

\* The state of AlarmEngine is well-typed: events_ and the alarms triggered only
\* ever name rules, tags and timestamps that were written.
THEOREM TypeCorrect == Spec => []TypeOK
<1>1. Init => TypeOK
  <2> SUFFICES ASSUME Init PROVE TypeOK
    OBVIOUS
  <2>1. hpc \in [Handler -> {"idle", "scan", "trigger"}] /\ job \in [Handler -> Point]
    BY PointNotEmpty DEF Init
  <2>2. todo \in [Handler -> SUBSET Rule] /\ cur \in [Handler -> Rule]
    BY RuleNotEmpty DEF Init
  <2>3. lastTrigger \in [RuleName -> SUBSET Ts] /\ events \in Seq(Event) /\ fired \in Seq(Event)
    BY DEF Init
  <2>4. evaluated \in 0 .. MaxEvaluations /\ changed \in 0 .. MaxChanges
    BY AlarmAssumption DEF Init
  <2>5. QED
    BY <2>1, <2>2, <2>3, <2>4 DEF Init, TypeOK
<1>2. TypeOK /\ [Next]_vars => TypeOK'
  BY StepType
<1>3. QED
  BY <1>1, <1>2, PTL DEF Spec

-----------------------------------------------------------------------------
(* Deduplication *)

\* Statements that change rules_ run while no handler is in Evaluate.
LEMMA ChangeRulesInv ==
    ASSUME TypeOK, AlarmInv, ChangeRules
    PROVE  AlarmInv'
BY DEF AlarmInv, Deduplicated, ChangeRules, log, evalVars, Suppressed

\* The step that triggers a rule: the new alarm is a window after every earlier
\* one of that name, because none of them is after the last trigger time.
LEMMA TriggerInv ==
    ASSUME TypeOK, AlarmInv, NEW h \in Handler, Trigger(h)
    PROVE  AlarmInv'
<1> DEFINE n == cur[h].name
           e == [name |-> n, tag |-> job[h].tag, ts |-> job[h].ts]
<1> SUFFICES ASSUME ~overlapped
             PROVE  AlarmInv'
  BY DEF Trigger, AlarmInv
<1>1. n \in RuleName /\ e \in Event /\ e.ts \in Int /\ e.name = n /\ e.ts = job[h].ts
  <2>1. cur[h] \in Rule /\ job[h] \in Point
    BY DEF TypeOK
  <2>2. n \in RuleName /\ job[h].tag \in Tag /\ job[h].ts \in Ts
    BY <2>1 DEF Rule, Point
  <2>3. QED
    BY <2>2, AlarmAssumption DEF Event
<1>2. /\ fired' = Append(fired, e) /\ fired \in Seq(Event)
      /\ DOMAIN fired' = 1 .. Len(fired) + 1 /\ DOMAIN fired = 1 .. Len(fired)
      /\ Len(fired) \in Nat
      /\ \A i \in 1 .. Len(fired) : fired'[i] = fired[i]
      /\ fired'[Len(fired) + 1] = e
  BY <1>1 DEF Trigger, TypeOK
<1>3. \A i \in DOMAIN fired : fired[i].ts \in Int /\ fired[i].name \in RuleName
  <2>1. \A i \in DOMAIN fired : fired[i] \in Event
    BY <1>2
  <2>2. \A f \in Event : f.ts \in Ts /\ f.name \in RuleName
    BY DEF Event
  <2>3. QED
    BY <2>1, <2>2, AlarmAssumption
<1>4. lastTrigger' = [lastTrigger EXCEPT ![n] = {e.ts}]
  BY DEF Trigger, TriggerTime
<1>5. \A i \in DOMAIN fired : fired[i].name = n => e.ts - fired[i].ts >= Window
  <2> SUFFICES ASSUME NEW i \in DOMAIN fired, fired[i].name = n
               PROVE  e.ts - fired[i].ts >= Window
    OBVIOUS
  <2>1. PICK last \in lastTrigger[n] : fired[i].ts <= last
    BY DEF AlarmInv
  <2>2. ~(e.ts - last < Window)
    BY <1>1, <2>1 DEF AlarmInv, Trigger, Suppressed
  <2>3. last \in Int
    BY <1>1, AlarmAssumption DEF TypeOK
  <2>4. QED
    BY <1>1, <1>3, <2>1, <2>2, <2>3, AlarmAssumption
<1>6. Deduplicated'
  BY <1>1, <1>2, <1>5 DEF AlarmInv, Deduplicated
<1>7. \A i \in DOMAIN fired' : \E last \in lastTrigger'[fired'[i].name] : fired'[i].ts <= last
  <2> SUFFICES ASSUME NEW i \in DOMAIN fired'
               PROVE  \E last \in lastTrigger'[fired'[i].name] : fired'[i].ts <= last
    OBVIOUS
  <2>1. CASE i = Len(fired) + 1
    <3>1. fired'[i] = e
      BY <1>2, <2>1
    <3>2. lastTrigger'[n] = {e.ts}
      BY <1>1, <1>4 DEF TypeOK
    <3>3. e.ts <= e.ts
      BY <1>1
    <3>4. QED
      BY <1>1, <3>1, <3>2, <3>3
  <2>2. CASE i \in DOMAIN fired /\ fired[i].name = n
    <3>1. fired[i].ts <= e.ts
      BY <1>1, <1>3, <1>5, <2>2, AlarmAssumption
    <3>2. QED
      BY <1>1, <1>2, <1>4, <2>2, <3>1 DEF TypeOK
  <2>3. CASE i \in DOMAIN fired /\ fired[i].name # n
    BY <1>1, <1>2, <1>3, <1>4, <2>3 DEF TypeOK, AlarmInv
  <2>4. QED
    BY <1>2, <2>1, <2>2, <2>3
<1>8. \A g \in Handler : hpc'[g] # "trigger"
  BY DEF Trigger, AlarmInv, TypeOK
<1>9. \A f, g \in Handler : hpc'[f] # "idle" /\ hpc'[g] # "idle" => f = g
  BY DEF Trigger, AlarmInv, TypeOK
<1>10. QED
  BY <1>6, <1>7, <1>8, <1>9 DEF AlarmInv

\* Every step of AlarmEngine keeps AlarmInv.
LEMMA StepInv ==
    ASSUME TypeOK, AlarmInv, [Next]_vars
    PROVE  AlarmInv'
<1>1. ASSUME NEW r \in Rule, AddRule(r) PROVE AlarmInv'
  BY <1>1, ChangeRulesInv DEF AddRule
<1>2. ASSUME NEW n \in RuleName, RemoveRule(n) PROVE AlarmInv'
  BY <1>2, ChangeRulesInv DEF RemoveRule
<1>3. ASSUME NEW n \in RuleName, NEW c \in Condition, AlterRule(n, c) PROVE AlarmInv'
  BY <1>3, ChangeRulesInv DEF AlterRule
<1>4. ASSUME NEW t \in Tag, RemoveRulesByTag(t) PROVE AlarmInv'
  BY <1>4, ChangeRulesInv DEF RemoveRulesByTag
<1>5. ASSUME NEW h \in Handler, NEW p \in Point, BeginEvaluate(h, p) PROVE AlarmInv'
  BY <1>5 DEF BeginEvaluate, AlarmInv, Deduplicated, Suppressed, TypeOK, log
<1>6. ASSUME NEW h \in Handler, NEW r \in todo[h], ScanRule(h, r) PROVE AlarmInv'
  BY <1>6 DEF ScanRule, AlarmInv, Deduplicated, Suppressed, TypeOK, log
<1>7. ASSUME NEW h \in Handler, Trigger(h) PROVE AlarmInv'
  BY <1>7, TriggerInv
<1>8. ASSUME NEW h \in Handler, EndEvaluate(h) PROVE AlarmInv'
  BY <1>8 DEF EndEvaluate, AlarmInv, Deduplicated, Suppressed, TypeOK, log
<1>9. CASE UNCHANGED vars
  BY <1>9 DEF vars, log, evalVars, AlarmInv, Deduplicated, Suppressed
<1>10. QED
  BY <1>1, <1>2, <1>3, <1>4, <1>5, <1>6, <1>7, <1>8, <1>9 DEF Next

\* The 60-second rule of Evaluate: as long as no two handlers are in it at once,
\* two alarms of one name are a window apart in the order in which they were
\* triggered, however late points arrive and however often rules of that name
\* are dropped, altered and created.
THEOREM AlarmsDeduplicated == Spec => []DeduplicatedUnlessOverlapped
<1>1. Init => AlarmInv
  BY DEF Init, AlarmInv, Deduplicated
<1>2. TypeOK /\ AlarmInv /\ [Next]_vars => AlarmInv'
  BY StepInv
<1>3. AlarmInv => DeduplicatedUnlessOverlapped
  BY DEF AlarmInv, DeduplicatedUnlessOverlapped
<1>4. QED
  BY <1>1, <1>2, <1>3, TypeCorrect, PTL DEF Spec
-----------------------------------------------------------------------------
(* The event list *)

\* Every step of AlarmEngine keeps EventsAreTheFirst; only Trigger writes either
\* list, and it appends the same event to both while there is room.
LEMMA StepEvents ==
    ASSUME TypeOK, EventsAreTheFirst, [Next]_vars
    PROVE  EventsAreTheFirst'
<1>1. ASSUME UNCHANGED log PROVE EventsAreTheFirst'
  BY <1>1 DEF log, EventsAreTheFirst
<1>2. ASSUME NEW h \in Handler, Trigger(h) PROVE EventsAreTheFirst'
  <2> DEFINE e == [name |-> cur[h].name, tag |-> job[h].tag, ts |-> job[h].ts]
  <2>1. e \in Event
    BY DEF TypeOK, Rule, Point, Event
  <2>2. events \in Seq(Event) /\ fired \in Seq(Event) /\ fired' = Append(fired, e)
    BY <1>2 DEF Trigger, TypeOK
  <2>3. /\ Len(fired') = Len(fired) + 1 /\ fired'[Len(fired) + 1] = e
        /\ \A i \in 1 .. Len(fired) : fired'[i] = fired[i]
        /\ DOMAIN fired' = 1 .. Len(fired) + 1 /\ DOMAIN fired = 1 .. Len(fired)
        /\ DOMAIN events = 1 .. Len(events) /\ Len(events) \in Nat /\ Len(fired) \in Nat
    BY <2>1, <2>2
  <2>4. Len(events) <= Len(fired)
    <3>1. CASE Len(events) = 0
      BY <2>3, <3>1
    <3>2. CASE Len(events) # 0
      <4>1. Len(events) \in DOMAIN events
        BY <2>3, <3>2
      <4>2. Len(events) \in DOMAIN fired
        BY <4>1 DEF EventsAreTheFirst
      <4>3. QED
        BY <2>3, <4>2
    <3>3. QED
      BY <3>1, <3>2
  <2>5. events' = Record(e)
    BY <1>2 DEF Trigger
  <2>6. /\ Len(events) <= EventLimit /\ EventLimit \in Nat /\ Len(events) \in Nat /\ Len(fired) \in Nat
        /\ Len(events) < Len(fired) => Len(events) = EventLimit
    BY <2>3, AlarmAssumption DEF EventsAreTheFirst
  <2>7. CASE Len(events) < EventLimit
    <3>1. Len(events) = Len(fired)
      BY <2>4, <2>7, <2>6
    <3>2. events' = Append(events, e)
      BY <2>7, <2>5 DEF Record
    <3>3. /\ Len(events') = Len(events) + 1 /\ events'[Len(events) + 1] = e
          /\ \A i \in 1 .. Len(events) : events'[i] = events[i]
          /\ DOMAIN events' = 1 .. Len(events) + 1
      BY <2>1, <2>2, <3>2
    <3>4. \A i \in DOMAIN events' : i \in DOMAIN fired' /\ events'[i] = fired'[i]
      BY <2>3, <3>1, <3>2, <3>3 DEF EventsAreTheFirst
    <3>5. Len(events') <= EventLimit /\ Len(events') = Len(fired')
      BY <2>3, <2>7, <3>1, <3>2, <3>3, AlarmAssumption
    <3>6. QED
      BY <2>3, <3>4, <3>5 DEF EventsAreTheFirst
  <2>8. CASE ~(Len(events) < EventLimit)
    <3>1. Len(events) = EventLimit
      BY <2>8, <2>6
    <3>2. events' = events
      BY <2>8, <2>5 DEF Record
    <3>3. \A i \in DOMAIN events' : i \in DOMAIN fired' /\ events'[i] = fired'[i]
      BY <2>3, <3>2 DEF EventsAreTheFirst
    <3>4. QED
      BY <2>3, <3>1, <3>2, <3>3, AlarmAssumption DEF EventsAreTheFirst
  <2>9. QED
    BY <2>7, <2>8
<1>3. ASSUME NEW r \in Rule, AddRule(r) PROVE UNCHANGED log
  BY <1>3 DEF AddRule, ChangeRules
<1>4. ASSUME NEW n \in RuleName, RemoveRule(n) \/ \E c \in Condition : AlterRule(n, c)
      PROVE  UNCHANGED log
  BY <1>4 DEF RemoveRule, AlterRule, ChangeRules
<1>5. ASSUME NEW t \in Tag, RemoveRulesByTag(t) PROVE UNCHANGED log
  BY <1>5 DEF RemoveRulesByTag, ChangeRules
<1>6. ASSUME NEW h \in Handler, \E p \in Point : BeginEvaluate(h, p) PROVE UNCHANGED log
  BY <1>6 DEF BeginEvaluate
<1>7. ASSUME NEW h \in Handler, (\E r \in todo[h] : ScanRule(h, r)) \/ EndEvaluate(h)
      PROVE  UNCHANGED log
  BY <1>7 DEF ScanRule, EndEvaluate
<1>8. CASE UNCHANGED vars
  BY <1>1, <1>8 DEF vars
<1>9. QED
  BY <1>1, <1>2, <1>3, <1>4, <1>5, <1>6, <1>7, <1>8 DEF Next

\* What QueryEvents reports is, for every event limit and any interleaving of the
\* handlers, the first alarms in the order they were triggered, and no alarm is
\* left out before the limit is reached.
THEOREM EventsFaithful == Spec => []EventsAreTheFirst
<1>1. Init => EventsAreTheFirst
  BY AlarmAssumption DEF Init, EventsAreTheFirst
<1>2. TypeOK /\ EventsAreTheFirst /\ [Next]_vars => EventsAreTheFirst'
  BY StepEvents
<1>3. QED
  BY <1>1, <1>2, TypeCorrect, PTL DEF Spec
=============================================================================
