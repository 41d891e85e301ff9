----------------------------- MODULE AlarmEngine -----------------------------
(***************************************************************************)
(* AlarmEngine of src/alarm/alarm_engine.cpp. StorageEngine::Write calls   *)
(* Evaluate from every handler thread and the engine has no lock, so each  *)
(* rule a handler looks at is a step, and so is the trigger that follows.  *)
(* The statements that change rules_ are modelled while no Evaluate runs:  *)
(* at another time they would invalidate the iterator of a running loop,   *)
(* which leaves nothing to say about what follows.                         *)
(*                                                                         *)
(* A condition is what ParseCondition makes of its text, an operator and a *)
(* threshold; the operator "none" stands for a text that does not parse.   *)
(* Timestamps are whole numbers in whatever unit the points carry, and the *)
(* window is the number 60000 that Evaluate compares their difference with.*)
(* The points of the program carry microseconds (Timestamp in types.h, the *)
(* clock the executor reads), so that this window is 60 ms, although the   *)
(* comment above it says 60 seconds. The configurations scale the window   *)
(* and the limit of 10000 events down.                                     *)
(***************************************************************************)
EXTENDS Integers, Sequences

CONSTANTS
    RuleName, Tag, Handler,
    Condition,           \* records with fields op and threshold
    Value, Ts,           \* the values and timestamps written
    Window, EventLimit,  \* 60000, in the unit of Ts, and 10000
    MaxEvaluations, MaxChanges   \* bounds

ASSUME AlarmAssumption ==
    /\ RuleName # {} /\ Tag # {} /\ Condition # {} /\ Value # {} /\ Ts # {}
    /\ Value \subseteq Int /\ Ts \subseteq Int
    /\ Window \in Nat \ {0} /\ EventLimit \in Nat /\ MaxEvaluations \in Nat /\ MaxChanges \in Nat

VARIABLES
    rules,        \* rules_; their order decides nothing but the order of events
    lastTrigger,  \* last_trigger_time_: {} or {a timestamp} for each name
    events,       \* events_
    hpc,          \* where each handler is in Evaluate
    job,          \* the point it evaluates
    todo,         \* the rules it has not come to
    cur,          \* the rule it is about to trigger
    fired,        \* history: every alarm that was triggered
    overlapped,   \* history: were two handlers ever in Evaluate at once?
    evaluated, changed   \* history: counts, for the bounds

evalVars == <<hpc, job, todo, cur>>
log == <<lastTrigger, events, fired>>
vars == <<rules, log, evalVars, overlapped, evaluated, changed>>

Rule == [name : RuleName, tag : Tag, cond : Condition]
Event == [name : RuleName, tag : Tag, ts : Ts]
Point == [tag : Tag, ts : Ts, val : Value]

TypeOK ==
    /\ rules \in SUBSET Rule
    /\ lastTrigger \in [RuleName -> SUBSET Ts]
    /\ events \in Seq(Event) /\ fired \in Seq(Event)
    /\ hpc \in [Handler -> {"idle", "scan", "trigger"}]
    /\ job \in [Handler -> Point]
    /\ todo \in [Handler -> SUBSET Rule]
    /\ cur \in [Handler -> Rule]
    /\ overlapped \in BOOLEAN
    /\ evaluated \in 0 .. MaxEvaluations /\ changed \in 0 .. MaxChanges

AnyPoint == CHOOSE p \in Point : TRUE
AnyRule == CHOOSE r \in Rule : TRUE

Init ==
    /\ rules = {}
    /\ lastTrigger = [n \in RuleName |-> {}]
    /\ events = <<>> /\ fired = <<>>
    /\ hpc = [h \in Handler |-> "idle"]
    /\ job = [h \in Handler |-> AnyPoint]
    /\ todo = [h \in Handler |-> {}]
    /\ cur = [h \in Handler |-> AnyRule]
    /\ overlapped = FALSE
    /\ evaluated = 0 /\ changed = 0

-----------------------------------------------------------------------------
(* The rules *)

\* ParseCondition succeeds.
Parses(c) == c.op # "none"

ChangeRules ==
    /\ changed < MaxChanges /\ changed' = changed + 1
    /\ \A h \in Handler : hpc[h] = "idle"
    /\ UNCHANGED <<log, evalVars, overlapped, evaluated>>

\* CREATE ALARM: refused if the name is taken or the condition does not parse.
AddRule(r) ==
    /\ \A q \in rules : q.name # r.name
    /\ Parses(r.cond)
    /\ rules' = rules \union {r}
    /\ ChangeRules

Named(S, n) == \E r \in S : r.name = n

\* DROP ALARM. last_trigger_time_ keeps the name.
RemoveRule(n) ==
    /\ Named(rules, n)
    /\ rules' = {r \in rules : r.name # n}
    /\ ChangeRules

RemoveRulesByTag(t) ==
    /\ \E r \in rules : r.tag = t
    /\ rules' = {r \in rules : r.tag # t}
    /\ ChangeRules

\* ALTER ALARM ... SET condition = c. The other property, action, is not looked
\* at by Evaluate.
AlterRule(n, c) ==
    /\ Named(rules, n)
    /\ Parses(c)
    /\ rules' = {IF r.name = n THEN [r EXCEPT !.cond = c] ELSE r : r \in rules}
    /\ ChangeRules

-----------------------------------------------------------------------------
(* Evaluate *)

\* AlarmRule::Evaluate
Holds(c, v) ==
    \/ c.op = ">" /\ v > c.threshold
    \/ c.op = "<" /\ v < c.threshold
    \/ c.op = ">=" /\ v >= c.threshold
    \/ c.op = "<=" /\ v <= c.threshold
    \/ c.op = "==" /\ v = c.threshold
    \/ c.op = "!=" /\ v # c.threshold

BeginEvaluate(h, p) ==
    /\ hpc[h] = "idle" /\ evaluated < MaxEvaluations
    /\ evaluated' = evaluated + 1
    /\ hpc' = [hpc EXCEPT ![h] = "scan"]
    /\ job' = [job EXCEPT ![h] = p]
    /\ todo' = [todo EXCEPT ![h] = rules]
    /\ UNCHANGED cur
    /\ overlapped' = (overlapped \/ \E g \in Handler : hpc[g] # "idle")
    /\ UNCHANGED <<rules, log, changed>>

Matches(r, p) == r.tag = p.tag /\ Holds(r.cond, p.val)

\* The same name triggered less than a window ago, or later: the difference of
\* two timestamps is compared with 60000 as it is, whatever their unit.
SuppressedIfClose(n, ts) == \E last \in lastTrigger[n] : last <= ts /\ ts - last < Window
Suppressed(n, ts) == \E last \in lastTrigger[n] : ts - last < Window

\* One rule of the loop: go on, or trigger it.
ScanRule(h, r) ==
    /\ hpc[h] = "scan" /\ r \in todo[h]
    /\ todo' = [todo EXCEPT ![h] = @ \ {r}]
    /\ \/ (~Matches(r, job[h]) \/ Suppressed(r.name, job[h].ts)) /\ UNCHANGED <<hpc, cur>>
       \/ /\ Matches(r, job[h]) /\ ~Suppressed(r.name, job[h].ts)
          /\ hpc' = [hpc EXCEPT ![h] = "trigger"]
          /\ cur' = [cur EXCEPT ![h] = r]
    /\ UNCHANGED <<rules, log, job, overlapped, evaluated, changed>>

\* The event is recorded if there is room.
ReplaceLast(e) == IF Len(events) < EventLimit THEN Append(events, e) ELSE [events EXCEPT ![Len(events)] = e]
Record(e) == IF Len(events) < EventLimit THEN Append(events, e) ELSE events

\* The value stored in last_trigger_time_.
TriggerTime(ts) == ts

\* last_trigger_time_[name] = ts, the event is recorded and the callback called.
Trigger(h) ==
    LET n == cur[h].name
        e == [name |-> n, tag |-> job[h].tag, ts |-> job[h].ts] IN
    /\ hpc[h] = "trigger"
    /\ hpc' = [hpc EXCEPT ![h] = "scan"]
    /\ lastTrigger' = [lastTrigger EXCEPT ![n] = {TriggerTime(job[h].ts)}]
    /\ events' = Record(e)
    /\ fired' = Append(fired, e)
    /\ UNCHANGED <<rules, job, todo, cur, overlapped, evaluated, changed>>

EndEvaluate(h) ==
    /\ hpc[h] = "scan" /\ todo[h] = {}
    /\ hpc' = [hpc EXCEPT ![h] = "idle"]
    /\ job' = [job EXCEPT ![h] = AnyPoint]
    /\ cur' = [cur EXCEPT ![h] = AnyRule]
    /\ UNCHANGED <<rules, log, todo, overlapped, evaluated, changed>>

Next ==
    \/ \E r \in Rule : AddRule(r)
    \/ \E n \in RuleName : RemoveRule(n) \/ \E c \in Condition : AlterRule(n, c)
    \/ \E t \in Tag : RemoveRulesByTag(t)
    \/ \E h \in Handler :
           \/ \E p \in Point : BeginEvaluate(h, p)
           \/ \E r \in todo[h] : ScanRule(h, r)
           \/ Trigger(h) \/ EndEvaluate(h)

Spec == Init /\ [][Next]_vars

-----------------------------------------------------------------------------
(* Properties *)

\* What the test in Evaluate is for: the same rule does not trigger twice within
\* the window, in whatever order the timestamps arrive and however often a rule
\* of that name is dropped, altered and created again. (That the window lasts 60
\* seconds, as the comment there has it, is not said here and is not so.)
Deduplicated ==
    \A i, j \in DOMAIN fired :
        i < j /\ fired[i].name = fired[j].name => fired[j].ts - fired[i].ts >= Window

\* It is kept as long as no two handlers are in Evaluate at once.
DeduplicatedUnlessOverlapped == ~overlapped => Deduplicated

\* The event list is what QueryEvents shows of the alarms: the first ones in
\* the order they were triggered, and from the limit on nothing more.
EventsAreTheFirst ==
    /\ Len(events) <= EventLimit
    /\ Len(events) < Len(fired) => Len(events) = EventLimit
    /\ \A i \in DOMAIN events : i \in DOMAIN fired /\ events[i] = fired[i]

-----------------------------------------------------------------------------
(* The inductive invariant behind DeduplicatedUnlessOverlapped. *)

\* One handler at a time; the last trigger time of a name is not before any of
\* its alarms; and what a handler is about to trigger is still not suppressed.
AlarmInv ==
    ~overlapped =>
        /\ \A g, h \in Handler : hpc[g] # "idle" /\ hpc[h] # "idle" => g = h
        /\ \A i \in DOMAIN fired : \E last \in lastTrigger[fired[i].name] : fired[i].ts <= last
        /\ \A h \in Handler : hpc[h] = "trigger" => ~Suppressed(cur[h].name, job[h].ts)
        /\ Deduplicated
=============================================================================
