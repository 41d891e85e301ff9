---------------------------- MODULE RetainedFlushes ----------------------------
(***************************************************************************)
(* What the tiers promise, with no tier, file or thread in sight: a set of *)
(* flushes that only grows by one when a flush is complete, and of which   *)
(* only those that are older than the retention time are ever forgotten,   *)
(* if any may be at all. One that is forgotten does not come back.         *)
(*                                                                         *)
(* The promise ends when a flush has used the name of another one's file.  *)
(***************************************************************************)
EXTENDS Integers

CONSTANTS
    Flush,       \* flushes
    Retention,   \* days
    Archived     \* is nothing forgotten as long as no system call fails?

VARIABLES
    now,      \* the date
    born,     \* the day of each complete flush, -1 before it
    kept,     \* the flushes whose points are still all there
    failed,   \* did a system call ever fail?
    spoilt    \* the promise no longer holds

vars == <<now, born, kept, failed, spoilt>>

Init ==
    /\ now = 0
    /\ born = [i \in Flush |-> -1] /\ kept = {}
    /\ failed = FALSE /\ spoilt = FALSE

NextDay ==
    /\ now' = now + 1
    /\ UNCHANGED <<born, kept, failed, spoilt>>

Complete(i) ==
    /\ born[i] < 0 /\ i \notin kept
    /\ born' = [born EXCEPT ![i] = now]
    /\ kept' = kept \union {i}
    /\ UNCHANGED <<now, failed, spoilt>>

Forget(i) ==
    /\ i \in kept /\ now - born[i] > Retention
    /\ Archived => failed
    /\ kept' = kept \ {i}
    /\ UNCHANGED <<now, born, failed, spoilt>>

Fail ==
    /\ failed' = TRUE
    /\ UNCHANGED <<now, born, kept, spoilt>>

\* Any step of tiers that are spoilt or are being spoilt.
Spoilt ==
    /\ spoilt' = TRUE
    /\ failed => failed'
    /\ now' >= now

Next ==
    \/ NextDay
    \/ \E i \in Flush : Complete(i) \/ Forget(i)
    \/ Fail
    \/ Spoilt

Spec == Init /\ [][Next]_vars
=============================================================================
