----------------------------- MODULE DurableStore -----------------------------
(***************************************************************************)
(* What the storage engine promises its callers, with no log, buffer, file *)
(* or thread in sight: a submitted point becomes kept at some moment, only *)
(* a kept point is acknowledged, a kept point stays kept while the process *)
(* runs, and a crash takes away only points that were not acknowledged.    *)
(*                                                                         *)
(* The promise ends once the store is damaged: what is kept is then        *)
(* anything, but points are still submitted before they are acknowledged.  *)
(***************************************************************************)
EXTENDS DataPoints

VARIABLES
    submitted,   \* points whose Write was called
    kept,        \* points a restart would find
    acked,       \* points whose Write returned true
    crashes,     \* how often the process died
    damaged      \* the promise no longer holds

vars == <<submitted, kept, acked, crashes, damaged>>

Init ==
    /\ submitted = {} /\ kept = {} /\ acked = {}
    /\ crashes = 0
    /\ damaged \in BOOLEAN

\* Write is called with a point it was not called with before.
Submit(p) ==
    /\ p \notin submitted
    /\ submitted' = submitted \union {p}
    /\ UNCHANGED <<kept, acked, crashes, damaged>>

Keep(p) ==
    /\ p \in submitted \ kept
    /\ kept' = kept \union {p}
    /\ UNCHANGED <<submitted, acked, crashes, damaged>>

\* Write returns true.
Ack(p) ==
    /\ p \in (submitted \intersect kept) \ acked
    /\ acked' = acked \union {p}
    /\ UNCHANGED <<submitted, kept, crashes, damaged>>

Crash ==
    /\ crashes' = crashes + 1
    /\ kept' \subseteq kept
    /\ acked \subseteq kept'
    /\ UNCHANGED <<submitted, acked, damaged>>

\* Any step of a store that is damaged or is being damaged.
Damaged ==
    /\ damaged' = TRUE
    /\ submitted \subseteq submitted'
    /\ acked \subseteq acked'
    /\ acked' \subseteq submitted'

Next ==
    \/ \E p \in Point : Submit(p) \/ Keep(p) \/ Ack(p)
    \/ Crash
    \/ Damaged

Spec == Init /\ [][Next]_vars
=============================================================================
