------------------------------ MODULE TagPoints ------------------------------
(***************************************************************************)
(* What a tag promises its readers, with no file, merge or thread in       *)
(* sight: timestamps that only become more, and a query that finds, unless *)
(* the process dies before it answers, all of those it asks for that were  *)
(* stored when it began. Only a query that was under way while a merge     *)
(* ended has an excuse for answering with less.                            *)
(*                                                                         *)
(* The promise ends once the tag is damaged.                               *)
(***************************************************************************)
EXTENDS Integers

CONSTANT Ts    \* timestamps

VARIABLES
    held,       \* timestamps a reader can find
    stored,     \* timestamps that were flushed
    hidden,     \* timestamps that only a query for everything must find
    asked,      \* is there a query?
    expected,   \* what it has to find
    found,      \* what it has found so far
    excused,    \* may it miss something?
    crashes,    \* how often the process died
    damaged     \* the promise no longer holds

query == <<asked, expected, found, excused>>
vars == <<held, stored, hidden, query, crashes, damaged>>

NoQuery == asked = FALSE /\ expected = {} /\ found = {} /\ excused = FALSE

Init ==
    /\ held = {} /\ stored = {} /\ hidden = {} /\ NoQuery
    /\ crashes = 0
    /\ damaged \in BOOLEAN

Store(S) ==
    /\ stored' = stored \union S
    /\ held \union S \subseteq held'
    /\ hidden \subseteq hidden'
    /\ UNCHANGED <<query, crashes, damaged>>

\* A merge may bring timestamps that nobody stored, and be the query's excuse.
Merge ==
    /\ held \subseteq held'
    /\ excused' \in {excused, asked}
    /\ UNCHANGED <<stored, hidden, asked, expected, found, crashes, damaged>>

Ask(R) ==
    /\ ~asked
    /\ asked' = TRUE
    /\ expected' = (IF R = Ts THEN stored ELSE stored \ hidden) \intersect R
    /\ UNCHANGED <<held, stored, hidden, found, excused, crashes, damaged>>

Find ==
    /\ asked
    /\ found \subseteq found'
    /\ UNCHANGED <<held, stored, hidden, asked, expected, excused, crashes, damaged>>

Answer ==
    /\ asked
    /\ excused \/ expected \subseteq found
    /\ NoQuery'
    /\ UNCHANGED <<held, stored, hidden, crashes, damaged>>

Crash ==
    /\ crashes' = crashes + 1
    /\ NoQuery'
    /\ UNCHANGED <<held, stored, hidden, damaged>>

\* Any step of a tag that is damaged or is being damaged.
Damaged ==
    /\ damaged' = TRUE
    /\ stored \subseteq stored'
    /\ crashes' \in {crashes, crashes + 1}

Next ==
    \/ \E S \in SUBSET Ts : Store(S)
    \/ Merge
    \/ \E R \in SUBSET Ts : Ask(R)
    \/ Find \/ Answer \/ Crash
    \/ Damaged

Spec == Init /\ [][Next]_vars
=============================================================================
