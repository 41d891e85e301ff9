------------------------------- MODULE SavedMap -------------------------------
(***************************************************************************)
(* What the snapshot store promises, with no file, flag or thread in sight:*)
(* a map in memory that is saved from time to time as it is at one moment, *)
(* and a start that finds the last save.                                   *)
(*                                                                         *)
(* While a save replaces the one before it, nothing is held: a crash then  *)
(* leaves anything. A failing system call may spoil the save it hits, and  *)
(* the changes this save was for may never be saved. At all other times    *)
(* the promise stands, after any number of crashes and failures.           *)
(***************************************************************************)
EXTENDS Integers

CONSTANTS Tag, Value

VARIABLES
    up,       \* has a start, and neither an end nor a crash since?
    memory,   \* the map
    stage,    \* of a save: "none", "begun" or "taken"
    image,    \* the map as it is being saved
    held,     \* what a start would find
    failed    \* did a system call ever fail?

vars == <<up, memory, stage, image, held, failed>>

Entries == [Tag -> Value]
Nothing == [t \in Tag |-> 0]

Init ==
    /\ up = FALSE
    /\ memory = Nothing /\ image = Nothing /\ held = Nothing
    /\ stage = "none" /\ failed = FALSE

Open ==
    /\ ~up /\ up' = TRUE
    /\ memory' = held
    /\ UNCHANGED <<stage, image, held, failed>>

Store(t, v) ==
    /\ up
    /\ memory' = [memory EXCEPT ![t] = v]
    /\ UNCHANGED <<up, stage, image, held, failed>>

\* A store that ends has saved everything, unless a system call failed.
MayEnd == up' \/ failed' \/ held' = memory'

Begin ==
    /\ up /\ stage = "none"
    /\ stage' = "begun"
    /\ held' = Nothing
    /\ failed' \in {failed, TRUE}
    /\ UNCHANGED <<up, memory, image>>

\* The whole map is taken at once, handlers or not.
Take ==
    /\ stage = "begun"
    /\ stage' = "taken"
    /\ image' = memory
    /\ UNCHANGED <<up, memory, held, failed>>

\* Of two saves the later one is in the file.
Keep ==
    /\ stage = "taken"
    /\ stage' = "none"
    /\ held' = image
    /\ up' \in BOOLEAN /\ MayEnd
    /\ UNCHANGED <<memory, image, failed>>

Spoil ==
    /\ stage = "taken"
    /\ stage' = "none"
    /\ failed' = TRUE
    /\ held' \in Entries /\ up' \in BOOLEAN
    /\ UNCHANGED <<memory, image>>

Close ==
    /\ up /\ up' = FALSE
    /\ stage = "none"
    /\ MayEnd
    /\ UNCHANGED <<memory, stage, image, held, failed>>

Crash ==
    /\ up /\ up' = FALSE
    /\ memory' = Nothing /\ image' = Nothing /\ stage' = "none"
    /\ IF stage = "none" THEN UNCHANGED held ELSE held' \in Entries
    /\ UNCHANGED failed

Next ==
    \/ Open
    \/ \E t \in Tag, v \in Value : Store(t, v)
    \/ Begin \/ Take \/ Keep \/ Spoil
    \/ Close \/ Crash

Spec == Init /\ [][Next]_vars
=============================================================================
