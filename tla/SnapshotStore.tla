---------------------------- MODULE SnapshotStore ----------------------------
(***************************************************************************)
(* SnapshotStore of src/snapshot/snapshot_store.cpp: the in-memory map of  *)
(* current values, the background thread that saves it, Shutdown, and what *)
(* Init loads after a restart or a crash.                                  *)
(*                                                                         *)
(* Handlers call OnWrite concurrently. An entry is the number of the write *)
(* that stored it, so that newer and older can be told apart; 0 means that *)
(* the tag has no entry. The file is protobuf: an empty file, or one cut   *)
(* between two entries, parses without error as fewer entries; any other   *)
(* cut is a parse error ("torn").                                          *)
(***************************************************************************)
EXTENDS Integers

CONSTANTS
    Tag, Writer,
    MaxWrites, MaxCrashes, MaxFaults, MaxStops   \* bounds

ASSUME SnapshotAssumption ==
    MaxWrites \in Nat /\ MaxCrashes \in Nat /\ MaxFaults \in Nat /\ MaxStops \in Nat

VARIABLES
    phase,     \* "down", "running", "stopping" (inside Shutdown)
    running,   \* running_
    map,       \* snapshot_
    dirty,     \* dirty_
    wpc,       \* handlers inside OnWrite: "idle" or "stored" (map updated, flag not set)
    spc,       \* where the saving thread, or Shutdown after the join, is
    image,     \* pb_file
    main, bak, \* snapshot.pb and snapshot.pb.bak
    newest,    \* history: the last write to each tag
    saved,     \* history: the entries of the last save that was completed
    writes, crashes, faults, stops   \* history: counts, for the bounds

files == <<main, bak>>
counts == <<crashes, faults, stops>>
vars == <<phase, running, map, dirty, wpc, spc, image, files, newest, saved, writes, counts>>

Entries == [Tag -> 0 .. MaxWrites]
NoEntries == [t \in Tag |-> 0]
File == [state : {"none", "torn", "parses"}, entries : Entries]

NoFile == [state |-> "none", entries |-> NoEntries]
TornFile == [state |-> "torn", entries |-> NoEntries]
Parses(e) == [state |-> "parses", entries |-> e]

\* SaveLoop: "off" before Init and after Shutdown, "starting" (save_mutex_ not
\* yet taken), "waiting" (in wait_for, save_mutex_ released), "woken" and the
\* four steps of SaveToFile (save_mutex_ held), "exited". Shutdown goes through
\* "woken" and SaveToFile as well, after the join.
SaverPc == {"off", "starting", "waiting", "woken", "backup", "collect", "open", "write", "exited"}

TypeOK ==
    /\ phase \in {"down", "running", "stopping"}
    /\ running = (phase = "running")
    /\ map \in Entries
    /\ dirty \in BOOLEAN
    /\ wpc \in [Writer -> {"idle", "stored"}]
    /\ spc \in [at : SaverPc, by : {"loop", "shutdown"}]
    /\ image \in Entries
    /\ main \in File /\ bak \in File
    /\ newest \in Entries /\ saved \in Entries
    /\ writes \in 0 .. MaxWrites
    /\ crashes \in 0 .. MaxCrashes
    /\ faults \in 0 .. MaxFaults
    /\ stops \in 0 .. MaxStops

Init ==
    /\ phase = "down" /\ running = FALSE
    /\ map = NoEntries /\ dirty = FALSE
    /\ wpc = [w \in Writer |-> "idle"]
    /\ spc = [at |-> "off", by |-> "loop"]
    /\ image = NoEntries
    /\ main = NoFile /\ bak = NoFile
    /\ newest = NoEntries /\ saved = NoEntries
    /\ writes = 0 /\ crashes = 0 /\ faults = 0 /\ stops = 0

Fault == faults < MaxFaults /\ faults' = faults + 1

SaverAt(where) == spc' = [spc EXCEPT !.at = where]

-----------------------------------------------------------------------------
(* Init and LoadFromFile *)

\* What LoadFromFile finds: nothing if snapshot.pb is missing, the backup if
\* it does not parse and the backup does.
Loadable ==
    IF main.state = "torn" /\ bak.state = "parses" THEN bak.entries
    ELSE main.entries

StartUp ==
    /\ phase = "down"
    /\ phase' = "running" /\ running' = TRUE
    /\ map' = Loadable
    /\ dirty' = FALSE
    /\ spc' = [at |-> "starting", by |-> "loop"]
    /\ UNCHANGED <<wpc, image, files, newest, saved, writes, counts>>

-----------------------------------------------------------------------------
(* OnWrite *)

\* The entry is stored under mutex_.
StoreEntry(w, t) ==
    /\ phase = "running" /\ wpc[w] = "idle"
    /\ writes < MaxWrites
    /\ writes' = writes + 1
    /\ map' = [map EXCEPT ![t] = writes + 1]
    /\ newest' = [newest EXCEPT ![t] = writes + 1]
    /\ wpc' = [wpc EXCEPT ![w] = "stored"]
    /\ UNCHANGED <<phase, running, dirty, spc, image, files, saved, counts>>

\* dirty_.store(true). The notify_one that follows wakes the saving thread,
\* which finds its predicate false and goes on waiting.
SetDirty(w) ==
    /\ wpc[w] = "stored"
    /\ dirty' = TRUE
    /\ wpc' = [wpc EXCEPT ![w] = "idle"]
    /\ UNCHANGED <<phase, running, map, spc, image, files, newest, saved, writes, counts>>

-----------------------------------------------------------------------------
(* SaveLoop *)

\* Where a test of running_ takes the thread, and where it goes at the end of
\* a round, which it reaches with save_mutex_ held. Shutdown returns instead.
TestIgnored == "waiting"
LoopTest == IF running THEN "waiting" ELSE "exited"
Finished == IF spc.by = "loop" THEN LoopTest ELSE "off"
EndPhase == phase' = IF spc.by = "loop" THEN phase ELSE "down"

EnterLoop ==
    /\ spc.at = "starting"
    /\ SaverAt(LoopTest)
    /\ UNCHANGED <<phase, running, map, dirty, wpc, image, files, newest, saved, writes, counts>>

\* The interval has passed, or Shutdown cleared running_.
WakeUp ==
    /\ spc.at = "waiting"
    /\ SaverAt("woken")
    /\ UNCHANGED <<phase, running, map, dirty, wpc, image, files, newest, saved, writes, counts>>

\* if (dirty_.exchange(false)) SaveToFile(), by either caller
ExchangeDirty ==
    /\ spc.at = "woken"
    /\ dirty' = FALSE
    /\ SaverAt(IF dirty THEN "backup" ELSE Finished)
    /\ IF dirty THEN UNCHANGED phase ELSE EndPhase
    /\ UNCHANGED <<running, map, wpc, image, files, newest, saved, writes, counts>>

-----------------------------------------------------------------------------
(* SaveToFile *)

NoBackup ==
    /\ spc.at = "backup"
    /\ SaverAt("collect")
    /\ UNCHANGED <<phase, running, map, dirty, wpc, image, files, newest, saved, writes, counts>>

\* The old file, if there is one, becomes the backup; a failed rename goes
\* unnoticed.
RenameToBackup ==
    /\ spc.at = "backup"
    /\ SaverAt("collect")
    /\ \/ /\ IF main.state = "none" THEN UNCHANGED files ELSE bak' = main /\ main' = NoFile
          /\ UNCHANGED faults
       \/ Fault /\ UNCHANGED files
    /\ UNCHANGED <<phase, running, map, dirty, wpc, image, newest, saved, writes, crashes, stops>>

Collect ==
    /\ spc.at = "collect"
    /\ SaverAt("open")
    /\ image' = map
    /\ UNCHANGED <<phase, running, map, dirty, wpc, files, newest, saved, writes, counts>>

\* The ofstream creates or truncates the file, or fails to.
OpenFile ==
    /\ spc.at = "open"
    /\ \/ SaverAt("write") /\ main' = Parses(NoEntries) /\ UNCHANGED <<phase, faults>>
       \/ Fault /\ SaverAt(Finished) /\ EndPhase /\ UNCHANGED main
    /\ UNCHANGED <<running, map, dirty, wpc, image, bak, newest, saved, writes, crashes, stops>>

\* What a write of image that was cut short leaves behind.
PartOfImage ==
    {TornFile} \union {Parses([t \in Tag |-> IF t \in T THEN image[t] ELSE 0]) : T \in SUBSET Tag}

ClearFlagAfterSave ==
    /\ spc.at = "write"
    /\ main' = Parses(image) /\ saved' = image /\ dirty' = FALSE
    /\ SaverAt(Finished) /\ EndPhase
    /\ UNCHANGED <<running, map, wpc, image, bak, newest, writes, counts>>

WriteFile ==
    /\ spc.at = "write"
    /\ \/ main' = Parses(image) /\ saved' = image /\ UNCHANGED faults
       \/ Fault /\ main' \in PartOfImage /\ UNCHANGED saved
    /\ SaverAt(Finished) /\ EndPhase
    /\ UNCHANGED <<running, map, dirty, wpc, image, bak, newest, writes, crashes, stops>>

-----------------------------------------------------------------------------
(* Shutdown. StorageEngine::Close calls it when no handler is active. *)

\* running_ = false needs save_mutex_, which the thread holds while it saves.
ClearRunning ==
    /\ phase = "running" /\ spc.at \in {"starting", "waiting"}
    /\ \A w \in Writer : wpc[w] = "idle"
    /\ stops < MaxStops
    /\ stops' = stops + 1
    /\ phase' = "stopping" /\ running' = FALSE
    /\ UNCHANGED <<map, dirty, wpc, spc, image, files, newest, saved, writes, crashes, faults>>

\* The join returns; Shutdown does the last dirty_.exchange itself.
SkipLastSave ==
    /\ spc.at = "exited"
    /\ spc' = [at |-> "off", by |-> "shutdown"]
    /\ phase' = "down"
    /\ UNCHANGED <<running, map, dirty, wpc, image, files, newest, saved, writes, counts>>

Joined ==
    /\ spc.at = "exited"
    /\ spc' = [at |-> "woken", by |-> "shutdown"]
    /\ UNCHANGED <<phase, running, map, dirty, wpc, image, files, newest, saved, writes, counts>>

-----------------------------------------------------------------------------
\* The process dies; a file that is being written is cut short.
Crash ==
    /\ phase # "down" /\ crashes < MaxCrashes
    /\ crashes' = crashes + 1
    /\ IF spc.at = "write" THEN main' \in PartOfImage ELSE UNCHANGED main
    /\ phase' = "down" /\ running' = FALSE
    /\ map' = NoEntries /\ dirty' = FALSE
    /\ wpc' = [w \in Writer |-> "idle"]
    /\ spc' = [at |-> "off", by |-> "loop"]
    /\ image' = NoEntries
    /\ UNCHANGED <<bak, newest, saved, writes, faults, stops>>

SaverStep ==
    \/ EnterLoop \/ WakeUp \/ ExchangeDirty
    \/ RenameToBackup \/ Collect \/ OpenFile \/ WriteFile \/ Joined

Next ==
    \/ StartUp
    \/ \E w \in Writer : SetDirty(w) \/ \E t \in Tag : StoreEntry(w, t)
    \/ SaverStep
    \/ ClearRunning \/ Crash

Spec == Init /\ [][Next]_vars

\* The saving thread and the handlers are scheduled, and wait_for times out.
FairSpec == Spec /\ WF_vars(SaverStep) /\ \A w \in Writer : WF_vars(SetDirty(w))

-----------------------------------------------------------------------------
(* Properties *)

AtLeast(e, f) == \A t \in Tag : e[t] >= f[t]

\* After nothing but clean shutdowns, the next Init loads exactly the last
\* write to every tag: none falls between the thread's last save and the join.
CleanShutdownSaves == phase = "down" /\ crashes + faults = 0 => Loadable = newest

\* Wherever the first crash hits, one of the two files holds all of the last
\* completed save.
OneFileHoldsSave ==
    crashes + faults = 0 /\ saved # NoEntries =>
        \E f \in {main, bak} : f.state = "parses" /\ AtLeast(f.entries, saved)

\* No update is lost between the flag and the map: what a handler stored gets
\* into the file, or is lost in a crash, or in a save that fails: SaveLoop has
\* cleared the flag by then and does not try again.
WrittenIsSaved ==
    \A t \in Tag, v \in 1 .. MaxWrites :
        (map[t] = v) ~> (main.entries[t] >= v \/ crashes + faults > 0)

\* Shutdown returns.
ShutdownReturns == phase = "stopping" ~> phase = "down"

\* How far Shutdown has come: the saving thread's last round, then its own.
Stage ==
    (IF spc.by = "shutdown" THEN 7 ELSE 0) +
    CASE spc.at \in {"starting", "waiting"} -> 0
      [] spc.at = "woken"   -> 1
      [] spc.at = "backup"  -> 2
      [] spc.at = "collect" -> 3
      [] spc.at = "open"    -> 4
      [] spc.at = "write"   -> 5
      [] spc.at = "exited"  -> 6

\* Once Shutdown has cleared running_, each step of the saving thread and of
\* Shutdown's own save brings it nearer to its end, whether calls fail or not:
\* at most one more round of the thread, and one save after it. (This is what
\* makes ShutdownReturns hold; it is proved, and no run lists it.)
ShutdownAdvances ==
    [][phase = "stopping" =>
           \/ phase' = "down"
           \/ IF SaverStep THEN phase' = "stopping" /\ Stage' > Stage ELSE UNCHANGED <<phase, spc>>]_vars

-----------------------------------------------------------------------------
(* The abstract specification *)

\* From the rename to the end of the write nothing is held, and from Collect on
\* pb_file is the map of one moment.
Replacing == {"collect", "open", "write"}

Saved == INSTANCE SavedMap WITH
    Value <- 0 .. MaxWrites,
    up <- phase # "down",
    memory <- map,
    stage <- IF spc.at \notin Replacing THEN "none" ELSE IF spc.at = "collect" THEN "begun" ELSE "taken",
    held <- IF spc.at \in Replacing THEN NoEntries ELSE Loadable,
    failed <- faults > 0

\* However handlers, the saving thread, Shutdown, crashes and failing calls
\* interleave: a start finds exactly the map of one moment of the last save,
\* unless a crash or a failing call hit the files while they were replaced, and
\* Shutdown does not return before everything is saved, unless a call failed.
ImplementsSavedMap == Saved!Spec

-----------------------------------------------------------------------------
(* The inductive invariants behind these properties. *)

\* Handlers run only in a running process. Shutdown clears running_ before it
\* joins, and does its own save afterwards, the flag being cleared by then.
InSave == {"backup", "collect", "open", "write"}

PhaseInv ==
    /\ phase = "down" <=> spc.at = "off"
    /\ phase # "running" => \A w \in Writer : wpc[w] = "idle"
    /\ spc.by = "shutdown" \/ spc.at = "exited" => phase # "running"
    /\ spc.by = "shutdown" /\ spc.at \in InSave => ~dirty

\* Shutdown does its save itself and returns, it does not enter the loop.
LastSaveInv == spc.by = "shutdown" => spc.at \in InSave \union {"woken", "off"}

\* Before the first crash or fault, what is in memory and neither in the file
\* nor in the image on its way there is announced by the flag, or about to be.
Unannounced == ~dirty /\ \A w \in Writer : wpc[w] = "idle"

SavedInv ==
    crashes + faults = 0 =>
        /\ main.state # "torn"
        /\ phase # "down" => map = newest
        /\ phase = "down" => main.entries = newest
        /\ Unannounced /\ phase # "down" =>
               /\ spc.at \notin InSave => main.entries = map
               /\ spc.at \in {"open", "write"} => image = map

\* The same, after any crashes: what is neither announced nor about to be is what
\* a start would load or, while the file is replaced, in the image.
AnnouncedInv ==
    faults = 0 /\ Unannounced /\ phase # "down" =>
        /\ spc.at \notin InSave => Loadable = map
        /\ spc.at \in {"open", "write"} => image = map

\* The last completed save is in snapshot.pb or, from the rename to the end of
\* the next one, in its backup.
BackupInv ==
    crashes + faults = 0 /\ saved # NoEntries =>
        IF spc.at \in InSave \ {"backup"} THEN bak = Parses(saved) ELSE main = Parses(saved)
=============================================================================
