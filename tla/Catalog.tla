------------------------------- MODULE Catalog -------------------------------
(***************************************************************************)
(* The statements of src/sql/executor.cpp and the Insert call of           *)
(* src/server/grpc_server.cpp, run by concurrent handlers, on what they    *)
(* share: the directories that stand for databases, tables and tags, the   *)
(* points of the storage engine, its LatestCache and that of the server.   *)
(*                                                                         *)
(* Every request gets an Executor of its own, so current_db_ is always the *)
(* empty name when a statement runs and USE changes nothing that lasts.    *)
(* Paths are relative to hot_path; empty components vanish, as in the file *)
(* system. CreateDirectories is one step; RemoveAll takes one for every    *)
(* directory it lists and one for every directory or file it removes. A    *)
(* StorageEngine::Write is one step: its own interleavings are the subject *)
(* of StorageEngine. No call fails but for a directory that is gone or not *)
(* empty, and a flush is one step, its CreateDirectories and its Open      *)
(* together (TierManager has the two). Nothing creates the directories     *)
(* DropTable and DropTag look for under cold_path. The directories under   *)
(* hot/tags, one for each key, are left to files. Values are numbers: for  *)
(* a string AppendWrite throws before anything is stored.                  *)
(***************************************************************************)
EXTENDS FiniteSets, Integers, SequencesExt

CONSTANTS
    Handler,         \* gRPC handlers
    Db, Table, Tag,  \* names
    ValidName,       \* those that IsValidName accepts
    BadTag,          \* a name it does not accept
    TagList,         \* the lists of names CREATE TAGS may carry
    Date,            \* what GetCurrentDateStr may return
    Ts, Value,
    Batch,           \* the sequences of rows requests may carry
    NewPoint,        \* the tags, times and values UPDATE may carry
    NoTag, NoValue,  \* a row that has no such column
    MaxWrites, MaxDdl, MaxRestarts   \* bounds

Point == [ts : Ts, value : Value]
Row == [tag : Tag \union {NoTag}, ts : Ts, value : Value \union {NoValue}]
File == [date : Date, pts : Seq(Point) \ {<<>>}]
Name == Db \union Table \union Tag \union {"", "tables", "tags", "meta", "wal"}
Path == Seq(Name)

\* Timestamps are so close that a block gives back all it was given: every
\* delta-of-delta fits into 32 bits (see SstBlock and Compaction).
ASSUME CatalogAssumption ==
    /\ Ts \subseteq Int /\ \A s, t \in Ts : t - s < 2^30
    /\ NewPoint \subseteq [tag : Tag, ts : Ts, value : Value]
    /\ Batch \subseteq Seq(Row) /\ TagList \subseteq Seq(Tag \union {BadTag})
    /\ "" \notin Db \union Table \union Tag
    /\ BadTag \notin ValidName
    /\ NoTag \notin Tag /\ NoValue \notin Value
    /\ MaxWrites \in Nat /\ MaxDdl \in Nat /\ MaxRestarts \in Nat

VARIABLES
    dirs,         \* the directories under hot_path, those in hot/tags excepted
    mem,          \* the points in the MemTable, for each key in order of arrival
    files,        \* the files of hot/tags/<key>: their date and their points
    engineCache,  \* latest_cache_ of the engine: {} or {a point} for each key
    serverCache,  \* cache_ of the service, likewise
    pc,           \* where each handler is
    rows,         \* the rows its request still has to treat
    table,        \* the table of its statement, or "" for the Insert call
    tags,         \* the names its CREATE TAGS has yet to create
    dropping,     \* the database of its DROP DATABASE, until its directory's turn
    victim,       \* the path its RemoveAll was called for
    todo,         \* the paths listed for it and not yet looked at
    opened,       \* the directories it has listed and not yet removed
    doomed,       \* the files it has listed and not yet removed
    reply,        \* its last answer to an INSERT
    written,      \* history: points given to the engine, for each key
    overwritten,  \* history: keys of which a flush has truncated a file
    registered,   \* history: paths of tables and tags created and not dropped since
    steady,       \* history: what a handler's INSERT needs was always registered
    dropped,      \* history: databases named in a DROP DATABASE
    writes, ddl, restarts   \* history: counts, for the bounds

dataVars == <<mem, files, engineCache, serverCache, written, overwritten>>
treeVars == <<dirs, registered, dropped>>
walkVars == <<victim, todo, opened, doomed>>
insertVars == <<pc, rows, table, reply, steady>>
handlerVars == <<insertVars, tags, dropping, walkVars>>
counts == <<writes, ddl, restarts>>
vars == <<dataVars, treeVars, handlerVars, counts>>

CurrentDb == ""

\* INSERT keeps its points under the name of the tag alone, UPDATE under
\* "db:table:tag".
TagKey(g) == <<g>>
UpdateKey(t, g) == <<CurrentDb, t, g>>
Key == {TagKey(g) : g \in Tag} \union {UpdateKey(t, g) : t \in Table, g \in Tag}

-----------------------------------------------------------------------------
(* The tree *)

\* Paths in the current database, which has no name.
GetTablePath(t) == IF t = "" THEN <<"tables">> ELSE <<"tables", t>>
GetTagPath(t, g) == IF g = "" THEN <<"tables", t, "tags">> ELSE <<"tables", t, "tags", g>>

CreateDirectories(tree, path) == tree \union (Prefixes(path) \ {<<>>})

TableExists(t) == GetTablePath(t) \in dirs
TagExists(t, g) == GetTagPath(t, g) \in dirs

\* A handler's INSERT needs its table and the tags its remaining rows name.
Needs(t, rs) == {GetTablePath(t)}
                \union {GetTagPath(t, rs[i].tag) : i \in {j \in DOMAIN rs : rs[j].tag # NoTag}}

\* A RemoveAll that has not ended may yet take the path.
Threatened(path) == \E h \in Handler : pc[h] = "remove" /\ IsPrefix(victim[h], path)

Goto(h, l) == pc' = [pc EXCEPT ![h] = l]
Count == ddl < MaxDdl /\ ddl' = ddl + 1

-----------------------------------------------------------------------------
(* Statements that create *)

\* What is created under a path that is being removed does not count as
\* registered: it may go with it.
Create(path, new) ==
    /\ dirs' = CreateDirectories(dirs, path)
    /\ registered' = registered \union {p \in new : ~Threatened(p)}

CreateDatabase(d) ==
    /\ d \in ValidName
    /\ Count
    /\ Create(<<d, "tables", "tags">>, {})
    /\ UNCHANGED <<dataVars, dropped, handlerVars, writes, restarts>>

CreateTable(t) ==
    /\ t \in ValidName
    /\ Count
    /\ Create(GetTablePath(t), {GetTablePath(t)})
    /\ UNCHANGED <<dataVars, dropped, handlerVars, writes, restarts>>

ExecuteCreateTags(h, t, names) ==
    /\ pc[h] = "idle"
    /\ Count
    /\ Goto(h, "create")
    /\ table' = [table EXCEPT ![h] = t]
    /\ tags' = [tags EXCEPT ![h] = names]
    /\ steady' = [steady EXCEPT ![h] = FALSE]
    /\ UNCHANGED <<dataVars, treeVars, rows, reply, dropping, walkVars, writes, restarts>>

\* One turn of its loop, which a name that is not valid ends. The table need
\* not exist.
CreateTag(h) ==
    /\ pc[h] = "create"
    /\ IF tags[h] # <<>> /\ Head(tags[h]) \in ValidName
       THEN LET path == GetTagPath(table[h], Head(tags[h])) IN
            /\ Create(path, {path, GetTablePath(table[h])})
            /\ tags' = [tags EXCEPT ![h] = Tail(@)]
            /\ UNCHANGED <<pc, table>>
       ELSE /\ Goto(h, "idle")
            /\ tags' = [tags EXCEPT ![h] = <<>>]
            /\ table' = [table EXCEPT ![h] = ""]
            /\ UNCHANGED <<dirs, registered>>
    /\ UNCHANGED <<dataVars, dropped, rows, reply, steady, dropping, walkVars, counts>>

-----------------------------------------------------------------------------
(* Removing a directory and all below it *)

Subdirs(path) == {p \in dirs : IsPrefix(path, p) /\ Len(p) = Len(path) + 1}

FileName(f) == <<f.date, Head(f.pts).ts>>
FilesIn(path) == IF path = <<"tags">> THEN UNION {{<<k, FileName(f)>> : f \in files[k]} : k \in Key}
                 ELSE {}

\* From now on what lies under the path counts as dropped, and an INSERT that
\* needs any of it is no longer steady.
Unregister(h, path) ==
    /\ registered' = {p \in registered : ~IsPrefix(path, p)}
    /\ steady' = [i \in Handler |-> /\ i # h /\ steady[i]
                                    /\ table[i] # "" => Needs(table[i], rows[i]) \subseteq registered']

CallRemoveAll(h, path) ==
    /\ Goto(h, "remove")
    /\ victim' = [victim EXCEPT ![h] = path]
    /\ todo' = [todo EXCEPT ![h] = {path}]
    /\ UNCHANGED <<opened, doomed>>

\* Exists and ListDirectory for the next path; the deepest come first. One that
\* is gone is passed over. The files of all keys are listed with hot/tags.
Enter(h) ==
    /\ pc[h] = "remove"
    /\ \E p \in todo[h] :
         /\ \A q \in opened[h] : Len(q) < Len(p)
         /\ IF p \in dirs
            THEN /\ todo' = [todo EXCEPT ![h] = (@ \ {p}) \union Subdirs(p)]
                 /\ opened' = [opened EXCEPT ![h] = @ \union {p}]
                 /\ doomed' = [doomed EXCEPT ![h] = @ \union FilesIn(p)]
            ELSE /\ todo' = [todo EXCEPT ![h] = @ \ {p}]
                 /\ UNCHANGED <<opened, doomed>>
    /\ UNCHANGED <<dataVars, treeVars, insertVars, tags, dropping, victim, counts>>

RemoveFile(h) ==
    /\ pc[h] = "remove"
    /\ \E f \in doomed[h] :
         /\ files' = [files EXCEPT ![f[1]] = {g \in @ : FileName(g) # f[2]}]
         /\ doomed' = [doomed EXCEPT ![h] = @ \ {f}]
    /\ UNCHANGED <<mem, engineCache, serverCache, written, overwritten, treeVars, insertVars, tags,
                   dropping, victim, todo, opened, counts>>

\* rmdir, when all that was listed has had its turn: it takes the directory
\* only if nothing was put there since. Its result is ignored.
RemoveDir(h) ==
    /\ pc[h] = "remove"
    /\ doomed[h] = {}
    /\ \E p \in opened[h] :
         /\ \A q \in opened[h] \union todo[h] : Len(q) <= Len(p)
         /\ dirs' = IF Subdirs(p) = {} /\ FilesIn(p) = {} THEN dirs \ {p} ELSE dirs
         /\ opened' = [opened EXCEPT ![h] = @ \ {p}]
    /\ UNCHANGED <<dataVars, registered, dropped, insertVars, tags, dropping, victim, todo, doomed, counts>>

\* RemoveAll returns: DROP DATABASE and UPDATE go on.
EndRemoval(h) ==
    /\ pc[h] = "remove"
    /\ todo[h] = {} /\ opened[h] = {}
    /\ Goto(h, IF dropping[h] # "" THEN "drop" ELSE IF table[h] # "" THEN "update" ELSE "idle")
    /\ victim' = [victim EXCEPT ![h] = <<>>]
    /\ UNCHANGED <<dataVars, treeVars, rows, table, reply, steady, tags, dropping, todo, opened, doomed,
                   counts>>

-----------------------------------------------------------------------------
(* Statements that remove *)

ExecuteDropTable(h, t) ==
    /\ pc[h] = "idle"
    /\ Count
    /\ CallRemoveAll(h, GetTablePath(t))
    /\ Unregister(h, GetTablePath(t))
    /\ UNCHANGED <<dataVars, dirs, dropped, rows, table, reply, tags, dropping, writes, restarts>>

DropTagAndTable(h, t, g) ==
    /\ pc[h] = "idle"
    /\ Count
    /\ CallRemoveAll(h, GetTablePath(t))
    /\ Unregister(h, GetTagPath(t, g))
    /\ UNCHANGED <<dataVars, dirs, dropped, rows, table, reply, tags, dropping, writes, restarts>>

\* StorageEngine::DropTag: the tag is no longer registered, its points stay.
\* Without a tag it takes the directory of all of them.
DropTag(h, t, g) ==
    /\ pc[h] = "idle"
    /\ Count
    /\ CallRemoveAll(h, GetTagPath(t, g))
    /\ Unregister(h, GetTagPath(t, g))
    /\ UNCHANGED <<dataVars, dirs, dropped, rows, table, reply, tags, dropping, writes, restarts>>

ExecuteDropTag(h, t, g) == g # "" /\ DropTag(h, t, g)

\* DELETE uses neither its range of timestamps nor the points of the tag; a
\* WHERE that names no tag leaves the name empty.
ExecuteDelete(h, t, g) == DropTag(h, t, g)

\* UPDATE drops the tag first; its point waits in rows.
ExecuteUpdate(h, t, r) ==
    /\ pc[h] = "idle"
    /\ Count
    /\ CallRemoveAll(h, GetTagPath(t, r.tag))
    /\ Unregister(h, GetTagPath(t, r.tag))
    /\ table' = [table EXCEPT ![h] = t]
    /\ rows' = [rows EXCEPT ![h] = <<r>>]
    /\ UNCHANGED <<dataVars, dirs, dropped, reply, tags, dropping, writes, restarts>>

\* DROP DATABASE, first call: the tables of the current database, which is
\* the unnamed one, whatever database the statement names.
DropDatabase(h, d) ==
    /\ pc[h] = "idle"
    /\ Count
    /\ CallRemoveAll(h, GetTablePath(""))
    /\ Unregister(h, GetTablePath(""))
    /\ dropping' = [dropping EXCEPT ![h] = d]
    /\ dropped' = dropped \union {d}
    /\ UNCHANGED <<dataVars, dirs, rows, table, reply, tags, writes, restarts>>

\* Second call: the directory of that name, be it a database or not.
DropDatabaseDir(h) ==
    /\ pc[h] = "drop"
    /\ CallRemoveAll(h, <<dropping[h]>>)
    /\ Unregister(h, <<dropping[h]>>)
    /\ dropping' = [dropping EXCEPT ![h] = ""]
    /\ UNCHANGED <<dataVars, dirs, dropped, rows, table, reply, tags, counts>>

-----------------------------------------------------------------------------
(* The points *)

RowPoint(r) == [ts |-> r.ts, value |-> r.value]

Replace(latest, p) == {p}
Update(latest, p) == IF latest = {} \/ \E q \in latest : p.ts >= q.ts THEN {p} ELSE latest

\* StorageEngine::Write, up to the cache of the engine.
Write(k, p) ==
    /\ writes < MaxWrites
    /\ writes' = writes + 1
    /\ mem' = [mem EXCEPT ![k] = Append(@, p)]
    /\ written' = [written EXCEPT ![k] = @ \union {p}]
    /\ engineCache' = [engineCache EXCEPT ![k] = Update(@, p)]
    /\ UNCHANGED <<files, serverCache, overwritten>>

\* The second half of UPDATE: SELECT, which asks for the name of the tag, never
\* reads the key.
UpdatePoint(h) ==
    /\ pc[h] = "update"
    /\ Write(UpdateKey(table[h], Head(rows[h]).tag), RowPoint(Head(rows[h])))
    /\ Goto(h, "idle")
    /\ rows' = [rows EXCEPT ![h] = <<>>]
    /\ table' = [table EXCEPT ![h] = ""]
    /\ UNCHANGED <<treeVars, reply, steady, tags, dropping, walkVars, ddl, restarts>>

-----------------------------------------------------------------------------
(* INSERT and the Insert call *)

\* ExecuteInsert up to its first row.
ExecuteInsert(h, t, rs) ==
    /\ pc[h] = "idle"
    /\ rs # <<>>
    /\ steady' = [steady EXCEPT ![h] = Needs(t, rs) \subseteq registered]
    /\ IF TableExists(t)
       THEN /\ Goto(h, "row")
            /\ rows' = [rows EXCEPT ![h] = rs]
            /\ table' = [table EXCEPT ![h] = t]
            /\ reply' = [reply EXCEPT ![h] = "none"]
       ELSE UNCHANGED <<pc, rows, table>> /\ reply' = [reply EXCEPT ![h] = "error"]
    /\ UNCHANGED <<dataVars, treeVars, tags, dropping, walkVars, counts>>

\* The Insert call checks neither table nor tag.
Insert(h, rs) ==
    /\ pc[h] = "idle"
    /\ \A i \in DOMAIN rs : rs[i].tag # NoTag /\ rs[i].value # NoValue
    /\ rows' = [rows EXCEPT ![h] = rs]
    /\ reply' = [reply EXCEPT ![h] = "none"]
    /\ Goto(h, "row")
    /\ UNCHANGED <<dataVars, treeVars, table, steady, tags, dropping, walkVars, counts>>

Return(h, answer) ==
    /\ Goto(h, "idle")
    /\ reply' = [reply EXCEPT ![h] = answer]
    /\ rows' = [rows EXCEPT ![h] = <<>>]
    /\ table' = [table EXCEPT ![h] = ""]

Unknown(t, g) == t # "" /\ g # NoTag /\ ~TagExists(t, g)

\* The columns of the next row: an unknown tag ends the statement, a row
\* without a tag or a value is passed over, and at the end there is the answer.
StartRow(h) ==
    /\ pc[h] = "row"
    /\ \/ /\ rows[h] = <<>>
          /\ Return(h, "ok")
       \/ /\ rows[h] # <<>>
          /\ Unknown(table[h], Head(rows[h]).tag)
          /\ Return(h, "error")
       \/ /\ rows[h] # <<>>
          /\ ~Unknown(table[h], Head(rows[h]).tag)
          /\ IF Head(rows[h]).tag = NoTag \/ Head(rows[h]).value = NoValue
             THEN UNCHANGED pc /\ rows' = [rows EXCEPT ![h] = Tail(@)]
             ELSE Goto(h, "write") /\ UNCHANGED rows
          /\ UNCHANGED <<table, reply>>
    /\ UNCHANGED <<dataVars, treeVars, steady, tags, dropping, walkVars, counts>>

WriteRow(h) ==
    /\ pc[h] = "write"
    /\ Write(TagKey(Head(rows[h]).tag), RowPoint(Head(rows[h])))
    /\ Goto(h, "cache")
    /\ UNCHANGED <<treeVars, rows, table, reply, steady, tags, dropping, walkVars, ddl, restarts>>

CacheRow(h) ==
    LET r == Head(rows[h]) IN
    /\ pc[h] = "cache"
    /\ serverCache' = [serverCache EXCEPT ![TagKey(r.tag)] = Update(@, RowPoint(r))]
    /\ rows' = [rows EXCEPT ![h] = Tail(@)]
    /\ Goto(h, "row")
    /\ UNCHANGED <<mem, files, engineCache, written, overwritten, treeVars, table, reply, steady, tags,
                   dropping, walkVars, counts>>

-----------------------------------------------------------------------------
(* The engine behind the statements *)

FlushOverwrites(k, d) ==
    /\ mem[k] # <<>>
    /\ LET new == [date |-> d, pts |-> mem[k]] IN
       /\ files' = [files EXCEPT ![k] = {f \in @ : f.date # d} \union {new}]
       /\ overwritten' = IF \E f \in files[k] : FileName(f) = FileName(new) THEN overwritten \union {k}
                         ELSE overwritten
    /\ mem' = [mem EXCEPT ![k] = <<>>]
    /\ dirs' = CreateDirectories(dirs, <<"tags">>)
    /\ UNCHANGED <<engineCache, serverCache, written, registered, dropped, handlerVars, counts>>

\* The flush callback, which also creates hot/tags/<key>. Its file is named
\* after the date and the first point; one of that name is truncated.
Flush(k, d) ==
    /\ mem[k] # <<>>
    /\ LET new == [date |-> d, pts |-> mem[k]] IN
       /\ files' = [files EXCEPT ![k] = {f \in @ : FileName(f) # FileName(new)} \union {new}]
       /\ overwritten' = IF \E f \in files[k] : FileName(f) = FileName(new) THEN overwritten \union {k}
                         ELSE overwritten
    /\ mem' = [mem EXCEPT ![k] = <<>>]
    /\ dirs' = CreateDirectories(dirs, <<"tags">>)
    /\ UNCHANGED <<engineCache, serverCache, written, registered, dropped, handlerVars, counts>>

\* A crash and the next start. Init restores the MemTable from the log (see
\* StorageEngine) and creates its directories; both caches start empty.
Restart ==
    /\ restarts < MaxRestarts
    /\ restarts' = restarts + 1
    /\ dirs' = dirs \union {<<"meta">>, <<"tags">>, <<"wal">>}
    /\ engineCache' = [k \in Key |-> {}]
    /\ serverCache' = [k \in Key |-> {}]
    /\ pc' = [h \in Handler |-> "idle"]
    /\ reply' = [h \in Handler |-> "none"]
    /\ rows' = [h \in Handler |-> <<>>]
    /\ tags' = [h \in Handler |-> <<>>]
    /\ table' = [h \in Handler |-> ""] /\ dropping' = table'
    /\ victim' = [h \in Handler |-> <<>>]
    /\ todo' = [h \in Handler |-> {}] /\ opened' = todo' /\ doomed' = todo'
    /\ steady' = [h \in Handler |-> FALSE]
    /\ UNCHANGED <<mem, files, written, overwritten, registered, dropped, writes, ddl>>

Init ==
    /\ dirs = {<<"meta">>, <<"tags">>, <<"wal">>}
    /\ mem = [k \in Key |-> <<>>]
    /\ files = [k \in Key |-> {}] /\ written = files
    /\ engineCache = files /\ serverCache = files
    /\ overwritten = {}
    /\ pc = [h \in Handler |-> "idle"]
    /\ rows = [h \in Handler |-> <<>>]
    /\ tags = [h \in Handler |-> <<>>]
    /\ table = [h \in Handler |-> ""] /\ dropping = table
    /\ victim = [h \in Handler |-> <<>>]
    /\ todo = [h \in Handler |-> {}] /\ opened = todo /\ doomed = todo
    /\ reply = [h \in Handler |-> "none"]
    /\ registered = {} /\ dropped = {}
    /\ steady = [h \in Handler |-> FALSE]
    /\ writes = 0 /\ ddl = 0 /\ restarts = 0

Ddl ==
    \/ \E d \in Db : CreateDatabase(d)
    \/ \E t \in Table : CreateTable(t)
    \/ \E h \in Handler :
         \/ \E d \in Db : DropDatabase(h, d)
         \/ \E t \in Table :
              \/ ExecuteDropTable(h, t)
              \/ \E names \in TagList : ExecuteCreateTags(h, t, names)
              \/ \E g \in Tag \union {""} : ExecuteDropTag(h, t, g) \/ ExecuteDelete(h, t, g)
              \/ \E r \in NewPoint : ExecuteUpdate(h, t, r)

DdlStep(h) ==
    \/ CreateTag(h)
    \/ Enter(h) \/ RemoveFile(h) \/ RemoveDir(h) \/ EndRemoval(h)
    \/ DropDatabaseDir(h) \/ UpdatePoint(h)

Next ==
    \/ Ddl
    \/ \E h \in Handler :
         \/ DdlStep(h)
         \/ StartRow(h) \/ WriteRow(h) \/ CacheRow(h)
         \/ \E rs \in Batch : Insert(h, rs) \/ \E t \in Table : ExecuteInsert(h, t, rs)
    \/ \E k \in Key, d \in Date : Flush(k, d)
    \/ Restart

Spec == Init /\ [][Next]_vars

\* The range in the index of a file is that of its first and its last point in
\* order of arrival; a reader passes over the block if it has nothing in common
\* with what is asked for.
Overlaps(f, a, b) == Head(f.pts).ts <= b /\ a <= Last(f.pts).ts
ReadRange(f, a, b) == IF Overlaps(f, a, b) THEN {p \in ToSet(f.pts) : a <= p.ts /\ p.ts <= b} ELSE {}

\* The timestamps StorageEngine::ReadRaw returns: those of the cached point and
\* of the points in the files. Points that are only in the MemTable are not
\* among them. Of points with one timestamp any may be returned, since
\* std::sort is not stable, and the files may add to them (see SstBlock).
ReadRaw(k, a, b) ==
    {p.ts : p \in {q \in engineCache[k] : a <= q.ts /\ q.ts <= b}
                 \union UNION {ReadRange(f, a, b) : f \in files[k]}}

\* SELECT LATEST asks the cache of the server for a tag.
SelectLatest(k) == serverCache[k]

-----------------------------------------------------------------------------
(* Properties *)

\* Each cache has at most one point for a key, the engine's is one that was
\* written, and what a handler writes names a tag and a value.
TypeOK ==
    /\ mem \in [Key -> Seq(Point)] /\ files \in [Key -> SUBSET File]
    /\ engineCache \in [Key -> SUBSET Point] /\ serverCache \in [Key -> SUBSET Point]
    /\ written \in [Key -> SUBSET Point]
    /\ \A k \in Key :
         /\ engineCache[k] \subseteq written[k]
         /\ \A p, q \in engineCache[k] : p = q
         /\ \A p, q \in serverCache[k] : p = q
    /\ pc \in [Handler -> {"idle", "row", "write", "cache", "create", "remove", "update", "drop"}]
    /\ rows \in [Handler -> Seq(Row)] /\ tags \in [Handler -> Seq(Tag \union {BadTag})]
    /\ table \in [Handler -> Table \union {""}] /\ dropping \in [Handler -> Db \union {""}]
    /\ reply \in [Handler -> {"none", "ok", "error"}] /\ steady \in [Handler -> BOOLEAN]
    /\ \A h \in Handler :
         /\ pc[h] \in {"write", "cache", "update"} \/ (pc[h] = "remove" /\ table[h] # "") =>
              rows[h] # <<>> /\ Head(rows[h]).tag \in Tag /\ Head(rows[h]).value \in Value
         /\ pc[h] \in {"idle", "drop"} => table[h] = ""
         /\ pc[h] \in {"create", "update"} => table[h] # ""
         /\ dropping[h] # "" => pc[h] \in {"remove", "drop"} /\ table[h] = ""
         /\ pc[h] = "drop" => dropping[h] # ""
    /\ dirs \subseteq Path
    /\ victim \in [Handler -> Path] /\ todo \in [Handler -> SUBSET Path]
    /\ opened \in [Handler -> SUBSET Path]
    /\ doomed \in [Handler -> SUBSET (Key \X (Date \X Ts))]

\* The engine and the server each keep a cache of latest values and SELECT
\* LATEST asks the one, SELECT the other. Two handlers may update them in
\* opposite orders, and still they agree on a tag as soon as no handler is
\* between its two updates, unless a timestamp was written with two values.
CachesAgree ==
    \A g \in Tag :
        LET k == TagKey(g) IN
        /\ \A h \in Handler : pc[h] = "cache" => Head(rows[h]).tag # g
        /\ \A p, q \in written[k] : p.ts = q.ts => p = q
        => engineCache[k] = SelectLatest(k)

\* A raw query finds the timestamp of every point that was ever inserted and
\* has left the MemTable, across flushes, restarts and whatever was dropped,
\* except a database named like the directory of the data. That takes that no
\* flush of the key has reused the name of a file, and either that its points
\* came in order within every file or that the query asks for all of them.
\* And a raw query is never behind SELECT LATEST.
Ascending(f) == \A i, j \in DOMAIN f.pts : i <= j => f.pts[i].ts <= f.pts[j].ts
Spans(k, a, b) == \A q \in written[k] : a <= q.ts /\ q.ts <= b

RawFinds ==
    "tags" \notin dropped =>
        \A k \in Key :
            /\ k \notin overwritten =>
                 \A p \in written[k] \ ToSet(mem[k]) : \A a, b \in Ts :
                     /\ a <= p.ts /\ p.ts <= b
                     /\ Spans(k, a, b) \/ \A f \in files[k] : Ascending(f)
                     => p.ts \in ReadRaw(k, a, b)
            /\ \A p \in SelectLatest(k) : \E b \in Ts : ReadRaw(k, p.ts, b) # {}

\* An INSERT is turned down only if its table or one of its tags was missing at
\* some time while it ran: not created, or only while it was being dropped;
\* dropped by a statement that named it (DELETE and UPDATE do that too); or gone
\* with some DROP DATABASE. What other handlers do to other tables and tags,
\* and how far a removal of those has got, has no bearing on it.
RejectedOnlyIfMissing == \A h \in Handler : reply[h] = "error" => ~steady[h]

-----------------------------------------------------------------------------
(* The inductive invariants behind these properties. *)

\* The cache of the server is never ahead of that of the engine, and what it
\* lacks a handler between its two updates is about to put in.
Pending(h, g) == pc[h] = "cache" /\ Head(rows[h]).tag = g

CacheInv ==
    /\ \A k \in Key : \A q \in serverCache[k] :
         q \in written[k] /\ \E p \in engineCache[k] : p.ts >= q.ts
    /\ \A g \in Tag :
         /\ \A h \in Handler : Pending(h, g) =>
              /\ RowPoint(Head(rows[h])) \in written[TagKey(g)]
              /\ \E p \in engineCache[TagKey(g)] : p.ts >= Head(rows[h]).ts
         /\ \A p \in engineCache[TagKey(g)] :
              \/ \E q \in serverCache[TagKey(g)] : q.ts >= p.ts
              \/ \E h \in Handler : Pending(h, g) /\ Head(rows[h]).ts = p.ts

\* Only DROP DATABASE tags and a flush that reuses a name take a point away.
FilePoints(k) == UNION {ToSet(f.pts) : f \in files[k]}

StoredInv ==
    \A k \in Key : /\ FilePoints(k) \union ToSet(mem[k]) \subseteq written[k]
                   /\ "tags" \notin dropped /\ k \notin overwritten =>
                        written[k] \subseteq ToSet(mem[k]) \union FilePoints(k)

\* RemoveAll lists hot/tags only for DROP DATABASE tags.
DoomedInv ==
    "tags" \notin dropped => \A h \in Handler :
        /\ doomed[h] = {} /\ dropping[h] # "tags"
        /\ pc[h] = "remove" => victim[h] # <<>> /\ Head(victim[h]) # "tags"

\* A RemoveAll looks at nothing but what lies under the path it was called for,
\* what counts as registered has its directory, which none of them looks at,
\* and a statement that is still steady needs only what is registered.
TreeInv ==
    /\ \A h \in Handler : IF pc[h] = "remove"
                          THEN \A p \in todo[h] \union opened[h] : IsPrefix(victim[h], p)
                          ELSE opened[h] = {}
    /\ \A p \in registered : p \in dirs /\ ~Threatened(p)
    /\ \A h \in Handler : steady[h] /\ table[h] # "" => Needs(table[h], rows[h]) \subseteq registered
=============================================================================
