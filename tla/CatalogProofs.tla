---------------------------- MODULE CatalogProofs ----------------------------
(***************************************************************************)
(* Type correctness of Catalog, the agreement of its two caches, what raw  *)
(* queries find and when an INSERT is turned down, for any names, points,  *)
(* batches and handlers.                                                   *)
(***************************************************************************)
EXTENDS Catalog, TLAPS

-----------------------------------------------------------------------------
(* Names, keys and points *)

LEMMA Names == "" \notin Table /\ "" \notin Tag /\ "" \notin Db
  BY CatalogAssumption

LEMMA Singles ==
    /\ \A x, y : <<x>> = <<y>> => x = y
    /\ \A x, y, z : <<x>> # <<y, z>>
  OBVIOUS

LEMMA Keys ==
    /\ \A g \in Tag : TagKey(g) \in Key
    /\ \A t \in Table, g \in Tag : UpdateKey(t, g) \in Key
    /\ \A f, g \in Tag : TagKey(f) = TagKey(g) => f = g
    /\ \A t \in Table, f, g \in Tag : UpdateKey(t, f) # TagKey(g)
  <1>1. \A x, y, z, u : <<x, y, z>> # <<u>>
    OBVIOUS
  <1> QED
    BY <1>1, Singles DEF TagKey, UpdateKey, Key

LEMMA RowTypes ==
    ASSUME NEW r \in Row
    PROVE  /\ r.ts \in Ts /\ r.tag \in Tag \union {NoTag} /\ r.value \in Value \union {NoValue}
           /\ RowPoint(r).ts = r.ts
           /\ r.value \in Value => RowPoint(r) \in Point
  BY DEF Row, RowPoint, Point

LEMMA Times == Ts \subseteq Int /\ \A p \in Point : p.ts \in Int
  BY CatalogAssumption DEF Point

\* LatestCache::Update keeps one point, the newer of the two.
LEMMA UpdateFacts ==
    ASSUME NEW latest \in SUBSET Point, \A x, y \in latest : x = y, NEW p \in Point
    PROVE  /\ Update(latest, p) \in SUBSET Point
           /\ Update(latest, p) \subseteq latest \union {p}
           /\ \A x, y \in Update(latest, p) : x = y
           /\ \A q \in latest \union {p} : \E x \in Update(latest, p) : x.ts >= q.ts
           /\ \A x \in Update(latest, p) : x = p \/ x \in latest
  BY Times DEF Update

-----------------------------------------------------------------------------
(* Paths *)

LEMMA PrefixElements ==
    ASSUME NEW s \in Path, NEW t \in Path
    PROVE  IsPrefix(s, t) <=> Len(s) <= Len(t) /\ \A i \in 1 .. Len(s) : s[i] = t[i]
  <1>1. s \in Seq(Name) /\ t \in Seq(Name) /\ Len(s) \in Nat /\ Len(t) \in Nat
    BY DEF Path
  <1>2. ASSUME Len(s) <= Len(t)
        PROVE  /\ Len(SubSeq(s, 1, Len(s))) = Len(s) /\ Len(SubSeq(t, 1, Len(s))) = Len(s)
               /\ \A i \in 1 .. Len(s) : SubSeq(s, 1, Len(s))[i] = s[i] /\ SubSeq(t, 1, Len(s))[i] = t[i]
               /\ SubSeq(s, 1, Len(s)) \in Seq(Name) /\ SubSeq(t, 1, Len(s)) \in Seq(Name)
    BY <1>1, <1>2
  <1>3. ASSUME NEW u \in Seq(Name), NEW v \in Seq(Name), Len(u) = Len(v),
               \A i \in 1 .. Len(u) : u[i] = v[i]
        PROVE  u = v
    BY <1>3
  <1> QED
    BY <1>1, <1>2, <1>3 DEF IsPrefix

LEMMA PrefixOfSelf == ASSUME NEW s \in Path PROVE IsPrefix(s, s)
  BY PrefixElements DEF Path

LEMMA PrefixTransitive ==
    ASSUME NEW s \in Path, NEW t \in Path, NEW u \in Path, IsPrefix(s, t), IsPrefix(t, u)
    PROVE  IsPrefix(s, u)
  <1>1. Len(s) \in Nat /\ Len(t) \in Nat /\ Len(u) \in Nat
    BY DEF Path
  <1>2. Len(s) <= Len(t) /\ Len(t) <= Len(u)
    BY PrefixElements
  <1>3. \A i \in 1 .. Len(s) : i \in 1 .. Len(t) /\ s[i] = t[i]
    BY <1>1, <1>2, PrefixElements
  <1>4. \A i \in 1 .. Len(t) : t[i] = u[i]
    BY PrefixElements
  <1> QED
    BY <1>1, <1>2, <1>3, <1>4, PrefixElements

LEMMA CreatedTyped ==
    ASSUME NEW tree \in SUBSET Path, NEW path \in Path
    PROVE  CreateDirectories(tree, path) \in SUBSET Path /\ tree \subseteq CreateDirectories(tree, path)
  <1>1. path \in Seq(Name) /\ Len(path) \in Nat
    BY DEF Path
  <1>2. \A l \in 0 .. Len(path) : SubSeq(path, 1, l) \in Seq(Name)
    BY <1>1
  <1> QED
    BY <1>2 DEF CreateDirectories, Prefixes, Path

LEMMA Tuples ==
    ASSUME NEW S, NEW a \in S, NEW b \in S, NEW c \in S, NEW d \in S
    PROVE  /\ <<>> \in Seq(S) /\ <<a>> \in Seq(S) /\ <<a, b>> \in Seq(S)
           /\ <<a, b, c>> \in Seq(S) /\ <<a, b, c, d>> \in Seq(S)
  OBVIOUS

LEMMA PathTypes ==
    /\ \A t \in Table \union {""} : GetTablePath(t) \in Path
    /\ \A t \in Table, g \in Tag \union {""} : GetTagPath(t, g) \in Path
    /\ \A d \in Db \union {""} : <<d>> \in Path
  <1>1. \A x \in Name : <<x>> \in Path /\ <<"tables", x>> \in Path /\ <<"tables", x, "tags">> \in Path
    BY Tuples DEF Path, Name
  <1>2. \A x, y \in Name : <<"tables", x, "tags", y>> \in Path
    BY Tuples DEF Path, Name
  <1>3. Table \subseteq Name /\ Tag \subseteq Name /\ Db \subseteq Name /\ "" \in Name
    BY DEF Name
  <1>4. ASSUME NEW t \in Table \union {""} PROVE GetTablePath(t) \in Path
    <2>1. <<"tables">> \in Path /\ <<"tables", t>> \in Path
      BY <1>1, <1>3, Tuples DEF Path, Name
    <2> QED
      BY <2>1 DEF GetTablePath
  <1>5. ASSUME NEW t \in Table, NEW g \in Tag \union {""} PROVE GetTagPath(t, g) \in Path
    BY <1>1, <1>2, <1>3 DEF GetTagPath
  <1>6. ASSUME NEW d \in Db \union {""} PROVE <<d>> \in Path
    BY <1>1, <1>3
  <1> QED
    BY <1>4, <1>5, <1>6

LEMMA CreatedTable ==
    ASSUME NEW t \in Table, NEW tree
    PROVE  GetTablePath(t) \in CreateDirectories(tree, GetTablePath(t))
  <1>1. GetTablePath(t) = <<"tables", t>>
    BY Names DEF GetTablePath
  <1>2. \A a : <<"tables", a>> \in Prefixes(<<"tables", a>>) /\ <<"tables", a>> # <<>>
    BY DEF Prefixes
  <1> QED
    BY <1>1, <1>2 DEF CreateDirectories

LEMMA Created ==
    ASSUME NEW t \in Table, NEW g \in Tag, NEW tree
    PROVE  /\ GetTablePath(t) \in CreateDirectories(tree, GetTagPath(t, g))
           /\ GetTagPath(t, g) \in CreateDirectories(tree, GetTagPath(t, g))
  <1>1. GetTablePath(t) = <<"tables", t>> /\ GetTagPath(t, g) = <<"tables", t, "tags", g>>
    BY Names DEF GetTablePath, GetTagPath
  <1>2. \A a, b : /\ <<"tables", a>> \in Prefixes(<<"tables", a, "tags", b>>)
                  /\ <<"tables", a, "tags", b>> \in Prefixes(<<"tables", a, "tags", b>>)
                  /\ <<"tables", a, "tags", b>> # <<>>
    BY DEF Prefixes
  <1>3. \A a : <<"tables", a>> # <<>>
    OBVIOUS
  <1> QED
    BY <1>1, <1>2, <1>3 DEF CreateDirectories

-----------------------------------------------------------------------------
(* Type correctness *)

PointsOK ==
    /\ mem \in [Key -> Seq(Point)] /\ files \in [Key -> SUBSET File]
    /\ engineCache \in [Key -> SUBSET Point] /\ serverCache \in [Key -> SUBSET Point]
    /\ written \in [Key -> SUBSET Point]
    /\ \A k \in Key :
         /\ engineCache[k] \subseteq written[k]
         /\ \A p, q \in engineCache[k] : p = q
         /\ \A p, q \in serverCache[k] : p = q

HandlerTypes ==
    /\ pc \in [Handler -> {"idle", "row", "write", "cache", "create", "remove", "update", "drop"}]
    /\ rows \in [Handler -> Seq(Row)] /\ tags \in [Handler -> Seq(Tag \union {BadTag})]
    /\ table \in [Handler -> Table \union {""}] /\ dropping \in [Handler -> Db \union {""}]
    /\ reply \in [Handler -> {"none", "ok", "error"}] /\ steady \in [Handler -> BOOLEAN]

HandlerOK(h) ==
    /\ pc[h] \in {"write", "cache", "update"} \/ (pc[h] = "remove" /\ table[h] # "") =>
         rows[h] # <<>> /\ Head(rows[h]).tag \in Tag /\ Head(rows[h]).value \in Value
    /\ pc[h] \in {"idle", "drop"} => table[h] = ""
    /\ pc[h] \in {"create", "update"} => table[h] # ""
    /\ dropping[h] # "" => pc[h] \in {"remove", "drop"} /\ table[h] = ""
    /\ pc[h] = "drop" => dropping[h] # ""

HandlersOK == HandlerTypes /\ \A h \in Handler : HandlerOK(h)

PathsOK ==
    /\ dirs \subseteq Path
    /\ victim \in [Handler -> Path] /\ todo \in [Handler -> SUBSET Path]
    /\ opened \in [Handler -> SUBSET Path]
    /\ doomed \in [Handler -> SUBSET (Key \X (Date \X Ts))]

LEMMA TypeParts == TypeOK <=> PointsOK /\ HandlersOK /\ PathsOK
  BY DEF TypeOK, PointsOK, HandlersOK, HandlerOK, HandlerTypes, PathsOK

LEMMA NextTyped == ASSUME PointsOK', HandlersOK', PathsOK' PROVE TypeOK'
  BY DEF TypeOK, PointsOK, HandlersOK, HandlerOK, HandlerTypes, PathsOK

LEMMA HandlerType == TypeOK => HandlerTypes
  BY TypeParts DEF HandlersOK

LEMMA HandlerFacts == TypeOK => \A h \in Handler : HandlerOK(h)
  BY TypeParts DEF HandlersOK

LEMMA StillPoints == TypeOK /\ UNCHANGED dataVars => PointsOK'
  BY TypeParts DEF PointsOK, dataVars

LEMMA StillPaths == TypeOK /\ UNCHANGED <<dirs, walkVars>> => PathsOK'
  BY TypeParts DEF PathsOK, walkVars

\* A step of one handler leaves the others alone.
Others(h) ==
    \A i \in Handler \ {h} : UNCHANGED <<pc[i], rows[i], table[i], reply[i], dropping[i], tags[i]>>

LEMMA StepTyped ==
    ASSUME TypeOK, NEW h \in Handler, HandlerTypes', Others(h), HandlerOK(h)'
    PROVE  HandlersOK'
  <1>1. ASSUME NEW i \in Handler, i # h PROVE HandlerOK(i)'
    BY <1>1, HandlerFacts DEF HandlerOK, Others
  <1> QED
    BY <1>1 DEF HandlersOK

LEMMA StillHandlers == TypeOK /\ UNCHANGED handlerVars => HandlersOK'
  BY TypeParts DEF HandlersOK, HandlerTypes, HandlerOK, handlerVars, insertVars

LEMMA HeadTail ==
    ASSUME NEW S, NEW s \in Seq(S), s # <<>>
    PROVE  /\ Head(s) \in S /\ Tail(s) \in Seq(S)
           /\ 1 \in DOMAIN s /\ Head(s) = s[1]
           /\ \A i \in DOMAIN Tail(s) : i + 1 \in DOMAIN s /\ Tail(s)[i] = s[i + 1]
  OBVIOUS

LEMMA NoRows == <<>> \in Seq(Row)
  OBVIOUS

-----------------------------------------------------------------------------
(* Writes, caches and flushes *)

LEMMA WriteEffect ==
    ASSUME TypeOK, NEW k \in Key, NEW p \in Point, Write(k, p)
    PROVE  /\ PointsOK'
           /\ UNCHANGED <<files, serverCache, overwritten>>
           /\ mem'[k] = Append(mem[k], p) /\ written'[k] = written[k] \union {p}
           /\ engineCache'[k] = Update(engineCache[k], p)
           /\ \A i \in Key : i # k => UNCHANGED <<mem[i], written[i], engineCache[i]>>
  <1>1. /\ engineCache[k] \in SUBSET Point /\ \A x, y \in engineCache[k] : x = y
        /\ engineCache \in [Key -> SUBSET Point] /\ mem \in [Key -> Seq(Point)]
        /\ written \in [Key -> SUBSET Point]
        /\ files \in [Key -> SUBSET File] /\ serverCache \in [Key -> SUBSET Point]
    BY TypeParts DEF PointsOK
  <1>2. /\ Update(engineCache[k], p) \in SUBSET Point
        /\ Update(engineCache[k], p) \subseteq engineCache[k] \union {p}
        /\ \A x, y \in Update(engineCache[k], p) : x = y
    BY <1>1, UpdateFacts
  <1>3. /\ UNCHANGED <<files, serverCache, overwritten>>
        /\ mem' = [mem EXCEPT ![k] = Append(mem[k], p)]
        /\ written' = [written EXCEPT ![k] = written[k] \union {p}]
        /\ engineCache' = [engineCache EXCEPT ![k] = Update(engineCache[k], p)]
    BY DEF Write
  <1>4. /\ mem'[k] = Append(mem[k], p) /\ written'[k] = written[k] \union {p}
        /\ engineCache'[k] = Update(engineCache[k], p)
        /\ \A i \in Key : i # k => UNCHANGED <<mem[i], written[i], engineCache[i]>>
    BY <1>1, <1>3
  <1>5. Append(mem[k], p) \in Seq(Point)
    BY <1>1
  <1>6. /\ engineCache' \in [Key -> SUBSET Point] /\ mem' \in [Key -> Seq(Point)]
        /\ written' \in [Key -> SUBSET Point]
    BY <1>1, <1>2, <1>3, <1>5
  <1>7. ASSUME NEW i \in Key
        PROVE  /\ engineCache'[i] \subseteq written'[i]
               /\ \A x, y \in engineCache'[i] : x = y
               /\ \A x, y \in serverCache'[i] : x = y
    BY <1>2, <1>3, <1>4, TypeParts DEF PointsOK
  <1> QED
    BY <1>1, <1>3, <1>4, <1>6, <1>7 DEF PointsOK

LEMMA FlushEffect ==
    ASSUME TypeOK, NEW k \in Key, NEW d \in Date, Flush(k, d)
    PROVE  /\ PointsOK'
           /\ mem'[k] = <<>> /\ \A i \in Key : i # k => UNCHANGED <<mem[i], files[i]>>
           /\ \E new \in File :
                /\ new.pts = mem[k]
                /\ files'[k] = {f \in files[k] : FileName(f) # FileName(new)} \union {new}
                /\ k \notin overwritten' => \A f \in files[k] : FileName(f) # FileName(new)
           /\ overwritten \subseteq overwritten'
           /\ dirs \subseteq dirs' /\ PathsOK'
           /\ UNCHANGED <<engineCache, serverCache, written, registered, dropped, handlerVars>>
  <1> DEFINE new == [date |-> d, pts |-> mem[k]]
             kept == {f \in files[k] : FileName(f) # FileName(new)}
  <1>1. mem[k] \in Seq(Point) \ {<<>>} /\ mem \in [Key -> Seq(Point)] /\ files \in [Key -> SUBSET File]
    BY TypeParts DEF Flush, PointsOK
  <1>2. new \in File /\ new.pts = mem[k]
    BY <1>1 DEF File
  <1>3. /\ files' = [files EXCEPT ![k] = kept \union {new}]
        /\ overwritten' = IF \E f \in files[k] : FileName(f) = FileName(new) THEN overwritten \union {k}
                          ELSE overwritten
        /\ mem' = [mem EXCEPT ![k] = <<>>]
        /\ dirs' = CreateDirectories(dirs, <<"tags">>)
        /\ UNCHANGED <<engineCache, serverCache, written, registered, dropped, handlerVars>>
    BY DEF Flush
  <1>4. kept \union {new} \subseteq File
    BY <1>1, <1>2
  <1>5. files' \in [Key -> SUBSET File] /\ files'[k] = kept \union {new}
    BY <1>1, <1>3, <1>4
  <1>6. /\ mem'[k] = <<>> /\ mem' \in [Key -> Seq(Point)]
        /\ \A i \in Key : i # k => UNCHANGED <<mem[i], files[i]>>
    BY <1>1, <1>3
  <1>7. k \notin overwritten' => \A f \in files[k] : FileName(f) # FileName(new)
    BY <1>3
  <1>8. overwritten \subseteq overwritten'
    BY <1>3
  <1>9. <<"tags">> \in Path
    BY Tuples DEF Path, Name
  <1>10. dirs \subseteq dirs' /\ dirs' \subseteq Path
    BY <1>3, <1>9, CreatedTyped, TypeParts DEF PathsOK
  <1>11. PathsOK'
    BY <1>3, <1>10, TypeParts DEF PathsOK, handlerVars, walkVars
  <1>12. PointsOK'
    BY <1>3, <1>5, <1>6, TypeParts DEF PointsOK
  <1> QED
    BY <1>2, <1>3, <1>5, <1>6, <1>7, <1>8, <1>10, <1>11, <1>12

-----------------------------------------------------------------------------
(* Statements that create *)

LEMMA One == ASSUME NEW x PROVE <<x>> # <<>> /\ Head(<<x>>) = x
  OBVIOUS

LEMMA EmptySeqs == \A S : <<>> \in Seq(S)
  OBVIOUS

\* What CreateDirectories does to the tree.
LEMMA CreateEffect ==
    ASSUME TypeOK, NEW path \in Path, NEW new, Create(path, new)
    PROVE  /\ dirs \subseteq dirs' /\ dirs' \subseteq Path
           /\ dirs' = CreateDirectories(dirs, path)
           /\ registered' = registered \union {p \in new : ~Threatened(p)}
  BY CreatedTyped, TypeParts DEF Create, PathsOK

LEMMA CreateTyped ==
    ASSUME TypeOK, NEW path \in Path, NEW new, Create(path, new), UNCHANGED <<dataVars, handlerVars>>
    PROVE  TypeOK'
  <1>1. dirs' \subseteq Path
    BY CreateEffect
  <1>2. PathsOK'
    BY <1>1, TypeParts DEF PathsOK, handlerVars, walkVars
  <1> QED
    BY <1>2, StillPoints, StillHandlers, NextTyped

LEMMA DatabasePath == \A d \in Db : <<d, "tables", "tags">> \in Path
  BY Tuples DEF Path, Name

LEMMA ExecuteCreateTagsEffect ==
    ASSUME TypeOK, NEW h \in Handler, NEW t \in Table, NEW names \in TagList, ExecuteCreateTags(h, t, names)
    PROVE  /\ HandlerTypes' /\ Others(h) /\ HandlerOK(h)'
           /\ pc[h] = "idle" /\ pc'[h] = "create"
           /\ UNCHANGED <<dataVars, treeVars, reply, rows, dropping, walkVars>>
           /\ ~steady'[h] /\ \A i \in Handler \ {h} : steady'[i] = steady[i]
  <1> USE HandlerType DEF HandlerTypes
  <1>1. /\ pc[h] = "idle" /\ pc' = [pc EXCEPT ![h] = "create"]
        /\ table' = [table EXCEPT ![h] = t] /\ tags' = [tags EXCEPT ![h] = names]
        /\ UNCHANGED <<dataVars, treeVars, rows, reply, dropping, walkVars>>
    BY DEF ExecuteCreateTags, Goto
  <1>2. steady' = [steady EXCEPT ![h] = FALSE]
    BY DEF ExecuteCreateTags
  <1>3. names \in Seq(Tag \union {BadTag}) /\ t # ""
    BY CatalogAssumption
  <1>4. steady' \in [Handler -> BOOLEAN] /\ ~steady'[h] /\ \A i \in Handler \ {h} : steady'[i] = steady[i]
    BY <1>2
  <1>5. HandlerTypes' /\ Others(h)
    BY <1>1, <1>3, <1>4 DEF Others
  <1>6. HandlerOK(h)'
    BY <1>1, <1>3, HandlerFacts DEF HandlerOK
  <1> QED
    BY <1>1, <1>4, <1>5, <1>6

LEMMA CreateTagEffect ==
    ASSUME TypeOK, NEW h \in Handler, CreateTag(h)
    PROVE  /\ HandlerTypes' /\ Others(h) /\ HandlerOK(h)'
           /\ pc[h] = "create" /\ pc'[h] \in {"create", "idle"}
           /\ UNCHANGED <<dataVars, dropped, reply, rows, steady, dropping, walkVars>>
           /\ \/ UNCHANGED <<dirs, registered>> /\ table'[h] = ""
              \/ /\ table[h] \in Table /\ UNCHANGED table
                 /\ \E g \in Tag : Create(GetTagPath(table[h], g), {GetTagPath(table[h], g), GetTablePath(table[h])})
  <1> USE HandlerType DEF HandlerTypes
  <1>1. pc[h] = "create" /\ UNCHANGED <<dataVars, dropped, rows, reply, steady, dropping, walkVars>>
    BY DEF CreateTag
  <1>2. table[h] \in Table /\ dropping[h] = ""
    BY <1>1, HandlerFacts DEF HandlerOK
  <1>3. CASE tags[h] # <<>> /\ Head(tags[h]) \in ValidName
    <2>1. /\ Create(GetTagPath(table[h], Head(tags[h])),
                    {GetTagPath(table[h], Head(tags[h])), GetTablePath(table[h])})
          /\ tags' = [tags EXCEPT ![h] = Tail(tags[h])] /\ UNCHANGED <<pc, table>>
      BY <1>3 DEF CreateTag
    <2>2. Head(tags[h]) \in Tag /\ Tail(tags[h]) \in Seq(Tag \union {BadTag})
      <3>1. tags[h] \in Seq(Tag \union {BadTag})
        OBVIOUS
      <3>2. Head(tags[h]) \in Tag \union {BadTag} /\ Tail(tags[h]) \in Seq(Tag \union {BadTag})
        BY <1>3, <3>1, HeadTail
      <3> QED
        BY <1>3, <3>2, CatalogAssumption
    <2>3. HandlerTypes' /\ Others(h)
      BY <1>1, <2>1, <2>2 DEF Others
    <2>4. HandlerOK(h)'
      BY <1>1, <1>2, <2>1, HandlerFacts DEF HandlerOK
    <2> QED
      BY <1>1, <1>2, <2>1, <2>2, <2>3, <2>4
  <1>4. CASE ~(tags[h] # <<>> /\ Head(tags[h]) \in ValidName)
    <2>1. /\ pc' = [pc EXCEPT ![h] = "idle"] /\ tags' = [tags EXCEPT ![h] = <<>>]
          /\ table' = [table EXCEPT ![h] = ""] /\ UNCHANGED <<dirs, registered>>
      BY <1>4 DEF CreateTag, Goto
    <2>2. <<>> \in Seq(Tag \union {BadTag})
      BY EmptySeqs
    <2>3. HandlerTypes' /\ Others(h)
      BY <1>1, <2>1, <2>2 DEF Others
    <2>4. HandlerOK(h)'
      BY <1>1, <1>2, <2>1, HandlerFacts DEF HandlerOK
    <2> QED
      BY <1>1, <2>1, <2>3, <2>4
  <1> QED
    BY <1>3, <1>4

-----------------------------------------------------------------------------
(* Statements that remove *)

LEMMA UnregisterEffect ==
    ASSUME TypeOK, NEW h \in Handler, NEW v, Unregister(h, v)
    PROVE  /\ registered' = {p \in registered : ~IsPrefix(v, p)}
           /\ steady' \in [Handler -> BOOLEAN]
           /\ \A i \in Handler : steady'[i] =>
                  i # h /\ steady[i] /\ (table[i] # "" => Needs(table[i], rows[i]) \subseteq registered')
  <1> DEFINE stays(i) == i # h /\ steady[i] /\ (table[i] # "" => Needs(table[i], rows[i]) \subseteq registered')
  <1>1. steady' = [i \in Handler |-> stays(i)]
    BY DEF Unregister
  <1>2. \A i \in Handler : stays(i) \in BOOLEAN
    OBVIOUS
  <1>3. steady' \in [Handler -> BOOLEAN]
    BY <1>1, <1>2
  <1>4. \A i \in Handler : steady'[i] =>
            i # h /\ steady[i] /\ (table[i] # "" => Needs(table[i], rows[i]) \subseteq registered')
    BY <1>1, Zenon
  <1> QED
    BY <1>3, <1>4 DEF Unregister

\* What the five statements that call RemoveAll do.
StartsRemoval(h, v) ==
    /\ v \in Path /\ v # <<>>
    /\ pc[h] \in {"idle", "drop"}
    /\ CallRemoveAll(h, v)
    /\ registered' \subseteq {p \in registered : ~IsPrefix(v, p)}
    /\ \A i \in Handler : steady'[i] =>
           i # h /\ steady[i] /\ (table[i] # "" => Needs(table[i], rows[i]) \subseteq registered')
    /\ Head(v) # "tags" \/ Head(v) = dropping[h]
    /\ dropping'[h] # "tags" \/ "tags" \in dropped' \/ dropping'[h] = dropping[h]
    /\ dropped \subseteq dropped'
    /\ UNCHANGED <<dataVars, dirs, reply>>
    /\ HandlerTypes' /\ Others(h) /\ HandlerOK(h)'

LEMMA StatementPaths ==
    /\ \A t \in Table \union {""} : GetTablePath(t) \in Path /\ GetTablePath(t) # <<>>
                                    /\ Head(GetTablePath(t)) # "tags"
    /\ \A t \in Table, g \in Tag \union {""} : GetTagPath(t, g) \in Path /\ GetTagPath(t, g) # <<>>
                                               /\ Head(GetTagPath(t, g)) # "tags"
  <1>1. /\ \A x : <<"tables", x>> # <<>> /\ Head(<<"tables", x>>) = "tables"
        /\ \A x : <<"tables", x, "tags">> # <<>> /\ Head(<<"tables", x, "tags">>) = "tables"
        /\ \A x, y : <<"tables", x, "tags", y>> # <<>> /\ Head(<<"tables", x, "tags", y>>) = "tables"
        /\ <<"tables">> # <<>> /\ Head(<<"tables">>) = "tables"
    OBVIOUS
  <1>2. "tables" # "tags"
    OBVIOUS
  <1>3. ASSUME NEW t \in Table \union {""} PROVE GetTablePath(t) # <<>> /\ Head(GetTablePath(t)) # "tags"
    <2>1. GetTablePath(t) = <<"tables">> \/ GetTablePath(t) = <<"tables", t>>
      BY DEF GetTablePath
    <2> QED
      BY <1>1, <1>2, <2>1
  <1>4. ASSUME NEW t \in Table, NEW g \in Tag \union {""}
        PROVE  GetTagPath(t, g) # <<>> /\ Head(GetTagPath(t, g)) # "tags"
    <2>1. GetTagPath(t, g) = <<"tables", t, "tags">> \/ GetTagPath(t, g) = <<"tables", t, "tags", g>>
      BY DEF GetTagPath
    <2> QED
      BY <1>1, <1>2, <2>1
  <1> QED
    BY <1>3, <1>4, PathTypes

\* DROP TABLE, DROP TAG and DELETE.
LEMMA PlainRemoval ==
    ASSUME TypeOK, NEW h \in Handler, NEW v \in Path, v # <<>>, Head(v) # "tags", pc[h] = "idle",
           CallRemoveAll(h, v), Unregister(h, v),
           UNCHANGED <<dataVars, dirs, dropped, rows, table, reply, tags, dropping>>
    PROVE  StartsRemoval(h, v)
  <1> USE HandlerType DEF HandlerTypes
  <1>1. pc' = [pc EXCEPT ![h] = "remove"] /\ steady' \in [Handler -> BOOLEAN]
    BY UnregisterEffect DEF CallRemoveAll, Goto
  <1>2. HandlerTypes' /\ Others(h)
    BY <1>1 DEF Others
  <1>3. HandlerOK(h)'
    BY <1>1, HandlerFacts DEF HandlerOK
  <1> QED
    BY <1>2, <1>3, UnregisterEffect DEF StartsRemoval

LEMMA UpdateRemoval ==
    ASSUME TypeOK, NEW h \in Handler, NEW t \in Table, NEW r \in NewPoint, ExecuteUpdate(h, t, r)
    PROVE  StartsRemoval(h, GetTagPath(t, r.tag))
  <1> USE HandlerType DEF HandlerTypes
  <1> DEFINE v == GetTagPath(t, r.tag)
  <1>1. r \in [tag : Tag, ts : Ts, value : Value]
    BY CatalogAssumption
  <1>2. r \in Row /\ r.tag \in Tag /\ r.value \in Value
    BY <1>1 DEF Row
  <1>3. v \in Path /\ v # <<>> /\ Head(v) # "tags"
    BY <1>2, StatementPaths
  <1>4. /\ pc[h] = "idle" /\ CallRemoveAll(h, v) /\ Unregister(h, v)
        /\ table' = [table EXCEPT ![h] = t] /\ rows' = [rows EXCEPT ![h] = <<r>>]
        /\ UNCHANGED <<dataVars, dirs, dropped, reply, tags, dropping>>
    BY DEF ExecuteUpdate
  <1> HIDE DEF v
  <1>5. pc' = [pc EXCEPT ![h] = "remove"] /\ steady' \in [Handler -> BOOLEAN]
    BY <1>4, UnregisterEffect DEF CallRemoveAll, Goto
  <1>6. <<r>> \in Seq(Row) /\ <<r>> # <<>> /\ Head(<<r>>) = r
    BY <1>2, One, Tuples
  <1>7. HandlerTypes' /\ Others(h)
    BY <1>4, <1>5, <1>6 DEF Others
  <1>8. /\ rows'[h] = <<r>> /\ table'[h] = t /\ t # "" /\ pc'[h] = "remove" /\ dropping'[h] = ""
    BY <1>4, <1>5, Names, HandlerFacts DEF HandlerOK
  <1>9. HandlerOK(h)'
    BY <1>2, <1>6, <1>8 DEF HandlerOK
  <1>6a. /\ registered' = {p \in registered : ~IsPrefix(v, p)}
         /\ \A i \in Handler : steady'[i] =>
               i # h /\ steady[i] /\ (table[i] # "" => Needs(table[i], rows[i]) \subseteq registered')
    BY <1>4, UnregisterEffect
  <1>10. StartsRemoval(h, v)
    BY <1>3, <1>4, <1>6a, <1>7, <1>9 DEF StartsRemoval
  <1> QED
    BY <1>10 DEF v

LEMMA DatabaseRemoval ==
    ASSUME TypeOK, NEW h \in Handler, NEW d \in Db, DropDatabase(h, d)
    PROVE  StartsRemoval(h, GetTablePath(""))
  <1> USE HandlerType DEF HandlerTypes
  <1> DEFINE v == GetTablePath("")
  <1>1. v \in Path /\ v # <<>> /\ Head(v) # "tags"
    BY StatementPaths
  <1>2. /\ pc[h] = "idle" /\ CallRemoveAll(h, v) /\ Unregister(h, v)
        /\ dropping' = [dropping EXCEPT ![h] = d] /\ dropped' = dropped \union {d}
        /\ UNCHANGED <<dataVars, dirs, rows, table, reply, tags>>
    BY DEF DropDatabase
  <1> HIDE DEF v
  <1>3. pc' = [pc EXCEPT ![h] = "remove"] /\ steady' \in [Handler -> BOOLEAN]
    BY <1>2, UnregisterEffect DEF CallRemoveAll, Goto
  <1>4. HandlerTypes' /\ Others(h)
    BY <1>2, <1>3 DEF Others
  <1>5. HandlerOK(h)'
    BY <1>2, <1>3, HandlerFacts DEF HandlerOK
  <1>6. /\ registered' = {p \in registered : ~IsPrefix(v, p)}
        /\ \A i \in Handler : steady'[i] =>
               i # h /\ steady[i] /\ (table[i] # "" => Needs(table[i], rows[i]) \subseteq registered')
    BY <1>2, UnregisterEffect
  <1>7. dropping'[h] # "tags" \/ "tags" \in dropped'
    BY <1>2
  <1>8. StartsRemoval(h, v)
    BY <1>1, <1>2, <1>4, <1>5, <1>6, <1>7 DEF StartsRemoval
  <1> QED
    BY <1>8 DEF v

LEMMA DirectoryRemoval ==
    ASSUME TypeOK, NEW h \in Handler, DropDatabaseDir(h)
    PROVE  StartsRemoval(h, <<dropping[h]>>)
  <1> USE HandlerType DEF HandlerTypes
  <1> DEFINE v == <<dropping[h]>>
  <1>1. v \in Path /\ v # <<>> /\ Head(v) = dropping[h]
    BY One, PathTypes
  <1>2. /\ pc[h] = "drop" /\ CallRemoveAll(h, v) /\ Unregister(h, v)
        /\ dropping' = [dropping EXCEPT ![h] = ""]
        /\ UNCHANGED <<dataVars, dirs, dropped, rows, table, reply, tags>>
    BY DEF DropDatabaseDir
  <1> HIDE DEF v
  <1>3. pc' = [pc EXCEPT ![h] = "remove"] /\ steady' \in [Handler -> BOOLEAN]
    BY <1>2, UnregisterEffect DEF CallRemoveAll, Goto
  <1>4. HandlerTypes' /\ Others(h)
    BY <1>2, <1>3 DEF Others
  <1>5. HandlerOK(h)'
    BY <1>2, <1>3, HandlerFacts DEF HandlerOK
  <1>6. dropping'[h] # "tags"
    BY <1>2
  <1>7. /\ registered' = {p \in registered : ~IsPrefix(v, p)}
        /\ \A i \in Handler : steady'[i] =>
               i # h /\ steady[i] /\ (table[i] # "" => Needs(table[i], rows[i]) \subseteq registered')
    BY <1>2, UnregisterEffect
  <1>8. StartsRemoval(h, v)
    BY <1>1, <1>2, <1>4, <1>5, <1>6, <1>7 DEF StartsRemoval
  <1> QED
    BY <1>8 DEF v

LEMMA RemovalTyped ==
    ASSUME TypeOK, NEW h \in Handler, NEW v, StartsRemoval(h, v)
    PROVE  TypeOK'
  <1>1. /\ victim' = [victim EXCEPT ![h] = v] /\ todo' = [todo EXCEPT ![h] = {v}]
        /\ UNCHANGED <<opened, doomed, dirs>> /\ v \in Path
    BY DEF StartsRemoval, CallRemoveAll
  <1>2. PathsOK'
    BY <1>1, TypeParts DEF PathsOK
  <1> QED
    BY <1>2, StepTyped, StillPoints, NextTyped DEF StartsRemoval

\* Every statement that starts in Ddl.
LEMMA DdlCases ==
    ASSUME TypeOK, Ddl
    PROVE  \/ \E d \in Db : CreateDatabase(d)
           \/ \E t \in Table : CreateTable(t)
           \/ \E h \in Handler, t \in Table, names \in TagList : ExecuteCreateTags(h, t, names)
           \/ \E h \in Handler, v \in Path : StartsRemoval(h, v)
  <1>1. ASSUME NEW h \in Handler, NEW d \in Db, DropDatabase(h, d)
        PROVE  \E v \in Path : StartsRemoval(h, v)
    BY <1>1, DatabaseRemoval, StatementPaths
  <1>2. ASSUME NEW h \in Handler, NEW t \in Table, ExecuteDropTable(h, t)
        PROVE  \E v \in Path : StartsRemoval(h, v)
    <2>1. /\ GetTablePath(t) \in Path /\ GetTablePath(t) # <<>> /\ Head(GetTablePath(t)) # "tags"
      BY StatementPaths
    <2> QED
      BY <1>2, <2>1, PlainRemoval DEF ExecuteDropTable
  <1>3. ASSUME NEW h \in Handler, NEW t \in Table, NEW g \in Tag \union {""}, DropTag(h, t, g)
        PROVE  \E v \in Path : StartsRemoval(h, v)
    <2>1. /\ GetTagPath(t, g) \in Path /\ GetTagPath(t, g) # <<>> /\ Head(GetTagPath(t, g)) # "tags"
      BY StatementPaths
    <2> QED
      BY <1>3, <2>1, PlainRemoval DEF DropTag
  <1>4. ASSUME NEW h \in Handler, NEW t \in Table, NEW r \in NewPoint, ExecuteUpdate(h, t, r)
        PROVE  \E v \in Path : StartsRemoval(h, v)
    BY <1>4, UpdateRemoval DEF StartsRemoval
  <1> QED
    BY <1>1, <1>2, <1>3, <1>4 DEF Ddl, ExecuteDropTag, ExecuteDelete

-----------------------------------------------------------------------------
(* The steps of RemoveAll *)

LEMMA FileNames ==
    ASSUME TypeOK, NEW p
    PROVE  FilesIn(p) \subseteq Key \X (Date \X Ts)
  <1>1. ASSUME NEW k \in Key, NEW f \in files[k] PROVE FileName(f) \in Date \X Ts
    <2>1. f \in File
      BY TypeParts DEF PointsOK
    <2>2. f.date \in Date /\ f.pts \in Seq(Point) /\ f.pts # <<>>
      BY <2>1 DEF File
    <2>3. Head(f.pts) \in Point
      BY <2>2, HeadTail
    <2> QED
      BY <2>2, <2>3 DEF FileName, Point
  <1>2. \A k \in Key : {<<k, FileName(f)>> : f \in files[k]} \subseteq Key \X (Date \X Ts)
    BY <1>1
  <1> QED
    BY <1>2 DEF FilesIn

LEMMA EnterEffect ==
    ASSUME TypeOK, NEW h \in Handler, Enter(h)
    PROVE  /\ pc[h] = "remove" /\ PathsOK'
           /\ UNCHANGED <<dataVars, treeVars, insertVars, tags, dropping, victim>>
           /\ \E p \in todo[h] :
                /\ todo'[h] \subseteq todo[h] \union Subdirs(p)
                /\ opened'[h] \subseteq opened[h] \union {p}
                /\ doomed'[h] \subseteq doomed[h] \union FilesIn(p)
           /\ \A i \in Handler \ {h} : UNCHANGED <<todo[i], opened[i], doomed[i]>>
  <1>1. PICK p \in todo[h] :
            \/ /\ todo' = [todo EXCEPT ![h] = (todo[h] \ {p}) \union Subdirs(p)]
               /\ opened' = [opened EXCEPT ![h] = opened[h] \union {p}]
               /\ doomed' = [doomed EXCEPT ![h] = doomed[h] \union FilesIn(p)]
            \/ /\ todo' = [todo EXCEPT ![h] = todo[h] \ {p}]
               /\ UNCHANGED <<opened, doomed>>
    BY DEF Enter
  <1>2. /\ pc[h] = "remove"
        /\ UNCHANGED <<dataVars, treeVars, insertVars, tags, dropping, victim>>
    BY DEF Enter
  <1>3. /\ todo \in [Handler -> SUBSET Path] /\ opened \in [Handler -> SUBSET Path]
        /\ victim \in [Handler -> Path] /\ dirs \subseteq Path /\ dirs' = dirs
        /\ doomed \in [Handler -> SUBSET (Key \X (Date \X Ts))]
    BY <1>2, TypeParts DEF PathsOK, treeVars
  <1>4. Subdirs(p) \subseteq Path /\ p \in Path /\ FilesIn(p) \subseteq Key \X (Date \X Ts)
    BY <1>3, FileNames DEF Subdirs
  <1>5. /\ todo' \in [Handler -> SUBSET Path] /\ opened' \in [Handler -> SUBSET Path]
        /\ todo'[h] \subseteq todo[h] \union Subdirs(p)
        /\ opened'[h] \subseteq opened[h] \union {p}
        /\ \A i \in Handler \ {h} : UNCHANGED <<todo[i], opened[i]>>
    BY <1>1, <1>3, <1>4
  <1>6. /\ doomed' \in [Handler -> SUBSET (Key \X (Date \X Ts))]
        /\ doomed'[h] \subseteq doomed[h] \union FilesIn(p)
        /\ \A i \in Handler \ {h} : UNCHANGED doomed[i]
    BY <1>1, <1>3, <1>4
  <1> QED
    BY <1>1, <1>2, <1>3, <1>5, <1>6 DEF PathsOK

LEMMA RemoveFileEffect ==
    ASSUME TypeOK, NEW h \in Handler, RemoveFile(h)
    PROVE  /\ pc[h] = "remove" /\ doomed[h] # {}
           /\ files' \in [Key -> SUBSET File] /\ \A k \in Key : files'[k] \subseteq files[k]
           /\ \A i \in Handler : doomed'[i] \subseteq doomed[i]
           /\ UNCHANGED <<mem, engineCache, serverCache, written, overwritten, treeVars, insertVars, tags,
                          dropping, victim, todo, opened>>
           /\ TypeOK'
  <1>1. PICK f \in doomed[h] : /\ files' = [files EXCEPT ![f[1]] = {g \in files[f[1]] : FileName(g) # f[2]}]
                               /\ doomed' = [doomed EXCEPT ![h] = doomed[h] \ {f}]
    BY DEF RemoveFile
  <1>2. /\ pc[h] = "remove"
        /\ UNCHANGED <<mem, engineCache, serverCache, written, overwritten, treeVars, insertVars, tags,
                       dropping, victim, todo, opened>>
    BY DEF RemoveFile
  <1>3. /\ doomed \in [Handler -> SUBSET (Key \X (Date \X Ts))] /\ files \in [Key -> SUBSET File]
    BY TypeParts DEF PathsOK, PointsOK
  <1>4. f[1] \in Key
    BY <1>3
  <1>5. files' \in [Key -> SUBSET File] /\ \A k \in Key : files'[k] \subseteq files[k]
    BY <1>1, <1>3, <1>4
  <1>6. /\ doomed' \in [Handler -> SUBSET (Key \X (Date \X Ts))]
        /\ \A i \in Handler : doomed'[i] \subseteq doomed[i]
    BY <1>1, <1>3
  <1>7. PointsOK'
    BY <1>2, <1>5, TypeParts DEF PointsOK
  <1>8. HandlersOK'
    BY <1>2, TypeParts DEF HandlersOK, HandlerTypes, HandlerOK, insertVars
  <1>9. PathsOK'
    BY <1>2, <1>6, TypeParts DEF PathsOK, treeVars
  <1> QED
    BY <1>1, <1>2, <1>5, <1>6, <1>7, <1>8, <1>9, NextTyped

LEMMA RemoveDirEffect ==
    ASSUME TypeOK, NEW h \in Handler, RemoveDir(h)
    PROVE  /\ pc[h] = "remove"
           /\ \E p \in opened[h] : dirs \ {p} \subseteq dirs'
           /\ dirs' \subseteq dirs
           /\ \A i \in Handler : opened'[i] \subseteq opened[i]
           /\ UNCHANGED <<dataVars, registered, dropped, insertVars, tags, dropping, victim, todo, doomed>>
           /\ TypeOK'
  <1>1. PICK p \in opened[h] : /\ dirs' = dirs \/ dirs' = dirs \ {p}
                               /\ opened' = [opened EXCEPT ![h] = opened[h] \ {p}]
    BY DEF RemoveDir
  <1>2. /\ pc[h] = "remove"
        /\ UNCHANGED <<dataVars, registered, dropped, insertVars, tags, dropping, victim, todo, doomed>>
    BY DEF RemoveDir
  <1>3. opened \in [Handler -> SUBSET Path] /\ dirs \subseteq Path
    BY TypeParts DEF PathsOK
  <1>4. /\ opened' \in [Handler -> SUBSET Path] /\ \A i \in Handler : opened'[i] \subseteq opened[i]
    BY <1>1, <1>3
  <1>5. HandlersOK'
    BY <1>2, TypeParts DEF HandlersOK, HandlerTypes, HandlerOK, insertVars
  <1>6. PathsOK'
    BY <1>1, <1>2, <1>3, <1>4, TypeParts DEF PathsOK
  <1> QED
    BY <1>1, <1>2, <1>4, <1>5, <1>6, StillPoints, NextTyped

LEMMA EndRemovalEffect ==
    ASSUME TypeOK, NEW h \in Handler, EndRemoval(h)
    PROVE  /\ HandlerTypes' /\ Others(h) /\ HandlerOK(h)'
           /\ pc[h] = "remove" /\ pc'[h] \in {"drop", "update", "idle"}
           /\ opened[h] = {} /\ \A i \in Handler \ {h} : victim'[i] = victim[i]
           /\ UNCHANGED <<dataVars, treeVars, rows, table, reply, steady, tags, dropping, todo, opened, doomed>>
           /\ TypeOK'
  <1> USE HandlerType DEF HandlerTypes
  <1> DEFINE l == IF dropping[h] # "" THEN "drop" ELSE IF table[h] # "" THEN "update" ELSE "idle"
  <1>1. /\ pc[h] = "remove" /\ pc' = [pc EXCEPT ![h] = l] /\ opened[h] = {}
        /\ victim' = [victim EXCEPT ![h] = <<>>]
        /\ UNCHANGED <<dataVars, treeVars, rows, table, reply, steady, tags, dropping, todo, opened, doomed>>
    BY DEF EndRemoval, Goto
  <1>2. l \in {"drop", "update", "idle"} /\ pc'[h] = l
    BY <1>1
  <1>3. HandlerTypes' /\ Others(h)
    BY <1>1, <1>2 DEF Others
  <1>4. HandlerOK(h)'
    BY <1>1, <1>2, HandlerFacts DEF HandlerOK
  <1>5. victim \in [Handler -> Path] /\ <<>> \in Path
    BY EmptySeqs, TypeParts DEF PathsOK, Path
  <1>6. victim' \in [Handler -> Path] /\ \A i \in Handler \ {h} : victim'[i] = victim[i]
    BY <1>1, <1>5
  <1>7. PathsOK'
    BY <1>1, <1>6, TypeParts DEF PathsOK, treeVars
  <1>8. HandlersOK'
    BY <1>3, <1>4, StepTyped
  <1> QED
    BY <1>1, <1>2, <1>3, <1>4, <1>6, <1>7, <1>8, StillPoints, NextTyped

-----------------------------------------------------------------------------
(* INSERT, the Insert call and the second half of UPDATE *)

LEMMA ExecuteInsertEffect ==
    ASSUME TypeOK, NEW h \in Handler, NEW t \in Table, NEW rs \in Seq(Row), ExecuteInsert(h, t, rs)
    PROVE  /\ HandlerTypes' /\ Others(h)
           /\ pc[h] = "idle" /\ UNCHANGED <<dataVars, treeVars, tags, dropping, walkVars>>
           /\ steady'[h] <=> Needs(t, rs) \subseteq registered
           /\ \A i \in Handler \ {h} : steady'[i] = steady[i]
           /\ \/ /\ TableExists(t)
                 /\ pc'[h] = "row" /\ rows'[h] = rs /\ table'[h] = t /\ reply'[h] = "none"
              \/ /\ ~TableExists(t)
                 /\ pc'[h] = "idle" /\ rows'[h] = rows[h] /\ table'[h] = "" /\ reply'[h] = "error"
  <1> USE HandlerType DEF HandlerTypes
  <1>1. table[h] = "" /\ pc[h] = "idle"
    BY TypeParts DEF ExecuteInsert, HandlersOK, HandlerOK
  <1>2. (Needs(t, rs) \subseteq registered) \in BOOLEAN
    OBVIOUS
  <1>3. /\ steady' \in [Handler -> BOOLEAN]
        /\ \A i \in Handler \ {h} : steady'[i] = steady[i]
        /\ steady'[h] <=> Needs(t, rs) \subseteq registered
    <2>1. steady' = [steady EXCEPT ![h] = Needs(t, rs) \subseteq registered]
      BY DEF ExecuteInsert
    <2> QED
      BY <1>2, <2>1, Zenon
  <1>4. CASE TableExists(t)
    <2>1. /\ pc' = [pc EXCEPT ![h] = "row"] /\ rows' = [rows EXCEPT ![h] = rs]
          /\ table' = [table EXCEPT ![h] = t] /\ reply' = [reply EXCEPT ![h] = "none"]
          /\ UNCHANGED <<dataVars, treeVars, tags, dropping, walkVars>>
      BY <1>4 DEF ExecuteInsert, Goto
    <2> QED
      BY <1>1, <1>3, <1>4, <2>1 DEF Others
  <1>5. CASE ~TableExists(t)
    <2>1. /\ reply' = [reply EXCEPT ![h] = "error"] /\ UNCHANGED <<pc, rows, table>>
          /\ UNCHANGED <<dataVars, treeVars, tags, dropping, walkVars>>
      BY <1>5 DEF ExecuteInsert
    <2> QED
      BY <1>1, <1>3, <1>5, <2>1 DEF Others
  <1> QED
    BY <1>4, <1>5

LEMMA InsertEffect ==
    ASSUME TypeOK, NEW h \in Handler, NEW rs \in Seq(Row), Insert(h, rs)
    PROVE  /\ HandlerTypes' /\ Others(h)
           /\ pc[h] = "idle" /\ UNCHANGED <<dataVars, treeVars, tags, dropping, walkVars>>
           /\ steady' = steady
           /\ pc'[h] = "row" /\ rows'[h] = rs /\ table'[h] = "" /\ reply'[h] = "none"
  <1>1. table[h] = "" /\ pc[h] = "idle"
    BY TypeParts DEF Insert, HandlersOK, HandlerOK
  <1> QED
    BY <1>1, HandlerType DEF Insert, Goto, HandlerTypes, Others

LEMMA ReturnEffect ==
    ASSUME TypeOK, NEW h \in Handler, NEW answer \in {"ok", "error"}, Return(h, answer),
           UNCHANGED <<dropping, steady, tags>>
    PROVE  /\ HandlerTypes' /\ Others(h)
           /\ pc'[h] = "idle" /\ rows'[h] = <<>> /\ table'[h] = "" /\ reply'[h] = answer
  <1> USE HandlerType DEF HandlerTypes
  <1>1. /\ pc' = [pc EXCEPT ![h] = "idle"] /\ reply' = [reply EXCEPT ![h] = answer]
        /\ rows' = [rows EXCEPT ![h] = <<>>] /\ table' = [table EXCEPT ![h] = ""]
    BY DEF Return, Goto
  <1>2. <<>> \in Seq(Row)
    BY NoRows
  <1>3. HandlerTypes'
    BY <1>1, <1>2
  <1>4. /\ pc'[h] = "idle" /\ table'[h] = "" /\ reply'[h] = answer
        /\ \A i \in Handler \ {h} : UNCHANGED <<pc[i], table[i], reply[i], dropping[i], tags[i]>>
    BY <1>1
  <1>5. rows'[h] = <<>> /\ \A i \in Handler \ {h} : rows'[i] = rows[i]
    BY <1>1
  <1> QED
    BY <1>3, <1>4, <1>5 DEF Others

LEMMA StartRowEffect ==
    ASSUME TypeOK, NEW h \in Handler, StartRow(h)
    PROVE  /\ HandlerTypes' /\ Others(h)
           /\ pc[h] = "row" /\ UNCHANGED <<dataVars, treeVars, steady, tags, dropping, walkVars>>
           /\ \/ /\ pc'[h] = "idle" /\ rows'[h] = <<>> /\ table'[h] = ""
                 /\ \/ reply'[h] = "ok"
                    \/ /\ reply'[h] = "error"
                       /\ rows[h] # <<>> /\ Unknown(table[h], Head(rows[h]).tag)
              \/ /\ pc'[h] = "row" /\ rows[h] # <<>> /\ rows'[h] = Tail(rows[h])
                 /\ UNCHANGED <<table, reply>>
              \/ /\ pc'[h] = "write" /\ rows[h] # <<>> /\ rows' = rows
                 /\ Head(rows[h]).tag \in Tag /\ Head(rows[h]).value \in Value
                 /\ UNCHANGED <<table, reply>>
  <1>1. /\ pc[h] = "row" /\ UNCHANGED <<dataVars, treeVars, steady, tags, dropping, walkVars>>
    BY DEF StartRow
  <1>2. CASE rows[h] = <<>> /\ Return(h, "ok")
    BY <1>1, <1>2, ReturnEffect
  <1>3. CASE rows[h] # <<>> /\ Unknown(table[h], Head(rows[h]).tag) /\ Return(h, "error")
    BY <1>1, <1>3, ReturnEffect
  <1>4. CASE /\ rows[h] # <<>> /\ UNCHANGED <<pc, table, reply>>
             /\ rows' = [rows EXCEPT ![h] = Tail(rows[h])]
    <2>1. Tail(rows[h]) \in Seq(Row)
      BY <1>4, HeadTail, HandlerType DEF HandlerTypes
    <2> QED
      BY <1>1, <1>4, <2>1, HandlerType DEF HandlerTypes, Others
  <1>5. CASE /\ rows[h] # <<>> /\ UNCHANGED <<rows, table, reply>> /\ Goto(h, "write")
             /\ Head(rows[h]).tag # NoTag /\ Head(rows[h]).value # NoValue
    <2>1. Head(rows[h]) \in Row
      BY <1>5, HeadTail, HandlerType DEF HandlerTypes
    <2>2. Head(rows[h]).tag \in Tag /\ Head(rows[h]).value \in Value
      BY <1>5, <2>1, RowTypes
    <2> QED
      BY <1>1, <1>5, <2>2, HandlerType DEF HandlerTypes, Others, Goto
  <1> QED
    BY <1>2, <1>3, <1>4, <1>5 DEF StartRow

LEMMA WriteRowEffect ==
    ASSUME TypeOK, NEW h \in Handler, WriteRow(h)
    PROVE  /\ HandlerTypes' /\ Others(h)
           /\ pc[h] = "write" /\ pc'[h] = "cache"
           /\ UNCHANGED <<treeVars, rows, table, reply, steady, tags, dropping, walkVars>>
           /\ Head(rows[h]) \in Row /\ Head(rows[h]).tag \in Tag
           /\ RowPoint(Head(rows[h])) \in Point
           /\ Write(TagKey(Head(rows[h]).tag), RowPoint(Head(rows[h])))
           /\ rows[h] # <<>> /\ Head(rows[h]).value \in Value
  <1> USE HandlerType DEF HandlerTypes
  <1>1. /\ pc[h] = "write" /\ pc' = [pc EXCEPT ![h] = "cache"]
        /\ UNCHANGED <<treeVars, rows, table, reply, steady, tags, dropping, walkVars>>
        /\ Write(TagKey(Head(rows[h]).tag), RowPoint(Head(rows[h])))
    BY DEF WriteRow, Goto
  <1>2. rows[h] # <<>> /\ Head(rows[h]).tag \in Tag /\ Head(rows[h]).value \in Value
    BY <1>1, TypeParts DEF HandlersOK, HandlerOK
  <1>3. Head(rows[h]) \in Row
    BY <1>2, HeadTail
  <1>4. RowPoint(Head(rows[h])) \in Point
    BY <1>2, <1>3, RowTypes
  <1>5. HandlerTypes' /\ Others(h) /\ pc'[h] = "cache"
    BY <1>1 DEF Others
  <1> QED
    BY <1>1, <1>2, <1>3, <1>4, <1>5

LEMMA CacheRowEffect ==
    ASSUME TypeOK, NEW h \in Handler, CacheRow(h)
    PROVE  /\ HandlerTypes' /\ Others(h)
           /\ pc[h] = "cache" /\ pc'[h] = "row"
           /\ UNCHANGED <<mem, files, engineCache, written, overwritten, treeVars, table, reply, steady, tags, dropping, walkVars>>
           /\ Head(rows[h]) \in Row /\ Head(rows[h]).tag \in Tag
           /\ RowPoint(Head(rows[h])) \in Point
           /\ rows[h] # <<>> /\ rows'[h] = Tail(rows[h])
           /\ serverCache' = [serverCache EXCEPT ![TagKey(Head(rows[h]).tag)] =
                                  Update(serverCache[TagKey(Head(rows[h]).tag)], RowPoint(Head(rows[h])))]
  <1> USE HandlerType DEF HandlerTypes
  <1>1. /\ pc[h] = "cache" /\ pc' = [pc EXCEPT ![h] = "row"]
        /\ rows' = [rows EXCEPT ![h] = Tail(rows[h])]
        /\ UNCHANGED <<mem, files, engineCache, written, overwritten, treeVars, table, reply, steady, tags, dropping, walkVars>>
        /\ serverCache' = [serverCache EXCEPT ![TagKey(Head(rows[h]).tag)] =
                               Update(serverCache[TagKey(Head(rows[h]).tag)], RowPoint(Head(rows[h])))]
    BY DEF CacheRow, Goto
  <1>2. rows[h] # <<>> /\ Head(rows[h]).tag \in Tag /\ Head(rows[h]).value \in Value
    BY <1>1, TypeParts DEF HandlersOK, HandlerOK
  <1>3. Head(rows[h]) \in Row /\ Tail(rows[h]) \in Seq(Row)
    BY <1>2, HeadTail
  <1>4. RowPoint(Head(rows[h])) \in Point
    BY <1>2, <1>3, RowTypes
  <1>5. /\ HandlerTypes' /\ Others(h) /\ pc'[h] = "row" /\ rows'[h] = Tail(rows[h])
    BY <1>1, <1>3 DEF Others
  <1> QED
    BY <1>1, <1>2, <1>3, <1>4, <1>5

LEMMA UpdatePointEffect ==
    ASSUME TypeOK, NEW h \in Handler, UpdatePoint(h)
    PROVE  /\ HandlerTypes' /\ Others(h) /\ HandlerOK(h)'
           /\ pc[h] = "update" /\ pc'[h] = "idle" /\ table'[h] = ""
           /\ UNCHANGED <<treeVars, reply, steady, tags, dropping, walkVars>>
           /\ \E t \in Table, g \in Tag, p \in Point : Write(UpdateKey(t, g), p)
  <1> USE HandlerType DEF HandlerTypes
  <1>1. /\ pc[h] = "update" /\ pc' = [pc EXCEPT ![h] = "idle"]
        /\ rows' = [rows EXCEPT ![h] = <<>>] /\ table' = [table EXCEPT ![h] = ""]
        /\ UNCHANGED <<treeVars, reply, steady, tags, dropping, walkVars>>
        /\ Write(UpdateKey(table[h], Head(rows[h]).tag), RowPoint(Head(rows[h])))
    BY DEF UpdatePoint, Goto
  <1>2. rows[h] # <<>> /\ Head(rows[h]).tag \in Tag /\ Head(rows[h]).value \in Value
    BY <1>1, HandlerFacts DEF HandlerOK
  <1>3. table[h] \in Table /\ dropping[h] = ""
    BY <1>1, HandlerFacts DEF HandlerOK
  <1>4. Head(rows[h]) \in Row
    BY <1>2, HeadTail
  <1>5. RowPoint(Head(rows[h])) \in Point
    BY <1>2, <1>4, RowTypes
  <1>6. rows' \in [Handler -> Seq(Row)] /\ \A i \in Handler \ {h} : rows'[i] = rows[i]
    BY <1>1, NoRows
  <1>7. HandlerTypes' /\ Others(h)
    BY <1>1, <1>6 DEF Others
  <1>8. HandlerOK(h)'
    BY <1>1, <1>3 DEF HandlerOK
  <1> QED
    BY <1>1, <1>2, <1>3, <1>5, <1>7, <1>8

-----------------------------------------------------------------------------
(* Every step keeps the type *)

LEMMA StillWalk == TypeOK /\ UNCHANGED <<treeVars, walkVars>> => PathsOK'
  BY StillPaths DEF treeVars

LEMMA ExecuteCreateTagsTyped ==
    ASSUME TypeOK, NEW h \in Handler, NEW t \in Table, NEW names \in TagList, ExecuteCreateTags(h, t, names)
    PROVE  TypeOK'
  BY ExecuteCreateTagsEffect, StepTyped, StillPoints, StillWalk, NextTyped

LEMMA DdlTyped == ASSUME TypeOK, Ddl PROVE TypeOK'
  <1>1. ASSUME NEW d \in Db, CreateDatabase(d) PROVE TypeOK'
    BY <1>1, CreateTyped, DatabasePath DEF CreateDatabase
  <1>2. ASSUME NEW t \in Table, CreateTable(t) PROVE TypeOK'
    BY <1>2, CreateTyped, StatementPaths DEF CreateTable
  <1> QED
    BY <1>1, <1>2, ExecuteCreateTagsTyped, RemovalTyped, DdlCases

LEMMA CreateTagTyped == ASSUME TypeOK, NEW h \in Handler, CreateTag(h) PROVE TypeOK'
  <1>1. HandlersOK' /\ PointsOK'
    BY CreateTagEffect, StepTyped, StillPoints
  <1>2. dirs' \subseteq Path
    <2>1. CASE UNCHANGED dirs
      BY <2>1, TypeParts DEF PathsOK
    <2>2. ASSUME table[h] \in Table, NEW g \in Tag, NEW new, Create(GetTagPath(table[h], g), new)
          PROVE  dirs' \subseteq Path
      BY <2>2, StatementPaths, CreateEffect
    <2> QED
      BY <2>1, <2>2, CreateTagEffect
  <1>3. PathsOK'
    BY <1>2, CreateTagEffect, TypeParts DEF PathsOK, walkVars
  <1> QED
    BY <1>1, <1>3, NextTyped

LEMMA EnterTyped == ASSUME TypeOK, NEW h \in Handler, Enter(h) PROVE TypeOK'
  <1>1. HandlersOK'
    BY EnterEffect, TypeParts DEF HandlersOK, HandlerTypes, HandlerOK, insertVars
  <1> QED
    BY <1>1, EnterEffect, StillPoints, NextTyped

LEMMA UpdatePointTyped == ASSUME TypeOK, NEW h \in Handler, UpdatePoint(h) PROVE TypeOK'
  <1>1. HandlersOK' /\ PathsOK'
    BY UpdatePointEffect, StepTyped, StillWalk
  <1>2. PointsOK'
    BY UpdatePointEffect, WriteEffect, Keys
  <1> QED
    BY <1>1, <1>2, NextTyped

LEMMA ExecuteInsertTyped ==
    ASSUME TypeOK, NEW h \in Handler, NEW t \in Table, NEW rs \in Seq(Row), ExecuteInsert(h, t, rs)
    PROVE  TypeOK'
  <1>1. HandlerTypes' /\ Others(h) /\ UNCHANGED <<dataVars, treeVars, walkVars, dropping>> /\ pc[h] = "idle"
    BY ExecuteInsertEffect
  <1>2. pc'[h] = "row" \/ (pc'[h] = "idle" /\ table'[h] = "")
    BY ExecuteInsertEffect
  <1>3. HandlerOK(h)'
    BY <1>1, <1>2, HandlerFacts DEF HandlerOK
  <1> QED
    BY <1>1, <1>3, StepTyped, StillPoints, StillWalk, NextTyped

LEMMA InsertTyped ==
    ASSUME TypeOK, NEW h \in Handler, NEW rs \in Seq(Row), Insert(h, rs)
    PROVE  TypeOK'
  <1>1. /\ HandlerTypes' /\ Others(h) /\ UNCHANGED <<dataVars, treeVars, walkVars, dropping>>
        /\ pc[h] = "idle" /\ pc'[h] = "row"
    BY InsertEffect
  <1>2. HandlerOK(h)'
    BY <1>1, HandlerFacts DEF HandlerOK
  <1> QED
    BY <1>1, <1>2, StepTyped, StillPoints, StillWalk, NextTyped

LEMMA StartRowTyped == ASSUME TypeOK, NEW h \in Handler, StartRow(h) PROVE TypeOK'
  <1>1. /\ HandlerTypes' /\ Others(h) /\ UNCHANGED <<dataVars, treeVars, walkVars, dropping>>
        /\ pc[h] = "row"
    BY StartRowEffect
  <1>2. \/ pc'[h] = "row" \/ (pc'[h] = "idle" /\ table'[h] = "")
        \/ /\ pc'[h] = "write" /\ rows'[h] # <<>>
           /\ Head(rows'[h]).tag \in Tag /\ Head(rows'[h]).value \in Value
    BY StartRowEffect
  <1>3. HandlerOK(h)'
    BY <1>1, <1>2, HandlerFacts DEF HandlerOK
  <1> QED
    BY <1>1, <1>3, StepTyped, StillPoints, StillWalk, NextTyped

LEMMA WriteRowTyped == ASSUME TypeOK, NEW h \in Handler, WriteRow(h) PROVE TypeOK'
  <1>1. /\ HandlerTypes' /\ Others(h) /\ UNCHANGED <<treeVars, walkVars, dropping>>
        /\ pc[h] = "write" /\ pc'[h] = "cache" /\ rows'[h] # <<>>
        /\ Head(rows'[h]).tag \in Tag /\ Head(rows'[h]).value \in Value
    BY WriteRowEffect
  <1>2. HandlerOK(h)'
    BY <1>1, HandlerFacts DEF HandlerOK
  <1>3. PointsOK'
    BY WriteRowEffect, WriteEffect, Keys
  <1> QED
    BY <1>1, <1>2, <1>3, StepTyped, StillWalk, NextTyped

LEMMA FlushTyped == ASSUME TypeOK, NEW k \in Key, NEW d \in Date, Flush(k, d) PROVE TypeOK'
  BY FlushEffect, StillHandlers, NextTyped

\* LatestCache::Update of the server takes a point the engine was given.
LEMMA CachePut ==
    ASSUME TypeOK, NEW k \in Key, NEW p \in Point,
           serverCache' = [serverCache EXCEPT ![k] = Update(serverCache[k], p)]
    PROVE  /\ serverCache' \in [Key -> SUBSET Point]
           /\ serverCache'[k] \subseteq serverCache[k] \union {p}
           /\ \A x, y \in serverCache'[k] : x = y
           /\ \A q \in serverCache[k] \union {p} : \E x \in serverCache'[k] : x.ts >= q.ts
           /\ \A i \in Key : i # k => serverCache'[i] = serverCache[i]
  <1>1. /\ serverCache \in [Key -> SUBSET Point] /\ serverCache[k] \in SUBSET Point
        /\ \A x, y \in serverCache[k] : x = y
    BY TypeParts DEF PointsOK
  <1>2. serverCache'[k] = Update(serverCache[k], p)
    BY <1>1
  <1>3. /\ Update(serverCache[k], p) \in SUBSET Point
        /\ Update(serverCache[k], p) \subseteq serverCache[k] \union {p}
        /\ \A x, y \in Update(serverCache[k], p) : x = y
        /\ \A q \in serverCache[k] \union {p} : \E x \in Update(serverCache[k], p) : x.ts >= q.ts
    BY <1>1, UpdateFacts
  <1> QED
    BY <1>1, <1>2, <1>3

LEMMA ServerCacheEffect ==
    ASSUME TypeOK, NEW h \in Handler, CacheRow(h), NEW k, k = TagKey(Head(rows[h]).tag),
           NEW p, p = RowPoint(Head(rows[h]))
    PROVE  /\ k \in Key /\ p \in Point
           /\ serverCache' \in [Key -> SUBSET Point]
           /\ serverCache'[k] \subseteq serverCache[k] \union {p}
           /\ \A x, y \in serverCache'[k] : x = y
           /\ \A q \in serverCache[k] \union {p} : \E x \in serverCache'[k] : x.ts >= q.ts
           /\ \A i \in Key : i # k => serverCache'[i] = serverCache[i]
  <1>1. k \in Key /\ p \in Point
    BY CacheRowEffect, Keys
  <1>2. serverCache' = [serverCache EXCEPT ![k] = Update(serverCache[k], p)]
    BY CacheRowEffect
  <1> QED
    BY <1>1, <1>2, CachePut

LEMMA CacheRowTyped == ASSUME TypeOK, NEW h \in Handler, CacheRow(h) PROVE TypeOK'
  <1>1. /\ HandlerTypes' /\ Others(h) /\ pc[h] = "cache" /\ pc'[h] = "row"
        /\ UNCHANGED <<mem, files, engineCache, written, treeVars, walkVars, dropping>>
    BY CacheRowEffect
  <1>2. HandlerOK(h)'
    BY <1>1, HandlerFacts DEF HandlerOK
  <1>3. /\ serverCache' \in [Key -> SUBSET Point]
        /\ \A k \in Key : \A x, y \in serverCache'[k] : x = y
    <2> DEFINE k == TagKey(Head(rows[h]).tag)
               p == RowPoint(Head(rows[h]))
    <2>1. \A i, q : i = k /\ q = p =>
            /\ serverCache' \in [Key -> SUBSET Point]
            /\ \A x, y \in serverCache'[i] : x = y
            /\ \A j \in Key : j # i => serverCache'[j] = serverCache[j]
      BY ServerCacheEffect
    <2>2. /\ serverCache' \in [Key -> SUBSET Point]
          /\ \A x, y \in serverCache'[k] : x = y
          /\ \A i \in Key : i # k => serverCache'[i] = serverCache[i]
      BY <2>1
    <2> HIDE DEF k, p
    <2>3. \A i \in Key : \A x, y \in serverCache[i] : x = y
      BY TypeParts DEF PointsOK
    <2> QED
      BY <2>2, <2>3
  <1>4. PointsOK'
    BY <1>1, <1>3, TypeParts DEF PointsOK
  <1> QED
    BY <1>1, <1>2, <1>4, StepTyped, StillWalk, NextTyped

LEMMA RestartEffect ==
    ASSUME TypeOK, Restart
    PROVE  /\ \A k \in Key : engineCache'[k] = {} /\ serverCache'[k] = {}
           /\ \A h \in Handler : /\ pc'[h] = "idle" /\ table'[h] = "" /\ reply'[h] = "none"
                                /\ ~steady'[h] /\ dropping'[h] = ""
                                /\ opened'[h] = {} /\ doomed'[h] = {}
           /\ dirs \subseteq dirs'
           /\ UNCHANGED <<mem, files, written, overwritten, registered, dropped>>
           /\ TypeOK'
  <1>1. /\ engineCache' = [k \in Key |-> {}] /\ serverCache' = [k \in Key |-> {}]
        /\ pc' = [h \in Handler |-> "idle"] /\ reply' = [h \in Handler |-> "none"]
        /\ rows' = [h \in Handler |-> <<>>] /\ tags' = [h \in Handler |-> <<>>]
        /\ table' = [h \in Handler |-> ""] /\ dropping' = [h \in Handler |-> ""]
        /\ victim' = [h \in Handler |-> <<>>] /\ todo' = [h \in Handler |-> {}]
        /\ opened' = [h \in Handler |-> {}] /\ doomed' = [h \in Handler |-> {}]
        /\ steady' = [h \in Handler |-> FALSE]
        /\ dirs' = dirs \union {<<"meta">>, <<"tags">>, <<"wal">>}
        /\ UNCHANGED <<mem, files, written, overwritten, registered, dropped>>
    BY DEF Restart
  <1>2. HandlersOK'
    BY <1>1, NoRows, EmptySeqs DEF HandlersOK, HandlerTypes, HandlerOK
  <1>3. <<"meta">> \in Path /\ <<"tags">> \in Path /\ <<"wal">> \in Path /\ <<>> \in Path
    BY Tuples, EmptySeqs DEF Path, Name
  <1>4. PathsOK'
    BY <1>1, <1>3, TypeParts DEF PathsOK
  <1>5. PointsOK'
    BY <1>1, TypeParts DEF PointsOK
  <1> QED
    BY <1>1, <1>2, <1>4, <1>5, NextTyped

LEMMA StepType ==
    ASSUME TypeOK, [Next]_vars
    PROVE  TypeOK'
  <1>1. CASE Ddl
    BY <1>1, DdlTyped
  <1>2. ASSUME NEW h \in Handler, DropDatabaseDir(h) PROVE TypeOK'
    BY <1>2, DirectoryRemoval, RemovalTyped
  <1>3. ASSUME NEW h \in Handler, DdlStep(h) PROVE TypeOK'
    BY <1>2, <1>3, CreateTagTyped, EnterTyped, RemoveFileEffect, RemoveDirEffect, EndRemovalEffect,
       UpdatePointTyped DEF DdlStep
  <1>4. ASSUME NEW h \in Handler, NEW rs \in Batch, Insert(h, rs) PROVE TypeOK'
    BY <1>4, InsertTyped, CatalogAssumption
  <1>5. ASSUME NEW h \in Handler, NEW rs \in Batch, NEW t \in Table, ExecuteInsert(h, t, rs)
        PROVE  TypeOK'
    BY <1>5, ExecuteInsertTyped, CatalogAssumption
  <1>6. CASE UNCHANGED vars
    BY <1>6, StillPoints, StillHandlers, StillWalk, NextTyped DEF vars, handlerVars
  <1> QED
    BY <1>1, <1>3, <1>4, <1>5, <1>6, StartRowTyped, WriteRowTyped, CacheRowTyped, FlushTyped,
       RestartEffect DEF Next

LEMMA InitType == Init => TypeOK
  <1> SUFFICES ASSUME Init PROVE TypeOK
    OBVIOUS
  <1>1. /\ mem = [k \in Key |-> <<>>] /\ files = [k \in Key |-> {}] /\ written = files
        /\ engineCache = files /\ serverCache = files
        /\ dirs = {<<"meta">>, <<"tags">>, <<"wal">>}
        /\ pc = [h \in Handler |-> "idle"] /\ rows = [h \in Handler |-> <<>>]
        /\ tags = [h \in Handler |-> <<>>]
        /\ table = [h \in Handler |-> ""] /\ dropping = table
        /\ victim = [h \in Handler |-> <<>>]
        /\ todo = [h \in Handler |-> {}] /\ opened = todo /\ doomed = todo
        /\ reply = [h \in Handler |-> "none"] /\ steady = [h \in Handler |-> FALSE]
    BY DEF Init
  <1>2. PointsOK
    BY <1>1, EmptySeqs DEF PointsOK
  <1>3. HandlersOK
    BY <1>1, NoRows, EmptySeqs DEF HandlersOK, HandlerTypes, HandlerOK
  <1>4. <<"meta">> \in Path /\ <<"tags">> \in Path /\ <<"wal">> \in Path /\ <<>> \in Path
    BY Tuples, EmptySeqs DEF Path, Name
  <1>5. PathsOK
    BY <1>1, <1>4 DEF PathsOK
  <1> QED
    BY <1>2, <1>3, <1>5, TypeParts

\* The points, caches, handlers and paths of Catalog keep their types.
THEOREM TypeCorrect == Spec => []TypeOK
  <1>1. Init => TypeOK
    BY InitType
  <1>2. TypeOK /\ [Next]_vars => TypeOK'
    BY StepType
  <1> QED
    BY <1>1, <1>2, PTL DEF Spec

-----------------------------------------------------------------------------
(* The two caches *)

ServerBehind == \A k \in Key : \A q \in serverCache[k] :
                    q \in written[k] /\ \E p \in engineCache[k] : p.ts >= q.ts

PendingWritten(g) == \A h \in Handler : Pending(h, g) =>
                         /\ RowPoint(Head(rows[h])) \in written[TagKey(g)]
                         /\ \E p \in engineCache[TagKey(g)] : p.ts >= Head(rows[h]).ts

EngineMatched(g) == \A p \in engineCache[TagKey(g)] :
                        \/ \E q \in serverCache[TagKey(g)] : q.ts >= p.ts
                        \/ \E h \in Handler : Pending(h, g) /\ Head(rows[h]).ts = p.ts

LEMMA CacheParts ==
    CacheInv <=> ServerBehind /\ \A g \in Tag : PendingWritten(g) /\ EngineMatched(g)
  BY DEF CacheInv, ServerBehind, PendingWritten, EngineMatched

LEMMA NextCache ==
    ASSUME ServerBehind', \A g \in Tag : PendingWritten(g)' /\ EngineMatched(g)'
    PROVE  CacheInv'
  BY DEF CacheInv, ServerBehind, PendingWritten, EngineMatched

\* A step that leaves the points alone and no handler at, or away from, the
\* update of the server's cache.
SamePending == \A h \in Handler :
                   /\ pc'[h] = "cache" <=> pc[h] = "cache"
                   /\ pc[h] = "cache" => rows'[h] = rows[h]

LEMMA StillCached ==
    ASSUME CacheInv, UNCHANGED <<engineCache, serverCache, written>>, SamePending
    PROVE  CacheInv'
  <1>1. ServerBehind'
    BY CacheParts DEF ServerBehind
  <1>2. ASSUME NEW g \in Tag PROVE PendingWritten(g)'
    BY CacheParts DEF PendingWritten, Pending, SamePending
  <1>3. ASSUME NEW g \in Tag PROVE EngineMatched(g)'
    BY CacheParts DEF EngineMatched, Pending, SamePending
  <1> QED
    BY <1>1, <1>2, <1>3, NextCache

\* The engine's cache only ever goes forward.
LEMMA WriteGrows ==
    ASSUME TypeOK, NEW k \in Key, NEW p \in Point, Write(k, p)
    PROVE  /\ \A i \in Key : \A x \in engineCache[i] : \E y \in engineCache'[i] : y.ts >= x.ts
           /\ \E y \in engineCache'[k] : y.ts >= p.ts
           /\ engineCache'[k] \subseteq engineCache[k] \union {p}
           /\ \A i \in Key : written[i] \subseteq written'[i]
           /\ p \in written'[k]
           /\ \A i \in Key : i # k => engineCache'[i] = engineCache[i]
           /\ UNCHANGED serverCache
  <1>1. /\ engineCache[k] \in SUBSET Point /\ \A x, y \in engineCache[k] : x = y
    BY TypeParts DEF PointsOK
  <1>2. /\ engineCache'[k] = Update(engineCache[k], p) /\ UNCHANGED serverCache
        /\ written'[k] = written[k] \union {p}
        /\ \A i \in Key : i # k => engineCache'[i] = engineCache[i] /\ written'[i] = written[i]
    BY WriteEffect
  <1>3. /\ \A q \in engineCache[k] \union {p} : \E x \in Update(engineCache[k], p) : x.ts >= q.ts
        /\ Update(engineCache[k], p) \subseteq engineCache[k] \union {p}
    BY <1>1, UpdateFacts
  <1>4. \A i \in Key : \A x \in engineCache[i] : x.ts \in Int
    BY Times, TypeParts DEF PointsOK
  <1>5. ASSUME NEW i \in Key, NEW x \in engineCache[i]
        PROVE  \E y \in engineCache'[i] : y.ts >= x.ts
    <2>1. CASE i = k
      BY <1>2, <1>3, <2>1
    <2>2. CASE i # k
      <3>1. x \in engineCache'[i] /\ x.ts \in Int
        BY <1>2, <1>4, <2>2
      <3> QED
        BY <3>1
    <2> QED
      BY <2>1, <2>2
  <1> QED
    BY <1>2, <1>3, <1>5

LEMMA PointTimes ==
    TypeOK => \A k \in Key : /\ \A x \in engineCache[k] : x.ts \in Int
                             /\ \A x \in serverCache[k] : x.ts \in Int
                             /\ \A x \in written[k] : x.ts \in Int
  BY Times, TypeParts DEF PointsOK

LEMMA WriteServerBehind ==
    ASSUME TypeOK, TypeOK', CacheInv, NEW k \in Key, NEW p \in Point, Write(k, p)
    PROVE  ServerBehind'
  <1> SUFFICES ASSUME NEW i \in Key, NEW q \in serverCache'[i]
               PROVE  q \in written'[i] /\ \E y \in engineCache'[i] : y.ts >= q.ts
    BY DEF ServerBehind
  <1>1. q \in serverCache[i] /\ written[i] \subseteq written'[i]
    BY WriteGrows
  <1>2. PICK x \in engineCache[i] : q \in written[i] /\ x.ts >= q.ts
    BY <1>1, CacheParts DEF ServerBehind
  <1>3. PICK y \in engineCache'[i] : y.ts >= x.ts
    BY <1>2, WriteGrows
  <1>4. q.ts \in Int /\ x.ts \in Int
    BY <1>1, <1>2, PointTimes
  <1>5. y.ts \in Int
    <2>1. engineCache' \in [Key -> SUBSET Point]
      BY DEF TypeOK
    <2> QED
      BY <2>1, <1>3, Times
  <1> QED
    BY <1>1, <1>2, <1>3, <1>4, <1>5

LEMMA UpdatePointCached ==
    ASSUME TypeOK, TypeOK', CacheInv, NEW h \in Handler, UpdatePoint(h)
    PROVE  CacheInv'
  <1>1. PICK t \in Table, f \in Tag, p \in Point : Write(UpdateKey(t, f), p)
    BY UpdatePointEffect
  <1>2. UpdateKey(t, f) \in Key
    BY Keys
  <1>3. ServerBehind'
    BY <1>1, <1>2, WriteServerBehind
  <1>4. SamePending
    BY UpdatePointEffect DEF SamePending, Others
  <1>5. ASSUME NEW g \in Tag PROVE PendingWritten(g)' /\ EngineMatched(g)'
    <2>1. TagKey(g) \in Key /\ TagKey(g) # UpdateKey(t, f)
      BY Keys
    <2>2. /\ engineCache'[TagKey(g)] = engineCache[TagKey(g)]
          /\ serverCache'[TagKey(g)] = serverCache[TagKey(g)]
          /\ written[TagKey(g)] \subseteq written'[TagKey(g)]
      BY <1>1, <1>2, <2>1, WriteGrows
    <2>3. PendingWritten(g) /\ EngineMatched(g)
      BY CacheParts
    <2>4. PendingWritten(g)'
      BY <1>4, <2>2, <2>3 DEF PendingWritten, Pending, SamePending
    <2>5. EngineMatched(g)'
      BY <1>4, <2>2, <2>3 DEF EngineMatched, Pending, SamePending
    <2> QED
      BY <2>4, <2>5
  <1> QED
    BY <1>3, <1>5, NextCache

\* Between its two updates a handler is what the engine's cache may be ahead by.
LEMMA WriteRowCached ==
    ASSUME TypeOK, TypeOK', CacheInv, NEW h \in Handler, WriteRow(h)
    PROVE  CacheInv'
  <1> DEFINE r == Head(rows[h])
             k == TagKey(r.tag)
             p == RowPoint(r)
  <1>1. /\ r \in Row /\ r.tag \in Tag /\ k \in Key /\ p \in Point /\ p.ts = r.ts
        /\ pc[h] = "write" /\ pc'[h] = "cache" /\ rows' = rows
        /\ \A i \in Handler \ {h} : pc'[i] = pc[i]
    BY WriteRowEffect, Keys, RowTypes DEF Others
  <1>2. Write(k, p)
    BY WriteRowEffect
  <1> HIDE DEF k, p
  <1>3. ServerBehind'
    BY <1>1, <1>2, WriteServerBehind
  <1>4. /\ \A i \in Key : \A x \in engineCache[i] : \E y \in engineCache'[i] : y.ts >= x.ts
        /\ \E y \in engineCache'[k] : y.ts >= p.ts
        /\ engineCache'[k] \subseteq engineCache[k] \union {p}
        /\ \A i \in Key : written[i] \subseteq written'[i]
        /\ p \in written'[k]
        /\ \A i \in Key : i # k => engineCache'[i] = engineCache[i]
        /\ UNCHANGED serverCache
    BY <1>1, <1>2, WriteGrows
  <1>5. ASSUME NEW g \in Tag, NEW i \in Handler, Pending(i, g)'
        PROVE  /\ RowPoint(Head(rows'[i])) \in written'[TagKey(g)]
               /\ \E y \in engineCache'[TagKey(g)] : y.ts >= Head(rows'[i]).ts
    <2>1. CASE i = h
      <3>1. g = r.tag /\ TagKey(g) = k /\ RowPoint(Head(rows'[i])) = p /\ Head(rows'[i]).ts = p.ts
        BY <1>1, <1>5, <2>1 DEF Pending, k, p
      <3> QED
        BY <1>4, <3>1
    <2>2. CASE i # h
      <3>1. Pending(i, g) /\ rows'[i] = rows[i]
        BY <1>1, <1>5, <2>2 DEF Pending
      <3>2. TagKey(g) \in Key
        BY Keys
      <3>3. RowPoint(Head(rows[i])) \in written[TagKey(g)]
        BY <3>1, CacheParts DEF PendingWritten
      <3>4. PICK x \in engineCache[TagKey(g)] : x.ts >= Head(rows[i]).ts
        BY <3>1, CacheParts DEF PendingWritten
      <3>5. PICK y \in engineCache'[TagKey(g)] : y.ts >= x.ts
        BY <1>4, <3>2, <3>4
      <3>6. Head(rows[i]).ts \in Int
        <4>1. rows[i] # <<>> /\ rows[i] \in Seq(Row)
          BY <3>1, TypeParts DEF HandlersOK, HandlerTypes, HandlerOK, Pending
        <4>2. Head(rows[i]) \in Row
          BY <4>1, HeadTail
        <4> QED
          BY <4>2, RowTypes, Times
      <3>7. x.ts \in Int /\ y.ts \in Int
        <4>1. engineCache' \in [Key -> SUBSET Point]
          BY DEF TypeOK
        <4> QED
          BY <4>1, <3>2, <3>4, <3>5, PointTimes, Times
      <3>8. y.ts >= Head(rows[i]).ts
        BY <3>4, <3>5, <3>6, <3>7
      <3> QED
        BY <1>4, <3>1, <3>2, <3>3, <3>5, <3>8
    <2> QED
      BY <2>1, <2>2
  <1>6. ASSUME NEW g \in Tag, NEW x \in engineCache'[TagKey(g)]
        PROVE  \/ \E q \in serverCache'[TagKey(g)] : q.ts >= x.ts
               \/ \E i \in Handler : Pending(i, g)' /\ Head(rows'[i]).ts = x.ts
    <2>1. TagKey(g) \in Key
      BY Keys
    <2>2. CASE x \in engineCache[TagKey(g)]
      <3>1. \/ \E q \in serverCache[TagKey(g)] : q.ts >= x.ts
            \/ \E i \in Handler : Pending(i, g) /\ Head(rows[i]).ts = x.ts
        BY <2>2, CacheParts DEF EngineMatched
      <3>2. \A i \in Handler : Pending(i, g) => Pending(i, g)' /\ rows'[i] = rows[i]
        BY <1>1 DEF Pending
      <3> QED
        BY <1>4, <3>1, <3>2
    <2>3. CASE x \notin engineCache[TagKey(g)]
      <3>1. TagKey(g) = k /\ x = p
        BY <1>4, <2>1, <2>3
      <3>2. g = r.tag
        BY <1>1, <3>1, Keys DEF k
      <3>3. Pending(h, g)' /\ Head(rows'[h]).ts = x.ts
        BY <1>1, <3>1, <3>2 DEF Pending
      <3> QED
        BY <3>3
    <2> QED
      BY <2>2, <2>3
  <1> QED
    BY <1>3, <1>5, <1>6, NextCache DEF PendingWritten, EngineMatched

LEMMA CacheRowCached ==
    ASSUME TypeOK, TypeOK', CacheInv, NEW h \in Handler, CacheRow(h)
    PROVE  CacheInv'
  <1> DEFINE r == Head(rows[h])
             k == TagKey(r.tag)
             p == RowPoint(r)
  <1>1. /\ r \in Row /\ r.tag \in Tag /\ p.ts = r.ts
        /\ pc[h] = "cache" /\ pc'[h] = "row"
        /\ \A i \in Handler \ {h} : pc'[i] = pc[i] /\ rows'[i] = rows[i]
        /\ UNCHANGED <<engineCache, written>>
    BY CacheRowEffect, RowTypes DEF Others
  <1>2. /\ k \in Key /\ p \in Point
        /\ serverCache'[k] \subseteq serverCache[k] \union {p}
        /\ \A q \in serverCache[k] \union {p} : \E x \in serverCache'[k] : x.ts >= q.ts
        /\ \A i \in Key : i # k => serverCache'[i] = serverCache[i]
    BY ServerCacheEffect
  <1> HIDE DEF k, p
  <1>3. p \in written[k] /\ \E x \in engineCache[k] : x.ts >= p.ts
    BY <1>1, CacheParts DEF PendingWritten, Pending, k, p
  <1>4. ServerBehind'
    BY <1>1, <1>2, <1>3, CacheParts DEF ServerBehind
  <1>5. ASSUME NEW g \in Tag PROVE PendingWritten(g)'
    <2>1. ASSUME NEW i \in Handler, Pending(i, g)' PROVE Pending(i, g) /\ rows'[i] = rows[i]
      BY <1>1, <2>1 DEF Pending
    <2> QED
      BY <1>1, <2>1, CacheParts DEF PendingWritten
  <1>6. ASSUME NEW g \in Tag, NEW x \in engineCache'[TagKey(g)]
        PROVE  \/ \E q \in serverCache'[TagKey(g)] : q.ts >= x.ts
               \/ \E i \in Handler : Pending(i, g)' /\ Head(rows'[i]).ts = x.ts
    <2>1. TagKey(g) \in Key /\ x \in engineCache[TagKey(g)]
      BY <1>1, Keys
    <2>2. CASE \E q \in serverCache[TagKey(g)] : q.ts >= x.ts
      <3>1. PICK q \in serverCache[TagKey(g)] : q.ts >= x.ts
        BY <2>2
      <3>2. CASE TagKey(g) # k
        BY <1>2, <2>1, <3>1, <3>2
      <3>3. CASE TagKey(g) = k
        <4>1. PICK z \in serverCache'[k] : z.ts >= q.ts
          BY <1>2, <3>1, <3>3
        <4>2. x.ts \in Int /\ q.ts \in Int /\ z.ts \in Int
          <5>1. serverCache' \in [Key -> SUBSET Point]
            BY DEF TypeOK
          <5> QED
            BY <1>2, <2>1, <3>1, <4>1, <5>1, PointTimes, Times
        <4> QED
          BY <3>1, <3>3, <4>1, <4>2
      <3> QED
        BY <3>2, <3>3
    <2>3. CASE \E i \in Handler : Pending(i, g) /\ Head(rows[i]).ts = x.ts
      <3>1. PICK i \in Handler : Pending(i, g) /\ Head(rows[i]).ts = x.ts
        BY <2>3
      <3>2. CASE i # h
        <4>1. Pending(i, g)' /\ rows'[i] = rows[i]
          BY <1>1, <3>1, <3>2 DEF Pending
        <4> QED
          BY <3>1, <4>1
      <3>3. CASE i = h
        <4>1. g = r.tag /\ TagKey(g) = k /\ x.ts = p.ts
          BY <1>1, <3>1, <3>3 DEF Pending, k
        <4> QED
          BY <1>2, <4>1
      <3> QED
        BY <3>2, <3>3
    <2> QED
      BY <2>1, <2>2, <2>3, CacheParts DEF EngineMatched
  <1> QED
    BY <1>4, <1>5, <1>6, NextCache DEF EngineMatched

\* No DDL step but the second half of UPDATE touches a cache, and none a
\* handler that is between its two updates.
LEMMA DdlPending ==
    ASSUME TypeOK, Ddl
    PROVE  /\ SamePending /\ UNCHANGED dataVars
           /\ dropped \subseteq dropped'
  <1>1. ASSUME NEW d \in Db, CreateDatabase(d)
        PROVE  SamePending /\ dropped' = dropped /\ UNCHANGED dataVars
    BY <1>1 DEF CreateDatabase, SamePending, handlerVars, insertVars
  <1>2. ASSUME NEW t \in Table, CreateTable(t)
        PROVE  SamePending /\ dropped' = dropped /\ UNCHANGED dataVars
    BY <1>2 DEF CreateTable, SamePending, handlerVars, insertVars
  <1>3. ASSUME NEW h \in Handler, NEW t \in Table, NEW names \in TagList, ExecuteCreateTags(h, t, names)
        PROVE  SamePending /\ dropped' = dropped /\ UNCHANGED dataVars
    BY <1>3, ExecuteCreateTagsEffect DEF SamePending, Others, treeVars
  <1>4. ASSUME NEW h \in Handler, NEW v, StartsRemoval(h, v)
        PROVE  SamePending /\ dropped \subseteq dropped' /\ UNCHANGED dataVars
    <2>1. pc[h] # "cache" /\ pc'[h] = "remove"
      BY <1>4, HandlerType DEF StartsRemoval, CallRemoveAll, Goto, HandlerTypes
    <2> QED
      BY <1>4, <2>1 DEF StartsRemoval, SamePending, Others
  <1> QED
    BY <1>1, <1>2, <1>3, <1>4, DdlCases

LEMMA DdlStepPending ==
    ASSUME TypeOK, NEW h \in Handler, DdlStep(h)
    PROVE  /\ SamePending
           /\ UpdatePoint(h) \/ UNCHANGED <<engineCache, serverCache, written>>
  <1>1. CASE CreateTag(h)
    BY <1>1, CreateTagEffect DEF SamePending, Others, dataVars
  <1>2. CASE Enter(h)
    BY <1>2, EnterEffect DEF SamePending, insertVars, dataVars
  <1>3. CASE RemoveFile(h)
    BY <1>3, RemoveFileEffect DEF SamePending, insertVars
  <1>4. CASE RemoveDir(h)
    BY <1>4, RemoveDirEffect DEF SamePending, insertVars, dataVars
  <1>5. CASE EndRemoval(h)
    BY <1>5, EndRemovalEffect DEF SamePending, Others, dataVars
  <1>6. CASE DropDatabaseDir(h)
    <2>1. StartsRemoval(h, <<dropping[h]>>)
      BY <1>6, DirectoryRemoval
    <2>2. pc[h] # "cache" /\ pc'[h] = "remove"
      BY <2>1, HandlerType DEF StartsRemoval, CallRemoveAll, Goto, HandlerTypes
    <2> QED
      BY <2>1, <2>2 DEF StartsRemoval, SamePending, Others, dataVars
  <1>7. CASE UpdatePoint(h)
    BY <1>7, UpdatePointEffect DEF SamePending, Others
  <1> QED
    BY <1>1, <1>2, <1>3, <1>4, <1>5, <1>6, <1>7 DEF DdlStep

LEMMA CacheStep ==
    ASSUME TypeOK, TypeOK', CacheInv, [Next]_vars
    PROVE  CacheInv'
  <1>1. CASE Ddl
    BY <1>1, DdlPending, StillCached DEF dataVars
  <1>2. ASSUME NEW h \in Handler, DdlStep(h) PROVE CacheInv'
    BY <1>2, DdlStepPending, StillCached, UpdatePointCached
  <1>3. ASSUME NEW h \in Handler, StartRow(h) PROVE CacheInv'
    <2>1. SamePending /\ UNCHANGED dataVars
      BY <1>3, StartRowEffect DEF SamePending, Others
    <2> QED
      BY <2>1, StillCached DEF dataVars
  <1>4. ASSUME NEW h \in Handler, NEW rs \in Seq(Row), Insert(h, rs) PROVE CacheInv'
    <2>1. SamePending /\ UNCHANGED dataVars
      BY <1>4, InsertEffect DEF SamePending, Others
    <2> QED
      BY <2>1, StillCached DEF dataVars
  <1>5. ASSUME NEW h \in Handler, NEW rs \in Seq(Row), NEW t \in Table, ExecuteInsert(h, t, rs)
        PROVE  CacheInv'
    <2>1. SamePending /\ UNCHANGED dataVars
      BY <1>5, ExecuteInsertEffect DEF SamePending, Others
    <2> QED
      BY <2>1, StillCached DEF dataVars
  <1>6. ASSUME NEW k \in Key, NEW d \in Date, Flush(k, d) PROVE CacheInv'
    <2>1. SamePending /\ UNCHANGED <<engineCache, serverCache, written>>
      BY <1>6, FlushEffect DEF handlerVars, insertVars, SamePending
    <2> QED
      BY <2>1, StillCached
  <1>7. CASE Restart
    BY <1>7, RestartEffect, Keys, NextCache DEF ServerBehind, PendingWritten, EngineMatched, Pending
  <1>8. CASE UNCHANGED vars
    <2>1. SamePending /\ UNCHANGED dataVars
      BY <1>8 DEF vars, handlerVars, insertVars, SamePending
    <2> QED
      BY <2>1, StillCached DEF dataVars
  <1> QED
    BY <1>1, <1>2, <1>3, WriteRowCached, CacheRowCached, <1>4, <1>5, <1>6, <1>7, <1>8,
       CatalogAssumption DEF Next

LEMMA CacheAnswers == ASSUME TypeOK, CacheInv PROVE CachesAgree
  <1> SUFFICES ASSUME NEW g \in Tag,
                      \A h \in Handler : pc[h] = "cache" => Head(rows[h]).tag # g,
                      \A p, q \in written[TagKey(g)] : p.ts = q.ts => p = q
               PROVE  engineCache[TagKey(g)] = serverCache[TagKey(g)]
    BY DEF CachesAgree, SelectLatest
  <1> DEFINE k == TagKey(g)
  <1>1. k \in Key
    BY Keys
  <1>2. ASSUME NEW p \in engineCache[k] PROVE p \in serverCache[k]
    <2>1. PICK q \in serverCache[k] : q.ts >= p.ts
      BY CacheParts DEF EngineMatched, Pending
    <2>2. PICK x \in engineCache[k] : q \in written[k] /\ x.ts >= q.ts
      BY <1>1, <2>1, CacheParts DEF ServerBehind
    <2>3. x = p /\ p \in written[k]
      BY <1>1, <2>2, TypeParts DEF PointsOK
    <2>4. p.ts = q.ts
      <3>1. p.ts \in Int /\ q.ts \in Int
        BY <1>1, <2>1, PointTimes
      <3> QED
        BY <2>1, <2>2, <2>3, <3>1
    <2> QED
      BY <2>1, <2>2, <2>3, <2>4
  <1>3. ASSUME NEW q \in serverCache[k] PROVE q \in engineCache[k]
    <2>1. PICK x \in engineCache[k] : TRUE
      BY <1>1, CacheParts DEF ServerBehind
    <2>2. x \in serverCache[k]
      BY <1>2, <2>1
    <2>3. x = q
      BY <1>1, <2>2, TypeParts DEF PointsOK
    <2> QED
      BY <2>1, <2>3
  <1> QED
    BY <1>2, <1>3

LEMMA InitCache == Init => CacheInv
  <1> SUFFICES ASSUME Init PROVE CacheInv
    OBVIOUS
  <1>1. /\ \A k \in Key : engineCache[k] = {} /\ serverCache[k] = {}
        /\ \A h \in Handler : pc[h] = "idle"
    BY DEF Init
  <1> QED
    BY <1>1, Keys DEF CacheInv, Pending

\* SELECT LATEST and the engine answer alike for a tag that no handler is
\* between its two updates of, in whatever order any number of them came.
THEOREM CachesConverge == Spec => []CachesAgree
  <1>1. Init => CacheInv
    BY InitCache
  <1>2. TypeOK /\ TypeOK' /\ CacheInv /\ [Next]_vars => CacheInv'
    BY CacheStep
  <1>3. TypeOK /\ CacheInv => CachesAgree
    BY CacheAnswers
  <1> QED
    BY <1>1, <1>2, <1>3, TypeCorrect, PTL DEF Spec

-----------------------------------------------------------------------------
(* What a RemoveAll looks at *)

\* A step that starts, advances and ends no RemoveAll.
SameWalk == UNCHANGED walkVars /\ \A h \in Handler : pc'[h] = "remove" <=> pc[h] = "remove"

\* What a step adds to the tree.
TreeGrows ==
    /\ dirs \subseteq dirs' /\ registered \subseteq registered'
    /\ \A p \in registered' : p \in registered \/ (p \in dirs' /\ ~Threatened(p))

Quiet == SameWalk /\ TreeGrows /\ UNCHANGED <<dropped, dropping>>

LEMMA CreateGrows ==
    ASSUME TypeOK, NEW path \in Path, NEW new, Create(path, new), new \subseteq CreateDirectories(dirs, path)
    PROVE  TreeGrows
  BY CreateEffect DEF TreeGrows

LEMMA SameDirs == UNCHANGED <<dirs, registered>> => TreeGrows
  BY DEF TreeGrows

LEMMA SameTree == UNCHANGED treeVars => TreeGrows /\ UNCHANGED dropped
  BY SameDirs DEF treeVars

LEMMA NextCases ==
    ASSUME TypeOK, [Next]_vars
    PROVE  \/ Quiet
           \/ \E h \in Handler, v \in Path : StartsRemoval(h, v)
           \/ \E h \in Handler : Enter(h) \/ RemoveFile(h) \/ RemoveDir(h) \/ EndRemoval(h)
           \/ Restart
  <1>1. ASSUME NEW d \in Db, CreateDatabase(d) PROVE Quiet
    <2>1. TreeGrows
      BY <1>1, DatabasePath, CreateGrows DEF CreateDatabase
    <2> QED
      BY <1>1, <2>1 DEF CreateDatabase, Quiet, SameWalk, handlerVars, insertVars
  <1>2. ASSUME NEW t \in Table, CreateTable(t) PROVE Quiet
    <2>1. GetTablePath(t) \in CreateDirectories(dirs, GetTablePath(t)) /\ GetTablePath(t) \in Path
      BY CreatedTable, StatementPaths
    <2>2. TreeGrows
      BY <1>2, <2>1, CreateGrows DEF CreateTable
    <2> QED
      BY <1>2, <2>2 DEF CreateTable, Quiet, SameWalk, handlerVars, insertVars
  <1>3. ASSUME NEW h \in Handler, NEW t \in Table, NEW names \in TagList, ExecuteCreateTags(h, t, names)
        PROVE  Quiet
    BY <1>3, ExecuteCreateTagsEffect, SameTree DEF Quiet, SameWalk, Others
  <1>4. ASSUME NEW h \in Handler, CreateTag(h) PROVE Quiet
    <2>1. ASSUME UNCHANGED <<dirs, registered>> PROVE TreeGrows
      BY <2>1, SameDirs
    <2>2. ASSUME table[h] \in Table, NEW g \in Tag,
                 Create(GetTagPath(table[h], g), {GetTagPath(table[h], g), GetTablePath(table[h])})
          PROVE  TreeGrows
      <3>1. /\ GetTablePath(table[h]) \in CreateDirectories(dirs, GetTagPath(table[h], g))
            /\ GetTagPath(table[h], g) \in CreateDirectories(dirs, GetTagPath(table[h], g))
            /\ GetTagPath(table[h], g) \in Path
        BY <2>2, Created, StatementPaths
      <3> QED
        BY <2>2, <3>1, CreateGrows
    <2>3. TreeGrows
      <3>1. CASE \E g \in Tag :
                   Create(GetTagPath(table[h], g), {GetTagPath(table[h], g), GetTablePath(table[h])})
        <4>1. PICK g \in Tag :
                   Create(GetTagPath(table[h], g), {GetTagPath(table[h], g), GetTablePath(table[h])})
          BY <3>1
        <4>2. table[h] \in Table
          BY <1>4, HandlerFacts, HandlerType DEF CreateTag, HandlerOK, HandlerTypes
        <4> QED
          BY <2>2, <4>1, <4>2
      <3>2. \/ UNCHANGED <<dirs, registered>>
            \/ \E g \in Tag :
                   Create(GetTagPath(table[h], g), {GetTagPath(table[h], g), GetTablePath(table[h])})
        BY <1>4, CreateTagEffect
      <3> QED
        BY <2>1, <3>1, <3>2
    <2> QED
      BY <1>4, <2>3, CreateTagEffect DEF Quiet, SameWalk, Others
  <1>5. ASSUME NEW h \in Handler, UpdatePoint(h) PROVE Quiet
    BY <1>5, UpdatePointEffect, SameTree DEF Quiet, SameWalk, Others
  <1>6. ASSUME NEW h \in Handler, StartRow(h) PROVE Quiet
    BY <1>6, StartRowEffect, SameTree DEF Quiet, SameWalk, Others
  <1>7. ASSUME NEW h \in Handler, WriteRow(h) PROVE Quiet
    BY <1>7, WriteRowEffect, SameTree DEF Quiet, SameWalk, Others
  <1>8. ASSUME NEW h \in Handler, CacheRow(h) PROVE Quiet
    BY <1>8, CacheRowEffect, SameTree DEF Quiet, SameWalk, Others
  <1>9. ASSUME NEW h \in Handler, NEW rs \in Seq(Row), Insert(h, rs) PROVE Quiet
    BY <1>9, InsertEffect, SameTree DEF Quiet, SameWalk, Others
  <1>10. ASSUME NEW h \in Handler, NEW rs \in Seq(Row), NEW t \in Table, ExecuteInsert(h, t, rs)
         PROVE  Quiet
    BY <1>10, ExecuteInsertEffect, SameTree DEF Quiet, SameWalk, Others
  <1>11. ASSUME NEW k \in Key, NEW d \in Date, Flush(k, d) PROVE Quiet
    BY <1>11, FlushEffect DEF Quiet, SameWalk, TreeGrows, handlerVars, insertVars
  <1>12. CASE UNCHANGED vars
    BY <1>12, SameTree DEF vars, handlerVars, insertVars, Quiet, SameWalk
  <1>13. CASE Ddl
    BY <1>1, <1>2, <1>3, <1>13, DdlCases
  <1>14. ASSUME NEW h \in Handler, DropDatabaseDir(h) PROVE StartsRemoval(h, <<dropping[h]>>) /\ <<dropping[h]>> \in Path
    BY <1>14, DirectoryRemoval DEF StartsRemoval
  <1>15. ASSUME NEW h \in Handler, DdlStep(h)
         PROVE  \/ Quiet
                \/ \E v \in Path : StartsRemoval(h, v)
                \/ Enter(h) \/ RemoveFile(h) \/ RemoveDir(h) \/ EndRemoval(h)
    BY <1>4, <1>5, <1>14, <1>15 DEF DdlStep
  <1> QED
    BY <1>6, <1>7, <1>8, <1>9, <1>10, <1>11, <1>12, <1>13, <1>15, CatalogAssumption DEF Next

WalkOK(h) == IF pc[h] = "remove" THEN \A p \in todo[h] \union opened[h] : IsPrefix(victim[h], p)
             ELSE opened[h] = {}

\* A call of RemoveAll starts with the path itself, ...
LEMMA StartWalk ==
    ASSUME TypeOK, NEW h \in Handler, NEW v \in Path, StartsRemoval(h, v), \A i \in Handler : WalkOK(i)
    PROVE  /\ pc'[h] = "remove" /\ victim'[h] = v /\ todo'[h] = {v} /\ pc[h] # "remove"
           /\ \A i \in Handler \ {h} : UNCHANGED <<pc[i], victim[i], todo[i]>>
           /\ UNCHANGED <<opened, doomed>>
           /\ \A i \in Handler : WalkOK(i)'
  <1>1. /\ pc' = [pc EXCEPT ![h] = "remove"] /\ victim' = [victim EXCEPT ![h] = v]
        /\ todo' = [todo EXCEPT ![h] = {v}] /\ UNCHANGED <<opened, doomed>>
        /\ pc[h] # "remove" /\ v \in Path
    BY DEF StartsRemoval, CallRemoveAll, Goto
  <1>2. pc \in [Handler -> {"idle", "row", "write", "cache", "create", "remove", "update", "drop"}]
    BY HandlerType DEF HandlerTypes
  <1>3. victim \in [Handler -> Path] /\ todo \in [Handler -> SUBSET Path]
    BY TypeParts DEF PathsOK
  <1>4. /\ pc'[h] = "remove" /\ victim'[h] = v /\ todo'[h] = {v}
        /\ \A i \in Handler \ {h} : UNCHANGED <<pc[i], victim[i], todo[i]>>
    BY <1>1, <1>2, <1>3
  <1>5. opened[h] = {}
    BY <1>1 DEF WalkOK
  <1>6. WalkOK(h)'
    BY <1>1, <1>4, <1>5, PrefixOfSelf DEF WalkOK
  <1>7. \A i \in Handler \ {h} : WalkOK(i)'
    BY <1>1, <1>4 DEF WalkOK
  <1> QED
    BY <1>1, <1>4, <1>6, <1>7

\* ... and goes on with what lies directly under a path it has.
LEMMA EnterWalk ==
    ASSUME TypeOK, NEW h \in Handler, Enter(h), \A i \in Handler : WalkOK(i)
    PROVE  \A i \in Handler : WalkOK(i)'
  <1>1. PICK p \in todo[h] : /\ todo'[h] \subseteq todo[h] \union Subdirs(p)
                             /\ opened'[h] \subseteq opened[h] \union {p}
    BY EnterEffect
  <1>2. /\ pc[h] = "remove" /\ UNCHANGED <<pc, victim>>
        /\ \A i \in Handler \ {h} : UNCHANGED <<todo[i], opened[i]>>
    BY EnterEffect DEF insertVars
  <1>3. victim[h] \in Path /\ p \in Path /\ IsPrefix(victim[h], p) /\ Subdirs(p) \subseteq Path
    BY <1>1, <1>2, TypeParts DEF PathsOK, WalkOK, Subdirs
  <1>4. \A q \in Subdirs(p) : IsPrefix(victim[h], q)
    BY <1>3, PrefixTransitive DEF Subdirs
  <1>5. WalkOK(h)'
    BY <1>1, <1>2, <1>3, <1>4 DEF WalkOK
  <1> QED
    BY <1>2, <1>5 DEF WalkOK

LEMMA WalkStep ==
    ASSUME TypeOK, \A h \in Handler : WalkOK(h), [Next]_vars
    PROVE  \A h \in Handler : WalkOK(h)'
  <1>1. CASE Quiet
    BY <1>1 DEF WalkOK, Quiet, SameWalk, walkVars
  <1>2. ASSUME NEW h \in Handler, NEW v \in Path, StartsRemoval(h, v) PROVE \A i \in Handler : WalkOK(i)'
    BY <1>2, StartWalk
  <1>3. ASSUME NEW h \in Handler, Enter(h) PROVE \A i \in Handler : WalkOK(i)'
    BY <1>3, EnterWalk
  <1>4. ASSUME NEW h \in Handler, RemoveFile(h) PROVE \A i \in Handler : WalkOK(i)'
    BY <1>4, RemoveFileEffect DEF WalkOK, insertVars
  <1>5. ASSUME NEW h \in Handler, RemoveDir(h) PROVE \A i \in Handler : WalkOK(i)'
    BY <1>5, RemoveDirEffect DEF WalkOK, insertVars
  <1>6. ASSUME NEW h \in Handler, EndRemoval(h) PROVE \A i \in Handler : WalkOK(i)'
    <2>1. /\ pc'[h] # "remove" /\ opened'[h] = {}
          /\ \A i \in Handler \ {h} : pc'[i] = pc[i] /\ victim'[i] = victim[i]
          /\ UNCHANGED <<todo, opened>>
      BY <1>6, EndRemovalEffect DEF Others
    <2> QED
      BY <2>1 DEF WalkOK
  <1>7. CASE Restart
    BY <1>7, RestartEffect DEF WalkOK
  <1> QED
    BY <1>1, <1>2, <1>3, <1>4, <1>5, <1>6, <1>7, NextCases

\* What RemoveAll was called for is not above hot/tags, so no file is listed.
LEMMA NoFiles ==
    ASSUME NEW v \in Path, v # <<>>, Head(v) # "tags", NEW p \in Path, IsPrefix(v, p)
    PROVE  FilesIn(p) = {}
  <1>1. CASE p = <<"tags">>
    <2>1. v \in Seq(Name) /\ Len(v) >= 1 /\ Head(v) = v[1]
      BY DEF Path
    <2>2. v[1] = p[1]
      BY <2>1, PrefixElements
    <2> QED
      BY <1>1, <2>1, <2>2
  <1>2. CASE p # <<"tags">>
    BY <1>2 DEF FilesIn
  <1> QED
    BY <1>1, <1>2

DoomedOK(h) ==
    /\ doomed[h] = {} /\ dropping[h] # "tags"
    /\ pc[h] = "remove" => victim[h] # <<>> /\ Head(victim[h]) # "tags"

LEMMA DoomedStep ==
    ASSUME TypeOK, \A h \in Handler : WalkOK(h), DoomedInv, [Next]_vars
    PROVE  DoomedInv'
  <1> SUFFICES ASSUME "tags" \notin dropped', dropped \subseteq dropped' => \A i \in Handler : DoomedOK(i)
               PROVE  \A i \in Handler : DoomedOK(i)'
    BY DEF DoomedInv, DoomedOK
  <1>1. CASE Quiet
    BY <1>1 DEF DoomedOK, Quiet, SameWalk, walkVars
  <1>2. ASSUME NEW h \in Handler, NEW v \in Path, StartsRemoval(h, v) PROVE \A i \in Handler : DoomedOK(i)'
    <2>1. /\ pc'[h] = "remove" /\ victim'[h] = v /\ UNCHANGED doomed
          /\ \A i \in Handler \ {h} : UNCHANGED <<pc[i], victim[i]>>
      BY <1>2, StartWalk
    <2>2. /\ dropped \subseteq dropped' /\ v # <<>>
          /\ Head(v) # "tags" \/ Head(v) = dropping[h]
          /\ dropping'[h] # "tags" \/ "tags" \in dropped' \/ dropping'[h] = dropping[h]
          /\ \A i \in Handler \ {h} : dropping'[i] = dropping[i]
      BY <1>2 DEF StartsRemoval, Others
    <2>3. \A i \in Handler : DoomedOK(i)
      BY <2>2
    <2> QED
      BY <2>1, <2>2, <2>3 DEF DoomedOK
  <1>3. ASSUME NEW h \in Handler, Enter(h) PROVE \A i \in Handler : DoomedOK(i)'
    <2>1. /\ UNCHANGED <<pc, dropping, victim, dropped>> /\ pc[h] = "remove"
          /\ \A i \in Handler \ {h} : UNCHANGED doomed[i]
      BY <1>3, EnterEffect DEF insertVars, treeVars
    <2>2. \A i \in Handler : DoomedOK(i)
      BY <2>1
    <2>3. PICK p \in todo[h] : doomed'[h] \subseteq doomed[h] \union FilesIn(p)
      BY <1>3, EnterEffect
    <2>4. victim[h] \in Path /\ p \in Path /\ IsPrefix(victim[h], p)
      BY <2>1, <2>3, TypeParts DEF PathsOK, WalkOK
    <2>5. FilesIn(p) = {}
      BY <2>1, <2>2, <2>4, NoFiles DEF DoomedOK
    <2>6. doomed'[h] = {}
      BY <2>2, <2>3, <2>5 DEF DoomedOK
    <2> QED
      BY <2>1, <2>2, <2>6 DEF DoomedOK
  <1>4. ASSUME NEW h \in Handler, RemoveFile(h) PROVE \A i \in Handler : DoomedOK(i)'
    BY <1>4, RemoveFileEffect DEF DoomedOK, insertVars, treeVars
  <1>5. ASSUME NEW h \in Handler, RemoveDir(h) PROVE \A i \in Handler : DoomedOK(i)'
    BY <1>5, RemoveDirEffect DEF DoomedOK, insertVars
  <1>6. ASSUME NEW h \in Handler, EndRemoval(h) PROVE \A i \in Handler : DoomedOK(i)'
    <2>1. /\ pc'[h] # "remove" /\ UNCHANGED <<dropped, dropping, doomed>>
          /\ \A i \in Handler \ {h} : pc'[i] = pc[i] /\ victim'[i] = victim[i]
      BY <1>6, EndRemovalEffect DEF Others, treeVars
    <2> QED
      BY <2>1 DEF DoomedOK
  <1>7. CASE Restart
    BY <1>7, RestartEffect DEF DoomedOK
  <1> QED
    BY <1>1, <1>2, <1>3, <1>4, <1>5, <1>6, <1>7, NextCases

-----------------------------------------------------------------------------
(* What raw queries find *)

LEMMA Elements ==
    /\ ToSet(<<>>) = {}
    /\ \A s \in Seq(Point), p \in Point : ToSet(Append(s, p)) = ToSet(s) \union {p}
  <1>1. ASSUME NEW s \in Seq(Point), NEW p \in Point PROVE ToSet(Append(s, p)) = ToSet(s) \union {p}
    <2> DEFINE t == Append(s, p)
    <2>1. /\ DOMAIN s = 1 .. Len(s) /\ DOMAIN t = 1 .. Len(s) + 1 /\ Len(s) \in Nat
          /\ \A i \in 1 .. Len(s) : t[i] = s[i]
          /\ t[Len(s) + 1] = p
      OBVIOUS
    <2> HIDE DEF t
    <2>2. \A i \in DOMAIN t : i \in DOMAIN s \/ i = Len(s) + 1
      BY <2>1
    <2>3. ToSet(t) \subseteq ToSet(s) \union {p}
      BY <2>1, <2>2 DEF ToSet
    <2>4. ToSet(s) \subseteq ToSet(t)
      <3>1. \A i \in DOMAIN s : i \in DOMAIN t /\ t[i] = s[i]
        BY <2>1
      <3> QED
        BY <3>1 DEF ToSet
    <2>5. p \in ToSet(t)
      <3>1. Len(s) + 1 \in DOMAIN t
        BY <2>1
      <3> QED
        BY <2>1, <3>1 DEF ToSet
    <2> QED
      BY <2>3, <2>4, <2>5 DEF t
  <1> QED
    BY <1>1 DEF ToSet

Within(k) == FilePoints(k) \union ToSet(mem[k]) \subseteq written[k]
Stored(k) == written[k] \subseteq ToSet(mem[k]) \union FilePoints(k)

LEMMA StoredParts ==
    StoredInv <=> \A k \in Key : Within(k) /\ ("tags" \notin dropped /\ k \notin overwritten => Stored(k))
  BY DEF StoredInv, Within, Stored

LEMMA NextStored ==
    ASSUME \A k \in Key : Within(k)' /\ ("tags" \notin dropped' /\ k \notin overwritten' => Stored(k)')
    PROVE  StoredInv'
  BY DEF StoredInv, Within, Stored

LEMMA StillStored ==
    ASSUME StoredInv, UNCHANGED <<mem, files, written, overwritten>>, dropped \subseteq dropped'
    PROVE  StoredInv'
  BY StoredParts, NextStored DEF Within, Stored, FilePoints

LEMMA WriteStored ==
    ASSUME TypeOK, StoredInv, NEW k \in Key, NEW p \in Point, Write(k, p), dropped' = dropped
    PROVE  StoredInv'
  <1>1. /\ UNCHANGED <<files, overwritten>>
        /\ mem'[k] = Append(mem[k], p) /\ written'[k] = written[k] \union {p}
        /\ \A i \in Key : i # k => UNCHANGED <<mem[i], written[i]>>
    BY WriteEffect
  <1>2. ToSet(mem'[k]) = ToSet(mem[k]) \union {p}
    BY <1>1, Elements, TypeParts DEF PointsOK
  <1>3. ASSUME NEW i \in Key
        PROVE  /\ Within(i)'
               /\ "tags" \notin dropped' /\ i \notin overwritten' => Stored(i)'
    <2>1. Within(i) /\ ("tags" \notin dropped /\ i \notin overwritten => Stored(i))
      BY StoredParts
    <2>4. FilePoints(i)' = FilePoints(i) /\ overwritten' = overwritten
      BY <1>1 DEF FilePoints
    <2>2. CASE i = k
      <3>1. Within(k)'
        BY <1>1, <1>2, <2>1, <2>4, <2>2 DEF Within
      <3>2. Stored(k) => Stored(k)'
        BY <1>1, <1>2, <2>4, <2>2 DEF Stored
      <3> QED
        BY <2>1, <2>4, <2>2, <3>1, <3>2
    <2>3. CASE i # k
      BY <1>1, <2>1, <2>4, <2>3 DEF Within, Stored
    <2> QED
      BY <2>2, <2>3
  <1> QED
    BY <1>3, NextStored

LEMMA FlushStored ==
    ASSUME TypeOK, StoredInv, NEW k \in Key, NEW d \in Date, Flush(k, d)
    PROVE  StoredInv'
  <1>1. /\ mem'[k] = <<>> /\ \A i \in Key : i # k => UNCHANGED <<mem[i], files[i]>>
        /\ overwritten \subseteq overwritten' /\ UNCHANGED <<written, dropped>>
    BY FlushEffect
  <1>2. PICK new \in File :
            /\ new.pts = mem[k]
            /\ files'[k] = {f \in files[k] : FileName(f) # FileName(new)} \union {new}
            /\ k \notin overwritten' => \A f \in files[k] : FileName(f) # FileName(new)
    BY FlushEffect
  <1>3. /\ FilePoints(k)' \subseteq FilePoints(k) \union ToSet(mem[k])
        /\ ToSet(mem[k]) \subseteq FilePoints(k)'
    BY <1>2 DEF FilePoints
  <1>4. k \notin overwritten' => FilePoints(k) \subseteq FilePoints(k)'
    <2>1. k \notin overwritten' => files[k] \subseteq files'[k]
      BY <1>2
    <2> QED
      BY <2>1 DEF FilePoints
  <1>5. ASSUME NEW i \in Key
        PROVE  /\ Within(i)'
               /\ "tags" \notin dropped' /\ i \notin overwritten' => Stored(i)'
    <2>1. Within(i) /\ ("tags" \notin dropped /\ i \notin overwritten => Stored(i))
      BY StoredParts
    <2>2. CASE i = k
      BY <1>1, <1>3, <1>4, <2>1, <2>2, Elements DEF Within, Stored
    <2>3. CASE i # k
      BY <1>1, <2>1, <2>3 DEF Within, Stored, FilePoints
    <2> QED
      BY <2>2, <2>3
  <1> QED
    BY <1>5, NextStored

\* RemoveAll takes a file only when hot/tags is dropped.
LEMMA RemoveFileStored ==
    ASSUME TypeOK, StoredInv, DoomedInv, NEW h \in Handler, RemoveFile(h)
    PROVE  StoredInv'
  <1>1. /\ doomed[h] # {} /\ \A k \in Key : files'[k] \subseteq files[k]
        /\ UNCHANGED <<mem, written, overwritten, dropped>>
    BY RemoveFileEffect DEF treeVars
  <1>2. "tags" \in dropped'
    BY <1>1 DEF DoomedInv
  <1>3. \A k \in Key : Within(k)'
    BY <1>1, StoredParts DEF Within, FilePoints
  <1> QED
    BY <1>2, <1>3, NextStored

LEMMA StoredStep ==
    ASSUME TypeOK, StoredInv, DoomedInv, [Next]_vars
    PROVE  StoredInv'
  <1>1. CASE Ddl
    BY <1>1, DdlPending, StillStored DEF dataVars
  <1>2. ASSUME NEW h \in Handler, DdlStep(h) PROVE StoredInv'
    <2>1. CASE CreateTag(h)
      BY <2>1, CreateTagEffect, StillStored DEF dataVars
    <2>2. CASE Enter(h)
      BY <2>2, EnterEffect, StillStored DEF dataVars, treeVars
    <2>3. CASE RemoveFile(h)
      BY <2>3, RemoveFileStored
    <2>4. CASE RemoveDir(h)
      BY <2>4, RemoveDirEffect, StillStored DEF dataVars
    <2>5. CASE EndRemoval(h)
      BY <2>5, EndRemovalEffect, StillStored DEF dataVars, treeVars
    <2>6. CASE DropDatabaseDir(h)
      BY <2>6, DirectoryRemoval, StillStored DEF StartsRemoval, dataVars
    <2>7. CASE UpdatePoint(h)
      BY <2>7, UpdatePointEffect, WriteStored, Keys DEF treeVars
    <2> QED
      BY <1>2, <2>1, <2>2, <2>3, <2>4, <2>5, <2>6, <2>7 DEF DdlStep
  <1>3. ASSUME NEW h \in Handler, StartRow(h) PROVE StoredInv'
    BY <1>3, StartRowEffect, StillStored DEF dataVars, treeVars
  <1>4. ASSUME NEW h \in Handler, WriteRow(h) PROVE StoredInv'
    BY <1>4, WriteRowEffect, WriteStored, Keys DEF treeVars
  <1>5. ASSUME NEW h \in Handler, CacheRow(h) PROVE StoredInv'
    BY <1>5, CacheRowEffect, StillStored DEF treeVars
  <1>6. ASSUME NEW h \in Handler, NEW rs \in Seq(Row), Insert(h, rs) PROVE StoredInv'
    BY <1>6, InsertEffect, StillStored DEF dataVars, treeVars
  <1>7. ASSUME NEW h \in Handler, NEW rs \in Seq(Row), NEW t \in Table, ExecuteInsert(h, t, rs)
        PROVE  StoredInv'
    BY <1>7, ExecuteInsertEffect, StillStored DEF dataVars, treeVars
  <1>8. CASE Restart
    BY <1>8, RestartEffect, StillStored
  <1>9. CASE UNCHANGED vars
    BY <1>9, StillStored DEF vars, dataVars, treeVars
  <1> QED
    BY <1>1, <1>2, <1>3, <1>4, <1>5, <1>6, <1>7, <1>8, <1>9, FlushStored, CatalogAssumption DEF Next

\* The reader does not pass over the block of a point it is asked for if the
\* block was filled in order, or if everything is asked for.
LEMMA BlockRead ==
    ASSUME NEW pts \in Seq(Point) \ {<<>>}, NEW p \in ToSet(pts), NEW a \in Ts, NEW b \in Ts,
           a <= p.ts, p.ts <= b,
           \/ \A i, j \in DOMAIN pts : i <= j => pts[i].ts <= pts[j].ts
           \/ \A q \in ToSet(pts) : a <= q.ts /\ q.ts <= b
    PROVE  /\ p \in Point
           /\ Head(pts).ts <= b /\ a <= Last(pts).ts
  <1>1. PICK i \in DOMAIN pts : p = pts[i]
    BY DEF ToSet
  <1>2. /\ Len(pts) \in DOMAIN pts /\ 1 \in DOMAIN pts /\ DOMAIN pts = 1 .. Len(pts) /\ Len(pts) \in Nat
        /\ Head(pts) = pts[1] /\ Last(pts) = pts[Len(pts)]
    BY DEF Last
  <1>3. /\ pts[1] \in Point /\ pts[i] \in Point /\ pts[Len(pts)] \in Point
        /\ pts[1] \in ToSet(pts) /\ pts[Len(pts)] \in ToSet(pts)
    BY <1>2 DEF ToSet
  <1>4. pts[1].ts \in Int /\ pts[i].ts \in Int /\ pts[Len(pts)].ts \in Int /\ a \in Int /\ b \in Int
    BY <1>3, Times
  <1>5. CASE \A q \in ToSet(pts) : a <= q.ts /\ q.ts <= b
    BY <1>1, <1>2, <1>3, <1>5
  <1>6. CASE \A m, n \in DOMAIN pts : m <= n => pts[m].ts <= pts[n].ts
    <2>1. pts[1].ts <= pts[i].ts /\ pts[i].ts <= pts[Len(pts)].ts
      BY <1>2, <1>6
    <2> QED
      BY <1>1, <1>2, <1>3, <1>4, <2>1
  <1> QED
    BY <1>5, <1>6

LEMMA StoredFound == ASSUME TypeOK, CacheInv, StoredInv PROVE RawFinds
  <1> SUFFICES ASSUME "tags" \notin dropped, NEW k \in Key
               PROVE  /\ k \notin overwritten =>
                           \A p \in written[k] \ ToSet(mem[k]) : \A a, b \in Ts :
                               /\ a <= p.ts /\ p.ts <= b
                               /\ Spans(k, a, b) \/ \A f \in files[k] : Ascending(f)
                               => p.ts \in ReadRaw(k, a, b)
                      /\ \A p \in serverCache[k] : \E b \in Ts : ReadRaw(k, p.ts, b) # {}
    BY DEF RawFinds, SelectLatest
  <1>1. ASSUME k \notin overwritten, NEW p \in written[k] \ ToSet(mem[k]), NEW a \in Ts, NEW b \in Ts,
               a <= p.ts, p.ts <= b, Spans(k, a, b) \/ \A f \in files[k] : Ascending(f)
        PROVE  p.ts \in ReadRaw(k, a, b)
    <2>1. Within(k) /\ Stored(k)
      BY <1>1, StoredParts
    <2>2. PICK f \in files[k] : p \in ToSet(f.pts)
      BY <1>1, <2>1 DEF Stored, FilePoints
    <2>3. f.pts \in Seq(Point) \ {<<>>}
      BY <2>2, TypeParts DEF PointsOK, File
    <2>4. ToSet(f.pts) \subseteq written[k]
      BY <2>1, <2>2 DEF Within, FilePoints
    <2>5. Overlaps(f, a, b)
      <3>1. CASE Spans(k, a, b)
        <4>1. \A q \in ToSet(f.pts) : a <= q.ts /\ q.ts <= b
          BY <2>4, <3>1 DEF Spans
        <4> QED
          BY <1>1, <2>2, <2>3, <4>1, BlockRead DEF Overlaps
      <3>2. CASE \A g \in files[k] : Ascending(g)
        <4>1. \A i, j \in DOMAIN f.pts : i <= j => f.pts[i].ts <= f.pts[j].ts
          BY <2>2, <3>2 DEF Ascending
        <4> QED
          BY <1>1, <2>2, <2>3, <4>1, BlockRead DEF Overlaps
      <3> QED
        BY <1>1, <3>1, <3>2
    <2>6. p \in ReadRange(f, a, b)
      BY <1>1, <2>2, <2>5 DEF ReadRange
    <2> QED
      BY <2>2, <2>6 DEF ReadRaw
  <1>2. ASSUME NEW p \in serverCache[k] PROVE \E b \in Ts : ReadRaw(k, p.ts, b) # {}
    <2>1. PICK x \in engineCache[k] : x.ts >= p.ts
      BY CacheParts DEF ServerBehind
    <2>2. x.ts \in Ts /\ x.ts \in Int /\ p.ts \in Int
      BY TypeParts, PointTimes DEF PointsOK, Point
    <2>3. x.ts \in ReadRaw(k, p.ts, x.ts)
      BY <2>1, <2>2 DEF ReadRaw
    <2> QED
      BY <2>2, <2>3
  <1> QED
    BY <1>1, <1>2

\* Whatever is created and dropped, unless it is a database named like the
\* directory of the data, a raw query finds every point that has been flushed,
\* if no flush has reused the name of a file and the query asks for everything
\* or the points came in order, and it is not behind SELECT LATEST.
THEOREM RawQueriesFind == Spec => []RawFinds
  <1> DEFINE Walks == \A h \in Handler : WalkOK(h)
  <1>1. Init => CacheInv /\ StoredInv /\ DoomedInv /\ Walks
    <2> SUFFICES ASSUME Init PROVE StoredInv /\ DoomedInv /\ Walks
      BY InitCache
    <2>1. /\ \A k \in Key : mem[k] = <<>> /\ files[k] = {} /\ written[k] = {}
          /\ \A h \in Handler : pc[h] = "idle" /\ doomed[h] = {} /\ opened[h] = {} /\ dropping[h] = ""
      BY DEF Init
    <2>2. StoredInv
      BY <2>1, Elements DEF StoredInv, FilePoints
    <2>3. DoomedInv /\ Walks
      BY <2>1 DEF DoomedInv, WalkOK
    <2> QED
      BY <2>2, <2>3
  <1>2. TypeOK /\ TypeOK' /\ CacheInv /\ StoredInv /\ DoomedInv /\ Walks /\ [Next]_vars
        => CacheInv' /\ StoredInv' /\ DoomedInv' /\ Walks'
    BY CacheStep, StoredStep, DoomedStep, WalkStep
  <1>3. TypeOK /\ CacheInv /\ StoredInv => RawFinds
    BY StoredFound
  <1> HIDE DEF Walks
  <1> QED
    BY <1>1, <1>2, <1>3, TypeCorrect, PTL DEF Spec

-----------------------------------------------------------------------------
(* When an INSERT is turned down *)

RegisteredOK == \A p \in registered : p \in dirs /\ ~Threatened(p)
SteadyOK(h) == steady[h] /\ table[h] # "" => Needs(table[h], rows[h]) \subseteq registered

LEMMA TreeParts ==
    TreeInv <=> /\ \A h \in Handler : WalkOK(h)
                /\ RegisteredOK
                /\ \A h \in Handler : SteadyOK(h)
  BY DEF TreeInv, WalkOK, RegisteredOK, SteadyOK

LEMMA NextTree ==
    ASSUME \A h \in Handler : WalkOK(h)', RegisteredOK', \A h \in Handler : SteadyOK(h)'
    PROVE  TreeInv'
  BY DEF TreeInv, WalkOK, RegisteredOK, SteadyOK

\* A RemoveAll takes a directory only under its path, and what lies there was
\* unregistered when it was called.
LEMMA RegisteredStep ==
    ASSUME TypeOK, \A h \in Handler : WalkOK(h), RegisteredOK, [Next]_vars
    PROVE  RegisteredOK'
  <1>1. CASE Quiet
    <2>1. \A p : Threatened(p)' => Threatened(p)
      BY <1>1 DEF Threatened, Quiet, SameWalk, walkVars
    <2> QED
      BY <1>1, <2>1 DEF RegisteredOK, Quiet, TreeGrows
  <1>2. ASSUME NEW h \in Handler, NEW v \in Path, StartsRemoval(h, v) PROVE RegisteredOK'
    <2>1. /\ victim'[h] = v /\ \A i \in Handler \ {h} : UNCHANGED <<pc[i], victim[i]>>
      BY <1>2, StartWalk
    <2>2. dirs' = dirs /\ registered' \subseteq {p \in registered : ~IsPrefix(v, p)}
      BY <1>2 DEF StartsRemoval
    <2>3. \A p : Threatened(p)' => Threatened(p) \/ IsPrefix(v, p)
      BY <2>1 DEF Threatened
    <2> QED
      BY <2>2, <2>3 DEF RegisteredOK
  <1>3. ASSUME NEW h \in Handler, Enter(h) \/ RemoveFile(h) PROVE RegisteredOK'
    <2>1. UNCHANGED <<pc, victim, dirs, registered>>
      BY <1>3, EnterEffect, RemoveFileEffect DEF insertVars, treeVars
    <2> QED
      BY <2>1 DEF RegisteredOK, Threatened
  <1>4. ASSUME NEW h \in Handler, RemoveDir(h) PROVE RegisteredOK'
    <2>1. pc[h] = "remove" /\ UNCHANGED <<pc, victim, registered>>
      BY <1>4, RemoveDirEffect DEF insertVars
    <2>2. PICK p \in opened[h] : dirs \ {p} \subseteq dirs'
      BY <1>4, RemoveDirEffect
    <2>3. Threatened(p)
      BY <2>1, <2>2 DEF WalkOK, Threatened
    <2> QED
      BY <2>1, <2>2, <2>3 DEF RegisteredOK, Threatened
  <1>5. ASSUME NEW h \in Handler, EndRemoval(h) PROVE RegisteredOK'
    <2>1. /\ pc'[h] # "remove" /\ UNCHANGED <<dirs, registered>>
          /\ \A i \in Handler \ {h} : pc'[i] = pc[i] /\ victim'[i] = victim[i]
      BY <1>5, EndRemovalEffect DEF Others, treeVars
    <2> QED
      BY <2>1 DEF RegisteredOK, Threatened
  <1>6. CASE Restart
    BY <1>6, RestartEffect DEF RegisteredOK, Threatened
  <1> QED
    BY <1>1, <1>2, <1>3, <1>4, <1>5, <1>6, NextCases

LEMMA NeedsTail ==
    ASSUME NEW t, NEW s \in Seq(Row), s # <<>>
    PROVE  /\ Needs(t, Tail(s)) \subseteq Needs(t, s)
           /\ Head(s).tag # NoTag => GetTagPath(t, Head(s).tag) \in Needs(t, s)
  BY HeadTail DEF Needs

\* A statement stays steady only as long as what it still needs is registered.
LEMMA StillSteady ==
    ASSUME \A h \in Handler : SteadyOK(h), registered \subseteq registered', UNCHANGED <<steady, table, rows>>
    PROVE  \A h \in Handler : SteadyOK(h)'
  BY DEF SteadyOK

LEMMA OneSteady ==
    ASSUME \A i \in Handler : SteadyOK(i), registered \subseteq registered', NEW h \in Handler, Others(h),
           \A i \in Handler \ {h} : steady'[i] = steady[i], SteadyOK(h)'
    PROVE  \A i \in Handler : SteadyOK(i)'
  BY DEF SteadyOK, Others

LEMMA RemovalSteady ==
    ASSUME NEW h \in Handler, NEW v, StartsRemoval(h, v)
    PROVE  \A i \in Handler : SteadyOK(i)'
  BY DEF StartsRemoval, Others, SteadyOK

LEMMA DdlSteady ==
    ASSUME TypeOK, \A i \in Handler : SteadyOK(i), Ddl
    PROVE  \A i \in Handler : SteadyOK(i)'
  <1> DEFINE Goal == \A i \in Handler : SteadyOK(i)'
  <1>1. ASSUME NEW d \in Db, CreateDatabase(d) PROVE Goal
    BY <1>1, StillSteady DEF CreateDatabase, Create, handlerVars, insertVars
  <1>2. ASSUME NEW t \in Table, CreateTable(t) PROVE Goal
    BY <1>2, StillSteady DEF CreateTable, Create, handlerVars, insertVars
  <1>3. ASSUME NEW h \in Handler, NEW t \in Table, NEW names \in TagList, ExecuteCreateTags(h, t, names)
        PROVE  Goal
    <2>1. /\ Others(h) /\ ~steady'[h] /\ \A i \in Handler \ {h} : steady'[i] = steady[i]
          /\ registered' = registered
      BY <1>3, ExecuteCreateTagsEffect DEF treeVars
    <2> QED
      BY <2>1, OneSteady DEF SteadyOK
  <1> HIDE DEF Goal
  <1>4. ASSUME NEW h \in Handler, NEW v, StartsRemoval(h, v) PROVE Goal
    BY <1>4, RemovalSteady DEF Goal
  <1>5. Goal
    BY <1>1, <1>2, <1>3, <1>4, DdlCases
  <1> QED
    BY <1>5 DEF Goal

LEMMA DdlStepSteady ==
    ASSUME TypeOK, \A i \in Handler : SteadyOK(i), NEW h \in Handler, DdlStep(h)
    PROVE  \A i \in Handler : SteadyOK(i)'
  <1>1. CASE CreateTag(h)
    <2>1. Others(h) /\ UNCHANGED <<rows, steady>>
      BY <1>1, CreateTagEffect
    <2>2. registered \subseteq registered' /\ (table'[h] = table[h] \/ table'[h] = "")
      BY <1>1, CreateTagEffect DEF Create
    <2> QED
      BY <2>1, <2>2, OneSteady DEF SteadyOK
  <1>2. CASE Enter(h) \/ RemoveFile(h) \/ RemoveDir(h)
    BY <1>2, EnterEffect, RemoveFileEffect, RemoveDirEffect, StillSteady DEF insertVars, treeVars
  <1>3. CASE EndRemoval(h)
    BY <1>3, EndRemovalEffect, StillSteady DEF treeVars
  <1>4. CASE DropDatabaseDir(h)
    BY <1>4, DirectoryRemoval, RemovalSteady
  <1>5. CASE UpdatePoint(h)
    <2>1. Others(h) /\ UNCHANGED <<steady, registered>> /\ table'[h] = ""
      BY <1>5, UpdatePointEffect DEF treeVars
    <2> QED
      BY <2>1, OneSteady DEF SteadyOK
  <1> QED
    BY <1>1, <1>2, <1>3, <1>4, <1>5 DEF DdlStep

LEMMA SteadyStep ==
    ASSUME TypeOK, \A i \in Handler : SteadyOK(i), [Next]_vars
    PROVE  \A i \in Handler : SteadyOK(i)'
  <1>1. ASSUME NEW h \in Handler, Others(h), UNCHANGED <<registered, steady>>, rows[h] # <<>>,
               rows'[h] = Tail(rows[h]), table'[h] = table[h]
        PROVE  \A i \in Handler : SteadyOK(i)'
    <2>1. rows[h] \in Seq(Row)
      BY HandlerType DEF HandlerTypes
    <2>2. Needs(table[h], rows'[h]) \subseteq Needs(table[h], rows[h])
      BY <1>1, <2>1, NeedsTail
    <2>3. SteadyOK(h)'
      BY <1>1, <2>2 DEF SteadyOK
    <2> QED
      BY <1>1, <2>3, OneSteady
  <1>2. ASSUME NEW h \in Handler, Others(h), registered' = registered, steady' = steady, table'[h] = ""
        PROVE  \A i \in Handler : SteadyOK(i)'
    BY <1>2, OneSteady DEF SteadyOK
  <1>3. ASSUME NEW h \in Handler, WriteRow(h) PROVE \A i \in Handler : SteadyOK(i)'
    BY <1>3, WriteRowEffect, StillSteady DEF treeVars
  <1>4. ASSUME NEW h \in Handler, CacheRow(h) PROVE \A i \in Handler : SteadyOK(i)'
    BY <1>1, <1>4, CacheRowEffect DEF treeVars
  <1>5. ASSUME NEW h \in Handler, StartRow(h) PROVE \A i \in Handler : SteadyOK(i)'
    <2>1. Others(h) /\ UNCHANGED <<registered, steady>>
      BY <1>5, StartRowEffect DEF treeVars
    <2>2. \/ table'[h] = ""
          \/ rows[h] # <<>> /\ rows'[h] = Tail(rows[h]) /\ UNCHANGED table
          \/ UNCHANGED <<rows, table>>
      BY <1>5, StartRowEffect
    <2> QED
      BY <1>1, <1>2, <2>1, <2>2, StillSteady
  <1>6. ASSUME NEW h \in Handler, NEW rs \in Seq(Row), Insert(h, rs)
        PROVE  \A i \in Handler : SteadyOK(i)'
    BY <1>2, <1>6, InsertEffect DEF treeVars
  <1>7. ASSUME NEW h \in Handler, NEW rs \in Seq(Row), NEW t \in Table, ExecuteInsert(h, t, rs)
        PROVE  \A i \in Handler : SteadyOK(i)'
    <2>1. /\ Others(h) /\ registered' = registered
          /\ steady'[h] <=> Needs(t, rs) \subseteq registered
          /\ \A i \in Handler \ {h} : steady'[i] = steady[i]
      BY <1>7, ExecuteInsertEffect DEF treeVars
    <2>2. \/ table'[h] = t /\ rows'[h] = rs
          \/ table'[h] = ""
      BY <1>7, ExecuteInsertEffect
    <2>3. SteadyOK(h)'
      BY <2>1, <2>2 DEF SteadyOK
    <2> QED
      BY <2>1, <2>3, OneSteady
  <1>8. ASSUME NEW k \in Key, NEW d \in Date, Flush(k, d) PROVE \A i \in Handler : SteadyOK(i)'
    BY <1>8, FlushEffect, StillSteady DEF handlerVars, insertVars
  <1>9. CASE Restart
    BY <1>9, RestartEffect DEF SteadyOK
  <1>10. CASE UNCHANGED vars
    BY <1>10, StillSteady DEF vars, handlerVars, insertVars, treeVars
  <1> QED
    BY DdlSteady, DdlStepSteady, <1>3, <1>4, <1>5, <1>6, <1>7, <1>8, <1>9, <1>10, CatalogAssumption DEF Next

\* An unknown table or tag is not among what a steady statement needs.
LEMMA RejectStep ==
    ASSUME TypeOK, TreeInv, RejectedOnlyIfMissing, [Next]_vars
    PROVE  RejectedOnlyIfMissing'
  <1> SUFFICES ASSUME NEW i \in Handler, reply'[i] = "error"
               PROVE  ~steady'[i]
    BY DEF RejectedOnlyIfMissing
  <1>1. CASE reply'[i] = reply[i] /\ (steady'[i] => steady[i])
    BY <1>1 DEF RejectedOnlyIfMissing
  <1>2. ASSUME NEW h \in Handler, i # h, Others(h), steady'[i] = steady[i] PROVE ~steady'[i]
    BY <1>1, <1>2 DEF Others
  <1>3. ASSUME NEW h \in Handler, NEW v, StartsRemoval(h, v) PROVE ~steady'[i]
    BY <1>1, <1>3 DEF StartsRemoval
  <1>4. CASE Ddl
    <2>1. ASSUME NEW d \in Db, CreateDatabase(d) PROVE ~steady'[i]
      BY <1>1, <2>1 DEF CreateDatabase, handlerVars, insertVars
    <2>2. ASSUME NEW t \in Table, CreateTable(t) PROVE ~steady'[i]
      BY <1>1, <2>2 DEF CreateTable, handlerVars, insertVars
    <2>3. ASSUME NEW h \in Handler, NEW t \in Table, NEW names \in TagList, ExecuteCreateTags(h, t, names)
          PROVE  ~steady'[i]
      BY <1>1, <2>3, ExecuteCreateTagsEffect
    <2> QED
      BY <1>3, <1>4, <2>1, <2>2, <2>3, DdlCases
  <1>5. ASSUME NEW h \in Handler, DdlStep(h) PROVE ~steady'[i]
    <2>1. CASE DropDatabaseDir(h)
      BY <1>3, <2>1, DirectoryRemoval
    <2>2. CASE CreateTag(h)
      BY <1>1, <2>2, CreateTagEffect
    <2>3. CASE Enter(h) \/ RemoveFile(h) \/ RemoveDir(h)
      BY <1>1, <2>3, EnterEffect, RemoveFileEffect, RemoveDirEffect DEF insertVars
    <2>4. CASE EndRemoval(h)
      BY <1>1, <2>4, EndRemovalEffect
    <2>5. CASE UpdatePoint(h)
      BY <1>1, <2>5, UpdatePointEffect
    <2> QED
      BY <1>5, <2>1, <2>2, <2>3, <2>4, <2>5 DEF DdlStep
  <1>6. ASSUME NEW h \in Handler, StartRow(h) PROVE ~steady'[i]
    <2>1. Others(h) /\ steady' = steady
      BY <1>6, StartRowEffect
    <2>2. CASE i # h
      BY <1>2, <2>1, <2>2
    <2>3. CASE i = h /\ reply'[h] = reply[h]
      BY <1>1, <2>1, <2>3
    <2>4. CASE i = h /\ rows[h] # <<>> /\ Unknown(table[h], Head(rows[h]).tag)
      <3>1. rows[h] \in Seq(Row)
        BY HandlerType DEF HandlerTypes
      <3>2. /\ table[h] # "" /\ Head(rows[h]).tag # NoTag
            /\ GetTagPath(table[h], Head(rows[h]).tag) \notin dirs
        BY <2>4 DEF Unknown, TagExists
      <3>3. GetTagPath(table[h], Head(rows[h]).tag) \in Needs(table[h], rows[h])
        BY <2>4, <3>1, <3>2, NeedsTail
      <3>4. RegisteredOK /\ SteadyOK(h)
        BY TreeParts
      <3>5. ~steady[h]
        BY <3>2, <3>3, <3>4 DEF SteadyOK, RegisteredOK
      <3> QED
        BY <2>1, <2>4, <3>5
    <2>5. \/ reply'[h] = "ok" \/ reply'[h] = reply[h]
          \/ rows[h] # <<>> /\ Unknown(table[h], Head(rows[h]).tag)
      BY <1>6, StartRowEffect
    <2> QED
      BY <2>2, <2>3, <2>4, <2>5
  <1>7. ASSUME NEW h \in Handler, NEW rs \in Seq(Row), Insert(h, rs) PROVE ~steady'[i]
    <2>1. Others(h) /\ steady' = steady /\ reply'[h] = "none"
      BY <1>7, InsertEffect
    <2> QED
      BY <1>2, <2>1
  <1>8. ASSUME NEW h \in Handler, NEW rs \in Seq(Row), NEW t \in Table, ExecuteInsert(h, t, rs)
        PROVE  ~steady'[i]
    <2>1. /\ Others(h)
          /\ steady'[h] <=> Needs(t, rs) \subseteq registered
          /\ \A j \in Handler \ {h} : steady'[j] = steady[j]
      BY <1>8, ExecuteInsertEffect
    <2>2. CASE i # h
      BY <1>2, <2>1, <2>2
    <2>3. CASE i = h
      <3>1. GetTablePath(t) \notin dirs
        BY <1>8, <2>3, ExecuteInsertEffect DEF TableExists
      <3>2. GetTablePath(t) \in Needs(t, rs)
        BY DEF Needs
      <3>3. GetTablePath(t) \notin registered
        BY <3>1, TreeParts DEF RegisteredOK
      <3> QED
        BY <2>1, <2>3, <3>2, <3>3
    <2> QED
      BY <2>2, <2>3
  <1>9. ASSUME NEW h \in Handler, WriteRow(h) \/ CacheRow(h) PROVE ~steady'[i]
    BY <1>1, <1>9, WriteRowEffect, CacheRowEffect
  <1>10. ASSUME NEW k \in Key, NEW d \in Date, Flush(k, d) PROVE ~steady'[i]
    BY <1>1, <1>10, FlushEffect DEF handlerVars, insertVars
  <1>11. CASE Restart
    BY <1>11, RestartEffect
  <1>12. CASE UNCHANGED vars
    BY <1>1, <1>12 DEF vars, handlerVars, insertVars
  <1> QED
    BY <1>4, <1>5, <1>6, <1>7, <1>8, <1>9, <1>10, <1>11, <1>12, CatalogAssumption DEF Next

\* An INSERT that finds its table or a tag missing was not alone: something
\* had removed it, or it had never been created.
THEOREM RejectionsExplained == Spec => []RejectedOnlyIfMissing
  <1>1. Init => TreeInv /\ RejectedOnlyIfMissing
    <2> SUFFICES ASSUME Init PROVE TreeInv /\ RejectedOnlyIfMissing
      OBVIOUS
    <2>1. /\ registered = {}
          /\ \A h \in Handler : reply[h] = "none" /\ table[h] = "" /\ pc[h] = "idle" /\ opened[h] = {}
      BY DEF Init
    <2> QED
      BY <2>1 DEF TreeInv, RejectedOnlyIfMissing
  <1>2. TypeOK /\ TreeInv /\ [Next]_vars => TreeInv'
    <2> SUFFICES ASSUME TypeOK, TreeInv, [Next]_vars PROVE TreeInv'
      OBVIOUS
    <2>1. RegisteredOK /\ \A h \in Handler : WalkOK(h) /\ SteadyOK(h)
      BY TreeParts
    <2>2. RegisteredOK' /\ (\A h \in Handler : WalkOK(h)') /\ \A h \in Handler : SteadyOK(h)'
      BY <2>1, RegisteredStep, WalkStep, SteadyStep
    <2> QED
      BY <2>2, NextTree
  <1>3. TypeOK /\ TreeInv /\ RejectedOnlyIfMissing /\ [Next]_vars => RejectedOnlyIfMissing'
    BY RejectStep
  <1> QED
    BY <1>1, <1>2, <1>3, TypeCorrect, PTL DEF Spec
=============================================================================
