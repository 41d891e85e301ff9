------------------------------ MODULE SqlParser ------------------------------
(***************************************************************************)
(* SQLParser of src/sql/parser.cpp, which finds its way through the text   *)
(* of a statement by searching for keywords, and the two LIKE matchers     *)
(* that the names and patterns it returns are given to.                    *)
(*                                                                         *)
(* A text is a sequence of atoms: a punctuation mark, a blank, a keyword   *)
(* or a piece of a name. A keyword inside a name is an atom of its own, as *)
(* in <<"stati", "ON">>, since the parser finds it there too. Positions    *)
(* count from 1, and 0 stands for npos. Times stay texts, the empty one    *)
(* being the timestamp 0.                                                  *)
(*                                                                         *)
(* The parser's loops are recursive operators over the position. A loop    *)
(* whose body leaves the position where it was never ends: the result is   *)
(* then Hangs.                                                             *)
(***************************************************************************)
EXTENDS FiniteSetsExt, Integers, SequencesExt

CONSTANTS
    Form,              \* texts, and the statement each stands for (means)
    Opening, Ending,   \* beginnings and ends of any other text
    TagName, Pattern   \* what LIKE is given

VARIABLES
    input,    \* the statement, or the tag name and the pattern
    result    \* what came of it

vars == <<input, result>>

-----------------------------------------------------------------------------
(* Texts *)

Quote == {"'", "\""}
Blank == {" "}

\* The atoms that are written in lower case in some of the texts.
UpperOf ==
    [a \in {"select", "from", "where", "and", "like", "latest", "insert", "into",
            "values", "tag"} |->
        CASE a = "select" -> "SELECT" [] a = "from" -> "FROM" [] a = "where" -> "WHERE"
          [] a = "and" -> "AND" [] a = "like" -> "LIKE" [] a = "latest" -> "LATEST"
          [] a = "insert" -> "INSERT" [] a = "into" -> "INTO" [] a = "values" -> "VALUES"
          [] a = "tag" -> "TAG"]

ToUpper(s) == [i \in DOMAIN s |-> IF s[i] \in DOMAIN UpperOf THEN UpperOf[s[i]] ELSE s[i]]

At(s, p) == IF p \in DOMAIN s THEN s[p] ELSE ""
From(s, p) == SubSeq(s, p, Len(s))
Slice(s, p, q) == SubSeq(s, p, q - 1)   \* the text before q

Trim(s) ==
    LET ink == {i \in DOMAIN s : s[i] \notin Blank} IN
    IF ink = {} THEN <<>> ELSE SubSeq(s, Min(ink), Max(ink))

\* The first position from p on, or the end, where an atom of S stands.
Until(s, p, S) == Min({q \in p .. Len(s) : s[q] \in S} \union {Max({p, Len(s) + 1})})

\* SkipWhitespace, which skips commas too
Skip(s, p) == Min({q \in p .. Len(s) : s[q] \notin Blank \union {","}} \union {Max({p, Len(s) + 1})})

\* string::find
Find(s, k, p) ==
    LET at == {q \in p .. Len(s) - Len(k) + 1 : SubSeq(s, q, q + Len(k) - 1) = k} IN
    IF at = {} THEN 0 ELSE Min(at)

FindExact(s, k, p) == Find(s, k, p)

FindKeyword(s, k, p) == Find(ToUpper(s), k, p)

StartsWith(s, k) == IsPrefix(k, ToUpper(s))

\* The text in quotes from p on, and the position behind it.
RECURSIVE Quoted(_, _, _, _)
Quoted(s, q, p, acc) ==
    IF p > Len(s) THEN [val |-> acc, pos |-> p]
    ELSE IF s[p] # q THEN Quoted(s, q, p + 1, Append(acc, s[p]))
    ELSE IF At(s, p + 1) = q THEN Quoted(s, q, p + 2, Append(acc, q))
    ELSE [val |-> acc, pos |-> p + 1]

RECURSIVE QuotedPlain(_, _, _, _)
QuotedPlain(s, q, p, acc) ==
    IF p > Len(s) THEN [val |-> acc, pos |-> p]
    ELSE IF s[p] # q THEN QuotedPlain(s, q, p + 1, Append(acc, s[p]))
    ELSE [val |-> acc, pos |-> p + 1]

ExtractUnescaped(s, p) ==
    IF At(s, p) \in Quote THEN QuotedPlain(s, s[p], p + 1, <<>>) ELSE [val |-> <<>>, pos |-> p]

ExtractQuoted(s, p) ==
    IF At(s, p) \in Quote THEN Quoted(s, s[p], p + 1, <<>>) ELSE [val |-> <<>>, pos |-> p]

\* A quoted text if there is one at p, else the text up to an atom of S.
QuotedOrUntil(s, p, quotes, S) ==
    IF At(s, p) \in quotes THEN ExtractQuoted(s, p)
    ELSE LET e == Until(s, p, S) IN [val |-> Trim(Slice(s, p, e)), pos |-> e]

\* The text itself, or what its quotes enclose.
Unquote(s) == IF At(s, 1) \in Quote THEN ExtractQuoted(s, 1).val ELSE s

\* The first and the last atom are dropped, whatever the last one is.
StripEnds(s) == IF At(s, 1) = "'" THEN SubSeq(s, 2, Len(s) - 1) ELSE s

Error == [kind |-> "error"]
Hangs == [kind |-> "hangs"]

-----------------------------------------------------------------------------
(* INSERT INTO table (columns) VALUES (values), (values) *)

\* The items of a list in parentheses, up to the closing one.
RECURSIVE Items(_, _, _)
Items(s, p, quotes) ==
    IF At(s, p) \in {"", ")"} THEN [vals |-> <<>>, pos |-> p]
    ELSE LET item == QuotedOrUntil(s, Skip(s, p), quotes, {",", ")"})
             rest == Items(s, Skip(s, item.pos), quotes)
         IN  [vals |-> <<item.val>> \o rest.vals, pos |-> rest.pos]

\* The position behind a closing parenthesis, or the end.
Behind(s, p) == IF p <= Len(s) THEN p + 1 ELSE p

RECURSIVE Rows(_, _)
Rows(s, p) ==
    IF At(s, p) # "(" THEN <<>>
    ELSE LET row == Items(s, p + 1, Quote)
         IN  <<row.vals>> \o Rows(s, Skip(s, Behind(s, row.pos)))

ParseInsert(s) ==
    LET ins == FindKeyword(s, <<"INSERT", " ", "INTO">>, 1)
        name == Skip(s, ins + 3)
        nameEnd == Until(s, name, {"(", " "})
        list == Skip(s, nameEnd)
        cols == IF At(s, list) = "(" THEN Items(s, list + 1, {}) ELSE [vals |-> <<>>, pos |-> list]
        after == IF At(s, list) = "(" THEN Behind(s, cols.pos) ELSE list
        values == FindKeyword(s, <<"VALUES">>, after)
        rows == Rows(s, Skip(s, values + 1))
    IN  IF ins = 0 \/ values = 0 \/ rows = <<>> THEN Error
        ELSE [kind |-> "insert", table |-> Slice(s, name, nameEnd),
              columns |-> cols.vals, rows |-> rows]

-----------------------------------------------------------------------------
(* SELECT columns FROM table WHERE conditions LATEST GROUP BY ... *)

AggName == <<"AVG", "MAX", "MIN", "SUM", "COUNT", "FIRST", "LAST", "STDDEV">>

\* One column: the first aggregate function of the list that occurs in it.
\* TIME_BUCKET without one has neither expression nor function.
Column(c) ==
    LET found == {i \in DOMAIN AggName : FindKeyword(c, <<AggName[i]>>, 1) # 0}
        bucket == FindKeyword(c, <<"TIME_BUCKET">>, 1) # 0
        as == FindKeyword(c, <<"AS">>, 1)
    IN  [agg |-> IF found = {} THEN "NONE" ELSE AggName[Min(found)],
         aggregate |-> bucket \/ found # {},
         expr |-> IF bucket /\ found = {} THEN <<>> ELSE c,
         alias |-> IF bucket /\ Find(c, <<"(">>, 1) # 0 /\ as # 0 THEN Trim(From(c, as + 1))
                   ELSE <<>>]

RECURSIVE Columns(_, _)
Columns(c, p) ==
    LET a == Skip(c, p)
        e == Until(c, a, {","})
    IN  IF a > Len(c) THEN <<>> ELSE <<Column(Trim(Slice(c, a, e)))>> \o Columns(c, e + 1)

NoWhere == [filter |-> <<>>, pattern |-> <<>>, start |-> <<>>, end |-> <<>>]

\* ParseWhereCondition: what one condition adds to w.
Condition(w, c) ==
    LET between == FindKeyword(c, <<"BETWEEN">>, 1)
        start == ExtractQuoted(c, Until(c, Skip(c, between + 1), Quote))
        and == FindKeyword(c, <<"AND">>, start.pos)
        end == IF and = 0 THEN <<>> ELSE ExtractQuoted(c, Skip(c, and + 1)).val
        timed == IF between = 0 THEN w ELSE [w EXCEPT !.start = start.val, !.end = end]
        eq == Find(c, <<"=">>, 1)
        like == FindKeyword(c, <<"LIKE">>, 1)
        OfTag(k) == ToUpper(Trim(Slice(c, 1, k))) = <<"TAG">>
        Operand(k) == Unquote(Trim(From(c, k + 1)))
    IN  CASE eq # 0 /\ OfTag(eq) -> [timed EXCEPT !.filter = Operand(eq)]
          [] eq = 0 /\ like # 0 /\ OfTag(like) -> [timed EXCEPT !.pattern = Operand(like)]
          [] OTHER -> timed

\* The WHERE clause c from p on, split at every AND.
RECURSIVE Conditions(_, _, _)
Conditions(w, c, p) ==
    LET and == FindKeyword(c, <<"AND">>, p) IN
    IF p > Len(c) THEN w
    ELSE IF and = 0 THEN Condition(w, Trim(From(c, p)))
    ELSE Conditions(Condition(w, Trim(Slice(c, p, and))), c, and + 1)

ParseSelect(s) ==
    LET cols == Skip(s, 2)
        from == FindKeyword(s, <<"FROM">>, cols)
        p == Skip(s, from + 1)
        where == FindKeyword(s, <<"WHERE">>, p)
        latest == FindKeyword(s, <<"LATEST">>, p)
        group == FindKeyword(s, <<"GROUP", " ", "BY">>, p)
        order == FindKeyword(s, <<"ORDER", " ", "BY">>, p)
        limit == FindKeyword(s, <<"LIMIT">>, p)
        table == Trim(IF where # 0 THEN Slice(s, p, where)
                      ELSE IF latest # 0 THEN Slice(s, p, latest) ELSE From(s, p))
        bare == where = 0 /\ latest = 0   \* the early return
        cond == Skip(s, where + 1)
        whereEnd == Min(({latest, group, order, limit} \ {0}) \union {Len(s) + 1})
        clause == Trim(IF whereEnd < cond THEN From(s, cond) ELSE Slice(s, cond, whereEnd))
        paren == Find(s, <<"(">>, Skip(s, group + 3))
    IN  IF from = 0 THEN Error
        ELSE [kind |-> "select", columns |-> Columns(Slice(s, cols, from), 1), table |-> table,
              where |-> IF where = 0 THEN NoWhere ELSE Conditions(NoWhere, clause, 1),
              latest |-> ~bare /\ (latest # 0 \/ ToUpper(table) = <<"SNAPSHOT">>),
              group |-> IF bare \/ group = 0 THEN <<>>
                        ELSE <<IF paren = 0 THEN <<>> ELSE ExtractQuoted(s, paren + 1).val>>]

-----------------------------------------------------------------------------
(* CREATE *)

\* A list key=value, ..., up to a closing parenthesis. CREATE TABLE alone
\* (inParens) looks whether the next "=" is still inside the parentheses.
RECURSIVE Properties(_, _, _, _)
Properties(s, p, quotes, inParens) ==
    LET a == Skip(s, p)
        eq == Find(s, <<"=">>, a)
        close == Find(s, <<")">>, a)
        item == QuotedOrUntil(s, Skip(s, eq + 1), quotes, {",", ")"})
        rest == Properties(s, Skip(s, item.pos), quotes, inParens)
    IN  IF At(s, p) \in {"", ")"} THEN [vals |-> <<>>, pos |-> p]
        ELSE IF eq = 0 \/ (inParens /\ close # 0 /\ eq > close) THEN [vals |-> <<>>, pos |-> a]
        ELSE [vals |-> <<<<Trim(Slice(s, a, eq)), item.val>>>> \o rest.vals, pos |-> rest.pos]

\* The properties if a list opens at p.
PropertiesAt(s, p, quotes, inParens) ==
    IF At(s, p) = "(" THEN Properties(s, p + 1, quotes, inParens).vals ELSE <<>>

ParseCreateTag(s) ==
    LET name == Skip(s, 4)
        nameEnd == Until(s, name, {" ", "("})
    IN  [kind |-> "createTag", tag |-> Slice(s, name, nameEnd),
         props |-> PropertiesAt(s, Skip(s, nameEnd), Quote, FALSE)]

ParseCreateTable(s) ==
    LET name == Skip(s, 4)
        nameEnd == Until(s, name, {" ", "("})
    IN  [kind |-> "createTable", table |-> Slice(s, name, nameEnd),
         props |-> PropertiesAt(s, Skip(s, nameEnd), {"'"}, TRUE)]

RECURSIVE TagDefs(_, _)
TagDefs(s, p) ==
    LET name == Skip(s, p)
        nameEnd == Until(s, name, {"(", ",", ")"})
        list == Skip(s, nameEnd)
        props == IF At(s, list) = "(" THEN Properties(s, list + 1, {"'"}, FALSE)
                 ELSE [vals |-> <<>>, pos |-> list]
        after == Skip(s, IF At(s, list) = "(" THEN Behind(s, props.pos) ELSE list)
    IN  IF At(s, p) \in {"", ")"} THEN <<>>
        ELSE <<[name |-> Trim(Slice(s, name, nameEnd)), props |-> props.vals]>> \o TagDefs(s, after)

ParseCreateTags(s) ==
    LET in == FindKeyword(s, <<"IN", " ", "TABLE">>, Skip(s, 5))
        name == Skip(s, in + 3)
        list == Find(s, <<"(">>, name)
    IN  IF in = 0 \/ list = 0 THEN Error
        ELSE [kind |-> "createTags", table |-> Trim(Slice(s, name, list)),
              tags |-> TagDefs(s, list + 1)]

RECURSIVE ActionsNoEmpty(_, _)
ActionsNoEmpty(s, p) ==
    LET act == ExtractQuoted(s, Skip(s, p))
        rest == ActionsNoEmpty(s, Skip(s, act.pos))
    IN  IF At(s, p) \in {"", ")"} THEN [hangs |-> FALSE, vals |-> <<>>]
        ELSE IF act.val = <<>> THEN [hangs |-> TRUE, vals |-> <<>>]
        ELSE [hangs |-> rest.hangs, vals |-> <<act.val>> \o rest.vals]

\* The quoted actions of an alarm; what is not quoted is not skipped either.
RECURSIVE Actions(_, _)
Actions(s, p) ==
    LET act == ExtractQuoted(s, Skip(s, p))
        next == Skip(s, act.pos)
        rest == Actions(s, next)
    IN  IF At(s, p) \in {"", ")"} THEN [hangs |-> FALSE, vals |-> <<>>]
        ELSE IF next = p THEN [hangs |-> TRUE, vals |-> <<>>]
        ELSE [hangs |-> rest.hangs,
              vals |-> (IF act.val = <<>> THEN <<>> ELSE <<act.val>>) \o rest.vals]

ParseCreateAlarm(s) ==
    LET name == Skip(s, 4)
        nameEnd == Until(s, name, {" "})
        on == FindKeyword(s, <<"ON">>, Skip(s, nameEnd))
        tag == Skip(s, on + 1)
        when == FindKeyword(s, <<"WHEN">>, tag)
        cond == Skip(s, when + 1)
        then == FindKeyword(s, <<"THEN">>, cond)
        action == FindKeyword(s, <<"ACTI", "ON">>, then)
        list == IF action = 0 THEN 0 ELSE Find(s, <<"(">>, action)
        actions == IF list = 0 THEN [hangs |-> FALSE, vals |-> <<>>] ELSE Actions(s, list + 1)
    IN  IF on = 0 \/ when = 0 \/ then = 0 THEN Error
        ELSE IF actions.hangs THEN Hangs
        ELSE [kind |-> "createAlarm", alarm |-> Slice(s, name, nameEnd),
              tag |-> Slice(s, tag, Until(s, tag, {" "})),
              condition |-> Trim(Slice(s, cond, then)), actions |-> actions.vals]

ParseCreateUser(s) ==
    LET name == Skip(s, 4)
        nameEnd == Until(s, name, {" "})
        pw == FindKeyword(s, <<"PASSWORD">>, Skip(s, nameEnd))
        quoted == ExtractQuoted(s, Skip(s, pw + 1))
        role == FindKeyword(s, <<"ROLE">>, IF pw = 0 THEN Skip(s, nameEnd) ELSE quoted.pos)
        given == Skip(s, role + 1)
        roleText == IF role = 0 THEN <<>>
                    ELSE IF At(s, given) \in Quote THEN ExtractQuoted(s, given).val
                    ELSE Slice(s, given, Until(s, given, {" "}))
    IN  [kind |-> "createUser", user |-> Slice(s, name, nameEnd),
         pw |-> IF pw = 0 \/ quoted.val = <<>> THEN <<"default123">> ELSE quoted.val,
         role |-> IF roleText = <<>> THEN <<"viewer">> ELSE roleText]

-----------------------------------------------------------------------------
(* DROP, USE and CREATE DATABASE: the rest of the text is the name *)

Named(kind, s, p) == [kind |-> kind, name |-> Trim(From(s, Skip(s, p)))]

ParseDropTag(s) ==
    LET rest == Trim(From(s, Skip(s, 4)))
        dot == Find(rest, <<".">>, 1)
    IN  [kind |-> "dropTag", table |-> IF dot = 0 THEN <<>> ELSE Trim(Slice(rest, 1, dot)),
         tag |-> Trim(From(rest, dot + 1))]

-----------------------------------------------------------------------------
(* ALTER: " SET " is searched as it stands, in upper case *)

SetWord == <<" ", "SET", " ">>

ParseAlterSystem(s) ==
    LET set == FindKeyword(s, <<"SET">>, 1)
        key == Skip(s, set + 1)
        eq == Find(s, <<"=">>, key)
    IN  IF set = 0 \/ eq = 0 THEN Error
        ELSE [kind |-> "alterSystem", key |-> Trim(Slice(s, key, eq)),
              value |-> Unquote(Trim(From(s, eq + 1)))]

ParseAlterUser(s) ==
    LET name == Skip(s, 4)
        set == Find(s, SetWord, name)
        prop == Skip(s, set + 3)
        quote == Find(s, <<"'">>, prop)
        words == Trim(From(s, prop))
        space == Find(words, <<" ">>, 1)
        pair == IF quote # 0 THEN <<Trim(Slice(s, prop, quote)), ExtractQuoted(s, quote).val>>
                ELSE IF space # 0 THEN <<Trim(Slice(words, 1, space)), Trim(From(words, space + 1))>>
                ELSE <<words, <<>>>>
    IN  IF set = 0 THEN Error
        ELSE [kind |-> "alterUser", user |-> Trim(Slice(s, name, set)),
              prop |-> pair[1], value |-> pair[2]]

ParseAlterAlarm(s) ==
    LET name == Skip(s, 4)
        set == Find(s, SetWord, name)
        prop == Skip(s, set + 3)
        eq == Find(s, <<"=">>, prop)
        val == Skip(s, eq + 1)
        space == Find(s, <<" ">>, prop)
        quote == Find(s, <<"'">>, space)
        pair == IF eq # 0 THEN <<Trim(Slice(s, prop, eq)), QuotedOrUntil(s, val, {"'"}, Blank).val>>
                ELSE IF space # 0 THEN <<Trim(Slice(s, prop, space)), ExtractQuoted(s, quote).val>>
                ELSE <<<<>>, <<>>>>
    IN  IF set = 0 \/ (eq = 0 /\ space # 0 /\ quote = 0) THEN Error
        ELSE [kind |-> "alterAlarm", alarm |-> Trim(Slice(s, name, set)),
              prop |-> pair[1], value |-> pair[2]]

ParseAlterTag(s) ==
    LET rest == Trim(From(s, Skip(s, 4)))
        dot == Find(rest, <<".">>, 1)
        after == Trim(From(rest, dot + 1))
        set == Find(after, SetWord, 1)
        part == Trim(From(after, set + 3))
        eq == Find(part, <<"=">>, 1)
    IN  IF dot = 0 \/ set = 0 \/ eq = 0 THEN Error
        ELSE [kind |-> "alterTag", table |-> Trim(Slice(rest, 1, dot)),
              tag |-> Trim(Slice(after, 1, set)), prop |-> Trim(Slice(part, 1, eq)),
              value |-> StripEnds(Trim(From(part, eq + 1)))]

-----------------------------------------------------------------------------
(* DELETE, UPDATE and SHOW *)

\* tag='...', in lower case and without a blank before the "="
TagFilter(s, p) ==
    LET tag == Find(s, <<"tag", "=">>, p)
        val == Skip(s, tag + 2)
    IN  IF tag # 0 /\ At(s, val) = "'" THEN ExtractQuoted(s, val).val ELSE <<>>

\* clean: quotes are dropped from a text of two characters or more
Clean(s) == IF Len(s) >= 2 THEN StripEnds(s) ELSE s

ParseDelete(s) ==
    LET from == FindKeyword(s, <<"FROM">>, Skip(s, 2))
        table == Skip(s, from + 1)
        where == FindKeyword(s, <<"WHERE">>, table)
        between == FindKeyword(s, <<"BETWEEN">>, where + 1)
        and == FindKeyword(s, <<"AND">>, between + 1)
        timed == between # 0 /\ and # 0
    IN  IF from = 0 \/ where = 0 THEN Error
        ELSE [kind |-> "delete", table |-> Trim(Slice(s, table, where)),
              filter |-> TagFilter(s, where + 1),
              start |-> IF timed THEN Clean(Trim(Slice(s, between + 1, and))) ELSE <<>>,
              end |-> IF timed THEN Clean(Trim(From(s, and + 1))) ELSE <<>>]

\* stod: the number a text begins with; none leaves new_value at 0.
Number == {"0", "1", "2"}
Stod(s) == IF At(s, 1) \in Number THEN s[1] ELSE "0"

ParseUpdate(s) ==
    LET table == Skip(s, 2)
        set == FindKeyword(s, <<"SET">>, table)
        val == Skip(s, set + 1)
        where == FindKeyword(s, <<"WHERE">>, val)
        eq == Find(s, <<"=">>, val)
        tight == Find(s, <<"timestamp", "=">>, where + 1)
        ts == IF tight # 0 THEN tight ELSE Find(s, <<"timestamp", " ", "=">>, where + 1)
        time == Skip(s, Find(s, <<"=">>, ts) + 1)
    IN  IF set = 0 \/ where = 0 THEN Error
        ELSE [kind |-> "update", table |-> Trim(Slice(s, table, set)),
              value |-> IF eq # 0 /\ eq < where THEN Stod(Trim(Slice(s, eq + 1, where))) ELSE "0",
              filter |-> TagFilter(s, where + 1),
              time |-> IF ts # 0 /\ At(s, time) = "'" THEN ExtractQuoted(s, time).val ELSE <<>>]

Show(what, filter, pattern) ==
    [kind |-> "show", what |-> what, filter |-> filter, pattern |-> pattern]

ParseShow(s) ==
    LET Is(words) == StartsWith(s, <<"SHOW", " ">> \o words)
        name == FindKeyword(s, <<"FROM">>, 1) + 1
        like == FindKeyword(s, <<"LIKE">>, name)
    IN  CASE Is(<<"DATABASE", "S">>) -> Show("databases", <<>>, <<>>)
          [] Is(<<"TABLE", "S", " ", "FROM">>) -> Show("tables", Trim(From(s, name)), <<>>)
          [] Is(<<"TABLE", "S">>) /\ ~Is(<<"TABLE", "S", " ", "FROM">>) -> Show("tables", <<>>, <<>>)
          [] Is(<<"TAG", "S", " ", "FROM">>) ->
                 IF like = 0 THEN Show("tags", Trim(From(s, name)), <<>>)
                 ELSE Show("tags", Trim(Slice(s, name, like)), Clean(Trim(From(s, like + 1))))
          [] Is(<<"TAG", "S">>) /\ ~Is(<<"TAG", "S", " ", "FROM">>) -> Show("tags", <<>>, <<>>)
          [] Is(<<"USER", "S">>) -> Show("users", <<>>, <<>>)
          [] Is(<<"ALARM", "S">>) -> Show("alarms", <<>>, <<>>)
          [] OTHER -> Error

-----------------------------------------------------------------------------
\* SQLParser::Parse: the first prefix that fits decides; CREATE TAGS is tried
\* before CREATE TAG.
Parse(text) ==
    LET s == Trim(text)
        Is(words) == StartsWith(s, words)
        Two(verb, noun) == Is(<<verb, " ", noun>>)
    IN  CASE s = <<>> -> Error
          [] Is(<<"SELECT">>) -> ParseSelect(s)
          [] Two("CREATE", "DATABASE") -> Named("createDatabase", s, 4)
          [] Two("CREATE", "TABLE") -> ParseCreateTable(s)
          [] Is(<<"CREATE", " ", "TAG", "S">>) -> ParseCreateTags(s)
          [] Two("CREATE", "TAG") /\ At(s, 4) # "S" -> ParseCreateTag(s)
          [] Two("CREATE", "ALARM") -> ParseCreateAlarm(s)
          [] Two("CREATE", "USER") -> ParseCreateUser(s)
          [] Two("DROP", "TABLE") -> Named("dropTable", s, 4)
          [] Two("DROP", "TAG") -> ParseDropTag(s)
          [] Two("DROP", "ALARM") -> Named("dropAlarm", s, 4)
          [] Two("DROP", "USER") -> Named("dropUser", s, 4)
          [] Two("DROP", "DATABASE") -> Named("dropDatabase", s, 4)
          [] Two("ALTER", "TAG") -> ParseAlterTag(s)
          [] Two("ALTER", "ALARM") -> ParseAlterAlarm(s)
          [] Two("ALTER", "USER") -> ParseAlterUser(s)
          [] Two("ALTER", "SYSTEM") -> ParseAlterSystem(s)
          [] Is(<<"INSERT">>) -> ParseInsert(s)
          [] Is(<<"DELETE">>) -> ParseDelete(s)
          [] Is(<<"UPDATE">>) -> ParseUpdate(s)
          [] Is(<<"USE", " ">>) \/ s = <<"USE">> -> Named("use", s, 2)
          [] Is(<<"SHOW">>) -> ParseShow(s)
          [] OTHER -> Error

-----------------------------------------------------------------------------
(* LIKE *)

\* The reference: "%" stands for any text, "_" for one character.
RECURSIVE Like(_, _)
Like(t, p) ==
    CASE p = <<>> -> t = <<>>
      [] p # <<>> /\ p[1] = "%" -> \E i \in 1 .. Len(t) + 1 : Like(From(t, i), Tail(p))
      [] OTHER -> /\ t # <<>> /\ p[1] \in {"_", t[1]}
                  /\ Like(Tail(t), Tail(p))

RECURSIVE LatestMatchFirst(_, _)
LatestMatchFirst(t, p) ==
    IF t = <<>> \/ p = <<>> THEN t = p
    ELSE IF p[1] = "%" THEN Len(p) = 1 \/ LatestMatchFirst(t, Tail(p))
    ELSE p[1] \in {"_", t[1]} /\ LatestMatchFirst(Tail(t), Tail(p))

\* LatestCache::MatchPattern
RECURSIVE LatestMatch(_, _)
LatestMatch(t, p) ==
    IF t = <<>> \/ p = <<>> THEN t = p
    ELSE IF p[1] = "%" THEN Len(p) = 1 \/ \E i \in DOMAIN t : LatestMatch(From(t, i), Tail(p))
    ELSE p[1] \in {"_", t[1]} /\ LatestMatch(Tail(t), Tail(p))

\* SnapshotStore::MatchPattern: behind a "%" the first occurrence of the next
\* character of the pattern is the only one tried.
RECURSIVE SnapshotMatch(_, _)
SnapshotMatch(t, p) ==
    LET next == Until(t, 1, {At(p, 2)}) IN
    IF t = <<>> \/ p = <<>> THEN t = <<>> /\ \A i \in DOMAIN p : p[i] = "%"
    ELSE IF p[1] = "%" THEN Len(p) = 1 \/ (next <= Len(t) /\ SnapshotMatch(From(t, next), Tail(p)))
    ELSE p[1] \in {"_", t[1]} /\ SnapshotMatch(Tail(t), Tail(p))

-----------------------------------------------------------------------------
(* One statement, or one tag name and pattern *)

NotYet == [kind |-> "notYet"]

Init ==
    /\ \/ \E f \in Form : input = [kind |-> "sql", text |-> f.text, means |-> f.means]
       \/ \E h \in Opening, t \in Ending : input = [kind |-> "sql", text |-> h \o t, means |-> NotYet]
       \/ \E t \in TagName, p \in Pattern : input = [kind |-> "like", tag |-> t, pattern |-> p]
    /\ result = NotYet

ParseText ==
    /\ input.kind = "sql" /\ result = NotYet
    /\ result' = Parse(input.text)
    /\ UNCHANGED input

MatchTag ==
    /\ input.kind = "like" /\ result = NotYet
    /\ result' = [kind |-> "match", latest |-> LatestMatch(input.tag, input.pattern),
                  snapshot |-> SnapshotMatch(input.tag, input.pattern)]
    /\ UNCHANGED input

Next == ParseText \/ MatchTag

Spec == Init /\ [][Next]_vars

-----------------------------------------------------------------------------
(* Properties *)

\* Every statement written in one of the given forms, its names free of keywords,
\* its keywords in either case, and the values of INSERT quoted and any text at
\* all (quotes, commas, parentheses and keywords included), is read as the
\* statement it stands for. (MCSelectQuery lists the forms, and those of the
\* parser's comments that it leaves out because they are misread.)
FormsRead ==
    (result # NotYet /\ input.kind = "sql" /\ input.means # NotYet) => result = input.means

\* The text holds an action list that is not a list of quoted texts.
UnquotedAction(s) ==
    \E i \in DOMAIN s :
        /\ s[i] = "(" /\ Find(s, <<"ACTI", "ON">>, 1) \in 1 .. i
        /\ \E j \in i + 1 .. Len(s) :
              /\ s[j] \notin Blank \union Quote \union {",", ")"}
              /\ Cardinality({k \in i + 1 .. j - 1 : s[k] = "'"}) % 2 = 0
              /\ \A k \in i + 1 .. j - 1 : s[k] = ")" =>
                    Cardinality({l \in i + 1 .. k - 1 : s[l] = "'"}) % 2 = 1

\* The parser comes to an end on every text, malformed ones included, except
\* where an action of CREATE ALARM is not quoted: there it never returns.
OnlyActionsHang ==
    (result # NotYet /\ input.kind = "sql") => (result = Hangs => UnquotedAction(input.text))

\* The last "%" of the pattern has no character of the tag left to stand for.
LeavesNothing(t, p) == At(p, Len(p)) = "%" /\ Like(t, SubSeq(p, 1, Len(p) - 1))

\* What LIKE patterns select. The latest-value cache and the snapshot store
\* select no tag that LIKE does not. The cache selects every tag that LIKE does,
\* wherever the "%" are and however often it has to go back to try another
\* length for one; nothing is said of a "%" at the end that has nothing left to
\* stand for, where it differs from LIKE. The snapshot store, which never goes
\* back, selects all that LIKE does when the only "%" is the last character.
PatternsSelect ==
    (result # NotYet /\ input.kind = "like") =>
        LET t == input.tag
            p == input.pattern
            percents == {i \in DOMAIN p : p[i] = "%"}
        IN  /\ (result.latest \/ result.snapshot) => Like(t, p)
            /\ (Like(t, p) /\ ~LeavesNothing(t, p)) => result.latest
            /\ percents \subseteq {Len(p)} => (Like(t, p) => result.snapshot)
=============================================================================
