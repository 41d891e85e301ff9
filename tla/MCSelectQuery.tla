---------------------------- MODULE MCSelectQuery ----------------------------
(***************************************************************************)
(* The statements and patterns of the model-checking run of SqlParser and  *)
(* SelectQuery: the forms the statements are written in, with the statement*)
(* each stands for, every short tail behind each statement's head, every   *)
(* short tag name with every short pattern, and aggregate queries on short *)
(* series of points.                                                       *)
(*                                                                         *)
(* The forms are those of tests/test_sql_parser.cpp and of the parser's    *)
(* comments, without TIME_BUCKET(...) AS name (parser.cpp:250), tag IN     *)
(* (...) (326) and ts BETWEEN (334), which are misread, and without DROP   *)
(* TABLE, which the parser reads and its test expects to be refused.       *)
(***************************************************************************)
EXTENDS SelectQuery

Texts(S, n) == UNION {[1 .. k -> S] : k \in 0 .. n}

\* A value in quotes, the quotes inside it doubled.
RECURSIVE Doubled(_)
Doubled(v) == IF v = <<>> THEN <<>> ELSE (IF v[1] = "'" THEN <<"'", "'">> ELSE <<v[1]>>) \o Doubled(Tail(v))
Q(v) == <<"'">> \o Doubled(v) \o <<"'">>

\* Words separated by blanks; a name is given as a text, a word as an atom.
W(words) == FlattenSeq([i \in 1 .. 2 * Len(words) - 1 |->
                IF i % 2 = 0 THEN <<" ">> ELSE words[(i + 1) \div 2]])
K(a) == <<a>>

Name == {<<"t">>, <<"BOILER", "-", "1">>}
ShortName == Texts({"a", "-"}, 2) \ {<<>>}
Awkward == Texts({"a", "'", ",", "(", ")", "=", " ", "VALUES", "AND"}, 2)
NoKeyword == Texts({"a", "'", ",", "(", "%"}, 2)   \* in WHERE: no keyword, no "="

LowerOf == [u \in {UpperOf[a] : a \in DOMAIN UpperOf} |-> CHOOSE a \in DOMAIN UpperOf : UpperOf[a] = u]
ToLower(s) == [i \in DOMAIN s |-> IF s[i] \in DOMAIN LowerOf THEN LowerOf[s[i]] ELSE s[i]]

F(text, stmt) == [text |-> text, means |-> stmt]

Insert(t, cols, r1, r2) ==
    [kind |-> "insert", table |-> t, columns |-> cols, rows |-> <<r1, r2>>]

InsertForms ==
    LET Row(v, n) == <<"(">> \o Q(v) \o <<",", " ">> \o n \o <<")">> IN
    {F(W(<<K("INSERT"), K("INTO"), t, <<"(", "tag", ",", " ", "value", ")">>, K("VALUES"),
              Row(v, <<"1">>) \o <<",", " ">> \o Row(v2, n)>>),
          Insert(t, <<<<"tag">>, <<"value">>>>, <<v, <<"1">>>>, <<v2, n>>)) :
        t \in Name, v \in Awkward, v2 \in Texts({"a", ")"}, 1), n \in {<<"2">>}}
    \union
    {F(ToLower(W(<<K("INSERT"), K("INTO"), t, K("VALUES"), Row(v, <<"1">>), Row(v, <<"2">>)>>)),
          Insert(t, <<>>, <<v, <<"1">>>>, <<v, <<"2">>>>)) : t \in Name, v \in ShortName}

Plain(c) == [agg |-> "NONE", aggregate |-> FALSE, expr |-> c, alias |-> <<>>]
Agg(f) == [agg |-> f, aggregate |-> TRUE, expr |-> <<f, "(", "value", ")">>, alias |-> <<>>]

Select(cols, t, filter, pattern, latest, group) ==
    [kind |-> "select", columns |-> cols, table |-> t,
     where |-> [NoWhere EXCEPT !.filter = filter, !.pattern = pattern],
     latest |-> latest, group |-> group]

SelectForms ==
    LET Tag(v) == {<<"tag", "=">> \o Q(v), <<"tag", " ", "=", " ">> \o Q(v)} IN
    {F(W(<<K("SELECT"), <<"tag", ",", " ", "value">>, K("FROM"), t, K("WHERE"), c, K("LATEST")>>),
          Select(<<Plain(<<"tag">>), Plain(<<"value">>)>>, t, v, <<>>, TRUE, <<>>)) :
        t \in Name, <<v, c>> \in UNION {{<<v, c>> : c \in Tag(v)} : v \in NoKeyword}}
    \union
    {F(ToLower(W(<<K("SELECT"), K("*"), K("FROM"), K("SNAPSHOT"), K("WHERE"), K("tag"), K("LIKE"), Q(v)>>)),
          Select(<<Plain(<<"*">>)>>, <<"SNAPSHOT">>, <<>>, v, TRUE, <<>>)) : v \in NoKeyword}
    \union
    {F(W(<<K("SELECT"), <<f, "(", "value", ")">>, K("FROM"), t, K("WHERE"), c, K("GROUP"), K("BY"),
              <<"TIME_BUCKET", "(">> \o Q(<<"5m">>) \o <<",", " ", "ts", ")">>>>),
          Select(<<Agg(f)>>, t, <<"a">>, <<>>, FALSE, <<<<"5m">>>>)) :
        f \in Range(AggName), t \in Name, c \in Tag(<<"a">>)}
    \union
    {F(W(<<K("SELECT"), K("*"), K("FROM"), t>>),
          Select(<<Plain(<<"*">>)>>, t, <<>>, <<>>, FALSE, <<>>)) : t \in Name}

CreateForms ==
    LET Prop(v) == <<"unit", "=">> \o Q(v)
        List(v) == <<"(">> \o Prop(v) \o <<",", " ", "precision", "=", "1", ")">>
        Props(v) == <<<<<<"unit">>, v>>, <<<<"precision">>, <<"1">>>>>>
        Action(v) == <<"ACTI", "ON", "(">> \o Q(v) \o <<",">> \o Q(<<"log">>) \o <<")">>
    IN
    {F(W(<<K("CREATE"), K("TAG"), t, List(v)>>), [kind |-> "createTag", tag |-> t, props |-> Props(v)]) :
        t \in Name, v \in NoKeyword \union {<<"=">>, <<")">>}}
    \union
    {F(W(<<K("CREATE"), K("TABLE"), t, List(v)>>), [kind |-> "createTable", table |-> t, props |-> Props(v)]) :
        t \in Name, v \in NoKeyword \union {<<"=">>, <<")">>}}
    \union
    {F(W(<<K("CREATE"), <<"TAG", "S">>, K("IN"), K("TABLE"), t,
              <<"(">> \o a \o <<" ">> \o List(v) \o <<",", " ">> \o b \o <<")">>>>),
          [kind |-> "createTags", table |-> t,
           tags |-> <<[name |-> a, props |-> Props(v)], [name |-> b, props |-> <<>>]>>]) :
        t \in Name, a \in Name, b \in ShortName, v \in NoKeyword}
    \union
    {F(W(<<K("CREATE"), K("ALARM"), a, K("ON"), t, K("WHEN"), <<"v", ">", "1">>, K("THEN"), Action(v)>>),
          [kind |-> "createAlarm", alarm |-> a, tag |-> t, condition |-> <<"v", ">", "1">>,
           actions |-> (IF v = <<>> THEN <<>> ELSE <<v>>) \o <<<<"log">>>>]) :
        a \in Name, t \in Name, v \in Awkward}
    \union
    {F(W(<<K("CREATE"), K("USER"), u, K("WITH"), K("PASSWORD"), Q(v), K("ROLE"), r>>),
          [kind |-> "createUser", user |-> u, pw |-> v, role |-> <<"operator">>]) :
        u \in Name, v \in Awkward \ {<<>>}, r \in {<<"operator">>, Q(<<"operator">>)}}
    \union
    {F(W(<<K("CREATE"), K("USER"), u, K("WITH"), K("PASSWORD"), Q(v)>>),
          [kind |-> "createUser", user |-> u, pw |-> v, role |-> <<"viewer">>]) : u \in Name, v \in ShortName}

AlterForms ==
    {F(W(<<K("ALTER"), K("USER"), u, K("SET"), K("password"), Q(v)>>),
          [kind |-> "alterUser", user |-> u, prop |-> <<"password">>, value |-> v]) : u \in Name, v \in Awkward}
    \union
    {F(W(<<K("ALTER"), K("USER"), u, K("SET"), K("role"), K("admin")>>),
          [kind |-> "alterUser", user |-> u, prop |-> <<"role">>, value |-> <<"admin">>]) : u \in Name}
    \union
    {F(W(<<K("ALTER"), K("ALARM"), a, K("SET"), <<"condition", "=">> \o Q(v)>>),
          [kind |-> "alterAlarm", alarm |-> a, prop |-> <<"condition">>, value |-> v]) : a \in Name, v \in Awkward}
    \union
    {F(W(<<K("ALTER"), K("TAG"), t \o <<".">> \o n, K("SET"), <<"unit", "=">> \o Q(v)>>),
          [kind |-> "alterTag", table |-> t, tag |-> n, prop |-> <<"unit">>, value |-> v]) :
        t \in Name, n \in Name, v \in ShortName}
    \union
    {F(W(<<K("ALTER"), K("SYSTEM"), K("SET"), <<"k", "=">> \o v>>),
          [kind |-> "alterSystem", key |-> <<"k">>, value |-> w]) : <<v, w>> \in {<<Q(w), w>> : w \in Awkward}}

OtherForms ==
    LET Time(v, a, b) == <<"tag", "=">> \o Q(v) \o <<" ", "AND", " ", "timestamp", " ", "BETWEEN", " ">>
                             \o Q(a) \o <<" ", "AND", " ">> \o Q(b)
    IN
    {F(W(<<K(verb), K(noun), n>>), [kind |-> kind, name |-> n]) : n \in Name,
        <<verb, noun, kind>> \in {<<"DROP", "ALARM", "dropAlarm">>, <<"DROP", "USER", "dropUser">>,
             <<"DROP", "DATABASE", "dropDatabase">>,
            <<"CREATE", "DATABASE", "createDatabase">>}}
    \union
    {F(W(<<K("DROP"), K("TAG"), t \o <<".">> \o n>>), [kind |-> "dropTag", table |-> t, tag |-> n]) :
        t \in Name, n \in Name}
    \union
    {F(W(<<K("USE"), n>>), [kind |-> "use", name |-> n]) : n \in Name}
    \union
    {F(W(<<K("DELETE"), K("FROM"), t, K("WHERE"), Time(v, a, <<"d", "2">>)>>),
          [kind |-> "delete", table |-> t, filter |-> v, start |-> a, end |-> <<"d", "2">>]) :
        t \in Name, v \in NoKeyword, a \in ShortName}
    \union
    {F(W(<<K("UPDATE"), t, K("SET"), K("value"), K("="), K("2"), K("WHERE"),
              <<"tag", "=">> \o Q(v), K("AND"), ts \o Q(a)>>),
          [kind |-> "update", table |-> t, value |-> "2", filter |-> v, time |-> a]) :
        t \in Name, v \in NoKeyword, a \in ShortName, ts \in {<<"timestamp", "=">>, <<"timestamp", " ", "=", " ">>}}
    \union
    {F(W(<<K("SHOW"), <<x, "S">>>>), Show(y, <<>>, <<>>)) :
        <<x, y>> \in {<<"DATABASE", "databases">>, <<"TABLE", "tables">>, <<"TAG", "tags">>,
                      <<"USER", "users">>, <<"ALARM", "alarms">>}}
    \union
    {F(W(<<K("SHOW"), <<x, "S">>, K("FROM"), n>>), Show(y, n, <<>>)) :
        n \in Name, <<x, y>> \in {<<"TABLE", "tables">>, <<"TAG", "tags">>}}
    \union
    {F(W(<<K("SHOW"), <<"TAG", "S">>, K("FROM"), n, K("LIKE"), Q(v)>>), Show("tags", n, v)) :
        n \in Name, v \in Texts({"a", "%"}, 2)}

\* Every short text behind the head of a statement.
Openings == {<<"SELECT", " ">>, <<"SELECT", " ", "FROM", " ">>, <<"INSERT", " ", "INTO", " ">>,
          <<"INSERT", " ", "INTO", " ", "t", "VALUES">>,
          <<"CREATE", " ", "TAG">>, <<"CREATE", " ", "TAG", "S", " ", "IN", " ", "TABLE">>,
          <<"CREATE", " ", "TABLE", " ">>, <<"CREATE", " ", "USER", " ">>,
          <<"CREATE", " ", "ALARM", " ", "a", "ON", "WHEN", "THEN">>,
          <<"CREATE", " ", "ALARM", " ", "a", "ON", "WHEN", "THEN", "ACTI", "ON", "(">>,
          <<"ALTER", " ", "USER", " ", "u", " ", "SET", " ">>,
          <<"ALTER", " ", "ALARM", " ", "u", " ", "SET", " ">>,
          <<"ALTER", " ", "TAG", " ", "t", ".">>, <<"ALTER", " ", "SYSTEM", " ">>,
          <<"DELETE", " ", "FROM", " ", "t", "WHERE">>, <<"UPDATE", " ", "t", "SET">>,
          <<"SHOW", " ", "TAG", "S", " ", "FROM">>, <<"USE">>, <<"DROP", " ", "TAG">>, <<>>}

Ends == Texts({" ", ",", "(", ")", "'", "=", "x"}, 4)

TagNames == Texts({"a", "b"}, 3)
Patterns == Texts({"a", "b", "%", "_"}, 4)

\* Every function, and buckets of every kind, with the number each is divided by.
Buckets == {<<<<"2", "s">>, 2000>>, <<<<"1", "m">>, 60000>>, <<<<"1", "h">>, 3600000>>,
            <<<<"1", "d">>, 86400000>>, <<<<"1", "0", "0", "x">>, 100>>, <<<<"x">>, 300000>>,
            <<<<"5">>, 300000>>, <<<<"0", "s">>, 300000>>}

Aggregate(f, bucket) ==
    W(<<K("SELECT"), <<f, "(", "value", ")">>, K("FROM"), K("t"), K("WHERE"), <<"tag", "=">> \o Q(<<"a">>),
        K("GROUP"), K("BY"), <<"TIME_BUCKET", "(">> \o Q(bucket) \o <<",", " ", "ts", ")">>>>)

Queries == {[text |-> Aggregate(f, b[1]), agg |-> f, size |-> b[2]] : f \in Range(AggName), b \in {<<<<"2", "s">>, 2000>>}}
           \union {[text |-> Aggregate("SUM", b[1]), agg |-> "SUM", size |-> b[2]] : b \in Buckets}

Times == {-70000, -1, 0, 1999, 2000, 310000, 4000000}
Values == {[double |-> TRUE, v |-> v] : v \in {-3, 1, 4}} \union {[double |-> FALSE, v |-> 7]}

Series == UNION {{[i \in 1 .. Cardinality(S) |-> LET t == SetToSortSeq(S, <)[i] IN
                       [ts |-> t, double |-> f[t].double, v |-> f[t].v]] : f \in [S -> Values]} :
                 S \in UNION {kSubset(k, Times) : k \in 0 .. 3}}

AllForms == InsertForms \union SelectForms \union CreateForms \union AlterForms \union OtherForms
=============================================================================
