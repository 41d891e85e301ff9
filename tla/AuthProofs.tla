------------------------------ MODULE AuthProofs ------------------------------
(***************************************************************************)
(* Type correctness of AuthManager, the validity of tokens, the survival   *)
(* of an administrator and of acknowledged changes, for any names,         *)
(* passwords, handlers and bounds.                                         *)
(***************************************************************************)
EXTENDS Auth, FiniteSetTheorems, TLAPS

-----------------------------------------------------------------------------
(* Maps of users *)

\* Users is the maps from names to users.
LEMMA UsersIff ==
    \A u : u \in Users <=> /\ u = [m \in DOMAIN u |-> u[m]]
                           /\ DOMAIN u \subseteq Name
                           /\ \A m \in DOMAIN u : u[m] \in User
  <1>1. ASSUME NEW u \in Users
        PROVE  u = [m \in DOMAIN u |-> u[m]] /\ DOMAIN u \subseteq Name /\ \A m \in DOMAIN u : u[m] \in User
    <2>1. PICK D \in SUBSET Name : u \in [D -> User]
      BY DEF Users
    <2> QED
      BY <2>1
  <1>2. ASSUME NEW u, u = [m \in DOMAIN u |-> u[m]], DOMAIN u \subseteq Name,
               \A m \in DOMAIN u : u[m] \in User
        PROVE  u \in Users
    <2>1. u \in [DOMAIN u -> User]
      BY <1>2
    <2> QED
      BY <1>2, <2>1 DEF Users
  <1> QED
    BY <1>1, <1>2

LEMMA NewUserType ==
    \A p \in Password, r \in Role :
        NewUser(p, r) \in User /\ NewUser(p, r).role = r /\ NewUser(p, r).active
  BY DEF NewUser, User, Hash

LEMMA DefaultType == DefaultUsers \in Users /\ HasAdmin(DefaultUsers) /\ AllActive(DefaultUsers)
  <1>1. /\ DOMAIN DefaultUsers = {"admin"} /\ DefaultUsers["admin"] = NewUser("admin123", "ADMIN")
        /\ DefaultUsers = [m \in DOMAIN DefaultUsers |-> DefaultUsers[m]]
    BY DEF DefaultUsers
  <1>2. NewUser("admin123", "ADMIN") \in User /\ NewUser("admin123", "ADMIN").role = "ADMIN"
        /\ NewUser("admin123", "ADMIN").active
    BY AuthAssumption, NewUserType DEF Role
  <1> QED
    BY <1>1, <1>2, UsersIff, AuthAssumption DEF HasAdmin, AllActive

\* Put and Remove change one entry of a map of users.
LEMMA PutUsers ==
    ASSUME NEW u \in Users, NEW n \in Name, NEW x \in User
    PROVE  /\ Put(u, n, x) \in Users
           /\ DOMAIN Put(u, n, x) = DOMAIN u \union {n}
           /\ Put(u, n, x)[n] = x
           /\ \A m \in DOMAIN u : m # n => Put(u, n, x)[m] = u[m]
  <1> DEFINE v == Put(u, n, x)
  <1>1. /\ DOMAIN v = DOMAIN u \union {n} /\ v = [m \in DOMAIN v |-> v[m]] /\ v[n] = x
        /\ \A m \in DOMAIN u : m # n => v[m] = u[m]
    BY DEF Put
  <1> HIDE DEF v
  <1>2. v \in Users
    BY <1>1, UsersIff
  <1> QED
    BY <1>1, <1>2 DEF v

LEMMA RemoveUsers ==
    ASSUME NEW u \in Users, NEW n
    PROVE  /\ Remove(u, n) \in Users
           /\ DOMAIN Remove(u, n) = DOMAIN u \ {n}
           /\ \A m \in DOMAIN u : m # n => Remove(u, n)[m] = u[m]
  <1> DEFINE v == Remove(u, n)
  <1>1. /\ DOMAIN v = DOMAIN u \ {n} /\ v = [m \in DOMAIN v |-> v[m]]
        /\ \A m \in DOMAIN u : m # n => v[m] = u[m]
    BY DEF Remove
  <1> HIDE DEF v
  <1>2. v \in Users
    BY <1>1, UsersIff
  <1> QED
    BY <1>1, <1>2 DEF v

LEMMA EntryPut == \A u, n, x, m : Entry(Put(u, n, x), m) = IF m = n THEN {x} ELSE Entry(u, m)
  <1> SUFFICES ASSUME NEW u, NEW n, NEW x, NEW m
               PROVE  Entry(Put(u, n, x), m) = IF m = n THEN {x} ELSE Entry(u, m)
    OBVIOUS
  <1> DEFINE v == Put(u, n, x)
  <1>1. DOMAIN v = DOMAIN u \union {n} /\ \A k \in DOMAIN v : v[k] = IF k = n THEN x ELSE u[k]
    BY DEF Put
  <1> HIDE DEF v
  <1>2. Entry(v, m) = IF m = n THEN {x} ELSE Entry(u, m)
    BY <1>1 DEF Entry
  <1> QED
    BY <1>2 DEF v

LEMMA EntryRemove == \A u, n, m : Entry(Remove(u, n), m) = IF m = n THEN {} ELSE Entry(u, m)
  <1> SUFFICES ASSUME NEW u, NEW n, NEW m
               PROVE  Entry(Remove(u, n), m) = IF m = n THEN {} ELSE Entry(u, m)
    OBVIOUS
  <1> DEFINE v == Remove(u, n)
  <1>1. DOMAIN v = DOMAIN u \ {n} /\ \A k \in DOMAIN v : v[k] = u[k]
    BY DEF Remove
  <1> HIDE DEF v
  <1>2. Entry(v, m) = IF m = n THEN {} ELSE Entry(u, m)
    BY <1>1 DEF Entry
  <1> QED
    BY <1>2 DEF v

\* The operations of the clients.
Operation == CreateOp \union DropOp \union AlterOp

\* An operation changes the entry of the user it names and no other.
LEMMA AppliedUsers ==
    ASSUME NEW u \in Users, NEW o \in Operation
    PROVE  /\ o.name \in Name
           /\ Applied(u, o) \in Users
           /\ \A m : m # o.name => Entry(Applied(u, o), m) = Entry(u, m)
  <1>0. o.name \in Name
    BY DEF Operation, CreateOp, DropOp, AlterOp
  <1>1. CASE o \in CreateOp
    <2>1. o.kind = "create" /\ o.pw \in Password /\ o.role \in Role
      BY <1>1, AuthAssumption DEF CreateOp, Role
    <2>2. Applied(u, o) = Put(u, o.name, NewUser(o.pw, o.role)) /\ NewUser(o.pw, o.role) \in User
      BY <2>1, NewUserType DEF Applied
    <2>3. Put(u, o.name, NewUser(o.pw, o.role)) \in Users
      BY <1>0, <2>2, PutUsers
    <2> QED
      BY <1>0, <2>2, <2>3, EntryPut
  <1>2. CASE o \in DropOp
    <2>1. Applied(u, o) = Remove(u, o.name)
      BY <1>2 DEF DropOp, Applied
    <2>2. Remove(u, o.name) \in Users
      BY RemoveUsers
    <2> QED
      BY <1>0, <2>1, <2>2, EntryRemove
  <1>3. CASE o \in AlterOp /\ o.name \notin DOMAIN u
    <2>1. Applied(u, o) = u
      BY <1>3 DEF AlterOp, Applied
    <2> QED
      BY <1>0, <2>1
  <1>4. CASE o \in AlterOp /\ o.name \in DOMAIN u
    <2> DEFINE n == o.name
    <2>1. u \in [DOMAIN u -> User] /\ DOMAIN u \subseteq Name /\ u[n] \in User
      BY <1>4, UsersIff
    <2>2. PICK x \in User : Applied(u, o) = [u EXCEPT ![n] = x]
      <3>1. CASE o.kind = "password"
        <4>1. o.pw \in Password /\ Applied(u, o) = [u EXCEPT ![n].hash = HashPassword(o.pw)]
          BY <1>4, <3>1 DEF AlterOp, Applied
        <4>2. [u[n] EXCEPT !.hash = HashPassword(o.pw)] \in User
          BY <2>1, <4>1 DEF User, Hash
        <4> QED
          BY <4>1, <4>2
      <3>2. CASE o.kind = "role"
        <4>1. o.role \in Role /\ Applied(u, o) = [u EXCEPT ![n].role = o.role]
          BY <1>4, <3>2, AuthAssumption DEF AlterOp, Applied, Role
        <4>2. [u[n] EXCEPT !.role = o.role] \in User
          BY <2>1, <4>1 DEF User
        <4> QED
          BY <4>1, <4>2
      <3> QED
        BY <1>4, <3>1, <3>2 DEF AlterOp
    <2> HIDE DEF n
    <2>3. [u EXCEPT ![n] = x] \in [DOMAIN u -> User]
      BY <2>1
    <2>4. [u EXCEPT ![n] = x] \in Users
      BY <2>1, <2>3 DEF Users
    <2>5. \A m : m # n => Entry([u EXCEPT ![n] = x], m) = Entry(u, m)
      BY <2>1, <2>3 DEF Entry
    <2> QED
      BY <1>0, <2>2, <2>4, <2>5 DEF n
  <1> QED
    BY <1>1, <1>2, <1>3, <1>4 DEF Operation

-----------------------------------------------------------------------------
(* Types *)

OpType == {NoOp} \union Operation

LEMMA NoOperation == NoOp \notin Operation
  BY DEF NoOp, Operation, CreateOp, DropOp, AlterOp

LEMMA CleanupKeepsSome == \A T, t : Cleanup(T, t) \subseteq T
  BY DEF Cleanup

LEMMA IssueTokenType ==
    ASSUME TypeOK, NEW n \in Name, IssueToken(n)
    PROVE  tokens' \subseteq Token /\ issued' \subseteq Issue /\ tokenCount' \in 0 .. MaxTokens
  <1>1. tokenCount + 1 \in 1 .. MaxTokens /\ tokenCount' \in 0 .. MaxTokens
    BY AuthAssumption DEF IssueToken, TypeOK
  <1>2. now \in 0 .. MaxTime /\ now + Expiry \in 0 .. MaxTime + Expiry
    BY AuthAssumption DEF TypeOK
  <1>3. [id |-> tokenCount + 1, user |-> n, expires |-> now + Expiry] \in Token
    BY <1>1, <1>2 DEF Token
  <1>4. [id |-> tokenCount + 1, user |-> n, at |-> now] \in Issue
    BY <1>1, <1>2 DEF Issue
  <1> QED
    BY <1>1, <1>3, <1>4, CleanupKeepsSome DEF IssueToken, TypeOK

LEMMA BeginType ==
    ASSUME TypeOK, NEW h \in Handler, NEW o \in Operation, Begin(h, o)
    PROVE  /\ pc' \in [Proc -> {"idle", "change", "open", "write"}]
           /\ op' \in [Handler -> OpType]
           /\ raced' \in BOOLEAN /\ changes' \in 0 .. MaxChanges
  <1>1. changes' \in 0 .. MaxChanges
    BY AuthAssumption DEF Begin, TypeOK
  <1> QED
    BY <1>1 DEF Begin, TypeOK, Proc, OpType, Operation

\* The steps that can start an operation that changes users_.
Request(h) ==
    \/ \E n \in Name, p \in Password : Login(h, n, p)
    \/ OtherRequest(h)
    \/ \E id \in TokenIds, n \in Name :
          \/ \E p \in Password, r \in GivenRole : CreateUser(h, id, n, p, r)
          \/ DropUser(h, id, n)
    \/ \E id \in TokenIds, o \in AlterOp : AlterUser(h, id, o)

\* A request finds the server running and its handler idle. It issues a token
\* or lets expired ones go; it ends there, or an operation passes its checks.
LEMMA RequestEffect ==
    ASSUME NEW h \in Handler, Request(h)
    PROVE  /\ phase = "running" /\ pc[h] = "idle"
           /\ \/ \E n \in Name : IssueToken(n)
              \/ tokens' = Cleanup(tokens, now) /\ UNCHANGED <<issued, tokenCount>>
           /\ \/ \E o \in Operation : Begin(h, o)
              \/ UNCHANGED <<phase, users, now, disk, pc, op, promised, unsettled, raced, demoted,
                             damaged, unopened, changes, crashes, faults>>
  <1>1. ASSUME NEW n \in Name, NEW p \in Password, Login(h, n, p)
        PROVE  /\ phase = "running" /\ pc[h] = "idle" /\ IssueToken(n)
               /\ UNCHANGED <<phase, users, now, disk, pc, op, promised, unsettled, raced, demoted,
                              damaged, unopened, changes, crashes, faults>>
    BY <1>1 DEF Login
  <1>2. CASE OtherRequest(h)
    BY <1>2 DEF OtherRequest, history, counts
  <1>3. ASSUME NEW id, NEW n \in Name, NEW p \in Password, NEW r \in GivenRole, CreateUser(h, id, n, p, r)
        PROVE  /\ phase = "running" /\ pc[h] = "idle" /\ "admin" \in Name /\ IssueToken("admin")
               /\ \/ \E o \in Operation : Begin(h, o)
                  \/ UNCHANGED <<phase, users, now, disk, pc, op, promised, unsettled, raced,
                                 demoted, damaged, unopened, changes, crashes, faults>>
    <2>1. [kind |-> "create", name |-> n, pw |-> p, role |-> r] \in Operation
      BY DEF Operation, CreateOp
    <2> QED
      BY <1>3, <2>1, AuthAssumption DEF CreateUser
  <1>4. ASSUME NEW id, NEW n \in Name, DropUser(h, id, n)
        PROVE  /\ phase = "running" /\ pc[h] = "idle" /\ \E o \in Operation : Begin(h, o)
               /\ tokens' = Cleanup(tokens, now) /\ UNCHANGED <<issued, tokenCount>>
    <2>1. [kind |-> "drop", name |-> n] \in Operation
      BY DEF Operation, DropOp
    <2> QED
      BY <1>4, <2>1 DEF DropUser
  <1>5. ASSUME NEW id, NEW o \in AlterOp, AlterUser(h, id, o)
        PROVE  /\ phase = "running" /\ pc[h] = "idle" /\ \E x \in Operation : Begin(h, x)
               /\ tokens' = Cleanup(tokens, now) /\ UNCHANGED <<issued, tokenCount>>
    BY <1>5 DEF AlterUser, Operation
  <1> QED
    BY <1>1, <1>2, <1>3, <1>4, <1>5 DEF Request

\* What Load makes of a cut file are users.
LEMMA CutUsersType == \A u \in Users : CutUsers(u) \subseteq Users
  <1> SUFFICES ASSUME NEW u \in Users, NEW v \in CutUsers(u) PROVE v \in Users
    OBVIOUS
  <1>1. DOMAIN u \subseteq Name
    BY UsersIff
  <1>2. PICK D \in SUBSET DOMAIN u : v \in [D -> User]
    BY DEF CutUsers
  <1> QED
    BY <1>1, <1>2 DEF Users

LEMMA StepType == TypeOK /\ OpInv /\ [Next]_vars => TypeOK'
  <1> SUFFICES ASSUME TypeOK, OpInv, [Next]_vars PROVE TypeOK'
    OBVIOUS
  <1> USE DEF disk, history, counts
  <1>0. /\ op \in [Handler -> OpType] /\ users \in Users /\ Main \in Proc /\ Handler \subseteq Proc
        /\ \A u \in Users : Whole(u) \in [kind : {"whole", "torn"}, users : Users]
                            /\ Torn(u) \in [kind : {"whole", "torn"}, users : Users]
    BY DEF TypeOK, OpType, Operation, Proc, Whole, Torn
  <1>f. faults < MaxFaults => faults + 1 \in 0 .. MaxFaults
    BY AuthAssumption DEF TypeOK
  <1>1. ASSUME NEW h \in Handler, Request(h) PROVE TypeOK'
    <2>1. tokens' \subseteq Token /\ issued' \subseteq Issue /\ tokenCount' \in 0 .. MaxTokens
      BY <1>1, RequestEffect, IssueTokenType, CleanupKeepsSome DEF TypeOK
    <2>2. CASE UNCHANGED <<phase, users, now, disk, pc, op, promised, unsettled, raced, demoted,
                           damaged, unopened, changes, crashes, faults>>
      BY <2>1, <2>2 DEF TypeOK
    <2>3. ASSUME NEW o \in Operation, Begin(h, o) PROVE TypeOK'
      <3>1. /\ pc' \in [Proc -> {"idle", "change", "open", "write"}] /\ op' \in [Handler -> OpType]
            /\ raced' \in BOOLEAN /\ changes' \in 0 .. MaxChanges
        BY <2>3, BeginType
      <3> QED
        BY <2>1, <2>3, <3>1 DEF Begin, TypeOK, OpType, Operation
    <2> QED
      BY <1>1, <2>2, <2>3, RequestEffect
  <1>2. ASSUME NEW h \in Handler, Change(h) PROVE TypeOK'
    <2>1. op[h] \in Operation
      BY <1>0, <1>2 DEF Change, OpInv, OpType
    <2>2. users' \in Users /\ op[h].name \in Name
      BY <1>0, <1>2, <2>1, AppliedUsers DEF Change
    <2>3. mixed' \in BOOLEAN /\ demoted' \in BOOLEAN
      BY <1>2 DEF Change, TypeOK
    <2>4. pc' \in [Proc -> {"idle", "change", "open", "write"}]
      BY <1>0, <1>2 DEF Change, TypeOK
    <2> QED
      BY <1>2, <2>2, <2>3, <2>4 DEF Change, TypeOK
  <1>3. ASSUME NEW x \in Proc, SaveOpen(x) PROVE TypeOK'
    <2>1. file' \in [kind : {"whole", "torn"}, users : Users] /\ mixed' \in BOOLEAN
      BY <1>0, <1>3 DEF SaveOpen
    <2>2. pc' \in [Proc -> {"idle", "change", "open", "write"}]
      BY <1>3 DEF SaveOpen, TypeOK
    <2> QED
      BY <1>3, <2>1, <2>2 DEF SaveOpen, TypeOK
  <1>4. ASSUME NEW x \in Proc, Return(x)
        PROVE  /\ pc' \in [Proc -> {"idle", "change", "open", "write"}]
               /\ op' \in [Handler -> OpType] /\ phase' \in {"down", "starting", "running"}
    <2>1. x # Main => x \in Handler
      BY DEF Proc
    <2> QED
      BY <1>0, <1>4, <2>1 DEF Return, TypeOK, OpType
  <1>5. ASSUME NEW x \in Proc, SaveWrite(x) PROVE TypeOK'
    <2>1. file' \in [kind : {"whole", "torn"}, users : Users] /\ faults' \in 0 .. MaxFaults
      BY <1>0, <1>f, <1>5 DEF SaveWrite, TypeOK
    <2>2. promised' \in Users /\ unsettled' \subseteq Name
      <3>1. CASE x = Main
        BY <1>5, <3>1 DEF SaveWrite, TypeOK
      <3>2. CASE x # Main
        <4> DEFINE n == op[x].name
        <4>1. x \in Handler /\ pc[x] # "idle" /\ op[x] \in Operation
          BY <1>0, <1>5, <3>2 DEF Proc, SaveWrite, OpInv, OpType
        <4>2. n \in Name
          BY <4>1 DEF Operation, CreateOp, DropOp, AlterOp
        <4>3. /\ promised' = IF n \in DOMAIN users THEN Put(promised, n, users[n]) ELSE Remove(promised, n)
              /\ unsettled' = unsettled \ {n}
          BY <1>5, <3>2 DEF SaveWrite
        <4> HIDE DEF n
        <4>4. n \in DOMAIN users => users[n] \in User
          BY <1>0, UsersIff
        <4>5. promised \in Users /\ unsettled \subseteq Name
          BY DEF TypeOK
        <4> QED
          BY <4>2, <4>3, <4>4, <4>5, PutUsers, RemoveUsers
      <3> QED
        BY <3>1, <3>2
    <2>3. /\ pc' \in [Proc -> {"idle", "change", "open", "write"}]
          /\ op' \in [Handler -> OpType] /\ phase' \in {"down", "starting", "running"}
      BY <1>4, <1>5 DEF SaveWrite
    <2> QED
      BY <1>5, <2>1, <2>2, <2>3 DEF SaveWrite, TypeOK, OpType, Operation
  <1>6. ASSUME NEW x \in Proc, SaveFails(x) PROVE TypeOK'
    <2>1. /\ pc' \in [Proc -> {"idle", "change", "open", "write"}]
          /\ op' \in [Handler -> OpType] /\ phase' \in {"down", "starting", "running"}
      BY <1>4, <1>6 DEF SaveFails
    <2>2. faults' \in 0 .. MaxFaults
      BY <1>f, <1>6 DEF SaveFails
    <2> QED
      BY <1>6, <2>1, <2>2 DEF SaveFails, TypeOK, OpType, Operation
  <1>7. CASE Start
    <2>1. users' \in Users
      BY <1>7, DefaultType, CutUsersType DEF Start, TypeOK, NoFile
    <2>2. pc' \in [Proc -> {"idle", "change", "open", "write"}] /\ phase' \in {"starting", "running"}
      BY <1>7 DEF Start, TypeOK
    <2>3. faults' \in 0 .. MaxFaults /\ unopened' \in BOOLEAN
      BY <1>f, <1>7 DEF Start, TypeOK
    <2> QED
      BY <1>7, <2>1, <2>2, <2>3 DEF Start, TypeOK
  <1>8. CASE Crash
    <2>1. crashes' \in 0 .. MaxCrashes
      BY <1>8, AuthAssumption DEF Crash, TypeOK
    <2> QED
      BY <1>8, <2>1, DefaultType DEF Crash, TypeOK
  <1>9. CASE Tick
    <2>1. now' \in 0 .. MaxTime
      BY <1>9, AuthAssumption DEF Tick, TypeOK
    <2> QED
      BY <1>9, <2>1 DEF Tick, TypeOK
  <1>10. CASE UNCHANGED vars
    BY <1>10 DEF vars, TypeOK
  <1> QED
    BY <1>1, <1>2, <1>3, <1>5, <1>6, <1>7, <1>8, <1>9, <1>10 DEF Next, Request

LEMMA StepOp == TypeOK /\ OpInv /\ [Next]_vars => OpInv'
  <1> SUFFICES ASSUME TypeOK, OpInv, [Next]_vars PROVE OpInv'
    OBVIOUS
  <1> USE DEF disk, history, counts
  <1>0. /\ pc \in [Proc -> {"idle", "change", "open", "write"}] /\ op \in [Handler -> OpType]
        /\ Main \in Proc /\ Handler \subseteq Proc /\ Main \notin Handler
    BY AuthAssumption DEF TypeOK, OpType, Operation, Proc
  <1>1. ASSUME NEW h \in Handler, Request(h) PROVE OpInv'
    <2>1. CASE UNCHANGED <<phase, pc, op>>
      BY <2>1 DEF OpInv
    <2>2. ASSUME NEW o \in Operation, Begin(h, o) PROVE OpInv'
      <3>1. /\ phase = "running" /\ phase' = phase /\ op'[h] = o /\ o # NoOp
            /\ \A g \in Proc : g # h => pc'[g] = pc[g]
            /\ \A g \in Handler : g # h => op'[g] = op[g]
        BY <1>0, <1>1, <2>2, RequestEffect, NoOperation DEF Begin
      <3> QED
        BY <1>0, <3>1 DEF OpInv
    <2> QED
      BY <1>1, <2>1, <2>2, RequestEffect
  <1>2. ASSUME NEW x \in Proc, pc[x] # "idle", UNCHANGED <<phase, op>>, NEW s, pc' = [pc EXCEPT ![x] = s]
        PROVE  OpInv'
    BY <1>0, <1>2 DEF OpInv
  <1>3. ASSUME NEW x \in Proc, (x \in Handler /\ Change(x)) \/ SaveOpen(x) PROVE OpInv'
    <2>1. pc[x] # "idle" /\ UNCHANGED <<phase, op>> /\ \E s : pc' = [pc EXCEPT ![x] = s]
      BY <1>3 DEF Change, SaveOpen
    <2> QED
      BY <1>2, <2>1
  <1>4. ASSUME NEW x \in Proc, SaveWrite(x) \/ SaveFails(x) PROVE OpInv'
    <2>1. Return(x) /\ pc[x] # "idle" /\ pc'[x] = "idle" /\ \A g \in Proc : g # x => pc'[g] = pc[g]
      BY <1>0, <1>4 DEF SaveWrite, SaveFails, Return
    <2>2. CASE x = Main
      BY <1>0, <2>1, <2>2 DEF Return, OpInv
    <2>3. CASE x # Main
      <3>1. x \in Handler /\ phase' = phase /\ \A g \in Handler : g # x => op'[g] = op[g]
        BY <1>0, <2>1, <2>3 DEF Proc, Return
      <3> QED
        BY <1>0, <2>1, <2>3, <3>1 DEF OpInv
    <2> QED
      BY <2>2, <2>3
  <1>5. CASE Start
    <2>1. phase = "down" /\ \A x \in Proc : pc[x] = "idle"
      BY <1>5 DEF Start, OpInv, Proc
    <2>2. \A h \in Handler : pc'[h] = "idle"
      BY <1>0, <1>5, <2>1 DEF Start
    <2>3. pc'[Main] # "idle" => phase' = "starting"
      BY <1>0, <1>5, <2>1 DEF Start
    <2> QED
      BY <2>2, <2>3 DEF OpInv
  <1>6. CASE Crash
    BY <1>0, <1>6 DEF Crash, OpInv
  <1>7. CASE Tick \/ UNCHANGED vars
    BY <1>7 DEF Tick, vars, OpInv
  <1> QED
    BY <1>0, <1>1, <1>3, <1>4, <1>5, <1>6, <1>7 DEF Next, Request

LEMMA InitType == Init => TypeOK /\ OpInv
  <1> SUFFICES ASSUME Init PROVE TypeOK /\ OpInv
    OBVIOUS
  <1>1. 0 \in 0 .. MaxTokens /\ 0 \in 0 .. MaxChanges /\ 0 \in 0 .. MaxCrashes /\ 0 \in 0 .. MaxFaults
        /\ 0 \in 0 .. MaxTime
    BY AuthAssumption
  <1>2. TypeOK
    BY <1>1, DefaultType DEF Init, TypeOK
  <1>3. OpInv
    BY DEF Init, OpInv, Proc
  <1> QED
    BY <1>2, <1>3

\* The state of AuthManager and its handlers keeps its type.
THEOREM TypeCorrect == Spec => [](TypeOK /\ OpInv)
  <1> QED
    BY InitType, StepType, StepOp, PTL DEF Spec

-----------------------------------------------------------------------------
(* Tokens *)

LEMMA ClockAndCount ==
    ASSUME TypeOK
    PROVE  /\ now \in Nat /\ tokenCount \in Nat /\ Expiry \in Nat
           /\ \A i \in issued : i.at \in Nat /\ i.id \in Nat /\ i.user \in Name
  BY AuthAssumption DEF TypeOK, Issue

\* A cleanup removes expired tokens only.
LEMMA CleanupTokens ==
    ASSUME TypeOK, TokenInv, tokens' = Cleanup(tokens, now), UNCHANGED <<issued, tokenCount, now>>
    PROVE  TokenInv'
  <1>1. \A i \in issued : TokenOf(i).expires = i.at + Expiry
    BY DEF TokenOf
  <1>2. \A i \in issued : now <= i.at + Expiry => i.at + Expiry >= now
    BY ClockAndCount
  <1>3. \A i \in issued : now <= i.at + Expiry => TokenOf(i) \in tokens'
    BY <1>1, <1>2 DEF TokenInv, Cleanup
  <1> QED
    BY <1>3 DEF TokenInv, TokenOf, Cleanup

\* A new token has a number of its own.
LEMMA IssueTokens ==
    ASSUME TypeOK, TokenInv, NEW n \in Name, IssueToken(n), now' = now
    PROVE  TokenInv'
  <1> DEFINE k == [id |-> tokenCount + 1, user |-> n, at |-> now]
  <1>1. /\ issued' = issued \union {k} /\ tokenCount' = tokenCount + 1
        /\ tokens' = Cleanup(tokens, now) \union {TokenOf(k)}
    BY DEF IssueToken, TokenOf
  <1>2. k.id = tokenCount + 1
    OBVIOUS
  <1> HIDE DEF k
  <1>3. \A i \in issued : i.id <= tokenCount /\ i.id # k.id /\ i.id <= tokenCount + 1
    BY <1>2, ClockAndCount DEF TokenInv
  <1>4. \A i, j \in issued' : i.id = j.id => i = j
    BY <1>1, <1>3 DEF TokenInv
  <1>5. \A i \in issued' : i.id <= tokenCount'
    BY <1>1, <1>2, <1>3, ClockAndCount
  <1>6. \A t \in tokens' : \E i \in issued' : t = TokenOf(i)
    BY <1>1, CleanupKeepsSome DEF TokenInv
  <1>7. ASSUME NEW i \in issued', now <= i.at + Expiry PROVE TokenOf(i) \in tokens'
    <2>1. CASE i = k
      BY <1>1, <2>1
    <2>2. CASE i \in issued
      <3>1. TokenOf(i) \in tokens /\ TokenOf(i).expires = i.at + Expiry
        BY <1>7, <2>2 DEF TokenInv, TokenOf
      <3>2. i.at + Expiry >= now
        BY <1>7, <2>2, ClockAndCount
      <3> QED
        BY <1>1, <3>1, <3>2 DEF Cleanup
    <2> QED
      BY <1>1, <2>1, <2>2
  <1>8. \A i \in issued' : now' <= i.at + Expiry => TokenOf(i) \in tokens'
    BY <1>7
  <1> QED
    BY <1>4, <1>5, <1>6, <1>8 DEF TokenInv, TokenOf

LEMMA StepToken == TypeOK /\ TokenInv /\ [Next]_vars => TokenInv'
  <1> SUFFICES ASSUME TypeOK, TokenInv, [Next]_vars PROVE TokenInv'
    OBVIOUS
  <1> USE DEF disk, history, counts
  <1>1. ASSUME NEW h \in Handler, Request(h) PROVE TokenInv'
    <2>1. now' = now
      BY <1>1, RequestEffect DEF Begin
    <2> QED
      BY <1>1, <2>1, RequestEffect, CleanupTokens, IssueTokens
  <1>2. CASE UNCHANGED <<issued, tokens, tokenCount, now>>
    BY <1>2 DEF TokenInv, TokenOf
  <1>3. CASE \/ \E h \in Handler : Change(h)
             \/ \E x \in Proc : SaveOpen(x) \/ SaveWrite(x) \/ SaveFails(x)
             \/ Start \/ UNCHANGED vars
    <2>1. UNCHANGED <<issued, tokens, tokenCount, now>>
      BY <1>3 DEF Change, SaveOpen, SaveWrite, SaveFails, Start, vars
    <2> QED
      BY <1>2, <2>1
  <1>4. CASE Crash
    BY <1>4 DEF Crash, TokenInv
  <1>5. CASE Tick
    <2>1. now' = now + 1 /\ UNCHANGED <<issued, tokens, tokenCount>>
      BY <1>5 DEF Tick
    <2>2. \A i \in issued : now + 1 <= i.at + Expiry => now <= i.at + Expiry
      BY ClockAndCount
    <2> QED
      BY <2>1, <2>2 DEF TokenInv, TokenOf
  <1> QED
    BY <1>1, <1>3, <1>4, <1>5 DEF Next, Request

\* However many logins and cleanups happen meanwhile, a token stands for its
\* user, as it now is, for exactly Expiry seconds.
THEOREM TokensHonoured == Spec => []TokenHonoured
  <1>1. Init => TokenInv
    BY DEF Init, TokenInv
  <1>2. TypeOK /\ TokenInv => TokenHonoured
    <2> SUFFICES ASSUME TypeOK, TokenInv, NEW i \in issued
                 PROVE  ValidateToken(i.id) = IF now <= i.at + Expiry THEN Entry(users, i.user) ELSE {}
      BY DEF TokenHonoured
    <2> DEFINE found == {k \in Cleanup(tokens, now) : k.id = i.id}
    <2>0. now \in Nat /\ Expiry \in Nat /\ i.at \in Nat
      BY ClockAndCount
    <2>1. TokenOf(i).id = i.id /\ TokenOf(i).user = i.user /\ TokenOf(i).expires = i.at + Expiry
      BY DEF TokenOf
    <2>2. \A k \in found : k = TokenOf(i)
      <3> SUFFICES ASSUME NEW k \in tokens, k.id = i.id PROVE k = TokenOf(i)
        BY DEF Cleanup
      <3>1. PICK j \in issued : k = TokenOf(j)
        BY DEF TokenInv
      <3>2. j.id = i.id
        BY <3>1 DEF TokenOf
      <3> QED
        BY <3>1, <3>2 DEF TokenInv
    <2>3. CASE now <= i.at + Expiry
      <3>1. i.at + Expiry >= now
        BY <2>0, <2>3
      <3>2. TokenOf(i) \in found
        BY <2>1, <2>3, <3>1 DEF TokenInv, Cleanup
      <3>3. found = {TokenOf(i)}
        BY <2>2, <3>2
      <3> QED
        BY <2>1, <2>3, <3>3 DEF ValidateToken
    <2>4. CASE ~(now <= i.at + Expiry)
      <3>1. ~(i.at + Expiry >= now)
        BY <2>0, <2>4
      <3>2. found = {}
        BY <2>1, <2>2, <3>1 DEF Cleanup
      <3> QED
        BY <2>4, <3>2 DEF ValidateToken
    <2> QED
      BY <2>3, <2>4
  <1> QED
    BY <1>1, <1>2, StepToken, TypeCorrect, PTL DEF Spec

-----------------------------------------------------------------------------
(* What was answered *)

LEMMA OpHere ==
    ASSUME TypeOK, OpInv, NEW h \in Handler, pc[h] # "idle"
    PROVE  phase = "running" /\ op[h] \in Operation /\ op[h].name \in Name
  <1>1. op[h] \in Operation
    BY DEF TypeOK, OpInv, Operation
  <1> QED
    BY <1>1 DEF OpInv, Operation, CreateOp, DropOp, AlterOp

LEMMA StepKept == TypeOK /\ OpInv /\ KeptInv /\ [Next]_vars => KeptInv'
  <1> SUFFICES ASSUME TypeOK, OpInv, KeptInv, [Next]_vars, ~damaged', ~unopened' PROVE KeptInv'
    BY DEF KeptInv
  <1> USE DEF disk, history, counts
  <1>0. ~damaged /\ ~unopened
    <2>1. damaged' = damaged \/ damaged' = (damaged \/ file.kind = "torn")
      BY DEF Next, Login, OtherRequest, CreateUser, DropUser, AlterUser, Begin, Change, SaveOpen,
             SaveWrite, SaveFails, Start, Crash, Tick, vars
    <2>2. unopened' = unopened \/ unopened' = TRUE
      BY DEF Next, Login, OtherRequest, CreateUser, DropUser, AlterUser, Begin, Change, SaveOpen,
             SaveWrite, SaveFails, Start, Crash, Tick, vars
    <2>3. ~damaged
      BY <2>1
    <2>4. ~unopened
      BY <2>2
    <2> QED
      BY <2>3, <2>4
  <1>1. /\ phase # "down" => Agrees(users)
        /\ file.kind = "none" => Agrees(DefaultUsers)
        /\ file.kind = "whole" => Agrees(file.users)
    BY <1>0 DEF KeptInv
  <1>2. \A u : UNCHANGED <<promised, unsettled>> /\ Agrees(u) =>
               \A n \in Name \ unsettled' : Entry(u, n) = Entry(promised', n)
    BY DEF Agrees
  <1>3. ASSUME UNCHANGED <<phase, users, file, promised, unsettled>> PROVE KeptInv'
    BY <1>1, <1>3 DEF KeptInv, Agrees
  <1>4. ASSUME NEW h \in Handler, Request(h) PROVE KeptInv'
    <2>1. UNCHANGED <<phase, users, file, promised, unsettled>>
      BY <1>4, RequestEffect DEF Begin
    <2> QED
      BY <1>3, <2>1
  <1>5. ASSUME NEW h \in Handler, Change(h) PROVE KeptInv'
    <2> DEFINE n == op[h].name
    <2>1. phase = "running" /\ op[h] \in Operation
      BY <1>5, OpHere DEF Change
    <2>2. \A m : m # n => Entry(Applied(users, op[h]), m) = Entry(users, m)
      BY <2>1, AppliedUsers DEF TypeOK
    <2>3. /\ users' = Applied(users, op[h]) /\ unsettled' = unsettled \union {n}
          /\ UNCHANGED <<phase, file, promised>>
      BY <1>5 DEF Change
    <2> HIDE DEF n
    <2>4. Agrees(users)'
      BY <1>1, <2>1, <2>2, <2>3 DEF Agrees
    <2> QED
      BY <1>1, <2>3, <2>4 DEF KeptInv, Agrees
  <1>6. ASSUME NEW x \in Proc, SaveOpen(x) PROVE KeptInv'
    <2>1. file' = Torn(users) /\ UNCHANGED <<phase, users, promised, unsettled>>
      BY <1>6 DEF SaveOpen
    <2>2. file'.kind = "torn"
      BY <2>1 DEF Torn
    <2> QED
      BY <1>1, <2>1, <2>2 DEF KeptInv, Agrees
  <1>7. ASSUME NEW x \in Proc, SaveWrite(x) PROVE KeptInv'
    <2>1. users' = users /\ file' \in {Whole(users), Torn(users)} /\ phase # "down"
      BY <1>7 DEF SaveWrite, OpInv, Proc
    <2>2. Agrees(users)'
      <3>1. CASE x = Main
        BY <1>1, <1>7, <2>1, <3>1 DEF SaveWrite, Agrees
      <3>2. CASE x # Main
        <4> DEFINE n == op[x].name
        <4>1. /\ promised' = IF n \in DOMAIN users THEN Put(promised, n, users[n]) ELSE Remove(promised, n)
              /\ unsettled' = unsettled \ {n}
          BY <1>7, <3>2 DEF SaveWrite
        <4>2. n \in Name
          BY <1>7, <3>2, OpHere DEF SaveWrite, Proc
        <4> HIDE DEF n
        <4>3. CASE n \in DOMAIN users
          <5>1. Entry(promised', n) = {users[n]} /\ \A m : m # n => Entry(promised', m) = Entry(promised, m)
            BY <4>1, <4>3, EntryPut
          <5>2. Entry(users, n) = {users[n]}
            BY <4>3 DEF Entry
          <5> QED
            BY <1>1, <2>1, <4>1, <5>1, <5>2 DEF Agrees
        <4>4. CASE n \notin DOMAIN users
          <5>1. Entry(promised', n) = {} /\ \A m : m # n => Entry(promised', m) = Entry(promised, m)
            BY <4>1, <4>4, EntryRemove
          <5>2. Entry(users, n) = {}
            BY <4>4 DEF Entry
          <5> QED
            BY <1>1, <2>1, <4>1, <5>1, <5>2 DEF Agrees
        <4> QED
          BY <4>3, <4>4
      <3> QED
        BY <3>1, <3>2
    <2>3. file'.kind \in {"whole", "torn"} /\ file'.users = users
      BY <2>1 DEF Whole, Torn
    <2> QED
      BY <2>1, <2>2, <2>3 DEF KeptInv, Agrees
  <1>8. ASSUME NEW x \in Proc, SaveFails(x) PROVE KeptInv'
    <2>1. UNCHANGED <<users, file, promised, unsettled>> /\ phase # "down"
      BY <1>8 DEF SaveFails, OpInv, Proc
    <2> QED
      BY <1>1, <2>1 DEF KeptInv, Agrees
  <1>9. CASE Start
    <2>1. /\ UNCHANGED <<file, promised, unsettled>> /\ file.kind # "torn"
          /\ \/ file.kind = "none" /\ users' = DefaultUsers
             \/ file.kind = "whole" /\ users' = file.users
      <3>1. unopened' # TRUE /\ ~(damaged \/ file.kind = "torn")
        BY <1>9 DEF Start
      <3> QED
        BY <1>9, <3>1 DEF Start
    <2> QED
      BY <1>1, <2>1 DEF KeptInv, Agrees
  <1>10. CASE Crash
    BY <1>1, <1>10 DEF Crash, KeptInv, Agrees
  <1>11. CASE Tick \/ UNCHANGED vars
    BY <1>3, <1>11 DEF Tick, vars
  <1> QED
    BY <1>4, <1>5, <1>6, <1>7, <1>8, <1>9, <1>10, <1>11 DEF Next, Request

\* A running server, restarted or not, knows every user whose last change was
\* saved and answered as that answer said.
THEOREM AnswersKept == Spec => []AcknowledgedKept
  <1>1. Init => KeptInv
    BY DEF Init, KeptInv, Agrees, NoFile
  <1>2. KeptInv => AcknowledgedKept
    BY DEF KeptInv, AcknowledgedKept, Agrees
  <1> QED
    BY <1>1, <1>2, StepKept, TypeCorrect, PTL DEF Spec

-----------------------------------------------------------------------------
(* Administrators *)

\* DropUser's count is right: it never lets the last administrator go.
LEMMA OtherAdminStays ==
    ASSUME NEW u, NEW n, HasAdmin(u),
           u[n].role = "ADMIN" => Cardinality({m \in DOMAIN u : u[m].role = "ADMIN"}) > 1
    PROVE  HasAdmin(Remove(u, n))
  <1> DEFINE Admins == {m \in DOMAIN u : u[m].role = "ADMIN"}
             v == Remove(u, n)
  <1>1. \E m \in Admins : m # n
    <2>1. CASE u[n].role = "ADMIN"
      <3>1. Cardinality({n}) = 1
        BY FS_Singleton
      <3>2. Admins # {n}
        BY <2>1, <3>1
      <3>3. Admins # {}
        BY DEF HasAdmin
      <3> QED
        BY <3>2, <3>3
    <2>2. CASE u[n].role # "ADMIN"
      BY <2>2 DEF HasAdmin
    <2> QED
      BY <2>1, <2>2
  <1>2. DOMAIN v = DOMAIN u \ {n} /\ \A m \in DOMAIN v : v[m] = u[m]
    BY DEF Remove
  <1> HIDE DEF v
  <1>3. HasAdmin(v)
    BY <1>1, <1>2 DEF HasAdmin
  <1> QED
    BY <1>3 DEF v

\* An operation that takes nobody's role keeps an administrator, and all users
\* active.
LEMMA AppliedAdmin ==
    ASSUME NEW u \in Users, NEW o \in Operation, HasAdmin(u), AllActive(u),
           o.kind = "create" => o.name \notin DOMAIN u,
           o.kind = "drop" => HasAdmin(Remove(u, o.name)),
           ~(/\ o.kind = "role" /\ o.role # "ADMIN"
             /\ \E x \in Entry(u, o.name) : x.role = "ADMIN")
    PROVE  HasAdmin(Applied(u, o)) /\ AllActive(Applied(u, o))
  <1> DEFINE n == o.name
             v == Applied(u, o)
  <1>1. CASE o \in CreateOp
    <2>1. o.kind = "create" /\ o.pw \in Password /\ o.role \in Role /\ n \in Name
      BY <1>1, AuthAssumption DEF CreateOp, Role
    <2>2. v = Put(u, n, NewUser(o.pw, o.role))
      BY <2>1 DEF Applied
    <2>3. NewUser(o.pw, o.role) \in User /\ NewUser(o.pw, o.role).active
      BY <2>1, NewUserType
    <2>5. n \notin DOMAIN u
      BY <2>1
    <2> HIDE DEF n, v
    <2>4. /\ DOMAIN v = DOMAIN u \union {n} /\ v[n] = NewUser(o.pw, o.role)
          /\ \A m \in DOMAIN u : m # n => v[m] = u[m]
      BY <2>2 DEF Put
    <2>6. HasAdmin(v) /\ AllActive(v)
      BY <2>3, <2>4, <2>5 DEF HasAdmin, AllActive
    <2> QED
      BY <2>6 DEF v
  <1>2. CASE o \in DropOp
    <2>1. o.kind = "drop" /\ v = Remove(u, n)
      BY <1>2 DEF DropOp, Applied
    <2>3. HasAdmin(v)
      BY <2>1
    <2> HIDE DEF n, v
    <2>2. DOMAIN v = DOMAIN u \ {n} /\ \A m \in DOMAIN u : m # n => v[m] = u[m]
      BY <2>1 DEF Remove
    <2>4. AllActive(v)
      BY <2>2 DEF AllActive
    <2> QED
      BY <2>3, <2>4 DEF v
  <1>3. CASE o \in AlterOp /\ n \notin DOMAIN u
    <2>1. v = u
      BY <1>3 DEF AlterOp, Applied
    <2> QED
      BY <2>1
  <1>4. CASE o \in AlterOp /\ n \in DOMAIN u
    <2>0. u \in [DOMAIN u -> User]
      BY UsersIff
    <2>1. CASE o.kind = "password"
      <3>1. v = [u EXCEPT ![n].hash = HashPassword(o.pw)]
        BY <1>4, <2>1 DEF AlterOp, Applied
      <3>2. DOMAIN v = DOMAIN u /\ \A m \in DOMAIN u : v[m].role = u[m].role /\ v[m].active = u[m].active
        BY <2>0, <3>1 DEF User
      <3> HIDE DEF n, v
      <3>3. HasAdmin(v) /\ AllActive(v)
        BY <3>2 DEF HasAdmin, AllActive
      <3> QED
        BY <3>3 DEF v
    <2>2. CASE o.kind = "role"
      <3>1. v = [u EXCEPT ![n].role = o.role]
        BY <1>4, <2>2 DEF AlterOp, Applied
      <3>2. /\ DOMAIN v = DOMAIN u /\ v[n].role = o.role
            /\ \A m \in DOMAIN u : v[m].active = u[m].active
            /\ \A m \in DOMAIN u : m # n => v[m].role = u[m].role
        BY <1>4, <2>0, <3>1 DEF User
      <3>3. o.role = "ADMIN" \/ u[n].role # "ADMIN"
        BY <1>4, <2>2 DEF Entry
      <3>4. n \in DOMAIN u
        BY <1>4
      <3> HIDE DEF n, v
      <3>5. HasAdmin(v)
        BY <3>2, <3>3, <3>4 DEF HasAdmin
      <3>6. AllActive(v)
        BY <3>2 DEF AllActive
      <3> QED
        BY <3>5, <3>6 DEF v
    <2> QED
      BY <1>4, <2>1, <2>2 DEF AlterOp
  <1> QED
    BY <1>1, <1>2, <1>3, <1>4 DEF Operation

\* A request that passes its checks leaves the last administrator out of danger.
LEMMA BeginAdmin ==
    ASSUME TypeOK, AdminInv, NEW h \in Handler, NEW o \in Operation, Begin(h, o),
           o.kind = "create" => o.name \notin DOMAIN users,
           o.kind = "drop" /\ HasAdmin(users) => HasAdmin(Remove(users, o.name))
    PROVE  AdminInv'
  <1> SUFFICES ASSUME ~damaged', ~raced', ~demoted' PROVE AdminInv'
    BY DEF AdminInv
  <1>1. /\ ~damaged /\ ~raced /\ ~demoted /\ \A g \in Handler : pc[g] # "change"
        /\ UNCHANGED <<users, file>>
    BY DEF Begin, disk
  <1>2. pc' = [pc EXCEPT ![h] = "change"] /\ op'[h] = o
    BY DEF Begin, TypeOK
  <1>3. \A g \in Handler : pc'[g] = "change" => g = h
    BY <1>1, <1>2 DEF TypeOK, Proc
  <1> QED
    BY <1>1, <1>2, <1>3 DEF AdminInv

LEMMA RequestAdmin ==
    ASSUME TypeOK, AdminInv, NEW h \in Handler, Request(h)
    PROVE  AdminInv'
  <1> USE DEF disk, history, counts
  <1>1. ASSUME UNCHANGED <<users, file, pc, op, damaged, raced, demoted>> PROVE AdminInv'
    BY <1>1 DEF AdminInv
  <1>2. CASE (\E n \in Name, p \in Password : Login(h, n, p)) \/ OtherRequest(h)
    <2>1. UNCHANGED <<users, file, pc, op, damaged, raced, demoted>>
      BY <1>2 DEF Login, OtherRequest
    <2> QED
      BY <1>1, <2>1
  <1>3. ASSUME NEW id \in TokenIds, NEW n \in Name, NEW p \in Password, NEW r \in GivenRole,
               CreateUser(h, id, n, p, r)
        PROVE  AdminInv'
    <2> DEFINE o == [kind |-> "create", name |-> n, pw |-> p, role |-> r]
    <2>1. CASE UNCHANGED <<users, file, pc, op, damaged, raced, demoted>>
      BY <1>1, <2>1
    <2>2. CASE n \notin DOMAIN users /\ Begin(h, o)
      <3>1. o \in Operation /\ o.kind = "create" /\ o.name = n
        BY DEF Operation, CreateOp
      <3> HIDE DEF o
      <3> QED
        BY <2>2, <3>1, BeginAdmin
    <2> QED
      BY <1>3, <2>1, <2>2 DEF CreateUser
  <1>4. ASSUME NEW id \in TokenIds, NEW n \in Name, DropUser(h, id, n) PROVE AdminInv'
    <2> DEFINE o == [kind |-> "drop", name |-> n]
    <2>1. o \in Operation /\ o.kind = "drop" /\ o.name = n
      BY DEF Operation, DropOp
    <2>2. Begin(h, o)
      BY <1>4 DEF DropUser
    <2>3. HasAdmin(users) => HasAdmin(Remove(users, n))
      BY <1>4, OtherAdminStays DEF DropUser, MayDrop
    <2> HIDE DEF o
    <2> QED
      BY <2>1, <2>2, <2>3, BeginAdmin
  <1>5. ASSUME NEW id \in TokenIds, NEW o \in AlterOp, AlterUser(h, id, o) PROVE AdminInv'
    <2>1. o \in Operation /\ o.kind \notin {"create", "drop"} /\ Begin(h, o)
      BY <1>5 DEF Operation, AlterOp, AlterUser
    <2> QED
      BY <2>1, BeginAdmin
  <1> QED
    BY <1>2, <1>3, <1>4, <1>5 DEF Request

LEMMA StepAdmin == TypeOK /\ OpInv /\ AdminInv /\ [Next]_vars => AdminInv'
  <1> SUFFICES ASSUME TypeOK, OpInv, AdminInv, [Next]_vars PROVE AdminInv'
    OBVIOUS
  <1> USE DEF disk, history, counts
  <1>0. /\ pc \in [Proc -> {"idle", "change", "open", "write"}] /\ op \in [Handler -> OpType]
        /\ Main \in Proc /\ Handler \subseteq Proc /\ Main \notin Handler
    BY AuthAssumption DEF TypeOK, OpType, Operation, Proc
  <1>1. ASSUME NEW h \in Handler, Request(h) PROVE AdminInv'
    BY <1>1, RequestAdmin
  <1>2. ASSUME NEW h \in Handler, Change(h), ~damaged', ~raced', ~demoted' PROVE AdminInv'
    <2>1. ~damaged /\ ~raced /\ ~demoted /\ UNCHANGED file /\ users' = Applied(users, op[h])
      BY <1>2 DEF Change
    <2>2. op[h] \in Operation
      BY <1>2, OpHere DEF Change
    <2>3. HasAdmin(users') /\ AllActive(users')
      BY <1>2, <2>1, <2>2, AppliedAdmin DEF Change, AdminInv, TypeOK
    <2>4. \A g \in Handler : pc'[g] # "change"
      BY <1>0, <1>2, <2>1 DEF Change, AdminInv
    <2> QED
      BY <2>1, <2>3, <2>4 DEF AdminInv
  <1>3. ASSUME NEW x \in Proc, SaveOpen(x) \/ SaveWrite(x) \/ SaveFails(x),
               ~damaged', ~raced', ~demoted'
        PROVE  AdminInv'
    <2>1. UNCHANGED <<users, damaged, raced, demoted>>
      BY <1>3 DEF SaveOpen, SaveWrite, SaveFails
    <2>2. file' = file \/ (file'.kind = "whole" => file'.users = users)
      BY <1>3 DEF SaveOpen, SaveWrite, SaveFails, Whole, Torn
    <2>3. \A g \in Handler : pc'[g] = "change" => pc[g] = "change" /\ op'[g] = op[g]
      BY <1>0, <1>3 DEF SaveOpen, SaveWrite, SaveFails, Return
    <2> QED
      BY <1>3, <2>1, <2>2, <2>3 DEF AdminInv
  <1>4. CASE Start
    <2>1. \A g \in Handler : pc'[g] # "change"
      BY <1>0, <1>4 DEF Start, OpInv
    <2>2. UNCHANGED <<file, raced, demoted>> /\ damaged' = (damaged \/ file.kind = "torn")
      BY <1>4 DEF Start
    <2>3. \/ file.kind = "torn"
          \/ users' = DefaultUsers
          \/ file.kind = "whole" /\ users' = file.users
      BY <1>4 DEF Start
    <2> QED
      BY <2>1, <2>2, <2>3, DefaultType DEF AdminInv
  <1>5. CASE Crash
    <2>1. /\ \A g \in Handler : pc'[g] # "change"
          /\ users' = DefaultUsers /\ UNCHANGED <<file, damaged, raced, demoted>>
      BY <1>0, <1>5 DEF Crash
    <2> QED
      BY <2>1, DefaultType DEF AdminInv
  <1>6. CASE Tick \/ UNCHANGED vars
    <2>1. UNCHANGED <<users, file, pc, op, damaged, raced, demoted>>
      BY <1>6 DEF Tick, vars
    <2> QED
      BY <2>1 DEF AdminInv
  <1>7. (~damaged' /\ ~raced' /\ ~demoted') \/ AdminInv'
    BY DEF AdminInv
  <1> QED
    BY <1>1, <1>2, <1>3, <1>4, <1>5, <1>6, <1>7 DEF Next, Request

\* No order of creations, removals, failed saves, restarts and crashes takes the
\* last administrator away: the count in DropUser is enough as long as no
\* administrator is demoted and no two operations overlap.
THEOREM AdministratorRemains == Spec => []AdminRemains
  <1>1. Init => AdminInv
    <2> SUFFICES ASSUME Init PROVE AdminInv
      OBVIOUS
    <2>1. users = DefaultUsers /\ file.kind = "none"
      BY DEF Init, NoFile
    <2>2. \A h \in Handler : pc[h] = "idle"
      BY DEF Init, Proc
    <2> QED
      BY <2>1, <2>2, DefaultType DEF AdminInv
  <1>2. AdminInv => AdminRemains
    BY DEF AdminInv, AdminRemains, HasAdmin, AllActive
  <1> QED
    BY <1>1, <1>2, StepAdmin, TypeCorrect, PTL DEF Spec
=============================================================================
