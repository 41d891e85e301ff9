--------------------------------- MODULE Auth ---------------------------------
(***************************************************************************)
(* AuthManager of src/auth/auth_manager.cpp as the gRPC handlers and the   *)
(* executor use it: users_, the session tokens, and meta/users.db, which   *)
(* every change rewrites in place.                                         *)
(*                                                                         *)
(* The class takes no lock. An operation that changes users_ is therefore  *)
(* four steps of its handler: the checks, the change in memory, the        *)
(* opening (and truncation) of users.db, and the writing of its contents.  *)
(* The steps of two handlers interleave; what overlapping steps do to the  *)
(* map and to the file is kept as loosely as the code leaves it.           *)
(*                                                                         *)
(* DROP USER and ALTER USER carry the token that Executor::SetToken was    *)
(* given. The gRPC server never calls it and so refuses both; they are     *)
(* modelled for the callers that do.                                       *)
(*                                                                         *)
(* A salted SHA-256 hash is taken to identify its password. A role byte    *)
(* that is none of the three roles acts as VIEWER everywhere.              *)
(***************************************************************************)
EXTENDS Integers, FiniteSets

CONSTANTS
    Handler,     \* gRPC handler threads
    Main,        \* the thread that runs AuthManager::Init
    Name,        \* user names, "admin" among them
    Password,    \* passwords, "admin123" among them
    GivenRole,   \* the roles that CREATE USER and ALTER USER name
    Expiry,      \* token_expiry_sec_
    MaxTime, MaxTokens, MaxChanges, MaxCrashes, MaxFaults   \* bounds

ASSUME AuthAssumption ==
    /\ Main \notin Handler
    /\ GivenRole \subseteq {"ADMIN", "OPERATOR", "VIEWER"}
    /\ "admin" \in Name /\ "admin123" \in Password
    /\ Expiry \in Nat
    /\ MaxTime \in Nat /\ MaxTokens \in Nat /\ MaxChanges \in Nat
    /\ MaxCrashes \in Nat /\ MaxFaults \in Nat

VARIABLES
    phase,      \* "down", "starting" (AuthManager::Init) or "running"
    users,      \* users_
    tokens,     \* tokens_
    now,        \* the clock, in seconds
    file,       \* meta/users.db
    mixed,      \* did two saves, or a save and a change, overlap in the file?
    pc,         \* where each thread is in an operation that changes users_
    op,         \* the operation each handler is in
    issued,     \* history: the tokens handed out by this run of the process
    promised,   \* history: users_ as the answers to the clients tell it
    unsettled,  \* history: names whose last change was not saved or not answered
    raced,      \* history: did two operations overlap between check and change?
    demoted,    \* history: was an administrator's role ever altered?
    damaged,    \* history: did Load ever meet a users.db that was not whole?
    unopened,   \* history: did it ever fail to open one that was there?
    tokenCount, changes, crashes, faults   \* history: counts, for the bounds

disk == <<file, mixed>>
counts == <<tokenCount, changes, crashes, faults>>
history == <<issued, promised, unsettled, raced, demoted, damaged, unopened>>
vars == <<phase, users, tokens, now, disk, pc, op, history, counts>>

Proc == Handler \union {Main}
Role == {"ADMIN", "OPERATOR", "VIEWER"}

\* HashPassword(password, salt) for the user's own salt; Garbage is what a cut
\* file leaves of a hash.
HashPassword(password) == <<"sha256", password>>
Garbage == <<"garbage">>
Hash == {HashPassword(p) : p \in Password} \union {Garbage}

User == [hash : Hash, role : Role, active : BOOLEAN]
Users == UNION {[D -> User] : D \in SUBSET Name}
Token == [id : 1 .. MaxTokens, user : Name, expires : 0 .. MaxTime + Expiry]
Issue == [id : 1 .. MaxTokens, user : Name, at : 0 .. MaxTime]

NoOp == [kind |-> "none"]
CreateOp == [kind : {"create"}, name : Name, pw : Password, role : GivenRole]
DropOp == [kind : {"drop"}, name : Name]
AlterOp == [kind : {"password"}, name : Name, pw : Password]
               \union [kind : {"role"}, name : Name, role : GivenRole]

NoFile == [kind |-> "none"]
Whole(u) == [kind |-> "whole", users |-> u]
Torn(u) == [kind |-> "torn", users |-> u]

TypeOK ==
    /\ phase \in {"down", "starting", "running"}
    /\ users \in Users
    /\ tokens \subseteq Token
    /\ now \in 0 .. MaxTime
    /\ file = NoFile \/ file \in [kind : {"whole", "torn"}, users : Users]
    /\ mixed \in BOOLEAN
    /\ pc \in [Proc -> {"idle", "change", "open", "write"}]
    /\ op \in [Handler -> {NoOp} \union CreateOp \union DropOp \union AlterOp]
    /\ issued \subseteq Issue
    /\ promised \in Users
    /\ unsettled \subseteq Name
    /\ raced \in BOOLEAN /\ demoted \in BOOLEAN
    /\ damaged \in BOOLEAN /\ unopened \in BOOLEAN
    /\ tokenCount \in 0 .. MaxTokens /\ changes \in 0 .. MaxChanges
    /\ crashes \in 0 .. MaxCrashes /\ faults \in 0 .. MaxFaults

NewUser(password, role) ==
    [hash |-> HashPassword(password), role |-> role, active |-> TRUE]

\* The constructor's administrator.
DefaultUsers == [n \in {"admin"} |-> NewUser("admin123", "ADMIN")]

Put(u, n, x) == [m \in DOMAIN u \union {n} |-> IF m = n THEN x ELSE u[m]]
Remove(u, n) == [m \in DOMAIN u \ {n} |-> u[m]]

\* The entry of n in u, as a set of at most one user.
Entry(u, n) == IF n \in DOMAIN u THEN {u[n]} ELSE {}

Init ==
    /\ phase = "down"
    /\ users = DefaultUsers
    /\ tokens = {} /\ now = 0
    /\ file = NoFile /\ mixed = FALSE
    /\ pc = [x \in Proc |-> "idle"]
    /\ op = [h \in Handler |-> NoOp]
    /\ issued = {} /\ promised = DefaultUsers /\ unsettled = {}
    /\ raced = FALSE /\ demoted = FALSE /\ damaged = FALSE /\ unopened = FALSE
    /\ tokenCount = 0 /\ changes = 0 /\ crashes = 0 /\ faults = 0

-----------------------------------------------------------------------------
(* Tokens *)

ExpireEarly(T, t) == {k \in T : k.expires > t}

\* CleanupExpiredTokens
Cleanup(T, t) == {k \in T : k.expires >= t}

\* The user ValidateToken returns for the token id, as a set of at most one.
ValidateToken(id) ==
    UNION {Entry(users, k.user) : k \in {k \in Cleanup(tokens, now) : k.id = id}}

\* The role check at the head of CreateUser, DropUser, AlterUser and GetUsers.
IsAdmin(id) == \E u \in ValidateToken(id) : u.role = "ADMIN"

\* CheckPermission; a request is named by the words its text begins with. The
\* text is compared as the client wrote it: one that spells the words in small
\* letters or starts with a blank is none of those an operator is refused.
CheckPermission(id, words) ==
    \E u \in ValidateToken(id) :
        \/ u.role = "ADMIN"
        \/ u.role = "OPERATOR" /\ words \notin {"CREATE TAG", "CREATE USER", "ALTER SYSTEM"}
        \/ u.role = "VIEWER" /\ words = "SELECT"

\* A new token for n, in the tokens that are left after the cleanup.
IssueToken(n) ==
    /\ tokenCount < MaxTokens
    /\ tokenCount' = tokenCount + 1
    /\ tokens' = Cleanup(tokens, now)
                     \union {[id |-> tokenCount + 1, user |-> n, expires |-> now + Expiry]}
    /\ issued' = issued \union {[id |-> tokenCount + 1, user |-> n, at |-> now]}

\* The Auth RPC with the right password.
Login(h, n, p) ==
    /\ phase = "running" /\ pc[h] = "idle"
    /\ \E u \in Entry(users, n) : u.active /\ u.hash = HashPassword(p)
    /\ IssueToken(n)
    /\ UNCHANGED <<phase, users, now, disk, pc, op, promised, unsettled, raced, demoted,
                   damaged, unopened, changes, crashes, faults>>

\* Any request that only has its token checked: the other statements of Query
\* and Admin, Insert, Snapshot, SHOW USERS, and every refused request.
OtherRequest(h) ==
    /\ phase = "running" /\ pc[h] = "idle"
    /\ tokens' = Cleanup(tokens, now)
    /\ UNCHANGED <<phase, users, now, disk, pc, op, history, counts>>

-----------------------------------------------------------------------------
(* Operations that change users_: the checks *)

\* The handler has passed the checks of o.
Begin(h, o) ==
    /\ op' = [op EXCEPT ![h] = o]
    /\ pc' = [pc EXCEPT ![h] = "change"]
    /\ raced' = (raced \/ \E g \in Handler : pc[g] = "change")
    /\ changes < MaxChanges
    /\ changes' = changes + 1
    /\ UNCHANGED <<phase, users, now, disk, promised, unsettled, demoted, damaged, unopened,
                   crashes, faults>>

\* How a client may write a statement the parser takes for CREATE USER.
CreateUserText == {"CREATE USER", "create user"}

\* ExecuteCreateUser: the Query RPC's permission check, AdminLogin, and the
\* checks of CreateUser with the token AdminLogin returned. When a check of
\* CreateUser fails, that token stays.
CreateUser(h, id, n, p, r) ==
    /\ phase = "running" /\ pc[h] = "idle"
    /\ \E text \in CreateUserText : CheckPermission(id, text)
    /\ \E a \in Entry(users, "admin") :
          /\ a.active
          /\ IssueToken("admin")
          /\ IF a.role = "ADMIN" /\ n \notin DOMAIN users
             THEN Begin(h, [kind |-> "create", name |-> n, pw |-> p, role |-> r])
             ELSE UNCHANGED <<phase, users, now, disk, pc, op, promised, unsettled, raced,
                              demoted, damaged, unopened, changes, crashes, faults>>

\* DropUser's refusals.
AnyAdminMayDrop(id, n) == IsAdmin(id) /\ n \in DOMAIN users
MayDrop(id, n) ==
    /\ IsAdmin(id)
    /\ \A k \in tokens : k.id = id => k.user # n
    /\ n \in DOMAIN users
    /\ users[n].role = "ADMIN"
          => Cardinality({m \in DOMAIN users : users[m].role = "ADMIN"}) > 1

\* ExecuteDropUser
DropUser(h, id, n) ==
    /\ phase = "running" /\ pc[h] = "idle"
    /\ MayDrop(id, n)
    /\ tokens' = Cleanup(tokens, now)
    /\ Begin(h, [kind |-> "drop", name |-> n])
    /\ UNCHANGED <<issued, tokenCount>>

\* ExecuteAlterUser with property password or role
AlterUser(h, id, o) ==
    /\ phase = "running" /\ pc[h] = "idle"
    /\ IsAdmin(id)
    /\ o.name \in DOMAIN users
    /\ tokens' = Cleanup(tokens, now)
    /\ Begin(h, o)
    /\ UNCHANGED <<issued, tokenCount>>

-----------------------------------------------------------------------------
(* Operations that change users_: the change and Save *)

\* What the operation o makes of the map u.
Applied(u, o) ==
    CASE o.kind = "create" -> Put(u, o.name, NewUser(o.pw, o.role))
      [] o.kind = "drop" -> Remove(u, o.name)
      [] o.kind = "password" /\ o.name \in DOMAIN u
            -> [u EXCEPT ![o.name].hash = HashPassword(o.pw)]
      [] o.kind = "role" /\ o.name \in DOMAIN u -> [u EXCEPT ![o.name].role = o.role]
      [] OTHER -> u

Writing == {x \in Proc : pc[x] = "write"}

\* The change in memory. A save that is iterating over users_ meanwhile writes
\* any mixture.
Change(h) ==
    /\ pc[h] = "change"
    /\ users' = Applied(users, op[h])
    /\ pc' = [pc EXCEPT ![h] = "open"]
    /\ unsettled' = unsettled \union {op[h].name}
    /\ mixed' = (mixed \/ Writing # {})
    /\ demoted' = (demoted \/ /\ op[h].kind = "role" /\ op[h].role # "ADMIN"
                              /\ \E u \in Entry(users, op[h].name) : u.role = "ADMIN")
    /\ UNCHANGED <<phase, tokens, now, file, op, issued, promised, raced, damaged, unopened, counts>>

\* Save opens users.db, which empties it.
SaveOpen(x) ==
    /\ pc[x] = "open"
    /\ pc' = [pc EXCEPT ![x] = "write"]
    /\ file' = Torn(users)
    /\ mixed' = (Writing # {})
    /\ UNCHANGED <<phase, users, tokens, now, op, history, counts>>

\* The operation returns to its client (main.cpp, for Main, starts the server).
Return(x) ==
    /\ pc' = [pc EXCEPT ![x] = "idle"]
    /\ IF x = Main
       THEN phase' = "running" /\ UNCHANGED op
       ELSE op' = [op EXCEPT ![x] = NoOp] /\ UNCHANGED phase

\* Save's writes, which overlapping ones may spoil, and the operation's answer.
\* Nobody looks whether a write fails.
SaveWrite(x) ==
    /\ pc[x] = "write"
    /\ \/ file' \in {Whole(users)} \union (IF mixed THEN {Torn(users)} ELSE {}) /\ UNCHANGED faults
       \/ faults < MaxFaults /\ faults' = faults + 1 /\ file' = Torn(users)
    /\ Return(x)
    /\ IF x = Main
       THEN UNCHANGED <<promised, unsettled>>
       ELSE LET n == op[x].name IN
            /\ promised' = IF n \in DOMAIN users THEN Put(promised, n, users[n])
                                                 ELSE Remove(promised, n)
            /\ unsettled' = unsettled \ {n}
    /\ UNCHANGED <<users, tokens, now, mixed, issued, raced, demoted, damaged, unopened,
                   tokenCount, changes, crashes>>

\* Save cannot open the file and returns false. CreateUser answers with an
\* error, DropUser and AlterUser with success; all leave the change in users_.
SaveFails(x) ==
    /\ pc[x] = "open"
    /\ faults < MaxFaults
    /\ faults' = faults + 1
    /\ Return(x)
    /\ UNCHANGED <<users, tokens, now, disk, history, tokenCount, changes, crashes>>

-----------------------------------------------------------------------------
(* Start, stop and crash *)

\* The users that Load may make of a file cut while u was written: those read
\* before the cut, and the one at the cut with what is left of its fields.
CutUsers(u) ==
    {v \in UNION {[D -> User] : D \in SUBSET DOMAIN u} :
        \E c \in Name : \A n \in DOMAIN v :
            \/ v[n] = u[n]
            \/ n = c /\ v[n].hash \in {u[n].hash, Garbage}}

StartAfresh ==
    /\ phase = "down"
    /\ users' = DefaultUsers
    /\ phase' = "starting"
    /\ pc' = [pc EXCEPT ![Main] = "open"]
    /\ UNCHANGED <<tokens, now, disk, op, history, counts>>

\* The constructor, then Init: Load, and Save when Load returned false, which it
\* does when users.db cannot be opened, whether it is there or not. Of a file
\* that is cut, Load reads a count it may refuse or use.
Start ==
    /\ phase = "down"
    /\ \/ /\ \/ file.kind \in {"none", "torn"} /\ UNCHANGED <<unopened, faults>>
             \/ file.kind # "none" /\ faults < MaxFaults /\ faults' = faults + 1 /\ unopened' = TRUE
          /\ users' = DefaultUsers
          /\ phase' = "starting"
          /\ pc' = [pc EXCEPT ![Main] = "open"]
       \/ /\ \/ file.kind = "whole" /\ users' = file.users
             \/ file.kind = "torn" /\ users' \in CutUsers(file.users)
          /\ phase' = "running"
          /\ UNCHANGED <<pc, unopened, faults>>
    /\ damaged' = (damaged \/ file.kind = "torn")
    /\ UNCHANGED <<tokens, now, disk, op, issued, promised, unsettled, raced, demoted,
                   tokenCount, changes, crashes>>

\* The process ends: it dies, in the middle of a Save perhaps, or, when no
\* operation is under way, main.cpp returns, which saves nothing. Memory is gone.
Crash ==
    /\ phase # "down"
    /\ crashes < MaxCrashes
    /\ crashes' = crashes + 1
    /\ phase' = "down"
    /\ pc' = [x \in Proc |-> "idle"]
    /\ op' = [h \in Handler |-> NoOp]
    /\ users' = DefaultUsers /\ tokens' = {} /\ issued' = {}
    /\ UNCHANGED <<now, disk, promised, unsettled, raced, demoted, damaged, unopened,
                   tokenCount, changes, faults>>

Tick ==
    /\ now < MaxTime
    /\ now' = now + 1
    /\ UNCHANGED <<phase, users, tokens, disk, pc, op, history, counts>>

TokenIds == {k.id : k \in tokens}

Next ==
    \/ \E h \in Handler :
          \/ \E n \in Name, p \in Password : Login(h, n, p)
          \/ OtherRequest(h)
          \/ \E id \in TokenIds, n \in Name :
                \/ \E p \in Password, r \in GivenRole : CreateUser(h, id, n, p, r)
                \/ DropUser(h, id, n)
          \/ \E id \in TokenIds, o \in AlterOp : AlterUser(h, id, o)
          \/ Change(h)
    \/ \E x \in Proc : SaveOpen(x) \/ SaveWrite(x) \/ SaveFails(x)
    \/ Start \/ Crash \/ Tick

Spec == Init /\ [][Next]_vars

-----------------------------------------------------------------------------
(* Properties *)

\* A running server knows every user as the last answer about that user said,
\* across restarts and crashes, a failed Save of another user included: unless
\* a restart met a users.db that a crash or overlapping saves had cut, or could
\* not open the one that was there (Init then saves the default administrator
\* over all users), two operations overlapped between check and change, or the
\* last change of that very user was never saved or never answered.
AcknowledgedKept ==
    (phase = "running" /\ ~damaged /\ ~unopened /\ ~raced)
        => \A n \in Name \ unsettled : Entry(users, n) = Entry(promised, n)

\* As long as no administrator is demoted, no order of creations, removals,
\* failed saves, restarts and crashes leaves a running server without one.
AdminRemains ==
    (phase = "running" /\ ~damaged /\ ~raced /\ ~demoted)
        => \E n \in DOMAIN users : users[n].role = "ADMIN" /\ users[n].active

\* A token is honoured for exactly Expiry seconds from the login, the last one
\* included, however many logins and cleanups happen meanwhile, for as long as
\* the process runs and its user exists; it then stands for the user as it now
\* is, whatever role it was issued for.
TokenHonoured ==
    phase = "running" =>
        \A i \in issued :
            ValidateToken(i.id) = IF now <= i.at + Expiry THEN Entry(users, i.user) ELSE {}

-----------------------------------------------------------------------------
(* The inductive invariants behind these properties. *)

\* Only a running server has handlers in an operation, and Main saves only
\* while it starts one.
OpInv ==
    /\ \A h \in Handler : pc[h] # "idle" => phase = "running" /\ op[h] # NoOp
    /\ pc[Main] # "idle" => phase = "starting"

\* The tokens are those issued, of which only expired ones may have been removed.
TokenOf(i) == [id |-> i.id, user |-> i.user, expires |-> i.at + Expiry]

TokenInv ==
    /\ \A i, j \in issued : i.id = j.id => i = j
    /\ \A i \in issued : i.id <= tokenCount
    /\ \A k \in tokens : \E i \in issued : k = TokenOf(i)
    /\ \A i \in issued : now <= i.at + Expiry => TokenOf(i) \in tokens

\* Memory and a whole file have an administrator, all users being active, and
\* the one operation past its checks cannot take the last one away.
HasAdmin(u) == \E n \in DOMAIN u : u[n].role = "ADMIN"
AllActive(u) == \A n \in DOMAIN u : u[n].active

AdminInv ==
    ~damaged /\ ~raced /\ ~demoted =>
        /\ HasAdmin(users) /\ AllActive(users)
        /\ file.kind = "whole" => HasAdmin(file.users) /\ AllActive(file.users)
        /\ \A g, h \in Handler : pc[g] = "change" /\ pc[h] = "change" => g = h
        /\ \A h \in Handler :
               pc[h] = "change" =>
                   /\ op[h].kind = "create" => op[h].name \notin DOMAIN users
                   /\ op[h].kind = "drop" => HasAdmin(Remove(users, op[h].name))

\* Memory, and what a restart would make of users.db, is what was answered.
Agrees(u) == \A n \in Name \ unsettled : Entry(u, n) = Entry(promised, n)

KeptInv ==
    ~damaged /\ ~unopened =>
        /\ phase # "down" => Agrees(users)
        /\ file.kind = "none" => Agrees(DefaultUsers)
        /\ file.kind = "whole" => Agrees(file.users)
=============================================================================
