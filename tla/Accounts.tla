------------------------------ MODULE Accounts ------------------------------
(***************************************************************************)
(* Registration and login (handlers/auth.go, platform/postgres/            *)
(* auth_store.go, repository/user_repository.go) on instances that have    *)
(* passed their migrations, next to the seed command (seed/seed.go) which  *)
(* inserts accounts into the same table.  The go-auth library sits between *)
(* handler and store: it looks the address up, has the user created with   *)
(* an empty hash and stores the hash afterwards; what it does with the row *)
(* when the second statement fails is left open.                           *)
(*                                                                         *)
(* The unique index is on lower(email), so a row is known by its address   *)
(* in lower case.  A bcrypt hash is known by its password.                 *)
(***************************************************************************)
EXTENDS Migrator, FiniteSets, SequencesExt

CONSTANTS
  Servers,       \* the instances of go-core; the others run the seed command
  Clients,       \* each sends one request
  Spellings,     \* the addresses as clients write them
  Lower,         \* spelling -> its lower case
  Passwords,
  SeedAccounts,  \* the addresses of seed.go, in their order
  DemoPassword,
  NoRow, Empty   \* no account; a row whose hash is not stored yet

ASSUME ServersAssumption == Servers \subseteq Instances
ASSUME LowerAssumption ==
  /\ Lower \in [Spellings -> Spellings]
  /\ \A e \in Spellings : Lower[Lower[e]] = Lower[e]
ASSUME SeedAssumption == SeedAccounts \in Seq({Lower[e] : e \in Spellings})
ASSUME EmptyAssumption == DemoPassword \in Passwords /\ Empty \notin Passwords
ASSUME NoRowAssumption ==
  NoRow \notin [id : Nat, email : Spellings, hash : Passwords \cup {Empty}]

VARIABLES
  users,    \* address -> its row of the table users, or NoRow
  lastID,   \* users_id_seq
  request,  \* client -> its request
  inserted, \* seed instance -> the rows of its open transaction
  next      \* seed instance -> the account its loop has come to

avars == <<users, lastID, request, inserted, next>>
seeding == <<inserted, next>>
vars == <<mvars, avars>>

Addresses == {Lower[e] : e \in Spellings}
Seeders == Instances \ Servers
Blank == [stage |-> "new", kind |-> "none", email |-> NoRow, password |-> Empty,
          server |-> NoOne, id |-> 0, due |-> FALSE]
Answers == {"created", "granted", "conflict", "denied", "error", "lost"}

-----------------------------------------------------------------------------

AccountsInit ==
  /\ MigratorInit
  /\ users = [a \in Addresses |-> NoRow] /\ lastID = 0
  /\ request = [c \in Clients |-> Blank]
  /\ inserted = [i \in Seeders |-> {}] /\ next = [i \in Seeders |-> 1]

\* The row with this id, as the address it is filed under.
RowOf(id) == {a \in Addresses : users[a] # NoRow /\ users[a].id = id}

\* email = $1, to the letter.
WithEmail(e) == {a \in Addresses : users[a] # NoRow /\ users[a].email = e}

At(c, stage) == request[c].stage = stage

To(c, stage) == request' = [request EXCEPT ![c].stage = stage]

ToRow(c, stage, id) ==
  request' = [request EXCEPT ![c].stage = stage, ![c].id = id]

Created(e, p) == \E c \in Clients :
  At(c, "created") /\ Lower[request[c].email] = Lower[e] /\ request[c].password = p

\* Mutant: the address is used as the client wrote it.
AsWritten(e) == e

\* ToLower and TrimSpace, in Register and Login.
Canonical(e) == Lower[e]

\* due: this login repeats address and password of an answered registration.
Receive(c, kind, e, p, i) ==
  /\ At(c, "new") /\ pc[i] = "up"
  /\ request' = [request EXCEPT ![c] =
       [stage |-> "lookup", kind |-> kind, email |-> Canonical(e), password |-> p,
        server |-> i, id |-> 0, due |-> kind = "login" /\ Created(e, p)]]
  /\ UNCHANGED <<users, lastID, seeding>>

\* GetUserByEmail, the first statement of both requests.
Lookup(c) ==
  /\ At(c, "lookup")
  /\ LET found == WithEmail(request[c].email) IN
       \/ request[c].kind = "register" /\ found # {} /\ To(c, "conflict")
       \/ request[c].kind = "register" /\ found = {} /\ To(c, "create")
       \/ request[c].kind = "login" /\ found = {} /\ To(c, "denied")
       \/ /\ request[c].kind = "login"
          /\ \E a \in found : ToRow(c, "compare", users[a].id)
  /\ UNCHANGED <<users, lastID, seeding>>

\* The unique index makes an insertion wait for an open one of the same address.
Free(a) == \A i \in Seeders : a \notin inserted[i]

\* Mutant: the insertion returns the row that is there (DO UPDATE ... RETURNING).
OnViolationReturn(c, a) == ToRow(c, "store", users[a].id)

\* isUniqueViolation, ErrUserAlreadyExists, ErrAlreadyExists.
OnViolation(c, a) == To(c, "conflict")

\* CreateUser: an insertion with an empty hash, whose id replaces the library's.
CreateUser(c) ==
  /\ At(c, "create")
  /\ LET a == Lower[request[c].email] IN
       /\ Free(a)
       /\ \/ /\ users[a] # NoRow
             /\ OnViolation(c, a) /\ UNCHANGED <<users, lastID>>
          \/ /\ users[a] = NoRow
             /\ lastID' = lastID + 1
             /\ users' = [users EXCEPT ![a] =
                  [id |-> lastID + 1, email |-> request[c].email, hash |-> Empty]]
             /\ \/ ToRow(c, "store", lastID + 1)
                \/ To(c, "error")  \* executed, but the reply is lost
  /\ UNCHANGED seeding

\* Mutant: the error of the second statement is only logged.
OnStoreErrorGoOn(c) == To(c, "token")

\* What the library does with an error of StorePasswordHash begins.
OnStoreError(c) == To(c, "undo")

\* StorePasswordHash by the id that CreateUser has put in.
StorePasswordHash(c) ==
  /\ At(c, "store")
  /\ LET row == RowOf(request[c].id) IN
       /\ users' = [a \in Addresses |->
            IF a \in row THEN [users[a] EXCEPT !.hash = request[c].password] ELSE users[a]]
       /\ \/ row # {} /\ To(c, "token")
          \/ OnStoreError(c)         \* no row, or the reply is lost
  /\ UNCHANGED <<lastID, seeding>>

\* The library answers the error of StorePasswordHash, with or without DeleteUser.
Undo(c) ==
  /\ At(c, "undo")
  /\ \/ users' = [a \in Addresses |-> IF a \in RowOf(request[c].id) THEN NoRow ELSE users[a]]
     \/ UNCHANGED users
  /\ To(c, "error")
  /\ UNCHANGED <<lastID, seeding>>

\* GetPasswordHash and bcrypt: an empty hash matches nothing.
ComparePassword(c) ==
  /\ At(c, "compare")
  /\ IF \E a \in RowOf(request[c].id) : users[a].hash = request[c].password
       THEN To(c, "token") ELSE To(c, "denied")
  /\ UNCHANGED <<users, lastID, seeding>>

\* respondWithAccessToken: nothing is stored, the token is signed.
Respond(c) ==
  /\ At(c, "token")
  /\ To(c, IF request[c].kind = "register" THEN "created" ELSE "granted")
  /\ UNCHANGED <<users, lastID, seeding>>

\* A statement fails without effect, or the token cannot be signed.
Fail(c) ==
  /\ \/ request[c].stage \in {"lookup", "create", "compare", "token"} /\ To(c, "error")
     \/ At(c, "store") /\ OnStoreError(c)
  /\ UNCHANGED <<users, lastID, seeding>>

Handle(c) ==
  \/ \E kind \in {"register", "login"}, e \in Spellings, p \in Passwords, i \in Servers :
       Receive(c, kind, e, p, i)
  \/ Lookup(c) \/ CreateUser(c) \/ StorePasswordHash(c) \/ Undo(c)
  \/ ComparePassword(c) \/ Respond(c) \/ Fail(c)

-----------------------------------------------------------------------------
(* The seed command, when its migrations are done. *)

\* ensureUser, then the profile: ON CONFLICT DO NOTHING waits for an open
\* insertion and leaves a row that is there as it is.
EnsureUser(i) ==
  /\ pc[i] = "up" /\ next[i] <= Len(SeedAccounts)
  /\ LET a == SeedAccounts[next[i]] IN
       /\ \A j \in Seeders \ {i} : a \notin inserted[j]
       /\ inserted' = [inserted EXCEPT ![i] = @ \cup IF users[a] = NoRow THEN {a} ELSE {}]
  /\ next' = [next EXCEPT ![i] = @ + 1]
  /\ UNCHANGED <<users, lastID, request, mvars>>

\* The rows that the transaction writes to users.
SeedRows(i) == inserted[i]

\* Position of a in the list, which gives the order of the ids.
Place(a) == CHOOSE n \in 1 .. Len(SeedAccounts) : SeedAccounts[n] = a

\* Commit: the accounts appear at once, with the other rows of the seed data.
Load(i) ==
  /\ pc[i] = "up" /\ next[i] > Len(SeedAccounts)
  /\ users' = [a \in Addresses |-> IF a \in SeedRows(i)
       THEN [id |-> lastID + Place(a), email |-> a, hash |-> DemoPassword] ELSE users[a]]
  /\ lastID' = lastID + Len(SeedAccounts)
  /\ inserted' = [inserted EXCEPT ![i] = {}]
  /\ next' = [next EXCEPT ![i] = 1]
  /\ Stop(i)
  /\ UNCHANGED request

-----------------------------------------------------------------------------

\* The end of a process is the end of its requests and transactions.
Exit(i) ==
  /\ Stop(i)
  /\ request' = [c \in Clients |->
       IF request[c].server = i /\ request[c].stage \notin Answers
         THEN [request[c] EXCEPT !.stage = "lost"] ELSE request[c]]
  /\ inserted' = [j \in Seeders |-> IF j = i THEN {} ELSE inserted[j]]
  /\ next' = [j \in Seeders |-> IF j = i THEN 1 ELSE next[j]]
  /\ UNCHANGED <<users, lastID>>

Next ==
  \/ \E i \in Instances : (Start(i) \/ Migrate(i) \/ GiveUp(i)) /\ UNCHANGED avars
  \/ \E c \in Clients : Handle(c) /\ UNCHANGED mvars
  \/ \E i \in Seeders : EnsureUser(i) \/ Load(i)
  \/ \E i \in Instances : Exit(i)

Spec == AccountsInit /\ [][Next]_vars

-----------------------------------------------------------------------------

Stages == Answers \cup {"new", "lookup", "create", "store", "undo", "compare", "token"}
Rows == [id : Nat, email : Spellings, hash : Passwords \cup {Empty}]

UsersOK ==
  /\ lastID \in Nat /\ users \in [Addresses -> Rows \cup {NoRow}]
  /\ \A a \in Addresses : users[a] # NoRow => users[a].id \in 1 .. lastID
  /\ \A a, b \in Addresses : users[a] # NoRow /\ users[b] # NoRow /\ a # b =>
       users[a].id # users[b].id

RequestsTyped ==
  request \in [Clients -> [stage : Stages, kind : {"none", "register", "login"},
                           email : Spellings \cup {NoRow}, password : Passwords \cup {Empty},
                           server : Servers \cup {NoOne}, id : 0 .. lastID, due : BOOLEAN]]

SeedOK ==
  /\ inserted \in [Seeders -> SUBSET ToSet(SeedAccounts)]
  /\ \A i, j \in Seeders : i # j => inserted[i] \cap inserted[j] = {}
  /\ \A i \in Seeders, a \in Addresses : a \in inserted[i] => users[a] = NoRow
  /\ next \in [Seeders -> 1 .. Len(SeedAccounts) + 1]

TypeOK == MigratorTypeOK /\ UsersOK /\ RequestsTyped /\ SeedOK

\* A client whose registration was answered 201 keeps the account and its
\* password: a registration that lost the race for the address, a late one, and
\* the seed command leave them alone (CreateUser, StorePasswordHash, ensureUser).
\* It carries the types.
RegisteredKeepsPassword ==
  /\ TypeOK
  /\ \A c \in Clients : At(c, "created") =>
       \E a \in RowOf(request[c].id) : /\ a = Lower[request[c].email]
                                       /\ users[a].hash = request[c].password

\* Who logs in with the address and the password of an answered registration,
\* in any spelling of the address, is not told that they are wrong.
RegisteredCanLogIn ==
  \A c \in Clients : request[c].due => ~At(c, "denied")

\* An account without a password, which can neither log in nor be registered
\* again, is left only by a registration that is not answered yet, was answered
\* with an error, or got no answer.
UnusableOnlyAfterError ==
  \A a \in Addresses : users[a] # NoRow /\ users[a].hash = Empty =>
    \E c \in Clients : /\ request[c].kind = "register" /\ Lower[request[c].email] = a
                       /\ request[c].stage \in {"store", "undo", "error", "lost"}

=============================================================================
