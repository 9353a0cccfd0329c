--------------------------- MODULE AccountsProofs ---------------------------
(***************************************************************************)
(* Migrations first: any number of processes and files, any number of      *)
(* starts, and the schema is that of a whole release at every moment.      *)
(* Then registration, login and the seed command, for any number of        *)
(* clients, processes, addresses and passwords.                            *)
(***************************************************************************)
EXTENDS Accounts, TLAPS

\* What the loop of a process has seen to: the files before the current one.
LoopOK(i) ==
  /\ pc[i] \in {"begin", "table"} => file[i] = 1
  /\ pc[i] \in {"check", "apply", "record", "commit"} =>
       \A f \in 0 .. Files : f < file[i] => f \in Seen(i)
  /\ pc[i] = "apply" => file[i] \in 1 .. Files /\ file[i] \notin Seen(i)
  /\ pc[i] = "record" => file[i] \in 1 .. Files /\ file[i] \in Seen(i)
  /\ pc[i] = "commit" => file[i] = Files + 1

IInv ==
  /\ MigratorTypeOK /\ OneMigrates /\ SchemaIsWhole
  /\ \A i \in Instances : LoopOK(i)

\* The invariant holds on a database that an earlier release has left behind.
LEMMA InitIInv == MigratorInit => IInv
<1> SUFFICES ASSUME MigratorInit PROVE IInv
  OBVIOUS
<1> USE FilesAssumption, NoOneAssumption, StartsAssumption DEF MigratorInit
<1>1. MigratorTypeOK
  BY DEF MigratorTypeOK, Whole
<1>2. OneMigrates
  BY DEF OneMigrates, Steps
<1>3. SchemaIsWhole
  BY DEF SchemaIsWhole
<1>4. \A i \in Instances : LoopOK(i)
  BY DEF LoopOK
<1> QED BY <1>1, <1>2, <1>3, <1>4 DEF IInv

\* A process that commits has seen to every file of its binary.
LEMMA CommitIsWhole ==
  ASSUME IInv, NEW i \in Instances, pc[i] = "commit"
  PROVE  Seen(i) = Whole(Files)
<1>1. \A f \in 0 .. Files : f \in Seen(i)
  BY FilesAssumption DEF IInv, LoopOK
<1>2. Seen(i) \subseteq 0 .. Files
  BY DEF IInv, MigratorTypeOK, Seen
<1> QED BY <1>1, <1>2, FilesAssumption DEF Whole

\* Each step of each process keeps the invariant.
LEMMA StepIInv == IInv /\ [MigratorNext]_mvars => IInv'
<1> SUFFICES ASSUME IInv, [MigratorNext]_mvars PROVE IInv'
  OBVIOUS
<1> USE FilesAssumption, NoOneAssumption, StartsAssumption DEF IInv
<1> USE DEF mvars, database, Goto
<1>1. ASSUME NEW i \in Instances, Start(i) PROVE IInv'
  <2> USE <1>1 DEF Start
  <2>1. MigratorTypeOK'
    BY DEF MigratorTypeOK, Steps
  <2>2. OneMigrates'
    BY DEF MigratorTypeOK, OneMigrates, Steps
  <2>3. SchemaIsWhole'
    BY DEF MigratorTypeOK, SchemaIsWhole
  <2>4. \A j \in Instances : LoopOK(j)'
    BY DEF MigratorTypeOK, LoopOK, Seen
  <2> QED BY <2>1, <2>2, <2>3, <2>4
<1>2. ASSUME NEW i \in Instances, Lock(i) PROVE IInv'
  <2> USE <1>2 DEF Lock
  <2>1. MigratorTypeOK'
    BY DEF MigratorTypeOK, Steps
  <2>2. OneMigrates'
    BY DEF MigratorTypeOK, OneMigrates, Steps, LockFree
  <2>3. SchemaIsWhole'
    BY DEF MigratorTypeOK, SchemaIsWhole
  <2>4. \A j \in Instances : LoopOK(j)'
    BY DEF MigratorTypeOK, LoopOK, Seen
  <2> QED BY <2>1, <2>2, <2>3, <2>4
<1>3. ASSUME NEW i \in Instances, CreateTable(i) PROVE IInv'
  <2> USE <1>3 DEF CreateTable
  <2>1. MigratorTypeOK'
    BY DEF MigratorTypeOK, Steps
  <2>2. OneMigrates'
    BY DEF MigratorTypeOK, OneMigrates, Steps
  <2>3. SchemaIsWhole'
    BY DEF MigratorTypeOK, SchemaIsWhole
  <2>4. \A j \in Instances : LoopOK(j)'
    BY DEF MigratorTypeOK, LoopOK, Seen
  <2> QED BY <2>1, <2>2, <2>3, <2>4
<1>4. ASSUME NEW i \in Instances, Check(i) PROVE IInv'
  <2> USE <1>4 DEF Check
  <2>1. MigratorTypeOK'
    BY DEF MigratorTypeOK, Steps, SkipFile, Seen
  <2>2. OneMigrates'
    BY DEF MigratorTypeOK, OneMigrates, Steps
  <2>3. SchemaIsWhole'
    BY DEF MigratorTypeOK, SchemaIsWhole
  <2>4. \A j \in Instances : LoopOK(j)'
    BY DEF MigratorTypeOK, LoopOK, Seen, SkipFile
  <2> QED BY <2>1, <2>2, <2>3, <2>4
<1>5. ASSUME NEW i \in Instances, Apply(i) PROVE IInv'
  <2> USE <1>5 DEF Apply
  <2>1. MigratorTypeOK'
    BY DEF MigratorTypeOK, Steps, LoopOK
  <2>2. OneMigrates'
    BY DEF MigratorTypeOK, OneMigrates, Steps
  <2>3. SchemaIsWhole'
    BY DEF MigratorTypeOK, SchemaIsWhole
  <2>4. \A j \in Instances : LoopOK(j)'
    BY DEF MigratorTypeOK, LoopOK, Seen
  <2> QED BY <2>1, <2>2, <2>3, <2>4
<1>6. ASSUME NEW i \in Instances, Record(i) PROVE IInv'
  <2> USE <1>6 DEF Record
  <2>1. MigratorTypeOK'
    BY DEF MigratorTypeOK, Steps, LoopOK
  <2>2. OneMigrates'
    BY DEF MigratorTypeOK, OneMigrates, Steps
  <2>3. SchemaIsWhole'
    BY DEF MigratorTypeOK, SchemaIsWhole
  <2>4. \A j \in Instances : LoopOK(j)'
    BY DEF MigratorTypeOK, LoopOK, Seen
  <2> QED BY <2>1, <2>2, <2>3, <2>4
<1>7. ASSUME NEW i \in Instances, Commit(i) PROVE IInv'
  <2> USE <1>7 DEF Commit
  <2>1. lock = i /\ \A j \in Instances \ {i} : pc[j] \in {"begin", "up", "down"}
    BY DEF MigratorTypeOK, OneMigrates, Steps
  <2>2. schema' = Whole(Files)
    BY CommitIsWhole
  <2>3. MigratorTypeOK'
    BY DEF MigratorTypeOK, Steps, Seen, Unlock
  <2>4. OneMigrates'
    BY <2>1 DEF MigratorTypeOK, OneMigrates, Steps, Unlock
  <2>5. SchemaIsWhole'
    BY <2>2 DEF SchemaIsWhole, Whole
  <2>6. \A j \in Instances : LoopOK(j)'
    BY <2>1 DEF MigratorTypeOK, LoopOK
  <2> QED BY <2>3, <2>4, <2>5, <2>6
<1>8. ASSUME NEW i \in Instances, GiveUp(i) PROVE IInv'
  <2> USE <1>8 DEF GiveUp, DropOwn
  <2>1. MigratorTypeOK'
    BY DEF MigratorTypeOK, Steps, Unlock
  <2>2. OneMigrates'
    BY DEF MigratorTypeOK, OneMigrates, Steps, Unlock
  <2>3. SchemaIsWhole'
    BY DEF MigratorTypeOK, SchemaIsWhole
  <2>4. \A j \in Instances : LoopOK(j)'
    BY DEF MigratorTypeOK, LoopOK, Seen
  <2> QED BY <2>1, <2>2, <2>3, <2>4
<1>9. ASSUME NEW i \in Instances, Stop(i) PROVE IInv'
  <2> USE <1>9 DEF Stop
  <2>1. MigratorTypeOK'
    BY DEF MigratorTypeOK, Steps
  <2>2. OneMigrates'
    BY DEF MigratorTypeOK, OneMigrates, Steps
  <2>3. SchemaIsWhole'
    BY DEF MigratorTypeOK, SchemaIsWhole
  <2>4. \A j \in Instances : LoopOK(j)'
    BY DEF MigratorTypeOK, LoopOK, Seen
  <2> QED BY <2>1, <2>2, <2>3, <2>4
<1>10. CASE UNCHANGED mvars
  BY <1>10 DEF MigratorTypeOK, OneMigrates, SchemaIsWhole, LoopOK, Seen, Steps
<1> QED
  BY <1>1, <1>2, <1>3, <1>4, <1>5, <1>6, <1>7, <1>8, <1>9, <1>10
  DEF MigratorNext, Migrate

\* The inductive invariant of the migrations.
THEOREM MigrationsKeepIInv == MigratorSpec => []IInv
BY InitIInv, StepIInv, PTL DEF MigratorSpec

\* All or nothing: committed files are those of a whole release, and who has
\* passed ApplyMigrations finds them all.
THEOREM SchemaStaysWhole == MigratorSpec => []SchemaIsWhole
<1>1. IInv => SchemaIsWhole
  BY DEF IInv
<1> QED BY <1>1, MigrationsKeepIInv, PTL

\* Nobody applies a file that somebody has applied, committed or not.
THEOREM NoFileIsAppliedTwice == MigratorSpec => []NoFileTwice
<1>1. IInv => NoFileTwice
  <2> SUFFICES ASSUME IInv PROVE NoFileTwice
    OBVIOUS
  <2>1. ASSUME NEW i \in Instances, pc[i] = "apply", NEW j \in Instances
        PROVE  file[i] \notin schema /\ file[i] \notin own[j]
    BY <2>1, NoOneAssumption DEF IInv, LoopOK, Seen, OneMigrates, MigratorTypeOK, Steps
  <2> QED BY <2>1 DEF NoFileTwice, IInv
<1> QED BY <1>1, MigrationsKeepIInv, PTL

-----------------------------------------------------------------------------

\* A request that has inserted the row whose id it carries.
Registrant(c) ==
  request[c].kind = "register" /\ request[c].stage \in {"store", "undo", "token", "created"}

\* What a request is, stage by stage.
StagesOK ==
  \A c \in Clients :
    /\ ~At(c, "new") => /\ request[c].email \in Addresses
                        /\ request[c].password \in Passwords
                        /\ request[c].kind \in {"register", "login"}
    /\ At(c, "new") => request[c].server = NoOne
    /\ request[c].stage \in {"create", "store", "undo", "created"} =>
         request[c].kind = "register"
    /\ request[c].stage \in {"compare", "granted", "denied"} => request[c].kind = "login"

\* A registrant's row is there, with the password once it is stored, and is
\* no other registrant's.
OwnRows ==
  /\ \A c \in Clients : Registrant(c) /\ ~At(c, "undo") =>
       /\ users[request[c].email] # NoRow
       /\ users[request[c].email].id = request[c].id
       /\ At(c, "store") \/ users[request[c].email].hash = request[c].password
  /\ \A c, d \in Clients : c # d /\ Registrant(c) /\ Registrant(d) =>
       request[c].id # request[d].id
  /\ \A a \in Addresses : users[a] # NoRow => users[a].email = a

\* A login that is due follows an answered registration and compares with its row.
DueOK ==
  \A c \in Clients : request[c].due =>
    /\ request[c].kind = "login" /\ ~At(c, "new") /\ ~At(c, "denied")
    /\ \E d \in Clients : /\ At(d, "created") /\ request[d].email = request[c].email
                          /\ request[d].password = request[c].password
    /\ At(c, "compare") => users[request[c].email].id = request[c].id

APart ==
  /\ UsersOK /\ RequestsTyped /\ SeedOK
  /\ StagesOK /\ OwnRows /\ DueOK /\ UnusableOnlyAfterError

AInv == IInv /\ APart

-----------------------------------------------------------------------------

\* Folding an address twice is folding it once.
LEMMA Folded ==
  /\ Addresses \subseteq Spellings
  /\ \A a \in Addresses : Lower[a] = a
  /\ \A e \in Spellings : Lower[e] \in Addresses
BY LowerAssumption DEF Addresses

\* The accounts of the seed command are addresses with one place each.
LEMMA Places ==
  \A a \in ToSet(SeedAccounts) :
    /\ a \in Addresses
    /\ Place(a) \in 1 .. Len(SeedAccounts) /\ SeedAccounts[Place(a)] = a
<1> SUFFICES ASSUME NEW a \in ToSet(SeedAccounts)
             PROVE  /\ a \in Addresses
                    /\ Place(a) \in 1 .. Len(SeedAccounts) /\ SeedAccounts[Place(a)] = a
  OBVIOUS
<1>1. SeedAccounts \in Seq(Addresses)
  BY SeedAssumption DEF Addresses
<1>2. PICK n \in 1 .. Len(SeedAccounts) : SeedAccounts[n] = a
  BY <1>1 DEF ToSet
<1>3. a \in Addresses
  BY <1>1, <1>2
<1> QED BY <1>2, <1>3 DEF Place

\* The first state.
LEMMA InitAInv == AccountsInit => AInv
<1> SUFFICES ASSUME AccountsInit PROVE AInv
  OBVIOUS
<1> USE DEF AccountsInit
<1>1. IInv
  BY InitIInv
<1>2. SeedAccounts \in Seq(Addresses)
  BY SeedAssumption DEF Addresses
<1>3. UsersOK
  BY DEF UsersOK
<1>4. RequestsTyped
  BY DEF RequestsTyped, Blank, Stages, Answers
<1>5. SeedOK
  BY <1>2 DEF SeedOK
<1>6. StagesOK /\ OwnRows /\ DueOK /\ UnusableOnlyAfterError
  BY DEF StagesOK, OwnRows, DueOK, UnusableOnlyAfterError, Blank, At, Registrant
<1> QED BY <1>1, <1>3, <1>4, <1>5, <1>6 DEF AInv, APart

\* Every step of Accounts is one of the migrations, or leaves them alone.
LEMMA StepIsMigration == [Next]_vars => [MigratorNext]_mvars
<1> SUFFICES ASSUME [Next]_vars PROVE [MigratorNext]_mvars
  OBVIOUS
<1>1. ASSUME NEW i \in Instances, Start(i) \/ Migrate(i) \/ GiveUp(i)
      PROVE  MigratorNext
  BY <1>1 DEF MigratorNext
<1>2. ASSUME NEW i \in Seeders, EnsureUser(i) PROVE UNCHANGED mvars
  BY <1>2 DEF EnsureUser
<1>3. ASSUME NEW i \in Seeders, Load(i) PROVE MigratorNext
  BY <1>3 DEF Load, MigratorNext, Seeders
<1>4. ASSUME NEW i \in Instances, Exit(i) PROVE MigratorNext
  BY <1>4 DEF Exit, MigratorNext
<1>5. CASE UNCHANGED vars
  BY <1>5 DEF vars
<1> QED BY <1>1, <1>2, <1>3, <1>4, <1>5 DEF Next


\* A request arrives, its address folded.
LEMMA ReceiveKeeps ==
  ASSUME APart, NEW c \in Clients, NEW kind \in {"register", "login"}, NEW e \in Spellings,
         NEW p \in Passwords, NEW i \in Servers, Receive(c, kind, e, p, i)
  PROVE  APart'
<1> USE DEF APart, Receive, At, Canonical
<1>1. UsersOK'
  BY DEF UsersOK, seeding
<1>2. RequestsTyped'
  BY Folded DEF RequestsTyped, UsersOK, Stages, Answers, StagesOK
<1>3. SeedOK'
  BY DEF SeedOK, seeding
<1>4. StagesOK'
  BY Folded DEF StagesOK, RequestsTyped
<1>5. OwnRows'
  BY DEF OwnRows, StagesOK, RequestsTyped, Registrant
<1>6. DueOK'
  BY Folded DEF DueOK, StagesOK, OwnRows, RequestsTyped, Registrant, Created
<1>7. UnusableOnlyAfterError'
  BY DEF UnusableOnlyAfterError, StagesOK, RequestsTyped
<1> QED BY <1>1, <1>2, <1>3, <1>4, <1>5, <1>6, <1>7 DEF APart

\* The look-up of both requests.
LEMMA LookupKeeps ==
  ASSUME APart, NEW c \in Clients, Lookup(c)
  PROVE  APart'
<1> USE DEF APart, Lookup, At, To, ToRow, WithEmail
<1>1. UsersOK'
  BY DEF UsersOK, seeding
<1>2. RequestsTyped'
  BY DEF RequestsTyped, UsersOK, Stages, Answers, StagesOK
<1>3. SeedOK'
  BY DEF SeedOK, seeding
<1>4. StagesOK'
  BY DEF StagesOK, RequestsTyped
<1>5. OwnRows'
  BY DEF OwnRows, StagesOK, RequestsTyped, Registrant
<1>6. DueOK'
  BY DEF DueOK, StagesOK, OwnRows, RequestsTyped, Registrant
<1>7. UnusableOnlyAfterError'
  BY DEF UnusableOnlyAfterError, StagesOK, RequestsTyped
<1> QED BY <1>1, <1>2, <1>3, <1>4, <1>5, <1>6, <1>7 DEF APart

\* The insertion, and the violation of the unique index.
LEMMA CreateUserKeeps ==
  ASSUME APart, NEW c \in Clients, CreateUser(c)
  PROVE  APart'
<1> DEFINE a == request[c].email
           row == [id |-> lastID + 1, email |-> a, hash |-> Empty]
<1>1. /\ At(c, "create") /\ request[c].kind = "register"
      /\ a \in Addresses /\ a \in Spellings /\ Lower[a] = a
  BY Folded DEF APart, CreateUser, At, StagesOK
<1>2. CASE users[a] # NoRow
  <2>1. To(c, "conflict") /\ UNCHANGED <<users, lastID, seeding>>
    BY <1>1, <1>2 DEF CreateUser, OnViolation
  <2> USE <1>1, <2>1 DEF APart, At, To, seeding
  <2>2. UsersOK' /\ SeedOK'
    BY DEF UsersOK, SeedOK
  <2>3. RequestsTyped'
    BY DEF RequestsTyped, Stages, Answers
  <2>4. StagesOK'
    BY DEF StagesOK, RequestsTyped
  <2>5. OwnRows'
    BY DEF OwnRows, RequestsTyped, Registrant
  <2>6. DueOK'
    BY DEF DueOK, RequestsTyped
  <2>7. UnusableOnlyAfterError'
    BY DEF UnusableOnlyAfterError, RequestsTyped
  <2> QED BY <2>2, <2>3, <2>4, <2>5, <2>6, <2>7
<1>3. CASE users[a] = NoRow
  <2>1. /\ users' = [users EXCEPT ![a] = row] /\ lastID' = lastID + 1 /\ UNCHANGED seeding
        /\ ToRow(c, "store", lastID + 1) \/ To(c, "error")
        /\ Free(a)
    BY <1>1, <1>3 DEF CreateUser
  <2>2. row \in Rows /\ row # NoRow /\ lastID \in Nat
    BY <1>1, NoRowAssumption DEF Rows, APart, UsersOK
  <2>3. \A b \in Addresses : users'[b] = IF b = a THEN row ELSE users[b]
    BY <1>1, <2>1 DEF APart, UsersOK
  <2>4. \A d \in Clients \ {c} : request'[d] = request[d]
    BY <2>1 DEF ToRow, To, APart, RequestsTyped
  <2>5. /\ request'[c].email = a /\ request'[c].kind = "register"
        /\ request'[c].password = request[c].password /\ request'[c].due = request[c].due
        /\ \/ request'[c].stage = "store" /\ request'[c].id = lastID + 1
           \/ request'[c].stage = "error"
    BY <1>1, <2>1 DEF ToRow, To, APart, RequestsTyped
  <2> HIDE DEF row
  <2> USE <1>1, <1>3 DEF APart, At
  <2>6. UsersOK'
    <3>1. users' \in [Addresses -> Rows \cup {NoRow}]
      BY <2>1, <2>2 DEF UsersOK
    <3>2. row.id = lastID + 1
      BY DEF row
    <3>3. \A b \in Addresses : users[b] # NoRow => users[b].id \in 1 .. lastID
      BY DEF UsersOK
    <3>4. \A b, d \in Addresses : users'[b] # NoRow /\ users'[d] # NoRow /\ b # d =>
            users'[b].id # users'[d].id
      BY <2>2, <2>3, <3>2, <3>3 DEF UsersOK
    <3>5. \A b \in Addresses : users'[b] # NoRow => users'[b].id \in 1 .. lastID + 1
      BY <2>2, <2>3, <3>2, <3>3
    <3> QED BY <2>1, <2>2, <3>1, <3>4, <3>5 DEF UsersOK
  <2>7. RequestsTyped'
    BY <2>1, <2>2 DEF ToRow, To, RequestsTyped, Stages, Answers
  <2>8. SeedOK'
    BY <2>1, <2>3 DEF SeedOK, seeding, Free
  <2>9. StagesOK'
    BY <2>4, <2>5 DEF StagesOK
  <2>10. OwnRows'
    <3>1. \A d \in Clients : request[d].id \in 0 .. lastID
      BY DEF RequestsTyped
    <3>2. \A d \in Clients \ {c} : Registrant(d)' => Registrant(d)
      BY <2>4 DEF Registrant
    <3>3. Registrant(c)' => request'[c].stage = "store" /\ request'[c].id = lastID + 1
      BY <2>5 DEF Registrant
    <3>4. row.id = lastID + 1 /\ row.email = a
      BY DEF row
    <3>5. \A d \in Clients : Registrant(d) => request[d].email \in Addresses
      BY DEF StagesOK, Registrant
    <3>6. \A d \in Clients : Registrant(d)' /\ ~At(d, "undo")' =>
            /\ users'[request'[d].email] # NoRow
            /\ users'[request'[d].email].id = request'[d].id
            /\ At(d, "store")' \/ users'[request'[d].email].hash = request'[d].password
      <4> SUFFICES ASSUME NEW d \in Clients, Registrant(d)', ~At(d, "undo")'
                   PROVE  /\ users'[request'[d].email] # NoRow
                          /\ users'[request'[d].email].id = request'[d].id
                          /\ \/ At(d, "store")'
                             \/ users'[request'[d].email].hash = request'[d].password
        OBVIOUS
      <4>1. CASE d = c
        BY <4>1, <2>2, <2>3, <2>5, <3>3, <3>4
      <4>2. CASE d # c
        BY <4>2, <2>3, <2>4, <3>2, <3>5 DEF OwnRows
      <4> QED BY <4>1, <4>2
    <3>7. \A d, x \in Clients : d # x /\ Registrant(d)' /\ Registrant(x)' =>
            request'[d].id # request'[x].id
      BY <2>2, <2>4, <3>1, <3>2, <3>3 DEF OwnRows
    <3>8. \A b \in Addresses : users'[b] # NoRow => users'[b].email = b
      BY <2>3, <3>4 DEF OwnRows
    <3> QED BY <3>6, <3>7, <3>8 DEF OwnRows
  <2>11. DueOK'
    <3> SUFFICES ASSUME NEW d \in Clients, request'[d].due
                 PROVE  (/\ request[d].kind = "login" /\ ~At(d, "new") /\ ~At(d, "denied")
                         /\ \E x \in Clients : /\ At(x, "created")
                                               /\ request[x].email = request[d].email
                                               /\ request[x].password = request[d].password
                         /\ At(d, "compare") => users[request[d].email].id = request[d].id)'
      BY DEF DueOK
    <3>1. d # c /\ request[d].due
      BY <2>4, <2>5 DEF DueOK
    <3>2. PICK x \in Clients : /\ At(x, "created") /\ request[x].email = request[d].email
                              /\ request[x].password = request[d].password
      BY <3>1 DEF DueOK
    <3>3. x # c /\ request[d].email \in Addresses /\ users[request[d].email] # NoRow
      BY <3>2 DEF StagesOK, OwnRows, Registrant
    <3> QED BY <2>3, <2>4, <3>1, <3>2, <3>3 DEF DueOK
  <2>12. UnusableOnlyAfterError'
    <3> SUFFICES ASSUME NEW b \in Addresses, users'[b] # NoRow, users'[b].hash = Empty
                 PROVE  \E d \in Clients :
                          /\ request'[d].kind = "register" /\ Lower[request'[d].email] = b
                          /\ request'[d].stage \in {"store", "undo", "error", "lost"}
      BY DEF UnusableOnlyAfterError
    <3>1. CASE b = a
      BY <3>1, <2>5
    <3>2. CASE b # a
      BY <3>2, <2>3, <2>4, <2>5 DEF UnusableOnlyAfterError
    <3> QED BY <3>1, <3>2
  <2> QED BY <2>6, <2>7, <2>8, <2>9, <2>10, <2>11, <2>12
<1> QED BY <1>2, <1>3

\* The hash is stored, in the registrant's own row.
LEMMA StoreKeeps ==
  ASSUME APart, NEW c \in Clients, StorePasswordHash(c)
  PROVE  APart'
<1> DEFINE a == request[c].email
           p == request[c].password
<1>1. /\ At(c, "store") /\ Registrant(c) /\ request[c].kind = "register"
      /\ a \in Addresses /\ Lower[a] = a /\ p \in Passwords
      /\ users[a] # NoRow /\ users[a].id = request[c].id
  BY Folded DEF APart, StorePasswordHash, At, StagesOK, OwnRows, Registrant
<1>2. RowOf(request[c].id) = {a}
  BY <1>1 DEF RowOf, APart, UsersOK
<1>3. users[a] \in Rows
  BY <1>1 DEF APart, UsersOK
<1>4. \A b \in Addresses : users'[b] = IF b = a THEN [users[a] EXCEPT !.hash = p] ELSE users[b]
  BY <1>1, <1>2 DEF StorePasswordHash
<1>5. users'[a] \in Rows /\ users'[a].id = users[a].id /\ users'[a].email = users[a].email
      /\ users'[a].hash = p /\ users'[a] # NoRow
  BY <1>1, <1>3, <1>4, NoRowAssumption DEF Rows
<1>6. UNCHANGED <<lastID, seeding>> /\ (To(c, "token") \/ To(c, "undo"))
  BY DEF StorePasswordHash, OnStoreError
<1>7. /\ \A d \in Clients \ {c} : request'[d] = request[d]
      /\ request'[c].email = a /\ request'[c].kind = "register"
      /\ request'[c].password = p /\ request'[c].due = request[c].due
      /\ request'[c].stage \in {"token", "undo"} /\ request'[c].id = request[c].id
  BY <1>1, <1>6 DEF To, APart, RequestsTyped
<1> USE DEF APart, At
<1>8. UsersOK'
  <2>1. users' \in [Addresses -> Rows \cup {NoRow}]
    <3>1. \A b \in Addresses : users'[b] \in Rows \cup {NoRow}
      BY <1>4, <1>5 DEF UsersOK
    <3> QED BY <1>1, <1>2, <3>1 DEF StorePasswordHash
  <2>2. ASSUME NEW b \in Addresses, users'[b] # NoRow
        PROVE  users[b] # NoRow /\ users'[b].id = users[b].id
    BY <1>1, <1>4, <1>5, <2>2
  <2>3. ASSUME NEW b \in Addresses, users'[b] # NoRow PROVE users'[b].id \in 1 .. lastID
    BY <2>2, <2>3 DEF UsersOK
  <2>4. ASSUME NEW b \in Addresses, NEW d \in Addresses, b # d,
               users'[b] # NoRow, users'[d] # NoRow
        PROVE  users'[b].id # users'[d].id
    BY <2>2, <2>4 DEF UsersOK
  <2>5. lastID' = lastID
    BY <1>6
  <2> QED BY <2>1, <2>3, <2>4, <2>5 DEF UsersOK
<1>9. RequestsTyped'
  BY <1>6 DEF RequestsTyped, To, Stages, Answers
<1>10. SeedOK'
  BY <1>1, <1>4, <1>6 DEF SeedOK, seeding
<1>11. StagesOK'
  BY <1>1, <1>7 DEF StagesOK
<1>12. OwnRows'
  <2>1. \A d \in Clients : Registrant(d)' => Registrant(d) /\ request'[d].id = request[d].id
    BY <1>1, <1>7 DEF Registrant
  <2>2. \A d \in Clients \ {c} : Registrant(d) /\ ~At(d, "undo") => request[d].email # a
    BY <1>1 DEF OwnRows
  <2>3. \A d \in Clients : Registrant(d)' /\ ~At(d, "undo")' =>
          /\ users'[request'[d].email] # NoRow
          /\ users'[request'[d].email].id = request'[d].id
          /\ At(d, "store")' \/ users'[request'[d].email].hash = request'[d].password
    BY <1>1, <1>4, <1>5, <1>7, <2>1, <2>2 DEF OwnRows, StagesOK, Registrant
  <2>4. \A b \in Addresses : users'[b] # NoRow => users'[b].email = b
    BY <1>1, <1>4, <1>5 DEF OwnRows
  <2> QED BY <2>1, <2>3, <2>4 DEF OwnRows
<1>13. DueOK'
  BY <1>1, <1>4, <1>5, <1>7 DEF DueOK, StagesOK
<1>14. UnusableOnlyAfterError'
  <2> SUFFICES ASSUME NEW b \in Addresses, users'[b] # NoRow, users'[b].hash = Empty
               PROVE  \E d \in Clients :
                        /\ request'[d].kind = "register" /\ Lower[request'[d].email] = b
                        /\ request'[d].stage \in {"store", "undo", "error", "lost"}
    BY DEF UnusableOnlyAfterError
  <2>1. b # a
    BY <1>1, <1>5, EmptyAssumption
  <2>2. PICK d \in Clients : /\ request[d].kind = "register" /\ Lower[request[d].email] = b
                             /\ request[d].stage \in {"store", "undo", "error", "lost"}
    BY <1>4, <2>1 DEF UnusableOnlyAfterError
  <2> QED BY <1>1, <1>7, <2>1, <2>2
<1> QED BY <1>8, <1>9, <1>10, <1>11, <1>12, <1>13, <1>14

\* Only the row of a registration that failed is taken back.
LEMMA UndoKeeps ==
  ASSUME APart, NEW c \in Clients, Undo(c)
  PROVE  APart'
<1> USE Folded DEF APart, Undo, At, To, RowOf
<1>1. UsersOK'
  BY DEF UsersOK, seeding
<1>2. RequestsTyped'
  BY DEF RequestsTyped, UsersOK, Stages, Answers, StagesOK
<1>3. SeedOK'
  BY DEF SeedOK, seeding
<1>4. StagesOK'
  BY DEF StagesOK, RequestsTyped
<1>5. OwnRows'
  BY DEF OwnRows, StagesOK, RequestsTyped, Registrant
<1>6. DueOK'
  BY DEF DueOK, StagesOK, OwnRows, RequestsTyped, Registrant
<1>7. UnusableOnlyAfterError'
  BY DEF UnusableOnlyAfterError, StagesOK, RequestsTyped
<1> QED BY <1>1, <1>2, <1>3, <1>4, <1>5, <1>6, <1>7 DEF APart

\* A login compares with the row it has found.
LEMMA CompareKeeps ==
  ASSUME APart, NEW c \in Clients, ComparePassword(c)
  PROVE  APart'
<1> USE DEF APart, ComparePassword, At, To, RowOf
<1>1. UsersOK'
  BY DEF UsersOK, seeding
<1>2. RequestsTyped'
  BY DEF RequestsTyped, UsersOK, Stages, Answers, StagesOK
<1>3. SeedOK'
  BY DEF SeedOK, seeding
<1>4. StagesOK'
  BY DEF StagesOK, RequestsTyped
<1>5. OwnRows'
  BY DEF OwnRows, StagesOK, RequestsTyped, Registrant
<1>6. DueOK'
  BY DEF DueOK, StagesOK, OwnRows, RequestsTyped, Registrant
<1>7. UnusableOnlyAfterError'
  BY DEF UnusableOnlyAfterError, StagesOK, RequestsTyped
<1> QED BY <1>1, <1>2, <1>3, <1>4, <1>5, <1>6, <1>7 DEF APart

\* An answer.
LEMMA RespondKeeps ==
  ASSUME APart, NEW c \in Clients, Respond(c)
  PROVE  APart'
<1> USE DEF APart, Respond, At, To
<1>1. UsersOK'
  BY DEF UsersOK, seeding
<1>2. RequestsTyped'
  BY DEF RequestsTyped, UsersOK, Stages, Answers, StagesOK
<1>3. SeedOK'
  BY DEF SeedOK, seeding
<1>4. StagesOK'
  BY DEF StagesOK, RequestsTyped
<1>5. OwnRows'
  BY DEF OwnRows, StagesOK, RequestsTyped, Registrant
<1>6. DueOK'
  BY DEF DueOK, StagesOK, OwnRows, RequestsTyped, Registrant
<1>7. UnusableOnlyAfterError'
  BY DEF UnusableOnlyAfterError, StagesOK, RequestsTyped
<1> QED BY <1>1, <1>2, <1>3, <1>4, <1>5, <1>6, <1>7 DEF APart

\* A statement fails.
LEMMA FailKeeps ==
  ASSUME APart, NEW c \in Clients, Fail(c)
  PROVE  APart'
<1> USE DEF APart, Fail, At, To, OnStoreError
<1>1. UsersOK'
  BY DEF UsersOK, seeding
<1>2. RequestsTyped'
  BY DEF RequestsTyped, UsersOK, Stages, Answers, StagesOK
<1>3. SeedOK'
  BY DEF SeedOK, seeding
<1>4. StagesOK'
  BY DEF StagesOK, RequestsTyped
<1>5. OwnRows'
  BY DEF OwnRows, StagesOK, RequestsTyped, Registrant
<1>6. DueOK'
  BY DEF DueOK, StagesOK, OwnRows, RequestsTyped, Registrant
<1>7. UnusableOnlyAfterError'
  BY DEF UnusableOnlyAfterError, StagesOK, RequestsTyped
<1> QED BY <1>1, <1>2, <1>3, <1>4, <1>5, <1>6, <1>7 DEF APart

\* The seed command inserts an account that is not there.
LEMMA EnsureUserKeeps ==
  ASSUME APart, NEW i \in Seeders, EnsureUser(i)
  PROVE  APart'
<1> USE SeedAssumption DEF APart, EnsureUser, At
<1>1. UsersOK'
  BY DEF UsersOK, seeding
<1>2. RequestsTyped'
  BY DEF RequestsTyped, UsersOK, Stages, Answers, StagesOK
<1>3. SeedOK'
  BY DEF SeedOK, seeding, ToSet
<1>4. StagesOK'
  BY DEF StagesOK, RequestsTyped
<1>5. OwnRows'
  BY DEF OwnRows, StagesOK, RequestsTyped, Registrant
<1>6. DueOK'
  BY DEF DueOK, StagesOK, OwnRows, RequestsTyped, Registrant
<1>7. UnusableOnlyAfterError'
  BY DEF UnusableOnlyAfterError, StagesOK, RequestsTyped
<1> QED BY <1>1, <1>2, <1>3, <1>4, <1>5, <1>6, <1>7 DEF APart

\* Its accounts appear, under ids of their own.
LEMMA LoadKeeps ==
  ASSUME APart, NEW i \in Seeders, Load(i)
  PROVE  APart'
<1> DEFINE row(b) == [id |-> lastID + Place(b), email |-> b, hash |-> DemoPassword]
<1>1. \A b \in Addresses : users'[b] = IF b \in inserted[i] THEN row(b) ELSE users[b]
  BY DEF Load, SeedRows
<1>2. /\ lastID \in Nat /\ lastID' = lastID + Len(SeedAccounts) /\ Len(SeedAccounts) \in Nat
      /\ request' = request
  BY SeedAssumption DEF Load, APart, UsersOK
<1>3. \A b \in inserted[i] : /\ b \in Addresses /\ users[b] = NoRow
                             /\ Place(b) \in 1 .. Len(SeedAccounts) /\ SeedAccounts[Place(b)] = b
  BY Places DEF APart, SeedOK
<1>4. \A b \in inserted[i] : row(b) \in Rows /\ row(b) # NoRow
  BY <1>2, <1>3, Folded, EmptyAssumption, NoRowAssumption DEF Rows
<1>5. \A b \in inserted[i] : /\ row(b).id = lastID + Place(b) /\ row(b).email = b
                             /\ row(b).hash # Empty
  BY EmptyAssumption
<1> HIDE DEF row
<1> USE DEF APart, At
<1>6. UsersOK'
  <2>1. users' \in [Addresses -> Rows \cup {NoRow}]
    <3>1. \A b \in Addresses : users'[b] \in Rows \cup {NoRow}
      BY <1>1, <1>4 DEF UsersOK
    <3> QED BY <3>1 DEF Load
  <2>2. \A b \in Addresses : users'[b] # NoRow => users'[b].id \in 1 .. lastID'
    BY <1>1, <1>2, <1>3, <1>5 DEF UsersOK
  <2>3. \A b, d \in Addresses : users'[b] # NoRow /\ users'[d] # NoRow /\ b # d =>
          users'[b].id # users'[d].id
    BY <1>1, <1>2, <1>3, <1>5 DEF UsersOK
  <2> QED BY <1>2, <2>1, <2>2, <2>3 DEF UsersOK
<1>7. RequestsTyped'
  BY <1>2 DEF RequestsTyped
<1>8. SeedOK'
  <2>1. inserted' = [inserted EXCEPT ![i] = {}] /\ next' = [next EXCEPT ![i] = 1]
    BY DEF Load
  <2> QED BY <1>1, <1>2, <2>1 DEF SeedOK
<1>9. StagesOK'
  BY <1>2 DEF StagesOK
<1>10. OwnRows'
  <2>1. \A d \in Clients : Registrant(d) /\ ~At(d, "undo") =>
          users'[request[d].email] = users[request[d].email]
    BY <1>1, <1>3 DEF OwnRows, StagesOK, Registrant
  <2>2. \A b \in Addresses : users'[b] # NoRow => users'[b].email = b
    BY <1>1, <1>5 DEF OwnRows
  <2> QED BY <1>2, <2>1, <2>2 DEF OwnRows, Registrant
<1>11. DueOK'
  <2> SUFFICES ASSUME NEW d \in Clients, request[d].due, At(d, "compare")
               PROVE  users'[request[d].email].id = request[d].id
    BY <1>2 DEF DueOK
  <2>1. PICK x \in Clients : /\ At(x, "created") /\ request[x].email = request[d].email
    BY DEF DueOK
  <2>2. request[d].email \in Addresses /\ users[request[d].email] # NoRow
    BY <2>1 DEF StagesOK, OwnRows, Registrant
  <2> QED BY <1>1, <1>3, <2>2 DEF DueOK
<1>12. UnusableOnlyAfterError'
  BY <1>1, <1>2, <1>5 DEF UnusableOnlyAfterError
<1> QED BY <1>6, <1>7, <1>8, <1>9, <1>10, <1>11, <1>12

\* The requests of a process end with it.
LEMMA ExitKeeps ==
  ASSUME APart, NEW i \in Instances, Exit(i)
  PROVE  APart'
<1> USE DEF APart, Exit, At, Answers
<1>1. UsersOK'
  BY DEF UsersOK, seeding
<1>2. RequestsTyped'
  BY DEF RequestsTyped, UsersOK, Stages, Answers, StagesOK
<1>3. SeedOK'
  BY DEF SeedOK, seeding
<1>4. StagesOK'
  BY NoOneAssumption DEF StagesOK, RequestsTyped
<1>5. OwnRows'
  BY DEF OwnRows, StagesOK, RequestsTyped, Registrant
<1>6. DueOK'
  BY DEF DueOK, StagesOK, OwnRows, RequestsTyped, Registrant
<1>7. UnusableOnlyAfterError'
  BY DEF UnusableOnlyAfterError, StagesOK, RequestsTyped
<1> QED BY <1>1, <1>2, <1>3, <1>4, <1>5, <1>6, <1>7 DEF APart

\* Each step keeps the invariant.
LEMMA StepAInv == AInv /\ [Next]_vars => AInv'
<1> SUFFICES ASSUME AInv, [Next]_vars PROVE AInv'
  OBVIOUS
<1> USE DEF AInv
<1>1. IInv'
  BY StepIsMigration, StepIInv
<1>2. ASSUME UNCHANGED avars PROVE APart'
  BY <1>2 DEF avars, APart, UsersOK, RequestsTyped, SeedOK, StagesOK, OwnRows, DueOK,
              UnusableOnlyAfterError, At, Registrant
<1>3. ASSUME NEW c \in Clients, Handle(c) PROVE APart'
  BY <1>3, ReceiveKeeps, LookupKeeps, CreateUserKeeps, StoreKeeps, UndoKeeps, CompareKeeps,
     RespondKeeps, FailKeeps DEF Handle
<1>4. CASE UNCHANGED vars
  BY <1>1, <1>2, <1>4 DEF vars
<1> QED
  BY <1>1, <1>2, <1>3, <1>4, EnsureUserKeeps, LoadKeeps, ExitKeeps DEF Next

\* The invariant of registration, login and the seed command.
THEOREM AccountsKeepAInv == Spec => []AInv
BY InitAInv, StepAInv, PTL DEF Spec

\* Accounts runs the migrations and nothing else on the schema, so what is
\* proved of Migrator holds in it.
THEOREM AccountsMigrate == Spec => MigratorSpec
<1>1. AccountsInit => MigratorInit
  BY DEF AccountsInit
<1> QED BY <1>1, StepIsMigration, PTL DEF Spec, MigratorSpec

\* Who was told 201 keeps account and password.
THEOREM AnsweredRegistrationsLast == Spec => []RegisteredKeepsPassword
<1>1. AInv => RegisteredKeepsPassword
  <2> SUFFICES ASSUME AInv PROVE RegisteredKeepsPassword
    OBVIOUS
  <2>1. TypeOK
    BY DEF AInv, APart, TypeOK, IInv
  <2>2. ASSUME NEW c \in Clients, At(c, "created")
        PROVE  /\ request[c].email \in Addresses /\ Lower[request[c].email] = request[c].email
               /\ request[c].email \in RowOf(request[c].id)
               /\ users[request[c].email].hash = request[c].password
    BY <2>2, Folded DEF AInv, APart, StagesOK, OwnRows, Registrant, At, RowOf
  <2> QED BY <2>1, <2>2 DEF RegisteredKeepsPassword
<1> QED BY <1>1, AccountsKeepAInv, PTL

\* Their logins are not refused, in any spelling.
THEOREM AnsweredRegistrationsLogIn == Spec => []RegisteredCanLogIn
<1>1. AInv => RegisteredCanLogIn
  BY DEF AInv, APart, DueOK, RegisteredCanLogIn
<1> QED BY <1>1, AccountsKeepAInv, PTL

\* Who is left without a password was told of an error, or nothing.
THEOREM UnusableAccountsWereErrors == Spec => []UnusableOnlyAfterError
<1>1. AInv => UnusableOnlyAfterError
  BY DEF AInv, APart
<1> QED BY <1>1, AccountsKeepAInv, PTL

=============================================================================
