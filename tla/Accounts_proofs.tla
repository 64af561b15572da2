---------------------------- MODULE Accounts_proofs ----------------------------
(***************************************************************************)
(* Proofs about Accounts, for any replicas, callers and configurations of  *)
(* keys.  The typing comes first, then how a step of one process leaves    *)
(* the others alone; then the inductive invariant IInv, part by part, each *)
(* with one case per action.                                               *)
(***************************************************************************)
EXTENDS Accounts, TLAPS

\* A replica only adds a key that its configuration still has.
TypeInv ==
  /\ TypeOK
  /\ \A r \in Replica : proc[r].at = "addKey" => proc[r].seeded < Len(Bootstrap[r])

\* Every operation, with the process that does it.
LEMMA NextActions ==
  ASSUME Next
  PROVE  \/ \E r \in Replica : Seed(r) \/ SeedUser(r) \/ SeedKey(r) \/ Crash(r)
         \/ \E p \in Process : AddUser(p) \/ AddKey(p) \/ Commit(p) \/ Abort(p)
         \/ \E c \in Caller : GetUser(c) \/ GetOwner(c) \/ Stamp(c) \/ Call(c)
  BY DEF Next, SeedStep, CallStep, Insert, Process

-----------------------------------------------------------------------------
(* Typing.                                                                 *)

LEMMA Kinds == Replica \cap Caller = {} /\ NoOne \notin Process /\ MaxCrashes \in Nat
  BY AccountsAssumption

\* The keys of a configuration, in their order.
LEMMA BootstrapType ==
  ASSUME NEW r \in Replica
  PROVE  /\ Len(Bootstrap[r]) \in Nat
         /\ DOMAIN Bootstrap[r] = 1 .. Len(Bootstrap[r])
         /\ \A i \in 1 .. Len(Bootstrap[r]) : Bootstrap[r][i] \in Prefix
  BY AccountsAssumption

LEMMA IdleType == Idle \in Doing
  <1>1. (CHOOSE k \in Prefix : TRUE) \in Prefix
    BY AccountsAssumption
  <1>2. QED
    BY <1>1 DEF Idle, Doing, Step, Result, UserId

\* What a process becomes is typed, and so is what it has inserted.
LEMMA BecomeType ==
  ASSUME TypeInv, NEW p \in Process, NEW d \in Doing, Become(p, d),
         p \in Replica => /\ d.seeded <= Len(Bootstrap[p])
                          /\ d.at = "addKey" => d.seeded < Len(Bootstrap[p])
  PROVE  /\ proc' \in [Process -> Doing]
         /\ \A r \in Replica :
              /\ proc'[r].seeded <= Len(Bootstrap[r])
              /\ proc'[r].at = "addKey" => proc'[r].seeded < Len(Bootstrap[r])
  BY DEF TypeInv, TypeOK, Become, Process

LEMMA NothingType == Nothing \in Insertions
  BY DEF Nothing, Insertions

LEMMA EndType ==
  ASSUME TypeInv, NEW p \in Process, NEW result \in Result, End(p, result)
  PROVE  TypeInv'
  <1> DEFINE d == [proc[p] EXCEPT !.at = "done", !.result = result]
  <1>1. d \in Doing /\ d.seeded = proc[p].seeded /\ d.at = "done"
    BY DEF TypeInv, TypeOK, Doing, Step
  <1>2. p \in Replica => d.seeded <= Len(Bootstrap[p])
    BY <1>1 DEF TypeInv, TypeOK
  <1> HIDE DEF d
  <1>3. Become(p, d)
    BY DEF End, d
  <1>4. pending' = [pending EXCEPT ![p] = Nothing] /\ UNCHANGED <<users, keys, used, crashes>>
    BY DEF End
  <1>5. QED
    BY <1>1, <1>2, <1>3, <1>4, BecomeType, NothingType DEF TypeInv, TypeOK

LEMMA GotoType ==
  ASSUME TypeInv, NEW p \in Process, NEW at \in Step, Goto(p, at), at = "addKey" => p \in Caller
  PROVE  TypeInv'
  <1> DEFINE d == [proc[p] EXCEPT !.at = at]
  <1>1. d \in Doing /\ d.seeded = proc[p].seeded /\ d.at = at
    BY DEF TypeInv, TypeOK, Doing
  <1>2. p \in Replica => d.seeded <= Len(Bootstrap[p]) /\ d.at # "addKey"
    BY <1>1, Kinds DEF TypeInv, TypeOK
  <1> HIDE DEF d
  <1>3. Become(p, d) /\ UNCHANGED <<users, keys, used, pending, crashes>>
    BY DEF Goto, d
  <1>4. QED
    BY <1>1, <1>2, <1>3, BecomeType DEF TypeInv, TypeOK

LEMMA RaiseType ==
  ASSUME TypeInv, NEW p \in Process, Raise(p)
  PROVE  TypeInv'
  BY EndType DEF Raise, Result

LEMMA SeedUserType ==
  ASSUME TypeInv, NEW r \in Replica, SeedUser(r)
  PROVE  TypeInv'
  <1> DEFINE user == UserOf(r, SystemEmail)
             at == IF user = NoOne THEN "addUser" ELSE "nextKey"
             d == [proc[r] EXCEPT !.at = at, !.owner = user]
  <1>1. user \in UserId /\ at \in Step /\ at # "addKey" /\ r \in Process
    BY DEF TypeInv, TypeOK, UserOf, UserId, Process, Step
  <1>2. Become(r, d) /\ UNCHANGED <<users, keys, used, pending, crashes>>
    BY DEF SeedUser
  <1> HIDE DEF user, at
  <1>3. d \in Doing /\ d.at # "addKey" /\ d.seeded <= Len(Bootstrap[r])
    BY <1>1 DEF TypeInv, TypeOK, Doing
  <1>4. QED
    BY <1>1, <1>2, <1>3, BecomeType DEF TypeInv, TypeOK

LEMMA SeedKeyType ==
  ASSUME TypeInv, NEW r \in Replica, SeedKey(r)
  PROVE  TypeInv'
  <1>1. CASE proc[r].seeded = Len(Bootstrap[r])
    BY <1>1, GotoType DEF SeedKey, Step, Process
  <1>2. CASE proc[r].seeded # Len(Bootstrap[r])
    <2> DEFINE n == proc[r].seeded + 1
               k == Bootstrap[r][n]
               known == [proc[r] EXCEPT !.seeded = n]
               add == [proc[r] EXCEPT !.at = "addKey", !.prefix = k]
    <2>1. r \in Process /\ proc[r].seeded \in Nat /\ proc[r].seeded <= Len(Bootstrap[r])
      BY DEF TypeInv, TypeOK, Process, Doing
    <2>2. n \in Nat /\ proc[r].seeded < n /\ n <= Len(Bootstrap[r]) /\ k \in Prefix
      BY <1>2, <2>1, BootstrapType
    <2>3. /\ Become(r, known) \/ Become(r, add)
          /\ UNCHANGED <<users, keys, used, pending, crashes>> /\ proc[r].at = "nextKey"
      BY <1>2 DEF SeedKey, AfterKnown
    <2> HIDE DEF n, k
    <2>4. known \in Doing /\ known.at = proc[r].at /\ known.seeded = n
      BY <2>1, <2>2 DEF TypeInv, TypeOK, Doing
    <2>5. add \in Doing /\ add.seeded = proc[r].seeded
      BY <2>1, <2>2 DEF TypeInv, TypeOK, Doing, Step
    <2> HIDE DEF known, add
    <2>6. /\ proc' \in [Process -> Doing]
          /\ \A x \in Replica :
               /\ proc'[x].seeded <= Len(Bootstrap[x])
               /\ proc'[x].at = "addKey" => proc'[x].seeded < Len(Bootstrap[x])
      <3>1. known.seeded <= Len(Bootstrap[r]) /\ known.at # "addKey"
        BY <2>2, <2>3, <2>4
      <3>2. add.seeded < Len(Bootstrap[r]) /\ add.seeded <= Len(Bootstrap[r])
        BY <2>1, <2>2, <2>5, BootstrapType
      <3>3. QED
        BY <2>1, <2>3, <2>4, <2>5, <3>1, <3>2, BecomeType
    <2>7. QED
      BY <2>3, <2>6 DEF TypeInv, TypeOK
  <1>3. QED
    BY <1>1, <1>2

LEMMA AddUserType ==
  ASSUME TypeInv, NEW p \in Process, AddUser(p)
  PROVE  TypeInv'
  <1>1. CASE users[proc[p].email] # NoOne
    BY <1>1, RaiseType DEF AddUser
  <1>2. CASE users[proc[p].email] = NoOne
    <2> DEFINE d == [proc[p] EXCEPT !.at = AfterInsert(p), !.owner = p]
    <2>1. d \in Doing /\ d.at # "addKey" /\ d.seeded = proc[p].seeded
      BY DEF TypeInv, TypeOK, Doing, Step, AfterInsert, UserId
    <2>2. p \in Replica => d.seeded <= Len(Bootstrap[p])
      BY <2>1 DEF TypeInv, TypeOK
    <2>3. Become(p, d) /\ UNCHANGED <<users, keys, used, crashes>>
      BY <1>2 DEF AddUser
    <2> HIDE DEF d
    <2>4. pending' \in [Process -> Insertions]
      <3> DEFINE m == [pending[p] EXCEPT !.emails = @ \cup {proc[p].email}]
      <3>1. m \in Insertions
        BY DEF TypeInv, TypeOK, Doing, Insertions
      <3>2. pending' = [pending EXCEPT ![p] = m]
        BY <1>2 DEF AddUser
      <3>3. QED
        BY <3>1, <3>2 DEF TypeInv, TypeOK
    <2>5. QED
      BY <2>1, <2>2, <2>3, <2>4, BecomeType DEF TypeInv, TypeOK
  <1>3. QED
    BY <1>1, <1>2

LEMMA AddKeyType ==
  ASSUME TypeInv, NEW p \in Process, AddKey(p)
  PROVE  TypeInv'
  <1>1. CASE keys[proc[p].prefix] # NoOne
    BY <1>1, RaiseType DEF AddKey
  <1>2. CASE keys[proc[p].prefix] = NoOne
    <2> DEFINE n == IF p \in Replica THEN proc[p].seeded + 1 ELSE proc[p].seeded
               d == [proc[p] EXCEPT !.at = AfterInsert(p), !.seeded = n]
    <2>1. n \in Nat /\ (p \in Replica => n <= Len(Bootstrap[p]))
      <3>1. proc[p].seeded \in Nat /\ (p \in Replica => proc[p].seeded < Len(Bootstrap[p]))
        BY DEF AddKey, TypeInv, TypeOK, Doing
      <3>2. QED
        BY <3>1, BootstrapType
    <2>2. Become(p, d) /\ UNCHANGED <<users, keys, used, crashes>>
      BY <1>2 DEF AddKey
    <2>3. AfterInsert(p) \in Step /\ AfterInsert(p) # "addKey"
      BY DEF AfterInsert, Step
    <2> HIDE DEF n
    <2>4. d \in Doing /\ d.at # "addKey" /\ d.seeded = n
      BY <2>1, <2>3 DEF TypeInv, TypeOK, Doing
    <2> HIDE DEF d
    <2>5. pending' \in [Process -> Insertions]
      <3> DEFINE m == [pending[p] EXCEPT !.prefixes = @ \cup {proc[p].prefix}]
      <3>1. m \in Insertions
        BY DEF TypeInv, TypeOK, Doing, Insertions
      <3>2. pending' = [pending EXCEPT ![p] = m]
        BY <1>2 DEF AddKey
      <3>3. QED
        BY <3>1, <3>2 DEF TypeInv, TypeOK
    <2>6. QED
      BY <2>1, <2>2, <2>4, <2>5, BecomeType DEF TypeInv, TypeOK
  <1>3. QED
    BY <1>1, <1>2

LEMMA CommitType ==
  ASSUME TypeInv, NEW p \in Process, Commit(p)
  PROVE  TypeInv'
  <1> DEFINE d == [proc[p] EXCEPT !.at = "done", !.result = Outcome(p)]
  <1>1. Outcome(p) \in Result
    BY DEF Outcome, Result
  <1>2. d \in Doing /\ d.at # "addKey" /\ d.seeded = proc[p].seeded
    BY <1>1 DEF TypeInv, TypeOK, Doing, Step
  <1>3. p \in Replica => d.seeded <= Len(Bootstrap[p])
    BY <1>2 DEF TypeInv, TypeOK
  <1>4. /\ Become(p, d) /\ UNCHANGED <<used, crashes>>
        /\ pending' = [pending EXCEPT ![p] = Nothing]
    BY DEF Commit
  <1> HIDE DEF d
  <1>5. /\ users' \in [Email \cup {SystemEmail} -> UserId]
        /\ keys' \in [Prefix -> UserId]
    BY DEF Commit, TypeInv, TypeOK, UserOf, OwnerOf, UserId, Doing
  <1>6. QED
    BY <1>2, <1>3, <1>4, <1>5, BecomeType, NothingType DEF TypeInv, TypeOK

LEMMA CallType ==
  ASSUME TypeInv, NEW c \in Caller, Call(c)
  PROVE  TypeInv'
  <1>1. c \in Process /\ c \notin Replica
    BY Kinds DEF Process
  <1>2. PICK d \in Doing : Become(c, d)
    <2>1. CASE \E e \in Email : CreateUser(c, e)
      BY <1>1, <2>1 DEF CreateUser, TypeInv, TypeOK, Doing, Step
    <2>2. CASE \E o \in Process, k \in Prefix \ BootstrapKeys : CreateApiKey(c, o, k)
      <3>1. PICK o \in Process, k \in Prefix : CreateApiKey(c, o, k)
        BY <2>2
      <3> DEFINE d == [proc[c] EXCEPT !.at = "getOwner", !.owner = o, !.prefix = k]
      <3>2. o \in UserId
        BY DEF UserId
      <3>3. d \in Doing
        BY <1>1, <3>2 DEF TypeInv, TypeOK, Doing, Step
      <3>4. QED
        BY <3>1, <3>3 DEF CreateApiKey
    <2>3. CASE \E k \in Prefix : Authenticate(c, k)
      BY <1>1, <2>3 DEF Authenticate, TypeInv, TypeOK, Doing, Step, Result
    <2>4. QED
      BY <2>1, <2>2, <2>3 DEF Call
  <1>3. UNCHANGED <<users, keys, used, pending, crashes>>
    BY DEF Call, CreateUser, CreateApiKey, Authenticate
  <1>4. QED
    BY <1>1, <1>2, <1>3, BecomeType DEF TypeInv, TypeOK

LEMMA StampType ==
  ASSUME TypeInv, NEW c \in Caller, Stamp(c)
  PROVE  TypeInv'
  <1> DEFINE d == [proc[c] EXCEPT !.at = "done", !.result = "accepted"]
  <1>1. c \in Process /\ c \notin Replica
    BY Kinds DEF Process
  <1>2. d \in Doing /\ proc[c].prefix \in Prefix
    BY <1>1 DEF TypeInv, TypeOK, Doing, Step, Result
  <1>3. Become(c, d) /\ used' = used \cup {proc[c].prefix}
        /\ UNCHANGED <<users, keys, pending, crashes>>
    BY DEF Stamp
  <1> HIDE DEF d
  <1>4. QED
    BY <1>1, <1>2, <1>3, BecomeType DEF TypeInv, TypeOK

LEMMA CrashType ==
  ASSUME TypeInv, NEW r \in Replica, Crash(r)
  PROVE  TypeInv'
  <1>1. r \in Process /\ Idle.seeded = 0 /\ Idle.at = "idle" /\ 0 <= Len(Bootstrap[r])
    BY BootstrapType DEF Process, Idle
  <1>2. crashes' \in 0 .. MaxCrashes
    BY Kinds DEF Crash, TypeInv, TypeOK
  <1>3. Become(r, Idle) /\ pending' = [pending EXCEPT ![r] = Nothing]
        /\ UNCHANGED <<users, keys, used>>
    BY DEF Crash
  <1>4. QED
    BY <1>1, <1>2, <1>3, IdleType, NothingType, BecomeType DEF TypeInv, TypeOK

LEMMA InitTypeInv ==
  ASSUME Init
  PROVE  TypeInv
  <1>1. Idle.seeded = 0 /\ Idle.at = "idle"
    BY DEF Idle
  <1>2. \A r \in Replica : Len(Bootstrap[r]) \in Nat
    BY BootstrapType
  <1>3. QED
    BY <1>1, <1>2, IdleType, NothingType, Kinds DEF Init, TypeInv, TypeOK, UserId, Process

LEMMA TypeStep ==
  ASSUME TypeInv, [Next]_vars
  PROVE  TypeInv'
  <1>1. CASE UNCHANGED vars
    BY <1>1 DEF vars, TypeInv, TypeOK
  <1>2. ASSUME NEW r \in Replica, Seed(r) \/ SeedUser(r) \/ SeedKey(r) \/ Crash(r)
        PROVE  TypeInv'
    BY <1>2, GotoType, SeedUserType, SeedKeyType, CrashType DEF Seed, Step, Process
  <1>3. ASSUME NEW p \in Process, AddUser(p) \/ AddKey(p) \/ Commit(p) \/ Abort(p)
        PROVE  TypeInv'
    BY <1>3, AddUserType, AddKeyType, CommitType, RaiseType DEF Abort
  <1>4. ASSUME NEW c \in Caller, GetUser(c) \/ GetOwner(c) \/ Stamp(c) \/ Call(c)
        PROVE  TypeInv'
    BY <1>4, EndType, GotoType, StampType, CallType DEF GetUser, GetOwner, Step, Result, Process
  <1>5. QED
    BY <1>1, <1>2, <1>3, <1>4, NextActions

\* Every state of the accounts has its type: no replica counts past the keys of
\* its configuration.
THEOREM TypeCorrect == Spec => []TypeOK
  <1>1. TypeInv => TypeOK
    BY DEF TypeInv
  <1>2. QED
    BY <1>1, InitTypeInv, TypeStep, PTL DEF Spec

-----------------------------------------------------------------------------
(* The inductive invariant.                                                *)

\* What is inserted and not committed is not in the tables, and nobody else has
\* inserted it.
Uncommitted ==
  \A p \in Process :
    /\ \A e \in pending[p].emails : users[e] = NoOne
    /\ \A k \in pending[p].prefixes : keys[k] = NoOne
    /\ \A q \in Process \ {p} : /\ pending[p].emails \cap pending[q].emails = {}
                                /\ pending[p].prefixes \cap pending[q].prefixes = {}

Registered(owner) == owner # NoOne /\ \E e \in DOMAIN users : users[e] = owner

\* What a request of the API has found out and inserted, step by step.
CallerState(c) ==
  LET p == proc[c]
  IN  /\ p.at # "nextKey"
      /\ p.at # "done" => p.result = "none"
      /\ p.at # "commit" => pending[c] = Nothing
      /\ p.at \in {"idle", "getUser", "addUser"} => p.owner = NoOne
      /\ p.at \in {"getOwner", "addKey"} => p.owner # NoOne /\ p.prefix \notin BootstrapKeys
      /\ p.at = "addKey" => Registered(p.owner)
      /\ p.at = "commit" =>
           \/ p.owner = c /\ pending[c] = [emails |-> {p.email}, prefixes |-> {}]
           \/ /\ Registered(p.owner) /\ p.prefix \notin BootstrapKeys
              /\ pending[c] = [emails |-> {}, prefixes |-> {p.prefix}]
      /\ p.at = "stamp" => keys[p.prefix] # NoOne
      /\ p.result = "issued" => p.owner # NoOne

\* What a replica has passed over is there, or it has inserted it.
ReplicaState(r) ==
  LET p == proc[r]
  IN  /\ p.email = SystemEmail /\ p.at \notin {"getOwner", "stamp"}
      /\ p.at # "done" => p.result = "none"
      /\ pending[r].emails \subseteq {SystemEmail}
      /\ pending[r].prefixes \subseteq KeysOf(r)
      /\ p.at \in {"idle", "getUser", "addUser"} => p.seeded = 0
      /\ IF p.at \in {"nextKey", "addKey", "commit"}
           THEN /\ p.owner # NoOne
                /\ \A i \in 1 .. p.seeded : \/ Bootstrap[r][i] \in pending[r].prefixes
                                            \/ keys[Bootstrap[r][i]] # NoOne
           ELSE pending[r] = Nothing
      /\ p.at = "addKey" => p.prefix = Bootstrap[r][p.seeded + 1]
      /\ p.at = "commit" => p.seeded = Len(Bootstrap[r])

\* The system user of a replica comes with the keys of a configuration, and the
\* last replica to come up leaves those of one, or found the email taken.
SeedArrives ==
  /\ users[SystemEmail] \in Replica => \E r \in Replica : Complete(r)
  /\ (\A r \in Replica : proc[r].at = "done") =>
       (\E r \in Replica : Complete(r)) \/ users[SystemEmail] \in Caller

IInv ==
  /\ TypeInv
  /\ Uncommitted
  /\ \A c \in Caller : CallerState(c) /\ AnswerHolds(c)
  /\ \A r \in Replica : ReplicaState(r)
  /\ SeedIsWhole
  /\ SeedArrives

\* A step of p, whatever p is.
Act(p) ==
  \/ p \in Replica /\ (Seed(p) \/ SeedUser(p) \/ SeedKey(p) \/ Crash(p))
  \/ AddUser(p) \/ AddKey(p) \/ Commit(p) \/ Abort(p)
  \/ p \in Caller /\ (GetUser(p) \/ GetOwner(p) \/ Stamp(p) \/ Call(p))

LEMMA NextActs == Next => \E p \in Process : Act(p)
  BY NextActions DEF Act, Process

-----------------------------------------------------------------------------
(* What a step of p leaves to the others.                                  *)

\* The insertions of p are dropped or kept, or one that nobody else has made is
\* added; only a commit changes the tables, and it ends the transaction.
LEMMA OwnInsertions ==
  ASSUME TypeInv, NEW p \in Process, Act(p)
  PROVE  /\ \E m \in Insertions : pending' = [pending EXCEPT ![p] = m]
         /\ \A q \in Process \ {p} : proc'[q] = proc[q] /\ pending'[q] = pending[q]
         /\ Commit(p) \/ UNCHANGED <<users, keys>>
         /\ Commit(p) => pending'[p] = Nothing
         /\ \/ pending'[p] \in {Nothing, pending[p]}
            \/ /\ pending'[p] = [pending[p] EXCEPT !.emails = @ \cup {proc[p].email}]
               /\ proc[p].at = "addUser" /\ ~Waiting(p) /\ users[proc[p].email] = NoOne
            \/ /\ pending'[p] = [pending[p] EXCEPT !.prefixes = @ \cup {proc[p].prefix}]
               /\ proc[p].at = "addKey" /\ ~Waiting(p) /\ keys[proc[p].prefix] = NoOne
  <1> DEFINE added == [pending[p] EXCEPT !.emails = @ \cup {proc[p].email}]
             more == [pending[p] EXCEPT !.prefixes = @ \cup {proc[p].prefix}]
  <1>1. /\ proc \in [Process -> Doing] /\ pending \in [Process -> Insertions]
        /\ added \in Insertions /\ more \in Insertions
    BY DEF TypeInv, TypeOK, Doing, Insertions
  <1>2. \E d : proc' = [proc EXCEPT ![p] = d]
    BY DEF Act, Seed, SeedUser, SeedKey, Crash, AddUser, AddKey, Commit, Abort, GetUser, GetOwner,
           Stamp, Call, CreateUser, CreateApiKey, Authenticate, Raise, End, Goto, Become
  <1>3. \/ UNCHANGED <<users, keys, pending>>
        \/ pending' = [pending EXCEPT ![p] = Nothing] /\ (Commit(p) \/ UNCHANGED <<users, keys>>)
        \/ /\ pending' = [pending EXCEPT ![p] = added] /\ UNCHANGED <<users, keys>>
           /\ proc[p].at = "addUser" /\ ~Waiting(p) /\ users[proc[p].email] = NoOne
        \/ /\ pending' = [pending EXCEPT ![p] = more] /\ UNCHANGED <<users, keys>>
           /\ proc[p].at = "addKey" /\ ~Waiting(p) /\ keys[proc[p].prefix] = NoOne
    BY DEF Act, Seed, SeedUser, SeedKey, Crash, AddUser, AddKey, Commit, Abort, GetUser, GetOwner,
           Stamp, Call, CreateUser, CreateApiKey, Authenticate, Raise, End, Goto
  <1>4. Commit(p) => pending' = [pending EXCEPT ![p] = Nothing]
    BY DEF Commit
  <1> HIDE DEF added, more
  <1>5. \E m \in Insertions : pending' = [pending EXCEPT ![p] = m]
    <2>1. CASE pending' = pending
      <3>1. pending' = [pending EXCEPT ![p] = pending[p]] /\ pending[p] \in Insertions
        BY <1>1, <2>1
      <3>2. QED
        BY <3>1
    <2>2. CASE pending' # pending
      BY <1>1, <1>3, <2>2, NothingType
    <2>3. QED
      BY <2>1, <2>2
  <1>6. \A q \in Process \ {p} : proc'[q] = proc[q] /\ pending'[q] = pending[q]
    BY <1>1, <1>2, <1>5
  <1>7. Commit(p) \/ UNCHANGED <<users, keys>>
    BY <1>3
  <1>8. \/ pending'[p] \in {Nothing, pending[p]}
        \/ /\ pending'[p] = added
           /\ proc[p].at = "addUser" /\ ~Waiting(p) /\ users[proc[p].email] = NoOne
        \/ /\ pending'[p] = more
           /\ proc[p].at = "addKey" /\ ~Waiting(p) /\ keys[proc[p].prefix] = NoOne
    BY <1>1, <1>3
  <1>9. Commit(p) => pending'[p] = Nothing
    BY <1>1, <1>4
  <1>10. QED
    BY <1>5, <1>6, <1>7, <1>8, <1>9 DEF added, more

\* What is registered or stored stays as it is; what comes is what p commits.
LEMMA TablesGrow ==
  ASSUME TypeInv, Uncommitted, NEW p \in Process, Act(p)
  PROVE  /\ \A e \in Email \cup {SystemEmail} :
              IF Commit(p) /\ e \in pending[p].emails
                THEN users[e] = NoOne /\ users'[e] = p
                ELSE users'[e] = users[e]
         /\ \A k \in Prefix :
              IF Commit(p) /\ k \in pending[p].prefixes
                THEN keys[k] = NoOne /\ keys'[k] = proc[p].owner
                ELSE keys'[k] = keys[k]
         /\ DOMAIN users = Email \cup {SystemEmail} /\ DOMAIN users' = Email \cup {SystemEmail}
  <1>1. CASE Commit(p)
    BY <1>1 DEF Commit, UserOf, OwnerOf, Uncommitted, TypeInv, TypeOK
  <1>2. CASE ~Commit(p)
    BY <1>2, OwnInsertions DEF TypeInv, TypeOK
  <1>3. QED
    BY <1>1, <1>2

LEMMA RegisteredStays ==
  ASSUME TypeInv, Uncommitted, NEW p \in Process, Act(p)
  PROVE  /\ \A o \in Process : Registered(o) => Registered(o)'
         /\ \A e \in Email \cup {SystemEmail} : users[e] # NoOne => users'[e] = users[e]
         /\ \A k \in Prefix : keys[k] # NoOne => keys'[k] = keys[k]
         /\ \A r \in Replica : Complete(r) => Complete(r)'
  <1>1. /\ \A e \in Email \cup {SystemEmail} : users[e] # NoOne => users'[e] = users[e]
        /\ \A k \in Prefix : keys[k] # NoOne => keys'[k] = keys[k]
        /\ DOMAIN users = Email \cup {SystemEmail} /\ DOMAIN users' = Email \cup {SystemEmail}
    BY TablesGrow
  <1>2. \A o \in Process : Registered(o) => Registered(o)'
    BY <1>1 DEF Registered
  <1>3. \A r \in Replica : KeysOf(r) \subseteq Prefix
    BY BootstrapType DEF KeysOf
  <1>4. \A r \in Replica : Complete(r) => Complete(r)'
    BY <1>1, <1>3 DEF Complete
  <1>5. QED
    BY <1>1, <1>2, <1>4

LEMMA UncommittedStep ==
  ASSUME TypeInv, Uncommitted, NEW p \in Process, Act(p)
  PROVE  Uncommitted'
  <1>1. /\ pending \in [Process -> Insertions] /\ pending' \in [Process -> Insertions]
        /\ proc[p] \in Doing
    BY OwnInsertions DEF TypeInv, TypeOK
  <1>2. \A q \in Process : pending[q].emails \subseteq Email \cup {SystemEmail}
                           /\ pending[q].prefixes \subseteq Prefix
    BY <1>1 DEF Insertions
  <1>3. \A e \in pending'[p].emails :
          users'[e] = NoOne /\ \A q \in Process \ {p} : e \notin pending[q].emails
    <2>1. CASE Commit(p)
      <3>1. pending'[p] = Nothing
        BY <2>1, OwnInsertions
      <3>2. pending'[p].emails = {}
        BY <3>1 DEF Nothing
      <3>3. QED
        BY <3>2
    <2>2. CASE ~Commit(p)
      <3>1. users' = users
        BY <2>2, OwnInsertions
      <3>2. \A e \in pending[p].emails :
              users[e] = NoOne /\ \A q \in Process \ {p} : e \notin pending[q].emails
        BY DEF Uncommitted
      <3>3. \/ pending'[p].emails = {} \/ pending'[p].emails = pending[p].emails
            \/ /\ pending'[p].emails = pending[p].emails \cup {proc[p].email}
               /\ proc[p].at = "addUser" /\ ~Waiting(p) /\ users[proc[p].email] = NoOne
        BY <1>1, OwnInsertions DEF Nothing, Insertions
      <3>4. proc[p].at = "addUser" /\ ~Waiting(p) =>
              \A q \in Process \ {p} : proc[p].email \notin pending[q].emails
        BY DEF Waiting, WaitsFor
      <3>5. CASE pending'[p].emails = {} \/ pending'[p].emails = pending[p].emails
        BY <3>1, <3>2, <3>5
      <3>6. CASE /\ pending'[p].emails = pending[p].emails \cup {proc[p].email}
                 /\ proc[p].at = "addUser" /\ ~Waiting(p) /\ users[proc[p].email] = NoOne
        BY <3>1, <3>2, <3>4, <3>6
      <3>7. QED
        BY <3>3, <3>5, <3>6
    <2>3. QED
      BY <2>1, <2>2
  <1>4. \A k \in pending'[p].prefixes :
          keys'[k] = NoOne /\ \A q \in Process \ {p} : k \notin pending[q].prefixes
    <2>1. CASE Commit(p)
      <3>1. pending'[p] = Nothing
        BY <2>1, OwnInsertions
      <3>2. pending'[p].prefixes = {}
        BY <3>1 DEF Nothing
      <3>3. QED
        BY <3>2
    <2>2. CASE ~Commit(p)
      <3>1. keys' = keys
        BY <2>2, OwnInsertions
      <3>2. \A k \in pending[p].prefixes :
              keys[k] = NoOne /\ \A q \in Process \ {p} : k \notin pending[q].prefixes
        BY DEF Uncommitted
      <3>3. \/ pending'[p].prefixes = {} \/ pending'[p].prefixes = pending[p].prefixes
            \/ /\ pending'[p].prefixes = pending[p].prefixes \cup {proc[p].prefix}
               /\ proc[p].at = "addKey" /\ ~Waiting(p) /\ keys[proc[p].prefix] = NoOne
        BY <1>1, OwnInsertions DEF Nothing, Insertions
      <3>4. proc[p].at = "addKey" /\ ~Waiting(p) =>
              \A q \in Process \ {p} : proc[p].prefix \notin pending[q].prefixes
        BY DEF Waiting, WaitsFor
      <3>5. CASE pending'[p].prefixes = {} \/ pending'[p].prefixes = pending[p].prefixes
        BY <3>1, <3>2, <3>5
      <3>6. CASE /\ pending'[p].prefixes = pending[p].prefixes \cup {proc[p].prefix}
                 /\ proc[p].at = "addKey" /\ ~Waiting(p) /\ keys[proc[p].prefix] = NoOne
        BY <3>1, <3>2, <3>4, <3>6
      <3>7. QED
        BY <3>3, <3>5, <3>6
    <2>3. QED
      BY <2>1, <2>2
  <1>5. \A q \in Process \ {p} : /\ \A e \in pending[q].emails : users'[e] = NoOne
                                 /\ \A k \in pending[q].prefixes : keys'[k] = NoOne
    BY <1>2, TablesGrow DEF Uncommitted
  <1>6. \A q \in Process \ {p} : pending'[q] = pending[q]
    BY OwnInsertions
  <1>7. \A q \in Process : /\ \A e \in pending'[q].emails : users'[e] = NoOne
                           /\ \A k \in pending'[q].prefixes : keys'[k] = NoOne
    BY <1>3, <1>4, <1>5, <1>6
  <1>8. \A q \in Process : \A x \in Process \ {q} :
          /\ pending'[q].emails \cap pending'[x].emails = {}
          /\ pending'[q].prefixes \cap pending'[x].prefixes = {}
    BY <1>3, <1>4, <1>6 DEF Uncommitted
  <1>9. QED
    BY <1>7, <1>8 DEF Uncommitted

-----------------------------------------------------------------------------
(* The requests of the API.                                                *)

\* Nobody waits for a request while it waits: the database never aborts one.
LEMMA CallerNotDeadlocked ==
  ASSUME NEW c \in Caller, CallerState(c)
  PROVE  ~Deadlocked(c)
  <1>1. SUFFICES ASSUME Deadlocked(c)
                 PROVE  FALSE
    OBVIOUS
  <1>2. proc[c].at \in {"addUser", "addKey"}
    BY <1>1 DEF Deadlocked, Waiting, WaitsFor
  <1>3. pending[c].emails = {} /\ pending[c].prefixes = {}
    BY <1>2 DEF CallerState, Nothing
  <1>4. PICK x \in Process : WaitsFor(x, c)
    BY <1>1 DEF Deadlocked
  <1>5. QED
    BY <1>3, <1>4 DEF WaitsFor

\* The others do not change what a request stands on.
LEMMA CallerUndisturbed ==
  ASSUME TypeInv, Uncommitted, NEW c \in Caller, CallerState(c), AnswerHolds(c),
         NEW p \in Process \ {c}, Act(p)
  PROVE  CallerState(c)' /\ AnswerHolds(c)'
  <1>1. proc'[c] = proc[c] /\ pending'[c] = pending[c]
    BY OwnInsertions DEF Process
  <1>2. c \in Process /\ c # NoOne /\ proc[c] \in Doing
    BY Kinds DEF TypeInv, TypeOK, Process
  <1>3. /\ proc[c].owner \in UserId /\ proc[c].email \in Email \cup {SystemEmail}
        /\ proc[c].prefix \in Prefix
    BY <1>2 DEF Doing
  <1>4. /\ \A o \in Process : Registered(o) => Registered(o)'
        /\ users[proc[c].email] # NoOne => users'[proc[c].email] = users[proc[c].email]
        /\ keys[proc[c].prefix] # NoOne => keys'[proc[c].prefix] = keys[proc[c].prefix]
    BY <1>3, RegisteredStays
  <1>5. Registered(proc[c].owner) => Registered(proc[c].owner)'
    BY <1>3, <1>4, <1>1 DEF UserId, Registered
  <1>6. CallerState(c)'
    BY <1>1, <1>4, <1>5 DEF CallerState, Registered
  <1>7. AnswerHolds(c)'
    BY <1>1, <1>2, <1>4, <1>5 DEF CallerState, AnswerHolds, Registered
  <1>8. QED
    BY <1>6, <1>7

LEMMA CallerStep ==
  ASSUME TypeInv, Uncommitted, NEW c \in Caller, CallerState(c), AnswerHolds(c), Act(c)
  PROVE  CallerState(c)' /\ AnswerHolds(c)'
  <1> DEFINE p == proc[c]
  <1>1. c \in Process /\ c \notin Replica /\ c # NoOne
    BY Kinds DEF Process
  <1>2. p \in Doing /\ pending[c] \in Insertions /\ DOMAIN users = Email \cup {SystemEmail}
    BY <1>1 DEF TypeInv, TypeOK
  <1>3. ASSUME NEW result \in {"conflict", "refused", "error"}, End(c, result),
               p.at \in {"getUser", "getOwner", "addUser", "addKey"},
               result \in {"conflict", "error"} =>
                 IF p.owner = NoOne THEN users[p.email] # NoOne ELSE keys[p.prefix] # NoOne
        PROVE  CallerState(c)' /\ AnswerHolds(c)'
    <2>1. /\ proc'[c] = [p EXCEPT !.at = "done", !.result = result]
          /\ pending'[c] = Nothing /\ UNCHANGED <<users, keys>>
      BY <1>1, <1>3 DEF End, Become, TypeInv, TypeOK
    <2>2. /\ proc'[c].at = "done" /\ proc'[c].result = result /\ proc'[c].owner = p.owner
          /\ proc'[c].email = p.email /\ proc'[c].prefix = p.prefix
      BY <1>2, <2>1 DEF Doing
    <2>3. QED
      BY <1>3, <2>1, <2>2 DEF CallerState, AnswerHolds
  <1>4. ASSUME NEW at \in {"addUser", "addKey"}, Goto(c, at),
               p.at = IF at = "addUser" THEN "getUser" ELSE "getOwner",
               at = "addKey" => Registered(p.owner)
        PROVE  CallerState(c)' /\ AnswerHolds(c)'
    <2>1. /\ proc'[c] = [p EXCEPT !.at = at] /\ pending'[c] = pending[c] /\ UNCHANGED <<users, keys>>
      BY <1>1, <1>4 DEF Goto, Become, TypeInv, TypeOK
    <2>2. /\ proc'[c].at = at /\ proc'[c].result = p.result /\ proc'[c].owner = p.owner
          /\ proc'[c].email = p.email /\ proc'[c].prefix = p.prefix
      BY <1>2, <2>1 DEF Doing
    <2>3. QED
      BY <1>4, <2>1, <2>2 DEF CallerState, AnswerHolds, Registered
  <1>5. CASE GetUser(c)
    BY <1>3, <1>4, <1>5 DEF GetUser, CallerState, Nothing, UserOf
  <1>6. CASE GetOwner(c)
    BY <1>3, <1>4, <1>6 DEF GetOwner, CallerState, Registered
  <1>7. CASE AddUser(c)
    <2>1. CASE users[p.email] # NoOne
      BY <1>1, <1>3, <1>7, <2>1 DEF AddUser, Raise, CallerState
    <2>2. CASE users[p.email] = NoOne
      <3>1. /\ proc'[c] = [p EXCEPT !.at = "commit", !.owner = c] /\ UNCHANGED <<users, keys>>
            /\ pending'[c] = [pending[c] EXCEPT !.emails = @ \cup {p.email}] /\ p.at = "addUser"
        BY <1>1, <1>7, <2>2 DEF AddUser, AfterInsert, Become, TypeInv, TypeOK
      <3>2. /\ proc'[c].at = "commit" /\ proc'[c].owner = c /\ proc'[c].email = p.email
            /\ proc'[c].result = "none"
        BY <1>2, <3>1 DEF Doing, CallerState
      <3>3. pending'[c] = [emails |-> {p.email}, prefixes |-> {}]
        BY <3>1 DEF CallerState, Nothing
      <3>4. QED
        BY <3>2, <3>3 DEF CallerState, AnswerHolds
    <2>3. QED
      BY <2>1, <2>2
  <1>8. CASE AddKey(c)
    <2>1. CASE keys[p.prefix] # NoOne
      BY <1>1, <1>3, <1>8, <2>1 DEF AddKey, Raise, CallerState
    <2>2. CASE keys[p.prefix] = NoOne
      <3>1. /\ proc'[c] = [p EXCEPT !.at = "commit", !.seeded = p.seeded] /\ UNCHANGED <<users, keys>>
            /\ pending'[c] = [pending[c] EXCEPT !.prefixes = @ \cup {p.prefix}] /\ p.at = "addKey"
        BY <1>1, <1>8, <2>2 DEF AddKey, AfterInsert, Become, TypeInv, TypeOK
      <3>2. /\ proc'[c].at = "commit" /\ proc'[c].owner = p.owner /\ proc'[c].prefix = p.prefix
            /\ proc'[c].result = "none"
        BY <1>2, <3>1 DEF Doing, CallerState
      <3>3. pending'[c] = [emails |-> {}, prefixes |-> {p.prefix}]
        BY <3>1 DEF CallerState, Nothing
      <3>4. Registered(p.owner) /\ p.prefix \notin BootstrapKeys
        BY <3>1 DEF CallerState
      <3>5. QED
        BY <3>1, <3>2, <3>3, <3>4 DEF CallerState, AnswerHolds, Registered
    <2>3. QED
      BY <2>1, <2>2
  <1>9. CASE Commit(c)
    <2>1. /\ proc'[c] = [p EXCEPT !.at = "done", !.result = Outcome(c)] /\ pending'[c] = Nothing
          /\ p.at = "commit"
      BY <1>1, <1>9 DEF Commit, Become, TypeInv, TypeOK
    <2>2. /\ proc'[c].at = "done" /\ proc'[c].result = Outcome(c) /\ proc'[c].owner = p.owner
          /\ proc'[c].email = p.email /\ proc'[c].prefix = p.prefix
      BY <1>2, <2>1 DEF Doing
    <2>3. p.email \in Email \cup {SystemEmail} /\ p.prefix \in Prefix /\ p.owner \in UserId
      BY <1>2 DEF Doing
    <2>4. CASE p.owner = c /\ pending[c] = [emails |-> {p.email}, prefixes |-> {}]
      <3>1. Outcome(c) = "created" /\ users'[p.email] = c
        BY <1>1, <1>9, <2>3, <2>4, TablesGrow DEF Outcome
      <3>2. QED
        BY <2>1, <2>2, <3>1 DEF CallerState, AnswerHolds
    <2>5. CASE Registered(p.owner) /\ pending[c] = [emails |-> {}, prefixes |-> {p.prefix}]
      <3>1. Outcome(c) = "issued" /\ keys'[p.prefix] = p.owner
        BY <1>1, <1>9, <2>3, <2>5, TablesGrow DEF Outcome
      <3>2. p.owner \in Process
        BY <2>3, <2>5 DEF UserId, Registered
      <3>3. p.owner # NoOne /\ \E e \in DOMAIN users' : users'[e] = p.owner
        BY <1>1, <2>5, <3>2, RegisteredStays DEF Registered
      <3>4. QED
        BY <2>1, <2>2, <3>1, <3>3 DEF CallerState, AnswerHolds
    <2>6. QED
      BY <2>1, <2>4, <2>5 DEF CallerState
  <1>10. CASE Abort(c)
    BY <1>10, CallerNotDeadlocked DEF Abort
  <1>11. CASE Stamp(c)
    <2>1. /\ proc'[c] = [p EXCEPT !.at = "done", !.result = "accepted"] /\ p.at = "stamp"
          /\ pending'[c] = pending[c] /\ UNCHANGED <<users, keys>>
      BY <1>1, <1>11 DEF Stamp, Become, TypeInv, TypeOK
    <2>2. /\ proc'[c].at = "done" /\ proc'[c].result = "accepted" /\ proc'[c].prefix = p.prefix
      BY <1>2, <2>1 DEF Doing
    <2>3. QED
      BY <2>1, <2>2 DEF CallerState, AnswerHolds
  <1>12. CASE Call(c)
    <2>1. /\ p.at = "idle" /\ pending'[c] = pending[c] /\ UNCHANGED <<users, keys>>
      BY <1>12 DEF Call, CreateUser, CreateApiKey, Authenticate
    <2>2. CASE \E e \in Email : CreateUser(c, e)
      <3>1. PICK e \in Email : proc'[c] = [p EXCEPT !.at = "getUser", !.email = e]
        BY <1>1, <2>2 DEF CreateUser, Become, TypeInv, TypeOK
      <3>2. proc'[c].at = "getUser" /\ proc'[c].owner = p.owner /\ proc'[c].result = p.result
        BY <1>2, <3>1 DEF Doing
      <3>3. QED
        BY <2>1, <3>2 DEF CallerState, AnswerHolds
    <2>3. CASE \E o \in Process, k \in Prefix \ BootstrapKeys : CreateApiKey(c, o, k)
      <3>1. PICK o \in Process, k \in Prefix \ BootstrapKeys :
              proc'[c] = [p EXCEPT !.at = "getOwner", !.owner = o, !.prefix = k]
        BY <1>1, <2>3 DEF CreateApiKey, Become, TypeInv, TypeOK
      <3>2. /\ proc'[c].at = "getOwner" /\ proc'[c].owner = o /\ proc'[c].result = p.result
            /\ proc'[c].prefix = k /\ o # NoOne
        BY <1>2, <3>1, Kinds DEF Doing
      <3>3. QED
        BY <2>1, <3>2 DEF CallerState, AnswerHolds
    <2>4. CASE \E k \in Prefix : Authenticate(c, k)
      <3>1. PICK k \in Prefix :
              proc'[c] = IF keys[k] = NoOne
                           THEN [p EXCEPT !.at = "done", !.prefix = k, !.result = "refused"]
                           ELSE [p EXCEPT !.at = "stamp", !.prefix = k]
        BY <1>1, <2>4 DEF Authenticate, Become, TypeInv, TypeOK
      <3>2. /\ proc'[c].prefix = k
            /\ IF keys[k] = NoOne THEN proc'[c].at = "done" /\ proc'[c].result = "refused"
                                  ELSE proc'[c].at = "stamp" /\ proc'[c].result = p.result
        BY <1>2, <3>1 DEF Doing
      <3>3. QED
        BY <2>1, <3>2 DEF CallerState, AnswerHolds
    <2>5. QED
      BY <1>12, <2>2, <2>3, <2>4 DEF Call
  <1>13. QED
    BY <1>1, <1>5, <1>6, <1>7, <1>8, <1>9, <1>10, <1>11, <1>12 DEF Act

-----------------------------------------------------------------------------
(* The replicas.                                                           *)

LEMMA ReplicaUndisturbed ==
  ASSUME TypeInv, Uncommitted, NEW r \in Replica, ReplicaState(r),
         NEW p \in Process \ {r}, Act(p)
  PROVE  ReplicaState(r)'
  <1>1. proc'[r] = proc[r] /\ pending'[r] = pending[r]
    BY OwnInsertions DEF Process
  <1>2. \A k \in Prefix : keys[k] # NoOne => keys'[k] # NoOne
    BY RegisteredStays
  <1>3. \A i \in 1 .. proc[r].seeded : Bootstrap[r][i] \in Prefix
    <2>1. proc[r].seeded \in Nat /\ proc[r].seeded <= Len(Bootstrap[r])
      BY DEF TypeInv, TypeOK, Doing, Process
    <2>2. QED
      BY <2>1, BootstrapType
  <1>4. QED
    BY <1>1, <1>2, <1>3 DEF ReplicaState

LEMMA ReplicaStep ==
  ASSUME TypeInv, Uncommitted, NEW r \in Replica, ReplicaState(r), Act(r)
  PROVE  ReplicaState(r)'
  <1> DEFINE p == proc[r]
  <1>1. r \in Process /\ r \notin Caller /\ r # NoOne
    BY Kinds DEF Process
  <1>2. /\ p \in Doing /\ pending[r] \in Insertions
        /\ p.seeded \in Nat /\ p.seeded <= Len(Bootstrap[r]) /\ Len(Bootstrap[r]) \in Nat
    BY <1>1, BootstrapType DEF TypeInv, TypeOK, Doing
  <1>3. ASSUME End(r, "skipped")
        PROVE  ReplicaState(r)'
    <2>1. /\ proc'[r] = [p EXCEPT !.at = "done", !.result = "skipped"] /\ pending'[r] = Nothing
      BY <1>1, <1>3 DEF End, Become, TypeInv, TypeOK
    <2>2. proc'[r].at = "done" /\ proc'[r].email = p.email
      BY <1>2, <2>1 DEF Doing
    <2>3. QED
      BY <2>1, <2>2 DEF ReplicaState, Nothing
  <1>4. CASE Seed(r)
    <2>1. /\ proc'[r] = [p EXCEPT !.at = "getUser"] /\ pending'[r] = pending[r] /\ p.at = "idle"
      BY <1>1, <1>4 DEF Seed, Goto, Become, TypeInv, TypeOK
    <2>2. /\ proc'[r].at = "getUser" /\ proc'[r].email = p.email /\ proc'[r].seeded = p.seeded
          /\ proc'[r].result = p.result
      BY <1>2, <2>1 DEF Doing
    <2>3. QED
      BY <2>1, <2>2 DEF ReplicaState
  <1>5. CASE SeedUser(r)
    <2> DEFINE user == UserOf(r, SystemEmail)
               at == IF user = NoOne THEN "addUser" ELSE "nextKey"
    <2>1. /\ proc'[r] = [p EXCEPT !.at = at, !.owner = user] /\ pending'[r] = pending[r]
          /\ p.at = "getUser"
      BY <1>1, <1>5 DEF SeedUser, Become, TypeInv, TypeOK
    <2>2. at \in {"addUser", "nextKey"} /\ (at = "nextKey" => user # NoOne)
      OBVIOUS
    <2> HIDE DEF user, at
    <2>3. /\ proc'[r].at = at /\ proc'[r].owner = user /\ proc'[r].email = p.email
          /\ proc'[r].seeded = p.seeded /\ proc'[r].result = p.result
      BY <1>2, <2>1 DEF Doing
    <2>4. 1 .. proc'[r].seeded = {} /\ pending[r] = Nothing
      BY <2>1, <2>3 DEF ReplicaState
    <2>5. QED
      BY <2>1, <2>2, <2>3, <2>4 DEF ReplicaState
  <1>6. CASE SeedKey(r)
    <2>1. CASE p.seeded = Len(Bootstrap[r])
      <3>1. /\ proc'[r] = [p EXCEPT !.at = "commit"] /\ pending'[r] = pending[r]
            /\ p.at = "nextKey" /\ keys' = keys
        BY <1>1, <1>6, <2>1 DEF SeedKey, Goto, Become, TypeInv, TypeOK
      <3>2. /\ proc'[r].at = "commit" /\ proc'[r].email = p.email /\ proc'[r].seeded = p.seeded
            /\ proc'[r].result = p.result /\ proc'[r].owner = p.owner
        BY <1>2, <3>1 DEF Doing
      <3>3. QED
        BY <2>1, <3>1, <3>2 DEF ReplicaState
    <2>2. CASE p.seeded # Len(Bootstrap[r])
      <3> DEFINE n == p.seeded + 1
                 k == Bootstrap[r][n]
      <3>1. /\ proc'[r] = IF OwnerOf(r, k) # NoOne
                            THEN [p EXCEPT !.seeded = n]
                            ELSE [p EXCEPT !.at = "addKey", !.prefix = k]
            /\ pending'[r] = pending[r] /\ p.at = "nextKey" /\ keys' = keys
        BY <1>1, <1>6, <2>2 DEF SeedKey, AfterKnown, Become, TypeInv, TypeOK
      <3>2. /\ p.email = SystemEmail /\ p.result = "none" /\ p.owner # NoOne
            /\ \A i \in 1 .. p.seeded : \/ Bootstrap[r][i] \in pending[r].prefixes
                                        \/ keys[Bootstrap[r][i]] # NoOne
            /\ pending[r].emails \subseteq {SystemEmail} /\ pending[r].prefixes \subseteq KeysOf(r)
        BY <3>1 DEF ReplicaState
      <3>3. CASE OwnerOf(r, k) # NoOne
        <4>1. k \in pending[r].prefixes \/ keys[k] # NoOne
          BY <3>3 DEF OwnerOf
        <4>2. \A i \in 1 .. n : \/ Bootstrap[r][i] \in pending[r].prefixes
                                \/ keys[Bootstrap[r][i]] # NoOne
          BY <1>2, <3>2, <4>1
        <4> HIDE DEF n, k
        <4>3. /\ proc'[r].at = "nextKey" /\ proc'[r].email = p.email /\ proc'[r].seeded = n
              /\ proc'[r].result = p.result /\ proc'[r].owner = p.owner
          BY <1>2, <3>1, <3>3 DEF Doing
        <4>4. QED
          BY <3>1, <3>2, <4>2, <4>3 DEF ReplicaState
      <3>4. CASE OwnerOf(r, k) = NoOne
        <4> HIDE DEF k
        <4>1. /\ proc'[r].at = "addKey" /\ proc'[r].email = p.email /\ proc'[r].seeded = p.seeded
              /\ proc'[r].result = p.result /\ proc'[r].owner = p.owner /\ proc'[r].prefix = k
          BY <1>2, <3>1, <3>4 DEF Doing
        <4>2. QED
          BY <3>1, <3>2, <4>1 DEF ReplicaState, k
      <3>5. QED
        BY <3>3, <3>4
    <2>3. QED
      BY <2>1, <2>2
  <1>7. CASE Crash(r)
    <2>1. proc'[r] = Idle /\ pending'[r] = Nothing
      BY <1>1, <1>7 DEF Crash, Become, TypeInv, TypeOK
    <2>2. QED
      BY <2>1 DEF ReplicaState, Nothing, Idle
  <1>8. CASE AddUser(r)
    <2>1. CASE users[p.email] # NoOne
      BY <1>3, <1>8, <2>1 DEF AddUser, Raise
    <2>2. CASE users[p.email] = NoOne
      <3>1. /\ proc'[r] = [p EXCEPT !.at = "nextKey", !.owner = r] /\ p.at = "addUser"
            /\ pending'[r] = [pending[r] EXCEPT !.emails = @ \cup {p.email}]
        BY <1>1, <1>8, <2>2 DEF AddUser, AfterInsert, Become, TypeInv, TypeOK
      <3>2. /\ proc'[r].at = "nextKey" /\ proc'[r].owner = r /\ proc'[r].email = p.email
            /\ proc'[r].result = p.result /\ proc'[r].seeded = p.seeded
        BY <1>2, <3>1 DEF Doing
      <3>3. /\ pending'[r].emails = {p.email} /\ pending'[r].prefixes = {}
            /\ 1 .. proc'[r].seeded = {}
        BY <3>1, <3>2 DEF ReplicaState, Nothing
      <3>4. QED
        BY <1>1, <3>1, <3>2, <3>3 DEF ReplicaState
    <2>3. QED
      BY <2>1, <2>2
  <1>9. CASE AddKey(r)
    <2>1. CASE keys[p.prefix] # NoOne
      BY <1>3, <1>9, <2>1 DEF AddKey, Raise
    <2>2. CASE keys[p.prefix] = NoOne
      <3> DEFINE n == p.seeded + 1
      <3>1. /\ proc'[r] = [p EXCEPT !.at = "nextKey", !.seeded = n] /\ p.at = "addKey"
            /\ pending'[r] = [pending[r] EXCEPT !.prefixes = @ \cup {p.prefix}] /\ keys' = keys
        BY <1>1, <1>9, <2>2 DEF AddKey, AfterInsert, Become, TypeInv, TypeOK
      <3>2. /\ p.email = SystemEmail /\ p.result = "none" /\ p.owner # NoOne
            /\ \A i \in 1 .. p.seeded : \/ Bootstrap[r][i] \in pending[r].prefixes
                                        \/ keys[Bootstrap[r][i]] # NoOne
            /\ pending[r].emails \subseteq {SystemEmail} /\ pending[r].prefixes \subseteq KeysOf(r)
            /\ p.prefix = Bootstrap[r][n]
        BY <3>1 DEF ReplicaState
      <3>3. p.prefix \in KeysOf(r)
        <4>1. n \in 1 .. Len(Bootstrap[r])
          BY <1>2, <3>1 DEF TypeInv
        <4>2. QED
          BY <3>2, <4>1, BootstrapType DEF KeysOf
      <3>4. /\ pending'[r].emails = pending[r].emails
            /\ pending'[r].prefixes = pending[r].prefixes \cup {p.prefix}
        BY <1>2, <3>1 DEF Insertions
      <3>5. \A i \in 1 .. n : \/ Bootstrap[r][i] \in pending'[r].prefixes
                              \/ keys[Bootstrap[r][i]] # NoOne
        BY <1>2, <3>2, <3>4
      <3> HIDE DEF n
      <3>6. /\ proc'[r].at = "nextKey" /\ proc'[r].email = p.email /\ proc'[r].seeded = n
            /\ proc'[r].result = p.result /\ proc'[r].owner = p.owner
        BY <1>2, <3>1 DEF Doing
      <3>7. QED
        BY <3>1, <3>2, <3>3, <3>4, <3>5, <3>6 DEF ReplicaState
    <2>3. QED
      BY <2>1, <2>2
  <1>10. CASE Commit(r)
    <2>1. proc'[r] = [p EXCEPT !.at = "done", !.result = Outcome(r)] /\ pending'[r] = Nothing
      BY <1>1, <1>10 DEF Commit, Become, TypeInv, TypeOK
    <2>2. proc'[r].at = "done" /\ proc'[r].email = p.email
      BY <1>2, <2>1 DEF Doing
    <2>3. QED
      BY <2>1, <2>2 DEF ReplicaState, Nothing
  <1>11. CASE Abort(r)
    BY <1>3, <1>11 DEF Abort, Raise
  <1>12. QED
    BY <1>1, <1>4, <1>5, <1>6, <1>7, <1>8, <1>9, <1>10, <1>11 DEF Act

-----------------------------------------------------------------------------
(* Seeding.                                                                *)

LEMMA ConfiguredKeys ==
  /\ \A r \in Replica : KeysOf(r) \subseteq Prefix /\ KeysOf(r) \subseteq BootstrapKeys
  /\ BootstrapKeys \subseteq Prefix
  BY BootstrapType DEF KeysOf, BootstrapKeys

\* A replica that commits leaves every key of its configuration.
LEMMA CommitCompletes ==
  ASSUME TypeInv, Uncommitted, NEW r \in Replica, ReplicaState(r), Commit(r)
  PROVE  Complete(r)'
  <1>1. r \in Process /\ Act(r)
    BY DEF Process, Act
  <1>2. proc[r].at = "commit"
    BY DEF Commit
  <1>3. /\ proc[r].seeded = Len(Bootstrap[r]) /\ proc[r].owner # NoOne
        /\ \A i \in 1 .. Len(Bootstrap[r]) : \/ Bootstrap[r][i] \in pending[r].prefixes
                                             \/ keys[Bootstrap[r][i]] # NoOne
    BY <1>2 DEF ReplicaState
  <1>4. \A k \in KeysOf(r) : k \in Prefix /\ (k \in pending[r].prefixes \/ keys[k] # NoOne)
    BY <1>3, BootstrapType DEF KeysOf
  <1>5. \A k \in KeysOf(r) : keys'[k] # NoOne
    BY <1>1, <1>3, <1>4, TablesGrow
  <1>6. QED
    BY <1>5 DEF Complete

\* A key that was not there before was committed by a replica of whose
\* configuration it is, or is in none.
LEMMA NewKeys ==
  ASSUME TypeInv, Uncommitted, NEW p \in Process, Act(p), NEW k \in BootstrapKeys,
         keys[k] = NoOne, keys'[k] # NoOne,
         \A c \in Caller : CallerState(c), \A r \in Replica : ReplicaState(r)
  PROVE  p \in Replica /\ k \in KeysOf(p) /\ Complete(p)'
  <1>1. Commit(p) /\ k \in pending[p].prefixes
    BY ConfiguredKeys, TablesGrow
  <1>2. p \notin Caller
    <2>1. SUFFICES ASSUME p \in Caller
                   PROVE  FALSE
      OBVIOUS
    <2>2. proc[p].at = "commit"
      BY <1>1 DEF Commit
    <2>3. \/ pending[p].prefixes = {}
          \/ pending[p].prefixes = {proc[p].prefix} /\ proc[p].prefix \notin BootstrapKeys
      <3>1. CallerState(p)
        BY <2>1
      <3>2. QED
        BY <2>2, <3>1 DEF CallerState
    <2>4. QED
      BY <1>1, <2>3
  <1>3. p \in Replica
    BY <1>2 DEF Process
  <1>4. QED
    BY <1>1, <1>3, CommitCompletes DEF ReplicaState

\* Up to its commit a replica that is not refused neither ends nor has a result.
LEMMA SeedMoves ==
  ASSUME TypeInv, NEW r \in Replica,
         \/ SeedUser(r) \/ SeedKey(r)
         \/ AddUser(r) /\ users[proc[r].email] = NoOne
         \/ AddKey(r) /\ keys[proc[r].prefix] = NoOne
  PROVE  proc'[r].at # "done" /\ proc'[r].result = proc[r].result
  <1> DEFINE Moves(d) == d.at # "done" /\ d.result = proc[r].result
  <1>1. r \in Process /\ proc \in [Process -> Doing] /\ proc[r] \in Doing
    BY DEF TypeInv, TypeOK, Process
  <1>2. ASSUME NEW d, Become(r, d), Moves(d)
        PROVE  Moves(proc'[r])
    <2>1. proc'[r] = d
      BY <1>1, <1>2 DEF Become
    <2>2. QED
      BY <1>2, <2>1
  <1>3. CASE SeedUser(r)
    <2> DEFINE at == IF UserOf(r, SystemEmail) = NoOne THEN "addUser" ELSE "nextKey"
               d == [proc[r] EXCEPT !.at = at, !.owner = UserOf(r, SystemEmail)]
    <2>1. Become(r, d)
      BY <1>3 DEF SeedUser
    <2>2. at # "done"
      OBVIOUS
    <2> HIDE DEF at
    <2>3. Moves(d)
      BY <1>1, <2>2 DEF Doing
    <2>4. QED
      BY <1>2, <2>1, <2>3
  <1>4. CASE SeedKey(r)
    <2> DEFINE k == Bootstrap[r][proc[r].seeded + 1]
               a == [proc[r] EXCEPT !.at = "commit"]
               b == [proc[r] EXCEPT !.seeded = AfterKnown(r)]
               c == [proc[r] EXCEPT !.at = "addKey", !.prefix = k]
    <2>1. Become(r, a) \/ Become(r, b) \/ Become(r, c)
      BY <1>4 DEF SeedKey, Goto
    <2>2. proc[r].at = "nextKey"
      BY <1>4 DEF SeedKey
    <2>3. Moves(a)
      BY <1>1 DEF Doing
    <2>4. Moves(b)
      BY <1>1, <2>2 DEF Doing
    <2>5. Moves(c)
      BY <1>1 DEF Doing
    <2> HIDE DEF a, b, c
    <2>6. QED
      BY <1>2, <2>1, <2>3, <2>4, <2>5
  <1>5. CASE AddUser(r) /\ users[proc[r].email] = NoOne
    <2> DEFINE d == [proc[r] EXCEPT !.at = "nextKey", !.owner = r]
    <2>1. Become(r, d)
      BY <1>5 DEF AddUser, AfterInsert
    <2>2. Moves(d)
      BY <1>1 DEF Doing
    <2>3. QED
      BY <1>2, <2>1, <2>2
  <1>6. CASE AddKey(r) /\ keys[proc[r].prefix] = NoOne
    <2> DEFINE d == [proc[r] EXCEPT !.at = "nextKey", !.seeded = proc[r].seeded + 1]
    <2>1. Become(r, d)
      BY <1>6 DEF AddKey, AfterInsert
    <2>2. Moves(d)
      BY <1>1 DEF Doing
    <2>3. QED
      BY <1>2, <2>1, <2>2
  <1>7. QED
    BY <1>3, <1>4, <1>5, <1>6

LEMMA SeedIsWholeStep ==
  ASSUME TypeInv, Uncommitted, NEW p \in Process, Act(p), SeedIsWhole,
         \A c \in Caller : CallerState(c), \A r \in Replica : ReplicaState(r)
  PROVE  SeedIsWhole'
  <1>1. ASSUME NEW k \in BootstrapKeys, keys'[k] # NoOne
        PROVE  \E r \in Replica : k \in KeysOf(r) /\ Complete(r)'
    <2>1. CASE keys[k] = NoOne
      BY <1>1, <2>1, NewKeys
    <2>2. CASE keys[k] # NoOne
      BY <2>2, RegisteredStays DEF SeedIsWhole
    <2>3. QED
      BY <2>1, <2>2
  <1>2. ASSUME NEW r \in Replica, proc'[r].result = "seeded"
        PROVE  Complete(r)'
    <2>1. CASE proc[r].result = "seeded"
      BY <2>1, RegisteredStays DEF SeedIsWhole
    <2>2. CASE proc[r].result # "seeded"
      <3>1. r = p
        BY <1>2, <2>2, OwnInsertions DEF Process
      <3>2. Commit(r)
        <4>1. r \notin Caller /\ proc[r] \in Doing /\ Idle.result = "none" /\ r \in Process
              /\ proc \in [Process -> Doing]
          BY Kinds DEF TypeInv, TypeOK, Process, Idle
        <4>2. SUFFICES ASSUME ~Commit(r)
                       PROVE  proc'[r].result # "seeded"
          BY <1>2
        <4>3. \/ proc'[r] = Idle
              \/ \E at \in Step : proc'[r] = [proc[r] EXCEPT !.at = at]
              \/ proc'[r] = [proc[r] EXCEPT !.at = "done", !.result = "skipped"]
              \/ SeedUser(r) \/ SeedKey(r)
              \/ AddUser(r) /\ users[proc[r].email] = NoOne
              \/ AddKey(r) /\ keys[proc[r].prefix] = NoOne
          BY <3>1, <4>1, <4>2 DEF Act, Seed, Crash, AddUser, AddKey, Abort, Raise, End, Goto,
                                  Become, Step
        <4>4. CASE proc'[r] = Idle \/ proc'[r] = [proc[r] EXCEPT !.at = "done", !.result = "skipped"]
          BY <4>1, <4>4 DEF Doing
        <4>5. CASE \E at \in Step : proc'[r] = [proc[r] EXCEPT !.at = at]
          BY <4>1, <4>5, <2>2 DEF Doing
        <4>6. QED
          BY <4>3, <4>4, <4>5, <2>2, SeedMoves
      <3>3. QED
        BY <3>2, CommitCompletes
    <2>3. QED
      BY <2>1, <2>2
  <1>3. QED
    BY <1>1, <1>2 DEF SeedIsWhole

\* A replica that is aborted waited in a circle, where another one waits.
LEMMA DeadlockedReplica ==
  ASSUME NEW r \in Replica, Deadlocked(r), \A c \in Caller : CallerState(c)
  PROVE  \E x \in Replica \ {r} : proc[x].at \in {"addUser", "addKey"}
  <1>1. PICK circle \in SUBSET Process :
          /\ r \in circle
          /\ \A q \in circle : /\ \E x \in circle : WaitsFor(q, x)
                              /\ \E x \in circle : WaitsFor(x, q)
    BY DEF Deadlocked
  <1>2. PICK x \in circle : WaitsFor(x, r)
    BY <1>1
  <1>3. x # r /\ proc[x].at \in {"addUser", "addKey"} /\ x \in Process
    BY <1>1, <1>2 DEF WaitsFor
  <1>4. x \notin Caller
    <2>1. PICK y \in circle : WaitsFor(y, x)
      BY <1>1
    <2>2. pending[x].emails # {} \/ pending[x].prefixes # {}
      BY <2>1 DEF WaitsFor
    <2>3. SUFFICES ASSUME CallerState(x)
                   PROVE  FALSE
      OBVIOUS
    <2>4. pending[x] = Nothing
      BY <1>3, <2>3 DEF CallerState
    <2>5. QED
      BY <2>2, <2>4 DEF Nothing
  <1>5. QED
    BY <1>3, <1>4 DEF Process

LEMMA SeedArrivesStep ==
  ASSUME TypeInv, Uncommitted, NEW p \in Process, Act(p), SeedIsWhole, SeedArrives,
         \A c \in Caller : CallerState(c), \A r \in Replica : ReplicaState(r)
  PROVE  SeedArrives'
  <1> DEFINE Some == \E r \in Replica : Complete(r)
  <1>1. Some => Some'
    BY RegisteredStays
  <1>2. users[SystemEmail] # NoOne => users'[SystemEmail] = users[SystemEmail]
    BY RegisteredStays
  <1>3. ASSUME users'[SystemEmail] \in Replica
        PROVE  Some'
    <2>1. CASE users[SystemEmail] \in Replica
      BY <1>1, <2>1 DEF SeedArrives
    <2>2. CASE users[SystemEmail] \notin Replica
      <3>1. Commit(p) /\ users'[SystemEmail] = p
        BY <1>3, <2>2, TablesGrow
      <3>2. QED
        BY <1>3, <3>1, CommitCompletes
    <2>3. QED
      BY <2>1, <2>2
  <1>4. ASSUME \A r \in Replica : proc'[r].at = "done"
        PROVE  Some' \/ users'[SystemEmail] \in Caller
    <2>1. CASE \A r \in Replica : proc[r].at = "done"
      <3>1. Some \/ users[SystemEmail] \in Caller
        BY <2>1 DEF SeedArrives
      <3>2. users[SystemEmail] \in Caller => users[SystemEmail] # NoOne
        BY Kinds DEF Process
      <3> HIDE DEF Some
      <3>3. QED
        BY <1>1, <1>2, <3>1, <3>2
    <2>2. CASE ~ \A r \in Replica : proc[r].at = "done"
      <3>1. /\ p \in Replica /\ proc[p].at # "done" /\ p \notin Caller
            /\ \A r \in Replica \ {p} : proc[r].at = "done"
            /\ proc'[p].at = "done"
        <4>1. PICK r \in Replica : proc[r].at # "done"
          BY <2>2
        <4>2. proc'[r].at = "done" /\ r \in Process
          BY <1>4 DEF Process
        <4>3. \A q \in Process : q # p => proc'[q] = proc[q]
          BY OwnInsertions
        <4>4. r = p
          BY <4>1, <4>2, <4>3
        <4>5. \A q \in Replica \ {p} : proc[q].at = "done"
          BY <1>4, <4>3 DEF Process
        <4>6. QED
          BY <4>1, <4>2, <4>4, <4>5, Kinds
      <3>2. proc \in [Process -> Doing] /\ proc[p] \in Doing /\ proc[p].email \in Email \cup {SystemEmail}
        BY DEF TypeInv, TypeOK, Doing
      <3>3. CASE Commit(p)
        BY <3>1, <3>3, CommitCompletes
      <3>4. CASE Abort(p)
        BY <3>1, <3>4, DeadlockedReplica DEF Abort
      <3>5. CASE AddUser(p) /\ users[proc[p].email] # NoOne
        <4>1. users[SystemEmail] \in UserId /\ users[SystemEmail] # NoOne
          BY <3>1, <3>5 DEF TypeInv, TypeOK, ReplicaState
        <4>2. QED
          BY <1>1, <1>2, <4>1 DEF SeedArrives, UserId, Process
      <3>6. CASE AddKey(p) /\ keys[proc[p].prefix] # NoOne
        <4>1. proc[p].prefix \in KeysOf(p)
          <5>1. proc[p].at = "addKey" /\ proc[p].seeded \in Nat
            BY <3>2, <3>6 DEF AddKey, Doing
          <5>2. proc[p].seeded < Len(Bootstrap[p]) /\ proc[p].prefix = Bootstrap[p][proc[p].seeded + 1]
            BY <3>1, <5>1 DEF TypeInv, ReplicaState
          <5>3. proc[p].seeded + 1 \in 1 .. Len(Bootstrap[p])
            BY <3>1, <5>1, <5>2, BootstrapType
          <5>4. QED
            BY <3>1, <5>2, <5>3, BootstrapType DEF KeysOf
        <4>2. Some
          BY <3>1, <3>6, <4>1, ConfiguredKeys DEF SeedIsWhole
        <4>3. QED
          BY <1>1, <4>2
      <3>7. CASE Seed(p) \/ Crash(p)
        <4> DEFINE d == [proc[p] EXCEPT !.at = "getUser"]
        <4>1. proc'[p] = d \/ proc'[p] = Idle
          BY <3>2, <3>7 DEF Seed, Crash, Goto, Become
        <4>2. d.at # "done" /\ Idle.at # "done"
          BY <3>2 DEF Doing, Idle
        <4>3. QED
          BY <3>1, <4>1, <4>2
      <3>8. CASE \/ SeedUser(p) \/ SeedKey(p)
                 \/ AddUser(p) /\ users[proc[p].email] = NoOne
                 \/ AddKey(p) /\ keys[proc[p].prefix] = NoOne
        BY <3>1, <3>8, SeedMoves
      <3>9. QED
        BY <3>1, <3>3, <3>4, <3>5, <3>6, <3>7, <3>8 DEF Act
    <2>3. QED
      BY <2>1, <2>2
  <1>5. QED
    BY <1>3, <1>4 DEF SeedArrives

-----------------------------------------------------------------------------
(* The theorems.                                                           *)

LEMMA InitIInv ==
  ASSUME Init
  PROVE  IInv
  <1>1. TypeInv
    BY InitTypeInv
  <1>2. Uncommitted
    BY DEF Init, Uncommitted, Nothing
  <1>3. \A c \in Caller : CallerState(c) /\ AnswerHolds(c)
    BY DEF Init, CallerState, AnswerHolds, Idle, Process
  <1>4. \A r \in Replica : ReplicaState(r)
    BY DEF Init, ReplicaState, Idle, Nothing, Process
  <1>5. SeedIsWhole
    <2>1. \A k \in BootstrapKeys : keys[k] = NoOne
      BY ConfiguredKeys DEF Init
    <2>2. \A r \in Replica : proc[r].result = "none"
      BY DEF Init, Idle, Process
    <2>3. QED
      BY <2>1, <2>2 DEF SeedIsWhole
  <1>6. SeedArrives
    <2>1. users[SystemEmail] \notin Replica
      BY Kinds DEF Init, Process
    <2>2. \E r \in Replica : proc[r].at # "done"
      BY AccountsAssumption DEF Init, Idle, Process
    <2>3. QED
      BY <2>1, <2>2 DEF SeedArrives
  <1>7. QED
    BY <1>1, <1>2, <1>3, <1>4, <1>5, <1>6 DEF IInv

LEMMA StepIInv ==
  ASSUME IInv, [Next]_vars
  PROVE  IInv'
  <1>1. CASE UNCHANGED vars
    <2>1. UNCHANGED users /\ UNCHANGED keys /\ UNCHANGED proc /\ UNCHANGED pending
      BY <1>1 DEF vars
    <2>2. TypeInv'
      BY TypeStep DEF IInv
    <2>3. Uncommitted'
      BY <2>1 DEF IInv, Uncommitted
    <2>4. \A c \in Caller : CallerState(c)' /\ AnswerHolds(c)'
      BY <2>1 DEF IInv, CallerState, AnswerHolds, Registered
    <2>5. \A r \in Replica : ReplicaState(r)'
      BY <2>1 DEF IInv, ReplicaState
    <2>6. SeedIsWhole' /\ SeedArrives'
      BY <2>1 DEF IInv, SeedIsWhole, SeedArrives, Complete
    <2>7. QED
      BY <2>2, <2>3, <2>4, <2>5, <2>6 DEF IInv
  <1>2. CASE Next
    <2>1. PICK p \in Process : Act(p)
      BY <1>2, NextActs
    <2>2. TypeInv'
      BY TypeStep DEF IInv
    <2>3. Uncommitted'
      BY <2>1, UncommittedStep DEF IInv
    <2>4. \A c \in Caller : CallerState(c)' /\ AnswerHolds(c)'
      BY <2>1, CallerStep, CallerUndisturbed DEF IInv
    <2>5. \A r \in Replica : ReplicaState(r)'
      BY <2>1, ReplicaStep, ReplicaUndisturbed DEF IInv
    <2>6. SeedIsWhole'
      BY <2>1, SeedIsWholeStep DEF IInv
    <2>7. SeedArrives'
      BY <2>1, SeedArrivesStep DEF IInv
    <2>8. QED
      BY <2>2, <2>3, <2>4, <2>5, <2>6, <2>7 DEF IInv
  <1>3. QED
    BY <1>1, <1>2

LEMMA IInvHolds == Spec => []IInv
  BY InitIInv, StepIInv, PTL DEF Spec

\* What create_user, create_api_key and authenticate_api_key answered stays
\* true, whoever else inserts, commits or is rolled back.
THEOREM AnswersStayTrue == Spec => []AnswersHold
  <1>1. IInv => AnswersHold
    BY DEF IInv, AnswersHold
  <1>2. QED
    BY <1>1, IInvHolds, PTL

\* seed_bootstrap leaves the keys of a configuration together or not at all,
\* whichever replica is lost, aborted or beaten to a key.
THEOREM SeedingIsAtomic == Spec => []SeedIsWhole
  <1>1. IInv => SeedIsWhole
    BY DEF IInv
  <1>2. QED
    BY <1>1, IInvHolds, PTL

\* However the replicas that start together collide, the last one to come up
\* leaves the keys that all of them are configured with, or found that a caller
\* has taken the email of the system user.
THEOREM SeedingArrives == Spec => []CommonKeysArrive
  <1>1. IInv => CommonKeysArrive
    BY DEF IInv, SeedArrives, CommonKeysArrive, Complete
  <1>2. QED
    BY <1>1, IInvHolds, PTL

=============================================================================
