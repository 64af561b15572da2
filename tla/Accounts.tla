------------------------------- MODULE Accounts -------------------------------
(***************************************************************************)
(* Users and API keys: AuthService.create_user and create_api_key,         *)
(* Authenticator.authenticate_api_key, and seed_bootstrap, which every     *)
(* replica of the API runs when it starts.  Each of them is one unit of    *)
(* work on tables whose emails and key prefixes are unique.                *)
(*                                                                         *)
(* The database is PostgreSQL at its default isolation: a statement sees   *)
(* what is committed and what its own transaction has written; inserting a *)
(* value that another transaction has inserted but not committed waits for *)
(* that one to end; and of transactions that wait for one another the      *)
(* database aborts one.                                                    *)
(***************************************************************************)
EXTENDS Integers, Sequences

CONSTANTS Replica,      \* processes that seed
          Caller,       \* requests of the API
          Email,        \* what callers ask a user for
          SystemEmail,  \* SYSTEM_USER_EMAIL
          Prefix,       \* key prefixes
          Bootstrap,    \* Bootstrap[r]: prefixes of bootstrap_api_keys, as r is configured
          NoOne,        \* no user
          MaxCrashes    \* bound: replicas lost or restarted

Process == Replica \cup Caller

ASSUME AccountsAssumption ==
  /\ Replica # {} /\ Replica \cap Caller = {}
  /\ Prefix # {}
  /\ Bootstrap \in [Replica -> Seq(Prefix)]
  /\ NoOne \notin Process
  /\ MaxCrashes \in Nat

VARIABLES users,    \* users[e]: who is registered under email e
          keys,     \* keys[k]: the owner of the key with prefix k
          used,     \* keys that have a last_used_at
          proc,     \* what each process is doing
          pending,  \* what its transaction has inserted
          crashes

vars == <<users, keys, used, proc, pending, crashes>>

\* The id of a user is the process that created it.
UserId == Process \cup {NoOne}

Nothing == [emails |-> {}, prefixes |-> {}]

Step == {"idle", "getUser", "addUser", "nextKey", "getOwner", "addKey", "stamp", "commit", "done"}

Result == {"none", "created", "conflict", "issued", "refused", "error",
           "accepted", "seeded", "skipped"}

Doing == [ at : Step, email : Email \cup {SystemEmail}, prefix : Prefix,
           owner : UserId, seeded : Nat, result : Result ]

Insertions == [ emails : SUBSET (Email \cup {SystemEmail}), prefixes : SUBSET Prefix ]

TypeOK ==
  /\ users \in [Email \cup {SystemEmail} -> UserId]
  /\ keys \in [Prefix -> UserId]
  /\ used \subseteq Prefix
  /\ proc \in [Process -> Doing]
  /\ pending \in [Process -> Insertions]
  /\ \A r \in Replica : proc[r].seeded <= Len(Bootstrap[r])
  /\ crashes \in 0 .. MaxCrashes

Idle == [ at |-> "idle", email |-> SystemEmail, prefix |-> CHOOSE k \in Prefix : TRUE,
          owner |-> NoOne, seeded |-> 0, result |-> "none" ]

Init ==
  /\ users = [e \in Email \cup {SystemEmail} |-> NoOne]
  /\ keys = [k \in Prefix |-> NoOne]
  /\ used = {}
  /\ proc = [p \in Process |-> Idle]
  /\ pending = [p \in Process |-> Nothing]
  /\ crashes = 0

-----------------------------------------------------------------------------
(* The database.                                                           *)

\* What process p reads.
UserOf(p, e) == IF e \in pending[p].emails THEN p ELSE users[e]

OwnerOf(p, k) == IF k \in pending[p].prefixes THEN proc[p].owner ELSE keys[k]

\* p is held up by an insertion of q.
WaitsFor(p, q) ==
  /\ p # q
  /\ \/ proc[p].at = "addUser" /\ proc[p].email \in pending[q].emails
     \/ proc[p].at = "addKey" /\ proc[p].prefix \in pending[q].prefixes

Waiting(p) == \E q \in Process : WaitsFor(p, q)

\* p waits in a circle of transactions (nobody waits for two of them).
Deadlocked(p) ==
  /\ Waiting(p)
  /\ \E circle \in SUBSET Process :
       /\ p \in circle
       /\ \A q \in circle : /\ \E x \in circle : WaitsFor(q, x)
                           /\ \E x \in circle : WaitsFor(x, q)

Become(p, doing) == proc' = [proc EXCEPT ![p] = doing]

End(p, result) ==
  /\ Become(p, [proc[p] EXCEPT !.at = "done", !.result = result])
  /\ pending' = [pending EXCEPT ![p] = Nothing]
  /\ UNCHANGED <<users, keys, used, crashes>>

\* Mutant: the session is not rolled back.
RaiseOpen(p) ==
  /\ Become(p, [proc[p] EXCEPT !.at = "done", !.result = "error"])
  /\ UNCHANGED <<users, keys, used, pending, crashes>>

\* The unit of work is left by an exception of the database, which rolls it
\* back: an internal error for a caller, a warning for a replica that starts.
Raise(p) == End(p, IF p \in Replica THEN "skipped" ELSE "error")

Goto(p, at) ==
  /\ Become(p, [proc[p] EXCEPT !.at = at])
  /\ UNCHANGED <<users, keys, used, pending, crashes>>

\* A replica goes on to the next key, a request of the API to its commit.
AfterInsert(p) == IF p \in Replica THEN "nextKey" ELSE "commit"

\* Mutant: emails are not unique in the table, as create_user looks for them.
AddUserTwice(p) ==
  /\ proc[p].at = "addUser" /\ ~Waiting(p)
  /\ pending' = [pending EXCEPT ![p].emails = @ \cup {proc[p].email}]
  /\ Become(p, [proc[p] EXCEPT !.at = AfterInsert(p), !.owner = p])
  /\ UNCHANGED <<users, keys, used, crashes>>

AddUser(p) ==
  /\ proc[p].at = "addUser" /\ ~Waiting(p)
  /\ IF users[proc[p].email] # NoOne
       THEN Raise(p)
       ELSE /\ pending' = [pending EXCEPT ![p].emails = @ \cup {proc[p].email}]
            /\ Become(p, [proc[p] EXCEPT !.at = AfterInsert(p), !.owner = p])
            /\ UNCHANGED <<users, keys, used, crashes>>

AddKey(p) ==
  /\ proc[p].at = "addKey" /\ ~Waiting(p)
  /\ IF keys[proc[p].prefix] # NoOne
       THEN Raise(p)
       ELSE /\ pending' = [pending EXCEPT ![p].prefixes = @ \cup {proc[p].prefix}]
            /\ Become(p, [proc[p] EXCEPT !.at = AfterInsert(p),
                                         !.seeded = IF p \in Replica THEN @ + 1 ELSE @])
            /\ UNCHANGED <<users, keys, used, crashes>>

Outcome(p) ==
  IF p \in Replica THEN "seeded" ELSE IF pending[p].emails # {} THEN "created" ELSE "issued"

\* Mutant: the unit of work is left without a commit.
CommitForgotten(p) == proc[p].at = "commit" /\ End(p, Outcome(p))

Commit(p) ==
  /\ proc[p].at = "commit"
  /\ users' = [e \in DOMAIN users |-> UserOf(p, e)]
  /\ keys' = [k \in Prefix |-> OwnerOf(p, k)]
  /\ Become(p, [proc[p] EXCEPT !.at = "done", !.result = Outcome(p)])
  /\ pending' = [pending EXCEPT ![p] = Nothing]
  /\ UNCHANGED <<used, crashes>>

\* The database ends a deadlock by aborting one of the transactions in it.
Abort(p) == Deadlocked(p) /\ Raise(p)

-----------------------------------------------------------------------------
(* seed_bootstrap                                                          *)

Seed(r) == proc[r].at = "idle" /\ Goto(r, "getUser")

SeedUser(r) ==
  /\ proc[r].at = "getUser"
  /\ LET user == UserOf(r, SystemEmail)
     IN  Become(r, [proc[r] EXCEPT !.at = IF user = NoOne THEN "addUser" ELSE "nextKey",
                                   !.owner = user])
  /\ UNCHANGED <<users, keys, used, pending, crashes>>

\* Mutant: a key that is there hides the one behind it.
AfterKnownTwo(r) == proc[r].seeded + 2

\* The keys that are there already are passed over.
AfterKnown(r) == proc[r].seeded + 1

\* Mutant: a commit after every key.
SeedKeyCommits(r) ==
  /\ proc[r].at = "nextKey"
  /\ IF proc[r].seeded = Len(Bootstrap[r])
       THEN Goto(r, "commit")
       ELSE LET k == Bootstrap[r][proc[r].seeded + 1]
            IN  /\ Become(r, IF OwnerOf(r, k) # NoOne
                                THEN [proc[r] EXCEPT !.seeded = AfterKnown(r)]
                                ELSE [proc[r] EXCEPT !.at = "addKey", !.prefix = k])
                /\ users' = [e \in DOMAIN users |-> UserOf(r, e)]
                /\ keys' = [p \in Prefix |-> OwnerOf(r, p)]
                /\ pending' = [pending EXCEPT ![r] = Nothing]
                /\ UNCHANGED <<used, crashes>>

SeedKey(r) ==
  /\ proc[r].at = "nextKey"
  /\ IF proc[r].seeded = Len(Bootstrap[r])
       THEN Goto(r, "commit")
       ELSE LET k == Bootstrap[r][proc[r].seeded + 1]
            IN  /\ Become(r, IF OwnerOf(r, k) # NoOne
                                THEN [proc[r] EXCEPT !.seeded = AfterKnown(r)]
                                ELSE [proc[r] EXCEPT !.at = "addKey", !.prefix = k])
                /\ UNCHANGED <<users, keys, used, pending, crashes>>

-----------------------------------------------------------------------------
(* The calls.                                                              *)

CreateUser(c, e) ==
  /\ proc[c].at = "idle"
  /\ Become(c, [proc[c] EXCEPT !.at = "getUser", !.email = e])
  /\ UNCHANGED <<users, keys, used, pending, crashes>>

GetUser(c) ==
  /\ proc[c].at = "getUser"
  /\ IF UserOf(c, proc[c].email) # NoOne THEN End(c, "conflict") ELSE Goto(c, "addUser")

KeysOf(r) == {Bootstrap[r][i] : i \in DOMAIN Bootstrap[r]}

BootstrapKeys == UNION {KeysOf(r) : r \in Replica}

\* The prefix of the new key is random, and is taken not to be one of those in
\* the configuration; the owner is the caller.
CreateApiKey(c, owner, k) ==
  /\ proc[c].at = "idle"
  /\ Become(c, [proc[c] EXCEPT !.at = "getOwner", !.owner = owner, !.prefix = k])
  /\ UNCHANGED <<users, keys, used, pending, crashes>>

GetOwner(c) ==
  /\ proc[c].at = "getOwner"
  /\ IF \E e \in DOMAIN users : users[e] = proc[c].owner
       THEN Goto(c, "addKey") ELSE End(c, "refused")

\* The lookup of authenticate_api_key, which is refused without the key.
Authenticate(c, k) ==
  /\ proc[c].at = "idle"
  /\ Become(c, IF keys[k] = NoOne
                  THEN [proc[c] EXCEPT !.at = "done", !.prefix = k, !.result = "refused"]
                  ELSE [proc[c] EXCEPT !.at = "stamp", !.prefix = k])
  /\ UNCHANGED <<users, keys, used, pending, crashes>>

\* The update of last_used_at, and its commit.
Stamp(c) ==
  /\ proc[c].at = "stamp"
  /\ used' = used \cup {proc[c].prefix}
  /\ Become(c, [proc[c] EXCEPT !.at = "done", !.result = "accepted"])
  /\ UNCHANGED <<users, keys, pending, crashes>>

\* A replica is lost, or stopped, and starts again; the database rolls its
\* transaction back.
Crash(r) ==
  /\ proc[r].at # "idle" /\ crashes < MaxCrashes
  /\ Become(r, Idle)
  /\ pending' = [pending EXCEPT ![r] = Nothing]
  /\ crashes' = crashes + 1
  /\ UNCHANGED <<users, keys, used>>

Insert(p) == AddUser(p) \/ AddKey(p) \/ Commit(p) \/ Abort(p)

SeedStep(r) == Seed(r) \/ SeedUser(r) \/ SeedKey(r) \/ Insert(r)

Call(c) ==
  \/ \E e \in Email : CreateUser(c, e)
  \/ \E o \in Process, k \in Prefix \ BootstrapKeys : CreateApiKey(c, o, k)
  \/ \E k \in Prefix : Authenticate(c, k)

CallStep(c) == GetUser(c) \/ GetOwner(c) \/ Stamp(c) \/ Insert(c)

Next == \/ \E r \in Replica : SeedStep(r) \/ Crash(r)
        \/ \E c \in Caller : Call(c) \/ CallStep(c)

Spec == Init /\ [][Next]_vars

\* A process that has begun goes on, and a replica that starts seeds.
FairSpec ==
  /\ Spec
  /\ \A r \in Replica : WF_vars(SeedStep(r))
  /\ \A c \in Caller : WF_vars(CallStep(c))

-----------------------------------------------------------------------------
AnswerHolds(c) ==
  LET p == proc[c]
  IN  /\ p.result = "created" => users[p.email] = c
      /\ p.result = "issued" =>
           keys[p.prefix] = p.owner /\ \E e \in DOMAIN users : users[e] = p.owner
      /\ p.result = "accepted" => keys[p.prefix] # NoOne
      /\ p.result \in {"conflict", "error"} =>
           IF p.owner = NoOne THEN users[p.email] # NoOne ELSE keys[p.prefix] # NoOne

\* What a caller was told stays true, whoever else was at work: a created user
\* is registered and nobody else was given the email, an issued key is stored
\* for its owner, who is registered, and who was turned away finds the email or
\* the prefix taken (also if the one he had to wait for was rolled back).
AnswersHold == \A c \in Caller : AnswerHolds(c)

\* Every key that r is configured with is there.
Complete(r) == \A k \in KeysOf(r) : keys[k] # NoOne

\* The keys of a configuration are there together or not at all: a replica that
\* is lost, aborted or beaten to it leaves nothing behind, and one that has
\* seeded leaves none of its keys out, though others have seeded some of them.
SeedIsWhole ==
  /\ \A k \in BootstrapKeys :
       keys[k] # NoOne => \E r \in Replica : k \in KeysOf(r) /\ Complete(r)
  /\ \A r \in Replica : proc[r].result = "seeded" => Complete(r)

\* Replicas that start together do not turn one another away: when all are up,
\* the keys that all of them have in their configuration are there, unless a
\* caller has taken the email of the system user in between.
CommonKeysArrive ==
  (\A r \in Replica : proc[r].at = "done") =>
    \/ \A k \in Prefix : (\A r \in Replica : k \in KeysOf(r)) => keys[k] # NoOne
    \/ users[SystemEmail] \in Caller

\* A unit of work that was begun ends: nobody waits for ever for another's
\* insertion.
UnitsOfWorkEnd ==
  \A p \in Process : proc[p].at \notin {"idle", "done"} ~> proc[p].at \in {"idle", "done"}
=============================================================================
