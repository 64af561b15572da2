------------------------------ MODULE JobListing ------------------------------
(***************************************************************************)
(* The table of jobs as a list sees it, and a client that pages through    *)
(* it: SqlAlchemyJobRepository.list and count, JobService.list_jobs, Page. *)
(* The two statements of a page each see what is committed at their time.  *)
(***************************************************************************)
EXTENDS Integers, FiniteSets

CONSTANTS Job, Client,
          NoOne, \* the owner of a job that was not created
          Limit, \* the size of a page
          Clock  \* the times at which jobs are created

ASSUME ListingAssumption == Limit \in Nat \ {0} /\ NoOne \notin Client /\ Clock \subseteq Int

VARIABLES rows,    \* the jobs in the table
          owner,   \* owner_id
          status,
          created, \* created_at, to the microsecond: taken to be another for every job
          walk     \* how far the client has paged

tableVars == <<rows, owner, status, created>>

\* A filter of the list: the owner, or NoOne for all of them, and a status.
Filter == [owner : Client \cup {NoOne}, active : BOOLEAN]

Matches(f, j, by, st) ==
  /\ f.owner \in {NoOne, by[j]}
  /\ f.active => st[j] = "active"

\* The jobs of a table that a filter lets through.
Selected(f, table, by, st) == {j \in table : Matches(f, j, by, st)}

\* How many of some jobs come before j in descending order of created_at.
Position(j, jobs, when) == Cardinality({i \in jobs : when[i] > when[j]})

\* Mutant: one row more, to see whether there is a next page.
PageItemsOneMore(f, offset) ==
  LET all == Selected(f, rows, owner, status)
  IN  {j \in all : Position(j, all, created) \in offset .. offset + Limit}

\* repository.list
PageItems(f, offset) ==
  LET all == Selected(f, rows, owner, status)
  IN  {j \in all : Position(j, all, created) \in offset .. offset + Limit - 1}

\* repository.count
Total(f) == Cardinality(Selected(f, rows, owner, status))

\* Mutant: the index of the last item, where their number belongs.
HasMoreOffByOne(offset, items, total) == offset + Cardinality(items) < total - 1

\* Page.has_more
HasMore(offset, items, total) == offset + Cardinality(items) < total

-----------------------------------------------------------------------------
(* A walk: the client asks for the page behind what it was given, until it *)
(* is told that there is no more.                                          *)

Walk ==
  [ filter : Filter,
    offset : Nat,
    over   : BOOLEAN,
    shown  : SUBSET Job,
    there  : SUBSET Job, \* jobs that have matched since it began
    gone   : Nat,        \* how many stopped to match since then
    come   : Nat,        \* how many began to
    twice  : Nat ]       \* jobs shown that it had been shown before

NoWalk == [ filter |-> [owner |-> NoOne, active |-> FALSE], offset |-> 0, over |-> TRUE,
            shown |-> {}, there |-> {}, gone |-> 0, come |-> 0, twice |-> 0 ]

NewWalk(f) ==
  [NoWalk EXCEPT !.filter = f, !.over = FALSE, !.there = Selected(f, rows, owner, status)]

\* What a change of the table means to a walk.
Noticed(w, table, by, st) ==
  LET before == Selected(w.filter, rows, owner, status)
      after  == Selected(w.filter, table, by, st)
  IN  IF w.over
        THEN w
        ELSE [w EXCEPT !.there = @ \cap after,
                       !.gone = @ + Cardinality(before \ after),
                       !.come = @ + Cardinality(after \ before)]

Turned(w, items, more) ==
  [w EXCEPT !.offset = @ + Cardinality(items),
            !.over = ~more,
            !.shown = @ \cup items,
            !.twice = @ + Cardinality(items \cap w.shown)]

TableOK ==
  /\ rows \subseteq Job
  /\ owner \in [Job -> Client \cup {NoOne}]
  /\ status \in [Job -> {"active", "finished", "cancelled"}]
  /\ created \in [Job -> Int]
  /\ walk \in Walk

ListInit ==
  /\ rows = {}
  /\ owner = [j \in Job |-> NoOne]
  /\ status = [j \in Job |-> "active"]
  /\ created = [j \in Job |-> 0]
  /\ walk = NoWalk

\* The id of a new job was never used; created_at is the clock of a replica, so
\* a new job need not be the newest.
AddRow(j, c) ==
  /\ owner[j] = NoOne
  /\ rows' = rows \cup {j}
  /\ owner' = [owner EXCEPT ![j] = c]
  /\ \E now \in Clock \ {created[i] : i \in rows} : created' = [created EXCEPT ![j] = now]
  /\ UNCHANGED status

SetStatus(j, st) ==
  /\ status' = [status EXCEPT ![j] = st]
  /\ UNCHANGED <<rows, owner, created>>

DropRow(j) ==
  /\ rows' = rows \ {j}
  /\ UNCHANGED <<owner, status, created>>

Present(j) == j \in rows

-----------------------------------------------------------------------------
\* A client that pages through its jobs misses at most as many of those that
\* are there all the time as left the list meanwhile, and sees at most as many
\* twice as came: although items and total are read by two statements, and
\* offsets shift under it.
WalkComplete ==
  /\ walk.over => Cardinality(walk.there \ walk.shown) <= walk.gone
  /\ walk.twice <= walk.come
=============================================================================
