------------------------------ MODULE ApiRequests ------------------------------
(***************************************************************************)
(* Requests for jobs on their way through the API: the middleware          *)
(* (ApiStack), authentication and roles (api/deps.py), the routers of jobs *)
(* and health (api/routers), and the list (JobListing).  A handler that    *)
(* names a job reads it for the authorisation in one unit of work and acts *)
(* on it in another.                                                       *)
(***************************************************************************)
EXTENDS ApiStack, JobListing

CONSTANTS RoleChoice, \* the roles the callers may have
          Walker,     \* the client that pages through a list
          CallsOf,    \* bound: what each client asks for
          NoJob

Role == {"viewer", "operator", "admin"}

VARIABLES role,   \* principal.role of each client
          req,    \* what is asked, and what the handler does next
          answer  \* the answer given by the last step, if it gave one

vars == <<tableVars, walk, role, req, answer>>

OnJob == {"get", "cancel", "delete"}
JobCall == OnJob \cup {"list", "create"}

ASSUME ApiAssumption ==
  /\ RoleChoice \subseteq [Client -> Role]
  /\ Walker \in Client
  /\ CallsOf \in [Client -> SUBSET JobCall]
  /\ \A c \in Client : "list" \in CallsOf[c] => c = Walker
  /\ NoJob \notin Job

\* A page, without its order.
Items == {page \in SUBSET Job : IsFiniteSet(page) /\ Cardinality(page) <= Limit}

NoAnswer == [to |-> NoOne, status |-> 200, passed |-> {}, shows |-> {}]
Idle == [at |-> "idle", call |-> "list", job |-> NoJob, items |-> {}]

Request == [ at : {"idle", "authenticate", "load", "act", "items", "count"},
             call : JobCall, job : Job \cup {NoJob}, items : Items ]

Answer == [ to : Client \cup {NoOne}, status : Statuses, passed : SUBSET Middleware,
            shows : SUBSET Job ]

TypeOK ==
  /\ TableOK
  /\ role \in RoleChoice
  /\ req \in [Client -> Request]
  /\ answer \in Answer
  /\ \A j \in Job : Present(j) => owner[j] # NoOne

Init ==
  /\ ListInit
  /\ role \in RoleChoice
  /\ req = [c \in Client |-> Idle]
  /\ answer = NoAnswer

-----------------------------------------------------------------------------
Reply(c, a, shows) ==
  /\ answer' = [to |-> c, status |-> a.status, passed |-> a.passed, shows |-> shows]
  /\ req' = [req EXCEPT ![c] = Idle]

Refuse(c, a) == Reply(c, a, {}) /\ UNCHANGED <<tableVars, walk>>

Goto(c, at) == answer' = NoAnswer /\ req' = [req EXCEPT ![c].at = at]

\* The table has changed: the walk under way notices.
WalkNotices == walk' = Noticed(walk, rows', owner', status')

-----------------------------------------------------------------------------
(* Through the middleware.                                                 *)

\* The CORS middleware answers a preflight itself, and refuses one from an
\* origin that is not on the list.
Preflight(c) ==
  /\ req[c].at = "idle" /\ CorsOrigins
  /\ \E verdict \in {200, 400} : Refuse(c, By("cors", verdict))
  /\ UNCHANGED role

\* No route has this path, or none of it this method: without the CORS
\* middleware a preflight is one of these.
NoRoute(c) ==
  /\ req[c].at = "idle"
  /\ \E reason \in {404, 405} : Refuse(c, By("app", reason))
  /\ UNCHANGED role

\* The probes; the readiness probe catches the failure of the database.
Probe(c) ==
  /\ req[c].at = "idle"
  /\ \E state \in {200, 503} : Refuse(c, By("app", state))
  /\ UNCHANGED role

\* Refused on the way in: too large, over the limit, or the limiter itself
\* raises because Redis is gone.
TurnAway(c) ==
  /\ req[c].at = "idle"
  /\ \E a \in {By("size", 413), By("limit", 429), Unhandled} : Refuse(c, a)
  /\ UNCHANGED role

\* The request reaches its route.  A walk goes on with its filter, or a new one
\* begins.
FilterChoice(c) ==
  {[owner |-> o, active |-> a] : o \in {c} \cup (IF role[c] = "admin" THEN {NoOne} ELSE {}),
                                 a \in BOOLEAN}

Arrive(c, call) ==
  /\ req[c].at = "idle"
  /\ req' = [req EXCEPT ![c].at = "authenticate", ![c].call = call]
  /\ answer' = NoAnswer
  /\ IF call = "list" /\ walk.over
       THEN \E f \in FilterChoice(c) : walk' = NewWalk(f)
       ELSE UNCHANGED walk
  /\ UNCHANGED <<tableVars, role>>

\* An exception the application does not expect: the database is down.
HandlerRaises(c) ==
  /\ req[c].at # "idle"
  /\ Refuse(c, Unhandled)
  /\ UNCHANGED role

-----------------------------------------------------------------------------
(* The handlers.                                                           *)

Rank == [viewer |-> 1, operator |-> 2, admin |-> 3]

Needs(call) == IF call \in {"create", "cancel", "delete"} THEN "operator" ELSE "viewer"

HasRole(c, needed) == Rank[role[c]] >= Rank[needed]

\* get_current_principal, require_role and the validation of the body.
AuthenticationFails(c) ==
  /\ req[c].at = "authenticate"
  /\ Refuse(c, Refusal("AuthenticationError"))
  /\ UNCHANGED role

BodyInvalid(c) ==
  /\ req[c].at = "authenticate" /\ req[c].call = "create"
  /\ Refuse(c, By("app", 422))
  /\ UNCHANGED role

Authenticate(c) ==
  /\ req[c].at = "authenticate"
  /\ IF ~HasRole(c, Needs(req[c].call))
       THEN Refuse(c, Refusal("AuthorizationError"))
       ELSE /\ Goto(c, CASE req[c].call \in OnJob   -> "load"
                         [] req[c].call = "list"   -> "items"
                         [] req[c].call = "create" -> "act")
            /\ UNCHANGED <<tableVars, walk>>
  /\ UNCHANGED role

\* Mutant: any operator may act on any job.
AuthorizedLoose(c, j) == HasRole(c, "operator") \/ owner[j] = c

\* authorize_job_access
Authorized(c, j) == role[c] = "admin" \/ owner[j] = c

\* jobs.get_job, then authorize_job_access.
Load(c, j) ==
  /\ req[c].at = "load"
  /\ IF ~Present(j)
       THEN Refuse(c, Refusal("EntityNotFoundError"))
     ELSE IF ~Authorized(c, j)
       THEN Refuse(c, Refusal("AuthorizationError"))
     ELSE IF req[c].call = "get"
       THEN Reply(c, By("app", 200), {j}) /\ UNCHANGED <<tableVars, walk>>
     ELSE /\ answer' = NoAnswer
          /\ req' = [req EXCEPT ![c].at = "act", ![c].job = j]
          /\ UNCHANGED <<tableVars, walk>>
  /\ UNCHANGED role

\* The row is committed; if the broker then refuses the message, the request
\* fails although the job is there.
Create(c) ==
  /\ req[c].at = "act" /\ req[c].call = "create"
  /\ \E j \in Job : AddRow(j, c)
  /\ \E a \in {By("app", 202), Unhandled} : Reply(c, a, {})
  /\ WalkNotices
  /\ UNCHANGED role

Cancel(c) ==
  LET j == req[c].job IN
  /\ req[c].at = "act" /\ req[c].call = "cancel"
  /\ IF ~Present(j) THEN Refuse(c, Refusal("EntityNotFoundError"))
     ELSE IF status[j] # "active" THEN Refuse(c, Refusal("ConflictError"))
     ELSE SetStatus(j, "cancelled") /\ WalkNotices /\ Reply(c, By("app", 200), {j})
  /\ UNCHANGED role

Delete(c) ==
  LET j == req[c].job IN
  /\ req[c].at = "act" /\ req[c].call = "delete"
  /\ IF ~Present(j) THEN Refuse(c, Refusal("EntityNotFoundError"))
     ELSE IF status[j] = "active" THEN Refuse(c, Refusal("ConflictError"))
     ELSE DropRow(j) /\ WalkNotices /\ Reply(c, By("app", 204), {})
  /\ UNCHANGED role

\* list_jobs: the items, then the number of them all.
ReadItems(c) ==
  /\ req[c].at = "items"
  /\ answer' = NoAnswer
  /\ req' = [req EXCEPT ![c].at = "count", ![c].items = PageItems(walk.filter, walk.offset)]
  /\ UNCHANGED <<tableVars, walk, role>>

ReadCount(c) ==
  LET items == req[c].items IN
  /\ req[c].at = "count"
  /\ walk' = Turned(walk, items, HasMore(walk.offset, items, Total(walk.filter)))
  /\ Reply(c, By("app", 200), items)
  /\ UNCHANGED <<tableVars, role>>

\* A worker ends a job.
Finish(j) ==
  /\ Present(j) /\ status[j] = "active"
  /\ SetStatus(j, "finished")
  /\ WalkNotices
  /\ answer' = NoAnswer
  /\ UNCHANGED <<role, req>>

Next ==
  \/ \E c \in Client :
       \/ Preflight(c) \/ NoRoute(c) \/ Probe(c) \/ TurnAway(c) \/ HandlerRaises(c)
       \/ \E call \in CallsOf[c] : Arrive(c, call)
       \/ AuthenticationFails(c) \/ BodyInvalid(c) \/ Authenticate(c)
       \/ \E j \in Job : Load(c, j)
       \/ Create(c) \/ Cancel(c) \/ Delete(c)
       \/ ReadItems(c) \/ ReadCount(c)
  \/ \E j \in Job : Finish(j)

Spec == Init /\ [][Next]_vars

-----------------------------------------------------------------------------
\* Only its owner or an administrator cancels or deletes a job, and no viewer
\* does, although the job that was authorised and the job that is changed are
\* read in two units of work.
OnlyOwnersAct ==
  [][\A j \in Job :
       (status'[j] = "cancelled" /\ status[j] # "cancelled") \/ (Present(j) /\ ~Present(j)') =>
         \E c \in Client :
           /\ req[c].at = "act" /\ req[c].job = j
           /\ role[c] = "admin" \/ (role[c] = "operator" /\ owner[j] = c)]_vars

\* An answer shows nobody else's job, on a page of a list or by its id.
OnlyOwnShown ==
  answer.to # NoOne /\ role[answer.to] # "admin" =>
    \A j \in answer.shows : owner[j] = answer.to

\* What the error rate is computed from: every 5xx is in http_requests_total.
ErrorsCounted == answer.to # NoOne /\ answer.status >= 500 => Counted(answer)
=============================================================================
