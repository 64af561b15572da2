------------------------------- MODULE ApiStack -------------------------------
(***************************************************************************)
(* Who answers a request of the API and which middleware the answer passes *)
(* on its way out (api/app.py, api/middleware.py, api/errors.py).          *)
(*                                                                         *)
(* Each layer wraps the next: it sees an answer that comes from further    *)
(* in, and an exception passes it by.                                      *)
(***************************************************************************)
EXTENDS Integers

CONSTANT CorsOrigins \* whether settings.api.cors_origins names any origin

ASSUME StackAssumption == CorsOrigins \in BOOLEAN

\* The middleware of create_app, counted from the outside; the last one added
\* is the outermost.
Stack ==
  [cors |-> 1, security |-> 2, context |-> 3, size |-> 4, limit |-> 5, app |-> 6]

\* The CORS middleware is added only if there are origins to allow.
Middleware == DOMAIN Stack \ (IF CorsOrigins THEN {"app"} ELSE {"app", "cors"})

Passed(layer) == {m \in Middleware : Stack[m] < Stack[layer]}

Statuses == {200, 202, 204, 400, 401, 403, 404, 405, 409, 413, 422, 429, 500, 502, 503}

\* _STATUS_MAP of the exceptions the application raises on purpose.
StatusOf ==
  [ ValidationError     |-> 400, AuthenticationError |-> 401, AuthorizationError |-> 403,
    EntityNotFoundError |-> 404, ConflictError       |-> 409, QuotaExceededError |-> 429,
    TeacherError        |-> 502, TrainingError       |-> 500 ]

\* The answer of a layer.
By(layer, status) == [status |-> status, passed |-> Passed(layer)]

\* A domain exception becomes an answer within the application.
Refusal(exception) == By("app", StatusOf[exception])

\* Any other exception leaves through every layer; Starlette's error middleware,
\* around them all, has _unhandled_handler answer it.
Unhandled == [status |-> 500, passed |-> {}]

\* RequestContextMiddleware: http_requests_total is incremented, the request is
\* logged, and the answer gets its X-Request-ID.
Counted(answer) == "context" \in answer.passed
=============================================================================
