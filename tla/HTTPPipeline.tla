---------------------------- MODULE HTTPPipeline ----------------------------
(***************************************************************************)
(* One HTTP request through the middleware chain of cmd/httpapi: body      *)
(* limit, observability, recovery, CORS, request context, global limiter,  *)
(* session middleware, handler, and back out to Echo's error handler.      *)
(*                                                                         *)
(* Between any two steps the client may leave, the request deadline may    *)
(* fire, the stream's lifetime may end, or the code in the handler may     *)
(* panic.  An error is its application code and the context error that it  *)
(* wraps, if any.                                                          *)
(***************************************************************************)
EXTENDS Integers, Sequences, HealthCheck

CONSTANTS None, Empty, BuildFailed

VARIABLES
    cfg,      \* settings of the server that was built
    req,      \* the request, or None
    pc,       \* the part of the chain that runs next
    ctx,      \* the request's context
    armed,    \* the server's own deadline is on that context
    meta,     \* what was put on the context and on the response headers
    outcome,  \* the ErrorOutcome on the Echo context: the error and its HTTP code, or None
    ret,      \* the error the inner part of the chain returned, or its panic
    wire,     \* the statuses written to the client, in order
    body,     \* the health report the response carries, or None
    tele,     \* the server span and the completion records
    stalled   \* the client reads nothing, so a write to a full connection blocks

vars == <<cfg, req, pc, ctx, armed, meta, outcome, ret, wire, body, tele, stalled>>

Routes == {"health", "stream", "auth", "me", "unknown", "preflight"}
Inputs == {"good", "padded", "live", "malformed", "invalid", "declared_large", "streamed_large"}
\* Inputs vary where a route reads them; only an unknown route is asked for with an odd
\* method.  What has the stream's path is the stream, or matches no route: another method,
\* or a path that is the stream's only once it is unescaped.
Requests ==
    {r \in [route : Routes, path : {"stream", "other"}, method : {"GET", "BREW"},
            input : Inputs, id : {"absent", "valid", "invalid"}] :
        /\ r.method = "BREW" => r.route = "unknown"
        /\ r.route = "stream" => r.path = "stream"
        /\ r.path = "stream" => r.route \in {"stream", "unknown"}
        /\ r.route \in {"me", "unknown", "preflight"} => r.input \in {"good", "declared_large"}
        /\ r.input = "live" => r.route \in {"health", "stream"}}
Streaming == {"first", "emit", "comment", "tickers", "select"}
Inside == {"cors", "context", "limit", "route", "session", "handler", "sse"} \cup Streaming
Stages == {"listening", "recover", "observe", "reply", "done", "aborted"} \cup Inside
Marks == {"request_id", "echoed_id", "session"}

Plain == [code |-> "PLAIN", cause |-> "none"]
AppErr(code, cause) == [code |-> code, cause |-> cause]
IsClientError(err) == err.code \notin {"UNAVAILABLE", "TIMEOUT", "INTERNAL"}

codeStatusMap ==
    [INVALID_QUERY |-> 400, INVALID_REQUEST_ID |-> 400, REQUEST_CANCELED |-> 499,
     INVALID_ARGUMENT |-> 400, UNAUTHORIZED |-> 401, FORBIDDEN |-> 403, NOT_FOUND |-> 404,
     CONFLICT |-> 409, TOO_MANY_REQUESTS |-> 429, UNAVAILABLE |-> 503, TIMEOUT |-> 504,
     INTERNAL |-> 500]
toHTTPStatus(code) == IF code \in DOMAIN codeStatusMap THEN codeStatusMap[code] ELSE 500

Statuses == {200, 204, 302, 413} \cup {codeStatusMap[code] : code \in DOMAIN codeStatusMap}
Errors == [code : DOMAIN codeStatusMap \cup {"PLAIN"}, cause : {"none", "canceled", "deadline"}]

\* The server span, and the completion records of the metrics and the access log.
Telemetry ==
    [span : {"none", "open", "ok", "failed"},
     metrics : Seq([status : Statuses, error : BOOLEAN, method : {"GET", "_OTHER"},
                    route : Routes \cup {None}]),
     log : Seq([status : Statuses, level : {"info", "error"}, meta : SUBSET Marks,
                code : DOMAIN codeStatusMap \cup {None}])]

TypeOK ==
    /\ cfg \in [timeout : BOOLEAN, incoming : BOOLEAN, response : BOOLEAN,
                reject : BOOLEAN, limiter : BOOLEAN, tickers : BOOLEAN]
    /\ req \in Requests \cup {None}
    /\ pc \in Stages
    /\ ctx \in {"live", "canceled", "deadline", "expired"}
    /\ armed \in BOOLEAN /\ stalled \in BOOLEAN
    /\ meta \in SUBSET Marks
    /\ outcome \in [err : Errors \cup {None}, code : DOMAIN codeStatusMap] \cup {None}
    /\ ret \in {"nil", "not_found", "too_large", "write", "cause", "panic", "abort"}
    /\ wire \in Seq(Statuses) /\ body \in Reports \cup {None}
    /\ tele \in Telemetry

----------------------------------------------------------------------------
(* The server that the settings build.                                     *)

normalizeHeaderKey(key) == IF key = "bad key" THEN BuildFailed ELSE key

NewRequestContextMiddleware(c) ==
    LET keys == [incoming |-> normalizeHeaderKey(c.IncomingKey),
                 response |-> normalizeHeaderKey(c.ResponseKey)]
    IN  IF BuildFailed \in {keys.incoming, keys.response} THEN BuildFailed
        ELSE [timeout |-> c.RequestTimeout > 0,
              incoming |-> keys.incoming # Empty, response |-> keys.response # Empty,
              reject |-> c.RejectInvalid]

buildIPExtractor(cidrs) == IF "bad cidr" \in cidrs THEN BuildFailed ELSE cidrs

\* The limiter refuses every call when the refill interval is below its resolution of a
\* millisecond; the stream's tickers need positive intervals.
buildServer(c) ==
    LET m == NewRequestContextMiddleware(c)
    IN  IF m = BuildFailed \/ buildIPExtractor(c.TrustedProxyCIDRs) = BuildFailed THEN BuildFailed
        ELSE [timeout |-> m.timeout, incoming |-> m.incoming, response |-> m.response,
              reject |-> m.reject,
              limiter |-> c.Capacity > 0 /\ c.RefillInterval \div 2 > 0,
              tickers |-> c.CheckInterval > 0 /\ c.HeartbeatInterval > 0]

Listening ==
    /\ pc = "listening"
    /\ req = None /\ ctx = "live" /\ armed = FALSE /\ meta = {} /\ outcome = None
    /\ ret = "nil" /\ wire = <<>> /\ body = None
    /\ tele = [span |-> "none", metrics |-> <<>>, log |-> <<>>]
    /\ stalled = FALSE

----------------------------------------------------------------------------
(* The responder.                                                          *)

\* Writes a response with a health report, or none; the connection may be gone by then.
Write(status, report) ==
    /\ wire' = Append(wire, status) /\ body' = report
    /\ ret' \in {"nil", "write"}

recordErrorOutcome(err, code) == outcome' = [err |-> err, code |-> code]
writeError(err, code) == recordErrorOutcome(err, code) /\ Write(toHTTPStatus(code), None)

\* apperr.As: the application code an error carries, or none.
As(err) == IF err.code = "PLAIN" THEN None ELSE err.code
errorCode(err) == IF As(err) = None THEN "INTERNAL" ELSE As(err)

\* writeContextError comes first: a wrapped context error decides the status.
contextCodeIgnored(err) == None
contextCode(err) ==
    CASE err.cause = "canceled" -> "REQUEST_CANCELED"
      [] err.cause = "deadline" -> "TIMEOUT"
      [] OTHER -> None

AppError(err) ==
    writeError(err, IF contextCode(err) # None THEN contextCode(err) ELSE errorCode(err))

AppErrorWithPayload(err, report) ==
    IF contextCode(err) # None THEN writeError(err, contextCode(err))
    ELSE recordErrorOutcome(err, errorCode(err)) /\ Write(toHTTPStatus(errorCode(err)), report)

\* What the handler's part of the chain ends with: a response, then back to recovery.
Answered == pc' = "recover" /\ UNCHANGED <<cfg, req, ctx, armed, meta, tele, stalled>>
Success(report) == Write(200, report) /\ UNCHANGED outcome /\ Answered
Refuse(err, code) == writeError(err, code) /\ Answered
Fail(err) == AppError(err) /\ Answered
Goto(stage) ==
    /\ pc' = stage
    /\ UNCHANGED <<cfg, req, ctx, armed, meta, outcome, ret, wire, body, tele, stalled>>
\* Unwinds to recovery without a response.
Unwind(error) ==
    /\ pc' = "recover" /\ ret' = error
    /\ UNCHANGED <<cfg, req, ctx, armed, meta, outcome, wire, body, tele, stalled>>

\* The error of a dependency call, which wraps the context's error once that is over.
Failures(code) ==
    {AppErr(code, "none")} \cup
    (IF ctx \in {"canceled", "deadline"} THEN {AppErr(code, ctx)} ELSE {})

----------------------------------------------------------------------------
(* The chain, inwards.                                                     *)

TooLarge(r) == r.input = "declared_large"

StartServer == tele' = [tele EXCEPT !.span = "open"]

\* The body limit runs before observability, which opens the server span.
Receive(r) ==
    /\ pc = "listening"
    /\ req' = r
    /\ IF TooLarge(r)
       THEN ret' = "too_large" /\ pc' = "reply" /\ UNCHANGED tele
       ELSE pc' = "cors" /\ StartServer /\ UNCHANGED ret
    /\ UNCHANGED <<cfg, ctx, armed, meta, outcome, wire, body, stalled>>

\* Preflight requests end at CORS.
CORS ==
    /\ pc = "cors"
    /\ IF req.route = "preflight"
       THEN Write(204, None) /\ UNCHANGED outcome /\ Answered
       ELSE Goto("context")

incomingRequestID == IF cfg.incoming THEN req.id ELSE "absent"

\* The request deadline and its skipper, which compares the URL's path before the router
\* has seen it: streams have a lifetime of their own.
deadlineWithoutSkipper == cfg.timeout
deadlineApplies == cfg.timeout /\ req.path # "stream"

RequestContext ==
    /\ pc = "context"
    /\ IF incomingRequestID = "invalid" /\ cfg.reject
       THEN Refuse(Plain, "INVALID_REQUEST_ID")
       ELSE /\ meta' = IF incomingRequestID = "valid"
                       THEN {"request_id"} \cup (IF cfg.response THEN {"echoed_id"} ELSE {})
                       ELSE {}
            /\ armed' = deadlineApplies
            /\ pc' = "limit"
            /\ UNCHANGED <<cfg, req, ctx, outcome, ret, wire, body, tele, stalled>>

\* AllowIP: allowed, limited, or the limiter's backend fails.
GlobalRateLimit ==
    /\ pc = "limit"
    /\ \/ cfg.limiter /\ Goto("route")
       \/ cfg.limiter /\ Fail(AppErr("TOO_MANY_REQUESTS", "none"))
       \/ \E err \in Failures("UNAVAILABLE") : Fail(err)

\* The router answers 404 and 405 from inside the chain, as an error.
Route ==
    /\ pc = "route"
    /\ IF req.route = "unknown" THEN Unwind("not_found")
       ELSE Goto(IF req.route = "me" THEN "session" ELSE "handler")

\* No cookie (ErrNoCookie), an empty one (no error), or what Validate answers.
Session ==
    /\ pc = "session"
    /\ \/ \E err \in {Plain, None} : Refuse(err, "UNAUTHORIZED")
       \/ \E err \in {AppErr("UNAUTHORIZED", "none")} \cup Failures("UNAVAILABLE") : Fail(err)
       \/ /\ pc' = "handler" /\ meta' = meta \cup {"session"}
          /\ UNCHANGED <<cfg, req, ctx, armed, outcome, ret, wire, body, tele, stalled>>

\* The binder trims what it decoded; a field of the request is then validated.
Decodes(input) == input \notin {"malformed", "streamed_large"}
normalizeStrings(input) == IF input = "padded" THEN "ready" ELSE input
Validate(value) == value \in {"good", "live", "ready"}
BadInput == ~Decodes(req.input) \/ ~Validate(normalizeStrings(req.input))
\* "good" leaves the check parameter out.
checkMode == ParseCheckMode(IF req.input = "good" THEN "" ELSE normalizeStrings(req.input))

\* An outage is answered with the report and the status of its error.
GetHealth ==
    \/ Success(Check(checkMode, "none"))
    \/ /\ checkMode # "live"
       /\ \E err \in Failures("UNAVAILABLE"), failing \in Calls :
            AppErrorWithPayload(err, Check(checkMode, failing)) /\ Answered

\* What a failed code exchange is reported as: no answer in time is a timeout, anything
\* else, a cancelled call included, is unauthorized.
ExchangeErrorsUnauthorized == {AppErr("UNAUTHORIZED", cause) : cause \in {"none", "deadline"}}
ExchangeErrors ==
    {AppErr("UNAUTHORIZED", "none"), AppErr("TIMEOUT", "deadline")}
    \cup (IF ctx = "canceled" THEN {AppErr("UNAUTHORIZED", "canceled")} ELSE {})

\* What the usecases behind the auth handlers return.
AuthErrors ==
    {AppErr(code, "none") : code \in {"INVALID_ARGUMENT", "UNAUTHORIZED", "FORBIDDEN", "CONFLICT"}}
    \cup Failures("INTERNAL") \cup ExchangeErrors

\* What the auth routes answer on success: a body, or the redirect to the provider.
AuthSucceeds ==
    /\ \E status \in {200, 302} : Write(status, None)
    /\ UNCHANGED outcome /\ Answered
Me == Success(None)

\* Bind and Validate, then what the route does.
Handler ==
    /\ pc = "handler"
    /\ IF req.route = "me" THEN Me
       ELSE IF BadInput THEN Refuse(Plain, "INVALID_QUERY")
       ELSE \/ req.route = "health" /\ GetHealth
            \/ req.route = "auth" /\ (AuthSucceeds \/ \E err \in AuthErrors : Fail(err))
            \/ req.route = "stream" /\ Goto("sse")

\* Code below recovery panics; http.ErrAbortHandler asks to drop the connection.
Panics(how) == pc \in {"limit", "session", "handler", "select"} /\ Unwind(how)

----------------------------------------------------------------------------
(* StreamHealth.                                                           *)

\* StartSSE fails before anything is written, or sends the headers.
StartSSE ==
    /\ pc = "sse"
    /\ \/ Fail(AppErr("INTERNAL", "none"))
       \/ /\ wire' = Append(wire, 200) /\ pc' = "first"
          /\ UNCHANGED <<cfg, req, ctx, armed, meta, outcome, ret, body, tele, stalled>>

\* An event or a comment.  The write deadline was cleared, so a stalled client blocks it;
\* a write that fails, as it does for a client that left, ends the stream.
Send(next) ==
    /\ ~stalled \/ ctx = "canceled"
    /\ Goto(next) \/ Goto("recover")

\* emitHealth sends whatever the check found, an outage too.
emitHealth ==
    \/ pc = "first" /\ Send("tickers")
    \/ pc = "emit" /\ Send("select")
Comment == pc = "comment" /\ Send("select")
\* time.NewTicker panics on an interval that is not positive.
NewTickers == pc = "tickers" /\ IF cfg.tickers THEN Goto("select") ELSE Unwind("panic")

\* The select picks among the cases that are ready.
StreamTick == pc = "select" /\ \E stage \in {"emit", "comment"} : Goto(stage)
StreamDoneOnCancel == pc = "select" /\ ctx = "canceled" /\ Goto("recover")
StreamDone == pc = "select" /\ ctx # "live" /\ Goto("recover")

----------------------------------------------------------------------------
(* The chain, outwards.                                                    *)

CommittedUnknown == FALSE
Committed == wire # <<>>

Recovery ==
    /\ pc = "recover"
    /\ \/ /\ ret = "abort" /\ pc' = "aborted"
          /\ UNCHANGED <<outcome, ret, wire, body>>
       \/ /\ ret = "panic" /\ Committed /\ pc' = "observe"
          /\ recordErrorOutcome(Plain, "INTERNAL") /\ ret' = "cause"
          /\ UNCHANGED <<wire, body>>
       \/ /\ ret = "panic" /\ ~Committed /\ pc' = "observe"
          /\ writeError(Plain, "INTERNAL")
       \/ /\ ret \notin {"abort", "panic"} /\ pc' = "observe"
          /\ UNCHANGED <<outcome, ret, wire, body>>
    /\ UNCHANGED <<cfg, req, ctx, armed, meta, tele, stalled>>

\* echo.ResolveResponseStatus: what was committed, else what the error stands for.
ErrorStatus(error) ==
    CASE error = "nil" -> 200
      [] error = "not_found" -> 404
      [] error = "too_large" -> 413
      [] OTHER -> 500
ResolveFromResponse == IF Committed THEN Head(wire) ELSE 0   \* the error handler has not run yet
ResolveResponseStatus == IF Committed THEN Head(wire) ELSE ErrorStatus(ret)

normalizeRequestMethod(method) == IF method = "BREW" THEN "_OTHER" ELSE method
\* The template of a route that did not match is empty.
newRequestInfo ==
    [method |-> normalizeRequestMethod(req.method),
     route |-> IF req.route = "unknown" THEN None ELSE req.route]

\* The outcome the responder left on the Echo context, if it did.
ErrorOutcomeFrom == IF outcome = None THEN [err |-> None, code |-> None] ELSE outcome
newRequestOutcome ==
    [request |-> newRequestInfo, status |-> ResolveResponseStatus,
     err |-> ErrorOutcomeFrom.err, code |-> ErrorOutcomeFrom.code]

errorType(o) == IF o.status < 500 THEN None ELSE o.status

metricsRecord(o) ==
    [status |-> o.status, error |-> o.status >= 400,
     method |-> o.request.method, route |-> o.request.route]
\* The logger adds what it finds on the context that the request then carries.
contextFieldsProvider == meta \cap {"request_id"}
accessLogRecord(o) ==
    [status |-> o.status, level |-> IF errorType(o) = None THEN "info" ELSE "error",
     meta |-> contextFieldsProvider, code |-> o.code]

\* tracer's isClientError and span.Finish: an error fails the span unless it reports
\* itself as the client's.
isClientError(err) == As(err) # None /\ IsClientError(err)
Finish(err) == IF err # None /\ ~isClientError(err) THEN "failed" ELSE "ok"
\* Tracing.Finish ends the span with the error of the outcome, whatever its status.
TracingFinish(o) == Finish(o.err)

Observe ==
    /\ pc = "observe"
    /\ \E o \in {newRequestOutcome} :
        tele' = [span |-> TracingFinish(o), metrics |-> Append(tele.metrics, metricsRecord(o)),
                 log |-> Append(tele.log, accessLogRecord(o))]
    /\ pc' = "reply"
    /\ UNCHANGED <<cfg, req, ctx, armed, meta, outcome, ret, wire, body, stalled>>

\* Echo's error handler and net/http: an uncommitted response is written now.
Reply ==
    /\ pc = "reply"
    /\ wire' = IF Committed THEN wire ELSE <<ErrorStatus(ret)>>
    /\ pc' = "done"
    /\ UNCHANGED <<cfg, req, ctx, armed, meta, outcome, ret, body, tele, stalled>>

----------------------------------------------------------------------------
(* The world around the request.                                           *)

ContextEnds(how) ==
    /\ ctx = "live" /\ pc \in Inside
    /\ \/ how = "canceled"
       \/ how = "deadline" /\ armed
       \/ how = "expired" /\ req.route = "stream" /\ Committed  \* MaxDuration
    /\ ctx' = how
    /\ UNCHANGED <<cfg, req, pc, armed, meta, outcome, ret, wire, body, tele, stalled>>
ClientStalls ==
    /\ pc \in Streaming /\ stalled' = ~stalled
    /\ UNCHANGED <<cfg, req, pc, ctx, armed, meta, outcome, ret, wire, body, tele>>

Advance ==
    \/ CORS \/ RequestContext \/ GlobalRateLimit \/ Route \/ Session \/ Handler
    \/ StartSSE \/ emitHealth \/ Comment \/ NewTickers \/ StreamTick \/ StreamDone
    \/ Recovery \/ Observe \/ Reply

Next ==
    \/ \E r \in Requests : Receive(r)
    \/ Advance
    \/ \E how \in {"panic", "abort"} : Panics(how)
    \/ \E how \in {"canceled", "deadline", "expired"} : ContextEnds(how)
    \/ ClientStalls

Init == Listening /\ cfg \in [timeout : BOOLEAN, incoming : BOOLEAN, response : BOOLEAN,
                              reject : BOOLEAN, limiter : BOOLEAN, tickers : BOOLEAN]
Spec == Init /\ [][Next]_vars

----------------------------------------------------------------------------
(* Properties.                                                             *)

\* A request that is over was answered once, and the metrics and the log hold one record
\* of it, with the status the client was sent and with the request ID it was told.  Only a
\* body refused before observability and a connection dropped on purpose leave no record.
TelemetryMatchesWire ==
    /\ Len(wire) <= 1
    /\ pc = "done" =>
        /\ Len(wire) = 1
        /\ IF TooLarge(req) THEN tele.metrics = <<>> /\ tele.log = <<>>
           ELSE /\ Len(tele.metrics) = 1 /\ Head(tele.metrics).status = Head(wire)
                /\ Len(tele.log) = 1 /\ Head(tele.log).status = Head(wire)
                /\ "echoed_id" \in meta => "request_id" \in Head(tele.log).meta
    /\ pc = "aborted" => tele.metrics = <<>> /\ tele.log = <<>>

\* A 5xx answer fails the server span, so that no server failure passes as the client's.
ServerFailureMarked ==
    pc = "done" /\ Head(wire) >= 500 => tele.span = "failed"

\* A 4xx answer leaves the server span alone ("a 4xx response normally represents a client
\* failure and must not mark the server span as failed", requestOutcome.errorType).
ClientFailureUnmarked ==
    pc = "done" /\ Head(wire) \in 400..499 => tele.span # "failed"

\* An error that wraps the end of the request's context is answered as that, never as the
\* failure of a dependency: 499 or 504.  A health report says why it was sent: 503 if and
\* only if something is down.
ContextErrorAnswered ==
    /\ outcome # None /\ outcome.err # None =>
        /\ outcome.err.cause = "canceled" => Head(wire) = 499
        /\ outcome.err.cause = "deadline" => Head(wire) = 504
    /\ body # None => Consistent(body) /\ (Head(wire) = 503 <=> Down(body))

\* The session check and every handler but the stream's run under the server's deadline.
\* The limiter does too, but for requests on the stream's path, routed or not.  A stream is
\* never ended by that deadline, nor by intervals its tickers cannot start with.
CallsBounded ==
    /\ pc \in {"session", "handler"} /\ req.route # "stream" => armed
    /\ pc = "limit" /\ ~armed => req.path = "stream"
    /\ pc \in Streaming \ {"first", "tickers"} => ctx # "deadline" /\ cfg.tickers
=============================================================================
