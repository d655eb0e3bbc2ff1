---------------------------- MODULE GRPCPipeline ----------------------------
(***************************************************************************)
(* One RPC through the interceptors of cmd/grpcapi: TLS handshake, request *)
(* context, caller identity, observability, recovery, and the service: the *)
(* unary Diagnostics.GetHealth, or Check and Watch of the standard health  *)
(* service.                                                                *)
(*                                                                         *)
(* Interceptors pass their context inwards only, so what refuses an RPC    *)
(* outside observability leaves no trace in it.                            *)
(***************************************************************************)
EXTENDS Integers, Sequences, HealthCheck

CONSTANTS None, Empty, BuildFailed

VARIABLES
    cfg,      \* settings of the server that was built
    req,      \* the RPC and its connection, or None
    pc,       \* the part of the chain that runs next
    ctx,      \* the RPC's context
    armed,    \* the server's own deadline is on that context
    meta,     \* what was put on the context and on the response headers
    ret,      \* the error the inner part of the chain returned: its status and its kind
    wire,     \* the statuses sent to the client, in order
    body,     \* the health report the response carries, or None
    tele,     \* the server span and the completion records
    active    \* the gauge of active streams

vars == <<cfg, req, pc, ctx, armed, meta, ret, wire, body, tele, active>>

Methods == {"get_health", "check", "watch"}
\* Only GetHealth has modes; the others name a service that is known or not.
Requests ==
    {r \in [method : Methods, mode : {"ready", "live", "unknown", "large"},
            id : {"absent", "valid", "invalid"},
            cert : {"none", "trusted", "no_uri", "untrusted"}] :
        r.mode = "live" => r.method = "get_health"}
Inside == {"start", "service", "recover", "observe"}
Stages == {"listening", "refused", "context", "identity", "done"} \cup Inside
Marks == {"request_id", "echoed_id", "identity"}

appCodeToGRPCCode ==
    [INVALID_ARGUMENT |-> "INVALID_ARGUMENT", UNAUTHORIZED |-> "UNAUTHENTICATED",
     FORBIDDEN |-> "PERMISSION_DENIED", NOT_FOUND |-> "NOT_FOUND", CONFLICT |-> "ALREADY_EXISTS",
     TOO_MANY_REQUESTS |-> "RESOURCE_EXHAUSTED", UNAVAILABLE |-> "UNAVAILABLE",
     TIMEOUT |-> "DEADLINE_EXCEEDED", INTERNAL |-> "INTERNAL"]
\* The canonical status names, in the order of their codes.
statusNames ==
    <<"OK", "CANCELLED", "UNKNOWN", "INVALID_ARGUMENT", "DEADLINE_EXCEEDED", "NOT_FOUND",
      "ALREADY_EXISTS", "PERMISSION_DENIED", "RESOURCE_EXHAUSTED", "FAILED_PRECONDITION",
      "ABORTED", "OUT_OF_RANGE", "UNIMPLEMENTED", "INTERNAL", "UNAVAILABLE", "DATA_LOSS",
      "UNAUTHENTICATED">>
Codes == {statusNames[i] : i \in DOMAIN statusNames}
\* An error is a responseError, which reports client outcomes, or a plain status error.
Kinds == {"nil", "response", "status", "panic"}

\* The server span, and the completion records of the metrics and the access log.
Telemetry ==
    [span : {"none", "open", "ok", "failed"},
     metrics : Seq([status : Codes, error : BOOLEAN, method : Methods]),
     log : Seq([status : Codes, level : {"info", "error"}, meta : SUBSET Marks,
                code : DOMAIN appCodeToGRPCCode \cup {None}])]

TypeOK ==
    /\ cfg \in [timeout : BOOLEAN, incoming : BOOLEAN, response : BOOLEAN, reject : BOOLEAN,
                auth : {"plain", "server", "verify", "require"}, required : BOOLEAN]
    /\ req \in Requests \cup {None}
    /\ pc \in Stages
    /\ ctx \in {"live", "canceled", "deadline"}
    /\ armed \in BOOLEAN /\ active \in {0, 1}
    /\ meta \in SUBSET Marks
    /\ ret \in [code : Codes, kind : Kinds, app : DOMAIN appCodeToGRPCCode \cup {None},
                cause : {"none", "canceled", "deadline"}]
    /\ wire \in Seq(Codes) /\ body \in Reports \cup {None}
    /\ tele \in Telemetry

----------------------------------------------------------------------------
(* The server that the settings build.                                     *)

\* LoadServer: a client CA that is not required still verifies what is presented.
ClientAuth(c) ==
    IF ~c.TLSEnabled THEN "plain"
    ELSE IF c.ClientCAFile = Empty THEN "server"
    ELSE IF c.RequireClientCert THEN "require" ELSE "verify"
LoadServer(c) ==
    IF \/ Empty \in {c.ServerCertFile, c.ServerKeyFile}
       \/ "not pem" \in {c.ServerCertFile, c.ServerKeyFile, c.ClientCAFile}
       \/ c.ClientCAFile = Empty /\ c.RequireClientCert
    THEN BuildFailed ELSE ClientAuth(c)
buildTransportCredentials(c) == IF c.TLSEnabled THEN LoadServer(c) ELSE "plain"

NormalizeKey(key) == IF key = "bad key" THEN BuildFailed ELSE key

NewRequestContext(c) ==
    LET keys == [incoming |-> NormalizeKey(c.IncomingKey),
                 response |-> NormalizeKey(c.ResponseKey)]
    IN  IF BuildFailed \in {keys.incoming, keys.response} THEN BuildFailed
        ELSE [timeout |-> c.RequestTimeout > 0, incoming |-> keys.incoming # Empty,
              response |-> keys.response # Empty, reject |-> c.RejectInvalid]

\* Credentials that do not load, keys that are not metadata keys, an interval the reporter
\* refuses and limits the server refuses fail the build.
buildServer(c) ==
    LET m == NewRequestContext(c) IN
    IF \/ buildTransportCredentials(c) = BuildFailed \/ m = BuildFailed
       \/ c.RefreshInterval <= 0
       \/ c.Address = Empty \/ c.MaxRecvMessageBytes < 0 \/ c.MaxSendMessageBytes < 0
    THEN BuildFailed
    ELSE [timeout |-> m.timeout, incoming |-> m.incoming, response |-> m.response,
          reject |-> m.reject, auth |-> buildTransportCredentials(c),
          required |-> c.RequireClientCert]

Nil == [code |-> "OK", kind |-> "nil", app |-> None, cause |-> "none"]
Error(code) == [code |-> code, kind |-> "response", app |-> None, cause |-> "none"]
StatusError(code) == [code |-> code, kind |-> "status", app |-> None, cause |-> "none"]

\* responder.AppError: the context's errors come first.
AppError(app, cause) ==
    [code |-> CASE cause = "canceled" -> "CANCELLED"
                [] cause = "deadline" -> "DEADLINE_EXCEEDED"
                [] OTHER -> IF app \in DOMAIN appCodeToGRPCCode THEN appCodeToGRPCCode[app]
                            ELSE "INTERNAL",
     kind |-> "response", app |-> app, cause |-> cause]

Listening ==
    /\ pc = "listening"
    /\ req = None /\ ctx = "live" /\ armed = FALSE /\ meta = {}
    /\ ret = Nil /\ wire = <<>> /\ body = None
    /\ tele = [span |-> "none", metrics |-> <<>>, log |-> <<>>]
    /\ active = 0

----------------------------------------------------------------------------
(* The chain, inwards.                                                     *)

Verified(r) == cfg.auth \in {"verify", "require"} /\ r.cert \in {"trusted", "no_uri"}

\* RequireAnyClientCert takes any certificate, whoever signed it.
HandshakeTakesAny(r) == cfg.auth = "require" /\ r.cert = "none"
\* The handshake refuses a certificate the client CA did not sign, and a missing one if
\* it is required.
HandshakeRefuses(r) ==
    \/ cfg.auth \in {"verify", "require"} /\ r.cert = "untrusted"
    \/ cfg.auth = "require" /\ r.cert = "none"

\* An RPC answered outside observability: straight to gRPC.
Refuse(error) ==
    /\ pc' = "done" /\ ret' = error /\ wire' = Append(wire, error.code)
    /\ UNCHANGED <<cfg, ctx, armed, meta, body, tele, active>>

\* The generated handler of a unary RPC decodes the message, of limited size, before the
\* interceptors run.
TooLarge(r) == r.mode = "large" /\ r.method # "watch"

Receive(r) ==
    /\ pc = "listening"
    /\ req' = r
    /\ IF TooLarge(r) /\ ~HandshakeRefuses(r) THEN Refuse(StatusError("RESOURCE_EXHAUSTED"))
       ELSE /\ pc' = IF HandshakeRefuses(r) THEN "refused" ELSE "context"
            /\ UNCHANGED <<cfg, ctx, armed, meta, ret, wire, body, tele, active>>

incomingRequestID == IF cfg.incoming THEN req.id ELSE "absent"
\* enrich: the request ID that goes on the context, or the refusal of a malformed one.
enrich == IF incomingRequestID = "invalid" /\ ~cfg.reject THEN "absent" ELSE incomingRequestID
echoes == enrich = "valid" /\ cfg.response

\* SetHeader fails on an RPC that the client has already reset.  Unary RPCs get a deadline,
\* streams none.
RequestContext ==
    /\ pc = "context"
    /\ \/ enrich = "invalid" /\ Refuse(Error("INVALID_ARGUMENT")) /\ UNCHANGED req
       \/ echoes /\ ctx = "canceled" /\ Refuse(Error("INTERNAL")) /\ UNCHANGED req
       \/ /\ enrich # "invalid"
          /\ meta' = (IF enrich = "valid" THEN {"request_id"} ELSE {})
                     \cup (IF echoes THEN {"echoed_id"} ELSE {})
          /\ armed' = (cfg.timeout /\ req.method # "watch")
          /\ pc' = IF cfg.auth \in {"verify", "require"} THEN "identity" ELSE "start"
          /\ UNCHANGED <<cfg, req, ctx, ret, wire, body, tele, active>>

\* verifiedClientCertificate: the verified chains, not what the peer sent.
verifiedClientCertificate == IF Verified(req) THEN req.cert ELSE None
\* URICertificateExtractor wants exactly one URI SAN.
Extract(certificate) == IF certificate = "no_uri" THEN None ELSE certificate

CallerIdentity ==
    /\ pc = "identity"
    /\ IF verifiedClientCertificate # None /\ Extract(verifiedClientCertificate) = None
       THEN Refuse(Error("UNAUTHENTICATED")) /\ UNCHANGED req
       ELSE /\ meta' = IF verifiedClientCertificate # None THEN meta \cup {"identity"} ELSE meta
            /\ pc' = "start"
            /\ UNCHANGED <<cfg, req, ctx, armed, ret, wire, body, tele, active>>

\* Observability opens the span and counts the stream.
StartRPC ==
    /\ pc = "start" /\ pc' = "service"
    /\ tele' = [tele EXCEPT !.span = "open"]
    /\ active' = IF req.method = "watch" THEN active + 1 ELSE active
    /\ UNCHANGED <<cfg, req, ctx, armed, meta, ret, wire, body>>

Returns(error, report) ==
    /\ pc' = "recover" /\ ret' = error /\ body' = report
    /\ UNCHANGED <<cfg, req, ctx, armed, meta, wire, tele, active>>

toCheckMode(mode) == IF IsValid(mode) THEN mode ELSE None

\* GetHealth: an outage is an answer with healthy = false, unless the context is over.
GetHealth ==
    /\ pc = "service" /\ req.method = "get_health"
    /\ \/ toCheckMode(req.mode) = None /\ Returns(Error("INVALID_ARGUMENT"), None)
       \/ toCheckMode(req.mode) # None /\ Returns(Nil, Check(req.mode, "none"))
       \/ /\ req.mode = "ready"
          /\ \E failing \in Calls : Returns(Nil, Check("ready", failing))
       \/ req.mode = "ready" /\ ctx # "live" /\ Returns(AppError("UNAVAILABLE", ctx), None)

\* grpc's health service: an unknown name is not found, a watch lasts until its context
\* ends, and decodes its message inside the interceptors.
StandardHealth ==
    /\ pc = "service"
    /\ \/ req.method = "check" /\ Returns(IF req.mode = "ready" THEN Nil
                                          ELSE StatusError("NOT_FOUND"), None)
       \/ req.method = "watch" /\ req.mode = "large" /\ Returns(StatusError("RESOURCE_EXHAUSTED"), None)
       \/ req.method = "watch" /\ ctx # "live" /\ Returns(StatusError("CANCELLED"), None)

Panics ==
    /\ pc = "service"
    /\ Returns([code |-> "INTERNAL", kind |-> "panic", app |-> None, cause |-> "none"], None)

----------------------------------------------------------------------------
(* The chain, outwards.                                                    *)

\* A recovered panic becomes an internal error inside observability.
Recovery ==
    /\ pc = "recover" /\ pc' = "observe"
    /\ ret' = IF ret.kind = "panic" THEN Error("INTERNAL") ELSE ret
    /\ UNCHANGED <<cfg, req, ctx, armed, meta, wire, body, tele, active>>

ServerErrorType(code) ==
    IF code \in {"UNKNOWN", "DEADLINE_EXCEEDED", "UNIMPLEMENTED", "INTERNAL", "UNAVAILABLE",
                 "DATA_LOSS"}
    THEN code ELSE None
\* responseError.IsClientError; a plain status error has no such method.
IsClientError(error) ==
    /\ error.kind = "response"
    /\ error.code \in {"CANCELLED", "INVALID_ARGUMENT", "NOT_FOUND", "ALREADY_EXISTS",
                       "PERMISSION_DENIED", "UNAUTHENTICATED", "RESOURCE_EXHAUSTED",
                       "FAILED_PRECONDITION", "ABORTED", "OUT_OF_RANGE"}

\* The application code is that of the error a responseError wraps.
inspectApplicationError(error) == error.app
newRPCOutcome ==
    [method |-> req.method, status |-> ret.code, err |-> ret,
     code |-> inspectApplicationError(ret)]

metricsRecord(o) == [status |-> o.status, error |-> o.status # "OK", method |-> o.method]
\* The context is the one observability was called with: what is inside adds nothing to it.
contextFieldsProvider == meta \cap {"request_id"}
accessLogRecord(o) ==
    [status |-> o.status, level |-> IF ServerErrorType(o.status) = None THEN "info" ELSE "error",
     meta |-> contextFieldsProvider \cup (meta \cap {"identity"}), code |-> o.code]
Finish(o) == IF o.err.kind # "nil" /\ ~IsClientError(o.err) THEN "failed" ELSE "ok"

Observe ==
    /\ pc = "observe" /\ pc' = "done"
    /\ \E o \in {newRPCOutcome} :
        tele' = [span |-> Finish(o), metrics |-> Append(tele.metrics, metricsRecord(o)),
                 log |-> Append(tele.log, accessLogRecord(o))]
    /\ active' = IF req.method = "watch" THEN active - 1 ELSE active
    /\ wire' = Append(wire, ret.code)
    /\ UNCHANGED <<cfg, req, ctx, armed, meta, ret, body>>

----------------------------------------------------------------------------

\* The client cancels, or a deadline passes: the server's, or the one the client set.
ContextEnds(how) ==
    /\ ctx = "live" /\ pc \in {"context", "identity"} \cup Inside
    /\ ctx' = how
    /\ UNCHANGED <<cfg, req, pc, armed, meta, ret, wire, body, tele, active>>

Advance ==
    \/ RequestContext \/ CallerIdentity \/ StartRPC \/ GetHealth \/ StandardHealth
    \/ Recovery \/ Observe

Next ==
    \/ \E r \in Requests : Receive(r)
    \/ Advance
    \/ Panics
    \/ \E how \in {"canceled", "deadline"} : ContextEnds(how)

Init == Listening /\ cfg \in [timeout : BOOLEAN, incoming : BOOLEAN, response : BOOLEAN,
                              reject : BOOLEAN, auth : {"plain", "server", "verify", "require"},
                              required : BOOLEAN]
Spec == Init /\ [][Next]_vars

----------------------------------------------------------------------------
(* Properties.                                                             *)

\* The RPCs that may be answered outside observability: a message that is too large, a
\* request ID that is not accepted or can no longer be returned, a certificate without an
\* identity.
Refusable ==
    \/ TooLarge(req)
    \/ incomingRequestID = "invalid" /\ cfg.reject
    \/ incomingRequestID = "valid" /\ cfg.response /\ ctx = "canceled"
    \/ Verified(req) /\ req.cert = "no_uri"

\* An RPC that is over got one status, and the metrics and the log hold one record of it
\* with that status and the request ID it returned; only one that was refused outside
\* observability leaves no record.  The gauge is back to zero.
TelemetryMatchesWire ==
    /\ Len(wire) <= 1
    /\ pc = "done" =>
        /\ Len(wire) = 1 /\ active = 0
        /\ \/ /\ Len(tele.metrics) = 1 /\ Head(tele.metrics).status = Head(wire)
              /\ Len(tele.log) = 1 /\ Head(tele.log).status = Head(wire)
              /\ "echoed_id" \in meta => "request_id" \in Head(tele.log).meta
           \/ tele.metrics = <<>> /\ tele.log = <<>> /\ Refusable

\* A status that counts as a server failure fails the server span.
ServerFailureMarked ==
    pc = "done" /\ tele.log # <<>> /\ ServerErrorType(Head(wire)) # None => tele.span = "failed"

\* A status that does not count as one leaves the span alone ("Client-caused statuses such
\* as INVALID_ARGUMENT still describe the RPC outcome without failing the server span",
\* rpcOutcome.errorType).
ClientFailureUnmarked ==
    pc = "done" /\ ServerErrorType(Head(wire)) = None => tele.span # "failed"

\* A check cut short by the end of the RPC's context is answered as that, never as an
\* outage of a dependency; an answer with a report tells which dependency stopped the check.
ContextErrorAnswered ==
    wire # <<>> =>
        /\ ret.cause = "canceled" => Head(wire) = "CANCELLED"
        /\ ret.cause = "deadline" => Head(wire) = "DEADLINE_EXCEEDED"
        /\ body # None => Head(wire) = "OK" /\ Consistent(body)

\* A unary RPC runs under the server's deadline, a watch never does.
CallsBounded == pc = "service" => (armed <=> req.method # "watch")

\* The caller identity in the log is that of a certificate the client CA signed, and no
\* RPC is served without one when the operator asked for client certificates.
IdentityVerified ==
    /\ "identity" \in meta => req.cert = "trusted" /\ cfg.auth \in {"verify", "require"}
    /\ pc \in Inside /\ cfg.auth \in {"verify", "require"} /\ req.cert # "none" =>
        "identity" \in meta
    /\ pc \in Inside /\ cfg.required => "identity" \in meta
=============================================================================
