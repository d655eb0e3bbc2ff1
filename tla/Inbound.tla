------------------------------ MODULE Inbound ------------------------------
(***************************************************************************)
(* A server process, HTTP or gRPC: it reads its settings from the          *)
(* environment, builds its chain from them, and serves a request.          *)
(***************************************************************************)
EXTENDS Config, Sequences

CONSTANTS None, Rejected, BuildFailed

VARIABLES
    server,  \* "http" or "grpc"
    env,     \* the environment, until it has been read
    cfg, req, pc, ctx, armed, meta, outcome, ret, wire, body, tele, stalled, active

H == INSTANCE HTTPPipeline
G == INSTANCE GRPCPipeline

\* Go's nil is no error, error code, recorded outcome or certificate.
ASSUME InboundConstants ==
    /\ None \notin H!Errors \cup [err : H!Errors \cup {None}, code : DOMAIN H!codeStatusMap]
    /\ None \notin DOMAIN H!codeStatusMap \cup {"none", "trusted", "no_uri", "untrusted"}

vars == <<server, env, cfg, req, pc, ctx, armed, meta, outcome, ret, wire, body, tele, stalled, active>>
chain == <<req, ctx, armed, meta, outcome, ret, wire, body, tele, stalled, active>>

Init ==
    /\ \/ server = "http" /\ env \in HTTPEnvs /\ ret = "nil"
       \/ server = "grpc" /\ env \in GRPCEnvs /\ ret = G!Nil
    /\ cfg = None /\ req = None /\ pc = "boot"
    /\ ctx = "live" /\ armed = FALSE /\ meta = {} /\ outcome = None
    /\ wire = <<>> /\ body = None
    /\ tele = [span |-> "none", metrics |-> <<>>, log |-> <<>>]
    /\ stalled = FALSE /\ active = 0

Build(c) == IF server = "http" THEN H!buildServer(c) ELSE G!buildServer(c)

\* main: settings that are refused, or a chain that cannot be built from them, end the
\* process with an error.
BootWith(c, invalid) ==
    /\ cfg' = IF invalid THEN Rejected ELSE Build(c)
    /\ pc' = IF cfg' \in {Rejected, BuildFailed} THEN "exited" ELSE "listening"
Boot ==
    /\ pc = "boot"
    /\ \/ server = "http" /\ \E c \in {httpapiConfig(env)} : BootWith(c, invalidHTTPAPI(c))
       \/ server = "grpc" /\ \E c \in {grpcapiConfig(env)} : BootWith(c, invalidGRPCAPI(c))
    /\ env' = None
    /\ UNCHANGED <<server, chain>>

HTTP(A) == server = "http" /\ A /\ UNCHANGED <<server, env, active>>
GRPC(A) == server = "grpc" /\ A /\ UNCHANGED <<server, env, outcome, stalled>>
ServeHTTP == pc \in H!Stages /\ HTTP(H!Next)
ServeGRPC == pc \in G!Stages /\ GRPC(G!Next)

Next == Boot \/ ServeHTTP \/ ServeGRPC

\* A process that was started boots and its chain does not stop, the stream's lifetime
\* ends, and a select that finds Done ready again and again takes it in the end.
Spec ==
    /\ Init /\ [][Next]_vars
    /\ WF_vars(Boot \/ HTTP(H!Advance) \/ GRPC(G!Advance))
    /\ WF_vars(HTTP(H!ContextEnds("expired")))
    /\ SF_vars(HTTP(H!StreamDone))

----------------------------------------------------------------------------
(* Properties: what both chains promise, for whatever settings were accepted. *)

serving == pc \notin {"boot", "exited"}

TypeOK ==
    IF ~serving THEN cfg \in {None, Rejected, BuildFailed} /\ req = None
    ELSE env = None /\ IF server = "http" THEN H!TypeOK ELSE G!TypeOK

\* One answer, one record of it, with the status that was sent (see the chains' modules).
TelemetryMatchesWire ==
    serving => IF server = "http" THEN H!TelemetryMatchesWire ELSE G!TelemetryMatchesWire

\* No server failure is recorded as a success or as the client's failure.
ServerFailureMarked ==
    serving => IF server = "http" THEN H!ServerFailureMarked ELSE G!ServerFailureMarked

\* A client's failure never fails the server span, as both errorType comments have it.
ClientFailureUnmarked ==
    serving => IF server = "http" THEN H!ClientFailureUnmarked ELSE G!ClientFailureUnmarked

\* The end of the request's context is answered as that, not as an outage.
ContextErrorAnswered ==
    serving => IF server = "http" THEN H!ContextErrorAnswered ELSE G!ContextErrorAnswered

\* Under every configuration the validation accepts, no handler but a stream's runs without
\* the server's deadline, and no stream with it.
CallsBounded ==
    serving => IF server = "http" THEN H!CallsBounded ELSE G!CallsBounded

\* Under every accepted TLS configuration callers are who their certificate says.
IdentityVerified == serving /\ server = "grpc" => G!IdentityVerified

\* Every request is answered or dropped in the end, a stream by its maximum duration
\* unless its client stops reading for good.  A watch lasts as long as its client wants.
RequestEnds ==
    <>[](~stalled) =>
        /\ (server = "http" /\ pc \in H!Inside) ~> (pc \in {"done", "aborted"})
        /\ (server = "grpc" /\ pc = "context" /\ req.method # "watch") ~> (pc = "done")
=============================================================================
