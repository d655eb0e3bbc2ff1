--------------------------- MODULE InboundProofs ---------------------------
(***************************************************************************)
(* Inbound: whatever was accepted as settings, and for every request and   *)
(* every moment at which its context ends or its handler panics, there is  *)
(* one answer, recorded as it was sent and with the right blame.           *)
(***************************************************************************)
EXTENDS Inbound, SequenceTheorems, TLAPS

----------------------------------------------------------------------------
(* The HTTP chain.                                                         *)

\* What the accepted settings guarantee.
HTTPSettings == cfg.timeout = TRUE /\ cfg.tickers = TRUE

\* On its way in a request has no answer, but for the status a stream begins with; the
\* deadline is on the context of all requests but those on the stream's path, and what
\* matches no route does not get past the router.
HTTPInwards ==
    /\ pc = "listening" => H!Listening
    /\ pc # "listening" => req \in H!Requests
    /\ pc \in H!Inside =>
        /\ ret = "nil" /\ outcome = None /\ body = None
        /\ wire = IF pc \in H!Streaming THEN <<200>> ELSE <<>>
    /\ pc \in H!Streaming \cup {"sse"} => req.route = "stream"
    /\ pc \in {"limit", "route", "session", "handler"} => (armed <=> req.path # "stream")
    /\ pc \in {"session", "handler"} => req.route # "unknown"
    /\ armed => pc # "listening" /\ req.path # "stream"
    /\ ctx = "deadline" => armed
    /\ "echoed_id" \in meta => "request_id" \in meta

\* How an error and the status it was answered with agree.  Only the panic of a stream
\* comes after its status.
Blames(o) ==
    /\ o.err # None => /\ o.err.cause = "canceled" => o.code = "REQUEST_CANCELED"
                       /\ o.err.cause = "deadline" => o.code = "TIMEOUT"
    /\ H!toHTTPStatus(o.code) >= 500 => o.err # None /\ ~H!isClientError(o.err)
HTTPAnswer ==
    /\ Len(wire) <= 1
    /\ outcome # None =>
        /\ Blames(outcome)
        /\ \/ wire = <<H!toHTTPStatus(outcome.code)>>
           \/ wire = <<200>> /\ outcome.err = H!Plain
    /\ outcome = None /\ wire # <<>> => Head(wire) < 500
    /\ body # None => /\ wire # <<>> /\ H!Consistent(body)
                      /\ Head(wire) = 503 <=> H!Down(body)
    /\ pc = "recover" /\ wire = <<>> => ret \in {"not_found", "panic", "abort"}
    /\ pc = "recover" /\ ret = "panic" => outcome = None /\ wire \in {<<>>, <<200>>}
    /\ pc \in {"observe", "reply"} /\ wire = <<>> => ret \in {"not_found", "too_large"}

\* The records are written by observability, with the status the response ends up with.
HTTPRecords ==
    /\ pc \in H!Inside \cup {"recover", "observe", "aborted"} =>
        tele.metrics = <<>> /\ tele.log = <<>> /\ ~H!TooLarge(req)
    /\ pc \in {"reply", "done"} /\ H!TooLarge(req) =>
        /\ tele.metrics = <<>> /\ tele.log = <<>>
        /\ ret = "too_large" /\ wire = IF pc = "done" THEN <<413>> ELSE <<>>
    /\ pc \in {"reply", "done"} /\ ~H!TooLarge(req) =>
        /\ Len(tele.metrics) = 1 /\ Head(tele.metrics).status = H!ResolveResponseStatus
        /\ Len(tele.log) = 1 /\ Head(tele.log).status = H!ResolveResponseStatus
        /\ "echoed_id" \in meta => "request_id" \in Head(tele.log).meta
        /\ H!ResolveResponseStatus >= 500 => tele.span = "failed"
    /\ pc = "done" => wire # <<>>

HTTPInv == H!TypeOK /\ HTTPSettings /\ HTTPInwards /\ HTTPAnswer /\ HTTPRecords

----------------------------------------------------------------------------
(* The gRPC chain.                                                         *)

\* What the accepted settings guarantee: certificates that are required are verified.
GRPCSettings == cfg.timeout = TRUE /\ (cfg.required => cfg.auth = "require")

Begun == {"context", "identity"} \cup G!Inside

\* On its way in an RPC has no answer and no record, and every RPC but a watch has the
\* deadline on its context.
GRPCInwards ==
    /\ pc = "listening" => G!Listening
    /\ pc # "listening" => req \in G!Requests
    /\ pc = "context" => ~armed /\ meta = {}
    /\ pc \in Begun =>
        /\ wire = <<>> /\ tele.metrics = <<>> /\ tele.log = <<>>
        /\ ~G!TooLarge(req) /\ ~G!HandshakeRefuses(req)
    /\ pc \in {"context", "identity", "start", "service"} => ret = G!Nil /\ body = None
    /\ pc \in {"identity"} \cup G!Inside => (armed <=> req.method # "watch")
    /\ active = IF pc \in {"service", "recover", "observe"} /\ req.method = "watch" THEN 1 ELSE 0
    /\ "echoed_id" \in meta => "request_id" \in meta

\* An identity is put on the context of an RPC with a certificate that was verified, and of
\* no other.
GRPCIdentity ==
    /\ "identity" \in meta => req.cert = "trusted" /\ cfg.auth \in {"verify", "require"}
    /\ pc \in G!Inside /\ cfg.auth \in {"verify", "require"} /\ req.cert # "none" =>
        "identity" \in meta

\* An error says what happened to the context, and success is no error.
GRPCAnswer ==
    /\ ret.cause = "canceled" => ret.code = "CANCELLED"
    /\ ret.cause = "deadline" => ret.code = "DEADLINE_EXCEEDED"
    /\ ret.kind = "nil" => ret.code = "OK"
    /\ body # None => ret = G!Nil /\ G!Consistent(body)

\* At the end there is one status, and one record of it unless it was refused outside
\* observability.
GRPCRecords ==
    /\ pc \notin Begun \cup {"done"} => wire = <<>>
    /\ pc = "done" =>
        /\ wire = <<ret.code>>
        /\ \/ /\ tele.metrics = <<>> /\ tele.log = <<>> /\ G!Refusable
           \/ /\ Len(tele.metrics) = 1 /\ Head(tele.metrics).status = ret.code
              /\ Len(tele.log) = 1 /\ Head(tele.log).status = ret.code
              /\ "echoed_id" \in meta => "request_id" \in Head(tele.log).meta
              /\ G!ServerErrorType(ret.code) # None => tele.span = "failed"

GRPCInv == G!TypeOK /\ GRPCSettings /\ GRPCInwards /\ GRPCIdentity /\ GRPCAnswer /\ GRPCRecords

----------------------------------------------------------------------------

\* Before it serves, a process has its environment and nothing else.
BootInv ==
    /\ pc = "boot" =>
        /\ IF server = "http" THEN env \in HTTPEnvs /\ ret = "nil" ELSE env \in GRPCEnvs /\ ret = G!Nil
        /\ cfg = None /\ ctx = "live" /\ armed = FALSE /\ meta = {} /\ outcome = None
        /\ wire = <<>> /\ body = None
        /\ tele = [span |-> "none", metrics |-> <<>>, log |-> <<>>]
        /\ stalled = FALSE /\ active = 0
    /\ ~serving => cfg \in {None, Rejected, BuildFailed} /\ req = None

\* The inductive invariant.
Inv ==
    /\ server \in {"http", "grpc"}
    /\ BootInv
    /\ serving => env = None /\ IF server = "http" THEN HTTPInv ELSE GRPCInv

----------------------------------------------------------------------------
(* What the settings that are accepted guarantee.                          *)

\* A setting of a checked environment is unset or has one of its values.
LEMMA SettingChanged ==
    ASSUME NEW values, NEW base, NEW e \in Changed(base, values),
           NEW s \in DOMAIN base, base[s] \in values[s] \cup {Unset}
    PROVE  e[s] \in values[s] \cup {Unset}
  <1>1. PICK c \in LET one == UNION {{<<t, v>> : v \in values[t]} : t \in DOMAIN values} IN one \X one :
            e = [base EXCEPT ![c[1][1]] = c[1][2], ![c[2][1]] = c[2][2]]
    BY DEF Changed
  <1>2. /\ c[1][2] \in values[c[1][1]] 
        /\ c[2][2] \in values[c[2][1]]
    BY <1>1
  <1> QED BY <1>1, <1>2

\* A length that does not parse is replaced by its default.
LEMMA ParsedLength ==
    ASSUME NEW raw \in Lengths \cup {12, Unset}, NEW fallback \in Int
    PROVE  getParsed(raw, fallback) \in Int
  BY DEF getParsed, Lengths

\* A setting of an HTTP environment is unset or one of its values.
LEMMA HTTPSetting ==
    ASSUME NEW e \in HTTPEnvs, NEW s \in DOMAIN HTTPValues
    PROVE  e[s] \in HTTPValues[s] \cup {Unset}
  <1> DEFINE values == WithRuntime(HTTPValues)
  <1>1. e \in Changed(Defaults(values), values)
    BY DEF HTTPEnvs
  <1>2. s \in DOMAIN values /\ values[s] = HTTPValues[s]
    BY DEF WithRuntime
  <1>3. s \in DOMAIN Defaults(values) /\ Defaults(values)[s] = Unset
    BY <1>2 DEF Defaults
  <1> HIDE DEF values
  <1> QED BY <1>1, <1>2, <1>3, SettingChanged

\* What the HTTP settings parse to has the type the chain expects.
LEMMA HTTPSettingTypes ==
    ASSUME NEW e \in HTTPEnvs
    PROVE  /\ getParsed(e.HTTP_REQUEST_ID_REJECT_INVALID, FALSE) \in BOOLEAN
           /\ getParsed(e.HTTP_REQUEST_TIMEOUT, 9) \in Int
           /\ getParsed(e.HEALTH_STREAM_CHECK_INTERVAL, 3) \in Int
           /\ getParsed(e.HEALTH_STREAM_HEARTBEAT_INTERVAL, 1) \in Int
  <1>1. {"HTTP_REQUEST_ID_REJECT_INVALID", "HTTP_REQUEST_TIMEOUT",
           "HEALTH_STREAM_CHECK_INTERVAL", "HEALTH_STREAM_HEARTBEAT_INTERVAL"}
            \subseteq DOMAIN HTTPValues
    BY DEF HTTPValues
  <1>2. /\ HTTPValues.HTTP_REQUEST_ID_REJECT_INVALID = Switch
        /\ HTTPValues.HTTP_REQUEST_TIMEOUT = Lengths
        /\ HTTPValues.HEALTH_STREAM_CHECK_INTERVAL = Lengths \cup {12}
        /\ HTTPValues.HEALTH_STREAM_HEARTBEAT_INTERVAL = Lengths \cup {12}
    BY DEF HTTPValues
  <1>3. /\ e.HTTP_REQUEST_ID_REJECT_INVALID \in Switch \cup {Unset}
        /\ e.HTTP_REQUEST_TIMEOUT \in Lengths \cup {Unset}
        /\ e.HEALTH_STREAM_CHECK_INTERVAL \in Lengths \cup {12, Unset}
        /\ e.HEALTH_STREAM_HEARTBEAT_INTERVAL \in Lengths \cup {12, Unset}
    <2>1. \A s \in DOMAIN HTTPValues : e[s] \in HTTPValues[s] \cup {Unset}
      BY HTTPSetting
    <2> QED BY <1>1, <1>2, <2>1
  <1>4. getParsed(e.HTTP_REQUEST_ID_REJECT_INVALID, FALSE) \in BOOLEAN
    BY <1>3 DEF getParsed, Switch
  <1>5. getParsed(e.HTTP_REQUEST_TIMEOUT, 9) \in Int
    <2>1. e.HTTP_REQUEST_TIMEOUT \in Lengths \cup {12, Unset}
      BY <1>3
    <2> QED BY <2>1, ParsedLength
  <1>6. getParsed(e.HEALTH_STREAM_CHECK_INTERVAL, 3) \in Int
    <2>1. e.HEALTH_STREAM_CHECK_INTERVAL \in Lengths \cup {12, Unset}
      BY <1>3
    <2> QED BY <2>1, ParsedLength
  <1>7. getParsed(e.HEALTH_STREAM_HEARTBEAT_INTERVAL, 1) \in Int
    <2>1. e.HEALTH_STREAM_HEARTBEAT_INTERVAL \in Lengths \cup {12, Unset}
      BY <1>3
    <2> QED BY <2>1, ParsedLength
  <1> QED BY <1>4, <1>5, <1>6, <1>7

\* A server that was built from accepted HTTP settings has a deadline and its tickers start.
LEMMA HTTPBoot ==
    ASSUME NEW e \in HTTPEnvs, ~invalidHTTPAPI(httpapiConfig(e)),
           H!buildServer(httpapiConfig(e)) # BuildFailed
    PROVE  /\ H!buildServer(httpapiConfig(e)) \in
                [timeout : BOOLEAN, incoming : BOOLEAN, response : BOOLEAN,
                 reject : BOOLEAN, limiter : BOOLEAN, tickers : BOOLEAN]
           /\ H!buildServer(httpapiConfig(e)).timeout = TRUE
           /\ H!buildServer(httpapiConfig(e)).tickers = TRUE
  <1> DEFINE c == httpapiConfig(e)
  <1>1. c.RejectInvalid \in BOOLEAN
    BY HTTPSettingTypes DEF httpapiConfig
  <1>2. /\ c.RequestTimeout \in Int /\ c.CheckInterval \in Int /\ c.HeartbeatInterval \in Int
    BY HTTPSettingTypes DEF httpapiConfig
  <1> HIDE DEF c
  <1>3. c.RequestTimeout > 0 /\ c.CheckInterval > 0 /\ c.HeartbeatInterval > 0
    BY <1>2 DEF invalidHTTPAPI, c
  <1>4. H!buildServer(c) =
          [timeout |-> c.RequestTimeout > 0,
           incoming |-> H!normalizeHeaderKey(c.IncomingKey) # Empty,
           response |-> H!normalizeHeaderKey(c.ResponseKey) # Empty,
           reject |-> c.RejectInvalid,
           limiter |-> c.Capacity > 0 /\ c.RefillInterval \div 2 > 0,
           tickers |-> c.CheckInterval > 0 /\ c.HeartbeatInterval > 0]
    BY DEF H!buildServer, H!NewRequestContextMiddleware, c
  <1>5. /\ (c.RequestTimeout > 0) = TRUE
        /\ (c.CheckInterval > 0 /\ c.HeartbeatInterval > 0) = TRUE
    BY <1>3
  <1>6. /\ (c.Capacity > 0 /\ c.RefillInterval \div 2 > 0) \in BOOLEAN
        /\ (H!normalizeHeaderKey(c.IncomingKey) # Empty) \in BOOLEAN
        /\ (H!normalizeHeaderKey(c.ResponseKey) # Empty) \in BOOLEAN
    OBVIOUS
  <1>7. \E incoming, response, limiter \in BOOLEAN :
            H!buildServer(c) =
              [timeout |-> TRUE, incoming |-> incoming, response |-> response,
               reject |-> c.RejectInvalid, limiter |-> limiter, tickers |-> TRUE]
    BY <1>4, <1>5, <1>6, Zenon
  <1> QED BY <1>1, <1>7 DEF c

\* The same for a gRPC environment, with TLS or without.
LEMMA GRPCSetting ==
    ASSUME NEW e \in GRPCEnvs, NEW s \in DOMAIN GRPCValues
    PROVE  e[s] \in GRPCValues[s] \cup {Unset}
  <1> DEFINE values == WithRuntime(GRPCValues)
             plain == Defaults(values)
             tls == [plain EXCEPT !.GRPC_SERVER_TLS_ENABLED = TRUE,
                                  !.GRPC_SERVER_TLS_CERT_FILE = "pem",
                                  !.GRPC_SERVER_TLS_KEY_FILE = "pem"]
             mtls == [tls EXCEPT !.GRPC_SERVER_TLS_CLIENT_CA_FILE = "pem"]
             strict == [mtls EXCEPT !.GRPC_SERVER_TLS_REQUIRE_CLIENT_CERT = TRUE]
  <1>1. e \in Changed(plain, values) \/ \E base \in {tls, mtls, strict} : e \in Changed(base, GRPCValues)
    BY DEF GRPCEnvs
  <1>2. s \in DOMAIN values /\ values[s] = GRPCValues[s]
    BY DEF WithRuntime
  <1>3. s \in DOMAIN plain /\ plain[s] = Unset
    BY <1>2 DEF Defaults
  <1>4. /\ TRUE \in GRPCValues.GRPC_SERVER_TLS_ENABLED
        /\ "pem" \in GRPCValues.GRPC_SERVER_TLS_CERT_FILE
        /\ "pem" \in GRPCValues.GRPC_SERVER_TLS_KEY_FILE
        /\ "pem" \in GRPCValues.GRPC_SERVER_TLS_CLIENT_CA_FILE
        /\ TRUE \in GRPCValues.GRPC_SERVER_TLS_REQUIRE_CLIENT_CERT
    BY DEF GRPCValues, Switch
  <1> HIDE DEF values, plain
  <1>5. s \in DOMAIN tls /\ tls[s] \in GRPCValues[s] \cup {Unset}
    BY <1>3, <1>4
  <1> HIDE DEF tls
  <1>6. s \in DOMAIN mtls /\ mtls[s] \in GRPCValues[s] \cup {Unset}
    BY <1>4, <1>5
  <1> HIDE DEF mtls
  <1>7. s \in DOMAIN strict /\ strict[s] \in GRPCValues[s] \cup {Unset}
    BY <1>4, <1>6
  <1> HIDE DEF strict
  <1>8. CASE e \in Changed(plain, values)
    BY <1>2, <1>3, <1>8, SettingChanged
  <1>9. CASE \E base \in {tls, mtls, strict} : e \in Changed(base, GRPCValues)
    <2>1. PICK base \in {tls, mtls, strict} : e \in Changed(base, GRPCValues)
      BY <1>9
    <2>2. s \in DOMAIN base /\ base[s] \in GRPCValues[s] \cup {Unset}
      BY <1>5, <1>6, <1>7
    <2> QED BY <2>1, <2>2, SettingChanged
  <1> QED BY <1>1, <1>8, <1>9

\* What the gRPC settings parse to has the type the chain expects.
LEMMA GRPCSettingTypes ==
    ASSUME NEW e \in GRPCEnvs
    PROVE  /\ getParsed(e.GRPC_REQUEST_ID_REJECT_INVALID, FALSE) \in BOOLEAN
           /\ getParsed(e.GRPC_SERVER_TLS_ENABLED, FALSE) \in BOOLEAN
           /\ getParsed(e.GRPC_SERVER_TLS_REQUIRE_CLIENT_CERT, FALSE) \in BOOLEAN
           /\ getParsed(e.GRPC_REQUEST_TIMEOUT, 9) \in Int
  <1>1. {"GRPC_REQUEST_ID_REJECT_INVALID", "GRPC_SERVER_TLS_ENABLED",
         "GRPC_SERVER_TLS_REQUIRE_CLIENT_CERT", "GRPC_REQUEST_TIMEOUT"} \subseteq DOMAIN GRPCValues
    BY DEF GRPCValues
  <1>2. /\ GRPCValues.GRPC_REQUEST_ID_REJECT_INVALID = Switch
        /\ GRPCValues.GRPC_SERVER_TLS_ENABLED = Switch
        /\ GRPCValues.GRPC_SERVER_TLS_REQUIRE_CLIENT_CERT = Switch
        /\ GRPCValues.GRPC_REQUEST_TIMEOUT = Lengths
    BY DEF GRPCValues
  <1>3. \A s \in DOMAIN GRPCValues : e[s] \in GRPCValues[s] \cup {Unset}
    BY GRPCSetting
  <1>4. /\ e.GRPC_REQUEST_ID_REJECT_INVALID \in Switch \cup {Unset}
        /\ e.GRPC_SERVER_TLS_ENABLED \in Switch \cup {Unset}
        /\ e.GRPC_SERVER_TLS_REQUIRE_CLIENT_CERT \in Switch \cup {Unset}
        /\ e.GRPC_REQUEST_TIMEOUT \in Lengths \cup {12, Unset}
    BY <1>1, <1>2, <1>3
  <1>5. getParsed(e.GRPC_REQUEST_ID_REJECT_INVALID, FALSE) \in BOOLEAN
    BY <1>4 DEF getParsed, Switch
  <1>6. getParsed(e.GRPC_SERVER_TLS_ENABLED, FALSE) \in BOOLEAN
    BY <1>4 DEF getParsed, Switch
  <1>7. getParsed(e.GRPC_SERVER_TLS_REQUIRE_CLIENT_CERT, FALSE) \in BOOLEAN
    BY <1>4 DEF getParsed, Switch
  <1>8. getParsed(e.GRPC_REQUEST_TIMEOUT, 9) \in Int
    <2>1. e.GRPC_REQUEST_TIMEOUT \in Lengths \cup {12, Unset}
      BY <1>4
    <2> QED BY <2>1, ParsedLength
  <1> QED BY <1>5, <1>6, <1>7, <1>8

\* A server that was built from accepted gRPC settings has a deadline, and verifies the
\* certificates it was told to require.
LEMMA GRPCBoot ==
    ASSUME NEW e \in GRPCEnvs, ~invalidGRPCAPI(grpcapiConfig(e)),
           G!buildServer(grpcapiConfig(e)) # BuildFailed
    PROVE  /\ G!buildServer(grpcapiConfig(e)) \in
                [timeout : BOOLEAN, incoming : BOOLEAN, response : BOOLEAN, reject : BOOLEAN,
                 auth : {"plain", "server", "verify", "require"}, required : BOOLEAN]
           /\ G!buildServer(grpcapiConfig(e)).timeout = TRUE
           /\ G!buildServer(grpcapiConfig(e)).required =>
                G!buildServer(grpcapiConfig(e)).auth = "require"
  <1> DEFINE c == grpcapiConfig(e)
             auth == G!buildTransportCredentials(c)
  <1>1. c.RejectInvalid \in BOOLEAN /\ c.TLSEnabled \in BOOLEAN /\ c.RequireClientCert \in BOOLEAN
    BY GRPCSettingTypes DEF grpcapiConfig
  <1>2. c.RequestTimeout \in Int
    BY GRPCSettingTypes DEF grpcapiConfig
  <1> HIDE DEF c
  <1>3. c.RequestTimeout > 0 /\ ~validateGRPCTLS(c)
    BY <1>2 DEF invalidGRPCAPI, c
  <1>4. /\ auth # BuildFailed
        /\ G!buildServer(c) =
          [timeout |-> c.RequestTimeout > 0,
           incoming |-> G!NormalizeKey(c.IncomingKey) # Empty,
           response |-> G!NormalizeKey(c.ResponseKey) # Empty,
           reject |-> c.RejectInvalid, auth |-> auth, required |-> c.RequireClientCert]
    BY DEF G!buildServer, G!NewRequestContext, c
  <1>5. /\ auth \in {"plain", "server", "verify", "require"}
        /\ c.RequireClientCert => auth = "require"
    BY <1>1, <1>3, <1>4 DEF G!buildTransportCredentials, G!LoadServer, G!ClientAuth, validateGRPCTLS
  <1> HIDE DEF auth
  <1>6. /\ (c.RequestTimeout > 0) = TRUE
        /\ (G!NormalizeKey(c.IncomingKey) # Empty) \in BOOLEAN
        /\ (G!NormalizeKey(c.ResponseKey) # Empty) \in BOOLEAN
    BY <1>3
  <1>7. \E incoming, response \in BOOLEAN :
            G!buildServer(c) =
              [timeout |-> TRUE, incoming |-> incoming, response |-> response,
               reject |-> c.RejectInvalid, auth |-> auth, required |-> c.RequireClientCert]
    BY <1>4, <1>6, Zenon
  <1> QED BY <1>1, <1>5, <1>7 DEF c
----------------------------------------------------------------------------
(* The HTTP chain.                                                         *)

ErrorCodes == {"INVALID_QUERY", "INVALID_REQUEST_ID", "REQUEST_CANCELED", "INVALID_ARGUMENT",
               "UNAUTHORIZED", "FORBIDDEN", "NOT_FOUND", "CONFLICT", "TOO_MANY_REQUESTS",
               "UNAVAILABLE", "TIMEOUT", "INTERNAL"}

\* The statuses of the application's codes.
LEMMA CodeStatus ==
    /\ DOMAIN H!codeStatusMap = ErrorCodes
    /\ H!Statuses \subseteq Int /\ {200, 204, 302, 404, 413, 500} \subseteq H!Statuses
    /\ H!toHTTPStatus("REQUEST_CANCELED") = 499 /\ H!toHTTPStatus("TIMEOUT") = 504
    /\ \A code \in ErrorCodes :
        /\ H!toHTTPStatus(code) \in H!Statuses
        /\ H!toHTTPStatus(code) >= 500 <=> code \in {"UNAVAILABLE", "TIMEOUT", "INTERNAL"}
        /\ H!toHTTPStatus(code) = 503 <=> code = "UNAVAILABLE"
  <1>1. DOMAIN H!codeStatusMap = ErrorCodes
    BY DEF H!codeStatusMap, ErrorCodes
  <1>2. H!Statuses \subseteq Int /\ {200, 204, 302, 404, 413, 500} \subseteq H!Statuses
    BY DEF H!Statuses, H!codeStatusMap
  <1>3. H!toHTTPStatus("REQUEST_CANCELED") = 499 /\ H!toHTTPStatus("TIMEOUT") = 504
    BY DEF H!toHTTPStatus, H!codeStatusMap
  <1>4. ASSUME NEW code \in ErrorCodes
        PROVE  /\ H!toHTTPStatus(code) \in H!Statuses
               /\ H!toHTTPStatus(code) >= 500 <=> code \in {"UNAVAILABLE", "TIMEOUT", "INTERNAL"}
               /\ H!toHTTPStatus(code) = 503 <=> code = "UNAVAILABLE"
    <2>1. H!toHTTPStatus(code) = H!codeStatusMap[code] /\ H!toHTTPStatus(code) \in H!Statuses
      BY <1>1 DEF H!toHTTPStatus, H!Statuses
    <2>2. /\ H!codeStatusMap[code] >= 500 <=> code \in {"UNAVAILABLE", "TIMEOUT", "INTERNAL"}
          /\ H!codeStatusMap[code] = 503 <=> code = "UNAVAILABLE"
      BY DEF H!codeStatusMap, ErrorCodes
    <2> QED BY <2>1, <2>2
  <1> QED BY <1>1, <1>2, <1>3, <1>4

\* A report names the dependency that stopped the check, if one did.
LEMMA HTTPReports ==
    ASSUME NEW mode, NEW failing \in H!Calls \cup {"none"}
    PROVE  /\ H!Check(mode, failing) \in H!Reports /\ H!Consistent(H!Check(mode, failing))
           /\ H!Down(H!Check(mode, failing)) <=> mode # "live" /\ failing # "none"
  <1>1. H!Check(mode, failing) =
          IF mode = "live" THEN [database |-> "skipped", cache |-> "skipped", kvstore |-> "skipped"]
          ELSE IF failing = "none" THEN [database |-> "up", cache |-> "up", kvstore |-> "up"]
          ELSE IF failing \in H!DBCalls
          THEN [database |-> "down", cache |-> "skipped", kvstore |-> "skipped"]
          ELSE IF failing = "cache.Ping"
          THEN [database |-> "up", cache |-> "down", kvstore |-> "skipped"]
          ELSE [database |-> "up", cache |-> "up", kvstore |-> "down"]
    BY DEF H!Check, H!Calls, H!DBCalls
  <1>2. mode # "live" => H!Check(mode, failing) = H!Check("ready", failing)
    BY DEF H!Check
  <1>3. H!Consistent(H!Check(mode, failing))
    BY <1>1, <1>2 DEF H!Consistent
  <1> QED BY <1>1, <1>3 DEF H!Reports, H!Down

\* A step to another stage inside the chain, without an answer.
LEMMA HTTPGoto ==
    ASSUME HTTPInv, pc \in H!Inside, NEW stage \in H!Inside, H!Goto(stage),
           pc \in H!Streaming <=> stage \in H!Streaming,
           stage \in H!Streaming \cup {"sse"} => req.route = "stream",
           stage \in {"limit", "route", "session", "handler"} => (armed <=> req.path # "stream"),
           stage \in {"session", "handler"} => req.route # "unknown"
    PROVE  HTTPInv'
  <1>1. H!TypeOK'
    BY DEF HTTPInv, H!TypeOK, H!Goto, H!Inside, H!Stages
  <1>2. HTTPSettings'
    BY DEF HTTPInv, HTTPSettings, H!Goto
  <1>3. HTTPInwards'
    BY DEF HTTPInv, HTTPInwards, H!Goto, H!Inside, H!Streaming
  <1>4. HTTPAnswer'
    BY DEF HTTPInv, HTTPAnswer, H!Goto, H!Inside, H!Streaming, Blames, H!isClientError, H!As, H!IsClientError
  <1>5. HTTPRecords'
    BY DEF HTTPInv, HTTPRecords, H!Goto, H!Inside, H!Streaming, H!TooLarge
  <1> QED BY <1>1, <1>2, <1>3, <1>4, <1>5 DEF HTTPInv
Outcomes == [err : H!Errors \cup {None}, code : DOMAIN H!codeStatusMap]

\* The answer to a request that had none.
LEMMA HTTPRespond ==
    ASSUME HTTPInv, pc \in H!Inside \ H!Streaming,
           NEW status \in H!Statuses, NEW report \in H!Reports \cup {None},
           H!Write(status, report), H!Answered,
           outcome' \in Outcomes \cup {None},
           outcome' # None => Blames(outcome') /\ status = H!toHTTPStatus(outcome'.code),
           outcome' = None => status < 500,
           report # None => H!Consistent(report) /\ (status = 503 <=> H!Down(report))
    PROVE  HTTPInv'
  <1>0. wire' = <<status>> /\ Len(wire') = 1 /\ Head(wire') = status /\ body' = report
    BY DEF HTTPInv, HTTPInwards, H!Write
  <1>1. H!TypeOK'
    BY <1>0 DEF HTTPInv, H!TypeOK, H!Answered, H!Write, H!Inside, H!Stages, Outcomes
  <1>2. HTTPSettings'
    BY DEF HTTPInv, HTTPSettings, H!Answered
  <1>3. HTTPInwards'
    BY DEF HTTPInv, HTTPInwards, H!Answered, H!Inside, H!Streaming
  <1>4. HTTPAnswer'
    BY <1>0 DEF HTTPAnswer, H!Answered, H!Write
  <1>5. HTTPRecords'
    BY DEF HTTPInv, HTTPRecords, H!Answered, H!Inside, H!Streaming, H!TooLarge
  <1> QED BY <1>1, <1>2, <1>3, <1>4, <1>5 DEF HTTPInv

\* A handler that answers a success keeps the invariant.
LEMMA HTTPSuccess ==
    ASSUME HTTPInv, pc \in H!Inside \ H!Streaming, NEW status \in {200, 204, 302},
           NEW report \in H!Reports \cup {None}, H!Write(status, report), UNCHANGED outcome,
           H!Answered, report # None => H!Consistent(report) /\ ~H!Down(report)
    PROVE  HTTPInv'
  <1>1. outcome' = None
    BY DEF HTTPInv, HTTPInwards
  <1>2. status \in H!Statuses /\ status < 500 /\ status # 503
    BY CodeStatus
  <1> QED BY <1>1, <1>2, HTTPRespond

\* writeError, with or without a report.
LEMMA HTTPError ==
    ASSUME HTTPInv, pc \in H!Inside \ H!Streaming,
           NEW err \in H!Errors \cup {None}, NEW code \in ErrorCodes,
           Blames([err |-> err, code |-> code]),
           NEW report \in H!Reports \cup {None},
           report # None => H!Consistent(report) /\ (code = "UNAVAILABLE" <=> H!Down(report)),
           H!recordErrorOutcome(err, code), H!Write(H!toHTTPStatus(code), report), H!Answered
    PROVE  HTTPInv'
  <1> DEFINE o == [err |-> err, code |-> code]
  <1>1. o \in Outcomes /\ o # None /\ o.code = code
    BY CodeStatus, InboundConstants DEF Outcomes
  <1>2. outcome' = o
    BY DEF H!recordErrorOutcome
  <1>3. H!toHTTPStatus(code) \in H!Statuses /\ (H!toHTTPStatus(code) = 503 <=> code = "UNAVAILABLE")
    BY CodeStatus
  <1> HIDE DEF o
  <1>4. Blames(outcome') /\ H!toHTTPStatus(code) = H!toHTTPStatus(outcome'.code)
    BY <1>1, <1>2 DEF o
  <1> QED BY <1>1, <1>2, <1>3, <1>4, HTTPRespond

\* An error the middleware or the binder answers itself blames no context and no outage.
LEMMA HTTPRefuse ==
    ASSUME HTTPInv, pc \in H!Inside \ H!Streaming,
           NEW err \in H!Errors \cup {None}, NEW code \in ErrorCodes \ {"UNAVAILABLE", "TIMEOUT", "INTERNAL"},
           err # None => err.cause = "none", H!Refuse(err, code)
    PROVE  HTTPInv'
  <1>1. Blames([err |-> err, code |-> code])
    BY CodeStatus DEF Blames
  <1> QED BY <1>1, HTTPError DEF H!Refuse, H!writeError

\* AppError: the end of the context comes first.  An error that wraps a deadline is not
\* the client's.
LEMMA AppErrorBlames ==
    ASSUME NEW err \in H!Errors, err.code # "PLAIN",
           err.cause = "deadline" => ~H!IsClientError(err)
    PROVE  LET code == IF H!contextCode(err) # None THEN H!contextCode(err) ELSE H!errorCode(err)
           IN  code \in ErrorCodes /\ Blames([err |-> err, code |-> code])
  <1> DEFINE code == IF H!contextCode(err) # None THEN H!contextCode(err) ELSE H!errorCode(err)
  <1>1. err.code \in ErrorCodes /\ err.cause \in {"none", "canceled", "deadline"} /\ None \notin ErrorCodes
    BY CodeStatus, InboundConstants DEF H!Errors
  <1>2. /\ err.cause = "canceled" => code = "REQUEST_CANCELED"
        /\ err.cause = "deadline" => code = "TIMEOUT"
        /\ err.cause = "none" => code = err.code
    BY <1>1 DEF H!contextCode, H!errorCode, H!As, ErrorCodes
  <1>3. code \in ErrorCodes
    BY <1>1, <1>2 DEF ErrorCodes
  <1>4. err # None
    BY InboundConstants
  <1>5. H!toHTTPStatus(code) >= 500 => ~H!isClientError(err)
    <2>1. H!toHTTPStatus(code) >= 500 => code \in {"UNAVAILABLE", "TIMEOUT", "INTERNAL"}
      BY <1>3, CodeStatus
    <2>2. code \in {"UNAVAILABLE", "TIMEOUT", "INTERNAL"} => ~H!IsClientError(err)
      BY <1>1, <1>2 DEF H!IsClientError
    <2> QED BY <2>1, <2>2 DEF H!isClientError
  <1> QED BY <1>2, <1>3, <1>4, <1>5 DEF Blames

\* An application error is answered with the status its cause deserves.
LEMMA HTTPFail ==
    ASSUME HTTPInv, pc \in H!Inside \ H!Streaming, NEW err \in H!Errors, err.code # "PLAIN",
           err.cause = "deadline" => ~H!IsClientError(err), H!Fail(err)
    PROVE  HTTPInv'
  <1>1. PICK code \in ErrorCodes : Blames([err |-> err, code |-> code]) /\ H!writeError(err, code)
    BY AppErrorBlames DEF H!Fail, H!AppError
  <1>2. H!Answered
    BY DEF H!Fail
  <1> QED BY <1>1, <1>2, HTTPError DEF H!writeError

\* A panic, or the router's error, leaves the handler without an answer.
LEMMA HTTPUnwind ==
    ASSUME HTTPInv, pc \in H!Inside, NEW error \in {"not_found", "panic", "abort"},
           H!Unwind(error)
    PROVE  HTTPInv'
  <1>1. H!TypeOK'
    BY DEF HTTPInv, H!TypeOK, H!Unwind, H!Stages
  <1>2. HTTPSettings'
    BY DEF HTTPInv, HTTPSettings, H!Unwind
  <1>3. HTTPInwards'
    BY DEF HTTPInv, HTTPInwards, H!Unwind, H!Inside, H!Streaming
  <1>4. HTTPAnswer'
    BY DEF HTTPInv, HTTPInwards, HTTPAnswer, H!Unwind, Blames, H!isClientError, H!As, H!IsClientError
  <1>5. HTTPRecords'
    BY DEF HTTPInv, HTTPRecords, H!Unwind, H!Inside, H!Streaming, H!TooLarge
  <1> QED BY <1>1, <1>2, <1>3, <1>4, <1>5 DEF HTTPInv
\* A span and no records.
LEMMA NoRecords ==
    ASSUME NEW span \in {"none", "open"}
    PROVE  /\ [span |-> span, metrics |-> <<>>, log |-> <<>>] \in H!Telemetry
           /\ [span |-> span, metrics |-> <<>>, log |-> <<>>] \in G!Telemetry
  <1>1. \A S : <<>> \in Seq(S)
    OBVIOUS
  <1> QED BY <1>1 DEF H!Telemetry, G!Telemetry

\* A failed dependency is nobody's fault but the server's.
LEMMA FailureErrors ==
    ASSUME NEW code \in {"UNAVAILABLE", "INTERNAL"}, NEW err \in H!Failures(code)
    PROVE  err \in H!Errors /\ err.code = code /\ ~H!IsClientError(err)
  BY CodeStatus DEF H!Failures, H!AppErr, H!Errors, H!IsClientError, ErrorCodes

\* A request enters an idle server with a fresh context and no records.
LEMMA HTTPReceive ==
    ASSUME HTTPInv, NEW r \in H!Requests, H!Receive(r)
    PROVE  HTTPInv'
  <1>0. pc = "listening" /\ H!Listening
    BY DEF HTTPInv, HTTPInwards, H!Receive
  <1>t. /\ tele'.metrics = <<>> /\ tele'.log = <<>>
        /\ tele'.span \in {"none", "open"}
    BY <1>0 DEF H!Receive, H!Listening, H!StartServer
  <1>1. H!TypeOK'
    <2>1. tele' \in H!Telemetry
      <3>1. \E span \in {"none", "open"} : tele' = [span |-> span, metrics |-> <<>>, log |-> <<>>]
        BY <1>0 DEF H!Receive, H!Listening, H!StartServer
      <3> QED BY <3>1, NoRecords
    <2> QED BY <1>0, <2>1 DEF HTTPInv, H!TypeOK, H!Receive, H!Stages, H!Inside
  <1>2. HTTPSettings'
    BY DEF HTTPInv, HTTPSettings, H!Receive
  <1>3. HTTPInwards'
    BY <1>0 DEF HTTPInv, HTTPInwards, H!Receive, H!Listening, H!Inside, H!Streaming
  <1>4. HTTPAnswer'
    BY <1>0 DEF HTTPAnswer, H!Receive, H!Listening
  <1>5. HTTPRecords'
    BY <1>0, <1>t DEF HTTPRecords, H!Receive, H!Listening, H!Inside, H!Streaming, H!TooLarge
  <1> QED BY <1>1, <1>2, <1>3, <1>4, <1>5 DEF HTTPInv

\* CORS answers a preflight and lets every other request in.
LEMMA HTTPCORS ==
    ASSUME HTTPInv, H!CORS
    PROVE  HTTPInv'
  <1>0. pc = "cors" /\ pc \in H!Inside \ H!Streaming
    BY DEF H!CORS, H!Inside, H!Streaming
  <1>1. CASE req.route = "preflight"
    BY <1>0, <1>1, HTTPSuccess DEF H!CORS
  <1>2. CASE req.route # "preflight"
    BY <1>0, <1>2, HTTPGoto DEF H!CORS, H!Inside, H!Streaming
  <1> QED BY <1>1, <1>2

\* The request context refuses an invalid ID or arms the deadline of all but the stream.
LEMMA HTTPRequestContext ==
    ASSUME HTTPInv, H!RequestContext
    PROVE  HTTPInv'
  <1>0. pc = "context" /\ pc \in H!Inside \ H!Streaming
    BY DEF H!RequestContext, H!Inside, H!Streaming
  <1>1. CASE H!incomingRequestID = "invalid" /\ cfg.reject
    <2>1. H!Refuse(H!Plain, "INVALID_REQUEST_ID")
      BY <1>1 DEF H!RequestContext
    <2>2. H!Plain \in H!Errors /\ H!Plain.cause = "none"
      BY DEF H!Plain, H!Errors
    <2>3. "INVALID_REQUEST_ID" \in ErrorCodes \ {"UNAVAILABLE", "TIMEOUT", "INTERNAL"}
      BY DEF ErrorCodes
    <2> QED BY <1>0, <2>1, <2>2, <2>3, HTTPRefuse
  <1>2. CASE ~(H!incomingRequestID = "invalid" /\ cfg.reject)
    <2>0. /\ meta' \in {{}, {"request_id"}, {"request_id", "echoed_id"}}
          /\ armed' = H!deadlineApplies
          /\ pc' = "limit"
          /\ UNCHANGED <<cfg, req, ctx, outcome, ret, wire, body, tele, stalled>>
      BY <1>2 DEF H!RequestContext
    <2>a. armed' \in BOOLEAN /\ (armed' <=> req.path # "stream")
      BY <2>0 DEF HTTPInv, HTTPSettings, H!deadlineApplies
    <2>1. H!TypeOK'
      BY <2>0, <2>a DEF HTTPInv, H!TypeOK, H!Stages, H!Inside, H!Marks
    <2>2. HTTPSettings'
      BY <2>0 DEF HTTPInv, HTTPSettings
    <2>3. HTTPInwards'
      BY <1>0, <2>0, <2>a DEF HTTPInv, HTTPInwards, H!Inside, H!Streaming
    <2>4. HTTPAnswer'
      BY <1>0, <2>0 DEF HTTPInv, HTTPInwards, HTTPAnswer
    <2>5. HTTPRecords'
      BY <1>0, <2>0 DEF HTTPInv, HTTPRecords, H!Inside, H!Streaming, H!TooLarge
    <2> QED BY <2>1, <2>2, <2>3, <2>4, <2>5 DEF HTTPInv
  <1> QED BY <1>1, <1>2

\* The limiter lets a request in, or refuses it as too many or as unavailable.
LEMMA HTTPLimit ==
    ASSUME HTTPInv, H!GlobalRateLimit
    PROVE  HTTPInv'
  <1>0. pc = "limit" /\ pc \in H!Inside \ H!Streaming
    BY DEF H!GlobalRateLimit, H!Inside, H!Streaming
  <1>1. CASE H!Goto("route")
    BY <1>0, <1>1, HTTPGoto DEF HTTPInv, HTTPInwards, H!Inside, H!Streaming
  <1>2. CASE H!Fail(H!AppErr("TOO_MANY_REQUESTS", "none"))
    <2>1. LET err == H!AppErr("TOO_MANY_REQUESTS", "none")
          IN err \in H!Errors /\ err.code # "PLAIN" /\ err.cause # "deadline"
      BY CodeStatus DEF H!AppErr, H!Errors, ErrorCodes
    <2> QED BY <1>0, <1>2, <2>1, HTTPFail
  <1>3. CASE \E err \in H!Failures("UNAVAILABLE") : H!Fail(err)
    BY <1>0, <1>3, FailureErrors, HTTPFail
  <1> QED BY <1>1, <1>2, <1>3 DEF H!GlobalRateLimit

\* The router finds a handler or unwinds with not found.
LEMMA HTTPRoute ==
    ASSUME HTTPInv, H!Route
    PROVE  HTTPInv'
  <1>0. pc = "route" /\ pc \in H!Inside \ H!Streaming
    BY DEF H!Route, H!Inside, H!Streaming
  <1>1. CASE H!Unwind("not_found")
    BY <1>0, <1>1, HTTPUnwind
  <1>2. CASE req.route # "unknown" /\ H!Goto("session")
    BY <1>0, <1>2, HTTPGoto DEF HTTPInv, HTTPInwards, H!Inside, H!Streaming
  <1>3. CASE req.route # "unknown" /\ H!Goto("handler")
    BY <1>0, <1>3, HTTPGoto DEF HTTPInv, HTTPInwards, H!Inside, H!Streaming
  <1> QED BY <1>1, <1>2, <1>3 DEF H!Route

\* The session middleware refuses, fails or lets the request in.
LEMMA HTTPSession ==
    ASSUME HTTPInv, H!Session
    PROVE  HTTPInv'
  <1>0. pc = "session" /\ pc \in H!Inside \ H!Streaming
    BY DEF H!Session, H!Inside, H!Streaming
  <1>1. CASE \E err \in {H!Plain, None} : H!Refuse(err, "UNAUTHORIZED")
    <2>1. H!Plain \in H!Errors /\ H!Plain.cause = "none"
      BY DEF H!Plain, H!Errors
    <2>2. "UNAUTHORIZED" \in ErrorCodes \ {"UNAVAILABLE", "TIMEOUT", "INTERNAL"}
      BY DEF ErrorCodes
    <2> QED BY <1>0, <1>1, <2>1, <2>2, HTTPRefuse
  <1>2. CASE \E err \in {H!AppErr("UNAUTHORIZED", "none")} \cup H!Failures("UNAVAILABLE") : H!Fail(err)
    <2>1. LET err == H!AppErr("UNAUTHORIZED", "none")
          IN err \in H!Errors /\ err.code # "PLAIN" /\ err.cause # "deadline"
      BY CodeStatus DEF H!AppErr, H!Errors, ErrorCodes
    <2> QED BY <1>0, <1>2, <2>1, FailureErrors, HTTPFail
  <1>3. CASE /\ pc' = "handler" /\ meta' = meta \cup {"session"}
             /\ UNCHANGED <<cfg, req, ctx, armed, outcome, ret, wire, body, tele, stalled>>
    <2>1. H!TypeOK'
      BY <1>3 DEF HTTPInv, H!TypeOK, H!Stages, H!Inside, H!Marks
    <2>2. HTTPSettings'
      BY <1>3 DEF HTTPInv, HTTPSettings
    <2>3. HTTPInwards'
      BY <1>0, <1>3 DEF HTTPInv, HTTPInwards, H!Inside, H!Streaming
    <2>4. HTTPAnswer'
      BY <1>0, <1>3 DEF HTTPInv, HTTPInwards, HTTPAnswer
    <2>5. HTTPRecords'
      BY <1>0, <1>3 DEF HTTPInv, HTTPRecords, H!Inside, H!Streaming, H!TooLarge
    <2> QED BY <2>1, <2>2, <2>3, <2>4, <2>5 DEF HTTPInv
  <1> QED BY <1>1, <1>2, <1>3 DEF H!Session

\* The health handler answers a consistent report, with 503 exactly when it is down.
LEMMA HTTPHealth ==
    ASSUME HTTPInv, pc = "handler", H!GetHealth
    PROVE  HTTPInv'
  <1>0. pc \in H!Inside \ H!Streaming
    BY DEF H!Inside, H!Streaming
  <1>1. CASE H!Success(H!Check(H!checkMode, "none"))
    <2>1. /\ H!Check(H!checkMode, "none") \in H!Reports
          /\ H!Consistent(H!Check(H!checkMode, "none")) /\ ~H!Down(H!Check(H!checkMode, "none"))
      BY HTTPReports
    <2> QED BY <1>0, <1>1, <2>1, HTTPSuccess DEF H!Success
  <1>2. CASE /\ H!checkMode # "live"
             /\ \E err \in H!Failures("UNAVAILABLE"), failing \in H!Calls :
                    H!AppErrorWithPayload(err, H!Check(H!checkMode, failing)) /\ H!Answered
    <2>1. PICK err \in H!Failures("UNAVAILABLE"), failing \in H!Calls :
                    H!AppErrorWithPayload(err, H!Check(H!checkMode, failing)) /\ H!Answered
      BY <1>2
    <2> DEFINE report == H!Check(H!checkMode, failing)
    <2>2. report \in H!Reports /\ H!Consistent(report) /\ H!Down(report)
      <3>1. failing \in H!Calls \cup {"none"} /\ failing # "none"
        BY DEF H!Calls, H!DBCalls
      <3> QED BY <1>2, <3>1, HTTPReports
    <2> HIDE DEF report
    <2>3. err \in H!Errors /\ err.code = "UNAVAILABLE" /\ ~H!IsClientError(err)
      BY FailureErrors
    <2>4. LET code == IF H!contextCode(err) # None THEN H!contextCode(err) ELSE H!errorCode(err)
          IN  code \in ErrorCodes /\ Blames([err |-> err, code |-> code])
      BY <2>3, AppErrorBlames
    <2>5. CASE H!contextCode(err) # None
      <3>1. H!recordErrorOutcome(err, H!contextCode(err))
            /\ H!Write(H!toHTTPStatus(H!contextCode(err)), None)
        BY <2>1, <2>5 DEF H!AppErrorWithPayload, H!writeError
      <3> QED BY <1>0, <2>1, <2>3, <2>4, <2>5, <3>1, HTTPError
    <2>6. CASE H!contextCode(err) = None
      <3>1. /\ H!recordErrorOutcome(err, H!errorCode(err))
            /\ H!Write(H!toHTTPStatus(H!errorCode(err)), report)
        BY <2>1, <2>6 DEF H!AppErrorWithPayload, report
      <3>2. H!errorCode(err) = "UNAVAILABLE"
        BY <2>3, InboundConstants, CodeStatus DEF H!errorCode, H!As, ErrorCodes
      <3> QED BY <1>0, <2>1, <2>2, <2>3, <2>4, <2>6, <3>1, <3>2, HTTPError
    <2> QED BY <2>5, <2>6
  <1> QED BY <1>1, <1>2 DEF H!GetHealth

\* Each handler answers once, succeeds or fails for a reason it names.
LEMMA HTTPHandler ==
    ASSUME HTTPInv, H!Handler
    PROVE  HTTPInv'
  <1>0. pc = "handler" /\ pc \in H!Inside \ H!Streaming
    BY DEF H!Handler, H!Inside, H!Streaming
  <1>1. CASE H!Me
    BY <1>0, <1>1, HTTPSuccess DEF H!Me, H!Success
  <1>2. CASE H!Refuse(H!Plain, "INVALID_QUERY")
    <2>1. H!Plain \in H!Errors /\ H!Plain.cause = "none"
      BY DEF H!Plain, H!Errors
    <2>2. "INVALID_QUERY" \in ErrorCodes \ {"UNAVAILABLE", "TIMEOUT", "INTERNAL"}
      BY DEF ErrorCodes
    <2> QED BY <1>0, <1>2, <2>1, <2>2, HTTPRefuse
  <1>3. CASE H!GetHealth
    BY <1>0, <1>3, HTTPHealth
  <1>4. CASE H!AuthSucceeds
    BY <1>0, <1>4, HTTPSuccess DEF H!AuthSucceeds
  <1>5. CASE \E err \in H!AuthErrors : H!Fail(err)
    <2>1. PICK err \in H!AuthErrors : H!Fail(err)
      BY <1>5
    <2>2. err \in H!Errors /\ err.code # "PLAIN" /\ (err.cause = "deadline" => ~H!IsClientError(err))
      <3>1. CASE err \in H!Failures("INTERNAL")
        BY <3>1, FailureErrors
      <3>2. CASE err \in {H!AppErr(code, "none") :
                            code \in {"INVALID_ARGUMENT", "UNAUTHORIZED", "FORBIDDEN", "CONFLICT"}}
        BY <3>2, CodeStatus DEF H!AppErr, H!Errors, ErrorCodes
      <3>3. CASE err \in H!ExchangeErrors
        BY <3>3, CodeStatus DEF H!ExchangeErrors, H!AppErr, H!Errors, H!IsClientError, ErrorCodes
      <3> QED BY <3>1, <3>2, <3>3 DEF H!AuthErrors
    <2> QED BY <1>0, <2>1, <2>2, HTTPFail
  <1>6. CASE req.route = "stream" /\ H!Goto("sse")
    BY <1>0, <1>6, HTTPGoto DEF H!Inside, H!Streaming
  <1> QED BY <1>1, <1>2, <1>3, <1>4, <1>5, <1>6 DEF H!Handler

\* A panic anywhere in the chain unwinds to the recovery middleware.
LEMMA HTTPPanics ==
    ASSUME HTTPInv, NEW how \in {"panic", "abort"}, H!Panics(how)
    PROVE  HTTPInv'
  BY HTTPUnwind DEF H!Panics, H!Inside, H!Streaming

\* A stream ends by leaving the loop, with the status it began with.
LEMMA HTTPStreamEnds ==
    ASSUME HTTPInv, pc \in H!Streaming, H!Goto("recover")
    PROVE  HTTPInv'
  <1>0. pc \in H!Inside /\ wire = <<200>> /\ outcome = None /\ ret = "nil" /\ body = None
    BY DEF HTTPInv, HTTPInwards, H!Inside, H!Streaming
  <1>1. H!TypeOK'
    BY DEF HTTPInv, H!TypeOK, H!Goto, H!Stages
  <1>2. HTTPSettings'
    BY DEF HTTPInv, HTTPSettings, H!Goto
  <1>3. HTTPInwards'
    BY <1>0 DEF HTTPInv, HTTPInwards, H!Goto, H!Inside, H!Streaming
  <1>4. HTTPAnswer'
    BY <1>0 DEF HTTPAnswer, H!Goto
  <1>5. HTTPRecords'
    BY <1>0 DEF HTTPInv, HTTPRecords, H!Goto, H!Inside, H!Streaming, H!TooLarge
  <1> QED BY <1>1, <1>2, <1>3, <1>4, <1>5 DEF HTTPInv

\* The stream's own stages.
LEMMA HTTPStream ==
    ASSUME HTTPInv,
           H!emitHealth \/ H!Comment \/ H!NewTickers \/ H!StreamTick \/ H!StreamDone
    PROVE  HTTPInv'
  <1>0. pc \in H!Streaming /\ pc \in H!Inside /\ req.route = "stream"
    BY DEF HTTPInv, HTTPInwards, H!Inside, H!Streaming, H!emitHealth, H!Comment, H!NewTickers,
           H!StreamTick, H!StreamDone
  <1>1. H!Goto("recover") \/ \E stage \in H!Streaming : H!Goto(stage)
    BY DEF H!emitHealth, H!Comment, H!NewTickers, H!StreamTick, H!StreamDone, H!Send, H!Streaming,
           HTTPInv, HTTPSettings
  <1>2. CASE H!Goto("recover")
    BY <1>0, <1>2, HTTPStreamEnds
  <1>3. CASE \E stage \in H!Streaming : H!Goto(stage)
    BY <1>0, <1>3, HTTPGoto DEF H!Streaming, H!Inside
  <1> QED BY <1>1, <1>2, <1>3

\* A stream begins with 200 on the wire, or fails before it wrote anything.
LEMMA HTTPStartSSE ==
    ASSUME HTTPInv, H!StartSSE
    PROVE  HTTPInv'
  <1>0. pc = "sse" /\ pc \in H!Inside \ H!Streaming
    BY DEF H!StartSSE, H!Inside, H!Streaming
  <1>1. CASE H!Fail(H!AppErr("INTERNAL", "none"))
    <2>1. LET err == H!AppErr("INTERNAL", "none")
          IN err \in H!Errors /\ err.code # "PLAIN" /\ err.cause # "deadline"
      BY CodeStatus DEF H!AppErr, H!Errors, ErrorCodes
    <2> QED BY <1>0, <1>1, <2>1, HTTPFail
  <1>2. CASE /\ wire' = Append(wire, 200) /\ pc' = "first"
             /\ UNCHANGED <<cfg, req, ctx, armed, meta, outcome, ret, body, tele, stalled>>
    <2>0. /\ wire' = <<200>> /\ Len(wire') = 1 /\ Head(wire') = 200
          /\ outcome = None /\ body = None /\ ret = "nil" /\ req.route = "stream"
      BY <1>0, <1>2 DEF HTTPInv, HTTPInwards
    <2>1. H!TypeOK'
      BY <1>2, <2>0, CodeStatus DEF HTTPInv, H!TypeOK, H!Stages, H!Inside, H!Streaming
    <2>2. HTTPSettings'
      BY <1>2 DEF HTTPInv, HTTPSettings
    <2>3. HTTPInwards'
      BY <1>0, <1>2, <2>0 DEF HTTPInv, HTTPInwards, H!Inside, H!Streaming
    <2>4. HTTPAnswer'
      BY <1>2, <2>0 DEF HTTPAnswer
    <2>5. HTTPRecords'
      BY <1>0, <1>2 DEF HTTPInv, HTTPRecords, H!Inside, H!Streaming, H!TooLarge
    <2> QED BY <2>1, <2>2, <2>3, <2>4, <2>5 DEF HTTPInv
  <1> QED BY <1>1, <1>2 DEF H!StartSSE
\* Recovery answers a panic only if nothing was sent yet.
LEMMA HTTPRecovery ==
    ASSUME HTTPInv, H!Recovery
    PROVE  HTTPInv'
  <1>0. /\ pc = "recover" /\ UNCHANGED <<cfg, req, ctx, armed, meta, tele, stalled>>
        /\ pc' \in {"aborted", "observe"} /\ req \in H!Requests
    BY DEF H!Recovery, HTTPInv, HTTPInwards
  <1>p. /\ H!Plain \in H!Errors /\ H!Plain.cause = "none" /\ H!Plain.code = "PLAIN"
        /\ "INTERNAL" \in ErrorCodes /\ ~H!isClientError(H!Plain)
    BY DEF H!Plain, H!Errors, ErrorCodes, H!isClientError, H!As
  <1>q. /\ Blames([err |-> H!Plain, code |-> "INTERNAL"])
        /\ [err |-> H!Plain, code |-> "INTERNAL"] \in Outcomes
        /\ [err |-> H!Plain, code |-> "INTERNAL"] # None
    BY <1>p, InboundConstants, CodeStatus DEF Blames, Outcomes
  <1>r. H!toHTTPStatus("INTERNAL") \in H!Statuses
    BY <1>p, CodeStatus
  <1>2. HTTPSettings'
    BY <1>0 DEF HTTPInv, HTTPSettings
  <1>3. HTTPInwards'
    BY <1>0 DEF HTTPInv, HTTPInwards, H!Inside, H!Streaming
  <1>5. HTTPRecords'
    BY <1>0 DEF HTTPInv, HTTPRecords, H!Inside, H!Streaming, H!TooLarge
  <1>6. CASE ret = "panic" /\ H!Committed
    <2>1. /\ pc' = "observe" /\ outcome' = [err |-> H!Plain, code |-> "INTERNAL"] /\ ret' = "cause"
          /\ UNCHANGED <<wire, body>>
      BY <1>6 DEF H!Recovery, H!recordErrorOutcome
    <2>2. wire = <<200>>
      BY <1>0, <1>6 DEF HTTPInv, HTTPAnswer, H!Committed
    <2>3. H!TypeOK'
      BY <1>0, <1>q, <2>1 DEF HTTPInv, H!TypeOK, H!Stages, Outcomes
    <2>4. HTTPAnswer'
      BY <1>q, <2>1, <2>2 DEF HTTPInv, HTTPAnswer
    <2> QED BY <1>2, <1>3, <1>5, <2>3, <2>4 DEF HTTPInv
  <1>7. CASE ret = "panic" /\ ~H!Committed
    <2>1. /\ pc' = "observe" /\ outcome' = [err |-> H!Plain, code |-> "INTERNAL"]
          /\ wire' = <<H!toHTTPStatus("INTERNAL")>> /\ body' = None /\ ret' \in {"nil", "write"}
      BY <1>7 DEF H!Recovery, H!writeError, H!recordErrorOutcome, H!Write, H!Committed
    <2>3. H!TypeOK'
      BY <1>0, <1>q, <1>r, <2>1 DEF HTTPInv, H!TypeOK, H!Stages, Outcomes
    <2>4. HTTPAnswer'
      BY <1>q, <2>1 DEF HTTPAnswer
    <2> QED BY <1>2, <1>3, <1>5, <2>3, <2>4 DEF HTTPInv
  <1>8. CASE ret # "panic"
    <2>1. /\ pc' = IF ret = "abort" THEN "aborted" ELSE "observe"
          /\ UNCHANGED <<outcome, ret, wire, body>>
      BY <1>8 DEF H!Recovery
    <2>3. H!TypeOK'
      BY <1>0, <2>1 DEF HTTPInv, H!TypeOK, H!Stages
    <2>4. HTTPAnswer'
      BY <1>0, <1>8, <2>1 DEF HTTPInv, HTTPAnswer
    <2> QED BY <1>2, <1>3, <1>5, <2>3, <2>4 DEF HTTPInv
  <1> QED BY <1>6, <1>7, <1>8

\* Observability records the status that was sent, or that Echo will send.
LEMMA HTTPObserve ==
    ASSUME HTTPInv, H!Observe
    PROVE  HTTPInv'
  <1> DEFINE o == H!newRequestOutcome
             status == H!ResolveResponseStatus
  <1>0. /\ pc = "observe" /\ pc' = "reply" /\ req \in H!Requests
        /\ UNCHANGED <<cfg, req, ctx, armed, meta, outcome, ret, wire, body, stalled>>
        /\ tele.metrics = <<>> /\ tele.log = <<>> /\ ~H!TooLarge(req)
    BY DEF H!Observe, HTTPInv, HTTPInwards, HTTPRecords
  <1>1. tele' = [span |-> H!TracingFinish(o), metrics |-> <<H!metricsRecord(o)>>,
                 log |-> <<H!accessLogRecord(o)>>]
    BY <1>0 DEF H!Observe
  <1>2. o.status = status /\ o.request = H!newRequestInfo /\ o.err = H!ErrorOutcomeFrom.err
        /\ o.code = H!ErrorOutcomeFrom.code
    BY DEF H!newRequestOutcome
  <1>3. status \in H!Statuses
    BY <1>0, CodeStatus DEF HTTPInv, H!TypeOK, HTTPAnswer, H!ResolveResponseStatus, H!Committed, H!ErrorStatus
  <1>4. o.err \in H!Errors \cup {None} /\ o.code \in DOMAIN H!codeStatusMap \cup {None}
    BY <1>2 DEF HTTPInv, H!TypeOK, H!ErrorOutcomeFrom
  <1>5. /\ o.request.method \in {"GET", "_OTHER"} /\ o.request.route \in H!Routes \cup {None}
    BY <1>0, <1>2 DEF H!newRequestInfo, H!normalizeRequestMethod, H!Requests
  <1>6. status >= 500 => H!TracingFinish(o) = "failed"
    <2>1. SUFFICES ASSUME status >= 500 PROVE o.err # None /\ ~H!isClientError(o.err)
      BY DEF H!TracingFinish, H!Finish
    <2>2. wire # <<>> /\ Head(wire) = status
      BY <1>0, <2>1 DEF HTTPInv, HTTPAnswer, H!ResolveResponseStatus, H!Committed, H!ErrorStatus
    <2>3. outcome # None
      BY <1>3, <2>1, <2>2, CodeStatus DEF HTTPInv, HTTPAnswer
    <2>4. o.err = outcome.err
      BY <1>2, <2>3 DEF H!ErrorOutcomeFrom
    <2>5. H!toHTTPStatus(outcome.code) >= 500
      BY <2>1, <2>2, <2>3 DEF HTTPInv, HTTPAnswer
    <2> QED BY <2>3, <2>4, <2>5 DEF HTTPInv, HTTPAnswer, Blames
  <1> HIDE DEF o
  <1>7. H!metricsRecord(o) \in [status : H!Statuses, error : BOOLEAN, method : {"GET", "_OTHER"},
                                route : H!Routes \cup {None}]
        /\ H!metricsRecord(o).status = status
    BY <1>2, <1>3, <1>5 DEF H!metricsRecord
  <1>8. /\ H!accessLogRecord(o) \in [status : H!Statuses, level : {"info", "error"},
                                     meta : SUBSET H!Marks,
                                     code : DOMAIN H!codeStatusMap \cup {None}]
        /\ H!accessLogRecord(o).status = status
        /\ H!accessLogRecord(o).meta = meta \cap {"request_id"}
    BY <1>2, <1>3, <1>4 DEF H!accessLogRecord, H!contextFieldsProvider, H!Marks
  <1>9. H!TracingFinish(o) \in {"ok", "failed"}
    BY DEF H!TracingFinish, H!Finish
  <1>10. H!TypeOK'
    <2>1. tele' \in H!Telemetry
      BY <1>1, <1>7, <1>8, <1>9 DEF H!Telemetry
    <2> QED BY <1>0, <2>1 DEF HTTPInv, H!TypeOK, H!Stages
  <1>11. HTTPSettings'
    BY <1>0 DEF HTTPInv, HTTPSettings
  <1>12. HTTPInwards'
    BY <1>0 DEF HTTPInv, HTTPInwards, H!Inside, H!Streaming
  <1>13. HTTPAnswer'
    BY <1>0 DEF HTTPInv, HTTPAnswer
  <1>14. HTTPRecords'
    <2>1. H!ResolveResponseStatus' = status
      BY <1>0 DEF H!ResolveResponseStatus, H!Committed, H!ErrorStatus
    <2>2. "echoed_id" \in meta => "request_id" \in meta
      BY DEF HTTPInv, HTTPInwards
    <2> HIDE DEF status
    <2> QED BY <1>0, <1>1, <1>6, <1>7, <1>8, <2>1, <2>2 DEF HTTPRecords, H!Inside, H!Streaming, H!TooLarge
  <1> QED BY <1>10, <1>11, <1>12, <1>13, <1>14 DEF HTTPInv

\* Echo writes a status only where nothing was written.
LEMMA HTTPReply ==
    ASSUME HTTPInv, H!Reply
    PROVE  HTTPInv'
  <1>0. /\ pc = "reply" /\ pc' = "done" /\ req \in H!Requests
        /\ UNCHANGED <<cfg, req, ctx, armed, meta, outcome, ret, body, tele, stalled>>
        /\ wire' = IF wire # <<>> THEN wire ELSE <<H!ErrorStatus(ret)>>
    BY DEF H!Reply, HTTPInv, HTTPInwards, H!Committed
  <1>1. H!ErrorStatus(ret) \in H!Statuses
    BY CodeStatus DEF H!ErrorStatus
  <1>2. H!TypeOK'
    BY <1>0, <1>1 DEF HTTPInv, H!TypeOK, H!Stages
  <1>3. HTTPSettings'
    BY <1>0 DEF HTTPInv, HTTPSettings
  <1>4. HTTPInwards'
    BY <1>0 DEF HTTPInv, HTTPInwards, H!Inside, H!Streaming
  <1>5. HTTPAnswer'
    BY <1>0 DEF HTTPInv, HTTPAnswer, H!ErrorStatus
  <1>6. HTTPRecords'
    <2>1. H!ResolveResponseStatus' = H!ResolveResponseStatus /\ wire' # <<>>
      BY <1>0 DEF H!ResolveResponseStatus, H!Committed, H!ErrorStatus
    <2>2. CASE H!TooLarge(req)
      BY <1>0, <2>2 DEF HTTPInv, HTTPRecords, H!Inside, H!Streaming, H!TooLarge, H!ErrorStatus
    <2>3. CASE ~H!TooLarge(req)
      BY <1>0, <2>1, <2>3 DEF HTTPInv, HTTPRecords, H!Inside, H!Streaming, H!TooLarge
    <2> QED BY <2>2, <2>3
  <1> QED BY <1>2, <1>3, <1>4, <1>5, <1>6 DEF HTTPInv
\* The context may end, and the client stall, while the request is inside.
LEMMA HTTPWorld ==
    ASSUME HTTPInv,
           H!ClientStalls \/ \E how \in {"canceled", "deadline", "expired"} : H!ContextEnds(how)
    PROVE  HTTPInv'
  <1>0. /\ pc \in H!Inside
        /\ UNCHANGED <<cfg, req, pc, armed, meta, outcome, ret, wire, body, tele>>
        /\ ctx' \in {ctx, "canceled", "deadline", "expired"} /\ (ctx' = "deadline" => armed)
        /\ stalled' \in BOOLEAN
    BY DEF HTTPInv, HTTPInwards, H!TypeOK, H!ClientStalls, H!ContextEnds, H!Inside, H!Streaming
  <1>1. H!TypeOK'
    BY <1>0 DEF HTTPInv, H!TypeOK
  <1>2. HTTPSettings'
    BY <1>0 DEF HTTPInv, HTTPSettings
  <1>3. HTTPInwards'
    BY <1>0 DEF HTTPInv, HTTPInwards, H!Inside, H!Streaming
  <1>4. HTTPAnswer'
    BY <1>0 DEF HTTPInv, HTTPAnswer
  <1>5. HTTPRecords'
    BY <1>0 DEF HTTPInv, HTTPRecords, H!Inside, H!Streaming
  <1> QED BY <1>1, <1>2, <1>3, <1>4, <1>5 DEF HTTPInv

\* Every step of the HTTP pipeline keeps its invariant.
LEMMA HTTPStep ==
    ASSUME HTTPInv, H!Next
    PROVE  HTTPInv'
  <1>1. CASE \E r \in H!Requests : H!Receive(r)
    BY <1>1, HTTPReceive
  <1>2. CASE H!Advance
    BY <1>2, HTTPCORS, HTTPRequestContext, HTTPLimit, HTTPRoute, HTTPSession, HTTPHandler,
       HTTPStartSSE, HTTPStream, HTTPRecovery, HTTPObserve, HTTPReply DEF H!Advance
  <1>3. CASE \E how \in {"panic", "abort"} : H!Panics(how)
    BY <1>3, HTTPPanics
  <1>4. CASE H!ClientStalls \/ \E how \in {"canceled", "deadline", "expired"} : H!ContextEnds(how)
    BY <1>4, HTTPWorld
  <1> QED BY <1>1, <1>2, <1>3, <1>4 DEF H!Next

----------------------------------------------------------------------------
(* The gRPC chain.                                                         *)

GRPCCodes == {"OK", "CANCELLED", "UNKNOWN", "INVALID_ARGUMENT", "DEADLINE_EXCEEDED", "NOT_FOUND",
              "ALREADY_EXISTS", "PERMISSION_DENIED", "RESOURCE_EXHAUSTED", "FAILED_PRECONDITION",
              "ABORTED", "OUT_OF_RANGE", "UNIMPLEMENTED", "INTERNAL", "UNAVAILABLE", "DATA_LOSS",
              "UNAUTHENTICATED"}

\* The codes of the model are those of gRPC; the code an outage maps to is among them.
LEMMA StatusCodes ==
    G!Codes = GRPCCodes /\ "UNAVAILABLE" \in DOMAIN G!appCodeToGRPCCode
  <1>1. DOMAIN G!statusNames = 1..17
    BY DEF G!statusNames
  <1>2. \A i \in 1..17 : G!statusNames[i] \in GRPCCodes
    BY DEF G!statusNames, GRPCCodes
  <1>3. \A code \in GRPCCodes : \E i \in 1..17 : G!statusNames[i] = code
    <2>1. /\ G!statusNames[1] = "OK" /\ G!statusNames[2] = "CANCELLED"
          /\ G!statusNames[3] = "UNKNOWN" /\ G!statusNames[4] = "INVALID_ARGUMENT"
          /\ G!statusNames[5] = "DEADLINE_EXCEEDED" /\ G!statusNames[6] = "NOT_FOUND"
          /\ G!statusNames[7] = "ALREADY_EXISTS" /\ G!statusNames[8] = "PERMISSION_DENIED"
          /\ G!statusNames[9] = "RESOURCE_EXHAUSTED" /\ G!statusNames[10] = "FAILED_PRECONDITION"
          /\ G!statusNames[11] = "ABORTED" /\ G!statusNames[12] = "OUT_OF_RANGE"
          /\ G!statusNames[13] = "UNIMPLEMENTED" /\ G!statusNames[14] = "INTERNAL"
          /\ G!statusNames[15] = "UNAVAILABLE" /\ G!statusNames[16] = "DATA_LOSS"
          /\ G!statusNames[17] = "UNAUTHENTICATED"
      BY DEF G!statusNames
    <2> QED BY <2>1 DEF GRPCCodes
  <1> QED BY <1>1, <1>2, <1>3 DEF G!Codes, G!appCodeToGRPCCode

\* A health report names a state for each dependency, skipped ones in live mode.
LEMMA GRPCReports ==
    ASSUME NEW mode \in {"live", "ready"}, NEW failing \in G!Calls \cup {"none"}
    PROVE  G!Check(mode, failing) \in G!Reports /\ G!Consistent(G!Check(mode, failing))
  <1>1. G!Check(mode, failing) \in G!Reports
    BY DEF G!Check, G!Calls, G!DBCalls, G!Reports
  <1>2. mode = "live" =>
          G!Check(mode, failing) = [database |-> "skipped", cache |-> "skipped", kvstore |-> "skipped"]
    BY DEF G!Check
  <1> QED BY <1>1, <1>2 DEF G!Consistent

\* What an error may be.
RetType == [code : G!Codes, kind : G!Kinds, app : DOMAIN G!appCodeToGRPCCode \cup {None},
            cause : {"none", "canceled", "deadline"}]
RetSound(error) ==
    /\ error \in RetType
    /\ error.cause = "canceled" => error.code = "CANCELLED"
    /\ error.cause = "deadline" => error.code = "DEADLINE_EXCEEDED"
    /\ error.kind = "nil" => error.code = "OK"

\* Every error a service or an interceptor makes is sound.
LEMMA GRPCErrors ==
    /\ RetSound(G!Nil)
    /\ \A code \in GRPCCodes : RetSound(G!Error(code)) /\ RetSound(G!StatusError(code))
    /\ \A cause \in {"canceled", "deadline"} : RetSound(G!AppError("UNAVAILABLE", cause))
    /\ RetSound([code |-> "INTERNAL", kind |-> "panic", app |-> None, cause |-> "none"])
  <1>1. G!Codes = GRPCCodes /\ "UNAVAILABLE" \in DOMAIN G!appCodeToGRPCCode
    BY StatusCodes
  <1>2. RetSound(G!Nil)
    BY <1>1 DEF RetSound, RetType, G!Nil, G!Kinds, GRPCCodes
  <1>3. ASSUME NEW code \in GRPCCodes
        PROVE  RetSound(G!Error(code)) /\ RetSound(G!StatusError(code))
    BY <1>1 DEF RetSound, RetType, G!Error, G!StatusError, G!Kinds
  <1>4. ASSUME NEW cause \in {"canceled", "deadline"}
        PROVE  RetSound(G!AppError("UNAVAILABLE", cause))
    BY <1>1 DEF RetSound, RetType, G!AppError, G!Kinds, GRPCCodes
  <1>5. RetSound([code |-> "INTERNAL", kind |-> "panic", app |-> None, cause |-> "none"])
    BY <1>1 DEF RetSound, RetType, G!Kinds, GRPCCodes
  <1> QED BY <1>2, <1>3, <1>4, <1>5

\* An answer outside observability.
LEMMA GRPCRefuse ==
    ASSUME GRPCInv, NEW error, RetSound(error), pc \in {"listening", "context", "identity"},
           G!Refuse(error), req' \in G!Requests, pc # "listening" => req' = req, G!Refusable'
    PROVE  GRPCInv'
  <1>0. /\ wire = <<>> /\ tele.metrics = <<>> /\ tele.log = <<>> /\ body = None /\ active = 0
        /\ (pc = "listening" => meta = {})
    BY DEF GRPCInv, GRPCInwards, G!Listening, Begun
  <1>1. /\ pc' = "done" /\ ret' = error /\ wire' = <<error.code>>
        /\ UNCHANGED <<cfg, ctx, armed, meta, body, tele, active>>
    BY <1>0 DEF G!Refuse
  <1>2. G!TypeOK'
    BY <1>1 DEF GRPCInv, G!TypeOK, RetSound, RetType, G!Stages
  <1>3. GRPCSettings'
    BY <1>1 DEF GRPCInv, GRPCSettings
  <1>4. GRPCInwards'
    BY <1>0, <1>1 DEF GRPCInv, GRPCInwards, Begun, G!Inside
  <1>5. GRPCIdentity'
    BY <1>0, <1>1 DEF GRPCInv, GRPCIdentity, G!Inside
  <1>6. GRPCAnswer'
    BY <1>0, <1>1 DEF GRPCAnswer, RetSound
  <1>7. GRPCRecords'
    BY <1>0, <1>1 DEF GRPCRecords
  <1> QED BY <1>2, <1>3, <1>4, <1>5, <1>6, <1>7 DEF GRPCInv

\* A call is refused by the handshake or by its size, or enters the chain without an identity.
LEMMA GRPCReceive ==
    ASSUME GRPCInv, NEW r \in G!Requests, G!Receive(r)
    PROVE  GRPCInv'
  <1>0. pc = "listening" /\ G!Listening /\ req' = r
    BY DEF GRPCInv, GRPCInwards, G!Receive
  <1>1. CASE G!TooLarge(r) /\ ~G!HandshakeRefuses(r)
    <2>1. G!Refuse(G!StatusError("RESOURCE_EXHAUSTED"))
      BY <1>1 DEF G!Receive
    <2>2. G!Refusable'
      BY <1>0, <1>1 DEF G!Refusable, G!TooLarge
    <2>3. RetSound(G!StatusError("RESOURCE_EXHAUSTED"))
      BY GRPCErrors DEF GRPCCodes
    <2> QED BY <1>0, <2>1, <2>2, <2>3, GRPCRefuse
  <1>2. CASE ~(G!TooLarge(r) /\ ~G!HandshakeRefuses(r))
    <2>0. /\ pc' = IF G!HandshakeRefuses(r) THEN "refused" ELSE "context"
          /\ UNCHANGED <<cfg, ctx, armed, meta, ret, wire, body, tele, active>>
      BY <1>2 DEF G!Receive
    <2>1. /\ wire = <<>> /\ body = None /\ active = 0 /\ meta = {} /\ ret = G!Nil /\ armed = FALSE
          /\ tele.metrics = <<>> /\ tele.log = <<>>
      BY <1>0 DEF G!Listening
    <2>2. G!TypeOK'
      BY <1>0, <2>0 DEF GRPCInv, G!TypeOK, G!Stages
    <2>3. GRPCSettings'
      BY <2>0 DEF GRPCInv, GRPCSettings
    <2>4. GRPCInwards'
      BY <1>0, <1>2, <2>0, <2>1 DEF GRPCInwards, Begun, G!Inside, G!TooLarge, G!HandshakeRefuses
    <2>5. GRPCIdentity'
      BY <2>0, <2>1 DEF GRPCIdentity, G!Inside
    <2>6. GRPCAnswer'
      BY <2>0, <2>1 DEF GRPCInv, GRPCAnswer
    <2>7. GRPCRecords'
      BY <2>0, <2>1 DEF GRPCRecords
    <2> QED BY <2>2, <2>3, <2>4, <2>5, <2>6, <2>7 DEF GRPCInv
  <1> QED BY <1>1, <1>2

\* The request context refuses an invalid ID or arms the deadline.
LEMMA GRPCRequestContext ==
    ASSUME GRPCInv, G!RequestContext
    PROVE  GRPCInv'
  <1>0. pc = "context" /\ req \in G!Requests
    BY DEF GRPCInv, GRPCInwards, G!RequestContext
  <1>1. CASE G!enrich = "invalid" /\ G!Refuse(G!Error("INVALID_ARGUMENT")) /\ UNCHANGED req
    <2>1. RetSound(G!Error("INVALID_ARGUMENT"))
      BY GRPCErrors DEF GRPCCodes
    <2>2. G!incomingRequestID = "invalid" /\ cfg.reject
      BY <1>1 DEF G!enrich
    <2>3. G!Refusable'
      BY <1>1, <2>2 DEF G!Refusable, G!incomingRequestID, G!Refuse
    <2> QED BY <1>0, <1>1, <2>1, <2>3, GRPCRefuse
  <1>2. CASE G!echoes /\ ctx = "canceled" /\ G!Refuse(G!Error("INTERNAL")) /\ UNCHANGED req
    <2>1. RetSound(G!Error("INTERNAL"))
      BY GRPCErrors DEF GRPCCodes
    <2>2. G!incomingRequestID = "valid" /\ cfg.response
      BY <1>2 DEF G!echoes, G!enrich
    <2>3. G!Refusable'
      BY <1>2, <2>2 DEF G!Refusable, G!incomingRequestID, G!Refuse
    <2> QED BY <1>0, <1>2, <2>1, <2>3, GRPCRefuse
  <1>3. CASE /\ G!enrich # "invalid"
             /\ meta' = (IF G!enrich = "valid" THEN {"request_id"} ELSE {})
                        \cup (IF G!echoes THEN {"echoed_id"} ELSE {})
             /\ armed' = (cfg.timeout /\ req.method # "watch")
             /\ pc' = IF cfg.auth \in {"verify", "require"} THEN "identity" ELSE "start"
             /\ UNCHANGED <<cfg, req, ctx, ret, wire, body, tele, active>>
    <2>1. meta' \in {{}, {"request_id"}, {"request_id", "echoed_id"}}
      BY <1>3 DEF G!echoes
    <2>2. armed' \in BOOLEAN /\ (armed' <=> req.method # "watch")
      BY <1>3 DEF GRPCInv, GRPCSettings
    <2>3. G!TypeOK'
      BY <1>3, <2>1, <2>2 DEF GRPCInv, G!TypeOK, G!Stages, G!Inside, G!Marks
    <2>4. GRPCSettings'
      BY <1>3 DEF GRPCInv, GRPCSettings
    <2>5. GRPCInwards'
      BY <1>0, <1>3, <2>1, <2>2
      DEF GRPCInv, GRPCInwards, Begun, G!Inside, G!TooLarge, G!HandshakeRefuses
    <2>6. GRPCIdentity'
      BY <1>3, <2>1 DEF GRPCIdentity, G!Inside
    <2>7. GRPCAnswer'
      BY <1>3 DEF GRPCInv, GRPCAnswer
    <2>8. GRPCRecords'
      BY <1>0, <1>3 DEF GRPCInv, GRPCInwards, GRPCRecords, Begun
    <2> QED BY <2>3, <2>4, <2>5, <2>6, <2>7, <2>8 DEF GRPCInv
  <1> QED BY <1>1, <1>2, <1>3 DEF G!RequestContext

\* An identity is set only from a certificate the handshake verified.
LEMMA GRPCCallerIdentity ==
    ASSUME GRPCInv, G!CallerIdentity
    PROVE  GRPCInv'
  <1>0. /\ pc = "identity" /\ req \in G!Requests
        /\ req.cert \in {"none", "trusted", "no_uri", "untrusted"}
    BY DEF GRPCInv, GRPCInwards, G!CallerIdentity, G!Requests
  <1>n. None \notin {"none", "trusted", "no_uri", "untrusted"}
    BY InboundConstants
  <1>1. CASE G!verifiedClientCertificate # None /\ G!Extract(G!verifiedClientCertificate) = None
    <2>1. G!Refuse(G!Error("UNAUTHENTICATED")) /\ UNCHANGED req
      BY <1>1 DEF G!CallerIdentity
    <2>2. RetSound(G!Error("UNAUTHENTICATED"))
      BY GRPCErrors DEF GRPCCodes
    <2>3. G!Verified(req) /\ req.cert = "no_uri"
      BY <1>1 DEF G!verifiedClientCertificate, G!Extract
    <2>4. G!Refusable'
      BY <2>1, <2>3 DEF G!Refusable, G!Verified, G!Refuse
    <2> QED BY <1>0, <2>1, <2>2, <2>4, GRPCRefuse
  <1>2. CASE ~(G!verifiedClientCertificate # None /\ G!Extract(G!verifiedClientCertificate) = None)
    <2>0. /\ meta' = IF G!verifiedClientCertificate # None THEN meta \cup {"identity"} ELSE meta
          /\ pc' = "start"
          /\ UNCHANGED <<cfg, req, ctx, armed, ret, wire, body, tele, active>>
      BY <1>2 DEF G!CallerIdentity
    <2>1. G!verifiedClientCertificate # None <=> G!Verified(req)
      BY <1>0, <1>n DEF G!verifiedClientCertificate
    <2>2. G!Verified(req) => req.cert = "trusted" /\ cfg.auth \in {"verify", "require"}
      BY <1>2, <2>1 DEF G!verifiedClientCertificate, G!Extract, G!Verified
    <2>3. G!TypeOK'
      BY <2>0 DEF GRPCInv, G!TypeOK, G!Stages, G!Inside, G!Marks
    <2>4. GRPCSettings'
      BY <2>0 DEF GRPCInv, GRPCSettings
    <2>5. GRPCInwards'
      BY <1>0, <2>0 DEF GRPCInv, GRPCInwards, Begun, G!Inside, G!TooLarge, G!HandshakeRefuses
    <2>6. GRPCIdentity'
      <3>1. ~G!HandshakeRefuses(req)
        BY <1>0 DEF GRPCInv, GRPCInwards, Begun
      <3>2. cfg.auth \in {"verify", "require"} /\ req.cert # "none" => G!Verified(req)
        BY <1>0, <3>1 DEF G!HandshakeRefuses, G!Verified
      <3> QED BY <2>0, <2>1, <2>2, <3>2 DEF GRPCInv, GRPCIdentity
    <2>7. GRPCAnswer'
      BY <2>0 DEF GRPCInv, GRPCAnswer
    <2>8. GRPCRecords'
      BY <1>0, <2>0 DEF GRPCInv, GRPCInwards, GRPCRecords, Begun
    <2> QED BY <2>3, <2>4, <2>5, <2>6, <2>7, <2>8 DEF GRPCInv
  <1> QED BY <1>1, <1>2

\* Observability opens its span and counts a watch once.
LEMMA GRPCStart ==
    ASSUME GRPCInv, G!StartRPC
    PROVE  GRPCInv'
  <1>0. /\ pc = "start" /\ pc' = "service" /\ active = 0
        /\ active' = IF req.method = "watch" THEN 1 ELSE 0
        /\ UNCHANGED <<cfg, req, ctx, armed, meta, ret, wire, body>>
    BY DEF GRPCInv, GRPCInwards, G!StartRPC
  <1>1. tele' \in G!Telemetry /\ tele'.metrics = tele.metrics /\ tele'.log = tele.log
    BY DEF G!StartRPC, GRPCInv, G!TypeOK, G!Telemetry
  <1>2. G!TypeOK'
    BY <1>0, <1>1 DEF GRPCInv, G!TypeOK, G!Stages, G!Inside
  <1>3. GRPCSettings'
    BY <1>0 DEF GRPCInv, GRPCSettings
  <1>4. GRPCInwards'
    BY <1>0, <1>1 DEF GRPCInv, GRPCInwards, Begun, G!Inside, G!TooLarge, G!HandshakeRefuses
  <1>5. GRPCIdentity'
    BY <1>0 DEF GRPCInv, GRPCIdentity, G!Inside
  <1>6. GRPCAnswer'
    BY <1>0 DEF GRPCInv, GRPCAnswer
  <1>7. GRPCRecords'
    BY <1>0 DEF GRPCInv, GRPCInwards, GRPCRecords, Begun, G!Inside
  <1> QED BY <1>2, <1>3, <1>4, <1>5, <1>6, <1>7 DEF GRPCInv

\* The service returns, inside observability.
LEMMA GRPCReturns ==
    ASSUME GRPCInv, pc = "service", NEW error, NEW report \in G!Reports \cup {None},
           RetSound(error), report # None => error = G!Nil /\ G!Consistent(report),
           G!Returns(error, report)
    PROVE  GRPCInv'
  <1>0. /\ pc' = "recover" /\ ret' = error /\ body' = report
        /\ UNCHANGED <<cfg, req, ctx, armed, meta, wire, tele, active>>
    BY DEF G!Returns
  <1>2. G!TypeOK'
    BY <1>0 DEF GRPCInv, G!TypeOK, G!Stages, G!Inside, RetSound, RetType
  <1>3. GRPCSettings'
    BY <1>0 DEF GRPCInv, GRPCSettings
  <1>4. GRPCInwards'
    BY <1>0 DEF GRPCInv, GRPCInwards, Begun, G!Inside, G!TooLarge, G!HandshakeRefuses
  <1>5. GRPCIdentity'
    BY <1>0 DEF GRPCInv, GRPCIdentity, G!Inside
  <1>6. GRPCAnswer'
    BY <1>0 DEF GRPCAnswer, RetSound
  <1>7. GRPCRecords'
    BY <1>0 DEF GRPCInv, GRPCInwards, GRPCRecords, Begun, G!Inside
  <1> QED BY <1>2, <1>3, <1>4, <1>5, <1>6, <1>7 DEF GRPCInv

\* A service returns a sound error or a consistent report.
LEMMA GRPCService ==
    ASSUME GRPCInv, G!GetHealth \/ G!StandardHealth \/ G!Panics
    PROVE  GRPCInv'
  <1>0. pc = "service"
    BY DEF G!GetHealth, G!StandardHealth, G!Panics
  <1>1. CASE \E error : RetSound(error) /\ G!Returns(error, None)
    BY <1>0, <1>1, GRPCReturns
  <1>2. CASE \E mode \in {"live", "ready"}, failing \in G!Calls \cup {"none"} :
                G!Returns(G!Nil, G!Check(mode, failing))
    BY <1>0, <1>2, GRPCReports, GRPCErrors, GRPCReturns
  <1>3. CASE G!GetHealth
    <2>1. CASE G!Returns(G!Error("INVALID_ARGUMENT"), None)
      BY <1>1, <2>1, GRPCErrors DEF GRPCCodes
    <2>2. CASE G!toCheckMode(req.mode) # None /\ G!Returns(G!Nil, G!Check(req.mode, "none"))
      BY <1>2, <2>2 DEF G!toCheckMode, G!IsValid
    <2>3. CASE \E failing \in G!Calls : G!Returns(G!Nil, G!Check("ready", failing))
      BY <1>2, <2>3
    <2>4. CASE ctx # "live" /\ G!Returns(G!AppError("UNAVAILABLE", ctx), None)
      <3>1. ctx \in {"canceled", "deadline"}
        BY <2>4 DEF GRPCInv, G!TypeOK
      <3> QED BY <1>1, <2>4, <3>1, GRPCErrors
    <2> QED BY <1>3, <2>1, <2>2, <2>3, <2>4 DEF G!GetHealth
  <1>4. CASE G!StandardHealth
    <2>1. /\ RetSound(G!Nil) /\ RetSound(G!StatusError("NOT_FOUND"))
          /\ RetSound(G!StatusError("RESOURCE_EXHAUSTED")) /\ RetSound(G!StatusError("CANCELLED"))
      BY GRPCErrors DEF GRPCCodes
    <2> QED BY <1>1, <1>4, <2>1 DEF G!StandardHealth
  <1>5. CASE G!Panics
    BY <1>1, <1>5, GRPCErrors DEF G!Panics
  <1> QED BY <1>3, <1>4, <1>5

\* Recovery turns a panic into INTERNAL and leaves every other error alone.
LEMMA GRPCRecovery ==
    ASSUME GRPCInv, G!Recovery
    PROVE  GRPCInv'
  <1>0. /\ pc = "recover" /\ pc' = "observe"
        /\ ret' = IF ret.kind = "panic" THEN G!Error("INTERNAL") ELSE ret
        /\ UNCHANGED <<cfg, req, ctx, armed, meta, wire, body, tele, active>>
    BY DEF G!Recovery
  <1>1. RetSound(ret')
    <2>1. RetSound(ret) /\ RetSound(G!Error("INTERNAL"))
      BY GRPCErrors DEF GRPCInv, GRPCAnswer, G!TypeOK, RetSound, RetType, GRPCCodes
    <2> QED BY <1>0, <2>1
  <1>2. G!TypeOK'
    BY <1>0, <1>1 DEF GRPCInv, G!TypeOK, G!Stages, G!Inside, RetSound, RetType
  <1>3. GRPCSettings'
    BY <1>0 DEF GRPCInv, GRPCSettings
  <1>4. GRPCInwards'
    BY <1>0 DEF GRPCInv, GRPCInwards, Begun, G!Inside, G!TooLarge, G!HandshakeRefuses
  <1>5. GRPCIdentity'
    BY <1>0 DEF GRPCInv, GRPCIdentity, G!Inside
  <1>6. GRPCAnswer'
    BY <1>0, <1>1 DEF GRPCInv, GRPCAnswer, RetSound, G!Nil
  <1>7. GRPCRecords'
    BY <1>0 DEF GRPCInv, GRPCInwards, GRPCRecords, Begun, G!Inside
  <1> QED BY <1>2, <1>3, <1>4, <1>5, <1>6, <1>7 DEF GRPCInv
\* Observability records the status that gRPC then sends.
LEMMA GRPCObserve ==
    ASSUME GRPCInv, G!Observe
    PROVE  GRPCInv'
  <1> DEFINE o == G!newRPCOutcome
  <1>0. /\ pc = "observe" /\ pc' = "done" /\ req \in G!Requests
        /\ active' = 0 /\ wire' = <<ret.code>>
        /\ UNCHANGED <<cfg, req, ctx, armed, meta, ret, body>>
        /\ tele.metrics = <<>> /\ tele.log = <<>>
    BY DEF G!Observe, GRPCInv, GRPCInwards, Begun, G!Inside
  <1>1. tele' = [span |-> G!Finish(o), metrics |-> <<G!metricsRecord(o)>>,
                 log |-> <<G!accessLogRecord(o)>>]
    BY <1>0 DEF G!Observe
  <1>2. o = [method |-> req.method, status |-> ret.code, err |-> ret, code |-> ret.app]
    BY DEF G!newRPCOutcome, G!inspectApplicationError
  <1>3. /\ ret.code \in G!Codes /\ ret.app \in DOMAIN G!appCodeToGRPCCode \cup {None}
        /\ req.method \in G!Methods /\ meta \in SUBSET G!Marks
    BY <1>0 DEF GRPCInv, G!TypeOK, G!Requests
  <1> HIDE DEF o
  <1>4. /\ G!metricsRecord(o) \in [status : G!Codes, error : BOOLEAN, method : G!Methods]
        /\ G!metricsRecord(o).status = ret.code
    BY <1>2, <1>3 DEF G!metricsRecord
  <1>5. /\ G!accessLogRecord(o) \in [status : G!Codes, level : {"info", "error"},
                                     meta : SUBSET G!Marks,
                                     code : DOMAIN G!appCodeToGRPCCode \cup {None}]
        /\ G!accessLogRecord(o).status = ret.code
        /\ "request_id" \in meta => "request_id" \in G!accessLogRecord(o).meta
    BY <1>2, <1>3 DEF G!accessLogRecord, G!contextFieldsProvider
  <1>6. /\ G!Finish(o) \in {"ok", "failed"}
        /\ G!ServerErrorType(ret.code) # None => G!Finish(o) = "failed"
    BY <1>2 DEF G!Finish, G!ServerErrorType, G!IsClientError, GRPCInv, GRPCAnswer
  <1>7. G!TypeOK'
    <2>1. tele' \in G!Telemetry
      BY <1>1, <1>4, <1>5, <1>6 DEF G!Telemetry
    <2> QED BY <1>0, <1>3, <2>1 DEF GRPCInv, G!TypeOK, G!Stages
  <1>8. GRPCSettings'
    BY <1>0 DEF GRPCInv, GRPCSettings
  <1>9. GRPCInwards'
    BY <1>0 DEF GRPCInv, GRPCInwards, Begun, G!Inside
  <1>10. GRPCIdentity'
    BY <1>0 DEF GRPCInv, GRPCIdentity, G!Inside
  <1>11. GRPCAnswer'
    BY <1>0 DEF GRPCInv, GRPCAnswer
  <1>12. GRPCRecords'
    <2>1. "echoed_id" \in meta => "request_id" \in meta
      BY DEF GRPCInv, GRPCInwards
    <2> QED BY <1>0, <1>1, <1>4, <1>5, <1>6, <2>1 DEF GRPCRecords
  <1> QED BY <1>7, <1>8, <1>9, <1>10, <1>11, <1>12 DEF GRPCInv

\* The end of a context changes nothing else.
LEMMA GRPCContextEnds ==
    ASSUME GRPCInv, NEW how \in {"canceled", "deadline"}, G!ContextEnds(how)
    PROVE  GRPCInv'
  <1>0. /\ pc \in Begun /\ ctx' = how
        /\ UNCHANGED <<cfg, req, pc, armed, meta, ret, wire, body, tele, active>>
    BY DEF G!ContextEnds, Begun
  <1>1. G!TypeOK'
    BY <1>0 DEF GRPCInv, G!TypeOK
  <1>2. GRPCSettings'
    BY <1>0 DEF GRPCInv, GRPCSettings
  <1>3. GRPCInwards'
    BY <1>0 DEF GRPCInv, GRPCInwards, Begun, G!Inside, G!TooLarge, G!HandshakeRefuses
  <1>4. GRPCIdentity'
    BY <1>0 DEF GRPCInv, GRPCIdentity
  <1>5. GRPCAnswer'
    BY <1>0 DEF GRPCInv, GRPCAnswer
  <1>6. GRPCRecords'
    BY <1>0 DEF GRPCInv, GRPCRecords, Begun, G!Inside
  <1> QED BY <1>1, <1>2, <1>3, <1>4, <1>5, <1>6 DEF GRPCInv

\* Every step of the gRPC pipeline keeps its invariant.
LEMMA GRPCStep ==
    ASSUME GRPCInv, G!Next
    PROVE  GRPCInv'
  <1>1. CASE \E r \in G!Requests : G!Receive(r)
    BY <1>1, GRPCReceive
  <1>2. CASE G!Advance \/ G!Panics
    BY <1>2, GRPCRequestContext, GRPCCallerIdentity, GRPCStart, GRPCService, GRPCRecovery,
       GRPCObserve DEF G!Advance
  <1>3. CASE \E how \in {"canceled", "deadline"} : G!ContextEnds(how)
    BY <1>3, GRPCContextEnds
  <1> QED BY <1>1, <1>2, <1>3 DEF G!Next

----------------------------------------------------------------------------
(* The process.                                                            *)

\* A process boots into a chain that listens, or exits.
LEMMA BootStep ==
    ASSUME Inv, Boot
    PROVE  Inv'
  <1>0. /\ pc = "boot" /\ env' = None /\ UNCHANGED <<server, chain>>
        /\ server \in {"http", "grpc"} /\ req = None /\ pc' \in {"listening", "exited"}
    BY DEF Inv, BootInv, Boot, BootWith, serving
  <1>1. /\ ctx = "live" /\ armed = FALSE /\ meta = {} /\ outcome = None
        /\ wire = <<>> /\ body = None
        /\ tele = [span |-> "none", metrics |-> <<>>, log |-> <<>>]
        /\ stalled = FALSE /\ active = 0
    BY <1>0 DEF Inv, BootInv
  <1>2. CASE pc' = "exited"
    <2>1. cfg' \in {Rejected, BuildFailed}
      BY <1>2 DEF Boot, BootWith
    <2> QED BY <1>0, <1>2, <2>1 DEF Inv, BootInv, serving, chain
  <1>3. CASE pc' = "listening" /\ server = "http"
    <2>1. env \in HTTPEnvs /\ ret = "nil"
      BY <1>0, <1>3 DEF Inv, BootInv
    <2>2. /\ ~invalidHTTPAPI(httpapiConfig(env)) /\ cfg' = H!buildServer(httpapiConfig(env))
          /\ cfg' # BuildFailed
      BY <1>0, <1>3 DEF Boot, BootWith, Build
    <2>3. /\ cfg' \in [timeout : BOOLEAN, incoming : BOOLEAN, response : BOOLEAN,
                       reject : BOOLEAN, limiter : BOOLEAN, tickers : BOOLEAN]
          /\ cfg'.timeout = TRUE /\ cfg'.tickers = TRUE
      BY <2>1, <2>2, HTTPBoot
    <2>4. H!Listening'
      BY <1>0, <1>1, <1>3, <2>1 DEF H!Listening, chain
    <2>5. HTTPInv'
      <3>1. H!TypeOK'
        <4>1. tele' \in H!Telemetry
          BY <2>4, NoRecords DEF H!Listening
        <4>2. wire' \in Seq(H!Statuses)
          BY <2>4 DEF H!Listening
        <4> QED BY <2>3, <2>4, <4>1, <4>2 DEF H!TypeOK, H!Listening, H!Stages
      <3>2. HTTPSettings' /\ HTTPInwards' /\ HTTPAnswer' /\ HTTPRecords'
        BY <2>3, <2>4 DEF HTTPSettings, HTTPInwards, HTTPAnswer, HTTPRecords, H!Listening,
                          H!Inside, H!Streaming
      <3> QED BY <3>1, <3>2 DEF HTTPInv
    <2> QED BY <1>0, <1>3, <2>5 DEF Inv, BootInv, serving, chain
  <1>4. CASE pc' = "listening" /\ server = "grpc"
    <2>1. env \in GRPCEnvs /\ ret = G!Nil
      BY <1>0, <1>4 DEF Inv, BootInv
    <2>2. /\ ~invalidGRPCAPI(grpcapiConfig(env)) /\ cfg' = G!buildServer(grpcapiConfig(env))
          /\ cfg' # BuildFailed
      BY <1>0, <1>4 DEF Boot, BootWith, Build
    <2>3. /\ cfg' \in [timeout : BOOLEAN, incoming : BOOLEAN, response : BOOLEAN, reject : BOOLEAN,
                       auth : {"plain", "server", "verify", "require"}, required : BOOLEAN]
          /\ cfg'.timeout = TRUE /\ (cfg'.required => cfg'.auth = "require")
      BY <2>1, <2>2, GRPCBoot
    <2>4. G!Listening'
      BY <1>0, <1>1, <1>4, <2>1 DEF G!Listening, chain
    <2>5. GRPCInv'
      <3>1. G!TypeOK'
        <4>1. tele' \in G!Telemetry
          BY <2>4, NoRecords DEF G!Listening
        <4>2. wire' \in Seq(G!Codes) /\ ret' \in RetType
          BY <2>4, GRPCErrors DEF G!Listening, RetSound
        <4> QED BY <2>3, <2>4, <4>1, <4>2 DEF G!TypeOK, G!Listening, G!Stages, RetType
      <3>2. GRPCSettings' /\ GRPCInwards' /\ GRPCIdentity' /\ GRPCRecords'
        BY <2>3, <2>4 DEF GRPCSettings, GRPCInwards, GRPCIdentity, GRPCRecords, G!Listening,
                          Begun, G!Inside
      <3>3. GRPCAnswer'
        BY <2>4 DEF GRPCAnswer, G!Listening, G!Nil
      <3> QED BY <3>1, <3>2, <3>3 DEF GRPCInv
    <2> QED BY <1>0, <1>4, <2>5 DEF Inv, BootInv, serving, chain
  <1> QED BY <1>0, <1>2, <1>3, <1>4

\* A process that did not boot yet satisfies the invariant.
LEMMA InitInv == Init => Inv
  BY DEF Init, Inv, BootInv, serving

\* Booting and every step of the chain that was built keep the invariant.
LEMMA NextInv ==
    ASSUME Inv, [Next]_vars
    PROVE  Inv'
  <1>1. CASE Boot
    BY <1>1, BootStep
  <1>2. CASE ServeHTTP
    <2>1. serving /\ server = "http" /\ H!Next /\ UNCHANGED <<server, env, active>>
      BY <1>2 DEF ServeHTTP, HTTP, serving, H!Stages, H!Inside, H!Streaming
    <2>2. HTTPInv /\ env = None
      BY <2>1 DEF Inv
    <2>3. HTTPInv'
      BY <2>1, <2>2, HTTPStep
    <2>4. serving'
      BY <2>3 DEF HTTPInv, H!TypeOK, serving, H!Stages, H!Inside, H!Streaming
    <2> QED BY <2>1, <2>2, <2>3, <2>4 DEF Inv, BootInv, serving
  <1>3. CASE ServeGRPC
    <2>1. serving /\ server = "grpc" /\ G!Next /\ UNCHANGED <<server, env, outcome, stalled>>
      BY <1>3 DEF ServeGRPC, GRPC, serving, G!Stages, G!Inside
    <2>2. GRPCInv /\ env = None
      BY <2>1 DEF Inv
    <2>3. GRPCInv'
      BY <2>1, <2>2, GRPCStep
    <2>4. serving'
      BY <2>3 DEF GRPCInv, G!TypeOK, serving, G!Stages, G!Inside
    <2> QED BY <2>1, <2>2, <2>3, <2>4 DEF Inv, BootInv, serving
  <1>4. CASE UNCHANGED vars
    <2>1. HTTPInv' = HTTPInv
      BY <1>4 DEF vars, HTTPInv, H!TypeOK, HTTPSettings, HTTPInwards, HTTPAnswer, HTTPRecords,
                  H!Listening, H!ResolveResponseStatus, H!Committed
    <2>2. GRPCInv' = GRPCInv
      BY <1>4 DEF vars, GRPCInv, G!TypeOK, GRPCSettings, GRPCInwards, GRPCIdentity, GRPCAnswer,
                  GRPCRecords, G!Listening, G!HandshakeRefuses, G!Refusable, G!Verified,
                  G!incomingRequestID
    <2>3. BootInv' /\ (serving' <=> serving) /\ server' = server /\ env' = env
      BY <1>4 DEF vars, Inv, BootInv, serving
    <2> QED BY <2>1, <2>2, <2>3 DEF Inv
  <1> QED BY <1>1, <1>2, <1>3, <1>4 DEF Next

\* The invariant holds for every environment and request.
THEOREM Invariance == Spec => []Inv
  BY InitInv, NextInv, PTL DEF Spec

\* Every variable of both chains keeps its type, from the environment to the last record.
THEOREM InboundTypes == Spec => []TypeOK
  <1>1. Inv => TypeOK
    BY DEF Inv, BootInv, TypeOK, serving, HTTPInv, GRPCInv
  <1> QED BY <1>1, Invariance, PTL

\* One answer, and one record of it with the status that was sent, whatever panicked,
\* expired or was refused on the way (Recovery, Observe and Reply of HTTP, Refuse and
\* Observe of gRPC).
THEOREM AnswersAreRecorded == Spec => []TelemetryMatchesWire
  <1>1. ASSUME HTTPInv PROVE H!TelemetryMatchesWire
    <2>1. Len(wire) <= 1 /\ (wire # <<>> => Len(wire) = 1 /\ H!ResolveResponseStatus = Head(wire))
      <3>1. wire \in Seq(H!Statuses) /\ Len(wire) <= 1
        BY <1>1 DEF HTTPInv, H!TypeOK, HTTPAnswer
      <3>2. wire # <<>> => Len(wire) = 1
        <4>1. wire # <<>> => Len(wire) \in Nat \ {0}
          BY <3>1, EmptySeq, Zenon
        <4>2. \A n \in Nat \ {0} : n <= 1 => n = 1
          OBVIOUS
        <4> QED BY <3>1, <4>1, <4>2, Zenon
      <3> QED BY <3>1, <3>2 DEF H!ResolveResponseStatus, H!Committed
    <2>2. pc = "done" => wire # <<>>
      BY <1>1 DEF HTTPInv, HTTPRecords
    <2> QED BY <1>1, <2>1, <2>2 DEF HTTPInv, HTTPRecords, H!TelemetryMatchesWire
  <1>2. ASSUME GRPCInv PROVE G!TelemetryMatchesWire
    <2>1. pc # "done" => wire = <<>>
      BY <1>2 DEF GRPCInv, GRPCInwards, GRPCRecords
    <2>2. pc = "done" => wire = <<ret.code>> /\ active = 0
      BY <1>2 DEF GRPCInv, GRPCInwards, GRPCRecords
    <2>3. Len(wire) <= 1 /\ (pc = "done" => Len(wire) = 1 /\ Head(wire) = ret.code)
      <3>1. CASE pc = "done"
        <4>1. \A code : Len(<<code>>) = 1 /\ Head(<<code>>) = code
          OBVIOUS
        <4>2. Len(wire) = 1 /\ Head(wire) = ret.code
          BY <2>2, <3>1, <4>1, Zenon
        <4> QED BY <4>2
      <3>2. CASE pc # "done"
        BY <2>1, <3>2
      <3> QED BY <3>1, <3>2
    <2> QED BY <1>2, <2>2, <2>3 DEF GRPCInv, GRPCRecords, G!TelemetryMatchesWire
  <1>3. Inv => TelemetryMatchesWire
    BY <1>1, <1>2 DEF Inv, TelemetryMatchesWire
  <1> QED BY <1>3, Invariance, PTL

\* A 5xx answer, or a status that counts as a server failure, fails the server span.
THEOREM FailuresAreMarked == Spec => []ServerFailureMarked
  <1>1. HTTPInv => H!ServerFailureMarked
    BY DEF HTTPInv, HTTPAnswer, HTTPRecords, H!ServerFailureMarked, H!ResolveResponseStatus,
           H!Committed
  <1>2. GRPCInv => G!ServerFailureMarked
    BY DEF GRPCInv, GRPCRecords, G!ServerFailureMarked
  <1>3. Inv => ServerFailureMarked
    BY <1>1, <1>2 DEF Inv, ServerFailureMarked
  <1> QED BY <1>3, Invariance, PTL

\* The end of a request's context is answered as that, and a health report agrees with
\* the status it comes with.
THEOREM ContextEndsAreAnswered == Spec => []ContextErrorAnswered
  <1>1. HTTPInv => H!ContextErrorAnswered
    BY CodeStatus DEF HTTPInv, HTTPAnswer, H!ContextErrorAnswered, Blames, H!Plain
  <1>2. GRPCInv => G!ContextErrorAnswered
    BY DEF GRPCInv, GRPCInwards, GRPCAnswer, GRPCRecords, G!ContextErrorAnswered, G!Nil, Begun
  <1>3. Inv => ContextErrorAnswered
    BY <1>1, <1>2 DEF Inv, ContextErrorAnswered
  <1> QED BY <1>3, Invariance, PTL

\* Under every configuration that the validation accepts, the server's deadline is on every
\* call but those of streams and the limiter's on the stream's path, and ends no stream.
THEOREM CallsAreBounded == Spec => []CallsBounded
  <1>1. HTTPInv => H!CallsBounded
    <2> SUFFICES ASSUME HTTPInv
                 PROVE  H!CallsBounded
      OBVIOUS
    <2>1. pc # "listening" =>
            /\ req.route = "stream" => req.path = "stream"
            /\ req.path = "stream" => req.route \in {"stream", "unknown"}
      BY DEF HTTPInv, HTTPInwards, H!Requests
    <2>2. pc \in {"session", "handler"} /\ req.route # "stream" => armed
      BY <2>1 DEF HTTPInv, HTTPInwards
    <2>3. pc = "limit" /\ ~armed => req.path = "stream"
      BY DEF HTTPInv, HTTPInwards
    <2>4. pc \in H!Streaming \ {"first", "tickers"} => ctx # "deadline" /\ cfg.tickers
      BY <2>1 DEF HTTPInv, HTTPSettings, HTTPInwards, H!Streaming
    <2> QED BY <2>2, <2>3, <2>4 DEF H!CallsBounded
  <1>2. GRPCInv => G!CallsBounded
    BY DEF GRPCInv, GRPCInwards, G!CallsBounded, G!Inside
  <1>3. Inv => CallsBounded
    BY <1>1, <1>2 DEF Inv, CallsBounded
  <1> QED BY <1>3, Invariance, PTL

\* Under every accepted TLS configuration an identity is that of a verified certificate,
\* and no RPC is served without one where certificates are required.
THEOREM IdentitiesAreVerified == Spec => []IdentityVerified
  <1>1. GRPCInv => G!IdentityVerified
    <2>1. ASSUME GRPCInv, pc \in G!Inside, cfg.required
          PROVE  "identity" \in meta
      BY <2>1 DEF GRPCInv, GRPCSettings, GRPCInwards, GRPCIdentity, G!HandshakeRefuses, Begun
    <2> QED BY <2>1 DEF GRPCInv, GRPCIdentity, G!IdentityVerified
  <1>2. Inv => IdentityVerified
    BY <1>1 DEF Inv, IdentityVerified
  <1> QED BY <1>2, Invariance, PTL
=============================================================================
