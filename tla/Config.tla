------------------------------- MODULE Config -------------------------------
(***************************************************************************)
(* Environment variables to validated settings: LoadRuntime, LoadHTTPAPI   *)
(* and LoadGRPCAPI.                                                        *)
(*                                                                         *)
(* A raw value is one of the values below or the value it spells.  Numbers *)
(* and durations that are unset, empty or unparsable fall back to their    *)
(* default; a string falls back only when it is unset.  Durations are in   *)
(* half milliseconds, ratios in per cent.                                  *)
(***************************************************************************)
EXTENDS Integers

CONSTANTS
    Unset, Empty, Blank,  \* not in the environment, "", only white space
    Garbage,              \* does not parse as what the setting holds
    NaN,                  \* parses as a float that is not a number
    Int32Bits             \* width of the conversion int32(), scaled down

ASSUME ConfigConstants == Int32Bits \in Nat \ {0}

getEnv(raw, fallback) == IF raw = Unset THEN fallback ELSE raw
TrimSpace(value) == IF value = Blank THEN Empty ELSE value

\* getInt, getBool and getDuration.
getParsed(raw, fallback) == IF raw \in {Unset, Empty, Blank, Garbage} THEN fallback ELSE raw
\* getFloat: ParseFloat accepts NaN.
getFloat(raw, fallback) == getParsed(raw, fallback)
\* A list is the set of its entries; blank entries are dropped.
getCSV(raw, fallback) ==
    IF raw = Unset THEN fallback
    ELSE IF raw \in {Empty, Blank} THEN {} ELSE raw \ {Empty, Blank}

\* The conversion keeps the low bits: a large count may come back small or negative.
int32(n) ==
    LET low == n % (2 ^ Int32Bits)
    IN IF low >= 2 ^ (Int32Bits - 1) THEN low - 2 ^ Int32Bits ELSE low

isLocalAppEnv(appEnv) == appEnv \in {"local", "dev", "development", "test"}
withOTLPPath(base, suffix) == IF TrimSpace(base) = Empty THEN <<suffix>> ELSE <<base, suffix>>

Signals == {"TRACES", "LOGS", "METRICS"}
\* A collector may have an endpoint of its own for a signal.
signalEndpoint(env, base, signal) ==
    LET own == TrimSpace(getEnv(env.OTEL_SIGNAL_ENDPOINT, Empty))
    IN  IF own # Empty THEN <<own>> ELSE withOTLPPath(base, signal)

\* The Load functions, each as the settings it reads and the tests that refuse them.
runtimeConfig(env) ==
    LET str(s, fallback) == TrimSpace(getEnv(env[s], fallback))
    IN [AppEnv |-> str("APP_ENV", "local"), ServiceName |-> str("SERVICE_NAME", "app"),
        URL |-> str("DB_URL", "url"), RedisAddr |-> str("REDIS_ADDR", "addr"),
        MaxConns |-> int32(getParsed(env.DB_MAX_CONNS, 10)),
        MinConns |-> int32(getParsed(env.DB_MIN_CONNS, 2)),
        RedisDB |-> getParsed(env.REDIS_DB, 0),
        CacheTTL |-> getParsed(env.REDIS_CACHE_TTL, 9),
        GracePeriod |-> getParsed(env.SHUTDOWN_GRACE_PERIOD, 9),
        TraceSamplingRatio |-> getFloat(env.OTEL_TRACES_SAMPLER_RATIO, 100),
        Endpoint |-> [signal \in Signals |->
            signalEndpoint(env, str("OTEL_EXPORTER_OTLP_ENDPOINT", "url"), signal)]]
invalidRuntime(c) ==
    \/ Empty \in {c.AppEnv, c.ServiceName, c.URL, c.RedisAddr}
    \/ c.MinConns < 0 \/ c.MaxConns < 1 \/ c.MinConns > c.MaxConns
    \/ c.RedisDB < 0 \/ c.CacheTTL <= 0 \/ c.GracePeriod <= 0
    \/ c.TraceSamplingRatio # NaN   \* NaN is neither below 0 nor above 1
       /\ (c.TraceSamplingRatio < 0 \/ c.TraceSamplingRatio > 100)

httpapiConfig(env) ==
    [Runtime |-> runtimeConfig(env),
     Address |-> TrimSpace(getEnv(env.HTTP_ADDRESS, "addr")),
     MaxRequestBodyBytes |-> getParsed(env.HTTP_MAX_REQUEST_BODY_BYTES, 2),
     MaxHeaderBytes |-> getParsed(env.HTTP_MAX_HEADER_BYTES, 2),
     RequestTimeout |-> getParsed(env.HTTP_REQUEST_TIMEOUT, 9),
     CORSAllowOrigins |-> getCSV(env.HTTP_CORS_ALLOW_ORIGINS, {"origin"}),
     TrustedProxyCIDRs |-> getCSV(env.HTTP_TRUSTED_PROXY_CIDRS, {}),
     IncomingKey |-> TrimSpace(getEnv(env.HTTP_REQUEST_ID_INCOMING_HEADER, "key")),
     ResponseKey |-> TrimSpace(getEnv(env.HTTP_REQUEST_ID_RESPONSE_HEADER, "key")),
     RejectInvalid |-> getParsed(env.HTTP_REQUEST_ID_REJECT_INVALID, FALSE),
     CheckInterval |-> getParsed(env.HEALTH_STREAM_CHECK_INTERVAL, 3),
     HeartbeatInterval |-> getParsed(env.HEALTH_STREAM_HEARTBEAT_INTERVAL, 1),
     MaxDuration |-> getParsed(env.HEALTH_STREAM_MAX_DURATION, 12),
     CookieSecure |-> getParsed(env.SESSION_COOKIE_SECURE, FALSE),
     Capacity |-> getParsed(env.RATE_LIMIT_GLOBAL_IP_CAPACITY, 3),
     RefillInterval |-> getParsed(env.RATE_LIMIT_GLOBAL_IP_REFILL_INTERVAL, 4)]
invalidHTTPAPI(c) ==
    \/ invalidRuntime(c.Runtime)
    \/ c.Address = Empty
    \/ c.MaxRequestBodyBytes <= 0 \/ c.MaxHeaderBytes <= 0 \/ c.RequestTimeout <= 0
    \/ c.CORSAllowOrigins = {} \/ "*" \in c.CORSAllowOrigins
    \/ c.CheckInterval <= 0 \/ c.HeartbeatInterval <= 0
    \/ c.MaxDuration <= c.CheckInterval \/ c.MaxDuration <= c.HeartbeatInterval
    \/ c.Capacity <= 0 \/ c.RefillInterval <= 0
    \/ ~isLocalAppEnv(c.Runtime.AppEnv) /\ ~c.CookieSecure

grpcapiConfig(env) ==
    LET file(s) == TrimSpace(getEnv(env[s], Empty))
        runtime == runtimeConfig(env)
    IN [Runtime |-> runtime,
        Address |-> TrimSpace(getEnv(env.GRPC_ADDRESS, "addr")),
        RefreshInterval |-> getParsed(env.GRPC_HEALTH_REFRESH_INTERVAL, 9),
        ReflectionEnabled |->
            getParsed(env.GRPC_REFLECTION_ENABLED, isLocalAppEnv(runtime.AppEnv)),
        RequestTimeout |-> getParsed(env.GRPC_REQUEST_TIMEOUT, 9),
        MaxRecvMessageBytes |-> getParsed(env.GRPC_MAX_RECV_MESSAGE_BYTES, 2),
        MaxSendMessageBytes |-> getParsed(env.GRPC_MAX_SEND_MESSAGE_BYTES, 2),
        IncomingKey |-> TrimSpace(getEnv(env.GRPC_REQUEST_ID_INCOMING_METADATA_KEY, "key")),
        ResponseKey |-> TrimSpace(getEnv(env.GRPC_REQUEST_ID_RESPONSE_METADATA_KEY, "key")),
        RejectInvalid |-> getParsed(env.GRPC_REQUEST_ID_REJECT_INVALID, FALSE),
        TLSEnabled |-> getParsed(env.GRPC_SERVER_TLS_ENABLED, FALSE),
        ServerCertFile |-> file("GRPC_SERVER_TLS_CERT_FILE"),
        ServerKeyFile |-> file("GRPC_SERVER_TLS_KEY_FILE"),
        ClientCAFile |-> file("GRPC_SERVER_TLS_CLIENT_CA_FILE"),
        RequireClientCert |-> getParsed(env.GRPC_SERVER_TLS_REQUIRE_CLIENT_CERT, FALSE)]
\* Whether the TLS settings are refused.
validateGRPCTLS(c) ==
    IF ~c.TLSEnabled THEN c.RequireClientCert
    ELSE \/ Empty \in {c.ServerCertFile, c.ServerKeyFile}
         \/ c.RequireClientCert /\ c.ClientCAFile = Empty
invalidGRPCAPI(c) ==
    \/ invalidRuntime(c.Runtime)
    \/ c.Address = Empty
    \/ c.RefreshInterval <= 0 \/ c.RequestTimeout <= 0
    \/ c.MaxRecvMessageBytes <= 0 \/ c.MaxSendMessageBytes <= 0
    \/ validateGRPCTLS(c)

----------------------------------------------------------------------------
(* The environments that are checked: a base with at most two settings     *)
(* changed, each to a value at or beyond an edge of what is validated.     *)

Strings == {Empty, Blank, "given"}
Lengths == {Garbage, -1, 0, 1}
Switch == {Garbage, TRUE, FALSE}
HeaderKeys == {Empty, Blank, "key", "bad key"}

RuntimeValues ==
    [APP_ENV |-> {Empty, Blank, "prod"}, SERVICE_NAME |-> Strings, DB_URL |-> Strings,
     DB_MAX_CONNS |-> {0, 1, 2 ^ (Int32Bits - 1), 2 ^ Int32Bits + 1},
     DB_MIN_CONNS |-> {-1, 0, 11, 2 ^ (Int32Bits - 1), 2 ^ Int32Bits + 1},
     REDIS_ADDR |-> Strings, REDIS_DB |-> {-1, 1},
     REDIS_CACHE_TTL |-> Lengths, SHUTDOWN_GRACE_PERIOD |-> Lengths,
     OTEL_TRACES_SAMPLER_RATIO |-> {Garbage, NaN, -1, 0, 101},
     OTEL_EXPORTER_OTLP_ENDPOINT |-> Strings, OTEL_SIGNAL_ENDPOINT |-> Strings]
HTTPValues ==
    [HTTP_ADDRESS |-> Strings, HTTP_MAX_REQUEST_BODY_BYTES |-> Lengths,
     HTTP_MAX_HEADER_BYTES |-> Lengths, HTTP_REQUEST_TIMEOUT |-> Lengths,
     HTTP_CORS_ALLOW_ORIGINS |-> {Empty, Blank, {Blank}, {"*", "origin"}},
     HTTP_TRUSTED_PROXY_CIDRS |-> {Empty, {"cidr"}, {"bad cidr"}},
     HTTP_REQUEST_ID_INCOMING_HEADER |-> HeaderKeys,
     HTTP_REQUEST_ID_RESPONSE_HEADER |-> HeaderKeys,
     HTTP_REQUEST_ID_REJECT_INVALID |-> Switch,
     HEALTH_STREAM_CHECK_INTERVAL |-> Lengths \cup {12},
     HEALTH_STREAM_HEARTBEAT_INTERVAL |-> Lengths \cup {12},
     HEALTH_STREAM_MAX_DURATION |-> Lengths, SESSION_COOKIE_SECURE |-> Switch,
     RATE_LIMIT_GLOBAL_IP_CAPACITY |-> Lengths,
     RATE_LIMIT_GLOBAL_IP_REFILL_INTERVAL |-> Lengths]
GRPCValues ==
    [GRPC_ADDRESS |-> Strings, GRPC_HEALTH_REFRESH_INTERVAL |-> Lengths,
     GRPC_REFLECTION_ENABLED |-> Switch, GRPC_REQUEST_TIMEOUT |-> Lengths,
     GRPC_MAX_RECV_MESSAGE_BYTES |-> Lengths, GRPC_MAX_SEND_MESSAGE_BYTES |-> Lengths,
     GRPC_REQUEST_ID_INCOMING_METADATA_KEY |-> HeaderKeys,
     GRPC_REQUEST_ID_RESPONSE_METADATA_KEY |-> HeaderKeys,
     GRPC_REQUEST_ID_REJECT_INVALID |-> Switch, GRPC_SERVER_TLS_ENABLED |-> Switch,
     GRPC_SERVER_TLS_CERT_FILE |-> {Blank, "pem", "not pem"},
     GRPC_SERVER_TLS_KEY_FILE |-> {Blank, "pem", "not pem"},
     GRPC_SERVER_TLS_CLIENT_CA_FILE |-> {Blank, "pem", "not pem"},
     GRPC_SERVER_TLS_REQUIRE_CLIENT_CERT |-> Switch]

\* The settings of one executable beside those that both read.
WithRuntime(own) ==
    [s \in DOMAIN RuntimeValues \cup DOMAIN own |->
        IF s \in DOMAIN own THEN own[s] ELSE RuntimeValues[s]]

\* Changing a setting of the base twice, or back, covers fewer changes.
Changed(base, values) ==
    {[base EXCEPT ![c[1][1]] = c[1][2], ![c[2][1]] = c[2][2]] :
        c \in LET one == UNION {{<<s, v>> : v \in values[s]} : s \in DOMAIN values} IN one \X one}

Defaults(values) == [s \in DOMAIN values |-> Unset]

HTTPEnvs == LET values == WithRuntime(HTTPValues) IN Changed(Defaults(values), values)
\* TLS takes several settings at once, so the bases already hold a working combination.
GRPCEnvs ==
    LET values == WithRuntime(GRPCValues)
        plain == Defaults(values)
        tls == [plain EXCEPT !.GRPC_SERVER_TLS_ENABLED = TRUE,
                             !.GRPC_SERVER_TLS_CERT_FILE = "pem",
                             !.GRPC_SERVER_TLS_KEY_FILE = "pem"]
        mtls == [tls EXCEPT !.GRPC_SERVER_TLS_CLIENT_CA_FILE = "pem"]
        strict == [mtls EXCEPT !.GRPC_SERVER_TLS_REQUIRE_CLIENT_CERT = TRUE]
    IN Changed(plain, values) \cup UNION {Changed(base, GRPCValues) : base \in {tls, mtls, strict}}
=============================================================================
