# Formal model of the Go backend

TLA+ modules, TLC configurations and TLAPS proofs for the two services of this
repository (`cmd/httpapi` and `cmd/grpcapi`). The modules follow the source; each
definition that models code names its lines in `PROJECT.json` ("map").

## The system and its parts

| Part | State | Operations | Shared with |
|---|---|---|---|
| OTP login (`usecase/auth/otp`, `otp_store.go`, auth handler) | one code per address in Redis, with TTL | send (store, mail, cleanup on failure), verify (consume, look up or create the account, create a session) | Postgres users, sessions, mail provider |
| Server sessions (`usecase/auth/session`, `session_store.go`, session middleware) | one key per token in Redis | create, validate, revoke | handlers, browser cookie |
| OAuth login (`usecase/auth/oauth`, `oauth_state_store.go`, auth handler) | one-time state in Redis, binding cookie in the browser | authorize, callback | provider, Postgres users, sessions |
| Global rate limiter (`globalratelimit`, `token_bucket_store.go`, middleware) | one bucket per client address in Redis | allow | every HTTP request |
| gRPC health reporter (`standard_health_reporter.go`) | status of two services, the refresh goroutine | Start, Refresh, Shutdown | health usecase, lifecycle |
| Health usecase (`usecase/health`) | none; asks Postgres and Redis | Check, in a live and a ready mode | reporter, HTTP and gRPC health endpoints |
| Process lifecycle (`app/runtime`, `app/{http,grpc}api`, `delivery/{http,grpc}/server.go`) | telemetry, logger, pool, Redis client, server | bootstrap, Start, signal, Shutdown | everything |
| User repository and its cache (`user_store.go`, `user_cached_store.go`) | users and OAuth connections, cached users | get, create, upsert | login flows, session middleware |
| Sliding window limiter (`sliding_window_store.go`) | a sorted set per tier in Redis | Allow, AllowTiered | not called by a usecase yet |
| gRPC client (`infra/grpcclient`) | one call or stream: a Once, a context, a gauge | open, SendMsg, RecvMsg, finish, cancel | remote services |
| HTTP pipeline and SSE health stream (`delivery/http`) | one request or stream: context, recorded outcome, response | middlewares, binder, responder, stream loop, recorders | all handlers |
| gRPC server pipeline (`delivery/grpc`) | one call: context, identity, status | interceptors, responder, services | diagnostics and health services |
| Configuration and wiring (`infra/config`, `app/*_server_wiring.go`, `tlsconfig`) | none after boot | load, validate, build the chain | both pipelines |

Handlers run concurrently, in several instances of the process, and meet only in
Redis and in Postgres: every Redis script is atomic and so is every SQL statement,
but for the upsert of a connection, whose parts see the database at different times;
nothing between two of them is. go-redis repeats a command whose answer it did not get, so
that a command may have run and be reported as failed, or run twice. Within a
process, goroutines meet in the health reporter and in the lifecycle.

What makes each part correct, and is hard to test:

- **OTP** – a code logs in once, whatever is lost or repeated; a failed send takes
  no one else's code away without reason; a disabled account gets
  no session; a session belongs to the address its code was sent to.
- **Sessions** – no session is accepted past its TTL or after a completed revocation,
  and none is lost before.
- **OAuth** – a state is exchanged once, in the browser that began the flow; a flow
  that nobody disturbs completes.
- **Rate limiter** – a bound on admissions that survives stamps out of order, rounding,
  expiry and lost answers; a Retry-After that is long enough.
- **Health reporter** – Shutdown always returns, afterwards nothing is checked or
  served; until then the status follows the dependencies.
- **gRPC client** – a stream's end is recorded once and as it was, whoever of its two
  users sees it first, and its context is released, but not before.
- **Sliding window** – never more events than the limit in the window that ends at an
  admission, whatever order the scripts run in.
- **Users** – one account per provider identity; a cached copy hides a change for a
  bounded time.
- **Pipelines** – one answer per request, recorded once and as it was sent; the end of a
  context told apart from an outage; every handler bounded by a deadline and every stream
  by its duration; no identity that the handshake did not verify.
- **Lifecycle** – the process ends, releases what it opened, and does not report
  success when it cut a request off.

`PROJECT.json` lists the hazards behind these, each at its line.

## Modules

| Module | Models | Composes |
|---|---|---|
| `OTPAuth`, `OAuthFlow` | the two login flows | implement `OneTimeCredential` |
| `OneTimeCredential` | what both promise of a code or a state: usable while held, taken away by its use, never brought back | |
| `Sessions` | sessions, the session middleware, logout | |
| `TokenBucket`, `SlidingWindow`, `Users` | the repositories over Redis and Postgres | |
| `Repositories` | one deployment: a behaviour uses one of the three, under one clock | `TokenBucket`, `SlidingWindow`, `Users` |
| `HealthReporter` | the refresh goroutine and Shutdown | |
| `Lifecycle` | both processes from bootstrap to exit | `HealthReporter`, whose dependencies it opens and closes |
| `ClientStream` | outbound gRPC calls | |
| `HealthCheck` | the health usecase's Check as operators | |
| `HTTPPipeline`, `GRPCPipeline` | one inbound request or RPC | `HealthCheck` |
| `Config` | environment to validated settings, as operators | |
| `Inbound` | a process that reads its settings, builds its chain and serves a request | `Config`, `HTTPPipeline`, `GRPCPipeline` |

An `MC...` module adds what TLC needs (symmetry sets, functions as constants) and its
`.cfg` the constants. A `...Proofs` module holds the theorems about the module it is named
after, and `RepositoriesProofs` also those about the token bucket alone.

**Atomicity.** One action is one Redis command or script, one SQL statement, one
call of an external service, one channel operation or one assignment to shared state,
with the local code that follows it. A program counter per request or goroutine holds
the place between two actions. Formatting is left out; spans, metrics and access records
are modelled where a property is about them, in the pipelines and in `ClientStream`.

**Redis and Postgres.** A command ends in one of four ways (`Outcomes`): executed and
answered, not executed and failed, executed with the answer lost, or executed twice
because go-redis repeated it. A key's deadline is a clock value; `Tick` advances the
clock and drops the keys that are due.

- `OTPAuth`: `otp[e]` is the send whose code is stored for the address `e` (so two
  equal codes of two sends are told apart by the model though not by the code, which
  compares the codes: `Matches`); `send` and `verify` are the requests; `users` the
  account of each address. `OtherAccountChange` is an operator or another flow
  that creates or disables an account. History: `barred`, `writes`, `overlap`.
- `Sessions`: `store[t]` is the stored `ExpiresAt`, already converted to whole
  seconds (`Unix`), and `storeExp[t]` the key's own deadline. `req` is a request in
  the middleware, `logout` one in the logout handler. `Second` is the length of a second
  in clock ticks, so that truncation shows.
- `OAuthFlow`: `stored` are the states in Redis, `cookie[b]` the flow whose binding
  secret browser `b` holds. A callback carries a state, in any browser; the provider
  and every store call may fail (`faults`).
- `TokenBucket`: levels are integers: a token is `Digits * Refill` units and a level
  is stored rounded to a multiple of `Refill` units, i.e. to one `Digits`-th of a token
  (`Rounds`), as `tostring` rounds the decimal. A request takes its
  stamp (`Allow`) and runs the script later (`Decide`, `Unavailable`, `Repeat`), so
  scripts run in any order of their stamps. `Observe` begins a window at any moment, and
  `passed`, `admitted`, `runs` and `slack` record what happened in it.
- `SlidingWindow`: a caller is the random member it adds, its stamp the score. Tiers are
  charged in order up to the one that rejects (`Script`); `charged` is the history.
- `Users`: `users` and `link` are the two tables for one provider identity, `cache` the
  entries in Redis. The upsert is one statement but two actions: `existing` reads the
  snapshot the statement began with (`UpsertOAuthUser`), its INSERTs meet what was
  committed since (`Upsert`). `changed`, `read` and `stored` are history.
- `HTTPPipeline`: `pc` walks the middleware chain inwards and outwards; `wire` are the
  statuses written, `outcome` what the responder left for the recorders, `tele` the span
  and the records. An error is its application code and the context error it wraps. A
  request has a route and a path, since the skipper of the deadline compares the path before
  the router has run: another method or an escaped spelling on the stream's path is
  unrouted, and is skipped like the stream. Echo's router, CORS and error handler are
  external. A stalled client blocks the stream's writes, whose deadline the code clears.
- `GRPCPipeline`: the same for an RPC: handshake, request context, caller identity,
  observability, recovery, service. Interceptors pass their context inwards only, so an RPC
  refused outside observability leaves no record (`Refusable`).
- `Config`: a raw value is unset, empty, blank, unparsable, NaN or the value it spells;
  `int32` keeps its width, scaled down by `Int32Bits`. `HTTPEnvs` and `GRPCEnvs` are the
  environments checked: a working base with at most two settings changed to values at or
  beyond an edge of the validation.
- `HealthReporter`: `run` is the refresh goroutine, `stop[s]` a caller of `Shutdown`
  whose context may expire (`expired`). The checks of the usecase are separate steps
  that may block.
- `ClientStream`: the outbound calls through the two client interceptors, in either
  order. `user[c][g]` is the goroutine that sends or receives on a stream, on its way
  back through the two wrappers with an error; `end` is the status the transport ended the
  stream with. The transport is external and follows grpc-go: SendMsg answers io.EOF once
  the stream has ended, whatever the status, and RecvMsg of a client-streaming call answers
  nil at its successful end. Calls that return no end are no steps.
- `Lifecycle`: `main` and `shut` are main's goroutine and the shutdown goroutine,
  `open` the resources, `handler` the requests in flight. A handler may call Redis or query
  Postgres at any time it runs, so a closed resource is met if it can be.

## Runs

| Run | Instance | Shows |
|---|---|---|
| `otp` | 1 address, 2 codes, 2 sends, 2 verifies, TTL 2 | `CodesAreOneTime` (refinement), `CodeConsumedOnce`, `SentCodeLossExplained`, `SessionHasAccountAndCode`, `DisabledAccountGetsNoSession` |
| `sessions` | 1 token, 2 requests, 2 logouts, TTL 3, second 2 | `NotAcceptedAfterTTL`, `RevokedSessionRejected`, `LiveSessionKept` |
| `logout` | 1 token, 1 logout | violation of `LogoutRevokesSession` |
| `oauth` | 2 browsers, 2 flows, 2 callbacks, TTL 2 | `StatesAreOneTime` (refinement), `StateExchangedOnce`, `SessionBoundToBrowser`, `UndisturbedFlowLogsIn` |
| `repositories` | bucket of 2 with 2 callers; windows of two keys and an invalid one, 3 callers; 2 accounts, 2 addresses, 3 calls | `AdmissionBound`, `WindowBound`, `StrayAccountOnlyFromRace`, `StaleCopyExpires` |
| `retry_after` | bucket with refill 3, levels in tenths | violation of `RetryAfterSuffices` |
| `health_reporter` | 2 callers of Shutdown | `NoCheckAfterShutdown`, `NotServingAfterShutdown`, `EndedRunNeverTimesOut`, `ShutdownReturns`, `StatusFollowsReadiness` |
| `lifecycle` | 2 handlers, both executables | `ExitReleasesEverything`, `CleanExit`, `ClosedResourceUseReported`, `AcceptNeedsResources`, `Terminates` |
| `client_stream` | 2 calls of every kind | `GaugeCountsOpenStreams`, `ReportedEndIsRecorded`, `RecvOutcomeIsStatus`, `ResponseStreamRecorded` |
| `stream_outcome` | 1 stream | violation of `TerminalOutcomeRecorded` |
| `inbound` | every environment of `Config`, every request, one at a time | `TelemetryMatchesWire`, `ServerFailureMarked`, `ContextErrorAnswered`, `CallsBounded`, `IdentityVerified`, `RequestEnds` |
| `span_status` | the same | violation of `ClientFailureUnmarked` |

`repositories`, `health_reporter`, `lifecycle` and `inbound` also check `TypeOK`; in
`OTPAuth`, `OAuthFlow`, `Sessions` and `ClientStream` it documents the state. The bounds:

- The races of the login flows are between two requests on one key, so two of
  each kind on one address, token or state show them; addresses and tokens do not
  interact. Two codes give a right and a wrong guess, and two sends may draw the same
  code. `MaxClock` lets a key expire before, between and after the steps of a request;
  `MaxWrites` bounds only how often a repeated SET is counted.
- In `sessions` the TTL is no multiple of the second, so that `ExpiresAt` is
  truncated in some behaviours and exact in others.
- In `repositories` `MaxClock` exceeds the time to fill the bucket, so that a key
  expires and a fresh bucket is found; `MaxRuns` lets both callers run out of order. The
  theorems about the bucket have no such bounds. A window of 2 ticks under a clock of 3
  lets a stamp be older than the window when its script runs, and three callers overfill a
  limit of 2. Two accounts and three calls are what a race of two first logins and a third
  reader need. The repositories share no key, so a behaviour uses one of them.
- In `inbound` requests do not interact: the state they share (limiter, sessions, users)
  is the other modules' subject and appears here as the outcomes it can have.
- The waits in `health_reporter` and `lifecycle` need no clock: a deadline is a step
  that may come at any time.

The runs end in states without successor when every request is answered or the
clock is at its bound; `CHECK_DEADLOCK FALSE` says so. That the processes themselves do not
get stuck is what `ShutdownReturns` and `Terminates` say.

**Fairness.** In `HealthReporter`, the steps of the goroutine and of a running
Shutdown are weakly fair (Go schedules them) and a context's deadline passes. The end of
the run is strongly fair: its select offers a tick and the cancellation again and again,
and Go chooses among ready cases at random. A
blocked check is not assumed to come back. In `Lifecycle` main, the shutdown
goroutine and the reporter are weakly fair, the grace period ends, a storage call returns
(it carries a deadline or a cancelled context), and a gRPC handler returns once
`Stop` cancelled it. An HTTP handler is not assumed to return: an SSE health stream may
outlast the grace period. In `ClientStream` goroutines are scheduled and the
application receives until it is told the end. grpc-go also allows it to cancel the context
and receive no more; then no end is reported, nothing is recorded and the gauge leaks, as in
the finding below, and `ResponseStreamRecorded` says nothing of it. In `Inbound` the process
boots and a chain that can go on does, a stream's maximum duration passes, and a select
that finds Done ready again and again takes it in the end (strong fairness, as Go chooses
among ready cases at random). Neither a client that leaves nor one that reads again is
assumed: `RequestEnds` speaks of clients that do not stall for good, since a stalled write
without a deadline does not end. The other modules state safety only.

**Findings.** `logout`: a failed revocation is logged and answered with 200, while
the contract says the session is revoked. `retry_after`: the bucket's level is stored
rounded, so that with a refill interval that has no short decimal (3000 ms) a client
that waits Retry-After is rejected once more; the default of 250 ms is exact. The model
keeps tenths of a token where the code keeps 14 digits; in the code's arithmetic an empty
bucket shows it when requests are rejected after 300 ms and after 1000 ms: the second
leaves a level of 0.33333333333333 and announces 2 s, after which the level is
0.9999999999999967.
`stream_outcome`: the client's stream telemetry promises to record the terminal outcome
once, but a client-streaming call that succeeds ends with a RecvMsg that answers nil, so
nothing is recorded, the span stays open, the gauge of active streams stays up and the
context is released only by its deadline. The same property also fails on a bidirectional
stream that the server ended with an error the sender notices first: its io.EOF is recorded
as OK. `RecvOutcomeIsStatus` shows that a wrong outcome comes from SendMsg only.
`span_status`: the comments on `errorType` of both servers say that a client's failure does
not fail the server span, but the tracer judges the recorded error and not the status: a
plain error (malformed body, failed validation, missing cookie, invalid request ID, an
unknown service of the health check) or a cancellation wrapped as unavailable fails the
span of a 4xx answer. The converse holds (`ServerFailureMarked`).

Met while modelling and left without a run: the server's deadline is meant for everything
but the stream, yet a request on the stream's path that no route takes (another method, an
escaped spelling) reaches the limiter's Redis call without it. `CallsBounded` says exactly
that this is the only such call: the session check and every handler but the stream's have
the deadline. A failure of the OAuth provider other than a deadline, an outage too, is
answered as unauthorized, so `ServerFailureMarked` does not speak of it.

## Proofs

Eight modules prove every invariant that a passing run checks, both action properties
(`SentCodeLossExplained`, `AcceptNeedsResources`) and both refinements, for every value
of the constants: any number of addresses, codes, tokens, browsers, requests, calls,
handlers and callers, any TTL, limit, window, capacity and precision, and any bound on the
clock. Each states one inductive invariant, `Inv`, as a conjunction of named parts, shows
that it holds initially and that every action keeps it (one step or lemma per action), and
derives the theorems from it. TLC checked each `Inv` on the run's instance before it was
proved. The parts and why they are needed:

- `OTPAuthProofs`. `CodeConsumedOnce` counts consumers against executed SETs and says
  nothing of the key that is still there, so a step that consumes it would break the
  count: `PaidFor` charges the SETs with the consumers plus the live key. `SendSound` and
  `VerifySound` tie a consumed code to the address it was drawn for and an account, which
  `SessionHasAccountAndCode` needs; `BarredSound` says that an account disabled before the
  lookup stops its request there. `OverlapSound` says that a send that may still clean up
  knows the send whose code it could take away, from which the action property follows.
- `OAuthFlowProofs`. `FlowSound` and `CallbackSound` tie cookie, state and binding to the
  browser that began the flow. `OnceSound` adds to `StateExchangedOnce` that a callback
  between consume and exchange is alone and that its state is gone, which no later step
  brings back. For `UndisturbedFlowLogsIn`, `FlowKept` says how long a state and its
  cookie survive if nobody touches them, and `UndisturbedSound` how far a callback has
  come on them.
- In both, `CodesAreOneTimeCredentials` and `StatesAreOneTimeCredentials` prove the
  refinement of `OneTimeCredential`: the initial states map to initial states and, under
  `Inv`, every action to a step of the abstract credential or to a stutter.
- `SessionsProofs`. `StoreSound`: a key holds what its one login stored and never
  expires before `ExpiresAt`. `RevokedGone`: a login never stores after its
  session was issued, so a confirmed DEL is final. `ReadSound`: what a request
  concluded from its GET is still right when it is accepted, and what it read after a
  confirmed DEL was nothing. `KeptUntilRounded`: a session that nobody logs out is in Redis
  until its end rounded down, which `UnixBound` places less than a second before
  `ExpiresAt`; `LiveSessionKept` speaks of the unrounded end only.
- `RepositoriesProofs`. *Bucket:* `AdmissionBound` does not say what is still in the
  bucket. `Credit` adds it: in a window in which a script ran, the admissions plus the
  level stored never exceed a full bucket plus the refill up to the last stamp, plus the
  time given back by late stamps and half a digit for each rounding; a key that is gone
  has been idle for as long as filling takes. `ScriptCredit` is the step that matters.
  *Windows:* `MembersSound` says that an event whose stamp is still in the window is in the
  sorted set, although scripts with older stamps trim and the key expires, so
  ZCARD is no less than what the limit is about. *Accounts:* a snapshot in which
  the identity is connected stays true, and what an upsert answers with is the connected
  account or one with its address; a copy that differs from its row was read before the
  row changed. The shared clock carries each part's invariant through the steps of the others.
- `HealthReporterProofs`. `ServerStopped`: a caller past its first step has stopped
  the server, and a stopped server has every status NOT_SERVING. `RunCancelled`: a caller
  past its second step has cancelled the run's context, so that a caller that
  returned saw the run either ended or not yet begun, in which case it ends before its
  first check. `LateSound`: a caller that found the run ended cannot take the branch of
  its own expired context.
- `LifecycleProofs` cites `HealthReporterProofs` through an instance (`RP`) for the reporter
  inside the gRPC process and adds what main and the shutdown goroutine have done
  (`BootSound`, `RuntimeSound`, `ListenerSound`, `ServerSound`), that requests outlive the
  server's shutdown only on HTTP and that this is reported (`DrainSound`), the same for a
  reporter that timed out (`ReporterSound`), and what an exit code says (`ExitSound`).
- `ClientStreamProofs`. `OnceSound`: whoever runs finish is alone, and an open
  stream's outcome is recorded exactly when the Once is done. `PassedSound`: each
  wrapper did its part before the error reached the next one. `UserSound` and `RecordSound`
  carry the status from the transport to the record, for receives; `GaugeSound` adds that
  the set of open streams is finite, without which its cardinality says nothing.
- `InboundProofs`. `HTTPBoot` and `GRPCBoot` show what validation guarantees of every
  accepted environment (deadlines on, tickers that can start, required certificates are
  verified). For each chain, `...Inwards` says that on its way in a request has no
  answer, no record and the right deadline; `...Answer` that the error left for the
  recorders and the status sent blame the same party (`Blames`); `...Records` what each
  place of the way out has recorded; `GRPCIdentity` where an identity comes from. Settings
  and requests are finite sets in the model, so beyond TLC's run this covers every
  `Int32Bits` and every representation of `None`, and shows why the properties hold.

The theorems rest on the named assumptions of the modules (`BucketConstants`,
`SessionConstants`, `OTPConstants`, `OAuthConstants`, `RepositoryConstants`,
`ClientStreamConstants`, `ConfigConstants`, `InboundConstants`): times to live, capacities and
the length of a second are positive, and `None` is none of the values it is told apart
from. The code refuses or replaces other values of the limiters, the OTP and the cache, and
the OAuth state's is a constant of the code. `SESSION_TTL` alone is validated nowhere: with
zero or less Redis would keep the key for good, and `Validate` refuse the session at once.
TLC evaluates the assumptions on every run. No
set of requests, callers or keys is assumed finite; finiteness, where a cardinality needs
it, is a part of the invariant.

Model-checked only: liveness (`ShutdownReturns`, `StatusFollowsReadiness`, `Terminates`,
`ResponseStreamRecorded`, `RequestEnds`), which needs fairness and ENABLED, out of this
prover's reach.

The refinements leave open how often: `CodeConsumedOnce` says that a code can be used again
only if its SET was repeated before the mail went out.

## Plan

1. Done: login flows, sessions, rate limiters, accounts and their cache, reporter,
   lifecycle, outbound gRPC calls, configuration and both inbound pipelines; the abstract
   one-time credential and its two refinements; proofs of all safety properties.
2. Left: shorter proofs where a leaf cites more than it needs, and lemmas about
   `HealthCheck` and `Config` shared by the modules that use them.

## Not modelled

- Generated code (`delivery/grpc/gen`, `openapi/gen`, sqlc): its behaviour is that of the
  statements and contracts it is generated from, which the modules follow.
- Reading certificate files, dialing and client credentials: library I/O without state;
  only whether it succeeds is modelled.
- Exporters, attributes, field names and formatting of OpenTelemetry and zap; their
  set-up and shutdown with its failures are in `Lifecycle`. Settings that are only copied
  from the environment to a constructor are left out of `Config`.
- The external providers and object storage: remote services, present by their outcomes.
- `util/retry`: no code of either executable calls it, so there is no operation to repeat.
- The profile selector and the test helpers: development tools, sequential file I/O.
- Constructors of the dependency wiring that only pass values on.

`PROJECT.json` gives the reason for each. A crash of the process is not a case of its own:
what it leaves in Redis and Postgres is what a request leaves that stopped between two of
its actions, and no action is forced to happen in the safety specifications.
