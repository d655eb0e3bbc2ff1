---------------------------- MODULE TokenBucket ----------------------------
(***************************************************************************)
(* The global rate limiter: GlobalRateLimitMiddleware, ipLimiter.AllowIP   *)
(* and the Redis token bucket, for the bucket of one client address.       *)
(*                                                                         *)
(* A request takes its time stamp in the server and runs the Lua script    *)
(* later, so scripts may run with stamps out of order.  The script is      *)
(* atomic; its answer may be lost, and go-redis may repeat it.  The number *)
(* of tokens is a Lua number that tostring() rounds to a fixed number of   *)
(* digits when it is stored: it is kept here as an integer number of       *)
(* 1/Digits tokens, and levels as integer numbers of 1/(Digits * Refill)   *)
(* tokens, which are exact.                                                *)
(***************************************************************************)
EXTENDS Integers

CONSTANTS
    Reqs,       \* requests that can be in flight at one time
    Capacity,   \* RATE_LIMIT_GLOBAL_IP_CAPACITY
    Refill,     \* RATE_LIMIT_GLOBAL_IP_REFILL_INTERVAL, in ticks
    Digits,     \* a stored token count is a multiple of 1/Digits
    Second,     \* ticks in a second
    MaxClock,   \* bound on the clock
    MaxRuns     \* bound on the number of script executions in the observed window

\* The configuration loader refuses a capacity or an interval <= 0.
ASSUME BucketConstants ==
    /\ Capacity \in Nat \ {0} /\ Refill \in Nat \ {0} /\ Digits \in Nat \ {0}
    /\ Second \in Nat \ {0}
    /\ MaxClock \in Nat /\ MaxRuns \in Nat

VARIABLES
    now,       \* the clock
    present,   \* whether the bucket's key exists
    tokens,    \* its field t, in 1/Digits tokens
    updated,   \* its field u
    expires,   \* when Redis drops the key
    req,       \* req[r]: the stamp of a request in flight, or -1
    wait,      \* ticks the last script told its client to wait, 0 if it allowed
    \* History, over a window of observation that can begin at any time:
    mark,      \* when it began
    passed,    \* requests handed to the next handler since
    admitted,  \* script runs that allowed since
    runs,      \* script runs since
    slack      \* ticks by which late stamps moved the bucket back since

bucket == <<present, tokens, updated, expires>>
window == <<mark, passed, admitted, runs, slack>>
vars == <<now, bucket, req, wait, window>>

\* One token, and a full bucket, in the units of a level.
One == Digits * Refill
Full == Capacity * One

TypeOK ==
    /\ now \in Nat
    /\ present \in BOOLEAN
    /\ tokens \in 0..(Capacity * Digits)
    /\ updated \in 0..now
    /\ expires \in Nat
    /\ req \in [Reqs -> -1..now]
    /\ wait \in Nat
    /\ mark \in 0..now
    /\ passed \in Nat /\ admitted \in Nat /\ runs \in Nat /\ slack \in Nat

Init ==
    /\ now = 0
    /\ present = FALSE /\ tokens = 0 /\ updated = 0 /\ expires = 0
    /\ req = [r \in Reqs |-> -1]
    /\ wait = 0 /\ mark = 0
    /\ passed = 0 /\ admitted = 0 /\ runs = 0 /\ slack = 0

----------------------------------------------------------------------------
(* tokenBucketScript.                                                      *)

\* What the script finds: a missing key is a full bucket, updated now.
Found == IF present THEN tokens * Refill ELSE Full
Elapsed(stamp) == IF present /\ stamp > updated THEN stamp - updated ELSE 0

\* A refill that is not capped.
LevelUncapped(stamp) == Found + Elapsed(stamp) * Digits
\* The level after the refill of a script run with this stamp.
Level(stamp) ==
    IF Found + Elapsed(stamp) * Digits > Full THEN Full ELSE Found + Elapsed(stamp) * Digits

Allowed(stamp) == Level(stamp) >= One
Left(stamp) == IF Allowed(stamp) THEN Level(stamp) - One ELSE Level(stamp)

\* math.ceil((1 - tokens) * refill_ms): the least number of ticks that covers what is
\* missing.
Retry(stamp) ==
    IF Allowed(stamp) THEN 0 ELSE (One - Level(stamp) + Digits - 1) \div Digits

\* The Retry-After header, in ticks: whole seconds, rounded up, at least one.
RetryAfter(ticks) ==
    IF ticks = 0 THEN 0
    ELSE LET n == (ticks + Second - 1) \div Second IN (IF n < 1 THEN 1 ELSE n) * Second

\* tostring(): the stored number is a nearest multiple of 1/Digits.
Rounds(t, level) == 2 * level - Refill <= 2 * (t * Refill) /\ 2 * (t * Refill) <= 2 * level + Refill

Behind(stamp, time) == IF stamp < time THEN time - stamp ELSE 0
\* How far a run with this stamp moves the bucket's clock back (for the analysis, not in
\* the code): behind the window, the last update, or the making of a new bucket.
Late(stamp) ==
    IF runs = 0 THEN Behind(stamp, mark)
    ELSE IF present THEN Behind(stamp, updated) ELSE now - stamp

\* HSET of what is left and of this run's stamp, then PEXPIRE.
Script(stamp) ==
    /\ runs < MaxRuns
    /\ \E t \in 0..(Left(stamp) + 1) :
        /\ Rounds(t, Left(stamp))
        /\ tokens' = t
    /\ present' = TRUE
    /\ updated' = stamp
    /\ expires' = now + Capacity * Refill
    /\ wait' = RetryAfter(Retry(stamp))
    /\ admitted' = IF Allowed(stamp) THEN admitted + 1 ELSE admitted
    /\ runs' = runs + 1
    /\ slack' = slack + Late(stamp)

----------------------------------------------------------------------------
(* The middleware.                                                         *)

\* A request is stamped with time.Now().
Allow(r) ==
    /\ req[r] = -1
    /\ req' = [req EXCEPT ![r] = now]
    /\ UNCHANGED <<now, bucket, wait, window>>

Done(r) == req' = [req EXCEPT ![r] = -1]

\* The script runs and answers: 200 and the next handler, or 429 with Retry-After.
Decide(r) ==
    /\ req[r] # -1
    /\ Script(req[r])
    /\ passed' = IF Allowed(req[r]) THEN passed + 1 ELSE passed
    /\ Done(r)
    /\ UNCHANGED <<now, mark>>

\* A limiter that lets requests through when Redis fails.
UnavailableFailsOpen(r) ==
    /\ req[r] # -1
    /\ UNCHANGED <<bucket, wait, admitted, runs, slack>>
    /\ passed' = passed + 1
    /\ Done(r)
    /\ UNCHANGED <<now, mark>>

\* Redis fails: 503.  The script may have run all the same.
Unavailable(r) ==
    /\ req[r] # -1
    /\ Script(req[r]) \/ UNCHANGED <<bucket, wait, admitted, runs, slack>>
    /\ Done(r)
    /\ UNCHANGED <<now, mark, passed>>

\* The answer is lost and go-redis runs the script again, with the same stamp.
Repeat(r) ==
    /\ req[r] # -1
    /\ Script(req[r])
    /\ UNCHANGED <<now, req, mark, passed>>

\* Time passes; Redis drops the key when its time to live is over.
Tick ==
    /\ now < MaxClock
    /\ now' = now + 1
    /\ present' = (present /\ expires > now')
    /\ UNCHANGED <<tokens, updated, expires, req, wait, window>>

\* A new window of observation begins.
Observe ==
    /\ mark' = now
    /\ passed' = 0 /\ admitted' = 0 /\ runs' = 0 /\ slack' = 0
    /\ UNCHANGED <<now, bucket, req, wait>>

Next ==
    \/ \E r \in Reqs : Allow(r) \/ Decide(r) \/ Unavailable(r) \/ Repeat(r)
    \/ Tick
    \/ Observe

Spec == Init /\ [][Next]_vars

----------------------------------------------------------------------------
(* Properties.                                                             *)

\* The burst-tolerant rate: in any window of time no more requests pass than the
\* capacity and one for each refill interval in it, plus what late stamps gave back and
\* half a digit of rounding for each run.  (Both sides are in half units of a level.)
AdmissionBound ==
    2 * (passed * One) <= 2 * Full + 2 * (Digits * (now - mark + slack)) + runs * Refill

\* "Retry-After must not tell a client to retry before the limiter allows it": a request
\* stamped that long after the rejected one is allowed, if no other ran meanwhile.
RetryAfterSuffices == wait > 0 => Allowed(updated + wait)

\* The strengthening of AdmissionBound that every step preserves.  Once a script ran in
\* the window, what the bucket holds counts as admitted already, and a missing key means
\* that the time to fill the bucket has gone by: a key lives for as long as that takes.
Credit ==
    /\ passed <= admitted
    /\ present => updated + Capacity * Refill <= expires
    /\ runs = 0 => admitted = 0
    /\ runs # 0 /\ present =>
        2 * (admitted * One) + 2 * (tokens * Refill)
          <= 2 * Full + 2 * (Digits * (updated - mark + slack)) + runs * Refill
    /\ runs # 0 /\ ~present =>
        2 * (admitted * One) <= 2 * (Digits * (now - mark + slack)) + runs * Refill
=============================================================================
