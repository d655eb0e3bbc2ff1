---------------------------- MODULE Repositories ----------------------------
(***************************************************************************)
(* The repositories that share the Redis and Postgres of a deployment: the *)
(* token bucket of the global limiter, the sliding windows of the per-flow *)
(* limiter, and the accounts with their cache.  They use keys and tables   *)
(* of their own, so a behaviour exercises one of them under the clock they *)
(* share.                                                                  *)
(***************************************************************************)
EXTENDS TokenBucket, Sequences

CONSTANTS Callers, Keys, Limit, Window, TierLists, Calls, Emails, MaxUsers, CacheTTL, None,
          WindowClock, UserClock   \* bounds on the clock of the windows, of the accounts

VARIABLES
    part,                                   \* the repository that is used
    zset, zexp, call, charged,              \* SlidingWindow
    users, link, linkedBy, cache, uexp, op  \* Users

SW == INSTANCE SlidingWindow
U == INSTANCE Users

windowVars == <<zset, zexp, call, charged>>
userVars == <<users, link, linkedBy, cache, uexp, op>>
bucketVars == <<bucket, req, wait, window>>
allVars == <<vars, part, windowVars, userVars>>

ASSUME RepositoryConstants ==
    /\ Limit \in [Keys -> Int] /\ Window \in [Keys -> Int]
    /\ TierLists \subseteq Seq(Keys)
    /\ MaxUsers \in Nat /\ CacheTTL \in Nat \ {0} /\ WindowClock \in Nat /\ UserClock \in Nat
    /\ None \notin Emails \cup Calls \cup U!IDs \cup U!Rows \cup U!Copies \cup U!Entries

Setup == part \in {"bucket", "window", "users"} /\ Init /\ SW!Init /\ U!Init

UseBucket == part = "bucket" /\ Next /\ UNCHANGED <<part, windowVars, userVars>>
UseWindow == part = "window" /\ SW!Next /\ UNCHANGED <<part, bucketVars, userVars>>
UseUsers == part = "users" /\ U!Next /\ UNCHANGED <<part, bucketVars, windowVars>>

\* Time passes and Redis drops what has expired.
TimePasses ==
    /\ now < (IF part = "window" THEN WindowClock ELSE UserClock)
    /\ now' = now + 1
    /\ \/ part = "window" /\ SW!Expired(now') /\ UNCHANGED <<zexp, call, charged, userVars>>
       \/ /\ part = "users" /\ U!Expired(now')
          /\ UNCHANGED <<users, link, linkedBy, uexp, op, windowVars>>
    /\ UNCHANGED <<part, bucketVars>>

RepositoriesSpec == Setup /\ [][UseBucket \/ UseWindow \/ UseUsers \/ TimePasses]_allVars

----------------------------------------------------------------------------

\* A limit on the events of a rolling window, whatever order they arrive in (SlidingWindow).
WindowBound == SW!WindowBound

\* One account for everybody who logs in with a provider identity, but for a race between
\* two first logins with different addresses (Users).
StrayAccountOnlyFromRace == U!StrayAccountOnlyFromRace

\* A change of an account is hidden by its cached copy for a bounded time (Users).
StaleCopyExpires == U!StaleCopyExpires
=============================================================================
