--------------------------- MODULE SlidingWindow ---------------------------
(***************************************************************************)
(* The per-flow rate limiter: SlidingWindowStore.Allow and AllowTiered     *)
(* over Redis sorted sets.                                                 *)
(*                                                                         *)
(* A caller stamps its call with the server's clock and runs the script    *)
(* later, so scripts run with stamps out of order; the script may be       *)
(* repeated with the same member when its answer is lost.  Every caller    *)
(* makes one call; it stands for the random member it adds, whose score is *)
(* its stamp.                                                              *)
(***************************************************************************)
EXTENDS Integers, FiniteSets, FiniteSetsExt, Sequences

CONSTANTS
    Callers,
    Keys,
    Limit,      \* Limit[k]: the number of events admitted ...
    Window,     \* ... in Window[k] ticks
    TierLists   \* the sequences of distinct keys that callers ask for

VARIABLES
    now,
    zset,     \* zset[k]: members of the sorted set
    zexp,     \* zexp[k]: when Redis drops the key
    call,     \* call[c]: progress and answer of a call
    charged   \* charged[k]: the last time the script added each caller to k, -1 if never (history)

vars == <<now, zset, zexp, call, charged>>

TypeOK ==
    /\ now \in Nat
    /\ zset \in [Keys -> SUBSET Callers]
    /\ zexp \in [Keys -> Nat]
    /\ call \in [Callers -> [pc : {"idle", "run", "allowed", "rejected", "error"},
                             tiers : TierLists \cup {<<>>}, stamp : -1..now, retry : Nat]]
    /\ charged \in [Keys -> [Callers -> -1..now]]

Init ==
    /\ zset = [k \in Keys |-> {}] /\ zexp = [k \in Keys |-> 0]
    /\ call = [c \in Callers |-> [pc |-> "idle", tiers |-> <<>>, stamp |-> -1, retry |-> 0]]
    /\ charged = [k \in Keys |-> [c \in Callers |-> -1]]

----------------------------------------------------------------------------
(* slidingCore's admit and the two scripts.                                *)

score(c) == call[c].stamp
TrimmedEarly(k, stamp) == {c \in zset[k] : score(c) > stamp - Window[k] + 1}
\* ZREMRANGEBYSCORE -inf, stamp - window.
Trimmed(k, stamp) == {c \in zset[k] : score(c) > stamp - Window[k]}
Full(k, stamp) == Cardinality(Trimmed(k, stamp)) >= Limit[k]

\* The wait a rejection announces: until the oldest event leaves the window.
retryMs(k, stamp) ==
    LET ms == Min({score(c) : c \in Trimmed(k, stamp)}) + Window[k] - stamp
    IN  IF ms < 1 THEN 1 ELSE ms

\* The first tier that rejects, one past the last if none does.
rejectedTier(tiers, stamp) ==
    Min({i \in DOMAIN tiers : Full(tiers[i], stamp)} \cup {Len(tiers) + 1})

\* Tiers are charged in order up to the one that rejects, which is only trimmed.
Script(c) ==
    LET tiers == call[c].tiers
        stamp == call[c].stamp
        rejected == rejectedTier(tiers, stamp)
        admitting == {tiers[i] : i \in 1..(rejected - 1)}
        reached == {tiers[i] : i \in 1..rejected \cap DOMAIN tiers}
    IN
    /\ zset' = [k \in Keys |->
            IF k \in admitting THEN Trimmed(k, stamp) \cup {c}
            ELSE IF k \in reached THEN Trimmed(k, stamp) ELSE zset[k]]
    /\ zexp' = [k \in Keys |-> IF k \in admitting THEN now + Window[k] ELSE zexp[k]]
    /\ charged' = [k \in Keys |->
            IF k \in admitting THEN [charged[k] EXCEPT ![c] = now] ELSE charged[k]]

----------------------------------------------------------------------------
(* The store.                                                              *)

InvalidTier(k) == Limit[k] <= 0 \/ Window[k] <= 0

\* No tiers: allowed.  A tier without a positive limit and window, or no randomness for
\* the member: an error.
AllowTiered(c, tiers) ==
    /\ call[c].pc = "idle"
    /\ \E pc \in IF tiers = <<>> THEN {"allowed"}
                 ELSE IF \E i \in DOMAIN tiers : InvalidTier(tiers[i]) THEN {"error"}
                 ELSE {"run", "error"} :
        call' = [call EXCEPT ![c] = [pc |-> pc, tiers |-> tiers, stamp |-> now, retry |-> 0]]
    /\ UNCHANGED <<now, zset, zexp, charged>>

\* The script's answer: allowed, or the rejecting tier and when to retry.
Decision(c) ==
    LET tiers == call[c].tiers
        rejected == rejectedTier(tiers, call[c].stamp)
    IN  IF rejected > Len(tiers) THEN [call[c] EXCEPT !.pc = "allowed"]
        ELSE [call[c] EXCEPT !.pc = "rejected", !.retry = retryMs(tiers[rejected], call[c].stamp)]

\* The script runs and answers, or its answer is lost: go-redis repeats it, or gives up.
Decide(c) ==
    /\ call[c].pc = "run"
    /\ Script(c)
    /\ \E answer \in {Decision(c), call[c], [call[c] EXCEPT !.pc = "error"]} :
        call' = [call EXCEPT ![c] = answer]
    /\ UNCHANGED now
Unavailable(c) ==
    /\ call[c].pc = "run"
    /\ call' = [call EXCEPT ![c].pc = "error"]
    /\ UNCHANGED <<now, zset, zexp, charged>>

\* PEXPIRE: Redis drops the whole key.
Expired(time) ==
    zset' = [k \in Keys |-> IF zexp[k] <= time THEN {} ELSE zset[k]]

Next ==
    \E c \in Callers :
        \/ \E tiers \in TierLists : AllowTiered(c, tiers)
        \/ Decide(c) \/ Unavailable(c)

----------------------------------------------------------------------------

\* "Admits a strict number of events in a rolling window" (SlidingWindowRepository): of
\* the events stamped in the window that ends when the script admits one, never more than
\* the limit were admitted, in whatever order the calls arrive, however often the script
\* is repeated and whenever Redis drops the key.
WindowBound ==
    \A k \in Keys, c \in Callers :
        charged[k][c] >= 0 =>
            Cardinality({d \in Callers : /\ charged[k][d] \in 0..charged[k][c]
                                         /\ score(d) > charged[k][c] - Window[k]}) <= Limit[k]
=============================================================================
