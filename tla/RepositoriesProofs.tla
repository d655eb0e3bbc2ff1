------------------------- MODULE RepositoriesProofs -------------------------
(***************************************************************************)
(* Repositories for every set of callers, keys, limits, windows, accounts  *)
(* and times to live: the sliding windows keep their bound, one provider   *)
(* identity means one account but for a race, a stale cached account is    *)
(* gone after its time to live, and the token bucket admits no more than   *)
(* its capacity and its refill allow.                                      *)
(***************************************************************************)
EXTENDS Repositories, FiniteSetTheorems, WellFoundedInduction, TLAPS

----------------------------------------------------------------------------
(* The token bucket, for every capacity, refill interval, number of digits *)
(* and set of requests.                                                    *)

\* One token and a full bucket are positive numbers of level units.
LEMMA UnitsType == One \in Nat \ {0} /\ Full \in Nat /\ Full >= One
<1>1. One \in Nat \ {0}
  BY BucketConstants DEF One
<1>2. \A c \in Nat \ {0}, o \in Nat : c * o \in Nat /\ c * o >= o
  OBVIOUS
<1>3. QED
  BY <1>1, <1>2, BucketConstants DEF Full

\* What a script run finds, and what it leaves, lie between empty and full.
LEMMA LevelRange ==
  ASSUME TypeOK, NEW s \in 0..now
  PROVE  /\ Found \in 0..Full
         /\ Elapsed(s) \in Nat
         /\ Level(s) \in 0..Full
         /\ Left(s) \in 0..Full
         /\ Level(s) <= Found + Elapsed(s) * Digits
         /\ Left(s) = IF Allowed(s) THEN Level(s) - One ELSE Level(s)
         /\ Allowed(s) \in BOOLEAN
         /\ Late(s) \in Nat
<1> USE UnitsType, BucketConstants
<1>1. Found \in 0..Full
  <2>1. CASE present
    <3>1. tokens \in Nat /\ tokens <= Capacity * Digits
      BY DEF TypeOK
    <3>2. \A a, b, r \in Nat : a <= b => a * r <= b * r
      OBVIOUS
    <3>3. tokens * Refill <= (Capacity * Digits) * Refill
      BY <3>1, <3>2
    <3>4. (Capacity * Digits) * Refill = Full
      BY DEF Full, One
    <3>5. QED
      BY <2>1, <3>1, <3>3, <3>4 DEF Found
  <2>2. CASE ~present
    BY <2>2 DEF Found
  <2>3. QED
    BY <2>1, <2>2
<1>2. Elapsed(s) \in Nat
  BY DEF Elapsed, TypeOK
<1>3. Elapsed(s) * Digits \in Nat
  BY <1>2
<1>4. Level(s) \in 0..Full /\ Level(s) <= Found + Elapsed(s) * Digits
  BY <1>1, <1>3 DEF Level
<1>5. Left(s) \in 0..Full
  BY <1>4 DEF Left, Allowed
<1>6. Late(s) \in Nat
  BY DEF Late, Behind, TypeOK
<1>7. QED
  BY <1>1, <1>2, <1>4, <1>5, <1>6 DEF Left, Allowed

\* The time to wait is a natural number of ticks.
LEMMA WaitType ==
  ASSUME TypeOK, NEW s \in 0..now
  PROVE  RetryAfter(Retry(s)) \in Nat
<1> USE UnitsType, BucketConstants
<1>1. \A a \in Nat, d \in Nat \ {0} : a \div d \in Nat
  OBVIOUS
<1>2. Retry(s) \in Nat
  <2>1. CASE Allowed(s)
    BY <2>1 DEF Retry
  <2>2. CASE ~Allowed(s)
    <3>1. One - Level(s) + Digits - 1 \in Nat
      BY <2>2, LevelRange DEF Allowed
    <3>2. QED
      BY <2>2, <3>1, <1>1 DEF Retry
  <2>3. QED
    BY <2>1, <2>2
<1> DEFINE k == Retry(s)
           n == (k + Second - 1) \div Second
<1>3. k # 0 => n \in Nat
  <2>1. \A a \in Nat, d \in Nat \ {0} : a # 0 => a + d - 1 \in Nat
    OBVIOUS
  <2>2. k # 0 => k + Second - 1 \in Nat
    BY ONLY <1>2, <2>1, BucketConstants
  <2>3. QED
    BY ONLY <1>1, <2>2, BucketConstants
<1>4. \A m \in Nat : (IF m < 1 THEN 1 ELSE m) * Second \in Nat
  OBVIOUS
<1>5. RetryAfter(k) = IF k = 0 THEN 0 ELSE (IF n < 1 THEN 1 ELSE n) * Second
  BY DEF RetryAfter
<1> HIDE DEF k, n
<1>6. RetryAfter(k) \in Nat
  BY <1>3, <1>4, <1>5
<1>7. QED
  BY <1>6 DEF k

\* A script run keeps the types of the bucket and of the history.
LEMMA ScriptType ==
  ASSUME TypeOK, NEW s \in 0..now, Script(s)
  PROVE  /\ present' = TRUE /\ updated' = s
         /\ tokens' \in Nat /\ tokens' \in 0..(Capacity * Digits)
         /\ 2 * (tokens' * Refill) <= 2 * Left(s) + Refill
         /\ expires' \in Nat /\ wait' \in Nat
         /\ admitted' \in Nat /\ runs' \in Nat /\ slack' \in Nat
<1> USE UnitsType, BucketConstants, LevelRange
<1>1. PICK t \in 0..(Left(s) + 1) : Rounds(t, Left(s)) /\ tokens' = t
  BY DEF Script
<1>2. t \in Nat /\ 2 * (t * Refill) <= 2 * Left(s) + Refill
  BY <1>1 DEF Rounds
<1>3. t <= Capacity * Digits
  <2>1. SUFFICES ASSUME t >= Capacity * Digits + 1 PROVE FALSE
    BY <1>2
  <2>2. \A a, b, r \in Nat : a >= b + 1 => a * r >= b * r + r
    OBVIOUS
  <2>3. t * Refill >= (Capacity * Digits) * Refill + Refill
    BY <1>2, <2>1, <2>2
  <2>4. (Capacity * Digits) * Refill = Full
    BY DEF Full, One
  <2>5. t * Refill \in Nat
    BY <1>2
  <2>6. QED
    BY <1>2, <2>3, <2>4, <2>5
<1>4. wait' \in Nat
  BY WaitType DEF Script
<1>5. Capacity * Refill \in Nat
  OBVIOUS
<1>6. QED
  BY <1>1, <1>2, <1>3, <1>4, <1>5 DEF Script, TypeOK

\* So a step made of a script run and of the end of a request keeps all types.
LEMMA ScriptTypeOK ==
  ASSUME TypeOK, NEW s \in 0..now, Script(s), now' = now, mark' = mark,
         req' \in [Reqs -> -1..now], passed' \in Nat
  PROVE  TypeOK'
<1>1. /\ updated' \in 0..now /\ tokens' \in 0..(Capacity * Digits) /\ present' \in BOOLEAN
      /\ expires' \in Nat /\ wait' \in Nat
      /\ admitted' \in Nat /\ runs' \in Nat /\ slack' \in Nat
  BY ScriptType
<1>2. QED
  BY <1>1 DEF TypeOK

\* A script run keeps the credit: what it admits it takes out of the bucket, and what the
\* bucket gains is paid for by the time since the last update or by the run's lateness.
LEMMA ScriptCredit ==
  ASSUME TypeOK, Credit, NEW s \in 0..now, Script(s), now' = now, mark' = mark
  PROVE  /\ runs' # 0
         /\ updated' + Capacity * Refill <= expires'
         /\ 2 * (admitted' * One) + 2 * (tokens' * Refill)
              <= 2 * Full + 2 * (Digits * (updated' - mark' + slack')) + runs' * Refill
<1> DEFINE A == admitted * One
           T == tokens * Refill
           x == s - mark + slack + Late(s)
           D(n) == Digits * n
<1>1. /\ Capacity \in Nat /\ Refill \in Nat /\ Digits \in Nat
      /\ One \in Nat /\ Full \in Nat
  BY BucketConstants, UnitsType
<1>2. /\ s \in Nat /\ now \in Nat /\ mark \in Nat /\ updated \in Nat /\ tokens \in Nat
      /\ admitted \in Nat /\ runs \in Nat /\ slack \in Nat /\ s <= now /\ mark <= now
  BY DEF TypeOK
<1>3. /\ Level(s) \in Nat /\ Left(s) \in Nat /\ Level(s) <= Full /\ Late(s) \in Nat
      /\ Left(s) = IF Allowed(s) THEN Level(s) - One ELSE Level(s)
  BY LevelRange, UnitsType
<1>4. A \in Nat /\ T \in Nat /\ runs * Refill \in Nat /\ x \in Int /\ D(x) \in Int
  BY <1>1, <1>2, <1>3
<1>5. admitted' * One + Left(s) = A + Level(s)
  <2>1. (admitted + 1) * One = A + One
    BY <1>1, <1>2
  <2>2. QED
    BY <1>1, <1>2, <1>3, <1>4, <2>1 DEF Script
<1>6. 2 * A + 2 * Level(s) <= 2 * Full + 2 * D(x) + runs * Refill
  <2>1. CASE runs = 0
    <3>1. A = 0
      BY <1>1, <2>1 DEF Credit
    <3>2. x \in Nat
      BY <1>2, <2>1 DEF Late, Behind
    <3>3. D(x) \in Nat
      BY <1>1, <3>2
    <3>4. QED
      BY <1>1, <1>3, <1>4, <3>1, <3>3
  <2>2. CASE runs # 0 /\ present
    <3> DEFINE y == updated - mark + slack
    <3>1. x = y + Elapsed(s) /\ Elapsed(s) \in Nat
      BY <1>2, <2>2 DEF Late, Behind, Elapsed
    <3>2. y \in Int
      BY <1>2
    <3>3. D(x) = D(y) + Elapsed(s) * Digits
      BY <1>1, <3>1, <3>2
    <3>4. Level(s) <= T + Elapsed(s) * Digits
      BY LevelRange, <2>2 DEF Found
    <3>5. 2 * A + 2 * T <= 2 * Full + 2 * D(y) + runs * Refill
      BY <2>2 DEF Credit
    <3>6. D(y) \in Int /\ Elapsed(s) * Digits \in Nat
      BY <1>1, <3>1, <3>2
    <3> HIDE DEF A, T, D, x, y
    <3>7. QED
      BY <1>1, <1>3, <1>4, <3>3, <3>4, <3>5, <3>6
  <2>3. CASE runs # 0 /\ ~present
    <3>1. x = now - mark + slack
      BY <1>2, <2>3 DEF Late
    <3>2. 2 * A <= 2 * D(x) + runs * Refill
      BY <2>3, <3>1 DEF Credit
    <3> HIDE DEF A, D, x
    <3>3. QED
      BY <1>1, <1>3, <1>4, <3>2
  <2>4. QED
    BY <2>1, <2>2, <2>3
<1>7. runs' = runs + 1 /\ slack' = slack + Late(s) /\ updated' = s
      /\ expires' = now + Capacity * Refill
  BY DEF Script
<1>8. runs' * Refill = runs * Refill + Refill
  BY <1>1, <1>2, <1>7
<1>9. updated' - mark' + slack' = x
  BY <1>2, <1>3, <1>7
<1>10. 2 * (tokens' * Refill) <= 2 * Left(s) + Refill
  BY ScriptType
<1>11. tokens' * Refill \in Nat /\ admitted' * One \in Nat
  <2>1. tokens' \in Nat /\ admitted' \in Nat
    BY ScriptType
  <2>2. \A a, b \in Nat : a * b \in Nat
    OBVIOUS
  <2>3. QED
    BY ONLY <1>1, <2>1, <2>2
<1>12. updated' + Capacity * Refill <= expires' /\ runs' # 0
  <2>1. Capacity * Refill \in Nat
    BY <1>1
  <2>2. QED
    BY <1>2, <1>7, <2>1
<1> HIDE DEF A, D, x
<1>13. 2 * (admitted' * One) + 2 * (tokens' * Refill) <= 2 * Full + 2 * D(x) + runs' * Refill
  BY <1>1, <1>3, <1>4, <1>5, <1>6, <1>8, <1>10, <1>11
<1>14. D(x) = Digits * (updated' - mark' + slack')
  BY <1>9 DEF D
<1>15. QED
  BY <1>12, <1>13, <1>14

\* Initially there is no bucket and nobody waits.
LEMMA InitTypeOK == Init => TypeOK
<1> SUFFICES ASSUME Init PROVE TypeOK
  OBVIOUS
<1>1. 0 \in 0..(Capacity * Digits)
  <2>1. Capacity * Digits \in Nat
    BY BucketConstants
  <2>2. QED
    BY <2>1
<1>2. req \in [Reqs -> -1..now] /\ mark \in 0..now /\ updated \in 0..now
  BY DEF Init
<1>3. QED
  BY <1>1, <1>2 DEF Init, TypeOK

\* Every step keeps the types.
LEMMA TypeStep == TypeOK /\ [Next]_vars => TypeOK'
<1> SUFFICES ASSUME TypeOK, [Next]_vars PROVE TypeOK'
  OBVIOUS
<1>1. ASSUME NEW r \in Reqs, req[r] # -1 PROVE req[r] \in 0..now
  BY <1>1 DEF TypeOK
<1>2. ASSUME NEW r \in Reqs, Allow(r) PROVE TypeOK'
  BY <1>2 DEF Allow, TypeOK, bucket, window
<1>3. ASSUME NEW r \in Reqs, Decide(r) PROVE TypeOK'
  <2>1. Script(req[r]) /\ req[r] \in 0..now
    BY <1>1, <1>3 DEF Decide
  <2>3. req' \in [Reqs -> -1..now] /\ now' = now /\ mark' = mark /\ passed' \in Nat
    BY <1>3 DEF Decide, Done, TypeOK
  <2>4. QED
    BY <2>1, <2>3, ScriptTypeOK
<1>4. ASSUME NEW r \in Reqs, Unavailable(r) PROVE TypeOK'
  <2>1. CASE Script(req[r])
    <3>1. req[r] \in 0..now
      BY <1>1, <1>4 DEF Unavailable
    <3>3. req' \in [Reqs -> -1..now] /\ now' = now /\ mark' = mark /\ passed' \in Nat
      BY <1>4 DEF Unavailable, Done, TypeOK
    <3>4. QED
      BY <2>1, <3>1, <3>3, ScriptTypeOK
  <2>2. CASE UNCHANGED <<bucket, wait, admitted, runs, slack>>
    BY <1>4, <2>2 DEF Unavailable, Done, TypeOK, bucket
  <2>3. QED
    BY <1>4, <2>1, <2>2 DEF Unavailable
<1>5. ASSUME NEW r \in Reqs, Repeat(r) PROVE TypeOK'
  <2>1. Script(req[r]) /\ req[r] \in 0..now
    BY <1>1, <1>5 DEF Repeat
  <2>3. req' \in [Reqs -> -1..now] /\ now' = now /\ mark' = mark /\ passed' \in Nat
    BY <1>5 DEF Repeat, TypeOK
  <2>4. QED
    BY <2>1, <2>3, ScriptTypeOK
<1>6. ASSUME Tick PROVE TypeOK'
  BY <1>6 DEF Tick, TypeOK, window
<1>7. ASSUME Observe PROVE TypeOK'
  BY <1>7 DEF Observe, TypeOK, bucket
<1>8. ASSUME UNCHANGED vars PROVE TypeOK'
  BY <1>8 DEF vars, TypeOK, bucket, window
<1>9. QED
  BY <1>2, <1>3, <1>4, <1>5, <1>6, <1>7, <1>8 DEF Next

\* Type correctness: the bucket never holds less than nothing or more than its capacity,
\* and its time never runs ahead of the clock, whatever the order of the stamps.
THEOREM TypeCorrect == Spec => []TypeOK
  BY InitTypeOK, TypeStep, PTL DEF Spec

\* Every step preserves the credit invariant.
LEMMA CreditStep == TypeOK /\ Credit /\ [Next]_vars => Credit'
<1> SUFFICES ASSUME TypeOK, Credit, [Next]_vars PROVE Credit'
  OBVIOUS
<1>1. ASSUME NEW r \in Reqs, req[r] # -1 PROVE req[r] \in 0..now
  BY <1>1 DEF TypeOK
<1>2. ASSUME NEW s \in 0..now, Script(s), now' = now, mark' = mark, passed' <= admitted'
      PROVE  Credit'
  <2>1. present'
    BY <1>2, ScriptType
  <2>2. QED
    BY <1>2, <2>1, ScriptCredit DEF Credit
<1>3. ASSUME NEW r \in Reqs, Allow(r) PROVE Credit'
  BY <1>3 DEF Allow, Credit, bucket, window
<1>4. ASSUME NEW r \in Reqs, Decide(r) PROVE Credit'
  <2>1. passed' <= admitted'
    BY <1>4 DEF Decide, Script, Credit, TypeOK
  <2>2. QED
    BY <1>1, <1>2, <1>4, <2>1 DEF Decide
<1>5. ASSUME NEW r \in Reqs, Unavailable(r) \/ Repeat(r), Script(req[r]) PROVE Credit'
  <2>1. passed' <= admitted'
    BY <1>5 DEF Unavailable, Repeat, Script, Credit, TypeOK
  <2>2. QED
    BY <1>1, <1>2, <1>5, <2>1 DEF Unavailable, Repeat
<1>6. ASSUME NEW r \in Reqs, Unavailable(r), UNCHANGED <<bucket, wait, admitted, runs, slack>>
      PROVE  Credit'
  BY <1>6 DEF Unavailable, Credit, bucket
<1>7. ASSUME Tick PROVE Credit'
  <2> DEFINE A == admitted * One
             T == tokens * Refill
             D(n) == Digits * n
             y == updated - mark + slack
             z == now' - mark + slack
  <2>1. /\ now \in Nat /\ now' = now + 1 /\ mark \in Nat /\ slack \in Nat /\ updated \in Nat
        /\ expires \in Nat /\ tokens \in Nat /\ admitted \in Nat /\ runs \in Nat
    BY <1>7 DEF Tick, TypeOK
  <2>2. UNCHANGED <<tokens, updated, expires, window>>
    BY <1>7 DEF Tick
  <2>3. /\ Digits \in Nat \ {0} /\ Refill \in Nat /\ Capacity \in Nat
        /\ One \in Nat /\ Full \in Nat
    BY BucketConstants, UnitsType
  <2>4. A \in Nat /\ T \in Nat /\ runs * Refill \in Nat /\ y \in Int /\ z \in Int
        /\ D(y) \in Int /\ D(z) \in Int
    BY <2>1, <2>3
  <2>5. CASE present'
    BY <1>7, <2>2, <2>5 DEF Tick, Credit, window
  <2>6. CASE ~present' /\ present
    <3>1. expires <= now'
      <4>1. ~(expires > now')
        BY <1>7, <2>6, Zenon DEF Tick
      <4>2. QED
        BY <2>1, <4>1
    <3>2. Capacity * Refill \in Nat
      BY <2>3
    <3>3. y + Capacity * Refill <= z
      BY <2>1, <2>6, <3>1, <3>2 DEF Credit
    <3>4. D(y + Capacity * Refill) <= D(z)
      <4>1. \A a, b \in Int, d \in Nat : a <= b => d * a <= d * b
        OBVIOUS
      <4> DEFINE w == y + Capacity * Refill
      <4>2. w \in Int /\ w <= z
        BY <2>4, <3>2, <3>3
      <4> HIDE DEF w, z, y
      <4>3. Digits * w <= Digits * z
        BY <2>3, <2>4, <4>1, <4>2
      <4>4. QED
        BY <4>3 DEF w
    <3>5. D(y + Capacity * Refill) = D(y) + Full
      BY <2>3, <2>4, <3>2 DEF Full, One
    <3>6. runs # 0 => 2 * A + 2 * T <= 2 * Full + 2 * D(y) + runs * Refill
      BY <2>6 DEF Credit
    <3> HIDE DEF A, T, D, y, z
    <3>7. runs # 0 => 2 * A <= 2 * D(z) + runs * Refill
      BY <2>3, <2>4, <3>4, <3>5, <3>6
    <3> USE DEF A, D, z
    <3>8. QED
      BY <2>2, <2>6, <3>7 DEF Credit, window
  <2>7. CASE ~present' /\ ~present
    <3> DEFINE v == now - mark + slack
    <3>1. v \in Int /\ z = v + 1
      BY <2>1
    <3>2. D(z) = D(v) + Digits /\ D(v) \in Int
      BY <2>3, <3>1
    <3>3. runs # 0 => 2 * A <= 2 * D(v) + runs * Refill
      BY <2>7 DEF Credit
    <3> HIDE DEF A, D, v, z
    <3>4. runs # 0 => 2 * A <= 2 * D(z) + runs * Refill
      BY <2>3, <2>4, <3>2, <3>3
    <3> USE DEF A, D, z
    <3>5. QED
      BY <2>2, <2>7, <3>4 DEF Credit, window
  <2>8. QED
    BY <2>5, <2>6, <2>7
<1>8. ASSUME Observe PROVE Credit'
  BY <1>8 DEF Observe, Credit, bucket
<1>9. ASSUME UNCHANGED vars PROVE Credit'
  BY <1>9 DEF vars, Credit, bucket, window
<1>10. QED
  BY <1>3, <1>4, <1>5, <1>6, <1>7, <1>8, <1>9 DEF Next, Unavailable, Repeat

\* The credit invariant holds for every capacity, interval and number of requests.
THEOREM CreditInvariant == Spec => []Credit
<1>1. Init => Credit
  BY DEF Init, Credit
<1>2. QED
  BY <1>1, TypeCorrect, CreditStep, PTL DEF Spec

\* What has been admitted is bounded as soon as the credit is.
LEMMA CreditBounds == TypeOK /\ Credit => AdmissionBound
<1> SUFFICES ASSUME TypeOK, Credit PROVE AdmissionBound
  OBVIOUS
<1> DEFINE P == passed * One
           A == admitted * One
           T == tokens * Refill
           D(n) == Digits * n
           y == updated - mark + slack
           v == now - mark + slack
<1>1. /\ passed \in Nat /\ admitted \in Nat /\ passed <= admitted /\ tokens \in Nat
      /\ runs \in Nat /\ slack \in Nat /\ updated \in Nat /\ now \in Nat /\ mark \in Nat
      /\ updated <= now /\ mark <= now
  BY DEF TypeOK, Credit
<1>2. Digits \in Nat /\ Refill \in Nat /\ One \in Nat /\ Full \in Nat
  BY BucketConstants, UnitsType
<1>3. P \in Nat /\ A \in Nat /\ T \in Nat /\ runs * Refill \in Nat
      /\ y \in Int /\ v \in Nat /\ y <= v /\ D(y) \in Int /\ D(v) \in Nat
  BY <1>1, <1>2
<1>4. P <= A
  <2>1. \A a, b, o \in Nat : a <= b => a * o <= b * o
    OBVIOUS
  <2>2. QED
    BY <1>1, <1>2, <2>1
<1>5. D(y) <= D(v)
  <2>1. \A a, b \in Int, d \in Nat : a <= b => d * a <= d * b
    OBVIOUS
  <2> HIDE DEF y, v
  <2>2. QED
    BY <1>2, <1>3, <2>1
<1>6. 2 * A <= 2 * Full + 2 * D(v) + runs * Refill
  <2>1. CASE runs = 0
    <3>1. A = 0
      BY <1>2, <2>1 DEF Credit
    <3> HIDE DEF A, D, v
    <3>2. QED
      BY <1>2, <1>3, <3>1
  <2>2. CASE runs # 0 /\ present
    <3>1. 2 * A + 2 * T <= 2 * Full + 2 * D(y) + runs * Refill
      BY <2>2 DEF Credit
    <3> HIDE DEF A, T, D, y, v
    <3>2. QED
      BY <1>2, <1>3, <1>5, <3>1
  <2>3. CASE runs # 0 /\ ~present
    <3>1. 2 * A <= 2 * D(v) + runs * Refill
      BY <2>3 DEF Credit
    <3> HIDE DEF A, D, v
    <3>2. QED
      BY <1>2, <1>3, <3>1
  <2>4. QED
    BY <2>1, <2>2, <2>3
<1>7. 2 * P <= 2 * Full + 2 * D(v) + runs * Refill
  <2> HIDE DEF P, A, D, v
  <2>1. QED
    BY <1>2, <1>3, <1>4, <1>6
<1>8. QED
  BY <1>7 DEF AdmissionBound

\* In any window of time the limiter lets through no more than its capacity and one
\* request for each refill interval, but for late stamps and rounding.
THEOREM AdmissionIsBounded == Spec => []AdmissionBound
  BY CreditBounds, TypeCorrect, CreditInvariant, PTL

----------------------------------------------------------------------------
(* The sliding windows.                                                    *)

\* A call that got as far as the script has a stamp and asks for valid tiers.
CallSound ==
    \A c \in Callers :
        /\ call[c].pc # "idle" => call[c].stamp >= 0
        /\ call[c].pc = "run" => \A i \in DOMAIN call[c].tiers : ~SW!InvalidTier(call[c].tiers[i])

\* Finitely many calls were charged; the members of a sorted set are some of them.  Who
\* was charged was stamped before, the key outlives the window that begins when it was charged, and as
\* long as its stamp is in the window that ends now it is in the set: neither a trim with
\* an older stamp nor the expiry of the key loses it.
MembersSound ==
    \A k \in Keys :
        /\ IsFiniteSet(zset[k]) /\ IsFiniteSet({c \in Callers : charged[k][c] >= 0})
        /\ \A c \in Callers :
            /\ c \in zset[k] => charged[k][c] >= 0
            /\ charged[k][c] >= 0 =>
                /\ call[c].pc # "idle"
                /\ SW!score(c) <= charged[k][c]
                /\ charged[k][c] + Window[k] <= zexp[k]
                /\ SW!score(c) > now - Window[k] => c \in zset[k]

WindowInv == SW!TypeOK /\ CallSound /\ MembersSound /\ WindowBound

----------------------------------------------------------------------------
(* The accounts and their cache.                                           *)

\* A copy that differs from its row was read before the row changed.
Agrees(copy, row) == copy.status # row.status => copy.read <= row.changed

\* A row is not from the future.
RowSound(i) == users[i] # None => users[i].changed <= now

\* An entry of the cache is a copy of an account, and Redis drops it in time.
EntrySound(i) ==
    cache[i] # None =>
        /\ part = "users" /\ users[i] # None
        /\ Agrees(cache[i].copy, users[i]) /\ cache[i].copy.read <= now
        /\ uexp[i] = cache[i].stored + CacheTTL /\ now < uexp[i]

\* A call knows its account when it asks the database or the cache for it; what a miss
\* has loaded and not yet stored is a copy of an account, too.
ReadSound(q) ==
    /\ q.copy # None => q.copy.read <= now
    /\ q.pc \in {"load", "fill", "invalidate"} => q.id # None
    /\ q.pc = "fill" => /\ q.copy # None /\ users[q.id] # None
                        /\ Agrees(q.copy, users[q.id])

\* An address is kept by an upsert only, from its start to its answer; a snapshot in
\* which the identity is connected stays true; the account an upsert answers with is the
\* connected one or has its address.
UpsertSound(q) ==
    /\ q.pc \in {"idle", "load", "fill"} => q.email = None
    /\ q.pc \in {"upsert", "invalidate"} => q.email # None
    /\ q.answer # "none" => q.pc = "done"
    /\ q.existing # None => q.existing = link
    /\ q.email # None /\ (q.pc = "invalidate" \/ q.answer = "user") =>
        /\ q.id # None /\ link # None
        /\ q.existing # None => q.id = q.existing
        /\ q.existing = None => users[q.id] # None /\ users[q.id].email = q.email

\* The connected account has the address of the upsert that connected it.
LinkSound ==
    link # None =>
        /\ linkedBy # None /\ op[linkedBy].email # None
        /\ users[link] # None /\ users[link].email = op[linkedBy].email

UsersSound ==
    /\ \A i \in U!IDs : RowSound(i) /\ EntrySound(i)
    /\ \A c \in Calls : ReadSound(op[c]) /\ UpsertSound(op[c])
    /\ LinkSound

UsersInv == U!TypeOK /\ UsersSound

\* The inductive invariant.
Inv == TypeOK /\ Credit /\ WindowInv /\ UsersInv

----------------------------------------------------------------------------
(* Lemmas on the sliding windows.                                          *)

\* Cardinality means the same in both modules.
LEMMA SameCardinality == \A S : SW!Cardinality(S) = Cardinality(S)
  BY DEF SW!Cardinality, Cardinality

\* Every non-empty set of naturals has a minimum.
LEMMA MinNat ==
  ASSUME NEW S \in SUBSET Nat, S # {}
  PROVE  SW!Min(S) \in S /\ \A y \in S : SW!Min(S) <= y
  <1> DEFINE Less == {ss \in Nat \X Nat : ss[1] < ss[2]}
  <1>1. OpToRel(<, Nat) = Less
    BY Zenon DEF OpToRel
  <1>2. IsWellFoundedOn(Less, Nat)
    BY <1>1, NatLessThanWellFounded, Zenon
  <1>3. PICK x \in S : \A y \in S : <<y, x>> \notin Less
    BY <1>2, WFMin
  <1>4. ASSUME NEW y \in S
        PROVE  x <= y
    <2>1. ~(y < x)
      BY <1>3
    <2> QED
      BY <2>1
  <1> QED
    BY <1>4 DEF SW!Min

\* The script charges only tiers that are not full.
LEMMA RejectedTier ==
  ASSUME NEW tiers \in Seq(Keys), NEW stamp
  PROVE  /\ SW!rejectedTier(tiers, stamp) \in 1..(Len(tiers) + 1)
         /\ \A i \in 1..(SW!rejectedTier(tiers, stamp) - 1) : ~SW!Full(tiers[i], stamp)
         /\ SW!rejectedTier(tiers, stamp) <= Len(tiers) =>
                SW!Full(tiers[SW!rejectedTier(tiers, stamp)], stamp)
  <1> DEFINE F == {i \in DOMAIN tiers : SW!Full(tiers[i], stamp)}
             S == F \cup {Len(tiers) + 1}
             m == SW!rejectedTier(tiers, stamp)
  <1>1. DOMAIN tiers = 1..Len(tiers) /\ Len(tiers) \in Nat
    OBVIOUS
  <1>2. S \in SUBSET Nat /\ S # {}
    BY <1>1
  <1>3. m = SW!Min(S)
    BY DEF SW!rejectedTier
  <1>4. m \in S /\ \A y \in S : m <= y
    <2> HIDE DEF m, S
    <2> QED
      BY <1>2, <1>3, MinNat
  <1>5. m \in 1..(Len(tiers) + 1)
    BY <1>1, <1>4
  <1>6. ASSUME NEW i \in 1..(m - 1)
        PROVE  ~SW!Full(tiers[i], stamp)
    <2>1. i \in DOMAIN tiers
      BY <1>1, <1>5
    <2>2. i \notin S
      BY <1>4, <1>5
    <2> QED
      BY <2>1, <2>2
  <1>7. m <= Len(tiers) => SW!Full(tiers[m], stamp)
    BY <1>1, <1>4, <1>5
  <1> QED
    BY <1>5, <1>6, <1>7

\* What the script does to a key: charge it, which needs a place in it; trim it; or
\* nothing.
Charges(c, k) ==
    /\ Limit[k] > 0 /\ Window[k] > 0 /\ ~SW!Full(k, call[c].stamp)
    /\ zset'[k] = SW!Trimmed(k, call[c].stamp) \cup {c}
    /\ zexp'[k] = now + Window[k]
    /\ charged'[k] = [charged[k] EXCEPT ![c] = now]
Trims(c, k) ==
    /\ zset'[k] = SW!Trimmed(k, call[c].stamp)
    /\ zexp'[k] = zexp[k] /\ charged'[k] = charged[k]
Spares(k) == zset'[k] = zset[k] /\ zexp'[k] = zexp[k] /\ charged'[k] = charged[k]

\* The script as its effect on every key.
LEMMA ScriptEffect ==
  ASSUME TypeOK, WindowInv, NEW c \in Callers, call[c].pc = "run", SW!Script(c)
  PROVE  /\ DOMAIN zset' = Keys /\ DOMAIN zexp' = Keys /\ DOMAIN charged' = Keys
         /\ zset' = [k \in Keys |-> zset'[k]]
         /\ zexp' = [k \in Keys |-> zexp'[k]]
         /\ charged' = [k \in Keys |-> charged'[k]]
         /\ \A k \in Keys : Charges(c, k) \/ Trims(c, k) \/ Spares(k)
  <1> DEFINE tiers == call[c].tiers
             stamp == call[c].stamp
             rejected == SW!rejectedTier(tiers, stamp)
             admitting == {tiers[i] : i \in 1..(rejected - 1)}
             reached == {tiers[i] : i \in 1..rejected \cap DOMAIN tiers}
  <1>1. tiers \in Seq(Keys)
    <2>1. tiers \in TierLists \cup {<<>>}
      BY DEF WindowInv, SW!TypeOK
    <2>2. TierLists \subseteq Seq(Keys)
      BY RepositoryConstants
    <2>3. <<>> \in Seq(Keys)
      OBVIOUS
    <2> QED
      BY <2>1, <2>2, <2>3, Zenon
  <1>2. /\ zset' = [k \in Keys |->
                IF k \in admitting THEN SW!Trimmed(k, stamp) \cup {c}
                ELSE IF k \in reached THEN SW!Trimmed(k, stamp) ELSE zset[k]]
        /\ zexp' = [k \in Keys |-> IF k \in admitting THEN now + Window[k] ELSE zexp[k]]
        /\ charged' = [k \in Keys |->
                IF k \in admitting THEN [charged[k] EXCEPT ![c] = now] ELSE charged[k]]
    BY DEF SW!Script
  <1>3. ASSUME NEW k \in Keys, k \in admitting
        PROVE  Limit[k] > 0 /\ Window[k] > 0 /\ ~SW!Full(k, stamp)
    <2>1. PICK i \in 1..(rejected - 1) : k = tiers[i]
      BY <1>3
    <2>2. i \in DOMAIN tiers /\ ~SW!Full(tiers[i], stamp)
      BY <1>1, RejectedTier
    <2>3. ~SW!InvalidTier(tiers[i])
      BY <2>2 DEF WindowInv, CallSound
    <2>4. Limit[k] \in Int /\ Window[k] \in Int
      BY RepositoryConstants
    <2> QED
      BY <2>1, <2>2, <2>3, <2>4 DEF SW!InvalidTier
  <1> HIDE DEF tiers, stamp, rejected, admitting, reached
  <1>4. ASSUME NEW k \in Keys
        PROVE  Charges(c, k) \/ Trims(c, k) \/ Spares(k)
    <2>1. CASE k \in admitting
      BY <1>2, <1>3, <2>1 DEF Charges, stamp
    <2>2. CASE k \notin admitting /\ k \in reached
      BY <1>2, <2>2 DEF Trims, stamp
    <2>3. CASE k \notin admitting /\ k \notin reached
      BY <1>2, <2>3 DEF Spares
    <2> QED
      BY <2>1, <2>2, <2>3
  <1> QED
    BY <1>2, <1>4

\* A charge keeps the bound of its key: whoever counts in the window that ends now is in
\* the trimmed set or is the caller itself.
LEMMA ChargeBound ==
  ASSUME TypeOK, WindowInv, NEW c \in Callers, call[c].pc = "run", NEW k \in Keys,
         Charges(c, k), now' = now, \A d \in Callers : call'[d].stamp = call[d].stamp,
         NEW e \in Callers, charged'[k][e] >= 0
  PROVE  Cardinality({d \in Callers : /\ charged'[k][d] \in 0..charged'[k][e]
                                      /\ call'[d].stamp > charged'[k][e] - Window[k]})
            <= Limit[k]
  <1> DEFINE t == charged'[k][e]
             W == {d \in Callers : charged'[k][d] \in 0..t /\ call'[d].stamp > t - Window[k]}
             Z == SW!Trimmed(k, call[c].stamp) \cup {c}
  <1>1. /\ \A d \in Callers : charged'[k][d] = IF d = c THEN now ELSE charged[k][d]
        /\ \A d \in Callers : charged[k][d] \in Int /\ charged[k][d] >= -1 /\ charged[k][d] <= now
        /\ now \in Nat /\ Window[k] \in Int /\ Limit[k] \in Int
        /\ \A d \in Callers : call[d].stamp \in Int /\ call[d].stamp <= now
    BY RepositoryConstants DEF Charges, WindowInv, SW!TypeOK
  <1>2. CASE t = now
    <2>1. W \subseteq Z
      <3> SUFFICES ASSUME NEW d \in W, d # c
                   PROVE  d \in Z
        OBVIOUS
      <3>1. charged[k][d] >= 0 /\ call[d].stamp > now - Window[k]
        BY <1>1, <1>2
      <3>2. d \in zset[k]
        BY <3>1 DEF WindowInv, MembersSound, SW!score
      <3>3. call[d].stamp > call[c].stamp - Window[k]
        BY <1>1, <3>1
      <3> QED
        BY <3>2, <3>3 DEF SW!Trimmed, SW!score
    <2>2. IsFiniteSet(SW!Trimmed(k, call[c].stamp))
      <3>1. SW!Trimmed(k, call[c].stamp) \subseteq zset[k]
        BY DEF SW!Trimmed
      <3> QED
        BY <3>1, FS_Subset DEF WindowInv, MembersSound
    <2>3. Cardinality(SW!Trimmed(k, call[c].stamp)) < Limit[k]
      <3>1. ~(Cardinality(SW!Trimmed(k, call[c].stamp)) >= Limit[k])
        BY SameCardinality, Zenon DEF Charges, SW!Full
      <3>2. Cardinality(SW!Trimmed(k, call[c].stamp)) \in Nat
        BY <2>2, FS_CardinalityType
      <3> QED
        BY <1>1, <3>1, <3>2
    <2>4. IsFiniteSet(Z) /\ Cardinality(Z) <= Limit[k]
      <3>1. /\ IsFiniteSet(Z)
            /\ Cardinality(Z) = Cardinality(SW!Trimmed(k, call[c].stamp))
               \/ Cardinality(Z) = Cardinality(SW!Trimmed(k, call[c].stamp)) + 1
        BY <2>2, FS_AddElement
      <3> QED
        BY <1>1, <2>2, <2>3, <3>1, FS_CardinalityType
    <2>5. IsFiniteSet(W) /\ Cardinality(W) <= Cardinality(Z)
      BY <2>1, <2>4, FS_Subset
    <2> QED
      BY <1>1, <2>4, <2>5, FS_CardinalityType
  <1>3. CASE t # now
    <2> DEFINE V == {d \in Callers : charged[k][d] \in 0..charged[k][e]
                                     /\ SW!score(d) > charged[k][e] - Window[k]}
    <2>1. e # c /\ t = charged[k][e] /\ t \in Nat /\ t < now
      BY <1>1, <1>3
    <2>2. W \subseteq V
      BY <1>1, <2>1 DEF SW!score
    <2>3. Cardinality(V) <= Limit[k]
      <3>1. charged[k][e] >= 0
        BY <2>1
      <3> QED
        BY <3>1, SameCardinality, Zenon DEF WindowInv, WindowBound, SW!WindowBound
    <2>4. IsFiniteSet(V)
      <3>1. V \subseteq {d \in Callers : charged[k][d] >= 0}
        BY <1>1
      <3> QED
        BY <3>1, FS_Subset DEF WindowInv, MembersSound
    <2>5. IsFiniteSet(W) /\ Cardinality(W) <= Cardinality(V)
      BY <2>2, <2>4, FS_Subset
    <2> QED
      BY <1>1, <2>3, <2>4, <2>5, FS_CardinalityType
  <1> QED
    BY <1>2, <1>3

\* A rejection tells the caller to wait for a natural number of ticks.
LEMMA RetryType ==
  ASSUME TypeOK, WindowInv, NEW c \in Callers, call[c].pc = "run", NEW k \in Keys,
         Limit[k] > 0, SW!Full(k, call[c].stamp)
  PROVE  SW!retryMs(k, call[c].stamp) \in Nat
  <1> DEFINE Z == SW!Trimmed(k, call[c].stamp)
             S == {SW!score(d) : d \in Z}
             ms == SW!Min(S) + Window[k] - call[c].stamp
  <1>1. Z # {}
    <2>1. Cardinality(Z) >= Limit[k] /\ Limit[k] \in Int
      BY RepositoryConstants, SameCardinality DEF SW!Full
    <2>2. Cardinality({}) = 0
      BY FS_EmptySet
    <2> QED
      BY <2>1, <2>2
  <1>2. \A d \in Z : SW!score(d) \in Nat
    <2> SUFFICES ASSUME NEW d \in Z
                 PROVE  call[d].stamp \in Nat
      BY DEF SW!score
    <2>1. d \in zset[k] /\ d \in Callers
      BY DEF SW!Trimmed, WindowInv, SW!TypeOK
    <2>2. call[d].pc # "idle"
      BY <2>1 DEF WindowInv, MembersSound
    <2>3. call[d].stamp >= 0 /\ call[d].stamp \in Int
      BY <2>1, <2>2 DEF WindowInv, CallSound, SW!TypeOK
    <2> QED
      BY <2>3
  <1>3. SW!Min(S) \in Nat
    BY <1>1, <1>2, MinNat
  <1>4. ms \in Int
    BY <1>3, RepositoryConstants DEF WindowInv, SW!TypeOK
  <1>5. SW!retryMs(k, call[c].stamp) = IF ms < 1 THEN 1 ELSE ms
    BY DEF SW!retryMs
  <1> QED
    BY <1>4, <1>5

\* What answering a call changes of it.
LEMMA DecideEffect ==
  ASSUME TypeOK, WindowInv, NEW c \in Callers, SW!Decide(c)
  PROVE  /\ call[c].pc = "run" /\ now' = now /\ SW!Script(c)
         /\ call' \in [Callers -> [pc : {"idle", "run", "allowed", "rejected", "error"},
                                   tiers : TierLists \cup {<<>>}, stamp : -1..now, retry : Nat]]
         /\ \A d \in Callers :
              /\ call'[d].stamp = call[d].stamp /\ call'[d].tiers = call[d].tiers
              /\ (call'[d].pc = "idle") = (call[d].pc = "idle")
              /\ call'[d].pc = "run" => call[d].pc = "run"
  <1> DEFINE CallType == [pc : {"idle", "run", "allowed", "rejected", "error"},
                          tiers : TierLists \cup {<<>>}, stamp : -1..now, retry : Nat]
             tiers == call[c].tiers
             stamp == call[c].stamp
             rejected == SW!rejectedTier(tiers, stamp)
  <1>1. call[c].pc = "run" /\ now' = now /\ SW!Script(c)
    BY DEF SW!Decide
  <1>2. PICK answer \in {SW!Decision(c), call[c], [call[c] EXCEPT !.pc = "error"]} :
            call' = [call EXCEPT ![c] = answer]
    BY DEF SW!Decide
  <1>3. call \in [Callers -> CallType]
    BY DEF WindowInv, SW!TypeOK
  <1>4. tiers \in Seq(Keys)
    <2>1. tiers \in TierLists \cup {<<>>}
      BY <1>3
    <2>2. TierLists \subseteq Seq(Keys) /\ <<>> \in Seq(Keys)
      BY RepositoryConstants
    <2> QED
      BY <2>1, <2>2, Zenon
  <1>5. /\ answer \in CallType /\ answer.pc # "idle"
        /\ answer.stamp = call[c].stamp /\ answer.tiers = call[c].tiers
    <2>1. CASE answer = SW!Decision(c)
      <3>1. CASE rejected > Len(tiers)
        BY <1>3, <2>1, <3>1 DEF SW!Decision
      <3>2. CASE ~(rejected > Len(tiers))
        <4>1. rejected \in DOMAIN tiers /\ SW!Full(tiers[rejected], stamp)
          BY <1>4, <3>2, RejectedTier
        <4>2. tiers[rejected] \in Keys /\ Limit[tiers[rejected]] > 0
          <5>1. ~SW!InvalidTier(tiers[rejected])
            BY <1>1, <4>1 DEF WindowInv, CallSound
          <5>2. tiers[rejected] \in Keys
            BY <1>4, <4>1
          <5>3. Limit[tiers[rejected]] \in Int
            BY <5>2, RepositoryConstants
          <5> QED
            BY <5>1, <5>2, <5>3 DEF SW!InvalidTier
        <4>3. SW!retryMs(tiers[rejected], stamp) \in Nat
          BY <1>1, <4>1, <4>2, RetryType
        <4>4. answer = [call[c] EXCEPT !.pc = "rejected",
                                       !.retry = SW!retryMs(tiers[rejected], stamp)]
          BY <2>1, <3>2 DEF SW!Decision
        <4> QED
          BY <1>3, <4>3, <4>4
      <3> QED
        BY <3>1, <3>2
    <2>2. CASE answer = call[c]
      BY <1>1, <1>3, <2>2
    <2>3. CASE answer = [call[c] EXCEPT !.pc = "error"]
      BY <1>3, <2>3
    <2> QED
      BY <2>1, <2>2, <2>3
  <1> HIDE DEF CallType
  <1>6. call' \in [Callers -> CallType]
    BY <1>2, <1>3, <1>5
  <1>7. \A d \in Callers : call'[d] = IF d = c THEN answer ELSE call[d]
    BY <1>2, <1>3
  <1> QED
    BY <1>1, <1>5, <1>6, <1>7 DEF CallType

\* The script and its answer keep the windows' invariant.
LEMMA DecideWindow ==
  ASSUME TypeOK, WindowInv, NEW c \in Callers, SW!Decide(c)
  PROVE  WindowInv'
  <1>1. /\ call[c].pc = "run" /\ now' = now /\ SW!Script(c)
        /\ \A d \in Callers :
              /\ call'[d].stamp = call[d].stamp /\ call'[d].tiers = call[d].tiers
              /\ (call'[d].pc = "idle") = (call[d].pc = "idle")
              /\ call'[d].pc = "run" => call[d].pc = "run"
    BY DecideEffect
  <1>2. \A k \in Keys : Charges(c, k) \/ Trims(c, k) \/ Spares(k)
    BY <1>1, ScriptEffect
  <1>3. now \in Nat /\ call[c].stamp \in Int /\ call[c].stamp >= 0 /\ call[c].stamp <= now
    BY <1>1 DEF TypeOK, WindowInv, SW!TypeOK, CallSound
  <1>4. \A k \in Keys : Window[k] \in Int
    BY RepositoryConstants
  <1>5. SW!TypeOK'
    <2>1. call' \in [Callers -> [pc : {"idle", "run", "allowed", "rejected", "error"},
                                 tiers : TierLists \cup {<<>>}, stamp : -1..now, retry : Nat]]
      BY DecideEffect
    <2>2. ASSUME NEW k \in Keys
          PROVE  /\ zset'[k] \in SUBSET Callers /\ zexp'[k] \in Nat
                 /\ charged'[k] \in [Callers -> -1..now]
      <3>1. /\ zset[k] \in SUBSET Callers /\ zexp[k] \in Nat
            /\ charged[k] \in [Callers -> -1..now]
        BY DEF WindowInv, SW!TypeOK
      <3>2. SW!Trimmed(k, call[c].stamp) \subseteq Callers
        BY <3>1 DEF SW!Trimmed
      <3>3. CASE Charges(c, k)
        <4>1. zset'[k] \in SUBSET Callers
          BY <3>2, <3>3 DEF Charges
        <4>2. zexp'[k] \in Nat
          BY <1>3, <1>4, <3>3 DEF Charges
        <4>3. charged'[k] \in [Callers -> -1..now]
          BY <1>3, <3>1, <3>3 DEF Charges
        <4> QED
          BY <4>1, <4>2, <4>3
      <3>4. CASE Trims(c, k)
        BY <3>1, <3>2, <3>4 DEF Trims
      <3>5. CASE Spares(k)
        BY <3>1, <3>5 DEF Spares
      <3> QED
        BY <1>2, <3>3, <3>4, <3>5
    <2>3. /\ zset' = [k \in Keys |-> zset'[k]]
          /\ zexp' = [k \in Keys |-> zexp'[k]]
          /\ charged' = [k \in Keys |-> charged'[k]]
      BY <1>1, ScriptEffect
    <2>4. zset' \in [Keys -> SUBSET Callers]
      BY <2>2, <2>3
    <2>5. zexp' \in [Keys -> Nat]
      BY <2>2, <2>3
    <2>6. charged' \in [Keys -> [Callers -> -1..now]]
      BY <2>2, <2>3
    <2> QED
      BY <1>1, <1>3, <2>1, <2>4, <2>5, <2>6 DEF SW!TypeOK
  <1>6. CallSound'
    BY <1>1 DEF WindowInv, CallSound, SW!InvalidTier
  <1>7. MembersSound'
    <2> SUFFICES ASSUME NEW k \in Keys
                 PROVE  /\ IsFiniteSet(zset'[k])
                        /\ IsFiniteSet({d \in Callers : charged'[k][d] >= 0})
                        /\ \A d \in Callers :
                            /\ d \in zset'[k] => charged'[k][d] >= 0
                            /\ charged'[k][d] >= 0 =>
                                /\ call'[d].pc # "idle"
                                /\ call'[d].stamp <= charged'[k][d]
                                /\ charged'[k][d] + Window[k] <= zexp'[k]
                                /\ call'[d].stamp > now' - Window[k] => d \in zset'[k]
      BY DEF MembersSound, SW!score
    <2> DEFINE Z == SW!Trimmed(k, call[c].stamp)
               B == {d \in Callers : charged[k][d] >= 0}
    <2>1. /\ IsFiniteSet(zset[k]) /\ IsFiniteSet(B)
          /\ \A d \in Callers :
              /\ d \in zset[k] => charged[k][d] >= 0
              /\ charged[k][d] >= 0 =>
                  /\ call[d].pc # "idle"
                  /\ call[d].stamp <= charged[k][d]
                  /\ charged[k][d] + Window[k] <= zexp[k]
                  /\ call[d].stamp > now - Window[k] => d \in zset[k]
      BY DEF WindowInv, MembersSound, SW!score
    <2>2. Z \subseteq zset[k] /\ IsFiniteSet(Z)
      <3>1. Z \subseteq zset[k]
        BY DEF SW!Trimmed
      <3> QED
        BY <2>1, <3>1, FS_Subset
    <2>3. \A d \in Callers : charged[k][d] \in Int /\ charged[k][d] <= now /\ call[d].stamp \in Int
      BY DEF WindowInv, SW!TypeOK
    <2>4. \A d \in Callers : charged[k][d] >= 0 /\ call[d].stamp > now - Window[k] => d \in Z
      BY <1>3, <1>4, <2>1, <2>3 DEF SW!Trimmed, SW!score
    <2> HIDE DEF Z
    <2>5. CASE Charges(c, k)
      <3>1. /\ zset'[k] = Z \cup {c} /\ zexp'[k] = now + Window[k]
            /\ \A d \in Callers : charged'[k][d] = IF d = c THEN now ELSE charged[k][d]
        BY <2>5 DEF Charges, Z, WindowInv, SW!TypeOK
      <3>2. IsFiniteSet(zset'[k])
        BY <2>2, <3>1, FS_AddElement
      <3>3. IsFiniteSet({d \in Callers : charged'[k][d] >= 0})
        <4>1. {d \in Callers : charged'[k][d] >= 0} \subseteq B \cup {c}
          BY <3>1
        <4>2. IsFiniteSet(B \cup {c})
          BY <2>1, FS_AddElement
        <4> QED
          BY <4>1, <4>2, FS_Subset
      <3>4. ASSUME NEW d \in Callers
            PROVE  /\ d \in zset'[k] => charged'[k][d] >= 0
                   /\ charged'[k][d] >= 0 =>
                        /\ call'[d].pc # "idle"
                        /\ call'[d].stamp <= charged'[k][d]
                        /\ charged'[k][d] + Window[k] <= zexp'[k]
                        /\ call'[d].stamp > now' - Window[k] => d \in zset'[k]
        <4>1. CASE d = c
          BY <1>1, <1>3, <1>4, <3>1, <4>1
        <4>2. CASE d # c
          BY <1>1, <1>3, <1>4, <2>1, <2>2, <2>3, <2>4, <3>1, <4>2
        <4> QED
          BY <4>1, <4>2
      <3> QED
        BY <3>2, <3>3, <3>4
    <2>6. CASE Trims(c, k)
      BY <1>1, <1>3, <2>1, <2>2, <2>4, <2>6 DEF Trims, Z
    <2>7. CASE Spares(k)
      BY <1>1, <2>1, <2>7 DEF Spares
    <2> QED
      BY <1>2, <2>5, <2>6, <2>7
  <1>8. WindowBound'
    <2> SUFFICES ASSUME NEW k \in Keys, NEW e \in Callers, charged'[k][e] >= 0
                 PROVE  Cardinality({d \in Callers :
                            /\ charged'[k][d] \in 0..charged'[k][e]
                            /\ call'[d].stamp > charged'[k][e] - Window[k]}) <= Limit[k]
      BY SameCardinality, Zenon DEF WindowBound, SW!WindowBound, SW!score
    <2>1. CASE Charges(c, k)
      BY <1>1, <2>1, ChargeBound
    <2>2. CASE charged'[k] = charged[k]
      <3> DEFINE V == {d \in Callers : /\ charged[k][d] \in 0..charged[k][e]
                                       /\ call[d].stamp > charged[k][e] - Window[k]}
      <3>1. {d \in Callers : /\ charged'[k][d] \in 0..charged'[k][e]
                             /\ call'[d].stamp > charged'[k][e] - Window[k]} = V
        BY <1>1, <2>2
      <3>2. charged[k][e] >= 0
        BY <2>2
      <3>3. Cardinality(V) <= Limit[k]
        BY <3>2, SameCardinality, Zenon DEF WindowInv, WindowBound, SW!WindowBound, SW!score
      <3> QED
        BY <3>1, <3>3
    <2> QED
      BY <1>2, <2>1, <2>2 DEF Trims, Spares
  <1> QED
    BY <1>5, <1>6, <1>7, <1>8 DEF WindowInv

\* So do steps that charge nobody and leave the stamps of the charged alone, while the
\* clock may advance and Redis may drop keys whose time is over.
LEMMA OtherWindow ==
  ASSUME TypeOK, WindowInv,
         now' \in Nat, now' >= now, UNCHANGED <<zexp, charged>>,
         call' \in [Callers -> [pc : {"idle", "run", "allowed", "rejected", "error"},
                                tiers : TierLists \cup {<<>>}, stamp : -1..now, retry : Nat]],
         CallSound',
         \A d \in Callers : call[d].pc # "idle" => call'[d].pc # "idle" /\ call'[d].stamp = call[d].stamp,
         zset' \in [Keys -> SUBSET Callers],
         \A k \in Keys : zset'[k] = zset[k] \/ (zset'[k] = {} /\ zexp[k] <= now')
  PROVE  WindowInv'
  <1>1. now \in Nat /\ \A k \in Keys : Window[k] \in Int
    BY RepositoryConstants DEF TypeOK
  <1>2. SW!TypeOK'
    <2>1. zexp' \in [Keys -> Nat] /\ charged' \in [Keys -> [Callers -> -1..now]]
      BY DEF WindowInv, SW!TypeOK
    <2>2. charged' \in [Keys -> [Callers -> -1..now']]
      <3>1. -1..now \subseteq -1..now'
        BY <1>1
      <3>2. \A k \in Keys : charged'[k] \in [Callers -> -1..now']
        BY <2>1, <3>1
      <3> QED
        BY <2>1, <3>2
    <2>3. call' \in [Callers -> [pc : {"idle", "run", "allowed", "rejected", "error"},
                                 tiers : TierLists \cup {<<>>}, stamp : -1..now', retry : Nat]]
      BY <1>1
    <2> QED
      BY <2>1, <2>2, <2>3 DEF SW!TypeOK
  <1>3. MembersSound'
    <2> SUFFICES ASSUME NEW k \in Keys
                 PROVE  /\ IsFiniteSet(zset'[k])
                        /\ IsFiniteSet({d \in Callers : charged[k][d] >= 0})
                        /\ \A d \in Callers :
                            /\ d \in zset'[k] => charged[k][d] >= 0
                            /\ charged[k][d] >= 0 =>
                                /\ call'[d].pc # "idle"
                                /\ call'[d].stamp <= charged[k][d]
                                /\ charged[k][d] + Window[k] <= zexp[k]
                                /\ call'[d].stamp > now' - Window[k] => d \in zset'[k]
      BY DEF MembersSound, SW!score
    <2>1. /\ IsFiniteSet(zset[k]) /\ IsFiniteSet({d \in Callers : charged[k][d] >= 0})
          /\ \A d \in Callers :
              /\ d \in zset[k] => charged[k][d] >= 0
              /\ charged[k][d] >= 0 =>
                  /\ call[d].pc # "idle"
                  /\ call[d].stamp <= charged[k][d]
                  /\ charged[k][d] + Window[k] <= zexp[k]
                  /\ call[d].stamp > now - Window[k] => d \in zset[k]
      BY DEF WindowInv, MembersSound, SW!score
    <2>2. IsFiniteSet({})
      BY FS_EmptySet
    <2>3. ASSUME NEW d \in Callers, charged[k][d] >= 0
          PROVE  /\ call'[d].pc # "idle"
                 /\ call'[d].stamp = call[d].stamp /\ call[d].stamp <= charged[k][d]
                 /\ charged[k][d] + Window[k] <= zexp[k]
                 /\ call[d].stamp > now' - Window[k] => d \in zset'[k]
      <3>1. /\ call[d].stamp \in Int /\ charged[k][d] \in Int /\ zexp[k] \in Nat
            /\ call'[d].pc # "idle" /\ call'[d].stamp = call[d].stamp
        BY <2>1, <2>3 DEF WindowInv, SW!TypeOK
      <3>2. CASE zset'[k] = zset[k]
        BY <1>1, <2>1, <2>3, <3>1, <3>2
      <3>3. CASE zexp[k] <= now'
        BY <1>1, <2>1, <2>3, <3>1, <3>3
      <3> QED
        BY <3>2, <3>3
    <2> QED
      BY <2>1, <2>2, <2>3
  <1>4. WindowBound'
    <2> SUFFICES ASSUME NEW k \in Keys, NEW e \in Callers, charged[k][e] >= 0
                 PROVE  Cardinality({d \in Callers :
                            /\ charged[k][d] \in 0..charged[k][e]
                            /\ call'[d].stamp > charged[k][e] - Window[k]}) <= Limit[k]
      BY SameCardinality, Zenon DEF WindowBound, SW!WindowBound, SW!score
    <2> DEFINE V == {d \in Callers : /\ charged[k][d] \in 0..charged[k][e]
                                     /\ call[d].stamp > charged[k][e] - Window[k]}
    <2>1. \A d \in Callers : charged[k][d] \in 0..charged[k][e] => call'[d].stamp = call[d].stamp
      <3>1. \A d \in Callers : charged[k][d] \in 0..charged[k][e] => charged[k][d] >= 0
        BY DEF WindowInv, SW!TypeOK
      <3> QED
        BY <3>1 DEF WindowInv, MembersSound
    <2>2. {d \in Callers : /\ charged[k][d] \in 0..charged[k][e]
                           /\ call'[d].stamp > charged[k][e] - Window[k]} = V
      BY <2>1
    <2>3. Cardinality(V) <= Limit[k]
      BY SameCardinality, Zenon DEF WindowInv, WindowBound, SW!WindowBound, SW!score
    <2> QED
      BY <2>2, <2>3
  <1> QED
    BY <1>2, <1>3, <1>4 DEF WindowInv

\* Every step of the store keeps the windows' invariant.
LEMMA WindowStep ==
  ASSUME TypeOK, WindowInv, SW!Next
  PROVE  WindowInv'
  <1> DEFINE CallType == [pc : {"idle", "run", "allowed", "rejected", "error"},
                          tiers : TierLists \cup {<<>>}, stamp : -1..now, retry : Nat]
  <1>1. now \in Nat /\ zset \in [Keys -> SUBSET Callers] /\ call \in [Callers -> CallType]
    BY DEF TypeOK, WindowInv, SW!TypeOK
  <1>2. ASSUME NEW c \in Callers, NEW tiers \in TierLists, SW!AllowTiered(c, tiers)
        PROVE  WindowInv'
    <2>1. PICK pc \in IF tiers = <<>> THEN {"allowed"}
                      ELSE IF \E i \in DOMAIN tiers : SW!InvalidTier(tiers[i]) THEN {"error"}
                      ELSE {"run", "error"} :
            call' = [call EXCEPT ![c] = [pc |-> pc, tiers |-> tiers, stamp |-> now, retry |-> 0]]
      BY <1>2 DEF SW!AllowTiered
    <2>2. /\ pc \in {"run", "allowed", "error"}
          /\ pc = "run" => \A i \in DOMAIN tiers : ~SW!InvalidTier(tiers[i])
      BY <2>1
    <2>3. call[c].pc = "idle" /\ UNCHANGED <<now, zset, zexp, charged>>
      BY <1>2 DEF SW!AllowTiered
    <2>4. call' \in [Callers -> CallType]
      BY <1>1, <2>1, <2>2
    <2>5. CallSound'
      BY <1>1, <2>1, <2>2 DEF WindowInv, CallSound, SW!InvalidTier
    <2> QED
      BY <1>1, <2>1, <2>3, <2>4, <2>5, OtherWindow
  <1>3. ASSUME NEW c \in Callers, SW!Unavailable(c)
        PROVE  WindowInv'
    <2>1. /\ call[c].pc = "run" /\ call' = [call EXCEPT ![c].pc = "error"]
          /\ UNCHANGED <<now, zset, zexp, charged>>
      BY <1>3 DEF SW!Unavailable
    <2>2. call' \in [Callers -> CallType]
      BY <1>1, <2>1
    <2>3. CallSound'
      BY <1>1, <2>1 DEF WindowInv, CallSound, SW!InvalidTier
    <2> QED
      BY <1>1, <2>1, <2>2, <2>3, OtherWindow
  <1> QED
    BY <1>2, <1>3, DecideWindow DEF SW!Next

----------------------------------------------------------------------------
(* Lemmas on the accounts.                                                 *)

OpType == [pc : {"idle", "upsert", "invalidate", "load", "fill", "done"},
           email : Emails \cup {None}, existing : U!IDs \cup {None},
           id : U!IDs \cup {None}, copy : U!Copies \cup {None}, answer : U!Answers]

\* Accounts have different addresses.
Unique ==
    \A i, j \in U!IDs : i # j /\ None \notin {users[i], users[j]} => users[i].email # users[j].email

\* A table in which accounts were at most added, with addresses nobody had.
Adds ==
    /\ users' \in [U!IDs -> U!Rows \cup {None}] /\ Unique'
    /\ \A i \in U!IDs : /\ users[i] # None => users'[i] = users[i]
                        /\ users'[i] # None /\ users[i] = None => users'[i].changed <= now

\* The identity's connection is left alone, or made by c to an account with its address.
Links(c) ==
    \/ UNCHANGED <<link, linkedBy>>
    \/ /\ link = None /\ link' \in U!IDs /\ linkedBy' = c
       /\ op'[c].email # None
       /\ users'[link'] # None /\ users'[link'].email = op'[c].email

\* The progress of c alone.
Moves(c) ==
    /\ op' \in [Calls -> OpType] /\ \A d \in Calls : d # c => op'[d] = op[d]
    /\ op[c].email # None => op'[c].email = op[c].email

\* A step of a call keeps the invariant if what it does to its own state, to the tables
\* and to the cache is sound.
LEMMA UserMove ==
  ASSUME TypeOK, UsersInv, NEW c \in Calls, now' = now, part' = part,
         Adds, Links(c), Moves(c),
         ReadSound(op[c])', UpsertSound(op[c])',
         cache' \in [U!IDs -> U!Entries \cup {None}], uexp' \in [U!IDs -> Nat],
         \A i \in U!IDs : (cache'[i] = cache[i] /\ uexp'[i] = uexp[i]) \/ EntrySound(i)'
  PROVE  UsersInv'
  <1>1. /\ link \in U!IDs \cup {None} /\ linkedBy \in Calls \cup {None}
        /\ op \in [Calls -> OpType]
    BY DEF UsersInv, U!TypeOK, OpType
  <1>2. None \notin Calls /\ None \notin U!IDs
    BY RepositoryConstants
  <1>3. U!TypeOK'
    BY <1>1 DEF U!TypeOK, Adds, Unique, Links, Moves, OpType
  <1>4. link # None => link' = link /\ linkedBy' = linkedBy
    BY DEF Links
  <1>5. ASSUME NEW i \in U!IDs
        PROVE  RowSound(i)' /\ EntrySound(i)'
    BY DEF UsersInv, UsersSound, RowSound, EntrySound, Adds
  <1>6. ASSUME NEW d \in Calls
        PROVE  ReadSound(op[d])' /\ UpsertSound(op[d])'
    <2>1. CASE d = c
      BY <2>1
    <2>2. CASE d # c
      <3>1. op'[d] = op[d] /\ op[d] \in OpType /\ ReadSound(op[d]) /\ UpsertSound(op[d])
        BY <1>1, <2>2 DEF Moves, UsersInv, UsersSound
      <3>2. ReadSound(op[d])'
        BY <3>1 DEF ReadSound, Adds, OpType
      <3>3. UpsertSound(op[d])'
        BY <1>4, <3>1 DEF UpsertSound, Adds, OpType
      <3> QED
        BY <3>2, <3>3
    <2> QED
      BY <2>1, <2>2
  <1>7. LinkSound'
    <2>1. CASE UNCHANGED <<link, linkedBy>>
      BY <1>1, <2>1 DEF UsersInv, UsersSound, LinkSound, Adds, Moves
    <2>2. CASE ~UNCHANGED <<link, linkedBy>>
      BY <1>2, <2>2 DEF LinkSound, Links
    <2> QED
      BY <2>1, <2>2
  <1> QED
    BY <1>3, <1>5, <1>6, <1>7 DEF UsersInv, UsersSound

\* An unchanged table, and an INSERT of an address nobody has.
LEMMA KeepUsers ==
  ASSUME UsersInv, UNCHANGED users
  PROVE  Adds
  BY DEF UsersInv, U!TypeOK, Adds, Unique

\* An INSERT with an address no row has adds one active account and keeps addresses unique.
LEMMA InsertUser ==
  ASSUME TypeOK, UsersInv, NEW email \in Emails, U!WithEmail(email) = {}, NEW i \in U!Fresh,
         users' = [users EXCEPT ![i] = U!NewRow(email)]
  PROVE  Adds /\ i \in U!IDs /\ users'[i] # None /\ users'[i].email = email /\ users'[i].status = "active"
  <1>1. i \in U!IDs /\ users[i] = None /\ users \in [U!IDs -> U!Rows \cup {None}] /\ Unique
    BY DEF U!Fresh, U!Exists, UsersInv, U!TypeOK, Unique
  <1>2. /\ U!NewRow(email) \in U!Rows /\ U!NewRow(email).email = email
        /\ U!NewRow(email).changed = now /\ U!NewRow(email).status = "active"
    BY DEF TypeOK, U!NewRow, U!Rows, U!Status
  <1>3. None \notin U!Rows
    BY RepositoryConstants
  <1>4. \A j \in U!IDs : users[j] # None => users[j].email # email
    BY DEF U!WithEmail, U!Exists
  <1>5. \A j \in U!IDs : users'[j] = IF j = i THEN U!NewRow(email) ELSE users[j]
    BY <1>1
  <1>6. users' \in [U!IDs -> U!Rows \cup {None}]
    BY <1>1, <1>2
  <1>7. Unique'
    BY <1>1, <1>2, <1>4, <1>5 DEF Unique
  <1>8. now \in Nat
    BY DEF TypeOK
  <1> QED
    BY <1>1, <1>2, <1>3, <1>5, <1>6, <1>7, <1>8 DEF Adds

\* The answer of a call; an upsert's is its account only after its invalidation.
LEMMA ReturnMove ==
  ASSUME TypeOK, UsersInv, NEW c \in Calls, NEW answer \in U!Answers, U!Return(c, answer),
         answer # "none",
         now' = now, Adds, link # None => link' = link,
         op[c].email # None /\ answer = "user" => op[c].pc = "invalidate"
  PROVE  Moves(c) /\ ReadSound(op[c])' /\ UpsertSound(op[c])'
  <1>1. op \in [Calls -> OpType] /\ ReadSound(op[c]) /\ UpsertSound(op[c])
    BY DEF UsersInv, U!TypeOK, OpType, UsersSound
  <1>2. op' = [op EXCEPT ![c].pc = "done", ![c].copy = None, ![c].answer = answer]
    BY DEF U!Return
  <1>3. op' \in [Calls -> OpType]
    <2> DEFINE q == [op[c] EXCEPT !.pc = "done", !.copy = None, !.answer = answer]
    <2>1. q \in OpType
      BY <1>1 DEF OpType
    <2>2. op' = [op EXCEPT ![c] = q]
      BY <1>1, <1>2
    <2> HIDE DEF q
    <2> QED
      BY <1>1, <2>1, <2>2
  <1>4. /\ op'[c].pc = "done" /\ op'[c].copy = None /\ op'[c].answer = answer
        /\ op'[c].email = op[c].email /\ op'[c].existing = op[c].existing /\ op'[c].id = op[c].id
    BY <1>1, <1>2 DEF OpType
  <1>5. Moves(c)
    BY <1>1, <1>2, <1>3, <1>4 DEF Moves
  <1>6. ReadSound(op[c])'
    BY <1>4 DEF ReadSound
  <1>7. UpsertSound(op[c])'
    BY <1>1, <1>4 DEF UpsertSound, Adds, OpType
  <1> QED
    BY <1>5, <1>6, <1>7

\* Calls that only read, and calls that only answer.
LEMMA GetByEmailInv ==
  ASSUME TypeOK, UsersInv, part' = part, NEW c \in Calls, NEW email \in Emails, U!GetByEmail(c, email)
  PROVE  UsersInv'
  <1>1. PICK answer \in {U!wrapSelectErr(U!WithEmail(email)), "error"} : U!Return(c, answer)
    BY DEF U!GetByEmail
  <1>2. op[c].pc = "idle" /\ UNCHANGED <<now, users, link, linkedBy, cache, uexp>>
    BY DEF U!GetByEmail, U!db, U!redis
  <1>3. answer \in U!Answers /\ answer # "none"
    BY <1>1 DEF U!wrapSelectErr, U!Answers
  <1>4. Adds /\ Links(c) /\ op[c].email = None
    BY <1>2, KeepUsers DEF Links, UsersInv, UsersSound, UpsertSound
  <1>5. Moves(c) /\ ReadSound(op[c])' /\ UpsertSound(op[c])'
    BY <1>1, <1>2, <1>3, <1>4, ReturnMove
  <1>6. cache' \in [U!IDs -> U!Entries \cup {None}] /\ uexp' \in [U!IDs -> Nat]
    BY <1>2 DEF UsersInv, U!TypeOK
  <1> QED
    BY <1>2, <1>4, <1>5, <1>6, UserMove

\* An account is created only for an address without one.
LEMMA CreateByEmailInv ==
  ASSUME TypeOK, UsersInv, part' = part, NEW c \in Calls, NEW email \in Emails, U!CreateByEmail(c, email)
  PROVE  UsersInv'
  <1>1. PICK answer \in {"error"} \cup (IF users' # users \/ U!WithEmail(email) # {}
                                        THEN {U!wrapWriteErr(U!WithEmail(email))} ELSE {}) :
            U!Return(c, answer)
    BY DEF U!CreateByEmail
  <1>2. op[c].pc = "idle" /\ UNCHANGED <<now, link, linkedBy, cache, uexp>>
    BY DEF U!CreateByEmail, U!redis
  <1>3. answer \in U!Answers /\ answer # "none"
    BY <1>1 DEF U!wrapWriteErr, U!Answers
  <1>4. Adds
    <2>1. CASE UNCHANGED users
      BY <2>1, KeepUsers
    <2>2. CASE U!WithEmail(email) = {} /\ \E i \in U!Fresh : users' = [users EXCEPT ![i] = U!NewRow(email)]
      BY <2>2, InsertUser
    <2> QED
      BY <2>1, <2>2 DEF U!CreateByEmail
  <1>5. Links(c) /\ op[c].email = None
    BY <1>2 DEF Links, UsersInv, UsersSound, UpsertSound
  <1>6. Moves(c) /\ ReadSound(op[c])' /\ UpsertSound(op[c])'
    BY <1>1, <1>2, <1>3, <1>4, <1>5, ReturnMove
  <1>7. cache' \in [U!IDs -> U!Entries \cup {None}] /\ uexp' \in [U!IDs -> Nat]
    BY <1>2 DEF UsersInv, U!TypeOK
  <1> QED
    BY <1>2, <1>4, <1>5, <1>6, <1>7, UserMove

\* Dropping a cached account never makes a copy stale.
LEMMA DeleteByIDInv ==
  ASSUME TypeOK, UsersInv, part' = part, NEW c \in Calls, U!DeleteByID(c)
  PROVE  UsersInv'
  <1>1. /\ op[c].pc = "invalidate" /\ U!Return(c, "user")
        /\ UNCHANGED <<now, users, link, linkedBy, uexp>>
        /\ cache' \in {cache, [cache EXCEPT ![op[c].id] = None]}
    BY DEF U!DeleteByID, U!db
  <1>2. cache \in [U!IDs -> U!Entries \cup {None}] /\ uexp \in [U!IDs -> Nat]
    BY DEF UsersInv, U!TypeOK
  <1>3. Adds /\ Links(c)
    BY <1>1, KeepUsers DEF Links
  <1>4. Moves(c) /\ ReadSound(op[c])' /\ UpsertSound(op[c])'
    BY <1>1, <1>3, ReturnMove DEF U!Answers
  <1>5. cache' \in [U!IDs -> U!Entries \cup {None}]
    BY <1>1, <1>2
  <1>6. \A i \in U!IDs : cache'[i] = cache[i] \/ cache'[i] = None
    BY <1>1, <1>2
  <1>7. \A i \in U!IDs : (cache'[i] = cache[i] /\ uexp'[i] = uexp[i]) \/ EntrySound(i)'
    BY <1>1, <1>6 DEF EntrySound
  <1> QED
    BY <1>1, <1>2, <1>3, <1>4, <1>5, <1>7, UserMove

\* A read answers from the cache or goes on to the database; it changes neither.
LEMMA GetByIDInv ==
  ASSUME TypeOK, UsersInv, part' = part, NEW c \in Calls, NEW i \in U!IDs, U!GetByID(c, i)
  PROVE  UsersInv'
  <1>1. op[c].pc = "idle" /\ UNCHANGED <<now, users, link, linkedBy, cache, uexp>>
    BY DEF U!GetByID, U!db, U!redis
  <1>2. /\ cache' \in [U!IDs -> U!Entries \cup {None}] /\ uexp' \in [U!IDs -> Nat]
        /\ op \in [Calls -> OpType] /\ ReadSound(op[c]) /\ UpsertSound(op[c])
    BY <1>1 DEF UsersInv, U!TypeOK, UsersSound, OpType
  <1>3. Adds /\ Links(c) /\ op[c].email = None
    BY <1>1, <1>2, KeepUsers DEF Links, UpsertSound
  <1>4. Moves(c) /\ ReadSound(op[c])' /\ UpsertSound(op[c])'
    <2>1. CASE U!Return(c, "user")
      BY <1>1, <1>3, <2>1, ReturnMove DEF U!Answers
    <2>2. CASE op' = [op EXCEPT ![c].pc = "load", ![c].id = i]
      <3> DEFINE q == [op[c] EXCEPT !.pc = "load", !.id = i]
      <3>1. q \in OpType
        BY <1>2 DEF OpType
      <3>2. op' = [op EXCEPT ![c] = q]
        BY <1>2, <2>2
      <3>3. /\ op'[c].pc = "load" /\ op'[c].id = i /\ op'[c].copy = op[c].copy
            /\ op'[c].email = op[c].email /\ op'[c].existing = op[c].existing
            /\ op'[c].answer = op[c].answer
        BY <1>2, <2>2 DEF OpType
      <3> HIDE DEF q
      <3>4. Moves(c)
        BY <1>2, <1>3, <3>1, <3>2 DEF Moves
      <3>5. None \notin U!IDs
        BY RepositoryConstants
      <3>6. ReadSound(op[c])'
        BY <1>1, <1>2, <3>3, <3>5 DEF ReadSound
      <3>7. UpsertSound(op[c])'
        BY <1>1, <1>2, <1>3, <3>3 DEF UpsertSound
      <3> QED
        BY <3>4, <3>6, <3>7
    <2> QED
      BY <2>1, <2>2 DEF U!GetByID
  <1> QED
    BY <1>1, <1>2, <1>3, <1>4, UserMove

\* What is read from the database is the row as it is now.
LEMMA LoadInv ==
  ASSUME TypeOK, UsersInv, part' = part, NEW c \in Calls, U!Load(c)
  PROVE  UsersInv'
  <1>1. op[c].pc = "load" /\ UNCHANGED <<now, users, link, linkedBy, cache, uexp>>
    BY DEF U!Load, U!db, U!redis
  <1>2. /\ cache' \in [U!IDs -> U!Entries \cup {None}] /\ uexp' \in [U!IDs -> Nat]
        /\ op \in [Calls -> OpType] /\ ReadSound(op[c]) /\ UpsertSound(op[c])
    BY <1>1 DEF UsersInv, U!TypeOK, UsersSound, OpType
  <1>3. Adds /\ Links(c) /\ op[c].email = None /\ op[c].id \in U!IDs
    BY <1>1, <1>2, KeepUsers DEF Links, ReadSound, UpsertSound, OpType
  <1>4. Moves(c) /\ ReadSound(op[c])' /\ UpsertSound(op[c])'
    <2>1. CASE U!Return(c, "not_found") \/ U!Return(c, "error")
      BY <1>1, <1>3, <2>1, ReturnMove DEF U!Answers
    <2>2. CASE /\ U!Exists(op[c].id)
               /\ op' = [op EXCEPT ![c].pc = "fill", ![c].copy = U!Copy(op[c].id)]
      <3> DEFINE q == [op[c] EXCEPT !.pc = "fill", !.copy = U!Copy(op[c].id)]
                 r == users[op[c].id]
      <3>1. r # None /\ r \in U!Rows
        BY <1>3, <2>2 DEF U!Exists, UsersInv, U!TypeOK
      <3>2. /\ U!Copy(op[c].id) \in U!Copies /\ U!Copy(op[c].id) # None
            /\ U!Copy(op[c].id).status = r.status /\ U!Copy(op[c].id).read = now
        BY <3>1, RepositoryConstants DEF U!Copy, U!Copies, U!Rows, TypeOK
      <3>3. q \in OpType
        BY <1>2, <3>2 DEF OpType
      <3>4. op' = [op EXCEPT ![c] = q]
        BY <1>2, <2>2
      <3>5. /\ op'[c].pc = "fill" /\ op'[c].copy = U!Copy(op[c].id) /\ op'[c].id = op[c].id
            /\ op'[c].email = op[c].email /\ op'[c].existing = op[c].existing
            /\ op'[c].answer = op[c].answer
        BY <1>2, <2>2 DEF OpType
      <3> HIDE DEF q
      <3>6. Moves(c)
        BY <1>2, <1>3, <3>3, <3>4 DEF Moves
      <3>7. ReadSound(op[c])'
        BY <1>1, <1>2, <3>1, <3>2, <3>5 DEF ReadSound, Agrees, TypeOK
      <3>8. UpsertSound(op[c])'
        BY <1>1, <1>2, <1>3, <3>5 DEF UpsertSound
      <3> QED
        BY <3>6, <3>7, <3>8
    <2> QED
      BY <2>1, <2>2 DEF U!Load
  <1> QED
    BY <1>1, <1>2, <1>3, <1>4, UserMove

\* A late fill stores what was loaded: the copy may be stale, and then the row changed
\* since it was read.
LEMMA SetByIDInv ==
  ASSUME TypeOK, UsersInv, part' = part, part = "users", NEW c \in Calls, U!SetByID(c)
  PROVE  UsersInv'
  <1>1. op[c].pc = "fill" /\ U!Return(c, "user") /\ UNCHANGED <<now, users, link, linkedBy>>
    BY DEF U!SetByID, U!db
  <1>2. /\ cache \in [U!IDs -> U!Entries \cup {None}] /\ uexp \in [U!IDs -> Nat]
        /\ op \in [Calls -> OpType] /\ ReadSound(op[c]) /\ UpsertSound(op[c])
    BY <1>1 DEF UsersInv, U!TypeOK, UsersSound, OpType
  <1>3. Adds /\ Links(c) /\ op[c].email = None
    BY <1>1, <1>2, KeepUsers DEF Links, UpsertSound
  <1>4. Moves(c) /\ ReadSound(op[c])' /\ UpsertSound(op[c])'
    BY <1>1, <1>3, ReturnMove DEF U!Answers
  <1>5. CASE UNCHANGED <<cache, uexp>>
    BY <1>1, <1>2, <1>3, <1>4, <1>5, UserMove
  <1>6. CASE /\ cache' = [cache EXCEPT ![op[c].id] = [copy |-> op[c].copy, stored |-> now]]
             /\ uexp' = [uexp EXCEPT ![op[c].id] = now + CacheTTL]
    <2>1. op[c].id \in U!IDs /\ op[c].copy \in U!Copies /\ op[c].copy # None
      BY <1>1, <1>2 DEF ReadSound, OpType
    <2>2. now \in Nat /\ CacheTTL \in Nat \ {0} /\ now + CacheTTL \in Nat
      BY RepositoryConstants DEF TypeOK
    <2> DEFINE entry == [copy |-> op[c].copy, stored |-> now]
    <2>3. entry \in U!Entries
      BY <2>1, <2>2 DEF U!Entries
    <2>4. cache' \in [U!IDs -> U!Entries \cup {None}]
      BY <1>2, <1>6, <2>3
    <2>5. uexp' \in [U!IDs -> Nat]
      BY <1>2, <1>6, <2>2
    <2>6. \A i \in U!IDs : i # op[c].id => cache'[i] = cache[i] /\ uexp'[i] = uexp[i]
      BY <1>2, <1>6
    <2>7. ASSUME NEW i \in U!IDs, i = op[c].id
          PROVE  EntrySound(i)'
      <3>1. cache'[i] = entry /\ uexp'[i] = now + CacheTTL
        BY <1>2, <1>6, <2>7
      <3>2. entry.copy = op[c].copy /\ entry.stored = now
        OBVIOUS
      <3> QED
        BY <1>1, <1>2, <2>2, <2>7, <3>1, <3>2 DEF EntrySound, ReadSound
    <2> QED
      BY <1>1, <1>3, <1>4, <2>4, <2>5, <2>6, <2>7, UserMove
  <1> QED
    BY <1>5, <1>6 DEF U!SetByID, U!redis

\* The snapshot an upsert begins with is the connection at that time.
LEMMA UpsertOAuthUserInv ==
  ASSUME TypeOK, UsersInv, part' = part, NEW c \in Calls, NEW email \in Emails,
         U!UpsertOAuthUser(c, email)
  PROVE  UsersInv'
  <1> DEFINE copy == IF link = None THEN None ELSE U!Copy(link)
             q == [op[c] EXCEPT !.pc = "upsert", !.email = email, !.existing = link,
                                !.id = link, !.copy = copy]
  <1>1. op[c].pc = "idle" /\ UNCHANGED <<now, users, link, linkedBy, cache, uexp>>
    BY DEF U!UpsertOAuthUser, U!db, U!redis
  <1>2. /\ cache' \in [U!IDs -> U!Entries \cup {None}] /\ uexp' \in [U!IDs -> Nat]
        /\ op \in [Calls -> OpType] /\ UpsertSound(op[c])
        /\ link \in U!IDs \cup {None} /\ users \in [U!IDs -> U!Rows \cup {None}] /\ LinkSound
    BY <1>1 DEF UsersInv, U!TypeOK, UsersSound, OpType
  <1>3. Adds /\ Links(c) /\ op[c].email = None
    BY <1>1, <1>2, KeepUsers DEF Links, UpsertSound
  <1>4. copy \in U!Copies \cup {None} /\ (copy # None => copy.read = now) /\ now \in Nat
    <2>1. CASE link = None
      BY <2>1 DEF TypeOK
    <2>2. CASE link # None
      <3>1. users[link] \in U!Rows
        BY <1>2, <2>2 DEF LinkSound
      <3> QED
        BY <2>2, <3>1 DEF U!Copy, U!Copies, U!Rows, TypeOK
    <2> QED
      BY <2>1, <2>2
  <1>5. op' = [op EXCEPT ![c] = q]
    BY <1>2 DEF U!UpsertOAuthUser
  <1> HIDE DEF copy
  <1>6. q \in OpType
    BY <1>2, <1>4 DEF OpType
  <1>7. /\ op'[c].pc = "upsert" /\ op'[c].email = email /\ op'[c].existing = link
        /\ op'[c].copy = copy /\ op'[c].answer = op[c].answer
    BY <1>2, <1>5 DEF OpType
  <1> HIDE DEF q
  <1>8. Moves(c)
    BY <1>2, <1>3, <1>5, <1>6 DEF Moves
  <1>9. ReadSound(op[c])'
    BY <1>1, <1>4, <1>7 DEF ReadSound
  <1>10. None \notin Emails
    BY RepositoryConstants
  <1>11. UpsertSound(op[c])'
    BY <1>1, <1>2, <1>7, <1>10 DEF UpsertSound
  <1> QED
    BY <1>1, <1>2, <1>3, <1>8, <1>9, <1>11, UserMove

\* What the statement does: it finds or makes the account, and the identity is connected
\* afterwards, to it unless somebody was faster.
LEMMA UpsertEffect ==
  ASSUME TypeOK, UsersInv, NEW c \in Calls, op[c].pc = "upsert", NEW i \in U!Targets(c),
         U!UpsertOAuthConnection(c, i)
  PROVE  /\ Adds /\ i \in U!IDs /\ users'[i] \in U!Rows /\ users'[i] # None
         /\ op[c].existing # None => i = op[c].existing
         /\ op[c].existing = None => users'[i].email = op[c].email
         /\ \/ link # None /\ UNCHANGED <<link, linkedBy>>
            \/ link = None /\ link' = i /\ linkedBy' = c /\ op[c].existing = None
  <1>1. /\ op[c] \in OpType /\ UpsertSound(op[c]) /\ LinkSound
        /\ users \in [U!IDs -> U!Rows \cup {None}]
    BY DEF UsersInv, U!TypeOK, UsersSound, OpType
  <1>2. op[c].email \in Emails
    BY <1>1 DEF UpsertSound, OpType
  <1>3. op[c].existing # None => op[c].existing = link /\ link # None
    BY <1>1 DEF UpsertSound
  <1>4. /\ users' = IF U!Exists(i) THEN users ELSE [users EXCEPT ![i] = U!NewRow(op[c].email)]
        /\ \/ link # None /\ UNCHANGED <<link, linkedBy>>
           \/ link = None /\ link' = i /\ linkedBy' = c
    BY DEF U!UpsertOAuthConnection, U!Connect
  <1>5. CASE op[c].existing # None
    <2>1. i = op[c].existing /\ i \in U!IDs /\ users[i] # None
      BY <1>1, <1>3, <1>5 DEF U!Targets, LinkSound, OpType
    <2>2. UNCHANGED users
      BY <1>4, <2>1 DEF U!Exists
    <2>3. Adds
      BY <2>2, KeepUsers
    <2> QED
      BY <1>1, <1>3, <1>4, <1>5, <2>1, <2>2, <2>3
  <1>6. CASE op[c].existing = None /\ U!WithEmail(op[c].email) # {}
    <2>1. i \in U!IDs /\ users[i] # None /\ users[i].email = op[c].email
      BY <1>6 DEF U!Targets, U!WithEmail, U!Exists
    <2>2. UNCHANGED users
      BY <1>4, <2>1 DEF U!Exists
    <2>3. Adds
      BY <2>2, KeepUsers
    <2> QED
      BY <1>1, <1>4, <1>6, <2>1, <2>2, <2>3
  <1>7. CASE op[c].existing = None /\ U!WithEmail(op[c].email) = {}
    <2>1. i \in U!Fresh
      BY <1>7 DEF U!Targets
    <2>2. users' = [users EXCEPT ![i] = U!NewRow(op[c].email)]
      BY <1>4, <2>1 DEF U!Fresh
    <2>3. Adds /\ i \in U!IDs /\ users'[i] # None /\ users'[i].email = op[c].email
      BY <1>2, <1>7, <2>1, <2>2, InsertUser
    <2> QED
      BY <1>4, <1>7, <2>3 DEF Adds
  <1> QED
    BY <1>5, <1>6, <1>7

\* The INSERTs of an upsert keep to its snapshot, or it raced with another first login.
LEMMA UpsertInv ==
  ASSUME TypeOK, UsersInv, part' = part, NEW c \in Calls, U!Upsert(c)
  PROVE  UsersInv'
  <1>1. op[c].pc = "upsert" /\ UNCHANGED <<now, cache, uexp>>
    BY DEF U!Upsert, U!redis
  <1>2. PICK i \in U!Targets(c) :
            /\ U!UpsertOAuthConnection(c, i)
            /\ op' = [op EXCEPT ![c].pc = "invalidate", ![c].id = i,
                                ![c].copy = IF op[c].existing # None THEN @
                                            ELSE [status |-> users'[i].status, read |-> now]]
    BY DEF U!Upsert
  <1>3. /\ cache' \in [U!IDs -> U!Entries \cup {None}] /\ uexp' \in [U!IDs -> Nat]
        /\ op \in [Calls -> OpType] /\ ReadSound(op[c]) /\ UpsertSound(op[c])
    BY <1>1 DEF UsersInv, U!TypeOK, UsersSound, OpType
  <1>4. /\ Adds /\ i \in U!IDs /\ users'[i] \in U!Rows /\ users'[i] # None
        /\ op[c].existing # None => i = op[c].existing
        /\ op[c].existing = None => users'[i].email = op[c].email
        /\ \/ link # None /\ UNCHANGED <<link, linkedBy>>
           \/ link = None /\ link' = i /\ linkedBy' = c /\ op[c].existing = None
    BY <1>1, <1>2, UpsertEffect
  <1> DEFINE new == [status |-> users'[i].status, read |-> now]
             copy == IF op[c].existing # None THEN op[c].copy ELSE new
             q == [op[c] EXCEPT !.pc = "invalidate", !.id = i, !.copy = copy]
  <1>5. copy \in U!Copies \cup {None} /\ (copy # None => copy.read <= now)
    <2>1. now \in Nat
      BY DEF TypeOK
    <2>2. new \in U!Copies /\ new.read = now
      BY <1>4, <2>1 DEF U!Copies, U!Rows
    <2>3. op[c].copy \in U!Copies \cup {None} /\ (op[c].copy # None => op[c].copy.read <= now)
      BY <1>3 DEF OpType, ReadSound
    <2> HIDE DEF new
    <2> QED
      BY <2>1, <2>2, <2>3
  <1>6. op' = [op EXCEPT ![c] = q]
    BY <1>2, <1>3
  <1> HIDE DEF copy
  <1>7. q \in OpType
    <2>1. op[c] \in OpType /\ i \in U!IDs
      BY <1>3, <1>4
    <2> QED
      BY <1>5, <2>1 DEF OpType
  <1>8. /\ op'[c].pc = "invalidate" /\ op'[c].id = i /\ op'[c].copy = copy
        /\ op'[c].email = op[c].email /\ op'[c].existing = op[c].existing
        /\ op'[c].answer = op[c].answer
    BY <1>3, <1>6 DEF OpType
  <1> HIDE DEF q
  <1>9. None \notin U!IDs /\ op[c].email # None
    BY <1>1, <1>3, RepositoryConstants DEF UpsertSound
  <1>10. Moves(c)
    BY <1>3, <1>6, <1>7, <1>8 DEF Moves
  <1>11. Links(c)
    BY <1>4, <1>8, <1>9 DEF Links
  <1>12. ReadSound(op[c])'
    BY <1>1, <1>4, <1>5, <1>8, <1>9 DEF ReadSound
  <1>13. UpsertSound(op[c])'
    BY <1>1, <1>3, <1>4, <1>8, <1>9 DEF UpsertSound
  <1> QED
    BY <1>1, <1>3, <1>4, <1>10, <1>11, <1>12, <1>13, UserMove

\* A failed upsert changes no table unless only its answer was lost.
LEMMA UpsertFailsInv ==
  ASSUME TypeOK, UsersInv, part' = part, NEW c \in Calls, U!UpsertFails(c)
  PROVE  UsersInv'
  <1>1. op[c].pc = "upsert" /\ U!Return(c, "error") /\ UNCHANGED <<now, cache, uexp>>
    BY DEF U!UpsertFails, U!redis
  <1>2. /\ cache' \in [U!IDs -> U!Entries \cup {None}] /\ uexp' \in [U!IDs -> Nat]
        /\ op \in [Calls -> OpType] /\ UpsertSound(op[c])
    BY <1>1 DEF UsersInv, U!TypeOK, UsersSound, OpType
  <1>3. op[c].email # None /\ op'[c].email = op[c].email
    BY <1>1, <1>2 DEF UpsertSound, U!Return, OpType
  <1>4. Adds /\ Links(c) /\ (link # None => link' = link)
    <2>1. CASE UNCHANGED <<users, link, linkedBy>>
      BY <2>1, KeepUsers DEF Links
    <2>2. ASSUME NEW i \in U!Targets(c), U!UpsertOAuthConnection(c, i)
          PROVE  Adds /\ Links(c) /\ (link # None => link' = link)
      <3>1. /\ Adds /\ i \in U!IDs /\ users'[i] # None
            /\ op[c].existing = None => users'[i].email = op[c].email
            /\ \/ link # None /\ UNCHANGED <<link, linkedBy>>
               \/ link = None /\ link' = i /\ linkedBy' = c /\ op[c].existing = None
        BY <1>1, <2>2, UpsertEffect
      <3> QED
        BY <1>3, <3>1 DEF Links
    <2> QED
      BY <2>1, <2>2 DEF U!UpsertFails, U!db
  <1>5. Moves(c) /\ ReadSound(op[c])' /\ UpsertSound(op[c])'
    BY <1>1, <1>4, ReturnMove DEF U!Answers
  <1> QED
    BY <1>1, <1>2, <1>4, <1>5, UserMove

\* A change of the status is later than every copy of the account.
LEMMA StatusChangesInv ==
  ASSUME TypeOK, UsersInv, part' = part, NEW i \in U!IDs, U!StatusChanges(i)
  PROVE  UsersInv'
  <1>1. users[i] # None /\ UNCHANGED <<now, link, linkedBy, cache, uexp, op>>
    BY DEF U!StatusChanges, U!Exists, U!redis
  <1>2. U!TypeOK /\ users[i] \in U!Rows /\ now \in Nat
    BY <1>1 DEF UsersInv, U!TypeOK, TypeOK
  <1> PICK new \in U!Status : users' = [users EXCEPT ![i] = [@ EXCEPT !.status = new, !.changed = now]]
    BY DEF U!StatusChanges
  <1> DEFINE row == [users[i] EXCEPT !.status = new, !.changed = now]
  <1>3. users' = [users EXCEPT ![i] = row]
    BY <1>2 DEF U!TypeOK
  <1>4. row \in U!Rows /\ row.email = users[i].email /\ row.changed = now
    BY <1>2 DEF U!Rows, U!Status
  <1> HIDE DEF row
  <1>5. None \notin U!Rows
    BY RepositoryConstants
  <1>6. \A j \in U!IDs : users'[j] = IF j = i THEN row ELSE users[j]
    BY <1>2, <1>3 DEF U!TypeOK
  <1>7. U!TypeOK'
    <2>1. users' \in [U!IDs -> U!Rows \cup {None}]
      BY <1>2, <1>3, <1>4 DEF U!TypeOK
    <2>2. Unique'
      BY <1>1, <1>2, <1>4, <1>6 DEF U!TypeOK, Unique
    <2> QED
      BY <1>1, <1>2, <2>1, <2>2 DEF U!TypeOK, Unique
  <1>8. ASSUME NEW j \in U!IDs
        PROVE  RowSound(j)' /\ EntrySound(j)'
    BY <1>1, <1>2, <1>4, <1>5, <1>6 DEF UsersInv, UsersSound, RowSound, EntrySound, Agrees
  <1>9. ASSUME NEW c \in Calls
        PROVE  ReadSound(op[c])' /\ UpsertSound(op[c])'
    <2>1. op[c] \in OpType /\ ReadSound(op[c]) /\ UpsertSound(op[c])
      BY DEF UsersInv, U!TypeOK, UsersSound, OpType
    <2>2. ReadSound(op[c])'
      BY <1>1, <1>4, <1>5, <1>6, <2>1 DEF ReadSound, Agrees, OpType
    <2>3. UpsertSound(op[c])'
      BY <1>1, <1>4, <1>5, <1>6, <2>1 DEF UpsertSound, OpType
    <2> QED
      BY <2>2, <2>3
  <1>10. LinkSound'
    BY <1>1, <1>2, <1>4, <1>5, <1>6 DEF UsersInv, UsersSound, LinkSound, U!TypeOK
  <1> QED
    BY <1>7, <1>8, <1>9, <1>10 DEF UsersInv, UsersSound

\* Every step of the repository of accounts keeps their invariant.
LEMMA UsersStep ==
  ASSUME TypeOK, UsersInv, part = "users", part' = part, U!Next
  PROVE  UsersInv'
  BY GetByEmailInv, CreateByEmailInv, UpsertOAuthUserInv, UpsertInv, UpsertFailsInv,
     DeleteByIDInv, GetByIDInv, LoadInv, SetByIDInv, StatusChangesInv DEF U!Next

\* So does time, if Redis drops what has expired.
LEMMA UsersTime ==
  ASSUME TypeOK, UsersInv, now' \in Nat, now' >= now,
         UNCHANGED <<part, users, link, linkedBy, uexp, op>>,
         \/ UNCHANGED <<now, cache>>
         \/ part # "users" /\ UNCHANGED cache
         \/ U!Expired(now')
  PROVE  UsersInv'
  <1>1. U!TypeOK /\ now \in Nat
    BY DEF UsersInv, TypeOK
  <1>2. cache' \in [U!IDs -> U!Entries \cup {None}]
    BY <1>1 DEF U!TypeOK, U!Expired
  <1>3. U!TypeOK'
    BY <1>1, <1>2 DEF U!TypeOK
  <1>4. ASSUME NEW i \in U!IDs
        PROVE  RowSound(i)' /\ EntrySound(i)'
    <2>1. RowSound(i) /\ EntrySound(i)
      BY DEF UsersInv, UsersSound
    <2>2. users[i] # None => users[i].changed \in Nat
      BY <1>1 DEF U!TypeOK, U!Rows
    <2>3. cache[i] # None => cache[i].copy.read \in Nat
      BY <1>1 DEF U!TypeOK, U!Entries, U!Copies
    <2>4. uexp[i] \in Nat
      BY <1>1 DEF U!TypeOK
    <2>5. RowSound(i)'
      BY <1>1, <2>1, <2>2 DEF RowSound
    <2>6. CASE UNCHANGED <<now, cache>>
      BY <2>5, <2>1, <2>6 DEF EntrySound
    <2>7. CASE part # "users" /\ UNCHANGED cache
      BY <2>5, <2>1, <2>7 DEF EntrySound
    <2>8. CASE U!Expired(now')
      <3>1. cache'[i] # None => cache'[i] = cache[i] /\ ~(uexp[i] <= now')
        BY <2>8 DEF U!Expired
      <3>2. CASE cache'[i] = None
        BY <2>5, <3>2 DEF EntrySound
      <3>3. CASE cache'[i] # None
        <4>1. cache'[i] = cache[i] /\ now' < uexp[i] /\ cache[i].copy.read <= now'
          BY <1>1, <2>1, <2>3, <2>4, <3>1, <3>3 DEF EntrySound
        <4> QED
          BY <2>5, <2>1, <3>3, <4>1 DEF EntrySound
      <3> QED
        BY <3>2, <3>3
    <2> QED
      BY <2>5, <2>6, <2>7, <2>8
  <1>5. ASSUME NEW c \in Calls
        PROVE  ReadSound(op[c])' /\ UpsertSound(op[c])'
    <2>1. op[c] \in OpType /\ ReadSound(op[c]) /\ UpsertSound(op[c])
      BY DEF UsersInv, U!TypeOK, UsersSound, OpType
    <2>2. op[c].copy # None => op[c].copy.read \in Nat
      BY <2>1 DEF OpType, U!Copies
    <2>3. ReadSound(op[c])'
      BY <1>1, <2>1, <2>2 DEF ReadSound
    <2>4. UpsertSound(op[c])'
      BY <2>1 DEF UpsertSound
    <2> QED
      BY <2>3, <2>4
  <1>6. LinkSound'
    BY DEF UsersInv, UsersSound, LinkSound
  <1> QED
    BY <1>3, <1>4, <1>5, <1>6 DEF UsersInv, UsersSound

----------------------------------------------------------------------------
(* The repositories together.                                              *)

\* Initially nothing is stored and nobody calls.
LEMMA SetupInv == Setup => Inv
  <1> SUFFICES ASSUME Setup
               PROVE  Inv
    OBVIOUS
  <1>1. Init /\ SW!Init /\ U!Init
    BY DEF Setup
  <1>2. TypeOK
    BY <1>1, InitTypeOK
  <1>3. Credit
    BY <1>1 DEF Init, Credit
  <1>4. WindowInv
    <2>1. now \in Nat /\ IsFiniteSet({})
      BY <1>2, FS_EmptySet DEF TypeOK
    <2>2. /\ zset = [k \in Keys |-> {}] /\ zexp = [k \in Keys |-> 0]
          /\ call = [c \in Callers |-> [pc |-> "idle", tiers |-> <<>>, stamp |-> -1, retry |-> 0]]
          /\ charged = [k \in Keys |-> [c \in Callers |-> -1]]
      BY <1>1 DEF SW!Init
    <2>3. charged \in [Keys -> [Callers -> -1..now]]
      <3>1. -1 \in -1..now
        BY <2>1
      <3> QED
        BY <2>2, <3>1
    <2>4. call \in [Callers -> [pc : {"idle", "run", "allowed", "rejected", "error"},
                                tiers : TierLists \cup {<<>>}, stamp : -1..now, retry : Nat]]
      BY <2>1, <2>2
    <2>5. SW!TypeOK
      BY <2>1, <2>2, <2>3, <2>4 DEF SW!TypeOK
    <2>6. CallSound
      BY <2>2 DEF CallSound
    <2>7. \A k \in Keys, c \in Callers : ~(charged[k][c] >= 0)
      BY <2>2
    <2>8. MembersSound
      <3>1. \A k \in Keys : {c \in Callers : charged[k][c] >= 0} = {}
        BY <2>7
      <3> QED
        BY <2>1, <2>2, <2>7, <3>1 DEF MembersSound
    <2>9. WindowBound
      BY <2>7, Zenon DEF WindowBound, SW!WindowBound
    <2> QED
      BY <2>5, <2>6, <2>8, <2>9 DEF WindowInv
  <1>5. UsersInv
    <2>1. /\ users = [i \in U!IDs |-> None] /\ link = None /\ linkedBy = None
          /\ cache = [i \in U!IDs |-> None] /\ uexp = [i \in U!IDs |-> 0]
          /\ op = [c \in Calls |-> [pc |-> "idle", email |-> None, existing |-> None, id |-> None,
                                    copy |-> None, answer |-> "none"]]
      BY <1>1 DEF U!Init
    <2>2. op \in [Calls -> OpType]
      BY <2>1 DEF OpType, U!Answers
    <2>3. U!TypeOK
      BY <2>1, <2>2 DEF U!TypeOK, OpType
    <2>4. UsersSound
      BY <2>1 DEF UsersSound, RowSound, EntrySound, ReadSound, UpsertSound, LinkSound
    <2> QED
      BY <2>3, <2>4 DEF UsersInv
  <1> QED
    BY <1>2, <1>3, <1>4, <1>5 DEF Inv

\* A step of one repository, or of the clock, keeps what holds of all of them.
LEMMA StepInv ==
  Inv /\ [UseBucket \/ UseWindow \/ UseUsers \/ TimePasses]_allVars => Inv'
  <1> SUFFICES ASSUME Inv, [UseBucket \/ UseWindow \/ UseUsers \/ TimePasses]_allVars
               PROVE  Inv'
    OBVIOUS
  <1> DEFINE CallType == [pc : {"idle", "run", "allowed", "rejected", "error"},
                          tiers : TierLists \cup {<<>>}, stamp : -1..now, retry : Nat]
  <1>1. TypeOK /\ Credit /\ WindowInv /\ UsersInv /\ now \in Nat
    BY DEF Inv, TypeOK
  <1>2. call \in [Callers -> CallType] /\ zset \in [Keys -> SUBSET Callers] /\ CallSound
    BY <1>1 DEF WindowInv, SW!TypeOK
  \* Whoever is not used is only older.
  <1>3. ASSUME now' \in Nat, now' >= now, UNCHANGED windowVars
        PROVE  WindowInv'
    <2>1. UNCHANGED <<zset, zexp, call, charged>>
      BY <1>3 DEF windowVars
    <2>2. CallSound'
      BY <1>2, <2>1 DEF CallSound, SW!InvalidTier
    <2> QED
      BY <1>1, <1>2, <1>3, <2>1, <2>2, OtherWindow
  <1>4. ASSUME now' \in Nat, now' >= now, UNCHANGED <<part, userVars>>,
               part # "users" \/ UNCHANGED now
        PROVE  UsersInv'
    <2>1. UNCHANGED <<part, users, link, linkedBy, cache, uexp, op>>
      BY <1>4 DEF userVars
    <2> QED
      BY <1>1, <1>4, <2>1, UsersTime
  <1>5. ASSUME UNCHANGED bucketVars, now' \in Nat, now' >= now
        PROVE  TypeOK' /\ Credit'
    <2>1. /\ UNCHANGED <<present, tokens, updated, expires, req, wait>>
          /\ UNCHANGED <<mark, passed, admitted, runs, slack>>
      BY <1>5 DEF bucketVars, bucket, window
    <2>2. TypeOK'
      BY <1>1, <1>5, <2>1 DEF TypeOK
    <2>3. Digits * (now - mark + slack) <= Digits * (now' - mark + slack)
      <3>1. \A a, b \in Int, d \in Nat : a <= b => d * a <= d * b
        OBVIOUS
      <3>2. mark \in Nat /\ slack \in Nat /\ Digits \in Nat
        BY <1>1, BucketConstants DEF TypeOK
      <3>3. \A n, t, m, l \in Nat : t >= n => n - m + l <= t - m + l
        OBVIOUS
      <3>4. now - mark + slack <= now' - mark + slack
        BY <1>1, <1>5, <3>2, <3>3
      <3>5. now - mark + slack \in Int /\ now' - mark + slack \in Int
        BY <1>1, <1>5, <3>2
      <3> QED
        BY <3>1, <3>2, <3>4, <3>5
    <2>4. Digits * (now - mark + slack) \in Int /\ Digits * (now' - mark + slack) \in Int
          /\ admitted * One \in Int /\ runs * Refill \in Int
      BY <1>1, <1>5, BucketConstants, UnitsType DEF TypeOK
    <2> DEFINE x == Digits * (now - mark + slack)
               y == Digits * (now' - mark + slack)
               A == admitted * One
               R == runs * Refill
    <2>5. (2 * A <= 2 * x + R) => 2 * A <= 2 * y + R
      <3> HIDE DEF x, y, A, R
      <3> QED
        BY <2>3, <2>4 DEF x, y, A, R
    <2>6. Credit'
      <3>1. /\ passed' <= admitted'
            /\ present' => updated' + Capacity * Refill <= expires'
            /\ runs' = 0 => admitted' = 0
            /\ runs' # 0 /\ present' =>
                2 * (admitted' * One) + 2 * (tokens' * Refill)
                  <= 2 * Full + 2 * (Digits * (updated' - mark' + slack')) + runs' * Refill
        BY <1>1, <2>1 DEF Credit
      <3>2. runs # 0 /\ ~present => 2 * A <= 2 * x + R
        BY <1>1 DEF Credit
      <3>3. runs' # 0 /\ ~present' =>
                2 * (admitted' * One) <= 2 * (Digits * (now' - mark' + slack')) + runs' * Refill
        BY <2>1, <2>5, <3>2
      <3> QED
        BY <3>1, <3>3 DEF Credit
    <2> QED
      BY <2>2, <2>6
  <1>6. CASE UseBucket
    <2>1. Next /\ part = "bucket" /\ UNCHANGED <<part, windowVars, userVars>>
      BY <1>6 DEF UseBucket
    <2>2. TypeOK' /\ Credit'
      BY <1>1, <2>1, TypeStep, CreditStep
    <2>3. now' \in Nat /\ now' >= now
      BY <1>1, <2>1 DEF Next, Allow, Decide, Unavailable, Repeat, Tick, Observe
    <2> QED
      BY <1>3, <1>4, <2>1, <2>2, <2>3 DEF Inv
  <1>7. CASE UseWindow
    <2>1. part = "window" /\ SW!Next /\ UNCHANGED <<part, bucketVars, userVars>>
      BY <1>7 DEF UseWindow
    <2>2. now' = now
      BY <2>1 DEF SW!Next, SW!AllowTiered, SW!Decide, SW!Unavailable
    <2>3. WindowInv'
      BY <1>1, <2>1, WindowStep
    <2> QED
      BY <1>1, <1>4, <1>5, <2>1, <2>2, <2>3 DEF Inv
  <1>8. CASE UseUsers
    <2>1. part = "users" /\ U!Next /\ UNCHANGED <<part, bucketVars, windowVars>>
      BY <1>8 DEF UseUsers
    <2>2. now' = now
      BY <2>1 DEF U!Next, U!GetByEmail, U!CreateByEmail, U!UpsertOAuthUser, U!Upsert,
                  U!UpsertFails, U!DeleteByID, U!Load, U!SetByID, U!GetByID, U!StatusChanges
    <2>3. UsersInv'
      BY <1>1, <2>1, UsersStep
    <2> QED
      BY <1>1, <1>3, <1>5, <2>1, <2>2, <2>3 DEF Inv
  <1>9. CASE TimePasses
    <2>1. now' = now + 1 /\ UNCHANGED <<part, bucketVars>>
      BY <1>9 DEF TimePasses
    <2>2. now' \in Nat /\ now' >= now
      BY <1>1, <2>1
    <2>3. TypeOK' /\ Credit'
      BY <1>5, <2>1, <2>2
    <2>4. CASE part = "window" /\ SW!Expired(now') /\ UNCHANGED <<zexp, call, charged, userVars>>
      <3>1. zset' \in [Keys -> SUBSET Callers]
        BY <1>2, <2>4 DEF SW!Expired
      <3>2. \A k \in Keys : zset'[k] = zset[k] \/ (zset'[k] = {} /\ zexp[k] <= now')
        BY <2>4 DEF SW!Expired
      <3>3. CallSound'
        BY <1>2, <2>4 DEF CallSound, SW!InvalidTier
      <3>4. WindowInv'
        BY <1>1, <1>2, <2>2, <2>4, <3>1, <3>2, <3>3, OtherWindow
      <3>5. UsersInv'
        BY <1>4, <2>1, <2>2, <2>4
      <3> QED
        BY <2>3, <3>4, <3>5 DEF Inv
    <2>5. CASE /\ part = "users" /\ U!Expired(now')
               /\ UNCHANGED <<users, link, linkedBy, uexp, op, windowVars>>
      <3>1. WindowInv'
        BY <1>3, <2>2, <2>5
      <3>2. UsersInv'
        BY <1>1, <2>1, <2>2, <2>5, UsersTime
      <3> QED
        BY <2>3, <3>1, <3>2 DEF Inv
    <2> QED
      BY <1>9, <2>4, <2>5 DEF TimePasses
  <1>10. CASE UNCHANGED allVars
    <2>1. UNCHANGED <<now, bucketVars, part, windowVars, userVars>>
      BY <1>10 DEF allVars, vars, bucketVars
    <2> QED
      BY <1>1, <1>3, <1>4, <1>5, <2>1 DEF Inv
  <1> QED
    BY <1>6, <1>7, <1>8, <1>9, <1>10

\* The inductive invariant holds in every behaviour.
THEOREM Invariance == RepositoriesSpec => []Inv
  BY SetupInv, StepInv, PTL DEF RepositoriesSpec

\* The bucket, the windows and the accounts keep their types; in particular no two
\* accounts have one address.
THEOREM RepositoryTypes == RepositoriesSpec => [](TypeOK /\ SW!TypeOK /\ U!TypeOK)
  <1>1. Inv => TypeOK /\ SW!TypeOK /\ U!TypeOK
    BY DEF Inv, WindowInv, UsersInv
  <1> QED
    BY <1>1, Invariance, PTL

\* The global limiter's bound holds next to the other repositories.
THEOREM SharedAdmissionIsBounded == RepositoriesSpec => []AdmissionBound
  <1>1. Inv => AdmissionBound
    BY CreditBounds DEF Inv
  <1> QED
    BY <1>1, Invariance, PTL

\* A rolling window never admits more than its limit, for any keys, limits and windows,
\* any number of callers and any order of their scripts.
THEOREM WindowsAreBounded == RepositoriesSpec => []WindowBound
  <1>1. Inv => WindowBound
    BY DEF Inv, WindowInv
  <1> QED
    BY <1>1, Invariance, PTL

\* Whoever logs in with a provider identity gets the connected account, unless another
\* address raced for the identity.
THEOREM OneAccountPerIdentity == RepositoriesSpec => []StrayAccountOnlyFromRace
  <1>1. ASSUME Inv
        PROVE  StrayAccountOnlyFromRace
    <2> SUFFICES ASSUME NEW c \in Calls, op[c].email # None, op[c].answer = "user", op[c].id # link
                 PROVE  /\ op[c].existing = None
                        /\ linkedBy \notin {None, c} /\ op[linkedBy].email # op[c].email
      BY DEF StrayAccountOnlyFromRace, U!StrayAccountOnlyFromRace
    <2>1. UpsertSound(op[c]) /\ LinkSound /\ U!TypeOK
      BY <1>1 DEF Inv, UsersInv, UsersSound
    <2>2. link # None /\ op[c].existing = None /\ op[c].id # None
          /\ users[op[c].id] # None /\ users[op[c].id].email = op[c].email
      BY <2>1 DEF UpsertSound
    <2>3. /\ linkedBy # None /\ users[link] # None
          /\ users[link].email = op[linkedBy].email
      BY <2>1, <2>2 DEF LinkSound
    <2>4. op[c].id \in U!IDs /\ link \in U!IDs
      BY <2>1, <2>2 DEF U!TypeOK
    <2>5. users[op[c].id].email # users[link].email
      BY <2>1, <2>2, <2>3, <2>4 DEF U!TypeOK
    <2> QED
      BY <2>2, <2>3, <2>5
  <1> QED
    BY <1>1, Invariance, PTL

\* A cached account that differs from the database was read before the change and is
\* gone CacheTTL after it was stored, for any interleaving of reads, fills and
\* invalidations.
THEOREM StaleCopiesExpire == RepositoriesSpec => []StaleCopyExpires
  <1>1. ASSUME Inv
        PROVE  StaleCopyExpires
    BY <1>1 DEF Inv, UsersInv, UsersSound, EntrySound, Agrees, StaleCopyExpires, U!StaleCopyExpires
  <1> QED
    BY <1>1, Invariance, PTL
=============================================================================
