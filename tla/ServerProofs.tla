---------------------------- MODULE ServerProofs ----------------------------
(***************************************************************************)
(* The rate limiter keeps its promises, the server implements the rate     *)
(* limiter, so that they hold of it, and a graceful exit is quiet: for any *)
(* limit, any length of a second and a minute, any addresses and any jobs. *)
(*                                                                         *)
(* The limiter's invariant says, of the requests that a key was let        *)
(* through, where they lie: the last `used' of them in the current window, *)
(* those before it, and all but the last maxPerMinute of those more than a *)
(* minute before it.                                                       *)
(***************************************************************************)
EXTENDS Server, SequenceTheorems, TLAPS

-----------------------------------------------------------------------------
(* The rate limiter.                                                       *)

\* A holds the instants of the requests let through, u those of the window that
\* began at r.
InWindow(A, u, r) ==
    \A i \in DOMAIN A : i > Len(A) - u => r <= A[i] /\ A[i] < r + Minute

BeforeWindow(A, u, r) ==
    \A i \in DOMAIN A : i <= Len(A) - u => A[i] < r

LongBefore(A, u, r) ==
    \A i \in DOMAIN A : i + maxPerMinute + u <= Len(A) => A[i] + Minute < r

\* The two windows of AtMostTwoWindows, for one key.
Apart(A) ==
    \A i, j \in DOMAIN A : j = i + 2 * maxPerMinute => A[j] - A[i] > Minute

Placed(A, u, r) ==
    u <= Len(A) /\ InWindow(A, u, r) /\ BeforeWindow(A, u, r)
                /\ LongBefore(A, u, r) /\ Apart(A)

\* A refusal sends its client beyond the window that refused it.
PromiseKept(k) ==
    promised[k] # NoPromise => promised[k].due >= promised[k].lastReset + Minute

KeyInv(k) ==
    /\ Placed(admitted[k], maxPerMinute - tokens[k], lastReset[k])
    /\ PromiseKept(k)

IInv == TypeOK /\ \A k \in Keys : KeyInv(k)

-----------------------------------------------------------------------------
\* Rounding down and adding one second goes beyond what was rounded.
LEMMA RoundedUp ==
    ASSUME NEW x \in Int, NEW s \in Nat \ {0}
    PROVE  /\ x \div s \in Int
           /\ (x \div s + 1) * s > x
  OBVIOUS

\* A sequence of instants up to now is one of instants up to a later now.
LEMMA SeqUpTo ==
    ASSUME NEW m \in Nat, NEW n \in Nat, m <= n, NEW s \in Seq(0 .. m)
    PROVE  s \in Seq(0 .. n)
  OBVIOUS

LEMMA Initially == Init => IInv
  <1>1. SUFFICES ASSUME Init PROVE IInv
    OBVIOUS
  <1>2. TypeOK
    BY <1>1, RateAssumption DEF Init, TypeOK, NoPromise, Never
  <1>3. ASSUME NEW k \in Keys PROVE KeyInv(k)
    BY <1>1, <1>3, RateAssumption DEF Init, KeyInv, Placed, InWindow, BeforeWindow,
       LongBefore, Apart, PromiseKept
  <1>4. QED
    BY <1>2, <1>3 DEF IInv

LEMMA TypeKept == TypeOK /\ [Next]_vars => TypeOK'
  <1>1. SUFFICES ASSUME TypeOK, [Next]_vars PROVE TypeOK'
    OBVIOUS
  <1>2. CASE UNCHANGED vars
    BY <1>1, <1>2 DEF TypeOK, vars
  <1>3. CASE Tick
    <2>1. now \in Nat /\ now' \in Nat /\ now <= now' /\ now' \in 0 .. MaxTime
      BY <1>1, <1>3, RateAssumption DEF TypeOK, Tick
    <2>2. admitted' \in [Keys -> Seq(0 .. now')]
      <3>1. admitted \in [Keys -> Seq(0 .. now)] /\ admitted' = admitted
        BY <1>1, <1>3 DEF TypeOK, Tick
      <3>2. \A k \in Keys : admitted[k] \in Seq(0 .. now')
        BY <2>1, <3>1, SeqUpTo
      <3>3. QED
        BY <3>1, <3>2
    <2>3. QED
      BY <1>1, <1>3, <2>1, <2>2 DEF TypeOK, Tick
  <1>4. ASSUME NEW k \in Keys, Admit(k) PROVE TypeOK'
    <2>1. Left(k) \in 1 .. maxPerMinute /\ Window(k) \in {Never} \cup (0 .. now)
      BY <1>1, <1>4, RateAssumption DEF TypeOK, Admit, Spent, Left, Window
    <2>2. /\ admitted \in [Keys -> Seq(0 .. now)] /\ now \in 0 .. now
          /\ tokens \in [Keys -> 0 .. maxPerMinute]
          /\ lastReset \in [Keys -> {Never} \cup (0 .. now)]
      BY <1>1, RateAssumption DEF TypeOK
    <2>3. Append(admitted[k], now) \in Seq(0 .. now)
      BY <2>2, AppendProperties
    <2>4. admitted' \in [Keys -> Seq(0 .. now)]
      BY <1>4, <2>2, <2>3 DEF Admit
    <2>5. Left(k) - 1 \in 0 .. maxPerMinute
      BY <2>1, RateAssumption
    <2>6. tokens' \in [Keys -> 0 .. maxPerMinute]
      BY <1>4, <2>2, <2>5 DEF Admit
    <2>7. lastReset' \in [Keys -> {Never} \cup (0 .. now)]
      BY <1>4, <2>1, <2>2 DEF Admit
    <2>8. now' = now /\ promised' = promised
      BY <1>4 DEF Admit
    <2>9. QED
      BY <1>1, <2>4, <2>6, <2>7, <2>8 DEF TypeOK
  <1>5. ASSUME NEW k \in Keys, Refuse(k) PROVE TypeOK'
    <2>1. lastReset[k] \in Int /\ now \in Int /\ Minute \in Int
      BY <1>1, RateAssumption DEF TypeOK, Never
    <2>2. (Minute - elapsed(k)) \div Second \in Int
      BY <2>1, RateAssumption, RoundedUp DEF elapsed
    <2>3. now + RetryAfter(k) * Second \in Int
      BY <2>1, <2>2, RateAssumption DEF RetryAfter
    <2>4. /\ lastReset[k] \in {Never} \cup (0 .. now)
          /\ promised \in [Keys -> [due : Int, lastReset : {Never} \cup (0 .. now)]]
      BY <1>1 DEF TypeOK
    <2>5. [due |-> now + RetryAfter(k) * Second, lastReset |-> lastReset[k]]
             \in [due : Int, lastReset : {Never} \cup (0 .. now)]
      BY <2>3, <2>4
    <2>6. promised' \in [Keys -> [due : Int, lastReset : {Never} \cup (0 .. now)]]
      BY <1>5, <2>4, <2>5 DEF Refuse
    <2>7. QED
      BY <1>1, <1>5, <2>6 DEF TypeOK, Refuse
  <1>6. QED
    BY <1>1, <1>2, <1>3, <1>4, <1>5 DEF Next

\* A request that is let through within the window.
LEMMA Within ==
    ASSUME NEW A \in Seq(Int), NEW u \in Nat, u < maxPerMinute, NEW r \in Int,
           NEW t \in Int, r <= t, t < r + Minute, Placed(A, u, r)
    PROVE  Placed(Append(A, t), u + 1, r)
  <1> DEFINE B == Append(A, t)
             L == Len(A)
  <1>1. /\ L \in Nat /\ DOMAIN A = 1 .. L /\ \A i \in 1 .. L : A[i] \in Int
        /\ Len(B) = L + 1 /\ DOMAIN B = 1 .. L + 1
        /\ \A i \in 1 .. L : B[i] = A[i]
        /\ B[L + 1] = t
        /\ maxPerMinute \in Nat \ {0} /\ Minute \in Nat \ {0}
    BY RateAssumption, AppendProperties, LenProperties
  <1>2. /\ u <= L
        /\ \A i \in 1 .. L : i > L - u => r <= A[i] /\ A[i] < r + Minute
        /\ \A i \in 1 .. L : i <= L - u => A[i] < r
        /\ \A i \in 1 .. L : i + maxPerMinute + u <= L => A[i] + Minute < r
        /\ \A i, j \in 1 .. L : j = i + 2 * maxPerMinute => A[j] - A[i] > Minute
    BY <1>1 DEF Placed, InWindow, BeforeWindow, LongBefore, Apart
  <1> HIDE DEF B, L
  <1>3. u + 1 <= L + 1
    BY <1>1, <1>2
  <1>4. \A i \in 1 .. L + 1 : i > (L + 1) - (u + 1) => r <= B[i] /\ B[i] < r + Minute
    BY <1>1, <1>2
  <1>5. \A i \in 1 .. L + 1 : i <= (L + 1) - (u + 1) => B[i] < r
    BY <1>1, <1>2
  <1>6. \A i \in 1 .. L + 1 : i + maxPerMinute + (u + 1) <= L + 1 => B[i] + Minute < r
    BY <1>1, <1>2
  <1>7. \A i, j \in 1 .. L + 1 : j = i + 2 * maxPerMinute => B[j] - B[i] > Minute
    <2>1. SUFFICES ASSUME NEW i \in 1 .. L + 1, NEW j \in 1 .. L + 1,
                          j = i + 2 * maxPerMinute
                   PROVE  B[j] - B[i] > Minute
      OBVIOUS
    <2>2. i \in 1 .. L /\ B[i] = A[i] /\ A[i] \in Int
      BY <1>1, <2>1
    <2>3. CASE j \in 1 .. L
      BY <1>1, <1>2, <2>1, <2>2, <2>3
    <2>4. CASE j = L + 1
      <3>1. i + maxPerMinute + u <= L
        BY <1>1, <2>1, <2>4
      <3>2. A[i] + Minute < r
        BY <1>2, <2>2, <3>1
      <3>3. QED
        BY <1>1, <2>2, <2>4, <3>2
    <2>5. QED
      BY <1>1, <2>1, <2>3, <2>4
  <1>8. QED
    <2>1. Placed(B, u + 1, r)
      BY <1>1, <1>3, <1>4, <1>5, <1>6, <1>7
         DEF Placed, InWindow, BeforeWindow, LongBefore, Apart
    <2>2. QED
      BY <2>1 DEF B

\* A request that is let through and opens a new window.
LEMMA Reopened ==
    ASSUME NEW A \in Seq(Int), NEW u \in 0 .. maxPerMinute, NEW r \in Int,
           NEW t \in Int, r + Minute <= t, Placed(A, u, r)
    PROVE  Placed(Append(A, t), 1, t)
  <1> DEFINE B == Append(A, t)
             L == Len(A)
  <1>1. /\ L \in Nat /\ DOMAIN A = 1 .. L /\ \A i \in 1 .. L : A[i] \in Int
        /\ Len(B) = L + 1 /\ DOMAIN B = 1 .. L + 1
        /\ \A i \in 1 .. L : B[i] = A[i]
        /\ B[L + 1] = t
        /\ maxPerMinute \in Nat \ {0} /\ Minute \in Nat \ {0}
    BY RateAssumption, AppendProperties, LenProperties
  <1>2. /\ u <= L
        /\ \A i \in 1 .. L : i > L - u => A[i] < r + Minute
        /\ \A i \in 1 .. L : i <= L - u => A[i] < r
        /\ \A i, j \in 1 .. L : j = i + 2 * maxPerMinute => A[j] - A[i] > Minute
    BY <1>1 DEF Placed, InWindow, BeforeWindow, Apart
  <1> HIDE DEF B, L
  <1>3. \A i \in 1 .. L : A[i] < t /\ (i <= L - maxPerMinute => A[i] + Minute < t)
    <2>1. TAKE i \in 1 .. L
    <2>2. CASE i <= L - u
      BY <1>1, <1>2, <2>2
    <2>3. CASE i > L - u
      BY <1>1, <1>2, <2>3
    <2>4. QED
      BY <1>1, <2>2, <2>3
  <1>4. 1 <= L + 1
    BY <1>1
  <1>5. \A i \in 1 .. L + 1 : i > (L + 1) - 1 => t <= B[i] /\ B[i] < t + Minute
    BY <1>1
  <1>6. \A i \in 1 .. L + 1 : i <= (L + 1) - 1 => B[i] < t
    BY <1>1, <1>3
  <1>7. \A i \in 1 .. L + 1 : i + maxPerMinute + 1 <= L + 1 => B[i] + Minute < t
    BY <1>1, <1>3
  <1>8. \A i, j \in 1 .. L + 1 : j = i + 2 * maxPerMinute => B[j] - B[i] > Minute
    <2>1. SUFFICES ASSUME NEW i \in 1 .. L + 1, NEW j \in 1 .. L + 1,
                          j = i + 2 * maxPerMinute
                   PROVE  B[j] - B[i] > Minute
      OBVIOUS
    <2>2. i \in 1 .. L /\ B[i] = A[i] /\ A[i] \in Int
      BY <1>1, <2>1
    <2>3. CASE j \in 1 .. L
      BY <1>1, <1>2, <2>1, <2>2, <2>3
    <2>4. CASE j = L + 1
      <3>1. i <= L - maxPerMinute
        BY <1>1, <2>1, <2>4
      <3>2. A[i] + Minute < t
        BY <1>3, <2>2, <3>1
      <3>3. QED
        BY <1>1, <2>2, <2>4, <3>2
    <2>5. QED
      BY <1>1, <2>1, <2>3, <2>4
  <1>9. QED
    <2>1. Placed(B, 1, t)
      BY <1>1, <1>4, <1>5, <1>6, <1>7, <1>8
         DEF Placed, InWindow, BeforeWindow, LongBefore, Apart
    <2>2. QED
      BY <2>1 DEF B

LEMMA Admitted ==
    ASSUME TypeOK, NEW k \in Keys, KeyInv(k), Admit(k)
    PROVE  KeyInv(k)'
  <1>1. /\ admitted[k] \in Seq(Int) /\ now \in Int /\ lastReset[k] \in Int
        /\ tokens[k] \in 0 .. maxPerMinute
        /\ lastReset[k] <= now /\ maxPerMinute \in Nat \ {0} /\ Minute \in Nat \ {0}
    BY RateAssumption DEF TypeOK, Never
  <1>2. /\ admitted'[k] = Append(admitted[k], now) /\ promised' = promised
        /\ tokens'[k] = Left(k) - 1 /\ lastReset'[k] = Window(k) /\ Left(k) > 0
    BY <1>1 DEF TypeOK, Admit, Spent, Left
  <1>3. Placed(admitted[k], maxPerMinute - tokens[k], lastReset[k])
    BY DEF KeyInv
  <1>4. Placed(admitted'[k], maxPerMinute - tokens'[k], lastReset'[k])
    <2>1. CASE RefillDue(k)
      <3>1. Left(k) = maxPerMinute /\ Window(k) = now /\ now - lastReset[k] >= Minute
        BY <2>1 DEF Left, Window, RefillDue, elapsed
      <3>2. /\ maxPerMinute - tokens'[k] = 1 /\ lastReset'[k] = now
            /\ lastReset[k] + Minute <= now
            /\ maxPerMinute - tokens[k] \in 0 .. maxPerMinute
        BY <1>1, <1>2, <3>1
      <3>3. QED
        BY <1>1, <1>2, <1>3, <3>2, Reopened
    <2>2. CASE ~RefillDue(k)
      <3>1. /\ tokens'[k] = tokens[k] - 1 /\ lastReset'[k] = lastReset[k]
            /\ now < lastReset[k] + Minute /\ tokens[k] > 0
        BY <1>1, <1>2, <2>2 DEF Left, Window, RefillDue, elapsed
      <3>2. /\ maxPerMinute - tokens[k] \in Nat /\ maxPerMinute - tokens[k] < maxPerMinute
            /\ maxPerMinute - tokens'[k] = (maxPerMinute - tokens[k]) + 1
        BY <1>1, <3>1
      <3>3. Placed(Append(admitted[k], now), (maxPerMinute - tokens[k]) + 1, lastReset[k])
        BY <1>1, <1>3, <3>1, <3>2, Within
      <3>4. QED
        BY <1>2, <3>1, <3>2, <3>3
    <2>3. QED
      BY <2>1, <2>2
  <1>5. PromiseKept(k)'
    BY <1>2 DEF KeyInv, PromiseKept, NoPromise, Never
  <1>6. QED
    BY <1>4, <1>5 DEF KeyInv

LEMMA Refused ==
    ASSUME TypeOK, NEW k \in Keys, KeyInv(k), Refuse(k)
    PROVE  KeyInv(k)'
  <1>1. /\ now \in Nat /\ lastReset[k] \in Int /\ Minute \in Nat \ {0}
        /\ Second \in Nat \ {0}
    BY RateAssumption DEF TypeOK, Never
  <1>2. promised'[k] = [due |-> now + RetryAfter(k) * Second, lastReset |-> lastReset[k]]
    BY DEF TypeOK, Refuse
  <1>3. Minute - elapsed(k) \in Int /\ elapsed(k) = now - lastReset[k]
    BY <1>1 DEF elapsed
  <1>4. (Minute - elapsed(k)) \div Second \in Int
        /\ ((Minute - elapsed(k)) \div Second + 1) * Second > Minute - elapsed(k)
    BY <1>1, <1>3, RoundedUp
  <1>5. RetryAfter(k) * Second > Minute - elapsed(k) /\ RetryAfter(k) * Second \in Int
    BY <1>1, <1>4 DEF RetryAfter
  <1>6. now + RetryAfter(k) * Second >= lastReset[k] + Minute
    BY <1>1, <1>3, <1>5
  <1>7. PromiseKept(k)'
    BY <1>2, <1>6 DEF PromiseKept
  <1>8. Placed(admitted[k], maxPerMinute - tokens[k], lastReset[k])'
    BY DEF KeyInv, Refuse
  <1>9. QED
    BY <1>7, <1>8 DEF KeyInv

\* A step that leaves the bucket and the histories of a key alone.
LEMMA OtherKey ==
    ASSUME NEW k, KeyInv(k), tokens'[k] = tokens[k], lastReset'[k] = lastReset[k],
           admitted'[k] = admitted[k], promised'[k] = promised[k]
    PROVE  KeyInv(k)'
  BY DEF KeyInv, PromiseKept, NoPromise, Never

LEMMA Inductive == IInv /\ [Next]_vars => IInv'
  <1>1. SUFFICES ASSUME IInv, [Next]_vars PROVE IInv'
    OBVIOUS
  <1>2. TypeOK /\ TypeOK'
    BY <1>1, TypeKept DEF IInv
  <1>3. ASSUME NEW k \in Keys PROVE KeyInv(k)'
    <2>1. KeyInv(k)
      BY <1>1, <1>3 DEF IInv
    <2>2. CASE UNCHANGED vars \/ Tick
      BY <2>1, <2>2, OtherKey DEF vars, Tick
    <2>3. ASSUME NEW m \in Keys, Admit(m) \/ Refuse(m) PROVE KeyInv(k)'
      <3>1. CASE m = k
        BY <1>2, <1>3, <2>1, <2>3, <3>1, Admitted, Refused
      <3>2. CASE m # k
        BY <1>2, <2>1, <2>3, <3>2, OtherKey DEF Admit, Refuse, TypeOK
      <3>3. QED
        BY <3>1, <3>2
    <2>4. QED
      BY <1>1, <2>2, <2>3 DEF Next
  <1>4. QED
    BY <1>2, <1>3 DEF IInv

LEMMA Always == Spec => []IInv
  BY Initially, Inductive, PTL DEF Spec

-----------------------------------------------------------------------------
\* Every variable keeps its type.
THEOREM LimiterTyped == Spec => []TypeOK
  <1>1. IInv => TypeOK
    BY DEF IInv
  <1>2. QED
    BY <1>1, Always, PTL

\* No minute sees more than twice the limit from one address.
THEOREM TwoWindowsHold == Spec => []AtMostTwoWindows
  <1>1. IInv => AtMostTwoWindows
    BY DEF IInv, KeyInv, Placed, Apart, AtMostTwoWindows
  <1>2. QED
    BY <1>1, Always, PTL

\* Who waits as long as Retry-After says finds the window over.
THEOREM RetryAfterHolds == Spec => []RetryAfterIsEnough
  <1>1. IInv => RetryAfterIsEnough
    <2>1. SUFFICES ASSUME IInv, NEW k \in Keys, promised[k] # NoPromise,
                          now >= promised[k].due, lastReset[k] = promised[k].lastReset
                   PROVE  RefillDue(k)
      BY DEF RetryAfterIsEnough
    <2>2. promised[k].due >= promised[k].lastReset + Minute
      BY <2>1 DEF IInv, KeyInv, PromiseKept
    <2>3. /\ now \in Int /\ lastReset[k] \in Int /\ promised[k].due \in Int
          /\ Minute \in Int
      BY <2>1, RateAssumption DEF IInv, TypeOK, Never
    <2>4. QED
      BY <2>1, <2>2, <2>3 DEF RefillDue, elapsed
  <1>2. QED
    BY <1>1, Always, PTL

\* A request is refused only when the whole limit was let through from its
\* address in less than a minute.
THEOREM RefusedHolds == Spec => RefusedOnlyWhenUsedUp
  <1> DEFINE UsedUp(k) ==
        /\ Len(admitted[k]) >= maxPerMinute
        /\ now - admitted[k][Len(admitted[k]) - maxPerMinute + 1] < Minute
  <1>1. ASSUME IInv, NEW k \in Keys, Refuse(k) PROVE UsedUp(k)
    <2>1. /\ now \in Int /\ lastReset[k] \in Int /\ tokens[k] \in 0 .. maxPerMinute
          /\ admitted[k] \in Seq(Int)
          /\ maxPerMinute \in Nat \ {0} /\ Minute \in Nat \ {0}
      BY <1>1, RateAssumption DEF IInv, TypeOK, Never
    <2>2. ~RefillDue(k) /\ tokens[k] = 0
      BY <1>1, <2>1 DEF Refuse, Spent, Left
    <2>3. now < lastReset[k] + Minute /\ maxPerMinute - tokens[k] = maxPerMinute
      BY <2>1, <2>2 DEF RefillDue, elapsed
    <2>4. /\ maxPerMinute <= Len(admitted[k])
          /\ InWindow(admitted[k], maxPerMinute, lastReset[k])
      BY <1>1, <2>3 DEF IInv, KeyInv, Placed
    <2>5. /\ Len(admitted[k]) \in Nat /\ DOMAIN admitted[k] = 1 .. Len(admitted[k])
          /\ \A i \in 1 .. Len(admitted[k]) : admitted[k][i] \in Int
      BY <2>1, LenProperties
    <2> DEFINE A == admitted[k]
               i == Len(A) - maxPerMinute + 1
    <2>6. i \in DOMAIN A /\ i > Len(A) - maxPerMinute
      BY <2>1, <2>4, <2>5
    <2> HIDE DEF i
    <2>7. lastReset[k] <= A[i] /\ A[i] \in Int
      BY <2>4, <2>5, <2>6 DEF InWindow
    <2>8. now - A[i] < Minute
      BY <2>1, <2>3, <2>7
    <2>9. QED
      BY <2>1, <2>4, <2>5, <2>8 DEF i
  <1>2. ASSUME IInv, [Next]_vars, NEW k \in Keys, promised'[k] # promised[k]
        PROVE  UsedUp(k)
    <2>1. ~UNCHANGED promised
      BY <1>2
    <2>2. PICK m \in Keys : Refuse(m)
      BY <1>2, <2>1 DEF Next, vars, Tick, Admit
    <2>3. m = k
      BY <1>2, <2>2 DEF Refuse, IInv, TypeOK
    <2>4. QED
      BY <1>1, <1>2, <2>2, <2>3
  <1>3. IInv /\ [Next]_vars
          => [\A k \in Keys : promised'[k] # promised[k] => UsedUp(k)]_vars
    BY <1>2
  <1>4. QED
    BY <1>3, Always, PTL DEF Spec, RefusedOnlyWhenUsedUp

-----------------------------------------------------------------------------
(* The server.                                                             *)

\* Whoever the limiter let through is in a handler or was answered.
RequestsAccounted ==
    /\ handled \cup answered
         = {r \in Keys \X (1 .. MaxRequests) : r[2] <= Len(admitted[r[1]])}
    /\ \A k \in Keys : Len(admitted[k]) + refused[k] <= MaxRequests

\* The drain comes after the jobs, the exit after the requests.
OrderOfExit ==
    /\ main \in {"drains", "exited"} => \A j \in Jobs : job[j] = "stopped"
    /\ main = "exited" => handled = {}

ServerInv == ServerTypeOK /\ RequestsAccounted /\ OrderOfExit

-----------------------------------------------------------------------------
LEMMA StepsOfLimiter == [ServerNext]_allVars => [Next]_vars
  <1>1. SUFFICES ASSUME [ServerNext]_allVars PROVE [Next]_vars
    OBVIOUS
  <1>2. CASE UNCHANGED limiter
    BY <1>2 DEF limiter, vars
  <1>3. ASSUME NEW k \in Keys, Request(k) PROVE Next
    BY <1>3 DEF Request, Next
  <1>4. CASE Clock
    BY <1>4 DEF Clock, Next
  <1>5. ASSUME NEW j \in Jobs, TickerFires(j) \/ StartJob(j) \/ EndJob(j) \/ StopJob(j)
        PROVE  UNCHANGED limiter
    BY <1>5 DEF TickerFires, StartJob, EndJob, StopJob
  <1>6. ASSUME NEW r \in handled, Answer(r) PROVE UNCHANGED limiter
    BY <1>6 DEF Answer
  <1>7. CASE ListenFails \/ Signal \/ StopScheduler \/ Drain \/ Exit \/ DrainTimesOut
    BY <1>2, <1>7 DEF ListenFails, Signal, StopScheduler, Drain, Exit, DrainTimesOut
  <1>8. CASE UNCHANGED allVars
    BY <1>2, <1>8 DEF allVars
  <1>9. QED
    BY <1>1, <1>2, <1>3, <1>4, <1>5, <1>6, <1>7, <1>8 DEF ServerNext

\* The server is a rate limiter: what holds of that in every behaviour holds
\* of its requests, whatever the scheduler and the shutdown do meanwhile.
THEOREM ServerImplementsLimiter == ServerSpec => Spec
  <1>1. ServerInit => Init
    BY DEF ServerInit
  <1>2. QED
    BY <1>1, StepsOfLimiter, PTL DEF ServerSpec, Spec

-----------------------------------------------------------------------------
LEMMA StartsInvariant == ServerInit => ServerInv
  <1>1. SUFFICES ASSUME ServerInit PROVE ServerInv
    OBVIOUS
  <1>2. TypeOK
    BY <1>1, Initially DEF ServerInit, IInv
  <1>3. ServerTypeOK
    <2>1. /\ handled = {} /\ answered = {} /\ ticked = {} /\ main = "serves"
          /\ ctxDone = FALSE /\ job = [j \in Jobs |-> "waits"]
          /\ refused = [k \in Keys |-> 0]
      BY <1>1 DEF ServerInit
    <2>2. refused \in [Keys -> 0 .. MaxRequests]
      BY <2>1, ServerAssumption
    <2>3. job \in [Jobs -> {"waits", "runs", "stopped"}]
      BY <2>1
    <2>4. handled \cup answered \subseteq Keys \X Nat
      BY <2>1
    <2>5. QED
      BY <1>2, <2>1, <2>2, <2>3, <2>4 DEF ServerTypeOK
  <1>4. \A k \in Keys : Len(admitted[k]) = 0 /\ refused[k] = 0
    BY <1>1 DEF ServerInit, Init
  <1>5. RequestsAccounted
    BY <1>1, <1>4, ServerAssumption DEF ServerInit, RequestsAccounted
  <1>6. QED
    BY <1>1, <1>3, <1>5 DEF ServerInit, ServerInv, OrderOfExit

LEMMA SchedulerStep ==
    ASSUME ServerInv, NEW j \in Jobs,
           TickerFires(j) \/ StartJob(j) \/ EndJob(j) \/ StopJob(j)
    PROVE  ServerInv'
  <1>1. UNCHANGED <<limiter, ctxDone, main, server>>
    BY DEF TickerFires, StartJob, EndJob, StopJob
  <1>2. TypeOK' /\ RequestsAccounted'
    BY <1>1 DEF ServerInv, ServerTypeOK, TypeOK, RequestsAccounted, limiter, server
  <1>3. /\ job' \in [Jobs -> {"waits", "runs", "stopped"}] /\ ticked' \subseteq Jobs
        /\ \A i \in Jobs : job[i] = "stopped" => job'[i] = "stopped"
    BY DEF ServerInv, ServerTypeOK, TickerFires, StartJob, EndJob, StopJob
  <1>4. ServerTypeOK'
    BY <1>1, <1>2, <1>3 DEF ServerInv, ServerTypeOK, server
  <1>5. OrderOfExit'
    BY <1>1, <1>3 DEF ServerInv, OrderOfExit, server
  <1>6. QED
    BY <1>2, <1>4, <1>5 DEF ServerInv

LEMMA RequestStep ==
    ASSUME ServerInv, NEW k \in Keys, Request(k)
    PROVE  ServerInv'
  <1> DEFINE Passed == {r \in Keys \X (1 .. MaxRequests) : r[2] <= Len(admitted[r[1]])}
  <1>1. /\ Listening /\ UNCHANGED <<ctxDone, scheduler, main, answered>>
        /\ Len(admitted[k]) + refused[k] < MaxRequests
    BY DEF Request
  <1>2. TypeOK'
    BY TypeKept DEF ServerInv, ServerTypeOK, Request, Next
  <1>3. /\ admitted \in [Keys -> Seq(0 .. now)] /\ refused \in [Keys -> 0 .. MaxRequests]
        /\ MaxRequests \in Nat /\ now \in 0 .. now
        /\ \A m \in Keys : Len(admitted[m]) \in Nat
    BY ServerAssumption, RateAssumption DEF ServerInv, ServerTypeOK, TypeOK
  <1>4. OrderOfExit'
    BY <1>1 DEF ServerInv, OrderOfExit, Listening
  <1>5. CASE Admit(k) /\ handled' = handled \cup {<<k, Len(admitted'[k])>>} /\ UNCHANGED refused
    <2>1. /\ admitted' = [admitted EXCEPT ![k] = Append(@, now)]
          /\ Len(Append(admitted[k], now)) = Len(admitted[k]) + 1
      BY <1>3, <1>5, AppendProperties DEF Admit
    <2>2. /\ Len(admitted'[k]) = Len(admitted[k]) + 1
          /\ \A m \in Keys \ {k} : admitted'[m] = admitted[m]
      BY <1>3, <2>1
    <2>3. Len(admitted'[k]) \in 1 .. MaxRequests
      BY <1>1, <1>3, <2>2
    <2>4. Passed' = Passed \cup {<<k, Len(admitted'[k])>>}
      <3>1. ASSUME NEW m \in Keys, NEW i \in 1 .. MaxRequests
            PROVE  i <= Len(admitted'[m])
                     <=> i <= Len(admitted[m]) \/ (m = k /\ i = Len(admitted'[k]))
        BY <1>3, <2>2, <3>1
      <3>2. QED
        BY <2>3, <3>1
    <2>5. RequestsAccounted'
      <3>1. (handled \cup answered)' = Passed'
        BY <1>1, <1>5, <2>4 DEF ServerInv, RequestsAccounted
      <3>2. \A m \in Keys : Len(admitted'[m]) + refused'[m] <= MaxRequests
        <4>1. TAKE m \in Keys
        <4>2. refused' = refused /\ Len(admitted[m]) + refused[m] <= MaxRequests
          BY <1>5 DEF ServerInv, RequestsAccounted
        <4>3. CASE m = k
          BY <1>1, <1>3, <2>2, <4>2, <4>3
        <4>4. CASE m # k
          BY <2>2, <4>2, <4>4
        <4>5. QED
          BY <4>3, <4>4
      <3>3. QED
        BY <3>1, <3>2 DEF RequestsAccounted
    <2>6. ServerTypeOK'
      BY <1>1, <1>2, <1>5, <2>3 DEF ServerInv, ServerTypeOK, scheduler
    <2>7. QED
      BY <1>4, <2>5, <2>6 DEF ServerInv
  <1>6. CASE Refuse(k) /\ refused' = [refused EXCEPT ![k] = @ + 1] /\ UNCHANGED handled
    <2>1. UNCHANGED <<admitted, handled>>
      BY <1>6 DEF Refuse
    <2>2. refused' \in [Keys -> 0 .. MaxRequests]
      BY <1>1, <1>3, <1>6
    <2>3. \A m \in Keys : Len(admitted[m]) + refused'[m] <= MaxRequests
      BY <1>1, <1>3, <1>6 DEF ServerInv, RequestsAccounted
    <2>4. RequestsAccounted'
      BY <1>1, <2>1, <2>3 DEF ServerInv, RequestsAccounted
    <2>5. ServerTypeOK'
      BY <1>1, <1>2, <2>1, <2>2 DEF ServerInv, ServerTypeOK, scheduler
    <2>6. QED
      BY <1>4, <2>4, <2>5 DEF ServerInv
  <1>7. QED
    BY <1>5, <1>6 DEF Request

LEMMA AnswerStep ==
    ASSUME ServerInv, NEW r \in handled, Answer(r)
    PROVE  ServerInv'
  <1>1. /\ UNCHANGED <<limiter, ctxDone, scheduler, main, refused>>
        /\ handled' = handled \ {r} /\ answered' = answered \cup {r} /\ main # "exited"
    BY DEF Answer, Up
  <1>2. TypeOK'
    BY <1>1 DEF ServerInv, ServerTypeOK, TypeOK, limiter
  <1>3. ServerTypeOK'
    BY <1>1, <1>2 DEF ServerInv, ServerTypeOK, scheduler
  <1>4. RequestsAccounted'
    <2>1. handled' \cup answered' = handled \cup answered
      BY <1>1
    <2>2. admitted' = admitted /\ refused' = refused
      BY <1>1 DEF limiter
    <2>3. QED
      BY <2>1, <2>2 DEF ServerInv, RequestsAccounted
  <1>5. OrderOfExit'
    BY <1>1 DEF ServerInv, OrderOfExit, scheduler
  <1>6. QED
    BY <1>3, <1>4, <1>5 DEF ServerInv

LEMMA ShutdownStep ==
    ASSUME ServerInv,
           ListenFails \/ Signal \/ StopScheduler \/ Drain \/ Exit \/ DrainTimesOut
    PROVE  ServerInv'
  <1>1. UNCHANGED <<limiter, scheduler, server>>
    BY DEF ListenFails, Signal, StopScheduler, Drain, Exit, DrainTimesOut
  <1>2. TypeOK' /\ RequestsAccounted'
    BY <1>1 DEF ServerInv, ServerTypeOK, TypeOK, RequestsAccounted, limiter, server
  <1>3. ctxDone' \in BOOLEAN /\ main' \in {"serves", "stops", "drains", "exited", "fatal"}
    BY DEF ServerInv, ServerTypeOK, ListenFails, Signal, StopScheduler, Drain, Exit,
       DrainTimesOut
  <1>4. ServerTypeOK'
    BY <1>1, <1>2, <1>3 DEF ServerInv, ServerTypeOK, scheduler, server
  <1>5. OrderOfExit'
    BY <1>1 DEF ServerInv, OrderOfExit, scheduler, server, Up, ListenFails, Signal,
       StopScheduler, Drain, Exit, DrainTimesOut
  <1>6. QED
    BY <1>2, <1>4, <1>5 DEF ServerInv

LEMMA ClockStep ==
    ASSUME ServerInv, Clock
    PROVE  ServerInv'
  <1>1. UNCHANGED <<admitted, ctxDone, scheduler, main, server>>
    BY DEF Clock, Tick
  <1>2. TypeOK'
    BY TypeKept DEF ServerInv, ServerTypeOK, Clock, Next
  <1>3. QED
    BY <1>1, <1>2 DEF ServerInv, ServerTypeOK, RequestsAccounted, OrderOfExit,
       scheduler, server

LEMMA ServerInductive == ServerInv /\ [ServerNext]_allVars => ServerInv'
  <1>1. SUFFICES ASSUME ServerInv, [ServerNext]_allVars PROVE ServerInv'
    OBVIOUS
  <1>2. CASE UNCHANGED allVars
    <2>1. UNCHANGED <<limiter, ctxDone, scheduler, main, server>>
      BY <1>2 DEF allVars
    <2>2. QED
      BY <1>1, <2>1 DEF ServerInv, ServerTypeOK, TypeOK, RequestsAccounted, OrderOfExit,
         limiter, scheduler, server
  <1>3. CASE ServerNext
    BY <1>1, <1>3, SchedulerStep, RequestStep, AnswerStep, ShutdownStep, ClockStep
       DEF ServerNext
  <1>4. QED
    BY <1>1, <1>2, <1>3

LEMMA ServerAlways == ServerSpec => []ServerInv
  BY StartsInvariant, ServerInductive, PTL DEF ServerSpec

-----------------------------------------------------------------------------
\* Every variable of the server keeps its type.
THEOREM ServerTyped == ServerSpec => []ServerTypeOK
  <1>1. ServerInv => ServerTypeOK
    BY DEF ServerInv
  <1>2. QED
    BY <1>1, ServerAlways, PTL

\* A server that stopped gracefully left no job under way and answered every
\* request that the limiter let through.
THEOREM QuietHolds == ServerSpec => []GracefulExitIsQuiet
  <1>1. ServerInv => GracefulExitIsQuiet
    BY DEF ServerInv, RequestsAccounted, OrderOfExit, GracefulExitIsQuiet
  <1>2. QED
    BY <1>1, ServerAlways, PTL

\* The limiter's promises in the server.
THEOREM ServerLimits ==
    ServerSpec => [](AtMostTwoWindows /\ RetryAfterIsEnough) /\ RefusedOnlyWhenUsedUp
  BY ServerImplementsLimiter, TwoWindowsHold, RetryAfterHolds, RefusedHolds, PTL
=============================================================================
