----------------------------- MODULE RateLimiter -----------------------------
(***************************************************************************)
(* rateLimiterWithClock (internal/api/middleware.go): a bucket of tokens   *)
(* for every remote address, under one mutex, so that a request is decided *)
(* in one step.  Time is counted in ticks, of which a second and a minute  *)
(* have some number.                                                       *)
(***************************************************************************)
EXTENDS Integers, Sequences

CONSTANTS
    Keys,          \* remote addresses
    maxPerMinute,
    Second, Minute,
    MaxTime        \* bound on the clock

ASSUME RateAssumption ==
    /\ maxPerMinute \in Nat \ {0}
    /\ Second \in Nat \ {0} /\ Minute \in Nat \ {0} /\ MaxTime \in Nat

VARIABLES
    now,
    tokens, lastReset,   \* of the bucket of each key
    admitted,            \* history: [Keys -> when requests were let through]
    promised             \* history: [Keys -> the last refusal's Retry-After]

vars == <<now, tokens, lastReset, admitted, promised>>

-----------------------------------------------------------------------------
\* A key with no bucket yet is one whose bucket is full and whose minute has
\* elapsed.
Never == -Minute
NoPromise == [due |-> Never, lastReset |-> Never]

elapsed(k) == now - lastReset[k]

\* A plausible slip: the boundary excluded.
RefillDueLate(k) == elapsed(k) > Minute
RefillDue(k) == elapsed(k) >= Minute

\* A plausible slip: the window is never moved on.
WindowKept(k) == IF lastReset[k] = Never THEN now ELSE lastReset[k]
Window(k) == IF RefillDue(k) THEN now ELSE lastReset[k]
Left(k) == IF RefillDue(k) THEN maxPerMinute ELSE tokens[k]

\* A plausible slip: the last token is lent twice.
SpentBelow(k) == Left(k) < 0
Spent(k) == Left(k) <= 0

\* A plausible slip: seconds rounded down.
RetryAfterDown(k) == (Minute - elapsed(k)) \div Second
RetryAfter(k) == (Minute - elapsed(k)) \div Second + 1

Admit(k) ==
    /\ ~Spent(k)
    /\ tokens' = [tokens EXCEPT ![k] = Left(k) - 1]
    /\ lastReset' = [lastReset EXCEPT ![k] = Window(k)]
    /\ admitted' = [admitted EXCEPT ![k] = Append(@, now)]
    /\ UNCHANGED <<now, promised>>

Refuse(k) ==
    /\ Spent(k)
    /\ promised' = [promised EXCEPT ![k] =
          [due |-> now + RetryAfter(k) * Second, lastReset |-> lastReset[k]]]
    /\ UNCHANGED <<now, tokens, lastReset, admitted>>

Tick ==
    /\ now < MaxTime /\ now' = now + 1
    /\ UNCHANGED <<tokens, lastReset, admitted, promised>>

-----------------------------------------------------------------------------
Init ==
    /\ now = 0
    /\ tokens = [k \in Keys |-> maxPerMinute] /\ lastReset = [k \in Keys |-> Never]
    /\ admitted = [k \in Keys |-> <<>>]
    /\ promised = [k \in Keys |-> NoPromise]

Next == Tick \/ \E k \in Keys : Admit(k) \/ Refuse(k)

Spec == Init /\ [][Next]_vars

-----------------------------------------------------------------------------
\* Every variable keeps its type.
TypeOK ==
    /\ now \in 0 .. MaxTime
    /\ tokens \in [Keys -> 0 .. maxPerMinute]
    /\ lastReset \in [Keys -> {Never} \cup (0 .. now)]
    /\ admitted \in [Keys -> Seq(0 .. now)]
    /\ promised \in [Keys -> [due : Int, lastReset : {Never} \cup (0 .. now)]]

\* No minute sees more than twice the limit from one address: a window may be
\* used up at its end and the next one at its start, and never three.
AtMostTwoWindows ==
    \A k \in Keys : \A i, j \in DOMAIN admitted[k] :
        j = i + 2 * maxPerMinute => admitted[k][j] - admitted[k][i] > Minute

\* Who waits as long as Retry-After says finds the window over: the seconds are
\* rounded up, so that no second refusal follows unless others of the same
\* address came first and opened a new window.
RetryAfterIsEnough ==
    \A k \in Keys :
        promised[k] # NoPromise /\ now >= promised[k].due
            => RefillDue(k) \/ lastReset[k] # promised[k].lastReset

\* A request is refused only when the whole limit was let through from its
\* address in less than a minute.
RefusedOnlyWhenUsedUp ==
    [][\A k \in Keys : promised'[k] # promised[k] =>
          /\ Len(admitted[k]) >= maxPerMinute
          /\ now - admitted[k][Len(admitted[k]) - maxPerMinute + 1] < Minute]_vars
=============================================================================
