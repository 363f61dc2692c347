------------------------------- MODULE PayPal -------------------------------
(***************************************************************************)
(* Fetches of the PayPal adapter (internal/adapter/paypal.go): concurrent  *)
(* calls of FetchTransactions that share one cached token and its mutex.   *)
(*                                                                         *)
(* One step is one critical section of the mutex or one HTTP call with the *)
(* local computation up to the next.  authenticate holds the mutex while   *)
(* its HTTP call is under way.  Tokens are numbered as PayPal issues them  *)
(* and 0 is the empty one; lapsed are those PayPal no longer takes, while  *)
(* expired is the adapter's own reckoning.  Sleeping between attempts      *)
(* changes nothing.                                                        *)
(***************************************************************************)
EXTENDS Integers, FiniteSets

CONSTANTS
    Fetches,
    From, To,      \* [Fetches -> the ends of the period asked for, in days]
    Txns, At,      \* PayPal's transactions and their instants
    MaxDays,       \* the length of a window, 31
    PageSize,      \* 500
    MaxRetries,    \* 5
    NoFetch,
    MaxLapses,     \* bound on tokens that PayPal stops taking
    MaxFaults      \* bound on failed HTTP calls

\* What the instances assume of the constants.
PayPalAssumption ==
    /\ NoFetch \notin Fetches
    /\ From \in [Fetches -> Int] /\ To \in [Fetches -> Int]
    /\ \A f \in Fetches : From[f] <= To[f]
    /\ At \in [Txns -> Int] /\ IsFiniteSet(Txns)
    /\ \A t, u \in Txns : At[t] = At[u] => t = u
    /\ MaxDays \in Nat \ {0} /\ PageSize \in Nat \ {0}
    /\ MaxRetries \in Nat \ {0} /\ MaxLapses \in Nat /\ MaxFaults \in Nat

VARIABLES
    accessToken, expired, mu,     \* the adapter: token, its reckoning, mutex
    issued, lapsed,               \* PayPal
    pc, window, page, attempt, refreshed, header, got,    \* of each fetch
    disturbed,     \* history: refreshed fetches whose token others took away
    faults

vars == <<accessToken, expired, mu, issued, lapsed, pc, window, page, attempt,
          refreshed, header, got, disturbed, faults>>
token == <<accessToken, expired, issued, lapsed>>
place == <<window, page, got>>

-----------------------------------------------------------------------------
(* splitDateRange and PayPal's answer to a page of a window.               *)

Windows(f) == (To[f] - From[f] + MaxDays - 1) \div MaxDays
Start(f, w) == From[f] + (w - 1) * MaxDays
End(f, w) == IF Start(f, w) + MaxDays > To[f] THEN To[f] ELSE Start(f, w) + MaxDays

Listed(f, w) == {t \in Txns : At[t] \in Start(f, w) .. End(f, w)}
Details(f, w, p) ==
    LET all == Listed(f, w)
        rank(t) == Cardinality({u \in all : At[u] < At[t]})
    IN {t \in all : rank(t) \div PageSize = p - 1}
TotalPages(f, w) == (Cardinality(Listed(f, w)) + PageSize - 1) \div PageSize

-----------------------------------------------------------------------------
Goto(f, l) == pc' = [pc EXCEPT ![f] = l]
Fail(f) == /\ Goto(f, "failed")
           /\ UNCHANGED <<place, attempt, refreshed>>
Fault == faults < MaxFaults /\ faults' = faults + 1

\* continue in fetchPage's loop, which ends after maxRetries more attempts.
Continue(f) ==
    IF attempt[f] < MaxRetries
    THEN /\ Goto(f, "send")
         /\ attempt' = [attempt EXCEPT ![f] = @ + 1]
         /\ UNCHANGED <<place, refreshed>>
    ELSE Fail(f)

\* A plausible slip: the page is not set back with a new window.
ReadPageOn(f, w, p) ==
    /\ Goto(f, "send")
    /\ window' = [window EXCEPT ![f] = w] /\ page' = [page EXCEPT ![f] = @ + 1]
    /\ attempt' = [attempt EXCEPT ![f] = 0]
    /\ refreshed' = [refreshed EXCEPT ![f] = FALSE]

ReadPage(f, w, p) ==
    /\ Goto(f, "send")
    /\ window' = [window EXCEPT ![f] = w] /\ page' = [page EXCEPT ![f] = p]
    /\ attempt' = [attempt EXCEPT ![f] = 0]
    /\ refreshed' = [refreshed EXCEPT ![f] = FALSE]

NextWindow(f) ==
    IF window[f] < Windows(f)
    THEN ReadPage(f, window[f] + 1, 1)
    ELSE Goto(f, "done") /\ UNCHANGED <<window, page, attempt, refreshed>>

\* authenticate has returned nil: to FetchTransactions or to fetchPage.
Authenticated(f) ==
    IF window[f] = 0 THEN NextWindow(f) /\ UNCHANGED got ELSE Continue(f)

-----------------------------------------------------------------------------
UseCached(f) ==
    /\ pc[f] = "authenticate" /\ mu = NoFetch
    /\ accessToken # 0 /\ ~expired
    /\ Authenticated(f)
    /\ UNCHANGED <<token, mu, header, disturbed, faults>>

\* A plausible slip: the token is looked at before the mutex is taken.
RequestTokenUnlocked(f) ==
    /\ pc[f] = "authenticate"
    /\ accessToken = 0 \/ expired
    /\ mu' = f /\ Goto(f, "exchange")
    /\ UNCHANGED <<token, place, attempt, refreshed, header, disturbed, faults>>

RequestToken(f) ==
    /\ pc[f] = "authenticate" /\ mu = NoFetch
    /\ accessToken = 0 \/ expired
    /\ mu' = f /\ Goto(f, "exchange")
    /\ UNCHANGED <<token, place, attempt, refreshed, header, disturbed, faults>>

TokenIssued(f) ==
    /\ pc[f] = "exchange"
    /\ issued' = issued + 1 /\ accessToken' = issued + 1 /\ expired' = FALSE
    /\ mu' = NoFetch
    /\ Authenticated(f)
    /\ UNCHANGED <<lapsed, header, disturbed, faults>>

\* A plausible slip: no deferred Unlock on the way out.
ExchangeFailsLocked(f) ==
    /\ pc[f] = "exchange" /\ Fault
    /\ Fail(f)
    /\ UNCHANGED <<token, mu, header, disturbed>>

ExchangeFails(f) ==
    /\ pc[f] = "exchange" /\ Fault
    /\ mu' = NoFetch
    /\ Fail(f)
    /\ UNCHANGED <<token, header, disturbed>>

Send(f) ==
    /\ pc[f] = "send" /\ mu = NoFetch
    /\ header' = [header EXCEPT ![f] = accessToken]
    /\ Goto(f, "await")
    /\ UNCHANGED <<token, mu, place, attempt, refreshed, disturbed, faults>>

Accepted(f) == header[f] \in 1 .. issued \ lapsed

PageArrives(f) ==
    /\ pc[f] = "await" /\ Accepted(f)
    /\ LET details == Details(f, window[f], page[f])
       IN got' = [got EXCEPT ![f] = [t \in Txns |->
                     @[t] + IF t \in details THEN 1 ELSE 0]]
    /\ IF page[f] < TotalPages(f, window[f])
       THEN ReadPage(f, window[f], page[f] + 1)
       ELSE NextWindow(f)
    /\ disturbed' = disturbed \ {f}
    /\ UNCHANGED <<token, mu, header, faults>>

Unauthorized(f) ==
    /\ pc[f] = "await" /\ ~Accepted(f)
    /\ IF refreshed[f]
       THEN Fail(f)
       ELSE /\ refreshed' = [refreshed EXCEPT ![f] = TRUE]
            /\ Goto(f, "clear")
            /\ UNCHANGED <<place, attempt>>
    /\ UNCHANGED <<token, mu, header, disturbed, faults>>

\* 429, a server's error or a network's: again, while attempts are left.
Transient(f) ==
    /\ pc[f] = "await" /\ Fault
    /\ Continue(f)
    /\ UNCHANGED <<token, mu, header, disturbed>>

\* Any other status, or an answer that cannot be read.
Refused(f) ==
    /\ pc[f] = "await" /\ Fault
    /\ Fail(f)
    /\ UNCHANGED <<token, mu, header, disturbed>>

\* A plausible slip: the refused token stays in the cache.
ClearNothing(f) ==
    /\ pc[f] = "clear" /\ mu = NoFetch
    /\ Goto(f, "authenticate")
    /\ UNCHANGED <<token, mu, place, attempt, refreshed, header, disturbed, faults>>

ClearToken(f) ==
    /\ pc[f] = "clear" /\ mu = NoFetch
    /\ accessToken' = 0 /\ expired' = TRUE
    /\ disturbed' = disturbed \cup {g \in Fetches \ {f} : refreshed[g]}
    /\ Goto(f, "authenticate")
    /\ UNCHANGED <<mu, issued, lapsed, place, attempt, refreshed, header, faults>>

\* The adapter's clock reaches tokenExpiry.
Expire ==
    /\ accessToken # 0 /\ ~expired /\ expired' = TRUE
    /\ UNCHANGED <<accessToken, mu, issued, lapsed, pc, place, attempt, refreshed,
                   header, disturbed, faults>>

\* PayPal takes a token no more.
Lapse ==
    /\ Cardinality(lapsed) < MaxLapses
    /\ \E k \in 1 .. issued \ lapsed : lapsed' = lapsed \cup {k}
    /\ disturbed' = disturbed \cup {g \in Fetches : refreshed[g]}
    /\ UNCHANGED <<accessToken, expired, mu, issued, pc, place, attempt, refreshed,
                   header, faults>>

-----------------------------------------------------------------------------
Init ==
    /\ accessToken = 0 /\ expired = TRUE /\ mu = NoFetch
    /\ issued = 0 /\ lapsed = {}
    /\ pc = [f \in Fetches |-> "authenticate"]
    /\ window = [f \in Fetches |-> 0] /\ page = [f \in Fetches |-> 0]
    /\ attempt = [f \in Fetches |-> 0] /\ refreshed = [f \in Fetches |-> FALSE]
    /\ header = [f \in Fetches |-> 0]
    /\ got = [f \in Fetches |-> [t \in Txns |-> 0]]
    /\ disturbed = {} /\ faults = 0

Body(f) ==
    \/ UseCached(f) \/ RequestToken(f) \/ TokenIssued(f) \/ ExchangeFails(f)
    \/ Send(f) \/ PageArrives(f) \/ Unauthorized(f) \/ ClearToken(f)
    \/ Transient(f) \/ Refused(f)

Next == Expire \/ Lapse \/ \E f \in Fetches : Body(f)

Spec == Init /\ [][Next]_vars

-----------------------------------------------------------------------------
\* Every variable keeps its type; a fetch at its exchange holds the mutex, so
\* there is never more than one.
TypeOK ==
    /\ accessToken \in 0 .. issued /\ issued \in Nat /\ lapsed \subseteq 1 .. issued
    /\ expired \in BOOLEAN /\ mu \in Fetches \cup {NoFetch}
    /\ pc \in [Fetches -> {"authenticate", "exchange", "send", "await", "clear",
                           "done", "failed"}]
    /\ window \in [Fetches -> Nat] /\ page \in [Fetches -> Nat]
    /\ attempt \in [Fetches -> 0 .. MaxRetries] /\ refreshed \in [Fetches -> BOOLEAN]
    /\ header \in [Fetches -> 0 .. issued] /\ got \in [Fetches -> [Txns -> Nat]]
    /\ disturbed \subseteq Fetches /\ faults \in 0 .. MaxFaults
    /\ \A f \in Fetches : pc[f] = "exchange" <=> mu = f

\* A fetch that succeeds returns every transaction of its period and no other,
\* whatever refreshes and retries came between; one at the boundary of two
\* windows is returned twice, any other once.  (FetchTransactions, fetchWindow
\* and splitDateRange.)
FetchIsExact ==
    \A f \in Fetches : pc[f] = "done" =>
        \A t \in Txns :
            LET inside == From[f] < To[f] /\ At[t] \in From[f] .. To[f]
                shared == /\ From[f] < At[t] /\ At[t] < To[f]
                          /\ (At[t] - From[f]) % MaxDays = 0
            IN got[f][t] = IF ~inside THEN 0 ELSE IF shared THEN 2 ELSE 1

\* While no call fails, a fetch fails only when the token it had refreshed was
\* taken from it: cleared by another fetch or refused by PayPal in its turn.
\* (fetchPage: one refresh is enough for a fetch alone.)
FailureHasCause ==
    \A f \in Fetches : pc[f] = "failed" => faults > 0 \/ f \in disturbed

\* A token is asked for only when the cache holds no valid one: fetches that
\* wait for the mutex use what the first of them obtained.  (authenticate.)
OneExchangePerNeed ==
    [][issued' # issued => accessToken = 0 \/ expired]_vars

\* An expired token is survived: the comment in fetchPage says "Token expired -
\* refresh once and retry", so a single token that lapses, while no call fails,
\* fails no fetch.
SurvivesExpiry ==
    faults = 0 /\ Cardinality(lapsed) = 1 => \A f \in Fetches : pc[f] # "failed"
=============================================================================
