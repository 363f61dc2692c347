------------------------------ MODULE Adapters ------------------------------
(***************************************************************************)
(* The three source adapters that runServe builds (cmd/recon/main.go).     *)
(* They share nothing: the initial state says which of them is called, and *)
(* the others rest.                                                        *)
(***************************************************************************)
EXTENDS Integers, Sequences, FiniteSets

CONSTANTS
    Fetches, From, To, Txns, At, MaxDays, NoFetch, MaxLapses,   \* of PayPal
    Period, MaxNewest,                                          \* of Stripe
    MaxLines,                                                   \* of BankFile
    PayPalPage, StripePage,    \* the sizes of a page
    MaxRetries, MaxFaults      \* of PayPal and of Stripe

VARIABLES
    adapter,       \* the adapter in use
    accessToken, expired, mu, issued, lapsed, pc, window, page, attempt,
    refreshed, header, got, disturbed, faults,
    newest, stripePC, cursor, stripeAttempt, pages, had, stripeFaults,
    format, file, currency, field86Lines, pendingTx, transactions,
    blockWarnings, allTxns, warnings, result

PayPal == INSTANCE PayPal WITH PageSize <- PayPalPage
Stripe == INSTANCE Stripe WITH
    pc <- stripePC, attempt <- stripeAttempt, faults <- stripeFaults,
    PageSize <- StripePage
BankFile == INSTANCE BankFile

ASSUME AdaptersAssumption ==
    PayPal!PayPalAssumption /\ Stripe!StripeAssumption /\ BankFile!LinesAssumption

paypalVars == <<accessToken, expired, mu, issued, lapsed, pc, window, page,
                attempt, refreshed, header, got, disturbed, faults>>
stripeVars == <<newest, stripePC, cursor, stripeAttempt, pages, had, stripeFaults>>
bankVars == <<format, file, currency, field86Lines, pendingTx, transactions,
              blockWarnings, allTxns, warnings, result>>
vars == <<adapter, paypalVars, stripeVars, bankVars>>

-----------------------------------------------------------------------------
PayPalStep(f) ==
    adapter = "paypal" /\ PayPal!Body(f) /\ UNCHANGED <<adapter, stripeVars, bankVars>>
Tokens ==
    /\ adapter = "paypal" /\ (PayPal!Expire \/ PayPal!Lapse)
    /\ UNCHANGED <<adapter, stripeVars, bankVars>>
StripeStep ==
    adapter = "stripe" /\ Stripe!Body /\ UNCHANGED <<adapter, paypalVars, bankVars>>
Arrivals ==
    adapter = "stripe" /\ Stripe!Arrive /\ UNCHANGED <<adapter, paypalVars, bankVars>>
BankStep ==
    adapter = "bankfile" /\ BankFile!Next /\ UNCHANGED <<adapter, paypalVars, stripeVars>>

\* An adapter at rest has one state.
Init ==
    /\ adapter \in {"paypal", "stripe", "bankfile"}
    /\ PayPal!Init
    /\ Stripe!Init /\ (adapter # "stripe" => newest = 0)
    /\ BankFile!Init /\ (adapter # "bankfile" => format = "mt940")

Next ==
    \/ \E f \in Fetches : PayPalStep(f)
    \/ Tokens \/ StripeStep \/ Arrivals \/ BankStep

Spec == Init /\ [][Next]_vars

\* HTTP calls return, and a goroutine that is not blocked runs.  A fetch that
\* waits for the mutex gets it once it stays free.
FairSpec ==
    /\ Spec
    /\ \A f \in Fetches : WF_vars(PayPalStep(f))
    /\ WF_vars(StripeStep)

-----------------------------------------------------------------------------
\* PayPal: every variable keeps its type, and one fetch at most is at an
\* exchange of the token.
TypeOK == PayPal!TypeOK

\* PayPal: a fetch that succeeds returns its period exactly.
FetchIsExact == PayPal!FetchIsExact

\* PayPal: without failing calls, only a token taken away fails a fetch.
FailureHasCause == PayPal!FailureHasCause

\* PayPal: a token is asked for only when the cache has no valid one.
OneExchangePerNeed == PayPal!OneExchangePerNeed

\* Stripe: a fetch that succeeds is the list as it stood at one moment.
FetchIsSnapshot == Stripe!FetchIsSnapshot

\* Bank files: every entry read is returned or warned of.
EntriesAccounted == BankFile!EntriesAccounted

\* Bank files: details stay with their entry.
DetailsAreOwn == BankFile!DetailsAreOwn

\* A fetch ends, whatever the answers it gets and whoever else refreshes the
\* token: no way out of authenticate keeps the mutex, no loop turns for ever.
FetchesEnd ==
    <>(/\ adapter = "paypal" => \A f \in Fetches : pc[f] \in {"done", "failed"}
       /\ adapter = "stripe" => stripePC \in {"done", "failed"})

\* PayPal: one token that lapses fails no fetch (the comment in fetchPage).
SurvivesExpiry == PayPal!SurvivesExpiry
=============================================================================
