------------------------------ MODULE Matching ------------------------------
(***************************************************************************)
(* The matching rules (internal/engine/rules.go) and the scorer            *)
(* (internal/engine/scorer.go): pure functions from a gateway transaction  *)
(* and a ledger transaction to the rule that accepts the pair, if any.     *)
(*                                                                         *)
(* Amounts are signed integers of a fixed width, whose least value is      *)
(* MinAmount (-2^63 in the code).  Times are integers; a calendar day has  *)
(* TicksPerDay of them.  Confidences are percentages and the amount        *)
(* tolerance is in thousandths, so that the floating-point comparisons of  *)
(* the code become integer comparisons.                                    *)
(*                                                                         *)
(* Txn[t] is the stored row of transaction t:                              *)
(*   source, amount, currency, occurredAt   the columns of those names     *)
(*   counterparty                           the raw string                 *)
(*   ref       the trimmed, lower-cased external id ("" if blank)          *)
(*   mentions  the refs that occur in the lower-cased description          *)
(***************************************************************************)
EXTENDS Integers, FiniteSets

CONSTANTS
    Txns,              \* the identifiers of transactions
    Txn,               \* [Txns -> transaction rows]
    Normal,            \* [raw counterparty strings -> normalised strings]
    TicksPerDay,       \* units of occurredAt in a calendar day (UTC)
    MinAmount,         \* the least value of the amounts' integer type
    DateTolerance,     \* FUZZY_DATE_TOLERANCE_DAYS; config.go does not bound it
    AmountTolerance,   \* FUZZY_AMOUNT_TOLERANCE, in thousandths
    MinConfidence      \* MIN_CONFIDENCE_THRESHOLD, as a percentage

\* The stored rows the rules read; config.go:98-103 bounds the two tolerances.
ASSUME TxnAssumption ==
    /\ IsFiniteSet(Txns)
    /\ DOMAIN Txn = Txns
    /\ \A t \in Txns :
          /\ Txn[t].amount \in MinAmount .. (-MinAmount - 1)
          /\ Txn[t].occurredAt \in Int
          /\ Txn[t].counterparty \in DOMAIN Normal

ASSUME ToleranceAssumption ==
    /\ TicksPerDay \in Nat \ {0}
    /\ MinAmount \in Int /\ MinAmount < 0
    /\ DateTolerance \in Int
    /\ AmountTolerance \in 0 .. 1000
    /\ MinConfidence \in 0 .. 100

-----------------------------------------------------------------------------
(* Helpers of rules.go.                                                    *)

\* Lower-case and trim: two spellings agree when they normalise alike.
normalizeCounterparty(s) == Normal[s]

\* In two's complement the least amount is its own negation.
absInt64(n) == IF n < 0 /\ n # MinAmount THEN -n ELSE n

Distance(a, b) == IF a < b THEN b - a ELSE a - b

\* A plausible slip: elapsed days instead of calendar days.
dateDiffDaysElapsed(a, b) == Distance(a, b) \div TicksPerDay
dateDiffDays(a, b) == Distance(a \div TicksPerDay, b \div TicksPerDay)

\* Stored currencies passed ValidCurrency, so folding case is equality.
sameCurrency(g, l) == Txn[g].currency = Txn[l].currency

amountsMatch(g, l) == absInt64(Txn[g].amount) = absInt64(Txn[l].amount)

\* The allowance is a share of the gateway's amount, of at least 1 cent.
ToleranceBase(a) == IF a > 1 THEN a ELSE 1

amountsWithinTolerance(g, l) ==
    LET gAbs == absInt64(Txn[g].amount)
        lAbs == absInt64(Txn[l].amount)
    IN  1000 * Distance(gAbs, lAbs) <= AmountTolerance * ToleranceBase(gAbs)

WithinDays(g, l, days) ==
    dateDiffDays(Txn[g].occurredAt, Txn[l].occurredAt) <= days

-----------------------------------------------------------------------------
(* The four rules.                                                         *)

\* Counterparties conflict only when both are given.
CounterpartiesConflict(g, l) ==
    LET gCP == normalizeCounterparty(Txn[g].counterparty)
        lCP == normalizeCounterparty(Txn[l].counterparty)
    IN  gCP # "" /\ lCP # "" /\ gCP # lCP

ExactMatch(g, l) ==
    /\ sameCurrency(g, l)
    /\ amountsMatch(g, l)
    /\ dateDiffDays(Txn[g].occurredAt, Txn[l].occurredAt) = 0
    /\ ~CounterpartiesConflict(g, l)

\* A plausible slip: the date rule forgets the currency.
AmountDateMatchAnyCurrency(g, l) ==
    amountsMatch(g, l) /\ WithinDays(g, l, DateTolerance)

AmountDateMatch(g, l) ==
    /\ sameCurrency(g, l)
    /\ amountsMatch(g, l)
    /\ WithinDays(g, l, DateTolerance)

FuzzyAmountMatch(g, l) ==
    /\ sameCurrency(g, l)
    /\ amountsWithinTolerance(g, l)
    /\ WithinDays(g, l, DateTolerance)

\* A non-blank reference of one side occurs in the description of the other.
MentionedBy(a, b) == Txn[a].ref # "" /\ Txn[a].ref \in Txn[b].mentions

ReferenceMatch(g, l) == MentionedBy(g, l) \/ MentionedBy(l, g)

-----------------------------------------------------------------------------
(* The scorer.                                                             *)

MatchRules == {"exact", "fuzzy_date", "reference", "fuzzy_amount"}

Evaluate(rule, g, l) ==
    CASE rule = "exact"        -> ExactMatch(g, l)
      [] rule = "fuzzy_date"   -> AmountDateMatch(g, l)
      [] rule = "reference"    -> ReferenceMatch(g, l)
      [] rule = "fuzzy_amount" -> FuzzyAmountMatch(g, l)

RuleConfidence == [exact |-> 100, fuzzy_date |-> 90,
                   reference |-> 80, fuzzy_amount |-> 75]

\* A plausible slip: the last rule that fires wins, in buildMatchRules' order.
ScoreLast(g, l) ==
    LET firing == {r \in MatchRules : Evaluate(r, g, l)}
        best == {r \in firing :
                    \A q \in firing : RuleConfidence[q] >= RuleConfidence[r]}
    IN  {r \in best : RuleConfidence[r] >= MinConfidence}

\* The most confident rule that fires, as a set of at most one rule.
Score(g, l) ==
    LET firing == {r \in MatchRules : Evaluate(r, g, l)}
        best == {r \in firing :
                    \A q \in firing : RuleConfidence[q] <= RuleConfidence[r]}
    IN  {r \in best : RuleConfidence[r] >= MinConfidence}

Acceptable(g, l) == Score(g, l) # {}

Confidence(g, l) ==
    LET score == Score(g, l)
    IN  IF score # {} THEN RuleConfidence[CHOOSE r \in score : TRUE] ELSE 0

\* ScoreAll sorts the accepted candidates by descending confidence with an
\* unstable sort and the caller takes the first: any one of the most confident.
BestOfAll(g, candidates) ==
    {l \in candidates :
        /\ Acceptable(g, l)
        /\ \A k \in candidates : Confidence(g, k) <= Confidence(g, l)}
=============================================================================
