---------------------------- MODULE MatchingPairs ----------------------------
(***************************************************************************)
(* What the scorer says of pairs of transactions.  A state is a pair; a    *)
(* step replaces its ledger transaction by one that differs only in its    *)
(* date, so that a step relates the scores of two pairs.                   *)
(***************************************************************************)
EXTENDS Matching

CONSTANT GatewayTxns   \* bound: the gateway transactions of the pairs

ASSUME PairsAssumption == GatewayTxns \subseteq Txns

VARIABLES gateway, ledger

pair == <<gateway, ledger>>

SameButDate(l, m) ==
    /\ sameCurrency(l, m) /\ Txn[l].amount = Txn[m].amount
    /\ Txn[l].source = Txn[m].source /\ Txn[l].counterparty = Txn[m].counterparty
    /\ Txn[l].ref = Txn[m].ref /\ Txn[l].mentions = Txn[m].mentions

Redated == [l \in Txns |-> {m \in Txns : SameButDate(l, m)}]

Init == gateway \in GatewayTxns /\ ledger \in Txns

MoveLedger == ledger' \in Redated[ledger] /\ UNCHANGED gateway

Spec == Init /\ [][MoveLedger]_pair

-----------------------------------------------------------------------------
DayDistance(g, l) ==
    LET d == (Txn[g].occurredAt \div TicksPerDay) - (Txn[l].occurredAt \div TicksPerDay)
    IN  IF d < 0 THEN -d ELSE d

\* README.md's table of passes, in its order: the scorer settles on the rule
\* of the first pass that accepts the pair, though it evaluates them all.
Passes == <<"exact", "fuzzy_date", "reference", "fuzzy_amount">>
FirstPassWins ==
    LET firing == {i \in 1 .. 4 : Evaluate(Passes[i], gateway, ledger)}
        first == {Passes[i] : i \in {j \in firing : \A k \in firing : j <= k}}
    IN  Score(gateway, ledger) =
            {r \in first : RuleConfidence[r] >= MinConfidence}

\* The amount rules are ordered by strictness, as their confidences are: what
\* the exact rule accepts the date rule accepts, and the amount rule after it.
RulesNest ==
    DateTolerance >= 0 =>
        /\ ExactMatch(gateway, ledger) => AmountDateMatch(gateway, ledger)
        /\ AmountDateMatch(gateway, ledger) => FuzzyAmountMatch(gateway, ledger)

\* Bringing a ledger row no further away in calendar days, and changing
\* nothing else, never lowers the confidence of the pair.
CloserDateNeverScoresLower ==
    [][DayDistance(gateway, ledger') <= DayDistance(gateway, ledger)
       => Confidence(gateway, ledger') >= Confidence(gateway, ledger)]_pair
=============================================================================
