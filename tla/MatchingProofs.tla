--------------------------- MODULE MatchingProofs ---------------------------
(***************************************************************************)
(* What the scorer says of a pair, for all rows, tolerances and            *)
(* thresholds: it follows the passes of README.md, the amount rules nest,  *)
(* and a closer date never scores lower.                                   *)
(***************************************************************************)
EXTENDS MatchingPairs, TLAPS

-----------------------------------------------------------------------------
(* Confidences and passes run in opposite orders.                          *)

LEMMA PassesAreRules ==
    /\ \A i \in 1 .. 4 : Passes[i] \in MatchRules
    /\ \A r \in MatchRules : \E i \in 1 .. 4 : r = Passes[i]
    /\ \A i, j \in 1 .. 4 :
          RuleConfidence[Passes[j]] <= RuleConfidence[Passes[i]] <=> i <= j
    /\ \A i, j \in 1 .. 4 : Passes[i] = Passes[j] => i = j
<1>1. /\ Passes[1] = "exact" /\ Passes[2] = "fuzzy_date"
      /\ Passes[3] = "reference" /\ Passes[4] = "fuzzy_amount"
  BY DEF Passes
<1>2. /\ RuleConfidence["exact"] = 100 /\ RuleConfidence["fuzzy_date"] = 90
      /\ RuleConfidence["reference"] = 80 /\ RuleConfidence["fuzzy_amount"] = 75
  BY DEF RuleConfidence
<1>3. \A i \in 1 .. 4 : i \in {1, 2, 3, 4}
  OBVIOUS
<1>4. MatchRules = {Passes[1], Passes[2], Passes[3], Passes[4]}
  BY <1>1 DEF MatchRules
<1>5. /\ \A i \in 1 .. 4 : Passes[i] \in MatchRules
      /\ \A r \in MatchRules : \E i \in 1 .. 4 : r = Passes[i]
  BY <1>3, <1>4
<1>6. \A i, j \in 1 .. 4 :
         RuleConfidence[Passes[j]] <= RuleConfidence[Passes[i]] <=> i <= j
  BY <1>1, <1>2, <1>3
<1>7. \A i, j \in 1 .. 4 : Passes[i] = Passes[j] => i = j
  BY <1>6
<1>8. QED
  BY <1>5, <1>6, <1>7

LEMMA RuleConfidenceIsInt ==
    ASSUME NEW r \in MatchRules
    PROVE  RuleConfidence[r] \in Int
  BY DEF MatchRules, RuleConfidence

\* All rules of a score have the same confidence, which is the pair's.
LEMMA ScoreConfidence ==
    ASSUME NEW g, NEW l, NEW r \in Score(g, l)
    PROVE  Confidence(g, l) = RuleConfidence[r]
<1> DEFINE q == CHOOSE x \in Score(g, l) : TRUE
<1>1. q \in Score(g, l) /\ Confidence(g, l) = RuleConfidence[q]
  BY DEF Confidence
<1>2. /\ q \in MatchRules /\ r \in MatchRules
      /\ RuleConfidence[q] <= RuleConfidence[r] /\ RuleConfidence[r] <= RuleConfidence[q]
  BY <1>1 DEF Score
<1>3. QED
  BY <1>1, <1>2, RuleConfidenceIsInt

\* A rule that fires and is confident enough is outdone by the score, if at all.
LEMMA ScoreReaches ==
    ASSUME NEW g, NEW l, NEW r \in MatchRules, Evaluate(r, g, l),
           RuleConfidence[r] >= MinConfidence
    PROVE  Score(g, l) # {} /\ Confidence(g, l) >= RuleConfidence[r]
<1> DEFINE Fires(i) == Evaluate(Passes[i], g, l)
<1>1. PICK m \in 1 .. 4 : Fires(m) /\ \A k \in 1 .. 4 : Fires(k) => m <= k
  <2>1. PICK i \in 1 .. 4 : Fires(i)
    BY PassesAreRules
  <2> HIDE DEF Fires
  <2>2. CASE Fires(1)
    BY <2>2
  <2>3. CASE ~Fires(1) /\ Fires(2)
    BY <2>3
  <2>4. CASE ~Fires(1) /\ ~Fires(2) /\ Fires(3)
    BY <2>4
  <2>5. CASE ~Fires(1) /\ ~Fires(2) /\ ~Fires(3)
    BY <2>1, <2>5
  <2>6. QED
    BY <2>2, <2>3, <2>4, <2>5
<1>2. /\ Passes[m] \in MatchRules /\ Evaluate(Passes[m], g, l)
      /\ \A q \in MatchRules :
            Evaluate(q, g, l) => RuleConfidence[q] <= RuleConfidence[Passes[m]]
  BY <1>1, PassesAreRules
<1>3. RuleConfidence[Passes[m]] >= MinConfidence
  BY <1>2, RuleConfidenceIsInt, ToleranceAssumption
<1>4. Passes[m] \in Score(g, l)
  BY <1>2, <1>3 DEF Score
<1>5. QED
  BY <1>2, <1>4, ScoreConfidence, RuleConfidenceIsInt

\* The most confident rule that fires is that of the first pass that does.
LEMMA ScoreIsFirstPass == FirstPassWins
<1> DEFINE firing == {i \in 1 .. 4 : Evaluate(Passes[i], gateway, ledger)}
           first == {Passes[i] : i \in {j \in firing : \A k \in firing : j <= k}}
           fire == {r \in MatchRules : Evaluate(r, gateway, ledger)}
           best == {r \in fire : \A q \in fire : RuleConfidence[q] <= RuleConfidence[r]}
<1>1. ASSUME NEW i \in 1 .. 4
      PROVE  Passes[i] \in best <=> Passes[i] \in first
  <2>1. Passes[i] \in fire <=> i \in firing
    BY PassesAreRules
  <2>2. ASSUME Passes[i] \in best
        PROVE  Passes[i] \in first
    <3>1. \A k \in firing : i <= k
      BY <2>2, PassesAreRules
    <3>2. QED
      BY <2>1, <2>2, <3>1
  <2>3. ASSUME Passes[i] \in first
        PROVE  Passes[i] \in best
    <3>1. PICK j \in firing : Passes[i] = Passes[j] /\ \A k \in firing : j <= k
      BY <2>3
    <3>2. j \in 1 .. 4
      OBVIOUS
    <3>3. i = j
      BY <3>1, <3>2, PassesAreRules
    <3>4. ASSUME NEW q \in fire
          PROVE  RuleConfidence[q] <= RuleConfidence[Passes[i]]
      <4>1. PICK k \in firing : q = Passes[k]
        BY PassesAreRules
      <4>2. QED
        BY <3>1, <3>3, <4>1, PassesAreRules
    <3>5. QED
      BY <2>1, <3>3, <3>4
  <2>4. QED
    BY <2>2, <2>3
<1>2. \A r \in best : \E i \in 1 .. 4 : r = Passes[i]
  BY PassesAreRules
<1>3. \A r \in first : \E i \in 1 .. 4 : r = Passes[i]
  OBVIOUS
<1> HIDE DEF best, first
<1>4. best = first
  BY <1>1, <1>2, <1>3
<1>5. QED
  BY <1>4 DEF FirstPassWins, Score, best, first

-----------------------------------------------------------------------------
(* Days and amounts.                                                       *)

LEMMA DayDistanceIs ==
    ASSUME NEW g \in Txns, NEW l \in Txns
    PROVE  /\ dateDiffDays(Txn[g].occurredAt, Txn[l].occurredAt) = DayDistance(g, l)
           /\ DayDistance(g, l) \in Nat
<1> DEFINE a == Txn[g].occurredAt \div TicksPerDay
           b == Txn[l].occurredAt \div TicksPerDay
<1>1. a \in Int /\ b \in Int
  BY TxnAssumption, ToleranceAssumption
<1>2. /\ dateDiffDays(Txn[g].occurredAt, Txn[l].occurredAt) = Distance(a, b)
      /\ DayDistance(g, l) = IF a - b < 0 THEN -(a - b) ELSE a - b
  BY DEF dateDiffDays, DayDistance
<1> HIDE DEF a, b
<1>3. QED
  BY <1>1, <1>2 DEF Distance

LEMMA AbsIsInt ==
    ASSUME NEW t \in Txns
    PROVE  absInt64(Txn[t].amount) \in Int
  BY TxnAssumption, ToleranceAssumption DEF absInt64

LEMMA RulesAreNested ==
    ASSUME NEW g \in Txns, NEW l \in Txns, DateTolerance >= 0
    PROVE  /\ ExactMatch(g, l) => AmountDateMatch(g, l)
           /\ AmountDateMatch(g, l) => FuzzyAmountMatch(g, l)
<1>1. ExactMatch(g, l) => AmountDateMatch(g, l)
  BY ToleranceAssumption DEF ExactMatch, AmountDateMatch, WithinDays
<1>2. ASSUME amountsMatch(g, l)
      PROVE  amountsWithinTolerance(g, l)
  <2> DEFINE x == absInt64(Txn[g].amount)
             y == absInt64(Txn[l].amount)
  <2>1. x \in Int /\ y \in Int /\ x = y
    BY <1>2, AbsIsInt DEF amountsMatch
  <2>2. amountsWithinTolerance(g, l)
           <=> 1000 * Distance(x, y) <= AmountTolerance * ToleranceBase(x)
    BY DEF amountsWithinTolerance
  <2> HIDE DEF x, y
  <2>3. Distance(x, y) = 0
    BY <2>1 DEF Distance
  <2>4. ToleranceBase(x) \in Nat /\ AmountTolerance \in Nat
    BY <2>1, ToleranceAssumption DEF ToleranceBase
  <2>5. AmountTolerance * ToleranceBase(x) >= 0
    BY <2>4
  <2>6. QED
    BY <2>2, <2>3, <2>5
<1>3. QED
  BY <1>1, <1>2 DEF AmountDateMatch, FuzzyAmountMatch

\* Whichever rule fires on a pair fires on it when the date is closer.
LEMMA CloserFires ==
    ASSUME NEW g \in Txns, NEW l \in Txns, NEW m \in Txns, SameButDate(l, m),
           DayDistance(g, m) <= DayDistance(g, l), NEW r \in MatchRules, Evaluate(r, g, l)
    PROVE  Evaluate(r, g, m)
<1>1. /\ Txn[l].currency = Txn[m].currency /\ Txn[l].amount = Txn[m].amount
      /\ Txn[l].counterparty = Txn[m].counterparty
      /\ Txn[l].ref = Txn[m].ref /\ Txn[l].mentions = Txn[m].mentions
  BY DEF SameButDate, sameCurrency
<1>2. \A days \in Int : WithinDays(g, l, days) => WithinDays(g, m, days)
  BY DayDistanceIs DEF WithinDays
<1>3. /\ sameCurrency(g, l) <=> sameCurrency(g, m)
      /\ amountsMatch(g, l) <=> amountsMatch(g, m)
      /\ amountsWithinTolerance(g, l) <=> amountsWithinTolerance(g, m)
      /\ CounterpartiesConflict(g, l) <=> CounterpartiesConflict(g, m)
      /\ ReferenceMatch(g, l) <=> ReferenceMatch(g, m)
  BY <1>1 DEF sameCurrency, amountsMatch, amountsWithinTolerance, CounterpartiesConflict,
     normalizeCounterparty, ReferenceMatch, MentionedBy
<1>4. ExactMatch(g, l) => ExactMatch(g, m)
  BY <1>3, DayDistanceIs DEF ExactMatch
<1>5. AmountDateMatch(g, l) => AmountDateMatch(g, m)
  BY <1>2, <1>3, ToleranceAssumption DEF AmountDateMatch
<1>6. FuzzyAmountMatch(g, l) => FuzzyAmountMatch(g, m)
  BY <1>2, <1>3, ToleranceAssumption DEF FuzzyAmountMatch
<1>7. CASE r = "exact"
  BY <1>4, <1>7 DEF Evaluate
<1>8. CASE r = "fuzzy_date"
  BY <1>5, <1>8 DEF Evaluate
<1>9. CASE r = "reference"
  BY <1>3, <1>9 DEF Evaluate
<1>10. CASE r = "fuzzy_amount"
  BY <1>6, <1>10 DEF Evaluate
<1>11. QED
  BY <1>7, <1>8, <1>9, <1>10 DEF MatchRules

LEMMA CloserScores ==
    ASSUME NEW g \in Txns, NEW l \in Txns, NEW m \in Txns, SameButDate(l, m),
           DayDistance(g, m) <= DayDistance(g, l)
    PROVE  Confidence(g, m) >= Confidence(g, l)
<1>1. CASE Score(g, l) = {}
  <2>1. Confidence(g, l) = 0
    BY <1>1 DEF Confidence
  <2>2. CASE Score(g, m) = {}
    BY <2>1, <2>2 DEF Confidence
  <2>3. CASE Score(g, m) # {}
    <3>1. PICK r \in Score(g, m) : TRUE
      BY <2>3
    <3>2. r \in MatchRules /\ RuleConfidence[r] >= MinConfidence
      BY <3>1 DEF Score
    <3>3. QED
      BY <2>1, <3>1, <3>2, ScoreConfidence, RuleConfidenceIsInt, ToleranceAssumption
  <2>4. QED
    BY <2>2, <2>3
<1>2. CASE Score(g, l) # {}
  <2>1. PICK r \in Score(g, l) : TRUE
    BY <1>2
  <2>2. r \in MatchRules /\ RuleConfidence[r] >= MinConfidence /\ Evaluate(r, g, l)
    BY <2>1 DEF Score
  <2>3. Confidence(g, m) >= RuleConfidence[r]
    BY <2>2, CloserFires, ScoreReaches
  <2>4. QED
    BY <2>1, <2>3, ScoreConfidence
<1>3. QED
  BY <1>1, <1>2

-----------------------------------------------------------------------------
(* The properties of every pair.                                           *)

Paired == gateway \in Txns /\ ledger \in Txns

LEMMA PairsAreRows == Spec => []Paired
<1>1. Init => Paired
  BY PairsAssumption DEF Init, Paired
<1>2. Paired /\ [MoveLedger]_pair => Paired'
  BY DEF Paired, MoveLedger, Redated, pair
<1>3. QED
  BY <1>1, <1>2, PTL DEF Spec

\* The scorer settles on the rule of the first of README.md's passes that
\* accepts the pair, for any two rows and any threshold.
THEOREM FirstPassHolds == Spec => []FirstPassWins
  BY ScoreIsFirstPass, PTL

\* What one amount rule accepts the next one accepts, for any two rows, any
\* amount tolerance, and any date tolerance that is not negative.
THEOREM RulesNestHolds == Spec => []RulesNest
<1>1. Paired => RulesNest
  BY RulesAreNested DEF Paired, RulesNest
<1>2. QED
  BY <1>1, PairsAreRows, PTL

\* A ledger row moved no further away in calendar days scores no lower.
THEOREM CloserHolds == Spec => CloserDateNeverScoresLower
<1> DEFINE Closer == DayDistance(gateway, ledger') <= DayDistance(gateway, ledger)
                        => Confidence(gateway, ledger') >= Confidence(gateway, ledger)
<1>1. Paired /\ [MoveLedger]_pair => Closer \/ UNCHANGED pair
  <2> SUFFICES ASSUME Paired, MoveLedger
               PROVE  Closer
    OBVIOUS
  <2>1. ledger' \in Txns /\ SameButDate(ledger, ledger')
    BY DEF MoveLedger, Redated, Paired
  <2>2. QED
    BY <2>1, CloserScores DEF Paired
<1>2. QED
  BY <1>1, PairsAreRows, PTL DEF Spec, CloserDateNeverScoresLower
=============================================================================
