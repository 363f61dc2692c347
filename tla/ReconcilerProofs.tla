-------------------------- MODULE ReconcilerProofs --------------------------
(***************************************************************************)
(* Theorems about Reconciler, for every set of calls, processes and        *)
(* transactions and every bound on faults.                                 *)
(*                                                                         *)
(* First the candidate that the scorer picks and the types, then the       *)
(* inductive invariant IInv and the safety properties that follow from it. *)
(* CallInv(c) speaks only of the local variables of c and of the rows of   *)
(* its run, so a step of another call preserves it (Frame), and so does a  *)
(* step that only moves c towards its end (OnTheWayOut).  What remains is  *)
(* one lemma for each action that writes, about the call it belongs to.    *)
(***************************************************************************)
EXTENDS Reconciler, FiniteSetTheorems, TLAPS

-----------------------------------------------------------------------------
(* Confidences.                                                            *)

LEMMA RuleConfidenceValues ==
    ASSUME NEW r \in MatchRules
    PROVE  RuleConfidence[r] \in {75, 80, 90, 100}
  BY DEF MatchRules, RuleConfidence

LEMMA ConfidenceValues ==
    ASSUME NEW g, NEW l
    PROVE  /\ Acceptable(g, l) => Confidence(g, l) \in {75, 80, 90, 100}
           /\ ~Acceptable(g, l) => Confidence(g, l) = 0
  <1>1. ASSUME Acceptable(g, l) PROVE Confidence(g, l) \in {75, 80, 90, 100}
    <2> DEFINE rule == CHOOSE r \in Score(g, l) : TRUE
    <2>1. rule \in Score(g, l)
      BY <1>1 DEF Acceptable
    <2>2. rule \in MatchRules
      BY <2>1 DEF Score
    <2>3. Confidence(g, l) = RuleConfidence[rule]
      BY <1>1 DEF Confidence, Acceptable
    <2> QED
      BY <2>2, <2>3, RuleConfidenceValues
  <1> QED
    BY <1>1 DEF Confidence, Acceptable

-----------------------------------------------------------------------------
(* The candidate the reconciler takes.                                     *)

LEMMA BestIsBest ==
    ASSUME NEW g, NEW C, NEW l \in BestOfAll(g, C)
    PROVE  /\ l \in C /\ Acceptable(g, l)
           /\ \A k \in C : ~(Confidence(g, k) > Confidence(g, l))
  <1>1. ASSUME NEW k \in C PROVE ~(Confidence(g, k) > Confidence(g, l))
    <2>1. Confidence(g, k) <= Confidence(g, l)
      BY DEF BestOfAll
    <2>2. Confidence(g, k) \in Int /\ Confidence(g, l) \in Int
      BY ConfidenceValues
    <2> QED
      BY <2>1, <2>2
  <1> QED
    BY <1>1 DEF BestOfAll

\* The best candidate is missing only when no candidate is acceptable at all.
\* Confidences take four values, so a climb from any candidate ends at the top.
THEOREM NoBestMeansNoneAcceptable ==
    ASSUME NEW g, NEW C, BestOfAll(g, C) = {}
    PROVE  \A l \in C : ~Acceptable(g, l)
  <1> DEFINE Has(v) == \E k \in C : Acceptable(g, k) /\ Confidence(g, k) = v
  <1>1. ASSUME NEW l \in C, Acceptable(g, l)
        PROVE  \E k \in C : Acceptable(g, k) /\ Confidence(g, k) > Confidence(g, l)
    <2>1. PICK k \in C : ~(Confidence(g, k) <= Confidence(g, l))
      BY <1>1 DEF BestOfAll
    <2>2. Acceptable(g, k) /\ Confidence(g, k) > Confidence(g, l)
      BY <1>1, <2>1, ConfidenceValues
    <2> QED
      BY <2>2
  <1>2. ~Has(100)
    BY <1>1, ConfidenceValues
  <1>3. Has(90) => Has(100)
    BY <1>1, ConfidenceValues
  <1>4. Has(80) => Has(90) \/ Has(100)
    BY <1>1, ConfidenceValues
  <1>5. Has(75) => Has(80) \/ Has(90) \/ Has(100)
    BY <1>1, ConfidenceValues
  <1>6. ASSUME NEW l \in C, Acceptable(g, l)
        PROVE  Has(75) \/ Has(80) \/ Has(90) \/ Has(100)
    BY <1>6, ConfidenceValues
  <1> QED
    BY <1>2, <1>3, <1>4, <1>5, <1>6

USE DEF Loops, Active, Ended

-----------------------------------------------------------------------------
(* Lemmas on the operators.                                                *)

\* The sets a call fetches are finite, so their sizes are natural numbers.
LEMMA SizeIsNat ==
    ASSUME NEW S \in SUBSET Txns
    PROVE  IsFiniteSet(S) /\ Cardinality(S) \in Nat
  BY TxnAssumption, FS_Subset, FS_CardinalityType

\* What FindUnmatched returns is stored, and in no match.
LEMMA FoundIsFree ==
    ASSUME TypeOK, NEW c \in Calls, NEW source
    PROVE  /\ FindUnmatched(c, source) \in SUBSET Txns
           /\ FindUnmatched(c, source) \cap MatchedIDs = {}
  BY DEF TypeOK, FindUnmatched

\* A failed call leaves the table as it was or as it would have been.
LEMMA LeavesOneOfTwo ==
    ASSUME NEW c, NEW before, NEW after, NEW x \in Leaves(c, before, after)
    PROVE  x = before \/ x = after
  BY DEF Leaves

\* The fault counter stays within its bound, whatever becomes of a call.
LEMMA FaultsBounded ==
    ASSUME TypeOK, NEW c \in Calls, Answers(c) \/ CallFails(c)
    PROVE  faults' \in 0 .. MaxFaults
  BY CallAssumption DEF TypeOK, Answers, CallFails

-----------------------------------------------------------------------------
(* Type correctness.                                                       *)

LEMMA InitTyped == Init => TypeOK
  BY CallAssumption DEF Init, TypeOK, NoRun, RunRows

LEMMA LockTyped ==
    ASSUME TypeOK, NEW c \in Calls, Lock(c)
    PROVE  TypeOK'
  <1>1. faults' \in 0 .. MaxFaults
    BY FaultsBounded DEF Lock
  <1>2. lock' \in Processes \cup {NoOwner}
    BY CallAssumption DEF Lock, TypeOK, SetNX, Leaves
  <1>3. pc' \in [Calls -> {"idle"} \cup Active \cup Ended]
    BY DEF Lock, TypeOK, Goto
  <1>4. endedBefore' \in [Calls -> SUBSET Calls]
    BY DEF Lock, TypeOK
  <1> QED
    BY <1>1, <1>2, <1>3, <1>4
    DEF TypeOK, Lock, tables, lists, marks, counts, world

LEMMA PanicTyped ==
    ASSUME TypeOK, NEW c \in Calls, LockPanics(c)
    PROVE  TypeOK'
  BY DEF TypeOK, LockPanics, Goto, tables, lists, marks, counts

LEMMA UnlockTyped ==
    ASSUME TypeOK, NEW c \in Calls, Unlock(c)
    PROVE  TypeOK'
  <1>1. faults' \in 0 .. MaxFaults
    BY FaultsBounded DEF Unlock
  <1>2. lock' \in Processes \cup {NoOwner}
    BY DEF Unlock, TypeOK, CompareAndDelete, Leaves
  <1> QED
    BY <1>1, <1>2 DEF TypeOK, Unlock, Goto, tables, lists, marks, counts, world

LEMMA CreateTyped ==
    ASSUME TypeOK, NEW c \in Calls, CreateRun(c)
    PROVE  TypeOK'
  <1>1. faults' \in 0 .. MaxFaults
    BY FaultsBounded DEF CreateRun
  <1>2. [NoRun EXCEPT !.status = "running"] \in RunRows
    BY DEF NoRun, RunRows
  <1>3. runs' \in [Calls -> RunRows]
    BY <1>2, LeavesOneOfTwo DEF CreateRun, TypeOK
  <1> QED
    BY <1>1, <1>3 DEF TypeOK, CreateRun, Goto, lists, marks, counts, world

LEMMA FetchGatewayTyped ==
    ASSUME TypeOK, NEW c \in Calls, FetchGateway(c)
    PROVE  TypeOK'
  <1>1. faults' \in 0 .. MaxFaults
    BY FaultsBounded DEF FetchGateway
  <1>2. FindUnmatched(c, Request[c].gw) \in SUBSET Txns
    BY FoundIsFree
  <1>3. gwTxns \in [Calls -> SUBSET Txns]
    BY DEF TypeOK
  <1>4. gwTxns' \in [Calls -> SUBSET Txns]
    BY <1>2, <1>3 DEF FetchGateway
  <1> QED
    BY <1>1, <1>4 DEF TypeOK, FetchGateway, Goto, tables, marks, counts, world

LEMMA FetchLedgerTyped ==
    ASSUME TypeOK, NEW c \in Calls, FetchLedger(c)
    PROVE  TypeOK'
  <1>1. faults' \in 0 .. MaxFaults
    BY FaultsBounded DEF FetchLedger
  <1>2. FindUnmatched(c, Request[c].lg) \in SUBSET Txns
    BY FoundIsFree
  <1>3. /\ Cardinality(gwTxns[c]) \in Nat
        /\ Cardinality(FindUnmatched(c, Request[c].lg)) \in Nat
    BY <1>2, SizeIsNat DEF TypeOK
  <1>4. /\ gwTxns \in [Calls -> SUBSET Txns]
        /\ lgTxns \in [Calls -> SUBSET Txns]
        /\ todo \in [Calls -> SUBSET Txns]
        /\ totals \in [Calls -> [gw : Nat, lg : Nat]]
    BY DEF TypeOK
  <1>5. /\ lgTxns' \in [Calls -> SUBSET Txns]
        /\ todo' \in [Calls -> SUBSET Txns]
    BY <1>2, <1>4 DEF FetchLedger
  <1>6. totals' \in [Calls -> [gw : Nat, lg : Nat]]
    BY <1>3, <1>4 DEF FetchLedger
  <1> QED
    BY <1>1, <1>5, <1>6 DEF TypeOK, FetchLedger, Goto, tables, marks, counts, world

LEMMA MatchTyped ==
    ASSUME TypeOK, NEW c \in Calls, MatchNext(c)
    PROVE  TypeOK'
  <1>1. PICK g \in Earliest(todo[c]) :
            \/ Skip(c, g)
            \/ \E l \in BestOfAll(g, Candidates(c)) : InsertMatch(c, g, l)
    BY DEF MatchNext
  <1>2. g \in Txns
    BY DEF Earliest, TypeOK
  <1>3. CASE Skip(c, g)
    BY <1>3 DEF Skip, MatchNext, TypeOK, lists, marks, counts, world
  <1>4. CASE \E l \in BestOfAll(g, Candidates(c)) : InsertMatch(c, g, l)
    <2>1. PICK l \in BestOfAll(g, Candidates(c)) : InsertMatch(c, g, l)
      BY <1>4
    <2>2. l \in Txns
      BY DEF BestOfAll, Candidates, TypeOK
    <2>3. faults' \in 0 .. MaxFaults
      BY <2>1, FaultsBounded DEF InsertMatch
    <2>4. matches' \subseteq matches \cup {[gw |-> g, lg |-> l, run |-> c]}
      BY <2>1 DEF InsertMatch, Leaves
    <2>5. matches' \subseteq [gw : Txns, lg : Txns, run : Calls]
      BY <1>2, <2>2, <2>4 DEF TypeOK
    <2>6. /\ matchedGW' \in [Calls -> SUBSET Txns]
          /\ matchedLG' \in [Calls -> SUBSET Txns]
          /\ matchedCount' \in [Calls -> Nat]
          /\ todo' \in [Calls -> SUBSET Txns]
      <3>1. /\ matchedGW \in [Calls -> SUBSET Txns]
            /\ matchedLG \in [Calls -> SUBSET Txns]
            /\ matchedCount \in [Calls -> Nat]
            /\ todo \in [Calls -> SUBSET Txns]
        BY DEF TypeOK
      <3>2. /\ matchedGW[c] \cup {g} \in SUBSET Txns
            /\ matchedLG[c] \cup {l} \in SUBSET Txns
            /\ matchedCount[c] + 1 \in Nat
            /\ todo[c] \ {g} \in SUBSET Txns
        BY <1>2, <2>2, <3>1
      <3> QED
        BY <2>1, <3>1, <3>2 DEF InsertMatch, marks
    <2>7. pc' \in [Calls -> {"idle"} \cup Active \cup Ended]
      BY <2>1 DEF InsertMatch, TypeOK, Goto
    <2> QED
      BY <2>3, <2>5, <2>6, <2>7 DEF TypeOK, MatchNext, lists, counts, world
  <1> QED
    BY <1>1, <1>3, <1>4

LEMMA NextLoopTyped ==
    ASSUME TypeOK, NEW c \in Calls, NextLoop(c)
    PROVE  TypeOK'
  <1>1. todo' \in [Calls -> SUBSET Txns]
    <2>1. todo \in [Calls -> SUBSET Txns]
      BY DEF TypeOK
    <2>2. OpenGW(c) \in SUBSET Txns /\ OpenLG(c) \in SUBSET Txns
      BY DEF TypeOK, OpenGW, OpenLG
    <2> QED
      BY <2>1, <2>2 DEF NextLoop, OpenGW, OpenLG
  <1>2. pc' \in [Calls -> {"idle"} \cup Active \cup Ended]
    BY DEF TypeOK, NextLoop, Goto
  <1> QED
    BY <1>1, <1>2 DEF TypeOK, NextLoop, tables, lists, marks, counts, world

LEMMA ReportGatewayTyped ==
    ASSUME TypeOK, NEW c \in Calls, ReportGateway(c)
    PROVE  TypeOK'
  <1>1. PICK t \in Earliest(todo[c]) : InsertDiscrepancy(c, t, "unmatched_gateway")
    BY DEF ReportGateway
  <1>2. t \in Txns
    BY DEF Earliest, TypeOK
  <1>3. faults' \in 0 .. MaxFaults
    BY <1>1, FaultsBounded DEF InsertDiscrepancy
  <1>4. discs' \subseteq discs \cup {[tx |-> t, type |-> "unmatched_gateway", run |-> c]}
    BY <1>1 DEF InsertDiscrepancy, Leaves
  <1>5. discs' \subseteq [tx : Txns, run : Calls,
                          type : {"unmatched_gateway", "unmatched_ledger"}]
    BY <1>2, <1>4 DEF TypeOK
  <1>6. /\ todo \in [Calls -> SUBSET Txns]
        /\ todo[c] \ {t} \in SUBSET Txns
        /\ pc \in [Calls -> {"idle"} \cup Active \cup Ended]
    BY DEF TypeOK
  <1>8. /\ todo' \in [Calls -> SUBSET Txns]
        /\ pc' \in [Calls -> {"idle"} \cup Active \cup Ended]
    BY <1>1, <1>6 DEF InsertDiscrepancy, Goto
  <1>7. unmatchedGW' \in [Calls -> Nat]
    BY DEF ReportGateway, TypeOK
  <1> QED
    BY <1>3, <1>5, <1>7, <1>8 DEF TypeOK, ReportGateway, lists, marks, world

LEMMA ReportLedgerTyped ==
    ASSUME TypeOK, NEW c \in Calls, ReportLedger(c)
    PROVE  TypeOK'
  <1>1. PICK t \in Earliest(todo[c]) : InsertDiscrepancy(c, t, "unmatched_ledger")
    BY DEF ReportLedger
  <1>2. t \in Txns
    BY DEF Earliest, TypeOK
  <1>3. faults' \in 0 .. MaxFaults
    BY <1>1, FaultsBounded DEF InsertDiscrepancy
  <1>4. discs' \subseteq discs \cup {[tx |-> t, type |-> "unmatched_ledger", run |-> c]}
    BY <1>1 DEF InsertDiscrepancy, Leaves
  <1>5. discs' \subseteq [tx : Txns, run : Calls,
                          type : {"unmatched_gateway", "unmatched_ledger"}]
    BY <1>2, <1>4 DEF TypeOK
  <1>6. /\ todo \in [Calls -> SUBSET Txns]
        /\ todo[c] \ {t} \in SUBSET Txns
        /\ pc \in [Calls -> {"idle"} \cup Active \cup Ended]
    BY DEF TypeOK
  <1>8. /\ todo' \in [Calls -> SUBSET Txns]
        /\ pc' \in [Calls -> {"idle"} \cup Active \cup Ended]
    BY <1>1, <1>6 DEF InsertDiscrepancy, Goto
  <1>7. unmatchedLG' \in [Calls -> Nat]
    BY DEF ReportLedger, TypeOK
  <1> QED
    BY <1>3, <1>5, <1>7, <1>8 DEF TypeOK, ReportLedger, lists, marks, world

\* Both final updates of a run write a well-formed row.
LEMMA RowTyped ==
    ASSUME TypeOK, NEW c \in Calls, NEW status \in {"completed", "failed"},
           NEW m \in Nat, NEW n \in Nat
    PROVE  SetStatus(c, status, m, n) \in RunRows
  BY DEF TypeOK, SetStatus, RunRows

LEMMA CompleteTyped ==
    ASSUME TypeOK, NEW c \in Calls, CompleteRun(c)
    PROVE  TypeOK'
  <1>1. faults' \in 0 .. MaxFaults
    BY FaultsBounded DEF CompleteRun
  <1>2. matchedCount[c] \in Nat /\ unmatchedGW[c] + unmatchedLG[c] \in Nat
    BY DEF TypeOK
  <1>3. CompletedRow(c) \in RunRows
    BY <1>2, RowTyped DEF CompletedRow
  <1>4. runs' \in [Calls -> RunRows]
    BY <1>3, LeavesOneOfTwo DEF CompleteRun, TypeOK
  <1> QED
    BY <1>1, <1>4 DEF TypeOK, CompleteRun, Goto, lists, marks, counts, world

LEMMA FailTyped ==
    ASSUME TypeOK, NEW c \in Calls, FailRun(c)
    PROVE  TypeOK'
  <1>1. faults' \in 0 .. MaxFaults
    BY FaultsBounded DEF FailRun
  <1>2. SetStatus(c, "failed", 0, 0) \in RunRows
    BY RowTyped
  <1>3. runs' \in [Calls -> RunRows]
    BY <1>2, LeavesOneOfTwo DEF FailRun, TypeOK
  <1> QED
    BY <1>1, <1>3 DEF TypeOK, FailRun, Goto, lists, marks, counts, world

LEMMA EnvironmentTyped ==
    ASSUME TypeOK,
           \/ \E c \in Calls : Cancel(c)
           \/ \E p \in Processes : Crash(p)
           \/ \E t \in Txns : Ingest(t)
           \/ LockExpires
           \/ UNCHANGED vars
    PROVE  TypeOK'
  <1>1. CASE \E c \in Calls : Cancel(c)
    BY <1>1, CallAssumption DEF TypeOK, Cancel, tables, lists, marks, counts
  <1>2. CASE \E p \in Processes : Crash(p)
    <2>1. PICK p \in Processes : Crash(p)
      BY <1>2
    <2>2. pc' \in [Calls -> {"idle"} \cup Active \cup Ended]
      BY <2>1 DEF TypeOK, Crash
    <2>3. faults' \in 0 .. MaxFaults
      BY <2>1, CallAssumption DEF TypeOK, Crash
    <2> QED
      BY <2>1, <2>2, <2>3 DEF TypeOK, Crash, tables, lists, marks, counts
  <1>3. CASE \E t \in Txns : Ingest(t)
    BY <1>3 DEF TypeOK, Ingest, lists, marks, counts, world
  <1>4. CASE LockExpires
    BY <1>4 DEF TypeOK, LockExpires, tables, lists, marks, counts, world
  <1>5. CASE UNCHANGED vars
    BY <1>5 DEF TypeOK, vars, tables, lists, marks, counts, world
  <1> QED
    BY <1>1, <1>2, <1>3, <1>4, <1>5

LEMMA StepTyped == TypeOK /\ [Next]_vars => TypeOK'
  <1> SUFFICES ASSUME TypeOK, [Next]_vars PROVE TypeOK'
    OBVIOUS
  <1>1. CASE \E c \in Calls : Lock(c) \/ LockPanics(c) \/ Body(c) \/ Cancel(c)
    BY <1>1, LockTyped, PanicTyped, CreateTyped, FetchGatewayTyped,
       FetchLedgerTyped, MatchTyped, NextLoopTyped, ReportGatewayTyped,
       ReportLedgerTyped, CompleteTyped, FailTyped, UnlockTyped, EnvironmentTyped
    DEF Body
  <1>2. CASE ~ \E c \in Calls : Lock(c) \/ LockPanics(c) \/ Body(c) \/ Cancel(c)
    BY <1>2, EnvironmentTyped DEF Next
  <1> QED
    BY <1>1, <1>2

\* Every variable keeps its type.
THEOREM TypeCorrect == Spec => []TypeOK
  BY InitTyped, StepTyped, PTL DEF Spec

-----------------------------------------------------------------------------
(* What a step may leave alone.                                            *)

SameLists(c) ==
    /\ gwTxns'[c] = gwTxns[c] /\ lgTxns'[c] = lgTxns[c] /\ totals'[c] = totals[c]
SameMarks(c) ==
    /\ matchedGW'[c] = matchedGW[c] /\ matchedLG'[c] = matchedLG[c]
    /\ matchedCount'[c] = matchedCount[c]
SameCounts(c) ==
    unmatchedGW'[c] = unmatchedGW[c] /\ unmatchedLG'[c] = unmatchedLG[c]
SameMatches(c) == MatchesOf(c)' = MatchesOf(c)
SameReports(c) == ReportedGW(c)' = ReportedGW(c) /\ ReportedLG(c)' = ReportedLG(c)

\* Nothing of the call changes, except for where it stands.
Same(c) ==
    /\ runs'[c] = runs[c] /\ todo'[c] = todo[c]
    /\ SameLists(c) /\ SameMarks(c) /\ SameCounts(c)
    /\ SameMatches(c) /\ SameReports(c)

Untouched(c) == pc'[c] = pc[c] /\ Same(c)

-----------------------------------------------------------------------------
(* Steps that leave a call alone, or only move it towards its end.         *)

LEMMA Frame ==
    ASSUME NEW c \in Calls, CallInv(c), Untouched(c)
    PROVE  CallInv(c)'
  BY DEF Untouched, Same, SameLists, SameMarks, SameCounts, SameMatches, SameReports,
         CallInv, NothingYet, SettledLate, FromFetched, OncePerRun, Overtaken,
         MarksAgree, ReportsAgree, CountsAgree, VisitedInOrder, LeftRefused,
         Sound, OpenGW, OpenLG, CompletedRow, SetStatus

LEMMA OnTheWayOut ==
    ASSUME NEW c \in Calls, CallInv(c), Same(c),
           \/ pc[c] = "idle" /\ pc'[c] = "create"
           \/ pc[c] \notin {"unlock"} \cup Ended /\ pc'[c] = "fail"
           \/ pc'[c] \in {"unlock"} \cup Ended
    PROVE  CallInv(c)'
  <1>1. NothingYet(c)'
    BY DEF CallInv, NothingYet, BeforeMatching, Same, SameLists, SameMarks,
           SameCounts, SameMatches, SameReports
  <1>2. SettledLate(c)'
    BY DEF CallInv, SettledLate, Same
  <1>3. /\ FromFetched(c)'
        /\ OncePerRun(c)'
        /\ Overtaken(c)'
    BY DEF CallInv, FromFetched, OncePerRun, Overtaken, Same, SameLists, SameMatches
  <1>4. pc'[c] \notin Loops
    OBVIOUS
  <1>5. Sound(c)' => Sound(c) /\ runs[c].status = "completed"
    BY <1>4 DEF Sound, Same
  <1>6. MarksAgree(c)'
    BY <1>5 DEF CallInv, MarksAgree, Same, SameMarks, SameMatches
  <1>7. ReportsAgree(c)'
    BY <1>4 DEF CallInv, ReportsAgree, OpenGW, OpenLG, Same, SameLists, SameMarks,
                SameReports
  <1>8. CountsAgree(c)'
    BY <1>5 DEF CallInv, CountsAgree, CompletedRow, SetStatus, Same, SameLists,
                SameMarks, SameCounts, SameMatches, SameReports
  <1>9. VisitedInOrder(c)' /\ LeftRefused(c)'
    BY <1>4, <1>5 DEF CallInv, VisitedInOrder, LeftRefused, SettledLate, Settled,
                OpenGW, OpenLG, Same, SameLists, SameMarks
  <1> QED
    BY <1>1, <1>2, <1>3, <1>6, <1>7, <1>8, <1>9 DEF CallInv

LEMMA TwoAreFinite ==
    ASSUME NEW a, NEW b
    PROVE  IsFiniteSet({a, b})
  <1>1. IsFiniteSet({} \cup {a})
    BY FS_EmptySet, FS_AddElement
  <1>2. IsFiniteSet({a} \cup {b})
    BY <1>1, FS_AddElement
  <1> QED
    BY <1>2

\* The tables of matches and discrepancies are finite.
LEMMA RowsAreFinite ==
    /\ \A S \in SUBSET [gw : Txns, lg : Txns, run : Calls] : IsFiniteSet(S)
    /\ \A S \in SUBSET [tx : Txns, run : Calls,
                        type : {"unmatched_gateway", "unmatched_ledger"}] : IsFiniteSet(S)
  <1> DEFINE types == {"unmatched_gateway", "unmatched_ledger"}
             pairs == (Txns \X Txns) \X Calls
             reports == (Txns \X Calls) \X types
             links == [gw : Txns, lg : Txns, run : Calls]
             notes == [tx : Txns, run : Calls, type : types]
             link == [p \in pairs |-> [gw |-> p[1][1], lg |-> p[1][2], run |-> p[2]]]
             note == [p \in reports |-> [tx |-> p[1][1], run |-> p[1][2], type |-> p[2]]]
  <1>1. IsFiniteSet(Txns) /\ IsFiniteSet(Calls) /\ IsFiniteSet(types)
    BY TxnAssumption, CallAssumption, TwoAreFinite
  <1>2. IsFiniteSet(pairs)
    <2>1. IsFiniteSet(Txns \X Txns)
      BY <1>1, FS_Product
    <2> QED
      BY <1>1, <2>1, FS_Product
  <1>3. IsFiniteSet(reports)
    <2>1. IsFiniteSet(Txns \X Calls)
      BY <1>1, FS_Product
    <2> QED
      BY <1>1, <2>1, FS_Product
  <1>4. link \in Surjection(pairs, links)
    <2>1. ASSUME NEW r \in links PROVE \E p \in pairs : link[p] = r
      <3>1. <<<<r.gw, r.lg>>, r.run>> \in pairs
        BY <2>1
      <3>2. link[<<<<r.gw, r.lg>>, r.run>>] = r
        BY <2>1, <3>1
      <3> QED
        BY <3>1, <3>2
    <2>2. link \in [pairs -> links]
      OBVIOUS
    <2> QED
      BY <2>1, <2>2 DEF Surjection
  <1>5. note \in Surjection(reports, notes)
    <2>1. ASSUME NEW r \in notes PROVE \E p \in reports : note[p] = r
      <3>1. <<<<r.tx, r.run>>, r.type>> \in reports
        BY <2>1
      <3>2. note[<<<<r.tx, r.run>>, r.type>>] = r
        BY <2>1, <3>1
      <3> QED
        BY <3>1, <3>2
    <2>2. note \in [reports -> notes]
      OBVIOUS
    <2> QED
      BY <2>1, <2>2 DEF Surjection
  <1>6. IsFiniteSet(links) /\ IsFiniteSet(notes)
    <2> HIDE DEF pairs, reports, links, notes, link, note
    <2> QED
      BY <1>2, <1>3, <1>4, <1>5, FS_Surjection
  <1> QED
    BY <1>6, FS_Subset

\* The sides of the rows, after one more row.
LEMMA SidesGrow ==
    ASSUME NEW S, NEW m
    PROVE  /\ {n.gw : n \in S \cup {m}} = {n.gw : n \in S} \cup {m.gw}
           /\ {n.lg : n \in S \cup {m}} = {n.lg : n \in S} \cup {m.lg}
  OBVIOUS

\* Rows that a call adds to a table are not among those of another.
LEMMA OtherRows ==
    ASSUME NEW c \in Calls, NEW d \in Calls \ {c},
           matches \subseteq matches', discs \subseteq discs',
           \A m \in matches' \ matches : m.run = c,
           \A e \in discs' \ discs : e.run = c
    PROVE  SameMatches(d) /\ SameReports(d)
  <1>1. MatchesOf(d)' = MatchesOf(d)
    BY DEF MatchesOf
  <1>2. ASSUME NEW type
        PROVE  ReportedBy(d, type)' = ReportedBy(d, type)
    BY DEF ReportedBy
  <1> QED
    BY <1>1, <1>2 DEF SameMatches, SameReports, ReportedGW, ReportedLG

-----------------------------------------------------------------------------
(* A step of one call, seen from the others.                               *)

LEMMA MatchedRows ==
    ASSUME NEW c \in Calls, NEW g, NEW l, InsertMatch(c, g, l)
    PROVE  matches' \in {matches, matches \cup {[gw |-> g, lg |-> l, run |-> c]}}
  BY DEF InsertMatch, Leaves

LEMMA ReportedRows ==
    ASSUME NEW c \in Calls, NEW t, NEW type, InsertDiscrepancy(c, t, type)
    PROVE  discs' \in {discs, discs \cup {[tx |-> t, type |-> type, run |-> c]}}
  BY DEF InsertDiscrepancy, Leaves

LEMMA StepGrowsOwnRows ==
    ASSUME TypeOK, NEW c \in Calls, Lock(c) \/ LockPanics(c) \/ Body(c)
    PROVE  /\ matches \subseteq matches' /\ \A m \in matches' \ matches : m.run = c
           /\ discs \subseteq discs' /\ \A e \in discs' \ discs : e.run = c
  <1>1. CASE MatchNext(c)
    <2>1. discs' = discs
      BY <1>1 DEF MatchNext
    <2>2. \/ matches' = matches
          \/ \E g, l : matches' \in {matches, matches \cup {[gw |-> g, lg |-> l, run |-> c]}}
      BY <1>1, MatchedRows DEF MatchNext, Skip
    <2> QED
      BY <2>1, <2>2
  <1>2. CASE ReportGateway(c) \/ ReportLedger(c)
    <2>1. matches' = matches
      BY <1>2 DEF ReportGateway, ReportLedger
    <2>2. \E t, type : discs' \in {discs, discs \cup {[tx |-> t, type |-> type, run |-> c]}}
      BY <1>2, ReportedRows DEF ReportGateway, ReportLedger
    <2> QED
      BY <2>1, <2>2
  <1>3. CASE \/ Lock(c) \/ LockPanics(c) \/ CreateRun(c) \/ FetchGateway(c)
             \/ FetchLedger(c) \/ NextLoop(c) \/ CompleteRun(c) \/ FailRun(c)
             \/ Unlock(c)
    BY <1>3 DEF Lock, LockPanics, CreateRun, FetchGateway, FetchLedger, NextLoop,
                CompleteRun, FailRun, Unlock, tables
  <1> QED
    BY <1>1, <1>2, <1>3 DEF Body

LEMMA StepIsLocal ==
    ASSUME TypeOK, NEW c \in Calls, Lock(c) \/ LockPanics(c) \/ Body(c),
           NEW d \in Calls \ {c}
    PROVE  Untouched(d)
  <1>1. SameMatches(d) /\ SameReports(d)
    BY StepGrowsOwnRows, OtherRows
  <1>2. runs'[d] = runs[d]
    <2>1. CASE CreateRun(c) \/ CompleteRun(c) \/ FailRun(c)
      BY <2>1 DEF CreateRun, CompleteRun, FailRun, Leaves, TypeOK
    <2>2. CASE UNCHANGED runs
      BY <2>2
    <2> QED
      BY <2>1, <2>2 DEF Body, Lock, LockPanics, FetchGateway, FetchLedger, MatchNext,
         NextLoop, ReportGateway, ReportLedger, Unlock, tables
  <1>3. pc'[d] = pc[d] /\ todo'[d] = todo[d]
    <2>1. CASE MatchNext(c)
      BY <2>1 DEF MatchNext, Skip, InsertMatch, TypeOK, Goto
    <2>2. CASE ReportGateway(c) \/ ReportLedger(c)
      BY <2>2 DEF ReportGateway, ReportLedger, InsertDiscrepancy, TypeOK, Goto
    <2>3. CASE FetchLedger(c) \/ NextLoop(c)
      BY <2>3 DEF FetchLedger, NextLoop, TypeOK, Goto
    <2>4. CASE \/ Lock(c) \/ LockPanics(c) \/ CreateRun(c) \/ FetchGateway(c)
               \/ CompleteRun(c) \/ FailRun(c) \/ Unlock(c)
      BY <2>4 DEF Lock, LockPanics, CreateRun, FetchGateway, CompleteRun, FailRun,
                  Unlock, TypeOK, Goto
    <2> QED
      BY <2>1, <2>2, <2>3, <2>4 DEF Body
  <1>4. SameLists(d)
    <2>1. CASE FetchGateway(c) \/ FetchLedger(c)
      BY <2>1 DEF FetchGateway, FetchLedger, SameLists, TypeOK
    <2>2. CASE UNCHANGED lists
      BY <2>2 DEF lists, SameLists
    <2> QED
      BY <2>1, <2>2 DEF Body, Lock, LockPanics, CreateRun, MatchNext, NextLoop,
         ReportGateway, ReportLedger, CompleteRun, FailRun, Unlock
  <1>5. SameMarks(d)
    <2>1. CASE MatchNext(c)
      BY <2>1 DEF MatchNext, Skip, InsertMatch, SameMarks, TypeOK, marks
    <2>2. CASE UNCHANGED marks
      BY <2>2 DEF marks, SameMarks
    <2> QED
      BY <2>1, <2>2 DEF Body, Lock, LockPanics, CreateRun, FetchGateway, FetchLedger,
         NextLoop, ReportGateway, ReportLedger, CompleteRun, FailRun, Unlock
  <1>6. SameCounts(d)
    <2>1. CASE ReportGateway(c) \/ ReportLedger(c)
      BY <2>1 DEF ReportGateway, ReportLedger, SameCounts, TypeOK
    <2>2. CASE UNCHANGED counts
      BY <2>2 DEF counts, SameCounts
    <2> QED
      BY <2>1, <2>2 DEF Body, Lock, LockPanics, CreateRun, FetchGateway, FetchLedger,
         MatchNext, NextLoop, CompleteRun, FailRun, Unlock
  <1> QED
    BY <1>1, <1>2, <1>3, <1>4, <1>5, <1>6 DEF Untouched, Same

-----------------------------------------------------------------------------
(* The invariant of the call that takes the step.                          *)

LEMMA SameRows ==
    ASSUME matches' = matches, discs' = discs, NEW c \in Calls
    PROVE  SameMatches(c) /\ SameReports(c)
  BY DEF SameMatches, SameReports, MatchesOf, ReportedGW, ReportedLG, ReportedBy

\* Calls that only move: the lock, the errors of the fetches, the environment.
LEMMA LockKeeps ==
    ASSUME TypeOK, NEW c \in Calls, CallInv(c), Lock(c) \/ LockPanics(c) \/ Unlock(c)
    PROVE  CallInv(c)'
  <1>1. matches' = matches /\ discs' = discs
    BY DEF Lock, LockPanics, Unlock, tables
  <1>2. Same(c)
    BY <1>1, SameRows DEF Lock, LockPanics, Unlock, Same, SameLists, SameMarks, SameCounts,
                          tables, lists, marks, counts
  <1>3. \/ pc[c] = "idle" /\ pc'[c] = "create"
        \/ pc'[c] \in {"unlock"} \cup Ended
    BY DEF Lock, LockPanics, Unlock, Goto, TypeOK
  <1> QED
    BY <1>2, <1>3, OnTheWayOut

LEMMA CreateKeeps ==
    ASSUME TypeOK, NEW c \in Calls, CallInv(c), CreateRun(c)
    PROVE  CallInv(c)'
  <1>1. SameMatches(c) /\ SameReports(c)
    BY SameRows DEF CreateRun
  <1>2. SameLists(c) /\ SameMarks(c) /\ SameCounts(c)
    BY DEF CreateRun, SameLists, SameMarks, SameCounts, lists, marks, counts
  <1>3. pc[c] = "create" /\ pc'[c] \in {"fetchGW", "unlock"}
    BY DEF CreateRun, Goto, TypeOK
  <1>4. runs'[c].status \in {"running", "none"}
    <2>1. runs[c].status \notin Settled
      BY <1>3 DEF CallInv, SettledLate
    <2>2. runs' = runs \/ runs' = [runs EXCEPT ![c] = [NoRun EXCEPT !.status = "running"]]
      BY LeavesOneOfTwo DEF CreateRun
    <2> QED
      BY <2>1, <2>2 DEF TypeOK, RunRows, Settled, NoRun
  <1>5. ~Sound(c)'
    BY <1>3, <1>4 DEF Sound
  <1>6. NothingYet(c)' /\ SettledLate(c)'
    BY <1>1, <1>2, <1>3, <1>4 DEF CallInv, NothingYet, SettledLate, Settled,
       BeforeMatching, SameLists, SameMarks, SameCounts, SameMatches, SameReports
  <1>7. FromFetched(c)' /\ OncePerRun(c)' /\ Overtaken(c)'
    BY <1>1, <1>2 DEF CallInv, FromFetched, OncePerRun, Overtaken, SameLists, SameMatches
  <1>8. MarksAgree(c)' /\ ReportsAgree(c)' /\ CountsAgree(c)'
        /\ VisitedInOrder(c)' /\ LeftRefused(c)'
    BY <1>3, <1>4, <1>5 DEF MarksAgree, ReportsAgree, CountsAgree, VisitedInOrder,
                            LeftRefused
  <1> QED
    BY <1>6, <1>7, <1>8 DEF CallInv

LEMMA FetchGatewayKeeps ==
    ASSUME TypeOK, NEW c \in Calls, CallInv(c), FetchGateway(c)
    PROVE  CallInv(c)'
  <1>1. SameMatches(c) /\ SameReports(c)
    BY SameRows DEF FetchGateway, tables
  <1>2. /\ SameMarks(c) /\ SameCounts(c) /\ runs'[c] = runs[c] /\ todo'[c] = todo[c]
        /\ lgTxns'[c] = lgTxns[c] /\ totals'[c] = totals[c]
    BY DEF FetchGateway, SameMarks, SameCounts, tables, marks, counts
  <1>3. CASE pc'[c] = "fail"
    <2>1. gwTxns'[c] = gwTxns[c] /\ pc[c] = "fetchGW"
      BY <1>3 DEF FetchGateway, Goto, TypeOK
    <2> QED
      BY <1>1, <1>2, <1>3, <2>1, OnTheWayOut DEF Same, SameLists
  <1>4. CASE pc'[c] = "fetchLG"
    <2>1. pc[c] = "fetchGW"
      BY DEF FetchGateway
    <2>2. MatchesOf(c)' = {} /\ runs'[c].status \notin Settled
      BY <1>1, <1>2, <2>1 DEF CallInv, NothingYet, SettledLate, BeforeMatching, SameMatches
    <2>3. NothingYet(c)' /\ SettledLate(c)'
      BY <1>1, <1>2, <1>4, <2>1, <2>2 DEF CallInv, NothingYet, SettledLate,
         BeforeMatching, SameMarks, SameCounts, SameMatches, SameReports
    <2>4. FromFetched(c)' /\ OncePerRun(c)' /\ Overtaken(c)'
      BY <2>2 DEF FromFetched, OncePerRun, Overtaken
    <2>5. ~Sound(c)'
      BY <1>4, <2>2 DEF Sound, Settled
    <2>6. MarksAgree(c)' /\ ReportsAgree(c)' /\ CountsAgree(c)'
          /\ VisitedInOrder(c)' /\ LeftRefused(c)'
      BY <1>4, <2>2, <2>5 DEF MarksAgree, ReportsAgree, CountsAgree, VisitedInOrder,
                              LeftRefused, Settled
    <2> QED
      BY <2>3, <2>4, <2>6 DEF CallInv
  <1> QED
    BY <1>3, <1>4 DEF FetchGateway, Goto, TypeOK

LEMMA FetchLedgerKeeps ==
    ASSUME TypeOK, NEW c \in Calls, CallInv(c), FetchLedger(c)
    PROVE  CallInv(c)'
  <1>1. SameMatches(c) /\ SameReports(c)
    BY SameRows DEF FetchLedger, tables
  <1>2. /\ SameMarks(c) /\ SameCounts(c) /\ runs'[c] = runs[c]
        /\ gwTxns'[c] = gwTxns[c]
    BY DEF FetchLedger, SameMarks, SameCounts, tables, marks, counts
  <1>3. CASE pc'[c] = "fail"
    <2>1. /\ lgTxns'[c] = lgTxns[c] /\ totals'[c] = totals[c] /\ todo'[c] = todo[c]
          /\ pc[c] = "fetchLG"
      BY <1>3 DEF FetchLedger, Goto, TypeOK
    <2> QED
      BY <1>1, <1>2, <1>3, <2>1, OnTheWayOut DEF Same, SameLists
  <1>4. CASE pc'[c] = "match"
    <2>1. /\ pc[c] = "fetchLG"
          /\ todo'[c] = gwTxns[c]
          /\ totals'[c] = [gw |-> Cardinality(gwTxns[c]), lg |-> Cardinality(lgTxns'[c])]
      BY <1>4 DEF FetchLedger, Goto, TypeOK
    <2>2. /\ MatchesOf(c)' = {} /\ ReportedGW(c)' = {} /\ ReportedLG(c)' = {}
          /\ matchedGW'[c] = {} /\ matchedLG'[c] = {}
          /\ matchedCount'[c] = 0 /\ unmatchedGW'[c] = 0 /\ unmatchedLG'[c] = 0
      BY <1>1, <1>2, <2>1 DEF CallInv, NothingYet, BeforeMatching, SameMatches,
                              SameReports, SameMarks, SameCounts
    <2>3. runs'[c].status \notin Settled
      BY <1>2, <2>1 DEF CallInv, SettledLate
    <2>4. NothingYet(c)' /\ SettledLate(c)'
      BY <1>4, <2>3 DEF NothingYet, SettledLate, BeforeMatching
    <2>5. FromFetched(c)' /\ OncePerRun(c)' /\ Overtaken(c)' /\ MarksAgree(c)'
      BY <2>2 DEF FromFetched, OncePerRun, Overtaken, MarksAgree
    <2>6. ReportsAgree(c)'
      BY <1>2, <1>4, <2>1, <2>2, <2>3 DEF ReportsAgree, OpenGW, Settled
    <2>7. CountsAgree(c)'
      BY <1>2, <2>1, <2>2, <2>3, FS_EmptySet DEF CountsAgree, Settled
    <2>8. VisitedInOrder(c)' /\ LeftRefused(c)'
      BY <1>2, <1>4, <2>1 DEF VisitedInOrder, LeftRefused, OpenGW
    <2> QED
      BY <2>4, <2>5, <2>6, <2>7, <2>8 DEF CallInv
  <1> QED
    BY <1>3, <1>4 DEF FetchLedger, Goto, TypeOK

\* The row of a match joins the others of its run: its sides are fetched and
\* free, and a better candidate is taken by one the loop visited before.
LEMMA NewRowFits ==
    ASSUME TypeOK, NEW c \in Calls, CallInv(c), pc[c] = "match",
           NEW g \in Earliest(todo[c]), NEW l \in BestOfAll(g, Candidates(c)),
           NEW m, m = [gw |-> g, lg |-> l, run |-> c],
           matches' \in {matches, matches \cup {m}},
           gwTxns'[c] = gwTxns[c], lgTxns'[c] = lgTxns[c]
    PROVE  /\ FromFetched(c)' /\ OncePerRun(c)' /\ Overtaken(c)'
           /\ g \in OpenGW(c) /\ l \in OpenLG(c) /\ m \notin MatchesOf(c)
  <1>1. g \in todo[c] /\ todo[c] \subseteq OpenGW(c)
    BY DEF Earliest, CallInv, ReportsAgree
  <1>2. g \in OpenGW(c) /\ l \in OpenLG(c)
    BY <1>1, BestIsBest DEF Candidates, OpenLG
  <1>3. /\ matchedGW[c] = {n.gw : n \in MatchesOf(c)}
        /\ matchedLG[c] = {n.lg : n \in MatchesOf(c)}
    BY DEF CallInv, MarksAgree, Sound
  <1>4. \A n \in MatchesOf(c) : n.gw # g /\ n.lg # l
    BY <1>2, <1>3 DEF OpenGW, OpenLG
  <1>5. MatchesOf(c)' \in {MatchesOf(c), MatchesOf(c) \cup {m}}
    BY DEF MatchesOf
  <1>6. FromFetched(c)'
    BY <1>2, <1>5 DEF CallInv, FromFetched, OpenGW, OpenLG
  <1>7. OncePerRun(c)'
    BY <1>4, <1>5 DEF CallInv, OncePerRun
  <1>8. ASSUME NEW k \in lgTxns[c], Confidence(g, k) > Confidence(g, l)
        PROVE  \E n \in MatchesOf(c) :
                  n.lg = k /\ Txn[n.gw].occurredAt <= Txn[g].occurredAt
    <2>1. k \in matchedLG[c]
      BY <1>8, BestIsBest DEF Candidates
    <2>2. PICK n \in MatchesOf(c) : n.lg = k
      BY <1>3, <2>1
    <2>3. n.gw \in gwTxns[c] \ todo[c]
      BY <1>1, <1>3 DEF CallInv, FromFetched, OpenGW
    <2>4. Txn[n.gw].occurredAt <= Txn[g].occurredAt
      BY <1>1, <2>3 DEF CallInv, VisitedInOrder
    <2> QED
      BY <2>2, <2>4
  <1>9. Overtaken(c)'
    BY <1>5, <1>8 DEF CallInv, Overtaken
  <1> QED
    BY <1>2, <1>4, <1>6, <1>7, <1>9

\* The loop moves on past g: nothing left before g in time is left to visit.
LEMMA VisitedKeeps ==
    ASSUME TypeOK, NEW c \in Calls, CallInv(c), pc[c] = "match",
           NEW g \in Earliest(todo[c]),
           gwTxns'[c] = gwTxns[c], todo'[c] = todo[c] \ {g}
    PROVE  VisitedInOrder(c)'
  BY DEF CallInv, VisitedInOrder, Earliest

LEMMA SkipKeeps ==
    ASSUME TypeOK, NEW c \in Calls, CallInv(c), pc[c] = "match", MatchNext(c),
           NEW g \in Earliest(todo[c]), BestOfAll(g, Candidates(c)) = {}, Skip(c, g)
    PROVE  CallInv(c)'
  <1>1. SameMatches(c) /\ SameReports(c)
    BY SameRows DEF MatchNext, Skip
  <1>2. /\ SameLists(c) /\ SameMarks(c) /\ SameCounts(c) /\ runs'[c] = runs[c]
        /\ pc'[c] = "match" /\ todo'[c] = todo[c] \ {g}
    BY DEF MatchNext, Skip, SameLists, SameMarks, SameCounts, lists, marks, counts, TypeOK
  <1>3. runs[c].status \notin Settled
    BY DEF CallInv, SettledLate
  <1>4. NothingYet(c)' /\ SettledLate(c)'
    BY <1>2, <1>3 DEF NothingYet, SettledLate, BeforeMatching
  <1>5. FromFetched(c)' /\ OncePerRun(c)' /\ Overtaken(c)' /\ MarksAgree(c)'
    BY <1>1, <1>2 DEF CallInv, FromFetched, OncePerRun, Overtaken, MarksAgree, Sound,
                      SameMatches, SameLists, SameMarks
  <1>6. ReportsAgree(c)'
    BY <1>1, <1>2, <1>3 DEF CallInv, ReportsAgree, OpenGW, SameReports, SameLists,
                            SameMarks, Settled
  <1>7. CountsAgree(c)'
    BY <1>1, <1>2, <1>3 DEF CallInv, CountsAgree, Sound, SameReports, SameMatches,
                            SameLists, SameMarks, SameCounts, Settled
  <1>8. VisitedInOrder(c)'
    BY <1>2, VisitedKeeps DEF SameLists
  <1>9. LeftRefused(c)'
    <2>1. \A l \in OpenLG(c) : ~Acceptable(g, l)
      BY NoBestMeansNoneAcceptable DEF Candidates, OpenLG
    <2>2. OpenGW(c)' = OpenGW(c) /\ OpenLG(c)' = OpenLG(c)
      BY <1>2 DEF OpenGW, OpenLG, SameLists, SameMarks
    <2>3. \A h \in OpenGW(c) \ todo[c], l \in OpenLG(c) : ~Acceptable(h, l)
      BY DEF CallInv, LeftRefused
    <2> QED
      BY <1>2, <2>1, <2>2, <2>3 DEF LeftRefused
  <1> QED
    BY <1>4, <1>5, <1>6, <1>7, <1>8, <1>9 DEF CallInv

LEMMA InsertKeeps ==
    ASSUME TypeOK, NEW c \in Calls, CallInv(c), pc[c] = "match", MatchNext(c),
           NEW g \in Earliest(todo[c]), NEW l \in BestOfAll(g, Candidates(c)),
           InsertMatch(c, g, l)
    PROVE  CallInv(c)'
  <1> DEFINE m == [gw |-> g, lg |-> l, run |-> c]
  <1>1. /\ SameLists(c) /\ SameCounts(c) /\ SameReports(c) /\ runs'[c] = runs[c]
    BY DEF MatchNext, SameLists, SameCounts, SameReports, lists, counts,
           ReportedGW, ReportedLG, ReportedBy
  <1>2. runs[c].status \notin Settled
    BY DEF CallInv, SettledLate
  <1>3. /\ FromFetched(c)' /\ OncePerRun(c)' /\ Overtaken(c)'
        /\ g \in OpenGW(c) /\ l \in OpenLG(c) /\ m \notin MatchesOf(c)
    BY <1>1, MatchedRows, NewRowFits DEF SameLists
  <1>4. CASE pc'[c] = "fail"
    <2>1. ~Sound(c)'
      BY <1>1, <1>2, <1>4 DEF Sound, Settled
    <2>2. NothingYet(c)' /\ SettledLate(c)'
      BY <1>1, <1>2, <1>4 DEF NothingYet, SettledLate, BeforeMatching
    <2>3. MarksAgree(c)' /\ ReportsAgree(c)' /\ CountsAgree(c)'
          /\ VisitedInOrder(c)' /\ LeftRefused(c)'
      BY <1>1, <1>2, <1>4, <2>1 DEF MarksAgree, ReportsAgree, CountsAgree,
                                    VisitedInOrder, LeftRefused, Settled
    <2> QED
      BY <1>3, <2>2, <2>3 DEF CallInv
  <1>5. CASE pc'[c] = "match"
    <2>1. /\ matches' = matches \cup {m}
          /\ matchedGW'[c] = matchedGW[c] \cup {g}
          /\ matchedLG'[c] = matchedLG[c] \cup {l}
          /\ matchedCount'[c] = matchedCount[c] + 1
          /\ todo'[c] = todo[c] \ {g}
      BY <1>5 DEF InsertMatch, Goto, TypeOK
    <2>2. MatchesOf(c)' = MatchesOf(c) \cup {m}
      BY <2>1 DEF MatchesOf
    <2>3. NothingYet(c)' /\ SettledLate(c)'
      BY <1>1, <1>2, <1>5 DEF NothingYet, SettledLate, BeforeMatching
    <2>4. MarksAgree(c)'
      <3>1. /\ matchedGW[c] = {n.gw : n \in MatchesOf(c)}
            /\ matchedLG[c] = {n.lg : n \in MatchesOf(c)}
        BY DEF CallInv, MarksAgree, Sound
      <3>2. /\ matchedGW'[c] = {n.gw : n \in MatchesOf(c)'}
            /\ matchedLG'[c] = {n.lg : n \in MatchesOf(c)'}
        <4>1. m.gw = g /\ m.lg = l
          OBVIOUS
        <4> HIDE DEF m
        <4>2. /\ {n.gw : n \in MatchesOf(c)'} = {n.gw : n \in MatchesOf(c)} \cup {g}
              /\ {n.lg : n \in MatchesOf(c)'} = {n.lg : n \in MatchesOf(c)} \cup {l}
          BY <2>2, <4>1, SidesGrow
        <4> QED
          BY <2>1, <3>1, <4>2
      <3> QED
        BY <3>2 DEF MarksAgree
    <2>5. ReportsAgree(c)'
      BY <1>1, <1>2, <1>5, <2>1 DEF CallInv, ReportsAgree, OpenGW, SameReports,
                                    SameLists, Settled
    <2>6. CountsAgree(c)'
      <3>1. MatchesOf(c) \subseteq [gw : Txns, lg : Txns, run : Calls]
        BY DEF MatchesOf, TypeOK
      <3>2. IsFiniteSet(MatchesOf(c))
        BY <3>1, RowsAreFinite
      <3>3. Cardinality(MatchesOf(c)') = Cardinality(MatchesOf(c)) + 1
        BY <1>3, <2>2, <3>2, FS_AddElement
      <3> QED
        BY <1>1, <1>2, <1>5, <2>1, <3>3 DEF CallInv, CountsAgree, Sound, SameLists,
                                            SameCounts, SameReports, Settled
    <2>7. VisitedInOrder(c)'
      BY <1>1, <2>1, VisitedKeeps DEF SameLists
    <2>8. LeftRefused(c)'
      BY <1>1, <1>5, <2>1 DEF CallInv, LeftRefused, OpenGW, OpenLG, SameLists
    <2> QED
      BY <1>3, <2>3, <2>4, <2>5, <2>6, <2>7, <2>8 DEF CallInv
  <1> QED
    BY <1>4, <1>5 DEF InsertMatch, Goto, TypeOK

LEMMA MatchKeeps ==
    ASSUME TypeOK, NEW c \in Calls, CallInv(c), MatchNext(c)
    PROVE  CallInv(c)'
  <1>1. PICK g \in Earliest(todo[c]) :
            \/ BestOfAll(g, Candidates(c)) = {} /\ Skip(c, g)
            \/ \E l \in BestOfAll(g, Candidates(c)) : InsertMatch(c, g, l)
    BY DEF MatchNext
  <1>2. pc[c] = "match"
    BY DEF MatchNext
  <1> QED
    BY <1>1, <1>2, SkipKeeps, InsertKeeps

LEMMA NextLoopKeeps ==
    ASSUME TypeOK, NEW c \in Calls, CallInv(c), NextLoop(c)
    PROVE  CallInv(c)'
  <1>1. SameMatches(c) /\ SameReports(c)
    BY SameRows DEF NextLoop, tables
  <1>2. SameLists(c) /\ SameMarks(c) /\ SameCounts(c) /\ runs'[c] = runs[c]
    BY DEF NextLoop, SameLists, SameMarks, SameCounts, tables, lists, marks, counts
  <1>3. /\ todo[c] = {}
        /\ \/ pc[c] = "match" /\ pc'[c] = "discGW" /\ todo'[c] = OpenGW(c)
           \/ pc[c] = "discGW" /\ pc'[c] = "discLG" /\ todo'[c] = OpenLG(c)
    BY DEF NextLoop, Goto, TypeOK, OpenGW, OpenLG
  <1>4. runs[c].status \notin Settled
    BY <1>3 DEF CallInv, SettledLate
  <1>5. OpenGW(c)' = OpenGW(c) /\ OpenLG(c)' = OpenLG(c)
    BY <1>2 DEF OpenGW, OpenLG, SameLists, SameMarks
  <1>6. NothingYet(c)' /\ SettledLate(c)'
    BY <1>2, <1>3, <1>4 DEF NothingYet, SettledLate, BeforeMatching
  <1>7. FromFetched(c)' /\ OncePerRun(c)' /\ Overtaken(c)' /\ MarksAgree(c)'
    BY <1>1, <1>2, <1>3 DEF CallInv, FromFetched, OncePerRun, Overtaken, MarksAgree,
                            Sound, SameMatches, SameLists, SameMarks
  <1>8. ReportsAgree(c)'
    BY <1>1, <1>2, <1>3, <1>4, <1>5 DEF CallInv, ReportsAgree, SameReports, Settled
  <1>9. CountsAgree(c)'
    BY <1>1, <1>2, <1>3, <1>4 DEF CallInv, CountsAgree, Sound, SameReports, SameMatches,
                                  SameLists, SameMarks, SameCounts, Settled
  <1>10. VisitedInOrder(c)' /\ LeftRefused(c)'
    BY <1>3, <1>5 DEF CallInv, VisitedInOrder, LeftRefused, Sound
  <1> QED
    BY <1>6, <1>7, <1>8, <1>9, <1>10 DEF CallInv

\* A discrepancy loop that fails leaves the call with no claim on its rows.
LEMMA ReportFails ==
    ASSUME TypeOK, NEW c \in Calls, CallInv(c), pc[c] \in Loops, pc'[c] = "fail",
           runs'[c] = runs[c], SameLists(c), SameMatches(c)
    PROVE  CallInv(c)'
  <1>1. runs'[c].status \notin Settled
    BY DEF CallInv, SettledLate
  <1>2. ~Sound(c)'
    BY <1>1 DEF Sound, Settled
  <1>3. NothingYet(c)' /\ SettledLate(c)'
    BY <1>1 DEF NothingYet, SettledLate, BeforeMatching
  <1>4. FromFetched(c)' /\ OncePerRun(c)' /\ Overtaken(c)'
    BY DEF CallInv, FromFetched, OncePerRun, Overtaken, SameMatches, SameLists
  <1>5. MarksAgree(c)' /\ ReportsAgree(c)' /\ CountsAgree(c)'
        /\ VisitedInOrder(c)' /\ LeftRefused(c)'
    BY <1>1, <1>2 DEF MarksAgree, ReportsAgree, CountsAgree, VisitedInOrder,
                      LeftRefused, Settled
  <1> QED
    BY <1>3, <1>4, <1>5 DEF CallInv

\* One more discrepancy of the run, for a transaction it had not reported.
LEMMA ReportGrows ==
    ASSUME TypeOK, NEW c \in Calls, NEW t, NEW type,
           discs' = discs \cup {[tx |-> t, type |-> type, run |-> c]}
    PROVE  /\ ReportedBy(c, type)' = ReportedBy(c, type) \cup {t}
           /\ \A other : other # type => ReportedBy(c, other)' = ReportedBy(c, other)
  <1> DEFINE d == [tx |-> t, type |-> type, run |-> c]
             old(ty) == {e \in discs : e.run = c /\ e.type = ty}
             new(ty) == {e \in discs' : e.run = c /\ e.type = ty}
  <1>1. new(type) = old(type) \cup {d}
    OBVIOUS
  <1>2. \A other : other # type => new(other) = old(other)
    OBVIOUS
  <1>3. d.tx = t
    OBVIOUS
  <1>4. \A ty : /\ ReportedBy(c, ty) = {e.tx : e \in old(ty)}
                /\ ReportedBy(c, ty)' = {e.tx : e \in new(ty)}
    BY DEF ReportedBy
  <1> HIDE DEF d, old, new
  <1>5. {e.tx : e \in old(type) \cup {d}} = {e.tx : e \in old(type)} \cup {t}
    BY <1>3
  <1> QED
    BY <1>1, <1>2, <1>4, <1>5

LEMMA ReportsAreFinite ==
    ASSUME TypeOK, NEW c \in Calls, NEW type
    PROVE  IsFiniteSet(ReportedBy(c, type))
  <1>1. ReportedBy(c, type) \in SUBSET Txns
    BY DEF ReportedBy, TypeOK
  <1> QED
    BY <1>1, SizeIsNat

LEMMA ReportGatewayKeeps ==
    ASSUME TypeOK, NEW c \in Calls, CallInv(c), ReportGateway(c)
    PROVE  CallInv(c)'
  <1>1. PICK t \in Earliest(todo[c]) : InsertDiscrepancy(c, t, "unmatched_gateway")
    BY DEF ReportGateway
  <1>2. /\ SameLists(c) /\ SameMarks(c) /\ SameMatches(c) /\ runs'[c] = runs[c]
        /\ pc[c] = "discGW"
    BY DEF ReportGateway, SameLists, SameMarks, SameMatches, MatchesOf, lists, marks
  <1>3. CASE pc'[c] = "fail"
    BY <1>2, <1>3, ReportFails
  <1>4. CASE pc'[c] = "discGW"
    <2>1. /\ discs' = discs \cup {[tx |-> t, type |-> "unmatched_gateway", run |-> c]}
          /\ todo'[c] = todo[c] \ {t}
          /\ unmatchedGW'[c] = unmatchedGW[c] + 1 /\ unmatchedLG'[c] = unmatchedLG[c]
      BY <1>1, <1>4 DEF InsertDiscrepancy, ReportGateway, Goto, TypeOK
    <2>2. ReportedGW(c)' = ReportedGW(c) \cup {t} /\ ReportedLG(c)' = ReportedLG(c)
      BY <2>1, ReportGrows DEF ReportedGW, ReportedLG
    <2>3. OpenGW(c)' = OpenGW(c) /\ OpenLG(c)' = OpenLG(c)
      BY <1>2 DEF OpenGW, OpenLG, SameLists, SameMarks
    <2>4. /\ t \in todo[c] /\ todo[c] \subseteq OpenGW(c)
          /\ ReportedGW(c) = OpenGW(c) \ todo[c] /\ ReportedLG(c) = {}
      BY <1>2 DEF Earliest, CallInv, ReportsAgree
    <2>5. runs[c].status \notin Settled
      BY <1>2 DEF CallInv, SettledLate
    <2>6. NothingYet(c)' /\ SettledLate(c)'
      BY <1>2, <1>4, <2>5 DEF NothingYet, SettledLate, BeforeMatching
    <2>7. FromFetched(c)' /\ OncePerRun(c)' /\ Overtaken(c)' /\ MarksAgree(c)'
      BY <1>2, <1>4 DEF CallInv, FromFetched, OncePerRun, Overtaken, MarksAgree, Sound,
                        SameMatches, SameLists, SameMarks
    <2>8. ReportsAgree(c)'
      BY <1>2, <1>4, <2>1, <2>2, <2>3, <2>4, <2>5 DEF ReportsAgree, Settled
    <2>9. CountsAgree(c)'
      <3>1. Cardinality(ReportedGW(c)') = Cardinality(ReportedGW(c)) + 1
        BY <2>2, <2>4, ReportsAreFinite, FS_AddElement DEF ReportedGW
      <3> QED
        BY <1>2, <1>4, <2>1, <2>2, <2>5, <3>1
        DEF CallInv, CountsAgree, Sound, SameMatches, SameLists, SameMarks, Settled
    <2>10. VisitedInOrder(c)' /\ LeftRefused(c)'
      BY <1>2, <1>4, <2>3 DEF CallInv, VisitedInOrder, LeftRefused, Sound
    <2> QED
      BY <2>6, <2>7, <2>8, <2>9, <2>10 DEF CallInv
  <1> QED
    BY <1>1, <1>2, <1>3, <1>4 DEF InsertDiscrepancy, Goto, TypeOK

LEMMA ReportLedgerKeeps ==
    ASSUME TypeOK, NEW c \in Calls, CallInv(c), ReportLedger(c)
    PROVE  CallInv(c)'
  <1>1. PICK t \in Earliest(todo[c]) : InsertDiscrepancy(c, t, "unmatched_ledger")
    BY DEF ReportLedger
  <1>2. /\ SameLists(c) /\ SameMarks(c) /\ SameMatches(c) /\ runs'[c] = runs[c]
        /\ pc[c] = "discLG"
    BY DEF ReportLedger, SameLists, SameMarks, SameMatches, MatchesOf, lists, marks
  <1>3. CASE pc'[c] = "fail"
    BY <1>2, <1>3, ReportFails
  <1>4. CASE pc'[c] = "discLG"
    <2>1. /\ discs' = discs \cup {[tx |-> t, type |-> "unmatched_ledger", run |-> c]}
          /\ todo'[c] = todo[c] \ {t}
          /\ unmatchedLG'[c] = unmatchedLG[c] + 1 /\ unmatchedGW'[c] = unmatchedGW[c]
      BY <1>1, <1>4 DEF InsertDiscrepancy, ReportLedger, Goto, TypeOK
    <2>2. ReportedLG(c)' = ReportedLG(c) \cup {t} /\ ReportedGW(c)' = ReportedGW(c)
      BY <2>1, ReportGrows DEF ReportedGW, ReportedLG
    <2>3. OpenGW(c)' = OpenGW(c) /\ OpenLG(c)' = OpenLG(c)
      BY <1>2 DEF OpenGW, OpenLG, SameLists, SameMarks
    <2>4. /\ t \in todo[c] /\ todo[c] \subseteq OpenLG(c)
          /\ ReportedLG(c) = OpenLG(c) \ todo[c] /\ ReportedGW(c) = OpenGW(c)
      BY <1>2 DEF Earliest, CallInv, ReportsAgree
    <2>5. runs[c].status \notin Settled
      BY <1>2 DEF CallInv, SettledLate
    <2>6. NothingYet(c)' /\ SettledLate(c)'
      BY <1>2, <1>4, <2>5 DEF NothingYet, SettledLate, BeforeMatching
    <2>7. FromFetched(c)' /\ OncePerRun(c)' /\ Overtaken(c)' /\ MarksAgree(c)'
      BY <1>2, <1>4 DEF CallInv, FromFetched, OncePerRun, Overtaken, MarksAgree, Sound,
                        SameMatches, SameLists, SameMarks
    <2>8. ReportsAgree(c)'
      BY <1>2, <1>4, <2>1, <2>2, <2>3, <2>4, <2>5 DEF ReportsAgree, Settled
    <2>9. CountsAgree(c)'
      <3>1. Cardinality(ReportedLG(c)') = Cardinality(ReportedLG(c)) + 1
        BY <2>2, <2>4, ReportsAreFinite, FS_AddElement DEF ReportedLG
      <3> QED
        BY <1>2, <1>4, <2>1, <2>2, <2>5, <3>1
        DEF CallInv, CountsAgree, Sound, SameMatches, SameLists, SameMarks, Settled
    <2>10. VisitedInOrder(c)' /\ LeftRefused(c)'
      BY <1>2, <1>4, <2>3 DEF CallInv, VisitedInOrder, LeftRefused, Sound
    <2> QED
      BY <2>6, <2>7, <2>8, <2>9, <2>10 DEF CallInv
  <1> QED
    BY <1>1, <1>2, <1>3, <1>4 DEF InsertDiscrepancy, Goto, TypeOK

\* The last update, committed or not: the row written is the one its own
\* variables describe.
LEMMA CompleteKeeps ==
    ASSUME TypeOK, NEW c \in Calls, CallInv(c), CompleteRun(c)
    PROVE  CallInv(c)'
  <1>1. SameMatches(c) /\ SameReports(c)
    BY SameRows DEF CompleteRun
  <1>2. /\ SameLists(c) /\ SameMarks(c) /\ SameCounts(c) /\ todo'[c] = todo[c]
        /\ pc[c] = "discLG" /\ todo[c] = {} /\ pc'[c] = "unlock"
    BY DEF CompleteRun, SameLists, SameMarks, SameCounts, lists, marks, counts, Goto,
           TypeOK
  <1>3. runs'[c] \in {runs[c], CompletedRow(c)}
    BY LeavesOneOfTwo DEF CompleteRun, TypeOK
  <1>4. CASE runs'[c] = runs[c]
    BY <1>1, <1>2, <1>4, OnTheWayOut DEF Same
  <1>5. CASE runs'[c] = CompletedRow(c)
    <2>1. CompletedRow(c)' = CompletedRow(c)
      BY <1>2 DEF CompletedRow, SetStatus, SameLists, SameMarks, SameCounts
    <2>2. OpenGW(c)' = OpenGW(c) /\ OpenLG(c)' = OpenLG(c)
      BY <1>2 DEF OpenGW, OpenLG, SameLists, SameMarks
    <2>3. NothingYet(c)' /\ SettledLate(c)'
      BY <1>2 DEF NothingYet, SettledLate, BeforeMatching
    <2>4. FromFetched(c)' /\ OncePerRun(c)' /\ Overtaken(c)' /\ MarksAgree(c)'
      BY <1>1, <1>2 DEF CallInv, FromFetched, OncePerRun, Overtaken, MarksAgree, Sound,
                        SameMatches, SameLists, SameMarks
    <2>5. ReportsAgree(c)'
      BY <1>1, <1>2, <2>2 DEF CallInv, ReportsAgree, SameReports
    <2>6. CountsAgree(c)'
      BY <1>1, <1>2, <1>5, <2>1 DEF CallInv, CountsAgree, Sound, SameReports,
         SameMatches, SameLists, SameMarks, SameCounts
    <2>7. VisitedInOrder(c)' /\ LeftRefused(c)'
      BY <1>2, <2>2 DEF CallInv, VisitedInOrder, LeftRefused, Sound
    <2> QED
      BY <2>3, <2>4, <2>5, <2>6, <2>7 DEF CallInv
  <1> QED
    BY <1>3, <1>4, <1>5

LEMMA FailKeeps ==
    ASSUME TypeOK, NEW c \in Calls, CallInv(c), FailRun(c)
    PROVE  CallInv(c)'
  <1>1. SameMatches(c) /\ SameReports(c)
    BY SameRows DEF FailRun
  <1>2. /\ SameLists(c) /\ SameMarks(c) /\ SameCounts(c) /\ todo'[c] = todo[c]
        /\ pc[c] = "fail" /\ pc'[c] = "unlock"
    BY DEF FailRun, SameLists, SameMarks, SameCounts, lists, marks, counts, Goto, TypeOK
  <1>3. runs'[c] \in {runs[c], SetStatus(c, "failed", 0, 0)}
    BY LeavesOneOfTwo DEF FailRun, TypeOK
  <1>4. runs'[c].status # "completed"
    BY <1>2, <1>3 DEF CallInv, SettledLate, Settled, SetStatus
  <1>5. ~Sound(c)'
    BY <1>2, <1>4 DEF Sound
  <1>6. NothingYet(c)' /\ SettledLate(c)'
    BY <1>2 DEF NothingYet, SettledLate, BeforeMatching
  <1>7. FromFetched(c)' /\ OncePerRun(c)' /\ Overtaken(c)'
    BY <1>1, <1>2 DEF CallInv, FromFetched, OncePerRun, Overtaken, SameMatches, SameLists
  <1>8. MarksAgree(c)' /\ ReportsAgree(c)' /\ CountsAgree(c)'
        /\ VisitedInOrder(c)' /\ LeftRefused(c)'
    BY <1>2, <1>4, <1>5 DEF MarksAgree, ReportsAgree, CountsAgree, VisitedInOrder,
                            LeftRefused
  <1> QED
    BY <1>6, <1>7, <1>8 DEF CallInv

\* The environment writes nothing of a call, and moves it only by killing it.
Environment ==
    \/ \E c \in Calls : Cancel(c)
    \/ \E p \in Processes : Crash(p)
    \/ \E t \in Txns : Ingest(t)
    \/ LockExpires
    \/ UNCHANGED vars

LEMMA EnvironmentMoves ==
    ASSUME TypeOK, Environment, NEW c \in Calls
    PROVE  /\ Same(c)
           /\ pc'[c] = pc[c] \/ (pc[c] \in Active /\ pc'[c] = "killed")
           /\ endedBefore' = endedBefore
  <1>1. /\ matches' = matches /\ discs' = discs /\ runs' = runs /\ todo' = todo
        /\ UNCHANGED lists /\ UNCHANGED marks /\ UNCHANGED counts
        /\ endedBefore' = endedBefore
    BY DEF Environment, Cancel, Crash, Ingest, LockExpires, vars, tables
  <1>2. Same(c)
    BY <1>1, SameRows DEF Same, SameLists, SameMarks, SameCounts, lists, marks, counts
  <1>3. pc'[c] = pc[c] \/ (pc[c] \in Active /\ pc'[c] = "killed")
    <2>1. ASSUME NEW p \in Processes, Crash(p)
          PROVE  pc'[c] = pc[c] \/ (pc[c] \in Active /\ pc'[c] = "killed")
      BY <2>1 DEF Crash
    <2>2. (\A p \in Processes : ~Crash(p)) => pc' = pc
      BY DEF Environment, Cancel, Ingest, LockExpires, vars
    <2> QED
      BY <2>1, <2>2
  <1> QED
    BY <1>1, <1>2, <1>3

LEMMA StepKinds ==
    ASSUME [Next]_vars
    PROVE  \/ \E c \in Calls : Lock(c) \/ LockPanics(c) \/ Body(c)
           \/ Environment
  BY DEF Next, Environment

LEMMA CallInvKept ==
    ASSUME TypeOK, \A c \in Calls : CallInv(c), [Next]_vars
    PROVE  \A c \in Calls : CallInv(c)'
  <1>1. CASE Environment
    <2> SUFFICES ASSUME NEW c \in Calls PROVE CallInv(c)'
      OBVIOUS
    <2>1. Same(c) /\ (pc'[c] = pc[c] \/ pc'[c] = "killed")
      BY <1>1, EnvironmentMoves
    <2> QED
      BY <2>1, Frame, OnTheWayOut DEF Untouched
  <1>2. ASSUME NEW c \in Calls, Lock(c) \/ LockPanics(c) \/ Body(c)
        PROVE  \A d \in Calls : CallInv(d)'
    <2>1. CallInv(c)'
      BY <1>2, LockKeeps, CreateKeeps, FetchGatewayKeeps, FetchLedgerKeeps, MatchKeeps,
         NextLoopKeeps, ReportGatewayKeeps, ReportLedgerKeeps, CompleteKeeps, FailKeeps
      DEF Body
    <2>2. ASSUME NEW d \in Calls \ {c} PROVE CallInv(d)'
      BY <1>2, StepIsLocal, Frame
    <2> QED
      BY <2>1, <2>2
  <1> QED
    BY <1>1, <1>2, StepKinds

-----------------------------------------------------------------------------
(* What had ended before a call began.                                     *)

LEMMA EndedStays ==
    ASSUME TypeOK, [Next]_vars, NEW d \in Calls, pc[d] \in Ended
    PROVE  pc'[d] = pc[d] /\ SameMatches(d)
  <1>1. CASE Environment
    BY <1>1, EnvironmentMoves DEF Same
  <1>2. ASSUME NEW c \in Calls, Lock(c) \/ LockPanics(c) \/ Body(c)
        PROVE  pc'[d] = pc[d] /\ SameMatches(d)
    <2>1. pc[c] \notin Ended
      BY <1>2 DEF Body, Lock, LockPanics, CreateRun, FetchGateway, FetchLedger,
         MatchNext, NextLoop, ReportGateway, ReportLedger, CompleteRun, FailRun, Unlock
    <2>2. d \in Calls \ {c}
      BY <2>1
    <2> QED
      BY <1>2, <2>2, StepIsLocal DEF Untouched, Same
  <1> QED
    BY <1>1, <1>2, StepKinds

LEMMA ApartFrame ==
    ASSUME TypeOK, [Next]_vars, NEW c \in Calls, EarlierApart(c),
           endedBefore'[c] = endedBefore[c],
           gwTxns'[c] = gwTxns[c], lgTxns'[c] = lgTxns[c]
    PROVE  EarlierApart(c)'
  <1>1. endedBefore[c] \subseteq Calls
    BY DEF TypeOK
  <1>2. \A d \in endedBefore[c] : pc'[d] = pc[d] /\ MatchesOf(d)' = MatchesOf(d)
    BY <1>1, EndedStays DEF EarlierApart, SameMatches
  <1> QED
    BY <1>2 DEF EarlierApart

\* A fetch never returns what an ended run has matched.
LEMMA FoundApart ==
    ASSUME TypeOK, NEW c \in Calls, NEW source, NEW d \in Calls, NEW m \in MatchesOf(d)
    PROVE  {m.gw, m.lg} \cap FindUnmatched(c, source) = {}
  <1>1. m.gw \in MatchedIDs /\ m.lg \in MatchedIDs
    BY DEF MatchesOf, MatchedIDs
  <1> QED
    BY <1>1, FoundIsFree

LEMMA EarlierApartKept ==
    ASSUME TypeOK, [Next]_vars, NEW c \in Calls, CallInv(c), EarlierApart(c)
    PROVE  EarlierApart(c)'
  <1>1. endedBefore[c] \subseteq Calls
    BY DEF TypeOK
  <1>2. CASE Environment
    BY <1>2, EnvironmentMoves, ApartFrame DEF Same, SameLists
  <1>3. ASSUME NEW d \in Calls \ {c}, Lock(d) \/ LockPanics(d) \/ Body(d)
        PROVE  EarlierApart(c)'
    <2>1. Untouched(c)
      BY <1>3, StepIsLocal
    <2>2. endedBefore'[c] = endedBefore[c]
      BY <1>3 DEF Body, Lock, LockPanics, CreateRun, FetchGateway, FetchLedger,
         MatchNext, NextLoop, ReportGateway, ReportLedger, CompleteRun, FailRun, Unlock,
         TypeOK
    <2> QED
      BY <2>1, <2>2, ApartFrame DEF Untouched, Same, SameLists
  <1>4. CASE Lock(c)
    <2>1. gwTxns'[c] = {} /\ lgTxns'[c] = {}
      BY <1>4 DEF Lock, CallInv, NothingYet, BeforeMatching, lists
    <2>2. endedBefore'[c] = {d \in Calls : pc[d] \in Ended}
      BY <1>4 DEF Lock, TypeOK
    <2>3. \A d \in endedBefore'[c] : pc'[d] \in Ended
      BY <2>2, EndedStays
    <2> QED
      BY <2>1, <2>3 DEF EarlierApart
  <1>5. CASE FetchGateway(c) \/ FetchLedger(c)
    <2>1. endedBefore'[c] = endedBefore[c]
      BY <1>5 DEF FetchGateway, FetchLedger
    <2>2. /\ gwTxns'[c] \in {gwTxns[c], FindUnmatched(c, Request[c].gw)}
          /\ lgTxns'[c] \in {lgTxns[c], FindUnmatched(c, Request[c].lg)}
      BY <1>5 DEF FetchGateway, FetchLedger, TypeOK
    <2>3. ASSUME NEW d \in endedBefore[c]
          PROVE  /\ pc'[d] \in Ended
                 /\ \A m \in MatchesOf(d)' :
                       {m.gw, m.lg} \cap (gwTxns'[c] \cup lgTxns'[c]) = {}
      <3>1. d \in Calls /\ pc[d] \in Ended
        BY <1>1 DEF EarlierApart
      <3>2. pc'[d] = pc[d] /\ MatchesOf(d)' = MatchesOf(d)
        BY <3>1, EndedStays DEF SameMatches
      <3>3. \A m \in MatchesOf(d) :
                {m.gw, m.lg} \cap (gwTxns[c] \cup lgTxns[c]) = {}
        BY DEF EarlierApart
      <3>4. \A m \in MatchesOf(d) :
                /\ {m.gw, m.lg} \cap FindUnmatched(c, Request[c].gw) = {}
                /\ {m.gw, m.lg} \cap FindUnmatched(c, Request[c].lg) = {}
        BY <3>1, FoundApart
      <3> QED
        BY <2>2, <3>1, <3>2, <3>3, <3>4
    <2> QED
      BY <2>1, <2>3 DEF EarlierApart
  <1>6. CASE LockPanics(c) \/ (Body(c) /\ ~FetchGateway(c) /\ ~FetchLedger(c))
    <2>1. /\ endedBefore'[c] = endedBefore[c]
          /\ gwTxns'[c] = gwTxns[c] /\ lgTxns'[c] = lgTxns[c]
      BY <1>6 DEF Body, LockPanics, CreateRun, MatchNext, NextLoop, ReportGateway,
         ReportLedger, CompleteRun, FailRun, Unlock, lists
    <2> QED
      BY <2>1, ApartFrame
  <1> QED
    BY <1>2, <1>3, <1>4, <1>5, <1>6, StepKinds

-----------------------------------------------------------------------------
(* The invariant, and what it implies.                                     *)

LEMMA InitInv == Init => IInv
  <1> SUFFICES ASSUME Init PROVE IInv
    OBVIOUS
  <1>1. ASSUME NEW c \in Calls PROVE CallInv(c) /\ EarlierApart(c)
    <2>1. /\ pc[c] = "idle" /\ runs[c].status = "none" /\ endedBefore[c] = {}
          /\ gwTxns[c] = {} /\ lgTxns[c] = {} /\ matchedGW[c] = {} /\ matchedLG[c] = {}
          /\ matchedCount[c] = 0 /\ unmatchedGW[c] = 0 /\ unmatchedLG[c] = 0
      BY DEF Init, NoRun
    <2>2. MatchesOf(c) = {} /\ ReportedGW(c) = {} /\ ReportedLG(c) = {}
      BY DEF Init, MatchesOf, ReportedGW, ReportedLG, ReportedBy
    <2>3. ~Sound(c)
      BY <2>1 DEF Sound
    <2>4. NothingYet(c) /\ SettledLate(c) /\ EarlierApart(c)
      BY <2>1, <2>2 DEF NothingYet, SettledLate, Settled, EarlierApart
    <2>5. FromFetched(c) /\ OncePerRun(c) /\ Overtaken(c)
      BY <2>2 DEF FromFetched, OncePerRun, Overtaken
    <2>6. MarksAgree(c) /\ ReportsAgree(c) /\ CountsAgree(c)
          /\ VisitedInOrder(c) /\ LeftRefused(c)
      BY <2>1, <2>3 DEF MarksAgree, ReportsAgree, CountsAgree, VisitedInOrder, LeftRefused
    <2> QED
      BY <2>4, <2>5, <2>6 DEF CallInv
  <1> QED
    BY <1>1, InitTyped DEF IInv

LEMMA StepInv == IInv /\ [Next]_vars => IInv'
  <1> SUFFICES ASSUME IInv, [Next]_vars PROVE IInv'
    OBVIOUS
  <1>1. TypeOK /\ TypeOK'
    BY StepTyped DEF IInv
  <1>2. \A c \in Calls : CallInv(c)'
    BY <1>1, CallInvKept DEF IInv
  <1>3. ASSUME NEW c \in Calls PROVE EarlierApart(c)'
    BY <1>1, EarlierApartKept DEF IInv
  <1> QED
    BY <1>1, <1>2, <1>3 DEF IInv

\* The inductive invariant holds in every reachable state.
THEOREM Invariance == Spec => []IInv
  BY InitInv, StepInv, PTL DEF Spec

\* No run uses a transaction twice on the same side (matchedGW and matchedLG
\* of Reconcile), whatever fails and however runs overlap.
THEOREM OncePerRunHolds == Spec => []MatchedOncePerRun
  <1>1. IInv => MatchedOncePerRun
    <2> SUFFICES ASSUME IInv, NEW m \in matches, NEW n \in matches,
                        m.run = n.run, m.gw = n.gw \/ m.lg = n.lg
                 PROVE  m = n
      BY DEF MatchedOncePerRun
    <2>1. m.run \in Calls /\ m \in MatchesOf(m.run) /\ n \in MatchesOf(m.run)
      BY DEF IInv, TypeOK, MatchesOf
    <2> QED
      BY <2>1 DEF IInv, CallInv, OncePerRun
  <1> QED
    BY <1>1, Invariance, PTL

\* The row that Reconcile completes agrees with the tables: each fetched
\* transaction is matched or reported, and the counters are their numbers.
THEOREM AccountsHold == Spec => []CompletedRunAccounts
  <1>1. IInv => CompletedRunAccounts
    <2> SUFFICES ASSUME IInv, NEW c \in Calls, runs[c].status = "completed"
                 PROVE  /\ {m.gw : m \in MatchesOf(c)} \cap ReportedGW(c) = {}
                        /\ {m.gw : m \in MatchesOf(c)} \cup ReportedGW(c) = gwTxns[c]
                        /\ {m.lg : m \in MatchesOf(c)} \cap ReportedLG(c) = {}
                        /\ {m.lg : m \in MatchesOf(c)} \cup ReportedLG(c) = lgTxns[c]
                        /\ runs[c].matched = Cardinality(MatchesOf(c))
                        /\ runs[c].discs = Cardinality(ReportedGW(c))
                                           + Cardinality(ReportedLG(c))
                        /\ runs[c].totalGW = Cardinality(gwTxns[c])
                        /\ runs[c].totalLG = Cardinality(lgTxns[c])
      BY DEF CompletedRunAccounts, ReportedGW, ReportedLG
    <2>1. Sound(c) /\ CallInv(c)
      BY DEF Sound, IInv
    <2>2. /\ ReportedGW(c) = gwTxns[c] \ {m.gw : m \in MatchesOf(c)}
          /\ ReportedLG(c) = lgTxns[c] \ {m.lg : m \in MatchesOf(c)}
      BY <2>1 DEF CallInv, MarksAgree, ReportsAgree, OpenGW, OpenLG
    <2>3. /\ {m.gw : m \in MatchesOf(c)} \subseteq gwTxns[c]
          /\ {m.lg : m \in MatchesOf(c)} \subseteq lgTxns[c]
      BY <2>1 DEF CallInv, FromFetched
    <2>4. /\ runs[c].matched = Cardinality(MatchesOf(c))
          /\ runs[c].discs = Cardinality(ReportedGW(c)) + Cardinality(ReportedLG(c))
          /\ runs[c].totalGW = Cardinality(gwTxns[c])
          /\ runs[c].totalLG = Cardinality(lgTxns[c])
      BY <2>1 DEF CallInv, CountsAgree, CompletedRow, SetStatus
    <2> QED
      BY <2>2, <2>3, <2>4
  <1> QED
    BY <1>1, Invariance, PTL

\* A completed run reports no pair that its rules accept: the greedy loop of
\* Reconcile leaves a maximal matching.
THEOREM MaximalHolds == Spec => []MatchingIsMaximal
  <1>1. IInv => MatchingIsMaximal
    <2> SUFFICES ASSUME IInv, NEW c \in Calls, runs[c].status = "completed",
                        NEW g \in ReportedGW(c), NEW l \in ReportedLG(c)
                 PROVE  ~Acceptable(g, l)
      BY DEF MatchingIsMaximal, ReportedGW, ReportedLG
    <2>1. CallInv(c) /\ Sound(c) /\ pc[c] # "match"
      BY DEF IInv, CallInv, SettledLate, Settled, Sound
    <2>2. g \in OpenGW(c) /\ l \in OpenLG(c)
      BY <2>1 DEF CallInv, ReportsAgree
    <2> QED
      BY <2>1, <2>2 DEF CallInv, LeftRefused
  <1> QED
    BY <1>1, Invariance, PTL

\* ScoreAll's order is respected: a better candidate is passed over only when
\* a gateway transaction that is not later has taken it.
THEOREM NoOvertakingHolds == Spec => []NoOvertaking
  <1>1. IInv => NoOvertaking
    <2> SUFFICES ASSUME IInv, NEW m \in matches, NEW l \in lgTxns[m.run],
                        Confidence(m.gw, l) > Confidence(m.gw, m.lg)
                 PROVE  \E n \in MatchesOf(m.run) :
                            n.lg = l /\ Txn[n.gw].occurredAt <= Txn[m.gw].occurredAt
      BY DEF NoOvertaking
    <2>1. m.run \in Calls /\ m \in MatchesOf(m.run)
      BY DEF IInv, TypeOK, MatchesOf
    <2> QED
      BY <2>1 DEF IInv, CallInv, Overtaken
  <1> QED
    BY <1>1, Invariance, PTL

\* Runs whose calls did not overlap share no transaction: FindUnmatched keeps
\* out of reach whatever was matched before, by runs that failed as well.
THEOREM RunsApartHold == Spec => []RunsApartShareNothing
  <1>1. IInv => RunsApartShareNothing
    <2> SUFFICES ASSUME IInv, NEW m \in matches, NEW n \in matches,
                        m.run \in endedBefore[n.run]
                 PROVE  {m.gw, m.lg} \cap {n.gw, n.lg} = {}
      BY DEF RunsApartShareNothing
    <2>1. n.run \in Calls /\ m \in MatchesOf(m.run) /\ n \in MatchesOf(n.run)
      BY DEF IInv, TypeOK, MatchesOf
    <2>2. {m.gw, m.lg} \cap (gwTxns[n.run] \cup lgTxns[n.run]) = {}
      BY <2>1 DEF IInv, EarlierApart
    <2>3. n.gw \in gwTxns[n.run] /\ n.lg \in lgTxns[n.run]
      BY <2>1 DEF IInv, CallInv, FromFetched
    <2> QED
      BY <2>2, <2>3
  <1> QED
    BY <1>1, Invariance, PTL

LEMMA StepGrowsRows ==
    ASSUME TypeOK, [Next]_vars
    PROVE  matches \subseteq matches' /\ discs \subseteq discs'
  <1>1. CASE Environment
    BY <1>1 DEF Environment, Cancel, Crash, Ingest, LockExpires, vars, tables
  <1> QED
    BY <1>1, StepKinds, StepGrowsOwnRows

LEMMA SettledIsSame ==
    ASSUME IInv, [Next]_vars, NEW c \in Calls, runs[c].status \in Settled
    PROVE  Same(c)
  <1>1. pc[c] \in {"unlock"} \cup Ended /\ TypeOK
    BY DEF IInv, CallInv, SettledLate
  <1>2. CASE Environment
    BY <1>1, <1>2, EnvironmentMoves
  <1>3. ASSUME NEW d \in Calls \ {c}, Lock(d) \/ LockPanics(d) \/ Body(d)
        PROVE  Same(c)
    BY <1>1, <1>3, StepIsLocal DEF Untouched
  <1>4. CASE Lock(c) \/ LockPanics(c) \/ Body(c)
    <2>1. Unlock(c)
      BY <1>1, <1>4 DEF Body, Lock, LockPanics, CreateRun, FetchGateway, FetchLedger,
         MatchNext, NextLoop, ReportGateway, ReportLedger, CompleteRun, FailRun
    <2>2. matches' = matches /\ discs' = discs
      BY <2>1 DEF Unlock, tables
    <2> QED
      BY <2>1, <2>2, SameRows DEF Same, SameLists, SameMarks, SameCounts, Unlock,
         tables, lists, marks, counts
  <1> QED
    BY <1>2, <1>3, <1>4, StepKinds

\* Nothing updates a run once it is settled, nor adds a row to it, and no step
\* removes a match or a discrepancy.
THEOREM FrozenHolds == Spec => SettledRunIsFrozen
  <1> DEFINE frozen ==
        /\ matches \subseteq matches' /\ discs \subseteq discs'
        /\ \A c \in Calls : runs[c].status \in Settled =>
              /\ runs'[c] = runs[c]
              /\ \A m \in matches' \ matches : m.run # c
              /\ \A d \in discs' \ discs : d.run # c
  <1>1. ASSUME IInv, [Next]_vars PROVE frozen
    <2>1. matches \subseteq matches' /\ discs \subseteq discs'
      BY <1>1, StepGrowsRows DEF IInv
    <2>2. ASSUME NEW c \in Calls, runs[c].status \in Settled
          PROVE  /\ runs'[c] = runs[c]
                 /\ \A m \in matches' \ matches : m.run # c
                 /\ \A d \in discs' \ discs : d.run # c
      <3>1. Same(c)
        BY <1>1, <2>2, SettledIsSame
      <3>2. \A m \in matches' \ matches : m.run # c
        BY <3>1 DEF Same, SameMatches, MatchesOf
      <3>3. ASSUME NEW d \in discs' \ discs, d.run = c PROVE FALSE
        <4>1. \A e \in discs \cup {d} :
                 e \in [tx : Txns, run : Calls,
                        type : {"unmatched_gateway", "unmatched_ledger"}]
          BY <1>1, StepTyped DEF IInv, TypeOK
        <4>2. d.tx \in ReportedBy(c, d.type)'
          BY <3>3 DEF ReportedBy
        <4>3. ReportedBy(c, d.type)' = ReportedBy(c, d.type)
          <5>1. CASE d.type = "unmatched_gateway"
            BY <3>1, <5>1 DEF Same, SameReports, ReportedGW
          <5>2. CASE d.type = "unmatched_ledger"
            BY <3>1, <5>2 DEF Same, SameReports, ReportedLG
          <5> QED
            BY <4>1, <5>1, <5>2
        <4>4. PICK e \in discs : e.tx = d.tx /\ e.run = c /\ e.type = d.type
          BY <4>2, <4>3 DEF ReportedBy
        <4>5. e = d
          BY <3>3, <4>1, <4>4
        <4> QED
          BY <4>4, <4>5
      <3> QED
        BY <3>1, <3>2, <3>3 DEF Same
    <2> QED
      BY <2>1, <2>2
  <1> QED
    BY <1>1, Invariance, PTL DEF Spec, SettledRunIsFrozen

\* While nothing has failed, no context is cancelled and the owner of the key
\* has a call under way.
FaultFree == faults = 0 => ctxDone = {} /\ KeyHasActiveOwner

\* A step of a call without a fault: no store call fails.
LEMMA NoFaultNoError ==
    ASSUME TypeOK, FaultFree, NEW c \in Calls, faults' = 0, Answers(c) \/ CallFails(c)
    PROVE  faults = 0 /\ ctxDone = {} /\ ~CallFails(c)
  <1>1. faults \in Nat
    BY CallAssumption DEF TypeOK
  <1> QED
    BY <1>1 DEF FaultFree, Answers, CallFails

LEMMA CallStepFaultFree ==
    ASSUME TypeOK, FaultFree, faults' = 0, NEW c \in Calls,
           Lock(c) \/ LockPanics(c) \/ Body(c)
    PROVE  /\ faults = 0 /\ ctxDone' = {}
           /\ \/ lock' = lock /\ (pc[c] \in Active => pc'[c] \in Active)
              \/ lock' = Process[c] /\ pc'[c] \in Active
              \/ lock' = lock /\ lock # Process[c]
              \/ lock' = NoOwner
  <1>1. CASE Lock(c)
    BY <1>1, NoFaultNoError DEF Lock, SetNX, Goto, TypeOK, world
  <1>2. CASE LockPanics(c)
    BY <1>2 DEF LockPanics, FaultFree
  <1>3. CASE Unlock(c)
    BY <1>3, NoFaultNoError DEF Unlock, CompareAndDelete, world
  <1>4. CASE CreateRun(c) \/ FetchGateway(c) \/ FetchLedger(c)
    BY <1>4, NoFaultNoError DEF CreateRun, FetchGateway, FetchLedger, Goto, TypeOK, world
  <1>5. CASE MatchNext(c)
    <2>1. lock' = lock /\ ctxDone' = ctxDone /\ pc'[c] \in {pc[c], "fail"}
      BY <1>5 DEF MatchNext, Skip, InsertMatch, Goto, TypeOK, world
    <2>2. faults' = faults \/ Answers(c) \/ CallFails(c)
      BY <1>5 DEF MatchNext, Skip, InsertMatch
    <2> QED
      BY <2>1, <2>2, NoFaultNoError DEF FaultFree
  <1>6. CASE NextLoop(c)
    BY <1>6 DEF NextLoop, Goto, TypeOK, world, FaultFree
  <1>7. CASE ReportGateway(c) \/ ReportLedger(c)
    <2>1. lock' = lock /\ ctxDone' = ctxDone /\ pc'[c] \in {pc[c], "fail"}
      BY <1>7 DEF ReportGateway, ReportLedger, InsertDiscrepancy, Goto, TypeOK, world
    <2>2. Answers(c) \/ CallFails(c)
      BY <1>7 DEF ReportGateway, ReportLedger, InsertDiscrepancy
    <2> QED
      BY <2>1, <2>2, NoFaultNoError
  <1>8. CASE CompleteRun(c) \/ FailRun(c)
    BY <1>8, NoFaultNoError DEF CompleteRun, FailRun, Goto, TypeOK, world
  <1> QED
    BY <1>1, <1>2, <1>3, <1>4, <1>5, <1>6, <1>7, <1>8 DEF Body

LEMMA FaultFreeKept ==
    ASSUME TypeOK, FaultFree, [Next]_vars
    PROVE  FaultFree'
  <1> SUFFICES ASSUME faults' = 0
               PROVE  /\ ctxDone' = {}
                      /\ lock' # NoOwner =>
                            \E d \in Calls : Process[d] = lock' /\ pc'[d] \in Active
    BY DEF FaultFree, KeyHasActiveOwner
  <1>1. CASE Environment
    <2>1. faults \in Nat
      BY CallAssumption DEF TypeOK
    <2>2. (\A c \in Calls : ~Cancel(c)) /\ (\A p \in Processes : ~Crash(p))
      BY <2>1 DEF Cancel, Crash
    <2>3. \/ \E t \in Txns : Ingest(t)
          \/ LockExpires
          \/ UNCHANGED vars
      BY <1>1, <2>2 DEF Environment
    <2>4. /\ faults' = faults /\ pc' = pc /\ ctxDone' = ctxDone
          /\ lock' \in {lock, NoOwner}
      BY <2>3 DEF Ingest, LockExpires, vars, world
    <2> QED
      BY <2>4 DEF FaultFree, KeyHasActiveOwner
  <1>2. ASSUME NEW c \in Calls, Lock(c) \/ LockPanics(c) \/ Body(c)
        PROVE  /\ ctxDone' = {}
               /\ lock' # NoOwner =>
                     \E d \in Calls : Process[d] = lock' /\ pc'[d] \in Active
    <2>1. \A d \in Calls \ {c} : pc'[d] = pc[d]
      BY <1>2, StepIsLocal DEF Untouched
    <2>2. lock # NoOwner => \E d \in Calls : Process[d] = lock /\ pc[d] \in Active
      BY <1>2, CallStepFaultFree DEF FaultFree, KeyHasActiveOwner
    <2> QED
      BY <1>2, <2>1, <2>2, CallStepFaultFree
  <1> QED
    BY <1>1, <1>2, StepKinds

\* Every way out of Reconcile after the deferred Unlock gives the key back, so
\* without a fault a held key has a call of its owner under way.
THEOREM KeyHolds == Spec => []KeyHasActiveOwner
  <1>1. Init => FaultFree
    BY DEF Init, FaultFree, KeyHasActiveOwner
  <1>2. IInv /\ FaultFree /\ [Next]_vars => FaultFree'
    BY FaultFreeKept DEF IInv
  <1>3. FaultFree => KeyHasActiveOwner
    BY DEF FaultFree, KeyHasActiveOwner
  <1> QED
    BY <1>1, <1>2, <1>3, Invariance, PTL DEF Spec
=============================================================================
