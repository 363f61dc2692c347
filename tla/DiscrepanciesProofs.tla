------------------------- MODULE DiscrepanciesProofs -------------------------
(***************************************************************************)
(* The life of discrepancies, for any calls, any transactions, any clock   *)
(* and any faults.                                                         *)
(*                                                                         *)
(* The invariant says of each call what its local variables mean of the    *)
(* rows, and the proof goes in two halves: what one step of a call may do  *)
(* to the rows (RowsStep), and that this leaves alone what every other     *)
(* call relies on (OthersKept).                                            *)
(***************************************************************************)
EXTENDS Discrepancies, FiniteSetTheorems, TLAPS

RowType == [status : Statuses, severity : 1 .. 4, ageDays : 0 .. MaxDay,
            created : 0 .. MaxDay, by : Calls \cup {NoCall}]
RunType == [status : {"none", "running", "completed", "failed"},
            started : 0 .. MaxDay, ended : 0 .. MaxDay, count : Nat]
ReportType == [total : Nat, of : SUBSET Calls, listed : SUBSET Rows]
Reads(c) == Kind[c] \in {"auto", "age"}

\* The types, with those of what TypeOK leaves out, and that nothing read from
\* the clock lies in the future.
Typed ==
    /\ TypeOK
    /\ today \in 0 .. MaxDay /\ now \in [Calls -> 0 .. MaxDay]
    /\ list \in [Calls -> SUBSET (Rows \cup (Rows \X RowType))]
    /\ \A c \in Calls : list[c] \subseteq IF Reads(c) THEN Rows \X RowType ELSE {c} \X Txns
    /\ report \in [Calls -> ReportType]
    /\ \A c \in Calls : now[c] <= today
    /\ \A r \in Rows : disc[r] # NoRow => disc[r].created <= today

NoAgeOverlap == \A a, b \in Calls : Kind[a] = "age" /\ Kind[b] = "age" => b \notin overlap[a]

\* A row that a call is still to insert is not there.
ToCome(c) ==
    /\ Kind[c] = "prevent" /\ pc[c] \in {"idle", "begun", "inserts"}
          => \A t \in Txns : disc[<<c, t>>] = NoRow
    /\ Kind[c] = "reconcile" /\ pc[c] \in {"idle", "begun"}
          => \A t \in Txns : disc[<<c, t>>] = NoRow
    /\ Kind[c] = "reconcile" /\ pc[c] = "reports"
          => \A t \in Txns : <<c, t>> \in list[c] => disc[<<c, t>>] = NoRow

\* A call decides on a row once.
Acted(c) ==
    \A r \in Rows : disc[r].by = c =>
        \/ Kind[c] \in {"patch", "resolve"} /\ pc[c] \in {"ended", "failed"}
        \/ /\ Kind[c] = "auto" /\ pc[c] \in {"found", "ended", "failed"}
           /\ \A x \in list[c] : x[1] # r

\* What AutoResolve and AgeOpenDiscrepancies have read of a row, once.
ReadOnce(c) ==
    Reads(c) =>
        /\ pc[c] \in {"idle", "begun"} => list[c] = {}
        /\ \A x, y \in list[c] : x[1] = y[1] => x = y
        /\ \A x \in list[c] : disc[x[1]] # NoRow /\ x[2].created = disc[x[1]].created
        /\ Kind[c] = "age" /\ pc[c] = "ages" => \A x \in list[c] : x[2].created <= now[c]

\* Rows that nobody has decided on since a call began were there already.
WereThere(c) ==
    /\ \A r \in untouched[c] : disc[r] # NoRow
    /\ Kind[c] = "auto" => \A x \in list[c] :
          x[1] \in untouched[c] => disc[x[1]].status = "open"
    /\ Kind[c] = "prevent" /\ pc[c] = "inserts" => \A r \in untouched[c] :
          r[2] \in Concerns[c] => disc[r].status # "open"

\* As severe as the age at a call asks.
Severe(c, r) ==
    /\ now[c] - disc[r].created > HighAge => disc[r].severity >= 3
    /\ now[c] - disc[r].created > CriticalAge => disc[r].severity = 4

\* What aging knows while it is alone: what it is done with is as severe as
\* asked, unless it failed and stopped.
Ages(c) ==
    Kind[c] = "age" /\ NoAgeOverlap =>
        /\ pc[c] \in {"found", "ages"} =>
              \A x \in list[c] : x[2].severity = disc[x[1]].severity
        /\ \A r \in untouched[c] : disc[r].status = "open" =>
              /\ pc[c] = "found" => \E x \in list[c] : x[1] = r
              /\ pc[c] = "ages" => (\E x \in list[c] : x[1] = r) \/ Severe(c, r)
              /\ pc[c] = "ended" => Severe(c, r)

\* A run's count, and the rows that it counts.
Counts(c) ==
    /\ Kind[c] # "reconcile" \/ pc[c] \in {"idle", "begun"} => runs[c] = NoRun
    /\ Kind[c] = "reconcile" /\ pc[c] \in {"reports", "fails"}
          => runs[c].status = "running" /\ runs[c].count = 0 /\ runs[c].started = now[c]
    /\ Kind[c] = "reconcile" /\ pc[c] = "reports" => \A t \in Concerns[c] :
          \/ <<c, t>> \in list[c]
          \/ disc[<<c, t>>] # NoRow /\ now[c] <= disc[<<c, t>>].created
    /\ runs[c].status # "completed" => runs[c].count = 0
    /\ runs[c].status = "completed" =>
          /\ pc[c] \in {"ended", "failed"} /\ runs[c].count = Cardinality(Concerns[c])
          /\ \A t \in Concerns[c] :
                /\ disc[<<c, t>>] # NoRow
                /\ runs[c].started <= disc[<<c, t>>].created
                /\ disc[<<c, t>>].created <= runs[c].ended

\* The rows of some runs.
RowsOf(D) == {r \in Rows : r[1] \in D /\ r[2] \in Concerns[r[1]]}

\* A report's total is no more than the rows of completed runs that it counted,
\* and these are listed.
Totals(c) ==
    Kind[c] = "report" /\ pc[c] \in {"lists", "ended"} =>
        \E D \in SUBSET report[c].of :
            /\ \A d \in D : runs[d].status = "completed" /\ runs[d].started \in From .. To
            /\ report[c].total <= Cardinality(RowsOf(D))
            /\ pc[c] = "ended" /\ (\A d \in D : runs[d].ended <= To)
                  => RowsOf(D) \subseteq report[c].listed

\* Whoever is under way at the same time knows of the other.
Overlaps ==
    /\ \A c, d \in Active : c # d => d \in overlap[c]
    /\ \A c \in Calls : pc[c] = "idle" => overlap[c] = {}

CallInv(c) ==
    ToCome(c) /\ Acted(c) /\ ReadOnce(c) /\ WereThere(c) /\ Ages(c) /\ Counts(c) /\ Totals(c)

DInv == Typed /\ Overlaps /\ \A c \in Calls : CallInv(c)

-----------------------------------------------------------------------------
(* Rows.                                                                   *)

LEMMA NoRowIsNone ==
    ASSUME TypeOK, NEW r \in Rows
    PROVE  /\ disc[r] = NoRow \/ disc[r] \in RowType
           /\ disc[r] = NoRow <=> disc[r].status = "none"
           /\ disc[r] # NoRow <=> r \in Table
  BY DEF TypeOK, RowType, NoRow, Statuses, Table

LEMMA NewRowTyped ==
    ASSUME NEW s \in 1 .. 4, today \in 0 .. MaxDay
    PROVE  /\ NewRow(s) \in RowType /\ NewRow(s).created = today
           /\ NewRow(s).by = NoCall /\ NewRow(s).status = "open" /\ NewRow(s) # NoRow
  BY DiscrepancyAssumption DEF NewRow, RowType, Statuses, NoRow

LEMMA SeverityTyped ==
    ASSUME NEW a \in Int
    PROVE  classifySeverity(a) \in 1 .. 4
  BY DiscrepancyAssumption DEF classifySeverity

\* Escalating never lowers, and goes as far as the age asks.
LEMMA Escalates ==
    ASSUME NEW s \in 1 .. 4, NEW a \in Int
    PROVE  /\ escalateSeverity(s, a) \in 1 .. 4 /\ s <= escalateSeverity(s, a)
           /\ a > HighAge => escalateSeverity(s, a) >= 3
           /\ a > CriticalAge => escalateSeverity(s, a) = 4
  BY DiscrepancyAssumption DEF escalateSeverity

\* What a write does to the rows and to what calls know untouched.
LEMMA WriteTyped ==
    ASSUME TypeOK, NEW r \in Rows, NEW row \in RowType, Write(r, row)
    PROVE  /\ disc' \in [Rows -> {NoRow} \cup RowType]
           /\ untouched' \in [Calls -> SUBSET Rows]
           /\ disc'[r] = row /\ \A q \in Rows \ {r} : disc'[q] = disc[q]
           /\ \A d \in Calls : untouched'[d] =
                 IF row.by # disc[r].by THEN untouched[d] \ {r} ELSE untouched[d]
  BY DEF TypeOK, RowType, Write

-----------------------------------------------------------------------------
(* What one step of a call may do to the rows.                             *)

RowStep(c, r) ==
    /\ disc[r] # NoRow => disc'[r] # NoRow /\ disc'[r].created = disc[r].created
    /\ disc[r] = NoRow /\ disc'[r] # NoRow => r[1] = c /\ disc'[r].created = today
    /\ disc'[r].by = disc[r].by \/ disc'[r].by = c
    /\ disc[r] # NoRow => \A d \in Calls :
          r \in untouched'[d] => disc'[r].status = disc[r].status
    /\ disc[r] # NoRow /\ (disc'[r].severity # disc[r].severity)
          => Kind[c] = "age" /\ pc[c] = "ages"
    /\ disc[r] # NoRow /\ NoAgeOverlap => disc[r].severity <= disc'[r].severity

RowsTyped ==
    /\ disc \in [Rows -> {NoRow} \cup RowType] /\ untouched \in [Calls -> SUBSET Rows]
    /\ \A r \in Rows : disc[r] # NoRow => disc[r].created <= today

RowsStep(c) ==
    /\ RowsTyped' /\ \A r \in Rows : RowStep(c, r)
    /\ \A d \in Calls : untouched'[d] \subseteq untouched[d]

LEMMA NothingStep ==
    ASSUME Typed, NEW c \in Calls, Nothing, today' = today
    PROVE  RowsStep(c)
<1>1. RowsTyped'
  BY DEF Typed, TypeOK, RowsTyped, RowType, Nothing
<1>2. ASSUME NEW r \in Rows
      PROVE  RowStep(c, r)
  <2>1. disc[r] # NoRow => disc[r].severity \in 1 .. 4
    BY DEF Typed, TypeOK
  <2>2. QED
    BY <2>1 DEF RowStep, Nothing
<1>3. QED
  BY <1>1, <1>2 DEF RowsStep, Nothing

\* A row is inserted by the call it is named for, once.
LEMMA InsertStep ==
    ASSUME Typed, NEW c \in Calls, NEW t \in Txns, disc[<<c, t>>] = NoRow,
           NEW s \in 1 .. 4, Write(<<c, t>>, NewRow(s)), today' = today
    PROVE  RowsStep(c) /\ disc'[<<c, t>>] # NoRow /\ disc'[<<c, t>>].created = today
<1> DEFINE q == <<c, t>>
<1>1. q \in Rows /\ q[1] = c /\ TypeOK /\ today \in 0 .. MaxDay
  BY DEF Rows, Typed
<1>2. /\ NewRow(s) \in RowType /\ NewRow(s) # NoRow
      /\ NewRow(s).created = today /\ NewRow(s).by = NoCall
  BY <1>1, NewRowTyped
<1>3. /\ disc' \in [Rows -> {NoRow} \cup RowType]
      /\ untouched' \in [Calls -> SUBSET Rows]
      /\ disc'[q] = NewRow(s) /\ \A r \in Rows \ {q} : disc'[r] = disc[r]
      /\ \A d \in Calls : untouched'[d] = IF NewRow(s).by # disc[q].by
                                          THEN untouched[d] \ {q} ELSE untouched[d]
  BY <1>1, <1>2, WriteTyped
<1> HIDE DEF q
<1>4. disc[q] = NoRow /\ NoRow.by = NoCall
  BY DEF NoRow, q
<1>5. RowsTyped'
  BY <1>1, <1>2, <1>3 DEF RowsTyped, RowType, Typed
<1>6. ASSUME NEW r \in Rows
      PROVE  RowStep(c, r)
  <2>1. CASE r = q
    BY <2>1, <1>1, <1>2, <1>3, <1>4 DEF RowStep
  <2>2. CASE r # q
    <3>1. disc'[r] = disc[r]
      BY <2>2, <1>3
    <3>2. disc[r] # NoRow => disc[r].severity \in 1 .. 4
      BY <1>1 DEF TypeOK
    <3>3. QED
      BY <3>1, <3>2 DEF RowStep
  <2>3. QED
    BY <2>1, <2>2
<1>7. QED
  BY <1>2, <1>3, <1>5, <1>6 DEF RowsStep, q

\* A call that decides on a row which it has not decided on before.
LEMMA DecideStep ==
    ASSUME Typed, NEW c \in Calls, NEW q \in Rows, disc[q] # NoRow, disc[q].by # c,
           NEW status \in Statuses, today' = today,
           Write(q, [disc[q] EXCEPT !.status = status, !.by = c])
    PROVE  /\ RowsStep(c) /\ disc'[q].by = c
           /\ \A r \in Rows \ {q} : disc'[r] = disc[r]
           /\ \A d \in Calls : q \notin untouched'[d]
<1> DEFINE row == [disc[q] EXCEPT !.status = status, !.by = c]
<1>1. TypeOK /\ disc[q] \in RowType /\ disc[q].created <= today
  BY NoRowIsNone DEF Typed
<1>2. /\ row \in RowType /\ row # NoRow /\ row.by = c
      /\ row.created = disc[q].created /\ row.severity = disc[q].severity
  BY <1>1, DiscrepancyAssumption DEF RowType, NoRow
<1> HIDE DEF row
<1>3. /\ disc' \in [Rows -> {NoRow} \cup RowType]
      /\ untouched' \in [Calls -> SUBSET Rows]
      /\ disc'[q] = row /\ \A r \in Rows \ {q} : disc'[r] = disc[r]
      /\ \A d \in Calls : untouched'[d] = IF row.by # disc[q].by
                                          THEN untouched[d] \ {q} ELSE untouched[d]
  BY <1>1, <1>2, WriteTyped DEF row
<1>4. \A d \in Calls : untouched'[d] = untouched[d] \ {q}
  BY <1>2, <1>3
<1>5. RowsTyped'
  BY <1>1, <1>2, <1>3 DEF RowsTyped, RowType, Typed
<1>6. ASSUME NEW r \in Rows
      PROVE  RowStep(c, r)
  <2>0. disc[r] # NoRow => disc[r].severity \in 1 .. 4
    BY <1>1 DEF TypeOK
  <2>1. CASE r = q
    BY <2>0, <2>1, <1>1, <1>2, <1>3, <1>4 DEF RowStep
  <2>2. CASE r # q
    BY <2>0, <2>2, <1>3 DEF RowStep
  <2>3. QED
    BY <2>1, <2>2
<1>7. QED
  BY <1>2, <1>3, <1>4, <1>5, <1>6 DEF RowsStep

\* Aging writes two columns, and without another aging it never lowers one.
LEMMA AgeStep ==
    ASSUME Typed, NEW c \in Calls, Kind[c] = "age", pc[c] = "ages", NEW q \in Rows,
           disc[q] # NoRow, today' = today, NEW days \in 0 .. MaxDay, NEW s \in 1 .. 4,
           NoAgeOverlap => disc[q].severity <= s,
           Write(q, [disc[q] EXCEPT !.ageDays = days, !.severity = s])
    PROVE  /\ RowsStep(c) /\ disc'[q].severity = s
           /\ \A r \in Rows \ {q} : disc'[r] = disc[r]
           /\ untouched' = untouched
<1> DEFINE row == [disc[q] EXCEPT !.ageDays = days, !.severity = s]
<1>1. TypeOK /\ disc[q] \in RowType /\ disc[q].created <= today
  BY NoRowIsNone DEF Typed
<1>2. /\ row \in RowType /\ row # NoRow /\ row.by = disc[q].by
      /\ row.created = disc[q].created /\ row.severity = s /\ row.status = disc[q].status
  <2>1. row \in RowType
    BY <1>1 DEF RowType
  <2>2. row.severity = s /\ row.by = disc[q].by
    BY <1>1 DEF RowType
  <2>3. row.created = disc[q].created /\ row.status = disc[q].status
    BY <1>1 DEF RowType
  <2>4. row # NoRow
    <3>1. row.status # "none" /\ NoRow.status = "none"
      BY <1>1, <2>3, NoRowIsNone DEF NoRow
    <3>2. QED
      BY <3>1
  <2>5. QED
    BY <2>1, <2>2, <2>3, <2>4
<1> HIDE DEF row
<1>3. /\ disc' \in [Rows -> {NoRow} \cup RowType]
      /\ untouched' \in [Calls -> SUBSET Rows]
      /\ disc'[q] = row /\ \A r \in Rows \ {q} : disc'[r] = disc[r]
      /\ \A d \in Calls : untouched'[d] = IF row.by # disc[q].by
                                          THEN untouched[d] \ {q} ELSE untouched[d]
  BY <1>1, <1>2, WriteTyped DEF row
<1>4. untouched' = untouched
  BY <1>1, <1>2, <1>3 DEF TypeOK
<1>5. RowsTyped'
  BY <1>1, <1>2, <1>3 DEF RowsTyped, RowType, Typed
<1>6. ASSUME NEW r \in Rows
      PROVE  RowStep(c, r)
  <2>0. disc[r] # NoRow => disc[r].severity \in 1 .. 4
    BY <1>1 DEF TypeOK
  <2>1. CASE r = q
    BY <2>0, <2>1, <1>1, <1>2, <1>3 DEF RowStep
  <2>2. CASE r # q
    BY <2>0, <2>2, <1>3 DEF RowStep
  <2>3. QED
    BY <2>1, <2>2
<1>7. QED
  BY <1>2, <1>3, <1>4, <1>5, <1>6 DEF RowsStep

-----------------------------------------------------------------------------
(* A step of one call leaves what the others rely on.                      *)

\* What a step of a call c leaves of everything but the rows.
Kept(c) ==
    /\ pc[c] \notin {"idle", "ended", "failed"} /\ pc'[c] # "idle"
    /\ \A d \in Calls \ {c} :
          /\ pc'[d] = pc[d] /\ list'[d] = list[d] /\ now'[d] = now[d]
          /\ runs'[d] = runs[d] /\ report'[d] = report[d]
    /\ today' = today /\ overlap' = overlap

LEMMA OthersRows ==
    ASSUME DInv, NEW c \in Calls, RowsStep(c), Kept(c), NEW d \in Calls \ {c}
    PROVE  ToCome(d)' /\ Acted(d)' /\ ReadOnce(d)' /\ WereThere(d)'
<1>1. /\ pc'[d] = pc[d] /\ list'[d] = list[d] /\ now'[d] = now[d]
      /\ untouched'[d] \subseteq untouched[d]
  BY DEF Kept, RowsStep
<1>2. \A r \in Rows : RowStep(c, r)
  BY DEF RowsStep
<1>3. ToCome(d) /\ Acted(d) /\ ReadOnce(d) /\ WereThere(d)
  BY DEF DInv, CallInv
<1>4. /\ untouched[d] \subseteq Rows
      /\ Reads(d) => \A x \in list[d] : x[1] \in Rows
      /\ Kind[d] = "reconcile" => \A t \in Txns : <<d, t>> \in Rows
  BY DEF DInv, Typed, TypeOK, Rows
<1>5. ToCome(d)'
  <2>1. ASSUME NEW t \in Txns, disc[<<d, t>>] = NoRow
        PROVE  disc'[<<d, t>>] = NoRow
    <3>1. <<d, t>> \in Rows /\ <<d, t>>[1] # c
      BY DEF Rows
    <3>2. QED
      BY <2>1, <3>1, <1>2 DEF RowStep
  <2>2. QED
    BY <2>1, <1>1, <1>3 DEF ToCome
<1>6. Acted(d)'
  <2>1. \A r \in Rows : disc'[r].by = d => disc[r].by = d
    BY <1>2 DEF RowStep
  <2>2. QED
    BY <2>1, <1>1, <1>3 DEF Acted
<1>7. ReadOnce(d)'
  <2>1. Reads(d) => \A x \in list[d] :
           /\ disc'[x[1]] # NoRow /\ x[2].created = disc'[x[1]].created
    BY <1>2, <1>3, <1>4 DEF ReadOnce, RowStep
  <2>2. QED
    BY <2>1, <1>1, <1>3 DEF ReadOnce, Reads
<1>8. WereThere(d)'
  <2>1. \A r \in untouched'[d] : /\ r \in untouched[d] /\ disc[r] # NoRow
                                 /\ disc'[r] # NoRow /\ disc'[r].status = disc[r].status
    BY <1>1, <1>2, <1>3, <1>4 DEF WereThere, RowStep
  <2>2. QED
    BY <2>1, <1>1, <1>3 DEF WereThere
<1>9. QED
  BY <1>5, <1>6, <1>7, <1>8

\* An aging under way is the only one, and one that has ended finds what it
\* wrote at least as severe later.
LEMMA OthersAges ==
    ASSUME DInv, NEW c \in Calls, RowsStep(c), Kept(c), NEW d \in Calls \ {c}
    PROVE  Ages(d)'
<1>1. /\ pc'[d] = pc[d] /\ list'[d] = list[d] /\ now'[d] = now[d]
      /\ untouched'[d] \subseteq untouched[d] /\ overlap' = overlap
  BY DEF Kept, RowsStep
<1>2. \A r \in Rows : RowStep(c, r)
  BY DEF RowsStep
<1>3. Ages(d) /\ WereThere(d) /\ ReadOnce(d)
  BY DEF DInv, CallInv
<1> SUFFICES ASSUME Kind[d] = "age", NoAgeOverlap
             PROVE  /\ pc[d] \in {"found", "ages"} =>
                          \A x \in list[d] : x[2].severity = disc'[x[1]].severity
                    /\ \A r \in untouched'[d] : disc'[r].status = "open" =>
                          /\ pc[d] = "found" => \E x \in list[d] : x[1] = r
                          /\ pc[d] = "ages" => (\E x \in list[d] : x[1] = r) \/ Severe(d, r)'
                          /\ pc[d] = "ended" => Severe(d, r)'
  BY <1>1 DEF Ages, NoAgeOverlap
<1>4. /\ untouched[d] \subseteq Rows /\ \A x \in list[d] : x[1] \in Rows
      /\ \A r \in Rows : disc[r] # NoRow => disc[r].severity \in 1 .. 4
      /\ \A r \in Rows : disc'[r] # NoRow => disc'[r].severity \in 1 .. 4
  BY DEF DInv, Typed, TypeOK, Reads, RowsStep, RowsTyped, RowType
<1>5. pc[d] \in {"found", "ages"} => Kind[c] # "age"
  BY DEF DInv, Overlaps, Active, Kept, NoAgeOverlap
<1>6. pc[d] \in {"found", "ages"} =>
         \A x \in list[d] : x[2].severity = disc'[x[1]].severity
  <2>1. \A x \in list[d] : disc[x[1]] # NoRow
    BY <1>3 DEF ReadOnce, Reads
  <2>2. QED
    BY <2>1, <1>2, <1>3, <1>4, <1>5 DEF RowStep, Ages
<1>7. ASSUME NEW r \in untouched'[d]
      PROVE  /\ r \in untouched[d] /\ disc'[r].status = disc[r].status
             /\ Severe(d, r) => Severe(d, r)'
  <2>1. r \in untouched[d] /\ r \in Rows /\ disc[r] # NoRow
    BY <1>1, <1>3, <1>4 DEF WereThere
  <2>2. /\ disc'[r] # NoRow /\ disc'[r].created = disc[r].created
        /\ disc'[r].status = disc[r].status /\ disc[r].severity <= disc'[r].severity
    BY <2>1, <1>2, <1>7 DEF RowStep
  <2>3. disc[r].severity \in 1 .. 4 /\ disc'[r].severity \in 1 .. 4
    BY <2>1, <2>2, <1>4
  <2>4. Severe(d, r) => Severe(d, r)'
    BY <2>2, <2>3, <1>1 DEF Severe
  <2>5. QED
    BY <2>1, <2>2, <2>4
<1>8. QED
  BY <1>3, <1>6, <1>7 DEF Ages

LEMMA OthersCounts ==
    ASSUME DInv, NEW c \in Calls, RowsStep(c), Kept(c), NEW d \in Calls \ {c}
    PROVE  Counts(d)' /\ Totals(d)'
<1>1. /\ pc'[d] = pc[d] /\ list'[d] = list[d] /\ now'[d] = now[d]
      /\ runs'[d] = runs[d] /\ report'[d] = report[d] /\ pc[c] \notin {"ended", "failed"}
  BY DEF Kept
<1>2. Counts(d) /\ Totals(d) /\ \A e \in Calls : Counts(e)
  BY DEF DInv, CallInv
<1>3. \A t \in Concerns[d] : disc[<<d, t>>] # NoRow =>
         disc'[<<d, t>>] # NoRow /\ disc'[<<d, t>>].created = disc[<<d, t>>].created
  <2>1. \A t \in Concerns[d] : <<d, t>> \in Rows
    BY DiscrepancyAssumption DEF Rows
  <2>2. QED
    BY <2>1 DEF RowsStep, RowStep
<1>4. Counts(d)'
  BY <1>1, <1>2, <1>3 DEF Counts
<1>5. Totals(d)'
  <2> SUFFICES ASSUME Kind[d] = "report", pc[d] \in {"lists", "ended"}
               PROVE  Totals(d)'
    BY <1>1 DEF Totals
  <2>1. PICK D \in SUBSET report[d].of :
           /\ \A e \in D : runs[e].status = "completed" /\ runs[e].started \in From .. To
           /\ report[d].total <= Cardinality(RowsOf(D))
           /\ pc[d] = "ended" /\ (\A e \in D : runs[e].ended <= To)
                 => RowsOf(D) \subseteq report[d].listed
    BY <1>2 DEF Totals
  <2>2. ASSUME NEW e \in D
        PROVE  runs'[e] = runs[e]
    <3>1. e \in Calls
      BY DEF DInv, Typed, ReportType
    <3>2. e # c
      BY <2>1, <3>1, <1>1, <1>2 DEF Counts
    <3>3. QED
      BY <3>1, <3>2 DEF Kept
  <2>3. /\ \A e \in D : runs'[e].status = "completed" /\ runs'[e].started \in From .. To
        /\ pc'[d] = "ended" /\ (\A e \in D : runs'[e].ended <= To)
              => RowsOf(D) \subseteq report'[d].listed
    BY <2>1, <2>2, <1>1
  <2>4. D \in SUBSET report'[d].of /\ report'[d].total <= Cardinality(RowsOf(D))
    BY <2>1, <1>1
  <2>5. QED
    BY <2>3, <2>4 DEF Totals, RowsOf, Rows
<1>6. QED
  BY <1>4, <1>5

LEMMA OthersKept ==
    ASSUME DInv, NEW c \in Calls, RowsStep(c), Kept(c), Typed', CallInv(c)'
    PROVE  DInv'
<1>1. ASSUME NEW d \in Calls \ {c}
      PROVE  CallInv(d)'
  BY <1>1, OthersRows, OthersAges, OthersCounts DEF CallInv
<1>2. Overlaps'
  <2>1. Active' \subseteq Active
    BY DEF Kept, Active
  <2>2. \A d \in Calls : pc'[d] = "idle" => pc[d] = "idle"
    BY DEF Kept
  <2>3. QED
    BY <2>1, <2>2 DEF Overlaps, DInv, Kept
<1>3. QED
  BY <1>1, <1>2 DEF DInv

-----------------------------------------------------------------------------
(* What the steps of calls have in common.                                 *)

Labels == {"begun", "reports", "fails", "inserts", "found", "ages", "lists", "ended", "failed"}

\* A step of a call writes its own entries, with values of their types.
Moves(c) ==
    /\ pc[c] \notin {"idle", "ended", "failed"}
    /\ pc' = pc \/ (\E l \in Labels : pc' = [pc EXCEPT ![c] = l])
    /\ runs' = runs \/ (\E run \in RunType : runs' = [runs EXCEPT ![c] = run])
    /\ list' = list \/ (\E S \in SUBSET IF Reads(c) THEN Rows \X RowType ELSE {c} \X Txns :
                           list' = [list EXCEPT ![c] = S])
    /\ now' = now \/ now' = [now EXCEPT ![c] = today]
    /\ report' = report \/ (\E rep \in ReportType : report' = [report EXCEPT ![c] = rep])
    /\ Works \/ Fault
    /\ today' = today /\ overlap' = overlap

LEMMA MovesTyped ==
    ASSUME Typed, NEW c \in Calls, RowsStep(c), Moves(c)
    PROVE  Typed' /\ Kept(c)
<1>1. faults' \in 0 .. MaxFaults
  BY DiscrepancyAssumption DEF Typed, TypeOK, Moves, Works, Fault
<1>2. /\ pc' \in [Calls -> Labels \cup {"idle"}] /\ pc'[c] # "idle"
      /\ \A d \in Calls \ {c} : pc'[d] = pc[d]
  <2>1. pc \in [Calls -> Labels \cup {"idle"}] /\ pc[c] # "idle" /\ "idle" \notin Labels
    BY DEF Typed, TypeOK, Moves, Labels
  <2>2. CASE pc' = pc
    BY <2>1, <2>2
  <2>3. ASSUME NEW l \in Labels, pc' = [pc EXCEPT ![c] = l]
        PROVE  /\ pc' \in [Calls -> Labels \cup {"idle"}] /\ pc'[c] # "idle"
               /\ \A d \in Calls \ {c} : pc'[d] = pc[d]
    BY <2>1, <2>3
  <2>4. QED
    BY <2>2, <2>3 DEF Moves
<1>3. runs' \in [Calls -> RunType] /\ \A d \in Calls \ {c} : runs'[d] = runs[d]
  <2>1. runs \in [Calls -> RunType]
    BY DEF Typed, TypeOK, RunType
  <2>2. QED
    BY <2>1 DEF Moves
<1>4. /\ list' \in [Calls -> SUBSET (Rows \cup (Rows \X RowType))]
      /\ \A d \in Calls : list'[d] \subseteq IF Reads(d) THEN Rows \X RowType ELSE {d} \X Txns
      /\ \A d \in Calls \ {c} : list'[d] = list[d]
  <2>1. \A d \in Calls : {d} \X Txns \subseteq Rows
    BY DEF Rows
  <2>2. CASE list' = list
    BY <2>2 DEF Typed
  <2>3. CASE list' # list
    <3>1. PICK S \in SUBSET IF Reads(c) THEN Rows \X RowType ELSE {c} \X Txns :
                  list' = [list EXCEPT ![c] = S]
      BY <2>3 DEF Moves
    <3>2. S \in SUBSET (Rows \cup (Rows \X RowType))
      BY <2>1
    <3>3. QED
      BY <3>1, <3>2 DEF Typed
  <2>4. QED
    BY <2>2, <2>3
<1>5. /\ now' \in [Calls -> 0 .. MaxDay] /\ \A d \in Calls : now'[d] <= today
      /\ \A d \in Calls \ {c} : now'[d] = now[d]
  BY DEF Typed, Moves
<1>6. /\ report' \in [Calls -> ReportType]
      /\ \A d \in Calls \ {c} : report'[d] = report[d]
  BY DEF Typed, Moves
<1>7. TypeOK'
  BY <1>1, <1>2, <1>3 DEF TypeOK, RowsStep, RowsTyped, RowType, RunType, Labels, Typed, Moves
<1>8. Typed'
  <2>1. Reads(c)' = Reads(c)
    BY DEF Reads
  <2>2. \A r \in Rows : disc'[r] # NoRow => disc'[r].created <= today
    BY DEF RowsStep, RowsTyped, Moves
  <2>3. today' = today /\ today \in 0 .. MaxDay
    BY DEF Moves, Typed
  <2>4. QED
    BY <1>4, <1>5, <1>6, <1>7, <2>2, <2>3 DEF Typed, Reads
<1>9. QED
  BY <1>1, <1>2, <1>3, <1>4, <1>5, <1>6, <1>8 DEF Kept, Moves

\* What is left of the untouched rows of the call that makes the step.
LEMMA OwnRows ==
    ASSUME DInv, NEW c \in Calls, RowsStep(c), NEW r \in untouched'[c]
    PROVE  /\ r \in Rows /\ r \in untouched[c] /\ disc[r] # NoRow /\ disc'[r] # NoRow
           /\ disc'[r].status = disc[r].status /\ disc'[r].created = disc[r].created
<1>1. r \in untouched[c]
  BY DEF RowsStep
<1>2. r \in Rows /\ disc[r] # NoRow
  BY <1>1 DEF DInv, CallInv, WereThere, Typed, TypeOK
<1>3. RowStep(c, r)
  BY <1>2 DEF RowsStep
<1>4. QED
  BY <1>1, <1>2, <1>3 DEF RowStep

\* One step of a call: what it leaves of the types, of the others and of itself.
Good(c) == Typed' /\ RowsStep(c) /\ Kept(c) /\ CallInv(c)'

LEMMA CardinalityOfConcerns ==
    ASSUME NEW c \in Calls
    PROVE  IsFiniteSet(Concerns[c]) /\ Cardinality(Concerns[c]) \in Nat
  BY DiscrepancyAssumption, FS_Subset, FS_CardinalityType

-----------------------------------------------------------------------------
(* Reconcile.                                                              *)

LEMMA CreateRunGood ==
    ASSUME DInv, NEW c \in Calls, CreateRun(c), today' = today, overlap' = overlap
    PROVE  Good(c)
<1>1. /\ Kind[c] = "reconcile" /\ pc[c] = "begun" /\ disc' = disc /\ untouched' = untouched
      /\ now' = now /\ report' = report
      /\ list' = [list EXCEPT ![c] = {<<c, t>> : t \in Concerns[c]}]
  BY DEF CreateRun, At, Nothing
<1>2. now[c] \in 0 .. MaxDay /\ Typed /\ CallInv(c) /\ Concerns[c] \subseteq Txns
  BY DiscrepancyAssumption DEF DInv, Typed
<1> DEFINE run == [NoRun EXCEPT !.status = "running", !.started = now[c]]
<1>3. run \in RunType /\ run.status = "running" /\ run.count = 0 /\ run.started = now[c]
  <2>1. 0 \in 0 .. MaxDay
    BY DiscrepancyAssumption
  <2>2. QED
    BY <1>2, <2>1 DEF NoRun, RunType
<1>4. \/ pc' = [pc EXCEPT ![c] = "reports"] /\ runs' = [runs EXCEPT ![c] = run] /\ Works
      \/ /\ pc' = [pc EXCEPT ![c] = "failed"] /\ Fault
         /\ runs' = [runs EXCEPT ![c] = run] \/ runs' = runs
  BY DEF CreateRun, SetRun, Goto
<1> HIDE DEF run
<1>5. Moves(c)
  <2>1. {<<c, t>> : t \in Concerns[c]} \subseteq {c} \X Txns /\ ~Reads(c)
    BY <1>1, <1>2 DEF Reads
  <2>2. QED
    BY <1>1, <1>3, <1>4, <2>1 DEF Moves, Labels
<1>6. RowsStep(c)
  BY <1>1, <1>2, NothingStep DEF Nothing
<1>7. Typed' /\ Kept(c)
  BY <1>2, <1>5, <1>6, MovesTyped
<1>8. /\ list'[c] = {<<c, t>> : t \in Concerns[c]} /\ pc'[c] \in {"reports", "failed"}
      /\ pc'[c] = "reports" => runs'[c] = run
      /\ runs'[c] \in {run, runs[c]}
  BY <1>1, <1>2, <1>4 DEF Typed, TypeOK
<1>9. Counts(c)'
  <2>1. runs[c] = NoRun /\ NoRun.count = 0 /\ NoRun.status = "none"
    BY <1>1, <1>2 DEF CallInv, Counts, NoRun
  <2>2. runs'[c].status # "completed" /\ runs'[c].count = 0
    BY <1>3, <1>8, <2>1
  <2>3. QED
    BY <1>1, <1>3, <1>8, <2>2 DEF Counts
<1>10. ToCome(c)' /\ Acted(c)' /\ WereThere(c)'
  BY <1>1, <1>2, <1>8 DEF CallInv, ToCome, Acted, WereThere
<1>11. ReadOnce(c)' /\ Ages(c)' /\ Totals(c)'
  BY <1>1 DEF ReadOnce, Ages, Totals, Reads
<1>12. QED
  BY <1>6, <1>7, <1>9, <1>10, <1>11 DEF Good, CallInv

LEMMA InsertDiscrepancyGood ==
    ASSUME DInv, NEW c \in Calls, InsertDiscrepancy(c), today' = today, overlap' = overlap
    PROVE  Good(c)
<1>1. /\ Kind[c] = "reconcile" /\ pc[c] = "reports"
      /\ runs' = runs /\ now' = now /\ report' = report
  BY DEF InsertDiscrepancy, At
<1>2. Typed /\ CallInv(c) /\ today \in 0 .. MaxDay /\ now[c] <= today
  BY DEF DInv, Typed
<1>3. PICK q \in list[c] :
          /\ list' = [list EXCEPT ![c] = @ \ {q}]
          /\ \/ Works /\ Write(q, NewRow(classifySeverity(Amount[q[2]]))) /\ pc' = pc
             \/ /\ Fault /\ pc' = [pc EXCEPT ![c] = "fails"]
                /\ Write(q, NewRow(classifySeverity(Amount[q[2]]))) \/ Nothing
  BY DEF InsertDiscrepancy, Take, Goto
<1>4. PICK t \in Txns : q = <<c, t>>
  BY <1>1, <1>2 DEF Typed, Reads
<1>5. disc[q] = NoRow /\ classifySeverity(Amount[t]) \in 1 .. 4
  BY <1>1, <1>2, <1>3, <1>4, SeverityTyped, DiscrepancyAssumption DEF CallInv, ToCome
<1>6. /\ RowsStep(c)
      /\ pc'[c] = "reports" => disc'[q] # NoRow /\ disc'[q].created = today
  <2>1. CASE Nothing
    <3>1. disc' = disc /\ untouched' = untouched
      BY <2>1 DEF Nothing
    <3>2. CASE pc' = pc
      <4>1. Write(q, NewRow(classifySeverity(Amount[t])))
        BY <3>2, <1>1, <1>2, <1>3, <1>4 DEF Typed, TypeOK
      <4>2. QED
        BY <4>1, <1>2, <1>4, <1>5, InsertStep
    <3>3. CASE pc' # pc
      BY <2>1, <3>3, <1>2, <1>3, NothingStep DEF Typed, TypeOK
    <3>4. QED
      BY <3>2, <3>3
  <2>2. CASE Write(q, NewRow(classifySeverity(Amount[t])))
    BY <2>2, <1>2, <1>4, <1>5, InsertStep
  <2>3. QED
    BY <1>3, <1>4, <2>1, <2>2
<1>7. Moves(c)
  <2>1. list[c] \ {q} \subseteq {c} \X Txns /\ ~Reads(c)
    BY <1>1, <1>2 DEF Reads, Typed
  <2>2. QED
    BY <1>1, <1>3, <2>1 DEF Moves, Labels
<1>8. Typed' /\ Kept(c)
  BY <1>2, <1>6, <1>7, MovesTyped
<1>9. list'[c] = list[c] \ {q} /\ pc'[c] \in {"reports", "fails"}
  BY <1>1, <1>2, <1>3 DEF Typed, TypeOK
<1>10. \A r \in Rows \ {q} : disc'[r] = disc[r]
  BY <1>2, <1>3 DEF Write, Nothing, Typed, TypeOK
<1>11. ToCome(c)'
  BY <1>1, <1>2, <1>9, <1>10 DEF CallInv, ToCome, Rows
<1>12. Acted(c)'
  <2>1. \A r \in Rows : disc[r].by # c
    BY <1>1, <1>2 DEF CallInv, Acted
  <2>2. disc'[q].by = NoCall
    BY <1>2, <1>3, <1>4, <1>5, DiscrepancyAssumption DEF Write, Nothing, NewRow, NoRow,
       Typed, TypeOK, Rows
  <2>3. \A r \in Rows : disc'[r].by # c
    BY <2>1, <2>2, <1>10, DiscrepancyAssumption
  <2>4. QED
    BY <2>3 DEF Acted
<1>13. WereThere(c)'
  BY <1>1, <1>6, OwnRows DEF WereThere
<1>14. Counts(c)'
  <2>1. \A t1 \in Concerns[c] : <<c, t1>> \in Rows
    BY DiscrepancyAssumption DEF Rows
  <2>2. ASSUME NEW t1 \in Concerns[c], pc'[c] = "reports"
        PROVE  \/ <<c, t1>> \in list'[c]
               \/ disc'[<<c, t1>>] # NoRow /\ now[c] <= disc'[<<c, t1>>].created
    <3>1. CASE <<c, t1>> = q
      BY <2>2, <3>1, <1>2, <1>6
    <3>2. CASE <<c, t1>> # q
      BY <2>1, <3>2, <1>1, <1>2, <1>9, <1>10 DEF CallInv, Counts
    <3>3. QED
      BY <3>1, <3>2
  <2>3. QED
    BY <2>2, <1>1, <1>2, <1>9 DEF CallInv, Counts
<1>15. ReadOnce(c)' /\ Ages(c)' /\ Totals(c)'
  BY <1>1 DEF ReadOnce, Ages, Totals, Reads
<1>16. QED
  BY <1>6, <1>8, <1>11, <1>12, <1>13, <1>14, <1>15 DEF Good, CallInv

\* FailRun and CompleteRun write the run and end.
LEMMA EndRunGood ==
    ASSUME DInv, NEW c \in Calls, FailRun(c) \/ CompleteRun(c), today' = today,
           overlap' = overlap
    PROVE  Good(c)
<1>1. /\ Kind[c] = "reconcile" /\ pc[c] \in {"reports", "fails"} /\ disc' = disc
      /\ untouched' = untouched /\ list' = list /\ now' = now /\ report' = report
  BY DEF FailRun, CompleteRun, At, Nothing, locals
<1>2. Typed /\ CallInv(c) /\ today \in 0 .. MaxDay
  BY DEF DInv, Typed
<1>3. PICK run \in RunType :
         /\ runs' = [runs EXCEPT ![c] = run] \/ runs' = runs
         /\ (\E l \in {"ended", "failed"} : pc' = [pc EXCEPT ![c] = l]) /\ (Works \/ Fault)
         /\ run.status # "completed" => run.count = 0
         /\ run.status = "completed" => /\ run.count = Cardinality(Concerns[c])
                                        /\ run.ended = today /\ run.started = now[c]
                                        /\ pc[c] = "reports" /\ list[c] = {}
  <2>1. runs[c] \in RunType /\ Cardinality(Concerns[c]) \in Nat
    BY <1>2, CardinalityOfConcerns DEF Typed, TypeOK, RunType
  <2>2. CASE FailRun(c)
    <3> DEFINE run == [runs[c] EXCEPT !.status = "failed", !.ended = today]
    <3>1. run \in RunType /\ run.status = "failed" /\ run.count = runs[c].count
      BY <2>1, <1>2 DEF RunType
    <3>2. runs[c].count = 0
      BY <2>2, <1>2 DEF FailRun, At, CallInv, Counts
    <3>3. /\ runs' = [runs EXCEPT ![c] = run] \/ runs' = runs
          /\ (\E l \in {"ended", "failed"} : pc' = [pc EXCEPT ![c] = l]) /\ (Works \/ Fault)
      BY <2>2 DEF FailRun, SetRun, Goto
    <3>4. QED
      BY <3>1, <3>2, <3>3
  <2>3. CASE CompleteRun(c)
    <3> DEFINE run == [runs[c] EXCEPT !.status = "completed", !.ended = today,
                                      !.count = Cardinality(Concerns[c])]
    <3>1. /\ run \in RunType /\ run.status = "completed" /\ run.ended = today
          /\ run.count = Cardinality(Concerns[c]) /\ run.started = runs[c].started
      BY <2>1, <1>2 DEF RunType
    <3>2. runs[c].started = now[c] /\ pc[c] = "reports" /\ list[c] = {}
      BY <2>3, <1>2 DEF CompleteRun, At, CallInv, Counts
    <3>3. /\ runs' = [runs EXCEPT ![c] = run] \/ runs' = runs
          /\ (\E l \in {"ended", "failed"} : pc' = [pc EXCEPT ![c] = l]) /\ (Works \/ Fault)
      BY <2>3 DEF CompleteRun, SetRun, Goto
    <3>4. QED
      BY <3>1, <3>2, <3>3
  <2>4. QED
    BY <2>2, <2>3
<1>4. Moves(c)
  BY <1>1, <1>3 DEF Moves, Labels
<1>5. RowsStep(c)
  BY <1>1, <1>2, NothingStep DEF Nothing
<1>6. Typed' /\ Kept(c)
  BY <1>2, <1>4, <1>5, MovesTyped
<1>7. pc'[c] \in {"ended", "failed"} /\ runs'[c] \in {run, runs[c]}
  BY <1>2, <1>3 DEF Typed, TypeOK
<1>8. Counts(c)'
  <2>1. Counts(c) /\ pc[c] \notin {"idle", "begun", "ended", "failed"}
    BY <1>1, <1>2 DEF CallInv
  <2>2. CASE runs'[c] = runs[c]
    BY <2>1, <2>2, <1>1, <1>7 DEF Counts
  <2>3. CASE runs'[c] = run
    <3>1. ASSUME run.status = "completed", NEW t \in Concerns[c]
          PROVE  /\ disc[<<c, t>>] # NoRow /\ now[c] <= disc[<<c, t>>].created
                 /\ disc[<<c, t>>].created <= today
      <4>1. <<c, t>> \in Rows
        BY DiscrepancyAssumption DEF Rows
      <4>2. disc[<<c, t>>] # NoRow /\ now[c] <= disc[<<c, t>>].created
        BY <2>1, <3>1, <1>1, <1>3 DEF Counts
      <4>3. QED
        BY <4>1, <4>2, <1>2 DEF Typed
    <3>2. QED
      BY <2>3, <3>1, <1>1, <1>3, <1>7 DEF Counts
  <2>4. QED
    BY <2>2, <2>3, <1>7
<1>9. ToCome(c)' /\ Acted(c)' /\ WereThere(c)'
  BY <1>1, <1>2, <1>7 DEF CallInv, ToCome, Acted, WereThere
<1>10. ReadOnce(c)' /\ Ages(c)' /\ Totals(c)'
  BY <1>1 DEF ReadOnce, Ages, Totals, Reads
<1>11. QED
  BY <1>5, <1>6, <1>8, <1>9, <1>10 DEF Good, CallInv

-----------------------------------------------------------------------------
(* PreventDuplicate, and the decisions.                                    *)

LEMMA LookUpGood ==
    ASSUME DInv, NEW c \in Calls, LookUp(c), today' = today, overlap' = overlap
    PROVE  Good(c)
<1>1. /\ Kind[c] = "prevent" /\ pc[c] = "begun" /\ disc' = disc /\ untouched' = untouched
      /\ list' = list /\ now' = now /\ report' = report /\ runs' = runs
      /\ Works \/ Fault
  BY DEF LookUp, At, Nothing, locals
<1>2. Typed /\ CallInv(c)
  BY DEF DInv
<1>3. PICK l \in {"inserts", "ended", "failed"} :
         /\ pc' = [pc EXCEPT ![c] = l]
         /\ l = "inserts" => ~\E r \in Open : r[2] \in Concerns[c]
  BY DEF LookUp, Goto
<1>4. Moves(c)
  BY <1>1, <1>3 DEF Moves, Labels
<1>5. RowsStep(c)
  BY <1>1, <1>2, NothingStep DEF Nothing, LookUp
<1>6. Typed' /\ Kept(c)
  BY <1>2, <1>4, <1>5, MovesTyped
<1>7. pc'[c] = l
  BY <1>2, <1>3 DEF Typed, TypeOK
<1>8. WereThere(c)'
  <2>1. \A r \in untouched[c] : r \in Rows /\ disc[r] # NoRow
    BY <1>2 DEF CallInv, WereThere, Typed, TypeOK
  <2>2. QED
    BY <2>1, <1>1, <1>3, <1>7 DEF WereThere, Open
<1>9. ToCome(c)' /\ Acted(c)' /\ Counts(c)'
  BY <1>1, <1>2, <1>7 DEF CallInv, ToCome, Acted, Counts
<1>10. ReadOnce(c)' /\ Ages(c)' /\ Totals(c)'
  BY <1>1 DEF ReadOnce, Ages, Totals, Reads
<1>11. QED
  BY <1>5, <1>6, <1>8, <1>9, <1>10 DEF Good, CallInv

LEMMA InsertNewGood ==
    ASSUME DInv, NEW c \in Calls, InsertNew(c), today' = today, overlap' = overlap
    PROVE  Good(c)
<1>1. /\ Kind[c] = "prevent" /\ pc[c] = "inserts" /\ runs' = runs
      /\ list' = list /\ now' = now /\ report' = report
  BY DEF InsertNew, At, locals
<1>2. Typed /\ CallInv(c)
  BY DEF DInv
<1>3. PICK t \in Concerns[c], s \in Given :
         /\ (\E l \in {"ended", "failed"} : pc' = [pc EXCEPT ![c] = l]) /\ (Works \/ Fault)
         /\ Write(<<c, t>>, NewRow(s)) \/ Nothing
  BY DEF InsertNew, WriteOrFail, Goto
<1>4. t \in Txns /\ s \in 1 .. 4
  BY DiscrepancyAssumption
<1>5. disc[<<c, t>>] = NoRow
  BY <1>1, <1>2, <1>4 DEF CallInv, ToCome
<1>6. RowsStep(c)
  BY <1>2, <1>3, <1>4, <1>5, InsertStep, NothingStep
<1>7. Moves(c)
  BY <1>1, <1>3 DEF Moves, Labels
<1>8. Typed' /\ Kept(c)
  BY <1>2, <1>6, <1>7, MovesTyped
<1>9. pc'[c] \in {"ended", "failed"}
  BY <1>2, <1>3 DEF Typed, TypeOK
<1>10. Acted(c)'
  <2>1. \A r \in Rows : disc[r].by # c
    BY <1>1, <1>2 DEF CallInv, Acted
  <2>2. NewRow(s).by # c
    BY DiscrepancyAssumption DEF NewRow
  <2>3. \A r \in Rows : disc'[r].by # c
    BY <2>1, <2>2, <1>2, <1>3 DEF Write, Nothing, Typed, TypeOK
  <2>4. QED
    BY <2>3 DEF Acted
<1>11. WereThere(c)'
  BY <1>1, <1>6, <1>9, OwnRows DEF WereThere
<1>12. ToCome(c)' /\ Counts(c)'
  BY <1>1, <1>2, <1>9 DEF CallInv, ToCome, Counts
<1>13. ReadOnce(c)' /\ Ages(c)' /\ Totals(c)'
  BY <1>1 DEF ReadOnce, Ages, Totals, Reads
<1>14. QED
  BY <1>6, <1>8, <1>10, <1>11, <1>12, <1>13 DEF Good, CallInv

\* A person's decision: one update of one row, or none.
LEMMA DecisionGood ==
    ASSUME DInv, NEW c \in Calls, Patch(c) \/ Resolve(c) \/ Rejected(c), today' = today,
           overlap' = overlap
    PROVE  Good(c)
<1>1. /\ Kind[c] \in {"patch", "resolve"} /\ pc[c] = "begun" /\ runs' = runs
      /\ list' = list /\ now' = now /\ report' = report
  BY DEF Patch, Resolve, Rejected, At, locals
<1>2. Typed /\ CallInv(c)
  BY DEF DInv
<1>3. /\ (\E l \in {"ended", "failed"} : pc' = [pc EXCEPT ![c] = l]) /\ (Works \/ Fault)
      /\ \/ Nothing
         \/ \E r \in Table, status \in Statuses :
               Write(r, [disc[r] EXCEPT !.status = status, !.by = c])
  BY DEF Patch, Resolve, Rejected, UpdateStatus, WriteOrFail, Goto, Statuses
<1>4. \A r \in Rows : disc[r].by # c
  BY <1>1, <1>2 DEF CallInv, Acted
<1>5. RowsStep(c)
  <2>1. \A r \in Table : r \in Rows /\ disc[r] # NoRow
    BY <1>2, NoRowIsNone DEF Table, Typed
  <2>2. CASE Nothing
    BY <2>2, <1>2, NothingStep
  <2>3. CASE ~Nothing
    <3>1. PICK r \in Table, status \in Statuses :
               Write(r, [disc[r] EXCEPT !.status = status, !.by = c])
      BY <2>3, <1>3
    <3>2. QED
      BY <2>1, <3>1, <1>2, <1>4, DecideStep
  <2>4. QED
    BY <2>2, <2>3
<1>6. Moves(c)
  BY <1>1, <1>3 DEF Moves, Labels
<1>7. Typed' /\ Kept(c)
  BY <1>2, <1>5, <1>6, MovesTyped
<1>8. pc'[c] \in {"ended", "failed"}
  BY <1>2, <1>3 DEF Typed, TypeOK
<1>9. WereThere(c)'
  BY <1>1, <1>5, OwnRows DEF WereThere
<1>10. Acted(c)' /\ ToCome(c)' /\ Counts(c)'
  BY <1>1, <1>2, <1>8 DEF CallInv, ToCome, Acted, Counts
<1>11. ReadOnce(c)' /\ Ages(c)' /\ Totals(c)'
  BY <1>1 DEF ReadOnce, Ages, Totals, Reads
<1>12. QED
  BY <1>5, <1>7, <1>9, <1>10, <1>11 DEF Good, CallInv

-----------------------------------------------------------------------------
(* AutoResolve and AgeOpenDiscrepancies.                                   *)

LEMMA FindOpenGood ==
    ASSUME DInv, NEW c \in Calls, FindOpen(c), today' = today, overlap' = overlap
    PROVE  Good(c)
<1>1. /\ Kind[c] \in {"auto", "age"} /\ pc[c] = "begun" /\ disc' = disc
      /\ untouched' = untouched /\ now' = now /\ report' = report /\ runs' = runs
  BY DEF FindOpen, At, Nothing
<1>2. Typed /\ CallInv(c) /\ list[c] = {}
  BY <1>1 DEF DInv, CallInv, ReadOnce, Reads
<1> DEFINE found == {<<r, disc[r]>> : r \in Open}
<1>3. \/ Works /\ pc' = [pc EXCEPT ![c] = "found"] /\ list' = [list EXCEPT ![c] = found]
      \/ Fault /\ pc' = [pc EXCEPT ![c] = "failed"] /\ list' = list
  BY DEF FindOpen, Goto
<1>4. \A r \in Open : r \in Rows /\ disc[r] # NoRow /\ disc[r] \in RowType
  <2>1. ASSUME NEW r \in Open
        PROVE  r \in Rows /\ disc[r].status # "none"
    BY DEF Open
  <2>2. QED
    BY <2>1, <1>2, NoRowIsNone DEF Typed
<1>5. found \subseteq Rows \X RowType
  BY <1>4
<1>6. RowsStep(c)
  BY <1>1, <1>2, NothingStep DEF Nothing, FindOpen
<1>7. Moves(c)
  BY <1>1, <1>3, <1>5 DEF Moves, Labels, Reads
<1>8. Typed' /\ Kept(c)
  BY <1>2, <1>6, <1>7, MovesTyped
<1>9. \/ pc'[c] = "found" /\ list'[c] = found
      \/ pc'[c] = "failed" /\ list'[c] = {}
  BY <1>2, <1>3 DEF Typed, TypeOK
<1>10. ReadOnce(c)'
  <2>1. \A x \in found : disc[x[1]] # NoRow /\ x[2] = disc[x[1]]
    BY <1>4
  <2>2. \A x, y \in found : x[1] = y[1] => x = y
    OBVIOUS
  <2>3. QED
    BY <2>1, <2>2, <1>1, <1>9 DEF ReadOnce
<1>11. WereThere(c)'
  <2>1. \A x \in found : disc[x[1]].status = "open"
    BY DEF Open
  <2>2. QED
    BY <2>1, <1>1, <1>2, <1>9 DEF CallInv, WereThere
<1>12. Ages(c)'
  <2>1. \A x \in found : x[2] = disc[x[1]]
    OBVIOUS
  <2>2. ASSUME NEW r \in untouched[c], disc[r].status = "open"
        PROVE  \E x \in found : x[1] = r
    <3>1. r \in Open
      BY <2>2, <1>2 DEF Typed, TypeOK, Open
    <3>2. <<r, disc[r]>> \in found /\ <<r, disc[r]>>[1] = r
      BY <3>1
    <3>3. QED
      BY <3>2
  <2>3. QED
    BY <2>1, <2>2, <1>1, <1>9 DEF Ages
<1>13. Acted(c)'
  BY <1>1, <1>2 DEF CallInv, Acted
<1>14. ToCome(c)' /\ Counts(c)' /\ Totals(c)'
  BY <1>1, <1>2 DEF CallInv, ToCome, Counts, Totals
<1>15. QED
  BY <1>6, <1>8, <1>10, <1>11, <1>12, <1>13, <1>14 DEF Good, CallInv

LEMMA AutoResolveGood ==
    ASSUME DInv, NEW c \in Calls, AutoResolve(c), today' = today, overlap' = overlap
    PROVE  Good(c)
<1>1. /\ Kind[c] = "auto" /\ pc[c] = "found" /\ now' = now /\ report' = report /\ runs' = runs
  BY DEF AutoResolve, At
<1>2. Typed /\ CallInv(c) /\ ReadOnce(c) /\ Acted(c) /\ WereThere(c)
  BY DEF DInv, CallInv
<1>3. \/ /\ pc' = [pc EXCEPT ![c] = "ended"] /\ Nothing /\ Works /\ list' = list
      \/ \E x \in list[c] :
            /\ list' = [list EXCEPT ![c] = @ \ {x}] /\ (Works \/ Fault)
            /\ pc' = [pc EXCEPT ![c] = "found"] \/ pc' = [pc EXCEPT ![c] = "failed"]
            /\ \/ Write(x[1], [disc[x[1]] EXCEPT !.status = "resolved", !.by = c])
               \/ Nothing
  BY DEF AutoResolve, UpdateStatus, WriteOrFail, Take, Goto
<1>4. \A x \in list[c] : x[1] \in Rows /\ disc[x[1]] # NoRow /\ disc[x[1]].by # c
  BY <1>1, <1>2 DEF Typed, Reads, ReadOnce, Acted
<1>5. PICK l \in {"found", "ended", "failed"}, S \in SUBSET list[c] :
         /\ pc' = [pc EXCEPT ![c] = l] /\ pc'[c] = l /\ (Works \/ Fault)
         /\ list' = list \/ list' = [list EXCEPT ![c] = S]
         /\ list'[c] \subseteq list[c]
  <2>1. pc \in [Calls -> Labels \cup {"idle"}] /\ \A S : [list EXCEPT ![c] = S][c] = S
    BY <1>2 DEF Typed, TypeOK, Labels
  <2>2. CASE list' = list
    BY <2>1, <2>2, <1>3
  <2>3. CASE list' # list
    <3>1. PICK x \in list[c] :
            /\ list' = [list EXCEPT ![c] = @ \ {x}] /\ (Works \/ Fault)
            /\ pc' = [pc EXCEPT ![c] = "found"] \/ pc' = [pc EXCEPT ![c] = "failed"]
      BY <2>3, <1>3
    <3>2. list'[c] = list[c] \ {x}
      BY <2>1, <3>1
    <3>3. QED
      BY <2>1, <3>1, <3>2
  <2>4. QED
    BY <2>2, <2>3
<1>6. /\ RowsStep(c)
      /\ \A r \in Rows : disc'[r].by = c => disc[r].by = c \/ \A x \in list'[c] : x[1] # r
  <2>1. CASE Nothing
    BY <2>1, <1>2, NothingStep DEF Nothing
  <2>2. CASE ~Nothing
    <3>1. PICK x \in list[c] :
            /\ list' = [list EXCEPT ![c] = @ \ {x}]
            /\ Write(x[1], [disc[x[1]] EXCEPT !.status = "resolved", !.by = c])
      BY <2>2, <1>3
    <3>2. /\ RowsStep(c) /\ \A r \in Rows \ {x[1]} : disc'[r] = disc[r]
      BY <3>1, <1>2, <1>4, DecideStep DEF Statuses
    <3>3. list'[c] = list[c] \ {x} /\ \A y \in list'[c] : y[1] # x[1]
      BY <3>1, <1>1, <1>2 DEF Typed, ReadOnce, Reads
    <3>4. QED
      BY <3>2, <3>3
  <2>3. QED
    BY <2>1, <2>2
<1>7. Moves(c)
  <2>1. list'[c] \subseteq Rows \X RowType /\ Reads(c)
    BY <1>1, <1>2, <1>5 DEF Typed, Reads
  <2>2. QED
    BY <2>1, <1>1, <1>5 DEF Moves, Labels
<1>8. Typed' /\ Kept(c)
  BY <1>2, <1>6, <1>7, MovesTyped
<1>9. ReadOnce(c)'
  <2>1. \A x \in list'[c] : /\ disc'[x[1]] # NoRow
                            /\ disc'[x[1]].created = disc[x[1]].created
    BY <1>4, <1>5, <1>6 DEF RowsStep, RowStep
  <2>2. QED
    BY <2>1, <1>1, <1>2, <1>5 DEF ReadOnce, Reads
<1>10. Acted(c)'
  BY <1>1, <1>2, <1>5, <1>6 DEF Acted
<1>11. WereThere(c)'
  BY <1>1, <1>2, <1>5, <1>6, OwnRows DEF WereThere
<1>12. ToCome(c)' /\ Counts(c)' /\ Totals(c)' /\ Ages(c)'
  BY <1>1, <1>2 DEF CallInv, ToCome, Counts, Totals, Ages
<1>13. QED
  BY <1>6, <1>8, <1>9, <1>10, <1>11, <1>12 DEF Good, CallInv

LEMMA ReadClockGood ==
    ASSUME DInv, NEW c \in Calls, ReadClock(c), today' = today, overlap' = overlap
    PROVE  Good(c)
<1>1. /\ Kind[c] = "age" /\ pc[c] = "found" /\ pc' = [pc EXCEPT ![c] = "ages"]
      /\ now' = [now EXCEPT ![c] = today] /\ list' = list /\ report' = report
      /\ runs' = runs /\ disc' = disc /\ untouched' = untouched /\ Works
  BY DEF ReadClock, At, Goto, Nothing
<1>2. Typed /\ CallInv(c) /\ ReadOnce(c)
  BY DEF DInv, CallInv
<1>3. RowsStep(c)
  BY <1>1, <1>2, NothingStep DEF Nothing
<1>4. Moves(c)
  BY <1>1 DEF Moves, Labels
<1>5. Typed' /\ Kept(c)
  BY <1>2, <1>3, <1>4, MovesTyped
<1>6. pc'[c] = "ages" /\ now'[c] = today
  BY <1>1, <1>2 DEF Typed, TypeOK
<1>7. \A x \in list[c] : x[2].created <= today
  <2>1. \A x \in list[c] : x[1] \in Rows
    BY <1>1, <1>2 DEF Typed, Reads
  <2>2. QED
    BY <2>1, <1>1, <1>2 DEF ReadOnce, Reads, Typed
<1>8. ReadOnce(c)'
  BY <1>1, <1>2, <1>6, <1>7 DEF ReadOnce, Reads
<1>9. Ages(c)'
  BY <1>1, <1>2, <1>6 DEF CallInv, Ages, Works, NoAgeOverlap
<1>10. ToCome(c)' /\ Acted(c)' /\ WereThere(c)' /\ Counts(c)' /\ Totals(c)'
  BY <1>1, <1>2 DEF CallInv, ToCome, Acted, WereThere, Counts, Totals
<1>11. QED
  BY <1>3, <1>5, <1>8, <1>9, <1>10 DEF Good, CallInv

\* What aging makes of a row that it has read.
LEMMA AgedTyped ==
    ASSUME DInv, NEW c \in Calls, Kind[c] = "age", pc[c] = "ages", NEW x \in list[c]
    PROVE  /\ Aged(c, x).ageDays \in 0 .. MaxDay /\ Aged(c, x).severity \in 1 .. 4
           /\ x[2].severity <= Aged(c, x).severity
           /\ now[c] - disc[x[1]].created > HighAge => Aged(c, x).severity >= 3
           /\ now[c] - disc[x[1]].created > CriticalAge => Aged(c, x).severity = 4
<1>1. /\ now[c] \in 0 .. MaxDay /\ x[2].created \in 0 .. MaxDay /\ x[2].severity \in 1 .. 4
      /\ x[2].created <= now[c] /\ x[2].created = disc[x[1]].created
  <2>1. ReadOnce(c) /\ Typed
    BY DEF DInv, CallInv
  <2>2. x[2] \in RowType
    BY <2>1 DEF Typed, Reads
  <2>3. QED
    BY <2>1, <2>2 DEF ReadOnce, Typed, Reads, RowType
<1> DEFINE days == now[c] - x[2].created
<1>2. days \in 0 .. MaxDay /\ days \in Int
  BY <1>1, DiscrepancyAssumption
<1>3. Aged(c, x).ageDays = days /\ Aged(c, x).severity = escalateSeverity(x[2].severity, days)
  BY DEF Aged
<1> HIDE DEF days
<1>4. QED
  BY <1>1, <1>2, <1>3, Escalates DEF days

LEMMA AgeGood ==
    ASSUME DInv, NEW c \in Calls, Age(c), today' = today, overlap' = overlap
    PROVE  Good(c)
<1>1. /\ Kind[c] = "age" /\ pc[c] = "ages" /\ now' = now /\ report' = report /\ runs' = runs
  BY DEF Age, At
<1>2. Typed /\ CallInv(c) /\ ReadOnce(c) /\ Ages(c) /\ WereThere(c)
  BY DEF DInv, CallInv
<1>3. PICK x \in list[c] :
         /\ list' = [list EXCEPT ![c] = @ \ {x}]
         /\ \/ Works /\ pc' = [pc EXCEPT ![c] = "ages"]
               /\ Write(x[1], [disc[x[1]] EXCEPT !.ageDays = Aged(c, x).ageDays,
                                                 !.severity = Aged(c, x).severity])
            \/ /\ Fault /\ pc' = [pc EXCEPT ![c] = "failed"]
               /\ \/ Write(x[1], [disc[x[1]] EXCEPT !.ageDays = Aged(c, x).ageDays,
                                                    !.severity = Aged(c, x).severity])
                  \/ Nothing
  BY DEF Age, Stale, WriteOrFail, Take, Goto
<1>4. /\ x[1] \in Rows /\ disc[x[1]] # NoRow
      /\ \A y \in list[c] \ {x} : y[1] \in Rows \ {x[1]}
  BY <1>1, <1>2 DEF Typed, Reads, ReadOnce
<1>5. /\ Aged(c, x).ageDays \in 0 .. MaxDay /\ Aged(c, x).severity \in 1 .. 4
      /\ NoAgeOverlap => disc[x[1]].severity <= Aged(c, x).severity
  BY <1>1, <1>2, AgedTyped DEF Ages
<1>6. /\ RowsStep(c)
      /\ pc'[c] = "ages" => disc'[x[1]].severity = Aged(c, x).severity
      /\ \A r \in Rows \ {x[1]} : disc'[r] = disc[r]
  <2>1. ASSUME Write(x[1], [disc[x[1]] EXCEPT !.ageDays = Aged(c, x).ageDays,
                                              !.severity = Aged(c, x).severity])
        PROVE  /\ RowsStep(c) /\ disc'[x[1]].severity = Aged(c, x).severity
               /\ \A r \in Rows \ {x[1]} : disc'[r] = disc[r]
    BY <2>1, <1>1, <1>2, <1>4, <1>5, AgeStep
  <2>2. ASSUME Nothing
        PROVE  RowsStep(c) /\ \A r \in Rows \ {x[1]} : disc'[r] = disc[r]
    BY <2>2, <1>2, NothingStep DEF Nothing
  <2>3. pc'[c] = "ages" => pc' # [pc EXCEPT ![c] = "failed"]
    BY <1>2 DEF Typed, TypeOK
  <2>4. QED
    BY <2>1, <2>2, <2>3, <1>3
<1>7. Moves(c)
  <2>1. list[c] \ {x} \subseteq Rows \X RowType /\ Reads(c)
    BY <1>1, <1>2 DEF Typed, Reads
  <2>2. QED
    BY <2>1, <1>1, <1>3 DEF Moves, Labels
<1>8. Typed' /\ Kept(c)
  BY <1>2, <1>6, <1>7, MovesTyped
<1>9. /\ list'[c] = list[c] \ {x} /\ pc'[c] \in {"ages", "failed"}
  BY <1>2, <1>3 DEF Typed, TypeOK
<1>10. ReadOnce(c)'
  <2>1. \A y \in list'[c] : disc'[y[1]] = disc[y[1]]
    BY <1>4, <1>6, <1>9
  <2>2. QED
    BY <2>1, <1>1, <1>2, <1>9 DEF ReadOnce, Reads
<1>11. Ages(c)'
  <2> SUFFICES ASSUME NoAgeOverlap
               PROVE  Ages(c)'
    BY DEF Ages, NoAgeOverlap
  <2>1. ASSUME NEW y \in list'[c]
        PROVE  y[2].severity = disc'[y[1]].severity
    BY <1>1, <1>2, <1>4, <1>6, <1>9 DEF Ages
  <2>2. ASSUME pc'[c] = "ages", NEW r \in untouched'[c], disc'[r].status = "open"
        PROVE  (\E y \in list'[c] : y[1] = r) \/ Severe(c, r)'
    <3>1. /\ r \in Rows /\ r \in untouched[c] /\ disc[r].status = "open"
          /\ disc'[r].created = disc[r].created
      BY <2>2, <1>6, OwnRows
    <3>2. CASE r = x[1]
      <4>1. disc'[r].severity = Aged(c, x).severity
        BY <2>2, <3>2, <1>6
      <4>2. QED
        BY <3>1, <3>2, <4>1, <1>1, AgedTyped DEF Severe
    <3>3. CASE r # x[1]
      <4>1. (\E y \in list[c] : y[1] = r) \/ Severe(c, r)
        BY <3>1, <1>1, <1>2 DEF Ages
      <4>2. disc'[r] = disc[r]
        BY <3>1, <3>3, <1>6
      <4>3. QED
        BY <3>3, <4>1, <4>2, <1>1, <1>9 DEF Severe
    <3>5. QED
      BY <3>2, <3>3
  <2>3. QED
    BY <2>1, <2>2, <1>9 DEF Ages
<1>12. Acted(c)'
  <2>1. \A r \in Rows : disc[r].by # c
    BY <1>1, <1>2 DEF CallInv, Acted
  <2>2. disc'[x[1]].by = disc[x[1]].by
    <3>1. disc[x[1]] \in RowType
      BY <1>2, <1>4, NoRowIsNone DEF Typed
    <3>2. QED
      BY <3>1, <1>2, <1>3, <1>4 DEF Write, Nothing, RowType, Typed, TypeOK
  <2>3. \A r \in Rows : disc'[r].by # c
    BY <2>1, <2>2, <1>6
  <2>4. QED
    BY <2>3 DEF Acted
<1>13. WereThere(c)'
  BY <1>1, <1>6, OwnRows DEF WereThere
<1>14. ToCome(c)' /\ Counts(c)' /\ Totals(c)'
  BY <1>1, <1>2 DEF CallInv, ToCome, Counts, Totals
<1>15. QED
  BY <1>6, <1>8, <1>10, <1>11, <1>12, <1>13, <1>14 DEF Good, CallInv

\* When nothing is stale any more, every row it knows of is as severe as asked.
LEMMA AgeEndsGood ==
    ASSUME DInv, NEW c \in Calls, AgeEnds(c), today' = today, overlap' = overlap
    PROVE  Good(c)
<1>1. /\ Kind[c] = "age" /\ pc[c] = "ages" /\ pc' = [pc EXCEPT ![c] = "ended"]
      /\ now' = now /\ list' = list /\ report' = report /\ runs' = runs
      /\ disc' = disc /\ untouched' = untouched /\ Works /\ Stale(c) = {}
  BY DEF AgeEnds, At, Goto, Nothing, locals
<1>2. Typed /\ CallInv(c) /\ Ages(c)
  BY DEF DInv, CallInv
<1>3. RowsStep(c)
  BY <1>1, <1>2, NothingStep DEF Nothing
<1>4. Moves(c)
  BY <1>1 DEF Moves, Labels
<1>5. Typed' /\ Kept(c)
  BY <1>2, <1>3, <1>4, MovesTyped
<1>6. pc'[c] = "ended"
  BY <1>1, <1>2 DEF Typed, TypeOK
<1>7. Ages(c)'
  <2>1. ASSUME NoAgeOverlap, NEW x \in list[c]
        PROVE  Severe(c, x[1])
    <3>1. Aged(c, x).severity = x[2].severity /\ x[2].severity = disc[x[1]].severity
      BY <2>1, <1>1, <1>2 DEF Stale, Ages
    <3>2. QED
      BY <3>1, <1>1, AgedTyped DEF Severe
  <2>2. QED
    BY <2>1, <1>1, <1>2, <1>6 DEF Ages, Severe, Works, NoAgeOverlap
<1>8. ReadOnce(c)' /\ ToCome(c)' /\ Acted(c)' /\ WereThere(c)' /\ Counts(c)' /\ Totals(c)'
  BY <1>1, <1>2, <1>6 DEF CallInv, ReadOnce, ToCome, Acted, WereThere, Counts, Totals
<1>9. QED
  BY <1>3, <1>5, <1>7, <1>8 DEF Good, CallInv

-----------------------------------------------------------------------------
(* The settlement report.                                                  *)

\* Counting each of some calls' transactions by its number in the call counts
\* no more than there are rows of theirs.
LEMMA CountedRows ==
    ASSUME NEW D \in SUBSET Calls, NEW n \in [Calls -> Nat],
           \A d \in D : n[d] = Cardinality(Concerns[d])
    PROVE  LET counted == UNION {{d} \X (1 .. n[d]) : d \in D}
           IN  /\ IsFiniteSet(counted) /\ Cardinality(counted) \in Nat
               /\ IsFiniteSet(RowsOf(D)) /\ Cardinality(counted) <= Cardinality(RowsOf(D))
<1> DEFINE counted == UNION {{d} \X (1 .. n[d]) : d \in D}
           Num(d) == CHOOSE f : f \in Bijection(1 .. n[d], Concerns[d])
           g == [p \in counted |-> <<p[1], Num(p[1])[p[2]]>>]
<1>1. \A p \in counted : p[1] \in D /\ p[2] \in 1 .. n[p[1]] /\ p = <<p[1], p[2]>>
  OBVIOUS
<1>2. ASSUME NEW d \in D
      PROVE  Num(d) \in Bijection(1 .. n[d], Concerns[d])
  <2>1. ExistsBijection(1 .. n[d], Concerns[d])
    BY CardinalityOfConcerns, FS_CardinalityType
  <2>2. \E f : f \in Bijection(1 .. n[d], Concerns[d])
    BY <2>1 DEF ExistsBijection
  <2>3. QED
    BY <2>2
<1>3. ASSUME NEW d \in D
      PROVE  /\ Num(d) \in [1 .. n[d] -> Concerns[d]]
             /\ \A i, j \in 1 .. n[d] : Num(d)[i] = Num(d)[j] => i = j
  BY <1>2 DEF Bijection, Injection, IsInjective
<1> HIDE DEF Num
<1>4. ASSUME NEW p \in counted
      PROVE  g[p] = <<p[1], Num(p[1])[p[2]]>> /\ g[p] \in RowsOf(D)
  <2>1. Num(p[1])[p[2]] \in Concerns[p[1]] /\ p[1] \in D
    BY <1>1, <1>3
  <2>2. QED
    BY <2>1, DiscrepancyAssumption DEF RowsOf, Rows
<1> HIDE DEF counted
<1>5. g \in Injection(counted, RowsOf(D))
  <2>1. g \in [counted -> RowsOf(D)]
    BY <1>4
  <2>2. ASSUME NEW p \in counted, NEW q \in counted, g[p] = g[q]
        PROVE  p = q
    <3>1. p[1] = q[1] /\ Num(p[1])[p[2]] = Num(p[1])[q[2]]
      BY <2>2, <1>4
    <3>2. p[2] = q[2]
      BY <3>1, <1>1, <1>3
    <3>3. QED
      BY <3>1, <3>2, <1>1
  <2>3. IsInjective(g)
    BY <2>2 DEF IsInjective
  <2>4. QED
    BY <2>1, <2>3 DEF Injection
<1>6. IsFiniteSet(RowsOf(D))
  <2>1. IsFiniteSet(Rows)
    BY DiscrepancyAssumption, FS_AddElement, FS_Product DEF Rows
  <2>2. QED
    BY <2>1, FS_Subset DEF RowsOf
<1> HIDE DEF g
<1>7. IsFiniteSet(counted) /\ Cardinality(counted) <= Cardinality(RowsOf(D))
  BY <1>5, <1>6, FS_Injection
<1>8. Cardinality(counted) \in Nat
  BY <1>7, FS_CardinalityType
<1>9. QED
  BY <1>6, <1>7, <1>8 DEF counted

LEMMA SumRunsGood ==
    ASSUME DInv, NEW c \in Calls, SumRuns(c), today' = today, overlap' = overlap
    PROVE  Good(c)
<1> DEFINE of == {d \in Calls : runs[d].status # "none" /\ runs[d].started \in From .. To}
           D == {d \in of : runs[d].status = "completed"}
           n == [d \in Calls |-> runs[d].count]
           counted == UNION {{d} \X (1 .. runs[d].count) : d \in of}
           rep == [report[c] EXCEPT !.of = of, !.total = Cardinality(counted)]
<1>1. /\ Kind[c] = "report" /\ pc[c] = "begun" /\ pc' = [pc EXCEPT ![c] = "lists"]
      /\ now' = now /\ list' = list /\ runs' = runs
      /\ report' = [report EXCEPT ![c] = rep]
      /\ disc' = disc /\ untouched' = untouched /\ Works
  BY DEF SumRuns, At, Goto, Nothing
<1>2. Typed /\ CallInv(c) /\ n \in [Calls -> Nat] /\ \A d \in Calls : Counts(d)
  BY DEF DInv, CallInv, Typed, TypeOK
<1>3. counted = UNION {{d} \X (1 .. n[d]) : d \in D}
  <2>1. \A d \in of \ D : 1 .. runs[d].count = {}
    BY <1>2 DEF Counts
  <2>2. \A d \in of : runs[d].count = n[d]
    OBVIOUS
  <2>3. QED
    BY <2>1, <2>2
<1>4. \A d \in D : n[d] = Cardinality(Concerns[d])
  BY <1>2 DEF Counts
<1>5. Cardinality(counted) \in Nat /\ Cardinality(counted) <= Cardinality(RowsOf(D))
  <2> HIDE DEF n, counted
  <2>1. D \in SUBSET Calls
    OBVIOUS
  <2> HIDE DEF D
  <2>2. QED
    BY <2>1, <1>2, <1>3, <1>4, CountedRows
<1> HIDE DEF counted
<1>6. rep \in ReportType /\ rep.of = of /\ rep.total = Cardinality(counted)
  <2>1. report[c] \in ReportType /\ of \in SUBSET Calls
    BY <1>2 DEF Typed
  <2> HIDE DEF of
  <2>2. QED
    BY <2>1, <1>5 DEF ReportType
<1> HIDE DEF rep
<1>7. RowsStep(c)
  BY <1>1, <1>2, NothingStep DEF Nothing
<1>8. Moves(c)
  BY <1>1, <1>6 DEF Moves, Labels
<1>9. Typed' /\ Kept(c)
  BY <1>2, <1>7, <1>8, MovesTyped
<1>10. pc'[c] = "lists" /\ report'[c] = rep
  BY <1>1, <1>2 DEF Typed, TypeOK
<1>11. Totals(c)'
  <2>1. D \in SUBSET rep.of /\ rep.total <= Cardinality(RowsOf(D))
    BY <1>5, <1>6
  <2>2. \A d \in D : runs'[d].status = "completed" /\ runs'[d].started \in From .. To
    BY <1>1
  <2> HIDE DEF D
  <2>3. QED
    BY <2>1, <2>2, <1>10 DEF Totals, RowsOf, Rows
<1>12. /\ ReadOnce(c)' /\ ToCome(c)' /\ Acted(c)' /\ WereThere(c)' /\ Counts(c)' /\ Ages(c)'
  BY <1>1, <1>2 DEF CallInv, ReadOnce, ToCome, Acted, WereThere, Counts, Ages, Reads
<1>13. QED
  BY <1>7, <1>9, <1>11, <1>12 DEF Good, CallInv

\* The rows of a completed run lie between its start and its end.
LEMMA ListDiscrepanciesGood ==
    ASSUME DInv, NEW c \in Calls, ListDiscrepancies(c), today' = today, overlap' = overlap
    PROVE  Good(c)
<1> DEFINE listed == {r \in Table : disc[r].created \in From .. To}
           rep == [report[c] EXCEPT !.listed = listed]
<1>1. /\ Kind[c] = "report" /\ pc[c] = "lists" /\ pc' = [pc EXCEPT ![c] = "ended"]
      /\ now' = now /\ list' = list /\ runs' = runs
      /\ report' = [report EXCEPT ![c] = rep]
      /\ disc' = disc /\ untouched' = untouched /\ Works
  BY DEF ListDiscrepancies, At, Goto, Nothing
<1>2. Typed /\ CallInv(c) /\ \A d \in Calls : Counts(d)
  BY DEF DInv, CallInv
<1>3. rep \in ReportType /\ rep.of = report[c].of /\ rep.total = report[c].total
      /\ rep.listed = listed
  <2>1. report[c] \in ReportType /\ listed \in SUBSET Rows
    BY <1>2 DEF Typed, Table
  <2> HIDE DEF listed
  <2>2. QED
    BY <2>1 DEF ReportType
<1> HIDE DEF rep
<1>4. RowsStep(c)
  BY <1>1, <1>2, NothingStep DEF Nothing
<1>5. Moves(c)
  BY <1>1, <1>3 DEF Moves, Labels
<1>6. Typed' /\ Kept(c)
  BY <1>2, <1>4, <1>5, MovesTyped
<1>7. pc'[c] = "ended" /\ report'[c] = rep
  BY <1>1, <1>2 DEF Typed, TypeOK
<1>8. Totals(c)'
  <2>1. PICK D \in SUBSET report[c].of :
           /\ \A d \in D : runs[d].status = "completed" /\ runs[d].started \in From .. To
           /\ report[c].total <= Cardinality(RowsOf(D))
    BY <1>1, <1>2 DEF CallInv, Totals
  <2>2. ASSUME \A d \in D : runs[d].ended <= To, NEW r \in RowsOf(D)
        PROVE  r \in listed
    <3>1. r \in Rows /\ r[1] \in D /\ r[2] \in Concerns[r[1]] /\ r = <<r[1], r[2]>>
      BY DEF RowsOf, Rows
    <3>2. r[1] \in Calls
      BY <3>1, <1>2 DEF Typed, ReportType
    <3>3. /\ disc[r] # NoRow /\ runs[r[1]].started <= disc[r].created
          /\ disc[r].created <= runs[r[1]].ended
      BY <2>1, <3>1, <3>2, <1>2 DEF Counts
    <3>4. r \in Table /\ disc[r].created \in 0 .. MaxDay
      BY <3>1, <3>3, <1>2, NoRowIsNone DEF Typed, RowType
    <3>5. runs[r[1]].started \in 0 .. MaxDay /\ runs[r[1]].ended \in 0 .. MaxDay
      BY <3>2, <1>2 DEF Typed, TypeOK
    <3>6. disc[r].created \in From .. To
      BY <2>1, <2>2, <3>1, <3>3, <3>4, <3>5, DiscrepancyAssumption
    <3>7. QED
      BY <3>4, <3>6
  <2> HIDE DEF listed
  <2>3. (\A d \in D : runs[d].ended <= To) => RowsOf(D) \subseteq listed
    BY <2>2
  <2>4. QED
    BY <2>1, <2>3, <1>1, <1>3, <1>7 DEF Totals, RowsOf, Rows
<1>9. /\ ReadOnce(c)' /\ ToCome(c)' /\ Acted(c)' /\ WereThere(c)' /\ Counts(c)' /\ Ages(c)'
  BY <1>1, <1>2 DEF CallInv, ReadOnce, ToCome, Acted, WereThere, Counts, Ages, Reads
<1>10. QED
  BY <1>4, <1>6, <1>8, <1>9 DEF Good, CallInv

LEMMA ReportFailsGood ==
    ASSUME DInv, NEW c \in Calls, ReportFails(c), today' = today, overlap' = overlap
    PROVE  Good(c)
<1>1. /\ Kind[c] = "report" /\ pc[c] \in {"begun", "lists"}
      /\ pc' = [pc EXCEPT ![c] = "failed"] /\ now' = now /\ list' = list /\ runs' = runs
      /\ report' = [report EXCEPT ![c] = NoReport]
      /\ disc' = disc /\ untouched' = untouched /\ Fault
  BY DEF ReportFails, At, Goto, Nothing
<1>2. Typed /\ CallInv(c)
  BY DEF DInv
<1>3. NoReport \in ReportType /\ NoReport.total = 0
  BY DEF NoReport, ReportType
<1>4. RowsStep(c)
  BY <1>1, <1>2, NothingStep DEF Nothing
<1>5. Moves(c)
  BY <1>1, <1>3 DEF Moves, Labels
<1>6. Typed' /\ Kept(c)
  BY <1>2, <1>4, <1>5, MovesTyped
<1>7. Totals(c)'
  <2>1. report'[c] = NoReport
    BY <1>1, <1>2 DEF Typed
  <2>2. RowsOf({}) = {} /\ Cardinality(RowsOf({})) = 0
    BY FS_EmptySet DEF RowsOf
  <2>3. \E D \in SUBSET report'[c].of :
            D = {} /\ report'[c].total <= Cardinality(RowsOf(D))
    BY <2>1, <2>2, <1>3
  <2>4. QED
    BY <2>2, <2>3 DEF Totals, RowsOf, Rows
<1>8. /\ ReadOnce(c)' /\ ToCome(c)' /\ Acted(c)' /\ WereThere(c)' /\ Counts(c)' /\ Ages(c)'
  BY <1>1, <1>2 DEF CallInv, ReadOnce, ToCome, Acted, WereThere, Counts, Ages, Reads
<1>9. QED
  BY <1>4, <1>6, <1>7, <1>8 DEF Good, CallInv

-----------------------------------------------------------------------------
(* The invariant is inductive.                                             *)

LEMMA InitInv ==
    ASSUME Init
    PROVE  DInv
<1>1. 0 \in 0 .. MaxDay /\ 0 \in 0 .. MaxFaults /\ today = 0
  BY DiscrepancyAssumption DEF Init
<1>2. \A r \in Rows : disc[r] = NoRow \/ (disc[r] \in RowType /\ disc[r].by = NoCall
                                          /\ disc[r].created = 0 /\ r[1] = NoCall)
  <2>1. ASSUME NEW r \in Rows, r[1] = NoCall, r[2] \in Stored
        PROVE  /\ NewRow(classifySeverity(Amount[r[2]])) \in RowType
               /\ NewRow(classifySeverity(Amount[r[2]])).by = NoCall
               /\ NewRow(classifySeverity(Amount[r[2]])).created = 0
    <3>1. Amount[r[2]] \in Int
      BY <2>1, DiscrepancyAssumption
    <3>2. QED
      BY <3>1, <1>1, SeverityTyped, NewRowTyped
  <2>2. QED
    BY <2>1 DEF Init
<1>3. disc \in [Rows -> {NoRow} \cup RowType]
  BY <1>2 DEF Init
<1>4. \A r \in Rows : disc[r].by = NoCall /\ (disc[r] # NoRow => disc[r].created = 0)
  BY <1>2 DEF NoRow
<1>5. NoRun \in RunType /\ NoReport \in ReportType /\ NoRun.count = 0 /\ NoRun.status = "none"
  BY <1>1 DEF NoRun, RunType, NoReport, ReportType
<1>6. TypeOK
  BY <1>1, <1>3, <1>5 DEF TypeOK, Init, RowType, RunType
<1>7. Typed
  BY <1>1, <1>4, <1>5, <1>6 DEF Typed, Init
<1>8. Overlaps
  BY DEF Overlaps, Init, Active
<1>9. ASSUME NEW c \in Calls
      PROVE  CallInv(c)
  <2>1. \A t \in Txns : disc[<<c, t>>] = NoRow
    BY <1>2, DiscrepancyAssumption DEF Rows
  <2>2. pc[c] = "idle" /\ list[c] = {} /\ untouched[c] = {} /\ runs[c] = NoRun
    BY DEF Init
  <2>3. \A r \in Rows : disc[r].by # c
    BY <1>4, DiscrepancyAssumption
  <2>4. ToCome(c) /\ Acted(c) /\ ReadOnce(c) /\ WereThere(c)
    BY <2>1, <2>2, <2>3 DEF ToCome, Acted, ReadOnce, WereThere
  <2>5. Ages(c) /\ Counts(c) /\ Totals(c)
    BY <2>2, <1>5 DEF Ages, Counts, Totals
  <2>6. QED
    BY <2>4, <2>5 DEF CallInv
<1>10. QED
  BY <1>7, <1>8, <1>9 DEF DInv

LEMMA BeginInv ==
    ASSUME DInv, NEW c \in Calls, Begin(c)
    PROVE  DInv'
<1>1. /\ pc[c] = "idle" /\ pc' = [pc EXCEPT ![c] = "begun"]
      /\ untouched' = [untouched EXCEPT ![c] = Table]
      /\ overlap' = [d \in Calls |-> IF d = c THEN Active
                        ELSE IF d \in Active THEN overlap[d] \cup {c} ELSE overlap[d]]
      /\ now' = now \/ now' = [now EXCEPT ![c] = today]
      /\ disc' = disc /\ runs' = runs /\ today' = today /\ list' = list
      /\ report' = report /\ faults' = faults
  BY DEF Begin, Goto
<1>2. Typed /\ Overlaps /\ CallInv(c)
  BY DEF DInv
<1>3. /\ pc'[c] = "begun" /\ untouched'[c] = Table /\ overlap'[c] = Active
      /\ \A d \in Calls \ {c} : /\ pc'[d] = pc[d] /\ untouched'[d] = untouched[d]
                                /\ now'[d] = now[d]
      /\ \A d \in Calls : overlap[d] \subseteq overlap'[d]
  BY <1>1, <1>2 DEF Typed, TypeOK, Overlaps
<1>4. Typed'
  <2>1. TypeOK'
    BY <1>1, <1>2 DEF Typed, TypeOK, Table, Active
  <2>2. now' \in [Calls -> 0 .. MaxDay] /\ \A d \in Calls : now'[d] <= today
    BY <1>1, <1>2 DEF Typed
  <2>3. QED
    BY <2>1, <2>2, <1>1, <1>2 DEF Typed
<1>5. Overlaps'
  <2>1. Active' = Active \cup {c} /\ c \notin Active
    BY <1>1, <1>3 DEF Active
  <2>2. ASSUME NEW a \in Active', NEW b \in Active', a # b
        PROVE  b \in overlap'[a]
    <3>1. CASE a = c
      BY <2>1, <2>2, <3>1, <1>3
    <3>2. CASE a # c
      <4>1. a \in Active /\ a \in Calls /\ overlap'[a] = overlap[a] \cup {c}
        BY <2>1, <2>2, <3>2, <1>1 DEF Active
      <4>2. QED
        BY <2>1, <2>2, <4>1, <1>2 DEF Overlaps
    <3>3. QED
      BY <3>1, <3>2
  <2>3. ASSUME NEW a \in Calls, pc'[a] = "idle"
        PROVE  overlap'[a] = {}
    <3>1. a # c /\ pc[a] = "idle" /\ a \notin Active
      BY <2>3, <1>3 DEF Active
    <3>2. QED
      BY <3>1, <1>1, <1>2 DEF Overlaps
  <2>4. QED
    BY <2>2, <2>3 DEF Overlaps
<1>6. CallInv(c)'
  <2>1. \A r \in Rows : disc[r].by # c
    BY <1>1, <1>2 DEF CallInv, Acted
  <2>2. \A r \in Table : disc[r] # NoRow
    BY <1>2, NoRowIsNone DEF Typed, Table
  <2>3. Reads(c) => list[c] = {}
    BY <1>1, <1>2 DEF CallInv, ReadOnce
  <2>4. WereThere(c)'
    BY <2>2, <2>3, <1>1, <1>3 DEF WereThere, Reads
  <2>5. Acted(c)'
    BY <2>1, <1>1 DEF Acted
  <2>6. ReadOnce(c)'
    BY <2>3, <1>1, <1>3 DEF ReadOnce, Reads
  <2>7. ToCome(c)' /\ Ages(c)' /\ Totals(c)'
    BY <1>1, <1>2, <1>3 DEF CallInv, ToCome, Ages, Totals
  <2>8. Counts(c)'
    BY <1>1, <1>2, <1>3 DEF CallInv, Counts
  <2>9. QED
    BY <2>4, <2>5, <2>6, <2>7, <2>8 DEF CallInv
<1>7. ASSUME NEW d \in Calls \ {c}
      PROVE  CallInv(d)'
  <2>1. CallInv(d)
    BY DEF DInv
  <2>2. NoAgeOverlap' => NoAgeOverlap
    BY <1>3 DEF NoAgeOverlap
  <2>3. Ages(d)'
    BY <2>1, <2>2, <1>1, <1>3 DEF CallInv, Ages, Severe
  <2>4. ToCome(d)' /\ Acted(d)' /\ ReadOnce(d)' /\ WereThere(d)'
    BY <2>1, <1>1, <1>3 DEF CallInv, ToCome, Acted, ReadOnce, WereThere
  <2>5. Counts(d)'
    <3>1. Counts(d)
      BY <2>1 DEF CallInv
    <3>2. pc'[d] = pc[d] /\ now'[d] = now[d]
      BY <1>3
    <3>3. QED
      BY <3>1, <3>2, <1>1 DEF Counts
  <2>6. Totals(d)'
    <3>1. Totals(d)
      BY <2>1 DEF CallInv
    <3>2. pc'[d] = pc[d]
      BY <1>3
    <3>3. QED
      BY <3>1, <3>2, <1>1 DEF Totals, RowsOf, Rows
  <2>7. QED
    BY <2>3, <2>4, <2>5, <2>6 DEF CallInv
<1>8. QED
  BY <1>4, <1>5, <1>6, <1>7 DEF DInv

LEMMA NextDayInv ==
    ASSUME DInv, NextDay \/ UNCHANGED vars
    PROVE  DInv'
<1>1. /\ disc' = disc /\ runs' = runs /\ untouched' = untouched /\ pc' = pc
      /\ list' = list /\ now' = now /\ report' = report /\ overlap' = overlap
      /\ faults' = faults /\ today' \in {today, today + 1}
      /\ today' = today + 1 => today < MaxDay
  BY DEF NextDay, tables, locals, vars, DInv, Typed
<1>2. Typed /\ today \in 0 .. MaxDay
  BY DEF DInv, Typed
<1>3. today' \in 0 .. MaxDay /\ today <= today'
  BY <1>1, <1>2, DiscrepancyAssumption
<1>4. Typed'
  <2>1. TypeOK'
    BY <1>1, <1>2 DEF Typed, TypeOK
  <2>2. \A c \in Calls : now[c] <= today'
    BY <1>2, <1>3 DEF Typed
  <2>3. \A r \in Rows : disc[r] # NoRow => disc[r].created <= today'
    <3>1. ASSUME NEW r \in Rows, disc[r] # NoRow
          PROVE  disc[r].created <= today'
      <4>1. disc[r].created \in 0 .. MaxDay /\ disc[r].created <= today
        BY <3>1, <1>2, NoRowIsNone DEF Typed, RowType
      <4>2. QED
        BY <4>1, <1>2, <1>3
    <3>2. QED
      BY <3>1
  <2>4. QED
    BY <2>1, <2>2, <2>3, <1>1, <1>2, <1>3 DEF Typed
<1>5. Overlaps'
  BY <1>1 DEF DInv, Overlaps, Active
<1>6. ASSUME NEW c \in Calls
      PROVE  CallInv(c)'
  <2>1. CallInv(c)
    BY DEF DInv
  <2>2. ToCome(c)' /\ Acted(c)' /\ ReadOnce(c)' /\ WereThere(c)'
    BY <2>1, <1>1 DEF CallInv, ToCome, Acted, ReadOnce, WereThere
  <2>3. Ages(c)' /\ Counts(c)' /\ Totals(c)'
    BY <2>1, <1>1 DEF CallInv, Ages, NoAgeOverlap, Severe, Counts, Totals, RowsOf, Rows
  <2>4. QED
    BY <2>2, <2>3 DEF CallInv
<1>7. QED
  BY <1>4, <1>5, <1>6 DEF DInv

LEMMA BodyGood ==
    ASSUME DInv, NEW c \in Calls, Body(c), today' = today, overlap' = overlap
    PROVE  Good(c)
BY CreateRunGood, InsertDiscrepancyGood, EndRunGood, LookUpGood, InsertNewGood, DecisionGood,
   FindOpenGood, AutoResolveGood, ReadClockGood, AgeGood, AgeEndsGood, ReportFailsGood,
   SumRunsGood, ListDiscrepanciesGood DEF Body

LEMMA NextInv ==
    ASSUME DInv, [Next]_vars
    PROVE  DInv'
<1>1. CASE NextDay \/ UNCHANGED vars
  BY <1>1, NextDayInv
<1>2. ASSUME NEW c \in Calls, Begin(c)
      PROVE  DInv'
  BY <1>2, BeginInv
<1>3. ASSUME NEW c \in Calls, Step(c)
      PROVE  DInv'
  BY <1>3, BodyGood, OthersKept DEF Step, Good
<1>4. QED
  BY <1>1, <1>2, <1>3 DEF Next

LEMMA Invariance == Spec => []DInv
<1>1. Init => DInv
  BY InitInv
<1>2. DInv /\ [Next]_vars => DInv'
  BY NextInv
<1>3. QED
  BY <1>1, <1>2, PTL DEF Spec

-----------------------------------------------------------------------------
\* The life of discrepancies keeps its types, whichever calls run together.
THEOREM Typing == Spec => []TypeOK
<1>1. DInv => TypeOK
  BY DEF DInv, Typed
<1>2. QED
  BY <1>1, Invariance, PTL

\* AgeOpenDiscrepancies leaves what was open when it began as severe as its age
\* asks, for any table, any days, any decisions meanwhile and any earlier calls
\* that failed midway, unless it fails itself or two agings overlapped.
THEOREM AgingReaches == Spec => []AgedEnough
<1>1. DInv => AgedEnough
  <2> SUFFICES ASSUME DInv, NEW c \in Calls, Kind[c] = "age", pc[c] = "ended",
                      NoAgeOverlap, NEW r \in untouched[c], disc[r].status = "open"
               PROVE  Severe(c, r)
    BY DEF AgedEnough, NoAgeOverlap, Severe
  <2>1. QED
    BY DEF DInv, CallInv, Ages
<1>2. QED
  BY <1>1, Invariance, PTL

\* A settlement report lists what its runs have counted, for any number of runs
\* and any interleaving with the report's two queries.
THEOREM ReportsAdd == Spec => []TotalsAreListed
<1>1. DInv => TotalsAreListed
  <2> SUFFICES ASSUME DInv, NEW c \in Calls, Kind[c] = "report", pc[c] = "ended",
                      \A d \in report[c].of : runs[d].ended <= To
               PROVE  report[c].total
                         <= Cardinality({r \in report[c].listed : r[1] \in report[c].of})
    BY DEF TotalsAreListed
  <2> DEFINE counted == {r \in report[c].listed : r[1] \in report[c].of}
  <2>1. report[c] \in ReportType
    BY DEF DInv, Typed
  <2>2. PICK D \in SUBSET report[c].of :
           report[c].total <= Cardinality(RowsOf(D)) /\ RowsOf(D) \subseteq report[c].listed
    BY DEF DInv, CallInv, Totals
  <2>3. RowsOf(D) \subseteq counted /\ counted \subseteq Rows
    BY <2>1, <2>2 DEF RowsOf, ReportType
  <2>4. IsFiniteSet(Rows)
    BY DiscrepancyAssumption, FS_AddElement, FS_Product DEF Rows
  <2> HIDE DEF counted
  <2>5. IsFiniteSet(counted) /\ Cardinality(RowsOf(D)) <= Cardinality(counted)
    BY <2>3, <2>4, FS_Subset
  <2>6. Cardinality(counted) \in Nat /\ Cardinality(RowsOf(D)) \in Nat
    BY <2>3, <2>4, <2>5, FS_Subset, FS_CardinalityType
  <2>7. report[c].total <= Cardinality(counted)
    BY <2>1, <2>2, <2>5, <2>6 DEF ReportType
  <2>8. QED
    BY <2>7 DEF counted
<1>2. QED
  BY <1>1, Invariance, PTL

-----------------------------------------------------------------------------
(* Steps.                                                                  *)

\* Only a step of a call's body changes a row.
LEMMA WhoWrites ==
    ASSUME DInv, [Next]_vars, disc' # disc
    PROVE  \E c \in Calls : Body(c) /\ RowsStep(c) /\ Kept(c) /\ pc[c] \notin {"ended", "failed"}
<1>1. PICK c \in Calls : Step(c)
  BY DEF Next, NextDay, Begin, tables, vars
<1>2. Good(c)
  BY <1>1, BodyGood DEF Step
<1>3. QED
  BY <1>1, <1>2 DEF Good, Kept, Step

\* PreventDuplicate never adds a second open discrepancy to one that has stood
\* since before its look-up.
THEOREM NoDuplicateAdded == Spec => NoSecondOpen
<1> DEFINE Adds == \A c \in Calls : \A t \in Txns :
          Kind[c] = "prevent" /\ disc[<<c, t>>] = NoRow /\ disc'[<<c, t>>] # NoRow
              => \A r \in untouched[c] : r[2] = t => disc[r].status # "open"
<1>1. DInv /\ [Next]_vars => Adds
  <2> SUFFICES ASSUME DInv, [Next]_vars, NEW c \in Calls, NEW t \in Txns, Kind[c] = "prevent",
                      disc[<<c, t>>] = NoRow, disc'[<<c, t>>] # NoRow,
                      NEW r \in untouched[c], r[2] = t
               PROVE  disc[r].status # "open"
    OBVIOUS
  <2>1. PICK d \in Calls : Body(d) /\ RowsStep(d)
    BY WhoWrites
  <2>2. <<c, t>> \in Rows /\ RowStep(d, <<c, t>>)
    BY <2>1 DEF Rows, RowsStep
  <2>3. d = c
    BY <2>2 DEF RowStep
  <2>4. LookUp(c) \/ InsertNew(c)
    BY <2>1, <2>3 DEF Body, CreateRun, InsertDiscrepancy, FailRun, CompleteRun, Patch, Resolve,
       Rejected, FindOpen, AutoResolve, ReadClock, Age, AgeEnds, ReportFails, SumRuns,
       ListDiscrepancies, At
  <2>5. InsertNew(c)
    BY <2>4 DEF LookUp, Nothing
  <2>6. t \in Concerns[c]
    <3>1. PICK u \in Concerns[c], s \in Given : Write(<<c, u>>, NewRow(s)) \/ Nothing
      BY <2>5 DEF InsertNew, WriteOrFail
    <3>2. <<c, u>> = <<c, t>>
      BY <3>1, <2>2 DEF Write, Nothing, DInv, Typed, TypeOK
    <3>3. QED
      BY <3>2
  <2>7. QED
    BY <2>5, <2>6 DEF DInv, CallInv, WereThere, InsertNew, At
<1>2. QED
  BY <1>1, Invariance, PTL DEF Spec, NoSecondOpen

\* AutoResolve overwrites no decision made before it began.
THEOREM DecisionsAreKept == Spec => DecisionsStand
<1> DEFINE Stands == \A c \in Calls : \A r \in untouched[c] :
          Kind[c] = "auto" /\ disc'[r].by = c /\ disc[r].by # c
              => disc[r].status = "open"
<1>1. DInv /\ [Next]_vars => Stands
  <2> SUFFICES ASSUME DInv, [Next]_vars, NEW c \in Calls, NEW r \in untouched[c],
                      Kind[c] = "auto", disc'[r].by = c, disc[r].by # c
               PROVE  disc[r].status = "open"
    OBVIOUS
  <2>1. PICK d \in Calls : Body(d) /\ RowsStep(d)
    BY WhoWrites
  <2>2. r \in Rows /\ RowStep(d, r)
    BY <2>1 DEF RowsStep, DInv, Typed, TypeOK
  <2>3. d = c
    BY <2>2 DEF RowStep
  <2>4. FindOpen(c) \/ AutoResolve(c)
    BY <2>1, <2>3 DEF Body, CreateRun, InsertDiscrepancy, FailRun, CompleteRun, LookUp,
       InsertNew, Patch, Resolve, Rejected, ReadClock, Age, AgeEnds, ReportFails, SumRuns,
       ListDiscrepancies, At
  <2>5. AutoResolve(c)
    BY <2>4 DEF FindOpen, Nothing
  <2>6. \E x \in list[c] : x[1] = r
    <3>1. PICK x \in list[c] :
               Write(x[1], [disc[x[1]] EXCEPT !.status = "resolved", !.by = c]) \/ Nothing
      BY <2>5 DEF AutoResolve, UpdateStatus, WriteOrFail, Nothing
    <3>2. QED
      BY <3>1, <2>2 DEF Write, Nothing, DInv, Typed, TypeOK
  <2>7. QED
    BY <2>6 DEF DInv, CallInv, WereThere
<1>2. QED
  BY <1>1, Invariance, PTL DEF Spec, DecisionsStand

\* Without two agings at once, no step lowers the severity of a discrepancy.
THEOREM SeverityRises == Spec => SeverityFallsOnOverlap
<1> DEFINE Falls == (\E r \in Table : disc'[r].severity < disc[r].severity)
          => \E c, d \in Calls : Kind[c] = "age" /\ Kind[d] = "age" /\ d \in overlap[c]
<1>1. DInv /\ [Next]_vars => Falls
  <2> SUFFICES ASSUME DInv, [Next]_vars, NEW r \in Table, NoAgeOverlap,
                      disc'[r].severity < disc[r].severity
               PROVE  FALSE
    BY DEF NoAgeOverlap
  <2>1. r \in Rows /\ disc[r] # NoRow /\ disc[r].severity \in 1 .. 4
    <3>1. r \in Rows /\ TypeOK
      BY DEF Table, DInv, Typed
    <3>2. QED
      BY <3>1, NoRowIsNone DEF RowType
  <2>2. PICK d \in Calls : RowsStep(d)
    BY <2>1, WhoWrites
  <2>3. disc[r].severity <= disc'[r].severity /\ disc'[r].severity \in 1 .. 4
    BY <2>1, <2>2 DEF RowsStep, RowStep, RowsTyped, RowType
  <2>4. QED
    BY <2>1, <2>3
<1>2. QED
  BY <1>1, Invariance, PTL DEF Spec, SeverityFallsOnOverlap

=============================================================================
