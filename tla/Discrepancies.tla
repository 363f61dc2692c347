---------------------------- MODULE Discrepancies ----------------------------
(***************************************************************************)
(* The life of discrepancies: the calls that write the table discrepancies *)
(* and those that read it.  They are the second half of Reconcile          *)
(* (internal/engine/reconciler.go), PreventDuplicate, Resolve, AutoResolve *)
(* and AgeOpenDiscrepancies (internal/engine/discrepancy_manager.go), the  *)
(* PATCH handler (internal/api/discrepancy_handler.go) and the settlement  *)
(* report (internal/report/settlement.go).                                 *)
(*                                                                         *)
(* One step is one call to the store, with the local computation up to the *)
(* next.  A row is named by the call that inserted it and its transaction. *)
(* Nothing deletes a row.                                                  *)
(***************************************************************************)
EXTENDS Integers, FiniteSets

CONSTANTS
    Calls, Kind,       \* [Calls -> KindsOfCall]
    Txns,
    Concerns,          \* [Calls -> the transactions a call is about]
    Amount,            \* [Txns -> cents]
    Given,             \* the severities that PreventDuplicate is called with
    high, critical,    \* the thresholds of severity
    HighAge, CriticalAge,   \* 7 and 30 days
    Stored,            \* the transactions that have an open discrepancy at first
    From, To,          \* the period of a report, in days
    NoCall,
    Scenarios,         \* bound: the sets of calls that may run together
    MaxDay, MaxFaults  \* bounds on the clock and on failed store calls

KindsOfCall == {"reconcile", "prevent", "patch", "resolve", "auto", "age", "report"}

ASSUME DiscrepancyAssumption ==
    /\ Kind \in [Calls -> KindsOfCall] /\ NoCall \notin Calls
    /\ Concerns \in [Calls -> SUBSET Txns] /\ Given \subseteq 1 .. 4
    /\ \A c \in Calls : Kind[c] = "prevent" => \E t \in Txns : Concerns[c] = {t}
    /\ IsFiniteSet(Txns) /\ IsFiniteSet(Calls)
    /\ Amount \in [Txns -> Int] /\ high \in Int /\ critical \in Int
    /\ HighAge \in Nat /\ CriticalAge \in Nat /\ HighAge <= CriticalAge
    /\ Stored \subseteq Txns /\ From \in Int /\ To \in Int
    /\ Scenarios \subseteq SUBSET Calls
    /\ MaxDay \in Nat /\ MaxFaults \in Nat

VARIABLES
    disc,          \* [Rows -> the row, or NoRow]
    runs,          \* [Calls -> the row of a reconciliation's run, or NoRun]
    today,
    scenario,
    pc,            \* "ended" with a result, "failed" with the store's error
    list,          \* [Calls -> rows a call has read and not yet dealt with]
    now,           \* [Calls -> what time.Now returned to a call that keeps it]
    report,        \* [Calls -> what a report has gathered]
    untouched,     \* history: rows nobody has decided on since the call began
    overlap,       \* history: calls that were under way with the call
    faults

vars == <<disc, runs, today, scenario, pc, list, now, report, untouched, overlap,
          faults>>
tables == <<disc, runs, untouched>>
locals == <<list, now, report>>

-----------------------------------------------------------------------------
Rows == (Calls \cup {NoCall}) \X Txns
Statuses == {"open", "investigating", "resolved", "ignored"}
Severities == <<"low", "medium", "high", "critical">>
NoRow == [status |-> "none", severity |-> 0, ageDays |-> 0, created |-> 0, by |-> NoCall]
NoRun == [status |-> "none", started |-> 0, ended |-> 0, count |-> 0]
NoReport == [total |-> 0, of |-> {}, listed |-> {}]

\* Severities are numbered in their order.
classifySeverity(amount) ==
    LET abs == IF amount < 0 THEN -amount ELSE amount
    IN IF abs >= critical THEN 4 ELSE IF abs >= high THEN 3 ELSE 2

\* A plausible slip: more than a week makes it high, whatever it was.
escalateSeverityFlat(current, ageDays) ==
    IF ageDays > CriticalAge THEN 4 ELSE IF ageDays > HighAge THEN 3 ELSE current

\* A plausible slip: one step up whenever the week is over.
escalateSeverityStep(current, ageDays) ==
    IF ageDays > HighAge THEN current + 1 ELSE current

escalateSeverity(current, ageDays) ==
    IF ageDays > CriticalAge THEN 4
    ELSE IF ageDays > HighAge /\ current \in {1, 2} THEN 3
    ELSE current

NewRow(severity) == [status |-> "open", severity |-> severity, ageDays |-> 0,
                     created |-> today, by |-> NoCall]
Table == {r \in Rows : disc[r].status # "none"}
Open == {r \in Rows : disc[r].status = "open"}

-----------------------------------------------------------------------------
Goto(c, l) == pc' = [pc EXCEPT ![c] = l]
At(c, k, l) == c \in scenario /\ Kind[c] = k /\ pc[c] = l
Active == {c \in Calls : pc[c] \notin {"idle", "ended", "failed"}}

\* The store writes one row.  A row is touched when its status is written.
Write(r, row) ==
    /\ disc' = [disc EXCEPT ![r] = row]
    /\ untouched' = [d \in Calls |->
          IF row.by # disc[r].by THEN untouched[d] \ {r} ELSE untouched[d]]
Nothing == UNCHANGED <<disc, untouched>>

\* A call of the store fails; what it was to write may have been written.
Fault == faults < MaxFaults /\ faults' = faults + 1
Works == UNCHANGED faults
WriteOrFail(c, r, row, next) ==
    \/ Works /\ Write(r, row) /\ Goto(c, next)
    \/ Fault /\ (Write(r, row) \/ Nothing) /\ Goto(c, "failed")

Take(c, r) == list' = [list EXCEPT ![c] = @ \ {r}]

Begin(c) ==
    /\ c \in scenario /\ pc[c] = "idle" /\ Goto(c, "begun")
    /\ untouched' = [untouched EXCEPT ![c] = Table]
    /\ overlap' = [d \in Calls |->
          IF d = c THEN Active
          ELSE IF d \in Active THEN overlap[d] \cup {c} ELSE overlap[d]]
    \* Reconcile's first statement reads the clock.
    /\ now' = IF Kind[c] = "reconcile" THEN [now EXCEPT ![c] = today] ELSE now
    /\ UNCHANGED <<disc, runs, today, scenario, list, report, faults>>

-----------------------------------------------------------------------------
(* Reconcile: its run, a discrepancy for each transaction left, its counts.  *)
(* Which it is told nothing of: whether there is an open one already.        *)

SetRun(c, run, next) ==
    \/ Works /\ runs' = [runs EXCEPT ![c] = run] /\ Goto(c, next)
    \/ Fault /\ (runs' = [runs EXCEPT ![c] = run] \/ UNCHANGED runs) /\ Goto(c, "failed")

CreateRun(c) ==
    /\ At(c, "reconcile", "begun")
    /\ SetRun(c, [NoRun EXCEPT !.status = "running", !.started = now[c]], "reports")
    /\ list' = [list EXCEPT ![c] = {<<c, t>> : t \in Concerns[c]}]
    /\ Nothing /\ UNCHANGED <<now, report>>

InsertDiscrepancy(c) ==
    /\ At(c, "reconcile", "reports")
    /\ \E r \in list[c] :
          /\ Take(c, r)
          /\ LET row == NewRow(classifySeverity(Amount[r[2]])) IN
                \/ Works /\ Write(r, row) /\ UNCHANGED pc
                \/ Fault /\ (Write(r, row) \/ Nothing) /\ Goto(c, "fails")
    /\ UNCHANGED <<runs, now, report>>

\* A plausible slip: a run that fails reports how far it got.
FailRunCounted(c) ==
    /\ At(c, "reconcile", "fails")
    /\ SetRun(c, [runs[c] EXCEPT !.status = "failed", !.ended = today,
                    !.count = Cardinality(Concerns[c]) - Cardinality(list[c])], "ended")
    /\ Nothing /\ UNCHANGED locals

FailRun(c) ==
    /\ At(c, "reconcile", "fails")
    /\ SetRun(c, [runs[c] EXCEPT !.status = "failed", !.ended = today], "ended")
    /\ Nothing /\ UNCHANGED locals

CompleteRun(c) ==
    /\ At(c, "reconcile", "reports") /\ list[c] = {}
    /\ SetRun(c, [runs[c] EXCEPT !.status = "completed", !.ended = today,
                                 !.count = Cardinality(Concerns[c])], "ended")
    /\ Nothing /\ UNCHANGED locals

(* PreventDuplicate.  The new row carries the severity it was given. *)

\* A plausible slip: any error of the look-up is taken for "none".
LookUpAnyError(c) ==
    /\ At(c, "prevent", "begun")
    /\ \/ /\ Works
          /\ Goto(c, IF \E r \in Open : r[2] \in Concerns[c] THEN "ended" ELSE "inserts")
       \/ Fault /\ Goto(c, "inserts")
    /\ Nothing /\ UNCHANGED <<runs, locals>>

LookUp(c) ==
    /\ At(c, "prevent", "begun")
    /\ \/ /\ Works
          /\ Goto(c, IF \E r \in Open : r[2] \in Concerns[c] THEN "ended" ELSE "inserts")
       \/ Fault /\ Goto(c, "failed")
    /\ Nothing /\ UNCHANGED <<runs, locals>>

InsertNew(c) ==
    /\ At(c, "prevent", "inserts")
    /\ \E t \in Concerns[c], s \in Given :
          WriteOrFail(c, <<c, t>>, NewRow(s), "ended")
    /\ UNCHANGED <<runs, locals>>

(* The PATCH handler and Resolve: one unconditional update. *)

UpdateStatus(c, r, status, next) ==
    WriteOrFail(c, r, [disc[r] EXCEPT !.status = status, !.by = c], next)

Patch(c) ==
    /\ At(c, "patch", "begun")
    /\ \E r \in Table, status \in Statuses :
          r[2] \in Concerns[c] /\ UpdateStatus(c, r, status, "ended")
    /\ UNCHANGED <<runs, locals>>

Resolve(c) ==
    /\ At(c, "resolve", "begun")
    /\ \E r \in Table : r[2] \in Concerns[c] /\ UpdateStatus(c, r, "resolved", "ended")
    /\ UNCHANGED <<runs, locals>>

\* The row is not there, or a resolution comes without its note.
Rejected(c) ==
    /\ At(c, "patch", "begun") \/ At(c, "resolve", "begun")
    /\ Goto(c, "ended") /\ Nothing /\ Works /\ UNCHANGED <<runs, locals>>

(* FindOpen of AutoResolve and of AgeOpenDiscrepancies: ids and what was read. *)

FindOpenAll(c) ==
    /\ At(c, "auto", "begun") \/ At(c, "age", "begun")
    /\ \/ Works /\ Goto(c, "found") /\ list' = [list EXCEPT ![c] =
                {<<r, disc[r]>> : r \in Table}]
       \/ Fault /\ Goto(c, "failed") /\ UNCHANGED list
    /\ Nothing /\ UNCHANGED <<runs, now, report>>

FindOpen(c) ==
    /\ At(c, "auto", "begun") \/ At(c, "age", "begun")
    /\ \/ Works /\ Goto(c, "found") /\ list' = [list EXCEPT ![c] =
                {<<r, disc[r]>> : r \in Open}]
       \/ Fault /\ Goto(c, "failed") /\ UNCHANGED list
    /\ Nothing /\ UNCHANGED <<runs, now, report>>

AutoResolve(c) ==
    /\ At(c, "auto", "found")
    /\ LET matched == {x \in list[c] : x[1][2] \in Concerns[c]} IN
          IF matched = {}
          THEN Goto(c, "ended") /\ Nothing /\ Works /\ UNCHANGED list
          ELSE \E x \in matched : Take(c, x) /\ UpdateStatus(c, x[1], "resolved", "found")
    /\ UNCHANGED <<runs, now, report>>

ReadClock(c) ==
    /\ At(c, "age", "found") /\ Goto(c, "ages")
    /\ now' = [now EXCEPT ![c] = today]
    /\ Nothing /\ Works /\ UNCHANGED <<runs, list, report>>

Aged(c, x) ==
    LET ageDays == now[c] - x[2].created
    IN [ageDays |-> ageDays, severity |-> escalateSeverity(x[2].severity, ageDays)]

\* A plausible slip: a row one day behind is passed over.
StaleByAge(c) == {x \in list[c] : Aged(c, x).ageDays > x[2].ageDays + 1}

Stale(c) == {x \in list[c] : \/ Aged(c, x).ageDays # x[2].ageDays
                             \/ Aged(c, x).severity # x[2].severity}

\* UpdateAgeAndSeverity writes two columns of the row as it now is.
Age(c) ==
    /\ At(c, "age", "ages") /\ Stale(c) # {}
    /\ \E x \in Stale(c) :
          /\ Take(c, x)
          /\ WriteOrFail(c, x[1], [disc[x[1]] EXCEPT !.ageDays = Aged(c, x).ageDays,
                                                     !.severity = Aged(c, x).severity],
                         "ages")
    /\ UNCHANGED <<runs, now, report>>

AgeEnds(c) ==
    /\ At(c, "age", "ages") /\ Stale(c) = {} /\ Goto(c, "ended")
    /\ Nothing /\ Works /\ UNCHANGED <<runs, locals>>

(* GenerateSettlement: first the runs, then the discrepancies.  The sum of the *)
(* runs' counts is the size of what they count.                              *)

\* A query of a report fails, and with it the report.
ReportFails(c) ==
    /\ At(c, "report", "begun") \/ At(c, "report", "lists")
    /\ Fault /\ Goto(c, "failed") /\ report' = [report EXCEPT ![c] = NoReport]
    /\ Nothing /\ UNCHANGED <<runs, list, now>>

SumRuns(c) ==
    /\ At(c, "report", "begun") /\ Goto(c, "lists")
    /\ LET of == {d \in Calls : runs[d].status # "none" /\ runs[d].started \in From .. To}
           counted == UNION {{d} \X (1 .. runs[d].count) : d \in of}
       IN report' = [report EXCEPT ![c] =
                        [@ EXCEPT !.of = of, !.total = Cardinality(counted)]]
    /\ Nothing /\ Works /\ UNCHANGED <<runs, list, now>>

ListDiscrepancies(c) ==
    /\ At(c, "report", "lists") /\ Goto(c, "ended")
    /\ report' = [report EXCEPT ![c] =
          [@ EXCEPT !.listed = {r \in Table : disc[r].created \in From .. To}]]
    /\ Nothing /\ Works /\ UNCHANGED <<runs, list, now>>

NextDay ==
    /\ today < MaxDay /\ today' = today + 1
    /\ UNCHANGED <<tables, scenario, pc, locals, overlap, faults>>

-----------------------------------------------------------------------------
Init ==
    /\ today = 0 /\ faults = 0
    /\ disc = [r \in Rows |-> IF r[1] = NoCall /\ r[2] \in Stored
                              THEN NewRow(classifySeverity(Amount[r[2]])) ELSE NoRow]
    /\ runs = [c \in Calls |-> NoRun]
    /\ scenario \in Scenarios /\ pc = [c \in Calls |-> "idle"]
    /\ list = [c \in Calls |-> {}] /\ now = [c \in Calls |-> 0]
    /\ report = [c \in Calls |-> NoReport]
    /\ untouched = [c \in Calls |-> {}] /\ overlap = [c \in Calls |-> {}]

Body(c) ==
    \/ CreateRun(c) \/ InsertDiscrepancy(c) \/ FailRun(c) \/ CompleteRun(c)
    \/ LookUp(c) \/ InsertNew(c)
    \/ Patch(c) \/ Resolve(c) \/ Rejected(c)
    \/ FindOpen(c) \/ AutoResolve(c) \/ ReadClock(c) \/ Age(c) \/ AgeEnds(c)
    \/ ReportFails(c) \/ SumRuns(c) \/ ListDiscrepancies(c)

Step(c) == Body(c) /\ UNCHANGED <<today, scenario, overlap>>

Next == NextDay \/ \E c \in Calls : Begin(c) \/ Step(c)

Spec == Init /\ [][Next]_vars

-----------------------------------------------------------------------------
\* Every variable keeps its type.
TypeOK ==
    /\ disc \in [Rows -> {NoRow} \cup
          [status : Statuses, severity : 1 .. 4, ageDays : 0 .. MaxDay,
           created : 0 .. MaxDay, by : Calls \cup {NoCall}]]
    /\ runs \in [Calls -> [status : {"none", "running", "completed", "failed"},
                           started : 0 .. MaxDay, ended : 0 .. MaxDay, count : Nat]]
    /\ pc \in [Calls -> {"idle", "begun", "reports", "fails", "inserts", "found",
                         "ages", "lists", "ended", "failed"}]
    /\ untouched \in [Calls -> SUBSET Rows] /\ overlap \in [Calls -> SUBSET Calls]
    /\ faults \in 0 .. MaxFaults

\* PreventDuplicate adds no discrepancy of a transaction that has had an open
\* one ever since the call began, whatever its look-up meets.
NoSecondOpen ==
    [][\A c \in Calls : \A t \in Txns :
          Kind[c] = "prevent" /\ disc[<<c, t>>] = NoRow /\ disc'[<<c, t>>] # NoRow
              => \A r \in untouched[c] : r[2] = t => disc[r].status # "open"]_vars

\* AutoResolve leaves alone what was decided before it began and not since.
\* (What a person decides between its list and its updates it overwrites.)
DecisionsStand ==
    [][\A c \in Calls : \A r \in untouched[c] :
          Kind[c] = "auto" /\ disc'[r].by = c /\ disc[r].by # c
              => disc[r].status = "open"]_vars

\* The severity of a discrepancy falls only when two calls of
\* AgeOpenDiscrepancies overlap and one writes what it computed earlier.
SeverityFallsOnOverlap ==
    [][(\E r \in Table : disc'[r].severity < disc[r].severity)
          => \E c, d \in Calls : Kind[c] = "age" /\ Kind[d] = "age" /\ d \in overlap[c]]_vars

\* Once a call of AgeOpenDiscrepancies has returned without an error, and no
\* two of them overlapped, every row that was open when it began and nobody
\* decided on is as severe as its age at that call asks: rows that an earlier
\* call left behind at an update that failed, or wrote although it was told it
\* had failed, are caught up with.
AgedEnough ==
    \A c \in Calls :
        /\ Kind[c] = "age" /\ pc[c] = "ended"
        /\ \A a, b \in Calls : Kind[a] = "age" /\ Kind[b] = "age" => b \notin overlap[a]
        => \A r \in untouched[c] : disc[r].status = "open" =>
              /\ now[c] - disc[r].created > HighAge => disc[r].severity >= 3
              /\ now[c] - disc[r].created > CriticalAge => disc[r].severity = 4

\* The unmatched transactions that a settlement report counts are among the
\* discrepancies it then goes through, as far as the runs it counts had ended
\* within the period: runs write their counts last and the report reads them
\* first.
TotalsAreListed ==
    \A c \in Calls :
        /\ Kind[c] = "report" /\ pc[c] = "ended"
        /\ \A d \in report[c].of : runs[d].ended <= To
        => report[c].total <= Cardinality({r \in report[c].listed : r[1] \in report[c].of})
=============================================================================
