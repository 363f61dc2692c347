----------------------------- MODULE Reconciler -----------------------------
(***************************************************************************)
(* Reconciliation runs: any number of calls of Reconcile                   *)
(* (internal/engine/reconciler.go) in any number of processes, over one    *)
(* PostgreSQL database (internal/repository) and one Redis lock            *)
(* (internal/lock/redis_lock.go).                                          *)
(*                                                                         *)
(* One step is one call to a store, with the local computation up to the   *)
(* next one.  Every call carries the context of its request: once that is  *)
(* cancelled, no later call reaches a store, not even the best-effort      *)
(* failRun and the deferred Unlock.  A store call may also fail of itself, *)
(* and then what it wrote may have been committed all the same.            *)
(*                                                                         *)
(* A call makes at most one run, so the run is named by its call.          *)
(***************************************************************************)
EXTENDS Matching

CONSTANTS
    Calls,         \* the calls of Reconcile, of every process
    Processes,     \* a restarted server is another process
    Process,       \* [Calls -> Processes]
    Origin,        \* [Calls -> {"http", "scheduled", "cli"}]
    Request,       \* [Calls -> requests]; the source "" stands for every source
    NoRedis,       \* the processes that run without Redis: the locker is nil
    Stored,        \* the transactions stored at the start
    NoOwner,       \* the value of a lock key that is not set
    MaxFaults      \* bound on failures, cancellations and crashes

Requests == [gw : {Txn[t].source : t \in Txns} \cup {""},
             lg : {Txn[t].source : t \in Txns} \cup {""},
             from : Int, to : Int]

ASSUME CallAssumption ==
    /\ IsFiniteSet(Calls)
    /\ Process \in [Calls -> Processes]
    /\ Origin \in [Calls -> {"http", "scheduled", "cli"}]
    /\ Request \in [Calls -> Requests]
    /\ NoRedis \subseteq Processes
    /\ Stored \subseteq Txns
    /\ NoOwner \notin Processes
    /\ MaxFaults \in Nat

VARIABLES
    (* PostgreSQL and Redis *)
    stored,        \* the rows of transactions
    matches,       \* the rows of matches: [gw, lg, run]
    discs,         \* the rows of discrepancies: [tx, type, run]
    runs,          \* the row of reconciliation_runs of each call
    lock,          \* the owner in the key reconcile:lock
    (* the local variables of each call *)
    pc,
    gwTxns, lgTxns,
    matchedGW, matchedLG,
    todo,          \* what the loop under way still has to visit
    matchedCount, unmatchedGW, unmatchedLG,
    totals,        \* run.TotalGateway and run.TotalLedger
    (* the environment *)
    up,            \* the processes that run
    ctxDone,       \* the calls whose context is cancelled
    faults,
    (* history *)
    endedBefore    \* [Calls -> the calls that had ended when it began]

tables == <<stored, matches, discs, runs>>
lists == <<gwTxns, lgTxns, totals>>
marks == <<matchedGW, matchedLG, matchedCount>>
counts == <<unmatchedGW, unmatchedLG>>
world == <<up, ctxDone>>
vars == <<tables, lock, pc, lists, marks, counts, todo, world, faults, endedBefore>>

-----------------------------------------------------------------------------
Loops == {"match", "discGW", "discLG"}
Active == {"create", "fetchGW", "fetchLG"} \cup Loops \cup {"fail", "unlock"}
Ended == {"done", "killed", "panicked"}

RunRows == [status : {"none", "running", "completed", "failed"},
            totalGW : Nat, totalLG : Nat, matched : Nat, discs : Nat]

\* No row yet.
NoRun == [status |-> "none", totalGW |-> 0, totalLG |-> 0,
          matched |-> 0, discs |-> 0]

Goto(c, l) == pc' = [pc EXCEPT ![c] = l]

\* A call to a store is answered while the context lives.
Answers(c) == c \notin ctxDone /\ UNCHANGED faults

\* A call fails because the context is cancelled, or of itself.
CallFails(c) ==
    \/ c \in ctxDone /\ UNCHANGED faults
    \/ c \notin ctxDone /\ faults < MaxFaults /\ faults' = faults + 1

\* What a failed call may leave: nothing, or all it wrote if it was sent.
Leaves(c, before, after) == {before} \cup (IF c \in ctxDone THEN {} ELSE {after})

-----------------------------------------------------------------------------
(* Reading and writing the tables.                                         *)

MatchedIDs == {m.gw : m \in matches} \cup {m.lg : m \in matches}

InSource(t, source) == source = "" \/ Txn[t].source = source

\* A plausible slip: matched transactions are not filtered out.
FindUnmatchedOrNot(c, source) ==
    {t \in stored : /\ InSource(t, source)
                    /\ Txn[t].occurredAt >= Request[c].from
                    /\ Txn[t].occurredAt <= Request[c].to}

\* The rows of FindUnmatched.  They come sorted by occurred_at; Earliest
\* visits them in that order.
FindUnmatched(c, source) ==
    {t \in stored \ MatchedIDs :
        /\ InSource(t, source)
        /\ Txn[t].occurredAt >= Request[c].from
        /\ Txn[t].occurredAt <= Request[c].to}

\* A plausible slip: the query loses its ORDER BY.
AnyOf(S) == S

\* What a loop may visit next; the order of equal times is the database's.
Earliest(S) == {t \in S : \A u \in S : Txn[t].occurredAt <= Txn[u].occurredAt}

\* The constraint uq_matches_pair, the only one between two matches.
PairTaken(g, l) == \E m \in matches : m.gw = g /\ m.lg = l

SetStatus(c, status, matched, n) ==
    [status |-> status, totalGW |-> totals[c].gw, totalLG |-> totals[c].lg,
     matched |-> matched, discs |-> n]

-----------------------------------------------------------------------------
(* The lock.                                                               *)

\* A plausible slip: the key holds the call instead of the process.
SetNXByCall(c) == IF lock = NoOwner THEN c ELSE lock

\* SET NX with the owner of the process.
SetNX(c) == IF lock = NoOwner THEN Process[c] ELSE lock

\* A plausible slip: the comparison of the script is inverted.
CompareAndDeleteInverted(c) == IF lock = Process[c] THEN lock ELSE NoOwner

\* The script deletes the key if it holds the owner of the process.
CompareAndDelete(c) == IF lock = Process[c] THEN NoOwner ELSE lock

\* A scheduler runs its job in the loop that waits for the next tick.
SchedulerFree(c) ==
    Origin[c] = "scheduled" =>
        \A d \in Calls \ {c} :
            Origin[d] = "scheduled" /\ Process[d] = Process[c] => pc[d] \notin Active

\* Whether the key was set is dropped: only an error stops the call, and it
\* does so before the Unlock is deferred.
Lock(c) ==
    /\ pc[c] = "idle"
    /\ Process[c] \in up \ NoRedis
    /\ SchedulerFree(c)
    /\ endedBefore' = [endedBefore EXCEPT ![c] = {d \in Calls : pc[d] \in Ended}]
    /\ \/ /\ Answers(c)
          /\ lock' = SetNX(c)
          /\ Goto(c, "create")
       \/ /\ CallFails(c)
          /\ lock' \in Leaves(c, lock, SetNX(c))
          /\ Goto(c, "done")
    /\ UNCHANGED <<tables, lists, marks, counts, todo, world>>

\* The nil locker panics.  The router recovers an HTTP request; a scheduled
\* job or a command takes its process with it.
LockPanics(c) ==
    /\ pc[c] = "idle"
    /\ Process[c] \in up \cap NoRedis
    /\ Goto(c, "panicked")
    /\ up' = IF Origin[c] = "http" THEN up ELSE up \ {Process[c]}
    /\ UNCHANGED <<tables, lock, lists, marks, counts, todo, ctxDone, faults, endedBefore>>

Unlock(c) ==
    /\ pc[c] = "unlock"
    /\ \/ Answers(c) /\ lock' = CompareAndDelete(c)
       \/ CallFails(c) /\ lock' \in Leaves(c, lock, CompareAndDelete(c))
    /\ Goto(c, "done")
    /\ UNCHANGED <<tables, lists, marks, counts, todo, world, endedBefore>>

-----------------------------------------------------------------------------
(* The body of Reconcile.                                                  *)

CreateRun(c) ==
    LET created == [runs EXCEPT ![c] = [NoRun EXCEPT !.status = "running"]]
    IN  /\ pc[c] = "create"
        /\ \/ /\ Answers(c)
              /\ runs' = created
              /\ Goto(c, "fetchGW")
           \/ /\ CallFails(c)
              /\ runs' \in Leaves(c, runs, created)
              /\ Goto(c, "unlock")
        /\ UNCHANGED <<stored, matches, discs, lock, lists, marks, counts, todo,
                       world, endedBefore>>

FetchGateway(c) ==
    /\ pc[c] = "fetchGW"
    /\ \/ /\ Answers(c)
          /\ gwTxns' = [gwTxns EXCEPT ![c] = FindUnmatched(c, Request[c].gw)]
          /\ Goto(c, "fetchLG")
       \/ /\ CallFails(c)
          /\ Goto(c, "fail")
          /\ UNCHANGED gwTxns
    /\ UNCHANGED <<tables, lock, lgTxns, totals, marks, counts, todo, world, endedBefore>>

FetchLedger(c) ==
    /\ pc[c] = "fetchLG"
    /\ \/ LET found == FindUnmatched(c, Request[c].lg)
          IN  /\ Answers(c)
              /\ lgTxns' = [lgTxns EXCEPT ![c] = found]
              /\ totals' = [totals EXCEPT ![c] = [gw |-> Cardinality(gwTxns[c]),
                                                  lg |-> Cardinality(found)]]
              /\ todo' = [todo EXCEPT ![c] = gwTxns[c]]
              /\ Goto(c, "match")
       \/ /\ CallFails(c)
          /\ Goto(c, "fail")
          /\ UNCHANGED <<lgTxns, totals, todo>>
    /\ UNCHANGED <<tables, lock, gwTxns, marks, counts, world, endedBefore>>

\* A plausible slip: a ledger transaction stays a candidate once matched.
CandidatesWithMatched(c) == lgTxns[c]
Candidates(c) == lgTxns[c] \ matchedLG[c]

\* A plausible slip: a duplicate pair is skipped, as ON CONFLICT DO NOTHING.
InsertMatchOrSkip(c, g, l) ==
    LET m == [gw |-> g, lg |-> l, run |-> c]
    IN  \/ /\ Answers(c)
           /\ ~PairTaken(g, l)
           /\ matches' = matches \cup {m}
           /\ matchedGW' = [matchedGW EXCEPT ![c] = @ \cup {g}]
           /\ matchedLG' = [matchedLG EXCEPT ![c] = @ \cup {l}]
           /\ matchedCount' = [matchedCount EXCEPT ![c] = @ + 1]
           /\ todo' = [todo EXCEPT ![c] = @ \ {g}]
           /\ UNCHANGED pc
        \/ /\ Answers(c)
           /\ PairTaken(g, l)
           /\ todo' = [todo EXCEPT ![c] = @ \ {g}]
           /\ UNCHANGED <<matches, marks, pc>>
        \/ /\ CallFails(c)
           /\ Goto(c, "fail")
           /\ UNCHANGED <<matches, marks, todo>>

\* A plausible slip: the error of the insert is returned without failRun.
InsertMatchOrReturn(c, g, l) ==
    LET m == [gw |-> g, lg |-> l, run |-> c]
    IN  \/ /\ Answers(c)
           /\ ~PairTaken(g, l)
           /\ matches' = matches \cup {m}
           /\ matchedGW' = [matchedGW EXCEPT ![c] = @ \cup {g}]
           /\ matchedLG' = [matchedLG EXCEPT ![c] = @ \cup {l}]
           /\ matchedCount' = [matchedCount EXCEPT ![c] = @ + 1]
           /\ todo' = [todo EXCEPT ![c] = @ \ {g}]
           /\ UNCHANGED pc
        \/ /\ (Answers(c) /\ PairTaken(g, l)) \/ CallFails(c)
           /\ Goto(c, "unlock")
           /\ UNCHANGED <<matches, marks, todo>>

\* matchStore.Insert and the marks after it.  A pair that another run has
\* inserted meanwhile violates the constraint.
InsertMatch(c, g, l) ==
    LET m == [gw |-> g, lg |-> l, run |-> c]
    IN  \/ /\ Answers(c)
           /\ ~PairTaken(g, l)
           /\ matches' = matches \cup {m}
           /\ matchedGW' = [matchedGW EXCEPT ![c] = @ \cup {g}]
           /\ matchedLG' = [matchedLG EXCEPT ![c] = @ \cup {l}]
           /\ matchedCount' = [matchedCount EXCEPT ![c] = @ + 1]
           /\ todo' = [todo EXCEPT ![c] = @ \ {g}]
           /\ UNCHANGED pc
        \/ /\ Answers(c)
           /\ PairTaken(g, l)
           /\ Goto(c, "fail")
           /\ UNCHANGED <<matches, marks, todo>>
        \/ /\ CallFails(c)
           /\ matches' \in IF PairTaken(g, l) THEN {matches}
                           ELSE Leaves(c, matches, matches \cup {m})
           /\ Goto(c, "fail")
           /\ UNCHANGED <<marks, todo>>

\* A gateway transaction with no acceptable candidate is passed over.
Skip(c, g) ==
    /\ todo' = [todo EXCEPT ![c] = @ \ {g}]
    /\ UNCHANGED <<matches, marks, pc, faults>>

MatchNext(c) ==
    /\ pc[c] = "match"
    /\ \E g \in Earliest(todo[c]) :
          LET best == BestOfAll(g, Candidates(c))
          IN  \/ best = {} /\ Skip(c, g)
              \/ \E l \in best : InsertMatch(c, g, l)
    /\ UNCHANGED <<stored, discs, runs, lock, lists, counts, world, endedBefore>>

\* A plausible slip: every ledger transaction is visited, matched or not.
NextLoopAllLedger(c) ==
    /\ todo[c] = {}
    /\ \/ /\ pc[c] = "match"
          /\ todo' = [todo EXCEPT ![c] = gwTxns[c] \ matchedGW[c]]
          /\ Goto(c, "discGW")
       \/ /\ pc[c] = "discGW"
          /\ todo' = [todo EXCEPT ![c] = lgTxns[c]]
          /\ Goto(c, "discLG")
    /\ UNCHANGED <<tables, lock, lists, marks, counts, world, faults, endedBefore>>

\* One loop ends and the next begins, on what the matching left over.
NextLoop(c) ==
    /\ todo[c] = {}
    /\ \/ /\ pc[c] = "match"
          /\ todo' = [todo EXCEPT ![c] = gwTxns[c] \ matchedGW[c]]
          /\ Goto(c, "discGW")
       \/ /\ pc[c] = "discGW"
          /\ todo' = [todo EXCEPT ![c] = lgTxns[c] \ matchedLG[c]]
          /\ Goto(c, "discLG")
    /\ UNCHANGED <<tables, lock, lists, marks, counts, world, faults, endedBefore>>

\* discStore.Insert for the next transaction t of a discrepancy loop.
InsertDiscrepancy(c, t, type) ==
    LET inserted == discs \cup {[tx |-> t, type |-> type, run |-> c]}
    IN  \/ /\ Answers(c)
           /\ discs' = inserted
           /\ todo' = [todo EXCEPT ![c] = @ \ {t}]
           /\ UNCHANGED pc
        \/ /\ CallFails(c)
           /\ discs' \in Leaves(c, discs, inserted)
           /\ Goto(c, "fail")
           /\ UNCHANGED todo

ReportGateway(c) ==
    /\ pc[c] = "discGW"
    /\ \E t \in Earliest(todo[c]) : InsertDiscrepancy(c, t, "unmatched_gateway")
    /\ unmatchedGW' = [unmatchedGW EXCEPT ![c] = @ + 1]
    /\ UNCHANGED <<stored, matches, runs, lock, lists, marks, unmatchedLG, world,
                   endedBefore>>

ReportLedger(c) ==
    /\ pc[c] = "discLG"
    /\ \E t \in Earliest(todo[c]) : InsertDiscrepancy(c, t, "unmatched_ledger")
    /\ unmatchedLG' = [unmatchedLG EXCEPT ![c] = @ + 1]
    /\ UNCHANGED <<stored, matches, runs, lock, lists, marks, unmatchedGW, world,
                   endedBefore>>

CompletedRow(c) ==
    SetStatus(c, "completed", matchedCount[c], unmatchedGW[c] + unmatchedLG[c])

\* A plausible slip: an error of the last update is handled as all the others.
CompleteRunOrFail(c) ==
    LET completed == [runs EXCEPT ![c] = CompletedRow(c)]
    IN  /\ pc[c] = "discLG" /\ todo[c] = {}
        /\ \/ /\ Answers(c)
              /\ runs' = completed
              /\ Goto(c, "unlock")
           \/ /\ CallFails(c)
              /\ runs' \in Leaves(c, runs, completed)
              /\ Goto(c, "fail")
        /\ UNCHANGED <<stored, matches, discs, lock, lists, marks, counts, todo,
                       world, endedBefore>>

\* The last update.  Its error is returned without failRun.
CompleteRun(c) ==
    LET completed == [runs EXCEPT ![c] = CompletedRow(c)]
    IN  /\ pc[c] = "discLG" /\ todo[c] = {}
        /\ \/ Answers(c) /\ runs' = completed
           \/ CallFails(c) /\ runs' \in Leaves(c, runs, completed)
        /\ Goto(c, "unlock")
        /\ UNCHANGED <<stored, matches, discs, lock, lists, marks, counts, todo,
                       world, endedBefore>>

\* A plausible slip: the update is tried until it succeeds.
FailRunRetried(c) ==
    LET failed == [runs EXCEPT ![c] = SetStatus(c, "failed", 0, 0)]
    IN  /\ pc[c] = "fail"
        /\ \/ Answers(c) /\ runs' = failed /\ Goto(c, "unlock")
           \/ CallFails(c) /\ runs' = runs /\ UNCHANGED pc
        /\ UNCHANGED <<stored, matches, discs, lock, lists, marks, counts, todo,
                       world, endedBefore>>

\* Best effort, on the same context.  The counts of the run are not set yet.
FailRun(c) ==
    LET failed == [runs EXCEPT ![c] = SetStatus(c, "failed", 0, 0)]
    IN  /\ pc[c] = "fail"
        /\ \/ Answers(c) /\ runs' = failed
           \/ CallFails(c) /\ runs' \in Leaves(c, runs, failed)
        /\ Goto(c, "unlock")
        /\ UNCHANGED <<stored, matches, discs, lock, lists, marks, counts, todo,
                       world, endedBefore>>

-----------------------------------------------------------------------------
(* The environment.                                                        *)

\* The ingester stores one more transaction.
Ingest(t) ==
    /\ t \notin stored
    /\ stored' = stored \cup {t}
    /\ UNCHANGED <<matches, discs, runs, lock, pc, lists, marks, counts, todo,
                   world, faults, endedBefore>>

\* The five minutes of the key are over; nothing renews it.
LockExpires ==
    /\ lock # NoOwner
    /\ lock' = NoOwner
    /\ UNCHANGED <<tables, pc, lists, marks, counts, todo, world, faults, endedBefore>>

\* The client hangs up, or the server is told to stop.  A command's context
\* is never cancelled.
Cancel(c) ==
    /\ pc[c] \in Active
    /\ Origin[c] # "cli"
    /\ c \notin ctxDone
    /\ faults < MaxFaults
    /\ faults' = faults + 1
    /\ ctxDone' = ctxDone \cup {c}
    /\ UNCHANGED <<tables, lock, pc, lists, marks, counts, todo, up, endedBefore>>

\* The process dies with all its calls.
Crash(p) ==
    /\ p \in up
    /\ faults < MaxFaults
    /\ faults' = faults + 1
    /\ up' = up \ {p}
    /\ pc' = [c \in Calls |-> IF Process[c] = p /\ pc[c] \in Active
                              THEN "killed" ELSE pc[c]]
    /\ UNCHANGED <<tables, lock, lists, marks, counts, todo, ctxDone, endedBefore>>

-----------------------------------------------------------------------------
Init ==
    /\ stored = Stored
    /\ matches = {}
    /\ discs = {}
    /\ runs = [c \in Calls |-> NoRun]
    /\ lock = NoOwner
    /\ pc = [c \in Calls |-> "idle"]
    /\ gwTxns = [c \in Calls |-> {}]
    /\ lgTxns = [c \in Calls |-> {}]
    /\ totals = [c \in Calls |-> [gw |-> 0, lg |-> 0]]
    /\ matchedGW = [c \in Calls |-> {}]
    /\ matchedLG = [c \in Calls |-> {}]
    /\ matchedCount = [c \in Calls |-> 0]
    /\ unmatchedGW = [c \in Calls |-> 0]
    /\ unmatchedLG = [c \in Calls |-> 0]
    /\ todo = [c \in Calls |-> {}]
    /\ up = Processes
    /\ ctxDone = {}
    /\ faults = 0
    /\ endedBefore = [c \in Calls |-> {}]

\* What the code of a call does, once it has begun.
Body(c) ==
    \/ CreateRun(c)
    \/ FetchGateway(c)
    \/ FetchLedger(c)
    \/ MatchNext(c)
    \/ NextLoop(c)
    \/ ReportGateway(c)
    \/ ReportLedger(c)
    \/ CompleteRun(c)
    \/ FailRun(c)
    \/ Unlock(c)

Next ==
    \/ \E c \in Calls : Lock(c) \/ LockPanics(c) \/ Body(c) \/ Cancel(c)
    \/ \E p \in Processes : Crash(p)
    \/ \E t \in Txns : Ingest(t)
    \/ LockExpires

Spec == Init /\ [][Next]_vars

\* Every store call returns, with an answer or an error, and a goroutine that
\* is not blocked runs.
FairSpec == Spec /\ \A c \in Calls : WF_vars(Body(c))

-----------------------------------------------------------------------------
(* Properties.                                                             *)

TypeOK ==
    /\ stored \subseteq Txns
    /\ matches \subseteq [gw : Txns, lg : Txns, run : Calls]
    /\ discs \subseteq [tx : Txns, run : Calls,
                        type : {"unmatched_gateway", "unmatched_ledger"}]
    /\ runs \in [Calls -> RunRows]
    /\ lock \in Processes \cup {NoOwner}
    /\ pc \in [Calls -> {"idle"} \cup Active \cup Ended]
    /\ gwTxns \in [Calls -> SUBSET Txns]
    /\ lgTxns \in [Calls -> SUBSET Txns]
    /\ totals \in [Calls -> [gw : Nat, lg : Nat]]
    /\ matchedGW \in [Calls -> SUBSET Txns]
    /\ matchedLG \in [Calls -> SUBSET Txns]
    /\ matchedCount \in [Calls -> Nat]
    /\ unmatchedGW \in [Calls -> Nat]
    /\ unmatchedLG \in [Calls -> Nat]
    /\ todo \in [Calls -> SUBSET Txns]
    /\ up \subseteq Processes
    /\ ctxDone \subseteq Calls
    /\ faults \in 0 .. MaxFaults
    /\ endedBefore \in [Calls -> SUBSET Calls]

MatchesOf(c) == {m \in matches : m.run = c}
ReportedBy(c, type) == {d.tx : d \in {e \in discs : e.run = c /\ e.type = type}}

\* A run never uses a gateway transaction twice, nor a ledger transaction: not
\* even a run that failed after a row whose insert it was told had failed.
MatchedOncePerRun ==
    \A m, n \in matches :
        m.run = n.run /\ (m.gw = n.gw \/ m.lg = n.lg) => m = n

\* A completed run has either matched or reported each transaction it fetched,
\* on each side, and its row holds their numbers: the totals, the matched
\* and the reported of its audit record agree with the tables.
CompletedRunAccounts ==
    \A c \in Calls : runs[c].status = "completed" =>
        LET gws == {m.gw : m \in MatchesOf(c)}
            lgs == {m.lg : m \in MatchesOf(c)}
            gwOpen == ReportedBy(c, "unmatched_gateway")
            lgOpen == ReportedBy(c, "unmatched_ledger")
        IN  /\ gws \cap gwOpen = {} /\ gws \cup gwOpen = gwTxns[c]
            /\ lgs \cap lgOpen = {} /\ lgs \cup lgOpen = lgTxns[c]
            /\ runs[c].matched = Cardinality(MatchesOf(c))
            /\ runs[c].discs = Cardinality(gwOpen) + Cardinality(lgOpen)
            /\ runs[c].totalGW = Cardinality(gwTxns[c])
            /\ runs[c].totalLG = Cardinality(lgTxns[c])

\* A completed run leaves no pair unmatched on both sides that its rules
\* would have accepted.
MatchingIsMaximal ==
    \A c \in Calls : runs[c].status = "completed" =>
        \A g \in ReportedBy(c, "unmatched_gateway"),
           l \in ReportedBy(c, "unmatched_ledger") : ~Acceptable(g, l)

\* A match passes over a better ledger transaction only if the same run had
\* given that one to a gateway transaction that is not later.
NoOvertaking ==
    \A m \in matches : \A l \in lgTxns[m.run] :
        \/ \E n \in MatchesOf(m.run) :
               n.lg = l /\ Txn[n.gw].occurredAt <= Txn[m.gw].occurredAt
        \/ ~(Confidence(m.gw, l) > Confidence(m.gw, m.lg))

\* Two runs may use the same transaction only when their calls overlapped in
\* time: what a call committed before another began is out of its reach.
RunsApartShareNothing ==
    \A m, n \in matches : m.run \in endedBefore[n.run] =>
        {m.gw, m.lg} \cap {n.gw, n.lg} = {}

Settled == {"completed", "failed"}

\* A run that has been settled is never updated again, and adds no row to
\* matches or discrepancies; and no run ever takes one back.
SettledRunIsFrozen ==
    [][/\ matches \subseteq matches' /\ discs \subseteq discs'
       /\ \A c \in Calls : runs[c].status \in Settled =>
            /\ runs'[c] = runs[c]
            /\ \A m \in matches' \ matches : m.run # c
            /\ \A d \in discs' \ discs : d.run # c]_vars

\* As long as nothing fails, the key is held only while a call of its owner is
\* under way: no way out of Reconcile leaves it to the five minutes.
KeyHasActiveOwner ==
    faults = 0 /\ lock # NoOwner =>
        \E c \in Calls : Process[c] = lock /\ pc[c] \in Active

\* Every call that begins comes to an end, whatever fails.
CallsEnd == \A c \in Calls : (pc[c] = "create") ~> (pc[c] \in Ended)

\* As long as no store call fails and nobody hangs up or crashes, a run is
\* settled in the end, even one that loses a match to another run.
RunsSettle == \A c \in Calls :
    (runs[c].status = "running") ~> (runs[c].status \in Settled \/ faults > 0)

-----------------------------------------------------------------------------
(* The inductive invariant: what holds of each call c, at every step.      *)

OpenGW(c) == gwTxns[c] \ matchedGW[c]
OpenLG(c) == lgTxns[c] \ matchedLG[c]
ReportedGW(c) == ReportedBy(c, "unmatched_gateway")
ReportedLG(c) == ReportedBy(c, "unmatched_ledger")

BeforeMatching == {"idle", "create", "fetchGW", "fetchLG"}

\* Where the local variables of the call describe its rows.  After a failed
\* insert they may not: the row may be there without its mark.
Sound(c) == pc[c] \in Loops \/ runs[c].status = "completed"

NothingYet(c) ==
    /\ pc[c] \in BeforeMatching \ {"fetchLG"} => gwTxns[c] = {}
    /\ pc[c] \in BeforeMatching =>
          /\ lgTxns[c] = {}
          /\ MatchesOf(c) = {} /\ ReportedGW(c) = {} /\ ReportedLG(c) = {}
          /\ matchedGW[c] = {} /\ matchedLG[c] = {}
          /\ matchedCount[c] = 0 /\ unmatchedGW[c] = 0 /\ unmatchedLG[c] = 0

\* A status other than "running" is written only on the way out.
SettledLate(c) ==
    runs[c].status \in Settled => pc[c] \in {"unlock"} \cup Ended

\* Rows are of fetched transactions; no two share a side; and one that passes
\* over a better candidate finds it taken.
FromFetched(c) ==
    \A m \in MatchesOf(c) : m.gw \in gwTxns[c] /\ m.lg \in lgTxns[c]
OncePerRun(c) ==
    \A m, n \in MatchesOf(c) : m.gw = n.gw \/ m.lg = n.lg => m = n
Overtaken(c) ==
    \A m \in MatchesOf(c), l \in lgTxns[c] :
        Confidence(m.gw, l) > Confidence(m.gw, m.lg) =>
            \E n \in MatchesOf(c) :
                n.lg = l /\ Txn[n.gw].occurredAt <= Txn[m.gw].occurredAt

MarksAgree(c) == Sound(c) =>
    /\ matchedGW[c] = {m.gw : m \in MatchesOf(c)}
    /\ matchedLG[c] = {m.lg : m \in MatchesOf(c)}

ReportsAgree(c) ==
    /\ pc[c] = "match" =>
          /\ todo[c] \subseteq OpenGW(c)
          /\ ReportedGW(c) = {} /\ ReportedLG(c) = {}
    /\ pc[c] = "discGW" =>
          /\ todo[c] \subseteq OpenGW(c)
          /\ ReportedGW(c) = OpenGW(c) \ todo[c] /\ ReportedLG(c) = {}
    /\ pc[c] = "discLG" =>
          /\ todo[c] \subseteq OpenLG(c)
          /\ ReportedGW(c) = OpenGW(c) /\ ReportedLG(c) = OpenLG(c) \ todo[c]
    /\ runs[c].status = "completed" =>
          ReportedGW(c) = OpenGW(c) /\ ReportedLG(c) = OpenLG(c)

CountsAgree(c) ==
    /\ Sound(c) =>
          /\ matchedCount[c] = Cardinality(MatchesOf(c))
          /\ unmatchedGW[c] = Cardinality(ReportedGW(c))
          /\ unmatchedLG[c] = Cardinality(ReportedLG(c))
          /\ totals[c] = [gw |-> Cardinality(gwTxns[c]), lg |-> Cardinality(lgTxns[c])]
    /\ runs[c].status = "completed" => runs[c] = CompletedRow(c)

\* What the matching loop has visited comes first, and what it left is refused
\* by every ledger transaction still free.
VisitedInOrder(c) == pc[c] = "match" =>
    \A g \in gwTxns[c] \ todo[c], h \in todo[c] :
        Txn[g].occurredAt <= Txn[h].occurredAt
LeftRefused(c) ==
    /\ pc[c] = "match" =>
          \A g \in OpenGW(c) \ todo[c], l \in OpenLG(c) : ~Acceptable(g, l)
    /\ Sound(c) /\ pc[c] # "match" =>
          \A g \in OpenGW(c), l \in OpenLG(c) : ~Acceptable(g, l)

\* The calls that had ended before this one stay so, and what they matched is
\* not among what it fetched.
EarlierApart(c) == \A d \in endedBefore[c] :
    /\ pc[d] \in Ended
    /\ \A m \in MatchesOf(d) : {m.gw, m.lg} \cap (gwTxns[c] \cup lgTxns[c]) = {}

CallInv(c) ==
    /\ NothingYet(c)
    /\ SettledLate(c)
    /\ FromFetched(c)
    /\ OncePerRun(c)
    /\ Overtaken(c)
    /\ MarksAgree(c)
    /\ ReportsAgree(c)
    /\ CountsAgree(c)
    /\ VisitedInOrder(c)
    /\ LeftRefused(c)

IInv == TypeOK /\ \A c \in Calls : CallInv(c) /\ EarlierApart(c)

-----------------------------------------------------------------------------
(* What the repository says of a run, and its code does not keep.          *)

\* README.md: runs must be mutually exclusive across multiple instances.
MutualExclusion ==
    \A c, d \in Calls : c # d => ~(pc[c] \in Active /\ pc[d] \in Active)

\* domain/match.go: a match is between a gateway and a ledger transaction.
MatchLinksTwo == \A m \in matches : m.gw # m.lg
=============================================================================
