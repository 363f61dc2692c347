--------------------------- MODULE DiscrepanciesMC ---------------------------
(***************************************************************************)
(* Instances of Discrepancies: four sets of calls that meet.               *)
(***************************************************************************)
EXTENDS Discrepancies

\* A large gateway transaction, a small one, and a large refund.
AllTxns == {"large", "small", "refund"}
Cents == [large |-> 150000, small |-> 500, refund |-> -150000]
HadOpen == {"large", "small"}

AllCalls == {"run", "lateRun", "first", "second", "clerk", "manager", "auto",
             "age", "ageAgain", "settlement"}
KindOf == [run |-> "reconcile", lateRun |-> "reconcile", first |-> "prevent",
           second |-> "prevent", clerk |-> "patch", manager |-> "resolve",
           auto |-> "auto", age |-> "age", ageAgain |-> "age",
           settlement |-> "report"]
About == [run |-> {"refund"}, lateRun |-> {"refund"}, first |-> {"refund"},
          second |-> {"refund"}, clerk |-> {"small", "refund"}, manager |-> {"small"},
          auto |-> {"small", "large"}, age |-> {}, ageAgain |-> {},
          settlement |-> {}]

\* Two attempts at one transaction, and a clerk who closes and reopens it; two
\* people and AutoResolve; two agings on different days and a new row; a report
\* and two runs.
Meetings == {{"first", "second", "clerk"},
             {"auto", "clerk", "manager"},
             {"age", "ageAgain", "first"},
             {"run", "lateRun", "settlement"}}
=============================================================================
