----------------------------- MODULE AdaptersMC -----------------------------
(***************************************************************************)
(* Instances of the adapters.                                              *)
(***************************************************************************)
EXTENDS Adapters

\* A period of two windows, the first of two pages, with a transaction on the
\* boundary; and a period that is the second window alone.
LongAndShort == {"long", "short"}
Begins == [long |-> 0, short |-> 31]
Ends == [long |-> 40, short |-> 40]
FourTxns == {"t1", "t2", "t3", "t4"}
Days == [t1 |-> 5, t2 |-> 6, t3 |-> 31, t4 |-> 40]

\* The first and the last of eight transactions lie outside the period.
Middle == 2 .. 7
=============================================================================
