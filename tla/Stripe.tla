------------------------------- MODULE Stripe -------------------------------
(***************************************************************************)
(* A fetch of the Stripe adapter (internal/adapter/stripe.go): pages of a  *)
(* list that is read newest first, each page starting after the last       *)
(* transaction of the page before, while new transactions arrive.          *)
(*                                                                         *)
(* Stripe's transactions are numbered as they are created; nothing removes *)
(* one.  One step is one HTTP call.                                        *)
(***************************************************************************)
EXTENDS Integers, Sequences, FiniteSets

CONSTANTS
    Period,        \* the numbers that created[gte] and created[lte] let through
    PageSize,      \* 100
    MaxRetries,    \* 5
    MaxNewest,     \* bound on the transactions created
    MaxFaults      \* bound on failed HTTP calls

\* What the instances assume of the constants.
StripeAssumption ==
    /\ Period \subseteq 1 .. MaxNewest
    /\ PageSize \in Nat \ {0} /\ MaxRetries \in Nat
    /\ MaxNewest \in Nat /\ MaxFaults \in Nat

VARIABLES
    newest,        \* Stripe has created 1 .. newest
    pc, cursor, attempt,
    pages,         \* the pages read, each the set of its transactions
    had,           \* history: newest when the fetch began
    faults

vars == <<newest, pc, cursor, attempt, pages, had, faults>>

-----------------------------------------------------------------------------
\* No cursor is 0.
Created == Period \cap (1 .. newest)
After(c) == IF c = 0 THEN Created ELSE {k \in Created : k < c}

\* A plausible slip: pages counted from the top instead of from the cursor.
DataByOffset(c) ==
    LET rank(k) == Cardinality({m \in Created : m > k})
    IN {k \in Created : rank(k) \div PageSize = Len(pages)}

Data(c) == {k \in After(c) : Cardinality({m \in After(c) : m > k}) < PageSize}
HasMore(c) == Data(c) # After(c)

LastOf(S) == CHOOSE k \in S : \A m \in S : k <= m

PageArrives ==
    /\ pc = "fetch"
    /\ pages' = Append(pages, Data(cursor))
    /\ attempt' = 0
    /\ IF HasMore(cursor) /\ Data(cursor) # {}
       THEN cursor' = LastOf(Data(cursor)) /\ UNCHANGED pc
       ELSE pc' = "done" /\ UNCHANGED cursor
    /\ UNCHANGED <<newest, had, faults>>

Fault == pc = "fetch" /\ faults < MaxFaults /\ faults' = faults + 1

\* 429, a server's error or a network's: again, while attempts are left.
Transient ==
    /\ Fault
    /\ IF attempt < MaxRetries
       THEN attempt' = attempt + 1 /\ UNCHANGED pc
       ELSE pc' = "failed" /\ UNCHANGED attempt
    /\ UNCHANGED <<newest, cursor, pages, had>>

\* 401, any other status, or an answer that cannot be read.
Refused ==
    /\ Fault
    /\ pc' = "failed"
    /\ UNCHANGED <<newest, cursor, attempt, pages, had>>

Arrive ==
    /\ newest < MaxNewest /\ newest' = newest + 1
    /\ UNCHANGED <<pc, cursor, attempt, pages, had, faults>>

-----------------------------------------------------------------------------
Init ==
    /\ newest \in 0 .. MaxNewest /\ had = newest
    /\ pc = "fetch" /\ cursor = 0 /\ attempt = 0 /\ pages = <<>> /\ faults = 0

Body == PageArrives \/ Transient \/ Refused

Next == Body \/ Arrive

Spec == Init /\ [][Next]_vars

-----------------------------------------------------------------------------
\* A fetch that succeeds returns the list as it stood at one moment of the
\* fetch, each transaction once: nothing is skipped or repeated although the
\* list grows between its pages and pages are asked for again after errors.
FetchIsSnapshot ==
    pc = "done" =>
        /\ \E s \in had .. newest :
              UNION {pages[i] : i \in DOMAIN pages} = Period \cap (1 .. s)
        /\ \A i, j \in DOMAIN pages : i # j => pages[i] \cap pages[j] = {}
=============================================================================
