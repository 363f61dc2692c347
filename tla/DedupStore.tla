----------------------------- MODULE DedupStore -----------------------------
(***************************************************************************)
(* What ingestion (internal/engine/ingester.go) promises, without caches,  *)
(* races and faults: of the items that share a key at most one is kept,    *)
(* and what the client of an item is told is true of the store.            *)
(***************************************************************************)
CONSTANTS
    Items,         \* the items of all requests
    Key            \* [Items -> deduplication keys]

VARIABLES
    kept,          \* the items in the store
    told           \* [Items -> what the client of the item has been told]

Init == kept = {} /\ told = [x \in Items |-> "nothing"]

Admissible(x) == \A y \in kept : Key[y] # Key[x]

\* What may be said of x when S is kept.  An error says nothing of the store.
Truths(x, S) ==
    {s \in {"created", "duplicate", "error"} :
        /\ s = "created" => x \in S
        /\ s = "duplicate" => \E y \in S \ {x} : Key[y] = Key[x]}

\* A step keeps the item, tells its client, or both; each happens once at most.
Serve(x) ==
    /\ told[x] = "nothing"
    /\ \/ Admissible(x) /\ kept' = kept \cup {x}
       \/ UNCHANGED kept
    /\ \/ \E s \in Truths(x, kept') : told' = [told EXCEPT ![x] = s]
       \/ UNCHANGED told

Next == \E x \in Items : Serve(x)

Spec == Init /\ [][Next]_<<kept, told>>
=============================================================================
