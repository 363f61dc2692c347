------------------------------ MODULE Ingester ------------------------------
(***************************************************************************)
(* Ingestion: the requests that feed transactions to Ingest                *)
(* (internal/engine/ingester.go) one by one (IngestHandler), in batches    *)
(* (BatchIngestHandler, UploadHandler) or from the command line            *)
(* (runUpload), over the table transactions and the Redis cache of keys.   *)
(*                                                                         *)
(* A request is served item by item, in order, on one context.  One step   *)
(* is one call to a store, with the local computation up to the next.      *)
(* Redis is a cache: its errors are logged and the call goes on.  An error *)
(* of PostgreSQL ends the call, and what it wrote may have been committed. *)
(*                                                                         *)
(* An item is named by its request and its place in it; the id that its    *)
(* call draws for a new row is named by the item.                          *)
(***************************************************************************)
EXTENDS Integers, Sequences, FiniteSets

CONSTANTS
    Requests,
    Batch,         \* [Requests -> sequences of [source, ext, valid, storable]]
    WithRedis,     \* the requests served by a process that has a Redis client
    Command,       \* the requests of a command, whose context never ends
    Registered,    \* the source texts that PostgreSQL takes for a known source
    NoItem,        \* not an item
    MaxFaults      \* bound on failures, cancellations and kills

Items == UNION {{b} \X DOMAIN Batch[b] : b \in Requests}

ASSUME BatchAssumption ==
    /\ \A b \in Requests :
          /\ Batch[b] \in Seq([source : STRING, ext : STRING, valid : BOOLEAN,
                               storable : BOOLEAN])
          /\ Batch[b] # <<>>
    /\ WithRedis \subseteq Requests
    /\ Command \subseteq Requests
    /\ NoItem \notin Items
    /\ MaxFaults \in Nat

VARIABLES
    rows,          \* the items whose row is in transactions
    cache,         \* [Keys -> the id in the Redis key dedup:..., or NoItem]
    pc,            \* where each request stands
    at,            \* [Requests -> the place of the item being served]
    found,         \* [Requests -> existing.ID of the item being served]
    told,          \* [Items -> the IngestResult, with the status of an error]
    ctxDone,       \* the requests whose context is cancelled
    faults

vars == <<rows, cache, pc, at, found, told, ctxDone, faults>>

-----------------------------------------------------------------------------
Item(x) == Batch[x[1]][x[2]]
Current(b) == <<b, at[b]>>

\* The table takes the item's row: the source is one it knows, the texts have
\* the length and the encoding of their columns and raw_data is JSON.  validate
\* looks at none of this.
Storable(x) == Item(x).source \in Registered /\ Item(x).storable

\* The digest of the two texts, one after the other.  No text of a UUID is a
\* prefix of another, so the pair is as good.
DedupKey(x) == <<Item(x).source, Item(x).ext>>
Keys == {DedupKey(x) : x \in Items}

Nothing == [status |-> "nothing", id |-> NoItem]
RowsOf(key) == {y \in rows : DedupKey(y) = key}

\* A call to a store is answered while the context lives.
Answers(b) == b \notin ctxDone /\ UNCHANGED faults

\* A call fails because the context is cancelled, or of itself.
CallFails(b) ==
    \/ b \in ctxDone /\ UNCHANGED faults
    \/ b \notin ctxDone /\ faults < MaxFaults /\ faults' = faults + 1

\* What a failed call may leave: nothing, or all it wrote if it was sent.
Leaves(b, before, after) == {before} \cup (IF b \in ctxDone THEN {} ELSE {after})

Goto(b, l) == pc' = [pc EXCEPT ![b] = l] /\ UNCHANGED <<at, told>>

\* A plausible slip: the loop over the batch runs one item too far.
ReturnPastEnd(b, status, id) ==
    /\ told' = [told EXCEPT ![Current(b)] = [status |-> status, id |-> id]]
    /\ at' = [at EXCEPT ![b] = @ + 1]
    /\ pc' = [pc EXCEPT ![b] = IF at[b] <= Len(Batch[b]) THEN "check" ELSE "done"]

\* Ingest returns, and the handler takes up its next item or is done.
Return(b, status, id) ==
    /\ told' = [told EXCEPT ![Current(b)] = [status |-> status, id |-> id]]
    /\ \/ /\ at[b] < Len(Batch[b])
          /\ at' = [at EXCEPT ![b] = @ + 1]
          /\ pc' = [pc EXCEPT ![b] = "check"]
       \/ /\ at[b] = Len(Batch[b])
          /\ pc' = [pc EXCEPT ![b] = "done"]
          /\ UNCHANGED at

-----------------------------------------------------------------------------
(* The body of Ingest.                                                     *)

Checked(b) == pc[b] = "check" /\ Item(Current(b)).valid

\* What validate refuses reaches no store.
Reject(b) ==
    /\ pc[b] = "check" /\ ~Item(Current(b)).valid
    /\ Return(b, "error", NoItem)
    /\ UNCHANGED <<rows, cache, found, ctxDone, faults>>

\* A plausible slip: an error of the cache is tried again.
GetCachedRetried(b) ==
    LET cached == cache[DedupKey(Current(b))]
    IN  /\ Checked(b) /\ b \in WithRedis
        /\ \/ Answers(b) /\ cached # NoItem /\ Return(b, "duplicate", cached)
           \/ Answers(b) /\ cached = NoItem /\ Goto(b, "find")
           \/ CallFails(b) /\ Goto(b, "check")
        /\ UNCHANGED <<rows, cache, found, ctxDone>>

\* The Redis GET: a hit is a duplicate, a miss or an error goes on.
GetCached(b) ==
    LET cached == cache[DedupKey(Current(b))]
    IN  /\ Checked(b) /\ b \in WithRedis
        /\ \/ Answers(b) /\ cached # NoItem /\ Return(b, "duplicate", cached)
           \/ Answers(b) /\ cached = NoItem /\ Goto(b, "find")
           \/ CallFails(b) /\ Goto(b, "find")
        /\ UNCHANGED <<rows, cache, found, ctxDone>>

ToFind(b) == pc[b] = "find" \/ (Checked(b) /\ b \notin WithRedis)

\* A plausible slip: the key is reserved in the cache ahead of the insert.
FindAndReserve(b) ==
    LET key == DedupKey(Current(b))
    IN  /\ ToFind(b)
        /\ \/ \E y \in RowsOf(key) :
                 /\ Answers(b)
                 /\ Return(b, "duplicate", y)
                 /\ UNCHANGED <<cache, found>>
           \/ /\ Answers(b)
              /\ RowsOf(key) = {}
              /\ cache' = [cache EXCEPT ![key] = IF b \in WithRedis
                                                 THEN Current(b) ELSE @]
              /\ Goto(b, "insert")
              /\ UNCHANGED found
           \/ CallFails(b) /\ Return(b, "error", NoItem) /\ UNCHANGED <<cache, found>>
        /\ UNCHANGED <<rows, ctxDone>>

\* FindByDedupKey.
Find(b) ==
    LET key == DedupKey(Current(b))
    IN  /\ ToFind(b)
        /\ \/ \E y \in RowsOf(key) :
                 /\ Answers(b)
                 /\ b \in WithRedis
                 /\ found' = [found EXCEPT ![b] = y]
                 /\ Goto(b, "recache")
           \/ \E y \in RowsOf(key) :
                 /\ Answers(b)
                 /\ b \notin WithRedis
                 /\ Return(b, "duplicate", y)
                 /\ UNCHANGED found
           \/ Answers(b) /\ RowsOf(key) = {} /\ Goto(b, "insert") /\ UNCHANGED found
           \/ CallFails(b) /\ Return(b, "error", NoItem) /\ UNCHANGED found
        /\ UNCHANGED <<rows, cache, ctxDone>>

\* The Redis SET of dedup:key, whose error is only logged.
SetCached(b, id) ==
    LET cached == [cache EXCEPT ![DedupKey(Current(b))] = id]
    IN  \/ Answers(b) /\ cache' = cached
        \/ CallFails(b) /\ cache' \in Leaves(b, cache, cached)

Recache(b) ==
    /\ pc[b] = "recache"
    /\ SetCached(b, found[b])
    /\ Return(b, "duplicate", found[b])
    /\ UNCHANGED <<rows, found, ctxDone>>

\* A plausible slip: whether the row was inserted is not looked at.
InsertUnseen(b) ==
    LET x == Current(b)
    IN  /\ pc[b] = "insert"
        /\ \/ /\ Answers(b) /\ Storable(x)
              /\ rows' = IF RowsOf(DedupKey(x)) = {} THEN rows \cup {x} ELSE rows
              /\ \/ b \in WithRedis /\ Goto(b, "cache")
                 \/ b \notin WithRedis /\ Return(b, "created", x)
           \/ Answers(b) /\ ~Storable(x) /\ Return(b, "error", NoItem) /\ UNCHANGED rows
           \/ CallFails(b) /\ Return(b, "error", NoItem) /\ UNCHANGED rows
        /\ UNCHANGED <<cache, found, ctxDone>>

\* A plausible slip: no ON CONFLICT clause, so the loser of a race is refused.
InsertOrRefuse(b) ==
    LET x == Current(b)
    IN  /\ pc[b] = "insert"
        /\ \/ /\ Answers(b) /\ Storable(x) /\ RowsOf(DedupKey(x)) = {}
              /\ rows' = rows \cup {x}
              /\ \/ b \in WithRedis /\ Goto(b, "cache")
                 \/ b \notin WithRedis /\ Return(b, "created", x)
           \/ /\ Answers(b)
              /\ ~Storable(x) \/ RowsOf(DedupKey(x)) # {}
              /\ Return(b, "error", NoItem)
              /\ UNCHANGED rows
           \/ CallFails(b) /\ Return(b, "error", NoItem) /\ UNCHANGED rows
        /\ UNCHANGED <<cache, found, ctxDone>>

\* INSERT ... ON CONFLICT (dedup_key) DO NOTHING.  A row that the table does not
\* take is an error, whether its key is taken or not: PostgreSQL converts the
\* values before it looks for a conflict.  (A taken key means a known source.)
\* The loser of a race returns the id it drew itself.
Insert(b) ==
    LET x == Current(b)
        taken == RowsOf(DedupKey(x)) # {}
    IN  /\ pc[b] = "insert"
        /\ \/ /\ Answers(b) /\ Storable(x) /\ ~taken
              /\ rows' = rows \cup {x}
              /\ \/ b \in WithRedis /\ Goto(b, "cache")
                 \/ b \notin WithRedis /\ Return(b, "created", x)
           \/ /\ Answers(b) /\ Storable(x) /\ taken
              /\ Return(b, "duplicate", x)
              /\ UNCHANGED rows
           \/ Answers(b) /\ ~Storable(x) /\ Return(b, "error", NoItem) /\ UNCHANGED rows
           \/ /\ CallFails(b)
              /\ rows' \in IF Storable(x) /\ ~taken
                         THEN Leaves(b, rows, rows \cup {x}) ELSE {rows}
              /\ Return(b, "error", NoItem)
        /\ UNCHANGED <<cache, found, ctxDone>>

CacheNew(b) ==
    /\ pc[b] = "cache"
    /\ SetCached(b, Current(b))
    /\ Return(b, "created", Current(b))
    /\ UNCHANGED <<rows, found, ctxDone>>

-----------------------------------------------------------------------------
(* The environment.                                                        *)

\* The 24 hours of a key are over, or Redis has lost it.
Forget(key) ==
    /\ cache[key] # NoItem
    /\ cache' = [cache EXCEPT ![key] = NoItem]
    /\ UNCHANGED <<rows, pc, at, found, told, ctxDone, faults>>

Underway(b) == pc[b] \notin {"done", "killed"}

\* The client hangs up.
Cancel(b) ==
    /\ Underway(b)
    /\ b \notin Command \cup ctxDone
    /\ faults < MaxFaults
    /\ faults' = faults + 1
    /\ ctxDone' = ctxDone \cup {b}
    /\ UNCHANGED <<rows, cache, pc, at, found, told>>

\* The process dies.  Each request has a process of its own: two that share
\* one may die in two steps.
Kill(b) ==
    /\ Underway(b)
    /\ faults < MaxFaults
    /\ faults' = faults + 1
    /\ pc' = [pc EXCEPT ![b] = "killed"]
    /\ UNCHANGED <<rows, cache, at, found, told, ctxDone>>

-----------------------------------------------------------------------------
Init ==
    /\ rows = {}
    /\ cache = [k \in Keys |-> NoItem]
    /\ pc = [b \in Requests |-> "check"]
    /\ at = [b \in Requests |-> 1]
    /\ found = [b \in Requests |-> NoItem]
    /\ told = [x \in Items |-> Nothing]
    /\ ctxDone = {}
    /\ faults = 0

Body(b) ==
    \/ Reject(b)
    \/ GetCached(b)
    \/ Find(b)
    \/ Recache(b)
    \/ Insert(b)
    \/ CacheNew(b)

Next ==
    \/ \E b \in Requests : Body(b) \/ Cancel(b) \/ Kill(b)
    \/ \E k \in Keys : Forget(k)

Spec == Init /\ [][Next]_vars

\* Every store call returns, with an answer or an error.
FairSpec == Spec /\ \A b \in Requests : WF_vars(Body(b))

-----------------------------------------------------------------------------
(* Properties.                                                             *)

Results == {Nothing, [status |-> "error", id |-> NoItem]}
               \cup [status : {"created", "duplicate"}, id : Items]

TypeOK ==
    /\ rows \subseteq Items
    /\ cache \in [Keys -> Items \cup {NoItem}]
    /\ pc \in [Requests -> {"check", "find", "recache", "insert", "cache",
                            "done", "killed"}]
    /\ at \in [Requests -> Nat]
    /\ \A b \in Requests : at[b] \in DOMAIN Batch[b]
    /\ found \in [Requests -> Items \cup {NoItem}]
    /\ told \in [Items -> Results]
    /\ ctxDone \subseteq Requests
    /\ faults \in 0 .. MaxFaults

\* Ingestion implements the abstract store: of the items with one key a single
\* one is ever kept and told "created", and nobody is told "duplicate" of a
\* record that is not there, whatever the cache holds and whatever fails.
Promised == INSTANCE DedupStore WITH
    Key <- [x \in Items |-> DedupKey(x)],
    kept <- rows,
    told <- [x \in Items |-> told[x].status]
Deduplicates == Promised!Spec

\* The cache never names a row that is not stored, nor one of another key: a
\* wrong entry would turn ingests away for a day.
CacheNamesRow ==
    \A k \in Keys : cache[k] # NoItem => cache[k] \in RowsOf(k)

\* An error has a cause: while nothing fails, a valid item whose row the table
\* takes is never refused, not the loser of a race, nor one whose neighbours in
\* the batch are refused.
ErrorsHaveCause ==
    \A x \in Items : told[x].status = "error" /\ faults = 0 =>
        ~Item(x).valid \/ ~Storable(x)

\* Every request comes to an end, whatever fails and whoever hangs up.
RequestsEnd == \A b \in Requests : <>~Underway(b)

-----------------------------------------------------------------------------
(* The inductive invariant, of each request.                               *)

\* The id of an item is not in use before its insert, nor one of a later item.
IdsAreNew(b) ==
    /\ pc[b] \in {"check", "find", "recache", "insert"} => Current(b) \notin rows
    /\ Underway(b) => \A i \in DOMAIN Batch[b] : i > at[b] => <<b, i>> \notin rows

\* Results are given in order.
InOrder(b) ==
    Underway(b) => \A i \in DOMAIN Batch[b] : i >= at[b] => told[<<b, i>>] = Nothing

\* What is about to be cached is stored.
CachesStored(b) ==
    /\ pc[b] = "recache" => found[b] \in RowsOf(DedupKey(Current(b)))
    /\ pc[b] = "cache" => Current(b) \in rows

IInv ==
    /\ TypeOK
    /\ CacheNamesRow
    /\ \A b \in Requests : IdsAreNew(b) /\ InOrder(b) /\ CachesStored(b)

-----------------------------------------------------------------------------
(* What the repository says of ingestion, and its code does not keep.      *)

\* ingester_test.go: a duplicate gets the id of the transaction stored first.
DuplicateNamesRow ==
    \A x \in Items : told[x].status = "duplicate" =>
        told[x].id \in RowsOf(DedupKey(x))
=============================================================================
