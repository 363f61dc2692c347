--------------------------- MODULE IngesterProofs ---------------------------
(***************************************************************************)
(* Ingester implements DedupStore, for any requests, with or without a     *)
(* cache, and under any failures.                                          *)
(*                                                                         *)
(* A step is a step of one request (Body) or of its environment.  A step   *)
(* of request b adds at most the row of its current item and answers at    *)
(* most that item (StepIsLocal), so the invariant of the other requests is *)
(* kept.  For b itself a step either moves on (Goto) or returns (Return).  *)
(***************************************************************************)
EXTENDS Ingester, TLAPS

LEMMA ItemsArePairs ==
    \A b \in Requests : \A i \in DOMAIN Batch[b] : <<b, i>> \in Items
  BY DEF Items

LEMMA BatchIsSeq ==
    ASSUME NEW b \in Requests
    PROVE  Len(Batch[b]) \in Nat /\ DOMAIN Batch[b] = 1 .. Len(Batch[b])
  BY BatchAssumption

LEMMA CurrentIsItem ==
    ASSUME TypeOK, NEW b \in Requests
    PROVE  /\ Current(b) \in Items
           /\ DedupKey(Current(b)) \in Keys
           /\ at[b] \in 1 .. Len(Batch[b])
  BY ItemsArePairs, BatchIsSeq DEF TypeOK, Current, Keys

LEMMA FaultsBounded ==
    ASSUME TypeOK, NEW b \in Requests, Answers(b) \/ CallFails(b)
    PROVE  faults' \in 0 .. MaxFaults
  BY BatchAssumption DEF TypeOK, Answers, CallFails

-----------------------------------------------------------------------------
(* A step of a request, in outline.                                        *)

\* The request goes on with the same item.
GoesOn(b) ==
    /\ at' = at /\ told' = told
    /\ \E l \in {"find", "recache", "insert", "cache"} : pc' = [pc EXCEPT ![b] = l]

\* The request returns a true result for the item.
Returns(b) ==
    \E r \in Results \ {Nothing} :
        /\ Return(b, r.status, r.id)
        /\ r.status \in Promised!Truths(Current(b), rows')

LEMMA ReturnsOne ==
    ASSUME NEW b \in Requests, NEW s, NEW id,
           Return(b, s, id),
           \/ s = "error" /\ id = NoItem
           \/ s = "created" /\ id \in Items /\ Current(b) \in rows'
           \/ /\ s = "duplicate" /\ id \in Items
              /\ \E y \in rows' \ {Current(b)} : DedupKey(y) = DedupKey(Current(b)),
           rows' \subseteq Items, Current(b) \in Items
    PROVE  Returns(b)
  <1> DEFINE r == [status |-> s, id |-> id]
  <1>1. r \in Results \ {Nothing}
    BY DEF Results, Nothing
  <1>2. r.status \in Promised!Truths(Current(b), rows')
    BY DEF Promised!Truths
  <1> QED
    BY <1>1, <1>2 DEF Returns

\* All that matters of a step of b.
Fits(b) ==
    /\ Underway(b)
    /\ GoesOn(b) \/ Returns(b)
    /\ \/ rows' = rows
       \/ rows' = rows \cup {Current(b)} /\ RowsOf(DedupKey(Current(b))) = {}
    /\ cache' \in [Keys -> Items \cup {NoItem}] /\ CacheNamesRow'
    /\ found' \in [Requests -> Items \cup {NoItem}]
    /\ \A d \in Requests \ {b} : found'[d] = found[d]
    /\ pc'[b] \in {"find", "insert", "recache"} => Current(b) \notin rows'
    /\ pc'[b] = "recache" => found'[b] \in RowsOf(DedupKey(Current(b)))
    /\ pc'[b] = "cache" => Current(b) \in rows'
    /\ ctxDone' = ctxDone /\ faults' \in 0 .. MaxFaults

\* Rows are only added, so a cache that is not written stays right.
LEMMA CacheStaysRight ==
    ASSUME TypeOK, CacheNamesRow, rows \subseteq rows',
           NEW k0 \in Keys, NEW id \in RowsOf(k0),
           cache' \in {cache, [cache EXCEPT ![k0] = id]}
    PROVE  CacheNamesRow' /\ cache' \in [Keys -> Items \cup {NoItem}]
  BY DEF CacheNamesRow, RowsOf, TypeOK

LEMMA SameCache ==
    ASSUME TypeOK, CacheNamesRow, rows \subseteq rows', cache' = cache
    PROVE  CacheNamesRow' /\ cache' \in [Keys -> Items \cup {NoItem}]
  BY DEF CacheNamesRow, RowsOf, TypeOK

LEMMA GoesOnTo ==
    ASSUME TypeOK, NEW b \in Requests,
           NEW l \in {"find", "recache", "insert", "cache"}, Goto(b, l)
    PROVE  GoesOn(b) /\ pc'[b] = l
  BY DEF Goto, GoesOn, TypeOK

LEMMA ReturnsTo ==
    ASSUME TypeOK, NEW b \in Requests, NEW s, NEW id, Return(b, s, id)
    PROVE  pc'[b] \in {"check", "done"}
  BY DEF Return, TypeOK

LEMMA RejectFits ==
    ASSUME IInv, NEW b \in Requests, Reject(b)
    PROVE  Fits(b)
  <1>1. Current(b) \in Items /\ rows' = rows /\ rows' \subseteq Items
    BY CurrentIsItem DEF Reject, IInv, TypeOK
  <1>2. Returns(b) /\ pc'[b] \in {"check", "done"}
    BY <1>1, ReturnsOne, ReturnsTo DEF Reject, IInv
  <1>3. CacheNamesRow' /\ cache' \in [Keys -> Items \cup {NoItem}]
    BY <1>1, SameCache DEF Reject, IInv
  <1> QED
    BY <1>1, <1>2, <1>3 DEF Reject, Fits, Underway, IInv, TypeOK

LEMMA GetCachedFits ==
    ASSUME IInv, NEW b \in Requests, GetCached(b)
    PROVE  Fits(b)
  <1> DEFINE cached == cache[DedupKey(Current(b))]
  <1>1. /\ Current(b) \in Items /\ DedupKey(Current(b)) \in Keys
        /\ rows' = rows /\ rows' \subseteq Items /\ Current(b) \notin rows
    BY CurrentIsItem DEF GetCached, Checked, IInv, TypeOK, IdsAreNew
  <1>2. CacheNamesRow' /\ cache' \in [Keys -> Items \cup {NoItem}]
    BY <1>1, SameCache DEF GetCached, IInv
  <1>3. (Returns(b) /\ pc'[b] \in {"check", "done"}) \/ (GoesOn(b) /\ pc'[b] = "find")
    <2>1. CASE cached # NoItem /\ Return(b, "duplicate", cached)
      <3>1. cached \in RowsOf(DedupKey(Current(b)))
        BY <1>1, <2>1 DEF IInv, CacheNamesRow
      <3>2. cached \in rows' \ {Current(b)} /\ DedupKey(cached) = DedupKey(Current(b))
        BY <1>1, <3>1 DEF RowsOf
      <3>3. cached \in Items
        BY <1>1, <3>2
      <3> QED
        BY <1>1, <2>1, <3>2, <3>3, ReturnsOne, ReturnsTo DEF IInv
    <2>2. CASE Goto(b, "find")
      BY <2>2, GoesOnTo DEF IInv
    <2> QED
      BY <2>1, <2>2 DEF GetCached
  <1>4. faults' \in 0 .. MaxFaults
    BY FaultsBounded DEF GetCached, IInv
  <1> QED
    BY <1>1, <1>2, <1>3, <1>4 DEF GetCached, Checked, Fits, Underway, IInv, TypeOK

LEMMA FindFits ==
    ASSUME IInv, NEW b \in Requests, Find(b)
    PROVE  Fits(b)
  <1> DEFINE key == DedupKey(Current(b))
  <1>1. /\ Current(b) \in Items
        /\ rows' = rows /\ rows' \subseteq Items /\ Current(b) \notin rows
    BY CurrentIsItem DEF Find, ToFind, Checked, IInv, TypeOK, IdsAreNew
  <1>2. CacheNamesRow' /\ cache' \in [Keys -> Items \cup {NoItem}]
    BY <1>1, SameCache DEF Find, IInv
  <1>3. \A y \in RowsOf(key) :
            y \in Items /\ y \in rows' \ {Current(b)} /\ DedupKey(y) = key
    BY <1>1 DEF RowsOf
  <1>4. \/ Returns(b) /\ pc'[b] \in {"check", "done"} /\ found' = found
        \/ GoesOn(b) /\ pc'[b] = "insert" /\ found' = found
        \/ /\ GoesOn(b) /\ pc'[b] = "recache"
           /\ \E y \in RowsOf(key) : found' = [found EXCEPT ![b] = y]
    <2>1. CASE \E y \in RowsOf(key) : Return(b, "duplicate", y) /\ found' = found
      BY <1>1, <1>3, <2>1, ReturnsOne, ReturnsTo DEF IInv
    <2>2. CASE Return(b, "error", NoItem) /\ found' = found
      BY <1>1, <2>2, ReturnsOne, ReturnsTo DEF IInv
    <2>3. CASE Goto(b, "insert") /\ found' = found
      BY <2>3, GoesOnTo DEF IInv
    <2>4. CASE \E y \in RowsOf(key) :
                  found' = [found EXCEPT ![b] = y] /\ Goto(b, "recache")
      BY <2>4, GoesOnTo DEF IInv
    <2> QED
      BY <2>1, <2>2, <2>3, <2>4 DEF Find
  <1>5. found' \in [Requests -> Items \cup {NoItem}]
    BY <1>3, <1>4 DEF IInv, TypeOK
  <1>6. pc'[b] = "recache" => found'[b] \in RowsOf(key)
    BY <1>4 DEF IInv, TypeOK
  <1>7. \A d \in Requests \ {b} : found'[d] = found[d]
    BY <1>4 DEF IInv, TypeOK
  <1>8. faults' \in 0 .. MaxFaults
    BY FaultsBounded DEF Find, IInv
  <1>9. Underway(b) /\ ctxDone' = ctxDone
    BY DEF Find, ToFind, Checked, Underway
  <1> QED
    BY <1>1, <1>2, <1>4, <1>5, <1>6, <1>7, <1>8, <1>9 DEF Fits

LEMMA SetCachedFits ==
    ASSUME IInv, NEW b \in Requests, NEW id \in RowsOf(DedupKey(Current(b))),
           SetCached(b, id), rows' = rows
    PROVE  /\ CacheNamesRow' /\ cache' \in [Keys -> Items \cup {NoItem}]
           /\ faults' \in 0 .. MaxFaults
  <1>1. cache' \in {cache, [cache EXCEPT ![DedupKey(Current(b))] = id]}
    BY DEF SetCached, Leaves
  <1>2. DedupKey(Current(b)) \in Keys
    BY CurrentIsItem DEF IInv
  <1> QED
    BY <1>1, <1>2, CacheStaysRight, FaultsBounded DEF IInv, SetCached

LEMMA RecacheFits ==
    ASSUME IInv, NEW b \in Requests, Recache(b)
    PROVE  Fits(b)
  <1>1. /\ Current(b) \in Items /\ Current(b) \notin rows
        /\ rows' = rows /\ rows' \subseteq Items
        /\ found[b] \in RowsOf(DedupKey(Current(b)))
    BY CurrentIsItem DEF Recache, IInv, TypeOK, IdsAreNew, CachesStored
  <1>2. /\ found[b] \in Items /\ found[b] \in rows' \ {Current(b)}
        /\ DedupKey(found[b]) = DedupKey(Current(b))
    BY <1>1 DEF RowsOf
  <1>3. Returns(b) /\ pc'[b] \in {"check", "done"}
    BY <1>1, <1>2, ReturnsOne, ReturnsTo DEF Recache, IInv
  <1>4. /\ CacheNamesRow' /\ cache' \in [Keys -> Items \cup {NoItem}]
        /\ faults' \in 0 .. MaxFaults
    BY <1>1, SetCachedFits DEF Recache
  <1> QED
    BY <1>1, <1>3, <1>4 DEF Recache, Fits, Underway, IInv, TypeOK

LEMMA CacheNewFits ==
    ASSUME IInv, NEW b \in Requests, CacheNew(b)
    PROVE  Fits(b)
  <1>1. /\ Current(b) \in Items
        /\ rows' = rows /\ rows' \subseteq Items
        /\ Current(b) \in RowsOf(DedupKey(Current(b)))
    BY CurrentIsItem DEF CacheNew, IInv, TypeOK, CachesStored, RowsOf
  <1>2. Current(b) \in rows'
    BY <1>1 DEF RowsOf
  <1>3. Returns(b) /\ pc'[b] \in {"check", "done"}
    BY <1>1, <1>2, ReturnsOne, ReturnsTo DEF CacheNew, IInv
  <1>4. /\ CacheNamesRow' /\ cache' \in [Keys -> Items \cup {NoItem}]
        /\ faults' \in 0 .. MaxFaults
    BY <1>1, SetCachedFits DEF CacheNew
  <1> QED
    BY <1>1, <1>3, <1>4 DEF CacheNew, Fits, Underway, IInv, TypeOK

LEMMA InsertFits ==
    ASSUME IInv, NEW b \in Requests, Insert(b)
    PROVE  Fits(b)
  <1> DEFINE key == DedupKey(Current(b))
  <1>1. Current(b) \in Items /\ Current(b) \notin rows /\ rows \subseteq Items
    BY CurrentIsItem DEF Insert, IInv, TypeOK, IdsAreNew
  <1>2. \/ rows' = rows
        \/ rows' = rows \cup {Current(b)} /\ RowsOf(key) = {}
    BY DEF Insert, Leaves
  <1>3. rows' \subseteq Items /\ rows \subseteq rows'
    BY <1>1, <1>2
  <1>4. CacheNamesRow' /\ cache' \in [Keys -> Items \cup {NoItem}]
    BY <1>3, SameCache DEF Insert, IInv
  <1>5. \/ Returns(b) /\ pc'[b] \in {"check", "done"}
        \/ GoesOn(b) /\ pc'[b] = "cache" /\ Current(b) \in rows'
    <2>1. CASE rows' = rows \cup {Current(b)} /\ Goto(b, "cache")
      BY <2>1, GoesOnTo DEF IInv
    <2>2. CASE rows' = rows \cup {Current(b)} /\ Return(b, "created", Current(b))
      BY <1>1, <1>3, <2>2, ReturnsOne, ReturnsTo DEF IInv
    <2>3. CASE RowsOf(key) # {} /\ Return(b, "duplicate", Current(b)) /\ rows' = rows
      <3>1. \E y \in rows' \ {Current(b)} : DedupKey(y) = key
        BY <1>1, <2>3 DEF RowsOf
      <3> QED
        BY <1>1, <1>3, <2>3, <3>1, ReturnsOne, ReturnsTo DEF IInv
    <2>4. CASE Return(b, "error", NoItem)
      BY <1>1, <1>3, <2>4, ReturnsOne, ReturnsTo DEF IInv
    <2> QED
      BY <2>1, <2>2, <2>3, <2>4 DEF Insert
  <1>6. faults' \in 0 .. MaxFaults
    BY FaultsBounded DEF Insert, IInv
  <1>7. Underway(b) /\ ctxDone' = ctxDone /\ found' = found
    BY DEF Insert, Underway
  <1> QED
    BY <1>2, <1>4, <1>5, <1>6, <1>7 DEF Fits, IInv, TypeOK

LEMMA BodyFits ==
    ASSUME IInv, NEW b \in Requests, Body(b)
    PROVE  Fits(b)
  BY RejectFits, GetCachedFits, FindFits, RecacheFits, InsertFits, CacheNewFits DEF Body

-----------------------------------------------------------------------------
(* The invariant.                                                          *)

\* What a step of b leaves as it was.
LEMMA StepIsLocal ==
    ASSUME IInv, NEW b \in Requests, Fits(b), NEW d \in Requests \ {b}
    PROVE  /\ pc'[d] = pc[d] /\ at'[d] = at[d] /\ found'[d] = found[d]
           /\ \A i \in DOMAIN Batch[d] :
                 /\ told'[<<d, i>>] = told[<<d, i>>]
                 /\ <<d, i>> \in rows' => <<d, i>> \in rows
  <1>1. pc'[d] = pc[d] /\ at'[d] = at[d]
    BY DEF Fits, GoesOn, Returns, Return, IInv, TypeOK
  <1>2. \A i \in DOMAIN Batch[d] : <<d, i>> \in Items /\ <<d, i>> # Current(b)
    BY ItemsArePairs DEF Current
  <1>3. \A i \in DOMAIN Batch[d] : told'[<<d, i>>] = told[<<d, i>>]
    BY <1>2 DEF Fits, GoesOn, Returns, Return, IInv, TypeOK
  <1>4. \A i \in DOMAIN Batch[d] : <<d, i>> \in rows' => <<d, i>> \in rows
    BY <1>2 DEF Fits
  <1> QED
    BY <1>1, <1>3, <1>4 DEF Fits

LEMMA OthersKeep ==
    ASSUME IInv, NEW b \in Requests, Fits(b), NEW d \in Requests \ {b}
    PROVE  IdsAreNew(d)' /\ InOrder(d)' /\ CachesStored(d)'
  <1>1. at[d] \in DOMAIN Batch[d]
    BY DEF IInv, TypeOK
  <1>2. Current(d)' = Current(d) /\ (Current(d) \in rows' => Current(d) \in rows)
    BY <1>1, StepIsLocal DEF Current
  <1>3. rows \subseteq rows'
    BY DEF Fits
  <1>4. IdsAreNew(d)'
    BY <1>2, StepIsLocal DEF IdsAreNew, IInv, Underway
  <1>5. InOrder(d)'
    BY StepIsLocal DEF InOrder, IInv, Underway
  <1>6. CachesStored(d)'
    BY <1>2, <1>3, StepIsLocal DEF CachesStored, IInv, RowsOf, DedupKey, Item
  <1> QED
    BY <1>4, <1>5, <1>6

LEMMA OwnKeeps ==
    ASSUME IInv, NEW b \in Requests, Fits(b)
    PROVE  IdsAreNew(b)' /\ InOrder(b)' /\ CachesStored(b)'
  <1>1. /\ at[b] \in 1 .. Len(Batch[b]) /\ DOMAIN Batch[b] = 1 .. Len(Batch[b])
        /\ Len(Batch[b]) \in Nat /\ Underway(b)
    BY CurrentIsItem, BatchIsSeq DEF IInv, Fits
  <1>2. \A i \in DOMAIN Batch[b] : i > at[b] => <<b, i>> \notin rows'
    <2> SUFFICES ASSUME NEW i \in DOMAIN Batch[b], i > at[b] PROVE <<b, i>> \notin rows'
      OBVIOUS
    <2>1. <<b, i>> \notin rows
      BY <1>1 DEF IInv, IdsAreNew
    <2>2. i # at[b]
      BY <1>1
    <2>3. <<b, i>> # Current(b)
      BY <2>2 DEF Current
    <2> QED
      BY <2>1, <2>3 DEF Fits
  <1>3. CASE GoesOn(b)
    <2>1. /\ at'[b] = at[b] /\ told' = told /\ Current(b)' = Current(b)
          /\ pc'[b] \in {"find", "recache", "insert", "cache"}
      BY <1>3 DEF GoesOn, Current, IInv, TypeOK
    <2>2. IdsAreNew(b)'
      BY <1>2, <2>1 DEF IdsAreNew, Fits
    <2>3. InOrder(b)'
      BY <1>1, <2>1 DEF InOrder, IInv
    <2>4. CachesStored(b)'
      BY <2>1 DEF CachesStored, Fits, RowsOf, DedupKey, Item
    <2> QED
      BY <2>2, <2>3, <2>4
  <1>4. CASE Returns(b)
    <2>1. \/ at[b] < Len(Batch[b]) /\ at'[b] = at[b] + 1 /\ pc'[b] = "check"
          \/ pc'[b] = "done"
      BY <1>4 DEF Returns, Return, IInv, TypeOK
    <2>2. \A i \in DOMAIN Batch[b] : i > at[b] => told'[<<b, i>>] = Nothing
      <3> SUFFICES ASSUME NEW i \in DOMAIN Batch[b], i > at[b]
                   PROVE  told'[<<b, i>>] = Nothing
        OBVIOUS
      <3>1. told[<<b, i>>] = Nothing /\ <<b, i>> \in Items /\ <<b, i>> # Current(b)
        BY <1>1, ItemsArePairs DEF IInv, InOrder, Current
      <3> QED
        BY <1>4, <3>1 DEF Returns, Return, IInv, TypeOK
    <2>3. IdsAreNew(b)'
      BY <1>1, <1>2, <2>1 DEF IdsAreNew, Current, Underway
    <2>4. InOrder(b)'
      BY <1>1, <2>1, <2>2 DEF InOrder, Underway
    <2>5. CachesStored(b)'
      BY <2>1 DEF CachesStored
    <2> QED
      BY <2>3, <2>4, <2>5
  <1> QED
    BY <1>3, <1>4 DEF Fits

LEMMA TypeKept ==
    ASSUME IInv, NEW b \in Requests, Fits(b)
    PROVE  TypeOK'
  <1>1. /\ Current(b) \in Items /\ at[b] \in 1 .. Len(Batch[b])
        /\ Len(Batch[b]) \in Nat /\ DOMAIN Batch[b] = 1 .. Len(Batch[b])
    BY CurrentIsItem, BatchIsSeq DEF IInv
  <1>2. rows' \subseteq Items
    BY <1>1 DEF Fits, IInv, TypeOK
  <1>3. pc' \in [Requests -> {"check", "find", "recache", "insert", "cache",
                              "done", "killed"}]
    BY DEF Fits, GoesOn, Returns, Return, IInv, TypeOK
  <1>4. at' \in [Requests -> Nat]
    <2>1. at' = at \/ at' = [at EXCEPT ![b] = @ + 1]
      BY DEF Fits, GoesOn, Returns, Return
    <2>2. at \in [Requests -> Nat] /\ at[b] + 1 \in Nat
      BY <1>1 DEF IInv, TypeOK
    <2> QED
      BY <2>1, <2>2
  <1>5. \A d \in Requests : at'[d] \in DOMAIN Batch[d]
    <2>1. at'[b] \in DOMAIN Batch[b]
      BY <1>1 DEF Fits, GoesOn, Returns, Return, IInv, TypeOK
    <2> QED
      BY <2>1, StepIsLocal DEF IInv, TypeOK
  <1>6. told' \in [Items -> Results]
    <2>1. \A r \in Results : [status |-> r.status, id |-> r.id] = r
      BY DEF Results, Nothing
    <2> QED
      BY <2>1 DEF Fits, GoesOn, Returns, Return, IInv, TypeOK
  <1> QED
    BY <1>2, <1>3, <1>4, <1>5, <1>6 DEF Fits, IInv, TypeOK

LEMMA EnvironmentKeeps ==
    ASSUME IInv,
           \/ \E b \in Requests : Cancel(b) \/ Kill(b)
           \/ \E k \in Keys : Forget(k)
           \/ UNCHANGED vars
    PROVE  IInv' /\ rows' = rows /\ told' = told
  <1>1. rows' = rows /\ at' = at /\ found' = found /\ told' = told
    BY DEF Cancel, Kill, Forget, vars
  <1>2. \A d \in Requests : pc'[d] = pc[d] \/ pc'[d] = "killed"
    BY DEF Cancel, Kill, Forget, vars, IInv, TypeOK
  <1>3. \A k \in Keys : cache'[k] = cache[k] \/ cache'[k] = NoItem
    BY DEF Cancel, Kill, Forget, vars, IInv, TypeOK
  <1>4. TypeOK'
    BY <1>1, BatchAssumption DEF Cancel, Kill, Forget, vars, IInv, TypeOK
  <1>5. CacheNamesRow'
    BY <1>1, <1>3 DEF CacheNamesRow, RowsOf, IInv
  <1>6. \A b \in Requests : IdsAreNew(b)' /\ InOrder(b)' /\ CachesStored(b)'
    BY <1>1, <1>2 DEF IInv, IdsAreNew, InOrder, CachesStored, Underway, Current, RowsOf,
                      DedupKey, Item
  <1> QED
    BY <1>1, <1>4, <1>5, <1>6 DEF IInv

LEMMA InitInv == Init => IInv
  <1> SUFFICES ASSUME Init PROVE IInv
    OBVIOUS
  <1>1. \A b \in Requests : 1 \in DOMAIN Batch[b]
    <2> SUFFICES ASSUME NEW b \in Requests PROVE 1 \in DOMAIN Batch[b]
      OBVIOUS
    <2>1. Len(Batch[b]) # 0
      BY BatchAssumption
    <2> QED
      BY <2>1, BatchIsSeq
  <1>2. TypeOK
    BY <1>1, BatchAssumption DEF Init, TypeOK, Results
  <1>3. CacheNamesRow
    BY DEF Init, CacheNamesRow
  <1>4. \A b \in Requests : IdsAreNew(b) /\ InOrder(b) /\ CachesStored(b)
    BY ItemsArePairs DEF Init, IdsAreNew, InOrder, CachesStored
  <1> QED
    BY <1>2, <1>3, <1>4 DEF IInv

LEMMA StepInv == IInv /\ [Next]_vars => IInv'
  <1> SUFFICES ASSUME IInv, [Next]_vars PROVE IInv'
    OBVIOUS
  <1>1. ASSUME NEW b \in Requests, Body(b) PROVE IInv'
    <2>1. Fits(b)
      BY <1>1, BodyFits
    <2>2. TypeOK' /\ CacheNamesRow'
      BY <2>1, TypeKept DEF Fits
    <2>3. \A d \in Requests : IdsAreNew(d)' /\ InOrder(d)' /\ CachesStored(d)'
      BY <2>1, OwnKeeps, OthersKeep
    <2> QED
      BY <2>2, <2>3 DEF IInv
  <1> QED
    BY <1>1, EnvironmentKeeps DEF Next

LEMMA Invariance == Spec => []IInv
  BY InitInv, StepInv, PTL DEF Spec

\* Every variable of Ingester has its type in every reachable state.
THEOREM IngesterTyped == Spec => []TypeOK
  <1>1. IInv => TypeOK
    BY DEF IInv
  <1> QED
    BY <1>1, Invariance, PTL

\* The Redis cache is never wrong: an entry dedup:key is the id of the row that
\* is stored with that key, whatever SETs are lost, late or forgotten.
THEOREM CacheIsRight == Spec => []CacheNamesRow
  <1>1. IInv => CacheNamesRow
    BY DEF IInv
  <1> QED
    BY <1>1, Invariance, PTL

-----------------------------------------------------------------------------
(* The refinement.                                                         *)

LEMMA InitRefines == Init => Promised!Init
  BY DEF Init, Promised!Init, Nothing

LEMMA BodyRefines ==
    ASSUME IInv, NEW b \in Requests, Fits(b), NEW x \in Items, x = Current(b)
    PROVE  Promised!Serve(x)
  <1> DEFINE status == [y \in Items |-> told[y].status]
  <1>1. x \in Items /\ at[b] \in DOMAIN Batch[b]
    BY CurrentIsItem, BatchIsSeq DEF IInv
  <1>2. status[x] = "nothing"
    BY <1>1 DEF IInv, InOrder, Fits, Current, Nothing, TypeOK
  <1>3. (Promised!Admissible(x) /\ rows' = rows \cup {x}) \/ rows' = rows
    BY <1>1 DEF Fits, Promised!Admissible, RowsOf, IInv, TypeOK
  <1>4. \/ \E s \in Promised!Truths(x, rows') :
              status' = [status EXCEPT ![x] = s]
        \/ status' = status
    <2>1. CASE told' = told
      BY <2>1
    <2>2. ASSUME NEW s \in Promised!Truths(x, rows'), NEW id,
                 told' = [told EXCEPT ![x] = [status |-> s, id |-> id]]
          PROVE  status' = [status EXCEPT ![x] = s]
      BY <1>1, <2>2 DEF IInv, TypeOK
    <2> QED
      BY <2>1, <2>2 DEF Fits, GoesOn, Returns, Return
  <1> QED
    BY <1>1, <1>2, <1>3, <1>4 DEF Promised!Serve

\* Ingest implements the store of DedupStore: for every key one item at most is
\* kept and told "created", and "duplicate" is only said of a stored record.
THEOREM IngesterImplements == Spec => Deduplicates
  <1>1. IInv /\ [Next]_vars
            => [Promised!Next]_<<rows, [x \in Items |-> told[x].status]>>
    <2> SUFFICES ASSUME IInv, [Next]_vars
                 PROVE  [Promised!Next]_<<rows, [x \in Items |-> told[x].status]>>
      OBVIOUS
    <2>1. ASSUME NEW b \in Requests, Body(b) PROVE Promised!Next
      <3>1. PICK x \in Items : x = Current(b)
        BY CurrentIsItem DEF IInv
      <3>2. Promised!Serve(x)
        BY <2>1, <3>1, BodyFits, BodyRefines
      <3> QED
        BY <3>2 DEF Promised!Next
    <2>2. CASE ~\E b \in Requests : Body(b)
      BY <2>2, EnvironmentKeeps DEF Next
    <2> QED
      BY <2>1, <2>2
  <1> QED
    BY <1>1, InitRefines, Invariance, PTL DEF Spec, Deduplicates, Promised!Spec

-----------------------------------------------------------------------------
(* Errors.                                                                 *)

Blameless(x) == Item(x).valid /\ Storable(x)
Unfailing == faults = 0 => ctxDone = {}

\* A step of a call is a fault or none.
LEMMA FaultsOfBody ==
    \A b \in Requests : Body(b) => faults' = faults \/ faults' = faults + 1
  BY DEF Body, Reject, GetCached, Find, Recache, Insert, CacheNew, SetCached, Answers,
     CallFails

\* A step that is not a fault, from a state without one, refuses a current item
\* only for a cause of its own.
LEMMA ErrorNeedsCause ==
    ASSUME IInv, Unfailing, NEW b \in Requests, Body(b), faults' = 0,
           Blameless(Current(b)), NEW id, Return(b, "error", id)
    PROVE  FALSE
  <1>1. faults = 0 /\ ctxDone = {} /\ ~CallFails(b)
    <2>1. faults \in Nat /\ (faults' = faults \/ faults' = faults + 1)
      BY BatchAssumption, FaultsOfBody DEF IInv, TypeOK
    <2>2. faults = 0
      BY <2>1
    <2> QED
      BY <2>2 DEF Unfailing, CallFails
  <1>2. told'[Current(b)].status = "error"
    BY CurrentIsItem DEF Return, IInv, TypeOK
  <1>3. \A s, i : Return(b, s, i) => s = "error"
    BY <1>2, CurrentIsItem DEF Return, IInv, TypeOK
  <1>4. \A l : ~Goto(b, l)
    <2>1. told[Current(b)].status = "nothing"
      BY <1>1, CurrentIsItem, BodyFits, BatchIsSeq DEF IInv, InOrder, Fits, Current, Nothing
    <2> QED
      BY <1>2, <2>1 DEF Goto
  <1>5. ~Reject(b) /\ ~Recache(b) /\ ~CacheNew(b)
    BY <1>3 DEF Blameless, Reject, Recache, CacheNew
  <1>6. ~GetCached(b) /\ ~Find(b)
    BY <1>1, <1>3, <1>4 DEF GetCached, Find
  <1>7. ~Insert(b)
    BY <1>1, <1>3, <1>4 DEF Insert, Blameless
  <1> QED
    BY <1>5, <1>6, <1>7 DEF Body

LEMMA CausesKept ==
    ASSUME IInv, Unfailing, ErrorsHaveCause, [Next]_vars
    PROVE  Unfailing' /\ ErrorsHaveCause'
  <1>1. faults \in Nat /\ (faults' = faults \/ faults' = faults + 1)
    <2>1. \A b \in Requests : Body(b) => faults' = faults \/ faults' = faults + 1
      BY FaultsOfBody
    <2>2. \A b \in Requests : Cancel(b) \/ Kill(b) => faults' = faults + 1
      BY DEF Cancel, Kill
    <2>3. \A k \in Keys : Forget(k) => faults' = faults
      BY DEF Forget
    <2>4. faults \in Nat
      BY BatchAssumption DEF IInv, TypeOK
    <2> QED
      BY <2>1, <2>2, <2>3, <2>4 DEF Next, vars
  <1>2. CASE faults' # 0
    BY <1>2 DEF Unfailing, ErrorsHaveCause
  <1>3. CASE faults' = 0
    <2>1. faults = 0 /\ ctxDone = {}
      BY <1>1, <1>3 DEF Unfailing
    <2>2. ASSUME NEW b \in Requests, Body(b) PROVE Unfailing' /\ ErrorsHaveCause'
      <3>1. Unfailing' /\ Current(b) \in Items
        BY <2>1, <2>2, BodyFits, CurrentIsItem DEF Unfailing, Fits, IInv
      <3>2. ASSUME NEW x \in Items, told'[x].status = "error" PROVE ~Blameless(x)
        <4>1. CASE x # Current(b)
          BY <2>1, <3>1, <3>2, <4>1, <2>2, BodyFits DEF Fits, GoesOn, Returns, Return, IInv,
             TypeOK, ErrorsHaveCause, Blameless
        <4>2. CASE x = Current(b) /\ GoesOn(b)
          BY <2>1, <3>2, <4>2 DEF GoesOn, ErrorsHaveCause, Blameless
        <4>3. CASE x = Current(b) /\ Returns(b)
          <5>1. PICK r \in Results : Return(b, r.status, r.id)
            BY <4>3 DEF Returns
          <5>2. r.status = "error"
            BY <3>1, <3>2, <4>3, <5>1 DEF Return, IInv, TypeOK
          <5> QED
            BY <1>3, <2>2, <4>3, <5>1, <5>2, ErrorNeedsCause
        <4> QED
          BY <2>2, <4>1, <4>2, <4>3, BodyFits DEF Fits
      <3> QED
        BY <3>1, <3>2 DEF ErrorsHaveCause, Blameless, Item
    <2>3. ASSUME \/ \E b \in Requests : Cancel(b) \/ Kill(b)
                 \/ \E k \in Keys : Forget(k)
                 \/ UNCHANGED vars
          PROVE  Unfailing' /\ ErrorsHaveCause'
      <3>1. told' = told
        BY <2>3, EnvironmentKeeps
      <3>2. ctxDone' = ctxDone
        BY <1>1, <1>3, <2>3 DEF Cancel, Kill, Forget, vars
      <3> QED
        BY <2>1, <3>1, <3>2 DEF Unfailing, ErrorsHaveCause, Item
    <2> QED
      BY <2>2, <2>3 DEF Next
  <1> QED
    BY <1>2, <1>3

\* While nothing fails, Ingest refuses only what validate refuses and what the
\* table does not take: the losers of races are told "duplicate", and what is
\* refused of a batch does not hold up the rest.
THEOREM ErrorsAreCaused == Spec => []ErrorsHaveCause
  <1>1. Init => Unfailing /\ ErrorsHaveCause
    BY DEF Init, Unfailing, ErrorsHaveCause, Nothing
  <1>2. IInv /\ Unfailing /\ ErrorsHaveCause /\ [Next]_vars
            => Unfailing' /\ ErrorsHaveCause'
    BY CausesKept
  <1> QED
    BY <1>1, <1>2, Invariance, PTL DEF Spec
=============================================================================
