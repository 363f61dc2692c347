--------------------------- MODULE AdaptersProofs ---------------------------
(***************************************************************************)
(* Proofs about the adapters in use.  What PayPalProofs establishes of the *)
(* PayPal adapter, and BankFileProofs of the bank files, holds of them     *)
(* among the others, since every step of the whole is one of their own or  *)
(* leaves their variables alone.  The Stripe adapter has its invariant     *)
(* here.                                                                   *)
(***************************************************************************)
EXTENDS Adapters, FiniteSetTheorems, SequenceTheorems, WellFoundedInduction, TLAPS

PP == INSTANCE PayPalProofs WITH PageSize <- PayPalPage
BF == INSTANCE BankFileProofs

-----------------------------------------------------------------------------
(* Sets of numbers.                                                        *)

\* A finite set of numbers has a greatest element: the set of those above it is
\* smallest.
LEMMA Greatest ==
    ASSUME NEW S \in SUBSET Int, S # {}, IsFiniteSet(S)
    PROVE  \E m \in S : \A k \in S : k <= m
<1> DEFINE Above(k) == {y \in S : k < y}
           T == {Above(k) : k \in S}
<1>1. IsWellFoundedOn(StrictSubsetOrdering(S), SUBSET S)
  BY FS_StrictSubsetOrderingWellFounded, FS_FiniteSubsetsOfFinite
<1>2. T \subseteq SUBSET S /\ T # {}
  OBVIOUS
<1>3. \A m, k \in S : m < k => <<Above(k), Above(m)>> \in StrictSubsetOrdering(S)
  <2> SUFFICES ASSUME NEW m \in S, NEW k \in S, m < k
               PROVE  <<Above(k), Above(m)>> \in StrictSubsetOrdering(S)
    OBVIOUS
  <2>1. m \in Int /\ k \in Int /\ \A y \in S : y \in Int
    OBVIOUS
  <2>2. k \in Above(m) /\ k \notin Above(k) /\ Above(k) \subseteq Above(m)
    <3>1. \A y \in Int : k < y => m < y
      BY <2>1
    <3>2. ~(k < k)
      BY <2>1
    <3> HIDE DEF T
    <3>3. QED
      BY <2>1, <3>1, <3>2, Zenon
  <2>3. QED
    BY <2>2 DEF StrictSubsetOrdering
<1>4. PICK A \in T : \A B \in T : ~(<<B, A>> \in StrictSubsetOrdering(S))
  <2> HIDE DEF T
  <2>1. QED
    BY <1>1, <1>2, WFMin
<1>5. PICK m \in S : A = Above(m)
  OBVIOUS
<1>6. \A k \in S : Above(k) \in T
  OBVIOUS
<1>7. \A k \in S : ~(m < k)
  <2> HIDE DEF Above, T
  <2>1. QED
    BY <1>3, <1>4, <1>5, <1>6
<1>8. QED
  BY <1>7

LEMMA Least ==
    ASSUME NEW S \in SUBSET Int, S # {}, IsFiniteSet(S)
    PROVE  \E m \in S : \A k \in S : m <= k
<1> DEFINE N == {-k : k \in S}
           f == [k \in S |-> -k]
<1>1. f \in Surjection(S, N)
  BY DEF Surjection
<1>2. IsFiniteSet(N)
  BY <1>1, FS_Surjection
<1>3. N \in SUBSET Int /\ N # {}
  OBVIOUS
<1>4. PICK m \in N : \A k \in N : k <= m
  <2> HIDE DEF N
  <2>1. QED
    BY <1>2, <1>3, Greatest
<1>5. PICK x \in S : m = -x
  OBVIOUS
<1>6. ASSUME NEW k \in S PROVE x <= k
  <2>1. -k \in N
    OBVIOUS
  <2>2. -k <= -x
    BY <2>1, <1>4, <1>5
  <2>3. QED
    BY <2>2
<1>7. QED
  BY <1>6

-----------------------------------------------------------------------------
(* The PayPal adapter.                                                     *)

LEMMA PayPalAssumed == PP!PayPalAssumption
<1>1. PayPal!PayPalAssumption
  BY AdaptersAssumption
<1>2. QED
  BY <1>1 DEF PayPal!PayPalAssumption, PP!PayPalAssumption,
              PayPal!IsFiniteSet, PP!IsFiniteSet

LEMMA PayPalStarts == Init => PP!Init
  BY DEF Init, PayPal!Init, PP!Init

\* The two instances of PayPal have the same actions.
LEMMA PayPalBodies ==
  ASSUME NEW f \in Fetches, PayPal!Body(f)
  PROVE  PP!Body(f)
  BY DEF PayPal!Body, PP!Body,
         PayPal!UseCached, PP!UseCached, PayPal!RequestToken, PP!RequestToken,
         PayPal!TokenIssued, PP!TokenIssued, PayPal!ExchangeFails, PP!ExchangeFails,
         PayPal!Send, PP!Send, PayPal!PageArrives, PP!PageArrives,
         PayPal!Unauthorized, PP!Unauthorized, PayPal!ClearToken, PP!ClearToken,
         PayPal!Transient, PP!Transient, PayPal!Refused, PP!Refused,
         PayPal!Goto, PP!Goto, PayPal!Fail, PP!Fail, PayPal!Fault, PP!Fault,
         PayPal!Continue, PP!Continue, PayPal!ReadPage, PP!ReadPage,
         PayPal!NextWindow, PP!NextWindow, PayPal!Authenticated, PP!Authenticated,
         PayPal!Accepted, PP!Accepted, PayPal!Windows, PP!Windows,
         PayPal!Start, PP!Start, PayPal!End, PP!End, PayPal!Listed, PP!Listed,
         PayPal!Details, PP!Details, PayPal!TotalPages, PP!TotalPages,
         PayPal!token, PP!token, PayPal!place, PP!place,
         PayPal!Cardinality, PP!Cardinality

LEMMA PayPalTokens ==
  ASSUME PayPal!Expire \/ PayPal!Lapse
  PROVE  PP!Expire \/ PP!Lapse
  BY DEF PayPal!Expire, PP!Expire, PayPal!Lapse, PP!Lapse,
         PayPal!place, PP!place, PayPal!Cardinality, PP!Cardinality

LEMMA PayPalSteps == [Next]_vars => [PP!Next]_(PP!vars)
<1> SUFFICES ASSUME [Next]_vars PROVE [PP!Next]_(PP!vars)
  OBVIOUS
<1>1. CASE \E f \in Fetches : PayPalStep(f)
  <2>1. PICK f \in Fetches : PayPal!Body(f)
    BY <1>1 DEF PayPalStep
  <2>2. PP!Body(f)
    BY <2>1, PayPalBodies
  <2>3. QED
    BY <2>2 DEF PP!Next
<1>2. CASE Tokens
  <2>1. PP!Expire \/ PP!Lapse
    BY <1>2, PayPalTokens DEF Tokens
  <2>2. QED
    BY <2>1 DEF PP!Next
<1>3. CASE StripeStep \/ Arrivals \/ BankStep \/ UNCHANGED vars
  <2>1. UNCHANGED paypalVars
    BY <1>3 DEF StripeStep, Arrivals, BankStep, vars
  <2>2. QED
    BY <2>1 DEF paypalVars, PP!vars
<1>4. QED
  BY <1>1, <1>2, <1>3 DEF Next

LEMMA PayPalRuns == Spec => PP!Spec
  BY PayPalStarts, PayPalSteps, PTL DEF Spec, PP!Spec

\* Every variable of the PayPal adapter keeps its type, and at most one fetch
\* is at an exchange of the token: authenticate holds the mutex all along.
THEOREM Typing == Spec => []TypeOK
<1>1. PP!Spec => []PP!TypeOK
  BY PayPalAssumed, PP!PayPalTyped
<1>2. PP!TypeOK => TypeOK
  BY DEF TypeOK, PP!TypeOK, PayPal!TypeOK
<1>3. QED
  BY <1>1, <1>2, PayPalRuns, PTL

\* While no HTTP call fails, a fetch fails only when the token it had refreshed
\* was taken from it: fetchPage's single refresh is enough for a fetch alone.
THEOREM FailuresAreCaused == Spec => []FailureHasCause
<1>1. PP!Spec => []PP!FailureHasCause
  BY PayPalAssumed, PP!FailuresAreCaused
<1>2. PP!FailureHasCause => FailureHasCause
  BY DEF FailureHasCause, PP!FailureHasCause, PayPal!FailureHasCause
<1>3. QED
  BY <1>1, <1>2, PayPalRuns, PTL

\* A fetch that succeeds returns every transaction of its period and no other,
\* one on the boundary of two windows twice (fetchWindow, splitDateRange).
THEOREM FetchesAreExact == Spec => []FetchIsExact
<1>1. PP!Spec => []PP!FetchIsExact
  BY PayPalAssumed, PP!FetchesAreExact
<1>2. PP!FetchIsExact => FetchIsExact
  BY DEF FetchIsExact, PP!FetchIsExact, PayPal!FetchIsExact
<1>3. QED
  BY <1>1, <1>2, PayPalRuns, PTL

\* A token is asked for only when the cache holds no valid one: the fetches that
\* wait for the mutex in authenticate use what the first of them obtained.
THEOREM ExchangesAreNeeded == Spec => OneExchangePerNeed
<1>1. PP!Spec => PP!OneExchangePerNeed
  BY PayPalAssumed, PP!ExchangesAreNeeded
<1>2. PP!OneExchangePerNeed => OneExchangePerNeed
  BY PTL DEF OneExchangePerNeed, PP!OneExchangePerNeed, PayPal!OneExchangePerNeed,
             PayPal!vars, PP!vars
<1>3. QED
  BY <1>1, <1>2, PayPalRuns, PTL

-----------------------------------------------------------------------------
(* The Stripe adapter.                                                     *)

Union(ps) == UNION {ps[i] : i \in DOMAIN ps}
Disjoint(ps) == \A i, j \in DOMAIN ps : i # j => ps[i] \cap ps[j] = {}
Got == Union(pages)

\* The transactions read so far are those from the cursor up, of the list as it
\* stood at one moment.
ReadDownTo ==
    IF cursor = 0 THEN pages = <<>>
    ELSE \E s \in had .. newest :
            /\ cursor \in Period \cap (1 .. s)
            /\ Got = {k \in Period \cap (1 .. s) : cursor <= k}

SInv ==
    /\ newest \in 0 .. MaxNewest /\ had \in 0 .. newest /\ cursor \in 0 .. MaxNewest
    /\ pages \in Seq(SUBSET (1 .. MaxNewest))
    /\ Disjoint(pages)
    /\ stripePC = "fetch" => ReadDownTo
    /\ stripePC = "done" => \E s \in had .. newest : Got = Period \cap (1 .. s)

LEMMA StripeAssumed ==
    /\ Period \subseteq 1 .. MaxNewest /\ StripePage \in Nat \ {0}
    /\ MaxNewest \in Nat
  BY AdaptersAssumption DEF Stripe!StripeAssumption

LEMMA StripeCardinality == \A S : Stripe!Cardinality(S) = Cardinality(S)
  BY DEF Stripe!Cardinality, Cardinality

\* A page is the head of what lies after the cursor, and empty only when
\* nothing does.
LEMMA DataIsHead ==
    ASSUME newest \in 0 .. MaxNewest, NEW c \in 0 .. MaxNewest
    PROVE  /\ Stripe!Data(c) \subseteq Stripe!After(c)
           /\ Stripe!After(c) \in SUBSET Int /\ IsFiniteSet(Stripe!After(c))
           /\ \A k \in Stripe!Data(c) : \A m \in Stripe!After(c) :
                 k <= m => m \in Stripe!Data(c)
           /\ Stripe!After(c) # {} => Stripe!Data(c) # {}
<1> DEFINE After == Stripe!After(c)
           Higher(k) == {m \in After : m > k}
<1>1. After \in SUBSET (1 .. newest) /\ newest \in Int
  BY DEF Stripe!After, Stripe!Created
<1>2. IsFiniteSet(After)
  BY <1>1, FS_Interval, FS_Subset
<1>3. Stripe!Data(c) = {k \in After : Cardinality(Higher(k)) < StripePage}
  BY StripeCardinality DEF Stripe!Data
<1>4. After \in SUBSET Int /\ \A y \in After : y \in Int
  BY <1>1
<1> HIDE DEF After
<1>5. \A k \in After : IsFiniteSet(Higher(k)) /\ Cardinality(Higher(k)) \in Nat
  BY <1>2, FS_Subset, FS_CardinalityType
<1>6. ASSUME NEW k \in Stripe!Data(c), NEW m \in After, k <= m
      PROVE  m \in Stripe!Data(c)
  <2>1. k \in After /\ m \in Int /\ k \in Int
    BY <1>3, <1>4
  <2>2. Higher(m) \subseteq Higher(k)
    <3>1. \A y \in Int : y > m => y > k
      BY <1>6, <2>1
    <3>2. QED
      BY <1>4, <3>1, Zenon
  <2>3. Cardinality(Higher(m)) <= Cardinality(Higher(k))
    <3> HIDE DEF Higher
    <3>1. QED
      BY <1>5, <2>1, <2>2, FS_Subset
  <2>4. Cardinality(Higher(m)) < StripePage
    <3>1. Cardinality(Higher(k)) < StripePage
      BY <1>3
    <3>2. Cardinality(Higher(k)) \in Nat /\ Cardinality(Higher(m)) \in Nat
      BY <1>5, <2>1
    <3> HIDE DEF Higher
    <3>3. QED
      BY <2>3, <3>1, <3>2, StripeAssumed
  <2>5. QED
    BY <1>3, <2>4
<1>7. ASSUME After # {} PROVE Stripe!Data(c) # {}
  <2>1. PICK m \in After : \A k \in After : k <= m
    BY <1>2, <1>4, <1>7, Greatest
  <2>2. Higher(m) = {}
    <3>1. \A k \in After : ~(k > m)
      BY <1>4, <2>1
    <3>2. QED
      BY <3>1
  <2>3. Cardinality(Higher(m)) = 0
    BY <2>2, FS_EmptySet
  <2>4. m \in Stripe!Data(c)
    BY <1>3, <2>3, StripeAssumed
  <2>5. QED
    BY <2>4
<1>8. Stripe!Data(c) \subseteq After
  BY <1>3
<1>9. QED
  BY <1>2, <1>4, <1>6, <1>7, <1>8 DEF After

LEMMA LastOfIsLeast ==
    ASSUME NEW S \in SUBSET Int, S # {}, IsFiniteSet(S)
    PROVE  Stripe!LastOf(S) \in S /\ \A m \in S : Stripe!LastOf(S) <= m
  BY Least DEF Stripe!LastOf

LEMMA Appended ==
    ASSUME NEW R, NEW ps \in Seq(SUBSET R), NEW D \in SUBSET R,
           Disjoint(ps), Union(ps) \cap D = {}
    PROVE  /\ Append(ps, D) \in Seq(SUBSET R) /\ Disjoint(Append(ps, D))
           /\ \A k : k \in Union(Append(ps, D)) <=> k \in Union(ps) \/ k \in D
<1> DEFINE qs == Append(ps, D)
           l == Len(ps) + 1
<1>1. /\ qs \in Seq(SUBSET R) /\ Len(qs) = l /\ qs[l] = D
      /\ \A i \in 1 .. Len(ps) : qs[i] = ps[i]
  BY AppendProperties
<1>2. Len(ps) \in Nat /\ DOMAIN ps = 1 .. Len(ps) /\ DOMAIN qs = 1 .. l
  BY <1>1, LenProperties
<1> HIDE DEF qs
<1>3. DOMAIN qs = DOMAIN ps \cup {l} /\ l \notin DOMAIN ps
  BY <1>2
<1>4. \A i \in DOMAIN ps : qs[i] = ps[i]
  BY <1>1, <1>2
<1> HIDE DEF l
<1>5. \A i \in DOMAIN ps : ps[i] \cap D = {}
  BY DEF Union
<1>6. Disjoint(qs)
  <2> SUFFICES ASSUME NEW i \in DOMAIN qs, NEW j \in DOMAIN qs, i # j
               PROVE  qs[i] \cap qs[j] = {}
    BY DEF Disjoint
  <2>1. CASE i = l
    BY <2>1, <1>1, <1>3, <1>4, <1>5
  <2>2. CASE j = l
    BY <2>2, <1>1, <1>3, <1>4, <1>5
  <2>3. CASE i \in DOMAIN ps /\ j \in DOMAIN ps
    BY <2>3, <1>4 DEF Disjoint
  <2>4. QED
    BY <2>1, <2>2, <2>3, <1>3
<1>7. Union(qs) = Union(ps) \cup D
  BY <1>1, <1>3, <1>4 DEF Union
<1>8. QED
  BY <1>1, <1>6, <1>7 DEF qs

LEMMA PageAppended ==
    ASSUME pages \in Seq(SUBSET (1 .. MaxNewest)), Disjoint(pages),
           NEW E \in SUBSET (1 .. MaxNewest), Union(pages) \cap E = {},
           pages' = Append(pages, E)
    PROVE  /\ pages' \in Seq(SUBSET (1 .. MaxNewest)) /\ Disjoint(pages')
           /\ Got' = Got \cup E
<1>1. Append(pages, E) \in Seq(SUBSET (1 .. MaxNewest))
  BY Appended
<1>2. Disjoint(Append(pages, E))
  BY Appended
<1>3. \A k : k \in Union(Append(pages, E)) <=> k \in Union(pages) \/ k \in E
  BY Appended
<1>4. QED
  BY <1>1, <1>2, <1>3 DEF Got

\* What is left to read is what the list held at some moment, less what was
\* read, and older than all of that.
LEMMA RestIsOlder ==
    ASSUME SInv, stripePC = "fetch"
    PROVE  \E s \in had .. newest :
              /\ Stripe!After(cursor) = (Period \cap (1 .. s)) \ Got
              /\ Got \subseteq Period \cap (1 .. s)
              /\ \A k \in Stripe!After(cursor), g \in Got : k < g
<1>1. CASE cursor = 0
  <2>1. Got = {} /\ newest \in had .. newest
    BY <1>1 DEF SInv, ReadDownTo, Got, Union
  <2>2. Stripe!After(cursor) = Period \cap (1 .. newest)
    BY <1>1 DEF Stripe!After, Stripe!Created
  <2>3. QED
    BY <2>1, <2>2
<1>2. CASE cursor # 0
  <2>1. PICK s \in had .. newest : /\ cursor \in Period \cap (1 .. s)
                                   /\ Got = {k \in Period \cap (1 .. s) : cursor <= k}
    BY <1>2 DEF SInv, ReadDownTo
  <2>2. had \in Int /\ newest \in Int /\ s \in Int /\ s <= newest /\ cursor \in Int
    BY DEF SInv
  <2>3. Stripe!After(cursor) = {k \in Period \cap (1 .. newest) : k < cursor}
    BY <1>2 DEF Stripe!After, Stripe!Created
  <2>4. \A k \in 1 .. newest : k < cursor <=> k \in 1 .. s /\ ~(cursor <= k)
    BY <2>1, <2>2
  <2>5. 1 .. s \subseteq 1 .. newest
    BY <2>2
  <2>6. Stripe!After(cursor) = (Period \cap (1 .. s)) \ Got
    BY <2>1, <2>3, <2>4, <2>5, Zenon
  <2>7. \A k \in Stripe!After(cursor), g \in Got : k < g
    BY <2>1, <2>2, <2>3
  <2>8. QED
    BY <2>1, <2>6, <2>7
<1>3. QED
  BY <1>1, <1>2

LEMMA StripePageKeeps ==
    ASSUME SInv, Stripe!PageArrives
    PROVE  SInv'
<1> DEFINE D == Stripe!Data(cursor)
           A == Stripe!After(cursor)
<1>1. PICK s \in had .. newest : /\ A = (Period \cap (1 .. s)) \ Got
                                 /\ Got \subseteq Period \cap (1 .. s)
                                 /\ \A k \in A, g \in Got : k < g
  BY RestIsOlder DEF Stripe!PageArrives
<1>2. /\ newest \in 0 .. MaxNewest /\ cursor \in 0 .. MaxNewest
      /\ had \in 0 .. newest /\ MaxNewest \in Nat
      /\ newest' = newest /\ had' = had /\ s \in Int /\ s <= MaxNewest
  BY StripeAssumed DEF SInv, Stripe!PageArrives
<1>3. /\ D \subseteq A /\ A \in SUBSET Int /\ IsFiniteSet(A)
      /\ \A k \in D, m \in A : k <= m => m \in D
      /\ A # {} => D # {}
  BY <1>2, DataIsHead
<1>4. A \subseteq 1 .. MaxNewest
  <2>1. 1 .. s \subseteq 1 .. MaxNewest
    BY <1>2
  <2>2. QED
    BY <1>1, <2>1
<1>5. pages' \in Seq(SUBSET (1 .. MaxNewest)) /\ Disjoint(pages') /\ Got' = Got \cup D
  <2>1. pages \in Seq(SUBSET (1 .. MaxNewest)) /\ Disjoint(pages)
    BY DEF SInv
  <2>2. D \in SUBSET (1 .. MaxNewest) /\ Union(pages) \cap D = {}
    BY <1>1, <1>3, <1>4 DEF Got
  <2>3. pages' = Append(pages, D)
    BY DEF Stripe!PageArrives
  <2> HIDE DEF D, A
  <2>4. QED
    BY <2>1, <2>2, <2>3, PageAppended
<1>6. CASE /\ Stripe!HasMore(cursor) /\ D # {}
           /\ cursor' = Stripe!LastOf(D) /\ UNCHANGED stripePC
  <2> DEFINE c == Stripe!LastOf(D)
  <2>1. c \in D /\ \A m \in D : c <= m
    <3>1. D \in SUBSET Int /\ IsFiniteSet(D)
      BY <1>3, FS_Subset
    <3> HIDE DEF D
    <3>2. QED
      BY <1>6, <3>1, LastOfIsLeast
  <2> HIDE DEF c, D, A
  <2>2. cursor' = c /\ c \in 1 .. MaxNewest /\ c \in Period \cap (1 .. s)
    BY <1>1, <1>3, <1>4, <1>6, <2>1 DEF c
  <2>3. Got' = {k \in Period \cap (1 .. s) : c <= k}
    <3>1. ASSUME NEW k \in Got' PROVE k \in Period \cap (1 .. s) /\ c <= k
      <4>1. CASE k \in D
        BY <4>1, <1>1, <1>3, <2>1
      <4>2. CASE k \in Got
        <5>1. c < k /\ c \in Int /\ k \in Int
          BY <4>2, <1>1, <1>3, <2>1
        <5>2. QED
          BY <4>2, <5>1, <1>1
      <4>3. QED
        BY <3>1, <4>1, <4>2, <1>5
    <3>2. ASSUME NEW k \in Period \cap (1 .. s), c <= k PROVE k \in Got'
      BY <3>2, <1>1, <1>3, <1>5, <2>1
    <3>3. QED
      BY <3>1, <3>2
  <2>4. ReadDownTo'
    <3>1. cursor' # 0
      BY <2>2
    <3>2. s \in (had .. newest)'
      BY <1>2
    <3>3. QED
      BY <2>2, <2>3, <3>1, <3>2 DEF ReadDownTo
  <2>5. stripePC' = "fetch" /\ cursor' \in 0 .. MaxNewest
    BY <1>6, <2>2 DEF Stripe!PageArrives
  <2>6. QED
    BY <1>2, <1>5, <2>4, <2>5 DEF SInv
<1>7. CASE ~(Stripe!HasMore(cursor) /\ D # {}) /\ stripePC' = "done" /\ UNCHANGED cursor
  <2>1. D = A
    BY <1>3, <1>7 DEF Stripe!HasMore
  <2> HIDE DEF D, A
  <2>2. Got' = Period \cap (1 .. s)
    BY <1>1, <1>5, <2>1
  <2>3. s \in (had .. newest)'
    BY <1>2
  <2>4. QED
    BY <1>2, <1>5, <1>7, <2>2, <2>3 DEF SInv
<1>8. QED
  BY <1>6, <1>7 DEF Stripe!PageArrives

\* Failed calls and arrivals leave what was read.
LEMMA StripeWaitKeeps ==
    ASSUME SInv, UNCHANGED <<cursor, pages, had>>, stripePC' \in {stripePC, "failed"},
           newest' \in {newest, newest + 1}, newest' <= MaxNewest
    PROVE  SInv'
<1>1. newest \in Int /\ MaxNewest \in Nat /\ had \in Int /\ had <= newest /\ 0 <= had
  BY StripeAssumed DEF SInv
<1>2. had .. newest \subseteq (had .. newest)' /\ Got' = Got
  BY <1>1 DEF Got
<1>3. newest' \in 0 .. MaxNewest /\ had' \in 0 .. newest'
  BY <1>1
<1>4. ReadDownTo => ReadDownTo'
  BY <1>2 DEF ReadDownTo
<1>5. /\ cursor' \in 0 .. MaxNewest /\ pages' \in Seq(SUBSET (1 .. MaxNewest))
      /\ Disjoint(pages')
  BY DEF SInv
<1>6. stripePC' = "fetch" => stripePC = "fetch"
  OBVIOUS
<1>7. stripePC' = "done" => stripePC = "done"
  OBVIOUS
<1>8. stripePC' = "fetch" => ReadDownTo'
  BY <1>4, <1>6 DEF SInv
<1>9. stripePC' = "done" => \E s \in (had .. newest)' : Got' = Period \cap (1 .. s)
  BY <1>2, <1>7 DEF SInv
<1>10. QED
  BY <1>3, <1>5, <1>8, <1>9 DEF SInv

LEMMA StripeSteps == SInv /\ [Next]_vars => SInv'
<1> SUFFICES ASSUME SInv, [Next]_vars PROVE SInv'
  OBVIOUS
<1>1. newest \in Int /\ newest <= MaxNewest /\ MaxNewest \in Nat
  BY StripeAssumed DEF SInv
<1>2. CASE StripeStep
  <2>1. CASE Stripe!PageArrives
    BY <2>1, StripePageKeeps
  <2>2. CASE Stripe!Transient \/ Stripe!Refused
    <3>1. /\ UNCHANGED <<cursor, pages, had, newest>>
          /\ stripePC' \in {stripePC, "failed"}
      BY <2>2 DEF Stripe!Transient, Stripe!Refused
    <3>2. QED
      BY <1>1, <3>1, StripeWaitKeeps
  <2>3. QED
    BY <1>2, <2>1, <2>2 DEF StripeStep, Stripe!Body
<1>3. CASE Arrivals
  <2>1. /\ UNCHANGED <<cursor, pages, had, stripePC>>
        /\ newest' = newest + 1 /\ newest < MaxNewest
    BY <1>3 DEF Arrivals, Stripe!Arrive
  <2>2. newest' <= MaxNewest
    BY <1>1, <2>1
  <2>3. QED
    BY <2>1, <2>2, StripeWaitKeeps
<1>4. CASE (\E f \in Fetches : PayPalStep(f)) \/ Tokens \/ BankStep \/ UNCHANGED vars
  <2>1. UNCHANGED stripeVars
    BY <1>4 DEF PayPalStep, Tokens, BankStep, vars
  <2>2. UNCHANGED <<cursor, pages, had, stripePC, newest>>
    BY <2>1 DEF stripeVars
  <2>3. QED
    BY <1>1, <2>2, StripeWaitKeeps
<1>5. QED
  BY <1>2, <1>3, <1>4 DEF Next

\* A Stripe fetch that succeeds is the list as it stood at one moment of the
\* fetch, each transaction once, although the list grows while its pages are
\* read with a cursor and pages are asked for again (fetchPage).
THEOREM SnapshotsHold == Spec => []FetchIsSnapshot
<1>1. Init => SInv
  BY StripeAssumed, EmptySeq DEF Init, Stripe!Init, SInv, ReadDownTo, Disjoint
<1>2. SInv => FetchIsSnapshot
  BY DEF SInv, FetchIsSnapshot, Stripe!FetchIsSnapshot, Got, Union, Disjoint
<1>3. QED
  BY <1>1, <1>2, StripeSteps, PTL DEF Spec

-----------------------------------------------------------------------------
(* The bank files.                                                         *)

\* The two instances of BankFile have the same actions.
LEMMA BankSteps == [Next]_vars => [BF!Next]_(BF!vars)
<1> SUFFICES ASSUME [Next]_vars PROVE [BF!Next]_(BF!vars)
  OBVIOUS
<1>1. CASE BankStep
  <2>1. BankFile!Next
    BY <1>1 DEF BankStep
  <2>2. CASE BankFile!ReadLine
    <3>1. BF!ReadLine
      BY <2>2 DEF BankFile!ReadLine, BF!ReadLine,
         BankFile!OpeningBalance, BF!OpeningBalance, BankFile!Entry, BF!Entry,
         BankFile!RefusedEntry, BF!RefusedEntry, BankFile!Details, BF!Details,
         BankFile!OtherField, BF!OtherField, BankFile!Continuation, BF!Continuation,
         BankFile!EndOfBlock, BF!EndOfBlock, BankFile!Reads, BF!Reads,
         BankFile!Flushed, BF!Flushed, BankFile!Kept86, BF!Kept86, BankFile!Tx, BF!Tx,
         BankFile!n, BF!n, BankFile!InBlock, BF!InBlock, BankFile!block, BF!block
    <3>2. QED
      BY <3>1 DEF BF!Next
  <2>3. CASE \E k \in {"61", "61bad"} : BankFile!CamtEntry(k)
    <3>1. \E k \in {"61", "61bad"} : BF!CamtEntry(k)
      BY <2>3 DEF BankFile!CamtEntry, BF!CamtEntry, BankFile!Tx, BF!Tx, BankFile!n, BF!n,
         BankFile!block, BF!block
    <3>2. QED
      BY <3>1 DEF BF!Next
  <2>4. CASE BankFile!Finish
    <3>1. BF!Finish
      BY <2>4 DEF BankFile!Finish, BF!Finish, BankFile!block, BF!block
    <3>2. QED
      BY <3>1 DEF BF!Next
  <2>5. QED
    BY <2>1, <2>2, <2>3, <2>4 DEF BankFile!Next
<1>2. CASE \/ \E f \in Fetches : PayPalStep(f)
           \/ Tokens \/ StripeStep \/ Arrivals \/ UNCHANGED vars
  <2>1. UNCHANGED bankVars
    BY <1>2 DEF PayPalStep, Tokens, StripeStep, Arrivals, vars
  <2>2. QED
    BY <2>1 DEF bankVars, BF!vars
<1>3. QED
  BY <1>1, <1>2 DEF Next

LEMMA BankRuns == Spec => BF!Spec
<1>1. Init => BF!Init
  BY DEF Init, BankFile!Init, BF!Init, BankFile!Formats, BF!Formats
<1>2. QED
  BY <1>1, BankSteps, PTL DEF Spec, BF!Spec

\* Once a file is read, each of its entries was returned, in its order and once,
\* or is warned of, itself or with its block (parseMT940, parseCAMT053).
THEOREM NothingIsLost == Spec => []EntriesAccounted
<1>1. BF!Spec => []BF!EntriesAccounted
  BY BF!BankEntriesAccounted
<1>2. BF!EntriesAccounted => EntriesAccounted
  BY DEF EntriesAccounted, BF!EntriesAccounted, BankFile!EntriesAccounted,
     BankFile!Lines, BF!Lines, BankFile!Returned, BF!Returned,
     BankFile!BlockEnd, BF!BlockEnd
<1>3. QED
  BY <1>1, <1>2, BankRuns, PTL

\* No two entries of a bank file share a line of details; an entry's are those
\* read while it was pending, or before it while none was (flushTx).
THEOREM DetailsStay == Spec => []DetailsAreOwn
<1>1. BF!Spec => []BF!DetailsAreOwn
  BY BF!BankDetailsAreOwn
<1>2. BF!DetailsAreOwn => DetailsAreOwn
  BY DEF DetailsAreOwn, BF!DetailsAreOwn, BankFile!DetailsAreOwn,
     BankFile!Lines, BF!Lines, BankFile!Marks, BF!Marks, BankFile!LastMark, BF!LastMark
<1>3. QED
  BY <1>1, <1>2, BankRuns, PTL
=============================================================================
