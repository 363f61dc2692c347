--------------------------- MODULE BankFileProofs ---------------------------
(***************************************************************************)
(* The bank file parser, for files of any length.                          *)
(*                                                                         *)
(* What is known of the lines read is stated of a file g as an operator's  *)
(* argument, so that it can be said of the file with one more line.  A     *)
(* line is open while its block is; the invariant says of the open lines   *)
(* which entry is pending and whose the details held are, and of the       *)
(* closed ones that each is accounted for.                                 *)
(***************************************************************************)
EXTENDS BankFile, SequenceTheorems, TLAPS

\* What EntriesAccounted and DetailsAreOwn say of the file, for any file.
MarksOf(g) == {i \in DOMAIN g : g[i] \in {"61", "61bad", "end"}}
LastOf(g, d) == {k \in MarksOf(g) : k < d /\ \A m \in MarksOf(g) : m < d => m <= k}
Own(g, e, d) ==
    \/ LastOf(g, d) = {e}
    \/ /\ d < e
       /\ \A k \in LastOf(g, d) : g[k] # "61"
       /\ \A k \in MarksOf(g) : d < k /\ k < e => g[k] = "61bad"
EndsAt(g, i, e) ==
    /\ e \in DOMAIN g /\ g[e] = "end" /\ i <= e
    /\ \A d \in DOMAIN g : g[d] = "end" /\ i <= d => e <= d

\* The line is of the block that is being read.
Open(g, i) == \A e \in DOMAIN g : g[e] = "end" => e < i

\* A line of details that no entry has yet: it would pass to an entry read now.
Loose(g, d) ==
    /\ \A k \in LastOf(g, d) : g[k] # "61"
    /\ \A k \in MarksOf(g) : d < k => g[k] = "61bad"

-----------------------------------------------------------------------------
(* A file and one more line.                                               *)

LEMMA OneMore ==
    ASSUME NEW g \in Seq(Kinds), NEW k \in Kinds
    PROVE  /\ Append(g, k) \in Seq(Kinds) /\ Len(Append(g, k)) = Len(g) + 1
           /\ Len(g) \in Nat /\ DOMAIN g = 1 .. Len(g)
           /\ DOMAIN Append(g, k) = DOMAIN g \cup {Len(g) + 1}
           /\ \A i \in DOMAIN g : Append(g, k)[i] = g[i] /\ i \in Nat \ {0} /\ i < Len(g) + 1
           /\ Append(g, k)[Len(g) + 1] = k
<1>1. /\ Append(g, k) \in Seq(Kinds) /\ Len(Append(g, k)) = Len(g) + 1
      /\ \A i \in 1 .. Len(g) : Append(g, k)[i] = g[i]
      /\ Append(g, k)[Len(g) + 1] = k
  BY AppendProperties
<1>2. Len(g) \in Nat /\ DOMAIN g = 1 .. Len(g)
  BY LenProperties
<1>3. DOMAIN Append(g, k) = 1 .. Len(g) + 1
  BY <1>1, LenProperties
<1>4. QED
  BY <1>1, <1>2, <1>3

LEMMA MarksGrow ==
    ASSUME NEW g \in Seq(Kinds), NEW k \in Kinds
    PROVE  /\ MarksOf(Append(g, k)) =
                 MarksOf(g) \cup (IF k \in {"61", "61bad", "end"} THEN {Len(g) + 1} ELSE {})
           /\ \A d \in DOMAIN g : LastOf(Append(g, k), d) = LastOf(g, d)
<1> DEFINE h == Append(g, k)
           n1 == Len(g) + 1
<1>1. /\ DOMAIN h = DOMAIN g \cup {n1} /\ h[n1] = k /\ n1 \in Nat
      /\ \A i \in DOMAIN g : h[i] = g[i] /\ i \in Nat /\ i < n1
  BY OneMore
<1> HIDE DEF h, n1
<1>2. MarksOf(h) = MarksOf(g) \cup (IF k \in {"61", "61bad", "end"} THEN {n1} ELSE {})
  <2>1. n1 \notin DOMAIN g
    BY <1>1
  <2>2. CASE k \in {"61", "61bad", "end"}
    BY <1>1, <2>1, <2>2 DEF MarksOf
  <2>3. CASE k \notin {"61", "61bad", "end"}
    BY <1>1, <2>1, <2>3 DEF MarksOf
  <2>4. QED
    BY <2>2, <2>3
<1>3. \A d \in DOMAIN g : ~(n1 < d)
  BY <1>1
<1>4. ASSUME NEW d \in DOMAIN g PROVE LastOf(h, d) = LastOf(g, d)
  <2>1. \A m : m < d => (m \in MarksOf(h) <=> m \in MarksOf(g))
    BY <1>2, <1>3
  <2>2. QED
    BY <2>1, Zenon DEF LastOf
<1>5. QED
  BY <1>2, <1>4 DEF h, n1

\* What is settled of the lines read stays so.
LEMMA Settled ==
    ASSUME NEW g \in Seq(Kinds), NEW k \in Kinds, NEW e \in DOMAIN g, NEW d \in DOMAIN g
    PROVE  /\ Own(g, e, d) => Own(Append(g, k), e, d)
           /\ EndsAt(g, d, e) => EndsAt(Append(g, k), d, e)
           /\ Open(Append(g, k), d) <=> Open(g, d) /\ k # "end"
           /\ Loose(g, d) /\ k \notin {"61", "end"} => Loose(Append(g, k), d)
           /\ Open(g, d) /\ k = "end" => EndsAt(Append(g, k), d, Len(g) + 1)
           /\ Loose(g, d) /\ k = "61" => Own(Append(g, k), Len(g) + 1, d)
<1> DEFINE h == Append(g, k)
           n1 == Len(g) + 1
<1>1. /\ DOMAIN h = DOMAIN g \cup {n1} /\ h[n1] = k /\ n1 \in Nat
      /\ \A i \in DOMAIN g : h[i] = g[i] /\ i \in Nat /\ i < n1
  BY OneMore
<1>2. /\ MarksOf(h) = MarksOf(g) \cup (IF k \in {"61", "61bad", "end"} THEN {n1} ELSE {})
      /\ LastOf(h, d) = LastOf(g, d)
  BY MarksGrow
<1>3. \A i \in MarksOf(g) : i \in DOMAIN g
  BY DEF MarksOf
<1> HIDE DEF h, n1
<1>4. \A i \in LastOf(h, d) : h[i] = g[i]
  BY <1>1, <1>2, <1>3 DEF LastOf
<1>5. ~(n1 < e) /\ ~(n1 < d) /\ ~(n1 <= d)
  BY <1>1
<1>6. \A i \in MarksOf(h) : i # n1 => i \in MarksOf(g) /\ h[i] = g[i]
  BY <1>1, <1>2, <1>3
<1>7. Own(g, e, d) => Own(h, e, d)
  <2>1. (\A i \in LastOf(g, d) : g[i] # "61") => \A i \in LastOf(h, d) : h[i] # "61"
    BY <1>2, <1>4
  <2>2. (\A i \in MarksOf(g) : d < i /\ i < e => g[i] = "61bad") =>
           \A i \in MarksOf(h) : d < i /\ i < e => h[i] = "61bad"
    BY <1>5, <1>6
  <2>3. QED
    BY <1>2, <2>1, <2>2 DEF Own
<1>8. EndsAt(g, d, e) => EndsAt(h, d, e)
  BY <1>1 DEF EndsAt
<1>9. Open(h, d) <=> Open(g, d) /\ k # "end"
  <2>1. k = "end" => ~Open(h, d)
    BY <1>1, <1>5 DEF Open
  <2>2. k # "end" => (Open(h, d) <=> Open(g, d))
    BY <1>1 DEF Open
  <2>3. QED
    BY <2>1, <2>2
<1>10. ASSUME Loose(g, d), k \notin {"61", "end"} PROVE Loose(h, d)
  <2>1. \A i \in LastOf(h, d) : h[i] # "61"
    BY <1>2, <1>4, <1>10 DEF Loose
  <2>2. ASSUME NEW i \in MarksOf(h), d < i PROVE h[i] = "61bad"
    <3>1. CASE i = n1
      <4>1. k \in {"61", "61bad", "end"}
        BY <1>1, <3>1 DEF MarksOf
      <4>2. QED
        BY <1>1, <1>10, <3>1, <4>1
    <3>2. CASE i # n1
      BY <1>6, <1>10, <2>2, <3>2 DEF Loose
    <3>3. QED
      BY <3>1, <3>2
  <2>3. QED
    BY <2>1, <2>2 DEF Loose
<1>11. ASSUME Open(g, d), k = "end" PROVE EndsAt(h, d, n1)
  BY <1>1, <1>11 DEF EndsAt, Open
<1>12. ASSUME Loose(g, d), k = "61" PROVE Own(h, n1, d)
  <2>1. \A i \in LastOf(h, d) : h[i] # "61"
    BY <1>2, <1>4, <1>12 DEF Loose
  <2>2. \A i \in MarksOf(h) : d < i /\ i < n1 => h[i] = "61bad"
    BY <1>1, <1>6, <1>12 DEF Loose
  <2>3. QED
    BY <1>1, <2>1, <2>2 DEF Own
<1>13. QED
  BY <1>7, <1>8, <1>9, <1>10, <1>11, <1>12 DEF h, n1

\* The details read at the new line are those of the last entry, when nothing
\* but entries' fields came after it.
LEMMA NewDetails ==
    ASSUME NEW g \in Seq(Kinds), NEW k \in Kinds \ {"61", "61bad", "end"}
    PROVE  /\ \A p \in MarksOf(g) : (\A m \in MarksOf(g) : m <= p) =>
                 Own(Append(g, k), p, Len(g) + 1)
           /\ (\A p \in MarksOf(g) : (\A m \in MarksOf(g) : m <= p) => g[p] # "61") =>
                 Loose(Append(g, k), Len(g) + 1)
<1> DEFINE h == Append(g, k)
           n1 == Len(g) + 1
<1>1. /\ DOMAIN h = DOMAIN g \cup {n1} /\ h[n1] = k /\ n1 \in Nat
      /\ \A i \in DOMAIN g : h[i] = g[i] /\ i \in Nat /\ i < n1
  BY OneMore
<1>2. MarksOf(h) = MarksOf(g)
  BY MarksGrow
<1>3. \A i \in MarksOf(g) : i \in DOMAIN g /\ i < n1 /\ ~(n1 < i) /\ h[i] = g[i] /\ i \in Nat
  BY <1>1 DEF MarksOf
<1> HIDE DEF h, n1
<1>4. LastOf(h, n1) = {p \in MarksOf(g) : \A m \in MarksOf(g) : m <= p}
  BY <1>2, <1>3 DEF LastOf
<1>5. ASSUME NEW p \in MarksOf(g), \A m \in MarksOf(g) : m <= p
      PROVE  Own(h, p, n1)
  <2>1. \A q \in MarksOf(g) : (\A m \in MarksOf(g) : m <= q) => q = p
    <3> SUFFICES ASSUME NEW q \in MarksOf(g), \A m \in MarksOf(g) : m <= q PROVE q = p
      OBVIOUS
    <3>1. p <= q /\ q <= p /\ p \in Nat /\ q \in Nat
      BY <1>3, <1>5
    <3>2. QED
      BY <3>1
  <2>2. LastOf(h, n1) = {p}
    BY <1>4, <1>5, <2>1
  <2>3. QED
    BY <2>2 DEF Own
<1>6. ASSUME \A p \in MarksOf(g) : (\A m \in MarksOf(g) : m <= p) => g[p] # "61"
      PROVE  Loose(h, n1)
  BY <1>2, <1>3, <1>4, <1>6 DEF Loose
<1>7. QED
  BY <1>5, <1>6 DEF h, n1

-----------------------------------------------------------------------------
(* The entries of a block and of the blocks before.                        *)

Txs == [entry : Nat, details : SUBSET Nat]
Have(s) == {s[i] : i \in DOMAIN s}
Sorted(s) == \A i, j \in DOMAIN s : i < j => s[i].entry < s[j].entry

LEMMA OneEntryMore ==
    ASSUME NEW s \in Seq(Txs), NEW x \in Txs, Sorted(s), \A y \in Have(s) : y.entry < x.entry
    PROVE  /\ Append(s, x) \in Seq(Txs) /\ Sorted(Append(s, x))
           /\ \A y : y \in Have(Append(s, x)) <=> y \in Have(s) \/ y = x
<1> DEFINE u == Append(s, x)
           l == Len(s) + 1
<1>1. /\ u \in Seq(Txs) /\ Len(u) = l /\ u[l] = x
      /\ \A i \in 1 .. Len(s) : u[i] = s[i]
  BY AppendProperties
<1>2. Len(s) \in Nat /\ DOMAIN s = 1 .. Len(s) /\ DOMAIN u = 1 .. l
  BY <1>1, LenProperties
<1> HIDE DEF u
<1>3. /\ DOMAIN u = DOMAIN s \cup {l}
      /\ \A i \in DOMAIN s : u[i] = s[i] /\ i < l /\ ~(l < i) /\ i # l
      /\ ~(l < l)
  BY <1>1, <1>2
<1> HIDE DEF l
<1>4. \A y : y \in Have(u) <=> y \in Have(s) \/ y = x
  BY <1>1, <1>3 DEF Have
<1>5. Sorted(u)
  <2> SUFFICES ASSUME NEW i \in DOMAIN u, NEW j \in DOMAIN u, i < j
               PROVE  u[i].entry < u[j].entry
    BY DEF Sorted
  <2>1. i \in DOMAIN s
    BY <1>3
  <2>2. CASE j = l
    BY <1>1, <1>3, <2>1, <2>2 DEF Have
  <2>3. CASE j \in DOMAIN s
    BY <1>3, <2>1, <2>3 DEF Sorted
  <2>4. QED
    BY <1>3, <2>2, <2>3
<1>6. QED
  BY <1>1, <1>4, <1>5 DEF u

LEMMA MoreEntries ==
    ASSUME NEW s \in Seq(Txs), NEW t \in Seq(Txs), Sorted(s), Sorted(t),
           \A x \in Have(s), y \in Have(t) : x.entry < y.entry
    PROVE  /\ s \o t \in Seq(Txs) /\ Sorted(s \o t)
           /\ \A y : y \in Have(s \o t) <=> y \in Have(s) \/ y \in Have(t)
<1> DEFINE u == s \o t
           l == Len(s)
           m == Len(t)
<1>1. /\ u \in Seq(Txs) /\ Len(u) = l + m
      /\ \A i \in 1 .. l + m : u[i] = IF i <= l THEN s[i] ELSE t[i - l]
  BY ConcatProperties
<1>2. /\ l \in Nat /\ m \in Nat /\ DOMAIN s = 1 .. l /\ DOMAIN t = 1 .. m
      /\ DOMAIN u = 1 .. l + m
  BY <1>1, LenProperties
<1> HIDE DEF u, l, m
<1>3. \A i \in DOMAIN s : i \in DOMAIN u /\ u[i] = s[i]
  BY <1>1, <1>2
<1>4. \A i \in DOMAIN t : i + l \in DOMAIN u /\ u[i + l] = t[i]
  <2> SUFFICES ASSUME NEW i \in DOMAIN t PROVE i + l \in DOMAIN u /\ u[i + l] = t[i]
    OBVIOUS
  <2>1. i \in Int /\ i + l \in 1 .. l + m /\ ~(i + l <= l) /\ (i + l) - l = i
    BY <1>2
  <2>2. QED
    BY <1>1, <1>2, <2>1
<1>5. \A i \in DOMAIN u : \/ i \in DOMAIN s /\ u[i] = s[i] /\ i <= l
                          \/ i - l \in DOMAIN t /\ u[i] = t[i - l] /\ l < i
  BY <1>1, <1>2
<1>6. ASSUME NEW y PROVE y \in Have(u) <=> y \in Have(s) \/ y \in Have(t)
  <2>1. y \in Have(u) => y \in Have(s) \/ y \in Have(t)
    BY <1>5 DEF Have
  <2>2. y \in Have(s) => y \in Have(u)
    BY <1>3 DEF Have
  <2>3. y \in Have(t) => y \in Have(u)
    BY <1>4 DEF Have
  <2>4. QED
    BY <2>1, <2>2, <2>3
<1>7. Sorted(u)
  <2> SUFFICES ASSUME NEW i \in DOMAIN u, NEW j \in DOMAIN u, i < j
               PROVE  u[i].entry < u[j].entry
    BY DEF Sorted
  <2>0. i \in Int /\ j \in Int
    BY <1>2
  <2>1. CASE i \in DOMAIN s /\ u[i] = s[i] /\ j \in DOMAIN s /\ u[j] = s[j]
    BY <2>1 DEF Sorted
  <2>2. CASE i \in DOMAIN s /\ u[i] = s[i] /\ j - l \in DOMAIN t /\ u[j] = t[j - l]
    BY <2>2 DEF Have
  <2>3. CASE /\ i - l \in DOMAIN t /\ u[i] = t[i - l]
             /\ j - l \in DOMAIN t /\ u[j] = t[j - l]
    <3>1. i - l < j - l
      BY <1>2, <2>0
    <3>2. QED
      BY <2>3, <3>1 DEF Sorted
  <2>4. CASE l < i /\ j <= l
    BY <1>2, <2>0, <2>4
  <2>5. QED
    BY <1>5, <2>1, <2>2, <2>3, <2>4
<1>8. QED
  BY <1>1, <1>6, <1>7 DEF u

\* all: what earlier blocks returned; ts: the entries of this block that are
\* complete; held: the lines of details that are kept for an entry.
Told(g, x) ==
    /\ x.entry \in DOMAIN g /\ g[x.entry] = "61" /\ x.details \subseteq DOMAIN g
    /\ \A d \in x.details : Own(g, x.entry, d)
Apart(A, held) ==
    \A x \in A : /\ x.details \cap held = {}
                 /\ \A y \in A : x # y => x.details \cap y.details = {}
Complete(g, all, ts, held) ==
    /\ all \in Seq(Txs) /\ ts \in Seq(Txs) /\ held \subseteq DOMAIN g
    /\ Sorted(all) /\ Sorted(ts)
    /\ \A x \in Have(all) : Told(g, x) /\ ~Open(g, x.entry)
    /\ \A x \in Have(ts) : Told(g, x) /\ Open(g, x.entry)
    /\ Apart(Have(all) \cup Have(ts), held)

LEMMA ToldStays ==
    ASSUME NEW g \in Seq(Kinds), NEW k \in Kinds, NEW x, Told(g, x)
    PROVE  /\ Told(Append(g, k), x)
           /\ Open(Append(g, k), x.entry) <=> Open(g, x.entry) /\ k # "end"
<1> DEFINE h == Append(g, k)
<1>1. DOMAIN g \subseteq DOMAIN h /\ \A i \in DOMAIN g : h[i] = g[i]
  BY OneMore
<1>2. /\ \A d \in x.details : Own(h, x.entry, d)
      /\ Open(h, x.entry) <=> Open(g, x.entry) /\ k # "end"
  <2>1. x.entry \in DOMAIN g /\ \A d \in x.details : d \in DOMAIN g /\ Own(g, x.entry, d)
    BY DEF Told
  <2> HIDE DEF h
  <2>2. QED
    BY <2>1, Settled DEF h
<1> HIDE DEF h
<1>3. QED
  BY <1>1, <1>2 DEF Told, h

\* A line that ends no block.
LEMMA CompleteStays ==
    ASSUME NEW g \in Seq(Kinds), NEW k \in Kinds, k # "end", NEW all, NEW ts, NEW held,
           Complete(g, all, ts, held), NEW more,
           more \subseteq held \cup {Len(g) + 1}
    PROVE  Complete(Append(g, k), all, ts, more)
<1> DEFINE h == Append(g, k)
           n1 == Len(g) + 1
<1>1. DOMAIN h = DOMAIN g \cup {n1} /\ n1 \notin DOMAIN g
  BY OneMore
<1>2. \A x \in Have(all) : Told(h, x) /\ ~Open(h, x.entry)
  BY ToldStays DEF Complete
<1>3. \A x \in Have(ts) : Told(h, x) /\ Open(h, x.entry)
  BY ToldStays DEF Complete
<1>4. Apart(Have(all) \cup Have(ts), more)
  <2> SUFFICES ASSUME NEW x \in Have(all) \cup Have(ts) PROVE x.details \cap more = {}
    BY DEF Complete, Apart
  <2>1. x.details \subseteq DOMAIN g /\ x.details \cap held = {}
    BY DEF Complete, Told, Apart
  <2> HIDE DEF n1
  <2>2. QED
    BY <1>1, <2>1 DEF n1
<1>5. more \subseteq DOMAIN h
  BY <1>1 DEF Complete
<1> HIDE DEF h
<1>6. QED
  BY <1>2, <1>3, <1>4, <1>5 DEF Complete, h

\* flushTx: the entry that is pending takes the details held for it.
LEMMA CompleteFlushed ==
    ASSUME NEW g \in Seq(Kinds), NEW all, NEW ts, NEW held, Complete(g, all, ts, held),
           NEW p \in DOMAIN g, g[p] = "61", Open(g, p),
           \A d \in held : Own(g, p, d), \A x \in Have(ts) : x.entry < p
    PROVE  /\ Complete(g, all, Append(ts, Tx(p, held)), {})
           /\ \A y : y \in Have(Append(ts, Tx(p, held))) <=> y \in Have(ts) \/ y = Tx(p, held)
<1> DEFINE x == Tx(p, held)
           us == Append(ts, x)
<1>1. DOMAIN g = 1 .. Len(g) /\ Len(g) \in Nat
  BY LenProperties
<1>2. x \in Txs /\ x.entry = p /\ x.details = held
  BY <1>1 DEF Complete, Tx, Txs
<1>3. Told(g, x)
  BY <1>2 DEF Told, Complete
<1> HIDE DEF x
<1>4. /\ us \in Seq(Txs) /\ Sorted(us)
      /\ \A y : y \in Have(us) <=> y \in Have(ts) \/ y = x
  <2>1. ts \in Seq(Txs) /\ Sorted(ts) /\ \A y \in Have(ts) : y.entry < x.entry
    BY <1>2 DEF Complete
  <2>2. QED
    BY <1>2, <2>1, OneEntryMore
<1> HIDE DEF us
<1>5. \A y \in Have(us) : Told(g, y) /\ Open(g, y.entry)
  BY <1>2, <1>3, <1>4 DEF Complete
<1>6. Apart(Have(all) \cup Have(us), {})
  <2> SUFFICES ASSUME NEW y \in Have(all) \cup Have(us), NEW z \in Have(all) \cup Have(us),
                      y # z
               PROVE  y.details \cap z.details = {}
    BY DEF Apart
  <2>1. CASE y = x
    BY <1>2, <1>4, <2>1 DEF Complete, Apart
  <2>2. CASE z = x
    BY <1>2, <1>4, <2>2 DEF Complete, Apart
  <2>3. CASE y # x /\ z # x
    BY <1>4, <2>3 DEF Complete, Apart
  <2>4. QED
    BY <2>1, <2>2, <2>3
<1>7. QED
  BY <1>4, <1>5, <1>6 DEF Complete, us, x

\* The end of a block, whose entries are taken or dropped.
LEMMA CompleteClosed ==
    ASSUME NEW g \in Seq(Kinds), NEW all, NEW ts, NEW held, Complete(g, all, ts, held)
    PROVE  /\ Complete(Append(g, "end"), all \o ts, <<>>, {})
           /\ Complete(Append(g, "end"), all, <<>>, {})
           /\ \A y : y \in Have(all \o ts) <=> y \in Have(all) \/ y \in Have(ts)
<1> DEFINE h == Append(g, "end")
           us == all \o ts
<1>1. /\ all \in Seq(Txs) /\ ts \in Seq(Txs) /\ Sorted(all) /\ Sorted(ts)
      /\ \A x \in Have(all) : Told(g, x) /\ ~Open(g, x.entry)
      /\ \A x \in Have(ts) : Told(g, x) /\ Open(g, x.entry)
  BY DEF Complete
<1>2. \A x \in Have(all), y \in Have(ts) : x.entry < y.entry
  <2> SUFFICES ASSUME NEW x \in Have(all), NEW y \in Have(ts) PROVE x.entry < y.entry
    OBVIOUS
  <2>1. /\ ~Open(g, x.entry) /\ Open(g, y.entry)
        /\ x.entry \in DOMAIN g /\ y.entry \in DOMAIN g
    BY <1>1 DEF Told
  <2>2. PICK e \in DOMAIN g : g[e] = "end" /\ ~(e < x.entry)
    BY <2>1 DEF Open
  <2>3. e < y.entry
    BY <2>1, <2>2 DEF Open
  <2>4. e \in Nat /\ x.entry \in Nat /\ y.entry \in Nat
    BY <2>1, LenProperties
  <2>5. QED
    BY <2>2, <2>3, <2>4
<1>3. /\ us \in Seq(Txs) /\ Sorted(us)
      /\ \A y : y \in Have(us) <=> y \in Have(all) \/ y \in Have(ts)
  BY <1>1, <1>2, MoreEntries
<1>4. "end" \in Kinds
  BY DEF Kinds
<1>5. \A x : Told(g, x) => Told(h, x) /\ ~Open(h, x.entry)
  BY <1>4, ToldStays
<1>6. <<>> \in Seq(Txs) /\ Have(<<>>) = {} /\ Sorted(<<>>)
  BY EmptySeq DEF Have, Sorted
<1>7. Apart(Have(us) \cup {}, {}) /\ Apart(Have(all) \cup {}, {})
  BY <1>3 DEF Complete, Apart
<1> HIDE DEF h, us
<1>8. \A x \in Have(us) : Told(h, x) /\ ~Open(h, x.entry)
  BY <1>1, <1>3, <1>5
<1>9. Complete(h, us, <<>>, {})
  BY <1>3, <1>6, <1>7, <1>8 DEF Complete
<1>10. Complete(h, all, <<>>, {})
  BY <1>1, <1>5, <1>6, <1>7 DEF Complete
<1>11. QED
  BY <1>3, <1>9, <1>10 DEF h, us

-----------------------------------------------------------------------------
(* The entry that is pending.                                              *)

Last(g, m) == m \in MarksOf(g) /\ \A k \in MarksOf(g) : k <= m

Ready(g, p, held, ts) ==
    /\ p # 0 => /\ Last(g, p) /\ g[p] = "61" /\ Open(g, p)
                /\ \A d \in held : Own(g, p, d)
                /\ \A x \in Have(ts) : x.entry < p
    /\ p = 0 => /\ \A m : Last(g, m) => g[m] # "61"
                /\ \A d \in held : Loose(g, d)

\* Every entry's field so far: of this block, and of those before.
OpenAccounted(g, p, ts, bw) ==
    \A i \in DOMAIN g : Open(g, i) =>
        /\ g[i] = "61" => i = p \/ \E x \in Have(ts) : x.entry = i
        /\ g[i] = "61bad" => i \in bw
ClosedAccounted(g, all, w) ==
    \A i \in DOMAIN g : ~Open(g, i) /\ g[i] \in {"61", "61bad"} =>
        i \in w \/ (\E x \in Have(all) : x.entry = i) \/ \E e \in w : EndsAt(g, i, e)

LEMMA ClosedStays ==
    ASSUME NEW g \in Seq(Kinds), NEW k \in Kinds, NEW all, NEW w, NEW all2, NEW w2,
           ClosedAccounted(g, all, w), w \subseteq w2,
           \A x \in Have(all) : x \in Have(all2),
           \A i \in DOMAIN g : Open(g, i) /\ k = "end" /\ g[i] \in {"61", "61bad"} =>
              i \in w2 \/ (\E x \in Have(all2) : x.entry = i) \/ Len(g) + 1 \in w2
    PROVE  ClosedAccounted(Append(g, k), all2, w2)
<1> DEFINE h == Append(g, k)
           n1 == Len(g) + 1
<1> SUFFICES ASSUME NEW i \in DOMAIN h, ~Open(h, i), h[i] \in {"61", "61bad"}
             PROVE  \/ i \in w2 \/ (\E x \in Have(all2) : x.entry = i)
                    \/ \E e \in w2 : EndsAt(h, i, e)
  BY DEF ClosedAccounted
<1>1. /\ DOMAIN h = DOMAIN g \cup {n1} /\ h[n1] = k
      /\ \A j \in DOMAIN g : h[j] = g[j] /\ j < n1
  BY OneMore
<1>2. i \in DOMAIN g /\ g[i] \in {"61", "61bad"}
  <2>1. i # n1
    <3>1. SUFFICES ASSUME i = n1 PROVE FALSE
      OBVIOUS
    <3>2. PICK e \in DOMAIN h : h[e] = "end" /\ ~(e < n1)
      BY <3>1 DEF Open
    <3>3. e = n1
      BY <1>1, <3>2
    <3>4. QED
      BY <3>1, <3>2, <3>3
  <2>2. QED
    BY <1>1, <2>1
<1>3. CASE ~Open(g, i)
  <2>1. \A e \in w : EndsAt(g, i, e) => e \in w2 /\ EndsAt(h, i, e)
    <3> SUFFICES ASSUME NEW e \in w, EndsAt(g, i, e) PROVE e \in w2 /\ EndsAt(h, i, e)
      OBVIOUS
    <3>1. e \in DOMAIN g
      BY DEF EndsAt
    <3>2. QED
      BY <1>2, <3>1, Settled
  <2> HIDE DEF h
  <2>2. QED
    BY <1>2, <1>3, <2>1 DEF ClosedAccounted
<1>4. CASE Open(g, i)
  <2>1. k = "end"
    BY <1>2, <1>4, Settled
  <2>2. EndsAt(h, i, n1)
    BY <1>2, <1>4, <2>1, Settled
  <2> HIDE DEF h, n1
  <2>3. i \in w2 \/ (\E x \in Have(all2) : x.entry = i) \/ n1 \in w2
    BY <1>2, <1>4, <2>1 DEF n1
  <2>4. QED
    BY <2>2, <2>3
<1>5. QED
  BY <1>3, <1>4

\* A line that begins no entry and ends no block.
LEMMA LineKeeps ==
    ASSUME NEW g \in Seq(Kinds), NEW k \in Kinds \ {"61", "61bad", "end"},
           NEW p, NEW held, NEW ts, NEW bw, NEW more, NEW bw2,
           Ready(g, p, held, ts), OpenAccounted(g, p, ts, bw), held \subseteq DOMAIN g,
           more \subseteq held \cup {Len(g) + 1}, bw \subseteq bw2
    PROVE  Ready(Append(g, k), p, more, ts) /\ OpenAccounted(Append(g, k), p, ts, bw2)
<1> DEFINE h == Append(g, k)
           n1 == Len(g) + 1
<1>1. /\ DOMAIN h = DOMAIN g \cup {n1} /\ h[n1] = k
      /\ \A i \in DOMAIN g : h[i] = g[i]
  BY OneMore
<1>2. MarksOf(h) = MarksOf(g) /\ MarksOf(g) \subseteq DOMAIN g
  BY MarksGrow DEF MarksOf
<1>3. \A m : Last(h, m) <=> Last(g, m)
  BY <1>2 DEF Last
<1>4. \A i \in DOMAIN g : Open(h, i) <=> Open(g, i)
  BY Settled
<1>5. ASSUME p # 0
      PROVE  /\ Last(h, p) /\ h[p] = "61" /\ Open(h, p)
             /\ \A d \in more : Own(h, p, d)
             /\ \A x \in Have(ts) : x.entry < p
  <2>1. /\ Last(g, p) /\ g[p] = "61" /\ Open(g, p) /\ p \in DOMAIN g
        /\ \A d \in held : Own(g, p, d)
        /\ \A x \in Have(ts) : x.entry < p
    BY <1>2, <1>5 DEF Ready, Last
  <2>2. Own(h, p, n1)
    BY <2>1, NewDetails DEF Last
  <2>3. \A d \in held : Own(h, p, d)
    BY <2>1, Settled
  <2> HIDE DEF h, n1
  <2>4. QED
    BY <1>1, <1>3, <1>4, <2>1, <2>2, <2>3 DEF n1
<1>6. ASSUME p = 0
      PROVE  /\ \A m : Last(h, m) => h[m] # "61"
             /\ \A d \in more : Loose(h, d)
  <2>1. /\ \A m : Last(g, m) => g[m] # "61"
        /\ \A d \in held : Loose(g, d)
    BY <1>6 DEF Ready
  <2>2. Loose(h, n1)
    BY <2>1, NewDetails DEF Last
  <2>3. \A d \in held : Loose(h, d)
    BY <2>1, Settled
  <2>4. \A m : Last(g, m) => h[m] = g[m]
    BY <1>1, <1>2 DEF Last
  <2> HIDE DEF h, n1
  <2>5. QED
    BY <1>3, <2>1, <2>2, <2>3, <2>4 DEF n1
<1> HIDE DEF h
<1>7. Ready(h, p, more, ts)
  BY <1>5, <1>6 DEF Ready
<1>8. OpenAccounted(h, p, ts, bw2)
  BY <1>1, <1>4 DEF OpenAccounted
<1>9. QED
  BY <1>7, <1>8 DEF h

FlushedOf(p, ts, held) == IF p = 0 THEN ts ELSE Append(ts, Tx(p, held))
KeptOf(p, held) == IF p = 0 THEN held ELSE {}

\* After flushTx no entry is pending, and every entry of the block is complete.
LEMMA FlushKeeps ==
    ASSUME NEW g \in Seq(Kinds), NEW p, NEW held, NEW ts, NEW all, NEW bw,
           Complete(g, all, ts, held), Ready(g, p, held, ts), OpenAccounted(g, p, ts, bw)
    PROVE  /\ Complete(g, all, FlushedOf(p, ts, held), KeptOf(p, held))
           /\ \A d \in KeptOf(p, held) : d \in DOMAIN g /\ Loose(g, d)
           /\ OpenAccounted(g, 0, FlushedOf(p, ts, held), bw)
<1>1. CASE p = 0
  BY <1>1 DEF FlushedOf, KeptOf, Ready, Complete
<1>2. CASE p # 0
  <2> DEFINE us == Append(ts, Tx(p, held))
  <2>1. /\ p \in DOMAIN g /\ g[p] = "61" /\ Open(g, p)
        /\ \A d \in held : Own(g, p, d) /\ \A x \in Have(ts) : x.entry < p
    BY <1>2 DEF Ready, Last, MarksOf
  <2>2. /\ Complete(g, all, us, {})
        /\ \A y : y \in Have(us) <=> y \in Have(ts) \/ y = Tx(p, held)
    <3>1. \A d \in held : Own(g, p, d)
      BY <1>2 DEF Ready
    <3>2. \A x \in Have(ts) : x.entry < p
      BY <1>2 DEF Ready
    <3>3. QED
      BY <2>1, <3>1, <3>2, CompleteFlushed
  <2>3. FlushedOf(p, ts, held) = us /\ KeptOf(p, held) = {}
    BY <1>2 DEF FlushedOf, KeptOf
  <2> HIDE DEF us
  <2>4. Tx(p, held).entry = p
    BY DEF Tx
  <2>5. OpenAccounted(g, 0, us, bw)
    BY <2>2, <2>4 DEF OpenAccounted
  <2>6. QED
    BY <2>2, <2>3, <2>5
<1>3. QED
  BY <1>1, <1>2

\* An entry's field that parses, and one that does not.
LEMMA EntryKeeps ==
    ASSUME NEW g \in Seq(Kinds), NEW all, NEW ts, NEW held, NEW bw,
           Complete(g, all, ts, held), \A d \in held : d \in DOMAIN g /\ Loose(g, d),
           OpenAccounted(g, 0, ts, bw)
    PROVE  /\ Ready(Append(g, "61"), Len(g) + 1, held, ts)
           /\ OpenAccounted(Append(g, "61"), Len(g) + 1, ts, bw)
           /\ Ready(Append(g, "61bad"), 0, held, ts)
           /\ OpenAccounted(Append(g, "61bad"), 0, ts, bw \cup {Len(g) + 1})
<1> DEFINE n1 == Len(g) + 1
<1>1. {"61", "61bad"} \subseteq Kinds
  BY DEF Kinds
<1>2. \A x \in Have(ts) : x.entry \in DOMAIN g
  BY DEF Complete, Told
<1>3. ASSUME NEW k \in {"61", "61bad"}, NEW h, h = Append(g, k)
      PROVE  /\ DOMAIN h = DOMAIN g \cup {n1} /\ h[n1] = k /\ n1 # 0
             /\ \A i \in DOMAIN g : /\ h[i] = g[i] /\ i < n1 /\ i # 0
                                    /\ Open(h, i) <=> Open(g, i)
             /\ \A m : Last(h, m) <=> m = n1
             /\ Open(h, n1)
  <2>1. /\ DOMAIN h = DOMAIN g \cup {n1} /\ h[n1] = k /\ n1 \in Nat \ {0}
        /\ \A i \in DOMAIN g : h[i] = g[i] /\ i < n1 /\ i \in Nat \ {0}
    BY <1>1, <1>3, OneMore
  <2>2. \A i \in DOMAIN g : Open(h, i) <=> Open(g, i)
    <3>1. k \in Kinds /\ k # "end"
      BY <1>1
    <3>2. QED
      BY <1>3, <3>1, Settled
  <2>3. MarksOf(h) = MarksOf(g) \cup {n1} /\ MarksOf(g) \subseteq DOMAIN g
    BY <1>1, <1>3, MarksGrow DEF MarksOf
  <2> HIDE DEF n1
  <2>4. \A m \in DOMAIN g : ~(n1 <= m) /\ m <= n1
    BY <2>1
  <2>5. \A m : Last(h, m) <=> m = n1
    <3>1. n1 <= n1
      BY <2>1
    <3>2. QED
      BY <2>3, <2>4, <3>1 DEF Last
  <2>6. Open(h, n1)
    BY <2>1 DEF Open
  <2>7. QED
    BY <2>1, <2>2, <2>5, <2>6
<1>4. /\ Ready(Append(g, "61"), n1, held, ts)
      /\ OpenAccounted(Append(g, "61"), n1, ts, bw)
  <2> DEFINE h == Append(g, "61")
  <2>1. \A d \in held : Own(h, n1, d)
    BY <1>1, Settled
  <2>2. /\ DOMAIN h = DOMAIN g \cup {n1} /\ h[n1] = "61" /\ n1 # 0
        /\ \A i \in DOMAIN g : /\ h[i] = g[i] /\ i < n1 /\ i # 0
                               /\ Open(h, i) <=> Open(g, i)
        /\ \A m : Last(h, m) <=> m = n1
        /\ Open(h, n1)
    BY <1>3
  <2> HIDE DEF h, n1
  <2>3. Ready(h, n1, held, ts)
    BY <1>2, <2>1, <2>2 DEF Ready
  <2>4. OpenAccounted(h, n1, ts, bw)
    BY <2>2 DEF OpenAccounted
  <2>5. QED
    BY <2>3, <2>4 DEF h
<1>5. /\ Ready(Append(g, "61bad"), 0, held, ts)
      /\ OpenAccounted(Append(g, "61bad"), 0, ts, bw \cup {n1})
  <2> DEFINE h == Append(g, "61bad")
  <2>1. \A d \in held : Loose(h, d)
    BY <1>1, Settled
  <2>2. /\ DOMAIN h = DOMAIN g \cup {n1} /\ h[n1] = "61bad" /\ n1 # 0
        /\ \A i \in DOMAIN g : /\ h[i] = g[i] /\ i < n1 /\ i # 0
                               /\ Open(h, i) <=> Open(g, i)
        /\ \A m : Last(h, m) <=> m = n1
        /\ Open(h, n1)
    BY <1>3
  <2> HIDE DEF h, n1
  <2>3. Ready(h, 0, held, ts)
    BY <2>1, <2>2 DEF Ready
  <2>4. OpenAccounted(h, 0, ts, bw \cup {n1})
    BY <2>2 DEF OpenAccounted
  <2>5. QED
    BY <2>3, <2>4 DEF h
<1>6. QED
  BY <1>4, <1>5

\* The end of a block leaves none of its lines open.
LEMMA EndKeeps ==
    ASSUME NEW g \in Seq(Kinds), NEW bw
    PROVE  /\ Ready(Append(g, "end"), 0, {}, <<>>)
           /\ OpenAccounted(Append(g, "end"), 0, <<>>, bw)
           /\ \A i \in DOMAIN Append(g, "end") : ~Open(Append(g, "end"), i)
<1> DEFINE h == Append(g, "end")
           n1 == Len(g) + 1
<1>0. "end" \in Kinds
  BY DEF Kinds
<1>1. /\ DOMAIN h = DOMAIN g \cup {n1} /\ h[n1] = "end" /\ n1 \in Nat
      /\ \A i \in DOMAIN g : i \in Nat /\ i < n1
  BY <1>0, OneMore
<1>2. n1 \in MarksOf(h)
  BY <1>1 DEF MarksOf
<1> HIDE DEF h, n1
<1>3. \A i \in DOMAIN h : ~(n1 < i) /\ (n1 <= i => i = n1)
  BY <1>1
<1>4. \A i \in DOMAIN h : ~Open(h, i)
  BY <1>1, <1>3 DEF Open
<1>5. \A m : Last(h, m) => m = n1
  BY <1>2, <1>3 DEF Last, MarksOf
<1>6. Ready(h, 0, {}, <<>>) /\ OpenAccounted(h, 0, <<>>, bw)
  BY <1>1, <1>4, <1>5 DEF Ready, OpenAccounted
<1>7. QED
  BY <1>4, <1>6 DEF h

-----------------------------------------------------------------------------
(* The invariant: an MT940 statement block, and a CAMT.053 document.       *)

MT940 ==
    /\ Complete(file, allTxns, transactions, field86Lines)
    /\ Ready(file, pendingTx, field86Lines, transactions)
    /\ OpenAccounted(file, pendingTx, transactions, blockWarnings)
    /\ ClosedAccounted(file, allTxns, warnings)
    /\ result # "none" => \A i \in DOMAIN file : ~Open(file, i)

CAMT053 ==
    /\ allTxns \in Seq(Txs) /\ Sorted(allTxns)
    /\ \A x \in Have(allTxns) : x.entry \in DOMAIN file /\ file[x.entry] = "61"
    /\ \A i \in DOMAIN file : i \in warnings \/ \E x \in Have(allTxns) : x.entry = i

BInv ==
    /\ format \in Formats /\ file \in Seq(Kinds)
    /\ format = "mt940" => MT940
    /\ format = "camt053" => CAMT053

LEMMA BStarts == Init => BInv
<1> SUFFICES ASSUME Init PROVE BInv
  OBVIOUS
<1>1. /\ format \in Formats /\ file = <<>> /\ field86Lines = {} /\ pendingTx = 0
      /\ transactions = <<>> /\ allTxns = <<>> /\ result = "none"
  BY DEF Init
<1>2. <<>> \in Seq(Kinds) /\ <<>> \in Seq(Txs) /\ DOMAIN <<>> = {}
  BY EmptySeq
<1>3. Have(<<>>) = {} /\ Sorted(<<>>) /\ MarksOf(<<>>) = {}
  BY <1>2 DEF Have, Sorted, MarksOf
<1>4. Complete(<<>>, <<>>, <<>>, {})
  BY <1>2, <1>3 DEF Complete, Apart
<1>5. /\ Ready(<<>>, 0, {}, <<>>) /\ OpenAccounted(<<>>, 0, <<>>, blockWarnings)
      /\ ClosedAccounted(<<>>, <<>>, warnings)
  BY <1>2, <1>3 DEF Ready, OpenAccounted, ClosedAccounted, Last
<1>6. MT940
  BY <1>1, <1>4, <1>5 DEF MT940
<1>7. CAMT053
  BY <1>1, <1>2, <1>3 DEF CAMT053
<1>8. QED
  BY <1>1, <1>2, <1>6, <1>7 DEF BInv

\* What ReadLine's actions leave of what was read before.
LEMMA MT940Reads ==
    ASSUME BInv, NEW k \in Kinds, Reads(k)
    PROVE  /\ format = "mt940" /\ format' = "mt940" /\ MT940
           /\ file \in Seq(Kinds) /\ file' = Append(file, k) /\ file' \in Seq(Kinds)
           /\ n = Len(file) + 1 /\ result' = "none"
<1>1. /\ format = "mt940" /\ format' = "mt940" /\ MT940
      /\ file \in Seq(Kinds) /\ file' = Append(file, k)
      /\ n = Len(file) + 1 /\ result' = "none"
  BY DEF BInv, Reads, n
<1>2. QED
  BY <1>1, OneMore

LEMMA ClosedUntouched ==
    ASSUME NEW g \in Seq(Kinds), NEW k \in Kinds, k # "end", NEW all, NEW w,
           ClosedAccounted(g, all, w)
    PROVE  ClosedAccounted(Append(g, k), all, w)
  BY ClosedStays

LEMMA FieldKeeps ==
    ASSUME BInv, \/ OpeningBalance \/ Details \/ OtherField
                 \/ \E k \in {"text", "blank"} : Continuation(k)
    PROVE  BInv'
<1>1. PICK k \in Kinds \ {"61", "61bad", "end"} : Reads(k)
  <2>1. {"60F", "86", "tag", "text", "blank"} \subseteq Kinds \ {"61", "61bad", "end"}
    BY DEF Kinds
  <2>2. QED
    BY <2>1 DEF OpeningBalance, Details, OtherField, Continuation
<1>2. /\ format' = "mt940" /\ MT940 /\ file \in Seq(Kinds) /\ file' \in Seq(Kinds)
      /\ file' = Append(file, k) /\ n = Len(file) + 1 /\ result' = "none"
  BY <1>1, MT940Reads
<1>3. /\ UNCHANGED <<allTxns, warnings, pendingTx, transactions>>
      /\ field86Lines' \subseteq field86Lines \cup {n}
      /\ blockWarnings \subseteq blockWarnings'
  BY DEF OpeningBalance, Details, OtherField, Continuation, InBlock, block
<1>4. Complete(Append(file, k), allTxns, transactions, field86Lines')
  BY <1>2, <1>3, CompleteStays DEF MT940
<1>5. /\ Ready(Append(file, k), pendingTx, field86Lines', transactions)
      /\ OpenAccounted(Append(file, k), pendingTx, transactions, blockWarnings')
  <2>1. field86Lines \subseteq DOMAIN file
    BY <1>2 DEF MT940, Complete
  <2>2. QED
    BY <1>2, <1>3, <2>1, LineKeeps DEF MT940
<1>6. ClosedAccounted(Append(file, k), allTxns, warnings)
  BY <1>2, ClosedUntouched DEF MT940
<1>7. MT940'
  BY <1>2, <1>3, <1>4, <1>5, <1>6 DEF MT940
<1>8. QED
  BY <1>2, <1>7 DEF BInv, Formats

LEMMA AnEntryKeeps ==
    ASSUME BInv, Entry \/ RefusedEntry
    PROVE  BInv'
<1>1. PICK k \in {"61", "61bad"} : /\ Reads(k)
                                   /\ k = "61" => Entry
                                   /\ k = "61bad" => RefusedEntry
  BY DEF Entry, RefusedEntry
<1>2. k \in Kinds /\ k # "end"
  BY DEF Kinds
<1>3. /\ format' = "mt940" /\ MT940 /\ file \in Seq(Kinds) /\ file' \in Seq(Kinds)
      /\ file' = Append(file, k) /\ n = Len(file) + 1 /\ result' = "none"
  BY <1>1, <1>2, MT940Reads
<1> DEFINE ts == FlushedOf(pendingTx, transactions, field86Lines)
           held == KeptOf(pendingTx, field86Lines)
<1>4. transactions' = ts /\ field86Lines' = held /\ UNCHANGED <<allTxns, warnings>>
  BY <1>1 DEF Entry, RefusedEntry, Flushed, Kept86, FlushedOf, KeptOf, InBlock
<1>5. /\ Complete(file, allTxns, ts, held)
      /\ \A d \in held : d \in DOMAIN file /\ Loose(file, d)
      /\ OpenAccounted(file, 0, ts, blockWarnings)
  BY <1>3, FlushKeeps DEF MT940
<1> HIDE DEF ts, held
<1>6. Complete(Append(file, k), allTxns, ts, held)
  BY <1>2, <1>3, <1>5, CompleteStays
<1>7. ClosedAccounted(Append(file, k), allTxns, warnings)
  BY <1>2, <1>3, ClosedUntouched DEF MT940
<1>8. /\ Ready(Append(file, "61"), n, held, ts)
      /\ OpenAccounted(Append(file, "61"), n, ts, blockWarnings)
      /\ Ready(Append(file, "61bad"), 0, held, ts)
      /\ OpenAccounted(Append(file, "61bad"), 0, ts, blockWarnings \cup {n})
  BY <1>3, <1>5, EntryKeeps
<1>9. Ready(Append(file, k), pendingTx', held, ts)
      /\ OpenAccounted(Append(file, k), pendingTx', ts, blockWarnings')
  <2>1. CASE k = "61"
    <3>1. pendingTx' = n /\ blockWarnings' = blockWarnings
      BY <1>1, <2>1 DEF Entry
    <3>2. QED
      BY <1>8, <2>1, <3>1
  <2>2. CASE k = "61bad"
    <3>1. pendingTx' = 0 /\ blockWarnings' = blockWarnings \cup {n}
      BY <1>1, <2>2 DEF RefusedEntry
    <3>2. QED
      BY <1>8, <2>2, <3>1
  <2>3. QED
    BY <2>1, <2>2
<1>10. MT940'
  BY <1>3, <1>4, <1>6, <1>7, <1>9 DEF MT940
<1>11. QED
  BY <1>3, <1>10 DEF BInv, Formats

LEMMA EndOfBlockKeeps ==
    ASSUME BInv, EndOfBlock
    PROVE  BInv'
<1>1. "end" \in Kinds /\ Reads("end")
  BY DEF Kinds, EndOfBlock
<1>2. /\ format' = "mt940" /\ MT940 /\ file \in Seq(Kinds) /\ file' \in Seq(Kinds)
      /\ file' = Append(file, "end") /\ n = Len(file) + 1 /\ result' = "none"
  BY <1>1, MT940Reads
<1> DEFINE ts == FlushedOf(pendingTx, transactions, field86Lines)
           held == KeptOf(pendingTx, field86Lines)
<1>3. /\ pendingTx' = 0 /\ field86Lines' = {} /\ transactions' = <<>>
      /\ \/ allTxns' = allTxns \o ts /\ warnings' = warnings \cup blockWarnings
         \/ allTxns' = allTxns /\ warnings' = warnings \cup {n}
  BY DEF EndOfBlock, Flushed, FlushedOf
<1>4. /\ Complete(file, allTxns, ts, held)
      /\ OpenAccounted(file, 0, ts, blockWarnings)
  BY <1>2, FlushKeeps DEF MT940
<1> HIDE DEF ts, held
<1>5. /\ Complete(Append(file, "end"), allTxns \o ts, <<>>, {})
      /\ Complete(Append(file, "end"), allTxns, <<>>, {})
      /\ \A y : y \in Have(allTxns \o ts) <=> y \in Have(allTxns) \/ y \in Have(ts)
  BY <1>2, <1>4, CompleteClosed
<1>6. ClosedAccounted(Append(file, "end"), allTxns', warnings')
  <2>1. ClosedAccounted(file, allTxns, warnings)
    BY <1>2 DEF MT940
  <2>2. \A i \in DOMAIN file : i # 0
    BY <1>1, <1>2, OneMore
  <2>3. CASE allTxns' = allTxns \o ts /\ warnings' = warnings \cup blockWarnings
    <3>1. \A i \in DOMAIN file : Open(file, i) /\ file[i] \in {"61", "61bad"} =>
             i \in warnings \cup blockWarnings \/ \E x \in Have(allTxns \o ts) : x.entry = i
      BY <1>4, <1>5, <2>2 DEF OpenAccounted
    <3>2. ClosedAccounted(Append(file, "end"), allTxns \o ts, warnings \cup blockWarnings)
      <4>1. \A x \in Have(allTxns) : x \in Have(allTxns \o ts)
        BY <1>5
      <4>2. QED
        BY <1>1, <1>2, <2>1, <3>1, <4>1, ClosedStays
    <3>3. QED
      BY <2>3, <3>2
  <2>4. CASE allTxns' = allTxns /\ warnings' = warnings \cup {n}
    <3>1. ClosedAccounted(Append(file, "end"), allTxns, warnings \cup {n})
      <4>1. Len(file) + 1 \in warnings \cup {n}
        BY <1>2
      <4>2. QED
        BY <1>1, <1>2, <2>1, <4>1, ClosedStays
    <3>2. QED
      BY <2>4, <3>1
  <2>5. QED
    BY <1>3, <2>3, <2>4
<1>7. /\ Ready(Append(file, "end"), 0, {}, <<>>)
      /\ OpenAccounted(Append(file, "end"), 0, <<>>, blockWarnings')
  BY <1>2, EndKeeps
<1>8. Complete(Append(file, "end"), allTxns', <<>>, {})
  BY <1>3, <1>5
<1>9. MT940'
  BY <1>2, <1>3, <1>6, <1>7, <1>8 DEF MT940
<1>10. QED
  BY <1>2, <1>9 DEF BInv, Formats

LEMMA CamtEntryKeeps ==
    ASSUME BInv, NEW k \in {"61", "61bad"}, CamtEntry(k)
    PROVE  BInv'
<1>1. /\ format = "camt053" /\ format' = format /\ file \in Seq(Kinds) /\ CAMT053
      /\ file' = Append(file, k) /\ k \in Kinds /\ n = Len(file) + 1
  BY DEF BInv, CamtEntry, Kinds, n
<1>2. /\ file' \in Seq(Kinds) /\ DOMAIN file' = DOMAIN file \cup {n} /\ file'[n] = k
      /\ \A i \in DOMAIN file : file'[i] = file[i] /\ i \in Nat \ {0} /\ i < n
      /\ n \in Nat
  BY <1>1, OneMore
<1>3. CASE k = "61" /\ allTxns' = Append(allTxns, Tx(n, {n})) /\ warnings' = warnings
  <2> DEFINE x == Tx(n, {n})
  <2>1. x \in Txs /\ x.entry = n
    BY <1>2 DEF Tx, Txs
  <2> HIDE DEF x
  <2>2. \A y \in Have(allTxns) : y.entry < x.entry
    BY <1>1, <1>2, <2>1 DEF CAMT053
  <2>3. allTxns \in Seq(Txs) /\ Sorted(allTxns)
    BY <1>1 DEF CAMT053
  <2>4. /\ Append(allTxns, x) \in Seq(Txs) /\ Sorted(Append(allTxns, x))
        /\ \A y : y \in Have(Append(allTxns, x)) <=> y \in Have(allTxns) \/ y = x
    BY <2>1, <2>2, <2>3, OneEntryMore
  <2>5. allTxns' = Append(allTxns, x)
    BY <1>3 DEF x
  <2>6. \A y : y \in Have(allTxns') <=> y \in Have(allTxns) \/ y = x
    BY <2>4, <2>5
  <2>7. CAMT053'
    <3>1. allTxns' \in Seq(Txs) /\ Sorted(allTxns')
      BY <2>4, <2>5
    <3>2. \A y \in Have(allTxns') : y.entry \in DOMAIN file' /\ file'[y.entry] = "61"
      BY <1>1, <1>2, <1>3, <2>1, <2>6 DEF CAMT053
    <3>3. \A i \in DOMAIN file' : i \in warnings' \/ \E y \in Have(allTxns') : y.entry = i
      BY <1>1, <1>2, <1>3, <2>1, <2>6 DEF CAMT053
    <3>4. QED
      BY <3>1, <3>2, <3>3 DEF CAMT053
  <2>8. QED
    BY <1>1, <1>2, <2>7 DEF BInv
<1>4. CASE k # "61" /\ warnings' = warnings \cup {n} /\ allTxns' = allTxns
  <2>1. CAMT053'
    BY <1>1, <1>2, <1>4 DEF CAMT053
  <2>2. QED
    BY <1>1, <1>2, <2>1 DEF BInv
<1>5. QED
  BY <1>3, <1>4 DEF CamtEntry

LEMMA FinishKeeps ==
    ASSUME BInv, Finish
    PROVE  BInv'
<1>1. UNCHANGED <<format, file, block, allTxns, warnings>>
  BY DEF Finish
<1>2. ASSUME format = "mt940" PROVE MT940'
  <2>1. MT940 /\ file \in Seq(Kinds) /\ file # <<>> /\ file[Len(file)] = "end"
    BY <1>2 DEF BInv, Finish
  <2>2. Len(file) \in Nat \ {0} /\ DOMAIN file = 1 .. Len(file)
    BY <2>1, EmptySeq, LenProperties
  <2>3. \A i \in DOMAIN file : ~Open(file, i)
    <3> SUFFICES ASSUME NEW i \in DOMAIN file PROVE ~Open(file, i)
      OBVIOUS
    <3>1. Len(file) \in DOMAIN file /\ ~(Len(file) < i)
      BY <2>2
    <3>2. QED
      BY <2>1, <3>1 DEF Open
  <2>4. QED
    BY <1>1, <2>1, <2>3 DEF MT940, block
<1>3. ASSUME format = "camt053" PROVE CAMT053'
  BY <1>1, <1>3 DEF BInv, CAMT053
<1>4. QED
  BY <1>1, <1>2, <1>3 DEF BInv

LEMMA BInductive == BInv /\ [Next]_vars => BInv'
<1> SUFFICES ASSUME BInv, [Next]_vars PROVE BInv'
  OBVIOUS
<1>1. CASE UNCHANGED vars
  BY <1>1 DEF vars, BInv, MT940, CAMT053
<1>2. CASE ReadLine
  BY <1>2, FieldKeeps, AnEntryKeeps, EndOfBlockKeeps DEF ReadLine
<1>3. CASE (\E k \in {"61", "61bad"} : CamtEntry(k)) \/ Finish
  BY <1>3, CamtEntryKeeps, FinishKeeps
<1>4. QED
  BY <1>1, <1>2, <1>3 DEF Next

LEMMA BAlways == Spec => []BInv
  BY BStarts, BInductive, PTL DEF Spec

-----------------------------------------------------------------------------
\* Nothing is lost on the way: once a file is read, each of its entries was
\* returned, in the order of the file and once, or is warned of, itself or with
\* its block (parseMT940, parseMT940Block and parseCAMT053).
THEOREM BankEntriesAccounted == Spec => []EntriesAccounted
<1>1. ASSUME BInv, result # "none" PROVE EntriesAccounted
  <2>1. /\ Sorted(allTxns) /\ file \in Seq(Kinds)
        /\ \A x \in Have(allTxns) : x.entry \in DOMAIN file /\ file[x.entry] = "61"
    BY <1>1 DEF BInv, Formats, MT940, CAMT053, Complete, Told
  <2>2. Returned \subseteq Lines("61")
    BY <2>1 DEF Returned, Lines, Have
  <2>3. ASSUME NEW i \in (Lines("61") \cup Lines("61bad")) \ Returned
        PROVE  i \in warnings \/ (format = "mt940" /\ BlockEnd(i) \in warnings)
    <3>1. /\ i \in DOMAIN file /\ file[i] \in {"61", "61bad"}
          /\ ~ \E x \in Have(allTxns) : x.entry = i
      BY <2>3 DEF Lines, Returned, Have
    <3>2. CASE format = "camt053"
      BY <1>1, <3>1, <3>2 DEF BInv, CAMT053
    <3>3. CASE format = "mt940" /\ i \notin warnings
      <4>1. PICK e \in warnings : EndsAt(file, i, e)
        BY <1>1, <3>1, <3>3 DEF BInv, MT940, ClosedAccounted
      <4>2. /\ e \in Lines("end") /\ i <= e
            /\ \A d \in Lines("end") : i <= d => e <= d
        BY <4>1 DEF EndsAt, Lines
      <4>3. \A d \in Lines("end") : d \in Nat
        BY <2>1, LenProperties DEF Lines
      <4>4. \A d \in Lines("end") :
               i <= d /\ (\A c \in Lines("end") : i <= c => d <= c) => d = e
        <5> SUFFICES ASSUME NEW d \in Lines("end"), i <= d,
                            \A c \in Lines("end") : i <= c => d <= c
                     PROVE  d = e
          OBVIOUS
        <5>1. d <= e /\ e <= d /\ d \in Nat /\ e \in Nat
          BY <4>2, <4>3
        <5>2. QED
          BY <5>1
      <4>5. BlockEnd(i) = e
        BY <4>2, <4>4 DEF BlockEnd
      <4>6. QED
        BY <3>3, <4>5
    <3>4. QED
      BY <1>1, <3>2, <3>3 DEF BInv, Formats
  <2>4. \A i, j \in DOMAIN allTxns : i < j => allTxns[i].entry < allTxns[j].entry
    BY <2>1 DEF Sorted
  <2>5. QED
    BY <2>2, <2>3, <2>4 DEF EntriesAccounted
<1>2. BInv => EntriesAccounted
  BY <1>1 DEF EntriesAccounted
<1>3. QED
  BY <1>2, BAlways, PTL

\* No two entries share a line of details, and an entry's details are its own
\* (the closure flushTx and the three lists it resets).
THEOREM BankDetailsAreOwn == Spec => []DetailsAreOwn
<1>1. ASSUME BInv, format = "mt940", NEW i \in DOMAIN allTxns, NEW d \in allTxns[i].details
      PROVE  /\ \A j \in DOMAIN allTxns \ {i} : d \notin allTxns[j].details
             /\ Own(file, allTxns[i].entry, d)
  <2> DEFINE A == Have(allTxns)
  <2>1. /\ allTxns \in Seq(Txs) /\ Sorted(allTxns)
        /\ \A x \in A : Told(file, x)
        /\ \A x, y \in A : x # y => x.details \cap y.details = {}
    BY <1>1 DEF BInv, MT940, Complete, Apart
  <2>2. \A j \in DOMAIN allTxns : allTxns[j] \in A
    BY DEF Have
  <2>3. Own(file, allTxns[i].entry, d)
    BY <1>1, <2>1, <2>2 DEF Told
  <2>4. ASSUME NEW j \in DOMAIN allTxns \ {i} PROVE d \notin allTxns[j].details
    <3>1. i \in Nat /\ j \in Nat /\ allTxns[i] \in Txs /\ allTxns[j] \in Txs
      BY <2>1, LenProperties, ElementOfSeq
    <3>2. i < j \/ j < i
      BY <3>1
    <3>3. allTxns[i].entry < allTxns[j].entry \/ allTxns[j].entry < allTxns[i].entry
      BY <2>1, <3>2 DEF Sorted
    <3>4. allTxns[i].entry \in Nat /\ allTxns[j].entry \in Nat
      BY <3>1 DEF Txs
    <3>5. allTxns[i].entry # allTxns[j].entry
      BY <3>3, <3>4
    <3>6. allTxns[i] # allTxns[j]
      BY <3>5
    <3> HIDE DEF A
    <3>7. QED
      BY <1>1, <2>1, <2>2, <3>6
  <2>5. QED
    BY <2>3, <2>4
<1>2. Marks = MarksOf(file) /\ \A d : LastMark(d) = LastOf(file, d)
  BY DEF Marks, MarksOf, Lines, LastMark, LastOf
<1>3. BInv => DetailsAreOwn
  BY <1>1, <1>2 DEF DetailsAreOwn, Own
<1>4. QED
  BY <1>3, BAlways, PTL
=============================================================================
