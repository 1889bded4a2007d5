--------------------------- MODULE HashTableProofs ---------------------------
(***************************************************************************)
(* For every hash (every assignment of rolling sums to keys), every        *)
(* capacity and every interleaving of operations with resizes: the chains  *)
(* hold each key once, where a lookup walks, and the table implements the  *)
(* dictionary its callers rely on.                                         *)
(***************************************************************************)
EXTENDS HashTable, SequenceTheorems, TLAPS

-----------------------------------------------------------------------------
(* Facts about hashes and chains. *)

LEMMA HashRange ==
  ASSUME NEW k \in Key, NEW c \in Nat \ {0}
  PROVE  Hash(k, c) \in 0 .. c - 1
BY SumAssumption DEF Hash

LEMMA AppendFacts ==
  ASSUME NEW chain \in Seq(Entry), NEW e \in Entry
  PROVE  /\ Append(chain, e) \in Seq(Entry)
         /\ Len(Append(chain, e)) = Len(chain) + 1
         /\ Append(chain, e)[Len(chain) + 1] = e
         /\ \A i \in 1 .. Len(chain) : Append(chain, e)[i] = chain[i]
OBVIOUS

LEMMA ConsFacts ==
  ASSUME NEW chain \in Seq(Entry), NEW e \in Entry
  PROVE  /\ <<e>> \o chain \in Seq(Entry)
         /\ Len(<<e>> \o chain) = Len(chain) + 1
         /\ (<<e>> \o chain)[1] = e
         /\ \A i \in 1 .. Len(chain) : (<<e>> \o chain)[i + 1] = chain[i]
OBVIOUS

LEMMA TailFacts ==
  ASSUME NEW chain \in Seq(Entry), chain # <<>>
  PROVE  /\ Head(chain) \in Entry /\ Head(chain) = chain[1] /\ Len(chain) >= 1
         /\ Tail(chain) \in Seq(Entry)
         /\ Len(Tail(chain)) = Len(chain) - 1
         /\ \A i \in 1 .. Len(chain) - 1 : Tail(chain)[i] = chain[i + 1]
OBVIOUS

LEMMA UnlinkedFacts ==
  ASSUME NEW chain \in Seq(Entry), NEW n \in 1 .. Len(chain)
  PROVE  /\ Unlinked(chain, n) \in Seq(Entry)
         /\ Len(Unlinked(chain, n)) = Len(chain) - 1
         /\ \A i \in 1 .. Len(chain) - 1 :
              Unlinked(chain, n)[i] = IF i < n THEN chain[i] ELSE chain[i + 1]
BY DEF Unlinked

-----------------------------------------------------------------------------
(* A table's chains and its set of entries. *)

LEMMA EntryIn ==
  ASSUME NEW t, NEW c, NEW e
  PROVE  e \in EntriesOf(t, c) <=>
           \E b \in 0 .. c - 1 : \E i \in 1 .. Len(t[b]) : t[b][i] = e
BY DEF EntriesOf

Table(c) == [0 .. c - 1 -> Seq(Entry)]

(* Each key in its own chain, and once. *)
Sound(t, c) == t \in Table(c) /\ InItsBucket(t, c) /\ OncePerTable(t, c)

LEMMA EmptyTable ==
  ASSUME NEW c \in Nat
  PROVE  Sound(Empty(c), c) /\ EntriesOf(Empty(c), c) = {}
<1>1. Empty(c) \in Table(c) /\ \A b \in 0 .. c - 1 : Len(Empty(c)[b]) = 0
  BY DEF Empty, Table
<1>2. \A b \in 0 .. c - 1 : 1 .. Len(Empty(c)[b]) = {}
  BY <1>1
<1>3. EntriesOf(Empty(c), c) = {}
  BY <1>2, EntryIn
<1> QED
  BY <1>1, <1>2, <1>3 DEF Sound, InItsBucket, OncePerTable

(* `insert` at the end of a chain. *)
LEMMA TableAppend ==
  ASSUME NEW c \in Nat \ {0}, NEW t, Sound(t, c), NEW e \in Entry,
         \A f \in EntriesOf(t, c) : f.key # e.key
  PROVE  LET u == [t EXCEPT ![Hash(e.key, c)] = Append(@, e)]
         IN  Sound(u, c) /\ EntriesOf(u, c) = EntriesOf(t, c) \cup {e}
<1> SUFFICES ASSUME NEW b, b = Hash(e.key, c), NEW u, u = [t EXCEPT ![b] = Append(@, e)]
             PROVE  Sound(u, c) /\ EntriesOf(u, c) = EntriesOf(t, c) \cup {e}
  OBVIOUS
<1> DEFINE n == Len(t[b])
<1>0. \A i \in 1 .. n : t[b][i].key # e.key
  BY HashRange DEF EntriesOf, Entry
<1>1. b \in 0 .. c - 1
  BY HashRange DEF Entry
<1>2. t[b] \in Seq(Entry) /\ n \in Nat
  BY <1>1 DEF Sound, Table
<1>3. /\ u \in Table(c) /\ Len(u[b]) = n + 1 /\ u[b][n + 1] = e
      /\ \A i \in 1 .. n : u[b][i] = t[b][i]
      /\ \A d \in 0 .. c - 1 : d # b => u[d] = t[d]
  BY <1>1, <1>2, AppendFacts DEF Sound, Table
<1>4. \A i \in 1 .. Len(u[b]) : i \in 1 .. n \/ i = n + 1
  BY <1>2, <1>3
<1>5. InItsBucket(u, c)
  BY <1>1, <1>3, <1>4 DEF Sound, InItsBucket
<1>6. OncePerTable(u, c)
  <2>1. ASSUME NEW i \in 1 .. Len(u[b]), NEW j \in 1 .. Len(u[b]), u[b][i].key = u[b][j].key
        PROVE  i = j
    <3>1. CASE i \in 1 .. n /\ j \in 1 .. n
      BY <1>1, <1>3, <2>1, <3>1 DEF Sound, OncePerTable
    <3>2. CASE i = n + 1 /\ j \in 1 .. n
      BY <1>0, <1>3, <2>1, <3>2
    <3>3. CASE i \in 1 .. n /\ j = n + 1
      BY <1>0, <1>3, <2>1, <3>3
    <3> QED
      BY <1>4, <3>1, <3>2, <3>3
  <2>2. ASSUME NEW d \in 0 .. c - 1, d # b,
               NEW i \in 1 .. Len(u[d]), NEW j \in 1 .. Len(u[d]), u[d][i].key = u[d][j].key
        PROVE  i = j
    BY <1>3, <2>2 DEF Sound, OncePerTable
  <2> QED
    BY <2>1, <2>2 DEF OncePerTable
<1>7. \A i \in 1 .. n : i \in 1 .. Len(u[b])
  BY <1>2, <1>3
<1>8. n + 1 \in 1 .. Len(u[b])
  BY <1>2, <1>3
<1> DEFINE In(v, x) == \E d \in 0 .. c - 1 : \E i \in 1 .. Len(v[d]) : v[d][i] = x
<1>9. ASSUME NEW x PROVE In(u, x) <=> In(t, x) \/ x = e
  <2>1. In(u, x) => In(t, x) \/ x = e
    BY <1>1, <1>3, <1>4
  <2>2. In(t, x) => In(u, x)
    <3> SUFFICES ASSUME NEW d \in 0 .. c - 1, NEW i \in 1 .. Len(t[d]), t[d][i] = x
                 PROVE  In(u, x)
      OBVIOUS
    <3>1. CASE d = b
      BY <1>1, <1>3, <1>7, <3>1
    <3>2. CASE d # b
      BY <1>3, <3>2
    <3> QED
      BY <3>1, <3>2
  <2>3. In(u, e)
    BY <1>1, <1>3, <1>8
  <2> QED
    BY <2>1, <2>2, <2>3
<1>10. EntriesOf(u, c) = EntriesOf(t, c) \cup {e}
  <2> SUFFICES ASSUME NEW x
               PROVE  x \in EntriesOf(u, c) <=> x \in EntriesOf(t, c) \cup {e}
    OBVIOUS
  <2>1. (x \in EntriesOf(u, c) <=> In(u, x)) /\ (x \in EntriesOf(t, c) <=> In(t, x))
    BY DEF EntriesOf
  <2> QED
    BY <1>9, <2>1
<1> QED
  BY <1>3, <1>5, <1>6, <1>10 DEF Sound

(* resize_table puts an entry at the head of its new chain. *)
LEMMA TablePrepend ==
  ASSUME NEW c \in Nat \ {0}, NEW t, Sound(t, c), NEW e \in Entry,
         \A f \in EntriesOf(t, c) : f.key # e.key,
         NEW b \in 0 .. c - 1, b = Hash(e.key, c),
         NEW u \in Table(c), u[b] = <<e>> \o t[b],
         \A d \in 0 .. c - 1 : d # b => u[d] = t[d]
  PROVE  Sound(u, c) /\ EntriesOf(u, c) = EntriesOf(t, c) \cup {e}
<1> DEFINE n == Len(t[b])
<1>0. \A i \in 1 .. n : t[b][i].key # e.key
  BY DEF EntriesOf
<1>1. b \in 0 .. c - 1
  OBVIOUS
<1>2. t[b] \in Seq(Entry) /\ n \in Nat
  BY <1>1 DEF Sound, Table
<1>3. /\ u \in Table(c) /\ Len(u[b]) = n + 1 /\ u[b][1] = e
      /\ \A i \in 1 .. n : u[b][i + 1] = t[b][i]
      /\ \A d \in 0 .. c - 1 : d # b => u[d] = t[d]
  BY <1>1, <1>2, ConsFacts DEF Sound, Table
<1>4. \A i \in 1 .. Len(u[b]) :
        i = 1 \/ (i - 1 \in 1 .. n /\ u[b][i] = t[b][i - 1])
  <2> SUFFICES ASSUME NEW i \in 1 .. Len(u[b]), i # 1
               PROVE  i - 1 \in 1 .. n /\ u[b][i] = t[b][i - 1]
    OBVIOUS
  <2>1. i - 1 \in 1 .. n /\ (i - 1) + 1 = i
    BY <1>2, <1>3
  <2> QED
    BY <2>1, <1>3
<1>5. InItsBucket(u, c)
  <2>1. ASSUME NEW i \in 1 .. Len(u[b]) PROVE Hash(u[b][i].key, c) = b
    <3>1. \A m \in 1 .. n : Hash(t[b][m].key, c) = b
      BY <1>1 DEF Sound, InItsBucket
    <3>2. CASE i = 1
      BY <1>3, <3>2
    <3>3. CASE i # 1
      BY <1>4, <3>1, <3>3
    <3> QED
      BY <3>2, <3>3
  <2>2. ASSUME NEW d \in 0 .. c - 1, d # b, NEW i \in 1 .. Len(u[d])
        PROVE  Hash(u[d][i].key, c) = d
    BY <1>3, <2>2 DEF Sound, InItsBucket
  <2> QED
    BY <2>1, <2>2 DEF InItsBucket
<1>6. OncePerTable(u, c)
  <2>1. ASSUME NEW i \in 1 .. Len(u[b]), NEW j \in 1 .. Len(u[b]), u[b][i].key = u[b][j].key
        PROVE  i = j
    <3>1. CASE i # 1 /\ j # 1
      <4>1. i - 1 \in 1 .. n /\ j - 1 \in 1 .. n /\ t[b][i - 1].key = t[b][j - 1].key
        BY <1>4, <2>1, <3>1
      <4>2. i - 1 = j - 1
        BY <1>1, <4>1 DEF Sound, OncePerTable
      <4> QED
        BY <4>2
    <3>2. CASE i = 1 /\ j # 1
      BY <1>0, <1>3, <1>4, <2>1, <3>2
    <3>3. CASE i # 1 /\ j = 1
      BY <1>0, <1>3, <1>4, <2>1, <3>3
    <3> QED
      BY <3>1, <3>2, <3>3
  <2>2. ASSUME NEW d \in 0 .. c - 1, d # b,
               NEW i \in 1 .. Len(u[d]), NEW j \in 1 .. Len(u[d]), u[d][i].key = u[d][j].key
        PROVE  i = j
    BY <1>3, <2>2 DEF Sound, OncePerTable
  <2> QED
    BY <2>1, <2>2 DEF OncePerTable
<1>7. \A i \in 1 .. n : i + 1 \in 1 .. Len(u[b])
  BY <1>2, <1>3
<1>8. 1 \in 1 .. Len(u[b])
  BY <1>2, <1>3
<1> DEFINE In(v, x) == \E d \in 0 .. c - 1 : \E i \in 1 .. Len(v[d]) : v[d][i] = x
<1>9. ASSUME NEW x PROVE In(u, x) <=> In(t, x) \/ x = e
  <2>1. In(u, x) => In(t, x) \/ x = e
    <3> SUFFICES ASSUME NEW d \in 0 .. c - 1, NEW i \in 1 .. Len(u[d]), u[d][i] = x
                 PROVE  In(t, x) \/ x = e
      OBVIOUS
    <3>1. CASE d = b
      BY <1>3, <1>4, <3>1
    <3>2. CASE d # b
      BY <1>3, <3>2
    <3> QED
      BY <3>1, <3>2
  <2>2. In(t, x) => In(u, x)
    <3> SUFFICES ASSUME NEW d \in 0 .. c - 1, NEW i \in 1 .. Len(t[d]), t[d][i] = x
                 PROVE  In(u, x)
      OBVIOUS
    <3>1. CASE d = b
      BY <1>1, <1>3, <1>7, <3>1
    <3>2. CASE d # b
      BY <1>3, <3>2
    <3> QED
      BY <3>1, <3>2
  <2>3. In(u, e)
    BY <1>1, <1>3, <1>8
  <2> QED
    BY <2>1, <2>2, <2>3
<1>10. EntriesOf(u, c) = EntriesOf(t, c) \cup {e}
  <2> SUFFICES ASSUME NEW x
               PROVE  x \in EntriesOf(u, c) <=> x \in EntriesOf(t, c) \cup {e}
    OBVIOUS
  <2>1. (x \in EntriesOf(u, c) <=> In(u, x)) /\ (x \in EntriesOf(t, c) <=> In(t, x))
    BY DEF EntriesOf
  <2> QED
    BY <1>9, <2>1
<1> QED
  BY <1>3, <1>5, <1>6, <1>10 DEF Sound

(* `delete` takes the n-th entry out of a chain; a resize, the first. *)
LEMMA TailUnlinksFirst ==
  ASSUME NEW chain \in Seq(Entry), chain # <<>>
  PROVE  Tail(chain) = Unlinked(chain, 1)
<1>1. /\ Len(chain) >= 1
      /\ Len(Tail(chain)) = Len(chain) - 1 /\ Tail(chain) \in Seq(Entry)
      /\ \A i \in 1 .. Len(chain) - 1 : Tail(chain)[i] = chain[i + 1]
  BY TailFacts
<1>2. 1 \in 1 .. Len(chain)
  BY <1>1
<1>3. /\ Len(Unlinked(chain, 1)) = Len(chain) - 1 /\ Unlinked(chain, 1) \in Seq(Entry)
      /\ \A i \in 1 .. Len(chain) - 1 : Unlinked(chain, 1)[i] = chain[i + 1]
  BY <1>2, UnlinkedFacts
<1> QED
  BY <1>1, <1>3, SeqEqual

LEMMA TableUnlink ==
  ASSUME NEW c \in Nat \ {0}, NEW t, Sound(t, c),
         NEW b \in 0 .. c - 1, NEW n \in 1 .. Len(t[b]),
         NEW u \in Table(c), u[b] = Unlinked(t[b], n),
         \A d \in 0 .. c - 1 : d # b => u[d] = t[d]
  PROVE  Sound(u, c) /\ EntriesOf(u, c) = EntriesOf(t, c) \ {t[b][n]}
<1> DEFINE In(v, x) == \E d \in 0 .. c - 1 : \E i \in 1 .. Len(v[d]) : v[d][i] = x
           old(i) == IF i < n THEN i ELSE i + 1
<1>1. t[b] \in Seq(Entry) /\ Len(t[b]) \in Nat /\ n \in Nat
  BY DEF Sound, Table
<1>2. /\ u \in Table(c) /\ Len(u[b]) = Len(t[b]) - 1
      /\ \A i \in 1 .. Len(t[b]) - 1 : u[b][i] = IF i < n THEN t[b][i] ELSE t[b][i + 1]
      /\ \A d \in 0 .. c - 1 : d # b => u[d] = t[d]
  BY <1>1, UnlinkedFacts DEF Sound, Table
<1>3. \A i \in 1 .. Len(u[b]) :
        /\ i \in Nat /\ old(i) \in 1 .. Len(t[b]) /\ old(i) # n
        /\ u[b][i] = t[b][old(i)]
  <2> SUFFICES ASSUME NEW i \in 1 .. Len(u[b])
               PROVE  /\ i \in Nat /\ old(i) \in 1 .. Len(t[b]) /\ old(i) # n
                      /\ u[b][i] = t[b][old(i)]
    OBVIOUS
  <2>1. i \in Nat /\ 1 <= i /\ i <= Len(t[b]) - 1
    BY <1>1, <1>2
  <2>2. u[b][i] = IF i < n THEN t[b][i] ELSE t[b][i + 1]
    BY <1>1, <1>2, <2>1
  <2>3. CASE i < n
    BY <1>1, <2>1, <2>2, <2>3
  <2>4. CASE ~(i < n)
    BY <1>1, <2>1, <2>2, <2>4
  <2> QED
    BY <2>3, <2>4
<1>4. \A m \in 1 .. Len(t[b]) : m # n => \E i \in 1 .. Len(u[b]) : old(i) = m
  <2> SUFFICES ASSUME NEW m \in 1 .. Len(t[b]), m # n
               PROVE  \E i \in 1 .. Len(u[b]) : old(i) = m
    OBVIOUS
  <2>1. CASE m < n
    BY <1>1, <1>2, <2>1
  <2>2. CASE m > n
    <3>1. m - 1 \in 1 .. Len(u[b]) /\ old(m - 1) = m
      BY <1>1, <1>2, <2>2
    <3> QED
      BY <3>1
  <2> QED
    BY <1>1, <2>1, <2>2
<1>5. \A i, j \in 1 .. Len(u[b]) : old(i) = old(j) => i = j
  BY <1>3
<1> HIDE DEF old
<1>6. InItsBucket(u, c)
  <2>1. ASSUME NEW i \in 1 .. Len(u[b]) PROVE Hash(u[b][i].key, c) = b
    BY <1>3 DEF Sound, InItsBucket
  <2>2. ASSUME NEW d \in 0 .. c - 1, d # b, NEW i \in 1 .. Len(u[d])
        PROVE  Hash(u[d][i].key, c) = d
    BY <1>2, <2>2 DEF Sound, InItsBucket
  <2> QED
    BY <2>1, <2>2 DEF InItsBucket
<1>7. OncePerTable(u, c)
  <2>1. ASSUME NEW i \in 1 .. Len(u[b]), NEW j \in 1 .. Len(u[b]), u[b][i].key = u[b][j].key
        PROVE  i = j
    <3>1. /\ old(i) \in 1 .. Len(t[b]) /\ old(j) \in 1 .. Len(t[b])
          /\ t[b][old(i)].key = t[b][old(j)].key
      BY <1>3, <2>1
    <3>2. old(i) = old(j)
      BY <3>1 DEF Sound, OncePerTable
    <3> QED
      BY <1>5, <3>2
  <2>2. ASSUME NEW d \in 0 .. c - 1, d # b,
               NEW i \in 1 .. Len(u[d]), NEW j \in 1 .. Len(u[d]), u[d][i].key = u[d][j].key
        PROVE  i = j
    BY <1>2, <2>2 DEF Sound, OncePerTable
  <2> QED
    BY <2>1, <2>2 DEF OncePerTable
<1>8. ASSUME NEW x PROVE In(u, x) <=> In(t, x) /\ x # t[b][n]
  <2>1. ASSUME NEW d \in 0 .. c - 1, NEW i \in 1 .. Len(u[d]), u[d][i] = x
        PROVE  In(t, x) /\ x # t[b][n]
    <3>1. CASE d = b
      <4>1. old(i) \in 1 .. Len(t[b]) /\ old(i) # n /\ t[b][old(i)] = x
        BY <1>3, <2>1, <3>1
      <4>2. t[b][old(i)].key # t[b][n].key
        BY <4>1 DEF Sound, OncePerTable
      <4> QED
        BY <3>1, <4>1, <4>2
    <3>2. CASE d # b
      <4>1. t[d][i] = x /\ i \in 1 .. Len(t[d])
        BY <1>2, <2>1, <3>2
      <4>2. Hash(x.key, c) = d /\ Hash(t[b][n].key, c) = b
        BY <4>1 DEF Sound, InItsBucket
      <4> QED
        BY <3>2, <4>1, <4>2
    <3> QED
      BY <3>1, <3>2
  <2>2. ASSUME NEW d \in 0 .. c - 1, NEW i \in 1 .. Len(t[d]), t[d][i] = x, x # t[b][n]
        PROVE  In(u, x)
    <3>1. CASE d = b
      <4>1. PICK j \in 1 .. Len(u[b]) : old(j) = i
        BY <1>4, <2>2, <3>1
      <4> QED
        BY <1>3, <2>2, <3>1, <4>1
    <3>2. CASE d # b
      BY <1>2, <2>2, <3>2
    <3> QED
      BY <3>1, <3>2
  <2> QED
    BY <2>1, <2>2
<1>9. EntriesOf(u, c) = EntriesOf(t, c) \ {t[b][n]}
  <2> SUFFICES ASSUME NEW x
               PROVE  x \in EntriesOf(u, c) <=> x \in EntriesOf(t, c) \ {t[b][n]}
    OBVIOUS
  <2>1. (x \in EntriesOf(u, c) <=> In(u, x)) /\ (x \in EntriesOf(t, c) <=> In(t, x))
    BY DEF EntriesOf
  <2> QED
    BY <1>8, <2>1
<1> QED
  BY <1>2, <1>6, <1>7, <1>9 DEF Sound

-----------------------------------------------------------------------------
(***************************************************************************)
(* The inductive invariant: TypeOK, Placed and KeysUnique, read as both    *)
(* tables being sound and having no key in common.                         *)
(***************************************************************************)
Fields ==
  /\ capacity \in Nat \ {0} /\ count \in Nat /\ freshCapacity \in Nat
  /\ scan \in 0 .. capacity /\ (Resizing \/ scan = 0)

Apart ==
  \A e \in EntriesOf(buckets, capacity), f \in EntriesOf(fresh, freshCapacity) :
    e.key # f.key

Scanned == \A b \in 0 .. scan - 1 : buckets[b] = <<>>

HashInv ==
  /\ Fields
  /\ Sound(buckets, capacity) /\ Sound(fresh, freshCapacity)
  /\ Apart /\ Scanned

LEMMA InvMeans == HashInv => TypeOK /\ Placed /\ KeysUnique
<1> SUFFICES ASSUME HashInv PROVE TypeOK /\ Placed /\ KeysUnique
  OBVIOUS
<1>1. TypeOK
  BY DEF HashInv, Fields, Sound, Table, TypeOK
<1>2. Placed
  BY DEF HashInv, Sound, Scanned, Placed
<1>3. InOneTable
  BY DEF HashInv, Apart, InOneTable, EntriesOf
<1> QED
  BY <1>1, <1>2, <1>3 DEF HashInv, Sound, KeysUnique

(* The walk from the head stops at the entry with the key: there is one only. *)
LEMMA GetEntryFacts ==
  ASSUME HashInv, NEW k \in Key, Exists(k)
  PROVE  LET b == Hash(k, capacity)
         IN  /\ b \in 0 .. capacity - 1
             /\ GetEntry(k) \in 1 .. Len(buckets[b])
             /\ buckets[b][GetEntry(k)].key = k
<1> DEFINE b == Hash(k, capacity)
           found == Positions(buckets[b], k)
<1>1. b \in 0 .. capacity - 1
  BY HashRange DEF HashInv, Fields
<1>2. PICK i \in found : TRUE
  BY DEF Exists
<1>3. i \in 1 .. Len(buckets[b]) /\ buckets[b][i].key = k
  BY <1>2 DEF Positions
<1>4. \A j \in found : j = i
  BY <1>1, <1>3 DEF HashInv, Sound, OncePerTable, Positions
<1>5. buckets[b] \in Seq(Entry)
  BY <1>1 DEF HashInv, Sound, Table
<1>6. \A j \in found : i <= j
  BY <1>3, <1>4, <1>5
<1>7. GetEntry(k) \in found
  BY <1>2, <1>6 DEF GetEntry
<1> QED
  BY <1>1, <1>7 DEF Positions

(* A key that `exists` does not find is in no chain. *)
LEMMA NotExists ==
  ASSUME HashInv, NEW k \in Key, ~Exists(k)
  PROVE  \A e \in EntriesOf(buckets, capacity) : e.key # k
<1> SUFFICES ASSUME NEW b \in 0 .. capacity - 1, NEW i \in 1 .. Len(buckets[b])
             PROVE  buckets[b][i].key # k
  BY DEF EntriesOf
<1>1. Hash(buckets[b][i].key, capacity) = b
  BY DEF HashInv, Sound, InItsBucket
<1> QED
  BY <1>1 DEF Exists, Positions

LEMMA InitInv == Init => HashInv /\ Bindings = [k \in Key |-> NULL]
<1> SUFFICES ASSUME Init PROVE HashInv /\ Bindings = [k \in Key |-> NULL]
  OBVIOUS
<1>1. /\ Sound(buckets, capacity) /\ EntriesOf(buckets, capacity) = {}
      /\ Sound(fresh, freshCapacity) /\ EntriesOf(fresh, freshCapacity) = {}
  BY EmptyTable, CapacityAssumption DEF Init
<1>2. Fields /\ Scanned
  BY CapacityAssumption DEF Init, Fields, Scanned
<1> QED
  BY <1>1, <1>2 DEF HashInv, Apart, Bindings

-----------------------------------------------------------------------------
(* The bindings are a matter of the set of entries alone. *)

OneKey(all) == all \subseteq Entry /\ \A e, f \in all : e.key = f.key => e = f

BindingsIn(all) ==
  [k \in Key |-> IF \E e \in all : e.key = k
                   THEN (CHOOSE e \in all : e.key = k).value
                   ELSE NULL]

Entries == EntriesOf(buckets, capacity) \cup EntriesOf(fresh, freshCapacity)

LEMMA SoundOneKey ==
  ASSUME NEW c \in Nat, NEW t, Sound(t, c)
  PROVE  OneKey(EntriesOf(t, c))
<1>1. EntriesOf(t, c) \subseteq Entry
  BY DEF Sound, Table, EntriesOf
<1>2. ASSUME NEW b \in 0 .. c - 1, NEW i \in 1 .. Len(t[b]),
             NEW d \in 0 .. c - 1, NEW j \in 1 .. Len(t[d]), t[b][i].key = t[d][j].key
      PROVE  t[b][i] = t[d][j]
  <2>1. b = d
    BY <1>2 DEF Sound, InItsBucket
  <2> QED
    BY <1>2, <2>1 DEF Sound, OncePerTable
<1> QED
  BY <1>1, <1>2 DEF OneKey, EntriesOf

LEMMA EntriesOneKey == HashInv => OneKey(Entries) /\ Bindings = BindingsIn(Entries)
<1> SUFFICES ASSUME HashInv PROVE OneKey(Entries)
  BY DEF Bindings, BindingsIn, Entries
<1>1. OneKey(EntriesOf(buckets, capacity)) /\ OneKey(EntriesOf(fresh, freshCapacity))
  BY SoundOneKey DEF HashInv, Fields
<1> QED
  BY <1>1 DEF HashInv, Apart, OneKey, Entries

LEMMA BindingsType ==
  ASSUME NEW all, OneKey(all)
  PROVE  /\ BindingsIn(all) \in [Key -> Value \cup {NULL}]
         /\ \A e \in all : e.key \in Key /\ BindingsIn(all)[e.key] = e.value
         /\ \A k \in Key : (\A e \in all : e.key # k) => BindingsIn(all)[k] = NULL
BY DEF OneKey, BindingsIn, Entry

LEMMA BindOne ==
  ASSUME NEW all, OneKey(all), NEW e \in Entry, \A f \in all : f.key # e.key
  PROVE  BindingsIn(all \cup {e}) = [BindingsIn(all) EXCEPT ![e.key] = e.value]
<1>1. OneKey(all \cup {e})
  BY DEF OneKey
<1>2. ASSUME NEW k \in Key
      PROVE  BindingsIn(all \cup {e})[k] = [BindingsIn(all) EXCEPT ![e.key] = e.value][k]
  <2>1. CASE k = e.key
    BY <1>1, <2>1, BindingsType
  <2>2. CASE k # e.key /\ \E f \in all : f.key = k
    BY <1>1, <2>2, BindingsType
  <2>3. CASE k # e.key /\ \A f \in all : f.key # k
    BY <1>1, <2>3, BindingsType
  <2> QED
    BY <2>1, <2>2, <2>3
<1> QED
  BY <1>2 DEF BindingsIn

LEMMA UnbindOne ==
  ASSUME NEW all, OneKey(all), NEW e \in all
  PROVE  BindingsIn(all \ {e}) = [BindingsIn(all) EXCEPT ![e.key] = NULL]
<1>1. OneKey(all \ {e})
  BY DEF OneKey
<1>2. ASSUME NEW k \in Key
      PROVE  BindingsIn(all \ {e})[k] = [BindingsIn(all) EXCEPT ![e.key] = NULL][k]
  <2>1. CASE k = e.key
    BY <1>1, <2>1, BindingsType DEF OneKey
  <2>2. CASE k # e.key /\ \E f \in all : f.key = k
    BY <1>1, <2>2, BindingsType
  <2>3. CASE k # e.key /\ \A f \in all : f.key # k
    BY <1>1, <2>3, BindingsType
  <2> QED
    BY <2>1, <2>2, <2>3
<1> QED
  BY <1>2 DEF BindingsIn

-----------------------------------------------------------------------------
(* What each operation does to the invariant and to the bindings. *)

LEMMA InsertStep ==
  ASSUME HashInv, NEW k \in Key, NEW v \in Value, Insert(k, v)
  PROVE  /\ HashInv'
         /\ Bindings[k] = NULL /\ Bindings' = [Bindings EXCEPT ![k] = v]
<1> DEFINE b == Hash(k, capacity)
           e == [key |-> k, value |-> v]
           all == EntriesOf(buckets, capacity)
<1>1. /\ capacity \in Nat \ {0} /\ freshCapacity = 0 /\ scan = 0
      /\ Sound(buckets, capacity) /\ e \in Entry /\ e.key = k
      /\ UNCHANGED <<capacity, count>> /\ count \in Nat
  BY DEF Insert, Resizing, HashInv, Fields, Entry
<1>2. \A f \in all : f.key # k
  BY NotExists DEF Insert
<1>4. buckets' = [buckets EXCEPT ![b] = Append(@, e)]
  BY DEF Insert
<1>5. Sound(buckets', capacity) /\ EntriesOf(buckets', capacity) = all \cup {e}
  <2>1. /\ buckets' = [buckets EXCEPT ![Hash(e.key, capacity)] = Append(@, e)]
        /\ \A f \in EntriesOf(buckets, capacity) : f.key # e.key
    BY <1>1, <1>2, <1>4
  <2> HIDE DEF b, e
  <2> QED
    BY <1>1, <2>1, TableAppend
<1>6. freshCapacity' \in Nat /\ Sound(fresh', freshCapacity') /\ scan' = 0
  <2>1. CASE BeginResize(2 * capacity)
    <3>1. freshCapacity' \in Nat /\ fresh' = Empty(freshCapacity') /\ scan' = 0
      BY <1>1, <2>1 DEF BeginResize
    <3> QED
      BY <3>1, EmptyTable
  <2>2. CASE UNCHANGED <<fresh, freshCapacity, scan>>
    BY <1>1, <2>2 DEF HashInv
  <2> QED
    BY <2>1, <2>2 DEF Insert
<1>7. EntriesOf(fresh, freshCapacity) = {} /\ EntriesOf(fresh', freshCapacity') = {}
  <2>1. EntriesOf(fresh, freshCapacity) = {}
    BY <1>1 DEF EntriesOf
  <2>2. CASE BeginResize(2 * capacity)
    <3>1. freshCapacity' \in Nat /\ fresh' = Empty(freshCapacity')
      BY <1>1, <2>2 DEF BeginResize
    <3> QED
      BY <2>1, <3>1, EmptyTable
  <2>3. CASE UNCHANGED <<fresh, freshCapacity, scan>>
    BY <2>1, <2>3
  <2> QED
    BY <2>2, <2>3 DEF Insert
<1>8. HashInv'
  BY <1>1, <1>5, <1>6, <1>7 DEF HashInv, Fields, Apart, Scanned
<1>9. OneKey(all)
  BY <1>1, SoundOneKey
<1>10. Bindings = BindingsIn(all) /\ Bindings' = BindingsIn(all \cup {e})
  BY <1>1, <1>5, <1>7 DEF Bindings, BindingsIn
<1> QED
  BY <1>1, <1>2, <1>8, <1>9, <1>10, BindingsType, BindOne

LEMMA DeleteStep ==
  ASSUME HashInv, NEW k \in Key, Delete(k)
  PROVE  /\ HashInv'
         /\ Bindings[k] # NULL /\ Bindings' = [Bindings EXCEPT ![k] = NULL]
<1> DEFINE b == Hash(k, capacity)
           n == GetEntry(k)
           e == buckets[b][n]
           all == EntriesOf(buckets, capacity)
<1>1. /\ capacity \in Nat \ {0} /\ freshCapacity = 0 /\ scan = 0
      /\ Sound(buckets, capacity)
      /\ UNCHANGED <<capacity, count, fresh, freshCapacity, scan>>
  BY DEF Delete, Resizing, HashInv, Fields
<1>2. b \in 0 .. capacity - 1 /\ n \in 1 .. Len(buckets[b]) /\ e.key = k
  BY GetEntryFacts DEF Delete
<1>3. buckets' = [buckets EXCEPT ![b] = Unlinked(@, n)]
  BY DEF Delete
<1>4. Sound(buckets', capacity) /\ EntriesOf(buckets', capacity) = all \ {e}
  <2>1. buckets \in Table(capacity) /\ Unlinked(buckets[b], n) \in Seq(Entry)
    BY <1>1, <1>2, UnlinkedFacts DEF Sound, Table
  <2> HIDE DEF b, n
  <2>2. /\ buckets' \in Table(capacity) /\ buckets'[b] = Unlinked(buckets[b], n)
        /\ \A d \in 0 .. capacity - 1 : d # b => buckets'[d] = buckets[d]
    BY <1>2, <1>3, <2>1 DEF Table
  <2> QED
    BY <1>1, <1>2, <2>2, TableUnlink
<1>5. EntriesOf(fresh, freshCapacity) = {}
  BY <1>1 DEF EntriesOf
<1>6. HashInv'
  <2>1. Sound(fresh', freshCapacity') /\ EntriesOf(fresh', freshCapacity') = {}
    BY <1>1, <1>5 DEF HashInv
  <2>2. Fields' /\ Scanned'
    BY <1>1 DEF HashInv, Fields, Resizing, Scanned
  <2> QED
    BY <1>1, <1>4, <2>1, <2>2 DEF HashInv, Apart
<1>7. OneKey(all) /\ e \in all
  <2>1. OneKey(all)
    BY <1>1, SoundOneKey
  <2> HIDE DEF b, n
  <2>2. e \in all
    BY <1>2 DEF EntriesOf
  <2> QED
    BY <2>1, <2>2
<1>8. Bindings = BindingsIn(all) /\ Bindings' = BindingsIn(all \ {e})
  BY <1>1, <1>4, <1>5 DEF Bindings, BindingsIn
<1>9. Bindings[k] = e.value /\ e.value # NULL
  BY <1>2, <1>7, <1>8, BindingsType, NullAssumption DEF OneKey, Entry
<1> QED
  BY <1>2, <1>6, <1>7, <1>8, <1>9, UnbindOne

LEMMA ResizeBegins ==
  ASSUME HashInv, NEW c \in 1 .. MaxCapacity, Resize(c)
  PROVE  HashInv' /\ Bindings' = Bindings
<1>1. /\ freshCapacity = 0 /\ freshCapacity' = c /\ c \in Nat /\ scan' = 0
      /\ fresh' = Empty(c) /\ UNCHANGED table
  BY CapacityAssumption DEF Resize, Resizing, BeginResize
<1>2. /\ Sound(fresh', freshCapacity') /\ EntriesOf(fresh', freshCapacity') = {}
      /\ EntriesOf(fresh, freshCapacity) = {}
  <2>1. EntriesOf(fresh, freshCapacity) = {}
    BY <1>1 DEF EntriesOf
  <2> QED
    BY <1>1, <2>1, EmptyTable
<1>3. HashInv'
  BY <1>1, <1>2 DEF HashInv, Fields, table, Apart, Scanned
<1> QED
  BY <1>1, <1>2, <1>3 DEF Bindings, table

(* The entry leaves the old table and joins the new one: together, no change. *)
LEMMA MoveEntryStep ==
  ASSUME HashInv, MoveEntry
  PROVE  HashInv' /\ Bindings' = Bindings
<1> DEFINE e == Head(buckets[scan])
           old == EntriesOf(buckets, capacity)
           new == EntriesOf(fresh, freshCapacity)
<1>1. /\ capacity \in Nat \ {0} /\ freshCapacity \in Nat \ {0} /\ scan \in 0 .. capacity - 1
      /\ Sound(buckets, capacity) /\ Sound(fresh, freshCapacity)
      /\ UNCHANGED <<capacity, count, freshCapacity, scan>>
  BY DEF MoveEntry, Resizing, HashInv, Fields
<1>2. buckets[scan] \in Seq(Entry) /\ buckets[scan] # <<>>
  BY <1>1 DEF Sound, Table, MoveEntry
<1>3. /\ e \in Entry /\ e = buckets[scan][1] /\ 1 \in 1 .. Len(buckets[scan])
      /\ Tail(buckets[scan]) = Unlinked(buckets[scan], 1)
  <2>1. /\ Head(buckets[scan]) \in Entry /\ Head(buckets[scan]) = buckets[scan][1]
        /\ Len(buckets[scan]) >= 1 /\ Len(buckets[scan]) \in Nat
    BY <1>2, TailFacts
  <2>2. Tail(buckets[scan]) = Unlinked(buckets[scan], 1)
    BY <1>2, TailUnlinksFirst
  <2> QED
    BY <2>1, <2>2
<1>4. e \in old
  BY <1>1, <1>3 DEF EntriesOf
<1>5. Sound(buckets', capacity) /\ EntriesOf(buckets', capacity) = old \ {e}
  <2>1. buckets' = [buckets EXCEPT ![scan] = Unlinked(buckets[scan], 1)]
    BY <1>3 DEF MoveEntry
  <2>2. buckets \in Table(capacity) /\ Unlinked(buckets[scan], 1) \in Seq(Entry)
    BY <1>1, <1>2, <1>3, UnlinkedFacts DEF Sound
  <2>3. /\ buckets' \in Table(capacity) /\ buckets'[scan] = Unlinked(buckets[scan], 1)
        /\ \A d \in 0 .. capacity - 1 : d # scan => buckets'[d] = buckets[d]
    BY <1>1, <2>1, <2>2 DEF Table
  <2> QED
    BY <1>1, <1>3, <2>3, TableUnlink
<1>6. Sound(fresh', freshCapacity) /\ EntriesOf(fresh', freshCapacity) = new \cup {e}
  <2> DEFINE b == Hash(e.key, freshCapacity)
  <2>1. b \in 0 .. freshCapacity - 1
    BY <1>1, <1>3, HashRange DEF Entry
  <2>2. fresh' = [fresh EXCEPT ![b] = <<e>> \o @]
    BY DEF MoveEntry
  <2>3. \A f \in EntriesOf(fresh, freshCapacity) : f.key # e.key
    BY <1>4 DEF HashInv, Apart
  <2>4. fresh \in Table(freshCapacity) /\ fresh[b] \in Seq(Entry)
    BY <1>1, <2>1 DEF Sound, Table
  <2> HIDE DEF e
  <2>5. <<e>> \o fresh[b] \in Seq(Entry)
    BY <1>3, <2>4, ConsFacts
  <2>6. /\ fresh' \in Table(freshCapacity) /\ fresh'[b] = <<e>> \o fresh[b]
        /\ \A d \in 0 .. freshCapacity - 1 : d # b => fresh'[d] = fresh[d]
    BY <2>1, <2>2, <2>4, <2>5 DEF Table
  <2>7. b = Hash(e.key, freshCapacity)
    OBVIOUS
  <2>8. UNCHANGED freshCapacity /\ e \in Entry /\ Sound(fresh, freshCapacity)
    BY <1>1, <1>3
  <2> HIDE DEF b
  <2> QED
    BY <1>1, <2>1, <2>3, <2>6, <2>7, <2>8, TablePrepend
<1>7. \A f \in old \ {e} : f.key # e.key
  BY <1>1, <1>4, SoundOneKey DEF OneKey
<1>8. Apart'
  BY <1>1, <1>5, <1>6, <1>7 DEF HashInv, Apart
<1>9. Fields' /\ Scanned'
  <2>1. Fields'
    BY <1>1 DEF HashInv, Fields, Resizing
  <2>2. \A d \in 0 .. scan - 1 : buckets'[d] = buckets[d]
    BY <1>1 DEF MoveEntry, Sound, Table
  <2> QED
    BY <1>1, <2>1, <2>2 DEF HashInv, Scanned
<1>10. (old \ {e}) \cup (new \cup {e}) = old \cup new
  BY <1>4
<1>11. Bindings = BindingsIn(old \cup new)
  BY DEF Bindings, BindingsIn
<1>12. Bindings' = BindingsIn((old \ {e}) \cup (new \cup {e}))
  BY <1>1, <1>5, <1>6 DEF Bindings, BindingsIn
<1> QED
  BY <1>1, <1>5, <1>6, <1>8, <1>9, <1>10, <1>11, <1>12 DEF HashInv

LEMMA NextBucketStep ==
  ASSUME HashInv, NextBucket
  PROVE  HashInv' /\ Bindings' = Bindings
<1>1. Fields' /\ Scanned'
  BY DEF NextBucket, table, Resizing, HashInv, Fields, Scanned
<1> QED
  BY <1>1 DEF NextBucket, table, HashInv, Apart, Bindings

(* The scan has emptied the old buckets: the new table holds everything. *)
LEMMA FinishResizeStep ==
  ASSUME HashInv, FinishResize
  PROVE  HashInv' /\ Bindings' = Bindings
<1> DEFINE new == EntriesOf(fresh, freshCapacity)
<1>1. /\ freshCapacity \in Nat \ {0} /\ capacity \in Nat \ {0} /\ scan = capacity
      /\ buckets' = fresh /\ capacity' = freshCapacity /\ UNCHANGED count
      /\ fresh' = Empty(0) /\ freshCapacity' = 0 /\ scan' = 0
  BY DEF FinishResize, Resizing, HashInv, Fields
<1>2. EntriesOf(buckets, capacity) = {}
  <2>1. \A b \in 0 .. capacity - 1 : Len(buckets[b]) = 0
    BY <1>1 DEF HashInv, Scanned
  <2> QED
    BY <2>1 DEF EntriesOf
<1>3. Sound(fresh', freshCapacity') /\ EntriesOf(fresh', freshCapacity') = {}
  BY <1>1, EmptyTable
<1>4. HashInv'
  BY <1>1, <1>3 DEF HashInv, Fields, Resizing, Apart, Scanned
<1>5. Bindings = BindingsIn({} \cup new) /\ Bindings' = BindingsIn(new \cup {})
  BY <1>1, <1>2, <1>3 DEF Bindings, BindingsIn
<1> QED
  BY <1>4, <1>5

-----------------------------------------------------------------------------
(* The theorems. *)

LEMMA NextStep ==
  ASSUME HashInv, [Next]_vars
  PROVE  HashInv' /\ [Dict!Next]_Bindings
<1>1. CASE \E k \in Key, v \in Value : Insert(k, v)
  BY <1>1, InsertStep DEF Dict!Next, Dict!Insert, Dict!Bound
<1>2. CASE \E k \in Key : Delete(k)
  BY <1>2, DeleteStep DEF Dict!Next, Dict!Delete, Dict!Bound
<1>3. CASE \E c \in 1 .. MaxCapacity : Resize(c)
  BY <1>3, ResizeBegins
<1>4. CASE MoveEntry
  BY <1>4, MoveEntryStep
<1>5. CASE NextBucket
  BY <1>5, NextBucketStep
<1>6. CASE FinishResize
  BY <1>6, FinishResizeStep
<1>7. CASE UNCHANGED vars
  BY <1>7 DEF vars, HashInv, Fields, Resizing, Apart, Scanned, Bindings
<1> QED
  BY <1>1, <1>2, <1>3, <1>4, <1>5, <1>6, <1>7 DEF Next

LEMMA InvAlways == Spec => []HashInv
<1>1. Init => HashInv
  BY InitInv
<1>2. HashInv /\ [Next]_vars => HashInv'
  BY NextStep
<1> QED
  BY <1>1, <1>2, PTL DEF Spec

(***************************************************************************)
(* The table is well typed: chains hold entries, in as many buckets as the *)
(* capacity says, and resize_table's loop stays within the old ones.       *)
(***************************************************************************)
THEOREM TypeCorrect == Spec => []TypeOK
BY InvAlways, InvMeans, PTL

(***************************************************************************)
(* Every entry stays where a lookup of its key walks, in every state of    *)
(* every resize: resize_table rehashes each entry for the table it puts it *)
(* in.                                                                     *)
(***************************************************************************)
THEOREM EntriesStayPlaced == Spec => []Placed
BY InvAlways, InvMeans, PTL

(***************************************************************************)
(* No key is in the table twice: insert checks exists, and an entry that   *)
(* resize_table moves is in no chain before it is in the next.             *)
(***************************************************************************)
THEOREM KeysStayUnique == Spec => []KeysUnique
BY InvAlways, InvMeans, PTL

(***************************************************************************)
(* get_value finds what was inserted, and nothing else.                    *)
(***************************************************************************)
THEOREM LookupsAreRight == Spec => []LookupAnswers
<1>1. HashInv => LookupAnswers
  <2> SUFFICES ASSUME HashInv, ~Resizing, NEW k \in Key PROVE GetValue(k) = Bindings[k]
    BY DEF LookupAnswers
  <2> DEFINE b == Hash(k, capacity)
  <2>1. OneKey(Entries) /\ Bindings = BindingsIn(Entries)
    BY EntriesOneKey
  <2>2. EntriesOf(fresh, freshCapacity) = {}
    BY DEF Resizing, EntriesOf
  <2>3. CASE Exists(k)
    <3>1. /\ b \in 0 .. capacity - 1 /\ GetEntry(k) \in 1 .. Len(buckets[b])
          /\ buckets[b][GetEntry(k)].key = k
      BY <2>3, GetEntryFacts
    <3>2. buckets[b][GetEntry(k)] \in Entries
      BY <3>1 DEF Entries, EntriesOf
    <3> QED
      BY <2>1, <2>3, <3>1, <3>2, BindingsType DEF GetValue
  <2>4. CASE ~Exists(k)
    BY <2>1, <2>2, <2>4, NotExists, BindingsType DEF GetValue, Entries
  <2> QED
    BY <2>3, <2>4
<1> QED
  BY <1>1, InvAlways, PTL

(***************************************************************************)
(* The table implements the dictionary: an insert binds a free key, a      *)
(* delete unbinds a bound one, and growing the table, whose steps no other *)
(* operation interleaves with, changes no binding in any of its steps.     *)
(***************************************************************************)
THEOREM ImplementsDictionary == Spec => DictSpec
<1>1. Init => Dict!Init
  BY InitInv DEF Dict!Init
<1>2. HashInv /\ [Next]_vars => [Dict!Next]_Bindings
  BY NextStep
<1> QED
  BY <1>1, <1>2, InvAlways, PTL DEF Spec, DictSpec, Dict!Spec

(***************************************************************************)
(* Each operation binds or unbinds its own key, and a resize none at all:  *)
(* delete finds the entry of its key wherever it is in its chain.          *)
(***************************************************************************)
THEOREM OperationsAreRight == Spec => OperationsAgree
<1>1. ASSUME HashInv, NEW k \in Key, Delete(k) PROVE Dict!Delete(k)
  BY <1>1, DeleteStep DEF Dict!Delete, Dict!Bound
<1>2. ASSUME HashInv, NEW k \in Key, NEW v \in Value, Insert(k, v) PROVE Dict!Insert(k, v)
  BY <1>2, InsertStep DEF Dict!Insert, Dict!Bound
<1>3. ASSUME HashInv, ResizeStep \/ \E c \in 1 .. MaxCapacity : Resize(c)
      PROVE  UNCHANGED Bindings
  BY <1>3, ResizeBegins, MoveEntryStep, NextBucketStep, FinishResizeStep DEF ResizeStep
<1>4. HashInv /\ [Next]_vars => [AgreesWithDict]_vars
  BY <1>1, <1>2, <1>3 DEF AgreesWithDict
<1> QED
  BY <1>4, InvAlways, PTL DEF Spec, OperationsAgree
=============================================================================
