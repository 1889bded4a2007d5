------------------------------ MODULE HashTable ------------------------------
(***************************************************************************)
(* src/src/hash_table.c: separate chaining.  A bucket is the sequence of   *)
(* its entries from the head of the chain; the chain's next/prev pointers  *)
(* are abstracted to the order of that sequence.                           *)
(*                                                                         *)
(* `insert`, `delete` and `create_table` are one step each.  resize_table  *)
(* is followed one loop iteration at a time, because its two tables share  *)
(* the entries while they are relinked: `buckets` is then what is left to  *)
(* move, `fresh` is new_buckets, and `scan` is the loop variable i.        *)
(***************************************************************************)
EXTENDS Naturals, Sequences, FiniteSets

CONSTANTS
  Key, Value, NULL,
  Sum,              \* the rolling sum of a key, before it is reduced
  InitialCapacity,  \* the argument of create_table
  MaxCapacity       \* bound: resize_table is not called with more buckets

ASSUME SumAssumption == Sum \in [Key -> Nat]
ASSUME CapacityAssumption ==
  InitialCapacity \in Nat \ {0} /\ MaxCapacity \in Nat
ASSUME NullAssumption == NULL \notin Value

VARIABLES
  buckets, capacity, count,     \* the fields of struct s_hash_table
  fresh, freshCapacity, scan    \* the locals of a resize_table under way

table == <<buckets, capacity, count>>
vars == <<buckets, capacity, count, fresh, freshCapacity, scan>>

Entry == [key : Key, value : Value]

Hash(key, c) == Sum[key] % c

Empty(c) == [b \in 0 .. c - 1 |-> <<>>]

Resizing == freshCapacity # 0

-----------------------------------------------------------------------------
(* Looking up: get_value, get_entry and exists walk one chain. *)

Positions(chain, key) == {i \in 1 .. Len(chain) : chain[i].key = key}

Exists(key) == Positions(buckets[Hash(key, capacity)], key) # {}

(* The first match of the chain, as the walk from the head finds it. *)
GetEntry(key) ==
  LET found == Positions(buckets[Hash(key, capacity)], key)
  IN  CHOOSE i \in found : \A j \in found : i <= j

GetValue(key) ==
  IF Exists(key) THEN buckets[Hash(key, capacity)][GetEntry(key)].value ELSE NULL

-----------------------------------------------------------------------------
Init ==                                                     \* create_table
  /\ buckets = Empty(InitialCapacity) /\ capacity = InitialCapacity /\ count = 0
  /\ fresh = Empty(0) /\ freshCapacity = 0 /\ scan = 0

(* resize_table up to its loop. *)
BeginResize(c) == fresh' = Empty(c) /\ freshCapacity' = c /\ scan' = 0

(* count / capacity >= LOAD_FACTOR_THRESHOLD *)
LoadFactorReached == 10 * count >= 7 * capacity

(* Mutant: an insert that does not ask `exists` first. *)
InsertUnchecked(key, value) ==
  /\ ~Resizing
  /\ buckets' = [buckets EXCEPT ![Hash(key, capacity)] =
                    Append(@, [key |-> key, value |-> value])]
  /\ UNCHANGED <<capacity, count, fresh, freshCapacity, scan>>

(* The load factor is looked at only when the key's bucket was empty. *)
Insert(key, value) ==
  LET b == Hash(key, capacity)
  IN  /\ ~Resizing
      /\ ~Exists(key)
      /\ buckets' = [buckets EXCEPT
                       ![b] = Append(@, [key |-> key, value |-> value])]
      /\ UNCHANGED <<capacity, count>>
      /\ IF buckets[b] = <<>> /\ LoadFactorReached
           THEN BeginResize(2 * capacity)
           ELSE UNCHANGED <<fresh, freshCapacity, scan>>

(* Mutant: the bucket's head is moved past the first entry, whichever matched. *)
UnlinkedFirst(chain, i) == Tail(chain)

(* The chain without its i-th entry. *)
Unlinked(chain, i) ==
  [j \in 1 .. Len(chain) - 1 |-> IF j < i THEN chain[j] ELSE chain[j + 1]]

Delete(key) ==
  LET b == Hash(key, capacity)
  IN  /\ ~Resizing
      /\ Exists(key)
      /\ buckets' = [buckets EXCEPT ![b] = Unlinked(@, GetEntry(key))]
      /\ UNCHANGED <<capacity, count, fresh, freshCapacity, scan>>

Resize(c) == ~Resizing /\ BeginResize(c) /\ UNCHANGED table

(* Mutant: the entry is rehashed with the capacity the table still has. *)
MoveEntryOldHash ==
  /\ Resizing /\ scan < capacity /\ buckets[scan] # <<>>
  /\ LET entry == Head(buckets[scan])
     IN  fresh' = [fresh EXCEPT ![Hash(entry.key, capacity)] = <<entry>> \o @]
  /\ buckets' = [buckets EXCEPT ![scan] = Tail(@)]
  /\ UNCHANGED <<capacity, count, freshCapacity, scan>>

(* One turn of the inner loop: the entry becomes the head of its new chain. *)
MoveEntry ==
  /\ Resizing /\ scan < capacity /\ buckets[scan] # <<>>
  /\ LET entry == Head(buckets[scan])
     IN  fresh' = [fresh EXCEPT ![Hash(entry.key, freshCapacity)] = <<entry>> \o @]
  /\ buckets' = [buckets EXCEPT ![scan] = Tail(@)]
  /\ UNCHANGED <<capacity, count, freshCapacity, scan>>

NextBucket ==
  /\ Resizing /\ scan < capacity /\ buckets[scan] = <<>>
  /\ scan' = scan + 1
  /\ UNCHANGED <<table, fresh, freshCapacity>>

(* Mutant: the table gets its new buckets but keeps its old capacity. *)
FinishResizeOldCapacity ==
  /\ Resizing /\ scan = capacity
  /\ buckets' = fresh
  /\ fresh' = Empty(0) /\ freshCapacity' = 0 /\ scan' = 0
  /\ UNCHANGED <<capacity, count>>

FinishResize ==
  /\ Resizing /\ scan = capacity
  /\ buckets' = fresh /\ capacity' = freshCapacity
  /\ fresh' = Empty(0) /\ freshCapacity' = 0 /\ scan' = 0
  /\ UNCHANGED count

Next ==
  \/ \E k \in Key, v \in Value : Insert(k, v)
  \/ \E k \in Key : Delete(k)
  \/ \E c \in 1 .. MaxCapacity : Resize(c)
  \/ MoveEntry \/ NextBucket \/ FinishResize

(* One turn of resize_table's loops, or its end. *)
ResizeStep == MoveEntry \/ NextBucket \/ FinishResize

Spec == Init /\ [][Next]_vars

-----------------------------------------------------------------------------
TypeOK ==
  /\ capacity \in Nat \ {0}
  /\ count \in Nat
  /\ buckets \in [0 .. capacity - 1 -> Seq(Entry)]
  /\ freshCapacity \in Nat
  /\ fresh \in [0 .. freshCapacity - 1 -> Seq(Entry)]
  /\ scan \in 0 .. capacity /\ (Resizing \/ scan = 0)

(***************************************************************************)
(* Every entry is in the chain its key hashes to: in the old table for the *)
(* old capacity until it is moved, in the new one for the new capacity     *)
(* afterwards.  The buckets the scan has passed are empty.  A lookup that  *)
(* walks one chain depends on it.                                          *)
(***************************************************************************)
InItsBucket(t, c) ==
  \A b \in 0 .. c - 1 : \A i \in 1 .. Len(t[b]) : Hash(t[b][i].key, c) = b

Placed ==
  /\ InItsBucket(buckets, capacity)
  /\ InItsBucket(fresh, freshCapacity)
  /\ \A b \in 0 .. scan - 1 : buckets[b] = <<>>

(***************************************************************************)
(* A key has one entry, in one of the two tables: an insert that trusts    *)
(* `exists`, or a relinking that visits an entry twice, would duplicate it.*)
(***************************************************************************)
OncePerTable(t, c) ==
  \A b \in 0 .. c - 1 : \A i, j \in 1 .. Len(t[b]) :
    t[b][i].key = t[b][j].key => i = j

InOneTable ==
  \A b \in 0 .. capacity - 1, d \in 0 .. freshCapacity - 1 :
    \A i \in 1 .. Len(buckets[b]), j \in 1 .. Len(fresh[d]) :
      buckets[b][i].key # fresh[d][j].key

KeysUnique ==
  OncePerTable(buckets, capacity) /\ OncePerTable(fresh, freshCapacity) /\ InOneTable

(***************************************************************************)
(* The hash table implements the dictionary: whatever its capacity and     *)
(* however far a resize has come, the entries of both tables together are  *)
(* the dictionary's bindings.                                              *)
(***************************************************************************)
EntriesOf(t, c) == UNION {{t[b][i] : i \in 1 .. Len(t[b])} : b \in 0 .. c - 1}

Bindings ==
  LET all == EntriesOf(buckets, capacity) \cup EntriesOf(fresh, freshCapacity)
  IN  [k \in Key |-> IF \E e \in all : e.key = k
                       THEN (CHOOSE e \in all : e.key = k).value
                       ELSE NULL]

Dict == INSTANCE Dictionary WITH dict <- Bindings
DictSpec == Dict!Spec

(* What one step of the table does to the dictionary it holds. *)
AgreesWithDict ==
  /\ \A k \in Key : /\ Delete(k) => Dict!Delete(k)
                     /\ \A v \in Value : Insert(k, v) => Dict!Insert(k, v)
  /\ (ResizeStep \/ \E c \in 1 .. MaxCapacity : Resize(c)) => UNCHANGED Bindings

(***************************************************************************)
(* Each operation is the dictionary's operation on the same key -- delete  *)
(* unlinks the entry of its own key, whichever place in the chain it has,  *)
(* and an insert that starts a resize still only inserts -- and no step of *)
(* a resize changes a binding.                                             *)
(***************************************************************************)
OperationsAgree == [][AgreesWithDict]_vars

(* Between operations a lookup answers what the dictionary holds. *)
LookupAnswers == ~Resizing => \A k \in Key : GetValue(k) = Bindings[k]
=============================================================================
