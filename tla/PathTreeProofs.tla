--------------------------- MODULE PathTreeProofs ----------------------------
(***************************************************************************)
(* For every set of paths and every bound, as long as no freed block is    *)
(* handed out again: the path tree keeps its shape, remove_node never      *)
(* unlinks the wrong node, each live node is the one node at a path, and   *)
(* the index leads to it.                                                  *)
(***************************************************************************)
EXTENDS PathTree, LinesProofs, FiniteSetTheorems

(***************************************************************************)
(* TreeShape and UplinkNotMisled are inductive together with where         *)
(* addresses come from: neither a live node nor an uplink is newer than    *)
(* the newest allocation, so that the next one is nobody's neighbour; and  *)
(* the root is never freed.                                                *)
(***************************************************************************)
HeapBounds ==
  /\ Root \in live /\ tag[Root] = "root"
  /\ \A a \in live : a <= alloc /\ uplink[a] <= alloc

HeapInv == HeapType /\ HeapBounds /\ TreeShape /\ UplinkNotMisled

(* The part of remove_node that changes the heap. *)
FreeNode(n) ==
  /\ n \in live /\ uplink[n] \in live
  /\ Unlink(n)
  /\ live' = live \ Subtree(n) /\ dangling' = dangling \ Subtree(n)
  /\ UNCHANGED <<alloc, uplink, name, leaves, index>>

(* What the leaf commands and a leaf line's replay do to it. *)
LeafStep ==
  /\ UNCHANGED <<live, alloc, links, index>>
  /\ dangling' \subseteq live
  /\ leaves' \in [Addr -> Seq(Leaf)]

LEMMA AppendLeafStep ==
  ASSUME HeapType, NEW p \in Path, NEW k \in Key, NEW v \in Value,
         AppendLeaf(p, k, v)
  PROVE  LeafStep
<1>1. [key |-> k, value |-> v] \in Leaf
  BY DEF Leaf
<1>2. \A a \in Addr : Append(leaves[a], [key |-> k, value |-> v]) \in Seq(Leaf)
  BY <1>1 DEF HeapType
<1>3. leaves' \in [Addr -> Seq(Leaf)]
  BY <1>2 DEF HeapType, AppendLeaf
<1>4. QED
  BY <1>3 DEF HeapType, AppendLeaf, LeafStep

LEMMA UnlinkLeafStep ==
  ASSUME HeapType, NEW n \in live, NEW i \in DOMAIN leaves[n], UnlinkLeaf(n, i)
  PROVE  LeafStep
<1>1. leaves[n] \in Seq(Leaf)
  BY DEF HeapType
<1>2. RemoveAt(leaves[n], i) \in Seq(Leaf)
  BY <1>1 DEF RemoveAt
<1>3. <<>> \in Seq(Leaf)
  OBVIOUS
<1>4. leaves' \in [Addr -> Seq(Leaf)]
  BY <1>2, <1>3 DEF HeapType, UnlinkLeaf
<1>5. QED
  BY <1>4 DEF HeapType, UnlinkLeaf, LeafStep

LEMMA UpdateLeafStep ==
  ASSUME HeapType, NEW p \in Path, NEW k \in Key, NEW v \in Value,
         UpdateLeaf(p, k, v), SoundLeaves(p), ~StaleLeaves(p)
  PROVE  LeafStep
<1>1. PICK i \in DOMAIN leaves[index[p]] :
        leaves' = [leaves EXCEPT ![index[p]] =
                     [@ EXCEPT ![i] = [key |-> k, value |-> v]]]
  BY DEF UpdateLeaf
<1>2. leaves[index[p]] \in Seq(Leaf) /\ [key |-> k, value |-> v] \in Leaf
  BY DEF HeapType, SoundLeaves, Leaf
<1>3. [leaves[index[p]] EXCEPT ![i] = [key |-> k, value |-> v]] \in Seq(Leaf)
  BY <1>2
<1>4. leaves' \in [Addr -> Seq(Leaf)]
  BY <1>1, <1>3 DEF HeapType
<1>5. QED
  BY <1>4 DEF HeapType, UpdateLeaf, LeafStep

(***************************************************************************)
(* What a step may do to the heap: nothing, start a new one, add a node,   *)
(* free a subtree, or touch the leaf lists only.                           *)
(***************************************************************************)
LEMMA HeapSteps ==
  ASSUME HeapType, [Next]_vars
  PROVE  \/ UNCHANGED heap
         \/ NewHeap
         \/ \E p \in Path : AddNode(p)
         \/ \E p \in Path : FreeNode(index[p])
         \/ LeafStep
<1>1. CASE UNCHANGED vars
  BY <1>1 DEF vars
<1>2. CASE UseDatabase
  BY <1>2 DEF UseDatabase
<1>3. CASE Load
  <2>1. CASE LoadMarker \/ LoadDone
    BY <2>1 DEF LoadMarker, LoadDone
  <2>2. CASE LoadNode
    BY <2>2 DEF LoadNode
  <2>3. CASE LoadLeaf
    BY <2>3, AppendLeafStep DEF LoadLeaf
  <2>4. QED
    BY <1>3, <2>1, <2>2, <2>3 DEF Load
<1>4. CASE PrintTree \/ LostCommand \/ Exit
  BY <1>4 DEF PrintTree, LostCommand, Exit, Lose
<1>5. ASSUME NEW p \in Path, CreateNode(p)
      PROVE  NewHeap \/ AddNode(p)
  BY <1>5 DEF CreateNode, Lose
<1>6. ASSUME NEW p \in Path, RemoveNode(p)
      PROVE  NewHeap \/ FreeNode(index[p])
  BY <1>6 DEF RemoveNode, FreeNode, Lose
<1>7. ASSUME NEW p \in Path, PrintLeaves(p)
      PROVE  NewHeap
  BY <1>7 DEF PrintLeaves, Lose
<1>8. ASSUME NEW p \in Path, NEW k \in Key, DeleteLeaf(p, k)
      PROVE  NewHeap \/ LeafStep
  BY <1>8, UnlinkLeafStep DEF DeleteLeaf, SoundLeaves, Lose
<1>9. ASSUME NEW p \in Path, NEW k \in Key, NEW v \in Value,
             CreateLeaf(p, k, v) \/ UpdateLeaf(p, k, v)
      PROVE  NewHeap \/ LeafStep
  <2>1. CASE CreateLeaf(p, k, v)
    BY <2>1, AppendLeafStep DEF CreateLeaf, Lose
  <2>2. CASE UpdateLeaf(p, k, v)
    <3>1. CASE StaleLeaves(p)
      BY <2>2, <3>1 DEF UpdateLeaf, Lose, SoundLeaves, StaleLeaves, StaleEntry
    <3>2. CASE ~StaleLeaves(p)
      BY <2>2, <3>2, UpdateLeafStep DEF UpdateLeaf
    <3>3. QED
      BY <3>1, <3>2
  <2>3. QED
    BY <1>9, <2>1, <2>2
<1>10. QED
  BY <1>1, <1>2, <1>3, <1>4, <1>5, <1>6, <1>7, <1>8, <1>9 DEF Next


-----------------------------------------------------------------------------
(* Types. *)

LEMMA InitType == Init => HeapType
BY BoundAssumption
   DEF Init, HeapType, NewTags, NewUplinks, NewNames, NoPointers, NoLeaves,
       EmptyIndex, Addr, Pointer, Root, NULL, Dict!DictType

LEMMA NewHeapType == NewHeap => HeapType'
BY BoundAssumption
   DEF NewHeap, HeapType, NewTags, NewUplinks, NewNames, NoPointers, NoLeaves,
       EmptyIndex, Addr, Pointer, Root, NULL, Dict!DictType

(* What add_node does once it has its block n: the links and their types. *)
LEMMA AddNodeType ==
  ASSUME HeapType, NEW p \in Path, AddNode(p)
  PROVE  HeapType'
<1>1. PICK n \in Fresh :
        /\ live' = live \cup {n} /\ alloc' = IF n > alloc THEN n ELSE alloc
        /\ name' = [name EXCEPT ![n] = Name(p)]
        /\ AsFirstChild(n, ParentNode(p)) \/ AsLastSibling(n, ParentNode(p))
        /\ leaves' = [leaves EXCEPT ![n] = <<>>]
        /\ IndexInsert(p, n)
  BY DEF AddNode
<1>2. n \in Addr /\ ParentNode(p) \in Addr
  BY DEF Fresh, AddNode, HeapType
<1>3. live' \subseteq Addr /\ alloc' \in Addr /\ dangling' \subseteq live'
  BY <1>1, <1>2 DEF HeapType, AddNode
<1>4. name' \in [Addr -> Segment \cup {"/"}]
  BY <1>1 DEF HeapType, Segment
<1>5. leaves' \in [Addr -> Seq(Leaf)]
  <2>1. <<>> \in Seq(Leaf)
    OBVIOUS
  <2>2. QED
    BY <1>1, <2>1 DEF HeapType
<1>6. Dict!DictType'
  BY <1>1, <1>2 DEF HeapType, IndexInsert, Dict!DictType, Dict!Insert
<1>7. /\ tag' \in [Addr -> {"root", "node", "sibling"}]
      /\ uplink' \in [Addr -> Addr]
      /\ left' \in [Addr -> Pointer] /\ sibling' \in [Addr -> Pointer]
  <2>1. CASE AsFirstChild(n, ParentNode(p))
    BY <2>1, <1>2 DEF HeapType, AsFirstChild, Pointer
  <2>2. CASE AsLastSibling(n, ParentNode(p))
    <3>1. Children(ParentNode(p)) \subseteq Addr
      BY DEF Children, Least, HeapType
    <3>2. PICK last \in Addr :
            /\ tag' = [tag EXCEPT ![n] = "sibling"]
            /\ uplink' = [uplink EXCEPT ![n] = last]
            /\ left' = [left EXCEPT ![n] = NULL]
            /\ sibling' = [sibling EXCEPT ![last] = n, ![n] = NULL]
      BY <2>2, <3>1 DEF AsLastSibling
    <3>3. QED
      BY <3>2, <1>2 DEF HeapType, Pointer
  <2>3. QED
    BY <1>1, <2>1, <2>2
<1>8. QED
  BY <1>3, <1>4, <1>5, <1>6, <1>7 DEF HeapType

LEMMA FreeNodeType ==
  ASSUME HeapType, NEW n, FreeNode(n)
  PROVE  HeapType'
<1>1. n \in Addr
  BY DEF FreeNode, HeapType
<1>2. /\ left' \in [Addr -> Pointer] /\ sibling' \in [Addr -> Pointer]
      /\ tag' \in [Addr -> {"root", "node", "sibling"}]
  BY <1>1 DEF FreeNode, Unlink, HeapType, Pointer
<1>3. QED
  BY <1>2 DEF FreeNode, HeapType, Dict!DictType

LEMMA TypeStep ==
  ASSUME HeapType, [Next]_vars
  PROVE  HeapType'
<1>1. CASE UNCHANGED heap
  BY <1>1 DEF HeapType, heap, links, Dict!DictType
<1>2. CASE LeafStep
  BY <1>2 DEF HeapType, LeafStep, links, Dict!DictType
<1>3. QED
  BY <1>1, <1>2, HeapSteps, NewHeapType, AddNodeType, FreeNodeType

(***************************************************************************)
(* The heap is well typed: every pointer is an address or NULL, and only   *)
(* live nodes have a leaf list whose head was freed.                       *)
(***************************************************************************)
THEOREM HeapTypeCorrect == Spec => []HeapType
<1>1. HeapType /\ [Next]_vars => HeapType'
  BY TypeStep
<1>2. QED
  BY InitType, <1>1, PTL DEF Spec

-----------------------------------------------------------------------------
(* The file, and how far load_tree has read it. *)

(* Only load_tree has a position: every other command finds it at 0. *)
FileType ==
  /\ phase \in {"closed", "loading", "open", "lost"} /\ intact \in BOOLEAN
  /\ file \in Seq(Line) /\ Len(file) <= MaxLines
  /\ pos \in 0 .. Len(file)
  /\ phase # "loading" => pos = 0

(* What may be written to the file. *)
Writable == {lines \in Seq(Line) : Len(lines) <= MaxLines}

LEMMA LineTypes ==
  ASSUME NEW p \in Path
  PROVE  /\ NodeLine(p) \in Line
         /\ \A k \in Key, v \in Value : LeafLine(p, k, v) \in Line
BY DEF Line

LEMMA WrittenType ==
  ASSUME file \in Seq(Line), Len(file) <= MaxLines, NEW line \in Line, NEW dropped
  PROVE  /\ Without(file, dropped) \in Writable
         /\ Len(file) < MaxLines =>
              Append(file, line) \in Writable /\ Append(Without(file, dropped), line) \in Writable
<1>1. Without(file, dropped) \in Seq(Line) /\ Len(Without(file, dropped)) <= Len(file)
  BY WithoutFacts
<1>2. Append(file, line) \in Seq(Line) /\ Len(Append(file, line)) = Len(file) + 1
  OBVIOUS
<1> DEFINE w == Without(file, dropped)
<1> HIDE DEF w
<1>3. Append(w, line) \in Seq(Line) /\ Len(Append(w, line)) = Len(w) + 1
  BY <1>1 DEF w
<1>4. MaxLines \in Nat /\ Len(file) \in Nat /\ Len(w) \in Nat
  BY <1>1, BoundAssumption DEF w
<1>5. QED
  BY <1>1, <1>2, <1>3, <1>4 DEF Writable, w

LEMMA FileTypeInit == Init => FileType
BY BoundAssumption DEF Init, FileType, Line

LEMMA LoseType ==
  ASSUME FileType, NEW written \in Writable, Lose(written)
  PROVE  FileType'
<1>1. file' \in Seq(Line) /\ Len(file') <= MaxLines
  BY DEF FileType, Lose, Writable
<1>2. 0 \in 0 .. Len(file')
  BY <1>1
<1>3. QED
  BY <1>1, <1>2 DEF FileType, Lose

(* What the steps that are not lost write. *)
LEMMA WriteType ==
  ASSUME FileType, phase = "open", file' \in Writable, UNCHANGED <<session, pos>>
  PROVE  FileType'
BY DEF FileType, session, Writable

LEMMA LoadType ==
  ASSUME FileType, Load
  PROVE  FileType'
<1>1. CASE LoadMarker \/ LoadDone
  BY <1>1 DEF FileType, LoadMarker, LoadDone, Reading, session
<1>2. CASE LoadNode
  BY <1>2 DEF FileType, LoadNode, Reading, session
<1>3. CASE LoadLeaf
  <2>1. PICK p \in Path, k \in Key, v \in Value :
          /\ Reading(LeafLine(p, k, v))
          /\ file' = file \/ (Len(file) < MaxLines /\ file' = Append(file, LeafLine(p, k, v)))
          /\ pos' = pos + 1 /\ UNCHANGED session
    BY <1>3 DEF LoadLeaf
  <2>2. CASE file' = file
    BY <2>1, <2>2 DEF FileType, Reading, session
  <2>3. CASE Len(file) < MaxLines /\ file' = Append(file, LeafLine(p, k, v))
    <3>1. LeafLine(p, k, v) \in Line
      BY LineTypes
    <3>2. file' \in Writable /\ Len(file') = Len(file) + 1
      BY <2>3, <3>1, WrittenType DEF FileType
    <3>3. QED
      BY <2>1, <3>2 DEF FileType, Reading, session, Writable
  <2>4. QED
    BY <2>1, <2>2, <2>3
<1>4. QED
  BY <1>1, <1>2, <1>3 DEF Load

LEMMA FileTypeStep ==
  ASSUME FileType, [Next]_vars
  PROVE  FileType'
<1> file \in Seq(Line) /\ Len(file) <= MaxLines /\ file \in Writable
  BY DEF FileType, Writable
<1>1. CASE UNCHANGED vars
  BY <1>1 DEF FileType, vars, session
<1>2. CASE UseDatabase \/ Exit
  BY <1>2 DEF FileType, UseDatabase, Exit
<1>3. CASE Load
  BY <1>3, LoadType
<1>4. CASE PrintTree
  BY <1>4, LoseType DEF PrintTree
<1>5. ASSUME NEW p \in Path, PrintLeaves(p) PROVE FileType'
  BY <1>5, LoseType DEF PrintLeaves
<1>6. CASE LostCommand
  <2>1. Len(file) < MaxLines
    BY <1>6 DEF LostCommand
  <2>2. PICK p \in Path :
          \/ Lose(WithoutNode(p)) \/ Lose(Append(file, NodeLine(p)))
          \/ \E k \in Key, v \in Value :
               \/ Lose(WithoutLeaf(p, k)) \/ Lose(Append(file, LeafLine(p, k, v)))
               \/ Lose(Append(WithoutLeaf(p, k), LeafLine(p, k, v)))
    BY <1>6 DEF LostCommand
  <2>3. WithoutNode(p) \in Writable /\ Append(file, NodeLine(p)) \in Writable
    BY <2>1, LineTypes, WrittenType DEF WithoutNode
  <2>4. \A k \in Key, v \in Value :
          /\ WithoutLeaf(p, k) \in Writable /\ Append(file, LeafLine(p, k, v)) \in Writable
          /\ Append(WithoutLeaf(p, k), LeafLine(p, k, v)) \in Writable
    BY <2>1, LineTypes, WrittenType DEF WithoutLeaf
  <2>5. QED
    BY <2>2, <2>3, <2>4, LoseType
<1>7. ASSUME NEW p \in Path, CreateNode(p) PROVE FileType'
  <2>1. phase = "open" /\ Append(file, NodeLine(p)) \in Writable
    BY <1>7, LineTypes, WrittenType DEF CreateNode
  <2>2. QED
    BY <1>7, <2>1, LoseType, WriteType DEF CreateNode
<1>8. ASSUME NEW p \in Path, RemoveNode(p) PROVE FileType'
  <2>1. phase = "open" /\ WithoutNode(p) \in Writable
    BY <1>8, LineTypes, WrittenType DEF RemoveNode, WithoutNode
  <2>2. QED
    BY <1>8, <2>1, LoseType, WriteType DEF RemoveNode
<1>9. ASSUME NEW p \in Path, NEW k \in Key, DeleteLeaf(p, k) PROVE FileType'
  <2>1. phase = "open" /\ WithoutLeaf(p, k) \in Writable
    BY <1>9, LineTypes, WrittenType DEF DeleteLeaf, WithoutLeaf
  <2>2. QED
    BY <1>9, <2>1, LoseType, WriteType DEF DeleteLeaf
<1>10. ASSUME NEW p \in Path, NEW k \in Key, NEW v \in Value, CreateLeaf(p, k, v)
       PROVE  FileType'
  <2>1. phase = "open" /\ Append(file, LeafLine(p, k, v)) \in Writable
    BY <1>10, LineTypes, WrittenType DEF CreateLeaf
  <2>2. QED
    BY <1>10, <2>1, LoseType, WriteType DEF CreateLeaf
<1>11. ASSUME NEW p \in Path, NEW k \in Key, NEW v \in Value, UpdateLeaf(p, k, v)
       PROVE  FileType'
  <2> DEFINE written == Append(WithoutLeaf(p, k), LeafLine(p, k, v))
  <2>1. phase = "open" /\ Len(written) <= MaxLines
    BY <1>11 DEF UpdateLeaf
  <2>2. WithoutLeaf(p, k) \in Seq(Line) /\ LeafLine(p, k, v) \in Line
    BY LineTypes, WrittenType DEF WithoutLeaf, Writable
  <2>3. written \in Writable
    BY <2>1, <2>2 DEF Writable
  <2>4. Lose(written) \/ (file' = written /\ UNCHANGED <<session, pos>>)
    BY <1>11 DEF UpdateLeaf
  <2> HIDE DEF written
  <2>5. QED
    BY <2>1, <2>3, <2>4, LoseType, WriteType
<1>12. QED
  BY <1>1, <1>2, <1>3, <1>4, <1>5, <1>6, <1>7, <1>8, <1>9, <1>10, <1>11 DEF Next

(***************************************************************************)
(* The session is well typed: the heap, the file, whose rewrites never     *)
(* lengthen it, and load_tree's position, which is always within the file  *)
(* although add_leaf lengthens it and remove-node and update-leaf shorten  *)
(* it -- because they never run while it is being read.                    *)
(***************************************************************************)
THEOREM TypeCorrect == Spec => []TypeOK
<1>1. Init => HeapType /\ FileType
  BY InitType, FileTypeInit
<1>2. HeapType /\ FileType /\ [Next]_vars => HeapType' /\ FileType'
  BY TypeStep, FileTypeStep
<1>3. HeapType /\ FileType => TypeOK
  BY DEF TypeOK, FileType
<1>4. QED
  BY <1>1, <1>2, <1>3, PTL DEF Spec

-----------------------------------------------------------------------------
(* What free_tree frees. *)

(***************************************************************************)
(* The freed nodes contain n and, with a node, what its links lead to --   *)
(* but not through n's own sibling link.                                   *)
(***************************************************************************)
LEMMA SubtreeClosed ==
  ASSUME HeapType, LinksLive, NEW n \in live
  PROVE  /\ Subtree(n) \subseteq live /\ n \in Subtree(n)
         /\ \A x \in Subtree(n) :
              /\ left[x] # NULL => left[x] \in Subtree(n)
              /\ x # n /\ sibling[x] # NULL => sibling[x] \in Subtree(n)
<1>1. Subtree(n) \subseteq live /\ n \in Subtree(n)
  BY DEF Subtree, Least, FreeClosed
<1>2. ASSUME NEW x \in Subtree(n), left[x] # NULL
      PROVE  left[x] \in Subtree(n)
  <2>1. left[x] \in live
    BY <1>1, <1>2 DEF LinksLive
  <2>2. QED
    BY <2>1 DEF Subtree, Least, FreeClosed
<1>3. ASSUME NEW x \in Subtree(n), x # n, sibling[x] # NULL
      PROVE  sibling[x] \in Subtree(n)
  <2>1. sibling[x] \in live
    BY <1>1, <1>3 DEF LinksLive
  <2>2. QED
    BY <1>3, <2>1 DEF Subtree, Least, FreeClosed
<1>4. QED
  BY <1>1, <1>2, <1>3

(***************************************************************************)
(* Because the set is the least, every freed node but n was reached by a   *)
(* link of a freed node; and as links lead to newer nodes, none is older.  *)
(***************************************************************************)
LEMMA SubtreeReached ==
  ASSUME HeapType, LinksLive, NEW n \in live, NEW m \in Subtree(n), m # n
  PROVE  \E x \in Subtree(n) : left[x] = m \/ (x # n /\ sibling[x] = m)
<1> DEFINE T == Subtree(n) \ {m}
<1>1. SUFFICES ASSUME \A x \in Subtree(n) : left[x] # m /\ (x # n => sibling[x] # m)
               PROVE  FALSE
  OBVIOUS
<1>2. \A x \in live : /\ left[x] \in live => left[x] # NULL
                      /\ sibling[x] \in live => sibling[x] # NULL
  BY DEF HeapType, Addr, NULL
<1>3. T \in FreeClosed(n)
  <2>1. T \subseteq live /\ n \in T
    BY SubtreeClosed
  <2>2. ASSUME NEW x \in T, left[x] \in live PROVE left[x] \in T
    BY <1>1, <1>2, <2>1, <2>2, SubtreeClosed
  <2>3. ASSUME NEW x \in T, x # n, sibling[x] \in live PROVE sibling[x] \in T
    BY <1>1, <1>2, <2>1, <2>3, SubtreeClosed
  <2>4. QED
    BY <2>1, <2>2, <2>3 DEF FreeClosed
<1>4. \A T0 \in FreeClosed(n) : m \in T0
  BY DEF Subtree, Least
<1>5. m \in T
  BY <1>3, <1>4
<1>6. QED
  BY <1>5

LEMMA SubtreeNewer ==
  ASSUME HeapType, LinksLive, LinksToNewer, NEW n \in live, NEW m \in Subtree(n)
  PROVE  m >= n
<1> DEFINE T == {x \in Subtree(n) : x >= n}
<1>1. Subtree(n) \subseteq live /\ live \subseteq Nat
  BY SubtreeClosed DEF HeapType, Addr
<1>2. \A x, y \in live : x >= n /\ y > x => y >= n
  <2>1. \A i, j, k \in Nat : j >= i /\ k > j => k >= i
    OBVIOUS
  <2>2. QED
    BY <1>1, <2>1
<1>3. T \in FreeClosed(n)
  <2>1. T \subseteq live /\ n \in T
    <3>1. n >= n
      BY <1>1
    <3>2. QED
      BY <1>1, <3>1, SubtreeClosed
  <2>2. \A x \in live : /\ left[x] \in live => left[x] # NULL
                        /\ sibling[x] \in live => sibling[x] # NULL
    BY DEF HeapType, Addr, NULL
  <2>3. ASSUME NEW x \in T, left[x] \in live PROVE left[x] \in T
    BY <1>2, <2>1, <2>2, <2>3, SubtreeClosed DEF LinksToNewer
  <2>4. ASSUME NEW x \in T, x # n, sibling[x] \in live PROVE sibling[x] \in T
    BY <1>2, <2>1, <2>2, <2>4, SubtreeClosed DEF LinksToNewer
  <2>5. QED
    BY <2>1, <2>3, <2>4 DEF FreeClosed
<1>4. \A T0 \in FreeClosed(n) : m \in T0
  BY DEF Subtree, Least
<1>5. m \in T
  BY <1>3, <1>4
<1>6. QED
  BY <1>5


-----------------------------------------------------------------------------
(* The shape of the tree. *)

LEMMA InitInv == Init => HeapInv
<1> SUFFICES ASSUME Init PROVE HeapInv
  OBVIOUS
<1>2. HeapType
  BY InitType
<1>3. Root \in Addr
  BY BoundAssumption DEF Addr, Root
<1>4. live = {Root} /\ left[Root] = NULL /\ sibling[Root] = NULL
  BY <1>3 DEF Init, NoPointers
<1>5. HeapBounds
  BY <1>3 DEF Init, NewTags, NewUplinks, HeapBounds, Root
<1>6. TreeShape
  BY <1>4 DEF TreeShape, LinksLive, OnePredecessor, TagTellsLink, LinksToNewer
<1>7. UplinkNotMisled
  BY <1>4 DEF UplinkNotMisled
<1>8. QED
  BY <1>2, <1>5, <1>6, <1>7 DEF HeapInv

LEMMA NewHeapInv == NewHeap => HeapInv'
<1> SUFFICES ASSUME NewHeap PROVE HeapInv'
  OBVIOUS
<1>2. HeapType'
  BY NewHeapType
<1>3. Root \in Addr
  BY BoundAssumption DEF Addr, Root
<1>4. live' = {Root} /\ left'[Root] = NULL /\ sibling'[Root] = NULL
  BY <1>3 DEF NewHeap, NoPointers
<1>5. HeapBounds'
  BY <1>3 DEF NewHeap, NewTags, NewUplinks, HeapBounds, Root
<1>6. TreeShape'
  BY <1>4 DEF TreeShape, LinksLive, OnePredecessor, TagTellsLink, LinksToNewer
<1>7. UplinkNotMisled'
  BY <1>4 DEF UplinkNotMisled
<1>8. QED
  BY <1>2, <1>5, <1>6, <1>7 DEF HeapInv

(***************************************************************************)
(* A new node is newer than every node and every uplink, so it is nobody's *)
(* neighbour until the one link that add_node writes leads to it.          *)
(***************************************************************************)
LEMMA AddNodeInv ==
  ASSUME ~Reuse, HeapInv, NEW p \in Path, AddNode(p)
  PROVE  HeapInv'
<1> DEFINE n == alloc + 1
           parent == ParentNode(p)
<1>1. /\ n \in Addr /\ parent \in live
      /\ live' = live \cup {n} /\ alloc' = IF n > alloc THEN n ELSE alloc
      /\ AsFirstChild(n, parent) \/ AsLastSibling(n, parent)
  BY DEF AddNode, Fresh
<1>2. alloc \in Nat /\ live \subseteq Nat /\ live \subseteq Addr
  BY DEF HeapInv, HeapType, Addr
<1>3. /\ alloc' = n /\ n \notin live
      /\ \A a \in live : a <= n /\ a # n /\ uplink[a] <= n /\ uplink[a] # n
  <2>1. \A a \in live : uplink[a] \in Nat
    BY <1>2 DEF HeapInv, HeapType, Addr
  <2>2. \A i \in Nat : i <= alloc => i <= n /\ i # n
    BY <1>2
  <2>3. \A a \in live : a <= alloc /\ uplink[a] <= alloc
    BY DEF HeapInv, HeapBounds
  <2>4. alloc' = n
    BY <1>1, <1>2
  <2>5. QED
    BY <1>2, <2>1, <2>2, <2>3, <2>4
<1>4. n <= n /\ \A a \in live : n > a
  BY <1>1, <1>2, <1>3
<1>5. \A a \in live : left[a] # n /\ sibling[a] # n
  BY <1>1, <1>2, <1>3 DEF HeapInv, TreeShape, LinksLive, NULL
<1>6. n # NULL /\ \A a \in live : a # NULL
  BY <1>1, <1>2 DEF Addr, NULL
<1>7. HeapType'
  BY AddNodeType DEF HeapInv
<1>8. CASE AsFirstChild(n, parent)
  <2>1. /\ \A a \in live : tag'[a] = tag[a] /\ uplink'[a] = uplink[a] /\ sibling'[a] = sibling[a]
        /\ \A a \in live \ {parent} : left'[a] = left[a]
        /\ left[parent] = NULL /\ left'[parent] = n
        /\ tag'[n] = "node" /\ uplink'[n] = parent
        /\ left'[n] = NULL /\ sibling'[n] = NULL
    BY <1>1, <1>2, <1>3, <1>8 DEF AsFirstChild, HeapInv, HeapType
  <2>2. HeapBounds'
    BY <1>1, <1>3, <1>4, <2>1 DEF HeapInv, HeapBounds
  <2>3. TreeShape'
    BY <1>1, <1>3, <1>5, <1>4, <2>1
       DEF HeapInv, TreeShape, LinksLive, OnePredecessor, TagTellsLink, LinksToNewer
  <2>4. UplinkNotMisled'
    BY <1>1, <1>3, <1>5, <1>6, <2>1 DEF HeapInv, UplinkNotMisled
  <2>5. QED
    BY <1>7, <2>2, <2>3, <2>4 DEF HeapInv
<1>9. CASE AsLastSibling(n, parent)
  <2>1. PICK last \in live :
          /\ sibling[last] = NULL
          /\ tag' = [tag EXCEPT ![n] = "sibling"]
          /\ uplink' = [uplink EXCEPT ![n] = last]
          /\ left' = [left EXCEPT ![n] = NULL]
          /\ sibling' = [sibling EXCEPT ![last] = n, ![n] = NULL]
    BY <1>9 DEF AsLastSibling, Children, Least
  <2>2. /\ \A a \in live : tag'[a] = tag[a] /\ uplink'[a] = uplink[a] /\ left'[a] = left[a]
        /\ \A a \in live \ {last} : sibling'[a] = sibling[a]
        /\ sibling'[last] = n
        /\ tag'[n] = "sibling" /\ uplink'[n] = last
        /\ left'[n] = NULL /\ sibling'[n] = NULL
    BY <1>1, <1>2, <1>3, <2>1 DEF HeapInv, HeapType
  <2>3. HeapBounds'
    BY <1>1, <1>3, <1>4, <2>1, <2>2 DEF HeapInv, HeapBounds
  <2>4. TreeShape'
    <3>1. LinksLive' /\ LinksToNewer'
      BY <1>1, <1>4, <2>2 DEF HeapInv, TreeShape, LinksLive, LinksToNewer
    <3>2. OnePredecessor'
      <4>1. ASSUME NEW a \in live, NEW b \in live
            PROVE  /\ left'[a] # NULL /\ left'[a] = left'[b] => a = b
                   /\ sibling'[a] # NULL /\ sibling'[a] = sibling'[b] => a = b
                   /\ left'[a] # NULL => left'[a] # sibling'[b]
        <5>1. /\ left[a] # NULL /\ left[a] = left[b] => a = b
              /\ sibling[a] # NULL /\ sibling[a] = sibling[b] => a = b
              /\ left[a] # NULL => left[a] # sibling[b]
          BY DEF HeapInv, TreeShape, OnePredecessor
        <5>2. left'[a] = left[a] /\ left'[b] = left[b] /\ left[a] # n
          BY <1>5, <2>2
        <5>3. sibling'[a] = IF a = last THEN n ELSE sibling[a]
          BY <2>2
        <5>4. sibling'[b] = IF b = last THEN n ELSE sibling[b]
          BY <2>2
        <5>5. sibling[a] # n /\ sibling[b] # n
          BY <1>5
        <5>6. QED
          BY <5>1, <5>2, <5>3, <5>4, <5>5
      <4>2. QED
        BY <1>1, <1>6, <2>2, <4>1 DEF OnePredecessor
    <3>3. TagTellsLink'
      BY <1>1, <1>5, <2>2 DEF HeapInv, TreeShape, LinksLive, TagTellsLink
    <3>4. QED
      BY <3>1, <3>2, <3>3 DEF TreeShape
  <2>5. UplinkNotMisled'
    <3>1. ASSUME NEW a \in live \ {Root}, uplink[a] \in live
          PROVE  IF tag'[a] = "node" THEN left'[uplink[a]] = a ELSE sibling'[uplink[a]] = a
      <4>1. sibling[last] # a
        BY <1>6, <2>1
      <4>2. QED
        BY <2>2, <3>1, <4>1 DEF HeapInv, UplinkNotMisled
    <3>2. \A a \in live : uplink'[a] \in live' => uplink[a] \in live
      BY <1>1, <1>3, <2>2
    <3>3. QED
      BY <1>1, <2>2, <3>1, <3>2 DEF UplinkNotMisled
  <2>6. QED
    BY <1>7, <2>3, <2>4, <2>5 DEF HeapInv
<1>10. QED
  BY <1>1, <1>8, <1>9

(***************************************************************************)
(* What holds around the node that remove_node frees: its uplink, when     *)
(* live, is the one node that links to it, is older and stays; what the    *)
(* other nodes that stay link to stays too; and its next sibling, which    *)
(* takes its place, is not freed and was reached through n alone.          *)
(***************************************************************************)
LEMMA AroundFreed ==
  ASSUME HeapInv, NEW n \in live, uplink[n] \in live,
         tag[n] \in {"node", "sibling"}
  PROVE  /\ n # Root
         /\ uplink[n] \notin Subtree(n) /\ Root \notin Subtree(n)
         /\ IF tag[n] = "node" THEN left[uplink[n]] = n ELSE sibling[uplink[n]] = n
         /\ uplink[n] # n /\ n # NULL
         /\ \A a \in live \ Subtree(n) :
              /\ left[a] \in Subtree(n) => left[a] = n /\ a = uplink[n] /\ tag[n] = "node"
              /\ sibling[a] \in Subtree(n) =>
                   sibling[a] = n /\ a = uplink[n] /\ tag[n] = "sibling"
         /\ sibling[n] # NULL =>
              /\ sibling[n] \in live \ Subtree(n)
              /\ tag[sibling[n]] = "sibling" /\ sibling[n] > uplink[n]
              /\ \A a \in live \ Subtree(n) : left[a] # sibling[n] /\ sibling[a] # sibling[n]
<1> DEFINE u == uplink[n]
           F == Subtree(n)
<1>1. /\ HeapType /\ LinksLive /\ OnePredecessor /\ TagTellsLink /\ LinksToNewer
      /\ UplinkNotMisled /\ HeapBounds
  BY DEF HeapInv, TreeShape
<1>2. live \subseteq Nat /\ NULL \notin live /\ Root \in live /\ \A a \in live : a >= Root
  BY <1>1 DEF HeapType, HeapBounds, Addr, NULL, Root
<1>3. n # Root
  BY <1>1 DEF HeapBounds
<1>4. IF tag[n] = "node" THEN left[u] = n ELSE sibling[u] = n
  BY <1>1, <1>3 DEF UplinkNotMisled
<1>5. n > u
  BY <1>1, <1>2, <1>4 DEF LinksToNewer
<1>6. u \notin F /\ u # n
  <2>1. \A i, j \in Nat : i > j => ~ (j >= i) /\ j # i
    OBVIOUS
  <2>2. u \in Nat /\ n \in Nat
    BY <1>2
  <2>3. \A m \in F : m >= n
    BY <1>1, SubtreeNewer
  <2>4. QED
    BY <1>5, <2>1, <2>2, <2>3
<1>7. Root \notin F
  BY <1>1, <1>2, <1>3, SubtreeNewer DEF Root
<1>8. F \subseteq live /\ n \in F
  BY <1>1, SubtreeClosed
<1>9. ASSUME NEW m \in F, m # n
      PROVE  \E x \in F : left[x] = m \/ (x # n /\ sibling[x] = m)
  BY <1>1, <1>9, SubtreeReached
<1>10. ASSUME NEW a \in live \ F, left[a] \in F
       PROVE  left[a] = n /\ a = u /\ tag[n] = "node"
  <2>1. left[a] # NULL
    BY <1>2, <1>8, <1>10
  <2>2. left[a] = n
    BY <1>1, <1>8, <1>9, <1>10, <2>1 DEF OnePredecessor
  <2>3. tag[n] = "node"
    BY <1>1, <2>1, <2>2 DEF TagTellsLink
  <2>4. QED
    BY <1>1, <1>4, <2>1, <2>2, <2>3 DEF OnePredecessor
<1>11. ASSUME NEW a \in live \ F, sibling[a] \in F
       PROVE  sibling[a] = n /\ a = u /\ tag[n] = "sibling"
  <2>1. sibling[a] # NULL
    BY <1>2, <1>8, <1>11
  <2>2. sibling[a] = n
    BY <1>1, <1>2, <1>8, <1>9, <1>11, <2>1 DEF OnePredecessor
  <2>3. tag[n] = "sibling"
    BY <1>1, <2>1, <2>2 DEF TagTellsLink
  <2>4. QED
    BY <1>1, <1>4, <2>1, <2>2, <2>3 DEF OnePredecessor
<1>12. ASSUME sibling[n] # NULL
       PROVE  /\ sibling[n] \in live \ F
              /\ tag[sibling[n]] = "sibling" /\ sibling[n] > u
              /\ \A a \in live \ F : left[a] # sibling[n] /\ sibling[a] # sibling[n]
  <2> DEFINE s == sibling[n]
  <2>1. s \in live /\ s > n /\ tag[s] = "sibling"
    BY <1>1, <1>12 DEF LinksLive, LinksToNewer, TagTellsLink
  <2>2. s > u /\ s # n
    <3>1. \A i, j, k \in Nat : i > j /\ j > k => i > k /\ i # j
      OBVIOUS
    <3>2. u \in Nat /\ n \in Nat /\ s \in Nat
      BY <1>2, <2>1
    <3>3. QED
      BY <1>5, <2>1, <3>1, <3>2
  <2>3. \A a \in live : left[a] # s
    BY <1>1, <1>2, <2>1 DEF OnePredecessor
  <2>4. \A a \in live : sibling[a] = s => a = n
    BY <1>1, <1>12 DEF OnePredecessor
  <2>5. s \notin F
    BY <1>8, <1>9, <2>2, <2>3, <2>4
  <2>6. QED
    BY <1>8, <2>1, <2>2, <2>3, <2>4, <2>5
<1>13. QED
  BY <1>2, <1>3, <1>4, <1>6, <1>7, <1>10, <1>11, <1>12

LEMMA FreeNodeInv ==
  ASSUME HeapInv, NEW n, FreeNode(n)
  PROVE  HeapInv'
<1> DEFINE u == uplink[n]
           s == sibling[n]
           F == Subtree(n)
<1>1. n \in live /\ u \in live /\ tag[n] \in {"node", "sibling"}
  BY DEF FreeNode, Unlink
<1>2. /\ HeapType /\ LinksLive /\ OnePredecessor /\ TagTellsLink /\ LinksToNewer
      /\ UplinkNotMisled /\ HeapBounds
  BY DEF HeapInv, TreeShape
<1>3. /\ n # Root /\ u \notin F /\ Root \notin F /\ u # n /\ n # NULL /\ n \in F
      /\ IF tag[n] = "node" THEN left[u] = n ELSE sibling[u] = n
  BY <1>1, <1>2, AroundFreed, SubtreeClosed
<1>4. \A a \in live \ F :
        /\ left[a] \in F => left[a] = n /\ a = u /\ tag[n] = "node"
        /\ sibling[a] \in F => sibling[a] = n /\ a = u /\ tag[n] = "sibling"
  BY <1>1, AroundFreed
<1>5. s # NULL => /\ s \in live \ F
                  /\ tag[s] = "sibling" /\ s > u
                  /\ \A a \in live \ F : left[a] # s /\ sibling[a] # s
  BY <1>1, AroundFreed
<1>6. live' = live \ F /\ uplink' = uplink /\ alloc' = alloc
  BY DEF FreeNode
<1>7. HeapType'
  BY <1>2, FreeNodeType
<1>8. live \subseteq Addr
  BY <1>2 DEF HeapType
<1>9. s \in live' \ {Root} => uplink[s] \notin live'
  <2>1. SUFFICES ASSUME s \in live', s # Root, uplink[s] \in live' PROVE FALSE
    OBVIOUS
  <2>2. s # NULL
    BY <1>6, <1>8, <2>1 DEF Addr, NULL
  <2>3. sibling[uplink[s]] = s
    BY <1>2, <1>5, <1>6, <2>1, <2>2 DEF UplinkNotMisled
  <2>4. QED
    BY <1>5, <1>6, <2>1, <2>2, <2>3
<1>10. CASE tag[n] = "node"
  <2>1. /\ left' = [left EXCEPT ![u] = s]
        /\ tag' = IF s = NULL THEN tag ELSE [tag EXCEPT ![s] = "node"]
        /\ sibling' = [sibling EXCEPT ![n] = NULL]
    BY <1>10 DEF FreeNode, Unlink
  <2>2. /\ left'[u] = s
        /\ \A a \in live' : sibling'[a] = sibling[a]
        /\ \A a \in live' \ {u} : left'[a] = left[a]
        /\ s # NULL => tag'[s] = "node"
        /\ \A a \in live : a # s => tag'[a] = tag[a]
    BY <1>1, <1>2, <1>3, <1>5, <1>6, <1>8, <2>1 DEF HeapType
  <2>3. HeapBounds'
    <3>1. s # Root
      BY <1>2, <1>5 DEF HeapBounds, NULL, Root
    <3>2. QED
      BY <1>2, <1>3, <1>6, <2>2, <3>1 DEF HeapBounds
  <2>4. TreeShape'
    <3>1. LinksLive'
      BY <1>2, <1>3, <1>4, <1>5, <1>6, <1>10, <2>2 DEF LinksLive
    <3>2. OnePredecessor'
      BY <1>2, <1>5, <1>6, <2>2 DEF OnePredecessor
    <3>3. TagTellsLink'
      BY <1>2, <1>5, <1>6, <2>2, <3>1 DEF TagTellsLink, LinksLive
    <3>4. LinksToNewer'
      BY <1>2, <1>5, <1>6, <2>2 DEF LinksToNewer
    <3>5. QED
      BY <3>1, <3>2, <3>3, <3>4 DEF TreeShape
  <2>5. UplinkNotMisled'
    <3>1. ASSUME NEW a \in live' \ {Root}, uplink[a] \in live', a # s
          PROVE  IF tag'[a] = "node" THEN left'[uplink[a]] = a ELSE sibling'[uplink[a]] = a
      BY <1>2, <1>3, <1>6, <1>10, <2>2, <3>1 DEF UplinkNotMisled
    <3>2. QED
      BY <1>6, <1>9, <3>1 DEF UplinkNotMisled
  <2>6. QED
    BY <1>7, <2>3, <2>4, <2>5 DEF HeapInv
<1>11. CASE tag[n] = "sibling"
  <2>1. /\ sibling' = [sibling EXCEPT ![u] = s, ![n] = NULL]
        /\ left' = left /\ tag' = tag
    BY <1>11 DEF FreeNode, Unlink
  <2>2. /\ sibling'[u] = s
        /\ \A a \in live' \ {u} : sibling'[a] = sibling[a]
    BY <1>1, <1>2, <1>3, <1>6, <1>8, <2>1 DEF HeapType
  <2>3. HeapBounds'
    BY <1>2, <1>3, <1>6, <2>1 DEF HeapBounds
  <2>4. TreeShape'
    <3>1. LinksLive'
      <4>1. \A a \in live' : left[a] # NULL => left[a] \in live'
        BY <1>2, <1>4, <1>6, <1>11 DEF LinksLive
      <4>2. \A a \in live' \ {u} : sibling[a] # NULL => sibling[a] \in live'
        BY <1>2, <1>4, <1>6 DEF LinksLive
      <4>3. s # NULL => s \in live'
        BY <1>5, <1>6
      <4>4. QED
        BY <2>1, <2>2, <4>1, <4>2, <4>3 DEF LinksLive
    <3>2. OnePredecessor'
      <4>1. ASSUME NEW a \in live', NEW b \in live'
            PROVE  /\ left[a] # NULL /\ left[a] = left[b] => a = b
                   /\ sibling'[a] # NULL /\ sibling'[a] = sibling'[b] => a = b
                   /\ left[a] # NULL => left[a] # sibling'[b]
        <5>1. /\ left[a] # NULL /\ left[a] = left[b] => a = b
              /\ sibling[a] # NULL /\ sibling[a] = sibling[b] => a = b
              /\ left[a] # NULL => left[a] # sibling[b]
          BY <1>2, <1>6 DEF OnePredecessor
        <5>2. sibling'[a] = IF a = u THEN s ELSE sibling[a]
          BY <2>2
        <5>3. sibling'[b] = IF b = u THEN s ELSE sibling[b]
          BY <2>2
        <5>4. s # NULL => left[a] # s /\ sibling[a] # s /\ sibling[b] # s
          BY <1>5, <1>6
        <5>5. QED
          BY <5>1, <5>2, <5>3, <5>4
      <4>2. QED
        BY <2>1, <4>1 DEF OnePredecessor
    <3>3. TagTellsLink'
      BY <1>2, <1>5, <1>6, <2>1, <2>2 DEF TagTellsLink
    <3>4. LinksToNewer'
      BY <1>2, <1>5, <1>6, <2>1, <2>2 DEF LinksToNewer
    <3>5. QED
      BY <3>1, <3>2, <3>3, <3>4 DEF TreeShape
  <2>5. UplinkNotMisled'
    <3>1. ASSUME NEW a \in live' \ {Root}, uplink[a] \in live', a # s
          PROVE  IF tag'[a] = "node" THEN left'[uplink[a]] = a ELSE sibling'[uplink[a]] = a
      BY <1>2, <1>3, <1>6, <1>11, <2>1, <2>2, <3>1 DEF UplinkNotMisled
    <3>2. QED
      BY <1>6, <1>9, <3>1 DEF UplinkNotMisled
  <2>6. QED
    BY <1>7, <2>3, <2>4, <2>5 DEF HeapInv
<1>12. QED
  BY <1>1, <1>10, <1>11

-----------------------------------------------------------------------------
LEMMA InvStep ==
  ASSUME ~Reuse, HeapInv, [Next]_vars
  PROVE  HeapInv'
<1>1. HeapType
  BY DEF HeapInv
<1>2. HeapType'
  BY <1>1, TypeStep
<1>3. CASE UNCHANGED <<live, alloc, links>>
  BY <1>2, <1>3
     DEF HeapInv, HeapBounds, TreeShape, LinksLive, OnePredecessor, TagTellsLink,
         LinksToNewer, UplinkNotMisled, links
<1>4. CASE UNCHANGED heap \/ LeafStep
  BY <1>3, <1>4 DEF heap, LeafStep
<1>5. QED
  BY <1>1, <1>4, HeapSteps, NewHeapInv, AddNodeInv, FreeNodeInv

LEMMA InvAlways == ASSUME ~Reuse PROVE Spec => []HeapInv
<1>1. HeapInv /\ [Next]_vars => HeapInv'
  BY InvStep
<1>2. QED
  BY InitInv, <1>1, PTL DEF Spec

(***************************************************************************)
(* The tree keeps its shape through every creation, removal and reload: no *)
(* freed node is reachable, none is reached twice, tags tell the truth.    *)
(***************************************************************************)
THEOREM TreeKeepsItsShape == ASSUME ~Reuse PROVE Spec => []TreeShape
<1>1. HeapInv => TreeShape
  BY DEF HeapInv
<1>2. QED
  BY InvAlways, <1>1, PTL

(***************************************************************************)
(* An uplink leads to the node's predecessor or to a freed node, never to  *)
(* another node of the tree: the relinking that remove_node does through   *)
(* it, where it is defined at all, is done at the right place.             *)
(***************************************************************************)
THEOREM UplinkNeverMisleads == ASSUME ~Reuse PROVE Spec => []UplinkNotMisled
<1>1. HeapInv => UplinkNotMisled
  BY DEF HeapInv
<1>2. QED
  BY InvAlways, <1>1, PTL

-----------------------------------------------------------------------------
(* Paths and their prefixes. *)

AllSegments == UNION {Range(q.segs) : q \in Path}
Segments == Seq(AllSegments)

LEMMA FrontFacts ==
  ASSUME NEW S, NEW s \in Seq(S), Len(s) > 0
  PROVE  /\ Front(s) \in Seq(S) /\ Len(Front(s)) = Len(s) - 1
         /\ Last(s) \in S /\ s = Append(Front(s), Last(s))
         /\ \A i \in 1 .. Len(s) - 1 : Front(s)[i] = s[i]
<1>1. Len(s) \in Nat /\ Len(s) - 1 \in Nat /\ Len(s) \in 1 .. Len(s)
  OBVIOUS
<1>2. Front(s) \in Seq(S) /\ Len(Front(s)) = Len(s) - 1
  <2> DEFINE n == Len(s) - 1
  <2>1. n \in Nat /\ n <= Len(s)
    BY <1>1
  <2> HIDE DEF n
  <2>2. SubSeq(s, 1, n) \in Seq(S) /\ Len(SubSeq(s, 1, n)) = n
    BY <1>1, <2>1
  <2>3. QED
    BY <2>2 DEF Front, n
<1>3. \A i \in 1 .. Len(s) - 1 : Front(s)[i] = s[i]
  BY <1>1 DEF Front
<1>4. Last(s) \in S
  BY <1>1 DEF Last
<1>5. s = Append(Front(s), Last(s))
  BY <1>1 DEF Front, Last
<1>6. QED
  BY <1>2, <1>3, <1>4, <1>5

LEMMA TokensFacts ==
  ASSUME NEW p \in Path
  PROVE  /\ Tokens(p) \in Segments /\ Len(Tokens(p)) \in Nat \ {0}
         /\ Front(Tokens(p)) \in Segments
         /\ Tokens(p) = Append(Front(Tokens(p)), Name(p))
         /\ TopLevel(p) => Front(Tokens(p)) = <<>>
         /\ ~TopLevel(p) => /\ ParentKey(p) \in Path
                            /\ Tokens(ParentKey(p)) = Front(Tokens(p))
<1> DEFINE n == IF Len(p.segs) < MaxTokens THEN Len(p.segs) ELSE MaxTokens
           t == Tokens(p)
<1>1. p.segs \in Segments /\ Len(t) > 0 /\ (TopLevel(p) \/ ParentKey(p) \in Path)
  BY PathAssumption DEF Segments, AllSegments
<1>2. n \in Nat /\ n <= Len(p.segs) /\ n <= MaxTokens /\ MaxTokens \in Nat
  BY <1>1, BoundAssumption DEF Segments
<1>3. t \in Segments /\ Len(t) = n
  BY <1>1, <1>2 DEF Tokens, Segments
<1> HIDE DEF n, t
<1>4. /\ Front(t) \in Segments /\ Len(Front(t)) = Len(t) - 1
      /\ t = Append(Front(t), Last(t))
  BY <1>1, <1>3, FrontFacts DEF Segments
<1>5. Len(t) = 1 => Front(t) = <<>>
  BY <1>4 DEF Segments
<1>6. Tokens(Plain(Front(t))) = Front(t)
  <2>1. Plain(Front(t)).segs = Front(t)
    BY DEF Plain
  <2>2. Len(Front(t)) < MaxTokens /\ Len(Front(t)) \in Nat
    BY <1>1, <1>2, <1>3, <1>4
  <2>3. SubSeq(Front(t), 1, Len(Front(t))) = Front(t)
    BY <1>4 DEF Segments
  <2>4. QED
    BY <2>1, <2>2, <2>3 DEF Tokens
<1>7. QED
  BY <1>1, <1>2, <1>3, <1>4, <1>5, <1>6 DEF t, Name, TopLevel, ParentKey

(***************************************************************************)
(* The paths under t: t itself, and what is under t one segment up.        *)
(***************************************************************************)
LEMMA UnderFacts ==
  ASSUME NEW t \in Segments, Len(t) > 0
  PROVE  /\ Store!Under(t, t) /\ ~Store!Under(t, Front(t)) /\ ~Store!Under(t, <<>>)
         /\ \A q \in Segments : Len(q) > 0 =>
              (Store!Under(t, q) <=> q = t \/ Store!Under(t, Front(q)))
<1>1. Store!Under(t, t)
  <2>1. t = SubSeq(t, 1, Len(t)) /\ Len(t) \in 1 .. Len(t)
    BY DEF Segments
  <2>2. QED
    BY <2>1 DEF Store!Under
<1>2. \A q \in Segments : Store!Under(t, q) => Len(t) <= Len(q)
  <2>1. SUFFICES ASSUME NEW q \in Segments, NEW n \in 1 .. Len(q), t = SubSeq(q, 1, n)
                 PROVE  Len(t) <= Len(q)
    BY DEF Store!Under
  <2>2. Len(SubSeq(q, 1, n)) = n
    BY DEF Segments
  <2>3. QED
    BY <2>1, <2>2 DEF Segments
<1>3. Front(t) \in Segments /\ Len(Front(t)) = Len(t) - 1 /\ Len(t) \in Nat
  BY FrontFacts DEF Segments
<1>4. ASSUME NEW q \in Segments, Len(q) > 0
      PROVE  Store!Under(t, q) <=> q = t \/ Store!Under(t, Front(q))
  <2>1. /\ Front(q) \in Segments /\ Len(Front(q)) = Len(q) - 1 /\ Len(q) \in Nat
        /\ Front(q) = SubSeq(q, 1, Len(q) - 1)
    BY <1>4, FrontFacts DEF Segments, Front
  <2>2. \A n \in 1 .. Len(q) - 1 : SubSeq(q, 1, n) = SubSeq(Front(q), 1, n)
    BY <2>1 DEF Segments
  <2>3. SubSeq(q, 1, Len(q)) = q
    BY DEF Segments
  <2>4. 1 .. Len(q) = (1 .. Len(q) - 1) \cup {Len(q)}
    BY <1>4, <2>1
  <2>5. QED
    BY <2>1, <2>2, <2>3, <2>4 DEF Store!Under
<1>5. <<>> \in Segments /\ Len(<<>>) = 0
  BY DEF Segments
<1>6. ~Store!Under(t, Front(t)) /\ ~Store!Under(t, <<>>)
  BY <1>2, <1>3, <1>5
<1>7. QED
  BY <1>1, <1>4, <1>6


-----------------------------------------------------------------------------
(* Resolve, segment by segment. *)

NodesNamed(X, s) == UNION {ChildrenNamed(a, s) : a \in X}

Walk(segs) == [i \in 1 .. Len(segs) |-> [X \in SUBSET live |-> NodesNamed(X, segs[i])]]

WalksTo(W, segs) ==
  /\ Iterates(W, SUBSET live, {Root}, Walk(segs), Len(segs))
  /\ Resolve(segs) = W[Len(segs)]

LEMMA NodesNamedLive == \A X, s : NodesNamed(X, s) \in SUBSET live
BY DEF NodesNamed, ChildrenNamed, Children, Least

LEMMA ResolveIterates ==
  ASSUME Root \in live, NEW segs \in Segments
  PROVE  \E W : WalksTo(W, segs)
<1> DEFINE n == Len(segs)
           Body(f) == [i \in 0 .. n |-> IF i = 0 THEN {Root}
                                         ELSE UNION {ChildrenNamed(a, segs[i]) : a \in f[i - 1]}]
           at[i \in 0 .. n] ==
             IF i = 0 THEN {Root} ELSE UNION {ChildrenNamed(a, segs[i]) : a \in at[i - 1]}
<1>1. n \in Nat /\ {Root} \in SUBSET live
  BY DEF Segments
<1>2. \A i \in 1 .. n : Walk(segs)[i] \in [SUBSET live -> SUBSET live]
  BY NodesNamedLive DEF Walk
<1>3. PICK f : Iterates(f, SUBSET live, {Root}, Walk(segs), n)
  <2> HIDE DEF n
  <2>1. QED
    BY <1>1, <1>2, Iteration
<1>4. \A i \in 1 .. n : f[i] = NodesNamed(f[i - 1], segs[i])
  <2>1. \A i \in 1 .. n : f[i] = Walk(segs)[i][f[i - 1]] /\ f[i - 1] \in SUBSET live
    <3>1. \A i \in 1 .. n : i - 1 \in 0 .. n
      OBVIOUS
    <3>2. QED
      BY <1>3, <3>1 DEF Iterates
  <2>2. QED
    BY <2>1 DEF Walk
<1>5. f = Body(f)
  <2>1. ASSUME NEW i \in 0 .. n PROVE f[i] = Body(f)[i]
    <3>1. CASE i = 0
      BY <1>3, <3>1 DEF Iterates
    <3>2. CASE i # 0
      BY <1>4, <3>2 DEF NodesNamed
    <3>3. QED
      BY <3>1, <3>2
  <2>2. f = [i \in 0 .. n |-> f[i]] /\ Body(f) = [i \in 0 .. n |-> Body(f)[i]]
    BY <1>3 DEF Iterates
  <2> HIDE DEF Body
  <2>3. QED
    BY <2>1, <2>2
<1>6. at = Body(at)
  BY <1>5
<1>7. Resolve(segs) = at[n]
  BY DEF Resolve
<1> HIDE DEF at
<1>8. /\ at = [i \in 0 .. n |-> at[i]] /\ at[0] = {Root}
      /\ \A i \in 1 .. n : at[i] = NodesNamed(at[i - 1], segs[i])
  <2>1. /\ Body(at)[0] = {Root}
        /\ \A i \in 1 .. n : Body(at)[i] = NodesNamed(at[i - 1], segs[i])
    BY <1>1 DEF NodesNamed
  <2>2. Body(at) = [i \in 0 .. n |-> Body(at)[i]]
    OBVIOUS
  <2> HIDE DEF Body
  <2>3. QED
    BY <1>6, <2>1, <2>2
<1>9. \A i \in 0 .. n : at[i] \in SUBSET live
  <2>1. \A i \in 0 .. n : i = 0 \/ i \in 1 .. n
    OBVIOUS
  <2>2. QED
    BY <1>1, <1>8, <2>1, NodesNamedLive
<1>10. ASSUME NEW i \in 1 .. n PROVE at[i] = Walk(segs)[i][at[i - 1]]
  <2>1. at[i - 1] \in SUBSET live
    BY <1>9
  <2>2. QED
    BY <1>8, <2>1 DEF Walk
<1>11. WalksTo(at, segs)
  BY <1>7, <1>8, <1>9, <1>10 DEF WalksTo, Iterates
<1>12. QED
  BY <1>11

LEMMA ResolveFacts ==
  ASSUME Root \in live
  PROVE  /\ Resolve(<<>>) = {Root}
         /\ \A segs \in Segments, s \in AllSegments :
              Resolve(Append(segs, s)) = NodesNamed(Resolve(segs), s)
<1>1. Resolve(<<>>) = {Root}
  <2>1. <<>> \in Segments /\ Len(<<>>) = 0
    BY DEF Segments
  <2>2. PICK W : WalksTo(W, <<>>)
    BY <2>1, ResolveIterates
  <2>3. QED
    BY <2>1, <2>2 DEF WalksTo, Iterates
<1>2. ASSUME NEW segs \in Segments, NEW s \in AllSegments
      PROVE  Resolve(Append(segs, s)) = NodesNamed(Resolve(segs), s)
  <2> DEFINE more == Append(segs, s)
             n == Len(segs)
  <2>1. /\ more \in Segments /\ n \in Nat /\ Len(more) = n + 1 /\ more[n + 1] = s
        /\ \A i \in 1 .. n : more[i] = segs[i]
    BY DEF Segments
  <2> HIDE DEF more
  <2>2. PICK V : WalksTo(V, segs)
    BY ResolveIterates
  <2>3. PICK W : WalksTo(W, more)
    BY <2>1, ResolveIterates
  <2>4. V[n] = W[n]
    <3>1. \A i \in 1 .. n : Walk(segs)[i] = Walk(more)[i]
      BY <2>1 DEF Walk
    <3>2. /\ Iterates(V, SUBSET live, {Root}, Walk(segs), n)
          /\ Iterates(W, SUBSET live, {Root}, Walk(more), n + 1)
      BY <2>1, <2>2, <2>3 DEF WalksTo
    <3>3. n <= n + 1 /\ n \in Nat /\ n + 1 \in Nat
      BY <2>1
    <3> HIDE DEF n
    <3>4. QED
      BY <3>1, <3>2, <3>3, IterationsAgree
  <2>5. W[n + 1] = Walk(more)[n + 1][W[n]] /\ W[n] \in SUBSET live
    <3>1. n + 1 \in 1 .. n + 1 /\ (n + 1) - 1 = n /\ n \in 0 .. n + 1
      BY <2>1
    <3>2. QED
      BY <2>1, <2>3, <3>1 DEF WalksTo, Iterates
  <2>6. W[n + 1] = NodesNamed(W[n], s)
    BY <2>1, <2>5 DEF Walk
  <2>7. QED
    BY <2>1, <2>2, <2>3, <2>4, <2>6 DEF WalksTo, more
<1>3. QED
  BY <1>1, <1>2

-----------------------------------------------------------------------------
(***************************************************************************)
(* Where the nodes are.  K says of each node under which key it was added; *)
(* the links spell the same paths, no two nodes have one path, all are     *)
(* reached, and an index entry that leads to a live node leads to its own. *)
(***************************************************************************)
Nodes == live \ {Root}

At(K, a) == IF a = Root THEN <<>> ELSE Tokens(K[a])

Named(K) == K \in [Nodes -> Path] /\ \A a \in Nodes : name[a] = Name(K[a])

LinksSpell(K) ==
  \A a \in live :
    /\ left[a] # NULL => Front(At(K, left[a])) = At(K, a)
    /\ sibling[a] # NULL => Front(At(K, sibling[a])) = Front(At(K, a))

Reached ==
  /\ sibling[Root] = NULL
  /\ \A a \in Nodes : \E b \in live : left[b] = a \/ sibling[b] = a

OneEach(K) == \A a, b \in Nodes : Tokens(K[a]) = Tokens(K[b]) => a = b

Indexed(K) ==
  \A p \in Path : /\ index[p] <= alloc
                  /\ index[p] \in live => index[p] \in Nodes /\ K[index[p]] = p

Placed(K) == Named(K) /\ LinksSpell(K) /\ Reached /\ OneEach(K) /\ Indexed(K)

LEMMA AtFacts ==
  ASSUME HeapInv, NEW K, Placed(K)
  PROVE  /\ \A a \in live : At(K, a) \in Segments
         /\ \A a \in Nodes : /\ At(K, a) = Tokens(K[a]) /\ K[a] \in Path
                             /\ At(K, a) # <<>> /\ Len(At(K, a)) > 0
         /\ At(K, Root) = <<>>
         /\ \A a, b \in live : At(K, a) = At(K, b) => a = b
<1>1. ASSUME NEW a \in Nodes
      PROVE  /\ At(K, a) = Tokens(K[a]) /\ K[a] \in Path /\ At(K, a) \in Segments
             /\ At(K, a) # <<>> /\ Len(At(K, a)) > 0
  <2>1. K[a] \in Path /\ At(K, a) = Tokens(K[a])
    BY DEF Placed, Named, Nodes, At
  <2>2. At(K, a) \in Segments /\ Len(At(K, a)) \in Nat \ {0}
    BY <2>1, TokensFacts
  <2>3. QED
    BY <2>1, <2>2 DEF Segments
<1>2. At(K, Root) = <<>> /\ <<>> \in Segments
  BY DEF At, Segments
<1>3. ASSUME NEW a \in live, NEW b \in live, At(K, a) = At(K, b)
      PROVE  a = b
  BY <1>1, <1>2, <1>3 DEF Placed, OneEach, Nodes
<1>4. QED
  BY <1>1, <1>2, <1>3 DEF Nodes

(* Links lead to newer nodes, so never to the root. *)
LEMMA LinkFacts ==
  ASSUME HeapInv, NEW a \in live
  PROVE  /\ left[a] \in live <=> left[a] # NULL
         /\ sibling[a] \in live <=> sibling[a] # NULL
         /\ left[a] \in live => left[a] \in Nodes /\ left[a] > a
         /\ sibling[a] \in live => sibling[a] \in Nodes /\ sibling[a] > a
<1>1. live \subseteq Nat /\ NULL \notin live /\ \A x \in live : x >= Root
  BY DEF HeapInv, HeapType, Addr, NULL, Root
<1>2. /\ left[a] # NULL => left[a] \in live /\ left[a] > a
      /\ sibling[a] # NULL => sibling[a] \in live /\ sibling[a] > a
  BY DEF HeapInv, TreeShape, LinksLive, LinksToNewer
<1>3. \A x \in live : x > a => x # Root
  BY <1>1 DEF Root
<1>4. QED
  BY <1>1, <1>2, <1>3 DEF Nodes

(* The predecessor of a node: its parent, or its older sibling. *)
LEMMA Predecessor ==
  ASSUME HeapInv, NEW K, Placed(K), NEW c \in Nodes
  PROVE  \E d \in live :
           /\ d < c
           /\ \/ left[d] = c /\ Front(At(K, c)) = At(K, d)
              \/ sibling[d] = c /\ d \in Nodes /\ Front(At(K, c)) = Front(At(K, d))
<1>1. PICK d \in live : left[d] = c \/ sibling[d] = c
  BY DEF Placed, Reached
<1>2. c # NULL /\ c \in live /\ c \in Nat /\ d \in Nat
  BY DEF HeapInv, HeapType, Nodes, Addr, NULL
<1>3. c > d
  BY <1>1, <1>2, LinkFacts
<1>4. sibling[d] = c => d # Root
  BY <1>2 DEF Placed, Reached
<1>5. QED
  BY <1>1, <1>2, <1>3, <1>4 DEF Placed, LinksSpell, Nodes

LEMMA Numbered == HeapInv => live \subseteq Nat /\ Nodes \subseteq live
BY DEF HeapInv, HeapType, Nodes, Addr

LEMMA ParentLives ==
  ASSUME HeapInv, NEW K, Placed(K), NEW c \in Nodes
  PROVE  \E b \in live : At(K, b) = Front(At(K, c))
<1> DEFINE Bad == {x \in Nodes : \A b \in live : At(K, b) # Front(At(K, x))}
<1>1. SUFFICES ASSUME Bad # {} PROVE FALSE
  OBVIOUS
<1>2. Bad \in SUBSET Nat
  BY Numbered
<1>3. PICK m \in Bad : \A x \in Bad : m <= x
  <2> HIDE DEF Bad
  <2>1. QED
    BY <1>1, <1>2, LeastNumber
<1>4. PICK d \in live :
        /\ d < m
        /\ \/ left[d] = m /\ Front(At(K, m)) = At(K, d)
           \/ sibling[d] = m /\ d \in Nodes /\ Front(At(K, m)) = Front(At(K, d))
  BY Predecessor
<1>5. d \in Bad
  BY <1>4
<1>6. d \in Nat /\ m \in Nat
  BY <1>2, <1>5
<1>7. QED
  BY <1>3, <1>4, <1>5, <1>6

(* The children of a node are the nodes one segment below it. *)
LEMMA ChildrenFacts ==
  ASSUME HeapInv, NEW K, Placed(K), NEW b \in live
  PROVE  Children(b) = {c \in Nodes : Front(At(K, c)) = At(K, b)}
<1> DEFINE T == {c \in Nodes : Front(At(K, c)) = At(K, b)}
<1>1. T \in ChainClosed(b)
  <2>1. T \in SUBSET live
    BY DEF Nodes
  <2>2. left[b] \in live => left[b] \in T
    BY LinkFacts DEF Placed, LinksSpell
  <2>3. \A x \in T : sibling[x] \in live => sibling[x] \in T
    BY <2>1, LinkFacts DEF Placed, LinksSpell
  <2> HIDE DEF T
  <2>4. QED
    BY <2>1, <2>2, <2>3 DEF ChainClosed
<1>2. Children(b) \subseteq T
  <2> HIDE DEF T
  <2>1. QED
    BY <1>1 DEF Children, Least
<1>3. /\ left[b] \in live => left[b] \in Children(b)
      /\ \A x \in Children(b) : sibling[x] \in live => sibling[x] \in Children(b)
  BY DEF Children, Least, ChainClosed
<1>4. T \subseteq Children(b)
  <2> DEFINE Bad == T \ Children(b)
  <2>1. SUFFICES ASSUME Bad # {} PROVE FALSE
    OBVIOUS
  <2>2. Bad \in SUBSET Nat /\ live \subseteq Nat
    BY Numbered
  <2>3. PICK m \in Bad : \A x \in Bad : m <= x
    <3> HIDE DEF Bad
    <3>1. QED
      BY <2>1, <2>2, LeastNumber
  <2>4. PICK d \in live :
          /\ d < m
          /\ \/ left[d] = m /\ Front(At(K, m)) = At(K, d)
             \/ sibling[d] = m /\ d \in Nodes /\ Front(At(K, m)) = Front(At(K, d))
    BY Predecessor
  <2>5. m \in live /\ d \in Nat /\ m \in Nat
    BY <2>2 DEF Nodes
  <2>6. CASE left[d] = m /\ Front(At(K, m)) = At(K, d)
    <3>1. d = b
      BY <2>6, AtFacts
    <3>2. QED
      BY <1>3, <2>5, <2>6, <3>1
  <2>7. CASE sibling[d] = m /\ d \in Nodes /\ Front(At(K, m)) = Front(At(K, d))
    <3>1. d \in T
      BY <2>7
    <3>2. d \notin Bad
      BY <2>3, <2>4, <2>5
    <3>3. QED
      BY <1>3, <2>5, <2>7, <3>1, <3>2
  <2>8. QED
    BY <2>4, <2>6, <2>7
<1>5. QED
  BY <1>2, <1>4

(* What walking down finds: the one node at a path, if there is one. *)
LEMMA ResolvePlaced ==
  ASSUME HeapInv, NEW K, Placed(K)
  PROVE  \A segs \in Segments : Resolve(segs) = {a \in live : At(K, a) = segs}
<1> DEFINE S == {segs \in Segments : Resolve(segs) = {a \in live : At(K, a) = segs}}
<1>1. Root \in live
  BY DEF HeapInv, HeapBounds
<1>2. <<>> \in S
  <2>1. <<>> \in Segments
    BY DEF Segments
  <2>2. \A a \in live : At(K, a) = <<>> <=> a = Root
    BY AtFacts DEF Nodes
  <2>3. QED
    BY <1>1, <2>1, <2>2, ResolveFacts
<1>3. ASSUME NEW segs \in Segments, NEW s \in AllSegments, segs \in S
      PROVE  Append(segs, s) \in S
  <2>1. Append(segs, s) \in Segments
    BY DEF Segments
  <2>2. Resolve(Append(segs, s)) = NodesNamed({a \in live : At(K, a) = segs}, s)
    BY <1>1, <1>3, ResolveFacts
  <2>3. ASSUME NEW c \in live
        PROVE  (\E b \in live : At(K, b) = segs /\ c \in Children(b) /\ name[c] = s)
                 <=> At(K, c) = Append(segs, s)
    <3>1. CASE c = Root
      <4>1. \A b \in live : c \notin Children(b)
        BY <3>1, ChildrenFacts DEF Nodes
      <4>2. Append(segs, s) # <<>>
        BY DEF Segments
      <4>3. QED
        BY <3>1, <4>1, <4>2, AtFacts
    <3>2. CASE c \in Nodes
      <4>1. At(K, c) = Append(Front(At(K, c)), name[c]) /\ Front(At(K, c)) \in Segments
        <5>1. K[c] \in Path /\ At(K, c) = Tokens(K[c])
          BY <3>2, AtFacts
        <5>2. name[c] = Name(K[c])
          BY <3>2 DEF Placed, Named
        <5>3. QED
          BY <5>1, <5>2, TokensFacts
      <4>2. At(K, c) = Append(segs, s) => Front(At(K, c)) = segs /\ name[c] = s
        <5>1. SUFFICES ASSUME At(K, c) = Append(segs, s)
                       PROVE  Front(At(K, c)) = segs /\ name[c] = s
          OBVIOUS
        <5> DEFINE fr == Front(At(K, c))
        <5>2. fr \in Seq(AllSegments) /\ segs \in Seq(AllSegments) /\ Append(fr, name[c]) = Append(segs, s)
          BY <4>1, <5>1 DEF Segments
        <5> HIDE DEF fr
        <5>3. fr = segs /\ name[c] = s
          BY <5>2
        <5>4. QED
          BY <5>3 DEF fr
      <4>3. PICK b \in live : At(K, b) = Front(At(K, c))
        BY <3>2, ParentLives
      <4>4. c \in Children(b)
        BY <3>2, <4>3, ChildrenFacts
      <4>5. \A x \in live : c \in Children(x) => Front(At(K, c)) = At(K, x)
        BY ChildrenFacts
      <4>6. QED
        BY <4>1, <4>2, <4>3, <4>4, <4>5
    <3>3. QED
      BY <3>1, <3>2 DEF Nodes
  <2>4. \A b \in live : Children(b) \subseteq live
    BY DEF Children, Least
  <2>5. QED
    BY <2>1, <2>2, <2>3, <2>4 DEF NodesNamed, ChildrenNamed
<1> HIDE DEF S
<1>4. \A segs \in Seq(AllSegments) : segs \in S
  BY <1>2, <1>3, SequenceInduction DEF Segments
<1>5. QED
  BY <1>4 DEF S, Segments

-----------------------------------------------------------------------------
(* What the steps do to the places. *)

LEMMA InitPlaced == Init => \E K : Placed(K)
<1> SUFFICES ASSUME Init PROVE \E K : Placed(K)
  OBVIOUS
<1> DEFINE K == [a \in {} |-> a]
<1>1. Root \in Addr
  BY BoundAssumption DEF Addr, Root
<1>2. live = {Root} /\ Nodes = {} /\ alloc = Root /\ left[Root] = NULL /\ sibling[Root] = NULL
  BY <1>1 DEF Init, NoPointers, Nodes
<1>3. \A p \in Path : index[p] = NULL /\ index[p] <= alloc /\ index[p] \notin live
  BY <1>2 DEF Init, EmptyIndex, NULL, Root
<1>4. Placed(K)
  BY <1>2, <1>3 DEF Placed, Named, LinksSpell, Reached, OneEach, Indexed
<1>5. QED
  BY <1>4

LEMMA NewHeapPlaced == NewHeap => \E K : Placed(K)' /\ Nodes' = {}
<1> SUFFICES ASSUME NewHeap PROVE \E K : Placed(K)' /\ Nodes' = {}
  OBVIOUS
<1> DEFINE K == [a \in {} |-> a]
<1>1. Root \in Addr
  BY BoundAssumption DEF Addr, Root
<1>2. /\ live' = {Root} /\ Nodes' = {} /\ alloc' = Root
      /\ left'[Root] = NULL /\ sibling'[Root] = NULL
  BY <1>1 DEF NewHeap, NoPointers, Nodes
<1>3. \A p \in Path : index'[p] = NULL /\ index'[p] <= alloc' /\ index'[p] \notin live'
  BY <1>2 DEF NewHeap, EmptyIndex, NULL, Root
<1>4. Placed(K)'
  BY <1>2, <1>3 DEF Placed, Named, LinksSpell, Reached, OneEach, Indexed
<1>5. QED
  BY <1>2, <1>4

LEMMA SamePlaced ==
  ASSUME NEW K, Placed(K), UNCHANGED <<live, alloc, left, sibling, name, index>>
  PROVE  Placed(K)'
BY DEF Placed, Named, LinksSpell, Reached, OneEach, Indexed, Nodes, At

(***************************************************************************)
(* The parent that the index gives to add_node is the one by its path, and *)
(* since every sibling is compared no node has the new one's path yet.     *)
(***************************************************************************)
LEMMA NewPlace ==
  ASSUME HeapInv, NEW K, Placed(K), NEW p \in Path, ParentNode(p) \in live
  PROVE  /\ At(K, ParentNode(p)) = Front(Tokens(p))
         /\ ~TopLevel(p) => ParentNode(p) \in Nodes /\ K[ParentNode(p)] = ParentKey(p)
         /\ Clash(p) <=> \E a \in Nodes : Tokens(K[a]) = Tokens(p)
<1> DEFINE parent == ParentNode(p)
<1>1. /\ At(K, parent) = Front(Tokens(p))
      /\ ~TopLevel(p) => parent \in Nodes /\ K[parent] = ParentKey(p)
  <2>1. CASE TopLevel(p)
    BY <2>1, TokensFacts, AtFacts DEF ParentNode
  <2>2. CASE ~TopLevel(p)
    <3>1. parent = index[ParentKey(p)] /\ ParentKey(p) \in Path
      BY <2>2, TokensFacts DEF ParentNode
    <3>2. parent \in Nodes /\ K[parent] = ParentKey(p)
      BY <3>1 DEF Placed, Indexed
    <3>3. QED
      BY <2>2, <3>2, TokensFacts, AtFacts
  <2>3. QED
    BY <2>1, <2>2
<1>2. ASSUME NEW a \in Nodes
      PROVE  Tokens(K[a]) = Tokens(p) <=> a \in Children(parent) /\ name[a] = Name(p)
  <2>1. K[a] \in Path /\ name[a] = Name(K[a]) /\ At(K, a) = Tokens(K[a])
    BY AtFacts DEF Placed, Named
  <2>2. /\ Tokens(K[a]) = Append(Front(Tokens(K[a])), Name(K[a]))
        /\ Tokens(p) = Append(Front(Tokens(p)), Name(p))
    BY <2>1, TokensFacts
  <2>3. a \in Children(parent) <=> Front(Tokens(K[a])) = Front(Tokens(p))
    BY <1>1, <2>1, ChildrenFacts
  <2>4. Tokens(K[a]) = Tokens(p) => Name(K[a]) = Name(p)
    BY DEF Name
  <2>5. QED
    BY <2>1, <2>2, <2>3, <2>4
<1>3. Children(parent) \subseteq Nodes
  BY ChildrenFacts
<1>4. QED
  BY <1>1, <1>2, <1>3 DEF Clash, ChildrenNamed

LEMMA AddNodePlaced ==
  ASSUME ~Reuse, HeapInv, NEW K, Placed(K), NEW p \in Path, AddNode(p),
         NEW K2, K2 = [a \in Nodes \cup {alloc + 1} |-> IF a = alloc + 1 THEN p ELSE K[a]]
  PROVE  /\ Placed(K2)' /\ Nodes' = Nodes \cup {alloc + 1}
         /\ K2[alloc + 1] = p /\ \A a \in Nodes : K2[a] = K[a]
<1> DEFINE n == alloc + 1
           parent == ParentNode(p)
<1>1. /\ n \in Addr /\ parent \in live
      /\ live' = live \cup {n} /\ alloc' = IF n > alloc THEN n ELSE alloc
      /\ name' = [name EXCEPT ![n] = Name(p)]
      /\ AsFirstChild(n, parent) \/ AsLastSibling(n, parent)
      /\ IndexInsert(p, n)
  BY DEF AddNode, Fresh
<1>2. alloc \in Nat /\ live \subseteq Nat /\ live \subseteq Addr /\ Root \in live
  BY DEF HeapInv, HeapType, HeapBounds, Addr
<1>3. alloc' = n /\ n > alloc /\ n \notin live /\ n # NULL /\ n # Root
  <2>1. \A a \in live : a <= alloc
    BY DEF HeapInv, HeapBounds
  <2>2. n \notin live
    BY <1>2, <2>1
  <2>3. QED
    BY <1>1, <1>2, <2>2 DEF NULL
<1>4. \A a \in live : left[a] # n /\ sibling[a] # n
  BY <1>3, LinkFacts DEF Nodes, HeapInv, TreeShape, LinksLive
<1>5. Nodes' = Nodes \cup {n} /\ n \notin Nodes
  BY <1>1, <1>3 DEF Nodes
<1>6. K2[n] = p /\ \A a \in Nodes : K2[a] = K[a]
  BY <1>5
<1>7. /\ \A a \in live : At(K2, a) = At(K, a)
      /\ At(K2, n) = Tokens(p)
  BY <1>3, <1>6 DEF At, Nodes
<1>8. At(K, parent) = Front(Tokens(p)) /\ \A a \in Nodes : Tokens(K[a]) # Tokens(p)
  BY NewPlace DEF AddNode
<1>9. Named(K2)'
  <2>1. name'[n] = Name(p) /\ \A a \in Nodes : name'[a] = name[a]
    BY <1>1, <1>2, <1>5 DEF HeapInv, HeapType, Nodes
  <2>2. K2 \in [Nodes \cup {n} -> Path]
    BY DEF Placed, Named
  <2>3. QED
    BY <1>5, <1>6, <2>1, <2>2 DEF Placed, Named
<1>10. OneEach(K2)'
  BY <1>5, <1>6, <1>8 DEF Placed, OneEach
<1>11. Indexed(K2)'
  <2>1. index \in [Path -> Addr \cup {NULL}]
    BY DEF HeapInv, HeapType, Dict!DictType
  <2>2. ASSUME NEW q \in Path, index'[q] = index[q]
        PROVE  index'[q] <= alloc' /\ (index'[q] \in live' => index'[q] \in Nodes' /\ K2[index'[q]] = q)
    <3>1. index[q] <= alloc /\ index[q] \in Nat
      BY <2>1 DEF Placed, Indexed, Addr, NULL
    <3>2. index[q] <= n /\ index[q] # n
      BY <1>2, <3>1
    <3>3. QED
      BY <1>1, <1>3, <1>5, <1>6, <2>2, <3>2 DEF Placed, Indexed
  <2>3. ASSUME NEW q \in Path, index'[q] = n, q = p
        PROVE  index'[q] <= alloc' /\ (index'[q] \in live' => index'[q] \in Nodes' /\ K2[index'[q]] = q)
    BY <1>2, <1>3, <1>5, <1>6, <2>3
  <2>4. \A q \in Path : index'[q] = index[q] \/ (index'[q] = n /\ q = p)
    BY <1>1, <2>1 DEF IndexInsert, Dict!Insert
  <2>5. QED
    BY <2>2, <2>3, <2>4 DEF Indexed
<1>12. CASE AsFirstChild(n, parent)
  <2>1. /\ left'[parent] = n /\ left[parent] = NULL
        /\ \A a \in live \ {parent} : left'[a] = left[a]
        /\ \A a \in live : sibling'[a] = sibling[a]
        /\ left'[n] = NULL /\ sibling'[n] = NULL
    BY <1>1, <1>2, <1>3, <1>12 DEF AsFirstChild, HeapInv, HeapType
  <2>2. LinksSpell(K2)'
    <3>1. ASSUME NEW a \in live
          PROVE  /\ left'[a] # NULL => Front(At(K2, left'[a])) = At(K2, a)
                 /\ sibling'[a] # NULL => Front(At(K2, sibling'[a])) = Front(At(K2, a))
      <4>1. left[a] # NULL => left[a] \in live /\ Front(At(K, left[a])) = At(K, a)
        BY LinkFacts DEF Placed, LinksSpell
      <4>2. sibling[a] # NULL => sibling[a] \in live /\ Front(At(K, sibling[a])) = Front(At(K, a))
        BY LinkFacts DEF Placed, LinksSpell
      <4>3. QED
        BY <1>7, <1>8, <2>1, <4>1, <4>2
    <3>2. QED
      BY <1>1, <2>1, <3>1 DEF LinksSpell, At
  <2>3. Reached'
    <3>1. sibling'[Root] = NULL
      BY <1>2, <2>1 DEF Placed, Reached
    <3>2. ASSUME NEW a \in Nodes PROVE \E b \in live' : left'[b] = a \/ sibling'[b] = a
      <4>1. PICK b \in live : left[b] = a \/ sibling[b] = a
        BY DEF Placed, Reached
      <4>2. b \in live' /\ a # NULL
        BY <1>1, <1>2 DEF Nodes, Addr, NULL
      <4>3. QED
        BY <2>1, <4>1, <4>2
    <3>3. parent \in live'
      BY <1>1
    <3>4. QED
      BY <1>5, <2>1, <3>1, <3>2, <3>3 DEF Reached
  <2>4. QED
    BY <1>5, <1>6, <1>9, <1>10, <1>11, <2>2, <2>3 DEF Placed
<1>13. CASE AsLastSibling(n, parent)
  <2>1. PICK last \in Children(parent) :
          /\ sibling[last] = NULL
          /\ left' = [left EXCEPT ![n] = NULL]
          /\ sibling' = [sibling EXCEPT ![last] = n, ![n] = NULL]
    BY <1>13 DEF AsLastSibling
  <2>2. last \in Nodes /\ last \in live /\ Front(At(K, last)) = At(K, parent)
    BY <1>1, ChildrenFacts DEF Nodes
  <2>3. /\ sibling'[last] = n
        /\ \A a \in live \ {last} : sibling'[a] = sibling[a]
        /\ \A a \in live : left'[a] = left[a]
        /\ left'[n] = NULL /\ sibling'[n] = NULL
    BY <1>1, <1>2, <1>3, <2>1, <2>2 DEF HeapInv, HeapType
  <2>4. LinksSpell(K2)'
    <3>1. ASSUME NEW a \in live
          PROVE  /\ left'[a] # NULL => Front(At(K2, left'[a])) = At(K2, a)
                 /\ sibling'[a] # NULL => Front(At(K2, sibling'[a])) = Front(At(K2, a))
      <4>1. left[a] # NULL => left[a] \in live /\ Front(At(K, left[a])) = At(K, a)
        BY LinkFacts DEF Placed, LinksSpell
      <4>2. sibling[a] # NULL => sibling[a] \in live /\ Front(At(K, sibling[a])) = Front(At(K, a))
        BY LinkFacts DEF Placed, LinksSpell
      <4>3. QED
        BY <1>7, <1>8, <2>2, <2>3, <4>1, <4>2
    <3>2. QED
      BY <1>1, <2>3, <3>1 DEF LinksSpell, At
  <2>5. Reached'
    <3>1. sibling'[Root] = NULL
      BY <1>2, <2>2, <2>3 DEF Placed, Reached, Nodes
    <3>2. ASSUME NEW a \in Nodes PROVE \E b \in live' : left'[b] = a \/ sibling'[b] = a
      <4>1. PICK b \in live : left[b] = a \/ sibling[b] = a
        BY DEF Placed, Reached
      <4>2. b \in live' /\ a # NULL
        BY <1>1, <1>2 DEF Nodes, Addr, NULL
      <4>3. QED
        BY <2>1, <2>3, <4>1, <4>2
    <3>3. last \in live'
      BY <1>1, <2>2
    <3>4. QED
      BY <1>5, <2>3, <3>1, <3>2, <3>3 DEF Reached
  <2>6. QED
    BY <1>5, <1>6, <1>9, <1>10, <1>11, <2>4, <2>5 DEF Placed
<1>14. QED
  BY <1>1, <1>12, <1>13

LEMMA FreeNodePlaced ==
  ASSUME HeapInv, NEW K, Placed(K), NEW n, FreeNode(n),
         NEW K2, K2 = [a \in Nodes \ Subtree(n) |-> K[a]]
  PROVE  /\ Placed(K2)' /\ Nodes' = Nodes \ Subtree(n) /\ n \in Nodes
         /\ \A a \in Nodes' : K2[a] = K[a]
<1> DEFINE u == uplink[n]
           s == sibling[n]
           F == Subtree(n)
<1>1. n \in live /\ u \in live /\ tag[n] \in {"node", "sibling"}
  BY DEF FreeNode, Unlink
<1>2. /\ n # Root /\ n \in Nodes /\ u \notin F /\ Root \notin F /\ Root \in live /\ n # NULL
      /\ n \in F /\ F \subseteq live
      /\ IF tag[n] = "node" THEN left[u] = n ELSE sibling[u] = n
  BY <1>1, AroundFreed, SubtreeClosed DEF HeapInv, HeapBounds, TreeShape, Nodes
<1>3. \A a \in F : /\ left[a] # NULL => left[a] \in F
                   /\ a # n /\ sibling[a] # NULL => sibling[a] \in F
  BY <1>1, SubtreeClosed DEF HeapInv, TreeShape
<1>4. /\ live' = live \ F /\ name' = name /\ index' = index /\ alloc' = alloc
      /\ Nodes' = Nodes \ F
  BY DEF FreeNode, Nodes
<1>5. /\ K2 \in [Nodes' -> Path] /\ \A a \in Nodes' : a \in Nodes /\ K2[a] = K[a]
      /\ \A a \in live' : a \in live /\ At(K2, a) = At(K, a)
  BY <1>4 DEF Placed, Named, At, Nodes
<1>6. \A a \in live' : /\ left'[a] # NULL => left'[a] \in live'
                       /\ sibling'[a] # NULL => sibling'[a] \in live'
  BY FreeNodeInv DEF HeapInv, TreeShape, LinksLive
<1>7. Named(K2)' /\ OneEach(K2)' /\ Indexed(K2)'
  BY <1>4, <1>5 DEF Placed, Named, OneEach, Indexed, Nodes
<1>8. \A a \in live : /\ left[a] # NULL => Front(At(K, left[a])) = At(K, a)
                      /\ sibling[a] # NULL => Front(At(K, sibling[a])) = Front(At(K, a))
  BY DEF Placed, LinksSpell
<1>9. ASSUME NEW a \in Nodes'
      PROVE  (a = s /\ s # NULL) \/ \E b \in live' : left[b] = a \/ sibling[b] = a
  <2>1. PICK b \in live : left[b] = a \/ sibling[b] = a
    BY <1>5 DEF Placed, Reached
  <2>2. a # NULL /\ a \notin F
    BY <1>4 DEF HeapInv, HeapType, Nodes, Addr, NULL
  <2>3. QED
    BY <1>3, <1>4, <2>1, <2>2
<1>10. live \subseteq Addr /\ left \in [Addr -> Pointer] /\ sibling \in [Addr -> Pointer]
  BY DEF HeapInv, HeapType
<1>11. CASE tag[n] = "node"
  <2>1. /\ left' = [left EXCEPT ![u] = s] /\ sibling' = [sibling EXCEPT ![n] = NULL]
    BY <1>11 DEF FreeNode, Unlink
  <2>2. /\ left'[u] = s /\ left[u] = n
        /\ \A a \in live' : sibling'[a] = sibling[a] /\ (a # u => left'[a] = left[a])
    BY <1>1, <1>2, <1>4, <1>10, <1>11, <2>1
  <2>3. LinksSpell(K2)'
    <3>1. ASSUME NEW a \in live'
          PROVE  /\ left'[a] # NULL => Front(At(K2, left'[a])) = At(K2, a)
                 /\ sibling'[a] # NULL => Front(At(K2, sibling'[a])) = Front(At(K2, a))
      <4>1. /\ a \in live /\ At(K2, a) = At(K, a)
            /\ left'[a] # NULL => At(K2, left'[a]) = At(K, left'[a])
            /\ sibling'[a] # NULL => At(K2, sibling'[a]) = At(K, sibling'[a])
        BY <1>5, <1>6
      <4>2. a = u => (s # NULL => Front(At(K, s)) = At(K, u))
        BY <1>1, <1>2, <1>8, <2>2
      <4>3. QED
        BY <1>8, <2>2, <4>1, <4>2
    <3>2. QED
      BY <3>1 DEF LinksSpell, At
  <2>4. Reached'
    <3>1. sibling'[Root] = NULL
      BY <1>2, <1>4, <2>2 DEF Placed, Reached
    <3>2. u \in live'
      BY <1>1, <1>2, <1>4
    <3>3. ASSUME NEW a \in Nodes' PROVE \E b \in live' : left'[b] = a \/ sibling'[b] = a
      <4>1. a # n
        BY <1>2, <1>4
      <4>2. QED
        BY <1>9, <2>2, <3>2, <4>1
    <3>4. QED
      BY <3>1, <3>3 DEF Reached
  <2>5. QED
    BY <1>2, <1>4, <1>5, <1>7, <2>3, <2>4 DEF Placed
<1>12. CASE tag[n] = "sibling"
  <2>1. /\ left' = left /\ sibling' = [sibling EXCEPT ![u] = s, ![n] = NULL]
    BY <1>12 DEF FreeNode, Unlink
  <2>2. /\ sibling'[u] = s /\ sibling[u] = n
        /\ \A a \in live' : left'[a] = left[a] /\ (a # u => sibling'[a] = sibling[a])
    BY <1>1, <1>2, <1>4, <1>10, <1>12, <2>1
  <2>3. LinksSpell(K2)'
    <3>1. ASSUME NEW a \in live'
          PROVE  /\ left'[a] # NULL => Front(At(K2, left'[a])) = At(K2, a)
                 /\ sibling'[a] # NULL => Front(At(K2, sibling'[a])) = Front(At(K2, a))
      <4>1. /\ a \in live /\ At(K2, a) = At(K, a)
            /\ left'[a] # NULL => At(K2, left'[a]) = At(K, left'[a])
            /\ sibling'[a] # NULL => At(K2, sibling'[a]) = At(K, sibling'[a])
        BY <1>5, <1>6
      <4>2. a = u => (s # NULL => Front(At(K, s)) = Front(At(K, u)))
        BY <1>1, <1>2, <1>8, <2>2
      <4>3. QED
        BY <1>8, <2>2, <4>1, <4>2
    <3>2. QED
      BY <3>1 DEF LinksSpell, At
  <2>4. Reached'
    <3>1. sibling'[Root] = NULL
      BY <1>2, <1>4, <2>2 DEF Placed, Reached
    <3>2. u \in live'
      BY <1>1, <1>2, <1>4
    <3>3. ASSUME NEW a \in Nodes' PROVE \E b \in live' : left'[b] = a \/ sibling'[b] = a
      <4>1. a # n
        BY <1>2, <1>4
      <4>2. QED
        BY <1>9, <2>2, <3>2, <4>1
    <3>4. QED
      BY <3>1, <3>3 DEF Reached
  <2>5. QED
    BY <1>2, <1>4, <1>5, <1>7, <2>3, <2>4 DEF Placed
<1>13. QED
  BY <1>1, <1>11, <1>12

(***************************************************************************)
(* What free_tree frees is what is at the path of n and under it.          *)
(***************************************************************************)
LEMMA SubtreeUnder ==
  ASSUME HeapInv, NEW K, Placed(K), NEW n \in Nodes
  PROVE  Subtree(n) = {a \in Nodes : Store!Under(At(K, n), At(K, a))}
<1> DEFINE t == At(K, n)
           T == {a \in Nodes : Store!Under(t, At(K, a))}
<1>1. t \in Segments /\ Len(t) > 0 /\ Nodes \subseteq live /\ n \in live
  BY AtFacts DEF Nodes
<1>2. \A a \in Nodes : Store!Under(t, At(K, a)) <=> a = n \/ Store!Under(t, Front(At(K, a)))
  BY <1>1, AtFacts, UnderFacts
<1>3. Store!Under(t, t) /\ ~Store!Under(t, Front(t)) /\ ~Store!Under(t, <<>>)
  BY <1>1, UnderFacts
<1>4. T \in FreeClosed(n)
  <2>1. T \in SUBSET live /\ n \in T
    BY <1>1, <1>3
  <2>2. ASSUME NEW x \in T, left[x] \in live PROVE left[x] \in T
    <3>1. left[x] \in Nodes /\ Front(At(K, left[x])) = At(K, x)
      BY <1>1, <2>2, LinkFacts DEF Placed, LinksSpell
    <3>2. QED
      BY <1>2, <2>2, <3>1
  <2>3. ASSUME NEW x \in T, x # n, sibling[x] \in live PROVE sibling[x] \in T
    <3>1. sibling[x] \in Nodes /\ Front(At(K, sibling[x])) = Front(At(K, x))
      BY <1>1, <2>3, LinkFacts DEF Placed, LinksSpell
    <3>2. Store!Under(t, Front(At(K, x)))
      BY <1>2, <2>3
    <3>3. QED
      BY <1>2, <3>1, <3>2
  <2> HIDE DEF T
  <2>4. QED
    BY <2>1, <2>2, <2>3 DEF FreeClosed
<1>5. Subtree(n) \subseteq T
  <2> HIDE DEF T
  <2>1. QED
    BY <1>4 DEF Subtree, Least
<1>6. T \subseteq Subtree(n)
  <2> DEFINE Bad == T \ Subtree(n)
  <2>1. SUFFICES ASSUME Bad # {} PROVE FALSE
    OBVIOUS
  <2>2. Bad \in SUBSET Nat /\ live \subseteq Nat
    BY Numbered
  <2>3. PICK m \in Bad : \A x \in Bad : m <= x
    <3> HIDE DEF Bad
    <3>1. QED
      BY <2>1, <2>2, LeastNumber
  <2>4. /\ n \in Subtree(n)
        /\ \A x \in Subtree(n) : /\ left[x] # NULL => left[x] \in Subtree(n)
                                 /\ x # n /\ sibling[x] # NULL => sibling[x] \in Subtree(n)
    BY <1>1, SubtreeClosed DEF HeapInv, TreeShape
  <2>5. m \in Nodes /\ m # n /\ m # NULL /\ Store!Under(t, Front(At(K, m)))
    BY <1>2, <2>4 DEF HeapInv, HeapType, Nodes, Addr, NULL
  <2>6. PICK d \in live :
          /\ d < m
          /\ \/ left[d] = m /\ Front(At(K, m)) = At(K, d)
             \/ sibling[d] = m /\ d \in Nodes /\ Front(At(K, m)) = Front(At(K, d))
    BY <2>5, Predecessor
  <2>7. d \notin Bad
    BY <2>2, <2>3, <2>6
  <2>8. CASE left[d] = m /\ Front(At(K, m)) = At(K, d)
    <3>1. d \in Nodes
      BY <1>3, <2>5, <2>8, AtFacts DEF Nodes
    <3>2. d \in Subtree(n)
      BY <2>5, <2>7, <2>8, <3>1
    <3>3. QED
      BY <2>4, <2>5, <2>8, <3>2
  <2>9. CASE sibling[d] = m /\ d \in Nodes /\ Front(At(K, m)) = Front(At(K, d))
    <3>1. d # n
      BY <1>3, <2>5, <2>9
    <3>2. d \in Subtree(n)
      BY <1>2, <2>5, <2>7, <2>9
    <3>3. QED
      BY <2>4, <2>5, <2>9, <3>1, <3>2
  <2>10. QED
    BY <2>6, <2>8, <2>9
<1>7. QED
  BY <1>5, <1>6

-----------------------------------------------------------------------------
PlacedInv == HeapInv /\ \E K : Placed(K)

LEMMA PlacedStep ==
  ASSUME ~Reuse, PlacedInv, [Next]_vars
  PROVE  PlacedInv'
<1>1. HeapInv /\ HeapInv' /\ HeapType
  BY InvStep DEF PlacedInv, HeapInv
<1>2. PICK K : Placed(K)
  BY DEF PlacedInv
<1>3. CASE UNCHANGED heap \/ LeafStep
  BY <1>1, <1>2, <1>3, SamePlaced DEF PlacedInv, heap, LeafStep, links
<1>4. CASE NewHeap
  BY <1>1, <1>4, NewHeapPlaced DEF PlacedInv
<1>5. ASSUME NEW p \in Path, AddNode(p) PROVE PlacedInv'
  <2>1. PICK K2 : K2 = [a \in Nodes \cup {alloc + 1} |-> IF a = alloc + 1 THEN p ELSE K[a]]
    OBVIOUS
  <2>2. QED
    BY <1>1, <1>2, <1>5, <2>1, AddNodePlaced DEF PlacedInv
<1>6. ASSUME NEW p \in Path, FreeNode(index[p]) PROVE PlacedInv'
  <2>1. PICK K2 : K2 = [a \in Nodes \ Subtree(index[p]) |-> K[a]]
    OBVIOUS
  <2>2. QED
    BY <1>1, <1>2, <1>6, <2>1, FreeNodePlaced DEF PlacedInv
<1>7. QED
  BY <1>1, <1>3, <1>4, <1>5, <1>6, HeapSteps

LEMMA PlacedAlways == ASSUME ~Reuse PROVE Spec => []PlacedInv
<1>1. Init => PlacedInv
  BY InitInv, InitPlaced DEF PlacedInv
<1>2. PlacedInv /\ [Next]_vars => PlacedInv'
  BY PlacedStep
<1>3. QED
  BY <1>1, <1>2, PTL DEF Spec

(***************************************************************************)
(* An index entry that leads to a live node leads to the one node at the   *)
(* path it is filed under: entries are never deleted, and still no command *)
(* is misled by one to another node.                                       *)
(***************************************************************************)
THEOREM EntriesStaySound == ASSUME ~Reuse PROVE Spec => []IndexSound
<1>1. PlacedInv => IndexSound
  <2>1. SUFFICES ASSUME PlacedInv, NEW p \in Path, index[p] \in live
                 PROVE  Resolve(Tokens(p)) = {index[p]}
    BY DEF IndexSound
  <2>2. HeapInv
    BY <2>1 DEF PlacedInv
  <2>3. PICK K : Placed(K)
    BY <2>1 DEF PlacedInv
  <2>4. index[p] \in Nodes /\ K[index[p]] = p
    BY <2>1, <2>3 DEF Placed, Indexed
  <2>5. At(K, index[p]) = Tokens(p) /\ Tokens(p) \in Segments
    BY <2>2, <2>3, <2>4, AtFacts, TokensFacts
  <2>6. \A a \in live : At(K, a) = Tokens(p) <=> a = index[p]
    BY <2>1, <2>2, <2>3, <2>5, AtFacts
  <2>7. QED
    BY <2>1, <2>2, <2>3, <2>5, <2>6, ResolvePlaced
<1>2. QED
  BY PlacedAlways, <1>1, PTL

(* The paths of the tree are those of its nodes, one each. *)
LEMMA PathsOfNodes ==
  ASSUME HeapInv, NEW K, Placed(K)
  PROVE  TreePaths = {Tokens(K[a]) : a \in Nodes}
<1>1. \A segs \in AllTokens : segs \in Segments /\ segs # <<>>
  BY TokensFacts DEF AllTokens, Segments
<1>2. \A segs \in AllTokens : segs \in TreePaths <=> \E a \in live : At(K, a) = segs
  BY <1>1, ResolvePlaced DEF TreePaths
<1>3. \A segs \in AllTokens : segs \in TreePaths <=> \E a \in Nodes : Tokens(K[a]) = segs
  BY <1>1, <1>2, AtFacts DEF Nodes
<1>4. \A a \in Nodes : Tokens(K[a]) \in AllTokens
  BY AtFacts DEF AllTokens
<1>5. TreePaths \subseteq AllTokens
  BY DEF TreePaths
<1>6. QED
  BY <1>3, <1>4, <1>5

(***************************************************************************)
(* Every live node is the one node at its path: whatever was removed, none *)
(* is cut off from the root, and no two are at the same path.              *)
(***************************************************************************)
THEOREM NodesAndPathsAgree == ASSUME ~Reuse PROVE Spec => []OneNodePerPath
<1>1. PlacedInv => OneNodePerPath
  <2>1. SUFFICES ASSUME PlacedInv PROVE Cardinality(Nodes) = Cardinality(TreePaths)
    BY DEF OneNodePerPath, Nodes
  <2>2. HeapInv
    BY <2>1 DEF PlacedInv
  <2>3. PICK K : Placed(K)
    BY <2>1 DEF PlacedInv
  <2> DEFINE f == [a \in Nodes |-> Tokens(K[a])]
  <2>4. TreePaths = {f[a] : a \in Nodes}
    BY <2>2, <2>3, PathsOfNodes
  <2>5. \A a, b \in Nodes : f[a] = f[b] => a = b
    BY <2>3 DEF Placed, OneEach
  <2>6. f \in [Nodes -> TreePaths]
    BY <2>4
  <2>7. IsFiniteSet(Nodes)
    <3>1. 1 \in Int /\ MaxNodes \in Int
      BY BoundAssumption
    <3>2. IsFiniteSet(1 .. MaxNodes)
      BY <3>1, FS_Interval
    <3>3. Nodes \in SUBSET (1 .. MaxNodes)
      BY <2>2 DEF HeapInv, HeapType, Nodes, Addr
    <3>4. QED
      BY <3>2, <3>3, FS_Subset
  <2> HIDE DEF f
  <2>8. f \in Bijection(Nodes, TreePaths)
    <3>1. DOMAIN f = Nodes
      BY <2>6
    <3>2. \A segs \in TreePaths : \E a \in Nodes : f[a] = segs
      BY <2>4
    <3>3. QED
      BY <2>5, <2>6, <3>1, <3>2 DEF Bijection, Injection, Surjection, IsInjective
  <2>9. ExistsBijection(Nodes, TreePaths)
    BY <2>8 DEF ExistsBijection
  <2>10. QED
    BY <2>7, <2>9, FS_Bijection
<1>2. QED
  BY PlacedAlways, <1>1, PTL
=============================================================================
