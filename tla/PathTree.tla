------------------------------- MODULE PathTree -------------------------------
(***************************************************************************)
(* One session on one database: the path tree (src/src/tree.c), its index  *)
(* (a Dictionary, see HashTable), and the file it is loaded from and saved *)
(* to (use_database and load_tree of database.c, the file operations of    *)
(* utils.c).                                                               *)
(*                                                                         *)
(* The heap is modelled pointer by pointer.  A pointer that outlives its   *)
(* node dangles, and a command that follows it is undefined behaviour: the *)
(* session is then "lost", its memory may hold anything and what it still  *)
(* does to the file may be any command's effect.  With Reuse, malloc may   *)
(* hand a freed block out again, and a dangling pointer then leads to a    *)
(* node it was never meant for; without, an address is one allocation.     *)
(*                                                                         *)
(* A command is one step: the process runs one at a time, and no other     *)
(* session writes this file.  One that the code refuses changes nothing    *)
(* and is no step.  The session may end between any two.                   *)
(***************************************************************************)
EXTENDS Naturals, SequencesExt, Lines

CONSTANTS
  Path,       \* the paths clients spell: [spelling, segs], see below
  Key, Value, \* of leaves
  Reuse,      \* whether malloc hands a freed node's block out again
  MaxTokens,  \* tokens add_node splits a path into, at most (16)
  MaxNodes,   \* bound: allocations of nodes in one session
  MaxLeaves,  \* bound: leaves of one node
  MaxLines    \* bound: lines of the file

(***************************************************************************)
(* A path is its segments and how it is spelled: "plain" is "/" before     *)
(* each segment and nothing else; any other spelling ("a", "//a", "/a/")   *)
(* has the same tokens but is another hash key and another line.           *)
(***************************************************************************)
Plain(segs) == [spelling |-> "plain", segs |-> segs]

(* split: the tokens that add_node looks at. *)
Tokens(p) == SubSeq(p.segs, 1, IF Len(p.segs) < MaxTokens THEN Len(p.segs) ELSE MaxTokens)

Name(p) == Last(Tokens(p))
TopLevel(p) == Len(Tokens(p)) = 1
ParentKey(p) == Plain(Front(Tokens(p)))

Segment == {Name(p) : p \in Path}

ASSUME PathAssumption ==
  \A p \in Path : /\ p.segs \in Seq(UNION {Range(q.segs) : q \in Path})
                  /\ Len(Tokens(p)) > 0 /\ (TopLevel(p) \/ ParentKey(p) \in Path)
ASSUME ReuseAssumption == Reuse \in BOOLEAN
ASSUME BoundAssumption ==
  {MaxTokens, MaxNodes, MaxLines} \subseteq Nat \ {0} /\ MaxLeaves \in Nat

Leaf == [key : Key, value : Value]

NULL == 0
Root == 1
Addr == 1 .. MaxNodes
Pointer == Addr \cup {NULL}

VARIABLES
  phase,    \* "closed", "loading", "open", "lost"
  live,     \* the nodes allocated and not freed
  alloc,    \* the newest address handed out
  tag, uplink, left, sibling, name,     \* the fields of struct s_node
  leaves,   \* the entries of a node's leaf list, in order
  dangling, \* the nodes whose leaf list head points at a freed leaf
  index,    \* hash_table: path |-> Node *
  file,     \* the lines of the database's file
  intact,   \* history: no session on the file has been lost
  pos       \* the lines that load_tree has read

links == <<tag, uplink, left, sibling, name>>
heap == <<live, alloc, links, leaves, dangling, index>>
session == <<phase, intact>>
vars == <<session, heap, file, pos>>

(* create_database writes the line "/", which load_tree passes over. *)
Marker == [path |-> Plain(<<>>)]
NodeLine(p) == [path |-> p]
LeafLine(p, k, v) == [path |-> p, key |-> k, value |-> v]

Line == {Marker} \cup {NodeLine(p) : p \in Path}
          \cup {LeafLine(p, k, v) : p \in Path, k \in Key, v \in Value}

Dict == INSTANCE Dictionary WITH dict <- index, Key <- Path, Value <- Addr

-----------------------------------------------------------------------------
(* Walks.  Each is the least set closed under the links it follows; that the *)
(* links of live nodes lead to live nodes is the invariant LinksLive.        *)

Least(closed) == {m \in live : \A T \in closed : m \in T}

(* The list of children of a: left, then sibling by sibling. *)
ChainClosed(a) ==
  {T \in SUBSET live : /\ left[a] \in live => left[a] \in T
                       /\ \A x \in T : sibling[x] \in live => sibling[x] \in T}

Children(a) == Least(ChainClosed(a))

(* Mutant: n is not detached from its next sibling before it is freed. *)
FreeClosedSiblings(n) ==
  {T \in SUBSET live : /\ n \in T
                       /\ \A x \in T : /\ left[x] \in live => left[x] \in T
                                       /\ sibling[x] \in live => sibling[x] \in T}

(* free_tree(n), once n is detached from its next sibling. *)
FreeClosed(n) ==
  {T \in SUBSET live : /\ n \in T
                       /\ \A x \in T : /\ left[x] \in live => left[x] \in T
                                       /\ x # n /\ sibling[x] \in live => sibling[x] \in T}

Subtree(n) == Least(FreeClosed(n))

ParentNode(p) == IF TopLevel(p) THEN Root ELSE index[ParentKey(p)]

StaleEntry(p) == index[p] # NULL /\ index[p] \notin live
StaleParent(p) == ~TopLevel(p) /\ StaleEntry(ParentKey(p))

(* The children of a with that name: every sibling is compared. *)
ChildrenNamed(a, s) == {c \in Children(a) : name[c] = s}

(* Mutants: only the first child's name is compared; only the key is looked up. *)
ClashFirst(p) == LET c == left[ParentNode(p)] IN c # NULL /\ name[c] = Name(p)
ClashKey(p) == index[p] # NULL

Clash(p) == ChildrenNamed(ParentNode(p), Name(p)) # {}

-----------------------------------------------------------------------------
(* init_tree and create_table: the heap a load starts from and, for want of *)
(* any other, the heap of a session that has none.                          *)
NoPointers == [a \in Addr |-> NULL]
NewTags == [a \in Addr |-> "root"]
NewUplinks == [a \in Addr |-> Root]
NewNames == [a \in Addr |-> "/"]
NoLeaves == [a \in Addr |-> <<>>]
EmptyIndex == [p \in Path |-> NULL]

NewHeap ==
  /\ live' = {Root} /\ alloc' = Root
  /\ tag' = NewTags /\ uplink' = NewUplinks /\ name' = NewNames
  /\ left' = NoPointers /\ sibling' = NoPointers
  /\ leaves' = NoLeaves /\ dangling' = {}
  /\ index' = EmptyIndex

Init ==
  /\ live = {Root} /\ alloc = Root
  /\ tag = NewTags /\ uplink = NewUplinks /\ name = NewNames
  /\ left = NoPointers /\ sibling = NoPointers
  /\ leaves = NoLeaves /\ dangling = {}
  /\ index = EmptyIndex
  /\ phase = "closed" /\ intact = TRUE /\ file = <<Marker>> /\ pos = 0

(* A step on freed memory, in a command that would have left `written`. *)
Lose(written) ==
  /\ phase' = "lost" /\ intact' = FALSE /\ NewHeap /\ pos' = 0
  /\ file' \in {file, written}

(* malloc *)
Fresh == IF Reuse THEN Addr \ live ELSE Addr \cap {alloc + 1}

(* Inserting a key that is bound fails, and add_node does not look. *)
IndexInsert(p, n) == IF Dict!Bound(p) THEN UNCHANGED index ELSE Dict!Insert(p, n)

AsFirstChild(n, parent) ==
  /\ left[parent] = NULL
  /\ tag' = [tag EXCEPT ![n] = "node"]
  /\ uplink' = [uplink EXCEPT ![n] = parent]
  /\ left' = [left EXCEPT ![parent] = n, ![n] = NULL]
  /\ sibling' = [sibling EXCEPT ![n] = NULL]

(* Mutant: a sibling's uplink is the parent, as tree.h words it. *)
AsLastSiblingOfParent(n, parent) ==
  \E last \in Children(parent) :
    /\ sibling[last] = NULL
    /\ tag' = [tag EXCEPT ![n] = "sibling"]
    /\ uplink' = [uplink EXCEPT ![n] = parent]
    /\ left' = [left EXCEPT ![n] = NULL]
    /\ sibling' = [sibling EXCEPT ![last] = n, ![n] = NULL]

AsLastSibling(n, parent) ==
  \E last \in Children(parent) :
    /\ sibling[last] = NULL
    /\ tag' = [tag EXCEPT ![n] = "sibling"]
    /\ uplink' = [uplink EXCEPT ![n] = last]
    /\ left' = [left EXCEPT ![n] = NULL]
    /\ sibling' = [sibling EXCEPT ![last] = n, ![n] = NULL]

(* add_node without its file: a new node under the parent that is indexed. *)
AddNode(p) ==
  /\ ParentNode(p) \in live /\ ~Clash(p)
  /\ \E n \in Fresh :
       /\ live' = live \cup {n} /\ alloc' = IF n > alloc THEN n ELSE alloc
       /\ name' = [name EXCEPT ![n] = Name(p)]
       /\ AsFirstChild(n, ParentNode(p)) \/ AsLastSibling(n, ParentNode(p))
       /\ leaves' = [leaves EXCEPT ![n] = <<>>]
       /\ IndexInsert(p, n)
  /\ UNCHANGED dangling

Refused(p) == ParentNode(p) = NULL \/ (ParentNode(p) \in live /\ Clash(p))

-----------------------------------------------------------------------------
(* use-database: reset_tree, create_table, and load_tree line by line. *)

UseDatabase ==
  /\ phase \in {"closed", "open"}
  /\ phase' = "loading" /\ NewHeap /\ pos' = 0
  /\ UNCHANGED <<intact, file>>

Reading(line) == phase = "loading" /\ pos < Len(file) /\ file[pos + 1] = line

LoadMarker ==
  /\ Reading(Marker)
  /\ pos' = pos + 1 /\ UNCHANGED <<session, heap, file>>

(* Mutant: a line that is refused is read again. *)
LoadNodeAgain ==
  \E p \in Path :
    /\ Reading(NodeLine(p))
    /\ \/ AddNode(p) /\ pos' = pos + 1
       \/ Refused(p) /\ UNCHANGED <<heap, pos>>
    /\ UNCHANGED <<session, file>>

LoadNode ==
  \E p \in Path :
    /\ Reading(NodeLine(p))
    /\ AddNode(p) \/ (Refused(p) /\ UNCHANGED heap)
    /\ pos' = pos + 1 /\ UNCHANGED <<session, file>>

(* add_leaf in memory. *)
AppendLeaf(p, k, v) ==
  /\ Len(leaves[index[p]]) < MaxLeaves
  /\ leaves' = [leaves EXCEPT ![index[p]] = Append(@, [key |-> k, value |-> v])]
  /\ UNCHANGED <<live, alloc, links, dangling, index>>

(* add_leaf writes the line it is replaying to the end of the same file. *)
LoadLeaf ==
  \E p \in Path, k \in Key, v \in Value :
    /\ Reading(LeafLine(p, k, v))
    /\ \/ /\ index[p] \in live /\ Len(file) < MaxLines
          /\ AppendLeaf(p, k, v)
          /\ file' = Append(file, LeafLine(p, k, v))
       \/ index[p] = NULL /\ UNCHANGED <<heap, file>>
    /\ pos' = pos + 1 /\ UNCHANGED session

(* Mutant: the file stays open at its end. *)
LoadDoneOpen ==
  /\ phase = "loading" /\ pos = Len(file)
  /\ phase' = "open"
  /\ UNCHANGED <<intact, heap, file, pos>>

LoadDone ==
  /\ phase = "loading" /\ pos = Len(file)
  /\ phase' = "open" /\ pos' = 0
  /\ UNCHANGED <<intact, heap, file>>

Load == LoadMarker \/ LoadNode \/ LoadLeaf \/ LoadDone

-----------------------------------------------------------------------------
(* create-node and remove-node. *)

CreateNode(p) ==
  /\ phase = "open" /\ Len(file) < MaxLines
  /\ \/ /\ AddNode(p)
        /\ file' = Append(file, NodeLine(p)) /\ UNCHANGED <<session, pos>>
     \/ StaleParent(p) /\ Lose(Append(file, NodeLine(p)))

(* Mutant: the rewrite stops looking after the first line it drops. *)
WithoutNodeOnce(p) == RemoveFirst(file, NodeLine(p))

(* remove_from_file: every line that is exactly p. *)
WithoutNode(p) == Without(file, {NodeLine(p)})

(* Mutant: a first child takes its siblings along. *)
UnlinkSiblings(n) ==
  \/ /\ tag[n] = "node"
     /\ left' = [left EXCEPT ![uplink[n]] = NULL]
     /\ sibling' = [sibling EXCEPT ![n] = NULL]
     /\ UNCHANGED tag
  \/ /\ tag[n] = "sibling"
     /\ sibling' = [sibling EXCEPT ![uplink[n]] = sibling[n], ![n] = NULL]
     /\ UNCHANGED <<left, tag>>

(* n's next sibling takes its place; its own uplink stays as it is. *)
Unlink(n) ==
  \/ /\ tag[n] = "node"
     /\ left' = [left EXCEPT ![uplink[n]] = sibling[n]]
     /\ tag' = IF sibling[n] = NULL THEN tag ELSE [tag EXCEPT ![sibling[n]] = "node"]
     /\ sibling' = [sibling EXCEPT ![n] = NULL]
  \/ /\ tag[n] = "sibling"
     /\ sibling' = [sibling EXCEPT ![uplink[n]] = sibling[n], ![n] = NULL]
     /\ UNCHANGED <<left, tag>>

(* The index keeps its entries, the removed node's and its subtree's. *)
RemoveNode(p) ==
  LET n == index[p]
  IN  /\ phase = "open"
      /\ \/ /\ n \in live /\ uplink[n] \in live
            /\ Unlink(n)
            /\ live' = live \ Subtree(n) /\ dangling' = dangling \ Subtree(n)
            /\ file' = WithoutNode(p)
            /\ UNCHANGED <<session, pos, alloc, uplink, name, leaves, index>>
         \/ /\ StaleEntry(p) \/ (n \in live /\ uplink[n] \notin live)
            /\ Lose(WithoutNode(p))

-----------------------------------------------------------------------------
(* create-leaf, delete-leaf and update-leaf. *)

(* The leaf list of p's node is reached through freed memory. *)
StaleLeaves(p) == StaleEntry(p) \/ index[p] \in dangling

SoundLeaves(p) == index[p] \in live \ dangling

CreateLeaf(p, k, v) ==
  /\ phase = "open" /\ Len(file) < MaxLines
  /\ \/ /\ SoundLeaves(p)
        /\ AppendLeaf(p, k, v)
        /\ file' = Append(file, LeafLine(p, k, v)) /\ UNCHANGED <<session, pos>>
     \/ StaleLeaves(p) /\ Lose(Append(file, LeafLine(p, k, v)))

(* remove_leaf_from_file: every line that starts with path|key| . *)
WithoutLeaf(p, k) == Without(file, {LeafLine(p, k, v) : v \in Value})

(* get_leaf_by_key: the first leaf of the list with that key. *)
FirstLeaf(list, k, i) ==
  i \in DOMAIN list /\ list[i].key = k /\ \A j \in 1 .. i - 1 : list[j].key # k

(* The first of several leaves is freed and stays the head of the list. *)
UnlinkLeaf(n, i) ==
  /\ IF i = 1 /\ Len(leaves[n]) > 1
       THEN dangling' = dangling \cup {n} /\ leaves' = [leaves EXCEPT ![n] = <<>>]
       ELSE dangling' = dangling /\ leaves' = [leaves EXCEPT ![n] = RemoveAt(@, i)]
  /\ UNCHANGED <<live, alloc, links, index>>

DeleteLeaf(p, k) ==
  LET n == index[p]
  IN  /\ phase = "open"
      /\ \/ /\ SoundLeaves(p)
            /\ \E i \in DOMAIN leaves[n] : FirstLeaf(leaves[n], k, i) /\ UnlinkLeaf(n, i)
            /\ file' = WithoutLeaf(p, k) /\ UNCHANGED <<session, pos>>
         \/ StaleLeaves(p) /\ Lose(WithoutLeaf(p, k))

(* Mutant: the new line is appended and the old one stays. *)
UpdateLeafAppends(p, k, v) ==
  LET n == index[p]
      written == Append(file, LeafLine(p, k, v))
  IN  /\ phase = "open" /\ Len(written) <= MaxLines
      /\ SoundLeaves(p)
      /\ \E i \in DOMAIN leaves[n] :
           /\ FirstLeaf(leaves[n], k, i)
           /\ leaves' = [leaves EXCEPT ![n] = [@ EXCEPT ![i] = [key |-> k, value |-> v]]]
      /\ file' = written
      /\ UNCHANGED <<session, pos, live, alloc, links, dangling, index>>

UpdateLeaf(p, k, v) ==
  LET n == index[p]
      written == Append(WithoutLeaf(p, k), LeafLine(p, k, v))
  IN  /\ phase = "open" /\ Len(written) <= MaxLines
      /\ \/ /\ SoundLeaves(p)
            /\ \E i \in DOMAIN leaves[n] :
                 /\ FirstLeaf(leaves[n], k, i)
                 /\ leaves' = [leaves EXCEPT ![n] = [@ EXCEPT ![i] = [key |-> k, value |-> v]]]
            /\ file' = written
            /\ UNCHANGED <<session, pos, live, alloc, links, dangling, index>>
         \/ StaleLeaves(p) /\ Lose(written)

-----------------------------------------------------------------------------
(* print-leaves and tree read leaf lists; tree reads every node's. *)

PrintLeaves(p) == phase = "open" /\ StaleLeaves(p) /\ Lose(file)

PrintTree == phase = "open" /\ dangling # {} /\ Lose(file)

(* What a lost session's next command may still do to the file. *)
LostCommand ==
  /\ phase = "lost" /\ Len(file) < MaxLines
  /\ \E p \in Path :
       \/ Lose(WithoutNode(p)) \/ Lose(Append(file, NodeLine(p)))
       \/ \E k \in Key, v \in Value :
            \/ Lose(WithoutLeaf(p, k)) \/ Lose(Append(file, LeafLine(p, k, v)))
            \/ Lose(Append(WithoutLeaf(p, k), LeafLine(p, k, v)))

(* logout, a disconnect, or the death of the process. *)
Exit ==
  /\ phase # "closed"
  /\ phase' = "closed" /\ NewHeap /\ pos' = 0
  /\ UNCHANGED <<intact, file>>

Next ==
  \/ UseDatabase \/ Load \/ PrintTree \/ LostCommand \/ Exit
  \/ \E p \in Path :
       \/ CreateNode(p) \/ RemoveNode(p) \/ PrintLeaves(p)
       \/ \E k \in Key :
            \/ DeleteLeaf(p, k)
            \/ \E v \in Value : CreateLeaf(p, k, v) \/ UpdateLeaf(p, k, v)

Spec == Init /\ [][Next]_vars

(* The load loop waits for nothing, so it does not stop half way. *)
FairSpec == Spec /\ WF_vars(Load)

-----------------------------------------------------------------------------
(* What the pointers of the tree amount to. *)

(* The nodes at a sequence of segments, walking down from the root. *)
Resolve(segs) ==
  LET at[i \in 0 .. Len(segs)] ==
        IF i = 0 THEN {Root} ELSE UNION {ChildrenNamed(a, segs[i]) : a \in at[i - 1]}
  IN  at[Len(segs)]

AllTokens == {Tokens(p) : p \in Path}
TreePaths == {segs \in AllTokens : Resolve(segs) # {}}

(* The keys that loading a file would index, by what load_tree does. *)
ReplayLine(keys, line) ==
  IF /\ line # Marker /\ line = NodeLine(line.path)
     /\ TopLevel(line.path) \/ ParentKey(line.path) \in keys
     /\ \A q \in keys : Tokens(q) # Tokens(line.path)
  THEN keys \cup {line.path} ELSE keys

Replay(lines) ==
  LET keys[i \in 0 .. Len(lines)] ==
        IF i = 0 THEN {} ELSE ReplayLine(keys[i - 1], lines[i])
  IN  keys[Len(lines)]

SavedPaths == {Tokens(p) : p \in Replay(file)}

-----------------------------------------------------------------------------
HeapType ==
  /\ live \subseteq Addr /\ alloc \in Addr
  /\ tag \in [Addr -> {"root", "node", "sibling"}]
  /\ uplink \in [Addr -> Addr]
  /\ left \in [Addr -> Pointer] /\ sibling \in [Addr -> Pointer]
  /\ name \in [Addr -> Segment \cup {"/"}]
  /\ leaves \in [Addr -> Seq(Leaf)]
  /\ dangling \subseteq live
  /\ Dict!DictType

TypeOK ==
  /\ phase \in {"closed", "loading", "open", "lost"} /\ intact \in BOOLEAN
  /\ HeapType
  /\ file \in Seq(Line) /\ Len(file) <= MaxLines
  /\ pos \in 0 .. Len(file)

(***************************************************************************)
(* The tree is sound whatever has been removed from it.  The links of live *)
(* nodes lead to live nodes (nothing was freed that is still reachable),   *)
(* no node is reached by two links (nothing is freed twice), a tag says by *)
(* which link its node is reached (remove_node relinks by the tag), and    *)
(* links lead to newer nodes (the recursive walks end).                    *)
(***************************************************************************)
LinksLive ==
  \A a \in live : /\ left[a] # NULL => left[a] \in live
                  /\ sibling[a] # NULL => sibling[a] \in live

OnePredecessor ==
  \A a, b \in live :
    /\ left[a] # NULL /\ left[a] = left[b] => a = b
    /\ sibling[a] # NULL /\ sibling[a] = sibling[b] => a = b
    /\ left[a] # NULL => left[a] # sibling[b]

TagTellsLink ==
  \A a \in live : /\ left[a] # NULL => tag[left[a]] = "node"
                  /\ sibling[a] # NULL => tag[sibling[a]] = "sibling"

LinksToNewer ==
  \A a \in live : /\ left[a] # NULL => left[a] > a
                  /\ sibling[a] # NULL => sibling[a] > a

TreeShape == LinksLive /\ OnePredecessor /\ TagTellsLink /\ LinksToNewer

(***************************************************************************)
(* remove_node writes through a node's uplink.  It is stale once the       *)
(* predecessor was removed, but as long as no block is reused it never     *)
(* leads to a live node that is not the predecessor: a write through it    *)
(* that does not hit freed memory unlinks the right node.                  *)
(***************************************************************************)
UplinkNotMisled ==
  \A a \in live \ {Root} : uplink[a] \in live =>
    IF tag[a] = "node" THEN left[uplink[a]] = a ELSE sibling[uplink[a]] = a

(***************************************************************************)
(* Every live node is the one node at its path: none is cut off from the   *)
(* root by a removal, no two children of a node share a name.              *)
(***************************************************************************)
OneNodePerPath == Cardinality(live \ {Root}) = Cardinality(TreePaths)

(***************************************************************************)
(* An index entry whose node is live is right: it leads to the node at the *)
(* path it is filed under, the only one there, although entries are never  *)
(* deleted and the tree changes under them.                                *)
(***************************************************************************)
IndexSound == \A p \in Path : index[p] \in live => Resolve(Tokens(p)) = {index[p]}

(***************************************************************************)
(* A leaf that a reload would find is in memory: deleting or updating one, *)
(* or removing its node and creating it again, leaves no line that brings  *)
(* an old value back.                                                      *)
(***************************************************************************)
NoLeafReturns ==
  phase = "open" /\ intact =>
    \A i \in DOMAIN file : \A p \in Replay(SubSeq(file, 1, i)), k \in Key, v \in Value :
      file[i] = LeafLine(p, k, v) =>
        /\ index[p] \in live
        /\ index[p] \in dangling \/ [key |-> k, value |-> v] \in ToSet(leaves[index[p]])

(***************************************************************************)
(* The session implements PathStore: the paths in memory are those a later *)
(* session will load, across every removal of a subtree whose descendants' *)
(* lines stay in the file, and load_tree builds the paths of the file.     *)
(***************************************************************************)
Store ==
  INSTANCE PathStore WITH
    PathSet <- AllTokens,
    status <- IF ~intact THEN "lost" ELSE IF phase = "open" THEN "open" ELSE "closed",
    paths <- IF intact /\ phase = "open" THEN TreePaths ELSE {},
    saved <- SavedPaths
StoreSpec == Store!Spec

(***************************************************************************)
(* And each command does to its own path what the store promises: no node  *)
(* but the one named, and those under it, goes with remove-node, through   *)
(* whatever pointer it is unlinked and whichever lines stay in the file.   *)
(***************************************************************************)
CommandsAgree ==
  [][intact' =>
       \A p \in Path : /\ CreateNode(p) => Store!Create(Tokens(p))
                       /\ RemoveNode(p) => Store!Remove(Tokens(p))]_vars

(***************************************************************************)
(* use-database ends, on a file without leaves.                            *)
(***************************************************************************)
LoadEnds == phase = "loading" ~> phase # "loading"

-----------------------------------------------------------------------------
(* What the repository says of the program and the code does not do. *)

(* The README: a database is "replayed line-by-line on use-database". *)
ReplayOnlyReads == [][phase = "loading" => UNCHANGED file]_vars
=============================================================================
