---------------------------- MODULE PathStoreProofs ----------------------------
(***************************************************************************)
(* For every set of paths and every bound, as long as no freed block is    *)
(* handed out again: the session implements PathStore -- the paths that it *)
(* holds are what a later session will load from its file -- and no line   *)
(* of the file brings back a leaf that is not in memory.                   *)
(***************************************************************************)
EXTENDS PathTreeProofs, SequenceTheorems

-----------------------------------------------------------------------------
(* Replay, line by line. *)

Replays(lines) ==
  [i \in 1 .. Len(lines) |-> [keys \in SUBSET Path |-> ReplayLine(keys, lines[i])]]

ReplaysTo(K, lines) ==
  /\ Iterates(K, SUBSET Path, {}, Replays(lines), Len(lines))
  /\ Replay(lines) = K[Len(lines)]

LEMMA ReplayLineType ==
  ASSUME NEW line \in Line, NEW keys \in SUBSET Path
  PROVE  ReplayLine(keys, line) \in SUBSET Path
<1>1. line = Marker \/ line.path \in Path
  BY DEF Line, NodeLine, LeafLine
<1>2. QED
  BY <1>1 DEF ReplayLine

LEMMA ReplayIterates ==
  ASSUME NEW lines \in Seq(Line)
  PROVE  \E K : ReplaysTo(K, lines)
<1> DEFINE n == Len(lines)
           Body(f) == [i \in 0 .. n |-> IF i = 0 THEN {} ELSE ReplayLine(f[i - 1], lines[i])]
           keys[i \in 0 .. n] == IF i = 0 THEN {} ELSE ReplayLine(keys[i - 1], lines[i])
<1>1. n \in Nat /\ \A i \in 1 .. n : lines[i] \in Line
  OBVIOUS
<1>2. \A i \in 1 .. n : Replays(lines)[i] \in [SUBSET Path -> SUBSET Path]
  <2>1. \A i \in 1 .. n : \A ks \in SUBSET Path : ReplayLine(ks, lines[i]) \in SUBSET Path
    BY <1>1, ReplayLineType
  <2>2. QED
    BY <2>1 DEF Replays
<1>3. PICK f : Iterates(f, SUBSET Path, {}, Replays(lines), n)
  <2> HIDE DEF n
  <2>1. QED
    BY <1>1, <1>2, Iteration
<1>4. \A i \in 1 .. n : f[i] = ReplayLine(f[i - 1], lines[i])
  <2>1. \A i \in 1 .. n : f[i] = Replays(lines)[i][f[i - 1]] /\ f[i - 1] \in SUBSET Path
    <3>1. \A i \in 1 .. n : i - 1 \in 0 .. n
      OBVIOUS
    <3>2. QED
      BY <1>3, <3>1 DEF Iterates
  <2>2. QED
    BY <2>1 DEF Replays
<1>5. f = Body(f)
  <2>1. ASSUME NEW i \in 0 .. n PROVE f[i] = Body(f)[i]
    <3>1. CASE i = 0
      BY <1>3, <3>1 DEF Iterates
    <3>2. CASE i # 0
      BY <1>4, <3>2
    <3>3. QED
      BY <3>1, <3>2
  <2>2. f = [i \in 0 .. n |-> f[i]] /\ Body(f) = [i \in 0 .. n |-> Body(f)[i]]
    BY <1>3 DEF Iterates
  <2> HIDE DEF Body
  <2>3. QED
    BY <2>1, <2>2
<1>6. keys = Body(keys)
  BY <1>5
<1>7. Replay(lines) = keys[n]
  BY DEF Replay
<1> HIDE DEF keys
<1>8. /\ keys = [i \in 0 .. n |-> keys[i]] /\ keys[0] = {}
      /\ \A i \in 1 .. n : keys[i] = ReplayLine(keys[i - 1], lines[i])
  <2>1. Body(keys)[0] = {} /\ \A i \in 1 .. n : Body(keys)[i] = ReplayLine(keys[i - 1], lines[i])
    BY <1>1
  <2>2. Body(keys) = [i \in 0 .. n |-> Body(keys)[i]]
    OBVIOUS
  <2> HIDE DEF Body
  <2>3. QED
    BY <1>6, <2>1, <2>2
<1>9. \A i \in 0 .. n : keys[i] \in SUBSET Path
  <2> DEFINE S == {i \in Nat : i <= n => keys[i] \in SUBSET Path}
  <2>1. 0 \in S
    BY <1>8
  <2>2. ASSUME NEW i \in Nat, i \in S PROVE i + 1 \in S
    <3>1. SUFFICES ASSUME i + 1 <= n PROVE keys[i + 1] \in SUBSET Path
      OBVIOUS
    <3>2. i + 1 \in 1 .. n /\ (i + 1) - 1 = i /\ keys[i] \in SUBSET Path
      BY <2>2, <3>1
    <3>3. QED
      BY <1>1, <1>8, <3>2, ReplayLineType
  <2> HIDE DEF S
  <2>3. \A i \in Nat : i \in S
    BY <2>1, <2>2, NumberInduction
  <2>4. QED
    BY <2>3 DEF S
<1>10. ASSUME NEW i \in 1 .. n PROVE keys[i] = Replays(lines)[i][keys[i - 1]]
  <2>1. keys[i - 1] \in SUBSET Path
    BY <1>9
  <2>2. QED
    BY <1>8, <2>1 DEF Replays
<1>11. ReplaysTo(keys, lines)
  BY <1>7, <1>8, <1>9, <1>10 DEF ReplaysTo, Iterates
<1>12. QED
  BY <1>11

LEMMA ReplayFacts ==
  /\ Replay(<<>>) = {}
  /\ \A lines \in Seq(Line) : Replay(lines) \in SUBSET Path
  /\ \A lines \in Seq(Line), line \in Line :
       Replay(Append(lines, line)) = ReplayLine(Replay(lines), line)
<1>1. Replay(<<>>) = {}
  <2>1. <<>> \in Seq(Line) /\ Len(<<>>) = 0
    OBVIOUS
  <2>2. PICK K : ReplaysTo(K, <<>>)
    BY <2>1, ReplayIterates
  <2>3. QED
    BY <2>1, <2>2 DEF ReplaysTo, Iterates
<1>2. ASSUME NEW lines \in Seq(Line) PROVE Replay(lines) \in SUBSET Path
  <2>1. PICK K : ReplaysTo(K, lines)
    BY ReplayIterates
  <2>2. QED
    BY <2>1 DEF ReplaysTo, Iterates
<1>3. ASSUME NEW lines \in Seq(Line), NEW line \in Line
      PROVE  Replay(Append(lines, line)) = ReplayLine(Replay(lines), line)
  <2> DEFINE more == Append(lines, line)
             n == Len(lines)
  <2>1. /\ more \in Seq(Line) /\ n \in Nat /\ Len(more) = n + 1 /\ more[n + 1] = line
        /\ \A i \in 1 .. n : more[i] = lines[i]
    OBVIOUS
  <2> HIDE DEF more
  <2>2. PICK J : ReplaysTo(J, lines)
    BY ReplayIterates
  <2>3. PICK K : ReplaysTo(K, more)
    BY <2>1, ReplayIterates
  <2>4. J[n] = K[n]
    <3>1. \A i \in 1 .. n : Replays(lines)[i] = Replays(more)[i]
      BY <2>1 DEF Replays
    <3>2. /\ Iterates(J, SUBSET Path, {}, Replays(lines), n)
          /\ Iterates(K, SUBSET Path, {}, Replays(more), n + 1)
      BY <2>1, <2>2, <2>3 DEF ReplaysTo
    <3>3. n <= n + 1 /\ n \in Nat /\ n + 1 \in Nat
      BY <2>1
    <3> HIDE DEF n
    <3>4. QED
      BY <3>1, <3>2, <3>3, IterationsAgree
  <2>5. K[n + 1] = Replays(more)[n + 1][K[n]] /\ K[n] \in SUBSET Path
    <3>1. n + 1 \in 1 .. n + 1 /\ (n + 1) - 1 = n /\ n \in 0 .. n + 1
      BY <2>1
    <3>2. QED
      BY <2>1, <2>3, <3>1 DEF ReplaysTo, Iterates
  <2>6. K[n + 1] = ReplayLine(K[n], line)
    BY <2>1, <2>5 DEF Replays
  <2>7. QED
    BY <2>1, <2>2, <2>3, <2>4, <2>6 DEF ReplaysTo, more
<1>4. QED
  BY <1>1, <1>2, <1>3


-----------------------------------------------------------------------------
(* What the lines of a file are replayed to. *)

Founded(p, keys) == TopLevel(p) \/ ParentKey(p) \in keys

Free(p, keys) == \A q \in keys : Tokens(q) # Tokens(p)

(***************************************************************************)
(* No line is refused because its path is there: an orphan precedes the    *)
(* line that creates its parent again, so that it finds none.              *)
(***************************************************************************)
Unclashed(lines) ==
  \A i \in 1 .. Len(lines), p \in Path :
    lines[i] = NodeLine(p) /\ Founded(p, Replay(SubSeq(lines, 1, i - 1)))
      => Free(p, Replay(SubSeq(lines, 1, i - 1)))

LEMMA LineKinds ==
  /\ \A p \in Path : NodeLine(p) # Marker
  /\ \A p, q \in Path : NodeLine(p) = NodeLine(q) => p = q
  /\ \A p, q \in Path, k \in Key, v \in Value :
       NodeLine(p) # LeafLine(q, k, v) /\ Marker # LeafLine(q, k, v)
  /\ \A p, q \in Path, k, l \in Key, v, w \in Value :
       LeafLine(p, k, v) = LeafLine(q, l, w) => p = q /\ k = l /\ v = w
<1>1. ASSUME NEW p \in Path PROVE p # Plain(<<>>)
  <2>1. SUFFICES ASSUME p = Plain(<<>>) PROVE FALSE
    OBVIOUS
  <2>2. p.segs = <<>>
    BY <2>1 DEF Plain
  <2>3. Tokens(p) = <<>>
    BY <2>2, BoundAssumption DEF Tokens
  <2>4. QED
    BY <2>3, TokensFacts
<1>2. \A x, y : [path |-> x] = [path |-> y] => x = y
  <2>1. \A x : [path |-> x].path = x
    OBVIOUS
  <2>2. QED
    BY <2>1
<1>3. \A x, y, k, v : [path |-> x] # [path |-> y, key |-> k, value |-> v]
  <2>1. \A x : DOMAIN [path |-> x] = {"path"}
    OBVIOUS
  <2>2. \A y, k, v : "key" \in DOMAIN [path |-> y, key |-> k, value |-> v]
    OBVIOUS
  <2>3. QED
    BY <2>1, <2>2
<1>4. QED
  BY <1>1, <1>2, <1>3 DEF NodeLine, LeafLine, Marker

LEMMA ReplayLineFacts ==
  ASSUME NEW keys \in SUBSET Path
  PROVE  /\ ReplayLine(keys, Marker) = keys
         /\ \A p \in Path, k \in Key, v \in Value : ReplayLine(keys, LeafLine(p, k, v)) = keys
         /\ \A p \in Path :
              ReplayLine(keys, NodeLine(p)) =
                IF Founded(p, keys) /\ Free(p, keys) THEN keys \cup {p} ELSE keys
<1>1. ReplayLine(keys, Marker) = keys
  BY DEF ReplayLine
<1>2. ASSUME NEW p \in Path, NEW k \in Key, NEW v \in Value
      PROVE  ReplayLine(keys, LeafLine(p, k, v)) = keys
  <2>1. LeafLine(p, k, v).path = p
    BY DEF LeafLine
  <2>2. LeafLine(p, k, v) # NodeLine(p)
    BY LineKinds
  <2>3. QED
    BY <2>1, <2>2 DEF ReplayLine
<1>3. ASSUME NEW p \in Path
      PROVE  ReplayLine(keys, NodeLine(p)) =
               IF Founded(p, keys) /\ Free(p, keys) THEN keys \cup {p} ELSE keys
  <2>1. NodeLine(p).path = p
    BY DEF NodeLine
  <2>2. NodeLine(p) # Marker
    BY LineKinds
  <2>3. QED
    BY <2>1, <2>2 DEF ReplayLine, Founded, Free
<1>4. QED
  BY <1>1, <1>2, <1>3

LEMMA UnclashedFacts ==
  /\ Unclashed(<<>>)
  /\ \A lines \in Seq(Line), line \in Line :
       Unclashed(Append(lines, line)) <=>
         /\ Unclashed(lines)
         /\ \A p \in Path : line = NodeLine(p) /\ Founded(p, Replay(lines)) => Free(p, Replay(lines))
<1>1. Unclashed(<<>>)
  BY DEF Unclashed
<1>2. ASSUME NEW lines \in Seq(Line), NEW line \in Line
      PROVE  Unclashed(Append(lines, line)) <=>
               /\ Unclashed(lines)
               /\ \A p \in Path :
                    line = NodeLine(p) /\ Founded(p, Replay(lines)) => Free(p, Replay(lines))
  <2> DEFINE more == Append(lines, line)
             n == Len(lines)
  <2>1. /\ n \in Nat /\ Len(more) = n + 1 /\ more[n + 1] = line
        /\ \A i \in 1 .. n : more[i] = lines[i]
    OBVIOUS
  <2>2. /\ \A i \in 1 .. n : SubSeq(more, 1, i - 1) = SubSeq(lines, 1, i - 1)
        /\ SubSeq(more, 1, n) = lines
    OBVIOUS
  <2>3. 1 .. n + 1 = (1 .. n) \cup {n + 1} /\ (n + 1) - 1 = n
    BY <2>1
  <2> HIDE DEF more, n
  <2>4. Unclashed(more) <=>
          /\ \A i \in 1 .. n, p \in Path :
               lines[i] = NodeLine(p) /\ Founded(p, Replay(SubSeq(lines, 1, i - 1)))
                 => Free(p, Replay(SubSeq(lines, 1, i - 1)))
          /\ \A p \in Path : line = NodeLine(p) /\ Founded(p, Replay(lines)) => Free(p, Replay(lines))
    BY <2>1, <2>2, <2>3 DEF Unclashed
  <2>5. QED
    BY <2>4 DEF Unclashed, more, n
<1>3. QED
  BY <1>1, <1>2

LEMMA LineCases ==
  ASSUME NEW line \in Line
  PROVE  \/ line = Marker
         \/ \E p \in Path : line = NodeLine(p)
         \/ \E p \in Path, k \in Key, v \in Value : line = LeafLine(p, k, v)
BY DEF Line

(***************************************************************************)
(* What remove_from_file leaves is replayed to the same keys without those *)
(* at the removed path and under it, although the lines of those under it  *)
(* stay: each of them is refused, for want of its parent.                  *)
(***************************************************************************)
Above(p, keys) == {q \in keys : ~Store!Under(Tokens(p), Tokens(q))}

RemovalReplays(p, lines) ==
  Unclashed(lines) /\ (\A q \in Replay(lines) : Tokens(q) = Tokens(p) => q = p) =>
    /\ Replay(Without(lines, {NodeLine(p)})) = Above(p, Replay(lines))
    /\ Unclashed(Without(lines, {NodeLine(p)}))

LEMMA RemovalReplaysStep ==
  ASSUME NEW p \in Path, NEW lines \in Seq(Line), NEW line \in Line, RemovalReplays(p, lines)
  PROVE  RemovalReplays(p, Append(lines, line))
<1> DEFINE keys == Replay(lines)
           kept == Without(lines, {NodeLine(p)})
           more == Append(lines, line)
<1>1. SUFFICES ASSUME Unclashed(more), \A q \in Replay(more) : Tokens(q) = Tokens(p) => q = p
               PROVE  /\ Replay(Without(more, {NodeLine(p)})) = Above(p, Replay(more))
                      /\ Unclashed(Without(more, {NodeLine(p)}))
  BY DEF RemovalReplays
<1>2. keys \in SUBSET Path /\ Replay(more) = ReplayLine(keys, line)
  BY ReplayFacts
<1>3. keys \subseteq Replay(more)
  BY <1>2 DEF ReplayLine
<1>4. /\ Unclashed(lines)
      /\ \A q \in Path : line = NodeLine(q) /\ Founded(q, keys) => Free(q, keys)
  BY <1>1, UnclashedFacts
<1>5. Replay(kept) = Above(p, keys) /\ Unclashed(kept) /\ kept \in Seq(Line)
  BY <1>1, <1>3, <1>4, WithoutFacts DEF RemovalReplays
<1>6. Without(more, {NodeLine(p)}) = Keep(kept, line, {NodeLine(p)})
  BY WithoutAppend
<1>7. Above(p, keys) \in SUBSET Path /\ Above(p, keys) \subseteq keys
  BY <1>2 DEF Above
<1> HIDE DEF kept, more, keys
<1>8. CASE line = NodeLine(p)
  <2>1. Without(more, {NodeLine(p)}) = kept
    BY <1>6, <1>8 DEF Keep
  <2>2. Replay(more) = keys \/ Replay(more) = keys \cup {p}
    BY <1>2, <1>8, ReplayLineFacts
  <2>3. Store!Under(Tokens(p), Tokens(p))
    BY TokensFacts, UnderFacts
  <2>4. QED
    BY <1>5, <2>1, <2>2, <2>3 DEF Above
<1>9. CASE line # NodeLine(p)
  <2>1. Without(more, {NodeLine(p)}) = Append(kept, line)
    BY <1>6, <1>9 DEF Keep
  <2>2. /\ Replay(Append(kept, line)) = ReplayLine(Above(p, keys), line)
        /\ Unclashed(Append(kept, line)) <=>
              \A q \in Path : line = NodeLine(q) /\ Founded(q, Above(p, keys))
                               => Free(q, Above(p, keys))
    BY <1>5, ReplayFacts, UnclashedFacts
  <2>3. \A q \in Path : /\ Founded(q, Above(p, keys)) => Founded(q, keys)
                        /\ Free(q, keys) => Free(q, Above(p, keys))
    BY <1>7 DEF Founded, Free
  <2>4. Unclashed(Append(kept, line))
    BY <1>4, <2>2, <2>3
  <2>5. ASSUME NEW q \in Path, line = NodeLine(q)
        PROVE  ReplayLine(Above(p, keys), line) = Above(p, Replay(more))
    <3>1. ReplayLine(Above(p, keys), line) =
            IF Founded(q, Above(p, keys)) THEN Above(p, keys) \cup {q} ELSE Above(p, keys)
      BY <1>4, <1>7, <2>3, <2>5, ReplayLineFacts
    <3>2. Replay(more) = IF Founded(q, keys) THEN keys \cup {q} ELSE keys
      BY <1>2, <1>4, <2>5, ReplayLineFacts
    <3>3. CASE ~Founded(q, keys)
      BY <2>3, <3>1, <3>2, <3>3
    <3>4. CASE Founded(q, keys)
      <4>1. Tokens(q) # Tokens(p)
        BY <1>1, <1>9, <2>5, <3>2, <3>4
      <4>2. Store!Under(Tokens(p), Tokens(q)) <=> Store!Under(Tokens(p), Front(Tokens(q)))
        BY <4>1, TokensFacts, UnderFacts
      <4>3. TopLevel(q) => ~Store!Under(Tokens(p), Tokens(q))
        BY <4>2, TokensFacts, UnderFacts
      <4>4. ~TopLevel(q) => /\ ParentKey(q) \in keys
                            /\ Store!Under(Tokens(p), Tokens(q))
                                 <=> Store!Under(Tokens(p), Tokens(ParentKey(q)))
        BY <3>4, <4>2, TokensFacts DEF Founded
      <4>5. Founded(q, Above(p, keys)) <=> ~Store!Under(Tokens(p), Tokens(q))
        BY <4>3, <4>4 DEF Founded, Above
      <4>6. QED
        BY <3>1, <3>2, <3>4, <4>5 DEF Above
    <3>5. QED
      BY <3>3, <3>4
  <2>6. ASSUME line = Marker \/ \E q \in Path, k \in Key, v \in Value : line = LeafLine(q, k, v)
        PROVE  ReplayLine(Above(p, keys), line) = Above(p, Replay(more))
    <3>0. ASSUME NEW some \in SUBSET Path PROVE ReplayLine(some, line) = some
      <4>1. CASE line = Marker
        BY <4>1, ReplayLineFacts
      <4>2. CASE \E q \in Path, k \in Key, v \in Value : line = LeafLine(q, k, v)
        <5>1. PICK q \in Path, k \in Key, v \in Value : line = LeafLine(q, k, v)
          BY <4>2
        <5>2. QED
          BY <5>1, ReplayLineFacts
      <4>3. QED
        BY <2>6, <4>1, <4>2
    <3>1. ReplayLine(keys, line) = keys
      BY <1>2, <3>0
    <3>2. ReplayLine(Above(p, keys), line) = Above(p, keys)
      BY <1>7, <3>0
    <3>3. QED
      BY <1>2, <3>1, <3>2
  <2>7. ReplayLine(Above(p, keys), line) = Above(p, Replay(more))
    BY <2>5, <2>6, LineCases
  <2>8. QED
    BY <2>1, <2>2, <2>4, <2>7
<1>10. QED
  BY <1>8, <1>9

LEMMA RemovedReplays ==
  ASSUME NEW p \in Path
  PROVE  \A lines \in Seq(Line) : RemovalReplays(p, lines)
<1> DEFINE S == {lines \in Seq(Line) : RemovalReplays(p, lines)}
<1>1. <<>> \in S
  <2>1. <<>> \in Seq(Line)
    OBVIOUS
  <2>2. Without(<<>>, {NodeLine(p)}) = <<>>
    BY WithoutAppend
  <2>3. QED
    BY <2>1, <2>2, ReplayFacts, UnclashedFacts DEF RemovalReplays, Above
<1>2. ASSUME NEW lines \in Seq(Line), NEW line \in Line, lines \in S
      PROVE  Append(lines, line) \in S
  BY <1>2, RemovalReplaysStep
<1> HIDE DEF S
<1>3. \A lines \in Seq(Line) : lines \in S
  BY <1>1, <1>2, SequenceInduction
<1>4. QED
  BY <1>3 DEF S

(* Dropping leaf lines changes nothing of the paths. *)
LEMMA LeavesReplay ==
  ASSUME NEW p \in Path, NEW k \in Key
  PROVE  \A lines \in Seq(Line) :
           LET kept == Without(lines, {LeafLine(p, k, v) : v \in Value})
           IN  Replay(kept) = Replay(lines) /\ (Unclashed(lines) => Unclashed(kept))
<1> DEFINE dropped == {LeafLine(p, k, v) : v \in Value}
           S == {lines \in Seq(Line) :
                   /\ Replay(Without(lines, dropped)) = Replay(lines)
                   /\ Unclashed(lines) => Unclashed(Without(lines, dropped))}
<1>1. <<>> \in S
  <2>1. <<>> \in Seq(Line) /\ Without(<<>>, dropped) = <<>>
    BY WithoutAppend
  <2>2. QED
    BY <2>1
<1>2. ASSUME NEW lines \in Seq(Line), NEW line \in Line, lines \in S
      PROVE  Append(lines, line) \in S
  <2> DEFINE kept == Without(lines, dropped)
             more == Append(lines, line)
  <2>1. /\ Without(more, dropped) = Keep(kept, line, dropped)
        /\ more \in Seq(Line) /\ kept \in Seq(Line)
    <3>1. more \in Seq(Line)
      OBVIOUS
    <3> HIDE DEF dropped
    <3>2. kept \in Seq(Line)
      BY WithoutFacts
    <3>3. Without(more, dropped) = Keep(kept, line, dropped)
      BY WithoutAppend
    <3>4. QED
      BY <3>1, <3>2, <3>3
  <2>2. Replay(kept) = Replay(lines) /\ (Unclashed(lines) => Unclashed(kept))
    BY <1>2
  <2> HIDE DEF kept, dropped
  <2>3. CASE line \in dropped
    <3>1. Replay(more) = Replay(lines)
      <4>1. PICK v \in Value : line = LeafLine(p, k, v)
        BY <2>3 DEF dropped
      <4>2. Replay(lines) \in SUBSET Path /\ Replay(more) = ReplayLine(Replay(lines), line)
        BY ReplayFacts
      <4>3. QED
        BY <4>1, <4>2, ReplayLineFacts
    <3>2. Unclashed(more) => Unclashed(lines)
      BY UnclashedFacts
    <3>3. QED
      BY <2>1, <2>2, <2>3, <3>1, <3>2 DEF Keep
  <2>4. CASE line \notin dropped
    <3>1. Replay(more) = Replay(Append(kept, line))
      BY <2>1, <2>2, ReplayFacts
    <3>2. Unclashed(more) => Unclashed(Append(kept, line))
      BY <2>1, <2>2, UnclashedFacts
    <3>3. QED
      BY <2>1, <2>4, <3>1, <3>2 DEF Keep
  <2>5. QED
    BY <2>3, <2>4
<1> HIDE DEF S
<1>3. \A lines \in Seq(Line) : lines \in S
  BY <1>1, <1>2, SequenceInduction
<1>4. QED
  BY <1>3 DEF S
(* Nor does adding one. *)
LEMMA LeafReplays ==
  ASSUME NEW p \in Path, NEW k \in Key, NEW v \in Value
  PROVE  \A lines \in Seq(Line) :
           LET longer == Append(lines, LeafLine(p, k, v))
           IN  Replay(longer) = Replay(lines) /\ (Unclashed(lines) => Unclashed(longer))
<1>1. LeafLine(p, k, v) \in Line
  BY LineTypes
<1>2. ASSUME NEW lines \in Seq(Line)
      PROVE  Replay(Append(lines, LeafLine(p, k, v))) = Replay(lines)
  <2>1. Replay(lines) \in SUBSET Path
    BY ReplayFacts
  <2>2. Replay(Append(lines, LeafLine(p, k, v))) = ReplayLine(Replay(lines), LeafLine(p, k, v))
    BY <1>1, ReplayFacts
  <2>3. QED
    BY <2>1, <2>2, ReplayLineFacts
<1>3. ASSUME NEW lines \in Seq(Line), Unclashed(lines)
      PROVE  Unclashed(Append(lines, LeafLine(p, k, v)))
  <2>1. \A q \in Path : LeafLine(p, k, v) # NodeLine(q)
    BY LineKinds
  <2>2. QED
    BY <1>1, <1>3, <2>1, UnclashedFacts
<1>4. QED
  BY <1>2, <1>3

-----------------------------------------------------------------------------
(***************************************************************************)
(* The tree and the file.  The keys of the nodes are those that the lines  *)
(* read so far, or all the lines once the file is read, are replayed to;   *)
(* while it is being read the index leads to all the nodes and to nothing  *)
(* else, so that add_node refuses what a replay refuses.                   *)
(***************************************************************************)
Loaded == IF phase = "loading" THEN SubSeq(file, 1, pos) ELSE file

Keys(K) == {K[a] : a \in Nodes}

IndexFull(K) ==
  /\ \A p \in Path : index[p] # NULL => index[p] \in live
  /\ \A a \in Nodes : index[K[a]] = a

Filed(K) ==
  intact =>
    /\ phase # "lost"
    /\ Unclashed(file)
    /\ phase \in {"loading", "open"} => Keys(K) = Replay(Loaded)
    /\ phase = "loading" => IndexFull(K)

StoreInv == HeapInv /\ FileType /\ \E K : Placed(K) /\ Filed(K)

(* What add_node finds is what a replay finds of the same line. *)
LEMMA ParentFounded ==
  ASSUME HeapInv, NEW K, Placed(K), NEW p \in Path, ParentNode(p) \in live
  PROVE  Founded(p, Keys(K)) /\ (Clash(p) <=> ~Free(p, Keys(K)))
BY NewPlace DEF Founded, Free, Keys

LEMMA AddedKeys ==
  ASSUME ~Reuse, HeapInv, NEW K, Placed(K), NEW p \in Path, AddNode(p),
         NEW K2, K2 = [a \in Nodes \cup {alloc + 1} |-> IF a = alloc + 1 THEN p ELSE K[a]]
  PROVE  /\ Founded(p, Keys(K)) /\ Free(p, Keys(K))
         /\ Placed(K2)' /\ Keys(K2)' = Keys(K) \cup {p}
<1>1. ParentNode(p) \in live /\ ~Clash(p)
  BY DEF AddNode
<1>2. /\ Placed(K2)' /\ Nodes' = Nodes \cup {alloc + 1}
      /\ K2[alloc + 1] = p /\ \A a \in Nodes : K2[a] = K[a]
  BY AddNodePlaced
<1>3. Keys(K2)' = Keys(K) \cup {p}
  BY <1>2 DEF Keys
<1>4. QED
  BY <1>1, <1>2, <1>3, ParentFounded

(* The lines read, once one more is. *)
LEMMA ReadingFacts ==
  ASSUME FileType, NEW line \in Line, Reading(line), pos' = pos + 1, phase' = phase,
         file' = file \/ \E more \in Line : file' = Append(file, more)
  PROVE  Loaded \in Seq(Line) /\ Loaded' = Append(Loaded, line)
<1>1. /\ file \in Seq(Line) /\ pos \in Nat /\ pos < Len(file) /\ file[pos + 1] = line
      /\ phase = "loading" /\ phase' = "loading" /\ pos' = pos + 1
  BY DEF FileType, Reading
<1>2. SubSeq(file, 1, pos) \in Seq(Line) /\ SubSeq(file, 1, pos + 1) = Append(SubSeq(file, 1, pos), line)
  BY <1>1
<1>3. ASSUME NEW more \in Line
      PROVE  SubSeq(Append(file, more), 1, pos + 1) = SubSeq(file, 1, pos + 1)
  BY <1>1
<1>4. SubSeq(file', 1, pos + 1) = SubSeq(file, 1, pos + 1)
  <2>1. CASE file' = file
    BY <2>1
  <2>2. CASE \E more \in Line : file' = Append(file, more)
    <3>1. PICK more \in Line : file' = Append(file, more)
      BY <2>2
    <3>2. QED
      BY <1>3, <3>1
  <2>3. QED
    BY <2>1, <2>2
<1>5. QED
  BY <1>1, <1>2, <1>4 DEF Loaded

(* A new heap holds what no lines are replayed to. *)
LEMMA NewHeapFiled ==
  ASSUME FileType, NEW K, Filed(K), NewHeap, UNCHANGED <<intact, file>>,
         phase # "lost" \/ ~intact, phase' \in {"loading", "closed"}, pos' = 0
  PROVE  \E K2 : Placed(K2)' /\ Filed(K2)'
<1>1. PICK K2 : Placed(K2)' /\ Nodes' = {}
  BY NewHeapPlaced
<1>2. Keys(K2)' = {} /\ IndexFull(K2)'
  BY <1>1 DEF Keys, IndexFull, NewHeap, EmptyIndex
<1>3. phase' = "loading" => Loaded' = <<>>
  <2>1. SubSeq(file, 1, 0) = <<>>
    BY DEF FileType
  <2>2. QED
    BY <2>1 DEF Loaded
<1>4. Filed(K2)'
  <2>1. SUFFICES ASSUME intact' PROVE Filed(K2)'
    BY DEF Filed
  <2>2. Unclashed(file')
    BY <2>1 DEF Filed
  <2>3. phase' = "loading" => Replay(Loaded') = {}
    BY <1>3, ReplayFacts
  <2>4. QED
    BY <1>2, <2>2, <2>3 DEF Filed
<1>5. QED
  BY <1>1, <1>4
-----------------------------------------------------------------------------
(* What the steps do to the two. *)

(* load_tree passes over a line whose parent is not indexed, or whose path is there. *)
LEMMA RefusedReplays ==
  ASSUME HeapInv, NEW K, Placed(K), IndexFull(K), NEW p \in Path, Refused(p),
         Keys(K) \in SUBSET Path
  PROVE  ReplayLine(Keys(K), NodeLine(p)) = Keys(K)
<1>1. CASE ParentNode(p) = NULL
  <2>1. ~TopLevel(p) /\ index[ParentKey(p)] = NULL
    BY <1>1 DEF ParentNode, Root, NULL
  <2>2. \A a \in Nodes : a # NULL /\ index[K[a]] = a
    BY DEF IndexFull, HeapInv, HeapType, Nodes, Addr, NULL
  <2>3. ParentKey(p) \notin Keys(K)
    BY <2>1, <2>2 DEF Keys
  <2>4. QED
    BY <2>1, <2>3, ReplayLineFacts DEF Founded
<1>2. CASE ParentNode(p) \in live /\ Clash(p)
  BY <1>2, ParentFounded, ReplayLineFacts
<1>3. QED
  BY <1>1, <1>2 DEF Refused

LEMMA LoadNodeFiled ==
  ASSUME ~Reuse, HeapInv, FileType, NEW K, Placed(K), Filed(K), intact, LoadNode
  PROVE  \E K2 : Placed(K2)' /\ Filed(K2)'
<1>1. PICK p \in Path : /\ Reading(NodeLine(p))
                        /\ AddNode(p) \/ (Refused(p) /\ UNCHANGED heap)
  BY DEF LoadNode
<1>2. /\ phase = "loading" /\ phase' = "loading" /\ pos' = pos + 1
      /\ UNCHANGED <<intact, file>>
  BY DEF LoadNode, Reading, session
<1>3. Unclashed(file') /\ Keys(K) = Replay(Loaded) /\ IndexFull(K)
  BY <1>2 DEF Filed
<1>4. NodeLine(p) \in Line
  BY LineTypes
<1>5. Loaded \in Seq(Line) /\ Loaded' = Append(Loaded, NodeLine(p))
  BY <1>1, <1>2, <1>4, ReadingFacts
<1>6. Replay(Loaded') = ReplayLine(Keys(K), NodeLine(p)) /\ Keys(K) \in SUBSET Path
  BY <1>3, <1>4, <1>5, ReplayFacts
<1>7. CASE AddNode(p)
  <2>1. PICK K2 : K2 = [a \in Nodes \cup {alloc + 1} |-> IF a = alloc + 1 THEN p ELSE K[a]]
    OBVIOUS
  <2>2. /\ Placed(K2)' /\ Nodes' = Nodes \cup {alloc + 1}
        /\ K2[alloc + 1] = p /\ \A a \in Nodes : K2[a] = K[a]
    BY <1>7, <2>1, AddNodePlaced
  <2>3. Founded(p, Keys(K)) /\ Free(p, Keys(K)) /\ Keys(K2)' = Keys(K) \cup {p}
    BY <1>7, <2>1, AddedKeys
  <2>4. Keys(K2)' = Replay(Loaded')
    BY <1>6, <2>3, ReplayLineFacts
  <2>5. \A a \in Nodes : K[a] # p /\ K[a] \in Path
    BY <2>3 DEF Free, Keys, Placed, Named
  <2>6. index[p] = NULL
    <3>1. SUFFICES ASSUME index[p] # NULL PROVE FALSE
      OBVIOUS
    <3>2. index[p] \in Nodes /\ K[index[p]] = p
      BY <1>3, <3>1 DEF IndexFull, Placed, Indexed
    <3>3. QED
      BY <2>5, <3>2
  <2>7. index' = [index EXCEPT ![p] = alloc + 1] /\ live' = live \cup {alloc + 1}
    BY <1>7, <2>6 DEF AddNode, Fresh, IndexInsert, Dict!Bound, Dict!Insert, NULL
  <2>8. index \in [Path -> Addr \cup {NULL}]
    BY DEF HeapInv, HeapType, Dict!DictType
  <2>9. IndexFull(K2)'
    <3>1. index'[p] = alloc + 1 /\ \A q \in Path : q # p => index'[q] = index[q]
      BY <2>7, <2>8
    <3>2. \A q \in Path : index'[q] # NULL => index'[q] \in live'
      BY <1>3, <2>7, <3>1 DEF IndexFull
    <3>3. \A a \in Nodes' : index'[K2[a]] = a
      BY <1>3, <2>2, <2>5, <3>1 DEF IndexFull
    <3>4. QED
      BY <3>2, <3>3 DEF IndexFull
  <2>10. Filed(K2)'
    BY <1>2, <1>3, <2>4, <2>9 DEF Filed
  <2>11. QED
    BY <2>2, <2>10
<1>8. CASE Refused(p) /\ UNCHANGED heap
  <2>1. Placed(K)'
    BY <1>8, SamePlaced DEF heap, links
  <2>2. Keys(K)' = Keys(K) /\ IndexFull(K)'
    BY <1>3, <1>8 DEF heap, Keys, IndexFull, Nodes
  <2>3. Replay(Loaded') = Keys(K)
    BY <1>3, <1>6, <1>8, RefusedReplays
  <2>4. Filed(K)'
    BY <1>2, <1>3, <2>2, <2>3 DEF Filed
  <2>5. QED
    BY <2>1, <2>4
<1>9. QED
  BY <1>1, <1>7, <1>8

LEMMA LoadMarkerFiled ==
  ASSUME HeapInv, FileType, NEW K, Placed(K), Filed(K), intact, LoadMarker
  PROVE  Placed(K)' /\ Filed(K)'
<1>1. /\ Reading(Marker) /\ phase = "loading" /\ phase' = "loading" /\ pos' = pos + 1
      /\ UNCHANGED <<heap, intact, file>>
  BY DEF LoadMarker, Reading, session
<1>2. Marker \in Line
  BY DEF Line
<1>3. Loaded \in Seq(Line) /\ Loaded' = Append(Loaded, Marker)
  BY <1>1, <1>2, ReadingFacts
<1>4. Keys(K) = Replay(Loaded) /\ IndexFull(K) /\ Unclashed(file')
  BY <1>1 DEF Filed
<1>5. Replay(Loaded') = Keys(K)
  <2>1. Replay(Loaded') = ReplayLine(Keys(K), Marker) /\ Keys(K) \in SUBSET Path
    BY <1>2, <1>3, <1>4, ReplayFacts
  <2>2. QED
    BY <2>1, ReplayLineFacts
<1>6. Placed(K)'
  BY <1>1, SamePlaced DEF heap, links
<1>7. Keys(K)' = Keys(K) /\ IndexFull(K)'
  BY <1>1, <1>4 DEF heap, Keys, IndexFull, Nodes
<1>8. QED
  BY <1>1, <1>4, <1>5, <1>6, <1>7 DEF Filed

LEMMA LoadLeafFiled ==
  ASSUME HeapInv, FileType, NEW K, Placed(K), Filed(K), intact, LoadLeaf
  PROVE  Placed(K)' /\ Filed(K)' /\ Replay(file') = Replay(file)
<1>1. PICK p \in Path, k \in Key, v \in Value :
        /\ Reading(LeafLine(p, k, v))
        /\ \/ AppendLeaf(p, k, v) /\ file' = Append(file, LeafLine(p, k, v))
           \/ UNCHANGED <<heap, file>>
        /\ pos' = pos + 1 /\ UNCHANGED session
  BY DEF LoadLeaf
<1> DEFINE line == LeafLine(p, k, v)
<1>2. line \in Line
  BY LineTypes
<1>3. phase = "loading" /\ phase' = "loading" /\ UNCHANGED intact
  BY <1>1 DEF Reading, session
<1>4. file' = file \/ file' = Append(file, line)
  BY <1>1
<1>5. Loaded \in Seq(Line) /\ Loaded' = Append(Loaded, line)
  BY <1>1, <1>2, <1>3, <1>4, ReadingFacts
<1>6. Keys(K) = Replay(Loaded) /\ IndexFull(K) /\ Unclashed(file)
  BY <1>3 DEF Filed
<1>7. UNCHANGED <<live, alloc, left, sibling, name, index>>
  BY <1>1 DEF AppendLeaf, heap, links
<1>8. file \in Seq(Line)
  BY DEF FileType
<1>9. Replay(file') = Replay(file) /\ Unclashed(file')
  BY <1>4, <1>6, <1>8, LeafReplays
<1>10. Replay(Loaded') = Keys(K)
  BY <1>5, <1>6, LeafReplays
<1>11. Keys(K)' = Keys(K) /\ IndexFull(K)'
  BY <1>6, <1>7 DEF Keys, IndexFull, Nodes
<1>12. Placed(K)'
  BY <1>7, SamePlaced
<1>13. QED
  BY <1>3, <1>9, <1>10, <1>11, <1>12 DEF Filed

(* Once the whole file is read the tree holds all its paths. *)
LEMMA LoadDoneFiled ==
  ASSUME FileType, NEW K, Placed(K), Filed(K), intact, LoadDone
  PROVE  Placed(K)' /\ Filed(K)'
<1>1. /\ phase = "loading" /\ phase' = "open" /\ pos = Len(file)
      /\ UNCHANGED <<heap, intact, file>>
  BY DEF LoadDone
<1>2. Loaded = file /\ Loaded' = file'
  <2>1. SubSeq(file, 1, Len(file)) = file
    BY DEF FileType
  <2>2. QED
    BY <1>1, <2>1 DEF Loaded
<1>3. Placed(K)'
  BY <1>1, SamePlaced DEF heap, links
<1>4. Keys(K)' = Keys(K)
  BY <1>1 DEF heap, Keys, Nodes
<1>5. QED
  BY <1>1, <1>2, <1>3, <1>4 DEF Filed
LEMMA CreateNodeFiled ==
  ASSUME ~Reuse, HeapInv, FileType, NEW K, Placed(K), Filed(K), intact,
         NEW p \in Path, phase = "open", AddNode(p), file' = Append(file, NodeLine(p)),
         UNCHANGED <<session, pos>>
  PROVE  /\ \E K2 : Placed(K2)' /\ Filed(K2)'
         /\ Founded(p, Replay(file)) /\ Free(p, Replay(file))
         /\ Replay(file') = Replay(file) \cup {p}
<1>1. PICK K2 : K2 = [a \in Nodes \cup {alloc + 1} |-> IF a = alloc + 1 THEN p ELSE K[a]]
  OBVIOUS
<1>2. /\ Founded(p, Keys(K)) /\ Free(p, Keys(K))
      /\ Placed(K2)' /\ Keys(K2)' = Keys(K) \cup {p}
  BY <1>1, AddedKeys
<1>3. Keys(K) = Replay(file) /\ Unclashed(file) /\ file \in Seq(Line) /\ NodeLine(p) \in Line
  BY LineTypes DEF Filed, FileType, Loaded
<1>4. Replay(file') = Replay(file) \cup {p}
  <2>1. Replay(file') = ReplayLine(Replay(file), NodeLine(p)) /\ Replay(file) \in SUBSET Path
    BY <1>3, ReplayFacts
  <2>2. QED
    BY <1>2, <1>3, <2>1, ReplayLineFacts
<1>5. Unclashed(file')
  <2>1. \A q \in Path : NodeLine(p) = NodeLine(q) => q = p
    BY LineKinds
  <2>2. QED
    BY <1>2, <1>3, <2>1, UnclashedFacts
<1>6. phase' = "open" /\ Loaded' = file' /\ intact'
  BY DEF session, Loaded
<1>7. Filed(K2)'
  BY <1>2, <1>3, <1>4, <1>5, <1>6 DEF Filed
<1>8. QED
  BY <1>2, <1>3, <1>4, <1>7

LEMMA RemoveNodeFiled ==
  ASSUME HeapInv, FileType, NEW K, Placed(K), Filed(K), intact,
         NEW p \in Path, phase = "open", FreeNode(index[p]), file' = WithoutNode(p),
         UNCHANGED <<session, pos>>
  PROVE  /\ \E K2 : Placed(K2)' /\ Filed(K2)'
         /\ p \in Replay(file) /\ Replay(file') = Above(p, Replay(file))
<1> DEFINE n == index[p]
<1>1. PICK K2 : K2 = [a \in Nodes \ Subtree(n) |-> K[a]]
  OBVIOUS
<1>2. /\ Placed(K2)' /\ Nodes' = Nodes \ Subtree(n) /\ n \in Nodes
      /\ \A a \in Nodes' : K2[a] = K[a]
  BY <1>1, FreeNodePlaced
<1>3. n \in live /\ K[n] = p
  BY <1>2 DEF Placed, Indexed, Nodes
<1>4. /\ Subtree(n) = {a \in Nodes : Store!Under(Tokens(p), Tokens(K[a]))}
      /\ \A a \in Nodes : Tokens(K[a]) = Tokens(p) => K[a] = p
  BY <1>2, <1>3, SubtreeUnder, AtFacts DEF Placed, OneEach
<1>5. Keys(K)= Replay(file) /\ Unclashed(file) /\ file \in Seq(Line)
  BY DEF Filed, FileType, Loaded
<1>6. p \in Replay(file) /\ \A q \in Replay(file) : Tokens(q) = Tokens(p) => q = p
  BY <1>2, <1>3, <1>4, <1>5 DEF Keys
<1>7. Replay(file') = Above(p, Replay(file)) /\ Unclashed(file')
  BY <1>5, <1>6, RemovedReplays DEF RemovalReplays, WithoutNode
<1>8. Keys(K2)' = Above(p, Keys(K))
  BY <1>2, <1>4 DEF Keys, Above
<1>9. phase' = "open" /\ Loaded' = file' /\ intact'
  BY DEF session, Loaded
<1>10. Filed(K2)'
  BY <1>5, <1>7, <1>8, <1>9 DEF Filed
<1>11. QED
  BY <1>2, <1>6, <1>7, <1>10

(***************************************************************************)
(* The leaf commands leave the paths alone, in the tree and in the file.   *)
(***************************************************************************)
LeafCommand ==
  /\ phase = "open" /\ UNCHANGED <<session, pos>>
  /\ UNCHANGED <<live, alloc, links, index>>
  /\ Replay(file') = Replay(file) /\ (Unclashed(file) => Unclashed(file'))

LEMMA LeafCommandFiled ==
  ASSUME NEW K, Placed(K), Filed(K), LeafCommand
  PROVE  Placed(K)' /\ Filed(K)'
<1>1. Placed(K)'
  BY SamePlaced DEF LeafCommand, links
<1>2. Keys(K)' = Keys(K) /\ phase' = "open" /\ phase = "open" /\ intact' = intact
  BY DEF LeafCommand, Keys, Nodes, session
<1>3. QED
  BY <1>1, <1>2 DEF Filed, LeafCommand, Loaded

LEMMA DeletedReplays ==
  ASSUME FileType, NEW p \in Path, NEW k \in Key
  PROVE  /\ Replay(WithoutLeaf(p, k)) = Replay(file)
         /\ Unclashed(file) => Unclashed(WithoutLeaf(p, k))
BY LeavesReplay DEF WithoutLeaf, FileType

LEMMA LeafRewrites ==
  ASSUME FileType, NEW p \in Path, NEW k \in Key, NEW v \in Value
  PROVE  /\ Replay(WithoutLeaf(p, k)) = Replay(file)
         /\ Unclashed(file) => Unclashed(WithoutLeaf(p, k))
         /\ Replay(Append(file, LeafLine(p, k, v))) = Replay(file)
         /\ Unclashed(file) => Unclashed(Append(file, LeafLine(p, k, v)))
         /\ Replay(Append(WithoutLeaf(p, k), LeafLine(p, k, v))) = Replay(file)
         /\ Unclashed(file) => Unclashed(Append(WithoutLeaf(p, k), LeafLine(p, k, v)))
<1>1. file \in Seq(Line)
  BY DEF FileType
<1>2. /\ Replay(WithoutLeaf(p, k)) = Replay(file)
      /\ Unclashed(file) => Unclashed(WithoutLeaf(p, k))
  BY DeletedReplays
<1>3. WithoutLeaf(p, k) \in Seq(Line)
  BY <1>1, WithoutFacts DEF WithoutLeaf
<1> DEFINE without == WithoutLeaf(p, k)
<1> HIDE DEF without
<1>4. /\ Replay(Append(without, LeafLine(p, k, v))) = Replay(without)
      /\ Unclashed(without) => Unclashed(Append(without, LeafLine(p, k, v)))
  BY <1>3, LeafReplays DEF without
<1>5. QED
  BY <1>1, <1>2, <1>4, LeafReplays DEF without

(* Every step of a session that is not lost, by what it does to the paths. *)
Added(p) ==
  /\ phase = "open" /\ AddNode(p) /\ file' = Append(file, NodeLine(p))
  /\ UNCHANGED <<session, pos>>

Removed(p) ==
  /\ phase = "open" /\ FreeNode(index[p]) /\ file' = WithoutNode(p)
  /\ UNCHANGED <<session, pos>>

Renewed ==
  /\ NewHeap /\ UNCHANGED <<intact, file>>
  /\ phase' \in {"loading", "closed"} /\ pos' = 0

LEMMA CommandSteps ==
  ASSUME NEW p \in Path
  PROVE  /\ CreateNode(p) => ~intact' \/ Added(p)
         /\ RemoveNode(p) => ~intact' \/ Removed(p)
BY DEF CreateNode, RemoveNode, Added, Removed, FreeNode, Lose

LEMMA LeafCommandSteps ==
  ASSUME FileType, NEW p \in Path, NEW k \in Key
  PROVE  /\ DeleteLeaf(p, k) => ~intact' \/ LeafCommand
         /\ \A v \in Value : CreateLeaf(p, k, v) \/ UpdateLeaf(p, k, v) => ~intact' \/ LeafCommand
<1>1. ASSUME DeleteLeaf(p, k), intact' PROVE LeafCommand
  <2>1. /\ phase = "open" /\ file' = WithoutLeaf(p, k) /\ UNCHANGED <<session, pos>>
        /\ UNCHANGED <<live, alloc, links, index>>
    BY <1>1 DEF DeleteLeaf, UnlinkLeaf, Lose
  <2>2. QED
    BY <2>1, DeletedReplays DEF LeafCommand
<1>2. ASSUME NEW v \in Value, CreateLeaf(p, k, v), intact' PROVE LeafCommand
  <2>1. /\ phase = "open" /\ file' = Append(file, LeafLine(p, k, v)) /\ UNCHANGED <<session, pos>>
        /\ UNCHANGED <<live, alloc, links, index>>
    BY <1>2 DEF CreateLeaf, AppendLeaf, Lose
  <2>2. QED
    BY <2>1, LeafRewrites DEF LeafCommand
<1>3. ASSUME NEW v \in Value, UpdateLeaf(p, k, v), intact' PROVE LeafCommand
  <2>1. /\ phase = "open" /\ file' = Append(WithoutLeaf(p, k), LeafLine(p, k, v))
        /\ UNCHANGED <<session, pos>> /\ UNCHANGED <<live, alloc, links, index>>
    BY <1>3 DEF UpdateLeaf, Lose
  <2>2. QED
    BY <2>1, LeafRewrites DEF LeafCommand
<1>4. QED
  BY <1>1, <1>2, <1>3

AtLeaf ==
  \E p \in Path, k \in Key :
    DeleteLeaf(p, k) \/ \E v \in Value : CreateLeaf(p, k, v) \/ UpdateLeaf(p, k, v)

LEMMA SessionSteps ==
  ASSUME FileType, [Next]_vars, intact'
  PROVE  /\ intact
         /\ \/ UNCHANGED vars
            \/ Renewed
            \/ Load
            \/ \E p \in Path : Added(p) \/ Removed(p)
            \/ LeafCommand /\ AtLeaf
<1>1. CASE UNCHANGED vars
  BY <1>1 DEF vars, session
<1>2. CASE UseDatabase \/ Exit
  BY <1>2 DEF UseDatabase, Exit, Renewed
<1>3. CASE Load
  BY <1>3 DEF Load, LoadMarker, LoadNode, LoadLeaf, LoadDone, session
<1>4. ~PrintTree /\ ~LostCommand /\ \A p \in Path : ~PrintLeaves(p)
  BY DEF PrintTree, LostCommand, PrintLeaves, Lose
<1>5. ASSUME NEW p \in Path, CreateNode(p) \/ RemoveNode(p)
      PROVE  (Added(p) \/ Removed(p)) /\ intact
  <2>1. Added(p) \/ Removed(p)
    BY <1>5, CommandSteps
  <2>2. QED
    BY <2>1 DEF Added, Removed, session
<1>6. ASSUME NEW p \in Path, NEW k \in Key, NEW v \in Value,
             CreateLeaf(p, k, v) \/ UpdateLeaf(p, k, v)
      PROVE  LeafCommand /\ AtLeaf /\ intact
  BY <1>6, LeafCommandSteps DEF LeafCommand, AtLeaf, session
<1>7. ASSUME NEW p \in Path, NEW k \in Key, DeleteLeaf(p, k)
      PROVE  LeafCommand /\ AtLeaf /\ intact
  BY <1>7, LeafCommandSteps DEF LeafCommand, AtLeaf, session
<1>8. QED
  BY <1>1, <1>2, <1>3, <1>4, <1>5, <1>6, <1>7 DEF Next
-----------------------------------------------------------------------------
LEMMA StoreInit == Init => StoreInv
<1> SUFFICES ASSUME Init PROVE StoreInv
  OBVIOUS
<1>1. HeapInv /\ FileType
  BY InitInv, FileTypeInit
<1>2. PICK K : Placed(K)
  BY InitPlaced
<1>3. Unclashed(file)
  <2>1. file = Append(<<>>, Marker) /\ <<>> \in Seq(Line) /\ Marker \in Line
    BY DEF Init, Line
  <2>2. \A p \in Path : Marker # NodeLine(p)
    BY LineKinds
  <2>3. QED
    BY <2>1, <2>2, UnclashedFacts
<1>4. Filed(K)
  BY <1>3 DEF Init, Filed
<1>5. QED
  BY <1>1, <1>2, <1>4 DEF StoreInv

LEMMA StoreStep ==
  ASSUME ~Reuse, StoreInv, [Next]_vars
  PROVE  StoreInv'
<1>1. HeapInv /\ FileType /\ HeapInv' /\ FileType'
  BY InvStep, FileTypeStep DEF StoreInv
<1>2. PICK K : Placed(K) /\ Filed(K)
  BY DEF StoreInv
<1>3. CASE ~intact'
  <2>1. PICK K2 : Placed(K2)'
    BY <1>1, <1>2, PlacedStep DEF PlacedInv
  <2>2. Filed(K2)'
    BY <1>3 DEF Filed
  <2>3. QED
    BY <1>1, <2>1, <2>2 DEF StoreInv
<1>4. CASE intact'
  <2>1. intact /\ phase # "lost"
    BY <1>1, <1>2, <1>4, SessionSteps DEF Filed
  <2>2. SUFFICES \E K2 : Placed(K2)' /\ Filed(K2)'
    BY <1>1 DEF StoreInv
  <2>3. CASE UNCHANGED vars
    BY <1>2, <2>3, SamePlaced
       DEF vars, session, heap, links, Filed, Keys, IndexFull, Nodes, Loaded
  <2>4. CASE Renewed
    BY <1>1, <1>2, <2>1, <2>4, NewHeapFiled DEF Renewed
  <2>5. CASE Load
    BY <1>1, <1>2, <2>1, <2>5, LoadNodeFiled, LoadMarkerFiled, LoadLeafFiled, LoadDoneFiled DEF Load
  <2>6. CASE LeafCommand
    BY <1>2, <2>6, LeafCommandFiled
  <2>7. ASSUME NEW p \in Path, Added(p) PROVE \E K2 : Placed(K2)' /\ Filed(K2)'
    BY <1>1, <1>2, <2>1, <2>7, CreateNodeFiled DEF Added
  <2>8. ASSUME NEW p \in Path, Removed(p) PROVE \E K2 : Placed(K2)' /\ Filed(K2)'
    BY <1>1, <1>2, <2>1, <2>8, RemoveNodeFiled DEF Removed
  <2>9. QED
    BY <1>1, <1>4, <2>3, <2>4, <2>5, <2>6, <2>7, <2>8, SessionSteps
<1>5. QED
  BY <1>3, <1>4

LEMMA StoreAlways == ASSUME ~Reuse PROVE Spec => []StoreInv
<1>1. StoreInv /\ [Next]_vars => StoreInv'
  BY StoreStep
<1>2. QED
  BY StoreInit, <1>1, PTL DEF Spec

-----------------------------------------------------------------------------
(***************************************************************************)
(* What StoreInv is for: the tree of an open session has the paths that    *)
(* the file is replayed to.                                                *)
(***************************************************************************)
Agreed == intact /\ phase = "open" => TreePaths = SavedPaths

LEMMA InvAgrees == StoreInv => Agreed
<1> SUFFICES ASSUME StoreInv, intact, phase = "open" PROVE TreePaths = SavedPaths
  BY DEF Agreed
<1>1. PICK K : Placed(K) /\ Filed(K)
  BY DEF StoreInv
<1>2. Keys(K) = Replay(file)
  BY <1>1 DEF Filed, Loaded
<1>3. TreePaths = {Tokens(K[a]) : a \in Nodes}
  BY <1>1, PathsOfNodes DEF StoreInv
<1>4. QED
  BY <1>2, <1>3 DEF Keys, SavedPaths

LEMMA InvAgreesNext == StoreInv' => Agreed'
BY InvAgrees, PTL

(* create-node and remove-node are the store's Create and Remove. *)
LEMMA AddedCreates ==
  ASSUME ~Reuse, StoreInv, StoreInv', intact, NEW p \in Path, Added(p)
  PROVE  Store!Create(Tokens(p))
<1>1. /\ phase = "open" /\ phase' = "open" /\ intact'
      /\ TreePaths = SavedPaths /\ TreePaths' = SavedPaths'
  BY InvAgrees, InvAgreesNext DEF Added, session, Agreed
<1>2. /\ Founded(p, Replay(file)) /\ Free(p, Replay(file))
      /\ Replay(file') = Replay(file) \cup {p}
  BY CreateNodeFiled DEF StoreInv, Added
<1>3. SavedPaths' = SavedPaths \cup {Tokens(p)}
  BY <1>2 DEF SavedPaths
<1>4. Tokens(p) \notin SavedPaths
  BY <1>2 DEF SavedPaths, Free
<1>5. Len(Tokens(p)) = 1 \/ Store!Parent(Tokens(p)) \in SavedPaths
  <2>1. Store!Parent(Tokens(p)) = Front(Tokens(p))
    BY DEF Store!Parent, Front
  <2>2. QED
    BY <1>2, <2>1, TokensFacts DEF Founded, TopLevel, SavedPaths
<1>6. QED
  BY <1>1, <1>3, <1>4, <1>5 DEF Store!Create

LEMMA RemovedRemoves ==
  ASSUME StoreInv, StoreInv', intact, NEW p \in Path, Removed(p)
  PROVE  Store!Remove(Tokens(p))
<1>1. /\ phase = "open" /\ phase' = "open" /\ intact'
      /\ TreePaths = SavedPaths /\ TreePaths' = SavedPaths'
  BY InvAgrees, InvAgreesNext DEF Removed, session, Agreed
<1>2. p \in Replay(file) /\ Replay(file') = Above(p, Replay(file))
  BY RemoveNodeFiled DEF StoreInv, Removed
<1>3. SavedPaths' = {q \in SavedPaths : ~Store!Under(Tokens(p), q)}
  BY <1>2 DEF SavedPaths, Above
<1>4. Tokens(p) \in SavedPaths
  BY <1>2 DEF SavedPaths
<1>5. QED
  BY <1>1, <1>3, <1>4 DEF Store!Remove

(* A session is lost by a command, and remains so. *)
LEMMA LostBy ==
  ASSUME [Next]_vars, ~intact', intact
  PROVE  phase \in {"open", "lost"}
<1>1. ~UNCHANGED vars /\ ~UseDatabase /\ ~Exit /\ ~Load
  BY DEF vars, session, UseDatabase, Exit, Load, LoadMarker, LoadNode, LoadLeaf, LoadDone
<1>2. PrintTree \/ LostCommand => phase \in {"open", "lost"}
  BY DEF PrintTree, LostCommand
<1>3. ASSUME NEW p \in Path
      PROVE  CreateNode(p) \/ RemoveNode(p) \/ PrintLeaves(p) => phase = "open"
  BY DEF CreateNode, RemoveNode, PrintLeaves
<1>4. ASSUME NEW p \in Path, NEW k \in Key
      PROVE  /\ DeleteLeaf(p, k) => phase = "open"
             /\ \A v \in Value : CreateLeaf(p, k, v) \/ UpdateLeaf(p, k, v) => phase = "open"
  BY DEF DeleteLeaf, CreateLeaf, UpdateLeaf
<1>5. QED
  BY <1>1, <1>2, <1>3, <1>4 DEF Next

Status == IF ~intact THEN "lost" ELSE IF phase = "open" THEN "open" ELSE "closed"
Paths == IF intact /\ phase = "open" THEN TreePaths ELSE {}

LEMMA StoreStepMaps ==
  ASSUME ~Reuse, StoreInv, StoreInv', [Next]_vars
  PROVE  [Store!Next]_<<Status, Paths, SavedPaths>>
<1>1. FileType /\ FileType' /\ \E K : Placed(K) /\ Filed(K)
  BY DEF StoreInv
<1>2. CASE ~intact'
  <2>1. \A segs \in SavedPaths' : segs \in AllTokens
    <3>1. Replay(file') \in SUBSET Path
      BY <1>1, ReplayFacts DEF FileType
    <3>2. QED
      BY <3>1 DEF SavedPaths, AllTokens
  <2>2. intact => phase = "open"
    BY <1>1, <1>2, LostBy DEF Filed
  <2>3. Store!Lose
    BY <1>2, <2>1, <2>2 DEF Store!Lose, Store!SomePaths
  <2>4. QED
    BY <2>3 DEF Store!Next
<1>3. CASE intact'
  <2>1. intact
    BY <1>1, <1>3, SessionSteps
  <2>2. CASE UNCHANGED vars
    <3>1. phase' = phase /\ intact' = intact /\ SavedPaths' = SavedPaths
      BY <2>2 DEF vars, session, SavedPaths
    <3>2. Paths' = Paths
      BY <2>1, <3>1, InvAgrees, InvAgreesNext DEF Paths, Agreed
    <3>3. QED
      BY <3>1, <3>2 DEF Status
  <2>3. CASE Renewed
    <3>1. /\ intact' = intact /\ phase' # "open" /\ SavedPaths' = SavedPaths
      BY <2>3 DEF Renewed, SavedPaths
    <3>2. Store!Close
      BY <2>1, <3>1 DEF Store!Close
    <3>3. QED
      BY <3>2 DEF Store!Next
  <2>4. CASE LoadMarker \/ LoadNode \/ LoadLeaf
    <3>1. phase = "loading" /\ phase' = "loading"
      BY <2>4 DEF LoadMarker, LoadNode, LoadLeaf, Reading, session
    <3>2. Replay(file') = Replay(file)
      BY <1>1, <2>1, <2>4, LoadLeafFiled DEF LoadMarker, LoadNode, StoreInv
    <3>3. SavedPaths' = SavedPaths
      BY <3>2 DEF SavedPaths
    <3>4. QED
      BY <1>3, <2>1, <3>1, <3>3 DEF Status, Paths
  <2>5. CASE LoadDone
    <3>1. phase = "loading" /\ phase' = "open" /\ SavedPaths' = SavedPaths
      BY <2>5 DEF LoadDone, SavedPaths
    <3>2. TreePaths' = SavedPaths'
      BY <1>3, <3>1, InvAgreesNext DEF Agreed
    <3>3. Store!Open
      BY <1>3, <2>1, <3>1, <3>2 DEF Store!Open
    <3>4. QED
      BY <3>3 DEF Store!Next
  <2>6. CASE LeafCommand
    <3>1. phase = "open" /\ phase' = "open" /\ SavedPaths' = SavedPaths
      BY <2>6 DEF LeafCommand, session, SavedPaths
    <3>2. Paths' = Paths
      BY <1>3, <2>1, <3>1, InvAgrees, InvAgreesNext DEF Paths, Agreed
    <3>3. QED
      BY <1>3, <2>1, <3>1, <3>2 DEF Status
  <2>7. ASSUME NEW p \in Path, Added(p) \/ Removed(p) PROVE Store!Next
    <3>1. Tokens(p) \in AllTokens
      BY DEF AllTokens
    <3>2. Store!Create(Tokens(p)) \/ Store!Remove(Tokens(p))
      BY <2>1, <2>7, AddedCreates, RemovedRemoves
    <3>3. QED
      BY <3>1, <3>2 DEF Store!Next
  <2>8. QED
    BY <1>1, <1>3, <2>2, <2>3, <2>4, <2>5, <2>6, <2>7, SessionSteps DEF Load
<1>4. QED
  BY <1>2, <1>3

(***************************************************************************)
(* The session implements PathStore: what load_tree builds is what the     *)
(* last session left, and no command -- not even remove_node, which leaves *)
(* the lines of the subtree it frees in the file -- makes the file and the *)
(* tree differ on which paths there are.                                   *)
(***************************************************************************)
THEOREM ImplementsPathStore == ASSUME ~Reuse PROVE Spec => StoreSpec
<1>1. Init => Status = "closed" /\ Paths = {} /\ SavedPaths = {}
  <2> SUFFICES ASSUME Init PROVE SavedPaths = {} /\ Status = "closed" /\ Paths = {}
    OBVIOUS
  <2>1. file = Append(<<>>, Marker) /\ <<>> \in Seq(Line) /\ Marker \in Line
    BY DEF Init, Line
  <2>2. Replay(file) = {}
    BY <2>1, ReplayFacts, ReplayLineFacts
  <2>3. QED
    BY <2>2 DEF Init, SavedPaths, Status, Paths
<1>2. Init => Store!Init
  BY <1>1 DEF Store!Init, Status, Paths
<1>3. StoreInv /\ StoreInv' /\ [Next]_vars => [Store!Next]_<<Status, Paths, SavedPaths>>
  BY StoreStepMaps
<1>4. QED
  BY <1>2, <1>3, StoreAlways, PTL DEF Spec, StoreSpec, Store!Spec, Store!vars, Status, Paths

(***************************************************************************)
(* create-node creates the path it is given and no other, and remove-node  *)
(* removes that path, with all that is under it and with nothing else.     *)
(***************************************************************************)
THEOREM CommandsDoTheirOwn == ASSUME ~Reuse PROVE Spec => CommandsAgree
<1> DEFINE Own == intact' => \A p \in Path : /\ CreateNode(p) => Store!Create(Tokens(p))
                                             /\ RemoveNode(p) => Store!Remove(Tokens(p))
<1>1. StoreInv /\ StoreInv' /\ [Next]_vars => [Own]_vars
  <2>1. SUFFICES ASSUME StoreInv, StoreInv', [Next]_vars, intact', NEW p \in Path
                 PROVE  /\ CreateNode(p) => Store!Create(Tokens(p))
                        /\ RemoveNode(p) => Store!Remove(Tokens(p))
    OBVIOUS
  <2>2. intact
    BY <2>1, SessionSteps DEF StoreInv
  <2>3. QED
    BY <2>1, <2>2, CommandSteps, AddedCreates, RemovedRemoves
<1>2. QED
  BY <1>1, StoreAlways, PTL DEF Spec, CommandsAgree
-----------------------------------------------------------------------------
(***************************************************************************)
(* Leaves.  A leaf line returns, on a reload, if its path is indexed by    *)
(* then.                                                                   *)
(***************************************************************************)
Returns(lines, p, k, v) ==
  \E i \in 1 .. Len(lines) : lines[i] = LeafLine(p, k, v) /\ p \in Replay(SubSeq(lines, 1, i))

LEMMA ReturnsFacts ==
  ASSUME NEW p \in Path, NEW k \in Key, NEW v \in Value
  PROVE  /\ ~Returns(<<>>, p, k, v)
         /\ \A lines \in Seq(Line), line \in Line :
              Returns(Append(lines, line), p, k, v) <=>
                \/ Returns(lines, p, k, v)
                \/ line = LeafLine(p, k, v) /\ p \in Replay(lines)
<1>1. ~Returns(<<>>, p, k, v)
  BY DEF Returns
<1>2. ASSUME NEW lines \in Seq(Line), NEW line \in Line
      PROVE  Returns(Append(lines, line), p, k, v) <=>
               \/ Returns(lines, p, k, v)
               \/ line = LeafLine(p, k, v) /\ p \in Replay(lines)
  <2> DEFINE more == Append(lines, line)
             n == Len(lines)
  <2>1. /\ n \in Nat /\ Len(more) = n + 1 /\ more[n + 1] = line
        /\ \A i \in 1 .. n : more[i] = lines[i]
    OBVIOUS
  <2>2. /\ \A i \in 1 .. n : SubSeq(more, 1, i) = SubSeq(lines, 1, i)
        /\ SubSeq(more, 1, n + 1) = more
    OBVIOUS
  <2>3. 1 .. n + 1 = (1 .. n) \cup {n + 1}
    BY <2>1
  <2>4. line = LeafLine(p, k, v) => Replay(more) = Replay(lines)
    BY LeafReplays
  <2> HIDE DEF more, n
  <2>5. Returns(more, p, k, v) <=>
          \/ \E i \in 1 .. n : /\ lines[i] = LeafLine(p, k, v)
                               /\ p \in Replay(SubSeq(lines, 1, i))
          \/ line = LeafLine(p, k, v) /\ p \in Replay(more)
    BY <2>1, <2>2, <2>3 DEF Returns
  <2>6. QED
    BY <2>4, <2>5 DEF Returns, more, n
<1>3. QED
  BY <1>1, <1>2

(* Once remove_from_file has dropped p, no leaf under p returns. *)
RemovalReturns(p, lines) ==
  Unclashed(lines) /\ (\A q \in Replay(lines) : Tokens(q) = Tokens(p) => q = p) =>
    \A q \in Path, k \in Key, v \in Value :
      Returns(Without(lines, {NodeLine(p)}), q, k, v) =>
        Returns(lines, q, k, v) /\ ~Store!Under(Tokens(p), Tokens(q))

LEMMA RemovalReturnsStep ==
  ASSUME NEW p \in Path, NEW lines \in Seq(Line), NEW line \in Line, RemovalReturns(p, lines)
  PROVE  RemovalReturns(p, Append(lines, line))
<1> DEFINE keys == Replay(lines)
           kept == Without(lines, {NodeLine(p)})
           more == Append(lines, line)
<1>1. SUFFICES ASSUME Unclashed(more), \A q \in Replay(more) : Tokens(q) = Tokens(p) => q = p,
                      NEW q \in Path, NEW k \in Key, NEW v \in Value,
                      Returns(Without(more, {NodeLine(p)}), q, k, v)
               PROVE  Returns(more, q, k, v) /\ ~Store!Under(Tokens(p), Tokens(q))
  BY DEF RemovalReturns
<1>2. Replay(more) = ReplayLine(keys, line)
  BY ReplayFacts
<1>3. keys \subseteq Replay(more)
  BY <1>2 DEF ReplayLine
<1>4. Unclashed(lines) /\ \A x \in keys : Tokens(x) = Tokens(p) => x = p
  BY <1>1, <1>3, UnclashedFacts
<1>5. kept \in Seq(Line)
  BY WithoutFacts
<1>6. Replay(kept) = Above(p, keys)
  BY <1>4, RemovedReplays DEF RemovalReplays
<1>7. Returns(kept, q, k, v) => Returns(lines, q, k, v) /\ ~Store!Under(Tokens(p), Tokens(q))
  BY <1>4 DEF RemovalReturns
<1>8. Without(more, {NodeLine(p)}) = Keep(kept, line, {NodeLine(p)})
  BY WithoutAppend
<1>9. Returns(more, q, k, v) <=>
        Returns(lines, q, k, v) \/ (line = LeafLine(q, k, v) /\ q \in keys)
  BY ReturnsFacts
<1> HIDE DEF kept, more, keys
<1>10. CASE line \in {NodeLine(p)}
  BY <1>1, <1>7, <1>8, <1>9, <1>10 DEF Keep
<1>11. CASE line \notin {NodeLine(p)}
  <2>1. Returns(Append(kept, line), q, k, v)
    BY <1>1, <1>8, <1>11 DEF Keep
  <2>2. Returns(kept, q, k, v) \/ (line = LeafLine(q, k, v) /\ q \in Replay(kept))
    BY <1>5, <2>1, ReturnsFacts
  <2>3. QED
    BY <1>6, <1>7, <1>9, <2>2 DEF Above
<1>12. QED
  BY <1>10, <1>11

LEMMA RemovedReturns ==
  ASSUME NEW p \in Path
  PROVE  \A lines \in Seq(Line) : RemovalReturns(p, lines)
<1> DEFINE S == {lines \in Seq(Line) : RemovalReturns(p, lines)}
<1>1. <<>> \in S
  <2>1. <<>> \in Seq(Line)
    OBVIOUS
  <2>2. Without(<<>>, {NodeLine(p)}) = <<>>
    BY WithoutAppend
  <2>3. QED
    BY <2>1, <2>2, ReturnsFacts DEF RemovalReturns
<1>2. ASSUME NEW lines \in Seq(Line), NEW line \in Line, lines \in S
      PROVE  Append(lines, line) \in S
  BY <1>2, RemovalReturnsStep
<1> HIDE DEF S
<1>3. \A lines \in Seq(Line) : lines \in S
  BY <1>1, <1>2, SequenceInduction
<1>4. QED
  BY <1>3 DEF S

(* Once remove_leaf_from_file has dropped path|key|, no leaf of that key does. *)
LEMMA DeletedReturns ==
  ASSUME NEW p \in Path, NEW k \in Key
  PROVE  \A lines \in Seq(Line) : \A q \in Path, l \in Key, w \in Value :
           Returns(Without(lines, {LeafLine(p, k, v) : v \in Value}), q, l, w) =>
             Returns(lines, q, l, w) /\ ~(q = p /\ l = k)
<1> DEFINE dropped == {LeafLine(p, k, v) : v \in Value}
           S == {lines \in Seq(Line) : \A q \in Path, l \in Key, w \in Value :
                   Returns(Without(lines, dropped), q, l, w) =>
                     Returns(lines, q, l, w) /\ ~(q = p /\ l = k)}
<1>1. <<>> \in S
  <2>1. <<>> \in Seq(Line) /\ Without(<<>>, dropped) = <<>>
    BY WithoutAppend
  <2> HIDE DEF dropped
  <2>2. QED
    BY <2>1, ReturnsFacts
<1>2. ASSUME NEW lines \in Seq(Line), NEW line \in Line, lines \in S
      PROVE  Append(lines, line) \in S
  <2> DEFINE kept == Without(lines, dropped)
             more == Append(lines, line)
  <2>1. SUFFICES ASSUME NEW q \in Path, NEW l \in Key, NEW w \in Value,
                        Returns(Without(more, dropped), q, l, w)
                 PROVE  Returns(more, q, l, w) /\ ~(q = p /\ l = k)
    <3>1. Append(lines, line) \in Seq(Line)
      OBVIOUS
    <3> HIDE DEF dropped
    <3>2. QED
      BY <3>1, Zenon
  <2>2. Returns(kept, q, l, w) => Returns(lines, q, l, w) /\ ~(q = p /\ l = k)
    BY <1>2
  <2>3. Replay(kept) = Replay(lines)
    BY LeavesReplay
  <2>4. q = p /\ l = k => LeafLine(q, l, w) \in dropped
    OBVIOUS
  <2> HIDE DEF dropped
  <2>5. kept \in Seq(Line)
    BY WithoutFacts
  <2>6. Without(more, dropped) = Keep(kept, line, dropped)
    BY WithoutAppend
  <2>7. Returns(more, q, l, w) <=>
          Returns(lines, q, l, w) \/ (line = LeafLine(q, l, w) /\ q \in Replay(lines))
    BY ReturnsFacts
  <2> HIDE DEF kept, more
  <2>8. CASE line \in dropped
    BY <2>1, <2>2, <2>6, <2>7, <2>8 DEF Keep
  <2>9. CASE line \notin dropped
    <3>1. Returns(Append(kept, line), q, l, w)
      BY <2>1, <2>6, <2>9 DEF Keep
    <3>2. Returns(kept, q, l, w) \/ (line = LeafLine(q, l, w) /\ q \in Replay(kept))
      BY <2>5, <3>1, ReturnsFacts
    <3>3. QED
      BY <2>2, <2>3, <2>4, <2>7, <2>9, <3>2
  <2>10. QED
    BY <2>8, <2>9
<1> HIDE DEF S
<1>3. \A lines \in Seq(Line) : lines \in S
  BY <1>1, <1>2, SequenceInduction
<1>4. QED
  BY <1>3 DEF S
(* A leaf that returns is in memory, or its node's leaf list is dangling. *)
InMemory(p, k, v) ==
  /\ index[p] \in live
  /\ index[p] \in dangling \/ [key |-> k, value |-> v] \in ToSet(leaves[index[p]])

Held(lines) ==
  \A p \in Path, k \in Key, v \in Value : Returns(lines, p, k, v) => InMemory(p, k, v)

HeldInv == intact /\ phase \in {"loading", "open"} => Held(Loaded)

LEMMA RemoveAtFacts ==
  ASSUME NEW E, NEW s \in Seq(E), NEW i \in DOMAIN s
  PROVE  /\ DOMAIN RemoveAt(s, i) = 1 .. Len(s) - 1
         /\ \A x \in 1 .. Len(s) - 1 : RemoveAt(s, i)[x] = IF x < i THEN s[x] ELSE s[x + 1]
<1> DEFINE before == SubSeq(s, 1, i - 1)
           after == SubSeq(s, i + 1, Len(s))
           t == RemoveAt(s, i)
<1>1. /\ Len(s) \in Nat /\ i \in Nat /\ 1 <= i /\ i <= Len(s)
      /\ \A x \in 1 .. Len(s) : s[x] \in E
  OBVIOUS
<1>2. /\ before \in Seq(E) /\ Len(before) = i - 1
      /\ \A x \in 1 .. i - 1 : before[x] = s[x]
  BY <1>1
<1>3. after \in Seq(E) /\ Len(after) = Len(s) - i
  BY <1>1
<1>4. ASSUME NEW x \in 1 .. Len(s) - i PROVE after[x] = s[x + i]
  <2> DEFINE b == i + 1
  <2>1. \A y \in b .. Len(s) : s[y] \in E
    BY <1>1
  <2>2. b \in Int /\ Len(s) \in Int /\ x \in 1 .. Len(s) - b + 1 /\ b + x - 1 = x + i
    BY <1>1
  <2> HIDE DEF b
  <2>3. SubSeq(s, b, Len(s))[x] = s[b + x - 1]
    BY <2>1, <2>2, SubSeqProperties
  <2>4. QED
    BY <2>2, <2>3 DEF b
<1>5. t = before \o after
  BY DEF RemoveAt
<1> HIDE DEF before, after, t
<1>6. /\ t \in Seq(E) /\ Len(t) = Len(before) + Len(after)
      /\ \A x \in 1 .. Len(before) + Len(after) :
           t[x] = IF x <= Len(before) THEN before[x] ELSE after[x - Len(before)]
  BY <1>2, <1>3, <1>5, ConcatProperties
<1>7. Len(t) = Len(s) - 1 /\ DOMAIN t = 1 .. Len(s) - 1
  BY <1>1, <1>2, <1>3, <1>6
<1>8. ASSUME NEW x \in 1 .. Len(s) - 1 PROVE t[x] = IF x < i THEN s[x] ELSE s[x + 1]
  <2>1. t[x] = IF x <= i - 1 THEN before[x] ELSE after[x - (i - 1)]
    <3>1. Len(before) = i - 1 /\ x \in 1 .. Len(before) + Len(after)
      BY <1>1, <1>2, <1>3
    <3>2. QED
      BY <1>6, <3>1
  <2>2. CASE x < i
    BY <1>1, <1>2, <2>1, <2>2
  <2>3. CASE x >= i
    <3> DEFINE y == x - (i - 1)
    <3>1. y \in 1 .. Len(s) - i /\ y + i = x + 1 /\ ~(x <= i - 1) /\ ~(x < i)
      BY <1>1, <2>3
    <3> HIDE DEF y
    <3>2. after[y] = s[y + i]
      BY <1>4, <3>1
    <3>3. QED
      BY <2>1, <3>1, <3>2 DEF y
  <2>4. QED
    BY <1>1, <2>2, <2>3
<1>9. QED
  BY <1>7, <1>8 DEF t
LEMMA ListFacts ==
  ASSUME NEW E, NEW s \in Seq(E), NEW e \in E
  PROVE  /\ e \in ToSet(Append(s, e)) /\ ToSet(s) \subseteq ToSet(Append(s, e))
         /\ \A i \in DOMAIN s, x \in E :
              /\ x \in ToSet(s) /\ x # s[i] =>
                   x \in ToSet(RemoveAt(s, i)) /\ x \in ToSet([s EXCEPT ![i] = e])
              /\ e \in ToSet([s EXCEPT ![i] = e])
<1>1. /\ DOMAIN s = 1 .. Len(s) /\ Len(s) \in Nat
      /\ DOMAIN Append(s, e) = 1 .. Len(s) + 1
      /\ \A j \in 1 .. Len(s) : Append(s, e)[j] = s[j]
      /\ Append(s, e)[Len(s) + 1] = e
  OBVIOUS
<1>2. e \in ToSet(Append(s, e)) /\ ToSet(s) \subseteq ToSet(Append(s, e))
  <2> DEFINE t == Append(s, e)
  <2> HIDE DEF t
  <2>1. 1 .. Len(s) \subseteq 1 .. Len(s) + 1 /\ Len(s) + 1 \in 1 .. Len(s) + 1
    BY <1>1
  <2>2. e \in ToSet(t) /\ ToSet(s) \subseteq ToSet(t)
    BY <1>1, <2>1 DEF ToSet, t
  <2>3. QED
    BY <2>2 DEF t
<1>3. ASSUME NEW i \in DOMAIN s, NEW j \in DOMAIN s, j # i
      PROVE  s[j] \in ToSet(RemoveAt(s, i)) /\ s[j] \in ToSet([s EXCEPT ![i] = e])
  <2> DEFINE t == RemoveAt(s, i)
             m == IF j < i THEN j ELSE j - 1
  <2>1. /\ DOMAIN t = 1 .. Len(s) - 1
        /\ \A x \in 1 .. Len(s) - 1 : t[x] = IF x < i THEN s[x] ELSE s[x + 1]
    BY RemoveAtFacts
  <2>2. m \in 1 .. Len(s) - 1 /\ (IF m < i THEN m = j ELSE m + 1 = j)
    BY <1>1, <1>3
  <2> HIDE DEF t, m
  <2>3. t[m] = s[j]
    BY <2>1, <2>2
  <2>4. s[j] \in ToSet(t)
    BY <2>1, <2>2, <2>3 DEF ToSet
  <2>5. s[j] \in ToSet([s EXCEPT ![i] = e])
    BY <1>3 DEF ToSet
  <2>6. QED
    BY <2>4, <2>5 DEF t
<1>4. ASSUME NEW i \in DOMAIN s PROVE e \in ToSet([s EXCEPT ![i] = e])
  BY DEF ToSet
<1>5. ASSUME NEW i \in DOMAIN s, NEW x \in E, x \in ToSet(s), x # s[i]
      PROVE  x \in ToSet(RemoveAt(s, i)) /\ x \in ToSet([s EXCEPT ![i] = e])
  <2>1. PICK j \in DOMAIN s : x = s[j]
    BY <1>5 DEF ToSet
  <2>2. QED
    BY <1>3, <1>5, <2>1
<1>6. QED
  BY <1>2, <1>4, <1>5

(* create-node and load_tree's node lines take no leaf from another node. *)
LEMMA AddedHolds ==
  ASSUME ~Reuse, HeapInv, NEW p \in Path, AddNode(p),
         NEW q \in Path, NEW k \in Key, NEW v \in Value, InMemory(q, k, v)
  PROVE  InMemory(q, k, v)'
<1>1. /\ alloc + 1 \in Addr /\ live' = live \cup {alloc + 1}
      /\ leaves' = [leaves EXCEPT ![alloc + 1] = <<>>]
      /\ IndexInsert(p, alloc + 1) /\ dangling' = dangling
  BY DEF AddNode, Fresh
<1>2. /\ alloc + 1 \notin live /\ NULL \notin live
      /\ leaves \in [Addr -> Seq(Leaf)] /\ index \in [Path -> Addr \cup {NULL}]
      /\ live \subseteq Addr
  BY DEF HeapInv, HeapType, HeapBounds, Addr, NULL, Dict!DictType
<1>3. index'[q] = index[q]
  BY <1>1, <1>2 DEF InMemory, IndexInsert, Dict!Bound, Dict!Insert, NULL
<1>4. leaves'[index[q]] = leaves[index[q]]
  BY <1>1, <1>2 DEF InMemory
<1>5. QED
  BY <1>1, <1>3, <1>4 DEF InMemory

(* remove-node takes those of the nodes it frees. *)
LEMMA RemovedHolds ==
  ASSUME HeapInv, NEW K, Placed(K), NEW p \in Path, FreeNode(index[p]),
         NEW q \in Path, NEW k \in Key, NEW v \in Value, InMemory(q, k, v),
         ~Store!Under(Tokens(p), Tokens(q))
  PROVE  InMemory(q, k, v)'
<1> DEFINE n == index[p]
<1>1. PICK K2 : K2 = [a \in Nodes \ Subtree(n) |-> K[a]]
  OBVIOUS
<1>2. n \in Nodes /\ n \in live
  BY <1>1, FreeNodePlaced DEF Nodes
<1>3. K[n] = p /\ index[q] \in Nodes /\ K[index[q]] = q
  BY <1>2 DEF Placed, Indexed, InMemory
<1>4. index[q] \notin Subtree(n)
  BY <1>2, <1>3, SubtreeUnder, AtFacts
<1>5. QED
  BY <1>4 DEF FreeNode, InMemory

(* add_leaf *)
LEMMA AppendedHolds ==
  ASSUME HeapInv, NEW p \in Path, NEW l \in Key, NEW w \in Value, AppendLeaf(p, l, w),
         index[p] \in live
  PROVE  /\ InMemory(p, l, w)'
         /\ \A q \in Path, k \in Key, v \in Value : InMemory(q, k, v) => InMemory(q, k, v)'
<1> DEFINE n == index[p]
           e == [key |-> l, value |-> w]
<1>1. /\ leaves \in [Addr -> Seq(Leaf)] /\ n \in Addr /\ live \subseteq Addr
      /\ UNCHANGED <<live, dangling, index>>
  BY DEF HeapInv, HeapType, AppendLeaf
<1>2. leaves' = [leaves EXCEPT ![n] = Append(leaves[n], e)] /\ e \in Leaf /\ leaves[n] \in Seq(Leaf)
  BY <1>1 DEF AppendLeaf, Leaf
<1> HIDE DEF n, e
<1>3. e \in ToSet(leaves'[n]) /\ \A a \in live : ToSet(leaves[a]) \subseteq ToSet(leaves'[a])
  <2>1. e \in ToSet(Append(leaves[n], e)) /\ ToSet(leaves[n]) \subseteq ToSet(Append(leaves[n], e))
    BY <1>2, ListFacts
  <2>2. QED
    BY <1>1, <1>2, <2>1
<1>4. InMemory(p, l, w)'
  BY <1>1, <1>3 DEF InMemory, n, e
<1>5. ASSUME NEW q \in Path, NEW k \in Key, NEW v \in Value, InMemory(q, k, v)
      PROVE  InMemory(q, k, v)'
  BY <1>1, <1>3, <1>5 DEF InMemory
<1>6. QED
  BY <1>4, <1>5

(***************************************************************************)
(* A leaf is deleted or updated at one path: only one index entry leads to *)
(* a live node.                                                            *)
(***************************************************************************)
LEMMA OneEntry ==
  ASSUME NEW K, Placed(K), NEW p \in Path, NEW q \in Path, index[p] \in live, index[q] = index[p]
  PROVE  q = p
BY DEF Placed, Indexed

LEMMA DeletedHolds ==
  ASSUME HeapInv, NEW K, Placed(K), NEW p \in Path, NEW l \in Key,
         index[p] \in live, NEW i \in DOMAIN leaves[index[p]],
         FirstLeaf(leaves[index[p]], l, i), UnlinkLeaf(index[p], i),
         NEW q \in Path, NEW k \in Key, NEW v \in Value, InMemory(q, k, v), ~(q = p /\ k = l)
  PROVE  InMemory(q, k, v)'
<1> DEFINE n == index[p]
           x == [key |-> k, value |-> v]
<1>1. /\ leaves \in [Addr -> Seq(Leaf)] /\ n \in Addr /\ live \subseteq Addr
      /\ UNCHANGED <<live, index>> /\ x \in Leaf /\ leaves[n] \in Seq(Leaf)
  BY DEF HeapInv, HeapType, UnlinkLeaf, Leaf
<1>2. \/ dangling' = dangling \cup {n} /\ leaves' = [leaves EXCEPT ![n] = <<>>]
      \/ dangling' = dangling /\ leaves' = [leaves EXCEPT ![n] = RemoveAt(leaves[n], i)]
  BY <1>1 DEF UnlinkLeaf
<1>3. CASE index[q] # n
  BY <1>1, <1>2, <1>3 DEF InMemory
<1>4. CASE index[q] = n
  <2>1. q = p /\ k # l
    BY <1>4, OneEntry
  <2>2. x # leaves[n][i]
    BY <2>1 DEF FirstLeaf
  <2>3. x \in ToSet(leaves[n]) => x \in ToSet(RemoveAt(leaves[n], i))
    BY <1>1, <2>2, ListFacts
  <2> HIDE DEF n, x
  <2>4. QED
    BY <1>1, <1>2, <1>4, <2>3 DEF InMemory, x
<1>5. QED
  BY <1>3, <1>4

LEMMA UpdatedHolds ==
  ASSUME HeapInv, NEW K, Placed(K), NEW p \in Path, NEW l \in Key, NEW w \in Value,
         index[p] \in live, NEW i \in DOMAIN leaves[index[p]],
         FirstLeaf(leaves[index[p]], l, i),
         leaves' = [leaves EXCEPT ![index[p]] = [@ EXCEPT ![i] = [key |-> l, value |-> w]]],
         UNCHANGED <<live, dangling, index>>
  PROVE  /\ InMemory(p, l, w)'
         /\ \A q \in Path, k \in Key, v \in Value :
              InMemory(q, k, v) /\ ~(q = p /\ k = l) => InMemory(q, k, v)'
<1> DEFINE n == index[p]
           e == [key |-> l, value |-> w]
           t == [leaves[n] EXCEPT ![i] = e]
<1>1. /\ leaves \in [Addr -> Seq(Leaf)] /\ n \in Addr /\ live \subseteq Addr
      /\ e \in Leaf /\ leaves[n] \in Seq(Leaf)
  BY DEF HeapInv, HeapType, Leaf
<1>2. leaves' = [leaves EXCEPT ![n] = t]
  OBVIOUS
<1>3. /\ e \in ToSet(t)
      /\ \A x \in Leaf : x \in ToSet(leaves[n]) /\ x # leaves[n][i] => x \in ToSet(t)
  BY <1>1, ListFacts
<1> HIDE DEF t
<1>4. leaves'[n] = t /\ \A a \in live : a # n => leaves'[a] = leaves[a]
  BY <1>1, <1>2
<1>5. InMemory(p, l, w)'
  BY <1>3, <1>4 DEF InMemory
<1>6. ASSUME NEW q \in Path, NEW k \in Key, NEW v \in Value, InMemory(q, k, v), ~(q = p /\ k = l)
      PROVE  InMemory(q, k, v)'
  <2> DEFINE x == [key |-> k, value |-> v]
  <2>1. CASE index[q] # n
    BY <1>4, <1>6, <2>1 DEF InMemory
  <2>2. CASE index[q] = n
    <3>1. k # l
      BY <1>6, <2>2, OneEntry
    <3>2. x \in Leaf /\ x # leaves[n][i]
      BY <3>1 DEF FirstLeaf, Leaf
    <3>3. x \in ToSet(leaves[n]) => x \in ToSet(t)
      BY <1>3, <3>2
    <3> HIDE DEF x
    <3>4. QED
      BY <1>4, <1>6, <2>2, <3>3 DEF InMemory, x
  <2>3. QED
    BY <2>1, <2>2
<1>7. QED
  BY <1>5, <1>6
(* load_tree brings back what returns, line by line. *)
LEMMA LoadHolds ==
  ASSUME ~Reuse, StoreInv, intact, Held(Loaded), Load
  PROVE  Held(Loaded)'
<1>1. /\ HeapInv /\ HeapType /\ FileType /\ phase = "loading"
      /\ Loaded \in Seq(Line)
  <2>1. HeapInv /\ HeapType /\ FileType /\ phase = "loading"
    BY DEF StoreInv, HeapInv, Load, LoadMarker, LoadNode, LoadLeaf, LoadDone, Reading
  <2>2. SubSeq(file, 1, pos) \in Seq(Line)
    BY <2>1 DEF FileType
  <2>3. QED
    BY <2>1, <2>2 DEF Loaded
<1>2. PICK K : Placed(K) /\ Keys(K) = Replay(Loaded) /\ IndexFull(K)
  BY <1>1 DEF StoreInv, Filed
<1>3. ASSUME UNCHANGED heap, \A p \in Path, k \in Key, v \in Value :
               Returns(Loaded', p, k, v) => Returns(Loaded, p, k, v)
      PROVE  Held(Loaded)'
  BY <1>3 DEF heap, Held, InMemory
<1>4. CASE LoadMarker
  <2>1. Marker \in Line /\ Reading(Marker) /\ pos' = pos + 1 /\ UNCHANGED <<phase, file, heap>>
    BY <1>4 DEF LoadMarker, session, Line
  <2>2. Loaded' = Append(Loaded, Marker)
    BY <1>1, <2>1, ReadingFacts
  <2>3. \A p \in Path, k \in Key, v \in Value : Marker # LeafLine(p, k, v)
    BY LineKinds
  <2>4. QED
    BY <1>1, <1>3, <2>1, <2>2, <2>3, ReturnsFacts
<1>5. CASE LoadNode
  <2>1. PICK p \in Path : /\ Reading(NodeLine(p))
                          /\ AddNode(p) \/ (Refused(p) /\ UNCHANGED heap)
                          /\ pos' = pos + 1 /\ UNCHANGED <<session, file>>
    BY <1>5 DEF LoadNode
  <2>2. NodeLine(p) \in Line /\ phase' = phase /\ file' = file
    BY <2>1, LineTypes DEF session
  <2>3. Loaded' = Append(Loaded, NodeLine(p))
    BY <1>1, <2>1, <2>2, ReadingFacts
  <2>4. \A q \in Path, k \in Key, v \in Value : NodeLine(p) # LeafLine(q, k, v)
    BY LineKinds
  <2>5. \A q \in Path, k \in Key, v \in Value :
          Returns(Loaded', q, k, v) => Returns(Loaded, q, k, v)
    BY <1>1, <2>2, <2>3, <2>4, ReturnsFacts
  <2>6. CASE AddNode(p)
    BY <1>1, <2>3, <2>5, <2>6, AddedHolds DEF Held
  <2>7. CASE UNCHANGED heap
    BY <1>3, <2>3, <2>5, <2>7
  <2>8. QED
    BY <2>1, <2>6, <2>7
<1>6. CASE LoadLeaf
  <2>1. PICK p \in Path, l \in Key, w \in Value :
          /\ Reading(LeafLine(p, l, w))
          /\ \/ /\ index[p] \in live /\ AppendLeaf(p, l, w)
                /\ file' = Append(file, LeafLine(p, l, w))
             \/ index[p] = NULL /\ UNCHANGED <<heap, file>>
          /\ pos' = pos + 1 /\ UNCHANGED session
    BY <1>6 DEF LoadLeaf
  <2> DEFINE line == LeafLine(p, l, w)
  <2>2. line \in Line
    BY LineTypes
  <2>3. Loaded' = Append(Loaded, line)
    BY <1>1, <2>1, <2>2, ReadingFacts DEF session
  <2>4. ASSUME NEW q \in Path, NEW k \in Key, NEW v \in Value, Returns(Loaded', q, k, v)
        PROVE  \/ Returns(Loaded, q, k, v)
               \/ q = p /\ k = l /\ v = w /\ p \in Replay(Loaded)
    <3>1. Returns(Loaded, q, k, v) \/ (line = LeafLine(q, k, v) /\ q \in Replay(Loaded))
      BY <1>1, <2>2, <2>3, <2>4, ReturnsFacts
    <3>2. QED
      BY <3>1, LineKinds
  <2> HIDE DEF line
  <2>5. CASE index[p] \in live /\ AppendLeaf(p, l, w)
    BY <1>1, <2>4, <2>5, AppendedHolds DEF Held
  <2>6. CASE index[p] = NULL /\ UNCHANGED heap
    <3>1. p \notin Replay(Loaded)
      BY <1>1, <1>2, <2>6 DEF Keys, IndexFull, Nodes, HeapType, Addr, NULL
    <3>2. QED
      BY <1>3, <2>4, <2>6, <3>1
  <2>7. QED
    BY <2>1, <2>5, <2>6
<1>7. CASE LoadDone
  <2>1. pos = Len(file) /\ phase' = "open" /\ UNCHANGED <<heap, file>>
    BY <1>7 DEF LoadDone
  <2>2. SubSeq(file, 1, Len(file)) = file
    BY <1>1 DEF FileType
  <2>3. Loaded' = Loaded
    BY <1>1, <2>1, <2>2 DEF Loaded
  <2>4. QED
    BY <1>3, <2>1, <2>3
<1>8. QED
  BY <1>4, <1>5, <1>6, <1>7 DEF Load

(* What delete-leaf and update-leaf write is what they leave in memory. *)
LEMMA LeafCommandHolds ==
  ASSUME StoreInv, intact, intact', phase = "open", Held(file), AtLeaf
  PROVE  Held(file)'
<1>1. HeapInv /\ FileType /\ file \in Seq(Line)
  BY DEF StoreInv, FileType
<1>2. PICK K : Placed(K)
  BY DEF StoreInv
<1>3. PICK p \in Path, l \in Key :
        DeleteLeaf(p, l) \/ \E w \in Value : CreateLeaf(p, l, w) \/ UpdateLeaf(p, l, w)
  BY DEF AtLeaf
<1>4. \A q \in Path, k \in Key, v \in Value :
        Returns(WithoutLeaf(p, l), q, k, v) => Returns(file, q, k, v) /\ ~(q = p /\ k = l)
  BY <1>1, DeletedReturns DEF WithoutLeaf
<1>5. WithoutLeaf(p, l) \in Seq(Line) /\ \A w \in Value : LeafLine(p, l, w) \in Line
  BY <1>1, WithoutFacts, LineTypes DEF WithoutLeaf
<1>6. CASE DeleteLeaf(p, l)
  <2>1. PICK i \in DOMAIN leaves[index[p]] :
          /\ index[p] \in live /\ file' = WithoutLeaf(p, l)
          /\ FirstLeaf(leaves[index[p]], l, i) /\ UnlinkLeaf(index[p], i)
    BY <1>6 DEF DeleteLeaf, SoundLeaves, Lose
  <2>2. QED
    BY <1>1, <1>2, <1>4, <2>1, DeletedHolds DEF Held
<1>7. ASSUME NEW w \in Value, CreateLeaf(p, l, w)
      PROVE  Held(file)'
  <2>1. index[p] \in live /\ AppendLeaf(p, l, w) /\ file' = Append(file, LeafLine(p, l, w))
    BY <1>7 DEF CreateLeaf, SoundLeaves, Lose
  <2>2. ASSUME NEW q \in Path, NEW k \in Key, NEW v \in Value, Returns(file', q, k, v)
        PROVE  Returns(file, q, k, v) \/ (q = p /\ k = l /\ v = w)
    <3>1. Returns(file, q, k, v) \/ LeafLine(p, l, w) = LeafLine(q, k, v)
      BY <1>1, <1>5, <2>1, <2>2, ReturnsFacts
    <3>2. QED
      BY <3>1, LineKinds
  <2>3. QED
    BY <1>1, <2>1, <2>2, AppendedHolds DEF Held
<1>8. ASSUME NEW w \in Value, UpdateLeaf(p, l, w)
      PROVE  Held(file)'
  <2>1. PICK i \in DOMAIN leaves[index[p]] :
          /\ index[p] \in live /\ file' = Append(WithoutLeaf(p, l), LeafLine(p, l, w))
          /\ FirstLeaf(leaves[index[p]], l, i)
          /\ leaves' = [leaves EXCEPT ![index[p]] = [@ EXCEPT ![i] = [key |-> l, value |-> w]]]
          /\ UNCHANGED <<live, dangling, index>>
    BY <1>8 DEF UpdateLeaf, SoundLeaves, Lose
  <2>2. ASSUME NEW q \in Path, NEW k \in Key, NEW v \in Value, Returns(file', q, k, v)
        PROVE  \/ Returns(file, q, k, v) /\ ~(q = p /\ k = l)
               \/ q = p /\ k = l /\ v = w
    <3>1. Returns(WithoutLeaf(p, l), q, k, v) \/ LeafLine(p, l, w) = LeafLine(q, k, v)
      BY <1>5, <2>1, <2>2, ReturnsFacts
    <3>2. QED
      BY <1>4, <3>1, LineKinds
  <2>3. /\ InMemory(p, l, w)'
        /\ \A q \in Path, k \in Key, v \in Value :
             InMemory(q, k, v) /\ ~(q = p /\ k = l) => InMemory(q, k, v)'
    BY <1>1, <1>2, <2>1, UpdatedHolds
  <2>4. QED
    BY <2>2, <2>3 DEF Held
<1>9. QED
  BY <1>3, <1>6, <1>7, <1>8

LEMMA HeldStep ==
  ASSUME ~Reuse, StoreInv, HeldInv, [Next]_vars
  PROVE  HeldInv'
<1>1. HeapInv /\ FileType /\ file \in Seq(Line)
  BY DEF StoreInv, FileType
<1>2. PICK K : Placed(K) /\ Filed(K)
  BY DEF StoreInv
<1>3. SUFFICES ASSUME intact', phase' \in {"loading", "open"} PROVE Held(Loaded)'
  BY DEF HeldInv, Held
<1>4. intact
  BY <1>1, <1>3, SessionSteps
<1>5. CASE UNCHANGED vars
  BY <1>3, <1>4, <1>5 DEF vars, session, heap, HeldInv, Held, InMemory, Loaded
<1>6. CASE Renewed
  <2>1. SubSeq(file', 1, 0) = <<>> /\ phase' = "loading" /\ pos' = 0
    BY <1>1, <1>3, <1>6 DEF Renewed
  <2>2. QED
    BY <2>1, ReturnsFacts DEF Held, Loaded
<1>7. CASE Load
  <2>1. phase = "loading"
    BY <1>7 DEF Load, LoadMarker, LoadNode, LoadLeaf, LoadDone, Reading
  <2>2. QED
    BY <1>4, <1>7, <2>1, LoadHolds DEF HeldInv
<1>8. ASSUME phase = "open", UNCHANGED session
      PROVE  Loaded = file /\ Loaded' = file' /\ Held(file)
  BY <1>4, <1>8 DEF Loaded, session, HeldInv
<1>9. ASSUME NEW p \in Path, Added(p) PROVE Held(Loaded)'
  <2>1. Loaded' = Append(file, NodeLine(p)) /\ Held(file) /\ AddNode(p)
    BY <1>8, <1>9 DEF Added
  <2>2. NodeLine(p) \in Line /\ \A q \in Path, k \in Key, v \in Value : NodeLine(p) # LeafLine(q, k, v)
    BY LineTypes, LineKinds
  <2>3. \A q \in Path, k \in Key, v \in Value : Returns(Loaded', q, k, v) => Returns(file, q, k, v)
    BY <1>1, <2>1, <2>2, ReturnsFacts
  <2>4. QED
    BY <1>1, <2>1, <2>3, AddedHolds DEF Held
<1>10. ASSUME NEW p \in Path, Removed(p) PROVE Held(Loaded)'
  <2>1. Loaded' = WithoutNode(p) /\ Held(file) /\ FreeNode(index[p]) /\ phase = "open"
    BY <1>8, <1>10 DEF Removed
  <2>2. Unclashed(file) /\ Keys(K) = Replay(file)
    BY <1>2, <1>4, <2>1 DEF Filed, Loaded
  <2>3. \A q \in Replay(file) : Tokens(q) = Tokens(p) => q = p
    <3>1. PICK K2 : K2 = [a \in Nodes \ Subtree(index[p]) |-> K[a]]
      OBVIOUS
    <3>2. index[p] \in Nodes
      BY <1>1, <1>2, <2>1, <3>1, FreeNodePlaced
    <3>3. K[index[p]] = p
      BY <1>2, <3>2 DEF Placed, Indexed, Nodes
    <3>4. QED
      BY <1>2, <2>2, <3>2, <3>3 DEF Keys, Placed, OneEach
  <2>4. \A q \in Path, k \in Key, v \in Value :
          Returns(Loaded', q, k, v) => Returns(file, q, k, v) /\ ~Store!Under(Tokens(p), Tokens(q))
    BY <1>1, <2>1, <2>2, <2>3, RemovedReturns DEF RemovalReturns, WithoutNode
  <2>5. QED
    BY <1>1, <1>2, <2>1, <2>4, RemovedHolds DEF Held
<1>11. CASE LeafCommand /\ AtLeaf
  <2>1. phase = "open" /\ UNCHANGED session
    BY <1>11 DEF LeafCommand
  <2>2. QED
    BY <1>3, <1>4, <1>8, <1>11, <2>1, LeafCommandHolds
<1>12. QED
  BY <1>1, <1>3, <1>5, <1>6, <1>7, <1>9, <1>10, <1>11, SessionSteps

(***************************************************************************)
(* A leaf that a reload would find is in memory: no line that delete-leaf, *)
(* update-leaf or remove-node leaves in the file brings an old value back, *)
(* not even once the node is created again.                                *)
(***************************************************************************)
THEOREM LeavesStayGone == ASSUME ~Reuse PROVE Spec => []NoLeafReturns
<1>1. Init => HeldInv
  BY DEF Init, HeldInv
<1>2. StoreInv /\ HeldInv /\ [Next]_vars => HeldInv'
  BY HeldStep
<1>3. StoreInv /\ HeldInv => NoLeafReturns
  <2>1. SUFFICES ASSUME StoreInv, HeldInv, phase = "open", intact, NEW i \in DOMAIN file,
                        NEW p \in Replay(SubSeq(file, 1, i)), NEW k \in Key, NEW v \in Value,
                        file[i] = LeafLine(p, k, v)
                 PROVE  InMemory(p, k, v)
    BY DEF NoLeafReturns, InMemory
  <2>2. file \in Seq(Line)
    BY <2>1 DEF StoreInv, FileType
  <2>3. i \in 1 .. Len(file) /\ SubSeq(file, 1, i) \in Seq(Line)
    BY <2>2
  <2>4. p \in Path
    BY <2>3, ReplayFacts
  <2>5. Returns(file, p, k, v)
    BY <2>1, <2>3 DEF Returns
  <2>6. QED
    BY <2>1, <2>4, <2>5 DEF HeldInv, Held, Loaded
<1>4. QED
  BY <1>1, <1>2, <1>3, StoreAlways, PTL DEF Spec
=============================================================================
