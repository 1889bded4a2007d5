------------------------------ MODULE LinesProofs ------------------------------
(***************************************************************************)
(* Induction over numbers and sequences, stated with sets, and what it     *)
(* says of the lines that a rewrite keeps.  The other proof modules cite   *)
(* these facts.                                                            *)
(***************************************************************************)
EXTENDS Lines, SequenceTheorems, WellFoundedInduction, TLAPS

-----------------------------------------------------------------------------
(* Induction.  The theorems of the library take the predicate as a          *)
(* parameter; these take the set of what satisfies it.                      *)

LEMMA LeastNumber ==
  ASSUME NEW S \in SUBSET Nat, S # {}
  PROVE  \E m \in S : \A x \in S : m <= x
<1>1. PICK m \in S : \A y \in S : ~(<<y, m>> \in OpToRel(<, Nat))
  BY NatLessThanWellFounded, WFMin
<1>2. \A y \in S : ~(y < m)
  BY <1>1 DEF OpToRel
<1>3. QED
  BY <1>2

LEMMA NumberInduction ==
  ASSUME NEW S, 0 \in S, \A n \in Nat : n \in S => n + 1 \in S
  PROVE  \A n \in Nat : n \in S
<1> DEFINE Bad == {n \in Nat : n \notin S}
<1>1. SUFFICES ASSUME Bad # {} PROVE FALSE
  OBVIOUS
<1>2. PICK m \in Bad : \A x \in Bad : m <= x
  <2>1. Bad \in SUBSET Nat
    OBVIOUS
  <2>2. QED
    BY <1>1, <2>1, LeastNumber
<1>3. m \in Nat /\ m # 0 /\ m - 1 \in Nat
  OBVIOUS
<1>4. m - 1 \in S
  BY <1>2, <1>3
<1>5. (m - 1) + 1 \in S
  BY <1>3, <1>4
<1>6. QED
  BY <1>3, <1>5

LEMMA SequenceInduction ==
  ASSUME NEW E, NEW S, <<>> \in S,
         \A s \in Seq(E), e \in E : s \in S => Append(s, e) \in S
  PROVE  \A s \in Seq(E) : s \in S
<1> DEFINE Long == {n \in Nat : \A s \in Seq(E) : Len(s) = n => s \in S}
<1>1. 0 \in Long
  <2>1. \A s \in Seq(E) : Len(s) = 0 => s = <<>>
    OBVIOUS
  <2>2. QED
    BY <2>1
<1>2. ASSUME NEW n \in Nat, n \in Long PROVE n + 1 \in Long
  <2>1. SUFFICES ASSUME NEW s \in Seq(E), Len(s) = n + 1 PROVE s \in S
    OBVIOUS
  <2> DEFINE front == SubSeq(s, 1, n)
  <2>2. front \in Seq(E) /\ Len(front) = n /\ s[n + 1] \in E
    BY <2>1
  <2>3. s = Append(front, s[n + 1])
    BY <2>1, <2>2
  <2>4. front \in S
    BY <1>2, <2>2
  <2>5. QED
    BY <2>2, <2>3, <2>4
<1> HIDE DEF Long
<1>3. \A n \in Nat : n \in Long
  BY <1>1, <1>2, NumberInduction
<1>4. QED
  BY <1>3 DEF Long

(***************************************************************************)
(* A value for each number up to n, each made from the one before it.      *)
(***************************************************************************)
Iterates(f, A, a0, Step, n) ==
  /\ f \in [0 .. n -> A] /\ f[0] = a0
  /\ \A i \in 1 .. n : f[i] = Step[i][f[i - 1]]

LEMMA IterationStep ==
  ASSUME NEW A, NEW a0 \in A, NEW Step, NEW m \in Nat, NEW f,
         Iterates(f, A, a0, Step, m), Step[m + 1] \in [A -> A]
  PROVE  \E g : Iterates(g, A, a0, Step, m + 1)
<1> DEFINE g == [i \in 0 .. m + 1 |-> IF i = m + 1 THEN Step[m + 1][f[m]] ELSE f[i]]
<1>1. \A i \in 0 .. m : g[i] = f[i] /\ f[i] \in A
  BY DEF Iterates
<1>2. g[m + 1] = Step[m + 1][g[m]] /\ g[m + 1] \in A
  <2>1. g[m] = f[m] /\ f[m] \in A
    <3>1. m \in 0 .. m
      OBVIOUS
    <3> HIDE DEF g
    <3>2. QED
      BY <1>1, <3>1
  <2>2. g[m + 1] = Step[m + 1][f[m]]
    OBVIOUS
  <2>3. QED
    BY <2>1, <2>2
<1>3. g \in [0 .. m + 1 -> A]
  <2>1. \A i \in 0 .. m + 1 : g[i] \in A
    BY <1>1, <1>2
  <2>2. QED
    BY <2>1
<1>4. ASSUME NEW i \in 1 .. m + 1 PROVE g[i] = Step[i][g[i - 1]]
  <2>1. CASE i = m + 1
    BY <1>2, <2>1
  <2>2. CASE i # m + 1
    <3>1. i \in 1 .. m /\ i \in 0 .. m /\ i - 1 \in 0 .. m
      BY <2>2
    <3>2. f[i] = Step[i][f[i - 1]]
      BY <3>1 DEF Iterates
    <3>3. QED
      BY <1>1, <3>1, <3>2
  <2>3. QED
    BY <2>1, <2>2
<1>5. g[0] = a0
  BY <1>1 DEF Iterates
<1> HIDE DEF g
<1>6. Iterates(g, A, a0, Step, m + 1)
  BY <1>3, <1>4, <1>5 DEF Iterates
<1>7. QED
  BY <1>6

LEMMA Iteration ==
  ASSUME NEW A, NEW a0 \in A, NEW Step, NEW n \in Nat,
         \A i \in 1 .. n : Step[i] \in [A -> A]
  PROVE  \E f : Iterates(f, A, a0, Step, n)
<1> DEFINE Reached == {m \in Nat : m <= n => \E f : Iterates(f, A, a0, Step, m)}
<1>1. 0 \in Reached
  <2>1. Iterates([i \in 0 .. 0 |-> a0], A, a0, Step, 0)
    BY DEF Iterates
  <2>2. QED
    BY <2>1
<1>2. ASSUME NEW m \in Nat, m \in Reached PROVE m + 1 \in Reached
  <2>1. SUFFICES ASSUME m + 1 <= n PROVE \E f : Iterates(f, A, a0, Step, m + 1)
    OBVIOUS
  <2>2. PICK f : Iterates(f, A, a0, Step, m)
    BY <1>2, <2>1
  <2>3. Step[m + 1] \in [A -> A]
    BY <2>1
  <2>4. QED
    BY <2>2, <2>3, IterationStep
<1> HIDE DEF Reached
<1>3. \A m \in Nat : m \in Reached
  BY <1>1, <1>2, NumberInduction
<1>4. QED
  BY <1>3 DEF Reached

(* Two iterations that make the same steps agree on what they make of them. *)
LEMMA IterationsAgree ==
  ASSUME NEW A, NEW a0, NEW Step1, NEW Step2, NEW n \in Nat, NEW m \in Nat, NEW f, NEW g,
         Iterates(f, A, a0, Step1, n), Iterates(g, A, a0, Step2, m),
         n <= m, \A i \in 1 .. n : Step1[i] = Step2[i]
  PROVE  f[n] = g[n]
<1> DEFINE S == {i \in Nat : i <= n => f[i] = g[i]}
<1>1. 0 \in S
  BY DEF Iterates
<1>2. ASSUME NEW i \in Nat, i \in S PROVE i + 1 \in S
  <2>1. SUFFICES ASSUME i + 1 <= n PROVE f[i + 1] = g[i + 1]
    OBVIOUS
  <2>2. i + 1 \in 1 .. n /\ i + 1 \in 1 .. m /\ (i + 1) - 1 = i /\ f[i] = g[i]
    BY <1>2, <2>1
  <2>3. QED
    BY <2>2 DEF Iterates
<1> HIDE DEF S
<1>3. \A i \in Nat : i \in S
  BY <1>1, <1>2, NumberInduction
<1>4. QED
  BY <1>3 DEF S

-----------------------------------------------------------------------------
(* Without. *)

Keep(x, line, dropped) == IF line \in dropped THEN x ELSE Append(x, line)

KeptBy(K, E, lines, dropped) ==
  /\ K \in [0 .. Len(lines) -> Seq(E)]
  /\ K[0] = <<>> /\ Without(lines, dropped) = K[Len(lines)]
  /\ \A i \in 1 .. Len(lines) : K[i] = Keep(K[i - 1], lines[i], dropped)

(* The recursive function in Without is the one that its body describes. *)
LEMMA WithoutIterates ==
  ASSUME NEW E, NEW lines \in Seq(E), NEW dropped
  PROVE  \E K : KeptBy(K, E, lines, dropped)
<1> DEFINE n == Len(lines)
           Kept[i \in 0 .. n] ==
             IF i = 0 THEN <<>>
             ELSE IF lines[i] \in dropped THEN Kept[i - 1] ELSE Append(Kept[i - 1], lines[i])
           Step == [i \in 1 .. n |-> [x \in Seq(E) |-> Keep(x, lines[i], dropped)]]
           Body(f) == [i \in 0 .. n |->
                         IF i = 0 THEN <<>>
                         ELSE IF lines[i] \in dropped THEN f[i - 1] ELSE Append(f[i - 1], lines[i])]
<1>1. n \in Nat /\ \A i \in 1 .. n : lines[i] \in E
  OBVIOUS
<1>2. \A i \in 1 .. n : Step[i] \in [Seq(E) -> Seq(E)]
  <2>1. \A i \in 1 .. n : \A x \in Seq(E) : Keep(x, lines[i], dropped) \in Seq(E)
    BY <1>1 DEF Keep
  <2>2. QED
    BY <2>1
<1>3. PICK f : Iterates(f, Seq(E), <<>>, Step, n)
  <2>1. <<>> \in Seq(E)
    OBVIOUS
  <2> HIDE DEF n, Step
  <2>2. QED
    BY <1>1, <1>2, <2>1, Iteration
<1>4. \A i \in 1 .. n : f[i] = Keep(f[i - 1], lines[i], dropped)
  <2>1. \A i \in 1 .. n : f[i] = Step[i][f[i - 1]] /\ f[i - 1] \in Seq(E)
    <3>1. \A i \in 1 .. n : i - 1 \in 0 .. n
      OBVIOUS
    <3>2. QED
      BY <1>3, <3>1 DEF Iterates
  <2>2. QED
    BY <2>1
<1>5. f = Body(f)
  <2>1. \A i \in 0 .. n : f[i] = Body(f)[i]
    <3>1. ASSUME NEW i \in 0 .. n PROVE f[i] = Body(f)[i]
      <4>1. CASE i = 0
        BY <1>3, <4>1 DEF Iterates
      <4>2. CASE i # 0
        <5>1. i \in 1 .. n
          BY <4>2
        <5>2. QED
          BY <1>4, <4>2, <5>1 DEF Keep
      <4>3. QED
        BY <4>1, <4>2
    <3>2. QED
      BY <3>1
  <2>2. f = [i \in 0 .. n |-> f[i]]
    BY <1>3 DEF Iterates
  <2>3. Body(f) = [i \in 0 .. n |-> Body(f)[i]]
    OBVIOUS
  <2> HIDE DEF Body
  <2>4. QED
    BY <2>1, <2>2, <2>3
<1>6. Kept = Body(Kept)
  BY <1>5
<1>7. Kept[0] = <<>> /\ \A i \in 1 .. n : Kept[i] = Keep(Kept[i - 1], lines[i], dropped)
  <2> HIDE DEF Kept
  <2>1. Kept[0] = Body(Kept)[0] /\ \A i \in 1 .. n : Kept[i] = Body(Kept)[i]
    BY <1>6
  <2>2. Body(Kept)[0] = <<>>
    OBVIOUS
  <2>3. \A i \in 1 .. n : Body(Kept)[i] = Keep(Kept[i - 1], lines[i], dropped)
    <3>1. \A i \in 1 .. n : i \in 0 .. n /\ i # 0
      OBVIOUS
    <3>2. QED
      BY <3>1 DEF Keep
  <2> HIDE DEF Body
  <2>4. QED
    BY <2>1, <2>2, <2>3
<1>8. \A i \in 0 .. n : Kept[i] = f[i]
  <2> HIDE DEF Kept
  <2> DEFINE S == {i \in Nat : i <= n => Kept[i] = f[i]}
  <2>1. 0 \in S
    BY <1>3, <1>7 DEF Iterates
  <2>2. ASSUME NEW i \in Nat, i \in S PROVE i + 1 \in S
    <3>1. SUFFICES ASSUME i + 1 <= n PROVE Kept[i + 1] = f[i + 1]
      OBVIOUS
    <3>2. i + 1 \in 1 .. n /\ (i + 1) - 1 = i /\ Kept[i] = f[i]
      BY <2>2, <3>1
    <3>3. QED
      BY <1>4, <1>7, <3>2
  <2> HIDE DEF S
  <2>3. \A i \in Nat : i \in S
    BY <2>1, <2>2, NumberInduction
  <2>4. QED
    BY <2>3 DEF S
<1>9. Kept \in [0 .. n -> Seq(E)]
  <2>1. \A i \in 0 .. n : Kept[i] \in Seq(E)
    BY <1>3, <1>8 DEF Iterates
  <2>2. Kept = [i \in 0 .. n |-> Kept[i]]
    BY <1>6
  <2> HIDE DEF Kept
  <2>3. QED
    BY <2>1, <2>2
<1>10. Without(lines, dropped) = Kept[n]
  BY DEF Without
<1> HIDE DEF Kept
<1>11. KeptBy(Kept, E, lines, dropped)
  BY <1>7, <1>9, <1>10 DEF KeptBy
<1>12. QED
  BY <1>11

LEMMA WithoutAppend ==
  ASSUME NEW E, NEW dropped
  PROVE  /\ Without(<<>>, dropped) = <<>>
         /\ \A lines \in Seq(E), line \in E :
              Without(Append(lines, line), dropped) = Keep(Without(lines, dropped), line, dropped)
<1>1. Without(<<>>, dropped) = <<>>
  <2>1. <<>> \in Seq(E) /\ Len(<<>>) = 0
    OBVIOUS
  <2>2. PICK K : KeptBy(K, E, <<>>, dropped)
    BY <2>1, WithoutIterates
  <2>3. QED
    BY <2>1, <2>2 DEF KeptBy
<1>2. ASSUME NEW lines \in Seq(E), NEW line \in E
      PROVE  Without(Append(lines, line), dropped) = Keep(Without(lines, dropped), line, dropped)
  <2> DEFINE more == Append(lines, line)
             n == Len(lines)
  <2>1. /\ more \in Seq(E) /\ n \in Nat /\ Len(more) = n + 1 /\ more[n + 1] = line
        /\ \A i \in 1 .. n : more[i] = lines[i]
    OBVIOUS
  <2> HIDE DEF more
  <2>2. PICK J : KeptBy(J, E, lines, dropped)
    BY WithoutIterates
  <2>3. PICK K : KeptBy(K, E, more, dropped)
    BY <2>1, WithoutIterates
  <2> DEFINE S == {i \in Nat : i <= n => J[i] = K[i]}
  <2>4. 0 \in S
    BY <2>2, <2>3 DEF KeptBy
  <2>5. ASSUME NEW i \in Nat, i \in S PROVE i + 1 \in S
    <3>1. SUFFICES ASSUME i + 1 <= n PROVE J[i + 1] = K[i + 1]
      OBVIOUS
    <3>2. i + 1 \in 1 .. n /\ i + 1 \in 1 .. n + 1 /\ (i + 1) - 1 = i /\ J[i] = K[i]
      BY <2>1, <2>5, <3>1
    <3>3. QED
      BY <2>1, <2>2, <2>3, <3>2 DEF KeptBy
  <2> HIDE DEF S
  <2>6. \A i \in Nat : i \in S
    BY <2>4, <2>5, NumberInduction
  <2>7. J[n] = K[n]
    BY <2>1, <2>6 DEF S
  <2>8. K[n + 1] = Keep(K[n], line, dropped)
    <3>1. n + 1 \in 1 .. n + 1 /\ (n + 1) - 1 = n
      BY <2>1
    <3>2. QED
      BY <2>1, <2>3, <3>1 DEF KeptBy
  <2>9. QED
    BY <2>1, <2>2, <2>3, <2>7, <2>8 DEF KeptBy, more
<1>3. QED
  BY <1>1, <1>2

LEMMA RangeAppend ==
  ASSUME NEW E, NEW s \in Seq(E), NEW e \in E
  PROVE  Range(Append(s, e)) = Range(s) \cup {e}
<1> DEFINE t == Append(s, e)
<1>1. /\ Len(t) = Len(s) + 1 /\ DOMAIN t = 1 .. Len(t) /\ DOMAIN s = 1 .. Len(s)
      /\ t[Len(s) + 1] = e /\ \A i \in 1 .. Len(s) : t[i] = s[i]
  OBVIOUS
<1> HIDE DEF t
<1>2. 1 .. Len(s) + 1 = (1 .. Len(s)) \cup {Len(s) + 1}
  OBVIOUS
<1>3. QED
  BY <1>1, <1>2 DEF Range

(***************************************************************************)
(* A rewrite keeps the lines that it does not drop, and adds none.         *)
(***************************************************************************)
LEMMA WithoutFacts ==
  ASSUME NEW E, NEW lines \in Seq(E), NEW dropped
  PROVE  /\ Without(lines, dropped) \in Seq(E)
         /\ Len(Without(lines, dropped)) <= Len(lines)
         /\ Range(Without(lines, dropped)) = Range(lines) \ dropped
<1> DEFINE n == Len(lines)
<1>1. PICK K : KeptBy(K, E, lines, dropped)
  BY WithoutIterates
<1> DEFINE Before(i) == {lines[j] : j \in 1 .. i}
           S == {i \in Nat : i <= n => /\ Len(K[i]) <= i
                                       /\ Range(K[i]) = Before(i) \ dropped}
<1>2. 0 \in S
  BY <1>1 DEF Range, KeptBy
<1>3. ASSUME NEW i \in Nat, i \in S PROVE i + 1 \in S
  <2>1. SUFFICES ASSUME i + 1 <= n
                 PROVE  /\ Len(K[i + 1]) <= i + 1
                        /\ Range(K[i + 1]) = Before(i + 1) \ dropped
    OBVIOUS
  <2>2. /\ K[i] \in Seq(E) /\ lines[i + 1] \in E
        /\ Len(K[i]) <= i /\ Range(K[i]) = Before(i) \ dropped
        /\ K[i + 1] = Keep(K[i], lines[i + 1], dropped)
    <3>1. i \in 0 .. n /\ i + 1 \in 1 .. n /\ (i + 1) - 1 = i
      BY <2>1
    <3>2. QED
      BY <1>1, <1>3, <3>1 DEF KeptBy
  <2>3. Before(i + 1) = Before(i) \cup {lines[i + 1]}
    OBVIOUS
  <2>4. CASE lines[i + 1] \in dropped
    BY <2>2, <2>3, <2>4 DEF Keep
  <2>5. CASE lines[i + 1] \notin dropped
    <3>1. K[i + 1] = Append(K[i], lines[i + 1])
      BY <2>2, <2>5 DEF Keep
    <3>2. Len(K[i + 1]) = Len(K[i]) + 1
      BY <2>2, <3>1
    <3>3. Range(K[i + 1]) = Range(K[i]) \cup {lines[i + 1]}
      BY <2>2, <3>1, RangeAppend
    <3> HIDE DEF Before
    <3>4. QED
      BY <2>2, <2>3, <2>5, <3>2, <3>3
  <2>6. QED
    BY <2>4, <2>5
<1> HIDE DEF S
<1>4. \A i \in Nat : i \in S
  BY <1>2, <1>3, NumberInduction
<1>5. n \in Nat /\ K[n] \in Seq(E) /\ Before(n) = Range(lines)
  BY <1>1 DEF Range, KeptBy
<1>6. n \in S
  BY <1>4, <1>5
<1>7. QED
  BY <1>1, <1>5, <1>6 DEF S, KeptBy
=============================================================================
