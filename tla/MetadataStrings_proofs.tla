-------------------------- MODULE MetadataStrings_proofs --------------------------
(***************************************************************************)
(* Proofs about the strings of a metadata file, for any texts of UTF-16    *)
(* units and any number of fields.                                         *)
(***************************************************************************)
EXTENDS MetadataStrings, SequenceTheorems, WellFoundedInduction, TLAPS

(* Induction and recursion: what is said of every number up to n, or of     *)
(* every sequence, is said as a set that contains them all.                *)

\* A nonempty set of numbers has a least one.
LEMMA LeastNumber ==
    ASSUME NEW T \in SUBSET Nat, T # {}
    PROVE  \E i \in T : \A j \in T : i =< j
<1> DEFINE less == {p \in Nat \X Nat : p[1] < p[2]}
<1>1. IsWellFoundedOn(less, Nat)
  BY NatLessThanWellFounded, Zenon DEF OpToRel
<1>2. \E i \in T : \A j \in T : <<j, i>> \notin less
  <2> HIDE DEF less
  <2>1. QED
    BY <1>1, WFMin
<1>3. \A i, j \in T : <<j, i>> \notin less => i =< j
  OBVIOUS
<1>4. QED
  BY <1>2, <1>3

\* What holds of 0 and of each next number holds of all numbers up to n.
LEMMA Induction ==
    ASSUME NEW n \in Nat, NEW T, 0 \in T, \A i \in 0..(n - 1) : i \in T => i + 1 \in T
    PROVE  0..n \subseteq T
<1>1. SUFFICES ASSUME NEW m \in 0..n, m \notin T PROVE FALSE
  OBVIOUS
<1> DEFINE missing == {i \in 0..n : i \notin T}
<1>2. missing \in SUBSET Nat /\ missing # {}
  BY <1>1
<1>3. PICK i \in missing : \A j \in missing : i =< j
  <2> HIDE DEF missing
  <2>1. QED
    BY <1>2, LeastNumber
<1>4. i # 0 /\ i \in 0..n /\ i \notin T
  BY <1>3
<1>5. i - 1 \in 0..(n - 1) /\ i - 1 \in 0..n
  BY <1>4
<1>6. i - 1 \in T
  BY <1>3, <1>5
<1>7. (i - 1) + 1 \in T
  BY <1>5, <1>6
<1>8. (i - 1) + 1 = i
  BY <1>4
<1>9. QED
  BY <1>4, <1>7, <1>8

\* The n steps take values in S to values in S; h are the values they reach.
IsLoop(step, n, S) == step \in [1..n -> [S -> S]]

Runs(h, base, step, n, S) ==
    /\ h \in [0..n -> S]
    /\ h[0] = base
    /\ \A i \in 1..n : h[i] = step[i][h[i - 1]]

\* A recursion over the numbers up to n has a function that satisfies it.
LEMMA Recursion ==
    ASSUME NEW S, NEW base, base \in S, NEW n, n \in Nat, NEW step, IsLoop(step, n, S)
    PROVE  \E h : Runs(h, base, step, n, S)
<1> DEFINE Upto(f, m) ==
              /\ f \in [0..n -> S]
              /\ f[0] = base
              /\ \A i \in 1..m : f[i] = step[i][f[i - 1]]
           T == {m \in 0..n : \E f : Upto(f, m)}
<1>1. 0 \in T
  <2> DEFINE g == [i \in 0..n |-> base]
  <2>1. Upto(g, 0)
    OBVIOUS
  <2>2. 0 \in 0..n
    OBVIOUS
  <2> HIDE DEF g, Upto
  <2>3. QED
    BY <2>1, <2>2
<1>2. ASSUME NEW m \in 0..(n - 1), m \in T PROVE m + 1 \in T
  <2>1. PICK f : Upto(f, m)
    BY <1>2
  <2> DEFINE g == [f EXCEPT ![m + 1] = step[m + 1][f[m]]]
  <2>2. m + 1 \in 1..n /\ m \in 0..n /\ m + 1 \in 0..n /\ m \in Int
    OBVIOUS
  <2>3. step[m + 1][f[m]] \in S
    BY <2>1, <2>2 DEF IsLoop
  <2>4. g \in [0..n -> S]
    BY <2>1, <2>2, <2>3
  <2>5. g[0] = base
    BY <2>1, <2>2
  <2>6. g[m + 1] = step[m + 1][g[m]]
    BY <2>1, <2>2
  <2>7. \A i \in 1..m : g[i] = step[i][g[i - 1]]
    BY <2>1, <2>2
  <2> HIDE DEF g
  <2>8. ASSUME NEW i \in 1..(m + 1) PROVE g[i] = step[i][g[i - 1]]
    <3>1. CASE i = m + 1
      BY <2>6, <3>1, <2>2
    <3>2. CASE i # m + 1
      BY <2>7, <3>2, <2>2
    <3>3. QED
      BY <3>1, <3>2
  <2>9. QED
    BY <2>2, <2>4, <2>5, <2>8
<1>3. n \in T
  <2> HIDE DEF T
  <2>1. 0..n \subseteq T
    BY <1>1, <1>2, Induction
  <2>2. QED
    BY <2>1
<1>4. QED
  BY <1>3 DEF Runs

\* Two recursions with the same step have the same values.
LEMMA SameRecursion ==
    ASSUME NEW n \in Nat, NEW f, NEW g, f[0] = g[0],
           \A i \in 1..n : f[i - 1] = g[i - 1] => f[i] = g[i]
    PROVE  \A i \in 0..n : f[i] = g[i]
<1> DEFINE T == {i \in 0..n : f[i] = g[i]}
<1>1. 0 \in T
  OBVIOUS
<1>2. ASSUME NEW i \in 0..(n - 1), i \in T PROVE i + 1 \in T
  <2>1. i + 1 \in 1..n /\ (i + 1) - 1 = i /\ i + 1 \in 0..n
    OBVIOUS
  <2>2. f[i + 1] = g[i + 1]
    BY <1>2, <2>1
  <2>3. QED
    BY <2>1, <2>2
<1>3. 0..n \subseteq T
  <2> HIDE DEF T
  <2>1. QED
    BY <1>1, <1>2, Induction
<1>4. QED
  BY <1>3

\* What holds of the empty sequence, and of a sequence with one more element
\* if it holds of the sequence, holds of all sequences.
LEMMA SequenceInduction ==
    ASSUME NEW S, NEW T, <<>> \in T,
           \A q \in Seq(S), e \in S : q \in T => Append(q, e) \in T
    PROVE  Seq(S) \subseteq T
<1> SUFFICES ASSUME NEW q \in Seq(S) PROVE q \in T
  OBVIOUS
<1> DEFINE Cut(i) == SubSeq(q, 1, i)
           U == {i \in 0..Len(q) : Cut(i) \in T}
<1>1. Len(q) \in Nat
  OBVIOUS
<1>2. Cut(0) = <<>>
  BY SubSeqEmpty
<1>3. Cut(Len(q)) = q
  BY SubSeqFull
<1>4. ASSUME NEW i \in 0..(Len(q) - 1)
      PROVE  Cut(i) \in Seq(S) /\ Cut(i + 1) = Append(Cut(i), q[i + 1])
  <2>1. i + 1 \in 1..Len(q) /\ i \in Int /\ i \in 0..Len(q) /\ (i + 1) - 1 = i
    OBVIOUS
  <2>2. \A j \in 1..i : q[j] \in S
    BY <2>1
  <2>3. SubSeq(q, 1, i) \in Seq(S) /\ q[i + 1] \in S
    BY <2>1, <2>2, SubSeqProperties
  <2>4. SubSeq(q, 1, i + 1) = Append(SubSeq(q, 1, i), q[i + 1])
    BY <2>1, <2>3, SubSeqRecursiveSecond, AppendIsConcat
  <2>5. QED
    BY <2>3, <2>4
<1> HIDE DEF Cut
<1>5. 0 \in U
  BY <1>1, <1>2
<1>6. ASSUME NEW i \in 0..(Len(q) - 1), i \in U PROVE i + 1 \in U
  <2>1. i + 1 \in 1..Len(q) /\ i + 1 \in 0..Len(q) /\ q[i + 1] \in S
    BY <1>1
  <2>2. QED
    BY <1>4, <1>6, <2>1
<1>7. 0..Len(q) \subseteq U
  <2> HIDE DEF U
  <2>1. QED
    BY <1>1, <1>5, <1>6, Induction
<1>8. QED
  BY <1>1, <1>3, <1>7

-----------------------------------------------------------------------------
(* The loops of the model: what each is of the empty sequence, and what one *)
(* more element changes.                                                   *)

\* FlattenSeq as the iteration that its recursive function computes.
LEMMA FlattenIterates ==
    ASSUME NEW S, NEW q \in Seq(Seq(S))
    PROVE  \E h \in [0..Len(q) -> Seq(S)] :
              /\ h[0] = <<>>
              /\ \A i \in 1..Len(q) : h[i] = h[i - 1] \o q[i]
              /\ FlattenSeq(q) = h[Len(q)]
<1> DEFINE n == Len(q)
           V == Seq(S)
           step == [i \in 1..n |-> [s \in V |-> s \o q[i]]]
           body(f) == [i \in 1..n |-> IF i = 1 THEN q[i] ELSE f[i - 1] \o q[i]]
<1>1. n \in Nat /\ <<>> \in V
  OBVIOUS
<1>2. \A i \in 1..n : q[i] \in V
  OBVIOUS
<1>3. IsLoop(step, n, V)
  BY <1>2 DEF IsLoop
<1>4. PICK h : Runs(h, <<>>, step, n, V)
  <2> HIDE DEF n, V, step
  <2>1. QED
    BY <1>1, <1>3, Recursion
<1> USE DEF Runs
<1>5. \A i \in 1..n : h[i] = h[i - 1] \o q[i]
  <2> SUFFICES ASSUME NEW i \in 1..n PROVE h[i] = h[i - 1] \o q[i]
    OBVIOUS
  <2>1. i - 1 \in 0..n
    OBVIOUS
  <2>2. h[i - 1] \in V
    BY <1>4, <2>1
  <2>3. step[i][h[i - 1]] = h[i - 1] \o q[i]
    BY <2>2
  <2>4. QED
    BY <1>4, <2>3
<1>6. CASE n = 0
  <2>1. q = <<>>
    BY <1>6
  <2>2. FlattenSeq(q) = <<>>
    BY <2>1 DEF FlattenSeq
  <2>3. QED
    BY <1>4, <1>5, <1>6, <2>2
<1>7. CASE n # 0
  <2> DEFINE g == CHOOSE g : g = body(g)
             f == [i \in 0..n |-> IF i = 0 THEN <<>> ELSE g[i]]
             k == [i \in 1..n |-> h[i]]
  <2>1. k = body(k)
    <3>1. ASSUME NEW i \in 1..n PROVE h[i] = IF i = 1 THEN q[i] ELSE k[i - 1] \o q[i]
      <4>1. CASE i = 1
        <5>1. h[i] = <<>> \o q[i]
          <6>1. i - 1 = 0
            BY <4>1
          <6>2. QED
            BY <1>4, <1>5, <6>1
        <5>2. <<>> \o q[i] = q[i]
          BY <1>2, ConcatEmptySeq
        <5>3. QED
          BY <4>1, <5>1, <5>2
      <4>2. CASE i # 1
        <5>1. i - 1 \in 1..n
          BY <4>2
        <5>2. QED
          BY <1>5, <4>2, <5>1
      <4>3. QED
        BY <4>1, <4>2
    <3>2. QED
      BY <3>1
  <2>2. g = body(g)
    <3> HIDE DEF body, k
    <3>1. QED
      BY <2>1, Zenon
  <2>3. FlattenSeq(q) = g[n]
    BY <1>7 DEF FlattenSeq
  <2>4. f[0] = h[0]
    BY <1>4
  <2>5. ASSUME NEW i \in 1..n, f[i - 1] = h[i - 1] PROVE f[i] = h[i]
    <3>1. g[i] = IF i = 1 THEN q[i] ELSE g[i - 1] \o q[i]
      <4> HIDE DEF g
      <4>1. QED
        BY <2>2
    <3> HIDE DEF g
    <3>2. CASE i = 1
      <4>1. h[i] = q[i]
        <5>1. i - 1 = 0
          BY <3>2
        <5>2. h[i] = <<>> \o q[i]
          BY <1>4, <1>5, <5>1
        <5>3. <<>> \o q[i] = q[i]
          BY <1>2, ConcatEmptySeq
        <5>4. QED
          BY <5>2, <5>3
      <4>2. QED
        BY <3>1, <3>2, <4>1
    <3>3. CASE i # 1
      <4>1. f[i - 1] = g[i - 1] /\ f[i] = g[i]
        BY <3>3
      <4>2. QED
        BY <1>5, <2>5, <3>1, <3>3, <4>1
    <3>4. QED
      BY <3>2, <3>3
  <2>6. \A i \in 0..n : f[i] = h[i]
    <3> HIDE DEF f, n
    <3>1. QED
      BY <1>1, <2>4, <2>5, SameRecursion
  <2>7. f[n] = h[n] /\ f[n] = g[n]
    <3>1. n \in 0..n
      BY <1>1
    <3>2. f[n] = g[n]
      BY <1>7, <3>1
    <3>3. QED
      BY <2>6, <3>1, <3>2
  <2> HIDE DEF g, f, k
  <2>8. QED
    BY <1>4, <1>5, <2>3, <2>7
<1>8. QED
  BY <1>6, <1>7

\* The parts one after the other, and then one part more.
LEMMA FlattenAppend ==
    ASSUME NEW S, NEW q \in Seq(Seq(S)), NEW e \in Seq(S)
    PROVE  /\ FlattenSeq(<<>>) = <<>>
           /\ FlattenSeq(q) \in Seq(S)
           /\ FlattenSeq(Append(q, e)) = FlattenSeq(q) \o e
<1>1. FlattenSeq(<<>>) = <<>>
  BY DEF FlattenSeq
<1> DEFINE r == Append(q, e)
<1>0. PICK n \in Nat : n = Len(q)
  OBVIOUS
<1>2. n \in Nat /\ r \in Seq(Seq(S)) /\ Len(r) = n + 1
  BY <1>0
<1>3. r[n + 1] = e /\ \A i \in 1..n : r[i] = q[i]
  BY <1>0
<1>4. PICK h :
         /\ h \in [0..n -> Seq(S)]
         /\ h[0] = <<>>
         /\ \A i \in 1..n : h[i] = h[i - 1] \o q[i]
         /\ FlattenSeq(q) = h[n]
  BY <1>0, FlattenIterates
<1>5. PICK g :
         /\ g \in [0..(n + 1) -> Seq(S)]
         /\ g[0] = <<>>
         /\ \A i \in 1..(n + 1) : g[i] = g[i - 1] \o r[i]
         /\ FlattenSeq(r) = g[n + 1]
  <2> HIDE DEF r
  <2>1. QED
    BY <1>2, FlattenIterates
<1> HIDE DEF r
<1>6. \A i \in 0..n : g[i] = h[i]
  <2>1. ASSUME NEW i \in 1..n, g[i - 1] = h[i - 1] PROVE g[i] = h[i]
    <3>1. i \in 1..(n + 1)
      BY <1>2
    <3>2. QED
      BY <1>3, <1>4, <1>5, <2>1, <3>1
  <2>2. g[0] = h[0] /\ n \in Nat
    BY <1>2, <1>4, <1>5
  <2>3. n \in Nat
    BY <2>2
  <2>4. g[0] = h[0]
    BY <2>2
  <2>5. \A i \in 1..n : g[i - 1] = h[i - 1] => g[i] = h[i]
    BY <2>1
  <2>6. QED
    BY <2>3, <2>4, <2>5, SameRecursion, Zenon
<1>7. n \in 0..n /\ n + 1 \in 1..(n + 1) /\ (n + 1) - 1 = n
  BY <1>2
<1>8. g[n + 1] = h[n] \o e
  BY <1>3, <1>5, <1>6, <1>7
<1>9. QED
  BY <1>1, <1>4, <1>5, <1>7, <1>8 DEF r

\* uniqueStrings as the loop over the values.
LEMMA UniqueIterates ==
    ASSUME NEW S, NEW q \in Seq(S)
    PROVE  \E h :
              /\ h \in [0..Len(q) -> Seq(S)]
              /\ h[0] = <<>>
              /\ \A i \in 1..Len(q) :
                    h[i] = IF Contains(h[i - 1], q[i]) THEN h[i - 1] ELSE Append(h[i - 1], q[i])
              /\ uniqueStrings(q) = h[Len(q)]
<1> DEFINE n == Len(q)
           V == Seq(S)
           Step(s, e) == IF Contains(s, e) THEN s ELSE Append(s, e)
           step == [i \in 1..n |-> [s \in V |-> Step(s, q[i])]]
           body(f) == [i \in 0..n |->
                          LET seen == f[i - 1] IN
                          IF i = 0 THEN <<>>
                          ELSE IF Contains(seen, q[i]) THEN seen ELSE Append(seen, q[i])]
<1>1. n \in Nat
  OBVIOUS
<1>2. \A s \in V, i \in 1..n : Step(s, q[i]) \in V
  <2>1. \A s \in V, e \in S : Append(s, e) \in V
    OBVIOUS
  <2>2. \A i \in 1..n : q[i] \in S
    OBVIOUS
  <2> HIDE DEF V, n
  <2>3. QED
    BY <2>1, <2>2
<1>3. IsLoop(step, n, V)
  <2> HIDE DEF V, n, Step
  <2>1. QED
    BY <1>2 DEF IsLoop
<1>4. PICK h : Runs(h, <<>>, step, n, V)
  <2>1. <<>> \in V
    OBVIOUS
  <2> HIDE DEF n, V, step
  <2>2. QED
    BY <1>1, <1>3, <2>1, Recursion
<1> USE DEF Runs
<1>5. \A i \in 1..n : h[i] = Step(h[i - 1], q[i])
  <2> SUFFICES ASSUME NEW i \in 1..n PROVE h[i] = Step(h[i - 1], q[i])
    OBVIOUS
  <2>1. i - 1 \in 0..n
    OBVIOUS
  <2> HIDE DEF V, n, Step
  <2>2. h[i - 1] \in V
    BY <1>4, <2>1
  <2>3. step[i][h[i - 1]] = Step(h[i - 1], q[i])
    BY <2>2
  <2> HIDE DEF step
  <2>4. QED
    BY <1>4, <2>3
<1> DEFINE f == CHOOSE f : f = body(f)
<1>6. h = body(h)
  <2>1. h = [i \in 0..n |-> h[i]]
    BY <1>4
  <2>2. \A i \in 0..n : h[i] = IF i = 0 THEN <<>> ELSE Step(h[i - 1], q[i])
    <3> HIDE DEF Step, n
    <3>1. \A i \in 0..n : i = 0 \/ i \in 1..n
      BY <1>1
    <3>2. QED
      BY <1>4, <1>5, <3>1
  <2>3. QED
    BY <2>1, <2>2
<1>7. f = body(f)
  <2> HIDE DEF body
  <2>1. QED
    BY <1>6, Zenon
<1>8. uniqueStrings(q) = f[n]
  BY DEF uniqueStrings
<1> HIDE DEF f
<1>9. \A i \in 0..n : f[i] = h[i]
  <2>1. f[0] = h[0]
    <3>1. 0 \in 0..n
      BY <1>1
    <3>2. f[0] = <<>>
      BY <1>7, <3>1
    <3>3. QED
      BY <1>4, <3>2
  <2>2. ASSUME NEW i \in 1..n, f[i - 1] = h[i - 1] PROVE f[i] = h[i]
    <3>1. i \in 0..n /\ i # 0
      OBVIOUS
    <3>2. f[i] = Step(f[i - 1], q[i])
      BY <1>7, <3>1
    <3> HIDE DEF Step
    <3>3. QED
      BY <1>5, <2>2, <3>2
  <2> HIDE DEF n
  <2>3. QED
    BY <1>1, <2>1, <2>2, SameRecursion
<1>10. uniqueStrings(q) = h[n]
  BY <1>1, <1>8, <1>9
<1>11. QED
  BY <1>4, <1>5, <1>10

\* uniqueStrings of one value more: it is added unless it is there.
LEMMA UniqueAppend ==
    ASSUME NEW S, NEW q \in Seq(S), NEW e \in S
    PROVE  /\ uniqueStrings(<<>>) = <<>>
           /\ uniqueStrings(q) \in Seq(S)
           /\ uniqueStrings(Append(q, e)) =
                 IF Contains(uniqueStrings(q), e) THEN uniqueStrings(q)
                 ELSE Append(uniqueStrings(q), e)
<1> DEFINE r == Append(q, e)
           Step(s, d) == IF Contains(s, d) THEN s ELSE Append(s, d)
<1>1. PICK n \in Nat : n = Len(q)
  OBVIOUS
<1>2. r \in Seq(S) /\ Len(r) = n + 1
  BY <1>1
<1>3. r[n + 1] = e /\ \A i \in 1..n : r[i] = q[i]
  BY <1>1
<1>4. PICK h :
         /\ h \in [0..n -> Seq(S)]
         /\ h[0] = <<>>
         /\ \A i \in 1..n : h[i] = Step(h[i - 1], q[i])
         /\ uniqueStrings(q) = h[n]
  BY <1>1, UniqueIterates
<1>5. PICK g :
         /\ g \in [0..(n + 1) -> Seq(S)]
         /\ g[0] = <<>>
         /\ \A i \in 1..(n + 1) : g[i] = Step(g[i - 1], r[i])
         /\ uniqueStrings(r) = g[n + 1]
  <2> HIDE DEF r
  <2>1. QED
    BY <1>2, UniqueIterates
<1> HIDE DEF r, Step
<1>6. \A i \in 0..n : g[i] = h[i]
  <2>1. ASSUME NEW i \in 1..n, g[i - 1] = h[i - 1] PROVE g[i] = h[i]
    <3>1. i \in 1..(n + 1)
      BY <1>2
    <3>2. QED
      BY <1>3, <1>4, <1>5, <2>1, <3>1
  <2>2. g[0] = h[0]
    BY <1>4, <1>5
  <2>3. QED
    BY <2>1, <2>2, SameRecursion, Zenon
<1>7. n \in 0..n /\ n + 1 \in 1..(n + 1) /\ (n + 1) - 1 = n
  OBVIOUS
<1>8. g[n + 1] = Step(h[n], e)
  BY <1>3, <1>5, <1>6, <1>7
<1>9. uniqueStrings(<<>>) = <<>>
  <2>1. <<>> \in Seq(S) /\ Len(<<>>) = 0
    OBVIOUS
  <2>2. PICK k : k[0] = <<>> /\ uniqueStrings(<<>>) = k[0]
    BY <2>1, UniqueIterates
  <2>3. QED
    BY <2>2
<1>10. QED
  BY <1>4, <1>5, <1>7, <1>8, <1>9 DEF r, Step

\* What the loop over the bytes keeps, and what it makes of one byte more.
ScanStates == [current : Seq(Nat), strings : Seq(Seq(Nat))]

NothingScanned == [current |-> <<>>, strings |-> <<>>]

ScanByte(s, b) ==
    IF Printable(b) THEN [s EXCEPT !.current = Append(@, b)] ELSE Flush(s)

\* The state of the scan after a byte.
LEMMA ScanByteType ==
    ASSUME NEW s \in ScanStates, NEW b \in Nat
    PROVE  /\ NothingScanned \in ScanStates
           /\ Flush(s) \in ScanStates
           /\ ScanByte(s, b) \in ScanStates
<1>1. NothingScanned \in ScanStates
  BY DEF NothingScanned, ScanStates
<1>2. s.current \in Seq(Nat) /\ s.strings \in Seq(Seq(Nat))
  BY DEF ScanStates
<1>3. /\ Append(s.current, b) \in Seq(Nat)
      /\ Append(s.strings, s.current) \in Seq(Seq(Nat))
      /\ <<>> \in Seq(Nat)
  BY <1>2
<1>4. Flush(s) \in ScanStates
  <2> DEFINE kept == IF Len(s.current) >= 6 THEN Append(s.strings, s.current) ELSE s.strings
  <2>1. kept \in Seq(Seq(Nat))
    BY <1>2, <1>3
  <2>2. Flush(s) = [current |-> <<>>, strings |-> kept]
    BY DEF Flush
  <2> HIDE DEF kept
  <2>3. QED
    BY <1>3, <2>1, <2>2 DEF ScanStates
<1>5. [s EXCEPT !.current = Append(@, b)] \in ScanStates
  BY <1>3 DEF ScanStates
<1>6. QED
  BY <1>1, <1>4, <1>5 DEF ScanByte

\* Scan as the loop over the bytes.
LEMMA ScanIterates ==
    ASSUME NEW q \in Seq(Nat)
    PROVE  \E h :
              /\ h \in [0..Len(q) -> ScanStates]
              /\ h[0] = NothingScanned
              /\ \A i \in 1..Len(q) : h[i] = ScanByte(h[i - 1], q[i])
              /\ Scan(q) = h[Len(q)]
<1> DEFINE n == Len(q)
           step == [i \in 1..n |-> [s \in ScanStates |-> ScanByte(s, q[i])]]
           body(f) == [i \in 0..n |->
                          LET before == f[i - 1] IN
                          IF i = 0 THEN [current |-> <<>>, strings |-> <<>>]
                          ELSE IF Printable(q[i])
                               THEN [before EXCEPT !.current = Append(@, q[i])]
                               ELSE Flush(before)]
<1>1. n \in Nat
  OBVIOUS
<1>2. \A s \in ScanStates, i \in 1..n : ScanByte(s, q[i]) \in ScanStates
  <2>1. \A i \in 1..n : q[i] \in Nat
    OBVIOUS
  <2> HIDE DEF n
  <2>2. QED
    BY <2>1, ScanByteType
<1>3. IsLoop(step, n, ScanStates)
  <2> HIDE DEF n
  <2>1. QED
    BY <1>2 DEF IsLoop
<1>4. PICK h : Runs(h, NothingScanned, step, n, ScanStates)
  <2>1. NothingScanned \in ScanStates
    BY DEF NothingScanned, ScanStates
  <2> HIDE DEF n, step
  <2>2. QED
    BY <1>1, <1>3, <2>1, Recursion
<1> USE DEF Runs
<1>5. \A i \in 1..n : h[i] = ScanByte(h[i - 1], q[i])
  <2> SUFFICES ASSUME NEW i \in 1..n PROVE h[i] = ScanByte(h[i - 1], q[i])
    OBVIOUS
  <2>1. i - 1 \in 0..n
    OBVIOUS
  <2> HIDE DEF n
  <2>2. h[i - 1] \in ScanStates
    BY <1>4, <2>1
  <2>3. step[i][h[i - 1]] = ScanByte(h[i - 1], q[i])
    BY <2>2
  <2> HIDE DEF step
  <2>4. QED
    BY <1>4, <2>3
<1> DEFINE f == CHOOSE f : f = body(f)
<1>6. h = body(h)
  <2>1. h = [i \in 0..n |-> h[i]]
    BY <1>4
  <2>2. \A i \in 0..n : h[i] = IF i = 0 THEN NothingScanned ELSE ScanByte(h[i - 1], q[i])
    <3> HIDE DEF n
    <3>1. \A i \in 0..n : i = 0 \/ i \in 1..n
      BY <1>1
    <3>2. QED
      BY <1>4, <1>5, <3>1
  <2>3. QED
    BY <2>1, <2>2 DEF NothingScanned, ScanByte
<1>7. f = body(f)
  <2> HIDE DEF body
  <2>1. QED
    BY <1>6, Zenon
<1>8. Scan(q) = f[n]
  BY DEF Scan
<1> HIDE DEF f
<1>9. \A i \in 0..n : f[i] = h[i]
  <2>1. f[0] = h[0]
    <3>1. 0 \in 0..n
      BY <1>1
    <3>2. f[0] = NothingScanned
      BY <1>7, <3>1 DEF NothingScanned
    <3>3. QED
      BY <1>4, <3>2
  <2>2. ASSUME NEW i \in 1..n, f[i - 1] = h[i - 1] PROVE f[i] = h[i]
    <3>1. i \in 0..n /\ i # 0
      OBVIOUS
    <3>2. f[i] = ScanByte(f[i - 1], q[i])
      BY <1>7, <3>1 DEF ScanByte
    <3>3. QED
      BY <1>5, <2>2, <3>2
  <2> HIDE DEF n
  <2>3. QED
    BY <1>1, <2>1, <2>2, SameRecursion
<1>10. Scan(q) = h[n]
  BY <1>1, <1>8, <1>9
<1>11. QED
  BY <1>4, <1>5, <1>10

\* The scan of one byte more is a step of the loop.
LEMMA ScanAppend ==
    ASSUME NEW q \in Seq(Nat), NEW e \in Nat
    PROVE  /\ Scan(<<>>) = NothingScanned
           /\ Scan(q) \in ScanStates
           /\ Scan(Append(q, e)) = ScanByte(Scan(q), e)
<1> DEFINE r == Append(q, e)
<1>1. PICK n \in Nat : n = Len(q)
  OBVIOUS
<1>2. r \in Seq(Nat) /\ Len(r) = n + 1
  BY <1>1
<1>3. r[n + 1] = e /\ \A i \in 1..n : r[i] = q[i]
  BY <1>1
<1>4. PICK h :
         /\ h \in [0..n -> ScanStates]
         /\ h[0] = NothingScanned
         /\ \A i \in 1..n : h[i] = ScanByte(h[i - 1], q[i])
         /\ Scan(q) = h[n]
  BY <1>1, ScanIterates
<1>5. PICK g :
         /\ g \in [0..(n + 1) -> ScanStates]
         /\ g[0] = NothingScanned
         /\ \A i \in 1..(n + 1) : g[i] = ScanByte(g[i - 1], r[i])
         /\ Scan(r) = g[n + 1]
  <2> HIDE DEF r
  <2>1. QED
    BY <1>2, ScanIterates
<1> HIDE DEF r
<1>6. \A i \in 0..n : g[i] = h[i]
  <2>1. ASSUME NEW i \in 1..n, g[i - 1] = h[i - 1] PROVE g[i] = h[i]
    <3>1. i \in 1..(n + 1)
      BY <1>2
    <3>2. QED
      BY <1>3, <1>4, <1>5, <2>1, <3>1
  <2>2. g[0] = h[0]
    BY <1>4, <1>5
  <2>3. QED
    BY <2>1, <2>2, SameRecursion, Zenon
<1>7. n \in 0..n /\ n + 1 \in 1..(n + 1) /\ (n + 1) - 1 = n
  OBVIOUS
<1>8. g[n + 1] = ScanByte(h[n], e)
  BY <1>3, <1>5, <1>6, <1>7
<1>9. Scan(<<>>) = NothingScanned
  <2>1. <<>> \in Seq(Nat) /\ Len(<<>>) = 0
    OBVIOUS
  <2>2. PICK k : k[0] = NothingScanned /\ Scan(<<>>) = k[0]
    BY <2>1, ScanIterates
  <2>3. QED
    BY <2>2
<1>10. QED
  BY <1>4, <1>5, <1>7, <1>8, <1>9 DEF r

-----------------------------------------------------------------------------
(* The strings that are found *)

\* The elements of a sequence and one element more.
LEMMA ToSetAppend ==
    ASSUME NEW S, NEW q \in Seq(S), NEW e \in S
    PROVE  /\ ToSet(<<>>) = {}
           /\ ToSet(q) \subseteq S
           /\ ToSet(Append(q, e)) = ToSet(q) \cup {e}
<1>1. PICK n \in Nat : n = Len(q) /\ DOMAIN q = 1..n
  OBVIOUS
<1> DEFINE r == Append(q, e)
<1>2. DOMAIN r = 1..(n + 1) /\ r[n + 1] = e /\ \A i \in 1..n : r[i] = q[i]
  BY <1>1
<1>3. ToSet(r) = ToSet(q) \cup {e}
  <2> HIDE DEF r
  <2>1. \A i \in 1..(n + 1) : i \in 1..n \/ i = n + 1
    OBVIOUS
  <2>2. n + 1 \in 1..(n + 1) /\ \A i \in 1..n : i \in 1..(n + 1)
    OBVIOUS
  <2>3. QED
    BY <1>1, <1>2, <2>1, <2>2 DEF ToSet
<1>4. ToSet(<<>>) = {} /\ ToSet(q) \subseteq S
  BY DEF ToSet
<1>5. QED
  BY <1>3, <1>4

\* Contains is membership in the set of the elements.
LEMMA ContainsToSet ==
    ASSUME NEW S, NEW q \in Seq(S), NEW e
    PROVE  Contains(q, e) <=> e \in ToSet(q)
<1>1. DOMAIN q = 1..Len(q)
  OBVIOUS
<1>2. QED
  BY <1>1 DEF Contains, ToSet

\* uniqueStrings keeps every value, and keeps it once.
LEMMA UniqueProperties ==
    ASSUME NEW S, NEW q \in Seq(S)
    PROVE  /\ ToSet(uniqueStrings(q)) = ToSet(q)
           /\ IsInjective(uniqueStrings(q))
<1> DEFINE Good(v) ==
              /\ ToSet(uniqueStrings(v)) = ToSet(v)
              /\ IsInjective(uniqueStrings(v))
           T == {v \in Seq(S) : Good(v)}
<1>1. ASSUME NEW v \in Seq(S), NEW e \in S, v \in T PROVE Append(v, e) \in T
  <2> DEFINE u == uniqueStrings(v)
             w == uniqueStrings(Append(v, e))
  <2>1. u \in Seq(S) /\ w = IF Contains(u, e) THEN u ELSE Append(u, e)
    BY UniqueAppend
  <2>2. ToSet(u) = ToSet(v) /\ IsInjective(u)
    BY <1>1
  <2> HIDE DEF u, w
  <2>3. ToSet(w) = ToSet(Append(v, e))
    <3>1. ToSet(Append(v, e)) = ToSet(v) \cup {e}
      BY ToSetAppend
    <3>2. ToSet(Append(u, e)) = ToSet(u) \cup {e}
      BY <2>1, ToSetAppend
    <3>3. Contains(u, e) <=> e \in ToSet(u)
      BY <2>1, ContainsToSet
    <3>4. QED
      BY <2>1, <2>2, <3>1, <3>2, <3>3
  <2>4. IsInjective(w)
    <3>1. CASE Contains(u, e)
      BY <2>1, <2>2, <3>1
    <3>2. CASE ~Contains(u, e)
      <4>1. PICK n \in Nat : n = Len(u) /\ DOMAIN u = 1..n
        BY <2>1
      <4>2. DOMAIN w = 1..(n + 1) /\ w[n + 1] = e /\ \A i \in 1..n : w[i] = u[i]
        BY <2>1, <3>2, <4>1
      <4>3. \A i \in 1..n : u[i] # e
        BY <3>2, <4>1 DEF Contains
      <4>4. \A i \in 1..(n + 1) : i \in 1..n \/ i = n + 1
        OBVIOUS
      <4>5. QED
        BY <2>2, <4>1, <4>2, <4>3, <4>4 DEF IsInjective
    <3>3. QED
      BY <3>1, <3>2
  <2>5. Append(v, e) \in Seq(S)
    OBVIOUS
  <2>6. QED
    BY <2>3, <2>4, <2>5 DEF w
<1>2. <<>> \in T
  <2>1. uniqueStrings(<<>>) = <<>>
    <3>1. CASE S = {}
      <4>1. <<>> \in Seq(S) /\ Len(<<>>) = 0
        OBVIOUS
      <4>2. PICK k : k[0] = <<>> /\ uniqueStrings(<<>>) = k[0]
        BY <4>1, UniqueIterates
      <4>3. QED
        BY <4>2
    <3>2. CASE S # {}
      <4>1. PICK e : e \in S
        BY <3>2
      <4>2. <<>> \in Seq(S)
        OBVIOUS
      <4>3. QED
        BY <4>1, <4>2, UniqueAppend
    <3>3. QED
      BY <3>1, <3>2
  <2>2. DOMAIN <<>> = {} /\ <<>> \in Seq(S)
    OBVIOUS
  <2>3. QED
    BY <2>1, <2>2 DEF IsInjective
<1>3. Seq(S) \subseteq T
  <2> HIDE DEF T
  <2>1. QED
    BY <1>1, <1>2, SequenceInduction
<1>4. QED
  BY <1>3

\* A run of printable bytes of q, from i to j, which has at least six bytes and
\* does not go on to the left.
IsRun(q, i, j) ==
    /\ i \in 1..Len(q) /\ j \in 1..Len(q) /\ j >= i + 5
    /\ \A n \in i..j : Printable(q[n])
    /\ i = 1 \/ ~Printable(q[i - 1])

\* x is such a run, and the byte after it was read.
ClosedRun(q, x) ==
    \E i, j \in 1..Len(q) :
        IsRun(q, i, j) /\ j < Len(q) /\ ~Printable(q[j + 1]) /\ x = SubSeq(q, i, j)

\* What q ends with: its last printable bytes, from a on.
IsTail(q, a) ==
    /\ a \in 1..(Len(q) + 1)
    /\ \A n \in a..Len(q) : Printable(q[n])
    /\ a = 1 \/ ~Printable(q[a - 1])

ScanInv(q) ==
    /\ \A x : x \in ToSet(Scan(q).strings) <=> ClosedRun(q, x)
    /\ \E a : IsTail(q, a) /\ Scan(q).current = SubSeq(q, a, Len(q))

\* A part of a sequence is a part of the sequence with one more element.
LEMMA SubSeqAppend ==
    ASSUME NEW S, NEW q \in Seq(S), NEW e \in S,
           NEW i \in 1..(Len(q) + 1), NEW j \in 0..Len(q)
    PROVE  SubSeq(Append(q, e), i, j) = SubSeq(q, i, j)
<1> DEFINE r == Append(q, e)
<1>1. PICK n : n \in Nat /\ n = Len(q)
  OBVIOUS
<1>2. i \in Int /\ j \in Int /\ 1 =< i /\ j =< n
  BY <1>1
<1>3. \A k \in 1..n : q[k] \in S /\ r[k] = q[k]
  BY <1>1
<1> HIDE DEF r
<1>4. \A k \in i..j : q[k] \in S /\ r[k] \in S
  BY <1>1, <1>2, <1>3
<1>5. /\ SubSeq(q, i, j) \in Seq(S)
      /\ Len(SubSeq(q, i, j)) = IF i <= j THEN j - i + 1 ELSE 0
      /\ \A k \in 1..j - i + 1 : SubSeq(q, i, j)[k] = q[i + k - 1]
  BY <1>2, <1>4, SubSeqProperties
<1>6. /\ SubSeq(r, i, j) \in Seq(S)
      /\ Len(SubSeq(r, i, j)) = IF i <= j THEN j - i + 1 ELSE 0
      /\ \A k \in 1..j - i + 1 : SubSeq(r, i, j)[k] = r[i + k - 1]
  BY <1>2, <1>4, SubSeqProperties
<1>7. ASSUME NEW k \in 1..Len(SubSeq(r, i, j)) PROVE SubSeq(r, i, j)[k] = SubSeq(q, i, j)[k]
  <2>1. k \in 1..j - i + 1 /\ i + k - 1 \in 1..n
    BY <1>1, <1>2, <1>6
  <2>2. QED
    BY <1>3, <1>5, <1>6, <2>1
<1>8. SubSeq(r, i, j) = SubSeq(q, i, j)
  <2> DEFINE s == SubSeq(r, i, j)
             u == SubSeq(q, i, j)
  <2>1. s \in Seq(S) /\ u \in Seq(S) /\ Len(s) = Len(u) /\ \A k \in 1..Len(s) : s[k] = u[k]
    BY <1>5, <1>6, <1>7
  <2> HIDE DEF s, u
  <2>2. s = u
    BY <2>1, SeqEqual
  <2>3. QED
    BY <2>2 DEF s, u
<1>9. QED
  BY <1>8 DEF r

\* One byte more, in the terms of the runs.
LEMMA RunsAppend ==
    ASSUME NEW q \in Seq(Nat), NEW b \in Nat, NEW a, IsTail(q, a), NEW x
    PROVE  LET r == Append(q, b)
               n == Len(q)
           IN  /\ Printable(b) =>
                     /\ ClosedRun(r, x) <=> ClosedRun(q, x)
                     /\ IsTail(r, a)
                     /\ SubSeq(r, a, n + 1) = Append(SubSeq(q, a, n), b)
               /\ ~Printable(b) =>
                     /\ ClosedRun(r, x) <=>
                           ClosedRun(q, x) \/ (n >= a + 5 /\ x = SubSeq(q, a, n))
                     /\ IsTail(r, n + 2)
                     /\ SubSeq(r, n + 2, n + 1) = <<>>
<1> DEFINE r == Append(q, b)
<1>1. PICK n : n \in Nat /\ n = Len(q)
  OBVIOUS
<1>2. Len(r) = n + 1 /\ r[n + 1] = b /\ r \in Seq(Nat)
  BY <1>1
<1>3. \A k \in 1..n : r[k] = q[k]
  BY <1>1
<1>4. \A i \in 1..(n + 1), j \in 0..n : SubSeq(r, i, j) = SubSeq(q, i, j)
  BY <1>1, SubSeqAppend
<1>5. /\ a \in 1..(n + 1)
      /\ \A k \in a..n : Printable(q[k])
      /\ a = 1 \/ ~Printable(q[a - 1])
  BY <1>1 DEF IsTail
<1>6. SubSeq(r, a, n + 1) = Append(SubSeq(q, a, n), b)
  <2>1. a \in 1..Len(r) /\ n + 1 \in a..Len(r) /\ (n + 1) - 1 = n /\ n \in 0..n
    BY <1>1, <1>2, <1>5
  <2> DEFINE s == SubSeq(r, a, n)
  <2>2. SubSeq(r, a, n + 1) = s \o <<r[n + 1]>>
    BY <1>2, <2>1, SubSeqRecursiveSecond
  <2>3. \A k \in a..n : q[k] \in Nat
    BY <1>1, <1>5
  <2>4. s = SubSeq(q, a, n)
    BY <1>4, <1>5, <2>1
  <2>5. SubSeq(q, a, n) \in Seq(Nat)
    BY <1>1, <1>5, <2>3, SubSeqProperties
  <2>6. s \in Seq(Nat)
    BY <2>4, <2>5
  <2> HIDE DEF s, r
  <2>7. s \o <<b>> = Append(s, b)
    BY <2>6, AppendIsConcat
  <2>8. QED
    BY <1>2, <2>2, <2>4, <2>7
<1>7. \A m \in 1..(n + 1) : m \in 1..n \/ m = n + 1
  BY <1>1
<1> HIDE DEF r
\* A run of r that ends before its last byte is a run of q.
<1>8. ASSUME NEW i \in 1..(n + 1), NEW j \in 1..n
      PROVE  IsRun(r, i, j) <=> IsRun(q, i, j)
  <2>1. IsRun(q, i, j) <=> /\ i \in 1..n /\ j \in 1..n /\ j >= i + 5
                           /\ \A m \in i..j : Printable(q[m])
                           /\ i = 1 \/ ~Printable(q[i - 1])
    BY <1>1 DEF IsRun
  <2>2. IsRun(r, i, j) <=> /\ i \in 1..(n + 1) /\ j \in 1..(n + 1) /\ j >= i + 5
                           /\ \A m \in i..j : Printable(r[m])
                           /\ i = 1 \/ ~Printable(r[i - 1])
    BY <1>2 DEF IsRun
  <2>3. j >= i + 5 => i \in 1..n /\ \A m \in i..j : m \in 1..n
    BY <1>1
  <2>4. j >= i + 5 /\ i # 1 => i - 1 \in 1..n
    BY <1>1
  <2>5. j \in 1..(n + 1)
    BY <1>1
  <2>6. j >= i + 5 => \A m \in i..j : r[m] = q[m]
    BY <1>3, <2>3
  <2>7. j >= i + 5 /\ i # 1 => r[i - 1] = q[i - 1]
    BY <1>3, <2>4
  <2>8. QED
    BY <2>1, <2>2, <2>3, <2>5, <2>6, <2>7
<1>9. ClosedRun(r, x) <=>
        \E i \in 1..(n + 1), j \in 1..n :
            IsRun(q, i, j) /\ ~Printable(r[j + 1]) /\ x = SubSeq(q, i, j)
  <2>1. ClosedRun(r, x) <=>
          \E i, j \in 1..(n + 1) :
              IsRun(r, i, j) /\ j < n + 1 /\ ~Printable(r[j + 1]) /\ x = SubSeq(r, i, j)
    BY <1>2 DEF ClosedRun
  <2>2. \A j \in 1..(n + 1) : j < n + 1 <=> j \in 1..n
    BY <1>1
  <2>3. \A j \in 1..n : j \in 1..(n + 1) /\ j \in 0..n
    BY <1>1
  <2>4. QED
    BY <1>4, <1>8, <2>1, <2>2, <2>3
<1>10. ClosedRun(q, x) <=>
        \E i \in 1..(n + 1), j \in 1..n :
            IsRun(q, i, j) /\ j < n /\ ~Printable(r[j + 1]) /\ x = SubSeq(q, i, j)
  <2>1. ClosedRun(q, x) <=>
          \E i, j \in 1..n :
              IsRun(q, i, j) /\ j < n /\ ~Printable(q[j + 1]) /\ x = SubSeq(q, i, j)
    BY <1>1 DEF ClosedRun
  <2>2. \A j \in 1..n : j < n => j + 1 \in 1..n
    BY <1>1
  <2>3. \A j \in 1..n : j < n => r[j + 1] = q[j + 1]
    BY <1>3, <2>2
  <2>4. \A i, j : IsRun(q, i, j) => i \in 1..n
    BY <1>1 DEF IsRun
  <2>5. \A i \in 1..n : i \in 1..(n + 1)
    BY <1>1
  <2>6. QED
    BY <2>1, <2>3, <2>4, <2>5
<1>11. CASE Printable(b)
  <2>1. \A j \in 1..n : ~Printable(r[j + 1]) => j < n
    <3>1. \A j \in 1..n : j < n \/ j = n
      BY <1>1
    <3>2. QED
      BY <1>2, <1>11, <3>1
  <2>2. ClosedRun(r, x) <=> ClosedRun(q, x)
    BY <1>9, <1>10, <2>1
  <2>3. IsTail(r, a)
    <3>1. a \in 1..((n + 1) + 1)
      BY <1>1, <1>5
    <3>2. \A k \in a..(n + 1) : Printable(r[k])
      <4>1. \A k \in a..(n + 1) : (k \in a..n /\ k \in 1..n) \/ k = n + 1
        BY <1>1, <1>5
      <4>2. QED
        BY <1>2, <1>3, <1>5, <1>11, <4>1
    <3>3. a = 1 \/ ~Printable(r[a - 1])
      <4>1. a # 1 => a - 1 \in 1..n
        BY <1>1, <1>5
      <4>2. QED
        BY <1>3, <1>5, <4>1
    <3>4. QED
      BY <1>2, <3>1, <3>2, <3>3 DEF IsTail
  <2>4. QED
    BY <1>1, <1>6, <1>11, <2>2, <2>3 DEF r
<1>12. CASE ~Printable(b)
  <2>1. \A i \in 1..(n + 1) :
            n >= 1 /\ IsRun(q, i, n) <=> i = a /\ n >= a + 5
    <3> SUFFICES ASSUME NEW i \in 1..(n + 1)
                 PROVE  n >= 1 /\ IsRun(q, i, n) <=> i = a /\ n >= a + 5
      OBVIOUS
    <3>1. ASSUME i = a, n >= a + 5 PROVE n >= 1 /\ IsRun(q, i, n)
      <4>1. i \in 1..n /\ n \in 1..n /\ n >= i + 5
        BY <1>1, <1>5, <3>1
      <4>2. QED
        BY <1>1, <1>5, <3>1, <4>1 DEF IsRun
    <3>2. ASSUME n >= 1, IsRun(q, i, n) PROVE i = a /\ n >= a + 5
      <4>1. /\ n >= i + 5
            /\ \A m \in i..n : Printable(q[m])
            /\ i = 1 \/ ~Printable(q[i - 1])
        BY <3>2 DEF IsRun
      <4>2. CASE i < a
        <5>1. a - 1 \in i..n /\ a # 1
          BY <1>1, <1>5, <4>2
        <5>2. QED
          BY <1>5, <4>1, <5>1
      <4>3. CASE a < i
        <5>1. i - 1 \in a..n /\ i # 1
          BY <1>1, <1>5, <4>3
        <5>2. QED
          BY <1>5, <4>1, <5>1
      <4>4. QED
        BY <1>1, <1>5, <4>1, <4>2, <4>3
    <3>3. QED
      BY <3>1, <3>2
  <2>2. ClosedRun(r, x) <=> ClosedRun(q, x) \/ (n >= a + 5 /\ x = SubSeq(q, a, n))
    <3>1. ASSUME ClosedRun(r, x)
          PROVE  ClosedRun(q, x) \/ (n >= a + 5 /\ x = SubSeq(q, a, n))
      <4>1. PICK i \in 1..(n + 1), j \in 1..n :
                IsRun(q, i, j) /\ ~Printable(r[j + 1]) /\ x = SubSeq(q, i, j)
        BY <1>9, <3>1
      <4>2. CASE j < n
        BY <1>10, <4>1, <4>2
      <4>3. CASE j = n
        <5>1. n >= 1
          BY <1>1, <4>3
        <5>2. i = a /\ n >= a + 5
          BY <2>1, <4>1, <4>3, <5>1
        <5>3. QED
          BY <4>1, <4>3, <5>2
      <4>4. QED
        BY <1>1, <4>2, <4>3
    <3>2. ASSUME n >= a + 5, x = SubSeq(q, a, n) PROVE ClosedRun(r, x)
      <4>1. n \in 1..n /\ IsRun(q, a, n)
        BY <1>1, <1>5, <2>1, <3>2
      <4>2. ~Printable(r[n + 1])
        BY <1>2, <1>12
      <4>3. QED
        BY <1>5, <1>9, <3>2, <4>1, <4>2
    <3>3. ClosedRun(q, x) => ClosedRun(r, x)
      BY <1>9, <1>10
    <3>4. QED
      BY <3>1, <3>2, <3>3
  <2>3. IsTail(r, n + 2)
    <3>1. n + 2 \in 1..((n + 1) + 1) /\ (n + 2) - 1 = n + 1
      BY <1>1
    <3>2. \A k \in (n + 2)..(n + 1) : FALSE
      BY <1>1
    <3>3. QED
      BY <1>2, <1>12, <3>1, <3>2 DEF IsTail
  <2>4. SubSeq(r, n + 2, n + 1) = <<>>
    BY <1>1, SubSeqEmpty
  <2>5. QED
    BY <1>1, <1>12, <2>2, <2>3, <2>4 DEF r
<1>13. QED
  BY <1>11, <1>12

\* The scan has listed the runs that have ended and holds the one that has not.
LEMMA ScanFindsRuns == \A q \in Seq(Nat) : ScanInv(q)
<1> DEFINE T == {q \in Seq(Nat) : ScanInv(q)}
<1>1. <<>> \in T
  <2>1. Scan(<<>>) = NothingScanned
    <3>1. PICK e : e \in Nat /\ e = 0
      OBVIOUS
    <3>2. <<>> \in Seq(Nat)
      OBVIOUS
    <3>3. QED
      BY <3>1, <3>2, ScanAppend
  <2>2. Scan(<<>>).strings = <<>> /\ Scan(<<>>).current = <<>>
    BY <2>1 DEF NothingScanned
  <2>3. Len(<<>>) = 0 /\ DOMAIN <<>> = {} /\ <<>> \in Seq(Nat)
    OBVIOUS
  <2>4. ToSet(<<>>) = {}
    BY DEF ToSet
  <2>5. \A x : ~ClosedRun(<<>>, x)
    BY <2>3 DEF ClosedRun
  <2>6. IsTail(<<>>, 1)
    BY <2>3 DEF IsTail
  <2>7. SubSeq(<<>>, 1, Len(<<>>)) = <<>>
    BY <2>3, SubSeqEmpty
  <2>8. QED
    BY <2>2, <2>3, <2>4, <2>5, <2>6, <2>7 DEF ScanInv
<1>2. ASSUME NEW q \in Seq(Nat), NEW b \in Nat, q \in T PROVE Append(q, b) \in T
  <2> DEFINE r == Append(q, b)
  <2>1. PICK n : n \in Nat /\ n = Len(q)
    OBVIOUS
  <2>2. r \in Seq(Nat) /\ Len(r) = n + 1
    BY <2>1
  <2>3. ScanInv(q)
    BY <1>2
  <2>4. PICK a : IsTail(q, a) /\ Scan(q).current = SubSeq(q, a, n)
    BY <2>1, <2>3 DEF ScanInv
  <2>5. Scan(q) \in ScanStates /\ Scan(r) = ScanByte(Scan(q), b)
    BY ScanAppend
  <2>6. /\ Scan(q).current \in Seq(Nat)
        /\ Scan(q).strings \in Seq(Seq(Nat))
    BY <2>5 DEF ScanStates
  <2>7. Len(SubSeq(q, a, n)) >= 6 <=> n >= a + 5
    <3>1. a \in 1..(n + 1) /\ \A k \in a..n : q[k] \in Nat
      BY <2>1, <2>4 DEF IsTail
    <3>2. Len(SubSeq(q, a, n)) = IF a <= n THEN n - a + 1 ELSE 0
      BY <2>1, <3>1, SubSeqProperties
    <3>3. QED
      BY <2>1, <3>1, <3>2
  <2> HIDE DEF r
  <2>8. CASE Printable(b)
    <3>1. Scan(r) = [Scan(q) EXCEPT !.current = Append(@, b)]
      BY <2>5, <2>8 DEF ScanByte
    <3>2. Scan(r).strings = Scan(q).strings /\ Scan(r).current = Append(Scan(q).current, b)
      BY <2>5, <3>1 DEF ScanStates
    <3>3. \A x : ClosedRun(r, x) <=> ClosedRun(q, x)
      BY <2>4, <2>8, RunsAppend DEF r
    <3>4. IsTail(r, a) /\ SubSeq(r, a, n + 1) = Append(SubSeq(q, a, n), b)
      BY <2>1, <2>4, <2>8, RunsAppend DEF r
    <3>5. ScanInv(r)
      BY <2>2, <2>3, <2>4, <3>2, <3>3, <3>4 DEF ScanInv
    <3>6. QED
      BY <2>2, <3>5 DEF r
  <2>9. CASE ~Printable(b)
    <3>1. Scan(r) = Flush(Scan(q))
      BY <2>5, <2>9 DEF ScanByte
    <3>2. /\ Scan(r).current = <<>>
          /\ Scan(r).strings = IF Len(Scan(q).current) >= 6
                               THEN Append(Scan(q).strings, Scan(q).current)
                               ELSE Scan(q).strings
      BY <3>1 DEF Flush
    <3>3. \A x : ClosedRun(r, x) <=>
              ClosedRun(q, x) \/ (n >= a + 5 /\ x = SubSeq(q, a, n))
      BY <2>1, <2>4, <2>9, RunsAppend DEF r
    <3>4. IsTail(r, n + 2) /\ SubSeq(r, n + 2, n + 1) = <<>>
      BY <2>1, <2>4, <2>9, RunsAppend DEF r
    <3>5. \A x : x \in ToSet(Scan(r).strings) <=>
              x \in ToSet(Scan(q).strings) \/ (n >= a + 5 /\ x = SubSeq(q, a, n))
      <4>1. CASE n >= a + 5
        <5>1. Scan(r).strings = Append(Scan(q).strings, SubSeq(q, a, n))
          BY <2>4, <2>7, <3>2, <4>1
        <5>2. SubSeq(q, a, n) \in Seq(Nat)
          BY <2>4, <2>6
        <5>3. ToSet(Scan(r).strings) = ToSet(Scan(q).strings) \cup {SubSeq(q, a, n)}
          <6> DEFINE s == Scan(q).strings
                     y == SubSeq(q, a, n)
          <6>1. s \in Seq(Seq(Nat)) /\ y \in Seq(Nat)
            BY <2>6, <5>2
          <6> HIDE DEF s, y
          <6>2. ToSet(Append(s, y)) = ToSet(s) \cup {y}
            BY <6>1, ToSetAppend
          <6>3. QED
            BY <5>1, <6>2 DEF s, y
        <5>4. QED
          BY <4>1, <5>3
      <4>2. CASE ~(n >= a + 5)
        BY <2>4, <2>7, <3>2, <4>2
      <4>3. QED
        BY <4>1, <4>2
    <3>6. ScanInv(r)
      BY <2>2, <2>3, <3>2, <3>3, <3>4, <3>5 DEF ScanInv
    <3>7. QED
      BY <2>2, <3>6 DEF r
  <2>10. QED
    BY <2>8, <2>9
<1>3. Seq(Nat) \subseteq T
  <2> HIDE DEF T
  <2>1. QED
    BY <1>1, <1>2, SequenceInduction
<1>4. QED
  BY <1>3

\* The long runs of a sequence are those that an unprintable byte would close.
LEMMA LongRunsAreClosed ==
    ASSUME NEW q \in Seq(Nat), NEW a, IsTail(q, a), NEW x
    PROVE  x \in LongRuns(q) <=>
              ClosedRun(q, x) \/ (Len(q) >= a + 5 /\ x = SubSeq(q, a, Len(q)))
<1>1. PICK n : n \in Nat /\ n = Len(q) /\ DOMAIN q = 1..n
  OBVIOUS
<1>2. x \in LongRuns(q) <=>
        \E i, j \in 1..n :
            IsRun(q, i, j) /\ (j = n \/ ~Printable(q[j + 1])) /\ x = SubSeq(q, i, j)
  <2> DEFINE starts == {i \in 1..n : Printable(q[i]) /\ (i = 1 \/ ~Printable(q[i - 1]))}
             ends   == {j \in 1..n : Printable(q[j]) /\ (j = n \/ ~Printable(q[j + 1]))}
             pairs  == {r \in starts \X ends :
                           r[2] >= r[1] + 5 /\ \A m \in r[1]..r[2] : Printable(q[m])}
  <2>1. LongRuns(q) = {SubSeq(q, r[1], r[2]) : r \in pairs}
    BY <1>1 DEF LongRuns
  <2>2. \A i, j \in 1..n :
            <<i, j>> \in pairs <=> IsRun(q, i, j) /\ (j = n \/ ~Printable(q[j + 1]))
    <3> SUFFICES ASSUME NEW i \in 1..n, NEW j \in 1..n
                 PROVE  <<i, j>> \in pairs <=>
                            IsRun(q, i, j) /\ (j = n \/ ~Printable(q[j + 1]))
      OBVIOUS
    <3>1. IsRun(q, i, j) <=> /\ j >= i + 5
                             /\ \A m \in i..j : Printable(q[m])
                             /\ i = 1 \/ ~Printable(q[i - 1])
      BY <1>1 DEF IsRun
    <3>2. j >= i + 5 => i \in i..j /\ j \in i..j
      OBVIOUS
    <3>3. <<i, j>> \in pairs <=>
             /\ i \in starts /\ j \in ends /\ j >= i + 5
             /\ \A m \in i..j : Printable(q[m])
      <4> HIDE DEF starts, ends
      <4>1. QED
        OBVIOUS
    <3>4. QED
      BY <3>1, <3>2, <3>3
  <2>3. \A r \in pairs : r = <<r[1], r[2]>> /\ r[1] \in 1..n /\ r[2] \in 1..n
    OBVIOUS
  <2>4. x \in LongRuns(q) <=> \E i, j \in 1..n : <<i, j>> \in pairs /\ x = SubSeq(q, i, j)
    <3> HIDE DEF pairs
    <3>1. ASSUME x \in LongRuns(q)
          PROVE  \E i, j \in 1..n : <<i, j>> \in pairs /\ x = SubSeq(q, i, j)
      <4>1. PICK r \in pairs : x = SubSeq(q, r[1], r[2])
        BY <2>1, <3>1
      <4>2. <<r[1], r[2]>> \in pairs /\ r[1] \in 1..n /\ r[2] \in 1..n
        BY <2>3
      <4>3. QED
        BY <4>1, <4>2
    <3>2. ASSUME NEW i \in 1..n, NEW j \in 1..n, <<i, j>> \in pairs, x = SubSeq(q, i, j)
          PROVE  x \in LongRuns(q)
      <4>1. PICK r : r \in pairs /\ r[1] = i /\ r[2] = j
        BY <3>2
      <4>2. QED
        BY <2>1, <3>2, <4>1
    <3>3. QED
      BY <3>1, <3>2
  <2> HIDE DEF pairs
  <2>5. QED
    BY <2>2, <2>4
<1>3. PICK b : b \in Nat /\ ~Printable(b)
  <2>1. \E c \in Nat : ~(c \in 32..126)
    <3>1. 0 \in Nat /\ ~(0 \in 32..126)
      OBVIOUS
    <3>2. QED
      BY <3>1
  <2>2. QED
    BY <2>1 DEF Printable
<1> DEFINE r == Append(q, b)
<1>4. ClosedRun(r, x) <=> ClosedRun(q, x) \/ (n >= a + 5 /\ x = SubSeq(q, a, n))
  BY <1>1, <1>3, RunsAppend
<1>5. Len(r) = n + 1 /\ r[n + 1] = b /\ \A k \in 1..n : r[k] = q[k]
  BY <1>1
<1>6. \A i \in 1..(n + 1), j \in 0..n : SubSeq(r, i, j) = SubSeq(q, i, j)
  BY <1>1, <1>3, SubSeqAppend
<1> HIDE DEF r
<1>7. \A j \in 1..n : ~Printable(r[j + 1]) <=> j = n \/ ~Printable(q[j + 1])
  <2>1. \A j \in 1..n : j = n \/ j + 1 \in 1..n
    BY <1>1
  <2>2. QED
    BY <1>3, <1>5, <2>1
<1>8. \A i, j \in 1..n : IsRun(r, i, j) <=> IsRun(q, i, j)
  <2> SUFFICES ASSUME NEW i \in 1..n, NEW j \in 1..n
               PROVE  IsRun(r, i, j) <=> IsRun(q, i, j)
    OBVIOUS
  <2>1. i \in 1..(n + 1) /\ j \in 1..(n + 1)
    BY <1>1
  <2>2. \A m \in i..j : m \in 1..n
    BY <1>1
  <2>3. i # 1 => i - 1 \in 1..n
    BY <1>1
  <2>4. QED
    BY <1>1, <1>5, <2>1, <2>2, <2>3 DEF IsRun
<1>9. ClosedRun(r, x) <=>
        \E i, j \in 1..n :
            IsRun(q, i, j) /\ (j = n \/ ~Printable(q[j + 1])) /\ x = SubSeq(q, i, j)
  <2>1. ClosedRun(r, x) <=>
          \E i, j \in 1..(n + 1) :
              IsRun(r, i, j) /\ j < n + 1 /\ ~Printable(r[j + 1]) /\ x = SubSeq(r, i, j)
    BY <1>5 DEF ClosedRun
  <2>2. \A i, j \in 1..(n + 1) : IsRun(r, i, j) /\ j < n + 1 => i \in 1..n /\ j \in 1..n
    BY <1>1 DEF IsRun
  <2>3. \A j \in 1..n : j \in 1..(n + 1) /\ j \in 0..n /\ j < n + 1
    BY <1>1
  <2>4. QED
    BY <1>6, <1>7, <1>8, <2>1, <2>2, <2>3
<1>10. QED
  BY <1>1, <1>2, <1>4, <1>9

\* What scanInlineStrings collects before it removes the duplicates.
Found(q) == Flush(Scan(q)).strings

\* The scan finds the long runs of the bytes, and the result has none twice.
THEOREM FoundRuns ==
    ASSUME NEW q \in Seq(Nat)
    PROVE  /\ Found(q) \in Seq(Seq(Nat))
           /\ ToSet(Found(q)) = LongRuns(q)
           /\ ToSet(scanInlineStrings(q)) = LongRuns(q)
           /\ IsInjective(scanInlineStrings(q))
<1> DEFINE n == Len(q)
<1>1. PICK e : e \in Nat /\ e = 0
  OBVIOUS
<1>2. Scan(q) \in ScanStates
  BY <1>1, ScanAppend
<1>3. Scan(q).current \in Seq(Nat) /\ Scan(q).strings \in Seq(Seq(Nat))
  BY <1>2 DEF ScanStates
<1>4. Found(q) \in Seq(Seq(Nat))
  BY <1>1, <1>2, ScanByteType DEF Found, ScanStates
<1>5. PICK a : IsTail(q, a) /\ Scan(q).current = SubSeq(q, a, n)
  BY ScanFindsRuns DEF ScanInv
<1>6. \A x : x \in ToSet(Scan(q).strings) <=> ClosedRun(q, x)
  BY ScanFindsRuns DEF ScanInv
<1>7. Len(SubSeq(q, a, n)) >= 6 <=> n >= a + 5
  <2>1. n \in Nat /\ a \in 1..(n + 1) /\ \A k \in a..n : q[k] \in Nat
    BY <1>5 DEF IsTail
  <2> HIDE DEF n
  <2>2. Len(SubSeq(q, a, n)) = IF a <= n THEN n - a + 1 ELSE 0
    BY <2>1, SubSeqProperties
  <2>3. QED
    BY <2>1, <2>2
<1>8. Found(q) = IF n >= a + 5 THEN Append(Scan(q).strings, SubSeq(q, a, n))
                 ELSE Scan(q).strings
  BY <1>5, <1>7 DEF Found, Flush
<1>9. \A x : x \in ToSet(Found(q)) <=> ClosedRun(q, x) \/ (n >= a + 5 /\ x = SubSeq(q, a, n))
  <2>1. CASE n >= a + 5
    <3> DEFINE s == Scan(q).strings
               y == SubSeq(q, a, n)
    <3>1. s \in Seq(Seq(Nat)) /\ y \in Seq(Nat) /\ Found(q) = Append(s, y)
      BY <1>3, <1>5, <1>8, <2>1
    <3> HIDE DEF s, y
    <3>2. ToSet(Found(q)) = ToSet(s) \cup {y}
      BY <3>1, ToSetAppend
    <3>3. QED
      BY <1>6, <2>1, <3>2 DEF s, y
  <2>2. CASE ~(n >= a + 5)
    BY <1>6, <1>8, <2>2
  <2>3. QED
    BY <2>1, <2>2
<1>10. ToSet(Found(q)) = LongRuns(q)
  BY <1>5, <1>9, LongRunsAreClosed
<1>11. scanInlineStrings(q) = uniqueStrings(Found(q))
  BY DEF scanInlineStrings, Found
<1>12. QED
  BY <1>4, <1>10, <1>11, UniqueProperties

-----------------------------------------------------------------------------
(* The bytes of a character. *)

Bytes == 0..255

\* What the masks of the reader leave of the bytes that the writer composes.
LEMMA Masks ==
    /\ \A q \in 0..31 : (192 + q) % 32 = q
    /\ \A q \in 0..15 : (224 + q) % 16 = q
    /\ \A q \in 0..63 : (128 + q) % 64 = q
  OBVIOUS

\* A first byte belongs to one of the alternatives of FirstChar at most.
LEMMA Leads ==
    ASSUME NEW b \in Nat
    PROVE  /\ ~(b \in 0..127 /\ b \in 192..223)
           /\ ~(b \in 0..127 /\ b \in 224..239)
           /\ ~(b \in 192..223 /\ b \in 224..239)
  OBVIOUS

\* The alternatives of FirstChar, one by one.
FirstCharOf(b, n, second, third) ==
    IF b \in 0..127 THEN Char(1, b)
    ELSE IF b \in 192..223 /\ n >= 2 THEN Char(2, (b % 32) * 64 + (second % 64))
    ELSE IF b \in 224..239 /\ n >= 3
         THEN Char(3, (b % 16) * 4096 + (second % 64) * 64 + (third % 64))
    ELSE NoChar

\* FirstChar with its arms named.
LEMMA FirstCharIs ==
    ASSUME NEW buf, Head(buf) \in Nat
    PROVE  FirstChar(buf) = FirstCharOf(Head(buf), Len(buf), buf[2], buf[3])
<1> DEFINE one   == Head(buf) \in 0..127
           two   == Head(buf) \in 192..223
           three == Head(buf) \in 224..239
           long  == Len(buf) >= 2
           longer == Len(buf) >= 3
           c1 == Char(1, Head(buf))
           c2 == Char(2, (Head(buf) % 32) * 64 + (buf[2] % 64))
           c3 == Char(3, (Head(buf) % 16) * 4096 + (buf[2] % 64) * 64 + (buf[3] % 64))
           c  == CASE one -> c1 [] two /\ long -> c2 [] three /\ longer -> c3 [] OTHER -> NoChar
           d  == IF one THEN c1 ELSE IF two /\ long THEN c2
                 ELSE IF three /\ longer THEN c3 ELSE NoChar
<1>1. FirstChar(buf) = c
  BY DEF FirstChar
<1>2. ~(one /\ two) /\ ~(one /\ three) /\ ~(two /\ three)
  BY Leads
<1>3. c = d
  <2> HIDE DEF one, two, three, long, longer, c1, c2, c3
  <2>1. one => c = c1
    BY <1>2, Zenon
  <2>2. ~one /\ two /\ long => c = c2
    BY <1>2, Zenon
  <2>3. ~one /\ ~(two /\ long) /\ three /\ longer => c = c3
    BY <1>2, Zenon
  <2>4. ~one /\ ~(two /\ long) /\ ~(three /\ longer) => c = NoChar
    BY <1>2, Zenon
  <2> HIDE DEF c
  <2>5. QED
    BY <2>1, <2>2, <2>3, <2>4, Zenon
<1>4. FirstCharOf(Head(buf), Len(buf), buf[2], buf[3]) = d
  BY DEF FirstCharOf
<1>5. QED
  <2> HIDE DEF c, d
  <2>1. QED
    BY <1>1, <1>3, <1>4

\* A byte below 128 is a character.
LEMMA FirstOfOne ==
    ASSUME NEW buf \in Seq(Bytes), Len(buf) >= 1, NEW b \in 0..127, buf[1] = b
    PROVE  FirstChar(buf) = Char(1, b)
<1>1. Head(buf) = b /\ b \in Nat
  OBVIOUS
<1>2. FirstChar(buf) = FirstCharOf(b, Len(buf), buf[2], buf[3])
  BY <1>1, FirstCharIs
<1>3. QED
  BY <1>2 DEF FirstCharOf

LeadsTwo(buf, q, r) == q \in 0..31 /\ r \in 0..63 /\ buf[1] = 192 + q

\* A first byte of two needs the second, and gets the bits of both.
LEMMA FirstOfTwo ==
    ASSUME NEW buf \in Seq(Bytes), NEW n \in Nat, n = Len(buf), n >= 1,
           NEW q, NEW r, LeadsTwo(buf, q, r)
    PROVE  /\ n >= 2 /\ buf[2] = 128 + r => FirstChar(buf) = Char(2, q * 64 + r)
           /\ n < 2 => FirstChar(buf) = NoChar
<1> USE DEF LeadsTwo
<1>1. PICK b \in Nat : b = 192 + q
  OBVIOUS
<1>2. Head(buf) = b /\ ~(b \in 0..127) /\ ~(b \in 224..239) /\ b \in 192..223
  BY <1>1
<1>3. FirstChar(buf) = FirstCharOf(b, n, buf[2], buf[3])
  BY <1>2, FirstCharIs
<1>4. n >= 2 => FirstChar(buf) = Char(2, (b % 32) * 64 + (buf[2] % 64))
  BY <1>2, <1>3 DEF FirstCharOf
<1>5. n < 2 => FirstChar(buf) = NoChar
  BY <1>2, <1>3 DEF FirstCharOf
<1>6. b % 32 = q /\ (128 + r) % 64 = r
  BY <1>1, Masks
<1>7. QED
  BY <1>4, <1>5, <1>6

LeadsThree(buf, p, q, r) ==
    p \in 0..15 /\ q \in 0..63 /\ r \in 0..63 /\ buf[1] = 224 + p

\* A first byte of three needs the others, and gets the bits of all.
LEMMA FirstOfThree ==
    ASSUME NEW buf \in Seq(Bytes), NEW n \in Nat, n = Len(buf), n >= 1,
           NEW p, NEW q, NEW r, LeadsThree(buf, p, q, r)
    PROVE  /\ n >= 3 /\ buf[2] = 128 + q /\ buf[3] = 128 + r =>
                 FirstChar(buf) = Char(3, p * 4096 + q * 64 + r)
           /\ n < 3 => FirstChar(buf) = NoChar
<1> USE DEF LeadsThree
<1>1. PICK b \in Nat : b = 224 + p
  OBVIOUS
<1>2. Head(buf) = b /\ ~(b \in 0..127) /\ ~(b \in 192..223) /\ b \in 224..239
  BY <1>1
<1>3. FirstChar(buf) = FirstCharOf(b, n, buf[2], buf[3])
  BY <1>2, FirstCharIs
<1>4. n >= 3 => FirstChar(buf) =
                    Char(3, (b % 16) * 4096 + (buf[2] % 64) * 64 + (buf[3] % 64))
  BY <1>2, <1>3 DEF FirstCharOf
<1>5. n < 3 => FirstChar(buf) = NoChar
  BY <1>2, <1>3 DEF FirstCharOf
<1>6. b % 16 = p /\ (128 + q) % 64 = q /\ (128 + r) % 64 = r
  BY <1>1, Masks
<1>7. QED
  BY <1>4, <1>5, <1>6

IsDivided(c, d, r) == d \in Nat /\ r \in 0..63 /\ c = d * 64 + r

\* The six lowest bits of a number and the others.
LEMMA Divided ==
    ASSUME NEW c, c \in Nat
    PROVE  IsDivided(c, c \div 64, c % 64)
<1>1. c \div 64 \in Nat
  OBVIOUS
<1>2. c % 64 \in 0..63
  OBVIOUS
<1>3. c = (c \div 64) * 64 + (c % 64)
  OBVIOUS
<1>4. QED
  BY <1>1, <1>2, <1>3 DEF IsDivided

\* A range whose bounds stay numbers: the provers take a literal range for the
\* list of its members.
Within(c, lo, hi) == c \in lo..hi

\* A range as two comparisons.
LEMMA WithinIs ==
    ASSUME NEW lo \in Int, NEW hi \in Int, NEW c
    PROVE  Within(c, lo, hi) <=> c \in Int /\ lo =< c /\ c =< hi
  BY DEF Within

IsLong(c) == Within(c, 2048, 65535)

AreDigits(c, e, s, r) ==
    /\ e \in 0..15 /\ s \in 0..63 /\ r \in 0..63
    /\ e * 4096 + s * 64 + r = c
    /\ c \div 4096 = e

\* The two divisions by 64 of a long unit give the digits of its three bytes.
LEMMA Digits ==
    ASSUME NEW c, IsLong(c), NEW d, NEW r, NEW e, NEW s,
           IsDivided(c, d, r), IsDivided(d, e, s)
    PROVE  AreDigits(c, e, s, r)
<1>1. PICK n \in Nat : n = c /\ n =< 65535
  BY WithinIs DEF IsLong
<1>2. PICK y \in 0..63 : y = r
  BY DEF IsDivided
<1>3. PICK k \in Nat : k = e
  BY DEF IsDivided
<1>4. PICK x \in 0..63 : x = s
  BY DEF IsDivided
<1>5. PICK m \in Nat : m = d
  BY DEF IsDivided
<1>6. n = m * 64 + y /\ m = k * 64 + x
  <2>1. IsDivided(n, m, y)
    BY <1>1, <1>2, <1>5
  <2>3. IsDivided(m, k, x)
    BY <1>3, <1>4, <1>5
  <2>2. QED
    BY <2>1, <2>3 DEF IsDivided
<1>7. PICK t \in 0..4095 : t = x * 64 + y
  <2>1. x * 64 + y \in 0..4095
    OBVIOUS
  <2>2. QED
    BY <2>1
<1>8. n = k * 4096 + t
  BY <1>6, <1>7
<1>9. k \in 0..15
  BY <1>1, <1>8
<1>10. n \div 4096 = k
  BY <1>8
<1>11. k * 4096 + x * 64 + y = n
  BY <1>6
<1>12. AreDigits(n, k, x, y)
  BY <1>9, <1>10, <1>11 DEF AreDigits
<1>13. QED
  BY <1>1, <1>2, <1>3, <1>4, <1>12

\* The digits that EncodeUnit writes for a unit of three bytes.
LEMMA ThreeDigits ==
    ASSUME NEW c, IsLong(c)
    PROVE  AreDigits(c, c \div 4096, (c \div 64) % 64, c % 64)
<1> DEFINE d == c \div 64
           r == c % 64
           e == d \div 64
           s == d % 64
           f == c \div 4096
<1>1. c \in Nat
  BY WithinIs DEF IsLong
<1>2. IsDivided(c, d, r)
  BY <1>1, Divided
<1>3. d \in Nat
  BY <1>2 DEF IsDivided
<1>4. IsDivided(d, e, s)
  <2> HIDE DEF d
  <2>1. QED
    BY <1>3, Divided
<1>5. AreDigits(c, e, s, r)
  <2> HIDE DEF d, r, e, s
  <2>1. QED
    BY <1>2, <1>4, Digits, Zenon
<1>6. f = e
  <2> HIDE DEF e, s, r
  <2>1. QED
    BY <1>5 DEF AreDigits
<1>7. AreDigits(c, f, s, r)
  <2> HIDE DEF d, e, s, r, f
  <2>1. QED
    BY <1>5, <1>6, Zenon
<1>8. QED
  BY <1>7

IsShort(c) == c \in Nat /\ c =< 2047

AreTwoDigits(c, q, r) == q \in 0..31 /\ r \in 0..63 /\ q * 64 + r = c

\* The digits that EncodeUnit writes for a unit of two bytes.
LEMMA TwoDigits ==
    ASSUME NEW c, IsShort(c)
    PROVE  AreTwoDigits(c, c \div 64, c % 64)
<1>1. PICK n \in Nat : n = c /\ n =< 2047
  BY DEF IsShort
<1>2. IsDivided(n, n \div 64, n % 64)
  BY Divided
<1> DEFINE d == n \div 64
           r == n % 64
<1>3. d \in 0..31 /\ r \in 0..63 /\ d * 64 + r = n
  <2>1. IsDivided(n, d, r)
    BY <1>2
  <2> HIDE DEF d, r
  <2>2. d \in Nat /\ r \in 0..63 /\ n = d * 64 + r
    BY <2>1 DEF IsDivided
  <2>3. PICK k \in Nat : k = d
    BY <2>2
  <2>4. PICK x \in 0..63 : x = r
    BY <2>2
  <2>5. n = k * 64 + x
    BY <2>2, <2>3, <2>4
  <2>6. k \in 0..31
    BY <1>1, <2>5
  <2>7. QED
    BY <2>3, <2>4, <2>5, <2>6
<1>4. QED
  BY <1>1, <1>3 DEF AreTwoDigits

\* A unit of one, two or three bytes.
OneByte(c, u) == Within(c, 1, 127) /\ u = <<c>>

IsTwo(c, u, q, r) == u = <<192 + q, 128 + r>> /\ q * 64 + r = c

TwoBytes(c, u) ==
    /\ ~Within(c, 1, 127)
    /\ \E q \in 0..31, r \in 0..63 : IsTwo(c, u, q, r)

IsThree(c, u, p, q, r) ==
    u = <<224 + p, 128 + q, 128 + r>> /\ p * 4096 + q * 64 + r = c

ThreeBytes(c, u) ==
    /\ ~Within(c, 1, 127)
    /\ \E p \in 0..15, q \in 0..63, r \in 0..63 : IsThree(c, u, p, q, r)

\* The arms of EncodeUnit exclude one another and leave no unit out.
LEMMA Ranges ==
    ASSUME NEW c \in Nat, c =< 65535
    PROVE  /\ ~(Within(c, 1, 127) /\ (c = 0 \/ Within(c, 128, 2047)))
           /\ ~(Within(c, 1, 127) /\ Within(c, 2048, 65535))
           /\ ~((c = 0 \/ Within(c, 128, 2047)) /\ Within(c, 2048, 65535))
           /\ Within(c, 1, 127) \/ (c = 0 \/ Within(c, 128, 2047)) \/ Within(c, 2048, 65535)
<1>1. /\ Within(c, 1, 127) <=> 1 =< c /\ c =< 127
      /\ Within(c, 128, 2047) <=> 128 =< c /\ c =< 2047
      /\ Within(c, 2048, 65535) <=> 2048 =< c /\ c =< 65535
  BY WithinIs
<1>2. QED
  BY <1>1

\* Digits make three bytes.
LEMMA ThreeBytesOf ==
    ASSUME NEW c, ~Within(c, 1, 127), NEW p, NEW q, NEW r, AreDigits(c, p, q, r)
    PROVE  ThreeBytes(c, <<224 + p, 128 + q, 128 + r>>)
<1>1. IsThree(c, <<224 + p, 128 + q, 128 + r>>, p, q, r)
  BY DEF IsThree, AreDigits
<1>2. p \in 0..15 /\ q \in 0..63 /\ r \in 0..63
  BY DEF AreDigits
<1>3. QED
  BY <1>1, <1>2 DEF ThreeBytes

\* Digits make two bytes.
LEMMA TwoBytesOf ==
    ASSUME NEW c, ~Within(c, 1, 127), NEW q, NEW r, AreTwoDigits(c, q, r)
    PROVE  TwoBytes(c, <<192 + q, 128 + r>>)
<1>1. IsTwo(c, <<192 + q, 128 + r>>, q, r)
  BY DEF IsTwo, AreTwoDigits
<1>2. q \in 0..31 /\ r \in 0..63
  BY DEF AreTwoDigits
<1>3. QED
  BY <1>1, <1>2 DEF TwoBytes

\* EncodeUnit writes one, two or three bytes of the known form.
LEMMA UnitForm ==
    ASSUME NEW c \in Units
    PROVE  OneByte(c, EncodeUnit(c)) \/ TwoBytes(c, EncodeUnit(c)) \/ ThreeBytes(c, EncodeUnit(c))
<1> DEFINE one   == Within(c, 1, 127)
           two   == c = 0 \/ Within(c, 128, 2047)
           three == Within(c, 2048, 65535)
           u1 == <<c>>
           u2 == <<192 + (c \div 64), 128 + (c % 64)>>
           u3 == <<224 + (c \div 4096), 128 + ((c \div 64) % 64), 128 + (c % 64)>>
           u  == CASE one -> u1 [] two -> u2 [] three -> u3
<1>1. EncodeUnit(c) = u
  BY DEF EncodeUnit, Within
<1>2. c \in Nat /\ c =< 65535
  <2>1. Within(c, 0, 65535)
    BY DEF Units, Within
  <2>2. QED
    BY <2>1, WithinIs
<1>3. ~(one /\ two) /\ ~(one /\ three) /\ ~(two /\ three) /\ (one \/ two \/ three)
  BY <1>2, Ranges
<1>4. (one => u = u1) /\ (two => u = u2) /\ (three => u = u3)
  <2> HIDE DEF one, two, three, u1, u2, u3
  <2>1. one => u = u1
    BY <1>3, Zenon
  <2>2. two => u = u2
    BY <1>3, Zenon
  <2>3. three => u = u3
    BY <1>3, Zenon
  <2>4. QED
    BY <2>1, <2>2, <2>3, Zenon
<1>5. one => OneByte(c, u1)
  BY DEF OneByte, Within
<1>6. two => TwoBytes(c, u2)
  <2> SUFFICES ASSUME two PROVE TwoBytes(c, u2)
    OBVIOUS
  <2> DEFINE q == c \div 64
             r == c % 64
  <2>1. IsShort(c)
    <3>1. Within(c, 128, 2047) <=> 128 =< c /\ c =< 2047
      BY <1>2, WithinIs
    <3>2. QED
      BY <1>2, <3>1 DEF IsShort
  <2>2. AreTwoDigits(c, q, r)
    <3> HIDE DEF two
    <3>1. QED
      BY <2>1, TwoDigits, Zenon
  <2>3. ~one
    BY <1>3
  <2> HIDE DEF q, r
  <2>4. TwoBytes(c, <<192 + q, 128 + r>>)
    <3> HIDE DEF two
    <3>1. QED
      BY <2>2, <2>3, TwoBytesOf, Zenon
  <2>5. QED
    BY <2>4 DEF q, r
<1>7. three => ThreeBytes(c, u3)
  <2> SUFFICES ASSUME three PROVE ThreeBytes(c, u3)
    OBVIOUS
  <2> DEFINE p == c \div 4096
             q == (c \div 64) % 64
             r == c % 64
  <2>1. AreDigits(c, p, q, r)
    <3>1. IsLong(c)
      BY DEF IsLong
    <3>2. QED
      BY <3>1, ThreeDigits
  <2>2. ~one
    BY <1>3
  <2> HIDE DEF p, q, r
  <2>3. ThreeBytes(c, <<224 + p, 128 + q, 128 + r>>)
    <3> HIDE DEF three
    <3>1. QED
      BY <2>1, <2>2, ThreeBytesOf, Zenon
  <2>4. QED
    BY <2>3 DEF p, q, r
<1>8. QED
  <2> HIDE DEF u, u1, u2, u3
  <2>1. \/ EncodeUnit(c) = u1 /\ OneByte(c, u1)
        \/ EncodeUnit(c) = u2 /\ TwoBytes(c, u2)
        \/ EncodeUnit(c) = u3 /\ ThreeBytes(c, u3)
    <3> HIDE DEF one, two, three
    <3>1. QED
      BY <1>1, <1>3, <1>4, <1>5, <1>6, <1>7, Zenon
  <2>2. QED
    BY <2>1, Zenon

\* buf begins with the bytes u, or with some of them.
Begins(buf, u) ==
    /\ buf \in Seq(Bytes)
    /\ Len(buf) >= 1
    /\ \A j \in 1..Len(u) : j =< Len(buf) => buf[j] = u[j]

\* What is to be known of the bytes u of the unit c: a buffer that begins with
\* all of them has the unit as its first character, and one that ends within
\* them has no character.
Decodes(c, u) ==
    /\ u \in Seq(Bytes) /\ Len(u) \in 1..3
    /\ \A buf : Begins(buf, u) =>
            FirstChar(buf) = IF Len(buf) >= Len(u) THEN Char(Len(u), c) ELSE NoChar
    /\ \/ Within(c, 1, 127) /\ u = <<c>>
       \/ ~Printable(c) /\ \A j \in 1..Len(u) : ~Printable(u[j])

\* A unit of one byte is read back.
LEMMA OneByteDecodes ==
    ASSUME NEW c, NEW u, OneByte(c, u)
    PROVE  Decodes(c, u)
<1>1. PICK b \in 1..127 : b = c
  BY DEF OneByte, Within
<1>2. u = <<b>> /\ u \in Seq(Bytes) /\ Len(u) = 1 /\ u[1] = b
  BY <1>1 DEF OneByte, Bytes
<1>3. ASSUME NEW buf, Begins(buf, u)
      PROVE  FirstChar(buf) = Char(1, b) /\ Len(buf) >= 1
  <2>1. buf \in Seq(Bytes) /\ Len(buf) >= 1 /\ buf[1] = b
    BY <1>2, <1>3 DEF Begins
  <2>2. b \in 0..127
    BY <1>1
  <2>3. QED
    BY <2>1, <2>2, FirstOfOne
<1>4. Within(c, 1, 127)
  BY DEF OneByte
<1>5. QED
  BY <1>1, <1>2, <1>3, <1>4 DEF Decodes

\* A unit of two bytes is read back, 0 among them.
LEMMA TwoBytesDecode ==
    ASSUME NEW c, NEW u, TwoBytes(c, u)
    PROVE  Decodes(c, u)
<1>1. PICK q \in 0..31, r \in 0..63 : IsTwo(c, u, q, r)
  BY DEF TwoBytes
<1>2. PICK a \in 192..223 : a = 192 + q
  OBVIOUS
<1>3. PICK b \in 128..191 : b = 128 + r
  OBVIOUS
<1>4. u = <<a, b>> /\ q * 64 + r = c
  BY <1>1, <1>2, <1>3 DEF IsTwo
<1>5. u \in Seq(Bytes) /\ Len(u) = 2 /\ u[1] = a /\ u[2] = b
  BY <1>4 DEF Bytes
<1>6. ASSUME NEW buf, Begins(buf, u)
      PROVE  FirstChar(buf) = IF Len(buf) >= 2 THEN Char(2, c) ELSE NoChar
  <2>1. PICK n \in Nat : n = Len(buf)
    BY <1>6 DEF Begins
  <2>2. buf \in Seq(Bytes) /\ n >= 1 /\ buf[1] = a /\ (n >= 2 => buf[2] = b)
    BY <1>5, <1>6, <2>1 DEF Begins
  <2>3. /\ n >= 2 /\ buf[2] = 128 + r => FirstChar(buf) = Char(2, q * 64 + r)
        /\ n < 2 => FirstChar(buf) = NoChar
    <3>1. LeadsTwo(buf, q, r)
      BY <1>2, <2>2 DEF LeadsTwo
    <3>2. QED
      BY <2>1, <2>2, <3>1, FirstOfTwo
  <2>4. QED
    BY <1>3, <1>4, <2>1, <2>2, <2>3
<1>7. ~Printable(c)
  <2>1. ~Within(c, 1, 127)
    BY DEF TwoBytes
  <2>2. ~(c \in 32..126)
    BY <2>1, WithinIs
  <2>3. QED
    BY <2>2 DEF Printable
<1>8. ~Printable(a) /\ ~Printable(b)
  BY DEF Printable
<1>9. \A j \in 1..2 : ~Printable(u[j])
  BY <1>5, <1>8
<1>10. QED
  BY <1>5, <1>6, <1>7, <1>9 DEF Decodes

\* A unit of three bytes is read back.
LEMMA ThreeBytesDecode ==
    ASSUME NEW c, NEW u, ThreeBytes(c, u)
    PROVE  Decodes(c, u)
<1>1. PICK p \in 0..15, q \in 0..63, r \in 0..63 : IsThree(c, u, p, q, r)
  BY DEF ThreeBytes
<1>2. PICK a \in 224..239 : a = 224 + p
  OBVIOUS
<1>3. PICK b \in 128..191 : b = 128 + q
  OBVIOUS
<1>4. PICK d \in 128..191 : d = 128 + r
  OBVIOUS
<1>5. u = <<a, b, d>> /\ p * 4096 + q * 64 + r = c
  BY <1>1, <1>2, <1>3, <1>4 DEF IsThree
<1>6. u \in Seq(Bytes) /\ Len(u) = 3 /\ u[1] = a /\ u[2] = b /\ u[3] = d
  BY <1>5 DEF Bytes
<1>7. ASSUME NEW buf, Begins(buf, u)
      PROVE  FirstChar(buf) = IF Len(buf) >= 3 THEN Char(3, c) ELSE NoChar
  <2>1. PICK n \in Nat : n = Len(buf)
    BY <1>7 DEF Begins
  <2>2. /\ buf \in Seq(Bytes) /\ n >= 1 /\ buf[1] = a
        /\ n >= 3 => buf[2] = b /\ buf[3] = d
    BY <1>6, <1>7, <2>1 DEF Begins
  <2>3. /\ n >= 3 /\ buf[2] = 128 + q /\ buf[3] = 128 + r =>
               FirstChar(buf) = Char(3, p * 4096 + q * 64 + r)
        /\ n < 3 => FirstChar(buf) = NoChar
    <3>1. LeadsThree(buf, p, q, r)
      BY <1>2, <2>2 DEF LeadsThree
    <3>2. QED
      BY <2>1, <2>2, <3>1, FirstOfThree
  <2>4. QED
    BY <1>3, <1>4, <1>5, <2>1, <2>2, <2>3
<1>8. ~Printable(c)
  <2>1. ~Within(c, 1, 127)
    BY DEF ThreeBytes
  <2>2. ~(c \in 32..126)
    BY <2>1, WithinIs
  <2>3. QED
    BY <2>2 DEF Printable
<1>9. ~Printable(a) /\ ~Printable(b) /\ ~Printable(d)
  BY DEF Printable
<1>10. \A j \in 1..3 : ~Printable(u[j])
  BY <1>6, <1>9
<1>11. QED
  BY <1>6, <1>7, <1>8, <1>10 DEF Decodes

\* Every unit is read back from its bytes.
LEMMA UnitDecodes ==
    ASSUME NEW c \in Units
    PROVE  Decodes(c, EncodeUnit(c))
  BY UnitForm, OneByteDecodes, TwoBytesDecode, ThreeBytesDecode, Zenon

\* The first character lies within the buffer.
LEMMA FirstCharSize ==
    ASSUME NEW s \in Seq(Bytes), Len(s) >= 1
    PROVE  \/ FirstChar(s) = NoChar
           \/ /\ FirstChar(s).size \in 1..Len(s)
              /\ FirstChar(s).rune \in Nat
              /\ FirstChar(s) # NoChar
<1>1. PICK n \in Nat : n = Len(s) /\ n >= 1
  OBVIOUS
<1>2. PICK b \in Nat : b = Head(s)
  BY DEF Bytes
<1>3. FirstChar(s) = FirstCharOf(b, n, s[2], s[3])
  BY <1>1, <1>2, FirstCharIs
<1>4. \A size \in Nat, rune \in Nat :
          size >= 1 => /\ Char(size, rune) # NoChar
                       /\ Char(size, rune).size = size
                       /\ Char(size, rune).rune = rune
  BY DEF Char, NoChar
<1>5. \A x \in Nat : x % 16 \in Nat /\ x % 32 \in Nat /\ x % 64 \in Nat
  OBVIOUS
<1>6. CASE b \in 0..127
  <2>1. FirstChar(s) = Char(1, b)
    BY <1>3, <1>6 DEF FirstCharOf
  <2>2. QED
    BY <1>1, <1>4, <2>1
<1>7. CASE ~(b \in 0..127) /\ b \in 192..223 /\ n >= 2
  <2>1. PICK x \in Nat : x = s[2]
    BY <1>1, <1>7 DEF Bytes
  <2>2. PICK p \in Nat, q \in Nat : p = b % 32 /\ q = x % 64
    BY <1>5
  <2>3. FirstChar(s) = Char(2, p * 64 + q)
    BY <1>3, <1>7, <2>1, <2>2 DEF FirstCharOf
  <2>4. PICK r \in Nat : r = p * 64 + q
    OBVIOUS
  <2>5. QED
    BY <1>1, <1>4, <1>7, <2>3, <2>4
<1>8. CASE ~(b \in 0..127) /\ ~(b \in 192..223 /\ n >= 2) /\ b \in 224..239 /\ n >= 3
  <2>0. PICK x \in Nat : x = s[2]
    BY <1>1, <1>8 DEF Bytes
  <2>a. PICK y \in Nat : y = s[3]
    BY <1>1, <1>8 DEF Bytes
  <2>1. x = s[2] /\ y = s[3]
    BY <2>0, <2>a
  <2>2. PICK o \in Nat, p \in Nat, q \in Nat : o = b % 16 /\ p = x % 64 /\ q = y % 64
    BY <1>5
  <2>3. FirstChar(s) = Char(3, o * 4096 + p * 64 + q)
    BY <1>3, <1>8, <2>1, <2>2 DEF FirstCharOf
  <2>4. PICK r \in Nat : r = o * 4096 + p * 64 + q
    OBVIOUS
  <2>5. QED
    BY <1>1, <1>4, <1>8, <2>3, <2>4
<1>9. CASE /\ ~(b \in 0..127)
           /\ ~(b \in 192..223 /\ n >= 2)
           /\ ~(b \in 224..239 /\ n >= 3)
  BY <1>3, <1>9 DEF FirstCharOf
<1>10. QED
  BY <1>6, <1>7, <1>8, <1>9

\* One position of decodeModifiedUTF8: f is what comes after it.
DecodeStep(buf, f, i) ==
    LET c    == FirstChar(SubSeq(buf, i, Len(buf)))
        rest == f[i + c.size]
    IN  IF i > Len(buf) THEN <<>>
        ELSE IF c = NoChar \/ rest = NoText THEN NoText
        ELSE <<Rune(c.rune)>> \o rest

\* The bytes of a buffer from a position on.
LEMMA TailFacts ==
    ASSUME NEW buf \in Seq(Bytes), NEW n \in Nat, n = Len(buf), NEW i \in 1..n,
           NEW s, s = SubSeq(buf, i, n)
    PROVE  s \in Seq(Bytes) /\ Len(s) = n - i + 1 /\ Len(s) >= 1
           /\ \A j \in 1..(n - i + 1) : s[j] = buf[i + j - 1]
<1>1. \A k \in i..n : buf[k] \in Bytes
  OBVIOUS
<1>2. QED
  BY <1>1, SubSeqProperties

\* The step at i looks at positions behind i only.
AgreeBehind(f, g, i, n) == \A j \in (i + 1)..(n + 1) : f[j] = g[j]

\* A step of the decoding depends on what comes behind its position only.
LEMMA StepLooksAhead ==
    ASSUME NEW buf \in Seq(Bytes), NEW n \in Nat, n = Len(buf), NEW i \in 1..(n + 1),
           NEW f, NEW g, AgreeBehind(f, g, i, n)
    PROVE  DecodeStep(buf, f, i) = DecodeStep(buf, g, i)
<1>1. CASE i > n
  BY <1>1 DEF DecodeStep
<1>2. CASE ~(i > n)
  <2> DEFINE s == SubSeq(buf, i, n)
             c == FirstChar(s)
  <2>1. s \in Seq(Bytes) /\ Len(s) = n - i + 1 /\ Len(s) >= 1
    BY <1>2, TailFacts
  <2> HIDE DEF s
  <2>2. c = NoChar \/ c.size \in 1..(n - i + 1)
    BY <2>1, FirstCharSize
  <2> HIDE DEF c
  <2>3. DecodeStep(buf, f, i) =
            IF c = NoChar \/ f[i + c.size] = NoText THEN NoText
            ELSE <<Rune(c.rune)>> \o f[i + c.size]
    BY <1>2 DEF DecodeStep, c, s
  <2>4. DecodeStep(buf, g, i) =
            IF c = NoChar \/ g[i + c.size] = NoText THEN NoText
            ELSE <<Rune(c.rune)>> \o g[i + c.size]
    BY <1>2 DEF DecodeStep, c, s
  <2>5. CASE c = NoChar
    BY <2>3, <2>4, <2>5
  <2>6. CASE c # NoChar
    <3>1. c.size \in Nat /\ i + c.size \in (i + 1)..(n + 1)
      BY <2>2, <2>6
    <3>2. f[i + c.size] = g[i + c.size]
      BY <3>1 DEF AgreeBehind
    <3>3. QED
      BY <2>3, <2>4, <3>2
  <2>7. QED
    BY <2>5, <2>6
<1>3. QED
  BY <1>1, <1>2

\* A step of the decoding gives a text or none.
LEMMA StepType ==
    ASSUME NEW buf \in Seq(Bytes), NEW n \in Nat, n = Len(buf), NEW i \in 1..(n + 1),
           NEW f, \A j \in (i + 1)..(n + 1) : f[j] \in Seq(Nat)
    PROVE  DecodeStep(buf, f, i) \in Seq(Nat)
<1>1. CASE i > n
  BY <1>1 DEF DecodeStep
<1>2. CASE ~(i > n)
  <2> DEFINE s == SubSeq(buf, i, n)
             c == FirstChar(s)
  <2>1. s \in Seq(Bytes) /\ Len(s) = n - i + 1 /\ Len(s) >= 1
    BY <1>2, TailFacts
  <2> HIDE DEF s
  <2>2. \/ c = NoChar
        \/ c.size \in 1..(n - i + 1) /\ c.rune \in Nat
    <3> HIDE DEF c
    <3>1. \/ c = NoChar
          \/ c.size \in 1..Len(s) /\ c.rune \in Nat
      BY <2>1, FirstCharSize DEF c
    <3>2. QED
      BY <2>1, <3>1
  <2> HIDE DEF c
  <2>3. DecodeStep(buf, f, i) =
            IF c = NoChar \/ f[i + c.size] = NoText THEN NoText
            ELSE <<Rune(c.rune)>> \o f[i + c.size]
    BY <1>2 DEF DecodeStep, c, s
  <2>4. NoText \in Seq(Nat)
    BY DEF NoText
  <2>5. CASE c = NoChar
    <3>1. DecodeStep(buf, f, i) = NoText
      BY <2>3, <2>5
    <3>2. QED
      BY <2>4, <3>1
  <2>6. CASE c # NoChar
    <3>1. c.size \in Nat /\ i + c.size \in (i + 1)..(n + 1)
      BY <2>2, <2>6
    <3>2. PICK r \in Nat : r = Rune(c.rune)
      <4>1. 65533 \in Nat
        OBVIOUS
      <4>2. Rune(c.rune) \in Nat
        BY <2>2, <2>6, <4>1 DEF Rune
      <4>3. QED
        BY <4>2
    <3>3. PICK t \in Seq(Nat) : t = f[i + c.size]
      BY <3>1
    <3>4. <<r>> \o t \in Seq(Nat)
      OBVIOUS
    <3>5. QED
      BY <2>3, <2>4, <3>2, <3>3, <3>4
  <2>7. QED
    BY <2>5, <2>6
<1>3. QED
  BY <1>1, <1>2

\* f has its value at the last j + 1 positions.
DecodesFrom(buf, n, f, j) ==
    /\ f = [i \in 1..(n + 1) |-> f[i]]
    /\ \A i \in (n + 1 - j)..(n + 1) : f[i] = DecodeStep(buf, f, i)

\* The decoding of the last j positions extends to one position more.
LEMMA OnePositionMore ==
    ASSUME NEW buf \in Seq(Bytes), NEW n \in Nat, n = Len(buf), NEW j \in 0..(n - 1),
           NEW f, DecodesFrom(buf, n, f, j)
    PROVE  \E g : DecodesFrom(buf, n, g, j + 1)
<1>1. PICK a \in Nat : a = n - j /\ a \in 1..n
  <2>1. n - j \in 1..n /\ n - j \in Nat
    OBVIOUS
  <2>2. QED
    BY <2>1
<1>2. n + 1 - j = a + 1 /\ n + 1 - (j + 1) = a
  BY <1>1
<1> DEFINE v == DecodeStep(buf, f, a)
           g == [f EXCEPT ![a] = v]
<1>3. f = [i \in 1..(n + 1) |-> f[i]] /\ \A i \in (a + 1)..(n + 1) : f[i] = DecodeStep(buf, f, i)
  BY <1>2 DEF DecodesFrom
<1>4. a \in 1..(n + 1)
  BY <1>1
<1>5. /\ g = [i \in 1..(n + 1) |-> g[i]]
      /\ g[a] = v
      /\ \A i \in 1..(n + 1) : i # a => g[i] = f[i]
  <2> HIDE DEF v
  <2>1. DOMAIN f = 1..(n + 1)
    BY <1>3
  <2>2. QED
    BY <1>3, <1>4, <2>1
<1> HIDE DEF g
<1>6. \A i \in (a + 1)..(n + 1) : i \in 1..(n + 1) /\ i # a /\ g[i] = f[i]
  BY <1>1, <1>5
<1>7. ASSUME NEW i \in a..(n + 1) PROVE g[i] = DecodeStep(buf, g, i)
  <2>1. i \in 1..(n + 1) /\ \A k \in (i + 1)..(n + 1) : k \in (a + 1)..(n + 1)
    BY <1>1
  <2>2. DecodeStep(buf, f, i) = DecodeStep(buf, g, i)
    <3>1. AgreeBehind(f, g, i, n)
      BY <1>6, <2>1 DEF AgreeBehind
    <3>2. QED
      BY <2>1, <3>1, StepLooksAhead
  <2>3. CASE i = a
    BY <1>5, <2>2, <2>3
  <2>4. CASE i # a
    <3>1. i \in (a + 1)..(n + 1)
      BY <1>1, <2>4
    <3>2. QED
      BY <1>3, <1>6, <2>2, <3>1
  <2>5. QED
    BY <2>3, <2>4
<1>8. DecodesFrom(buf, n, g, j + 1)
  BY <1>2, <1>5, <1>7 DEF DecodesFrom
<1>9. QED
  BY <1>8

\* What decodeModifiedUTF8 returns is a value that goes from position to position.
LEMMA DecodeIs ==
    ASSUME NEW buf \in Seq(Bytes), NEW n \in Nat, n = Len(buf)
    PROVE  \E f :
              /\ decodeModifiedUTF8(buf) = f[1]
              /\ \A i \in 1..(n + 1) : f[i] = DecodeStep(buf, f, i) /\ f[i] \in Seq(Nat)
<1> DEFINE T == {j \in 0..n : \E f : DecodesFrom(buf, n, f, j)}
<1>1. 0 \in T
  <2> DEFINE f == [i \in 1..(n + 1) |-> <<>>]
  <2>1. DecodeStep(buf, f, n + 1) = <<>>
    BY DEF DecodeStep
  <2>2. \A i \in (n + 1 - 0)..(n + 1) : i = n + 1
    OBVIOUS
  <2>3. DecodesFrom(buf, n, f, 0)
    <3>1. f[n + 1] = <<>> /\ f = [i \in 1..(n + 1) |-> f[i]]
      OBVIOUS
    <3> HIDE DEF f
    <3>2. QED
      BY <2>1, <2>2, <3>1 DEF DecodesFrom
  <2> HIDE DEF f
  <2>4. QED
    BY <2>3
<1>2. ASSUME NEW j \in 0..(n - 1), j \in T PROVE j + 1 \in T
  <2>1. PICK f : DecodesFrom(buf, n, f, j)
    BY <1>2
  <2>2. \E g : DecodesFrom(buf, n, g, j + 1)
    BY <2>1, OnePositionMore
  <2>3. QED
    BY <2>2
<1>3. n \in T
  <2> HIDE DEF T
  <2>1. 0..n \subseteq T
    BY <1>1, <1>2, Induction
  <2>2. QED
    BY <2>1
<1>4. PICK h : DecodesFrom(buf, n, h, n)
  BY <1>3
<1> DEFINE body(f) == [i \in 1..(Len(buf) + 1) |->
                           LET c    == FirstChar(SubSeq(buf, i, Len(buf)))
                               rest == f[i + c.size]
                           IN  IF i > Len(buf) THEN <<>>
                               ELSE IF c = NoChar \/ rest = NoText THEN NoText
                               ELSE <<Rune(c.rune)>> \o rest]
           from == CHOOSE f : f = body(f)
<1>5. \A f : body(f) = [i \in 1..(n + 1) |-> DecodeStep(buf, f, i)]
  BY DEF DecodeStep
<1>6. decodeModifiedUTF8(buf) = from[1]
  BY DEF decodeModifiedUTF8
<1>7. h = [i \in 1..(n + 1) |-> DecodeStep(buf, h, i)]
  <2>1. n + 1 - n = 1
    OBVIOUS
  <2>2. /\ h = [i \in 1..(n + 1) |-> h[i]]
        /\ \A i \in 1..(n + 1) : h[i] = DecodeStep(buf, h, i)
    BY <1>4, <2>1 DEF DecodesFrom
  <2>3. QED
    BY <2>2
<1>8. h = body(h)
  <2> HIDE DEF body
  <2>1. QED
    BY <1>5, <1>7
<1>9. from = body(from)
  <2> HIDE DEF body
  <2>1. QED
    BY <1>8, Zenon
<1>10. from = [i \in 1..(n + 1) |-> DecodeStep(buf, from, i)]
  <2> HIDE DEF body, from
  <2>1. QED
    BY <1>5, <1>9
<1> HIDE DEF from
<1>11. \A i \in 1..(n + 1) : from[i] = DecodeStep(buf, from, i)
  BY <1>10
<1> DEFINE U == {j \in 0..n : \A i \in (n + 1 - j)..(n + 1) : from[i] \in Seq(Nat)}
<1>12. 0 \in U
  <2>1. DecodeStep(buf, from, n + 1) = <<>>
    BY DEF DecodeStep
  <2>2. \A i \in (n + 1 - 0)..(n + 1) : i = n + 1
    OBVIOUS
  <2>3. n + 1 \in 1..(n + 1) /\ <<>> \in Seq(Nat)
    OBVIOUS
  <2>4. from[n + 1] \in Seq(Nat)
    BY <1>11, <2>1, <2>3
  <2>5. QED
    BY <2>2, <2>4
<1>13. ASSUME NEW j \in 0..(n - 1), j \in U PROVE j + 1 \in U
  <2>1. PICK a \in Nat : a = n - j /\ a \in 1..n
    OBVIOUS
  <2>2. n + 1 - j = a + 1 /\ n + 1 - (j + 1) = a /\ a \in 1..(n + 1)
    BY <2>1
  <2>3. \A i \in (a + 1)..(n + 1) : from[i] \in Seq(Nat)
    BY <1>13, <2>2
  <2>4. from[a] \in Seq(Nat)
    <3>1. DecodeStep(buf, from, a) \in Seq(Nat)
      BY <2>2, <2>3, StepType
    <3>2. QED
      BY <1>11, <2>2, <3>1
  <2>5. \A i \in a..(n + 1) : i = a \/ i \in (a + 1)..(n + 1)
    OBVIOUS
  <2>6. j + 1 \in 0..n
    OBVIOUS
  <2>7. QED
    BY <2>2, <2>3, <2>4, <2>5, <2>6
<1>14. n \in U
  <2> HIDE DEF U
  <2>1. 0..n \subseteq U
    BY <1>12, <1>13, Induction
  <2>2. QED
    BY <2>1
<1>15. \A i \in 1..(n + 1) : from[i] \in Seq(Nat)
  <2>1. n + 1 - n = 1
    OBVIOUS
  <2>2. QED
    BY <1>14, <2>1
<1>16. QED
  BY <1>6, <1>11, <1>15

\* Where the parts of a flattened sequence are: part k ends at End(q, k).
End(q, k) == Len(FlattenSeq(SubSeq(q, 1, k)))

PartAt(q, k) ==
    /\ End(q, k) = End(q, k - 1) + Len(q[k])
    /\ \A j \in 1..Len(q[k]) : FlattenSeq(q)[End(q, k - 1) + j] = q[k][j]

Parts(q) ==
    /\ End(q, 0) = 0 /\ End(q, Len(q)) = Len(FlattenSeq(q))
    /\ \A k \in 0..Len(q) : End(q, k) \in Nat /\ End(q, k) =< Len(FlattenSeq(q))
    /\ \A k \in 1..Len(q) : PartAt(q, k)

\* The positions of the parts when there is one part more.
LEMMA PartsAppend ==
    ASSUME NEW S, NEW q \in Seq(Seq(S)), NEW e \in Seq(S), Parts(q)
    PROVE  Parts(Append(q, e))
<1> DEFINE r == Append(q, e)
           x == FlattenSeq(q)
           y == FlattenSeq(r)
<1>1. PICK n \in Nat : n = Len(q)
  OBVIOUS
<1>2. r \in Seq(Seq(S)) /\ Len(r) = n + 1 /\ r[n + 1] = e /\ \A k \in 1..n : r[k] = q[k]
  BY <1>1
<1>3. x \in Seq(S) /\ y = x \o e
  BY FlattenAppend
<1>4. \A k \in 0..n : SubSeq(r, 1, k) = SubSeq(q, 1, k)
  <2>1. 1 \in 1..(Len(q) + 1)
    BY <1>1
  <2>2. QED
    BY <1>1, <2>1, SubSeqAppend
<1>5. SubSeq(r, 1, n + 1) = r
  <2> HIDE DEF r
  <2>1. QED
    BY <1>2, SubSeqFull
<1> HIDE DEF r
<1>6. PICK m \in Nat : m = Len(x)
  BY <1>3
<1>7. PICK l \in Nat : l = Len(e)
  OBVIOUS
<1> HIDE DEF x, y
<1>8. /\ Len(y) = m + l
      /\ \A i \in 1..m : y[i] = x[i]
      /\ \A j \in 1..l : y[m + j] = e[j]
  <2>1. /\ Len(x \o e) = Len(x) + Len(e)
        /\ \A i \in 1..(Len(x) + Len(e)) :
              (x \o e)[i] = IF i <= Len(x) THEN x[i] ELSE e[i - Len(x)]
    BY <1>3, ConcatProperties
  <2>2. QED
    BY <1>3, <1>6, <1>7, <2>1
<1>9. \A k \in 0..n : End(r, k) = End(q, k)
  BY <1>4 DEF End
<1>10. End(r, n + 1) = m + l
  BY <1>5, <1>8 DEF End, y
<1>11. /\ End(q, 0) = 0 /\ End(q, n) = m
       /\ \A k \in 0..n : End(q, k) \in Nat /\ End(q, k) =< m
       /\ \A k \in 1..n : PartAt(q, k)
  BY <1>1, <1>6 DEF Parts, x
<1>12. \A k \in 0..(n + 1) : End(r, k) \in Nat /\ End(r, k) =< m + l
  <2>1. ASSUME NEW k \in 0..n PROVE End(r, k) \in Nat /\ End(r, k) =< m + l
    <3>1. PICK a \in Nat : a = End(q, k) /\ a =< m
      BY <1>11
    <3>2. End(r, k) = a
      BY <1>9, <3>1
    <3>3. QED
      BY <3>1, <3>2
  <2>2. \A k \in 0..(n + 1) : k \in 0..n \/ k = n + 1
    OBVIOUS
  <2>3. m + l \in Nat /\ m + l =< m + l
    OBVIOUS
  <2>4. QED
    BY <1>10, <2>1, <2>2, <2>3
<1>13. ASSUME NEW k \in 1..(n + 1) PROVE PartAt(r, k)
  <2>1. CASE k \in 1..n
    <3>1. k - 1 \in 0..n /\ k \in 0..n
      BY <2>1
    <3>2. PICK a \in Nat : a = End(q, k - 1)
      BY <1>11, <3>1
    <3>3. PICK b \in Nat : b = Len(q[k])
      BY <1>1, <2>1
    <3>4. End(q, k) = a + b /\ \A j \in 1..b : x[a + j] = q[k][j]
      BY <1>11, <2>1, <3>2, <3>3 DEF PartAt, x
    <3>5. a + b =< m
      BY <1>11, <3>1, <3>4
    <3>6. \A j \in 1..b : a + j \in 1..m
      BY <3>5
    <3>7. End(r, k) = a + b /\ End(r, k - 1) = a /\ r[k] = q[k]
      BY <1>2, <1>9, <2>1, <3>1, <3>2, <3>4
    <3>8. \A j \in 1..b : y[a + j] = r[k][j]
      BY <1>8, <3>4, <3>6, <3>7
    <3>9. QED
      BY <3>3, <3>7, <3>8 DEF PartAt, y
  <2>2. CASE k = n + 1
    <3>1. k - 1 = n /\ n \in 0..n
      BY <2>2
    <3>2. End(r, k - 1) = m /\ End(r, k) = m + l /\ r[k] = e
      BY <1>2, <1>9, <1>10, <1>11, <2>2, <3>1
    <3>3. QED
      BY <1>7, <1>8, <3>2 DEF PartAt, y
  <2>3. QED
    BY <2>1, <2>2
<1>14. End(r, 0) = 0
  BY <1>9, <1>11
<1>15. Parts(r)
  BY <1>2, <1>8, <1>10, <1>12, <1>13, <1>14 DEF Parts, y
<1>16. QED
  BY <1>15 DEF r

\* In a flattened sequence each part is where the ones before it end.
LEMMA FlattenParts ==
    ASSUME NEW S, NEW q \in Seq(Seq(S))
    PROVE  Parts(q)
<1> DEFINE T == {p \in Seq(Seq(S)) : Parts(p)}
<1>1. <<>> \in T
  <2>1. FlattenSeq(<<>>) = <<>> /\ Len(<<>>) = 0 /\ <<>> \in Seq(Seq(S))
    BY DEF FlattenSeq
  <2>2. SubSeq(<<>>, 1, 0) = <<>>
    BY SubSeqEmpty
  <2>3. End(<<>>, 0) = 0
    BY <2>1, <2>2 DEF End
  <2>4. \A k \in 0..0 : k = 0
    OBVIOUS
  <2>5. \A k \in 1..0 : FALSE
    OBVIOUS
  <2>6. Parts(<<>>)
    BY <2>1, <2>3, <2>4, <2>5 DEF Parts
  <2>7. QED
    BY <2>1, <2>6
<1>2. ASSUME NEW p \in Seq(Seq(S)), NEW e \in Seq(S), p \in T PROVE Append(p, e) \in T
  <2>1. Parts(Append(p, e))
    BY <1>2, PartsAppend
  <2>2. QED
    BY <2>1
<1>3. Seq(Seq(S)) \subseteq T
  <2> HIDE DEF T
  <2>1. QED
    BY <1>1, <1>2, SequenceInduction
<1>4. QED
  BY <1>3

\* The ends do not decrease.
LEMMA EndsGrow ==
    ASSUME NEW S, NEW q \in Seq(Seq(S)), NEW n \in Nat, n = Len(q), NEW k \in 0..n
    PROVE  \A m \in k..n : End(q, k) =< End(q, m)
<1> DEFINE T == {j \in 0..(n - k) : End(q, k) =< End(q, k + j)}
<1>1. /\ \A i \in 0..n : End(q, i) \in Nat
      /\ \A i \in 1..n : PartAt(q, i)
  BY FlattenParts DEF Parts
<1>2. 0 \in T
  BY <1>1
<1>3. ASSUME NEW j \in 0..(n - k - 1), j \in T PROVE j + 1 \in T
  <2>1. PICK i \in Nat :
           i = k + j + 1 /\ i \in 1..n /\ i - 1 = k + j /\ i - 1 \in 0..n /\ i \in 0..n
    <3>1. k + j + 1 \in Nat /\ k + j + 1 \in 1..n
      OBVIOUS
    <3>2. QED
      BY <3>1
  <2>2. End(q, i) = End(q, i - 1) + Len(q[i])
    BY <1>1, <2>1 DEF PartAt
  <2>3. Len(q[i]) \in Nat
    BY <2>1
  <2>4. End(q, i - 1) =< End(q, i)
    BY <1>1, <2>1, <2>2, <2>3
  <2>5. End(q, k) =< End(q, i - 1)
    BY <1>3, <2>1
  <2>6. End(q, k) \in Nat /\ End(q, i) \in Nat /\ End(q, i - 1) \in Nat
    BY <1>1, <2>1
  <2>7. End(q, k) =< End(q, i)
    BY <2>4, <2>5, <2>6
  <2>8. k + (j + 1) = i /\ j + 1 \in 0..(n - k)
    BY <2>1
  <2>9. QED
    BY <2>7, <2>8
<1>4. n - k \in Nat
  OBVIOUS
<1>5. 0..(n - k) \subseteq T
  <2> HIDE DEF T
  <2>1. QED
    BY <1>2, <1>3, <1>4, Induction
<1>6. \A m \in k..n : m - k \in 0..(n - k) /\ k + (m - k) = m
  OBVIOUS
<1>7. \A m \in k..n : m - k \in T
  BY <1>5, <1>6
<1>8. QED
  BY <1>6, <1>7

-----------------------------------------------------------------------------
(* Texts and their bytes *)

EncodedUnits(text) == [i \in DOMAIN text |-> EncodeUnit(text[i])]

\* The bytes of a text are those of its units, one after the other.
LEMMA EncodedUnitsType ==
    ASSUME NEW text \in Seq(Units)
    PROVE  /\ EncodedUnits(text) \in Seq(Seq(Bytes))
           /\ Len(EncodedUnits(text)) = Len(text)
           /\ Encode(text) = FlattenSeq(EncodedUnits(text))
           /\ Encode(text) \in Seq(Bytes)
           /\ \A i \in 1..Len(text) :
                 /\ EncodedUnits(text)[i] = EncodeUnit(text[i])
                 /\ Decodes(text[i], EncodedUnits(text)[i])
<1> DEFINE q == EncodedUnits(text)
<1>1. PICK n \in Nat : n = Len(text) /\ DOMAIN text = 1..n
  OBVIOUS
<1>2. \A i \in 1..n : text[i] \in Units
  BY <1>1
<1>3. q = [i \in 1..n |-> EncodeUnit(text[i])]
  BY <1>1 DEF EncodedUnits
<1>4. \A i \in 1..n : Decodes(text[i], EncodeUnit(text[i]))
  BY <1>2, UnitDecodes
<1>5. \A i \in 1..n : EncodeUnit(text[i]) \in Seq(Bytes)
  BY <1>4 DEF Decodes
<1>6. q \in Seq(Seq(Bytes)) /\ Len(q) = n /\ \A i \in 1..n : q[i] = EncodeUnit(text[i])
  BY <1>3, <1>5
<1>7. Encode(text) = FlattenSeq(q)
  BY DEF Encode, EncodedUnits
<1> HIDE DEF q
<1>8. FlattenSeq(q) \in Seq(Bytes)
  <2>1. PICK e : e \in Seq(Bytes)
    <3>1. <<>> \in Seq(Bytes)
      OBVIOUS
    <3>2. QED
      BY <3>1
  <2>2. QED
    BY <1>6, <2>1, FlattenAppend
<1>9. QED
  BY <1>1, <1>4, <1>6, <1>7, <1>8 DEF q

\* Where the first k units end is as far as their own encoding goes.
LEMMA EncodedPrefix ==
    ASSUME NEW text \in Seq(Units), NEW k \in 0..Len(text)
    PROVE  /\ SubSeq(text, 1, k) \in Seq(Units) /\ Len(SubSeq(text, 1, k)) = k
           /\ End(EncodedUnits(text), k) = Len(Encode(SubSeq(text, 1, k)))
<1> DEFINE s == SubSeq(text, 1, k)
           q == EncodedUnits(text)
           p == SubSeq(q, 1, k)
           r == EncodedUnits(s)
<1>1. PICK n \in Nat : n = Len(text) /\ k \in Int /\ k =< n
  OBVIOUS
<1>2. \A i \in 1..k : i \in 1..n /\ text[i] \in Units
  BY <1>1
<1>3. s \in Seq(Units) /\ Len(s) = k /\ \A i \in 1..k : s[i] = text[i]
  <2>1. \A i \in 1..k : text[i] \in Units
    BY <1>2
  <2>2. /\ SubSeq(text, 1, k) \in Seq(Units)
        /\ Len(SubSeq(text, 1, k)) = IF 1 <= k THEN k - 1 + 1 ELSE 0
        /\ \A i \in 1..(k - 1 + 1) : SubSeq(text, 1, k)[i] = text[1 + i - 1]
    BY <1>1, <2>1, SubSeqProperties
  <2>3. k - 1 + 1 = k /\ \A i \in 1..k : 1 + i - 1 = i
    BY <1>1
  <2>4. QED
    BY <1>1, <2>2, <2>3
<1>4. q \in Seq(Seq(Bytes)) /\ Len(q) = n /\ \A i \in 1..n : q[i] = EncodeUnit(text[i])
  BY <1>1, EncodedUnitsType
<1> HIDE DEF s, q
<1>5. r \in Seq(Seq(Bytes)) /\ Len(r) = k /\ \A i \in 1..k : r[i] = EncodeUnit(s[i])
  BY <1>3, EncodedUnitsType
<1>6. p \in Seq(Seq(Bytes)) /\ Len(p) = k /\ \A i \in 1..k : p[i] = q[i]
  <2>1. \A i \in 1..k : q[i] \in Seq(Bytes)
    BY <1>2, <1>4
  <2>2. /\ SubSeq(q, 1, k) \in Seq(Seq(Bytes))
        /\ Len(SubSeq(q, 1, k)) = IF 1 <= k THEN k - 1 + 1 ELSE 0
        /\ \A i \in 1..(k - 1 + 1) : SubSeq(q, 1, k)[i] = q[1 + i - 1]
    BY <1>1, <2>1, SubSeqProperties
  <2>3. k - 1 + 1 = k /\ \A i \in 1..k : 1 + i - 1 = i
    BY <1>1
  <2>4. QED
    BY <1>1, <2>2, <2>3
<1> HIDE DEF p, r
<1>7. p = r
  <2>1. \A i \in 1..k : p[i] = r[i]
    BY <1>2, <1>3, <1>4, <1>5, <1>6
  <2>2. QED
    BY <1>5, <1>6, <2>1, SeqEqual
<1>8. Encode(s) = FlattenSeq(r)
  BY <1>3, EncodedUnitsType DEF r
<1>9. End(q, k) = Len(FlattenSeq(p))
  BY DEF End, p
<1>10. QED
  BY <1>3, <1>7, <1>8, <1>9 DEF q, s

\* buf holds the first n bytes of a text, and f what is decoded from each position.
Reads(text, n, buf, f) ==
    /\ text \in Seq(Units)
    /\ n \in 0..Len(Encode(text))
    /\ buf = SubSeq(Encode(text), 1, n)
    /\ \A i \in 1..(n + 1) : f[i] = DecodeStep(buf, f, i) /\ f[i] \in Seq(Nat)

\* The first n bytes of a text as a buffer.
LEMMA ReadBuffer ==
    ASSUME NEW text, NEW n, NEW buf, NEW f, Reads(text, n, buf, f)
    PROVE  /\ n \in Nat /\ n =< Len(Encode(text)) /\ Len(Encode(text)) \in Nat
           /\ buf \in Seq(Bytes) /\ Len(buf) = n
           /\ \A i \in 1..n : buf[i] = Encode(text)[i]
<1> DEFINE bytes == Encode(text)
<1>1. bytes \in Seq(Bytes) /\ n \in 0..Len(bytes) /\ buf = SubSeq(bytes, 1, n)
  BY EncodedUnitsType DEF Reads
<1> HIDE DEF bytes
<1>2. PICK m \in Nat : m = Len(bytes)
  BY <1>1
<1>3. n \in Int /\ n \in Nat /\ n =< m
  BY <1>1, <1>2
<1>4. \A i \in 1..n : bytes[i] \in Bytes
  BY <1>1, <1>2, <1>3
<1>5. /\ SubSeq(bytes, 1, n) \in Seq(Bytes)
      /\ Len(SubSeq(bytes, 1, n)) = IF 1 <= n THEN n - 1 + 1 ELSE 0
      /\ \A i \in 1..(n - 1 + 1) : SubSeq(bytes, 1, n)[i] = bytes[1 + i - 1]
  BY <1>3, <1>4, SubSeqProperties
<1>6. n - 1 + 1 = n /\ \A i \in 1..n : 1 + i - 1 = i
  BY <1>3
<1>7. QED
  BY <1>1, <1>2, <1>3, <1>5, <1>6 DEF bytes

\* At the begin of a unit the decoding takes the unit, or fails if it is cut.
LEMMA DecodeUnit ==
    ASSUME NEW text, NEW n, NEW buf, NEW f, Reads(text, n, buf, f),
           NEW k \in 1..Len(text), NEW a, a = End(EncodedUnits(text), k - 1),
           NEW b, b = End(EncodedUnits(text), k), a < n
    PROVE  /\ a \in Nat /\ b \in Nat /\ a < b
           /\ f[a + 1] = IF b > n \/ f[b + 1] = NoText THEN NoText
                         ELSE <<Rune(text[k])>> \o f[b + 1]
<1> DEFINE q == EncodedUnits(text)
           u == q[k]
           bytes == Encode(text)
           s == SubSeq(buf, a + 1, n)
           c == FirstChar(s)
<1>1. /\ n \in Nat /\ n =< Len(bytes) /\ Len(bytes) \in Nat
      /\ buf \in Seq(Bytes) /\ Len(buf) = n
      /\ \A i \in 1..n : buf[i] = bytes[i]
  BY ReadBuffer
<1>2. text \in Seq(Units)
  BY DEF Reads
<1>3. q \in Seq(Seq(Bytes)) /\ Len(q) = Len(text) /\ bytes = FlattenSeq(q)
      /\ Decodes(text[k], u)
  BY <1>2, EncodedUnitsType
<1>4. Parts(q)
  BY <1>3, FlattenParts
<1>5. PICK l \in 1..3 : l = Len(u)
  BY <1>3 DEF Decodes
<1>6. k - 1 \in 0..Len(q) /\ k \in 1..Len(q)
  BY <1>3
<1>7. a \in Nat /\ b = a + l /\ \A j \in 1..l : bytes[a + j] = u[j]
  BY <1>3, <1>4, <1>5, <1>6 DEF Parts, PartAt
<1>8. a + 1 \in 1..n
  BY <1>1, <1>7
<1> HIDE DEF q, u, bytes, s, c
<1>9. PICK m \in Nat : m = n - a
  BY <1>1, <1>7, <1>8
<1>10. /\ s \in Seq(Bytes) /\ Len(s) = m /\ m >= 1
       /\ \A j \in 1..m : s[j] = buf[a + j]
  <2>1. /\ s \in Seq(Bytes) /\ Len(s) = n - (a + 1) + 1 /\ Len(s) >= 1
        /\ \A j \in 1..(n - (a + 1) + 1) : s[j] = buf[(a + 1) + j - 1]
    BY <1>1, <1>8, TailFacts DEF s
  <2>2. n - (a + 1) + 1 = m
    BY <1>1, <1>7, <1>9
  <2>3. \A j \in 1..m : (a + 1) + j - 1 = a + j
    BY <1>7
  <2>4. QED
    BY <2>1, <2>2, <2>3
<1>11. Begins(s, u)
  <2>1. ASSUME NEW j \in 1..l, j =< m PROVE s[j] = u[j]
    <3>1. j \in 1..m /\ a + j \in 1..n
      BY <1>1, <1>7, <1>9, <2>1
    <3>2. QED
      BY <1>1, <1>7, <1>10, <3>1
  <2>2. QED
    BY <1>5, <1>10, <2>1 DEF Begins
<1>12. c = IF m >= l THEN Char(l, text[k]) ELSE NoChar
  BY <1>3, <1>5, <1>10, <1>11 DEF Decodes, c
<1>13. f[a + 1] = IF c = NoChar \/ f[(a + 1) + c.size] = NoText THEN NoText
                  ELSE <<Rune(c.rune)>> \o f[(a + 1) + c.size]
  <2>1. a + 1 \in 1..(n + 1) /\ ~(a + 1 > n)
    BY <1>1, <1>8
  <2>2. f[a + 1] = DecodeStep(buf, f, a + 1)
    BY <2>1 DEF Reads
  <2>3. DecodeStep(buf, f, a + 1) =
            IF c = NoChar \/ f[(a + 1) + c.size] = NoText THEN NoText
            ELSE <<Rune(c.rune)>> \o f[(a + 1) + c.size]
    BY <1>1, <2>1 DEF DecodeStep, c, s
  <2>4. QED
    BY <2>2, <2>3
<1>14. CASE m >= l
  <2>1. /\ Char(l, text[k]) # NoChar
        /\ Char(l, text[k]).size = l /\ Char(l, text[k]).rune = text[k]
    BY DEF Char, NoChar
  <2>2. c # NoChar /\ c.size = l /\ c.rune = text[k]
    BY <1>12, <1>14, <2>1
  <2>3. (a + 1) + l = b + 1 /\ ~(b > n)
    BY <1>1, <1>7, <1>9, <1>14
  <2>4. QED
    BY <1>7, <1>13, <2>2, <2>3
<1>15. CASE ~(m >= l)
  <2>1. b > n
    BY <1>1, <1>7, <1>9, <1>15
  <2>2. c = NoChar
    BY <1>12, <1>15
  <2>3. QED
    BY <1>7, <1>13, <2>1, <2>2
<1>16. QED
  BY <1>14, <1>15

\* The units of a text end one to three bytes apart.
LEMMA UnitEnds ==
    ASSUME NEW text \in Seq(Units), NEW k \in 1..Len(text)
    PROVE  LET q == EncodedUnits(text) IN
           /\ End(q, k - 1) \in Nat /\ End(q, k) \in Nat
           /\ End(q, k - 1) < End(q, k)
<1> DEFINE q == EncodedUnits(text)
<1>1. q \in Seq(Seq(Bytes)) /\ Len(q) = Len(text) /\ Decodes(text[k], q[k])
  BY EncodedUnitsType
<1> HIDE DEF q
<1>2. Parts(q)
  BY <1>1, FlattenParts
<1>3. PICK l \in 1..3 : l = Len(q[k])
  BY <1>1 DEF Decodes
<1>4. k - 1 \in 0..Len(q) /\ k \in 1..Len(q) /\ k \in 0..Len(q)
  BY <1>1
<1>5. End(q, k - 1) \in Nat /\ End(q, k) = End(q, k - 1) + l
  BY <1>2, <1>3, <1>4 DEF Parts, PartAt
<1>6. QED
  BY <1>5 DEF q

\* What Go makes of a text is a text, and never the mark for none.
LEMMA ReturnedText ==
    ASSUME NEW t \in Seq(Units)
    PROVE  /\ Returned(t) \in Seq(Nat) /\ Len(Returned(t)) = Len(t)
           /\ \A i \in 1..Len(t) : Returned(t)[i] = Rune(t[i])
           /\ Returned(t) # NoText
<1> DEFINE s == Returned(t)
<1>1. \A c \in Units : Rune(c) \in Nat /\ Rune(c) # 65536
  <2> SUFFICES ASSUME NEW c \in Units PROVE Rune(c) \in Nat /\ Rune(c) # 65536
    OBVIOUS
  <2>1. Within(c, 0, 65535)
    BY DEF Within, Units
  <2>2. c \in Nat /\ c =< 65535
    BY <2>1, WithinIs
  <2>3. Rune(c) = c \/ Rune(c) = 65533
    <3> DEFINE half == c \in 55296..57343
    <3>1. Rune(c) = IF half THEN 65533 ELSE c
      BY DEF Rune
    <3> HIDE DEF half
    <3>2. QED
      BY <3>1
  <2>4. QED
    BY <2>2, <2>3
<1>2. PICK n \in Nat : n = Len(t) /\ DOMAIN t = 1..n
  OBVIOUS
<1>3. s = [i \in 1..n |-> Rune(t[i])] /\ \A i \in 1..n : t[i] \in Units
  BY <1>2 DEF Returned
<1> HIDE DEF s
<1>4. s \in Seq(Nat) /\ Len(s) = n /\ \A i \in 1..n : s[i] = Rune(t[i])
  BY <1>1, <1>3
<1>5. s # NoText
  <2> SUFFICES ASSUME s = NoText PROVE FALSE
    OBVIOUS
  <2>1. Len(NoText) = 1 /\ NoText[1] = 65536
    BY DEF NoText
  <2>2. n = 1 /\ s[1] = 65536
    <3>1. Len(s) = 1
      BY <2>1
    <3>2. s[1] = 65536
      BY <2>1
    <3>3. Len(s) = n
      BY <1>4
    <3>4. QED
      BY <3>1, <3>2, <3>3
  <2>3. s[1] # 65536
    BY <1>1, <1>3, <1>4, <2>2
  <2>4. QED
    BY <2>2, <2>3
<1>6. QED
  BY <1>2, <1>4, <1>5 DEF s

\* A part of a text that begins one unit earlier.
LEMMA ReturnedPart ==
    ASSUME NEW text \in Seq(Units), NEW m \in 0..Len(text), NEW k \in 1..m
    PROVE  /\ SubSeq(text, k + 1, m) \in Seq(Units)
           /\ Returned(SubSeq(text, k, m)) =
                 <<Rune(text[k])>> \o Returned(SubSeq(text, k + 1, m))
<1> DEFINE s == SubSeq(text, k, m)
           p == SubSeq(text, k + 1, m)
           x == Returned(s)
           y == Returned(p)
<1>1. PICK n \in Nat : n = Len(text) /\ m =< n /\ k =< m /\ k \in Nat /\ m \in Nat
  OBVIOUS
<1>2. \A i \in k..m : text[i] \in Units
  BY <1>1
<1>3. s \in Seq(Units) /\ Len(s) = m - k + 1 /\ \A i \in 1..(m - k + 1) : s[i] = text[k + i - 1]
  BY <1>1, <1>2, SubSeqProperties
<1>4. p \in Seq(Units) /\ Len(p) = m - k /\ \A i \in 1..(m - k) : p[i] = text[k + i]
  <2>1. \A i \in (k + 1)..m : text[i] \in Units
    BY <1>1, <1>2
  <2>2. /\ p \in Seq(Units)
        /\ Len(p) = IF k + 1 <= m THEN m - (k + 1) + 1 ELSE 0
        /\ \A i \in 1..(m - (k + 1) + 1) : p[i] = text[(k + 1) + i - 1]
    BY <1>1, <2>1, SubSeqProperties
  <2>3. m - (k + 1) + 1 = m - k /\ \A i \in 1..(m - k) : (k + 1) + i - 1 = k + i
    BY <1>1
  <2>4. k + 1 <= m \/ m - k = 0
    BY <1>1
  <2>5. QED
    BY <2>2, <2>3, <2>4
<1> HIDE DEF s, p
<1>5. PICK l \in Nat : l = m - k
  BY <1>1
<1>6. x \in Seq(Nat) /\ Len(x) = l + 1 /\ \A i \in 1..(l + 1) : x[i] = Rune(text[k + i - 1])
  <2>1. m - k + 1 = l + 1
    BY <1>5
  <2>2. QED
    BY <1>3, <2>1, ReturnedText
<1>7. y \in Seq(Nat) /\ Len(y) = l /\ \A i \in 1..l : y[i] = Rune(text[k + i])
  BY <1>4, <1>5, ReturnedText
<1> HIDE DEF x, y
<1>8. PICK r \in Nat : r = Rune(text[k])
  <2>1. 1 \in 1..(l + 1) /\ k + 1 - 1 = k /\ x[1] \in Nat
    BY <1>1, <1>6
  <2>2. x[1] = Rune(text[k])
    BY <1>6, <2>1
  <2>3. QED
    BY <2>1, <2>2
<1>9. x = <<r>> \o y
  <2> DEFINE z == <<r>> \o y
  <2>1. z \in Seq(Nat) /\ Len(z) = l + 1 /\ z[1] = r /\ \A i \in 2..(l + 1) : z[i] = y[i - 1]
    BY <1>7
  <2> HIDE DEF z
  <2>2. ASSUME NEW i \in 1..(l + 1) PROVE x[i] = z[i]
    <3>1. CASE i = 1
      <4>1. k + i - 1 = k
        BY <1>1, <3>1
      <4>2. x[i] = Rune(text[k])
        BY <1>6, <4>1
      <4>3. QED
        BY <1>8, <2>1, <3>1, <4>2
    <3>2. CASE i # 1
      <4>1. i - 1 \in 1..l /\ i \in 2..(l + 1) /\ k + (i - 1) = k + i - 1
        BY <1>1, <3>2
      <4>2. QED
        BY <1>6, <1>7, <2>1, <4>1
    <3>3. QED
      BY <3>1, <3>2
  <2>3. QED
    BY <1>6, <2>1, <2>2, SeqEqual DEF z
<1>10. QED
  BY <1>4, <1>8, <1>9 DEF s, p, x, y

\* The first n bytes of a text are decoded to the units they are the bytes of,
\* and to nothing if they end within a unit.
LEMMA DecodePrefix ==
    ASSUME NEW text, NEW n, NEW buf, NEW f, Reads(text, n, buf, f), NEW m \in 0..Len(text),
           End(EncodedUnits(text), m) = n
    PROVE  f[1] = Returned(SubSeq(text, 1, m))
<1> DEFINE q == EncodedUnits(text)
           T == {j \in 0..m : f[End(q, m - j) + 1] = Returned(SubSeq(text, (m - j) + 1, m))}
<1>1. text \in Seq(Units) /\ n \in Nat /\ Len(buf) = n
  BY ReadBuffer DEF Reads
<1>2. q \in Seq(Seq(Bytes)) /\ Len(q) = Len(text) /\ Parts(q)
  BY <1>1, EncodedUnitsType, FlattenParts
<1>3. PICK l \in Nat : l = Len(text) /\ m \in 0..l /\ m \in Nat
  BY <1>1
<1> HIDE DEF q
<1>4. 0 \in T
  <2>1. m - 0 = m /\ n + 1 \in 1..(n + 1) /\ n + 1 > n
    BY <1>1, <1>3
  <2>2. f[n + 1] = <<>>
    BY <1>1, <2>1 DEF Reads, DecodeStep
  <2>3. SubSeq(text, m + 1, m) = <<>>
    BY <1>3, SubSeqEmpty
  <2>4. Returned(<<>>) = <<>>
    <3>1. <<>> \in Seq(Units) /\ Len(<<>>) = 0
      OBVIOUS
    <3>2. Returned(<<>>) \in Seq(Nat) /\ Len(Returned(<<>>)) = 0
      BY <3>1, ReturnedText
    <3>3. QED
      BY <3>2
  <2>5. End(q, m) = n
    BY DEF q
  <2>6. 0 \in 0..m
    BY <1>3
  <2>7. QED
    BY <2>1, <2>2, <2>3, <2>4, <2>5, <2>6
<1>5. ASSUME NEW j \in 0..(m - 1), j \in T PROVE j + 1 \in T
  <2>1. m - j \in Nat /\ m - j \in 1..m
    BY <1>3
  <2>2. PICK k \in Nat : k = m - j /\ k \in 1..m
    BY <2>1
  <2>3. k \in 1..l /\ k \in 1..Len(text) /\ m - (j + 1) = k - 1 /\ j + 1 \in 0..m /\ m \in k..l
    BY <1>3, <2>2
  <2>4. PICK a : a = End(q, k - 1)
    OBVIOUS
  <2>5. PICK b : b = End(q, k)
    OBVIOUS
  <2>6. a \in Nat /\ b \in Nat /\ a < b
    BY <1>1, <2>3, <2>4, <2>5, UnitEnds DEF q
  <2>7. b =< n
    <3>1. k \in 0..l /\ End(q, m) = n
      BY <2>3 DEF q
    <3>2. \A i \in k..l : End(q, k) =< End(q, i)
      BY <1>2, <1>3, <3>1, EndsGrow
    <3>3. QED
      BY <2>3, <2>5, <3>1, <3>2
  <2>8. f[a + 1] = IF b > n \/ f[b + 1] = NoText THEN NoText
                   ELSE <<Rune(text[k])>> \o f[b + 1]
    <3>1. a < n
      BY <1>1, <2>6, <2>7
    <3>2. QED
      BY <2>3, <2>4, <2>5, <3>1, DecodeUnit DEF q
  <2>9. f[b + 1] = Returned(SubSeq(text, k + 1, m))
    BY <1>5, <2>2, <2>5
  <2>10. /\ SubSeq(text, k + 1, m) \in Seq(Units)
         /\ Returned(SubSeq(text, k, m)) = <<Rune(text[k])>> \o Returned(SubSeq(text, k + 1, m))
    BY <1>1, <1>3, <2>2, ReturnedPart
  <2>11. f[b + 1] # NoText
    BY <2>9, <2>10, ReturnedText
  <2>12. f[a + 1] = Returned(SubSeq(text, k, m))
    BY <1>1, <2>6, <2>7, <2>8, <2>9, <2>10, <2>11
  <2>13. (m - (j + 1)) + 1 = k
    BY <2>2, <2>3
  <2>14. QED
    BY <2>3, <2>4, <2>12, <2>13
<1>6. m \in T
  <2> HIDE DEF T
  <2>1. 0..m \subseteq T
    BY <1>3, <1>4, <1>5, Induction
  <2>2. m \in 0..m
    BY <1>3
  <2>3. QED
    BY <2>1, <2>2
<1>7. m - m = 0 /\ 0 + 1 = 1
  BY <1>3
<1>8. End(q, 0) = 0
  BY <1>2 DEF Parts
<1>9. QED
  BY <1>6, <1>7, <1>8

\* A buffer that ends within a unit is refused.
LEMMA DecodeCut ==
    ASSUME NEW text, NEW n, NEW buf, NEW f, Reads(text, n, buf, f),
           \A m \in 0..Len(text) : End(EncodedUnits(text), m) # n
    PROVE  f[1] = NoText
<1> DEFINE q == EncodedUnits(text)
           T == {j \in 0..Len(text) : End(q, j) < n}
<1>1. /\ text \in Seq(Units) /\ n \in Nat /\ n =< Len(Encode(text))
      /\ Len(Encode(text)) \in Nat
  BY ReadBuffer DEF Reads
<1>2. q \in Seq(Seq(Bytes)) /\ Len(q) = Len(text) /\ Parts(q) /\ Encode(text) = FlattenSeq(q)
  BY <1>1, EncodedUnitsType, FlattenParts
<1>3. PICK l \in Nat : l = Len(text)
  BY <1>1
<1> HIDE DEF q
<1>4. \A j \in 0..l : End(q, j) \in Nat /\ End(q, j) # n
  BY <1>2, <1>3 DEF Parts, q
<1>5. End(q, 0) = 0 /\ End(q, l) = Len(Encode(text))
  BY <1>2, <1>3 DEF Parts
<1>6. PICK k \in 0..(l - 1) : End(q, k) < n /\ ~(End(q, k + 1) < n)
  <2> SUFFICES ASSUME \A k \in 0..(l - 1) : End(q, k) < n => End(q, k + 1) < n
               PROVE  FALSE
    OBVIOUS
  <2>1. 0 \in T
    BY <1>1, <1>3, <1>4, <1>5
  <2>2. ASSUME NEW j \in 0..(l - 1), j \in T PROVE j + 1 \in T
    BY <1>3, <2>2
  <2>3. l \in T
    <3> HIDE DEF T
    <3>1. 0..l \subseteq T
      BY <1>3, <2>1, <2>2, Induction
    <3>2. QED
      BY <1>3, <3>1
  <2>4. End(q, l) < n
    BY <2>3
  <2>5. QED
    BY <1>1, <1>5, <2>4
<1> DEFINE U == {j \in 0..k : f[End(q, k - j) + 1] = NoText}
<1>7. 0 \in U
  <2>1. PICK i \in Nat : i = k + 1 /\ i \in 1..l /\ i - 1 = k /\ i \in 0..l
    BY <1>3
  <2>2. PICK a : a = End(q, i - 1) /\ a < n
    BY <1>6, <2>1
  <2>3. PICK b : b = End(q, i)
    OBVIOUS
  <2>4. b > n
    BY <1>1, <1>4, <1>6, <2>1, <2>3
  <2>5. f[a + 1] = NoText
    <3>1. i \in 1..Len(text)
      BY <1>3, <2>1
    <3>2. f[a + 1] = IF b > n \/ f[b + 1] = NoText THEN NoText
                     ELSE <<Rune(text[i])>> \o f[b + 1]
      BY <2>2, <2>3, <3>1, DecodeUnit DEF q
    <3>3. QED
      BY <2>4, <3>2
  <2>6. k - 0 = k /\ 0 \in 0..k
    OBVIOUS
  <2>7. QED
    BY <2>1, <2>2, <2>5, <2>6
<1>8. ASSUME NEW j \in 0..(k - 1), j \in U PROVE j + 1 \in U
  <2>1. k - j \in Nat /\ k - j \in 1..k
    BY <1>3
  <2>2. PICK i \in Nat : i = k - j /\ i \in 1..k
    BY <2>1
  <2>3. i \in 1..l /\ k - (j + 1) = i - 1 /\ j + 1 \in 0..k /\ k \in i..l /\ i \in 0..l
    BY <1>3, <2>2
  <2>4. PICK a : a = End(q, i - 1)
    OBVIOUS
  <2>5. PICK b : b = End(q, i)
    OBVIOUS
  <2>6. a \in Nat /\ b \in Nat /\ a < b
    BY <1>1, <1>3, <2>3, <2>4, <2>5, UnitEnds DEF q
  <2>7. b < n
    <3>1. \A x \in i..l : End(q, i) =< End(q, x)
      BY <1>2, <1>3, <2>3, EndsGrow
    <3>2. b =< End(q, k) /\ End(q, k) \in Nat /\ End(q, k) < n
      <4>1. k \in 0..l
        BY <1>3
      <4>2. QED
        BY <1>4, <1>6, <2>3, <2>5, <3>1, <4>1
    <3>3. QED
      BY <1>1, <2>6, <3>2
  <2>8. f[a + 1] = IF b > n \/ f[b + 1] = NoText THEN NoText
                   ELSE <<Rune(text[i])>> \o f[b + 1]
    <3>1. a < n
      BY <1>1, <2>6, <2>7
    <3>2. QED
      BY <1>3, <2>3, <2>4, <2>5, <3>1, DecodeUnit DEF q
  <2>9. f[b + 1] = NoText
    BY <1>8, <2>2, <2>5
  <2>10. f[a + 1] = NoText
    BY <2>8, <2>9
  <2>11. QED
    BY <2>3, <2>4, <2>10
<1>9. k \in U
  <2>1. k \in Nat /\ k \in 0..k
    OBVIOUS
  <2> HIDE DEF U
  <2>2. 0..k \subseteq U
    BY <1>7, <1>8, <2>1, Induction
  <2>3. QED
    BY <2>1, <2>2
<1>10. k - k = 0 /\ 0 + 1 = 1
  BY <1>3
<1>11. QED
  BY <1>5, <1>9, <1>10

\* What decodeModifiedUTF8 makes of the first n bytes of a text: the units that end
\* there, or nothing if one is cut; of all bytes it makes the text.
THEOREM DecodeText ==
    ASSUME NEW text \in Seq(Units), NEW n \in 0..Len(Encode(text)),
           NEW value, value = decodeModifiedUTF8(SubSeq(Encode(text), 1, n))
    PROVE  /\ value \in Seq(Nat)
           /\ \/ value = NoText
              \/ /\ value # NoText
                 /\ \E m \in 0..Len(text) :
                       /\ Len(Encode(SubSeq(text, 1, m))) = n
                       /\ value = Returned(SubSeq(text, 1, m))
           /\ n = Len(Encode(text)) => value = Returned(text)
<1> DEFINE bytes == Encode(text)
           buf == SubSeq(bytes, 1, n)
           q == EncodedUnits(text)
<1>1. PICK l \in Nat : l = Len(text)
  OBVIOUS
<1>2. bytes \in Seq(Bytes) /\ q \in Seq(Seq(Bytes)) /\ Len(q) = l /\ bytes = FlattenSeq(q)
  BY <1>1, EncodedUnitsType
<1>3. buf \in Seq(Bytes) /\ Len(buf) = n /\ n \in Nat
  <2> HIDE DEF bytes
  <2>1. PICK k \in Nat : k = Len(bytes)
    BY <1>2
  <2>2. n \in Int /\ n \in Nat /\ n =< k
    BY <2>1 DEF bytes
  <2>3. \A i \in 1..n : bytes[i] \in Bytes
    BY <1>2, <2>1, <2>2
  <2>4. /\ SubSeq(bytes, 1, n) \in Seq(Bytes)
        /\ Len(SubSeq(bytes, 1, n)) = IF 1 <= n THEN n - 1 + 1 ELSE 0
    BY <2>2, <2>3, SubSeqProperties
  <2>5. QED
    BY <2>2, <2>4
<1> HIDE DEF bytes, buf, q
<1>4. PICK f :
         /\ decodeModifiedUTF8(buf) = f[1]
         /\ \A i \in 1..(n + 1) : f[i] = DecodeStep(buf, f, i) /\ f[i] \in Seq(Nat)
  BY <1>3, DecodeIs
<1>5. Reads(text, n, buf, f)
  BY <1>4 DEF Reads, buf, bytes
<1>6. value = f[1]
  BY <1>4 DEF buf, bytes
<1>7. value \in Seq(Nat)
  <2>1. 1 \in 1..(n + 1)
    BY <1>3
  <2>2. QED
    BY <1>4, <1>6, <2>1
<1>8. ASSUME NEW m \in 0..l, End(q, m) = n
      PROVE  /\ Len(Encode(SubSeq(text, 1, m))) = n
             /\ value = Returned(SubSeq(text, 1, m))
             /\ value # NoText
  <2>1. m \in 0..Len(text)
    BY <1>1
  <2>2. f[1] = Returned(SubSeq(text, 1, m))
    BY <1>5, <1>8, <2>1, DecodePrefix DEF q
  <2>3. /\ SubSeq(text, 1, m) \in Seq(Units)
        /\ End(q, m) = Len(Encode(SubSeq(text, 1, m)))
    BY <2>1, EncodedPrefix DEF q
  <2>4. Returned(SubSeq(text, 1, m)) # NoText
    BY <2>3, ReturnedText
  <2>5. QED
    BY <1>6, <1>8, <2>2, <2>3, <2>4
<1>9. ASSUME \A m \in 0..l : End(q, m) # n
      PROVE  value = NoText
  BY <1>1, <1>5, <1>6, <1>9, DecodeCut DEF q
<1>10. ASSUME n = Len(bytes) PROVE value = Returned(text)
  <2>1. l \in 0..l /\ End(q, l) = n
    BY <1>1, <1>2, <1>10, FlattenParts DEF Parts
  <2>2. SubSeq(text, 1, l) = text
    BY <1>1, SubSeqFull
  <2>3. QED
    BY <1>8, <2>1, <2>2
<1>11. QED
  <2>1. n = Len(Encode(text)) => value = Returned(text)
    BY <1>10 DEF bytes
  <2>2. \/ value = NoText
        \/ /\ value # NoText
           /\ \E m \in 0..Len(text) :
                 /\ Len(Encode(SubSeq(text, 1, m))) = n
                 /\ value = Returned(SubSeq(text, 1, m))
    BY <1>1, <1>8, <1>9
  <2>3. QED
    BY <1>7, <2>1, <2>2
-----------------------------------------------------------------------------
(* The file as it was written *)

\* The bytes, as a comparison.
LEMMA BytesAre == \A b : b \in Bytes <=> b \in Nat /\ b =< 255
<1> SUFFICES ASSUME NEW b PROVE b \in Bytes <=> b \in Nat /\ b =< 255
  OBVIOUS
<1>1. b \in Bytes <=> Within(b, 0, 255)
  BY DEF Bytes, Within
<1>2. QED
  BY <1>1, WithinIs

\* The two bytes of a number.
LEMMA Divided256 ==
    ASSUME NEW n \in Nat
    PROVE  n \div 256 \in Nat /\ n % 256 \in Nat /\ n % 256 =< 255
           /\ (n \div 256) * 256 + (n % 256) = n
<1>1. n \div 256 \in Nat
  OBVIOUS
<1>2. n % 256 \in Nat /\ n % 256 =< 255
  OBVIOUS
<1>3. (n \div 256) * 256 + (n % 256) = n
  OBVIOUS
<1>4. QED
  BY <1>1, <1>2, <1>3

\* The two bytes of a length.
LEMMA Uint16Is ==
    ASSUME NEW n \in Nat, n =< 65535
    PROVE  \E h \in Nat, l \in Nat :
              /\ h =< 255 /\ l =< 255 /\ l = n % 256
              /\ Uint16(n) = <<h, l>> /\ h * 256 + l = n
<1> DEFINE h == n \div 256
           l == n % 256
<1>1. h \in Nat /\ l \in Nat /\ l =< 255 /\ h * 256 + l = n
  BY Divided256
<1>2. Uint16(n) = <<h, l>>
  BY DEF Uint16
<1>3. l = n % 256
  OBVIOUS
<1> HIDE DEF h, l
<1>4. h =< 255
  BY <1>1
<1>5. QED
  BY <1>1, <1>2, <1>3, <1>4

\* ts was written, with the length n in front of the first text.
Written(ts, n) == ts \in [1..Fields -> Texts] /\ n \in 0..Len(Encode(ts[1]))

FieldLength(ts, n, i) == IF i = 1 THEN n ELSE Len(Encode(ts[i]))

ImageFields(ts, n) ==
    [i \in DOMAIN ts |-> IF i = 1 THEN Uint16(n) \o Encode(ts[i]) ELSE WriteUTF(ts[i])]

\* The texts of a file are sequences of units whose bytes two bytes can count.
LEMMA TextsAreUnits ==
    ASSUME NEW t \in Texts
    PROVE  t \in Seq(Units) /\ Len(Encode(t)) \in Nat /\ Len(Encode(t)) =< 65535
<1>1. \A s \in Texts : s \in Seq(Units) /\ Len(Encode(s)) < 65536
  BY TextsAssumption
<1>2. t \in Seq(Units) /\ Len(Encode(t)) < 65536
  BY <1>1
<1>3. PICK b \in Seq(Bytes) : b = Encode(t)
  BY <1>2, EncodedUnitsType
<1>4. QED
  BY <1>2, <1>3

\* The field of a text: its length, or the wrong one, and its bytes.
LEMMA ImageField ==
    ASSUME NEW ts, NEW n, Written(ts, n), NEW i \in 1..Fields
    PROVE  /\ ts[i] \in Texts /\ Encode(ts[i]) \in Seq(Bytes)
           /\ FieldLength(ts, n, i) \in Nat
           /\ FieldLength(ts, n, i) =< Len(Encode(ts[i]))
           /\ FieldLength(ts, n, i) =< 65535
           /\ ImageFields(ts, n)[i] = Uint16(FieldLength(ts, n, i)) \o Encode(ts[i])
<1>1. DOMAIN ts = 1..Fields /\ ts[i] \in Texts /\ (i = 1 => n \in 0..Len(Encode(ts[i])))
  BY DEF Written
<1>2. PICK m \in Nat : m = Len(Encode(ts[i])) /\ m =< 65535
  BY <1>1, TextsAreUnits
<1>3. FieldLength(ts, n, i) \in Nat /\ FieldLength(ts, n, i) =< m
  BY <1>1, <1>2 DEF FieldLength
<1>4. ImageFields(ts, n)[i] = Uint16(FieldLength(ts, n, i)) \o Encode(ts[i])
  BY <1>1 DEF ImageFields, FieldLength, WriteUTF
<1>5. Encode(ts[i]) \in Seq(Bytes)
  BY <1>1, TextsAreUnits, EncodedUnitsType
<1>6. QED
  BY <1>1, <1>2, <1>3, <1>4, <1>5

IsField(u, e, m, b) ==
    /\ Len(u) = e + 2
    /\ u[1] * 256 + u[2] = m
    /\ \A j \in 1..e : u[j + 2] = b[j]

\* A field is the two bytes of a number and the bytes of a text.
LEMMA FieldBytes ==
    ASSUME NEW ts, NEW n, Written(ts, n), NEW i \in 1..Fields,
           NEW u, u = ImageFields(ts, n)[i], NEW e, e = Len(Encode(ts[i]))
    PROVE  u \in Seq(Bytes) /\ e \in Nat /\ IsField(u, e, FieldLength(ts, n, i), Encode(ts[i]))
<1> DEFINE m == FieldLength(ts, n, i)
           b == Encode(ts[i])
<1>1. m \in Nat /\ m =< 65535 /\ b \in Seq(Bytes) /\ u = Uint16(m) \o b
  BY ImageField
<1> HIDE DEF m, b
<1>2. PICK h \in Nat, l \in Nat :
         /\ h =< 255 /\ l =< 255 /\ l = m % 256
         /\ Uint16(m) = <<h, l>> /\ h * 256 + l = m
  BY <1>1, Uint16Is
<1>3. PICK k \in Nat : k = Len(b)
  BY <1>1
<1>4. h \in Bytes /\ l \in Bytes
  BY <1>2, BytesAre
<1>5. <<h, l>> \in Seq(Bytes) /\ Len(<<h, l>>) = 2
  BY <1>4
<1>6. PICK w : w = <<h, l>>
  OBVIOUS
<1>7. /\ w \in Seq(Bytes) /\ Len(w) = 2 /\ w[1] = h /\ w[2] = l /\ u = w \o b
  BY <1>1, <1>2, <1>5, <1>6
<1>8. /\ w \o b \in Seq(Bytes) /\ Len(w \o b) = 2 + k
      /\ \A j \in 1..(2 + k) : (w \o b)[j] = IF j <= 2 THEN w[j] ELSE b[j - 2]
  <2>1. b \in Seq(Bytes) /\ w \in Seq(Bytes)
    BY <1>1, <1>7
  <2>2. /\ w \o b \in Seq(Bytes) /\ Len(w \o b) = Len(w) + Len(b)
        /\ \A j \in 1..(Len(w) + Len(b)) :
              (w \o b)[j] = IF j <= Len(w) THEN w[j] ELSE b[j - Len(w)]
    BY <2>1, ConcatProperties
  <2>3. QED
    BY <1>3, <1>7, <2>2
<1>9. u \in Seq(Bytes) /\ Len(u) = 2 + k
      /\ \A j \in 1..(2 + k) : u[j] = IF j <= 2 THEN w[j] ELSE b[j - 2]
  BY <1>7, <1>8
<1>10. u[1] = h /\ u[2] = l
  <2>1. 1 \in 1..(2 + k) /\ 2 \in 1..(2 + k) /\ 1 <= 2 /\ 2 <= 2
    OBVIOUS
  <2>2. QED
    BY <1>7, <1>9, <2>1
<1>11. \A j \in 1..k : u[j + 2] = b[j]
  <2>1. \A j \in 1..k : j + 2 \in 1..(2 + k) /\ ~(j + 2 <= 2) /\ (j + 2) - 2 = j
    OBVIOUS
  <2>2. QED
    BY <1>9, <2>1
<1>12. e = k
  BY <1>3 DEF b
<1>13. QED
  <2>1. Len(u) = e + 2 /\ e \in Nat
    BY <1>9, <1>12
  <2>2. u[1] * 256 + u[2] = m
    BY <1>2, <1>10
  <2>4. \A j \in 1..e : u[j + 2] = b[j]
    BY <1>11, <1>12
  <2>5. IsField(u, e, m, b)
    BY <1>9, <2>1, <2>2, <2>4 DEF IsField
  <2>6. QED
    BY <1>9, <2>1, <2>5 DEF m, b

\* A file is the bytes of its fields.
LEMMA ImageType ==
    ASSUME NEW ts, NEW n, Written(ts, n)
    PROVE  /\ ImageFields(ts, n) \in Seq(Seq(Bytes)) /\ Len(ImageFields(ts, n)) = Fields
           /\ Image(ts, n) = FlattenSeq(ImageFields(ts, n))
           /\ Image(ts, n) \in Seq(Bytes)
           /\ Parts(ImageFields(ts, n))
<1> DEFINE q == ImageFields(ts, n)
<1>1. Image(ts, n) = FlattenSeq(q)
  BY DEF Image, ImageFields
<1>2. DOMAIN ts = 1..Fields /\ Fields \in Nat
  BY FieldsAssumption DEF Written
<1>3. \A i \in 1..Fields : q[i] \in Seq(Bytes)
  <2> SUFFICES ASSUME NEW i \in 1..Fields PROVE q[i] \in Seq(Bytes)
    OBVIOUS
  <2>1. PICK e : e = Len(Encode(ts[i]))
    OBVIOUS
  <2> HIDE DEF q
  <2>2. PICK u : u = q[i]
    OBVIOUS
  <2>3. u \in Seq(Bytes)
    BY <2>1, <2>2, FieldBytes DEF q
  <2>4. QED
    BY <2>2, <2>3
<1>4. q = [i \in 1..Fields |-> q[i]]
  BY <1>2 DEF ImageFields
<1> HIDE DEF q
<1>5. q \in Seq(Seq(Bytes)) /\ Len(q) = Fields
  BY <1>2, <1>3, <1>4
<1>6. FlattenSeq(q) \in Seq(Bytes)
  <2>1. PICK e : e \in Seq(Bytes)
    <3>1. <<>> \in Seq(Bytes)
      OBVIOUS
    <3>2. QED
      BY <3>1
  <2>2. QED
    BY <1>5, <2>1, FlattenAppend
<1>7. QED
  BY <1>1, <1>5, <1>6, FlattenParts DEF q

\* file is the image of ts, or some of its first bytes.
Truncated(file0, ts, n) ==
    \E size \in 0..Len(Image(ts, n)) : file0 = SubSeq(Image(ts, n), 1, size)

\* What there is of a file agrees with what was written.
LEMMA TruncatedType ==
    ASSUME NEW ts, NEW n, Written(ts, n), NEW s, Truncated(s, ts, n)
    PROVE  /\ s \in Seq(Bytes) /\ Len(s) \in Nat /\ Len(Image(ts, n)) \in Nat
           /\ Len(s) =< Len(Image(ts, n))
           /\ \A i \in 1..Len(s) : s[i] = Image(ts, n)[i]
           /\ Len(s) = Len(Image(ts, n)) => s = Image(ts, n)
<1> DEFINE image == Image(ts, n)
<1>1. image \in Seq(Bytes)
  BY ImageType
<1>2. PICK size \in 0..Len(image) : s = SubSeq(image, 1, size)
  BY DEF Truncated
<1> HIDE DEF image
<1>3. PICK m \in Nat : m = Len(image)
  BY <1>1
<1>4. size \in Int /\ size \in Nat /\ size =< m
  BY <1>3
<1>5. \A i \in 1..size : image[i] \in Bytes
  BY <1>1, <1>3, <1>4
<1>6. /\ SubSeq(image, 1, size) \in Seq(Bytes)
      /\ Len(SubSeq(image, 1, size)) = IF 1 <= size THEN size - 1 + 1 ELSE 0
      /\ \A i \in 1..(size - 1 + 1) : SubSeq(image, 1, size)[i] = image[1 + i - 1]
  BY <1>4, <1>5, SubSeqProperties
<1>7. size - 1 + 1 = size /\ \A i \in 1..size : 1 + i - 1 = i
  BY <1>4
<1>8. s \in Seq(Bytes) /\ Len(s) = size /\ \A i \in 1..size : s[i] = image[i]
  BY <1>2, <1>4, <1>6, <1>7
<1>9. size = m => s = image
  BY <1>1, <1>2, <1>3, SubSeqFull
<1>10. QED
  BY <1>3, <1>4, <1>8, <1>9 DEF image

\* s has at o, r bytes before its end, the length m and a text of the bytes b; the
\* whole file has size bytes, and its next field is at next.
IsFieldAt(s, o, r, m, b, next, size) ==
    /\ o \in Nat /\ m \in 0..Len(b)
    /\ next = o + 2 + Len(b) /\ next \in Nat /\ next =< size
    /\ r >= 2 => s[o + 1] * 256 + s[o + 2] = m
    /\ r >= 2 + m => SubSeq(s, o + 3, o + 2 + m) = SubSeq(b, 1, m)

\* What ReadUTF sees at the place where a field begins, in a file that goes r
\* bytes farther.
LEMMA FieldAt ==
    ASSUME NEW ts, NEW n, Written(ts, n), NEW s, Truncated(s, ts, n), NEW i \in 1..Fields,
           NEW o, o = End(ImageFields(ts, n), i - 1), NEW r, r = Len(s) - o,
           NEW m, m = FieldLength(ts, n, i)
    PROVE  IsFieldAt(s, o, r, m, Encode(ts[i]), End(ImageFields(ts, n), i), Len(Image(ts, n)))
<1> DEFINE q == ImageFields(ts, n)
           image == Image(ts, n)
           b == Encode(ts[i])
           u == q[i]
<1>1. q \in Seq(Seq(Bytes)) /\ Len(q) = Fields /\ Parts(q) /\ image = FlattenSeq(q)
  BY ImageType
<1>2. PICK l \in Nat : l = Len(s)
  BY TruncatedType
<1>3. /\ s \in Seq(Bytes) /\ l =< Len(image) /\ Len(image) \in Nat
      /\ \A j \in 1..l : s[j] = image[j]
  BY <1>2, TruncatedType
<1>4. b \in Seq(Bytes) /\ m \in Nat /\ m =< Len(b)
  BY ImageField
<1> HIDE DEF b, u
<1>5. PICK e \in Nat : e = Len(b)
  BY <1>4
<1>6. /\ Len(u) = e + 2 /\ u[1] * 256 + u[2] = m
      /\ \A j \in 1..e : u[j + 2] = b[j]
  <2>1. IsField(u, e, m, b)
    <3>1. IsField(ImageFields(ts, n)[i], Len(Encode(ts[i])), FieldLength(ts, n, i), Encode(ts[i]))
      <4>1. PICK v : v = ImageFields(ts, n)[i]
        OBVIOUS
      <4>2. PICK d : d = Len(Encode(ts[i]))
        OBVIOUS
      <4>3. IsField(v, d, FieldLength(ts, n, i), Encode(ts[i]))
        BY <4>1, <4>2, FieldBytes
      <4>4. QED
        BY <4>1, <4>2, <4>3
    <3>2. QED
      BY <1>5, <3>1 DEF u, q, b
  <2>2. QED
    BY <2>1 DEF IsField
<1> HIDE DEF q, image
<1>7. Fields \in Nat /\ i - 1 \in 0..Fields /\ i \in 0..Fields
  BY FieldsAssumption
<1>8. PICK a \in Nat : a = o
  BY <1>1, <1>7 DEF Parts, q
<1>9. /\ End(q, i) = a + (e + 2)
      /\ \A j \in 1..(e + 2) : image[a + j] = u[j]
  BY <1>1, <1>6, <1>7, <1>8 DEF Parts, PartAt, u, q
<1>10. End(q, i) \in Nat /\ End(q, i) =< Len(image)
  BY <1>1, <1>7 DEF Parts
<1>11. PICK d : d = r /\ d = l - a
  BY <1>2, <1>8
<1>12. ASSUME d >= 2 PROVE s[a + 1] * 256 + s[a + 2] = m
  <2>1. a + 1 \in 1..l /\ a + 2 \in 1..l /\ 1 \in 1..(e + 2) /\ 2 \in 1..(e + 2)
    BY <1>11, <1>12
  <2>2. s[a + 1] = u[1] /\ s[a + 2] = u[2]
    BY <1>3, <1>9, <2>1
  <2>3. QED
    BY <1>6, <2>2
<1>13. ASSUME d >= 2 + m PROVE SubSeq(s, a + 3, a + 2 + m) = SubSeq(b, 1, m)
  <2> DEFINE x == SubSeq(s, a + 3, a + 2 + m)
             y == SubSeq(b, 1, m)
  <2>1. a + 2 + m =< l /\ a + 3 \in Int /\ a + 2 + m \in Int /\ m \in Int
    BY <1>4, <1>11, <1>13
  <2>2. \A j \in (a + 3)..(a + 2 + m) : j \in 1..l /\ s[j] \in Bytes
    BY <1>2, <1>3, <2>1
  <2>3. /\ x \in Seq(Bytes) /\ Len(x) = m
        /\ \A j \in 1..m : x[j] = s[a + 2 + j]
    <3>1. /\ x \in Seq(Bytes)
          /\ Len(x) = IF a + 3 <= a + 2 + m THEN a + 2 + m - (a + 3) + 1 ELSE 0
          /\ \A j \in 1..(a + 2 + m - (a + 3) + 1) : x[j] = s[a + 3 + j - 1]
      BY <2>1, <2>2, SubSeqProperties
    <3>2. a + 2 + m - (a + 3) + 1 = m /\ (a + 3 <= a + 2 + m \/ m = 0)
      BY <1>4
    <3>3. \A j \in 1..m : a + 3 + j - 1 = a + 2 + j
      BY <1>4
    <3> HIDE DEF x
    <3>4. QED
      BY <3>1, <3>2, <3>3
  <2>4. /\ y \in Seq(Bytes) /\ Len(y) = m
        /\ \A j \in 1..m : y[j] = b[j]
    <3>1. \A j \in 1..m : b[j] \in Bytes
      BY <1>4, <1>5
    <3>2. /\ y \in Seq(Bytes)
          /\ Len(y) = IF 1 <= m THEN m - 1 + 1 ELSE 0
          /\ \A j \in 1..(m - 1 + 1) : y[j] = b[1 + j - 1]
      BY <2>1, <3>1, SubSeqProperties
    <3>3. m - 1 + 1 = m /\ (1 <= m \/ m = 0) /\ \A j \in 1..m : 1 + j - 1 = j
      BY <1>4
    <3> HIDE DEF y
    <3>4. QED
      BY <3>2, <3>3
  <2> HIDE DEF x, y
  <2>5. ASSUME NEW j \in 1..m PROVE x[j] = y[j]
    <3>1. j \in 1..e /\ j + 2 \in 1..(e + 2) /\ a + 2 + j \in 1..l /\ a + 2 + j = a + (j + 2)
      BY <1>4, <1>5, <2>1
    <3>2. s[a + 2 + j] = u[j + 2]
      BY <1>3, <1>9, <3>1
    <3>3. u[j + 2] = b[j]
      BY <1>6, <3>1
    <3>4. QED
      BY <2>3, <2>4, <3>2, <3>3
  <2>6. x = y
    BY <2>3, <2>4, <2>5, SeqEqual
  <2>7. QED
    BY <2>6 DEF x, y
<1>14. a + (e + 2) = a + 2 + e /\ m \in 0..e
  BY <1>4, <1>5
<1>15. /\ o \in Nat /\ m \in 0..Len(b) /\ End(q, i) = o + 2 + Len(b)
  BY <1>5, <1>8, <1>9, <1>14
<1>16. /\ r >= 2 => s[o + 1] * 256 + s[o + 2] = m
       /\ r >= 2 + m => SubSeq(s, o + 3, o + 2 + m) = SubSeq(b, 1, m)
  BY <1>8, <1>11, <1>12, <1>13
<1>17. QED
  BY <1>10, <1>15, <1>16 DEF q, b, image, IsFieldAt

-----------------------------------------------------------------------------
(* The file is read *)

\* What ReadUTF returns for the bytes of a text that it takes for the string.
IsDecoded(text, n, value) ==
    /\ value \in Seq(Nat)
    /\ \/ value = NoText
       \/ /\ value # NoText
          /\ \E m \in 0..Len(text) :
                /\ Len(Encode(SubSeq(text, 1, m))) = n
                /\ value = Returned(SubSeq(text, 1, m))
    /\ n = Len(Encode(text)) => value = Returned(text) /\ value # NoText

\* decodeModifiedUTF8 on the first n bytes of a text.
LEMMA TextDecodes ==
    ASSUME NEW text \in Seq(Units), NEW n, n \in 0..Len(Encode(text)), NEW buf,
           buf = SubSeq(Encode(text), 1, n)
    PROVE  IsDecoded(text, n, decodeModifiedUTF8(buf))
<1>1. PICK value : value = decodeModifiedUTF8(SubSeq(Encode(text), 1, n))
  OBVIOUS
<1>2. /\ value \in Seq(Nat)
      /\ \/ value = NoText
         \/ /\ value # NoText
            /\ \E m \in 0..Len(text) :
                  /\ Len(Encode(SubSeq(text, 1, m))) = n
                  /\ value = Returned(SubSeq(text, 1, m))
      /\ n = Len(Encode(text)) => value = Returned(text)
  BY <1>1, DecodeText
<1>3. Returned(text) # NoText
  BY ReturnedText
<1>4. IsDecoded(text, n, value)
  BY <1>2, <1>3 DEF IsDecoded
<1>5. QED
  BY <1>1, <1>4

\* The two bytes at an offset of a file, and the string behind them.
LengthAt(s, o) == s[o + 1] * 256 + s[o + 2]

StringAt(s, o) == SubSeq(s, o + 3, o + 2 + LengthAt(s, o))

\* A field that is there begins with its length and is read as its text.
LEMMA FieldDecodes ==
    ASSUME NEW ts, NEW n, Written(ts, n), NEW s, Truncated(s, ts, n), NEW i \in 1..Fields,
           NEW o, o = End(ImageFields(ts, n), i - 1), NEW r, r = Len(s) - o, r >= 2
    PROVE  /\ LengthAt(s, o) = FieldLength(ts, n, i)
           /\ r >= 2 + LengthAt(s, o) =>
                 IsDecoded(ts[i], FieldLength(ts, n, i), decodeModifiedUTF8(StringAt(s, o)))
<1>1. PICK m : m = FieldLength(ts, n, i)
  OBVIOUS
<1>2. IsFieldAt(s, o, r, m, Encode(ts[i]), End(ImageFields(ts, n), i), Len(Image(ts, n)))
  BY <1>1, FieldAt, Zenon
<1>3. LengthAt(s, o) = m
  <2>1. r >= 2 => s[o + 1] * 256 + s[o + 2] = m
    BY <1>2 DEF IsFieldAt
  <2>2. s[o + 1] * 256 + s[o + 2] = m
    BY <2>1
  <2>3. QED
    BY <2>2, Zenon DEF LengthAt
<1>4. ts[i] \in Seq(Units)
  BY ImageField, TextsAreUnits
<1>5. ASSUME r >= 2 + m PROVE IsDecoded(ts[i], m, decodeModifiedUTF8(StringAt(s, o)))
  <2>1. PICK buf : buf = StringAt(s, o)
    OBVIOUS
  <2>2. buf = SubSeq(Encode(ts[i]), 1, m)
    BY <1>2, <1>3, <1>5, <2>1 DEF StringAt, IsFieldAt
  <2>3. QED
    BY <1>2, <1>4, <2>1, <2>2, TextDecodes DEF IsFieldAt
<1>6. QED
  BY <1>1, <1>3, <1>5

-----------------------------------------------------------------------------
(* The inductive invariant *)

WrittenInv == Written(texts, length)

FileInv ==
    /\ Truncated(file, texts, length)
    /\ Undamaged \/ file = Image(texts, length)

ReadInv ==
    /\ strings \in Seq(Seq(Nat)) /\ Len(strings) =< Fields
    /\ offset \in Nat /\ offset =< Len(file)
    /\ outcome \in {"reading", "ended", "undecodable", "scanned"}

\* Each field of an undamaged file that was read is the text that was written, and
\* the next one begins where the last one ends.
UndamagedInv ==
    Undamaged =>
        /\ outcome # "undecodable"
        /\ offset = End(ImageFields(texts, length), Len(strings))
        /\ \A i \in 1..Len(strings) : strings[i] = Returned(texts[i])
        /\ outcome = "ended" => file # Image(texts, length)

\* The first string is the text that so many of its units have this length.
CutInv ==
    /\ strings = <<>> /\ outcome = "reading" => offset = 0
    /\ strings # <<>> =>
          \E m \in 0..Len(texts[1]) :
              /\ Len(Encode(SubSeq(texts[1], 1, m))) = length
              /\ Head(strings) = Returned(SubSeq(texts[1], 1, m))

ScannedInv ==
    outcome = "scanned" =>
        /\ Len(strings) = Fields
        /\ inline = scanInlineStrings(file)
        /\ paths = extractStateFilePaths(file)

IInv == WrittenInv /\ FileInv /\ ReadInv /\ UndamagedInv /\ CutInv /\ ScannedInv

\* In an undamaged file each length is that of its text.
LEMMA UndamagedLength ==
    ASSUME Undamaged, NEW i \in 1..Fields
    PROVE  FieldLength(texts, length, i) = Len(Encode(texts[i]))
  BY DEF Undamaged, FieldLength

\* Where field i begins, a whole file has all of it.
LEMMA FieldIsWhole ==
    ASSUME WrittenInv, FileInv, Undamaged, file = Image(texts, length), NEW i \in 1..Fields,
           NEW o, o = End(ImageFields(texts, length), i - 1)
    PROVE  Len(file) - o >= 2 /\ Len(file) - o >= 2 + LengthAt(file, o)
<1>1. Written(texts, length) /\ Truncated(file, texts, length)
  BY DEF WrittenInv, FileInv
<1>2. PICK b : b = Encode(texts[i])
  OBVIOUS
<1>3. PICK next : next = End(ImageFields(texts, length), i)
  OBVIOUS
<1>4. PICK r : r = Len(file) - o
  OBVIOUS
<1>5. PICK m : m = FieldLength(texts, length, i)
  OBVIOUS
<1>6. IsFieldAt(file, o, r, m, b, next, Len(Image(texts, length)))
  BY <1>1, <1>2, <1>3, <1>4, <1>5, FieldAt, Zenon
<1>7. m = Len(b)
  BY <1>2, <1>5, UndamagedLength
<1>8. PICK l \in Nat : l = Len(file)
  BY <1>1, TruncatedType
<1>9. PICK e \in Nat : e = m
  <2>1. b \in Seq(Bytes)
    BY <1>1, <1>2, ImageField
  <2>2. QED
    BY <1>7, <2>1
<1>10. /\ o \in Nat /\ next = o + 2 + e /\ next =< l
       /\ r >= 2 => file[o + 1] * 256 + file[o + 2] = e
  BY <1>6, <1>7, <1>8, <1>9 DEF IsFieldAt
<1>11. r = l - o /\ r >= 2 /\ r >= 2 + e
  BY <1>4, <1>8, <1>10
<1>12. LengthAt(file, o) = e
  BY <1>10, <1>11 DEF LengthAt
<1>13. QED
  BY <1>4, <1>11, <1>12

\* The invariant holds of a file that was not read yet.
LEMMA InitInv ==
    ASSUME Init
    PROVE  IInv
<1>1. PICK image : image = Image(texts, length)
  OBVIOUS
<1>2. Written(texts, length)
  BY DEF Init, Written
<1>3. PICK size \in 0..Len(image) :
         file = SubSeq(image, 1, size) /\ (Undamaged \/ size = Len(image))
  BY <1>1 DEF Init
<1>4. Truncated(file, texts, length)
  BY <1>1, <1>3 DEF Truncated
<1>5. Undamaged \/ file = Image(texts, length)
  <2>1. image \in Seq(Bytes)
    BY <1>1, <1>2, ImageType
  <2>2. SubSeq(image, 1, Len(image)) = image
    BY <2>1, SubSeqFull
  <2>3. QED
    BY <1>1, <1>3, <2>2
<1>6. ReadInv
  <2>1. Len(file) \in Nat
    BY <1>2, <1>4, TruncatedType
  <2>2. Len(strings) = 0 /\ strings \in Seq(Seq(Nat)) /\ Fields \in Nat
    BY FieldsAssumption DEF Init
  <2>3. QED
    BY <2>1, <2>2 DEF Init, ReadInv
<1>7. UndamagedInv
  <2>1. End(ImageFields(texts, length), 0) = 0
    BY <1>2, ImageType DEF Parts
  <2>2. Len(strings) = 0 /\ 1..0 = {} /\ outcome = "reading" /\ offset = 0
    BY DEF Init
  <2>3. QED
    BY <2>1, <2>2 DEF UndamagedInv
<1>8. CutInv /\ ScannedInv
  BY DEF Init, CutInv, ScannedInv
<1>9. QED
  BY <1>2, <1>4, <1>5, <1>6, <1>7, <1>8 DEF IInv, WrittenInv, FileInv

\* An undamaged file that ends early is not the whole one.
LEMMA FileEndsInv ==
    ASSUME IInv, FileEnds
    PROVE  IInv'
<1> USE DEF FileEnds
<1>1. WrittenInv' /\ FileInv'
  BY DEF IInv, WrittenInv, FileInv, Undamaged
<1>2. ReadInv'
  BY DEF IInv, ReadInv
<1>3. UndamagedInv'
  <2> SUFFICES ASSUME Undamaged PROVE UndamagedInv'
    BY DEF UndamagedInv, Undamaged
  <2>1. file # Image(texts, length)
    <3> SUFFICES ASSUME file = Image(texts, length) PROVE FALSE
      OBVIOUS
    <3>1. PICK k \in Nat : k = Len(strings) /\ k + 1 =< Fields
      BY FieldsAssumption DEF IInv, ReadInv, Reading
    <3>2. k + 1 \in 1..Fields /\ (k + 1) - 1 = k
      BY <3>1, FieldsAssumption
    <3>3. offset = End(ImageFields(texts, length), (k + 1) - 1)
      BY <3>1, <3>2 DEF IInv, UndamagedInv
    <3>4. PICK i \in 1..Fields : i = k + 1
      BY <3>2
    <3>5. Len(file) - offset >= 2 /\ Len(file) - offset >= 2 + LengthAt(file, offset)
      BY <3>3, <3>4, FieldIsWhole DEF IInv
    <3>6. QED
      BY <3>5 DEF FieldIsThere, Remaining, NextLength, LengthAt
  <2>2. QED
    BY <2>1 DEF IInv, UndamagedInv
<1>4. CutInv' /\ ScannedInv'
  BY DEF IInv, CutInv, ScannedInv
<1>5. QED
  BY <1>1, <1>2, <1>3, <1>4 DEF IInv

\* The summary is made of all bytes, after the last field.
LEMMA ParseSummaryInv ==
    ASSUME IInv, ParseSummary
    PROVE  IInv'
<1> USE DEF ParseSummary
<1>1. WrittenInv' /\ FileInv'
  BY DEF IInv, WrittenInv, FileInv, Undamaged
<1>2. ReadInv'
  BY DEF IInv, ReadInv
<1>3. UndamagedInv'
  BY DEF IInv, UndamagedInv, Undamaged
<1>4. CutInv' /\ ScannedInv'
  BY DEF IInv, CutInv, ScannedInv
<1>5. QED
  BY <1>1, <1>2, <1>3, <1>4 DEF IInv

\* What ReadUTF takes from a file of bytes.
LEMMA StringAtType ==
    ASSUME NEW s \in Seq(Bytes), NEW o \in Nat, NEW l \in Nat, l = Len(s), l - o >= 2,
           l - o >= 2 + LengthAt(s, o)
    PROVE  /\ LengthAt(s, o) \in Nat /\ o + 2 + LengthAt(s, o) =< l
           /\ StringAt(s, o) \in Seq(Bytes)
           /\ decodeModifiedUTF8(StringAt(s, o)) \in Seq(Nat)
<1>1. o + 1 \in 1..l /\ o + 2 \in 1..l
  OBVIOUS
<1>2. s[o + 1] \in Bytes /\ s[o + 2] \in Bytes
  BY <1>1
<1>3. PICK m \in Nat : m = LengthAt(s, o)
  BY <1>2, BytesAre DEF LengthAt
<1>4. o + 3 \in Int /\ o + 2 + m \in Int /\ o + 2 + m =< l
  BY <1>3
<1>5. \A j \in (o + 3)..(o + 2 + m) : s[j] \in Bytes
  BY <1>4
<1>6. SubSeq(s, o + 3, o + 2 + m) \in Seq(Bytes)
  BY <1>4, <1>5, SubSeqProperties
<1>7. StringAt(s, o) \in Seq(Bytes)
  BY <1>3, <1>6 DEF StringAt
<1>8. decodeModifiedUTF8(StringAt(s, o)) \in Seq(Nat)
  <2>1. PICK buf \in Seq(Bytes) : buf = StringAt(s, o)
    BY <1>7
  <2>2. PICK n \in Nat : n = Len(buf)
    OBVIOUS
  <2>3. PICK f :
           /\ decodeModifiedUTF8(buf) = f[1]
           /\ \A i \in 1..(n + 1) : f[i] = DecodeStep(buf, f, i) /\ f[i] \in Seq(Nat)
    BY <2>2, DecodeIs
  <2>4. f[1] \in Seq(Nat)
    BY <2>3
  <2>5. QED
    BY <2>1, <2>3, <2>4
<1>9. QED
  BY <1>3, <1>4, <1>7, <1>8

\* Where the next field begins, and that it has as many bytes as its text, is known
\* of the first field and of all fields of an undamaged file.
LEMMA NextField ==
    ASSUME WrittenInv, FileInv, NEW i \in 1..Fields, FieldIsThere,
           offset = End(ImageFields(texts, length), i - 1)
    PROVE  /\ NextLength = FieldLength(texts, length, i)
           /\ End(ImageFields(texts, length), i) = offset + 2 + Len(Encode(texts[i]))
           /\ IsDecoded(texts[i], FieldLength(texts, length, i),
                        decodeModifiedUTF8(StringAt(file, offset)))
<1>1. Written(texts, length) /\ Truncated(file, texts, length)
  BY DEF WrittenInv, FileInv
<1>2. PICK r : r = Len(file) - offset
  OBVIOUS
<1>3. r >= 2 /\ r >= 2 + LengthAt(file, offset)
  BY <1>2 DEF FieldIsThere, Remaining, NextLength, LengthAt
<1>4. PICK o : o = offset
  OBVIOUS
<1>5. o = End(ImageFields(texts, length), i - 1) /\ r = Len(file) - o
  BY <1>2, <1>4
<1>6. /\ LengthAt(file, o) = FieldLength(texts, length, i)
      /\ r >= 2 + LengthAt(file, o) =>
            IsDecoded(texts[i], FieldLength(texts, length, i),
                      decodeModifiedUTF8(StringAt(file, o)))
  BY <1>1, <1>3, <1>5, FieldDecodes, Zenon
<1>7. PICK m : m = FieldLength(texts, length, i)
  OBVIOUS
<1>8. IsFieldAt(file, o, r, m, Encode(texts[i]), End(ImageFields(texts, length), i),
                Len(Image(texts, length)))
  BY <1>1, <1>5, <1>7, FieldAt, Zenon
<1>9. End(ImageFields(texts, length), i) = o + 2 + Len(Encode(texts[i]))
  BY <1>8, Zenon DEF IsFieldAt
<1>10. NextLength = LengthAt(file, o)
  BY <1>4 DEF NextLength, LengthAt
<1>11. QED
  BY <1>3, <1>4, <1>6, <1>9, <1>10, Zenon

\* ReadUTF keeps the invariant: the offset is where the next field begins.
LEMMA ReadUTFInv ==
    ASSUME IInv, ReadUTF
    PROVE  IInv'
<1>1. PICK value : value = decodeModifiedUTF8(StringAt(file, offset))
  OBVIOUS
<1>2. PICK n : n = NextLength
  OBVIOUS
<1>3. /\ strings' = IF value = NoText THEN strings ELSE Append(strings, value)
      /\ outcome' = IF value = NoText THEN "undecodable" ELSE outcome
      /\ offset' = offset + 2 + n
      /\ outcome = "reading" /\ Len(strings) < Fields
      /\ UNCHANGED <<texts, length, file, inline, paths>>
  BY <1>1, <1>2 DEF ReadUTF, Reading, StringAt, LengthAt, NextLength
<1>4. FieldIsThere
  BY DEF ReadUTF
<1>5. /\ strings \in Seq(Seq(Nat)) /\ Len(strings) =< Fields
      /\ offset \in Nat /\ offset =< Len(file)
  BY DEF IInv, ReadInv
<1>6. Written(texts, length) /\ Truncated(file, texts, length)
  BY DEF IInv, WrittenInv, FileInv
<1>7. PICK l \in Nat : l = Len(file) /\ file \in Seq(Bytes)
  BY <1>6, TruncatedType
<1>8. n \in Nat /\ offset + 2 + n =< l /\ value \in Seq(Nat)
  <2>1. PICK o \in Nat : o = offset
    BY <1>5
  <2>2. n = LengthAt(file, o)
    BY <1>2, <2>1 DEF NextLength, LengthAt
  <2>3. l - o >= 2 /\ l - o >= 2 + LengthAt(file, o)
    BY <1>4, <1>7, <2>1 DEF FieldIsThere, Remaining, NextLength, LengthAt
  <2>4. /\ LengthAt(file, o) \in Nat /\ o + 2 + LengthAt(file, o) =< l
        /\ decodeModifiedUTF8(StringAt(file, o)) \in Seq(Nat)
    BY <1>7, <2>3, StringAtType
  <2>5. QED
    BY <1>1, <2>1, <2>2, <2>4
<1>9. PICK k \in Nat : k = Len(strings) /\ k + 1 =< Fields
  BY <1>3, <1>5, FieldsAssumption
<1>10. k + 1 \in 1..Fields /\ (k + 1) - 1 = k
  BY <1>9, FieldsAssumption
<1>11. /\ Append(strings, value) \in Seq(Seq(Nat))
       /\ Len(Append(strings, value)) = k + 1
       /\ \A j \in 1..k : Append(strings, value)[j] = strings[j]
       /\ Append(strings, value)[k + 1] = value
  BY <1>5, <1>8, <1>9
<1>12. WrittenInv' /\ FileInv'
  BY <1>3 DEF IInv, WrittenInv, FileInv, Undamaged
<1>13. ReadInv'
  <2>1. strings' \in Seq(Seq(Nat)) /\ Len(strings') =< Fields
    BY <1>3, <1>5, <1>9, <1>11
  <2>2. offset' \in Nat /\ offset' =< Len(file')
    BY <1>3, <1>5, <1>7, <1>8
  <2>3. outcome' \in {"reading", "undecodable"}
    BY <1>3
  <2>4. QED
    BY <2>1, <2>2, <2>3 DEF ReadInv
<1>14. UndamagedInv'
  <2> SUFFICES ASSUME Undamaged PROVE UndamagedInv'
    BY <1>3 DEF UndamagedInv, Undamaged
  <2>1. PICK i \in 1..Fields : i = k + 1
    BY <1>10
  <2>2. offset = End(ImageFields(texts, length), i - 1)
    BY <1>9, <1>10, <2>1 DEF IInv, UndamagedInv
  <2>3. /\ n = FieldLength(texts, length, i)
        /\ End(ImageFields(texts, length), i) = offset + 2 + Len(Encode(texts[i]))
        /\ IsDecoded(texts[i], FieldLength(texts, length, i), value)
    BY <1>1, <1>2, <1>4, <2>2, NextField DEF IInv
  <2>4. FieldLength(texts, length, i) = Len(Encode(texts[i]))
    BY UndamagedLength
  <2>5. value = Returned(texts[i]) /\ value # NoText
    BY <2>3, <2>4 DEF IsDecoded
  <2>6. End(ImageFields(texts, length), i) = offset'
    BY <1>3, <2>3, <2>4
  <2>7. strings' = Append(strings, value) /\ outcome' = "reading"
    BY <1>3, <2>5
  <2>8. Len(strings') = i
    BY <1>11, <2>1, <2>7
  <2>9. \A j \in 1..k : strings[j] = Returned(texts[j])
    BY <1>9 DEF IInv, UndamagedInv
  <2>10. \A j \in 1..i : strings'[j] = Returned(texts[j])
    <3> SUFFICES ASSUME NEW j \in 1..i PROVE strings'[j] = Returned(texts[j])
      OBVIOUS
    <3>1. j \in 1..k \/ j = k + 1
      BY <2>1
    <3>2. CASE j \in 1..k
      BY <1>11, <2>7, <2>9, <3>2
    <3>3. CASE j = k + 1
      BY <1>11, <2>1, <2>5, <2>7, <3>3
    <3>4. QED
      BY <3>1, <3>2, <3>3
  <2>11. texts' = texts /\ length' = length
    BY <1>3
  <2>12. QED
    BY <2>6, <2>7, <2>8, <2>10, <2>11 DEF UndamagedInv
<1>15. CutInv'
  <2>1. ~(strings' = <<>> /\ outcome' = "reading")
    <3>1. Append(strings, value) # <<>>
      <4>1. Len(Append(strings, value)) = k + 1 /\ k + 1 # 0
        BY <1>11
      <4>2. Len(<<>>) = 0
        OBVIOUS
      <4>3. PICK t : t = Append(strings, value)
        OBVIOUS
      <4>4. Len(t) # 0
        BY <4>1, <4>3
      <4>5. t # <<>>
        BY <4>2, <4>4
      <4>6. QED
        BY <4>3, <4>5
    <3>2. QED
      BY <1>3, <3>1
  <2>2. ASSUME strings' # <<>>
        PROVE  \E m \in 0..Len(texts[1]) :
                  /\ Len(Encode(SubSeq(texts[1], 1, m))) = length
                  /\ Head(strings') = Returned(SubSeq(texts[1], 1, m))
    <3>1. CASE strings # <<>>
      <4>1. Head(strings') = Head(strings)
        <5>1. k >= 1 /\ 1 \in 1..k
          BY <1>5, <1>9, <3>1
        <5>2. Append(strings, value)[1] = strings[1]
          BY <1>11, <5>1
        <5>3. QED
          BY <1>3, <5>2
      <4>2. QED
        BY <3>1, <4>1 DEF IInv, CutInv
    <3>2. CASE strings = <<>>
      <4>1. value # NoText /\ strings' = Append(strings, value)
        BY <1>3, <2>2, <3>2
      <4>2. k = 0
        BY <1>9, <3>2
      <4>3. Head(strings') = value
        BY <1>11, <4>1, <4>2
      <4>4. 1 \in 1..Fields /\ 1 - 1 = 0
        BY FieldsAssumption
      <4>5. PICK i \in 1..Fields : i = 1 /\ i - 1 = 0
        BY <4>4
      <4>6. offset = End(ImageFields(texts, length), i - 1)
        <5>1. offset = 0
          BY <1>3, <3>2 DEF IInv, CutInv
        <5>2. End(ImageFields(texts, length), 0) = 0
          BY <1>6, ImageType DEF Parts
        <5>3. QED
          BY <4>5, <5>1, <5>2
      <4>7. IsDecoded(texts[i], FieldLength(texts, length, i), value)
        BY <1>1, <1>4, <4>6, NextField DEF IInv
      <4>8. FieldLength(texts, length, i) = length
        BY <4>5 DEF FieldLength
      <4>9. IsDecoded(texts[1], length, value)
        BY <4>5, <4>7, <4>8
      <4>10. QED
        BY <4>1, <4>3, <4>9 DEF IsDecoded
    <3>3. QED
      BY <3>1, <3>2
  <2>3. texts' = texts /\ length' = length
    BY <1>3
  <2>4. QED
    BY <2>1, <2>2, <2>3 DEF CutInv
<1>16. ScannedInv'
  <2>1. outcome' # "scanned"
    BY <1>3
  <2>2. QED
    BY <2>1 DEF ScannedInv
<1>17. QED
  BY <1>12, <1>13, <1>14, <1>15, <1>16 DEF IInv

\* The invariant is inductive.
LEMMA NextInv == IInv /\ [Next]_vars => IInv'
<1> SUFFICES ASSUME IInv, [Next]_vars PROVE IInv'
  OBVIOUS
<1>1. CASE FileEnds
  BY <1>1, FileEndsInv
<1>2. CASE ReadUTF
  BY <1>2, ReadUTFInv
<1>3. CASE ParseSummary
  BY <1>3, ParseSummaryInv
<1>4. CASE UNCHANGED vars
  BY <1>4 DEF vars, IInv, WrittenInv, FileInv, Undamaged, ReadInv, UndamagedInv, CutInv,
              ScannedInv
<1>5. QED
  BY <1>1, <1>2, <1>3, <1>4 DEF Next

\* The invariant holds of every file that is read.
LEMMA SpecInv == Spec => []IInv
<1>1. Init => IInv
  BY InitInv
<1>2. QED
  BY <1>1, NextInv, PTL DEF Spec

-----------------------------------------------------------------------------
(* What is read is what was written *)

\* Nothing becomes of a text of the basic plane but the text.
LEMMA BasicText ==
    ASSUME NEW t \in Seq(Units), Basic(t)
    PROVE  Returned(t) = t
<1>1. PICK n \in Nat : n = Len(t) /\ DOMAIN t = 1..n
  OBVIOUS
<1>2. ASSUME NEW i \in DOMAIN t PROVE Rune(t[i]) = t[i]
  <2> DEFINE half == t[i] \in 55296..57343
  <2>1. ~half
    BY <1>2 DEF Basic
  <2>2. Rune(t[i]) = IF half THEN 65533 ELSE t[i]
    BY DEF Rune
  <2> HIDE DEF half
  <2>3. QED
    BY <2>1, <2>2
<1>3. t = [i \in DOMAIN t |-> t[i]]
  BY <1>1
<1>4. QED
  BY <1>2, <1>3, Zenon DEF Returned

\* The invariant gives the texts of an undamaged file.
LEMMA UndamagedStrings ==
    ASSUME IInv
    PROVE  StringsAreWritten
<1> SUFFICES ASSUME Undamaged PROVE StringsAreWritten
  BY DEF StringsAreWritten
<1>1. strings \in Seq(Seq(Nat))
  BY DEF IInv, ReadInv
<1>2. PICK k \in Nat : k = Len(strings) /\ DOMAIN strings = 1..k
  BY <1>1
<1>3. \A i \in 1..k : strings[i] = Returned(texts[i])
  BY <1>2 DEF IInv, UndamagedInv
<1>4. \A i \in 1..k : texts[i] \in Seq(Units)
  <2>1. texts \in [1..Fields -> Texts] /\ k =< Fields
    BY <1>2 DEF IInv, ReadInv, WrittenInv, Written
  <2>2. \A i \in 1..k : i \in 1..Fields
    BY <2>1, FieldsAssumption
  <2>3. \A t \in Texts : t \in Seq(Units)
    BY TextsAreUnits
  <2>4. QED
    BY <2>1, <2>2, <2>3
<1>5. \A i \in DOMAIN strings : Basic(texts[i]) => strings[i] = texts[i]
  BY <1>2, <1>3, <1>4, BasicText, Zenon
<1>6. QED
  BY <1>5 DEF StringsAreWritten, IInv, UndamagedInv

\* ReadUTF refuses no text of an undamaged file, and returns those whose
\* characters are all in the basic plane as they were written.
THEOREM WrittenTextsAreRead == Spec => []StringsAreWritten
  BY SpecInv, UndamagedStrings, PTL

\* The text that the first units of a text become are the first of what it becomes.
LEMMA ReturnedPrefix ==
    ASSUME NEW text \in Seq(Units), NEW m \in 0..Len(text)
    PROVE  /\ Len(Returned(SubSeq(text, 1, m))) = m
           /\ IsPrefix(Returned(SubSeq(text, 1, m)), Returned(text))
<1>1. PICK l \in Nat : l = Len(text) /\ m \in Nat /\ m =< l /\ m \in Int
  OBVIOUS
<1>2. PICK t : t = SubSeq(text, 1, m)
  OBVIOUS
<1>3. \A i \in 1..m : text[i] \in Units
  BY <1>1
<1>4. t \in Seq(Units) /\ Len(t) = m /\ \A i \in 1..m : t[i] = text[i]
  <2>1. /\ t \in Seq(Units)
        /\ Len(t) = IF 1 <= m THEN m - 1 + 1 ELSE 0
        /\ \A i \in 1..(m - 1 + 1) : t[i] = text[1 + i - 1]
    BY <1>1, <1>2, <1>3, SubSeqProperties
  <2>2. m - 1 + 1 = m /\ \A i \in 1..m : 1 + i - 1 = i
    BY <1>1
  <2>3. QED
    BY <1>1, <2>1, <2>2
<1>5. PICK s : s = Returned(t)
  OBVIOUS
<1>6. PICK r : r = Returned(text)
  OBVIOUS
<1>7. s \in Seq(Nat) /\ Len(s) = m /\ \A i \in 1..m : s[i] = Rune(t[i])
  BY <1>4, <1>5, ReturnedText
<1>8. r \in Seq(Nat) /\ Len(r) = l /\ \A i \in 1..l : r[i] = Rune(text[i])
  BY <1>1, <1>6, ReturnedText
<1>9. SubSeq(s, 1, m) = s
  BY <1>7, SubSeqFull
<1>10. SubSeq(r, 1, m) = s
  <2>1. \A i \in 1..m : r[i] \in Nat
    BY <1>1, <1>8
  <2>2. /\ SubSeq(r, 1, m) \in Seq(Nat)
        /\ Len(SubSeq(r, 1, m)) = IF 1 <= m THEN m - 1 + 1 ELSE 0
        /\ \A i \in 1..(m - 1 + 1) : SubSeq(r, 1, m)[i] = r[1 + i - 1]
    BY <1>1, <2>1, SubSeqProperties
  <2>3. m - 1 + 1 = m /\ \A i \in 1..m : 1 + i - 1 = i /\ i \in 1..l
    BY <1>1
  <2>4. PICK v : v = SubSeq(r, 1, m)
    OBVIOUS
  <2>5. v \in Seq(Nat) /\ Len(v) = m /\ \A i \in 1..m : v[i] = r[i]
    BY <1>1, <2>2, <2>3, <2>4
  <2>6. \A i \in 1..m : v[i] = s[i]
    BY <1>4, <1>7, <1>8, <2>3, <2>5
  <2>7. v = s
    BY <1>1, <1>7, <2>5, <2>6, SeqEqual
  <2>8. QED
    BY <2>4, <2>7
<1>11. IsPrefix(s, r)
  BY <1>1, <1>7, <1>8, <1>9, <1>10 DEF IsPrefix
<1>12. QED
  BY <1>2, <1>5, <1>6, <1>7, <1>11

\* The invariant gives what is read of a string that was cut.
LEMMA CutStrings ==
    ASSUME IInv
    PROVE  CutsAreNoticed
<1> SUFFICES ASSUME strings # <<>>
             PROVE  /\ IsPrefix(Head(strings), Returned(texts[1]))
                    /\ Len(Encode(SubSeq(texts[1], 1, Len(Head(strings))))) = length
  BY DEF CutsAreNoticed
<1>1. PICK text : text = texts[1]
  OBVIOUS
<1>2. PICK m \in 0..Len(text) :
         /\ Len(Encode(SubSeq(text, 1, m))) = length
         /\ Head(strings) = Returned(SubSeq(text, 1, m))
  BY <1>1 DEF IInv, CutInv
<1>3. text \in Seq(Units)
  <2>1. 1 \in 1..Fields
    BY FieldsAssumption
  <2>2. text \in Texts
    BY <1>1, <2>1 DEF IInv, WrittenInv, Written
  <2>3. QED
    BY <2>2, TextsAreUnits
<1>4. /\ Len(Returned(SubSeq(text, 1, m))) = m
      /\ IsPrefix(Returned(SubSeq(text, 1, m)), Returned(text))
  BY <1>3, ReturnedPrefix
<1>5. QED
  BY <1>1, <1>2, <1>4

\* A string whose length is too small is refused, or is the text up to the character
\* that ends there.
THEOREM CutTextsAreNoticed == Spec => []CutsAreNoticed
  BY SpecInv, CutStrings, PTL

\* The invariant gives the inline strings.
LEMMA ListedRuns ==
    ASSUME IInv
    PROVE  RunsAreListed
<1> SUFFICES ASSUME outcome = "scanned"
             PROVE  ToSet(inline) = LongRuns(file) /\ IsInjective(inline)
  BY DEF RunsAreListed
<1>1. file \in Seq(Bytes)
  BY TruncatedType DEF IInv, WrittenInv, FileInv
<1>2. file \in Seq(Nat)
  BY <1>1, BytesAre
<1>3. inline = scanInlineStrings(file)
  BY DEF IInv, ScannedInv
<1>4. QED
  BY <1>2, <1>3, FoundRuns

\* The inline strings of the summary are the maximal printable runs of at least six
\* bytes, whatever the file is, and none twice.
THEOREM InlineStringsAreRuns == Spec => []RunsAreListed
  BY SpecInv, ListedRuns, PTL

-----------------------------------------------------------------------------
(* A scan of parts *)

\* One element more at the end of the second of two sequences.
LEMMA ConcatAppend ==
    ASSUME NEW S, NEW x \in Seq(S), NEW y \in Seq(S), NEW e \in S
    PROVE  /\ x \o y \in Seq(S)
           /\ x \o Append(y, e) = Append(x \o y, e)
           /\ x \o <<>> = x
<1>1. <<e>> \in Seq(S) /\ Append(y, e) = y \o <<e>>
  BY AppendIsConcat
<1>2. PICK d : d = <<e>>
  OBVIOUS
<1>3. x \o y \in Seq(S)
  BY ConcatProperties
<1>4. Append(x \o y, e) = (x \o y) \o <<e>>
  BY <1>3, AppendIsConcat
<1>5. (x \o y) \o d = x \o (y \o d)
  BY <1>1, <1>2, ConcatAssociative
<1>6. x \o <<>> = x
  BY ConcatEmptySeq
<1>7. QED
  BY <1>1, <1>2, <1>3, <1>4, <1>5, <1>6

\* The elements of two sequences.
LEMMA ToSetConcat ==
    ASSUME NEW S, NEW x \in Seq(S), NEW y \in Seq(S)
    PROVE  ToSet(x \o y) = ToSet(x) \cup ToSet(y)
<1> DEFINE T == {z \in Seq(S) : ToSet(x \o z) = ToSet(x) \cup ToSet(z)}
<1>1. <<>> \in T
  <2>1. <<>> \in Seq(S) /\ x \o <<>> = x
    BY ConcatEmptySeq
  <2>2. ToSet(<<>>) = {}
    BY DEF ToSet
  <2>3. QED
    BY <2>1, <2>2
<1>2. ASSUME NEW z \in Seq(S), NEW e \in S, z \in T PROVE Append(z, e) \in T
  <2>1. x \o z \in Seq(S) /\ x \o Append(z, e) = Append(x \o z, e)
    BY ConcatAppend
  <2>2. ToSet(Append(x \o z, e)) = ToSet(x \o z) \cup {e}
    <3>1. PICK w \in Seq(S) : w = x \o z
      BY <2>1
    <3>2. ToSet(Append(w, e)) = ToSet(w) \cup {e}
      BY ToSetAppend
    <3>3. QED
      BY <3>1, <3>2
  <2>3. ToSet(Append(z, e)) = ToSet(z) \cup {e}
    BY ToSetAppend
  <2>4. ToSet(x \o z) = ToSet(x) \cup ToSet(z)
    BY <1>2
  <2>5. Append(z, e) \in Seq(S)
    OBVIOUS
  <2>6. QED
    BY <2>1, <2>2, <2>3, <2>4, <2>5
<1> HIDE DEF T
<1>3. Seq(S) \subseteq T
  BY <1>1, <1>2, SequenceInduction
<1>4. y \in T
  BY <1>3
<1>5. QED
  BY <1>4 DEF T

\* Where nothing is kept of the bytes so far, the scan begins as at the first byte.
LEMMA ScanBehind ==
    ASSUME NEW x \in Seq(Nat), Scan(x).current = <<>>, NEW y \in Seq(Nat)
    PROVE  Scan(x \o y) = [current |-> Scan(y).current,
                           strings |-> Scan(x).strings \o Scan(y).strings]
<1> DEFINE Good(z) == Scan(x \o z) = [current |-> Scan(z).current,
                                      strings |-> Scan(x).strings \o Scan(z).strings]
           T == {z \in Seq(Nat) : Good(z)}
<1>0. PICK xs \in Seq(Seq(Nat)) : xs = Scan(x).strings
  <2>1. PICK e : e \in Nat /\ e = 0
    OBVIOUS
  <2>2. Scan(x) \in ScanStates
    BY <2>1, ScanAppend
  <2>3. QED
    BY <2>2 DEF ScanStates
<1>1. <<>> \in T
  <2>1. PICK e : e \in Nat /\ e = 0
    OBVIOUS
  <2>2. <<>> \in Seq(Nat) /\ x \o <<>> = x
    BY ConcatEmptySeq
  <2>3. Scan(<<>>) = NothingScanned /\ Scan(x) \in ScanStates
    BY <2>1, ScanAppend
  <2>4. Scan(x) = [current |-> <<>>, strings |-> xs]
    BY <1>0, <2>3 DEF ScanStates
  <2>5. xs \o <<>> = xs
    BY ConcatEmptySeq
  <2>6. Good(<<>>)
    <3>1. Scan(<<>>).current = <<>> /\ Scan(<<>>).strings = <<>>
      BY <2>3 DEF NothingScanned
    <3>2. Scan(x).strings \o Scan(<<>>).strings = xs
      BY <1>0, <2>5, <3>1
    <3>3. QED
      BY <2>2, <2>4, <3>1, <3>2
  <2>7. QED
    BY <2>2, <2>6
<1>2. ASSUME NEW z \in Seq(Nat), NEW b \in Nat, z \in T PROVE Append(z, b) \in T
  <2>1. x \o z \in Seq(Nat) /\ x \o Append(z, b) = Append(x \o z, b)
    BY ConcatAppend
  <2>2. PICK s : s = Scan(z) /\ s \in ScanStates
    BY ScanAppend
  <2>3. s.current \in Seq(Nat) /\ s.strings \in Seq(Seq(Nat))
    BY <2>2 DEF ScanStates
  <2>4. PICK t : t = Scan(x \o z)
    OBVIOUS
  <2>5. t = [current |-> s.current, strings |-> xs \o s.strings]
    BY <1>0, <1>2, <2>2, <2>4
  <2>6. Scan(Append(z, b)) = ScanByte(s, b) /\ Scan(Append(x \o z, b)) = ScanByte(t, b)
    BY <2>1, <2>2, <2>4, ScanAppend
  <2>7. ScanByte(t, b) = [current |-> ScanByte(s, b).current,
                          strings |-> xs \o ScanByte(s, b).strings]
    <3>1. CASE Printable(b)
      <4>1. ScanByte(s, b) = [current |-> Append(s.current, b), strings |-> s.strings]
        BY <2>2, <3>1 DEF ScanByte, ScanStates
      <4>2. ScanByte(t, b) = [current |-> Append(s.current, b), strings |-> xs \o s.strings]
        BY <2>5, <3>1 DEF ScanByte
      <4>3. QED
        BY <4>1, <4>2
    <3>2. CASE ~Printable(b)
      <4> DEFINE long == Len(s.current) >= 6
                 kept == IF long THEN Append(s.strings, s.current) ELSE s.strings
                 all  == IF long THEN Append(xs \o s.strings, s.current)
                         ELSE xs \o s.strings
      <4>1. ScanByte(s, b) = [current |-> <<>>, strings |-> kept]
        BY <3>2 DEF ScanByte, Flush
      <4>2. ScanByte(t, b) = [current |-> <<>>, strings |-> all]
        BY <2>5, <3>2 DEF ScanByte, Flush
      <4>3. xs \o Append(s.strings, s.current) = Append(xs \o s.strings, s.current)
        BY <2>3, ConcatAppend
      <4> HIDE DEF long
      <4>4. xs \o kept = all
        BY <4>3
      <4> HIDE DEF kept, all
      <4>5. PICK a : a = ScanByte(s, b)
        OBVIOUS
      <4>6. a = [current |-> <<>>, strings |-> kept]
        BY <4>1, <4>5
      <4>7. a.current = <<>> /\ a.strings = kept
        BY <4>6
      <4>8. ScanByte(t, b) = [current |-> a.current, strings |-> xs \o a.strings]
        BY <4>2, <4>4, <4>7
      <4>9. QED
        BY <4>5, <4>8
    <3>3. QED
      BY <3>1, <3>2
  <2>8. Good(Append(z, b))
    BY <1>0, <2>1, <2>6, <2>7
  <2> HIDE DEF Good
  <2>9. Append(z, b) \in Seq(Nat)
    BY ConcatAppend
  <2>10. QED
    BY <2>8, <2>9
<1> HIDE DEF T
<1>3. Seq(Nat) \subseteq T
  BY <1>1, <1>2, SequenceInduction
<1>4. y \in T
  BY <1>3
<1>5. QED
  BY <1>4 DEF T

\* Unprintable bytes end the run before them, once.
LEMMA ScanUnprintable ==
    ASSUME NEW q \in Seq(Nat), NEW u \in Seq(Nat), u # <<>>,
           \A j \in 1..Len(u) : ~Printable(u[j])
    PROVE  Scan(q \o u) = Flush(Scan(q))
<1> DEFINE Good(z) == (\A j \in 1..Len(z) : ~Printable(z[j])) =>
                          Scan(q \o z) = IF z = <<>> THEN Scan(q) ELSE Flush(Scan(q))
           T == {z \in Seq(Nat) : Good(z)}
<1>1. <<>> \in T
  <2>1. <<>> \in Seq(Nat) /\ q \o <<>> = q
    BY ConcatEmptySeq
  <2>2. QED
    BY <2>1
<1>2. ASSUME NEW z \in Seq(Nat), NEW b \in Nat, z \in T PROVE Append(z, b) \in T
  <2>1. PICK n \in Nat : n = Len(z)
    OBVIOUS
  <2>0. Append(z, b) \in Seq(Nat)
    OBVIOUS
  <2>2. PICK r \in Seq(Nat) : r = Append(z, b)
    BY <2>0
  <2>3. Len(r) = n + 1 /\ r[n + 1] = b /\ \A j \in 1..n : r[j] = z[j]
    BY <2>1, <2>2
  <2>4. SUFFICES ASSUME \A j \in 1..(n + 1) : ~Printable(r[j])
                 PROVE  Scan(q \o r) = IF r = <<>> THEN Scan(q) ELSE Flush(Scan(q))
    BY <2>2, <2>3
  <2>5. ~Printable(b)
    <3>1. n + 1 \in 1..(n + 1)
      OBVIOUS
    <3>2. QED
      BY <2>3, <2>4, <3>1
  <2>6. \A j \in 1..n : ~Printable(z[j])
    <3>1. \A j \in 1..n : j \in 1..(n + 1)
      OBVIOUS
    <3>2. QED
      BY <2>3, <2>4, <3>1
  <2>7. Scan(q \o z) = IF z = <<>> THEN Scan(q) ELSE Flush(Scan(q))
    BY <1>2, <2>1, <2>6
  <2>8. q \o z \in Seq(Nat) /\ q \o r = Append(q \o z, b)
    BY <2>2, ConcatAppend
  <2>9. Scan(q \o r) = ScanByte(Scan(q \o z), b)
    BY <2>8, ScanAppend
  <2>10. ScanByte(Scan(q \o z), b) = Flush(Scan(q \o z))
    BY <2>5 DEF ScanByte
  <2>11. Flush(Flush(Scan(q))) = Flush(Scan(q))
    <3>1. PICK s : s = Flush(Scan(q))
      OBVIOUS
    <3>2. s = [current |-> <<>>, strings |-> s.strings]
      BY <3>1 DEF Flush
    <3>3. ~(Len(<<>>) >= 6)
      OBVIOUS
    <3>4. Flush(s) = s
      BY <3>2, <3>3 DEF Flush
    <3>5. QED
      BY <3>1, <3>4
  <2>12. r # <<>>
    <3>1. Len(r) # 0 /\ Len(<<>>) = 0
      BY <2>3
    <3>2. QED
      BY <3>1
  <2>13. QED
    BY <2>7, <2>9, <2>10, <2>11, <2>12
<1> HIDE DEF T
<1>3. Seq(Nat) \subseteq T
  BY <1>1, <1>2, SequenceInduction
<1>4. u \in T
  BY <1>3
<1>5. QED
  BY <1>4 DEF T

\* The bytes of one unit more.
LEMMA EncodeAppend ==
    ASSUME NEW text \in Seq(Units), NEW c \in Units
    PROVE  /\ Encode(<<>>) = <<>>
           /\ Append(text, c) \in Seq(Units)
           /\ Encode(Append(text, c)) = Encode(text) \o EncodeUnit(c)
<1> DEFINE q == EncodedUnits(text)
           r == EncodedUnits(Append(text, c))
<1>1. Append(text, c) \in Seq(Units)
  OBVIOUS
<1>2. PICK n \in Nat : n = Len(text)
  OBVIOUS
<1>0. PICK t : t = Append(text, c)
  OBVIOUS
<1>3. /\ t \in Seq(Units) /\ t = Append(text, c) /\ Len(t) = n + 1
      /\ \A i \in 1..n : t[i] = text[i]
      /\ t[n + 1] = c
  BY <1>0, <1>1, <1>2
<1>4. /\ q \in Seq(Seq(Bytes)) /\ Len(q) = n /\ Encode(text) = FlattenSeq(q)
      /\ \A i \in 1..n : q[i] = EncodeUnit(text[i])
  BY <1>2, EncodedUnitsType
<1>5. /\ r \in Seq(Seq(Bytes)) /\ Len(r) = n + 1 /\ Encode(t) = FlattenSeq(r)
      /\ \A i \in 1..(n + 1) : r[i] = EncodeUnit(t[i])
  <2>1. PICK v : v = EncodedUnits(t)
    OBVIOUS
  <2>2. /\ v \in Seq(Seq(Bytes)) /\ Len(v) = n + 1 /\ Encode(t) = FlattenSeq(v)
        /\ \A i \in 1..(n + 1) : v[i] = EncodeUnit(t[i])
    BY <1>3, <2>1, EncodedUnitsType
  <2>3. v = r
    BY <1>3, <2>1
  <2>4. QED
    BY <2>2, <2>3
<1>6. PICK e \in Seq(Bytes) : e = EncodeUnit(c)
  BY UnitDecodes DEF Decodes
<1> HIDE DEF q, r
<1>7. PICK a : a = Append(q, e)
  OBVIOUS
<1>8. /\ a \in Seq(Seq(Bytes)) /\ Len(a) = n + 1
      /\ \A i \in 1..n : a[i] = q[i]
      /\ a[n + 1] = e
  BY <1>4, <1>6, <1>7
<1>9. \A i \in 1..(n + 1) : r[i] = a[i]
  <2> SUFFICES ASSUME NEW i \in 1..(n + 1) PROVE r[i] = a[i]
    OBVIOUS
  <2>1. i \in 1..n \/ i = n + 1
    OBVIOUS
  <2>2. CASE i \in 1..n
    BY <1>3, <1>4, <1>5, <1>8, <2>2
  <2>3. CASE i = n + 1
    BY <1>3, <1>5, <1>6, <1>8, <2>3
  <2>4. QED
    BY <2>1, <2>2, <2>3
<1>10. r = a
  BY <1>5, <1>8, <1>9, SeqEqual
<1>11. FlattenSeq(a) = FlattenSeq(q) \o e
  BY <1>4, <1>6, <1>7, FlattenAppend
<1>12. Encode(<<>>) = <<>>
  <2>1. EncodedUnits(<<>>) = <<>>
    BY DEF EncodedUnits
  <2>2. FlattenSeq(<<>>) = <<>>
    BY <1>4, <1>6, FlattenAppend
  <2>3. QED
    BY <2>1, <2>2 DEF Encode, EncodedUnits
<1>13. QED
  BY <1>1, <1>3, <1>4, <1>5, <1>6, <1>10, <1>11, <1>12

\* A sequence that has a length is not empty.
LEMMA NotEmpty ==
    ASSUME NEW u, Len(u) \in 1..3
    PROVE  u # <<>>
<1>1. Len(<<>>) = 0
  OBVIOUS
<1>2. Len(u) # 0
  OBVIOUS
<1>3. QED
  BY <1>1, <1>2

\* The bytes of a text are scanned as its units are: a unit of several bytes is
\* unprintable, and so are its bytes.
LEMMA ScanEncoded ==
    ASSUME NEW l \in Nat, NEW text \in Seq(Units)
    PROVE  /\ text \in Seq(Nat) /\ Encode(text) \in Seq(Nat)
           /\ Scan(<<l>> \o Encode(text)) = Scan(<<l>> \o text)
<1>1. Units \subseteq Nat /\ Bytes \subseteq Nat
  BY DEF Units, Bytes
<1>2. \A t \in Seq(Units) : t \in Seq(Nat) /\ Encode(t) \in Seq(Nat)
  <2> SUFFICES ASSUME NEW t \in Seq(Units) PROVE t \in Seq(Nat) /\ Encode(t) \in Seq(Nat)
    OBVIOUS
  <2>1. PICK b \in Seq(Bytes) : b = Encode(t)
    BY EncodedUnitsType
  <2>2. t \in Seq(Nat)
    BY <1>1, SeqMonotonic
  <2>3. b \in Seq(Nat)
    BY <1>1, SeqMonotonic
  <2>4. QED
    BY <2>1, <2>2, <2>3
<1>3. PICK p : p = <<l>> /\ p \in Seq(Nat)
  <2>1. <<l>> \in Seq(Nat)
    OBVIOUS
  <2>2. QED
    BY <2>1
<1> DEFINE T == {t \in Seq(Units) : Scan(p \o Encode(t)) = Scan(p \o t)}
<1>4. ASSUME NEW t \in Seq(Units), NEW c \in Units, t \in T PROVE Append(t, c) \in T
  <2>1. PICK b \in Seq(Nat) : b = Encode(t)
    BY <1>2
  <2>2. PICK u : u = EncodeUnit(c)
    OBVIOUS
  <2>3. Append(t, c) \in Seq(Units) /\ Encode(Append(t, c)) = b \o u
    BY <2>1, <2>2, EncodeAppend
  <2>4. Scan(p \o b) = Scan(p \o t)
    BY <1>4, <2>1
  <2>5. Decodes(c, u)
    BY <2>2, UnitDecodes
  <2>6. /\ u \in Seq(Nat) /\ Len(u) \in 1..3 /\ u # <<>>
        /\ \/ u = <<c>>
           \/ ~Printable(c) /\ \A j \in 1..Len(u) : ~Printable(u[j])
    <3>1. /\ u \in Seq(Bytes) /\ Len(u) \in 1..3
          /\ \/ u = <<c>>
             \/ ~Printable(c) /\ \A j \in 1..Len(u) : ~Printable(u[j])
      BY <2>5, Zenon DEF Decodes
    <3>2. u \in Seq(Nat)
      BY <1>1, <3>1, SeqMonotonic
    <3>4. u # <<>>
      BY <3>1, NotEmpty
    <3>5. QED
      BY <3>1, <3>2, <3>4
  <2>7. PICK x \in Seq(Nat) : x = p \o b
    BY <1>3, <2>1, ConcatProperties
  <2>8. t \in Seq(Nat) /\ c \in Nat
    BY <1>1, <1>2
  <2>9. PICK y \in Seq(Nat) : y = p \o t
    BY <1>3, <2>8, ConcatProperties
  <2>10. p \o (b \o u) = x \o u
    BY <1>3, <2>1, <2>6, <2>7, ConcatAssociative
  <2>11. p \o Append(t, c) = Append(y, c)
    BY <1>3, <2>8, <2>9, ConcatAppend
  <2>12. Scan(Append(y, c)) = ScanByte(Scan(y), c)
    BY <2>8, ScanAppend
  <2>13. Scan(x) = Scan(y)
    BY <2>4, <2>7, <2>9
  <2>14. Scan(x \o u) = ScanByte(Scan(x), c)
    <3>1. CASE u = <<c>>
      <4>1. x \o u = Append(x, c)
        BY <2>8, <3>1, AppendIsConcat
      <4>2. Scan(Append(x, c)) = ScanByte(Scan(x), c)
        BY <2>8, ScanAppend
      <4>3. QED
        BY <4>1, <4>2
    <3>2. CASE ~Printable(c) /\ \A j \in 1..Len(u) : ~Printable(u[j])
      <4>1. Scan(x \o u) = Flush(Scan(x))
        BY <2>6, <3>2, ScanUnprintable
      <4>2. ScanByte(Scan(x), c) = Flush(Scan(x))
        BY <3>2 DEF ScanByte
      <4>3. QED
        BY <4>1, <4>2
    <3>3. QED
      BY <2>6, <3>1, <3>2
  <2>15. Scan(p \o Encode(Append(t, c))) = Scan(p \o Append(t, c))
    BY <2>3, <2>10, <2>11, <2>12, <2>13, <2>14
  <2>16. QED
    BY <2>3, <2>15
<1>5. <<>> \in T
  <2>1. <<>> \in Seq(Units)
    BY EmptySeq
  <2>2. PICK c \in Units : c = 0
    BY DEF Units
  <2>3. Encode(<<>>) = <<>>
    BY <2>1, <2>2, EncodeAppend
  <2>4. QED
    BY <2>1, <2>3
<1> HIDE DEF T
<1>6. Seq(Units) \subseteq T
  BY <1>4, <1>5, SequenceInduction
<1>7. text \in T
  BY <1>6
<1>8. QED
  BY <1>2, <1>3, <1>7 DEF T

\* What the scan lists when the last run is closed.
LEMMA FoundIs ==
    ASSUME NEW q \in Seq(Nat), NEW s, s = Scan(q)
    PROVE  /\ s.current \in Seq(Nat) /\ s.strings \in Seq(Seq(Nat))
           /\ Flush(s) = [current |-> <<>>, strings |-> Found(q)]
           /\ Found(q) = IF Len(s.current) >= 6 THEN Append(s.strings, s.current) ELSE s.strings
           /\ Found(q) \in Seq(Seq(Nat))
<1>1. PICK e : e \in Nat /\ e = 0
  OBVIOUS
<1>2. s \in ScanStates
  BY <1>1, ScanAppend
<1>3. s.current \in Seq(Nat) /\ s.strings \in Seq(Seq(Nat))
  BY <1>2 DEF ScanStates
<1> DEFINE kept == IF Len(s.current) >= 6 THEN Append(s.strings, s.current) ELSE s.strings
<1>4. Flush(s) = [current |-> <<>>, strings |-> kept]
  BY DEF Flush
<1> HIDE DEF kept
<1>5. Found(q) = kept
  BY <1>4 DEF Found
<1>6. Found(q) \in Seq(Seq(Nat))
  BY FoundRuns
<1>7. QED
  BY <1>3, <1>4, <1>5, <1>6 DEF kept

\* No run goes on beyond an unprintable byte: the runs are those on either side.
LEMMA FieldsRuns ==
    ASSUME NEW p \in Seq(Nat), NEW h \in Nat, ~Printable(h), NEW w \in Seq(Nat)
    PROVE  LongRuns(p \o (<<h>> \o w)) = LongRuns(p) \cup LongRuns(w)
<1>1. PICK x \in Seq(Nat) : x = Append(p, h)
  <2>1. Append(p, h) \in Seq(Nat)
    OBVIOUS
  <2>2. QED
    BY <2>1
<1>2. p \o (<<h>> \o w) = x \o w
  <2>1. <<h>> \in Seq(Nat) /\ Append(p, h) = p \o <<h>>
    BY AppendIsConcat
  <2>2. PICK d \in Seq(Nat) : d = <<h>>
    BY <2>1
  <2>3. (p \o d) \o w = p \o (d \o w)
    BY ConcatAssociative
  <2>4. QED
    BY <1>1, <2>1, <2>2, <2>3
<1>3. PICK s : s = Scan(p)
  OBVIOUS
<1>4. PICK f \in Seq(Seq(Nat)) : f = Found(p)
  BY FoundRuns
<1>5. Scan(x) = [current |-> <<>>, strings |-> f]
  <2>1. Scan(x) = ScanByte(s, h)
    BY <1>1, <1>3, ScanAppend
  <2>2. ScanByte(s, h) = Flush(s)
    BY DEF ScanByte
  <2>3. Flush(s) = [current |-> <<>>, strings |-> Found(p)]
    BY <1>3, FoundIs
  <2>4. QED
    BY <1>4, <2>1, <2>2, <2>3
<1>6. PICK t : t = Scan(w)
  OBVIOUS
<1>7. PICK y \in Seq(Nat) : y = x \o w
  BY ConcatProperties
<1>8. Scan(y) = [current |-> t.current, strings |-> f \o t.strings]
  <2>1. Scan(x).current = <<>> /\ Scan(x).strings = f
    BY <1>5
  <2>2. Scan(x \o w) = [current |-> Scan(w).current,
                        strings |-> Scan(x).strings \o Scan(w).strings]
    BY <2>1, ScanBehind
  <2>3. QED
    BY <1>6, <1>7, <2>1, <2>2
<1>9. PICK v : v = Scan(y)
  OBVIOUS
<1>10. v.current = t.current /\ v.strings = f \o t.strings
  BY <1>8, <1>9
<1>11. /\ t.current \in Seq(Nat) /\ t.strings \in Seq(Seq(Nat))
       /\ Found(w) = IF Len(t.current) >= 6 THEN Append(t.strings, t.current) ELSE t.strings
       /\ Found(w) \in Seq(Seq(Nat))
  BY <1>6, FoundIs
<1>12. Found(y) = IF Len(v.current) >= 6 THEN Append(v.strings, v.current) ELSE v.strings
  BY <1>9, FoundIs
<1>13. Found(y) = f \o Found(w)
  <2>1. PICK c : c = t.current
    OBVIOUS
  <2>2. PICK ss : ss = t.strings
    OBVIOUS
  <2>3. f \o Append(ss, c) = Append(f \o ss, c)
    <3>1. c \in Seq(Nat) /\ ss \in Seq(Seq(Nat))
      BY <1>11, <2>1, <2>2
    <3>2. PICK V : V = Seq(Nat)
      OBVIOUS
    <3>3. c \in V /\ ss \in Seq(V) /\ f \in Seq(V)
      BY <3>1, <3>2
    <3>4. QED
      BY <3>3, ConcatAppend
  <2>4. CASE Len(c) >= 6
    <3>1. Found(y) = Append(f \o ss, c)
      BY <1>10, <1>12, <2>1, <2>2, <2>4
    <3>2. Found(w) = Append(ss, c)
      BY <1>11, <2>1, <2>2, <2>4
    <3>3. QED
      BY <2>3, <3>1, <3>2
  <2>5. CASE ~(Len(c) >= 6)
    <3>1. Found(y) = f \o ss
      BY <1>10, <1>12, <2>1, <2>2, <2>5
    <3>2. Found(w) = ss
      BY <1>11, <2>1, <2>2, <2>5
    <3>3. QED
      BY <3>1, <3>2
  <2>6. QED
    BY <2>4, <2>5
<1>14. PICK g \in Seq(Seq(Nat)) : g = Found(w)
  BY <1>11
<1>15. ToSet(f \o g) = ToSet(f) \cup ToSet(g)
  BY ToSetConcat
<1>16. /\ ToSet(Found(y)) = LongRuns(y) /\ ToSet(f) = LongRuns(p)
       /\ ToSet(g) = LongRuns(w)
  BY <1>4, <1>14, FoundRuns
<1>17. QED
  BY <1>2, <1>7, <1>13, <1>14, <1>15, <1>16

\* The paths among the strings.
Kept(found) ==
    [i \in DOMAIN found |-> IF hasStatePathPrefix(found[i]) THEN <<found[i]>> ELSE <<>>]

\* The filter keeps the paths among the strings, and nothing else.
LEMMA KeptPaths ==
    ASSUME NEW S, NEW found \in Seq(S)
    PROVE  /\ Kept(found) \in Seq(Seq(S))
           /\ ToSet(FlattenSeq(Kept(found))) = {x \in ToSet(found) : hasStatePathPrefix(x)}
<1> DEFINE T == {f \in Seq(S) :
                    /\ Kept(f) \in Seq(Seq(S))
                    /\ ToSet(FlattenSeq(Kept(f))) = {x \in ToSet(f) : hasStatePathPrefix(x)}}
<1>1. <<>> \in T
  <2>1. <<>> \in Seq(S) /\ <<>> \in Seq(Seq(S))
    BY EmptySeq
  <2>2. Kept(<<>>) = <<>>
    BY DEF Kept
  <2>3. FlattenSeq(<<>>) = <<>>
    BY <2>1, FlattenAppend
  <2>4. ToSet(<<>>) = {}
    BY DEF ToSet
  <2>5. QED
    BY <2>1, <2>2, <2>3, <2>4
<1>2. ASSUME NEW f \in Seq(S), NEW e \in S, f \in T PROVE Append(f, e) \in T
  <2>1. PICK part : part = IF hasStatePathPrefix(e) THEN <<e>> ELSE <<>>
    OBVIOUS
  <2>2. part \in Seq(S) /\ ToSet(part) = {x \in {e} : hasStatePathPrefix(x)}
    <3>1. <<>> \in Seq(S) /\ ToSet(<<>>) = {}
      BY EmptySeq DEF ToSet
    <3>2. <<e>> \in Seq(S) /\ ToSet(<<e>>) = {e}
      BY DEF ToSet
    <3>3. CASE hasStatePathPrefix(e)
      BY <2>1, <3>2, <3>3
    <3>4. CASE ~hasStatePathPrefix(e)
      BY <2>1, <3>1, <3>4
    <3>5. QED
      BY <3>3, <3>4
  <2>3. Kept(f) \in Seq(Seq(S))
        /\ ToSet(FlattenSeq(Kept(f))) = {x \in ToSet(f) : hasStatePathPrefix(x)}
    BY <1>2
  <2>4. PICK a : a = Append(f, e)
    OBVIOUS
  <2>5. PICK n \in Nat : n = Len(f) /\ DOMAIN f = 1..n
    OBVIOUS
  <2>6. /\ a \in Seq(S) /\ DOMAIN a = 1..(n + 1) /\ a[n + 1] = e
        /\ \A i \in 1..n : a[i] = f[i]
    BY <2>4, <2>5
  <2>7. PICK k \in Seq(Seq(S)) : k = Kept(f)
    BY <2>3
  <2>8. Len(k) = n /\ \A i \in 1..n : k[i] = IF hasStatePathPrefix(f[i]) THEN <<f[i]>> ELSE <<>>
    <3>1. k = [i \in 1..n |-> IF hasStatePathPrefix(f[i]) THEN <<f[i]>> ELSE <<>>]
      BY <2>5, <2>7 DEF Kept
    <3>2. DOMAIN k = 1..n
      BY <3>1
    <3>3. Len(k) = n
      BY <3>2
    <3>4. QED
      BY <3>1, <3>3
  <2>9. PICK b \in Seq(Seq(S)) : b = Append(k, part)
    <3>1. Append(k, part) \in Seq(Seq(S))
      BY <2>2
    <3>2. QED
      BY <3>1
  <2>10. /\ DOMAIN b = 1..(n + 1) /\ b[n + 1] = part /\ \A i \in 1..n : b[i] = k[i]
         /\ b = [i \in 1..(n + 1) |-> b[i]]
    <3>1. Len(k) = n
      BY <2>8
    <3>2. /\ DOMAIN Append(k, part) = 1..(n + 1) /\ Append(k, part)[n + 1] = part
          /\ \A i \in 1..n : Append(k, part)[i] = k[i]
      BY <2>2, <3>1
    <3>3. DOMAIN b = 1..(n + 1) /\ b[n + 1] = part /\ \A i \in 1..n : b[i] = k[i]
      BY <2>9, <3>2
    <3>4. b = [i \in 1..(n + 1) |-> b[i]]
      <4>1. Len(b) = n + 1
        BY <3>3
      <4>2. b \in [1..Len(b) -> Seq(S)]
        BY LenProperties
      <4>3. QED
        BY <4>1, <4>2
    <3>5. QED
      BY <3>3, <3>4
  <2>11. \A i \in 1..(n + 1) : b[i] = IF hasStatePathPrefix(a[i]) THEN <<a[i]>> ELSE <<>>
    <3> SUFFICES ASSUME NEW i \in 1..(n + 1)
                 PROVE  b[i] = IF hasStatePathPrefix(a[i]) THEN <<a[i]>> ELSE <<>>
      OBVIOUS
    <3>1. i \in 1..n \/ i = n + 1
      OBVIOUS
    <3>2. CASE i \in 1..n
      BY <2>6, <2>8, <2>10, <3>2
    <3>3. CASE i = n + 1
      BY <2>1, <2>6, <2>10, <3>3
    <3>4. QED
      BY <3>1, <3>2, <3>3
  <2>12. Kept(a) = b
    <3>1. Kept(a) = [i \in 1..(n + 1) |-> IF hasStatePathPrefix(a[i]) THEN <<a[i]>> ELSE <<>>]
      BY <2>6 DEF Kept
    <3>2. QED
      BY <2>10, <2>11, <3>1
  <2>13. FlattenSeq(b) = FlattenSeq(k) \o part /\ FlattenSeq(k) \in Seq(S)
    BY <2>2, <2>9, FlattenAppend
  <2>14. ToSet(FlattenSeq(k) \o part) = ToSet(FlattenSeq(k)) \cup ToSet(part)
    <3>1. PICK z \in Seq(S) : z = FlattenSeq(k)
      BY <2>13
    <3>2. ToSet(z \o part) = ToSet(z) \cup ToSet(part)
      BY <2>2, ToSetConcat
    <3>3. QED
      BY <3>1, <3>2
  <2>15. ToSet(a) = ToSet(f) \cup {e}
    BY <2>4, ToSetAppend
  <2>16. ToSet(FlattenSeq(b)) = {x \in ToSet(a) : hasStatePathPrefix(x)}
    BY <2>2, <2>3, <2>7, <2>13, <2>14, <2>15
  <2>17. QED
    BY <2>4, <2>6, <2>12, <2>16
<1> HIDE DEF T
<1>3. Seq(S) \subseteq T
  BY <1>1, <1>2, SequenceInduction
<1>4. found \in T
  BY <1>3
<1>5. QED
  BY <1>4 DEF T

\* Two numbers in front of a sequence, one by one.
LEMMA TwoInFront ==
    ASSUME NEW h \in Nat, NEW l \in Nat, NEW b \in Seq(Nat)
    PROVE  <<h, l>> \o b = <<h>> \o (<<l>> \o b)
<1>1. <<h>> \in Seq(Nat) /\ <<l>> \in Seq(Nat) /\ Append(<<h>>, l) = <<h, l>>
  <2>1. <<h>> \in Seq(Nat) /\ Len(<<h>>) = 1
    OBVIOUS
  <2>2. <<l>> \in Seq(Nat)
    OBVIOUS
  <2>3. PICK s \in Seq(Nat) : s = Append(<<h>>, l)
    <3>1. Append(<<h>>, l) \in Seq(Nat)
      BY <2>1
    <3>2. QED
      BY <3>1
  <2>4. PICK t \in Seq(Nat) : t = <<h, l>>
    <3>1. <<h, l>> \in Seq(Nat)
      OBVIOUS
    <3>2. QED
      BY <3>1
  <2>5. Len(s) = 2 /\ s[1] = h /\ s[2] = l
    <3>1. PICK d \in Seq(Nat) : d = <<h>> /\ Len(d) = 1 /\ d[1] = h
      BY <2>1
    <3>2. Len(Append(d, l)) = 2 /\ Append(d, l)[1] = h /\ Append(d, l)[2] = l
      BY <3>1
    <3>3. QED
      BY <2>3, <3>1, <3>2
  <2>6. Len(t) = 2 /\ t[1] = h /\ t[2] = l
    BY <2>4
  <2>7. \A i \in 1..2 : s[i] = t[i]
    BY <2>5, <2>6
  <2>8. s = t
    BY <2>5, <2>6, <2>7, SeqEqual
  <2>9. QED
    BY <2>1, <2>2, <2>3, <2>4, <2>8
<1>2. PICK d \in Seq(Nat) : d = <<h>>
  BY <1>1
<1>3. PICK p \in Seq(Nat) : p = <<l>>
  BY <1>1
<1>4. (d \o p) \o b = d \o (p \o b)
  BY ConcatAssociative
<1>5. Append(d, l) = d \o <<l>>
  BY AppendIsConcat
<1>6. d \o p = <<h, l>>
  BY <1>1, <1>2, <1>3, <1>5
<1>7. QED
  BY <1>2, <1>3, <1>4, <1>6

IsSeenAs(u, text) ==
    \E h \in Nat, w \in Seq(Nat) :
        ~Printable(h) /\ u = <<h>> \o w /\ LongRuns(w) = LongRuns(Seen(text))

\* A field is an unprintable byte and what the scan sees of it, but for the
\* encoding of its text.
LEMMA FieldForm ==
    ASSUME NEW ts, NEW n, Written(ts, n), NEW i \in 1..Fields,
           FieldLength(ts, n, i) = Len(Encode(ts[i])), Short(ts[i]),
           NEW u, u = ImageFields(ts, n)[i]
    PROVE  IsSeenAs(u, ts[i])
<1>1. PICK t : t = ts[i]
  OBVIOUS
<1>2. t \in Seq(Units)
  BY <1>1, ImageField, TextsAreUnits
<1>3. PICK m : m = Len(Encode(t))
  OBVIOUS
<1>4. m \in Nat /\ m =< 65535 /\ u = Uint16(m) \o Encode(t)
  <2>1. PICK f : f = FieldLength(ts, n, i)
    OBVIOUS
  <2>2. f \in Nat /\ f =< 65535 /\ u = Uint16(f) \o Encode(ts[i])
    BY <2>1, ImageField
  <2>3. f = m
    BY <1>1, <1>3, <2>1
  <2>4. QED
    BY <1>1, <2>2, <2>3
<1>5. PICK h \in Nat, l \in Nat :
         /\ h =< 255 /\ l =< 255 /\ l = m % 256
         /\ Uint16(m) = <<h, l>> /\ h * 256 + l = m
  BY <1>4, Uint16Is
<1>6. PICK b \in Seq(Nat) : b = Encode(t)
  BY <1>2, ScanEncoded
<1>7. t \in Seq(Nat) /\ Scan(<<l>> \o b) = Scan(<<l>> \o t)
  BY <1>2, <1>6, ScanEncoded
<1>8. PICK p \in Seq(Nat) : p = <<l>>
  <2>1. <<l>> \in Seq(Nat)
    BY <1>5
  <2>2. QED
    BY <2>1
<1>9. PICK w \in Seq(Nat) : w = p \o b
  BY ConcatProperties
<1>10. PICK v \in Seq(Nat) : v = p \o t
  BY <1>7, ConcatProperties
<1>11. Found(w) = Found(v)
  BY <1>7, <1>8, <1>9, <1>10 DEF Found
<1>12. LongRuns(w) = LongRuns(v)
  BY <1>11, FoundRuns
<1>13. v = Seen(ts[i])
  <2>1. l = m % 256
    BY <1>5
  <2>2. Seen(t) = <<l>> \o t
    BY <1>3, <2>1, Zenon DEF Seen
  <2>3. QED
    BY <1>1, <1>8, <1>10, <2>2
<1>14. h \in Nat /\ ~Printable(h)
  <2>1. Printable(h) <=> Within(h, 32, 126)
    BY DEF Printable, Within
  <2>2. m < 32 * 256
    BY <1>1, <1>3 DEF Short
  <2>3. h < 32
    BY <1>5, <2>2
  <2>4. QED
    BY <2>1, <2>3, WithinIs
<1>15. u = <<h>> \o w
  <2>1. <<h, l>> \o b = <<h>> \o (<<l>> \o b)
    BY <1>14, TwoInFront
  <2>4. u = <<h, l>> \o b
    <3>1. Uint16(m) = <<h, l>>
      BY <1>5
    <3>2. QED
      BY <1>4, <1>6, <3>1
  <2>5. QED
    BY <1>8, <1>9, <2>1, <2>4
<1>16. QED
  BY <1>12, <1>13, <1>14, <1>15 DEF IsSeenAs

\* The long runs of a whole file are those of its fields.
LEMMA ImageRuns ==
    ASSUME NEW ts, NEW n, Written(ts, n),
           \A i \in 1..Fields :
               FieldLength(ts, n, i) = Len(Encode(ts[i])) /\ Short(ts[i])
    PROVE  LongRuns(Image(ts, n)) = UNION {LongRuns(Seen(ts[i])) : i \in DOMAIN ts}
<1>1. PICK q : q = ImageFields(ts, n)
  OBVIOUS
<1>2. PICK m \in Nat : m = Fields
  BY FieldsAssumption
<1>3. /\ q \in Seq(Seq(Bytes)) /\ Len(q) = m /\ Image(ts, n) = FlattenSeq(q)
  BY <1>1, <1>2, ImageType
<1>4. q \in Seq(Seq(Nat))
  <2>1. Seq(Bytes) \subseteq Seq(Nat)
    <3> SUFFICES ASSUME NEW s \in Seq(Bytes) PROVE s \in Seq(Nat)
      OBVIOUS
    <3>1. Bytes \subseteq Nat
      BY BytesAre
    <3>2. QED
      BY <3>1, SeqMonotonic
  <2>2. QED
    BY <1>3, <2>1, SeqMonotonic
<1> DEFINE Part(k) == SubSeq(q, 1, k)
           Runs0(k) == UNION {LongRuns(Seen(ts[i])) : i \in 1..k}
           T == {k \in 0..m : LongRuns(FlattenSeq(Part(k))) = Runs0(k)}
<1>5. 0 \in T
  <2>1. Part(0) = <<>>
    BY SubSeqEmpty
  <2>2. <<>> \in Seq(Nat) /\ <<>> \in Seq(Seq(Nat))
    BY EmptySeq
  <2>3. FlattenSeq(<<>>) = <<>>
    BY <2>2, FlattenAppend
  <2>4. LongRuns(<<>>) = {}
    BY DEF LongRuns
  <2>5. Runs0(0) = {}
    OBVIOUS
  <2> HIDE DEF Part, Runs0
  <2>6. LongRuns(FlattenSeq(Part(0))) = Runs0(0)
    BY <2>1, <2>3, <2>4, <2>5
  <2>7. QED
    BY <1>2, <2>6
<1>6. ASSUME NEW k \in 0..(m - 1), k \in T PROVE k + 1 \in T
  <2>1. k + 1 \in 1..m /\ k + 1 \in 0..m /\ k \in 0..m /\ (k + 1) - 1 = k
    BY <1>2
  <2>2. PICK i \in 1..m : i = k + 1
    BY <2>1
  <2>3. PICK u \in Seq(Nat) : u = q[i]
    BY <1>3, <1>4
  <2>4. /\ i \in 1..Fields
        /\ FieldLength(ts, n, i) = Len(Encode(ts[i])) /\ Short(ts[i])
    BY <1>2
  <2>5. IsSeenAs(u, ts[i])
    BY <1>1, <2>3, <2>4, FieldForm
  <2>6. PICK h \in Nat, w \in Seq(Nat) :
           ~Printable(h) /\ u = <<h>> \o w /\ LongRuns(w) = LongRuns(Seen(ts[i]))
    BY <2>5 DEF IsSeenAs
  <2>7. Part(k) \in Seq(Seq(Nat)) /\ Part(i) = Append(Part(k), u)
    <3>1. \A j \in 1..k : j \in 1..m /\ q[j] \in Seq(Nat)
      BY <1>3, <1>4, <2>1
    <3>2. SubSeq(q, 1, k) \in Seq(Seq(Nat))
      BY <2>1, <3>1, SubSeqProperties
    <3>3. SubSeq(q, 1, i) = SubSeq(q, 1, i - 1) \o <<q[i]>>
      BY <1>3, <1>4, <2>2, SubSeqRecursiveSecond
    <3>4. PICK p \in Seq(Seq(Nat)) : p = SubSeq(q, 1, k)
      BY <3>2
    <3>5. Append(p, u) = p \o <<u>>
      BY AppendIsConcat
    <3>6. i - 1 = k
      BY <2>2
    <3>7. QED
      BY <2>3, <3>2, <3>3, <3>4, <3>5, <3>6
  <2>8. PICK p \in Seq(Seq(Nat)) : p = Part(k)
    BY <2>7
  <2>9. FlattenSeq(p) \in Seq(Nat) /\ FlattenSeq(Append(p, u)) = FlattenSeq(p) \o u
    BY FlattenAppend
  <2>10. PICK f \in Seq(Nat) : f = FlattenSeq(p)
    BY <2>9
  <2>11. LongRuns(f \o (<<h>> \o w)) = LongRuns(f) \cup LongRuns(w)
    BY <2>6, FieldsRuns
  <2>12. LongRuns(FlattenSeq(Part(i))) = Runs0(k) \cup LongRuns(Seen(ts[i]))
    <3>1. LongRuns(f) = Runs0(k)
      BY <1>6, <2>8, <2>10
    <3> HIDE DEF Runs0, Part
    <3>2. FlattenSeq(Part(i)) = f \o u
      BY <2>7, <2>8, <2>9, <2>10
    <3>3. QED
      BY <2>6, <2>11, <3>1, <3>2
  <2>13. Runs0(i) = Runs0(k) \cup LongRuns(Seen(ts[i]))
    <3>1. 1..i = 1..k \cup {i}
      BY <2>1, <2>2
    <3>2. PICK I : I = 1..k
      OBVIOUS
    <3>3. 1..i = I \cup {i}
      BY <3>1, <3>2
    <3>4. QED
      BY <3>2, <3>3
  <2>14. QED
    BY <2>1, <2>2, <2>12, <2>13
<1>7. m \in T
  <2> HIDE DEF T
  <2>1. 0..m \subseteq T
    BY <1>5, <1>6, Induction
  <2>2. m \in 0..m
    OBVIOUS
  <2>3. QED
    BY <2>1, <2>2
<1>8. Part(m) = q
  BY <1>3, <1>4, SubSeqFull
<1>9. DOMAIN ts = 1..m
  BY <1>2 DEF Written
<1>10. QED
  BY <1>3, <1>7, <1>8, <1>9

\* The invariant gives the state paths.
LEMMA ListedPaths ==
    ASSUME IInv
    PROVE  PathsAreListed
<1> SUFFICES ASSUME outcome = "scanned", Undamaged, \A i \in DOMAIN texts : Short(texts[i])
             PROVE  PathsAreListed
  BY DEF PathsAreListed
<1>1. Written(texts, length) /\ Truncated(file, texts, length)
  BY DEF IInv, WrittenInv, FileInv
<1>2. file = Image(texts, length)
  <2>1. offset = End(ImageFields(texts, length), Fields)
    BY DEF IInv, UndamagedInv, ScannedInv
  <2>2. PICK q : q = ImageFields(texts, length)
    OBVIOUS
  <2>3. Len(q) = Fields /\ Image(texts, length) = FlattenSeq(q) /\ Parts(q)
    BY <1>1, <2>2, ImageType
  <2>4. offset = Len(Image(texts, length))
    BY <2>1, <2>2, <2>3 DEF Parts
  <2>5. /\ Len(file) \in Nat /\ Len(Image(texts, length)) \in Nat
        /\ Len(file) =< Len(Image(texts, length))
        /\ Len(file) = Len(Image(texts, length)) => file = Image(texts, length)
    BY <1>1, TruncatedType
  <2>6. offset =< Len(file)
    BY DEF IInv, ReadInv
  <2>7. QED
    BY <2>4, <2>5, <2>6
<1>3. file \in Seq(Nat)
  BY <1>1, TruncatedType, BytesAre
<1>4. LongRuns(file) = UNION {LongRuns(Seen(texts[i])) : i \in DOMAIN texts}
  <2>1. DOMAIN texts = 1..Fields
    BY <1>1 DEF Written
  <2>2. \A i \in 1..Fields : Short(texts[i])
    BY <2>1
  <2>3. QED
    BY <1>1, <1>2, <2>2, UndamagedLength, ImageRuns
<1>5. PICK found : found = scanInlineStrings(file)
  OBVIOUS
<1>6. ToSet(found) = LongRuns(file) /\ found \in Seq(Seq(Nat))
  <2>1. PICK f \in Seq(Seq(Nat)) : f = Found(file)
    BY <1>3, FoundRuns
  <2>2. found = uniqueStrings(f)
    BY <1>5, <2>1 DEF scanInlineStrings, Found
  <2>3. PICK e \in Seq(Nat) : TRUE
    BY EmptySeq
  <2>4. PICK V : V = Seq(Nat)
    OBVIOUS
  <2>5. f \in Seq(V) /\ e \in V
    BY <2>4
  <2>6. uniqueStrings(f) \in Seq(V)
    BY <2>5, UniqueAppend
  <2>7. QED
    BY <1>3, <1>5, <2>2, <2>4, <2>6, FoundRuns
<1>7. PICK V : V = Seq(Nat)
  OBVIOUS
<1>8. found \in Seq(V)
  BY <1>6, <1>7
<1>9. PICK k : k = Kept(found)
  OBVIOUS
<1>10. k \in Seq(Seq(V)) /\ ToSet(FlattenSeq(k)) = {x \in ToSet(found) : hasStatePathPrefix(x)}
  BY <1>8, <1>9, KeptPaths
<1>11. FlattenSeq(k) \in Seq(V)
  <2>1. PICK e \in Seq(V) : TRUE
    BY EmptySeq
  <2>2. QED
    BY <1>10, FlattenAppend
<1>12. paths = uniqueStrings(FlattenSeq(k))
  <2>1. paths = extractStateFilePaths(file)
    BY DEF IInv, ScannedInv
  <2>2. QED
    BY <1>5, <1>9, <2>1 DEF extractStateFilePaths, Kept
<1>13. PICK z \in Seq(V) : z = FlattenSeq(k)
  BY <1>11
<1>14. ToSet(paths) = ToSet(z)
  BY <1>12, <1>13, UniqueProperties
<1>15. ToSet(paths) = {x \in ToSet(found) : hasStatePathPrefix(x)}
  BY <1>10, <1>13, <1>14
<1>16. QED
  BY <1>4, <1>6, <1>15 DEF PathsAreListed

\* The state paths of the summary are the paths in single strings, as the scan sees
\* them, and no other, unless the higher byte of a length is printable.
THEOREM StatePathsAreOfFields == Spec => []PathsAreListed
  BY SpecInv, ListedPaths, PTL
=============================================================================
