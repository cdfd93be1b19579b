-------------------------- MODULE DeploymentsMap_proofs --------------------------
(***************************************************************************)
(* What Reduce and FindByName do to a map of deployments: the lemmas that  *)
(* the proofs about the browser's stream and about EndToEnd rest on.       *)
(***************************************************************************)
EXTENDS DeploymentsMap, SequenceTheorems, WellFoundedInduction, TLAPS

\* No two entries of a map have the same uid.
OnePerUid(map) == \A i, j \in DOMAIN map : map[i].uid = map[j].uid => i = j

\* A sequence without its k-th element.
LEMMA RemoveAtProperties ==
    ASSUME NEW S, NEW q \in Seq(S), NEW k \in 1..Len(q)
    PROVE  /\ RemoveAt(q, k) \in Seq(S)
           /\ Len(RemoveAt(q, k)) = Len(q) - 1
           /\ \A i \in 1..Len(q) - 1 :
                 RemoveAt(q, k)[i] = IF i < k THEN q[i] ELSE q[i + 1]
<1>1. PICK n \in Nat : n = Len(q)
  OBVIOUS
<1>2. k \in Int /\ 1 =< k /\ k =< n
  BY <1>1
<1>3. \A i \in 1..n : q[i] \in S
  BY <1>1
<1> DEFINE before == SubSeq(q, 1, k - 1)
           after  == SubSeq(q, k + 1, n)
<1>4. /\ before \in Seq(S)
      /\ Len(before) = k - 1
      /\ \A i \in 1..k - 1 : before[i] = q[i]
  <2>1. \A i \in 1..k - 1 : q[i] \in S
    BY <1>2, <1>3
  <2>2. /\ before \in Seq(S)
        /\ Len(before) = IF 1 =< k - 1 THEN (k - 1) - 1 + 1 ELSE 0
        /\ \A i \in 1..((k - 1) - 1 + 1) : before[i] = q[1 + i - 1]
    BY <1>2, <2>1, SubSeqProperties
  <2> HIDE DEF before
  <2>3. QED
    BY <1>2, <2>2
<1>5. /\ after \in Seq(S)
      /\ Len(after) = n - k
      /\ \A i \in 1..n - k : after[i] = q[k + i]
  <2>1. \A i \in k + 1..n : q[i] \in S
    BY <1>2, <1>3
  <2>2. /\ after \in Seq(S)
        /\ Len(after) = IF k + 1 =< n THEN n - (k + 1) + 1 ELSE 0
        /\ \A i \in 1..(n - (k + 1) + 1) : after[i] = q[(k + 1) + i - 1]
    BY <1>2, <2>1, SubSeqProperties
  <2> HIDE DEF after
  <2>3. Len(after) = n - k
    BY <1>2, <2>2
  <2>4. ASSUME NEW i \in 1..n - k PROVE after[i] = q[k + i]
    <3>1. i \in 1..(n - (k + 1) + 1) /\ (k + 1) + i - 1 = k + i
      BY <1>2
    <3>2. QED
      BY <2>2, <3>1
  <2>5. QED
    BY <2>2, <2>3, <2>4
<1>6. RemoveAt(q, k) = before \o after
  BY <1>1 DEF RemoveAt
<1> HIDE DEF before, after
<1>7. /\ RemoveAt(q, k) \in Seq(S)
      /\ Len(RemoveAt(q, k)) = Len(before) + Len(after)
      /\ \A i \in 1..Len(before) + Len(after) : RemoveAt(q, k)[i] =
            IF i <= Len(before) THEN before[i] ELSE after[i - Len(before)]
  <2>1. /\ before \o after \in Seq(S)
        /\ Len(before \o after) = Len(before) + Len(after)
        /\ \A i \in 1..Len(before) + Len(after) : (before \o after)[i] =
              IF i <= Len(before) THEN before[i] ELSE after[i - Len(before)]
    BY <1>4, <1>5, ConcatProperties
  <2>2. QED
    BY <1>6, <2>1
<1>8. Len(RemoveAt(q, k)) = n - 1
  BY <1>2, <1>4, <1>5, <1>7
<1>9. ASSUME NEW i \in 1..n - 1
      PROVE  RemoveAt(q, k)[i] = IF i < k THEN q[i] ELSE q[i + 1]
  <2>1. RemoveAt(q, k)[i] = IF i =< k - 1 THEN before[i] ELSE after[i - (k - 1)]
    BY <1>2, <1>4, <1>5, <1>7
  <2>2. CASE i < k
    BY <1>2, <1>4, <2>1, <2>2
  <2>3. CASE i >= k
    <3>1. i - (k - 1) \in 1..n - k /\ k + (i - (k - 1)) = i + 1
      BY <1>2, <2>3
    <3>2. after[i - (k - 1)] = q[i + 1]
      BY <1>5, <3>1
    <3>3. QED
      BY <1>2, <2>1, <2>3, <3>2
  <2>4. QED
    BY <1>2, <2>2, <2>3
<1>10. QED
  BY <1>1, <1>7, <1>8, <1>9

-----------------------------------------------------------------------------
(* Reduce *)

\* Map r came from map by event e: e's deployment is in it, unless it was
\* deleted and nothing of its uid is left; and nothing else was lost or added,
\* but for entries of its uid.
Reduced(r, map, e) ==
    /\ e.type # "DELETED" => \E j \in DOMAIN r : r[j] = e.dep
    /\ e.type = "DELETED" => \A j \in DOMAIN r : r[j].uid # e.dep.uid
    /\ \A i \in DOMAIN map :
        map[i].uid # e.dep.uid => \E j \in DOMAIN r : r[j] = map[i]
    /\ \A j \in DOMAIN r : r[j] = e.dep \/ \E i \in DOMAIN map : r[j] = map[i]

\* setDeploymentsMap keeps one entry per uid, whatever the event, and changes
\* no other entry.
LEMMA ReduceProperties ==
    ASSUME NEW S, NEW map \in Seq(S), OnePerUid(map), NEW e, e.dep \in S
    PROVE  /\ Reduce(map, e) \in Seq(S)
           /\ OnePerUid(Reduce(map, e))
           /\ Reduced(Reduce(map, e), map, e)
<1> DEFINE slots == {i \in DOMAIN map : map[i].uid = e.dep.uid}
           slot  == CHOOSE i \in slots : TRUE
           n     == Len(map)
<1>2. n \in Nat /\ DOMAIN map = 1..n /\ \A i \in 1..n : map[i] \in S
  OBVIOUS
<1>3. CASE slots = {}
  <2>1. CASE e.type = "DELETED"
    <3>1. Reduce(map, e) = map
      BY <1>3, <2>1 DEF Reduce
    <3>2. \A i \in DOMAIN map : map[i].uid # e.dep.uid
      BY <1>3
    <3>3. Reduced(map, map, e)
      BY <2>1, <3>2 DEF Reduced
    <3>4. QED
      BY <3>1, <3>3
  <2>2. CASE e.type # "DELETED"
    <3> DEFINE longer == Append(map, e.dep)
    <3>1. Reduce(map, e) = longer
      BY <1>3, <2>2 DEF Reduce
    <3>2. \A i \in 1..n : map[i].uid # e.dep.uid
      BY <1>2, <1>3
    <3>3. /\ longer \in Seq(S)
          /\ DOMAIN longer = 1..n + 1
          /\ \A i \in 1..n : longer[i] = map[i]
          /\ longer[n + 1] = e.dep
      BY <1>2, AppendProperties
    <3> HIDE DEF longer
    <3>4. \A i \in 1..n + 1 : i \in 1..n \/ i = n + 1
      BY <1>2
    <3>5. OnePerUid(longer)
      BY <1>2, <3>2, <3>3, <3>4 DEF OnePerUid
    <3>6. Reduced(longer, map, e)
      <4>1. n + 1 \in DOMAIN longer /\ \A i \in 1..n : i \in DOMAIN longer
        BY <1>2, <3>3
      <4>2. QED
        BY <1>2, <2>2, <3>3, <3>4, <4>1 DEF Reduced
    <3>7. QED
      BY <3>1, <3>3, <3>5, <3>6
  <2>3. QED
    BY <2>1, <2>2
<1>4. CASE slots # {}
  <2> HIDE DEF slots
  <2>1. slot \in slots
    BY <1>4
  <2> HIDE DEF slot
  <2>2. slot \in 1..n /\ map[slot].uid = e.dep.uid
    BY <1>2, <2>1 DEF slots
  <2>3. CASE e.type = "DELETED"
    <3> DEFINE rest == RemoveAt(map, slot)
               old(x) == IF x < slot THEN x ELSE x + 1
               new(x) == IF x < slot THEN x ELSE x - 1
    <3>1. Reduce(map, e) = rest
      BY <1>4, <2>3 DEF Reduce, slots, slot
    <3>2. /\ rest \in Seq(S)
          /\ Len(rest) = n - 1
          /\ \A i \in 1..n-1 : rest[i] = IF i < slot THEN map[i] ELSE map[i + 1]
      BY <1>2, <2>2, RemoveAtProperties
    <3> HIDE DEF rest
    <3>3. DOMAIN rest = 1..n-1
      BY <3>2
    <3>4. \A i \in 1..n-1 : old(i) \in 1..n /\ rest[i] = map[old(i)]
      BY <1>2, <2>2, <3>2
    <3>5. OnePerUid(rest)
      <4> SUFFICES ASSUME NEW i \in DOMAIN rest, NEW j \in DOMAIN rest,
                          rest[i].uid = rest[j].uid
                   PROVE  i = j
        BY DEF OnePerUid
      <4>1. i \in 1..n-1 /\ j \in 1..n-1
        BY <3>3
      <4>2. old(i) = old(j)
        BY <1>2, <3>4, <4>1 DEF OnePerUid
      <4>3. QED
        BY <1>2, <2>2, <4>1, <4>2
    <3>6. ASSUME NEW i \in 1..n, map[i].uid # e.dep.uid
          PROVE  \E j \in DOMAIN rest : rest[j] = map[i]
      <4>1. i # slot
        BY <2>2, <3>6
      <4>2. new(i) \in 1..n-1
        BY <1>2, <2>2, <4>1
      <4>3. rest[new(i)] = map[i]
        <5>1. CASE i < slot
          BY <1>2, <2>2, <3>2, <4>2, <5>1
        <5>2. CASE ~(i < slot)
          <6>1. ~(i - 1 < slot) /\ (i - 1) + 1 = i /\ i - 1 \in 1..n-1
            BY <1>2, <2>2, <4>1, <5>2
          <6>2. QED
            BY <3>2, <5>2, <6>1
        <5>3. QED
          BY <5>1, <5>2
      <4>4. QED
        BY <3>3, <4>2, <4>3
    <3>7. ASSUME NEW j \in DOMAIN rest PROVE rest[j].uid # e.dep.uid
      <4>1. j \in 1..n-1 /\ old(j) # slot
        BY <1>2, <2>2, <3>3
      <4>2. old(j) \in 1..n /\ rest[j] = map[old(j)]
        BY <3>4, <4>1
      <4> HIDE DEF old
      <4>3. QED
        BY <1>2, <2>2, <4>1, <4>2 DEF OnePerUid
    <3>8. Reduced(rest, map, e)
      <4> HIDE DEF old
      <4>1. QED
        BY <1>2, <2>3, <3>3, <3>4, <3>6, <3>7 DEF Reduced
    <3>9. QED
      BY <3>1, <3>2, <3>5, <3>8
  <2>4. CASE e.type # "DELETED"
    <3> DEFINE other == [map EXCEPT ![slot] = e.dep]
    <3>1. Reduce(map, e) = other
      BY <1>4, <2>4 DEF Reduce, ReplaceAt, slots, slot
    <3>2. other \in Seq(S)
      BY <1>2, <2>2
    <3>3. /\ DOMAIN other = 1..n
          /\ \A i \in 1..n : other[i] = IF i = slot THEN e.dep ELSE map[i]
      BY <1>2
    <3> HIDE DEF other
    <3>4. OnePerUid(other)
      BY <1>2, <2>2, <3>3 DEF OnePerUid
    <3>5. Reduced(other, map, e)
      BY <1>2, <2>2, <2>4, <3>3 DEF Reduced
    <3>6. QED
      BY <3>1, <3>2, <3>4, <3>5
  <2>5. QED
    BY <2>3, <2>4
<1>5. QED
  BY <1>3, <1>4

-----------------------------------------------------------------------------
(* FindByName *)

LEMMA LeastNumber ==
    ASSUME NEW T \in SUBSET Nat, T # {}
    PROVE  \E i \in T : \A j \in T : i =< j
<1> DEFINE less == {p \in Nat \X Nat : p[1] < p[2]}
<1>1. IsWellFoundedOn(less, Nat)
  BY NatLessThanWellFounded, Zenon DEF OpToRel
<1>2. \E i \in T : \A j \in T : <<j, i>> \notin less
  <2> HIDE DEF less
  <2>1. QED
    BY <1>1, WFMin
<1>3. \A i, j \in T : <<j, i>> \notin less => i =< j
  OBVIOUS
<1>4. QED
  BY <1>2, <1>3

\* What is found under a name is an entry of that name, if there is any.
LEMMA FindByNameFinds ==
    ASSUME NEW S, NEW map \in Seq(S), NEW k, \E i \in DOMAIN map : map[i].key = k
    PROVE  \E i \in DOMAIN map : map[i].key = k /\ FindByName(map, k) = map[i]
<1> DEFINE slots == {i \in DOMAIN map : map[i].key = k}
           slot  == CHOOSE i \in slots : \A j \in slots : i =< j
<1>1. slots \in SUBSET Nat /\ slots # {}
  OBVIOUS
<1>2. \E i \in slots : \A j \in slots : i =< j
  <2> HIDE DEF slots
  <2>1. QED
    BY <1>1, LeastNumber
<1>3. slot \in slots
  <2> HIDE DEF slots
  <2>1. QED
    BY <1>2
<1>4. FindByName(map, k) = map[slot]
  BY DEF FindByName
<1>5. QED
  <2> HIDE DEF slot
  <2>1. QED
    BY <1>3, <1>4
=============================================================================
