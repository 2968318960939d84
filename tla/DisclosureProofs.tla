-------------------------- MODULE DisclosureProofs --------------------------
(***************************************************************************)
(* Proofs about Disclosure, for any paths, names, texts, addresses and     *)
(* answers: disclosing takes nothing from the queue; an export is of one   *)
(* moment; the evidence of an answer is recorded with it, says what the    *)
(* result says, and is accepted by its own verifier.  The last needs that  *)
(* addresses which have been numbered keep their numbers when they are     *)
(* numbered again, whatever texts they are spread over.                    *)
(***************************************************************************)
EXTENDS Disclosure, ResultProofs, WellFoundedInduction

----------------------------------------------------------------------------
(* Sequences of sequences.  FlattenSeq is a function by recursion, and what *)
(* holds of it is proved from the least length it would not hold at.        *)

\* A set of numbers that is not empty has a least one.
LEMMA Smallest ==
  ASSUME NEW S \in SUBSET Nat, S # {}
  PROVE  \E m \in S : \A k \in S : m <= k
<1> DEFINE R == {pair \in Nat \X Nat : pair[1] < pair[2]}
<1>1. IsWellFoundedOn(R, Nat) BY NatLessThanWellFounded DEF OpToRel
<1> HIDE DEF R
<1>2. PICK m \in S : \A k \in S : ~ (<<k, m>> \in R) BY <1>1, WFMin, Zenon
<1>3. \A k \in S : ~ (k < m) BY <1>2 DEF R
<1> QED BY <1>3

\* The function FlattenSeq defines by recursion.
Flattens(f, seqs, n) == f = [i \in 1..n |-> IF i = 1 THEN seqs[i] ELSE f[i - 1] \o seqs[i]]

\* That function exists.
LEMMA Flattener ==
  ASSUME NEW n \in Nat, NEW seqs
  PROVE  \E f : Flattens(f, seqs, n)
<1> DEFINE S == {k \in Nat : ~ \E f : Flattens(f, seqs, k)}
<1> SUFFICES ASSUME S # {} PROVE FALSE OBVIOUS
<1>1. PICK m \in S : \A k \in S : m <= k BY Smallest
<1>2. CASE m = 0
  <2>1. Flattens([i \in 1..0 |-> 0], seqs, 0) BY DEF Flattens
  <2> QED BY <1>2, <2>1
<1>3. CASE m # 0
  <2>1. m - 1 \in Nat /\ m - 1 \notin S BY <1>1, <1>3
  <2>2. PICK f : Flattens(f, seqs, m - 1) BY <2>1
  <2> DEFINE g == [i \in 1..m |-> IF i = 1 THEN seqs[i] ELSE f[i - 1] \o seqs[i]]
  <2>3. f = [i \in 1..(m - 1) |-> IF i = 1 THEN seqs[i] ELSE f[i - 1] \o seqs[i]]
    BY <2>2 DEF Flattens
  <2>4. \A i \in 1..(m - 1) : g[i] = f[i]
    <3>1. \A i \in 1..(m - 1) : f[i] = IF i = 1 THEN seqs[i] ELSE f[i - 1] \o seqs[i] BY <2>3, Zenon
    <3>2. \A i \in 1..(m - 1) : i \in 1..m BY <2>1
    <3> QED BY <3>1, <3>2, Zenon
  <2>5. \A i \in 1..m : i # 1 => i - 1 \in 1..(m - 1) BY <2>1
  <2>6. g = [i \in 1..m |-> IF i = 1 THEN seqs[i] ELSE g[i - 1] \o seqs[i]]
    BY <2>4, <2>5
  <2>7. Flattens(g, seqs, m) BY <2>6 DEF Flattens
  <2> QED BY <2>7
<1> QED BY <1>2, <1>3

\* What is flattened is its value at the length of the sequence.
LEMMA Flattened ==
  ASSUME NEW seqs, Len(seqs) \in Nat \ {0}
  PROVE  \E f : Flattens(f, seqs, Len(seqs)) /\ Seqs!FlattenSeq(seqs) = f[Len(seqs)]
<1> DEFINE f == CHOOSE f : f = [i \in 1..Len(seqs) |-> IF i = 1 THEN seqs[i] ELSE f[i - 1] \o seqs[i]]
<1>1. Seqs!FlattenSeq(seqs) = f[Len(seqs)] BY DEF Seqs!FlattenSeq
<1>2. Flattens(f, seqs, Len(seqs)) 
  <2>1. \E g : Flattens(g, seqs, Len(seqs)) BY Flattener
  <2> QED BY <2>1, Zenon DEF Flattens
<1> QED BY <1>1, <1>2

\* What is flattened keeps its elements, and each of them is found in the result.
LEMMA FlattenElements ==
  ASSUME NEW S, NEW n \in Nat, NEW seqs \in [1..n -> Seq(S)]
  PROVE  /\ Seqs!FlattenSeq(seqs) \in Seq(S)
         /\ \A i \in 1..n : \A k \in DOMAIN seqs[i] : \E j \in DOMAIN Seqs!FlattenSeq(seqs) :
              Seqs!FlattenSeq(seqs)[j] = seqs[i][k]
<1>1. seqs \in Seq(Seq(S)) /\ Len(seqs) = n OBVIOUS
<1>2. CASE n = 0
  <2>1. Seqs!FlattenSeq(seqs) = seqs BY <1>1, <1>2 DEF Seqs!FlattenSeq
  <2>2. seqs \in Seq(S) BY <1>1, <1>2
  <2> QED BY <1>2, <2>1, <2>2
<1>3. CASE n # 0
  <2>1. PICK f : Flattens(f, seqs, n) /\ Seqs!FlattenSeq(seqs) = f[n]
    BY <1>1, <1>3, Flattened
  <2>2. \A i \in 1..n : f[i] = IF i = 1 THEN seqs[i] ELSE f[i - 1] \o seqs[i]
    BY <2>1, Zenon DEF Flattens
  <2> DEFINE Good(i) == /\ f[i] \in Seq(S)
                        /\ \A h \in 1..i : \A k \in DOMAIN seqs[h] : \E j \in DOMAIN f[i] :
                             f[i][j] = seqs[h][k]
             bad == {i \in 1..n : ~ Good(i)}
  <2>3. ASSUME bad # {} PROVE FALSE
    <3>1. PICK m \in bad : \A i \in bad : m <= i
      <4>1. bad \in SUBSET Nat OBVIOUS
      <4> HIDE DEF bad
      <4> QED BY <2>3, <4>1, Smallest
    <3>2. m \in 1..n /\ seqs[m] \in Seq(S) OBVIOUS
    <3>3. CASE m = 1
      <4>1. f[m] = seqs[m] BY <2>2, <3>2, <3>3
      <4>2. Good(m) BY <3>2, <3>3, <4>1
      <4> QED BY <4>2
    <3>4. CASE m # 1
      <4>1. m - 1 \in 1..n /\ m - 1 \notin bad
        <5> HIDE DEF bad
        <5> QED BY <3>1, <3>2, <3>4
      <4>2. Good(m - 1) BY <4>1
      <4>3. f[m] = f[m - 1] \o seqs[m] BY <2>2, <3>2, <3>4
      <4>4. f[m - 1] \in Seq(S) /\ f[m] \in Seq(S) BY <3>2, <4>2, <4>3
      <4>5. ASSUME NEW h \in 1..m, NEW k \in DOMAIN seqs[h]
            PROVE  \E j \in DOMAIN f[m] : f[m][j] = seqs[h][k]
        <5>1. CASE h = m
          <6>1. Len(f[m - 1]) + k \in DOMAIN f[m] /\ f[m][Len(f[m - 1]) + k] = seqs[m][k]
            <7>1. k \in 1..Len(seqs[m]) BY <3>2, <4>5, <5>1
            <7>2. /\ Len(f[m]) = Len(f[m - 1]) + Len(seqs[m])
                  /\ \A q \in 1..Len(seqs[m]) : f[m][Len(f[m - 1]) + q] = seqs[m][q]
              BY <3>2, <4>3, <4>4, Joined
            <7>3. Len(f[m - 1]) \in Nat /\ Len(seqs[m]) \in Nat /\ DOMAIN f[m] = 1..Len(f[m])
              BY <3>2, <4>4
            <7> DEFINE size == Len(f[m - 1])
            <7>4. /\ size \in Nat /\ Len(f[m]) = size + Len(seqs[m])
                  /\ \A q \in 1..Len(seqs[m]) : f[m][size + q] = seqs[m][q]
              BY <7>2, <7>3
            <7> HIDE DEF bad, Good, size
            <7>5. size + k \in 1..Len(f[m]) BY <7>1, <7>3, <7>4
            <7> QED BY <7>1, <7>3, <7>4, <7>5 DEF size
          <6> QED BY <5>1, <6>1
        <5>2. CASE h # m
          <6>1. h \in 1..(m - 1) BY <3>2, <5>2
          <6>2. PICK j \in DOMAIN f[m - 1] : f[m - 1][j] = seqs[h][k] BY <4>2, <6>1
          <6>3. /\ Len(f[m]) = Len(f[m - 1]) + Len(seqs[m])
                /\ \A i \in 1..Len(f[m - 1]) : f[m][i] = f[m - 1][i]
            BY <3>2, <4>3, <4>4, Joined
          <6>4. /\ Len(f[m - 1]) \in Nat /\ Len(seqs[m]) \in Nat /\ DOMAIN f[m] = 1..Len(f[m])
                /\ DOMAIN f[m - 1] = 1..Len(f[m - 1])
            BY <3>2, <4>3, <4>4
          <6>5. j \in DOMAIN f[m] /\ f[m][j] = f[m - 1][j]
            <7> HIDE DEF bad, Good
            <7>1. j \in 1..Len(f[m - 1]) BY <6>4
            <7> DEFINE size == Len(f[m - 1])
            <7>2. size \in Nat /\ j \in 1..size /\ Len(f[m]) = size + Len(seqs[m]) BY <6>3, <6>4, <7>1
            <7> HIDE DEF size
            <7>3. j \in 1..Len(f[m]) BY <6>4, <7>2
            <7> QED BY <6>3, <6>4, <7>1, <7>3
          <6> QED BY <6>2, <6>5
        <5> QED BY <5>1, <5>2
      <4>6. Good(m) BY <4>4, <4>5
      <4> QED BY <4>6
    <3> QED BY <3>3, <3>4
  <2>4. Good(n)
    <3>1. n \in 1..n BY <1>3
    <3> HIDE DEF Good
    <3>2. n \notin bad => Good(n) BY <3>1
    <3> HIDE DEF bad
    <3> QED BY <2>3, <3>2
  <2> QED BY <2>1, <2>4
<1> QED BY <1>2, <1>3

\* Replacing elements and flattening can be done in either order.
MapOver(h, seq) == [j \in DOMAIN seq |-> h[seq[j]]]
MapEach(h, seqs, n) == [i \in 1..n |-> MapOver(h, seqs[i])]

LEMMA FlattenMapped ==
  ASSUME NEW S, NEW T, NEW h \in [S -> T], NEW n \in Nat, NEW seqs \in [1..n -> Seq(S)]
  PROVE  Seqs!FlattenSeq(MapEach(h, seqs, n)) = MapOver(h, Seqs!FlattenSeq(seqs))
<1> USE DEF MapOver, MapEach
<1> DEFINE mapped == [i \in 1..n |-> [k \in DOMAIN seqs[i] |-> h[seqs[i][k]]]]
<1>1. seqs \in Seq(Seq(S)) /\ Len(seqs) = n OBVIOUS
<1>2. /\ mapped \in [1..n -> Seq(T)]
      /\ \A i \in 1..n : /\ mapped[i] \in Seq(T) /\ Len(mapped[i]) = Len(seqs[i])
                         /\ \A k \in 1..Len(seqs[i]) : mapped[i][k] = h[seqs[i][k]]
  <2>1. ASSUME NEW i \in 1..n
        PROVE  /\ mapped[i] \in Seq(T) /\ Len(mapped[i]) = Len(seqs[i])
               /\ \A k \in 1..Len(seqs[i]) : mapped[i][k] = h[seqs[i][k]]
    <3>1. seqs[i] \in Seq(S) OBVIOUS
    <3>2. mapped[i] = [k \in 1..Len(seqs[i]) |-> h[seqs[i][k]]] BY <3>1
    <3> QED BY <3>1, <3>2
  <2> QED BY <2>1
<1>3. mapped \in Seq(Seq(T)) /\ Len(mapped) = n BY <1>2
<1>4. CASE n = 0
  <2>1. Seqs!FlattenSeq(seqs) = seqs /\ DOMAIN seqs = {} BY <1>1, <1>4 DEF Seqs!FlattenSeq
  <2>2. Seqs!FlattenSeq(mapped) = mapped /\ DOMAIN mapped = {} BY <1>3, <1>4 DEF Seqs!FlattenSeq
  <2>3. mapped = [j \in DOMAIN seqs |-> h[seqs[j]]] BY <2>1, <2>2
  <2> HIDE DEF mapped
  <2>4. Seqs!FlattenSeq(mapped) = [j \in DOMAIN Seqs!FlattenSeq(seqs) |-> h[Seqs!FlattenSeq(seqs)[j]]]
    BY <2>1, <2>2, <2>3, Zenon
  <2> QED BY <2>4 DEF mapped
<1>5. CASE n # 0
  <2> HIDE DEF mapped
  <2>1. PICK f : Flattens(f, seqs, n) /\ Seqs!FlattenSeq(seqs) = f[n]
    BY <1>1, <1>5, Flattened
  <2>2. PICK g : Flattens(g, mapped, n) /\ Seqs!FlattenSeq(mapped) = g[n]
    BY <1>3, <1>5, Flattened
  <2>3. /\ \A i \in 1..n : f[i] = IF i = 1 THEN seqs[i] ELSE f[i - 1] \o seqs[i]
        /\ \A i \in 1..n : g[i] = IF i = 1 THEN mapped[i] ELSE g[i - 1] \o mapped[i]
    BY <2>1, <2>2, Zenon DEF Flattens
  <2> DEFINE Good(i) == /\ f[i] \in Seq(S) /\ g[i] \in Seq(T) /\ Len(g[i]) = Len(f[i])
                        /\ \A j \in 1..Len(f[i]) : g[i][j] = h[f[i][j]]
             bad == {i \in 1..n : ~ Good(i)}
  <2>4. ASSUME bad # {} PROVE FALSE
    <3>1. PICK m \in bad : \A i \in bad : m <= i
      <4>1. bad \in SUBSET Nat OBVIOUS
      <4> HIDE DEF bad
      <4> QED BY <2>4, <4>1, Smallest
    <3>2. m \in 1..n /\ seqs[m] \in Seq(S) OBVIOUS
    <3>3. CASE m = 1
      <4>1. f[m] = seqs[m] /\ g[m] = mapped[m] BY <2>3, <3>2, <3>3
      <4>2. Good(m) BY <1>2, <3>2, <4>1
      <4> QED BY <4>2
    <3>4. CASE m # 1
      <4>1. m - 1 \in 1..n /\ m - 1 \notin bad
        <5> HIDE DEF bad
        <5> QED BY <3>1, <3>2, <3>4
      <4>2. Good(m - 1) BY <4>1
      <4>3. f[m] = f[m - 1] \o seqs[m] /\ g[m] = g[m - 1] \o mapped[m] BY <2>3, <3>2, <3>4
      <4> DEFINE f0 == f[m - 1]
                 g0 == g[m - 1]
      <4>4. /\ f0 \in Seq(S) /\ g0 \in Seq(T) /\ Len(g0) = Len(f0)
            /\ \A j \in 1..Len(f0) : g0[j] = h[f0[j]]
            /\ f[m] = f0 \o seqs[m] /\ g[m] = g0 \o mapped[m]
        BY <4>2, <4>3
      <4> HIDE DEF f0, g0, bad, Good
      <4>5. /\ f[m] \in Seq(S) /\ g[m] \in Seq(T)
            /\ Len(f[m]) = Len(f0) + Len(seqs[m]) /\ Len(g[m]) = Len(f[m])
        <5>1. mapped[m] \in Seq(T) /\ Len(mapped[m]) = Len(seqs[m]) BY <1>2, <3>2
        <5>2. f[m] \in Seq(S) /\ Len(f[m]) = Len(f0) + Len(seqs[m])
          <6>1. f0 \in Seq(S) /\ seqs[m] \in Seq(S) /\ f[m] = f0 \o seqs[m] BY <3>2, <4>4
          <6> QED BY <6>1, Joined
        <5>3. g[m] \in Seq(T) /\ Len(g[m]) = Len(g0) + Len(mapped[m])
          <6>1. g0 \in Seq(T) /\ mapped[m] \in Seq(T) /\ g[m] = g0 \o mapped[m] BY <4>4, <5>1
          <6> QED BY <6>1, Joined
        <5> QED BY <4>4, <5>1, <5>2, <5>3
      <4>6. ASSUME NEW j \in 1..Len(f[m]) PROVE g[m][j] = h[f[m][j]]
        <5>1. CASE j <= Len(f0)
          <6>1. f[m][j] = f0[j] /\ g[m][j] = g0[j] /\ j \in 1..Len(f0)
            BY <1>2, <3>2, <4>4, <4>5, <5>1
          <6> QED BY <4>4, <6>1
        <5>2. CASE j > Len(f0)
          <6> DEFINE k == j - Len(f0)
          <6>1. k \in 1..Len(seqs[m]) /\ f[m][j] = seqs[m][k] /\ g[m][j] = mapped[m][k]
            BY <1>2, <3>2, <4>4, <4>5, <5>2
          <6> QED BY <1>2, <3>2, <6>1
        <5>3. j \in Nat /\ Len(f0) \in Nat BY <4>4
        <5> QED BY <5>1, <5>2, <5>3
      <4>7. Good(m) BY <4>5, <4>6 DEF Good
      <4> QED BY <4>7 DEF bad
    <3> QED BY <3>3, <3>4
  <2>5. Good(n)
    <3>1. n \in 1..n BY <1>5
    <3> HIDE DEF Good
    <3>2. n \notin bad => Good(n) BY <3>1
    <3> HIDE DEF bad
    <3> QED BY <2>4, <3>2
  <2>6. g[n] = [j \in DOMAIN f[n] |-> h[f[n][j]]]
    <3>1. f[n] \in Seq(S) /\ g[n] \in Seq(T) /\ DOMAIN g[n] = 1..Len(g[n]) /\ DOMAIN f[n] = 1..Len(f[n])
      BY <2>5
    <3>2. g[n] = [j \in 1..Len(g[n]) |-> g[n][j]] BY <3>1
    <3>3. \A j \in 1..Len(g[n]) : g[n][j] = h[f[n][j]] BY <2>5
    <3>4. Len(g[n]) = Len(f[n]) BY <2>5
    <3> HIDE DEF Good
    <3> QED BY <3>1, <3>2, <3>3, <3>4
  <2> QED BY <2>1, <2>2, <2>6 DEF mapped
<1> QED BY <1>4, <1>5

----------------------------------------------------------------------------
(* The numbers of the aliases.                                             *)

\* Where an address first appears, and the distinct addresses of a version up to there.
FirstAt(seen, a, i) == i \in DOMAIN seen /\ seen[i] = a /\ \A k \in 1..(i - 1) : seen[k] # a
Upto(seen, i, v) == {seen[k] : k \in {n \in 1..i : seen[n].version = v}}

\* The alias of an address counts the distinct ones of its version up to its first appearance.
LEMMA AliasAt ==
  ASSUME NEW S, NEW seen \in Seq(S), NEW n \in DOMAIN seen
  PROVE  \E i : /\ FirstAt(seen, seen[n], i)
                /\ AliasOf(seen, seen[n]) =
                     [version |-> seen[n].version,
                      index |-> Cardinality(Upto(seen, i, seen[n].version))]
<1> DEFINE a == seen[n]
           found == {i \in DOMAIN seen : seen[i] = a}
           first == CHOOSE i \in DOMAIN seen : seen[i] = a /\ \A k \in 1..(i - 1) : seen[k] # a
<1>1. PICK m \in found : \A k \in found : m <= k
  <2>1. found \in SUBSET Nat /\ n \in found OBVIOUS
  <2> HIDE DEF found
  <2> QED BY <2>1, Smallest
<1>2. \A k \in 1..(m - 1) : k \in DOMAIN seen /\ ~ (m <= k) OBVIOUS
<1>3. m \in DOMAIN seen /\ seen[m] = a /\ \A k \in 1..(m - 1) : seen[k] # a
  <2>1. ASSUME NEW k \in 1..(m - 1), seen[k] = a PROVE FALSE
    <3>1. k \in found BY <1>2, <2>1
    <3> HIDE DEF found
    <3> QED BY <1>1, <1>2, <3>1
  <2> QED BY <2>1
<1> HIDE DEF found
<1>4. first \in DOMAIN seen /\ seen[first] = a /\ \A k \in 1..(first - 1) : seen[k] # a
  BY <1>3, Zenon
<1>5. AliasOf(seen, a) = [version |-> a.version, index |-> Cardinality(Upto(seen, first, a.version))]
  BY DEF AliasOf, Upto
<1> HIDE DEF first
<1> QED BY <1>4, <1>5 DEF FirstAt

\* An address appears first once.
LEMMA FirstOnce ==
  ASSUME NEW S, NEW seen \in Seq(S), NEW a, NEW i, NEW k, FirstAt(seen, a, i), FirstAt(seen, a, k)
  PROVE  i = k
<1>1. i \in 1..Len(seen) /\ k \in 1..Len(seen) /\ Len(seen) \in Nat BY DEF FirstAt
<1>2. ~ (i < k) /\ ~ (k < i) BY <1>1 DEF FirstAt
<1> QED BY <1>1, <1>2

\* The addresses up to a place are finitely many.
LEMMA UptoFinite ==
  ASSUME NEW S, NEW seen \in Seq(S), NEW i \in DOMAIN seen, NEW v
  PROVE  IsFiniteSet(Upto(seen, i, v))
<1> DEFINE K == {n \in 1..i : seen[n].version = v}
           f == [k \in K |-> seen[k]]
<1>1. IsFiniteSet(K)
  <2>1. i \in Int /\ IsFiniteSet(1..i) BY FS_Interval
  <2> QED BY <2>1, FS_Subset
<1>2. f \in Surjection(K, Upto(seen, i, v)) BY DEF Surjection, Upto
<1> HIDE DEF K, f
<1> QED BY <1>1, <1>2, FS_Surjection

\* Two addresses that appear share an alias only if they are one.
LEMMA AliasInjective ==
  ASSUME NEW S, NEW seen \in Seq(S), NEW m \in DOMAIN seen, NEW n \in DOMAIN seen,
         AliasOf(seen, seen[m]) = AliasOf(seen, seen[n])
  PROVE  seen[m] = seen[n]
<1>1. PICK i : /\ FirstAt(seen, seen[m], i)
               /\ AliasOf(seen, seen[m]) =
                    [version |-> seen[m].version,
                     index |-> Cardinality(Upto(seen, i, seen[m].version))]
  BY AliasAt
<1>2. PICK k : /\ FirstAt(seen, seen[n], k)
               /\ AliasOf(seen, seen[n]) =
                    [version |-> seen[n].version,
                     index |-> Cardinality(Upto(seen, k, seen[n].version))]
  BY AliasAt
<1> DEFINE v == seen[m].version
<1>3. seen[n].version = v /\ Cardinality(Upto(seen, i, v)) = Cardinality(Upto(seen, k, v))
  <2> DEFINE a == AliasOf(seen, seen[m])
  <2>1. a.version = seen[m].version /\ a.index = Cardinality(Upto(seen, i, seen[m].version)) BY <1>1
  <2>2. a.version = seen[n].version /\ a.index = Cardinality(Upto(seen, k, seen[n].version)) BY <1>2
  <2> HIDE DEF a
  <2> QED BY <2>1, <2>2
<1>5. i \in 1..Len(seen) /\ k \in 1..Len(seen) /\ Len(seen) \in Nat /\ seen[i] = seen[m] /\ seen[k] = seen[n]
  BY <1>1, <1>2 DEF FirstAt
<1>6. ASSUME NEW b, NEW h \in DOMAIN seen, NEW l \in DOMAIN seen, FirstAt(seen, b, l), h < l,
             b.version = v, Cardinality(Upto(seen, h, v)) = Cardinality(Upto(seen, l, v))
      PROVE  FALSE
  <2>1. Upto(seen, h, v) \subseteq Upto(seen, l, v) BY <1>6 DEF Upto
  <2>2. b \in Upto(seen, l, v) BY <1>6 DEF Upto, FirstAt
  <2>3. b \notin Upto(seen, h, v)
    <3>1. \A q \in 1..h : q \in 1..(l - 1) BY <1>6
    <3> QED BY <1>6, <3>1 DEF Upto, FirstAt
  <2>4. IsFiniteSet(Upto(seen, l, v)) BY UptoFinite
  <2> QED BY <1>6, <2>1, <2>2, <2>3, <2>4, FS_Subset
<1> HIDE DEF v
<1>7. ~ (i < k) BY <1>2, <1>3, <1>5, <1>6
<1>8. ~ (k < i) BY <1>1, <1>3, <1>5, <1>6 DEF v
<1> QED BY <1>5, <1>7, <1>8

\* The aliases of addresses that have been replaced are the same aliases.
LEMMA AliasAgain ==
  ASSUME NEW S, NEW seen \in Seq(S), NEW again,
         again = [j \in DOMAIN seen |-> AliasOf(seen, seen[j])], NEW n \in DOMAIN seen
  PROVE  AliasOf(again, AliasOf(seen, seen[n])) = AliasOf(seen, seen[n])
<1> DEFINE T == {AliasOf(seen, seen[j]) : j \in DOMAIN seen}
           v == seen[n].version
<1>1. again \in Seq(T) /\ DOMAIN again = DOMAIN seen /\ DOMAIN seen \subseteq Nat OBVIOUS
<1>2. PICK i : FirstAt(seen, seen[n], i) /\ AliasOf(seen, seen[n]) =
                 [version |-> v, index |-> Cardinality(Upto(seen, i, v))]
  BY AliasAt
<1>3. PICK k : FirstAt(again, again[n], k) /\ AliasOf(again, again[n]) =
                 [version |-> again[n].version, index |-> Cardinality(Upto(again, k, again[n].version))]
  <2> HIDE DEF T
  <2> QED BY <1>1, AliasAt
<1>4. \A j \in DOMAIN seen : again[j] = again[n] <=> seen[j] = seen[n] BY AliasInjective
<1>5. FirstAt(again, again[n], i) 
  <2>1. \A q \in 1..(i - 1) : q \in DOMAIN seen BY <1>2 DEF FirstAt
  <2> QED BY <1>1, <1>2, <1>4, <2>1 DEF FirstAt
<1>6. i = k
  <2> HIDE DEF T
  <2> QED BY <1>1, <1>3, <1>5, FirstOnce
<1>7. \A j \in DOMAIN seen : again[j].version = seen[j].version
  <2>1. \A j \in DOMAIN seen : AliasOf(seen, seen[j]).version = seen[j].version
    BY AliasAt
  <2> QED BY <2>1
<1>8. Cardinality(Upto(again, i, v)) = Cardinality(Upto(seen, i, v))
  <2> DEFINE f == [a \in Upto(seen, i, v) |-> AliasOf(seen, a)]
  <2>1. i \in DOMAIN seen /\ \A q \in 1..i : q \in DOMAIN seen BY <1>2 DEF FirstAt
  <2>2. \A a \in Upto(seen, i, v) : \E q \in 1..i : seen[q] = a /\ a.version = v BY DEF Upto
  <2>3. \A a \in Upto(seen, i, v) : f[a] \in Upto(again, i, v)
    <3> SUFFICES ASSUME NEW q \in 1..i, seen[q].version = v
                 PROVE  AliasOf(seen, seen[q]) \in Upto(again, i, v)
      BY DEF Upto
    <3> QED BY <1>7, <2>1 DEF Upto
  <2>4. \A b \in Upto(again, i, v) : \E a \in Upto(seen, i, v) : f[a] = b
    <3> SUFFICES ASSUME NEW b \in Upto(again, i, v) PROVE \E a \in Upto(seen, i, v) : f[a] = b
      OBVIOUS
    <3>1. PICK q \in 1..i : again[q].version = v /\ b = again[q] BY DEF Upto
    <3>2. seen[q] \in Upto(seen, i, v) BY <1>7, <2>1, <3>1 DEF Upto
    <3> QED BY <2>1, <3>1, <3>2
  <2>5. \A a, b \in Upto(seen, i, v) : f[a] = f[b] => a = b
    BY <2>1, <2>2, AliasInjective
  <2>6. f \in Surjection(Upto(seen, i, v), Upto(again, i, v))
    BY <2>3, <2>4 DEF Surjection
  <2>7. f \in Injection(Upto(seen, i, v), Upto(again, i, v))
    BY <2>3, <2>5 DEF Injection, IsInjective
  <2>8. IsFiniteSet(Upto(seen, i, v)) BY <2>1, UptoFinite
  <2> HIDE DEF f
  <2> QED BY <2>6, <2>7, <2>8, FS_Surjection
<1> HIDE DEF v
<1> QED BY <1>2, <1>3, <1>6, <1>7, <1>8 DEF v

----------------------------------------------------------------------------
(* The queue goes on as if nothing were disclosed.                         *)

\* Every step is one of the queue, or leaves the queue as it is.
LEMMA StepIsQueue == DisclosureNext => [Next]_vars
<1> SUFFICES ASSUME DisclosureNext PROVE [Next]_vars OBVIOUS
<1>1. ASSUME NEW now \in Times, Receives(now) PROVE Next
  <2>1. ASSUME NEW s \in SessionId, NEW inform \in Informs, Inform(s, inform, now) PROVE Next
    BY <2>1, Zenon DEF Next, Receive
  <2>2. ASSUME NEW s \in SessionId, NEW id \in NextId, Poll(s, id, now) PROVE Next
    BY <2>2, Zenon DEF Next, Receive
  <2>3. ASSUME NEW s \in SessionId, NEW id \in NextId, UNCHANGED clock,
               \/ ReplyProfileChanged(s, id, now) \/ ReplyLate(s, id, now)
               \/ \E r \in Answers : ReplyRepeated(s, id, r, now)
        PROVE  Next
    BY <2>3, Zenon DEF Next, Receive, Reply
  <2> QED BY <1>1, <2>1, <2>2, <2>3, Zenon DEF Receives
<1>2. ASSUME NEW now \in Times, Administers(now) PROVE Next
  BY <1>2, Zenon DEF Next, Administers
<1>3. ASSUME NEW now \in Times, NEW s \in SessionId, NEW id \in NextId, NEW r \in Answers,
             AcceptReply(s, id, r, now)
      PROVE  Next
  <2>1. ReplyApplied(s, id, r, now) /\ UNCHANGED clock BY <1>3 DEF AcceptReply
  <2> QED BY <2>1, Zenon DEF Next, Receive, Reply
<1>4. CASE Tick BY <1>4 DEF Next
<1>5. CASE UNCHANGED <<db, clock>> BY <1>5 DEF vars
<1> QED BY <1>1, <1>2, <1>3, <1>4, <1>5, Zenon
        DEF DisclosureNext, OpenExport, ReadCatalog, ReadValues, ReadHistory, ReadOperations

\* Evidence and exports take nothing from the queue and add nothing to it: what is proved of
\* the queue holds of it while its evidence is recorded and its results are exported.
THEOREM DisclosureIsQueue == DisclosureSpec => Spec
<1>1. DisclosureInit => Init BY DEF DisclosureInit
<1>2. [DisclosureNext]_disclosed => [Next]_vars
  BY StepIsQueue DEF disclosed, vars
<1> QED BY <1>1, <1>2, PTL DEF DisclosureSpec, Spec

----------------------------------------------------------------------------
(* Exports.                                                                *)

\* What succeeded has no reason, and what it read of DeviceInfo is among the values, unless
\* a later reading has replaced it.
ReadsInfo(row) == row.state = "succeeded" /\ row.ask.kind = "values" /\ row.ask.path = NoPath
ValuesKeepUp(d) ==
  /\ \A o \in OpId : d.ops[o].state = "succeeded" => d.ops[o].reason = "none"
  /\ \A p \in Path : d.values[p].op = NoOp => d.values[p].at = 0
  /\ \A o \in OpId : ReadsInfo(d.ops[o]) =>
       \A p \in DOMAIN d.ops[o].result :
         d.values[p].op # NoOp /\ d.values[p].at >= d.ops[o].finished

\* What settles no operation keeps it that way.
LEMMA QuietValued ==
  ASSUME NEW d \in Tables, NEW e, ValuesKeepUp(d), Quiet(d, e) \/ Calm(d, e)
  PROVE  ValuesKeepUp(e)
<1>1. /\ \A o \in OpId : e.ops[o].state = "succeeded" => e.ops[o] = d.ops[o]
      /\ e.values = d.values
  BY DEF Quiet, Calm, TurnedDown, Answered
<1> QED BY <1>1 DEF ValuesKeepUp, ReadsInfo

\* A read of DeviceInfo that succeeded has a result for every leaf of its answer.
LEMMA ReadResult ==
  ASSUME NEW ask, NEW r \in Answer, ask.kind = "values", ask.path = NoPath,
         r.kind \in {"fault", ask.kind}, Reason(ask, r) = "none"
  PROVE  r.kind = "values" /\ ~ Telemetric(ask) /\ DOMAIN Result(ask, r) = DOMAIN r.content
<1>1. r.kind = "values" /\ ~ Telemetric(ask) BY DEF Reason, Telemetric
<1>2. CASE FeedsInventory(ask, r)
  BY <1>1, <1>2 DEF Result, FeedsInventory
<1>3. CASE ~ FeedsInventory(ask, r)
  BY <1>1, <1>3 DEF Result, Measures
<1> QED BY <1>1, <1>2, <1>3

\* So does an answer that is accepted.
LEMMA AcceptedValued ==
  ASSUME NEW d, NEW e, NEW o \in OpId, NEW r \in Answers, NEW now \in Nat,
         ValuesKeepUp(d), Accepts(d, e, o, r, now)
  PROVE  ValuesKeepUp(e)
<1> DEFINE ask == d.ops[o].ask
           valid == Reason(ask, r) = "none"
           read == IF r.kind = "values" /\ valid /\ ~ Telemetric(ask)
                   THEN {p \in DOMAIN r.content : d.values[p].at <= now} ELSE {}
<1>1. /\ d \in Tables /\ d.ops[o] \in Operation /\ r \in Answer /\ Concluded(d, e, o, r, now)
      /\ r.kind \in {"fault", ask.kind}
  BY RowTypes, InputTypes DEF Accepts
<1>2. e.values = [p \in Path |-> IF p \in read THEN [op |-> o, at |-> now, value |-> r.content[p]]
                                               ELSE d.values[p]]
  BY <1>1 DEF Concluded, Collect, Tables
<1>3. \A p \in Path : d.values[p].at \in Nat BY <1>1 DEF Tables
<1>4. o # NoOp BY IdAssumption
<1>5. \A p \in Path : /\ d.values[p].op # NoOp => e.values[p].op # NoOp
                      /\ e.values[p].op = NoOp => d.values[p].op = NoOp /\ e.values[p].at = d.values[p].at
                      /\ e.values[p].at >= d.values[p].at
  <2> HIDE DEF valid, ask
  <2> QED BY <1>2, <1>3, <1>4
<1>6. /\ e.ops[o].ask = ask /\ e.ops[o].finished = now /\ e.ops[o].result = Result(ask, r)
      /\ e.ops[o].reason = Reason(ask, r) /\ (e.ops[o].state = "succeeded" => valid)
  BY <1>1 DEF Concluded, AnsweredRow, Operation
<1>7. \A p \in OpId : p # o => e.ops[p] = d.ops[p] BY <1>1 DEF Concluded
<1>8. \A p \in OpId : d.ops[p].finished \in Nat /\ DOMAIN d.ops[p].result \subseteq Path
  BY <1>1, RowTypes DEF Operation, Content, Said
<1>9. ASSUME ReadsInfo(e.ops[o]), NEW p \in DOMAIN e.ops[o].result
      PROVE  e.values[p].op # NoOp /\ e.values[p].at >= now
  <2>1. r.kind = "values" /\ ~ Telemetric(ask) /\ valid /\ p \in DOMAIN r.content
    BY <1>1, <1>6, <1>9, ReadResult DEF ReadsInfo
  <2>2. p \in Path BY <1>1, <2>1 DEF Answer, Content, Said
  <2>3. CASE d.values[p].at <= now
    <3>1. p \in read BY <2>1, <2>3
    <3>2. e.values[p] = [op |-> o, at |-> now, value |-> r.content[p]]
      <4> HIDE DEF read
      <4> QED BY <1>2, <2>2, <3>1
    <3>3. e.values[p].op = o /\ e.values[p].at = now BY <3>2
    <3> HIDE DEF read
    <3> QED BY <1>4, <3>3
  <2>4. CASE d.values[p].at > now
    <3>1. d.values[p].op # NoOp BY <2>2, <2>4 DEF ValuesKeepUp
    <3>2. d.values[p].at \in Nat /\ e.values[p].at \in Nat
      <4> HIDE DEF read
      <4> QED BY <1>2, <1>3, <2>2
    <3>3. e.values[p].op # NoOp /\ e.values[p].at >= d.values[p].at BY <1>5, <2>2, <3>1
    <3> HIDE DEF read, valid, ask
    <3> QED BY <2>4, <3>2, <3>3
  <2>5. d.values[p].at \in Nat BY <1>3, <2>2
  <2>6. d.values[p].at <= now \/ d.values[p].at > now BY <2>5
  <2> HIDE DEF read, valid, ask
  <2> QED BY <2>3, <2>4, <2>6
<1>10. ASSUME NEW q \in OpId, q # o, ReadsInfo(e.ops[q]), NEW p \in DOMAIN e.ops[q].result
       PROVE  e.values[p].op # NoOp /\ e.values[p].at >= e.ops[q].finished
  <2>1. /\ ReadsInfo(d.ops[q]) /\ p \in DOMAIN d.ops[q].result /\ p \in Path
        /\ e.ops[q].finished = d.ops[q].finished
    BY <1>7, <1>8, <1>10
  <2>2. d.values[p].op # NoOp /\ d.values[p].at >= d.ops[q].finished BY <2>1 DEF ValuesKeepUp
  <2>3. /\ d.values[p].at \in Nat /\ e.values[p].at \in Nat /\ d.ops[q].finished \in Nat
    <3> HIDE DEF read
    <3> QED BY <1>2, <1>3, <1>8, <2>1
  <2> QED BY <1>5, <2>1, <2>2, <2>3
<1> HIDE DEF valid, ask, read
<1> QED BY <1>5, <1>6, <1>7, <1>9, <1>10 DEF ValuesKeepUp, valid, ask

\* And so does every step.
LEMMA NextKeepsUp ==
  ASSUME TypeOK, SlotInvariant, Timely(db, clock), Sourced(db), ValuesKeepUp(db), [Next]_vars
  PROVE  ValuesKeepUp(db')
<1>1. db \in Tables BY DEF TypeOK
<1>2. CASE Quiet(db, db') BY <1>1, <1>2, QuietValued
<1>3. ASSUME NEW d, NEW e, NEW o \in OpId, NEW r \in Answers, NEW now \in Nat,
             Calm(db, d), Accepts(d, e, o, r, now), Calm(e, db')
      PROVE  ValuesKeepUp(db')
  <2>1. ValuesKeepUp(d) BY <1>1, <1>3, QuietValued
  <2>2. ValuesKeepUp(e) BY <1>3, <2>1, AcceptedValued
  <2>3. e \in Tables BY <1>3 DEF Accepts
  <2> QED BY <1>3, <2>2, <2>3, QuietValued
<1> QED BY <1>2, <1>3, NextShape

LEMMA KeptUpCorrect == Spec => []ValuesKeepUp(db)
<1>1. Init => ValuesKeepUp(db)
  BY DEF Init, ValuesKeepUp, NoOperation, ReadsInfo
<1>2. TypeOK /\ SlotInvariant /\ Timely(db, clock) /\ Sourced(db) /\ ValuesKeepUp(db) /\ [Next]_vars
        => ValuesKeepUp(db)'
  BY NextKeepsUp DEF ValuesKeepUp, ReadsInfo
<1> QED BY <1>1, <1>2, TypeCorrect, SlotCorrect, TimelyCorrect, SourcedCorrect, PTL DEF Spec

\* A state of the tables an export can be made of.
Coherent(d) == d \in Tables /\ Traced(d) /\ ValuesKeepUp(d)

\* What an export has read so far is of one such state, which its transaction sees to the end.
Exported(d, e) ==
  /\ Coherent(d) /\ e.prefix \in Prefixes
  /\ e.catalog = Restricted(d.catalog, e.prefix) /\ e.values = Restricted(d.values, e.prefix)
  /\ e.operations = [o \in (Referenced(e) \cup e.recent) \cap Existing(d) |-> d.ops[o]]
ExportInvariant ==
  /\ export \in [at : {"idle", "catalog", "values", "history", "operations", "done", "refused"},
                  prefix : {export.prefix}, snapshot : {export.snapshot},
                  catalog : {export.catalog}, values : {export.values},
                  recent : {export.recent}, operations : {export.operations}]
  /\ export.at \in {"catalog", "values", "history", "operations"} =>
       Coherent(export.snapshot) /\ export.prefix \in Prefixes
  /\ export.at \in {"values", "history", "operations"} =>
       export.catalog = Restricted(export.snapshot.catalog, export.prefix)
  /\ export.at \in {"history", "operations"} =>
       export.values = Restricted(export.snapshot.values, export.prefix)
  /\ export.at = "done" => \E d : Exported(d, export)

\* A document that was read of one snapshot is coherent.
LEMMA DocumentCoherent ==
  ASSUME NEW d, Exported(d, export)
  PROVE  ExportCoherent
<1> DEFINE ops == export.operations
           told == (Referenced(export) \cup export.recent) \cap Existing(d)
           prefix == export.prefix
<1>1. /\ d \in Tables /\ CatalogTraced(d) /\ ValuesTraced(d) /\ ValuesKeepUp(d)
      /\ Under[prefix] \subseteq Path
  BY DisclosureAssumption DEF Exported, Coherent, Traced
<1>2. ops = [o \in told |-> d.ops[o]] BY DEF Exported
<1>3. /\ DOMAIN export.catalog = Matching(d.catalog, prefix)
      /\ \A p \in DOMAIN export.catalog : export.catalog[p] = d.catalog[p]
      /\ DOMAIN export.values = Matching(d.values, prefix)
      /\ \A p \in DOMAIN export.values : export.values[p] = d.values[p]
  BY Zenon DEF Exported, Restricted
<1>4. ASSUME NEW p \in DOMAIN export.catalog
      PROVE  LET row == export.catalog[p]
             IN /\ row.op \in DOMAIN ops
                /\ ops[row.op].state = "succeeded" /\ ops[row.op].finished = row.at
                /\ p \in Responded(export, row.op)
  <2> DEFINE q == d.catalog[p].op
  <2>1. /\ p \in Path /\ q # NoOp /\ export.catalog[p] = d.catalog[p]
    BY <1>1, <1>3 DEF Matching
  <2>2. /\ d.ops[q].state = "succeeded" /\ d.ops[q].ask.kind = "names"
        /\ d.ops[q].finished = d.catalog[p].at
    BY <1>1, <2>1 DEF CatalogTraced
  <2>3. q \in OpId BY <1>1, <2>1 DEF Tables
  <2>4. q \in told BY <2>1, <2>2, <2>3 DEF Referenced, Existing
  <2>5. q \in DOMAIN ops /\ ops[q] = d.ops[q]
    <3> HIDE DEF ops, told
    <3> QED BY <1>2, <2>4
  <2>6. d.ops[q].reason = "none" BY <1>1, <2>2, <2>3 DEF ValuesKeepUp
  <2>7. p \in Responded(export, q) BY <2>1, <2>2, <2>5, <2>6 DEF Responded
  <2> HIDE DEF ops
  <2> QED BY <2>1, <2>2, <2>5, <2>7
<1>5. ASSUME NEW p \in DOMAIN export.values
      PROVE  LET row == export.values[p]
             IN /\ row.op \in DOMAIN ops
                /\ ops[row.op].state = "succeeded" /\ ops[row.op].finished = row.at
                /\ p \in Responded(export, row.op)
  <2> DEFINE q == d.values[p].op
  <2>1. /\ p \in Path /\ q # NoOp /\ export.values[p] = d.values[p]
    BY <1>1, <1>3 DEF Matching
  <2>2. /\ d.ops[q].state = "succeeded" /\ d.ops[q].ask.kind = "values"
        /\ d.ops[q].finished = d.values[p].at
    BY <1>1, <2>1 DEF ValuesTraced
  <2>3. q \in OpId BY <1>1, <2>1 DEF Tables
  <2>4. q \in told BY <2>1, <2>2, <2>3 DEF Referenced, Existing
  <2>5. q \in DOMAIN ops /\ ops[q] = d.ops[q]
    <3> HIDE DEF ops, told
    <3> QED BY <1>2, <2>4
  <2>6. d.ops[q].reason = "none" BY <1>1, <2>2, <2>3 DEF ValuesKeepUp
  <2>7. p \in Responded(export, q) BY <2>1, <2>2, <2>5, <2>6 DEF Responded
  <2> HIDE DEF ops
  <2> QED BY <2>1, <2>2, <2>5, <2>7
<1>6. ASSUME NEW entry \in Omitted(export), ops[entry[1]].state = "succeeded",
             ops[entry[1]].ask.path = NoPath
      PROVE  /\ entry[2] \in DOMAIN export.values
             /\ export.values[entry[2]].at >= ops[entry[1]].finished
  <2> DEFINE o == entry[1]
             p == entry[2]
  <2>1. /\ o \in DOMAIN ops /\ p \in Under[prefix]
        /\ ops[o].ask.kind = "values" /\ p \in DOMAIN ops[o].result
    BY DEF Omitted
  <2>2. o \in OpId /\ ops[o] = d.ops[o]
    <3> HIDE DEF ops, o
    <3> QED BY <1>2, <2>1 DEF Existing
  <2>3. ReadsInfo(d.ops[o]) BY <1>6, <2>1, <2>2 DEF ReadsInfo
  <2>4. d.values[p].op # NoOp /\ d.values[p].at >= d.ops[o].finished
    BY <1>1, <2>1, <2>2, <2>3 DEF ValuesKeepUp
  <2>5. p \in DOMAIN export.values BY <1>3, <2>1, <2>4 DEF Matching
  <2> QED BY <1>3, <2>2, <2>4, <2>5
<1> HIDE DEF ops
<1> QED BY <1>4, <1>5, <1>6 DEF ExportCoherent, ops

\* Every step keeps what an export has read to its snapshot.
LEMMA ExportStep ==
  ASSUME TypeOK, Sourced(db), ValuesKeepUp(db), ExportInvariant, [DisclosureNext]_disclosed
  PROVE  ExportInvariant'
<1> DEFINE e == export
<1>1. Coherent(db) BY DEF TypeOK, Sourced, Coherent
<1>2. CASE UNCHANGED export
  <2> QED BY <1>2 DEF ExportInvariant, Exported, Referenced
<1>3. ASSUME NEW prefix \in Prefixes, OpenExport(prefix) PROVE ExportInvariant'
  BY <1>1, <1>3 DEF OpenExport, ExportInvariant
<1>4. CASE ReadCatalog
  BY <1>4 DEF ReadCatalog, ExportInvariant, Seen
<1>5. CASE ReadValues
  <2>1. \/ export' = [NoExport EXCEPT !.at = "refused"]
        \/ export' = [export EXCEPT !.at = "history",
                                   !.values = Restricted(Seen(export).values, export.prefix)]
    BY <1>5 DEF ReadValues
  <2>2. export.at = "values" BY <1>5 DEF ReadValues
  <2>3. CASE export' = [NoExport EXCEPT !.at = "refused"]
    BY <2>3 DEF NoExport, ExportInvariant
  <2> QED BY <2>1, <2>2, <2>3 DEF ExportInvariant, Seen
<1>6. CASE ReadHistory
  <2>1. PICK recent : \/ export' = [NoExport EXCEPT !.at = "refused"]
                      \/ export' = [export EXCEPT !.at = "operations", !.recent = recent]
    BY <1>6 DEF ReadHistory
  <2>2. export.at = "history" BY <1>6 DEF ReadHistory
  <2>3. CASE export' = [NoExport EXCEPT !.at = "refused"]
    BY <2>3 DEF NoExport, ExportInvariant
  <2> QED BY <2>1, <2>2, <2>3 DEF ExportInvariant
<1>7. CASE ReadOperations
  <2> DEFINE d == export.snapshot
             ops == [o \in (Referenced(export) \cup export.recent) \cap Existing(d) |-> d.ops[o]]
  <2>1. export.at = "operations" /\ export' = [export EXCEPT !.at = "done",
                                   !.snapshot = NoExport.snapshot, !.operations = ops]
    BY <1>7 DEF ReadOperations, Seen
  <2>2. /\ Coherent(d) /\ export.prefix \in Prefixes
        /\ export.catalog = Restricted(d.catalog, export.prefix)
        /\ export.values = Restricted(d.values, export.prefix)
    BY <2>1 DEF ExportInvariant
  <2> HIDE DEF ops
  <2>3. /\ export' \in [at : {"done"}, prefix : {export'.prefix}, snapshot : {export'.snapshot},
                        catalog : {export'.catalog}, values : {export'.values},
                        recent : {export'.recent}, operations : {export'.operations}]
        /\ export'.at = "done" /\ export'.prefix = export.prefix
        /\ export'.catalog = export.catalog /\ export'.values = export.values
        /\ export'.recent = export.recent /\ export'.operations = ops
    BY <2>1 DEF ExportInvariant
  <2>4. Referenced(export') = Referenced(export) BY <2>3 DEF Referenced
  <2>5. Exported(d, export') BY <2>2, <2>3, <2>4 DEF Exported, ops
  <2> QED BY <2>3, <2>5 DEF ExportInvariant, Exported, Referenced
<1>8. CASE DisclosureNext
  <2>1. \/ UNCHANGED export \/ \E prefix \in Prefixes : OpenExport(prefix)
        \/ ReadCatalog \/ ReadValues \/ ReadHistory \/ ReadOperations
    BY <1>8, Zenon DEF DisclosureNext, Receives, Administers, AcceptReply
  <2> QED BY <1>2, <1>3, <1>4, <1>5, <1>6, <1>7, <2>1
<1> QED BY <1>2, <1>8 DEF disclosed

\* An export is of one moment, whatever commits between its statements: every entry comes
\* with the operation it refers to, which succeeded when the entry says and has it among its
\* response, and what it leaves out of a read of DeviceInfo was replaced by a later one.
THEOREM ExportsCorrect == DisclosureSpec => []ExportCoherent
<1>1. DisclosureInit => ExportInvariant
  BY DEF DisclosureInit, NoExport, ExportInvariant
<1>2. TypeOK /\ Sourced(db) /\ ValuesKeepUp(db) /\ ExportInvariant /\ [DisclosureNext]_disclosed
        => ExportInvariant'
  BY ExportStep
<1>3. ExportInvariant => ExportCoherent
  <2>1. CASE export.at = "done" BY <2>1, DocumentCoherent DEF ExportInvariant
  <2>2. CASE export.at # "done" BY <2>2 DEF ExportCoherent
  <2> QED BY <2>1, <2>2
<1> QED BY <1>1, <1>2, <1>3, DisclosureIsQueue, TypeCorrect, SourcedCorrect, KeptUpCorrect, PTL
        DEF DisclosureSpec

----------------------------------------------------------------------------
(* Evidence is recorded with the answer that ends an operation.            *)

\* An operation that owes its evidence, and the answer that ended it.
Owed(op) ==
  /\ op.key \in EvidenceKeys /\ op.state \in Answered
  /\ op.reason \notin {"unexpected_parameters", "profile_changed"}
EndedBy(op, r) ==
  /\ r.kind \in {"fault", op.ask.kind}
  /\ op.state = IF Reason(op.ask, r) = "none" THEN "succeeded" ELSE "failed"
  /\ op.reason = Reason(op.ask, r) /\ op.result = Result(op.ask, r)

\* The bundle of that answer, for the CPE as it was, with the carriage returns it had and in
\* the order it came.
Bundled(op, r, cpe, padded, sent) ==
  Build(PlanOf(op.ask, cpe), r.kind,
        Projected(PlanOf(op.ask, cpe), Received(r.content, padded)),
        sent, op.finished, Cardinality(DOMAIN r.content))
Captured(op, bundle) ==
  \E r \in Answers, cpe \in Reviewed : \E padded, sent :
    EndedBy(op, r) /\ bundle = Bundled(op, r, cpe, padded, sent)
Recorded(op, bundle) == IF Owed(op) THEN Captured(op, bundle) ELSE bundle = NoBundle

EvidenceInvariant ==
  \A o \in OpId :
    /\ DOMAIN evidence = OpId
    /\ evidence[o] = [created |-> evidence[o].created, bundle |-> evidence[o].bundle]
    /\ Recorded(db.ops[o], evidence[o].bundle)

\* What owes evidence does not change any more, and nothing comes to owe it.
Settles(d, e) ==
  \A o \in OpId : Owed(d.ops[o]) \/ Owed(e.ops[o]) => e.ops[o] = d.ops[o]

\* The steps that accept no answer neither end nor change what owes evidence.
LEMMA QuietSettling ==
  ASSUME NEW d, NEW e, Quiet(d, e) \/ Calm(d, e)
  PROVE  Settles(d, e)
BY DEF Quiet, Calm, Progress, OpProgress, TurnedDown, Settles, Owed, Answered, Terminal

\* Every row of evidence keeps its columns, and one of them may get a bundle.
LEMMA CreatedRows ==
  ASSUME EvidenceInvariant, NEW now
  PROVE  /\ DOMAIN Created(now) = OpId
         /\ \A p \in OpId : Created(now)[p] = [created |-> Created(now)[p].created,
                                              bundle |-> evidence[p].bundle]
<1> SUFFICES ASSUME NEW p \in OpId
             PROVE  Created(now)[p] = [created |-> Created(now)[p].created,
                                       bundle |-> evidence[p].bundle]
  BY DEF Created
<1>1. Created(now)[p] = evidence[p] \/ Created(now)[p] = [evidence[p] EXCEPT !.created = now]
  BY DEF Created
<1>2. evidence[p] = [created |-> evidence[p].created, bundle |-> evidence[p].bundle]
  BY DEF EvidenceInvariant
<1>3. [evidence[p] EXCEPT !.created = now] = [created |-> now, bundle |-> evidence[p].bundle]
  BY <1>2
<1>4. CASE Created(now)[p] = evidence[p] BY <1>2, <1>4
<1>5. CASE Created(now)[p] = [evidence[p] EXCEPT !.created = now]
  <2>1. Created(now)[p] = [created |-> now, bundle |-> evidence[p].bundle] BY <1>3, <1>5
  <2>2. Created(now)[p].created = now BY <2>1
  <2> QED BY <2>1, <2>2
<1> QED BY <1>1, <1>4, <1>5

\* A row that gets a bundle keeps its other column, and every other row.
LEMMA BundleAdded ==
  ASSUME NEW f, NEW o \in DOMAIN f, NEW bundle, NEW old,
         f[o] = [created |-> f[o].created, bundle |-> old]
  PROVE  LET g == [f EXCEPT ![o].bundle = bundle]
         IN /\ DOMAIN g = DOMAIN f /\ \A p \in DOMAIN f : p # o => g[p] = f[p]
            /\ g[o] = [created |-> g[o].created, bundle |-> bundle]
<1> DEFINE g == [f EXCEPT ![o].bundle = bundle]
<1>1. DOMAIN g = DOMAIN f /\ \A p \in DOMAIN f : p # o => g[p] = f[p] OBVIOUS
<1>2. g[o] = [f[o] EXCEPT !.bundle = bundle] OBVIOUS
<1>3. [f[o] EXCEPT !.bundle = bundle] = [created |-> f[o].created, bundle |-> bundle] OBVIOUS
<1>4. g[o].created = f[o].created BY <1>2, <1>3
<1> HIDE DEF g
<1> QED BY <1>1, <1>2, <1>3, <1>4 DEF g

\* A step that settles nothing keeps the evidence recorded.
LEMMA SettlingEvidence ==
  ASSUME EvidenceInvariant, NEW now, evidence' = Created(now), Settles(db, db')
  PROVE  EvidenceInvariant'
<1>1. /\ DOMAIN evidence' = OpId
      /\ \A o \in OpId : evidence'[o] = [created |-> evidence'[o].created,
                                        bundle |-> evidence[o].bundle]
  BY CreatedRows
<1>2. \A o \in OpId : Recorded(db'.ops[o], evidence[o].bundle)
  BY DEF EvidenceInvariant, Settles, Recorded
<1> QED BY <1>1, <1>2 DEF EvidenceInvariant

\* An answer that is accepted is recorded with the operation it ends.
LEMMA AcceptEvidence ==
  ASSUME TypeOK, SlotInvariant, Timely(db, clock), Sourced(db), EvidenceInvariant, db' \in Tables,
         NEW now \in Nat, now <= clock, NEW s \in SessionId, NEW id \in NextId, NEW r \in Answers,
         AcceptReply(s, id, r, now)
  PROVE  EvidenceInvariant'
<1>1. ReplyApplied(s, id, r, now) BY DEF AcceptReply
<1>2. PICK d, e : \E o \in OpId :
        Calm(db, d) /\ Keeps(db, d) /\ Accepts(d, e, o, r, now) /\ Calm(e, db') /\ Keeps(e, db')
  BY <1>1, AppliedShape
<1>3. PICK o \in OpId : Calm(db, d) /\ Accepts(d, e, o, r, now) /\ Calm(e, db') BY <1>2
<1>4. /\ d.ops[o].state = "dispatched" /\ Concluded(d, e, o, r, now) /\ d.ops[o] \in Operation
      /\ r.kind \in {"fault", d.ops[o].ask.kind}
  BY <1>3, RowTypes DEF Accepts
<1>5. db.ops[o] = d.ops[o] BY <1>3, <1>4 DEF Calm, TurnedDown
<1>6. db.cpe \in Reviewed
  <2>1. Eligible(Settled(id, now)) BY <1>1 DEF ReplyApplied
  <2>2. id \in OpId /\ db \in Tables BY DEF NextId, TypeOK
  <2> QED BY <2>1, <2>2, SettledKeeps DEF Eligible, Keeps
<1> DEFINE row == AnsweredRow(d.ops[o], r, now)
<1>7. /\ e.ops[o] = row /\ row.state \in Answered /\ row.finished = now
      /\ row.key = db.ops[o].key /\ row.ask = db.ops[o].ask
      /\ row.reason = Reason(row.ask, r) /\ EndedBy(row, r)
  <2>1. /\ row.ask = d.ops[o].ask /\ row.key = d.ops[o].key /\ row.finished = now
        /\ row.state = IF Reason(d.ops[o].ask, r) = "none" THEN "succeeded" ELSE "failed"
        /\ row.reason = Reason(d.ops[o].ask, r) /\ row.result = Result(d.ops[o].ask, r)
    BY <1>4 DEF AnsweredRow, Operation
  <2> HIDE DEF row
  <2>2. row.state \in Answered BY <2>1 DEF Answered
  <2>3. EndedBy(row, r) BY <1>4, <2>1 DEF EndedBy
  <2> QED BY <1>4, <1>5, <2>1, <2>2, <2>3 DEF Concluded, row
<1> HIDE DEF row
<1>8. db'.ops[o] = row
  BY <1>3, <1>7 DEF Calm, Progress, OpProgress, Terminal
<1>9. \A p \in OpId : p # o => (Owed(db.ops[p]) \/ Owed(db'.ops[p]) => db'.ops[p] = db.ops[p])
  <2>1. Settles(db, d) /\ Settles(e, db') BY <1>3, QuietSettling
  <2> QED BY <1>4, <2>1 DEF Settles, Concluded
<1>10. ~ Owed(db.ops[o])
  <2>1. db.ops[o].state = "dispatched" BY <1>4, <1>5
  <2> QED BY <2>1 DEF Owed, Answered
<1>11. Owed(row) <=> Capturable(db.ops[o].key, Reason(db.ops[o].ask, r))
  <2>1. r.kind \in {"names", "values", "fault"} BY InputTypes DEF Answer
  <2>2. Reason(row.ask, r) # "profile_changed" BY <2>1 DEF Reason, TelemetryReason
  <2> QED BY <1>7, <2>2 DEF Owed, Capturable
<1>12. \A p \in OpId : db.ops[p].state = "dispatched" => p = o
  BY <1>4, <1>5 DEF SlotInvariant, Slot, Single, Active, Waiting
<1> DEFINE created == Created(now)
<1>13. PICK padded, sent :
         IF Capturable(db.ops[o].key, Reason(db.ops[o].ask, r))
         THEN evidence' = [created EXCEPT ![o].bundle =
                Build(PlanOf(db.ops[o].ask, db.cpe), r.kind,
                      Projected(PlanOf(db.ops[o].ask, db.cpe), Received(r.content, padded)),
                      sent, now, Cardinality(DOMAIN r.content))]
         ELSE evidence' = created
  BY <1>12, Zenon DEF AcceptReply
<1> DEFINE bundle == Bundled(row, r, db.cpe, padded, sent)
<1>14. /\ DOMAIN created = OpId
       /\ \A p \in OpId : created[p] = [created |-> created[p].created, bundle |-> evidence[p].bundle]
  BY CreatedRows
<1> HIDE DEF created
<1>15. bundle = Build(PlanOf(db.ops[o].ask, db.cpe), r.kind,
                      Projected(PlanOf(db.ops[o].ask, db.cpe), Received(r.content, padded)),
                      sent, now, Cardinality(DOMAIN r.content))
  BY <1>7 DEF Bundled
<1>16. Captured(row, bundle) BY <1>6, <1>7 DEF Captured
<1> HIDE DEF bundle
<1>17. \/ Owed(row) /\ evidence' = [created EXCEPT ![o].bundle = bundle]
       \/ ~ Owed(row) /\ evidence' = created
  BY <1>11, <1>13, <1>15
<1>18. /\ DOMAIN evidence' = OpId
       /\ \A p \in OpId : p # o => evidence'[p] = [created |-> evidence'[p].created,
                                                  bundle |-> evidence[p].bundle]
       /\ evidence'[o] = [created |-> evidence'[o].created,
                          bundle |-> IF Owed(row) THEN bundle ELSE evidence[o].bundle]
  <2>1. CASE Owed(row) /\ evidence' = [created EXCEPT ![o].bundle = bundle]
    BY <1>14, <2>1, BundleAdded
  <2>2. CASE ~ Owed(row) /\ evidence' = created BY <1>14, <2>2
  <2> QED BY <1>17, <2>1, <2>2
<1>19. evidence[o].bundle = NoBundle BY <1>10 DEF EvidenceInvariant, Recorded
<1>20. Recorded(row, IF Owed(row) THEN bundle ELSE evidence[o].bundle)
  BY <1>16, <1>19 DEF Recorded
<1>21. \A p \in OpId : p # o => Recorded(db'.ops[p], evidence[p].bundle)
  BY <1>9 DEF EvidenceInvariant, Recorded
<1>22. \A p \in OpId : /\ evidence'[p] = [created |-> evidence'[p].created, bundle |-> evidence'[p].bundle]
                      /\ Recorded(db'.ops[p], evidence'[p].bundle)
  <2>1. ASSUME NEW p \in OpId, p # o
        PROVE  /\ evidence'[p] = [created |-> evidence'[p].created, bundle |-> evidence'[p].bundle]
               /\ evidence'[p].bundle = evidence[p].bundle
    BY <1>18, <2>1
  <2>2. /\ evidence'[o] = [created |-> evidence'[o].created, bundle |-> evidence'[o].bundle]
        /\ evidence'[o].bundle = IF Owed(row) THEN bundle ELSE evidence[o].bundle
    BY <1>18
  <2> QED BY <1>8, <1>20, <1>21, <2>1, <2>2
<1> QED BY <1>18, <1>22 DEF EvidenceInvariant

\* Every step keeps the evidence recorded.
LEMMA NextEvidence ==
  ASSUME TypeOK, SlotInvariant, Timely(db, clock), Sourced(db), EvidenceInvariant,
         [DisclosureNext]_disclosed
  PROVE  EvidenceInvariant'
<1>1. db \in Tables /\ clock \in Nat /\ db' \in Tables
  <2>1. [Next]_vars BY StepIsQueue DEF disclosed, vars
  <2> QED BY <2>1, NextType DEF TypeOK
<1>2. \A now \in Times : now \in Nat /\ now <= clock BY <1>1 DEF Times
<1>3. CASE UNCHANGED <<db, evidence>> BY <1>3 DEF EvidenceInvariant
<1>4. ASSUME NEW now \in Times, evidence' = Created(now), Settles(db, db') PROVE EvidenceInvariant'
  BY <1>4, SettlingEvidence
<1>5. ASSUME NEW now \in Times, Administers(now) PROVE EvidenceInvariant'
  <2>1. Administer(now) /\ evidence' = Created(now) BY <1>5 DEF Administers
  <2>2. Settles(db, db') BY <1>1, <1>2, <2>1, AdministerCalm, QuietSettling
  <2> QED BY <1>4, <2>1, <2>2
<1>6. ASSUME NEW now \in Times, Receives(now) PROVE EvidenceInvariant'
  <2>1. evidence' = Created(now) BY <1>6 DEF Receives
  <2>2. ASSUME NEW s \in SessionId, NEW inform \in Informs, Inform(s, inform, now)
        PROVE  Settles(db, db')
    BY <1>1, <1>2, <2>2, InformCalm, QuietSettling
  <2>3. ASSUME NEW s \in SessionId, NEW id \in NextId,
               \/ Poll(s, id, now)
               \/ /\ \/ ReplyProfileChanged(s, id, now) \/ ReplyLate(s, id, now)
                     \/ \E r \in Answers : ReplyRepeated(s, id, r, now)
                  /\ UNCHANGED clock
        PROVE  Settles(db, db')
    <3>1. Poll(s, id, now) \/ Reply(s, id, now) BY <2>3, Zenon DEF Reply
    <3>2. \/ Poll(s, id, now) \/ ReplyProfileChanged(s, id, now) \/ ReplyLate(s, id, now)
          \/ \E r \in Answers : ReplyRepeated(s, id, r, now)
      BY <2>3
    <3>3. Quiet(db, db') BY <1>1, <1>2, <3>1, <3>2, ReceiveQuiet
    <3> QED BY <3>3, QuietSettling
  <2>4. Settles(db, db') BY <1>6, <2>2, <2>3, Zenon DEF Receives
  <2> QED BY <1>4, <2>1, <2>4
<1>7. ASSUME NEW now \in Times, NEW s \in SessionId, NEW id \in NextId, NEW r \in Answers,
             AcceptReply(s, id, r, now)
      PROVE  EvidenceInvariant'
  BY <1>1, <1>2, <1>7, AcceptEvidence
<1>8. CASE DisclosureNext
  <2>1. \/ UNCHANGED <<db, evidence>>
        \/ \E now \in Times : \/ Receives(now) \/ Administers(now)
                              \/ \E s \in SessionId, id \in NextId, r \in Answers : AcceptReply(s, id, r, now)
    BY <1>8, Zenon DEF DisclosureNext, Tick, OpenExport, ReadCatalog, ReadValues, ReadHistory,
                       ReadOperations
  <2> QED BY <1>3, <1>5, <1>6, <1>7, <2>1
<1> QED BY <1>3, <1>8 DEF disclosed

\* An operation that owes evidence always has that of the answer that ended it, and no other has any.
LEMMA EvidenceKept == DisclosureSpec => []EvidenceInvariant
<1>1. DisclosureInit => EvidenceInvariant
  BY DEF DisclosureInit, Init, NoOperation, EvidenceInvariant, Recorded, Owed, Answered
<1>2. /\ TypeOK /\ SlotInvariant /\ Timely(db, clock) /\ Sourced(db) /\ EvidenceInvariant
      /\ [DisclosureNext]_disclosed
      => EvidenceInvariant'
  BY NextEvidence
<1> QED BY <1>1, <1>2, DisclosureIsQueue, TypeCorrect, SlotCorrect, TimelyCorrect, SourcedCorrect, PTL
        DEF DisclosureSpec

----------------------------------------------------------------------------
(* What a bundle says.                                                     *)

\* A parameter without a carriage return.
Clear(text, aliases) == [text |-> text, aliases |-> aliases, padded |-> FALSE]
Cleared(item) == [item EXCEPT !.padded = FALSE]

\* What a cleared parameter says.
LEMMA ClearFields ==
  ASSUME NEW text, NEW aliases
  PROVE  Clear(text, aliases).text = text /\ Clear(text, aliases).aliases = aliases
<1>1. \A b : /\ [text |-> text, aliases |-> aliases, padded |-> b].text = text
             /\ [text |-> text, aliases |-> aliases, padded |-> b].aliases = aliases
  OBVIOUS
<1> QED BY <1>1, Zenon DEF Clear

\* Clearing a parameter keeps its text and its aliases.
LEMMA ClearedItem ==
  ASSUME NEW text, NEW aliases, NEW padded
  PROVE  Cleared([text |-> text, aliases |-> aliases, padded |-> padded]) = Clear(text, aliases)
<1>1. \A b : [[text |-> text, aliases |-> aliases, padded |-> padded] EXCEPT !.padded = b]
             = [text |-> text, aliases |-> aliases, padded |-> b]
  OBVIOUS
<1> QED BY <1>1, Zenon DEF Clear, Cleared

\* The parts Build makes a bundle of.
Shown(plan, items) == {p \in DOMAIN items : Legible(plan, p, items[p].text)}
Masked(plan, items) == {p \in Shown(plan, items) : Replaced(plan, p, items[p].text)}
NamedIn(plan, items) ==
  [i \in DOMAIN Sorted[Masked(plan, items)] |-> Named(items[Sorted[Masked(plan, items)][i]])]
SeenIn(plan, items) == Seqs!FlattenSeq(NamedIn(plan, items))
Aliased(plan, items, p) ==
  [i \in DOMAIN Named(items[p]) |-> AliasOf(SeenIn(plan, items), Named(items[p])[i])]
ResponseOf(plan, items) ==
  [p \in Shown(plan, items) |->
     IF p \in Masked(plan, items)
     THEN Clear(Alias, Aliased(plan, items, p))
     ELSE items[p]]

\* A bundle is made of those parts.
LEMMA BuildParts ==
  ASSUME NEW plan, NEW kind, NEW items, NEW sent, NEW at, NEW count
  PROVE  Build(plan, kind, items, sent, at, count) =
           [made |-> TRUE, plan |-> plan, kind |-> kind, at |-> at, count |-> count,
            response |-> ResponseOf(plan, items),
            omitted |-> IF kind = "values" THEN plan.names \ Shown(plan, items) ELSE {},
            substituted |-> Masked(plan, items)]
BY Zenon DEF Build, InOrder, ResponseOf, Aliased, SeenIn, NamedIn, Masked, Shown, Clear

\* The parameters of a reply as they are received, of paths and never with the text that
\* stands for addresses; the texts that are masked name addresses.
Items(plan, items) ==
  /\ DOMAIN items \subseteq Path
  /\ \A p \in DOMAIN items :
       /\ items[p] = [text |-> items[p].text, aliases |-> items[p].aliases, padded |-> items[p].padded]
  /\ \A p \in Masked(plan, items) : Named(items[p]) \in Seq(Address)

\* The lists of addresses of the masked texts, one of each text.
LEMMA NamedLists ==
  ASSUME NEW plan, NEW items, Items(plan, items)
  PROVE  LET masked == Masked(plan, items)
             n == Len(Sorted[masked])
         IN /\ n \in Nat /\ DOMAIN Sorted[masked] = 1..n
            /\ \A i \in 1..n : Sorted[masked][i] \in masked
            /\ \A p \in masked : \E i \in 1..n : Sorted[masked][i] = p
            /\ NamedIn(plan, items) \in [1..n -> Seq(Address)]
<1> DEFINE M == Masked(plan, items)
           n == Len(Sorted[M])
<1>1. M \subseteq Path BY DEF Items, Masked, Shown
<1>2. /\ Sorted[M] \in Seq(Path) /\ {Sorted[M][i] : i \in DOMAIN Sorted[M]} = M
  BY <1>1, PathAssumption, SortedAssumption
<1>3. n \in Nat /\ DOMAIN Sorted[M] = 1..n BY <1>2
<1>4. \A i \in 1..n : Sorted[M][i] \in M BY <1>2, <1>3
<1>5. \A p \in M : \E i \in 1..n : Sorted[M][i] = p
  <2> HIDE DEF M
  <2> QED BY <1>2, <1>3
<1>6. NamedIn(plan, items) \in [1..n -> Seq(Address)]
  <2>1. \A i \in 1..n : Named(items[Sorted[M][i]]) \in Seq(Address) BY <1>4 DEF Items
  <2> HIDE DEF M, n
  <2> QED BY <1>3, <2>1 DEF NamedIn, M
<1> QED BY <1>3, <1>4, <1>5, <1>6

\* Every address of a masked text is among those that are numbered.
LEMMA SeenAll ==
  ASSUME NEW plan, NEW items, Items(plan, items)
  PROVE  /\ SeenIn(plan, items) \in Seq(Address)
         /\ \A p \in Masked(plan, items) : \A i \in DOMAIN Named(items[p]) :
              \E j \in DOMAIN SeenIn(plan, items) : SeenIn(plan, items)[j] = Named(items[p])[i]
<1> DEFINE M == Masked(plan, items)
           n == Len(Sorted[M])
           lists == NamedIn(plan, items)
<1>1. /\ n \in Nat /\ DOMAIN Sorted[M] = 1..n
      /\ \A p \in M : \E i \in 1..n : Sorted[M][i] = p
      /\ lists \in [1..n -> Seq(Address)]
  BY NamedLists
<1>2. \A i \in 1..n : lists[i] = Named(items[Sorted[M][i]]) BY <1>1 DEF NamedIn
<1> HIDE DEF lists, n, M
<1>3. /\ Seqs!FlattenSeq(lists) \in Seq(Address)
      /\ \A i \in 1..n : \A k \in DOMAIN lists[i] : \E j \in DOMAIN Seqs!FlattenSeq(lists) :
           Seqs!FlattenSeq(lists)[j] = lists[i][k]
  BY <1>1, FlattenElements
<1>4. ASSUME NEW p \in M, NEW k \in DOMAIN Named(items[p])
      PROVE  \E j \in DOMAIN Seqs!FlattenSeq(lists) : Seqs!FlattenSeq(lists)[j] = Named(items[p])[k]
  <2>1. PICK i \in 1..n : Sorted[M][i] = p BY <1>1
  <2>2. lists[i] = Named(items[p]) BY <1>2, <2>1
  <2> QED BY <1>3, <1>4, <2>2
<1> QED BY <1>3, <1>4 DEF SeenIn, lists, M

\* Numbering the addresses of a response again changes nothing.
LEMMA Renumbered ==
  ASSUME NEW plan, NEW items, Items(plan, items), NEW again,
         again = [p \in Shown(plan, items) |-> Cleared(ResponseOf(plan, items)[p])]
  PROVE  /\ Shown(plan, again) = Shown(plan, items) /\ Masked(plan, again) = Masked(plan, items)
         /\ ResponseOf(plan, again) = again
<1> DEFINE K == Shown(plan, items)
           M == Masked(plan, items)
           seen == SeenIn(plan, items)
<1>1. /\ M \subseteq K /\ K \subseteq DOMAIN items /\ DOMAIN again = K
      /\ \A p \in K : again[p] = Cleared(ResponseOf(plan, items)[p])
  BY DEF Masked, Shown
<1>2. ASSUME NEW p \in M
      PROVE  /\ again[p] = Clear(Alias, Aliased(plan, items, p))
             /\ again[p].text = Alias /\ again[p].aliases = Aliased(plan, items, p)
  <2>1. ResponseOf(plan, items)[p] = Clear(Alias, Aliased(plan, items, p))
    BY <1>1 DEF ResponseOf
  <2>2. again[p] = Clear(Alias, Aliased(plan, items, p))
    <3>1. again[p] = Cleared(Clear(Alias, Aliased(plan, items, p))) BY <1>1, <2>1
    <3>2. Cleared(Clear(Alias, Aliased(plan, items, p))) = Clear(Alias, Aliased(plan, items, p))
      BY ClearedItem, Zenon DEF Clear
    <3> QED BY <3>1, <3>2
  <2> QED BY <2>2, ClearFields
<1>3. ASSUME NEW p \in K \ M
      PROVE  again[p].text = items[p].text
  <2>1. ResponseOf(plan, items)[p] = items[p] BY <1>1 DEF ResponseOf
  <2>2. items[p] = [text |-> items[p].text, aliases |-> items[p].aliases, padded |-> items[p].padded]
    BY <1>1 DEF Items
  <2>3. again[p] = Clear(items[p].text, items[p].aliases)
    <3>1. again[p] = Cleared(items[p]) BY <1>1, <2>1
    <3>2. Cleared([text |-> items[p].text, aliases |-> items[p].aliases, padded |-> items[p].padded])
            = Clear(items[p].text, items[p].aliases)
      BY ClearedItem
    <3> QED BY <2>2, <3>1, <3>2, Zenon
  <2> QED BY <2>3, ClearFields
<1>4. Shown(plan, again) = K
  <2>1. \A p \in M : Legible(plan, p, Alias) BY DEF Legible
  <2>2. \A p \in K \ M : Legible(plan, p, items[p].text) BY DEF Shown
  <2>3. \A p \in K : Legible(plan, p, again[p].text)
    <3> HIDE DEF K, M
    <3> QED BY <1>2, <1>3, <2>1, <2>2
  <2> HIDE DEF K
  <2> QED BY <1>1, <2>3 DEF Shown
<1>5. Masked(plan, again) = M
  <2>1. \A p \in M : again[p].text = Alias BY <1>2
  <2>2. \A p \in K \ M : again[p].text = items[p].text BY <1>3
  <2>3. \A p \in M : Replaced(plan, p, items[p].text) BY DEF Masked
  <2>4. \A p \in M : Replaced(plan, p, Alias) BY <2>3 DEF Replaced
  <2>5. \A p \in K \ M : ~ Replaced(plan, p, items[p].text) BY DEF Masked
  <2> HIDE DEF K, M
  <2> QED BY <1>1, <1>4, <2>1, <2>2, <2>4, <2>5 DEF Masked
<1>6. /\ seen \in Seq(Address)
      /\ \A p \in M : /\ Named(items[p]) \in Seq(Address)
                      /\ \A i \in DOMAIN Named(items[p]) :
                           \E j \in DOMAIN seen : seen[j] = Named(items[p])[i]
  <2>1. \A p \in M : Named(items[p]) \in Seq(Address) BY DEF Items
  <2>2. /\ seen \in Seq(Address)
        /\ \A p \in M : \A i \in DOMAIN Named(items[p]) : \E j \in DOMAIN seen : seen[j] = Named(items[p])[i]
    BY SeenAll
  <2> HIDE DEF M, seen
  <2> QED BY <2>1, <2>2
<1>7. \A p \in M : Named(again[p]) = Aliased(plan, items, p)
  BY <1>2 DEF Named
<1>8. SeenIn(plan, again) = [j \in DOMAIN seen |-> AliasOf(seen, seen[j])]
  <2> DEFINE n == Len(Sorted[M])
             lists == NamedIn(plan, items)
             T == {AliasOf(seen, a) : a \in Address}
             h == [a \in Address |-> AliasOf(seen, a)]
  <2>1. /\ n \in Nat /\ DOMAIN Sorted[M] = 1..n
        /\ \A i \in 1..n : Sorted[M][i] \in M
        /\ lists \in [1..n -> Seq(Address)]
    BY NamedLists
  <2>2. \A i \in 1..n : lists[i] = Named(items[Sorted[M][i]]) BY <2>1 DEF NamedIn
  <2>3. NamedIn(plan, again) = [i \in 1..n |-> Named(again[Sorted[M][i]])]
    BY <1>5, <2>1 DEF NamedIn
  <2> HIDE DEF n, lists
  <2>4. ASSUME NEW i \in 1..n
        PROVE  Named(again[Sorted[M][i]]) = MapOver(h, lists[i])
    <3> DEFINE p == Sorted[M][i]
               raw == Named(items[p])
    <3>1. p \in M /\ lists[i] = raw BY <2>1, <2>2
    <3>2. Named(again[p]) = [k \in DOMAIN raw |-> AliasOf(seen, raw[k])]
      BY <1>7, <3>1 DEF Aliased
    <3>3. raw \in Seq(Address) BY <2>1, <3>1
    <3> HIDE DEF raw, p, seen
    <3>4. \A k \in DOMAIN raw : raw[k] \in Address BY <3>3
    <3>5. \A k \in DOMAIN raw : h[raw[k]] = AliasOf(seen, raw[k]) BY <3>4
    <3> HIDE DEF h
    <3> QED BY <3>1, <3>2, <3>5 DEF p, MapOver
  <2> HIDE DEF M
  <2>5. NamedIn(plan, again) = MapEach(h, lists, n)
    <3> HIDE DEF h
    <3> QED BY <2>3, <2>4 DEF MapEach
  <2>6. h \in [Address -> T] OBVIOUS
  <2>7. Seqs!FlattenSeq(MapEach(h, lists, n)) = MapOver(h, Seqs!FlattenSeq(lists))
    <3>1. n \in Nat /\ lists \in [1..n -> Seq(Address)] BY <2>1
    <3> HIDE DEF h, T
    <3> QED BY <2>6, <3>1, FlattenMapped, Zenon
  <2>8. Seqs!FlattenSeq(lists) = seen BY DEF SeenIn, lists
  <2>9. \A j \in DOMAIN seen : h[seen[j]] = AliasOf(seen, seen[j])
    <3> HIDE DEF seen
    <3>1. \A j \in DOMAIN seen : seen[j] \in Address BY <1>6
    <3> QED BY <3>1
  <2> HIDE DEF h, seen
  <2>10. SeenIn(plan, again) = MapOver(h, seen) BY <2>5, <2>7, <2>8 DEF SeenIn
  <2> QED BY <2>9, <2>10 DEF MapOver
<1>9. \A p \in M : Aliased(plan, again, p) = Aliased(plan, items, p)
  <2> SUFFICES ASSUME NEW p \in M PROVE Aliased(plan, again, p) = Aliased(plan, items, p)
    OBVIOUS
  <2> DEFINE more == SeenIn(plan, again)
             raw == Named(items[p])
  <2>1. Aliased(plan, items, p) = [i \in DOMAIN raw |-> AliasOf(seen, raw[i])] BY DEF Aliased
  <2>2. Named(again[p]) = [i \in DOMAIN raw |-> AliasOf(seen, raw[i])] BY <1>7, <2>1
  <2>3. Aliased(plan, again, p) = [i \in DOMAIN Named(again[p]) |-> AliasOf(more, Named(again[p])[i])]
    BY DEF Aliased
  <2>4. \A i \in DOMAIN raw : AliasOf(more, AliasOf(seen, raw[i])) = AliasOf(seen, raw[i])
    <3> SUFFICES ASSUME NEW i \in DOMAIN raw
                 PROVE  AliasOf(more, AliasOf(seen, raw[i])) = AliasOf(seen, raw[i])
      OBVIOUS
    <3>1. PICK j \in DOMAIN seen : seen[j] = raw[i] BY <1>6
    <3> HIDE DEF more, seen
    <3>2. AliasOf(more, AliasOf(seen, seen[j])) = AliasOf(seen, seen[j])
      BY <1>6, <1>8, AliasAgain DEF more
    <3> QED BY <3>1, <3>2
  <2> HIDE DEF more, seen, raw
  <2>5. DOMAIN Named(again[p]) = DOMAIN raw BY <2>2
  <2>6. \A i \in DOMAIN raw : Named(again[p])[i] = AliasOf(seen, raw[i]) BY <2>2
  <2>7. Aliased(plan, again, p) = [i \in DOMAIN raw |-> AliasOf(more, Named(again[p])[i])]
    BY <2>3, <2>5
  <2> QED BY <2>1, <2>4, <2>6, <2>7
<1>10. \A p \in K : ResponseOf(plan, again)[p] = again[p]
  <2> SUFFICES ASSUME NEW p \in K PROVE ResponseOf(plan, again)[p] = again[p] OBVIOUS
  <2>1. ResponseOf(plan, again)[p] =
          IF p \in M THEN Clear(Alias, Aliased(plan, again, p)) ELSE again[p]
    <3> HIDE DEF K, M
    <3> QED BY <1>4, <1>5 DEF ResponseOf
  <2> HIDE DEF K, M
  <2> QED BY <1>2, <1>9, <2>1, Zenon
<1>11. ResponseOf(plan, again) = [p \in K |-> ResponseOf(plan, again)[p]]
  <2> HIDE DEF K
  <2> QED BY <1>4 DEF ResponseOf
<1>12. again = [p \in K |-> again[p]] OBVIOUS
<1> HIDE DEF K, M
<1>13. ResponseOf(plan, again) = again BY <1>10, <1>11, <1>12, Zenon
<1> QED BY <1>4, <1>5, <1>13 DEF K, M
----------------------------------------------------------------------------
(* Evidence is accepted by its own verifier.                               *)

\* A parameter as it is received; a carriage return is all that clearing it takes away.
Parameter(text, padded) == [text |-> text, aliases |-> <<>>, padded |-> padded]

\* What a parameter says.
LEMMA ParameterFields ==
  ASSUME NEW text, NEW padded
  PROVE  LET item == Parameter(text, padded)
         IN /\ item.text = text /\ item.padded = padded
            /\ item = [text |-> item.text, aliases |-> item.aliases, padded |-> item.padded]
BY DEF Parameter

\* Clearing changes a parameter exactly if a carriage return ends it.
LEMMA ClearedParameter ==
  ASSUME NEW text, NEW padded \in BOOLEAN
  PROVE  Cleared(Parameter(text, padded)) = Parameter(text, padded) <=> ~ padded
<1>1. Cleared(Parameter(text, padded)) = Clear(text, <<>>) BY ClearedItem, Zenon DEF Parameter
<1>2. CASE padded
  <2>1. padded = TRUE BY <1>2, Zenon
  <2>2. \A b : Parameter(text, b).padded = b BY ParameterFields
  <2>4. Clear(text, <<>>) = Parameter(text, FALSE) BY Zenon DEF Clear, Parameter
  <2>5. Parameter(text, FALSE) # Parameter(text, TRUE)
    <3>1. Parameter(text, FALSE).padded = FALSE BY <2>2, Zenon
    <3>2. Parameter(text, TRUE).padded = TRUE BY <2>2, Zenon
    <3> QED BY <3>1, <3>2, Zenon
  <2> QED BY <1>1, <1>2, <2>1, <2>4, <2>5, Zenon
<1>3. CASE ~ padded
  <2>1. padded = FALSE BY <1>3, Zenon
  <2> QED BY <1>1, <1>3, <2>1, Zenon DEF Clear, Parameter
<1> QED BY <1>2, <1>3

\* The answers an operation can be ended by, and what is captured of them.
AnsweredBy(ask, r) ==
  /\ ask \in Ask /\ AsksReviewed(ask) /\ r \in Answers /\ r.kind \in {"fault", ask.kind}
  /\ Reason(ask, r) # "unexpected_parameters"
ItemsOf(ask, cpe, r, padded) == Projected(PlanOf(ask, cpe), Received(r.content, padded))

\* The plan of a read is what it asks, of the CPE.
LEMMA PlanFields ==
  ASSUME NEW ask, NEW cpe
  PROVE  LET plan == PlanOf(ask, cpe)
         IN /\ plan.target = cpe /\ plan.kind = ask.kind /\ plan.path = ask.path
            /\ plan.names = IF ask.path # NoPath THEN ask.names ELSE PlanNames(ask)
BY DEF PlanOf

\* What is captured of an answer: its approved parameters, with their texts.
LEMMA ItemsReceived ==
  ASSUME NEW ask, NEW r, NEW cpe, NEW padded, AnsweredBy(ask, r)
  PROVE  LET plan == PlanOf(ask, cpe)
             items == ItemsOf(ask, cpe, r, padded)
         IN /\ DOMAIN items = Approved(plan, r.content)
            /\ DOMAIN items \subseteq DOMAIN r.content /\ DOMAIN r.content \subseteq Path
            /\ \A p \in DOMAIN items : items[p] = Parameter(r.content[p], p \in padded)
            /\ \A p \in DOMAIN items : items[p].text = r.content[p] /\ r.content[p] # Alias
            /\ Items(plan, items)
<1> DEFINE plan == PlanOf(ask, cpe)
           received == Received(r.content, padded)
           items == ItemsOf(ask, cpe, r, padded)
<1>1. /\ r.content \in Said(Path \cap DOMAIN r.content)
      /\ DOMAIN r.content \subseteq Path
      /\ \A p \in DOMAIN r.content : r.content[p] \in Value \cup {Listed, Untyped, Unsafe, NoValue}
  <2>1. r.content \in Said(Path \cap DOMAIN r.content) BY InputAssumption DEF AnsweredBy
  <2>2. r.content \in [Path \cap DOMAIN r.content -> Value \cup {Listed, Untyped, Unsafe, NoValue}]
    BY <2>1 DEF Said
  <2> QED BY <2>1, <2>2
<1>2. \A p \in DOMAIN r.content : r.content[p] # Alias
  BY <1>1, DisclosureAssumption DEF Alias, Listed, Untyped, Unsafe, NoValue
<1>3. DOMAIN received = DOMAIN r.content
  BY Zenon DEF Received
<1>4. DOMAIN items = Approved(plan, r.content) /\ DOMAIN items \subseteq DOMAIN r.content
  <2>1. DOMAIN items = Approved(plan, received) BY Zenon DEF ItemsOf, Projected
  <2>2. Approved(plan, received) = Approved(plan, r.content) BY <1>3, Zenon DEF Approved
  <2> HIDE DEF items
  <2> QED BY <2>1, <2>2 DEF Approved
<1>5. \A p \in DOMAIN items : items[p] = Parameter(r.content[p], p \in padded)
  <2> SUFFICES ASSUME NEW p \in DOMAIN items
               PROVE  items[p] = Parameter(r.content[p], p \in padded)
    OBVIOUS
  <2>1. p \in Approved(plan, received) /\ items[p] = received[p]
    BY Zenon DEF ItemsOf, Projected
  <2>2. p \in DOMAIN r.content BY <1>4
  <2>3. received[p] = Parameter(r.content[p], p \in padded)
    BY <2>2, Zenon DEF Received, Parameter
  <2> QED BY <2>1, <2>3, Zenon
<1> HIDE DEF items
<1>7. \A p \in DOMAIN items :
        /\ items[p].text = r.content[p]
        /\ items[p] = [text |-> items[p].text, aliases |-> items[p].aliases, padded |-> items[p].padded]
  <2> SUFFICES ASSUME NEW p \in DOMAIN items, NEW item, item = items[p]
               PROVE  item.text = r.content[p]
                      /\ item = [text |-> item.text, aliases |-> item.aliases, padded |-> item.padded]
    OBVIOUS
  <2>1. PICK b : item = Parameter(r.content[p], b) BY <1>5, Zenon
  <2> QED BY <2>1, ParameterFields
<1>8. \A p \in Masked(plan, items) : Named(items[p]) \in Seq(Address)
  <2> SUFFICES ASSUME NEW p \in Masked(plan, items) PROVE Named(items[p]) \in Seq(Address)
    OBVIOUS
  <2>1. p \in DOMAIN items /\ Replaced(plan, p, items[p].text) BY DEF Masked, Shown
  <2>2. items[p].text # Alias BY <1>2, <1>4, <1>7, <2>1
  <2>3. items[p].text \in Value BY <2>1, <2>2 DEF Replaced
  <2> QED BY <2>2, <2>3, DisclosureAssumption DEF Named
<1>9. Items(plan, items) BY <1>1, <1>4, <1>7, <1>8 DEF Items
<1> QED BY <1>1, <1>2, <1>4, <1>5, <1>7, <1>9 DEF items, plan

\* A bundle, by its parts.
Bundle(plan, kind, response, at, count, omitted, substituted) ==
  [made |-> TRUE, plan |-> plan, kind |-> kind, at |-> at, count |-> count,
   response |-> response, omitted |-> omitted, substituted |-> substituted]

\* What a bundle says.
LEMMA BundleFields ==
  ASSUME NEW plan, NEW kind, NEW response, NEW at, NEW count, NEW omitted, NEW substituted
  PROVE  LET bundle == Bundle(plan, kind, response, at, count, omitted, substituted)
         IN /\ bundle.made /\ bundle.plan = plan /\ bundle.kind = kind /\ bundle.at = at
            /\ bundle.count = count /\ bundle.response = response /\ bundle.substituted = substituted
<1>1. \A b : LET bundle == [made |-> b, plan |-> plan, kind |-> kind, at |-> at, count |-> count,
                            response |-> response, omitted |-> omitted, substituted |-> substituted]
             IN /\ bundle.made = b /\ bundle.plan = plan /\ bundle.kind = kind /\ bundle.at = at
                /\ bundle.count = count /\ bundle.response = response
                /\ bundle.substituted = substituted
  OBVIOUS
<1>2. LET bundle == Bundle(plan, kind, response, at, count, omitted, substituted)
      IN /\ bundle.made = TRUE /\ bundle.plan = plan /\ bundle.kind = kind /\ bundle.at = at
         /\ bundle.count = count /\ bundle.response = response /\ bundle.substituted = substituted
  BY <1>1, Zenon DEF Bundle
<1> QED BY <1>2, Zenon

\* Build makes a bundle of those parts.
LEMMA BuildBundle ==
  ASSUME NEW plan, NEW kind, NEW items, NEW sent, NEW at, NEW count
  PROVE  Build(plan, kind, items, sent, at, count) =
           Bundle(plan, kind, ResponseOf(plan, items), at, count,
                  IF kind = "values" THEN plan.names \ Shown(plan, items) ELSE {},
                  Masked(plan, items))
BY BuildParts, Zenon DEF Bundle

\* What a response says of a parameter is what was received, or its aliases.
LEMMA ResponseItems ==
  ASSUME NEW ask, NEW r, NEW cpe, NEW padded, AnsweredBy(ask, r)
  PROVE  LET plan == PlanOf(ask, cpe)
             items == ItemsOf(ask, cpe, r, padded)
             response == ResponseOf(plan, items)
         IN /\ DOMAIN response = Shown(plan, items)
            /\ Masked(plan, items) \subseteq Shown(plan, items)
            /\ Shown(plan, items) \subseteq DOMAIN items
            /\ \A p \in Masked(plan, items) : response[p] = Clear(Alias, Aliased(plan, items, p))
            /\ \A p \in Shown(plan, items) \ Masked(plan, items) :
                 response[p] = Parameter(r.content[p], p \in padded)
<1> DEFINE plan == PlanOf(ask, cpe)
           items == ItemsOf(ask, cpe, r, padded)
           response == ResponseOf(plan, items)
<1>1. \A p \in DOMAIN items : items[p] = Parameter(r.content[p], p \in padded) BY ItemsReceived
<1> HIDE DEF items, plan
<1>2. DOMAIN response = Shown(plan, items) BY DEF ResponseOf
<1>3. Masked(plan, items) \subseteq Shown(plan, items) BY DEF Masked
<1>4. Shown(plan, items) \subseteq DOMAIN items BY DEF Shown
<1>5. \A p \in Masked(plan, items) : response[p] = Clear(Alias, Aliased(plan, items, p))
  BY <1>3 DEF ResponseOf
<1>6. \A p \in Shown(plan, items) \ Masked(plan, items) : response[p] = items[p]
  BY DEF ResponseOf
<1>7. \A p \in Shown(plan, items) \ Masked(plan, items) :
        response[p] = Parameter(r.content[p], p \in padded)
  BY <1>1, <1>4, <1>6, Zenon
<1> QED BY <1>2, <1>3, <1>4, <1>5, <1>7, Zenon DEF items, plan

\* Reading the XML of a response changes it exactly if a text of it ended with a carriage return.
LEMMA ClearedResponse ==
  ASSUME NEW ask, NEW r, NEW cpe, NEW padded, AnsweredBy(ask, r)
  PROVE  LET response == ResponseOf(PlanOf(ask, cpe), ItemsOf(ask, cpe, r, padded))
         IN response = [p \in DOMAIN response |-> Cleared(response[p])]
              <=> \A p \in DOMAIN response : ~ response[p].padded
<1> DEFINE plan == PlanOf(ask, cpe)
           items == ItemsOf(ask, cpe, r, padded)
           response == ResponseOf(plan, items)
           K == Shown(plan, items)
           M == Masked(plan, items)
<1>1. /\ DOMAIN response = K /\ M \subseteq K
      /\ \A p \in M : response[p] = Clear(Alias, Aliased(plan, items, p))
      /\ \A p \in K \ M : response[p] = Parameter(r.content[p], p \in padded)
  BY ResponseItems
<1>2. response = [p \in K |-> response[p]] BY <1>1, Zenon DEF ResponseOf
<1> HIDE DEF response, K, M, items, plan
<1>3. ASSUME NEW p \in K PROVE Cleared(response[p]) = response[p] <=> ~ response[p].padded
  <2>1. CASE p \in M
    <3> DEFINE aliases == Aliased(plan, items, p)
    <3>1. response[p] = Clear(Alias, aliases) BY <1>1, <2>1
    <3> HIDE DEF aliases
    <3>2. Cleared(Clear(Alias, aliases)) = Clear(Alias, aliases) BY ClearedItem, Zenon DEF Clear
    <3>3. \A b : [text |-> Alias, aliases |-> aliases, padded |-> b].padded = b OBVIOUS
    <3>4. Clear(Alias, aliases).padded = FALSE BY <3>3, Zenon DEF Clear
    <3> QED BY <3>1, <3>2, <3>4, Zenon
  <2>2. CASE p \notin M
    <3>1. PICK b \in BOOLEAN : response[p] = Parameter(r.content[p], b)
      <4>1. response[p] = Parameter(r.content[p], p \in padded) BY <1>1, <2>2
      <4>2. CASE p \in padded
        <5>1. (p \in padded) = TRUE BY <4>2, Zenon
        <5> QED BY <4>1, <5>1, Zenon
      <4>3. CASE p \notin padded
        <5>1. (p \in padded) = FALSE BY <4>3
        <5> QED BY <4>1, <5>1, Zenon
      <4> QED BY <4>2, <4>3
    <3>2. Cleared(Parameter(r.content[p], b)) = Parameter(r.content[p], b) <=> ~ b
      BY ClearedParameter
    <3>3. Parameter(r.content[p], b).padded = b BY ParameterFields
    <3> QED BY <3>1, <3>2, <3>3, Zenon
  <2> QED BY <2>1, <2>2
<1>4. response = [p \in K |-> Cleared(response[p])] <=> \A p \in K : Cleared(response[p]) = response[p]
  <2>1. ASSUME response = [p \in K |-> Cleared(response[p])], NEW p \in K
        PROVE  Cleared(response[p]) = response[p]
    BY <2>1, Zenon
  <2>2. ASSUME \A p \in K : Cleared(response[p]) = response[p]
        PROVE  response = [p \in K |-> Cleared(response[p])]
    BY <1>2, <2>2
  <2> QED BY <2>1, <2>2
<1> QED BY <1>1, <1>3, <1>4, Zenon DEF response, items, plan

\* The plan of an operation can be made again, and the response is of what it asked for.
LEMMA PlanAgain ==
  ASSUME NEW ask, NEW r, NEW cpe \in Reviewed, NEW padded, AnsweredBy(ask, r)
  PROVE  LET plan == PlanOf(ask, cpe)
             K == Shown(plan, ItemsOf(ask, cpe, r, padded))
             count == Cardinality(DOMAIN r.content)
         IN /\ Replanned(plan) /\ r.kind \in {plan.kind, "fault"}
            /\ Cardinality(K) <= count
            /\ r.kind = "values" => count = Cardinality(plan.names) /\ K \subseteq plan.names
            /\ r.kind = "names" => \A p \in K : Parent[p] = PlanPath(plan)
<1> DEFINE plan == PlanOf(ask, cpe)
           items == ItemsOf(ask, cpe, r, padded)
           K == Shown(plan, items)
<1>1. /\ plan.target = cpe /\ plan.kind = ask.kind /\ plan.path = ask.path
      /\ plan.names = IF ask.path # NoPath THEN ask.names ELSE PlanNames(ask)
  BY PlanFields
<1>2. DOMAIN items \subseteq DOMAIN r.content /\ DOMAIN r.content \subseteq Path BY ItemsReceived
<1>3. /\ ask.kind \in {"names", "values"} /\ AsksReviewed(ask) /\ r.kind \in {"fault", ask.kind}
      /\ ask.names \subseteq Path /\ Reason(ask, r) # "unexpected_parameters"
  BY DEF AnsweredBy, Ask
<1> HIDE DEF plan, items
<1>4. K \subseteq DOMAIN r.content BY <1>2 DEF Shown
<1>5. Replanned(plan)
  <2>1. CASE ask.path = NoPath
    <3>1. PlanNames(ask) \subseteq Readable BY <1>3, <2>1 DEF AsksReviewed, PlanNames
    <3> QED BY <1>1, <2>1, <3>1 DEF Replanned
  <2>2. CASE ask.path # NoPath /\ ask.kind = "names"
    <3>1. ask.path \in Concrete \cap Object BY <1>3, <2>2 DEF AsksReviewed
    <3> QED BY <1>1, <2>2, <3>1 DEF Replanned
  <2>3. CASE ask.path # NoPath /\ ask.kind = "values"
    <3>1. Selectable(ask.path, ask.names) /\ ask.names \subseteq Selected(ask.path, Path)
      BY <1>3, <2>3 DEF AsksReviewed, Telemetric
    <3>2. Selected(ask.path, ask.names) = ask.names BY <3>1 DEF Selected
    <3> QED BY <1>1, <2>3, <3>1, <3>2 DEF Replanned
  <2> QED BY <1>3, <2>1, <2>2, <2>3
<1>6. Cardinality(K) <= Cardinality(DOMAIN r.content)
  <2>1. IsFiniteSet(DOMAIN r.content) BY <1>2, PathAssumption, FS_Subset
  <2> HIDE DEF K
  <2> QED BY <1>4, <2>1, FS_Subset
<1>7. r.kind = "values" => DOMAIN r.content = plan.names
  <2> SUFFICES ASSUME r.kind = "values" PROVE DOMAIN r.content = plan.names OBVIOUS
  <2>1. DOMAIN r.content = PlanNames(ask) BY <1>3 DEF Reason
  <2>2. ask.path # NoPath => ask.names # {}
    BY <1>3 DEF AsksReviewed, Telemetric, Selectable
  <2> QED BY <1>1, <2>1, <2>2 DEF PlanNames
<1>8. ASSUME r.kind = "names" PROVE \A p \in K : Parent[p] = PlanPath(plan)
  <2>1. \A p \in DOMAIN r.content : Listable(ask, p) BY <1>3, <1>8 DEF Reason
  <2>2. PlanPath(plan) = PlanPath(ask) BY <1>1 DEF PlanPath
  <2> HIDE DEF K
  <2> QED BY <1>4, <2>1, <2>2 DEF Listable
<1>9. r.kind \in {plan.kind, "fault"} BY <1>1, <1>3
<1> HIDE DEF K
<1> QED BY <1>4, <1>5, <1>6, <1>7, <1>8, <1>9 DEF plan, items, K

\* The bundle of an answer is verified exactly if no text of it ends with a carriage return.
LEMMA BundleVerified ==
  ASSUME NEW ask, NEW r, NEW cpe \in Reviewed, NEW padded, NEW sent, NEW at, AnsweredBy(ask, r)
  PROVE  LET bundle == Build(PlanOf(ask, cpe), r.kind, ItemsOf(ask, cpe, r, padded), sent, at,
                             Cardinality(DOMAIN r.content))
         IN Verified(bundle) <=> \A p \in DOMAIN bundle.response : ~ bundle.response[p].padded
<1> DEFINE plan == PlanOf(ask, cpe)
           items == ItemsOf(ask, cpe, r, padded)
           count == Cardinality(DOMAIN r.content)
           K == Shown(plan, items)
           M == Masked(plan, items)
           response == ResponseOf(plan, items)
           omitted == IF r.kind = "values" THEN plan.names \ K ELSE {}
           bundle == Build(plan, r.kind, items, sent, at, count)
           again == [p \in K |-> Cleared(response[p])]
<1>1. bundle = Bundle(plan, r.kind, response, at, count, omitted, M) BY BuildBundle
<1>2. /\ bundle.plan = plan /\ bundle.kind = r.kind /\ bundle.at = at
      /\ bundle.count = count /\ bundle.response = response
  BY <1>1, BundleFields
<1>3. DOMAIN response = K /\ K \subseteq DOMAIN items BY ResponseItems
<1>4. Items(plan, items) /\ DOMAIN items = Approved(plan, r.content) BY ItemsReceived
<1>5. /\ Shown(plan, again) = K /\ Masked(plan, again) = M /\ ResponseOf(plan, again) = again
  BY <1>4, Renumbered
<1>6. [p \in DOMAIN bundle.response |-> [bundle.response[p] EXCEPT !.padded = FALSE]] = again
  <2> HIDE DEF bundle, response, K
  <2> QED BY <1>2, <1>3, Zenon DEF Cleared
<1>7. Projected(plan, again) = again
  <2>1. \A p \in K : p \in Approved(plan, r.content) BY <1>3, <1>4
  <2> HIDE DEF K, response, plan
  <2>2. DOMAIN again = K OBVIOUS
  <2> HIDE DEF again
  <2>3. Approved(plan, again) = K BY <2>1, <2>2, Zenon DEF Approved
  <2>4. Projected(plan, again) = [p \in K |-> again[p]] BY <2>3, Zenon DEF Projected
  <2> QED BY <2>4 DEF again
<1>8. \A order : Build(plan, r.kind, Projected(plan, again), order, at, count)
                   = Bundle(plan, r.kind, again, at, count, omitted, M)
  <2> HIDE DEF again, response, K, M, plan, items
  <2>1. \A order : Build(plan, r.kind, again, order, at, count)
                     = Bundle(plan, r.kind, ResponseOf(plan, again), at, count,
                         IF r.kind = "values" THEN plan.names \ Shown(plan, again) ELSE {},
                         Masked(plan, again))
    BY BuildBundle
  <2> QED BY <1>5, <1>7, <2>1, Zenon
<1>9. bundle = Bundle(plan, r.kind, again, at, count, omitted, M) <=> response = again
  <2> HIDE DEF again, response, K, M, plan, items, omitted, count, bundle
  <2>1. Bundle(plan, r.kind, again, at, count, omitted, M).response = again BY BundleFields
  <2> QED BY <1>1, <1>2, <2>1, Zenon
<1>10. response = again <=> \A p \in DOMAIN response : ~ response[p].padded
  <2>1. response = [p \in DOMAIN response |-> Cleared(response[p])]
          <=> \A p \in DOMAIN response : ~ response[p].padded
    BY ClearedResponse
  <2> HIDE DEF response, K
  <2> QED BY <1>3, <2>1, Zenon
<1>11. /\ Replanned(plan) /\ r.kind \in {plan.kind, "fault"} /\ Cardinality(K) <= count
       /\ r.kind = "values" => count = Cardinality(plan.names) /\ K \subseteq plan.names
       /\ r.kind = "names" => \A p \in K : Parent[p] = PlanPath(plan)
  BY PlanAgain
<1>12. DOMAIN again = K OBVIOUS
<1>13. Verified(bundle) <=>
        bundle = Build(plan, r.kind, Projected(plan, again), Sorted[DOMAIN again], at, count)
  <2> HIDE DEF again, response, K, M, plan, items, omitted, count, bundle
  <2> QED BY <1>2, <1>6, <1>11, <1>12, Zenon DEF Verified
<1> HIDE DEF again, response, K, M, plan, items, omitted, count, bundle
<1>14. Verified(bundle) <=> \A p \in DOMAIN bundle.response : ~ bundle.response[p].padded
  BY <1>2, <1>8, <1>9, <1>10, <1>13, Zenon
<1> QED BY <1>14 DEF bundle, plan, items, count

\* No bundle is recorded of an operation that owes none, and that of another is of an answer.
LEMMA RecordedBundle ==
  ASSUME TypeOK, Planned(db), EvidenceInvariant, NEW o \in OpId
  PROVE  LET op == db.ops[o]
         IN /\ ~ Owed(op) => evidence[o].bundle = NoBundle
            /\ Owed(op) =>
                 \E r \in Answers, cpe \in Reviewed : \E padded, sent :
                   /\ AnsweredBy(op.ask, r) /\ EndedBy(op, r)
                   /\ evidence[o].bundle =
                        Build(PlanOf(op.ask, cpe), r.kind, ItemsOf(op.ask, cpe, r, padded), sent,
                              op.finished, Cardinality(DOMAIN r.content))
<1> DEFINE op == db.ops[o]
<1>1. op.ask \in Ask /\ AsksReviewed(op.ask)
  BY RowTypes DEF TypeOK, Planned, Operation
<1>2. Recorded(op, evidence[o].bundle) BY DEF EvidenceInvariant
<1> HIDE DEF op
<1>3. ASSUME Owed(op)
      PROVE  \E r \in Answers, cpe \in Reviewed : \E padded, sent :
               /\ AnsweredBy(op.ask, r) /\ EndedBy(op, r)
               /\ evidence[o].bundle =
                    Build(PlanOf(op.ask, cpe), r.kind, ItemsOf(op.ask, cpe, r, padded), sent,
                          op.finished, Cardinality(DOMAIN r.content))
  <2>0. PICK r \in Answers, cpe \in Reviewed : \E padded, sent :
          EndedBy(op, r) /\ evidence[o].bundle = Bundled(op, r, cpe, padded, sent)
    BY <1>2, <1>3, Zenon DEF Recorded, Captured
  <2>1. PICK padded, sent :
          EndedBy(op, r) /\ evidence[o].bundle = Bundled(op, r, cpe, padded, sent)
    BY <2>0
  <2>2. op.reason # "unexpected_parameters" BY <1>3 DEF Owed
  <2>3. AnsweredBy(op.ask, r)
    BY <1>1, <2>1, <2>2 DEF AnsweredBy, EndedBy
  <2>4. evidence[o].bundle =
          Build(PlanOf(op.ask, cpe), r.kind, ItemsOf(op.ask, cpe, r, padded), sent,
                op.finished, Cardinality(DOMAIN r.content))
    BY <2>1, Zenon DEF Bundled, ItemsOf
  <2> QED BY <2>1, <2>3, <2>4, Zenon
<1>4. ~ Owed(op) => evidence[o].bundle = NoBundle BY <1>2, Zenon DEF Recorded
<1> QED BY <1>3, <1>4, Zenon DEF op

\* No evidence is no bundle.
LEMMA NothingMade == ~ NoBundle.made
<1>1. \A b : [made |-> b].made = b OBVIOUS
<1>2. NoBundle.made = FALSE BY <1>1, Zenon DEF NoBundle
<1> QED BY <1>2, Zenon

\* What the server stores as evidence its own verifier accepts, for any names, addresses and
\* answers, in whatever order they come: only a carriage return that ends a text is refused.
THEOREM EvidenceVerifiesCorrect == DisclosureSpec => []EvidenceVerifies
<1>1. TypeOK /\ Planned(db) /\ EvidenceInvariant => EvidenceVerifies
  <2> SUFFICES ASSUME TypeOK, Planned(db), EvidenceInvariant, NEW o \in OpId,
                      evidence[o].bundle.made
               PROVE  LET bundle == evidence[o].bundle
                      IN Verified(bundle) <=>
                           \A p \in DOMAIN bundle.response : ~ bundle.response[p].padded
    BY DEF EvidenceVerifies
  <2> DEFINE op == db.ops[o]
  <2>1. Owed(op) BY RecordedBundle, NothingMade, Zenon
  <2>2. PICK r \in Answers, cpe \in Reviewed : \E padded, sent :
          /\ AnsweredBy(op.ask, r)
          /\ evidence[o].bundle =
               Build(PlanOf(op.ask, cpe), r.kind, ItemsOf(op.ask, cpe, r, padded), sent,
                     op.finished, Cardinality(DOMAIN r.content))
    BY <2>1, RecordedBundle, Zenon
  <2>3. PICK padded, sent :
          /\ AnsweredBy(op.ask, r)
          /\ evidence[o].bundle =
               Build(PlanOf(op.ask, cpe), r.kind, ItemsOf(op.ask, cpe, r, padded), sent,
                     op.finished, Cardinality(DOMAIN r.content))
    BY <2>2
  <2> HIDE DEF op
  <2> QED BY <2>3, BundleVerified, Zenon
<1> QED BY <1>1, EvidenceKept, DisclosureIsQueue, TypeCorrect, SourcedCorrect, PTL DEF Sourced

----------------------------------------------------------------------------
(* Evidence says what the result says.                                     *)

\* The leaves of a result a bundle may say otherwise of.
Unread(ask, result) == {p \in DOMAIN result : Optical(ask, p) /\ result[p] = NoValue}

\* A response, up to the aliases, and the result agree.
Agrees(ask, r, K, M, result) ==
  /\ Reason(ask, r) = "none" => K = DOMAIN result \ Unread(ask, result)
  /\ \A p \in (K \cap DOMAIN result) \ (M \cup Unread(ask, result)) : r.content[p] = result[p]
  /\ \A p \in M \cap DOMAIN result : result[p] = r.content[p]

\* What is shown and masked of an answer, by the texts it came with.
LEMMA ShownOf ==
  ASSUME NEW ask, NEW r, NEW cpe, NEW padded, AnsweredBy(ask, r)
  PROVE  LET plan == PlanOf(ask, cpe)
             items == ItemsOf(ask, cpe, r, padded)
         IN /\ Shown(plan, items) =
                 {p \in Approved(plan, r.content) : Legible(plan, p, r.content[p])}
            /\ Masked(plan, items) =
                 {p \in Shown(plan, items) : Replaced(plan, p, r.content[p])}
<1> DEFINE plan == PlanOf(ask, cpe)
           items == ItemsOf(ask, cpe, r, padded)
<1>1. DOMAIN items = Approved(plan, r.content) /\ \A p \in DOMAIN items : items[p].text = r.content[p]
  BY ItemsReceived
<1> HIDE DEF items, plan
<1> QED BY <1>1 DEF Shown, Masked, items, plan

\* A discovery: the approved names it lists.
LEMMA NamesAgree ==
  ASSUME NEW ask, NEW r, NEW cpe, NEW padded, AnsweredBy(ask, r), r.kind = "names"
  PROVE  Agrees(ask, r, Shown(PlanOf(ask, cpe), ItemsOf(ask, cpe, r, padded)),
                Masked(PlanOf(ask, cpe), ItemsOf(ask, cpe, r, padded)), Result(ask, r))
<1> DEFINE plan == PlanOf(ask, cpe)
           items == ItemsOf(ask, cpe, r, padded)
           K == Shown(plan, items)
           M == Masked(plan, items)
           result == Result(ask, r)
           kept == IF ask.path = NoPath THEN Readable ELSE Retained
<1>1. /\ plan.kind = ask.kind /\ plan.path = ask.path
      /\ plan.names = IF ask.path # NoPath THEN ask.names ELSE PlanNames(ask)
  BY PlanFields
<1>2. ask.kind = "names" /\ ask.names = {} /\ Reason(ask, r) = "none"
  BY DEF AnsweredBy, AsksReviewed, Reason
<1>3. result = [p \in DOMAIN r.content \cap kept |-> Listed] BY <1>2 DEF Result
<1>4. /\ K = {p \in Approved(plan, r.content) : Legible(plan, p, r.content[p])}
      /\ M = {p \in K : Replaced(plan, p, r.content[p])}
  BY ShownOf
<1> HIDE DEF plan, items, K, M, result
<1>5. Approved(plan, r.content) = DOMAIN r.content \cap kept
  <2>1. ask.path = NoPath => plan.names = Readable BY <1>1, <1>2 DEF PlanNames
  <2> QED BY <1>1, <1>2, <2>1 DEF Approved
<1>6. K = DOMAIN r.content \cap kept BY <1>1, <1>2, <1>4, <1>5 DEF Legible
<1>7. M = {} BY <1>1, <1>2, <1>4 DEF Replaced
<1>8. Unread(ask, result) = {} BY <1>2 DEF Unread, Optical, Telemetric
<1>9. \A p \in DOMAIN r.content : r.content[p] = Listed BY DisclosureAssumption DEF AnsweredBy
<1>10. DOMAIN result = K /\ \A p \in K : result[p] = Listed BY <1>3, <1>6
<1>11. K \subseteq DOMAIN r.content BY <1>6
<1> HIDE DEF kept
<1>12. Agrees(ask, r, K, M, result) BY <1>7, <1>8, <1>9, <1>10, <1>11 DEF Agrees
<1> QED BY <1>12 DEF plan, items, K, M, result

\* A read of DeviceInfo: nothing of it is replaced, and what is left out failed it.
LEMMA ValuesAgree ==
  ASSUME NEW ask, NEW r, NEW cpe, NEW padded, AnsweredBy(ask, r), r.kind = "values",
         ask.path = NoPath
  PROVE  Agrees(ask, r, Shown(PlanOf(ask, cpe), ItemsOf(ask, cpe, r, padded)),
                Masked(PlanOf(ask, cpe), ItemsOf(ask, cpe, r, padded)), Result(ask, r))
<1> DEFINE plan == PlanOf(ask, cpe)
           items == ItemsOf(ask, cpe, r, padded)
           K == Shown(plan, items)
           M == Masked(plan, items)
           result == Result(ask, r)
<1>1. plan.kind = ask.kind /\ plan.path = NoPath BY PlanFields
<1>2. ask.kind = "values" /\ ~ Telemetric(ask) BY DEF AnsweredBy, Telemetric
<1>3. /\ K = {p \in Approved(plan, r.content) : Legible(plan, p, r.content[p])}
      /\ M = {p \in K : Replaced(plan, p, r.content[p])}
  BY ShownOf
<1>4. \A p \in DOMAIN r.content : r.content[p] # Alias
  <2>1. DOMAIN items = Approved(plan, r.content) /\ \A p \in DOMAIN items : r.content[p] # Alias
    BY ItemsReceived
  <2>2. Approved(plan, r.content) = DOMAIN r.content BY <1>1, <1>2 DEF Approved
  <2> QED BY <2>1, <2>2
<1>5. NoValue \notin Value BY ValueAssumption
<1> HIDE DEF plan, items, K, M, result
<1>6. K = {p \in DOMAIN r.content : r.content[p] \in Value \cup {NoValue}}
  <2>1. Approved(plan, r.content) = DOMAIN r.content BY <1>1, <1>2 DEF Approved
  <2>2. \A p \in DOMAIN r.content :
          Legible(plan, p, r.content[p]) <=> r.content[p] \in Value \cup {NoValue}
    BY <1>1, <1>2, <1>4 DEF Legible
  <2> QED BY <1>3, <2>1, <2>2
<1>7. M = {} BY <1>1, <1>3 DEF Replaced
<1>8. Unread(ask, result) = {} BY <1>2 DEF Unread, Optical
<1>9. Reason(ask, r) = "none" => \A p \in DOMAIN r.content : Storable(ask, r.content[p])
  BY <1>2 DEF Reason
<1>10. ASSUME FeedsInventory(ask, r) PROVE Agrees(ask, r, K, M, result)
  <2>1. result = [p \in Readable |-> IF r.content[p] \in Value THEN r.content[p] ELSE NoValue]
    BY <1>10 DEF Result, result, FeedsInventory
  <2>2. DOMAIN r.content = Readable /\ ask.names = {} BY <1>10 DEF FeedsInventory
  <2>3. Reason(ask, r) = "none" => \A p \in Readable : r.content[p] \in Value
    BY <1>9, <2>2 DEF Storable
  <2>4. DOMAIN result = Readable /\ \A p \in K : r.content[p] = result[p]
    BY <1>6, <2>1, <2>2
  <2>5. Reason(ask, r) = "none" => K = Readable BY <1>6, <2>2, <2>3
  <2> QED BY <1>7, <1>8, <2>4, <2>5 DEF Agrees
<1>11. ASSUME ~ FeedsInventory(ask, r) PROVE Agrees(ask, r, K, M, result)
  <2>1. result = IF Reason(ask, r) = "none" THEN r.content ELSE Nothing
    BY <1>2, <1>11 DEF Result, result, Measures
  <2>2. DOMAIN Nothing = {} BY DEF Nothing
  <2>3. Reason(ask, r) = "none" => K = DOMAIN r.content BY <1>6, <1>9 DEF Storable
  <2> QED BY <1>7, <1>8, <2>1, <2>2, <2>3 DEF Agrees
<1>12. Agrees(ask, r, K, M, result) BY <1>10, <1>11
<1> QED BY <1>12 DEF plan, items, K, M, result

\* A read of an interface: of an optical leaf, empty and out of range are told apart.
LEMMA TelemetryAgrees ==
  ASSUME NEW ask, NEW r, NEW cpe, NEW padded, AnsweredBy(ask, r), r.kind = "values",
         ask.path # NoPath
  PROVE  Agrees(ask, r, Shown(PlanOf(ask, cpe), ItemsOf(ask, cpe, r, padded)),
                Masked(PlanOf(ask, cpe), ItemsOf(ask, cpe, r, padded)), Result(ask, r))
<1> DEFINE plan == PlanOf(ask, cpe)
           items == ItemsOf(ask, cpe, r, padded)
           K == Shown(plan, items)
           M == Masked(plan, items)
           result == Result(ask, r)
<1>1. plan.kind = ask.kind /\ plan.path = ask.path BY PlanFields
<1>2. /\ ask.kind = "values" /\ Telemetric(ask) /\ DOMAIN r.content = PlanNames(ask)
      /\ Reason(ask, r) = TelemetryReason(r.content)
  BY DEF AnsweredBy, Telemetric, Reason
<1>3. /\ K = {p \in Approved(plan, r.content) : Legible(plan, p, r.content[p])}
      /\ M = {p \in K : Replaced(plan, p, r.content[p])}
  BY ShownOf
<1>4. \A p \in DOMAIN r.content : r.content[p] # Alias
  <2>1. DOMAIN items = Approved(plan, r.content) /\ \A p \in DOMAIN items : r.content[p] # Alias
    BY ItemsReceived
  <2>2. Approved(plan, r.content) = DOMAIN r.content BY <1>1, <1>2 DEF Approved
  <2> QED BY <2>1, <2>2
<1>5. NoValue \notin Value /\ Untyped \notin Value /\ Unsafe \notin Value BY ValueAssumption
<1> HIDE DEF plan, items, K, M, result
<1>6. \A p \in DOMAIN r.content :
        /\ p \in K <=> \/ r.content[p] \in Value
                       \/ r.content[p] = NoValue /\ OfWan(p)
                       \/ ~ OfWan(p) /\ (r.content[p] = Untyped
                                         \/ (r.content[p] = Unsafe /\ p \in OutOfRange))
        /\ p \in M => r.content[p] \in Value
  <2>1. Approved(plan, r.content) = DOMAIN r.content BY <1>1, <1>2 DEF Approved
  <2> QED BY <1>1, <1>2, <1>3, <1>4, <2>1 DEF Legible, Replaced
<1>7. K \subseteq DOMAIN r.content /\ M \subseteq K BY <1>3 DEF Approved
<1>8. ASSUME ~ Classified(r.content) PROVE Agrees(ask, r, K, M, result)
  <2>1. Reason(ask, r) = "not_internet_pppoe" BY <1>2, <1>8 DEF TelemetryReason
  <2>2. result = Nothing
    BY <1>2, <1>8, <2>1 DEF Result, result, Measures, FeedsInventory
  <2>3. DOMAIN result = {} BY <2>2 DEF Nothing
  <2> QED BY <2>1, <2>3 DEF Agrees
<1>9. ASSUME Classified(r.content) PROVE Agrees(ask, r, K, M, result)
  <2>1. result = TelemetryResult(r.content)
    BY <1>2, <1>9 DEF Result, result, Measures, FeedsInventory
  <2>2. /\ DOMAIN result = DOMAIN r.content
        /\ \A p \in DOMAIN r.content :
             result[p] = IF LeafState(p, r.content[p]) \in {"valid", "unverified"}
                         THEN r.content[p] ELSE NoValue
    BY <2>1 DEF TelemetryResult
  <2>3. \A p \in DOMAIN r.content :
          /\ r.content[p] \in Value => LeafState(p, r.content[p]) = "valid"
          /\ r.content[p] = NoValue => LeafState(p, r.content[p]) = "unavailable"
          /\ r.content[p] = Untyped /\ ~ OfWan(p) => LeafState(p, r.content[p]) = "unverified"
          /\ LeafState(p, r.content[p]) \in {"valid", "unavailable"}
               => r.content[p] \in Value \cup {NoValue}
    BY <1>5 DEF LeafState, NoValue, Untyped
  <2>4. \A p \in DOMAIN r.content : p \in Unread(ask, result) <=> ~ OfWan(p) /\ result[p] = NoValue
    BY <1>2, <2>2 DEF Unread, Optical
  <2>5. ASSUME Reason(ask, r) = "none", NEW p \in DOMAIN r.content
        PROVE  p \in K <=> p \notin Unread(ask, result)
    <3>1. LeafState(p, r.content[p]) \notin {"invalid", "unverified"}
      BY <1>2, <1>9, <2>5 DEF TelemetryReason, LeafStates
    <3>2. LeafState(p, r.content[p]) \in {"valid", "unavailable", "unverified", "invalid"}
      BY DEF LeafState
    <3>3. r.content[p] \in Value \cup {NoValue} BY <2>3, <3>1, <3>2
    <3>4. CASE r.content[p] \in Value
      <4>1. result[p] = r.content[p] BY <2>2, <2>3, <3>4
      <4> QED BY <1>5, <1>6, <2>4, <3>4, <4>1
    <3>5. CASE r.content[p] = NoValue
      <4>1. result[p] = NoValue BY <2>2, <2>3, <3>5
      <4> QED BY <1>5, <1>6, <2>4, <3>5, <4>1 DEF NoValue, Untyped, Unsafe
    <3> QED BY <3>3, <3>4, <3>5
  <2>6. Reason(ask, r) = "none" => K = DOMAIN result \ Unread(ask, result)
    BY <1>7, <2>2, <2>5 DEF Unread
  <2>7. ASSUME NEW p \in K, p \notin Unread(ask, result) PROVE r.content[p] = result[p]
    <3>1. p \in DOMAIN r.content BY <1>7
    <3>2. CASE r.content[p] \in Value BY <2>2, <2>3, <3>1, <3>2
    <3>3. CASE r.content[p] = NoValue BY <2>2, <3>1, <3>3
    <3>4. CASE ~ OfWan(p) /\ r.content[p] = Untyped BY <2>2, <2>3, <3>1, <3>4
    <3>5. CASE ~ OfWan(p) /\ r.content[p] \notin Value /\ r.content[p] = Unsafe
      <4>1. LeafState(p, r.content[p]) = "invalid" BY <3>5 DEF LeafState, NoValue, Untyped, Unsafe
      <4>2. result[p] = NoValue BY <2>2, <3>1, <4>1
      <4> QED BY <2>4, <2>7, <3>1, <3>5, <4>2
    <3> QED BY <1>6, <3>1, <3>2, <3>3, <3>4, <3>5
  <2>8. \A p \in M : result[p] = r.content[p] BY <1>6, <1>7, <2>2, <2>3
  <2> QED BY <2>6, <2>7, <2>8 DEF Agrees
<1>10. Agrees(ask, r, K, M, result) BY <1>8, <1>9
<1> QED BY <1>10 DEF plan, items, K, M, result

\* The aliases of two texts agree where, and only where, their addresses do.
LEMMA AliasesAgree ==
  ASSUME NEW plan, NEW items, Items(plan, items),
         NEW p \in Masked(plan, items), NEW q \in Masked(plan, items),
         NEW i \in DOMAIN Named(items[p]), NEW k \in DOMAIN Named(items[q])
  PROVE  Named(items[p])[i] = Named(items[q])[k]
           <=> Aliased(plan, items, p)[i] = Aliased(plan, items, q)[k]
<1> DEFINE seen == SeenIn(plan, items)
<1>1. /\ seen \in Seq(Address)
      /\ \E m \in DOMAIN seen : seen[m] = Named(items[p])[i]
      /\ \E n \in DOMAIN seen : seen[n] = Named(items[q])[k]
  <2>1. /\ seen \in Seq(Address)
        /\ \A s \in Masked(plan, items) : \A l \in DOMAIN Named(items[s]) :
             \E j \in DOMAIN seen : seen[j] = Named(items[s])[l]
    BY SeenAll
  <2> QED BY <2>1, Zenon
<1>2. PICK m \in DOMAIN seen, n \in DOMAIN seen :
        seen[m] = Named(items[p])[i] /\ seen[n] = Named(items[q])[k]
  BY <1>1
<1>3. /\ Aliased(plan, items, p)[i] = AliasOf(seen, seen[m])
      /\ Aliased(plan, items, q)[k] = AliasOf(seen, seen[n])
  BY <1>2 DEF Aliased
<1> HIDE DEF seen
<1>4. AliasOf(seen, seen[m]) = AliasOf(seen, seen[n]) => seen[m] = seen[n]
  BY <1>1, AliasInjective
<1> QED BY <1>2, <1>3, <1>4

\* A response keeps the texts that are not masked, and the aliases of the others agree where
\* their addresses do.
LEMMA ResponseSays ==
  ASSUME NEW ask, NEW r, NEW cpe, NEW padded, AnsweredBy(ask, r)
  PROVE  LET plan == PlanOf(ask, cpe)
             items == ItemsOf(ask, cpe, r, padded)
             response == ResponseOf(plan, items)
             K == Shown(plan, items)
             M == Masked(plan, items)
         IN /\ DOMAIN response = K
            /\ \A p \in K \ M : response[p].text = r.content[p]
            /\ \A p, q \in M :
                 \A i \in DOMAIN Addresses[r.content[p]], k \in DOMAIN Addresses[r.content[q]] :
                   Addresses[r.content[p]][i] = Addresses[r.content[q]][k]
                     <=> response[p].aliases[i] = response[q].aliases[k]
<1> DEFINE plan == PlanOf(ask, cpe)
           items == ItemsOf(ask, cpe, r, padded)
           response == ResponseOf(plan, items)
           K == Shown(plan, items)
           M == Masked(plan, items)
<1>1. /\ DOMAIN response = K /\ M \subseteq K /\ K \subseteq DOMAIN items
      /\ \A p \in M : response[p] = Clear(Alias, Aliased(plan, items, p))
      /\ \A p \in K \ M : response[p] = Parameter(r.content[p], p \in padded)
  BY ResponseItems
<1>2. /\ Items(plan, items)
      /\ \A p \in DOMAIN items : items[p].text = r.content[p] /\ r.content[p] # Alias
  BY ItemsReceived
<1> HIDE DEF response, K, M, items, plan
<1>3. \A p \in K \ M : response[p].text = r.content[p]
  <2> SUFFICES ASSUME NEW p \in K \ M PROVE response[p].text = r.content[p] OBVIOUS
  <2>1. PICK b : response[p] = Parameter(r.content[p], b) BY <1>1, Zenon
  <2> QED BY <2>1, ParameterFields
<1>4. \A p \in M : response[p].aliases = Aliased(plan, items, p)
  <2>1. \A text, aliases : Clear(text, aliases).aliases = aliases BY ClearFields
  <2> QED BY <1>1, <2>1, Zenon
<1>5. \A p \in M : Named(items[p]) = Addresses[r.content[p]] BY <1>1, <1>2 DEF Named
<1>6. ASSUME NEW p \in M, NEW q \in M,
             NEW i \in DOMAIN Addresses[r.content[p]], NEW k \in DOMAIN Addresses[r.content[q]]
      PROVE  Addresses[r.content[p]][i] = Addresses[r.content[q]][k]
               <=> response[p].aliases[i] = response[q].aliases[k]
  <2>1. i \in DOMAIN Named(items[p]) /\ k \in DOMAIN Named(items[q]) BY <1>5
  <2>2. Named(items[p])[i] = Named(items[q])[k]
          <=> Aliased(plan, items, p)[i] = Aliased(plan, items, q)[k]
    BY <1>2, <2>1, AliasesAgree DEF M
  <2> QED BY <1>4, <1>5, <2>2
<1> QED BY <1>1, <1>3, <1>6 DEF response, K, M, items, plan

\* The response to any answer agrees with the result it is given.
LEMMA BundleFaithful ==
  ASSUME NEW ask, NEW r, NEW cpe, NEW padded, AnsweredBy(ask, r)
  PROVE  LET plan == PlanOf(ask, cpe)
             items == ItemsOf(ask, cpe, r, padded)
         IN Agrees(ask, r, Shown(plan, items), Masked(plan, items), Result(ask, r))
<1>1. r.kind \in {"fault", "names", "values"} BY DEF AnsweredBy, Ask
<1>2. CASE r.kind = "names" BY <1>2, NamesAgree
<1>3. CASE r.kind = "values" /\ ask.path = NoPath BY <1>3, ValuesAgree
<1>4. CASE r.kind = "values" /\ ask.path # NoPath BY <1>4, TelemetryAgrees
<1>5. CASE r.kind = "fault"
  <2>1. Reason(ask, r) = "cpe_fault" BY <1>5 DEF Reason
  <2>2. Result(ask, r) = Nothing BY <1>5 DEF Result, FeedsInventory, Measures
  <2>3. DOMAIN Result(ask, r) = {} BY <2>2 DEF Nothing
  <2> QED BY <2>1, <2>3 DEF Agrees
<1> QED BY <1>1, <1>2, <1>3, <1>4, <1>5

\* The evidence of an operation exists exactly if it is owed, and says what the result says:
\* two texts of it share an alias exactly where they name one address.
THEOREM EvidenceFaithfulCorrect == DisclosureSpec => []EvidenceFaithful
<1> DEFINE SaidOf(op, bundle) ==
             LET shared == DOMAIN bundle.response \cap DOMAIN op.result
                 raw(p) == Addresses[op.result[p]]
                 unread == {p \in DOMAIN op.result : Optical(op.ask, p) /\ op.result[p] = NoValue}
             IN /\ bundle.at = op.finished
                /\ op.state = "succeeded" => DOMAIN bundle.response = DOMAIN op.result \ unread
                /\ \A p \in shared \ (bundle.substituted \cup unread) :
                     bundle.response[p].text = op.result[p]
                /\ \A p, q \in shared \cap bundle.substituted :
                     \A i \in DOMAIN raw(p), k \in DOMAIN raw(q) :
                       raw(p)[i] = raw(q)[k] <=>
                         bundle.response[p].aliases[i] = bundle.response[q].aliases[k]
<1>1. ASSUME TypeOK, Planned(db), EvidenceInvariant, NEW o \in OpId
      PROVE  LET op == db.ops[o]
                 bundle == evidence[o].bundle
             IN (bundle.made <=> Owed(op)) /\ (bundle.made => SaidOf(op, bundle))
  <2> DEFINE op == db.ops[o]
             bundle == evidence[o].bundle
  <2>1. ASSUME ~ Owed(op) PROVE ~ bundle.made BY <1>1, <2>1, RecordedBundle, NothingMade, Zenon
  <2>2. ASSUME Owed(op) PROVE bundle.made /\ SaidOf(op, bundle)
    <3>1. PICK r \in Answers, cpe \in Reviewed : \E padded, sent :
            /\ AnsweredBy(op.ask, r) /\ EndedBy(op, r)
            /\ bundle = Build(PlanOf(op.ask, cpe), r.kind, ItemsOf(op.ask, cpe, r, padded), sent,
                              op.finished, Cardinality(DOMAIN r.content))
      BY <1>1, <2>2, RecordedBundle, Zenon
    <3>2. PICK padded, sent :
            /\ AnsweredBy(op.ask, r) /\ EndedBy(op, r)
            /\ bundle = Build(PlanOf(op.ask, cpe), r.kind, ItemsOf(op.ask, cpe, r, padded), sent,
                              op.finished, Cardinality(DOMAIN r.content))
      BY <3>1
    <3> DEFINE plan == PlanOf(op.ask, cpe)
               items == ItemsOf(op.ask, cpe, r, padded)
               response == ResponseOf(plan, items)
               K == Shown(plan, items)
               M == Masked(plan, items)
    <3> HIDE DEF op, bundle
    <3>3. /\ bundle.made /\ bundle.at = op.finished /\ bundle.response = response
          /\ bundle.substituted = M
      <4>1. bundle = Bundle(plan, r.kind, response, op.finished, Cardinality(DOMAIN r.content),
                            IF r.kind = "values" THEN plan.names \ K ELSE {}, M)
        BY <3>2, BuildBundle
      <4> HIDE DEF plan, response, K, M
      <4> QED BY <4>1, BundleFields
    <3>4. /\ DOMAIN response = K
          /\ \A p \in K \ M : response[p].text = r.content[p]
          /\ \A p, q \in M :
               \A i \in DOMAIN Addresses[r.content[p]], k \in DOMAIN Addresses[r.content[q]] :
                 Addresses[r.content[p]][i] = Addresses[r.content[q]][k]
                   <=> response[p].aliases[i] = response[q].aliases[k]
      BY <3>2, ResponseSays
    <3>5. Agrees(op.ask, r, K, M, Result(op.ask, r)) BY <3>2, BundleFaithful
    <3>6. op.result = Result(op.ask, r) /\ (op.state = "succeeded" => Reason(op.ask, r) = "none")
      BY <3>2 DEF EndedBy
    <3> HIDE DEF K, M, response, items, plan
    <3>7. /\ op.state = "succeeded" => K = DOMAIN op.result \ Unread(op.ask, op.result)
          /\ \A p \in (K \cap DOMAIN op.result) \ (M \cup Unread(op.ask, op.result)) :
               r.content[p] = op.result[p]
          /\ \A p \in M \cap DOMAIN op.result : op.result[p] = r.content[p]
      BY <3>5, <3>6 DEF Agrees
    <3>8. SaidOf(op, bundle) BY <3>3, <3>4, <3>7 DEF Unread
    <3> QED BY <3>3, <3>8
  <2> HIDE DEF SaidOf
  <2> QED BY <2>1, <2>2, Zenon
<1>2. TypeOK /\ Planned(db) /\ EvidenceInvariant => EvidenceFaithful
  BY <1>1 DEF EvidenceFaithful, Owed
<1> QED BY <1>2, EvidenceKept, DisclosureIsQueue, TypeCorrect, SourcedCorrect, PTL DEF Sourced
=============================================================================
