----------------------------- MODULE Recursion -----------------------------
(***************************************************************************)
(* A function on the natural numbers whose value at n is computed from its *)
(* values below n exists, and so satisfies its recursive definition.       *)
(***************************************************************************)
EXTENDS Naturals, WellFoundedInduction, TLAPS

CONSTANT Def(_, _)  \* Def(f, n): the value at n, computed from f below n

\* Below n, f decides what is computed at n.
Local(n) == \A f, g : (\A i \in 0 .. n - 1 : f[i] = g[i]) => Def(f, n) = Def(g, n)

\* f obeys the definition up to n.
Obeys(f, n) == \A i \in 0 .. n : f[i] = Def(f, i)

\* A set of natural numbers has a least one.
LEMMA LeastElement ==
    ASSUME NEW S \in SUBSET Nat, S # {}
    PROVE  \E m \in S : \A k \in S : m <= k
<1>1. IsWellFoundedOn(OpToRel(<, Nat), Nat)
  BY NatLessThanWellFounded
<1>2. PICK m \in S : \A k \in S : ~ (<<k, m>> \in OpToRel(<, Nat))
  BY <1>1, WFMin
<1>3. ASSUME NEW k \in S PROVE m <= k
  <2>1. k \in Nat /\ m \in Nat /\ ~ (k < m)
    BY <1>2 DEF OpToRel
  <2>. QED
    BY <2>1
<1>. QED
  BY <1>3

\* Two functions that obey the definition are one.
LEMMA Agree ==
    ASSUME \A n \in Nat : Local(n),
           NEW f, NEW g, NEW n \in Nat, Obeys(f, n), Obeys(g, n)
    PROVE  \A i \in 0 .. n : f[i] = g[i]
<1>. DEFINE Bad == {i \in 0 .. n : f[i] # g[i]}
<1>. SUFFICES ASSUME Bad # {} PROVE FALSE
  OBVIOUS
<1>1. PICK m \in Bad : \A k \in Bad : m <= k
  BY LeastElement, Bad \subseteq Nat
<1>2. m \in Nat /\ \A i \in 0 .. m - 1 : f[i] = g[i]
  BY <1>1
<1>3. Def(f, m) = Def(g, m)
  BY <1>2 DEF Local
<1>. QED
  BY <1>1, <1>3 DEF Obeys

\* Up to any number, some function obeys it.
LEMMA SomeObeys ==
    ASSUME \A n \in Nat : Local(n)
    PROVE  \A n \in Nat : \E f : Obeys(f, n)
<1>. DEFINE Bad == {n \in Nat : ~ \E f : Obeys(f, n)}
<1>. SUFFICES ASSUME Bad # {} PROVE FALSE
  OBVIOUS
<1>1. PICK m \in Bad : \A k \in Bad : m <= k
  BY LeastElement, Bad \subseteq Nat
<1>2. PICK f : \A i \in 0 .. m - 1 : f[i] = Def(f, i)
  <2>1. CASE m = 0
    BY <2>1
  <2>2. CASE m # 0
    <3>1. m - 1 \in Nat /\ m - 1 \notin Bad
      BY <1>1, <2>2
    <3>. QED
      BY <3>1 DEF Obeys
  <2>. QED
    BY <2>1, <2>2
<1>. DEFINE h == [i \in 0 .. m |-> IF i = m THEN Def(f, m) ELSE f[i]]
<1>3. \A i \in 0 .. m : \A j \in 0 .. i - 1 : h[j] = f[j]
  BY <1>1
<1>4. ASSUME NEW i \in 0 .. m PROVE h[i] = Def(h, i)
  <2>1. Def(h, i) = Def(f, i)
    <3>. HIDE DEF h
    <3>. QED
      BY <1>3 DEF Local
  <2>. QED
    BY <1>1, <1>2, <2>1
<1>. QED
  BY <1>1, <1>4 DEF Obeys

\* A recursive definition of a function on the natural numbers, which stands
\* for the function that obeys it, is obeyed: largest_power_of_two_less_than,
\* merkle_root, inclusion_path and sub_proof are defined so in MerkleTree.
LEMMA RecursiveFunction ==
    ASSUME \A n \in Nat : Local(n),
           NEW f, f = CHOOSE g : g = [n \in Nat |-> Def(g, n)]
    PROVE  f = [n \in Nat |-> Def(f, n)]
<1>. DEFINE Upto(n) == CHOOSE g : Obeys(g, n)
<1>1. \A n \in Nat : Obeys(Upto(n), n)
  BY SomeObeys
<1>. DEFINE h == [n \in Nat |-> Upto(n)[n]]
<1>. HIDE DEF Upto
<1>2. ASSUME NEW n \in Nat PROVE h[n] = Def(h, n)
  <2>1. ASSUME NEW i \in 0 .. n PROVE h[i] = Upto(n)[i]
    <3>1. i \in Nat /\ Obeys(Upto(i), i) /\ Obeys(Upto(n), i)
      BY <1>1 DEF Obeys
    <3>2. Upto(i)[i] = Upto(n)[i]
      BY <3>1, Agree
    <3>. QED
      BY <3>1, <3>2
  <2>2. Def(h, n) = Def(Upto(n), n)
    <3>. HIDE DEF h
    <3>. QED
      BY <2>1 DEF Local
  <2>. QED
    BY <1>1, <2>1, <2>2 DEF Obeys
<1>3. h = [n \in Nat |-> Def(h, n)]
  <2>1. \A n \in Nat : h[n] = Def(h, n)
    BY <1>2
  <2>2. h = [n \in Nat |-> h[n]]
    OBVIOUS
  <2>. HIDE DEF h
  <2>. QED
    BY <2>1, <2>2
<1>. HIDE DEF h
<1>. QED
  BY <1>3
=============================================================================
