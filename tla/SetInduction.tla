---------------------------- MODULE SetInduction ----------------------------
(***************************************************************************)
(* Induction over the natural numbers with the property given as a set, so *)
(* that the proofs about loops over lists need no operator parameter.  It  *)
(* rests on the strict subsets of finite sets being well founded: a number *)
(* n stands for the set 1..n.                                              *)
(***************************************************************************)
EXTENDS Integers, FiniteSetTheorems, WellFoundedInduction, TLAPS

(* A set of numbers that is not empty has a least one.                     *)
LEMMA LeastNumber ==
  ASSUME NEW T, T \subseteq Nat, T # {}
  PROVE  \E n \in T : \A m \in T : n <= m
<1> DEFINE segments == {1..n : n \in T}
<1>1. \A n \in T : 1..n \in FiniteSubsetsOf(Nat)
  BY FS_Interval DEF FiniteSubsetsOf
<1>2. segments \subseteq FiniteSubsetsOf(Nat) /\ segments # {}
  BY <1>1
<1>3. PICK least \in segments :
        \A s \in segments : <<s, least>> \notin StrictSubsetOrdering(Nat)
  <2> HIDE DEF segments
  <2> QED BY <1>2, FS_StrictSubsetOrderingWellFounded, WFMin, Zenon
<1>4. PICK n \in T : least = 1..n
  BY <1>3
<1>5. ASSUME NEW m \in T, m < n PROVE FALSE
  <2>1. 1..m \subseteq 1..n /\ 1..m # 1..n
    BY <1>5
  <2>2. <<1..m, least>> \in StrictSubsetOrdering(Nat)
    BY <1>4, <2>1 DEF StrictSubsetOrdering
  <2> QED BY <1>3, <2>2
<1> QED BY <1>5

(* What holds of 0 and, with every number, of the next holds of all.       *)
LEMMA NumbersBySuccessor ==
  ASSUME NEW P, 0 \in P, \A n \in Nat : n \in P => n + 1 \in P
  PROVE  \A n \in Nat : n \in P
<1> SUFFICES ASSUME Nat \ P # {} PROVE FALSE
  OBVIOUS
<1>1. PICK n \in Nat \ P : \A m \in Nat \ P : n <= m
  BY LeastNumber
<1>2. n - 1 \in Nat /\ n - 1 \in P
  BY <1>1
<1> QED BY <1>1, <1>2

(* The values of a loop of n rounds over V: it starts with z, and each     *)
(* round computes its value from the one before.                           *)
IsLoop(V, z, n, step, f) ==
  /\ f \in [0..n -> V]
  /\ f[0] = z
  /\ \A i \in 1..n : f[i] = step[i][f[i - 1]]

(* Every such loop has a value after every round.                          *)
LEMMA LoopHasValues ==
  ASSUME NEW V, NEW z \in V, NEW n \in Nat, NEW step \in [1..n -> [V -> V]]
  PROVE  \E f : IsLoop(V, z, n, step, f)
<1> DEFINE Loop(k, f) == /\ f \in [0..k -> V]
                         /\ f[0] = z
                         /\ \A i \in 1..k : f[i] = step[i][f[i - 1]]
           Runs == {k \in Nat : k <= n => \E f : Loop(k, f)}
<1>1. 0 \in Runs
  <2>1. Loop(0, [i \in 0..0 |-> z])
    OBVIOUS
  <2>2. \E f : Loop(0, f)
    BY <2>1
  <2> HIDE DEF Loop
  <2> QED BY <2>2
<1>2. ASSUME NEW k \in Nat, k \in Runs PROVE k + 1 \in Runs
  <2> SUFFICES ASSUME k + 1 <= n PROVE \E f : Loop(k + 1, f)
    <3> HIDE DEF Loop
    <3> QED OBVIOUS
  <2>1. PICK g : Loop(k, g)
    <3> HIDE DEF Loop
    <3> QED BY <1>2
  <2> DEFINE h == [i \in 0..(k + 1) |->
                     IF i <= k THEN g[i] ELSE step[k + 1][g[k]]]
  <2>2. step[k + 1] \in [V -> V] /\ g[k] \in V
    BY <2>1
  <2>3. h \in [0..(k + 1) -> V]
    BY <2>1, <2>2
  <2>4. h[0] = z
    BY <2>1
  <2>5. ASSUME NEW i \in 1..(k + 1) PROVE h[i] = step[i][h[i - 1]]
    <3>1. h[i - 1] = g[i - 1]
      OBVIOUS
    <3>2. CASE i <= k
      <4>1. h[i] = g[i] /\ i \in 1..k
        BY <3>2
      <4> QED BY <2>1, <3>1, <4>1
    <3>3. CASE i = k + 1
      <4>1. h[i] = step[k + 1][g[k]] /\ i - 1 = k
        BY <3>3
      <4> QED BY <3>1, <3>3, <4>1
    <3> QED BY <3>2, <3>3
  <2> HIDE DEF h
  <2>6. Loop(k + 1, h)
    BY <2>3, <2>4, <2>5
  <2> HIDE DEF Loop
  <2> QED BY <2>6
<1>3. \A k \in Nat : k \in Runs
  <2> HIDE DEF Runs
  <2> QED BY <1>1, <1>2, NumbersBySuccessor
<1>4. PICK f : Loop(n, f)
  <2> HIDE DEF Loop
  <2> QED BY <1>3
<1> QED BY <1>4 DEF IsLoop

(* What follows the rule of a loop, whatever it is, stays in V.            *)
LEMMA LoopStays ==
  ASSUME NEW V, NEW z \in V, NEW n \in Nat, NEW step \in [1..n -> [V -> V]],
         NEW f, f[0] = z,
         \A i \in 1..n : f[i - 1] \in V => f[i] = step[i][f[i - 1]]
  PROVE  \A i \in 0..n : f[i] \in V
<1> DEFINE Good == {m \in Nat : m <= n => f[m] \in V}
<1>1. 0 \in Good
  OBVIOUS
<1>2. ASSUME NEW m \in Nat, m \in Good PROVE m + 1 \in Good
  <2> SUFFICES ASSUME m + 1 <= n PROVE f[m + 1] \in V
    OBVIOUS
  <2>1. m + 1 \in 1..n /\ (m + 1) - 1 = m /\ f[m] \in V
    BY <1>2
  <2>2. f[m + 1] = step[m + 1][f[m]]
    BY <2>1
  <2> QED BY <2>1, <2>2
<1>3. \A m \in Nat : m \in Good
  <2> HIDE DEF Good
  <2> QED BY <1>1, <1>2, NumbersBySuccessor
<1> QED BY <1>3
=============================================================================
