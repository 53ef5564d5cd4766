------------------------------ MODULE Induction ------------------------------
(***************************************************************************)
(* Induction for the proofs about data: a set of naturals that is not      *)
(* empty has a least member, so a claim about all of them holds if it has  *)
(* no least counterexample; and a function defined by recursion over 1..n  *)
(* exists.  The library's own induction theorems take the claim as an      *)
(* operator, which the provers cannot instantiate; these take a set and a  *)
(* function instead.                                                       *)
(***************************************************************************)
EXTENDS Integers, FiniteSetTheorems, WellFoundedInduction, TLAPS

\* A set of naturals that is not empty has a least member.
LEMMA HasLeast ==
    ASSUME NEW T \in SUBSET Nat, T # {}
    PROVE  \E m \in T : \A k \in T : m <= k
<1> DEFINE Family == {1..m : m \in T}
<1>1. Family \in SUBSET FiniteSubsetsOf(Nat) /\ Family # {}
    <2>1. ASSUME NEW m \in T PROVE 1..m \in FiniteSubsetsOf(Nat)
        <3>1. m \in Int /\ 1 \in Int /\ 1..m \subseteq Nat
            OBVIOUS
        <3>2. IsFiniteSet(1..m)
            BY <3>1, FS_Interval
        <3> QED
            BY <3>1, <3>2 DEF FiniteSubsetsOf
    <2> QED
        BY <2>1
<1>2. IsWellFoundedOn(StrictSubsetOrdering(Nat), FiniteSubsetsOf(Nat))
    BY FS_StrictSubsetOrderingWellFounded
<1> HIDE DEF Family
<1>3. PICK X \in Family : \A Y \in Family : <<Y, X>> \notin StrictSubsetOrdering(Nat)
    BY <1>1, <1>2, WFMin
<1>4. PICK m \in T : X = 1..m
    BY <1>3 DEF Family
<1>5. ASSUME NEW k \in T, k < m PROVE FALSE
    <2>1. 1..k \subseteq 1..m /\ m \in 1..m /\ m \notin 1..k
        BY <1>5
    <2>2. 1..k \in Family /\ 1..k \in SUBSET Nat /\ 1..m \in SUBSET Nat
        BY DEF Family
    <2>3. <<1..k, 1..m>> \in StrictSubsetOrdering(Nat)
        BY <2>1, <2>2 DEF StrictSubsetOrdering
    <2> QED
        BY <1>3, <1>4, <2>2, <2>3
<1> QED
    BY <1>5

\* The values of a recursion over 1..n that begins with b: g[i] is what its
\* i-th step makes of the value before.
AreSteps(g, n, S) == g \in [1..n -> [S -> S]]
Solves(f, g, n, S, b) ==
    f \in [0..n -> S] /\ f[0] = b /\ \A i \in 1..n : f[i] = g[i][f[i - 1]]

\* Every recursion has a solution.
LEMMA Recursion ==
    ASSUME NEW n \in Nat, NEW S, NEW b \in S, NEW g, AreSteps(g, n, S)
    PROVE  \E f : Solves(f, g, n, S, b)
<1> SUFFICES \E f \in [0..n -> S] : f[0] = b /\ \A i \in 1..n : f[i] = g[i][f[i - 1]]
    BY DEF Solves
<1>0. g \in [1..n -> [S -> S]]
    BY DEF AreSteps
<1> DEFINE SolvesTo(f, m) == f[0] = b /\ \A i \in 1..m : f[i] = g[i][f[i - 1]]
           Unsolved == {m \in 0..n : \A f \in [0..m -> S] : ~SolvesTo(f, m)}
<1>1. CASE Unsolved = {}
    <2>1. n \in 0..n /\ n \notin Unsolved
        <3> HIDE DEF Unsolved
        <3> QED
            BY <1>1
    <2>2. PICK f \in [0..n -> S] : SolvesTo(f, n)
        BY <2>1
    <2> QED
        BY <2>2
<1>2. CASE Unsolved # {}
    <2>1. PICK m \in Unsolved : \A k \in Unsolved : m <= k
        <3>1. Unsolved \in SUBSET Nat
            OBVIOUS
        <3> HIDE DEF Unsolved
        <3> QED
            BY <1>2, <3>1, HasLeast
    <2>2. m \in 0..n /\ \A f \in [0..m -> S] : ~SolvesTo(f, m)
        OBVIOUS
    <2>3. CASE m = 0
        <3>1. [i \in 0..0 |-> b] \in [0..m -> S] /\ SolvesTo([i \in 0..0 |-> b], m)
            BY <2>3
        <3> QED
            BY <2>2, <3>1
    <2>4. CASE m # 0
        <3>1. m - 1 \in 0..n /\ m - 1 < m /\ ~(m <= m - 1)
            BY <2>2, <2>4
        <3>0. m - 1 \notin Unsolved
            <4> HIDE DEF Unsolved
            <4> QED
                BY <2>1, <3>1
        <3>2. PICK f \in [0..(m - 1) -> S] : SolvesTo(f, m - 1)
            BY <3>1, <3>0
        <3> DEFINE h == [i \in 0..m |-> IF i = m THEN g[m][f[m - 1]] ELSE f[i]]
        <3>3. g[m][f[m - 1]] \in S /\ h \in [0..m -> S]
            <4>1. m \in 1..n /\ m - 1 \in 0..(m - 1)
                BY <2>2, <2>4
            <4>2. g[m] \in [S -> S] /\ f[m - 1] \in S
                BY <1>0, <4>1
            <4> QED
                BY <4>2
        <3>4. h[m] = g[m][h[m - 1]] /\ h[0] = b
            BY <2>2, <2>4, <3>2
        <3>5. ASSUME NEW i \in 1..(m - 1) PROVE h[i] = g[i][h[i - 1]]
            <4>1. h[i] = f[i] /\ h[i - 1] = f[i - 1]
                BY <2>2, <2>4
            <4> QED
                BY <3>2, <4>1
        <3>6. \A i \in 1..m : i = m \/ i \in 1..(m - 1)
            BY <2>2
        <3> HIDE DEF h
        <3>7. SolvesTo(h, m)
            BY <3>4, <3>5, <3>6
        <3> QED
            BY <2>2, <3>3, <3>7
    <2> QED
        BY <2>3, <2>4
<1> QED
    BY <1>1, <1>2

=============================================================================
