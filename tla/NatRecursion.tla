----------------------------- MODULE NatRecursion -----------------------------
(***************************************************************************)
(* Induction over the natural numbers, and recursive functions on them, in *)
(* the form of sets and functions: the library's theorems take operators   *)
(* as parameters.                                                          *)
(***************************************************************************)
EXTENDS Integers, TLAPS, WellFoundedInduction

(* A set of numbers with 0 and every successor is the set of all numbers:  *)
(* the order of the numbers is well founded.                               *)
LEMMA Inductive ==
    ASSUME NEW S \in SUBSET Nat, 0 \in S, \A n \in S : n + 1 \in S
    PROVE  S = Nat
<1> DEFINE T == Nat \ S
           R == {pair \in Nat \X Nat : pair[1] < pair[2]}
<1>1. IsWellFoundedOn(R, Nat)
    BY NatLessThanWellFounded DEF OpToRel
<1>2. ASSUME T # {} PROVE FALSE
    <2>1. PICK x \in T : \A y \in T : ~(<<y, x>> \in R)
        <3> HIDE DEF R
        <3> QED
            BY <1>1, <1>2, WFMin
    <2>2. x # 0 /\ x - 1 \in Nat
        BY <2>1
    <2>3. x - 1 \in T
        BY <2>2
    <2>4. <<x - 1, x>> \in R
        BY <2>2
    <2> QED
        BY <2>1, <2>3, <2>4
<1> QED
    BY <1>2

(* f holds the first n + 1 values of the recursion that starts with `base` *)
(* and makes each value of its index and the value before it.              *)
Starts(V, base, Step, n, f) ==
    /\ f \in [0..n -> V]
    /\ f[0] = base
    /\ \A i \in 1..n : f[i] = Step[<<i, f[i - 1]>>]

LEMMA StartExists ==
    ASSUME NEW V, NEW base \in V, NEW Step \in [Nat \X V -> V]
    PROVE  \A n \in Nat : \E f : Starts(V, base, Step, n, f)
<1> DEFINE S == {n \in Nat : \E f : Starts(V, base, Step, n, f)}
<1>1. 0 \in S
    <2>1. Starts(V, base, Step, 0, [i \in 0..0 |-> base])
        BY DEF Starts
    <2> QED
        BY <2>1
<1>2. ASSUME NEW n \in S PROVE n + 1 \in S
    <2>1. PICK f : Starts(V, base, Step, n, f)
        OBVIOUS
    <2> DEFINE g == [i \in 0..(n + 1) |-> IF i = n + 1 THEN Step[<<n + 1, f[n]>>] ELSE f[i]]
    <2>2. f[n] \in V
        BY <2>1 DEF Starts
    <2>3. Step[<<n + 1, f[n]>>] \in V
        BY <2>2
    <2>4. \A i \in 1..(n + 1) : g[i] = Step[<<i, g[i - 1]>>]
        <3> SUFFICES ASSUME NEW i \in 1..(n + 1) PROVE g[i] = Step[<<i, g[i - 1]>>]
            OBVIOUS
        <3>1. CASE i = n + 1
            <4>1. g[i - 1] = f[n] /\ g[i] = Step[<<n + 1, f[n]>>]
                BY <3>1
            <4> HIDE DEF g
            <4> QED
                BY <3>1, <4>1
        <3>2. CASE i \in 1..n
            <4>1. g[i - 1] = f[i - 1] /\ g[i] = f[i]
                BY <3>2
            <4> QED
                BY <2>1, <3>2, <4>1 DEF Starts
        <3> QED
            BY <3>1, <3>2
    <2>5. g \in [0..(n + 1) -> V] /\ g[0] = base
        BY <2>1, <2>3 DEF Starts
    <2> HIDE DEF g
    <2>6. Starts(V, base, Step, n + 1, g)
        BY <2>4, <2>5 DEF Starts
    <2> QED
        BY <2>6
<1> HIDE DEF S
<1>3. S = Nat
    BY <1>1, <1>2, Inductive DEF S
<1> QED
    BY <1>3 DEF S

(* Two of them agree where both are defined.                               *)
LEMMA StartUnique ==
    ASSUME NEW V, NEW base, NEW Step, NEW n \in Nat, NEW m \in Nat, NEW f, NEW g,
           Starts(V, base, Step, n, f), Starts(V, base, Step, m, g),
           NEW i \in Nat, i <= n, i <= m
    PROVE  f[i] = g[i]
<1> DEFINE S == {j \in Nat : j <= n /\ j <= m => f[j] = g[j]}
<1>1. 0 \in S
    BY DEF Starts
<1>2. ASSUME NEW j \in S PROVE j + 1 \in S
    <2> SUFFICES ASSUME j + 1 <= n, j + 1 <= m PROVE f[j + 1] = g[j + 1]
        OBVIOUS
    <2>1. f[j] = g[j] /\ j + 1 \in 1..n /\ j + 1 \in 1..m /\ (j + 1) - 1 = j
        OBVIOUS
    <2> QED
        BY <2>1 DEF Starts
<1> HIDE DEF S
<1>3. S = Nat
    BY <1>1, <1>2, Inductive DEF S
<1> QED
    BY <1>3 DEF S

(* f holds all of them.                                                    *)
Solves(V, base, Step, f) ==
    /\ f \in [Nat -> V]
    /\ f[0] = base
    /\ \A n \in Nat \ {0} : f[n] = Step[<<n, f[n - 1]>>]

(* A recursion over the numbers has a solution.                            *)
LEMMA RecursionOnNat ==
    ASSUME NEW V, NEW base \in V, NEW Step \in [Nat \X V -> V]
    PROVE  \E f : Solves(V, base, Step, f)
<1> DEFINE First(n) == CHOOSE f : Starts(V, base, Step, n, f)
           g == [n \in Nat |-> First(n)[n]]
<1>1. \A n \in Nat : Starts(V, base, Step, n, First(n))
    BY StartExists
<1> HIDE DEF First
<1>2. ASSUME NEW n \in Nat
      PROVE  g[n] \in V /\ g[n] = IF n = 0 THEN base ELSE Step[<<n, g[n - 1]>>]
    <2>1. g[n] \in V
        BY <1>1 DEF Starts
    <2>2. CASE n = 0
        BY <1>1, <2>1, <2>2 DEF Starts
    <2>3. CASE n # 0
        <3>1. n - 1 \in Nat /\ n \in 1..n
            BY <2>3
        <3>2. First(n)[n] = Step[<<n, First(n)[n - 1]>>]
            BY <1>1, <3>1 DEF Starts
        <3>3. First(n)[n - 1] = First(n - 1)[n - 1]
            BY <3>1, <1>1, StartUnique
        <3> QED
            BY <2>1, <2>3, <3>1, <3>2, <3>3
    <2> QED
        BY <2>2, <2>3
<1>3. g \in [Nat -> V]
    BY <1>2
<1> HIDE DEF g
<1>4. Solves(V, base, Step, g)
    BY <1>2, <1>3 DEF Solves
<1> QED
    BY <1>4
=============================================================================
