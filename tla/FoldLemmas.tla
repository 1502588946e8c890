----------------------------- MODULE FoldLemmas -----------------------------
(***************************************************************************)
(* Induction over the natural numbers, stated of a set of them, and what   *)
(* it shows of FoldLeft: that the recursive function by which it is        *)
(* defined exists, and how it goes through the beginnings of a sequence.   *)
(***************************************************************************)
EXTENDS Integers, Sequences, WellFoundedInduction, TLAPS

\* A set of numbers that has 0 and the successor of each of its members has
\* them all: were one missing, so would the least one, by well-foundedness.
LEMMA Induction ==
    ASSUME NEW P \in SUBSET Nat, 0 \in P, \A n \in P : n + 1 \in P
    PROVE  P = Nat
<1> SUFFICES ASSUME P # Nat PROVE FALSE
    OBVIOUS
<1> DEFINE R == {p \in Nat \X Nat : p[1] < p[2]}
<1>1. IsWellFoundedOn(R, Nat)
    BY NatLessThanWellFounded DEF OpToRel
<1> HIDE DEF R
<1>2. PICK n \in Nat \ P : \A m \in Nat \ P : ~(<<m, n>> \in R)
    BY <1>1, WFMin
<1>3. \A m \in Nat \ P : ~(m < n)
    BY <1>2 DEF R
<1>4. n # 0 /\ n - 1 \in Nat
    BY <1>2
<1>5. n - 1 \in P
    BY <1>3, <1>4
<1> QED
    BY <1>2, <1>4, <1>5

\* A set of numbers that is not empty has a least member.
LEMMA LeastNumber ==
    ASSUME NEW T \in SUBSET Nat, T # {}
    PROVE  \E n \in T : \A m \in T : n <= m
<1> DEFINE R == {p \in Nat \X Nat : p[1] < p[2]}
<1>1. IsWellFoundedOn(R, Nat)
    BY NatLessThanWellFounded DEF OpToRel
<1> HIDE DEF R
<1>2. PICK n \in T : \A m \in T : ~(<<m, n>> \in R)
    BY <1>1, WFMin
<1>3. \A m \in T : ~(m < n)
    BY <1>2 DEF R
<1> QED
    BY <1>3

\* How FoldLeft is defined: by the last index of a set of them.
Top(S) == CHOOSE x \in S : \A y \in S : x >= y

LEMMA TopOfInterval ==
    ASSUME NEW k \in Nat, NEW s \in SUBSET (1 .. k + 1), k + 1 \in s
    PROVE  Top(s) = k + 1 /\ s \ {Top(s)} \in SUBSET (1 .. k)
<1>1. \A y \in s : y \in Int /\ k + 1 >= y
    OBVIOUS
<1>2. Top(s) \in s /\ \A y \in s : Top(s) >= y
    BY <1>1 DEF Top
<1>3. Top(s) \in Int /\ k + 1 >= Top(s) /\ Top(s) >= k + 1
    BY <1>1, <1>2
<1>4. Top(s) = k + 1
    BY <1>3
<1> QED
    BY <1>4

\* The recursive function inside FoldLeft, as a set of equations; g is the
\* operation that is folded.
IsFold(f, n, X, b, g) ==
    /\ f \in [SUBSET (1 .. n) -> X]
    /\ \A s \in SUBSET (1 .. n) :
          f[s] = IF s = {} THEN b ELSE g[<<f[s \ {Top(s)}], Top(s)>>]

\* It exists: from 0 .. k to 0 .. k + 1.
LEMMA FoldExists ==
    ASSUME NEW X, NEW b \in X, NEW n \in Nat, NEW g \in [X \X (1 .. n) -> X]
    PROVE  \E f : IsFold(f, n, X, b, g)
<1> DEFINE Good(k, f) == \A s \in SUBSET (1 .. k) :
                            f[s] = IF s = {} THEN b ELSE g[<<f[s \ {Top(s)}], Top(s)>>]
           Has(k) == \E f \in [SUBSET (1 .. k) -> X] : Good(k, f)
           P == {k \in Nat : k <= n => Has(k)}
<1>1. Has(0)
    <2>1. [s \in SUBSET (1 .. 0) |-> b] \in [SUBSET (1 .. 0) -> X]
        OBVIOUS
    <2>2. \A s \in SUBSET (1 .. 0) : s = {}
        OBVIOUS
    <2>3. Good(0, [s \in SUBSET (1 .. 0) |-> b])
        BY <2>2
    <2> QED
        BY <2>1, <2>3
<1>2. ASSUME NEW k \in Nat, k + 1 <= n, Has(k) PROVE Has(k + 1)
    <2>1. k \in Nat /\ k + 1 <= n
        BY <1>2
    <2>2. PICK f \in [SUBSET (1 .. k) -> X] : Good(k, f)
        BY <1>2
    <2> DEFINE h == [s \in SUBSET (1 .. k + 1) |->
                        IF k + 1 \in s THEN g[<<f[s \ {k + 1}], k + 1>>] ELSE f[s]]
    <2>3. \A s \in SUBSET (1 .. k + 1) :
             /\ k + 1 \in s => s \ {k + 1} \in SUBSET (1 .. k)
             /\ k + 1 \notin s => s \in SUBSET (1 .. k)
        BY <2>1
    <2>4. h \in [SUBSET (1 .. k + 1) -> X]
        <3>1. ASSUME NEW s \in SUBSET (1 .. k + 1) PROVE h[s] \in X
            <4>1. CASE k + 1 \in s
                <5>1. f[s \ {k + 1}] \in X /\ k + 1 \in 1 .. n
                    BY <2>1, <2>3, <4>1
                <5>2. <<f[s \ {k + 1}], k + 1>> \in X \X (1 .. n)
                    BY <5>1
                <5> QED
                    BY <4>1, <5>2
            <4>2. CASE k + 1 \notin s
                BY <2>3, <4>2
            <4> QED
                BY <4>1, <4>2
        <3> QED
            BY <3>1
    <2>5. ASSUME NEW s \in SUBSET (1 .. k + 1)
          PROVE  h[s] = IF s = {} THEN b ELSE g[<<h[s \ {Top(s)}], Top(s)>>]
        <3>1. CASE k + 1 \in s
            <4>1. Top(s) = k + 1 /\ s \ {Top(s)} \in SUBSET (1 .. k)
                BY <2>1, <3>1, TopOfInterval
            <4>2. k + 1 \notin s \ {Top(s)} /\ s \ {Top(s)} \in SUBSET (1 .. k + 1)
                BY <4>1
            <4>3. h[s \ {Top(s)}] = f[s \ {k + 1}]
                BY <4>1, <4>2
            <4> QED
                BY <3>1, <4>1, <4>3
        <3>2. CASE k + 1 \notin s /\ s = {}
            <4>1. h[s] = f[s] /\ f[s] = b
                BY <2>2, <2>3, <3>2
            <4> QED
                BY <4>1, <3>2
        <3>3. CASE k + 1 \notin s /\ s # {}
            <4>1. s \in SUBSET (1 .. k) /\ s \ {Top(s)} \in SUBSET (1 .. k)
                BY <2>3, <3>3
            <4>2. h[s] = f[s] /\ h[s \ {Top(s)}] = f[s \ {Top(s)}]
                BY <2>1, <3>3, <4>1
            <4>3. f[s] = g[<<f[s \ {Top(s)}], Top(s)>>]
                BY <2>2, <3>3, <4>1
            <4> QED
                BY <3>3, <4>2, <4>3
        <3> QED
            BY <3>1, <3>2, <3>3
    <2> HIDE DEF h
    <2> QED
        BY <2>4, <2>5
<1> HIDE DEF Has
<1>3. P \in SUBSET Nat /\ 0 \in P /\ \A k \in P : k + 1 \in P
    BY <1>1, <1>2
<1> HIDE DEF P
<1>4. n \in P
    BY <1>3, Induction
<1>5. Has(n)
    BY <1>4 DEF P
<1> QED
    BY <1>5 DEF Has, IsFold

\* The beginnings of a sequence, as sets of indexes.
LEMMA Beginnings ==
    ASSUME NEW n \in Nat
    PROVE  /\ \A s \in SUBSET (1 .. n) :
                 s # {} => Top(s) \in 1 .. n /\ s \ {Top(s)} \in SUBSET (1 .. n)
           /\ 1 .. 0 = {} /\ {} \in SUBSET (1 .. n)
           /\ \A k \in 1 .. n : /\ 1 .. k \in SUBSET (1 .. n) /\ 1 .. k # {}
                                /\ Top(1 .. k) = k /\ (1 .. k) \ {k} = 1 .. k - 1
<1>1. ASSUME NEW s \in SUBSET (1 .. n), s # {} PROVE Top(s) \in s
    <2> DEFINE T == {n - x : x \in s}
    <2>a. \A x \in s : x \in Int /\ n - x \in Nat
        OBVIOUS
    <2>1. T \in SUBSET Nat /\ T # {}
        BY <1>1, <2>a
    <2>2. PICK m \in T : \A y \in T : m <= y
        BY <2>1, LeastNumber
    <2>3. PICK x \in s : m = n - x
        OBVIOUS
    <2>4. \A y \in s : x >= y
        <3> TAKE y \in s
        <3>1. n - y \in T
            OBVIOUS
        <3>2. m <= n - y
            BY <2>2, <3>1
        <3>3. x \in Int /\ y \in Int
            BY <2>a
        <3> QED
            BY <2>3, <3>2, <3>3
    <2> QED
        BY <2>4 DEF Top
<1>2. ASSUME NEW k \in 1 .. n
      PROVE  /\ 1 .. k \in SUBSET (1 .. n) /\ 1 .. k # {}
             /\ Top(1 .. k) = k /\ (1 .. k) \ {k} = 1 .. k - 1
    <2>1. k - 1 \in Nat /\ (k - 1) + 1 = k /\ 1 .. k \in SUBSET (1 .. n) /\ k \in 1 .. k
          /\ 1 .. k # {}
        OBVIOUS
    <2>2. Top(1 .. k) = k
        BY <2>1, TopOfInterval
    <2>3. (1 .. k) \ {k} = 1 .. k - 1
        BY <2>1
    <2> QED
        BY <2>1, <2>2, <2>3
<1>3. 1 .. 0 = {} /\ {} \in SUBSET (1 .. n)
    OBVIOUS
<1>4. ASSUME NEW s \in SUBSET (1 .. n), s # {}
      PROVE  Top(s) \in 1 .. n /\ s \ {Top(s)} \in SUBSET (1 .. n)
    BY <1>1, <1>4
<1> QED
    BY <1>2, <1>3, <1>4

=============================================================================
