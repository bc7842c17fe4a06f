----------------------------- MODULE Induction -----------------------------
(***************************************************************************)
(* Induction and recursion over the natural numbers, stated about sets and *)
(* functions: an operator as a parameter, as in NaturalsInduction, is out  *)
(* of reach of the provers used here.                                      *)
(***************************************************************************)
EXTENDS Integers, WellFoundedInduction, TLAPS

\* A set of natural numbers that is not empty has a least element.
LEMMA LeastNumber ==
  ASSUME NEW T, T \subseteq Nat, T # {}
  PROVE  \E m \in T : \A n \in T : m <= n
<1>1. PICK R : R = {ss \in Nat \X Nat : ss[1] < ss[2]}
  OBVIOUS
<1>2. IsWellFoundedOn(R, Nat)
  BY <1>1, NatLessThanWellFounded DEF OpToRel
<1>3. PICK m \in T : \A n \in T : <<n, m>> \notin R
  BY <1>2, WFMin
<1>4. ASSUME NEW n \in T PROVE m <= n
  <2>1. m \in Nat /\ n \in Nat /\ ~(n < m)
    BY <1>1, <1>3
  <2>2. QED
    BY <2>1
<1>5. QED
  BY <1>4

\* What holds at 0 and from each number to the next holds up to any bound.
THEOREM UpTo ==
  ASSUME NEW N \in Nat, NEW T, 0 \in T,
         \A i \in 1 .. N : i - 1 \in T => i \in T
  PROVE  \A i \in 0 .. N : i \in T
<1> SUFFICES ASSUME (0 .. N) \ T # {} PROVE FALSE
  OBVIOUS
<1>1. PICK D : D = (0 .. N) \ T
  OBVIOUS
<1>2. D \subseteq Nat /\ D # {}
  BY <1>1
<1>3. PICK m \in D : \A n \in D : m <= n
  BY <1>2, LeastNumber
<1>4. m \in 1 .. N /\ m - 1 \in 0 .. N /\ ~(m <= m - 1) /\ m \notin T
  BY <1>1
<1>5. QED
  BY <1>1, <1>3, <1>4

\* The steps from each value of a function on 0 .. N to the next, and the
\* function that c and the steps g define.
Steps(S, N) == [1 .. N -> [S -> S]]
Follows(f, S, N, c, g) == /\ f \in [0 .. N -> S]
                          /\ f[0] = c
                          /\ \A i \in 1 .. N : f[i] = g[i][f[i - 1]]

\* There is such a function.
THEOREM Recursion ==
  ASSUME NEW N \in Nat, NEW S, NEW c \in S, NEW g \in Steps(S, N)
  PROVE  \E f : Follows(f, S, N, c, g)
<1> USE DEF Steps
<1> DEFINE Starts(n, f) == f[0] = c /\ \A i \in 1 .. n : f[i] = g[i][f[i - 1]]
<1>1. PICK T : T = {n \in 0 .. N : \E f \in [0 .. N -> S] : Starts(n, f)}
  OBVIOUS
<1>2. 0 \in T
  <2>1. Starts(0, [i \in 0 .. N |-> c])
    OBVIOUS
  <2>2. [i \in 0 .. N |-> c] \in [0 .. N -> S]
    OBVIOUS
  <2>3. 0 \in 0 .. N
    OBVIOUS
  <2> HIDE DEF Starts
  <2>4. QED
    BY <2>1, <2>2, <2>3, <1>1
<1>3. ASSUME NEW n \in 1 .. N, n - 1 \in T PROVE n \in T
  <2>1. PICK f \in [0 .. N -> S] : Starts(n - 1, f)
    BY <1>1, <1>3
  <2>2. PICK h : h = [f EXCEPT ![n] = g[n][f[n - 1]]]
    OBVIOUS
  <2>3. n \in 1 .. N /\ n - 1 \in 0 .. N /\ g[n][f[n - 1]] \in S
    BY <1>3
  <2>4. h \in [0 .. N -> S] /\ h[n] = g[n][f[n - 1]] /\ \A i \in 0 .. n - 1 : h[i] = f[i]
    BY <2>2, <2>3
  <2>5. ASSUME NEW i \in 1 .. n PROVE h[i] = g[i][h[i - 1]]
    <3>1. i - 1 \in 0 .. n - 1 /\ (i = n \/ (i \in 1 .. n - 1 /\ i \in 0 .. n - 1))
      OBVIOUS
    <3>2. QED
      BY <2>1, <2>4, <3>1
  <2>6. Starts(n, h)
    BY <2>1, <2>4, <2>5
  <2> HIDE DEF Starts
  <2>7. QED
    BY <2>4, <2>6, <1>1
<1>4. N \in T
  <2>1. \A i \in 0 .. N : i \in T
    BY <1>2, <1>3, UpTo
  <2>2. QED
    BY <2>1
<1>5. PICK f : f \in [0 .. N -> S] /\ Starts(N, f)
  BY <1>1, <1>4
<1>6. Follows(f, S, N, c, g)
  BY <1>5 DEF Follows
<1>7. QED
  BY <1>6
=============================================================================
