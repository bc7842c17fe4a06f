--------------------------- MODULE SerialLinkProofs ---------------------------
(***************************************************************************)
(* Proofs about SerialLink, for rings and lines of every size.             *)
(***************************************************************************)
EXTENDS SerialLink, Induction

-------------------------------------------------------------------------------
(* Sequences.                                                                *)

\* Two sequences of the same length with the same elements are equal.
LEMMA SameElements ==
  ASSUME NEW S, NEW s \in Seq(S), NEW t \in Seq(S), Len(s) = Len(t),
         \A i \in 1 .. Len(s) : s[i] = t[i]
  PROVE  s = t
OBVIOUS

\* The equations of Kept: what is kept of each beginning of the sequence.
Keeps(f, S, cs, ps) ==
  /\ f \in [0 .. Len(cs) -> Seq(S)]
  /\ f[0] = <<>>
  /\ \A i \in 1 .. Len(cs) :
        f[i] = IF i \in ps THEN Append(f[i - 1], cs[i]) ELSE f[i - 1]

LEMMA KeptEquations ==
  ASSUME NEW S, NEW cs \in Seq(S), NEW ps
  PROVE  \E f : Keeps(f, S, cs, ps) /\ Kept(cs, ps) = f[Len(cs)]
<1>1. PICK N \in Nat : N = Len(cs)
  OBVIOUS
<1>2. PICK Q : Q = Seq(S)
  OBVIOUS
<1>3. PICK g : g = [i \in 1 .. N |-> [v \in Q |-> IF i \in ps THEN Append(v, cs[i]) ELSE v]]
  OBVIOUS
<1>4. g \in Steps(Q, N) /\ \A i \in 1 .. N, v \in Q :
                             g[i][v] = IF i \in ps THEN Append(v, cs[i]) ELSE v
  <2>1. \A i \in 1 .. N, v \in Q : (IF i \in ps THEN Append(v, cs[i]) ELSE v) \in Q
    BY <1>1, <1>2
  <2>2. QED
    BY <1>3, <2>1 DEF Steps
<1>5. PICK z \in Q : z = <<>>
  <2>1. <<>> \in Q
    BY <1>2
  <2>2. QED
    BY <2>1
<1>6. PICK h : Follows(h, Q, N, z, g)
  BY <1>4, <1>5, Recursion
<1>7. ASSUME NEW i \in 1 .. N
      PROVE  h[i] = IF i \in ps THEN Append(h[i - 1], cs[i]) ELSE h[i - 1]
  <2>1. i - 1 \in 0 .. N
    OBVIOUS
  <2>2. h[i - 1] \in Q /\ h[i] = g[i][h[i - 1]]
    BY <1>6, <2>1 DEF Follows
  <2>3. QED
    BY <1>4, <2>2
<1> DEFINE F == CHOOSE f : f = [i \in 0 .. N |->
                  IF i = 0 THEN <<>>
                  ELSE IF i \in ps THEN Append(f[i - 1], cs[i]) ELSE f[i - 1]]
<1>8. F = [i \in 0 .. N |->
             IF i = 0 THEN <<>>
             ELSE IF i \in ps THEN Append(F[i - 1], cs[i]) ELSE F[i - 1]]
  <2>1. h = [i \in 0 .. N |->
               IF i = 0 THEN <<>>
               ELSE IF i \in ps THEN Append(h[i - 1], cs[i]) ELSE h[i - 1]]
    <3>1. h \in [0 .. N -> Q] /\ h[0] = <<>>
      BY <1>5, <1>6 DEF Follows
    <3>2. \A i \in 0 .. N : i = 0 \/ i \in 1 .. N
      OBVIOUS
    <3>3. \A i \in 0 .. N : h[i] = IF i = 0 THEN <<>>
                                  ELSE IF i \in ps THEN Append(h[i - 1], cs[i]) ELSE h[i - 1]
      BY <1>7, <3>1, <3>2
    <3>4. QED
      BY <3>1, <3>3
  <2>2. QED
    BY <2>1
<1>9. Kept(cs, ps) = F[N]
  BY <1>1 DEF Kept
<1> HIDE DEF F
<1>10. F[0] = <<>> /\ DOMAIN F = 0 .. N /\ F = [i \in 0 .. N |-> F[i]]
  BY <1>8
<1>11. ASSUME NEW i \in 1 .. N
       PROVE  F[i] = IF i \in ps THEN Append(F[i - 1], cs[i]) ELSE F[i - 1]
  <2>1. i \in 0 .. N /\ i # 0
    OBVIOUS
  <2>2. QED
    BY <1>8, <2>1
<1>12. \A i \in 0 .. N : F[i] \in Q
  <2>1. PICK T : T = {i \in 0 .. N : F[i] \in Q}
    OBVIOUS
  <2>2. 0 \in T
    BY <1>5, <1>10, <2>1
  <2>3. ASSUME NEW i \in 1 .. N, i - 1 \in T PROVE i \in T
    <3>1. F[i - 1] \in Seq(S) /\ cs[i] \in S /\ i \in 0 .. N
      BY <1>1, <1>2, <2>1, <2>3
    <3>2. F[i] \in Seq(S)
      <4>1. Append(F[i - 1], cs[i]) \in Seq(S)
        BY <3>1
      <4>2. QED
        BY <1>11, <3>1, <4>1
    <3>3. QED
      BY <1>2, <2>1, <3>1, <3>2
  <2>4. QED
    BY <2>1, <2>2, <2>3, UpTo
<1>13. F \in [0 .. N -> Q]
  BY <1>10, <1>12
<1>14. Keeps(F, S, cs, ps) /\ Kept(cs, ps) = F[Len(cs)]
  BY <1>1, <1>2, <1>9, <1>10, <1>11, <1>13 DEF Keeps
<1>15. QED
  BY <1>14

\* The elements of two sequences put together.
LEMMA ConcatFacts ==
  ASSUME NEW S, NEW s \in Seq(S), NEW d \in Seq(S)
  PROVE  /\ s \o d \in Seq(S) /\ Len(s \o d) = Len(s) + Len(d)
         /\ \A k \in 1 .. Len(s) : (s \o d)[k] = s[k]
         /\ \A k \in 1 .. Len(d) : (s \o d)[Len(s) + k] = d[k]
OBVIOUS

\* What is kept of a sequence is a sequence of the same elements, no longer.
LEMMA KeptType ==
  ASSUME NEW S, NEW cs \in Seq(S), NEW ps
  PROVE  Kept(cs, ps) \in Seq(S) /\ Len(Kept(cs, ps)) <= Len(cs)
<1>1. PICK N \in Nat : N = Len(cs)
  OBVIOUS
<1>2. PICK f \in [0 .. N -> Seq(S)] :
        /\ Kept(cs, ps) = f[N]
        /\ f[0] = <<>>
        /\ \A i \in 1 .. N : f[i] = IF i \in ps THEN Append(f[i - 1], cs[i]) ELSE f[i - 1]
  <2>1. PICK f : Keeps(f, S, cs, ps) /\ Kept(cs, ps) = f[Len(cs)]
    BY KeptEquations
  <2>2. QED
    BY <1>1, <2>1 DEF Keeps
<1>3. PICK T : T = {i \in 0 .. N : Len(f[i]) <= i}
  OBVIOUS
<1>4. 0 \in T
  BY <1>2, <1>3
<1>5. ASSUME NEW i \in 1 .. N, i - 1 \in T PROVE i \in T
  <2>1. i \in 0 .. N /\ i - 1 \in 0 .. N /\ Len(f[i - 1]) <= i - 1
    BY <1>3, <1>5
  <2>2. f[i - 1] \in Seq(S) /\ cs[i] \in S
    BY <1>1, <2>1
  <2>3. Len(Append(f[i - 1], cs[i])) = Len(f[i - 1]) + 1 /\ Len(f[i - 1]) \in Nat
    BY <2>2
  <2>4. Len(f[i]) <= i
    <3>1. f[i] = f[i - 1] \/ f[i] = Append(f[i - 1], cs[i])
      BY <1>2
    <3>2. QED
      BY <2>1, <2>3, <3>1
  <2>5. QED
    BY <1>3, <2>1, <2>4
<1>6. \A i \in 0 .. N : i \in T
  BY <1>4, <1>5, UpTo
<1>7. QED
  BY <1>1, <1>2, <1>3, <1>6

\* One more element.
LEMMA KeptAppend ==
  ASSUME NEW S, NEW cs \in Seq(S), NEW d \in S, NEW ps, NEW qs,
         \A i \in 1 .. Len(cs) : i \in ps <=> i \in qs
  PROVE  Kept(Append(cs, d), qs) =
           IF Len(cs) + 1 \in qs THEN Append(Kept(cs, ps), d) ELSE Kept(cs, ps)
<1>1. PICK N \in Nat : N = Len(cs)
  OBVIOUS
<1>2. PICK f \in [0 .. N -> Seq(S)] :
        /\ Kept(cs, ps) = f[N]
        /\ f[0] = <<>>
        /\ \A i \in 1 .. N : f[i] = IF i \in ps THEN Append(f[i - 1], cs[i]) ELSE f[i - 1]
  <2>1. PICK f : Keeps(f, S, cs, ps) /\ Kept(cs, ps) = f[Len(cs)]
    BY KeptEquations
  <2>2. QED
    BY <1>1, <2>1 DEF Keeps
<1>3. PICK ds \in Seq(S) : ds = Append(cs, d)
  <2>1. Append(cs, d) \in Seq(S)
    OBVIOUS
  <2>2. QED
    BY <2>1
<1>4. Len(ds) = N + 1 /\ ds[N + 1] = d /\ \A i \in 1 .. N : ds[i] = cs[i]
  BY <1>1, <1>3
<1>5. PICK h \in [0 .. N + 1 -> Seq(S)] :
        /\ Kept(ds, qs) = h[N + 1]
        /\ h[0] = <<>>
        /\ \A i \in 1 .. N + 1 : h[i] = IF i \in qs THEN Append(h[i - 1], ds[i]) ELSE h[i - 1]
  <2>1. PICK h : Keeps(h, S, ds, qs) /\ Kept(ds, qs) = h[Len(ds)]
    BY KeptEquations
  <2>2. QED
    BY <1>4, <2>1 DEF Keeps
<1>6. PICK T : T = {i \in 0 .. N : f[i] = h[i]}
  OBVIOUS
<1>7. 0 \in T
  BY <1>2, <1>5, <1>6
<1>8. ASSUME NEW i \in 1 .. N, i - 1 \in T PROVE i \in T
  <2>0. i \in 0 .. N /\ i \in 1 .. N + 1
    OBVIOUS
  <2>1. i \in 0 .. N /\ i \in 1 .. N + 1 /\ f[i - 1] = h[i - 1] /\ ds[i] = cs[i]
    <3>1. f[i - 1] = h[i - 1]
      BY <1>6, <1>8
    <3>2. ds[i] = cs[i]
      BY <1>4
    <3>3. QED
      BY <2>0, <3>1, <3>2
  <2>2. f[i] = h[i]
    BY <1>1, <1>2, <1>5, <2>1
  <2>3. QED
    BY <1>6, <2>1, <2>2
<1>9. f[N] = h[N]
  <2>1. \A i \in 0 .. N : i \in T
    BY <1>7, <1>8, UpTo
  <2>2. QED
    BY <1>6, <2>1
<1>10. h[N + 1] = IF N + 1 \in qs THEN Append(h[N], d) ELSE h[N]
  <2>1. PICK j \in 1 .. N + 1 : j = N + 1
    OBVIOUS
  <2>2. h[j] = IF j \in qs THEN Append(h[j - 1], ds[j]) ELSE h[j - 1]
    BY <1>5
  <2>3. j - 1 = N
    BY <2>1
  <2>4. QED
    BY <1>4, <2>1, <2>2, <2>3
<1>11. QED
  BY <1>1, <1>2, <1>3, <1>5, <1>9, <1>10

LEMMA KeptEmpty == \A ps : Kept(<<>>, ps) = <<>>
<1> TAKE ps
<1>1. PICK S : S = {ps}
  OBVIOUS
<1>2. <<>> \in Seq(S) /\ Len(<<>>) = 0
  OBVIOUS
<1>3. PICK f : Keeps(f, S, <<>>, ps) /\ Kept(<<>>, ps) = f[Len(<<>>)]
  BY <1>2, KeptEquations
<1>4. QED
  BY <1>2, <1>3 DEF Keeps

\* What FlattenSeq makes of sequences is a sequence of their elements.
LEMMA FlattenType ==
  ASSUME NEW S, NEW ss \in Seq(Seq(S)), ss # <<>>
  PROVE  FlattenSeq(ss) \in Seq(S)
<1>1. PICK N \in Nat \ {0} : N = Len(ss)
  <2>1. Len(ss) \in Nat /\ Len(ss) # 0
    OBVIOUS
  <2>2. QED
    BY <2>1
<1>2. \A i \in 1 .. N : ss[i] \in Seq(S)
  BY <1>1
<1>3. PICK Q : Q = Seq(S)
  OBVIOUS
<1>4. N - 1 \in Nat /\ 1 \in 1 .. N /\ ss[1] \in Q /\ N - 1 \in 0 .. N - 1
  BY <1>2, <1>3
<1>5. PICK g : g = [i \in 1 .. N - 1 |-> [v \in Q |-> v \o ss[i + 1]]]
  OBVIOUS
<1>6. g \in Steps(Q, N - 1) /\ \A i \in 1 .. N - 1, v \in Q : g[i][v] = v \o ss[i + 1]
  <2>1. ASSUME NEW i \in 1 .. N - 1, NEW v \in Q PROVE v \o ss[i + 1] \in Q
    <3>1. i + 1 \in 1 .. N /\ ss[i + 1] \in Seq(S) /\ v \in Seq(S)
      BY <1>2, <1>3
    <3>2. v \o ss[i + 1] \in Seq(S)
      BY <3>1
    <3>3. QED
      BY <1>3, <3>2
  <2>2. QED
    BY <1>5, <2>1 DEF Steps
<1>7. PICK h : Follows(h, Q, N - 1, ss[1], g)
  BY <1>4, <1>6, Recursion
<1> DEFINE Flat(f) == [i \in 1 .. Len(ss) |-> IF i = 1 THEN ss[i] ELSE f[i - 1] \o ss[i]]
           F == CHOOSE f : f = Flat(f)
<1>8. \E f : f = Flat(f)
  <2>1. PICK k : k = [i \in 1 .. N |-> h[i - 1]]
    OBVIOUS
  <2>2. ASSUME NEW i \in 2 .. N PROVE k[i] = k[i - 1] \o ss[i]
    <3>1. i \in 1 .. N /\ i - 1 \in 1 .. N /\ i - 1 \in 1 .. N - 1 /\ i - 1 - 1 \in 0 .. N - 1
          /\ i - 1 + 1 = i
      OBVIOUS
    <3>2. h[i - 1] = g[i - 1][h[i - 1 - 1]] /\ h[i - 1 - 1] \in Q
      BY <1>7, <3>1 DEF Follows
    <3>3. g[i - 1][h[i - 1 - 1]] = h[i - 1 - 1] \o ss[i - 1 + 1]
      BY <1>6, <3>1, <3>2
    <3>4. QED
      BY <2>1, <3>1, <3>2, <3>3
  <2>3. k[1] = ss[1]
    <3>1. h[1 - 1] = ss[1]
      BY <1>7 DEF Follows
    <3>2. QED
      BY <1>4, <2>1, <3>1
  <2>4. \A i \in 1 .. N : i = 1 \/ i \in 2 .. N
    OBVIOUS
  <2>5. \A i \in 1 .. N : k[i] = IF i = 1 THEN ss[i] ELSE k[i - 1] \o ss[i]
    BY <2>2, <2>3, <2>4
  <2>6. k = Flat(k)
    BY <1>1, <2>1, <2>5
  <2>7. QED
    BY <2>6
<1>9. F = Flat(F)
  BY <1>8
<1>10. FlattenSeq(ss) = F[N]
  BY <1>1 DEF FlattenSeq
<1> HIDE DEF F
<1>11. F = [i \in 1 .. N |-> IF i = 1 THEN ss[i] ELSE F[i - 1] \o ss[i]]
  BY <1>1, <1>9
<1>12. PICK T : T = {i \in 0 .. N - 1 : F[i + 1] \in Seq(S)}
  OBVIOUS
<1>13. 0 \in T
  <2>1. F[1] = ss[1] /\ 0 \in 0 .. N - 1 /\ 0 + 1 = 1
    BY <1>4, <1>11
  <2>2. QED
    BY <1>2, <1>4, <1>12, <2>1
<1>14. ASSUME NEW i \in 1 .. N - 1, i - 1 \in T PROVE i \in T
  <2>1. PICK j \in 1 .. N : j = i + 1
    OBVIOUS
  <2>2. j # 1 /\ j - 1 = i /\ i - 1 + 1 = i /\ i \in 0 .. N - 1
    BY <2>1
  <2>3. F[j] = F[i] \o ss[j]
    BY <1>11, <2>2
  <2>4. F[i] \in Seq(S) /\ ss[j] \in Seq(S)
    BY <1>2, <1>12, <1>14, <2>2
  <2>5. F[i] \o ss[j] \in Seq(S)
    BY <2>4
  <2>6. QED
    BY <1>12, <2>1, <2>2, <2>3, <2>5
<1>15. N - 1 \in T
  <2>1. \A i \in 0 .. N - 1 : i \in T
    BY <1>4, <1>13, <1>14, UpTo
  <2>2. QED
    BY <1>4, <2>1
<1>16. QED
  <2>1. N - 1 + 1 = N
    OBVIOUS
  <2>2. QED
    BY <1>10, <1>12, <1>15, <2>1

-------------------------------------------------------------------------------
(* Rings.                                                                    *)

\* The arithmetic of the ring: from one slot to the next, and k slots on.
LEMMA RingArithmetic ==
  ASSUME NEW size \in Nat, NEW t \in 0 .. size - 1, NEW h \in 0 .. size - 1
  PROVE  /\ RingDistance(t, h, size) \in 0 .. size - 1
         /\ RingDistance(t, t, size) = 0
         /\ (RingDistance(t, h, size) = 0) = (t = h)
         /\ RingNext(h, size) \in 0 .. size - 1
         /\ RingPlus(t, RingDistance(t, h, size), size) = h
         /\ \A k \in 0 .. size - 1 : /\ RingPlus(t, k, size) \in 0 .. size - 1
                                      /\ RingDistance(t, RingPlus(t, k, size), size) = k
         /\ RingNext(h, size) = t <=> RingDistance(t, h, size) = size - 1
         /\ RingDistance(t, h, size) < size - 1 =>
               RingDistance(t, RingNext(h, size), size) = RingDistance(t, h, size) + 1
         /\ t # h => RingDistance(RingNext(t, size), h, size) = RingDistance(t, h, size) - 1
         /\ t # h => \A k \in 1 .. size - 1 :
                        RingPlus(RingNext(t, size), k - 1, size) = RingPlus(t, k, size)
         /\ \A n \in 0 .. size - 1 - RingDistance(t, h, size) :
               RingDistance(t, RingPlus(h, n, size), size) = RingDistance(t, h, size) + n
BY DEF RingDistance, RingNext, RingPlus

\* What is in the ring is a sequence of its elements.
LEMMA ContentsType ==
  ASSUME NEW S, NEW size \in Nat, NEW ring \in [0 .. size - 1 -> S],
         NEW t \in 0 .. size - 1, NEW h \in 0 .. size - 1
  PROVE  /\ Contents(ring, t, h, size) \in Seq(S)
         /\ Len(Contents(ring, t, h, size)) = RingDistance(t, h, size)
         /\ \A k \in 1 .. RingDistance(t, h, size) :
               Contents(ring, t, h, size)[k] = ring[RingPlus(t, k - 1, size)]
<1>1. PICK n \in 0 .. size - 1 : n = RingDistance(t, h, size)
  BY RingArithmetic
<1>2. \A k \in 1 .. n : k - 1 \in 0 .. size - 1 /\ ring[RingPlus(t, k - 1, size)] \in S
  BY RingArithmetic
<1>3. [k \in 1 .. n |-> ring[RingPlus(t, k - 1, size)]] \in Seq(S)
  BY <1>2
<1>4. QED
  BY <1>1, <1>3 DEF Contents

LEMMA ContentsEmpty ==
  ASSUME NEW S, NEW size \in Nat, NEW ring \in [0 .. size - 1 -> S], NEW t \in 0 .. size - 1
  PROVE  Contents(ring, t, t, size) = <<>>
<1>1. RingDistance(t, t, size) = 0
  BY DEF RingDistance
<1>2. PICK s : s = [k \in 1 .. 0 |-> ring[RingPlus(t, k - 1, size)]]
  OBVIOUS
<1>3. Contents(ring, t, t, size) = s
  BY <1>1, <1>2 DEF Contents
<1>4. s \in Seq(S) /\ Len(s) = 0
  BY <1>2
<1>5. s = <<>>
  BY <1>4
<1>6. QED
  BY <1>3, <1>5

IsRing(ring, t, h, size, S) ==
  /\ size \in Nat /\ ring \in [0 .. size - 1 -> S]
  /\ t \in 0 .. size - 1 /\ h \in 0 .. size - 1

Put(new, ring, h, c) == new = [ring EXCEPT ![h] = c]

\* A character that is put into a ring with room for it.
LEMMA ContentsPush ==
  ASSUME NEW S, NEW size, NEW ring, NEW t, NEW h, IsRing(ring, t, h, size, S),
         NEW c \in S, RingNext(h, size) # t, NEW new, Put(new, ring, h, c)
  PROVE  Contents(new, t, RingNext(h, size), size) = Append(Contents(ring, t, h, size), c)
<1> SUFFICES ASSUME size \in Nat, ring \in [0 .. size - 1 -> S],
                    t \in 0 .. size - 1, h \in 0 .. size - 1, new = [ring EXCEPT ![h] = c]
             PROVE  Contents(new, t, RingNext(h, size), size)
                      = Append(Contents(ring, t, h, size), c)
  BY DEF IsRing, Put
<1>1. PICK n \in 0 .. size - 2 : n = RingDistance(t, h, size)
  <2>1. RingDistance(t, h, size) \in 0 .. size - 1 /\ RingDistance(t, h, size) # size - 1
    BY DEF RingDistance, RingNext, RingPlus
  <2>2. RingDistance(t, h, size) \in 0 .. size - 2
    BY <2>1
  <2>3. QED
    BY <2>2
<1>2. RingNext(h, size) \in 0 .. size - 1 /\ RingDistance(t, RingNext(h, size), size) = n + 1
  BY <1>1 DEF RingDistance, RingNext, RingPlus
<1>3. new \in [0 .. size - 1 -> S] /\ new = [ring EXCEPT ![h] = c]
  OBVIOUS
<1>4. PICK s \in Seq(S) : s = Contents(ring, t, h, size)
  BY ContentsType
<1>5. PICK u \in Seq(S) : u = Contents(new, t, RingNext(h, size), size)
  BY <1>2, ContentsType
<1>6. Len(s) = n /\ \A k \in 1 .. n : s[k] = ring[RingPlus(t, k - 1, size)]
  <2>1. s = [k \in 1 .. n |-> ring[RingPlus(t, k - 1, size)]]
    BY <1>1, <1>4 DEF Contents
  <2>2. QED
    BY <2>1
<1>7. Len(u) = n + 1 /\ \A k \in 1 .. n + 1 : u[k] = new[RingPlus(t, k - 1, size)]
  <2>1. u = [k \in 1 .. n + 1 |-> new[RingPlus(t, k - 1, size)]]
    BY <1>2, <1>5 DEF Contents
  <2>2. QED
    BY <2>1
<1>8. ASSUME NEW k \in 1 .. n PROVE u[k] = s[k]
  <2>1. k - 1 \in 0 .. size - 1 /\ k - 1 # n
    BY <1>1
  <2>2. RingPlus(t, k - 1, size) \in 0 .. size - 1 /\ RingPlus(t, k - 1, size) # h
    BY <1>1, <2>1 DEF RingDistance, RingNext, RingPlus
  <2>3. QED
    BY <1>3, <1>6, <1>7, <2>2
<1>9. u[n + 1] = c
  <2>1. n + 1 \in 1 .. n + 1 /\ n + 1 - 1 = n /\ RingPlus(t, n, size) = h
    BY <1>1 DEF RingDistance, RingNext, RingPlus
  <2>2. QED
    BY <1>3, <1>7, <2>1
<1>10. PICK v \in Seq(S) : v = Append(s, c)
  <2>1. Append(s, c) \in Seq(S)
    OBVIOUS
  <2>2. QED
    BY <2>1
<1>11. Len(v) = n + 1 /\ v[n + 1] = c /\ \A k \in 1 .. n : v[k] = s[k]
  BY <1>6, <1>10
<1>12. \A k \in 1 .. n + 1 : k = n + 1 \/ k \in 1 .. n
  OBVIOUS
<1>13. u = v
  <2>1. \A k \in 1 .. Len(u) : u[k] = v[k]
    BY <1>7, <1>8, <1>9, <1>11, <1>12
  <2>2. QED
    BY <1>7, <1>11, <2>1, SameElements
<1>14. QED
  BY <1>3, <1>4, <1>5, <1>10, <1>13

\* The oldest character is taken out; its slot may be cleared.
LEMMA ContentsPop ==
  ASSUME NEW S, NEW size \in Nat, NEW ring \in [0 .. size - 1 -> S],
         NEW t \in 0 .. size - 1, NEW h \in 0 .. size - 1, t # h, NEW c \in S,
         NEW new \in {ring, [ring EXCEPT ![t] = c]}
  PROVE  /\ Contents(new, RingNext(t, size), h, size) = Tail(Contents(ring, t, h, size))
         /\ Contents(ring, t, h, size) # <<>>
         /\ ring[t] = Head(Contents(ring, t, h, size))
<1>1. PICK n \in 1 .. size - 1 : n = RingDistance(t, h, size)
  <2>1. RingDistance(t, h, size) \in 0 .. size - 1 /\ RingDistance(t, h, size) # 0
    BY DEF RingDistance, RingNext, RingPlus
  <2>2. RingDistance(t, h, size) \in 1 .. size - 1
    BY <2>1
  <2>3. QED
    BY <2>2
<1>2. RingNext(t, size) \in 0 .. size - 1 /\ RingDistance(RingNext(t, size), h, size) = n - 1
  BY <1>1 DEF RingDistance, RingNext, RingPlus
<1>3. new \in [0 .. size - 1 -> S] /\ \A i \in 0 .. size - 1 : i # t => new[i] = ring[i]
  OBVIOUS
<1>4. PICK s \in Seq(S) : s = Contents(ring, t, h, size)
  BY ContentsType
<1>5. PICK u \in Seq(S) : u = Contents(new, RingNext(t, size), h, size)
  BY <1>2, <1>3, ContentsType
<1>6. Len(s) = n /\ \A k \in 1 .. n : s[k] = ring[RingPlus(t, k - 1, size)]
  <2>1. s = [k \in 1 .. n |-> ring[RingPlus(t, k - 1, size)]]
    BY <1>1, <1>4 DEF Contents
  <2>2. QED
    BY <2>1
<1>7. Len(u) = n - 1 /\ \A k \in 1 .. n - 1 : u[k] = new[RingPlus(RingNext(t, size), k - 1, size)]
  <2>1. u = [k \in 1 .. n - 1 |-> new[RingPlus(RingNext(t, size), k - 1, size)]]
    BY <1>2, <1>5 DEF Contents
  <2>2. n - 1 \in Nat
    OBVIOUS
  <2>3. QED
    BY <2>1, <2>2
<1>8. ASSUME NEW k \in 1 .. n - 1 PROVE u[k] = s[k + 1]
  <2>1. k \in 1 .. size - 1 /\ k \in 0 .. size - 1 /\ k + 1 \in 1 .. n /\ k + 1 - 1 = k
    BY <1>1
  <2>2. RingPlus(RingNext(t, size), k - 1, size) = RingPlus(t, k, size)
    BY <2>1 DEF RingDistance, RingNext, RingPlus
  <2>3. RingPlus(t, k, size) \in 0 .. size - 1 /\ RingPlus(t, k, size) # t
    BY <2>1 DEF RingDistance, RingNext, RingPlus
  <2>4. QED
    BY <1>3, <1>6, <1>7, <2>1, <2>2, <2>3
<1>9. s # <<>> /\ Tail(s) \in Seq(S) /\ Len(Tail(s)) = n - 1 /\ Head(s) = s[1]
      /\ \A k \in 1 .. n - 1 : Tail(s)[k] = s[k + 1]
  BY <1>1, <1>6
<1>10. u = Tail(s)
  <2>1. \A k \in 1 .. Len(u) : u[k] = Tail(s)[k]
    BY <1>7, <1>8, <1>9
  <2>2. QED
    BY <1>7, <1>9, <2>1, SameElements
<1>11. s[1] = ring[t]
  <2>1. 1 \in 1 .. n /\ 1 - 1 = 0 /\ RingPlus(t, 0, size) = t
    BY <1>1 DEF RingPlus
  <2>2. QED
    BY <1>6, <2>1
<1>12. QED
  BY <1>4, <1>5, <1>9, <1>10, <1>11

-------------------------------------------------------------------------------
(* Types, and the characters in the rings.                                   *)

Printable == Kinds \cup {"eol"}

RxInv == /\ rx \in [0 .. RxRing - 1 -> Chars \cup {"none"}]
         /\ rxHead \in 0 .. RxRing - 1 /\ rxTail \in 0 .. RxRing - 1
         /\ rxDue \in Seq(Chars)
         /\ Contents(rx, rxTail, rxHead, RxRing) = rxDue
TxInv == /\ tx \in [0 .. TxRing - 1 -> Printable \cup {"none"}]
         /\ txHead \in 0 .. TxRing - 1 /\ txTail \in 0 .. TxRing - 1
         /\ txDue \in Seq(Printable)
         /\ Contents(tx, txTail, txHead, TxRing) = txDue
MainInv == /\ pcM \in {"read", "line", "print", "spin", "boot"}
           /\ line \in Seq(Chars) /\ Len(line) < LineSize
           /\ lineFlags \subseteq {"parentheses", "semicolon", "overflow"}
           /\ out \in Seq(Printable) /\ raw \in Seq(Chars \ {"eol"})
           /\ pcM = "spin" => out # <<>>
           /\ after \in {"read", "line"}
WriterInv == /\ pcW \in {"waitStart", "idle", "space", "add", "reply", "fail", "dead"}
             /\ command \in Seq(Chars) /\ added \in Nat /\ (pcW = "space" => command # <<>> /\ added = 0)
             /\ pcW = "add" => added < Len(command)
             /\ reply \in Seq(Printable)
             /\ written \in 0 .. MaxLines
FlagInv == txLock \in {"free", "main"} /\ reset \in BOOLEAN /\ hold \in BOOLEAN
           /\ query \in BOOLEAN /\ suspend \in BOOLEAN /\ holding \in BOOLEAN
\* There is room for what the writer has still to add.
RoomInv == pcW = "add" => Len(command) - added <= RxSize - RingDistance(rxTail, rxHead, RxRing)

LinkInv == RxInv /\ TxInv /\ MainInv /\ WriterInv /\ FlagInv /\ RoomInv

LEMMA Bounds ==
  /\ RxSize \in Nat \ {0} /\ TxSize \in Nat \ {0} /\ LineSize \in Nat \ {0} /\ MaxLines \in Nat
  /\ RxRing \in Nat /\ RxRing = RxSize + 1 /\ RxRing - 1 = RxSize
  /\ TxRing \in Nat /\ TxRing = TxSize + 1 /\ TxRing - 1 = TxSize
BY LinkAssumption DEF RxRing, TxRing

LEMMA SeqFacts ==
  ASSUME NEW S, NEW s \in Seq(S)
  PROVE  /\ s # <<>> => Head(s) \in S /\ Tail(s) \in Seq(S)
         /\ \A c \in S : Append(s, c) \in Seq(S)
OBVIOUS

LEMMA RxInit == Init => RxInv
<1> SUFFICES ASSUME Init PROVE RxInv
  OBVIOUS
<1> USE DEF Init, RxInv
<1>1. rx \in [0 .. RxRing - 1 -> Chars \cup {"none"}] /\ 0 \in 0 .. RxRing - 1
  BY Bounds
<1>2. Contents(rx, 0, 0, RxRing) = <<>>
  BY <1>1, Bounds, ContentsEmpty
<1>3. QED
  BY <1>1, <1>2

LEMMA TxInit == Init => TxInv
<1> SUFFICES ASSUME Init PROVE TxInv
  OBVIOUS
<1> USE DEF Init, TxInv
<1>1. tx \in [0 .. TxRing - 1 -> Printable \cup {"none"}] /\ 0 \in 0 .. TxRing - 1
  BY Bounds
<1>2. Contents(tx, 0, 0, TxRing) = <<>>
  BY <1>1, Bounds, ContentsEmpty
<1>3. QED
  BY <1>1, <1>2

\* A character that is added finds room; the ! and ? are not added.
LEMMA RxAdd ==
  LinkInv /\ AddChar =>
    /\ RxInv'
    /\ command[added + 1] \in Chars
    /\ RingDistance(rxTail', rxHead', RxRing) <= RingDistance(rxTail, rxHead, RxRing) + 1
<1>0. SUFFICES ASSUME LinkInv, AddChar
               PROVE  /\ RxInv'
                      /\ command[added + 1] \in Chars
                      /\ RingDistance(rxTail', rxHead', RxRing)
                           <= RingDistance(rxTail, rxHead, RxRing) + 1
  OBVIOUS
<1> USE DEF RxInv
<1>1. /\ pcW = "add" /\ command \in Seq(Chars) /\ added \in Nat /\ added < Len(command)
      /\ Len(command) - added <= RxSize - RingDistance(rxTail, rxHead, RxRing)
  BY <1>0 DEF LinkInv, WriterInv, RoomInv, AddChar
<1>2. PICK S : S = Chars \cup {"none"}
  OBVIOUS
<1>3. PICK c \in Chars : c = command[added + 1]
  BY <1>1
<1>4. /\ rx \in [0 .. RxRing - 1 -> S] /\ c \in S
      /\ rxHead \in 0 .. RxRing - 1 /\ rxTail \in 0 .. RxRing - 1
      /\ rxDue \in Seq(Chars) /\ Contents(rx, rxTail, rxHead, RxRing) = rxDue
  BY <1>0, <1>2 DEF LinkInv
<1>5. RingDistance(rxTail, rxHead, RxRing) \in 0 .. RxRing - 1
  BY <1>4, Bounds, RingArithmetic
<1>6. CASE c \in Realtime
  <2>1. UNCHANGED <<rx, rxHead, rxTail, rxDue>>
    BY <1>0, <1>3, <1>6 DEF AddChar
  <2>2. QED
    BY <1>2, <1>3, <1>4, <1>5, <2>1
<1>7. CASE c \notin Realtime
  <2>1. /\ rx' = [rx EXCEPT ![rxHead] = c] /\ rxHead' = RingNext(rxHead, RxRing)
        /\ rxTail' = rxTail /\ rxDue' = Append(rxDue, c)
    BY <1>0, <1>3, <1>7 DEF AddChar
  <2>2. RingDistance(rxTail, rxHead, RxRing) < RxRing - 1
    BY <1>1, <1>5, Bounds
  <2>3. /\ RingNext(rxHead, RxRing) # rxTail /\ RingNext(rxHead, RxRing) \in 0 .. RxRing - 1
        /\ RingDistance(rxTail, RingNext(rxHead, RxRing), RxRing)
             = RingDistance(rxTail, rxHead, RxRing) + 1
    BY <1>4, <2>2, Bounds, RingArithmetic
  <2>4. IsRing(rx, rxTail, rxHead, RxRing, S) /\ Put(rx', rx, rxHead, c)
    BY <1>4, <2>1, Bounds DEF IsRing, Put
  <2>5. Contents(rx', rxTail, RingNext(rxHead, RxRing), RxRing)
          = Append(Contents(rx, rxTail, rxHead, RxRing), c)
    BY <1>4, <2>3, <2>4, ContentsPush
  <2>6. rx' \in [0 .. RxRing - 1 -> S] /\ Append(rxDue, c) \in Seq(Chars)
    BY <1>4, <2>1
  <2>7. RxInv'
    <3>1. /\ rx' \in [0 .. RxRing - 1 -> S] /\ rxHead' \in 0 .. RxRing - 1
          /\ rxTail' \in 0 .. RxRing - 1 /\ rxDue' \in Seq(Chars)
      BY <1>4, <2>1, <2>3, <2>6
    <3>2. Contents(rx', rxTail', rxHead', RxRing) = rxDue'
      BY <1>4, <2>1, <2>5
    <3>3. QED
      BY <1>2, <3>1, <3>2
  <2>8. RingDistance(rxTail', rxHead', RxRing) = RingDistance(rxTail, rxHead, RxRing) + 1
    BY <2>1, <2>3
  <2>9. QED
    BY <1>3, <1>5, <2>7, <2>8
<1>8. QED
  BY <1>6, <1>7

LEMMA RxRead == LinkInv /\ ReadChar => RxInv' /\ rx[rxTail] = Head(rxDue) /\ rxDue # <<>>
<1> SUFFICES ASSUME LinkInv, ReadChar
             PROVE  RxInv' /\ rx[rxTail] = Head(rxDue) /\ rxDue # <<>>
  OBVIOUS
<1> USE DEF LinkInv, RxInv
<1>1. PICK S : S = Chars \cup {"none"}
  OBVIOUS
<1>2. PICK new : new = [rx EXCEPT ![rxTail] = "none"]
  OBVIOUS
<1>3. rx \in [0 .. RxRing - 1 -> S] /\ "none" \in S /\ new \in {rx, [rx EXCEPT ![rxTail] = "none"]}
      /\ new \in [0 .. RxRing - 1 -> S]
  BY <1>1, <1>2
<1>4. /\ rxHead # rxTail /\ rx' = new /\ rxHead' = rxHead
      /\ rxTail' = RingNext(rxTail, RxRing) /\ rxDue' = Tail(rxDue)
  BY <1>2 DEF ReadChar
<1>5. /\ Contents(new, RingNext(rxTail, RxRing), rxHead, RxRing) = Tail(Contents(rx, rxTail, rxHead, RxRing))
      /\ Contents(rx, rxTail, rxHead, RxRing) # <<>>
      /\ rx[rxTail] = Head(Contents(rx, rxTail, rxHead, RxRing))
  BY <1>3, <1>4, Bounds, ContentsPop
<1>6. RingNext(rxTail, RxRing) \in 0 .. RxRing - 1
  BY Bounds, RingArithmetic
<1>7. Tail(rxDue) \in Seq(Chars)
  BY <1>5
<1>8. QED
  BY <1>1, <1>3, <1>4, <1>5, <1>6, <1>7

LEMMA RxStep == LinkInv /\ [Next]_vars => RxInv'
<1> SUFFICES ASSUME LinkInv, [Next]_vars PROVE RxInv'
  OBVIOUS
<1>1. CASE AddChar
  BY <1>1, RxAdd
<1>2. CASE ReadChar
  BY <1>2, RxRead
<1>3. CASE Boot
  <2>1. /\ rxTail' = rxHead /\ rxHead' = rxHead /\ rx' = rx /\ rxDue' = <<>>
    BY <1>3 DEF Boot
  <2>2. Contents(rx, rxHead, rxHead, RxRing) = <<>>
    BY Bounds, ContentsEmpty DEF LinkInv, RxInv
  <2>3. QED
    BY <2>1, <2>2 DEF LinkInv, RxInv
<1>4. CASE UNCHANGED <<rxVars, rxDue>>
  BY <1>4 DEF LinkInv, RxInv, rxVars
<1>5. QED
  BY <1>1, <1>2, <1>3, <1>4
  DEF Next, Main, Writer, vars, Abort, StatusReport, FeedHold, HoldComplete, Resume, ExecuteLine, WriteChar, Spin,
      Printed, WriteCommand, Hear, Fail, TakeCommand

\* Printing a character into a ring that is not full.
LEMMA TxPush ==
  ASSUME TxInv, out \in Seq(Printable), out # <<>>, NextHead # txTail,
         tx' = [tx EXCEPT ![txHead] = Head(out)], txHead' = NextHead, txTail' = txTail,
         txDue' = Append(txDue, Head(out))
  PROVE  TxInv'
<1> USE DEF TxInv, NextHead
<1>1. PICK S : S = Printable \cup {"none"}
  OBVIOUS
<1>2. PICK c \in Printable : c = Head(out)
  BY SeqFacts
<1>3. tx \in [0 .. TxRing - 1 -> S] /\ c \in S /\ TxRing \in Nat
      /\ RingNext(txHead, TxRing) # txTail
  BY <1>1, Bounds
<1>4. Contents([tx EXCEPT ![txHead] = c], txTail, RingNext(txHead, TxRing), TxRing)
        = Append(Contents(tx, txTail, txHead, TxRing), c)
  <2>1. PICK new : new = [tx EXCEPT ![txHead] = c]
    OBVIOUS
  <2>2. IsRing(tx, txTail, txHead, TxRing, S) /\ Put(new, tx, txHead, c)
    BY <1>3, <2>1 DEF IsRing, Put
  <2>3. Contents(new, txTail, RingNext(txHead, TxRing), TxRing)
          = Append(Contents(tx, txTail, txHead, TxRing), c)
    BY <1>3, <2>2, ContentsPush
  <2>4. QED
    BY <2>1, <2>3
<1>5. RingNext(txHead, TxRing) \in 0 .. TxRing - 1
  BY Bounds, RingArithmetic
<1>6. Append(txDue, c) \in Seq(Printable)
  OBVIOUS
<1>7. tx' \in [0 .. TxRing - 1 -> S]
  BY <1>2, <1>3
<1>8. QED
  BY <1>1, <1>2, <1>4, <1>5, <1>6, <1>7

LEMMA TxHear == LinkInv /\ Hear => TxInv' /\ tx[txTail] = Head(txDue) /\ txDue # <<>>
<1> SUFFICES ASSUME LinkInv, Hear
             PROVE  TxInv' /\ tx[txTail] = Head(txDue) /\ txDue # <<>>
  OBVIOUS
<1> USE DEF LinkInv, TxInv
<1>1. PICK S : S = Printable \cup {"none"}
  OBVIOUS
<1>2. tx \in [0 .. TxRing - 1 -> S] /\ "none" \in S /\ tx \in {tx, [tx EXCEPT ![txTail] = "none"]}
      /\ TxRing \in Nat
  BY <1>1, Bounds
<1>3. txHead # txTail /\ tx' = tx /\ txHead' = txHead
      /\ txTail' = RingNext(txTail, TxRing) /\ txDue' = Tail(txDue)
  <2>1. TxCount > 0
    BY DEF Hear
  <2>2. txHead # txTail
    BY <2>1, Bounds DEF TxCount
  <2>3. QED
    BY <2>2 DEF Hear
<1>4. /\ Contents(tx, RingNext(txTail, TxRing), txHead, TxRing) = Tail(Contents(tx, txTail, txHead, TxRing))
      /\ Contents(tx, txTail, txHead, TxRing) # <<>>
      /\ tx[txTail] = Head(Contents(tx, txTail, txHead, TxRing))
  BY <1>2, <1>3, ContentsPop
<1>5. RingNext(txTail, TxRing) \in 0 .. TxRing - 1
  BY Bounds, RingArithmetic
<1>6. Tail(txDue) \in Seq(Printable)
  BY <1>4
<1>7. QED
  BY <1>3, <1>4, <1>5, <1>6

LEMMA TxStep == LinkInv /\ [Next]_vars => TxInv'
<1> SUFFICES ASSUME LinkInv, [Next]_vars PROVE TxInv'
  OBVIOUS
<1>1. CASE Hear
  BY <1>1, TxHear
<1>2. CASE (WriteChar \/ Spin) /\ ~UNCHANGED <<txVars, txDue>>
  <2>1. /\ out # <<>> /\ NextHead # txTail /\ tx' = [tx EXCEPT ![txHead] = Head(out)]
        /\ txHead' = NextHead /\ txTail' = txTail /\ txDue' = Append(txDue, Head(out))
    BY <1>2 DEF LinkInv, MainInv, WriteChar, Spin, txVars
  <2>2. QED
    BY <2>1, TxPush DEF LinkInv, MainInv
<1>3. CASE UNCHANGED <<txVars, txDue>>
  BY <1>3 DEF LinkInv, TxInv, txVars
<1>4. QED
  BY <1>1, <1>2, <1>3
  DEF Next, Main, Writer, vars, Abort, StatusReport, FeedHold, HoldComplete, Resume, ExecuteLine, WriteCommand,
      AddChar, Boot, ReadChar, Printed, Fail, TakeCommand

\* What grbl prints is made of the characters of its messages.
LEMMA MessageType ==
  ASSUME NEW kind \in Kinds, NEW n \in Nat
  PROVE  Message(kind, n) \in Seq(Printable)
<1>1. [i \in 1 .. n |-> kind] \in Seq(Printable)
  BY DEF Printable
<1>2. QED
  BY <1>1 DEF Message, Printable

LEMMA AnswersType ==
  ASSUME line \in Seq(Chars), NEW answer \in Answers
  PROVE  answer \in Seq(Printable)
<1>1. Message("ok", 1) \in Seq(Printable) /\ Message("error", 2) \in Seq(Printable)
  BY MessageType DEF Kinds
<1>2. ASSUME NEW rs \in Reports
      PROVE  FlattenSeq([i \in DOMAIN rs |-> Message("report", rs[i])]) \o Message("ok", 1)
               \in Seq(Printable)
  <2>1. rs \in Seq(Nat \ {0})
    BY LinkAssumption
  <2>2. ASSUME NEW i \in DOMAIN rs PROVE Message("report", rs[i]) \in Seq(Printable)
    <3>1. rs[i] \in Nat
      BY <2>1
    <3>2. QED
      BY <3>1, MessageType DEF Kinds
  <2>3. PICK Q : Q = Seq(Printable)
    OBVIOUS
  <2>4. PICK ms \in Seq(Q) : ms = [i \in DOMAIN rs |-> Message("report", rs[i])]
    <3>1. [i \in 1 .. Len(rs) |-> Message("report", rs[i])] \in Seq(Q)
      BY <2>1, <2>2, <2>3
    <3>2. DOMAIN rs = 1 .. Len(rs)
      BY <2>1
    <3>3. QED
      BY <3>1, <3>2
  <2>5. FlattenSeq(ms) \in Seq(Printable)
    <3>1. CASE ms = <<>>
      BY <3>1 DEF FlattenSeq
    <3>2. CASE ms # <<>>
      BY <2>3, <2>4, <3>2, FlattenType
    <3>3. QED
      BY <3>1, <3>2
  <2>6. QED
    BY <1>1, <2>4, <2>5
<1>3. <<>> \in Seq(Printable)
  OBVIOUS
<1>4. QED
  BY <1>1, <1>2, <1>3 DEF Answers

\* The filter appends to the line when there is room, and keeps its flags.
LEMMA FilterType ==
  ASSUME NEW c \in Chars, Filter(c), line \in Seq(Chars), Len(line) < LineSize,
         lineFlags \subseteq {"parentheses", "semicolon", "overflow"}
  PROVE  /\ line' \in Seq(Chars) /\ Len(line') < LineSize
         /\ lineFlags' \subseteq {"parentheses", "semicolon", "overflow"}
<1>1. line' = line \/ (line' = Append(line, c) /\ ~(Len(line) >= LineSize - 1))
  BY DEF Filter, FilterCode
<1>2. line' \in Seq(Chars) /\ Len(line') < LineSize
  BY <1>1, Bounds
<1>3. lineFlags' \subseteq {"parentheses", "semicolon", "overflow"}
  BY DEF Filter, FilterCode
<1>4. QED
  BY <1>2, <1>3

LEMMA MainStep == LinkInv /\ [Next]_vars => MainInv'
<1>0. SUFFICES ASSUME LinkInv, [Next]_vars PROVE MainInv'
  OBVIOUS
<1>1. MainInv
  BY <1>0 DEF LinkInv
<1>2. CASE ReadChar
  <2>1. PICK c \in Chars : c = rx[rxTail]
    <3>1. rxDue \in Seq(Chars) /\ rxDue # <<>> /\ rx[rxTail] = Head(rxDue)
      BY <1>0, <1>2, RxRead DEF LinkInv, RxInv
    <3>2. rx[rxTail] \in Chars
      BY <3>1, SeqFacts
    <3>3. QED
      BY <3>2
  <2>2. CASE c = "eol"
    BY <1>1, <1>2, <2>1, <2>2 DEF ReadChar, MainInv
  <2>3. CASE c # "eol"
    <3>1. Filter(c) /\ raw' = Append(raw, c) /\ pcM' = "read" /\ out' = out /\ after' = after
      BY <1>2, <2>1, <2>3 DEF ReadChar
    <3>2. /\ line' \in Seq(Chars) /\ Len(line') < LineSize
          /\ lineFlags' \subseteq {"parentheses", "semicolon", "overflow"}
      BY <1>1, <3>1, FilterType DEF MainInv
    <3>3. raw' \in Seq(Chars \ {"eol"})
      BY <1>1, <2>3, <3>1 DEF MainInv
    <3>4. QED
      BY <1>1, <3>1, <3>2, <3>3 DEF MainInv
  <2>4. QED
    BY <2>2, <2>3
<1>3. CASE ExecuteLine
  <2>1. out' \in Seq(Printable)
    BY <1>1, <1>3, AnswersType DEF ExecuteLine, MainInv
  <2>2. QED
    BY <1>3, <2>1, Bounds DEF ExecuteLine, MainInv
<1>4. CASE Boot
  <2>1. out' \in Seq(Printable)
    BY <1>4, MessageType DEF Boot, Kinds
  <2>2. QED
    BY <1>4, <2>1, Bounds DEF Boot, MainInv
<1>5. CASE WriteChar \/ Spin
  <2>1. out # <<>> /\ out' \in {out, Tail(out)} /\ Tail(out) \in Seq(Printable)
    BY <1>1, <1>5 DEF WriteChar, Spin, MainInv
  <2>2. pcM' \in {"print", "spin"} /\ (pcM' = "spin" => out' = out)
    BY <1>5 DEF WriteChar, Spin
  <2>3. UNCHANGED <<line, lineFlags, raw, after>>
    BY <1>5 DEF WriteChar, Spin
  <2>4. QED
    BY <1>1, <2>1, <2>2, <2>3 DEF MainInv
<1>6. CASE Abort \/ Printed
  BY <1>1, <1>6 DEF Abort, Printed, MainInv
<1>9. CASE StatusReport
  <2>1. out' \in Seq(Printable) /\ after' \in {"read", "line"}
    BY <1>9, MessageType DEF StatusReport, CheckPoint, Kinds
  <2>2. QED
    BY <1>1, <1>9, <2>1 DEF StatusReport, MainInv
<1>7. CASE UNCHANGED <<mainVars, raw>>
  BY <1>1, <1>7 DEF MainInv, mainVars
<1>8. QED
  BY <1>0, <1>2, <1>3, <1>4, <1>5, <1>6, <1>7, <1>9
  DEF Next, Main, Writer, vars, FeedHold, HoldComplete, Resume, WriteCommand, AddChar, Hear, Fail, TakeCommand

LEMMA WriterStep == LinkInv /\ [Next]_vars => WriterInv'
<1>0. SUFFICES ASSUME LinkInv, [Next]_vars PROVE WriterInv'
  OBVIOUS
<1>1. WriterInv
  BY <1>0 DEF LinkInv
<1>2. ASSUME NEW cmd \in Lines, TakeCommand(cmd) PROVE WriterInv'
  <2>1. cmd \in Seq(Chars) /\ cmd # <<>> /\ written' \in 0 .. MaxLines
    BY <1>1, <1>2, LinkAssumption DEF TakeCommand, WriterInv
  <2>2. QED
    BY <1>1, <1>2, <2>1 DEF TakeCommand, WriterInv
<1>3. CASE Hear
  <2>1. PICK c \in Printable : c = tx[txTail]
    <3>1. txDue \in Seq(Printable) /\ txDue # <<>> /\ tx[txTail] = Head(txDue)
      BY <1>0, <1>3, TxHear DEF LinkInv, TxInv
    <3>2. tx[txTail] \in Printable
      BY <3>1, SeqFacts
    <3>3. QED
      BY <3>2
  <2>2. /\ reply' = <<>> \/ reply' = Append(reply, c)
        /\ pcW' \in {pcW, "idle", "fail"} /\ UNCHANGED <<command, added, written>>
        /\ pcW \in {"waitStart", "reply"}
    BY <1>3, <2>1 DEF Hear, Collect
  <2>3. reply' \in Seq(Printable)
    <3>1. reply \in Seq(Printable) /\ Append(reply, c) \in Seq(Printable)
      BY <1>1, SeqFacts DEF WriterInv
    <3>2. <<>> \in Seq(Printable)
      OBVIOUS
    <3>3. QED
      BY <2>2, <3>1, <3>2
  <2>4. QED
    BY <1>1, <2>2, <2>3 DEF WriterInv
<1>4. CASE WriteCommand \/ Fail
  <2>1. command # <<>> => 0 < Len(command)
    BY <1>1 DEF WriterInv
  <2>2. QED
    BY <1>1, <1>4, <2>1 DEF WriteCommand, Fail, WriterInv
<1>7. CASE AddChar
  <2>1. /\ added' = added + 1 /\ UNCHANGED <<command, reply, written>>
        /\ pcW = "add" /\ pcW' = IF added + 1 = Len(command) THEN "reply" ELSE "add"
    BY <1>7 DEF AddChar
  <2>2. QED
    BY <1>1, <2>1 DEF WriterInv
<1>5. CASE UNCHANGED writerVars
  BY <1>1, <1>5 DEF WriterInv, writerVars
<1>6. QED
  BY <1>0, <1>2, <1>3, <1>4, <1>5, <1>7
  DEF Next, Main, Writer, vars, mainVars, Abort, StatusReport, FeedHold, HoldComplete, Resume, ExecuteLine, WriteChar,
      Spin, Boot, ReadChar, Printed

LEMMA FlagStep == LinkInv /\ [Next]_vars => FlagInv'
<1>0. SUFFICES ASSUME LinkInv, [Next]_vars PROVE FlagInv'
  OBVIOUS
<1>1. FlagInv
  BY <1>0 DEF LinkInv
<1>2. CASE WriteChar \/ Spin
  BY <1>1, <1>2 DEF WriteChar, Spin, FlagInv, flagVars
<1>3. CASE AddChar
  <2>1. hold' \in BOOLEAN
    BY <1>1, <1>3 DEF AddChar, FlagInv
  <2>2. query' \in BOOLEAN
    BY <1>1, <1>3 DEF AddChar, FlagInv
  <2>3. QED
    BY <1>1, <1>3, <2>1, <2>2 DEF AddChar, FlagInv
<1>4. CASE Boot \/ Fail \/ StatusReport \/ HoldComplete \/ Resume
  BY <1>1, <1>4 DEF Boot, Fail, StatusReport, HoldComplete, Resume, FlagInv
<1>7. CASE FeedHold
  <2>1. suspend' \in BOOLEAN /\ holding' \in BOOLEAN
    BY <1>1, <1>7 DEF FeedHold, FlagInv
  <2>2. QED
    BY <1>1, <1>7, <2>1 DEF FeedHold, FlagInv
<1>5. CASE UNCHANGED <<txLock, flagVars>>
  BY <1>1, <1>5 DEF FlagInv, flagVars
<1>6. QED
  BY <1>0, <1>2, <1>3, <1>4, <1>5, <1>7
  DEF Next, Main, Writer, vars, Abort, ExecuteLine, ReadChar, Printed, WriteCommand, Hear, TakeCommand

\* Main reads nothing while the writer adds, and a restart only makes room.
LEMMA RoomStep == LinkInv /\ [Next]_vars => RoomInv'
<1>0. SUFFICES ASSUME LinkInv, [Next]_vars PROVE RoomInv'
  OBVIOUS
<1>1. RxInv /\ WriterInv /\ RoomInv
  BY <1>0 DEF LinkInv
<1>2. CASE WriteCommand
  <2>1. /\ Available > Len(command) - 1 /\ added = 0 /\ Len(command) \in Nat
        /\ UNCHANGED <<rxHead, rxTail, command, added>>
    BY <1>1, <1>2 DEF WriteCommand, WriterInv, rxVars
  <2>2. Available = RxSize - RingDistance(rxTail, rxHead, RxRing) /\ Available \in Int
    BY <1>1, Bounds DEF RxInv, Available, RingDistance
  <2>3. QED
    BY <2>1, <2>2 DEF RoomInv
<1>3. CASE AddChar
  <2>1. /\ RingDistance(rxTail', rxHead', RxRing) <= RingDistance(rxTail, rxHead, RxRing) + 1
        /\ RxInv'
    BY <1>0, <1>3, RxAdd
  <2>2. pcW = "add" /\ added' = added + 1 /\ command' = command
    BY <1>3 DEF AddChar
  <2>3. /\ RingDistance(rxTail, rxHead, RxRing) \in Int /\ RingDistance(rxTail', rxHead', RxRing) \in Int
        /\ added \in Nat /\ Len(command) \in Nat
    BY <1>1, <2>1, Bounds, RingArithmetic DEF RxInv, WriterInv
  <2>4. QED
    BY <1>1, <2>1, <2>2, <2>3, Bounds DEF RoomInv
<1>4. CASE Boot
  <2>1. rxTail' = rxHead /\ rxHead' = rxHead /\ UNCHANGED <<pcW, command, added>>
    BY <1>4 DEF Boot, writerVars
  <2>2. RingDistance(rxHead, rxHead, RxRing) = 0 /\ RingDistance(rxTail, rxHead, RxRing) \in Nat
    BY <1>1, Bounds, RingArithmetic DEF RxInv
  <2>3. added \in Nat /\ Len(command) \in Nat
    BY <1>1 DEF WriterInv
  <2>4. QED
    BY <1>1, <2>1, <2>2, <2>3, Bounds DEF RoomInv
<1>5. CASE pcW' # "add"
  BY <1>5 DEF RoomInv
<1>6. CASE UNCHANGED <<pcW, command, added, rxHead, rxTail>>
  BY <1>1, <1>6 DEF RoomInv
<1>7. ASSUME NEW cmd \in Lines, TakeCommand(cmd) PROVE RoomInv'
  BY <1>7, <1>5 DEF TakeCommand
<1>8. CASE Hear \/ Fail \/ ReadChar
  <2>1. pcW' # "add"
    BY <1>8 DEF Hear, Collect, Fail, ReadChar, writerVars
  <2>2. QED
    BY <1>5, <2>1
<1>9. QED
  BY <1>0, <1>2, <1>3, <1>4, <1>6, <1>7, <1>8
  DEF Next, Main, Writer, vars, rxVars, writerVars, Abort, StatusReport, FeedHold, HoldComplete, Resume, ExecuteLine,
      WriteChar, Spin, Printed

LEMMA LinkInvariant == Spec => []LinkInv
<1>1. Init => LinkInv
  <2>1. Init => MainInv
    <3>1. Init => out \in Seq(Printable)
      BY MessageType DEF Init, Kinds
    <3>2. QED
      BY <3>1, Bounds DEF Init, MainInv
  <2>2. Init => WriterInv /\ FlagInv
    <3>1. 0 \in 0 .. MaxLines /\ <<>> \in Seq(Chars) /\ <<>> \in Seq(Printable)
      BY Bounds
    <3>2. Init => WriterInv
      BY <3>1 DEF Init, WriterInv
    <3>3. Init => FlagInv
      BY DEF Init, FlagInv
    <3>4. QED
      BY <3>2, <3>3
  <2>3. Init => RoomInv
    BY DEF Init, RoomInv
  <2>4. QED
    BY <2>1, <2>2, <2>3, RxInit, TxInit DEF LinkInv
<1>2. LinkInv /\ [Next]_vars => LinkInv'
  BY RxStep, TxStep, MainStep, WriterStep, FlagStep, RoomStep DEF LinkInv
<1>3. QED
  BY <1>1, <1>2, PTL DEF Spec

(* Every variable keeps its type: in particular the indices stay inside the *)
(* two rings and the line never fills its buffer.                           *)
THEOREM TypeCorrect == Spec => []TypeOK
<1>1. LinkInv => TypeOK
  <2>1. MainInv /\ FlagInv /\ WriterInv =>
          /\ txLock \in {"free", "main"} /\ reset \in BOOLEAN /\ hold \in BOOLEAN
          /\ query \in BOOLEAN /\ suspend \in BOOLEAN /\ holding \in BOOLEAN
          /\ pcM \in {"read", "line", "print", "spin", "boot"} /\ after \in {"read", "line"}
          /\ line \in Seq(Chars) /\ Len(line) < LineSize
          /\ lineFlags \subseteq {"parentheses", "semicolon", "overflow"}
          /\ pcW \in {"waitStart", "idle", "space", "add", "reply", "fail", "dead"}
          /\ command \in Seq(Chars) /\ added \in Nat /\ written \in 0 .. MaxLines
    BY DEF MainInv, FlagInv, WriterInv
  <2>2. RxInv => /\ rx \in [0 .. RxRing - 1 -> Chars \cup {"none"}]
                 /\ {rxHead, rxTail} \subseteq 0 .. RxRing - 1
    BY DEF RxInv
  <2>3. TxInv => /\ tx \in [0 .. TxRing - 1 -> Kinds \cup {"none", "eol"}]
                 /\ {txHead, txTail} \subseteq 0 .. TxRing - 1
    <3>1. Printable \cup {"none"} = Kinds \cup {"none", "eol"}
      BY DEF Printable
    <3>2. QED
      BY <3>1 DEF TxInv
  <2>4. QED
    BY <2>1, <2>2, <2>3 DEF LinkInv, TypeOK
<1>2. QED
  BY <1>1, LinkInvariant, PTL

(* Both rings of grbl_serial.c deliver every character once and in order,   *)
(* for rings, lines and replies of every size.                              *)
THEOREM BothRingsIntact == Spec => []RingsIntact
<1>1. LinkInv => RingsIntact
  BY DEF LinkInv, RxInv, TxInv, RingsIntact
<1>2. QED
  BY <1>1, LinkInvariant, PTL

-------------------------------------------------------------------------------
(* The line filter.                                                          *)

Longer(ds, cs, c, n) == ds = Append(cs, c) /\ n = Len(cs) + 1

LongerComments(ds, cs, c, n, S) ==
  /\ ds \in Seq(S) /\ Len(ds) = n /\ ds[n] = c /\ \A p \in 1 .. n - 1 : ds[p] = cs[p]
  /\ \A p \in 1 .. n : InParentheses(ds, p) <=> InParentheses(cs, p)
  /\ \A p \in 1 .. n : BehindSemicolon(ds, p) <=> BehindSemicolon(cs, p)
  /\ InParentheses(ds, n + 1) <=> (c = "(" \/ (InParentheses(cs, n) /\ c # ")"))
  /\ BehindSemicolon(ds, n + 1)
       <=> (BehindSemicolon(cs, n) \/ (c = ";" /\ ~InParentheses(cs, n)))

\* One more character: what stays as it was, and what it changes.
LEMMA CommentsAppend ==
  ASSUME NEW S, NEW cs \in Seq(S), NEW c \in S, NEW ds, NEW n, Longer(ds, cs, c, n)
  PROVE  LongerComments(ds, cs, c, n, S)
<1>1. /\ ds \in Seq(S) /\ Len(ds) = n /\ ds[n] = c /\ \A p \in 1 .. n - 1 : ds[p] = cs[p]
      /\ n \in Nat /\ n = Len(cs) + 1
  BY DEF Longer
<1>0. 1 .. (n + 1) - 1 = 1 .. n /\ n \in 1 .. n /\ \A q \in 1 .. n - 1 : q \in 1 .. n
  BY <1>1
<1>2. ASSUME NEW p \in 1 .. n PROVE InParentheses(ds, p) <=> InParentheses(cs, p)
  <2>1. \A q \in 1 .. p - 1 : ds[q] = cs[q] /\ \A r \in q + 1 .. p - 1 : ds[r] = cs[r]
    BY <1>1
  <2>2. QED
    BY <2>1 DEF InParentheses
<1>3. ASSUME NEW p \in 1 .. n PROVE BehindSemicolon(ds, p) <=> BehindSemicolon(cs, p)
  <2>1. \A q \in 1 .. p - 1 : ds[q] = cs[q] /\ (InParentheses(ds, q) <=> InParentheses(cs, q))
    BY <1>1, <1>2
  <2>2. QED
    BY <2>1 DEF BehindSemicolon
<1>4. InParentheses(ds, n + 1) <=> (c = "(" \/ (InParentheses(cs, n) /\ c # ")"))
  <2>1. ASSUME c = "(" PROVE InParentheses(ds, n + 1)
    <3>1. n \in 1 .. n /\ ds[n] = "(" /\ n + 1 - 1 = n
      BY <1>1, <2>1
    <3>2. \A r \in n + 1 .. n : ds[r] # ")"
      BY <1>1
    <3>3. QED
      BY <3>1, <3>2 DEF InParentheses
  <2>2. ASSUME InParentheses(cs, n), c # ")" PROVE InParentheses(ds, n + 1)
    <3>1. PICK q \in 1 .. n - 1 : cs[q] = "(" /\ \A r \in q + 1 .. n - 1 : cs[r] # ")"
      BY <2>2 DEF InParentheses
    <3>2. q \in 1 .. n /\ ds[q] = "("
      BY <1>1, <3>1
    <3>3. \A r \in q + 1 .. n : ds[r] # ")"
      BY <1>1, <2>2, <3>1
    <3>4. \E q1 \in 1 .. (n + 1) - 1 :
             ds[q1] = "(" /\ \A r \in q1 + 1 .. (n + 1) - 1 : ds[r] # ")"
      <4>1. (n + 1) - 1 = n
        BY <1>1
      <4>2. QED
        BY <1>0, <3>2, <3>3, <4>1
    <3>5. QED
      BY <3>4 DEF InParentheses
  <2>3. ASSUME InParentheses(ds, n + 1), c # "(" PROVE InParentheses(cs, n) /\ c # ")"
    <3>1. PICK q \in 1 .. n : ds[q] = "(" /\ \A r \in q + 1 .. n : ds[r] # ")"
      <4>1. (n + 1) - 1 = n
        BY <1>1
      <4>2. \E q \in 1 .. (n + 1) - 1 : ds[q] = "(" /\ \A r \in q + 1 .. (n + 1) - 1 : ds[r] # ")"
        BY <2>3 DEF InParentheses
      <4>3. QED
        BY <1>0, <4>1, <4>2
    <3>2. q \in 1 .. n - 1 /\ c # ")"
      BY <1>1, <2>3, <3>1
    <3>3. cs[q] = "(" /\ \A r \in q + 1 .. n - 1 : cs[r] # ")"
      BY <1>1, <3>1, <3>2
    <3>4. QED
      BY <3>2, <3>3 DEF InParentheses
  <2>4. QED
    BY <2>1, <2>2, <2>3
<1>5. BehindSemicolon(ds, n + 1)
        <=> (BehindSemicolon(cs, n) \/ (c = ";" /\ ~InParentheses(cs, n)))
  <2>1. \A q \in 1 .. n : q = n \/ q \in 1 .. n - 1
    BY <1>1
  <2>3. BehindSemicolon(ds, n + 1) <=> \E q \in 1 .. n : ds[q] = ";" /\ ~InParentheses(ds, q)
    BY <1>0 DEF BehindSemicolon
  <2>4. BehindSemicolon(cs, n) <=> \E q \in 1 .. n - 1 : cs[q] = ";" /\ ~InParentheses(cs, q)
    BY DEF BehindSemicolon
  <2>5. QED
    BY <1>0, <1>1, <1>2, <2>1, <2>3, <2>4
<1>6. QED
  BY <1>1, <1>2, <1>3, <1>4, <1>5 DEF LongerComments

InCode(cs, c) == /\ c \notin {"(", ";", "blank"}
                 /\ ~InParentheses(cs, Len(cs) + 1) /\ ~BehindSemicolon(cs, Len(cs) + 1)

\* The code of a line grows with the characters outside comments.
LEMMA StripAppend ==
  ASSUME NEW S, NEW cs \in Seq(S), NEW c \in S
  PROVE  /\ Strip(cs) \in Seq(S)
         /\ Strip(Append(cs, c)) = IF InCode(cs, c) THEN Append(Strip(cs), c) ELSE Strip(cs)
<1>1. PICK ds : ds = Append(cs, c)
  OBVIOUS
<1>2. PICK n \in Nat : n = Len(cs) + 1
  OBVIOUS
<1>3. /\ ds \in Seq(S) /\ Len(ds) = n /\ ds[n] = c /\ \A p \in 1 .. n - 1 : ds[p] = cs[p]
      /\ \A p \in 1 .. n : InParentheses(ds, p) <=> InParentheses(cs, p)
      /\ \A p \in 1 .. n : BehindSemicolon(ds, p) <=> BehindSemicolon(cs, p)
  <2>1. Longer(ds, cs, c, n)
    BY <1>1, <1>2 DEF Longer
  <2>2. LongerComments(ds, cs, c, n, S)
    BY <2>1, CommentsAppend
  <2>3. QED
    BY <2>2 DEF LongerComments
<1>4. \A p \in 1 .. Len(cs) : p \in Code(ds) <=> p \in Code(cs)
  <2>1. \A p \in 1 .. Len(cs) : p \in 1 .. n - 1 /\ p \in 1 .. n /\ p \in DOMAIN cs /\ p \in DOMAIN ds
    BY <1>2, <1>3
  <2>2. QED
    BY <1>3, <2>1 DEF Code
<1>5. n \in Code(ds) <=> InCode(cs, c)
  <2>1. n \in DOMAIN ds /\ n \in 1 .. n
    BY <1>2, <1>3
  <2>2. QED
    BY <1>2, <1>3, <2>1 DEF Code, InCode
<1>6. Kept(Append(cs, c), Code(ds)) = IF InCode(cs, c) THEN Append(Kept(cs, Code(cs)), c)
                                                       ELSE Kept(cs, Code(cs))
  BY <1>2, <1>4, <1>5, KeptAppend
<1>7. Kept(cs, Code(cs)) \in Seq(S)
  BY KeptType
<1>8. QED
  BY <1>1, <1>6, <1>7 DEF Strip

\* What the filter has done so far with the characters of the line.
FilterInv ==
  /\ "overflow" \notin lineFlags =>
       /\ line = Strip(raw) /\ Len(line) < LineSize
       /\ lineFlags = IF BehindSemicolon(raw, Len(raw) + 1) THEN {"semicolon"}
                      ELSE IF InParentheses(raw, Len(raw) + 1) THEN {"parentheses"} ELSE {}
  /\ "overflow" \in lineFlags => Len(Strip(raw)) >= LineSize

LEMMA FilterStep ==
  ASSUME FilterInv, MainInv, NEW c \in Chars \ {"eol"}, Filter(c), raw' = Append(raw, c)
  PROVE  FilterInv'
<1>1. raw \in Seq(Chars \ {"eol"}) /\ line \in Seq(Chars)
  BY DEF MainInv
<1>2. PICK n \in Nat : n = Len(raw) + 1
  BY <1>1
<1>3. PICK new : new = Append(raw, c)
  OBVIOUS
<1>4. /\ raw' = new /\ Len(new) = n
      /\ InParentheses(new, n + 1) <=> (c = "(" \/ (InParentheses(raw, n) /\ c # ")"))
      /\ BehindSemicolon(new, n + 1)
           <=> (BehindSemicolon(raw, n) \/ (c = ";" /\ ~InParentheses(raw, n)))
  <2>1. Longer(new, raw, c, n)
    BY <1>2, <1>3 DEF Longer
  <2>2. LongerComments(new, raw, c, n, Chars \ {"eol"})
    BY <1>1, <2>1, CommentsAppend
  <2>3. QED
    BY <1>3, <2>2 DEF LongerComments
<1>5. /\ Strip(raw) \in Seq(Chars \ {"eol"})
      /\ Strip(new) = IF InCode(raw, c) THEN Append(Strip(raw), c) ELSE Strip(raw)
  BY <1>1, <1>3, StripAppend
<1>6. InCode(raw, c) <=> /\ c \notin {"(", ";", "blank"}
                         /\ ~InParentheses(raw, n) /\ ~BehindSemicolon(raw, n)
  BY <1>2 DEF InCode
<1>7. CASE "overflow" \in lineFlags
  <2>1. "overflow" \in lineFlags'
    <3>1. lineFlags # {}
      BY <1>7
    <3>2. lineFlags' = lineFlags \/ lineFlags' = lineFlags \ {"parentheses"}
      BY <3>1 DEF Filter, FilterCode
    <3>3. QED
      BY <1>7, <3>2
  <2>2. Len(Strip(new)) >= LineSize
    BY <1>5, <1>7, Bounds DEF FilterInv
  <2>3. QED
    BY <1>4, <2>1, <2>2 DEF FilterInv
<1>8. CASE "overflow" \notin lineFlags /\ lineFlags # {}
  <2>1. line = Strip(raw) /\ Len(line) < LineSize /\ line' = line
    BY <1>8 DEF FilterInv, Filter
  <2>2. ~InCode(raw, c)
    BY <1>2, <1>6, <1>8 DEF FilterInv
  <2>3. lineFlags' = IF BehindSemicolon(new, n + 1) THEN {"semicolon"}
                     ELSE IF InParentheses(new, n + 1) THEN {"parentheses"} ELSE {}
    <3>1. /\ c = ")" => lineFlags' = lineFlags \ {"parentheses"}
          /\ c # ")" => lineFlags' = lineFlags
      BY <1>8 DEF Filter, FilterCode
    <3>2. CASE BehindSemicolon(raw, n)
      BY <1>2, <1>4, <1>8, <3>1, <3>2 DEF FilterInv
    <3>3. CASE ~BehindSemicolon(raw, n)
      <4>1. lineFlags = {"parentheses"} /\ InParentheses(raw, n)
        BY <1>2, <1>8, <3>3 DEF FilterInv
      <4>2. ~BehindSemicolon(new, n + 1)
        BY <1>4, <3>3, <4>1
      <4>3. QED
        BY <1>4, <3>1, <4>1, <4>2
    <3>4. QED
      BY <3>2, <3>3
  <2>4. "overflow" \notin lineFlags'
    BY <2>3
  <2>5. QED
    BY <1>4, <1>5, <2>1, <2>2, <2>3, <2>4 DEF FilterInv
<1>9. CASE lineFlags = {}
  <2>1. /\ line = Strip(raw) /\ Len(line) < LineSize
        /\ ~BehindSemicolon(raw, n) /\ ~InParentheses(raw, n)
    BY <1>2, <1>9 DEF FilterInv
  <2>2. CASE c \in {"blank", "(", ";"}
    <3>1. /\ line' = line /\ ~InCode(raw, c)
          /\ lineFlags' = IF c = "(" THEN {"parentheses"}
                          ELSE IF c = ";" THEN {"semicolon"} ELSE {}
      BY <1>6, <1>9, <2>2 DEF Filter, FilterCode
    <3>2. (BehindSemicolon(new, n + 1) <=> c = ";") /\ (InParentheses(new, n + 1) <=> c = "(")
      BY <1>4, <2>1
    <3>3. lineFlags' = IF BehindSemicolon(new, n + 1) THEN {"semicolon"}
                       ELSE IF InParentheses(new, n + 1) THEN {"parentheses"} ELSE {}
      BY <3>1, <3>2
    <3>4. "overflow" \notin lineFlags'
      BY <3>3
    <3>5. QED
      BY <1>4, <1>5, <2>1, <3>1, <3>3, <3>4 DEF FilterInv
  <2>3. CASE c \notin {"blank", "(", ";"}
    <3>1. Strip(new) = Append(line, c) /\ Len(Append(line, c)) = Len(line) + 1
      <4>1. InCode(raw, c)
        BY <1>6, <2>1, <2>3
      <4>2. QED
        BY <1>1, <1>5, <2>1, <4>1
    <3>2. ~BehindSemicolon(new, n + 1) /\ ~InParentheses(new, n + 1)
      BY <1>4, <2>1, <2>3
    <3>3. CASE Len(line) >= LineSize - 1
      <4>1. lineFlags' = {"overflow"}
        BY <1>9, <2>3, <3>3 DEF Filter, FilterCode
      <4>2. Len(Strip(new)) >= LineSize
        BY <1>1, <3>1, <3>3, Bounds
      <4>3. QED
        BY <1>4, <4>1, <4>2 DEF FilterInv
    <3>4. CASE ~(Len(line) >= LineSize - 1)
      <4>1. line' = Append(line, c) /\ lineFlags' = {}
        BY <1>9, <2>3, <3>4 DEF Filter, FilterCode
      <4>2. Len(Append(line, c)) < LineSize
        BY <1>1, <3>1, <3>4, Bounds
      <4>3. QED
        BY <1>4, <3>1, <3>2, <4>1, <4>2 DEF FilterInv
    <3>5. QED
      BY <3>3, <3>4
  <2>4. QED
    BY <2>2, <2>3
<1>10. QED
  BY <1>7, <1>8, <1>9

LEMMA FilterInvariant == Spec => []FilterInv
<1>1. Strip(<<>>) = <<>> /\ Len(<<>>) = 0
  BY KeptEmpty DEF Strip
<1>2. ~BehindSemicolon(<<>>, Len(<<>>) + 1) /\ ~InParentheses(<<>>, Len(<<>>) + 1)
  BY DEF BehindSemicolon, InParentheses
<1>3. line = <<>> /\ lineFlags = {} /\ raw = <<>> => FilterInv
  BY <1>1, <1>2, Bounds DEF FilterInv
<1>4. Init => FilterInv
  BY <1>3 DEF Init
<1>5. LinkInv /\ FilterInv /\ [Next]_vars => FilterInv'
  <2>0. SUFFICES ASSUME LinkInv, FilterInv, [Next]_vars PROVE FilterInv'
    OBVIOUS
  <2>1. CASE ReadChar
    <3>1. PICK c \in Chars : c = rx[rxTail]
      <4>1. rxDue \in Seq(Chars) /\ rxDue # <<>> /\ rx[rxTail] = Head(rxDue)
        BY <2>0, <2>1, RxRead DEF LinkInv, RxInv
      <4>2. rx[rxTail] \in Chars
        BY <4>1, SeqFacts
      <4>3. QED
        BY <4>2
    <3>2. CASE c = "eol"
      BY <2>0, <2>1, <3>1, <3>2 DEF ReadChar, FilterInv
    <3>3. CASE c # "eol"
      <4>1. Filter(c) /\ raw' = Append(raw, c)
        BY <2>1, <3>1, <3>3 DEF ReadChar
      <4>2. QED
        BY <2>0, <3>3, <4>1, FilterStep DEF LinkInv
    <3>4. QED
      BY <3>2, <3>3
  <2>2. CASE ExecuteLine \/ Boot
    <3>1. line' = <<>> /\ lineFlags' = {} /\ raw' = <<>>
      BY <2>2 DEF ExecuteLine, Boot
    <3>2. QED
      BY <1>1, <1>2, <3>1, Bounds DEF FilterInv
  <2>3. CASE UNCHANGED <<line, lineFlags, raw>>
    BY <2>0, <2>3 DEF FilterInv
  <2>4. QED
    BY <2>0, <2>1, <2>2, <2>3
    DEF Next, Main, Writer, vars, mainVars, Abort, StatusReport, FeedHold, HoldComplete, Resume, WriteChar, Spin,
        Printed, WriteCommand, AddChar, Hear, Fail, TakeCommand
<1>6. QED
  BY <1>4, <1>5, LinkInvariant, PTL DEF Spec

(* The filter of protocol_main_loop, with a flag for each kind of comment,  *)
(* gives the line without its comments and blanks, or an overflow when that *)
(* does not fit, for every line and every size of the line buffer.          *)
THEOREM EveryLineFiltered == Spec => []LineFiltered
<1>1. FilterInv /\ MainInv => LineFiltered
  BY Bounds DEF FilterInv, MainInv, LineFiltered
<1>2. LinkInv => MainInv
  BY DEF LinkInv
<1>3. QED
  BY <1>1, <1>2, LinkInvariant, FilterInvariant, PTL

-------------------------------------------------------------------------------
(* Lines and replies.                                                        *)

(* A line that is sent ends with its only end of line.                      *)
Whole(cs) == /\ cs \in Seq(Chars) /\ cs # <<>>
             /\ \A i \in 1 .. Len(cs) : cs[i] = "eol" <=> i = Len(cs)
WholeLines == \A cmd \in Lines : Whole(cmd)

\* Nothing comes after the characters of the message kind and its end of line.
Ends(r, kind) == \A i \in 2 .. Len(r) : r[i] = "eol" /\ r[i - 1] = kind => i = Len(r)

Coming == txDue \o out

\* What cannot be the status of a line.
Plain == Printable \ {"ok"}
Unread == reply \in Seq(Plain) /\ txDue \in Seq(Plain) /\ out \in Seq(Plain)

\* Main has not come to the end of a line; or it has, and may print a report.
Before == /\ pcM \in {"read", "print", "spin"}
          /\ IF pcM = "read" THEN out = <<>> ELSE after = "read"
AtEnd == \/ pcM = "line" /\ out = <<>>
         \/ pcM \in {"print", "spin"} /\ after = "line"

Settled == /\ rxDue = <<>> /\ txDue = <<>> /\ out = <<>> /\ reply = <<>>
           /\ Before /\ ~query
Adding == rxDue \in Seq(Chars \ {"eol"}) /\ Unread /\ Before
Arriving == Whole(rxDue) /\ Unread /\ Before
Arrived == rxDue = <<>> /\ Unread /\ AtEnd
Answering(kind) == rxDue = <<>> /\ Ends(reply \o Coming, kind) /\ Before /\ ~query

QuietInv == /\ pcW # "dead" => ~reset /\ pcM # "boot"
            /\ pcW \in {"space", "add"} => Whole(command)
            /\ pcW \in {"idle", "space"} => Settled
            /\ pcW = "add" => Adding
            /\ pcW = "reply" => Arriving \/ Arrived \/ Answering("ok")
            /\ pcW = "waitStart" => Answering("start")

LEMMA TailFacts ==
  ASSUME NEW S, NEW s \in Seq(S), Len(s) # 0
  PROVE  /\ s # <<>> /\ Head(s) = s[1] /\ Tail(s) \in Seq(S) /\ Len(Tail(s)) = Len(s) - 1
         /\ \A k \in 1 .. Len(s) - 1 : Tail(s)[k] = s[k + 1]
OBVIOUS

\* Moving the first of some characters to the end of others.
LEMMA MoveOne ==
  ASSUME NEW S, NEW s \in Seq(S), NEW d \in Seq(S), d # <<>>
  PROVE  Append(s, Head(d)) \o Tail(d) = s \o d
<1>1. PICK u \in Seq(S) : u = Append(s, Head(d)) \o Tail(d)
  <2>1. Head(d) \in S /\ Tail(d) \in Seq(S) /\ Append(s, Head(d)) \in Seq(S)
    BY SeqFacts
  <2>2. Append(s, Head(d)) \o Tail(d) \in Seq(S)
    BY <2>1
  <2>3. QED
    BY <2>2
<1>2. PICK v \in Seq(S) : v = s \o d
  <2>1. s \o d \in Seq(S)
    OBVIOUS
  <2>2. QED
    BY <2>1
<1>3. Len(u) = Len(v) /\ \A k \in 1 .. Len(u) : u[k] = v[k]
  BY <1>1, <1>2
<1>4. QED
  BY <1>1, <1>2, <1>3, SameElements

\* The first character of two sequences put together.
LEMMA FirstOfTwo ==
  ASSUME NEW S, NEW s \in Seq(S), NEW d \in Seq(S), s # <<>>
  PROVE  /\ s \o d \in Seq(S) /\ s \o d # <<>>
         /\ Head(s \o d) = Head(s) /\ Tail(s \o d) = Tail(s) \o d
<1>1. PICK v \in Seq(S) : v = s \o d
  <2>1. s \o d \in Seq(S)
    OBVIOUS
  <2>2. QED
    BY <2>1
<1>2. PICK t \in Seq(S) : t = Tail(s)
  <2>1. Tail(s) \in Seq(S)
    OBVIOUS
  <2>2. QED
    BY <2>1
<1>3. PICK n \in Nat \ {0} : n = Len(s)
  <2>1. Len(s) \in Nat \ {0}
    OBVIOUS
  <2>2. QED
    BY <2>1
<1>4. PICK u \in Seq(S) : u = t \o d
  <2>1. t \o d \in Seq(S)
    OBVIOUS
  <2>2. QED
    BY <2>1
<1>5. /\ Len(v) = n + Len(d) /\ \A k \in 1 .. n : v[k] = s[k]
      /\ \A k \in 1 .. Len(d) : v[n + k] = d[k]
  BY <1>1, <1>3
<1>6. Len(t) = n - 1 /\ \A k \in 1 .. n - 1 : t[k] = s[k + 1]
  BY <1>2, <1>3
<1>7. /\ Len(u) = n - 1 + Len(d) /\ \A k \in 1 .. n - 1 : u[k] = s[k + 1]
      /\ \A k \in 1 .. Len(d) : u[n - 1 + k] = d[k]
  <2>1. /\ Len(t \o d) = Len(t) + Len(d)
        /\ \A k \in 1 .. Len(t) : (t \o d)[k] = t[k]
        /\ \A k \in 1 .. Len(d) : (t \o d)[Len(t) + k] = d[k]
    BY ConcatFacts
  <2>2. QED
    BY <1>4, <1>6, <2>1
<1>8. v # <<>> /\ Head(v) = s[1] /\ Tail(v) \in Seq(S) /\ Len(Tail(v)) = n - 1 + Len(d)
      /\ \A k \in 1 .. n - 1 + Len(d) : Tail(v)[k] = v[k + 1]
  <2>1. Len(v) = n - 1 + Len(d) + 1 /\ Len(v) # 0 /\ v[1] = s[1]
    <3>1. n \in Nat \ {0} /\ Len(d) \in Nat /\ 1 \in 1 .. n
      BY <1>3
    <3>2. v[1] = s[1]
      BY <1>5, <3>1
    <3>3. QED
      BY <1>5, <3>1, <3>2
  <2>2. /\ v # <<>> /\ Head(v) = v[1] /\ Tail(v) \in Seq(S) /\ Len(Tail(v)) = Len(v) - 1
        /\ \A k \in 1 .. Len(v) - 1 : Tail(v)[k] = v[k + 1]
    BY <2>1, TailFacts
  <2>3. QED
    BY <2>1, <2>2
<1>9. ASSUME NEW k \in 1 .. Len(u) PROVE u[k] = Tail(v)[k]
  <2>1. CASE k \in 1 .. n - 1
    <3>1. k + 1 \in 1 .. n
      BY <2>1
    <3>2. QED
      BY <1>5, <1>7, <1>8, <2>1, <3>1
  <2>2. CASE k \notin 1 .. n - 1
    <3>1. PICK j \in 1 .. Len(d) : k = n - 1 + j /\ k + 1 = n + j
      <4>1. k - (n - 1) \in 1 .. Len(d)
        BY <1>7, <2>2
      <4>2. QED
        BY <4>1
    <3>2. QED
      BY <1>5, <1>7, <1>8, <3>1
  <2>3. QED
    BY <2>1, <2>2
<1>10. u = Tail(v)
  BY <1>7, <1>8, <1>9, SameElements
<1>11. QED
  BY <1>1, <1>2, <1>4, <1>8, <1>10

\* The end of a reply is where nothing comes after it.
LEMMA EndsTail ==
  ASSUME NEW S, NEW s \in Seq(S), NEW d \in Seq(S), NEW kind, d # <<>>, Ends(s \o d, kind)
  PROVE  /\ Ends(Tail(d), kind)
         /\ s # <<>> /\ Last(s) = kind /\ Head(d) = "eol" => Len(d) = 1
<1>1. PICK n \in Nat : n = Len(s)
  OBVIOUS
<1>2. PICK m \in Nat \ {0} : m = Len(d)
  <2>1. Len(d) \in Nat \ {0}
    OBVIOUS
  <2>2. QED
    BY <2>1
<1>3. PICK r \in Seq(S) : r = s \o d
  <2>1. s \o d \in Seq(S)
    OBVIOUS
  <2>2. QED
    BY <2>1
<1>4. Len(r) = n + m /\ (\A k \in 1 .. n : r[k] = s[k]) /\ \A k \in 1 .. m : r[n + k] = d[k]
  BY <1>1, <1>2, <1>3
<1>5. \A i \in 2 .. n + m : r[i] = "eol" /\ r[i - 1] = kind => i = n + m
  BY <1>3, <1>4 DEF Ends
<1>6. PICK t \in Seq(S) : t = Tail(d)
  <2>1. Tail(d) \in Seq(S)
    OBVIOUS
  <2>2. QED
    BY <2>1
<1>7. Len(t) = m - 1 /\ \A k \in 1 .. m - 1 : t[k] = d[k + 1]
  BY <1>2, <1>6
<1>8. ASSUME NEW i \in 2 .. m - 1, t[i] = "eol", t[i - 1] = kind PROVE i = m - 1
  <2>1. d[i + 1] = "eol" /\ d[i] = kind
    <3>1. i \in 1 .. m - 1 /\ i - 1 \in 1 .. m - 1 /\ i - 1 + 1 = i
      OBVIOUS
    <3>2. QED
      BY <1>7, <1>8, <3>1
  <2>2. PICK j \in 2 .. n + m : j = n + (i + 1) /\ j - 1 = n + i
    <3>1. n + (i + 1) \in 2 .. n + m /\ n + (i + 1) - 1 = n + i
      OBVIOUS
    <3>2. QED
      BY <3>1
  <2>3. r[j] = "eol" /\ r[j - 1] = kind
    <3>1. i + 1 \in 1 .. m /\ i \in 1 .. m
      OBVIOUS
    <3>2. QED
      BY <1>4, <2>1, <2>2, <3>1
  <2>4. j = n + m
    BY <1>5, <2>3
  <2>5. QED
    BY <2>2, <2>4
<1>9. ASSUME s # <<>>, Last(s) = kind, Head(d) = "eol" PROVE m = 1
  <2>1. n \in Nat \ {0} /\ s[n] = kind /\ d[1] = "eol"
    BY <1>1, <1>9 DEF Last
  <2>2. PICK j \in 2 .. n + m : j = n + 1 /\ j - 1 = n
    <3>1. n + 1 \in 2 .. n + m /\ n + 1 - 1 = n
      BY <2>1
    <3>2. QED
      BY <3>1
  <2>3. r[j] = "eol" /\ r[j - 1] = kind
    <3>1. 1 \in 1 .. m /\ n \in 1 .. n
      BY <2>1
    <3>2. QED
      BY <1>4, <2>1, <2>2, <3>1
  <2>4. QED
    BY <1>5, <2>2, <2>3
<1>10. Ends(t, kind)
  BY <1>7, <1>8 DEF Ends
<1>11. QED
  BY <1>2, <1>6, <1>9, <1>10

\* A line is whole when its end of line has come.
LEMMA WholeAppend ==
  ASSUME NEW cs \in Seq(Chars \ {"eol"})
  PROVE  Whole(Append(cs, "eol"))
<1>1. PICK e \in Chars : e = "eol"
  BY DEF Chars
<1>2. cs \in Seq(Chars)
  OBVIOUS
<1>3. PICK w \in Seq(Chars) : w = Append(cs, e)
  <2>1. Append(cs, e) \in Seq(Chars)
    BY <1>2
  <2>2. QED
    BY <2>1
<1>4. PICK n \in Nat : n = Len(cs)
  OBVIOUS
<1>5. Len(w) = n + 1 /\ w[n + 1] = "eol" /\ \A i \in 1 .. n : w[i] = cs[i] /\ cs[i] # "eol"
  BY <1>1, <1>3, <1>4
<1>6. w # <<>>
  BY <1>5
<1>7. \A i \in 1 .. n + 1 : i = n + 1 \/ (i \in 1 .. n /\ i # n + 1)
  OBVIOUS
<1>8. QED
  BY <1>1, <1>3, <1>5, <1>6, <1>7 DEF Whole

LEMMA MessageElements ==
  ASSUME NEW kind, NEW n \in Nat
  PROVE  /\ Len(Message(kind, n)) = n + 1 /\ \A i \in 1 .. n : Message(kind, n)[i] = kind
         /\ Message(kind, n)[n + 1] = "eol"
<1>1. PICK S : S = {kind, "eol"}
  OBVIOUS
<1>2. PICK x \in Seq(S) : x = [i \in 1 .. n |-> kind]
  <2>1. [i \in 1 .. n |-> kind] \in Seq(S)
    BY <1>1
  <2>2. QED
    BY <2>1
<1>3. Len(x) = n /\ \A i \in 1 .. n : x[i] = kind
  BY <1>2
<1>4. PICK e \in S : e = "eol"
  BY <1>1
<1>5. Message(kind, n) = Append(x, e)
  BY <1>2, <1>4 DEF Message
<1>6. QED
  BY <1>3, <1>4, <1>5

\* What comes before it changes nothing about where the status ends.
LEMMA PrefixEnds ==
  ASSUME NEW x \in Seq(Plain), NEW m \in Seq(Printable), Ends(m, "ok")
  PROVE  x \o m \in Seq(Printable) /\ Ends(x \o m, "ok")
<1>1. PICK n \in Nat : n = Len(x)
  OBVIOUS
<1>2. PICK k \in Nat : k = Len(m)
  OBVIOUS
<1>3. x \in Seq(Printable) /\ \A i \in 1 .. n : x[i] # "ok"
  BY <1>1 DEF Plain
<1>4. PICK r \in Seq(Printable) : r = x \o m
  <2>1. x \o m \in Seq(Printable)
    BY <1>3
  <2>2. QED
    BY <2>1
<1>5. /\ Len(r) = n + k /\ (\A i \in 1 .. n : r[i] # "ok")
      /\ \A i \in 1 .. k : r[n + i] = m[i]
  <2>1. /\ Len(x \o m) = Len(x) + Len(m)
        /\ \A i \in 1 .. Len(x) : (x \o m)[i] = x[i]
        /\ \A i \in 1 .. Len(m) : (x \o m)[Len(x) + i] = m[i]
    BY <1>3, ConcatFacts
  <2>2. QED
    BY <1>1, <1>2, <1>3, <1>4, <2>1
<1>6. ASSUME NEW i \in 2 .. n + k, r[i] = "eol", r[i - 1] = "ok" PROVE i = n + k
  <2>1. i - 1 \notin 1 .. n
    BY <1>5, <1>6
  <2>2. PICK j \in 2 .. k : i = n + j /\ i - 1 = n + (j - 1)
    <3>1. i - n \in 2 .. k /\ i = n + (i - n) /\ i - 1 = n + ((i - n) - 1)
      BY <2>1
    <3>2. QED
      BY <3>1
  <2>3. j \in 1 .. k /\ j - 1 \in 1 .. k
    OBVIOUS
  <2>4. m[j] = "eol" /\ m[j - 1] = "ok"
    BY <1>5, <1>6, <2>2, <2>3
  <2>5. QED
    BY <1>2, <2>2, <2>4 DEF Ends
<1>7. QED
  BY <1>4, <1>5, <1>6 DEF Ends

LEMMA AnswersEnd ==
  ASSUME line \in Seq(Chars), NEW answer \in Answers
  PROVE  Ends(answer, "ok")
<1>1. Ends(Message("ok", 1), "ok")
  <2>1. PICK n \in Nat : n = 1
    OBVIOUS
  <2>2. PICK r : r = Message("ok", n)
    OBVIOUS
  <2>3. Len(r) = n + 1
    BY <2>2, MessageElements
  <2>4. ASSUME NEW i \in 2 .. Len(r) PROVE i = Len(r)
    BY <2>1, <2>3
  <2>5. QED
    BY <2>1, <2>2, <2>4 DEF Ends
<1>2. Ends(Message("error", 2), "ok")
  <2>1. PICK n \in Nat : n = 2
    OBVIOUS
  <2>2. PICK r : r = Message("error", n)
    OBVIOUS
  <2>3. Len(r) = n + 1 /\ \A i \in 1 .. n : r[i] = "error"
    BY <2>2, MessageElements
  <2>4. ASSUME NEW i \in 2 .. Len(r) PROVE r[i - 1] # "ok"
    <3>1. i - 1 \in 1 .. n
      BY <2>3
    <3>2. QED
      BY <2>3, <3>1
  <2>5. QED
    BY <2>1, <2>2, <2>4 DEF Ends
<1>3. Ends(<<>>, "ok")
  BY DEF Ends
<1>4. ASSUME NEW rs \in Reports
      PROVE  Ends(FlattenSeq([i \in DOMAIN rs |-> Message("report", rs[i])]) \o Message("ok", 1), "ok")
  <2>1. rs \in Seq(Nat \ {0})
    BY LinkAssumption
  <2>2. PICK S : S = Plain
    OBVIOUS
  <2>3. ASSUME NEW i \in DOMAIN rs PROVE Message("report", rs[i]) \in Seq(S)
    <3>1. rs[i] \in Nat
      BY <2>1
    <3>2. [j \in 1 .. rs[i] |-> "report"] \in Seq(S) /\ "eol" \in S
      BY <2>2, <3>1 DEF Plain, Printable, Kinds
    <3>3. QED
      BY <3>2 DEF Message
  <2>4. PICK Q : Q = Seq(S)
    OBVIOUS
  <2>5. PICK ms \in Seq(Q) : ms = [i \in DOMAIN rs |-> Message("report", rs[i])]
    <3>1. [i \in 1 .. Len(rs) |-> Message("report", rs[i])] \in Seq(Q)
      BY <2>1, <2>3, <2>4
    <3>2. DOMAIN rs = 1 .. Len(rs)
      BY <2>1
    <3>3. QED
      BY <3>1, <3>2
  <2>6. FlattenSeq(ms) \in Seq(S)
    <3>1. CASE ms = <<>>
      BY <3>1 DEF FlattenSeq
    <3>2. CASE ms # <<>>
      BY <2>4, <2>5, <3>2, FlattenType
    <3>3. QED
      BY <3>1, <3>2
  <2>7. Message("ok", 1) \in Seq(Printable)
    BY MessageType DEF Kinds
  <2>8. QED
    BY <1>1, <2>2, <2>5, <2>6, <2>7, PrefixEnds
<1>5. QED
  BY <1>1, <1>2, <1>3, <1>4 DEF Answers

LEMMA WholeTail ==
  ASSUME NEW cs, Whole(cs)
  PROVE  /\ Head(cs) = "eol" => Tail(cs) = <<>>
         /\ Head(cs) # "eol" => Whole(Tail(cs))
<1>1. PICK n \in Nat \ {0} : n = Len(cs)
  <2>1. Len(cs) \in Nat \ {0}
    BY DEF Whole
  <2>2. QED
    BY <2>1
<1>2. PICK t \in Seq(Chars) : t = Tail(cs)
  <2>1. Tail(cs) \in Seq(Chars)
    BY DEF Whole
  <2>2. QED
    BY <2>1
<1>3. Head(cs) = cs[1] /\ Len(t) = n - 1 /\ \A k \in 1 .. n - 1 : t[k] = cs[k + 1]
  <2>1. cs \in Seq(Chars) /\ Len(cs) # 0
    BY <1>1 DEF Whole
  <2>2. QED
    BY <1>1, <1>2, <2>1, TailFacts
<1>4. Head(cs) = "eol" <=> n = 1
  BY <1>1, <1>3 DEF Whole
<1>5. n = 1 => t = <<>>
  BY <1>2, <1>3
<1>6. ASSUME n # 1, NEW k \in 1 .. n - 1 PROVE t[k] = "eol" <=> k = n - 1
  <2>1. k + 1 \in 1 .. n
    OBVIOUS
  <2>2. cs[k + 1] = "eol" <=> k + 1 = n
    BY <1>1, <2>1 DEF Whole
  <2>3. QED
    BY <1>3, <2>2
<1>7. n # 1 => t # <<>>
  BY <1>3
<1>8. QED
  BY <1>2, <1>3, <1>4, <1>5, <1>6, <1>7 DEF Whole

LEMMA DueTypes ==
  ASSUME LinkInv
  PROVE  /\ rxDue \in Seq(Chars) /\ txDue \in Seq(Printable) /\ reply \in Seq(Printable)
         /\ out \in Seq(Printable) /\ Coming \in Seq(Printable) /\ line \in Seq(Chars)
         /\ pcM = "spin" => out # <<>>
         /\ pcM \in {"read", "line", "print", "spin", "boot"}
         /\ pcW \in {"waitStart", "idle", "space", "add", "reply", "fail", "dead"}
BY DEF LinkInv, RxInv, TxInv, MainInv, WriterInv, Coming

LEMMA PlainSeqs ==
  /\ <<>> \in Seq(Plain)
  /\ \A q \in Seq(Plain) : q # <<>> => Head(q) \in Plain /\ Tail(q) \in Seq(Plain)
  /\ \A q \in Seq(Plain), c \in Plain : Append(q, c) \in Seq(Plain)
  /\ Message("report", 1) \in Seq(Plain)
<1>1. [i \in 1 .. 1 |-> "report"] \in Seq(Plain) /\ "eol" \in Plain
  BY DEF Plain, Printable, Kinds
<1>2. Message("report", 1) \in Seq(Plain)
  BY <1>1 DEF Message
<1>3. QED
  BY <1>2

\* A report that is read before the status of the line is taken for it.
LEMMA ReportHear ==
  ASSUME LinkInv, QuietInv, Hear, pcW = "reply", Arriving \/ Arrived
  PROVE  QuietInv'
<1>1. PICK c : c = tx[txTail]
  OBVIOUS
<1>2. c = Head(txDue) /\ txDue # <<>>
  BY <1>1, TxHear
<1>3. Unread /\ ~reset /\ pcM # "boot"
  BY DEF QuietInv, Arriving, Arrived
<1>4. c \in Plain /\ Tail(txDue) \in Seq(Plain)
  BY <1>2, <1>3, PlainSeqs DEF Unread
<1>5. /\ txDue' = Tail(txDue) /\ Collect(c)
      /\ UNCHANGED <<rxDue, out, pcM, after, reset, command>>
  BY <1>1 DEF Hear, mainVars, flagVars
<1>6. CASE c = "eol" /\ reply # <<>>
  <2>1. Last(reply) # "ok"
    <3>1. Len(reply) \in 1 .. Len(reply) /\ reply[Len(reply)] \in Plain
      BY <1>3, <1>6 DEF Unread
    <3>2. QED
      BY <3>1 DEF Last, Plain
  <2>2. pcW' = "fail"
    BY <1>5, <1>6, <2>1 DEF Collect
  <2>3. QED
    BY <1>3, <1>5, <2>2 DEF QuietInv
<1>7. CASE ~(c = "eol" /\ reply # <<>>)
  <2>1. reply' = Append(reply, c) /\ pcW' = pcW
    BY <1>5, <1>7 DEF Collect
  <2>2. Unread'
    BY <1>3, <1>4, <1>5, <2>1, PlainSeqs DEF Unread
  <2>3. (Arriving \/ Arrived)'
    BY <1>5, <2>2 DEF Arriving, Arrived, Before, AtEnd
  <2>4. QED
    BY <1>3, <1>5, <2>1, <2>3 DEF QuietInv
<1>8. QED
  BY <1>6, <1>7

\* A character of a message, and the end of a message.
LEMMA QuietHear == LinkInv /\ QuietInv /\ Hear => QuietInv'
<1>0. SUFFICES ASSUME LinkInv, QuietInv, Hear, ~(pcW = "reply" /\ (Arriving \/ Arrived))
               PROVE  QuietInv'
  BY ReportHear
<1>1. /\ txDue \in Seq(Printable) /\ reply \in Seq(Printable)
      /\ out \in Seq(Printable) /\ Coming \in Seq(Printable)
      /\ pcM = "spin" => out # <<>>
  BY <1>0, DueTypes
<1>2. PICK c : c = tx[txTail]
  OBVIOUS
<1>3. c = Head(txDue) /\ txDue # <<>>
  BY <1>0, <1>2, TxHear
<1>4. PICK kind : kind = IF pcW = "waitStart" THEN "start" ELSE "ok"
  OBVIOUS
<1>5. Answering(kind) /\ pcW \in {"waitStart", "reply"} /\ ~reset /\ pcM # "boot"
  BY <1>0, <1>4 DEF QuietInv, Hear
<1>6. PICK d \in Seq(Printable) : d = Coming
  BY <1>1
<1>7. d # <<>> /\ Head(d) = c /\ Tail(d) = Tail(txDue) \o out
  BY <1>1, <1>3, <1>6, FirstOfTwo DEF Coming
<1>8. /\ txDue' = Tail(txDue) /\ Collect(c)
      /\ UNCHANGED <<rxDue, out, pcM, after, reset, query, command>>
  BY <1>0, <1>2 DEF Hear, mainVars, flagVars
<1>9. Coming' = Tail(d) /\ Tail(d) \in Seq(Printable)
  <2>1. Coming' = Tail(d)
    BY <1>7, <1>8 DEF Coming
  <2>2. Tail(d) \in Seq(Printable)
    BY <1>7, SeqFacts
  <2>3. QED
    BY <2>1, <2>2
<1>10. Ends(reply \o d, kind)
  BY <1>5, <1>6 DEF Answering
<1>11. CASE ~(c = "eol" /\ reply # <<>>)
  <2>1. reply' = Append(reply, c) /\ pcW' = pcW
    BY <1>8, <1>11 DEF Collect
  <2>2. reply' \o Coming' = reply \o d
    BY <1>1, <1>6, <1>7, <1>9, <2>1, MoveOne
  <2>3. Answering(kind)'
    BY <1>5, <1>8, <1>10, <2>2 DEF Answering, Before
  <2>4. QED
    BY <1>4, <1>5, <1>8, <2>1, <2>3 DEF QuietInv
<1>12. CASE c = "eol" /\ reply # <<>> /\ Last(reply) = kind
  <2>1. reply' = <<>> /\ pcW' = "idle"
    BY <1>4, <1>5, <1>8, <1>12 DEF Collect
  <2>2. Len(d) = 1
    BY <1>1, <1>6, <1>7, <1>10, <1>12, EndsTail
  <2>3. Tail(d) = <<>>
    <3>1. Len(Tail(d)) = 0
      BY <2>2, TailFacts
    <3>2. QED
      BY <1>9, <3>1
  <2>4. Tail(txDue) = <<>> /\ out = <<>>
    <3>1. PICK x \in Seq(Printable) : x = Tail(txDue)
      <4>1. Tail(txDue) \in Seq(Printable)
        BY <1>1, <1>3
      <4>2. QED
        BY <4>1
    <3>2. x \o out = <<>>
      BY <1>7, <2>3, <3>1
    <3>3. Len(x \o out) = Len(x) + Len(out)
      BY <1>1, ConcatFacts
    <3>4. Len(x) = 0 /\ Len(out) = 0
      BY <1>1, <3>2, <3>3
    <3>5. QED
      BY <1>1, <3>1, <3>4
  <2>5. Settled'
    BY <1>1, <1>5, <1>8, <2>1, <2>4 DEF Settled, Answering, Before
  <2>6. QED
    BY <1>5, <1>8, <2>1, <2>5 DEF QuietInv
<1>13. CASE c = "eol" /\ reply # <<>> /\ Last(reply) # kind
  <2>1. reply' = <<>> /\ pcW' = IF pcW = "waitStart" THEN "waitStart" ELSE "fail"
    BY <1>4, <1>5, <1>8, <1>13 DEF Collect
  <2>2. Ends(Tail(d), kind)
    BY <1>1, <1>6, <1>7, <1>10, EndsTail
  <2>3. <<>> \o Tail(d) = Tail(d)
    BY <1>9
  <2>4. Answering(kind)'
    BY <1>5, <1>8, <1>9, <2>1, <2>2, <2>3 DEF Answering, Before
  <2>5. QED
    BY <1>4, <1>5, <1>8, <2>1, <2>4 DEF QuietInv
<1>14. QED
  BY <1>11, <1>12, <1>13

LEMMA QuietMain == LinkInv /\ QuietInv /\ Main => QuietInv'
<1>0. SUFFICES ASSUME LinkInv, QuietInv, Main PROVE QuietInv'
  OBVIOUS
<1>1. /\ rxDue \in Seq(Chars) /\ txDue \in Seq(Printable) /\ reply \in Seq(Printable)
      /\ out \in Seq(Printable) /\ line \in Seq(Chars)
      /\ pcW \in {"waitStart", "idle", "space", "add", "reply", "fail", "dead"}
  BY <1>0, DueTypes
<1>9. UNCHANGED <<pcW, command, reply>>
  BY <1>0 DEF Main, ReadChar, Abort, StatusReport, FeedHold, ExecuteLine, WriteChar, Spin, Printed,
              Boot, writerVars
<1>2. CASE pcW = "dead"
  BY <1>2, <1>9 DEF QuietInv
<1> DEFINE Alive == pcW # "dead"
<1>10. Alive => ~reset /\ pcM # "boot"
  BY <1>0 DEF QuietInv
<1>3. CASE Alive /\ ReadChar
  <2>1. rxDue # <<>> /\ rx[rxTail] = Head(rxDue)
    BY <1>0, <1>3, RxRead
  <2>2. pcW = "fail" \/ (pcW = "reply" /\ Arriving)
    BY <1>0, <1>1, <1>3, <2>1 DEF QuietInv, Settled, Arrived, Answering, ReadChar
  <2>3. /\ rxDue' = Tail(rxDue) /\ UNCHANGED <<reset, txDue, out, after>>
        /\ pcM = "read" /\ pcM' = IF Head(rxDue) = "eol" THEN "line" ELSE "read"
    BY <1>3, <2>1 DEF ReadChar, flagVars
  <2>4. CASE pcW = "fail"
    BY <1>3, <1>9, <1>10, <2>3, <2>4 DEF QuietInv
  <2>5. CASE pcW = "reply" /\ Head(rxDue) = "eol"
    <3>1. Tail(rxDue) = <<>>
      BY <2>2, <2>5, WholeTail DEF Arriving
    <3>2. Arrived'
      BY <1>9, <2>2, <2>3, <2>5, <3>1 DEF Arriving, Arrived, Unread, Before, AtEnd
    <3>3. QED
      BY <1>3, <1>9, <1>10, <2>3, <2>5, <3>2 DEF QuietInv
  <2>6. CASE pcW = "reply" /\ Head(rxDue) # "eol"
    <3>1. Whole(Tail(rxDue))
      BY <2>2, <2>6, WholeTail DEF Arriving
    <3>2. Arriving'
      BY <1>9, <2>2, <2>3, <2>6, <3>1 DEF Arriving, Unread, Before
    <3>3. QED
      BY <1>3, <1>9, <1>10, <2>3, <2>6, <3>2 DEF QuietInv
  <2>7. QED
    BY <2>2, <2>4, <2>5, <2>6
<1>4. CASE Alive /\ (Abort \/ Boot)
  BY <1>4, <1>10 DEF Abort, Boot
<1>11. CASE Alive /\ StatusReport
  <2>1. /\ query /\ pcM \in {"read", "line"}
        /\ out' = Message("report", 1) /\ pcM' = "print" /\ after' = pcM
        /\ UNCHANGED <<reset, rxDue, txDue>>
    BY <1>11 DEF StatusReport, CheckPoint
  <2>2. pcW = "fail" \/ (pcW = "add" /\ Adding) \/ (pcW = "reply" /\ (Arriving \/ Arrived))
    BY <1>0, <1>1, <1>11, <2>1 DEF QuietInv, Settled, Answering
  <2>3. Unread => Unread'
    BY <1>9, <2>1, PlainSeqs DEF Unread
  <2>4. (Before => Before') /\ (AtEnd => AtEnd')
    BY <2>1 DEF Before, AtEnd
  <2>5. (Adding => Adding') /\ (Arriving => Arriving') /\ (Arrived => Arrived')
    BY <2>1, <2>3, <2>4 DEF Adding, Arriving, Arrived
  <2>6. QED
    BY <1>0, <1>9, <1>10, <1>11, <2>1, <2>2, <2>5 DEF QuietInv
<1>12. CASE Alive /\ FeedHold
  <2>1. UNCHANGED <<reset, query, rxDue, txDue, out, pcM, after>>
    BY <1>12 DEF FeedHold, mainVars
  <2>2. QED
    BY <1>0, <1>9, <2>1
    DEF QuietInv, Settled, Adding, Arriving, Arrived, Answering, Unread, Before, AtEnd, Coming
<1>5. CASE Alive /\ ExecuteLine
  <2>1. pcW = "fail" \/ (pcW = "reply" /\ Arrived /\ out = <<>>)
    BY <1>0, <1>1, <1>5 DEF QuietInv, Settled, Adding, Arriving, Arrived, Answering, Before, AtEnd, ExecuteLine
  <2>2. pcM' = "print" /\ after' = "read" /\ ~query' /\ UNCHANGED <<reset, rxDue, txDue>>
    BY <1>5 DEF ExecuteLine, flagVars
  <2>3. CASE pcW = "fail"
    BY <1>5, <1>9, <1>10, <2>2, <2>3 DEF QuietInv
  <2>4. CASE pcW = "reply" /\ Arrived
    <3>1. out' \in Seq(Printable) /\ Ends(out', "ok")
      BY <1>1, <1>5, AnswersType, AnswersEnd DEF ExecuteLine
    <3>2. reply \in Seq(Plain) /\ txDue \in Seq(Plain)
      BY <2>4 DEF Arrived, Unread
    <3>3. txDue \o out' \in Seq(Printable) /\ Ends(txDue \o out', "ok")
      BY <3>1, <3>2, PrefixEnds
    <3>4. Ends(reply \o (txDue \o out'), "ok")
      BY <3>2, <3>3, PrefixEnds
    <3>5. Answering("ok")'
      BY <1>9, <2>2, <2>4, <3>4 DEF Arrived, Answering, Before, Coming
    <3>6. QED
      BY <1>5, <1>9, <1>10, <2>2, <2>4, <3>5 DEF QuietInv
  <2>5. QED
    BY <2>1, <2>3, <2>4
<1>6. CASE Alive /\ (WriteChar \/ Spin)
  <2>1. out # <<>> /\ pcM \in {"print", "spin"}
    BY <1>0, <1>6, DueTypes DEF WriteChar, Spin
  <2>2. ~reset /\ pcM' \in {"print", "spin"} /\ UNCHANGED <<reset, query, rxDue, after>>
    BY <1>6, <1>10 DEF WriteChar, Spin, flagVars
  <2>3. \/ UNCHANGED <<txDue, out>>
        \/ txDue' = Append(txDue, Head(out)) /\ out' = Tail(out)
    BY <1>6, <2>2 DEF WriteChar, Spin
  <2>4. Append(txDue, Head(out)) \o Tail(out) = txDue \o out
    BY <1>1, <2>1, MoveOne
  <2>5. Coming' = Coming
    BY <2>3, <2>4 DEF Coming
  <2>6. (Before => Before') /\ (AtEnd => AtEnd')
    BY <2>1, <2>2 DEF Before, AtEnd
  <2>7. Unread => Unread'
    BY <1>9, <2>1, <2>3, PlainSeqs DEF Unread
  <2>8. (Adding => Adding') /\ (Arriving => Arriving') /\ (Arrived => Arrived')
    BY <2>2, <2>6, <2>7 DEF Adding, Arriving, Arrived
  <2>9. ASSUME NEW kind, Answering(kind) PROVE Answering(kind)'
    BY <1>9, <2>2, <2>5, <2>6, <2>9 DEF Answering
  <2>10. ~Settled
    BY <2>1 DEF Settled
  <2>11. QED
    BY <1>0, <1>6, <1>9, <2>2, <2>8, <2>9, <2>10 DEF QuietInv
<1>7. CASE Alive /\ Printed
  <2>1. /\ out = <<>> /\ pcM = "print" /\ pcM' = after
        /\ UNCHANGED <<reset, query, rxDue, txDue, out, after>>
    BY <1>7 DEF Printed, flagVars
  <2>2. (Before => Before') /\ (AtEnd => AtEnd') /\ (Before \/ AtEnd => pcM' # "boot")
    BY <2>1 DEF Before, AtEnd
  <2>3. (Unread <=> Unread') /\ Coming' = Coming
    BY <1>9, <2>1 DEF Unread, Coming
  <2>4. /\ Settled => Settled'
        /\ Adding => Adding'
        /\ Arriving => Arriving'
        /\ Arrived => Arrived'
        /\ Answering("ok") => Answering("ok")'
        /\ Answering("start") => Answering("start")'
    BY <1>9, <2>1, <2>2, <2>3 DEF Settled, Adding, Arriving, Arrived, Answering
  <2>5. pcM' # "boot"
    BY <1>0, <2>1 DEF LinkInv, MainInv
  <2>6. QED
    BY <1>0, <1>9, <2>1, <2>4, <2>5 DEF QuietInv
<1>8. QED
  BY <1>0, <1>2, <1>3, <1>4, <1>5, <1>6, <1>7, <1>11, <1>12 DEF Main

\* The writer adds a character of the line.
LEMMA QuietAdd == LinkInv /\ QuietInv /\ AddChar => QuietInv'
<1>0. SUFFICES ASSUME LinkInv, QuietInv, AddChar PROVE QuietInv'
  OBVIOUS
<1>1. /\ pcW = "add" /\ Whole(command) /\ Adding /\ ~reset /\ pcM # "boot"
      /\ added \in Nat /\ added < Len(command)
  BY <1>0 DEF QuietInv, LinkInv, WriterInv, AddChar
<1>2. UNCHANGED <<reset, txDue, out, reply, pcM, after, command>>
  BY <1>0 DEF AddChar, mainVars
<1>3. (Unread <=> Unread') /\ (Before <=> Before')
  BY <1>2 DEF Unread, Before
<1>4. PICK c \in Chars : c = command[added + 1] /\ (c = "eol" <=> added + 1 = Len(command))
  <2>1. added + 1 \in 1 .. Len(command) /\ command \in Seq(Chars)
    BY <1>1 DEF Whole
  <2>2. command[added + 1] \in Chars
    BY <2>1
  <2>3. QED
    BY <1>1, <2>1, <2>2 DEF Whole
<1>5. CASE c = "eol"
  <2>1. rxDue' = Append(rxDue, "eol") /\ pcW' = "reply"
    BY <1>0, <1>4, <1>5 DEF AddChar, Realtime
  <2>2. Whole(rxDue')
    BY <1>1, <2>1, WholeAppend DEF Adding
  <2>3. Arriving'
    BY <1>1, <1>3, <2>2 DEF Adding, Arriving
  <2>4. QED
    BY <1>1, <1>2, <2>1, <2>3 DEF QuietInv
<1>6. CASE c # "eol"
  <2>1. rxDue' \in {rxDue, Append(rxDue, c)} /\ pcW' = "add"
    BY <1>0, <1>4, <1>6 DEF AddChar
  <2>2. rxDue' \in Seq(Chars \ {"eol"})
    <3>1. Append(rxDue, c) \in Seq(Chars \ {"eol"})
      BY <1>1, <1>6 DEF Adding
    <3>2. QED
      BY <1>1, <2>1, <3>1 DEF Adding
  <2>3. Adding'
    BY <1>1, <1>3, <2>2 DEF Adding
  <2>4. QED
    BY <1>1, <1>2, <2>1, <2>3 DEF QuietInv
<1>7. QED
  BY <1>5, <1>6

(* When every line sent ends with its only end of line, nothing is left      *)
(* over between lines: no character in either ring or in grbl could be       *)
(* mistaken with the reply to the next line.                                 *)
THEOREM NothingLeftOver ==
  ASSUME WholeLines
  PROVE  Spec => []QuietBetweenLines
<1>1. Init => QuietInv
  <2>0. SUFFICES ASSUME Init PROVE QuietInv
    OBVIOUS
  <2>1. PICK n \in Nat : n = 1
    OBVIOUS
  <2>2. PICK r \in Seq(Printable) : r = Message("start", n)
    BY MessageType DEF Kinds
  <2>3. Len(r) = n + 1
    BY <2>2, MessageElements
  <2>4. ASSUME NEW i \in 2 .. Len(r) PROVE i = Len(r)
    BY <2>1, <2>3
  <2>5. Ends(r, "start")
    BY <2>4 DEF Ends
  <2>6. <<>> \o r = r
    OBVIOUS
  <2>7. Ends(reply \o Coming, "start")
    BY <2>0, <2>1, <2>2, <2>5, <2>6 DEF Init, Coming
  <2>8. QED
    BY <2>0, <2>7 DEF Init, QuietInv, Answering, Before
<1>2. LinkInv /\ QuietInv /\ [Next]_vars => QuietInv'
  <2>0. SUFFICES ASSUME LinkInv, QuietInv, [Next]_vars PROVE QuietInv'
    OBVIOUS
  <2>1. ASSUME NEW cmd \in Lines, TakeCommand(cmd) PROVE QuietInv'
    <3>1. Whole(cmd)
      BY DEF WholeLines
    <3>2. Settled /\ pcW' = "space" /\ command' = cmd /\ ~reset /\ pcM # "boot"
      BY <2>0, <2>1 DEF QuietInv, TakeCommand
    <3>3. UNCHANGED <<rxDue, txDue, out, reply, pcM, after, reset, query>>
      BY <2>1 DEF TakeCommand, mainVars, flagVars
    <3>4. Settled'
      BY <3>2, <3>3 DEF Settled, Before
    <3>5. QED
      BY <3>1, <3>2, <3>3, <3>4 DEF QuietInv
  <2>2. CASE WriteCommand
    <3>1. Settled /\ Whole(command) /\ ~reset /\ pcM # "boot"
      BY <2>0, <2>2 DEF QuietInv, WriteCommand
    <3>2. /\ pcW' = "add"
          /\ UNCHANGED <<command, rxDue, txDue, out, reply, pcM, after, reset>>
      BY <2>2 DEF WriteCommand, mainVars, flagVars
    <3>3. Adding'
      <4>1. <<>> \in Seq(Chars \ {"eol"}) /\ <<>> \in Seq(Plain)
        OBVIOUS
      <4>2. QED
        BY <3>1, <3>2, <4>1 DEF Settled, Adding, Unread, Before
    <3>4. QED
      BY <3>1, <3>2, <3>3 DEF QuietInv
  <2>3. CASE Hear
    BY <2>0, <2>3, QuietHear
  <2>8. CASE AddChar
    BY <2>0, <2>8, QuietAdd
  <2>4. CASE Fail
    BY <2>4 DEF Fail, QuietInv
  <2>5. CASE Main
    BY <2>0, <2>5, QuietMain
  <2>6. CASE UNCHANGED vars \/ HoldComplete \/ Resume
    <3>1. UNCHANGED <<rxDue, txDue, out, reply, pcM, after, reset, query, pcW, command>>
      BY <2>6 DEF vars, mainVars, writerVars, flagVars, HoldComplete, Resume
    <3>2. QED
      BY <2>0, <3>1
      DEF QuietInv, Settled, Adding, Arriving, Arrived, Answering, Unread, Before, AtEnd, Coming
  <2>7. QED
    BY <2>0, <2>1, <2>2, <2>3, <2>4, <2>5, <2>6, <2>8 DEF Next, Writer
<1>3. QuietInv => QuietBetweenLines
  BY DEF QuietInv, Settled, QuietBetweenLines
<1>4. QED
  BY <1>1, <1>2, <1>3, LinkInvariant, PTL DEF Spec

===============================================================================
