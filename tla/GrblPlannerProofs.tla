-------------------------- MODULE GrblPlannerProofs --------------------------
(***************************************************************************)
(* Proofs about the planner's ring and the two passes over it, the motion  *)
(* that the stepper makes of the plan, and why no plan is faster.          *)
(***************************************************************************)
EXTENDS GrblPlanner, Induction

-----------------------------------------------------------------------------
(* The ring of indices. *)

\* The ring has at least two entries.
LEMMA Size == BlockBufferSize \in Nat /\ BlockBufferSize >= 2
  BY PlannerAssumption

\* The distance from one index forward to another.
LEMMA AheadIs ==
  ASSUME NEW i \in Index, NEW j \in Index
  PROVE  Ahead(i, j) = IF i <= j THEN j - i ELSE j - i + BlockBufferSize
<1>1. PICK N : N = BlockBufferSize
  OBVIOUS
<1>2. N \in Nat /\ N >= 2 /\ i \in 0 .. N - 1 /\ j \in 0 .. N - 1
  BY <1>1, Size DEF Index
<1>3. CASE i <= j
  <2>1. PICK a : a = j - i + N
    OBVIOUS
  <2>2. a \in N .. 2 * N - 1 /\ a - N = j - i
    BY <1>2, <1>3, <2>1
  <2>3. a % N = a - N
    BY <1>2, <2>2
  <2>4. QED
    BY <1>1, <1>3, <2>1, <2>2, <2>3 DEF Ahead
<1>4. CASE ~(i <= j)
  <2>1. PICK a : a = j - i + N
    OBVIOUS
  <2>2. a \in 0 .. N - 1
    BY <1>2, <1>4, <2>1
  <2>3. a % N = a
    BY <1>2, <2>2
  <2>4. QED
    BY <1>1, <1>4, <2>1, <2>3 DEF Ahead
<1>5. QED
  BY <1>3, <1>4

\* What Plus is, without the remainder.
LEMMA PlusIs ==
  ASSUME NEW i \in Index, NEW n \in Index
  PROVE  Plus(i, n) = IF i + n < BlockBufferSize THEN i + n ELSE i + n - BlockBufferSize
<1>1. PICK N : N = BlockBufferSize
  OBVIOUS
<1>2. N \in Nat /\ N >= 2 /\ i \in 0 .. N - 1 /\ n \in 0 .. N - 1
  BY <1>1, Size DEF Index
<1>3. PICK a : a = i + n
  OBVIOUS
<1>4. CASE a < N
  <2>1. a \in 0 .. N - 1
    BY <1>2, <1>3, <1>4
  <2>2. a % N = a
    BY <1>2, <2>1
  <2>3. QED
    BY <1>1, <1>3, <1>4, <2>2 DEF Plus
<1>5. CASE ~(a < N)
  <2>1. a \in N .. 2 * N - 1
    BY <1>2, <1>3, <1>5
  <2>2. a % N = a - N
    BY <1>2, <2>1
  <2>3. Plus(i, n) = a % N
    BY <1>1, <1>3 DEF Plus
  <2>4. QED
    BY <1>1, <1>2, <1>3, <1>5, <2>2, <2>3
<1>6. QED
  BY <1>4, <1>5

\* What Minus is, without the remainder.
LEMMA MinusIs ==
  ASSUME NEW i \in Index, NEW n \in Index
  PROVE  Minus(i, n) = IF n <= i THEN i - n ELSE i - n + BlockBufferSize
  BY AheadIs DEF Minus, Ahead

\* The indices around the ring.
LEMMA Around ==
  ASSUME NEW i \in Index
  PROVE  /\ NextIndex(i) \in Index /\ PrevIndex(i) \in Index
         /\ NextIndex(i) # i /\ PrevIndex(i) # i
         /\ NextIndex(PrevIndex(i)) = i /\ PrevIndex(NextIndex(i)) = i
  BY Size DEF Index, NextIndex, PrevIndex

\* The distance around the ring is an index, and zero only from an index to
\* itself.
LEMMA AheadRange ==
  ASSUME NEW i \in Index, NEW j \in Index
  PROVE  Ahead(i, j) \in Index /\ (Ahead(i, j) = 0 <=> i = j)
  BY Size, AheadIs DEF Index

\* One step of either index changes the distance by one.
LEMMA AheadSteps ==
  ASSUME NEW i \in Index, NEW j \in Index
  PROVE  /\ i # j => Ahead(NextIndex(i), j) = Ahead(i, j) - 1
         /\ i # j => Ahead(i, PrevIndex(j)) = Ahead(i, j) - 1
         /\ i # NextIndex(j) => Ahead(i, NextIndex(j)) = Ahead(i, j) + 1
         /\ Ahead(i, PrevIndex(i)) = BlockBufferSize - 1
         /\ Ahead(NextIndex(i), i) = BlockBufferSize - 1
<1>1. NextIndex(i) \in Index /\ PrevIndex(j) \in Index /\ NextIndex(j) \in Index /\ PrevIndex(i) \in Index
  BY Around
<1>2. i # j => Ahead(NextIndex(i), j) = Ahead(i, j) - 1
  BY <1>1, Size, AheadIs DEF Index, NextIndex
<1>3. i # j => Ahead(i, PrevIndex(j)) = Ahead(i, j) - 1
  BY <1>1, Size, AheadIs DEF Index, PrevIndex
<1>4. i # NextIndex(j) => Ahead(i, NextIndex(j)) = Ahead(i, j) + 1
  BY <1>1, Size, AheadIs DEF Index, NextIndex
<1>5. Ahead(i, PrevIndex(i)) = BlockBufferSize - 1
  BY <1>1, Size, AheadIs DEF Index, PrevIndex
<1>6. Ahead(NextIndex(i), i) = BlockBufferSize - 1
  <2>1. NextIndex(i) \in Index
    BY <1>1
  <2>2. Ahead(NextIndex(i), i) = IF NextIndex(i) <= i THEN i - NextIndex(i) ELSE i - NextIndex(i) + BlockBufferSize
    BY <2>1, AheadIs
  <2>3. QED
    BY <2>2, Size DEF Index, NextIndex
<1>7. QED
  BY <1>2, <1>3, <1>4, <1>5, <1>6

\* Three indices.
LEMMA AheadSum ==
  ASSUME NEW i \in Index, NEW j \in Index, NEW k \in Index
  PROVE  /\ Ahead(i, j) <= Ahead(i, k) => Ahead(i, j) + Ahead(j, k) = Ahead(i, k)
         /\ Ahead(i, j) > Ahead(i, k)
              => Ahead(i, j) + Ahead(j, k) = Ahead(i, k) + BlockBufferSize
  BY Size, AheadIs DEF Index

\* Plus goes as far ahead as it says.
LEMMA PlusAhead ==
  ASSUME NEW i \in Index, NEW n \in Index
  PROVE  Plus(i, n) \in Index /\ Ahead(i, Plus(i, n)) = n
<1>1. Plus(i, n) \in Index
  BY Size, PlusIs DEF Index
<1>2. PICK k \in Index : k = Plus(i, n)
  BY <1>1
<1>3. Ahead(i, k) = IF i <= k THEN k - i ELSE k - i + BlockBufferSize
  BY AheadIs
<1>4. k = IF i + n < BlockBufferSize THEN i + n ELSE i + n - BlockBufferSize
  BY <1>2, PlusIs
<1>5. Ahead(i, k) = n
  BY <1>3, <1>4, Size DEF Index
<1>6. QED
  BY <1>1, <1>2, <1>5

\* Going ahead by the distance to an index arrives there.
LEMMA AheadPlus ==
  ASSUME NEW i \in Index, NEW j \in Index
  PROVE  Plus(i, Ahead(i, j)) = j /\ Minus(j, Ahead(i, j)) = i
<1>1. Ahead(i, j) \in Index
  BY AheadRange
<1>2. QED
  BY <1>1, Size, AheadIs, PlusIs, MinusIs DEF Index

\* Two indices at the same distance are the same.
LEMMA AheadInjective ==
  ASSUME NEW i \in Index, NEW j \in Index, NEW k \in Index, Ahead(i, j) = Ahead(i, k)
  PROVE  j = k
  BY AheadPlus

-----------------------------------------------------------------------------
(* The two recursions. *)

\* The rings.
Blocks == [Index -> Block]

\* What Least promises.
LEMMA LeastIs ==
  ASSUME NEW a \in Nat, NEW b \in Nat
  PROVE  Least(a, b) \in Nat /\ Least(a, b) <= a /\ Least(a, b) <= b /\ Least(a, b) \in {a, b}
  BY DEF Least

\* A step of the reverse pass ends at the corner or at full braking.
LEMMA BackwardsIs ==
  ASSUME NEW b \in Block, NEW next \in Nat
  PROVE  /\ Backwards(b, next) \in Nat
         /\ Backwards(b, next) <= b.maxEntry
         /\ Backwards(b, next) = b.maxEntry \/ Backwards(b, next) = next + b.dist
  BY DEF Backwards, Least, Block

\* A step of the forward pass keeps the wanted speed or ends at full
\* acceleration.
LEMMA ForwardsIs ==
  ASSUME NEW before \in Nat, NEW dist \in Nat, NEW wanted \in Nat
  PROVE  /\ Forwards(before, dist, wanted) \in Nat
         /\ Forwards(before, dist, wanted) <= wanted
         /\ Forwards(before, dist, wanted) <= before + dist
         /\ Forwards(before, dist, wanted) = wanted \/ Forwards(before, dist, wanted) = before + dist
  BY DEF Forwards, Least

\* The speeds that the reverse pass computes.
BackFrom(e, b, h, n) ==
  /\ e \in [0 .. n - 1 -> Nat]
  /\ e[0] = Least(b[PrevIndex(h)].maxEntry, b[PrevIndex(h)].dist)
  /\ \A k \in 1 .. n - 1 : e[k] = Backwards(b[Minus(PrevIndex(h), k)], e[k - 1])

\* The recursion of the reverse pass, unfolded once.
LEMMA SpeedsBackIs ==
  ASSUME NEW b \in Blocks, NEW h \in Index, NEW n \in Index, n > 0
  PROVE  BackFrom(SpeedsBack(b, h, n), b, h, n)
<1>1. PICK N : N = n - 1
  OBVIOUS
<1>2. N \in Nat /\ N + 1 \in Index /\ \A k \in 0 .. N : k \in Index
  BY <1>1, Size DEF Index
<1>3. PICK last \in Index : last = PrevIndex(h)
  BY Around
<1>4. \A k \in 0 .. N : Minus(last, k) \in Index
  BY <1>2, MinusIs, Size DEF Index
<1>5. \A k \in 0 .. N : b[Minus(last, k)] \in Block
  BY <1>4 DEF Blocks
<1>6. PICK g : g = [k \in 1 .. N |-> [x \in Nat |-> Backwards(b[Minus(last, k)], x)]]
  OBVIOUS
<1>7. \A k \in 1 .. N, x \in Nat : Backwards(b[Minus(last, k)], x) \in Nat
  <2>1. \A k \in 1 .. N : k \in 0 .. N
    BY <1>2
  <2>2. QED
    BY <1>5, <2>1, BackwardsIs
<1>8. g \in Steps(Nat, N) /\ \A k \in 1 .. N, x \in Nat : g[k][x] = Backwards(b[Minus(last, k)], x)
  BY <1>6, <1>7 DEF Steps
<1>9. PICK z : z = Least(b[last].maxEntry, b[last].dist)
  OBVIOUS
<1>10. z \in Nat
  BY <1>3, <1>9, LeastIs DEF Blocks, Block
<1>11. PICK f : Follows(f, Nat, N, z, g)
  BY <1>2, <1>8, <1>10, Recursion
<1>12. f \in [0 .. N -> Nat] /\ f[0] = z /\ \A i \in 1 .. N : f[i] = g[i][f[i - 1]]
  BY <1>11 DEF Follows
<1>13. \A i \in 1 .. N : i \in 0 .. N /\ i # 0 /\ i - 1 \in 0 .. N
  BY <1>2
<1>14. \A i \in 1 .. N : f[i] = Backwards(b[Minus(last, i)], f[i - 1])
  BY <1>8, <1>12, <1>13
<1>15. Minus(last, 0) = last
  BY <1>2, MinusIs, Size DEF Index
<1> DEFINE F == CHOOSE e : e = [k \in 0 .. N |->
                  IF k = 0 THEN Least(b[Minus(last, k)].maxEntry, b[Minus(last, k)].dist)
                  ELSE Backwards(b[Minus(last, k)], e[k - 1])]
<1>16. F = [k \in 0 .. N |-> IF k = 0 THEN Least(b[Minus(last, k)].maxEntry, b[Minus(last, k)].dist)
                             ELSE Backwards(b[Minus(last, k)], F[k - 1])]
  <2>1. \A i \in 0 .. N : i = 0 \/ i \in 1 .. N
    BY <1>2
  <2>2. \A k \in 0 .. N : f[k] = IF k = 0 THEN Least(b[Minus(last, k)].maxEntry, b[Minus(last, k)].dist)
                                 ELSE Backwards(b[Minus(last, k)], f[k - 1])
    BY <1>9, <1>12, <1>14, <1>15, <2>1
  <2>3. f = [k \in 0 .. N |-> IF k = 0 THEN Least(b[Minus(last, k)].maxEntry, b[Minus(last, k)].dist)
                              ELSE Backwards(b[Minus(last, k)], f[k - 1])]
    BY <1>12, <2>2
  <2>4. QED
    BY <2>3
<1>17. SpeedsBack(b, h, n) = F
  BY <1>1, <1>3 DEF SpeedsBack
<1> HIDE DEF F
<1>18. F[0] = z /\ \A i \in 1 .. N : F[i] = Backwards(b[Minus(last, i)], F[i - 1])
  <2>1. 0 \in 0 .. N
    BY <1>2
  <2>2. QED
    BY <1>9, <1>13, <1>15, <1>16, <2>1
<1>19. \A i \in 0 .. N : F[i] \in Nat
  <2>1. PICK T : T = {i \in 0 .. N : F[i] \in Nat}
    OBVIOUS
  <2>2. 0 \in T
    BY <1>2, <1>10, <1>18, <2>1
  <2>3. ASSUME NEW i \in 1 .. N, i - 1 \in T PROVE i \in T
    <3>1. F[i - 1] \in Nat
      BY <2>1, <2>3
    <3>2. Backwards(b[Minus(last, i)], F[i - 1]) \in Nat
      BY <1>5, <1>13, <3>1, BackwardsIs
    <3>3. QED
      BY <1>13, <1>18, <2>1, <3>2
  <2>4. \A i \in 0 .. N : i \in T
    BY <1>2, <2>2, <2>3, UpTo
  <2>5. QED
    BY <2>1, <2>4
<1>20. F \in [0 .. N -> Nat]
  BY <1>16, <1>19
<1>21. QED
  BY <1>1, <1>3, <1>9, <1>17, <1>18, <1>20 DEF BackFrom

\* The speeds that the forward pass computes.
AheadFrom(e, b, p, n) ==
  /\ e \in [0 .. n -> Nat]
  /\ e[0] = b[p].entry
  /\ \A k \in 1 .. n : e[k] = Forwards(e[k - 1], b[Plus(p, k - 1)].dist, b[Plus(p, k)].entry)

\* The recursion of the forward pass, unfolded once.
LEMMA SpeedsAheadIs ==
  ASSUME NEW b \in Blocks, NEW p \in Index, NEW n \in Index
  PROVE  AheadFrom(SpeedsAhead(b, p, n), b, p, n)
<1>1. n \in Nat /\ \A k \in 0 .. n : k \in Index
  BY Size DEF Index
<1>2. \A k \in 0 .. n : b[Plus(p, k)].dist \in Nat /\ b[Plus(p, k)].entry \in Nat
  <2>1. \A k \in 0 .. n : Plus(p, k) \in Index
    BY <1>1, PlusAhead
  <2>2. QED
    BY <2>1 DEF Blocks, Block
<1>3. \A i \in 1 .. n : i \in 0 .. n /\ i # 0 /\ i - 1 \in 0 .. n
  BY <1>1
<1>4. PICK g : g = [k \in 1 .. n |-> [x \in Nat |-> Forwards(x, b[Plus(p, k - 1)].dist, b[Plus(p, k)].entry)]]
  OBVIOUS
<1>5. \A k \in 1 .. n, x \in Nat : Forwards(x, b[Plus(p, k - 1)].dist, b[Plus(p, k)].entry) \in Nat
  BY <1>2, <1>3, ForwardsIs
<1>6. g \in Steps(Nat, n)
      /\ \A k \in 1 .. n, x \in Nat : g[k][x] = Forwards(x, b[Plus(p, k - 1)].dist, b[Plus(p, k)].entry)
  BY <1>4, <1>5 DEF Steps
<1>7. b[p].entry \in Nat
  BY DEF Blocks, Block
<1>8. PICK f : Follows(f, Nat, n, b[p].entry, g)
  BY <1>1, <1>6, <1>7, Recursion
<1>9. f \in [0 .. n -> Nat] /\ f[0] = b[p].entry /\ \A i \in 1 .. n : f[i] = g[i][f[i - 1]]
  BY <1>8 DEF Follows
<1>10. \A i \in 1 .. n : f[i] = Forwards(f[i - 1], b[Plus(p, i - 1)].dist, b[Plus(p, i)].entry)
  BY <1>3, <1>6, <1>9
<1> DEFINE F == CHOOSE e : e = [k \in 0 .. n |->
                  IF k = 0 THEN b[p].entry
                  ELSE Forwards(e[k - 1], b[Plus(p, k - 1)].dist, b[Plus(p, k)].entry)]
<1>11. F = [k \in 0 .. n |-> IF k = 0 THEN b[p].entry
                             ELSE Forwards(F[k - 1], b[Plus(p, k - 1)].dist, b[Plus(p, k)].entry)]
  <2>1. \A i \in 0 .. n : i = 0 \/ i \in 1 .. n
    BY <1>1
  <2>2. \A k \in 0 .. n : f[k] = IF k = 0 THEN b[p].entry
                                 ELSE Forwards(f[k - 1], b[Plus(p, k - 1)].dist, b[Plus(p, k)].entry)
    BY <1>9, <1>10, <2>1
  <2>3. f = [k \in 0 .. n |-> IF k = 0 THEN b[p].entry
                              ELSE Forwards(f[k - 1], b[Plus(p, k - 1)].dist, b[Plus(p, k)].entry)]
    BY <1>9, <2>2
  <2>4. QED
    BY <2>3
<1>12. SpeedsAhead(b, p, n) = F
  BY DEF SpeedsAhead
<1> HIDE DEF F
<1>13. /\ F[0] = b[p].entry
       /\ \A i \in 1 .. n : F[i] = Forwards(F[i - 1], b[Plus(p, i - 1)].dist, b[Plus(p, i)].entry)
  <2>1. 0 \in 0 .. n
    BY <1>1
  <2>2. QED
    BY <1>3, <1>11, <2>1
<1>14. \A i \in 0 .. n : F[i] \in Nat
  <2>1. PICK T : T = {i \in 0 .. n : F[i] \in Nat}
    OBVIOUS
  <2>2. 0 \in T
    BY <1>1, <1>7, <1>13, <2>1
  <2>3. ASSUME NEW i \in 1 .. n, i - 1 \in T PROVE i \in T
    <3>1. F[i - 1] \in Nat
      BY <2>1, <2>3
    <3>2. Forwards(F[i - 1], b[Plus(p, i - 1)].dist, b[Plus(p, i)].entry) \in Nat
      BY <1>2, <1>3, <3>1, ForwardsIs
    <3>3. QED
      BY <1>3, <1>13, <2>1, <3>2
  <2>4. \A i \in 0 .. n : i \in T
    BY <1>1, <2>2, <2>3, UpTo
  <2>5. QED
    BY <2>1, <2>4
<1>15. F \in [0 .. n -> Nat]
  BY <1>11, <1>14
<1>16. QED
  BY <1>12, <1>13, <1>15 DEF AheadFrom

-----------------------------------------------------------------------------
(* The two passes, block by block. *)

\* The blocks that a pass from the planned pointer to the newest block may change.
Reach(h, p) == {i \in Index : Ahead(p, i) \in 1 .. Plannable(h, p)}

\* Two blocks that differ in nothing but the entry speed.
SameBut(b, c) == /\ b.rate = c.rate /\ b.rapid = c.rapid /\ b.corner = c.corner
                 /\ b.dist = c.dist /\ b.maxEntry = c.maxEntry

\* Two rings that differ in entry speeds within the reach of a pass alone.
OnlyEntries(b, c, h, p) ==
  /\ c \in Blocks
  /\ \A i \in Index : SameBut(b[i], c[i])
  /\ \A i \in Index \ Reach(h, p) : c[i] = b[i]

\* Ring b with the entry speeds x within the reach of a pass.
Overwritten(b, c, x, h, p) ==
  c = [i \in Index |-> IF i \in Reach(h, p) THEN [b[i] EXCEPT !.entry = x[i]] ELSE b[i]]

\* A ring whose entry speeds are overwritten within the reach of a pass.
LEMMA EntriesOnly ==
  ASSUME NEW b \in Blocks, NEW h \in Index, NEW p \in Index, NEW x \in [Index -> Nat],
         NEW c, Overwritten(b, c, x, h, p)
  PROVE  OnlyEntries(b, c, h, p) /\ \A i \in Reach(h, p) : c[i].entry = x[i]
<1>1. ASSUME NEW i \in Index
      PROVE  /\ c[i] \in Block /\ SameBut(b[i], c[i])
             /\ i \in Reach(h, p) => c[i].entry = x[i]
             /\ i \notin Reach(h, p) => c[i] = b[i]
  <2>1. b[i] \in Block /\ x[i] \in Nat
    BY DEF Blocks
  <2>2. CASE i \in Reach(h, p)
    <3>1. c[i] = [b[i] EXCEPT !.entry = x[i]]
      BY <2>2 DEF Overwritten
    <3>2. QED
      BY <2>1, <2>2, <3>1 DEF Block, SameBut
  <2>3. CASE i \notin Reach(h, p)
    BY <2>1, <2>3 DEF SameBut, Overwritten
  <2>4. QED
    BY <2>2, <2>3
<1>2. c \in Blocks
  BY <1>1 DEF Blocks, Overwritten
<1>3. QED
  BY <1>1, <1>2 DEF OnlyEntries, Reach

\* How many blocks a pass may change.
LEMMA PlannableIs ==
  ASSUME NEW h \in Index, NEW p \in Index
  PROVE  /\ PrevIndex(h) \in Index
         /\ Plannable(h, p) \in Index
         /\ Plannable(h, p) \in 0 .. BlockBufferSize - 1
         /\ Plannable(h, p) = 0 <=> p = PrevIndex(h)
         /\ Ahead(p, PrevIndex(h)) = Plannable(h, p)
<1>1. PrevIndex(h) \in Index
  BY Around
<1>2. QED
  BY <1>1, AheadRange DEF Plannable, Index

\* The reach of a pass, counted from the newest block back.
LEMMA ReachIs ==
  ASSUME NEW h \in Index, NEW p \in Index, NEW i \in Index
  PROVE  /\ i \in Reach(h, p) <=> Ahead(i, PrevIndex(h)) < Plannable(h, p)
         /\ i \in Reach(h, p) => /\ Ahead(i, PrevIndex(h)) = Plannable(h, p) - Ahead(p, i)
                                 /\ Ahead(i, PrevIndex(h)) \in 0 .. Plannable(h, p) - 1
         /\ i \in Reach(h, p) => i # p
<1>1. PICK last \in Index : last = PrevIndex(h)
  BY Around
<1>2. PICK n \in 0 .. BlockBufferSize - 1 : n = Plannable(h, p)
  BY PlannableIs
<1>3. Ahead(p, last) = n
  BY <1>1, <1>2, PlannableIs
<1>4. PICK a \in 0 .. BlockBufferSize - 1 : a = Ahead(p, i)
  BY AheadRange DEF Index
<1>5. PICK c \in 0 .. BlockBufferSize - 1 : c = Ahead(i, last)
  BY AheadRange DEF Index
<1>6. (a <= n => a + c = n) /\ (a > n => a + c = n + BlockBufferSize)
  BY <1>3, <1>4, <1>5, AheadSum
<1>7. i \in Reach(h, p) <=> a \in 1 .. n
  BY <1>2, <1>4 DEF Reach
<1>8. a = 0 <=> i = p
  BY <1>4, AheadRange
<1>9. QED
  BY <1>1, <1>2, <1>4, <1>5, <1>6, <1>7, <1>8, Size

\* The newest block is within the reach of a pass that has anything to do.
LEMMA NewestReached ==
  ASSUME NEW h \in Index, NEW p \in Index, p # PrevIndex(h)
  PROVE  PrevIndex(h) \in Reach(h, p)
<1>1. PICK last \in Index : last = PrevIndex(h)
  BY Around
<1>2. Ahead(last, last) = 0
  BY AheadRange
<1>3. Plannable(h, p) > 0
  BY PlannableIs, Size
<1>4. QED
  BY <1>1, <1>2, <1>3, ReachIs

\* The neighbours of a block within the reach of a pass.
LEMMA ReachSteps ==
  ASSUME NEW h \in Index, NEW p \in Index, NEW i \in Reach(h, p)
  PROVE  /\ i \in Index /\ i # p
         /\ i # PrevIndex(h) => /\ NextIndex(i) \in Reach(h, p)
                                /\ Ahead(p, NextIndex(i)) = Ahead(p, i) + 1
                                /\ Ahead(NextIndex(i), PrevIndex(h)) = Ahead(i, PrevIndex(h)) - 1
         /\ PrevIndex(i) = p \/ PrevIndex(i) \in Reach(h, p)
         /\ Ahead(p, PrevIndex(i)) = Ahead(p, i) - 1
<1>1. i \in Index /\ i # p
  BY ReachIs DEF Reach
<1>2. PICK n \in 0 .. BlockBufferSize - 1 : n = Plannable(h, p)
  BY PlannableIs
<1>3. PICK a \in 1 .. n : a = Ahead(p, i)
  BY <1>2 DEF Reach
<1>4. PrevIndex(h) \in Index /\ PrevIndex(i) \in Index /\ NextIndex(i) \in Index
  BY <1>1, Around
<1>5. ASSUME i # PrevIndex(h)
      PROVE  /\ NextIndex(i) \in Reach(h, p)
             /\ Ahead(p, NextIndex(i)) = a + 1
             /\ Ahead(NextIndex(i), PrevIndex(h)) = Ahead(i, PrevIndex(h)) - 1
  <2>1. a # n
    BY <1>1, <1>2, <1>3, <1>4, <1>5, AheadInjective, PlannableIs
  <2>2. NextIndex(i) # p
    <3>1. SUFFICES ASSUME NextIndex(i) = p PROVE FALSE
      OBVIOUS
    <3>2. i = PrevIndex(p)
      BY <1>1, <3>1, Around
    <3>3. a = BlockBufferSize - 1
      BY <1>3, <3>2, AheadSteps
    <3>4. QED
      BY <1>2, <1>3, <2>1, <3>3, Size
  <2>3. Ahead(p, NextIndex(i)) = a + 1
    BY <1>1, <1>3, <2>2, AheadSteps
  <2>4. a + 1 \in 1 .. n
    BY <1>2, <1>3, <2>1
  <2>5. QED
    BY <1>1, <1>2, <1>4, <1>5, <2>3, <2>4, AheadSteps DEF Reach
<1>6. Ahead(p, PrevIndex(i)) = a - 1
  BY <1>1, <1>3, AheadSteps
<1>7. PrevIndex(i) = p \/ PrevIndex(i) \in Reach(h, p)
  <2>1. CASE a = 1
    BY <1>4, <1>6, <2>1, AheadRange
  <2>2. CASE a # 1
    <3>1. a - 1 \in 1 .. n
      BY <1>2, <1>3, <2>2
    <3>2. QED
      BY <1>2, <1>4, <1>6, <3>1 DEF Reach
  <2>3. QED
    BY <2>1, <2>2
<1>8. QED
  BY <1>1, <1>3, <1>5, <1>6, <1>7

\* The reverse pass.
Reversed(b, r, h, p) ==
  /\ OnlyEntries(b, r, h, p)
  /\ r[PrevIndex(h)].entry = Least(b[PrevIndex(h)].maxEntry, b[PrevIndex(h)].dist)
  /\ \A i \in Reach(h, p) \ {PrevIndex(h)} : r[i].entry = Backwards(b[i], r[NextIndex(i)].entry)

\* The reverse pass, block by block.
LEMMA ReversePassIs ==
  ASSUME NEW b \in Blocks, NEW h \in Index, NEW p \in Index, p # PrevIndex(h)
  PROVE  Reversed(b, ReversePass(b, h, p), h, p)
<1>1. PICK n : n = Plannable(h, p)
  OBVIOUS
<1>2. n \in Index /\ n \in 1 .. BlockBufferSize - 1 /\ n > 0
  BY <1>1, PlannableIs, Size
<1>3. PICK last \in Index : last = PrevIndex(h)
  BY Around
<1>4. PICK e : e = SpeedsBack(b, h, n)
  OBVIOUS
<1>5. BackFrom(e, b, h, n)
  BY <1>2, <1>4, SpeedsBackIs
<1>6. /\ e \in [0 .. n - 1 -> Nat] /\ e[0] = Least(b[last].maxEntry, b[last].dist)
      /\ \A k \in 1 .. n - 1 : e[k] = Backwards(b[Minus(last, k)], e[k - 1])
  BY <1>3, <1>5 DEF BackFrom
<1>7. PICK x : x = [i \in Index |-> IF i \in Reach(h, p) THEN e[Ahead(i, last)] ELSE 0]
  OBVIOUS
<1>8. \A i \in Reach(h, p) : x[i] = e[Ahead(i, last)] /\ Ahead(i, last) \in 0 .. n - 1
  BY <1>1, <1>3, <1>7, ReachIs DEF Reach
<1>9. x \in [Index -> Nat]
  <2>1. \A i \in Index : (IF i \in Reach(h, p) THEN e[Ahead(i, last)] ELSE 0) \in Nat
    BY <1>6, <1>8
  <2>2. QED
    BY <1>7, <2>1
<1>10. PICK c : c = ReversePass(b, h, p)
  OBVIOUS
<1>11. Overwritten(b, c, x, h, p)
  <2>1. c = [i \in Index |-> IF Ahead(i, last) < n THEN [b[i] EXCEPT !.entry = e[Ahead(i, last)]] ELSE b[i]]
    BY <1>1, <1>3, <1>4, <1>10 DEF ReversePass
  <2>2. \A i \in Index : Ahead(i, last) < n <=> i \in Reach(h, p)
    BY <1>1, <1>3, ReachIs
  <2>3. QED
    BY <1>8, <2>1, <2>2 DEF Overwritten
<1>12. OnlyEntries(b, c, h, p) /\ \A i \in Reach(h, p) : c[i].entry = e[Ahead(i, last)]
  BY <1>8, <1>9, <1>11, EntriesOnly
<1>13. last \in Reach(h, p) /\ Ahead(last, last) = 0
  <2>1. Ahead(last, last) = 0
    BY AheadRange
  <2>2. QED
    BY <1>1, <1>2, <1>3, <2>1, ReachIs
<1>14. c[last].entry = Least(b[last].maxEntry, b[last].dist)
  BY <1>6, <1>12, <1>13
<1>15. ASSUME NEW i \in Reach(h, p) \ {last}
       PROVE  c[i].entry = Backwards(b[i], c[NextIndex(i)].entry)
  <2>1. i \in Index /\ NextIndex(i) \in Reach(h, p) /\ Ahead(NextIndex(i), last) = Ahead(i, last) - 1
    BY <1>3, ReachSteps
  <2>2. PICK k : k = Ahead(i, last)
    OBVIOUS
  <2>3. k \in 0 .. n - 1 /\ k - 1 \in 0 .. n - 1
    BY <1>8, <2>1, <2>2
  <2>4. k \in 1 .. n - 1
    BY <1>2, <2>3
  <2>5. Minus(last, k) = i
    BY <2>1, <2>2, AheadPlus
  <2>6. QED
    BY <1>6, <1>12, <2>1, <2>2, <2>4, <2>5
<1>16. QED
  BY <1>3, <1>10, <1>12, <1>14, <1>15 DEF Reversed

\* The forward pass: its speeds, and where it leaves the planned pointer.
Forwarded(r, f, h, p) ==
  /\ OnlyEntries(r, f, h, p)
  /\ \A i \in Reach(h, p) :
       f[i].entry = Forwards(f[PrevIndex(i)].entry, r[PrevIndex(i)].dist, r[i].entry)

\* A block that no newer one can change.
SettledAt(r, f, i) == f[i].entry < r[i].entry \/ f[i].entry = r[i].maxEntry

\* The last of them, or the planned block.
LastSettled(r, f, h, p, q) ==
  /\ q = p \/ (q \in Reach(h, p) /\ SettledAt(r, f, q))
  /\ \A i \in Reach(h, p) :
       SettledAt(r, f, i) => q \in Reach(h, p) /\ Ahead(p, i) <= Ahead(p, q)

\* A nonempty set of numbers up to n has a greatest one.
LEMMA GreatestNumber ==
  ASSUME NEW n \in Nat, NEW T, T \subseteq 1 .. n, T # {}
  PROVE  \E m \in T : \A k \in T : k <= m
<1>1. PICK D : D = {n - k : k \in T}
  OBVIOUS
<1>2. D \subseteq Nat /\ D # {}
  <2>1. \A k \in T : k \in 1 .. n
    OBVIOUS
  <2>2. \A k \in T : n - k \in Nat
    BY <2>1
  <2>3. QED
    BY <1>1, <2>2
<1>3. PICK d \in D : \A k \in D : d <= k
  BY <1>2, LeastNumber
<1>4. PICK m \in T : d = n - m
  BY <1>1, <1>3
<1>5. ASSUME NEW k \in T PROVE k <= m
  <2>1. n - k \in D
    BY <1>1
  <2>2. n - m <= n - k
    BY <1>3, <1>4, <2>1
  <2>3. QED
    BY <2>2
<1>6. QED
  BY <1>5

\* The forward pass, block by block, and where it leaves the planned pointer.
LEMMA ForwardPassIs ==
  ASSUME NEW r \in Blocks, NEW h \in Index, NEW p \in Index, p # PrevIndex(h)
  PROVE  \E f, q : /\ ForwardPass(r, h, p) = [block |-> f, planned |-> q]
                   /\ Forwarded(r, f, h, p)
                   /\ LastSettled(r, f, h, p, q)
<1>1. PICK n : n = Plannable(h, p)
  OBVIOUS
<1>2. n \in Index /\ n \in 1 .. BlockBufferSize - 1 /\ n \in Nat
  BY <1>1, PlannableIs, Size
<1>3. PICK e : e = SpeedsAhead(r, p, n)
  OBVIOUS
<1>4. AheadFrom(e, r, p, n)
  BY <1>2, <1>3, SpeedsAheadIs
<1>5. /\ e \in [0 .. n -> Nat] /\ e[0] = r[p].entry
      /\ \A k \in 1 .. n : e[k] = Forwards(e[k - 1], r[Plus(p, k - 1)].dist, r[Plus(p, k)].entry)
  BY <1>4 DEF AheadFrom
<1>6. PICK x : x = [i \in Index |-> IF i \in Reach(h, p) THEN e[Ahead(p, i)] ELSE 0]
  OBVIOUS
<1>7. \A i \in Reach(h, p) : /\ x[i] = e[Ahead(p, i)] /\ Ahead(p, i) \in 1 .. n
                             /\ Ahead(p, i) \in 0 .. n /\ Plus(p, Ahead(p, i)) = i
  BY <1>1, <1>6, AheadPlus DEF Reach
<1>8. x \in [Index -> Nat]
  <2>1. \A i \in Index : (IF i \in Reach(h, p) THEN e[Ahead(p, i)] ELSE 0) \in Nat
    BY <1>5, <1>7
  <2>2. QED
    BY <1>6, <2>1
<1>9. PICK f : f = [i \in Index |-> IF Ahead(p, i) \in 1 .. n THEN [r[i] EXCEPT !.entry = e[Ahead(p, i)]]
                                    ELSE r[i]]
  OBVIOUS
<1>10. Overwritten(r, f, x, h, p)
  <2>1. \A i \in Index : i \in Reach(h, p) <=> Ahead(p, i) \in 1 .. n
    BY <1>1 DEF Reach
  <2>2. QED
    BY <1>7, <1>9, <2>1 DEF Overwritten
<1>11. OnlyEntries(r, f, h, p) /\ \A i \in Reach(h, p) : f[i].entry = e[Ahead(p, i)]
  BY <1>7, <1>8, <1>10, EntriesOnly
<1>12. \A k \in 1 .. n : /\ Plus(p, k) \in Reach(h, p) /\ Ahead(p, Plus(p, k)) = k
                         /\ f[Plus(p, k)].entry = e[k]
  <2>1. \A k \in 1 .. n : k \in Index
    BY <1>2, Size DEF Index
  <2>2. \A k \in 1 .. n : Plus(p, k) \in Reach(h, p) /\ Ahead(p, Plus(p, k)) = k
    BY <1>1, <2>1, PlusAhead DEF Reach
  <2>3. QED
    BY <1>11, <2>2
<1>13. f[p].entry = e[0]
  <2>1. p \notin Reach(h, p)
    BY ReachIs
  <2>2. QED
    BY <1>5, <1>11, <2>1 DEF OnlyEntries
<1>14. Forwarded(r, f, h, p)
  <2>1. ASSUME NEW i \in Reach(h, p)
        PROVE  f[i].entry = Forwards(f[PrevIndex(i)].entry, r[PrevIndex(i)].dist, r[i].entry)
    <3>1. PICK k \in 1 .. n : k = Ahead(p, i)
      BY <1>7
    <3>2. PrevIndex(i) \in Index /\ Ahead(p, PrevIndex(i)) = k - 1
      BY <3>1, ReachSteps, Around
    <3>3. Plus(p, k) = i /\ Plus(p, k - 1) = PrevIndex(i)
      BY <1>7, <3>1, <3>2, AheadPlus
    <3>4. f[PrevIndex(i)].entry = e[k - 1]
      BY <1>11, <1>13, <3>2, ReachSteps, AheadRange
    <3>5. QED
      BY <1>5, <1>11, <3>1, <3>3, <3>4
  <2>2. QED
    BY <1>11, <2>1 DEF Forwarded
<1>15. PICK T : T = {k \in 1 .. n : e[k] < r[Plus(p, k)].entry \/ e[k] = r[Plus(p, k)].maxEntry}
  OBVIOUS
<1>16. PICK m : m = CHOOSE k \in T : \A j \in T : j <= k
  OBVIOUS
<1>17. T # {} => m \in T /\ \A j \in T : j <= m
  <2>1. SUFFICES ASSUME T # {} PROVE m \in T /\ \A j \in T : j <= m
    OBVIOUS
  <2>2. \E k \in T : \A j \in T : j <= k
    BY <1>2, <1>15, <2>1, GreatestNumber
  <2>3. QED
    BY <1>16, <2>2
<1>18. PICK q : q = IF T = {} THEN p ELSE Plus(p, m)
  OBVIOUS
<1>19. ForwardPass(r, h, p) = [block |-> f, planned |-> q]
  BY <1>1, <1>3, <1>9, <1>15, <1>16, <1>18 DEF ForwardPass
<1>20. \A i \in Reach(h, p) : SettledAt(r, f, i) => Ahead(p, i) \in T
  BY <1>7, <1>11, <1>15 DEF SettledAt
<1>21. T # {} => q \in Reach(h, p) /\ Ahead(p, q) = m /\ SettledAt(r, f, q)
  BY <1>12, <1>15, <1>17, <1>18 DEF SettledAt
<1>22. LastSettled(r, f, h, p, q)
  <2>1. q = p \/ (q \in Reach(h, p) /\ SettledAt(r, f, q))
    BY <1>18, <1>21
  <2>2. ASSUME NEW i \in Reach(h, p), SettledAt(r, f, i)
        PROVE  q \in Reach(h, p) /\ Ahead(p, i) <= Ahead(p, q)
    BY <1>17, <1>20, <1>21, <2>2
  <2>3. QED
    BY <2>1, <2>2 DEF LastSettled
<1>23. QED
  BY <1>14, <1>19, <1>22

-----------------------------------------------------------------------------
(* planner_recalculate. *)

\* The ring c and the planned pointer q that planner_recalculate leaves.
Replans(b, h, p, c, q) ==
  \/ p = PrevIndex(h) /\ c = b /\ q = p
  \/ /\ p # PrevIndex(h)
     /\ \E r \in Blocks : /\ Reversed(b, r, h, p)
                          /\ Forwarded(r, c, h, p)
                          /\ LastSettled(r, c, h, p, q)

\* planner_recalculate is the two passes, or nothing.
LEMMA RecalculateIs ==
  ASSUME NEW b \in Blocks, NEW h \in Index, NEW p \in Index
  PROVE  Replans(b, h, p, Recalculate(b, h, p).block, Recalculate(b, h, p).planned)
<1>1. CASE p = PrevIndex(h)
  <2>1. Plannable(h, p) = 0
    BY <1>1, PlannableIs
  <2>2. QED
    BY <1>1, <2>1 DEF Recalculate, Replans
<1>2. CASE p # PrevIndex(h)
  <2>1. PICK r : r = ReversePass(b, h, p)
    OBVIOUS
  <2>2. Reversed(b, r, h, p) /\ r \in Blocks
    BY <1>2, <2>1, ReversePassIs DEF Reversed, OnlyEntries
  <2>3. PICK f, q : /\ ForwardPass(r, h, p) = [block |-> f, planned |-> q]
                    /\ Forwarded(r, f, h, p) /\ LastSettled(r, f, h, p, q)
    BY <1>2, <2>2, ForwardPassIs
  <2>4. Plannable(h, p) # 0
    BY <1>2, PlannableIs
  <2>5. Recalculate(b, h, p).block = f /\ Recalculate(b, h, p).planned = q
    BY <2>1, <2>3, <2>4 DEF Recalculate
  <2>6. QED
    BY <1>2, <2>2, <2>3, <2>5 DEF Replans
<1>3. QED
  BY <1>1, <1>2

\* Only entry speeds change, only behind the planned pointer, and none beyond
\* the speed its corner allows.
LEMMA ReplansWithin ==
  ASSUME NEW b \in Blocks, NEW h \in Index, NEW p \in Index, NEW c, NEW q, Replans(b, h, p, c, q)
  PROVE  /\ c \in Blocks
         /\ q = p \/ q \in Reach(h, p)
         /\ q \in Index
         /\ \A i \in Index : SameBut(b[i], c[i])
         /\ \A i \in Index \ Reach(h, p) : c[i] = b[i]
         /\ \A i \in Reach(h, p) : c[i].entry <= c[i].maxEntry
<1>1. CASE p = PrevIndex(h) /\ c = b /\ q = p
  <2>1. Plannable(h, p) = 0
    BY <1>1, PlannableIs
  <2>2. Reach(h, p) = {}
    BY <2>1 DEF Reach
  <2>3. QED
    BY <1>1, <2>2 DEF SameBut
<1>2. CASE p # PrevIndex(h)
  <2>1. PICK r \in Blocks : /\ Reversed(b, r, h, p)
                            /\ Forwarded(r, c, h, p) /\ LastSettled(r, c, h, p, q)
    BY <1>2 DEF Replans
  <2>2. OnlyEntries(b, r, h, p) /\ OnlyEntries(r, c, h, p)
    BY <2>1 DEF Reversed, Forwarded
  <2>3. c \in Blocks /\ Reach(h, p) \subseteq Index
    BY <2>2 DEF OnlyEntries, Reach
  <2>4. \A i \in Index : SameBut(b[i], r[i]) /\ SameBut(r[i], c[i])
    BY <2>2 DEF OnlyEntries
  <2>5. \A i \in Index : SameBut(b[i], c[i])
    BY <2>4 DEF SameBut
  <2>6. \A i \in Index \ Reach(h, p) : c[i] = b[i]
    BY <2>2 DEF OnlyEntries
  <2>7. q = p \/ q \in Reach(h, p)
    BY <2>1 DEF LastSettled
  <2>8. ASSUME NEW i \in Reach(h, p) PROVE c[i].entry <= c[i].maxEntry
    <3>1. i \in Index /\ PrevIndex(i) \in Index
      BY <2>3, Around
    <3>2. /\ b[i] \in Block /\ r[i] \in Block /\ c[i] \in Block /\ r[PrevIndex(i)] \in Block
          /\ c[PrevIndex(i)] \in Block
      BY <2>1, <2>3, <3>1 DEF Blocks
    <3>3. c[i].entry <= r[i].entry
      <4>1. c[i].entry = Forwards(c[PrevIndex(i)].entry, r[PrevIndex(i)].dist, r[i].entry)
        BY <2>1 DEF Forwarded
      <4>2. c[PrevIndex(i)].entry \in Nat /\ r[PrevIndex(i)].dist \in Nat /\ r[i].entry \in Nat
        BY <3>2 DEF Block
      <4>3. Forwards(c[PrevIndex(i)].entry, r[PrevIndex(i)].dist, r[i].entry) <= r[i].entry
        BY <4>2, ForwardsIs
      <4>4. QED
        BY <4>1, <4>3
    <3>4. r[i].entry <= b[i].maxEntry
      <4>1. CASE i = PrevIndex(h)
        <5>1. b[i].maxEntry \in Nat /\ b[i].dist \in Nat
          BY <3>2 DEF Block
        <5>2. Least(b[i].maxEntry, b[i].dist) <= b[i].maxEntry
          BY <5>1, LeastIs
        <5>3. r[i].entry = Least(b[i].maxEntry, b[i].dist)
          BY <2>1, <4>1 DEF Reversed
        <5>4. QED
          BY <5>2, <5>3
      <4>2. CASE i # PrevIndex(h)
        <5>1. NextIndex(i) \in Index
          BY <3>1, Around
        <5>2. r[NextIndex(i)].entry \in Nat
          BY <2>1, <5>1 DEF Blocks, Block
        <5>3. r[i].entry = Backwards(b[i], r[NextIndex(i)].entry)
          BY <2>1, <4>2 DEF Reversed
        <5>4. QED
          BY <3>2, <5>2, <5>3, BackwardsIs
      <4>3. QED
        BY <4>1, <4>2
    <3>5. c[i].entry \in Nat /\ r[i].entry \in Nat /\ b[i].maxEntry \in Nat /\ c[i].maxEntry = b[i].maxEntry
      BY <2>5, <3>1, <3>2 DEF Block, SameBut
    <3>6. QED
      BY <3>3, <3>4, <3>5
  <2>9. QED
    BY <2>3, <2>5, <2>6, <2>7, <2>8
<1>3. QED
  BY <1>1, <1>2 DEF Replans

\* A newest block that starts from rest takes the planned pointer.
LEMMA ReplansAtRest ==
  ASSUME NEW b \in Blocks, NEW h \in Index, NEW p \in Index, NEW c, NEW q, Replans(b, h, p, c, q),
         b[PrevIndex(h)].maxEntry = 0
  PROVE  q = PrevIndex(h)
<1>1. CASE p = PrevIndex(h) /\ q = p
  BY <1>1
<1>2. CASE p # PrevIndex(h)
  <2>1. PICK last \in Index : last = PrevIndex(h)
    BY Around
  <2>2. last \in Reach(h, p)
    <3>1. Ahead(last, last) = 0
      BY AheadRange
    <3>2. Plannable(h, p) > 0
      BY <1>2, PlannableIs, Size
    <3>3. QED
      BY <2>1, <3>1, <3>2, ReachIs
  <2>3. /\ c \in Blocks /\ c[last].entry <= c[last].maxEntry /\ SameBut(b[last], c[last])
        /\ \A i \in Index : SameBut(b[i], c[i])
    BY <2>2, ReplansWithin
  <2>4. c[last].entry = 0 /\ c[last].maxEntry = 0
    <3>1. c[last] \in Block
      BY <2>3 DEF Blocks
    <3>2. QED
      BY <2>1, <2>3, <3>1 DEF SameBut, Block
  <2>5. PICK r \in Blocks : /\ Reversed(b, r, h, p)
                            /\ Forwarded(r, c, h, p) /\ LastSettled(r, c, h, p, q)
    BY <1>2 DEF Replans
  <2>6. r[last].maxEntry = 0
    BY <2>1, <2>5 DEF Reversed, OnlyEntries, SameBut
  <2>7. q \in Reach(h, p) /\ Ahead(p, last) <= Ahead(p, q)
    BY <2>2, <2>4, <2>5, <2>6 DEF LastSettled, SettledAt
  <2>8. Ahead(p, q) <= Ahead(p, last) /\ q \in Index
    BY <2>1, <2>7, PlannableIs DEF Reach
  <2>9. Ahead(p, q) = Ahead(p, last)
    <3>1. Ahead(p, q) \in Nat /\ Ahead(p, last) \in Nat
      BY <2>8, AheadRange DEF Index
    <3>2. QED
      BY <2>7, <2>8, <3>1
  <2>10. QED
    BY <2>1, <2>8, <2>9, AheadInjective
<1>3. QED
  BY <1>1, <1>2 DEF Replans

-----------------------------------------------------------------------------
(* The blocks between two indices. *)

\* The blocks from t on that come before h.
Between(t, h) == {i \in Index : Ahead(t, i) < Ahead(t, h)}

\* Nothing is between an index and itself.
LEMMA BetweenNone ==
  ASSUME NEW t \in Index
  PROVE  Between(t, t) = {}
<1>1. Ahead(t, t) = 0 /\ \A i \in Index : Ahead(t, i) \in Nat
  BY AheadRange DEF Index
<1>2. QED
  BY <1>1 DEF Between

\* The blocks between two indices and their neighbours.
LEMMA BetweenIs ==
  ASSUME NEW t \in Index, NEW h \in Index, t # h
  PROVE  /\ Between(t, h) \subseteq Index
         /\ t \in Between(t, h) /\ PrevIndex(h) \in Between(t, h) /\ h \notin Between(t, h)
         /\ \A i \in Between(t, h) :
              /\ i # PrevIndex(h) => NextIndex(i) \in Between(t, h) \ {t} /\ NextIndex(i) # h
              /\ i # t => PrevIndex(i) \in Between(t, h) /\ PrevIndex(i) # PrevIndex(h)
<1>1. PICK d \in 1 .. BlockBufferSize - 1 : d = Ahead(t, h)
  BY AheadRange, Size DEF Index
<1>2. PrevIndex(h) \in Index /\ Ahead(t, PrevIndex(h)) = d - 1 /\ Ahead(t, t) = 0
  BY <1>1, Around, AheadSteps, AheadRange
<1>3. t \in Between(t, h) /\ PrevIndex(h) \in Between(t, h) /\ h \notin Between(t, h)
  BY <1>1, <1>2 DEF Between
<1>4. ASSUME NEW i \in Between(t, h), i # PrevIndex(h)
      PROVE  NextIndex(i) \in Between(t, h) \ {t} /\ NextIndex(i) # h
  <2>1. i \in Index /\ NextIndex(i) \in Index
    BY Around DEF Between
  <2>2. PICK a \in 0 .. d - 1 : a = Ahead(t, i)
    BY <1>1, <2>1, AheadRange DEF Between, Index
  <2>3. a # d - 1
    BY <1>2, <1>4, <2>1, <2>2, AheadInjective
  <2>4. NextIndex(i) # t
    <3>1. SUFFICES ASSUME NextIndex(i) = t PROVE FALSE
      OBVIOUS
    <3>2. i = PrevIndex(t)
      BY <2>1, <3>1, Around
    <3>3. a = BlockBufferSize - 1
      BY <2>2, <3>2, AheadSteps
    <3>4. QED
      BY <1>1, <2>2, <2>3, <3>3, Size
  <2>5. Ahead(t, NextIndex(i)) = a + 1
    BY <2>1, <2>2, <2>4, AheadSteps
  <2>6. a + 1 < d
    BY <1>1, <2>2, <2>3
  <2>7. QED
    BY <1>1, <1>3, <2>1, <2>4, <2>5, <2>6 DEF Between
<1>5. ASSUME NEW i \in Between(t, h), i # t
      PROVE  PrevIndex(i) \in Between(t, h) /\ PrevIndex(i) # PrevIndex(h)
  <2>1. i \in Index /\ PrevIndex(i) \in Index
    BY Around DEF Between
  <2>2. PICK a \in 0 .. d - 1 : a = Ahead(t, i)
    BY <1>1, <2>1, AheadRange DEF Between, Index
  <2>3. Ahead(t, PrevIndex(i)) = a - 1
    BY <1>5, <2>1, <2>2, AheadSteps
  <2>4. a - 1 < d - 1 /\ a - 1 < d
    BY <1>1, <2>2
  <2>5. QED
    BY <1>1, <1>2, <2>1, <2>3, <2>4 DEF Between
<1>6. QED
  BY <1>3, <1>4, <1>5 DEF Between

\* The passes that start within the queue stay behind its first block.
LEMMA BetweenReach ==
  ASSUME NEW t \in Index, NEW h \in Index, t # h, NEW p \in Between(t, h)
  PROVE  /\ Reach(h, p) \subseteq Between(t, h) \ {t}
         /\ p = t => Reach(h, p) = Between(t, h) \ {t}
         /\ \A i \in Reach(h, p) : Ahead(t, i) > Ahead(t, p)
<1>1. PICK d \in 1 .. BlockBufferSize - 1 : d = Ahead(t, h)
  BY AheadRange, Size DEF Index
<1>2. p \in Index
  BY DEF Between
<1>3. PICK a \in 0 .. d - 1 : a = Ahead(t, p)
  BY <1>1, <1>2, AheadRange DEF Between, Index
<1>4. PrevIndex(h) \in Index /\ Ahead(t, PrevIndex(h)) = d - 1
  BY <1>1, Around, AheadSteps
<1>5. Ahead(p, PrevIndex(h)) = d - 1 - a
  <2>1. Ahead(p, PrevIndex(h)) \in Nat /\ Ahead(t, p) <= Ahead(t, PrevIndex(h))
    BY <1>1, <1>2, <1>3, <1>4, AheadRange DEF Index
  <2>2. Ahead(t, p) + Ahead(p, PrevIndex(h)) = Ahead(t, PrevIndex(h))
    BY <1>2, <1>4, <2>1, AheadSum
  <2>3. QED
    BY <1>1, <1>3, <1>4, <2>1, <2>2
<1>6. Plannable(h, p) = d - 1 - a
  BY <1>5 DEF Plannable
<1>7. ASSUME NEW i \in Reach(h, p) PROVE i \in Between(t, h) \ {t} /\ Ahead(t, i) > a
  <2>1. i \in Index
    BY DEF Reach
  <2>2. PICK c \in 1 .. d - 1 - a : c = Ahead(p, i)
    BY <1>6 DEF Reach
  <2>3. PICK k \in 0 .. BlockBufferSize - 1 : k = Ahead(t, i)
    BY <2>1, AheadRange DEF Index
  <2>4. (a <= k => a + c = k) /\ (a > k => a + c = k + BlockBufferSize)
    BY <1>2, <1>3, <2>1, <2>2, <2>3, AheadSum
  <2>5. k = a + c
    BY <1>1, <1>3, <2>2, <2>3, <2>4, Size
  <2>6. k > a /\ k < d /\ k # 0
    BY <1>1, <1>3, <2>2, <2>5
  <2>7. i # t
    BY <2>3, <2>6, AheadRange
  <2>8. QED
    BY <1>1, <2>1, <2>3, <2>6, <2>7 DEF Between
<1>8. ASSUME p = t, NEW i \in Between(t, h) \ {t} PROVE i \in Reach(h, p)
  <2>1. i \in Index /\ a = 0
    BY <1>3, <1>8, AheadRange DEF Between
  <2>2. PICK c \in 0 .. d - 1 : c = Ahead(t, i)
    BY <1>1, <2>1, AheadRange DEF Between, Index
  <2>3. c # 0
    BY <1>8, <2>1, <2>2, AheadRange
  <2>4. c \in 1 .. d - 1 - a
    BY <1>1, <2>1, <2>2, <2>3
  <2>5. QED
    BY <1>6, <1>8, <2>1, <2>2, <2>4 DEF Reach
<1>9. QED
  BY <1>3, <1>7, <1>8

\* A block is added at the head.
LEMMA BetweenGrows ==
  ASSUME NEW t \in Index, NEW h \in Index, NextIndex(h) # t
  PROVE  Between(t, NextIndex(h)) = Between(t, h) \cup {h} /\ h \notin Between(t, h)
<1>1. PICK d \in 0 .. BlockBufferSize - 1 : d = Ahead(t, h)
  BY AheadRange, Size DEF Index
<1>2. NextIndex(h) \in Index /\ Ahead(t, NextIndex(h)) = d + 1
  BY <1>1, Around, AheadSteps
<1>3. \A i \in Index : Ahead(t, i) \in Nat /\ (Ahead(t, i) = d <=> i = h)
  <2>1. \A i \in Index : Ahead(t, i) \in Nat
    BY AheadRange DEF Index
  <2>2. \A i \in Index : Ahead(t, i) = d => i = h
    BY <1>1, AheadInjective
  <2>3. QED
    BY <1>1, <2>1, <2>2
<1>4. \A i \in Index : Ahead(t, i) < d + 1 <=> (Ahead(t, i) < d \/ i = h)
  BY <1>1, <1>3
<1>5. \A i \in Index : i \in Between(t, NextIndex(h)) <=> i \in Between(t, h) \cup {h}
  BY <1>1, <1>2, <1>4 DEF Between
<1>6. QED
  BY <1>1, <1>5 DEF Between

\* The oldest block is dropped.
LEMMA BetweenDrops ==
  ASSUME NEW t \in Index, NEW h \in Index, t # h
  PROVE  Between(NextIndex(t), h) = Between(t, h) \ {t}
<1>1. PICK d \in 1 .. BlockBufferSize - 1 : d = Ahead(t, h)
  BY AheadRange, Size DEF Index
<1>2. NextIndex(t) \in Index /\ Ahead(NextIndex(t), h) = d - 1
  BY <1>1, Around, AheadSteps
<1>3. ASSUME NEW i \in Index
      PROVE  i \in Between(NextIndex(t), h) <=> i \in Between(t, h) \ {t}
  <2>1. PICK a \in 0 .. BlockBufferSize - 1 : a = Ahead(t, i)
    BY AheadRange DEF Index
  <2>2. CASE i = t
    <3>1. Ahead(NextIndex(t), i) = BlockBufferSize - 1
      BY <2>2, AheadSteps
    <3>2. ~(BlockBufferSize - 1 < d - 1)
      BY <1>1, Size
    <3>3. QED
      BY <1>2, <2>2, <3>1, <3>2 DEF Between
  <2>3. CASE i # t
    <3>1. Ahead(NextIndex(t), i) = a - 1
      BY <2>1, <2>3, AheadSteps
    <3>2. a - 1 < d - 1 <=> a < d
      BY <1>1, <2>1
    <3>3. QED
      BY <1>1, <1>2, <2>1, <2>3, <3>1, <3>2 DEF Between
  <2>4. QED
    BY <2>2, <2>3
<1>4. QED
  BY <1>2, <1>3 DEF Between

\* Two indices with the same next one are the same.
LEMMA NextInjective ==
  ASSUME NEW i \in Index, NEW j \in Index, NextIndex(i) = NextIndex(j)
  PROVE  i = j
  BY Around

-----------------------------------------------------------------------------
(* What the operations do to the ring. *)

\* The product of two numbers is a number.
LEMMA Product ==
  ASSUME NEW a \in Nat, NEW b \in Nat
  PROVE  a * b \in Nat
  OBVIOUS

\* Squaring keeps the order.
LEMMA SquareGrows ==
  ASSUME NEW a \in Nat, NEW b \in Nat, a <= b
  PROVE  Square(a) <= Square(b)
<1>1. PICK d \in Nat : b = a + d
  <2>1. b - a \in Nat /\ b = a + (b - a)
    OBVIOUS
  <2>2. QED
    BY <2>1
<1>2. b * b = a * a + a * d + d * a + d * d
  BY <1>1
<1>3. a * d \in Nat /\ d * a \in Nat /\ d * d \in Nat /\ a * a \in Nat
  BY Product
<1>4. QED
  BY <1>2, <1>3 DEF Square

\* The square of the speed that the overrides allow a block.
Limit(b) == Square(NominalSpeed(b, feedOvr, rapidOvr))

\* What TypeOK says of the parts that the lemmas read.
LEMMA TypesUsed ==
  ASSUME TypeOK
  PROVE  /\ block \in Blocks
         /\ tail \in Index /\ head \in Index /\ nextHead \in Index /\ planned \in Index
         /\ nextHead = NextIndex(head)
         /\ prevNominal \in Nat
         /\ feedOvr \in Nat /\ rapidOvr \in Nat
         /\ prep.loaded \in BOOLEAN /\ prep.recalculate \in BOOLEAN /\ prep.decelOverride \in BOOLEAN
         /\ prep.speed \in Nat /\ prep.exit \in Nat
         /\ \A i \in Index : block[i] \in Block
  BY PlannerAssumption DEF TypeOK, Blocks

\* The speeds of a block are numbers, and the corner limits its entry.
LEMMA SpeedsNat ==
  ASSUME NEW b \in Block, NEW f \in Nat, NEW r \in Nat, NEW previous \in Nat
  PROVE  /\ NominalSpeed(b, f, r) \in Nat
         /\ Square(NominalSpeed(b, f, r)) \in Nat
         /\ MaxEntry(b, NominalSpeed(b, f, r), previous) \in Nat
         /\ MaxEntry(b, NominalSpeed(b, f, r), previous) <= b.corner
         /\ MaxEntry(b, NominalSpeed(b, f, r), previous) <= Square(NominalSpeed(b, f, r))
         /\ MaxEntry(b, NominalSpeed(b, f, r), previous) <= Square(previous)
<1>1. b.rate \in Nat /\ b.corner \in Nat
  BY DEF Block
<1>2. RapidRate \in Nat /\ Full \in Nat
  BY PlannerAssumption
<1>3. b.rate * r \in Nat /\ b.rate * f \in Nat /\ RapidRate * Full \in Nat
  BY <1>1, <1>2, Product
<1>4. PICK x : x = NominalSpeed(b, f, r)
  OBVIOUS
<1>5. x \in Nat
  <2>1. Least(b.rate * f, RapidRate * Full) \in Nat
    BY <1>3, LeastIs
  <2>2. QED
    BY <1>3, <1>4, <2>1 DEF NominalSpeed
<1>6. Square(x) \in Nat
  BY <1>5, Product DEF Square
<1>7. PICK y : y = Least(x, previous)
  OBVIOUS
<1>8. y \in Nat
  BY <1>5, <1>7, LeastIs
<1>9. Square(y) \in Nat /\ Square(previous) \in Nat
  BY <1>8, Product DEF Square
<1>10. MaxEntry(b, x, previous) = Least(b.corner, Square(y))
  BY <1>7 DEF MaxEntry
<1>11. Square(y) <= Square(x) /\ Square(y) <= Square(previous)
  BY <1>5, <1>7, <1>8, LeastIs, SquareGrows
<1>12. /\ Least(b.corner, Square(y)) \in Nat
       /\ Least(b.corner, Square(y)) <= b.corner /\ Least(b.corner, Square(y)) <= Square(y)
  BY <1>1, <1>9, LeastIs
<1>13. MaxEntry(b, x, previous) \in Nat /\ MaxEntry(b, x, previous) <= b.corner
       /\ MaxEntry(b, x, previous) <= Square(x) /\ MaxEntry(b, x, previous) <= Square(previous)
  BY <1>1, <1>6, <1>9, <1>10, <1>11, <1>12
<1>14. QED
  BY <1>4, <1>5, <1>6, <1>13

\* st_update_plan_block_parameters changes no more than one entry speed.
LEMMA EntryNowIs ==
  ASSUME TypeOK, NEW b \in Blocks
  PROVE  /\ EntryNow(b) \in Blocks
         /\ \A i \in Index \ {tail} : EntryNow(b)[i] = b[i]
         /\ \A i \in Index : SameBut(b[i], EntryNow(b)[i])
         /\ EntryNow(b)[tail].entry = (IF prep.loaded THEN prep.speed ELSE b[tail].entry)
<1>1. tail \in Index /\ prep.speed \in Nat /\ b[tail] \in Block
  BY TypesUsed DEF Blocks
<1>2. CASE prep.loaded
  <2>1. EntryNow(b) = [b EXCEPT ![tail] = [b[tail] EXCEPT !.entry = prep.speed]]
    BY <1>2 DEF EntryNow
  <2>2. PICK x : x = [b[tail] EXCEPT !.entry = prep.speed]
    OBVIOUS
  <2>3. x \in Block /\ SameBut(b[tail], x) /\ x.entry = prep.speed
    BY <1>1, <2>2 DEF Block, SameBut
  <2>4. EntryNow(b) = [b EXCEPT ![tail] = x]
    BY <2>1, <2>2
  <2>5. EntryNow(b)[tail] = x /\ \A i \in Index \ {tail} : EntryNow(b)[i] = b[i]
    BY <1>1, <2>4 DEF Blocks
  <2>6. EntryNow(b) \in Blocks
    BY <1>1, <2>3, <2>4 DEF Blocks
  <2>7. \A i \in Index : SameBut(b[i], EntryNow(b)[i])
    BY <2>3, <2>5 DEF SameBut
  <2>8. QED
    BY <1>2, <2>3, <2>5, <2>6, <2>7
<1>3. CASE ~prep.loaded
  BY <1>3 DEF EntryNow, SameBut
<1>4. QED
  BY <1>2, <1>3

\* An override changes no more than the entry limits.
LEMMA ProfileIs ==
  ASSUME TypeOK, NEW f \in Nat, NEW r \in Nat
  PROVE  /\ UpdatedProfile(block, f, r) \in Blocks
         /\ \A i \in Index : /\ UpdatedProfile(block, f, r)[i].entry = block[i].entry
                             /\ UpdatedProfile(block, f, r)[i].dist = block[i].dist
                             /\ UpdatedProfile(block, f, r)[i].rate = block[i].rate
                             /\ UpdatedProfile(block, f, r)[i].rapid = block[i].rapid
<1>1. tail \in Index /\ head \in Index /\ \A i \in Index : block[i] \in Block
  BY TypesUsed
<1>2. PICK c : c = UpdatedProfile(block, f, r)
  OBVIOUS
<1>3. PICK x : x = [i \in Index |-> MaxEntry(block[i], NominalSpeed(block[i], f, r),
                                      IF i = tail THEN Fastest
                                      ELSE NominalSpeed(block[PrevIndex(i)], f, r))]
  OBVIOUS
<1>4. Fastest \in Nat
  <2>1. RapidRate * Full \in Nat
    BY PlannerAssumption, Product
  <2>2. Square(RapidRate * Full) \in Nat
    BY <2>1, Product DEF Square
  <2>3. QED
    BY <2>2 DEF Fastest
<1>5. ASSUME NEW i \in Index PROVE x[i] \in Nat
  <2>1. block[PrevIndex(i)] \in Block
    BY <1>1, Around
  <2>2. PICK v : v = IF i = tail THEN Fastest ELSE NominalSpeed(block[PrevIndex(i)], f, r)
    OBVIOUS
  <2>3. NominalSpeed(block[PrevIndex(i)], f, r) \in Nat
    BY <1>4, <2>1, SpeedsNat
  <2>4. v \in Nat
    BY <1>4, <2>2, <2>3
  <2>5. x[i] = MaxEntry(block[i], NominalSpeed(block[i], f, r), v)
    BY <1>3, <2>2
  <2>6. QED
    BY <1>1, <2>4, <2>5, SpeedsNat
<1>6. ASSUME NEW i \in Index
      PROVE  /\ c[i] \in Block /\ c[i].entry = block[i].entry /\ c[i].dist = block[i].dist
             /\ c[i].rate = block[i].rate /\ c[i].rapid = block[i].rapid
  <2>1. CASE Ahead(tail, i) >= Ahead(tail, head)
    BY <1>1, <1>2, <2>1 DEF UpdatedProfile
  <2>2. CASE ~(Ahead(tail, i) >= Ahead(tail, head))
    <3>1. c[i] = [block[i] EXCEPT !.maxEntry = x[i]]
      BY <1>2, <1>3, <2>2 DEF UpdatedProfile
    <3>2. QED
      BY <1>1, <1>5, <3>1 DEF Block
  <2>3. QED
    BY <2>1, <2>2
<1>7. c \in Blocks
  BY <1>2, <1>6 DEF Blocks, UpdatedProfile
<1>8. QED
  BY <1>2, <1>6, <1>7

\* plan_buffer_line: a new block, which starts from rest on an empty ring, and
\* the recalculation.
LEMMA BufferLineIs ==
  ASSUME TypeOK, NEW line \in Lines, BufferLine(line)
  PROVE  \E new \in Block, added \in Blocks, b \in Blocks :
           /\ new.entry = 0 /\ (IsEmpty => new.maxEntry = 0)
           /\ added[head] = new /\ \A i \in Index \ {head} : added[i] = block[i]
           /\ b = (IF TellsStepper(nextHead, planned) THEN EntryNow(added) ELSE added)
           /\ Replans(b, nextHead, planned, block', planned')
           /\ prevNominal' \in Nat /\ prevNominal' = NominalSpeed(new, feedOvr, rapidOvr)
           /\ new.maxEntry <= Limit(new) /\ new.maxEntry <= Square(prevNominal) /\ new.dist > 0
<1>1. line \in Line
  BY PlannerAssumption
<1>2. PICK raw : raw = [rate |-> line.rate, rapid |-> line.rapid, dist |-> line.dist,
                        corner |-> IF IsEmpty THEN 0 ELSE line.corner,
                        entry |-> 0, maxEntry |-> 0]
  OBVIOUS
<1>3. raw \in Block /\ raw.entry = 0 /\ (IsEmpty => raw.corner = 0)
  BY <1>1, <1>2 DEF Line, Block
<1>4. PICK m : m = MaxEntry(raw, NominalSpeed(raw, feedOvr, rapidOvr), prevNominal)
  OBVIOUS
<1>5. m \in Nat /\ m <= raw.corner
  BY <1>3, <1>4, TypesUsed, SpeedsNat
<1>6. PICK new : new = [raw EXCEPT !.maxEntry = m]
  OBVIOUS
<1>7. new \in Block /\ new.entry = 0 /\ (IsEmpty => new.maxEntry = 0)
  BY <1>3, <1>5, <1>6 DEF Block
<1>8. PICK added : added = [block EXCEPT ![head] = new]
  OBVIOUS
<1>9. added \in Blocks /\ added[head] = new /\ \A i \in Index \ {head} : added[i] = block[i]
  BY <1>7, <1>8, TypesUsed DEF Blocks
<1>10. PICK b : b = IF TellsStepper(nextHead, planned) THEN EntryNow(added) ELSE added
  OBVIOUS
<1>11. b \in Blocks
  BY <1>9, <1>10, EntryNowIs
<1>12. /\ block' = Recalculate(b, nextHead, planned).block
       /\ planned' = Recalculate(b, nextHead, planned).planned
  BY <1>2, <1>4, <1>6, <1>8, <1>10 DEF BufferLine
<1>13. Replans(b, nextHead, planned, block', planned')
  BY <1>11, <1>12, TypesUsed, RecalculateIs
<1>14. prevNominal' \in Nat /\ prevNominal' = NominalSpeed(new, feedOvr, rapidOvr)
  <2>1. prevNominal' = NominalSpeed(raw, feedOvr, rapidOvr)
    BY <1>2 DEF BufferLine
  <2>2. new.rate = raw.rate /\ new.rapid = raw.rapid
    BY <1>3, <1>5, <1>6 DEF Block
  <2>3. NominalSpeed(new, feedOvr, rapidOvr) = NominalSpeed(raw, feedOvr, rapidOvr)
    BY <2>2 DEF NominalSpeed
  <2>4. QED
    BY <1>3, <2>1, <2>3, TypesUsed, SpeedsNat
<1>15. new.maxEntry <= Limit(new) /\ new.maxEntry <= Square(prevNominal)
  <2>1. new.rate = raw.rate /\ new.rapid = raw.rapid /\ new.maxEntry = m
    BY <1>3, <1>5, <1>6 DEF Block
  <2>2. Limit(new) = Limit(raw)
    BY <2>1 DEF Limit, NominalSpeed
  <2>3. m <= Limit(raw) /\ m <= Square(prevNominal)
    BY <1>3, <1>4, TypesUsed, SpeedsNat DEF Limit
  <2>4. QED
    BY <2>1, <2>2, <2>3
<1>16. new.dist > 0
  <2>1. new.dist = line.dist
    BY <1>1, <1>2, <1>6 DEF Line
  <2>2. line.dist \in Nat \ {0}
    BY <1>1 DEF Line
  <2>3. QED
    BY <2>1, <2>2
<1>17. QED
  BY <1>7, <1>9, <1>10, <1>11, <1>13, <1>14, <1>15, <1>16

\* plan_cycle_reinitialize: the recalculation from the block that is executed.
LEMMA ReinitializeIs ==
  ASSUME TypeOK, NEW b \in Blocks, Reinitialize(b)
  PROVE  /\ EntryNow(b) \in Blocks
         /\ Replans(EntryNow(b), head, tail, block', planned')
         /\ prep' = Told /\ tail' = tail /\ head' = head /\ nextHead' = nextHead
<1>1. EntryNow(b) \in Blocks
  BY EntryNowIs
<1>2. /\ block' = Recalculate(EntryNow(b), head, tail).block
      /\ planned' = Recalculate(EntryNow(b), head, tail).planned
      /\ prep' = Told /\ tail' = tail /\ head' = head /\ nextHead' = nextHead
  BY DEF Reinitialize
<1>3. QED
  BY <1>1, <1>2, TypesUsed, RecalculateIs

-----------------------------------------------------------------------------
(* The inductive invariant. *)

\* A feed hold is being executed.
Hold == "hold" \in stepControl

\* The stepper works on a block of the queue.
LoadedQueued == prep.loaded => ~IsEmpty

\* A block that was told to start over starts with the speed the machine has.
TakenUpAgain ==
  prep.recalculate => ~prep.loaded /\ ~IsEmpty /\ prep.speed = block[tail].entry

\* A block that is too fast for an override brakes all the way.
OverrideBrakes ==
  prep.loaded /\ prep.decelOverride => ~Hold /\ prep.speed = prep.exit + block[tail].dist

\* All of it.
PlannerInv == /\ TypeOK
              /\ PlanWithinQueue
              /\ LoadedQueued
              /\ TakenUpAgain
              /\ OverrideBrakes
              /\ ExitSpeedKnown

\* The states of the stepper.
PrepSet == [loaded : BOOLEAN, recalculate : BOOLEAN, decelOverride : BOOLEAN,
            speed : Nat, exit : Nat]

\* What the stepper is told.
LEMMA ToldIs ==
  ASSUME TypeOK
  PROVE  /\ Told \in PrepSet /\ ~Told.loaded
         /\ Told.recalculate <=> prep.recalculate \/ prep.loaded
         /\ Told.decelOverride = prep.decelOverride
         /\ Told.speed = prep.speed /\ Told.exit = prep.exit
<1>1. prep \in PrepSet
  BY DEF TypeOK, PrepSet
<1>2. PICK c : c = (prep.recalculate \/ prep.loaded)
  OBVIOUS
<1>3. c \in BOOLEAN
  BY <1>2, Zenon
<1>4. Told = [prep EXCEPT !.loaded = FALSE, !.recalculate = c]
  BY <1>2 DEF Told
<1>5. Told \in PrepSet /\ Told.loaded = FALSE /\ Told.recalculate = c
      /\ Told.decelOverride = prep.decelOverride /\ Told.speed = prep.speed /\ Told.exit = prep.exit
  BY <1>1, <1>3, <1>4 DEF PrepSet
<1>6. QED
  BY <1>2, <1>5

\* The queue as a set between two indices.
LEMMA QueuedIs == Queued = Between(tail, head)
  BY DEF Queued, Between

\* A queue with a second block.
LEMMA SecondBlock ==
  ASSUME NEW t \in Index, NEW h \in Index, t # h, NEW p \in Between(t, h), p # t, NextIndex(h) # t
  PROVE  /\ NextIndex(t) \in Between(t, h) \ {t} /\ NextIndex(t) # h
         /\ \A k \in Index : k \in Reach(NextIndex(h), p) => k # NextIndex(t)
<1>1. p \in Index
  BY DEF Between
<1>2. PICK a \in 1 .. BlockBufferSize - 1 : a = Ahead(t, p)
  BY <1>1, AheadRange, Size DEF Index
<1>3. NextIndex(t) \in Index /\ NextIndex(t) # t
  BY Around
<1>4. Ahead(t, NextIndex(t)) = 1
  <2>1. Ahead(t, t) = 0
    BY AheadRange
  <2>2. QED
    BY <1>3, <2>1, AheadSteps
<1>5. NextIndex(t) # h
  <2>1. SUFFICES ASSUME NextIndex(t) = h PROVE FALSE
    OBVIOUS
  <2>2. a < 1
    BY <1>2, <1>4, <2>1 DEF Between
  <2>3. QED
    BY <1>2, <2>2
<1>6. t # PrevIndex(h)
  BY <1>5, Around
<1>7. NextIndex(t) \in Between(t, h) \ {t}
  BY <1>6, BetweenIs
<1>8. ASSUME NEW k \in Index, k \in Reach(NextIndex(h), p) PROVE k # NextIndex(t)
  <2>1. NextIndex(h) \in Index
    BY Around
  <2>2. p \in Between(t, NextIndex(h))
    BY BetweenGrows
  <2>3. Ahead(t, k) > a
    BY <1>2, <1>8, <2>1, <2>2, BetweenReach
  <2>4. QED
    BY <1>2, <1>4, <2>3
<1>9. QED
  BY <1>5, <1>7, <1>8

\* An empty ring with a stepper that has nothing loaded.
THEOREM PlannerInvInit ==
  ASSUME Init
  PROVE  PlannerInv
<1>1. 0 \in Index /\ 1 \in Index /\ NextIndex(0) = 1
  BY Size DEF Index, NextIndex
<1>2. NoBlock \in Block
  BY DEF NoBlock, Block
<1>3. block \in Blocks
  BY <1>2 DEF Init, Blocks
<1>4. prep = PrepReset /\ ~prep.loaded /\ ~prep.recalculate /\ prep \in PrepSet
  BY DEF Init, PrepReset, PrepSet
<1>5. TypeOK
  <2>1. <<feedOvr, rapidOvr>> \in Overrides
    BY PlannerAssumption DEF Init
  <2>2. /\ {tail, head, nextHead, planned} \subseteq Index
        /\ nextHead = NextIndex(head) /\ prevNominal \in Nat
        /\ stepControl \subseteq {"hold", "end"} /\ overridden \in BOOLEAN
    BY <1>1 DEF Init
  <2>3. QED
    BY <1>3, <1>4, <2>1, <2>2 DEF TypeOK, Blocks, PrepSet
<1>6. IsEmpty /\ Queued = {}
  <2>1. IsEmpty
    BY DEF Init, IsEmpty
  <2>2. QED
    BY <1>5, <2>1, QueuedIs, BetweenNone, TypesUsed DEF IsEmpty
<1>7. QED
  BY <1>4, <1>5, <1>6 DEF PlannerInv, PlanWithinQueue, LoadedQueued, TakenUpAgain, OverrideBrakes, ExitSpeedKnown

\* The new block on an empty ring.
LEMMA FirstLine ==
  ASSUME PlannerInv, NEW line \in Lines, BufferLine(line), IsEmpty
  PROVE  /\ PlanWithinQueue' /\ prep' = prep /\ ~prep.loaded /\ ~prep.recalculate
         /\ Queued' = {tail} /\ tail' = tail /\ head' = NextIndex(tail)
         /\ block' \in Blocks /\ block'[tail].entry = 0 /\ block'[tail].maxEntry = 0
         /\ block'[tail].dist > 0
<1>1. TypeOK /\ LoadedQueued /\ TakenUpAgain
  BY DEF PlannerInv
<1>2. PICK new \in Block, added \in Blocks, b \in Blocks :
           /\ new.entry = 0 /\ (IsEmpty => new.maxEntry = 0)
           /\ added[head] = new /\ \A i \in Index \ {head} : added[i] = block[i]
           /\ b = (IF TellsStepper(nextHead, planned) THEN EntryNow(added) ELSE added)
           /\ Replans(b, nextHead, planned, block', planned') /\ new.dist > 0
  BY <1>1, BufferLineIs
<1>3. /\ tail \in Index /\ head = tail /\ nextHead = NextIndex(head) /\ nextHead \in Index /\ planned \in Index
      /\ PrevIndex(nextHead) = head
  BY <1>1, TypesUsed, Around DEF IsEmpty
<1>4. ~TellsStepper(nextHead, planned)
  <2>1. planned = tail => Plannable(nextHead, planned) = 0
    BY <1>3, PlannableIs
  <2>2. QED
    BY <2>1 DEF TellsStepper
<1>5. b[head].maxEntry = 0 /\ b[head].entry = 0 /\ b[head].dist > 0
  BY <1>2, <1>4
<1>6. planned' = head
  BY <1>2, <1>3, <1>5, ReplansAtRest
<1>7. tail' = tail /\ head' = nextHead /\ nextHead # tail /\ prep' = prep
  BY <1>4 DEF BufferLine, IsFull
<1>8. Queued' = {tail}
  <2>1. Queued' = Between(tail', head')
    BY DEF Queued, Between
  <2>2. Between(tail, NextIndex(head)) = Between(tail, head) \cup {head}
    BY <1>3, <1>7, BetweenGrows
  <2>3. QED
    BY <1>3, <1>7, <2>1, <2>2, BetweenNone
<1>9. PlanWithinQueue'
  <2>1. planned' \in Queued' /\ Queued' \ {tail'} = {}
    BY <1>3, <1>6, <1>7, <1>8
  <2>2. QED
    BY <2>1 DEF PlanWithinQueue
<1>10. ~prep.loaded /\ ~prep.recalculate
  BY <1>1 DEF LoadedQueued, TakenUpAgain
<1>11. /\ block' \in Blocks /\ SameBut(b[head], block'[head])
       /\ head \in Reach(nextHead, planned) => block'[head].entry <= block'[head].maxEntry
       /\ head \notin Reach(nextHead, planned) => block'[head] = b[head]
  BY <1>2, <1>3, ReplansWithin
<1>12. block'[tail].maxEntry = 0 /\ block'[tail].entry = 0 /\ block'[tail].dist > 0
  <2>1. block'[head].maxEntry = 0 /\ block'[head].dist > 0
    BY <1>5, <1>11 DEF SameBut
  <2>2. block'[head].entry \in Nat
    BY <1>3, <1>11 DEF Blocks, Block
  <2>3. QED
    BY <1>3, <1>5, <1>11, <2>1, <2>2
<1>13. QED
  BY <1>3, <1>7, <1>8, <1>9, <1>10, <1>11, <1>12

\* The ring with a new block behind others, before it is planned.
LineRing(b) ==
  /\ b \in Blocks /\ Replans(b, nextHead, planned, block', planned')
  /\ tail' = tail /\ head' = nextHead /\ nextHead # tail
  /\ Queued' = Queued \cup {head} /\ Queued' = Between(tail, nextHead) /\ head \notin Queued
  /\ planned \in Queued /\ tail \in Queued /\ head \in Reach(nextHead, planned)
  /\ \A i \in Queued \ {tail} : b[i] = block[i]
  /\ b[head].entry = 0 /\ b[head].maxEntry <= Limit(b[head]) /\ b[head].maxEntry <= Square(prevNominal)
  /\ b[head].dist > 0
  /\ SameBut(block[tail], b[tail]) /\ block'[tail] = b[tail]
  /\ \/ planned = tail /\ prep' = Told /\ b[tail].entry = TailSpeed
     \/ planned # tail /\ prep' = prep /\ b[tail] = block[tail]

\* Planning a line behind others gives such a ring.
LEMMA NextLineRing ==
  ASSUME PlannerInv, NEW line \in Lines, BufferLine(line), ~IsEmpty
  PROVE  \E b : LineRing(b)
<1>1. TypeOK /\ PlanWithinQueue
  BY DEF PlannerInv
<1>2. PICK new \in Block, added \in Blocks, b \in Blocks :
           /\ new.entry = 0 /\ (IsEmpty => new.maxEntry = 0)
           /\ added[head] = new /\ \A i \in Index \ {head} : added[i] = block[i]
           /\ b = (IF TellsStepper(nextHead, planned) THEN EntryNow(added) ELSE added)
           /\ Replans(b, nextHead, planned, block', planned')
           /\ new.maxEntry <= Limit(new) /\ new.maxEntry <= Square(prevNominal) /\ new.dist > 0
  BY <1>1, BufferLineIs
<1>3. /\ tail \in Index /\ head \in Index /\ head # tail /\ nextHead = NextIndex(head)
      /\ nextHead \in Index /\ planned \in Index /\ PrevIndex(nextHead) = head
  BY <1>1, TypesUsed, Around DEF IsEmpty
<1>4. tail' = tail /\ head' = nextHead /\ nextHead # tail
  BY DEF BufferLine, IsFull
<1>5. planned \in Queued /\ planned # head /\ tail \in Queued /\ head \notin Queued /\ Queued = Between(tail, head)
  BY <1>1, <1>3, QueuedIs, BetweenIs DEF PlanWithinQueue, IsEmpty
<1>6. Queued' = Between(tail, nextHead) /\ Between(tail, nextHead) = Queued \cup {head}
  <2>1. Queued' = Between(tail, nextHead)
    BY <1>4 DEF Queued, Between
  <2>2. QED
    BY <1>3, <1>4, <1>5, <2>1, BetweenGrows
<1>7. tail \notin Reach(nextHead, planned) /\ head \in Reach(nextHead, planned)
  <2>1. planned \in Between(tail, nextHead)
    BY <1>5, <1>6
  <2>2. tail \notin Reach(nextHead, planned)
    BY <1>3, <1>4, <2>1, BetweenReach
  <2>3. head \in Reach(nextHead, planned)
    BY <1>3, <1>5, NewestReached
  <2>4. QED
    BY <2>2, <2>3
<1>8. block'[tail] = b[tail] /\ added[tail] = block[tail]
  BY <1>2, <1>3, <1>7, ReplansWithin
<1>9. \A i \in Index \ {tail} : b[i] = added[i]
  BY <1>1, <1>2, EntryNowIs
<1>10. /\ \A i \in Queued \ {tail} : b[i] = block[i]
       /\ b[head].entry = 0 /\ b[head].maxEntry <= Limit(b[head]) /\ b[head].maxEntry <= Square(prevNominal)
       /\ b[head].dist > 0
  <2>1. Queued \subseteq Index
    BY DEF Queued
  <2>2. QED
    BY <1>2, <1>3, <1>5, <1>9, <2>1
<1>11. CASE TellsStepper(nextHead, planned)
  <2>1. prep' = Told /\ planned = tail
    BY <1>11 DEF BufferLine, TellsStepper
  <2>2. b[tail].entry = (IF prep.loaded THEN prep.speed ELSE added[tail].entry) /\ SameBut(added[tail], b[tail])
    BY <1>1, <1>2, <1>3, <1>11, EntryNowIs
  <2>3. b[tail].entry = TailSpeed /\ SameBut(block[tail], b[tail])
    BY <1>8, <2>2 DEF TailSpeed
  <2>4. QED
    BY <1>2, <1>4, <1>5, <1>6, <1>7, <1>8, <1>10, <2>1, <2>3 DEF LineRing
<1>12. CASE ~TellsStepper(nextHead, planned)
  <2>1. prep' = prep
    BY <1>12 DEF BufferLine
  <2>2. b[tail] = block[tail]
    BY <1>2, <1>8, <1>12
  <2>3. planned # tail
    <3>1. Plannable(nextHead, planned) > 0
      BY <1>3, <1>5, PlannableIs, Size
    <3>2. QED
      BY <1>12, <3>1 DEF TellsStepper
  <2>4. SameBut(block[tail], b[tail])
    BY <2>2 DEF SameBut
  <2>5. QED
    BY <1>2, <1>4, <1>5, <1>6, <1>7, <1>8, <1>10, <2>1, <2>2, <2>3, <2>4 DEF LineRing
<1>13. QED
  BY <1>11, <1>12

\* A new block behind others.
LEMMA NextLine ==
  ASSUME PlannerInv, NEW line \in Lines, BufferLine(line), ~IsEmpty
  PROVE  /\ PlanWithinQueue'
         /\ SameBut(block[tail], block'[tail])
         /\ \/ prep' = Told /\ block'[tail].entry = TailSpeed
            \/ prep' = prep /\ block'[tail] = block[tail] /\ ExitSpeed(block)' = ExitSpeed(block)
<1>1. TypeOK /\ PlanWithinQueue
  BY DEF PlannerInv
<1>2. PICK b : LineRing(b)
  BY NextLineRing
<1>3. /\ tail \in Index /\ head \in Index /\ nextHead = NextIndex(head) /\ nextHead \in Index /\ planned \in Index
      /\ head # tail
  BY <1>1, TypesUsed DEF IsEmpty
<1>4. /\ planned' = planned \/ planned' \in Reach(nextHead, planned)
      /\ \A i \in Index \ Reach(nextHead, planned) : block'[i] = b[i]
      /\ \A i \in Reach(nextHead, planned) : block'[i].entry <= block'[i].maxEntry
  BY <1>2, <1>3, ReplansWithin DEF LineRing
<1>5. Reach(nextHead, planned) \subseteq Queued' /\ Queued \subseteq Index
  BY <1>2, <1>3, BetweenReach DEF LineRing, Queued
<1>6. PlanWithinQueue'
  <2>1. planned' \in Queued'
    BY <1>2, <1>4, <1>5 DEF LineRing
  <2>2. ASSUME NEW i \in Queued' \ {tail'} PROVE block'[i].entry <= block'[i].maxEntry
    <3>1. CASE i \in Reach(nextHead, planned)
      BY <1>4, <3>1
    <3>2. CASE i \notin Reach(nextHead, planned)
      <4>1. i \in Queued \ {tail} /\ i \in Index
        BY <1>2, <1>5, <3>2 DEF LineRing
      <4>2. block'[i] = block[i]
        BY <1>2, <1>4, <3>2, <4>1 DEF LineRing
      <4>3. QED
        BY <1>1, <4>1, <4>2 DEF PlanWithinQueue
    <3>3. QED
      BY <3>1, <3>2
  <2>3. QED
    BY <2>1, <2>2 DEF PlanWithinQueue
<1>7. CASE planned = tail /\ prep' = Told /\ b[tail].entry = TailSpeed
  BY <1>2, <1>6, <1>7 DEF LineRing
<1>8. CASE planned # tail /\ prep' = prep /\ b[tail] = block[tail]
  <2>1. PICK s \in Index : s = NextIndex(tail)
    BY <1>3, Around
  <2>2. planned \in Between(tail, head) /\ Queued = Between(tail, head)
    BY <1>2, QueuedIs DEF LineRing
  <2>3. s \in Queued \ {tail} /\ s # head /\ s \notin Reach(nextHead, planned)
    BY <1>2, <1>3, <1>8, <2>1, <2>2, SecondBlock DEF LineRing
  <2>4. block'[s] = block[s]
    BY <1>2, <1>4, <2>1, <2>3 DEF LineRing
  <2>5. s # nextHead
    BY <1>3, <2>1, NextInjective
  <2>6. ExitSpeed(block)' = ExitSpeed(block)
    BY <1>2, <2>1, <2>3, <2>4, <2>5 DEF ExitSpeed, LineRing
  <2>7. QED
    BY <1>2, <1>6, <1>8, <2>6 DEF LineRing
<1>9. QED
  BY <1>2, <1>7, <1>8 DEF LineRing

\* plan_buffer_line keeps the invariant.
LEMMA BufferLineKeeps ==
  ASSUME PlannerInv, NEW line \in Lines, BufferLine(line)
  PROVE  PlannerInv'
<1>1. TypeOK /\ LoadedQueued /\ TakenUpAgain /\ OverrideBrakes /\ ExitSpeedKnown
  BY DEF PlannerInv
<1>2. PICK new \in Block, added \in Blocks, b \in Blocks :
           /\ Replans(b, nextHead, planned, block', planned')
           /\ prevNominal' \in Nat
  BY <1>1, BufferLineIs
<1>3. /\ tail \in Index /\ head \in Index /\ nextHead \in Index /\ planned \in Index
      /\ nextHead = NextIndex(head) /\ NextIndex(nextHead) \in Index
  BY <1>1, TypesUsed, Around
<1>4. /\ tail' = tail /\ head' = nextHead /\ nextHead' = NextIndex(nextHead) /\ nextHead # tail
      /\ feedOvr' = feedOvr /\ rapidOvr' = rapidOvr /\ stepControl' = stepControl
      /\ overridden' = overridden
      /\ prep' = Told \/ prep' = prep
  BY DEF BufferLine, IsFull
<1>5. block' \in Blocks /\ planned' \in Index
  BY <1>2, <1>3, ReplansWithin
<1>6. prep' \in PrepSet
  BY <1>1, <1>4, ToldIs DEF TypeOK, PrepSet
<1>7. TypeOK'
  BY <1>1, <1>2, <1>3, <1>4, <1>5, <1>6 DEF TypeOK, Blocks, PrepSet
<1>8. ~IsEmpty'
  BY <1>4 DEF IsEmpty
<1>9. CASE IsEmpty
  <2>1. PlanWithinQueue' /\ ~prep'.loaded /\ ~prep'.recalculate
    BY <1>9, FirstLine
  <2>2. QED
    BY <1>7, <2>1 DEF PlannerInv, LoadedQueued, TakenUpAgain, OverrideBrakes, ExitSpeedKnown
<1>10. CASE ~IsEmpty
  <2>1. PlanWithinQueue' /\ SameBut(block[tail], block'[tail])
    BY <1>10, NextLine
  <2>2. CASE prep' = Told /\ block'[tail].entry = TailSpeed
    <3>1. ~prep'.loaded /\ prep'.speed = prep.speed /\ (prep'.recalculate <=> prep.recalculate \/ prep.loaded)
      BY <1>1, <2>2, ToldIs
    <3>2. TakenUpAgain'
      BY <1>1, <1>4, <1>8, <2>2, <3>1 DEF TakenUpAgain, TailSpeed
    <3>3. QED
      BY <1>7, <2>1, <3>1, <3>2 DEF PlannerInv, LoadedQueued, OverrideBrakes, ExitSpeedKnown
  <2>3. CASE prep' = prep /\ block'[tail] = block[tail] /\ ExitSpeed(block)' = ExitSpeed(block)
    <3>1. LoadedQueued' /\ TakenUpAgain'
      BY <1>1, <1>4, <1>8, <2>3 DEF LoadedQueued, TakenUpAgain
    <3>2. OverrideBrakes' /\ ExitSpeedKnown'
      BY <1>1, <1>4, <2>3 DEF OverrideBrakes, ExitSpeedKnown, Hold
    <3>3. QED
      BY <1>7, <2>1, <3>1, <3>2 DEF PlannerInv
  <2>4. QED
    BY <1>10, <2>2, <2>3, NextLine
<1>11. QED
  BY <1>9, <1>10

\* Everything is planned again from the block that is being executed.
LEMMA ReinitializeKeeps ==
  ASSUME PlannerInv, NEW b \in Blocks, b[tail].entry = block[tail].entry, Reinitialize(b)
  PROVE  /\ block' \in Blocks /\ planned' \in Index /\ prep' \in PrepSet
         /\ PlanWithinQueue' /\ LoadedQueued' /\ TakenUpAgain' /\ OverrideBrakes' /\ ExitSpeedKnown'
<1>1. TypeOK /\ LoadedQueued /\ TakenUpAgain
  BY DEF PlannerInv
<1>2. /\ EntryNow(b) \in Blocks
      /\ Replans(EntryNow(b), head, tail, block', planned')
      /\ prep' = Told /\ tail' = tail /\ head' = head /\ nextHead' = nextHead
  BY <1>1, ReinitializeIs
<1>3. tail \in Index /\ head \in Index
  BY <1>1, TypesUsed
<1>4. /\ block' \in Blocks /\ planned' \in Index
      /\ planned' = tail \/ planned' \in Reach(head, tail)
      /\ \A i \in Index \ Reach(head, tail) : block'[i] = EntryNow(b)[i]
      /\ \A i \in Reach(head, tail) : block'[i].entry <= block'[i].maxEntry
  BY <1>2, <1>3, ReplansWithin
<1>5. prep' \in PrepSet /\ ~prep'.loaded /\ prep'.speed = prep.speed
      /\ (prep'.recalculate <=> prep.recalculate \/ prep.loaded)
  BY <1>1, <1>2, ToldIs
<1>6. Queued' = Between(tail, head)
  BY <1>2 DEF Queued, Between
<1>7. PlanWithinQueue'
  <2>1. CASE IsEmpty
    BY <1>2, <1>3, <1>6, <2>1, BetweenNone DEF PlanWithinQueue, IsEmpty
  <2>2. CASE ~IsEmpty
    <3>1. Reach(head, tail) = Between(tail, head) \ {tail} /\ tail \in Between(tail, head)
      BY <1>3, <2>2, BetweenIs, BetweenReach DEF IsEmpty
    <3>2. QED
      BY <1>2, <1>4, <1>6, <3>1 DEF PlanWithinQueue
  <2>3. QED
    BY <2>1, <2>2
<1>8. TakenUpAgain'
  <2>1. SUFFICES ASSUME prep.recalculate \/ prep.loaded
                 PROVE  ~IsEmpty' /\ prep'.speed = block'[tail'].entry
    BY <1>5 DEF TakenUpAgain
  <2>2. ~IsEmpty' /\ ~IsEmpty
    BY <1>1, <1>2, <2>1 DEF LoadedQueued, TakenUpAgain, IsEmpty
  <2>3. tail \notin Reach(head, tail)
    BY <1>3, ReachIs
  <2>4. block'[tail].entry = (IF prep.loaded THEN prep.speed ELSE b[tail].entry)
    BY <1>1, <1>3, <1>4, <2>3, EntryNowIs
  <2>5. QED
    BY <1>1, <1>2, <1>5, <2>1, <2>2, <2>4 DEF TakenUpAgain
<1>9. QED
  BY <1>4, <1>5, <1>7, <1>8 DEF LoadedQueued, OverrideBrakes, ExitSpeedKnown

\* An override keeps the invariant.
LEMMA OverrideKeeps ==
  ASSUME PlannerInv, NEW o \in Overrides, Override(o[1], o[2])
  PROVE  PlannerInv'
<1>1. TypeOK
  BY DEF PlannerInv
<1>2. o[1] \in Nat /\ o[2] \in Nat /\ <<o[1], o[2]>> \in Overrides
  BY PlannerAssumption
<1>3. PICK b : b = UpdatedProfile(block, o[1], o[2])
  OBVIOUS
<1>4. b \in Blocks /\ b[tail].entry = block[tail].entry
  BY <1>1, <1>2, <1>3, ProfileIs, TypesUsed
<1>5. Reinitialize(b) /\ feedOvr' = o[1] /\ rapidOvr' = o[2] /\ stepControl' = stepControl
  BY <1>3 DEF Override
<1>6. /\ block' \in Blocks /\ planned' \in Index /\ prep' \in PrepSet
      /\ PlanWithinQueue' /\ LoadedQueued' /\ TakenUpAgain' /\ OverrideBrakes' /\ ExitSpeedKnown'
  BY <1>4, <1>5, ReinitializeKeeps
<1>7. prevNominal' \in Nat
  <2>1. Fastest \in Nat
    <3>1. RapidRate * Full \in Nat
      BY PlannerAssumption, Product
    <3>2. Square(RapidRate * Full) \in Nat
      BY <3>1, Product DEF Square
    <3>3. QED
      BY <3>2 DEF Fastest
  <2>2. block[PrevIndex(head)] \in Block
    BY <1>1, TypesUsed, Around
  <2>3. NominalSpeed(block[PrevIndex(head)], o[1], o[2]) \in Nat
    BY <1>2, <2>2, <2>1, SpeedsNat
  <2>4. prevNominal' = IF IsEmpty THEN Fastest ELSE NominalSpeed(block[PrevIndex(head)], o[1], o[2])
    BY DEF Override
  <2>5. QED
    BY <2>1, <2>3, <2>4
<1>8. overridden' \in BOOLEAN
  <2>1. overridden' = ~IsEmpty
    BY DEF Override
  <2>2. QED
    BY <2>1, Zenon
<1>9. TypeOK'
  <2>1. tail' = tail /\ head' = head /\ nextHead' = nextHead
    BY <1>5 DEF Reinitialize
  <2>2. QED
    BY <1>1, <1>2, <1>5, <1>6, <1>7, <1>8, <2>1 DEF TypeOK, Blocks, PrepSet
<1>10. QED
  BY <1>6, <1>9 DEF PlannerInv

\* The end of a hold keeps the invariant.
LEMMA CycleStopKeeps ==
  ASSUME PlannerInv, CycleStop
  PROVE  PlannerInv'
<1>1. TypeOK
  BY DEF PlannerInv
<1>2. block \in Blocks
  BY <1>1, TypesUsed
<1>3. /\ Reinitialize(block) /\ prevNominal' = prevNominal /\ feedOvr' = feedOvr /\ rapidOvr' = rapidOvr
      /\ overridden' = overridden /\ stepControl' = stepControl \ {"hold"}
  BY DEF CycleStop
<1>4. /\ block' \in Blocks /\ planned' \in Index /\ prep' \in PrepSet
      /\ PlanWithinQueue' /\ LoadedQueued' /\ TakenUpAgain' /\ OverrideBrakes' /\ ExitSpeedKnown'
  BY <1>2, <1>3, ReinitializeKeeps
<1>5. TypeOK'
  <2>1. tail' = tail /\ head' = head /\ nextHead' = nextHead
    BY <1>3 DEF Reinitialize
  <2>2. QED
    BY <1>1, <1>3, <1>4, <2>1 DEF TypeOK, Blocks, PrepSet
<1>6. QED
  BY <1>4, <1>5 DEF PlannerInv

\* A feed hold keeps the invariant.
LEMMA FeedHoldKeeps ==
  ASSUME PlannerInv, FeedHold
  PROVE  PlannerInv'
<1>1. TypeOK /\ PlanWithinQueue /\ LoadedQueued /\ TakenUpAgain
  BY DEF PlannerInv
<1>2. /\ block' = EntryNow(block) /\ prep' = Told /\ stepControl' = {"hold"} /\ ~IsEmpty
      /\ tail' = tail /\ head' = head /\ nextHead' = nextHead /\ planned' = planned
      /\ prevNominal' = prevNominal /\ feedOvr' = feedOvr /\ rapidOvr' = rapidOvr /\ overridden' = overridden
  BY DEF FeedHold
<1>3. /\ block \in Blocks /\ block' \in Blocks
      /\ \A i \in Index \ {tail} : block'[i] = block[i]
      /\ block'[tail].entry = (IF prep.loaded THEN prep.speed ELSE block[tail].entry)
  BY <1>1, <1>2, TypesUsed, EntryNowIs
<1>4. prep' \in PrepSet /\ ~prep'.loaded /\ prep'.speed = prep.speed
      /\ (prep'.recalculate <=> prep.recalculate \/ prep.loaded)
  BY <1>1, <1>2, ToldIs
<1>5. TypeOK'
  BY <1>1, <1>2, <1>3, <1>4 DEF TypeOK, Blocks, PrepSet
<1>6. PlanWithinQueue'
  <2>1. Queued' = Queued /\ Queued \subseteq Index /\ IsEmpty' = IsEmpty
    BY <1>2 DEF Queued, IsEmpty
  <2>2. QED
    BY <1>1, <1>2, <1>3, <2>1 DEF PlanWithinQueue
<1>7. TakenUpAgain'
  BY <1>1, <1>2, <1>3, <1>4 DEF TakenUpAgain, IsEmpty
<1>8. QED
  BY <1>4, <1>5, <1>6, <1>7 DEF PlannerInv, LoadedQueued, OverrideBrakes, ExitSpeedKnown

\* A block that the stepper takes up.
LEMMA LoadBlockIs ==
  ASSUME TypeOK, TakenUpAgain
  PROVE  /\ LoadBlock \in PrepSet /\ LoadBlock.loaded /\ ~LoadBlock.recalculate
         /\ LoadBlock.decelOverride => ~Hold /\ LoadBlock.speed = LoadBlock.exit + block[tail].dist
         /\ LoadBlock.decelOverride => LoadBlock.speed > Limit(block[tail])
         /\ ~LoadBlock.decelOverride /\ ~Hold => LoadBlock.exit = ExitSpeed(block)
         /\ Hold => LoadBlock.exit = (IF block[tail].dist >= LoadBlock.speed THEN 0
                                      ELSE LoadBlock.speed - block[tail].dist)
         /\ LoadBlock.speed = (IF prep.recalculate THEN prep.speed
                               ELSE IF Hold \/ prep.decelOverride THEN prep.exit
                               ELSE block[tail].entry)
<1>1. /\ tail \in Index /\ head \in Index /\ block[tail] \in Block /\ prep.speed \in Nat /\ prep.exit \in Nat
      /\ feedOvr \in Nat /\ rapidOvr \in Nat
  BY TypesUsed
<1>2. PICK dist \in Nat : dist = block[tail].dist
  BY <1>1 DEF Block
<1>3. PICK start : start = IF ~prep.recalculate /\ (Hold \/ prep.decelOverride) THEN prep.exit
                           ELSE block[tail].entry
  OBVIOUS
<1>4. start \in Nat
  BY <1>1, <1>3 DEF Block
<1>5. PICK limit : limit = Square(NominalSpeed(block[tail], feedOvr, rapidOvr))
  OBVIOUS
<1>6. limit \in Nat
  BY <1>1, <1>5, SpeedsNat
<1>7. PICK tooFast : tooFast = (~Hold /\ start > limit /\ dist <= start - limit)
  OBVIOUS
<1>8. tooFast \in BOOLEAN
  BY <1>7, Zenon
<1>9. PICK speed : speed = IF ~prep.recalculate THEN start ELSE prep.speed
  OBVIOUS
<1>10. speed = start /\ speed \in Nat
  BY <1>1, <1>3, <1>4, <1>9 DEF TakenUpAgain
<1>11. PICK exit : exit = IF Hold THEN (IF dist >= start THEN 0 ELSE start - dist)
                          ELSE IF tooFast THEN start - dist
                          ELSE ExitSpeed(block)
  OBVIOUS
<1>12. ExitSpeed(block) \in Nat
  <2>1. block[NextIndex(tail)].entry \in Nat
    BY <1>1, TypesUsed, Around DEF Block
  <2>2. QED
    BY <2>1 DEF ExitSpeed
<1>13. exit \in Nat /\ (tooFast => start = exit + dist)
  <2>1. CASE Hold
    <3>1. ~tooFast
      BY <1>7, <2>1, Zenon
    <3>2. exit = IF dist >= start THEN 0 ELSE start - dist
      BY <1>11, <2>1
    <3>3. QED
      BY <1>2, <1>4, <3>1, <3>2
  <2>2. CASE ~Hold /\ tooFast
    <3>1. exit = start - dist /\ dist <= start - limit
      BY <1>7, <1>11, <2>2
    <3>2. QED
      BY <1>2, <1>4, <1>6, <3>1
  <2>3. CASE ~Hold /\ ~tooFast
    BY <1>11, <1>12, <2>3
  <2>4. QED
    BY <2>1, <2>2, <2>3
<1>14. LoadBlock = [loaded |-> TRUE, recalculate |-> FALSE, decelOverride |-> tooFast,
                    speed |-> speed, exit |-> exit]
  BY <1>2, <1>3, <1>5, <1>7, <1>9, <1>11 DEF LoadBlock, Hold
<1>15. LoadBlock \in PrepSet
  BY <1>8, <1>10, <1>13, <1>14 DEF PrepSet
<1>16. LoadBlock.loaded = TRUE /\ LoadBlock.recalculate = FALSE /\ LoadBlock.decelOverride = tooFast
       /\ LoadBlock.speed = speed /\ LoadBlock.exit = exit
  BY <1>14
<1>17. tooFast => ~Hold
  BY <1>7
<1>18. speed = (IF prep.recalculate THEN prep.speed
                ELSE IF Hold \/ prep.decelOverride THEN prep.exit
                ELSE block[tail].entry)
  BY <1>3, <1>9
<1>19. Hold => exit = (IF dist >= speed THEN 0 ELSE speed - dist)
  BY <1>10, <1>11
<1>20. ~tooFast /\ ~Hold => exit = ExitSpeed(block)
  BY <1>11
<1>21. tooFast => speed = exit + dist
  BY <1>10, <1>13
<1>22. tooFast => speed > Limit(block[tail])
  BY <1>5, <1>7, <1>10 DEF Limit
<1>23. QED
  BY <1>2, <1>15, <1>16, <1>17, <1>18, <1>19, <1>20, <1>21, <1>22

\* What is cut: the block that is loaded, or the one that is taken up.
Cut == IF prep.loaded THEN prep ELSE LoadBlock

\* The block that the stepper cuts, just taken up or not.
LEMMA CutIs ==
  ASSUME PlannerInv
  PROVE  /\ Cut \in PrepSet /\ Cut.loaded /\ ~Cut.recalculate
         /\ Cut.decelOverride => ~Hold /\ Cut.speed = Cut.exit + block[tail].dist
         /\ ~Cut.decelOverride /\ ~Hold => Cut.exit = ExitSpeed(block)
<1>1. TypeOK /\ TakenUpAgain /\ OverrideBrakes /\ ExitSpeedKnown
  BY DEF PlannerInv
<1>2. CASE prep.loaded
  <2>1. Cut = prep /\ prep \in PrepSet
    BY <1>1, <1>2 DEF Cut, TypeOK, PrepSet
  <2>2. QED
    BY <1>1, <1>2, <2>1 DEF TakenUpAgain, OverrideBrakes, ExitSpeedKnown, Hold
<1>3. CASE ~prep.loaded
  <2>1. Cut = LoadBlock
    BY <1>3 DEF Cut
  <2>2. QED
    BY <1>1, <2>1, LoadBlockIs
<1>4. QED
  BY <1>2, <1>3

\* One segment.
LEMMA PrepSegmentIs ==
  ASSUME PlannerInv, NEW rest \in 0 .. block[tail].dist, PrepSegment(rest)
  PROVE  /\ rest \in Nat /\ block[tail].dist \in Nat /\ block[tail].dist - rest \in Nat
         /\ Hold => block[tail].dist - rest <= Cut.speed
         /\ prep' \in PrepSet
         /\ prep'.loaded <=> rest > 0
         /\ ~prep'.recalculate
         /\ prep'.decelOverride = Cut.decelOverride /\ prep'.exit = Cut.exit
         /\ Limit(block[tail]) \in Nat
         /\ prep'.speed = SpeedAfter(Cut, Limit(block[tail]), block[tail].dist - rest, rest)
<1>1. PICK p : p = Cut
  OBVIOUS
<1>2. /\ p \in PrepSet /\ p.loaded /\ ~p.recalculate
      /\ p.decelOverride => ~Hold /\ p.speed = p.exit + block[tail].dist
  BY <1>1, CutIs
<1>3. PICK now : now = block[tail].dist
  OBVIOUS
<1>4. block[tail] \in Block /\ feedOvr \in Nat /\ rapidOvr \in Nat
  BY TypesUsed DEF PlannerInv
<1>5. now \in Nat /\ rest \in 0 .. now
  BY <1>3, <1>4 DEF Block
<1>6. rest \in Nat /\ now - rest \in Nat
  BY <1>5
<1>7. p.speed \in Nat /\ p.exit \in Nat
  BY <1>2 DEF PrepSet
<1>8. Hold => now - rest <= p.speed
  <2>1. rest >= HoldStop(p)
    BY <1>1 DEF PrepSegment, Cut
  <2>2. HoldStop(p) = IF Hold /\ p.speed < now THEN now - p.speed ELSE 0
    BY <1>3 DEF HoldStop, Hold
  <2>3. QED
    BY <1>5, <1>7, <2>1, <2>2
<1>9. PICK limit : limit = Square(NominalSpeed(block[tail], feedOvr, rapidOvr)) /\ limit = Limit(block[tail])
  BY DEF Limit
<1>10. limit \in Nat
  BY <1>4, <1>9, SpeedsNat
<1>11. PICK d \in Nat : d = now - rest
  BY <1>6
<1>12. PICK speed : speed = SpeedAfter(p, limit, d, rest)
  OBVIOUS
<1>13. speed \in Nat
  <2>1. CASE rest = 0
    BY <1>7, <1>12, <2>1 DEF SpeedAfter
  <2>2. CASE rest # 0 /\ (Hold \/ p.decelOverride \/ p.speed > limit + d \/ p.speed > p.exit + d + rest)
    <3>1. speed = p.speed - d
      BY <1>12, <2>2 DEF SpeedAfter, Hold
    <3>2. d <= p.speed
      <4>1. CASE Hold
        BY <1>8, <1>11, <4>1
      <4>2. CASE p.decelOverride
        BY <1>2, <1>3, <1>5, <1>7, <1>11, <4>2
      <4>3. CASE p.speed > limit + d \/ p.speed > p.exit + d + rest
        BY <1>6, <1>7, <1>10, <1>11, <4>3
      <4>4. QED
        BY <2>2, <4>1, <4>2, <4>3
    <3>3. QED
      BY <1>7, <1>11, <3>1, <3>2
  <2>3. CASE rest # 0 /\ ~(Hold \/ p.decelOverride \/ p.speed > limit + d \/ p.speed > p.exit + d + rest)
    <3>1. speed = Least(Least(p.speed + d, limit), p.exit + rest)
      BY <1>12, <2>3 DEF SpeedAfter, Hold
    <3>2. p.speed + d \in Nat /\ p.exit + rest \in Nat
      BY <1>6, <1>7, <1>11
    <3>3. Least(p.speed + d, limit) \in Nat
      BY <1>10, <3>2, LeastIs
    <3>4. QED
      BY <3>1, <3>2, <3>3, LeastIs
  <2>4. QED
    BY <2>1, <2>2, <2>3
<1>14. PICK l \in BOOLEAN : l <=> rest > 0
  <2>1. TRUE \in BOOLEAN /\ FALSE \in BOOLEAN
    OBVIOUS
  <2>2. QED
    BY <2>1
<1>15. l = (rest > 0)
  BY <1>6, <1>14
<1>16. prep' = [p EXCEPT !.speed = speed, !.loaded = l]
  <2>1. prep' = [p EXCEPT !.speed = speed, !.loaded = rest > 0]
    BY <1>1, <1>3, <1>9, <1>11, <1>12 DEF PrepSegment, Cut
  <2>2. QED
    BY <1>15, <2>1
<1>17. prep' \in PrepSet /\ prep'.loaded = l /\ prep'.recalculate = p.recalculate
       /\ prep'.decelOverride = p.decelOverride /\ prep'.exit = p.exit /\ prep'.speed = speed
  BY <1>2, <1>13, <1>15, <1>16 DEF PrepSet
<1>18. QED
  BY <1>1, <1>2, <1>3, <1>5, <1>6, <1>8, <1>9, <1>10, <1>11, <1>12, <1>14, <1>17

\* What one segment does to the ring.
LEMMA SegmentRing ==
  ASSUME PlannerInv, NEW rest \in 0 .. block[tail].dist, PrepSegment(rest)
  PROVE  /\ block' \in Blocks /\ \A i \in Index \ {tail} : block'[i] = block[i]
         /\ rest > 0 => /\ block'[tail].dist = rest
                        /\ block'[tail].entry = (IF ~prep.loaded /\ ~prep.recalculate THEN Cut.speed
                                                 ELSE block[tail].entry)
                        /\ tail' = tail /\ planned' = planned /\ overridden' = overridden
         /\ rest = 0 => /\ tail' = NextIndex(tail)
                        /\ planned' = (IF tail = planned THEN NextIndex(tail) ELSE planned)
                        /\ overridden' = (overridden /\ NextIndex(tail) # head)
         /\ ~IsEmpty /\ head' = head /\ nextHead' = nextHead /\ prevNominal' = prevNominal
         /\ feedOvr' = feedOvr /\ rapidOvr' = rapidOvr
         /\ stepControl' = stepControl \/ stepControl' = stepControl \cup {"end"}
         /\ "end" \in stepControl' => rest > 0
<1>1. tail \in Index /\ block[tail] \in Block /\ block \in Blocks
  BY TypesUsed DEF PlannerInv
<1>2. rest \in Nat /\ Cut.speed \in Nat
  BY PrepSegmentIs, CutIs DEF PrepSet
<1>3. PICK entry : entry = IF ~prep.loaded /\ ~prep.recalculate THEN Cut.speed ELSE block[tail].entry
  OBVIOUS
<1>4. entry \in Nat
  BY <1>1, <1>2, <1>3 DEF Block
<1>5. PICK x : x = [block[tail] EXCEPT !.dist = rest, !.entry = entry]
  OBVIOUS
<1>6. x \in Block /\ x.dist = rest /\ x.entry = entry
  BY <1>1, <1>2, <1>4, <1>5 DEF Block
<1>7. PICK cut : cut = [block EXCEPT ![tail] = x]
  OBVIOUS
<1>8. cut \in Blocks /\ cut[tail] = x /\ \A i \in Index \ {tail} : cut[i] = block[i]
  BY <1>1, <1>6, <1>7 DEF Blocks
<1>9. cut = [block EXCEPT ![tail].dist = rest, ![tail].entry =
                IF ~prep.loaded /\ ~prep.recalculate THEN Cut.speed ELSE @]
  BY <1>1, <1>3, <1>5, <1>7 DEF Blocks, Block
<1>10. /\ ~IsEmpty /\ head' = head /\ nextHead' = nextHead /\ prevNominal' = prevNominal
       /\ feedOvr' = feedOvr /\ rapidOvr' = rapidOvr
       /\ stepControl' = stepControl \/ stepControl' = stepControl \cup {"end"}
       /\ "end" \in stepControl' => rest > 0
  BY DEF PrepSegment
<1>11. CASE rest > 0
  <2>1. block' = cut /\ tail' = tail /\ planned' = planned /\ overridden' = overridden
    BY <1>9, <1>11 DEF PrepSegment, Cut
  <2>2. QED
    BY <1>2, <1>3, <1>6, <1>8, <1>10, <1>11, <2>1
<1>12. CASE ~(rest > 0)
  <2>1. /\ block' = [cut EXCEPT ![tail] = Retired(@)]
        /\ tail' = NextIndex(tail)
        /\ planned' = (IF tail = planned THEN NextIndex(tail) ELSE planned)
        /\ overridden' = (overridden /\ NextIndex(tail) # head)
    BY <1>9, <1>12 DEF PrepSegment, Cut
  <2>2. PICK y : y = Retired(x)
    OBVIOUS
  <2>3. y \in Block
    BY <1>6, <2>2 DEF Retired, Block
  <2>4. block' = [cut EXCEPT ![tail] = y]
    BY <1>8, <2>1, <2>2
  <2>5. block' \in Blocks /\ \A i \in Index \ {tail} : block'[i] = block[i]
    BY <1>1, <1>8, <2>3, <2>4 DEF Blocks
  <2>6. QED
    BY <1>10, <1>12, <2>1, <2>5
<1>13. QED
  BY <1>11, <1>12

\* A segment keeps the invariant.
LEMMA PrepSegmentKeeps ==
  ASSUME PlannerInv, NEW rest \in 0 .. block[tail].dist, PrepSegment(rest)
  PROVE  PlannerInv'
<1>1. TypeOK /\ PlanWithinQueue
  BY DEF PlannerInv
<1>2. /\ rest \in Nat /\ block[tail].dist \in Nat
      /\ prep' \in PrepSet /\ (prep'.loaded <=> rest > 0) /\ ~prep'.recalculate
      /\ prep'.decelOverride = Cut.decelOverride /\ prep'.exit = Cut.exit
  BY PrepSegmentIs
<1>3. /\ block' \in Blocks /\ \A i \in Index \ {tail} : block'[i] = block[i]
      /\ ~IsEmpty /\ head' = head /\ nextHead' = nextHead /\ prevNominal' = prevNominal
      /\ feedOvr' = feedOvr /\ rapidOvr' = rapidOvr
      /\ stepControl' = stepControl \/ stepControl' = stepControl \cup {"end"}
  BY SegmentRing
<1>4. /\ tail \in Index /\ head \in Index /\ tail # head
      /\ NextIndex(tail) \in Index /\ NextIndex(tail) # tail /\ planned \in Index
  BY <1>1, <1>3, TypesUsed, Around DEF IsEmpty
<1>5. /\ Cut \in PrepSet
      /\ Cut.decelOverride => ~Hold /\ Cut.speed = Cut.exit + block[tail].dist
      /\ ~Cut.decelOverride /\ ~Hold => Cut.exit = ExitSpeed(block)
  BY CutIs
<1>6. Hold' <=> Hold
  BY <1>3 DEF Hold
<1>7. stepControl' \subseteq {"hold", "end"}
  BY <1>1, <1>3 DEF TypeOK
<1>8. CASE rest > 0
  <2>1. /\ tail' = tail /\ planned' = planned /\ overridden' = overridden /\ block'[tail].dist = rest
    BY <1>8, SegmentRing
  <2>2. TypeOK'
    BY <1>1, <1>2, <1>3, <1>7, <2>1 DEF TypeOK, Blocks, PrepSet
  <2>3. ~IsEmpty'
    BY <1>3, <2>1 DEF IsEmpty
  <2>4. PlanWithinQueue'
    <3>1. Queued' = Queued /\ Queued \subseteq Index
      BY <1>3, <2>1 DEF Queued
    <3>2. QED
      BY <1>1, <1>3, <2>1, <3>1 DEF PlanWithinQueue, IsEmpty
  <2>5. ExitSpeed(block)' = ExitSpeed(block)
    BY <1>3, <1>4, <2>1 DEF ExitSpeed
  <2>6. ExitSpeedKnown'
    BY <1>2, <1>5, <1>6, <2>5 DEF ExitSpeedKnown, Hold
  <2>7. OverrideBrakes'
    <3>1. SUFFICES ASSUME Cut.decelOverride PROVE ~Hold' /\ prep'.speed = prep'.exit + rest
      BY <1>2, <2>1 DEF OverrideBrakes
    <3>2. prep'.speed = SpeedAfter(Cut, Limit(block[tail]), block[tail].dist - rest, rest)
      BY PrepSegmentIs
    <3>3. prep'.speed = Cut.speed - (block[tail].dist - rest)
      BY <1>8, <3>1, <3>2 DEF SpeedAfter
    <3>4. Cut.exit \in Nat
      BY <1>5 DEF PrepSet
    <3>5. prep'.speed = Cut.exit + rest
      BY <1>2, <1>5, <3>1, <3>3, <3>4
    <3>6. QED
      BY <1>2, <1>5, <1>6, <3>1, <3>5
  <2>8. QED
    BY <1>2, <2>2, <2>3, <2>4, <2>6, <2>7 DEF PlannerInv, LoadedQueued, TakenUpAgain
<1>9. CASE rest = 0
  <2>1. /\ tail' = NextIndex(tail)
        /\ planned' = (IF tail = planned THEN NextIndex(tail) ELSE planned)
        /\ overridden' = (overridden /\ NextIndex(tail) # head)
    BY <1>9, SegmentRing
  <2>2. overridden' \in BOOLEAN
    BY <2>1, Zenon
  <2>3. TypeOK'
    BY <1>1, <1>2, <1>3, <1>4, <1>7, <2>1, <2>2 DEF TypeOK, Blocks, PrepSet
  <2>4. Queued' = Between(tail, head) \ {tail}
    <3>1. Queued' = Between(tail', head')
      BY DEF Queued, Between
    <3>2. QED
      BY <1>3, <1>4, <2>1, <3>1, BetweenDrops
  <2>5. Queued = Between(tail, head) /\ Between(tail, head) \subseteq Index
    BY QueuedIs DEF Between
  <2>6. PlanWithinQueue'
    <3>1. ASSUME ~IsEmpty' PROVE planned' \in Queued'
      <4>1. NextIndex(tail) # head
        BY <1>3, <2>1, <3>1 DEF IsEmpty
      <4>2. tail # PrevIndex(head)
        BY <1>4, <4>1, Around
      <4>3. NextIndex(tail) \in Between(tail, head) \ {tail}
        BY <1>4, <4>2, BetweenIs
      <4>4. planned \in Between(tail, head)
        BY <1>1, <1>3, <2>5 DEF PlanWithinQueue
      <4>5. QED
        BY <2>1, <2>4, <4>3, <4>4
    <3>2. ASSUME NEW i \in Queued' \ {tail'} PROVE block'[i].entry <= block'[i].maxEntry
      BY <1>1, <1>3, <2>4, <2>5, <3>2 DEF PlanWithinQueue
    <3>3. QED
      BY <3>1, <3>2 DEF PlanWithinQueue
  <2>7. ~prep'.loaded
    BY <1>2, <1>9
  <2>8. QED
    BY <1>2, <2>3, <2>6, <2>7 DEF PlannerInv, LoadedQueued, TakenUpAgain, OverrideBrakes, ExitSpeedKnown
<1>10. QED
  BY <1>2, <1>8, <1>9

\* Every step keeps the ring and the stepper together: one lemma for each action.
THEOREM PlannerInvStep ==
  ASSUME PlannerInv, [Next]_vars
  PROVE  PlannerInv'
<1>1. CASE \E line \in Lines : BufferLine(line)
  BY <1>1, BufferLineKeeps
<1>2. CASE \E o \in Overrides : Override(o[1], o[2])
  BY <1>2, OverrideKeeps
<1>3. CASE FeedHold
  BY <1>3, FeedHoldKeeps
<1>4. CASE CycleStop
  BY <1>4, CycleStopKeeps
<1>5. CASE CycleStart
  <2>1. /\ UNCHANGED <<queue, prevNominal, feedOvr, rapidOvr, prep, overridden>>
        /\ stepControl' = {} /\ stepControl = {"end"}
    BY <1>5 DEF CycleStart
  <2>2. QED
    BY <2>1 DEF queue, PlannerInv, TypeOK, PlanWithinQueue, Queued, LoadedQueued, TakenUpAgain, OverrideBrakes,
                ExitSpeedKnown, ExitSpeed, IsEmpty, Hold
<1>6. CASE \E rest \in 0 .. block[tail].dist : PrepSegment(rest)
  BY <1>6, PrepSegmentKeeps
<1>7. CASE UNCHANGED vars
  BY <1>7 DEF vars, queue, PlannerInv, TypeOK, PlanWithinQueue, Queued, LoadedQueued, TakenUpAgain, OverrideBrakes,
              ExitSpeedKnown, ExitSpeed, IsEmpty, Hold
<1>8. QED
  BY <1>1, <1>2, <1>3, <1>4, <1>5, <1>6, <1>7 DEF Next

\* The invariant holds in every state of every behaviour.
THEOREM PlannerInvariant == Spec => []PlannerInv
  BY PlannerInvInit, PlannerInvStep, PTL DEF Spec

\* Every variable keeps its type; speeds never go below zero.
THEOREM TypeCorrect == Spec => []TypeOK
<1>1. PlannerInv => TypeOK
  BY DEF PlannerInv
<1>2. QED
  BY <1>1, PlannerInvariant, PTL

\* The planned pointer points into the queue, and no corner is taken too fast.
THEOREM PlannedIsQueued == Spec => []PlanWithinQueue
<1>1. PlannerInv => PlanWithinQueue
  BY DEF PlannerInv
<1>2. QED
  BY <1>1, PlannerInvariant, PTL

\* The stepper always knows the speed at the end of the block it cuts.
THEOREM StepperKnowsExit == Spec => []ExitSpeedKnown
<1>1. PlannerInv => ExitSpeedKnown
  BY DEF PlannerInv
<1>2. QED
  BY <1>1, PlannerInvariant, PTL

-----------------------------------------------------------------------------
(* A plan that the machine can follow. *)

\* The speed at the end of block i of a ring that ends before h.
Exit(b, i, h) == IF NextIndex(i) = h THEN 0 ELSE b[NextIndex(i)].entry

\* Block i can brake, and can accelerate, from its entry to its exit.
Brakes(b, i, h) == b[i].entry <= Exit(b, i, h) + b[i].dist
Speeds(b, i, h) == Exit(b, i, h) <= b[i].entry + b[i].dist

\* The numbers of a block.
LEMMA ExitNat ==
  ASSUME NEW b \in Blocks, NEW i \in Index, NEW h \in Index
  PROVE  Exit(b, i, h) \in Nat /\ b[i].entry \in Nat /\ b[i].dist \in Nat /\ b[i].maxEntry \in Nat
<1>1. b[NextIndex(i)] \in Block /\ b[i] \in Block
  BY Around DEF Blocks
<1>2. QED
  BY <1>1 DEF Exit, Block

\* From the newest block of a pass back to the oldest: what holds of the newest
\* and of each block whose successor has it holds of all.
LEMMA BackInduction ==
  ASSUME NEW h \in Index, NEW p \in Index, NEW T,
         p # PrevIndex(h) => PrevIndex(h) \in T,
         \A i \in Reach(h, p) \ {PrevIndex(h)} : NextIndex(i) \in T => i \in T
  PROVE  Reach(h, p) \subseteq T
<1>1. PICK last \in Index : last = PrevIndex(h)
  BY Around
<1>2. PICK n \in 0 .. BlockBufferSize - 1 : n = Plannable(h, p)
  BY PlannableIs
<1>3. CASE n = 0
  BY <1>2, <1>3 DEF Reach
<1>4. CASE n # 0
  <2>1. PICK U : U = {k \in 0 .. n - 1 : \A i \in Reach(h, p) : Ahead(i, last) = k => i \in T}
    OBVIOUS
  <2>2. n - 1 \in Nat /\ 0 \in 0 .. n - 1
    BY <1>2, <1>4, Size
  <2>3. 0 \in U
    <3>1. ASSUME NEW i \in Reach(h, p), Ahead(i, last) = 0 PROVE i \in T
      <4>1. i = last
        BY <3>1, AheadRange DEF Reach
      <4>2. p # PrevIndex(h)
        BY <1>2, <1>4, PlannableIs
      <4>3. QED
        BY <1>1, <4>1, <4>2
    <3>2. QED
      BY <2>1, <2>2, <3>1
  <2>4. ASSUME NEW k \in 1 .. n - 1, k - 1 \in U PROVE k \in U
    <3>1. ASSUME NEW i \in Reach(h, p), Ahead(i, last) = k PROVE i \in T
      <4>1. i # last
        <5>1. Ahead(last, last) = 0
          BY AheadRange
        <5>2. k # 0
          BY <1>2
        <5>3. QED
          BY <3>1, <5>1, <5>2
      <4>2. NextIndex(i) \in Reach(h, p) /\ Ahead(NextIndex(i), last) = k - 1
        BY <1>1, <3>1, <4>1, ReachSteps
      <4>3. NextIndex(i) \in T
        BY <2>1, <2>4, <4>2
      <4>4. QED
        BY <1>1, <4>1, <4>3
    <3>2. k \in 0 .. n - 1
      BY <1>2
    <3>3. QED
      BY <2>1, <3>1, <3>2
  <2>5. \A k \in 0 .. n - 1 : k \in U
    BY <2>2, <2>3, <2>4, UpTo
  <2>6. ASSUME NEW i \in Reach(h, p) PROVE i \in T
    <3>1. Ahead(i, last) \in 0 .. n - 1
      BY <1>1, <1>2, ReachIs DEF Reach
    <3>2. QED
      BY <2>1, <2>5, <3>1
  <2>7. QED
    BY <2>6
<1>5. QED
  BY <1>3, <1>4

\* In a ring that can brake the reverse pass only raises speeds.
LEMMA ReverseRaises ==
  ASSUME NEW b \in Blocks, NEW r \in Blocks, NEW h \in Index, NEW p \in Index, p # PrevIndex(h),
         Reversed(b, r, h, p),
         \A i \in Reach(h, p) : Brakes(b, i, h) /\ b[i].entry <= b[i].maxEntry
  PROVE  \A i \in Reach(h, p) : b[i].entry <= r[i].entry
<1>1. PICK last \in Index : last = PrevIndex(h)
  BY Around
<1>2. PICK T : T = {i \in Index : b[i].entry <= r[i].entry}
  OBVIOUS
<1>3. last \in T
  <2>1. NextIndex(last) = h /\ last \in Reach(h, p)
    BY <1>1, Around, NewestReached
  <2>2. b[last].entry <= b[last].dist /\ b[last].entry <= b[last].maxEntry
    <3>1. Exit(b, last, h) = 0
      BY <2>1 DEF Exit
    <3>2. b[last].entry <= 0 + b[last].dist
      BY <2>1, <3>1 DEF Brakes
    <3>3. QED
      BY <2>1, <3>2, ExitNat
  <2>3. r[last].entry = Least(b[last].maxEntry, b[last].dist)
    BY <1>1 DEF Reversed
  <2>4. QED
    BY <1>1, <1>2, <2>2, <2>3 DEF Least
<1>4. ASSUME NEW i \in Reach(h, p) \ {last}, NextIndex(i) \in T PROVE i \in T
  <2>1. i \in Index /\ NextIndex(i) \in Index /\ NextIndex(i) # h
    <3>1. i \in Index /\ NextIndex(i) \in Index
      BY Around DEF Reach
    <3>2. QED
      BY <1>1, <3>1, Around
  <2>2. b[i].entry <= b[NextIndex(i)].entry + b[i].dist /\ b[i].entry <= b[i].maxEntry
    BY <2>1 DEF Brakes, Exit
  <2>3. r[i].entry = Backwards(b[i], r[NextIndex(i)].entry)
    BY <1>1 DEF Reversed
  <2>4. b[NextIndex(i)].entry <= r[NextIndex(i)].entry
    BY <1>2, <1>4
  <2>5. /\ b[i].entry \in Nat /\ b[i].dist \in Nat /\ b[i].maxEntry \in Nat
        /\ b[NextIndex(i)].entry \in Nat /\ r[NextIndex(i)].entry \in Nat
    BY <2>1, ExitNat
  <2>6. b[i].entry <= r[i].entry
    BY <2>2, <2>3, <2>4, <2>5 DEF Backwards, Least
  <2>7. QED
    BY <1>2, <2>1, <2>6
<1>5. Reach(h, p) \subseteq T
  BY <1>1, <1>3, <1>4, BackInduction
<1>6. QED
  BY <1>2, <1>5

\* From a ring that can brake, planner_recalculate makes one that can brake and
\* that accelerates no more than it can.
LEMMA ReplansSmooth ==
  ASSUME NEW b \in Blocks, NEW h \in Index, NEW p \in Index, NEW c, NEW q, Replans(b, h, p, c, q),
         \A i \in Reach(h, p) \cup {p} : Brakes(b, i, h),
         \A i \in Reach(h, p) : b[i].entry <= b[i].maxEntry
  PROVE  \A i \in Reach(h, p) \cup {p} : Brakes(c, i, h) /\ Speeds(c, i, h)
<1>1. CASE p = PrevIndex(h) /\ c = b
  <2>1. Plannable(h, p) = 0
    BY <1>1, PlannableIs
  <2>2. Reach(h, p) = {}
    BY <2>1 DEF Reach
  <2>3. NextIndex(p) = h
    BY <1>1, Around
  <2>4. Speeds(b, p, h)
    <3>1. Exit(b, p, h) = 0 /\ b[p].entry \in Nat /\ b[p].dist \in Nat
      BY <2>3, ExitNat DEF Exit
    <3>2. QED
      BY <3>1 DEF Speeds
  <2>5. QED
    BY <1>1, <2>2, <2>4
<1>2. CASE p # PrevIndex(h)
  <2>1. PICK last \in Index : last = PrevIndex(h)
    BY Around
  <2>2. PICK r \in Blocks : /\ Reversed(b, r, h, p)
                            /\ Forwarded(r, c, h, p) /\ LastSettled(r, c, h, p, q)
    BY <1>2 DEF Replans
  <2>3. \A i \in Reach(h, p) : b[i].entry <= r[i].entry
    BY <1>2, <2>2, ReverseRaises
  <2>4. c \in Blocks /\ Reach(h, p) \subseteq Index /\ \A i \in Index : SameBut(b[i], c[i])
    BY ReplansWithin DEF Reach
  <2>5. \A i \in Index : b[i].dist = r[i].dist /\ b[i].dist = c[i].dist
    BY <2>2, <2>4 DEF Reversed, OnlyEntries, SameBut
  <2>6. p \notin Reach(h, p) /\ c[p] = b[p] /\ r[p] = b[p]
    <3>1. p \notin Reach(h, p)
      BY ReachIs
    <3>2. QED
      BY <2>2, <3>1 DEF Reversed, Forwarded, OnlyEntries
  <2>7. \A i \in Index : /\ b[i].entry \in Nat /\ r[i].entry \in Nat /\ c[i].entry \in Nat
                         /\ b[i].dist \in Nat /\ b[i].maxEntry \in Nat
    BY <2>2, <2>4, ExitNat
  \* The reverse pass leaves every block able to brake.
  <2>8. ASSUME NEW i \in (Reach(h, p) \cup {p}) \ {last}
        PROVE  NextIndex(i) \in Reach(h, p) /\ NextIndex(i) # h /\ r[i].entry <= r[NextIndex(i)].entry + b[i].dist
    <3>1. i \in Index /\ i # last
      BY <2>4
    <3>2. NextIndex(i) \in Index /\ NextIndex(i) # h
      BY <2>1, <3>1, Around
    <3>3. NextIndex(i) \in Reach(h, p)
      <4>1. CASE i \in Reach(h, p)
        BY <2>1, <3>1, <4>1, ReachSteps
      <4>2. CASE i = p
        <5>1. Ahead(p, p) = 0 /\ NextIndex(p) # p
          BY AheadRange, Around
        <5>2. Ahead(p, NextIndex(p)) = 1
          BY <5>1, AheadSteps
        <5>3. Plannable(h, p) >= 1 /\ Plannable(h, p) \in Nat
          BY <1>2, PlannableIs, Size
        <5>4. QED
          BY <3>2, <4>2, <5>2, <5>3 DEF Reach
      <4>3. QED
        BY <4>1, <4>2
    <3>4. b[i].entry <= b[NextIndex(i)].entry + b[i].dist
      BY <3>2 DEF Brakes, Exit
    <3>5. b[NextIndex(i)].entry <= r[NextIndex(i)].entry
      BY <2>3, <3>3
    <3>6. b[i].entry <= r[NextIndex(i)].entry + b[i].dist
      BY <2>7, <3>1, <3>2, <3>4, <3>5
    <3>7. r[i].entry <= r[NextIndex(i)].entry + b[i].dist
      <4>1. CASE i = p
        BY <2>6, <3>6, <4>1
      <4>2. CASE i # p
        <5>1. r[i].entry = Backwards(b[i], r[NextIndex(i)].entry)
          BY <2>1, <2>2, <3>1, <4>2 DEF Reversed
        <5>2. QED
          BY <2>7, <3>1, <3>2, <3>6, <5>1 DEF Backwards, Least
      <4>3. QED
        BY <4>1, <4>2
    <3>8. QED
      BY <3>2, <3>3, <3>7
  <2>9. ASSUME NEW i \in Reach(h, p) \cup {p}
        PROVE  c[i].entry <= r[i].entry
    <3>1. CASE i = p
      BY <2>6, <2>7, <3>1
    <3>2. CASE i \in Reach(h, p)
      <4>1. PrevIndex(i) \in Index /\ i \in Index
        BY <2>4, <3>2, Around
      <4>2. c[i].entry = Forwards(c[PrevIndex(i)].entry, r[PrevIndex(i)].dist, r[i].entry)
        BY <2>2, <3>2 DEF Forwarded
      <4>3. r[PrevIndex(i)].dist \in Nat
        BY <2>5, <2>7, <4>1
      <4>4. Forwards(c[PrevIndex(i)].entry, r[PrevIndex(i)].dist, r[i].entry) <= r[i].entry
        BY <2>7, <4>1, <4>3, ForwardsIs
      <4>5. QED
        BY <4>2, <4>4
    <3>3. QED
      BY <3>1, <3>2
  <2>10. ASSUME NEW i \in (Reach(h, p) \cup {p}) \ {last}
         PROVE  Brakes(c, i, h) /\ Speeds(c, i, h)
    <3>1. PICK j \in Index : j = NextIndex(i) /\ i \in Index
      BY <2>4, Around
    <3>2. j \in Reach(h, p) /\ j # h /\ r[i].entry <= r[j].entry + b[i].dist /\ PrevIndex(j) = i
      BY <2>8, <3>1, Around
    <3>3. c[j].entry = Forwards(c[i].entry, b[i].dist, r[j].entry)
      BY <2>2, <2>5, <3>1, <3>2 DEF Forwarded
    <3>4. /\ c[j].entry <= c[i].entry + b[i].dist
          /\ c[j].entry = r[j].entry \/ c[j].entry = c[i].entry + b[i].dist
      <4>1. PICK x \in Nat, d \in Nat, y \in Nat : x = c[i].entry /\ d = b[i].dist /\ y = r[j].entry
        BY <2>7, <3>1
      <4>2. /\ Forwards(x, d, y) <= x + d
            /\ Forwards(x, d, y) = y \/ Forwards(x, d, y) = x + d
        BY ForwardsIs
      <4>3. QED
        BY <3>3, <4>1, <4>2
    <3>5. c[i].entry <= r[i].entry
      BY <2>9
    <3>6. c[i].entry <= c[j].entry + b[i].dist
      BY <2>7, <3>1, <3>2, <3>4, <3>5
    <3>7. Exit(c, i, h) = c[j].entry /\ c[i].dist = b[i].dist
      BY <2>5, <3>1, <3>2 DEF Exit
    <3>8. QED
      BY <3>4, <3>6, <3>7 DEF Brakes, Speeds
  <2>11. Brakes(c, last, h) /\ Speeds(c, last, h)
    <3>1. NextIndex(last) = h /\ last \in Reach(h, p)
      BY <1>2, <2>1, Around, NewestReached
    <3>2. r[last].entry = Least(b[last].maxEntry, b[last].dist)
      BY <2>1, <2>2 DEF Reversed
    <3>3. c[last].entry <= r[last].entry
      BY <2>9, <3>1
    <3>4. c[last].entry <= b[last].dist
      <4>1. PICK m \in Nat, d \in Nat : m = b[last].maxEntry /\ d = b[last].dist
        BY <2>1, <2>7
      <4>2. Least(m, d) <= d /\ Least(m, d) \in Nat
        BY LeastIs
      <4>3. c[last].entry \in Nat /\ c[last].entry <= Least(m, d)
        BY <2>1, <2>7, <3>2, <3>3, <4>1
      <4>4. QED
        BY <4>1, <4>2, <4>3
    <3>5. Exit(c, last, h) = 0 /\ c[last].dist = b[last].dist
      BY <2>5, <3>1 DEF Exit
    <3>6. QED
      BY <2>7, <3>4, <3>5 DEF Brakes, Speeds
  <2>12. QED
    BY <2>10, <2>11
<1>3. QED
  BY <1>1, <1>2 DEF Replans

\* Way D for stopping: from the start of each block of a ring that ends before h
\* to the end of the ring.
ToEnd(D, S, b, h) ==
  /\ D \in [Index -> Nat]
  /\ \A i \in S : D[i] = (IF NextIndex(i) = h THEN 0 ELSE D[NextIndex(i)]) + b[i].dist

\* planner_recalculate plans no speed from which the ring is too short to stop.
LEMMA ReplansStop ==
  ASSUME NEW b \in Blocks, NEW h \in Index, NEW p \in Index, NEW c, NEW q, Replans(b, h, p, c, q),
         NEW D, ToEnd(D, Reach(h, p), b, h),
         \A i \in Reach(h, p) : b[i].entry <= D[i]
  PROVE  \A i \in Reach(h, p) : c[i].entry <= D[i]
<1>1. CASE p = PrevIndex(h) /\ c = b
  BY <1>1
<1>2. CASE p # PrevIndex(h)
  <2>1. PICK last \in Index : last = PrevIndex(h)
    BY Around
  <2>2. PICK r \in Blocks : /\ Reversed(b, r, h, p)
                            /\ Forwarded(r, c, h, p) /\ LastSettled(r, c, h, p, q)
    BY <1>2 DEF Replans
  <2>3. c \in Blocks /\ Reach(h, p) \subseteq Index
    BY ReplansWithin DEF Reach
  <2>4. \A i \in Index : r[i].dist = b[i].dist
    BY <2>2 DEF Reversed, OnlyEntries, SameBut
  <2>5. \A i \in Index : /\ b[i].entry \in Nat /\ r[i].entry \in Nat /\ c[i].entry \in Nat
                         /\ b[i].dist \in Nat /\ b[i].maxEntry \in Nat /\ D[i] \in Nat
    BY <2>2, <2>3, ExitNat DEF ToEnd
  <2>6. PICK T : T = {i \in Index : r[i].entry <= D[i]}
    OBVIOUS
  <2>7. last \in T
    <3>1. NextIndex(last) = h /\ last \in Reach(h, p)
      BY <1>2, <2>1, Around, NewestReached
    <3>2. D[last] = b[last].dist
      BY <2>5, <3>1 DEF ToEnd
    <3>3. r[last].entry = Least(b[last].maxEntry, b[last].dist)
      BY <2>1, <2>2 DEF Reversed
    <3>4. QED
      BY <2>1, <2>5, <2>6, <3>2, <3>3, LeastIs
  <2>8. ASSUME NEW i \in Reach(h, p) \ {last}, NextIndex(i) \in T PROVE i \in T
    <3>1. i \in Index /\ NextIndex(i) \in Index /\ NextIndex(i) # h
      BY <2>1, <2>3, Around
    <3>2. D[i] = D[NextIndex(i)] + b[i].dist
      BY <3>1 DEF ToEnd
    <3>3. r[NextIndex(i)].entry <= D[NextIndex(i)]
      BY <2>6, <2>8
    <3>4. r[i].entry = Backwards(b[i], r[NextIndex(i)].entry)
      BY <2>1, <2>2 DEF Reversed
    <3>5. r[i].entry = b[i].entry \/ r[i].entry <= r[NextIndex(i)].entry + b[i].dist
      BY <2>5, <3>1, <3>4 DEF Backwards, Least
    <3>6. b[i].entry <= D[i]
      OBVIOUS
    <3>7. r[i].entry <= D[i]
      BY <2>5, <3>1, <3>2, <3>3, <3>5, <3>6
    <3>8. QED
      BY <2>6, <3>1, <3>7
  <2>9. Reach(h, p) \subseteq T
    BY <2>1, <2>7, <2>8, BackInduction
  <2>10. ASSUME NEW i \in Reach(h, p) PROVE c[i].entry <= D[i]
    <3>1. i \in Index /\ PrevIndex(i) \in Index
      BY <2>3, Around
    <3>2. PICK x \in Nat, d \in Nat, y \in Nat : /\ x = c[PrevIndex(i)].entry
                                                 /\ d = r[PrevIndex(i)].dist /\ y = r[i].entry
      BY <2>4, <2>5, <3>1
    <3>3. c[i].entry = Forwards(x, d, y)
      BY <2>2, <3>2 DEF Forwarded
    <3>4. c[i].entry <= y
      BY <3>3, ForwardsIs
    <3>5. y <= D[i]
      BY <2>6, <2>9, <3>2
    <3>6. QED
      BY <2>5, <3>1, <3>4, <3>5
  <2>11. QED
    BY <2>10
<1>3. QED
  BY <1>1, <1>2 DEF Replans

\* The same for the whole queue from t to h, whose first block no pass changes.
LEMMA QueueSmooth ==
  ASSUME NEW t \in Index, NEW h \in Index, t # h, NEW p \in Between(t, h),
         NEW b \in Blocks, NEW c, NEW q, Replans(b, h, p, c, q),
         \A i \in Between(t, h) \ {t} : Brakes(b, i, h) /\ b[i].entry <= b[i].maxEntry,
         p = t => Brakes(b, t, h)
  PROVE  /\ \A i \in Between(t, h) \ {t} : /\ Brakes(c, i, h)
                                           /\ p = t \/ Speeds(b, i, h) => Speeds(c, i, h)
         /\ c[t] = b[t]
         /\ p = t => Brakes(c, t, h) /\ Speeds(c, t, h)
         /\ p # t => Exit(c, t, h) = Exit(b, t, h)
<1>1. p \in Index /\ Between(t, h) \subseteq Index
  BY DEF Between
<1>2. Reach(h, p) \subseteq Between(t, h) \ {t} /\ (p = t => Reach(h, p) = Between(t, h) \ {t})
  BY BetweenReach
<1>3. \A i \in Reach(h, p) \cup {p} : Brakes(b, i, h)
  BY <1>2
<1>4. \A i \in Reach(h, p) \cup {p} : Brakes(c, i, h) /\ Speeds(c, i, h)
  BY <1>1, <1>2, <1>3, ReplansSmooth
<1>5. /\ \A i \in Index : SameBut(b[i], c[i])
      /\ \A i \in Index \ Reach(h, p) : c[i] = b[i]
  BY <1>1, ReplansWithin
<1>6. ASSUME NEW i \in Between(t, h) \ (Reach(h, p) \cup {p})
      PROVE  Exit(c, i, h) = Exit(b, i, h) /\ c[i] = b[i]
  <2>1. PICK j \in Index : j = NextIndex(i)
    BY <1>1, Around
  <2>2. j \notin Reach(h, p)
    <3>1. PrevIndex(j) = i
      BY <1>1, <2>1, Around
    <3>2. QED
      BY <1>1, <3>1, ReachSteps
  <2>3. QED
    BY <1>1, <1>5, <2>1, <2>2 DEF Exit
<1>7. ASSUME NEW i \in Between(t, h) \ {t}
      PROVE  Brakes(c, i, h) /\ (p = t \/ Speeds(b, i, h) => Speeds(c, i, h))
  <2>1. CASE i \in Reach(h, p) \cup {p}
    BY <1>4, <2>1
  <2>2. CASE i \notin Reach(h, p) \cup {p}
    <3>1. p # t
      BY <1>2, <2>2
    <3>2. QED
      BY <1>6, <2>2, <3>1 DEF Brakes, Speeds
  <2>3. QED
    BY <2>1, <2>2
<1>8. t \in Between(t, h) /\ t \notin Reach(h, p)
  BY <1>2, BetweenIs
<1>9. QED
  BY <1>4, <1>5, <1>6, <1>7, <1>8

\* Stopping distances of a whole queue, part of which is planned again.
LEMMA QueueStop ==
  ASSUME NEW t \in Index, NEW h \in Index, t # h, NEW p \in Between(t, h),
         NEW b \in Blocks, NEW c, NEW q, Replans(b, h, p, c, q),
         NEW D, ToEnd(D, Between(t, h), b, h),
         \A i \in Between(t, h) \ {t} : b[i].entry <= D[i]
  PROVE  /\ ToEnd(D, Between(t, h), c, h)
         /\ \A i \in Between(t, h) \ {t} : c[i].entry <= D[i]
<1>1. p \in Index /\ Between(t, h) \subseteq Index
  BY DEF Between
<1>2. Reach(h, p) \subseteq Between(t, h) \ {t}
  BY BetweenReach
<1>3. ToEnd(D, Reach(h, p), b, h)
  BY <1>2 DEF ToEnd
<1>4. \A i \in Reach(h, p) : c[i].entry <= D[i]
  BY <1>1, <1>2, <1>3, ReplansStop
<1>5. /\ \A i \in Index : SameBut(b[i], c[i])
      /\ \A i \in Index \ Reach(h, p) : c[i] = b[i]
  BY <1>1, ReplansWithin
<1>6. ToEnd(D, Between(t, h), c, h)
  BY <1>1, <1>5 DEF ToEnd, SameBut
<1>7. QED
  BY <1>1, <1>4, <1>5, <1>6

-----------------------------------------------------------------------------
(* The invariant behind the smooth motion. *)

\* An empty ring is a machine at rest.
Rested == IsEmpty => prep.speed = 0 /\ prep.exit = 0 /\ ~overridden

\* The queue is long enough to stop, whatever an override did to the plan.
StopsWithin(D) ==
  /\ ToEnd(D, Queued, block, head)
  /\ \A i \in Queued \ {tail} : block[i].entry <= D[i]
  /\ ~IsEmpty => /\ TailSpeed <= D[tail]
                 /\ ~prep.loaded /\ ~prep.recalculate => prep.exit <= D[tail]
CanStop == \E D : StopsWithin(D)

\* During a hold a block brakes to its end or to rest.
HoldBrakes ==
  prep.loaded /\ Hold => prep.exit = (IF block[tail].dist >= prep.speed THEN 0
                                      ELSE prep.speed - block[tail].dist)

\* The planner remembers the speed of the newest block.
LastNominal ==
  ~IsEmpty => prevNominal = NominalSpeed(block[PrevIndex(head)], feedOvr, rapidOvr)

\* Without an override no block is planned or executed too fast.
NotTooFast ==
  ~overridden /\ ~IsEmpty => /\ \A i \in Queued : block[i].maxEntry <= Limit(block[i])
                             /\ \A i \in Queued \ {tail} : block[i].maxEntry <= Limit(block[PrevIndex(i)])
                             /\ TailSpeed <= Limit(block[tail])

\* Without an override every block can brake and accelerate to its exit speed,
\* the executing one from the speed it has; in a hold it has braked below it.
Smooth ==
  ~overridden =>
    /\ \A i \in Queued \ {tail} : Brakes(block, i, head) /\ Speeds(block, i, head)
    /\ ~IsEmpty => /\ TailSpeed <= ExitSpeed(block) + block[tail].dist
                   /\ ~Hold => ExitSpeed(block) <= TailSpeed + block[tail].dist

\* A block that follows on another starts with the speed the other ended with.
NextStart ==
  ~overridden /\ ~IsEmpty /\ ~prep.loaded /\ ~prep.recalculate =>
    /\ prep.exit = prep.speed /\ prep.exit <= block[tail].entry
    /\ ~Hold => prep.exit = block[tail].entry

\* Without an override no block is braked for one.
BrakesForOverride == ~overridden /\ prep.loaded => ~prep.decelOverride

\* A hold ends within a block, which is taken up again.
EndsInBlock == "end" \in stepControl => prep.loaded \/ prep.recalculate

\* All of it.
MotionInv == /\ PlannerInv
             /\ Rested
             /\ CanStop
             /\ HoldBrakes
             /\ LastNominal
             /\ NotTooFast
             /\ Smooth
             /\ NextStart
             /\ BrakesForOverride
             /\ EndsInBlock

\* The machine is at rest in front of an empty ring.
THEOREM MotionInvInit ==
  ASSUME Init
  PROVE  MotionInv
<1>1. PlannerInv
  BY PlannerInvInit
<1>2. IsEmpty /\ ~prep.loaded /\ prep.speed = 0 /\ prep.exit = 0 /\ ~overridden /\ stepControl = {}
  BY DEF Init, PrepReset, IsEmpty
<1>3. Queued = {}
  BY <1>1, <1>2, QueuedIs, BetweenNone, TypesUsed DEF IsEmpty, PlannerInv
<1>4. CanStop
  <2>1. StopsWithin([i \in Index |-> 0])
    BY <1>2, <1>3 DEF StopsWithin, ToEnd
  <2>2. QED
    BY <2>1 DEF CanStop
<1>5. QED
  BY <1>1, <1>2, <1>3, <1>4 DEF MotionInv, Rested, HoldBrakes, LastNominal, NotTooFast, Smooth, NextStart,
     BrakesForOverride, EndsInBlock

\* The limits are numbers.
LEMMA LimitNat ==
  ASSUME TypeOK, NEW b \in Block
  PROVE  Limit(b) \in Nat
  BY TypesUsed, SpeedsNat DEF Limit

\* The limit depends on the rate of a block and the overrides alone.
LEMMA LimitSame ==
  ASSUME NEW b, NEW c, SameBut(b, c)
  PROVE  Limit(b) = Limit(c)
  BY DEF SameBut, Limit, NominalSpeed

\* The speed limits of a new line.
LEMMA LineNominal ==
  ASSUME TypeOK, NEW line \in Lines, BufferLine(line)
  PROVE  LastNominal'
<1>1. PICK new \in Block, added \in Blocks, b \in Blocks :
           /\ added[head] = new
           /\ b = (IF TellsStepper(nextHead, planned) THEN EntryNow(added) ELSE added)
           /\ Replans(b, nextHead, planned, block', planned')
           /\ prevNominal' = NominalSpeed(new, feedOvr, rapidOvr)
  BY BufferLineIs
<1>2. /\ head \in Index /\ nextHead \in Index /\ planned \in Index /\ PrevIndex(nextHead) = head
      /\ head' = nextHead /\ feedOvr' = feedOvr /\ rapidOvr' = rapidOvr
  BY TypesUsed, Around DEF BufferLine
<1>3. SameBut(added[head], b[head])
  BY <1>1, <1>2, EntryNowIs DEF SameBut
<1>4. SameBut(b[head], block'[head])
  BY <1>1, <1>2, ReplansWithin
<1>5. NominalSpeed(block'[head], feedOvr, rapidOvr) = NominalSpeed(new, feedOvr, rapidOvr)
  BY <1>1, <1>3, <1>4 DEF SameBut, NominalSpeed
<1>6. QED
  BY <1>1, <1>2, <1>5 DEF LastNominal

\* The first line of an empty ring keeps the motion invariant.
LEMMA FirstLineKeeps ==
  ASSUME MotionInv, NEW line \in Lines, BufferLine(line), IsEmpty
  PROVE  MotionInv'
<1>1. /\ PlannerInv /\ TypeOK /\ Rested /\ EndsInBlock
  BY DEF MotionInv, PlannerInv
<1>2. /\ PlannerInv' /\ TypeOK'
  BY <1>1, BufferLineKeeps DEF PlannerInv
<1>3. /\ prep' = prep /\ ~prep.loaded /\ ~prep.recalculate
      /\ Queued' = {tail} /\ tail' = tail /\ head' = NextIndex(tail)
      /\ block' \in Blocks /\ block'[tail].entry = 0 /\ block'[tail].maxEntry = 0
  BY <1>1, FirstLine
<1>4. tail \in Index /\ NextIndex(tail) # tail
  BY <1>1, TypesUsed, Around
<1>5. /\ prep.speed = 0 /\ prep.exit = 0 /\ ~overridden /\ overridden' = overridden
      /\ stepControl' = stepControl
  BY <1>1 DEF Rested, BufferLine
<1>6. block'[tail] \in Block /\ block'[tail].dist \in Nat
  BY <1>3, <1>4 DEF Blocks, Block
<1>7. ~IsEmpty' /\ TailSpeed' = 0 /\ ExitSpeed(block)' = 0
  BY <1>3, <1>4 DEF IsEmpty, TailSpeed, ExitSpeed
<1>8. CanStop'
  <2>1. PICK D : D = [i \in Index |-> block'[tail].dist]
    OBVIOUS
  <2>2. D \in [Index -> Nat] /\ D[tail] = block'[tail].dist
    BY <1>4, <1>6, <2>1
  <2>3. ToEnd(D, {tail}, block', NextIndex(tail))
    BY <1>4, <1>6, <2>2 DEF ToEnd
  <2>4. StopsWithin(D)'
    BY <1>3, <1>5, <1>6, <1>7, <2>2, <2>3 DEF StopsWithin
  <2>5. QED
    BY <2>4 DEF CanStop
<1>9. NotTooFast'
  <2>1. Limit(block[tail])' \in Nat
    <3>1. Limit(block[tail])' = Limit(block'[tail])
      BY <1>3 DEF Limit, BufferLine
    <3>2. QED
      BY <1>1, <1>6, <3>1, LimitNat
  <2>2. QED
    BY <1>3, <1>7, <2>1 DEF NotTooFast
<1>10. LastNominal'
  BY <1>1, LineNominal
<1>11. QED
  BY <1>1, <1>2, <1>3, <1>5, <1>6, <1>7, <1>8, <1>9, <1>10
     DEF MotionInv, Rested, HoldBrakes, Smooth, NextStart, BrakesForOverride, EndsInBlock

\* A step of the planner that leaves the machine its speed: either nothing
\* happens to the executing block, or the stepper is told to take it up again.
PrepKept ==
  /\ tail' = tail /\ prep'.speed = prep.speed /\ prep'.exit = prep.exit /\ TailSpeed' = TailSpeed
  /\ prep'.loaded => prep' = prep /\ block'[tail] = block[tail]
  /\ (prep'.loaded \/ prep'.recalculate) <=> (prep.loaded \/ prep.recalculate)
  /\ ~prep'.loaded /\ ~prep'.recalculate => block'[tail].entry = block[tail].entry

\* Telling the stepper to start over at its speed changes no speed.
LEMMA ToldKeeps ==
  ASSUME TypeOK, tail' = tail, prep' = Told, block'[tail].entry = TailSpeed
  PROVE  PrepKept
<1>1. /\ ~Told.loaded /\ (Told.recalculate <=> prep.recalculate \/ prep.loaded)
      /\ Told.speed = prep.speed /\ Told.exit = prep.exit
  BY ToldIs
<1>2. TailSpeed' = block'[tail].entry
  BY <1>1 DEF TailSpeed
<1>3. QED
  BY <1>1, <1>2 DEF PrepKept, TailSpeed

\* Leaving the stepper alone changes no speed.
LEMMA KeptAsIs ==
  ASSUME tail' = tail, prep' = prep, block'[tail] = block[tail]
  PROVE  PrepKept
  BY DEF PrepKept, TailSpeed

\* What such a step means for the parts of the invariant about the stepper.
LEMMA KeptParts ==
  ASSUME MotionInv, PrepKept, overridden' = overridden \/ overridden', ~IsEmpty,
         prep.decelOverride = prep'.decelOverride
  PROVE  /\ Hold' = Hold => HoldBrakes' /\ NextStart'
         /\ BrakesForOverride'
         /\ stepControl' = stepControl => EndsInBlock'
<1>1. HoldBrakes /\ NextStart /\ BrakesForOverride /\ EndsInBlock
  BY DEF MotionInv
<1>2. ASSUME Hold' = Hold PROVE HoldBrakes'
  BY <1>1, <1>2 DEF PrepKept, HoldBrakes
<1>3. ASSUME Hold' = Hold PROVE NextStart'
  BY <1>1, <1>3 DEF PrepKept, NextStart
<1>4. BrakesForOverride'
  BY <1>1 DEF PrepKept, BrakesForOverride
<1>5. stepControl' = stepControl => EndsInBlock'
  BY <1>1 DEF PrepKept, EndsInBlock
<1>6. QED
  BY <1>2, <1>3, <1>4, <1>5

\* A line behind others keeps the motion invariant.
LEMMA NextLineKeeps ==
  ASSUME MotionInv, NEW line \in Lines, BufferLine(line), ~IsEmpty
  PROVE  MotionInv'
<1>1. /\ PlannerInv /\ TypeOK /\ PlanWithinQueue
  BY DEF MotionInv, PlannerInv
<1>2. PlannerInv' /\ block' \in Blocks
  BY <1>1, BufferLineKeeps DEF PlannerInv, TypeOK, Blocks
<1>3. PICK b : LineRing(b)
  BY <1>1, NextLineRing
<1>4. /\ tail \in Index /\ head \in Index /\ nextHead = NextIndex(head) /\ nextHead \in Index /\ planned \in Index
      /\ head # tail /\ nextHead # head
  BY <1>1, TypesUsed, Around DEF IsEmpty
<1>5. Queued = Between(tail, head) /\ Queued \subseteq Index
  BY QueuedIs DEF Between
<1>6. /\ overridden' = overridden /\ stepControl' = stepControl /\ feedOvr' = feedOvr /\ rapidOvr' = rapidOvr
      /\ Hold' = Hold
  BY DEF BufferLine, Hold
<1>7. /\ b \in Blocks /\ Replans(b, nextHead, planned, block', planned')
      /\ tail' = tail /\ head' = nextHead /\ nextHead # tail
      /\ Queued' = Queued \cup {head} /\ Queued' = Between(tail, nextHead) /\ head \notin Queued
      /\ planned \in Queued /\ tail \in Queued
      /\ \A i \in Queued \ {tail} : b[i] = block[i]
      /\ b[head].entry = 0 /\ b[head].maxEntry <= Limit(b[head]) /\ b[head].maxEntry <= Square(prevNominal)
      /\ SameBut(block[tail], b[tail]) /\ block'[tail] = b[tail]
  BY <1>3 DEF LineRing
<1>8. PrepKept /\ prep.decelOverride = prep'.decelOverride
  <2>1. CASE planned = tail /\ prep' = Told /\ b[tail].entry = TailSpeed
    BY <1>1, <1>7, <2>1, ToldKeeps, ToldIs
  <2>2. CASE planned # tail /\ prep' = prep /\ b[tail] = block[tail]
    BY <1>7, <2>2, KeptAsIs
  <2>3. QED
    BY <1>3, <2>1, <2>2 DEF LineRing
<1>9. HoldBrakes' /\ NextStart' /\ BrakesForOverride' /\ EndsInBlock'
  BY <1>6, <1>8, KeptParts
<1>10. ~IsEmpty' /\ TailSpeed' = TailSpeed
  BY <1>7, <1>8 DEF IsEmpty, PrepKept
<1>11. \A i \in Index : SameBut(b[i], block'[i])
  BY <1>4, <1>7, ReplansWithin
<1>12. \A i \in Queued : SameBut(block[i], b[i])
  BY <1>7 DEF SameBut
<1>13. NotTooFast'
  <2>1. SUFFICES ASSUME ~overridden
                 PROVE  /\ \A i \in Queued' : block'[i].maxEntry <= Limit(block[i])'
                        /\ \A i \in Queued' \ {tail} : block'[i].maxEntry <= Limit(block[PrevIndex(i)])'
                        /\ TailSpeed <= Limit(block[tail])'
    BY <1>6, <1>7, <1>10 DEF NotTooFast
  <2>2. ASSUME NEW i \in Index PROVE Limit(block[i])' = Limit(b[i]) /\ b[i].maxEntry = block'[i].maxEntry
    <3>1. Limit(block[i])' = Limit(block'[i])
      BY <1>6 DEF Limit
    <3>2. QED
      BY <1>11, <3>1, LimitSame DEF SameBut
  <2>3. ASSUME NEW i \in Queued PROVE Limit(b[i]) = Limit(block[i]) /\ block[i].maxEntry = b[i].maxEntry
    BY <1>12, LimitSame DEF SameBut
  <2>4. /\ \A i \in Queued : block[i].maxEntry <= Limit(block[i])
        /\ \A i \in Queued \ {tail} : block[i].maxEntry <= Limit(block[PrevIndex(i)])
        /\ TailSpeed <= Limit(block[tail])
    BY <2>1 DEF MotionInv, NotTooFast
  <2>5. Limit(block[tail])' = Limit(block[tail])
    BY <1>4, <1>7, <2>2, <2>3
  <2>6. PrevIndex(head) \in Queued /\ Square(prevNominal) = Limit(block[PrevIndex(head)])
    <3>1. PrevIndex(head) \in Queued
      BY <1>4, <1>5, BetweenIs
    <3>2. QED
      BY <3>1 DEF MotionInv, LastNominal, Limit
  <2>7. ASSUME NEW i \in Queued' \ {tail} PROVE block'[i].maxEntry <= Limit(block[PrevIndex(i)])'
    <3>1. PICK j : j = PrevIndex(i)
      OBVIOUS
    <3>2. j \in Queued /\ b[i].maxEntry <= Limit(block[j])
      <4>1. CASE i = head
        BY <1>7, <2>6, <3>1, <4>1
      <4>2. CASE i # head
        <5>1. i \in Queued \ {tail}
          BY <1>7, <2>7, <4>2
        <5>2. j \in Queued
          BY <1>4, <1>5, <3>1, <5>1, BetweenIs
        <5>3. QED
          BY <1>7, <2>4, <3>1, <5>1, <5>2
      <4>3. QED
        BY <4>1, <4>2
    <3>3. i \in Index /\ j \in Index
      BY <1>4, <1>5, <1>7, <3>2
    <3>4. Limit(block[j])' = Limit(block[j]) /\ b[i].maxEntry = block'[i].maxEntry
      BY <2>2, <2>3, <3>2, <3>3
    <3>5. QED
      BY <3>1, <3>2, <3>4
  <2>8. \A i \in Queued' : block'[i].maxEntry <= Limit(block[i])'
    BY <1>4, <1>5, <1>7, <2>2, <2>3, <2>4
  <2>9. QED
    BY <2>4, <2>5, <2>7, <2>8
<1>14. \A i \in Queued : Exit(b, i, nextHead) = Exit(block, i, head)
  <2>1. ASSUME NEW i \in Queued PROVE Exit(b, i, nextHead) = Exit(block, i, head)
    <3>1. i \in Index /\ i # head /\ NextIndex(i) # nextHead
      BY <1>4, <1>5, <1>7, NextInjective
    <3>2. CASE NextIndex(i) = head
      BY <1>4, <1>7, <3>2 DEF Exit
    <3>3. CASE NextIndex(i) # head
      <4>1. i # PrevIndex(head)
        BY <1>4, <3>3, Around
      <4>2. NextIndex(i) \in Queued \ {tail}
        BY <1>4, <1>5, <4>1, BetweenIs
      <4>3. QED
        BY <1>7, <3>1, <3>3, <4>2 DEF Exit
    <3>4. QED
      BY <3>2, <3>3
  <2>2. QED
    BY <2>1
<1>15. Smooth'
  <2>1. SUFFICES ASSUME ~overridden
                 PROVE  /\ \A i \in Queued' \ {tail} : Brakes(block', i, nextHead) /\ Speeds(block', i, nextHead)
                        /\ TailSpeed <= Exit(block', tail, nextHead) + block'[tail].dist
                        /\ ~Hold => Exit(block', tail, nextHead) <= TailSpeed + block'[tail].dist
    BY <1>6, <1>7, <1>10 DEF Smooth, ExitSpeed, Exit, Brakes, Speeds
  <2>2. /\ \A i \in Queued \ {tail} : Brakes(block, i, head) /\ Speeds(block, i, head)
        /\ TailSpeed <= Exit(block, tail, head) + block[tail].dist
        /\ ~Hold => Exit(block, tail, head) <= TailSpeed + block[tail].dist
    BY <2>1 DEF MotionInv, Smooth, ExitSpeed, Exit
  <2>3. ASSUME NEW i \in Queued \ {tail}
        PROVE  Brakes(b, i, nextHead) /\ Speeds(b, i, nextHead) /\ b[i].entry <= b[i].maxEntry
    <3>1. b[i] = block[i] /\ Exit(b, i, nextHead) = Exit(block, i, head)
      BY <1>7, <1>14
    <3>2. block[i].entry <= block[i].maxEntry
      BY <1>1 DEF PlanWithinQueue
    <3>3. QED
      BY <2>2, <3>1, <3>2 DEF Brakes, Speeds
  <2>4. Brakes(b, head, nextHead) /\ Speeds(b, head, nextHead) /\ b[head].entry <= b[head].maxEntry
    <3>1. Exit(b, head, nextHead) = 0 /\ b[head].dist \in Nat /\ b[head].maxEntry \in Nat
      BY <1>4, <1>7, ExitNat DEF Exit
    <3>2. QED
      BY <1>7, <3>1 DEF Brakes, Speeds
  <2>5. block'[tail].dist = block[tail].dist /\ b[tail].dist = block[tail].dist
    BY <1>7 DEF SameBut
  <2>6. \A i \in Between(tail, nextHead) \ {tail} :
           Brakes(b, i, nextHead) /\ Speeds(b, i, nextHead) /\ b[i].entry <= b[i].maxEntry
    BY <1>7, <2>3, <2>4
  <2>7. planned \in Between(tail, nextHead)
    BY <1>7
  <2>8. CASE planned = tail /\ b[tail].entry = TailSpeed
    <3>1. Brakes(b, tail, nextHead)
      BY <1>7, <1>14, <2>2, <2>5, <2>8 DEF Brakes
    <3>2. /\ \A i \in Between(tail, nextHead) \ {tail} : Brakes(block', i, nextHead) /\ Speeds(block', i, nextHead)
          /\ Brakes(block', tail, nextHead) /\ Speeds(block', tail, nextHead)
      BY <1>4, <1>7, <2>6, <2>7, <2>8, <3>1, QueueSmooth
    <3>3. block'[tail].entry = TailSpeed
      BY <1>7, <2>8
    <3>4. QED
      BY <1>7, <3>2, <3>3 DEF Brakes, Speeds
  <2>9. CASE planned # tail
    <3>1. /\ \A i \in Between(tail, nextHead) \ {tail} : Brakes(block', i, nextHead) /\ Speeds(block', i, nextHead)
          /\ Exit(block', tail, nextHead) = Exit(b, tail, nextHead)
      BY <1>4, <1>7, <2>6, <2>7, <2>9, QueueSmooth
    <3>2. QED
      BY <1>7, <1>14, <2>2, <2>5, <3>1
  <2>10. QED
    BY <1>3, <2>8, <2>9 DEF LineRing
<1>16. CanStop'
  <2>1. PICK D : StopsWithin(D)
    BY DEF MotionInv, CanStop
  <2>2. /\ D \in [Index -> Nat]
        /\ \A i \in Queued : D[i] = (IF NextIndex(i) = head THEN 0 ELSE D[NextIndex(i)]) + block[i].dist
        /\ \A i \in Queued \ {tail} : block[i].entry <= D[i]
        /\ TailSpeed <= D[tail]
        /\ ~prep.loaded /\ ~prep.recalculate => prep.exit <= D[tail]
    BY <2>1 DEF StopsWithin, ToEnd
  <2>3. PICK d \in Nat : d = b[head].dist
    BY <1>4, <1>7, ExitNat
  <2>4. PICK E : E = [i \in Index |-> IF i = head THEN d ELSE D[i] + d]
    OBVIOUS
  <2>5. E \in [Index -> Nat] /\ E[head] = d /\ \A i \in Index \ {head} : E[i] = D[i] + d
    BY <1>4, <2>2, <2>3, <2>4
  <2>6. ASSUME NEW i \in Between(tail, nextHead)
        PROVE  E[i] = (IF NextIndex(i) = nextHead THEN 0 ELSE E[NextIndex(i)]) + b[i].dist
    <3>1. CASE i = head
      BY <1>4, <2>3, <2>5, <3>1
    <3>2. CASE i # head
      <4>1. i \in Queued /\ i \in Index
        BY <1>5, <1>7, <3>2
      <4>2. NextIndex(i) \in Index /\ NextIndex(i) # nextHead
        BY <1>4, <3>2, <4>1, NextInjective, Around
      <4>3. b[i].dist = block[i].dist /\ block[i].dist \in Nat
        BY <1>1, <1>12, <4>1, TypesUsed, ExitNat DEF SameBut
      <4>4. D[i] \in Nat /\ D[NextIndex(i)] \in Nat
        BY <2>2, <4>1, <4>2
      <4>5. D[i] = (IF NextIndex(i) = head THEN 0 ELSE D[NextIndex(i)]) + block[i].dist
        BY <2>2, <4>1
      <4>6. E[i] = D[i] + d
        BY <2>5, <3>2, <4>1
      <4>7. E[NextIndex(i)] = (IF NextIndex(i) = head THEN 0 ELSE D[NextIndex(i)]) + d
        BY <2>5, <4>2
      <4>8. QED
        BY <4>2, <4>3, <4>4, <4>5, <4>6, <4>7
    <3>3. QED
      BY <3>1, <3>2
  <2>7. ToEnd(E, Between(tail, nextHead), b, nextHead)
    BY <2>5, <2>6 DEF ToEnd
  <2>8. ASSUME NEW i \in Between(tail, nextHead) \ {tail} PROVE b[i].entry <= E[i]
    <3>1. CASE i = head
      BY <1>7, <2>5, <3>1
    <3>2. CASE i # head
      <4>1. i \in Queued \ {tail} /\ i \in Index
        BY <1>5, <1>7, <3>2
      <4>2. b[i].entry <= D[i] /\ D[i] \in Nat /\ E[i] = D[i] + d /\ b[i].entry \in Nat
        BY <1>7, <2>2, <2>5, <3>2, <4>1, ExitNat
      <4>3. QED
        BY <4>2
    <3>3. QED
      BY <3>1, <3>2
  <2>9. /\ ToEnd(E, Between(tail, nextHead), block', nextHead)
        /\ \A i \in Between(tail, nextHead) \ {tail} : block'[i].entry <= E[i]
    <3>1. planned \in Between(tail, nextHead)
      BY <1>7
    <3>2. QED
      BY <1>4, <1>7, <2>7, <2>8, <3>1, QueueStop
  <2>10. TailSpeed <= E[tail] /\ (~prep.loaded /\ ~prep.recalculate => prep.exit <= E[tail])
    <3>1. E[tail] = D[tail] + d /\ D[tail] \in Nat
      BY <1>4, <2>2, <2>5
    <3>2. TailSpeed \in Nat /\ prep.exit \in Nat
      BY <1>1, <1>4, TypesUsed, ExitNat DEF TailSpeed
    <3>3. QED
      BY <2>2, <3>1, <3>2
  <2>11. StopsWithin(E)'
    BY <1>7, <1>8, <1>10, <2>9, <2>10 DEF StopsWithin, PrepKept
  <2>12. QED
    BY <2>11 DEF CanStop
<1>17. LastNominal'
  BY <1>1, LineNominal
<1>18. QED
  BY <1>2, <1>9, <1>10, <1>13, <1>15, <1>16, <1>17 DEF MotionInv, Rested

\* With an empty ring there is nothing to keep but the rest.
LEMMA EmptyKeeps ==
  ASSUME MotionInv, PlannerInv', IsEmpty, prep' = Told, tail' = tail, head' = head,
         stepControl' \subseteq stepControl, ~overridden'
  PROVE  MotionInv'
<1>1. TypeOK /\ LoadedQueued /\ TakenUpAgain /\ Rested /\ EndsInBlock
  BY DEF MotionInv, PlannerInv
<1>2. ~prep.loaded /\ ~prep.recalculate /\ prep.speed = 0 /\ prep.exit = 0
  BY <1>1 DEF LoadedQueued, TakenUpAgain, Rested
<1>3. ~prep'.loaded /\ ~prep'.recalculate /\ prep'.speed = 0 /\ prep'.exit = 0
  BY <1>1, <1>2, ToldIs
<1>4. IsEmpty' /\ "end" \notin stepControl'
  BY <1>1, <1>2 DEF IsEmpty, EndsInBlock
<1>5. Queued' = {}
  <2>1. Queued' = Between(tail, tail)
    BY DEF Queued, Between, IsEmpty
  <2>2. QED
    BY <1>1, <2>1, BetweenNone, TypesUsed
<1>6. CanStop'
  <2>1. PICK D : D = [i \in Index |-> 0]
    OBVIOUS
  <2>2. StopsWithin(D)'
    BY <1>4, <1>5, <2>1 DEF StopsWithin, ToEnd
  <2>3. QED
    BY <2>2 DEF CanStop
<1>7. QED
  BY <1>3, <1>4, <1>5, <1>6 DEF MotionInv, Rested, HoldBrakes, LastNominal, NotTooFast, Smooth, NextStart,
     BrakesForOverride, EndsInBlock

\* The executing block starts over at the speed it has: the rest of the queue
\* is what it was.
LEMMA EntryNowQueue ==
  ASSUME TypeOK, ~IsEmpty, NEW b \in Blocks,
         \A i \in Index : b[i].entry = block[i].entry /\ b[i].dist = block[i].dist
  PROVE  /\ EntryNow(b) \in Blocks
         /\ EntryNow(b)[tail].entry = TailSpeed
         /\ \A i \in Index : /\ EntryNow(b)[i].dist = block[i].dist
                             /\ EntryNow(b)[i].maxEntry = b[i].maxEntry
         /\ \A i \in Queued \ {tail} : EntryNow(b)[i].entry = block[i].entry
         /\ \A i \in Queued : Exit(EntryNow(b), i, head) = Exit(block, i, head)
<1>1. PICK c : c = EntryNow(b)
  OBVIOUS
<1>2. /\ c \in Blocks /\ \A i \in Index \ {tail} : c[i] = b[i]
      /\ \A i \in Index : SameBut(b[i], c[i])
      /\ c[tail].entry = (IF prep.loaded THEN prep.speed ELSE b[tail].entry)
  BY <1>1, EntryNowIs
<1>3. tail \in Index /\ head \in Index /\ tail # head /\ Queued = Between(tail, head)
  BY TypesUsed, QueuedIs DEF IsEmpty
<1>4. Queued \subseteq Index
  BY <1>3, BetweenIs
<1>5. ASSUME NEW i \in Queued PROVE Exit(c, i, head) = Exit(block, i, head)
  <2>1. CASE NextIndex(i) = head
    BY <2>1 DEF Exit
  <2>2. CASE NextIndex(i) # head
    <3>1. i # PrevIndex(head)
      BY <1>3, <2>2, Around
    <3>2. NextIndex(i) \in Queued \ {tail}
      BY <1>3, <3>1, BetweenIs
    <3>3. c[NextIndex(i)].entry = block[NextIndex(i)].entry
      BY <1>2, <1>4, <3>2
    <3>4. QED
      BY <2>2, <3>3 DEF Exit
  <2>3. QED
    BY <2>1, <2>2
<1>6. c[tail].entry = TailSpeed
  BY <1>2, <1>3 DEF TailSpeed
<1>7. \A i \in Index : c[i].dist = block[i].dist /\ c[i].maxEntry = b[i].maxEntry
  BY <1>2 DEF SameBut
<1>8. \A i \in Queued \ {tail} : c[i].entry = block[i].entry
  BY <1>2, <1>4
<1>9. QED
  BY <1>1, <1>2, <1>5, <1>6, <1>7, <1>8

\* However the speeds are planned again, the queue stays long enough to stop.
LEMMA ReinitializeStops ==
  ASSUME MotionInv, ~IsEmpty, NEW b \in Blocks, Reinitialize(b),
         \A i \in Index : b[i].entry = block[i].entry /\ b[i].dist = block[i].dist
  PROVE  /\ CanStop' /\ PrepKept /\ ~IsEmpty' /\ Queued' = Queued
         /\ ~prep'.loaded /\ prep'.decelOverride = prep.decelOverride
         /\ \A i \in Index : SameBut(b[i], block'[i])
<1>1. TypeOK
  BY DEF MotionInv, PlannerInv
<1>2. PICK c : c = EntryNow(b)
  OBVIOUS
<1>3. /\ c \in Blocks /\ c[tail].entry = TailSpeed
      /\ \A i \in Index : c[i].dist = block[i].dist
      /\ \A i \in Queued \ {tail} : c[i].entry = block[i].entry
  BY <1>1, <1>2, EntryNowQueue
<1>4. /\ Replans(c, head, tail, block', planned')
      /\ prep' = Told /\ tail' = tail /\ head' = head
  BY <1>1, <1>2, ReinitializeIs
<1>5. tail \in Index /\ head \in Index /\ tail # head /\ Queued = Between(tail, head)
  BY <1>1, TypesUsed, QueuedIs DEF IsEmpty
<1>6. Queued \subseteq Index /\ tail \in Queued
  BY <1>5, BetweenIs
<1>7. Queued' = Queued /\ ~IsEmpty'
  BY <1>4, <1>5 DEF Queued, Between, IsEmpty
<1>8. PICK D : StopsWithin(D)
  BY DEF MotionInv, CanStop
<1>9. ToEnd(D, Queued, c, head)
  BY <1>3, <1>6, <1>8 DEF StopsWithin, ToEnd
<1>10. \A i \in Queued \ {tail} : c[i].entry <= D[i]
  BY <1>3, <1>8 DEF StopsWithin
<1>11. /\ ToEnd(D, Queued, block', head)
       /\ \A i \in Queued \ {tail} : block'[i].entry <= D[i]
  BY <1>3, <1>4, <1>5, <1>6, <1>9, <1>10, QueueStop
<1>12. block'[tail].entry = TailSpeed
  <2>1. tail \notin Reach(head, tail)
    BY <1>5, ReachIs
  <2>2. block'[tail] = c[tail]
    BY <1>3, <1>4, <1>5, <2>1, ReplansWithin
  <2>3. QED
    BY <1>3, <2>2
<1>13. PrepKept /\ ~prep'.loaded /\ prep'.decelOverride = prep.decelOverride
  BY <1>1, <1>4, <1>12, ToldKeeps, ToldIs
<1>14. StopsWithin(D)'
  BY <1>4, <1>7, <1>8, <1>11, <1>13 DEF StopsWithin, PrepKept
<1>15. \A i \in Index : SameBut(b[i], block'[i])
  <2>1. \A i \in Index : SameBut(c[i], block'[i])
    BY <1>3, <1>4, <1>5, ReplansWithin
  <2>2. \A i \in Index : SameBut(b[i], c[i])
    BY <1>1, <1>2, EntryNowIs
  <2>3. QED
    BY <2>1, <2>2 DEF SameBut
<1>16. QED
  BY <1>7, <1>13, <1>14, <1>15 DEF CanStop

\* Speeds that were planned again under the same overrides are allowed.
LEMMA LimitsKept ==
  ASSUME MotionInv, \A i \in Index : SameBut(block[i], block'[i]), TailSpeed' = TailSpeed,
         tail' = tail, head' = head, prevNominal' = prevNominal,
         feedOvr' = feedOvr, rapidOvr' = rapidOvr, overridden' = overridden
  PROVE  LastNominal' /\ NotTooFast'
<1>1. TypeOK /\ LastNominal /\ NotTooFast
  BY DEF MotionInv, PlannerInv
<1>2. tail \in Index /\ \A i \in Index : PrevIndex(i) \in Index
  BY <1>1, TypesUsed, Around
<1>3. IsEmpty' = IsEmpty /\ Queued' = Queued /\ Queued \subseteq Index
  BY DEF IsEmpty, Queued
<1>4. ASSUME NEW i \in Index
      PROVE  /\ Limit(block[i])' = Limit(block[i]) /\ block'[i].maxEntry = block[i].maxEntry
             /\ NominalSpeed(block[i], feedOvr, rapidOvr)' = NominalSpeed(block[i], feedOvr, rapidOvr)
  <2>1. NominalSpeed(block[i], feedOvr, rapidOvr)' = NominalSpeed(block'[i], feedOvr, rapidOvr)
    BY DEF NominalSpeed
  <2>2. SameBut(block[i], block'[i])
    OBVIOUS
  <2>3. NominalSpeed(block'[i], feedOvr, rapidOvr) = NominalSpeed(block[i], feedOvr, rapidOvr)
    BY <2>2 DEF SameBut, NominalSpeed
  <2>4. QED
    BY <2>1, <2>2, <2>3 DEF SameBut, Limit
<1>5. LastNominal'
  <2>1. PICK i \in Index : i = PrevIndex(head)
    BY <1>1, TypesUsed, Around
  <2>2. QED
    BY <1>1, <1>3, <1>4, <2>1 DEF LastNominal
<1>6. NotTooFast'
  <2>1. SUFFICES ASSUME ~overridden, ~IsEmpty
                 PROVE  /\ \A i \in Queued : block'[i].maxEntry <= Limit(block[i])'
                        /\ \A i \in Queued \ {tail} : block'[i].maxEntry <= Limit(block[PrevIndex(i)])'
                        /\ TailSpeed <= Limit(block[tail])'
    BY <1>3 DEF NotTooFast
  <2>2. /\ \A i \in Queued : block[i].maxEntry <= Limit(block[i])
        /\ \A i \in Queued \ {tail} : block[i].maxEntry <= Limit(block[PrevIndex(i)])
        /\ TailSpeed <= Limit(block[tail])
    BY <1>1, <2>1 DEF NotTooFast
  <2>3. Limit(block[tail])' = Limit(block[tail])
    BY <1>2, <1>4
  <2>4. ASSUME NEW i \in Queued \ {tail} PROVE block'[i].maxEntry <= Limit(block[PrevIndex(i)])'
    <3>1. PICK j \in Index : j = PrevIndex(i)
      BY <1>2, <1>3
    <3>2. Limit(block[j])' = Limit(block[j]) /\ block'[i].maxEntry = block[i].maxEntry
      BY <1>3, <1>4
    <3>3. QED
      BY <2>2, <3>1, <3>2
  <2>5. QED
    BY <1>3, <1>4, <2>2, <2>3, <2>4
<1>7. QED
  BY <1>5, <1>6

\* An override keeps the motion invariant.
LEMMA OverrideMoves ==
  ASSUME MotionInv, NEW o \in Overrides, Override(o[1], o[2])
  PROVE  MotionInv'
<1>1. PlannerInv /\ TypeOK
  BY DEF MotionInv, PlannerInv
<1>2. PlannerInv'
  BY <1>1, OverrideKeeps
<1>3. o[1] \in Nat /\ o[2] \in Nat
  BY PlannerAssumption
<1>4. PICK b : b = UpdatedProfile(block, o[1], o[2])
  OBVIOUS
<1>5. /\ b \in Blocks
      /\ \A i \in Index : b[i].entry = block[i].entry /\ b[i].dist = block[i].dist
      /\ \A i \in Index : b[i].rate = block[i].rate /\ b[i].rapid = block[i].rapid
  BY <1>1, <1>3, <1>4, ProfileIs
<1>6. Reinitialize(b) /\ stepControl' = stepControl /\ overridden' = ~IsEmpty
  BY <1>4 DEF Override
<1>7. CASE IsEmpty
  <2>1. prep' = Told /\ tail' = tail /\ head' = head
    BY <1>1, <1>5, <1>6, ReinitializeIs
  <2>2. QED
    BY <1>2, <1>6, <1>7, <2>1, EmptyKeeps
<1>8. CASE ~IsEmpty
  <2>1. /\ CanStop' /\ PrepKept /\ ~IsEmpty' /\ ~prep'.loaded
        /\ \A i \in Index : SameBut(b[i], block'[i])
    BY <1>5, <1>6, <1>8, ReinitializeStops
  <2>2. EndsInBlock'
    BY <1>6, <2>1 DEF MotionInv, EndsInBlock, PrepKept
  <2>3. overridden'
    BY <1>6, <1>8
  <2>4. LastNominal'
    <3>1. /\ prevNominal' = NominalSpeed(block[PrevIndex(head)], o[1], o[2])
          /\ feedOvr' = o[1] /\ rapidOvr' = o[2] /\ head' = head
      BY <1>8 DEF Override, Reinitialize
    <3>2. PICK i \in Index : i = PrevIndex(head)
      BY <1>1, TypesUsed, Around
    <3>3. block'[i].rate = block[i].rate /\ block'[i].rapid = block[i].rapid
      BY <1>5, <2>1 DEF SameBut
    <3>4. NominalSpeed(block'[i], o[1], o[2]) = NominalSpeed(block[i], o[1], o[2])
      BY <3>3 DEF NominalSpeed
    <3>5. QED
      BY <3>1, <3>2, <3>4 DEF LastNominal
  <2>5. QED
    BY <1>2, <2>1, <2>2, <2>3, <2>4 DEF MotionInv, Rested, HoldBrakes, NotTooFast, Smooth, NextStart,
       BrakesForOverride
<1>9. QED
  BY <1>7, <1>8

\* The end of a hold keeps the motion invariant.
LEMMA CycleStopMoves ==
  ASSUME MotionInv, CycleStop
  PROVE  MotionInv'
<1>1. PlannerInv /\ TypeOK /\ PlanWithinQueue
  BY DEF MotionInv, PlannerInv
<1>2. PlannerInv'
  BY <1>1, CycleStopKeeps
<1>3. block \in Blocks
  BY <1>1, TypesUsed
<1>4. /\ Reinitialize(block) /\ prevNominal' = prevNominal /\ feedOvr' = feedOvr /\ rapidOvr' = rapidOvr
      /\ overridden' = overridden /\ stepControl' = stepControl \ {"hold"}
      /\ "end" \in stepControl \/ IsEmpty
  BY DEF CycleStop
<1>5. /\ Replans(EntryNow(block), head, tail, block', planned')
      /\ prep' = Told /\ tail' = tail /\ head' = head
  BY <1>1, <1>3, <1>4, ReinitializeIs
<1>6. CASE IsEmpty
  BY <1>2, <1>4, <1>5, <1>6, EmptyKeeps DEF MotionInv, Rested
<1>7. CASE ~IsEmpty
  <2>1. PICK c : c = EntryNow(block)
    OBVIOUS
  <2>2. /\ c \in Blocks /\ c[tail].entry = TailSpeed
        /\ \A i \in Index : c[i].dist = block[i].dist /\ c[i].maxEntry = block[i].maxEntry
        /\ \A i \in Queued \ {tail} : c[i].entry = block[i].entry
        /\ \A i \in Queued : Exit(c, i, head) = Exit(block, i, head)
    BY <1>1, <1>3, <1>7, <2>1, EntryNowQueue
  <2>3. /\ CanStop' /\ PrepKept /\ ~IsEmpty' /\ Queued' = Queued
        /\ ~prep'.loaded /\ prep'.decelOverride = prep.decelOverride
    BY <1>3, <1>4, <1>7, ReinitializeStops
  <2>4. prep'.recalculate
    BY <1>4, <1>7, <2>3 DEF MotionInv, EndsInBlock, PrepKept
  <2>5. tail \in Index /\ head \in Index /\ tail # head /\ Queued = Between(tail, head)
    BY <1>1, <1>7, TypesUsed, QueuedIs DEF IsEmpty
  <2>6. tail \in Queued /\ Queued \subseteq Index
    BY <2>5, BetweenIs
  <2>7. TailSpeed' = TailSpeed
    BY <2>3 DEF PrepKept
  <2>8. \A i \in Index : SameBut(block[i], block'[i])
    BY <1>3, <1>4, <1>7, ReinitializeStops
  <2>9. LastNominal' /\ NotTooFast'
    BY <1>4, <1>5, <2>7, <2>8, LimitsKept
  <2>10. Smooth'
    <3>1. SUFFICES ASSUME ~overridden
                   PROVE  /\ \A i \in Queued \ {tail} : Brakes(block', i, head) /\ Speeds(block', i, head)
                          /\ TailSpeed <= Exit(block', tail, head) + block'[tail].dist
                          /\ Exit(block', tail, head) <= TailSpeed + block'[tail].dist
      BY <1>4, <1>5, <2>3, <2>7 DEF Smooth, ExitSpeed, Exit, Brakes, Speeds
    <3>2. /\ \A i \in Queued \ {tail} : Brakes(block, i, head)
          /\ TailSpeed <= Exit(block, tail, head) + block[tail].dist
      BY <1>7, <3>1 DEF MotionInv, Smooth, ExitSpeed, Exit
    <3>3. \A i \in Queued \ {tail} : Brakes(c, i, head) /\ c[i].entry <= c[i].maxEntry
      <4>1. \A i \in Queued \ {tail} : block[i].entry <= block[i].maxEntry
        BY <1>1 DEF PlanWithinQueue
      <4>2. QED
        BY <2>2, <2>6, <3>2, <4>1 DEF Brakes
    <3>4. Brakes(c, tail, head)
      BY <2>2, <2>5, <2>6, <3>2 DEF Brakes
    <3>5. /\ \A i \in Queued \ {tail} : Brakes(block', i, head) /\ Speeds(block', i, head)
          /\ block'[tail] = c[tail] /\ Brakes(block', tail, head) /\ Speeds(block', tail, head)
      BY <1>5, <2>1, <2>2, <2>5, <2>6, <3>3, <3>4, QueueSmooth
    <3>6. block'[tail].entry = TailSpeed
      BY <2>2, <3>5
    <3>7. QED
      BY <3>5, <3>6 DEF Brakes, Speeds
  <2>11. EndsInBlock' /\ BrakesForOverride' /\ HoldBrakes' /\ NextStart'
    BY <2>3, <2>4 DEF EndsInBlock, BrakesForOverride, HoldBrakes, NextStart
  <2>12. QED
    BY <1>2, <2>3, <2>9, <2>10, <2>11 DEF MotionInv, Rested
<1>8. QED
  BY <1>6, <1>7

\* A feed hold keeps the motion invariant.
LEMMA FeedHoldMoves ==
  ASSUME MotionInv, FeedHold
  PROVE  MotionInv'
<1>1. PlannerInv /\ TypeOK /\ PlanWithinQueue
  BY DEF MotionInv, PlannerInv
<1>2. PlannerInv'
  BY <1>1, FeedHoldKeeps
<1>3. /\ ~IsEmpty /\ block' = EntryNow(block) /\ prep' = Told
      /\ stepControl = {} /\ stepControl' = {"hold"}
      /\ tail' = tail /\ head' = head /\ prevNominal' = prevNominal
      /\ feedOvr' = feedOvr /\ rapidOvr' = rapidOvr
      /\ overridden' = overridden
  BY DEF FeedHold
<1>4. block \in Blocks /\ tail \in Index /\ head \in Index
  BY <1>1, TypesUsed
<1>5. /\ block' \in Blocks /\ block'[tail].entry = TailSpeed
      /\ \A i \in Index : block'[i].dist = block[i].dist /\ block'[i].maxEntry = block[i].maxEntry
      /\ \A i \in Queued \ {tail} : block'[i].entry = block[i].entry
      /\ \A i \in Queued : Exit(block', i, head) = Exit(block, i, head)
      /\ \A i \in Index : SameBut(block[i], block'[i])
  BY <1>1, <1>3, <1>4, EntryNowQueue, EntryNowIs
<1>6. PrepKept /\ ~prep'.loaded
  BY <1>1, <1>3, <1>5, ToldKeeps, ToldIs
<1>7. Queued' = Queued /\ Queued \subseteq Index /\ ~IsEmpty' /\ TailSpeed' = TailSpeed /\ tail \in Queued
  <2>1. Queued = Between(tail, head) /\ tail # head
    BY <1>3, QueuedIs DEF IsEmpty
  <2>2. QED
    BY <1>3, <1>4, <1>6, <2>1, BetweenIs DEF Queued, IsEmpty, PrepKept
<1>8. CanStop'
  <2>1. PICK D : StopsWithin(D)
    BY DEF MotionInv, CanStop
  <2>2. StopsWithin(D)'
    BY <1>3, <1>5, <1>6, <1>7, <2>1 DEF StopsWithin, ToEnd, PrepKept
  <2>3. QED
    BY <2>2 DEF CanStop
<1>9. LastNominal' /\ NotTooFast'
  BY <1>3, <1>5, <1>7, LimitsKept
<1>10. Smooth'
  <2>1. SUFFICES ASSUME ~overridden
                 PROVE  /\ \A i \in Queued \ {tail} : Brakes(block', i, head) /\ Speeds(block', i, head)
                        /\ TailSpeed <= Exit(block', tail, head) + block'[tail].dist
    <3>1. Hold'
      BY <1>3 DEF Hold
    <3>2. QED
      BY <1>3, <1>7, <3>1 DEF Smooth, ExitSpeed, Exit, Brakes, Speeds
  <2>2. /\ \A i \in Queued \ {tail} : Brakes(block, i, head) /\ Speeds(block, i, head)
        /\ TailSpeed <= Exit(block, tail, head) + block[tail].dist
    BY <1>3, <2>1 DEF MotionInv, Smooth, ExitSpeed, Exit
  <2>3. QED
    BY <1>4, <1>5, <1>7, <2>2 DEF Brakes, Speeds
<1>11. NextStart'
  <2>1. NextStart /\ Hold'
    BY <1>3 DEF MotionInv, Hold
  <2>2. QED
    BY <1>3, <1>6, <2>1 DEF NextStart, PrepKept
<1>12. QED
  BY <1>2, <1>3, <1>6, <1>7, <1>8, <1>9, <1>10, <1>11
     DEF MotionInv, Rested, HoldBrakes, BrakesForOverride, EndsInBlock

\* A cycle start keeps the motion invariant.
LEMMA CycleStartMoves ==
  ASSUME MotionInv, CycleStart
  PROVE  MotionInv'
<1>1. /\ UNCHANGED <<queue, prevNominal, feedOvr, rapidOvr, prep, overridden>>
      /\ stepControl' = {} /\ stepControl = {"end"}
  BY DEF CycleStart
<1>2. PlannerInv'
  BY <1>1 DEF queue, MotionInv, PlannerInv, TypeOK, PlanWithinQueue, Queued, LoadedQueued, TakenUpAgain,
              OverrideBrakes, ExitSpeedKnown, ExitSpeed, IsEmpty, Hold
<1>3. CanStop'
  <2>1. PICK D : StopsWithin(D)
    BY DEF MotionInv, CanStop
  <2>2. StopsWithin(D)'
    BY <1>1, <2>1 DEF queue, StopsWithin, ToEnd, Queued, IsEmpty, TailSpeed
  <2>3. QED
    BY <2>2 DEF CanStop
<1>4. Smooth'
  BY <1>1 DEF queue, MotionInv, Smooth, Queued, Brakes, Speeds, Exit, ExitSpeed, TailSpeed, IsEmpty, Hold
<1>5. NotTooFast' /\ LastNominal'
  BY <1>1 DEF queue, MotionInv, NotTooFast, LastNominal, Queued, TailSpeed, IsEmpty, Limit
<1>6. QED
  BY <1>1, <1>2, <1>3, <1>4, <1>5
     DEF queue, MotionInv, Rested, HoldBrakes, NextStart, BrakesForOverride, EndsInBlock, IsEmpty, Hold

\* A step that changes nothing keeps the motion invariant.
LEMMA StutterMoves ==
  ASSUME MotionInv, UNCHANGED vars
  PROVE  MotionInv'
<1>1. UNCHANGED vars
  OBVIOUS
<1>2. PlannerInv'
  BY PlannerInvStep DEF MotionInv
<1>3. CanStop'
  <2>1. PICK D : StopsWithin(D)
    BY DEF MotionInv, CanStop
  <2>2. StopsWithin(D)'
    BY <1>1, <2>1 DEF vars, queue, StopsWithin, ToEnd, Queued, IsEmpty, TailSpeed
  <2>3. QED
    BY <2>2 DEF CanStop
<1>4. Smooth'
  BY <1>1 DEF vars, queue, MotionInv, Smooth, Queued, Brakes, Speeds, Exit, ExitSpeed, TailSpeed, IsEmpty, Hold
<1>5. NotTooFast' /\ LastNominal'
  BY <1>1 DEF vars, queue, MotionInv, NotTooFast, LastNominal, Queued, TailSpeed, IsEmpty, Limit
<1>6. QED
  BY <1>1, <1>2, <1>3, <1>4, <1>5
     DEF vars, queue, MotionInv, Rested, HoldBrakes, NextStart, BrakesForOverride, EndsInBlock, IsEmpty, Hold

-----------------------------------------------------------------------------
(* Segments. *)

\* The speed with which the stepper cuts on, and the speed at which it arrives.
LEMMA CutMoves ==
  ASSUME MotionInv, ~IsEmpty
  PROVE  /\ Hold => Cut.exit = (IF block[tail].dist >= Cut.speed THEN 0
                                ELSE Cut.speed - block[tail].dist)
         /\ \A D : StopsWithin(D) => Cut.speed <= D[tail]
         /\ ~overridden => /\ ~Cut.decelOverride /\ Cut.speed = prep.speed
                           /\ Cut.speed <= TailSpeed /\ (~Hold => Cut.speed = TailSpeed)
<1>1. /\ PlannerInv /\ TypeOK /\ TakenUpAgain /\ HoldBrakes /\ NotTooFast /\ NextStart
      /\ BrakesForOverride
  BY DEF MotionInv, PlannerInv
<1>2. CASE prep.loaded
  <2>1. Cut = prep
    BY <1>2 DEF Cut
  <2>2. TailSpeed = prep.speed /\ prep.speed \in Nat
    BY <1>1, <1>2, TypesUsed DEF TailSpeed
  <2>3. \A D : StopsWithin(D) => Cut.speed <= D[tail]
    BY <2>1, <2>2 DEF StopsWithin
  <2>4. Hold => Cut.exit = (IF block[tail].dist >= Cut.speed THEN 0
                            ELSE Cut.speed - block[tail].dist)
    BY <1>1, <1>2, <2>1 DEF HoldBrakes
  <2>5. ~overridden => ~Cut.decelOverride
    BY <1>1, <1>2, <2>1 DEF BrakesForOverride
  <2>6. QED
    BY <2>1, <2>2, <2>3, <2>4, <2>5
<1>3. CASE ~prep.loaded
  <2>1. Cut = LoadBlock
    BY <1>3 DEF Cut
  <2>2. /\ LoadBlock.decelOverride => LoadBlock.speed > Limit(block[tail])
        /\ Hold => LoadBlock.exit = (IF block[tail].dist >= LoadBlock.speed THEN 0
                                     ELSE LoadBlock.speed - block[tail].dist)
        /\ LoadBlock.speed = (IF prep.recalculate THEN prep.speed
                              ELSE IF Hold \/ prep.decelOverride THEN prep.exit
                              ELSE block[tail].entry)
    BY <1>1, LoadBlockIs
  <2>3. TailSpeed = block[tail].entry /\ TailSpeed \in Nat /\ prep.speed \in Nat /\ prep.exit \in Nat
    <3>1. tail \in Index /\ block \in Blocks /\ prep.speed \in Nat /\ prep.exit \in Nat
      BY <1>1, TypesUsed
    <3>2. block[tail].entry \in Nat
      BY <3>1, ExitNat
    <3>3. QED
      BY <1>3, <3>1, <3>2 DEF TailSpeed
  <2>4. prep.recalculate => prep.speed = TailSpeed
    BY <1>1, <2>3 DEF TakenUpAgain
  <2>5. ~overridden /\ ~prep.recalculate =>
          prep.exit = prep.speed /\ prep.exit <= TailSpeed /\ (~Hold => prep.exit = TailSpeed)
    BY <1>1, <1>3, <2>3 DEF NextStart
  <2>6. ASSUME ~overridden
        PROVE  /\ LoadBlock.speed = prep.speed
               /\ LoadBlock.speed <= TailSpeed /\ (~Hold => LoadBlock.speed = TailSpeed)
    <3>1. CASE prep.recalculate
      BY <2>2, <2>3, <2>4, <3>1
    <3>2. CASE ~prep.recalculate
      BY <2>2, <2>3, <2>5, <2>6, <3>2
    <3>3. QED
      BY <3>1, <3>2
  <2>7. ASSUME ~overridden PROVE ~LoadBlock.decelOverride
    <3>1. TailSpeed <= Limit(block[tail])
      BY <1>1, <2>7 DEF NotTooFast
    <3>2. Limit(block[tail]) \in Nat
      BY <1>1, TypesUsed, LimitNat
    <3>3. LoadBlock.speed <= TailSpeed /\ LoadBlock.speed \in Nat
      BY <2>3, <2>6, <2>7
    <3>4. QED
      BY <2>2, <2>3, <3>1, <3>2, <3>3
  <2>8. ASSUME NEW D, StopsWithin(D) PROVE LoadBlock.speed <= D[tail]
    <3>1. TailSpeed <= D[tail] /\ (~prep.recalculate => prep.exit <= D[tail])
      BY <1>3, <2>8 DEF StopsWithin
    <3>2. QED
      BY <2>2, <2>3, <2>4, <3>1
  <2>9. QED
    BY <2>1, <2>2, <2>6, <2>7, <2>8
<1>4. QED
  BY <1>2, <1>3

\* One segment within a block: the speed follows a ramp, or it comes from above
\* and falls as fast as it can.
LEMMA SegmentSpeed ==
  ASSUME PlannerInv, NEW rest \in 0 .. block[tail].dist, PrepSegment(rest), rest > 0
  PROVE  LET d == block[tail].dist - rest
             limit == Limit(block[tail])
         IN \/ /\ prep'.speed = Cut.speed - d /\ d <= Cut.speed
               /\ \/ Hold \/ Cut.decelOverride
                  \/ Cut.speed > limit + d \/ Cut.speed > Cut.exit + block[tail].dist
            \/ /\ ~Hold /\ ~Cut.decelOverride
               /\ Cut.speed <= limit + d /\ Cut.speed <= Cut.exit + block[tail].dist
               /\ prep'.speed <= Cut.speed + d /\ prep'.speed <= limit /\ prep'.speed <= Cut.exit + rest
               /\ \/ prep'.speed = Cut.speed + d
                  \/ prep'.speed = limit
                  \/ prep'.speed = Cut.exit + rest
<1>1. PICK now \in Nat, d \in Nat, limit \in Nat :
         now = block[tail].dist /\ d = block[tail].dist - rest /\ limit = Limit(block[tail])
  BY PrepSegmentIs
<1>2. rest \in Nat /\ prep'.speed = SpeedAfter(Cut, limit, d, rest) /\ now = d + rest
  BY <1>1, PrepSegmentIs
<1>3. PICK v \in Nat, x \in Nat : v = Cut.speed /\ x = Cut.exit
  BY CutIs DEF PrepSet
<1>4. prep' \in PrepSet /\ (Hold => d <= v)
  BY <1>1, <1>3, PrepSegmentIs
<1>5. PICK w \in Nat : w = prep'.speed
  BY <1>4 DEF PrepSet
<1>6. CASE Hold \/ Cut.decelOverride \/ v > limit + d \/ v > x + d + rest
  <2>1. w = v - d
    BY <1>2, <1>3, <1>5, <1>6 DEF SpeedAfter, Hold
  <2>2. d <= v
    BY <1>5, <2>1
  <2>3. Hold \/ Cut.decelOverride \/ v > limit + d \/ v > x + now
    BY <1>2, <1>6
  <2>4. QED
    BY <1>1, <1>3, <1>5, <2>1, <2>2, <2>3
<1>7. CASE ~(Hold \/ Cut.decelOverride \/ v > limit + d \/ v > x + d + rest)
  <2>1. w = Least(Least(v + d, limit), x + rest)
    BY <1>2, <1>3, <1>5, <1>7 DEF SpeedAfter, Hold
  <2>2. /\ w <= v + d /\ w <= limit /\ w <= x + rest
        /\ w = v + d \/ w = limit \/ w = x + rest
    BY <1>2, <2>1 DEF Least
  <2>3. v <= limit + d /\ v <= x + now
    BY <1>2, <1>7
  <2>4. QED
    BY <1>1, <1>3, <1>5, <1>7, <2>2, <2>3
<1>8. QED
  BY <1>6, <1>7

\* The speed at the end of the block that is cut.
LEMMA CutExit ==
  ASSUME MotionInv, ~IsEmpty
  PROVE  /\ ExitSpeed(block) \in Nat /\ ExitSpeed(block) = Exit(block, tail, head)
         /\ ~Hold /\ ~Cut.decelOverride => Cut.exit = ExitSpeed(block)
         /\ Hold \/ Cut.decelOverride => Cut.speed <= Cut.exit + block[tail].dist
         /\ Hold => Cut.exit <= Cut.speed
         /\ Cut.speed \in Nat /\ Cut.exit \in Nat /\ block[tail].dist \in Nat
<1>1. PlannerInv /\ TypeOK
  BY DEF MotionInv, PlannerInv
<1>2. tail \in Index /\ head \in Index /\ block \in Blocks
  BY <1>1, TypesUsed
<1>3. PICK e \in Nat, now \in Nat : e = Exit(block, tail, head) /\ now = block[tail].dist
  BY <1>2, ExitNat
<1>4. PICK v \in Nat, x \in Nat : v = Cut.speed /\ x = Cut.exit
  BY <1>1, CutIs DEF PrepSet
<1>5. /\ Cut.decelOverride => ~Hold /\ v = x + now
      /\ ~Cut.decelOverride /\ ~Hold => x = ExitSpeed(block)
      /\ Hold => x = (IF now >= v THEN 0 ELSE v - now)
  BY <1>1, <1>3, <1>4, CutIs, CutMoves
<1>6. ExitSpeed(block) = e
  BY <1>3 DEF ExitSpeed, Exit
<1>7. (Hold => x <= v /\ v <= x + now) /\ (Cut.decelOverride => v <= x + now)
  BY <1>5
<1>8. QED
  BY <1>3, <1>4, <1>5, <1>6, <1>7

\* Without an override a segment never asks for more than the acceleration.
LEMMA SegmentWithin ==
  ASSUME MotionInv, ~overridden, NEW rest \in 0 .. block[tail].dist, PrepSegment(rest)
  PROVE  LET d == block[tail].dist - rest IN
         /\ prep'.speed <= prep.speed + d /\ prep.speed <= prep'.speed + d
         /\ rest > 0 => /\ prep'.speed <= ExitSpeed(block) + rest
                        /\ ~Hold => ExitSpeed(block) <= prep'.speed + rest
                        /\ prep'.speed <= Limit(block[tail])
<1>1. PlannerInv /\ TypeOK /\ NotTooFast /\ PlanWithinQueue /\ ~IsEmpty
  BY DEF MotionInv, PlannerInv, PrepSegment
<1>2. PICK v \in Nat, x \in Nat, e \in Nat, now \in Nat :
         v = Cut.speed /\ x = Cut.exit /\ e = ExitSpeed(block) /\ now = block[tail].dist
  BY <1>1, CutExit
<1>3. /\ ~Cut.decelOverride /\ v = prep.speed /\ (~Hold => x = e)
      /\ Hold => v <= x + now /\ x <= v
  BY <1>1, <1>2, CutMoves, CutExit
<1>4. PICK s \in Nat : s = TailSpeed
  BY <1>1, TypesUsed, ExitNat DEF TailSpeed
<1>5. v <= s /\ (~Hold => v = s)
  BY <1>1, <1>2, <1>4, CutMoves
<1>6. s <= e + now /\ (~Hold => e <= s + now)
  BY <1>1, <1>2, <1>4 DEF MotionInv, Smooth
<1>7. rest \in Nat /\ rest <= now
  BY <1>2
<1>8. PICK d \in Nat : d = block[tail].dist - rest
  BY <1>2, <1>7
<1>9. now = d + rest
  BY <1>2, <1>7, <1>8
<1>10. PICK w \in Nat : w = prep'.speed
  BY <1>1, PrepSegmentIs DEF PrepSet
<1>11. CASE rest = 0
  <2>1. w = x
    BY <1>1, <1>2, <1>10, <1>11, PrepSegmentIs DEF SpeedAfter
  <2>2. w <= v + d /\ v <= w + d
    BY <1>3, <1>5, <1>6, <1>9, <1>11, <2>1
  <2>3. QED
    BY <1>3, <1>8, <1>10, <1>11, <2>2
<1>12. CASE rest > 0
  <2>1. PICK limit \in Nat : limit = Limit(block[tail])
    BY <1>1, PrepSegmentIs
  <2>2. s <= limit
    BY <1>1, <1>4, <2>1 DEF NotTooFast
  <2>3. \/ /\ w = v - d /\ d <= v
           /\ Hold \/ v > limit + d \/ v > x + now
        \/ /\ ~Hold /\ v <= limit + d /\ v <= x + now
           /\ w <= v + d /\ w <= limit /\ w <= x + rest
           /\ w = v + d \/ w = limit \/ w = x + rest
    BY <1>1, <1>2, <1>3, <1>8, <1>10, <1>12, <2>1, SegmentSpeed
  <2>4. e <= limit
    <3>1. CASE NextIndex(tail) = head
      BY <1>2, <3>1 DEF ExitSpeed
    <3>2. CASE NextIndex(tail) # head
      <4>1. tail \in Index /\ head \in Index /\ tail # head
        BY <1>1, TypesUsed DEF IsEmpty
      <4>2. PICK j \in Index : j = NextIndex(tail) /\ PrevIndex(j) = tail
        BY <4>1, Around
      <4>3. j \in Queued \ {tail}
        <5>1. tail # PrevIndex(head)
          BY <3>2, <4>1, Around
        <5>2. QED
          BY <4>1, <4>2, <5>1, BetweenIs, QueuedIs
      <4>4. block[j].entry <= block[j].maxEntry /\ block[j].maxEntry <= limit
        BY <1>1, <2>1, <4>2, <4>3 DEF PlanWithinQueue, NotTooFast
      <4>5. block[j].entry = e /\ block[j].maxEntry \in Nat
        BY <1>1, <1>2, <3>2, <4>2, TypesUsed, ExitNat DEF ExitSpeed
      <4>6. QED
        BY <4>4, <4>5
    <3>3. QED
      BY <3>1, <3>2
  <2>5. CASE Hold
    <3>1. w = v - d /\ d <= v
      BY <2>3, <2>5
    <3>2. w <= v + d /\ v <= w + d /\ w <= e + rest /\ w <= limit
      BY <1>5, <1>6, <1>7, <1>9, <2>2, <3>1
    <3>3. QED
      BY <1>2, <1>3, <1>8, <1>10, <2>1, <2>5, <3>2
  <2>6. CASE ~Hold
    <3>1. v = s /\ x = e /\ s <= e + now /\ e <= s + now
      BY <1>3, <1>5, <1>6, <2>6
    <3>2. /\ w <= v + d /\ w <= limit /\ w <= x + rest
          /\ w = v + d \/ w = limit \/ w = x + rest
      BY <2>2, <2>3, <2>6, <3>1
    <3>3. v <= w + d
      BY <1>7, <1>9, <2>2, <3>1, <3>2
    <3>4. e <= w + rest
      BY <1>7, <1>9, <2>4, <3>1, <3>2
    <3>5. QED
      BY <1>2, <1>3, <1>8, <1>10, <2>1, <2>6, <3>1, <3>2, <3>3, <3>4
  <2>7. QED
    BY <2>5, <2>6
<1>13. QED
  BY <1>7, <1>11, <1>12

\* A segment takes from the distance of its block and may set its entry.
SameRate(b, c) == b.rate = c.rate /\ b.rapid = c.rapid /\ b.maxEntry = c.maxEntry

\* A segment leaves the rate of its block alone.
LEMMA SegmentRate ==
  ASSUME PlannerInv, NEW rest \in 0 .. block[tail].dist, PrepSegment(rest), rest > 0
  PROVE  SameRate(block[tail], block'[tail])
<1>1. tail \in Index /\ block[tail] \in Block /\ block \in Blocks
  BY TypesUsed DEF PlannerInv
<1>2. PICK entry : entry = IF ~prep.loaded /\ ~prep.recalculate THEN Cut.speed ELSE block[tail].entry
  OBVIOUS
<1>3. PICK x : x = [block[tail] EXCEPT !.dist = rest, !.entry = entry]
  OBVIOUS
<1>4. x.rate = block[tail].rate /\ x.rapid = block[tail].rapid /\ x.maxEntry = block[tail].maxEntry
  BY <1>1, <1>3 DEF Block
<1>5. PICK cut : cut = [block EXCEPT ![tail] = x]
  OBVIOUS
<1>6. cut = [block EXCEPT ![tail].dist = rest, ![tail].entry =
                IF ~prep.loaded /\ ~prep.recalculate THEN Cut.speed ELSE @]
  BY <1>1, <1>2, <1>3, <1>5 DEF Blocks, Block
<1>7. block' = cut
  BY <1>6 DEF PrepSegment, Cut
<1>8. block'[tail] = x
  BY <1>1, <1>5, <1>7 DEF Blocks
<1>9. QED
  BY <1>4, <1>8 DEF SameRate

\* A segment that leaves a rest of the block.
LEMMA SegmentInMoves ==
  ASSUME MotionInv, NEW rest \in 0 .. block[tail].dist, PrepSegment(rest), rest > 0
  PROVE  MotionInv'
<1>1. PlannerInv /\ TypeOK /\ LastNominal /\ NotTooFast /\ Smooth /\ ~IsEmpty
  BY DEF MotionInv, PlannerInv, PrepSegment
<1>2. PlannerInv'
  BY <1>1, PrepSegmentKeeps
<1>3. /\ block' \in Blocks /\ \A i \in Index \ {tail} : block'[i] = block[i]
      /\ block'[tail].dist = rest /\ tail' = tail /\ head' = head /\ overridden' = overridden
      /\ prevNominal' = prevNominal /\ feedOvr' = feedOvr /\ rapidOvr' = rapidOvr
      /\ stepControl' = stepControl \/ stepControl' = stepControl \cup {"end"}
  BY <1>1, SegmentRing
<1>4. SameRate(block[tail], block'[tail])
  BY <1>1, SegmentRate
<1>5. tail \in Index /\ head \in Index /\ tail # head /\ Queued = Between(tail, head)
  BY <1>1, TypesUsed, QueuedIs DEF IsEmpty
<1>6. Queued \subseteq Index /\ tail \in Queued
  BY <1>5, BetweenIs
<1>7. Queued' = Queued /\ ~IsEmpty'
  BY <1>1, <1>3 DEF Queued, IsEmpty
<1>8. /\ prep'.loaded /\ ~prep'.recalculate /\ prep'.decelOverride = Cut.decelOverride
      /\ prep'.exit = Cut.exit /\ TailSpeed' = prep'.speed
  BY <1>1, PrepSegmentIs DEF TailSpeed
<1>9. Hold' = Hold
  BY <1>3 DEF Hold
<1>10. \A i \in Queued : Exit(block', i, head) = Exit(block, i, head)
  <2>1. ASSUME NEW i \in Queued, NextIndex(i) # head PROVE NextIndex(i) \in Index \ {tail}
    <3>1. i # PrevIndex(head)
      BY <1>5, <2>1, Around
    <3>2. QED
      BY <1>5, <1>6, <3>1, BetweenIs
  <2>2. QED
    BY <1>3, <2>1 DEF Exit
<1>11. PICK v \in Nat, x \in Nat, e \in Nat, now \in Nat :
         /\ v = Cut.speed /\ x = Cut.exit /\ e = ExitSpeed(block) /\ now = block[tail].dist
         /\ e = Exit(block, tail, head)
  BY <1>1, CutExit
<1>12. rest \in Nat /\ rest <= now
  BY <1>11
<1>13. PICK d \in Nat : d = block[tail].dist - rest
  BY <1>11, <1>12
<1>14. now = d + rest
  BY <1>11, <1>12, <1>13
<1>15. PICK w \in Nat : w = prep'.speed
  BY <1>1, PrepSegmentIs DEF PrepSet
<1>16. PICK limit \in Nat : limit = Limit(block[tail])
  BY <1>1, PrepSegmentIs
<1>17. \/ w = v - d /\ d <= v
       \/ ~Hold /\ ~Cut.decelOverride /\ w <= x + rest
  BY <1>1, <1>11, <1>13, <1>15, SegmentSpeed
<1>18. CanStop'
  <2>1. PICK D : StopsWithin(D)
    BY DEF MotionInv, CanStop
  <2>2. v <= D[tail]
    BY <1>1, <1>11, <2>1, CutMoves
  <2>3. /\ D \in [Index -> Nat]
        /\ \A i \in Queued : D[i] = (IF NextIndex(i) = head THEN 0 ELSE D[NextIndex(i)]) + block[i].dist
        /\ \A i \in Queued \ {tail} : block[i].entry <= D[i]
    BY <2>1 DEF StopsWithin, ToEnd
  <2>4. PICK a \in Nat : a = IF NextIndex(tail) = head THEN 0 ELSE D[NextIndex(tail)]
    BY <1>5, <2>3, Around
  <2>5. D[tail] = a + now /\ e <= a
    <3>1. D[tail] = a + now
      BY <1>6, <1>11, <2>3, <2>4
    <3>2. CASE NextIndex(tail) = head
      BY <1>11, <2>4, <3>1, <3>2 DEF Exit
    <3>3. CASE NextIndex(tail) # head
      <4>1. tail # PrevIndex(head)
        BY <1>5, <3>3, Around
      <4>2. NextIndex(tail) \in Queued \ {tail}
        BY <1>5, <1>6, <4>1, BetweenIs
      <4>3. QED
        BY <1>11, <2>3, <2>4, <3>1, <3>3, <4>2 DEF Exit
    <3>4. QED
      BY <3>2, <3>3
  <2>6. PICK E : E = [i \in Index |-> IF i = tail THEN a + rest ELSE D[i]]
    OBVIOUS
  <2>7. E \in [Index -> Nat] /\ E[tail] = a + rest /\ \A i \in Index \ {tail} : E[i] = D[i]
    BY <1>5, <1>12, <2>3, <2>4, <2>6
  <2>8. ASSUME NEW i \in Queued
        PROVE  E[i] = (IF NextIndex(i) = head THEN 0 ELSE E[NextIndex(i)]) + block'[i].dist
    <3>1. NextIndex(i) # head => NextIndex(i) \in Index \ {tail}
      <4>1. NextIndex(i) # head => i # PrevIndex(head)
        BY <1>5, <1>6, Around
      <4>2. QED
        BY <1>5, <1>6, <4>1, BetweenIs
    <3>2. NextIndex(i) # head => E[NextIndex(i)] = D[NextIndex(i)]
      BY <2>7, <3>1
    <3>3. CASE i = tail
      BY <1>3, <2>4, <2>7, <3>2, <3>3
    <3>4. CASE i # tail
      <4>1. E[i] = D[i] /\ block'[i] = block[i]
        BY <1>3, <1>6, <2>7, <3>4
      <4>2. QED
        BY <2>3, <3>2, <4>1
    <3>5. QED
      BY <3>3, <3>4
  <2>9. w <= E[tail]
    <3>1. CASE w = v - d /\ d <= v
      BY <1>14, <2>2, <2>5, <2>7, <3>1
    <3>2. CASE ~Hold /\ ~Cut.decelOverride /\ w <= x + rest
      <4>1. x = e
        BY <1>1, <1>11, <3>2, CutExit
      <4>2. QED
        BY <1>12, <2>5, <2>7, <3>2, <4>1
    <3>3. QED
      BY <1>17, <3>1, <3>2
  <2>10. \A i \in Queued \ {tail} : block'[i].entry <= E[i]
    BY <1>3, <1>6, <2>3, <2>7
  <2>11. ToEnd(E, Queued, block', head)
    BY <2>7, <2>8 DEF ToEnd
  <2>12. StopsWithin(E)'
    BY <1>3, <1>7, <1>8, <1>15, <2>9, <2>10, <2>11 DEF StopsWithin
  <2>13. QED
    BY <2>12 DEF CanStop
<1>19. HoldBrakes'
  <2>1. SUFFICES ASSUME Hold PROVE x = (IF rest >= w THEN 0 ELSE w - rest)
    BY <1>3, <1>8, <1>9, <1>11, <1>15 DEF HoldBrakes
  <2>2. x = IF now >= v THEN 0 ELSE v - now
    BY <1>1, <1>11, <2>1, CutMoves
  <2>3. w = v - d /\ d <= v
    BY <1>17, <2>1
  <2>4. QED
    BY <1>12, <1>14, <2>2, <2>3
<1>20. \A i \in Index : SameRate(block[i], block'[i])
  BY <1>3, <1>4 DEF SameRate
<1>21. ASSUME NEW i \in Index
       PROVE  NominalSpeed(block[i], feedOvr, rapidOvr)' = NominalSpeed(block[i], feedOvr, rapidOvr)
              /\ Limit(block[i])' = Limit(block[i]) /\ block'[i].maxEntry = block[i].maxEntry
  <2>1. NominalSpeed(block[i], feedOvr, rapidOvr)' = NominalSpeed(block'[i], feedOvr, rapidOvr)
    BY <1>3 DEF NominalSpeed
  <2>2. NominalSpeed(block'[i], feedOvr, rapidOvr) = NominalSpeed(block[i], feedOvr, rapidOvr)
    BY <1>20 DEF SameRate, NominalSpeed
  <2>3. QED
    BY <1>20, <2>1, <2>2 DEF SameRate, Limit
<1>22. LastNominal'
  <2>1. PICK i \in Index : i = PrevIndex(head)
    BY <1>5, Around
  <2>2. QED
    BY <1>1, <1>3, <1>21, <2>1 DEF LastNominal
<1>23. NotTooFast' /\ Smooth' /\ BrakesForOverride'
  <2>1. CASE overridden
    BY <1>3, <2>1 DEF NotTooFast, Smooth, BrakesForOverride
  <2>2. CASE ~overridden
    <3>1. w <= e + rest /\ (~Hold => e <= w + rest) /\ w <= limit
      BY <1>11, <1>15, <1>16, <2>2, SegmentWithin
    <3>2. BrakesForOverride'
      BY <1>1, <1>8, <2>2, CutMoves DEF BrakesForOverride
    <3>3. NotTooFast'
      <4>1. /\ \A i \in Queued : block[i].maxEntry <= Limit(block[i])
            /\ \A i \in Queued \ {tail} : block[i].maxEntry <= Limit(block[PrevIndex(i)])
        BY <1>1, <2>2 DEF NotTooFast
      <4>2. \A i \in Queued : block'[i].maxEntry <= Limit(block[i])'
        BY <1>6, <1>21, <4>1
      <4>3. ASSUME NEW i \in Queued \ {tail} PROVE block'[i].maxEntry <= Limit(block[PrevIndex(i)])'
        <5>1. PICK j \in Index : j = PrevIndex(i)
          BY <1>6, Around
        <5>2. QED
          BY <1>6, <1>21, <4>1, <5>1
      <4>4. Limit(block[tail])' = limit
        BY <1>3, <1>5, <1>16, <1>21
      <4>5. QED
        BY <1>3, <1>7, <1>8, <1>15, <3>1, <4>2, <4>3, <4>4 DEF NotTooFast
    <3>4. Smooth'
      <4>1. \A i \in Queued \ {tail} : Brakes(block, i, head) /\ Speeds(block, i, head)
        BY <1>1, <2>2 DEF Smooth
      <4>2. \A i \in Queued \ {tail} : Brakes(block', i, head) /\ Speeds(block', i, head)
        BY <1>3, <1>6, <1>10, <4>1 DEF Brakes, Speeds
      <4>3. ExitSpeed(block)' = e
        BY <1>3, <1>6, <1>10, <1>11 DEF ExitSpeed, Exit
      <4>4. QED
        BY <1>3, <1>7, <1>8, <1>9, <1>15, <3>1, <4>2, <4>3 DEF Smooth, Brakes, Speeds, Exit
    <3>5. QED
      BY <3>2, <3>3, <3>4
  <2>3. QED
    BY <2>1, <2>2
<1>24. QED
  BY <1>2, <1>7, <1>8, <1>18, <1>19, <1>22, <1>23 DEF MotionInv, Rested, NextStart, EndsInBlock

\* The last segment of a block: the next one begins, or the machine is at rest.
LEMMA SegmentOutMoves ==
  ASSUME MotionInv, NEW rest \in 0 .. block[tail].dist, PrepSegment(rest), rest = 0
  PROVE  MotionInv'
<1>1. PlannerInv /\ TypeOK /\ PlanWithinQueue /\ LastNominal /\ NotTooFast /\ Smooth /\ ~IsEmpty
  BY DEF MotionInv, PlannerInv, PrepSegment
<1>2. PlannerInv'
  BY <1>1, PrepSegmentKeeps
<1>3. /\ block' \in Blocks /\ \A i \in Index \ {tail} : block'[i] = block[i]
      /\ tail' = NextIndex(tail) /\ head' = head /\ overridden' = (overridden /\ NextIndex(tail) # head)
      /\ prevNominal' = prevNominal /\ feedOvr' = feedOvr /\ rapidOvr' = rapidOvr
      /\ stepControl' = stepControl \/ stepControl' = stepControl \cup {"end"}
      /\ "end" \notin stepControl'
  BY <1>1, SegmentRing
<1>4. tail \in Index /\ head \in Index /\ tail # head /\ Queued = Between(tail, head)
  BY <1>1, TypesUsed, QueuedIs DEF IsEmpty
<1>5. PICK next \in Index : next = NextIndex(tail) /\ PrevIndex(next) = tail /\ next # tail
  BY <1>4, Around
<1>6. Queued' = Queued \ {tail} /\ Queued \subseteq Index /\ tail \in Queued
  <2>1. Queued' = Between(next, head)
    BY <1>3, <1>5 DEF Queued, Between
  <2>2. QED
    BY <1>4, <1>5, <2>1, BetweenDrops, BetweenIs
<1>7. PICK v \in Nat, x \in Nat, e \in Nat, now \in Nat :
         /\ v = Cut.speed /\ x = Cut.exit /\ e = ExitSpeed(block) /\ now = block[tail].dist
         /\ e = Exit(block, tail, head)
  BY <1>1, CutExit
<1>8. /\ ~prep'.loaded /\ ~prep'.recalculate /\ prep'.exit = x /\ prep'.speed = x
  BY <1>1, <1>7, PrepSegmentIs DEF SpeedAfter
<1>9. /\ ~Hold /\ ~Cut.decelOverride => x = e
      /\ Hold => x = (IF now >= v THEN 0 ELSE v - now)
      /\ Cut.decelOverride => v = x + now
  BY <1>1, <1>7, CutExit, CutMoves, CutIs
<1>10. Hold' = Hold
  BY <1>3 DEF Hold
<1>11. PICK D : StopsWithin(D)
  BY DEF MotionInv, CanStop
<1>12. /\ D \in [Index -> Nat] /\ v <= D[tail]
       /\ \A i \in Queued : D[i] = (IF NextIndex(i) = head THEN 0 ELSE D[NextIndex(i)]) + block[i].dist
       /\ \A i \in Queued \ {tail} : block[i].entry <= D[i]
  BY <1>1, <1>7, <1>11, CutMoves DEF StopsWithin, ToEnd
<1>13. PICK a \in Nat : a = IF next = head THEN 0 ELSE D[next]
  BY <1>5, <1>12
<1>14. D[tail] = a + now
  BY <1>5, <1>6, <1>7, <1>12, <1>13
<1>15. next # head => next \in Queued \ {tail}
  <2>1. next # head => tail # PrevIndex(head)
    BY <1>4, <1>5, Around
  <2>2. QED
    BY <1>4, <1>5, <2>1, BetweenIs
<1>16. e = (IF next = head THEN 0 ELSE block[next].entry) /\ e <= a
  BY <1>5, <1>7, <1>12, <1>13, <1>15 DEF Exit
<1>17. x <= a
  BY <1>9, <1>12, <1>14, <1>16
<1>18. CASE next = head
  <2>1. IsEmpty' /\ x = 0 /\ ~overridden'
    <3>1. IsEmpty' /\ x = 0
      BY <1>3, <1>5, <1>13, <1>17, <1>18 DEF IsEmpty
    <3>2. ~overridden'
      BY <1>3, <1>5, <1>18, Zenon
    <3>3. QED
      BY <3>1, <3>2
  <2>2. Queued' = {}
    BY <1>3, <1>4, <1>5, <1>18, BetweenNone DEF Queued, Between
  <2>3. StopsWithin(D)'
    BY <1>12, <2>1, <2>2 DEF StopsWithin, ToEnd
  <2>4. QED
    BY <1>2, <1>3, <1>8, <2>1, <2>2, <2>3 DEF MotionInv, Rested, CanStop, HoldBrakes, LastNominal, NotTooFast,
       Smooth, NextStart, BrakesForOverride, EndsInBlock
<1>19. CASE next # head
  <2>1. ~IsEmpty' /\ overridden' = overridden
    <3>1. overridden \in BOOLEAN
      BY <1>1 DEF TypeOK
    <3>2. QED
      BY <1>3, <1>5, <1>19, <3>1 DEF IsEmpty
  <2>2. next \in Queued' /\ block'[next] = block[next] /\ TailSpeed' = e /\ e = block[next].entry
    BY <1>3, <1>5, <1>6, <1>8, <1>15, <1>16, <1>19 DEF TailSpeed
  <2>3. CanStop'
    <3>1. ToEnd(D, Queued', block', head)
      BY <1>3, <1>6, <1>12 DEF ToEnd
    <3>2. \A i \in Queued' : block'[i].entry <= D[i]
      BY <1>3, <1>6, <1>12
    <3>3. x <= D[next] /\ e <= D[next]
      BY <1>13, <1>16, <1>17, <1>19
    <3>4. StopsWithin(D)'
      BY <1>3, <1>5, <1>8, <2>2, <3>1, <3>2, <3>3 DEF StopsWithin
    <3>5. QED
      BY <3>4 DEF CanStop
  <2>4. ASSUME NEW i \in Index \ {tail}
        PROVE  /\ NominalSpeed(block[i], feedOvr, rapidOvr)' = NominalSpeed(block[i], feedOvr, rapidOvr)
               /\ Limit(block[i])' = Limit(block[i]) /\ block'[i].maxEntry = block[i].maxEntry
    BY <1>3 DEF NominalSpeed, Limit
  <2>5. LastNominal'
    <3>1. PICK i \in Index : i = PrevIndex(head)
      BY <1>4, Around
    <3>2. i # tail
      BY <1>4, <1>5, <1>19, <3>1, Around
    <3>3. QED
      BY <1>1, <1>3, <2>4, <3>1, <3>2 DEF LastNominal
  <2>6. NotTooFast' /\ Smooth' /\ NextStart'
    <3>1. CASE overridden
      BY <2>1, <3>1 DEF NotTooFast, Smooth, NextStart
    <3>2. CASE ~overridden
      <4>1. /\ \A i \in Queued : block[i].maxEntry <= Limit(block[i])
            /\ \A i \in Queued \ {tail} : block[i].maxEntry <= Limit(block[PrevIndex(i)])
            /\ \A i \in Queued \ {tail} : Brakes(block, i, head) /\ Speeds(block, i, head)
            /\ TailSpeed <= e + now
        BY <1>1, <1>7, <3>2 DEF NotTooFast, Smooth
      <4>2. NotTooFast'
        <5>1. \A i \in Queued' : block'[i].maxEntry <= Limit(block[i])'
          BY <1>6, <2>4, <4>1
        <5>2. ASSUME NEW i \in Queued' \ {next} PROVE block'[i].maxEntry <= Limit(block[PrevIndex(i)])'
          <6>1. i \in Index /\ i \in Queued \ {tail}
            BY <1>6
          <6>2. PICK j \in Index : j = PrevIndex(i)
            BY <6>1, Around
          <6>3. j # tail
            BY <1>5, <5>2, <6>1, <6>2, Around
          <6>4. block'[i].maxEntry = block[i].maxEntry /\ Limit(block[j])' = Limit(block[j])
            BY <2>4, <6>1, <6>2, <6>3
          <6>5. QED
            BY <4>1, <6>1, <6>2, <6>4
        <5>3. e <= Limit(block[tail])'
          <6>1. block[next].entry <= block[next].maxEntry
            BY <1>1, <1>15, <1>19 DEF PlanWithinQueue
          <6>2. block[next].maxEntry <= Limit(block[next]) /\ Limit(block[next]) \in Nat
            BY <1>1, <1>15, <1>19, <4>1, TypesUsed, LimitNat
          <6>3. block[next].maxEntry \in Nat
            BY <1>1, TypesUsed, ExitNat
          <6>4. Limit(block[tail])' = Limit(block[next])
            BY <1>3, <1>5, <2>2 DEF Limit, NominalSpeed
          <6>5. QED
            BY <2>2, <6>1, <6>2, <6>3, <6>4
        <5>4. QED
          BY <1>3, <1>5, <2>2, <5>1, <5>2, <5>3 DEF NotTooFast
      <4>3. Smooth'
        <5>1. \A i \in Queued' : NextIndex(i) # head => NextIndex(i) \in Index \ {tail}
          <6>1. \A i \in Queued : NextIndex(i) # head => i # PrevIndex(head)
            BY <1>4, <1>6, Around
          <6>2. QED
            BY <1>4, <1>6, <6>1, BetweenIs
        <5>2. \A i \in Queued' : Exit(block', i, head) = Exit(block, i, head) /\ block'[i] = block[i]
          BY <1>3, <1>6, <5>1 DEF Exit
        <5>3. \A i \in Queued' : Brakes(block', i, head) /\ Speeds(block', i, head)
          BY <1>6, <4>1, <5>2 DEF Brakes, Speeds
        <5>4. ExitSpeed(block)' = Exit(block', next, head)
          BY <1>3, <1>5 DEF ExitSpeed, Exit
        <5>5. /\ e <= ExitSpeed(block)' + block'[next].dist
              /\ ExitSpeed(block)' <= e + block'[next].dist
          BY <2>2, <5>3, <5>4 DEF Brakes, Speeds
        <5>6. QED
          BY <1>3, <1>5, <2>2, <5>3, <5>5 DEF Smooth, Brakes, Speeds, Exit
      <4>4. NextStart'
        <5>1. v <= TailSpeed /\ ~Cut.decelOverride
          BY <1>1, <1>7, <3>2, CutMoves
        <5>2. TailSpeed \in Nat
          BY <1>1, TypesUsed, ExitNat DEF TailSpeed
        <5>3. x <= e /\ (~Hold => x = e)
          BY <1>9, <4>1, <5>1, <5>2
        <5>4. QED
          BY <1>3, <1>5, <1>8, <1>10, <2>2, <5>3 DEF NextStart
      <4>5. QED
        BY <4>2, <4>3, <4>4
    <3>3. QED
      BY <3>1, <3>2
  <2>7. QED
    BY <1>2, <1>3, <1>8, <2>1, <2>3, <2>5, <2>6 DEF MotionInv, Rested, HoldBrakes, BrakesForOverride, EndsInBlock
<1>20. QED
  BY <1>18, <1>19

\* Every step keeps the motion smooth: one lemma for each action.
THEOREM MotionInvStep ==
  ASSUME MotionInv, [Next]_vars
  PROVE  MotionInv'
<1>1. ASSUME NEW line \in Lines, BufferLine(line) PROVE MotionInv'
  BY <1>1, FirstLineKeeps, NextLineKeeps
<1>2. ASSUME NEW o \in Overrides, Override(o[1], o[2]) PROVE MotionInv'
  BY <1>2, OverrideMoves
<1>3. ASSUME NEW rest \in 0 .. block[tail].dist, PrepSegment(rest) PROVE MotionInv'
  <2>1. rest = 0 \/ rest > 0
    BY <1>3
  <2>2. QED
    BY <1>3, <2>1, SegmentInMoves, SegmentOutMoves
<1>4. QED
  BY <1>1, <1>2, <1>3, FeedHoldMoves, CycleStopMoves, CycleStartMoves, StutterMoves DEF Next

\* The invariant holds in every state of every behaviour.
THEOREM MotionInvariant == Spec => []MotionInv
  BY MotionInvInit, MotionInvStep, PTL DEF Spec

\* Whatever was planned, held, resumed or overridden: what is left of the queue
\* is long enough to stop in.
THEOREM AlwaysStops == Spec => []CanStop
<1>1. MotionInv => CanStop
  BY DEF MotionInv
<1>2. QED
  BY <1>1, MotionInvariant, PTL

\* Nothing but a segment changes the speed of the machine.
LEMMA SpeedKept ==
  ASSUME TypeOK, [Next]_vars, prep'.speed # prep.speed
  PROVE  \E rest \in 0 .. block[tail].dist : PrepSegment(rest)
<1>1. Told.speed = prep.speed
  BY ToldIs
<1>2. ASSUME NEW line \in Lines, BufferLine(line) PROVE prep' = Told \/ prep' = prep
  BY <1>2 DEF BufferLine
<1>3. ASSUME NEW o \in Overrides, Override(o[1], o[2]) PROVE prep' = Told
  BY <1>3 DEF Override, Reinitialize
<1>4. FeedHold \/ CycleStop => prep' = Told
  BY DEF FeedHold, CycleStop, Reinitialize
<1>5. CycleStart \/ UNCHANGED vars => prep' = prep
  BY DEF CycleStart, vars
<1>6. QED
  BY <1>1, <1>2, <1>3, <1>4, <1>5 DEF Next

\* From one segment to the next, across block boundaries, re-plans, holds and
\* resumes, the speed changes by no more than the acceleration allows over the
\* distance, whatever the lines, the size of the ring and the overrides.
THEOREM SpeedNeverJumps == Spec => NoJump
<1>1. ASSUME MotionInv, [Next]_vars
      PROVE  [ ~overridden /\ prep'.speed # prep.speed =>
                 LET moved == IF tail' = tail THEN block[tail].dist - block'[tail].dist
                              ELSE block[tail].dist
                 IN /\ prep'.speed <= prep.speed + moved
                    /\ prep.speed <= prep'.speed + moved ]_vars
  <2>1. SUFFICES ASSUME ~overridden, prep'.speed # prep.speed
                 PROVE  LET moved == IF tail' = tail THEN block[tail].dist - block'[tail].dist
                                     ELSE block[tail].dist
                        IN /\ prep'.speed <= prep.speed + moved
                           /\ prep.speed <= prep'.speed + moved
    OBVIOUS
  <2>2. TypeOK /\ PlannerInv
    BY <1>1 DEF MotionInv, PlannerInv
  <2>3. PICK rest \in 0 .. block[tail].dist : PrepSegment(rest)
    BY <1>1, <2>1, <2>2, SpeedKept
  <2>4. rest \in Nat /\ block[tail].dist \in Nat
    BY <2>2, <2>3, PrepSegmentIs
  <2>5. /\ prep'.speed <= prep.speed + (block[tail].dist - rest)
        /\ prep.speed <= prep'.speed + (block[tail].dist - rest)
    BY <1>1, <2>1, <2>3, SegmentWithin
  <2>6. CASE rest > 0
    <3>1. tail' = tail /\ block'[tail].dist = rest
      BY <2>2, <2>3, <2>6, SegmentRing
    <3>2. QED
      BY <2>5, <3>1
  <2>7. CASE rest = 0
    <3>1. tail' # tail
      BY <2>2, <2>3, <2>7, SegmentRing, TypesUsed, Around
    <3>2. block[tail].dist - rest = block[tail].dist
      BY <2>4, <2>7
    <3>3. QED
      BY <2>5, <3>1, <3>2
  <2>8. QED
    BY <2>4, <2>6, <2>7
<1>2. QED
  BY <1>1, MotionInvariant, PTL DEF Spec, NoJump

-----------------------------------------------------------------------------
(* Distances along the queue. *)

\* The sum of the distances between two indices, taken from either end.
LEMMA DistanceIs ==
  ASSUME TypeOK, NEW i \in Index
  PROVE  /\ Distance(i, i) = 0
         /\ \A j \in Index : /\ Distance(i, j) \in Nat
                             /\ i # j => Distance(i, j) = Distance(i, PrevIndex(j)) + block[PrevIndex(j)].dist
<1>1. PICK N : N = BlockBufferSize - 1
  OBVIOUS
<1>2. N \in Nat /\ 0 .. N = Index /\ 0 \in Index /\ 0 \in 0 .. N
  BY <1>1, Size DEF Index
<1>3. \A k \in 1 .. N : k \in Index /\ k - 1 \in Index /\ k # 0
  BY <1>1, Size DEF Index
<1>4. PICK d : d = [k \in 1 .. N |-> block[Plus(i, k - 1)].dist]
  OBVIOUS
<1>5. d \in [1 .. N -> Nat]
  <2>1. ASSUME NEW k \in 1 .. N PROVE block[Plus(i, k - 1)].dist \in Nat
    <3>1. Plus(i, k - 1) \in Index
      BY <1>3, PlusAhead
    <3>2. QED
      BY <3>1, TypesUsed, ExitNat
  <2>2. QED
    BY <1>4, <2>1
<1>6. PICK g : g = [k \in 1 .. N |-> [x \in Nat |-> x + d[k]]]
  OBVIOUS
<1>7. g \in Steps(Nat, N) /\ \A k \in 1 .. N, x \in Nat : g[k][x] = x + d[k]
  BY <1>5, <1>6 DEF Steps
<1>8. PICK f : Follows(f, Nat, N, 0, g)
  BY <1>2, <1>7, Recursion
<1>9. f \in [0 .. N -> Nat] /\ f[0] = 0 /\ \A k \in 1 .. N : f[k] = g[k][f[k - 1]]
  BY <1>8 DEF Follows
<1>10. \A k \in 1 .. N : f[k - 1] \in Nat
  BY <1>2, <1>3, <1>9
<1>11. \A k \in 1 .. N : f[k] = f[k - 1] + block[Plus(i, k - 1)].dist
  BY <1>4, <1>7, <1>9, <1>10
<1> DEFINE F == CHOOSE e : e = [k \in Index |-> IF k = 0 THEN 0 ELSE e[k - 1] + block[Plus(i, k - 1)].dist]
<1>12. F = [k \in Index |-> IF k = 0 THEN 0 ELSE F[k - 1] + block[Plus(i, k - 1)].dist]
  <2>1. \A k \in 0 .. N : k = 0 \/ k \in 1 .. N
    BY <1>2
  <2>2. \A k \in Index : f[k] = IF k = 0 THEN 0 ELSE f[k - 1] + block[Plus(i, k - 1)].dist
    BY <1>2, <1>9, <1>11, <2>1
  <2>3. f = [k \in Index |-> IF k = 0 THEN 0 ELSE f[k - 1] + block[Plus(i, k - 1)].dist]
    BY <1>2, <1>9, <2>2
  <2>4. QED
    BY <2>3
<1>13. \A j \in Index : Distance(i, j) = F[Ahead(i, j)]
  BY DEF Distance
<1> HIDE DEF F
<1>14. F[0] = 0 /\ \A k \in 1 .. N : F[k] = F[k - 1] + d[k]
  BY <1>2, <1>3, <1>4, <1>12
<1>15. \A k \in 0 .. N : F[k] \in Nat
  <2>1. PICK T : T = {k \in 0 .. N : F[k] \in Nat}
    OBVIOUS
  <2>2. 0 \in T
    BY <1>2, <1>14, <2>1
  <2>3. ASSUME NEW k \in 1 .. N, k - 1 \in T PROVE k \in T
    <3>1. k \in 0 .. N /\ F[k - 1] \in Nat /\ d[k] \in Nat
      BY <1>2, <1>3, <1>5, <2>1, <2>3
    <3>2. QED
      BY <1>14, <2>1, <3>1
  <2>4. \A k \in 0 .. N : k \in T
    BY <1>2, <2>2, <2>3, UpTo
  <2>5. QED
    BY <2>1, <2>4
<1>16. Distance(i, i) = 0
  BY <1>13, <1>14, AheadRange
<1>17. ASSUME NEW j \in Index PROVE Distance(i, j) \in Nat
  BY <1>2, <1>13, <1>15, AheadRange
<1>18. ASSUME NEW j \in Index, i # j
       PROVE  Distance(i, j) = Distance(i, PrevIndex(j)) + block[PrevIndex(j)].dist
  <2>1. PICK k \in 1 .. N : k = Ahead(i, j)
    BY <1>1, <1>18, AheadRange, Size DEF Index
  <2>2. PrevIndex(j) \in Index /\ Ahead(i, PrevIndex(j)) = k - 1
    BY <1>18, <2>1, Around, AheadSteps
  <2>3. Plus(i, k - 1) = PrevIndex(j)
    BY <2>2, AheadPlus
  <2>4. F[k] = F[k - 1] + block[Plus(i, k - 1)].dist
    BY <1>4, <1>14
  <2>5. QED
    BY <1>13, <2>1, <2>2, <2>3, <2>4
<1>19. QED
  BY <1>16, <1>17, <1>18

\* What holds for a block and from each block of the queue to the next holds for
\* all later ones.
LEMMA LaterInduction ==
  ASSUME NEW t \in Index, NEW h \in Index, t # h, NEW i \in Between(t, h), NEW T, i \in T,
         \A j \in Between(t, h) \ {PrevIndex(h)} :
            j \in T /\ Ahead(t, j) >= Ahead(t, i) => NextIndex(j) \in T
  PROVE  \A j \in Between(t, h) : Ahead(t, j) >= Ahead(t, i) => j \in T
<1>1. PICK N : N = BlockBufferSize - 1
  OBVIOUS
<1>2. N \in Nat /\ 0 .. N = Index
  BY <1>1, Size DEF Index
<1>3. i \in Index /\ Between(t, h) \subseteq Index
  BY BetweenIs
<1>4. PICK a \in 0 .. N : a = Ahead(t, i)
  BY <1>2, <1>3, AheadRange
<1>5. PICK U : U = {n \in 0 .. N : \A j \in Between(t, h) : Ahead(t, j) = n => n < a \/ j \in T}
  OBVIOUS
<1>6. ASSUME NEW j \in Between(t, h), Ahead(t, j) = a PROVE j \in T
  <2>1. j = i
    BY <1>3, <1>4, <1>6, AheadInjective
  <2>2. QED
    BY <2>1
<1>7. 0 \in U
  <2>1. 0 \in 0 .. N /\ (0 < a \/ a = 0)
    BY <1>2
  <2>2. QED
    BY <1>5, <1>6, <2>1
<1>8. ASSUME NEW n \in 1 .. N, n - 1 \in U PROVE n \in U
  <2>1. n \in 0 .. N /\ (n < a \/ n = a \/ n - 1 >= a)
    BY <1>2
  <2>2. ASSUME NEW j \in Between(t, h), Ahead(t, j) = n, n - 1 >= a PROVE j \in T
    <3>1. j # t
      <4>1. Ahead(t, t) = 0
        BY AheadRange
      <4>2. QED
        BY <2>2, <4>1
    <3>2. PICK k : k = PrevIndex(j)
      OBVIOUS
    <3>3. k \in Between(t, h) /\ k # PrevIndex(h) /\ k \in Index /\ NextIndex(k) = j
      BY <1>3, <3>1, <3>2, BetweenIs, Around
    <3>4. Ahead(t, k) = n - 1
      BY <1>3, <2>2, <3>1, <3>2, AheadSteps
    <3>5. k \in T
      BY <1>5, <1>8, <2>2, <3>3, <3>4
    <3>6. QED
      BY <1>4, <2>2, <3>3, <3>4, <3>5
  <2>3. QED
    BY <1>5, <1>6, <2>1, <2>2
<1>9. \A n \in 0 .. N : n \in U
  BY <1>2, <1>7, <1>8, UpTo
<1>10. ASSUME NEW j \in Between(t, h), Ahead(t, j) >= Ahead(t, i) PROVE j \in T
  <2>1. PICK n \in 0 .. N : n = Ahead(t, j)
    BY <1>2, <1>3, AheadRange
  <2>2. ~(n < a)
    BY <1>4, <1>10, <2>1
  <2>3. QED
    BY <1>5, <1>9, <2>1, <2>2
<1>11. QED
  BY <1>10

\* The sum of distances, its first block taken off.
LEMMA DistanceFront ==
  ASSUME TypeOK, NEW i \in Index, NEW j \in Index, i # j
  PROVE  Distance(i, j) = block[i].dist + Distance(NextIndex(i), j)
<1>1. PICK n \in Index : n = NextIndex(i) /\ n # i /\ PrevIndex(n) = i
  BY Around
<1>2. PICK T : T = {k \in Index : Distance(i, k) = block[i].dist + Distance(n, k)}
  OBVIOUS
<1>3. ASSUME NEW k \in Index, k # i PROVE k \in Between(n, i)
  <2>1. PICK a \in 0 .. BlockBufferSize - 1 : a = Ahead(n, k)
    BY AheadRange, Size DEF Index
  <2>2. Ahead(n, i) = BlockBufferSize - 1
    BY <1>1, AheadSteps
  <2>3. a # BlockBufferSize - 1
    BY <1>3, <2>1, <2>2, AheadInjective
  <2>4. QED
    BY <2>1, <2>2, <2>3, Size DEF Between
<1>4. block[i].dist \in Nat /\ \A k \in Index : Distance(i, k) \in Nat /\ Distance(n, k) \in Nat
  BY TypesUsed, ExitNat, DistanceIs
<1>5. n \in T
  <2>1. Distance(i, n) = Distance(i, i) + block[i].dist /\ Distance(i, i) = 0 /\ Distance(n, n) = 0
    BY <1>1, DistanceIs
  <2>2. QED
    BY <1>2, <1>4, <2>1
<1>6. ASSUME NEW k \in Between(n, i) \ {PrevIndex(i)}, k \in T PROVE NextIndex(k) \in T
  <2>1. PICK m \in Index : m = NextIndex(k) /\ PrevIndex(m) = k /\ k \in Index
    BY Around DEF Between
  <2>2. m # i /\ m # n
    <3>1. k # i
      BY <1>1, BetweenIs
    <3>2. m # i
      BY <1>6, <2>1
    <3>3. m # n
      BY <1>1, <2>1, <3>1
    <3>4. QED
      BY <3>2, <3>3
  <2>3. /\ Distance(i, m) = Distance(i, k) + block[k].dist
        /\ Distance(n, m) = Distance(n, k) + block[k].dist
    BY <1>1, <2>1, <2>2, DistanceIs
  <2>4. Distance(i, k) = block[i].dist + Distance(n, k) /\ block[k].dist \in Nat
    BY <1>2, <1>6, <2>1, TypesUsed, ExitNat
  <2>5. QED
    BY <1>2, <1>4, <2>1, <2>3, <2>4
<1>7. j \in Between(n, i) /\ n \in Between(n, i)
  BY <1>1, <1>3
<1>8. Ahead(n, j) >= Ahead(n, n)
  BY <1>1, AheadRange, Size DEF Index
<1>9. j \in T
  BY <1>1, <1>5, <1>6, <1>7, <1>8, LaterInduction
<1>10. QED
  BY <1>1, <1>2, <1>9

-----------------------------------------------------------------------------
(* The fastest plan. *)

\* The speed into a block of the queue, for the executing one the present speed.
Into(i) == IF i = tail THEN TailSpeed ELSE block[i].entry

\* What may limit it: the corner, braking to the exit, or accelerating from the
\* block before.
AtCorner(i) == Into(i) = block[i].maxEntry
Braking(i) == Into(i) = Exit(block, i, head) + block[i].dist
Accelerating(i) == Into(i) = Into(PrevIndex(i)) + block[PrevIndex(i)].dist

\* Every block of the queue can be entered with its speed and left with the next.
Possible ==
  /\ \A i \in Queued : Into(i) <= Exit(block, i, head) + block[i].dist
  /\ \A i \in Queued : Exit(block, i, head) <= Into(i) + block[i].dist
  /\ \A i \in Queued \ {tail} : Into(i) <= block[i].maxEntry

\* No block of the queue is empty.
HasLength == \A i \in Queued : block[i].dist > 0

\* Between any two blocks the speeds differ by no more than the distance allows.
LEMMA WithinDistance ==
  ASSUME TypeOK, ~IsEmpty, Possible, NEW i \in Queued
  PROVE  /\ Into(i) \in Nat /\ Into(i) <= Distance(i, head)
         /\ \A j \in Queued : Ahead(tail, j) >= Ahead(tail, i)
              => /\ Into(i) <= Into(j) + Distance(i, j)
                 /\ Into(j) <= Into(i) + Distance(i, j)
<1>1. /\ tail \in Index /\ head \in Index /\ tail # head /\ Queued = Between(tail, head)
      /\ block \in Blocks /\ prep.speed \in Nat
  BY TypesUsed, QueuedIs DEF IsEmpty
<1>2. Queued \subseteq Index
  BY <1>1, BetweenIs
<1>3. \A j \in Index : Into(j) \in Nat /\ block[j].dist \in Nat
  BY <1>1, ExitNat DEF Into, TailSpeed
<1>4. \A j \in Index : Distance(i, j) \in Nat
  BY <1>2, DistanceIs
<1>5. PICK T : T = {j \in Queued : /\ Into(i) <= Into(j) + Distance(i, j)
                                   /\ Into(j) <= Into(i) + Distance(i, j)}
  OBVIOUS
<1>6. i \in T
  <2>1. Distance(i, i) = 0
    BY <1>2, DistanceIs
  <2>2. QED
    BY <1>2, <1>3, <1>5, <2>1
<1>7. ASSUME NEW j \in Queued, Ahead(tail, j) >= Ahead(tail, i)
      PROVE  Distance(i, NextIndex(j)) = Distance(i, j) + block[j].dist
  <2>1. NextIndex(j) \in Index /\ PrevIndex(NextIndex(j)) = j
    BY <1>2, Around
  <2>2. NextIndex(j) # i
    <3>1. SUFFICES ASSUME NextIndex(j) = i PROVE FALSE
      OBVIOUS
    <3>2. j = PrevIndex(i)
      BY <2>1, <3>1
    <3>3. PICK b \in 0 .. BlockBufferSize - 1 : b = Ahead(tail, i)
      BY <1>1, <1>2, AheadRange, Size DEF Index
    <3>4. CASE i = tail
      <4>1. NextIndex(j) # tail
        <5>1. CASE j = PrevIndex(head)
          BY <1>1, <5>1, Around
        <5>2. CASE j # PrevIndex(head)
          BY <1>1, <5>2, BetweenIs
        <5>3. QED
          BY <5>1, <5>2
      <4>2. QED
        BY <3>1, <3>4, <4>1
    <3>5. CASE i # tail
      <4>1. Ahead(tail, j) = b - 1
        BY <1>1, <1>2, <3>2, <3>3, <3>5, AheadSteps
      <4>2. QED
        BY <1>7, <3>3, <4>1
    <3>6. QED
      BY <3>4, <3>5
  <2>3. QED
    BY <1>2, <2>1, <2>2, DistanceIs
<1>8. ASSUME NEW j \in Queued \ {PrevIndex(head)}, j \in T, Ahead(tail, j) >= Ahead(tail, i)
      PROVE  NextIndex(j) \in T
  <2>1. PICK k : k = NextIndex(j)
    OBVIOUS
  <2>2. k \in Queued \ {tail} /\ k # head
    BY <1>1, <2>1, BetweenIs
  <2>3. Exit(block, j, head) = Into(k)
    BY <2>1, <2>2 DEF Exit, Into
  <2>4. Into(j) <= Into(k) + block[j].dist /\ Into(k) <= Into(j) + block[j].dist
    BY <2>3 DEF Possible
  <2>5. Distance(i, k) = Distance(i, j) + block[j].dist
    BY <1>7, <1>8, <2>1
  <2>6. Into(i) <= Into(j) + Distance(i, j) /\ Into(j) <= Into(i) + Distance(i, j)
    BY <1>5, <1>8
  <2>7. /\ Into(i) \in Nat /\ Into(j) \in Nat /\ Into(k) \in Nat
        /\ block[j].dist \in Nat /\ Distance(i, j) \in Nat
    BY <1>2, <1>3, <1>4, <2>2
  <2>8. Into(i) <= Into(k) + Distance(i, k) /\ Into(k) <= Into(i) + Distance(i, k)
    BY <2>4, <2>5, <2>6, <2>7
  <2>9. QED
    BY <1>5, <2>1, <2>2, <2>8
<1>9. \A j \in Queued : Ahead(tail, j) >= Ahead(tail, i) => j \in T
  BY <1>1, <1>6, <1>8, LaterInduction
<1>10. Into(i) <= Distance(i, head)
  <2>1. PICK last : last = PrevIndex(head)
    OBVIOUS
  <2>2. last \in Queued /\ last \in Index /\ NextIndex(last) = head
    BY <1>1, <2>1, BetweenIs, Around
  <2>3. Ahead(tail, last) >= Ahead(tail, i)
    <3>1. PICK a \in 0 .. BlockBufferSize - 1, b \in 0 .. BlockBufferSize - 1 :
            a = Ahead(tail, i) /\ b = Ahead(tail, head)
      BY <1>1, <1>2, AheadRange, Size DEF Index
    <3>2. Ahead(tail, last) = b - 1
      BY <1>1, <2>1, <3>1, AheadSteps
    <3>3. a < b
      BY <1>1, <3>1 DEF Between
    <3>4. QED
      BY <3>1, <3>2, <3>3
  <2>4. Exit(block, last, head) = 0
    BY <2>2 DEF Exit
  <2>5. Into(last) <= 0 + block[last].dist /\ Into(i) <= Into(last) + Distance(i, last)
    BY <1>5, <1>9, <2>2, <2>3, <2>4 DEF Possible
  <2>6. Distance(i, head) = Distance(i, last) + block[last].dist
    BY <1>7, <2>2, <2>3
  <2>7. /\ Into(i) \in Nat /\ Into(last) \in Nat /\ block[last].dist \in Nat /\ Distance(i, last) \in Nat
    BY <1>2, <1>3, <1>4, <2>2
  <2>8. QED
    BY <2>5, <2>6, <2>7
<1>11. QED
  BY <1>2, <1>3, <1>5, <1>9, <1>10

\* The set of which BestEntry is the least.
Bounds(i) ==
  {block[j].maxEntry + Distance(i, j) : j \in {k \in Queued : Ahead(tail, k) >= Ahead(tail, i)}}
  \cup {block[j].maxEntry + Distance(j, i) :
          j \in {k \in Queued : k # tail /\ Ahead(tail, k) < Ahead(tail, i)}}
  \cup {TailSpeed + Distance(tail, i), Distance(i, head)}

\* A bound on the speed into block i, and what it is.
BoundAt(i, x) ==
  \/ \E j \in Queued : Ahead(tail, j) >= Ahead(tail, i) /\ x = block[j].maxEntry + Distance(i, j)
  \/ \E j \in Queued \ {tail} : Ahead(tail, j) < Ahead(tail, i) /\ x = block[j].maxEntry + Distance(j, i)
  \/ x = TailSpeed + Distance(tail, i)
  \/ x = Distance(i, head)

\* The set of bounds, as a predicate.
LEMMA BoundsAre ==
  ASSUME NEW i, NEW x
  PROVE  x \in Bounds(i) <=> BoundAt(i, x)
  BY DEF Bounds, BoundAt

\* The order of the queue.
LEMMA QueueOrder ==
  ASSUME NEW t \in Index, NEW h \in Index, t # h
  PROVE  /\ \A i \in Between(t, h) : Ahead(t, i) \in Nat
         /\ \A i \in Between(t, h) : i # t => Ahead(t, i) > Ahead(t, t)
         /\ \A i \in Between(t, h) : i # t => Ahead(t, PrevIndex(i)) = Ahead(t, i) - 1
         /\ \A i \in Between(t, h) : NextIndex(i) # h => Ahead(t, NextIndex(i)) = Ahead(t, i) + 1
         /\ \A i \in Between(t, h), j \in Between(t, h) : Ahead(t, i) = Ahead(t, j) => i = j
<1>1. Between(t, h) \subseteq Index /\ Ahead(t, t) = 0
  BY BetweenIs, AheadRange
<1>2. \A i \in Index : Ahead(t, i) \in Index /\ (Ahead(t, i) = 0 <=> t = i)
  BY AheadRange
<1>3. Index \subseteq Nat
  BY DEF Index
<1>4. \A i \in Between(t, h) : Ahead(t, i) \in Nat
  BY <1>1, <1>2, <1>3
<1>5. ASSUME NEW i \in Between(t, h), i # t PROVE Ahead(t, i) > Ahead(t, t)
  <2>1. Ahead(t, i) \in Nat /\ Ahead(t, i) # 0
    BY <1>1, <1>2, <1>4, <1>5
  <2>2. QED
    BY <1>1, <2>1
<1>6. ASSUME NEW i \in Between(t, h), i # t PROVE Ahead(t, PrevIndex(i)) = Ahead(t, i) - 1
  BY <1>1, <1>6, AheadSteps
<1>7. ASSUME NEW i \in Between(t, h), NextIndex(i) # h PROVE Ahead(t, NextIndex(i)) = Ahead(t, i) + 1
  <2>1. i \in Index /\ i # PrevIndex(h)
    BY <1>1, <1>7, Around
  <2>2. t # NextIndex(i)
    BY <2>1, BetweenIs
  <2>3. QED
    BY <2>1, <2>2, AheadSteps
<1>8. \A i \in Between(t, h), j \in Between(t, h) : Ahead(t, i) = Ahead(t, j) => i = j
  BY <1>1, AheadInjective
<1>9. QED
  BY <1>4, <1>5, <1>6, <1>7, <1>8

\* No bound is below the speed of a plan that is possible.
LEMMA BoundsAbove ==
  ASSUME TypeOK, ~IsEmpty, Possible, NEW i \in Queued \ {tail}, NEW x, BoundAt(i, x)
  PROVE  block[i].entry <= x
<1>1. /\ tail \in Index /\ head \in Index /\ tail # head /\ Queued = Between(tail, head) /\ block \in Blocks
  BY TypesUsed, QueuedIs DEF IsEmpty
<1>2. Queued \subseteq Index /\ tail \in Queued
  BY <1>1, BetweenIs
<1>3. Into(i) = block[i].entry /\ Into(tail) = TailSpeed
  BY DEF Into
<1>4. Into(i) \in Nat /\ Into(i) <= Distance(i, head)
  BY WithinDistance
<1>5. ASSUME NEW j \in Queued, Ahead(tail, j) >= Ahead(tail, i) PROVE Into(i) <= block[j].maxEntry + Distance(i, j)
  <2>1. Into(i) <= Into(j) + Distance(i, j) /\ Into(j) \in Nat
    BY <1>5, WithinDistance
  <2>2. j # tail
    BY <1>1, <1>5, QueueOrder
  <2>3. Into(j) <= block[j].maxEntry
    BY <2>2 DEF Possible
  <2>4. block[j].maxEntry \in Nat /\ Distance(i, j) \in Nat
    BY <1>1, <1>2, ExitNat, DistanceIs
  <2>5. QED
    BY <1>4, <2>1, <2>3, <2>4
<1>6. ASSUME NEW j \in Queued, Ahead(tail, j) < Ahead(tail, i)
      PROVE  Into(i) <= Into(j) + Distance(j, i) /\ Into(j) \in Nat /\ Distance(j, i) \in Nat
             /\ (j # tail => Into(j) <= block[j].maxEntry)
  <2>1. Ahead(tail, i) >= Ahead(tail, j)
    BY <1>1, <1>6, QueueOrder
  <2>2. Distance(j, i) \in Nat
    BY <1>2, DistanceIs
  <2>3. QED
    BY <2>1, <2>2, WithinDistance DEF Possible
<1>7. ASSUME NEW j \in Queued \ {tail}, Ahead(tail, j) < Ahead(tail, i)
      PROVE  Into(i) <= block[j].maxEntry + Distance(j, i)
  <2>1. block[j].maxEntry \in Nat
    BY <1>1, <1>2, ExitNat
  <2>2. QED
    BY <1>4, <1>6, <1>7, <2>1
<1>8. Into(i) <= TailSpeed + Distance(tail, i)
  <2>1. Ahead(tail, tail) < Ahead(tail, i)
    BY <1>1, QueueOrder
  <2>2. QED
    BY <1>2, <1>3, <1>6, <2>1
<1>9. QED
  BY <1>3, <1>4, <1>5, <1>7, <1>8 DEF BoundAt

\* A plan that is possible and that something limits at every block is the
\* fastest one.
LEMMA FastestPlan ==
  ASSUME TypeOK, ~IsEmpty, Possible, HasLength,
         \A i \in Queued \ {tail} : AtCorner(i) \/ Braking(i) \/ Accelerating(i)
  PROVE  \A i \in Queued \ {tail} : block[i].entry = BestEntry(i)
<1>1. /\ tail \in Index /\ head \in Index /\ tail # head /\ Queued = Between(tail, head) /\ block \in Blocks
  BY TypesUsed, QueuedIs DEF IsEmpty
<1>2. Queued \subseteq Index /\ tail \in Queued
  BY <1>1, BetweenIs
<1>3. \A i \in Queued : block[i].dist \in Nat /\ block[i].dist > 0 /\ block[i].entry \in Nat /\ block[i].maxEntry \in Nat
  BY <1>1, <1>2, ExitNat DEF HasLength
<1>4. \A i \in Index, j \in Index : Distance(i, j) \in Nat
  BY DistanceIs
<1>5. TailSpeed \in Nat
  BY <1>1, TypesUsed, ExitNat DEF TailSpeed
<1>6. \A i \in Queued \ {tail} : Into(i) = block[i].entry
  BY DEF Into
<1>7. ASSUME NEW i \in Queued \ {tail}, Accelerating(i), PrevIndex(i) # tail => BoundAt(PrevIndex(i), block[PrevIndex(i)].entry)
      PROVE  BoundAt(i, block[i].entry)
  <2>1. PICK k : k = PrevIndex(i)
    OBVIOUS
  <2>2. k \in Queued /\ k # i /\ NextIndex(k) = i /\ Ahead(tail, k) = Ahead(tail, i) - 1
    BY <1>1, <1>2, <2>1, BetweenIs, Around, QueueOrder
  <2>3. Ahead(tail, i) \in Nat /\ Ahead(tail, k) \in Nat /\ Ahead(tail, k) < Ahead(tail, i)
    BY <1>1, <2>2, QueueOrder
  <2>4. block[i].entry = Into(k) + block[k].dist
    BY <1>6, <1>7, <2>1 DEF Accelerating
  <2>5. \A j \in Queued : j # i => Distance(j, i) = Distance(j, k) + block[k].dist
    BY <1>2, <2>1, DistanceIs
  <2>6. \A j \in Index : j # k => Distance(k, j) = block[k].dist + Distance(i, j)
    BY <1>2, <2>2, DistanceFront
  <2>7. Distance(k, k) = 0
    BY <1>2, <2>2, DistanceIs
  <2>8. CASE k = tail
    <3>1. block[i].entry = TailSpeed + Distance(tail, i)
      BY <2>2, <2>4, <2>5, <2>7, <2>8, <1>3, <1>5 DEF Into
    <3>2. QED
      BY <3>1 DEF BoundAt
  <2>9. CASE k # tail
    <3>1. Into(k) = block[k].entry /\ BoundAt(k, block[k].entry)
      BY <1>7, <2>1, <2>9 DEF Into
    <3>2. PICK e \in Nat, d \in Nat : e = block[k].entry /\ d = block[k].dist /\ d > 0 /\ block[i].entry = e + d
      BY <1>3, <2>2, <2>4, <3>1
    <3>3. CASE \E j \in Queued : Ahead(tail, j) >= Ahead(tail, k) /\ e = block[j].maxEntry + Distance(k, j)
      <4>1. PICK j \in Queued : Ahead(tail, j) >= Ahead(tail, k) /\ e = block[j].maxEntry + Distance(k, j)
        BY <3>3
      <4>2. CASE j = k
        <5>1. Distance(k, i) = Distance(k, k) + d
          BY <2>2, <2>5, <3>2
        <5>2. block[i].entry = block[k].maxEntry + Distance(k, i)
          BY <1>3, <2>2, <2>7, <3>2, <4>1, <4>2, <5>1
        <5>3. QED
          BY <2>2, <2>3, <2>9, <5>2 DEF BoundAt
      <4>3. CASE j # k
        <5>1. Ahead(tail, j) >= Ahead(tail, i)
          <6>1. Ahead(tail, j) \in Nat /\ Ahead(tail, j) # Ahead(tail, k)
            BY <1>1, <2>2, <4>3, QueueOrder
          <6>2. QED
            BY <2>2, <2>3, <4>1, <6>1
        <5>2. block[i].entry <= block[j].maxEntry + Distance(i, j)
          <6>1. PICK x : x = block[j].maxEntry + Distance(i, j)
            OBVIOUS
          <6>2. BoundAt(i, x)
            BY <5>1, <6>1 DEF BoundAt
          <6>3. QED
            BY <6>1, <6>2, BoundsAbove
        <5>3. e = block[j].maxEntry + (d + Distance(i, j))
          BY <1>2, <2>6, <3>2, <4>1, <4>3
        <5>4. Distance(i, j) \in Nat /\ block[j].maxEntry \in Nat
          BY <1>2, <1>3, <1>4
        <5>5. FALSE
          BY <3>2, <5>2, <5>3, <5>4
        <5>6. QED
          BY <5>5
      <4>4. QED
        BY <4>2, <4>3
    <3>4. CASE \E j \in Queued \ {tail} : Ahead(tail, j) < Ahead(tail, k) /\ e = block[j].maxEntry + Distance(j, k)
      <4>1. PICK j \in Queued \ {tail} : Ahead(tail, j) < Ahead(tail, k) /\ e = block[j].maxEntry + Distance(j, k)
        BY <3>4
      <4>2. Ahead(tail, j) < Ahead(tail, i) /\ j # i
        <5>1. Ahead(tail, j) \in Nat
          BY <1>1, QueueOrder
        <5>2. Ahead(tail, j) < Ahead(tail, i)
          BY <2>3, <4>1, <5>1
        <5>3. QED
          BY <2>3, <5>2
      <4>3. Distance(j, i) = Distance(j, k) + d
        BY <2>5, <3>2, <4>2
      <4>4. Distance(j, k) \in Nat /\ block[j].maxEntry \in Nat
        BY <1>2, <1>3, <1>4, <2>2
      <4>5. block[i].entry = block[j].maxEntry + Distance(j, i)
        BY <3>2, <4>1, <4>3, <4>4
      <4>6. QED
        BY <4>2, <4>5 DEF BoundAt
    <3>5. CASE e = TailSpeed + Distance(tail, k)
      <4>1. Distance(tail, i) = Distance(tail, k) + d /\ Distance(tail, k) \in Nat
        BY <1>2, <1>4, <2>2, <2>5, <3>2
      <4>2. block[i].entry = TailSpeed + Distance(tail, i)
        BY <1>5, <3>2, <3>5, <4>1
      <4>3. QED
        BY <4>2 DEF BoundAt
    <3>6. CASE e = Distance(k, head)
      <4>1. k # head /\ Distance(i, head) \in Nat
        BY <1>1, <1>2, <1>4, <2>2, BetweenIs
      <4>2. e = d + Distance(i, head)
        BY <1>1, <2>6, <3>2, <3>6, <4>1
      <4>3. block[i].entry <= Distance(i, head)
        <5>1. BoundAt(i, Distance(i, head))
          BY DEF BoundAt
        <5>2. QED
          BY <5>1, BoundsAbove
      <4>4. FALSE
        BY <3>2, <4>1, <4>2, <4>3
      <4>5. QED
        BY <4>4
    <3>7. QED
      BY <3>1, <3>2, <3>3, <3>4, <3>5, <3>6 DEF BoundAt
  <2>10. QED
    BY <2>8, <2>9
<1>8. ASSUME NEW i \in Queued \ {tail}, Braking(i), NextIndex(i) # head => BoundAt(NextIndex(i), block[NextIndex(i)].entry)
      PROVE  BoundAt(i, block[i].entry)
  <2>1. PICK k \in Index : k = NextIndex(i) /\ k # i /\ PrevIndex(k) = i
    BY <1>2, Around
  <2>2. block[i].entry = Exit(block, i, head) + block[i].dist
    BY <1>6, <1>8 DEF Braking
  <2>3. \A j \in Index : j # i => Distance(i, j) = block[i].dist + Distance(k, j)
    BY <1>2, <2>1, DistanceFront
  <2>4. \A j \in Index : j # k => Distance(j, k) = Distance(j, i) + block[i].dist
    BY <1>2, <2>1, DistanceIs
  <2>5. i # head
    BY <1>1, BetweenIs
  <2>6. CASE k = head
    <3>1. Distance(i, head) = block[i].dist + Distance(head, head) /\ Distance(head, head) = 0
      BY <1>1, <2>3, <2>5, <2>6, DistanceIs
    <3>2. block[i].entry = Distance(i, head)
      BY <1>3, <2>1, <2>2, <2>6, <3>1 DEF Exit
    <3>3. QED
      BY <3>2 DEF BoundAt
  <2>7. CASE k # head
    <3>1. k \in Queued \ {tail} /\ Ahead(tail, k) = Ahead(tail, i) + 1
      <4>1. i # PrevIndex(head)
        BY <1>1, <2>1, <2>7, Around
      <4>2. QED
        BY <1>1, <2>1, <2>7, <4>1, BetweenIs, QueueOrder
    <3>2. PICK e \in Nat, d \in Nat : e = block[k].entry /\ d = block[i].dist /\ d > 0 /\ block[i].entry = e + d
      BY <1>3, <2>1, <2>2, <2>7, <3>1 DEF Exit
    <3>3. BoundAt(k, e)
      BY <1>8, <2>1, <2>7, <3>2
    <3>4. PICK a \in Nat : a = Ahead(tail, i) /\ Ahead(tail, k) = a + 1
      BY <1>1, <3>1, QueueOrder
    <3>5. CASE \E j \in Queued : Ahead(tail, j) >= Ahead(tail, k) /\ e = block[j].maxEntry + Distance(k, j)
      <4>1. PICK j \in Queued : Ahead(tail, j) >= Ahead(tail, k) /\ e = block[j].maxEntry + Distance(k, j)
        BY <3>5
      <4>2. Ahead(tail, j) >= Ahead(tail, i) /\ j # i
        <5>1. Ahead(tail, j) \in Nat
          BY <1>1, QueueOrder
        <5>2. QED
          BY <3>4, <4>1, <5>1
      <4>3. Distance(i, j) = d + Distance(k, j) /\ Distance(k, j) \in Nat /\ block[j].maxEntry \in Nat
        BY <1>2, <1>3, <1>4, <2>3, <3>2, <4>2
      <4>4. block[i].entry = block[j].maxEntry + Distance(i, j)
        BY <3>2, <4>1, <4>3
      <4>5. QED
        BY <4>2, <4>4 DEF BoundAt
    <3>6. CASE \E j \in Queued \ {tail} : Ahead(tail, j) < Ahead(tail, k) /\ e = block[j].maxEntry + Distance(j, k)
      <4>1. PICK j \in Queued \ {tail} : Ahead(tail, j) < Ahead(tail, k) /\ e = block[j].maxEntry + Distance(j, k)
        BY <3>6
      <4>2. PICK b \in Nat : b = Ahead(tail, j) /\ b < a + 1
        BY <1>1, <3>4, <4>1, QueueOrder
      <4>3. j # k /\ j \in Index
        BY <1>2, <3>4, <4>2
      <4>4. Distance(j, k) = Distance(j, i) + d /\ Distance(j, i) \in Nat /\ block[j].maxEntry \in Nat
        BY <1>2, <1>3, <1>4, <2>4, <3>2, <4>3
      <4>5. block[i].entry <= block[j].maxEntry + Distance(j, i)
        <5>1. CASE b < a
          <6>1. PICK x : x = block[j].maxEntry + Distance(j, i)
            OBVIOUS
          <6>2. BoundAt(i, x)
            BY <3>4, <4>2, <5>1, <6>1 DEF BoundAt
          <6>3. QED
            BY <6>1, <6>2, BoundsAbove
        <5>2. CASE b = a
          <6>1. j = i
            BY <1>1, <3>4, <4>2, <5>2, QueueOrder
          <6>2. block[i].entry <= block[i].maxEntry
            BY <1>6 DEF Possible
          <6>3. QED
            BY <3>2, <4>4, <6>1, <6>2
        <5>3. QED
          BY <4>2, <5>1, <5>2
      <4>6. FALSE
        BY <3>2, <4>1, <4>4, <4>5
      <4>7. QED
        BY <4>6
    <3>7. CASE e = TailSpeed + Distance(tail, k)
      <4>1. Distance(tail, k) = Distance(tail, i) + d /\ Distance(tail, i) \in Nat
        BY <1>2, <1>4, <2>4, <3>1, <3>2
      <4>2. block[i].entry <= TailSpeed + Distance(tail, i)
        <5>1. PICK x : x = TailSpeed + Distance(tail, i)
          OBVIOUS
        <5>2. BoundAt(i, x)
          BY <5>1 DEF BoundAt
        <5>3. QED
          BY <5>1, <5>2, BoundsAbove
      <4>3. FALSE
        BY <1>5, <3>2, <3>7, <4>1, <4>2
      <4>4. QED
        BY <4>3
    <3>8. CASE e = Distance(k, head)
      <4>1. Distance(i, head) = d + Distance(k, head) /\ Distance(k, head) \in Nat
        BY <1>1, <1>4, <2>1, <2>3, <2>5, <3>2
      <4>2. block[i].entry = Distance(i, head)
        BY <3>2, <3>8, <4>1
      <4>3. QED
        BY <4>2 DEF BoundAt
    <3>9. QED
      BY <3>3, <3>5, <3>6, <3>7, <3>8 DEF BoundAt
  <2>8. QED
    BY <2>6, <2>7
\* The block with the least speed among those whose speed is no bound would be
\* limited by a block with a lower speed.
<1>9. \A i \in Queued \ {tail} : BoundAt(i, block[i].entry)
  <2>1. PICK U : U = {i \in Queued \ {tail} : ~BoundAt(i, block[i].entry)}
    OBVIOUS
  <2>2. SUFFICES ASSUME U # {} PROVE FALSE
    BY <2>1
  <2>3. PICK E : E = {block[i].entry : i \in U}
    OBVIOUS
  <2>4. E \subseteq Nat /\ E # {}
    BY <1>3, <2>1, <2>2, <2>3
  <2>5. PICK m \in E : \A n \in E : m <= n
    BY <2>4, LeastNumber
  <2>6. PICK i \in U : m = block[i].entry
    BY <2>3
  <2>7. i \in Queued \ {tail} /\ ~BoundAt(i, block[i].entry)
    BY <2>1
  <2>8. ASSUME NEW k \in Queued \ {tail}, block[k].entry < block[i].entry
        PROVE  BoundAt(k, block[k].entry)
    <3>1. k \in U => m <= block[k].entry
      BY <2>3, <2>5
    <3>2. k \notin U
      BY <1>3, <2>6, <2>7, <2>8, <3>1
    <3>3. QED
      BY <2>1, <3>2
  <2>9. CASE AtCorner(i)
    <3>1. Distance(i, i) = 0 /\ block[i].entry = block[i].maxEntry
      BY <1>2, <1>6, <2>7, <2>9, DistanceIs DEF AtCorner
    <3>2. block[i].entry = block[i].maxEntry + Distance(i, i)
      BY <1>3, <2>7, <3>1
    <3>3. Ahead(tail, i) >= Ahead(tail, i)
      BY <1>1, <2>7, QueueOrder
    <3>4. QED
      BY <2>7, <3>2, <3>3 DEF BoundAt
  <2>10. CASE Accelerating(i)
    <3>1. ASSUME PrevIndex(i) # tail PROVE BoundAt(PrevIndex(i), block[PrevIndex(i)].entry)
      <4>1. PICK k \in Queued \ {tail} : k = PrevIndex(i)
        BY <1>1, <2>7, <3>1, BetweenIs
      <4>2. block[i].entry = block[k].entry + block[k].dist
        BY <1>6, <2>7, <2>10, <4>1 DEF Accelerating
      <4>3. block[k].entry < block[i].entry
        BY <1>3, <4>2
      <4>4. QED
        BY <2>8, <4>1, <4>3
    <3>2. QED
      BY <1>7, <2>7, <2>10, <3>1
  <2>11. CASE Braking(i)
    <3>1. ASSUME NextIndex(i) # head PROVE BoundAt(NextIndex(i), block[NextIndex(i)].entry)
      <4>1. PICK k \in Queued \ {tail} : k = NextIndex(i)
        <5>1. i # PrevIndex(head)
          BY <1>1, <1>2, <2>7, <3>1, Around
        <5>2. QED
          BY <1>1, <2>7, <5>1, BetweenIs
      <4>2. block[i].entry = block[k].entry + block[i].dist
        BY <1>6, <2>7, <2>11, <3>1, <4>1 DEF Braking, Exit
      <4>3. block[k].entry < block[i].entry
        BY <1>3, <2>7, <4>2
      <4>4. QED
        BY <2>8, <4>1, <4>3
    <3>2. QED
      BY <1>8, <2>7, <2>11, <3>1
  <2>12. QED
    BY <2>7, <2>9, <2>10, <2>11
<1>10. ASSUME NEW i \in Queued \ {tail} PROVE block[i].entry = BestEntry(i)
  <2>1. PICK B : B = Bounds(i)
    OBVIOUS
  <2>2. BestEntry(i) = Min(B)
    BY <2>1 DEF BestEntry, Bounds
  <2>3. block[i].entry \in B
    BY <1>9, <2>1, BoundsAre
  <2>4. \A x \in B : block[i].entry <= x
    BY <2>1, BoundsAre, BoundsAbove
  <2>5. B \subseteq Int
    BY <1>1, <1>2, <1>3, <1>4, <1>5, <2>1 DEF Bounds
  <2>6. \A x \in B : (\A y \in B : x <= y) => x = block[i].entry
    <3>1. block[i].entry \in Int
      BY <1>3
    <3>2. QED
      BY <2>3, <2>4, <2>5, <3>1
  <2>7. QED
    BY <2>2, <2>3, <2>4, <2>6 DEF Min
<1>11. QED
  BY <1>10

-----------------------------------------------------------------------------
(* Why nothing more can be had: what limits each block. *)

\* With v as the speed into the block at t: block i is as fast as its corner or
\* the block before it allows, or as fast as the block behind it allows.
InSpeed(b, t, v, i) == IF i = t THEN v ELSE b[i].entry
Pressed(b, t, v, i) ==
  \/ InSpeed(b, t, v, i) = b[i].maxEntry
  \/ InSpeed(b, t, v, i) = InSpeed(b, t, v, PrevIndex(i)) + b[PrevIndex(i)].dist
Limited(b, t, v, h, i) ==
  \/ Pressed(b, t, v, i)
  \/ InSpeed(b, t, v, i) = Exit(b, i, h) + b[i].dist

\* The two passes leave a limit at every block they reach, and move the planned
\* pointer to one that the blocks behind it do not limit.
LEMMA ReplansTight ==
  ASSUME NEW b \in Blocks, NEW h \in Index, NEW p \in Index, NEW c, NEW q, Replans(b, h, p, c, q)
  PROVE  /\ \A i \in Reach(h, p) :
              \/ c[i].entry = c[i].maxEntry
              \/ c[i].entry = c[PrevIndex(i)].entry + c[PrevIndex(i)].dist
              \/ c[i].entry = Exit(c, i, h) + c[i].dist
         /\ q \in Reach(h, p) => \/ c[q].entry = c[q].maxEntry
                                 \/ c[q].entry = c[PrevIndex(q)].entry + c[PrevIndex(q)].dist
<1>1. CASE p = PrevIndex(h)
  <2>1. Plannable(h, p) = 0
    BY <1>1, PlannableIs
  <2>2. Reach(h, p) = {}
    BY <2>1 DEF Reach
  <2>3. QED
    BY <2>2
<1>2. CASE p # PrevIndex(h)
  <2>1. PICK last \in Index : last = PrevIndex(h)
    BY Around
  <2>2. PICK r \in Blocks : /\ Reversed(b, r, h, p)
                            /\ Forwarded(r, c, h, p) /\ LastSettled(r, c, h, p, q)
    BY <1>2 DEF Replans
  <2>3. c \in Blocks /\ Reach(h, p) \subseteq Index /\ \A i \in Index : SameBut(b[i], c[i])
    BY ReplansWithin DEF Reach
  <2>4. \A i \in Index : /\ b[i].dist = c[i].dist /\ b[i].maxEntry = c[i].maxEntry
                         /\ r[i].dist = c[i].dist /\ r[i].maxEntry = c[i].maxEntry
    BY <2>2, <2>3 DEF Reversed, OnlyEntries, SameBut
  <2>5. \A i \in Index : /\ b[i] \in Block /\ b[i].entry \in Nat /\ r[i].entry \in Nat /\ c[i].entry \in Nat
                         /\ c[i].dist \in Nat /\ c[i].maxEntry \in Nat
    BY <2>2, <2>3, ExitNat DEF Blocks
  <2>6. ASSUME NEW i \in Reach(h, p)
        PROVE  c[i].entry = r[i].entry \/ c[i].entry = c[PrevIndex(i)].entry + c[PrevIndex(i)].dist
    <3>1. i \in Index /\ PrevIndex(i) \in Index
      BY <2>3, Around
    <3>2. c[i].entry = Forwards(c[PrevIndex(i)].entry, c[PrevIndex(i)].dist, r[i].entry)
      BY <2>2, <2>4, <3>1 DEF Forwarded
    <3>3. PICK x \in Nat, d \in Nat, y \in Nat :
            x = c[PrevIndex(i)].entry /\ d = c[PrevIndex(i)].dist /\ y = r[i].entry
      BY <2>5, <3>1
    <3>4. Forwards(x, d, y) = y \/ Forwards(x, d, y) = x + d
      BY ForwardsIs
    <3>5. QED
      BY <3>2, <3>3, <3>4
  <2>7. ASSUME NEW i \in Reach(h, p), c[i].entry = r[i].entry
        PROVE  c[i].entry = c[i].maxEntry \/ c[i].entry = Exit(c, i, h) + c[i].dist
    <3>1. CASE i = last
      <4>1. NextIndex(i) = h
        BY <2>1, <3>1, Around
      <4>2. Exit(c, i, h) = 0
        BY <4>1 DEF Exit
      <4>3. r[i].entry = Least(c[i].maxEntry, c[i].dist)
        BY <2>1, <2>2, <2>3, <2>4, <3>1 DEF Reversed
      <4>4. Least(c[i].maxEntry, c[i].dist) = c[i].maxEntry \/ Least(c[i].maxEntry, c[i].dist) = c[i].dist
        BY DEF Least
      <4>5. c[i].dist = 0 + c[i].dist
        BY <2>3, <2>5
      <4>6. QED
        BY <2>7, <4>2, <4>3, <4>4, <4>5
    <3>2. CASE i # last
      <4>1. PICK j \in Index : j = NextIndex(i) /\ i \in Index
        BY <2>3, Around
      <4>2. j \in Reach(h, p) /\ j # h /\ PrevIndex(j) = i
        BY <2>1, <3>2, <4>1, ReachSteps, Around
      <4>3. PICK x \in Nat, d \in Nat, y \in Nat : x = c[i].entry /\ d = c[i].dist /\ y = r[j].entry
        BY <2>5, <4>1
      <4>4. c[j].entry = Forwards(x, d, y)
        BY <2>2, <2>4, <4>1, <4>2, <4>3 DEF Forwarded
      <4>5. x = Backwards(b[i], y)
        BY <2>1, <2>2, <2>7, <3>2, <4>1, <4>3 DEF Reversed
      <4>6. x = b[i].maxEntry \/ x = y + b[i].dist
        BY <2>5, <4>1, <4>5, BackwardsIs
      <4>7. x = y + d => c[j].entry = y
        BY <4>4 DEF Forwards
      <4>8. Exit(c, i, h) = c[j].entry
        BY <4>1, <4>2 DEF Exit
      <4>9. QED
        BY <2>4, <4>1, <4>3, <4>6, <4>7, <4>8
    <3>3. QED
      BY <3>1, <3>2
  <2>8. ASSUME q \in Reach(h, p)
        PROVE  \/ c[q].entry = c[q].maxEntry
               \/ c[q].entry = c[PrevIndex(q)].entry + c[PrevIndex(q)].dist
    <3>1. q # p /\ q \in Index
      BY <2>8, ReachSteps
    <3>2. c[q].entry < r[q].entry \/ c[q].entry = r[q].maxEntry
      BY <2>2, <3>1 DEF LastSettled, SettledAt
    <3>3. c[q].entry \in Nat /\ r[q].entry \in Nat /\ r[q].maxEntry = c[q].maxEntry
      BY <2>4, <2>5, <3>1
    <3>4. QED
      BY <2>6, <2>8, <3>2, <3>3
  <2>9. QED
    BY <2>6, <2>7, <2>8
<1>3. QED
  BY <1>1, <1>2

\* The same for a whole queue, part of which is planned again.
LEMMA QueueTight ==
  ASSUME NEW t \in Index, NEW h \in Index, t # h, NEW p \in Between(t, h),
         NEW b \in Blocks, NEW c, NEW q, Replans(b, h, p, c, q), NEW v,
         p = t => v = b[t].entry,
         p # t => Pressed(b, t, v, p),
         \A i \in Between(t, h) \ ({t, p} \cup Reach(h, p)) : Limited(b, t, v, h, i)
  PROVE  /\ \A i \in Between(t, h) \ {t} : Limited(c, t, v, h, i)
         /\ q # t => Pressed(c, t, v, q)
         /\ q \in Between(t, h)
<1>1. p \in Index /\ Between(t, h) \subseteq Index
  BY DEF Between
<1>2. Reach(h, p) \subseteq Between(t, h) \ {t}
  BY BetweenReach
<1>3. /\ \A i \in Index : SameBut(b[i], c[i])
      /\ \A i \in Index \ Reach(h, p) : c[i] = b[i]
      /\ q = p \/ q \in Reach(h, p)
  BY <1>1, ReplansWithin
<1>4. ASSUME NEW i \in Between(t, h) \ ({t} \cup Reach(h, p))
      PROVE  PrevIndex(i) \in Index \ Reach(h, p)
  <2>1. PICK k \in Index : k = PrevIndex(i) /\ NextIndex(k) = i
    BY <1>1, Around
  <2>2. k # PrevIndex(h)
    BY <1>4, <2>1, BetweenIs
  <2>3. QED
    BY <1>1, <2>1, <2>2, ReachSteps
<1>5. ASSUME NEW i \in Between(t, h) \ ({t} \cup Reach(h, p)), Pressed(b, t, v, i)
      PROVE  Pressed(c, t, v, i)
  <2>1. c[i] = b[i] /\ c[PrevIndex(i)] = b[PrevIndex(i)]
    BY <1>1, <1>3, <1>4
  <2>2. QED
    BY <1>5, <2>1 DEF Pressed, InSpeed
<1>6. ASSUME NEW i \in Between(t, h) \ ({t, p} \cup Reach(h, p))
      PROVE  Limited(c, t, v, h, i)
  <2>1. PICK j \in Index : j = NextIndex(i)
    BY <1>1, Around
  <2>2. j \notin Reach(h, p)
    <3>1. PrevIndex(j) = i
      BY <1>1, <2>1, Around
    <3>2. QED
      BY <1>1, <1>6, <3>1, ReachSteps
  <2>3. Exit(c, i, h) = Exit(b, i, h) /\ c[i] = b[i]
    BY <1>1, <1>3, <2>1, <2>2 DEF Exit
  <2>4. InSpeed(c, t, v, i) = InSpeed(b, t, v, i)
    BY <2>3 DEF InSpeed
  <2>5. QED
    BY <1>5, <2>3, <2>4 DEF Limited
<1>7. ASSUME NEW i \in Reach(h, p)
      PROVE  /\ InSpeed(c, t, v, i) = c[i].entry
             /\ InSpeed(c, t, v, PrevIndex(i)) = c[PrevIndex(i)].entry
  <2>1. i # t
    BY <1>2
  <2>2. ASSUME PrevIndex(i) = t PROVE v = c[t].entry
    <3>1. p = t
      BY <1>1, <1>2, <2>2, ReachSteps
    <3>2. c[t] = b[t]
      BY <1>2, <1>3
    <3>3. QED
      BY <3>1, <3>2
  <2>3. QED
    BY <2>1, <2>2 DEF InSpeed
<1>8. ASSUME NEW i \in Reach(h, p) PROVE Limited(c, t, v, h, i)
  <2>1. \/ c[i].entry = c[i].maxEntry
        \/ c[i].entry = c[PrevIndex(i)].entry + c[PrevIndex(i)].dist
        \/ c[i].entry = Exit(c, i, h) + c[i].dist
    BY <1>1, ReplansTight
  <2>2. QED
    BY <1>7, <2>1 DEF Limited, Pressed
<1>9. ASSUME q # t PROVE Pressed(c, t, v, q)
  <2>1. CASE q \in Reach(h, p)
    <3>1. c[q].entry = c[q].maxEntry \/ c[q].entry = c[PrevIndex(q)].entry + c[PrevIndex(q)].dist
      BY <1>1, <2>1, ReplansTight
    <3>2. QED
      BY <1>7, <2>1, <3>1 DEF Pressed
  <2>2. CASE q = p
    <3>1. p \notin Reach(h, p)
      BY <1>1, ReachIs
    <3>2. QED
      BY <1>5, <1>9, <2>2, <3>1
  <2>3. QED
    BY <1>3, <2>1, <2>2
<1>10. ASSUME NEW i \in Between(t, h) \ {t} PROVE Limited(c, t, v, h, i)
  <2>1. CASE i \in Reach(h, p)
    BY <1>8, <2>1
  <2>2. CASE i = p /\ i \notin Reach(h, p)
    BY <1>5, <1>10, <2>2 DEF Limited
  <2>3. CASE i # p /\ i \notin Reach(h, p)
    BY <1>6, <1>10, <2>3
  <2>4. QED
    BY <2>1, <2>2, <2>3
<1>11. q \in Between(t, h)
  BY <1>2, <1>3
<1>12. QED
  BY <1>9, <1>10, <1>11

\* Without an override something limits every block of the queue; what limits
\* the block that the planned pointer points to is not behind it.
Undisturbed == ~overridden /\ ~Hold
Tight == Undisturbed => \A i \in Queued \ {tail} : Limited(block, tail, TailSpeed, head, i)
Pinned == Undisturbed /\ ~IsEmpty /\ planned # tail => Pressed(block, tail, TailSpeed, planned)

\* All of it.
FastestInv == MotionInv /\ HasLength /\ Tight /\ Pinned

\* The empty ring has nothing to limit.
THEOREM FastestInvInit ==
  ASSUME Init
  PROVE  FastestInv
<1>1. MotionInv
  BY MotionInvInit
<1>2. IsEmpty /\ tail \in Index
  BY Size DEF Init, IsEmpty, Index
<1>3. Queued = {}
  BY <1>2, BetweenNone, QueuedIs DEF IsEmpty
<1>4. QED
  BY <1>1, <1>2, <1>3 DEF FastestInv, HasLength, Tight, Pinned

\* An empty queue has nothing to limit.
LEMMA EmptyFastest ==
  ASSUME TypeOK', IsEmpty'
  PROVE  HasLength' /\ Tight' /\ Pinned'
<1>1. Queued' = {}
  <2>1. Queued' = Between(tail', head') /\ tail' \in Index /\ tail' = head'
    BY DEF Queued, Between, TypeOK, IsEmpty
  <2>2. QED
    BY <2>1, BetweenNone
<1>2. QED
  BY <1>1 DEF HasLength, Tight, Pinned

\* The first line of an empty ring.
LEMMA FirstLineFastest ==
  ASSUME FastestInv, NEW line \in Lines, BufferLine(line), IsEmpty
  PROVE  HasLength' /\ Tight' /\ Pinned'
<1>1. PlannerInv
  BY DEF FastestInv, MotionInv
<1>2. /\ PlanWithinQueue' /\ Queued' = {tail} /\ tail' = tail
      /\ block'[tail].dist > 0
  BY <1>1, FirstLine
<1>3. IsEmpty' \/ planned' = tail
  BY <1>2 DEF PlanWithinQueue
<1>4. QED
  BY <1>2, <1>3 DEF HasLength, Tight, Pinned

\* A line behind others: blocks before the planned pointer keep their limits, the
\* passes give the others theirs.
LEMMA NextLineFastest ==
  ASSUME FastestInv, NEW line \in Lines, BufferLine(line), ~IsEmpty
  PROVE  HasLength' /\ Tight' /\ Pinned'
<1>1. PlannerInv /\ TypeOK /\ HasLength /\ Tight /\ Pinned
  BY DEF FastestInv, MotionInv, PlannerInv
<1>2. PICK b : LineRing(b)
  BY <1>1, NextLineRing
<1>3. /\ tail \in Index /\ head \in Index /\ head # tail /\ nextHead = NextIndex(head)
      /\ nextHead \in Index /\ planned \in Index /\ PrevIndex(nextHead) = head
  BY <1>1, TypesUsed, Around DEF IsEmpty
<1>4. /\ b \in Blocks /\ Replans(b, nextHead, planned, block', planned')
      /\ tail' = tail /\ head' = nextHead /\ nextHead # tail
      /\ Queued' = Between(tail, nextHead) /\ Queued' = Queued \cup {head} /\ head \notin Queued
      /\ planned \in Queued /\ tail \in Queued /\ b[head].dist > 0
      /\ \A i \in Queued \ {tail} : b[i] = block[i]
      /\ SameBut(block[tail], b[tail]) /\ block'[tail] = b[tail]
  BY <1>2 DEF LineRing
<1>5. overridden' = overridden /\ Hold' = Hold
  BY DEF BufferLine, Hold
<1>6. Queued = Between(tail, head) /\ Queued \subseteq Index
  BY QueuedIs DEF Queued
<1>7. TailSpeed' = TailSpeed /\ (planned = tail => TailSpeed = b[tail].entry)
  <2>1. CASE planned = tail /\ prep' = Told /\ b[tail].entry = TailSpeed
    <3>1. PrepKept
      BY <1>1, <1>4, <2>1, ToldKeeps
    <3>2. QED
      BY <2>1, <3>1 DEF PrepKept
  <2>2. CASE planned # tail /\ prep' = prep /\ b[tail] = block[tail]
    <3>1. PrepKept
      BY <1>4, <2>2, KeptAsIs
    <3>2. QED
      BY <2>2, <3>1 DEF PrepKept
  <2>3. QED
    BY <1>2, <2>1, <2>2 DEF LineRing
<1>8. PICK v : v = TailSpeed
  OBVIOUS
<1>9. \A i \in Queued : block[i].dist = b[i].dist /\ InSpeed(b, tail, v, i) = InSpeed(block, tail, v, i)
                        /\ block[i].maxEntry = b[i].maxEntry
  BY <1>4 DEF SameBut, InSpeed
<1>10. \A i \in Queued \ {tail} : PrevIndex(i) \in Queued
  BY <1>3, <1>6, BetweenIs
<1>11. ASSUME NEW i \in Queued \ {tail}, Pressed(block, tail, v, i) PROVE Pressed(b, tail, v, i)
  BY <1>9, <1>10, <1>11 DEF Pressed
<1>12. ASSUME NEW i \in Queued' \ ({tail, planned} \cup Reach(nextHead, planned)), Undisturbed
       PROVE  Limited(b, tail, v, nextHead, i)
  <2>1. i # head /\ i \in Queued
    <3>1. head \in Reach(nextHead, planned)
      BY <1>2 DEF LineRing
    <3>2. QED
      BY <1>4, <1>12, <3>1
  <2>2. Limited(block, tail, v, head, i)
    BY <1>1, <1>8, <1>12, <2>1 DEF Tight
  <2>3. PICK j \in Index : j = NextIndex(i) /\ PrevIndex(j) = i /\ i \in Index
    BY <1>6, <2>1, Around
  <2>4. j # head
    <3>1. SUFFICES ASSUME j = head PROVE FALSE
      OBVIOUS
    <3>2. PrevIndex(head) = planned \/ PrevIndex(head) \in Reach(nextHead, planned)
      <4>1. head \in Reach(nextHead, planned)
        BY <1>2 DEF LineRing
      <4>2. QED
        BY <1>3, <4>1, ReachSteps
    <3>3. QED
      BY <1>12, <2>3, <3>1, <3>2
  <2>5. j \in Queued \ {tail}
    <3>1. i # PrevIndex(head)
      BY <1>3, <2>3, <2>4, Around
    <3>2. QED
      BY <1>3, <1>6, <2>1, <2>3, <3>1, BetweenIs
  <2>6. j # nextHead
    BY <1>3, <2>1, <2>3, <1>4, NextInjective
  <2>7. Exit(b, i, nextHead) = Exit(block, i, head)
    BY <1>4, <2>3, <2>4, <2>5, <2>6 DEF Exit
  <2>8. QED
    BY <1>9, <1>11, <1>12, <2>1, <2>2, <2>7 DEF Limited
<1>13. ASSUME planned # tail, Undisturbed PROVE Pressed(b, tail, v, planned)
  <2>1. Pressed(block, tail, v, planned)
    BY <1>1, <1>8, <1>13 DEF Pinned
  <2>2. QED
    BY <1>4, <1>11, <1>13, <2>1
<1>14. ASSUME Undisturbed
       PROVE  /\ \A i \in Queued' \ {tail} : Limited(block', tail, v, nextHead, i)
              /\ planned' # tail => Pressed(block', tail, v, planned')
  <2>1. planned \in Between(tail, nextHead) /\ Queued' = Between(tail, nextHead)
    BY <1>4
  <2>2. \A i \in Between(tail, nextHead) \ ({tail, planned} \cup Reach(nextHead, planned)) :
          Limited(b, tail, v, nextHead, i)
    BY <1>12, <1>14, <2>1
  <2>3. (planned = tail => v = b[tail].entry) /\ (planned # tail => Pressed(b, tail, v, planned))
    BY <1>7, <1>8, <1>13, <1>14
  <2>4. QED
    BY <1>3, <1>4, <2>1, <2>2, <2>3, QueueTight
<1>15. HasLength'
  <2>1. \A i \in Index : SameBut(b[i], block'[i])
    BY <1>3, <1>4, ReplansWithin
  <2>2. \A i \in Queued' : b[i].dist > 0 /\ i \in Index
    BY <1>1, <1>3, <1>4, <1>6, <1>9 DEF HasLength
  <2>3. QED
    BY <2>1, <2>2 DEF HasLength, SameBut
<1>16. Undisturbed' <=> Undisturbed
  BY <1>5 DEF Undisturbed
<1>17. TailSpeed' = v /\ tail' = tail /\ head' = nextHead
  BY <1>4, <1>7, <1>8
<1>18. Tight'
  BY <1>14, <1>16, <1>17 DEF Tight
<1>19. Pinned'
  BY <1>14, <1>16, <1>17 DEF Pinned
<1>20. QED
  BY <1>15, <1>18, <1>19

\* A step that plans the whole queue again keeps every block's distance.
LEMMA DistancesKept ==
  ASSUME HasLength, tail' = tail, head' = head, \A i \in Index : block'[i].dist = block[i].dist
  PROVE  HasLength'
<1>1. Queued' = Queued /\ Queued \subseteq Index
  BY DEF Queued
<1>2. QED
  BY <1>1 DEF HasLength

\* An override: from here on the plan may not be the fastest, unless nothing was
\* queued.
LEMMA OverrideFastest ==
  ASSUME FastestInv, NEW o \in Overrides, Override(o[1], o[2])
  PROVE  HasLength' /\ Tight' /\ Pinned'
<1>1. PlannerInv /\ TypeOK /\ HasLength
  BY DEF FastestInv, MotionInv, PlannerInv
<1>2. o[1] \in Nat /\ o[2] \in Nat
  BY PlannerAssumption
<1>3. PICK b \in Blocks : /\ b = UpdatedProfile(block, o[1], o[2])
                          /\ \A i \in Index : b[i].dist = block[i].dist
  BY <1>1, <1>2, ProfileIs
<1>4. Reinitialize(b)
  BY <1>3 DEF Override
<1>5. /\ Replans(EntryNow(b), head, tail, block', planned')
      /\ EntryNow(b) \in Blocks
      /\ tail' = tail /\ head' = head
  BY <1>1, <1>4, ReinitializeIs
<1>6. tail \in Index /\ head \in Index
  BY <1>1, TypesUsed
<1>7. \A i \in Index : block'[i].dist = block[i].dist
  <2>1. \A i \in Index : SameBut(b[i], EntryNow(b)[i])
    BY <1>1, EntryNowIs
  <2>2. \A i \in Index : SameBut(EntryNow(b)[i], block'[i])
    BY <1>5, <1>6, ReplansWithin
  <2>3. QED
    BY <1>3, <2>1, <2>2 DEF SameBut
<1>8. HasLength'
  BY <1>1, <1>5, <1>7, DistancesKept
<1>9. CASE IsEmpty
  <2>1. IsEmpty'
    BY <1>5, <1>9 DEF IsEmpty
  <2>2. TypeOK'
    BY <1>1, OverrideKeeps DEF PlannerInv
  <2>3. QED
    BY <2>1, <2>2, EmptyFastest
<1>10. CASE ~IsEmpty
  <2>1. overridden'
    BY <1>10 DEF Override
  <2>2. QED
    BY <1>8, <2>1 DEF Tight, Pinned, Undisturbed
<1>11. QED
  BY <1>9, <1>10

\* The end of a hold: the whole queue is planned again.
LEMMA CycleStopFastest ==
  ASSUME FastestInv, CycleStop
  PROVE  HasLength' /\ Tight' /\ Pinned'
<1>1. PlannerInv /\ TypeOK /\ HasLength
  BY DEF FastestInv, MotionInv, PlannerInv
<1>2. tail \in Index /\ head \in Index /\ block \in Blocks
  BY <1>1, TypesUsed
<1>3. Reinitialize(block)
  BY DEF CycleStop
<1>4. PICK b \in Blocks : b = EntryNow(block) /\ Replans(b, head, tail, block', planned')
  BY <1>1, <1>2, <1>3, ReinitializeIs
<1>5. prep' = Told /\ tail' = tail /\ head' = head
  BY <1>1, <1>2, <1>3, ReinitializeIs
<1>6. /\ \A i \in Index : SameBut(block[i], b[i])
      /\ b[tail].entry = TailSpeed
  BY <1>1, <1>2, <1>4, EntryNowIs DEF TailSpeed
<1>7. \A i \in Index : SameBut(b[i], block'[i])
  BY <1>2, <1>4, ReplansWithin
<1>8. HasLength'
  <2>1. \A i \in Index : block'[i].dist = block[i].dist
    BY <1>6, <1>7 DEF SameBut
  <2>2. QED
    BY <1>1, <1>5, <2>1, DistancesKept
<1>9. CASE IsEmpty
  <2>1. IsEmpty'
    BY <1>5, <1>9 DEF IsEmpty
  <2>2. TypeOK'
    BY <1>1, CycleStopKeeps DEF PlannerInv
  <2>3. QED
    BY <2>1, <2>2, EmptyFastest
<1>10. CASE ~IsEmpty
  <2>1. tail # head /\ Queued' = Between(tail, head)
    BY <1>5, <1>10 DEF IsEmpty, Queued, Between
  <2>2. tail \in Between(tail, head) /\ Reach(head, tail) = Between(tail, head) \ {tail}
    BY <1>2, <2>1, BetweenIs, BetweenReach
  <2>3. block'[tail] = b[tail]
    BY <1>2, <1>4, <2>2, ReplansWithin
  <2>4. TailSpeed' = TailSpeed
    <3>1. ~prep'.loaded
      BY <1>1, <1>5, ToldIs
    <3>2. QED
      BY <1>5, <1>6, <2>3, <3>1 DEF TailSpeed
  <2>5. PICK v : v = TailSpeed
    OBVIOUS
  <2>6. /\ \A i \in Between(tail, head) \ {tail} : Limited(block', tail, v, head, i)
        /\ planned' # tail => Pressed(block', tail, v, planned')
    BY <1>2, <1>4, <1>6, <2>1, <2>2, <2>5, QueueTight
  <2>7. TailSpeed' = v
    BY <2>4, <2>5
  <2>8. Tight'
    BY <1>5, <2>1, <2>6, <2>7 DEF Tight
  <2>9. Pinned'
    BY <1>5, <2>6, <2>7 DEF Pinned
  <2>10. QED
    BY <1>8, <2>8, <2>9
<1>11. QED
  BY <1>9, <1>10

\* A feed hold: the plan is suspended.
LEMMA FeedHoldFastest ==
  ASSUME FastestInv, FeedHold
  PROVE  HasLength' /\ Tight' /\ Pinned'
<1>1. TypeOK /\ HasLength
  BY DEF FastestInv, MotionInv, PlannerInv
<1>2. Hold'
  BY DEF FeedHold, Hold
<1>3. \A i \in Index : block'[i].dist = block[i].dist
  <2>1. block' = EntryNow(block) /\ block \in Blocks
    BY <1>1, TypesUsed DEF FeedHold
  <2>2. QED
    BY <1>1, <2>1, EntryNowIs DEF SameBut
<1>4. HasLength'
  BY <1>1, <1>3, DistancesKept DEF FeedHold
<1>5. QED
  BY <1>2, <1>4 DEF Tight, Pinned, Undisturbed

\* Steps that leave the ring and the stepper alone.
LEMMA QuietFastest ==
  ASSUME FastestInv, CycleStart \/ UNCHANGED vars
  PROVE  HasLength' /\ Tight' /\ Pinned'
<1>1. HasLength /\ Tight /\ Pinned
  BY DEF FastestInv
<1>2. /\ block' = block /\ tail' = tail /\ head' = head /\ planned' = planned
      /\ prep' = prep /\ overridden' = overridden
  BY DEF CycleStart, vars, queue
<1>3. Hold' = Hold
  <2>1. CASE CycleStart
    BY <2>1 DEF CycleStart, Hold
  <2>2. CASE UNCHANGED vars
    BY <2>2 DEF vars, Hold
  <2>3. QED
    BY <2>1, <2>2
<1>4. Queued' = Queued /\ TailSpeed' = TailSpeed /\ IsEmpty' = IsEmpty
      /\ (Undisturbed' <=> Undisturbed)
  BY <1>2, <1>3 DEF Queued, TailSpeed, IsEmpty, Undisturbed
<1>5. HasLength'
  BY <1>1, <1>2, <1>4 DEF HasLength
<1>6. Tight'
  BY <1>1, <1>2, <1>4 DEF Tight
<1>7. Pinned'
  BY <1>1, <1>2, <1>4 DEF Pinned
<1>8. QED
  BY <1>5, <1>6, <1>7

\* Without an override and outside a hold the oldest block goes on with the
\* speed that the machine has.
LEMMA SpeedIsTail ==
  ASSUME MotionInv, Undisturbed, ~IsEmpty
  PROVE  TailSpeed = prep.speed
<1>1. TakenUpAgain /\ NextStart
  BY DEF MotionInv, PlannerInv
<1>2. CASE prep.loaded
  BY <1>2 DEF TailSpeed
<1>3. CASE ~prep.loaded /\ prep.recalculate
  BY <1>1, <1>3 DEF TailSpeed, TakenUpAgain
<1>4. CASE ~prep.loaded /\ ~prep.recalculate
  BY <1>1, <1>4 DEF TailSpeed, NextStart, Undisturbed
<1>5. QED
  BY <1>2, <1>3, <1>4

\* A segment within a block uses of the distance what it gains in speed, where
\* the next block is entered at full acceleration.
LEMMA SegmentInFastest ==
  ASSUME FastestInv, NEW rest \in 0 .. block[tail].dist, PrepSegment(rest), rest > 0
  PROVE  HasLength' /\ Tight' /\ Pinned'
<1>1. MotionInv /\ PlannerInv /\ TypeOK /\ HasLength /\ Tight /\ Pinned /\ PlanWithinQueue /\ ~IsEmpty
  BY DEF FastestInv, MotionInv, PlannerInv, PrepSegment
<1>2. /\ \A i \in Index \ {tail} : block'[i] = block[i]
      /\ block'[tail].dist = rest /\ tail' = tail /\ head' = head
      /\ planned' = planned /\ overridden' = overridden
      /\ stepControl' = stepControl \/ stepControl' = stepControl \cup {"end"}
  BY <1>1, SegmentRing
<1>3. tail \in Index /\ head \in Index /\ tail # head /\ Queued = Between(tail, head) /\ block \in Blocks
  BY <1>1, TypesUsed, QueuedIs DEF IsEmpty
<1>4. Queued \subseteq Index /\ tail \in Queued /\ Queued' = Queued
  BY <1>2, <1>3, BetweenIs DEF Queued
<1>5. Hold' = Hold
  BY <1>2 DEF Hold
<1>6. Undisturbed' <=> Undisturbed
  BY <1>2, <1>5 DEF Undisturbed
<1>7. PICK v \in Nat, w \in Nat : v = TailSpeed /\ w = TailSpeed' /\ w = prep'.speed
  <2>1. TailSpeed \in Nat
    BY <1>1, <1>3, TypesUsed, ExitNat DEF TailSpeed
  <2>2. prep' \in PrepSet /\ prep'.loaded
    BY <1>1, PrepSegmentIs
  <2>3. TailSpeed' = prep'.speed /\ prep'.speed \in Nat
    BY <2>2 DEF TailSpeed, PrepSet
  <2>4. QED
    BY <2>1, <2>3
<1>8. PICK now \in Nat : now = block[tail].dist /\ rest \in Nat /\ rest <= now
  BY <1>3, ExitNat
<1>9. \A i \in Queued \ {tail} : InSpeed(block', tail, w, i) = InSpeed(block, tail, v, i)
                                 /\ block'[i] = block[i]
  BY <1>2, <1>4 DEF InSpeed
\* The block behind the executing one.
<1>10. ASSUME Undisturbed, NEW i \in Queued \ {tail}, PrevIndex(i) = tail, block[i].entry = v + now
       PROVE  block[i].entry = w + rest
  <2>1. v = prep.speed
    BY <1>1, <1>7, <1>10, SpeedIsTail
  <2>2. ~overridden /\ ~Hold
    BY <1>10 DEF Undisturbed
  <2>3. w <= v + (now - rest) /\ ExitSpeed(block) <= w + rest
    BY <1>1, <1>7, <1>8, <2>1, <2>2, SegmentWithin
  <2>4. ExitSpeed(block) = block[i].entry
    <3>1. NextIndex(tail) = i
      BY <1>4, <1>10, Around
    <3>2. i # head
      BY <1>3, <1>10, BetweenIs
    <3>3. QED
      BY <3>1, <3>2 DEF ExitSpeed
  <2>5. QED
    BY <1>7, <1>8, <1>10, <2>3, <2>4
<1>11. ASSUME Undisturbed, NEW i \in Queued \ {tail}, Pressed(block, tail, v, i)
       PROVE  Pressed(block', tail, w, i)
  <2>1. CASE PrevIndex(i) # tail
    <3>1. PrevIndex(i) \in Queued \ {tail}
      BY <1>3, <1>11, <2>1, BetweenIs
    <3>2. QED
      BY <1>9, <1>11, <3>1 DEF Pressed
  <2>2. CASE PrevIndex(i) = tail
    <3>1. block[i].entry = block[i].maxEntry \/ block[i].entry = v + now
      BY <1>8, <1>11, <2>2 DEF Pressed, InSpeed
    <3>2. block[i].entry = block[i].maxEntry \/ block[i].entry = w + rest
      BY <1>10, <1>11, <2>2, <3>1
    <3>3. QED
      BY <1>2, <1>9, <2>2, <3>2 DEF Pressed, InSpeed
  <2>3. QED
    BY <2>1, <2>2
<1>12. ASSUME Undisturbed, NEW i \in Queued \ {tail} PROVE Limited(block', tail, w, head, i)
  <2>1. Limited(block, tail, v, head, i)
    BY <1>1, <1>7, <1>12 DEF Tight
  <2>2. Exit(block', i, head) = Exit(block, i, head)
    <3>1. ASSUME NextIndex(i) # head PROVE NextIndex(i) \in Index \ {tail}
      <4>1. i # PrevIndex(head)
        BY <1>3, <3>1, Around
      <4>2. QED
        BY <1>3, <1>4, <4>1, BetweenIs
    <3>2. QED
      BY <1>2, <3>1 DEF Exit
  <2>3. QED
    BY <1>9, <1>11, <1>12, <2>1, <2>2 DEF Limited
<1>13. HasLength'
  BY <1>1, <1>2, <1>4, <1>9 DEF HasLength
<1>14. TailSpeed' = w /\ tail' = tail /\ head' = head /\ planned' = planned
  BY <1>2, <1>7
<1>15. Tight'
  BY <1>4, <1>6, <1>12, <1>14 DEF Tight
<1>16. Pinned'
  <2>1. planned \in Queued
    BY <1>1 DEF PlanWithinQueue
  <2>2. Undisturbed /\ planned # tail => Pressed(block, tail, v, planned)
    BY <1>1, <1>7 DEF Pinned
  <2>3. Undisturbed /\ planned # tail => Pressed(block', tail, w, planned)
    BY <1>11, <2>1, <2>2
  <2>4. QED
    BY <1>6, <1>14, <2>3 DEF Pinned
<1>17. QED
  BY <1>13, <1>15, <1>16

\* The last segment of a block: the next block's entry is now the present speed.
LEMMA SegmentOutFastest ==
  ASSUME FastestInv, NEW rest \in 0 .. block[tail].dist, PrepSegment(rest), rest = 0
  PROVE  HasLength' /\ Tight' /\ Pinned'
<1>1. MotionInv /\ PlannerInv /\ TypeOK /\ HasLength /\ Tight /\ Pinned /\ PlanWithinQueue /\ ~IsEmpty
  BY DEF FastestInv, MotionInv, PlannerInv, PrepSegment
<1>2. /\ \A i \in Index \ {tail} : block'[i] = block[i]
      /\ tail' = NextIndex(tail) /\ head' = head
      /\ planned' = (IF tail = planned THEN NextIndex(tail) ELSE planned)
      /\ overridden' = (overridden /\ NextIndex(tail) # head)
      /\ stepControl' = stepControl \/ stepControl' = stepControl \cup {"end"}
  BY <1>1, SegmentRing
<1>3. tail \in Index /\ head \in Index /\ tail # head /\ Queued = Between(tail, head)
  BY <1>1, TypesUsed, QueuedIs DEF IsEmpty
<1>4. PICK next \in Index : next = NextIndex(tail) /\ next # tail /\ PrevIndex(next) = tail
  BY <1>3, Around
<1>5. Queued' = Queued \ {tail} /\ Queued \subseteq Index /\ tail \in Queued
  <2>1. Queued' = Between(next, head)
    BY <1>2, <1>4 DEF Queued, Between
  <2>2. QED
    BY <1>3, <1>4, <2>1, BetweenDrops, BetweenIs
<1>6. CASE next = head
  <2>1. IsEmpty'
    BY <1>2, <1>4, <1>6 DEF IsEmpty
  <2>2. TypeOK'
    BY <1>1, PrepSegmentKeeps DEF PlannerInv
  <2>3. QED
    BY <2>1, <2>2, EmptyFastest
<1>7. CASE next # head
  <2>1. ASSUME Undisturbed' PROVE Undisturbed
    <3>1. ~overridden' /\ ~Hold'
      BY <2>1 DEF Undisturbed
    <3>2. ~overridden
      BY <1>2, <1>4, <1>7, <3>1, Zenon
    <3>3. ~Hold
      BY <1>2, <3>1 DEF Hold
    <3>4. QED
      BY <3>2, <3>3 DEF Undisturbed
  <2>2. PICK v : v = TailSpeed
    OBVIOUS
  <2>3. PICK w : w = TailSpeed' /\ w = block[next].entry
    <3>1. ~prep'.loaded
      BY <1>1, PrepSegmentIs
    <3>2. QED
      BY <1>2, <1>4, <3>1 DEF TailSpeed
  <2>4. \A i \in Queued \ {tail} : /\ InSpeed(block', next, w, i) = block[i].entry
                                   /\ InSpeed(block, tail, v, i) = block[i].entry
                                   /\ block'[i] = block[i]
    BY <1>2, <1>5, <2>3 DEF InSpeed
  <2>5. ASSUME NEW i \in Queued \ {tail, next}
        PROVE  PrevIndex(i) \in Queued \ {tail}
    <3>1. PrevIndex(i) # tail
      <4>1. i \in Index
        BY <1>5
      <4>2. QED
        BY <1>4, <2>5, <4>1, Around
    <3>2. QED
      BY <1>3, <2>5, <3>1, BetweenIs
  <2>6. ASSUME NEW i \in Queued \ {tail, next}, Pressed(block, tail, v, i)
        PROVE  Pressed(block', next, w, i)
    BY <2>4, <2>5, <2>6 DEF Pressed
  <2>7. ASSUME NEW i \in Queued \ {tail, next}, Undisturbed
        PROVE  Limited(block', next, w, head, i)
    <3>1. Limited(block, tail, v, head, i)
      BY <1>1, <2>2, <2>7 DEF Tight
    <3>2. Exit(block', i, head) = Exit(block, i, head)
      <4>1. ASSUME NextIndex(i) # head PROVE NextIndex(i) \in Index \ {tail}
        <5>1. i # PrevIndex(head)
          BY <1>3, <4>1, Around
        <5>2. QED
          BY <1>3, <1>5, <5>1, BetweenIs
      <4>2. QED
        BY <1>2, <4>1 DEF Exit
    <3>3. QED
      BY <2>4, <2>6, <2>7, <3>1, <3>2 DEF Limited
  <2>8. TailSpeed' = w /\ tail' = next /\ head' = head
    BY <1>2, <1>4, <2>3
  <2>9. HasLength'
    BY <1>1, <1>5, <2>4 DEF HasLength
  <2>10. Tight'
    BY <1>5, <2>1, <2>7, <2>8 DEF Tight
  <2>11. Pinned'
    <3>1. planned \in Queued
      BY <1>1 DEF PlanWithinQueue
    <3>2. planned' # next => planned' = planned /\ planned # tail
      BY <1>2, <1>4
    <3>3. Undisturbed /\ planned # tail => Pressed(block, tail, v, planned)
      BY <1>1, <2>2 DEF Pinned
    <3>4. Undisturbed /\ planned' # next => Pressed(block', next, w, planned')
      BY <2>6, <3>1, <3>2, <3>3
    <3>5. QED
      BY <2>1, <2>8, <3>4 DEF Pinned
  <2>12. QED
    BY <2>9, <2>10, <2>11
<1>8. QED
  BY <1>6, <1>7

\* Every step keeps a limit at every block.
THEOREM FastestInvStep ==
  ASSUME FastestInv, [Next]_vars
  PROVE  FastestInv'
<1>1. MotionInv'
  BY MotionInvStep DEF FastestInv
<1>2. ASSUME NEW line \in Lines, BufferLine(line) PROVE HasLength' /\ Tight' /\ Pinned'
  BY <1>2, FirstLineFastest, NextLineFastest
<1>3. ASSUME NEW o \in Overrides, Override(o[1], o[2]) PROVE HasLength' /\ Tight' /\ Pinned'
  BY <1>3, OverrideFastest
<1>4. ASSUME NEW rest \in 0 .. block[tail].dist, PrepSegment(rest) PROVE HasLength' /\ Tight' /\ Pinned'
  <2>1. rest = 0 \/ rest > 0
    BY <1>4
  <2>2. QED
    BY <1>4, <2>1, SegmentInFastest, SegmentOutFastest
<1>5. HasLength' /\ Tight' /\ Pinned'
  BY <1>2, <1>3, <1>4, FeedHoldFastest, CycleStopFastest, QuietFastest DEF Next
<1>6. QED
  BY <1>1, <1>5 DEF FastestInv

\* Without an override and outside a hold the plan is the fastest there is, at
\* every moment and with every queue: skipping the blocks before the planned
\* pointer loses nothing.
THEOREM PlanIsFastest == Spec => []PlanBest
<1>1. ASSUME FastestInv PROVE PlanBest
  <2>1. SUFFICES ASSUME ~overridden, ~Hold, ~IsEmpty
                 PROVE  \A i \in Queued \ {tail} : block[i].entry = BestEntry(i)
    <3>1. IsEmpty => Queued = {}
      <4>1. tail \in Index
        BY <1>1, TypesUsed DEF FastestInv, MotionInv, PlannerInv
      <4>2. QED
        BY <4>1, BetweenNone, QueuedIs DEF IsEmpty
    <3>2. QED
      BY <3>1 DEF PlanBest, Hold
  <2>2. MotionInv /\ TypeOK /\ PlanWithinQueue /\ Smooth /\ HasLength /\ Tight
    BY <1>1 DEF FastestInv, MotionInv, PlannerInv
  <2>3. tail \in Index /\ head \in Index /\ ExitSpeed(block) = Exit(block, tail, head)
    BY <2>2, TypesUsed DEF ExitSpeed, Exit
  <2>4. \A i \in Queued \ {tail} : Into(i) = block[i].entry
    BY DEF Into
  <2>5. Possible
    <3>1. \A i \in Queued \ {tail} : Brakes(block, i, head) /\ Speeds(block, i, head)
      BY <2>1, <2>2 DEF Smooth
    <3>2. /\ TailSpeed <= ExitSpeed(block) + block[tail].dist
          /\ ExitSpeed(block) <= TailSpeed + block[tail].dist
      BY <2>1, <2>2 DEF Smooth
    <3>3. ASSUME NEW i \in Queued
          PROVE  /\ Into(i) <= Exit(block, i, head) + block[i].dist
                 /\ Exit(block, i, head) <= Into(i) + block[i].dist
      <4>1. CASE i = tail
        BY <2>3, <3>2, <4>1 DEF Into
      <4>2. CASE i # tail
        BY <2>4, <3>1, <3>3, <4>2 DEF Brakes, Speeds
      <4>3. QED
        BY <4>1, <4>2
    <3>4. \A i \in Queued \ {tail} : Into(i) <= block[i].maxEntry
      BY <2>2, <2>4 DEF PlanWithinQueue
    <3>5. QED
      BY <3>3, <3>4 DEF Possible
  <2>6. ASSUME NEW i \in Queued \ {tail}
        PROVE  AtCorner(i) \/ Braking(i) \/ Accelerating(i)
    <3>1. Limited(block, tail, TailSpeed, head, i)
      BY <2>1, <2>2, <2>6 DEF Tight, Undisturbed
    <3>2. QED
      BY <3>1 DEF Limited, Pressed, InSpeed, AtCorner, Braking, Accelerating, Into
  <2>7. QED
    BY <2>1, <2>2, <2>5, <2>6, FastestPlan
<1>2. QED
  BY <1>1, FastestInvInit, FastestInvStep, PTL DEF Spec

=============================================================================
