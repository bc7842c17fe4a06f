--------------------------- MODULE GrblGcodeProofs ---------------------------
(***************************************************************************)
(* Proofs about GrblGcode: for every line that may be sent, every start-up *)
(* configuration and every size of the planner.                            *)
(***************************************************************************)
EXTENDS GrblGcode, FiniteSetTheorems, TLAPS

-----------------------------------------------------------------------------
(* The inductive invariants. *)

IsList(s) == \E S : s \in Seq(S)
Items(s) == {s[i] : i \in 1 .. Len(s)}

Steppers == {"move", "plan", "place"}
Fields == {"op", "target", "last", "jog"}

Lists == IsList(todo) /\ IsList(queue)

\* The operations that are left: a motion is planned, and a soft limit waits,
\* only at the head of the list, and behind the wait is the motion it is for.
ListInv ==
  /\ \A o \in Items(todo) : o.op \in Steppers => Fields \subseteq DOMAIN o
  /\ todo # <<>> => \A o \in Items(Tail(todo)) : o.op \notin {"plan", "softWait"}
  /\ Next1("softWait") => Tail(todo) # <<>> /\ Head(Tail(todo)).op = "move"

\* The states in which the interrupt may be on.
Moving == \/ sys.state \in {"CYCLE", "JOG"}
          \/ sys.state = "HOLD" /\ sys.suspend = "none"

StateInv ==
  /\ sys \in [state : States, suspend : {"none", "complete", "cancel"},
              soft : BOOLEAN, abort : BOOLEAN]
  /\ exec \subseteq {"FeedHold", "CycleStart", "CycleStop", "Reset", "Alarm"}
  /\ running \in BOOLEAN
  /\ sys.state \in {"IDLE", "CYCLE", "CHECK", "HOMING"} => sys.suspend = "none"
  /\ sys.state = "ALARM" /\ ~sys.abort => sys.suspend = "none"

\* When the interrupt may be on, and what may still happen between an alarm
\* and the pass of the executor that sees it.
RunInv ==
  /\ running => Moving
  /\ "CycleStop" \in exec /\ "Reset" \notin exec => ~running /\ Moving
  /\ "Reset" \in exec /\ running => sys.state = "JOG"
  /\ sys.abort => "Reset" \in exec /\ ~Next1("plan")
  /\ "Alarm" \in exec => /\ "Reset" \in exec
                         /\ ~running
                         /\ sys.state # "ALARM" => ~sys.abort
                         /\ sys.state = "IDLE" => Next1("move")

LockInv ==
  /\ sys.state \in {"ALARM", "CHECK"} => ~running /\ ~Next1("plan")
  /\ sys.state = "ALARM" /\ ~sys.abort
       => \A o \in Items(todo) : o.op \in {"start", "wait", "global", "restore"}

IsJogOp(o) == o.op \in Steppers /\ o.jog

\* A jog is limited when it is read, other motions when they are planned.
\* Nothing else is left beside a jog, and nothing else in the state JOG.
TravelInv ==
  /\ \A o \in Items(todo) : IsJogOp(o) /\ settings[20] = 1 => ~BeyondTravel(settings, o.target)
  /\ settings[20] = 1 /\ Next1("plan") => ~BeyondTravel(settings, Head(todo).target)
  /\ (sys.state = "JOG" \/ \E o \in Items(todo) : IsJogOp(o))
       => \A o \in Items(todo) : IsJogOp(o) \/ o.op \in {"start", "wait", "softWait"}

\* No write is left behind the end of a program, and behind a startup line
\* nothing but startup lines.
Ordered(s) == \A i, j \in 1 .. Len(s) :
                i < j => /\ s[i].op = "end" => s[j].op # "write"
                         /\ s[i].op = "startup" => s[j].op = "startup"

\* The parser's state has the fields that matter here.
Parser(g) == {"motion", "coord", "system", "pos"} \subseteq DOMAIN g /\ g.coord \in Systems

\* Of the writes in s, those to the record r store data.
Stores(s, r, data) == \A o \in Items(s) : o.op = "write" /\ o.record = r => o.data = data

\* The parser's offset against what is stored and what is to be stored.
Consistent(g, e, s) ==
  /\ Stores(s, g.coord, g.system)
  /\ (\A o \in Items(s) : ~(o.op = "write" /\ o.record = g.coord)) => g.system = e.coords[g.coord]

StoredInv ==
  /\ Parser(gc)
  /\ "coords" \in DOMAIN eeprom /\ Records \subseteq DOMAIN eeprom.coords
  /\ Ordered(todo)
  /\ sys.state # "CHECK" /\ "Reset" \notin exec /\ ~sys.abort => Consistent(gc, eeprom, todo)

-----------------------------------------------------------------------------
(* Lists. *)

LEMMA EmptyList == IsList(<<>>) /\ Items(<<>>) = {}
<1>1. <<>> \in Seq({})
  OBVIOUS
<1>2. IsList(<<>>)
  BY <1>1 DEF IsList
<1>3. QED
  BY <1>2 DEF Items

LEMMA OneItem == ASSUME NEW x PROVE IsList(<<x>>) /\ Items(<<x>>) = {x}
<1>1. <<x>> \in Seq({x}) /\ Len(<<x>>) = 1 /\ <<x>>[1] = x
  OBVIOUS
<1>2. IsList(<<x>>)
  BY <1>1 DEF IsList
<1>3. QED
  BY <1>1, <1>2 DEF Items

LEMMA Concat ==
  ASSUME NEW s, NEW t, IsList(s), IsList(t)
  PROVE  IsList(s \o t) /\ Items(s \o t) = Items(s) \cup Items(t)
<1>1. PICK S : s \in Seq(S)
  BY DEF IsList
<1>2. PICK T : t \in Seq(T)
  BY DEF IsList
<1>3. PICK U : U = S \cup T
  OBVIOUS
<1>4. s \in Seq(U) /\ t \in Seq(U)
  BY <1>1, <1>2, <1>3
<1>5. /\ s \o t \in Seq(U) /\ Len(s \o t) = Len(s) + Len(t) /\ Len(s) \in Nat /\ Len(t) \in Nat
      /\ \A k \in 1 .. Len(s) : (s \o t)[k] = s[k]
      /\ \A k \in 1 .. Len(t) : (s \o t)[Len(s) + k] = t[k]
  BY <1>4
<1>6. IsList(s \o t)
  BY <1>5 DEF IsList
<1>7. Items(s \o t) \subseteq Items(s) \cup Items(t)
  <2>1. SUFFICES ASSUME NEW i \in 1 .. Len(s) + Len(t)
                 PROVE  (s \o t)[i] \in Items(s) \cup Items(t)
    BY <1>5 DEF Items
  <2>2. CASE i \in 1 .. Len(s)
    BY <2>2, <1>5 DEF Items
  <2>3. CASE i - Len(s) \in 1 .. Len(t)
    <3>1. i = Len(s) + (i - Len(s))
      BY <1>5
    <3>2. QED
      BY <2>3, <3>1, <1>5 DEF Items
  <2>4. QED
    BY <1>5, <2>2, <2>3
<1>8. Items(s) \subseteq Items(s \o t)
  <2>1. \A k \in 1 .. Len(s) : k \in 1 .. Len(s \o t)
    BY <1>5
  <2>2. QED
    BY <1>5, <2>1 DEF Items
<1>9. Items(t) \subseteq Items(s \o t)
  <2>1. \A k \in 1 .. Len(t) : Len(s) + k \in 1 .. Len(s \o t)
    BY <1>5
  <2>2. QED
    BY <1>5, <2>1 DEF Items
<1>10. QED
  BY <1>6, <1>7, <1>8, <1>9

LEMMA HeadAndTail ==
  ASSUME NEW s, IsList(s), s # <<>>
  PROVE  IsList(Tail(s)) /\ Items(s) = {Head(s)} \cup Items(Tail(s))
<1>1. PICK S : s \in Seq(S)
  BY DEF IsList
<1>2. /\ Len(s) \in Nat \ {0} /\ Tail(s) \in Seq(S) /\ Len(Tail(s)) = Len(s) - 1
      /\ Head(s) = s[1]
      /\ \A k \in 1 .. Len(s) - 1 : Tail(s)[k] = s[k + 1]
  BY <1>1
<1>3. IsList(Tail(s))
  BY <1>2 DEF IsList
<1>4. \A i \in 1 .. Len(s) : i = 1 \/ i - 1 \in 1 .. Len(s) - 1
  BY <1>2
<1>5. \A i \in 1 .. Len(s) - 1 : i + 1 \in 1 .. Len(s)
  BY <1>2
<1>6. Items(s) \subseteq {Head(s)} \cup Items(Tail(s))
  <2>1. SUFFICES ASSUME NEW i \in 1 .. Len(s) PROVE s[i] \in {Head(s)} \cup Items(Tail(s))
    BY DEF Items
  <2>2. CASE i - 1 \in 1 .. Len(s) - 1
    <3>1. Tail(s)[i - 1] = s[i]
      BY <1>2, <2>2
    <3>2. QED
      BY <1>2, <2>2, <3>1 DEF Items
  <2>3. QED
    BY <1>2, <1>4, <2>2
<1>7. {Head(s)} \cup Items(Tail(s)) \subseteq Items(s)
  <2>1. Head(s) \in Items(s)
    BY <1>2 DEF Items
  <2>2. QED
    BY <1>2, <1>5, <2>1 DEF Items
<1>8. QED
  BY <1>3, <1>6, <1>7

LEMMA Longer ==
  ASSUME NEW s, NEW x, IsList(s)
  PROVE  IsList(Append(s, x)) /\ Append(s, x) # <<>>
<1>1. PICK S : s \in Seq(S)
  BY DEF IsList
<1>2. s \in Seq(S \cup {x}) /\ x \in S \cup {x}
  BY <1>1
<1>3. Append(s, x) \in Seq(S \cup {x}) /\ Len(Append(s, x)) = Len(s) + 1
  BY <1>2
<1>4. QED
  BY <1>2, <1>3 DEF IsList

\* What stands before the end or a startup line may be a write, what stands
\* behind it may not.
LEMMA OrderedBefore ==
  ASSUME NEW s, NEW t, IsList(s), IsList(t), Ordered(t),
         \A o \in Items(s) : o.op \notin {"end", "startup"}
  PROVE  Ordered(s \o t)
<1>1. PICK S : s \in Seq(S)
  BY DEF IsList
<1>2. PICK T : t \in Seq(T)
  BY DEF IsList
<1>3. /\ Len(s) \in Nat /\ Len(t) \in Nat /\ Len(s \o t) = Len(s) + Len(t)
      /\ \A k \in 1 .. Len(s) : (s \o t)[k] = s[k]
      /\ \A k \in 1 .. Len(t) : (s \o t)[Len(s) + k] = t[k]
  <2>1. PICK U : s \in Seq(U) /\ t \in Seq(U)
    <3>1. s \in Seq(S \cup T) /\ t \in Seq(S \cup T)
      BY <1>1, <1>2
    <3>2. QED
      BY <3>1
  <2>2. QED
    BY <2>1
<1>4. SUFFICES ASSUME NEW i \in 1 .. Len(s) + Len(t), NEW j \in 1 .. Len(s) + Len(t), i < j,
                      (s \o t)[i].op \in {"end", "startup"}
               PROVE  /\ (s \o t)[i].op = "end" => (s \o t)[j].op # "write"
                      /\ (s \o t)[i].op = "startup" => (s \o t)[j].op = "startup"
  BY <1>3 DEF Ordered
<1>5. i \notin 1 .. Len(s)
  BY <1>3, <1>4 DEF Items
<1>6. i - Len(s) \in 1 .. Len(t) /\ j - Len(s) \in 1 .. Len(t) /\ i - Len(s) < j - Len(s)
      /\ i = Len(s) + (i - Len(s)) /\ j = Len(s) + (j - Len(s))
  BY <1>3, <1>4, <1>5
<1>7. t[i - Len(s)] = (s \o t)[i] /\ t[j - Len(s)] = (s \o t)[j]
  BY <1>3, <1>6
<1>8. QED
  BY <1>4, <1>6, <1>7 DEF Ordered

LEMMA OrderedBehind ==
  ASSUME NEW s, NEW t, IsList(s), IsList(t), Ordered(s), Ordered(t),
         \A o \in Items(s) : o.op # "startup", \A o \in Items(t) : o.op # "write"
  PROVE  Ordered(s \o t)
<1>1. PICK S : s \in Seq(S)
  BY DEF IsList
<1>2. PICK T : t \in Seq(T)
  BY DEF IsList
<1>3. /\ Len(s) \in Nat /\ Len(t) \in Nat /\ Len(s \o t) = Len(s) + Len(t)
      /\ \A k \in 1 .. Len(s) : (s \o t)[k] = s[k]
      /\ \A k \in 1 .. Len(t) : (s \o t)[Len(s) + k] = t[k]
  <2>1. PICK U : s \in Seq(U) /\ t \in Seq(U)
    <3>1. s \in Seq(S \cup T) /\ t \in Seq(S \cup T)
      BY <1>1, <1>2
    <3>2. QED
      BY <3>1
  <2>2. QED
    BY <2>1
<1>4. SUFFICES ASSUME NEW i \in 1 .. Len(s) + Len(t), NEW j \in 1 .. Len(s) + Len(t), i < j
               PROVE  /\ (s \o t)[i].op = "end" => (s \o t)[j].op # "write"
                      /\ (s \o t)[i].op = "startup" => (s \o t)[j].op = "startup"
  BY <1>3 DEF Ordered
<1>5. \A k \in 1 .. Len(s) + Len(t) : k \notin 1 .. Len(s) =>
         /\ k - Len(s) \in 1 .. Len(t) /\ k = Len(s) + (k - Len(s))
         /\ t[k - Len(s)] = (s \o t)[k]
  <2>1. SUFFICES ASSUME NEW k \in 1 .. Len(s) + Len(t), k \notin 1 .. Len(s)
                 PROVE  /\ k - Len(s) \in 1 .. Len(t) /\ k = Len(s) + (k - Len(s))
                        /\ t[k - Len(s)] = (s \o t)[k]
    OBVIOUS
  <2>2. k - Len(s) \in 1 .. Len(t) /\ k = Len(s) + (k - Len(s))
    BY <1>3, <2>1
  <2>3. QED
    BY <1>3, <2>2
<1>6. CASE j \in 1 .. Len(s)
  <2>1. i \in 1 .. Len(s)
    BY <1>3, <1>4, <1>6
  <2>2. s[i] = (s \o t)[i] /\ s[j] = (s \o t)[j]
    BY <1>3, <1>6, <2>1
  <2>3. QED
    BY <1>4, <1>6, <2>1, <2>2 DEF Ordered
<1>7. CASE i \in 1 .. Len(s) /\ j \notin 1 .. Len(s)
  <2>1. s[i] = (s \o t)[i] /\ (s \o t)[i].op # "startup"
    BY <1>3, <1>7 DEF Items
  <2>2. j - Len(s) \in 1 .. Len(t) /\ t[j - Len(s)] = (s \o t)[j]
    BY <1>5, <1>7
  <2>3. (s \o t)[j].op # "write"
    BY <2>2 DEF Items
  <2>4. QED
    BY <2>1, <2>3
<1>8. CASE i \notin 1 .. Len(s) /\ j \notin 1 .. Len(s)
  <2>1. /\ i - Len(s) \in 1 .. Len(t) /\ t[i - Len(s)] = (s \o t)[i]
        /\ j - Len(s) \in 1 .. Len(t) /\ t[j - Len(s)] = (s \o t)[j]
    BY <1>5, <1>8
  <2>2. i - Len(s) < j - Len(s)
    BY <1>3, <1>4
  <2>3. QED
    BY <2>1, <2>2 DEF Ordered
<1>9. QED
  BY <1>6, <1>7, <1>8

LEMMA OrderedTail ==
  ASSUME NEW s, IsList(s), s # <<>>, Ordered(s)
  PROVE  /\ Ordered(Tail(s))
         /\ Head(s).op = "end" => \A o \in Items(Tail(s)) : o.op # "write"
         /\ Head(s).op = "startup" => \A o \in Items(Tail(s)) : o.op = "startup"
<1>1. PICK S : s \in Seq(S)
  BY DEF IsList
<1>2. /\ Len(s) \in Nat \ {0} /\ Len(Tail(s)) = Len(s) - 1 /\ Head(s) = s[1]
      /\ \A k \in 1 .. Len(s) - 1 : Tail(s)[k] = s[k + 1]
  BY <1>1
<1>3. \A i \in 1 .. Len(s) - 1 : i + 1 \in 1 .. Len(s) /\ 1 < i + 1
  BY <1>2
<1>4. 1 \in 1 .. Len(s)
  BY <1>2
<1>5. Ordered(Tail(s))
  <2>1. SUFFICES ASSUME NEW i \in 1 .. Len(s) - 1, NEW j \in 1 .. Len(s) - 1, i < j
                 PROVE  /\ s[i + 1].op = "end" => s[j + 1].op # "write"
                        /\ s[i + 1].op = "startup" => s[j + 1].op = "startup"
    BY <1>2 DEF Ordered
  <2>2. i + 1 < j + 1
    BY <2>1
  <2>3. QED
    BY <1>3, <2>1, <2>2 DEF Ordered
<1>6. ASSUME NEW o \in Items(Tail(s))
      PROVE  /\ Head(s).op = "end" => o.op # "write"
             /\ Head(s).op = "startup" => o.op = "startup"
  <2>1. PICK i \in 1 .. Len(s) - 1 : o = s[i + 1]
    BY <1>2 DEF Items
  <2>2. QED
    BY <1>2, <1>3, <1>4, <2>1 DEF Ordered
<1>7. QED
  BY <1>5, <1>6

LEMMA NoEndOrdered ==
  ASSUME NEW s, \/ \A o \in Items(s) : o.op \notin {"end", "startup"}
                \/ \A o \in Items(s) : o.op \notin {"write", "startup"}
                \/ \A o \in Items(s) : o.op = "startup"
  PROVE  Ordered(s)
BY DEF Ordered, Items

-----------------------------------------------------------------------------
(* The operations of a line. *)

\* What a line of g-code adds to the list.
Fresh(o) == /\ o.op \notin {"plan", "softWait", "startup"}
            /\ o.op \in Steppers => Fields \subseteq DOMAIN o /\ o.jog = FALSE

\* A synchronization.
IsSync(o) == o = Op("start") \/ o = Op("wait")

WriteOf(r, data) == [op |-> "write", record |-> r, data |-> data]

LEMMA SyncFacts == IsList(Synchronize) /\ \A o \in Items(Synchronize) : IsSync(o)
<1>1. /\ <<Op("start"), Op("wait")>> \in Seq({Op("start"), Op("wait")})
      /\ Len(<<Op("start"), Op("wait")>>) = 2
      /\ <<Op("start"), Op("wait")>>[1] = Op("start")
      /\ <<Op("start"), Op("wait")>>[2] = Op("wait")
  OBVIOUS
<1>2. \A i \in 1 .. 2 : i = 1 \/ i = 2
  OBVIOUS
<1>3. QED
  BY <1>1, <1>2 DEF Synchronize, IsList, Items, IsSync

LEMMA SyncOps ==
  ASSUME NEW o, IsSync(o)
  PROVE  o.op \in {"start", "wait"} /\ Fresh(o)
BY DEF IsSync, Op, Fresh, Steppers

LEMMA SyncIfFacts ==
  ASSUME NEW c
  PROVE  IsList(SyncIf(c)) /\ \A o \in Items(SyncIf(c)) : IsSync(o)
BY SyncFacts, EmptyList DEF SyncIf

LEMMA WriteFacts ==
  ASSUME NEW r, NEW data
  PROVE  /\ IsList(Write(r, data)) /\ WriteOf(r, data) \in Items(Write(r, data))
         /\ \A o \in Items(Write(r, data)) : IsSync(o) \/ o = WriteOf(r, data)
<1>1. IsList(<<WriteOf(r, data)>>) /\ Items(<<WriteOf(r, data)>>) = {WriteOf(r, data)}
  BY OneItem
<1>2. Write(r, data) = Synchronize \o <<WriteOf(r, data)>>
  BY DEF Write, WriteOf
<1>3. QED
  BY <1>1, <1>2, SyncFacts, Concat

LEMMA SpindleOpsFacts ==
  ASSUME NEW l, NEW m, NEW c
  PROVE  IsList(SpindleOps(l, m, c)) /\ \A o \in Items(SpindleOps(l, m, c)) : IsSync(o)
<1>1. PICK s1 : s1 = SyncIf(~c /\ SpeedSyncs(l, m))
  OBVIOUS
<1>2. PICK s2 : s2 = SyncIf(~c /\ m.spindle # gc.spindle)
  OBVIOUS
<1>3. PICK s3 : s3 = SyncIf(~c /\ m.nonModal = "G4")
  OBVIOUS
<1>4. /\ IsList(s1) /\ \A o \in Items(s1) : IsSync(o)
      /\ IsList(s2) /\ \A o \in Items(s2) : IsSync(o)
      /\ IsList(s3) /\ \A o \in Items(s3) : IsSync(o)
  BY <1>1, <1>2, <1>3, SyncIfFacts
<1>5. IsList(s1 \o s2) /\ Items(s1 \o s2) = Items(s1) \cup Items(s2)
  BY <1>4, Concat
<1>6. IsList((s1 \o s2) \o s3) /\ Items((s1 \o s2) \o s3) = Items(s1 \o s2) \cup Items(s3)
  BY <1>4, <1>5, Concat
<1>7. SpindleOps(l, m, c) = (s1 \o s2) \o s3
  BY <1>1, <1>2, <1>3 DEF SpindleOps
<1>8. QED
  BY <1>4, <1>5, <1>6, <1>7

\* The writes of a line are those of G10, G28.1 and G30.1.
IsOffsetOp(o, l, m) ==
  \/ IsSync(o)
  \/ m.nonModal = "G10" /\ o = WriteOf(SelectOf(l, m), SystemData(l, m, gc, eeprom))
  \/ o = WriteOf("G28", gc.pos)
  \/ o = WriteOf("G30", gc.pos)

LEMMA OffsetOpsFacts ==
  ASSUME NEW l, NEW m
  PROVE  /\ IsList(OffsetOps(l, m))
         /\ \A o \in Items(OffsetOps(l, m)) : IsOffsetOp(o, l, m)
         /\ m.nonModal = "G10" =>
              WriteOf(SelectOf(l, m), SystemData(l, m, gc, eeprom)) \in Items(OffsetOps(l, m))
<1>1. PICK s1 : s1 = SyncIf(NewTlo(l, m) # gc.tlo)
  OBVIOUS
<1>2. PICK s2 : s2 = SyncIf(m.coord # gc.coord)
  OBVIOUS
<1>3. PICK w : w = Write(SelectOf(l, m), SystemData(l, m, gc, eeprom))
  OBVIOUS
<1>4. PICK s3 : s3 = SyncIf(SelectOf(l, m) = m.coord)
  OBVIOUS
<1>5. PICK s4 : s4 = CASE m.nonModal = "G10" -> w \o s3
                       [] m.nonModal = "G28.1" -> Write("G28", gc.pos)
                       [] m.nonModal = "G30.1" -> Write("G30", gc.pos)
                       [] m.nonModal \in {"G92", "G92.1"} -> Synchronize
                       [] OTHER -> <<>>
  OBVIOUS
<1>6. /\ IsList(s1) /\ \A o \in Items(s1) : IsOffsetOp(o, l, m)
      /\ IsList(s2) /\ \A o \in Items(s2) : IsOffsetOp(o, l, m)
  BY <1>1, <1>2, SyncIfFacts DEF IsOffsetOp
<1>7. /\ IsList(s4) /\ \A o \in Items(s4) : IsOffsetOp(o, l, m)
      /\ m.nonModal = "G10" => WriteOf(SelectOf(l, m), SystemData(l, m, gc, eeprom)) \in Items(s4)
  <2>1. CASE m.nonModal = "G10"
    <3>1. /\ IsList(w) /\ \A o \in Items(w) : IsOffsetOp(o, l, m)
          /\ IsList(s3) /\ \A o \in Items(s3) : IsOffsetOp(o, l, m)
          /\ WriteOf(SelectOf(l, m), SystemData(l, m, gc, eeprom)) \in Items(w)
      BY <1>3, <1>4, <2>1, WriteFacts, SyncIfFacts DEF IsOffsetOp
    <3>2. IsList(w \o s3) /\ Items(w \o s3) = Items(w) \cup Items(s3)
      BY <3>1, Concat
    <3>3. s4 = w \o s3
      BY <1>5, <2>1
    <3>4. QED
      BY <3>1, <3>2, <3>3
  <2>2. CASE m.nonModal = "G28.1"
    <3>1. s4 = Write("G28", gc.pos)
      BY <1>5, <2>2
    <3>2. QED
      BY <2>2, <3>1, WriteFacts DEF IsOffsetOp
  <2>3. CASE m.nonModal = "G30.1"
    <3>1. s4 = Write("G30", gc.pos)
      BY <1>5, <2>3
    <3>2. QED
      BY <2>3, <3>1, WriteFacts DEF IsOffsetOp
  <2>4. CASE m.nonModal \in {"G92", "G92.1"}
    <3>1. s4 = Synchronize
      BY <1>5, <2>4
    <3>2. QED
      BY <2>4, <3>1, SyncFacts DEF IsOffsetOp
  <2>5. CASE m.nonModal \notin {"G10", "G28.1", "G30.1", "G92", "G92.1"}
    <3>1. s4 = <<>>
      BY <1>5, <2>5
    <3>2. QED
      BY <2>5, <3>1, EmptyList
  <2>6. QED
    BY <2>1, <2>2, <2>3, <2>4, <2>5
<1>8. IsList(s1 \o s2) /\ Items(s1 \o s2) = Items(s1) \cup Items(s2)
  BY <1>6, Concat
<1>9. IsList((s1 \o s2) \o s4) /\ Items((s1 \o s2) \o s4) = Items(s1 \o s2) \cup Items(s4)
  BY <1>7, <1>8, Concat
<1>10. OffsetOps(l, m) = (s1 \o s2) \o s4
  BY <1>1, <1>2, <1>3, <1>4, <1>5 DEF OffsetOps
<1>11. QED
  BY <1>6, <1>7, <1>8, <1>9, <1>10

LEMMA OffsetOpFresh ==
  ASSUME NEW l, NEW m, NEW o, IsOffsetOp(o, l, m)
  PROVE  o.op \in {"start", "wait", "write"} /\ Fresh(o)
<1>1. CASE IsSync(o)
  BY <1>1, SyncOps
<1>2. CASE o.op = "write"
  BY <1>2 DEF Fresh, Steppers
<1>3. IsSync(o) \/ o.op = "write"
  BY DEF IsOffsetOp, WriteOf
<1>4. QED
  BY <1>1, <1>2, <1>3

IsMotionOp(o) == o.op \in {"move", "place"} /\ Fields \subseteq DOMAIN o /\ o.jog = FALSE

LEMMA MoveFacts ==
  ASSUME NEW target, NEW last
  PROVE  IsMotionOp(Move(target, last)) /\ IsMotionOp([Move(target, last) EXCEPT !.op = "place"])
BY DEF IsMotionOp, Move, Fields

LEMMA MotionOpsFacts ==
  ASSUME NEW l, NEW m
  PROVE  /\ IsList(MotionOps(l, m))
         /\ \A o \in Items(MotionOps(l, m)) : IsMotionOp(o)
<1>1. PICK x : x = Move(TargetOf(l, m, gc, eeprom), FALSE)
  OBVIOUS
<1>2. PICK y : y = Move(HomeOf(l, m, gc, eeprom), TRUE)
  OBVIOUS
<1>3. PICK z : z = Move(TargetOf(l, m, gc, eeprom), TRUE)
  OBVIOUS
<1>4. PICK p : p = [Move(TargetOf(l, m, gc, eeprom), TRUE) EXCEPT !.op = "place"]
  OBVIOUS
<1>5. IsMotionOp(x) /\ IsMotionOp(y) /\ IsMotionOp(z) /\ IsMotionOp(p)
  BY <1>1, <1>2, <1>3, <1>4, MoveFacts
<1>6. PICK s : s = IF AxisWords(l) # {} THEN <<x>> ELSE <<>>
  OBVIOUS
<1>7. IsList(s) /\ \A o \in Items(s) : IsMotionOp(o)
  BY <1>5, <1>6, OneItem, EmptyList
<1>8. IsList(s \o <<y>>) /\ Items(s \o <<y>>) = Items(s) \cup {y}
  BY <1>7, OneItem, Concat
<1>9. MotionOps(l, m) \in {s \o <<y>>, <<>>, <<p>>, <<z>>}
  BY <1>1, <1>2, <1>3, <1>4, <1>6, Zenon DEF MotionOps
<1>10. \A c \in {s \o <<y>>, <<>>, <<p>>, <<z>>} : IsList(c) /\ \A o \in Items(c) : IsMotionOp(o)
  <2>1. IsList(s \o <<y>>) /\ \A o \in Items(s \o <<y>>) : IsMotionOp(o)
    BY <1>5, <1>7, <1>8
  <2>2. /\ IsList(<<p>>) /\ \A o \in Items(<<p>>) : IsMotionOp(o)
        /\ IsList(<<z>>) /\ \A o \in Items(<<z>>) : IsMotionOp(o)
    BY <1>5, OneItem
  <2>3. QED
    BY <2>1, <2>2, EmptyList
<1>11. QED
  BY <1>9, <1>10

IsFlowOp(o) == o.op \in {"start", "wait", "pause", "check", "end"}

LEMMA FlowOpsFacts ==
  ASSUME NEW m
  PROVE  IsList(FlowOps(m)) /\ \A o \in Items(FlowOps(m)) : IsFlowOp(o)
<1>1. PICK s : s = <<Op("pause"), Op("check")>>
  OBVIOUS
<1>2. IsList(s) /\ \A o \in Items(s) : IsFlowOp(o)
  <2>1. s \in Seq({Op("pause"), Op("check")}) /\ Len(s) = 2 /\ s[1] = Op("pause") /\ s[2] = Op("check")
    BY <1>1
  <2>2. \A i \in 1 .. 2 : i = 1 \/ i = 2
    OBVIOUS
  <2>3. QED
    BY <2>1, <2>2 DEF IsList, Items, IsFlowOp, Op
<1>3. IsList(<<Op("end")>>) /\ \A o \in Items(<<Op("end")>>) : IsFlowOp(o)
  BY OneItem DEF IsFlowOp, Op
<1>4. IsList(Synchronize) /\ \A o \in Items(Synchronize) : IsFlowOp(o)
  BY SyncFacts, SyncOps DEF IsFlowOp
<1>5. /\ IsList(Synchronize \o s) /\ Items(Synchronize \o s) = Items(Synchronize) \cup Items(s)
      /\ IsList(Synchronize \o <<Op("end")>>)
      /\ Items(Synchronize \o <<Op("end")>>) = Items(Synchronize) \cup Items(<<Op("end")>>)
  BY <1>2, <1>3, <1>4, Concat
<1>6. FlowOps(m) \in {Synchronize \o s, Synchronize \o <<Op("end")>>, <<>>}
  <2>1. CASE m.flow = "M0"
    BY <1>1, <2>1 DEF FlowOps
  <2>2. CASE m.flow \in {"M2", "M30"}
    BY <2>2 DEF FlowOps
  <2>3. CASE m.flow \notin {"M0", "M2", "M30"}
    BY <2>3 DEF FlowOps
  <2>4. QED
    BY <2>1, <2>2, <2>3
<1>7. QED
  BY <1>2, <1>3, <1>4, <1>5, <1>6, EmptyList

LEMMA MotionOpFresh == ASSUME NEW o, IsMotionOp(o) PROVE Fresh(o) /\ o.op \in {"move", "place"}
BY DEF IsMotionOp, Fresh, Steppers

LEMMA FlowOpFresh == ASSUME NEW o, IsFlowOp(o) PROVE Fresh(o) /\ o.op # "write"
BY DEF IsFlowOp, Fresh, Steppers

-----------------------------------------------------------------------------
(* Executing a line. *)

\* What gc_execute_line leaves to be done: new before what was left, in which
\* nothing is written.
Executes(new, rest) ==
  /\ IsList(new) /\ Ordered(new)
  /\ \A o \in Items(new) : Fresh(o) \/ o \in Items(rest)

LEMMA ModesCoord ==
  ASSUME NEW l, NEW g, g.coord \in Systems
  PROVE  Modes(l, g).coord \in Systems
<1>1. ModalGroups["G12"] = Systems
  BY DEF ModalGroups
<1>2. Named(l, "G12", g.coord) \in Systems
  <2>1. CASE Codes(l) \cap ModalGroups["G12"] = {}
    BY <2>1 DEF Named
  <2>2. CASE Codes(l) \cap ModalGroups["G12"] # {}
    <3>1. \E c \in ModalGroups["G12"] : c \in Codes(l)
      BY <2>2
    <3>2. (CHOOSE c \in ModalGroups["G12"] : c \in Codes(l)) \in ModalGroups["G12"]
      BY <3>1
    <3>3. QED
      BY <1>1, <2>2, <3>2 DEF Named
  <2>3. QED
    BY <2>1, <2>2
<1>3. QED
  BY <1>2 DEF Modes

\* The system that the parser uses after a line.
LEMMA TakenFacts ==
  ASSUME NEW l, NEW m, Parser(gc), m.coord \in Systems
  PROVE  /\ Parser(Taken(l, m)) /\ Taken(l, m).coord = m.coord
         /\ m.nonModal = "G10" /\ SelectOf(l, m) = m.coord
              => Taken(l, m).system = SystemData(l, m, gc, eeprom)
         /\ ~(m.nonModal = "G10" /\ SelectOf(l, m) = m.coord)
              => Taken(l, m).system = IF m.coord = gc.coord THEN gc.system
                                      ELSE eeprom.coords[m.coord]
<1>1. PICK y : y = IF m.nonModal = "G10" /\ SelectOf(l, m) = m.coord
                   THEN SystemData(l, m, gc, eeprom) ELSE BlockSystem(m, gc, eeprom)
  OBVIOUS
<1>2. PICK f, s, t, o : Taken(l, m) =
        [gc EXCEPT !.motion = m.motion, !.feedMode = m.feedMode, !.plane = m.plane,
                   !.distance = m.distance, !.units = m.units, !.coord = m.coord,
                   !.spindle = m.spindle, !.coolant = m.coolant,
                   !.feed = f, !.speed = s, !.tlo = t, !.system = y, !.offset = o]
  BY <1>1, ZenonT(60) DEF Taken
<1>3. /\ DOMAIN Taken(l, m) = DOMAIN gc /\ Taken(l, m).coord = m.coord /\ Taken(l, m).system = y
  BY <1>2 DEF Parser
<1>4. ~(m.nonModal = "G10" /\ SelectOf(l, m) = m.coord)
        => y = IF m.coord = gc.coord THEN gc.system ELSE eeprom.coords[m.coord]
  BY <1>1 DEF BlockSystem, Coordinates
<1>5. QED
  BY <1>1, <1>3, <1>4 DEF Parser

LEMMA ExecuteFacts ==
  ASSUME NEW l, NEW rest, IsList(rest), Ordered(rest), \A o \in Items(rest) : o.op # "write",
         Parser(gc), Execute(l, rest)
  PROVE  /\ Parser(gc') /\ Executes(todo', rest)
         /\ gc.system = eeprom.coords[gc.coord] => Consistent(gc', eeprom, todo')
<1>1. CASE ~Accepted(l, gc, eeprom)
  <2>1. todo' = rest /\ gc' = gc
    BY <1>1 DEF Execute
  <2>2. QED
    BY <2>1 DEF Executes, Consistent, Stores
<1>2. CASE Accepted(l, gc, eeprom)
  <2>1. PICK m : m = Modes(l, gc)
    OBVIOUS
  <2>2. PICK a1 : a1 = SpindleOps(l, m, sys.state = "CHECK")
    OBVIOUS
  <2>3. PICK a2 : a2 = OffsetOps(l, m)
    OBVIOUS
  <2>4. PICK a3 : a3 = MotionOps(l, m)
    OBVIOUS
  <2>5. PICK b : b = FlowOps(m)
    OBVIOUS
  <2>6. gc' = Taken(l, m) /\ todo' = (((a1 \o a2) \o a3) \o b) \o rest
    BY <1>2, <2>1, <2>2, <2>3, <2>4, <2>5 DEF Execute
  <2>7. /\ IsList(a1) /\ \A o \in Items(a1) : IsSync(o)
        /\ IsList(a2) /\ \A o \in Items(a2) : IsOffsetOp(o, l, m)
        /\ IsList(a3) /\ \A o \in Items(a3) : IsMotionOp(o)
        /\ IsList(b) /\ \A o \in Items(b) : IsFlowOp(o)
        /\ m.nonModal = "G10" => WriteOf(SelectOf(l, m), SystemData(l, m, gc, eeprom)) \in Items(a2)
    BY <2>2, <2>3, <2>4, <2>5, SpindleOpsFacts, OffsetOpsFacts, MotionOpsFacts, FlowOpsFacts
  <2>8. IsList(a1 \o a2) /\ Items(a1 \o a2) = Items(a1) \cup Items(a2)
    BY <2>7, Concat
  <2>9. PICK a : a = (a1 \o a2) \o a3
    OBVIOUS
  <2>10. IsList(a) /\ Items(a) = (Items(a1) \cup Items(a2)) \cup Items(a3)
    BY <2>7, <2>8, <2>9, Concat
  <2>11. \A o \in Items(a) : Fresh(o) /\ o.op \notin {"end", "startup"}
    BY <2>7, <2>10, SyncOps, OffsetOpFresh, MotionOpFresh
  <2>12. \A o \in Items(b) : Fresh(o) /\ o.op # "write"
    BY <2>7, FlowOpFresh
  <2>13. IsList(a \o b) /\ Items(a \o b) = Items(a) \cup Items(b)
    BY <2>7, <2>10, Concat
  <2>14. Ordered(a \o b)
    <3>1. Ordered(a)
      BY <2>11, NoEndOrdered
    <3>2. Ordered(b)
      BY <2>12, NoEndOrdered DEF Fresh
    <3>3. QED
      BY <2>7, <2>10, <2>11, <2>12, <3>1, <3>2, OrderedBehind
  <2>15. IsList(todo') /\ Items(todo') = (Items(a) \cup Items(b)) \cup Items(rest)
    BY <2>6, <2>9, <2>13, Concat
  <2>16. Ordered(todo')
    <3>1. \A o \in Items(a \o b) : o.op # "startup"
      BY <2>11, <2>12, <2>13 DEF Fresh
    <3>2. QED
      BY <2>6, <2>9, <2>13, <2>14, <3>1, OrderedBehind
  <2>17. Executes(todo', rest)
    BY <2>11, <2>12, <2>15, <2>16 DEF Executes
  <2>18. m.coord \in Systems
    BY <2>1, ModesCoord DEF Parser
  <2>19. /\ Parser(gc') /\ gc'.coord = m.coord
         /\ m.nonModal = "G10" /\ SelectOf(l, m) = m.coord => gc'.system = SystemData(l, m, gc, eeprom)
         /\ ~(m.nonModal = "G10" /\ SelectOf(l, m) = m.coord)
              => gc'.system = IF m.coord = gc.coord THEN gc.system ELSE eeprom.coords[m.coord]
    BY <2>6, <2>18, TakenFacts
  <2>20. ASSUME NEW o \in Items(todo'), o.op = "write", o.record = m.coord
         PROVE  m.nonModal = "G10" /\ SelectOf(l, m) = m.coord /\ o.data = SystemData(l, m, gc, eeprom)
    <3>1. o \in Items(a2)
      BY <2>7, <2>10, <2>12, <2>15, <2>20, SyncOps, MotionOpFresh
    <3>2. ~IsSync(o)
      BY <2>20, SyncOps
    <3>3. m.coord # "G28" /\ m.coord # "G30"
      BY <2>18 DEF Systems
    <3>4. QED
      BY <2>7, <2>20, <3>1, <3>2, <3>3 DEF IsOffsetOp, WriteOf
  <2>21. m.nonModal = "G10" /\ SelectOf(l, m) = m.coord
           => \E o \in Items(todo') : o.op = "write" /\ o.record = m.coord
    <3>1. m.nonModal = "G10" => WriteOf(SelectOf(l, m), SystemData(l, m, gc, eeprom)) \in Items(todo')
      BY <2>7, <2>10, <2>15
    <3>2. QED
      BY <3>1 DEF WriteOf
  <2>22. Stores(todo', gc'.coord, gc'.system)
    BY <2>19, <2>20 DEF Stores
  <2>23. QED
    BY <2>17, <2>19, <2>21, <2>22 DEF Consistent
<1>3. QED
  BY <1>1, <1>2

-----------------------------------------------------------------------------
(* What may follow when a line is read. *)

\* Operations that neither move the machine nor concern the parser.
Storing(s) == IsList(s) /\ \A o \in Items(s) : o.op \in {"start", "wait", "global", "restore"}

LEMMA SyncStoring ==
  ASSUME NEW c, NEW x, x.op \in {"global", "restore"}
  PROVE  Storing(SyncIf(c) \o <<x>>)
<1>1. /\ IsList(SyncIf(c)) /\ \A o \in Items(SyncIf(c)) : o.op \in {"start", "wait"}
      /\ IsList(<<x>>) /\ Items(<<x>>) = {x}
  BY SyncIfFacts, SyncOps, OneItem
<1>2. QED
  BY <1>1, Concat DEF Storing

LEMMA StoreSettingFacts ==
  ASSUME NEW l, StoreSetting(l), ~Refuse
  PROVE  /\ sys.state \in {"IDLE", "ALARM"} /\ Storing(todo') /\ line' = NoLine
         /\ UNCHANGED <<gc, sys, exec, running>>
<1>1. sys.state \in {"IDLE", "ALARM"} /\ UNCHANGED <<gc, sys, exec, running>>
      /\ line' = NoLine /\ todo' = SyncIf(l.p = 13) \o <<Op("global")>>
  BY DEF StoreSetting
<1>2. Op("global").op = "global"
  BY DEF Op
<1>3. QED
  BY <1>1, <1>2, SyncStoring

LEMMA RestoreDefaultsFacts ==
  ASSUME NEW w, RestoreDefaults(w), ~Refuse
  PROVE  /\ sys.state \in {"IDLE", "ALARM"} /\ Storing(todo') /\ line' = NoLine
         /\ UNCHANGED <<gc, sys, exec, running>>
<1>1. PICK x : x = [op |-> "restore", what |-> w]
  OBVIOUS
<1>2. PICK g : g = IF w # "#" THEN <<Op("global")>> ELSE <<>>
  OBVIOUS
<1>3. PICK y : y = SyncIf(w # "$")
  OBVIOUS
<1>4. sys.state \in {"IDLE", "ALARM"} /\ UNCHANGED <<gc, sys, exec, running>>
      /\ line' = NoLine /\ todo' = (g \o y) \o <<x>>
  BY <1>1, <1>2, <1>3 DEF RestoreDefaults
<1>5. IsList(g) /\ \A o \in Items(g) : o.op = "global"
  BY <1>2, OneItem, EmptyList DEF Op
<1>6. IsList(y) /\ \A o \in Items(y) : o.op \in {"start", "wait"}
  BY <1>3, SyncIfFacts, SyncOps
<1>7. IsList(<<x>>) /\ Items(<<x>>) = {x} /\ x.op = "restore"
  BY <1>1, OneItem
<1>8. IsList(g \o y) /\ Items(g \o y) = Items(g) \cup Items(y)
  BY <1>5, <1>6, Concat
<1>9. IsList((g \o y) \o <<x>>) /\ Items((g \o y) \o <<x>>) = Items(g \o y) \cup {x}
  BY <1>7, <1>8, Concat
<1>10. QED
  BY <1>4, <1>5, <1>6, <1>7, <1>8, <1>9 DEF Storing

LEMMA RunStartupFacts ==
  IsList(RunStartup) /\ \A o \in Items(RunStartup) : o.op = "startup"
<1>1. RunStartup \in Seq({[op |-> "startup", n |-> n - 1] : n \in 1 .. 2}) /\ Len(RunStartup) = 2
  BY DEF RunStartup
<1>2. \A i \in 1 .. 2 : RunStartup[i].op = "startup"
  BY DEF RunStartup
<1>3. QED
  BY <1>1, <1>2 DEF IsList, Items

\* A startup line that is to be stored.
StoreOp(n, block) == [op |-> "store", n |-> n, block |-> block]
ThenStore(n, block) == Synchronize \o <<StoreOp(n, block)>>

LEMMA ThenStoreFacts ==
  ASSUME NEW n, NEW block
  PROVE  /\ IsList(ThenStore(n, block))
         /\ \A o \in Items(ThenStore(n, block)) : o.op \in {"start", "wait", "store"}
<1>1. IsList(<<StoreOp(n, block)>>) /\ Items(<<StoreOp(n, block)>>) = {StoreOp(n, block)}
      /\ StoreOp(n, block).op = "store"
  BY OneItem DEF StoreOp
<1>2. QED
  BY <1>1, SyncFacts, SyncOps, Concat DEF ThenStore

\* The ways in which a line is taken.
Nothing == line' = NoLine /\ UNCHANGED <<settings, gc, sys, exec, running, todo>>
TakesGcode == /\ sys.state \notin {"ALARM", "JOG"}
              /\ \E l : IsGcode(l) /\ Execute(l, <<>>)
              /\ UNCHANGED <<settings, sys, exec, running>>
TakesJog == /\ sys.state \in {"IDLE", "JOG"}
            /\ \E o, l : /\ todo' = <<o>> /\ o.op = "move" /\ Fields \subseteq DOMAIN o /\ o.jog
                         /\ o.last = TRUE
                         /\ IsWords(l) /\ o.target = TargetOf(l, Modes(l, gc), gc, eeprom)
                         /\ settings[20] = 1 => ~BeyondTravel(settings, o.target)
            /\ line'.kind = "jog"
            /\ UNCHANGED <<settings, gc, sys, exec, running>>
TakesSetting == /\ sys.state \in {"IDLE", "ALARM"}
                /\ Storing(todo') /\ line' = NoLine
                /\ UNCHANGED <<gc, sys, exec, running>>
TakesStartup == /\ sys.state = "IDLE"
                /\ \E l, n : IsGcode(l) /\ n \in StartupLines /\ Execute(l, ThenStore(n, l))
                /\ UNCHANGED <<settings, sys, exec, running>>
LeavesCheck == /\ sys.state = "CHECK" /\ Reset({}) /\ line' = NoLine
               /\ UNCHANGED <<settings, gc, sys, todo>>
EntersCheck == /\ sys.state = "IDLE" /\ sys' = [sys EXCEPT !.state = "CHECK"] /\ line' = NoLine
               /\ UNCHANGED <<settings, gc, exec, running, todo>>
Unlocks == /\ sys' = [sys EXCEPT !.state = IF @ = "ALARM" THEN "IDLE" ELSE @] /\ line' = NoLine
           /\ UNCHANGED <<settings, gc, exec, running, todo>>
Homes == /\ sys.state \in {"IDLE", "ALARM"} /\ line' = NoLine
         /\ \/ sys' = [sys EXCEPT !.state = "IDLE"] /\ todo' = RunStartup /\ running' = FALSE
            \/ sys' = [sys EXCEPT !.state = "HOMING"] /\ todo' = todo /\ running' \in {running, FALSE}
         /\ UNCHANGED <<settings, gc, exec>>

LEMMA ReadLineCases ==
  ASSUME NEW l \in Lines, ReadLine(l)
  PROVE  /\ todo = <<>> /\ Clear /\ ~sys.abort /\ UNCHANGED <<eeprom, plan, queue, mpos>>
         /\ \/ Nothing \/ TakesGcode \/ TakesJog \/ TakesSetting \/ TakesStartup
            \/ LeavesCheck \/ EntersCheck \/ Unlocks \/ Homes
<1>1. todo = <<>> /\ Clear /\ ~sys.abort /\ UNCHANGED <<eeprom, plan, queue, mpos>>
  BY DEF ReadLine
<1>2. CASE Refuse
  BY <1>1, <1>2 DEF Refuse, Nothing
<1>3. CASE l.kind = "gcode" /\ ~Refuse
  <2>1. sys.state \notin {"ALARM", "JOG"} /\ Execute(l, <<>>) /\ UNCHANGED <<settings, sys, exec, running>>
    BY <1>3 DEF ReadLine
  <2>2. TakesGcode
    BY <1>3, <2>1, GcodeAssumption DEF TakesGcode, IsGcode
  <2>3. QED
    BY <1>1, <2>2
<1>4. CASE l.kind = "jog" /\ ~Refuse
  <2>1. sys.state \in {"IDLE", "JOG"} /\ ExecuteJog(l) /\ UNCHANGED <<settings, gc, sys, exec, running>>
    BY <1>4 DEF ReadLine
  <2>2. PICK target : target = TargetOf(l, Modes(l, gc), gc, eeprom)
    OBVIOUS
  <2>3. CASE ~Accepted(l, gc, eeprom) \/ (settings[20] = 1 /\ BeyondTravel(settings, target))
    <3>1. todo' = todo /\ line' = NoLine
      BY <2>1, <2>2, <2>3 DEF ExecuteJog
    <3>2. Nothing
      BY <2>1, <3>1 DEF Nothing
    <3>3. QED
      BY <1>1, <3>2
  <2>4. CASE ~(~Accepted(l, gc, eeprom) \/ (settings[20] = 1 /\ BeyondTravel(settings, target)))
    <3>1. PICK o : o = [Move(target, TRUE) EXCEPT !.jog = TRUE]
      OBVIOUS
    <3>2. /\ todo' = <<o>> /\ o.op = "move" /\ Fields \subseteq DOMAIN o /\ o.jog = TRUE
          /\ o.last = TRUE /\ o.target = target /\ line' = l
      <4>1. todo' = <<o>> /\ line' = l
        BY <2>1, <2>2, <2>4, <3>1 DEF ExecuteJog
      <4>2. /\ o.op = "move" /\ Fields \subseteq DOMAIN o /\ o.jog = TRUE
            /\ o.last = TRUE /\ o.target = target
        BY <3>1 DEF Move, Fields
      <4>3. QED
        BY <4>1, <4>2
    <3>3. TakesJog
      <4>1. IsWords(l)
        BY <1>4, GcodeAssumption
      <4>2. QED
        BY <1>4, <2>1, <2>2, <2>4, <3>2, <4>1 DEF TakesJog
    <3>4. QED
      BY <1>1, <3>3
  <2>5. QED
    BY <2>3, <2>4
<1>5. CASE l.kind = "set" /\ ~Refuse
  <2>1. StoreSetting(l)
    BY <1>5 DEF ReadLine
  <2>2. TakesSetting
    BY <1>5, <2>1, StoreSettingFacts DEF TakesSetting
  <2>3. QED
    BY <1>1, <2>2
<1>6. CASE l.kind = "startup" /\ ~Refuse
  <2>1. NewStartup(l)
    BY <1>6 DEF ReadLine
  <2>2. sys.state = "IDLE" /\ UNCHANGED <<settings, sys, exec, running>>
        /\ Execute(l.block, ThenStore(l.n, l.block))
    BY <1>6, <2>1 DEF NewStartup, ThenStore, StoreOp
  <2>3. TakesStartup
    BY <1>6, <2>2, GcodeAssumption DEF TakesStartup
  <2>4. QED
    BY <1>1, <2>3
<1>7. CASE l.kind = "command" /\ ~Refuse
  <2>1. Command(l)
    BY <1>7 DEF ReadLine
  <2>2. CASE CheckMode
    <3>1. LeavesCheck \/ EntersCheck
      BY <1>7, <2>2 DEF CheckMode, LeavesCheck, EntersCheck
    <3>2. QED
      BY <1>1, <3>1
  <2>3. CASE Unlock
    <3>1. Unlocks
      BY <2>3 DEF Unlock, Unlocks
    <3>2. QED
      BY <1>1, <3>1
  <2>4. CASE Home(l.arg)
    <3>1. CASE l.arg = ""
      <4>1. Homes
        BY <1>7, <2>4, <3>1 DEF Home, Homes
      <4>2. QED
        BY <1>1, <4>1
    <3>2. CASE l.arg # ""
      <4>1. Homes
        BY <1>7, <2>4, <3>2 DEF Home, Homes
      <4>2. QED
        BY <1>1, <4>1
    <3>3. QED
      BY <3>1, <3>2
  <2>5. CASE RestoreDefaults(l.arg)
    <3>1. TakesSetting
      BY <1>7, <2>5, RestoreDefaultsFacts DEF TakesSetting
    <3>2. QED
      BY <1>1, <3>1
  <2>6. QED
    BY <2>1, <2>2, <2>3, <2>4, <2>5 DEF Command
<1>8. l.kind \in {"gcode", "jog", "set", "startup", "command"}
  BY GcodeAssumption
<1>9. QED
  BY <1>2, <1>3, <1>4, <1>5, <1>6, <1>7, <1>8

-----------------------------------------------------------------------------
(* The list stays in order. *)

\* c is x before s.
IsCons(c, x, s) == /\ IsList(c) /\ Items(c) = {x} \cup Items(s)
                   /\ c # <<>> /\ Head(c) = x /\ Tail(c) = s

LEMMA InFront == ASSUME NEW x, NEW s, IsList(s), NEW c, c = <<x>> \o s PROVE IsCons(c, x, s)
<1>1. IsList(<<x>>) /\ Items(<<x>>) = {x}
  BY OneItem
<1>2. IsList(c) /\ Items(c) = Items(<<x>>) \cup Items(s)
  BY <1>1, Concat
<1>3. c # <<>> /\ Head(c) = x /\ Tail(c) = s
  <2>1. PICK S : s \in Seq(S)
    BY DEF IsList
  <2>2. PICK U : U = S \cup {x}
    OBVIOUS
  <2>3. s \in Seq(U) /\ <<x>> \in Seq(U) /\ Len(<<x>>) = 1 /\ <<x>>[1] = x
    BY <2>1, <2>2
  <2>4. /\ c \in Seq(U) /\ Len(c) = 1 + Len(s) /\ Len(s) \in Nat /\ c[1] = x
        /\ \A k \in 1 .. Len(s) : c[1 + k] = s[k]
    BY <2>3
  <2>5. c # <<>> /\ Head(c) = x
    BY <2>4
  <2>6. Tail(c) \in Seq(U) /\ Len(Tail(c)) = Len(s) /\ \A k \in 1 .. Len(s) : Tail(c)[k] = c[k + 1]
    BY <2>4, <2>5
  <2>7. \A k \in 1 .. Len(s) : Tail(c)[k] = s[k]
    BY <2>4, <2>6
  <2>8. Tail(c) = s
    BY <2>3, <2>4, <2>6, <2>7
  <2>9. QED
    BY <2>5, <2>8
<1>4. Items(c) = {x} \cup Items(s)
  BY <1>1, <1>2
<1>5. QED
  BY <1>2, <1>3, <1>4 DEF IsCons

\* Another operation on the same motion.
LEMMA Renamed ==
  ASSUME NEW o, NEW n, Fields \subseteq DOMAIN o
  PROVE  /\ [o EXCEPT !.op = n].op = n /\ Fields \subseteq DOMAIN [o EXCEPT !.op = n]
         /\ [o EXCEPT !.op = n].target = o.target /\ [o EXCEPT !.op = n].jog = o.jog
         /\ [o EXCEPT !.op = n].last = o.last
BY DEF Fields

\* A list in which nothing is planned or waits for a soft limit.
Tame(s) == IsList(s) /\ \A o \in Items(s) : /\ o.op \notin {"plan", "softWait"}
                                            /\ o.op \in Steppers => Fields \subseteq DOMAIN o

LEMMA TameList ==
  ASSUME Tame(todo')
  PROVE  IsList(todo') /\ ListInv' /\ ~Next1("plan")' /\ ~Next1("softWait")'
<1>1. IsList(todo') /\ \A o \in Items(todo') : o.op \notin {"plan", "softWait"}
  BY DEF Tame
<1>2. todo' # <<>> => Items(todo') = {Head(todo')} \cup Items(Tail(todo'))
  BY <1>1, HeadAndTail
<1>3. QED
  BY <1>1, <1>2 DEF Tame, ListInv, Next1

LEMMA TailTame ==
  ASSUME Lists, ListInv, todo # <<>>
  PROVE  /\ Tame(Tail(todo)) /\ Head(todo) \in Items(todo)
         /\ Items(todo) = {Head(todo)} \cup Items(Tail(todo))
BY HeadAndTail DEF Lists, ListInv, Tame

LEMMA ExecutesTame ==
  ASSUME NEW new, NEW rest, Executes(new, rest), Tame(rest)
  PROVE  Tame(new)
BY DEF Executes, Tame, Fresh

LEMMA StoringTame == ASSUME NEW s, Storing(s) PROVE Tame(s)
BY DEF Storing, Tame, Steppers


LEMMA StartupFacts ==
  ASSUME Lists, ListInv, StoredInv, Startup
  PROVE  /\ Next1("startup") /\ Tame(todo') /\ Parser(gc') /\ Ordered(todo')
         /\ \A o \in Items(todo') : Fresh(o) \/ o \in Items(todo)
         /\ gc.system = eeprom.coords[gc.coord] => Consistent(gc', eeprom, todo')
         /\ \A o \in Items(Tail(todo)) : o.op = "startup"
         /\ UNCHANGED <<stored, plan, queue, mpos, sys, exec, running, events>>
<1>1. /\ Next1("startup") /\ todo # <<>> /\ Head(todo).op = "startup"
      /\ UNCHANGED <<stored, plan, queue, mpos, sys, exec, running, events>>
      /\ Parser(gc) /\ Ordered(todo)
  BY DEF Startup, Next1, StoredInv
<1>2. /\ Tame(Tail(todo)) /\ IsList(Tail(todo)) /\ Ordered(Tail(todo))
      /\ \A o \in Items(Tail(todo)) : o.op = "startup"
      /\ \A o \in Items(Tail(todo)) : o.op # "write"
      /\ Items(Tail(todo)) \subseteq Items(todo)
  BY <1>1, TailTame, OrderedTail DEF Tame, Lists
<1>3. CASE todo' = Tail(todo) /\ gc' = gc
  BY <1>1, <1>2, <1>3 DEF Consistent, Stores
<1>4. CASE \E l : Execute(l, Tail(todo))
  <2>1. PICK l : Execute(l, Tail(todo))
    BY <1>4
  <2>2. /\ Parser(gc') /\ Executes(todo', Tail(todo))
        /\ gc.system = eeprom.coords[gc.coord] => Consistent(gc', eeprom, todo')
    BY <1>1, <1>2, <2>1, ExecuteFacts
  <2>3. Tame(todo')
    BY <1>2, <2>2, ExecutesTame
  <2>4. Ordered(todo') /\ \A o \in Items(todo') : Fresh(o) \/ o \in Items(todo)
    BY <1>2, <2>2 DEF Executes
  <2>5. QED
    BY <1>1, <1>2, <2>2, <2>3, <2>4
<1>5. (todo' = Tail(todo) /\ gc' = gc) \/ \E l : Execute(l, Tail(todo))
  BY DEF Startup, Done
<1>6. QED
  BY <1>3, <1>4, <1>5

\* A line that is read, or a startup line that is to be stored.
LEMMA GcodeFacts ==
  ASSUME StoredInv, todo = <<>>, TakesGcode \/ TakesStartup
  PROVE  /\ sys.state \notin {"ALARM", "JOG"} /\ UNCHANGED <<settings, sys, exec, running>>
         /\ Tame(todo') /\ Parser(gc') /\ Ordered(todo')
         /\ \A o \in Items(todo') : o.op # "startup" /\ (o.op \in Steppers => o.jog = FALSE)
         /\ gc.system = eeprom.coords[gc.coord] => Consistent(gc', eeprom, todo')
<1>1. /\ sys.state \notin {"ALARM", "JOG"} /\ UNCHANGED <<settings, sys, exec, running>>
      /\ \E l, rest : /\ Execute(l, rest) /\ IsList(rest)
                      /\ \A o \in Items(rest) : o.op \in {"start", "wait", "store"}
  <2>1. CASE TakesGcode
    BY <2>1, EmptyList DEF TakesGcode
  <2>2. CASE TakesStartup
    BY <2>2, ThenStoreFacts DEF TakesStartup
  <2>3. QED
    BY <2>1, <2>2
<1>2. PICK l, rest : /\ Execute(l, rest) /\ IsList(rest)
                     /\ \A o \in Items(rest) : o.op \in {"start", "wait", "store"}
  BY <1>1
<1>3. /\ Parser(gc') /\ Executes(todo', rest)
      /\ gc.system = eeprom.coords[gc.coord] => Consistent(gc', eeprom, todo')
  BY <1>2, ExecuteFacts, NoEndOrdered DEF StoredInv
<1>4. Tame(rest)
  BY <1>2 DEF Tame, Steppers
<1>5. Tame(todo')
  BY <1>3, <1>4, ExecutesTame
<1>6. Ordered(todo') /\ \A o \in Items(todo') : Fresh(o) \/ o.op \in {"start", "wait", "store"}
  BY <1>2, <1>3 DEF Executes
<1>7. \A o \in Items(todo') : o.op # "startup" /\ (o.op \in Steppers => o.jog = FALSE)
  BY <1>6 DEF Fresh, Steppers
<1>8. QED
  BY <1>1, <1>3, <1>5, <1>6, <1>7

\* The same writes are left.
SameWrites(s, t) == \A o : o.op = "write" => (o \in Items(s) <=> o \in Items(t))

LEMMA DoneFacts ==
  ASSUME Lists, ListInv, todo # <<>>, Done
  PROVE  /\ Tame(todo') /\ Items(todo') \subseteq Items(todo) /\ Head(todo) \in Items(todo)
         /\ Items(todo) = {Head(todo)} \cup Items(todo')
         /\ Head(todo).op # "write" => SameWrites(todo', todo)
         /\ Ordered(todo) => Ordered(todo')
<1>1. /\ Tame(todo') /\ Items(todo') \subseteq Items(todo) /\ Head(todo) \in Items(todo)
      /\ Items(todo) = {Head(todo)} \cup Items(todo')
  BY TailTame DEF Done
<1>2. Head(todo).op # "write" => SameWrites(todo', todo)
  BY <1>1 DEF SameWrites
<1>3. Ordered(todo) => Ordered(todo')
  BY OrderedTail DEF Lists, Done
<1>4. QED
  BY <1>1, <1>2, <1>3

\* A motion that is about to be planned or placed.
IsRenamed(p, n) == /\ p.op = n /\ Fields \subseteq DOMAIN p
                   /\ p.target = Head(todo).target /\ p.jog = Head(todo).jog
                   /\ p.last = Head(todo).last

\* The ways in which the list changes, other than by a new line.
ToPlan == /\ Next1("move") /\ Planned(Head(todo)) /\ IsList(todo')
          /\ \E p : IsRenamed(p, "plan") /\ IsCons(todo', p, Tail(todo))
ToSoftWait == Next1("move") /\ sys.state = "CYCLE" /\ \E w : w.op = "softWait" /\ IsCons(todo', w, todo)
ToPlace == /\ Next1("plan") /\ Tame(todo')
           /\ \E p : /\ IsRenamed(p, "place")
                     /\ \A o \in Items(todo') : IsSync(o) \/ o = p \/ o \in Items(Tail(todo))
                     /\ Items(Tail(todo)) \subseteq Items(todo')

LEMMA RoomFacts ==
  ASSUME Lists, ListInv, Room, todo' # todo
  PROVE  ToPlan
<1>1. PICK p : p = [Head(todo) EXCEPT !.op = "plan"]
  OBVIOUS
<1>2. /\ Next1("move") /\ Planned(Head(todo)) /\ todo # <<>> /\ Head(todo).op = "move"
      /\ todo' = <<p>> \o Tail(todo)
  BY <1>1 DEF Room, Next1
<1>3. Fields \subseteq DOMAIN Head(todo) /\ IsList(Tail(todo))
  BY <1>2, TailTame DEF ListInv, Steppers, Tame
<1>4. IsRenamed(p, "plan")
  BY <1>1, <1>3, Renamed DEF IsRenamed
<1>5. IsCons(todo', p, Tail(todo))
  BY <1>2, <1>3, InFront
<1>6. IsList(todo')
  BY <1>5 DEF IsCons
<1>7. QED
  BY <1>2, <1>4, <1>5, <1>6 DEF ToPlan

LEMMA SoftLimitFacts ==
  ASSUME Lists, SoftLimit
  PROVE  todo' = todo \/ ToSoftWait
<1>1. CASE sys.state = "CYCLE"
  <2>1. PICK w : w = Op("softWait")
    OBVIOUS
  <2>2. Next1("move") /\ todo' = <<w>> \o todo
    BY <1>1, <2>1 DEF SoftLimit
  <2>3. w.op = "softWait"
    BY <2>1 DEF Op
  <2>4. IsCons(todo', w, todo)
    BY <2>2, InFront DEF Lists
  <2>5. QED
    BY <1>1, <2>2, <2>3, <2>4 DEF ToSoftWait
<1>2. CASE sys.state # "CYCLE"
  BY <1>2 DEF SoftLimit
<1>3. QED
  BY <1>1, <1>2

LEMMA LaserFacts ==
  ASSUME Lists, ListInv, Plan, ~Done
  PROVE  ToPlace /\ UNCHANGED <<gc, sys, running>> /\ (Ordered(todo) => Ordered(todo'))
<1>1. PICK p : p = [Head(todo) EXCEPT !.op = "place"]
  OBVIOUS
<1>2. /\ Next1("plan") /\ todo # <<>> /\ Head(todo).op = "plan" /\ UNCHANGED <<gc, sys, running>>
      /\ todo' = (Synchronize \o <<p>>) \o Tail(todo)
  BY <1>1 DEF Plan, Next1
<1>3. Fields \subseteq DOMAIN Head(todo) /\ Tame(Tail(todo)) /\ IsList(Tail(todo))
  BY <1>2, TailTame DEF ListInv, Steppers, Tame
<1>4. IsRenamed(p, "place")
  BY <1>1, <1>3, Renamed DEF IsRenamed
<1>5. PICK q : q = Synchronize \o <<p>>
  OBVIOUS
<1>6. IsList(<<p>>) /\ Items(<<p>>) = {p}
  BY OneItem
<1>7. IsList(q) /\ Items(q) = Items(Synchronize) \cup {p}
  BY <1>5, <1>6, SyncFacts, Concat
<1>8. IsList(todo') /\ Items(todo') = Items(q) \cup Items(Tail(todo))
  BY <1>2, <1>3, <1>5, <1>7, Concat
<1>9. \A o \in Items(q) : IsSync(o) \/ o = p
  BY <1>7, SyncFacts
<1>10. /\ \A o \in Items(todo') : IsSync(o) \/ o = p \/ o \in Items(Tail(todo))
       /\ Items(Tail(todo)) \subseteq Items(todo')
  BY <1>8, <1>9
<1>11. \A o \in Items(q) : o.op \in {"start", "wait", "place"}
  BY <1>4, <1>9, SyncOps DEF IsRenamed
<1>12. Tame(todo')
  <2>1. ASSUME NEW o \in Items(todo')
        PROVE  o.op \notin {"plan", "softWait"} /\ (o.op \in Steppers => Fields \subseteq DOMAIN o)
    <3>1. CASE IsSync(o)
      BY <3>1, SyncOps DEF Steppers
    <3>2. CASE o = p
      BY <1>4, <3>2 DEF IsRenamed
    <3>3. CASE o \in Items(Tail(todo))
      BY <1>3, <3>3 DEF Tame
    <3>4. QED
      BY <1>10, <2>1, <3>1, <3>2, <3>3
  <2>2. QED
    BY <1>8, <2>1 DEF Tame
<1>13. ToPlace
  BY <1>2, <1>4, <1>10, <1>12 DEF ToPlace
<1>14. Ordered(todo) => Ordered(todo')
  <2>1. SUFFICES ASSUME Ordered(todo) PROVE Ordered(todo')
    OBVIOUS
  <2>2. Ordered(Tail(todo))
    BY <1>2, <2>1, OrderedTail DEF Lists
  <2>3. QED
    BY <1>2, <1>3, <1>5, <1>7, <1>11, <2>2, OrderedBefore
<1>15. QED
  BY <1>2, <1>13, <1>14

LEMMA TodoCases ==
  ASSUME Lists, ListInv, [Next]_vars
  PROVE  \/ todo' = todo
         \/ todo # <<>> /\ Done
         \/ Room /\ ToPlan
         \/ SoftLimit /\ ToSoftWait
         \/ Plan /\ ToPlace /\ (Ordered(todo) => Ordered(todo'))
         \/ Startup
         \/ \E l \in Lines : ReadLine(l)
         \/ Reinitialize
<1>1. CASE Pass \/ Finish \/ ComeToRest \/ Request \/ UNCHANGED vars
  BY <1>1 DEF Pass, Finish, ComeToRest, Request, vars
<1>2. CASE AutoStart \/ Wait \/ WriteRecord \/ SoftWait \/ NoMove \/ Place \/ Pause \/ Resumed
  BY <1>2 DEF AutoStart, Wait, WriteRecord, SoftWait, NoMove, Place, Pause, Resumed, Next1
<1>3. CASE End \/ StoreStartup \/ WriteGlobal \/ Restore
  BY <1>3 DEF End, StoreStartup, WriteGlobal, Restore, Next1
<1>4. CASE SoftLimit
  BY <1>4, SoftLimitFacts
<1>5. CASE Room
  BY <1>5, RoomFacts
<1>6. CASE Plan
  <2>1. todo # <<>>
    BY <1>6 DEF Plan, Next1
  <2>2. QED
    BY <1>6, <2>1, LaserFacts
<1>7. QED
  BY <1>1, <1>2, <1>3, <1>4, <1>5, <1>6 DEF Next

LEMMA ToPlanList == ASSUME Lists, ListInv, ToPlan PROVE IsList(todo') /\ ListInv'
<1>1. PICK p : IsRenamed(p, "plan") /\ IsCons(todo', p, Tail(todo))
  BY DEF ToPlan
<1>2. todo # <<>> /\ Tame(Tail(todo))
  BY TailTame DEF ToPlan, Next1
<1>3. /\ IsList(todo') /\ Items(todo') = {p} \cup Items(Tail(todo)) /\ todo' # <<>>
      /\ Head(todo') = p /\ Tail(todo') = Tail(todo) /\ p.op = "plan" /\ Fields \subseteq DOMAIN p
  BY <1>1 DEF IsCons, IsRenamed
<1>4. QED
  BY <1>2, <1>3 DEF ListInv, Tame, Next1

LEMMA ToSoftWaitList == ASSUME Lists, ListInv, ToSoftWait PROVE IsList(todo') /\ ListInv'
<1>1. PICK w : w.op = "softWait" /\ IsCons(todo', w, todo)
  BY DEF ToSoftWait
<1>2. /\ todo # <<>> /\ Head(todo).op = "move" /\ Tame(Tail(todo))
      /\ Items(todo) = {Head(todo)} \cup Items(Tail(todo))
  BY TailTame DEF ToSoftWait, Next1
<1>3. /\ IsList(todo') /\ Items(todo') = {w} \cup Items(todo) /\ todo' # <<>>
      /\ Head(todo') = w /\ Tail(todo') = todo
  BY <1>1 DEF IsCons
<1>4. \A o \in Items(todo) : o.op \notin {"plan", "softWait"}
  BY <1>2 DEF Tame
<1>5. \A o \in Items(todo') : o.op \in Steppers => Fields \subseteq DOMAIN o
  BY <1>1, <1>3 DEF ListInv, Steppers
<1>6. QED
  BY <1>2, <1>3, <1>4, <1>5 DEF ListInv

LEMMA QueueCases ==
  ASSUME [Next]_vars
  PROVE  \/ queue' = queue
         \/ queue' = <<>>
         \/ Plan /\ \E x : queue' = Append(queue, x) /\ x.target = Head(todo).target
         \/ Finish /\ queue # <<>> /\ queue' = Tail(queue)
<1>1. CASE Pass
  BY <1>1 DEF Pass, RealtimePass
<1>2. CASE AutoStart \/ Wait \/ WriteRecord \/ SoftLimit \/ SoftWait \/ NoMove \/ Room \/ Place
  BY <1>2 DEF AutoStart, Wait, WriteRecord, SoftLimit, SoftWait, NoMove, Room, Place
<1>3. CASE Pause \/ Resumed \/ End \/ Startup \/ StoreStartup \/ WriteGlobal \/ Restore
  BY <1>3 DEF Pause, Resumed, End, Startup, StoreStartup, WriteGlobal, Restore
<1>4. CASE Plan
  <2>1. PICK x : x = [target |-> Head(todo).target, jog |-> Head(todo).jog]
    OBVIOUS
  <2>2. queue' = queue \/ queue' = Append(queue, x)
    BY <1>4, <2>1 DEF Plan
  <2>3. x.target = Head(todo).target
    BY <2>1
  <2>4. QED
    BY <1>4, <2>2, <2>3
<1>5. CASE Reinitialize \/ Finish \/ ComeToRest \/ Request \/ UNCHANGED vars
  BY <1>5 DEF Reinitialize, Finish, ComeToRest, Request, vars
<1>6. CASE \E l \in Lines : ReadLine(l)
  BY <1>6, ReadLineCases
<1>7. QED
  BY <1>1, <1>2, <1>3, <1>4, <1>5, <1>6 DEF Next

\* The list after a step: nothing is planned or waits for a soft limit unless
\* it did before, or the step is mc_line's.
LEMMA TameCases ==
  ASSUME Lists, ListInv, StoredInv, [Next]_vars
  PROVE  todo' = todo \/ Tame(todo') \/ (Room /\ ToPlan) \/ (SoftLimit /\ ToSoftWait)
<1>1. CASE todo # <<>> /\ Done
  BY <1>1, DoneFacts
<1>2. CASE ToPlace
  BY <1>2 DEF ToPlace
<1>3. CASE Startup
  BY <1>3, StartupFacts
<1>4. CASE \E l \in Lines : ReadLine(l)
  <2>1. PICK l \in Lines : ReadLine(l)
    BY <1>4
  <2>2. todo = <<>>
    BY <2>1, ReadLineCases
  <2>3. CASE Nothing \/ LeavesCheck \/ EntersCheck \/ Unlocks
    BY <2>3 DEF Nothing, LeavesCheck, EntersCheck, Unlocks
  <2>4. CASE TakesGcode \/ TakesStartup
    BY <2>2, <2>4, GcodeFacts
  <2>5. CASE TakesJog
    <3>1. PICK o : todo' = <<o>> /\ o.op = "move" /\ Fields \subseteq DOMAIN o
      BY <2>5 DEF TakesJog
    <3>2. QED
      BY <3>1, OneItem DEF Tame
  <2>6. CASE TakesSetting
    BY <2>6, StoringTame DEF TakesSetting
  <2>7. CASE Homes
    <3>1. Tame(RunStartup)
      BY RunStartupFacts DEF Tame, Steppers
    <3>2. QED
      BY <2>7, <3>1 DEF Homes
  <2>8. QED
    BY <2>1, <2>3, <2>4, <2>5, <2>6, <2>7, ReadLineCases
<1>5. CASE Reinitialize
  <2>1. Tame(RunStartup) /\ Tame(<<>>)
    BY RunStartupFacts, EmptyList DEF Tame, Steppers
  <2>2. QED
    BY <1>5, <2>1 DEF Reinitialize
<1>6. QED
  BY <1>1, <1>2, <1>3, <1>4, <1>5, TodoCases

LEMMA NextLists ==
  ASSUME Lists, ListInv, StoredInv, [Next]_vars
  PROVE  Lists' /\ ListInv'
<1>1. IsList(todo') /\ ListInv'
  <2>1. CASE todo' = todo
    BY <2>1 DEF Lists, ListInv, Next1
  <2>2. CASE Tame(todo')
    BY <2>2, TameList
  <2>3. CASE ToPlan
    BY <2>3, ToPlanList
  <2>4. CASE ToSoftWait
    BY <2>4, ToSoftWaitList
  <2>5. QED
    BY <2>1, <2>2, <2>3, <2>4, TameCases
<1>2. IsList(queue')
  <2>1. CASE queue' = queue
    BY <2>1 DEF Lists
  <2>2. CASE queue' = <<>>
    BY <2>2, EmptyList
  <2>3. CASE \E x : queue' = Append(queue, x)
    BY <2>3, Longer DEF Lists
  <2>4. CASE queue # <<>> /\ queue' = Tail(queue)
    BY <2>4, HeadAndTail DEF Lists
  <2>5. QED
    BY <2>1, <2>2, <2>3, <2>4, QueueCases
<1>3. QED
  BY <1>1, <1>2 DEF Lists

-----------------------------------------------------------------------------
(* The state and the interrupt. *)

ExecFlags == {"FeedHold", "CycleStart", "CycleStop", "Reset", "Alarm"}
SysRecords == [state : States, suspend : {"none", "complete", "cancel"},
               soft : BOOLEAN, abort : BOOLEAN]

LEMMA ResetFacts ==
  ASSUME StateInv, RunInv, NEW f \in SUBSET {"Alarm"}, Reset(f)
  PROVE  /\ exec' \subseteq ExecFlags /\ exec \subseteq exec' /\ "Reset" \in exec'
         /\ running' \in BOOLEAN
         /\ running' => running /\ "Reset" \in exec
         /\ "Alarm" \in exec' =>
              \/ "Alarm" \in exec
              \/ "Alarm" \in f
              \/ sys.state \in {"CYCLE", "HOMING", "JOG", "HOLD"} /\ "Reset" \notin exec
<1>1. CASE "Reset" \in exec
  BY <1>1 DEF Reset, StateInv, ExecFlags
<1>2. CASE "Reset" \notin exec
  <2>1. PICK holding : holding = (sys.state = "HOLD" /\ sys.suspend = "none"
                                  /\ (running \/ "CycleStop" \in exec))
    OBVIOUS
  <2>2. PICK lost : lost = (sys.state \in {"CYCLE", "HOMING", "JOG"} \/ holding)
    OBVIOUS
  <2>3. /\ exec' = exec \cup {"Reset"} \cup f \cup (IF lost THEN {"Alarm"} ELSE {})
        /\ running' = (running /\ ~lost)
    BY <1>2, <2>1, <2>2, Zenon DEF Reset
  <2>4. running => lost
    BY <2>1, <2>2 DEF RunInv, Moving
  <2>5. running' = FALSE
    BY <2>3, <2>4, Zenon
  <2>6. lost => sys.state \in {"CYCLE", "HOMING", "JOG", "HOLD"}
    BY <2>1, <2>2
  <2>7. QED
    BY <1>2, <2>3, <2>5, <2>6 DEF StateInv, ExecFlags
<1>3. QED
  BY <1>1, <1>2

\* What a pass of the executor does without a reset.
LEMMA PassFacts ==
  ASSUME StateInv, RunInv, Pass, "Reset" \notin exec
  PROVE  /\ sys' \in SysRecords /\ sys'.abort = FALSE /\ sys.abort = FALSE /\ exec' = {}
         /\ running' \in BOOLEAN /\ (running' => Moving')
         /\ sys'.state \in {"IDLE", "CYCLE", "CHECK", "HOMING"} => sys'.suspend = "none"
         /\ sys.state \in {"ALARM", "CHECK"} => sys' = sys /\ running' = running
         /\ sys'.state \in {"ALARM", "CHECK", "JOG"} => sys.state = sys'.state
<1>1. /\ sys \in SysRecords /\ running \in BOOLEAN /\ "Alarm" \notin exec /\ sys.abort = FALSE
      /\ running => Moving
      /\ "CycleStop" \in exec => ~running /\ Moving
      /\ sys.state \in {"IDLE", "CYCLE", "CHECK", "HOMING"} => sys.suspend = "none"
  BY DEF StateInv, RunInv, SysRecords, Pass
<1>2. PICK a : a = [sys EXCEPT !.state = IF "Alarm" \in exec THEN "ALARM" ELSE @]
  OBVIOUS
<1>3. a \in SysRecords /\ a.state = sys.state /\ a.suspend = sys.suspend /\ a.soft = sys.soft
      /\ a.abort = sys.abort
  BY <1>1, <1>2 DEF SysRecords
<1>4. PICK h : h = Held(a)
  OBVIOUS
<1>5. PICK t : t = Started(h)
  OBVIOUS
<1>6. PICK u : u = Stopped(t)
  OBVIOUS
<1>7. /\ sys' = u /\ exec' = {}
      /\ running' = (running \/ (MayStart(h) /\ queue # <<>>))
  BY <1>2, <1>4, <1>5, <1>6 DEF Pass, RealtimePass
<1>8. /\ h \in SysRecords /\ h.abort = a.abort
      /\ h.state = a.state \/ (h.state = "HOLD" /\ a.state \notin {"ALARM", "CHECK", "JOG"})
      /\ a.state \in {"ALARM", "CHECK"} => h = a
      /\ "FeedHold" \notin exec => h = a
      /\ h.state \in {"IDLE", "CYCLE", "CHECK", "HOMING"} => h = a
      /\ h.state = "HOLD" /\ a.state # "IDLE" => h.suspend = a.suspend
  BY <1>3, <1>4 DEF Held, SysRecords, States
<1>9. /\ t \in SysRecords /\ t.abort = h.abort
      /\ ~MayStart(h) => t = h
      /\ MayStart(h) => /\ t.suspend = "none" /\ t.state \in {"CYCLE", "IDLE"}
                        /\ queue # <<>> => t.state = "CYCLE"
  BY <1>5, <1>8 DEF Started, SysRecords, States
<1>10. /\ u \in SysRecords /\ u.abort = t.abort
       /\ "CycleStop" \notin exec => u = t
       /\ u.state = t.state \/ u.state = "IDLE"
       /\ u.state = "IDLE" => u = t \/ u.suspend = "none"
       /\ u.state # "IDLE" => u = t \/ u.state = "HOLD"
  BY <1>6, <1>9 DEF Stopped, SysRecords, States
<1>11. MayStart(h) => "FeedHold" \notin exec /\ h = a /\ (h.state = "IDLE" \/ (h.state = "HOLD" /\ h.suspend = "complete"))
  BY <1>8 DEF MayStart
<1>12. MayStart(h) => ~running /\ "CycleStop" \notin exec
  BY <1>1, <1>3, <1>11 DEF Moving
<1>13. sys.state \in {"ALARM", "CHECK"} => u = a /\ ~MayStart(h)
  <2>1. SUFFICES ASSUME sys.state \in {"ALARM", "CHECK"} PROVE u = a /\ ~MayStart(h)
    OBVIOUS
  <2>2. h = a /\ h.state \notin {"IDLE", "HOLD"}
    BY <1>3, <1>8, <2>1
  <2>3. ~MayStart(h) /\ "CycleStop" \notin exec
    BY <1>1, <1>11, <2>1, <2>2 DEF Moving
  <2>4. QED
    BY <1>9, <1>10, <2>2, <2>3
<1>14. a = sys
  BY <1>1, <1>2 DEF SysRecords
<1>15. running' \in BOOLEAN
  BY <1>1, <1>7, Zenon
<1>16. running' => Moving'
  <2>1. CASE MayStart(h) /\ queue # <<>>
    <3>1. u.state = "CYCLE"
      BY <1>9, <1>10, <1>12, <2>1
    <3>2. QED
      BY <1>7, <3>1 DEF Moving
  <2>2. CASE running
    <3>1. u = h
      BY <1>1, <1>9, <1>10, <1>12, <2>2
    <3>2. h.state \in {"CYCLE", "JOG"} \/ (h.state = "HOLD" /\ h.suspend = "none")
      BY <1>1, <1>3, <1>8, <2>2 DEF Moving
    <3>3. QED
      BY <1>7, <3>1, <3>2 DEF Moving
  <2>3. QED
    BY <1>7, <2>1, <2>2
<1>17. u.state \in {"IDLE", "CYCLE", "CHECK", "HOMING"} => u.suspend = "none"
  <2>1. t.state \in {"IDLE", "CYCLE", "CHECK", "HOMING"} => t.suspend = "none"
    BY <1>1, <1>3, <1>8, <1>9
  <2>2. QED
    BY <1>10, <2>1
<1>18. u.state \in {"ALARM", "CHECK", "JOG"} => sys.state = u.state
  BY <1>3, <1>8, <1>9, <1>10
<1>19. sys.state \in {"ALARM", "CHECK"} => running' = running
  BY <1>1, <1>7, <1>13, Zenon
<1>20. QED
  BY <1>1, <1>3, <1>7, <1>8, <1>9, <1>10, <1>13, <1>14, <1>15, <1>16, <1>17, <1>18, <1>19

\* A pass with a reset is the abort.
LEMMA AbortFacts ==
  ASSUME StateInv, RunInv, Pass, "Reset" \in exec
  PROVE  /\ sys' \in SysRecords /\ sys'.abort = TRUE
         /\ sys'.state = IF "Alarm" \in exec THEN "ALARM" ELSE sys.state
         /\ sys'.suspend = sys.suspend
         /\ UNCHANGED <<exec, running, queue, plan, gc>>
<1>1. sys \in SysRecords
  BY DEF StateInv, SysRecords
<1>2. PICK a : a = [sys EXCEPT !.state = IF "Alarm" \in exec THEN "ALARM" ELSE @]
  OBVIOUS
<1>3. a \in SysRecords /\ a.state = (IF "Alarm" \in exec THEN "ALARM" ELSE sys.state)
      /\ a.suspend = sys.suspend
  BY <1>1, <1>2 DEF SysRecords, States
<1>4. sys' = [a EXCEPT !.abort = TRUE] /\ UNCHANGED <<exec, running, queue, plan, gc>>
  BY <1>2 DEF Pass, RealtimePass
<1>5. QED
  BY <1>3, <1>4 DEF SysRecords

\* What else changes the state while a line is executed.
JogStarts == \/ UNCHANGED <<sys, running>>
             \/ /\ sys.state = "IDLE" /\ sys' = [sys EXCEPT !.state = "JOG"] /\ running' = TRUE
                /\ Head(todo).jog

LEMMA JogStartedFacts ==
  ASSUME StateInv, NEW q, JogStarted(Head(todo), q)
  PROVE  JogStarts
<1>1. CASE Jogs(Head(todo), q)
  BY <1>1 DEF JogStarted, Jogs, JogStarts
<1>2. CASE ~Jogs(Head(todo), q)
  <2>1. sys' = sys
    BY <1>2 DEF JogStarted
  <2>2. running' = running
    BY <1>2, Zenon DEF JogStarted, StateInv
  <2>3. QED
    BY <2>1, <2>2 DEF JogStarts
<1>3. QED
  BY <1>1, <1>2

\* A motion is handed to the planner only by mc_line.
LEMMA PlanNext ==
  ASSUME Lists, ListInv, StoredInv, [Next]_vars, Next1("plan")'
  PROVE  (todo' = todo /\ Next1("plan")) \/ (Room /\ ToPlan)
<1>1. ~Tame(todo')
  BY TameList
<1>2. CASE SoftLimit /\ ToSoftWait
  <2>1. PICK w : w.op = "softWait" /\ IsCons(todo', w, todo)
    BY <1>2 DEF ToSoftWait
  <2>2. QED
    BY <2>1 DEF IsCons, Next1
<1>3. CASE todo' = todo
  BY <1>3 DEF Next1
<1>4. QED
  BY <1>1, <1>2, <1>3, TameCases

\* The list goes on while the state stays: a motion is left behind only after
\* an abort and in check mode.
GoesOn == \/ todo' = todo
          \/ todo # <<>> /\ Done /\ (Next1("move") => sys.abort \/ sys.state = "CHECK")
          \/ ToPlan /\ exec = {}
          \/ Next1("startup")
Quiet == /\ UNCHANGED <<sys, running>>
         /\ exec \subseteq exec' /\ exec' \subseteq exec \cup {"FeedHold", "CycleStart"}
         /\ GoesOn
Resets == Reset({}) /\ UNCHANGED sys /\ (todo' = todo \/ (Next1("restore") /\ Done))
Places == /\ JogStarts /\ exec' = exec
          /\ \/ Next1("plan") /\ Plan
             \/ Next1("place") /\ Done

LEMMA RoomState ==
  ASSUME Room
  PROVE  ~sys.abort /\ exec = {} /\ sys.suspend = "none" /\ Next1("move") /\ Planned(Head(todo))
BY DEF Room, Planned, Clear

LEMMA SysCases ==
  ASSUME Lists, ListInv, StateInv, [Next]_vars
  PROVE  \/ Quiet
         \/ Pass
         \/ SoftLimit
         \/ SoftWait /\ ~sys.abort
         \/ Resets
         \/ Places
         \/ \E l \in Lines : ReadLine(l)
         \/ Reinitialize
         \/ ComeToRest
<1>1. CASE AutoStart \/ Wait \/ WriteRecord \/ Pause \/ Resumed
  BY <1>1 DEF AutoStart, Wait, WriteRecord, Pause, Resumed, Next1, Quiet, GoesOn
<1>2. CASE End \/ StoreStartup \/ WriteGlobal \/ NoMove
  BY <1>2 DEF End, StoreStartup, WriteGlobal, NoMove, Next1, Quiet, GoesOn
<1>3. CASE SoftWait /\ sys.abort
  BY <1>3 DEF SoftWait, Next1, Quiet, GoesOn
<1>4. CASE Room
  <2>1. exec = {} /\ UNCHANGED <<sys, running>>
    BY <1>4, RoomState DEF Room
  <2>2. exec' = {} \/ exec' = {"CycleStart"}
    BY <1>4, <2>1 DEF Room
  <2>3. QED
    BY <1>4, <2>1, <2>2, RoomFacts DEF Quiet, GoesOn
<1>5. CASE Startup \/ Finish \/ UNCHANGED vars
  BY <1>5 DEF Startup, Finish, vars, Quiet, GoesOn
<1>6. CASE Restore
  BY <1>6 DEF Restore, Resets
<1>7. CASE Request
  BY <1>7 DEF Request, Resets, Quiet, GoesOn
<1>8. CASE Place
  BY <1>8, JogStartedFacts DEF Place, Places
<1>9. CASE Plan
  <2>1. CASE Done
    <3>1. \E q : JogStarted(Head(todo), q) \/ UNCHANGED <<sys, running>>
      BY <1>9 DEF Plan
    <3>2. JogStarts
      BY <3>1, JogStartedFacts DEF JogStarts
    <3>3. QED
      BY <1>9, <3>2 DEF Plan, Places
  <2>2. CASE ~Done
    <3>1. UNCHANGED <<sys, running>>
      BY <1>9, <2>2, LaserFacts
    <3>2. QED
      BY <1>9, <3>1 DEF Plan, Places, JogStarts
  <2>3. QED
    BY <2>1, <2>2
<1>10. QED
  BY <1>1, <1>2, <1>3, <1>4, <1>5, <1>6, <1>7, <1>8, <1>9 DEF Next

LEMMA NextStateInv ==
  ASSUME Lists, ListInv, StateInv, RunInv, [Next]_vars
  PROVE  StateInv'
<1>1. /\ sys \in SysRecords /\ exec \subseteq ExecFlags /\ running \in BOOLEAN
      /\ sys.state \in {"IDLE", "CYCLE", "CHECK", "HOMING"} => sys.suspend = "none"
      /\ sys.state = "ALARM" /\ ~sys.abort => sys.suspend = "none"
  BY DEF StateInv, SysRecords, ExecFlags
<1>2. SUFFICES /\ sys' \in SysRecords /\ exec' \subseteq ExecFlags /\ running' \in BOOLEAN
               /\ sys'.state \in {"IDLE", "CYCLE", "CHECK", "HOMING"} => sys'.suspend = "none"
               /\ sys'.state = "ALARM" /\ ~sys'.abort => sys'.suspend = "none"
  BY DEF StateInv, SysRecords, ExecFlags
<1>3. CASE Quiet
  BY <1>1, <1>3 DEF Quiet, ExecFlags
<1>4. CASE Pass
  <2>1. CASE "Reset" \in exec
    BY <1>1, <1>4, <2>1, AbortFacts
  <2>2. CASE "Reset" \notin exec
    <3>1. /\ sys' \in SysRecords /\ sys'.abort = FALSE /\ sys.abort = FALSE /\ exec' = {}
          /\ running' \in BOOLEAN /\ (running' => Moving')
          /\ sys'.state \in {"IDLE", "CYCLE", "CHECK", "HOMING"} => sys'.suspend = "none"
          /\ sys.state \in {"ALARM", "CHECK"} => sys' = sys /\ running' = running
          /\ sys'.state \in {"ALARM", "CHECK", "JOG"} => sys.state = sys'.state
      BY <1>4, <2>2, PassFacts
    <3>2. QED
      BY <1>1, <3>1
  <2>3. QED
    BY <2>1, <2>2
<1>5. CASE SoftLimit
  <2>1. sys' \in SysRecords /\ sys'.state = sys.state /\ sys'.suspend = sys.suspend /\ sys'.abort = sys.abort
    BY <1>1, <1>5 DEF SoftLimit, SysRecords
  <2>2. CASE sys.state = "CYCLE"
    BY <1>1, <1>5, <2>1, <2>2 DEF SoftLimit, ExecFlags
  <2>3. CASE sys.state # "CYCLE"
    <3>1. Reset({"Alarm"})
      BY <1>5, <2>3 DEF SoftLimit
    <3>2. QED
      BY <1>1, <2>1, <3>1, ResetFacts
  <2>4. QED
    BY <2>2, <2>3
<1>6. CASE SoftWait /\ ~sys.abort
  <2>1. Reset({"Alarm"}) /\ sys' = sys
    BY <1>6 DEF SoftWait
  <2>2. QED
    BY <1>1, <2>1, ResetFacts
<1>7. CASE Resets
  BY <1>1, <1>7, ResetFacts DEF Resets
<1>8. CASE Places
  <2>1. CASE UNCHANGED <<sys, running>>
    BY <1>1, <1>8, <2>1 DEF Places
  <2>2. CASE sys' = [sys EXCEPT !.state = "JOG"] /\ running' = TRUE
    BY <1>1, <1>8, <2>2 DEF Places, SysRecords, States
  <2>3. QED
    BY <1>8, <2>1, <2>2 DEF Places, JogStarts
<1>9. CASE \E l \in Lines : ReadLine(l)
  <2>1. PICK l \in Lines : ReadLine(l)
    BY <1>9
  <2>2. sys.suspend = "none"
    BY <2>1, ReadLineCases DEF Clear
  <2>3. CASE UNCHANGED <<sys, exec, running>>
    BY <1>1, <2>3
  <2>4. CASE LeavesCheck
    <3>1. Reset({}) /\ sys' = sys
      BY <2>4 DEF LeavesCheck
    <3>2. QED
      BY <1>1, <3>1, ResetFacts
  <2>5. CASE EntersCheck
    BY <1>1, <2>2, <2>5 DEF EntersCheck, SysRecords, States
  <2>6. CASE Unlocks
    BY <1>1, <2>2, <2>6 DEF Unlocks, SysRecords, States
  <2>7. CASE Homes
    BY <1>1, <2>2, <2>7 DEF Homes, SysRecords, States
  <2>8. QED
    BY <2>1, <2>3, <2>4, <2>5, <2>6, <2>7, ReadLineCases
       DEF Nothing, TakesGcode, TakesJog, TakesSetting, TakesStartup
<1>10. CASE Reinitialize
  BY <1>1, <1>10 DEF Reinitialize, SysRecords, States
<1>11. CASE ComeToRest
  BY <1>1, <1>11 DEF ComeToRest, ExecFlags
<1>12. QED
  BY <1>3, <1>4, <1>5, <1>6, <1>7, <1>8, <1>9, <1>10, <1>11, SysCases

\* The parts of RunInv.
RunWhileMoving == running => Moving
StopWhileMoving == "CycleStop" \in exec /\ "Reset" \notin exec => ~running /\ Moving
RunInReset == "Reset" \in exec /\ running => sys.state = "JOG"
AbortInReset == sys.abort => "Reset" \in exec /\ ~Next1("plan")
AlarmInReset == "Alarm" \in exec => /\ "Reset" \in exec
                                    /\ ~running
                                    /\ sys.state # "ALARM" => ~sys.abort
                                    /\ sys.state = "IDLE" => Next1("move")

LEMMA RunParts == RunInv <=> /\ RunWhileMoving /\ StopWhileMoving /\ RunInReset
                             /\ AbortInReset /\ AlarmInReset
BY DEF RunInv, RunWhileMoving, StopWhileMoving, RunInReset, AbortInReset, AlarmInReset

LEMMA RunPartsNext ==
  ASSUME RunWhileMoving', StopWhileMoving', RunInReset', AbortInReset', AlarmInReset'
  PROVE  RunInv'
BY DEF RunInv, RunWhileMoving, StopWhileMoving, RunInReset, AbortInReset, AlarmInReset

\* A reset stops the interrupt and ends what was going on.
LEMMA ResetRun ==
  ASSUME StateInv, RunInv, NEW f \in SUBSET {"Alarm"}, Reset(f),
         sys'.state = sys.state, sys'.suspend = sys.suspend
  PROVE  RunWhileMoving' /\ StopWhileMoving' /\ RunInReset'
<1>1. "Reset" \in exec' /\ (running' => running /\ "Reset" \in exec)
  BY ResetFacts
<1>2. running' => sys.state = "JOG"
  BY <1>1 DEF RunInv
<1>3. QED
  BY <1>1, <1>2 DEF RunWhileMoving, StopWhileMoving, RunInReset, Moving

LEMMA NextRunInv ==
  ASSUME Lists, ListInv, StoredInv, StateInv, RunInv, [Next]_vars
  PROVE  RunInv'
<1>1. RunWhileMoving /\ StopWhileMoving /\ RunInReset /\ AbortInReset /\ AlarmInReset
  BY RunParts
<1>2. Next1("plan")' => Next1("plan") \/ (~sys.abort /\ exec = {} /\ UNCHANGED sys)
  BY PlanNext, RoomState DEF Room
<1>3. CASE Quiet
  <2>1. /\ UNCHANGED <<sys, running>> /\ exec \subseteq exec'
        /\ "CycleStop" \in exec' => "CycleStop" \in exec
        /\ "Reset" \in exec' => "Reset" \in exec
        /\ "Alarm" \in exec' => "Alarm" \in exec
    BY <1>3 DEF Quiet
  <2>2. RunWhileMoving' /\ StopWhileMoving' /\ RunInReset'
    BY <1>1, <2>1 DEF RunWhileMoving, StopWhileMoving, RunInReset, Moving
  <2>3. AbortInReset'
    BY <1>1, <1>2, <2>1 DEF AbortInReset
  <2>4. "Alarm" \in exec /\ sys.state = "IDLE" => Next1("move")'
    <3>1. SUFFICES ASSUME "Alarm" \in exec, sys.state = "IDLE" PROVE Next1("move")'
      OBVIOUS
    <3>2. Next1("move") /\ ~sys.abort
      BY <1>1, <3>1 DEF AlarmInReset
    <3>3. todo' = todo
      BY <1>3, <3>1, <3>2 DEF Quiet, GoesOn, Next1
    <3>4. QED
      BY <3>2, <3>3 DEF Next1
  <2>5. AlarmInReset'
    BY <1>1, <2>1, <2>4 DEF AlarmInReset
  <2>6. QED
    BY <2>2, <2>3, <2>5, RunPartsNext
<1>4. CASE Pass
  <2>1. todo' = todo /\ AtCheckPoint
    BY <1>4 DEF Pass
  <2>2. ~Next1("plan")'
    BY <2>1 DEF AtCheckPoint, Next1
  <2>3. CASE "Reset" \in exec
    <3>1. /\ sys'.state = IF "Alarm" \in exec THEN "ALARM" ELSE sys.state
          /\ sys'.suspend = sys.suspend /\ UNCHANGED <<exec, running>>
      BY <1>4, <2>3, AbortFacts
    <3>2. QED
      BY <1>1, <2>2, <2>3, <3>1, RunPartsNext
         DEF RunWhileMoving, StopWhileMoving, RunInReset, AbortInReset, AlarmInReset, Moving
  <2>4. CASE "Reset" \notin exec
    <3>1. exec' = {} /\ (running' => Moving') /\ sys'.abort = FALSE
      BY <1>4, <2>4, PassFacts
    <3>2. QED
      BY <3>1, RunPartsNext
         DEF RunWhileMoving, StopWhileMoving, RunInReset, AbortInReset, AlarmInReset
  <2>5. QED
    BY <2>3, <2>4
<1>5. CASE SoftLimit
  <2>1. /\ sys' = [sys EXCEPT !.soft = TRUE] /\ sys \in SysRecords
        /\ Next1("move") /\ SoftLimited(Head(todo)) /\ ~sys.abort
    BY <1>5 DEF SoftLimit, StateInv, SysRecords
  <2>2. sys'.state = sys.state /\ sys'.suspend = sys.suspend /\ sys'.abort = sys.abort
    BY <2>1 DEF SysRecords
  <2>3. CASE sys.state = "CYCLE"
    <3>1. exec' = exec \cup {"FeedHold"} /\ running' = running
      BY <1>5, <2>3 DEF SoftLimit
    <3>2. RunWhileMoving' /\ StopWhileMoving' /\ RunInReset'
      BY <1>1, <2>2, <3>1 DEF RunWhileMoving, StopWhileMoving, RunInReset, Moving
    <3>3. AbortInReset' /\ AlarmInReset'
      BY <1>1, <2>1, <2>2, <2>3, <3>1 DEF AbortInReset, AlarmInReset
    <3>4. QED
      BY <3>2, <3>3, RunPartsNext
  <2>4. CASE sys.state # "CYCLE"
    <3>1. Reset({"Alarm"}) /\ todo' = todo
      BY <1>5, <2>4 DEF SoftLimit
    <3>2. RunWhileMoving' /\ StopWhileMoving' /\ RunInReset'
      BY <2>2, <3>1, ResetRun
    <3>3. "Reset" \in exec' /\ (running' => running /\ "Reset" \in exec)
      BY <3>1, ResetFacts
    <3>4. ~running'
      BY <1>1, <2>1, <3>3 DEF RunInReset, SoftLimited
    <3>5. Next1("move")'
      BY <2>1, <3>1 DEF Next1
    <3>6. AbortInReset' /\ AlarmInReset'
      BY <2>1, <2>2, <3>3, <3>4, <3>5 DEF AbortInReset, AlarmInReset
    <3>7. QED
      BY <3>2, <3>6, RunPartsNext
  <2>5. QED
    BY <2>3, <2>4
<1>6. CASE SoftWait /\ ~sys.abort
  <2>1. /\ Reset({"Alarm"}) /\ sys' = sys /\ sys.state = "IDLE" /\ Next1("softWait") /\ Done
    BY <1>6 DEF SoftWait
  <2>2. RunWhileMoving' /\ StopWhileMoving' /\ RunInReset'
    BY <2>1, ResetRun
  <2>3. "Reset" \in exec' /\ (running' => running /\ "Reset" \in exec)
    BY <2>1, ResetFacts
  <2>4. ~running'
    BY <1>1, <2>1, <2>3 DEF RunInReset
  <2>5. Next1("move")'
    BY <2>1 DEF ListInv, Done, Next1
  <2>6. AbortInReset' /\ AlarmInReset'
    BY <1>6, <2>1, <2>3, <2>4, <2>5 DEF AbortInReset, AlarmInReset
  <2>7. QED
    BY <2>2, <2>6, RunPartsNext
<1>7. CASE Resets
  <2>1. Reset({}) /\ sys' = sys /\ (todo' = todo \/ Next1("restore"))
    BY <1>7 DEF Resets
  <2>2. RunWhileMoving' /\ StopWhileMoving' /\ RunInReset'
    BY <2>1, ResetRun
  <2>3. /\ "Reset" \in exec' /\ (running' => running /\ "Reset" \in exec)
        /\ "Alarm" \in exec' =>
              \/ "Alarm" \in exec
              \/ sys.state \in {"CYCLE", "HOMING", "JOG", "HOLD"} /\ "Reset" \notin exec
    BY <2>1, ResetFacts
  <2>4. AbortInReset'
    BY <1>1, <1>2, <2>1, <2>3 DEF AbortInReset
  <2>5. AlarmInReset'
    <3>1. SUFFICES ASSUME "Alarm" \in exec'
                   PROVE  /\ ~running' /\ (sys.state # "ALARM" => ~sys.abort)
                          /\ sys.state = "IDLE" => Next1("move")'
      BY <2>1, <2>3 DEF AlarmInReset
    <3>2. CASE "Alarm" \in exec
      <4>1. sys.state = "IDLE" => Next1("move")'
        BY <1>1, <2>1, <3>2 DEF AlarmInReset, Next1
      <4>2. QED
        BY <1>1, <2>3, <3>2, <4>1 DEF AlarmInReset
    <3>3. CASE "Reset" \notin exec /\ sys.state \in {"CYCLE", "HOMING", "JOG", "HOLD"}
      BY <1>1, <2>3, <3>3 DEF AbortInReset
    <3>4. QED
      BY <2>3, <3>1, <3>2, <3>3
  <2>6. QED
    BY <2>2, <2>4, <2>5, RunPartsNext
<1>8. CASE Places
  <2>1. exec' = exec /\ (Next1("plan") \/ Next1("place"))
    BY <1>8 DEF Places
  <2>2. "Alarm" \in exec => sys.state # "IDLE"
    BY <1>1, <2>1 DEF AlarmInReset, Next1
  <2>3. CASE UNCHANGED <<sys, running>>
    <3>1. RunWhileMoving' /\ StopWhileMoving' /\ RunInReset' /\ AlarmInReset'
      BY <1>1, <2>1, <2>2, <2>3
         DEF RunWhileMoving, StopWhileMoving, RunInReset, AlarmInReset, Moving
    <3>2. AbortInReset'
      BY <1>1, <1>2, <2>1, <2>3 DEF AbortInReset
    <3>3. QED
      BY <3>1, <3>2, RunPartsNext
  <2>4. CASE sys.state = "IDLE" /\ sys' = [sys EXCEPT !.state = "JOG"] /\ running' = TRUE
    <3>1. sys'.state = "JOG" /\ sys'.abort = sys.abort
      BY <2>4 DEF StateInv
    <3>2. RunWhileMoving' /\ RunInReset'
      BY <3>1 DEF RunWhileMoving, RunInReset, Moving
    <3>3. StopWhileMoving' /\ AlarmInReset'
      BY <1>1, <2>1, <2>2, <2>4, <3>1 DEF StopWhileMoving, AlarmInReset, Moving
    <3>4. AbortInReset'
      BY <1>1, <1>2, <2>1, <3>1 DEF AbortInReset
    <3>5. QED
      BY <3>2, <3>3, <3>4, RunPartsNext
  <2>5. QED
    BY <1>8, <2>3, <2>4 DEF Places, JogStarts
<1>9. CASE \E l \in Lines : ReadLine(l)
  <2>1. PICK l \in Lines : ReadLine(l)
    BY <1>9
  <2>2. todo = <<>> /\ exec = {} /\ ~sys.abort
    BY <2>1, ReadLineCases DEF Clear
  <2>3. CASE LeavesCheck
    BY <2>3, <1>7 DEF LeavesCheck, Resets
  <2>4. CASE exec' = {} /\ sys'.abort = FALSE /\ (running' => Moving')
    BY <2>4, RunPartsNext
       DEF RunWhileMoving, StopWhileMoving, RunInReset, AbortInReset, AlarmInReset
  <2>5. CASE UNCHANGED <<sys, exec, running>>
    BY <1>1, <2>2, <2>4, <2>5 DEF RunWhileMoving, Moving, StateInv
  <2>6. CASE EntersCheck \/ Unlocks \/ Homes
    <3>1. exec' = {}
      BY <2>2, <2>6 DEF EntersCheck, Unlocks, Homes
    <3>2. sys'.abort = FALSE
      BY <2>2, <2>6 DEF EntersCheck, Unlocks, Homes, StateInv
    <3>3. running' => Moving'
      <4>1. CASE EntersCheck \/ Homes
        BY <1>1, <4>1 DEF EntersCheck, Homes, RunWhileMoving, Moving
      <4>2. CASE Unlocks
        <5>1. sys.state = "ALARM" => ~running
          BY <1>1 DEF RunWhileMoving, Moving
        <5>2. sys.state # "ALARM" => sys'.state = sys.state /\ sys'.suspend = sys.suspend
          BY <4>2 DEF Unlocks, StateInv
        <5>3. QED
          BY <1>1, <4>2, <5>1, <5>2 DEF Unlocks, RunWhileMoving, Moving
      <4>3. QED
        BY <2>6, <4>1, <4>2
    <3>4. QED
      BY <2>4, <3>1, <3>2, <3>3
  <2>7. QED
    BY <2>1, <2>3, <2>5, <2>6, ReadLineCases
       DEF Nothing, TakesGcode, TakesJog, TakesSetting, TakesStartup
<1>10. CASE Reinitialize
  <2>1. exec' = {} /\ running' = FALSE /\ sys'.abort = FALSE
    BY <1>10 DEF Reinitialize, StateInv
  <2>2. QED
    BY <2>1, RunPartsNext
       DEF RunWhileMoving, StopWhileMoving, RunInReset, AbortInReset, AlarmInReset
<1>11. CASE ComeToRest
  <2>1. running /\ running' = FALSE /\ exec' = exec \cup {"CycleStop"} /\ sys' = sys /\ todo' = todo
    BY <1>11 DEF ComeToRest
  <2>2. QED
    BY <1>1, <2>1, RunPartsNext
       DEF RunWhileMoving, StopWhileMoving, RunInReset, AbortInReset, AlarmInReset, Moving, Next1
<1>12. QED
  BY <1>3, <1>4, <1>5, <1>6, <1>7, <1>8, <1>9, <1>10, <1>11, SysCases

-----------------------------------------------------------------------------
(* Alarms and dry runs. *)

LEMMA NextLockInv ==
  ASSUME Lists, ListInv, StoredInv, StateInv, RunInv, LockInv, [Next]_vars
  PROVE  LockInv'
<1> DEFINE Quietly(s) == \A o \in Items(s) : o.op \in {"start", "wait", "global", "restore"}
<1>1. /\ sys.state \in {"ALARM", "CHECK"} => ~running /\ ~Next1("plan")
      /\ sys.state = "ALARM" /\ ~sys.abort => Quietly(todo)
  BY DEF LockInv
<1>2. SUFFICES /\ sys'.state \in {"ALARM", "CHECK"} => ~running' /\ ~Next1("plan")'
               /\ sys'.state = "ALARM" /\ ~sys'.abort => Quietly(todo')
  BY DEF LockInv
<1>3. sys.state = "ALARM" /\ ~sys.abort =>
        ~(Next1("move") \/ Next1("plan") \/ Next1("place") \/ Next1("startup"))
  <2>1. todo # <<>> => Head(todo) \in Items(todo)
    BY TailTame
  <2>2. QED
    BY <1>1, <2>1 DEF Next1
<1>4. sys.state \in {"ALARM", "CHECK"} => ~Next1("plan")'
  <2>1. SUFFICES ASSUME sys.state \in {"ALARM", "CHECK"}, Next1("plan")' PROVE FALSE
    OBVIOUS
  <2>2. Room
    BY <1>1, <2>1, PlanNext
  <2>3. ~sys.abort /\ Next1("move") /\ sys.state # "CHECK"
    BY <2>2, RoomState DEF Planned
  <2>4. QED
    BY <1>3, <2>1, <2>3
<1>5. CASE \E l \in Lines : ReadLine(l)
  <2>1. PICK l \in Lines : ReadLine(l)
    BY <1>5
  <2>2. todo = <<>> /\ exec = {} /\ ~sys.abort
    BY <2>1, ReadLineCases DEF Clear
  <2>3. Quietly(<<>>)
    BY EmptyList
  <2>4. CASE Nothing
    BY <1>1, <1>4, <2>4 DEF Nothing
  <2>5. CASE TakesGcode \/ TakesStartup
    <3>1. sys' = sys /\ running' = running /\ sys.state # "ALARM"
      BY <2>2, <2>5, GcodeFacts
    <3>2. QED
      BY <1>1, <1>4, <3>1
  <2>6. CASE TakesJog
    BY <2>6 DEF TakesJog
  <2>7. CASE TakesSetting
    BY <1>1, <1>4, <2>7 DEF TakesSetting, Storing
  <2>8. CASE LeavesCheck
    <3>1. running' => running
      BY <2>8, ResetFacts DEF LeavesCheck
    <3>2. QED
      BY <1>1, <1>4, <2>8, <3>1 DEF LeavesCheck
  <2>9. CASE EntersCheck
    <3>1. sys.state = "IDLE" /\ sys'.state = "CHECK" /\ UNCHANGED <<running, todo>>
      BY <2>9 DEF EntersCheck, StateInv
    <3>2. ~running /\ ~Next1("plan")'
      BY <2>2, <3>1 DEF RunInv, Moving, Next1
    <3>3. QED
      BY <3>1, <3>2
  <2>10. CASE Unlocks
    <3>1. sys'.state = "CHECK" => sys.state = "CHECK"
      BY <2>10 DEF Unlocks, StateInv
    <3>2. sys'.state # "ALARM"
      BY <2>10 DEF Unlocks, StateInv
    <3>3. QED
      BY <1>1, <1>4, <2>10, <3>1, <3>2 DEF Unlocks
  <2>11. CASE Homes
    <3>1. sys'.state \in {"IDLE", "HOMING"}
      BY <2>11 DEF Homes, StateInv
    <3>2. QED
      BY <3>1
  <2>12. QED
    BY <2>1, <2>4, <2>5, <2>6, <2>7, <2>8, <2>9, <2>10, <2>11, ReadLineCases
<1>6. CASE Reinitialize
  <2>1. sys'.state \in {"ALARM", "IDLE"} /\ (sys'.state = "ALARM" => sys.state = "ALARM") /\ running' = FALSE
    BY <1>6 DEF Reinitialize, StateInv
  <2>2. sys.state = "ALARM" => todo' = <<>>
    BY <1>6 DEF Reinitialize, StartsUp
  <2>3. QED
    BY <1>4, <2>1, <2>2, EmptyList
<1>7. sys.state = "ALARM" /\ ~sys.abort /\ ~(\E l \in Lines : ReadLine(l)) /\ ~Reinitialize
        => Quietly(todo')
  <2>1. SUFFICES ASSUME sys.state = "ALARM", ~sys.abort, ~(\E l \in Lines : ReadLine(l)), ~Reinitialize
                 PROVE  Quietly(todo')
    OBVIOUS
  <2>2. CASE todo' = todo
    BY <1>1, <2>1, <2>2
  <2>3. CASE todo # <<>> /\ Done
    BY <1>1, <2>1, <2>3, DoneFacts
  <2>4. CASE ToPlan \/ ToSoftWait \/ ToPlace \/ Startup
    BY <1>3, <2>1, <2>4 DEF ToPlan, ToSoftWait, ToPlace, Startup
  <2>5. QED
    BY <2>1, <2>2, <2>3, <2>4, TodoCases
<1>8. CASE ~(\E l \in Lines : ReadLine(l)) /\ ~Reinitialize
  <2>1. CASE sys'.state = sys.state /\ sys'.abort = sys.abort /\ (running' => running)
    BY <1>1, <1>4, <1>7, <1>8, <2>1
  <2>2. CASE Quiet
    BY <2>1, <2>2 DEF Quiet
  <2>3. CASE Pass
    <3>1. CASE "Reset" \in exec
      <4>1. /\ sys'.abort = TRUE /\ running' = running
            /\ sys'.state = IF "Alarm" \in exec THEN "ALARM" ELSE sys.state
        BY <2>3, <3>1, AbortFacts
      <4>2. ~Next1("plan")'
        BY <2>3 DEF Pass, AtCheckPoint, Next1
      <4>3. "Alarm" \in exec => ~running
        BY DEF RunInv
      <4>4. QED
        BY <1>1, <4>1, <4>2, <4>3
    <3>2. CASE "Reset" \notin exec
      <4>1. /\ sys.state \in {"ALARM", "CHECK"} => sys' = sys /\ running' = running
            /\ sys'.state \in {"ALARM", "CHECK", "JOG"} => sys.state = sys'.state
        BY <2>3, <3>2, PassFacts
      <4>2. QED
        BY <2>1, <4>1
    <3>3. QED
      BY <3>1, <3>2
  <2>4. CASE SoftLimit
    <3>1. sys'.state = sys.state /\ sys'.abort = sys.abort
      BY <2>4 DEF SoftLimit, StateInv
    <3>2. running' => running
      BY <2>4, ResetFacts DEF SoftLimit
    <3>3. QED
      BY <2>1, <3>1, <3>2
  <2>5. CASE SoftWait /\ ~sys.abort
    <3>1. Reset({"Alarm"}) /\ sys' = sys
      BY <2>5 DEF SoftWait
    <3>2. running' => running
      BY <3>1, ResetFacts
    <3>3. QED
      BY <2>1, <3>1, <3>2
  <2>6. CASE Resets
    <3>1. running' => running
      BY <2>6, ResetFacts DEF Resets
    <3>2. QED
      BY <2>1, <2>6, <3>1 DEF Resets
  <2>7. CASE Places
    <3>1. UNCHANGED <<sys, running>> \/ sys'.state = "JOG"
      BY <2>7 DEF Places, JogStarts, StateInv
    <3>2. QED
      BY <2>1, <3>1
  <2>8. CASE ComeToRest
    BY <2>1, <2>8 DEF ComeToRest
  <2>9. QED
    BY <1>8, <2>2, <2>3, <2>4, <2>5, <2>6, <2>7, <2>8, SysCases
<1>9. QED
  BY <1>5, <1>6, <1>8

-----------------------------------------------------------------------------
(* Jogs and the travel. *)

\* The jogs that are left were left before.
LEMMA JogItems ==
  ASSUME Lists, ListInv, StoredInv, [Next]_vars, ~(\E l \in Lines : ReadLine(l))
  PROVE  \A o \in Items(todo') : IsJogOp(o) => \E q \in Items(todo) : IsJogOp(q) /\ q.target = o.target
<1>1. SUFFICES ASSUME NEW o \in Items(todo'), IsJogOp(o)
               PROVE  \E q \in Items(todo) : IsJogOp(q) /\ q.target = o.target
  OBVIOUS
<1>2. CASE o \in Items(todo)
  BY <1>1, <1>2
<1>3. \A p, n : IsRenamed(p, n) /\ o = p /\ todo # <<>> /\ Head(todo).op \in Steppers
        => IsJogOp(Head(todo)) /\ Head(todo).target = o.target
  BY <1>1 DEF IsRenamed, IsJogOp
<1>4. todo # <<>> => Head(todo) \in Items(todo) /\ Items(Tail(todo)) \subseteq Items(todo)
  BY TailTame
<1>5. ~IsSync(o) /\ ~Fresh(o) /\ o.op \notin {"softWait", "startup"}
  BY <1>1, SyncOps DEF IsJogOp, Fresh, Steppers
<1>6. CASE todo # <<>> /\ Done
  BY <1>1, <1>2, <1>6, DoneFacts
<1>7. CASE ToPlan
  <2>1. PICK p : IsRenamed(p, "plan") /\ Items(todo') = {p} \cup Items(Tail(todo))
    BY <1>7 DEF ToPlan, IsCons
  <2>2. todo # <<>> /\ Head(todo).op \in Steppers
    BY <1>7 DEF ToPlan, Next1, Steppers
  <2>3. QED
    BY <1>1, <1>2, <1>3, <1>4, <2>1, <2>2
<1>8. CASE ToSoftWait
  <2>1. PICK w : w.op = "softWait" /\ Items(todo') = {w} \cup Items(todo)
    BY <1>8 DEF ToSoftWait, IsCons
  <2>2. QED
    BY <1>1, <1>2, <1>5, <2>1
<1>9. CASE ToPlace
  <2>1. PICK p : /\ IsRenamed(p, "place")
                 /\ \A x \in Items(todo') : IsSync(x) \/ x = p \/ x \in Items(Tail(todo))
    BY <1>9 DEF ToPlace
  <2>2. todo # <<>> /\ Head(todo).op \in Steppers
    BY <1>9 DEF ToPlace, Next1, Steppers
  <2>3. QED
    BY <1>1, <1>2, <1>3, <1>4, <1>5, <2>1, <2>2
<1>10. CASE Startup
  BY <1>1, <1>2, <1>5, <1>10, StartupFacts
<1>11. CASE Reinitialize
  <2>1. o.op = "startup"
    BY <1>1, <1>11, RunStartupFacts, EmptyList DEF Reinitialize
  <2>2. QED
    BY <1>5, <2>1
<1>12. QED
  BY <1>1, <1>2, <1>6, <1>7, <1>8, <1>9, <1>10, <1>11, TodoCases

LEMMA JogState ==
  ASSUME Lists, ListInv, StateInv, RunInv, [Next]_vars, ~(\E l \in Lines : ReadLine(l)),
         sys'.state = "JOG"
  PROVE  sys.state = "JOG" \/ (todo # <<>> /\ IsJogOp(Head(todo)))
<1>1. CASE sys'.state = sys.state
  BY <1>1
<1>2. CASE Quiet \/ ComeToRest
  BY <1>1, <1>2 DEF Quiet, ComeToRest
<1>3. CASE Pass
  <2>1. CASE "Reset" \in exec
    BY <1>3, <2>1, AbortFacts
  <2>2. CASE "Reset" \notin exec
    BY <1>3, <2>2, PassFacts
  <2>3. QED
    BY <2>1, <2>2
<1>4. CASE SoftLimit
  BY <1>1, <1>4 DEF SoftLimit, StateInv
<1>5. CASE SoftWait \/ Resets
  BY <1>1, <1>5 DEF SoftWait, Resets
<1>6. CASE Places
  <2>1. todo # <<>> /\ Head(todo).op \in Steppers
    BY <1>6 DEF Places, Next1, Steppers
  <2>2. sys' = sys \/ Head(todo).jog
    BY <1>6 DEF Places, JogStarts
  <2>3. QED
    BY <1>1, <2>1, <2>2 DEF IsJogOp
<1>7. CASE Reinitialize
  BY <1>7 DEF Reinitialize, StateInv
<1>8. QED
  BY <1>2, <1>3, <1>4, <1>5, <1>6, <1>7, SysCases

LEMMA NextSettings ==
  ASSUME [Next]_vars, ~(\E l \in Lines : ReadLine(l))
  PROVE  settings' = settings
<1>1. CASE Pass \/ AutoStart \/ Wait \/ WriteRecord \/ SoftLimit \/ SoftWait \/ NoMove \/ Room
  BY <1>1 DEF Pass, AutoStart, Wait, WriteRecord, SoftLimit, SoftWait, NoMove, Room, stored
<1>2. CASE Plan \/ Place \/ Pause \/ Resumed \/ End \/ Startup \/ StoreStartup \/ WriteGlobal
  BY <1>2 DEF Plan, Place, Pause, Resumed, End, Startup, StoreStartup, WriteGlobal, stored
<1>3. CASE Restore \/ Reinitialize \/ Finish \/ ComeToRest \/ Request \/ UNCHANGED vars
  BY <1>3 DEF Restore, Reinitialize, Finish, ComeToRest, Request, vars, stored
<1>4. QED
  BY <1>1, <1>2, <1>3 DEF Next

LEMMA NextTravelInv ==
  ASSUME Lists, ListInv, StoredInv, StateInv, RunInv, TravelInv, [Next]_vars
  PROVE  TravelInv'
<1> DEFINE Jogging == sys.state = "JOG" \/ \E o \in Items(todo) : IsJogOp(o)
           Other(o) == o.op \in {"start", "wait", "softWait"}
<1>1. CASE \E l \in Lines : ReadLine(l)
  <2>1. PICK l \in Lines : ReadLine(l)
    BY <1>1
  <2>2. todo = <<>>
    BY <2>1, ReadLineCases
  <2>3. ~Next1("plan")'
    <3>1. CASE Next1("plan")'
      BY <2>1, <2>2, <3>1, PlanNext, RoomState DEF Next1
    <3>2. QED
      BY <3>1
  <2>4. CASE (\A o \in Items(todo') : ~IsJogOp(o)) /\ (sys'.state = "JOG" => todo' = <<>>)
    BY <2>3, <2>4, EmptyList DEF TravelInv
  <2>5. CASE Nothing \/ LeavesCheck \/ EntersCheck \/ Unlocks
    <3>1. todo' = <<>>
      BY <2>2, <2>5 DEF Nothing, LeavesCheck, EntersCheck, Unlocks
    <3>2. QED
      BY <2>4, <3>1, EmptyList
  <2>6. CASE TakesGcode \/ TakesStartup
    <3>1. /\ sys.state # "JOG" /\ sys' = sys
          /\ \A o \in Items(todo') : o.op \in Steppers => o.jog = FALSE
      BY <2>2, <2>6, GcodeFacts
    <3>2. QED
      BY <2>4, <3>1 DEF IsJogOp
  <2>7. CASE TakesJog
    <3>1. PICK o : /\ todo' = <<o>> /\ o.op = "move" /\ o.jog
                   /\ settings[20] = 1 => ~BeyondTravel(settings, o.target)
      BY <2>7 DEF TakesJog
    <3>2. Items(todo') = {o} /\ IsJogOp(o) /\ settings' = settings
      BY <2>7, <3>1, OneItem DEF IsJogOp, Steppers, TakesJog
    <3>3. QED
      BY <2>3, <3>1, <3>2 DEF TravelInv
  <2>8. CASE TakesSetting
    <3>1. \A o \in Items(todo') : ~IsJogOp(o)
      BY <2>8 DEF TakesSetting, Storing, IsJogOp, Steppers
    <3>2. sys'.state # "JOG"
      BY <2>8 DEF TakesSetting
    <3>3. QED
      BY <2>4, <3>1, <3>2
  <2>9. CASE Homes
    <3>1. sys'.state # "JOG"
      BY <2>9 DEF Homes, StateInv
    <3>2. \A o \in Items(todo') : ~IsJogOp(o)
      BY <2>2, <2>9, RunStartupFacts, EmptyList DEF Homes, IsJogOp, Steppers
    <3>3. QED
      BY <2>4, <3>1, <3>2
  <2>10. QED
    BY <2>1, <2>5, <2>6, <2>7, <2>8, <2>9, ReadLineCases
<1>2. CASE ~(\E l \in Lines : ReadLine(l))
  <2>1. settings' = settings
    BY <1>2, NextSettings
  <2>2. /\ \A o \in Items(todo) : IsJogOp(o) /\ settings[20] = 1 => ~BeyondTravel(settings, o.target)
        /\ Jogging => \A o \in Items(todo) : IsJogOp(o) \/ Other(o)
    BY DEF TravelInv
  <2>3. \A o \in Items(todo') : IsJogOp(o) /\ settings'[20] = 1 => ~BeyondTravel(settings', o.target)
    BY <1>2, <2>1, <2>2, JogItems
  <2>4. settings'[20] = 1 /\ Next1("plan")' => ~BeyondTravel(settings', Head(todo').target)
    <3>1. SUFFICES ASSUME settings[20] = 1, Next1("plan")' PROVE ~BeyondTravel(settings, Head(todo').target)
      BY <2>1
    <3>2. CASE todo' = todo /\ Next1("plan")
      BY <3>1, <3>2 DEF TravelInv
    <3>3. CASE Room /\ ToPlan
      <4>1. PICK p : IsRenamed(p, "plan") /\ Head(todo') = p
        BY <3>3 DEF ToPlan, IsCons
      <4>2. Head(todo').target = Head(todo).target
        BY <4>1 DEF IsRenamed
      <4>3. todo # <<>> /\ Head(todo).op = "move" /\ ~SoftLimited(Head(todo)) /\ Head(todo) \in Items(todo)
        BY <3>3, TailTame DEF ToPlan, Planned, Next1
      <4>4. CASE sys.state = "JOG"
        <5>1. IsJogOp(Head(todo))
          BY <2>2, <4>3, <4>4
        <5>2. QED
          BY <2>2, <3>1, <4>2, <4>3, <5>1
      <4>5. CASE sys.state # "JOG"
        BY <3>1, <4>2, <4>3, <4>5 DEF SoftLimited
      <4>6. QED
        BY <4>4, <4>5
    <3>4. QED
      BY <3>1, <3>2, <3>3, PlanNext
  <2>5. sys'.state = "JOG" \/ (\E o \in Items(todo') : IsJogOp(o))
          => \A o \in Items(todo') : IsJogOp(o) \/ Other(o)
    <3>1. SUFFICES ASSUME sys'.state = "JOG" \/ (\E o \in Items(todo') : IsJogOp(o)), NEW o \in Items(todo')
                   PROVE  IsJogOp(o) \/ Other(o)
      OBVIOUS
    <3>2. todo # <<>> => /\ Head(todo) \in Items(todo) /\ Items(Tail(todo)) \subseteq Items(todo)
      BY TailTame
    <3>3. Jogging
      BY <1>2, <3>1, <3>2, JogItems, JogState
    <3>4. \A q \in Items(todo) : IsJogOp(q) \/ Other(q)
      BY <2>2, <3>3
    <3>5. \A p, n : IsRenamed(p, n) /\ n \in Steppers /\ todo # <<>> /\ Head(todo).op \in Steppers => IsJogOp(p)
      <4>1. todo # <<>> /\ Head(todo).op \in Steppers => Head(todo).jog
        BY <3>2, <3>4 DEF IsJogOp, Steppers
      <4>2. QED
        BY <4>1 DEF IsRenamed, IsJogOp
    <3>6. CASE o \in Items(todo)
      BY <3>4, <3>6
    <3>7. CASE todo # <<>> /\ Done
      BY <3>1, <3>6, <3>7, DoneFacts
    <3>8. CASE ToPlan
      <4>1. PICK p : IsRenamed(p, "plan") /\ Items(todo') = {p} \cup Items(Tail(todo))
        BY <3>8 DEF ToPlan, IsCons
      <4>2. todo # <<>> /\ Head(todo).op \in Steppers /\ "plan" \in Steppers
        BY <3>8 DEF ToPlan, Next1, Steppers
      <4>3. QED
        BY <3>1, <3>2, <3>5, <3>6, <4>1, <4>2
    <3>9. CASE ToSoftWait
      <4>1. PICK w : w.op = "softWait" /\ Items(todo') = {w} \cup Items(todo)
        BY <3>9 DEF ToSoftWait, IsCons
      <4>2. QED
        BY <3>1, <3>6, <4>1
    <3>10. CASE ToPlace
      <4>1. PICK p : /\ IsRenamed(p, "place")
                     /\ \A x \in Items(todo') : IsSync(x) \/ x = p \/ x \in Items(Tail(todo))
        BY <3>10 DEF ToPlace
      <4>2. todo # <<>> /\ Head(todo).op \in Steppers /\ "place" \in Steppers
        BY <3>10 DEF ToPlace, Next1, Steppers
      <4>3. IsSync(o) => Other(o)
        BY SyncOps
      <4>4. QED
        BY <3>1, <3>2, <3>5, <3>6, <4>1, <4>2, <4>3
    <3>11. CASE Startup
      <4>1. todo # <<>> /\ Head(todo).op = "startup"
        BY <3>11 DEF Startup, Next1
      <4>2. ~IsJogOp(Head(todo)) /\ ~Other(Head(todo))
        BY <4>1 DEF IsJogOp, Steppers
      <4>3. QED
        BY <3>2, <3>4, <4>1, <4>2
    <3>12. CASE Reinitialize
      <4>1. sys'.state # "JOG"
        BY <3>12 DEF Reinitialize, StateInv
      <4>2. \A x \in Items(todo') : ~IsJogOp(x)
        BY <3>12, RunStartupFacts, EmptyList DEF Reinitialize, IsJogOp, Steppers
      <4>3. QED
        BY <3>1, <4>1, <4>2
    <3>13. QED
      BY <1>2, <3>1, <3>6, <3>7, <3>8, <3>9, <3>10, <3>11, <3>12, TodoCases
  <2>6. QED
    BY <2>3, <2>4, <2>5 DEF TravelInv
<1>3. QED
  BY <1>1, <1>2

-----------------------------------------------------------------------------
(* The offset of the active system. *)

LEMMA OrderedInFront ==
  ASSUME NEW c, NEW x, NEW s, IsCons(c, x, s), IsList(s), Ordered(s), x.op \notin {"end", "startup"}
  PROVE  Ordered(c)
<1>1. IsList(c) /\ c # <<>> /\ Head(c) = x /\ Tail(c) = s
  BY DEF IsCons
<1>2. PICK S : c \in Seq(S)
  BY <1>1 DEF IsList
<1>3. /\ Len(c) \in Nat \ {0} /\ Len(s) = Len(c) - 1 /\ c[1] = x
      /\ \A k \in 1 .. Len(c) - 1 : s[k] = c[k + 1]
  BY <1>1, <1>2
<1>4. SUFFICES ASSUME NEW i \in 1 .. Len(c), NEW j \in 1 .. Len(c), i < j, c[i].op \in {"end", "startup"}
               PROVE  /\ c[i].op = "end" => c[j].op # "write"
                      /\ c[i].op = "startup" => c[j].op = "startup"
  BY DEF Ordered
<1>5. i # 1
  BY <1>3, <1>4
<1>6. i - 1 \in 1 .. Len(s) /\ j - 1 \in 1 .. Len(s) /\ i - 1 < j - 1
  BY <1>3, <1>4, <1>5
<1>7. s[i - 1] = c[i] /\ s[j - 1] = c[j]
  BY <1>3, <1>6
<1>8. QED
  BY <1>4, <1>6, <1>7 DEF Ordered

LEMMA NextOrdered ==
  ASSUME Lists, ListInv, StoredInv, [Next]_vars
  PROVE  Ordered(todo')
<1>1. Ordered(todo)
  BY DEF StoredInv
<1>2. CASE todo' = todo
  BY <1>1, <1>2
<1>3. CASE todo # <<>> /\ Done
  BY <1>1, <1>3, DoneFacts
<1>4. CASE ToPlan
  <2>1. PICK p : IsRenamed(p, "plan") /\ IsCons(todo', p, Tail(todo))
    BY <1>4 DEF ToPlan
  <2>2. todo # <<>> /\ p.op = "plan"
    BY <1>4, <2>1 DEF ToPlan, Next1, IsRenamed
  <2>3. IsList(Tail(todo)) /\ Ordered(Tail(todo))
    BY <1>1, <2>2, HeadAndTail, OrderedTail DEF Lists
  <2>4. QED
    BY <2>1, <2>2, <2>3, OrderedInFront
<1>5. CASE ToSoftWait
  <2>1. PICK w : w.op = "softWait" /\ IsCons(todo', w, todo)
    BY <1>5 DEF ToSoftWait
  <2>2. QED
    BY <1>1, <2>1, OrderedInFront DEF Lists
<1>6. CASE Startup
  BY <1>6, StartupFacts
<1>7. CASE \E l \in Lines : ReadLine(l)
  <2>1. PICK l \in Lines : ReadLine(l)
    BY <1>7
  <2>2. todo = <<>>
    BY <2>1, ReadLineCases
  <2>3. CASE Nothing \/ LeavesCheck \/ EntersCheck \/ Unlocks
    BY <1>1, <2>3 DEF Nothing, LeavesCheck, EntersCheck, Unlocks
  <2>4. CASE TakesGcode \/ TakesStartup
    BY <2>2, <2>4, GcodeFacts
  <2>5. CASE TakesJog
    <3>1. PICK o : todo' = <<o>> /\ o.op = "move"
      BY <2>5 DEF TakesJog
    <3>2. QED
      BY <3>1, OneItem, NoEndOrdered
  <2>6. CASE TakesSetting
    <3>1. \A o \in Items(todo') : o.op \notin {"write", "startup"}
      BY <2>6 DEF TakesSetting, Storing
    <3>2. QED
      BY <3>1, NoEndOrdered
  <2>7. CASE Homes
    BY <1>1, <2>7, RunStartupFacts, NoEndOrdered DEF Homes
  <2>8. QED
    BY <2>1, <2>3, <2>4, <2>5, <2>6, <2>7, ReadLineCases
<1>8. CASE Reinitialize
  BY <1>8, RunStartupFacts, EmptyList, NoEndOrdered DEF Reinitialize
<1>9. QED
  BY <1>1, <1>2, <1>3, <1>4, <1>5, <1>6, <1>7, <1>8, TodoCases

\* The steps that write, or change what the parser knows of its system.
Tells == \/ WriteRecord \/ Restore \/ End \/ Startup \/ Reinitialize
         \/ \E l \in Lines : ReadLine(l)

LEMMA NextWrites ==
  ASSUME Lists, ListInv, [Next]_vars, ~Tells
  PROVE  SameWrites(todo', todo)
<1>1. CASE todo' = todo
  BY <1>1 DEF SameWrites
<1>2. CASE todo # <<>> /\ Done /\ Head(todo).op # "write"
  BY <1>2, DoneFacts
<1>3. CASE Pass \/ Finish \/ ComeToRest \/ Request \/ UNCHANGED vars
  BY <1>1, <1>3 DEF Pass, Finish, ComeToRest, Request, vars
<1>4. CASE AutoStart \/ Wait \/ SoftWait \/ NoMove \/ Place
  BY <1>1, <1>2, <1>4 DEF AutoStart, Wait, SoftWait, NoMove, Place, Next1
<1>5. CASE Pause \/ Resumed \/ StoreStartup \/ WriteGlobal
  BY <1>2, <1>5 DEF Pause, Resumed, StoreStartup, WriteGlobal, Next1
<1>6. todo # <<>> => Items(todo) = {Head(todo)} \cup Items(Tail(todo))
  BY TailTame
<1>7. CASE SoftLimit
  <2>1. CASE ToSoftWait
    <3>1. PICK w : w.op = "softWait" /\ Items(todo') = {w} \cup Items(todo)
      BY <2>1 DEF ToSoftWait, IsCons
    <3>2. QED
      BY <3>1 DEF SameWrites
  <2>2. QED
    BY <1>1, <1>7, <2>1, SoftLimitFacts
<1>8. CASE Room
  <2>1. CASE ToPlan
    <3>1. PICK p : IsRenamed(p, "plan") /\ Items(todo') = {p} \cup Items(Tail(todo))
      BY <2>1 DEF ToPlan, IsCons
    <3>2. todo # <<>> /\ Head(todo).op = "move" /\ p.op = "plan"
      BY <2>1, <3>1 DEF ToPlan, Next1, IsRenamed
    <3>3. QED
      BY <1>6, <3>1, <3>2 DEF SameWrites
  <2>2. QED
    BY <1>1, <1>8, <2>1, RoomFacts
<1>9. CASE Plan
  <2>1. Next1("plan")
    BY <1>9 DEF Plan
  <2>2. CASE Done
    BY <1>2, <2>1, <2>2 DEF Next1
  <2>3. CASE ToPlace
    <3>1. PICK p : /\ IsRenamed(p, "place")
                   /\ \A o \in Items(todo') : IsSync(o) \/ o = p \/ o \in Items(Tail(todo))
                   /\ Items(Tail(todo)) \subseteq Items(todo')
      BY <2>3 DEF ToPlace
    <3>2. todo # <<>> /\ Head(todo).op = "plan" /\ p.op = "place"
      BY <2>1, <3>1 DEF Next1, IsRenamed
    <3>3. \A o : IsSync(o) => o.op # "write"
      BY SyncOps
    <3>4. \A o : o.op = "write" /\ o \in Items(todo') => o \in Items(Tail(todo))
      BY <3>1, <3>2, <3>3
    <3>5. QED
      BY <1>6, <3>1, <3>2, <3>4 DEF SameWrites
  <2>4. QED
    BY <1>9, <2>2, <2>3, LaserFacts
<1>10. QED
  BY <1>3, <1>4, <1>5, <1>7, <1>8, <1>9 DEF Next, Tells

LEMMA NextSystem ==
  ASSUME StoredInv, [Next]_vars, ~Tells
  PROVE  /\ Parser(gc') /\ gc'.coord = gc.coord /\ gc'.system = gc.system
         /\ eeprom'.coords = eeprom.coords /\ "coords" \in DOMAIN eeprom'
<1>1. Parser(gc) /\ "coords" \in DOMAIN eeprom
  BY DEF StoredInv
<1>2. \A x : LET g == [gc EXCEPT !.pos = x]
             IN Parser(g) /\ g.coord = gc.coord /\ g.system = gc.system
  BY <1>1 DEF Parser
<1>3. gc' = gc \/ \E x : gc' = [gc EXCEPT !.pos = x]
  <2>1. CASE Pass
    BY <2>1 DEF Pass, RealtimePass
  <2>2. CASE AutoStart \/ Wait \/ SoftLimit \/ SoftWait \/ Room \/ Pause \/ Resumed
    BY <2>2 DEF AutoStart, Wait, SoftLimit, SoftWait, Room, Pause, Resumed
  <2>3. CASE NoMove \/ Place
    BY <2>3 DEF NoMove, Place, Placed
  <2>4. CASE Plan
    BY <2>4 DEF Plan, Placed
  <2>5. CASE StoreStartup \/ WriteGlobal \/ Finish \/ ComeToRest \/ Request \/ UNCHANGED vars
    BY <2>5 DEF StoreStartup, WriteGlobal, Finish, ComeToRest, Request, vars
  <2>6. QED
    BY <2>1, <2>2, <2>3, <2>4, <2>5 DEF Next, Tells
<1>4. eeprom'.coords = eeprom.coords /\ "coords" \in DOMAIN eeprom'
  <2>1. CASE Pass \/ AutoStart \/ Wait \/ SoftLimit \/ SoftWait \/ Room \/ Pause \/ Resumed
    BY <1>1, <2>1 DEF Pass, AutoStart, Wait, SoftLimit, SoftWait, Room, Pause, Resumed, stored
  <2>2. CASE NoMove \/ Place \/ Plan \/ Finish \/ ComeToRest \/ Request \/ UNCHANGED vars
    BY <1>1, <2>2 DEF NoMove, Place, Plan, Finish, ComeToRest, Request, vars, stored
  <2>3. CASE StoreStartup
    <3>1. PICK n, b : eeprom' = [eeprom EXCEPT !.startup[n] = b]
      BY <2>3 DEF StoreStartup, WithStartup
    <3>2. QED
      BY <1>1, <3>1
  <2>4. CASE WriteGlobal
    BY <1>1, <2>4 DEF WriteGlobal, WithGlobal
  <2>5. QED
    BY <2>1, <2>2, <2>3, <2>4 DEF Next, Tells
<1>5. QED
  BY <1>1, <1>2, <1>3, <1>4

\* Nothing but a new start ends a reset or a dry run.
InForce == sys.state # "CHECK" /\ "Reset" \notin exec /\ ~sys.abort

LEMMA InForceBefore ==
  ASSUME Lists, ListInv, StateInv, RunInv, [Next]_vars, InForce',
         ~(\E l \in Lines : ReadLine(l)), ~Reinitialize
  PROVE  InForce
<1>1. CASE sys'.state = sys.state /\ sys'.abort = sys.abort /\ exec \subseteq exec'
  BY <1>1 DEF InForce
<1>2. CASE Quiet \/ ComeToRest
  BY <1>1, <1>2 DEF Quiet, ComeToRest
<1>3. CASE Pass
  <2>1. CASE "Reset" \in exec
    BY <1>3, <2>1, AbortFacts DEF InForce
  <2>2. CASE "Reset" \notin exec
    <3>1. sys.abort = FALSE /\ (sys.state \in {"ALARM", "CHECK"} => sys' = sys /\ running' = running)
      BY <1>3, <2>2, PassFacts
    <3>2. QED
      BY <2>2, <3>1 DEF InForce
  <2>3. QED
    BY <2>1, <2>2
<1>4. CASE SoftLimit
  <2>1. sys'.state = sys.state /\ sys'.abort = sys.abort
    BY <1>4 DEF SoftLimit, StateInv
  <2>2. exec \subseteq exec'
    BY <1>4, ResetFacts DEF SoftLimit
  <2>3. QED
    BY <1>1, <2>1, <2>2
<1>5. CASE SoftWait /\ ~sys.abort
  <2>1. Reset({"Alarm"}) /\ sys' = sys
    BY <1>5 DEF SoftWait
  <2>2. QED
    BY <1>1, <2>1, ResetFacts
<1>6. CASE Resets
  BY <1>1, <1>6, ResetFacts DEF Resets
<1>7. CASE Places
  <2>1. exec' = exec /\ sys'.abort = sys.abort /\ (sys.state = "CHECK" => sys'.state = "CHECK")
    BY <1>7 DEF Places, JogStarts, StateInv
  <2>2. QED
    BY <2>1 DEF InForce
<1>8. QED
  BY <1>2, <1>3, <1>4, <1>5, <1>6, <1>7, SysCases

LEMMA NextStoredInv ==
  ASSUME Lists, ListInv, StateInv, RunInv, StoredInv, [Next]_vars
  PROVE  StoredInv'
<1>1. /\ Parser(gc) /\ "coords" \in DOMAIN eeprom /\ Records \subseteq DOMAIN eeprom.coords
      /\ Ordered(todo) /\ (InForce => Consistent(gc, eeprom, todo))
  BY DEF StoredInv, InForce
<1>2. SUFFICES /\ Parser(gc') /\ "coords" \in DOMAIN eeprom' /\ Records \subseteq DOMAIN eeprom'.coords
               /\ InForce' => Consistent(gc', eeprom', todo')
  BY NextOrdered DEF StoredInv, InForce
<1>3. todo # <<>> => Items(todo) = {Head(todo)} \cup Items(Tail(todo))
  BY TailTame
<1>4. CASE ~Tells
  <2>1. /\ Parser(gc') /\ gc'.coord = gc.coord /\ gc'.system = gc.system
        /\ eeprom'.coords = eeprom.coords /\ "coords" \in DOMAIN eeprom'
    BY <1>4, NextSystem
  <2>2. SameWrites(todo', todo)
    BY <1>4, NextWrites
  <2>3. Consistent(gc, eeprom, todo) => Consistent(gc', eeprom', todo')
    BY <2>1, <2>2 DEF Consistent, Stores, SameWrites
  <2>4. InForce' => InForce
    BY <1>4, InForceBefore DEF Tells
  <2>5. QED
    BY <1>1, <2>1, <2>3, <2>4
<1>5. CASE WriteRecord
  <2>1. PICK w : w = Head(todo)
    OBVIOUS
  <2>2. /\ w.op = "write" /\ todo # <<>> /\ todo' = Tail(todo)
        /\ eeprom' = [eeprom EXCEPT !.coords[w.record] = w.data]
        /\ UNCHANGED <<gc, sys, exec>>
    BY <1>5, <2>1 DEF WriteRecord, Next1, Done, WithCoordinates
  <2>3. /\ "coords" \in DOMAIN eeprom' /\ DOMAIN eeprom'.coords = DOMAIN eeprom.coords
        /\ \A r \in Records : eeprom'.coords[r] = IF r = w.record THEN w.data ELSE eeprom.coords[r]
    BY <1>1, <2>2
  <2>4. gc.coord \in Records
    BY <1>1 DEF Parser, Records
  <2>5. Items(todo) = {w} \cup Items(todo')
    BY <1>3, <2>1, <2>2
  <2>6. ASSUME Consistent(gc, eeprom, todo) PROVE Consistent(gc, eeprom', todo')
    <3>1. Stores(todo', gc.coord, gc.system)
      BY <2>5, <2>6 DEF Consistent, Stores
    <3>2. ASSUME \A o \in Items(todo') : ~(o.op = "write" /\ o.record = gc.coord)
          PROVE  gc.system = eeprom'.coords[gc.coord]
      <4>1. CASE w.record = gc.coord
        BY <2>2, <2>3, <2>4, <2>5, <2>6, <4>1 DEF Consistent, Stores
      <4>2. CASE w.record # gc.coord
        BY <2>3, <2>4, <2>5, <2>6, <3>2, <4>2 DEF Consistent
      <4>3. QED
        BY <4>1, <4>2
    <3>3. QED
      BY <3>1, <3>2 DEF Consistent
  <2>7. InForce' => InForce
    BY <2>2 DEF InForce
  <2>8. QED
    BY <1>1, <2>2, <2>3, <2>6, <2>7
<1>6. CASE Restore
  <2>1. Reset({}) /\ UNCHANGED gc
    BY <1>6 DEF Restore
  <2>2. ~InForce'
    BY <2>1, ResetFacts DEF InForce
  <2>3. PICK w : eeprom' = Restored(eeprom, w)
    BY <1>6 DEF Restore
  <2>4. "coords" \in DOMAIN eeprom' /\ Records \subseteq DOMAIN eeprom'.coords
    BY <1>1, <2>3 DEF Restored
  <2>5. QED
    BY <1>1, <2>1, <2>2, <2>4
<1>7. CASE End
  <2>1. PICK y : y = IF sys.state = "CHECK" THEN gc.system ELSE Coordinates(eeprom, "G54")
    OBVIOUS
  <2>2. /\ gc' = [gc EXCEPT !.motion = "G1", !.plane = "G17", !.distance = "G90", !.feedMode = "G94",
                      !.coord = "G54", !.spindle = "M5", !.coolant = "M9", !.system = y]
        /\ Next1("end") /\ Done /\ UNCHANGED <<eeprom, sys, exec>>
    BY <1>7, <2>1 DEF End, stored
  <2>3. DOMAIN gc' = DOMAIN gc /\ gc'.coord = "G54" /\ gc'.system = y
    BY <1>1, <2>2 DEF Parser
  <2>4. \A o \in Items(todo') : o.op # "write"
    BY <1>1, <2>2, OrderedTail DEF Next1, Done, Lists
  <2>5. sys.state # "CHECK" => Consistent(gc', eeprom', todo')
    BY <2>1, <2>2, <2>3, <2>4 DEF Consistent, Stores, Coordinates
  <2>6. Parser(gc')
    BY <1>1, <2>3 DEF Parser, Systems
  <2>7. QED
    BY <1>1, <2>2, <2>5, <2>6 DEF InForce
<1>8. CASE Startup
  <2>1. /\ Parser(gc') /\ UNCHANGED <<eeprom, sys, exec>> /\ Next1("startup")
        /\ gc.system = eeprom.coords[gc.coord] => Consistent(gc', eeprom, todo')
        /\ \A o \in Items(Tail(todo)) : o.op = "startup"
    BY <1>8, StartupFacts DEF stored
  <2>2. \A o \in Items(todo) : o.op # "write"
    BY <1>3, <2>1 DEF Next1
  <2>3. Consistent(gc, eeprom, todo) => gc.system = eeprom.coords[gc.coord]
    BY <2>2 DEF Consistent
  <2>4. QED
    BY <1>1, <2>1, <2>3 DEF InForce
<1>9. CASE \E l \in Lines : ReadLine(l)
  <2>1. PICK l \in Lines : ReadLine(l)
    BY <1>9
  <2>2. todo = <<>> /\ exec = {} /\ ~sys.abort /\ eeprom' = eeprom
    BY <2>1, ReadLineCases DEF Clear
  <2>3. sys.state # "CHECK" => gc.system = eeprom.coords[gc.coord]
    BY <1>1, <2>2, EmptyList DEF InForce, Consistent
  <2>4. CASE gc' = gc /\ (\A o \in Items(todo') : o.op # "write") /\ (InForce' => sys.state # "CHECK")
    BY <1>1, <2>2, <2>3, <2>4 DEF Consistent, Stores
  <2>5. CASE Nothing \/ LeavesCheck \/ EntersCheck \/ Unlocks
    <3>1. gc' = gc /\ todo' = <<>>
      BY <2>2, <2>5 DEF Nothing, LeavesCheck, EntersCheck, Unlocks
    <3>2. CASE Nothing
      BY <2>4, <3>1, <3>2, EmptyList DEF Nothing, InForce
    <3>3. CASE LeavesCheck
      <4>1. ~InForce'
        BY <3>3, ResetFacts DEF LeavesCheck, InForce
      <4>2. QED
        BY <2>4, <3>1, <4>1, EmptyList
    <3>4. CASE EntersCheck
      BY <2>4, <3>1, <3>4, EmptyList DEF EntersCheck
    <3>5. CASE Unlocks
      <4>1. InForce' => sys.state # "CHECK"
        BY <3>5 DEF Unlocks, InForce, StateInv
      <4>2. QED
        BY <2>4, <3>1, <4>1, EmptyList
    <3>6. QED
      BY <2>5, <3>2, <3>3, <3>4, <3>5
  <2>6. CASE TakesGcode \/ TakesStartup
    <3>1. /\ UNCHANGED <<sys, exec>> /\ Parser(gc')
          /\ gc.system = eeprom.coords[gc.coord] => Consistent(gc', eeprom, todo')
      BY <2>2, <2>6, GcodeFacts
    <3>2. QED
      BY <1>1, <2>2, <2>3, <3>1 DEF InForce
  <2>7. CASE TakesJog
    <3>1. PICK o : todo' = <<o>> /\ o.op = "move"
      BY <2>7 DEF TakesJog
    <3>2. QED
      BY <2>4, <2>7, <3>1, OneItem DEF TakesJog
  <2>8. CASE TakesSetting
    BY <2>4, <2>8 DEF TakesSetting, Storing
  <2>9. CASE Homes
    BY <2>2, <2>4, <2>9, RunStartupFacts, EmptyList DEF Homes
  <2>10. QED
    BY <2>1, <2>5, <2>6, <2>7, <2>8, <2>9, ReadLineCases
<1>10. CASE Reinitialize
  <2>1. PICK z : z = GcZero(eeprom)
    OBVIOUS
  <2>2. gc' = [z EXCEPT !.pos = mpos] /\ eeprom' = eeprom /\ (todo' = RunStartup \/ todo' = <<>>)
    BY <1>10, <2>1 DEF Reinitialize, GcInit, stored
  <2>3. {"motion", "coord", "system", "pos"} \subseteq DOMAIN z /\ z.coord = "G54" /\ z.system = eeprom.coords["G54"]
    BY <2>1 DEF GcZero, Coordinates
  <2>4. Parser(gc') /\ gc'.coord = "G54" /\ gc'.system = eeprom.coords["G54"]
    BY <2>2, <2>3 DEF Parser, Systems
  <2>5. \A o \in Items(todo') : o.op # "write"
    BY <2>2, RunStartupFacts, EmptyList
  <2>6. QED
    BY <1>1, <2>2, <2>4, <2>5 DEF Consistent, Stores
<1>11. QED
  BY <1>4, <1>5, <1>6, <1>7, <1>8, <1>9, <1>10 DEF Tells

-----------------------------------------------------------------------------
(* The theorems. *)

IInv == Lists /\ ListInv /\ StateInv /\ RunInv /\ LockInv /\ TravelInv /\ StoredInv

LEMMA InitHolds == ASSUME Init PROVE IInv
<1>1. PICK z : z = GcZero(eeprom)
  OBVIOUS
<1>2. /\ gc = [z EXCEPT !.pos = Zero] /\ eeprom = Wiped(settings) /\ todo = <<>> /\ queue = <<>>
      /\ sys = [state |-> "IDLE", suspend |-> "none", soft |-> FALSE, abort |-> FALSE]
      /\ exec = {} /\ running = FALSE
  BY <1>1 DEF Init, GcInit
<1>3. Lists /\ Items(todo) = {} /\ ~Next1("plan") /\ ~Next1("softWait")
  BY <1>2, EmptyList DEF Lists, Next1
<1>4. ListInv
  BY <1>2, <1>3 DEF ListInv
<1>5. sys.state = "IDLE" /\ sys.suspend = "none" /\ sys.abort = FALSE /\ sys \in SysRecords
  BY <1>2 DEF SysRecords, States
<1>6. StateInv /\ RunInv /\ LockInv
  BY <1>2, <1>3, <1>5 DEF StateInv, RunInv, LockInv, SysRecords
<1>7. TravelInv
  BY <1>3 DEF TravelInv
<1>8. {"motion", "coord", "system", "pos"} \subseteq DOMAIN z /\ z.coord = "G54" /\ z.system = eeprom.coords["G54"]
  BY <1>1 DEF GcZero, Coordinates
<1>9. Parser(gc) /\ gc.coord = "G54" /\ gc.system = eeprom.coords["G54"]
  BY <1>2, <1>8 DEF Parser, Systems
<1>10. "coords" \in DOMAIN eeprom /\ Records \subseteq DOMAIN eeprom.coords
  BY <1>2 DEF Wiped
<1>11. Ordered(todo) /\ Consistent(gc, eeprom, todo)
  BY <1>3, <1>9, NoEndOrdered DEF Consistent, Stores
<1>12. QED
  BY <1>3, <1>4, <1>6, <1>7, <1>9, <1>10, <1>11 DEF IInv, StoredInv

LEMMA NextHolds == ASSUME IInv, [Next]_vars PROVE IInv'
BY NextLists, NextStateInv, NextRunInv, NextLockInv, NextTravelInv, NextStoredInv DEF IInv

LEMMA Inductive == Spec => []IInv
BY InitHolds, NextHolds, PTL DEF Spec

\* After every answer the offset that the parser adds for the active system is
\* the one stored for it (settings_write_coord_data, gc_execute_line, M2, $RST=).
THEOREM StoredOffsets == Spec => []StoredSystem
<1>1. IInv => StoredSystem
  <2>1. SUFFICES ASSUME Lists, StoredInv, Answered PROVE gc.system = eeprom.coords[gc.coord]
    BY DEF IInv, StoredSystem
  <2>2. todo = <<>> /\ Consistent(gc, eeprom, todo)
    BY <2>1 DEF StoredInv, Answered
  <2>3. QED
    BY <2>2, EmptyList DEF Consistent
<1>2. QED
  BY <1>1, Inductive, PTL

\* Only a motion that is planned makes the queue longer.
LEMMA OnlyPlanGrows ==
  ASSUME Lists, [Next]_vars, ~Plan
  PROVE  Len(queue') <= Len(queue)
<1>1. PICK S : queue \in Seq(S)
  BY DEF Lists, IsList
<1>2. Len(queue) \in Nat
  BY <1>1
<1>3. CASE queue' = queue
  BY <1>2, <1>3
<1>4. CASE queue' = <<>>
  BY <1>2, <1>4
<1>5. CASE queue # <<>> /\ queue' = Tail(queue)
  BY <1>1, <1>5
<1>6. QED
  BY <1>3, <1>4, <1>5, QueueCases

LEMMA QueueShrinks ==
  ASSUME Lists, [Next]_vars, ~Next1("plan")
  PROVE  Len(queue') <= Len(queue)
BY OnlyPlanGrows DEF Plan

\* Where the machine is: only the interrupt moves it.
LEMMA OnlySteppedMoves ==
  ASSUME [Next]_vars
  PROVE  \/ mpos' = mpos
         \/ /\ running
            /\ \/ ComeToRest
               \/ Finish
<1>1. CASE Pass \/ AutoStart \/ Wait \/ WriteRecord \/ SoftLimit \/ SoftWait \/ NoMove \/ Room
  BY <1>1 DEF Pass, AutoStart, Wait, WriteRecord, SoftLimit, SoftWait, NoMove, Room
<1>2. CASE Plan \/ Place \/ Pause \/ Resumed \/ End \/ Startup \/ StoreStartup \/ WriteGlobal
  BY <1>2 DEF Plan, Place, Pause, Resumed, End, Startup, StoreStartup, WriteGlobal
<1>3. CASE Restore \/ Reinitialize \/ Request \/ UNCHANGED vars
  BY <1>3 DEF Restore, Reinitialize, Request, vars
<1>4. CASE Finish \/ ComeToRest
  BY <1>4 DEF Finish, ComeToRest
<1>5. CASE \E l \in Lines : ReadLine(l)
  BY <1>5 DEF ReadLine
<1>6. QED
  BY <1>1, <1>2, <1>3, <1>4, <1>5 DEF Next

\* In an alarm nothing moves and nothing is queued: not by a line, a startup
\* line or what was left of the line that raised it (system_execute_line,
\* protocol_main_loop, mc_line).
THEOREM LockedInAlarm == Spec => AlarmLocks
<1>1. ASSUME IInv, [Next]_vars
      PROVE  sys.state = "ALARM" /\ sys'.state = "ALARM" => mpos' = mpos /\ Len(queue') <= Len(queue)
  BY <1>1, OnlySteppedMoves, QueueShrinks DEF IInv, LockInv
<1>2. QED
  BY <1>1, Inductive, PTL DEF Spec, AlarmLocks

\* A dry run moves nothing, not even what was queued before $C (mc_line,
\* system_execute_line).
THEOREM DryRun == Spec => CheckNeverMoves
<1>1. ASSUME IInv, [Next]_vars
      PROVE  sys.state = "CHECK" => mpos' = mpos /\ Len(queue') <= Len(queue)
  BY <1>1, OnlySteppedMoves, QueueShrinks DEF IInv, LockInv
<1>2. QED
  BY <1>1, Inductive, PTL DEF Spec, CheckNeverMoves

LEMMA StaysInside ==
  ASSUME IInv, [Next]_vars, settings[20] = 1, settings' = settings, Inside
  PROVE  Inside'
<1> DEFINE In(p) == ~BeyondTravel(settings, p)
<1>1. PICK S : queue \in Seq(S)
  BY DEF IInv, Lists, IsList
<1>2. In(mpos) /\ In(plan) /\ \A i \in 1 .. Len(queue) : In(queue[i].target)
  BY <1>1 DEF Inside
<1>3. Next1("plan") => In(Head(todo).target)
  BY DEF IInv, TravelInv
<1>4. queue # <<>> => In(Head(queue).target)
  BY <1>1, <1>2
<1>5. In(mpos')
  BY <1>2, <1>4, OnlySteppedMoves DEF Finish, ComeToRest
<1>6. In(plan')
  <2>1. plan' \in {plan, mpos} \/ (Next1("plan") /\ plan' = Head(todo).target)
    <3>1. CASE Pass
      BY <3>1 DEF Pass, RealtimePass
    <3>2. CASE AutoStart \/ Wait \/ WriteRecord \/ SoftLimit \/ SoftWait \/ NoMove \/ Room
      BY <3>2 DEF AutoStart, Wait, WriteRecord, SoftLimit, SoftWait, NoMove, Room
    <3>3. CASE Place \/ Pause \/ Resumed \/ End \/ Startup \/ StoreStartup \/ WriteGlobal
      BY <3>3 DEF Place, Pause, Resumed, End, Startup, StoreStartup, WriteGlobal
    <3>4. CASE Plan
      BY <3>4 DEF Plan
    <3>5. CASE Restore \/ Reinitialize \/ Finish \/ ComeToRest \/ Request \/ UNCHANGED vars
      BY <3>5 DEF Restore, Reinitialize, Finish, ComeToRest, Request, vars
    <3>6. CASE \E l \in Lines : ReadLine(l)
      BY <3>6 DEF ReadLine
    <3>7. QED
      BY <3>1, <3>2, <3>3, <3>4, <3>5, <3>6 DEF Next
  <2>2. QED
    BY <1>2, <1>3, <2>1
<1>7. DOMAIN queue' = 1 .. Len(queue') /\ \A i \in 1 .. Len(queue') : In(queue'[i].target)
  <2>1. CASE queue' = queue
    BY <1>1, <1>2, <2>1
  <2>2. CASE queue' = <<>>
    BY <2>2
  <2>3. CASE Plan /\ \E x : queue' = Append(queue, x) /\ x.target = Head(todo).target
    <3>1. PICK x : queue' = Append(queue, x) /\ x.target = Head(todo).target
      BY <2>3
    <3>2. In(x.target)
      BY <1>3, <2>3, <3>1 DEF Plan
    <3>3. queue \in Seq(S \cup {x}) /\ x \in S \cup {x}
      BY <1>1
    <3>4. /\ queue' \in Seq(S \cup {x}) /\ Len(queue') = Len(queue) + 1 /\ Len(queue) \in Nat
          /\ queue'[Len(queue) + 1] = x
          /\ \A i \in 1 .. Len(queue) : queue'[i] = queue[i]
      BY <3>1, <3>3
    <3>5. \A i \in 1 .. Len(queue') : i \in 1 .. Len(queue) \/ i = Len(queue) + 1
      BY <3>4
    <3>6. QED
      BY <1>2, <3>2, <3>4, <3>5
  <2>4. CASE queue # <<>> /\ queue' = Tail(queue)
    <3>1. /\ queue' \in Seq(S) /\ Len(queue') = Len(queue) - 1 /\ Len(queue) \in Nat
          /\ \A i \in 1 .. Len(queue') : queue'[i] = queue[i + 1]
      BY <1>1, <2>4
    <3>2. \A i \in 1 .. Len(queue') : i + 1 \in 1 .. Len(queue)
      BY <3>1
    <3>3. QED
      BY <1>2, <3>1, <3>2
  <2>5. QED
    BY <2>1, <2>2, <2>3, <2>4, QueueCases
<1>8. QED
  BY <1>5, <1>6, <1>7 DEF Inside

\* With soft limits a machine inside its travel stays inside: programmed
\* motions, predefined positions, probes and jogs (limits_soft_check in mc_line,
\* system_check_travel_limits in jog_execute).
THEOREM InsideTravel == Spec => TravelKept
<1>1. ASSUME IInv, [Next]_vars
      PROVE  settings[20] = 1 /\ settings' = settings /\ Inside => Inside'
  BY <1>1, StaysInside
<1>2. QED
  BY <1>1, Inductive, PTL DEF Spec, TravelKept


-----------------------------------------------------------------------------
(* Where the motions end. *)

\* A motion that leaves the parser at its end.
Lasts(o) == o.op \in Steppers /\ o.last = TRUE
Pending(s) == \E o \in Items(s) : Lasts(o)

\* A motion that does not leave the parser there has one right behind it that
\* does (G28 and G30 by way of a point).
Led(s) == \A i \in 1 .. Len(s) :
            s[i].op \in Steppers /\ ~Lasts(s[i]) => i + 1 \in 1 .. Len(s) /\ Lasts(s[i + 1])

\* A motion without length waits at the head, behind a synchronize.
NoPlace(s) == \A o \in Items(s) : o.op # "place"
PlaceFirst(s) == /\ s # <<>> /\ Head(s).op = "place" /\ NoPlace(Tail(s))
                 /\ ~IsJogOp(Head(s)) /\ Head(s).target = plan
PlaceSecond(s) == s # <<>> /\ Head(s).op = "wait" /\ PlaceFirst(Tail(s))
PlaceThird(s) == s # <<>> /\ Head(s).op = "start" /\ PlaceSecond(Tail(s))
PlaceInv == NoPlace(todo) \/ PlaceFirst(todo) \/ PlaceSecond(todo) \/ PlaceThird(todo)

\* Where the machine is or will be when the planner is empty.
QueueEnd == IF queue = <<>> THEN mpos = plan ELSE queue[Len(queue)].target = plan

\* Only a jog is cancelled, and a jog is left only of a line that is one.
CancelInv == sys.suspend = "cancel" => sys.state = "JOG" \/ sys.abort
JogLine == (\E o \in Items(todo) : IsJogOp(o)) => line.kind = "jog"

\* The parser is where the plan ends, or is about to be.
Near(g, p, s) == g.pos = p \/ Pending(s)

\* Not of a dry run or after an abort, in which the parser alone moves.
PosInv == /\ Led(todo)
          /\ PlaceInv
          /\ InForce => Near(gc, plan, todo)

-----------------------------------------------------------------------------
(* Lists of motions. *)

\* Without motions there is nothing to lead.
LEMMA LedNone ==
  ASSUME NEW s, IsList(s), \A o \in Items(s) : o.op \notin Steppers
  PROVE  Led(s)
BY DEF Led, Items

\* The first of a list, against the rest.
LedHead(x, s) == x.op \in Steppers /\ ~Lasts(x) => s # <<>> /\ Lasts(Head(s))

\* The places of a list that begins with x.
LEMMA ConsPlaces ==
  ASSUME NEW c, NEW x, NEW s, IsCons(c, x, s), IsList(s)
  PROVE  /\ Len(c) \in Nat \ {0} /\ Len(s) = Len(c) - 1 /\ c[1] = x
         /\ \A k \in 1 .. Len(c) - 1 : s[k] = c[k + 1]
         /\ s # <<>> <=> Len(c) > 1
         /\ s # <<>> => Head(s) = c[2]
<1>1. IsList(c) /\ c # <<>> /\ Head(c) = x /\ Tail(c) = s
  BY DEF IsCons
<1>2. PICK S : c \in Seq(S)
  BY <1>1 DEF IsList
<1>3. /\ Len(c) \in Nat \ {0} /\ Len(s) = Len(c) - 1 /\ c[1] = x
      /\ \A k \in 1 .. Len(c) - 1 : s[k] = c[k + 1]
      /\ s \in Seq(S)
  BY <1>1, <1>2
<1>4. s # <<>> <=> Len(s) > 0
  BY <1>3
<1>5. s # <<>> => Head(s) = s[1] /\ s[1] = c[2]
  BY <1>3, <1>4
<1>6. QED
  BY <1>3, <1>4, <1>5

\* A list leads on if its head and its rest do.
LEMMA LedCons ==
  ASSUME NEW c, NEW x, NEW s, IsCons(c, x, s), IsList(s)
  PROVE  Led(c) <=> LedHead(x, s) /\ Led(s)
<1>1. /\ Len(c) \in Nat \ {0} /\ Len(s) = Len(c) - 1 /\ c[1] = x
      /\ \A k \in 1 .. Len(c) - 1 : s[k] = c[k + 1]
      /\ s # <<>> <=> Len(c) > 1
      /\ s # <<>> => Head(s) = c[2]
  BY ConsPlaces
<1>2. ASSUME Led(c) PROVE LedHead(x, s)
  <2>1. 1 \in 1 .. Len(c)
    BY <1>1
  <2>2. c[1].op \in Steppers /\ ~Lasts(c[1]) => 1 + 1 \in 1 .. Len(c) /\ Lasts(c[1 + 1])
    BY <1>2, <2>1 DEF Led
  <2>3. QED
    BY <1>1, <2>2 DEF LedHead
<1>3. ASSUME Led(c) PROVE Led(s)
  <2>1. SUFFICES ASSUME NEW i \in 1 .. Len(s), s[i].op \in Steppers, ~Lasts(s[i])
                 PROVE  i + 1 \in 1 .. Len(s) /\ Lasts(s[i + 1])
    BY DEF Led
  <2>2. i + 1 \in 1 .. Len(c) /\ s[i] = c[i + 1]
    BY <1>1
  <2>3. (i + 1) + 1 \in 1 .. Len(c) /\ Lasts(c[(i + 1) + 1])
    BY <1>3, <2>1, <2>2 DEF Led
  <2>4. i + 1 \in 1 .. Len(c) - 1
    BY <1>1, <2>3
  <2>5. QED
    BY <1>1, <2>3, <2>4
<1>4. ASSUME LedHead(x, s), Led(s) PROVE Led(c)
  <2>1. SUFFICES ASSUME NEW i \in 1 .. Len(c), c[i].op \in Steppers, ~Lasts(c[i])
                 PROVE  i + 1 \in 1 .. Len(c) /\ Lasts(c[i + 1])
    BY DEF Led
  <2>2. CASE i = 1
    BY <1>1, <1>4, <2>1, <2>2 DEF LedHead
  <2>3. CASE i # 1
    <3>1. i - 1 \in 1 .. Len(s) /\ s[i - 1] = c[i]
      <4>1. i - 1 \in 1 .. Len(c) - 1 /\ (i - 1) + 1 = i
        BY <1>1, <2>3
      <4>2. QED
        BY <1>1, <4>1
    <3>2. (i - 1) + 1 \in 1 .. Len(s) /\ Lasts(s[(i - 1) + 1])
      BY <1>4, <2>1, <3>1 DEF Led
    <3>3. i \in 1 .. Len(c) - 1 /\ Lasts(s[i])
      BY <1>1, <3>2
    <3>4. QED
      BY <1>1, <3>3
  <2>4. QED
    BY <2>2, <2>3
<1>5. QED
  BY <1>2, <1>3, <1>4

\* Two lists that lead on, one behind the other.
LEMMA LedConcat ==
  ASSUME NEW s, NEW t, IsList(s), IsList(t), Led(s), Led(t)
  PROVE  Led(s \o t)
<1>1. PICK S : s \in Seq(S)
  BY DEF IsList
<1>2. PICK T : t \in Seq(T)
  BY DEF IsList
<1>3. /\ Len(s) \in Nat /\ Len(t) \in Nat /\ Len(s \o t) = Len(s) + Len(t)
      /\ \A k \in 1 .. Len(s) : (s \o t)[k] = s[k]
      /\ \A k \in 1 .. Len(t) : (s \o t)[Len(s) + k] = t[k]
  <2>1. PICK U : s \in Seq(U) /\ t \in Seq(U)
    <3>1. s \in Seq(S \cup T) /\ t \in Seq(S \cup T)
      BY <1>1, <1>2
    <3>2. QED
      BY <3>1
  <2>2. QED
    BY <2>1
<1>4. PICK c : c = s \o t
  OBVIOUS
<1>5. SUFFICES ASSUME NEW i \in 1 .. Len(s) + Len(t), c[i].op \in Steppers, ~Lasts(c[i])
               PROVE  i + 1 \in 1 .. Len(s) + Len(t) /\ Lasts(c[i + 1])
  BY <1>3, <1>4 DEF Led
<1>6. CASE i \in 1 .. Len(s)
  <2>1. s[i] = c[i]
    BY <1>3, <1>4, <1>6
  <2>2. i + 1 \in 1 .. Len(s) /\ Lasts(s[i + 1])
    BY <1>5, <1>6, <2>1 DEF Led
  <2>3. QED
    BY <1>3, <1>4, <2>2
<1>7. CASE i \notin 1 .. Len(s)
  <2>1. PICK k \in 1 .. Len(t) : i = Len(s) + k
    <3>1. i - Len(s) \in 1 .. Len(t) /\ i = Len(s) + (i - Len(s))
      BY <1>3, <1>7
    <3>2. QED
      BY <3>1
  <2>2. t[k] = c[i]
    BY <1>3, <1>4, <2>1
  <2>3. k + 1 \in 1 .. Len(t) /\ Lasts(t[k + 1])
    BY <1>5, <2>2 DEF Led
  <2>4. i + 1 = Len(s) + (k + 1) /\ i + 1 \in 1 .. Len(s) + Len(t)
    BY <1>3, <2>1, <2>3
  <2>5. QED
    BY <1>3, <1>4, <2>3, <2>4
<1>8. QED
  BY <1>6, <1>7

\* A list begins with its head.
LEMMA HeadCons == ASSUME NEW s, IsList(s), s # <<>> PROVE IsCons(s, Head(s), Tail(s)) /\ IsList(Tail(s))
BY HeadAndTail DEF IsCons

-----------------------------------------------------------------------------
(* The motions of a line. *)

\* A line's last motion leaves the parser at its end, and only a probe is placed
\* at once.
LEMMA MotionOpsEnd ==
  ASSUME NEW l, NEW m
  PROVE  Led(MotionOps(l, m)) /\ (m.motion \notin Probes => NoPlace(MotionOps(l, m)))
<1>1. PICK x : x = Move(TargetOf(l, m, gc, eeprom), FALSE)
  OBVIOUS
<1>2. PICK y : y = Move(HomeOf(l, m, gc, eeprom), TRUE)
  OBVIOUS
<1>3. PICK z : z = Move(TargetOf(l, m, gc, eeprom), TRUE)
  OBVIOUS
<1>4. PICK p : p = [Move(TargetOf(l, m, gc, eeprom), TRUE) EXCEPT !.op = "place"]
  OBVIOUS
<1>5. /\ x.op = "move" /\ y.op = "move" /\ z.op = "move"
      /\ Lasts(y) /\ Lasts(z) /\ Lasts(p)
  BY <1>1, <1>2, <1>3, <1>4 DEF Move, Lasts, Steppers
<1>6. \A o : Lasts(o) => IsList(<<o>>) /\ Items(<<o>>) = {o} /\ Led(<<o>>)
  <2>1. SUFFICES ASSUME NEW o, Lasts(o) PROVE IsList(<<o>>) /\ Items(<<o>>) = {o} /\ Led(<<o>>)
    OBVIOUS
  <2>2. Len(<<o>>) = 1 /\ <<o>>[1] = o
    OBVIOUS
  <2>3. Led(<<o>>)
    BY <2>1, <2>2 DEF Led
  <2>4. QED
    BY <2>3, OneItem
<1>7. Led(<<>>) /\ NoPlace(<<>>)
  BY EmptyList, LedNone DEF NoPlace
<1>8. PICK c : c = <<x>> \o <<y>>
  OBVIOUS
<1>9. Led(c) /\ NoPlace(c)
  <2>1. IsList(<<y>>) /\ Items(<<y>>) = {y} /\ Led(<<y>>) /\ <<y>> # <<>> /\ Head(<<y>>) = y
    BY <1>5, <1>6
  <2>2. IsCons(c, x, <<y>>)
    BY <1>8, <2>1, InFront
  <2>3. LedHead(x, <<y>>)
    BY <1>5, <2>1 DEF LedHead
  <2>4. Led(c)
    BY <2>1, <2>2, <2>3, LedCons
  <2>5. NoPlace(c)
    BY <1>5, <2>1, <2>2 DEF NoPlace, IsCons
  <2>6. QED
    BY <2>4, <2>5
<1>10. /\ Led(<<y>>) /\ NoPlace(<<y>>) /\ Led(<<z>>) /\ NoPlace(<<z>>) /\ Led(<<p>>)
  BY <1>5, <1>6 DEF NoPlace
<1>11. MotionOps(l, m) \in {c, <<y>>, <<>>, <<z>>} \/ (m.motion \in Probes /\ MotionOps(l, m) = <<p>>)
  <2>1. CASE m.nonModal \in {"G28", "G30"}
    <3>1. MotionOps(l, m) = (IF AxisWords(l) # {} THEN <<x>> ELSE <<>>) \o <<y>>
      BY <1>1, <1>2, <2>1, Zenon DEF MotionOps
    <3>2. <<>> \o <<y>> = <<y>>
      OBVIOUS
    <3>3. QED
      BY <1>8, <3>1, <3>2
  <2>2. CASE m.nonModal \notin {"G28", "G30"}
    <3>1. MotionOps(l, m) = IF AxisCommand(l) # "motion" \/ AxisWords(l) = {} \/ m.motion = "G80" THEN <<>>
                            ELSE IF m.motion \in Probes THEN <<p>> ELSE <<z>>
      BY <1>3, <1>4, <2>2, Zenon DEF MotionOps
    <3>2. QED
      BY <3>1
  <2>3. QED
    BY <2>1, <2>2
<1>12. QED
  BY <1>7, <1>9, <1>10, <1>11

\* What a line leaves to be done, in front of what was left.
LEMMA ExecuteEnds ==
  ASSUME NEW l, NEW rest, IsList(rest), Led(rest), NoPlace(rest), Parser(gc), Execute(l, rest),
         NoProbing'
  PROVE  /\ gc'.pos = gc.pos /\ Items(rest) \subseteq Items(todo')
         /\ Led(todo') /\ NoPlace(todo')
<1>1. CASE ~Accepted(l, gc, eeprom)
  BY <1>1 DEF Execute
<1>2. CASE Accepted(l, gc, eeprom)
  <2>1. PICK m : m = Modes(l, gc)
    OBVIOUS
  <2>2. PICK a1 : a1 = SpindleOps(l, m, sys.state = "CHECK")
    OBVIOUS
  <2>3. PICK a2 : a2 = OffsetOps(l, m)
    OBVIOUS
  <2>4. PICK a3 : a3 = MotionOps(l, m)
    OBVIOUS
  <2>5. PICK b : b = FlowOps(m)
    OBVIOUS
  <2>6. gc' = Taken(l, m) /\ todo' = (((a1 \o a2) \o a3) \o b) \o rest
    BY <1>2, <2>1, <2>2, <2>3, <2>4, <2>5 DEF Execute
  <2>7. Taken(l, m).pos = gc.pos /\ Taken(l, m).motion = m.motion
    <3>1. PICK f, s, t, y, o : Taken(l, m) =
            [gc EXCEPT !.motion = m.motion, !.feedMode = m.feedMode, !.plane = m.plane,
                       !.distance = m.distance, !.units = m.units, !.coord = m.coord,
                       !.spindle = m.spindle, !.coolant = m.coolant,
                       !.feed = f, !.speed = s, !.tlo = t, !.system = y, !.offset = o]
      BY ZenonT(60) DEF Taken
    <3>2. QED
      BY <3>1 DEF Parser
  <2>8. /\ IsList(a1) /\ \A o \in Items(a1) : IsSync(o)
        /\ IsList(a2) /\ \A o \in Items(a2) : IsOffsetOp(o, l, m)
        /\ IsList(a3) /\ Led(a3) /\ (m.motion \notin Probes => NoPlace(a3))
        /\ IsList(b) /\ \A o \in Items(b) : IsFlowOp(o)
    BY <2>2, <2>3, <2>4, <2>5, SpindleOpsFacts, OffsetOpsFacts, MotionOpsFacts, MotionOpsEnd, FlowOpsFacts
  <2>9. m.motion \notin Probes
    BY <2>6, <2>7 DEF NoProbing
  <2>10. /\ \A o \in Items(a1) : o.op \in {"start", "wait"}
         /\ \A o \in Items(a2) : o.op \in {"start", "wait", "write"}
         /\ \A o \in Items(b) : o.op \in {"start", "wait", "pause", "check", "end"}
    BY <2>8, SyncOps, OffsetOpFresh DEF IsFlowOp
  <2>11. Led(a1) /\ NoPlace(a1) /\ Led(a2) /\ NoPlace(a2) /\ Led(b) /\ NoPlace(b)
    BY <2>8, <2>10, LedNone DEF Steppers, NoPlace
  <2>12. IsList(a1 \o a2) /\ Led(a1 \o a2) /\ NoPlace(a1 \o a2)
    BY <2>8, <2>11, Concat, LedConcat DEF NoPlace
  <2>13. PICK c : c = (a1 \o a2) \o a3
    OBVIOUS
  <2>14. IsList(c) /\ Led(c) /\ NoPlace(c)
    BY <2>8, <2>9, <2>12, <2>13, Concat, LedConcat DEF NoPlace
  <2>15. IsList(c \o b) /\ Led(c \o b) /\ NoPlace(c \o b)
    BY <2>8, <2>11, <2>14, Concat, LedConcat DEF NoPlace
  <2>16. /\ IsList((c \o b) \o rest) /\ Led((c \o b) \o rest) /\ NoPlace((c \o b) \o rest)
         /\ Items(rest) \subseteq Items((c \o b) \o rest)
    BY <2>15, Concat, LedConcat DEF NoPlace
  <2>17. QED
    BY <2>6, <2>7, <2>13, <2>16
<1>3. QED
  BY <1>1, <1>2

-----------------------------------------------------------------------------
(* The end of the queue. *)

\* The last of a longer queue.
LEMMA Appended ==
  ASSUME NEW s, NEW x, IsList(s)
  PROVE  Append(s, x) # <<>> /\ Append(s, x)[Len(Append(s, x))] = x
<1>1. PICK S : s \in Seq(S)
  BY DEF IsList
<1>2. s \in Seq(S \cup {x}) /\ x \in S \cup {x}
  BY <1>1
<1>3. /\ Append(s, x) \in Seq(S \cup {x}) /\ Len(Append(s, x)) = Len(s) + 1
      /\ Append(s, x)[Len(s) + 1] = x
  BY <1>2
<1>4. Append(s, x) # <<>>
  BY Longer
<1>5. QED
  BY <1>3, <1>4

\* The last of a shorter queue.
LEMMA LastOfTail ==
  ASSUME NEW s, IsList(s), s # <<>>
  PROVE  /\ Tail(s) = <<>> => Head(s) = s[Len(s)]
         /\ Tail(s) # <<>> => Tail(s)[Len(Tail(s))] = s[Len(s)]
<1>1. PICK S : s \in Seq(S)
  BY DEF IsList
<1>2. /\ Len(s) \in Nat \ {0} /\ Tail(s) \in Seq(S) /\ Len(Tail(s)) = Len(s) - 1 /\ Head(s) = s[1]
      /\ \A k \in 1 .. Len(s) - 1 : Tail(s)[k] = s[k + 1]
  BY <1>1
<1>3. Tail(s) = <<>> <=> Len(s) - 1 = 0
  BY <1>2
<1>4. CASE Tail(s) = <<>>
  <2>1. Len(s) = 1
    BY <1>2, <1>3, <1>4
  <2>2. QED
    BY <1>2, <1>4, <2>1
<1>5. CASE Tail(s) # <<>>
  <2>1. Len(s) - 1 \in 1 .. Len(s) - 1 /\ (Len(s) - 1) + 1 = Len(s)
    BY <1>2, <1>3, <1>5
  <2>2. QED
    BY <1>2, <1>5, <2>1
<1>6. QED
  BY <1>4, <1>5

\* What a pass does to positions: only the end of a cancelled jog moves them.
PassPlaces == \/ UNCHANGED <<queue, plan, gc>>
              \/ /\ queue' = <<>> /\ plan' = mpos /\ gc' = [gc EXCEPT !.pos = mpos]
                 /\ sys.state = "JOG"

LEMMA PassPositions ==
  ASSUME StateInv, RunInv, CancelInv, Pass
  PROVE  PassPlaces /\ CancelInv'
<1>1. CASE "Reset" \in exec
  BY <1>1, AbortFacts DEF PassPlaces, CancelInv
<1>2. CASE "Reset" \notin exec
  <2>1. /\ sys \in SysRecords /\ "Alarm" \notin exec /\ sys.abort = FALSE
        /\ sys.suspend = "cancel" => sys.state = "JOG"
    BY <1>2 DEF StateInv, RunInv, SysRecords, Pass, CancelInv
  <2>2. PICK a : a = [sys EXCEPT !.state = IF "Alarm" \in exec THEN "ALARM" ELSE @]
    OBVIOUS
  <2>3. a \in SysRecords /\ a.state = sys.state /\ a.suspend = sys.suspend
    BY <2>1, <2>2 DEF SysRecords
  <2>4. PICK h : h = Held(a)
    OBVIOUS
  <2>5. PICK t : t = Started(h)
    OBVIOUS
  <2>6. PICK u : u = Stopped(t)
    OBVIOUS
  <2>7. /\ sys' = u
        /\ IF Flushes(h) THEN queue' = <<>> /\ plan' = mpos /\ gc' = [gc EXCEPT !.pos = mpos]
           ELSE UNCHANGED <<queue, plan, gc>>
    BY <1>2, <2>2, <2>4, <2>5, <2>6 DEF Pass, RealtimePass
  <2>8. h \in SysRecords /\ (h.suspend = "cancel" => h.state = "JOG" /\ sys.state = "JOG")
    BY <2>1, <2>3, <2>4 DEF Held, SysRecords, States
  <2>9. t \in SysRecords /\ (t.suspend = "cancel" => t.state = "JOG")
    BY <2>5, <2>8 DEF Started, SysRecords, States
  <2>10. u.suspend = "cancel" => u.state = "JOG"
    BY <2>6, <2>9 DEF Stopped, SysRecords, States
  <2>11. Flushes(h) => sys.state = "JOG"
    BY <2>8 DEF Flushes
  <2>12. QED
    BY <2>7, <2>10, <2>11 DEF PassPlaces, CancelInv
<1>3. QED
  BY <1>1, <1>2

\* A suspend that ends a jog begins in one (protocol_execute_realtime).
LEMMA NextCancelInv ==
  ASSUME Lists, ListInv, StateInv, RunInv, CancelInv, [Next]_vars
  PROVE  CancelInv'
<1>1. CASE sys' = sys
  BY <1>1 DEF CancelInv
<1>2. CASE Quiet \/ SoftWait \/ Resets \/ ComeToRest
  BY <1>1, <1>2 DEF Quiet, SoftWait, Resets, ComeToRest
<1>3. CASE Pass
  BY <1>3, PassPositions
<1>4. CASE SoftLimit
  BY <1>4 DEF SoftLimit, StateInv, CancelInv
<1>5. CASE Places
  BY <1>5 DEF Places, JogStarts, StateInv, CancelInv
<1>6. CASE Reinitialize
  BY <1>6 DEF Reinitialize, StateInv, CancelInv
<1>7. CASE \E l \in Lines : ReadLine(l)
  <2>1. PICK l \in Lines : ReadLine(l)
    BY <1>7
  <2>2. ~sys.abort
    BY <2>1, ReadLineCases
  <2>3. CASE Nothing \/ TakesGcode \/ TakesJog \/ TakesSetting \/ TakesStartup \/ LeavesCheck
    BY <1>1, <2>3 DEF Nothing, TakesGcode, TakesJog, TakesSetting, TakesStartup, LeavesCheck
  <2>4. CASE EntersCheck \/ Unlocks \/ Homes
    <3>1. sys' = sys \/ (sys.state \in {"IDLE", "ALARM"} /\ sys'.suspend = sys.suspend)
      BY <2>4 DEF EntersCheck, Unlocks, Homes, StateInv
    <3>2. QED
      BY <1>1, <2>2, <3>1 DEF StateInv, CancelInv
  <2>5. QED
    BY <2>1, <2>3, <2>4, ReadLineCases
<1>8. QED
  BY <1>2, <1>3, <1>4, <1>5, <1>6, <1>7, SysCases

\* Planning, finishing, stopping and flushing keep the plan's end.
LEMMA NextQueueEnd ==
  ASSUME Lists, StateInv, RunInv, CancelInv, QueueEnd, [Next]_vars
  PROVE  QueueEnd'
<1>1. CASE UNCHANGED <<queue, plan, mpos>>
  BY <1>1 DEF QueueEnd
<1>2. CASE queue' = <<>> /\ plan' = mpos /\ mpos' = mpos
  BY <1>2 DEF QueueEnd
<1>3. CASE Pass
  <2>1. PassPlaces /\ mpos' = mpos
    BY <1>3, PassPositions DEF Pass
  <2>2. QED
    BY <1>1, <1>2, <2>1 DEF PassPlaces
<1>4. CASE AutoStart \/ Wait \/ WriteRecord \/ SoftLimit \/ SoftWait \/ NoMove \/ Room \/ Place
  BY <1>1, <1>4 DEF AutoStart, Wait, WriteRecord, SoftLimit, SoftWait, NoMove, Room, Place
<1>5. CASE Pause \/ Resumed \/ End \/ Startup \/ StoreStartup \/ WriteGlobal \/ Restore
  BY <1>1, <1>5 DEF Pause, Resumed, End, Startup, StoreStartup, WriteGlobal, Restore
<1>6. CASE Request \/ UNCHANGED vars
  BY <1>1, <1>6 DEF Request, vars
<1>7. CASE \E l \in Lines : ReadLine(l)
  BY <1>1, <1>7, ReadLineCases
<1>8. CASE Reinitialize
  BY <1>2, <1>8 DEF Reinitialize
<1>9. CASE Plan
  <2>1. PICK x : x = [target |-> Head(todo).target, jog |-> Head(todo).jog]
    OBVIOUS
  <2>2. /\ plan' = Head(todo).target /\ mpos' = mpos
        /\ queue' = IF Head(todo).target = plan THEN queue ELSE Append(queue, x)
    BY <1>9, <2>1 DEF Plan
  <2>3. CASE Head(todo).target = plan
    BY <1>1, <2>2, <2>3
  <2>4. CASE Head(todo).target # plan
    <3>1. queue' = Append(queue, x) /\ x.target = plan'
      BY <2>1, <2>2, <2>4
    <3>2. queue' # <<>> /\ queue'[Len(queue')] = x
      BY <3>1, Appended DEF Lists
    <3>3. QED
      BY <3>1, <3>2 DEF QueueEnd
  <2>5. QED
    BY <2>3, <2>4
<1>10. CASE Finish
  <2>1. queue # <<>> /\ mpos' = Head(queue).target /\ queue' = Tail(queue) /\ plan' = plan
    BY <1>10 DEF Finish
  <2>2. queue[Len(queue)].target = plan
    BY <2>1 DEF QueueEnd
  <2>3. /\ queue' = <<>> => Head(queue) = queue[Len(queue)]
        /\ queue' # <<>> => queue'[Len(queue')] = queue[Len(queue)]
    BY <2>1, LastOfTail DEF Lists
  <2>4. QED
    BY <2>1, <2>2, <2>3 DEF QueueEnd
<1>11. CASE ComeToRest
  <2>1. queue' = queue /\ plan' = plan /\ (queue = <<>> => mpos' = mpos)
    BY <1>11 DEF ComeToRest
  <2>2. QED
    BY <2>1 DEF QueueEnd
<1>12. QED
  BY <1>3, <1>4, <1>5, <1>6, <1>7, <1>8, <1>9, <1>10, <1>11 DEF Next

\* The line executed last is the jog as long as its motion is left.
LEMMA NextJogLine ==
  ASSUME Lists, ListInv, StoredInv, TravelInv, JogLine, [Next]_vars
  PROVE  JogLine'
<1>1. CASE \E l \in Lines : ReadLine(l)
  <2>1. PICK l \in Lines : ReadLine(l)
    BY <1>1
  <2>2. todo = <<>>
    BY <2>1, ReadLineCases
  <2>3. SUFFICES ASSUME NEW o \in Items(todo'), IsJogOp(o) PROVE line'.kind = "jog"
    BY DEF JogLine
  <2>4. CASE TakesJog
    BY <2>4 DEF TakesJog
  <2>5. CASE Nothing \/ LeavesCheck \/ EntersCheck \/ Unlocks
    <3>1. todo' = <<>>
      BY <2>2, <2>5 DEF Nothing, LeavesCheck, EntersCheck, Unlocks
    <3>2. QED
      BY <2>3, <3>1, EmptyList
  <2>6. CASE TakesGcode \/ TakesStartup
    BY <2>2, <2>3, <2>6, GcodeFacts DEF IsJogOp
  <2>7. CASE TakesSetting
    BY <2>3, <2>7 DEF TakesSetting, Storing, IsJogOp, Steppers
  <2>8. CASE Homes
    <3>1. todo' = <<>> \/ todo' = RunStartup
      BY <2>2, <2>8 DEF Homes
    <3>2. QED
      BY <2>3, <3>1, EmptyList, RunStartupFacts DEF IsJogOp, Steppers
  <2>9. QED
    BY <2>1, <2>4, <2>5, <2>6, <2>7, <2>8, ReadLineCases
<1>2. CASE ~(\E l \in Lines : ReadLine(l))
  <2>1. (\E o \in Items(todo') : IsJogOp(o)) => \E o \in Items(todo) : IsJogOp(o)
    BY <1>2, JogItems
  <2>2. CASE line' = line
    BY <2>1, <2>2 DEF JogLine
  <2>3. CASE Startup
    <3>1. todo # <<>> /\ Head(todo).op = "startup" /\ Head(todo) \in Items(todo)
      BY <2>3, TailTame DEF Startup, Next1
    <3>2. ~(\E o \in Items(todo) : IsJogOp(o))
      BY <3>1 DEF TravelInv, IsJogOp, Steppers
    <3>3. QED
      BY <2>1, <3>2 DEF JogLine
  <2>4. CASE Reinitialize
    <3>1. todo = <<>>
      BY <2>4 DEF Reinitialize
    <3>2. QED
      BY <2>1, <3>1, EmptyList DEF JogLine
  <2>5. CASE Pass \/ AutoStart \/ Wait \/ WriteRecord \/ SoftLimit \/ SoftWait \/ NoMove \/ Room
    BY <2>2, <2>5 DEF Pass, AutoStart, Wait, WriteRecord, SoftLimit, SoftWait, NoMove, Room
  <2>6. CASE Plan \/ Place \/ Pause \/ Resumed \/ End \/ StoreStartup \/ WriteGlobal \/ Restore
    BY <2>2, <2>6 DEF Plan, Place, Pause, Resumed, End, StoreStartup, WriteGlobal, Restore
  <2>7. CASE Finish \/ ComeToRest \/ Request \/ UNCHANGED vars
    BY <2>2, <2>7 DEF Finish, ComeToRest, Request, vars
  <2>8. QED
    BY <1>2, <2>3, <2>4, <2>5, <2>6, <2>7 DEF Next
<1>3. QED
  BY <1>1, <1>2

-----------------------------------------------------------------------------
(* The parser's position. *)

\* A motion without length goes behind a synchronize.
LEMMA LaserShape ==
  ASSUME Lists, ListInv, Plan, ~Done
  PROVE  /\ settings[32] = 1 /\ Head(todo).target = plan /\ UNCHANGED <<plan, gc>>
         /\ \E p, c1, c2, a, b : /\ IsRenamed(p, "place") /\ IsCons(c1, p, Tail(todo))
                                /\ IsCons(c2, b, c1) /\ IsCons(todo', a, c2)
                                /\ a.op = "start" /\ b.op = "wait"
<1>1. PICK p : p = [Head(todo) EXCEPT !.op = "place"]
  OBVIOUS
<1>2. PICK t : t = Tail(todo)
  OBVIOUS
<1>3. /\ Next1("plan") /\ todo # <<>> /\ Head(todo).op = "plan"
      /\ settings[32] = 1 /\ Head(todo).target = plan /\ plan' = Head(todo).target /\ gc' = gc
      /\ todo' = (Synchronize \o <<p>>) \o t
  BY <1>1, <1>2 DEF Plan, Next1
<1>4. Fields \subseteq DOMAIN Head(todo) /\ IsList(t)
  BY <1>2, <1>3, TailTame DEF ListInv, Steppers, Tame
<1>5. IsRenamed(p, "place")
  BY <1>1, <1>4, Renamed DEF IsRenamed
<1>6. PICK a, b : a = Op("start") /\ b = Op("wait")
  OBVIOUS
<1>7. PICK c1, c2, c3 : c1 = <<p>> \o t /\ c2 = <<b>> \o c1 /\ c3 = <<a>> \o c2
  OBVIOUS
<1>8. IsCons(c1, p, t)
  BY <1>4, <1>7, InFront
<1>9. IsCons(c2, b, c1)
  <2>1. IsList(c1)
    BY <1>8 DEF IsCons
  <2>2. QED
    BY <1>7, <2>1, InFront
<1>10. IsCons(c3, a, c2)
  <2>1. IsList(c2)
    BY <1>9 DEF IsCons
  <2>2. QED
    BY <1>7, <2>1, InFront
<1>11. c3 = todo'
  <2>1. PICK T : t \in Seq(T)
    BY <1>4 DEF IsList
  <2>2. PICK U : U = T \cup {p, a, b}
    OBVIOUS
  <2>3. t \in Seq(U) /\ <<p>> \in Seq(U) /\ <<a>> \in Seq(U) /\ <<b>> \in Seq(U) /\ <<a, b>> \in Seq(U)
    BY <2>1, <2>2
  <2>4. c1 \in Seq(U) /\ Len(c1) = Len(t) + 1 /\ c1[1] = p /\ \A k \in 1 .. Len(t) : c1[k + 1] = t[k]
    BY <1>7, <2>3
  <2>5. c2 \in Seq(U) /\ Len(c2) = Len(t) + 2 /\ c2[1] = b /\ \A k \in 1 .. Len(c1) : c2[k + 1] = c1[k]
    BY <1>7, <2>3, <2>4
  <2>6. c3 \in Seq(U) /\ Len(c3) = Len(t) + 3 /\ c3[1] = a /\ \A k \in 1 .. Len(c2) : c3[k + 1] = c2[k]
    BY <1>7, <2>3, <2>4, <2>5
  <2>7. PICK q : q = <<a, b>> \o <<p>>
    OBVIOUS
  <2>8. q \in Seq(U) /\ Len(q) = 3 /\ q[1] = a /\ q[2] = b /\ q[3] = p
    BY <2>3, <2>7
  <2>9. todo' = q \o t
    BY <1>3, <1>6, <2>7 DEF Synchronize
  <2>10. /\ todo' \in Seq(U) /\ Len(todo') = 3 + Len(t)
         /\ todo'[1] = a /\ todo'[2] = b /\ todo'[3] = p
         /\ \A k \in 1 .. Len(t) : todo'[3 + k] = t[k]
    <3>1. /\ q \o t \in Seq(U) /\ Len(q \o t) = Len(q) + Len(t) /\ Len(t) \in Nat
          /\ \A k \in 1 .. Len(q) : (q \o t)[k] = q[k]
          /\ \A k \in 1 .. Len(t) : (q \o t)[Len(q) + k] = t[k]
      <4>1. q \in Seq(U) /\ t \in Seq(U)
        BY <2>3, <2>8
      <4>2. QED
        BY <4>1
    <3>2. 1 \in 1 .. 3 /\ 2 \in 1 .. 3 /\ 3 \in 1 .. 3
      OBVIOUS
    <3>3. QED
      BY <2>8, <2>9, <3>1, <3>2
  <2>11. ASSUME NEW i \in 1 .. Len(t) + 3 PROVE c3[i] = todo'[i]
    <3>1. CASE i = 1
      BY <2>6, <2>10, <3>1
    <3>2. CASE i = 2
      BY <2>4, <2>5, <2>6, <2>10, <3>2, <2>3
    <3>3. CASE i = 3
      BY <2>4, <2>5, <2>6, <2>10, <3>3, <2>3
    <3>4. CASE i > 3
      <4>1. PICK k \in 1 .. Len(t) : i = 3 + k
        <5>1. i - 3 \in 1 .. Len(t) /\ i = 3 + (i - 3)
          BY <2>3, <2>11, <3>4
        <5>2. QED
          BY <5>1
      <4>2. c1[k + 1] = t[k] /\ k + 1 \in 1 .. Len(c1)
        BY <2>3, <2>4
      <4>3. c2[(k + 1) + 1] = t[k] /\ (k + 1) + 1 \in 1 .. Len(c2)
        BY <2>3, <2>4, <2>5, <4>2
      <4>4. c3[((k + 1) + 1) + 1] = t[k] /\ ((k + 1) + 1) + 1 = i
        BY <2>3, <2>6, <4>1, <4>3
      <4>5. QED
        BY <2>10, <4>1, <4>4
    <3>5. QED
      BY <2>3, <2>11, <3>1, <3>2, <3>3, <3>4
  <2>12. Len(c3) = Len(todo') /\ \A i \in 1 .. Len(c3) : c3[i] = todo'[i]
    <3>1. Len(t) \in Nat /\ 3 + Len(t) = Len(t) + 3
      BY <2>3
    <3>2. QED
      BY <2>6, <2>10, <2>11, <3>1
  <2>13. c3 \in Seq(U) /\ todo' \in Seq(U)
    BY <2>6, <2>10
  <2>14. QED
    BY <2>12, <2>13
<1>12. IsRenamed(p, "place") /\ IsCons(c1, p, Tail(todo)) /\ IsCons(c2, b, c1) /\ IsCons(todo', a, c2)
       /\ a.op = "start" /\ b.op = "wait"
  BY <1>2, <1>5, <1>6, <1>8, <1>9, <1>10, <1>11 DEF Op
<1>13. QED
  BY <1>3, <1>12

\* A motion that leaves the list when it is planned has placed the parser.
LEMMA PlanDone == ASSUME Lists, Plan, Done PROVE Placed(Head(todo))
<1>1. SUFFICES ASSUME ~Placed(Head(todo)) PROVE FALSE
  OBVIOUS
<1>2. todo # <<>> /\ todo' = Tail(todo)
  BY DEF Plan, Next1, Done
<1>3. PICK p : todo' = (Synchronize \o <<p>>) \o Tail(todo)
  BY <1>1 DEF Plan
<1>4. IsList(Tail(todo))
  BY <1>2, HeadAndTail DEF Lists
<1>5. PICK q : q = Synchronize \o <<p>>
  OBVIOUS
<1>6. IsList(q) /\ q # <<>>
  <2>1. IsList(<<p>>) /\ Items(<<p>>) = {p}
    BY OneItem
  <2>2. IsList(q) /\ p \in Items(q)
    BY <1>5, <2>1, SyncFacts, Concat
  <2>3. QED
    BY <2>2, EmptyList
<1>7. PICK S, T : q \in Seq(S) /\ Tail(todo) \in Seq(T)
  BY <1>4, <1>6 DEF IsList
<1>8. q \in Seq(S \cup T) /\ Tail(todo) \in Seq(S \cup T)
  BY <1>7
<1>9. /\ Len(q \o Tail(todo)) = Len(q) + Len(Tail(todo))
      /\ Len(q) \in Nat \ {0} /\ Len(Tail(todo)) \in Nat
  BY <1>6, <1>8
<1>10. Tail(todo) = q \o Tail(todo)
  BY <1>2, <1>3, <1>5
<1>11. QED
  BY <1>9, <1>10

\* What waits without length is no jog, and stands behind a synchronize.
LEMMA PlaceHead ==
  ASSUME Lists, PlaceInv, ~NoPlace(todo)
  PROVE  /\ todo # <<>> /\ Head(todo).op \in {"start", "wait", "place"}
         /\ \E o \in Items(todo) : o.op = "place" /\ ~IsJogOp(o)
<1>1. todo # <<>> /\ Head(todo).op \in {"start", "wait", "place"}
  BY DEF PlaceInv, PlaceFirst, PlaceSecond, PlaceThird
<1>2. IsList(Tail(todo)) /\ Items(todo) = {Head(todo)} \cup Items(Tail(todo))
  BY <1>1, HeadAndTail DEF Lists
<1>3. \A s : IsList(s) /\ PlaceFirst(s) => \E o \in Items(s) : o.op = "place" /\ ~IsJogOp(o)
  BY HeadAndTail DEF PlaceFirst
<1>4. \A s : IsList(s) /\ PlaceSecond(s) => \E o \in Items(s) : o.op = "place" /\ ~IsJogOp(o)
  <2>1. SUFFICES ASSUME NEW s, IsList(s), PlaceSecond(s)
                 PROVE  \E o \in Items(s) : o.op = "place" /\ ~IsJogOp(o)
    OBVIOUS
  <2>2. IsList(Tail(s)) /\ Items(s) = {Head(s)} \cup Items(Tail(s)) /\ PlaceFirst(Tail(s))
    BY <2>1, HeadAndTail DEF PlaceSecond
  <2>3. QED
    BY <1>3, <2>2
<1>5. CASE PlaceFirst(todo) \/ PlaceSecond(todo)
  BY <1>1, <1>3, <1>4, <1>5 DEF Lists
<1>6. CASE PlaceThird(todo)
  BY <1>1, <1>2, <1>4, <1>6 DEF PlaceThird
<1>7. QED
  BY <1>5, <1>6 DEF PlaceInv

\* Nothing changes the end of the plan under a motion that waits.
LEMMA PlanStays ==
  ASSUME Lists, ListInv, StateInv, RunInv, TravelInv, CancelInv, PlaceInv, ~NoPlace(todo), [Next]_vars
  PROVE  plan' = plan
<1>1. /\ todo # <<>> /\ Head(todo).op \in {"start", "wait", "place"}
      /\ \E o \in Items(todo) : o.op = "place" /\ ~IsJogOp(o)
  BY PlaceHead
<1>2. CASE Pass
  <2>1. sys.state # "JOG"
    BY <1>1 DEF TravelInv
  <2>2. QED
    BY <1>2, <2>1, PassPositions DEF PassPlaces
<1>3. CASE AutoStart \/ Wait \/ WriteRecord \/ SoftLimit \/ SoftWait \/ NoMove \/ Room \/ Place
  BY <1>3 DEF AutoStart, Wait, WriteRecord, SoftLimit, SoftWait, NoMove, Room, Place
<1>4. CASE Pause \/ Resumed \/ End \/ Startup \/ StoreStartup \/ WriteGlobal \/ Restore
  BY <1>4 DEF Pause, Resumed, End, Startup, StoreStartup, WriteGlobal, Restore
<1>5. CASE Finish \/ ComeToRest \/ Request \/ UNCHANGED vars
  BY <1>5 DEF Finish, ComeToRest, Request, vars
<1>6. CASE \E l \in Lines : ReadLine(l)
  BY <1>6, ReadLineCases
<1>7. ~Plan /\ ~Reinitialize
  BY <1>1 DEF Plan, Next1, Reinitialize
<1>8. QED
  BY <1>2, <1>3, <1>4, <1>5, <1>6, <1>7 DEF Next

\* The order of the motions that are left.
LEMMA NextShape ==
  ASSUME Lists, ListInv, StateInv, RunInv, TravelInv, StoredInv, CancelInv, JogLine,
         Led(todo), PlaceInv, NoLaserJog, NoProbing', [Next]_vars
  PROVE  Led(todo') /\ PlaceInv'
<1>1. NoPlace(todo') => PlaceInv'
  BY DEF PlaceInv
<1>2. todo # <<>> => /\ IsCons(todo, Head(todo), Tail(todo)) /\ IsList(Tail(todo))
                     /\ Items(todo) = {Head(todo)} \cup Items(Tail(todo))
                     /\ LedHead(Head(todo), Tail(todo)) /\ Led(Tail(todo))
  BY HeadCons, HeadAndTail, LedCons DEF Lists
<1>3. ~NoPlace(todo) => plan' = plan /\ Head(todo).op \in {"start", "wait", "place"}
  BY PlanStays, PlaceHead
<1>4. CASE todo' = todo
  BY <1>1, <1>3, <1>4 DEF PlaceInv, PlaceFirst, PlaceSecond, PlaceThird
<1>5. CASE todo # <<>> /\ Done
  <2>1. todo' = Tail(todo) /\ Led(todo')
    BY <1>2, <1>5 DEF Done
  <2>2. CASE NoPlace(todo) \/ PlaceFirst(todo)
    BY <1>1, <1>2, <1>5, <2>1, <2>2 DEF NoPlace, PlaceFirst
  <2>3. CASE ~NoPlace(todo) /\ (PlaceSecond(todo) \/ PlaceThird(todo))
    BY <1>3, <2>1, <2>3 DEF PlaceSecond, PlaceThird, PlaceFirst, PlaceInv
  <2>4. QED
    BY <2>1, <2>2, <2>3 DEF PlaceInv
<1>6. CASE ToPlan
  <2>1. PICK p : IsRenamed(p, "plan") /\ IsCons(todo', p, Tail(todo))
    BY <1>6 DEF ToPlan
  <2>2. todo # <<>> /\ Head(todo).op = "move"
    BY <1>6 DEF ToPlan, Next1
  <2>3. p.op = "plan" /\ p.last = Head(todo).last
    BY <2>1 DEF IsRenamed
  <2>4. LedHead(p, Tail(todo))
    BY <1>2, <2>2, <2>3 DEF LedHead, Lasts, Steppers
  <2>5. Led(todo')
    BY <1>2, <2>1, <2>2, <2>4, LedCons
  <2>6. NoPlace(todo')
    BY <1>2, <1>3, <2>1, <2>2, <2>3 DEF NoPlace, IsCons
  <2>7. QED
    BY <1>1, <2>5, <2>6
<1>7. CASE ToSoftWait
  <2>1. PICK w : w.op = "softWait" /\ IsCons(todo', w, todo)
    BY <1>7 DEF ToSoftWait
  <2>2. todo # <<>> /\ Head(todo).op = "move"
    BY <1>7 DEF ToSoftWait, Next1
  <2>3. LedHead(w, todo)
    BY <2>1 DEF LedHead, Steppers
  <2>4. Led(todo')
    BY <2>1, <2>3, LedCons DEF Lists
  <2>5. NoPlace(todo')
    BY <1>3, <2>1, <2>2 DEF NoPlace, IsCons
  <2>6. QED
    BY <1>1, <2>4, <2>5
<1>8. CASE Plan /\ ~Done
  <2>1. PICK p, c1, c2, a, b : /\ IsRenamed(p, "place") /\ IsCons(c1, p, Tail(todo))
                               /\ IsCons(c2, b, c1) /\ IsCons(todo', a, c2)
                               /\ a.op = "start" /\ b.op = "wait"
    BY <1>8, LaserShape
  <2>2. /\ todo # <<>> /\ Head(todo).op = "plan" /\ settings[32] = 1
        /\ Head(todo).target = plan /\ plan' = plan
    BY <1>8, LaserShape DEF Plan, Next1
  <2>3. /\ p.op = "place" /\ p.last = Head(todo).last /\ p.target = Head(todo).target
        /\ p.jog = Head(todo).jog
    BY <2>1 DEF IsRenamed
  <2>4. IsList(c1) /\ IsList(c2)
    BY <2>1 DEF IsCons
  <2>5. Led(c1)
    <3>1. LedHead(p, Tail(todo))
      BY <1>2, <2>2, <2>3 DEF LedHead, Lasts, Steppers
    <3>2. QED
      BY <1>2, <2>1, <2>2, <3>1, LedCons
  <2>6. Led(c2)
    <3>1. LedHead(b, c1)
      BY <2>1 DEF LedHead, Steppers
    <3>2. QED
      BY <2>1, <2>4, <2>5, <3>1, LedCons
  <2>7. Led(todo')
    <3>1. LedHead(a, c2)
      BY <2>1 DEF LedHead, Steppers
    <3>2. QED
      BY <2>1, <2>4, <2>6, <3>1, LedCons
  <2>8. NoPlace(Tail(todo))
    BY <1>2, <1>3, <2>2 DEF NoPlace
  <2>9. ~IsJogOp(p)
    <3>1. SUFFICES ASSUME IsJogOp(p) PROVE FALSE
      OBVIOUS
    <3>2. IsJogOp(Head(todo))
      BY <2>2, <2>3, <3>1 DEF IsJogOp, Steppers
    <3>3. line.kind = "jog"
      BY <1>2, <2>2, <3>2 DEF JogLine
    <3>4. line # NoLine
      BY <3>3 DEF NoLine
    <3>5. QED
      BY <2>2, <3>3, <3>4 DEF NoLaserJog
  <2>10. c1 # <<>> /\ Head(c1) = p /\ Tail(c1) = Tail(todo)
    BY <2>1 DEF IsCons
  <2>11. c2 # <<>> /\ Head(c2) = b /\ Tail(c2) = c1
    BY <2>1 DEF IsCons
  <2>12. todo' # <<>> /\ Head(todo') = a /\ Tail(todo') = c2
    BY <2>1 DEF IsCons
  <2>13. PlaceThird(todo)'
    BY <2>1, <2>2, <2>3, <2>8, <2>9, <2>10, <2>11, <2>12 DEF PlaceThird, PlaceSecond, PlaceFirst
  <2>14. QED
    BY <2>7, <2>13 DEF PlaceInv
<1>9. CASE Startup
  <2>1. todo # <<>> /\ Head(todo).op = "startup" /\ Parser(gc)
    BY <1>9 DEF Startup, Next1, StoredInv
  <2>2. Led(Tail(todo)) /\ NoPlace(Tail(todo)) /\ IsList(Tail(todo))
    BY <1>2, <1>3, <2>1 DEF NoPlace
  <2>3. CASE Done
    BY <1>5, <2>1, <2>3
  <2>4. CASE \E l : Execute(l, Tail(todo))
    BY <1>1, <2>1, <2>2, <2>4, ExecuteEnds
  <2>5. QED
    BY <1>9, <2>3, <2>4 DEF Startup
<1>10. CASE \E l \in Lines : ReadLine(l)
  <2>1. PICK l \in Lines : ReadLine(l)
    BY <1>10
  <2>2. todo = <<>>
    BY <2>1, ReadLineCases
  <2>3. CASE Nothing \/ LeavesCheck \/ EntersCheck \/ Unlocks
    BY <1>4, <2>3 DEF Nothing, LeavesCheck, EntersCheck, Unlocks
  <2>4. CASE TakesGcode \/ TakesStartup
    <3>1. PICK k, rest : /\ Execute(k, rest) /\ IsList(rest)
                         /\ \A o \in Items(rest) : o.op \in {"start", "wait", "store"}
      <4>1. CASE TakesGcode
        BY <4>1, EmptyList DEF TakesGcode
      <4>2. CASE TakesStartup
        BY <4>2, ThenStoreFacts DEF TakesStartup
      <4>3. QED
        BY <2>4, <4>1, <4>2
    <3>2. Led(rest) /\ NoPlace(rest)
      BY <3>1, LedNone DEF Steppers, NoPlace
    <3>3. QED
      BY <1>1, <3>1, <3>2, ExecuteEnds DEF StoredInv
  <2>5. CASE TakesJog
    <3>1. PICK o : todo' = <<o>> /\ o.op = "move" /\ o.last = TRUE
      BY <2>5 DEF TakesJog
    <3>2. Len(<<o>>) = 1 /\ <<o>>[1] = o /\ Items(<<o>>) = {o}
      BY OneItem
    <3>3. QED
      BY <1>1, <3>1, <3>2 DEF Led, Lasts, NoPlace
  <2>6. CASE TakesSetting
    BY <1>1, <2>6, LedNone DEF TakesSetting, Storing, Steppers, NoPlace
  <2>7. CASE Homes
    <3>1. Led(RunStartup) /\ NoPlace(RunStartup)
      BY RunStartupFacts, LedNone DEF Steppers, NoPlace
    <3>2. QED
      BY <1>1, <1>4, <2>7, <3>1 DEF Homes
  <2>8. QED
    BY <2>1, <2>3, <2>4, <2>5, <2>6, <2>7, ReadLineCases
<1>11. CASE Reinitialize
  <2>1. /\ Led(RunStartup) /\ NoPlace(RunStartup)
        /\ Led(<<>>) /\ NoPlace(<<>>)
    BY RunStartupFacts, EmptyList, LedNone DEF Steppers, NoPlace
  <2>2. todo' = RunStartup \/ todo' = <<>>
    BY <1>11 DEF Reinitialize
  <2>3. QED
    BY <1>1, <2>1, <2>2
<1>12. QED
  <2>1. CASE Plan
    <3>1. todo # <<>>
      BY <2>1 DEF Plan, Next1
    <3>2. QED
      BY <1>5, <1>8, <2>1, <3>1
  <2>2. QED
    BY <1>4, <1>5, <1>6, <1>7, <1>9, <1>10, <1>11, <2>1, TodoCases

\* One operation after another: the motion that lasts is still to come, unless
\* it was the one that is gone.
LEMMA StillPending ==
  ASSUME Lists, Led(todo), todo # <<>>, Done,
         Head(todo).op \in Steppers => ~Lasts(Head(todo))
  PROVE  /\ Pending(todo) => Pending(todo')
         /\ Head(todo).op \in Steppers => Pending(todo')
<1>1. /\ IsCons(todo, Head(todo), Tail(todo)) /\ IsList(Tail(todo)) /\ todo' = Tail(todo)
      /\ Items(todo) = {Head(todo)} \cup Items(Tail(todo))
  BY HeadCons, HeadAndTail DEF Lists, Done
<1>2. LedHead(Head(todo), Tail(todo))
  BY <1>1, LedCons
<1>3. Pending(todo) => Pending(todo')
  BY <1>1 DEF Pending, Lasts
<1>4. ASSUME Head(todo).op \in Steppers PROVE Pending(todo')
  <2>1. Tail(todo) # <<>> /\ Lasts(Head(Tail(todo)))
    BY <1>2, <1>4 DEF LedHead
  <2>2. Head(Tail(todo)) \in Items(Tail(todo))
    BY <1>1, <2>1, HeadAndTail
  <2>3. QED
    BY <1>1, <2>1, <2>2 DEF Pending
<1>5. QED
  BY <1>3, <1>4

\* While nothing is reset, one step of the line being executed.
LEMMA NextNear ==
  ASSUME Lists, ListInv, StateInv, RunInv, TravelInv, StoredInv, CancelInv, Led(todo), PlaceInv,
         NoProbing', [Next]_vars, InForce, Near(gc, plan, todo),
         ~(\E l \in Lines : ReadLine(l)), ~Reinitialize
  PROVE  Near(gc', plan', todo')
<1>1. Parser(gc)
  BY DEF StoredInv
<1>2. CASE gc'.pos = gc.pos /\ plan' = plan /\ todo' = todo
  BY <1>2 DEF Near
<1>3. CASE gc'.pos = gc.pos /\ plan' = plan /\ todo # <<>> /\ Done /\ Head(todo).op \notin Steppers
  BY <1>3, StillPending DEF Near
<1>4. todo # <<>> => Items(todo) = {Head(todo)} \cup Items(Tail(todo))
  BY HeadAndTail DEF Lists
<1>5. CASE Pass
  <2>1. PassPlaces /\ todo' = todo
    BY <1>5, PassPositions DEF Pass
  <2>2. CASE UNCHANGED <<queue, plan, gc>>
    BY <1>2, <2>1, <2>2
  <2>3. CASE plan' = mpos /\ gc' = [gc EXCEPT !.pos = mpos]
    BY <1>1, <2>3 DEF Near, Parser
  <2>4. QED
    BY <2>1, <2>2, <2>3 DEF PassPlaces
<1>6. CASE AutoStart \/ Wait \/ WriteRecord \/ SoftWait \/ Pause \/ Resumed
  BY <1>2, <1>3, <1>6 DEF AutoStart, Wait, WriteRecord, SoftWait, Pause, Resumed, Next1, Steppers
<1>7. CASE StoreStartup \/ WriteGlobal \/ Restore
  BY <1>3, <1>7 DEF StoreStartup, WriteGlobal, Restore, Next1, Steppers
<1>8. CASE Finish \/ ComeToRest \/ Request \/ UNCHANGED vars
  BY <1>2, <1>8 DEF Finish, ComeToRest, Request, vars
<1>9. CASE End
  <2>1. PICK y : gc' = [gc EXCEPT !.motion = "G1", !.plane = "G17", !.distance = "G90", !.feedMode = "G94",
                      !.coord = "G54", !.spindle = "M5", !.coolant = "M9", !.system = y]
    BY <1>9, Zenon DEF End
  <2>2. gc'.pos = gc.pos
    BY <1>1, <2>1 DEF Parser
  <2>3. QED
    BY <1>3, <1>9, <2>2 DEF End, Next1, Steppers
<1>10. CASE NoMove
  BY <1>10 DEF NoMove, InForce
<1>11. CASE SoftLimit
  <2>1. gc' = gc /\ plan' = plan
    BY <1>11 DEF SoftLimit
  <2>2. CASE ToSoftWait
    <3>1. PICK w : Items(todo') = {w} \cup Items(todo)
      BY <2>2 DEF ToSoftWait, IsCons
    <3>2. QED
      BY <2>1, <3>1 DEF Near, Pending
  <2>3. QED
    BY <1>2, <1>11, <2>1, <2>2, SoftLimitFacts
<1>12. CASE Room
  <2>1. gc' = gc /\ plan' = plan
    BY <1>12 DEF Room
  <2>2. CASE ToPlan
    <3>1. PICK p : IsRenamed(p, "plan") /\ Items(todo') = {p} \cup Items(Tail(todo))
      BY <2>2 DEF ToPlan, IsCons
    <3>2. todo # <<>>
      BY <2>2 DEF ToPlan, Next1
    <3>3. Lasts(Head(todo)) => Lasts(p)
      BY <3>1 DEF IsRenamed, Lasts, Steppers
    <3>4. Pending(todo) => Pending(todo')
      BY <1>4, <3>1, <3>2, <3>3 DEF Pending
    <3>5. QED
      BY <2>1, <3>4 DEF Near
  <2>3. QED
    BY <1>2, <1>12, <2>1, <2>2, RoomFacts
<1>13. CASE Plan
  <2>1. todo # <<>> /\ Head(todo).op = "plan" /\ plan' = Head(todo).target
    BY <1>13 DEF Plan, Next1
  <2>2. CASE Done
    <3>1. CASE Lasts(Head(todo))
      <4>1. gc' = [gc EXCEPT !.pos = Head(todo).target]
        BY <1>13, <2>2, <3>1, PlanDone DEF Placed, Lasts
      <4>2. QED
        BY <1>1, <2>1, <4>1 DEF Near, Parser
    <3>2. CASE ~Lasts(Head(todo))
      BY <2>1, <2>2, <3>2, StillPending DEF Near, Steppers
    <3>3. QED
      BY <3>1, <3>2
  <2>3. CASE ~Done
    <3>1. PICK p, c1, c2, a, b : /\ IsRenamed(p, "place") /\ IsCons(c1, p, Tail(todo))
                                 /\ IsCons(c2, b, c1) /\ IsCons(todo', a, c2)
      BY <1>13, <2>3, LaserShape
    <3>2. UNCHANGED <<plan, gc>>
      BY <1>13, <2>3, LaserShape
    <3>3. {p} \cup Items(Tail(todo)) \subseteq Items(todo')
      BY <3>1 DEF IsCons
    <3>4. Lasts(Head(todo)) => Lasts(p)
      BY <3>1 DEF IsRenamed, Lasts, Steppers
    <3>5. Pending(todo) => Pending(todo')
      BY <1>4, <2>1, <3>3, <3>4 DEF Pending
    <3>6. QED
      BY <3>2, <3>5 DEF Near
  <2>4. QED
    BY <2>2, <2>3
<1>14. CASE Place
  <2>1. todo # <<>> /\ Head(todo).op = "place" /\ Done /\ Placed(Head(todo)) /\ plan' = plan
    BY <1>14 DEF Place, Next1
  <2>2. Head(todo).target = plan
    <3>1. ~NoPlace(todo)
      BY <1>4, <2>1 DEF NoPlace
    <3>2. QED
      BY <2>1, <3>1 DEF PlaceInv, PlaceFirst, PlaceSecond, PlaceThird
  <2>3. CASE Lasts(Head(todo))
    <3>1. gc' = [gc EXCEPT !.pos = Head(todo).target]
      BY <2>1, <2>3 DEF Placed, Lasts
    <3>2. QED
      BY <1>1, <2>1, <2>2, <3>1 DEF Near, Parser
  <2>4. CASE ~Lasts(Head(todo))
    BY <2>1, <2>4, StillPending DEF Near, Steppers
  <2>5. QED
    BY <2>3, <2>4
<1>15. CASE Startup
  <2>1. todo # <<>> /\ Head(todo).op = "startup" /\ plan' = plan
    BY <1>15 DEF Startup, Next1
  <2>2. CASE Done /\ gc' = gc
    BY <1>3, <2>1, <2>2 DEF Steppers
  <2>3. CASE \E l : Execute(l, Tail(todo))
    <3>1. IsList(Tail(todo)) /\ Led(Tail(todo)) /\ NoPlace(Tail(todo))
      <4>1. NoPlace(todo)
        BY <2>1, PlaceHead
      <4>2. QED
        BY <1>4, <2>1, <4>1, HeadCons, LedCons DEF Lists, NoPlace
    <3>2. gc'.pos = gc.pos /\ Items(Tail(todo)) \subseteq Items(todo')
      BY <1>1, <2>3, <3>1, ExecuteEnds
    <3>3. Pending(todo) => Pending(todo')
      BY <1>4, <2>1, <3>2 DEF Pending, Lasts, Steppers
    <3>4. QED
      BY <2>1, <3>2, <3>3 DEF Near
  <2>4. QED
    BY <1>15, <2>2, <2>3 DEF Startup
<1>16. QED
  BY <1>5, <1>6, <1>7, <1>8, <1>9, <1>10, <1>11, <1>12, <1>13, <1>14, <1>15 DEF Next

\* Every step, with new lines and new starts.
LEMMA NextPosInv ==
  ASSUME Lists, ListInv, StateInv, RunInv, TravelInv, StoredInv, CancelInv, JogLine,
         PosInv, NoLaserJog, NoProbing', [Next]_vars
  PROVE  PosInv'
<1>1. Led(todo) /\ PlaceInv /\ (InForce => Near(gc, plan, todo))
  BY DEF PosInv
<1>2. Led(todo') /\ PlaceInv'
  BY <1>1, NextShape
<1>3. SUFFICES ASSUME InForce' PROVE Near(gc', plan', todo')
  BY <1>2 DEF PosInv
<1>4. CASE \E l \in Lines : ReadLine(l)
  <2>1. PICK l \in Lines : ReadLine(l)
    BY <1>4
  <2>2. todo = <<>> /\ exec = {} /\ ~sys.abort /\ plan' = plan
    BY <2>1, ReadLineCases DEF Clear
  <2>3. sys.state # "CHECK" => gc.pos = plan
    BY <1>1, <2>2, EmptyList DEF InForce, Near, Pending
  <2>4. CASE gc'.pos = gc.pos /\ sys.state # "CHECK"
    BY <2>2, <2>3, <2>4 DEF Near
  <2>5. CASE Nothing \/ TakesJog \/ TakesSetting \/ EntersCheck \/ Unlocks \/ Homes
    <3>1. gc' = gc
      BY <2>5 DEF Nothing, TakesJog, TakesSetting, EntersCheck, Unlocks, Homes
    <3>2. sys.state = "CHECK" => sys'.state = "CHECK"
      BY <2>5 DEF Nothing, TakesJog, TakesSetting, EntersCheck, Unlocks, Homes, StateInv
    <3>3. QED
      BY <1>3, <2>4, <3>1, <3>2 DEF InForce
  <2>6. CASE LeavesCheck
    <3>1. ~InForce'
      BY <2>6, ResetFacts DEF LeavesCheck, InForce
    <3>2. QED
      BY <1>3, <3>1
  <2>7. CASE TakesGcode \/ TakesStartup
    <3>1. PICK k, rest : /\ Execute(k, rest) /\ IsList(rest)
                         /\ \A o \in Items(rest) : o.op \in {"start", "wait", "store"}
      <4>1. CASE TakesGcode
        BY <4>1, EmptyList DEF TakesGcode
      <4>2. CASE TakesStartup
        BY <4>2, ThenStoreFacts DEF TakesStartup
      <4>3. QED
        BY <2>7, <4>1, <4>2
    <3>2. Led(rest) /\ NoPlace(rest)
      BY <3>1, LedNone DEF Steppers, NoPlace
    <3>3. gc'.pos = gc.pos
      BY <3>1, <3>2, ExecuteEnds DEF StoredInv
    <3>4. sys' = sys
      BY <2>7 DEF TakesGcode, TakesStartup
    <3>5. QED
      BY <1>3, <2>4, <3>3, <3>4 DEF InForce
  <2>8. QED
    BY <2>1, <2>5, <2>6, <2>7, ReadLineCases
<1>5. CASE Reinitialize
  <2>1. PICK z : z = GcZero(eeprom)
    OBVIOUS
  <2>2. gc' = [z EXCEPT !.pos = mpos] /\ plan' = mpos
    BY <1>5, <2>1 DEF Reinitialize, GcInit
  <2>3. "pos" \in DOMAIN z
    BY <2>1 DEF GcZero
  <2>4. QED
    BY <2>2, <2>3 DEF Near
<1>6. CASE ~(\E l \in Lines : ReadLine(l)) /\ ~Reinitialize
  <2>1. InForce
    BY <1>3, <1>6, InForceBefore
  <2>2. QED
    BY <1>1, <1>6, <2>1, NextNear
<1>7. QED
  BY <1>4, <1>5, <1>6

\* When the planner is empty the machine is, or will come to rest, where the
\* plan ends (plan_buffer_line, plan_sync_position, and every reset).
LEMMA QueueEnds == Spec => [](CancelInv /\ JogLine /\ QueueEnd)
<1>1. Init => CancelInv /\ JogLine /\ QueueEnd
  BY EmptyList DEF Init, CancelInv, JogLine, QueueEnd
<1>2. ASSUME IInv, CancelInv, JogLine, QueueEnd, [Next]_vars
      PROVE  CancelInv' /\ JogLine' /\ QueueEnd'
  BY <1>2, NextCancelInv, NextJogLine, NextQueueEnd DEF IInv
<1>3. QED
  BY <1>1, <1>2, Inductive, PTL DEF Spec

\* Whatever was executed, jogged, cancelled, limited or reset, the next line
\* starts where the last one ended: gc_state.position is pl.position, and
\* sys_position when the machine is at rest (gc_execute_line, mc_line,
\* plan_buffer_line, the end of a jog cancel, gc_sync_position).  Without jogs
\* in laser mode and without probe commands, which break it.
THEOREM PositionsKept == Spec /\ [](NoLaserJog /\ NoProbing) => []PositionsAgree
<1>1. ASSUME Init PROVE PosInv
  <2>1. PICK z : z = GcZero(eeprom)
    OBVIOUS
  <2>2. gc = [z EXCEPT !.pos = plan] /\ todo = <<>>
    BY <1>1, <2>1 DEF Init, GcInit
  <2>3. gc.pos = plan
    BY <2>1, <2>2 DEF GcZero
  <2>4. Led(todo) /\ NoPlace(todo)
    BY <2>2, EmptyList, LedNone DEF NoPlace
  <2>5. QED
    BY <2>3, <2>4 DEF PosInv, PlaceInv, Near
<1>2. ASSUME IInv, CancelInv, JogLine, PosInv, NoLaserJog, NoProbing', [Next]_vars
      PROVE  PosInv'
  BY <1>2, NextPosInv DEF IInv
<1>3. Spec /\ [](NoLaserJog /\ NoProbing) => []PosInv
  <2>1. Spec => []IInv
    BY Inductive
  <2>2. Spec => [](CancelInv /\ JogLine /\ QueueEnd)
    BY QueueEnds
  <2>3. QED
    BY <1>1, <1>2, <2>1, <2>2, PTL DEF Spec
<1>4. PosInv /\ QueueEnd => PositionsAgree
  <2>1. ASSUME PosInv, Answered PROVE gc.pos = plan
    BY <2>1, EmptyList DEF PosInv, Answered, InForce, Near, Pending
  <2>2. ASSUME QueueEnd, AtRest PROVE mpos = plan
    BY <2>2 DEF QueueEnd, AtRest
  <2>3. QED
    BY <2>1, <2>2 DEF PositionsAgree
<1>5. QED
  BY <1>3, <1>4, QueueEnds, PTL

-----------------------------------------------------------------------------
(* The types. *)

\* The operands of what is left.
OpTyped(o) ==
  /\ o.op \in Steppers => o.target \in Position /\ o.last \in BOOLEAN /\ o.jog \in BOOLEAN
  /\ o.op = "write" => o.record \in Records /\ o.data \in Position
  /\ o.op = "startup" => o.n \in StartupLines
  /\ o.op = "store" => o.n \in StartupLines /\ IsGcode(o.block)

OpsTyped(s) == \A o \in Items(s) : OpTyped(o)

EepromTyped(e) ==
  /\ DOMAIN e = {"global", "coords", "startup"}
  /\ e.global \in [Parameters -> Nat]
  /\ e.coords \in [Records -> Position]
  /\ DOMAIN e.startup = StartupLines
  /\ \A n \in StartupLines : e.startup[n] = NoLine \/ IsGcode(e.startup[n])

QueueTyped(q) == \A x \in Items(q) : x.target \in Position /\ x.jog \in BOOLEAN

\* What TypeOK needs to be inductive: the types of what a list holds.
TypeInv ==
  /\ settings \in [Parameters -> Nat]
  /\ EepromTyped(eeprom)
  /\ gc \in GcStates
  /\ plan \in Position /\ mpos \in Position
  /\ QueueTyped(queue)
  /\ OpsTyped(todo)

-----------------------------------------------------------------------------
(* The operands of a line. *)

LEMMA ValueTyped == ASSUME NEW l, IsWords(l), NEW w PROVE Value(l, w) \in Int
<1>1. CASE w \in Letters(l)
  <2>1. \E i \in DOMAIN l.vals : l.vals[i][1] = w
    BY <1>1 DEF Letters
  <2>2. PICK i \in DOMAIN l.vals : i = CHOOSE k \in DOMAIN l.vals : l.vals[k][1] = w
    BY <2>1
  <2>3. l.vals[i] \in STRING \X Int
    BY DEF IsWords
  <2>4. Value(l, w) = l.vals[i][2]
    BY <1>1, <2>2 DEF Value
  <2>5. QED
    BY <2>3, <2>4
<1>2. CASE w \notin Letters(l)
  BY <1>2 DEF Value
<1>3. QED
  BY <1>1, <1>2

LEMMA FactorTyped == ASSUME NEW m PROVE Factor(m) \in Nat
BY ParserAssumption DEF Factor

LEMMA LengthTyped ==
  ASSUME NEW l, IsWords(l), NEW m, NEW a
  PROVE  Length(l, m, a) \in Int
<1>1. PICK v \in Int, f \in Nat : v = Value(l, a) /\ f = Factor(m)
  BY ValueTyped, FactorTyped
<1>2. v * f \in Int
  OBVIOUS
<1>3. QED
  BY <1>1, <1>2 DEF Length

\* A modal group's command, or what it stands for without one.
LEMMA NamedIn ==
  ASSUME NEW l, NEW g, NEW default
  PROVE  Named(l, g, default) \in (ModalGroups[g] \cap Codes(l)) \cup {default}
<1>1. CASE Codes(l) \cap ModalGroups[g] = {}
  BY <1>1 DEF Named
<1>2. CASE Codes(l) \cap ModalGroups[g] # {}
  <2>1. \E c \in ModalGroups[g] : c \in Codes(l)
    BY <1>2
  <2>2. (CHOOSE c \in ModalGroups[g] : c \in Codes(l)) \in ModalGroups[g] \cap Codes(l)
    BY <2>1
  <2>3. QED
    BY <1>2, <2>2 DEF Named
<1>3. QED
  BY <1>1, <1>2

\* The modes that a line of g-code leaves in force.
LEMMA ModesTyped ==
  ASSUME NEW l, l.kind = "gcode", NEW g \in GcStates
  PROVE  LET m == Modes(l, g)
         IN /\ m.motion \in ModalGroups.G1 /\ m.feedMode \in ModalGroups.G5
            /\ m.plane \in ModalGroups.G2 /\ m.distance \in ModalGroups.G3
            /\ m.units \in ModalGroups.G6 /\ m.coord \in Systems
            /\ m.spindle \in ModalGroups.M7 /\ m.coolant \in ModalGroups.M8
<1>1. /\ g.motion \in ModalGroups.G1 /\ g.feedMode \in ModalGroups.G5
      /\ g.plane \in ModalGroups.G2 /\ g.distance \in ModalGroups.G3
      /\ g.units \in ModalGroups.G6 /\ g.coord \in Systems
      /\ g.spindle \in ModalGroups.M7 /\ g.coolant \in ModalGroups.M8
  BY DEF GcStates
<1>2. ModalGroups.G12 = Systems
  BY DEF ModalGroups
<1>3. /\ Named(l, "G1", g.motion) \in ModalGroups.G1
      /\ Named(l, "G5", g.feedMode) \in ModalGroups.G5
      /\ Named(l, "G2", g.plane) \in ModalGroups.G2
      /\ Named(l, "G3", g.distance) \in ModalGroups.G3
      /\ Named(l, "G6", g.units) \in ModalGroups.G6
      /\ Named(l, "G12", g.coord) \in Systems
      /\ Named(l, "M7", g.spindle) \in ModalGroups.M7
      /\ Named(l, "M8", g.coolant) \in ModalGroups.M8
  BY <1>1, <1>2, NamedIn
<1>4. ~IsJog(l)
  BY DEF IsJog
<1>5. QED
  BY <1>3, <1>4 DEF Modes

LEMMA AxisTyped ==
  ASSUME NEW x, x \in Position, NEW a \in Axes
  PROVE  x[a] \in Int
BY DEF Position

LEMMA BlockSystemTyped ==
  ASSUME NEW m, m.coord \in Systems, NEW g \in GcStates, NEW e, EepromTyped(e)
  PROVE  BlockSystem(m, g, e) \in Position
<1>1. m.coord \in Records
  BY DEF Records
<1>2. g.system \in Position /\ e.coords[m.coord] \in Position
  BY <1>1 DEF GcStates, EepromTyped
<1>3. QED
  BY <1>2 DEF BlockSystem, Coordinates

LEMMA ToolTyped ==
  ASSUME NEW g \in GcStates, NEW a
  PROVE  ToolOffset(g, a) \in Int
BY DEF ToolOffset, GcStates

LEMMA TargetTyped ==
  ASSUME NEW l, IsWords(l), NEW m, m.coord \in Systems, NEW g \in GcStates, NEW e, EepromTyped(e)
  PROVE  TargetOf(l, m, g, e) \in Position
<1>1. PICK b : b = BlockSystem(m, g, e)
  OBVIOUS
<1>2. b \in Position /\ g.pos \in Position /\ g.offset \in Position
  BY <1>1, BlockSystemTyped DEF GcStates
<1>3. ASSUME NEW a \in Axes PROVE TargetOf(l, m, g, e)[a] \in Int
  <2>1. PICK n \in Int, t \in Int : n = Length(l, m, a) /\ t = ToolOffset(g, a)
    BY LengthTyped, ToolTyped
  <2>2. b[a] \in Int /\ g.pos[a] \in Int /\ g.offset[a] \in Int
    BY <1>2, AxisTyped
  <2>3. TargetOf(l, m, g, e)[a] =
          CASE AxisWords(l) = {}      -> 0
            [] a \notin AxisWords(l) /\ AxisWords(l) # {} -> g.pos[a]
            [] a \in AxisWords(l) /\ m.nonModal = "G53" -> n
            [] a \in AxisWords(l) /\ m.nonModal # "G53" /\ m.distance = "G90" ->
                 n + b[a] + g.offset[a] + t
            [] OTHER                  -> n + g.pos[a]
    BY <1>1, <2>1 DEF TargetOf
  <2>4. n + b[a] + g.offset[a] + t \in Int /\ n + g.pos[a] \in Int
    BY <2>2
  <2>5. CASE AxisWords(l) = {}
    BY <2>3, <2>5
  <2>6. CASE a \notin AxisWords(l) /\ AxisWords(l) # {}
    BY <2>2, <2>3, <2>6
  <2>7. CASE a \in AxisWords(l) /\ m.nonModal = "G53"
    BY <2>3, <2>7
  <2>8. CASE a \in AxisWords(l) /\ m.nonModal # "G53" /\ m.distance = "G90"
    BY <2>3, <2>4, <2>8
  <2>9. CASE a \in AxisWords(l) /\ m.nonModal # "G53" /\ m.distance # "G90"
    BY <2>3, <2>4, <2>9
  <2>10. QED
    BY <2>5, <2>6, <2>7, <2>8, <2>9
<1>4. TargetOf(l, m, g, e) = [a \in Axes |-> TargetOf(l, m, g, e)[a]]
  BY DEF TargetOf
<1>5. QED
  BY <1>3, <1>4 DEF Position

LEMMA HomeTyped ==
  ASSUME NEW l, NEW m, m.nonModal \in {"G28", "G30"}, NEW g \in GcStates, NEW e, EepromTyped(e)
  PROVE  HomeOf(l, m, g, e) \in Position
<1>1. g.pos \in Position /\ e.coords[m.nonModal] \in Position
  BY DEF GcStates, EepromTyped, Records
<1>2. ASSUME NEW a \in Axes PROVE g.pos[a] \in Int /\ e.coords[m.nonModal][a] \in Int
  BY <1>1, AxisTyped
<1>3. QED
  BY <1>2 DEF HomeOf, Position, Coordinates

LEMMA SystemDataTyped ==
  ASSUME NEW l, IsWords(l), NEW m, SelectOf(l, m) \in Systems, NEW g \in GcStates, NEW e, EepromTyped(e)
  PROVE  SystemData(l, m, g, e) \in Position
<1>1. PICK c : c = Coordinates(e, SelectOf(l, m))
  OBVIOUS
<1>2. c \in Position /\ g.pos \in Position /\ g.offset \in Position
  BY <1>1 DEF EepromTyped, GcStates, Coordinates, Records
<1>3. ASSUME NEW a \in Axes PROVE SystemData(l, m, g, e)[a] \in Int
  <2>1. PICK n \in Int, t \in Int : n = Length(l, m, a) /\ t = ToolOffset(g, a)
    BY LengthTyped, ToolTyped
  <2>2. c[a] \in Int /\ g.pos[a] \in Int /\ g.offset[a] \in Int
    BY <1>2, AxisTyped
  <2>3. SystemData(l, m, g, e)[a] = IF a \notin AxisWords(l) THEN c[a]
                                    ELSE IF Value(l, "L") = 20 THEN g.pos[a] - g.offset[a] - n - t ELSE n
    BY <1>1, <2>1 DEF SystemData
  <2>4. g.pos[a] - g.offset[a] - n - t \in Int
    BY <2>2
  <2>5. QED
    BY <2>2, <2>3, <2>4
<1>4. SystemData(l, m, g, e) = [a \in Axes |-> SystemData(l, m, g, e)[a]]
  BY DEF SystemData
<1>5. QED
  BY <1>3, <1>4 DEF Position

LEMMA OffsetDataTyped ==
  ASSUME NEW l, IsWords(l), NEW m, m.coord \in Systems, NEW g \in GcStates, NEW e, EepromTyped(e)
  PROVE  OffsetData(l, m, g, e) \in Position
<1>1. PICK b : b = BlockSystem(m, g, e)
  OBVIOUS
<1>2. b \in Position /\ g.pos \in Position /\ g.offset \in Position
  BY <1>1, BlockSystemTyped DEF GcStates
<1>3. ASSUME NEW a \in Axes PROVE OffsetData(l, m, g, e)[a] \in Int
  <2>1. PICK n \in Int, t \in Int : n = Length(l, m, a) /\ t = ToolOffset(g, a)
    BY LengthTyped, ToolTyped
  <2>2. b[a] \in Int /\ g.pos[a] \in Int /\ g.offset[a] \in Int
    BY <1>2, AxisTyped
  <2>3. OffsetData(l, m, g, e)[a] = IF a \notin AxisWords(l) THEN g.offset[a]
                                    ELSE g.pos[a] - b[a] - n - t
    BY <1>1, <2>1 DEF OffsetData
  <2>4. QED
    BY <2>2, <2>3
<1>4. OffsetData(l, m, g, e) = [a \in Axes |-> OffsetData(l, m, g, e)[a]]
  BY DEF OffsetData
<1>5. QED
  BY <1>3, <1>4 DEF Position

\* G10 is refused unless it names a coordinate system.
LEMMA SelectTyped ==
  ASSUME NEW l, IsWords(l), NEW g \in GcStates, NEW e, Accepted(l, g, e), Modes(l, g).nonModal = "G10"
  PROVE  SelectOf(l, Modes(l, g)) \in Systems
<1>1. PICK m : m = Modes(l, g)
  OBVIOUS
<1>2. ValuesFit(l) /\ NonModalFits(l, m) /\ m.nonModal = "G10"
  BY <1>1 DEF Accepted
<1>3. PICK p \in Int : p = Value(l, "P")
  BY ValueTyped
<1>4. p >= 0 /\ p <= 6
  <2>1. Len(NthSystem) = 6
    BY DEF NthSystem
  <2>2. p >= 0
    BY <1>2, <1>3 DEF ValuesFit
  <2>3. p <= 6
    BY <1>2, <1>3, <2>1 DEF NonModalFits
  <2>4. QED
    BY <2>2, <2>3
<1>5. m.coord \in Systems
  BY <1>1, ModesCoord DEF GcStates
<1>6. \A k \in 1 .. 6 : NthSystem[k] \in Systems
  <2>1. \A k \in 1 .. 6 : k = 1 \/ k = 2 \/ k = 3 \/ k = 4 \/ k = 5 \/ k = 6
    OBVIOUS
  <2>2. QED
    BY <2>1 DEF NthSystem, Systems
<1>7. p = 0 \/ p \in 1 .. 6
  BY <1>4
<1>8. QED
  BY <1>1, <1>3, <1>5, <1>6, <1>7 DEF SelectOf

\* No feed and no speed is negative.
LEMMA FeedTyped ==
  ASSUME NEW l, IsGcode(l), NEW g \in GcStates, NEW e, Accepted(l, g, e)
  PROVE  Feed(l, Modes(l, g), g) \in Nat /\ Speed(l, g) \in Nat
<1>1. PICK m : m = Modes(l, g)
  OBVIOUS
<1>2. Value(l, "F") \in Nat /\ Value(l, "S") \in Nat
  <2>1. ValuesFit(l)
    BY DEF Accepted
  <2>2. Value(l, "F") \in Int /\ Value(l, "S") \in Int
    BY ValueTyped DEF IsGcode
  <2>3. QED
    BY <2>1, <2>2 DEF ValuesFit
<1>3. PICK f \in Nat, x \in Nat : f = Value(l, "F") /\ x = Factor(m)
  BY <1>2, FactorTyped
<1>4. f * x \in Nat
  OBVIOUS
<1>5. g.feed \in Nat /\ g.speed \in Nat
  BY DEF GcStates
<1>6. Feed(l, m, g) \in {f * x, g.feed, f}
  <2>1. ~IsJog(l)
    BY DEF IsJog, IsGcode
  <2>2. CASE m.feedMode = "G94" /\ g.feedMode = "G94"
    BY <1>3, <2>1, <2>2 DEF Feed
  <2>3. CASE ~(m.feedMode = "G94" /\ g.feedMode = "G94")
    BY <1>3, <2>1, <2>3 DEF Feed
  <2>4. QED
    BY <2>2, <2>3
<1>7. QED
  BY <1>1, <1>2, <1>4, <1>5, <1>6 DEF Speed

LEMMA NewTloTyped ==
  ASSUME NEW l, IsWords(l), NEW m, gc \in GcStates
  PROVE  NewTlo(l, m) \in Int
<1>1. gc.tlo \in Int /\ Length(l, m, "Z") \in Int
  BY LengthTyped DEF GcStates
<1>2. QED
  BY <1>1 DEF NewTlo

LEMMA TakenTyped ==
  ASSUME NEW l, IsGcode(l), gc \in GcStates, EepromTyped(eeprom), Accepted(l, gc, eeprom)
  PROVE  Taken(l, Modes(l, gc)) \in GcStates
<1>1. PICK m : m = Modes(l, gc)
  OBVIOUS
<1>2. IsWords(l) /\ l.kind = "gcode"
  BY DEF IsGcode
<1>3. /\ m.motion \in ModalGroups.G1 /\ m.feedMode \in ModalGroups.G5
      /\ m.plane \in ModalGroups.G2 /\ m.distance \in ModalGroups.G3
      /\ m.units \in ModalGroups.G6 /\ m.coord \in Systems
      /\ m.spindle \in ModalGroups.M7 /\ m.coolant \in ModalGroups.M8
  BY <1>1, <1>2, ModesTyped
<1>4. PICK y : y = IF m.nonModal = "G10" /\ SelectOf(l, m) = m.coord
                   THEN SystemData(l, m, gc, eeprom) ELSE BlockSystem(m, gc, eeprom)
  OBVIOUS
<1>5. y \in Position
  <2>1. CASE m.nonModal = "G10"
    <3>1. SystemData(l, m, gc, eeprom) \in Position
      BY <1>1, <1>2, <2>1, SelectTyped, SystemDataTyped
    <3>2. QED
      BY <1>3, <1>4, <3>1, BlockSystemTyped
  <2>2. CASE m.nonModal # "G10"
    BY <1>3, <1>4, <2>2, BlockSystemTyped
  <2>3. QED
    BY <2>1, <2>2
<1>6. PICK o : o = CASE m.nonModal = "G92" -> OffsetData(l, m, gc, eeprom)
                     [] m.nonModal = "G92.1" -> Zero
                     [] OTHER -> gc.offset
  OBVIOUS
<1>7. o \in Position
  <2>1. OffsetData(l, m, gc, eeprom) \in Position /\ Zero \in Position /\ gc.offset \in Position
    BY <1>2, <1>3, OffsetDataTyped DEF Zero, Position, GcStates
  <2>2. CASE m.nonModal = "G92"
    BY <1>6, <2>1, <2>2
  <2>3. CASE m.nonModal = "G92.1"
    BY <1>6, <2>1, <2>3
  <2>4. CASE m.nonModal \notin {"G92", "G92.1"}
    BY <1>6, <2>1, <2>4
  <2>5. QED
    BY <2>2, <2>3, <2>4
<1>8. PICK f \in Nat, s \in Nat, t \in Int :
        f = Feed(l, m, gc) /\ s = Speed(l, gc) /\ t = NewTlo(l, m)
  BY <1>1, <1>2, FeedTyped, NewTloTyped
<1>9. Taken(l, m) =
        [gc EXCEPT !.motion = m.motion, !.feedMode = m.feedMode, !.plane = m.plane,
                   !.distance = m.distance, !.units = m.units, !.coord = m.coord,
                   !.spindle = m.spindle, !.coolant = m.coolant,
                   !.feed = f, !.speed = s, !.tlo = t, !.system = y, !.offset = o]
  BY <1>4, <1>6, <1>8, ZenonT(60) DEF Taken
<1>10. PICK g : g = [gc EXCEPT !.motion = m.motion, !.feedMode = m.feedMode, !.plane = m.plane,
                               !.distance = m.distance, !.units = m.units]
  OBVIOUS
<1>11. g \in GcStates
  BY <1>3, <1>10 DEF GcStates
<1>12. PICK h : h = [g EXCEPT !.coord = m.coord, !.spindle = m.spindle, !.coolant = m.coolant]
  OBVIOUS
<1>13. h \in GcStates
  BY <1>3, <1>11, <1>12 DEF GcStates
<1>14. [h EXCEPT !.feed = f, !.speed = s, !.tlo = t, !.system = y, !.offset = o] \in GcStates
  BY <1>5, <1>7, <1>8, <1>13 DEF GcStates
<1>15. Taken(l, m) = [h EXCEPT !.feed = f, !.speed = s, !.tlo = t, !.system = y, !.offset = o]
  BY <1>9, <1>10, <1>12, Zenon
<1>16. QED
  BY <1>1, <1>14, <1>15

-----------------------------------------------------------------------------
(* The operations of a line have the operands they need. *)

LEMMA PlainTyped ==
  ASSUME NEW o, o.op \notin Steppers \cup {"write", "startup", "store"}
  PROVE  OpTyped(o)
BY DEF OpTyped

LEMMA SyncTyped == ASSUME NEW o, IsSync(o) PROVE OpTyped(o)
BY SyncOps, PlainTyped DEF Steppers

LEMMA OffsetOpTyped ==
  ASSUME NEW l, IsGcode(l), gc \in GcStates, EepromTyped(eeprom), Accepted(l, gc, eeprom),
         NEW o, IsOffsetOp(o, l, Modes(l, gc))
  PROVE  OpTyped(o)
<1>1. PICK m : m = Modes(l, gc)
  OBVIOUS
<1>2. gc.pos \in Position /\ IsWords(l)
  BY DEF GcStates, IsGcode
<1>3. m.nonModal = "G10" => SelectOf(l, m) \in Systems
  BY <1>1, <1>2, SelectTyped
<1>4. m.nonModal = "G10" => SystemData(l, m, gc, eeprom) \in Position
  BY <1>2, <1>3, SystemDataTyped
<1>5. ASSUME NEW r \in Records, NEW data \in Position PROVE OpTyped(WriteOf(r, data))
  BY DEF OpTyped, WriteOf, Steppers
<1>6. IsSync(o) \/ \E r \in Records, data \in Position : o = WriteOf(r, data)
  BY <1>1, <1>2, <1>3, <1>4 DEF IsOffsetOp, Records
<1>7. QED
  BY <1>5, <1>6, SyncTyped

LEMMA MoveTyped ==
  ASSUME NEW target \in Position, NEW last \in BOOLEAN
  PROVE  OpTyped(Move(target, last)) /\ OpTyped([Move(target, last) EXCEPT !.op = "place"])
BY DEF OpTyped, Move, Steppers

LEMMA MotionOpsTyped ==
  ASSUME NEW l, IsWords(l), gc \in GcStates, EepromTyped(eeprom), NEW m, m.coord \in Systems
  PROVE  OpsTyped(MotionOps(l, m))
<1>1. PICK x : x = Move(TargetOf(l, m, gc, eeprom), FALSE)
  OBVIOUS
<1>2. PICK y : y = Move(HomeOf(l, m, gc, eeprom), TRUE)
  OBVIOUS
<1>3. PICK z : z = Move(TargetOf(l, m, gc, eeprom), TRUE)
  OBVIOUS
<1>4. PICK p : p = [Move(TargetOf(l, m, gc, eeprom), TRUE) EXCEPT !.op = "place"]
  OBVIOUS
<1>5. OpTyped(x) /\ OpTyped(z) /\ OpTyped(p)
  BY <1>1, <1>3, <1>4, TargetTyped, MoveTyped
<1>6. PICK s : s = IF AxisWords(l) # {} THEN <<x>> ELSE <<>>
  OBVIOUS
<1>7. IsList(s) /\ \A o \in Items(s) : o = x
  BY <1>6, OneItem, EmptyList
<1>8. IsList(s \o <<y>>) /\ Items(s \o <<y>>) = Items(s) \cup {y}
  BY <1>7, OneItem, Concat
<1>9. CASE m.nonModal \in {"G28", "G30"}
  <2>1. OpTyped(y)
    <3>1. HomeOf(l, m, gc, eeprom) \in Position
      BY <1>9, HomeTyped
    <3>2. QED
      BY <1>2, <3>1, MoveTyped
  <2>2. MotionOps(l, m) = s \o <<y>>
    BY <1>1, <1>2, <1>6, <1>9, Zenon DEF MotionOps
  <2>3. QED
    BY <1>5, <1>7, <1>8, <2>1, <2>2 DEF OpsTyped
<1>10. CASE m.nonModal \notin {"G28", "G30"}
  <2>1. MotionOps(l, m) \in {<<>>, <<p>>, <<z>>}
    BY <1>3, <1>4, <1>10, Zenon DEF MotionOps
  <2>2. OpsTyped(<<>>) /\ OpsTyped(<<p>>) /\ OpsTyped(<<z>>)
    BY <1>5, OneItem, EmptyList DEF OpsTyped
  <2>3. QED
    BY <2>1, <2>2
<1>11. QED
  BY <1>9, <1>10

\* What a line that is executed leaves.
LEMMA ExecuteTyped ==
  ASSUME NEW l, IsGcode(l), NEW rest, IsList(rest), OpsTyped(rest),
         gc \in GcStates, EepromTyped(eeprom), Execute(l, rest)
  PROVE  gc' \in GcStates /\ OpsTyped(todo') /\ line' \in {NoLine, l}
<1>1. CASE ~Accepted(l, gc, eeprom)
  BY <1>1 DEF Execute
<1>2. CASE Accepted(l, gc, eeprom)
  <2>1. PICK m : m = Modes(l, gc)
    OBVIOUS
  <2>2. PICK a1 : a1 = SpindleOps(l, m, sys.state = "CHECK")
    OBVIOUS
  <2>3. PICK a2 : a2 = OffsetOps(l, m)
    OBVIOUS
  <2>4. PICK a3 : a3 = MotionOps(l, m)
    OBVIOUS
  <2>5. PICK b : b = FlowOps(m)
    OBVIOUS
  <2>6. gc' = Taken(l, m) /\ line' = l /\ todo' = (((a1 \o a2) \o a3) \o b) \o rest
    BY <1>2, <2>1, <2>2, <2>3, <2>4, <2>5 DEF Execute
  <2>7. IsList(a1) /\ IsList(a2) /\ IsList(a3) /\ IsList(b)
    BY <2>2, <2>3, <2>4, <2>5, SpindleOpsFacts, OffsetOpsFacts, MotionOpsFacts, FlowOpsFacts
  <2>8. IsList(a1 \o a2) /\ Items(a1 \o a2) = Items(a1) \cup Items(a2)
    BY <2>7, Concat
  <2>9. IsList((a1 \o a2) \o a3) /\ Items((a1 \o a2) \o a3) = Items(a1 \o a2) \cup Items(a3)
    BY <2>7, <2>8, Concat
  <2>10. /\ IsList(((a1 \o a2) \o a3) \o b)
         /\ Items(((a1 \o a2) \o a3) \o b) = Items((a1 \o a2) \o a3) \cup Items(b)
    BY <2>7, <2>9, Concat
  <2>11. Items(todo') = Items(((a1 \o a2) \o a3) \o b) \cup Items(rest)
    BY <2>6, <2>10, Concat
  <2>12. \A o \in Items(a1) : OpTyped(o)
    BY <2>2, SpindleOpsFacts, SyncTyped
  <2>13. \A o \in Items(a2) : OpTyped(o)
    BY <1>2, <2>1, <2>3, OffsetOpsFacts, OffsetOpTyped
  <2>14. \A o \in Items(a3) : OpTyped(o)
    <3>1. gc.coord \in Systems /\ IsWords(l)
      BY DEF GcStates, IsGcode
    <3>2. m.coord \in Systems
      BY <2>1, <3>1, ModesCoord
    <3>3. QED
      BY <2>4, <3>1, <3>2, MotionOpsTyped DEF OpsTyped
  <2>15. \A o \in Items(b) : OpTyped(o)
    BY <2>5, FlowOpsFacts, PlainTyped DEF IsFlowOp, Steppers
  <2>16. OpsTyped(todo')
    BY <2>8, <2>9, <2>10, <2>11, <2>12, <2>13, <2>14, <2>15 DEF OpsTyped
  <2>17. QED
    BY <1>2, <2>1, <2>6, <2>16, TakenTyped
<1>3. QED
  BY <1>1, <1>2

-----------------------------------------------------------------------------
(* The settings and the records. *)

LEMMA AssignedTyped ==
  ASSUME NEW s \in [Parameters -> Nat], NEW p, NEW v \in Int, SettingAccepted(s, p, v)
  PROVE  Assigned(s, p, v) \in [Parameters -> Nat]
<1>1. p \in Parameters /\ v \in Nat
  BY DEF SettingAccepted
<1>2. 20 \in Parameters /\ 22 \in Parameters
  BY DEF Parameters, Flags
<1>3. PICK w \in Nat : w = IF p \in Flags THEN IF v # 0 THEN 1 ELSE 0 ELSE v
  BY <1>1
<1>4. Assigned(s, p, v) = IF p = 22 /\ v = 0 THEN [s EXCEPT ![22] = 0, ![20] = 0] ELSE [s EXCEPT ![p] = w]
  BY <1>3 DEF Assigned
<1>5. [s EXCEPT ![p] = w] \in [Parameters -> Nat]
  BY <1>1
<1>6. [s EXCEPT ![22] = 0, ![20] = 0] \in [Parameters -> Nat]
  BY <1>2
<1>7. QED
  BY <1>4, <1>5, <1>6

LEMMA DefaultsTyped == Defaults \in [Parameters -> Nat]
<1>1. Travel \in Nat
  BY SettingsAssumption
<1>2. ASSUME NEW p \in Parameters PROVE Defaults[p] \in Nat
  <2>1. Defaults[p] = CASE p \in Flags -> 0 [] p = 0 -> 10 [] p = 30 -> 1000 [] OTHER -> Travel
    BY DEF Defaults
  <2>2. 0 \notin Flags /\ 30 \notin Flags
    BY DEF Flags
  <2>3. CASE p \in Flags
    BY <2>1, <2>2, <2>3
  <2>4. CASE p = 0
    BY <2>1, <2>2, <2>4
  <2>5. CASE p = 30
    BY <2>1, <2>2, <2>5
  <2>6. CASE p \notin Flags /\ p # 0 /\ p # 30
    BY <1>1, <2>1, <2>6
  <2>7. QED
    BY <2>3, <2>4, <2>5, <2>6
<1>3. Defaults = [p \in Parameters |-> Defaults[p]]
  BY DEF Defaults
<1>4. QED
  BY <1>2, <1>3

LEMMA NextSettingsTyped ==
  ASSUME settings \in [Parameters -> Nat], [Next]_vars
  PROVE  settings' \in [Parameters -> Nat]
<1>1. CASE settings' = settings
  BY <1>1
<1>2. CASE ~(\E l \in Lines : ReadLine(l))
  BY <1>1, <1>2, NextSettings
<1>3. CASE \E l \in Lines : ReadLine(l)
  <2>1. PICK l \in Lines : ReadLine(l)
    BY <1>3
  <2>2. CASE l.kind = "gcode"
    BY <1>1, <2>1, <2>2 DEF ReadLine, Refuse
  <2>3. CASE l.kind = "jog"
    BY <1>1, <2>1, <2>3 DEF ReadLine, Refuse
  <2>4. CASE l.kind = "startup"
    BY <1>1, <2>1, <2>4 DEF ReadLine, NewStartup, Refuse
  <2>5. CASE l.kind = "set"
    <3>1. l.v \in Int /\ StoreSetting(l)
      BY <2>1, <2>5, GcodeAssumption DEF ReadLine
    <3>2. CASE Refuse
      BY <1>1, <3>2 DEF Refuse
    <3>3. CASE ~Refuse
      <4>1. SettingAccepted(settings, l.p, l.v) /\ settings' = Assigned(settings, l.p, l.v)
        BY <3>1, <3>3 DEF StoreSetting
      <4>2. QED
        BY <3>1, <4>1, AssignedTyped
    <3>4. QED
      BY <3>2, <3>3
  <2>6. CASE l.kind = "command"
    <3>1. Command(l)
      BY <2>1, <2>6 DEF ReadLine
    <3>2. CASE CheckMode \/ Unlock \/ Home(l.arg)
      BY <1>1, <3>2 DEF CheckMode, Unlock, Home, Refuse
    <3>3. CASE RestoreDefaults(l.arg)
      <4>1. settings' \in {settings, Defaults}
        BY <3>3 DEF RestoreDefaults, RestoredSettings, Refuse
      <4>2. QED
        BY <4>1, DefaultsTyped
    <3>4. QED
      BY <3>1, <3>2, <3>3 DEF Command
  <2>7. l.kind \in {"gcode", "jog", "set", "startup", "command"}
    BY GcodeAssumption
  <2>8. QED
    BY <2>2, <2>3, <2>4, <2>5, <2>6, <2>7
<1>4. QED
  BY <1>2, <1>3

\* The operand of the operation at the head.
LEMMA HeadTyped ==
  ASSUME Lists, ListInv, OpsTyped(todo), todo # <<>>
  PROVE  OpTyped(Head(todo)) /\ OpsTyped(Tail(todo))
BY TailTame DEF OpsTyped

LEMMA WipedTyped == \A s \in [Parameters -> Nat] : EepromTyped(Wiped(s))
<1>1. SUFFICES ASSUME NEW s \in [Parameters -> Nat] PROVE EepromTyped(Wiped(s))
  OBVIOUS
<1>2. Zero \in Position
  BY DEF Zero, Position
<1>3. QED
  BY <1>2 DEF EepromTyped, Wiped

LEMMA NextEepromTyped ==
  ASSUME Lists, ListInv, TypeInv, [Next]_vars
  PROVE  EepromTyped(eeprom')
<1>1. EepromTyped(eeprom) /\ settings \in [Parameters -> Nat] /\ OpsTyped(todo)
  BY DEF TypeInv
<1>2. CASE eeprom' = eeprom
  BY <1>1, <1>2
<1>3. CASE Pass \/ AutoStart \/ Wait \/ SoftLimit \/ SoftWait \/ NoMove \/ Room \/ Plan
  BY <1>2, <1>3 DEF Pass, AutoStart, Wait, SoftLimit, SoftWait, NoMove, Room, Plan, stored
<1>4. CASE Place \/ Pause \/ Resumed \/ End \/ Startup \/ Reinitialize
  BY <1>2, <1>4 DEF Place, Pause, Resumed, End, Startup, Reinitialize, stored
<1>5. CASE Finish \/ ComeToRest \/ Request \/ UNCHANGED vars
  BY <1>2, <1>5 DEF Finish, ComeToRest, Request, vars, stored
<1>6. CASE \E l \in Lines : ReadLine(l)
  BY <1>2, <1>6, ReadLineCases
<1>7. CASE WriteRecord
  <2>1. PICK r, data : r = Head(todo).record /\ data = Head(todo).data
    OBVIOUS
  <2>2. todo # <<>> /\ Head(todo).op = "write" /\ eeprom' = [eeprom EXCEPT !.coords[r] = data]
    BY <1>7, <2>1 DEF WriteRecord, WithCoordinates, Next1
  <2>3. r \in Records /\ data \in Position
    BY <1>1, <2>1, <2>2, HeadTyped DEF OpTyped
  <2>4. QED
    BY <1>1, <2>2, <2>3 DEF EepromTyped
<1>8. CASE StoreStartup
  <2>1. PICK n, b : n = Head(todo).n /\ b = Head(todo).block
    OBVIOUS
  <2>2. todo # <<>> /\ Head(todo).op = "store" /\ eeprom' = [eeprom EXCEPT !.startup[n] = b]
    BY <1>8, <2>1 DEF StoreStartup, WithStartup, Next1
  <2>3. n \in StartupLines /\ IsGcode(b)
    BY <1>1, <2>1, <2>2, HeadTyped DEF OpTyped
  <2>4. QED
    BY <1>1, <2>2, <2>3 DEF EepromTyped
<1>9. CASE WriteGlobal
  <2>1. eeprom' = [eeprom EXCEPT !.global = settings]
    BY <1>9 DEF WriteGlobal, WithGlobal
  <2>2. QED
    BY <1>1, <2>1 DEF EepromTyped
<1>10. CASE Restore
  <2>1. PICK w : eeprom' = Restored(eeprom, w)
    BY <1>10 DEF Restore
  <2>2. Zero \in Position
    BY DEF Zero, Position
  <2>3. QED
    BY <1>1, <2>1, <2>2 DEF EepromTyped, Restored
<1>11. QED
  BY <1>3, <1>4, <1>5, <1>6, <1>7, <1>8, <1>9, <1>10 DEF Next

-----------------------------------------------------------------------------
(* The list and the parser. *)

LEMMA RunStartupTyped == OpsTyped(RunStartup)
<1>1. Len(RunStartup) = 2 /\ \A i \in 1 .. 2 : RunStartup[i] = [op |-> "startup", n |-> i - 1]
  BY DEF RunStartup
<1>2. \A i \in 1 .. 2 : OpTyped([op |-> "startup", n |-> i - 1])
  BY DEF OpTyped, Steppers, StartupLines
<1>3. QED
  BY <1>1, <1>2 DEF OpsTyped, Items

LEMMA ThenStoreTyped ==
  ASSUME NEW l, IsGcode(l), NEW n \in StartupLines
  PROVE  OpsTyped(ThenStore(n, l))
<1>1. OpTyped(StoreOp(n, l))
  BY DEF OpTyped, StoreOp, Steppers
<1>2. IsList(<<StoreOp(n, l)>>) /\ Items(<<StoreOp(n, l)>>) = {StoreOp(n, l)}
  BY OneItem
<1>3. Items(ThenStore(n, l)) = Items(Synchronize) \cup {StoreOp(n, l)}
  BY <1>2, SyncFacts, Concat DEF ThenStore
<1>4. QED
  BY <1>1, <1>3, SyncFacts, SyncTyped DEF OpsTyped

\* What a line leaves, however it is taken.
LEMMA ReadLineTyped ==
  ASSUME Lists, TypeInv, NEW l \in Lines, ReadLine(l)
  PROVE  gc' \in GcStates /\ OpsTyped(todo')
<1>1. /\ gc \in GcStates /\ EepromTyped(eeprom) /\ OpsTyped(todo) /\ OpsTyped(<<>>) /\ IsList(<<>>)
  BY EmptyList DEF TypeInv, OpsTyped
<1>2. CASE Nothing \/ LeavesCheck \/ EntersCheck \/ Unlocks
  BY <1>1, <1>2 DEF Nothing, LeavesCheck, EntersCheck, Unlocks
<1>3. CASE TakesGcode
  BY <1>1, <1>3, ExecuteTyped DEF TakesGcode
<1>4. CASE TakesJog
  <2>1. gc' = gc
    BY <1>4 DEF TakesJog
  <2>2. PICK o, k : /\ todo' = <<o>> /\ o.op = "move" /\ o.jog /\ o.last = TRUE
                    /\ IsWords(k) /\ o.target = TargetOf(k, Modes(k, gc), gc, eeprom)
    BY <1>4 DEF TakesJog
  <2>3. o.target \in Position
    <3>1. Modes(k, gc).coord \in Systems
      BY <1>1, ModesCoord DEF GcStates
    <3>2. QED
      BY <1>1, <2>2, <3>1, TargetTyped
  <2>4. o.jog \in BOOLEAN
    BY <2>2
  <2>5. OpTyped(o)
    BY <2>2, <2>3, <2>4 DEF OpTyped
  <2>6. Items(todo') = {o}
    BY <2>2, OneItem
  <2>7. QED
    BY <1>1, <2>1, <2>5, <2>6 DEF OpsTyped
<1>5. CASE TakesSetting
  BY <1>1, <1>5, PlainTyped DEF TakesSetting, Storing, OpsTyped, Steppers
<1>6. CASE TakesStartup
  <2>1. PICK k, n : IsGcode(k) /\ n \in StartupLines /\ Execute(k, ThenStore(n, k))
    BY <1>6 DEF TakesStartup
  <2>2. IsList(ThenStore(n, k)) /\ OpsTyped(ThenStore(n, k))
    BY <2>1, ThenStoreFacts, ThenStoreTyped
  <2>3. QED
    BY <1>1, <2>1, <2>2, ExecuteTyped
<1>7. CASE Homes
  BY <1>1, <1>7, RunStartupTyped DEF Homes
<1>8. QED
  BY <1>2, <1>3, <1>4, <1>5, <1>6, <1>7, ReadLineCases

LEMMA StartupTyped ==
  ASSUME Lists, ListInv, TypeInv, Startup
  PROVE  gc' \in GcStates /\ OpsTyped(todo')
<1>1. /\ gc \in GcStates /\ EepromTyped(eeprom) /\ OpsTyped(todo)
      /\ todo # <<>> /\ Head(todo).op = "startup"
  BY DEF TypeInv, Startup, Next1
<1>2. PICK n : n = Head(todo).n
  OBVIOUS
<1>3. n \in StartupLines /\ OpsTyped(Tail(todo)) /\ IsList(Tail(todo))
  BY <1>1, <1>2, HeadTyped, TailTame DEF OpTyped, Tame
<1>4. CASE eeprom.startup[n] = NoLine
  BY <1>1, <1>2, <1>3, <1>4 DEF Startup, Done
<1>5. CASE eeprom.startup[n] # NoLine
  <2>1. IsGcode(eeprom.startup[n])
    BY <1>1, <1>3, <1>5 DEF EepromTyped
  <2>2. Execute(eeprom.startup[n], Tail(todo))
    BY <1>2, <1>5 DEF Startup
  <2>3. QED
    BY <1>1, <1>3, <2>1, <2>2, ExecuteTyped
<1>6. QED
  BY <1>4, <1>5

LEMMA GcInitTyped ==
  ASSUME NEW e, EepromTyped(e), NEW p \in Position
  PROVE  GcInit(e, p) \in GcStates
<1>1. e.coords["G54"] \in Position /\ Zero \in Position
  BY DEF EepromTyped, Records, Systems, Zero, Position
<1>2. PICK c, z : c = e.coords["G54"] /\ z = Zero
  OBVIOUS
<1>3. PICK g : g = GcZero(e)
  OBVIOUS
<1>4. g = [motion |-> "G0", feedMode |-> "G94", plane |-> "G17", distance |-> "G90",
           units |-> "G21", coord |-> "G54", spindle |-> "M5", coolant |-> "M9",
           pos |-> z, system |-> c, offset |-> z, tlo |-> 0, feed |-> 0, speed |-> 0]
  BY <1>2, <1>3 DEF GcZero, Coordinates
<1>5. g \in GcStates
  BY <1>1, <1>2, <1>4 DEF GcStates, ModalGroups, Systems
<1>6. QED
  BY <1>3, <1>5 DEF GcInit, GcStates

\* Where a motion leaves the parser.
LEMMA PlacedTyped ==
  ASSUME gc \in GcStates, NEW o, OpTyped(o), o.op \in Steppers, Placed(o)
  PROVE  gc' \in GcStates
<1>1. o.target \in Position /\ o.last \in BOOLEAN
  BY DEF OpTyped
<1>2. CASE gc' = gc
  BY <1>2
<1>3. CASE gc' = [gc EXCEPT !.pos = o.target]
  BY <1>1, <1>3 DEF GcStates
<1>4. QED
  BY <1>1, <1>2, <1>3 DEF Placed

LEMMA NextGcTyped ==
  ASSUME Lists, ListInv, TypeInv, [Next]_vars
  PROVE  gc' \in GcStates
<1>1. gc \in GcStates /\ mpos \in Position /\ EepromTyped(eeprom) /\ OpsTyped(todo)
  BY DEF TypeInv
<1>2. CASE gc' = gc
  BY <1>1, <1>2
<1>3. CASE Pass
  <2>1. gc' = gc \/ gc' = [gc EXCEPT !.pos = mpos]
    BY <1>3 DEF Pass, RealtimePass
  <2>2. QED
    BY <1>1, <2>1 DEF GcStates
<1>4. CASE AutoStart \/ Wait \/ WriteRecord \/ SoftLimit \/ SoftWait \/ Room
  BY <1>2, <1>4 DEF AutoStart, Wait, WriteRecord, SoftLimit, SoftWait, Room
<1>5. CASE NoMove \/ Place \/ Plan
  <2>1. todo # <<>> /\ Head(todo).op \in Steppers
    BY <1>5 DEF NoMove, Place, Plan, Next1, Steppers
  <2>2. gc' = gc \/ Placed(Head(todo))
    BY <1>5 DEF NoMove, Place, Plan
  <2>3. QED
    BY <1>1, <1>2, <2>1, <2>2, HeadTyped, PlacedTyped
<1>6. CASE Pause \/ Resumed \/ StoreStartup \/ WriteGlobal \/ Restore
  BY <1>2, <1>6 DEF Pause, Resumed, StoreStartup, WriteGlobal, Restore
<1>7. CASE Finish \/ ComeToRest \/ Request \/ UNCHANGED vars
  BY <1>2, <1>7 DEF Finish, ComeToRest, Request, vars
<1>8. CASE End
  <2>1. PICK y : y = IF sys.state = "CHECK" THEN gc.system ELSE Coordinates(eeprom, "G54")
    OBVIOUS
  <2>2. y \in Position
    BY <1>1, <2>1 DEF GcStates, EepromTyped, Coordinates, Records, Systems
  <2>3. gc' = [gc EXCEPT !.motion = "G1", !.plane = "G17", !.distance = "G90", !.feedMode = "G94",
                         !.coord = "G54", !.spindle = "M5", !.coolant = "M9", !.system = y]
    BY <1>1, <1>8, <2>1 DEF End, GcStates
  <2>4. PICK g : g = [gc EXCEPT !.motion = "G1", !.plane = "G17", !.distance = "G90", !.feedMode = "G94"]
    OBVIOUS
  <2>5. g \in GcStates
    <3>1. /\ "G1" \in ModalGroups.G1 /\ "G17" \in ModalGroups.G2
          /\ "G90" \in ModalGroups.G3 /\ "G94" \in ModalGroups.G5
      BY DEF ModalGroups
    <3>2. QED
      BY <1>1, <2>4, <3>1 DEF GcStates
  <2>6. [g EXCEPT !.coord = "G54", !.spindle = "M5", !.coolant = "M9", !.system = y] \in GcStates
    <3>1. "G54" \in Systems /\ "M5" \in ModalGroups.M7 /\ "M9" \in ModalGroups.M8
      BY DEF ModalGroups, Systems
    <3>2. QED
      BY <2>2, <2>5, <3>1 DEF GcStates
  <2>7. QED
    BY <2>3, <2>4, <2>6, Zenon
<1>9. CASE Startup
  BY <1>9, StartupTyped
<1>10. CASE \E l \in Lines : ReadLine(l)
  BY <1>10, ReadLineTyped
<1>11. CASE Reinitialize
  <2>1. gc' = GcInit(eeprom, mpos)
    BY <1>11 DEF Reinitialize
  <2>2. QED
    BY <1>1, <2>1, GcInitTyped
<1>12. QED
  BY <1>3, <1>4, <1>5, <1>6, <1>7, <1>8, <1>9, <1>10, <1>11 DEF Next

LEMMA RenamedTyped ==
  ASSUME NEW p, NEW n, n \in Steppers, todo # <<>>, OpTyped(Head(todo)), Head(todo).op \in Steppers,
         IsRenamed(p, n)
  PROVE  OpTyped(p)
BY DEF OpTyped, IsRenamed, Steppers

LEMMA NextOpsTyped ==
  ASSUME Lists, ListInv, TypeInv, [Next]_vars
  PROVE  OpsTyped(todo')
<1>1. OpsTyped(todo)
  BY DEF TypeInv
<1>2. CASE todo' = todo
  BY <1>1, <1>2
<1>3. CASE todo # <<>> /\ Done
  BY <1>1, <1>3, HeadTyped DEF Done
<1>4. CASE ToPlan
  <2>1. todo # <<>> /\ Head(todo).op = "move"
    BY <1>4 DEF ToPlan, Next1
  <2>2. OpTyped(Head(todo)) /\ OpsTyped(Tail(todo))
    BY <1>1, <2>1, HeadTyped
  <2>3. PICK p : IsRenamed(p, "plan") /\ Items(todo') = {p} \cup Items(Tail(todo))
    BY <1>4 DEF ToPlan, IsCons
  <2>4. OpTyped(p)
    BY <2>1, <2>2, <2>3, RenamedTyped DEF Steppers
  <2>5. QED
    BY <2>2, <2>3, <2>4 DEF OpsTyped
<1>5. CASE ToSoftWait
  <2>1. PICK w : w.op = "softWait" /\ Items(todo') = {w} \cup Items(todo)
    BY <1>5 DEF ToSoftWait, IsCons
  <2>2. OpTyped(w)
    BY <2>1, PlainTyped DEF Steppers
  <2>3. QED
    BY <1>1, <2>1, <2>2 DEF OpsTyped
<1>6. CASE ToPlace
  <2>1. todo # <<>> /\ Head(todo).op = "plan"
    BY <1>6 DEF ToPlace, Next1
  <2>2. OpTyped(Head(todo)) /\ OpsTyped(Tail(todo))
    BY <1>1, <2>1, HeadTyped
  <2>3. PICK p : /\ IsRenamed(p, "place")
                 /\ \A o \in Items(todo') : IsSync(o) \/ o = p \/ o \in Items(Tail(todo))
    BY <1>6 DEF ToPlace
  <2>4. OpTyped(p)
    BY <2>1, <2>2, <2>3, RenamedTyped DEF Steppers
  <2>5. QED
    BY <2>2, <2>3, <2>4, SyncTyped DEF OpsTyped
<1>7. CASE Startup
  BY <1>7, StartupTyped
<1>8. CASE \E l \in Lines : ReadLine(l)
  BY <1>8, ReadLineTyped
<1>9. CASE Reinitialize
  BY <1>9, RunStartupTyped, EmptyList DEF Reinitialize, OpsTyped
<1>10. QED
  BY <1>2, <1>3, <1>4, <1>5, <1>6, <1>7, <1>8, <1>9, TodoCases

-----------------------------------------------------------------------------
(* The positions and the planner. *)

LEMMA NextPlanTyped ==
  ASSUME Lists, ListInv, TypeInv, [Next]_vars
  PROVE  plan' \in Position
<1>1. plan \in Position /\ mpos \in Position /\ OpsTyped(todo)
  BY DEF TypeInv
<1>2. CASE Pass
  BY <1>1, <1>2 DEF Pass, RealtimePass
<1>3. CASE AutoStart \/ Wait \/ WriteRecord \/ SoftLimit \/ SoftWait \/ NoMove \/ Room \/ Place
  BY <1>1, <1>3 DEF AutoStart, Wait, WriteRecord, SoftLimit, SoftWait, NoMove, Room, Place
<1>4. CASE Pause \/ Resumed \/ End \/ Startup \/ StoreStartup \/ WriteGlobal \/ Restore
  BY <1>1, <1>4 DEF Pause, Resumed, End, Startup, StoreStartup, WriteGlobal, Restore
<1>5. CASE Reinitialize \/ Finish \/ ComeToRest \/ Request \/ UNCHANGED vars
  BY <1>1, <1>5 DEF Reinitialize, Finish, ComeToRest, Request, vars
<1>6. CASE \E l \in Lines : ReadLine(l)
  BY <1>1, <1>6, ReadLineCases
<1>7. CASE Plan
  <2>1. todo # <<>> /\ Head(todo).op = "plan" /\ plan' = Head(todo).target
    BY <1>7 DEF Plan, Next1
  <2>2. QED
    BY <1>1, <2>1, HeadTyped DEF OpTyped, Steppers
<1>8. QED
  BY <1>2, <1>3, <1>4, <1>5, <1>6, <1>7 DEF Next

LEMMA AppendItems ==
  ASSUME NEW s, IsList(s), NEW x
  PROVE  \A o \in Items(Append(s, x)) : o \in Items(s) \/ o = x
<1>1. PICK S : s \in Seq(S)
  BY DEF IsList
<1>2. s \in Seq(S \cup {x}) /\ x \in S \cup {x}
  BY <1>1
<1>3. /\ Len(Append(s, x)) = Len(s) + 1 /\ Len(s) \in Nat
      /\ \A i \in 1 .. Len(s) : Append(s, x)[i] = s[i]
      /\ Append(s, x)[Len(s) + 1] = x
  BY <1>2
<1>4. \A i \in 1 .. Len(s) + 1 : i \in 1 .. Len(s) \/ i = Len(s) + 1
  BY <1>3
<1>5. QED
  BY <1>3, <1>4 DEF Items

LEMMA NextQueueTyped ==
  ASSUME Lists, ListInv, TypeInv, [Next]_vars
  PROVE  QueueTyped(queue') /\ mpos' \in Position
<1>1. QueueTyped(queue) /\ mpos \in Position /\ OpsTyped(todo)
  BY DEF TypeInv
<1>2. queue # <<>> => Head(queue) \in Items(queue) /\ Items(Tail(queue)) \subseteq Items(queue)
  BY HeadAndTail DEF Lists
<1>3. mpos' \in Position
  <2>1. CASE mpos' = mpos
    BY <1>1, <2>1
  <2>2. CASE queue # <<>> /\ mpos' = Head(queue).target
    BY <1>1, <1>2, <2>2 DEF QueueTyped
  <2>3. CASE Finish \/ ComeToRest
    BY <2>1, <2>2, <2>3 DEF Finish, ComeToRest
  <2>4. QED
    BY <2>1, <2>3, OnlySteppedMoves
<1>4. QueueTyped(queue')
  <2>1. CASE queue' = queue
    BY <1>1, <2>1
  <2>2. CASE queue' = <<>>
    BY <2>2, EmptyList DEF QueueTyped
  <2>3. CASE queue # <<>> /\ queue' = Tail(queue)
    BY <1>1, <1>2, <2>3 DEF QueueTyped
  <2>4. CASE Plan
    <3>1. todo # <<>> /\ Head(todo).op = "plan"
      BY <2>4 DEF Plan, Next1
    <3>2. PICK x : x = [target |-> Head(todo).target, jog |-> Head(todo).jog]
      OBVIOUS
    <3>3. queue' = queue \/ queue' = Append(queue, x)
      BY <2>4, <3>2 DEF Plan
    <3>4. x.target \in Position /\ x.jog \in BOOLEAN
      BY <1>1, <3>1, <3>2, HeadTyped DEF OpTyped, Steppers
    <3>5. CASE queue' = Append(queue, x)
      <4>1. \A o \in Items(queue') : o \in Items(queue) \/ o = x
        BY <3>5, AppendItems DEF Lists
      <4>2. QED
        BY <1>1, <3>4, <4>1 DEF QueueTyped
    <3>6. QED
      BY <2>1, <3>3, <3>5
  <2>5. QED
    BY <2>1, <2>2, <2>3, <2>4, QueueCases
<1>5. QED
  BY <1>3, <1>4

LEMMA NextTypeInv ==
  ASSUME Lists, ListInv, TypeInv, [Next]_vars
  PROVE  TypeInv'
<1>1. settings' \in [Parameters -> Nat] /\ EepromTyped(eeprom')
  BY NextSettingsTyped, NextEepromTyped DEF TypeInv
<1>2. gc' \in GcStates /\ OpsTyped(todo')
  BY NextGcTyped, NextOpsTyped
<1>3. plan' \in Position /\ mpos' \in Position /\ QueueTyped(queue')
  BY NextPlanTyped, NextQueueTyped
<1>4. QED
  BY <1>1, <1>2, <1>3 DEF TypeInv, EepromTyped, QueueTyped, OpsTyped

\* mc_line hands a motion to the planner only when there is room for it.
RoomInv == /\ Len(queue) <= BlockSlots
           /\ Next1("plan") => Len(queue) < BlockSlots

LEMMA NextRoomInv ==
  ASSUME Lists, ListInv, StoredInv, RoomInv, [Next]_vars
  PROVE  RoomInv'
<1>1. BlockSlots \in Nat \ {0} /\ Len(queue) \in Nat /\ Len(queue') \in Nat
  <2>1. Lists'
    BY NextLists
  <2>2. QED
    BY <2>1, GcodeAssumption DEF Lists, IsList
<1>2. Plan => Next1("plan") /\ ~Next1("plan")'
  <2>1. SUFFICES ASSUME Plan PROVE ~Next1("plan")'
    BY DEF Plan
  <2>2. todo # <<>>
    BY <2>1 DEF Plan, Next1
  <2>3. Tame(todo')
    BY <2>1, <2>2, DoneFacts, LaserFacts DEF ToPlace
  <2>4. QED
    BY <2>3, TameList
<1>3. CASE Plan
  <2>1. Len(queue) < BlockSlots /\ Len(queue') <= Len(queue) + 1
    <3>1. PICK x : x = [target |-> Head(todo).target, jog |-> Head(todo).jog]
      OBVIOUS
    <3>2. queue' = queue \/ queue' = Append(queue, x)
      BY <1>3, <3>1 DEF Plan
    <3>3. PICK S : queue \in Seq(S)
      BY DEF Lists, IsList
    <3>4. queue \in Seq(S \cup {x}) /\ x \in S \cup {x}
      BY <3>3
    <3>5. Len(Append(queue, x)) = Len(queue) + 1
      BY <3>4
    <3>6. QED
      BY <1>1, <1>2, <1>3, <3>2, <3>5 DEF RoomInv
  <2>2. QED
    BY <1>1, <1>2, <1>3, <2>1 DEF RoomInv
<1>4. CASE ~Plan
  <2>1. Len(queue') <= Len(queue)
    BY <1>4, OnlyPlanGrows
  <2>2. Next1("plan")' => Len(queue') < BlockSlots
    <3>1. SUFFICES ASSUME Next1("plan")' PROVE Len(queue') < BlockSlots
      OBVIOUS
    <3>2. CASE Next1("plan")
      BY <1>1, <2>1, <3>2 DEF RoomInv
    <3>3. CASE Room /\ todo' # todo
      <4>1. Len(queue) # BlockSlots
        BY <3>3 DEF Room, Full
      <4>2. QED
        BY <1>1, <2>1, <4>1 DEF RoomInv
    <3>4. ToPlan => todo' # todo
      BY <3>1 DEF ToPlan, Next1
    <3>5. QED
      BY <3>1, <3>2, <3>3, <3>4, PlanNext
  <2>3. QED
    BY <1>1, <2>1, <2>2 DEF RoomInv
<1>5. QED
  BY <1>3, <1>4

LEMMA NextEvents ==
  ASSUME events \in 0 .. MaxEvents, [Next]_vars
  PROVE  events' \in 0 .. MaxEvents
<1>1. CASE events' = events
  BY <1>1
<1>2. CASE events < MaxEvents /\ events' = events + 1
  BY <1>2, GcodeAssumption
<1>3. CASE Pass \/ AutoStart \/ Wait \/ WriteRecord \/ SoftLimit \/ SoftWait \/ NoMove \/ Room
  BY <1>1, <1>3 DEF Pass, AutoStart, Wait, WriteRecord, SoftLimit, SoftWait, NoMove, Room
<1>4. CASE Plan \/ Place \/ Pause \/ Resumed \/ End \/ Startup \/ StoreStartup \/ WriteGlobal
  BY <1>1, <1>4 DEF Plan, Place, Pause, Resumed, End, Startup, StoreStartup, WriteGlobal
<1>5. CASE Restore \/ Reinitialize \/ Finish \/ ComeToRest \/ Request \/ UNCHANGED vars
  BY <1>1, <1>2, <1>5 DEF Restore, Reinitialize, Finish, ComeToRest, Request, vars
<1>6. CASE \E l \in Lines : ReadLine(l)
  BY <1>2, <1>6 DEF ReadLine
<1>7. QED
  BY <1>3, <1>4, <1>5, <1>6 DEF Next

TypedInv == TypeInv /\ RoomInv /\ events \in 0 .. MaxEvents

LEMMA InitTyped == ASSUME Init PROVE TypedInv
<1>1. /\ settings \in [Parameters -> Nat] /\ eeprom = Wiped(settings) /\ gc = GcInit(eeprom, Zero)
      /\ plan = Zero /\ mpos = Zero /\ queue = <<>> /\ todo = <<>> /\ events = 0
  BY GcodeAssumption DEF Init
<1>2. EepromTyped(eeprom) /\ Zero \in Position
  BY <1>1, WipedTyped DEF Zero, Position
<1>3. gc \in GcStates
  BY <1>1, <1>2, GcInitTyped
<1>4. QueueTyped(queue) /\ OpsTyped(todo) /\ Len(queue) = 0 /\ ~Next1("plan")
  BY <1>1, EmptyList DEF QueueTyped, OpsTyped, Next1
<1>5. QED
  BY <1>1, <1>2, <1>3, <1>4, GcodeAssumption DEF TypedInv, TypeInv, RoomInv

LEMMA NextTyped == ASSUME IInv, TypedInv, [Next]_vars PROVE TypedInv'
BY NextTypeInv, NextRoomInv, NextEvents DEF IInv, TypedInv

LEMMA Typed == Spec => [](IInv /\ TypedInv)
BY InitHolds, NextHolds, InitTyped, NextTyped, PTL DEF Spec

\* Settings, records, modes, positions and lists keep their types, whatever
\* lines are sent (gc_execute_line, settings_store_global_setting, the EEPROM).
THEOREM TypeCorrect == Spec => []TypeOK
<1>1. IInv /\ TypedInv => TypeOK
  <2>1. SUFFICES ASSUME IInv, TypedInv PROVE TypeOK
    OBVIOUS
  <2>2. Len(queue) \in Nat /\ DOMAIN queue = 1 .. Len(queue)
    BY <2>1 DEF IInv, Lists, IsList
  <2>3. \A i \in DOMAIN queue : queue[i].target \in Position /\ queue[i].jog \in BOOLEAN
    BY <2>1, <2>2 DEF TypedInv, TypeInv, QueueTyped, Items
  <2>4. /\ sys \in [state : States, suspend : {"none", "complete", "cancel"},
                    soft : BOOLEAN, abort : BOOLEAN]
        /\ exec \subseteq {"FeedHold", "CycleStart", "CycleStop", "Reset", "Alarm"}
        /\ running \in BOOLEAN
    BY <2>1 DEF IInv, StateInv
  <2>5. QED
    BY <2>1, <2>3, <2>4 DEF TypedInv, TypeInv, EepromTyped, RoomInv, TypeOK
<1>2. QED
  BY <1>1, Typed, PTL

-----------------------------------------------------------------------------
(* The commands of a line that is accepted. *)

\* Two words of a line that may have only one of a set are the same.
LEMMA OneOf ==
  ASSUME NEW l, IsWords(l), NEW S, Count(l, S) <= 1,
         NEW c, c \in Codes(l) \cap S, NEW d, d \in Codes(l) \cap S
  PROVE  c = d
<1>1. PICK n \in Nat : n = Len(l.codes) /\ DOMAIN l.codes = 1 .. n
  BY DEF IsWords
<1>2. PICK i \in 1 .. n, j \in 1 .. n : l.codes[i] = c /\ l.codes[j] = d
  BY <1>1 DEF Codes
<1>3. PICK T : T = {k \in DOMAIN l.codes : l.codes[k] \in S}
  OBVIOUS
<1>4. T \in SUBSET (1 .. n) /\ i \in T /\ j \in T
  BY <1>1, <1>2, <1>3
<1>5. IsFiniteSet(T)
  <2>1. 1 \in Int /\ n \in Int
    OBVIOUS
  <2>2. IsFiniteSet(1 .. n)
    BY <2>1, FS_Interval
  <2>3. QED
    BY <1>4, <2>2, FS_Subset
<1>6. Cardinality(T) <= 1
  BY <1>3 DEF Count
<1>7. IsFiniteSet(T \ {i}) /\ Cardinality(T \ {i}) = Cardinality(T) - 1
  BY <1>4, <1>5, FS_RemoveElement
<1>8. Cardinality(T) \in Nat /\ Cardinality(T \ {i}) \in Nat
  BY <1>5, <1>7, FS_CardinalityType
<1>9. Cardinality(T \ {i}) = 0
  BY <1>6, <1>7, <1>8
<1>10. T \ {i} = {}
  BY <1>7, <1>9, FS_EmptySet
<1>11. QED
  BY <1>2, <1>4, <1>10

\* A line with G92 or G10 has no other non-modal command, and none that lays
\* claim to its axis words.
LEMMA OnlyNonModal ==
  ASSUME NEW l, IsGcode(l), NEW g, NEW e, Accepted(l, g, e),
         NEW c, c \in {"G92", "G10"}, c \in Codes(l)
  PROVE  /\ Modes(l, g).nonModal = c
         /\ AxisCommand(l) = "nonModal"
         /\ "G49" \notin Codes(l) /\ "G43.1" \notin Codes(l)
<1>1. IsWords(l) /\ CommandsFit(l)
  BY DEF IsGcode, Accepted
<1>2. Modes(l, g).nonModal = c
  <2>1. "G0" \in DOMAIN ModalGroups /\ c \in ModalGroups["G0"]
    BY DEF ModalGroups
  <2>2. Count(l, ModalGroups["G0"]) <= 1
    BY <1>1, <2>1 DEF CommandsFit
  <2>3. c \in Codes(l) \cap ModalGroups["G0"]
    BY <2>1
  <2>4. PICK d : d = CHOOSE x \in ModalGroups["G0"] : x \in Codes(l)
    OBVIOUS
  <2>5. d \in Codes(l) \cap ModalGroups["G0"]
    BY <2>3, <2>4
  <2>6. c = d
    BY <1>1, <2>2, <2>3, <2>5, OneOf
  <2>7. Named(l, "G0", "none") = d
    BY <2>3, <2>4 DEF Named
  <2>8. QED
    BY <2>6, <2>7 DEF Modes
<1>3. PICK U : U = UNION {AxisCommands[k] : k \in DOMAIN AxisCommands}
  OBVIOUS
<1>4. /\ DOMAIN AxisCommands = {"nonModal", "motion", "length"}
      /\ c \in AxisCommands["nonModal"] /\ c \notin AxisCommands["motion"] /\ c \notin AxisCommands["length"]
      /\ AxisCommands["length"] = {"G43.1", "G49"}
  BY DEF AxisCommands, ModalGroups, Probes
<1>5. ASSUME NEW k \in DOMAIN AxisCommands, NEW d \in Codes(l) \cap AxisCommands[k]
      PROVE  k = "nonModal" /\ d = c
  <2>1. Count(l, U) <= 1
    BY <1>1, <1>3 DEF CommandsFit
  <2>2. c \in Codes(l) \cap U /\ d \in Codes(l) \cap U
    BY <1>3, <1>4, <1>5
  <2>3. c = d
    BY <1>1, <2>1, <2>2, OneOf
  <2>4. QED
    BY <1>4, <1>5, <2>3
<1>6. "G49" \notin Codes(l) /\ "G43.1" \notin Codes(l)
  BY <1>4, <1>5
<1>7. AxisCommand(l) = "nonModal"
  <2>1. \E k \in DOMAIN AxisCommands : Codes(l) \cap AxisCommands[k] # {}
    BY <1>4
  <2>2. \A k \in DOMAIN AxisCommands : Codes(l) \cap AxisCommands[k] # {} => k = "nonModal"
    BY <1>5
  <2>3. PICK k : k = CHOOSE x \in DOMAIN AxisCommands : Codes(l) \cap AxisCommands[x] # {}
    OBVIOUS
  <2>4. k = "nonModal"
    BY <2>1, <2>2, <2>3
  <2>5. QED
    BY <2>1, <2>3, <2>4 DEF AxisCommand
<1>8. QED
  BY <1>2, <1>6, <1>7

-----------------------------------------------------------------------------
(* The work position after G92 and G10 L20. *)

\* Nothing that is left moves the axes or ends the program.
Unmoved == \A o \in Items(todo) : o.op \notin Steppers \cup {"end"}

\* From the line on the parser's position shows the programmed values, and only
\* the line itself could change them.
ZeroInv ==
  Zeroes(line) =>
    /\ Unmoved
    /\ \A a \in AxisWords(line) : gc.pos[a] - Wco(a) = Length(line, gc, a)

\* Nothing is jogged on behalf of a line of g-code.
JogKind == sys.state = "JOG" => line.kind # "gcode"

LEMMA NoEndOps ==
  ASSUME NEW m, m.flow \notin {"M2", "M30"}
  PROVE  \A o \in Items(FlowOps(m)) : o.op \in {"start", "wait", "pause", "check"}
<1>1. PICK s : s = <<Op("pause"), Op("check")>>
  OBVIOUS
<1>2. IsList(s) /\ \A o \in Items(s) : o.op \in {"pause", "check"}
  <2>1. s \in Seq({Op("pause"), Op("check")}) /\ Len(s) = 2 /\ s[1] = Op("pause") /\ s[2] = Op("check")
    BY <1>1
  <2>2. \A i \in 1 .. 2 : i = 1 \/ i = 2
    OBVIOUS
  <2>3. QED
    BY <2>1, <2>2 DEF IsList, Items, Op
<1>3. Items(Synchronize \o s) = Items(Synchronize) \cup Items(s)
  BY <1>2, SyncFacts, Concat
<1>4. FlowOps(m) = IF m.flow = "M0" THEN Synchronize \o s ELSE <<>>
  BY <1>1 DEF FlowOps
<1>5. QED
  BY <1>2, <1>3, <1>4, SyncFacts, SyncOps, EmptyList

\* The line that is executed is the one that Zeroes speaks of.
LEMMA SameSelect ==
  ASSUME NEW l, NEW g, NEW h, h.coord = Modes(l, g).coord
  PROVE  Modes(l, h).coord = Modes(l, g).coord
<1>1. CASE Codes(l) \cap ModalGroups["G12"] = {}
  BY <1>1 DEF Modes, Named
<1>2. CASE Codes(l) \cap ModalGroups["G12"] # {}
  BY <1>2 DEF Modes, Named
<1>3. QED
  BY <1>1, <1>2

\* What such a line takes over.
LEMMA TakenOffsets ==
  ASSUME NEW l, NEW m, gc \in GcStates
  PROVE  LET t == Taken(l, m)
         IN /\ t.pos = gc.pos /\ t.coord = m.coord /\ t.units = m.units /\ t.tlo = NewTlo(l, m)
            /\ t.system = IF m.nonModal = "G10" /\ SelectOf(l, m) = m.coord
                          THEN SystemData(l, m, gc, eeprom) ELSE BlockSystem(m, gc, eeprom)
            /\ m.nonModal = "G92" => t.offset = OffsetData(l, m, gc, eeprom)
            /\ m.nonModal = "G10" => t.offset = gc.offset
<1>1. PICK y : y = IF m.nonModal = "G10" /\ SelectOf(l, m) = m.coord
                   THEN SystemData(l, m, gc, eeprom) ELSE BlockSystem(m, gc, eeprom)
  OBVIOUS
<1>2. PICK o : o = CASE m.nonModal = "G92" -> OffsetData(l, m, gc, eeprom)
                     [] m.nonModal = "G92.1" -> Zero
                     [] OTHER -> gc.offset
  OBVIOUS
<1>3. PICK f, s, t : t = NewTlo(l, m) /\ Taken(l, m) =
        [gc EXCEPT !.motion = m.motion, !.feedMode = m.feedMode, !.plane = m.plane,
                   !.distance = m.distance, !.units = m.units, !.coord = m.coord,
                   !.spindle = m.spindle, !.coolant = m.coolant,
                   !.feed = f, !.speed = s, !.tlo = t, !.system = y, !.offset = o]
  BY <1>1, <1>2, ZenonT(60) DEF Taken
<1>4. {"pos", "coord", "units", "tlo", "system", "offset"} \subseteq DOMAIN gc
  BY DEF GcStates
<1>5. /\ Taken(l, m).pos = gc.pos /\ Taken(l, m).coord = m.coord /\ Taken(l, m).units = m.units
      /\ Taken(l, m).tlo = t /\ Taken(l, m).system = y /\ Taken(l, m).offset = o
  BY <1>3, <1>4
<1>6. /\ m.nonModal = "G92" => o = OffsetData(l, m, gc, eeprom)
      /\ m.nonModal = "G10" => o = gc.offset
  BY <1>2
<1>7. QED
  BY <1>1, <1>3, <1>5, <1>6

\* The offsets of a line that zeroes its axes.
LEMMA ZeroesThere ==
  ASSUME NEW l, IsGcode(l), gc \in GcStates, EepromTyped(eeprom), Accepted(l, gc, eeprom),
         gc' = Taken(l, Modes(l, gc)),
         NEW c, c \in {"G92", "G10"}, c \in Codes(l),
         c = "G10" => Value(l, "L") = 20 /\ SelectOf(l, Modes(l, gc)) = Modes(l, gc).coord
  PROVE  \A a \in AxisWords(l) : gc'.pos[a] - Wco(a)' = Length(l, gc', a)
<1>1. PICK m : m = Modes(l, gc)
  OBVIOUS
<1>2. IsWords(l) /\ l.kind = "gcode" /\ m.coord \in Systems
  BY <1>1, ModesTyped DEF IsGcode
<1>3. m.nonModal = c /\ NewTlo(l, m) = gc.tlo
  <2>1. m.nonModal = c /\ "G49" \notin Codes(l) /\ "G43.1" \notin Codes(l)
    BY <1>1, OnlyNonModal
  <2>2. QED
    BY <2>1 DEF NewTlo
<1>4. PICK b : b = BlockSystem(m, gc, eeprom)
  OBVIOUS
<1>5. /\ gc'.pos = gc.pos /\ gc'.units = m.units /\ gc'.tlo = gc.tlo
      /\ c = "G92" => gc'.system = b /\ gc'.offset = OffsetData(l, m, gc, eeprom)
      /\ c = "G10" => gc'.system = SystemData(l, m, gc, eeprom) /\ gc'.offset = gc.offset
  BY <1>1, <1>3, <1>4, TakenOffsets
<1>6. /\ b \in Position /\ gc.pos \in Position /\ gc.offset \in Position
  BY <1>2, <1>4, BlockSystemTyped DEF GcStates
<1>7. SUFFICES ASSUME NEW a \in AxisWords(l) PROVE gc'.pos[a] - Wco(a)' = Length(l, gc', a)
  OBVIOUS
<1>8. a \in Axes
  BY DEF AxisWords
<1>9. PICK n \in Int, t \in Int : n = Length(l, m, a) /\ t = ToolOffset(gc, a)
  BY <1>2, LengthTyped, ToolTyped
<1>10. /\ Length(l, gc', a) = n
       /\ Wco(a)' = gc'.system[a] + gc'.offset[a] + t
  <2>1. Factor(gc') = Factor(m)
    BY <1>5 DEF Factor
  <2>2. Length(l, gc', a) = n
    BY <1>9, <2>1 DEF Length
  <2>3. (IF a = "Z" THEN gc'.tlo ELSE 0) = t
    BY <1>5, <1>9 DEF ToolOffset
  <2>4. QED
    BY <2>2, <2>3 DEF Wco
<1>11. b[a] \in Int /\ gc.pos[a] \in Int /\ gc.offset[a] \in Int
  BY <1>6, <1>8, AxisTyped
<1>12. CASE c = "G92"
  <2>1. OffsetData(l, m, gc, eeprom)[a] = gc.pos[a] - b[a] - n - t
    BY <1>4, <1>8, <1>9 DEF OffsetData
  <2>2. QED
    BY <1>5, <1>9, <1>10, <1>11, <1>12, <2>1
<1>13. CASE c = "G10"
  <2>1. SystemData(l, m, gc, eeprom)[a] = gc.pos[a] - gc.offset[a] - n - t
    BY <1>8, <1>9, <1>13 DEF SystemData
  <2>2. QED
    BY <1>5, <1>9, <1>10, <1>11, <1>13, <2>1
<1>14. QED
  BY <1>12, <1>13

\* What is left of a line that is accepted, and of what was left before.
LEMMA ExecuteItems ==
  ASSUME NEW l, NEW m, m = Modes(l, gc), NEW rest, IsList(rest), Execute(l, rest), Accepted(l, gc, eeprom)
  PROVE  /\ gc' = Taken(l, m) /\ line' = l
         /\ \A o \in Items(todo') : \/ o.op \in {"start", "wait", "write"}
                                   \/ o \in Items(MotionOps(l, m)) \/ o \in Items(FlowOps(m))
                                   \/ o \in Items(rest)
<1>1. PICK a1 : a1 = SpindleOps(l, m, sys.state = "CHECK")
  OBVIOUS
<1>2. PICK a2 : a2 = OffsetOps(l, m)
  OBVIOUS
<1>3. PICK a3 : a3 = MotionOps(l, m)
  OBVIOUS
<1>4. PICK b : b = FlowOps(m)
  OBVIOUS
<1>5. gc' = Taken(l, m) /\ line' = l /\ todo' = (((a1 \o a2) \o a3) \o b) \o rest
  BY <1>1, <1>2, <1>3, <1>4 DEF Execute
<1>6. IsList(a1) /\ IsList(a2) /\ IsList(a3) /\ IsList(b)
  BY <1>1, <1>2, <1>3, <1>4, SpindleOpsFacts, OffsetOpsFacts, MotionOpsFacts, FlowOpsFacts
<1>7. \A o \in Items(a1) \cup Items(a2) : o.op \in {"start", "wait", "write"}
  BY <1>1, <1>2, SpindleOpsFacts, OffsetOpsFacts, OffsetOpFresh, SyncOps
<1>8. IsList(a1 \o a2) /\ Items(a1 \o a2) = Items(a1) \cup Items(a2)
  BY <1>6, Concat
<1>9. IsList((a1 \o a2) \o a3) /\ Items((a1 \o a2) \o a3) = Items(a1 \o a2) \cup Items(a3)
  BY <1>6, <1>8, Concat
<1>10. /\ IsList(((a1 \o a2) \o a3) \o b)
       /\ Items(((a1 \o a2) \o a3) \o b) = Items((a1 \o a2) \o a3) \cup Items(b)
  BY <1>6, <1>9, Concat
<1>11. Items(todo') = Items(((a1 \o a2) \o a3) \o b) \cup Items(rest)
  BY <1>5, <1>10, Concat
<1>12. QED
  BY <1>3, <1>4, <1>5, <1>7, <1>8, <1>9, <1>10, <1>11

\* Only M2 and M30 leave the change to G54 to be made.
Ends(l) == Codes(l) \cap {"M2", "M30"} # {}
EndLine == (\E o \in Items(todo) : o.op = "end") => Ends(line)

LEMMA ExecuteEnd ==
  ASSUME NEW l, NEW rest, IsList(rest), \A o \in Items(rest) : o.op # "end", Execute(l, rest)
  PROVE  EndLine'
<1>1. CASE ~Accepted(l, gc, eeprom)
  BY <1>1 DEF Execute, EndLine
<1>2. CASE Accepted(l, gc, eeprom)
  <2>1. PICK m : m = Modes(l, gc)
    OBVIOUS
  <2>2. /\ line' = l
        /\ \A o \in Items(todo') : \/ o.op \in {"start", "wait", "write"}
                                  \/ o \in Items(MotionOps(l, m)) \/ o \in Items(FlowOps(m))
                                  \/ o \in Items(rest)
    BY <1>2, <2>1, ExecuteItems
  <2>3. SUFFICES ASSUME ~Ends(l) PROVE \A o \in Items(todo') : o.op # "end"
    BY <2>2 DEF EndLine
  <2>4. m.flow \notin {"M2", "M30"}
    <3>1. Named(l, "M4", "none") \in Codes(l) \cup {"none"}
      BY NamedIn
    <3>2. QED
      BY <2>1, <2>3, <3>1 DEF Modes, Ends
  <2>5. \A o \in Items(FlowOps(m)) : o.op # "end"
    BY <2>4, NoEndOps
  <2>6. \A o \in Items(MotionOps(l, m)) : o.op # "end"
    BY MotionOpsFacts DEF IsMotionOp
  <2>7. QED
    BY <2>2, <2>5, <2>6
<1>3. QED
  BY <1>1, <1>2

\* A line that is executed zeroes its axes if it has to, and nothing that it
\* leaves moves them or changes to G54.
LEMMA ExecuteZeroes ==
  ASSUME NEW l, IsGcode(l), gc \in GcStates, EepromTyped(eeprom), NEW rest, IsList(rest),
         \A o \in Items(rest) : o.op \notin Steppers \cup {"end"}, Execute(l, rest)
  PROVE  ZeroInv'
<1>1. CASE ~Accepted(l, gc, eeprom)
  BY <1>1 DEF Execute, ZeroInv, Zeroes, NoLine
<1>2. CASE Accepted(l, gc, eeprom)
  <2>1. PICK m : m = Modes(l, gc)
    OBVIOUS
  <2>2. /\ gc' = Taken(l, m) /\ line' = l
        /\ \A o \in Items(todo') : \/ o.op \in {"start", "wait", "write"}
                                  \/ o \in Items(MotionOps(l, m)) \/ o \in Items(FlowOps(m))
                                  \/ o \in Items(rest)
    BY <1>2, <2>1, ExecuteItems
  <2>3. SUFFICES ASSUME Zeroes(line)'
                 PROVE  /\ Unmoved'
                        /\ \A a \in AxisWords(l) : gc'.pos[a] - Wco(a)' = Length(l, gc', a)
    BY <2>2 DEF ZeroInv
  <2>4. /\ ~Ends(l)
        /\ \/ "G92" \in Codes(l)
           \/ "G10" \in Codes(l) /\ Value(l, "L") = 20 /\ SelectOf(l, Modes(l, gc')) = gc'.coord
    BY <2>2, <2>3 DEF Zeroes, Ends
  <2>5. gc'.coord = m.coord
    BY <2>2, TakenOffsets
  <2>6. SelectOf(l, Modes(l, gc')) = SelectOf(l, m)
    <3>1. Modes(l, gc').coord = m.coord
      BY <2>1, <2>5, SameSelect
    <3>2. QED
      BY <3>1 DEF SelectOf
  <2>7. PICK c : /\ c \in {"G92", "G10"} /\ c \in Codes(l)
                 /\ c = "G10" => Value(l, "L") = 20 /\ SelectOf(l, m) = m.coord
    BY <2>4, <2>5, <2>6
  <2>8. \A a \in AxisWords(l) : gc'.pos[a] - Wco(a)' = Length(l, gc', a)
    BY <1>2, <2>1, <2>2, <2>7, ZeroesThere
  <2>9. \A o \in Items(MotionOps(l, m)) : FALSE
    <3>1. m.nonModal = c /\ AxisCommand(l) = "nonModal"
      BY <1>2, <2>1, <2>7, OnlyNonModal
    <3>2. MotionOps(l, m) = <<>>
      BY <2>7, <3>1 DEF MotionOps
    <3>3. QED
      BY <3>2, EmptyList
  <2>10. \A o \in Items(FlowOps(m)) : o.op \in {"start", "wait", "pause", "check"}
    <3>1. Named(l, "M4", "none") \in Codes(l) \cup {"none"}
      BY NamedIn
    <3>2. m.flow \notin {"M2", "M30"}
      BY <2>1, <2>4, <3>1 DEF Modes, Ends
    <3>3. QED
      BY <3>2, NoEndOps
  <2>11. Unmoved'
    BY <2>2, <2>9, <2>10 DEF Unmoved, Steppers
  <2>12. QED
    BY <2>8, <2>11
<1>3. QED
  BY <1>1, <1>2

LEMMA NextLine ==
  ASSUME [Next]_vars
  PROVE  line' = line \/ Startup \/ (\E l \in Lines : ReadLine(l)) \/ Reinitialize
<1>1. CASE Pass \/ AutoStart \/ Wait \/ WriteRecord \/ SoftLimit \/ SoftWait \/ NoMove \/ Room
  BY <1>1 DEF Pass, AutoStart, Wait, WriteRecord, SoftLimit, SoftWait, NoMove, Room
<1>2. CASE Plan \/ Place \/ Pause \/ Resumed \/ End \/ StoreStartup \/ WriteGlobal \/ Restore
  BY <1>2 DEF Plan, Place, Pause, Resumed, End, StoreStartup, WriteGlobal, Restore
<1>3. CASE Finish \/ ComeToRest \/ Request \/ UNCHANGED vars
  BY <1>3 DEF Finish, ComeToRest, Request, vars
<1>4. QED
  BY <1>1, <1>2, <1>3 DEF Next

LEMMA NextJogKind ==
  ASSUME Lists, ListInv, StateInv, RunInv, TravelInv, JogLine, JogKind, [Next]_vars
  PROVE  JogKind'
<1>1. SUFFICES ASSUME sys'.state = "JOG" PROVE line'.kind # "gcode"
  BY DEF JogKind
<1>2. CASE line' = NoLine
  BY <1>2 DEF NoLine
<1>3. CASE \E l \in Lines : ReadLine(l)
  <2>1. CASE TakesGcode \/ TakesStartup
    BY <1>1, <2>1 DEF TakesGcode, TakesStartup
  <2>2. CASE TakesJog
    BY <2>2 DEF TakesJog
  <2>3. CASE Nothing \/ TakesSetting \/ LeavesCheck \/ EntersCheck \/ Unlocks \/ Homes
    BY <1>2, <2>3 DEF Nothing, TakesSetting, LeavesCheck, EntersCheck, Unlocks, Homes
  <2>4. QED
    BY <1>3, <2>1, <2>2, <2>3, ReadLineCases
<1>4. CASE ~(\E l \in Lines : ReadLine(l))
  <2>1. sys.state = "JOG" \/ (todo # <<>> /\ IsJogOp(Head(todo)))
    BY <1>1, <1>4, JogState
  <2>2. todo # <<>> => Head(todo) \in Items(todo)
    BY TailTame
  <2>3. CASE line' = line
    BY <2>1, <2>2, <2>3 DEF JogKind, JogLine
  <2>4. CASE Startup
    <3>1. todo # <<>> /\ Head(todo).op = "startup"
      BY <2>4 DEF Startup, Next1
    <3>2. ~IsJogOp(Head(todo))
      BY <3>1 DEF IsJogOp, Steppers
    <3>3. QED
      BY <2>1, <2>2, <3>1, <3>2 DEF TravelInv
  <2>5. CASE Reinitialize
    BY <1>2, <2>5 DEF Reinitialize
  <2>6. QED
    BY <1>4, <2>3, <2>4, <2>5, NextLine
<1>5. QED
  BY <1>3, <1>4

\* A startup line, or none in its record.
LEMMA StartupExecutes ==
  ASSUME Lists, ListInv, StoredInv, TypeInv, Startup
  PROVE  /\ IsList(Tail(todo)) /\ \A o \in Items(Tail(todo)) : o.op = "startup"
         /\ \/ line' = NoLine /\ todo' = Tail(todo)
            \/ \E l : IsGcode(l) /\ Execute(l, Tail(todo))
<1>1. todo # <<>> /\ Head(todo).op = "startup" /\ OpsTyped(todo) /\ EepromTyped(eeprom)
  BY DEF Startup, Next1, TypeInv
<1>2. IsList(Tail(todo)) /\ \A o \in Items(Tail(todo)) : o.op = "startup"
  BY <1>1, TailTame, StartupFacts DEF Tame
<1>3. PICK n : n = Head(todo).n
  OBVIOUS
<1>4. n \in StartupLines
  BY <1>1, <1>3, HeadTyped DEF OpTyped
<1>5. CASE eeprom.startup[n] = NoLine
  BY <1>2, <1>3, <1>5 DEF Startup, Done
<1>6. CASE eeprom.startup[n] # NoLine
  <2>1. IsGcode(eeprom.startup[n])
    BY <1>1, <1>4, <1>6 DEF EepromTyped
  <2>2. Execute(eeprom.startup[n], Tail(todo))
    BY <1>3, <1>6 DEF Startup
  <2>3. QED
    BY <1>2, <2>1, <2>2
<1>7. QED
  BY <1>5, <1>6

\* A line of g-code that is read.
LEMMA ReadExecutes ==
  ASSUME NEW l \in Lines, ReadLine(l)
  PROVE  \/ line' = NoLine \/ line'.kind = "jog"
         \/ \E k, rest : /\ IsGcode(k) /\ Execute(k, rest) /\ IsList(rest)
                         /\ \A o \in Items(rest) : o.op \in {"start", "wait", "store"}
<1>1. CASE TakesGcode
  BY <1>1, EmptyList DEF TakesGcode
<1>2. CASE TakesStartup
  BY <1>2, ThenStoreFacts DEF TakesStartup
<1>3. CASE TakesJog
  BY <1>3 DEF TakesJog
<1>4. CASE Nothing \/ TakesSetting \/ LeavesCheck \/ EntersCheck \/ Unlocks \/ Homes
  BY <1>4 DEF Nothing, TakesSetting, LeavesCheck, EntersCheck, Unlocks, Homes
<1>5. QED
  BY <1>1, <1>2, <1>3, <1>4, ReadLineCases

\* Without a new line only the operation at the head is replaced.
LEMMA NothingNew ==
  ASSUME Lists, ListInv, [Next]_vars, ~Startup, ~(\E l \in Lines : ReadLine(l)), ~Reinitialize
  PROVE  \A o \in Items(todo') : \/ o \in Items(todo)
                                \/ o.op \in {"start", "wait", "softWait"}
                                \/ /\ o.op \in Steppers
                                   /\ todo # <<>> /\ Head(todo).op \in Steppers
<1>1. CASE todo' = todo
  BY <1>1
<1>2. CASE todo # <<>> /\ Done
  BY <1>2, DoneFacts
<1>3. CASE ToPlan
  <2>1. PICK p : IsRenamed(p, "plan") /\ Items(todo') = {p} \cup Items(Tail(todo))
    BY <1>3 DEF ToPlan, IsCons
  <2>2. todo # <<>> /\ Head(todo).op = "move"
    BY <1>3 DEF ToPlan, Next1
  <2>3. QED
    BY <2>1, <2>2, TailTame DEF IsRenamed, Steppers
<1>4. CASE ToSoftWait
  BY <1>4 DEF ToSoftWait, IsCons
<1>5. CASE ToPlace
  <2>1. PICK p : /\ IsRenamed(p, "place")
                 /\ \A o \in Items(todo') : IsSync(o) \/ o = p \/ o \in Items(Tail(todo))
    BY <1>5 DEF ToPlace
  <2>2. todo # <<>> /\ Head(todo).op = "plan"
    BY <1>5 DEF ToPlace, Next1
  <2>3. QED
    BY <2>1, <2>2, TailTame, SyncOps DEF IsRenamed, Steppers
<1>6. QED
  BY <1>1, <1>2, <1>3, <1>4, <1>5, TodoCases

LEMMA NextEndLine ==
  ASSUME Lists, ListInv, StoredInv, TypeInv, EndLine, [Next]_vars
  PROVE  EndLine'
<1>1. CASE \E l \in Lines : ReadLine(l)
  <2>1. PICK l \in Lines : ReadLine(l)
    BY <1>1
  <2>2. CASE \A o \in Items(todo') : o.op # "end"
    BY <2>2 DEF EndLine
  <2>3. CASE TakesGcode \/ TakesStartup
    <3>1. PICK k, rest : /\ Execute(k, rest) /\ IsList(rest)
                         /\ \A o \in Items(rest) : o.op \in {"start", "wait", "store"}
      BY <2>3, EmptyList, ThenStoreFacts DEF TakesGcode, TakesStartup
    <3>2. QED
      BY <3>1, ExecuteEnd
  <2>4. CASE TakesJog
    <3>1. PICK o : todo' = <<o>> /\ o.op = "move"
      BY <2>4 DEF TakesJog
    <3>2. QED
      BY <2>2, <3>1, OneItem
  <2>5. CASE TakesSetting
    BY <2>2, <2>5 DEF TakesSetting, Storing
  <2>6. todo = <<>>
    BY <2>1, ReadLineCases
  <2>7. CASE Nothing \/ LeavesCheck \/ EntersCheck \/ Unlocks \/ Homes
    <3>1. todo' = <<>> \/ todo' = RunStartup
      BY <2>6, <2>7 DEF Nothing, LeavesCheck, EntersCheck, Unlocks, Homes
    <3>2. QED
      BY <2>2, <3>1, EmptyList, RunStartupFacts
  <2>8. QED
    BY <2>1, <2>3, <2>4, <2>5, <2>7, ReadLineCases
<1>2. CASE Startup
  <2>1. CASE todo' = Tail(todo)
    BY <1>2, <2>1, StartupExecutes DEF EndLine
  <2>2. QED
    BY <1>2, <2>1, StartupExecutes, ExecuteEnd
<1>3. CASE Reinitialize
  BY <1>3, EmptyList, RunStartupFacts DEF Reinitialize, EndLine
<1>4. CASE line' = line /\ ~Startup /\ ~(\E l \in Lines : ReadLine(l)) /\ ~Reinitialize
  <2>1. \A o \in Items(todo') : o.op = "end" => o \in Items(todo)
    BY <1>4, NothingNew DEF Steppers
  <2>2. QED
    BY <1>4, <2>1 DEF EndLine
<1>5. QED
  BY <1>1, <1>2, <1>3, <1>4, NextLine

\* Without a new line the parser's state changes only in a motion, at the end
\* of a program, or when a jog is flushed.
LEMMA ParserStays ==
  ASSUME Lists, StateInv, RunInv, CancelInv, [Next]_vars, ~Startup, ~(\E l \in Lines : ReadLine(l)),
         ~Reinitialize, sys.state # "JOG",
         todo # <<>> => Head(todo).op \notin Steppers \cup {"end"}
  PROVE  gc' = gc
<1>1. CASE Pass
  BY <1>1, PassPositions DEF PassPlaces
<1>2. CASE NoMove \/ Plan \/ Place \/ End
  BY <1>2 DEF NoMove, Plan, Place, End, Next1, Steppers
<1>3. CASE AutoStart \/ Wait \/ WriteRecord \/ SoftLimit \/ SoftWait \/ Room
  BY <1>3 DEF AutoStart, Wait, WriteRecord, SoftLimit, SoftWait, Room
<1>4. CASE Pause \/ Resumed \/ StoreStartup \/ WriteGlobal \/ Restore
  BY <1>4 DEF Pause, Resumed, StoreStartup, WriteGlobal, Restore
<1>5. CASE Finish \/ ComeToRest \/ Request \/ UNCHANGED vars
  BY <1>5 DEF Finish, ComeToRest, Request, vars
<1>6. QED
  BY <1>1, <1>2, <1>3, <1>4, <1>5 DEF Next

LEMMA NextZeroInv ==
  ASSUME IInv, TypedInv, CancelInv, JogKind, EndLine, ZeroInv, [Next]_vars
  PROVE  ZeroInv'
<1>1. /\ Lists /\ ListInv /\ StateInv /\ RunInv /\ StoredInv
      /\ TypeInv /\ gc \in GcStates /\ EepromTyped(eeprom)
  BY DEF IInv, TypedInv, TypeInv
<1>2. CASE line' = NoLine \/ line'.kind = "jog"
  BY <1>2 DEF ZeroInv, Zeroes, NoLine
<1>3. CASE \E l \in Lines : ReadLine(l)
  <2>1. PICK l \in Lines : ReadLine(l)
    BY <1>3
  <2>2. CASE \E k, rest : /\ IsGcode(k) /\ Execute(k, rest) /\ IsList(rest)
                         /\ \A o \in Items(rest) : o.op \in {"start", "wait", "store"}
    BY <1>1, <2>2, ExecuteZeroes DEF Steppers
  <2>3. QED
    BY <1>2, <2>1, <2>2, ReadExecutes
<1>4. CASE Startup
  <2>1. CASE \E l : IsGcode(l) /\ Execute(l, Tail(todo))
    BY <1>1, <1>4, <2>1, StartupExecutes, ExecuteZeroes DEF Steppers
  <2>2. QED
    BY <1>1, <1>2, <1>4, <2>1, StartupExecutes
<1>5. CASE Reinitialize
  BY <1>2, <1>5 DEF Reinitialize
<1>6. CASE line' = line /\ ~Startup /\ ~(\E l \in Lines : ReadLine(l)) /\ ~Reinitialize
  <2>1. SUFFICES ASSUME Zeroes(line)'
                 PROVE  /\ Unmoved'
                        /\ \A a \in AxisWords(line) : gc'.pos[a] - Wco(a)' = Length(line, gc', a)
    BY <1>6 DEF ZeroInv
  <2>2. line.kind = "gcode" /\ ~Ends(line)
    BY <1>6, <2>1 DEF Zeroes, Ends
  <2>3. sys.state # "JOG" /\ \A o \in Items(todo) : o.op # "end"
    BY <2>2 DEF JogKind, EndLine
  <2>4. gc' = gc /\ Zeroes(line) /\ Unmoved
    <3>1. CASE Zeroes(line)
      <4>1. Unmoved
        BY <3>1 DEF ZeroInv
      <4>2. todo # <<>> => Head(todo).op \notin Steppers \cup {"end"}
        BY <1>1, <4>1, TailTame DEF Unmoved
      <4>3. QED
        BY <1>1, <1>6, <2>3, <3>1, <4>1, <4>2, ParserStays
    <3>2. Zeroes(line)
      <4>1. gc'.coord = gc.coord
        <5>1. ~Tells \/ WriteRecord \/ Restore
          <6>1. ~End
            BY <1>1, <2>3, TailTame DEF End, Next1
          <6>2. QED
            BY <1>6, <6>1 DEF Tells
        <5>2. CASE ~Tells
          BY <1>1, <5>2, NextSystem
        <5>3. CASE WriteRecord \/ Restore
          BY <5>3 DEF WriteRecord, Restore
        <5>4. QED
          BY <5>1, <5>2, <5>3
      <4>2. SelectOf(line, Modes(line, gc')) = SelectOf(line, Modes(line, gc))
        BY <4>1 DEF SelectOf, Modes
      <4>3. QED
        BY <1>6, <2>1, <4>1, <4>2 DEF Zeroes
    <3>3. QED
      BY <3>1, <3>2
  <2>5. \A a \in AxisWords(line) : gc'.pos[a] - Wco(a)' = Length(line, gc', a)
    BY <2>4 DEF ZeroInv, Wco
  <2>6. Unmoved'
    <3>1. todo # <<>> => Head(todo).op \notin Steppers
      BY <1>1, <2>4, TailTame DEF Unmoved
    <3>2. QED
      BY <1>1, <1>6, <2>4, <3>1, NothingNew DEF Unmoved, Steppers
  <2>7. QED
    BY <2>5, <2>6
<1>7. QED
  BY <1>3, <1>4, <1>5, <1>6, NextLine

WorkInv == JogKind /\ EndLine /\ ZeroInv

LEMMA InitWork == ASSUME Init PROVE WorkInv
<1>1. line.kind = "none" /\ todo = <<>> /\ sys.state = "IDLE"
  BY DEF Init, NoLine
<1>2. QED
  BY <1>1, EmptyList DEF WorkInv, JogKind, EndLine, ZeroInv, Zeroes

LEMMA NextWork ==
  ASSUME IInv, TypedInv, CancelInv, JogLine, WorkInv, [Next]_vars
  PROVE  WorkInv'
<1>1. JogKind'
  BY NextJogKind DEF IInv, WorkInv
<1>2. EndLine'
  BY NextEndLine DEF IInv, TypedInv, WorkInv
<1>3. ZeroInv'
  BY NextZeroInv DEF WorkInv
<1>4. QED
  BY <1>1, <1>2, <1>3 DEF WorkInv

LEMMA Zeroed == Spec => []ZeroInv
<1>1. WorkInv => ZeroInv
  BY DEF WorkInv
<1>2. QED
  BY <1>1, Typed, QueueEnds, InitWork, NextWork, PTL DEF Spec

\* After G92, or G10 L20 of the active system, and when the machine has come
\* to rest, a status report shows the programmed values, whatever system, tool
\* length and unit were in force (gc_execute_line, report_realtime_status).
THEOREM WorkZeroShown == Spec /\ [](NoLaserJog /\ NoProbing) => []WorkZero
<1>1. ASSUME ZeroInv, PositionsAgree PROVE WorkZero
  BY <1>1 DEF ZeroInv, PositionsAgree, AtRest, WorkZero
<1>2. QED
  BY <1>1, Zeroed, PositionsKept, PTL
=============================================================================
