-------------------------- MODULE GrblSuspendProofs --------------------------
(***************************************************************************)
(* Proofs about GrblSuspend: for every size of planner and segment ring,   *)
(* every set of spindle speeds and every range of the override.            *)
(***************************************************************************)
EXTENDS GrblSuspend, Induction

-----------------------------------------------------------------------------
(* Types. *)

States == {"IDLE", "CYCLE", "HOLD", "DOOR", "SLEEP", "ALARM"}
SuspendBits == {"HoldComplete", "RetractComplete", "InitiateRestore", "RestoreComplete",
                "RestartRetract", "DoorAjar"}
Kinds == {"none", "cut", "start", "stop", "speed", "end", "ended"}

Systems == [state : States, suspend : SUBSET SuspendBits,
            stepControl : SUBSET {"Hold", "EndMotion", "UpdatePwm"},
            spindleStop : SUBSET {"Enabled", "Initiate", "Restore", "RestoreCycle"},
            speed : 0 .. RpmMax * Default, override : MinOverride .. MaxOverride]
Blocks == [on : BOOLEAN, rpm : Rpms \cup {0}, left : 1 .. 2]
Motions == [queue : Seq(Blocks), loaded : BOOLEAN, segs : 0 .. SegmentSlots, on : BOOLEAN]

Types ==
  /\ sys \in Systems
  /\ motion \in Motions /\ Len(motion.queue) <= BlockSlots
  /\ flags \subseteq {"CycleStart", "CycleStop", "FeedHold", "SafetyDoor", "Sleep", "Abort", "Alarm"}
  /\ accessory \subseteq OverrideBits
  /\ modal \in Spindle /\ restore \in Spindle
  /\ laser \in BOOLEAN /\ asked \in BOOLEAN
  /\ cmd \in [kind : Kinds, rpm : Rpms \cup {0}]
  /\ pc \in Calling \cup {"check", "suspend", "restoring"}

-----------------------------------------------------------------------------
(* The inductive invariant. *)

Suspended == {"suspend", "suspendPass", "asleep", "restoring"}

\* The user has stopped the spindle of a hold.
Off(s) == s.spindleStop \cap {"Enabled", "Restore", "RestoreCycle"} # {}

\* What states, suspend bits and spindle stops go together.
Coherent(s) ==
  /\ s.state \in {"IDLE", "CYCLE", "ALARM"} => s.suspend = {}
  /\ s.state = "HOLD" => s.suspend \subseteq {"HoldComplete"}
  /\ s.state = "DOOR" => s.suspend \cap {"HoldComplete", "DoorAjar"} # {}
  /\ s.state = "SLEEP" => "HoldComplete" \in s.suspend
  /\ s.state \in {"HOLD", "DOOR"} /\ "HoldComplete" \notin s.suspend => "Hold" \in s.stepControl
  /\ s.spindleStop # {} => s.state \in {"HOLD", "DOOR"}
  /\ s.state = "ALARM" => s.speed = 0

\* The order in which a door is handled.
Retracted(s) ==
  /\ "RetractComplete" \in s.suspend => /\ s.state \in {"DOOR", "SLEEP"}
                                        /\ "HoldComplete" \in s.suspend
                                        /\ "RestartRetract" \notin s.suspend
                                        /\ s.spindleStop = {}
  /\ "InitiateRestore" \in s.suspend => s.state = "DOOR" /\ "RetractComplete" \in s.suspend
  /\ "RestoreComplete" \in s.suspend => "InitiateRestore" \in s.suspend

\* A stopped spindle stands still.  Nothing can start it, because nothing is
\* left to prepare.
Stopped(s, m) ==
  Off(s) => "HoldComplete" \in s.suspend /\ s.speed = 0 /\ Full(s, m)
Open(s, m) ==
  "RetractComplete" \in s.suspend =>
    Full(s, m) /\ ("RestoreComplete" \notin s.suspend => s.speed = 0)

\* Blocks that are being cut, and the interrupt.
Cutting(s, m) ==
  /\ m.loaded => m.queue # <<>>
  /\ s.state = "ALARM" => m.queue = <<>>
  /\ m.on => "HoldComplete" \notin s.suspend /\ s.state \in {"CYCLE", "HOLD", "DOOR"}

\* The spindle runs as r says, unless a stop or a door has it off.
Runs(x) == x.on /\ x.rpm > 0
Runs_as(s, r) ==
  ~Off(s) /\ (s.state \in {"DOOR", "SLEEP"} => "RestoreComplete" \in s.suspend)
    => (s.speed > 0) = r
Queued_as(m, r) == \A i \in 1 .. Len(m.queue) : Runs(m.queue[i]) = r

Core(s, m) == /\ Coherent(s) /\ Retracted(s) /\ Stopped(s, m) /\ Cutting(s, m)

PcInv ==
  /\ sys.suspend # {} <=> pc \in Suspended
  /\ pc = "loop" => cmd = NoCmd
  /\ sys.state = "ALARM" => pc = "loop"
  /\ pc = "asleep" => sys.state = "SLEEP"
  /\ pc = "restoring" => "InitiateRestore" \in sys.suspend /\ ~laser
  /\ pc = "suspendPass" /\ "HoldComplete" \in sys.suspend => "Initiate" \notin sys.spindleStop

FlagInv ==
  /\ "Sleep" \in flags => sys.state \in {"IDLE", "ALARM"}
  /\ "CycleStop" \in flags => /\ ~motion.on
                              /\ "HoldComplete" \notin sys.suspend
                              /\ sys.state \in {"CYCLE", "HOLD", "DOOR"}

SysInv ==
  /\ Core(sys, motion)
  /\ pc # "restoring" => Open(sys, motion)
  /\ "HoldComplete" \in sys.suspend => Full(sys, motion)

\* A cycle start that can end a stop was asked for.
AskedInv ==
  /\ "CycleStart" \in flags /\ sys.suspend # {} => asked
  /\ "Abort" \in flags => asked
  /\ "InitiateRestore" \in sys.suspend => asked
  /\ "RestoreCycle" \in sys.spindleStop => pc = "suspend" /\ sys.state = "HOLD" /\ asked

SpindleInv ==
  /\ cmd.kind = "ended" => motion.queue = <<>> /\ ~modal.on
  /\ ~laser =>
       /\ Queued_as(motion, Runs(modal))
       /\ sys.suspend # {} => Runs(restore) = Runs(modal)
       /\ cmd.kind \in {"cut", "start"} => cmd.rpm = modal.rpm
       /\ cmd.kind # "ended" => Runs_as(sys, Runs(modal))
       /\ pc = "restoring" => (sys.speed > 0) = Runs(modal)

IInv == Types /\ PcInv /\ FlagInv /\ SysInv /\ AskedInv /\ SpindleInv

-----------------------------------------------------------------------------
(* The spindle. *)

LEMMA Scales ==
  ASSUME NEW rpm \in Rpms \cup {0}, NEW ovr \in MinOverride .. MaxOverride
  PROVE  Scaled(rpm, ovr) \in 0 .. RpmMax * Default /\ (Scaled(rpm, ovr) > 0 <=> rpm > 0)
<1>1. /\ rpm \in Nat /\ ovr \in Nat /\ ovr > 0 /\ Default \in Nat /\ Default > 0
      /\ RpmMin \in Nat /\ RpmMax \in Nat /\ RpmMin < RpmMax
  BY SuspendAssumption
<1>2. PICK lo, hi, v : lo = RpmMin * Default /\ hi = RpmMax * Default /\ v = rpm * ovr
  OBVIOUS
<1>3. lo \in Nat /\ hi \in Nat /\ v \in Nat
  BY <1>1, <1>2
<1>4. rpm > 0 => v > 0
  BY <1>1, <1>2
<1>5. hi > 0 /\ lo <= hi
  <2>1. hi = lo + (RpmMax - RpmMin) * Default
    BY <1>1, <1>2
  <2>2. PICK d : d = RpmMax - RpmMin
    OBVIOUS
  <2>3. d \in Nat /\ d > 0 /\ hi = lo + d * Default
    BY <1>1, <2>1, <2>2
  <2>4. \A a, b \in Nat : a * b \in Nat /\ (a > 0 /\ b > 0 => a * b > 0)
    OBVIOUS
  <2>5. d * Default \in Nat /\ d * Default > 0
    BY <1>1, <2>3, <2>4
  <2>6. QED
    BY <1>3, <2>3, <2>5
<1>6. QED
  BY <1>1, <1>2, <1>3, <1>4, <1>5 DEF Scaled, Clamp

\* What preparing segments, and setting the spindle, leave alone.
Same(s, t) == /\ t.state = s.state /\ t.suspend = s.suspend
              /\ t.spindleStop = s.spindleStop /\ t.override = s.override
              /\ "Hold" \in t.stepControl <=> "Hold" \in s.stepControl

LEMMA Sets ==
  ASSUME NEW s \in Systems, NEW on \in BOOLEAN, NEW rpm \in Rpms \cup {0}
  PROVE  /\ SpindleSet(s, on, rpm) \in Systems
         /\ Same(s, SpindleSet(s, on, rpm))
         /\ SpindleSet(s, on, rpm).stepControl = s.stepControl
         /\ SpindleSet(s, on, rpm).speed > 0 <=> on /\ rpm > 0
<1>1. PICK v : v = IF on THEN Scaled(rpm, s.override) ELSE 0
  OBVIOUS
<1>2. s.override \in MinOverride .. MaxOverride
  BY DEF Systems
<1>3. v \in 0 .. RpmMax * Default /\ (v > 0 <=> on /\ rpm > 0)
  <2>1. 0 \in 0 .. RpmMax * Default
    BY <1>2, Scales, SuspendAssumption
  <2>2. QED
    BY <1>1, <1>2, <2>1, Scales
<1>4. SpindleSet(s, on, rpm) = [s EXCEPT !.speed = v]
  BY <1>1 DEF SpindleSet
<1>5. QED
  BY <1>3, <1>4 DEF Systems, Same

-----------------------------------------------------------------------------
(* Preparing segments. *)

\* The blocks are used up from the front, and when all agree with the speed,
\* they still do.
Carries(s, m, t, n) ==
  /\ Len(n.queue) <= Len(m.queue)
  /\ (m.loaded => m.queue # <<>>) => (n.loaded => n.queue # <<>>)
  /\ \A r \in BOOLEAN : Queued_as(m, r) =>
       Queued_as(n, r) /\ ((s.speed > 0) = r => (t.speed > 0) = r)

\* c is what s and m may become.
Prepared(s, m, c) ==
  /\ c.s \in Systems /\ c.m \in Motions
  /\ Same(s, c.s) /\ c.m.on = m.on
  /\ Carries(s, m, c.s, c.m)

LEMMA FirstBlock ==
  ASSUME NEW m \in Motions, m.queue # <<>>
  PROVE  /\ Head(m.queue) = m.queue[1] /\ m.queue[1] \in Blocks /\ Len(m.queue) >= 1
         /\ Len(m.queue) \in Nat
  BY DEF Motions

LEMMA Updates ==
  ASSUME NEW s \in Systems, NEW m \in Motions, m.queue # <<>>
  PROVE  /\ Updated(s, m) \in Systems
         /\ Same(s, Updated(s, m))
         /\ \A r \in BOOLEAN : Queued_as(m, r) /\ (s.speed > 0) = r => (Updated(s, m).speed > 0) = r
<1>1. PICK b : b = Head(m.queue)
  OBVIOUS
<1>2. b \in Blocks /\ b.on \in BOOLEAN /\ b.rpm \in Rpms \cup {0}
  BY <1>1, FirstBlock DEF Blocks
<1>3. \A r \in BOOLEAN : Queued_as(m, r) => Runs(b) = r
  BY <1>1, FirstBlock DEF Queued_as
<1>4. PICK u : u = SpindleSet(s, b.on, b.rpm)
  OBVIOUS
<1>5. /\ u \in Systems /\ Same(s, u) /\ u.stepControl = s.stepControl
      /\ u.speed > 0 <=> Runs(b)
  BY <1>2, <1>4, Sets DEF Runs
<1>6. CASE m.loaded /\ "UpdatePwm" \notin s.stepControl
  BY <1>6 DEF Updated, Same
<1>7. CASE ~(m.loaded /\ "UpdatePwm" \notin s.stepControl)
  <2>1. Updated(s, m) = [u EXCEPT !.stepControl = @ \ {"UpdatePwm"}]
    BY <1>1, <1>4, <1>7 DEF Updated
  <2>2. PICK w : w = [u EXCEPT !.stepControl = @ \ {"UpdatePwm"}]
    OBVIOUS
  <2>3. w \in Systems /\ Same(s, w) /\ w.speed = u.speed
    BY <1>5, <2>2 DEF Systems, Same
  <2>4. \A r \in BOOLEAN : Queued_as(m, r) => (w.speed > 0) = r
    BY <1>3, <1>5, <2>3
  <2>5. QED
    BY <2>1, <2>2, <2>3, <2>4
<1>8. QED
  BY <1>6, <1>7

Pairs == [s : Systems, m : Motions]

LEMMA PrepsOne ==
  ASSUME NEW s \in Systems, NEW m \in Motions, m.queue # <<>>, m.segs # SegmentSlots
  PROVE  /\ PrepOne(s, m) \in Pairs
         /\ Prepared(s, m, PrepOne(s, m))
         /\ PrepOne(s, m).m.segs = m.segs + 1
<1>1. PICK b : b = Head(m.queue)
  OBVIOUS
<1>2. /\ b = m.queue[1] /\ b \in Blocks /\ Len(m.queue) \in Nat /\ Len(m.queue) >= 1
      /\ m.queue \in Seq(Blocks)
  BY <1>1, FirstBlock DEF Motions
<1>3. PICK q : q = IF b.left = 1 THEN Tail(m.queue)
                   ELSE [m.queue EXCEPT ![1] = [b EXCEPT !.left = @ - 1]]
  OBVIOUS
<1>4. /\ q \in Seq(Blocks) /\ Len(q) <= Len(m.queue)
      /\ b.left # 1 => q # <<>>
      /\ \A r \in BOOLEAN : Queued_as(m, r) => \A i \in 1 .. Len(q) : Runs(q[i]) = r
  <2>1. CASE b.left = 1
    <3>1. /\ q = Tail(m.queue) /\ q \in Seq(Blocks) /\ Len(q) = Len(m.queue) - 1
          /\ \A i \in 1 .. Len(q) : q[i] = m.queue[i + 1] /\ i + 1 \in 1 .. Len(m.queue)
      BY <1>2, <1>3, <2>1
    <3>2. QED
      BY <1>2, <2>1, <3>1 DEF Queued_as
  <2>2. CASE b.left # 1
    <3>1. PICK d : d = [b EXCEPT !.left = @ - 1]
      OBVIOUS
    <3>2. d \in Blocks /\ Runs(d) = Runs(b)
      BY <1>2, <2>2, <3>1 DEF Blocks, Runs
    <3>3. /\ q = [m.queue EXCEPT ![1] = d] /\ q \in Seq(Blocks) /\ Len(q) = Len(m.queue)
          /\ q[1] = d /\ \A i \in 1 .. Len(q) : i # 1 => q[i] = m.queue[i]
      BY <1>2, <1>3, <2>2, <3>1, <3>2
    <3>4. q # <<>>
      BY <1>2, <3>3
    <3>5. ASSUME NEW r \in BOOLEAN, Queued_as(m, r), NEW i \in 1 .. Len(q)
          PROVE  Runs(q[i]) = r
      <4>1. \A k \in 1 .. Len(m.queue) : Runs(m.queue[k]) = r
        BY <3>5 DEF Queued_as
      <4>2. i \in 1 .. Len(m.queue) /\ 1 \in 1 .. Len(m.queue)
        BY <1>2, <3>3
      <4>3. QED
        BY <1>2, <3>2, <3>3, <4>1, <4>2
    <3>6. QED
      BY <1>2, <2>2, <3>3, <3>4, <3>5
  <2>3. QED
    BY <2>1, <2>2
<1>5. PICK n : n = [m EXCEPT !.segs = @ + 1, !.loaded = ~(b.left = 1), !.queue = q]
  OBVIOUS
<1>6. n \in Motions /\ n.on = m.on /\ n.queue = q /\ n.segs = m.segs + 1 /\ n.loaded = (b.left # 1)
  <2>1. SegmentSlots \in Nat /\ m.segs \in 0 .. SegmentSlots /\ m.segs # SegmentSlots
    <3>1. SegmentSlots \in Nat
      BY SuspendAssumption
    <3>2. m.segs \in 0 .. SegmentSlots
      BY DEF Motions
    <3>3. QED
      BY <3>1, <3>2
  <2>2. m.segs \in Nat /\ m.segs + 1 \in 0 .. SegmentSlots
    BY <2>1
  <2>3. QED
    BY <1>4, <1>5, <2>2 DEF Motions
<1>7. PrepOne(s, m) = [s |-> Updated(s, m), m |-> n]
  BY <1>1, <1>3, <1>5 DEF PrepOne
<1>8. PICK c : c = PrepOne(s, m)
  OBVIOUS
<1>9. c.s = Updated(s, m) /\ c.m = n /\ c.s \in Systems /\ Same(s, c.s) /\ c \in Pairs
  BY <1>6, <1>7, <1>8, Updates DEF Pairs
<1>10. \A r \in BOOLEAN : Queued_as(m, r) =>
         Queued_as(c.m, r) /\ ((s.speed > 0) = r => (c.s.speed > 0) = r)
  <2>1. ASSUME NEW r \in BOOLEAN, Queued_as(m, r) PROVE Queued_as(c.m, r)
    BY <1>4, <1>6, <1>9, <2>1 DEF Queued_as
  <2>2. \A r \in BOOLEAN : Queued_as(m, r) /\ (s.speed > 0) = r => (c.s.speed > 0) = r
    BY <1>9, Updates
  <2>3. QED
    BY <2>1, <2>2
<1>11. Prepared(s, m, c)
  BY <1>4, <1>6, <1>9, <1>10 DEF Prepared, Carries
<1>12. QED
  BY <1>6, <1>8, <1>9, <1>11

LEMMA PreparedTwice ==
  ASSUME NEW s, NEW m, NEW c, NEW d, Prepared(s, m, c), Prepared(c.s, c.m, d),
         m \in Motions, c.m \in Motions, d.m \in Motions
  PROVE  Prepared(s, m, d)
<1>1. Len(m.queue) \in Nat /\ Len(c.m.queue) \in Nat /\ Len(d.m.queue) \in Nat
  BY DEF Motions
<1>2. QED
  BY <1>1 DEF Prepared, Carries, Same

LEMMA Fills ==
  ASSUME NEW c \in Pairs, NEW i, NEW cut
  PROVE  /\ Fill(c, i, cut) \in Pairs
         /\ Prepared(c.s, c.m, Fill(c, i, cut))
         /\ Full(c.s, c.m) => Fill(c, i, cut) = c
         /\ ~Full(c.s, c.m) => \/ Full(Fill(c, i, cut).s, Fill(c, i, cut).m)
                              \/ Fill(c, i, cut).m.segs = c.m.segs + 1
<1>1. c.s \in Systems /\ c.m \in Motions
  BY DEF Pairs
<1>2. CASE Full(c.s, c.m)
  <2>1. Fill(c, i, cut) = c
    BY <1>2 DEF Fill
  <2>2. Prepared(c.s, c.m, c)
    <3>1. Len(c.m.queue) \in Nat
      BY <1>1 DEF Motions
    <3>2. QED
      BY <1>1, <3>1 DEF Prepared, Carries, Same
  <2>3. QED
    BY <1>2, <2>1, <2>2
<1>3. CASE ~Full(c.s, c.m) /\ "Hold" \in c.s.stepControl /\ i > cut
  <2>1. PICK u : u = Updated(c.s, c.m)
    OBVIOUS
  <2>2. c.m.queue # <<>>
    BY <1>3 DEF Full
  <2>3. /\ u \in Systems /\ Same(c.s, u)
        /\ \A r \in BOOLEAN : Queued_as(c.m, r) /\ (c.s.speed > 0) = r => (u.speed > 0) = r
    BY <1>1, <2>1, <2>2, Updates
  <2>4. PICK w, n : /\ w = [u EXCEPT !.stepControl = @ \cup {"EndMotion"}]
                    /\ n = [c.m EXCEPT !.loaded = TRUE]
    OBVIOUS
  <2>5. /\ w \in Systems /\ Same(c.s, w) /\ w.speed = u.speed /\ "EndMotion" \in w.stepControl
        /\ n \in Motions /\ n.on = c.m.on /\ n.queue = c.m.queue
    BY <1>1, <2>3, <2>4 DEF Systems, Motions, Same
  <2>6. PICK d : d = [s |-> w, m |-> n]
    OBVIOUS
  <2>7. d.s = w /\ d.m = n /\ d \in Pairs
    BY <2>5, <2>6 DEF Pairs
  <2>8. Prepared(c.s, c.m, d)
    <3>1. Len(c.m.queue) \in Nat
      BY <1>1 DEF Motions
    <3>2. QED
      BY <2>2, <2>3, <2>5, <2>7, <3>1 DEF Prepared, Carries, Queued_as
  <2>9. Fill(c, i, cut) = d
    BY <1>3, <2>1, <2>4, <2>6 DEF Fill
  <2>10. QED
    BY <1>3, <2>5, <2>7, <2>8, <2>9 DEF Full
<1>4. CASE ~Full(c.s, c.m) /\ ~("Hold" \in c.s.stepControl /\ i > cut)
  <2>1. c.m.queue # <<>> /\ c.m.segs # SegmentSlots /\ Fill(c, i, cut) = PrepOne(c.s, c.m)
    BY <1>4 DEF Fill, Full
  <2>2. QED
    BY <1>1, <1>4, <2>1, PrepsOne
<1>5. QED
  BY <1>2, <1>3, <1>4

\* The rounds of the loop.
Rounds(f, s, m, cut) ==
  /\ f \in [0 .. SegmentSlots + 1 -> Pairs]
  /\ f[0] = [s |-> s, m |-> m]
  /\ \A i \in 1 .. SegmentSlots + 1 : f[i] = Fill(f[i - 1], i, cut)

LEMMA PrepIsRounds ==
  ASSUME NEW s \in Systems, NEW m \in Motions, NEW cut
  PROVE  \E f : Rounds(f, s, m, cut) /\ Prep(s, m, cut) = f[SegmentSlots + 1]
<1>1. PICK N : N = SegmentSlots + 1
  OBVIOUS
<1>2. N \in Nat
  BY <1>1, SuspendAssumption
<1>3. PICK g : g = [i \in 1 .. N |-> [c \in Pairs |-> Fill(c, i, cut)]]
  OBVIOUS
<1>4. g \in Steps(Pairs, N) /\ \A i \in 1 .. N, c \in Pairs : g[i][c] = Fill(c, i, cut)
  <2>1. \A i \in 1 .. N, c \in Pairs : Fill(c, i, cut) \in Pairs
    BY Fills
  <2>2. QED
    BY <1>3, <2>1 DEF Steps
<1>5. PICK z : z = [s |-> s, m |-> m]
  OBVIOUS
<1>6. z \in Pairs
  BY <1>5 DEF Pairs
<1>7. PICK h : Follows(h, Pairs, N, z, g)
  BY <1>2, <1>4, <1>6, Recursion
<1>8. h \in [0 .. N -> Pairs] /\ h[0] = z /\ \A i \in 1 .. N : h[i] = g[i][h[i - 1]]
  BY <1>7 DEF Follows
<1>9. ASSUME NEW i \in 1 .. N PROVE h[i] = Fill(h[i - 1], i, cut)
  <2>1. i - 1 \in 0 .. N
    BY <1>2
  <2>2. h[i - 1] \in Pairs
    BY <1>8, <2>1
  <2>3. QED
    BY <1>4, <1>8, <2>2
<1> DEFINE F == CHOOSE f : f = [i \in 0 .. N |-> IF i = 0 THEN z ELSE Fill(f[i - 1], i, cut)]
<1>10. F = [i \in 0 .. N |-> IF i = 0 THEN z ELSE Fill(F[i - 1], i, cut)]
  <2>1. \A i \in 0 .. N : i = 0 \/ i \in 1 .. N
    BY <1>2
  <2>2. \A i \in 0 .. N : h[i] = IF i = 0 THEN z ELSE Fill(h[i - 1], i, cut)
    BY <1>8, <1>9, <2>1
  <2>3. h = [i \in 0 .. N |-> IF i = 0 THEN z ELSE Fill(h[i - 1], i, cut)]
    BY <1>8, <2>2
  <2>4. QED
    BY <2>3
<1>11. Prep(s, m, cut) = F[N]
  BY <1>1, <1>5 DEF Prep
<1> HIDE DEF F
<1>12. \A i \in 1 .. N : i \in 0 .. N /\ i # 0 /\ i - 1 \in 0 .. N
  BY <1>2
<1>13. F[0] = z /\ \A i \in 1 .. N : F[i] = Fill(F[i - 1], i, cut)
  <2>1. 0 \in 0 .. N
    BY <1>2
  <2>2. QED
    BY <1>10, <1>12, <2>1
<1>14. \A i \in 0 .. N : F[i] \in Pairs
  <2>1. PICK T : T = {i \in 0 .. N : F[i] \in Pairs}
    OBVIOUS
  <2>2. 0 \in T
    BY <1>2, <1>6, <1>13, <2>1
  <2>3. ASSUME NEW i \in 1 .. N, i - 1 \in T PROVE i \in T
    <3>1. Fill(F[i - 1], i, cut) \in Pairs
      BY <2>1, <2>3, Fills
    <3>2. QED
      BY <1>12, <1>13, <2>1, <3>1
  <2>4. \A i \in 0 .. N : i \in T
    BY <1>2, <2>2, <2>3, UpTo
  <2>5. QED
    BY <2>1, <2>4
<1>15. F \in [0 .. N -> Pairs]
  BY <1>10, <1>14
<1>16. Rounds(F, s, m, cut)
  BY <1>1, <1>5, <1>13, <1>15 DEF Rounds
<1>17. QED
  BY <1>1, <1>11, <1>16

LEMMA Prepares ==
  ASSUME NEW s \in Systems, NEW m \in Motions, NEW cut
  PROVE  /\ Prepared(s, m, Prep(s, m, cut))
         /\ Full(Prep(s, m, cut).s, Prep(s, m, cut).m)
         /\ Full(s, m) => Prep(s, m, cut) = [s |-> s, m |-> m]
<1>1. PICK f : Rounds(f, s, m, cut) /\ Prep(s, m, cut) = f[SegmentSlots + 1]
  BY PrepIsRounds
<1>2. PICK N : N = SegmentSlots + 1
  OBVIOUS
<1>3. N \in Nat /\ N \in 0 .. N /\ 0 \in 0 .. N /\ \A i \in 1 .. N : i \in 0 .. N /\ i - 1 \in 0 .. N
  BY <1>2, SuspendAssumption
<1>4. PICK z : z = [s |-> s, m |-> m]
  OBVIOUS
<1>5. z \in Pairs /\ z.s = s /\ z.m = m
  BY <1>4 DEF Pairs
<1>6. f \in [0 .. N -> Pairs] /\ f[0] = z /\ \A i \in 1 .. N : f[i] = Fill(f[i - 1], i, cut)
  BY <1>1, <1>2, <1>4 DEF Rounds
<1>7. Prepared(s, m, f[N])
  <2>1. PICK T : T = {i \in 0 .. N : Prepared(s, m, f[i])}
    OBVIOUS
  <2>2. 0 \in T
    <3>1. Prepared(s, m, z)
      <4>1. Len(m.queue) \in Nat
        BY DEF Motions
      <4>2. QED
        BY <1>5, <4>1 DEF Prepared, Carries, Same
    <3>2. QED
      BY <1>3, <1>6, <2>1, <3>1
  <2>3. ASSUME NEW i \in 1 .. N, i - 1 \in T PROVE i \in T
    <3>1. f[i - 1] \in Pairs /\ f[i] \in Pairs /\ f[i] = Fill(f[i - 1], i, cut)
      BY <1>3, <1>6
    <3>2. Prepared(f[i - 1].s, f[i - 1].m, f[i])
      BY <3>1, Fills
    <3>3. Prepared(s, m, f[i - 1])
      BY <2>1, <2>3
    <3>4. f[i - 1].m \in Motions /\ f[i].m \in Motions
      BY <3>1 DEF Pairs
    <3>5. Prepared(s, m, f[i])
      BY <3>2, <3>3, <3>4, PreparedTwice
    <3>6. QED
      BY <1>3, <2>1, <3>5
  <2>4. \A i \in 0 .. N : i \in T
    BY <1>3, <2>2, <2>3, UpTo
  <2>5. QED
    BY <1>3, <2>1, <2>4
<1>8. Full(f[N].s, f[N].m)
  <2>1. PICK T : T = {i \in 0 .. N : Full(f[i].s, f[i].m) \/ f[i].m.segs >= i}
    OBVIOUS
  <2>2. \A i \in 0 .. N : f[i].m.segs \in 0 .. SegmentSlots
    BY <1>6 DEF Pairs, Motions
  <2>3. 0 \in T
    BY <1>3, <2>1, <2>2
  <2>4. ASSUME NEW i \in 1 .. N, i - 1 \in T PROVE i \in T
    <3>1. f[i - 1] \in Pairs /\ f[i] = Fill(f[i - 1], i, cut)
      BY <1>3, <1>6
    <3>2. CASE Full(f[i - 1].s, f[i - 1].m)
      BY <1>3, <2>1, <3>1, <3>2, Fills
    <3>3. CASE ~Full(f[i - 1].s, f[i - 1].m)
      <4>1. f[i - 1].m.segs >= i - 1 /\ f[i - 1].m.segs \in Nat
        BY <1>3, <2>1, <2>2, <2>4, <3>3, SuspendAssumption
      <4>2. Full(f[i].s, f[i].m) \/ f[i].m.segs = f[i - 1].m.segs + 1
        BY <3>1, <3>3, Fills
      <4>3. QED
        BY <1>3, <2>1, <4>1, <4>2
    <3>4. QED
      BY <3>2, <3>3
  <2>5. \A i \in 0 .. N : i \in T
    BY <1>3, <2>3, <2>4, UpTo
  <2>6. Full(f[N].s, f[N].m) \/ f[N].m.segs >= N
    BY <1>3, <2>1, <2>5
  <2>7. QED
    BY <1>2, <1>3, <2>2, <2>6, SuspendAssumption
<1>9. ASSUME Full(s, m) PROVE f[N] = z
  <2>1. PICK T : T = {i \in 0 .. N : f[i] = z}
    OBVIOUS
  <2>2. 0 \in T
    BY <1>3, <1>6, <2>1
  <2>3. ASSUME NEW i \in 1 .. N, i - 1 \in T PROVE i \in T
    <3>1. f[i - 1] = z /\ f[i] = Fill(f[i - 1], i, cut)
      BY <1>6, <2>1, <2>3
    <3>2. Fill(z, i, cut) = z
      BY <1>5, <1>9, Fills
    <3>3. QED
      BY <1>3, <2>1, <3>1, <3>2
  <2>4. \A i \in 0 .. N : i \in T
    BY <1>3, <2>2, <2>3, UpTo
  <2>5. QED
    BY <1>3, <2>1, <2>4
<1>10. QED
  BY <1>1, <1>2, <1>4, <1>7, <1>8, <1>9

-----------------------------------------------------------------------------
(* The sections of the executor. *)

Stops == {"FeedHold", "SafetyDoor", "Sleep"}

\* What the sections rely on and keep.
Part(s, m) == s \in Systems /\ m \in Motions /\ Core(s, m) /\ Open(s, m)

\* The flags fit the state.
StopFits(f, s, m) ==
  "CycleStop" \in f => /\ ~m.on
                      /\ "HoldComplete" \notin s.suspend
                      /\ s.state \in {"CYCLE", "HOLD", "DOOR"}
Fits(f, s, m) == /\ "Sleep" \in f => s.state \in {"IDLE", "ALARM"}
                 /\ StopFits(f, s, m)

\* The hold section by cases: nothing to do, asleep in an alarm, a machine at
\* rest, a machine in motion, and one that is stopped already.
HoldCase(s, m, f, t, n) ==
  \/ t = s /\ n = m /\ (f \cap Stops = {} \/ s.state = "ALARM")
  \/ /\ n = m /\ f \cap Stops # {} /\ t.stepControl = s.stepControl
     /\ \/ /\ s.state = "ALARM" /\ t.state = "SLEEP"
           /\ t.suspend = s.suspend \cup {"RetractComplete", "HoldComplete"}
        \/ /\ s.state = "IDLE"
           /\ t.suspend = {"HoldComplete"} \cup (IF "SafetyDoor" \in f THEN {"DoorAjar"} ELSE {})
           /\ t.state = IF "Sleep" \in f THEN "SLEEP" ELSE IF "SafetyDoor" \in f THEN "DOOR" ELSE "HOLD"
        \/ /\ s.state \in {"HOLD", "DOOR", "SLEEP"} /\ "SafetyDoor" \notin f
           /\ t.suspend = s.suspend /\ t.state = s.state
        \/ /\ s.state \in {"HOLD", "DOOR", "SLEEP"} /\ "SafetyDoor" \in f
           /\ t.state = IF s.state = "SLEEP" THEN "SLEEP" ELSE "DOOR"
           /\ "InitiateRestore" \notin s.suspend => t.suspend = s.suspend \cup {"DoorAjar"}
           /\ "InitiateRestore" \in s.suspend /\ s.state = "DOOR" =>
                t.suspend = (s.suspend \ {"RetractComplete", "InitiateRestore", "RestoreComplete"})
                              \cup {"RestartRetract", "DoorAjar"}
  \/ /\ s.state = "CYCLE" /\ f \cap Stops # {}
     /\ t.stepControl = {"Hold"} /\ n.loaded = FALSE
     /\ t.suspend = s.suspend \cup (IF "SafetyDoor" \in f THEN {"DoorAjar"} ELSE {})
     /\ t.state = IF "SafetyDoor" \in f THEN "DOOR" ELSE "HOLD"

LEMMA HoldCases ==
  ASSUME NEW s, NEW m, NEW f, Part(s, m), Fits(f, s, m)
  PROVE  \E t \in Systems, n \in Motions :
           /\ HoldSection(s, m, f) = [s |-> t, m |-> n]
           /\ HoldCase(s, m, f, t, n)
           /\ n.queue = m.queue /\ n.on = m.on /\ n.segs = m.segs /\ (n.loaded => m.loaded)
           /\ t.speed = s.speed /\ t.override = s.override /\ t.spindleStop = s.spindleStop
<1>0. s \in Systems /\ m \in Motions /\ Coherent(s) /\ Retracted(s)
  BY DEF Part, Core
<1> DEFINE stop == f \cap {"FeedHold", "SafetyDoor", "Sleep"} # {} /\ s.state # "ALARM"
           moving == stop /\ s.state = "CYCLE"
<1>1. PICK s1 : s1 = [s EXCEPT !.stepControl = IF moving THEN {"Hold"} ELSE @,
                               !.suspend = IF stop /\ s.state = "IDLE" THEN {"HoldComplete"} ELSE @]
  OBVIOUS
<1>2. PICK s2 : s2 = IF stop /\ "FeedHold" \in f /\ s1.state \notin {"DOOR", "SLEEP"}
                     THEN [s1 EXCEPT !.state = "HOLD"] ELSE s1
  OBVIOUS
<1> DEFINE reopened == s2.state = "DOOR" /\ "InitiateRestore" \in s2.suspend
<1>3. PICK s3 : s3 = IF stop /\ "SafetyDoor" \in f
            THEN [s2 EXCEPT !.suspend =
                      (IF reopened
                       THEN (@ \ {"RetractComplete", "InitiateRestore", "RestoreComplete"})
                              \cup {"RestartRetract"}
                       ELSE @) \cup {"DoorAjar"},
                    !.state = IF @ = "SLEEP" THEN @ ELSE "DOOR"]
            ELSE s2
  OBVIOUS
<1>4. PICK s4 : s4 = IF "Sleep" \in f
            THEN [s3 EXCEPT !.suspend = IF s3.state = "ALARM"
                                        THEN @ \cup {"RetractComplete", "HoldComplete"} ELSE @,
                            !.state = "SLEEP"]
            ELSE s3
  OBVIOUS
<1>5. PICK n : n = IF moving THEN [m EXCEPT !.loaded = FALSE] ELSE m
  OBVIOUS
<1>6. HoldSection(s, m, f) = [s |-> s4, m |-> n]
  BY <1>1, <1>2, <1>3, <1>4, <1>5 DEF HoldSection, Recompute
<1>7. s1 \in Systems /\ s2 \in Systems /\ s3 \in Systems /\ s4 \in Systems
  <2>1. s1 \in Systems
    BY <1>0, <1>1 DEF Systems, SuspendBits
  <2>2. s2 \in Systems
    BY <1>2, <2>1 DEF Systems, States
  <2>3. s3 \in Systems
    BY <1>3, <2>2 DEF Systems, States, SuspendBits
  <2>4. s4 \in Systems
    BY <1>4, <2>3 DEF Systems, States, SuspendBits
  <2>5. QED
    BY <2>1, <2>2, <2>3, <2>4
<1>8. /\ s4.speed = s.speed /\ s4.override = s.override /\ s4.spindleStop = s.spindleStop
      /\ s4.stepControl = IF moving THEN {"Hold"} ELSE s.stepControl
  BY <1>0, <1>1, <1>2, <1>3, <1>4 DEF Systems
<1>9. /\ n \in Motions /\ n.queue = m.queue /\ n.on = m.on /\ n.segs = m.segs
      /\ n.loaded => m.loaded
  BY <1>0, <1>5 DEF Motions
<1>10. CASE s.state = "ALARM"
  <2>1. s3 = s /\ n = m
    BY <1>0, <1>1, <1>2, <1>3, <1>5, <1>10 DEF Systems
  <2>2. HoldCase(s, m, f, s4, n)
    BY <1>0, <1>4, <1>8, <1>10, <2>1 DEF HoldCase, Systems, Stops
  <2>3. QED
    BY <1>6, <1>7, <1>8, <1>9, <2>2
<1>11. CASE f \cap Stops = {}
  <2>1. s4 = s /\ n = m
    BY <1>0, <1>1, <1>2, <1>3, <1>4, <1>5, <1>11 DEF Systems, Stops
  <2>2. HoldCase(s, m, f, s4, n)
    BY <1>11, <2>1 DEF HoldCase
  <2>3. QED
    BY <1>6, <1>7, <1>8, <1>9, <2>2
<1>12. CASE s.state # "ALARM" /\ f \cap Stops # {}
  <2>1. stop
    BY <1>12 DEF Stops
  <2>2. CASE s.state = "IDLE"
    <3>1. n = m /\ s4.stepControl = s.stepControl
      BY <1>5, <1>8, <2>2
    <3>2. /\ s1.suspend = {"HoldComplete"} /\ s1.state = "IDLE"
          /\ s2.suspend = {"HoldComplete"} /\ s2.state = IF "FeedHold" \in f THEN "HOLD" ELSE "IDLE"
      BY <1>0, <1>1, <1>2, <1>7, <2>1, <2>2 DEF Systems
    <3>3. /\ s3.suspend = {"HoldComplete"} \cup (IF "SafetyDoor" \in f THEN {"DoorAjar"} ELSE {})
          /\ s3.state = IF "SafetyDoor" \in f THEN "DOOR" ELSE s2.state
      BY <1>3, <1>7, <2>1, <3>2 DEF Systems
    <3>4. /\ s4.suspend = s3.suspend
          /\ s4.state = IF "Sleep" \in f THEN "SLEEP" ELSE s3.state
      BY <1>4, <1>7, <3>2, <3>3 DEF Systems
    <3>5. HoldCase(s, m, f, s4, n)
      BY <1>12, <2>1, <2>2, <3>1, <3>2, <3>3, <3>4 DEF HoldCase, Stops
    <3>6. QED
      BY <1>6, <1>7, <1>8, <1>9, <3>5
  <2>3. CASE s.state = "CYCLE"
    <3>1. "Sleep" \notin f /\ s4 = s3 /\ s4.stepControl = {"Hold"} /\ n.loaded = FALSE
      BY <1>0, <1>4, <1>5, <1>8, <2>1, <2>3 DEF Fits, Motions
    <3>2. /\ s1.suspend = s.suspend /\ s1.state = "CYCLE" /\ s.suspend = {}
          /\ s2.suspend = s.suspend /\ s2.state = IF "FeedHold" \in f THEN "HOLD" ELSE "CYCLE"
      BY <1>0, <1>1, <1>2, <1>7, <2>1, <2>3 DEF Systems, Coherent
    <3>3. /\ s3.suspend = s.suspend \cup (IF "SafetyDoor" \in f THEN {"DoorAjar"} ELSE {})
          /\ s3.state = IF "SafetyDoor" \in f THEN "DOOR" ELSE s2.state
      BY <1>3, <1>7, <2>1, <3>2 DEF Systems
    <3>4. HoldCase(s, m, f, s4, n)
      BY <1>12, <2>1, <2>3, <3>1, <3>2, <3>3 DEF HoldCase, Stops
    <3>5. QED
      BY <1>6, <1>7, <1>8, <1>9, <3>4
  <2>4. CASE s.state \in {"HOLD", "DOOR", "SLEEP"}
    <3>1. "Sleep" \notin f /\ s4 = s3 /\ n = m /\ s4.stepControl = s.stepControl
      BY <1>0, <1>4, <1>5, <1>8, <2>1, <2>4 DEF Fits
    <3>2. s2.suspend = s.suspend /\ s2.state = s.state
      BY <1>0, <1>1, <1>2, <1>7, <2>1, <2>4 DEF Systems
    <3>3. CASE "SafetyDoor" \notin f
      <4>1. s3 = s2
        BY <1>3, <3>3
      <4>2. HoldCase(s, m, f, s4, n)
        BY <1>12, <2>4, <3>1, <3>2, <3>3, <4>1 DEF HoldCase
      <4>3. QED
        BY <1>6, <1>7, <1>8, <1>9, <4>2
    <3>4. CASE "SafetyDoor" \in f
      <4>1. /\ s3.state = IF s.state = "SLEEP" THEN "SLEEP" ELSE "DOOR"
            /\ s3.suspend = (IF reopened
                             THEN (s.suspend \ {"RetractComplete", "InitiateRestore", "RestoreComplete"})
                                    \cup {"RestartRetract"}
                             ELSE s.suspend) \cup {"DoorAjar"}
        BY <1>3, <1>7, <2>1, <3>2, <3>4 DEF Systems
      <4>2. "InitiateRestore" \notin s.suspend => s3.suspend = s.suspend \cup {"DoorAjar"}
        BY <3>2, <4>1
      <4>3. "InitiateRestore" \in s.suspend /\ s.state = "DOOR" =>
               s3.suspend = (s.suspend \ {"RetractComplete", "InitiateRestore", "RestoreComplete"})
                              \cup {"RestartRetract", "DoorAjar"}
        BY <3>2, <4>1
      <4>4. HoldCase(s, m, f, s4, n)
        BY <1>12, <2>4, <3>1, <3>4, <4>1, <4>2, <4>3 DEF HoldCase
      <4>5. QED
        BY <1>6, <1>7, <1>8, <1>9, <4>4
    <3>5. QED
      BY <3>3, <3>4
  <2>5. QED
    BY <1>0, <1>12, <2>2, <2>3, <2>4 DEF Systems, States
<1>13. QED
  BY <1>10, <1>11, <1>12

\* The start section: nothing to do, a door begins to restore, a hold restores
\* its spindle first, and everything goes on.
Goes(s, m, f, t, n) ==
  /\ "CycleStart" \in f /\ f \cap {"FeedHold", "SafetyDoor"} = {}
  /\ \/ s.state = "IDLE"
     \/ s.state = "DOOR" /\ "RestoreComplete" \in s.suspend
     \/ s.state = "HOLD" /\ "HoldComplete" \in s.suspend /\ s.spindleStop = {}
  /\ t.suspend = {} /\ t.spindleStop = s.spindleStop
  /\ Carries(s, m, t, n)
  /\ \/ t.state = "CYCLE"
     \/ t.state = "IDLE" /\ n = m

StartCase(s, m, f, t, n) ==
  \/ t = s /\ n = m
  \/ /\ "CycleStart" \in f /\ f \cap {"FeedHold", "SafetyDoor"} = {} /\ n = m
     /\ \/ /\ s.state = "DOOR" /\ "RetractComplete" \in s.suspend
           /\ "RestoreComplete" \notin s.suspend
           /\ t = [s EXCEPT !.suspend = @ \cup {"InitiateRestore"}]
        \/ /\ s.state = "HOLD" /\ "HoldComplete" \in s.suspend /\ s.spindleStop # {}
           /\ t = [s EXCEPT !.spindleStop = @ \cup {"RestoreCycle"}]
  \/ Goes(s, m, f, t, n)

LEMMA StartCases ==
  ASSUME NEW s, NEW m, NEW f, NEW cut, Part(s, m)
  PROVE  \E t \in Systems, n \in Motions :
           /\ StartSection(s, m, f, cut) = [s |-> t, m |-> n]
           /\ StartCase(s, m, f, t, n)
<1>1. s \in Systems /\ m \in Motions /\ Coherent(s) /\ Retracted(s)
  BY DEF Part, Core
<1>2. CASE "CycleStart" \notin f \/ f \cap {"FeedHold", "SafetyDoor"} # {}
  <2>1. StartSection(s, m, f, cut) = [s |-> s, m |-> m]
    BY <1>2 DEF StartSection
  <2>2. QED
    BY <1>1, <2>1 DEF StartCase
<1>3. CASE "CycleStart" \in f /\ f \cap {"FeedHold", "SafetyDoor"} = {}
  <2> DEFINE closed == s.state = "DOOR" /\ "DoorAjar" \notin s.suspend
  <2>1. PICK s1 : s1 = IF closed /\ "RestoreComplete" \in s.suspend THEN [s EXCEPT !.state = "IDLE"]
                 ELSE IF closed /\ "RetractComplete" \in s.suspend
                      THEN [s EXCEPT !.suspend = @ \cup {"InitiateRestore"}]
                 ELSE s
    OBVIOUS
  <2> DEFINE ready == s1.state = "IDLE" \/ (s1.state = "HOLD" /\ "HoldComplete" \in s1.suspend)
  <2>2. PICK s2 : s2 = [s1 EXCEPT !.stepControl = {}, !.suspend = {}]
    OBVIOUS
  <2>3. PICK u, c : u = [s2 EXCEPT !.state = "CYCLE"] /\ c = Prep(u, m, cut)
    OBVIOUS
  <2>4. StartSection(s, m, f, cut) =
          IF ready /\ s1.state = "HOLD" /\ s1.spindleStop # {}
            THEN [s |-> [s1 EXCEPT !.spindleStop = @ \cup {"RestoreCycle"}], m |-> m]
          ELSE IF ready /\ m.queue # <<>> THEN [c EXCEPT !.m.on = TRUE]
          ELSE IF ready THEN [s |-> [s2 EXCEPT !.state = "IDLE"], m |-> m]
          ELSE [s |-> s1, m |-> m]
    BY <1>3, <2>1, <2>2, <2>3 DEF StartSection
  <2>5. /\ s1 \in Systems /\ s1.speed = s.speed /\ s1.spindleStop = s.spindleStop
        /\ s1.state = s.state \/ (s.state = "DOOR" /\ "RestoreComplete" \in s.suspend)
    BY <1>1, <2>1 DEF Systems, States, SuspendBits
  <2>6. CASE ~ready
    <3>1. StartSection(s, m, f, cut) = [s |-> s1, m |-> m]
      BY <2>4, <2>6
    <3>2. StartCase(s, m, f, s1, m)
      BY <1>1, <1>3, <2>1, <2>6 DEF StartCase, Systems
    <3>3. QED
      BY <1>1, <2>5, <3>1, <3>2
  <2>7. CASE ready /\ s1.state = "HOLD" /\ s1.spindleStop # {}
    <3>1. s1 = s
      BY <1>1, <2>1, <2>7 DEF Systems
    <3>2. PICK t : t = [s EXCEPT !.spindleStop = @ \cup {"RestoreCycle"}]
      OBVIOUS
    <3>3. StartSection(s, m, f, cut) = [s |-> t, m |-> m]
      BY <2>4, <2>7, <3>1, <3>2
    <3>4. t \in Systems
      BY <1>1, <3>2 DEF Systems
    <3>5. StartCase(s, m, f, t, m)
      BY <1>3, <2>7, <3>1, <3>2 DEF StartCase
    <3>6. QED
      BY <1>1, <3>3, <3>4, <3>5
  <2>8. CASE ready /\ ~(s1.state = "HOLD" /\ s1.spindleStop # {})
    <3>1. \/ s.state = "IDLE"
          \/ s.state = "DOOR" /\ "RestoreComplete" \in s.suspend
          \/ s.state = "HOLD" /\ "HoldComplete" \in s.suspend /\ s.spindleStop = {}
      BY <1>1, <2>1, <2>5, <2>8 DEF Systems
    <3>2. CASE m.queue # <<>>
      <4>1. u \in Systems /\ u.state = "CYCLE" /\ u.suspend = {} /\ u.spindleStop = s.spindleStop
            /\ u.speed = s.speed
        BY <2>2, <2>3, <2>5 DEF Systems, States
      <4>2. Prepared(u, m, c)
        BY <1>1, <2>3, <4>1, Prepares
      <4>3. PICK n : n = [c.m EXCEPT !.on = TRUE]
        OBVIOUS
      <4>4. c \in Pairs
        <5>1. PICK h : Rounds(h, u, m, cut) /\ c = h[SegmentSlots + 1]
          BY <1>1, <2>3, <4>1, PrepIsRounds
        <5>2. SegmentSlots + 1 \in 0 .. SegmentSlots + 1
          BY SuspendAssumption
        <5>3. QED
          BY <5>1, <5>2 DEF Rounds
      <4>5. StartSection(s, m, f, cut) = [s |-> c.s, m |-> n]
        BY <2>4, <2>8, <3>2, <4>3, <4>4 DEF Pairs
      <4>6. n \in Motions /\ n.queue = c.m.queue /\ n.loaded = c.m.loaded
        BY <4>2, <4>3 DEF Prepared, Motions
      <4>7. c.s \in Systems /\ c.s.state = "CYCLE" /\ c.s.suspend = {} /\ c.s.spindleStop = s.spindleStop
        BY <4>1, <4>2 DEF Prepared, Same
      <4>8. Carries(s, m, c.s, n)
        BY <4>1, <4>2, <4>6 DEF Prepared, Carries, Queued_as
      <4>9. StartCase(s, m, f, c.s, n)
        BY <1>3, <3>1, <4>7, <4>8 DEF StartCase, Goes
      <4>10. QED
        BY <4>5, <4>6, <4>7, <4>9
    <3>3. CASE m.queue = <<>>
      <4>1. PICK t : t = [s2 EXCEPT !.state = "IDLE"]
        OBVIOUS
      <4>2. /\ t \in Systems /\ t.state = "IDLE" /\ t.suspend = {} /\ t.spindleStop = s.spindleStop
            /\ t.speed = s.speed
        BY <2>2, <2>5, <4>1 DEF Systems, States
      <4>3. StartSection(s, m, f, cut) = [s |-> t, m |-> m]
        BY <2>4, <2>8, <3>3, <4>1
      <4>4. Carries(s, m, t, m)
        <5>1. Len(m.queue) \in Nat
          BY <1>1 DEF Motions
        <5>2. QED
          BY <4>2, <5>1 DEF Carries
      <4>5. StartCase(s, m, f, t, m)
        BY <1>3, <3>1, <4>2, <4>4 DEF StartCase, Goes
      <4>6. QED
        BY <1>1, <4>2, <4>3, <4>5
    <3>4. QED
      BY <3>2, <3>3
  <2>9. QED
    BY <2>6, <2>7, <2>8
<1>4. QED
  BY <1>2, <1>3

\* The stop section: nothing to do, a hold is complete, a cycle is complete.
StopCase(s, m, f, t, n) ==
  \/ t = s /\ n = m /\ "CycleStop" \notin f
  \/ /\ "CycleStop" \in f /\ s.state \in {"HOLD", "DOOR"}
     /\ t = [s EXCEPT !.suspend = @ \cup {"HoldComplete"}, !.stepControl = @ \ {"Hold"}]
     /\ n = [m EXCEPT !.loaded = FALSE]
  \/ /\ "CycleStop" \in f /\ s.state = "CYCLE"
     /\ t = [s EXCEPT !.suspend = {}, !.state = "IDLE"] /\ n = m

LEMMA StopCases ==
  ASSUME NEW s, NEW m, NEW f, Part(s, m), StopFits(f, s, m)
  PROVE  \E t \in Systems, n \in Motions :
           /\ StopSection(s, m, f) = [s |-> t, m |-> n]
           /\ StopCase(s, m, f, t, n)
<1>1. s \in Systems /\ m \in Motions /\ Coherent(s)
  BY DEF Part, Core
<1>2. CASE "CycleStop" \notin f
  <2>1. StopSection(s, m, f) = [s |-> s, m |-> m] /\ StopCase(s, m, f, s, m)
    BY <1>2 DEF StopSection, StopCase
  <2>2. QED
    BY <1>1, <2>1
<1>3. CASE "CycleStop" \in f /\ s.state \in {"HOLD", "DOOR"}
  <2>1. "Hold" \in s.stepControl
    BY <1>1, <1>3 DEF StopFits, Coherent
  <2>2. PICK t, n : /\ t = [s EXCEPT !.suspend = @ \cup {"HoldComplete"}, !.stepControl = @ \ {"Hold"}]
                    /\ n = [m EXCEPT !.loaded = FALSE]
    OBVIOUS
  <2>3. t \in Systems /\ n \in Motions
    BY <1>1, <2>2 DEF Systems, Motions, SuspendBits
  <2>4. StopSection(s, m, f) = [s |-> t, m |-> n]
    BY <1>3, <2>1, <2>2 DEF StopSection, Recompute
  <2>5. StopCase(s, m, f, t, n)
    BY <1>3, <2>2 DEF StopCase
  <2>6. QED
    BY <2>3, <2>4, <2>5
<1>4. CASE "CycleStop" \in f /\ s.state = "CYCLE"
  <2>1. "DoorAjar" \notin s.suspend
    BY <1>1, <1>4 DEF Coherent
  <2>2. PICK t : t = [s EXCEPT !.suspend = {}, !.state = "IDLE"]
    OBVIOUS
  <2>3. t \in Systems
    BY <1>1, <2>2 DEF Systems, States
  <2>4. StopSection(s, m, f) = [s |-> t, m |-> m]
    BY <1>4, <2>1, <2>2 DEF StopSection
  <2>5. StopCase(s, m, f, t, m)
    BY <1>4, <2>2 DEF StopCase
  <2>6. QED
    BY <1>1, <2>3, <2>4, <2>5
<1>5. QED
  BY <1>2, <1>3, <1>4 DEF StopFits

\* The accessory section sets the speed of an idle spindle, and begins or ends
\* a spindle stop in a hold.
AccessoryCase(s, t) ==
  /\ t.state = s.state /\ t.suspend = s.suspend
  /\ "Hold" \in t.stepControl <=> "Hold" \in s.stepControl
  /\ "EndMotion" \in t.stepControl <=> "EndMotion" \in s.stepControl
  /\ t.speed = s.speed \/ (s.state = "IDLE" /\ (t.speed > 0 <=> Runs(modal)))
  /\ \/ t.spindleStop = s.spindleStop
     \/ s.state = "HOLD" /\ s.spindleStop = {} /\ t.spindleStop = {"Initiate"}
     \/ s.state = "HOLD" /\ "Enabled" \in s.spindleStop /\ t.spindleStop = s.spindleStop \cup {"Restore"}

LEMMA OverrideStays ==
  ASSUME NEW old \in MinOverride .. MaxOverride, NEW bits
  PROVE  OverrideByte(old, bits) \in MinOverride .. MaxOverride
<1>1. /\ MinOverride \in Nat /\ MaxOverride \in Nat /\ MinOverride <= MaxOverride /\ Default \in Nat
      /\ Coarse \in Nat /\ Fine \in Nat /\ ByteRange \in Nat /\ ByteRange > 0
  BY SuspendAssumption
<1> DEFINE delta == (IF "CoarsePlus" \in bits THEN Coarse ELSE 0)
                    - (IF "CoarseMinus" \in bits THEN Coarse ELSE 0)
                    + (IF "FinePlus" \in bits THEN Fine ELSE 0)
                    - (IF "FineMinus" \in bits THEN Fine ELSE 0)
<1>2. PICK v : v = (IF "Reset" \in bits THEN Default ELSE old) + delta
  OBVIOUS
<1>3. v \in Int
  BY <1>1, <1>2
<1>4. v % ByteRange \in Int
  BY <1>1, <1>3
<1>5. OverrideByte(old, bits) = Clamp(v % ByteRange, MinOverride, MaxOverride)
  BY <1>2 DEF OverrideByte
<1>6. QED
  BY <1>1, <1>4, <1>5 DEF Clamp

LEMMA AccessoryCases ==
  ASSUME NEW s \in Systems, NEW bits, modal \in Spindle
  PROVE  /\ AccessorySection(s, bits) \in Systems
         /\ AccessoryCase(s, AccessorySection(s, bits))
<1>1. PICK new : new = OverrideByte(s.override, bits)
  OBVIOUS
<1>2. new \in MinOverride .. MaxOverride
  BY <1>1, OverrideStays DEF Systems
<1>3. PICK s1 : s1 = [s EXCEPT !.override = new]
  OBVIOUS
<1>4. /\ s1 \in Systems /\ s1.state = s.state /\ s1.suspend = s.suspend /\ s1.speed = s.speed
      /\ s1.stepControl = s.stepControl /\ s1.spindleStop = s.spindleStop
  BY <1>2, <1>3 DEF Systems
<1>5. PICK s2 : s2 = IF new = s.override THEN s
                     ELSE IF s.state = "IDLE" THEN SpindleSet(s1, modal.on, modal.rpm)
                     ELSE [s1 EXCEPT !.stepControl = @ \cup {"UpdatePwm"}]
  OBVIOUS
<1>6. /\ s2 \in Systems /\ s2.state = s.state /\ s2.suspend = s.suspend
      /\ "Hold" \in s2.stepControl <=> "Hold" \in s.stepControl
      /\ "EndMotion" \in s2.stepControl <=> "EndMotion" \in s.stepControl
      /\ s2.speed = s.speed \/ (s.state = "IDLE" /\ (s2.speed > 0 <=> Runs(modal)))
      /\ s2.spindleStop = s.spindleStop
  <2>1. CASE new = s.override
    BY <1>5, <2>1
  <2>2. CASE new # s.override /\ s.state = "IDLE"
    <3>1. modal.on \in BOOLEAN /\ modal.rpm \in Rpms \cup {0}
      BY DEF Spindle
    <3>2. /\ s2 = SpindleSet(s1, modal.on, modal.rpm) /\ s2 \in Systems
          /\ Same(s1, s2) /\ s2.stepControl = s1.stepControl
          /\ s2.speed > 0 <=> modal.on /\ modal.rpm > 0
      BY <1>4, <1>5, <2>2, <3>1, Sets
    <3>3. QED
      BY <1>4, <2>2, <3>2 DEF Same, Runs
  <2>3. CASE new # s.override /\ s.state # "IDLE"
    <3>1. s2 = [s1 EXCEPT !.stepControl = @ \cup {"UpdatePwm"}]
      BY <1>5, <2>3
    <3>2. QED
      BY <1>4, <3>1 DEF Systems
  <2>4. QED
    BY <2>1, <2>2, <2>3
<1>7. AccessorySection(s, bits) =
        IF "Stop" \notin bits \/ s2.state # "HOLD" THEN s2
        ELSE IF s2.spindleStop = {} THEN [s2 EXCEPT !.spindleStop = {"Initiate"}]
        ELSE IF "Enabled" \in s2.spindleStop THEN [s2 EXCEPT !.spindleStop = @ \cup {"Restore"}]
        ELSE s2
  BY <1>1, <1>3, <1>5 DEF AccessorySection
<1>8. PICK t : t = AccessorySection(s, bits)
  OBVIOUS
<1>9. CASE t = s2
  BY <1>6, <1>8, <1>9 DEF AccessoryCase
<1>10. CASE s2.state = "HOLD" /\ s2.spindleStop = {} /\ t = [s2 EXCEPT !.spindleStop = {"Initiate"}]
  <2>1. /\ t \in Systems /\ t.spindleStop = {"Initiate"} /\ t.state = s2.state /\ t.suspend = s2.suspend
        /\ t.stepControl = s2.stepControl /\ t.speed = s2.speed
    BY <1>6, <1>10 DEF Systems
  <2>2. QED
    BY <1>6, <1>8, <1>10, <2>1 DEF AccessoryCase
<1>11. CASE /\ s2.state = "HOLD" /\ "Enabled" \in s2.spindleStop
            /\ t = [s2 EXCEPT !.spindleStop = @ \cup {"Restore"}]
  <2>1. /\ t \in Systems /\ t.spindleStop = s2.spindleStop \cup {"Restore"}
        /\ t.state = s2.state /\ t.suspend = s2.suspend
        /\ t.stepControl = s2.stepControl /\ t.speed = s2.speed
    BY <1>6, <1>11 DEF Systems
  <2>2. QED
    BY <1>6, <1>8, <1>11, <2>1 DEF AccessoryCase
<1>12. QED
  BY <1>7, <1>8, <1>9, <1>10, <1>11

\* The reload changes what Prep changes, and nothing when there is no room.
LEMMA Reloads ==
  ASSUME NEW s \in Systems, NEW m \in Motions, NEW cut
  PROVE  /\ Prepared(s, m, Reloaded(s, m, cut))
         /\ s.state \in {"HOLD", "DOOR", "SLEEP"} => Full(Reloaded(s, m, cut).s, Reloaded(s, m, cut).m)
         /\ Full(s, m) => Reloaded(s, m, cut) = [s |-> s, m |-> m]
<1>1. CASE s.state \in {"CYCLE", "HOLD", "DOOR", "SLEEP"}
  BY <1>1, Prepares DEF Reloaded
<1>2. CASE s.state \notin {"CYCLE", "HOLD", "DOOR", "SLEEP"}
  <2>1. PICK c : c = [s |-> s, m |-> m]
    OBVIOUS
  <2>2. c.s = s /\ c.m = m /\ Len(m.queue) \in Nat
    BY <2>1 DEF Motions
  <2>3. Prepared(s, m, c)
    BY <2>2 DEF Prepared, Carries, Same
  <2>4. QED
    BY <1>2, <2>1, <2>3 DEF Reloaded
<1>3. QED
  BY <1>1, <1>2

-----------------------------------------------------------------------------
(* What the sections keep. *)

LEMMA HoldKeeps ==
  ASSUME NEW s, NEW m, NEW f, NEW t \in Systems, NEW n \in Motions,
         Part(s, m), Fits(f, s, m), HoldCase(s, m, f, t, n),
         n.queue = m.queue, n.on = m.on, n.segs = m.segs, n.loaded => m.loaded,
         t.speed = s.speed, t.spindleStop = s.spindleStop
  PROVE  Part(t, n) /\ StopFits(f, t, n)
<1>1. /\ s \in Systems /\ m \in Motions /\ Coherent(s) /\ Retracted(s) /\ Stopped(s, m)
      /\ Cutting(s, m) /\ Open(s, m)
  BY DEF Part, Core
<1>2. s.state \in States
  BY <1>1 DEF Systems
<1>3. CASE t = s /\ n = m
  BY <1>3 DEF Fits
<1>4. CASE ~(t = s /\ n = m)
  <2>1. Coherent(t)
    BY <1>1, <1>2, <1>4 DEF HoldCase, Coherent, Retracted, States
  <2>2. Retracted(t)
    BY <1>1, <1>2, <1>4 DEF HoldCase, Coherent, Retracted, States
  <2>3. Stopped(t, n)
    BY <1>1, <1>2, <1>4 DEF HoldCase, Coherent, Stopped, Off, Full, States
  <2>4. Open(t, n)
    BY <1>1, <1>2, <1>4 DEF HoldCase, Coherent, Retracted, Open, Full, Cutting, States
  <2>5. Cutting(t, n)
    BY <1>1, <1>2, <1>4 DEF HoldCase, Coherent, Cutting, States
  <2>6. StopFits(f, t, n)
    BY <1>1, <1>2, <1>4 DEF HoldCase, Fits, StopFits, Coherent, States
  <2>7. QED
    BY <2>1, <2>2, <2>3, <2>4, <2>5, <2>6 DEF Part, Core
<1>5. QED
  BY <1>3, <1>4

LEMMA StartKeeps ==
  ASSUME NEW s, NEW m, NEW f, NEW t \in Systems, NEW n \in Motions,
         Part(s, m), StopFits(f, s, m), StartCase(s, m, f, t, n),
         f \cap {"FeedHold", "SafetyDoor"} = {} /\ s.state = "HOLD" /\ "HoldComplete" \in s.suspend
           => "Initiate" \notin s.spindleStop
  PROVE  Part(t, n) /\ StopFits(f, t, n)
<1>1. /\ s \in Systems /\ m \in Motions /\ Coherent(s) /\ Retracted(s) /\ Stopped(s, m)
      /\ Cutting(s, m) /\ Open(s, m)
  BY DEF Part, Core
<1>2. CASE t = s /\ n = m
  BY <1>2
<1>3. CASE /\ s.state = "DOOR" /\ "RetractComplete" \in s.suspend /\ n = m
           /\ "RestoreComplete" \notin s.suspend
           /\ t = [s EXCEPT !.suspend = @ \cup {"InitiateRestore"}]
  <2>1. /\ t.suspend = s.suspend \cup {"InitiateRestore"} /\ t.state = s.state /\ t.speed = s.speed
        /\ t.stepControl = s.stepControl /\ t.spindleStop = s.spindleStop
    BY <1>1, <1>3 DEF Systems
  <2>2. Coherent(t) /\ Retracted(t)
    BY <1>1, <1>3, <2>1 DEF Coherent, Retracted
  <2>3. Stopped(t, n) /\ Open(t, n) /\ Cutting(t, n)
    BY <1>1, <1>3, <2>1 DEF Stopped, Open, Cutting, Off, Full, Retracted
  <2>4. StopFits(f, t, n)
    BY <1>3, <2>1 DEF StopFits
  <2>5. QED
    BY <2>2, <2>3, <2>4 DEF Part, Core
<1>4. CASE /\ s.state = "HOLD" /\ "HoldComplete" \in s.suspend /\ s.spindleStop # {} /\ n = m
           /\ t = [s EXCEPT !.spindleStop = @ \cup {"RestoreCycle"}]
           /\ "Initiate" \notin s.spindleStop
  <2>1. /\ t.suspend = s.suspend /\ t.state = s.state /\ t.speed = s.speed
        /\ t.stepControl = s.stepControl /\ t.spindleStop = s.spindleStop \cup {"RestoreCycle"}
    BY <1>1, <1>4 DEF Systems
  <2>2. Off(s)
    BY <1>1, <1>4 DEF Off, Systems
  <2>3. Coherent(t) /\ Retracted(t)
    BY <1>1, <1>4, <2>1 DEF Coherent, Retracted
  <2>4. Stopped(t, n) /\ Open(t, n) /\ Cutting(t, n)
    BY <1>1, <1>4, <2>1, <2>2 DEF Stopped, Open, Cutting, Full
  <2>5. StopFits(f, t, n)
    BY <1>4, <2>1 DEF StopFits
  <2>6. QED
    BY <2>3, <2>4, <2>5 DEF Part, Core
<1>5. CASE Goes(s, m, f, t, n)
  <2>1. s.spindleStop = {} /\ t.spindleStop = {} /\ t.suspend = {} /\ t.state \in {"IDLE", "CYCLE"}
    BY <1>1, <1>5 DEF Goes, Coherent, Retracted
  <2>2. Coherent(t) /\ Retracted(t) /\ Stopped(t, n) /\ Open(t, n)
    BY <2>1 DEF Coherent, Retracted, Stopped, Open, Off
  <2>3. Cutting(t, n)
    BY <1>1, <1>5, <2>1 DEF Goes, Carries, Cutting, Coherent, Retracted
  <2>4. "CycleStop" \notin f
    BY <1>1, <1>5 DEF Goes, StopFits, Coherent, Retracted
  <2>5. QED
    BY <2>2, <2>3, <2>4 DEF Part, Core, StopFits
<1>6. QED
  BY <1>2, <1>3, <1>4, <1>5 DEF StartCase

LEMMA StopKeeps ==
  ASSUME NEW s, NEW m, NEW f, NEW t \in Systems, NEW n \in Motions,
         Part(s, m), StopFits(f, s, m), StopCase(s, m, f, t, n)
  PROVE  Part(t, n)
<1>1. /\ s \in Systems /\ m \in Motions /\ Coherent(s) /\ Retracted(s) /\ Stopped(s, m)
      /\ Cutting(s, m) /\ Open(s, m)
  BY DEF Part, Core
<1>2. CASE t = s /\ n = m
  BY <1>2
<1>3. CASE /\ "CycleStop" \in f /\ s.state \in {"HOLD", "DOOR"}
           /\ t = [s EXCEPT !.suspend = @ \cup {"HoldComplete"}, !.stepControl = @ \ {"Hold"}]
           /\ n = [m EXCEPT !.loaded = FALSE]
  <2>1. /\ t.suspend = s.suspend \cup {"HoldComplete"} /\ t.stepControl = s.stepControl \ {"Hold"}
        /\ t.state = s.state /\ t.speed = s.speed /\ t.spindleStop = s.spindleStop
        /\ n.queue = m.queue /\ n.segs = m.segs /\ n.on = m.on /\ n.loaded = FALSE
    BY <1>1, <1>3 DEF Systems, Motions
  <2>2. Coherent(t) /\ Retracted(t)
    BY <1>1, <1>3, <2>1 DEF Coherent, Retracted
  <2>3. ~Off(t) /\ "RetractComplete" \notin t.suspend /\ ~m.on
    BY <1>1, <1>3, <2>1 DEF StopFits, Stopped, Retracted, Off
  <2>4. Stopped(t, n) /\ Open(t, n) /\ Cutting(t, n)
    BY <1>1, <1>3, <2>1, <2>3 DEF Stopped, Open, Cutting
  <2>5. QED
    BY <2>2, <2>4 DEF Part, Core
<1>4. CASE /\ "CycleStop" \in f /\ s.state = "CYCLE"
           /\ t = [s EXCEPT !.suspend = {}, !.state = "IDLE"] /\ n = m
  <2>1. t.suspend = {} /\ t.state = "IDLE" /\ t.spindleStop = {} /\ ~m.on
    BY <1>1, <1>4 DEF Systems, Coherent, StopFits
  <2>2. Coherent(t) /\ Retracted(t) /\ Stopped(t, n) /\ Open(t, n) /\ Cutting(t, n)
    BY <1>1, <1>4, <2>1 DEF Coherent, Retracted, Stopped, Open, Cutting, Off
  <2>3. QED
    BY <2>2 DEF Part, Core
<1>5. QED
  BY <1>2, <1>3, <1>4 DEF StopCase

LEMMA AccessoryKeeps ==
  ASSUME NEW s, NEW m, NEW t \in Systems, Part(s, m), AccessoryCase(s, t)
  PROVE  Part(t, m)
<1>1. /\ s \in Systems /\ m \in Motions /\ Coherent(s) /\ Retracted(s) /\ Stopped(s, m)
      /\ Cutting(s, m) /\ Open(s, m)
  BY DEF Part, Core
<1>2. Off(t) => Off(s)
  BY DEF AccessoryCase, Off
<1>3. s.state # "IDLE" => t.speed = s.speed
  BY DEF AccessoryCase
<1>4. Coherent(t)
  BY <1>1, <1>3 DEF AccessoryCase, Coherent
<1>5. Retracted(t)
  BY <1>1 DEF AccessoryCase, Retracted
<1>6. Full(s, m) => Full(t, m)
  BY DEF AccessoryCase, Full
<1>7. Stopped(t, m) /\ Open(t, m) /\ Cutting(t, m)
  <2>1. s.state = "IDLE" => ~Off(t) /\ "RetractComplete" \notin t.suspend
    BY <1>1, <1>2 DEF AccessoryCase, Coherent, Off
  <2>2. QED
    BY <1>1, <1>2, <1>3, <1>6, <2>1 DEF AccessoryCase, Stopped, Open, Cutting
<1>8. QED
  BY <1>1, <1>4, <1>5, <1>7 DEF Part, Core

LEMMA ReloadKeeps ==
  ASSUME NEW s, NEW m, NEW cut, NEW c, Part(s, m), c = Reloaded(s, m, cut)
  PROVE  /\ Part(c.s, c.m) /\ Same(s, c.s) /\ Carries(s, m, c.s, c.m) /\ c.m.on = m.on
         /\ "HoldComplete" \in c.s.suspend => Full(c.s, c.m)
         /\ Full(s, m) => c.s = s /\ c.m = m
<1>1. /\ s \in Systems /\ m \in Motions /\ Coherent(s) /\ Retracted(s) /\ Stopped(s, m)
      /\ Cutting(s, m) /\ Open(s, m)
  BY DEF Part, Core
<1>2. /\ c.s \in Systems /\ c.m \in Motions /\ Same(s, c.s) /\ c.m.on = m.on
      /\ Carries(s, m, c.s, c.m)
      /\ s.state \in {"HOLD", "DOOR", "SLEEP"} => Full(c.s, c.m)
      /\ Full(s, m) => c = [s |-> s, m |-> m]
  BY <1>1, Reloads DEF Prepared
<1>3. "HoldComplete" \in c.s.suspend => Full(c.s, c.m)
  BY <1>1, <1>2 DEF Same, Coherent, Systems, States
<1>4. Full(s, m) => c.s = s /\ c.m = m
  BY <1>2
<1>5. s.state = "ALARM" => c.s = s /\ c.m = m
  BY <1>1, <1>4 DEF Cutting, Full
<1>6. Coherent(c.s)
  BY <1>1, <1>2, <1>5 DEF Same, Coherent
<1>7. Retracted(c.s)
  BY <1>1, <1>2 DEF Same, Retracted
<1>8. Off(c.s) <=> Off(s)
  BY <1>2 DEF Same, Off
<1>9. Stopped(c.s, c.m)
  BY <1>1, <1>2, <1>4, <1>8 DEF Same, Stopped
<1>10. Open(c.s, c.m)
  BY <1>1, <1>2, <1>4 DEF Same, Open
<1>11. Cutting(c.s, c.m)
  BY <1>1, <1>2, <1>5 DEF Same, Carries, Cutting
<1>12. QED
  BY <1>2, <1>3, <1>4, <1>6, <1>7, <1>9, <1>10, <1>11 DEF Part, Core

\* The spindle runs as programmed after a section, if it did before.
LEMMA SectionsRun ==
  ASSUME NEW s, NEW m, NEW f, NEW t, NEW n, NEW r \in BOOLEAN, Part(s, m), Runs_as(s, r), Queued_as(m, r)
  PROVE  /\ HoldCase(s, m, f, t, n) /\ t.speed = s.speed /\ t.spindleStop = s.spindleStop => Runs_as(t, r)
         /\ StartCase(s, m, f, t, n) => Runs_as(t, r)
         /\ StopCase(s, m, f, t, n) => Runs_as(t, r)
         /\ AccessoryCase(s, t) /\ r = Runs(modal) => Runs_as(t, r)
         /\ Same(s, t) /\ Carries(s, m, t, n) => Runs_as(t, r)
<1>1. /\ s \in Systems /\ m \in Motions /\ Coherent(s) /\ Retracted(s)
  BY DEF Part, Core
<1>2. s.state \in States
  BY <1>1 DEF Systems
<1>3. ASSUME HoldCase(s, m, f, t, n), t.speed = s.speed, t.spindleStop = s.spindleStop
      PROVE  Runs_as(t, r)
  <2>1. Off(t) <=> Off(s)
    BY <1>3 DEF Off
  <2>2. (t.state \in {"DOOR", "SLEEP"} => "RestoreComplete" \in t.suspend)
          => (s.state \in {"DOOR", "SLEEP"} => "RestoreComplete" \in s.suspend)
    BY <1>1, <1>2, <1>3 DEF HoldCase, States, Coherent, Retracted
  <2>3. QED
    BY <1>3, <2>1, <2>2 DEF Runs_as
<1>4. ASSUME StartCase(s, m, f, t, n) PROVE Runs_as(t, r)
  <2>1. CASE t = s
    BY <2>1
  <2>2. CASE /\ s.state = "DOOR" /\ "RestoreComplete" \notin s.suspend
             /\ t = [s EXCEPT !.suspend = @ \cup {"InitiateRestore"}]
    <3>1. t.state = "DOOR" /\ "RestoreComplete" \notin t.suspend
      BY <1>1, <2>2 DEF Systems
    <3>2. QED
      BY <3>1 DEF Runs_as
  <2>3. CASE t = [s EXCEPT !.spindleStop = @ \cup {"RestoreCycle"}]
    <3>1. Off(t)
      BY <1>1, <2>3 DEF Systems, Off
    <3>2. QED
      BY <3>1 DEF Runs_as
  <2>4. CASE Goes(s, m, f, t, n)
    <3>1. ~Off(s) /\ (s.state \in {"DOOR", "SLEEP"} => "RestoreComplete" \in s.suspend)
      BY <1>1, <2>4 DEF Goes, Off, Coherent, Retracted
    <3>2. (s.speed > 0) = r
      BY <3>1 DEF Runs_as
    <3>3. (t.speed > 0) = r
      BY <2>4, <3>2 DEF Goes, Carries
    <3>4. QED
      BY <3>3 DEF Runs_as
  <2>5. QED
    BY <1>4, <2>1, <2>2, <2>3, <2>4 DEF StartCase
<1>5. ASSUME StopCase(s, m, f, t, n) PROVE Runs_as(t, r)
  <2>1. /\ t.speed = s.speed /\ t.spindleStop = s.spindleStop
        /\ t.state = s.state \/ s.state = "CYCLE"
        /\ t.state \in {"DOOR", "SLEEP"} => t.state = s.state
        /\ "RestoreComplete" \in t.suspend => "RestoreComplete" \in s.suspend
    <3>1. CASE t = s
      BY <3>1
    <3>2. CASE t = [s EXCEPT !.suspend = @ \cup {"HoldComplete"}, !.stepControl = @ \ {"Hold"}]
      BY <1>1, <3>2 DEF Systems
    <3>3. CASE s.state = "CYCLE" /\ t = [s EXCEPT !.suspend = {}, !.state = "IDLE"]
      BY <1>1, <3>3 DEF Systems
    <3>4. QED
      BY <1>5, <3>1, <3>2, <3>3 DEF StopCase
  <2>2. Off(t) <=> Off(s)
    BY <2>1 DEF Off
  <2>3. QED
    BY <2>1, <2>2 DEF Runs_as
<1>6. ASSUME AccessoryCase(s, t), r = Runs(modal) PROVE Runs_as(t, r)
  <2>1. Off(s) => Off(t)
    BY <1>6 DEF AccessoryCase, Off
  <2>2. CASE t.speed = s.speed
    BY <1>6, <2>1, <2>2 DEF AccessoryCase, Runs_as
  <2>3. CASE t.speed > 0 <=> Runs(modal)
    BY <1>6, <2>3 DEF Runs_as
  <2>4. QED
    BY <1>6, <2>2, <2>3 DEF AccessoryCase
<1>7. ASSUME Same(s, t), Carries(s, m, t, n) PROVE Runs_as(t, r)
  <2>1. Off(t) <=> Off(s)
    BY <1>7 DEF Same, Off
  <2>2. (s.speed > 0) = r => (t.speed > 0) = r
    BY <1>7 DEF Carries
  <2>3. QED
    BY <1>7, <2>1, <2>2 DEF Same, Runs_as
<1>8. QED
  BY <1>3, <1>4, <1>5, <1>6, <1>7

-----------------------------------------------------------------------------
(* A pass of the executor. *)

\* The states after the hold, start, stop and accessory sections, and after the
\* reload of the segment buffer.
Chain(f, cut, t1, n1, t2, n2, t3, n3, t4, c) ==
  /\ Part(sys, motion) /\ Fits(f, sys, motion)
  /\ HoldCase(sys, motion, f, t1, n1)
  /\ n1.queue = motion.queue /\ t1.speed = sys.speed /\ t1.spindleStop = sys.spindleStop
  /\ Part(t1, n1) /\ StopFits(f, t1, n1)
  /\ StartCase(t1, n1, f, t2, n2) /\ Part(t2, n2) /\ StopFits(f, t2, n2)
  /\ StopCase(t2, n2, f, t3, n3) /\ Part(t3, n3)
  /\ AccessoryCase(t3, t4) /\ Part(t4, n3)
  /\ Part(c.s, c.m) /\ Same(t4, c.s) /\ Carries(t4, n3, c.s, c.m)
  /\ "HoldComplete" \in c.s.suspend => Full(c.s, c.m)

\* What else a pass does.
PassEnds(auto, f, c) ==
  /\ pc \in Calling /\ (auto => pc = "loop")
  /\ f = flags \cup (IF auto THEN AutoStart ELSE {})
  /\ Proceed(f, c)

LEMMA PassChain ==
  ASSUME IInv, NEW auto \in BOOLEAN, NEW cut, Pass(auto, cut)
  PROVE  \E f, t1, n1, t2, n2, t3, n3, t4, c :
           Chain(f, cut, t1, n1, t2, n2, t3, n3, t4, c) /\ PassEnds(auto, f, c)
<1>1. /\ sys \in Systems /\ motion \in Motions /\ Core(sys, motion) /\ modal \in Spindle
      /\ pc \in Calling /\ FlagInv /\ PcInv /\ (pc # "restoring" => Open(sys, motion))
  BY DEF IInv, Types, SysInv, Pass
<1>2. Part(sys, motion)
  BY <1>1 DEF Part, Calling
<1>3. PICK f, hold, start, stop, after :
        /\ f = flags \cup (IF auto THEN AutoStart ELSE {})
        /\ hold = HoldSection(sys, motion, f)
        /\ start = StartSection(hold.s, hold.m, f, cut)
        /\ stop = StopSection(start.s, start.m, f)
        /\ after = Reloaded(AccessorySection(stop.s, accessory), stop.m, cut)
        /\ PassEnds(auto, f, after)
  BY DEF Pass, PassEnds
<1>4. Fits(f, sys, motion)
  <2>1. AutoStart \subseteq {"CycleStart"}
    BY DEF AutoStart
  <2>2. \A x \in {"Sleep", "CycleStop"} : x \in f => x \in flags
    BY <1>3, <2>1
  <2>3. QED
    BY <1>1, <2>2 DEF FlagInv, Fits, StopFits
<1>5. PICK t1 \in Systems, n1 \in Motions :
        /\ hold = [s |-> t1, m |-> n1] /\ HoldCase(sys, motion, f, t1, n1)
        /\ n1.queue = motion.queue /\ n1.on = motion.on /\ n1.segs = motion.segs
        /\ n1.loaded => motion.loaded
        /\ t1.speed = sys.speed /\ t1.override = sys.override /\ t1.spindleStop = sys.spindleStop
  <2>1. hold = HoldSection(sys, motion, f)
    BY <1>3
  <2>2. QED
    BY <1>2, <1>4, <2>1, HoldCases
<1>6. Part(t1, n1) /\ StopFits(f, t1, n1)
  BY <1>2, <1>4, <1>5, HoldKeeps
<1>7. PICK t2 \in Systems, n2 \in Motions :
        start = [s |-> t2, m |-> n2] /\ StartCase(t1, n1, f, t2, n2)
  <2>1. hold.s = t1 /\ hold.m = n1
    BY <1>5
  <2>2. start = StartSection(hold.s, hold.m, f, cut)
    BY <1>3
  <2>3. start = StartSection(t1, n1, f, cut)
    BY <2>1, <2>2
  <2>4. QED
    BY <1>6, <2>3, StartCases
<1>8. f \cap {"FeedHold", "SafetyDoor"} = {} /\ t1.state = "HOLD" /\ "HoldComplete" \in t1.suspend
        => "Initiate" \notin t1.spindleStop
  <2> SUFFICES ASSUME f \cap {"FeedHold", "SafetyDoor"} = {}, t1.state = "HOLD",
                      "HoldComplete" \in t1.suspend, t1.spindleStop # {}
               PROVE  "Initiate" \notin t1.spindleStop
    OBVIOUS
  <2>1. Coherent(sys) /\ sys.spindleStop # {}
    BY <1>1, <1>5 DEF Core
  <2>2. sys.state \in {"HOLD", "DOOR"}
    BY <2>1 DEF Coherent
  <2>3. t1.suspend = sys.suspend
    BY <1>5, <2>2 DEF HoldCase
  <2>4. pc = "suspendPass"
    BY <1>1, <2>2, <2>3 DEF PcInv, Suspended, Calling
  <2>5. QED
    BY <1>1, <1>5, <2>3, <2>4 DEF PcInv
<1>9. Part(t2, n2) /\ StopFits(f, t2, n2)
  BY <1>6, <1>7, <1>8, StartKeeps
<1>10. PICK t3 \in Systems, n3 \in Motions :
         stop = [s |-> t3, m |-> n3] /\ StopCase(t2, n2, f, t3, n3)
  <2>1. start.s = t2 /\ start.m = n2
    BY <1>7
  <2>2. stop = StopSection(start.s, start.m, f)
    BY <1>3
  <2>3. stop = StopSection(t2, n2, f)
    BY <2>1, <2>2
  <2>4. QED
    BY <1>9, <2>3, StopCases
<1>11. Part(t3, n3)
  BY <1>9, <1>10, StopKeeps
<1>12. PICK t4 : t4 = AccessorySection(t3, accessory)
  OBVIOUS
<1>13. t4 \in Systems /\ AccessoryCase(t3, t4)
  BY <1>1, <1>12, AccessoryCases
<1>14. Part(t4, n3)
  BY <1>11, <1>13, AccessoryKeeps
<1>15. after = Reloaded(t4, n3, cut)
  <2>1. stop.s = t3 /\ stop.m = n3
    BY <1>10
  <2>2. after = Reloaded(AccessorySection(stop.s, accessory), stop.m, cut)
    BY <1>3
  <2>3. QED
    BY <1>12, <2>1, <2>2
<1>16. /\ Part(after.s, after.m) /\ Same(t4, after.s) /\ Carries(t4, n3, after.s, after.m)
       /\ "HoldComplete" \in after.s.suspend => Full(after.s, after.m)
  BY <1>14, <1>15, ReloadKeeps
<1>17. Chain(f, cut, t1, n1, t2, n2, t3, n3, t4, after)
  BY <1>2, <1>4, <1>5, <1>6, <1>7, <1>9, <1>10, <1>11, <1>13, <1>14, <1>16 DEF Chain
<1>18. PassEnds(auto, f, after)
  BY <1>3
<1>19. QED
  BY <1>17, <1>18

\* A stopped machine goes on only with a cycle start.
LEMMA ChainNeedsStart ==
  ASSUME NEW f, NEW cut, NEW t1, NEW n1, NEW t2, NEW n2, NEW t3, NEW n3, NEW t4, NEW c,
         Chain(f, cut, t1, n1, t2, n2, t3, n3, t4, c)
  PROVE  /\ sys.state \in {"HOLD", "DOOR"} /\ c.s.state \in {"IDLE", "CYCLE"}
              => "CycleStart" \in f /\ sys.suspend # {}
         /\ "InitiateRestore" \in c.s.suspend =>
              /\ c.s.state = "DOOR" /\ f \cap {"SafetyDoor", "Sleep"} = {}
              /\ "InitiateRestore" \in sys.suspend \/ ("CycleStart" \in f /\ sys.suspend # {})
         /\ "RestoreCycle" \in c.s.spindleStop =>
              \/ "RestoreCycle" \in sys.spindleStop
              \/ /\ c.s.state = "HOLD" /\ f \cap Stops = {} /\ c.s.suspend # {}
                 /\ "CycleStart" \in f /\ sys.suspend # {}
         /\ sys.state = "SLEEP" => c.s.state = "SLEEP" /\ c.s.suspend # {}
         /\ c.s.state = "ALARM" => sys.state = "ALARM" /\ c.s.suspend = {}
<1>1. /\ sys \in Systems /\ Coherent(sys) /\ Retracted(sys) /\ Fits(f, sys, motion)
      /\ t1 \in Systems /\ Coherent(t1) /\ Retracted(t1) /\ StopFits(f, t1, n1)
      /\ t2 \in Systems /\ Coherent(t2) /\ Retracted(t2) /\ StopFits(f, t2, n2)
      /\ t3 \in Systems /\ Coherent(t3) /\ Retracted(t3)
      /\ c.s \in Systems /\ Coherent(c.s) /\ Retracted(c.s)
  BY DEF Chain, Part, Core
<1>2. /\ HoldCase(sys, motion, f, t1, n1) /\ StartCase(t1, n1, f, t2, n2)
      /\ StopCase(t2, n2, f, t3, n3) /\ AccessoryCase(t3, t4) /\ Same(t4, c.s)
      /\ t1.spindleStop = sys.spindleStop
  BY DEF Chain
<1>3. sys.state \in States /\ t1.state \in States /\ t2.state \in States /\ t3.state \in States
  BY <1>1 DEF Systems
\* The accessory section and the reload keep state and suspend bits.
<1>4. /\ c.s.state = t3.state /\ c.s.suspend = t3.suspend
      /\ "RestoreCycle" \in c.s.spindleStop => "RestoreCycle" \in t3.spindleStop
  BY <1>2 DEF AccessoryCase, Same
<1>5. /\ t3.state = t2.state \/ (t2.state = "CYCLE" /\ t3.state = "IDLE")
      /\ "InitiateRestore" \in t3.suspend => "InitiateRestore" \in t2.suspend
      /\ t3.spindleStop = t2.spindleStop
      /\ t2.state = "HOLD" /\ t2.suspend # {} => t3.suspend # {}
  <2>1. CASE t3 = t2
    BY <2>1
  <2>2. CASE t3 = [t2 EXCEPT !.suspend = @ \cup {"HoldComplete"}, !.stepControl = @ \ {"Hold"}]
    BY <1>1, <2>2 DEF Systems
  <2>3. CASE t2.state = "CYCLE" /\ t3 = [t2 EXCEPT !.suspend = {}, !.state = "IDLE"]
    BY <1>1, <2>3 DEF Systems
  <2>4. QED
    BY <1>2, <2>1, <2>2, <2>3 DEF StopCase
<1>6. \/ t2 = t1
      \/ /\ "CycleStart" \in f /\ f \cap {"FeedHold", "SafetyDoor"} = {}
         /\ \/ /\ t1.state = "DOOR" /\ "RetractComplete" \in t1.suspend
               /\ t2.state = t1.state /\ t2.spindleStop = t1.spindleStop
            \/ /\ t1.state = "HOLD" /\ "HoldComplete" \in t1.suspend /\ t1.spindleStop # {}
               /\ t2.state = t1.state /\ t2.suspend = t1.suspend
      \/ /\ "CycleStart" \in f /\ f \cap {"FeedHold", "SafetyDoor"} = {}
         /\ t1.state \in {"IDLE", "DOOR", "HOLD"} /\ t2.state \in {"IDLE", "CYCLE"}
         /\ t1.state # "IDLE" => t1.suspend # {}
         /\ t2.suspend = {} /\ t2.spindleStop = {}
  <2>1. CASE t2 = t1
    BY <2>1
  <2>2. CASE t2 = [t1 EXCEPT !.suspend = @ \cup {"InitiateRestore"}]
    BY <1>1, <1>2, <2>2 DEF Systems, StartCase, Goes
  <2>3. CASE t2 = [t1 EXCEPT !.spindleStop = @ \cup {"RestoreCycle"}]
    BY <1>1, <1>2, <2>3 DEF Systems, StartCase, Goes
  <2>4. CASE Goes(t1, n1, f, t2, n2)
    BY <1>1, <2>4 DEF Goes, Coherent, Retracted
  <2>5. QED
    BY <1>2, <2>1, <2>2, <2>3, <2>4 DEF StartCase
<1>7. \/ t1 = sys /\ (f \cap Stops = {} \/ sys.state = "ALARM")
      \/ /\ sys.state = "ALARM" /\ t1.state = "SLEEP"
      \/ /\ sys.state = "IDLE" /\ "RetractComplete" \notin t1.suspend /\ t1.spindleStop = {}
         /\ t1.state \in {"HOLD", "DOOR", "SLEEP"}
         /\ "CycleStart" \in f /\ f \cap {"FeedHold", "SafetyDoor"} = {} => t1.state = "SLEEP"
      \/ /\ sys.state = "CYCLE" /\ f \cap {"FeedHold", "SafetyDoor"} # {}
         /\ "RetractComplete" \notin t1.suspend /\ t1.spindleStop = {}
         /\ t1.state \in {"HOLD", "DOOR"}
      \/ /\ sys.state \in {"HOLD", "DOOR", "SLEEP"} /\ "Sleep" \notin f /\ f \cap Stops # {}
         /\ t1.state \in {"HOLD", "DOOR", "SLEEP"} /\ (sys.state = "SLEEP" => t1.state = "SLEEP")
         /\ "SafetyDoor" \notin f => t1.suspend = sys.suspend /\ t1.state = sys.state
         /\ "InitiateRestore" \in t1.suspend => "InitiateRestore" \in sys.suspend /\ "SafetyDoor" \notin f
  <2>1. CASE t1 = sys /\ (f \cap Stops = {} \/ sys.state = "ALARM")
    BY <2>1
  <2>2. CASE sys.state = "ALARM"
    BY <1>2, <2>2 DEF HoldCase
  <2>3. CASE sys.state = "IDLE" /\ f \cap Stops # {}
    <3>1. /\ t1.suspend = {"HoldComplete"} \cup (IF "SafetyDoor" \in f THEN {"DoorAjar"} ELSE {})
          /\ t1.state = IF "Sleep" \in f THEN "SLEEP" ELSE IF "SafetyDoor" \in f THEN "DOOR" ELSE "HOLD"
      BY <1>2, <2>3 DEF HoldCase
    <3>2. t1.spindleStop = {}
      BY <1>1, <1>2, <2>3 DEF Coherent
    <3>3. QED
      BY <2>3, <3>1, <3>2 DEF Stops
  <2>4. CASE sys.state = "CYCLE" /\ f \cap Stops # {}
    <3>1. /\ t1.suspend = sys.suspend \cup (IF "SafetyDoor" \in f THEN {"DoorAjar"} ELSE {})
          /\ t1.state = IF "SafetyDoor" \in f THEN "DOOR" ELSE "HOLD"
      BY <1>2, <2>4 DEF HoldCase
    <3>2. sys.suspend = {} /\ sys.spindleStop = {} /\ "Sleep" \notin f
      BY <1>1, <2>4 DEF Coherent, Fits
    <3>3. QED
      BY <1>2, <2>4, <3>1, <3>2 DEF Stops
  <2>5. CASE sys.state \in {"HOLD", "DOOR", "SLEEP"} /\ f \cap Stops # {}
    <3>1. "Sleep" \notin f
      BY <1>1, <2>5 DEF Fits
    <3>2. CASE "SafetyDoor" \notin f
      BY <1>2, <2>5, <3>1, <3>2 DEF HoldCase
    <3>3. CASE "SafetyDoor" \in f
      <4>1. t1.state = IF sys.state = "SLEEP" THEN "SLEEP" ELSE "DOOR"
        BY <1>2, <2>5, <3>3 DEF HoldCase
      <4>2. "InitiateRestore" \notin t1.suspend
        BY <1>1, <1>2, <2>5, <3>3 DEF HoldCase, Retracted
      <4>3. QED
        BY <2>5, <3>1, <3>3, <4>1, <4>2
    <3>4. QED
      BY <3>2, <3>3
  <2>6. QED
    BY <1>2, <1>3, <2>1, <2>2, <2>3, <2>4, <2>5 DEF States, HoldCase
<1>8. sys.state \in {"HOLD", "DOOR"} /\ c.s.state \in {"IDLE", "CYCLE"}
        => "CycleStart" \in f /\ sys.suspend # {}
  BY <1>3, <1>4, <1>5, <1>6, <1>7 DEF Stops
<1>9. ASSUME "InitiateRestore" \in c.s.suspend
      PROVE  /\ c.s.state = "DOOR" /\ f \cap {"SafetyDoor", "Sleep"} = {}
             /\ "InitiateRestore" \in sys.suspend \/ ("CycleStart" \in f /\ sys.suspend # {})
  <2>1. c.s.state = "DOOR" /\ "InitiateRestore" \in t2.suspend /\ t2.state = "DOOR"
    BY <1>1, <1>4, <1>5, <1>9 DEF Retracted
  <2>2. t1.state = "DOOR" /\ "RetractComplete" \in t1.suspend
    BY <1>1, <1>6, <2>1 DEF Retracted
  <2>3. CASE t1 = sys
    <3>1. f \cap {"SafetyDoor", "Sleep"} = {}
      BY <1>6, <1>7, <2>1, <2>2, <2>3 DEF Stops
    <3>2. QED
      BY <1>6, <2>1, <2>2, <2>3, <3>1
  <2>4. CASE sys.state \in {"HOLD", "DOOR", "SLEEP"} /\ "Sleep" \notin f
    BY <1>6, <1>7, <2>1, <2>2, <2>4 DEF Stops
  <2>5. QED
    BY <1>7, <2>2, <2>3, <2>4
<1>10. ASSUME "RestoreCycle" \in c.s.spindleStop, "RestoreCycle" \notin sys.spindleStop
       PROVE  /\ c.s.state = "HOLD" /\ f \cap Stops = {} /\ c.s.suspend # {}
              /\ "CycleStart" \in f /\ sys.suspend # {}
  <2>1. "RestoreCycle" \in t2.spindleStop /\ "RestoreCycle" \notin t1.spindleStop
    BY <1>2, <1>4, <1>5, <1>10
  <2>2. /\ "CycleStart" \in f /\ f \cap {"FeedHold", "SafetyDoor"} = {}
        /\ t1.state = "HOLD" /\ "HoldComplete" \in t1.suspend /\ t1.spindleStop # {}
        /\ t2.state = t1.state /\ t2.suspend = t1.suspend
    BY <1>6, <2>1
  <2>3. sys.state = "HOLD" /\ t1.suspend = sys.suspend /\ f \cap Stops = {}
    BY <1>7, <2>2 DEF Stops
  <2>4. c.s.state = "HOLD"
    BY <1>4, <1>5, <2>2
  <2>5. c.s.suspend # {}
    <3>1. t2.suspend # {} /\ t2.state = "HOLD"
      BY <2>2
    <3>2. t3.suspend # {}
      BY <1>5, <3>1
    <3>3. QED
      BY <1>4, <3>2
  <2>6. QED
    BY <2>2, <2>3, <2>4, <2>5
<1>11. sys.state = "SLEEP" => c.s.state = "SLEEP" /\ c.s.suspend # {}
  BY <1>1, <1>4, <1>5, <1>6, <1>7 DEF Coherent
<1>12. c.s.state = "ALARM" => sys.state = "ALARM" /\ c.s.suspend = {}
  BY <1>1, <1>4, <1>5, <1>6, <1>7 DEF Coherent
<1>13. QED
  BY <1>8, <1>9, <1>10, <1>11, <1>12

\* The blocks stay those of the parser's spindle, and it runs as they say.
LEMMA ChainRuns ==
  ASSUME NEW f, NEW cut, NEW t1, NEW n1, NEW t2, NEW n2, NEW t3, NEW n3, NEW t4, NEW c, NEW r \in BOOLEAN,
         Chain(f, cut, t1, n1, t2, n2, t3, n3, t4, c), Queued_as(motion, r), r = Runs(modal)
  PROVE  Queued_as(c.m, r) /\ (Runs_as(sys, r) => Runs_as(c.s, r))
<1>1. /\ Part(sys, motion) /\ Part(t1, n1) /\ Part(t2, n2) /\ Part(t3, n3) /\ Part(t4, n3)
      /\ HoldCase(sys, motion, f, t1, n1) /\ n1.queue = motion.queue
      /\ t1.speed = sys.speed /\ t1.spindleStop = sys.spindleStop
      /\ StartCase(t1, n1, f, t2, n2) /\ StopCase(t2, n2, f, t3, n3) /\ AccessoryCase(t3, t4)
      /\ Same(t4, c.s) /\ Carries(t4, n3, c.s, c.m)
  BY DEF Chain
<1>2. Queued_as(n1, r)
  BY <1>1 DEF Queued_as
<1>3. Queued_as(n2, r)
  BY <1>1, <1>2 DEF StartCase, Goes, Carries
<1>4. Queued_as(n3, r)
  <2>1. n3.queue = n2.queue
    BY <1>1 DEF StopCase, Part, Motions
  <2>2. QED
    BY <1>3, <2>1 DEF Queued_as
<1>5. Queued_as(c.m, r)
  BY <1>1, <1>4 DEF Carries
<1>6. ASSUME Runs_as(sys, r) PROVE Runs_as(c.s, r)
  <2>1. Runs_as(t1, r)
    BY <1>1, <1>6, SectionsRun
  <2>2. Runs_as(t2, r)
    BY <1>1, <1>2, <2>1, SectionsRun
  <2>3. Runs_as(t3, r)
    BY <1>1, <1>3, <2>2, SectionsRun
  <2>4. Runs_as(t4, r)
    BY <1>1, <1>4, <2>3, SectionsRun
  <2>5. QED
    BY <1>1, <1>4, <2>4, SectionsRun
<1>7. QED
  BY <1>5, <1>6

LEMMA ChainShortens ==
  ASSUME NEW f, NEW cut, NEW t1, NEW n1, NEW t2, NEW n2, NEW t3, NEW n3, NEW t4, NEW c,
         Chain(f, cut, t1, n1, t2, n2, t3, n3, t4, c)
  PROVE  Len(c.m.queue) <= Len(motion.queue)
<1>1. /\ motion \in Motions /\ n1 \in Motions /\ n2 \in Motions /\ n3 \in Motions /\ c.m \in Motions
      /\ n1.queue = motion.queue /\ StartCase(t1, n1, f, t2, n2) /\ StopCase(t2, n2, f, t3, n3)
      /\ Carries(t4, n3, c.s, c.m)
  BY DEF Chain, Part
<1>2. n3.queue = n2.queue
  BY <1>1 DEF StopCase, Motions
<1>3. /\ Len(motion.queue) \in Nat /\ Len(n1.queue) \in Nat /\ Len(n2.queue) \in Nat
      /\ Len(c.m.queue) \in Nat
  BY <1>1 DEF Motions
<1>4. Len(n2.queue) <= Len(n1.queue)
  BY <1>1, <1>3 DEF StartCase, Goes, Carries
<1>5. Len(c.m.queue) <= Len(n3.queue)
  BY <1>1 DEF Carries
<1>6. QED
  BY <1>1, <1>2, <1>3, <1>4, <1>5

LEMMA PassKeeps ==
  ASSUME IInv, NEW auto \in BOOLEAN, NEW cut, Pass(auto, cut)
  PROVE  /\ IInv'
         /\ sys.state \in {"HOLD", "DOOR"} /\ sys'.state \in {"IDLE", "CYCLE"} => asked
<1>1. PICK f, t1, n1, t2, n2, t3, n3, t4, c :
        Chain(f, cut, t1, n1, t2, n2, t3, n3, t4, c) /\ PassEnds(auto, f, c)
  BY PassChain
<1>2. /\ c.s \in Systems /\ c.m \in Motions /\ Core(c.s, c.m) /\ Open(c.s, c.m)
      /\ "HoldComplete" \in c.s.suspend => Full(c.s, c.m)
  BY <1>1 DEF Chain, Part
<1>3. /\ pc \in Calling /\ (auto => pc = "loop")
      /\ f = flags \cup (IF auto THEN AutoStart ELSE {})
      /\ sys' = c.s /\ motion' = c.m /\ flags' = {}
      /\ pc' = IF pc = "asleep" THEN pc
               ELSE IF c.s.suspend # {} THEN "suspend"
               ELSE IF cmd = NoCmd THEN "loop" ELSE "check"
      /\ UNCHANGED <<modal, laser, cmd, lines, requests>>
  BY <1>1 DEF PassEnds, Proceed
<1>4. asked' = (asked /\ f \cap {"SafetyDoor", "Sleep"} = {}
                /\ ~("FeedHold" \in f /\ c.s.state = "HOLD")
                /\ c.s.state \notin {"IDLE", "CYCLE"})
  BY <1>1 DEF PassEnds, Proceed
<1>5. /\ accessory' = IF (pc \in {"loop", "wait"} /\ c.s.suspend # {}) /\ laser THEN {"Stop"} ELSE {}
      /\ restore' = IF pc \in {"loop", "wait"} /\ c.s.suspend # {} THEN Restored(c.m) ELSE restore
  BY <1>1 DEF PassEnds, Proceed
<1>6. Types /\ PcInv /\ FlagInv /\ SysInv /\ AskedInv /\ SpindleInv
  BY DEF IInv
<1>7. sys.suspend # {} /\ "CycleStart" \in f => asked
  <2>1. sys.suspend # {} => pc # "loop"
    BY <1>6 DEF PcInv, Suspended
  <2>2. QED
    BY <1>3, <1>6, <2>1 DEF AskedInv
<1>8. Coherent(c.s) /\ Retracted(c.s)
  BY <1>2 DEF Core
<1>9. restore' \in Spindle /\ (~laser /\ c.s.suspend # {} => Runs(restore') = Runs(modal))
  <2>1. CASE pc \in {"loop", "wait"} /\ c.s.suspend # {}
    <3>1. restore' = Restored(c.m)
      BY <1>5, <2>1
    <3>2. CASE c.m.queue = <<>>
      BY <1>6, <3>1, <3>2 DEF Restored, Types
    <3>3. CASE c.m.queue # <<>>
      <4>1. PICK b : b = Head(c.m.queue)
        OBVIOUS
      <4>2. restore' = [on |-> b.on, rpm |-> b.rpm]
        BY <3>1, <3>3, <4>1 DEF Restored
      <4>3. b = c.m.queue[1] /\ b \in Blocks /\ 1 \in 1 .. Len(c.m.queue)
        BY <1>2, <3>3, <4>1, FirstBlock
      <4>4. restore' \in Spindle /\ Runs(restore') = Runs(b)
        BY <4>2, <4>3 DEF Spindle, Blocks, Runs
      <4>5. ASSUME ~laser PROVE Runs(b) = Runs(modal)
        <5>1. Queued_as(motion, Runs(modal)) /\ Runs(modal) \in BOOLEAN
          BY <1>6, <4>5 DEF SpindleInv, Runs
        <5>2. Queued_as(c.m, Runs(modal))
          BY <1>1, <5>1, ChainRuns
        <5>3. QED
          BY <4>3, <5>2 DEF Queued_as
      <4>6. QED
        BY <4>4, <4>5
    <3>4. QED
      BY <3>2, <3>3
  <2>2. CASE ~(pc \in {"loop", "wait"} /\ c.s.suspend # {})
    <3>1. restore' = restore
      BY <1>5, <2>2
    <3>2. c.s.suspend # {} => sys.suspend # {}
      BY <1>3, <1>6, <2>2 DEF PcInv, Suspended, Calling
    <3>3. QED
      BY <1>6, <3>1, <3>2 DEF Types, SpindleInv
  <2>3. QED
    BY <2>1, <2>2
<1>10. Types'
  <2>1. Len(c.m.queue) <= BlockSlots
    <3>1. Len(motion.queue) <= BlockSlots /\ Len(motion.queue) \in Nat /\ Len(c.m.queue) \in Nat
      BY <1>2, <1>6 DEF Types, Motions
    <3>2. Len(c.m.queue) <= Len(motion.queue)
      BY <1>1, ChainShortens
    <3>3. BlockSlots \in Nat
      BY SuspendAssumption
    <3>4. QED
      BY <3>1, <3>2, <3>3
  <2>2. asked' \in BOOLEAN
    BY <1>4
  <2>3. accessory' \subseteq OverrideBits
    BY <1>5 DEF OverrideBits
  <2>4. pc' \in Calling \cup {"check", "suspend", "restoring"}
    BY <1>3 DEF Calling
  <2>5. QED
    BY <1>2, <1>3, <1>6, <1>9, <2>1, <2>2, <2>3, <2>4 DEF Types
<1>11. /\ sys.state = "SLEEP" => c.s.state = "SLEEP" /\ c.s.suspend # {}
       /\ c.s.state = "ALARM" => sys.state = "ALARM" /\ c.s.suspend = {}
  BY <1>1, ChainNeedsStart
<1>12. PcInv'
  <2>1. CASE pc = "asleep"
    <3>1. c.s.state = "SLEEP" /\ c.s.suspend # {} /\ pc' = "asleep"
      BY <1>3, <1>6, <1>11, <2>1 DEF PcInv
    <3>2. QED
      BY <1>3, <3>1 DEF PcInv, Suspended
  <2>2. CASE pc # "asleep"
    <3>1. pc' = IF c.s.suspend # {} THEN "suspend" ELSE IF cmd = NoCmd THEN "loop" ELSE "check"
      BY <1>3, <2>2
    <3>2. c.s.state = "ALARM" => pc' = "loop"
      BY <1>6, <1>11, <3>1 DEF PcInv
    <3>3. QED
      BY <1>3, <3>1, <3>2 DEF PcInv, Suspended
  <2>3. QED
    BY <2>1, <2>2
<1>13. FlagInv'
  BY <1>3 DEF FlagInv
<1>14. pc' # "restoring"
  BY <1>3
<1>15. SysInv'
  BY <1>2, <1>3 DEF SysInv
<1>16. AskedInv'
  <2>1. "InitiateRestore" \in c.s.suspend => asked'
    <3> SUFFICES ASSUME "InitiateRestore" \in c.s.suspend PROVE asked'
      OBVIOUS
    <3>1. /\ c.s.state = "DOOR" /\ f \cap {"SafetyDoor", "Sleep"} = {}
          /\ "InitiateRestore" \in sys.suspend \/ ("CycleStart" \in f /\ sys.suspend # {})
      BY <1>1, ChainNeedsStart
    <3>2. asked
      BY <1>6, <1>7, <3>1 DEF AskedInv
    <3>3. QED
      BY <1>4, <3>1, <3>2
  <2>2. "RestoreCycle" \in c.s.spindleStop => pc' = "suspend" /\ c.s.state = "HOLD" /\ asked'
    <3> SUFFICES ASSUME "RestoreCycle" \in c.s.spindleStop
                 PROVE  pc' = "suspend" /\ c.s.state = "HOLD" /\ asked'
      OBVIOUS
    <3>1. "RestoreCycle" \notin sys.spindleStop
      BY <1>3, <1>6 DEF AskedInv, Calling
    <3>2. /\ c.s.state = "HOLD" /\ f \cap Stops = {} /\ c.s.suspend # {}
          /\ "CycleStart" \in f /\ sys.suspend # {}
      BY <1>1, <3>1, ChainNeedsStart
    <3>3. pc # "asleep"
      BY <1>6, <1>11, <3>2 DEF PcInv
    <3>4. asked'
      BY <1>4, <1>7, <3>2 DEF Stops
    <3>5. QED
      BY <1>3, <3>2, <3>3, <3>4
  <2>3. QED
    BY <1>3, <2>1, <2>2 DEF AskedInv
<1>17. SpindleInv'
  <2>1. cmd.kind = "ended" => c.m.queue = <<>> /\ ~modal.on
    <3>1. Len(c.m.queue) <= Len(motion.queue)
      BY <1>1, ChainShortens
    <3>2. cmd.kind = "ended" => motion.queue = <<>> /\ ~modal.on
      BY <1>6 DEF SpindleInv
    <3>3. Len(<<>>) = 0 /\ Len(c.m.queue) \in Nat /\ (Len(c.m.queue) = 0 => c.m.queue = <<>>)
      BY <1>2 DEF Motions
    <3>4. QED
      BY <3>1, <3>2, <3>3
  <2>2. ASSUME ~laser
        PROVE  /\ Queued_as(c.m, Runs(modal))
               /\ cmd.kind # "ended" => Runs_as(c.s, Runs(modal))
    <3>1. PICK r : r = Runs(modal)
      OBVIOUS
    <3>2. Queued_as(motion, r) /\ r \in BOOLEAN /\ (cmd.kind # "ended" => Runs_as(sys, r))
      BY <1>6, <2>2, <3>1 DEF SpindleInv, Runs
    <3>3. QED
      BY <1>1, <3>1, <3>2, ChainRuns
  <2>3. Runs(modal)' = Runs(modal) /\ Runs(restore)' = Runs(restore')
    BY <1>3 DEF Runs
  <2>4. QED
    BY <1>3, <1>6, <1>9, <1>14, <2>1, <2>2, <2>3 DEF SpindleInv
<1>18. sys.state \in {"HOLD", "DOOR"} /\ sys'.state \in {"IDLE", "CYCLE"} => asked
  <2>1. sys.state \in {"HOLD", "DOOR"} /\ c.s.state \in {"IDLE", "CYCLE"}
          => "CycleStart" \in f /\ sys.suspend # {}
    BY <1>1, ChainNeedsStart
  <2>2. QED
    BY <1>3, <1>7, <2>1
<1>19. QED
  BY <1>10, <1>12, <1>13, <1>15, <1>16, <1>17, <1>18 DEF IInv

-----------------------------------------------------------------------------
(* The initial states, and the other steps of the main thread. *)

LEMMA Starts == Init => IInv
<1> SUFFICES ASSUME Init PROVE IInv
  OBVIOUS
<1>1. /\ Default \in MinOverride .. MaxOverride /\ 0 \in 0 .. RpmMax * Default
      /\ 0 \in 0 .. SegmentSlots /\ BlockSlots \in Nat
  <2>1. Default \in MinOverride .. MaxOverride /\ 0 \in 0 .. SegmentSlots /\ BlockSlots \in Nat
    BY SuspendAssumption
  <2>2. QED
    BY <2>1, Scales
<1>2. sys \in Systems
  BY <1>1 DEF Init, Systems, States
<1>3. motion \in Motions /\ motion.queue = <<>> /\ Len(motion.queue) = 0
  BY <1>1 DEF Init, Motions
<1>4. Types
  <2>1. modal \in Spindle /\ restore \in Spindle /\ cmd \in [kind : Kinds, rpm : Rpms \cup {0}]
    BY DEF Init, Spindle, NoCmd, Kinds
  <2>2. laser \in BOOLEAN /\ Len(motion.queue) <= BlockSlots
    BY <1>1, <1>3, SuspendAssumption DEF Init
  <2>3. QED
    BY <1>2, <1>3, <2>1, <2>2 DEF Init, Types, Calling
<1>5. PcInv /\ FlagInv /\ AskedInv
  BY DEF Init, PcInv, FlagInv, AskedInv, Suspended
<1>6. SysInv
  BY DEF Init, SysInv, Core, Coherent, Retracted, Stopped, Cutting, Open, Off
<1>7. SpindleInv
  BY <1>3 DEF Init, SpindleInv, Queued_as, Runs_as, Runs, NoCmd
<1>8. QED
  BY <1>4, <1>5, <1>6, <1>7 DEF IInv

\* What the steps of the main thread have in common: states, suspend bits and
\* the parts of sys that a line may change.
LEMMA LineKeeps ==
  ASSUME IInv, NEW kind \in {"cut", "start", "stop", "speed", "end", "sleep"}, NEW rpm \in Rpms,
         Line(kind, rpm)
  PROVE  IInv'
<1>1. /\ Types /\ PcInv /\ FlagInv /\ SysInv /\ AskedInv /\ SpindleInv
      /\ pc = "loop" /\ (sys.state = "ALARM" => kind = "sleep")
      /\ UNCHANGED <<sys, motion, accessory, laser, restore, asked, requests>>
  BY DEF IInv, Line
<1>2. sys.suspend = {} /\ cmd = NoCmd /\ AutoStart \subseteq {"CycleStart"}
  BY <1>1 DEF PcInv, Suspended, AutoStart
<1>3. CASE kind = "sleep"
  <2>1. /\ sys.state \in {"IDLE", "ALARM"} /\ flags' = flags \cup {"Sleep"}
        /\ UNCHANGED <<modal, pc, cmd>>
    BY <1>3 DEF Line
  <2>2. Types' /\ PcInv' /\ FlagInv' /\ SysInv' /\ AskedInv'
    BY <1>1, <2>1 DEF Types, PcInv, FlagInv, SysInv, AskedInv
  <2>3. SpindleInv'
    BY <1>1, <2>1 DEF SpindleInv
  <2>4. QED
    BY <2>2, <2>3 DEF IInv
<1>4. CASE kind = "speed" /\ ~modal.on
  <2>1. modal' = [modal EXCEPT !.rpm = rpm] /\ UNCHANGED <<flags, pc, cmd>>
    BY <1>4 DEF Line
  <2>2. modal' \in Spindle /\ ~modal'.on /\ Runs(modal') = FALSE /\ Runs(modal) = FALSE
    BY <1>1, <1>4, <2>1 DEF Types, Spindle, Runs
  <2>3. Types' /\ PcInv' /\ FlagInv' /\ SysInv' /\ AskedInv'
    BY <1>1, <2>1, <2>2 DEF Types, PcInv, FlagInv, SysInv, AskedInv
  <2>4. Runs(modal)' = Runs(modal)
    BY <2>2 DEF Runs
  <2>5. SpindleInv'
    BY <1>1, <1>2, <2>1, <2>2, <2>4 DEF SpindleInv, NoCmd, Runs
  <2>6. QED
    BY <2>3, <2>5 DEF IInv
<1>5. CASE kind # "sleep" /\ ~(kind = "speed" /\ ~modal.on)
  <2>1. /\ flags' = flags \cup (IF kind = "cut" THEN {} ELSE AutoStart)
        /\ modal' = IF kind = "cut" /\ laser THEN [modal EXCEPT !.rpm = rpm] ELSE modal
        /\ pc' = "wait"
        /\ cmd' = [kind |-> kind, rpm |-> IF kind = "speed" \/ (kind = "cut" /\ laser)
                                          THEN rpm ELSE modal.rpm]
    BY <1>5 DEF Line
  <2>2. modal' \in Spindle /\ modal.rpm \in Rpms \cup {0}
    BY <1>1, <2>1 DEF Types, Spindle
  <2>3. cmd' \in [kind : Kinds, rpm : Rpms \cup {0}]
    <3>1. PICK v : v = IF kind = "speed" \/ (kind = "cut" /\ laser) THEN rpm ELSE modal.rpm
      OBVIOUS
    <3>2. v \in Rpms \cup {0} /\ kind \in Kinds /\ cmd' = [kind |-> kind, rpm |-> v]
      BY <1>5, <2>1, <2>2, <3>1 DEF Kinds
    <3>3. QED
      BY <3>2
  <2>4. flags' \subseteq flags \cup {"CycleStart"}
    BY <1>2, <2>1
  <2>5. Types'
    BY <1>1, <2>1, <2>2, <2>3, <2>4 DEF Types, Calling
  <2>6. PcInv'
    BY <1>1, <1>2, <1>5, <2>1 DEF PcInv, Suspended
  <2>7. FlagInv' /\ SysInv' /\ AskedInv'
    BY <1>1, <1>2, <2>1, <2>4 DEF FlagInv, SysInv, AskedInv
  <2>8. ~laser => modal' = modal /\ (kind \in {"cut", "start"} => cmd'.rpm = modal.rpm)
    BY <2>1
  <2>9. SpindleInv'
    <3>1. cmd'.kind = kind /\ cmd'.kind # "ended" /\ cmd.kind = "none"
      BY <1>2, <2>1 DEF NoCmd
    <3>2. ~laser => Runs(modal)' = Runs(modal)
      BY <2>8 DEF Runs
    <3>3. QED
      BY <1>1, <1>2, <2>1, <2>8, <3>1, <3>2 DEF SpindleInv
  <2>10. QED
    BY <2>5, <2>6, <2>7, <2>9 DEF IInv
<1>6. QED
  BY <1>3, <1>4, <1>5

LEMMA ReinitializeKeeps == ASSUME IInv, Reinitialize PROVE IInv' /\ asked
<1>1. /\ Types /\ AskedInv /\ "Abort" \in flags
      /\ sys' = [state |-> IF "Alarm" \in flags \/ sys.state \in {"ALARM", "SLEEP"} THEN "ALARM" ELSE "IDLE",
                 suspend |-> {}, stepControl |-> {}, spindleStop |-> {}, speed |-> 0,
                 override |-> Default]
      /\ motion' = [queue |-> <<>>, loaded |-> FALSE, segs |-> 0, on |-> FALSE]
      /\ flags' = {} /\ accessory' = {}
      /\ modal' = [on |-> FALSE, rpm |-> 0]
      /\ pc' = "loop" /\ cmd' = NoCmd /\ asked' = FALSE
      /\ UNCHANGED <<laser, restore, lines, requests>>
  BY DEF IInv, Reinitialize
<1>2. /\ Default \in MinOverride .. MaxOverride /\ 0 \in 0 .. RpmMax * Default
      /\ 0 \in 0 .. SegmentSlots /\ BlockSlots \in Nat
  <2>1. Default \in MinOverride .. MaxOverride /\ 0 \in 0 .. SegmentSlots /\ BlockSlots \in Nat
    BY SuspendAssumption
  <2>2. QED
    BY <2>1, Scales
<1>3. sys' \in Systems /\ sys'.state \in {"IDLE", "ALARM"}
  BY <1>1, <1>2 DEF Systems, States
<1>4. motion' \in Motions /\ motion'.queue = <<>> /\ Len(motion'.queue) = 0
  BY <1>1, <1>2 DEF Motions
<1>5. Types'
  <2>1. modal' \in Spindle /\ cmd' \in [kind : Kinds, rpm : Rpms \cup {0}]
    BY <1>1 DEF Spindle, NoCmd, Kinds
  <2>2. Len(motion'.queue) <= BlockSlots
    BY <1>2, <1>4
  <2>3. QED
    BY <1>1, <1>3, <1>4, <2>1, <2>2 DEF Types, Calling
<1>6. PcInv' /\ FlagInv' /\ AskedInv'
  BY <1>1, <1>3 DEF PcInv, FlagInv, AskedInv, Suspended
<1>7. SysInv'
  BY <1>1, <1>3 DEF SysInv, Core, Coherent, Retracted, Stopped, Cutting, Open, Off
<1>8. SpindleInv'
  BY <1>1, <1>4 DEF SpindleInv, Queued_as, Runs_as, Runs, NoCmd
<1>9. QED
  BY <1>1, <1>5, <1>6, <1>7, <1>8 DEF IInv, AskedInv

LEMMA UnlockKeeps == ASSUME IInv, Unlock PROVE IInv'
<1>1. /\ Types /\ PcInv /\ FlagInv /\ SysInv /\ AskedInv /\ SpindleInv
      /\ pc = "loop" /\ sys.state = "ALARM"
      /\ sys' = [sys EXCEPT !.state = "IDLE"]
      /\ UNCHANGED <<motion, flags, accessory, modal, laser, pc, cmd, restore, asked, lines, requests>>
  BY DEF IInv, Unlock
<1>2. /\ sys' \in Systems /\ sys'.state = "IDLE" /\ sys'.suspend = sys.suspend
      /\ sys'.stepControl = sys.stepControl /\ sys'.spindleStop = sys.spindleStop
      /\ sys'.speed = sys.speed
  BY <1>1 DEF Types, Systems, States
<1>3. Types'
  BY <1>1, <1>2 DEF Types
<1>4. PcInv' /\ FlagInv' /\ AskedInv'
  BY <1>1, <1>2 DEF PcInv, FlagInv, AskedInv
<1>5. SysInv'
  <2>1. Coherent(sys')
    BY <1>1, <1>2 DEF SysInv, Core, Coherent
  <2>2. Retracted(sys')
    BY <1>1, <1>2 DEF SysInv, Core, Coherent, Retracted
  <2>3. Stopped(sys', motion') /\ Open(sys', motion') /\ Cutting(sys', motion')
    BY <1>1, <1>2 DEF SysInv, Core, Coherent, Stopped, Open, Cutting, Off
  <2>4. "HoldComplete" \notin sys'.suspend
    BY <1>1, <1>2 DEF SysInv, Core, Coherent
  <2>5. QED
    BY <2>1, <2>2, <2>3, <2>4 DEF SysInv, Core
<1>6. SpindleInv'
  <2>1. Off(sys') <=> Off(sys)
    BY <1>2 DEF Off
  <2>2. ~laser /\ cmd.kind # "ended" => Runs_as(sys', Runs(modal))
    BY <1>1, <1>2, <2>1 DEF SpindleInv, Runs_as
  <2>3. Runs(modal)' = Runs(modal)
    BY <1>1
  <2>4. QED
    BY <1>1, <1>2, <2>2, <2>3 DEF SpindleInv
<1>7. QED
  BY <1>3, <1>4, <1>5, <1>6 DEF IInv

LEMMA CheckCutKeeps == ASSUME IInv, CheckCut PROVE IInv'
<1>1. /\ Types /\ PcInv /\ FlagInv /\ SysInv /\ AskedInv /\ SpindleInv
      /\ pc = "check" /\ cmd.kind = "cut"
      /\ UNCHANGED <<sys, accessory, modal, laser, restore, asked, lines, requests>>
  BY DEF IInv, CheckCut
<1>2. sys.suspend = {} /\ sys.state # "ALARM"
  BY <1>1 DEF PcInv, Suspended
<1>3. CASE Len(motion.queue) = BlockSlots
  <2>1. flags' = flags \cup {"CycleStart"} /\ pc' = "wait" /\ UNCHANGED <<motion, cmd>>
    BY <1>3 DEF CheckCut
  <2>2. Types' /\ PcInv' /\ FlagInv' /\ AskedInv'
    BY <1>1, <1>2, <2>1 DEF Types, PcInv, FlagInv, AskedInv, Calling, Suspended, NoCmd
  <2>3. SysInv' /\ SpindleInv'
    BY <1>1, <2>1 DEF SysInv, SpindleInv
  <2>4. QED
    BY <2>2, <2>3 DEF IInv
<1>4. CASE Len(motion.queue) # BlockSlots
  <2>1. PICK n \in 1 .. 2 :
          /\ motion' = [motion EXCEPT !.queue = Append(@, [on |-> modal.on, rpm |-> cmd.rpm, left |-> n])]
          /\ pc' = "loop" /\ cmd' = NoCmd /\ flags' = flags
    BY <1>4 DEF CheckCut
  <2>2. PICK b : b = [on |-> modal.on, rpm |-> cmd.rpm, left |-> n]
    OBVIOUS
  <2>3. PICK q : q = Append(motion.queue, b)
    OBVIOUS
  <2>4. b \in Blocks /\ b.on = modal.on /\ b.rpm = cmd.rpm
    BY <1>1, <2>2 DEF Types, Spindle, Blocks
  <2>5. motion.queue \in Seq(Blocks) /\ Len(motion.queue) \in Nat
    BY <1>1 DEF Types, Motions
  <2>6. /\ q \in Seq(Blocks) /\ Len(q) = Len(motion.queue) + 1 /\ q # <<>>
        /\ \A i \in 1 .. Len(q) : q[i] = IF i = Len(q) THEN b ELSE motion.queue[i]
    BY <2>3, <2>4, <2>5
  <2>7. /\ motion' \in Motions /\ motion'.queue = q /\ motion'.loaded = motion.loaded
        /\ motion'.segs = motion.segs /\ motion'.on = motion.on
    BY <1>1, <2>1, <2>2, <2>3, <2>6 DEF Types, Motions
  <2>8. Len(q) <= BlockSlots
    BY <1>1, <1>4, <2>5, <2>6, SuspendAssumption DEF Types
  <2>9. NoCmd \in [kind : Kinds, rpm : Rpms \cup {0}] /\ NoCmd.kind = "none"
    BY DEF NoCmd, Kinds
  <2>10. Types'
    BY <1>1, <2>1, <2>7, <2>8, <2>9 DEF Types, Calling
  <2>11. PcInv' /\ FlagInv' /\ AskedInv'
    BY <1>1, <1>2, <2>1, <2>7 DEF PcInv, FlagInv, AskedInv, Suspended
  <2>12. SysInv'
    <3>1. Coherent(sys) /\ Retracted(sys) /\ Stopped(sys, motion) /\ Cutting(sys, motion)
      BY <1>1 DEF SysInv, Core
    <3>2. ~Off(sys) /\ "RetractComplete" \notin sys.suspend /\ "HoldComplete" \notin sys.suspend
      BY <1>2, <3>1 DEF Stopped
    <3>3. Stopped(sys, motion') /\ Open(sys, motion') /\ Cutting(sys, motion')
      BY <1>2, <2>6, <2>7, <3>1, <3>2 DEF Stopped, Open, Cutting
    <3>4. QED
      BY <1>1, <3>1, <3>2, <3>3 DEF SysInv, Core
  <2>13. SpindleInv'
    <3>1. ASSUME ~laser PROVE Queued_as(motion', Runs(modal))
      <4>1. Runs(b) = Runs(modal)
        BY <1>1, <2>4, <3>1 DEF SpindleInv, Runs
      <4>2. \A i \in 1 .. Len(motion.queue) : Runs(motion.queue[i]) = Runs(modal)
        BY <1>1, <3>1 DEF SpindleInv, Queued_as
      <4>3. ASSUME NEW i \in 1 .. Len(q) PROVE Runs(q[i]) = Runs(modal)
        <5>1. CASE i = Len(q)
          BY <2>6, <4>1, <5>1
        <5>2. CASE i # Len(q)
          <6>1. i \in 1 .. Len(motion.queue)
            BY <2>5, <2>6, <5>2
          <6>2. q[i] = motion.queue[i]
            BY <2>6, <5>2
          <6>3. QED
            BY <4>2, <6>1, <6>2
        <5>3. QED
          BY <5>1, <5>2
      <4>4. QED
        BY <2>7, <4>3 DEF Queued_as
    <3>2. Runs(modal)' = Runs(modal)
      BY <1>1
    <3>3. QED
      BY <1>1, <1>2, <2>1, <2>9, <3>1, <3>2 DEF SpindleInv
  <2>14. QED
    BY <2>10, <2>11, <2>12, <2>13 DEF IInv
<1>5. QED
  BY <1>3, <1>4

\* A step that changes the speed and the override, with nothing suspended and
\* nothing queued.
LEMMA SpeedChanges ==
  ASSUME Types, SysInv, sys.suspend = {}, sys.state # "ALARM", sys' \in Systems, motion' = motion,
         sys'.state = sys.state, sys'.suspend = sys.suspend, sys'.stepControl = sys.stepControl,
         sys'.spindleStop = sys.spindleStop
  PROVE  SysInv' /\ ~Off(sys')
<1>1. Coherent(sys) /\ Retracted(sys) /\ Stopped(sys, motion) /\ Cutting(sys, motion)
  BY DEF SysInv, Core
<1>2. ~Off(sys) /\ "RetractComplete" \notin sys.suspend /\ "HoldComplete" \notin sys.suspend
  BY <1>1 DEF Stopped
<1>3. ~Off(sys')
  BY <1>2 DEF Off
<1>4. Coherent(sys') /\ Retracted(sys')
  BY <1>1 DEF Coherent, Retracted
<1>5. Stopped(sys', motion') /\ Open(sys', motion') /\ Cutting(sys', motion')
  BY <1>1, <1>2, <1>3 DEF Stopped, Open, Cutting
<1>6. QED
  BY <1>2, <1>3, <1>4, <1>5 DEF SysInv, Core

LEMMA CheckSyncKeeps == ASSUME IInv, CheckSync PROVE IInv' /\ sys'.state = sys.state
<1>1. /\ Types /\ PcInv /\ FlagInv /\ SysInv /\ AskedInv /\ SpindleInv
      /\ pc = "check" /\ cmd.kind \in {"start", "stop", "speed", "end", "ended"}
      /\ UNCHANGED <<motion, flags, accessory, laser, restore, asked, lines, requests>>
  BY DEF IInv, CheckSync
<1>2. sys.suspend = {} /\ sys.state # "ALARM"
  BY <1>1 DEF PcInv, Suspended
<1>3. CASE ~Synchronized
  <2>1. pc' = "wait" /\ UNCHANGED <<sys, modal, cmd>>
    BY <1>3 DEF CheckSync
  <2>2. Types' /\ PcInv' /\ FlagInv' /\ AskedInv'
    BY <1>1, <1>2, <2>1 DEF Types, PcInv, FlagInv, AskedInv, Calling, Suspended
  <2>3. SysInv' /\ SpindleInv'
    BY <1>1, <2>1 DEF SysInv, SpindleInv
  <2>4. QED
    BY <2>1, <2>2, <2>3 DEF IInv
<1>4. CASE Synchronized
  <2>1. motion.queue = <<>> /\ Len(motion.queue) = 0
    BY <1>4 DEF Synchronized
  <2>2. /\ cmd.rpm \in Rpms \cup {0} /\ modal.rpm \in Rpms \cup {0} /\ modal.on \in BOOLEAN
        /\ sys \in Systems /\ cmd.kind # "none" /\ 0 \in Rpms \cup {0}
    BY <1>1 DEF Types, Spindle
  <2>3. /\ pc' \in {"loop", "wait"}
        /\ modal' \in Spindle /\ sys' \in Systems
        /\ sys'.state = sys.state /\ sys'.suspend = sys.suspend /\ sys'.stepControl = sys.stepControl
        /\ sys'.spindleStop = sys.spindleStop
        /\ cmd' \in [kind : Kinds, rpm : Rpms \cup {0}]
        /\ pc' = "loop" => cmd' = NoCmd
        /\ pc' = "wait" => cmd'.kind = "ended" /\ ~modal'.on
        /\ ~laser /\ pc' = "loop" => (sys'.speed > 0) = Runs(modal')
    <3>1. NoCmd \in [kind : Kinds, rpm : Rpms \cup {0}]
      BY DEF NoCmd, Kinds
    <3>2. CASE cmd.kind = "start"
      <4>1. /\ modal' = [modal EXCEPT !.on = (cmd.kind = "start")]
            /\ sys' = SpindleSet(sys, cmd.kind = "start", cmd.rpm)
            /\ pc' = "loop" /\ cmd' = NoCmd
        BY <1>4, <3>2 DEF CheckSync
      <4>2. (cmd.kind = "start") = TRUE
        BY <3>2
      <4>3. modal' = [modal EXCEPT !.on = TRUE] /\ sys' = SpindleSet(sys, TRUE, cmd.rpm)
        BY <4>1, <4>2
      <4>4. /\ sys' \in Systems /\ Same(sys, sys') /\ sys'.stepControl = sys.stepControl
            /\ sys'.speed > 0 <=> TRUE /\ cmd.rpm > 0
        BY <2>2, <4>3, Sets
      <4>5. modal' \in Spindle /\ modal'.on = TRUE /\ modal'.rpm = modal.rpm
        BY <1>1, <4>3 DEF Types, Spindle
      <4>6. ~laser => (sys'.speed > 0) = Runs(modal')
        BY <1>1, <3>2, <4>4, <4>5 DEF SpindleInv, Runs
      <4>7. QED
        BY <3>1, <4>1, <4>4, <4>5, <4>6 DEF Same
    <3>6. CASE cmd.kind = "stop"
      <4>1. /\ modal' = [modal EXCEPT !.on = (cmd.kind = "start")]
            /\ sys' = SpindleSet(sys, cmd.kind = "start", cmd.rpm)
            /\ pc' = "loop" /\ cmd' = NoCmd
        BY <1>4, <3>6 DEF CheckSync
      <4>2. (cmd.kind = "start") = FALSE
        BY <3>6
      <4>3. modal' = [modal EXCEPT !.on = FALSE] /\ sys' = SpindleSet(sys, FALSE, cmd.rpm)
        BY <4>1, <4>2
      <4>4. /\ sys' \in Systems /\ Same(sys, sys') /\ sys'.stepControl = sys.stepControl
            /\ sys'.speed > 0 <=> FALSE /\ cmd.rpm > 0
        BY <2>2, <4>3, Sets
      <4>5. modal' \in Spindle /\ modal'.on = FALSE /\ modal'.rpm = modal.rpm
        BY <1>1, <4>3 DEF Types, Spindle
      <4>6. ~laser => (sys'.speed > 0) = Runs(modal')
        BY <1>1, <3>6, <4>4, <4>5 DEF SpindleInv, Runs
      <4>7. QED
        BY <3>1, <4>1, <4>4, <4>5, <4>6 DEF Same
    <3>3. CASE cmd.kind = "speed"
      <4>1. /\ modal' = [modal EXCEPT !.rpm = cmd.rpm]
            /\ sys' = SpindleSet(sys, modal.on, cmd.rpm)
            /\ pc' = "loop" /\ cmd' = NoCmd
        BY <1>4, <3>3 DEF CheckSync
      <4>2. /\ sys' \in Systems /\ Same(sys, sys') /\ sys'.stepControl = sys.stepControl
            /\ sys'.speed > 0 <=> modal.on /\ cmd.rpm > 0
        BY <2>2, <4>1, Sets
      <4>3. modal' \in Spindle /\ modal'.on = modal.on /\ modal'.rpm = cmd.rpm
        BY <1>1, <2>2, <4>1 DEF Types, Spindle
      <4>4. (sys'.speed > 0) = Runs(modal')
        BY <4>2, <4>3 DEF Runs
      <4>5. QED
        BY <3>1, <4>1, <4>2, <4>3, <4>4 DEF Same
    <3>4. CASE cmd.kind = "end"
      <4>1. /\ modal' = [modal EXCEPT !.on = FALSE]
            /\ sys' = [sys EXCEPT !.override = Default]
            /\ pc' = "wait" /\ cmd' = [cmd EXCEPT !.kind = "ended"]
        BY <1>4, <3>4 DEF CheckSync
      <4>2. modal' \in Spindle /\ modal'.on = FALSE
        BY <1>1, <4>1 DEF Types, Spindle
      <4>3. Default \in MinOverride .. MaxOverride
        BY SuspendAssumption
      <4>4. /\ sys' \in Systems /\ sys'.state = sys.state /\ sys'.suspend = sys.suspend
            /\ sys'.stepControl = sys.stepControl /\ sys'.spindleStop = sys.spindleStop
        BY <2>2, <4>1, <4>3 DEF Systems
      <4>5. cmd' \in [kind : Kinds, rpm : Rpms \cup {0}] /\ cmd'.kind = "ended"
        BY <1>1, <4>1 DEF Types, Kinds
      <4>6. QED
        BY <4>1, <4>2, <4>4, <4>5
    <3>5. CASE cmd.kind = "ended"
      <4>1. /\ sys' = SpindleSet(sys, FALSE, 0) /\ modal' = modal
            /\ pc' = "loop" /\ cmd' = NoCmd
        BY <1>4, <3>5 DEF CheckSync
      <4>2. /\ sys' \in Systems /\ Same(sys, sys') /\ sys'.stepControl = sys.stepControl
            /\ ~(sys'.speed > 0)
        BY <2>2, <4>1, Sets
      <4>3. ~modal'.on /\ modal' \in Spindle
        BY <1>1, <3>5, <4>1 DEF SpindleInv, Types
      <4>4. (sys'.speed > 0) = Runs(modal')
        BY <4>2, <4>3 DEF Runs
      <4>5. QED
        BY <3>1, <4>1, <4>2, <4>3, <4>4 DEF Same
    <3>7. QED
      BY <1>1, <3>2, <3>3, <3>4, <3>5, <3>6
  <2>4. SysInv' /\ ~Off(sys')
    BY <1>1, <1>2, <2>3, SpeedChanges
  <2>5. Types'
    BY <1>1, <2>3 DEF Types, Calling
  <2>6. PcInv' /\ FlagInv' /\ AskedInv'
    BY <1>1, <1>2, <2>3 DEF PcInv, FlagInv, AskedInv, Suspended
  <2>7. SpindleInv'
    <3>1. NoCmd.kind = "none"
      BY DEF NoCmd
    <3>2. Queued_as(motion', Runs(modal'))
      BY <1>1, <2>1 DEF Queued_as
    <3>3. ~laser /\ pc' = "loop" => Runs_as(sys', Runs(modal'))
      BY <2>3 DEF Runs_as
    <3>4. QED
      BY <1>1, <1>2, <2>1, <2>3, <3>1, <3>2, <3>3 DEF SpindleInv
  <2>8. QED
    BY <2>3, <2>4, <2>5, <2>6, <2>7 DEF IInv
<1>5. QED
  BY <1>3, <1>4

-----------------------------------------------------------------------------
(* The rounds of protocol_exec_rt_suspend. *)

\* The step whose new state, pc and flags are given leaves the machine suspended.
Remains ==
  /\ sys' \in Systems /\ sys'.state = sys.state /\ "HoldComplete" \in sys'.suspend
  /\ "EndMotion" \in sys.stepControl => "EndMotion" \in sys'.stepControl
  /\ Retracted(sys')
  /\ "InitiateRestore" \in sys'.suspend => "InitiateRestore" \in sys.suspend
  /\ sys'.spindleStop \subseteq sys.spindleStop \cup {"Enabled"}
  /\ sys'.spindleStop \subseteq {"Enabled"}
  /\ sys'.spindleStop # {} => sys'.speed = 0 /\ sys'.state \in {"HOLD", "DOOR"}
  /\ sys'.state = "HOLD" => sys'.suspend \subseteq {"HoldComplete"}
  /\ motion' \in Motions /\ motion'.queue = motion.queue /\ motion'.loaded = motion.loaded
  /\ motion'.segs = motion.segs /\ ~motion'.on
  /\ flags' \subseteq flags \cup {"CycleStart"}
  /\ "CycleStart" \in flags' \ flags => asked
  /\ pc' \in {"suspendPass", "asleep", "restoring"}
  /\ pc' = "asleep" => sys'.state = "SLEEP"
  /\ UNCHANGED <<accessory, modal, laser, cmd, restore, asked>>

\* What it does to the spindle.
Turns ==
  /\ "RetractComplete" \in sys'.suspend /\ "RestoreComplete" \notin sys'.suspend /\ pc' # "restoring"
       => sys'.speed = 0
  /\ pc' = "restoring" => /\ "InitiateRestore" \in sys'.suspend /\ ~laser
                          /\ (sys'.speed > 0) = Runs(modal)
  /\ ~laser /\ cmd.kind # "ended" => Runs_as(sys', Runs(modal))

LEMMA RemainsKeeps ==
  ASSUME IInv, "HoldComplete" \in sys.suspend, Remains, Turns
  PROVE  IInv'
<1>1. Types /\ PcInv /\ FlagInv /\ SysInv /\ AskedInv /\ SpindleInv
  BY DEF IInv
<1>2. /\ Coherent(sys) /\ Retracted(sys) /\ Stopped(sys, motion) /\ Cutting(sys, motion)
      /\ Full(sys, motion)
  BY <1>1 DEF SysInv, Core
<1>3. sys'.suspend # {} /\ sys.state \in {"HOLD", "DOOR", "SLEEP"}
  <2>1. sys.state \in States
    BY <1>1 DEF Types, Systems
  <2>2. QED
    BY <1>2, <2>1 DEF Remains, Coherent, States
<1>4. Types'
  BY <1>1 DEF Types, Remains, Calling
<1>5. PcInv'
  BY <1>1, <1>3 DEF PcInv, Remains, Turns, Suspended
<1>6. FlagInv'
  BY <1>1 DEF FlagInv, Remains
<1>7. SysInv'
  <2>1. Full(sys', motion')
    BY <1>2 DEF Full, Remains
  <2>2. Coherent(sys')
    BY <1>2, <1>3 DEF Coherent, Remains
  <2>3. Stopped(sys', motion')
    BY <2>1 DEF Stopped, Remains, Off
  <2>4. Cutting(sys', motion')
    BY <1>2 DEF Cutting, Remains
  <2>5. pc' # "restoring" => Open(sys', motion')
    BY <2>1 DEF Open, Turns
  <2>6. Retracted(sys')
    BY DEF Remains
  <2>7. QED
    BY <2>1, <2>2, <2>3, <2>4, <2>5, <2>6 DEF SysInv, Core
<1>8. AskedInv'
  BY <1>1 DEF AskedInv, Remains
<1>9. SpindleInv'
  <2>1. Runs(modal)' = Runs(modal) /\ Runs(restore)' = Runs(restore)
    BY DEF Remains, Runs
  <2>2. ~laser => Queued_as(motion', Runs(modal))
    BY <1>1 DEF SpindleInv, Remains, Queued_as
  <2>3. ~laser => Runs(restore) = Runs(modal)
    BY <1>1 DEF SpindleInv
  <2>4. QED
    BY <1>1, <2>1, <2>2, <2>3 DEF SpindleInv, Remains, Turns
<1>10. QED
  BY <1>4, <1>5, <1>6, <1>7, <1>8, <1>9 DEF IInv

\* The hold is over and something is suspended.
LEMMA AtHold ==
  ASSUME IInv, pc \in {"suspend", "restoring"}, "HoldComplete" \in sys.suspend
  PROVE  /\ Types /\ PcInv /\ FlagInv /\ SysInv /\ AskedInv /\ SpindleInv
         /\ Coherent(sys) /\ Retracted(sys) /\ Stopped(sys, motion)
         /\ (pc = "suspend" => Open(sys, motion))
         /\ ~motion.on /\ sys \in Systems /\ motion \in Motions
         /\ sys.state \in {"HOLD", "DOOR", "SLEEP"}
         /\ (~laser => Runs(restore) = Runs(modal))
         /\ restore.on \in BOOLEAN /\ restore.rpm \in Rpms \cup {0}
<1>1. Types /\ PcInv /\ FlagInv /\ SysInv /\ AskedInv /\ SpindleInv
  BY DEF IInv
<1>2. Coherent(sys) /\ Retracted(sys) /\ Stopped(sys, motion) /\ Cutting(sys, motion)
  BY <1>1 DEF SysInv, Core
<1>3. pc = "suspend" => Open(sys, motion)
  BY <1>1 DEF SysInv
<1>4. ~motion.on
  BY <1>2 DEF Cutting
<1>5. sys \in Systems /\ motion \in Motions /\ sys.state \in States
  BY <1>1 DEF Types, Systems
<1>6. sys.state \in {"HOLD", "DOOR", "SLEEP"}
  BY <1>2, <1>5 DEF Coherent, States
<1>7. restore.on \in BOOLEAN /\ restore.rpm \in Rpms \cup {0}
  BY <1>1 DEF Types, Spindle
<1>8. ~laser => Runs(restore) = Runs(modal)
  BY <1>1 DEF SpindleInv
<1>9. QED
  BY <1>1, <1>2, <1>3, <1>4, <1>5, <1>6, <1>7, <1>8

LEMMA FinishRestoreKeeps == ASSUME IInv, FinishRestore PROVE IInv' /\ sys'.state = sys.state
<1>1. /\ pc = "restoring"
      /\ sys' = [sys EXCEPT !.suspend = @ \cup {"RestoreComplete"}]
      /\ flags' = flags \cup {"CycleStart"} /\ pc' = "suspendPass"
      /\ UNCHANGED <<motion, accessory, modal, laser, cmd, restore, asked, lines, requests>>
  BY DEF FinishRestore
<1>2. "InitiateRestore" \in sys.suspend /\ Retracted(sys)
  BY <1>1 DEF IInv, PcInv, SysInv, Core
<1>3. /\ "HoldComplete" \in sys.suspend /\ "RetractComplete" \in sys.suspend
      /\ sys.spindleStop = {} /\ sys.state = "DOOR"
  BY <1>2 DEF Retracted
<1>4. Types /\ AskedInv /\ SpindleInv /\ sys \in Systems /\ motion \in Motions /\ ~motion.on
  BY <1>1, <1>3, AtHold
<1>5. /\ sys' \in Systems /\ sys'.state = sys.state /\ sys'.speed = sys.speed
      /\ sys'.stepControl = sys.stepControl /\ sys'.spindleStop = sys.spindleStop
      /\ sys'.suspend = sys.suspend \cup {"RestoreComplete"}
  BY <1>1, <1>4 DEF Systems, SuspendBits
<1>6. Retracted(sys')
  BY <1>2, <1>3, <1>5 DEF Retracted
<1>7. Remains
  BY <1>1, <1>2, <1>3, <1>4, <1>5, <1>6 DEF Remains, AskedInv
<1>8. Turns
  BY <1>1, <1>4, <1>5 DEF Turns, SpindleInv, Runs_as
<1>9. QED
  BY <1>3, <1>5, <1>7, <1>8, RemainsKeeps

LEMMA RetractKeeps ==
  ASSUME IInv, pc = "suspend", "HoldComplete" \in sys.suspend, sys.state \in {"DOOR", "SLEEP"},
         Retract, UNCHANGED <<accessory, modal, laser, cmd, restore, asked>>
  PROVE  IInv' /\ sys'.state = sys.state
<1>1. /\ "RetractComplete" \notin sys.suspend
      /\ sys' = [SpindleSet(sys, FALSE, 0) EXCEPT
                    !.spindleStop = {},
                    !.suspend = (@ \ {"RestartRetract"}) \cup {"RetractComplete"}]
      /\ pc' = "suspendPass" /\ UNCHANGED <<motion, flags>>
  BY DEF Retract
<1>2. Types /\ Retracted(sys) /\ ~motion.on /\ sys \in Systems /\ motion \in Motions
  BY AtHold
<1>3. PICK u : u = SpindleSet(sys, FALSE, 0)
  OBVIOUS
<1>4. u \in Systems /\ Same(sys, u) /\ u.stepControl = sys.stepControl /\ ~(u.speed > 0)
  BY <1>2, <1>3, Sets
<1>5. /\ sys' \in Systems /\ sys'.state = sys.state /\ sys'.stepControl = sys.stepControl
      /\ sys'.spindleStop = {} /\ sys'.speed = u.speed
      /\ sys'.suspend = (sys.suspend \ {"RestartRetract"}) \cup {"RetractComplete"}
  BY <1>1, <1>3, <1>4 DEF Systems, Same, SuspendBits
<1>6. sys'.speed = 0
  BY <1>4, <1>5 DEF Systems
<1>7. "InitiateRestore" \notin sys.suspend /\ "RestoreComplete" \notin sys.suspend
  BY <1>1, <1>2 DEF Retracted
<1>8. Retracted(sys')
  BY <1>5, <1>7 DEF Retracted
<1>9. Remains
  BY <1>1, <1>2, <1>5, <1>7, <1>8 DEF Remains
<1>10. Turns
  BY <1>1, <1>5, <1>6, <1>7 DEF Turns, Runs_as
<1>11. QED
  BY <1>5, <1>9, <1>10, RemainsKeeps

LEMMA FallAsleepKeeps ==
  ASSUME IInv, pc = "suspend", "HoldComplete" \in sys.suspend,
         FallAsleep, UNCHANGED <<accessory, modal, laser, cmd, restore, asked>>
  PROVE  IInv' /\ sys'.state = sys.state
<1>1. /\ "RetractComplete" \in sys.suspend /\ sys.state = "SLEEP"
      /\ sys' = SpindleSet(sys, FALSE, 0)
      /\ motion' = [motion EXCEPT !.on = FALSE]
      /\ pc' = "asleep" /\ flags' = flags
  BY DEF FallAsleep
<1>2. Types /\ Retracted(sys) /\ ~motion.on /\ sys \in Systems /\ motion \in Motions
  BY AtHold
<1>3. sys' \in Systems /\ Same(sys, sys') /\ sys'.stepControl = sys.stepControl /\ ~(sys'.speed > 0)
  BY <1>1, <1>2, Sets
<1>4. /\ motion' \in Motions /\ motion'.queue = motion.queue /\ motion'.loaded = motion.loaded
      /\ motion'.segs = motion.segs /\ ~motion'.on
  BY <1>1, <1>2 DEF Motions
<1>5. /\ "InitiateRestore" \notin sys.suspend /\ "RestoreComplete" \notin sys.suspend
      /\ sys.spindleStop = {}
  BY <1>1, <1>2 DEF Retracted
<1>6. sys'.speed = 0
  BY <1>3 DEF Systems
<1>7. Retracted(sys')
  BY <1>2, <1>3 DEF Retracted, Same
<1>8. Remains
  BY <1>1, <1>3, <1>4, <1>5, <1>7 DEF Remains, Same
<1>9. Turns
  BY <1>1, <1>3, <1>5, <1>6 DEF Turns, Runs_as, Same
<1>10. QED
  BY <1>3, <1>8, <1>9, RemainsKeeps DEF Same

LEMMA DoorClosedKeeps ==
  ASSUME IInv, pc = "suspend", "HoldComplete" \in sys.suspend,
         DoorClosed, UNCHANGED <<accessory, modal, laser, cmd, restore, asked>>
  PROVE  IInv' /\ sys'.state = sys.state
<1>1. PICK closed : closed = [sys EXCEPT !.suspend = @ \ {"DoorAjar"}]
  OBVIOUS
<1>2. PICK spins \in BOOLEAN : spins = (modal.on /\ "RestartRetract" \notin sys.suspend)
  BY Zenon
<1>3. /\ "RetractComplete" \in sys.suspend /\ sys.state = "DOOR"
      /\ IF "InitiateRestore" \notin sys.suspend
         THEN sys' = closed /\ pc' = "suspendPass" /\ UNCHANGED flags
         ELSE IF spins /\ ~laser
         THEN /\ sys' = SpindleSet(closed, restore.on, restore.rpm)
              /\ pc' = "restoring" /\ UNCHANGED flags
         ELSE /\ sys' = [closed EXCEPT !.suspend = @ \cup {"RestoreComplete"},
                            !.stepControl = IF spins THEN @ \cup {"UpdatePwm"} ELSE @]
              /\ flags' = flags \cup {"CycleStart"} /\ pc' = "suspendPass"
      /\ UNCHANGED motion
  BY <1>1, <1>2, Zenon DEF DoorClosed
<1>4. /\ Types /\ AskedInv /\ SpindleInv /\ Retracted(sys) /\ Open(sys, motion) /\ ~motion.on
      /\ sys \in Systems /\ motion \in Motions /\ (~laser => Runs(restore) = Runs(modal))
      /\ restore.on \in BOOLEAN /\ restore.rpm \in Rpms \cup {0}
  BY AtHold
<1>5. /\ closed \in Systems
      /\ closed.suspend = sys.suspend \ {"DoorAjar"}
      /\ closed.state = "DOOR" /\ closed.stepControl = sys.stepControl
      /\ closed.spindleStop = sys.spindleStop /\ closed.speed = sys.speed
  BY <1>1, <1>3, <1>4 DEF Systems, SuspendBits
<1>6. Retracted(closed) /\ "RestartRetract" \notin sys.suspend /\ sys.spindleStop = {}
  BY <1>3, <1>4, <1>5 DEF Retracted
<1>7. CASE "InitiateRestore" \notin sys.suspend
  <2>1. sys' = closed /\ pc' = "suspendPass" /\ flags' = flags /\ motion' = motion
    BY <1>3, <1>7
  <2>2. "RestoreComplete" \notin sys.suspend /\ sys.speed = 0
    BY <1>3, <1>4, <1>7 DEF Retracted, Open
  <2>3. Remains
    BY <1>3, <1>4, <1>5, <1>6, <2>1 DEF Remains
  <2>4. Turns
    BY <1>5, <2>1, <2>2 DEF Turns, Runs_as
  <2>5. QED
    BY <1>3, <1>5, <2>1, <2>3, <2>4, RemainsKeeps
<1>8. CASE "InitiateRestore" \in sys.suspend /\ spins /\ ~laser
  <2>1. /\ sys' = SpindleSet(closed, restore.on, restore.rpm)
        /\ pc' = "restoring" /\ flags' = flags /\ motion' = motion
    BY <1>3, <1>8
  <2>2. /\ sys' \in Systems /\ Same(closed, sys') /\ sys'.stepControl = closed.stepControl
        /\ sys'.speed > 0 <=> restore.on /\ restore.rpm > 0
    BY <1>4, <1>5, <2>1, Sets
  <2>3. Retracted(sys')
    BY <1>6, <2>2 DEF Retracted, Same
  <2>4. (sys'.speed > 0) = Runs(modal)
    BY <1>4, <1>8, <2>2 DEF Runs
  <2>5. Remains
    BY <1>3, <1>4, <1>5, <1>6, <2>1, <2>2, <2>3 DEF Remains, Same
  <2>6. Turns
    BY <1>5, <1>8, <2>1, <2>2, <2>4 DEF Turns, Runs_as, Same
  <2>7. QED
    BY <1>3, <1>5, <2>2, <2>5, <2>6, RemainsKeeps DEF Same
<1>9. CASE "InitiateRestore" \in sys.suspend /\ ~(spins /\ ~laser)
  <2>1. /\ sys' = [closed EXCEPT !.suspend = @ \cup {"RestoreComplete"},
                      !.stepControl = IF spins THEN @ \cup {"UpdatePwm"} ELSE @]
        /\ flags' = flags \cup {"CycleStart"} /\ pc' = "suspendPass" /\ motion' = motion
    BY <1>3, <1>9
  <2>2. /\ sys' \in Systems /\ sys'.state = "DOOR"
        /\ sys'.suspend = closed.suspend \cup {"RestoreComplete"}
        /\ sys.stepControl \subseteq sys'.stepControl
        /\ sys'.spindleStop = {} /\ sys'.speed = sys.speed
    <3>1. PICK c : c = IF spins THEN closed.stepControl \cup {"UpdatePwm"} ELSE closed.stepControl
      OBVIOUS
    <3>2. closed.stepControl \subseteq c /\ c \subseteq {"Hold", "EndMotion", "UpdatePwm"}
      BY <1>5, <3>1 DEF Systems
    <3>3. sys' = [closed EXCEPT !.suspend = @ \cup {"RestoreComplete"}, !.stepControl = c]
      BY <2>1, <3>1
    <3>4. QED
      BY <1>5, <1>6, <3>2, <3>3 DEF Systems, SuspendBits
  <2>3. Retracted(sys')
    BY <1>3, <1>5, <1>6, <1>9, <2>2 DEF Retracted
  <2>4. asked
    BY <1>4, <1>9 DEF AskedInv
  <2>5. Remains
    BY <1>3, <1>4, <1>5, <1>6, <2>1, <2>2, <2>3, <2>4 DEF Remains
  <2>6. ASSUME ~laser, cmd.kind # "ended" PROVE (sys.speed > 0) = Runs(modal)
    <3>1. CASE "RestoreComplete" \in sys.suspend
      BY <1>4, <1>6, <2>6, <3>1 DEF SpindleInv, Runs_as, Off
    <3>2. CASE "RestoreComplete" \notin sys.suspend
      <4>1. sys.speed = 0
        BY <1>3, <1>4, <3>2 DEF Open
      <4>2. ~modal.on
        BY <1>2, <1>6, <1>9, <2>6
      <4>3. QED
        BY <4>1, <4>2 DEF Runs
    <3>3. QED
      BY <3>1, <3>2
  <2>7. Turns
    BY <2>1, <2>2, <2>6 DEF Turns, Runs_as
  <2>8. QED
    BY <1>3, <2>2, <2>5, <2>7, RemainsKeeps
<1>10. QED
  BY <1>7, <1>8, <1>9

LEMMA HoldManagerKeeps ==
  ASSUME IInv, pc = "suspend", "HoldComplete" \in sys.suspend, sys.state \notin {"DOOR", "SLEEP"},
         HoldManager, UNCHANGED <<accessory, modal, laser, cmd, restore, asked>>
  PROVE  IInv' /\ sys'.state = sys.state
<1>1. /\ Types /\ AskedInv /\ SpindleInv /\ Coherent(sys) /\ Retracted(sys) /\ Stopped(sys, motion)
      /\ ~motion.on /\ sys \in Systems /\ motion \in Motions
      /\ sys.state = "HOLD" /\ (~laser => Runs(restore) = Runs(modal))
      /\ restore.on \in BOOLEAN /\ restore.rpm \in Rpms \cup {0}
  BY AtHold
<1>2. /\ sys.suspend \subseteq {"HoldComplete"} /\ sys.spindleStop \subseteq {"Enabled", "Initiate", "Restore", "RestoreCycle"}
  BY <1>1 DEF Coherent, Systems
<1>3. pc' = "suspendPass" /\ motion' = motion
  BY DEF HoldManager
\* The new sys, when it does not stop the spindle.
<1>4. ASSUME NEW t \in Systems, sys' = t, t.state = "HOLD", t.suspend = sys.suspend,
             "EndMotion" \in sys.stepControl => "EndMotion" \in t.stepControl,
             t.spindleStop \subseteq sys.spindleStop \cup {"Enabled"}, t.spindleStop \subseteq {"Enabled"},
             t.spindleStop # {} => t.speed = 0,
             flags' \subseteq flags \cup {"CycleStart"}, "CycleStart" \in flags' \ flags => asked,
             ~laser /\ cmd.kind # "ended" /\ ~Off(t) => (t.speed > 0) = Runs(modal)
      PROVE  IInv' /\ sys'.state = sys.state
  <2>1. Retracted(t)
    BY <1>2, <1>4 DEF Retracted
  <2>2. Remains
    BY <1>1, <1>2, <1>3, <1>4, <2>1 DEF Remains
  <2>3. Turns
    BY <1>2, <1>3, <1>4 DEF Turns, Runs_as
  <2>4. QED
    BY <1>1, <1>4, <2>2, <2>3, RemainsKeeps
\* The spindle as it is.
<1>5. ASSUME ~laser, cmd.kind # "ended", ~Off(sys) PROVE (sys.speed > 0) = Runs(modal)
  BY <1>1, <1>5 DEF SpindleInv, Runs_as
<1>6. ~modal.on /\ Off(sys) => (sys.speed > 0) = Runs(modal)
  <2>1. SUFFICES ASSUME ~modal.on, Off(sys) PROVE (sys.speed > 0) = Runs(modal)
    OBVIOUS
  <2>2. sys.speed = 0
    BY <1>1, <2>1 DEF Stopped
  <2>3. QED
    BY <2>1, <2>2 DEF Runs
<1>7. CASE "Initiate" \in sys.spindleStop /\ modal.on
  <2>1. /\ sys' = [SpindleSet(sys, FALSE, 0) EXCEPT !.spindleStop = {"Enabled"}]
        /\ flags' = flags
    BY <1>7 DEF HoldManager
  <2>2. PICK u : u = SpindleSet(sys, FALSE, 0)
    OBVIOUS
  <2>3. u \in Systems /\ Same(sys, u) /\ u.stepControl = sys.stepControl /\ ~(u.speed > 0)
    BY <1>1, <2>2, Sets
  <2>4. PICK t : t = [u EXCEPT !.spindleStop = {"Enabled"}]
    OBVIOUS
  <2>5. /\ t \in Systems /\ t.state = sys.state /\ t.suspend = sys.suspend
        /\ t.stepControl = sys.stepControl /\ t.spindleStop = {"Enabled"} /\ t.speed = u.speed
    BY <2>3, <2>4 DEF Systems, Same
  <2>6. t.speed = 0 /\ Off(t)
    BY <2>3, <2>5 DEF Systems, Off
  <2>7. sys' = t
    BY <2>1, <2>2, <2>4
  <2>8. QED
    BY <1>1, <1>4, <2>1, <2>5, <2>6, <2>7
<1>8. CASE "Initiate" \in sys.spindleStop /\ ~modal.on
  <2>1. sys' = [sys EXCEPT !.spindleStop = {}] /\ flags' = flags
    BY <1>8 DEF HoldManager
  <2>2. PICK t : t = [sys EXCEPT !.spindleStop = {}]
    OBVIOUS
  <2>3. /\ t \in Systems /\ t.state = sys.state /\ t.suspend = sys.suspend
        /\ t.stepControl = sys.stepControl /\ t.spindleStop = {} /\ t.speed = sys.speed
    BY <1>1, <2>2 DEF Systems
  <2>4. ~laser /\ cmd.kind # "ended" => (t.speed > 0) = Runs(modal)
    BY <1>5, <1>6, <1>8, <2>3
  <2>5. QED
    BY <1>1, <1>4, <2>1, <2>2, <2>3, <2>4
<1>9. CASE "Initiate" \notin sys.spindleStop /\ sys.spindleStop \cap {"Restore", "RestoreCycle"} # {}
  <2>1. /\ sys' = [(IF ~modal.on THEN sys
                    ELSE IF laser THEN [sys EXCEPT !.stepControl = @ \cup {"UpdatePwm"}]
                    ELSE SpindleSet(sys, restore.on, restore.rpm)) EXCEPT !.spindleStop = {}]
        /\ flags' = IF "RestoreCycle" \in sys.spindleStop THEN flags \cup {"CycleStart"} ELSE flags
    BY <1>9 DEF HoldManager
  <2>2. Off(sys) /\ ("RestoreCycle" \in sys.spindleStop => asked)
    BY <1>1, <1>9 DEF Off, AskedInv
  <2>3. PICK u : u = IF ~modal.on THEN sys
                     ELSE IF laser THEN [sys EXCEPT !.stepControl = @ \cup {"UpdatePwm"}]
                     ELSE SpindleSet(sys, restore.on, restore.rpm)
    OBVIOUS
  <2>4. /\ u \in Systems /\ u.state = sys.state /\ u.suspend = sys.suspend
        /\ "EndMotion" \in sys.stepControl => "EndMotion" \in u.stepControl
        /\ ~laser => (u.speed > 0) = Runs(modal)
    <3>1. CASE ~modal.on
      BY <1>1, <1>6, <2>2, <2>3, <3>1
    <3>2. CASE modal.on /\ laser
      BY <1>1, <2>3, <3>2 DEF Systems
    <3>3. CASE modal.on /\ ~laser
      <4>1. u = SpindleSet(sys, restore.on, restore.rpm)
        BY <2>3, <3>3
      <4>2. /\ u \in Systems /\ Same(sys, u) /\ u.stepControl = sys.stepControl
            /\ u.speed > 0 <=> restore.on /\ restore.rpm > 0
        BY <1>1, <4>1, Sets
      <4>3. (u.speed > 0) = Runs(modal)
        BY <1>1, <3>3, <4>2 DEF Runs
      <4>4. QED
        BY <4>2, <4>3 DEF Same
    <3>4. QED
      BY <3>1, <3>2, <3>3
  <2>5. PICK t : t = [u EXCEPT !.spindleStop = {}]
    OBVIOUS
  <2>6. /\ t \in Systems /\ t.state = u.state /\ t.suspend = u.suspend
        /\ t.stepControl = u.stepControl /\ t.spindleStop = {} /\ t.speed = u.speed
    BY <2>4, <2>5 DEF Systems
  <2>7. sys' = t
    BY <2>1, <2>3, <2>5
  <2>8. QED
    BY <1>1, <1>4, <2>1, <2>2, <2>4, <2>6, <2>7
<1>10. CASE sys.spindleStop = {} /\ "UpdatePwm" \in sys.stepControl
  <2>1. /\ sys' = [SpindleSet(sys, restore.on, restore.rpm) EXCEPT !.stepControl = @ \ {"UpdatePwm"}]
        /\ flags' = flags
    BY <1>10 DEF HoldManager
  <2>2. PICK u : u = SpindleSet(sys, restore.on, restore.rpm)
    OBVIOUS
  <2>3. /\ u \in Systems /\ Same(sys, u) /\ u.stepControl = sys.stepControl
        /\ u.speed > 0 <=> restore.on /\ restore.rpm > 0
    BY <1>1, <2>2, Sets
  <2>4. PICK t : t = [u EXCEPT !.stepControl = @ \ {"UpdatePwm"}]
    OBVIOUS
  <2>5. /\ t \in Systems /\ t.state = u.state /\ t.suspend = u.suspend
        /\ t.stepControl = u.stepControl \ {"UpdatePwm"} /\ t.spindleStop = u.spindleStop
        /\ t.speed = u.speed
    BY <2>3, <2>4 DEF Systems
  <2>6. ~laser => (t.speed > 0) = Runs(modal)
    BY <1>1, <2>3, <2>5 DEF Runs
  <2>7. sys' = t
    BY <2>1, <2>2, <2>4
  <2>8. QED
    BY <1>1, <1>4, <1>10, <2>1, <2>3, <2>5, <2>6, <2>7 DEF Same
<1>11. CASE /\ "Initiate" \notin sys.spindleStop
            /\ sys.spindleStop \cap {"Restore", "RestoreCycle"} = {}
            /\ ~(sys.spindleStop = {} /\ "UpdatePwm" \in sys.stepControl)
  <2>1. sys' = sys /\ flags' = flags
    BY <1>11 DEF HoldManager
  <2>2. sys.spindleStop \subseteq {"Enabled"} /\ (sys.spindleStop # {} => Off(sys))
    BY <1>2, <1>11 DEF Off
  <2>3. Off(sys) => sys.speed = 0
    BY <1>1 DEF Stopped
  <2>4. QED
    BY <1>1, <1>4, <1>5, <2>1, <2>2, <2>3
<1>12. QED
  BY <1>7, <1>8, <1>9, <1>10, <1>11

LEMMA ManageKeeps == ASSUME IInv, Manage PROVE IInv' /\ sys'.state = sys.state
<1>1. pc = "suspend" /\ UNCHANGED <<accessory, modal, laser, cmd, restore, asked>>
  BY DEF Manage
<1>2. CASE "HoldComplete" \notin sys.suspend
  <2>1. pc' = "suspendPass" /\ UNCHANGED <<sys, motion, flags>>
    BY <1>2 DEF Manage
  <2>2. Types' /\ FlagInv' /\ SysInv'
    BY <1>1, <2>1 DEF IInv, Types, FlagInv, SysInv, Calling
  <2>3. PcInv'
    BY <1>1, <1>2, <2>1 DEF IInv, PcInv, Suspended
  <2>4. ~Off(sys)
    BY <1>2 DEF IInv, SysInv, Core, Stopped
  <2>5. AskedInv'
    BY <1>1, <2>1, <2>4 DEF IInv, AskedInv, Off
  <2>6. SpindleInv'
    BY <1>1, <2>1 DEF IInv, SpindleInv
  <2>7. QED
    BY <2>1, <2>2, <2>3, <2>5, <2>6 DEF IInv
<1>3. CASE "HoldComplete" \in sys.suspend /\ sys.state \in {"DOOR", "SLEEP"}
  BY <1>1, <1>3, RetractKeeps, FallAsleepKeeps, DoorClosedKeeps DEF Manage
<1>4. CASE "HoldComplete" \in sys.suspend /\ sys.state \notin {"DOOR", "SLEEP"}
  BY <1>1, <1>4, HoldManagerKeeps DEF Manage
<1>5. QED
  BY <1>2, <1>3, <1>4

-----------------------------------------------------------------------------
(* The interrupt, and requests. *)

LEMMA SegmentKeeps == ASSUME IInv, IsrSegment PROVE IInv'
<1>1. /\ motion.on /\ motion.segs > 0
      /\ motion' = [motion EXCEPT !.segs = @ - 1]
      /\ UNCHANGED <<sys, flags, accessory, modal, laser, pc, cmd, restore, asked, lines, requests>>
  BY DEF IsrSegment
<1>2. Types /\ PcInv /\ FlagInv /\ SysInv /\ AskedInv /\ SpindleInv
  BY DEF IInv
<1>3. /\ motion' \in Motions /\ motion'.queue = motion.queue /\ motion'.loaded = motion.loaded
      /\ motion'.on = motion.on
  <2>1. PICK n : n = motion.segs - 1
    OBVIOUS
  <2>2. n \in 0 .. SegmentSlots
    <3>1. SegmentSlots \in Nat
      BY SuspendAssumption
    <3>2. motion.segs \in 0 .. SegmentSlots
      BY <1>2 DEF Types, Motions
    <3>3. QED
      BY <1>1, <2>1, <3>1, <3>2
  <2>3. motion' = [motion EXCEPT !.segs = n]
    BY <1>1, <2>1
  <2>4. QED
    BY <1>2, <2>2, <2>3 DEF Types, Motions
<1>4. Coherent(sys) /\ Retracted(sys) /\ Stopped(sys, motion) /\ Cutting(sys, motion)
  BY <1>2 DEF SysInv, Core
<1>5. "HoldComplete" \notin sys.suspend
  BY <1>1, <1>4 DEF Cutting
<1>6. ~Off(sys) /\ "RetractComplete" \notin sys.suspend
  BY <1>4, <1>5 DEF Stopped, Retracted
<1>7. Stopped(sys, motion') /\ Open(sys, motion') /\ Cutting(sys, motion')
  BY <1>3, <1>4, <1>6 DEF Stopped, Open, Cutting
<1>8. SysInv'
  BY <1>1, <1>4, <1>5, <1>7 DEF SysInv, Core
<1>9. Types' /\ PcInv' /\ FlagInv' /\ AskedInv'
  BY <1>1, <1>2, <1>3 DEF Types, PcInv, FlagInv, AskedInv
<1>10. SpindleInv'
  <2>1. Runs(modal)' = Runs(modal) /\ \A r \in BOOLEAN : Queued_as(motion, r) => Queued_as(motion', r)
    BY <1>1, <1>3 DEF Queued_as
  <2>2. Runs(modal) \in BOOLEAN
    BY <1>2 DEF Runs, Types, Spindle
  <2>3. QED
    BY <1>1, <1>2, <1>3, <2>1, <2>2 DEF SpindleInv
<1>11. QED
  BY <1>8, <1>9, <1>10 DEF IInv

LEMMA EmptyKeeps == ASSUME IInv, IsrEmpty PROVE IInv'
<1>1. /\ motion.on /\ motion' = [motion EXCEPT !.on = FALSE]
      /\ flags' = flags \cup {"CycleStop"}
      /\ UNCHANGED <<sys, accessory, modal, laser, pc, cmd, restore, asked, lines, requests>>
  BY DEF IsrEmpty
<1>2. Types /\ PcInv /\ FlagInv /\ SysInv /\ AskedInv /\ SpindleInv
  BY DEF IInv
<1>3. /\ motion' \in Motions /\ motion'.queue = motion.queue /\ motion'.loaded = motion.loaded
      /\ motion'.segs = motion.segs /\ ~motion'.on
  BY <1>1, <1>2 DEF Types, Motions
<1>4. "HoldComplete" \notin sys.suspend /\ sys.state \in {"CYCLE", "HOLD", "DOOR"}
  BY <1>1, <1>2 DEF SysInv, Core, Cutting
<1>5. SysInv'
  BY <1>1, <1>2, <1>3 DEF SysInv, Core, Stopped, Open, Cutting, Full
<1>6. Types' /\ PcInv' /\ FlagInv' /\ AskedInv'
  BY <1>1, <1>2, <1>3, <1>4 DEF Types, PcInv, FlagInv, AskedInv
<1>7. SpindleInv'
  <2>1. Runs(modal)' = Runs(modal) /\ \A r \in BOOLEAN : Queued_as(motion, r) => Queued_as(motion', r)
    BY <1>1, <1>3 DEF Queued_as
  <2>2. Runs(modal) \in BOOLEAN
    BY <1>2 DEF Runs, Types, Spindle
  <2>3. QED
    BY <1>1, <1>2, <1>3, <2>1, <2>2 DEF SpindleInv
<1>8. QED
  BY <1>5, <1>6, <1>7 DEF IInv

LEMMA RequestKeeps == ASSUME IInv, NEW r \in Requests, Request(r) PROVE IInv'
<1>1. /\ accessory' = IF r \in OverrideBits THEN accessory \cup {r} ELSE accessory
      /\ asked' = (asked \/ r \in {"CycleStart", "Abort"})
      /\ UNCHANGED <<sys, modal, laser, pc, cmd, restore, lines>>
  BY DEF Request
<1>2. Types /\ PcInv /\ FlagInv /\ SysInv /\ AskedInv /\ SpindleInv
  BY DEF IInv
<1>3. /\ flags' \subseteq flags \cup {"FeedHold", "CycleStart", "SafetyDoor", "Abort", "Alarm"}
      /\ "CycleStart" \in flags' \ flags => asked'
      /\ "Abort" \in flags' \ flags => asked'
      /\ motion' = motion \/ motion' = [motion EXCEPT !.on = FALSE]
  <2>1. r \in {"FeedHold", "CycleStart", "SafetyDoor", "Abort"} \cup OverrideBits
    BY SuspendAssumption
  <2>2. CASE r = "Abort"
    <3>1. /\ flags' \subseteq flags \cup {"Abort", "Alarm"}
          /\ motion' = motion \/ motion' = [motion EXCEPT !.on = FALSE]
      BY <2>2 DEF Request
    <3>2. QED
      BY <1>1, <2>2, <3>1
  <2>3. CASE r # "Abort"
    <3>1. /\ flags' = IF r \in OverrideBits THEN flags ELSE flags \cup {r}
          /\ motion' = motion
      BY <2>3 DEF Request
    <3>2. CASE r \in OverrideBits
      BY <3>1, <3>2
    <3>3. CASE r \in {"FeedHold", "CycleStart", "SafetyDoor"} /\ r \notin OverrideBits
      BY <1>1, <3>1, <3>3
    <3>4. QED
      BY <2>1, <2>3, <3>2, <3>3
  <2>4. QED
    BY <2>2, <2>3
<1>4. /\ motion' \in Motions /\ motion'.queue = motion.queue /\ motion'.loaded = motion.loaded
      /\ motion'.segs = motion.segs /\ (motion'.on => motion.on)
  BY <1>2, <1>3 DEF Types, Motions
<1>5. asked' \in BOOLEAN /\ (asked => asked')
  BY <1>1, <1>2, Zenon DEF Types
<1>6. Types'
  <2>1. accessory' \subseteq OverrideBits
    BY <1>1, <1>2 DEF Types
  <2>2. QED
    BY <1>1, <1>2, <1>3, <1>4, <1>5, <2>1 DEF Types
<1>7. PcInv' /\ FlagInv'
  BY <1>1, <1>2, <1>3, <1>4 DEF PcInv, FlagInv
<1>8. SysInv'
  BY <1>1, <1>2, <1>4 DEF SysInv, Core, Stopped, Open, Cutting, Full
<1>9. AskedInv'
  BY <1>1, <1>2, <1>3, <1>5 DEF AskedInv
<1>10. SpindleInv'
  <2>1. Runs(modal)' = Runs(modal) /\ \A b \in BOOLEAN : Queued_as(motion, b) => Queued_as(motion', b)
    BY <1>1, <1>4 DEF Queued_as
  <2>2. Runs(modal) \in BOOLEAN
    BY <1>2 DEF Runs, Types, Spindle
  <2>3. QED
    BY <1>1, <1>2, <1>4, <2>1, <2>2 DEF SpindleInv
<1>11. QED
  BY <1>6, <1>7, <1>8, <1>9, <1>10 DEF IInv

-----------------------------------------------------------------------------
(* The theorems. *)

\* A step that leaves all variables alone.
LEMMA StutterKeeps == ASSUME IInv, UNCHANGED vars PROVE IInv'
<1>1. UNCHANGED <<sys, motion, flags, accessory, modal, laser, pc, cmd, restore, asked>>
  BY DEF vars
<1>2. Types' /\ PcInv' /\ FlagInv' /\ SysInv' /\ AskedInv'
  BY <1>1 DEF IInv, Types, PcInv, FlagInv, SysInv, AskedInv
<1>3. SpindleInv'
  BY <1>1 DEF IInv, SpindleInv
<1>4. QED
  BY <1>2, <1>3 DEF IInv

\* A step that takes the machine out of a hold or a door was asked for.
Resumes == sys.state \in {"HOLD", "DOOR"} /\ sys'.state \in {"IDLE", "CYCLE"}

\* Every step keeps the invariant, and none resumes unasked.
LEMMA NextKeeps == IInv /\ Next => IInv' /\ (Resumes => asked)
<1> SUFFICES ASSUME IInv, Next PROVE IInv' /\ (Resumes => asked)
  OBVIOUS
<1>1. ASSUME NEW auto \in BOOLEAN, NEW cut \in 0 .. SegmentSlots, Pass(auto, cut)
      PROVE  IInv' /\ (Resumes => asked)
  BY <1>1, PassKeeps DEF Resumes
<1>2. CASE Reinitialize
  BY <1>2, ReinitializeKeeps
<1>3. CASE CheckCut
  <2>1. sys' = sys
    BY <1>3 DEF CheckCut
  <2>2. QED
    BY <1>3, <2>1, CheckCutKeeps DEF Resumes
<1>4. CASE CheckSync
  BY <1>4, CheckSyncKeeps DEF Resumes
<1>5. CASE FinishRestore
  BY <1>5, FinishRestoreKeeps DEF Resumes
<1>6. CASE Manage
  BY <1>6, ManageKeeps DEF Resumes
<1>7. CASE IsrSegment
  <2>1. sys' = sys
    BY <1>7 DEF IsrSegment
  <2>2. QED
    BY <1>7, <2>1, SegmentKeeps DEF Resumes
<1>8. CASE IsrEmpty
  <2>1. sys' = sys
    BY <1>8 DEF IsrEmpty
  <2>2. QED
    BY <1>8, <2>1, EmptyKeeps DEF Resumes
<1>9. ASSUME NEW kind \in {"cut", "start", "stop", "speed", "end", "sleep"}, NEW rpm \in Rpms,
             Line(kind, rpm)
      PROVE  IInv' /\ (Resumes => asked)
  <2>1. sys' = sys
    BY <1>9 DEF Line
  <2>2. QED
    BY <1>9, <2>1, LineKeeps DEF Resumes
<1>10. CASE Unlock
  <2>1. sys.state = "ALARM"
    BY <1>10 DEF Unlock
  <2>2. QED
    BY <1>10, <2>1, UnlockKeeps DEF Resumes
<1>11. ASSUME NEW r \in Requests, Request(r) PROVE IInv' /\ (Resumes => asked)
  <2>1. sys' = sys
    BY <1>11 DEF Request
  <2>2. QED
    BY <1>11, <2>1, RequestKeeps DEF Resumes
<1>12. QED
  BY <1>1, <1>2, <1>3, <1>4, <1>5, <1>6, <1>7, <1>8, <1>9, <1>10, <1>11 DEF Next, Main, Isr, Input

LEMMA Invariance == Spec => []IInv
<1>1. Init => IInv
  BY Starts
<1>2. IInv /\ [Next]_vars => IInv'
  BY NextKeeps, StutterKeeps
<1>3. QED
  BY <1>1, <1>2, PTL DEF Spec

(* The state, the flag words, the override and the speed stay in their      *)
(* types, the spindle within the range of the settings, and neither the     *)
(* planner nor the segment ring is filled beyond its size.                  *)
THEOREM TypeCorrect == Spec => []TypeOK
<1>1. IInv => TypeOK
  <2>1. SUFFICES ASSUME IInv PROVE TypeOK
    OBVIOUS
  <2>2. Types
    BY <2>1 DEF IInv
  <2>3. QED
    BY <2>2 DEF Types, TypeOK, Systems, States, SuspendBits, Motions, Calling
<1>2. QED
  BY <1>1, Invariance, PTL

(* With the door open, or asleep, nothing switches the spindle on between   *)
(* the retract and the restore a resume begins: neither an override nor a   *)
(* late segment, a hold's spindle stop or a second door.                    *)
THEOREM DoorKeepsSpindleOff == Spec => []DoorStopsSpindle
<1>1. IInv => DoorStopsSpindle
  BY DEF IInv, DoorStopsSpindle, SysInv, Core, PcInv, Retracted, Open
<1>2. QED
  BY <1>1, Invariance, PTL

(* Whatever holds, spindle stops and doors came before, a block is cut with *)
(* its own spindle: on if the block has it on, off otherwise.               *)
THEOREM SpindleFollowsProgram == Spec => []SpindleAsProgrammed
<1>1. IInv => SpindleAsProgrammed
  <2>1. SUFFICES ASSUME IInv, sys.state = "CYCLE", motion.loaded, pc = "loop", ~laser
                 PROVE  (sys.speed > 0) = (Head(motion.queue).on /\ Head(motion.queue).rpm > 0)
    BY DEF SpindleAsProgrammed
  <2>2. /\ Types /\ cmd = NoCmd /\ Coherent(sys) /\ Cutting(sys, motion)
        /\ Queued_as(motion, Runs(modal))
        /\ cmd.kind # "ended" => Runs_as(sys, Runs(modal))
    BY <2>1 DEF IInv, PcInv, SysInv, Core, SpindleInv
  <2>3. ~Off(sys) /\ cmd.kind = "none"
    BY <2>1, <2>2 DEF Coherent, Off, NoCmd
  <2>4. (sys.speed > 0) = Runs(modal)
    BY <2>1, <2>2, <2>3 DEF Runs_as
  <2>5. motion.queue # <<>> /\ motion \in Motions
    BY <2>1, <2>2 DEF Cutting, Types
  <2>6. Head(motion.queue) = motion.queue[1] /\ 1 \in 1 .. Len(motion.queue)
    BY <2>5, FirstBlock
  <2>7. Runs(motion.queue[1]) = Runs(modal)
    BY <2>2, <2>6 DEF Queued_as
  <2>8. QED
    BY <2>4, <2>6, <2>7 DEF Runs
<1>2. QED
  BY <1>1, Invariance, PTL

(* After a program, and all stops and resumes in it, the idle spindle runs  *)
(* if and only if the parser has it on.                                     *)
THEOREM IdleSpindleAgrees == Spec => []IdleSpindle
<1>1. IInv => IdleSpindle
  <2>1. SUFFICES ASSUME IInv, sys.state = "IDLE", pc = "loop", ~laser
                 PROVE  (sys.speed > 0) = (modal.on /\ modal.rpm > 0)
    BY DEF IdleSpindle
  <2>2. /\ cmd = NoCmd /\ Coherent(sys)
        /\ cmd.kind # "ended" => Runs_as(sys, Runs(modal))
    BY <2>1 DEF IInv, PcInv, SysInv, Core, SpindleInv
  <2>3. ~Off(sys) /\ cmd.kind = "none"
    BY <2>1, <2>2 DEF Coherent, Off, NoCmd
  <2>4. QED
    BY <2>1, <2>2, <2>3 DEF Runs_as, Runs
<1>2. QED
  BY <1>1, Invariance, PTL

(* A stopped machine goes on only after somebody has asked for it since:    *)
(* an automatic cycle start, or one that an earlier resume still has on its *)
(* way, does not get through.                                               *)
THEOREM OnlyUserResumes == Spec => StopNeedsUser
<1>1. IInv /\ [Next]_vars => [Resumes => asked]_vars
  BY NextKeeps
<1>2. QED
  BY <1>1, Invariance, PTL DEF Spec, StopNeedsUser, Resumes
=============================================================================
