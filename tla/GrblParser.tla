----------------------------- MODULE GrblParser -----------------------------
(***************************************************************************)
(* Steps 1 to 3 of gc_execute_line: what a line of g-code, or a jog after  *)
(* "$J=", means in the present modal state and whether it is refused.      *)
(*                                                                         *)
(* A line is the sequence of its command words and the sequence of its     *)
(* value words.  Its errors are told apart by nothing but being errors, so *)
(* that the order of the tests does not matter.  Lengths are integers: two *)
(* radii of an arc agree within the code's tolerance if they are equal.    *)
(***************************************************************************)
EXTENDS GrblSettings

CONSTANTS MmPerInch, MaxTool

ASSUME ParserAssumption == {MmPerInch, MaxTool} \subseteq Nat \ {0}

-----------------------------------------------------------------------------
(* Step 2: the words. *)

ModalGroups ==
  [G0  |-> {"G4", "G10", "G28", "G28.1", "G30", "G30.1", "G53", "G92", "G92.1"},
   G1  |-> {"G0", "G1", "G2", "G3", "G38.2", "G38.3", "G38.4", "G38.5", "G80"},
   G2  |-> {"G17", "G18", "G19"},
   G3  |-> {"G90", "G91"},
   G4  |-> {"G91.1"},
   G5  |-> {"G93", "G94"},
   G6  |-> {"G20", "G21"},
   G7  |-> {"G40"},
   G8  |-> {"G43.1", "G49"},
   G12 |-> Systems,
   G13 |-> {"G61"},
   M4  |-> {"M0", "M1", "M2", "M30"},
   M7  |-> {"M3", "M4", "M5"},
   M8  |-> {"M8", "M9"}]

Probes == {"G38.2", "G38.3", "G38.4", "G38.5"}
Arcs == {"G2", "G3"}

\* The commands that lay claim to the axis words.
AxisCommands ==
  [nonModal |-> {"G10", "G28", "G30", "G92"},
   motion   |-> ModalGroups.G1 \ {"G80"},
   length   |-> {"G43.1", "G49"}]

OffsetOf == [X |-> "I", Y |-> "J", Z |-> "K"]
ValueLetters == {"F", "I", "J", "K", "L", "N", "P", "R", "S", "T"} \cup Axes

\* What reading the words leaves of a line.
IsWords(l) == l.codes \in Seq(STRING) /\ l.vals \in Seq(STRING \X Int)

Codes(l) == {l.codes[i] : i \in DOMAIN l.codes}
Letters(l) == {l.vals[i][1] : i \in DOMAIN l.vals}
Value(l, w) == IF w \in Letters(l)
               THEN l.vals[CHOOSE i \in DOMAIN l.vals : l.vals[i][1] = w][2]
               ELSE 0
AxisWords(l) == Letters(l) \cap Axes

\* How many words of the line are commands of a set.
Count(l, set) == Cardinality({i \in DOMAIN l.codes : l.codes[i] \in set})

CommandsFit(l) ==
  /\ \A c \in Codes(l) : \E g \in DOMAIN ModalGroups : c \in ModalGroups[g]
  /\ \A g \in DOMAIN ModalGroups : Count(l, ModalGroups[g]) <= 1
  /\ Count(l, UNION {AxisCommands[k] : k \in DOMAIN AxisCommands}) <= 1

ValuesFit(l) ==
  /\ Letters(l) \subseteq ValueLetters
  /\ Cardinality(Letters(l)) = Len(l.vals)
  /\ \A w \in {"F", "N", "P", "T", "S"} : Value(l, w) >= 0
  /\ Value(l, "T") <= MaxTool

\* The line's command of a modal group, or the mode in force.
Named(l, g, default) ==
  IF Codes(l) \cap ModalGroups[g] = {} THEN default ELSE CHOOSE c \in ModalGroups[g] : c \in Codes(l)

IsJog(l) == l.kind = "jog"

\* gc_block.modal and the non-modal command.
Modes(l, gc) ==
  [motion   |-> Named(l, "G1", IF IsJog(l) THEN "G1" ELSE gc.motion),
   feedMode |-> Named(l, "G5", IF IsJog(l) THEN "G94" ELSE gc.feedMode),
   plane    |-> Named(l, "G2", gc.plane),
   distance |-> Named(l, "G3", gc.distance),
   units    |-> Named(l, "G6", gc.units),
   coord    |-> Named(l, "G12", gc.coord),
   spindle  |-> Named(l, "M7", gc.spindle),
   coolant  |-> Named(l, "M8", gc.coolant),
   flow     |-> Named(l, "M4", "none"),
   nonModal |-> Named(l, "G0", "none")]

-----------------------------------------------------------------------------
(* Step 3: the values. *)

\* Axis words without a command of their own belong to the motion mode.
AxisCommand(l) ==
  IF \E k \in DOMAIN AxisCommands : Codes(l) \cap AxisCommands[k] # {}
  THEN CHOOSE k \in DOMAIN AxisCommands : Codes(l) \cap AxisCommands[k] # {}
  ELSE IF AxisWords(l) # {} THEN "motion" ELSE "none"

Factor(m) == IF m.units = "G20" THEN MmPerInch ELSE 1

\* A feed that follows a G93 block is neither converted nor taken over.
Feed(l, m, gc) ==
  CASE IsJog(l)             -> Value(l, "F") * Factor(m)
    [] ~IsJog(l) /\ m.feedMode = "G94" /\ gc.feedMode = "G94" ->
         IF "F" \in Letters(l) THEN Value(l, "F") * Factor(m) ELSE gc.feed
    [] OTHER                -> Value(l, "F")

Speed(l, gc) == IF "S" \in Letters(l) THEN Value(l, "S") ELSE gc.speed

PlaneAxes(m) ==
  CASE m.plane = "G17" -> <<"X", "Y">> [] m.plane = "G18" -> <<"Z", "X">> [] OTHER -> <<"Y", "Z">>

Length(l, m, a) == Value(l, a) * Factor(m)

\* The tool length offset acts on one axis.
ToolOffset(gc, a) == IF a = "Z" THEN gc.tlo ELSE 0

(* Mutant: the data of the system in force is read again. *)
BlockSystemStale(m, gc, e) == Coordinates(e, gc.coord)

BlockSystem(m, gc, e) == IF m.coord = gc.coord THEN gc.system ELSE Coordinates(e, m.coord)

\* G10: the record it changes, P0 being the active system, and its new data.
NthSystem == <<"G54", "G55", "G56", "G57", "G58", "G59">>
SelectOf(l, m) == IF Value(l, "P") = 0 THEN m.coord ELSE NthSystem[Value(l, "P")]

SystemData(l, m, gc, e) ==
  [a \in Axes |->
     IF a \notin AxisWords(l) THEN Coordinates(e, SelectOf(l, m))[a]
     ELSE IF Value(l, "L") = 20
          THEN gc.pos[a] - gc.offset[a] - Length(l, m, a) - ToolOffset(gc, a)
          ELSE Length(l, m, a)]

\* G92: the offset that makes the present position the programmed one.
(* Mutant: the tool length is left out. *)
OffsetDataWithoutTool(l, m, gc, e) ==
  [a \in Axes |->
     IF a \notin AxisWords(l) THEN gc.offset[a]
     ELSE gc.pos[a] - BlockSystem(m, gc, e)[a] - Length(l, m, a)]

OffsetData(l, m, gc, e) ==
  [a \in Axes |->
     IF a \notin AxisWords(l) THEN gc.offset[a]
     ELSE gc.pos[a] - BlockSystem(m, gc, e)[a] - Length(l, m, a) - ToolOffset(gc, a)]

\* The target of a motion in machine coordinates.  Without axis words it
\* stays as memset left it.
TargetOf(l, m, gc, e) ==
  [a \in Axes |->
     CASE AxisWords(l) = {}      -> 0
       [] a \notin AxisWords(l) /\ AxisWords(l) # {} -> gc.pos[a]
       [] a \in AxisWords(l) /\ m.nonModal = "G53" -> Length(l, m, a)
       [] a \in AxisWords(l) /\ m.nonModal # "G53" /\ m.distance = "G90" ->
            Length(l, m, a) + BlockSystem(m, gc, e)[a] + gc.offset[a] + ToolOffset(gc, a)
       [] OTHER                  -> Length(l, m, a) + gc.pos[a]]

\* Where G28 and G30 end: axis words restrict the second move.
HomeOf(l, m, gc, e) ==
  [a \in Axes |-> IF AxisWords(l) # {} /\ a \notin AxisWords(l) THEN gc.pos[a]
                  ELSE Coordinates(e, m.nonModal)[a]]

-----------------------------------------------------------------------------
(* Step 3: the errors. *)

FeedFits(l, m, gc) ==
  /\ IsJog(l) => "F" \in Letters(l)
  /\ ~IsJog(l) /\ m.feedMode = "G93" /\ AxisCommand(l) = "motion" /\ m.motion \notin {"G0", "G80"}
       => "F" \in Letters(l)

\* The missing word of G10 is noticed only if P and L are missing both.
NonModalFits(l, m) ==
  CASE m.nonModal = "G4"  -> "P" \in Letters(l)
    [] m.nonModal = "G10" -> /\ AxisWords(l) # {}
                             /\ Letters(l) \cap {"P", "L"} # {}
                             /\ Value(l, "P") <= Len(NthSystem)
                             /\ Value(l, "L") \in {2, 20}
                             /\ Value(l, "L") = 2 => "R" \notin Letters(l)
    [] m.nonModal = "G92" -> AxisWords(l) # {}
    [] m.nonModal = "G53" -> m.motion \in {"G0", "G1"}
    [] OTHER              -> TRUE

LengthFits(l) == "G43.1" \in Codes(l) => AxisWords(l) = {"Z"}

\* Offsets give the centre, or R the radius of an arc through both points.
ArcFits(l, m, gc, e) ==
  LET axis == PlaneAxes(m)
      plane == {axis[1], axis[2]}
      target == TargetOf(l, m, gc, e)
      x == target[axis[1]] - gc.pos[axis[1]]
      y == target[axis[2]] - gc.pos[axis[2]]
      i == Value(l, OffsetOf[axis[1]]) * Factor(m)
      j == Value(l, OffsetOf[axis[2]]) * Factor(m)
      r == Value(l, "R") * Factor(m)
  IN /\ AxisWords(l) \cap plane # {}
     /\ IF "R" \in Letters(l)
        THEN target # gc.pos /\ 4 * r * r - x * x - y * y >= 0
        ELSE /\ \E a \in plane : OffsetOf[a] \in Letters(l)
             /\ (x - i) * (x - i) + (y - j) * (y - j) = i * i + j * j

MotionFits(l, m, gc, e) ==
  /\ m.motion = "G80" => AxisWords(l) = {}
  /\ m.motion \notin {"G0", "G80"} /\ AxisCommand(l) = "motion" =>
       /\ Feed(l, m, gc) # 0
       /\ m.motion \in Arcs => ArcFits(l, m, gc, e)
       /\ m.motion \in Probes => AxisWords(l) # {} /\ TargetOf(l, m, gc, e) # gc.pos

\* The value words that nothing in the line uses.
Unused(l, m) ==
  Letters(l) \ (   {"N", "F"}
              \cup (IF IsJog(l) THEN {} ELSE {"S", "T"})
              \cup (IF m.nonModal = "G4" THEN {"P"} ELSE {})
              \cup (IF m.nonModal = "G10" THEN {"P", "L"} ELSE {})
              \cup (IF m.motion \in Arcs /\ AxisCommand(l) = "motion"
                    THEN IF "R" \in Letters(l) THEN {"R"} ELSE {"I", "J", "K"} ELSE {})
              \cup Axes)

\* No test of a jog asks for axis words.
JogFits(l) == Codes(l) \subseteq ModalGroups.G3 \cup ModalGroups.G6 \cup {"G53"}

\* The line is executed.
Accepted(l, gc, e) ==
  /\ CommandsFit(l)
  /\ ValuesFit(l)
  /\ LET m == Modes(l, gc)
     IN /\ FeedFits(l, m, gc)
        /\ NonModalFits(l, m)
        /\ LengthFits(l)
        /\ MotionFits(l, m, gc, e)
        /\ Unused(l, m) = {}
        /\ IsJog(l) => JogFits(l)
=============================================================================
