---------------------------- MODULE MCGrblGcode ----------------------------
(* Model of GrblGcode for TLC. *)
EXTENDS GrblGcode

Block(codes, vals) == [kind |-> "gcode", codes |-> codes, vals |-> vals]
Jog(codes, vals) == [kind |-> "jog", codes |-> codes, vals |-> vals]
Set(p, v) == [kind |-> "set", p |-> p, v |-> v]
Cmd(name, arg) == [kind |-> "command", name |-> name, arg |-> arg]
Start(n, block) == [kind |-> "startup", n |-> n, block |-> block]

MCConfigs == {Defaults,
              [Defaults EXCEPT ![20] = 1, ![22] = 1],
              [Defaults EXCEPT ![32] = 1]}

\* Motion in every mode, distance, plane and unit, and motion that is refused.
Motions == {
  Block(<<"G1">>, <<<<"X", -1>>, <<"F", 1>>>>),
  Block(<<"G91", "G0">>, <<<<"X", 1>>, <<"Z", -1>>>>),
  Block(<<"G53", "G0">>, <<<<"X", 0>>>>),
  Block(<<"G2">>, <<<<"X", -1>>, <<"Y", -1>>, <<"I", -1>>, <<"F", 1>>>>),
  Block(<<"G93", "G18", "G3">>, <<<<"X", -2>>, <<"R", 1>>, <<"F", 1>>>>),
  Block(<<"G54", "G80">>, <<>>)}

Offsets == {
  Block(<<"G43.1">>, <<<<"Z", 1>>>>),
  Block(<<"G20", "G92">>, <<<<"Z", 1>>>>),
  Block(<<"G49", "G92.1">>, <<>>),
  Block(<<"G55", "G10">>, <<<<"L", 20>>, <<"P", 0>>, <<"X", 1>>, <<"Z", 1>>>>),
  Block(<<"G10">>, <<<<"L", 2>>, <<"P", 1>>, <<"X", -1>>>>),
  Block(<<"G28">>, <<<<"X", 0>>>>),
  Block(<<"G28.1", "M0">>, <<>>)}

Others == {
  Block(<<"M2">>, <<>>),
  Block(<<"M3", "G4">>, <<<<"S", 1>>, <<"P", 1>>>>),
  Jog(<<"G91">>, <<<<"X", -1>>, <<"F", 1>>>>),
  Jog(<<>>, <<<<"Z", -1>>, <<"F", 1>>>>),
  Set(20, 1), Set(22, 0), Set(22, 1), Set(13, 1),
  Cmd("$C", ""), Cmd("$X", ""), Cmd("$H", ""), Cmd("$H", "X"),
  Cmd("$RST", "#"), Cmd("$RST", "*"),
  Start(0, Block(<<"G91", "G0">>, <<<<"X", -1>>>>))}

MCLines == Motions \cup Offsets \cup Others

\* A jog without axis words, away from the machine's zero.
JogLines == {
  Block(<<"G0">>, <<<<"X", -1>>>>),
  Jog(<<>>, <<<<"F", 1>>>>)}
=============================================================================
