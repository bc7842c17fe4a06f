---------------------------- MODULE GrblSettings ----------------------------
(***************************************************************************)
(* Settings in memory and in the simulated EEPROM (grbl_settings.c and     *)
(* grbl_eeprom.c).  The EEPROM is an array in memory: it outlives a reset  *)
(* of grbl but not the process, and doMainWorker wipes it at power-up.     *)
(* Records are written and read whole, and only this module writes them,   *)
(* so that a read returns what was written last.                           *)
(*                                                                         *)
(* The steps per mm are constant: they convert positions.                  *)
(***************************************************************************)
EXTENDS Integers, Sequences, FiniteSets

CONSTANT Travel      \* the default of max_travel, in mm

ASSUME SettingsAssumption == Travel \in Nat

VARIABLES settings,    \* the settings in memory, by number of the parameter
          eeprom       \* the records global, coords and startup

Axes == {"X", "Y", "Z"}
Zero == [a \in Axes |-> 0]
Position == [Axes -> Int]

\* The soft limits, homing and laser flags, the step pulse, the report unit,
\* one of the parameters of the spindle, and max_travel of the three axes.
Flags == {13, 20, 21, 22, 32}
TravelOf == [X |-> 130, Y |-> 131, Z |-> 132]
Parameters == Flags \cup {0, 30, 130, 131, 132}

\* N_COORDINATE_SYSTEM work coordinate systems and the two predefined positions.
Systems == {"G54", "G55", "G56", "G57", "G58", "G59"}
Records == Systems \cup {"G28", "G30"}
StartupLines == {0, 1}     \* N_STARTUP_LINE

Defaults == [p \in Parameters |->
               CASE p \in Flags -> 0 [] p = 0 -> 10 [] p = 30 -> 1000 [] OTHER -> Travel]

\* A restored startup line is an empty one.
NoLine == [kind |-> "none"]

-----------------------------------------------------------------------------
(* Storing one setting: settings_store_global_setting. *)

\* What a value does to the memory before write_global_settings.
Assigned(s, p, v) ==
  LET flag == IF v # 0 THEN 1 ELSE 0
  IN IF p = 22 /\ v = 0 THEN [s EXCEPT ![22] = 0, ![20] = 0]
     ELSE [s EXCEPT ![p] = IF p \in Flags THEN flag ELSE v]

SettingAccepted(s, p, v) ==
  /\ v >= 0
  /\ p \in Parameters
  /\ p = 0 => v >= 3
  /\ p = 20 /\ v # 0 => s[22] = 1

\* system_check_travel_limits: max_travel is kept negative.
BeyondTravel(s, pos) == \E a \in Axes : pos[a] > 0 \/ pos[a] < -s[TravelOf[a]]

-----------------------------------------------------------------------------
(* The records: settings_write_coord_data, settings_read_coord_data,       *)
(* settings_store_startup_line, write_global_settings.                     *)

Coordinates(e, r) == e.coords[r]
WithCoordinates(e, r, data) == [e EXCEPT !.coords[r] = data]
WithStartup(e, n, l) == [e EXCEPT !.startup[n] = l]
WithGlobal(e, s) == [e EXCEPT !.global = s]

\* settings_restore, by the letter of $RST=.  The settings in memory are saved
\* after they have been restored.
Restored(e, what) ==
  [global  |-> e.global,
   coords  |-> IF what \in {"#", "*"} THEN [r \in Records |-> Zero] ELSE e.coords,
   startup |-> IF what = "*" THEN [n \in StartupLines |-> NoLine] ELSE e.startup]

RestoredSettings(s, what) == IF what \in {"$", "*"} THEN Defaults ELSE s

\* doMainWorker wipes the EEPROM at power-up; the start-up configuration then
\* stores settings of its own.
Wiped(s) == [global |-> s, coords |-> [r \in Records |-> Zero],
             startup |-> [n \in StartupLines |-> NoLine]]
=============================================================================
