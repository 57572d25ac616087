----------------------------- MODULE MCEmulator -----------------------------
EXTENDS Emulator

Config(p, d, e) == [period |-> p, duration |-> d, enabled |-> e]

(* Real time and simulation, with a goal, one beyond the int, and none.    *)
SomeConfigs ==
    {Config(2, 4, TRUE), Config(2, 4, FALSE), Config(-1, 2, TRUE),
     Config(-1, 9, FALSE), Config(2, -1, FALSE), Config(-1, -1, FALSE)}

RealTime == {Config(2, -1, FALSE)}
=============================================================================
