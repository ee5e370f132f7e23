------------------------------- MODULE MCMixer -------------------------------
(***************************************************************************)
(* The mixer for TLC: a volume, a switch of its name, a mode, and a gain   *)
(* whose range overflows an int when it is multiplied by a percentage.     *)
(***************************************************************************)
EXTENDS MixerProperties

Kind(name, device, type, count, min, max) ==
  [name |-> name, device |-> device, type |-> type,
   count |-> count, min |-> min, max |-> max]

SomeKinds ==
  {Kind("vol", 0, "int", 2, -30, 3), Kind("vol", 1, "bool", 1, 0, 1),
   Kind("mode", 0, "enum", 2, 0, 2), Kind("gain", 0, "int", 1, 0, 230)}
==============================================================================
