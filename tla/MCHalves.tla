------------------------------- MODULE MCHalves -------------------------------
(* Two bond slots. *)
EXTENDS Halves

MCSlots == <<"slot 1", "slot 2">>
NoSlots == <<>>
===============================================================================
