------------------------------ MODULE MCLedStrip ------------------------------
(* Black, white, and an animation that swells over the even levels and     *)
(* fades over the odd ones.                                                *)
EXTENDS LedStrip

Swell == [i \in 1 .. 256 |-> IF i <= 128 THEN 2 * i - 2 ELSE 513 - 2 * i]
MCWave == [off |-> <<0>>, on |-> <<255>>, pulsate |-> Swell]
MCSpeed == [pulsate |-> 1]
===============================================================================
