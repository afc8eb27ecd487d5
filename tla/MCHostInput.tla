----------------------------- MODULE MCHostInput -----------------------------
(* HostInput on the key maps of MCMasterState, and on a smaller one.       *)
EXTENDS HostInput, MCMasterState

(* A layer, a modifier, a modifier with a tap action, and a letter that is *)
(* a shifted one on the layer: four keys.                                  *)
MCHostLookup ==
    FromZero(<< [k \in 0 .. 3 |->
                   CASE k = 0 -> Key("A")
                     [] k = 1 -> HoldTap(Layer(1), Keycode("SPACE", {}))
                     [] k = 2 -> HoldTap(Modifier({"LCTRL"}), Keycode("ESC", {}))
                     [] k = 3 -> Hold(Modifier({"LSHIFT"}))],
                [k \in 0 .. 3 |->
                   CASE k = 0 -> Tap(Keycode("B", {"LSHIFT"}))
                     [] k = 2 -> Tap(Special("callback"))
                     [] OTHER -> Key("C")] >>)

(* The Butterboard's layers are of the kind the theorems about taps need.  *)
ASSUME ButterboardTaps ==
    LayerLookup = MCButterboard => TapsFromBase /\ TapsAreKeycodes
=============================================================================
