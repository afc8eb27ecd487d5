---------------------------- MODULE MCMasterState ----------------------------
(* Instances of MasterState for model checking: key maps that are small    *)
(* enough, each with the combinations of mappings that a run is about.     *)
EXTENDS MasterState

MCModifierFlags == {"LCTRL", "LSHIFT"}
MCKeycodes == {"A", "B", "C", "ESC", "SPACE"}
MCSpecialActions == {"callback"}

Key(code) == Tap(Keycode(code, {}))
None == Key("A")

(* The shape of the Butterboard's map: layer keys, one with a tap action,  *)
(* and a modifier on the base layer only; a callback on a layer.           *)
ButterboardLookup ==
    << [k \in 0 .. 3 |->
          CASE k = 0 -> Key("A")
            [] k = 1 -> HoldTap(Layer(1), Keycode("SPACE", {}))
            [] k = 2 -> Hold(Modifier({"LSHIFT"}))
            [] k = 3 -> Hold(Layer(2))],
       [k \in 0 .. 3 |->
          CASE k = 0 -> Tap(Special("callback"))
            [] k = 2 -> Tap(Keycode("B", {"LCTRL"}))
            [] OTHER -> None],
       [k \in 0 .. 3 |->
          CASE k = 0 -> Key("C")
            [] OTHER -> None] >>

(* A map with hold keys on every layer, so that layers stack and two keys  *)
(* that hold something on one layer are regular keys on another.           *)
NestedLookup ==
    << [k \in 0 .. 3 |->
          CASE k = 0 -> HoldTap(Layer(1), Keycode("SPACE", {}))
            [] k = 1 -> Key("A")
            [] k = 2 -> HoldTap(Modifier({"LCTRL"}), Keycode("ESC", {}))
            [] k = 3 -> Hold(Layer(2))],
       [k \in 0 .. 3 |->
          CASE k = 0 -> Tap(Special("callback"))
            [] k = 1 -> HoldTap(Layer(2), Keycode("C", {}))
            [] k = 2 -> Tap(Special("callback"))
            [] k = 3 -> HoldTap(Modifier({"LSHIFT"}), Keycode("ESC", {}))],
       [k \in 0 .. 3 |->
          CASE k = 0 -> Tap(Special("callback"))
            [] k = 1 -> Key("C")
            [] k = 3 -> Hold(Layer(0))
            [] OTHER -> None] >>

FromZero(s) == [i \in 0 .. Len(s) - 1 |-> s[i + 1]]

MCButterboard == FromZero(ButterboardLookup)
MCNested == FromZero(NestedLookup)
=============================================================================
