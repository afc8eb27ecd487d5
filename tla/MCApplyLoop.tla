----------------------------- MODULE MCApplyLoop -----------------------------
(* ApplyLoop on the first four keys of a map with hold keys on all layers. *)
EXTENDS ApplyLoop

MCModifierFlags == {"LCTRL", "LSHIFT"}
MCKeycodes == {"A", "B", "ESC", "SPACE"}
MCSpecialActions == {"callback"}

Key(code) == Tap(Keycode(code, {}))

MCLoopLookup ==
    [l \in 0 .. 1 |->
        [k \in 0 .. 3 |->
            IF l = 0
            THEN CASE k = 0 -> HoldTap(Layer(1), Keycode("SPACE", {}))
                   [] k = 1 -> Hold(Modifier({"LSHIFT"}))
                   [] k = 2 -> HoldTap(Modifier({"LCTRL"}), Keycode("ESC", {}))
                   [] k = 3 -> Key("A")
            ELSE CASE k = 0 -> Tap(Special("callback"))
                   [] k = 1 -> HoldTap(Layer(0), Keycode("B", {}))
                   [] k = 2 -> Tap(Special("callback"))
                   [] k = 3 -> HoldTap(Modifier({"LSHIFT"}), Keycode("B", {}))]]
=============================================================================
