------------------------------- MODULE Keymap -------------------------------
(***************************************************************************)
(* The key map of a keyboard: what every key does on every layer           *)
(* (keys/mod.rs), and the constants of the Scannable and Keyboard traits   *)
(* that the key handling reads (interface/keyboard.rs).                    *)
(*                                                                         *)
(* A key state, in the program a u64 with one bit per key, is the set of   *)
(* the indices whose bit is set; a Modifiers bit field is a set of flags.  *)
(***************************************************************************)
EXTENDS Integers

CONSTANTS
    KeysTotal,           \* number of keys of both halves
    LayerCount,          \* number of layers; layer 0 is the base layer
    LayerLookup,         \* LayerLookup[layer][key]: what the key does there
    MaxActiveLayers,     \* capacity of the stack of active layers
    MaxActiveModifiers,  \* capacity of the stack of active modifiers
    TapTime,             \* clock steps within which a release is still a tap
    ModifierFlags,       \* LCTRL, LSHIFT, ...
    Keycodes,            \* the HID key codes the map uses
    SpecialActions       \* callbacks and the other special actions

Keys == 0 .. KeysTotal - 1
LayerIndices == 0 .. LayerCount - 1
Modifiers == SUBSET ModifierFlags

-----------------------------------------------------------------------------
(* Tap actions: what a key sends, or runs, when it is tapped.              *)

NoTap == [kind |-> "none"]
Keycode(code, modifiers) ==
    [kind |-> "keycode", code |-> code, modifiers |-> modifiers]
Special(action) == [kind |-> "special", action |-> action]

TapActions == {NoTap}
              \cup {Keycode(c, m) : c \in Keycodes, m \in Modifiers}
              \cup {Special(a) : a \in SpecialActions}

(* Hold actions: what a key does for as long as it is held.                *)

NoHold == [kind |-> "none"]
Layer(index) == [kind |-> "layer", layer |-> index]
Modifier(value) == [kind |-> "modifier", value |-> value]

HoldActions == {NoHold}
               \cup {Layer(i) : i \in LayerIndices}
               \cup {Modifier(v) : v \in Modifiers}

(* The three forms of a mapping.                                           *)

Tap(tap) == [hold |-> NoHold, tap |-> tap]
Hold(hold) == [hold |-> hold, tap |-> NoTap]
HoldTap(hold, tap) == [hold |-> hold, tap |-> tap]

Mappings == [hold : HoldActions, tap : TapActions]

ASSUME KeysTotalAssumption == KeysTotal \in Nat
ASSUME LayerCountAssumption == LayerCount \in Nat \ {0}
ASSUME CapacityAssumption ==
    /\ MaxActiveLayers \in Nat \ {0}
    /\ MaxActiveModifiers \in Nat \ {0}
ASSUME TapTimeAssumption == TapTime \in Nat \ {0}
ASSUME LayerLookupAssumption ==
    LayerLookup \in [LayerIndices -> [Keys -> Mappings]]

-----------------------------------------------------------------------------
(* The keys that hold a layer, hold a modifier or run a special action on  *)
(* a layer.  A special action counts only as a plain Tap: the matches on   *)
(* HoldTap do not look at its tap action.                                  *)

LayerKeys(layer) ==
    {k \in Keys : LayerLookup[layer][k].hold.kind = "layer"}

ModifierKeys(layer) ==
    {k \in Keys : LayerLookup[layer][k].hold.kind = "modifier"}

HoldKeys(layer) == {k \in Keys : LayerLookup[layer][k].hold.kind # "none"}

SpecialKeys(layer) ==
    {k \in Keys : /\ LayerLookup[layer][k].hold.kind = "none"
                  /\ LayerLookup[layer][k].tap.kind = "special"}

(* The keys that have a tap action besides their hold action (HoldTap).    *)
HoldTapKeys(layer) ==
    {k \in HoldKeys(layer) : LayerLookup[layer][k].tap.kind # "none"}
=============================================================================
