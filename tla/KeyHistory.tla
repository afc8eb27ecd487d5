------------------------------ MODULE KeyHistory ------------------------------
(***************************************************************************)
(* History variables for MasterState: what happened to every key since it  *)
(* went down.  They record, and never restrict, its steps; the properties  *)
(* of this module relate a report to earlier ones.                         *)
(***************************************************************************)
EXTENDS MasterState

VARIABLES
    reportedOn,   \* per key, the layers whose mapping was reported for it
    silenced,     \* held keys that left the report, the modifiers unchanged
    pushedOn,     \* per key on a stack, the layer on which it was pushed
    resent        \* silenced keys the last call reported

historyVars == <<reportedOn, silenced, pushedOn, resent>>

NoHistory ==
    /\ reportedOn = [k \in Keys |-> {}]
    /\ silenced = {}
    /\ pushedOn = [k \in Keys |-> 0]
    /\ resent = {}

ReportedKeys == IF output.kind = "report" THEN output.keys ELSE {}

(* Record one step of MasterState, given its outcome in the primed state.  *)
Record ==
    LET down == keyState \cap keyState'
        left == IF /\ output'.kind = "report"
                   /\ KeysOf(activeModifiers') = KeysOf(activeModifiers)
                THEN previousKeyState \ output'.keys
                ELSE {}
        pushed == (KeysOf(activeLayers') \cup KeysOf(activeModifiers'))
                    \ (KeysOf(activeLayers) \cup KeysOf(activeModifiers))
    IN  /\ reportedOn' =
             [k \in Keys |->
                 (IF k \in down THEN reportedOn[k] ELSE {})
                 \cup (IF k \in ReportedKeys' THEN {output'.layer} ELSE {})]
        /\ silenced' = (silenced \cup left) \cap down
        /\ pushedOn' = [k \in Keys |->
                           IF k \in pushed THEN LayerAfterRelease(keyState')
                                           ELSE pushedOn[k]]
        /\ resent' = silenced \cap down \cap ReportedKeys'

-----------------------------------------------------------------------------
(* While a key stays down it is reported from one layer only: changing the *)
(* layer with a key held never types what the key means on the other.      *)
OneLayerPerPress ==
    \A k \in Keys : Cardinality(reportedOn[k]) <= 1

(* A held key that left the report while no modifier came or went does not *)
(* come back until it is pressed anew: no step types a character for a key *)
(* nobody pressed.                                                         *)
SilencedStaySilent == resent = {}

(* Key maps like the Butterboard's, on which a tap has one meaning: only   *)
(* the base layer has keys that hold and tap, and no other layer leads     *)
(* back to it; what they tap are key codes.                                *)
TapsFromBase ==
    \A l \in LayerIndices \ {0} :
        /\ HoldTapKeys(l) = {}
        /\ \A k \in LayerKeys(l) : LayerLookup[l][k].hold.layer # 0

TapsAreKeycodes ==
    \A l \in LayerIndices : \A k \in HoldTapKeys(l) :
        LayerLookup[l][k].tap.kind = "keycode"

(* A tap executes the tap action of the mapping that pushed the key: the   *)
(* report looks the injected key up in the layer it was pressed on.        *)
TapFromItsLayer ==
    output.kind = "report" =>
        \A k \in output.injected :
            LayerLookup[output.layer][k] = LayerLookup[pushedOn[k]][k]

(* A tap action that is due is executed: send_input_report sends it, which *)
(* it does for key codes alone, or the call runs it.                       *)
TapExecuted ==
    output.kind = "report" =>
        \A k \in output.injected :
            \/ LayerLookup[output.layer][k].tap.kind = "keycode"
            \/ k \in fired
=============================================================================
