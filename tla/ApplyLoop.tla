------------------------------ MODULE ApplyLoop ------------------------------
(***************************************************************************)
(* MasterState::apply statement by statement: the loops that MasterState   *)
(* sums up in sets, with the values of the function's local variables      *)
(* between two iterations.  It implements MasterState: the state before    *)
(* the call is shown until the call returns.                               *)
(***************************************************************************)
EXTENDS Keymap, SequencesExt

VARIABLES
    pc,               \* where the call is; "idle" between calls
    activeLayers, activeModifiers, previousKeyState, stateMask, lockMask,
    savedState,       \* the argument of the last call
    keys,             \* key_state, as modified so far
    injected,         \* injected_keys
    sendAgain,
    layer,            \* the layer looked at
    index,            \* the counter of the two for loops
    ran,              \* special keys whose action was run by this call
    output,           \* what the last call returned
    before            \* the state at the start of the call

selfVars == <<activeLayers, activeModifiers, previousKeyState, stateMask, lockMask>>
localVars == <<keys, injected, sendAgain, layer, index>>
loopVars == <<pc, selfVars, savedState, localVars, ran, output, before>>

NoTimer == -1
NoOutput == [kind |-> "none"]

LoopInit ==
    /\ pc = "idle"
    /\ activeLayers = << >>
    /\ activeModifiers = << >>
    /\ previousKeyState = {}
    /\ stateMask = Keys
    /\ lockMask = {}
    /\ savedState = {}
    /\ keys = {}
    /\ injected = {}
    /\ ran = {}
    /\ sendAgain = FALSE
    /\ layer = 0
    /\ index = 0
    /\ output = [kind |-> "new"]
    /\ before = << >>

TapOf(entry) ==
    IF entry.tapTimer # NoTimer /\ entry.tapTimer < TapTime
    THEN {entry.keyIndex} ELSE {}

ClearLast(stack) ==
    IF stack = << >> THEN stack
    ELSE Append(Front(stack), [Last(stack) EXCEPT !.tapTimer = NoTimer])

CurrentLayerIndex ==
    IF activeLayers = << >> THEN 0 ELSE Last(activeLayers).layerIndex

Snapshot ==
    [activeLayers |-> activeLayers, activeModifiers |-> activeModifiers,
     previousKeyState |-> previousKeyState, stateMask |-> stateMask,
     lockMask |-> lockMask, savedState |-> savedState, output |-> output,
     ran |-> ran]

Call(keyState) ==
    /\ pc = "idle"
    /\ pc' = "popLayers"
    /\ before' = Snapshot
    /\ savedState' = keyState
    /\ keys' = keyState
    /\ injected' = {}
    /\ sendAgain' = FALSE
    /\ ran' = {}
    /\ lockMask' = lockMask \cap keyState
    /\ UNCHANGED <<activeLayers, activeModifiers, previousKeyState, stateMask,
                   layer, index, output>>

TopReleased == activeLayers # << >> /\ Last(activeLayers).keyIndex \notin keys

PopLayer ==
    /\ pc = "popLayers"
    /\ TopReleased
    /\ LET top == Last(activeLayers)
       IN  /\ injected' = injected \cup TapOf(top)
           /\ activeLayers' = Front(activeLayers)
           /\ lockMask' = stateMask \cap savedState
           /\ stateMask' = stateMask \cup {top.keyIndex}
           /\ keys' = keys \ stateMask'
    /\ UNCHANGED <<pc, activeModifiers, previousKeyState, savedState, sendAgain,
                   layer, index, ran, output, before>>

LayersPopped ==
    /\ pc = "popLayers"
    /\ ~TopReleased
    /\ pc' = "popModifiers"
    /\ index' = Len(activeModifiers)
    /\ UNCHANGED <<selfVars, savedState, keys, injected, sendAgain, layer, ran,
                   output, before>>

(* for index in (0..len).rev(): the indices of the model start at 1.       *)
RemoveModifier ==
    /\ pc = "popModifiers"
    /\ index > 0
    /\ index' = index - 1
    /\ LET entry == activeModifiers[index]
       IN  IF entry.keyIndex \in keys
           THEN UNCHANGED <<activeModifiers, stateMask, keys, injected, sendAgain>>
           ELSE /\ injected' = injected \cup TapOf(entry)
                /\ stateMask' = stateMask \cup {entry.keyIndex}
                /\ keys' = keys \ stateMask'
                /\ activeModifiers' = RemoveAt(activeModifiers, index)
                /\ sendAgain' = TRUE
    /\ UNCHANGED <<pc, activeLayers, previousKeyState, lockMask, savedState,
                   layer, ran, output, before>>

ModifiersRemoved ==
    /\ pc = "popModifiers"
    /\ index = 0
    /\ keys' = (keys \cap stateMask) \ lockMask
    /\ pc' = "compare"
    /\ UNCHANGED <<selfVars, savedState, injected, sendAgain, layer, index, ran,
                   output, before>>

New == keys \cup injected # previousKeyState \/ sendAgain

(* The local variables end with the call.                                  *)
ReturnWith(value) ==
    /\ pc' = "idle"
    /\ output' = value
    /\ before' = << >>
    /\ keys' = {}
    /\ injected' = {}
    /\ sendAgain' = FALSE
    /\ layer' = 0
    /\ index' = 0

Compare ==
    /\ pc = "compare"
    /\ IF New
       THEN /\ pc' = "visit"
            /\ layer' = CurrentLayerIndex
            /\ UNCHANGED <<output, before, keys, injected, sendAgain, index>>
       ELSE ReturnWith(NoOutput)
    /\ UNCHANGED <<selfVars, savedState, ran>>

Mapping == LayerLookup[layer][index]

(* One iteration over the keys, by the kind of mapping.                    *)
VisitOther ==
    /\ \/ index \notin keys
       \/ Mapping.hold.kind = "none" /\ Mapping.tap.kind # "special"
    /\ UNCHANGED <<pc, selfVars, keys, ran>>

VisitSpecial ==
    /\ index \in keys
    /\ Mapping.hold.kind = "none" /\ Mapping.tap.kind = "special"
    /\ ran' = ran \cup {index}
    /\ keys' = keys \ {index}
    /\ UNCHANGED <<pc, selfVars>>

Timer == IF Mapping.tap.kind = "none" THEN NoTimer ELSE 0

\* Faulty: the loop goes on with the other keys after a layer key.
VisitLayerGoesOn ==
    /\ index \in keys
    /\ Mapping.hold.kind = "layer"
    /\ activeModifiers' = ClearLast(activeModifiers)
    /\ IF Len(activeLayers) = MaxActiveLayers
       THEN /\ pc' = "panic"
            /\ activeLayers' = ClearLast(activeLayers)
            /\ UNCHANGED <<stateMask, lockMask, keys>>
       ELSE /\ activeLayers' =
                 Append(ClearLast(activeLayers),
                        [layerIndex |-> Mapping.hold.layer, keyIndex |-> index,
                         tapTimer |-> Timer])
            /\ stateMask' = stateMask \ {index}
            /\ lockMask' = stateMask' \cap savedState
            /\ keys' = keys \ {index}
            /\ UNCHANGED pc
    /\ UNCHANGED <<previousKeyState, ran>>

VisitLayer ==
    /\ index \in keys
    /\ Mapping.hold.kind = "layer"
    /\ activeModifiers' = ClearLast(activeModifiers)
    /\ IF Len(activeLayers) = MaxActiveLayers
       THEN /\ pc' = "panic"
            /\ activeLayers' = ClearLast(activeLayers)
            /\ UNCHANGED <<stateMask, lockMask, keys>>
       ELSE /\ activeLayers' =
                 Append(ClearLast(activeLayers),
                        [layerIndex |-> Mapping.hold.layer, keyIndex |-> index,
                         tapTimer |-> Timer])
            /\ stateMask' = stateMask \ {index}
            /\ lockMask' = stateMask' \cap savedState
            /\ keys' = {}
            /\ UNCHANGED pc
    /\ UNCHANGED <<previousKeyState, ran>>

VisitModifier ==
    /\ index \in keys
    /\ Mapping.hold.kind = "modifier"
    /\ activeLayers' = ClearLast(activeLayers)
    /\ IF Len(activeModifiers) = MaxActiveModifiers
       THEN /\ pc' = "panic"
            /\ activeModifiers' = ClearLast(activeModifiers)
            /\ UNCHANGED <<stateMask, keys>>
       ELSE /\ activeModifiers' =
                 Append(ClearLast(activeModifiers),
                        [value |-> Mapping.hold.value, keyIndex |-> index,
                         tapTimer |-> Timer])
            /\ stateMask' = stateMask \ {index}
            /\ keys' = {}
            /\ UNCHANGED pc
    /\ UNCHANGED <<previousKeyState, lockMask, ran>>

Visit ==
    /\ pc = "visit"
    /\ index < KeysTotal
    /\ VisitOther \/ VisitSpecial \/ VisitLayer \/ VisitModifier
    /\ index' = index + 1
    /\ UNCHANGED <<savedState, injected, sendAgain, layer, output, before>>

(* The future is dropped while the action of a special key waits.          *)
Drop ==
    /\ pc = "visit"
    /\ index < KeysTotal
    /\ index \in keys
    /\ Mapping.hold.kind = "none" /\ Mapping.tap.kind = "special"
    /\ ReturnWith(NoOutput)
    /\ UNCHANGED <<selfVars, savedState, ran>>

Finish ==
    /\ pc = "visit"
    /\ index = KeysTotal
    /\ IF keys = {}
       THEN UNCHANGED <<activeLayers, activeModifiers>>
       ELSE /\ activeLayers' = ClearLast(activeLayers)
            /\ activeModifiers' = ClearLast(activeModifiers)
    /\ IF New
       THEN /\ previousKeyState' = keys
            /\ ReturnWith([kind |-> "report", modifiers |-> activeModifiers',
                           layer |-> CurrentLayerIndex, keys |-> keys,
                           injected |-> injected])
       ELSE ReturnWith(NoOutput) /\ UNCHANGED previousKeyState
    /\ UNCHANGED <<stateMask, lockMask, savedState, ran>>

Older(stack) ==
    [i \in DOMAIN stack |->
        IF stack[i].tapTimer \in 0 .. TapTime - 1
        THEN [stack[i] EXCEPT !.tapTimer = @ + 1] ELSE stack[i]]

(* The clock, between calls: now() is read before the first await of a     *)
(* call, but for the timer of a key pushed after it, whose age is 0.       *)
LoopTick ==
    /\ pc = "idle"
    /\ <<Older(activeLayers), Older(activeModifiers)>>
          # <<activeLayers, activeModifiers>>
    /\ activeLayers' = Older(activeLayers)
    /\ activeModifiers' = Older(activeModifiers)
    /\ output' = NoOutput
    /\ ran' = {}
    /\ UNCHANGED <<pc, previousKeyState, stateMask, lockMask, savedState,
                   localVars, before>>

LoopNext ==
    \/ \E keyState \in SUBSET Keys : Call(keyState)
    \/ PopLayer \/ LayersPopped
    \/ RemoveModifier \/ ModifiersRemoved
    \/ Compare
    \/ Visit \/ Drop \/ Finish
    \/ LoopTick

LoopSpec == LoopInit /\ [][LoopNext]_loopVars

-----------------------------------------------------------------------------
(* The statements of apply have the effect that MasterState gives a call.  *)

Shown == IF pc = "idle" THEN Snapshot ELSE before

Atomic == INSTANCE MasterState WITH
    keyState <- Shown.savedState,
    activeLayers <- Shown.activeLayers,
    activeModifiers <- Shown.activeModifiers,
    previousKeyState <- Shown.previousKeyState,
    stateMask <- Shown.stateMask,
    lockMask <- Shown.lockMask,
    output <- Shown.output,
    fired <- Shown.ran,
    panicked <- pc = "panic"

(* Every call, whatever it finds on the stacks and in whichever order its  *)
(* loops meet it, has the outcome of one step of MasterState; so all that  *)
(* is proved of MasterState holds of the loops.                            *)
ImplementsMasterState == Atomic!Spec
=============================================================================
