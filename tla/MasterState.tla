----------------------------- MODULE MasterState -----------------------------
(***************************************************************************)
(* The key handling of the master half: MasterState::apply of              *)
(* hardware/state/master.rs.  It receives the combined key state of both   *)
(* halves each time one of them changes, and keeps a stack of active       *)
(* layers, a stack of active modifiers and two bit masks from which it     *)
(* computes the keys to report to the host.                                *)
(*                                                                         *)
(* A tap timer, in the program the time at which the key went down, is     *)
(* here the key's age in clock steps, saturating at TapTime: the code only *)
(* asks whether now() - time < TAP_TIME.                                   *)
(***************************************************************************)
EXTENDS Keymap, Selection

VARIABLES
    keyState,          \* the last combined key state given to apply
    activeLayers,      \* stack of [layerIndex, keyIndex, tapTimer]
    activeModifiers,   \* stack of [value, keyIndex, tapTimer]
    previousKeyState,  \* the keys of the last output
    stateMask,         \* keys that are not held as part of a layer or modifier
    lockMask,          \* keys ignored until they are released
    output,            \* what the last call of apply returned
    fired,             \* the special keys whose action the last call ran
    panicked           \* a push exceeded the capacity of a stack

vars == <<keyState, activeLayers, activeModifiers, previousKeyState,
          stateMask, lockMask, output, fired, panicked>>

NoTimer == -1
TapTimers == 0 .. TapTime \cup {NoTimer}

ActiveLayer ==
    [layerIndex : LayerIndices, keyIndex : Keys, tapTimer : TapTimers]
ActiveModifier ==
    [value : Modifiers, keyIndex : Keys, tapTimer : TapTimers]

NoOutput == [kind |-> "none"]
NotCalled == [kind |-> "new"]    \* the state is new
Report(modifiers, layer, keys, injected) ==
    [kind |-> "report", modifiers |-> modifiers, layer |-> layer,
     keys |-> keys, injected |-> injected]

Init ==
    /\ keyState = {}
    /\ activeLayers = << >>
    /\ activeModifiers = << >>
    /\ previousKeyState = {}
    /\ stateMask = Keys
    /\ lockMask = {}
    /\ output = NotCalled
    /\ fired = {}
    /\ panicked = FALSE

-----------------------------------------------------------------------------
(* Helpers on the two stacks.                                              *)

KeysOf(stack) == {stack[i].keyIndex : i \in DOMAIN stack}

IsPending(entry) == entry.tapTimer # NoTimer

InTapTime(entry) == IsPending(entry) /\ entry.tapTimer < TapTime

\* Faulty: the timer below a push keeps running.
ClearNothing(stack) == stack

\* last_mut() followed by tap_timer = None.
ClearLast(stack) ==
    IF stack = << >> THEN stack
    ELSE [stack EXCEPT ![Len(stack)].tapTimer = NoTimer]

LayerOf(layers) ==
    IF layers = << >> THEN 0 ELSE layers[Len(layers)].layerIndex

CurrentLayerIndex == LayerOf(activeLayers)

-----------------------------------------------------------------------------
(* The first half of apply, up to the keys that are looked at on the       *)
(* current layer.  "saved" is the key state as it was passed in.           *)

\* Faulty: "if let" in place of "while let", at most one layer is popped.
PopOnceDepths(saved) ==
    {n \in 0 .. Len(activeLayers) :
        /\ n >= Len(activeLayers) - 1
        /\ \A i \in n + 1 .. Len(activeLayers) :
              activeLayers[i].keyIndex \notin saved}

(* The loop pops layers from the top until it meets one whose key is       *)
(* held: what stays is the shortest prefix above which no key is held.     *)
KeptDepths(saved) ==
    {n \in 0 .. Len(activeLayers) :
        \A i \in n + 1 .. Len(activeLayers) :
            activeLayers[i].keyIndex \notin saved}

KeptDepth(saved) ==
    CHOOSE n \in KeptDepths(saved) : \A m \in KeptDepths(saved) : n <= m

\* Faulty: remove(0) in place of pop().
KeptFromTop(saved) ==
    SubSeq(activeLayers, Len(activeLayers) - KeptDepth(saved) + 1,
           Len(activeLayers))

KeptLayers(saved) == SubSeq(activeLayers, 1, KeptDepth(saved))

PoppedLayers(saved) == KeptDepth(saved) + 1 .. Len(activeLayers)

PoppedLayerKeys(saved) ==
    {activeLayers[i].keyIndex : i \in PoppedLayers(saved)}

\* The key state left after the layers: a pop drops every unmasked key.
HeldAfterLayers(saved) ==
    IF PoppedLayers(saved) = {} THEN saved
    ELSE saved \ (stateMask \cup PoppedLayerKeys(saved))

(* Modifiers may leave from any position of their stack.                   *)
RemovedModifiers(saved) ==
    {i \in DOMAIN activeModifiers :
        activeModifiers[i].keyIndex \notin HeldAfterLayers(saved)}

KeptModifiers(saved) ==
    Select(activeModifiers, DOMAIN activeModifiers \ RemovedModifiers(saved))

RemovedModifierKeys(saved) ==
    {activeModifiers[i].keyIndex : i \in RemovedModifiers(saved)}

SendAgain(saved) == RemovedModifiers(saved) # {}

\* Faulty: the key of a removed modifier is not enabled again.
MaskWithoutModifiers(saved) == stateMask \cup PoppedLayerKeys(saved)

MaskAfterRelease(saved) ==
    stateMask \cup PoppedLayerKeys(saved) \cup RemovedModifierKeys(saved)

\* Faulty: locks survive the release of their key.
LockKept(saved) ==
    IF PoppedLayers(saved) = {} THEN lockMask ELSE stateMask \cap saved

\* Faulty: a call that leaves no layer forgets the locks of earlier ones.
LockForgotten(saved) ==
    IF PoppedLayers(saved) = {} THEN {} ELSE stateMask \cap saved

\* Faulty: leaving a layer locks nothing.
LockOnEntryOnly(saved) == lockMask \cap saved

(* A pop locks every held key that was not masked, computed before the     *)
(* layer's key returns to the mask.                                        *)
LockAfterRelease(saved) ==
    IF PoppedLayers(saved) = {} THEN lockMask \cap saved
    ELSE stateMask \cap saved

(* The tap actions of the keys released within the tap time.               *)
Injected(saved) ==
    {activeLayers[i].keyIndex :
        i \in {j \in PoppedLayers(saved) : InTapTime(activeLayers[j])}}
    \cup
    {activeModifiers[i].keyIndex :
        i \in {j \in RemovedModifiers(saved) : InTapTime(activeModifiers[j])}}

HeldAfterRelease(saved) ==
    IF SendAgain(saved)
    THEN HeldAfterLayers(saved) \ MaskAfterRelease(saved)
    ELSE HeldAfterLayers(saved)

\* Faulty: the state mask is not applied.
PressedUnmasked(saved) == HeldAfterRelease(saved) \ LockAfterRelease(saved)

\* Faulty: the lock mask is not applied.
PressedUnlocked(saved) == HeldAfterRelease(saved) \cap MaskAfterRelease(saved)

(* The held keys that are neither masked nor locked.                       *)
Pressed(saved) ==
    (HeldAfterRelease(saved) \cap MaskAfterRelease(saved))
        \ LockAfterRelease(saved)

-----------------------------------------------------------------------------
(* The second half: the keys on the layer that is current after the pops.  *)

LayerAfterRelease(saved) == LayerOf(KeptLayers(saved))

\* Faulty: an injected tap does not count as a change.
ChangedKeysOnly(keys, saved) == keys # previousKeyState \/ SendAgain(saved)

Changed(keys, saved) ==
    \/ keys \cup Injected(saved) # previousKeyState
    \/ SendAgain(saved)

PressedHoldKeys(saved) == Pressed(saved) \cap HoldKeys(LayerAfterRelease(saved))

\* The loop visits the keys in ascending order and stops at a hold key, which
\* sets the whole key state to 0.
IsFirstHoldKey(saved, k) ==
    /\ k \in PressedHoldKeys(saved)
    /\ \A j \in PressedHoldKeys(saved) : k <= j

\* The special keys the loop reaches while their bit is still set.
ReachedSpecialKeys(saved) ==
    {k \in Pressed(saved) \cap SpecialKeys(LayerAfterRelease(saved)) :
        \A j \in PressedHoldKeys(saved) : k < j}

\* Faulty: a hold key without a tap action gets a tap timer too.
TimerForAll(layer, k) == 0

\* Faulty: the timer is set to now() + TAP_TIME, and now() - time underflows.
TimerForDeadline(layer, k) == IF k \in HoldTapKeys(layer) THEN -TapTime ELSE NoTimer

TimerFor(layer, k) == IF k \in HoldTapKeys(layer) THEN 0 ELSE NoTimer

\* Faulty: the injected keys are remembered as if they were held.
ReturnRememberInjected(saved, keys, layers, modifiers) ==
    IF Changed(keys, saved)
    THEN /\ previousKeyState' = keys \cup Injected(saved)
         /\ output' = Report(modifiers, LayerOf(layers), keys, Injected(saved))
    ELSE /\ previousKeyState' = previousKeyState
         /\ output' = NoOutput

\* Faulty: an empty key state is not remembered.
ReturnKeepPrevious(saved, keys, layers, modifiers) ==
    IF Changed(keys, saved)
    THEN /\ previousKeyState' = IF keys = {} THEN previousKeyState ELSE keys
         /\ output' = Report(modifiers, LayerOf(layers), keys, Injected(saved))
    ELSE /\ previousKeyState' = previousKeyState
         /\ output' = NoOutput

\* Faulty: the report names the layer that was current before the pops.
ReturnStaleLayer(saved, keys, layers, modifiers) ==
    IF Changed(keys, saved)
    THEN /\ previousKeyState' = keys
         /\ output' = Report(modifiers, CurrentLayerIndex, keys, Injected(saved))
    ELSE /\ previousKeyState' = previousKeyState
         /\ output' = NoOutput

(* previous_key_state, and the return value, from the second comparison.   *)
Return(saved, keys, layers, modifiers) ==
    IF Changed(keys, saved)
    THEN /\ previousKeyState' = keys
         /\ output' = Report(modifiers, LayerOf(layers), keys, Injected(saved))
    ELSE /\ previousKeyState' = previousKeyState
         /\ output' = NoOutput

-----------------------------------------------------------------------------
(* The paths through apply.  KeyState -> the outcome of the whole handler. *)

(* The first comparison finds nothing new.                                 *)
ApplyUnchanged(saved) ==
    /\ ~panicked
    /\ ~Changed(Pressed(saved), saved)
    /\ keyState' = saved
    /\ activeLayers' = KeptLayers(saved)
    /\ activeModifiers' = KeptModifiers(saved)
    /\ stateMask' = MaskAfterRelease(saved)
    /\ lockMask' = LockAfterRelease(saved)
    /\ output' = NoOutput
    /\ fired' = {}
    /\ UNCHANGED <<previousKeyState, panicked>>

(* No hold key is pressed: special actions run, other keys are reported.   *)
ApplyKeys(saved) ==
    LET keys == Pressed(saved) \ ReachedSpecialKeys(saved)
        layers == IF keys # {} THEN ClearLast(KeptLayers(saved))
                               ELSE KeptLayers(saved)
        modifiers == IF keys # {} THEN ClearLast(KeptModifiers(saved))
                                  ELSE KeptModifiers(saved)
    IN  /\ ~panicked
        /\ Changed(Pressed(saved), saved)
        /\ PressedHoldKeys(saved) = {}
        /\ keyState' = saved
        /\ activeLayers' = layers
        /\ activeModifiers' = modifiers
        /\ stateMask' = MaskAfterRelease(saved)
        /\ lockMask' = LockAfterRelease(saved)
        /\ fired' = ReachedSpecialKeys(saved)
        /\ Return(saved, keys, layers, modifiers)
        /\ UNCHANGED panicked

(* The first pressed hold key holds a layer.                               *)
ApplyLayer(saved, k) ==
    LET layer == LayerAfterRelease(saved)
        layers == Append(ClearLast(KeptLayers(saved)),
                         [layerIndex |-> LayerLookup[layer][k].hold.layer,
                          keyIndex |-> k,
                          tapTimer |-> TimerFor(layer, k)])
        modifiers == ClearLast(KeptModifiers(saved))
    IN  /\ ~panicked
        /\ IsFirstHoldKey(saved, k)
        /\ Changed(Pressed(saved), saved)
        /\ k \in LayerKeys(layer)
        /\ KeptDepth(saved) < MaxActiveLayers
        /\ keyState' = saved
        /\ activeLayers' = layers
        /\ activeModifiers' = modifiers
        /\ stateMask' = MaskAfterRelease(saved) \ {k}
        /\ lockMask' = (MaskAfterRelease(saved) \ {k}) \cap saved
        /\ fired' = ReachedSpecialKeys(saved)
        /\ Return(saved, {}, layers, modifiers)
        /\ UNCHANGED panicked

(* The first pressed hold key holds a modifier: nothing is locked.         *)
ApplyModifier(saved, k) ==
    LET layer == LayerAfterRelease(saved)
        layers == ClearLast(KeptLayers(saved))
        modifiers == Append(ClearLast(KeptModifiers(saved)),
                            [value |-> LayerLookup[layer][k].hold.value,
                             keyIndex |-> k,
                             tapTimer |-> TimerFor(layer, k)])
    IN  /\ ~panicked
        /\ IsFirstHoldKey(saved, k)
        /\ Changed(Pressed(saved), saved)
        /\ k \in ModifierKeys(layer)
        /\ Len(KeptModifiers(saved)) < MaxActiveModifiers
        /\ keyState' = saved
        /\ activeLayers' = layers
        /\ activeModifiers' = modifiers
        /\ stateMask' = MaskAfterRelease(saved) \ {k}
        /\ lockMask' = LockAfterRelease(saved)
        /\ fired' = ReachedSpecialKeys(saved)
        /\ Return(saved, {}, layers, modifiers)
        /\ UNCHANGED panicked

(* The push finds its stack full: expect() and unwrap() panic, and the     *)
(* device stops.                                                           *)
ApplyOverflow(saved, k) ==
    /\ ~panicked
    /\ IsFirstHoldKey(saved, k)
    /\ Changed(Pressed(saved), saved)
    /\ \/ /\ k \in LayerKeys(LayerAfterRelease(saved))
          /\ KeptDepth(saved) >= MaxActiveLayers
       \/ /\ k \in ModifierKeys(LayerAfterRelease(saved))
          /\ Len(KeptModifiers(saved)) >= MaxActiveModifiers
    /\ panicked' = TRUE
    /\ UNCHANGED <<keyState, activeLayers, activeModifiers, previousKeyState,
                   stateMask, lockMask, output, fired>>

(* The action of special key k waits for room in a channel and the future  *)
(* is dropped there: select() in do_master and update_master_state drops   *)
(* it when the host connects or leaves or a battery level arrives.  The    *)
(* releases are done, nothing after the special action is.                 *)
ApplyCancelled(saved, k) ==
    /\ ~panicked
    /\ k \in ReachedSpecialKeys(saved)
    /\ Changed(Pressed(saved), saved)
    /\ keyState' = saved
    /\ activeLayers' = KeptLayers(saved)
    /\ activeModifiers' = KeptModifiers(saved)
    /\ stateMask' = MaskAfterRelease(saved)
    /\ lockMask' = LockAfterRelease(saved)
    /\ output' = NoOutput
    /\ fired' = {j \in ReachedSpecialKeys(saved) : j < k}
    /\ UNCHANGED <<previousKeyState, panicked>>

Apply(saved) ==
    \/ ApplyUnchanged(saved)
    \/ ApplyKeys(saved)
    \/ \E k \in Pressed(saved) : \/ ApplyLayer(saved, k)
                                 \/ ApplyModifier(saved, k)
                                 \/ ApplyOverflow(saved, k)
                                 \/ ApplyCancelled(saved, k)

(* The clock: every pending tap timer grows older.                         *)
Aged(stack) ==
    [i \in DOMAIN stack |->
        IF IsPending(stack[i]) /\ stack[i].tapTimer < TapTime
        THEN [stack[i] EXCEPT !.tapTimer = @ + 1]
        ELSE stack[i]]

Tick ==
    /\ ~panicked
    /\ \E entry \in {activeLayers[i] : i \in DOMAIN activeLayers}
                    \cup {activeModifiers[i] : i \in DOMAIN activeModifiers} :
            InTapTime(entry)
    /\ activeLayers' = Aged(activeLayers)
    /\ activeModifiers' = Aged(activeModifiers)
    /\ output' = NoOutput
    /\ fired' = {}
    /\ UNCHANGED <<keyState, previousKeyState, stateMask, lockMask, panicked>>

(* do_master starts again: MasterState::new().                             *)
Reset ==
    /\ ~panicked
    /\ keyState' = {}
    /\ activeLayers' = << >>
    /\ activeModifiers' = << >>
    /\ previousKeyState' = {}
    /\ stateMask' = Keys
    /\ lockMask' = {}
    /\ output' = NotCalled
    /\ fired' = {}
    /\ UNCHANGED panicked

Next ==
    \/ \E saved \in SUBSET Keys : Apply(saved)
    \/ Tick
    \/ Reset

Spec == Init /\ [][Next]_vars

-----------------------------------------------------------------------------
(* Properties.                                                             *)

(* Every variable has its type; the stacks fit their vectors.              *)
TypeOK ==
    /\ keyState \in SUBSET Keys
    /\ activeLayers \in Seq(ActiveLayer)
    /\ Len(activeLayers) <= MaxActiveLayers
    /\ activeModifiers \in Seq(ActiveModifier)
    /\ Len(activeModifiers) <= MaxActiveModifiers
    /\ previousKeyState \in SUBSET Keys
    /\ stateMask \in SUBSET Keys
    /\ lockMask \in SUBSET Keys
    /\ fired \in SUBSET Keys
    /\ panicked \in BOOLEAN

(* The mask is exactly the complement of the keys on the two stacks, and   *)
(* no key is on them twice: every push and pop of apply keeps the bit mask *)
(* and the stacks, which are updated apart, in step.                       *)
Distinct(stack) ==
    \A i, j \in DOMAIN stack : stack[i].keyIndex = stack[j].keyIndex => i = j

HoldKeysMasked ==
    /\ stateMask = Keys \ (KeysOf(activeLayers) \cup KeysOf(activeModifiers))
    /\ KeysOf(activeLayers) \cap KeysOf(activeModifiers) = {}
    /\ Distinct(activeLayers)
    /\ Distinct(activeModifiers)

(* A key on a stack is never locked, and was not reported as a regular key *)
(* by the last output.  A locked hold key could not be released properly;  *)
(* a reported one would make the second comparison swallow its tap.        *)
MasksConsistent ==
    /\ lockMask \subseteq stateMask
    /\ lockMask \subseteq keyState
    /\ previousKeyState \subseteq stateMask

(* At most one tap action is pending, and it is that of the key pressed    *)
(* last: a push clears the timers below it on both stacks.                 *)
PendingOf(stack) == {i \in DOMAIN stack : IsPending(stack[i])}

PendingTapUnique ==
    /\ PendingOf(activeLayers) \subseteq {Len(activeLayers)}
    /\ PendingOf(activeModifiers) \subseteq {Len(activeModifiers)}
    /\ PendingOf(activeLayers) = {} \/ PendingOf(activeModifiers) = {}

(* Each active layer was entered by its key from the layer below it, so    *)
(* the current layer is always the one the stacked keys lead to.           *)
StackChained ==
    \A i \in DOMAIN activeLayers :
        LET below == IF i = 1 THEN 0 ELSE activeLayers[i - 1].layerIndex
            mapping == LayerLookup[below][activeLayers[i].keyIndex]
        IN  /\ mapping.hold.kind = "layer"
            /\ mapping.hold.layer = activeLayers[i].layerIndex

(* After every call the top layer and all modifiers are those of keys that *)
(* are held in the key state of that call: none outlives its key.          *)
StacksHeld ==
    /\ activeLayers # << >>
           => activeLayers[Len(activeLayers)].keyIndex \in keyState
    /\ KeysOf(activeModifiers) \subseteq keyState

(* Once every key is released nothing sticks: both stacks are empty, every *)
(* key is enabled and unlocked, and the last output reported no key.       *)
AllReleasedResets ==
    keyState = {} =>
        /\ activeLayers = << >>
        /\ activeModifiers = << >>
        /\ stateMask = Keys
        /\ lockMask = {}
        /\ previousKeyState = {}

(* The limit on active layers and modifiers is never reached on a key map  *)
(* with no more hold keys than each stack has room for.                    *)
NoPanic == ~panicked

(* A locked key stays locked for as long as it is held.                    *)
LockedUntilReleased ==
    [][lockMask \cap keyState' \subseteq lockMask']_vars

(* Whenever a layer is entered or left, every regular key still held is    *)
(* locked: it is not sent again from the other layer.                      *)
LayerChangeLocks ==
    [][CurrentLayerIndex' # CurrentLayerIndex
           => keyState' \cap stateMask' \subseteq lockMask']_vars

(* A tap is never swallowed: when a key with a pending tap is released in  *)
(* time, that very call reports it, unless the call was cancelled or the   *)
(* halves lost each other and the state is new.                            *)
TapKeys(stack) == {stack[i].keyIndex : i \in {j \in DOMAIN stack : InTapTime(stack[j])}}

Cancelled == \E k \in Pressed(keyState') : ApplyCancelled(keyState', k)

TapReported ==
    [][LET released == (TapKeys(activeLayers) \cup TapKeys(activeModifiers))
                           \ (KeysOf(activeLayers') \cup KeysOf(activeModifiers'))
       IN  released # {} /\ ~Cancelled /\ output' # NotCalled
               => /\ output'.kind = "report"
                  /\ released \subseteq output'.injected]_vars
=============================================================================
