--------------------------- MODULE ApplyLoopProofs ---------------------------
(***************************************************************************)
(* The loops of apply implement the steps of MasterState, for every key    *)
(* map and every value of the constants.                                   *)
(***************************************************************************)
EXTENDS ApplyLoop, FiniteSetTheorems, SequenceTheorems, TLAPS

(* The refinement mapping of ApplyLoop once more, now with what is proved  *)
(* of MasterState.                                                         *)
P == INSTANCE MasterStateProofs WITH
    keyState <- Shown.savedState,
    activeLayers <- Shown.activeLayers,
    activeModifiers <- Shown.activeModifiers,
    previousKeyState <- Shown.previousKeyState,
    stateMask <- Shown.stateMask,
    lockMask <- Shown.lockMask,
    output <- Shown.output,
    fired <- Shown.ran,
    panicked <- pc = "panic"

-----------------------------------------------------------------------------
(* P and Atomic are instances of one module under one substitution: their  *)
(* operators are the same.                                                 *)

(* The operators on stacks and on the key map.                             *)
LEMMA SameHelpers ==
    /\ P!Keys = Atomic!Keys
    /\ P!NoTimer = Atomic!NoTimer
    /\ P!NoOutput = Atomic!NoOutput
    /\ P!NotCalled = Atomic!NotCalled
    /\ \A m, l, k, i : P!Report(m, l, k, i) = Atomic!Report(m, l, k, i)
    /\ \A e : P!InTapTime(e) <=> Atomic!InTapTime(e)
    /\ \A s : P!ClearLast(s) = Atomic!ClearLast(s)
    /\ \A s : P!LayerOf(s) = Atomic!LayerOf(s)
    /\ \A s : P!Aged(s) = Atomic!Aged(s)
    /\ \A l : P!LayerKeys(l) = Atomic!LayerKeys(l)
    /\ \A l : P!ModifierKeys(l) = Atomic!ModifierKeys(l)
    /\ \A l : P!HoldKeys(l) = Atomic!HoldKeys(l)
    /\ \A l : P!SpecialKeys(l) = Atomic!SpecialKeys(l)
    /\ \A l, k : P!TimerFor(l, k) = Atomic!TimerFor(l, k)
<1>1. P!Keys = Atomic!Keys
  BY DEF P!Keys, Atomic!Keys
<1>2. P!NoTimer = Atomic!NoTimer
  BY DEF P!NoTimer, Atomic!NoTimer
<1>3. P!NoOutput = Atomic!NoOutput /\ P!NotCalled = Atomic!NotCalled
  BY DEF P!NoOutput, Atomic!NoOutput, P!NotCalled, Atomic!NotCalled
<1>4. \A m, l, k, i : P!Report(m, l, k, i) = Atomic!Report(m, l, k, i)
  BY Zenon DEF P!Report, Atomic!Report
<1>5. \A e : P!IsPending(e) <=> Atomic!IsPending(e)
  BY <1>2 DEF P!IsPending, Atomic!IsPending
<1>6. \A e : P!InTapTime(e) <=> Atomic!InTapTime(e)
  BY <1>5 DEF P!InTapTime, Atomic!InTapTime
<1>7. \A s : P!ClearLast(s) = Atomic!ClearLast(s)
  BY <1>2, Zenon DEF P!ClearLast, Atomic!ClearLast
<1>8. \A s : P!LayerOf(s) = Atomic!LayerOf(s)
  BY Zenon DEF P!LayerOf, Atomic!LayerOf
<1>9. \A s : P!Aged(s) = Atomic!Aged(s)
  BY Zenon DEF P!Aged, Atomic!Aged, P!IsPending, Atomic!IsPending, P!NoTimer, Atomic!NoTimer
<1>10. \A l : /\ P!LayerKeys(l) = Atomic!LayerKeys(l)
              /\ P!ModifierKeys(l) = Atomic!ModifierKeys(l)
              /\ P!HoldKeys(l) = Atomic!HoldKeys(l)
              /\ P!SpecialKeys(l) = Atomic!SpecialKeys(l)
  BY <1>1, Zenon DEF P!LayerKeys, Atomic!LayerKeys, P!ModifierKeys, Atomic!ModifierKeys,
     P!HoldKeys, Atomic!HoldKeys, P!SpecialKeys, Atomic!SpecialKeys
<1>11. \A l : P!HoldTapKeys(l) = Atomic!HoldTapKeys(l)
  BY <1>10, Zenon DEF P!HoldTapKeys, Atomic!HoldTapKeys
<1>12. \A l, k : P!TimerFor(l, k) = Atomic!TimerFor(l, k)
  BY <1>2, <1>11, Zenon DEF P!TimerFor, Atomic!TimerFor
<1> QED
  BY <1>1, <1>2, <1>3, <1>4, <1>6, <1>7, <1>8, <1>9, <1>10, <1>12

(* The outcome of the first half of apply.                                 *)
LEMMA SameRelease ==
    ASSUME NEW saved
    PROVE  /\ P!KeptDepth(saved) = Atomic!KeptDepth(saved)
           /\ P!KeptLayers(saved) = Atomic!KeptLayers(saved)
           /\ P!KeptModifiers(saved) = Atomic!KeptModifiers(saved)
           /\ P!MaskAfterRelease(saved) = Atomic!MaskAfterRelease(saved)
           /\ P!LockAfterRelease(saved) = Atomic!LockAfterRelease(saved)
           /\ P!Injected(saved) = Atomic!Injected(saved)
           /\ P!SendAgain(saved) <=> Atomic!SendAgain(saved)
           /\ P!Pressed(saved) = Atomic!Pressed(saved)
<1>1. P!KeptDepths(saved) = Atomic!KeptDepths(saved)
  BY Zenon DEF P!KeptDepths, Atomic!KeptDepths
<1>2. P!KeptDepth(saved) = Atomic!KeptDepth(saved)
  BY <1>1, Zenon DEF P!KeptDepth, Atomic!KeptDepth
<1>3. P!KeptLayers(saved) = Atomic!KeptLayers(saved)
  BY <1>2, Zenon DEF P!KeptLayers, Atomic!KeptLayers
<1>4. P!PoppedLayers(saved) = Atomic!PoppedLayers(saved)
  BY <1>2, Zenon DEF P!PoppedLayers, Atomic!PoppedLayers
<1>5. P!PoppedLayerKeys(saved) = Atomic!PoppedLayerKeys(saved)
  BY <1>4, Zenon DEF P!PoppedLayerKeys, Atomic!PoppedLayerKeys
<1>6. P!HeldAfterLayers(saved) = Atomic!HeldAfterLayers(saved)
  BY <1>4, <1>5, Zenon DEF P!HeldAfterLayers, Atomic!HeldAfterLayers
<1>7. P!RemovedModifiers(saved) = Atomic!RemovedModifiers(saved)
  BY <1>6, Zenon DEF P!RemovedModifiers, Atomic!RemovedModifiers
<1>8. \A s, I : P!Select(s, I) = Atomic!Select(s, I)
  <2>1. \A S : P!Cardinality(S) = Atomic!Cardinality(S)
    BY Zenon DEF P!Cardinality, Atomic!Cardinality
  <2>2. \A I, r : P!Nth(I, r) = Atomic!Nth(I, r)
    BY <2>1, Zenon DEF P!Nth, Atomic!Nth
  <2> QED
    BY <2>1, <2>2, Zenon DEF P!Select, Atomic!Select
<1>9. P!KeptModifiers(saved) = Atomic!KeptModifiers(saved)
  BY <1>7, <1>8, Zenon DEF P!KeptModifiers, Atomic!KeptModifiers
<1>10. P!RemovedModifierKeys(saved) = Atomic!RemovedModifierKeys(saved)
  BY <1>7, Zenon DEF P!RemovedModifierKeys, Atomic!RemovedModifierKeys
<1>11. P!SendAgain(saved) <=> Atomic!SendAgain(saved)
  BY <1>7, Zenon DEF P!SendAgain, Atomic!SendAgain
<1>12. P!MaskAfterRelease(saved) = Atomic!MaskAfterRelease(saved)
  BY <1>5, <1>10, Zenon DEF P!MaskAfterRelease, Atomic!MaskAfterRelease
<1>13. P!LockAfterRelease(saved) = Atomic!LockAfterRelease(saved)
  BY <1>4, Zenon DEF P!LockAfterRelease, Atomic!LockAfterRelease
<1>14. P!Injected(saved) = Atomic!Injected(saved)
  BY <1>4, <1>7, Zenon DEF P!Injected, Atomic!Injected, P!InTapTime, Atomic!InTapTime,
     P!IsPending, Atomic!IsPending, P!NoTimer, Atomic!NoTimer
<1>15. P!HeldAfterRelease(saved) = Atomic!HeldAfterRelease(saved)
  BY <1>6, <1>11, <1>12, Zenon DEF P!HeldAfterRelease, Atomic!HeldAfterRelease
<1>16. P!Pressed(saved) = Atomic!Pressed(saved)
  BY <1>12, <1>13, <1>15, Zenon DEF P!Pressed, Atomic!Pressed
<1> QED
  BY <1>2, <1>3, <1>9, <1>11, <1>12, <1>13, <1>14, <1>16

(* What the second half of apply looks at.                                 *)
LEMMA SameKeysLookedAt ==
    ASSUME NEW saved
    PROVE  /\ P!LayerAfterRelease(saved) = Atomic!LayerAfterRelease(saved)
           /\ \A pressed : P!Changed(pressed, saved) <=> Atomic!Changed(pressed, saved)
           /\ P!PressedHoldKeys(saved) = Atomic!PressedHoldKeys(saved)
           /\ P!ReachedSpecialKeys(saved) = Atomic!ReachedSpecialKeys(saved)
           /\ \A k : P!IsFirstHoldKey(saved, k) <=> Atomic!IsFirstHoldKey(saved, k)
<1>1. P!LayerAfterRelease(saved) = Atomic!LayerAfterRelease(saved)
  BY SameHelpers, SameRelease, Zenon DEF P!LayerAfterRelease, Atomic!LayerAfterRelease
<1>2. \A pressed : P!Changed(pressed, saved) <=> Atomic!Changed(pressed, saved)
  BY SameRelease, Zenon DEF P!Changed, Atomic!Changed
<1>3. P!PressedHoldKeys(saved) = Atomic!PressedHoldKeys(saved)
  BY <1>1, SameHelpers, SameRelease, Zenon DEF P!PressedHoldKeys, Atomic!PressedHoldKeys
<1>4. P!ReachedSpecialKeys(saved) = Atomic!ReachedSpecialKeys(saved)
  <2>1. P!Pressed(saved) \cap P!SpecialKeys(P!LayerAfterRelease(saved))
            = Atomic!Pressed(saved) \cap Atomic!SpecialKeys(Atomic!LayerAfterRelease(saved))
    BY <1>1, SameHelpers, SameRelease
  <2> QED
    BY <1>3, <2>1, Zenon DEF P!ReachedSpecialKeys, Atomic!ReachedSpecialKeys
<1>5. \A k : P!IsFirstHoldKey(saved, k) <=> Atomic!IsFirstHoldKey(saved, k)
  BY <1>3, Zenon DEF P!IsFirstHoldKey, Atomic!IsFirstHoldKey
<1> QED
  BY <1>1, <1>2, <1>3, <1>4, <1>5

(* The actions: what a call returns.                                       *)
LEMMA SameReturn ==
    ASSUME NEW saved, NEW pressed, NEW layers, NEW modifiers
    PROVE  P!Return(saved, pressed, layers, modifiers)
               <=> Atomic!Return(saved, pressed, layers, modifiers)
BY SameHelpers, SameRelease, SameKeysLookedAt, Zenon DEF P!Return, Atomic!Return

(* Nothing new.                                                            *)
LEMMA SameUnchanged ==
    ASSUME NEW saved
    PROVE  P!ApplyUnchanged(saved) <=> Atomic!ApplyUnchanged(saved)
BY SameHelpers, SameRelease, SameKeysLookedAt, Zenon
   DEF P!ApplyUnchanged, Atomic!ApplyUnchanged

(* A key that holds a layer.                                                *)
LEMMA SameLayer ==
    ASSUME NEW saved, NEW k
    PROVE  P!ApplyLayer(saved, k) <=> Atomic!ApplyLayer(saved, k)
BY SameHelpers, SameRelease, SameKeysLookedAt, SameReturn, Zenon
   DEF P!ApplyLayer, Atomic!ApplyLayer

(* A full stack.                                                           *)
LEMMA SameOverflow ==
    ASSUME NEW saved, NEW k
    PROVE  P!ApplyOverflow(saved, k) <=> Atomic!ApplyOverflow(saved, k)
BY SameHelpers, SameRelease, SameKeysLookedAt, Zenon
   DEF P!ApplyOverflow, Atomic!ApplyOverflow

(* No key that holds anything.                                             *)
LEMMA SameKeys ==
    ASSUME NEW saved
    PROVE  P!ApplyKeys(saved) <=> Atomic!ApplyKeys(saved)
BY SameHelpers, SameRelease, SameKeysLookedAt, SameReturn, Zenon
   DEF P!ApplyKeys, Atomic!ApplyKeys

(* A key that holds a modifier.                                            *)
LEMMA SameModifier ==
    ASSUME NEW saved, NEW k
    PROVE  P!ApplyModifier(saved, k) <=> Atomic!ApplyModifier(saved, k)
BY SameHelpers, SameRelease, SameKeysLookedAt, SameReturn, Zenon
   DEF P!ApplyModifier, Atomic!ApplyModifier

(* A call given up.                                                        *)
LEMMA SameCancelled ==
    ASSUME NEW saved, NEW k
    PROVE  P!ApplyCancelled(saved, k) <=> Atomic!ApplyCancelled(saved, k)
BY SameHelpers, SameRelease, SameKeysLookedAt, Zenon
   DEF P!ApplyCancelled, Atomic!ApplyCancelled

(* The clock.                                                              *)
LEMMA SameTick == P!Tick <=> Atomic!Tick
BY SameHelpers, Zenon DEF P!Tick, Atomic!Tick

(* A new state.                                                            *)
LEMMA SameReset == P!Reset <=> Atomic!Reset
BY SameHelpers, Zenon DEF P!Reset, Atomic!Reset

(* So a step of P is a step of Atomic.                                     *)
LEMMA SameNext == [P!Next]_(P!vars) => [Atomic!Next]_(Atomic!vars)
<1>1. ASSUME NEW saved \in SUBSET P!Keys, P!Apply(saved)
      PROVE  Atomic!Next
  <2>1. Atomic!Apply(saved)
    BY <1>1, SameRelease, SameUnchanged, SameKeys, SameLayer, SameModifier, SameOverflow,
       SameCancelled, Zenon DEF P!Apply, Atomic!Apply
  <2> QED
    BY <2>1, SameHelpers DEF Atomic!Next
<1>2. P!vars = Atomic!vars
  BY DEF P!vars, Atomic!vars
<1> QED
  BY <1>1, <1>2, SameTick, SameReset, Zenon DEF P!Next, Atomic!Next, P!vars, Atomic!vars

(* And its first state one of Atomic.                                      *)
LEMMA SameInit == P!Init => Atomic!Init
BY SameHelpers DEF P!Init, Atomic!Init

-----------------------------------------------------------------------------
(* As long as the call runs, what MasterState says of it does not change.  *)
LEMMA Unmoved ==
    ASSUME Shown' = Shown, savedState' = savedState
    PROVE  /\ P!KeptDepth(savedState)' = P!KeptDepth(savedState)
           /\ P!KeptLayers(savedState)' = P!KeptLayers(savedState)
           /\ P!PoppedLayers(savedState)' = P!PoppedLayers(savedState)
           /\ P!PoppedLayerKeys(savedState)' = P!PoppedLayerKeys(savedState)
           /\ P!HeldAfterLayers(savedState)' = P!HeldAfterLayers(savedState)
           /\ P!RemovedModifiers(savedState)' = P!RemovedModifiers(savedState)
           /\ P!KeptModifiers(savedState)' = P!KeptModifiers(savedState)
           /\ P!MaskAfterRelease(savedState)' = P!MaskAfterRelease(savedState)
           /\ P!LockAfterRelease(savedState)' = P!LockAfterRelease(savedState)
           /\ P!Injected(savedState)' = P!Injected(savedState)
           /\ P!SendAgain(savedState)' = P!SendAgain(savedState)
           /\ P!Pressed(savedState)' = P!Pressed(savedState)
           /\ P!LayerAfterRelease(savedState)' = P!LayerAfterRelease(savedState)
           /\ P!PressedHoldKeys(savedState)' = P!PressedHoldKeys(savedState)
           /\ P!ReachedSpecialKeys(savedState)' = P!ReachedSpecialKeys(savedState)
           /\ P!Changed(P!Pressed(savedState), savedState)'
                  = P!Changed(P!Pressed(savedState), savedState)
<1>1. P!KeptDepths(savedState)' = P!KeptDepths(savedState)
  BY Zenon DEF P!KeptDepths
<1>2. P!KeptDepth(savedState)' = P!KeptDepth(savedState)
  BY <1>1, Zenon DEF P!KeptDepth
<1>3. P!KeptLayers(savedState)' = P!KeptLayers(savedState)
  BY <1>2, Zenon DEF P!KeptLayers
<1>4. P!PoppedLayers(savedState)' = P!PoppedLayers(savedState)
  BY <1>2, Zenon DEF P!PoppedLayers
<1>5. P!PoppedLayerKeys(savedState)' = P!PoppedLayerKeys(savedState)
  BY <1>4, Zenon DEF P!PoppedLayerKeys
<1>6. P!HeldAfterLayers(savedState)' = P!HeldAfterLayers(savedState)
  BY <1>4, <1>5, Zenon DEF P!HeldAfterLayers
<1>7. P!RemovedModifiers(savedState)' = P!RemovedModifiers(savedState)
  BY <1>6, Zenon DEF P!RemovedModifiers
<1>8. P!KeptModifiers(savedState)' = P!KeptModifiers(savedState)
  BY <1>7, Zenon DEF P!KeptModifiers
<1>9. P!RemovedModifierKeys(savedState)' = P!RemovedModifierKeys(savedState)
  BY <1>7, Zenon DEF P!RemovedModifierKeys
<1>10. P!MaskAfterRelease(savedState)' = P!MaskAfterRelease(savedState)
  BY <1>5, <1>9, Zenon DEF P!MaskAfterRelease
<1>11. P!LockAfterRelease(savedState)' = P!LockAfterRelease(savedState)
  BY <1>4, Zenon DEF P!LockAfterRelease
<1>12. P!Injected(savedState)' = P!Injected(savedState)
  BY <1>4, <1>7, Zenon DEF P!Injected
<1>13. P!SendAgain(savedState)' = P!SendAgain(savedState)
  BY <1>7, Zenon DEF P!SendAgain
<1>14. P!HeldAfterRelease(savedState)' = P!HeldAfterRelease(savedState)
  BY <1>6, <1>10, <1>13, Zenon DEF P!HeldAfterRelease
<1>15. P!Pressed(savedState)' = P!Pressed(savedState)
  BY <1>10, <1>11, <1>14, Zenon DEF P!Pressed
<1>16. P!LayerAfterRelease(savedState)' = P!LayerAfterRelease(savedState)
  BY <1>3, Zenon DEF P!LayerAfterRelease
<1>17. P!PressedHoldKeys(savedState)' = P!PressedHoldKeys(savedState)
  BY <1>15, <1>16, Zenon DEF P!PressedHoldKeys
<1>18. P!ReachedSpecialKeys(savedState)' = P!ReachedSpecialKeys(savedState)
  BY <1>15, <1>16, <1>17, Zenon DEF P!ReachedSpecialKeys
<1>19. P!Changed(P!Pressed(savedState), savedState)'
           = P!Changed(P!Pressed(savedState), savedState)
  BY <1>12, <1>13, <1>15, Zenon DEF P!Changed
<1> QED
  BY <1>2, <1>3, <1>4, <1>5, <1>6, <1>7, <1>8, <1>10, <1>11, <1>12, <1>13, <1>15, <1>16,
     <1>17, <1>18, <1>19

-----------------------------------------------------------------------------
(* The invariant: what the variables of a call hold, phase by phase, in    *)
(* terms of the state before the call.                                     *)

\* The last call's argument, and the state that is shown while it runs.
Called ==
    /\ savedState \in SUBSET Keys
    /\ previousKeyState = before.previousKeyState

\* The positions of the layers and modifiers that are off their stacks.
PoppedSoFar == Len(activeLayers) + 1 .. Len(before.activeLayers)
RemovedSoFar == {i \in P!RemovedModifiers(savedState) : i > index}

KeysAt(stack, I) == {stack[i].keyIndex : i \in I}
TapsAt(stack, I) == {stack[i].keyIndex : i \in {j \in I : P!InTapTime(stack[j])}}

(* while let: what is left is a prefix, and what is gone was released.     *)
PoppingLayers ==
    /\ Len(activeLayers) \in 0 .. Len(before.activeLayers)
    /\ activeLayers = SubSeq(before.activeLayers, 1, Len(activeLayers))
    /\ \A i \in PoppedSoFar : before.activeLayers[i].keyIndex \notin savedState
    /\ activeModifiers = before.activeModifiers
    /\ stateMask = before.stateMask \cup KeysAt(before.activeLayers, PoppedSoFar)
    /\ lockMask = IF PoppedSoFar = {} THEN before.lockMask \cap savedState
                  ELSE before.stateMask \cap savedState
    /\ keys = IF PoppedSoFar = {} THEN savedState ELSE savedState \ stateMask
    /\ injected = TapsAt(before.activeLayers, PoppedSoFar)
    /\ sendAgain = FALSE
    /\ ran = {}

(* for .. rev(): above index only the modifiers whose key is held are left.*)
RemovingModifiers ==
    /\ index \in 0 .. Len(before.activeModifiers)
    /\ activeLayers = P!KeptLayers(savedState)
    /\ activeModifiers = P!Select(before.activeModifiers,
                                  DOMAIN before.activeModifiers \ RemovedSoFar)
    /\ stateMask = before.stateMask \cup P!PoppedLayerKeys(savedState)
                       \cup KeysAt(before.activeModifiers, RemovedSoFar)
    /\ lockMask = P!LockAfterRelease(savedState)
    /\ keys = IF RemovedSoFar = {} THEN P!HeldAfterLayers(savedState)
              ELSE P!HeldAfterLayers(savedState) \ stateMask
    /\ injected = TapsAt(before.activeLayers, P!PoppedLayers(savedState))
                      \cup TapsAt(before.activeModifiers, RemovedSoFar)
    /\ sendAgain = (RemovedSoFar # {})
    /\ ran = {}

(* The releases are done: the stacks and masks hold what MasterState says. *)
Released ==
    /\ activeLayers = P!KeptLayers(savedState)
    /\ activeModifiers = P!KeptModifiers(savedState)
    /\ stateMask = P!MaskAfterRelease(savedState)
    /\ lockMask = P!LockAfterRelease(savedState)

Compared ==
    /\ injected = P!Injected(savedState)
    /\ sendAgain = P!SendAgain(savedState)

\* A key that holds a layer, or a modifier, was pushed.
LayerPushed(k) ==
    /\ k \in P!LayerKeys(layer)
    /\ P!KeptDepth(savedState) < MaxActiveLayers
    /\ activeLayers = Append(P!ClearLast(P!KeptLayers(savedState)),
                             [layerIndex |-> LayerLookup[layer][k].hold.layer,
                              keyIndex |-> k,
                              tapTimer |-> P!TimerFor(layer, k)])
    /\ activeModifiers = P!ClearLast(P!KeptModifiers(savedState))
    /\ stateMask = P!MaskAfterRelease(savedState) \ {k}
    /\ lockMask = (P!MaskAfterRelease(savedState) \ {k}) \cap savedState

ModifierPushed(k) ==
    /\ k \in P!ModifierKeys(layer)
    /\ Len(P!KeptModifiers(savedState)) < MaxActiveModifiers
    /\ activeLayers = P!ClearLast(P!KeptLayers(savedState))
    /\ activeModifiers = Append(P!ClearLast(P!KeptModifiers(savedState)),
                                [value |-> LayerLookup[layer][k].hold.value,
                                 keyIndex |-> k,
                                 tapTimer |-> P!TimerFor(layer, k)])
    /\ stateMask = P!MaskAfterRelease(savedState) \ {k}
    /\ lockMask = P!LockAfterRelease(savedState)

(* The loop over the keys: up to the first hold key it only runs special   *)
(* actions; after it, nothing is left to visit.                            *)
NoHoldKeyYet ==
    /\ Released
    /\ \A k \in P!PressedHoldKeys(savedState) : index <= k
    /\ keys = P!Pressed(savedState) \ ran

HoldKeyPushed ==
    /\ keys = {}
    /\ \E k \in P!PressedHoldKeys(savedState) :
          /\ k < index
          /\ P!IsFirstHoldKey(savedState, k)
          /\ LayerPushed(k) \/ ModifierPushed(k)

VisitingKeys ==
    /\ index \in 0 .. KeysTotal
    /\ layer = P!LayerAfterRelease(savedState)
    /\ P!Changed(P!Pressed(savedState), savedState)
    /\ ran = {k \in P!ReachedSpecialKeys(savedState) : k < index}
    /\ NoHoldKeyYet \/ HoldKeyPushed

(* Between calls nothing but the invariant of MasterState is known.        *)
LoopInv ==
    /\ P!IInv
    /\ pc \in {"idle", "popLayers", "popModifiers", "compare", "visit", "panic"}
    /\ pc # "idle" => Called
    /\ pc = "popLayers" => PoppingLayers
    /\ pc = "popModifiers" => RemovingModifiers
    /\ pc = "compare" => /\ Released /\ Compared
                         /\ keys = P!Pressed(savedState)
                         /\ index = 0 /\ ran = {}
    /\ pc = "visit" => Compared /\ VisitingKeys

(* The key map is one of P.                                                *)
LEMMA SameKeymap ==
    /\ LayerLookup \in [P!LayerIndices -> [P!Keys -> P!Mappings]]
    /\ KeysTotal \in Nat
    /\ LayerCount \in Nat \ {0}
    /\ MaxActiveLayers \in Nat \ {0} /\ MaxActiveModifiers \in Nat \ {0}
    /\ TapTime \in Nat \ {0}
<1>1. P!Keys = Keys /\ P!LayerIndices = LayerIndices /\ P!Modifiers = Modifiers
  BY DEF P!Keys, Keys, P!LayerIndices, LayerIndices, P!Modifiers, Modifiers
<1>2. P!TapActions = TapActions
  BY SMT DEF P!TapActions, TapActions, P!NoTap, NoTap, P!Keycode, Keycode, P!Special, Special,
     P!Modifiers, Modifiers
<1>3. P!HoldActions = HoldActions
  BY <1>1, Zenon DEF P!HoldActions, HoldActions, P!NoHold, NoHold, P!Layer, Layer, P!Modifier,
     Modifier, P!Modifiers, Modifiers
<1>4. P!Mappings = Mappings
  BY <1>2, <1>3 DEF P!Mappings, Mappings
<1> QED
  BY <1>1, <1>4, LayerLookupAssumption, KeysTotalAssumption, LayerCountAssumption,
     CapacityAssumption, TapTimeAssumption

-----------------------------------------------------------------------------
(* The operators of ApplyLoop that MasterState has too.                    *)
LEMMA SameOperators ==
    /\ P!Keys = Keys /\ P!NoTimer = NoTimer /\ P!NoOutput = NoOutput
    /\ \A e : TapOf(e) = IF P!InTapTime(e) THEN {e.keyIndex} ELSE {}
    /\ \A s : s = << >> \/ P!LayerOf(s) = Last(s).layerIndex
    /\ CurrentLayerIndex = P!LayerOf(activeLayers)
<1>1. P!Keys = Keys /\ P!NoTimer = NoTimer /\ P!NoOutput = NoOutput
  BY DEF P!Keys, Keys, P!NoTimer, NoTimer, P!NoOutput, NoOutput
<1>2. \A e : TapOf(e) = IF P!InTapTime(e) THEN {e.keyIndex} ELSE {}
  BY <1>1 DEF TapOf, P!InTapTime, P!IsPending
<1>3. \A s : s = << >> \/ P!LayerOf(s) = Last(s).layerIndex
  BY DEF P!LayerOf, Last
<1>4. CurrentLayerIndex = P!LayerOf(activeLayers)
  BY DEF CurrentLayerIndex, P!LayerOf, Last
<1> QED  BY <1>1, <1>2, <1>3, <1>4

(* last_mut() in both forms.                                               *)
LEMMA SameClearLast ==
    ASSUME NEW S, NEW s \in Seq(S)
    PROVE  ClearLast(s) = P!ClearLast(s)
<1>1. CASE s = << >>
  BY <1>1 DEF ClearLast, P!ClearLast
<1>2. CASE s # << >>
  <2> DEFINE n == Len(s)
             e == [s[n] EXCEPT !.tapTimer = NoTimer]
             T == S \cup {e}
             f == SubSeq(s, 1, n - 1)
             u == Append(f, e)
             v == [s EXCEPT ![n].tapTimer = NoTimer]
  <2>1. n \in Nat /\ n > 0 /\ DOMAIN s = 1 .. n /\ \A i \in 1 .. n : s[i] \in T
    BY <1>2
  <2> HIDE DEF n, T
  <2>2. /\ f \in Seq(T) /\ Len(f) = n - 1
        /\ \A i \in 1 .. n - 1 : f[i] = s[i]
    <3>1. \A i \in 1 .. n - 1 : s[i] \in T
      BY <2>1
    <3> QED  BY <2>1, <3>1, SubSeqProperties
  <2>3. e \in T
    BY DEF T
  <2> HIDE DEF e, f
  <2>4. /\ u \in Seq(T) /\ Len(u) = n
        /\ \A i \in 1 .. n : u[i] = IF i = n THEN e ELSE s[i]
    BY <2>1, <2>2, <2>3, AppendProperties
  <2>5. v = [i \in 1 .. n |-> IF i = n THEN e ELSE s[i]]
    BY <2>1 DEF e
  <2>6. v \in Seq(T) /\ Len(v) = n /\ \A i \in 1 .. n : v[i] = IF i = n THEN e ELSE s[i]
    BY <2>1, <2>3, <2>5, IsASeq
  <2> HIDE DEF u, v
  <2>7. u = v
    BY <2>1, <2>4, <2>6, SeqEqual
  <2> QED
    BY <1>2, <2>7, SameOperators DEF ClearLast, P!ClearLast, Front, Last, u, v, e, f, n
<1> QED  BY <1>1, <1>2

(* What the invariant of MasterState says of the state shown.              *)
LEMMA ShownFacts ==
    ASSUME P!IInv
    PROVE  /\ Shown.activeLayers \in Seq(P!ActiveLayer)
           /\ Shown.activeModifiers \in Seq(P!ActiveModifier)
           /\ P!Masked(Shown.activeLayers, Shown.activeModifiers, Shown.stateMask)
           /\ P!Distinct(Shown.activeLayers) /\ P!Distinct(Shown.activeModifiers)
           /\ Shown.stateMask
                  = Keys \ (P!KeysOf(Shown.activeLayers) \cup P!KeysOf(Shown.activeModifiers))
           /\ P!KeysOf(Shown.activeLayers) \cap P!KeysOf(Shown.activeModifiers) = {}
           /\ P!WellFormed(Shown.activeLayers, Shown.activeModifiers, Shown.stateMask,
                           Shown.savedState)
BY SameOperators DEF P!IInv, P!WellFormed, P!Masked

(* A step that shows nothing leaves the variables of MasterState alone.    *)
LEMMA NothingShown ==
    ASSUME P!IInv, Shown' = Shown, pc # "panic", pc' # "panic"
    PROVE  UNCHANGED (P!vars) /\ P!IInv'
<1>1. UNCHANGED (P!vars)
  BY DEF P!vars
<1>2. [P!Next]_(P!vars)
  BY <1>1
<1> QED  BY <1>1, <1>2, P!NextIInv, SameKeymap

-----------------------------------------------------------------------------
(* Popping the layers.                                                     *)

(* One more position off a stack.                                          *)
LEMMA OneMore ==
    ASSUME NEW stack, NEW I, NEW i
    PROVE  /\ KeysAt(stack, I \cup {i}) = KeysAt(stack, I) \cup {stack[i].keyIndex}
           /\ TapsAt(stack, I \cup {i}) = TapsAt(stack, I) \cup TapOf(stack[i])
<1>1. KeysAt(stack, I \cup {i}) = KeysAt(stack, I) \cup {stack[i].keyIndex}
  BY DEF KeysAt
<1>2. TapsAt(stack, I \cup {i})
          = TapsAt(stack, I) \cup (IF P!InTapTime(stack[i]) THEN {stack[i].keyIndex} ELSE {})
  BY DEF TapsAt
<1> QED  BY <1>1, <1>2, SameOperators

(* A call starts with nothing popped.                                      *)
LEMMA CallStep ==
    ASSUME LoopInv, NEW keyState \in SUBSET Keys, Call(keyState)
    PROVE  LoopInv' /\ UNCHANGED (P!vars)
<1> USE DEF LoopInv
<1>1. /\ pc = "idle" /\ pc' = "popLayers"
      /\ Shown = Snapshot /\ Shown' = before' /\ before' = Snapshot
  BY DEF Call, Shown
<1>2. P!IInv' /\ UNCHANGED (P!vars)
  BY <1>1, NothingShown
<1>3. /\ before'.activeLayers = activeLayers
      /\ before'.activeModifiers = activeModifiers
      /\ before'.previousKeyState = previousKeyState
      /\ before'.stateMask = stateMask
      /\ before'.lockMask = lockMask
      /\ activeLayers \in Seq(P!ActiveLayer)
  BY <1>1, ShownFacts DEF Snapshot
<1>4. Called'
  BY <1>3 DEF Call, Called
<1>5. PoppingLayers'
  <2>1. PoppedSoFar' = {}
    BY <1>3 DEF PoppedSoFar, Call
  <2>2. SubSeq(activeLayers, 1, Len(activeLayers)) = activeLayers
    BY <1>3
  <2>3. /\ activeLayers' = activeLayers /\ activeModifiers' = activeModifiers
        /\ stateMask' = stateMask /\ lockMask' = lockMask \cap savedState'
        /\ keys' = savedState' /\ injected' = {} /\ sendAgain' = FALSE /\ ran' = {}
    BY DEF Call
  <2>4. KeysAt(before'.activeLayers, {}) = {} /\ TapsAt(before'.activeLayers, {}) = {}
    BY DEF KeysAt, TapsAt
  <2> QED  BY <1>3, <2>1, <2>2, <2>3, <2>4 DEF PoppingLayers
<1> QED  BY <1>1, <1>2, <1>4, <1>5

(* One layer less.                                                         *)
LEMMA PopLayerStep ==
    ASSUME LoopInv, PopLayer
    PROVE  LoopInv' /\ UNCHANGED (P!vars)
<1> USE DEF LoopInv
<1> DEFINE B == before.activeLayers
           n == Len(activeLayers)
           S == PoppedSoFar
           top == Last(activeLayers)
<1>1. /\ pc = "popLayers" /\ pc' = "popLayers"
      /\ Shown = before /\ Shown' = before /\ before' = before
  BY DEF PopLayer, Shown
<1>2. P!IInv' /\ UNCHANGED (P!vars)
  BY <1>1, NothingShown
<1>3. /\ B \in Seq(P!ActiveLayer) /\ P!Distinct(B)
      /\ before.stateMask = Keys \ (P!KeysOf(B) \cup P!KeysOf(before.activeModifiers))
  BY <1>1, ShownFacts
<1>4. Called /\ PoppingLayers
  BY <1>1
<1>5. n \in 1 .. Len(B) /\ top = B[n] /\ activeLayers' = SubSeq(B, 1, n - 1)
  <2>1. n \in 0 .. Len(B) /\ activeLayers = SubSeq(B, 1, n) /\ activeLayers # << >>
    BY <1>4 DEF PoppingLayers, PopLayer, TopReleased
  <2>2. n # 0
    BY <1>3, <2>1
  <2>3. activeLayers \in Seq(P!ActiveLayer)
    BY <1>3, <2>1
  <2>4. \A i \in 1 .. n : activeLayers[i] = B[i]
    BY <1>3, <2>1
  <2>5. SubSeq(activeLayers, 1, n - 1) = SubSeq(B, 1, n - 1)
    BY <1>3, <2>1, <2>2, <2>3, <2>4
  <2> QED  BY <2>1, <2>2, <2>4, <2>5 DEF PopLayer, Front, Last
<1>6. Len(activeLayers') = n - 1 /\ PoppedSoFar' = S \cup {n}
  <2>1. Len(activeLayers') = n - 1
    <3>1. \A m \in 1 .. Len(B) : Len(SubSeq(B, 1, m - 1)) = m - 1
      BY <1>3
    <3> QED  BY <1>5, <3>1
  <2>2. n .. Len(B) = (n + 1 .. Len(B)) \cup {n}
    BY <1>5
  <2> QED  BY <1>1, <1>5, <2>1, <2>2 DEF PoppedSoFar
<1>7. B[n].keyIndex \notin savedState
  <2>1. B[n].keyIndex \notin keys
    BY <1>5 DEF PopLayer, TopReleased
  <2>2. CASE S = {}
    BY <1>4, <2>1, <2>2 DEF PoppingLayers
  <2>3. CASE S # {}
    <3>1. B[n].keyIndex \in P!KeysOf(B)
      BY <1>3, <1>5 DEF P!KeysOf
    <3>2. B[n].keyIndex \notin KeysAt(B, S)
      <4>1. \A i \in S : i \in DOMAIN B /\ i # n
        BY <1>3, <1>5 DEF PoppedSoFar
      <4>2. n \in DOMAIN B
        BY <1>3, <1>5
      <4> QED  BY <1>3, <4>1, <4>2 DEF KeysAt, P!Distinct
    <3>3. B[n].keyIndex \notin stateMask
      BY <1>3, <1>4, <3>1, <3>2 DEF PoppingLayers
    <3> QED  BY <1>4, <2>1, <2>3, <3>3 DEF PoppingLayers
  <2> QED  BY <2>2, <2>3
<1>8. S \cup {n} # {} /\ (\A i \in S \cup {n} : B[i].keyIndex \notin savedState)
  BY <1>4, <1>7 DEF PoppingLayers
<1>9. KeysAt(B, S) \cap savedState = {}
  BY <1>8 DEF KeysAt
<1>10. /\ stateMask' = before.stateMask \cup KeysAt(B, S \cup {n})
       /\ injected' = TapsAt(B, S \cup {n})
       /\ lockMask' = before.stateMask \cap savedState
       /\ keys' = savedState \ stateMask'
  <2>1. /\ stateMask' = stateMask \cup {B[n].keyIndex}
        /\ injected' = injected \cup TapOf(B[n])
        /\ lockMask' = stateMask \cap savedState
        /\ keys' = keys \ stateMask'
    BY <1>5 DEF PopLayer
  <2>2. /\ stateMask = before.stateMask \cup KeysAt(B, S)
        /\ injected = TapsAt(B, S)
        /\ keys = IF S = {} THEN savedState ELSE savedState \ stateMask
    BY <1>4 DEF PoppingLayers
  <2>3. /\ KeysAt(B, S \cup {n}) = KeysAt(B, S) \cup {B[n].keyIndex}
        /\ TapsAt(B, S \cup {n}) = TapsAt(B, S) \cup TapOf(B[n])
    BY OneMore
  <2> HIDE DEF S, n, B
  <2>4. stateMask \subseteq stateMask'
    BY <2>1
  <2>5. keys' = savedState \ stateMask'
    <3>1. CASE S = {}
      BY <2>1, <2>2, <3>1
    <3>2. CASE S # {}
      BY <2>1, <2>2, <2>4, <3>2
    <3> QED  BY <3>1, <3>2
  <2>6. lockMask' = before.stateMask \cap savedState
    BY <1>9, <2>1, <2>2
  <2> QED  BY <2>1, <2>2, <2>3, <2>5, <2>6
<1>11. /\ savedState' = savedState /\ previousKeyState' = previousKeyState
       /\ activeModifiers' = activeModifiers /\ sendAgain' = sendAgain /\ ran' = ran
  BY DEF PopLayer
<1>12. Called'
  BY <1>1, <1>4, <1>11 DEF Called
<1>13. PoppingLayers'
  <2>1. Len(activeLayers') \in 0 .. Len(B) /\ activeLayers' = SubSeq(B, 1, Len(activeLayers'))
    BY <1>5, <1>6
  <2>2. activeModifiers = before.activeModifiers /\ sendAgain = FALSE /\ ran = {}
    BY <1>4 DEF PoppingLayers
  <2> QED  BY <1>1, <1>6, <1>8, <1>10, <1>11, <2>1, <2>2 DEF PoppingLayers
<1> QED  BY <1>1, <1>2, <1>12, <1>13

(* The loop ends at the kept depth: nothing above it is held, and its top  *)
(* is.                                                                     *)
LEMMA LayersPoppedStep ==
    ASSUME LoopInv, LayersPopped
    PROVE  LoopInv' /\ UNCHANGED (P!vars)
<1> USE DEF LoopInv
<1> DEFINE B == before.activeLayers
           M == before.activeModifiers
           n == Len(activeLayers)
           d == P!KeptDepth(savedState)
<1>1. /\ pc = "popLayers" /\ pc' = "popModifiers"
      /\ Shown = before /\ Shown' = before /\ before' = before
      /\ savedState' = savedState
  BY DEF LayersPopped, Shown
<1>2. P!IInv' /\ UNCHANGED (P!vars)
  BY <1>1, NothingShown
<1>3. /\ B \in Seq(P!ActiveLayer) /\ M \in Seq(P!ActiveModifier)
      /\ Len(B) \in Nat /\ DOMAIN M = 1 .. Len(M) /\ Len(M) \in Nat
  BY <1>1, ShownFacts
<1>4. Called /\ PoppingLayers
  BY <1>1
<1>5. /\ d \in 0 .. Len(B)
      /\ \A i \in d + 1 .. Len(B) : B[i].keyIndex \notin savedState
      /\ d > 0 => B[d].keyIndex \in savedState
  BY <1>1, <1>3, SameKeymap, P!KeptDepthProperties
<1>6. /\ n \in 0 .. Len(B)
      /\ \A i \in n + 1 .. Len(B) : B[i].keyIndex \notin savedState
      /\ n > 0 => B[n].keyIndex \in savedState
  <2>1. /\ n \in 0 .. Len(B) /\ activeLayers = SubSeq(B, 1, n)
        /\ \A i \in n + 1 .. Len(B) : B[i].keyIndex \notin savedState
    BY <1>4 DEF PoppingLayers, PoppedSoFar
  <2>2. ASSUME n > 0
        PROVE  B[n].keyIndex \in savedState
    <3>1. activeLayers # << >>
      BY <2>2
    <3>2. Last(activeLayers) = B[n]
      BY <1>3, <2>1, <2>2 DEF Last
    <3>3. B[n].keyIndex \in keys
      BY <3>1, <3>2 DEF LayersPopped, TopReleased
    <3> QED  BY <1>4, <3>3 DEF PoppingLayers
  <2> QED  BY <2>1, <2>2
<1>7. n = d
  <2> HIDE DEF n, d, B
  <2>1. ~(n < d)
    <3> SUFFICES ASSUME n < d PROVE FALSE
      OBVIOUS
    <3>1. d \in n + 1 .. Len(B) /\ d > 0
      BY <1>3, <1>5, <1>6
    <3> QED  BY <1>5, <1>6, <3>1
  <2>2. ~(d < n)
    <3> SUFFICES ASSUME d < n PROVE FALSE
      OBVIOUS
    <3>1. n \in d + 1 .. Len(B) /\ n > 0
      BY <1>3, <1>5, <1>6
    <3> QED  BY <1>5, <1>6, <3>1
  <2> QED  BY <1>5, <1>6, <2>1, <2>2
<1>8. PoppedSoFar = P!PoppedLayers(savedState)
  BY <1>1, <1>7 DEF PoppedSoFar, P!PoppedLayers
<1>9. /\ activeLayers = P!KeptLayers(savedState)
      /\ KeysAt(B, PoppedSoFar) = P!PoppedLayerKeys(savedState)
      /\ lockMask = P!LockAfterRelease(savedState)
  <2>1. activeLayers = P!KeptLayers(savedState)
    BY <1>1, <1>4, <1>7 DEF PoppingLayers, P!KeptLayers
  <2>2. KeysAt(B, PoppedSoFar) = P!PoppedLayerKeys(savedState)
    BY <1>1, <1>8, Zenon DEF KeysAt, P!PoppedLayerKeys
  <2>3. lockMask = P!LockAfterRelease(savedState)
    BY <1>1, <1>4, <1>8 DEF PoppingLayers, P!LockAfterRelease
  <2> QED  BY <2>1, <2>2, <2>3
<1>10. keys = P!HeldAfterLayers(savedState)
  BY <1>1, <1>4, <1>8, <1>9 DEF PoppingLayers, P!HeldAfterLayers
<1>11. index' = Len(M) /\ RemovedSoFar' = {}
  <2>1. index' = Len(M)
    BY <1>4 DEF LayersPopped, PoppingLayers
  <2>2. P!RemovedModifiers(savedState)' = P!RemovedModifiers(savedState)
    BY <1>1, Unmoved
  <2>3. \A i \in P!RemovedModifiers(savedState) : ~(i > Len(M))
    BY <1>1, <1>3 DEF P!RemovedModifiers
  <2> QED  BY <2>1, <2>2, <2>3 DEF RemovedSoFar
<1>12. P!Select(M, DOMAIN M) = M
  BY <1>3, SameKeymap, P!SelectAll
<1>13. /\ KeysAt(M, {}) = {} /\ TapsAt(M, {}) = {}
       /\ DOMAIN M \ {} = DOMAIN M
  BY DEF KeysAt, TapsAt
<1>14. /\ activeLayers' = activeLayers /\ activeModifiers' = M
       /\ stateMask' = stateMask /\ lockMask' = lockMask /\ keys' = keys
       /\ injected' = injected /\ sendAgain' = FALSE /\ ran' = {}
       /\ previousKeyState' = previousKeyState
  BY <1>4 DEF LayersPopped, PoppingLayers, selfVars
<1>15. Called'
  BY <1>1, <1>4, <1>14 DEF Called
<1>16. RemovingModifiers'
  <2>1. /\ P!KeptLayers(savedState)' = P!KeptLayers(savedState)
        /\ P!PoppedLayers(savedState)' = P!PoppedLayers(savedState)
        /\ P!PoppedLayerKeys(savedState)' = P!PoppedLayerKeys(savedState)
        /\ P!HeldAfterLayers(savedState)' = P!HeldAfterLayers(savedState)
        /\ P!LockAfterRelease(savedState)' = P!LockAfterRelease(savedState)
    BY <1>1, Unmoved
  <2>2. /\ stateMask = before.stateMask \cup P!PoppedLayerKeys(savedState)
        /\ injected = TapsAt(B, P!PoppedLayers(savedState))
    BY <1>4, <1>8, <1>9 DEF PoppingLayers
  <2>3. index' \in 0 .. Len(before'.activeModifiers)
    BY <1>1, <1>3, <1>11
  <2> QED
    BY <1>1, <1>9, <1>10, <1>11, <1>12, <1>13, <1>14, <2>1, <2>2, <2>3
       DEF RemovingModifiers
<1> QED  BY <1>1, <1>2, <1>15, <1>16

-----------------------------------------------------------------------------
(* Removing the modifiers.                                                 *)

(* The positions still to be looked at have not moved.                     *)
LEMMA EntryInPlace ==
    ASSUME NEW S, NEW s \in Seq(S), NEW I \in SUBSET (DOMAIN s),
           NEW r \in DOMAIN s, 1 .. r \subseteq I
    PROVE  /\ P!Select(s, I)[r] = s[r]
           /\ RemoveAt(P!Select(s, I), r) = P!Select(s, I \ {r})
<1>1. DOMAIN s = 1 .. Len(s) /\ Len(s) \in Nat /\ r \in Nat /\ r > 0
  OBVIOUS
<1>2. I \in SUBSET (Nat \ {0}) /\ I \in SUBSET Int
  <2>1. \A i \in I : i \in Nat /\ i # 0
    BY <1>1
  <2> QED  BY <2>1
<1>3. r \in I
  BY <1>1
<1>4. P!Rank(I, r) = r
  BY <1>1, <1>2, SameKeymap, P!RankPrefix DEF P!Rank
<1>5. P!IsFiniteSet(I)
  <2>1. P!IsFiniteSet(1 .. Len(s))
    BY <1>1, SameKeymap, P!FS_Interval
  <2> QED  BY <1>1, <2>1, SameKeymap, P!FS_Subset
<1>6. P!Nth(I, r) = r /\ r \in 1 .. P!Cardinality(I)
  BY <1>2, <1>3, <1>4, <1>5, SameKeymap, P!NthOnto
<1>7. P!Select(s, I)[r] = s[r]
  BY <1>5, <1>6, SameKeymap, P!SelectLen
<1>8. P!Select(s, I \ {r}) = SubSeq(P!Select(s, I), 1, r - 1)
                                 \o SubSeq(P!Select(s, I), r + 1, Len(P!Select(s, I)))
  BY <1>3, <1>4, SameKeymap, P!SelectWithout
<1> QED  BY <1>7, <1>8 DEF RemoveAt

(* What is gone is a set of positions above index, and index is not gone.  *)
LEMMA RemovingFacts ==
    ASSUME LoopInv, pc = "popModifiers"
    PROVE  /\ before.activeLayers \in Seq(P!ActiveLayer)
           /\ before.activeModifiers \in Seq(P!ActiveModifier)
           /\ DOMAIN before.activeModifiers = 1 .. Len(before.activeModifiers)
           /\ Len(before.activeModifiers) \in Nat
           /\ index \in 0 .. Len(before.activeModifiers)
           /\ P!RemovedModifiers(savedState) \subseteq DOMAIN before.activeModifiers
           /\ RemovedSoFar \subseteq DOMAIN before.activeModifiers
           /\ index > 0 =>
                 /\ index \in DOMAIN before.activeModifiers
                 /\ activeModifiers[index] = before.activeModifiers[index]
                 /\ RemoveAt(activeModifiers, index)
                        = P!Select(before.activeModifiers,
                                   DOMAIN before.activeModifiers
                                       \ (RemovedSoFar \cup {index}))
<1> USE DEF LoopInv
<1> DEFINE M == before.activeModifiers
           I == DOMAIN M \ RemovedSoFar
<1>1. Shown = before /\ RemovingModifiers
  BY DEF Shown
<1>2. /\ before.activeLayers \in Seq(P!ActiveLayer) /\ M \in Seq(P!ActiveModifier)
      /\ DOMAIN M = 1 .. Len(M) /\ Len(M) \in Nat /\ index \in 0 .. Len(M)
  BY <1>1, ShownFacts DEF RemovingModifiers
<1>3. P!RemovedModifiers(savedState) \subseteq DOMAIN M
  BY <1>1 DEF P!RemovedModifiers
<1>4. RemovedSoFar \subseteq DOMAIN M /\ \A i \in RemovedSoFar : i > index
  BY <1>3 DEF RemovedSoFar
<1>5. ASSUME index > 0
      PROVE  /\ index \in DOMAIN M
             /\ activeModifiers[index] = M[index]
             /\ RemoveAt(activeModifiers, index)
                    = P!Select(M, DOMAIN M \ (RemovedSoFar \cup {index}))
  <2>1. index \in DOMAIN M
    BY <1>2, <1>5
  <2>2. 1 .. index \subseteq I
    <3>1. \A i \in 1 .. index : i \in DOMAIN M /\ ~(i > index)
      BY <1>2, <1>5
    <3> QED  BY <1>4, <3>1
  <2>3. I \in SUBSET (DOMAIN M)
    OBVIOUS
  <2>4. activeModifiers = P!Select(M, I)
    BY <1>1 DEF RemovingModifiers
  <2> HIDE DEF I
  <2>5. /\ activeModifiers[index] = M[index]
        /\ RemoveAt(activeModifiers, index) = P!Select(M, I \ {index})
    BY <1>2, <2>1, <2>2, <2>3, <2>4, EntryInPlace
  <2>6. I \ {index} = DOMAIN M \ (RemovedSoFar \cup {index})
    BY DEF I
  <2> QED  BY <2>1, <2>5, <2>6
<1> QED  BY <1>2, <1>3, <1>4, <1>5

(* A modifier's key counts as held exactly if MasterState keeps it.        *)
LEMMA ModifierHeld ==
    ASSUME LoopInv, pc = "popModifiers", index > 0
    PROVE  before.activeModifiers[index].keyIndex \in keys
               <=> index \notin P!RemovedModifiers(savedState)
<1> USE DEF LoopInv
<1> DEFINE M == before.activeModifiers
           k == M[index].keyIndex
           H == P!HeldAfterLayers(savedState)
<1>1. Shown = before /\ RemovingModifiers /\ Called
  BY DEF Shown
<1>2. index \in DOMAIN M /\ RemovedSoFar \subseteq DOMAIN M
  BY RemovingFacts
<1>3. index \notin P!RemovedModifiers(savedState) <=> k \in H
  BY <1>1, <1>2 DEF P!RemovedModifiers
<1>4. /\ P!Distinct(before.activeLayers) /\ P!Distinct(M)
      /\ before.activeLayers \in Seq(P!ActiveLayer)
      /\ before.stateMask = Keys \ (P!KeysOf(before.activeLayers) \cup P!KeysOf(M))
      /\ P!KeysOf(before.activeLayers) \cap P!KeysOf(M) = {}
  BY <1>1, ShownFacts
<1>5. k \in P!KeysOf(M)
  BY <1>2 DEF P!KeysOf
<1>6. k \notin before.stateMask
  BY <1>4, <1>5
<1>7. k \notin P!PoppedLayerKeys(savedState)
  <2>1. P!PoppedLayerKeys(savedState) \subseteq P!KeysOf(before.activeLayers)
    BY <1>1, <1>4, SameKeymap, P!PoppedKeysProperties
  <2> QED  BY <1>4, <1>5, <2>1
<1>8. k \notin KeysAt(M, RemovedSoFar)
  <2>1. index \in Nat
    BY <1>1, RemovingFacts
  <2>2. \A i \in RemovedSoFar : i # index
    BY <2>1 DEF RemovedSoFar
  <2> QED  BY <1>2, <1>4, <2>2 DEF KeysAt, P!Distinct
<1>9. k \notin stateMask
  BY <1>1, <1>6, <1>7, <1>8 DEF RemovingModifiers
<1>10. k \in keys <=> k \in H
  BY <1>1, <1>9 DEF RemovingModifiers
<1> QED  BY <1>3, <1>10

(* One index further down.                                                 *)
LEMMA RemoveModifierStep ==
    ASSUME LoopInv, RemoveModifier
    PROVE  LoopInv' /\ UNCHANGED (P!vars)
<1> USE DEF LoopInv
<1> DEFINE M == before.activeModifiers
           G == RemovedSoFar
           R == P!RemovedModifiers(savedState)
<1>1. /\ pc = "popModifiers" /\ pc' = "popModifiers" /\ index > 0
      /\ Shown = before /\ Shown' = before /\ before' = before
      /\ savedState' = savedState
  BY DEF RemoveModifier, Shown
<1>2. P!IInv' /\ UNCHANGED (P!vars)
  BY <1>1, NothingShown
<1>3. Called /\ RemovingModifiers
  BY <1>1
<1>4. /\ DOMAIN M = 1 .. Len(M) /\ Len(M) \in Nat /\ index \in 1 .. Len(M)
      /\ index \in DOMAIN M /\ R \subseteq DOMAIN M /\ G \subseteq DOMAIN M
      /\ activeModifiers[index] = M[index]
      /\ RemoveAt(activeModifiers, index) = P!Select(M, DOMAIN M \ (G \cup {index}))
  BY <1>1, RemovingFacts
<1>5. M[index].keyIndex \in keys <=> index \notin R
  BY <1>1, ModifierHeld
<1>6. /\ P!KeptLayers(savedState)' = P!KeptLayers(savedState)
      /\ P!PoppedLayers(savedState)' = P!PoppedLayers(savedState)
      /\ P!PoppedLayerKeys(savedState)' = P!PoppedLayerKeys(savedState)
      /\ P!HeldAfterLayers(savedState)' = P!HeldAfterLayers(savedState)
      /\ P!LockAfterRelease(savedState)' = P!LockAfterRelease(savedState)
      /\ R' = R
  BY <1>1, Unmoved
<1>7. index' = index - 1 /\ index' \in 0 .. Len(M)
  BY <1>4 DEF RemoveModifier
<1>8. RemovedSoFar' = {i \in R : i > index - 1}
  BY <1>6, <1>7 DEF RemovedSoFar
<1>9. RemovedSoFar' = IF index \in R THEN G \cup {index} ELSE G
  <2>1. \A i \in R : i > index - 1 <=> i > index \/ i = index
    BY <1>4
  <2>2. \A i : i \in RemovedSoFar' <=> i \in G \/ (i \in R /\ i = index)
    BY <1>8, <2>1 DEF RemovedSoFar
  <2> HIDE DEF R, G
  <2> QED  BY <2>2
<1>10. /\ activeLayers' = activeLayers /\ lockMask' = lockMask /\ ran' = ran
       /\ previousKeyState' = previousKeyState
  BY DEF RemoveModifier
<1>11. Called'
  BY <1>1, <1>3, <1>10 DEF Called
<1>12. CASE index \notin R
  <2>1. /\ RemovedSoFar' = G
        /\ activeModifiers' = activeModifiers /\ stateMask' = stateMask /\ keys' = keys
        /\ injected' = injected /\ sendAgain' = sendAgain
    BY <1>4, <1>5, <1>9, <1>12 DEF RemoveModifier
  <2>2. RemovingModifiers'
    BY <1>1, <1>3, <1>6, <1>7, <1>10, <2>1 DEF RemovingModifiers
  <2> QED  BY <1>1, <1>2, <1>11, <2>2
<1>13. CASE index \in R
  <2>1. RemovedSoFar' = G \cup {index}
    BY <1>9, <1>13
  <2>2. /\ activeModifiers' = P!Select(M, DOMAIN M \ (G \cup {index}))
        /\ stateMask' = stateMask \cup {M[index].keyIndex}
        /\ keys' = keys \ stateMask'
        /\ injected' = injected \cup TapOf(M[index])
        /\ sendAgain' = TRUE
    BY <1>4, <1>5, <1>13 DEF RemoveModifier
  <2>3. /\ stateMask = before.stateMask \cup P!PoppedLayerKeys(savedState) \cup KeysAt(M, G)
        /\ keys = IF G = {} THEN P!HeldAfterLayers(savedState)
                  ELSE P!HeldAfterLayers(savedState) \ stateMask
        /\ injected = TapsAt(before.activeLayers, P!PoppedLayers(savedState)) \cup TapsAt(M, G)
    BY <1>3 DEF RemovingModifiers
  <2>4. /\ KeysAt(M, G \cup {index}) = KeysAt(M, G) \cup {M[index].keyIndex}
        /\ TapsAt(M, G \cup {index}) = TapsAt(M, G) \cup TapOf(M[index])
    BY OneMore
  <2> HIDE DEF G
  <2>5. /\ stateMask' = before.stateMask \cup P!PoppedLayerKeys(savedState)
                            \cup KeysAt(M, G \cup {index})
        /\ injected' = TapsAt(before.activeLayers, P!PoppedLayers(savedState))
                           \cup TapsAt(M, G \cup {index})
    BY <2>2, <2>3, <2>4
  <2>6. keys' = P!HeldAfterLayers(savedState) \ stateMask'
    <3>1. stateMask \subseteq stateMask'
      BY <2>2
    <3>2. CASE G = {}
      BY <2>2, <2>3, <3>2
    <3>3. CASE G # {}
      BY <2>2, <2>3, <3>1, <3>3
    <3> QED  BY <3>2, <3>3
  <2>7. G \cup {index} # {}
    OBVIOUS
  <2>8. RemovingModifiers'
    <3>1. /\ activeLayers = P!KeptLayers(savedState) /\ ran = {}
          /\ lockMask = P!LockAfterRelease(savedState)
      BY <1>3 DEF RemovingModifiers
    <3> QED
      BY <1>1, <1>6, <1>7, <1>10, <2>1, <2>2, <2>5, <2>6, <2>7, <3>1
         DEF RemovingModifiers
  <2> QED  BY <1>1, <1>2, <1>11, <2>8
<1> QED  BY <1>12, <1>13

(* After the loop the masks are applied: what is left is what MasterState  *)
(* calls pressed.                                                          *)
LEMMA ModifiersRemovedStep ==
    ASSUME LoopInv, ModifiersRemoved
    PROVE  LoopInv' /\ UNCHANGED (P!vars)
<1> USE DEF LoopInv
<1> DEFINE M == before.activeModifiers
           R == P!RemovedModifiers(savedState)
<1>1. /\ pc = "popModifiers" /\ pc' = "compare" /\ index = 0
      /\ Shown = before /\ Shown' = before /\ before' = before
      /\ savedState' = savedState
  BY DEF ModifiersRemoved, Shown
<1>2. P!IInv' /\ UNCHANGED (P!vars)
  BY <1>1, NothingShown
<1>3. Called /\ RemovingModifiers
  BY <1>1
<1>4. RemovedSoFar = R
  <2>1. DOMAIN M = 1 .. Len(M) /\ Len(M) \in Nat /\ R \subseteq DOMAIN M
    BY <1>1, RemovingFacts
  <2>2. \A i \in R : i > 0
    BY <2>1
  <2> QED  BY <1>1, <2>2 DEF RemovedSoFar
<1>5. KeysAt(M, R) = P!RemovedModifierKeys(savedState)
  BY <1>1, Zenon DEF KeysAt, P!RemovedModifierKeys
<1>6. /\ activeModifiers = P!KeptModifiers(savedState)
      /\ stateMask = P!MaskAfterRelease(savedState)
      /\ sendAgain = P!SendAgain(savedState)
  BY <1>1, <1>3, <1>4, <1>5
     DEF RemovingModifiers, P!KeptModifiers, P!MaskAfterRelease, P!SendAgain
<1>7. injected = P!Injected(savedState)
  <2>1. injected = TapsAt(before.activeLayers, P!PoppedLayers(savedState)) \cup TapsAt(M, R)
    BY <1>3, <1>4 DEF RemovingModifiers
  <2> QED  BY <1>1, <2>1, Zenon DEF TapsAt, P!Injected
<1>8. keys = P!HeldAfterRelease(savedState)
  BY <1>3, <1>4, <1>6 DEF RemovingModifiers, P!HeldAfterRelease, P!SendAgain
<1>9. keys' = P!Pressed(savedState)
  BY <1>3, <1>6, <1>8 DEF RemovingModifiers, ModifiersRemoved, P!Pressed
<1>10. /\ activeLayers' = activeLayers /\ activeModifiers' = activeModifiers
       /\ stateMask' = stateMask /\ lockMask' = lockMask
       /\ injected' = injected /\ sendAgain' = sendAgain
       /\ index' = index /\ ran' = ran /\ previousKeyState' = previousKeyState
  BY DEF ModifiersRemoved, selfVars
<1>11. /\ P!KeptLayers(savedState)' = P!KeptLayers(savedState)
       /\ P!KeptModifiers(savedState)' = P!KeptModifiers(savedState)
       /\ P!MaskAfterRelease(savedState)' = P!MaskAfterRelease(savedState)
       /\ P!LockAfterRelease(savedState)' = P!LockAfterRelease(savedState)
       /\ P!Injected(savedState)' = P!Injected(savedState)
       /\ P!SendAgain(savedState)' = P!SendAgain(savedState)
       /\ P!Pressed(savedState)' = P!Pressed(savedState)
  BY <1>1, Unmoved
<1>12. Called' /\ Released' /\ Compared'
  BY <1>1, <1>3, <1>6, <1>7, <1>10, <1>11
     DEF RemovingModifiers, Called, Released, Compared
<1>13. (keys = P!Pressed(savedState))' /\ index' = 0 /\ ran' = {}
  BY <1>1, <1>3, <1>9, <1>10, <1>11 DEF RemovingModifiers
<1> QED  BY <1>1, <1>2, <1>12, <1>13

-----------------------------------------------------------------------------
(* Looking at the keys.                                                    *)

(* What is shown once the call has returned.                               *)
LEMMA ShownIdle ==
    ASSUME pc' = "idle"
    PROVE  /\ Shown'.activeLayers = activeLayers'
           /\ Shown'.activeModifiers = activeModifiers'
           /\ Shown'.previousKeyState = previousKeyState'
           /\ Shown'.stateMask = stateMask' /\ Shown'.lockMask = lockMask'
           /\ Shown'.savedState = savedState'
           /\ Shown'.output = output' /\ Shown'.ran = ran'
<1>1. Shown' = Snapshot'
  BY DEF Shown
<1>2. Snapshot' = [activeLayers |-> activeLayers', activeModifiers |-> activeModifiers',
                   previousKeyState |-> previousKeyState', stateMask |-> stateMask',
                   lockMask |-> lockMask', savedState |-> savedState',
                   output |-> output', ran |-> ran']
  BY DEF Snapshot
<1> QED  BY <1>1, <1>2

(* One of the outcomes of a call is a step of MasterState.                 *)
LEMMA ApplyTaken ==
    ASSUME LoopInv, pc # "idle", P!Apply(savedState)
    PROVE  [P!Next]_(P!vars) /\ P!IInv'
<1>1. savedState \in SUBSET P!Keys
  BY SameOperators DEF LoopInv, Called
<1>2. [P!Next]_(P!vars)
  BY <1>1 DEF P!Next
<1> QED  BY <1>2, P!NextIInv, SameKeymap DEF LoopInv

(* The keys the loop tells apart are keys of the keyboard.                 *)
LEMMA KeysVisited ==
    /\ P!PressedHoldKeys(savedState) \subseteq 0 .. KeysTotal - 1
    /\ P!ReachedSpecialKeys(savedState) \subseteq 0 .. KeysTotal - 1
    /\ P!PressedHoldKeys(savedState) \subseteq P!Pressed(savedState)
    /\ P!ReachedSpecialKeys(savedState) \subseteq P!Pressed(savedState)
<1>1. \A l : /\ P!HoldKeys(l) \subseteq 0 .. KeysTotal - 1
             /\ P!SpecialKeys(l) \subseteq 0 .. KeysTotal - 1
  BY DEF P!HoldKeys, P!SpecialKeys, P!Keys
<1> QED  BY <1>1 DEF P!PressedHoldKeys, P!ReachedSpecialKeys

(* What New compares is what MasterState compares.                         *)
LEMMA SameChange ==
    ASSUME Shown = before, Called, Compared
    PROVE  New <=> P!Changed(keys, savedState)
BY DEF Called, Compared, New, P!Changed

(* The first comparison.                                                   *)
LEMMA CompareStep ==
    ASSUME LoopInv, Compare
    PROVE  LoopInv' /\ [P!Next]_(P!vars)
<1> USE DEF LoopInv
<1>1. /\ pc = "compare" /\ Shown = before /\ savedState' = savedState /\ ran' = ran
      /\ activeLayers' = activeLayers /\ activeModifiers' = activeModifiers
      /\ previousKeyState' = previousKeyState
      /\ stateMask' = stateMask /\ lockMask' = lockMask
  BY DEF Compare, Shown, selfVars
<1>2. /\ Called /\ Released /\ Compared
      /\ keys = P!Pressed(savedState) /\ index = 0 /\ ran = {}
  BY <1>1
<1>3. New <=> P!Changed(P!Pressed(savedState), savedState)
  BY <1>1, <1>2, SameChange
<1>4. CASE New
  <2>1. /\ pc' = "visit" /\ before' = before /\ layer' = CurrentLayerIndex
        /\ keys' = keys /\ injected' = injected /\ sendAgain' = sendAgain /\ index' = index
    BY <1>4 DEF Compare
  <2>2. Shown' = Shown
    BY <1>1, <2>1 DEF Shown
  <2>3. P!IInv' /\ UNCHANGED (P!vars)
    BY <1>1, <2>1, <2>2, NothingShown
  <2>4. /\ P!KeptLayers(savedState)' = P!KeptLayers(savedState)
        /\ P!KeptModifiers(savedState)' = P!KeptModifiers(savedState)
        /\ P!MaskAfterRelease(savedState)' = P!MaskAfterRelease(savedState)
        /\ P!LockAfterRelease(savedState)' = P!LockAfterRelease(savedState)
        /\ P!Injected(savedState)' = P!Injected(savedState)
        /\ P!SendAgain(savedState)' = P!SendAgain(savedState)
        /\ P!Pressed(savedState)' = P!Pressed(savedState)
        /\ P!LayerAfterRelease(savedState)' = P!LayerAfterRelease(savedState)
        /\ P!PressedHoldKeys(savedState)' = P!PressedHoldKeys(savedState)
        /\ P!ReachedSpecialKeys(savedState)' = P!ReachedSpecialKeys(savedState)
        /\ P!Changed(P!Pressed(savedState), savedState)'
               = P!Changed(P!Pressed(savedState), savedState)
    BY <1>1, <2>2, Unmoved
  <2>5. Called' /\ Released' /\ Compared'
    BY <1>1, <1>2, <2>1, <2>4 DEF Called, Released, Compared
  <2>6. layer' = P!LayerAfterRelease(savedState)
    BY <1>2, <2>1, SameOperators DEF Released, P!LayerAfterRelease
  <2>7. ran' = {k \in P!ReachedSpecialKeys(savedState) : k < index'}
    <3>1. \A k \in P!ReachedSpecialKeys(savedState) : ~(k < 0)
      BY KeysVisited
    <3> QED  BY <1>1, <1>2, <2>1, <3>1
  <2>8. \A k \in P!PressedHoldKeys(savedState) : index' <= k
    BY <1>2, <2>1, KeysVisited
  <2>9. index' \in 0 .. KeysTotal
    BY <1>2, <2>1, KeysTotalAssumption
  <2>10. NoHoldKeyYet'
    BY <1>1, <1>2, <2>1, <2>4, <2>5, <2>8 DEF NoHoldKeyYet
  <2>11. VisitingKeys'
    BY <1>1, <1>3, <1>4, <2>4, <2>6, <2>7, <2>9, <2>10 DEF VisitingKeys
  <2> QED  BY <2>1, <2>3, <2>5, <2>11
<1>5. CASE ~New
  <2>1. pc' = "idle" /\ output' = NoOutput
    BY <1>5 DEF Compare, ReturnWith
  <2>2. P!ApplyUnchanged(savedState)
    <3>1. P!NoOutput = NoOutput
      BY SameOperators
    <3> QED
      BY <1>1, <1>2, <1>3, <1>5, <2>1, <3>1, ShownIdle
         DEF P!ApplyUnchanged, Called, Released
  <2>3. P!Apply(savedState)
    BY <2>2 DEF P!Apply
  <2>4. [P!Next]_(P!vars) /\ P!IInv'
    BY <1>1, <2>3, ApplyTaken
  <2> QED  BY <2>1, <2>4
<1> QED  BY <1>4, <1>5

(* The stacks after the releases: typed, and within their capacity.        *)
LEMMA StacksReleased ==
    ASSUME P!IInv, Shown = before, Released
    PROVE  /\ Len(activeLayers) = P!KeptDepth(savedState)
           /\ Len(activeLayers) \in 0 .. MaxActiveLayers
           /\ Len(activeModifiers) \in 0 .. MaxActiveModifiers
           /\ activeLayers \in Seq(P!ActiveLayer)
           /\ activeModifiers \in Seq(P!ActiveModifier)
           /\ ClearLast(activeLayers) = P!ClearLast(P!KeptLayers(savedState))
           /\ ClearLast(activeModifiers) = P!ClearLast(P!KeptModifiers(savedState))
<1> DEFINE B == Shown.activeLayers
           M == Shown.activeModifiers
           d == P!KeptDepth(savedState)
<1>1. /\ B \in Seq(P!ActiveLayer) /\ M \in Seq(P!ActiveModifier)
      /\ P!Masked(B, M, Shown.stateMask)
  BY ShownFacts
<1>2. Len(B) <= MaxActiveLayers /\ Len(M) <= MaxActiveModifiers
  BY DEF P!IInv, P!TypeOK
<1>3. d \in 0 .. Len(B)
  BY <1>1, SameKeymap, P!KeptDepthProperties
<1>4. activeLayers = SubSeq(B, 1, d) /\ activeModifiers = P!KeptModifiers(savedState)
  BY DEF Released, P!KeptLayers
<1>5. activeLayers \in Seq(P!ActiveLayer) /\ Len(activeLayers) = d
  <2> HIDE DEF B, d
  <2>1. \A i \in 1 .. d : B[i] \in P!ActiveLayer
    BY <1>1, <1>3
  <2> QED  BY <1>1, <1>3, <1>4, <2>1
<1>6. /\ activeModifiers \in Seq(P!ActiveModifier)
      /\ Len(activeModifiers) \in 0 .. Len(M)
  BY <1>1, <1>4, SameKeymap, P!KeptModifiersProperties
<1>7. d \in 0 .. MaxActiveLayers /\ Len(activeModifiers) \in 0 .. MaxActiveModifiers
  <2>1. Len(B) \in Nat /\ Len(M) \in Nat
    BY <1>1
  <2> HIDE DEF B, M, d
  <2> QED  BY <1>2, <1>3, <1>6, <2>1, SameKeymap
<1>8. /\ ClearLast(activeLayers) = P!ClearLast(activeLayers)
      /\ ClearLast(activeModifiers) = P!ClearLast(activeModifiers)
  BY <1>5, <1>6, SameClearLast
<1> QED  BY <1>5, <1>6, <1>7, <1>8 DEF Released

(* What it means that the loop meets a key that is still set.              *)
LEMMA KeyMet ==
    ASSUME LoopInv, pc = "visit", index < KeysTotal, index \in keys
    PROVE  /\ NoHoldKeyYet
           /\ index \in P!Pressed(savedState)
           /\ Mapping.hold.kind # "none" => P!IsFirstHoldKey(savedState, index)
           /\ Mapping.hold.kind = "layer" => index \in P!LayerKeys(layer)
           /\ Mapping.hold.kind = "modifier" => index \in P!ModifierKeys(layer)
           /\ Mapping.hold.kind = "none" /\ Mapping.tap.kind = "special"
                  => index \in P!ReachedSpecialKeys(savedState)
           /\ Mapping.hold.kind # "none" => Timer = P!TimerFor(layer, index)
<1> USE DEF LoopInv
<1>1. /\ layer = P!LayerAfterRelease(savedState)
      /\ index \in P!Keys
  BY KeysTotalAssumption DEF VisitingKeys, P!Keys
<1>2. NoHoldKeyYet
  BY DEF VisitingKeys, HoldKeyPushed
<1>3. index \in P!Pressed(savedState)
  BY <1>2 DEF NoHoldKeyYet
<1>4. ASSUME Mapping.hold.kind # "none"
      PROVE  P!IsFirstHoldKey(savedState, index) /\ Timer = P!TimerFor(layer, index)
  <2>1. index \in P!HoldKeys(layer)
    BY <1>1, <1>4 DEF Mapping, P!HoldKeys
  <2>2. index \in P!PressedHoldKeys(savedState)
    BY <1>1, <1>3, <2>1 DEF P!PressedHoldKeys
  <2>3. P!IsFirstHoldKey(savedState, index)
    BY <1>2, <2>2 DEF NoHoldKeyYet, P!IsFirstHoldKey
  <2>4. Timer = P!TimerFor(layer, index)
    BY <2>1 DEF Timer, Mapping, P!TimerFor, P!HoldTapKeys, NoTimer, P!NoTimer
  <2> QED  BY <2>3, <2>4
<1>5. Mapping.hold.kind = "layer" => index \in P!LayerKeys(layer)
  BY <1>1 DEF Mapping, P!LayerKeys
<1>6. Mapping.hold.kind = "modifier" => index \in P!ModifierKeys(layer)
  BY <1>1 DEF Mapping, P!ModifierKeys
<1>7. ASSUME Mapping.hold.kind = "none", Mapping.tap.kind = "special"
      PROVE  index \in P!ReachedSpecialKeys(savedState)
  <2>1. index \in P!SpecialKeys(layer) /\ index \notin P!HoldKeys(layer)
    BY <1>1, <1>7 DEF Mapping, P!SpecialKeys, P!HoldKeys
  <2>2. \A j \in P!PressedHoldKeys(savedState) : index < j
    <3>1. \A j \in P!PressedHoldKeys(savedState) : index <= j /\ index # j
      BY <1>1, <1>2, <2>1 DEF NoHoldKeyYet, P!PressedHoldKeys
    <3> QED  BY <1>1, <3>1, KeysVisited DEF P!Keys
  <2> QED  BY <1>1, <1>3, <2>1, <2>2 DEF P!ReachedSpecialKeys
<1> QED  BY <1>2, <1>3, <1>4, <1>5, <1>6, <1>7

(* A visit after which the loop goes on shows nothing.                     *)
LEMMA VisitGoesOn ==
    ASSUME LoopInv, Visit, pc' = "visit",
           ran' = {k \in P!ReachedSpecialKeys(savedState) : k < index + 1},
           NoHoldKeyYet' \/ HoldKeyPushed'
    PROVE  LoopInv' /\ UNCHANGED (P!vars)
<1> USE DEF LoopInv
<1>1. /\ pc = "visit" /\ index < KeysTotal /\ index' = index + 1
      /\ savedState' = savedState /\ layer' = layer /\ before' = before
      /\ injected' = injected /\ sendAgain' = sendAgain
      /\ previousKeyState' = previousKeyState
  BY DEF Visit, VisitOther, VisitSpecial, VisitLayer, VisitModifier, selfVars
<1>2. Shown' = Shown
  BY <1>1 DEF Shown
<1>3. P!IInv' /\ UNCHANGED (P!vars)
  BY <1>1, <1>2, NothingShown
<1>4. /\ P!Injected(savedState)' = P!Injected(savedState)
      /\ P!SendAgain(savedState)' = P!SendAgain(savedState)
      /\ P!LayerAfterRelease(savedState)' = P!LayerAfterRelease(savedState)
      /\ P!ReachedSpecialKeys(savedState)' = P!ReachedSpecialKeys(savedState)
      /\ P!Changed(P!Pressed(savedState), savedState)'
             = P!Changed(P!Pressed(savedState), savedState)
  BY <1>1, <1>2, Unmoved
<1>5. Called' /\ Compared'
  BY <1>1, <1>4 DEF Called, Compared
<1>6. index' \in 0 .. KeysTotal
  BY <1>1, KeysTotalAssumption DEF VisitingKeys
<1>7. VisitingKeys'
  BY <1>1, <1>4, <1>6 DEF VisitingKeys
<1> QED  BY <1>1, <1>3, <1>5, <1>7

(* A key that is not set, or only reported: nothing happens.               *)
LEMMA VisitOtherStep ==
    ASSUME LoopInv, Visit, VisitOther
    PROVE  LoopInv' /\ UNCHANGED (P!vars)
<1> USE DEF LoopInv
<1>1. /\ pc = "visit" /\ pc' = "visit" /\ index < KeysTotal /\ index' = index + 1
      /\ savedState' = savedState /\ layer' = layer /\ before' = before
      /\ activeLayers' = activeLayers /\ activeModifiers' = activeModifiers
      /\ stateMask' = stateMask /\ lockMask' = lockMask
      /\ keys' = keys /\ ran' = ran
  BY DEF Visit, VisitOther, selfVars
<1>2. /\ index \in Nat /\ layer = P!LayerAfterRelease(savedState)
      /\ ran = {k \in P!ReachedSpecialKeys(savedState) : k < index}
      /\ NoHoldKeyYet \/ HoldKeyPushed
  BY <1>1, KeysTotalAssumption DEF VisitingKeys
<1>3. Shown' = Shown
  BY <1>1 DEF Shown
<1>4. /\ P!KeptDepth(savedState)' = P!KeptDepth(savedState)
      /\ P!KeptLayers(savedState)' = P!KeptLayers(savedState)
      /\ P!KeptModifiers(savedState)' = P!KeptModifiers(savedState)
      /\ P!MaskAfterRelease(savedState)' = P!MaskAfterRelease(savedState)
      /\ P!LockAfterRelease(savedState)' = P!LockAfterRelease(savedState)
      /\ P!Pressed(savedState)' = P!Pressed(savedState)
      /\ P!PressedHoldKeys(savedState)' = P!PressedHoldKeys(savedState)
  BY <1>1, <1>3, Unmoved
<1>5. NoHoldKeyYet => /\ index \notin P!PressedHoldKeys(savedState)
                      /\ index \notin P!ReachedSpecialKeys(savedState)
  <2> SUFFICES ASSUME NoHoldKeyYet
               PROVE  /\ index \notin P!PressedHoldKeys(savedState)
                      /\ index \notin P!ReachedSpecialKeys(savedState)
    OBVIOUS
  <2>1. CASE index \notin keys
    <3>1. index \notin P!Pressed(savedState)
      BY <1>2, <2>1 DEF NoHoldKeyYet
    <3> QED  BY <3>1, KeysVisited
  <2>2. CASE Mapping.hold.kind = "none" /\ Mapping.tap.kind # "special"
    <3>1. index \notin P!HoldKeys(layer) /\ index \notin P!SpecialKeys(layer)
      BY <2>2 DEF Mapping, P!HoldKeys, P!SpecialKeys
    <3> QED  BY <1>2, <3>1 DEF P!PressedHoldKeys, P!ReachedSpecialKeys
  <2> QED  BY <2>1, <2>2 DEF VisitOther
<1>6. HoldKeyPushed => index \notin P!ReachedSpecialKeys(savedState)
  <2> SUFFICES ASSUME HoldKeyPushed
               PROVE  index \notin P!ReachedSpecialKeys(savedState)
    OBVIOUS
  <2>1. PICK k \in P!PressedHoldKeys(savedState) : k < index
    BY DEF HoldKeyPushed
  <2>2. k \in Nat /\ ~(index < k)
    BY <1>2, <2>1, KeysVisited
  <2> QED  BY <2>2 DEF P!ReachedSpecialKeys
<1>7. ran' = {k \in P!ReachedSpecialKeys(savedState) : k < index + 1}
  <2>1. index \notin P!ReachedSpecialKeys(savedState)
    BY <1>2, <1>5, <1>6
  <2>2. \A k \in P!ReachedSpecialKeys(savedState) : k < index + 1 <=> k < index
    BY <1>2, <2>1, KeysVisited
  <2> QED  BY <1>1, <1>2, <2>2
<1>8. ASSUME NoHoldKeyYet
      PROVE  NoHoldKeyYet'
  <2>1. \A k \in P!PressedHoldKeys(savedState) : index' <= k
    <3>1. \A k \in P!PressedHoldKeys(savedState) : index <= k /\ k # index
      BY <1>5, <1>8 DEF NoHoldKeyYet
    <3> QED  BY <1>1, <1>2, <3>1, KeysVisited
  <2>2. Released'
    BY <1>1, <1>4, <1>8 DEF NoHoldKeyYet, Released
  <2> QED  BY <1>1, <1>4, <1>8, <2>1, <2>2 DEF NoHoldKeyYet
<1>9. ASSUME HoldKeyPushed
      PROVE  HoldKeyPushed'
  <2>1. PICK k \in P!PressedHoldKeys(savedState) :
                /\ k < index
                /\ P!IsFirstHoldKey(savedState, k)
                /\ LayerPushed(k) \/ ModifierPushed(k)
    BY <1>9 DEF HoldKeyPushed
  <2>2. k < index'
    BY <1>1, <1>2, <2>1, KeysVisited
  <2>3. P!IsFirstHoldKey(savedState, k)'
    BY <1>4, <2>1 DEF P!IsFirstHoldKey
  <2>4. /\ P!ClearLast(P!KeptLayers(savedState))' = P!ClearLast(P!KeptLayers(savedState))
        /\ P!ClearLast(P!KeptModifiers(savedState))'
               = P!ClearLast(P!KeptModifiers(savedState))
    BY <1>4, Zenon DEF P!ClearLast
  <2>5. LayerPushed(k) => LayerPushed(k)'
    BY <1>1, <1>4, <2>4 DEF LayerPushed
  <2>6. ModifierPushed(k) => ModifierPushed(k)'
    BY <1>1, <1>4, <2>4 DEF ModifierPushed
  <2>7. keys' = {}
    BY <1>1, <1>9 DEF HoldKeyPushed
  <2> QED  BY <1>4, <2>1, <2>2, <2>3, <2>5, <2>6, <2>7 DEF HoldKeyPushed
<1> QED  BY <1>1, <1>2, <1>7, <1>8, <1>9, VisitGoesOn

(* A special key: its action runs, and its bit is cleared.                 *)
LEMMA VisitSpecialStep ==
    ASSUME LoopInv, Visit, VisitSpecial
    PROVE  LoopInv' /\ UNCHANGED (P!vars)
<1> USE DEF LoopInv
<1>1. /\ pc = "visit" /\ pc' = "visit" /\ index < KeysTotal /\ index' = index + 1
      /\ savedState' = savedState /\ before' = before
      /\ activeLayers' = activeLayers /\ activeModifiers' = activeModifiers
      /\ stateMask' = stateMask /\ lockMask' = lockMask
      /\ keys' = keys \ {index} /\ ran' = ran \cup {index}
      /\ index \in keys
      /\ Mapping.hold.kind = "none" /\ Mapping.tap.kind = "special"
  BY DEF Visit, VisitSpecial, selfVars
<1>2. /\ NoHoldKeyYet /\ index \in P!ReachedSpecialKeys(savedState)
      /\ index \in P!Pressed(savedState)
  BY <1>1, KeyMet
<1>3. index \in Nat /\ ran = {k \in P!ReachedSpecialKeys(savedState) : k < index}
  BY <1>1, KeysTotalAssumption DEF VisitingKeys
<1>4. Shown' = Shown
  BY <1>1 DEF Shown
<1>5. /\ P!KeptLayers(savedState)' = P!KeptLayers(savedState)
      /\ P!KeptModifiers(savedState)' = P!KeptModifiers(savedState)
      /\ P!MaskAfterRelease(savedState)' = P!MaskAfterRelease(savedState)
      /\ P!LockAfterRelease(savedState)' = P!LockAfterRelease(savedState)
      /\ P!Pressed(savedState)' = P!Pressed(savedState)
      /\ P!PressedHoldKeys(savedState)' = P!PressedHoldKeys(savedState)
  BY <1>1, <1>4, Unmoved
<1>6. ran' = {k \in P!ReachedSpecialKeys(savedState) : k < index + 1}
  <2>1. \A k \in P!ReachedSpecialKeys(savedState) : k < index + 1 <=> k < index \/ k = index
    BY <1>3, KeysVisited
  <2> QED  BY <1>1, <1>2, <1>3, <2>1
<1>7. \A k \in P!PressedHoldKeys(savedState) : index' <= k
  <2>1. \A k \in P!PressedHoldKeys(savedState) : index < k
    BY <1>2 DEF P!ReachedSpecialKeys
  <2> QED  BY <1>1, <1>3, <2>1, KeysVisited
<1>8. keys' = P!Pressed(savedState) \ ran'
  BY <1>1, <1>2 DEF NoHoldKeyYet
<1>9. Released'
  BY <1>1, <1>2, <1>5 DEF NoHoldKeyYet, Released
<1>10. NoHoldKeyYet'
  BY <1>5, <1>7, <1>8, <1>9 DEF NoHoldKeyYet
<1> QED  BY <1>1, <1>6, <1>10, VisitGoesOn

(* Nothing special is left below or at a hold key.                         *)
LEMMA SpecialsBeforeHold ==
    ASSUME LoopInv, pc = "visit", index < KeysTotal, index \in keys,
           P!IsFirstHoldKey(savedState, index)
    PROVE  ran = {k \in P!ReachedSpecialKeys(savedState) : k < index + 1}
<1>1. index \in Nat /\ ran = {k \in P!ReachedSpecialKeys(savedState) : k < index}
  BY KeysTotalAssumption DEF LoopInv, VisitingKeys
<1>2. index \notin P!ReachedSpecialKeys(savedState)
  BY <1>1 DEF P!IsFirstHoldKey, P!ReachedSpecialKeys
<1>3. \A k \in P!ReachedSpecialKeys(savedState) : k < index + 1 <=> k < index
  BY <1>1, <1>2, KeysVisited
<1> QED  BY <1>1, <1>3

(* A push on a full stack.                                                 *)
LEMMA OverflowStep ==
    ASSUME LoopInv, Visit, pc' = "panic",
           \/ VisitLayer /\ Len(activeLayers) = MaxActiveLayers
           \/ VisitModifier /\ Len(activeModifiers) = MaxActiveModifiers
    PROVE  LoopInv' /\ [P!Next]_(P!vars)
<1> USE DEF LoopInv
<1>1. /\ pc = "visit" /\ index < KeysTotal /\ index \in keys
      /\ savedState' = savedState /\ before' = before
      /\ previousKeyState' = previousKeyState
  BY DEF Visit, VisitLayer, VisitModifier
<1>2. Shown = before /\ Shown' = before
  BY <1>1 DEF Shown
<1>3. /\ NoHoldKeyYet /\ index \in P!Pressed(savedState)
      /\ P!IsFirstHoldKey(savedState, index)
      /\ VisitLayer => index \in P!LayerKeys(layer)
      /\ VisitModifier => index \in P!ModifierKeys(layer)
  BY <1>1, KeyMet DEF VisitLayer, VisitModifier
<1>4. Released /\ VisitingKeys
  BY <1>1, <1>3 DEF NoHoldKeyYet
<1>5. /\ Len(activeLayers) = P!KeptDepth(savedState)
      /\ activeModifiers = P!KeptModifiers(savedState)
      /\ MaxActiveLayers \in Nat /\ MaxActiveModifiers \in Nat
  BY <1>2, <1>4, StacksReleased, SameKeymap DEF Released
<1>6. P!ApplyOverflow(savedState, index)
  BY <1>1, <1>2, <1>3, <1>4, <1>5 DEF P!ApplyOverflow, VisitingKeys
<1>7. P!Apply(savedState)
  BY <1>3, <1>6 DEF P!Apply
<1>8. [P!Next]_(P!vars) /\ P!IInv'
  BY <1>1, <1>7, ApplyTaken
<1>9. Called'
  BY <1>1 DEF Called
<1> QED  BY <1>8, <1>9

(* A key that holds a layer.                                               *)
LEMMA VisitLayerStep ==
    ASSUME LoopInv, Visit, VisitLayer
    PROVE  LoopInv' /\ [P!Next]_(P!vars)
<1> USE DEF LoopInv
<1>1. CASE Len(activeLayers) = MaxActiveLayers
  <2>1. pc' = "panic"
    BY <1>1 DEF VisitLayer
  <2> QED  BY <1>1, <2>1, OverflowStep
<1>2. CASE Len(activeLayers) # MaxActiveLayers
  <2>1. /\ pc = "visit" /\ pc' = "visit" /\ index < KeysTotal /\ index' = index + 1
        /\ savedState' = savedState /\ before' = before /\ layer' = layer
        /\ ran' = ran /\ keys' = {} /\ index \in keys
        /\ Mapping.hold.kind = "layer"
    BY <1>2 DEF Visit, VisitLayer
  <2>2. Shown = before /\ Shown' = Shown
    BY <2>1 DEF Shown
  <2>3. /\ NoHoldKeyYet /\ P!IsFirstHoldKey(savedState, index)
        /\ index \in P!LayerKeys(layer) /\ Timer = P!TimerFor(layer, index)
    BY <2>1, KeyMet
  <2>4. Released /\ index \in Nat
    BY <2>1, <2>3, KeysTotalAssumption DEF NoHoldKeyYet, VisitingKeys
  <2>5. /\ P!KeptDepth(savedState) < MaxActiveLayers
        /\ ClearLast(activeLayers) = P!ClearLast(P!KeptLayers(savedState))
        /\ ClearLast(activeModifiers) = P!ClearLast(P!KeptModifiers(savedState))
    <3>1. /\ Len(activeLayers) = P!KeptDepth(savedState)
          /\ Len(activeLayers) \in 0 .. MaxActiveLayers
      BY <2>2, <2>4, StacksReleased
    <3>2. P!KeptDepth(savedState) < MaxActiveLayers
      BY <1>2, <3>1, SameKeymap
    <3> QED  BY <2>2, <2>4, <3>2, StacksReleased
  <2>6. /\ activeLayers' = Append(P!ClearLast(P!KeptLayers(savedState)),
                                  [layerIndex |-> LayerLookup[layer][index].hold.layer,
                                   keyIndex |-> index,
                                   tapTimer |-> P!TimerFor(layer, index)])
        /\ activeModifiers' = P!ClearLast(P!KeptModifiers(savedState))
        /\ stateMask' = P!MaskAfterRelease(savedState) \ {index}
        /\ lockMask' = (P!MaskAfterRelease(savedState) \ {index}) \cap savedState
    BY <1>2, <2>3, <2>4, <2>5 DEF VisitLayer, Mapping, Released
  <2>7. /\ P!KeptDepth(savedState)' = P!KeptDepth(savedState)
        /\ P!KeptLayers(savedState)' = P!KeptLayers(savedState)
        /\ P!KeptModifiers(savedState)' = P!KeptModifiers(savedState)
        /\ P!MaskAfterRelease(savedState)' = P!MaskAfterRelease(savedState)
        /\ P!PressedHoldKeys(savedState)' = P!PressedHoldKeys(savedState)
    BY <2>1, <2>2, Unmoved
  <2>8. /\ P!ClearLast(P!KeptLayers(savedState))' = P!ClearLast(P!KeptLayers(savedState))
        /\ P!ClearLast(P!KeptModifiers(savedState))'
               = P!ClearLast(P!KeptModifiers(savedState))
    BY <2>7, Zenon DEF P!ClearLast
  <2>k. PICK k : k = index
    OBVIOUS
  <2>9. LayerPushed(k)'
    BY <2>1, <2>3, <2>5, <2>6, <2>7, <2>8, <2>k DEF LayerPushed
  <2>10. k \in P!PressedHoldKeys(savedState) /\ k < index'
    BY <2>1, <2>3, <2>4, <2>k DEF P!IsFirstHoldKey
  <2>11. P!IsFirstHoldKey(savedState, k)'
    BY <2>3, <2>7, <2>k DEF P!IsFirstHoldKey
  <2>12. HoldKeyPushed'
    BY <2>1, <2>7, <2>9, <2>10, <2>11 DEF HoldKeyPushed
  <2>13. ran' = {s \in P!ReachedSpecialKeys(savedState) : s < index + 1}
    BY <2>1, <2>3, SpecialsBeforeHold
  <2>14. LoopInv' /\ UNCHANGED (P!vars)
    BY <2>1, <2>12, <2>13, VisitGoesOn
  <2> QED  BY <2>14
<1> QED  BY <1>1, <1>2

(* A key that holds a modifier: it locks nothing.                          *)
LEMMA VisitModifierStep ==
    ASSUME LoopInv, Visit, VisitModifier
    PROVE  LoopInv' /\ [P!Next]_(P!vars)
<1> USE DEF LoopInv
<1>1. CASE Len(activeModifiers) = MaxActiveModifiers
  <2>1. pc' = "panic"
    BY <1>1 DEF VisitModifier
  <2> QED  BY <1>1, <2>1, OverflowStep
<1>2. CASE Len(activeModifiers) # MaxActiveModifiers
  <2>1. /\ pc = "visit" /\ pc' = "visit" /\ index < KeysTotal /\ index' = index + 1
        /\ savedState' = savedState /\ before' = before /\ layer' = layer
        /\ ran' = ran /\ keys' = {} /\ index \in keys
        /\ Mapping.hold.kind = "modifier"
    BY <1>2 DEF Visit, VisitModifier
  <2>2. Shown = before /\ Shown' = Shown
    BY <2>1 DEF Shown
  <2>3. /\ NoHoldKeyYet /\ P!IsFirstHoldKey(savedState, index)
        /\ index \in P!ModifierKeys(layer) /\ Timer = P!TimerFor(layer, index)
    BY <2>1, KeyMet
  <2>4. Released /\ index \in Nat
    BY <2>1, <2>3, KeysTotalAssumption DEF NoHoldKeyYet, VisitingKeys
  <2>5. /\ Len(P!KeptModifiers(savedState)) < MaxActiveModifiers
        /\ ClearLast(activeLayers) = P!ClearLast(P!KeptLayers(savedState))
        /\ ClearLast(activeModifiers) = P!ClearLast(P!KeptModifiers(savedState))
    <3>1. /\ activeModifiers = P!KeptModifiers(savedState)
          /\ Len(activeModifiers) \in 0 .. MaxActiveModifiers
      BY <2>2, <2>4, StacksReleased DEF Released
    <3>2. Len(P!KeptModifiers(savedState)) < MaxActiveModifiers
      BY <1>2, <3>1, SameKeymap
    <3> QED  BY <2>2, <2>4, <3>2, StacksReleased
  <2>6. /\ activeLayers' = P!ClearLast(P!KeptLayers(savedState))
        /\ activeModifiers' = Append(P!ClearLast(P!KeptModifiers(savedState)),
                                     [value |-> LayerLookup[layer][index].hold.value,
                                      keyIndex |-> index,
                                      tapTimer |-> P!TimerFor(layer, index)])
        /\ stateMask' = P!MaskAfterRelease(savedState) \ {index}
        /\ lockMask' = P!LockAfterRelease(savedState)
    BY <1>2, <2>3, <2>4, <2>5 DEF VisitModifier, Mapping, Released
  <2>7. /\ P!KeptLayers(savedState)' = P!KeptLayers(savedState)
        /\ P!KeptModifiers(savedState)' = P!KeptModifiers(savedState)
        /\ P!MaskAfterRelease(savedState)' = P!MaskAfterRelease(savedState)
        /\ P!LockAfterRelease(savedState)' = P!LockAfterRelease(savedState)
        /\ P!PressedHoldKeys(savedState)' = P!PressedHoldKeys(savedState)
    BY <2>1, <2>2, Unmoved
  <2>8. /\ P!ClearLast(P!KeptLayers(savedState))' = P!ClearLast(P!KeptLayers(savedState))
        /\ P!ClearLast(P!KeptModifiers(savedState))'
               = P!ClearLast(P!KeptModifiers(savedState))
    BY <2>7, Zenon DEF P!ClearLast
  <2>k. PICK k : k = index
    OBVIOUS
  <2>9. ModifierPushed(k)'
    BY <2>1, <2>3, <2>5, <2>6, <2>7, <2>8, <2>k DEF ModifierPushed
  <2>10. k \in P!PressedHoldKeys(savedState) /\ k < index'
    BY <2>1, <2>3, <2>4, <2>k DEF P!IsFirstHoldKey
  <2>11. P!IsFirstHoldKey(savedState, k)'
    BY <2>3, <2>7, <2>k DEF P!IsFirstHoldKey
  <2>12. HoldKeyPushed'
    BY <2>1, <2>7, <2>9, <2>10, <2>11 DEF HoldKeyPushed
  <2>13. ran' = {s \in P!ReachedSpecialKeys(savedState) : s < index + 1}
    BY <2>1, <2>3, SpecialsBeforeHold
  <2>14. LoopInv' /\ UNCHANGED (P!vars)
    BY <2>1, <2>12, <2>13, VisitGoesOn
  <2> QED  BY <2>14
<1> QED  BY <1>1, <1>2

(* A step that changes nothing.                                            *)
LEMMA StandStill ==
    ASSUME LoopInv, UNCHANGED loopVars
    PROVE  LoopInv' /\ UNCHANGED (P!vars)
<1>1. /\ pc' = pc /\ savedState' = savedState /\ before' = before
      /\ activeLayers' = activeLayers /\ activeModifiers' = activeModifiers
      /\ previousKeyState' = previousKeyState
      /\ stateMask' = stateMask /\ lockMask' = lockMask
      /\ keys' = keys /\ injected' = injected /\ sendAgain' = sendAgain
      /\ layer' = layer /\ index' = index /\ ran' = ran /\ output' = output
  BY DEF loopVars, selfVars, localVars
<1>2. Shown' = Shown
  BY <1>1 DEF Shown, Snapshot
<1>3. UNCHANGED (P!vars)
  BY <1>1, <1>2 DEF P!vars
<1>4. P!IInv'
  <2>1. [P!Next]_(P!vars)
    BY <1>3
  <2> QED  BY <2>1, P!NextIInv, SameKeymap DEF LoopInv
<1>5. /\ P!KeptDepth(savedState)' = P!KeptDepth(savedState)
      /\ P!KeptLayers(savedState)' = P!KeptLayers(savedState)
      /\ P!PoppedLayers(savedState)' = P!PoppedLayers(savedState)
      /\ P!PoppedLayerKeys(savedState)' = P!PoppedLayerKeys(savedState)
      /\ P!HeldAfterLayers(savedState)' = P!HeldAfterLayers(savedState)
      /\ P!RemovedModifiers(savedState)' = P!RemovedModifiers(savedState)
      /\ P!KeptModifiers(savedState)' = P!KeptModifiers(savedState)
      /\ P!MaskAfterRelease(savedState)' = P!MaskAfterRelease(savedState)
      /\ P!LockAfterRelease(savedState)' = P!LockAfterRelease(savedState)
      /\ P!Injected(savedState)' = P!Injected(savedState)
      /\ P!SendAgain(savedState)' = P!SendAgain(savedState)
      /\ P!Pressed(savedState)' = P!Pressed(savedState)
      /\ P!LayerAfterRelease(savedState)' = P!LayerAfterRelease(savedState)
      /\ P!PressedHoldKeys(savedState)' = P!PressedHoldKeys(savedState)
      /\ P!ReachedSpecialKeys(savedState)' = P!ReachedSpecialKeys(savedState)
      /\ P!Changed(P!Pressed(savedState), savedState)'
             = P!Changed(P!Pressed(savedState), savedState)
  BY <1>1, <1>2, Unmoved
<1>6. Called => Called'
  BY <1>1 DEF Called
<1>7. PoppingLayers => PoppingLayers'
  <2>1. PoppedSoFar' = PoppedSoFar
    BY <1>1 DEF PoppedSoFar
  <2> QED  BY <1>1, <2>1 DEF PoppingLayers
<1>8. RemovingModifiers => RemovingModifiers'
  <2>1. RemovedSoFar' = RemovedSoFar
    BY <1>1, <1>5 DEF RemovedSoFar
  <2> QED  BY <1>1, <1>5, <2>1 DEF RemovingModifiers
<1>9. (Released => Released') /\ (Compared => Compared')
  BY <1>1, <1>5 DEF Released, Compared
<1>10. NoHoldKeyYet => NoHoldKeyYet'
  BY <1>1, <1>5, <1>9 DEF NoHoldKeyYet
<1>11. HoldKeyPushed => HoldKeyPushed'
  <2>1. ASSUME NEW k, P!IsFirstHoldKey(savedState, k)
        PROVE  P!IsFirstHoldKey(savedState, k)'
    BY <1>5, <2>1 DEF P!IsFirstHoldKey
  <2>2. /\ P!ClearLast(P!KeptLayers(savedState))' = P!ClearLast(P!KeptLayers(savedState))
        /\ P!ClearLast(P!KeptModifiers(savedState))'
               = P!ClearLast(P!KeptModifiers(savedState))
    BY <1>5, Zenon DEF P!ClearLast
  <2>3. ASSUME NEW k
        PROVE  /\ LayerPushed(k) => LayerPushed(k)'
               /\ ModifierPushed(k) => ModifierPushed(k)'
    BY <1>1, <1>5, <2>2 DEF LayerPushed, ModifierPushed
  <2> QED  BY <1>1, <1>5, <2>1, <2>3 DEF HoldKeyPushed
<1>12. VisitingKeys => VisitingKeys'
  BY <1>1, <1>5, <1>10, <1>11 DEF VisitingKeys
<1>13. keys = P!Pressed(savedState) => (keys = P!Pressed(savedState))'
  BY <1>1, <1>5
<1> QED
  BY <1>1, <1>3, <1>4, <1>6, <1>7, <1>8, <1>9, <1>12, <1>13 DEF LoopInv

(* The action of a special key is cancelled where it waits.                *)
LEMMA DropStep ==
    ASSUME LoopInv, Drop
    PROVE  LoopInv' /\ [P!Next]_(P!vars)
<1> USE DEF LoopInv
<1>1. /\ pc = "visit" /\ pc' = "idle" /\ index < KeysTotal /\ index \in keys
      /\ Mapping.hold.kind = "none" /\ Mapping.tap.kind = "special"
      /\ savedState' = savedState /\ ran' = ran /\ output' = NoOutput
      /\ activeLayers' = activeLayers /\ activeModifiers' = activeModifiers
      /\ previousKeyState' = previousKeyState
      /\ stateMask' = stateMask /\ lockMask' = lockMask
  BY DEF Drop, ReturnWith, selfVars
<1>2. Shown = before
  BY <1>1 DEF Shown
<1>3. /\ NoHoldKeyYet /\ index \in P!Pressed(savedState)
      /\ index \in P!ReachedSpecialKeys(savedState)
  BY <1>1, KeyMet
<1>4. Released /\ VisitingKeys /\ Called /\ P!NoOutput = NoOutput
  BY <1>1, <1>3, SameOperators DEF NoHoldKeyYet
<1>5. P!ApplyCancelled(savedState, index)
  BY <1>1, <1>2, <1>3, <1>4, ShownIdle
     DEF P!ApplyCancelled, Called, Released, VisitingKeys
<1>6. P!Apply(savedState)
  BY <1>3, <1>5 DEF P!Apply
<1>7. [P!Next]_(P!vars) /\ P!IInv'
  BY <1>1, <1>6, ApplyTaken
<1> QED  BY <1>1, <1>7

(* Clearing a timer leaves the current layer.                              *)
LEMMA LayerOfCleared ==
    ASSUME NEW s \in Seq(P!ActiveLayer)
    PROVE  P!LayerOf(P!ClearLast(s)) = P!LayerOf(s)
<1> DEFINE c == P!ClearLast(s)
<1>1. /\ c \in Seq(P!ActiveLayer) /\ Len(c) = Len(s)
      /\ \A i \in 1 .. Len(s) : c[i].layerIndex = s[i].layerIndex
  BY SameKeymap, P!ClearLastProperties DEF P!SameKeys, P!SameLayers
<1>2. s = << >> <=> c = << >>
  BY <1>1
<1>3. s # << >> => Len(s) \in 1 .. Len(s)
  OBVIOUS
<1> HIDE DEF c
<1>4. P!LayerOf(c) = P!LayerOf(s)
  BY <1>1, <1>2, <1>3 DEF P!LayerOf
<1> QED  BY <1>4 DEF c

(* The end of the loop, where no key that holds anything was met.          *)
LEMMA FinishKeys ==
    ASSUME LoopInv, Finish, NoHoldKeyYet
    PROVE  P!ApplyKeys(savedState)
<1> USE DEF LoopInv
<1> DEFINE ks == P!Pressed(savedState) \ P!ReachedSpecialKeys(savedState)
           ls == IF ks # {} THEN P!ClearLast(P!KeptLayers(savedState))
                            ELSE P!KeptLayers(savedState)
           ms == IF ks # {} THEN P!ClearLast(P!KeptModifiers(savedState))
                            ELSE P!KeptModifiers(savedState)
<1>1. /\ pc = "visit" /\ pc' = "idle" /\ index = KeysTotal
      /\ savedState' = savedState /\ ran' = ran
      /\ stateMask' = stateMask /\ lockMask' = lockMask
  BY DEF Finish, ReturnWith
<1>2. Shown = before /\ Called /\ Released /\ Compared /\ VisitingKeys
  BY <1>1 DEF Shown, NoHoldKeyYet
<1>3. ran = P!ReachedSpecialKeys(savedState) /\ P!PressedHoldKeys(savedState) = {}
  <2>1. \A k \in 0 .. KeysTotal - 1 : k < KeysTotal /\ ~(KeysTotal <= k)
    BY KeysTotalAssumption
  <2> QED  BY <1>1, <1>2, <2>1, KeysVisited DEF VisitingKeys, NoHoldKeyYet
<1>4. keys = ks
  BY <1>3 DEF NoHoldKeyYet
<1>5. activeLayers' = ls /\ activeModifiers' = ms
  <2>1. /\ ClearLast(activeLayers) = P!ClearLast(P!KeptLayers(savedState))
        /\ ClearLast(activeModifiers) = P!ClearLast(P!KeptModifiers(savedState))
    BY <1>2, StacksReleased
  <2> QED  BY <1>2, <1>4, <2>1 DEF Finish, Released
<1>6. CurrentLayerIndex = P!LayerOf(ls)
  <2>1. /\ CurrentLayerIndex = P!LayerOf(P!KeptLayers(savedState))
        /\ P!KeptLayers(savedState) \in Seq(P!ActiveLayer)
    BY <1>2, StacksReleased, SameOperators DEF Released
  <2> QED  BY <2>1, LayerOfCleared
<1> HIDE DEF ks, ls, ms
<1>7. P!Return(savedState, ks, ls, ms)
  <2>1. New <=> P!Changed(ks, savedState)
    BY <1>2, <1>4, SameChange
  <2>2. CASE New
    <3>1. /\ previousKeyState' = ks
          /\ output' = [kind |-> "report", modifiers |-> ms, layer |-> P!LayerOf(ls),
                        keys |-> ks, injected |-> P!Injected(savedState)]
      BY <1>2, <1>4, <1>5, <1>6, <2>2 DEF Finish, ReturnWith, Compared
    <3> QED  BY <1>1, <2>1, <2>2, <3>1, ShownIdle DEF P!Return, P!Report
  <2>3. CASE ~New
    <3>1. previousKeyState' = previousKeyState /\ output' = P!NoOutput
      BY <2>3, SameOperators DEF Finish, ReturnWith
    <3> QED  BY <1>1, <1>2, <2>1, <2>3, <3>1, ShownIdle DEF P!Return, Called
  <2> QED  BY <2>2, <2>3
<1>8. /\ P!Changed(P!Pressed(savedState), savedState)
      /\ stateMask' = P!MaskAfterRelease(savedState)
      /\ lockMask' = P!LockAfterRelease(savedState)
  BY <1>1, <1>2 DEF VisitingKeys, Released
<1>9. /\ Shown'.savedState = savedState /\ Shown'.activeLayers = ls
      /\ Shown'.activeModifiers = ms
      /\ Shown'.stateMask = P!MaskAfterRelease(savedState)
      /\ Shown'.lockMask = P!LockAfterRelease(savedState)
      /\ Shown'.ran = P!ReachedSpecialKeys(savedState)
  BY <1>1, <1>3, <1>5, <1>8, ShownIdle
<1> QED
  BY <1>1, <1>3, <1>7, <1>8, <1>9 DEF P!ApplyKeys, ks, ls, ms

(* The end of the loop after a key that holds a layer, or a modifier.      *)
LEMMA FinishHold ==
    ASSUME LoopInv, Finish, HoldKeyPushed
    PROVE  \E k \in P!Pressed(savedState) :
               P!ApplyLayer(savedState, k) \/ P!ApplyModifier(savedState, k)
<1> USE DEF LoopInv
<1>1. /\ pc = "visit" /\ pc' = "idle" /\ index = KeysTotal /\ keys = {}
      /\ savedState' = savedState /\ ran' = ran
      /\ activeLayers' = activeLayers /\ activeModifiers' = activeModifiers
      /\ stateMask' = stateMask /\ lockMask' = lockMask
  BY DEF Finish, ReturnWith, HoldKeyPushed
<1>2. /\ Shown = before /\ Called /\ Compared /\ VisitingKeys
      /\ layer = P!LayerAfterRelease(savedState)
      /\ P!Changed(P!Pressed(savedState), savedState)
  BY <1>1 DEF Shown, VisitingKeys
<1>3. ran = P!ReachedSpecialKeys(savedState)
  <2>1. \A k \in 0 .. KeysTotal - 1 : k < KeysTotal
    BY KeysTotalAssumption
  <2> QED  BY <1>1, <1>2, <2>1, KeysVisited DEF VisitingKeys
<1>4. PICK k \in P!PressedHoldKeys(savedState) :
              /\ P!IsFirstHoldKey(savedState, k)
              /\ LayerPushed(k) \/ ModifierPushed(k)
  BY DEF HoldKeyPushed
<1>5. P!Return(savedState, {}, activeLayers, activeModifiers)
  <2>1. New <=> P!Changed({}, savedState)
    BY <1>1, <1>2, SameChange
  <2>2. CASE New
    <3>1. /\ previousKeyState' = {}
          /\ output' = [kind |-> "report", modifiers |-> activeModifiers,
                        layer |-> P!LayerOf(activeLayers),
                        keys |-> {}, injected |-> P!Injected(savedState)]
      BY <1>1, <1>2, <2>2, SameOperators DEF Finish, ReturnWith, Compared
    <3> QED  BY <1>1, <2>1, <2>2, <3>1, ShownIdle DEF P!Return, P!Report
  <2>3. CASE ~New
    <3>1. previousKeyState' = previousKeyState /\ output' = P!NoOutput
      BY <2>3, SameOperators DEF Finish, ReturnWith
    <3> QED  BY <1>1, <1>2, <2>1, <2>3, <3>1, ShownIdle DEF P!Return, Called
  <2> QED  BY <2>2, <2>3
<1>6. /\ Shown'.savedState = savedState /\ Shown'.activeLayers = activeLayers
      /\ Shown'.activeModifiers = activeModifiers
      /\ Shown'.stateMask = stateMask /\ Shown'.lockMask = lockMask
      /\ Shown'.ran = P!ReachedSpecialKeys(savedState)
  BY <1>1, <1>3, ShownIdle
<1>7. k \in P!Pressed(savedState)
  BY <1>4, KeysVisited
<1>8. CASE LayerPushed(k)
  <2>1. P!ApplyLayer(savedState, k)
    BY <1>1, <1>2, <1>4, <1>5, <1>6, <1>8 DEF LayerPushed, P!ApplyLayer
  <2> QED  BY <1>7, <2>1
<1>9. CASE ModifierPushed(k)
  <2>1. P!ApplyModifier(savedState, k)
    BY <1>1, <1>2, <1>4, <1>5, <1>6, <1>9 DEF ModifierPushed, P!ApplyModifier
  <2> QED  BY <1>7, <2>1
<1> QED  BY <1>4, <1>8, <1>9

(* So the call returns with one of the outcomes of MasterState.            *)
LEMMA FinishStep ==
    ASSUME LoopInv, Finish
    PROVE  LoopInv' /\ [P!Next]_(P!vars)
<1>1. pc = "visit" /\ pc' = "idle"
  BY DEF Finish, ReturnWith
<1>2. NoHoldKeyYet \/ HoldKeyPushed
  BY <1>1 DEF LoopInv, VisitingKeys
<1>3. P!Apply(savedState)
  BY <1>2, FinishKeys, FinishHold DEF P!Apply
<1>4. [P!Next]_(P!vars) /\ P!IInv'
  BY <1>1, <1>3, ApplyTaken
<1> QED  BY <1>1, <1>4 DEF LoopInv

-----------------------------------------------------------------------------
(* Between calls.                                                          *)

(* The clock of both modules.                                              *)
LEMMA SameAged ==
    ASSUME NEW S, NEW s \in Seq(S),
           \A i \in DOMAIN s : s[i].tapTimer \in 0 .. TapTime \cup {NoTimer}
    PROVE  /\ Older(s) = P!Aged(s)
           /\ Older(s) # s => \E i \in DOMAIN s : P!InTapTime(s[i])
<1>1. \A i \in DOMAIN s : s[i].tapTimer \in 0 .. TapTime - 1 <=> P!InTapTime(s[i])
  BY TapTimeAssumption DEF NoTimer, P!InTapTime, P!IsPending, P!NoTimer
<1>2. Older(s) = P!Aged(s)
  BY <1>1 DEF Older, P!Aged, P!InTapTime
<1>3. ASSUME \A i \in DOMAIN s : ~P!InTapTime(s[i])
      PROVE  Older(s) = s
  <2>1. Older(s) = [i \in DOMAIN s |-> s[i]]
    BY <1>1, <1>3 DEF Older
  <2> QED  BY <2>1
<1> QED  BY <1>2, <1>3

(* A step of the clock.                                                    *)
LEMMA TickStep ==
    ASSUME LoopInv, LoopTick
    PROVE  LoopInv' /\ [P!Next]_(P!vars)
<1>1. /\ pc = "idle" /\ pc' = "idle" /\ output' = NoOutput /\ ran' = {}
      /\ activeLayers' = Older(activeLayers)
      /\ activeModifiers' = Older(activeModifiers)
      /\ Older(activeLayers) # activeLayers \/ Older(activeModifiers) # activeModifiers
      /\ previousKeyState' = previousKeyState /\ savedState' = savedState
      /\ stateMask' = stateMask /\ lockMask' = lockMask
  BY DEF LoopTick
<1>2. /\ Shown.activeLayers = activeLayers /\ Shown.activeModifiers = activeModifiers
      /\ Shown.previousKeyState = previousKeyState
      /\ Shown.stateMask = stateMask /\ Shown.lockMask = lockMask
      /\ Shown.savedState = savedState
  BY <1>1 DEF Shown, Snapshot
<1>3. /\ activeLayers \in Seq(P!ActiveLayer) /\ activeModifiers \in Seq(P!ActiveModifier)
  BY <1>2, ShownFacts DEF LoopInv
<1>4. /\ \A i \in DOMAIN activeLayers :
            activeLayers[i].tapTimer \in 0 .. TapTime \cup {NoTimer}
      /\ \A i \in DOMAIN activeModifiers :
            activeModifiers[i].tapTimer \in 0 .. TapTime \cup {NoTimer}
  <2>1. /\ \A i \in DOMAIN activeLayers : activeLayers[i] \in P!ActiveLayer
        /\ \A i \in DOMAIN activeModifiers : activeModifiers[i] \in P!ActiveModifier
    BY <1>3
  <2> QED  BY <2>1 DEF P!ActiveLayer, P!ActiveModifier, P!TapTimers, P!NoTimer, NoTimer
<1>5. /\ activeLayers' = P!Aged(activeLayers)
      /\ activeModifiers' = P!Aged(activeModifiers)
      /\ \/ \E i \in DOMAIN activeLayers : P!InTapTime(activeLayers[i])
         \/ \E i \in DOMAIN activeModifiers : P!InTapTime(activeModifiers[i])
  BY <1>1, <1>3, <1>4, SameAged
<1>6. P!Tick
  <2>1. \E entry \in {activeLayers[i] : i \in DOMAIN activeLayers}
                      \cup {activeModifiers[i] : i \in DOMAIN activeModifiers} :
              P!InTapTime(entry)
    BY <1>5
  <2>2. P!NoOutput = NoOutput
    BY SameOperators
  <2> QED  BY <1>1, <1>2, <1>5, <2>1, <2>2, ShownIdle DEF P!Tick
<1>7. [P!Next]_(P!vars)
  BY <1>6 DEF P!Next
<1>8. P!IInv'
  BY <1>7, P!NextIInv, SameKeymap DEF LoopInv
<1> QED  BY <1>1, <1>7, <1>8 DEF LoopInv

(* The state before the first call.                                        *)
LEMMA LoopStart == LoopInit => LoopInv /\ P!Init
<1> SUFFICES ASSUME LoopInit PROVE LoopInv /\ P!Init
  OBVIOUS
<1>1. pc = "idle"
  BY DEF LoopInit
<1>2. P!Init
  BY <1>1, SameOperators DEF LoopInit, P!Init, P!NotCalled, Shown, Snapshot
<1>3. P!IInv
  BY <1>2, P!InitIInv, SameKeymap
<1> QED  BY <1>1, <1>2, <1>3 DEF LoopInv

(* Every step of a call, of the clock and of no one.                       *)
LEMMA LoopStep ==
    LoopInv /\ [LoopNext]_loopVars => LoopInv' /\ [P!Next]_(P!vars)
<1> SUFFICES ASSUME LoopInv, [LoopNext]_loopVars
             PROVE  LoopInv' /\ [P!Next]_(P!vars)
  OBVIOUS
<1>1. CASE \E keyState \in SUBSET Keys : Call(keyState)
  BY <1>1, CallStep
<1>2. CASE PopLayer \/ LayersPopped
  BY <1>2, PopLayerStep, LayersPoppedStep
<1>3. CASE RemoveModifier \/ ModifiersRemoved
  BY <1>3, RemoveModifierStep, ModifiersRemovedStep
<1>4. CASE Compare
  BY <1>4, CompareStep
<1>5. CASE Visit
  <2>1. VisitOther \/ VisitSpecial \/ VisitLayer \/ VisitModifier
    BY <1>5 DEF Visit
  <2> QED
    BY <1>5, <2>1, VisitOtherStep, VisitSpecialStep, VisitLayerStep, VisitModifierStep
<1>6. CASE Drop \/ Finish
  BY <1>6, DropStep, FinishStep
<1>7. CASE LoopTick
  BY <1>7, TickStep
<1>8. CASE UNCHANGED loopVars
  BY <1>8, StandStill
<1> QED
  BY <1>1, <1>2, <1>3, <1>4, <1>5, <1>6, <1>7, <1>8 DEF LoopNext

(* Every behaviour of the loops is one of MasterState, for every key map   *)
(* and every capacity: whatever the loops of apply find on the stacks, a   *)
(* call ends as the sets of MasterState say, cancelled or not, so all that *)
(* is proved of MasterState holds of the loops.                            *)
THEOREM LoopImplementsMasterState == LoopSpec => ImplementsMasterState
<1>1. LoopInit => LoopInv /\ Atomic!Init
  BY LoopStart, SameInit
<1>2. LoopInv /\ [LoopNext]_loopVars => LoopInv' /\ [Atomic!Next]_(Atomic!vars)
  BY LoopStep, SameNext
<1> QED
  BY <1>1, <1>2, PTL DEF LoopSpec, ImplementsMasterState, Atomic!Spec
=============================================================================
