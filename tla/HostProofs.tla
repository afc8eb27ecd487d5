------------------------------ MODULE HostProofs ------------------------------
(***************************************************************************)
(* Proofs about KeyHistory and HostInput, for every key map and every size *)
(* of a report and of the softdevice's queue.  The keyboard with its host  *)
(* takes the steps of MasterState, so IInv of MasterStateProofs holds; the *)
(* invariants of this module add what the history variables and the host   *)
(* have to do with the state that apply keeps.                             *)
(***************************************************************************)
EXTENDS HostInput, MasterStateProofs

-----------------------------------------------------------------------------
(* The keyboard with its host implements MasterState.                      *)

(* Each step of the keyboard with its host is a step of MasterState, or    *)
(* leaves its variables alone.                                             *)
LEMMA HostStep == [HostNext]_allVars => [Next]_vars
<1> SUFFICES ASSUME [HostNext]_allVars PROVE [Next]_vars
  OBVIOUS
<1>1. CASE UNCHANGED allVars
  BY <1>1 DEF allVars
<1>2. ASSUME NEW saved \in SUBSET Keys, HostApply(saved)
      PROVE  Next
  BY <1>2 DEF HostApply, Next, Apply
<1>3. ASSUME NEW saved \in SUBSET Keys, Stopped(saved)
      PROVE  Next
  BY <1>3 DEF Stopped, Next, Apply
<1>4. ASSUME NEW saved \in SUBSET Keys, Dropped(saved)
      PROVE  Next
  BY <1>4 DEF Dropped, Next, Apply
<1>5. CASE HostChange \/ BatteryLevel \/ Transmit
  BY <1>5 DEF HostChange, BatteryLevel, Transmit, vars
<1>6. CASE HostTick \/ HalfDisconnected
  BY <1>6 DEF HostTick, HalfDisconnected, Next
<1> QED  BY <1>1, <1>2, <1>3, <1>4, <1>5, <1>6 DEF HostNext

(* What MasterStateProofs shows of MasterState holds with a host: reports, *)
(* notifications and dropped calls add no behaviour to the key handling.   *)
THEOREM HostRunsMasterState == HostSpec => Spec
<1>1. HostInit => Init
  BY DEF HostInit
<1> QED  BY <1>1, HostStep, PTL DEF HostSpec, Spec

-----------------------------------------------------------------------------
(* The outcome of a call, path by path.                                    *)

(* A call in which a key passes the masks has released nothing: a pop      *)
(* drops every key that was enabled before it, and so does the removal of  *)
(* a modifier.                                                             *)
LEMMA PressedNothingReleased ==
    ASSUME NEW saved, Pressed(saved) # {}
    PROVE  PoppedLayers(saved) = {} /\ RemovedModifiers(saved) = {}
<1> PICK k : k \in Pressed(saved)
  OBVIOUS
<1>1. /\ k \in HeldAfterRelease(saved)
      /\ k \in stateMask \cup PoppedLayerKeys(saved) \cup RemovedModifierKeys(saved)
  BY DEF Pressed, MaskAfterRelease
<1>2. ~SendAgain(saved)
  BY <1>1 DEF HeldAfterRelease, MaskAfterRelease
<1>3. RemovedModifiers(saved) = {} /\ RemovedModifierKeys(saved) = {}
  BY <1>2 DEF SendAgain, RemovedModifierKeys
<1>4. PoppedLayers(saved) = {}
  BY <1>1, <1>2, <1>3 DEF HeldAfterRelease, HeldAfterLayers
<1> QED  BY <1>3, <1>4

(* Where nothing is released, the first half of apply changes nothing but  *)
(* the locks of keys that are up.                                          *)
LEMMA NothingReleased ==
    ASSUME IInv, NEW saved \in SUBSET Keys,
           PoppedLayers(saved) = {}
    PROVE  /\ KeptLayers(saved) = activeLayers
           /\ PoppedLayerKeys(saved) = {}
           /\ LockAfterRelease(saved) = lockMask \cap saved
           /\ LayerAfterRelease(saved) = CurrentLayerIndex
           /\ HeldAfterLayers(saved) = saved
<1>1. activeLayers \in Seq(ActiveLayer)
  BY DEF IInv, TypeOK
<1>2. KeptDepth(saved) \in 0 .. Len(activeLayers) /\ Len(activeLayers) \in Nat
  BY <1>1, KeptDepthProperties
<1>3. KeptDepth(saved) = Len(activeLayers)
  <2>1. ~(Len(activeLayers) \in KeptDepth(saved) + 1 .. Len(activeLayers))
    BY DEF PoppedLayers
  <2> QED  BY <1>2, <2>1
<1>4. KeptLayers(saved) = activeLayers
  BY <1>1, <1>2, <1>3 DEF KeptLayers
<1> QED
  BY <1>4 DEF PoppedLayerKeys, LockAfterRelease, LayerAfterRelease, CurrentLayerIndex,
              HeldAfterLayers

(* Each modifier that stays is one of the stack.                           *)
LEMMA KeptModifiersEntries ==
    ASSUME activeModifiers \in Seq(ActiveModifier), NEW saved
    PROVE  \A r \in DOMAIN KeptModifiers(saved) :
              \E i \in DOMAIN activeModifiers :
                  KeptModifiers(saved)[r] = activeModifiers[i]
<1> DEFINE I == DOMAIN activeModifiers \ RemovedModifiers(saved)
<1>1. /\ I \in SUBSET (DOMAIN activeModifiers)
      /\ KeptModifiers(saved) = Select(activeModifiers, I)
  BY DEF KeptModifiers
<1> HIDE DEF I
<1> QED  BY <1>1, SelectProperties

(* Where no modifier is removed, the second loop changes nothing.         *)
LEMMA NoModifierRemoved ==
    ASSUME IInv, NEW saved \in SUBSET Keys, RemovedModifiers(saved) = {}
    PROVE  /\ KeptModifiers(saved) = activeModifiers
           /\ RemovedModifierKeys(saved) = {}
           /\ MaskAfterRelease(saved) = stateMask \cup PoppedLayerKeys(saved)
           /\ HeldAfterRelease(saved) = HeldAfterLayers(saved)
<1>1. activeModifiers \in Seq(ActiveModifier)
  BY DEF IInv, TypeOK
<1>2. KeptModifiers(saved) = Select(activeModifiers, DOMAIN activeModifiers)
  BY DEF KeptModifiers
<1>3. KeptModifiers(saved) = activeModifiers
  BY <1>1, <1>2, SelectAll
<1> QED
  BY <1>3 DEF RemovedModifierKeys, MaskAfterRelease, HeldAfterRelease, SendAgain

(* The comparisons find nothing new when the same keys are left, no tap is *)
(* due and no modifier was removed.                                        *)
LEMMA NothingChanged ==
    ASSUME IInv, NEW saved \in SUBSET Keys, NEW keys
    PROVE  ~Changed(keys, saved)
               <=> /\ keys = previousKeyState
                   /\ Injected(saved) = {}
                   /\ RemovedModifiers(saved) = {}
<1>1. Injected(saved) \cap previousKeyState = {}
  BY AfterRelease
<1> QED  BY <1>1 DEF Changed, SendAgain

Returned(saved) ==
    \/ ApplyUnchanged(saved)
    \/ ApplyKeys(saved)
    \/ \E k \in Pressed(saved) : ApplyLayer(saved, k) \/ ApplyModifier(saved, k)

(* Apart from what the new layer is, the last statements of apply agree    *)
(* with what it remembers: it returns the keys it remembers, and nothing   *)
(* only if they are the ones it remembered and nothing was released.       *)
Agrees(saved, keys) ==
    /\ previousKeyState' = keys
    /\ \/ /\ output'.kind = "report"
          /\ output'.layer = CurrentLayerIndex'
          /\ output'.keys = keys
          /\ output'.injected = Injected(saved)
       \/ /\ output' = NoOutput
          /\ previousKeyState = keys
          /\ Injected(saved) = {}
          /\ RemovedModifiers(saved) = {}

(* Either branch of Return agrees with the keys it is given.               *)
LEMMA ReturnAgrees ==
    ASSUME IInv, NEW saved \in SUBSET Keys, NEW keys, NEW layers, NEW modifiers,
           Return(saved, keys, layers, modifiers), activeLayers' = layers
    PROVE  Agrees(saved, keys)
<1>1. CASE Changed(keys, saved)
  BY <1>1 DEF Return, Agrees, Report, CurrentLayerIndex
<1>2. CASE ~Changed(keys, saved)
  BY <1>2, NothingChanged DEF Return, Agrees
<1> QED  BY <1>1, <1>2

(* What a call returns, when the first comparison finds nothing new ...    *)
LEMMA UnchangedCall ==
    ASSUME IInv, NEW saved \in SUBSET Keys, ApplyUnchanged(saved)
    PROVE  /\ Agrees(saved, Pressed(saved))
           /\ activeModifiers' = activeModifiers
           /\ Pressed(saved) # {} => activeLayers' = activeLayers
<1>1. /\ Pressed(saved) = previousKeyState
      /\ Injected(saved) = {}
      /\ RemovedModifiers(saved) = {}
  BY NothingChanged DEF ApplyUnchanged
<1>2. KeptModifiers(saved) = activeModifiers
  BY <1>1, NoModifierRemoved
<1>3. Pressed(saved) # {} => KeptLayers(saved) = activeLayers
  BY PressedNothingReleased, NothingReleased
<1> QED  BY <1>1, <1>2, <1>3 DEF ApplyUnchanged, Agrees

(* ... when it meets no hold key ...                                       *)
LEMMA KeysCall ==
    ASSUME IInv, NEW saved \in SUBSET Keys, ApplyKeys(saved)
    PROVE  \E keys \in SUBSET Pressed(saved) :
              /\ keys = Pressed(saved) \ SpecialKeys(LayerAfterRelease(saved))
              /\ keys \cap HoldKeys(LayerAfterRelease(saved)) = {}
              /\ Agrees(saved, keys)
              /\ keys = {} => /\ activeLayers' = KeptLayers(saved)
                              /\ activeModifiers' = KeptModifiers(saved)
              /\ keys # {} => /\ activeLayers' = ClearLast(activeLayers)
                              /\ activeModifiers' = ClearLast(activeModifiers)
<1> DEFINE keys == Pressed(saved) \ ReachedSpecialKeys(saved)
<1>1. PressedHoldKeys(saved) = {}
  BY DEF ApplyKeys
<1>2. keys = Pressed(saved) \ SpecialKeys(LayerAfterRelease(saved))
  BY <1>1 DEF ReachedSpecialKeys
<1>3. keys \cap HoldKeys(LayerAfterRelease(saved)) = {}
  BY <1>1 DEF PressedHoldKeys
<1>4. keys # {} => /\ KeptLayers(saved) = activeLayers
                   /\ KeptModifiers(saved) = activeModifiers
  BY PressedNothingReleased, NothingReleased, NoModifierRemoved
<1>5. Agrees(saved, keys)
  BY ReturnAgrees DEF ApplyKeys
<1> QED  BY <1>2, <1>3, <1>4, <1>5 DEF ApplyKeys

(* ... and when it meets one.                                              *)
LEMMA PushCall ==
    ASSUME IInv, NEW saved \in SUBSET Keys, NEW k \in Pressed(saved),
           ApplyLayer(saved, k) \/ ApplyModifier(saved, k)
    PROVE  /\ Agrees(saved, {})
           /\ Injected(saved) = {}
           /\ LayerAfterRelease(saved) = CurrentLayerIndex
           /\ LockAfterRelease(saved) = lockMask \cap saved
           /\ MaskAfterRelease(saved) = stateMask
           /\ KeptLayers(saved) = activeLayers
           /\ KeptModifiers(saved) = activeModifiers
           /\ k \in stateMask \cap saved
<1>1. Pressed(saved) # {}
  OBVIOUS
<1>2. PoppedLayers(saved) = {} /\ RemovedModifiers(saved) = {}
  BY <1>1, PressedNothingReleased
<1>3. Injected(saved) = {}
  BY <1>2 DEF Injected
<1>4. Agrees(saved, {})
  BY ReturnAgrees DEF ApplyLayer, ApplyModifier
<1>5. k \in stateMask \cap saved
  <2>1. k \in HeldAfterRelease(saved) \cap MaskAfterRelease(saved)
    BY DEF Pressed
  <2> QED  BY <1>2, <2>1, NothingReleased, NoModifierRemoved
<1> QED  BY <1>2, <1>3, <1>4, <1>5, NothingReleased, NoModifierRemoved

(* Clearing a timer, or the clock, changes no layer and no modifier.       *)
LEMMA TimersOnly ==
    /\ \A s \in Seq(ActiveLayer) :
          LayerOf(ClearLast(s)) = LayerOf(s) /\ LayerOf(Aged(s)) = LayerOf(s)
    /\ \A s \in Seq(ActiveModifier) :
          /\ Len(ClearLast(s)) = Len(s) /\ DOMAIN ClearLast(s) = DOMAIN s
          /\ Len(Aged(s)) = Len(s) /\ DOMAIN Aged(s) = DOMAIN s
          /\ \A i \in DOMAIN s :
                /\ ClearLast(s)[i].keyIndex = s[i].keyIndex
                /\ ClearLast(s)[i].value = s[i].value
                /\ Aged(s)[i].keyIndex = s[i].keyIndex
                /\ Aged(s)[i].value = s[i].value
                /\ IsPending(Aged(s)[i]) <=> IsPending(s[i])
                /\ IsPending(ClearLast(s)[i]) => i # Len(s) /\ IsPending(s[i])
                /\ i # Len(s) => ClearLast(s)[i] = s[i]
<1>1. ASSUME NEW s \in Seq(ActiveLayer)
      PROVE  LayerOf(ClearLast(s)) = LayerOf(s) /\ LayerOf(Aged(s)) = LayerOf(s)
  <2>1. /\ ClearLast(s) \in Seq(ActiveLayer) /\ SameKeys(ClearLast(s), s)
        /\ SameLayers(ClearLast(s), s)
        /\ Aged(s) \in Seq(ActiveLayer) /\ SameKeys(Aged(s), s)
        /\ SameLayers(Aged(s), s)
    BY ClearLastProperties, AgedProperties
  <2>2. Len(s) \in Nat
    OBVIOUS
  <2> QED  BY <2>1, <2>2 DEF SameKeys, SameLayers, LayerOf
<1>2. ASSUME NEW s \in Seq(ActiveModifier), NEW i \in DOMAIN s
      PROVE  /\ ClearLast(s)[i].keyIndex = s[i].keyIndex
             /\ ClearLast(s)[i].value = s[i].value
             /\ Aged(s)[i].keyIndex = s[i].keyIndex
             /\ Aged(s)[i].value = s[i].value
             /\ IsPending(Aged(s)[i]) <=> IsPending(s[i])
             /\ IsPending(ClearLast(s)[i]) => i # Len(s) /\ IsPending(s[i])
             /\ i # Len(s) => ClearLast(s)[i] = s[i]
  <2>1. s[i] \in ActiveModifier /\ s # << >>
    BY ElementOfSeq
  <2> QED  BY <2>1, TapTimeAssumption
             DEF ActiveModifier, ClearLast, Aged, IsPending, TapTimers, NoTimer
<1>3. ASSUME NEW s \in Seq(ActiveModifier)
      PROVE  /\ Len(ClearLast(s)) = Len(s) /\ DOMAIN ClearLast(s) = DOMAIN s
             /\ Len(Aged(s)) = Len(s) /\ DOMAIN Aged(s) = DOMAIN s
  <2>1. ClearLast(s) \in Seq(ActiveModifier) /\ Aged(s) \in Seq(ActiveModifier)
    BY ClearLastProperties, AgedProperties
  <2>2. DOMAIN ClearLast(s) = DOMAIN s /\ DOMAIN Aged(s) = DOMAIN s
    BY DEF ClearLast, Aged
  <2> QED  BY <2>1, <2>2, LenProperties
<1> QED  BY <1>1, <1>2, <1>3

-----------------------------------------------------------------------------
(* What apply remembers of its last report.                                *)

(* The last report named the current layer and the remembered keys; those  *)
(* are neither locked nor, on the current layer, hold or special keys.     *)
ReportRemembered ==
    output.kind = "report" =>
        /\ output.layer = CurrentLayerIndex
        /\ output.keys = previousKeyState

PreviousRegular ==
    /\ previousKeyState \cap lockMask = {}
    /\ previousKeyState \cap HoldKeys(CurrentLayerIndex) = {}
    /\ previousKeyState \cap SpecialKeys(CurrentLayerIndex) = {}

Remembers == ReportRemembered /\ PreviousRegular

(* Each call that returns keeps what is remembered in step with the report *)
(* and with the layer.                                                     *)
LEMMA ReturnedRemembers ==
    ASSUME IInv, Remembers, NEW saved \in SUBSET Keys, Returned(saved)
    PROVE  Remembers'
<1>1. activeLayers \in Seq(ActiveLayer) /\ KeptLayers(saved) \in Seq(ActiveLayer)
  BY AfterRelease DEF IInv, WellFormed
<1>2. Pressed(saved) \cap LockAfterRelease(saved) = {}
  BY DEF Pressed
<1>3. ASSUME ApplyUnchanged(saved)
      PROVE  Remembers'
  <2>1. /\ Agrees(saved, Pressed(saved))
        /\ Pressed(saved) # {} => activeLayers' = activeLayers
        /\ lockMask' = LockAfterRelease(saved)
        /\ previousKeyState' = previousKeyState
    BY <1>3, UnchangedCall DEF ApplyUnchanged
  <2>2. previousKeyState # {} => CurrentLayerIndex' = CurrentLayerIndex
    BY <2>1 DEF Agrees, CurrentLayerIndex
  <2> QED  BY <1>2, <2>1, <2>2 DEF Remembers, ReportRemembered, PreviousRegular, Agrees, NoOutput
<1>4. ASSUME ApplyKeys(saved)
      PROVE  Remembers'
  <2>1. PICK keys \in SUBSET Pressed(saved) :
              /\ keys = Pressed(saved) \ SpecialKeys(LayerAfterRelease(saved))
              /\ keys \cap HoldKeys(LayerAfterRelease(saved)) = {}
              /\ Agrees(saved, keys)
              /\ keys # {} => activeLayers' = ClearLast(activeLayers)
    BY <1>4, KeysCall
  <2>2. keys # {} => LayerAfterRelease(saved) = CurrentLayerIndex
    BY PressedNothingReleased, NothingReleased
  <2>3. keys # {} => CurrentLayerIndex' = CurrentLayerIndex
    BY <1>1, <2>1, TimersOnly DEF CurrentLayerIndex
  <2>4. lockMask' = LockAfterRelease(saved)
    BY <1>4 DEF ApplyKeys
  <2> QED
    BY <1>2, <2>1, <2>2, <2>3, <2>4
       DEF Remembers, ReportRemembered, PreviousRegular, Agrees, NoOutput
<1>5. ASSUME NEW k \in Pressed(saved), ApplyLayer(saved, k) \/ ApplyModifier(saved, k)
      PROVE  Remembers'
  <2>1. Agrees(saved, {})
    BY <1>5, PushCall
  <2> QED  BY <2>1 DEF Remembers, ReportRemembered, PreviousRegular, Agrees, NoOutput
<1> QED  BY <1>3, <1>4, <1>5 DEF Returned

(* A call that is dropped in a special action has released nothing.        *)
LEMMA CancelledCall ==
    ASSUME IInv, NEW saved \in SUBSET Keys, NEW k, ApplyCancelled(saved, k)
    PROVE  /\ activeLayers' = activeLayers
           /\ activeModifiers' = activeModifiers
           /\ previousKeyState' = previousKeyState
           /\ stateMask' = stateMask
           /\ lockMask' = lockMask \cap saved
           /\ keyState' = saved
           /\ output' = NoOutput
<1>1. k \in Pressed(saved)
  BY DEF ApplyCancelled, ReachedSpecialKeys
<1>2. PoppedLayers(saved) = {} /\ RemovedModifiers(saved) = {}
  BY <1>1, PressedNothingReleased
<1> QED  BY <1>2, NothingReleased, NoModifierRemoved DEF ApplyCancelled

(* The steps of MasterState, in the cases the lemmas above are about.      *)
LEMMA StepCases ==
    ASSUME [Next]_vars
    PROVE  \/ \E saved \in SUBSET Keys : Returned(saved)
           \/ \E saved \in SUBSET Keys : \E k : ApplyCancelled(saved, k)
           \/ Tick
           \/ Reset
           \/ UNCHANGED <<keyState, activeLayers, activeModifiers, previousKeyState,
                          stateMask, lockMask, output>>
BY DEF Next, Apply, Returned, ApplyOverflow, vars

(* Each step keeps what is remembered in step with the last report.        *)
LEMMA RemembersStep == IInv /\ Remembers /\ [Next]_vars => Remembers'
<1> SUFFICES ASSUME IInv, Remembers, [Next]_vars PROVE Remembers'
  OBVIOUS
<1>1. CASE \E saved \in SUBSET Keys : Returned(saved)
  BY <1>1, ReturnedRemembers
<1>2. CASE \E saved \in SUBSET Keys : \E k : ApplyCancelled(saved, k)
  BY <1>2, CancelledCall
     DEF Remembers, ReportRemembered, PreviousRegular, NoOutput, CurrentLayerIndex
<1>3. CASE Tick
  <2>1. CurrentLayerIndex' = CurrentLayerIndex
    BY <1>3, TimersOnly DEF Tick, CurrentLayerIndex, IInv, TypeOK
  <2> QED
    BY <1>3, <2>1 DEF Tick, Remembers, ReportRemembered, PreviousRegular, NoOutput
<1>4. CASE Reset
  BY <1>4 DEF Reset, Remembers, ReportRemembered, PreviousRegular, NotCalled
<1>5. CASE UNCHANGED <<keyState, activeLayers, activeModifiers, previousKeyState,
                       stateMask, lockMask, output>>
  BY <1>5 DEF Remembers, ReportRemembered, PreviousRegular, CurrentLayerIndex
<1> QED  BY <1>1, <1>2, <1>3, <1>4, <1>5, StepCases

(* It is in step at the start.                                             *)
LEMMA RemembersInit == Init => Remembers
BY DEF Init, Remembers, ReportRemembered, PreviousRegular, NotCalled

(* The value of each active modifier is that of its key on some layer.     *)
ModifiersMapped ==
    \A i \in DOMAIN activeModifiers : \E l \in LayerIndices :
        /\ activeModifiers[i].keyIndex \in ModifierKeys(l)
        /\ activeModifiers[i].value = LayerLookup[l][activeModifiers[i].keyIndex].hold.value

MappedEntry(e) ==
    \E l \in LayerIndices : /\ e.keyIndex \in ModifierKeys(l)
                            /\ e.value = LayerLookup[l][e.keyIndex].hold.value

(* Only a push adds a modifier, and it takes the value from the key map.   *)
LEMMA ModifiersMappedStep == IInv /\ ModifiersMapped /\ [Next]_vars => ModifiersMapped'
<1> SUFFICES ASSUME IInv, ModifiersMapped, [Next]_vars PROVE ModifiersMapped'
  OBVIOUS
<1> DEFINE Mapped(s) == \A i \in DOMAIN s : MappedEntry(s[i])
<1>1. activeModifiers \in Seq(ActiveModifier) /\ Mapped(activeModifiers)
  BY DEF IInv, TypeOK, ModifiersMapped, MappedEntry
<1>2. ASSUME Mapped(activeModifiers') PROVE ModifiersMapped'
  BY <1>2 DEF ModifiersMapped, MappedEntry
<1>3. \A s \in Seq(ActiveModifier) : Mapped(s) => Mapped(ClearLast(s)) /\ Mapped(Aged(s))
  BY TimersOnly DEF MappedEntry
<1>4. ASSUME NEW saved \in SUBSET Keys
      PROVE  KeptModifiers(saved) \in Seq(ActiveModifier) /\ Mapped(KeptModifiers(saved))
  <2>1. KeptModifiers(saved) \in Seq(ActiveModifier)
    BY AfterRelease DEF WellFormed
  <2> QED  BY <1>1, <2>1, KeptModifiersEntries
<1>5. CASE \E saved \in SUBSET Keys : Returned(saved)
  <2> PICK saved \in SUBSET Keys : Returned(saved)
    BY <1>5
  <2>1. CASE ApplyUnchanged(saved) \/ ApplyKeys(saved)
    BY <1>2, <1>3, <1>4, <2>1 DEF ApplyUnchanged, ApplyKeys
  <2>2. CASE \E k \in Pressed(saved) : ApplyLayer(saved, k)
    BY <1>2, <1>3, <1>4, <2>2 DEF ApplyLayer
  <2>3. ASSUME NEW k \in Pressed(saved), ApplyModifier(saved, k)
        PROVE  ModifiersMapped'
    <3> DEFINE l == LayerAfterRelease(saved)
               s == ClearLast(KeptModifiers(saved))
               e == [value |-> LayerLookup[l][k].hold.value, keyIndex |-> k,
                     tapTimer |-> TimerFor(l, k)]
    <3>1. l \in LayerIndices /\ k \in ModifierKeys(l) /\ k \in Keys
      <4>1. KeptLayers(saved) \in Seq(ActiveLayer)
        BY AfterRelease DEF WellFormed
      <4> QED  BY <2>3, <4>1, LayerOfType DEF ApplyModifier, LayerAfterRelease, ModifierKeys
    <3>2. e \in ActiveModifier
      BY <3>1, MappingTypes DEF ActiveModifier
    <3>3. MappedEntry(e)
      BY <3>1 DEF MappedEntry
    <3>4. s \in Seq(ActiveModifier) /\ Mapped(s)
      BY <1>3, <1>4, ClearLastProperties
    <3>5. activeModifiers' = Append(s, e)
      BY <2>3 DEF ApplyModifier
    <3> HIDE DEF e, s
    <3>6. Mapped(Append(s, e))
      BY <3>2, <3>3, <3>4
    <3> QED  BY <1>2, <3>5, <3>6
  <2> QED  BY <2>1, <2>2, <2>3 DEF Returned
<1>6. CASE \E saved \in SUBSET Keys : \E k : ApplyCancelled(saved, k)
  BY <1>1, <1>2, <1>6, CancelledCall
<1>7. CASE Tick
  BY <1>1, <1>2, <1>3, <1>7 DEF Tick
<1>8. CASE Reset
  BY <1>2, <1>8 DEF Reset
<1>9. CASE UNCHANGED <<keyState, activeLayers, activeModifiers, previousKeyState,
                       stateMask, lockMask, output>>
  BY <1>1, <1>2, <1>9
<1> QED  BY <1>5, <1>6, <1>7, <1>8, <1>9, StepCases

-----------------------------------------------------------------------------
(* What is reported of a key while it is held.                             *)

(* Stated for all keys: only held keys have been reported, from one layer, *)
(* and a key that may still be reported from no layer but the current one. *)
ReportedOnce ==
    /\ ReportedKeys \subseteq keyState
    /\ \A k \in Keys :
          /\ reportedOn[k] # {} => k \in keyState
          /\ k \in stateMask \ lockMask => reportedOn[k] \subseteq {CurrentLayerIndex}
          /\ \E l \in LayerIndices : reportedOn[k] \subseteq {l}

(* A silenced key is still held, and locked or on a stack.                 *)
Silenced ==
    /\ silenced \subseteq keyState
    /\ silenced \cap stateMask \subseteq lockMask
    /\ resent = {}

(* A held key is enabled only if it was, and what a step reports is held,  *)
(* was enabled, and leaves the layer as it is.                             *)
LEMMA ReportStep ==
    ASSUME IInv, Remembers, ReportedKeys \subseteq keyState, [Next]_vars
    PROVE  /\ keyState' \cap stateMask' \subseteq stateMask
           /\ ReportedKeys' \subseteq keyState'
           /\ ReportedKeys' \subseteq stateMask \ lockMask
           /\ ReportedKeys' # {} => CurrentLayerIndex' = CurrentLayerIndex
<1>1. ASSUME NEW saved \in SUBSET Keys
      PROVE  /\ MaskAfterRelease(saved) \cap saved = stateMask \cap saved
             /\ Pressed(saved) \subseteq (stateMask \cap saved) \ lockMask
  <2>1. /\ MaskAfterRelease(saved) \cap saved = stateMask \cap saved
        /\ lockMask \cap saved \subseteq LockAfterRelease(saved)
        /\ Pressed(saved) \subseteq stateMask \cap saved
        /\ Pressed(saved) \cap LockAfterRelease(saved) = {}
    BY ReleaseMasks DEF IInv, MasksConsistent
  <2> QED  BY <2>1
<1>2. ASSUME NEW saved \in SUBSET Keys, Returned(saved)
      PROVE  /\ keyState' = saved
             /\ stateMask' \subseteq MaskAfterRelease(saved)
             /\ ReportedKeys' \subseteq Pressed(saved)
             /\ ReportedKeys' # {} => CurrentLayerIndex' = CurrentLayerIndex
  <2>1. CASE ApplyUnchanged(saved)
    BY <2>1 DEF ApplyUnchanged, ReportedKeys, NoOutput
  <2>2. CASE ApplyKeys(saved)
    <3>1. PICK keys \in SUBSET Pressed(saved) :
              /\ Agrees(saved, keys)
              /\ keys # {} => activeLayers' = ClearLast(activeLayers)
      BY <2>2, KeysCall
    <3>2. keys # {} => CurrentLayerIndex' = CurrentLayerIndex
      BY <3>1, TimersOnly DEF CurrentLayerIndex, IInv, TypeOK
    <3> QED  BY <2>2, <3>1, <3>2 DEF ApplyKeys, Agrees, ReportedKeys, NoOutput
  <2>3. ASSUME NEW k \in Pressed(saved), ApplyLayer(saved, k) \/ ApplyModifier(saved, k)
        PROVE  /\ keyState' = saved
               /\ stateMask' \subseteq MaskAfterRelease(saved)
               /\ ReportedKeys' = {}
    <3>1. Agrees(saved, {})
      BY <2>3, PushCall
    <3> QED  BY <2>3, <3>1 DEF ApplyLayer, ApplyModifier, Agrees, ReportedKeys, NoOutput
  <2> QED  BY <1>2, <2>1, <2>2, <2>3 DEF Returned
<1>3. CASE \E saved \in SUBSET Keys : Returned(saved)
  BY <1>1, <1>2, <1>3
<1>4. CASE \E saved \in SUBSET Keys : \E k : ApplyCancelled(saved, k)
  BY <1>4, CancelledCall DEF ReportedKeys, NoOutput
<1>5. CASE Tick \/ Reset
  BY <1>5 DEF Tick, Reset, ReportedKeys, NoOutput, NotCalled
<1>6. CASE UNCHANGED <<keyState, activeLayers, activeModifiers, previousKeyState,
                       stateMask, lockMask, output>>
  BY <1>6 DEF Remembers, ReportRemembered, PreviousRegular, CurrentLayerIndex,
              ReportedKeys, IInv, MasksConsistent
<1> QED  BY <1>3, <1>4, <1>5, <1>6, StepCases

(* A key that is not reported keeps the layers it was reported from; one   *)
(* that is was enabled, so they are the current one, which stays.          *)
LEMMA ReportedOnceStep ==
    ASSUME IInv, IInv', Remembers, Remembers', ReportedOnce, [Next]_vars, Record
    PROVE  ReportedOnce'
<1> DEFINE down == keyState \cap keyState'
<1>1. /\ keyState' \cap stateMask' \subseteq stateMask
      /\ ReportedKeys' \subseteq keyState'
      /\ ReportedKeys' \subseteq stateMask \ lockMask
      /\ ReportedKeys' # {} => CurrentLayerIndex' = CurrentLayerIndex
  BY ReportStep DEF ReportedOnce
<1>2. lockMask \cap keyState' \subseteq lockMask'
  BY LockStep
<1>3. CurrentLayerIndex' # CurrentLayerIndex => keyState' \cap stateMask' \subseteq lockMask'
  BY LayerChangeStep
<1>4. CurrentLayerIndex' \in LayerIndices
  BY LayerOfType DEF CurrentLayerIndex, IInv, TypeOK
<1>5. ReportedKeys' # {} => output'.layer = CurrentLayerIndex'
  BY DEF ReportedKeys, Remembers, ReportRemembered
<1>6. ASSUME NEW k \in Keys
      PROVE  /\ reportedOn'[k] # {} => k \in keyState'
             /\ k \in stateMask' \ lockMask' => reportedOn'[k] \subseteq {CurrentLayerIndex'}
             /\ \E l \in LayerIndices : reportedOn'[k] \subseteq {l}
  <2>1. reportedOn'[k] = (IF k \in down THEN reportedOn[k] ELSE {})
                            \cup (IF k \in ReportedKeys' THEN {output'.layer} ELSE {})
    BY DEF Record
  <2>2. reportedOn'[k] # {} => k \in keyState'
    BY <1>1, <2>1
  <2>3. k \in stateMask \ lockMask => reportedOn[k] \subseteq {CurrentLayerIndex}
    BY DEF ReportedOnce
  <2>4. k \in stateMask' \ lockMask' => reportedOn'[k] \subseteq {CurrentLayerIndex'}
    <3> SUFFICES ASSUME k \in stateMask' \ lockMask', k \in keyState'
                 PROVE  reportedOn'[k] \subseteq {CurrentLayerIndex'}
      BY <2>2
    <3>1. k \in stateMask \ lockMask /\ CurrentLayerIndex' = CurrentLayerIndex
      BY <1>1, <1>2, <1>3
    <3> QED  BY <1>5, <2>1, <2>3, <3>1
  <2>5. \E l \in LayerIndices : reportedOn'[k] \subseteq {l}
    <3>1. CASE k \in ReportedKeys'
      BY <1>1, <1>4, <1>5, <2>1, <2>3, <3>1
    <3>2. CASE k \notin ReportedKeys'
      <4>1. PICK l \in LayerIndices : reportedOn[k] \subseteq {l}
        BY DEF ReportedOnce
      <4> QED  BY <2>1, <3>2, <4>1
    <3> QED  BY <3>1, <3>2
  <2> QED  BY <2>2, <2>4, <2>5
<1> QED  BY <1>1, <1>6 DEF ReportedOnce

(* A key that leaves the report while no modifier comes or goes is masked  *)
(* or locked by that call: otherwise it would be reported again.           *)
LEMMA SilencedStep ==
    ASSUME IInv, IInv', Remembers, Remembers', ReportedOnce, Silenced, [Next]_vars, Record
    PROVE  Silenced'
<1> DEFINE down == keyState \cap keyState'
           left == IF /\ output'.kind = "report"
                      /\ KeysOf(activeModifiers') = KeysOf(activeModifiers)
                   THEN previousKeyState \ output'.keys
                   ELSE {}
<1>1. /\ keyState' \cap stateMask' \subseteq stateMask
      /\ ReportedKeys' \subseteq stateMask \ lockMask
      /\ lockMask \cap keyState' \subseteq lockMask'
  BY ReportStep, LockStep DEF ReportedOnce
<1>2. /\ silenced' = (silenced \cup left) \cap down
      /\ resent' = silenced \cap down \cap ReportedKeys'
  BY DEF Record
<1>3. resent' = {}
  BY <1>1, <1>2 DEF Silenced
<1>4. ASSUME NEW k \in left, k \in keyState'
      PROVE  k \in stateMask' => k \in lockMask'
  <2>1. /\ output'.kind = "report"
        /\ KeysOf(activeModifiers') = KeysOf(activeModifiers)
        /\ k \in previousKeyState \ output'.keys
        /\ k \in stateMask
        /\ k \notin SpecialKeys(CurrentLayerIndex)
    BY <1>4 DEF IInv, MasksConsistent, Remembers, PreviousRegular
  <2>2. ASSUME NEW saved \in SUBSET Keys, Returned(saved)
        PROVE  k \in stateMask' => k \in lockMask'
    <3>1. ~ApplyUnchanged(saved)
      BY <2>1 DEF ApplyUnchanged, NoOutput
    <3>2. CASE ApplyKeys(saved)
      <4>1. /\ keyState' = saved
            /\ lockMask' = LockAfterRelease(saved)
        BY <3>2 DEF ApplyKeys
      <4>2. CASE PoppedLayers(saved) # {}
        BY <1>4, <2>1, <4>1, <4>2 DEF LockAfterRelease
      <4>3. CASE PoppedLayers(saved) = {}
        <5>1. PICK keys \in SUBSET Pressed(saved) :
                  /\ keys = Pressed(saved) \ SpecialKeys(LayerAfterRelease(saved))
                  /\ Agrees(saved, keys)
          BY <3>2, KeysCall
        <5>2. RemovedModifiers(saved) = {}
          <6>1. KeysOf(activeModifiers') = KeysOf(KeptModifiers(saved))
            <7>1. KeptModifiers(saved) \in Seq(ActiveModifier)
              BY AfterRelease DEF WellFormed
            <7>2. KeysOf(ClearLast(KeptModifiers(saved))) = KeysOf(KeptModifiers(saved))
              BY <7>1, TimersOnly DEF KeysOf
            <7> QED  BY <3>2, <7>2 DEF ApplyKeys
          <6>2. RemovedModifierKeys(saved) = {}
            <7>1. /\ KeysOf(activeModifiers)
                       = KeysOf(KeptModifiers(saved)) \cup RemovedModifierKeys(saved)
                  /\ KeysOf(KeptModifiers(saved)) \cap RemovedModifierKeys(saved) = {}
              BY KeptModifiersProperties DEF IInv, WellFormed
            <7> QED  BY <2>1, <6>1, <7>1
          <6> QED  BY <6>2 DEF RemovedModifierKeys
        <5>3. /\ HeldAfterRelease(saved) = saved
              /\ MaskAfterRelease(saved) = stateMask
              /\ LayerAfterRelease(saved) = CurrentLayerIndex
          BY <4>3, <5>2, NothingReleased, NoModifierRemoved
        <5>4. k \notin Pressed(saved)
          BY <2>1, <5>1, <5>3 DEF Agrees, NoOutput
        <5> QED  BY <1>4, <2>1, <4>1, <5>3, <5>4 DEF Pressed
      <4> QED  BY <4>2, <4>3
    <3>3. CASE \E j \in Pressed(saved) : ApplyLayer(saved, j)
      BY <1>4, <3>3 DEF ApplyLayer
    <3>4. ASSUME NEW j \in Pressed(saved), ApplyModifier(saved, j)
          PROVE  FALSE
      <4>1. j \in stateMask /\ KeptModifiers(saved) = activeModifiers
        BY <3>4, PushCall
      <4>2. j \notin KeysOf(activeModifiers)
        BY <4>1 DEF IInv, WellFormed, Masked
      <4> DEFINE n == Len(ClearLast(activeModifiers)) + 1
      <4>3. ClearLast(activeModifiers) \in Seq(ActiveModifier)
        BY ClearLastProperties DEF IInv, TypeOK
      <4>4. activeModifiers'[n].keyIndex = j /\ n \in DOMAIN activeModifiers'
        BY <3>4, <4>1, <4>3 DEF ApplyModifier
      <4>5. j \in KeysOf(activeModifiers')
        BY <4>4 DEF KeysOf
      <4> QED  BY <2>1, <4>2, <4>5
    <3> QED  BY <2>2, <3>1, <3>2, <3>3, <3>4 DEF Returned
  <2>3. ~(\E saved \in SUBSET Keys : \E j : ApplyCancelled(saved, j))
    BY <2>1 DEF ApplyCancelled, NoOutput
  <2>4. ~Tick /\ ~Reset
    BY <2>1 DEF Tick, Reset, NoOutput, NotCalled
  <2>5. ~(UNCHANGED <<keyState, activeLayers, activeModifiers, previousKeyState,
                      stateMask, lockMask, output>>)
    BY <2>1 DEF Remembers, ReportRemembered
  <2> QED  BY <2>2, <2>3, <2>4, <2>5, StepCases
<1>5. silenced' \cap stateMask' \subseteq lockMask'
  BY <1>1, <1>2, <1>4 DEF Silenced
<1> QED  BY <1>2, <1>3, <1>5 DEF Silenced

(* What the history variables have to do with the masks and the stacks.    *)
HistoryInv == Remembers /\ ReportedOnce /\ Silenced

(* It holds at the start.                                                  *)
LEMMA HistoryInvInit == HostInit => HistoryInv
<1> SUFFICES ASSUME HostInit PROVE HistoryInv
  OBVIOUS
<1>1. Remembers
  BY RemembersInit DEF HostInit
<1>2. 0 \in LayerIndices
  BY LayerCountAssumption DEF LayerIndices
<1>3. ReportedOnce
  BY <1>2 DEF HostInit, Init, NoHistory, NotCalled, ReportedOnce, ReportedKeys
<1>4. Silenced
  BY DEF HostInit, NoHistory, Silenced
<1> QED  BY <1>1, <1>3, <1>4 DEF HistoryInv

(* Each step of the keyboard with its host keeps it.                       *)
LEMMA HistoryInvStep ==
    IInv /\ IInv' /\ HistoryInv /\ [HostNext]_allVars => HistoryInv'
<1> SUFFICES ASSUME IInv, IInv', HistoryInv, [HostNext]_allVars
             PROVE  HistoryInv'
  OBVIOUS
<1>1. CASE HostNext
  <2>1. [Next]_vars /\ Record
    BY <1>1, HostStep DEF HostNext
  <2>2. Remembers'
    BY <2>1, RemembersStep DEF HistoryInv
  <2> QED  BY <2>1, <2>2, ReportedOnceStep, SilencedStep DEF HistoryInv
<1>2. CASE UNCHANGED allVars
  BY <1>2 DEF allVars, vars, historyVars, HistoryInv, Remembers, ReportRemembered,
              PreviousRegular, ReportedOnce, Silenced, ReportedKeys, CurrentLayerIndex
<1> QED  BY <1>1, <1>2

(* The key handling's invariant, and what the last report says of it, hold *)
(* of the keyboard with its host.                                          *)
THEOREM HostInvariance == HostSpec => [](IInv /\ HistoryInv)
<1>1. HostSpec => []IInv
  BY HostRunsMasterState, Invariance, PTL
<1> QED  BY <1>1, HistoryInvInit, HistoryInvStep, PTL DEF HostSpec

(* While a key stays down it is reported from one layer only, on every key *)
(* map: what is typed does not change meaning under the finger.            *)
THEOREM ReportedFromOneLayer == HostSpec => []OneLayerPerPress
<1>1. HistoryInv => OneLayerPerPress
  <2> SUFFICES ASSUME HistoryInv, NEW k \in Keys
               PROVE  Cardinality(reportedOn[k]) <= 1
    BY DEF OneLayerPerPress
  <2>1. PICK l \in LayerIndices : reportedOn[k] \subseteq {l}
    BY DEF HistoryInv, ReportedOnce
  <2>2. CASE reportedOn[k] = {}
    <3>1. Cardinality(reportedOn[k]) = 0
      BY <2>2, FS_EmptySet
    <3> QED  BY <3>1
  <2>3. CASE reportedOn[k] = {l}
    <3>1. Cardinality(reportedOn[k]) = 1
      BY <2>3, FS_Singleton
    <3> QED  BY <3>1
  <2> QED  BY <2>1, <2>2, <2>3
<1> QED  BY <1>1, HostInvariance, PTL

(* A held key that left the report while the modifiers stayed as they were *)
(* never comes back before it is pressed anew.                             *)
THEOREM SilencedStaysSilent == HostSpec => []SilencedStaySilent
<1>1. HistoryInv => SilencedStaySilent
  BY DEF HistoryInv, Silenced, SilencedStaySilent
<1> QED  BY <1>1, HostInvariance, PTL

-----------------------------------------------------------------------------
(* Tap actions, on a key map like the Butterboard's.                       *)

(* A pending tap is that of a key that went down on the base layer, with   *)
(* nothing but the base layer below it.                                    *)
PendingOnBase(layers, modifiers) ==
    /\ \A i \in DOMAIN layers :
          IsPending(layers[i]) =>
              /\ layers[i].keyIndex \in HoldTapKeys(0)
              /\ pushedOn[layers[i].keyIndex] = 0
              /\ i = 1 \/ layers[i - 1].layerIndex = 0
    /\ \A i \in DOMAIN modifiers :
          IsPending(modifiers[i]) =>
              /\ modifiers[i].keyIndex \in HoldTapKeys(0)
              /\ pushedOn[modifiers[i].keyIndex] = 0
              /\ LayerOf(layers) = 0

InjectedOnBase ==
    output.kind = "report" =>
        \A k \in output.injected : /\ output.layer = 0
                                   /\ k \in HoldTapKeys(0)
                                   /\ pushedOn[k] = 0

BaseTaps == PendingOnBase(activeLayers, activeModifiers) /\ InjectedOnBase

(* Below a layer that is the base layer all are: no other layer leads back *)
(* to the base.                                                            *)
LEMMA BaseBelow ==
    ASSUME TapsFromBase, NEW layers \in Seq(ActiveLayer), Chained(layers),
           NEW n \in DOMAIN layers, layers[n].layerIndex = 0,
           NEW i \in 1 .. n
    PROVE  layers[i].layerIndex = 0
<1> SUFFICES ASSUME layers[i].layerIndex # 0 PROVE FALSE
  OBVIOUS
<1> DEFINE J == {j \in 0 .. n - 1 : layers[n - j].layerIndex # 0}
<1>1. DOMAIN layers = 1 .. Len(layers) /\ Len(layers) \in Nat /\ n \in Nat \ {0}
  BY LenProperties
<1>2. \E j \in J : \A m \in J : j <= m
  <2>1. n - i \in J /\ n - (n - i) = i
    BY <1>1
  <2>2. J \in SUBSET (0 .. n - 1) /\ IsFiniteSet(0 .. n - 1)
    <3>1. IsFiniteSet(0 .. n - 1)
      BY <1>1, FS_Interval
    <3> QED  BY <3>1
  <2>3. J \in SUBSET Int
    BY <1>1
  <2> HIDE DEF J
  <2>4. IsFiniteSet(J)
    BY <2>2, FS_Subset
  <2> QED  BY <2>1, <2>3, <2>4, LeastElement
<1>3. PICK j \in J : \A m \in J : j <= m
  BY <1>2
<1> DEFINE m == n - j
<1>4. j # 0
  BY <1>1, <1>3
<1>5. m \in 1 .. n - 1 /\ layers[m].layerIndex # 0
  BY <1>1, <1>3, <1>4
<1>6. layers[m + 1].layerIndex = 0
  <2>1. j - 1 \in 0 .. n - 1 /\ ~(j <= j - 1) /\ n - (j - 1) = m + 1
    BY <1>1, <1>3, <1>4
  <2>2. j - 1 \notin J
    BY <1>3, <2>1
  <2> QED  BY <2>1, <2>2
<1>7. m \in DOMAIN layers /\ m + 1 \in DOMAIN layers /\ m + 1 # 1 /\ (m + 1) - 1 = m
  BY <1>1, <1>5
<1> DEFINE l == layers[m].layerIndex
           k == layers[m + 1].keyIndex
<1>8. LayerLookup[l][k].hold.kind = "layer" /\ LayerLookup[l][k].hold.layer = 0
  BY <1>6, <1>7 DEF Chained
<1>9. layers[m] \in ActiveLayer /\ layers[m + 1] \in ActiveLayer
  BY <1>7, ElementOfSeq
<1>10. l \in LayerIndices \ {0} /\ k \in Keys
  BY <1>5, <1>9 DEF ActiveLayer
<1> QED  BY <1>8, <1>10 DEF TapsFromBase, LayerKeys

(* What the pops and removals leave: a tap that is due leaves the base     *)
(* layer current, and one that stays pending was pending on it.            *)
LEMMA ReleaseOnBase ==
    ASSUME TapsFromBase, IInv, PendingOnBase(activeLayers, activeModifiers),
           NEW saved \in SUBSET Keys
    PROVE  /\ Injected(saved) # {} => LayerAfterRelease(saved) = 0
           /\ \A k \in Injected(saved) :
                 /\ k \in HoldTapKeys(0)
                 /\ pushedOn[k] = 0
                 /\ k \in KeysOf(activeLayers) \cup KeysOf(activeModifiers)
           /\ PendingOnBase(KeptLayers(saved), KeptModifiers(saved))
           /\ KeysOf(KeptLayers(saved)) \subseteq KeysOf(activeLayers)
           /\ KeysOf(KeptModifiers(saved)) \subseteq KeysOf(activeModifiers)
<1> DEFINE L == Len(activeLayers)
           d == KeptDepth(saved)
<1>1. /\ activeLayers \in Seq(ActiveLayer) /\ Chained(activeLayers)
      /\ activeModifiers \in Seq(ActiveModifier)
      /\ PendingOf(activeLayers) \subseteq {L}
      /\ L \in Nat /\ DOMAIN activeLayers = 1 .. L
      /\ Distinct(activeLayers)
      /\ Masked(activeLayers, activeModifiers, stateMask)
  BY LenProperties DEF IInv, WellFormed, PendingLast, Masked
<1>2. /\ Len(KeptLayers(saved)) = d
      /\ DOMAIN KeptLayers(saved) = 1 .. d
      /\ \A i \in 1 .. d : KeptLayers(saved)[i] = activeLayers[i]
      /\ d \in 0 .. L
  BY <1>1, KeptLayersProperties, KeptDepthProperties
<1>3. KeptLayers(saved) = << >> <=> d = 0
  BY <1>2, AfterRelease, EmptySeq DEF WellFormed
<1>4. LayerAfterRelease(saved) = IF d = 0 THEN 0 ELSE activeLayers[d].layerIndex
  BY <1>2, <1>3 DEF LayerAfterRelease, LayerOf
<1>5. ASSUME NEW i \in DOMAIN activeLayers, IsPending(activeLayers[i])
      PROVE  d < L => LayerAfterRelease(saved) = 0
  <2>1. i = L
    BY <1>1, <1>5 DEF PendingOf
  <2>2. SUFFICES ASSUME d < L, d # 0 PROVE activeLayers[d].layerIndex = 0
    BY <1>4
  <2>3. L - 1 \in DOMAIN activeLayers /\ d \in 1 .. L - 1 /\ L # 1
    BY <1>1, <1>2, <2>2
  <2>4. activeLayers[L - 1].layerIndex = 0
    BY <1>5, <2>1, <2>3 DEF PendingOnBase
  <2> QED  BY <1>1, <2>3, <2>4, BaseBelow
<1>6. ASSUME NEW i \in DOMAIN activeModifiers, IsPending(activeModifiers[i])
      PROVE  LayerAfterRelease(saved) = 0
  <2>1. LayerOf(activeLayers) = 0
    BY <1>6 DEF PendingOnBase
  <2>2. SUFFICES ASSUME d # 0 PROVE activeLayers[d].layerIndex = 0
    BY <1>4
  <2>3. L \in DOMAIN activeLayers /\ d \in 1 .. L
    BY <1>1, <1>2, <2>2
  <2>4. activeLayers[L].layerIndex = 0
    BY <1>1, <2>1, <2>3 DEF LayerOf
  <2> QED  BY <1>1, <2>3, <2>4, BaseBelow
<1>7. Injected(saved) # {} => LayerAfterRelease(saved) = 0
  <2>1. ASSUME NEW i \in PoppedLayers(saved), InTapTime(activeLayers[i])
        PROVE  LayerAfterRelease(saved) = 0
    <3>1. i \in DOMAIN activeLayers /\ d < L
      BY <1>1, <1>2, <2>1 DEF PoppedLayers
    <3> QED  BY <1>5, <2>1, <3>1 DEF InTapTime
  <2>2. ASSUME NEW i \in RemovedModifiers(saved), InTapTime(activeModifiers[i])
        PROVE  LayerAfterRelease(saved) = 0
    BY <1>6, <2>2 DEF InTapTime, RemovedModifiers
  <2> QED  BY <2>1, <2>2 DEF Injected
<1>8. ASSUME NEW k \in Injected(saved)
      PROVE  /\ k \in HoldTapKeys(0)
             /\ pushedOn[k] = 0
             /\ k \in KeysOf(activeLayers) \cup KeysOf(activeModifiers)
  <2>1. ASSUME NEW i \in PoppedLayers(saved), InTapTime(activeLayers[i]),
               k = activeLayers[i].keyIndex
        PROVE  /\ k \in HoldTapKeys(0)
               /\ pushedOn[k] = 0
               /\ k \in KeysOf(activeLayers)
    <3>1. i \in DOMAIN activeLayers
      BY <1>1, <1>2 DEF PoppedLayers
    <3> QED  BY <2>1, <3>1 DEF PendingOnBase, InTapTime, KeysOf
  <2>2. ASSUME NEW i \in RemovedModifiers(saved), InTapTime(activeModifiers[i]),
               k = activeModifiers[i].keyIndex
        PROVE  /\ k \in HoldTapKeys(0)
               /\ pushedOn[k] = 0
               /\ k \in KeysOf(activeModifiers)
    BY <2>2 DEF PendingOnBase, InTapTime, KeysOf, RemovedModifiers
  <2> QED  BY <2>1, <2>2 DEF Injected
<1>9. PendingOnBase(KeptLayers(saved), KeptModifiers(saved))
  <2>1. ASSUME NEW i \in DOMAIN KeptLayers(saved), IsPending(KeptLayers(saved)[i])
        PROVE  /\ KeptLayers(saved)[i].keyIndex \in HoldTapKeys(0)
               /\ pushedOn[KeptLayers(saved)[i].keyIndex] = 0
               /\ i = 1 \/ KeptLayers(saved)[i - 1].layerIndex = 0
    <3>1. /\ i \in DOMAIN activeLayers
          /\ i # 1 => i - 1 \in 1 .. d
          /\ KeptLayers(saved)[i] = activeLayers[i]
      BY <1>1, <1>2
    <3> QED  BY <1>2, <2>1, <3>1 DEF PendingOnBase
  <2>2. ASSUME NEW r \in DOMAIN KeptModifiers(saved), IsPending(KeptModifiers(saved)[r])
        PROVE  /\ KeptModifiers(saved)[r].keyIndex \in HoldTapKeys(0)
               /\ pushedOn[KeptModifiers(saved)[r].keyIndex] = 0
               /\ LayerOf(KeptLayers(saved)) = 0
    <3>1. PICK i \in DOMAIN activeModifiers : KeptModifiers(saved)[r] = activeModifiers[i]
      BY <1>1, KeptModifiersEntries
    <3> QED  BY <1>6, <2>2, <3>1 DEF PendingOnBase, LayerAfterRelease
  <2> QED  BY <2>1, <2>2 DEF PendingOnBase
<1>10. /\ KeysOf(KeptLayers(saved)) \subseteq KeysOf(activeLayers)
       /\ KeysOf(KeptModifiers(saved)) \subseteq KeysOf(activeModifiers)
  BY <1>1, PoppedKeysProperties, KeptModifiersProperties
<1> QED  BY <1>7, <1>8, <1>9, <1>10

(* What a step leaves on the stacks was pending before, or was pushed by   *)
(* it from the base layer; what it reports as a tap was pending.           *)
LEMMA BaseTapsStep ==
    ASSUME TapsFromBase, IInv, IInv', Remembers', BaseTaps, [Next]_vars, Record
    PROVE  BaseTaps'
<1> DEFINE old == KeysOf(activeLayers) \cup KeysOf(activeModifiers)
           new == KeysOf(activeLayers') \cup KeysOf(activeModifiers')
<1>1. /\ activeLayers \in Seq(ActiveLayer) /\ activeModifiers \in Seq(ActiveModifier)
      /\ old \subseteq Keys
  BY KeysOfType DEF IInv, TypeOK
<1>2. /\ \A k \in old : pushedOn'[k] = pushedOn[k]
      /\ \A k \in Keys : k \notin new => pushedOn'[k] = pushedOn[k]
      /\ \A k \in Keys : k \in new \ old => pushedOn'[k] = LayerAfterRelease(keyState')
  BY <1>1 DEF Record
<1>3. ASSUME NEW layers, NEW modifiers,
             KeysOf(layers) \subseteq old, KeysOf(modifiers) \subseteq old,
             PendingOnBase(layers, modifiers),
             activeLayers' = layers, activeModifiers' = modifiers
      PROVE  PendingOnBase(activeLayers, activeModifiers)'
  <2>1. /\ \A i \in DOMAIN layers : layers[i].keyIndex \in old
        /\ \A i \in DOMAIN modifiers : modifiers[i].keyIndex \in old
    BY <1>3 DEF KeysOf
  <2> QED  BY <1>2, <1>3, <2>1 DEF PendingOnBase
<1>4. ASSUME NEW layers, NEW modifiers, NoPending(layers, modifiers),
             activeLayers' = layers, activeModifiers' = modifiers
      PROVE  PendingOnBase(activeLayers, activeModifiers)'
  BY <1>4 DEF NoPending, PendingOf, PendingOnBase
<1>5. ASSUME NEW saved \in SUBSET Keys
      PROVE  /\ WellFormed(KeptLayers(saved), KeptModifiers(saved),
                           MaskAfterRelease(saved), saved)
             /\ NoPending(ClearLast(KeptLayers(saved)), ClearLast(KeptModifiers(saved)))
             /\ LayerOf(ClearLast(KeptLayers(saved))) = LayerAfterRelease(saved)
  <2>1. WellFormed(KeptLayers(saved), KeptModifiers(saved), MaskAfterRelease(saved), saved)
    BY AfterRelease
  <2> QED  BY <2>1, ClearedWellFormed, TimersOnly DEF WellFormed, LayerAfterRelease
<1>6. ASSUME NEW saved \in SUBSET Keys, Returned(saved)
      PROVE  BaseTaps'
  <2>1. /\ Injected(saved) # {} => LayerAfterRelease(saved) = 0
        /\ \A k \in Injected(saved) : k \in HoldTapKeys(0) /\ pushedOn[k] = 0 /\ k \in old
        /\ PendingOnBase(KeptLayers(saved), KeptModifiers(saved))
        /\ KeysOf(KeptLayers(saved)) \subseteq old
        /\ KeysOf(KeptModifiers(saved)) \subseteq old
    BY ReleaseOnBase DEF BaseTaps
  <2>2. CASE ApplyUnchanged(saved)
    <3>1. activeLayers' = KeptLayers(saved) /\ activeModifiers' = KeptModifiers(saved)
      BY <2>2 DEF ApplyUnchanged
    <3>2. InjectedOnBase'
      BY <2>2 DEF ApplyUnchanged, NoOutput, InjectedOnBase
    <3> QED  BY <1>3, <2>1, <3>1, <3>2 DEF BaseTaps
  <2>3. CASE ApplyKeys(saved)
    <3>1. PICK keys : /\ Agrees(saved, keys)
                      /\ keys = {} => /\ activeLayers' = KeptLayers(saved)
                                      /\ activeModifiers' = KeptModifiers(saved)
                      /\ keys # {} => /\ activeLayers' = ClearLast(KeptLayers(saved))
                                      /\ activeModifiers' = ClearLast(KeptModifiers(saved))
      <4> DEFINE keys == Pressed(saved) \ ReachedSpecialKeys(saved)
      <4>1. Agrees(saved, keys)
        BY <2>3, ReturnAgrees DEF ApplyKeys
      <4> QED  BY <2>3, <4>1 DEF ApplyKeys
    <3>2. PendingOnBase(activeLayers, activeModifiers)'
      BY <1>3, <1>4, <1>5, <2>1, <3>1
    <3>3. CurrentLayerIndex' = LayerAfterRelease(saved)
      BY <1>5, <3>1 DEF CurrentLayerIndex, LayerAfterRelease
    <3>4. output'.kind = "report" => output'.layer = CurrentLayerIndex'
                                     /\ output'.injected = Injected(saved)
      BY <3>1 DEF Agrees, NoOutput
    <3>5. InjectedOnBase'
      BY <1>2, <2>1, <3>3, <3>4 DEF InjectedOnBase
    <3> QED  BY <3>2, <3>5 DEF BaseTaps
  <2>4. ASSUME NEW k \in Pressed(saved), ApplyLayer(saved, k) \/ ApplyModifier(saved, k)
        PROVE  BaseTaps'
    <3> DEFINE l == LayerAfterRelease(saved)
               layers == ClearLast(KeptLayers(saved))
               modifiers == ClearLast(KeptModifiers(saved))
    <3>1. /\ Agrees(saved, {}) /\ Injected(saved) = {}
          /\ k \in stateMask /\ k \in Keys
      BY <2>4, PushCall
    <3>2. InjectedOnBase'
      BY <3>1 DEF Agrees, NoOutput, InjectedOnBase
    <3>3. /\ layers \in Seq(ActiveLayer) /\ modifiers \in Seq(ActiveModifier)
          /\ Len(layers) \in Nat /\ Len(modifiers) \in Nat
          /\ PendingOf(layers) = {} /\ PendingOf(modifiers) = {}
          /\ LayerOf(layers) = l
      BY <1>5, ClearLastProperties DEF WellFormed, NoPending
    <3>4. k \notin old /\ keyState' = saved
      BY <2>4, <3>1 DEF IInv, WellFormed, Masked, ApplyLayer, ApplyModifier
    <3>5. k \in new => pushedOn'[k] = l
      BY <1>2, <3>1, <3>4
    <3>6. l \in LayerIndices
      BY <1>5, LayerOfType DEF WellFormed, LayerAfterRelease
    <3>7. TimerFor(l, k) # NoTimer => k \in HoldTapKeys(0) /\ l = 0
      BY <3>6 DEF TimerFor, TapsFromBase
    <3>8. CASE ApplyLayer(saved, k)
      <4> DEFINE e == [layerIndex |-> LayerLookup[l][k].hold.layer,
                       keyIndex |-> k, tapTimer |-> TimerFor(l, k)]
                 n == Len(layers) + 1
      <4>1. activeLayers' = Append(layers, e) /\ activeModifiers' = modifiers
        BY <3>8 DEF ApplyLayer
      <4>2. /\ DOMAIN activeLayers' = 1 .. n /\ activeLayers'[n] = e
            /\ \A i \in 1 .. n - 1 : activeLayers'[i] = layers[i] /\ i \in DOMAIN layers
        BY <3>3, <4>1
      <4>3. k \in new
        <5>1. n \in DOMAIN activeLayers' /\ activeLayers'[n].keyIndex = k
          BY <3>3, <4>2
        <5> QED  BY <5>1 DEF KeysOf
      <4>4. n = 1 \/ (n - 1 \in 1 .. n - 1 /\ layers[n - 1].layerIndex = l)
        BY <3>3 DEF LayerOf
      <4>5. ASSUME NEW i \in DOMAIN activeLayers', IsPending(activeLayers'[i])
            PROVE  i = n /\ TimerFor(l, k) # NoTimer
        <5>1. i \notin 1 .. n - 1
          BY <3>3, <4>2, <4>5 DEF PendingOf
        <5>2. i = n
          BY <3>3, <4>2, <5>1
        <5> QED  BY <4>2, <4>5, <5>2 DEF IsPending
      <4>6. PendingOnBase(activeLayers, activeModifiers)'
        BY <3>3, <3>5, <3>7, <4>1, <4>2, <4>3, <4>4, <4>5 DEF PendingOnBase, PendingOf
      <4> QED  BY <3>2, <4>6 DEF BaseTaps
    <3>9. CASE ApplyModifier(saved, k)
      <4> DEFINE e == [value |-> LayerLookup[l][k].hold.value,
                       keyIndex |-> k, tapTimer |-> TimerFor(l, k)]
                 n == Len(modifiers) + 1
      <4>1. activeModifiers' = Append(modifiers, e) /\ activeLayers' = layers
        BY <3>9 DEF ApplyModifier
      <4>2. /\ DOMAIN activeModifiers' = 1 .. n /\ activeModifiers'[n] = e
            /\ \A i \in 1 .. n - 1 : activeModifiers'[i] = modifiers[i] /\ i \in DOMAIN modifiers
        BY <3>3, <4>1
      <4>3. k \in new
        <5>1. n \in DOMAIN activeModifiers' /\ activeModifiers'[n].keyIndex = k
          BY <3>3, <4>2
        <5> QED  BY <5>1 DEF KeysOf
      <4>5. ASSUME NEW i \in DOMAIN activeModifiers', IsPending(activeModifiers'[i])
            PROVE  i = n /\ TimerFor(l, k) # NoTimer
        <5>1. i \notin 1 .. n - 1
          BY <3>3, <4>2, <4>5 DEF PendingOf
        <5>2. i = n
          BY <3>3, <4>2, <5>1
        <5> QED  BY <4>2, <4>5, <5>2 DEF IsPending
      <4>6. PendingOnBase(activeLayers, activeModifiers)'
        BY <3>3, <3>5, <3>7, <4>1, <4>2, <4>3, <4>5 DEF PendingOnBase, PendingOf
      <4> QED  BY <3>2, <4>6 DEF BaseTaps
    <3> QED  BY <2>4, <3>8, <3>9
  <2> QED  BY <1>6, <2>2, <2>3, <2>4 DEF Returned
<1>7. ASSUME NEW saved \in SUBSET Keys, NEW k, ApplyCancelled(saved, k)
      PROVE  BaseTaps'
  <2>1. /\ activeLayers' = activeLayers /\ activeModifiers' = activeModifiers
        /\ output' = NoOutput
    BY <1>7, CancelledCall
  <2>2. PendingOnBase(activeLayers, activeModifiers)'
    BY <1>3, <2>1 DEF BaseTaps
  <2> QED  BY <2>1, <2>2 DEF BaseTaps, InjectedOnBase, NoOutput
<1>8. CASE Tick
  <2>1. activeLayers' = Aged(activeLayers) /\ activeModifiers' = Aged(activeModifiers)
    BY <1>8 DEF Tick
  <2>2. /\ SameKeys(Aged(activeLayers), activeLayers)
        /\ SameLayers(Aged(activeLayers), activeLayers)
        /\ PendingOf(Aged(activeLayers)) = PendingOf(activeLayers)
        /\ Aged(activeLayers) \in Seq(ActiveLayer)
        /\ SameKeys(Aged(activeModifiers), activeModifiers)
        /\ PendingOf(Aged(activeModifiers)) = PendingOf(activeModifiers)
        /\ Aged(activeModifiers) \in Seq(ActiveModifier)
        /\ LayerOf(Aged(activeLayers)) = LayerOf(activeLayers)
    BY <1>1, AgedProperties, TimersOnly
  <2>3. /\ DOMAIN Aged(activeLayers) = 1 .. Len(activeLayers)
        /\ DOMAIN activeLayers = 1 .. Len(activeLayers)
        /\ DOMAIN Aged(activeModifiers) = 1 .. Len(activeModifiers)
        /\ DOMAIN activeModifiers = 1 .. Len(activeModifiers)
        /\ Len(activeLayers) \in Nat
    BY <1>1, <2>2, LenProperties DEF SameKeys
  <2>4. /\ KeysOf(Aged(activeLayers)) \subseteq old
        /\ KeysOf(Aged(activeModifiers)) \subseteq old
    BY <2>2, <2>3 DEF KeysOf, SameKeys
  <2>5. PendingOnBase(Aged(activeLayers), Aged(activeModifiers))
    <3>1. ASSUME NEW i \in DOMAIN Aged(activeLayers), IsPending(Aged(activeLayers)[i])
          PROVE  /\ Aged(activeLayers)[i].keyIndex \in HoldTapKeys(0)
                 /\ pushedOn[Aged(activeLayers)[i].keyIndex] = 0
                 /\ i = 1 \/ Aged(activeLayers)[i - 1].layerIndex = 0
      <4>1. /\ i \in 1 .. Len(activeLayers)
            /\ i # 1 => i - 1 \in 1 .. Len(activeLayers)
        BY <2>3
      <4>2. IsPending(activeLayers[i])
        BY <2>2, <3>1 DEF PendingOf
      <4> QED  BY <2>2, <2>3, <4>1, <4>2 DEF BaseTaps, PendingOnBase, SameKeys, SameLayers
    <3>2. ASSUME NEW i \in DOMAIN Aged(activeModifiers), IsPending(Aged(activeModifiers)[i])
          PROVE  /\ Aged(activeModifiers)[i].keyIndex \in HoldTapKeys(0)
                 /\ pushedOn[Aged(activeModifiers)[i].keyIndex] = 0
                 /\ LayerOf(Aged(activeLayers)) = 0
      <4>1. IsPending(activeModifiers[i])
        BY <2>2, <3>2 DEF PendingOf
      <4> QED  BY <2>2, <2>3, <4>1 DEF BaseTaps, PendingOnBase, SameKeys
    <3> QED  BY <3>1, <3>2 DEF PendingOnBase
  <2>6. PendingOnBase(activeLayers, activeModifiers)'
    BY <1>3, <2>1, <2>4, <2>5
  <2> QED  BY <1>8, <2>6 DEF BaseTaps, InjectedOnBase, Tick, NoOutput
<1>9. CASE Reset
  BY <1>9 DEF Reset, BaseTaps, PendingOnBase, InjectedOnBase, NotCalled
<1>10. CASE UNCHANGED <<keyState, activeLayers, activeModifiers, previousKeyState,
                        stateMask, lockMask, output>>
  <2>1. PendingOnBase(activeLayers, activeModifiers)'
    BY <1>3, <1>10 DEF BaseTaps
  <2>2. InjectedOnBase'
    BY <1>2, <1>10 DEF BaseTaps, InjectedOnBase, HoldTapKeys, HoldKeys
  <2> QED  BY <2>1, <2>2 DEF BaseTaps
<1> QED  BY <1>6, <1>7, <1>8, <1>9, <1>10, StepCases

(* With taps on the base layer only, every tap that is due is one of a key *)
(* that was pressed on the base layer, and the report names that layer.    *)
THEOREM TapsAreOnBase == ASSUME TapsFromBase PROVE HostSpec => []InjectedOnBase
<1>1. HostInit => BaseTaps
  BY DEF HostInit, Init, NotCalled, BaseTaps, PendingOnBase, InjectedOnBase
<1>2. IInv /\ IInv' /\ HistoryInv' /\ BaseTaps /\ [HostNext]_allVars => BaseTaps'
  <2> SUFFICES ASSUME IInv, IInv', HistoryInv', BaseTaps, [HostNext]_allVars
               PROVE  BaseTaps'
    OBVIOUS
  <2>1. CASE HostNext
    BY <2>1, HostStep, BaseTapsStep DEF HostNext, HistoryInv
  <2>2. CASE UNCHANGED allVars
    BY <2>2 DEF allVars, vars, historyVars, BaseTaps, PendingOnBase, InjectedOnBase
  <2> QED  BY <2>1, <2>2
<1>3. BaseTaps => InjectedOnBase
  BY DEF BaseTaps
<1> QED  BY <1>1, <1>2, <1>3, HostInvariance, PTL DEF HostSpec

(* A tap executes the tap action of the mapping that pushed its key.       *)
THEOREM TapsFromTheirLayer ==
    ASSUME TapsFromBase PROVE HostSpec => []TapFromItsLayer
<1>1. InjectedOnBase => TapFromItsLayer
  BY DEF InjectedOnBase, TapFromItsLayer
<1> QED  BY <1>1, TapsAreOnBase, PTL

(* Where hold keys tap key codes only, every tap that is due is sent.      *)
THEOREM TapsAreExecuted ==
    ASSUME TapsFromBase, TapsAreKeycodes PROVE HostSpec => []TapExecuted
<1>1. InjectedOnBase => TapExecuted
  <2>1. 0 \in LayerIndices
    BY LayerCountAssumption DEF LayerIndices
  <2> QED  BY <2>1 DEF InjectedOnBase, TapExecuted, TapsAreKeycodes
<1> QED  BY <1>1, TapsAreOnBase, PTL

-----------------------------------------------------------------------------
(* The report.                                                             *)

(* A finite set of numbers whose every element counts at most b is no      *)
(* larger than b: its greatest element counts them all.                    *)
LEMMA CountedBound ==
    ASSUME NEW I \in SUBSET Int, IsFiniteSet(I), NEW b \in Nat,
           \A i \in I : Rank(I, i) <= b
    PROVE  Cardinality(I) <= b
<1> DEFINE n == Cardinality(I)
<1>1. n \in Nat
  BY FS_CardinalityType
<1>2. CASE n = 0
  BY <1>2
<1>3. CASE n # 0
  <2>1. n \in 1 .. Cardinality(I)
    BY <1>1, <1>3
  <2>2. Nth(I, n) \in I /\ Rank(I, Nth(I, n)) = n
    BY <2>1, NthProperties
  <2> QED  BY <2>2
<1> QED  BY <1>2, <1>3

(* A report is of its type and has room for its codes, whatever keys and   *)
(* modifiers it is made of.                                                *)
LEMMA InputReportType ==
    ASSUME NEW stack \in Seq(ActiveModifier), NEW layer \in LayerIndices,
           NEW keys \in SUBSET Keys
    PROVE  /\ InputReport(stack, layer, keys).modifiers \in Modifiers
           /\ InputReport(stack, layer, keys).codes \subseteq Keycodes \cup {ErrOvf}
           /\ Cardinality(InputReport(stack, layer, keys).codes) <= ReportSlots
<1> DEFINE all == KeysWithCode(layer, keys)
           sent == FirstKeys(all)
           codes == {LayerLookup[layer][k].tap.code : k \in all}
<1>1. all \in SUBSET Keys /\ sent \in SUBSET all
  BY DEF KeysWithCode, FirstKeys
<1>2. \A k \in all : /\ LayerLookup[layer][k].tap.code \in Keycodes
                     /\ LayerLookup[layer][k].tap.modifiers \in Modifiers
  <2> SUFFICES ASSUME NEW k \in all
               PROVE  /\ LayerLookup[layer][k].tap.code \in Keycodes
                      /\ LayerLookup[layer][k].tap.modifiers \in Modifiers
    OBVIOUS
  <2>1. k \in Keys /\ LayerLookup[layer][k].tap.kind = "keycode"
    BY DEF KeysWithCode
  <2>2. LayerLookup[layer][k].tap \in TapActions
    BY <2>1, LayerLookupAssumption DEF Mappings
  <2> QED  BY <2>1, <2>2 DEF TapActions, NoTap, Keycode, Special
<1>3. InputReport(stack, layer, keys).modifiers \in Modifiers
  <2>1. ReportedModifiers(stack) \in Modifiers
    <3>1. \A i \in DOMAIN stack : stack[i].value \in Modifiers
      <4>1. \A i \in DOMAIN stack : stack[i] \in ActiveModifier
        BY ElementOfSeq
      <4> QED  BY <4>1 DEF ActiveModifier
    <3> QED  BY <3>1 DEF ReportedModifiers, Modifiers
  <2>2. UNION {LayerLookup[layer][k].tap.modifiers : k \in sent} \in Modifiers
    BY <1>1, <1>2 DEF Modifiers
  <2> HIDE DEF sent, all
  <2>3. InputReport(stack, layer, keys).modifiers
           = ReportedModifiers(stack)
                \cup UNION {LayerLookup[layer][k].tap.modifiers : k \in sent}
    BY DEF InputReport, sent, all
  <2> QED  BY <2>1, <2>2, <2>3 DEF Modifiers
<1>4. CASE sent = all
  <2>1. InputReport(stack, layer, keys).codes = codes
    BY <1>4 DEF InputReport
  <2>2. IsFiniteSet(all)
    <3>1. IsFiniteSet(0 .. KeysTotal - 1)
      BY KeysTotalAssumption, FS_Interval
    <3> QED  BY <1>1, <3>1, FS_Subset DEF Keys
  <2>3. Cardinality(all) <= ReportSlots
    <3>1. \A k \in all : Rank(all, k) <= ReportSlots
      BY <1>4 DEF FirstKeys, Rank
    <3>2. all \in SUBSET Int
      BY <1>1, KeysTotalAssumption DEF Keys
    <3> HIDE DEF all
    <3> QED  BY <2>2, <3>1, <3>2, CountedBound, ReportSlotsAssumption
  <2>4. IsFiniteSet(codes) /\ Cardinality(codes) <= Cardinality(all)
    <3> DEFINE f == [k \in all |-> LayerLookup[layer][k].tap.code]
    <3>1. f \in Surjection(all, codes)
      <4> HIDE DEF all
      <4> QED  BY DEF Surjection
    <3> HIDE DEF f, codes, all
    <3> QED  BY <2>2, <3>1, FS_Surjection
  <2>5. Cardinality(codes) \in Nat /\ Cardinality(all) \in Nat
    <3> HIDE DEF codes, all
    <3> QED  BY <2>2, <2>4, FS_CardinalityType
  <2>6. codes \subseteq Keycodes
    BY <1>2
  <2> HIDE DEF codes, all
  <2> QED  BY <1>3, <2>1, <2>3, <2>4, <2>5, <2>6, ReportSlotsAssumption
<1>5. CASE sent # all
  <2>1. InputReport(stack, layer, keys).codes = {ErrOvf}
    BY <1>5 DEF InputReport
  <2>2. Cardinality({ErrOvf}) = 1
    BY FS_Singleton
  <2> QED  BY <1>3, <2>1, <2>2, ReportSlotsAssumption
<1> QED  BY <1>4, <1>5

(* The report a host starts with is well-formed.                           *)
LEMMA NothingPressedType ==
    /\ NothingPressed.modifiers \in Modifiers
    /\ NothingPressed.codes \subseteq Keycodes \cup {ErrOvf}
    /\ Cardinality(NothingPressed.codes) <= ReportSlots
    /\ 0 \in 0 .. NotifyQueue
<1>1. NothingPressed.codes = {} /\ NothingPressed.modifiers = {}
  BY DEF NothingPressed
<1>2. Cardinality(NothingPressed.codes) = 0
  BY <1>1, FS_EmptySet
<1> QED  BY <1>1, <1>2, ReportSlotsAssumption, NotifyQueueAssumption DEF Modifiers

(* Each step leaves the host a well-formed report and the queue within its *)
(* bound.                                                                  *)
LEMMA HostTypeStep ==
    ASSUME IInv', Remembers', HostTypeOK, HostNext
    PROVE  HostTypeOK'
<1>1. UNCHANGED hostVars => HostTypeOK'
  BY DEF hostVars, HostTypeOK
<1>2. Connected \/ Disconnected \/ NotifyBattery => HostTypeOK'
  <2>1. Connected \/ Disconnected => HostTypeOK'
    BY NothingPressedType DEF Connected, Disconnected, HostTypeOK
  <2>2. NotifyBattery => HostTypeOK'
    BY DEF NotifyBattery, HostTypeOK
  <2> QED  BY <2>1, <2>2
<1>3. CASE SendReport
  <2>1. /\ output'.layer \in LayerIndices
        /\ output'.keys \in SUBSET Keys
        /\ activeModifiers' \in Seq(ActiveModifier)
    <3>1. /\ output'.kind = "report"
          /\ output'.layer = CurrentLayerIndex'
          /\ output'.keys = previousKeyState'
      BY <1>3 DEF SendReport, Remembers, ReportRemembered
    <3> QED  BY <3>1, LayerOfType DEF CurrentLayerIndex, IInv, TypeOK
  <2>2. /\ LastReport.modifiers \in Modifiers
        /\ LastReport.codes \subseteq Keycodes \cup {ErrOvf}
        /\ Cardinality(LastReport.codes) <= ReportSlots
    BY <2>1, InputReportType DEF LastReport
  <2>3. Notifications \in 1 .. 2
    BY DEF Notifications
  <2>4. unsent + Notifications <= NotifyQueue
           => unsent + Notifications \in 0 .. NotifyQueue
    BY <2>3, NotifyQueueAssumption DEF HostTypeOK
  <2> QED  BY <1>3, <2>2, <2>4 DEF SendReport, HostTypeOK
<1>4. CASE \E saved \in SUBSET Keys : HostApply(saved) \/ Stopped(saved) \/ Dropped(saved)
  BY <1>1, <1>2, <1>3, <1>4 DEF HostApply, Stopped, Dropped, Discard
<1>5. CASE HostChange \/ BatteryLevel \/ HostTick
  BY <1>1, <1>2, <1>5 DEF HostChange, BatteryLevel, HostTick
<1>6. CASE Transmit \/ HalfDisconnected
  BY <1>6, NothingPressedType DEF Transmit, HalfDisconnected, HostTypeOK
<1> QED  BY <1>4, <1>5, <1>6 DEF HostNext

(* The report never holds more codes than it has room for, however many    *)
(* keys are down, and the softdevice's queue is never overrun.             *)
THEOREM ReportsFit == HostSpec => []HostTypeOK
<1>1. HostInit => HostTypeOK
  BY NothingPressedType DEF HostInit, HostTypeOK
<1>2. IInv' /\ HistoryInv' /\ HostTypeOK /\ [HostNext]_allVars => HostTypeOK'
  <2> SUFFICES ASSUME IInv', HistoryInv', HostTypeOK, [HostNext]_allVars
               PROVE  HostTypeOK'
    OBVIOUS
  <2>1. CASE HostNext
    BY <2>1, HostTypeStep DEF HistoryInv
  <2>2. CASE UNCHANGED allVars
    BY <2>2 DEF allVars, hostVars, HostTypeOK
  <2> QED  BY <2>1, <2>2
<1> QED  BY <1>1, <1>2, HostInvariance, PTL DEF HostSpec

-----------------------------------------------------------------------------
(* What the host has.                                                      *)

(* The modifiers reported of the first n entries of a stack.               *)
FlagsUpTo(stack, n) ==
    UNION {stack[i].value : i \in {j \in 1 .. n : j < n \/ ~IsPending(stack[j])}}

(* They are those that a report of this prefix has.                        *)
LEMMA FlagsOfPrefix ==
    ASSUME NEW S, NEW stack \in Seq(S), NEW n \in 0 .. Len(stack)
    PROVE  ReportedModifiers(SubSeq(stack, 1, n)) = FlagsUpTo(stack, n)
<1> DEFINE t == SubSeq(stack, 1, n)
<1>1. /\ Len(t) = n /\ DOMAIN t = 1 .. n
      /\ \A i \in 1 .. n : t[i] = stack[i]
  BY LenProperties
<1> HIDE DEF t
<1>2. {j \in DOMAIN t : j < Len(t) \/ ~IsPending(t[j])}
         = {j \in 1 .. n : j < n \/ ~IsPending(stack[j])}
  BY <1>1
<1> DEFINE I == {j \in 1 .. n : j < n \/ ~IsPending(stack[j])}
<1>3. {t[i].value : i \in I} = {stack[i].value : i \in I}
  BY <1>1
<1>4. ReportedModifiers(t) = UNION {t[i].value : i \in I}
  BY <1>2 DEF ReportedModifiers
<1> QED  BY <1>3, <1>4 DEF FlagsUpTo, t

(* A prefix that reports the same is left when the clock ticks, when the   *)
(* last timer is cleared and when a modifier is pushed.                    *)
LEMMA SamePrefix ==
    ASSUME NEW s \in Seq(ActiveModifier), PendingOf(s) \subseteq {Len(s)},
           NEW n \in 0 .. Len(s)
    PROVE  /\ FlagsUpTo(Aged(s), n) = FlagsUpTo(s, n)
           /\ \E m \in 0 .. Len(s) : FlagsUpTo(ClearLast(s), m) = FlagsUpTo(s, n)
<1> DEFINE I(t, k) == {j \in 1 .. k : j < k \/ ~IsPending(t[j])}
<1>1. DOMAIN s = 1 .. Len(s) /\ Len(s) \in Nat
  BY LenProperties
<1>2. \A i \in 1 .. Len(s) :
         /\ Aged(s)[i].value = s[i].value
         /\ ClearLast(s)[i].value = s[i].value
         /\ IsPending(Aged(s)[i]) <=> IsPending(s[i])
         /\ IsPending(ClearLast(s)[i]) => i # Len(s) /\ IsPending(s[i])
         /\ IsPending(s[i]) => i = Len(s)
  <2>1. \A i \in DOMAIN s :
           /\ Aged(s)[i].value = s[i].value
           /\ ClearLast(s)[i].value = s[i].value
           /\ IsPending(Aged(s)[i]) <=> IsPending(s[i])
           /\ IsPending(ClearLast(s)[i]) => i # Len(s) /\ IsPending(s[i])
    BY TimersOnly
  <2>2. \A i \in DOMAIN s : IsPending(s[i]) => i = Len(s)
    BY DEF PendingOf
  <2> QED  BY <1>1, <2>1, <2>2
<1>3. 1 .. n \subseteq 1 .. Len(s)
  BY <1>1
<1>4. FlagsUpTo(Aged(s), n) = FlagsUpTo(s, n)
  <2>1. \A j \in 1 .. n : IsPending(Aged(s)[j]) <=> IsPending(s[j])
    BY <1>2, <1>3
  <2>2. I(Aged(s), n) = I(s, n)
    BY <2>1
  <2>3. \A j \in I(s, n) : Aged(s)[j].value = s[j].value
    BY <1>2, <1>3
  <2>4. {Aged(s)[i].value : i \in I(s, n)} = {s[i].value : i \in I(s, n)}
    BY <2>3
  <2> QED  BY <2>2, <2>4 DEF FlagsUpTo
<1>5. ASSUME NEW m \in 0 .. Len(s), I(ClearLast(s), m) = I(s, n)
      PROVE  FlagsUpTo(ClearLast(s), m) = FlagsUpTo(s, n)
  <2>1. \A j \in I(s, n) : ClearLast(s)[j].value = s[j].value
    BY <1>2, <1>3
  <2>2. {ClearLast(s)[i].value : i \in I(s, n)} = {s[i].value : i \in I(s, n)}
    BY <2>1
  <2> QED  BY <1>5, <2>2 DEF FlagsUpTo
<1>6. CASE n # 0 /\ IsPending(s[n])
  <2>1. n = Len(s) /\ n - 1 \in 0 .. Len(s)
    BY <1>1, <1>2, <1>6
  <2>2. I(ClearLast(s), n - 1) = 1 .. n - 1
    <3>1. \A j \in 1 .. n - 1 : j \in 1 .. n /\ j # n
      <4>1. n \in Nat
        BY <1>1
      <4> HIDE DEF I
      <4> QED  BY <4>1
    <3>2. \A j \in 1 .. n - 1 : ~IsPending(ClearLast(s)[j])
      BY <1>2, <2>1, <3>1
    <3>3. \A j \in 1 .. n - 1 : j < n - 1 \/ ~IsPending(ClearLast(s)[j])
      BY <3>2
    <3> QED  BY <3>3
  <2>3. I(s, n) = 1 .. n - 1
    BY <1>1, <1>6, <2>1
  <2> QED  BY <1>4, <1>5, <2>1, <2>2, <2>3
<1>7. CASE ~(n # 0 /\ IsPending(s[n]))
  <2>1. I(s, n) = 1 .. n
    BY <1>1, <1>7
  <2>2. I(ClearLast(s), n) = 1 .. n
    BY <1>1, <1>2, <1>7
  <2> QED  BY <1>4, <1>5, <2>1, <2>2
<1> QED  BY <1>6, <1>7

(* The host has what the remembered keys make on the current layer, with   *)
(* the first modifiers of the stack; the remembered keys are down.         *)
HostHas(layers, modifiers, keys) ==
    \E n \in 0 .. Len(modifiers) :
        hostReport = InputReport(SubSeq(modifiers, 1, n), LayerOf(layers), keys)

HostInStep ==
    InTouch => /\ HostHas(activeLayers, activeModifiers, previousKeyState)
               /\ previousKeyState \subseteq keyState

(* What the report is made of decides it.                                  *)
LEMMA SameReport ==
    ASSUME NEW m1, NEW m2, NEW l1, NEW l2, NEW keys,
           ReportedModifiers(m1) = ReportedModifiers(m2),
           keys # {} => l1 = l2
    PROVE  InputReport(m1, l1, keys) = InputReport(m2, l2, keys)
<1>1. CASE l1 = l2
  BY <1>1 DEF InputReport
<1>2. CASE keys = {}
  <2>1. KeysWithCode(l1, {}) = {} /\ KeysWithCode(l2, {}) = {} /\ FirstKeys({}) = {}
    BY DEF KeysWithCode, FirstKeys
  <2> QED  BY <1>2, <2>1 DEF InputReport
<1> QED  BY <1>1, <1>2

(* Nothing is withheld that the host lacks: clearing a timer, pushing a    *)
(* modifier and the clock leave the host with a prefix of the stack, and   *)
(* a change of layer matters only to keys that are reported.               *)
LEMMA StillHas ==
    ASSUME NEW s \in Seq(ActiveModifier), PendingOf(s) \subseteq {Len(s)},
           NEW l1, NEW l2, NEW keys, HostHas(l1, s, keys),
           keys # {} => LayerOf(l1) = LayerOf(l2)
    PROVE  /\ HostHas(l2, s, keys)
           /\ HostHas(l2, Aged(s), keys)
           /\ HostHas(l2, ClearLast(s), keys)
           /\ \A e \in ActiveModifier : HostHas(l2, Append(ClearLast(s), e), keys)
<1>1. PICK n \in 0 .. Len(s) :
          hostReport = InputReport(SubSeq(s, 1, n), LayerOf(l1), keys)
  BY DEF HostHas
<1>2. ASSUME NEW t \in Seq(ActiveModifier), NEW m \in 0 .. Len(t),
             FlagsUpTo(t, m) = FlagsUpTo(s, n)
      PROVE  HostHas(l2, t, keys)
  <2>1. ReportedModifiers(SubSeq(t, 1, m)) = ReportedModifiers(SubSeq(s, 1, n))
    BY <1>2, FlagsOfPrefix
  <2>2. hostReport = InputReport(SubSeq(t, 1, m), LayerOf(l2), keys)
    BY <1>1, <2>1, SameReport
  <2> QED  BY <2>2 DEF HostHas
<1>3. HostHas(l2, s, keys)
  BY <1>2
<1>4. /\ Aged(s) \in Seq(ActiveModifier) /\ Len(Aged(s)) = Len(s)
      /\ ClearLast(s) \in Seq(ActiveModifier) /\ Len(ClearLast(s)) = Len(s)
      /\ Len(s) \in Nat
  BY ClearLastProperties, AgedProperties, TimersOnly
<1>5. HostHas(l2, Aged(s), keys)
  BY <1>2, <1>4, SamePrefix
<1>6. PICK m \in 0 .. Len(s) : FlagsUpTo(ClearLast(s), m) = FlagsUpTo(s, n)
  BY SamePrefix
<1>7. HostHas(l2, ClearLast(s), keys)
  BY <1>2, <1>4, <1>6
<1>8. ASSUME NEW e \in ActiveModifier
      PROVE  HostHas(l2, Append(ClearLast(s), e), keys)
  <2> DEFINE c == ClearLast(s)
             t == Append(c, e)
  <2>1. /\ t \in Seq(ActiveModifier) /\ m \in 0 .. Len(t)
        /\ \A i \in 1 .. m : t[i] = c[i]
    BY <1>4
  <2> HIDE DEF t, c
  <2>2. FlagsUpTo(t, m) = FlagsUpTo(c, m)
    <3>1. {j \in 1 .. m : j < m \/ ~IsPending(t[j])}
             = {j \in 1 .. m : j < m \/ ~IsPending(c[j])}
      BY <2>1
    <3> DEFINE I == {j \in 1 .. m : j < m \/ ~IsPending(c[j])}
    <3>2. {t[i].value : i \in I} = {c[i].value : i \in I}
      BY <2>1
    <3> QED  BY <3>1, <3>2 DEF FlagsUpTo
  <2>3. HostHas(l2, t, keys)
    BY <1>2, <1>6, <2>1, <2>2 DEF c
  <2> QED  BY <2>3 DEF t, c
<1> QED  BY <1>3, <1>5, <1>7, <1>8

(* A call that is not reported leaves the host in step: it has remembered  *)
(* the same keys, removed no modifier and left no layer that matters.      *)
LEMMA QuietCall ==
    ASSUME IInv, NEW saved \in SUBSET Keys, Returned(saved), output'.kind = "none",
           HostHas(activeLayers, activeModifiers, previousKeyState),
           UNCHANGED hostReport
    PROVE  /\ HostHas(activeLayers, activeModifiers, previousKeyState)'
           /\ previousKeyState' \subseteq saved
<1>1. /\ activeModifiers \in Seq(ActiveModifier)
      /\ activeLayers \in Seq(ActiveLayer)
      /\ PendingOf(activeModifiers) \subseteq {Len(activeModifiers)}
  BY DEF IInv, TypeOK, WellFormed, PendingLast
<1>2. ASSUME NEW layers, NEW modifiers,
             HostHas(layers, modifiers, previousKeyState),
             activeLayers' = layers, activeModifiers' = modifiers,
             previousKeyState' = previousKeyState
      PROVE  HostHas(activeLayers, activeModifiers, previousKeyState)'
  BY <1>2 DEF HostHas
<1>3. ASSUME NEW keys, Agrees(saved, keys)
      PROVE  /\ previousKeyState' = keys
             /\ previousKeyState' = previousKeyState
             /\ KeptModifiers(saved) = activeModifiers
  <2>1. /\ previousKeyState' = keys
        /\ previousKeyState = keys
        /\ RemovedModifiers(saved) = {}
    BY <1>3 DEF Agrees
  <2> QED  BY <2>1, NoModifierRemoved
<1>4. Pressed(saved) \subseteq saved
  BY AfterRelease
<1>5. CASE ApplyUnchanged(saved)
  <2>1. /\ Agrees(saved, Pressed(saved))
        /\ activeModifiers' = activeModifiers
        /\ Pressed(saved) # {} => activeLayers' = activeLayers
    BY <1>5, UnchangedCall
  <2>2. HostHas(activeLayers', activeModifiers, previousKeyState)
    BY <1>1, <1>3, <2>1, StillHas
  <2> QED  BY <1>2, <1>3, <1>4, <2>1, <2>2
<1>6. CASE ApplyKeys(saved)
  <2>1. PICK keys \in SUBSET Pressed(saved) :
            /\ Agrees(saved, keys)
            /\ keys = {} => activeModifiers' = KeptModifiers(saved)
            /\ keys # {} => /\ activeLayers' = ClearLast(activeLayers)
                            /\ activeModifiers' = ClearLast(activeModifiers)
    BY <1>6, KeysCall
  <2>2. HostHas(activeLayers', activeModifiers', previousKeyState)
    <3>1. CASE keys = {}
      BY <1>1, <1>3, <2>1, <3>1, StillHas
    <3>2. CASE keys # {}
      <4>1. LayerOf(activeLayers) = LayerOf(activeLayers')
        BY <1>1, <2>1, <3>2, TimersOnly
      <4>2. activeModifiers' = ClearLast(activeModifiers)
        BY <2>1, <3>2
      <4> QED  BY <1>1, <4>1, <4>2, StillHas
    <3> QED  BY <3>1, <3>2
  <2> QED  BY <1>2, <1>3, <1>4, <2>1, <2>2
<1>7. ASSUME NEW k \in Pressed(saved), ApplyLayer(saved, k) \/ ApplyModifier(saved, k)
      PROVE  /\ HostHas(activeLayers, activeModifiers, previousKeyState)'
             /\ previousKeyState' \subseteq saved
  <2>1. Agrees(saved, {})
    BY <1>7, PushCall
  <2>2. previousKeyState' = {} /\ previousKeyState = {} /\ KeptModifiers(saved) = activeModifiers
    BY <1>3, <2>1
  <2>3. HostHas(activeLayers', activeModifiers', previousKeyState)
    <3>1. CASE ApplyLayer(saved, k)
      <4>1. activeModifiers' = ClearLast(activeModifiers)
        BY <2>2, <3>1 DEF ApplyLayer
      <4> QED  BY <1>1, <2>2, <4>1, StillHas
    <3>2. CASE ApplyModifier(saved, k)
      <4> DEFINE l == LayerAfterRelease(saved)
                 e == [value |-> LayerLookup[l][k].hold.value, keyIndex |-> k,
                       tapTimer |-> TimerFor(l, k)]
      <4>1. activeModifiers' = Append(ClearLast(activeModifiers), e)
        BY <2>2, <3>2 DEF ApplyModifier
      <4>2. e \in ActiveModifier
        <5>1. l \in LayerIndices /\ k \in Keys /\ k \in ModifierKeys(l)
          BY <3>2, AfterRelease, LayerOfType
             DEF ApplyModifier, LayerAfterRelease, ModifierKeys, WellFormed
        <5> QED  BY <5>1, MappingTypes DEF ActiveModifier
      <4> HIDE DEF e
      <4> QED  BY <1>1, <2>2, <4>1, <4>2, StillHas
    <3> QED  BY <1>7, <3>1, <3>2
  <2> QED  BY <1>2, <2>2, <2>3
<1> QED  BY <1>5, <1>6, <1>7 DEF Returned

(* A report puts the host in step, a dropped call leaves it behind, and    *)
(* what neither reports nor drops leaves it with what it has.              *)
LEMMA HostInStepStep ==
    ASSUME IInv, IInv', Remembers', HostInStep, HostNext
    PROVE  HostInStep'
<1>1. /\ activeModifiers \in Seq(ActiveModifier)
      /\ activeLayers \in Seq(ActiveLayer)
      /\ PendingOf(activeModifiers) \subseteq {Len(activeModifiers)}
      /\ activeModifiers' \in Seq(ActiveModifier)
  BY DEF IInv, TypeOK, WellFormed, PendingLast
<1>2. Connected \/ Disconnected => HostInStep'
  BY DEF Connected, Disconnected, HostInStep, InTouch
<1>3. ASSUME NEW saved \in SUBSET Keys, HostApply(saved)
      PROVE  HostInStep'
  <2>1. Returned(saved) /\ keyState' = saved
    BY <1>3 DEF HostApply, Returned, ApplyUnchanged, ApplyKeys, ApplyLayer, ApplyModifier
  <2>2. CASE SendReport /\ ~failed'
    <3>1. /\ output'.kind = "report"
          /\ hostReport' = InputReport(activeModifiers', output'.layer, output'.keys)
      BY <1>3, <2>2 DEF SendReport, LastReport, HostApply
    <3>2. hostReport' = InputReport(activeModifiers', LayerOf(activeLayers'), previousKeyState')
      BY <3>1 DEF Remembers, ReportRemembered, CurrentLayerIndex
    <3>3. HostHas(activeLayers, activeModifiers, previousKeyState)'
      <4>1. /\ Len(activeModifiers') \in 0 .. Len(activeModifiers')
            /\ SubSeq(activeModifiers', 1, Len(activeModifiers')) = activeModifiers'
        BY <1>1
      <4> QED  BY <3>2, <4>1 DEF HostHas
    <3>4. previousKeyState' \subseteq Pressed(saved)
      <4>1. ASSUME NEW keys \in SUBSET Pressed(saved), Agrees(saved, keys)
            PROVE  previousKeyState' \subseteq Pressed(saved)
        BY <4>1 DEF Agrees
      <4> QED  BY <2>1, <4>1, UnchangedCall, KeysCall, PushCall DEF Returned
    <3>5. Pressed(saved) \subseteq saved
      BY AfterRelease
    <3> QED  BY <2>1, <3>3, <3>4, <3>5 DEF HostInStep
  <2>3. CASE SendReport /\ failed'
    BY <2>3 DEF HostInStep, InTouch
  <2>4. CASE Discard
    <3>1. SUFFICES ASSUME InTouch'
                   PROVE  /\ HostHas(activeLayers, activeModifiers, previousKeyState)'
                          /\ previousKeyState' \subseteq keyState'
      BY DEF HostInStep
    <3>2. InTouch /\ output'.kind = "none" /\ UNCHANGED hostReport
      BY <2>4, <3>1 DEF Discard, hostVars, InTouch
    <3> QED  BY <2>1, <3>2, QuietCall DEF HostInStep
  <2> QED  BY <1>3, <2>2, <2>3, <2>4 DEF HostApply
<1>4. ASSUME NEW saved \in SUBSET Keys, Dropped(saved)
      PROVE  HostInStep'
  BY <1>2, <1>4 DEF Dropped, HostInStep, InTouch
<1>5. ASSUME UNCHANGED <<keyState, activeLayers, activeModifiers, previousKeyState>>,
             UNCHANGED <<hostConnected, hostReport, behind, failed>>
      PROVE  HostInStep'
  BY <1>5 DEF HostInStep, HostHas, InTouch
<1>6. ASSUME NEW saved \in SUBSET Keys, Stopped(saved)
      PROVE  HostInStep'
  BY <1>5, <1>6 DEF Stopped, ApplyOverflow, hostVars
<1>7. CASE HostChange
  BY <1>2, <1>7 DEF HostChange
<1>8. CASE BatteryLevel \/ Transmit
  BY <1>5, <1>8 DEF BatteryLevel, NotifyBattery, Transmit, vars
<1>9. CASE HostTick
  <2>1. /\ activeLayers' = Aged(activeLayers)
        /\ activeModifiers' = Aged(activeModifiers)
        /\ UNCHANGED <<keyState, previousKeyState, hostVars>>
    BY <1>9 DEF HostTick, Tick
  <2>2. LayerOf(activeLayers') = LayerOf(activeLayers)
    BY <1>1, <2>1, TimersOnly
  <2>3. HostHas(activeLayers, activeModifiers, previousKeyState)
           => HostHas(activeLayers', activeModifiers', previousKeyState)
    BY <1>1, <2>1, <2>2, StillHas
  <2>4. hostReport' = hostReport /\ (InTouch' <=> InTouch)
    BY <2>1 DEF hostVars, InTouch
  <2>5. HostHas(activeLayers', activeModifiers', previousKeyState)
           => HostHas(activeLayers, activeModifiers, previousKeyState)'
    BY <2>1, <2>4 DEF HostHas
  <2> QED  BY <2>1, <2>3, <2>4, <2>5 DEF HostInStep
<1>10. CASE HalfDisconnected
  BY <1>10 DEF HalfDisconnected, HostInStep, InTouch
<1> QED  BY <1>3, <1>4, <1>6, <1>7, <1>8, <1>9, <1>10 DEF HostNext

(* Whenever the master is in touch with its host, the host has a report of *)
(* the keys and the layer apply remembers.                                 *)
LEMMA HostStaysInStep == HostSpec => []HostInStep
<1>1. HostInit => HostInStep
  BY DEF HostInit, HostInStep, InTouch
<1>2. IInv /\ IInv' /\ HistoryInv' /\ HostInStep /\ [HostNext]_allVars => HostInStep'
  <2> SUFFICES ASSUME IInv, IInv', HistoryInv', HostInStep, [HostNext]_allVars
               PROVE  HostInStep'
    OBVIOUS
  <2>1. CASE HostNext
    BY <2>1, HostInStepStep DEF HistoryInv
  <2>2. CASE UNCHANGED allVars
    BY <2>2 DEF allVars, vars, hostVars, HostInStep, HostHas, InTouch
  <2> QED  BY <2>1, <2>2
<1> QED  BY <1>1, <1>2, HostInvariance, PTL DEF HostSpec

(* What apply does not send again the host has: it lacks at most modifiers *)
(* that went down since its report, never a key, and never a release.      *)
THEOREM HostOnlyLags == HostSpec => []HostLags
<1>1. HostInStep => HostLags
  BY DEF HostInStep, HostHas, HostLags, CurrentLayerIndex
<1> QED  BY <1>1, HostStaysInStep, PTL

(* The values on the modifier stack are those of its keys.                 *)
LEMMA ModifiersAreMapped == HostSpec => []ModifiersMapped
<1>1. HostInit => ModifiersMapped
  BY DEF HostInit, Init, ModifiersMapped
<1>2. IInv /\ ModifiersMapped /\ [HostNext]_allVars => ModifiersMapped'
  BY HostStep, ModifiersMappedStep
<1> QED  BY <1>1, <1>2, HostInvariance, PTL DEF HostSpec

(* Every code and every modifier the host holds is one of a key that is    *)
(* down: no stuck key, and nothing typed for a key that is up.             *)
THEOREM HostHoldsOnlyPressed == HostSpec => []HostHoldsPressed
<1>1. IInv /\ ModifiersMapped /\ HostInStep => HostHoldsPressed
  <2> SUFFICES ASSUME IInv, ModifiersMapped, HostInStep, InTouch
               PROVE  /\ hostReport.codes \ {ErrOvf} \subseteq UNION {CodesOf(k) : k \in keyState}
                      /\ hostReport.modifiers \subseteq UNION {FlagsOf(k) : k \in keyState}
    BY DEF HostHoldsPressed
  <2> DEFINE l == CurrentLayerIndex
             keys == previousKeyState
             all == KeysWithCode(l, keys)
             sent == FirstKeys(all)
  <2>1. PICK n \in 0 .. Len(activeModifiers) :
            hostReport = InputReport(SubSeq(activeModifiers, 1, n), l, keys)
    BY DEF HostInStep, HostHas, CurrentLayerIndex
  <2>2. /\ hostReport.codes \subseteq {LayerLookup[l][k].tap.code : k \in all} \cup {ErrOvf}
        /\ hostReport.modifiers
             = ReportedModifiers(SubSeq(activeModifiers, 1, n))
                 \cup UNION {LayerLookup[l][k].tap.modifiers : k \in sent}
    BY <2>1 DEF InputReport
  <2>3. l \in LayerIndices /\ all \subseteq keyState /\ sent \subseteq all
    BY LayerOfType
       DEF IInv, TypeOK, CurrentLayerIndex, HostInStep, KeysWithCode, FirstKeys
  <2>4. ASSUME NEW k \in all
        PROVE  /\ LayerLookup[l][k].tap.code \in CodesOf(k)
               /\ LayerLookup[l][k].tap.modifiers \subseteq FlagsOf(k)
    <3>1. l \in {m \in LayerIndices : LayerLookup[m][k].tap.kind = "keycode"}
      BY <2>3 DEF KeysWithCode
    <3> HIDE DEF l
    <3>2. LayerLookup[l][k].tap.code \in CodesOf(k)
      BY <3>1 DEF CodesOf
    <3>3. LayerLookup[l][k].tap.modifiers \subseteq FlagsOf(k)
      BY <3>1 DEF FlagsOf
    <3> QED  BY <3>2, <3>3
  <2>5. ReportedModifiers(SubSeq(activeModifiers, 1, n))
           \subseteq UNION {FlagsOf(k) : k \in keyState}
    <3>1. activeModifiers \in Seq(ActiveModifier)
          /\ KeysOf(activeModifiers) \subseteq keyState
      BY DEF IInv, TypeOK, WellFormed, Held
    <3>2. ReportedModifiers(SubSeq(activeModifiers, 1, n)) = FlagsUpTo(activeModifiers, n)
      BY <3>1, FlagsOfPrefix
    <3>3. ASSUME NEW i \in 1 .. n
          PROVE  \E k \in keyState : activeModifiers[i].value \subseteq FlagsOf(k)
      <4>1. i \in DOMAIN activeModifiers
        BY <3>1, LenProperties
      <4>2. activeModifiers[i].keyIndex \in keyState
        BY <3>1, <4>1 DEF KeysOf
      <4>3. activeModifiers[i].value \subseteq FlagsOf(activeModifiers[i].keyIndex)
        BY <4>1 DEF ModifiersMapped, FlagsOf
      <4> QED  BY <4>2, <4>3
    <3> QED  BY <3>2, <3>3 DEF FlagsUpTo
  <2> HIDE DEF all, sent, l
  <2>6. hostReport.codes \ {ErrOvf} \subseteq UNION {CodesOf(k) : k \in keyState}
    BY <2>2, <2>3, <2>4
  <2>7. UNION {LayerLookup[l][k].tap.modifiers : k \in sent}
           \subseteq UNION {FlagsOf(k) : k \in keyState}
    BY <2>3, <2>4
  <2> QED  BY <2>2, <2>5, <2>6, <2>7
<1> QED  BY <1>1, HostInvariance, ModifiersAreMapped, HostStaysInStep, PTL
=============================================================================
