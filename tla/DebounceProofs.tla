---------------------------- MODULE DebounceProofs ----------------------------
(***************************************************************************)
(* What DebouncedKey and do_scan keep, for any number of keys and any      *)
(* debounce time.                                                          *)
(***************************************************************************)
EXTENDS SampleHistory, TLAPS

USE KeysPerSideAssumption, DebounceTicksAssumption

(* The clock keeps the ages in their range and never makes one smaller, nor *)
(* changes their order.                                                    *)
LEMMA OlderProperties ==
    ASSUME NEW ages \in [Positions -> 0 .. DebounceTicks]
    PROVE  /\ Older(ages) \in [Positions -> 0 .. DebounceTicks]
           /\ \A k \in Positions :
                  Older(ages)[k] = IF ages[k] < DebounceTicks THEN ages[k] + 1
                                                              ELSE ages[k]
BY DEF Older, Positions

(* update() keeps the types of a key's three fields.                       *)
LEMMA UpdateType ==
    ASSUME TypeOK, NEW k \in Positions, Update(k)
    PROVE  /\ internalState' \subseteq Positions
           /\ outputState' \subseteq Positions
           /\ age' \in [Positions -> 0 .. DebounceTicks]
BY DEF TypeOK, Update, CopyBit, AgeAfter

(* Every step keeps the types.                                             *)
LEMMA TypeStep ==
    ASSUME TypeOK, [Next]_vars
    PROVE  TypeOK'
<1>1. CASE Sample
  <2>1. position \in Positions /\ position + 1 \in 0 .. KeysPerSide
    BY <1>1 DEF Sample, Positions
  <2>2. Update(position) /\ Collect(position)
    BY <1>1 DEF Sample
  <2>3. /\ internalState' \subseteq Positions
        /\ outputState' \subseteq Positions
        /\ age' \in [Positions -> 0 .. DebounceTicks]
    BY <2>1, <2>2, UpdateType
  <2>4. keyState' \subseteq Positions
    BY <2>2, <2>3 DEF Collect, CopyBit, TypeOK
  <2> QED
    BY <1>1, <2>1, <2>3, <2>4 DEF Sample, TypeOK
<1>2. CASE PassDone
  BY <1>2 DEF PassDone, TypeOK, keyVars
<1>3. CASE StartPass
  BY <1>3 DEF StartPass, TypeOK, keyVars
<1>4. CASE Renew
  BY <1>4 DEF Renew, TypeOK
<1>5. CASE Contact
  BY <1>5 DEF Contact, TypeOK, keyVars, scanVars
<1>6. CASE Tick
  BY <1>6, OlderProperties DEF Tick, TypeOK, scanVars
<1>7. CASE UNCHANGED vars
  BY <1>7 DEF vars, keyVars, scanVars, TypeOK
<1> QED
  BY <1>1, <1>2, <1>3, <1>4, <1>5, <1>6, <1>7 DEF Next, Scan

(* Every variable has its type.                                            *)
THEOREM ScanTypeCorrect == Spec => []TypeOK
<1>1. Init => TypeOK
  BY DEF Init, TypeOK, Positions
<1>2. TypeOK /\ [Next]_vars => TypeOK'
  BY TypeStep
<1> QED
  BY <1>1, <1>2, PTL DEF Spec

(* Outside of a pass the position is that of the first key: what makes the *)
(* next pass collect all of them.                                          *)
AtRest == at # "scan" => position = 0

(* Each step of a pass adds the bit of one key, and the last one has those *)
(* of all keys.                                                            *)
LEMMA CollectStep ==
    ASSUME TypeOK, AtRest, ChangesReturned, [Next]_vars
    PROVE  AtRest' /\ ChangesReturned'
<1>1. CASE Sample
  <2>1. /\ at = "scan" /\ at' = "scan"
        /\ position \in Positions /\ position' = position + 1
        /\ Update(position) /\ Collect(position)
    BY <1>1 DEF Sample
  <2>2. outputState' \ {position} = outputState \ {position}
    BY <2>1 DEF Update, CopyBit
  <2>3. keyState = outputState \cap {k \in Positions : k < position}
    BY <2>1 DEF ChangesReturned
  <2>4. keyState' = (keyState \ {position}) \cup ({position} \cap outputState')
    BY <2>1 DEF Collect, CopyBit
  <2>5. {k \in Positions : k < position + 1}
           = {k \in Positions : k < position} \cup {position}
    BY <2>1 DEF Positions
  <2>6. position \notin {k \in Positions : k < position}
    BY <2>1 DEF Positions
  <2>7. keyState' = outputState' \cap {k \in Positions : k < position + 1}
    BY <2>2, <2>3, <2>4, <2>5, <2>6
  <2> QED
    BY <2>1, <2>7 DEF AtRest, ChangesReturned
<1>2. CASE PassDone
  <2>1. {k \in Positions : k < position} = Positions
    BY <1>2 DEF PassDone, Positions
  <2>2. keyState = outputState
    BY <1>2, <2>1 DEF PassDone, ChangesReturned, TypeOK
  <2> QED
    BY <1>2, <2>2 DEF PassDone, AtRest, ChangesReturned, keyVars
<1>3. CASE StartPass
  <2>1. {k \in Positions : k < position} = {}
    BY <1>3 DEF StartPass, AtRest, Positions
  <2> QED
    BY <1>3, <2>1 DEF StartPass, AtRest, ChangesReturned, keyVars
<1>4. CASE Renew
  BY <1>4 DEF Renew, AtRest, ChangesReturned
<1>5. CASE Contact
  BY <1>5 DEF Contact, AtRest, ChangesReturned, keyVars, scanVars
<1>6. CASE Tick
  BY <1>6 DEF Tick, AtRest, ChangesReturned, scanVars
<1>7. CASE UNCHANGED vars
  BY <1>7 DEF vars, keyVars, scanVars, AtRest, ChangesReturned
<1> QED
  BY <1>1, <1>2, <1>3, <1>4, <1>5, <1>6, <1>7 DEF Next, Scan

(* Between two passes the state last returned is that of all the keys.     *)
THEOREM NoChangeIsMissed == Spec => []ChangesReturned
<1>1. Init => AtRest /\ ChangesReturned
  BY DEF Init, AtRest, ChangesReturned
<1>2. TypeOK /\ AtRest /\ ChangesReturned /\ [Next]_vars => (AtRest /\ ChangesReturned)'
  BY CollectStep
<1> QED
  BY <1>1, <1>2, ScanTypeCorrect, PTL DEF Spec

-----------------------------------------------------------------------------
(* The history of the samples.                                             *)

(* A step of the history is a step of Debounce.                            *)
LEMMA HistoryStep ==
    ASSUME [SNext]_svars
    PROVE  [Next]_vars
BY DEF SNext, SSample, SOther, STick, svars, Next, Scan

SInv == STypeOK /\ AgeIsOfSamples

(* Every step keeps the ages within those of the opposite samples: a       *)
(* change of the internal state starts from 0, and time adds the same to   *)
(* both.                                                                   *)
LEMMA SampleStep ==
    ASSUME SInv, [SNext]_svars
    PROVE  SInv'
<1> USE DEF SInv
<1>0. TypeOK'
  BY HistoryStep, TypeStep DEF STypeOK
<1>1. CASE SSample
  <2>1. position \in Positions /\ Update(position)
    BY <1>1 DEF SSample, Sample
  <2>2. /\ sinceDown' \in [Positions -> 0 .. DebounceTicks]
        /\ sinceUp' \in [Positions -> 0 .. DebounceTicks]
    BY <1>1 DEF SSample, STypeOK
  <2>3. ASSUME NEW k \in Positions
        PROVE  /\ k \in internalState' \ outputState' => age'[k] <= sinceUp'[k]
               /\ k \in outputState' \ internalState' => age'[k] <= sinceDown'[k]
    <3>1. CASE k # position
      <4>1. /\ k \in internalState' <=> k \in internalState
            /\ k \in outputState' <=> k \in outputState
            /\ age'[k] = age[k]
        BY <2>1, <3>1 DEF Update, CopyBit, STypeOK, TypeOK
      <4>2. sinceUp'[k] = sinceUp[k] /\ sinceDown'[k] = sinceDown[k]
        BY <1>1, <3>1 DEF SSample, STypeOK
      <4> QED
        BY <4>1, <4>2 DEF AgeIsOfSamples
    <3>2. CASE k = position
      <4>1. /\ k \in internalState' <=> k \in raw
            /\ age'[k] = AgeAfter(k)
            /\ ~Debounced(k) => outputState' = outputState
            /\ Debounced(k) => (k \in outputState' <=> k \in internalState')
        BY <2>1, <3>2 DEF Update, CopyBit, STypeOK, TypeOK
      <4>2. CASE k \in internalState <=> k \in raw
        <5>1. age'[k] = age[k]
          BY <4>1, <4>2 DEF AgeAfter
        <5>2. /\ k \in raw => sinceUp'[k] = sinceUp[k]
              /\ k \notin raw => sinceDown'[k] = sinceDown[k]
          BY <1>1, <3>2 DEF SSample
        <5> QED
          BY <4>1, <4>2, <5>1, <5>2 DEF AgeIsOfSamples
      <4>3. CASE ~(k \in internalState <=> k \in raw)
        <5>1. age'[k] = 0
          BY <4>1, <4>3 DEF AgeAfter
        <5> QED
          BY <5>1, <2>2
      <4> QED
        BY <4>2, <4>3
    <3> QED
      BY <3>1, <3>2
  <2> QED
    BY <1>0, <2>2, <2>3 DEF STypeOK, AgeIsOfSamples
<1>2. CASE SOther
  BY <1>0, <1>2 DEF SOther, PassDone, StartPass, Renew, Contact, keyVars, scanVars,
                     sampleVars, STypeOK, AgeIsOfSamples
<1>3. CASE STick
  <2>1. /\ age' = Older(age) /\ sinceDown' = Older(sinceDown) /\ sinceUp' = Older(sinceUp)
        /\ UNCHANGED <<internalState, outputState>>
    BY <1>3 DEF STick, Tick
  <2>2. \A k \in Positions :
            /\ age[k] \in Int /\ sinceUp[k] \in Int /\ sinceDown[k] \in Int
            /\ sinceUp[k] <= DebounceTicks /\ sinceDown[k] <= DebounceTicks
    BY DEF STypeOK, TypeOK
  <2>3. AgeIsOfSamples'
    BY <2>1, <2>2, OlderProperties DEF AgeIsOfSamples, STypeOK, TypeOK
  <2> QED
    BY <1>0, <2>1, <2>3, OlderProperties DEF STypeOK
<1>4. CASE UNCHANGED svars
  BY <1>0, <1>4 DEF svars, vars, keyVars, sampleVars, STypeOK, AgeIsOfSamples
<1> QED
  BY <1>1, <1>2, <1>3, <1>4 DEF SNext

(* The history and the ages of the keys fit in every reachable state.      *)
LEMMA SampleInvariance == SSpec => []SInv
<1>1. SInit => SInv
  BY DEF SInit, Init, SInv, STypeOK, TypeOK, AgeIsOfSamples, Positions
<1>2. SInv /\ [SNext]_svars => SInv'
  BY SampleStep
<1> QED
  BY <1>1, <1>2, PTL DEF SSpec

(* The age of a state that the output does not have yet is at most the     *)
(* time since the opposite was sampled.                                    *)
THEOREM AgesAreOfSamples == SSpec => []AgeIsOfSamples
BY SampleInvariance, PTL DEF SInv

(* A key changes only after DEBOUNCE_TICKS of samples that agree.          *)
THEOREM BouncesAreFiltered == SSpec => ChangesAreStable
<1> DEFINE Stable ==
      \A k \in Positions :
           /\ k \in outputState' \ outputState => sinceUp[k] >= DebounceTicks
           /\ k \in outputState \ outputState' =>
                  sinceDown[k] >= DebounceTicks \/ Renew
<1>1. ASSUME SInv, [SNext]_svars
      PROVE  Stable \/ UNCHANGED svars
  <2>1. CASE SSample
    <3>1. position \in Positions /\ Update(position)
      BY <2>1 DEF SSample, Sample
    <3>2. SUFFICES ASSUME NEW k \in Positions,
                          ~(k \in outputState' <=> k \in outputState)
                   PROVE  /\ k \in outputState' => sinceUp[k] >= DebounceTicks
                          /\ k \notin outputState' => sinceDown[k] >= DebounceTicks
      OBVIOUS
    <3>3. k = position
      BY <3>1, <3>2 DEF Update, CopyBit
    <3>4. Debounced(k) /\ (k \in outputState' <=> k \in raw)
      BY <3>1, <3>2, <3>3 DEF Update, CopyBit
    <3>5. CASE k \in internalState <=> k \in raw
      BY <1>1, <3>2, <3>4, <3>5 DEF Debounced, AgeAfter, SInv, STypeOK, TypeOK, AgeIsOfSamples
    <3>6. CASE ~(k \in internalState <=> k \in raw)
      \* Only without a debounce time.
      <4>1. DebounceTicks = 0
        BY <3>4, <3>6 DEF Debounced, AgeAfter
      <4> QED
        BY <1>1, <4>1 DEF SInv, STypeOK
    <3> QED
      BY <3>5, <3>6
  <2>2. CASE SOther
    BY <2>2 DEF SOther, PassDone, StartPass, Renew, Contact, keyVars
  <2>3. CASE STick
    BY <2>3 DEF STick, Tick
  <2> QED
    BY <1>1, <2>1, <2>2, <2>3 DEF SNext
<1>2. SInv /\ [SNext]_svars => [Stable]_svars
  BY <1>1
<1> QED
  BY <1>2, SampleInvariance, PTL DEF SSpec, ChangesAreStable
=============================================================================
