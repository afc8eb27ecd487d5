------------------------------ MODULE Debounce ------------------------------
(***************************************************************************)
(* One half's key matrix: DebouncedKey of hardware/debounce.rs and the     *)
(* loop of do_scan around it (hardware/state/mod.rs), which MasterState    *)
(* and SlaveState use alike.                                               *)
(*                                                                         *)
(* last_state_change is a time; the code only asks whether it is           *)
(* DEBOUNCE_TICKS ago, so the model keeps its age, saturating there.       *)
(***************************************************************************)
EXTENDS Integers

CONSTANTS
    KeysPerSide,    \* rows times columns
    DebounceTicks   \* Keyboard::DEBOUNCE_TICKS

ASSUME KeysPerSideAssumption == KeysPerSide \in Nat \ {0}
ASSUME DebounceTicksAssumption == DebounceTicks \in Nat

VARIABLES
    raw,            \* the keys whose pin is high when its column is
    internalState,  \* keys that were down when sampled last
    age,            \* ticks since internal_state changed
    outputState,    \* keys that count as down
    at,             \* "scan", "wait" (for the next pass) or "returned"
    position,       \* the key the pass looks at next
    keyState,       \* key_state, the bits of the keys before it
    synchronized    \* master_raw_state, or the slave's previous_key_state

scanVars == <<at, position, keyState, synchronized>>
keyVars == <<internalState, age, outputState>>
vars == <<raw, keyVars, scanVars>>

Positions == 0 .. KeysPerSide - 1

Init ==
    /\ raw = {}
    /\ internalState = {}
    /\ age \in {[k \in Positions |-> 0], [k \in Positions |-> DebounceTicks]}
    /\ outputState = {}
    /\ at = "returned"
    /\ position = 0
    /\ keyState = {}
    /\ synchronized = {}

\* The bit of key k in a set of keys, made equal to that in another.
CopyBit(bits, k, from) == (bits \ {k}) \cup ({k} \cap from)

\* Faulty: the two masks of the branchless assignment are swapped.
AgeAfterSwapped(k) == IF k \in internalState <=> k \in raw THEN 0 ELSE age[k]

AgeAfter(k) == IF k \in internalState <=> k \in raw THEN age[k] ELSE 0

\* Faulty: one tick too early.
DebouncedEarly(k) == AgeAfter(k) + 1 >= DebounceTicks

Debounced(k) == AgeAfter(k) >= DebounceTicks

(* DebouncedKey::update with the sampled pin.                              *)
Update(k) ==
    /\ internalState' = CopyBit(internalState, k, raw)
    /\ age' = [age EXCEPT ![k] = AgeAfter(k)]
    /\ outputState' = IF Debounced(k)
                      THEN CopyBit(outputState, k, internalState') ELSE outputState

\* Faulty: is_down() is read before update().
CollectBefore(k) == keyState' = CopyBit(keyState, k, outputState)

Collect(k) == keyState' = CopyBit(keyState, k, outputState')

(* One key of a pass.                                                      *)
Sample ==
    /\ at = "scan"
    /\ position \in Positions
    /\ Update(position)
    /\ Collect(position)
    /\ position' = position + 1
    /\ UNCHANGED <<raw, at, synchronized>>

(* The end of a pass: update_needs_synchronize, then return or wait.       *)
PassDone ==
    /\ at = "scan"
    /\ position = KeysPerSide
    /\ at' = IF keyState = synchronized THEN "wait" ELSE "returned"
    /\ synchronized' = keyState
    /\ position' = 0
    /\ keyState' = {}
    /\ UNCHANGED <<raw, keyVars>>

(* The timer of 200 microseconds ends, or do_scan is called again.  A call *)
(* that is dropped at the timer is followed by another call, so both come  *)
(* to the same.                                                            *)
StartPass ==
    /\ at \in {"wait", "returned"}
    /\ at' = "scan"
    /\ UNCHANGED <<raw, keyVars, position, keyState, synchronized>>

(* The halves lost each other: new() makes new keys, with the time 0 in    *)
(* last_state_change, however late it is.                                  *)
Renew ==
    /\ at \in {"wait", "returned"}
    /\ internalState' = {}
    /\ outputState' = {}
    /\ age' = [k \in Positions |-> DebounceTicks]
    /\ synchronized' = {}
    /\ at' = "returned"
    /\ UNCHANGED <<raw, position, keyState>>

(* A contact opens, closes or bounces.                                     *)
Contact ==
    /\ \E k \in Positions :
           raw' = IF k \in raw THEN raw \ {k} ELSE raw \cup {k}
    /\ UNCHANGED <<keyVars, scanVars>>

Older(ages) ==
    [k \in Positions |-> IF ages[k] < DebounceTicks THEN ages[k] + 1 ELSE ages[k]]

Tick ==
    /\ age' = Older(age)
    /\ UNCHANGED <<raw, internalState, outputState, scanVars>>

Scan == Sample \/ PassDone \/ StartPass

Next == Scan \/ Renew \/ Contact \/ Tick

(* The loop of each half calls do_scan again and again, its timer ends,    *)
(* and time goes on.                                                       *)
Fairness == WF_vars(Scan) /\ WF_vars(Tick)

Spec == Init /\ [][Next]_vars /\ Fairness

-----------------------------------------------------------------------------
(* Properties.                                                             *)

(* Every variable has its type.                                            *)
TypeOK ==
    /\ raw \subseteq Positions
    /\ internalState \subseteq Positions
    /\ outputState \subseteq Positions
    /\ age \in [Positions -> 0 .. DebounceTicks]
    /\ at \in {"scan", "wait", "returned"}
    /\ position \in 0 .. KeysPerSide
    /\ keyState \subseteq Positions
    /\ synchronized \subseteq Positions

(* Between two passes the state last returned is that of all the keys: no  *)
(* change of a key is missed by a pass or left for a later one.  During a  *)
(* pass the bits collected are those of the keys before the position.      *)
ChangesReturned ==
    /\ at # "scan" => synchronized = outputState
    /\ keyState = outputState \cap {k \in Positions : at = "scan" /\ k < position}

(* A key that stays down, or up, is in the end returned as such: the time  *)
(* does not start anew without a change, and no pass is left out.          *)
Settles ==
    \A k \in Positions :
        <>[][~Renew]_vars =>
            /\ <>[](k \in raw) => <>[](k \in synchronized)
            /\ <>[](k \notin raw) => <>[](k \notin synchronized)
=============================================================================
