---------------------------- MODULE SampleHistory ----------------------------
(***************************************************************************)
(* Debounce with the times at which each key was last sampled down and up, *)
(* for a property that relates the output to the samples before it.  The   *)
(* history restricts no step.                                              *)
(***************************************************************************)
EXTENDS Debounce

VARIABLES
    sinceDown,  \* ticks since the key was last sampled down, saturating
    sinceUp     \* ticks since it was last sampled up

sampleVars == <<sinceDown, sinceUp>>
svars == <<vars, sampleVars>>

SInit ==
    /\ Init
    /\ sinceDown = [k \in Positions |-> DebounceTicks]
    /\ sinceUp = [k \in Positions |-> DebounceTicks]

SSample ==
    /\ Sample
    /\ IF position \in raw
       THEN /\ sinceDown' = [sinceDown EXCEPT ![position] = 0]
            /\ UNCHANGED sinceUp
       ELSE /\ sinceUp' = [sinceUp EXCEPT ![position] = 0]
            /\ UNCHANGED sinceDown

SOther == (PassDone \/ StartPass \/ Renew \/ Contact) /\ UNCHANGED sampleVars

STick ==
    /\ Tick
    /\ sinceDown' = Older(sinceDown)
    /\ sinceUp' = Older(sinceUp)

SNext == SSample \/ SOther \/ STick

SSpec == SInit /\ [][SNext]_svars /\ Fairness

(* A key only comes to count as down, or as up, if no sample of the last   *)
(* DEBOUNCE_TICKS said otherwise, whatever pins, passes, pauses and new    *)
(* connections came before.  So it changes at most once in that time.  New *)
(* keys are up without any sample.                                         *)
ChangesAreStable ==
    [][\A k \in Positions :
           /\ k \in outputState' \ outputState => sinceUp[k] >= DebounceTicks
           /\ k \in outputState \ outputState' =>
                  sinceDown[k] >= DebounceTicks \/ Renew]_svars

(* The age of a state that is not yet that of the output is at most the    *)
(* time since the opposite was sampled: what makes ChangesAreStable hold.  *)
AgeIsOfSamples ==
    \A k \in Positions :
        /\ k \in internalState \ outputState => age[k] <= sinceUp[k]
        /\ k \in outputState \ internalState => age[k] <= sinceDown[k]

STypeOK ==
    /\ TypeOK
    /\ sinceDown \in [Positions -> 0 .. DebounceTicks]
    /\ sinceUp \in [Positions -> 0 .. DebounceTicks]
=============================================================================
