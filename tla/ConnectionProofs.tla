--------------------------- MODULE ConnectionProofs ---------------------------
(***************************************************************************)
(* The connection of the halves.  Proofs about Election, which makes it:   *)
(* for all random numbers, with and without the feature auto-reset; and    *)
(* about SplitLink, which uses it: what the master knows of the slave's    *)
(* keys, for any set of key states.                                        *)
(***************************************************************************)
EXTENDS Election, SplitLink, TLAPS

(* Where two halves that are in step may be, in the order of a round.      *)

\* They are connected for the election: what is known of the left's role.
Electing ==
    /\ link
    /\ \A h \in Halves : phase[h] \in Determining(h)
    /\ written = "handled" =>
           /\ phase["left"] = "serve"
           /\ isMaster["left"] = attribute

\* The right half has its role, the left one is about to see that.
Elected ==
    /\ ~link
    /\ phase["left"] = "serve" /\ phase["right"] \in {"master", "slave"}
    /\ written = "handled"
    /\ isMaster["left"] = attribute /\ isMaster["right"] = ~attribute

RolesDiffer == isMaster["left"] # isMaster["right"]

Pairing ==
    /\ ~link
    /\ \A h \in Halves : phase[h] \in {"master", "slave"}
    /\ RolesDiffer

Together ==
    /\ link
    /\ \A h \in Halves : phase[h] = "discover" \/ HasPaired(h)
    /\ RolesDiffer

\* They have lost each other, or have not met.
Apart ==
    /\ ~link
    /\ \A h \in Halves :
           HasPaired(h) \/ phase[h] \in {"start", "disconnected", "panicked"}
    /\ (\A h \in Halves : HasPaired(h)) => RolesDiffer

InStep == Electing \/ Elected \/ Pairing \/ Together \/ Apart

IInv == TypeOK /\ (upset = {} => InStep)

(* At the start the halves have not met.                                   *)
LEMMA InitIInv == Init => IInv
<1> SUFFICES ASSUME Init PROVE IInv
  OBVIOUS
<1>1. Apart
  BY DEF Init, Apart, HasPaired, Halves
<1>2. \A h \in Halves : phase[h] \in Phases(h)
  BY DEF Init, Phases
<1>3. TypeOK
  BY <1>2 DEF Init, TypeOK, Phases
<1> QED  BY <1>1, <1>3 DEF IInv, InStep

(* Each step keeps the types.                                              *)
LEMMA NextTypeOK == TypeOK /\ [Next]_vars => TypeOK'
<1> SUFFICES ASSUME TypeOK, [Next]_vars PROVE TypeOK'
  OBVIOUS
<1> USE DEF TypeOK, Halves, Phases, Decided, Determining, Reasons, GoesTo
<1>1. CASE Connect
  BY <1>1 DEF Connect, Connected
<1>2. ASSUME NEW h \in Halves, Step(h) PROVE TypeOK'
  <2>1. CASE Generate(h)
    BY <2>1 DEF Generate
  <2>2. CASE Discover(h)
    BY <2>2 DEF Discover
  <2>3. CASE Notice(h)
    BY <2>3 DEF Notice, Upset
  <2>4. CASE Unwrap(h)
    BY <2>4 DEF Unwrap
  <2> QED  BY <1>2, <2>1, <2>2, <2>3, <2>4 DEF Step
<1>3. ASSUME NEW h \in Halves, Restart(h) PROVE TypeOK'
  BY <1>3 DEF Restart, Upset
<1>4. CASE WriteNumber
  BY <1>4 DEF WriteNumber
<1>5. CASE Compare
  BY <1>5 DEF Compare, Wins
<1>6. CASE Miss
  BY <1>6 DEF Miss
<1>7. CASE Read
  BY <1>7 DEF Read
<1>8. CASE ServerEnds
  BY <1>8 DEF ServerEnds
<1>9. CASE Lose
  BY <1>9 DEF Lose, LinkGone
<1>10. ASSUME NEW h \in Halves, Stall(h) \/ Resume(h) PROVE TypeOK'
  BY <1>10 DEF Stall, Resume
<1>11. ASSUME NEW h \in Halves, Panic(h) PROVE TypeOK'
  BY <1>11 DEF Panic, LinkGone
<1>12. CASE UNCHANGED vars
  BY <1>12 DEF vars
<1> QED
  BY <1>1, <1>2, <1>3, <1>4, <1>5, <1>6, <1>7, <1>8, <1>9, <1>10, <1>11, <1>12
  DEF Next

(* Each step takes halves that are in step to the next stage, or says why  *)
(* they are not in step any more.                                          *)
LEMMA NextInStep ==
    ASSUME TypeOK, upset = {} => InStep, [Next]_vars, upset' = {}
    PROVE  InStep'
<1> USE DEF TypeOK, Halves, Determining, GoesTo, InStep, RolesDiffer, HasPaired
<1>1. CASE Connect
  BY <1>1 DEF Connect, Connected, Advertises, Scans, Other,
              Electing, Elected, Pairing, Together, Apart
<1>2. ASSUME NEW h \in Halves, Step(h) PROVE InStep'
  <2>1. CASE Generate(h)
    BY <2>1 DEF Generate, Electing, Elected, Pairing, Together, Apart
  <2>2. CASE Discover(h)
    BY <2>2 DEF Discover, Electing, Elected, Pairing, Together, Apart
  <2>3. CASE Notice(h)
    BY <2>3 DEF Notice, Upset, AtStart, Electing, Elected, Pairing, Together, Apart
  <2>4. CASE Unwrap(h)
    BY <2>4 DEF Unwrap, Electing, Elected, Pairing, Together, Apart
  <2> QED  BY <1>2, <2>1, <2>2, <2>3, <2>4 DEF Step
<1>3. ASSUME NEW h \in Halves, Restart(h) PROVE InStep'
  BY <1>3 DEF Restart, Upset, AtStart, Other,
              Electing, Elected, Pairing, Together, Apart
<1>4. CASE WriteNumber
  BY <1>4 DEF WriteNumber, Electing, Elected, Pairing, Together, Apart
<1>5. CASE Compare
  BY <1>5 DEF Compare, Wins, Electing, Elected, Pairing, Together, Apart
<1>6. CASE Miss
  BY <1>6 DEF Miss, Electing, Elected, Pairing, Together, Apart
<1>7. CASE Read
  BY <1>7 DEF Read, Electing, Elected, Pairing, Together, Apart
<1>8. CASE ServerEnds
  BY <1>8 DEF ServerEnds, Electing, Elected, Pairing, Together, Apart
<1>9. CASE Lose
  BY <1>9 DEF Lose, LinkGone, Electing, Elected, Pairing, Together, Apart
<1>10. ASSUME NEW h \in Halves, Stall(h) \/ Resume(h) PROVE InStep'
  BY <1>10 DEF Stall, Resume, Electing, Elected, Pairing, Together, Apart
<1>11. ASSUME NEW h \in Halves, Panic(h) PROVE InStep'
  BY <1>11 DEF Panic, LinkGone, Electing, Elected, Pairing, Together, Apart
<1>12. CASE UNCHANGED vars
  BY <1>12 DEF vars, Electing, Elected, Pairing, Together, Apart
<1> QED
  BY <1>1, <1>2, <1>3, <1>4, <1>5, <1>6, <1>7, <1>8, <1>9, <1>10, <1>11, <1>12
  DEF Next

(* The invariant behind the theorems below.                                *)
THEOREM Invariance == Spec => []IInv
<1>1. IInv /\ [Next]_vars => IInv'
  BY NextTypeOK, NextInStep DEF IInv
<1> QED  BY InitIInv, <1>1, PTL DEF Spec

(* The variables keep their types.                                         *)
THEOREM ElectionTypes == Spec => []TypeOK
<1>1. IInv => TypeOK
  BY DEF IInv
<1> QED  BY <1>1, Invariance, PTL

(* The election yields one master and one slave, whatever the numbers and  *)
(* however often the halves lose each other.                               *)
THEOREM ElectsOneMaster == Spec => []OneMaster
<1>1. IInv => OneMaster
  <2> SUFFICES ASSUME InStep, BothDecided
               PROVE  isMaster["left"] # isMaster["right"]
    BY DEF IInv, OneMaster
  <2>1. ~Elected
    BY DEF Elected, BothDecided, Decided, Halves
  <2>2. ~Electing
    BY DEF Electing, BothDecided, Decided, Determining, Halves
  <2>3. Apart => RolesDiffer
    BY DEF Apart, BothDecided, Decided, HasPaired, Halves
  <2> QED  BY <2>1, <2>2, <2>3 DEF InStep, Pairing, Together, RolesDiffer
<1> QED  BY <1>1, Invariance, PTL

(* Connected halves are both in the election, or both past it.             *)
THEOREM NeverAtCrossPurposes == Spec => []SamePhase
<1>1. IInv => SamePhase
  <2> SUFFICES ASSUME InStep, link
               PROVE  phase["left"] \in Determining("left")
                          <=> phase["right"] \in Determining("right")
    BY DEF IInv, SamePhase
  <2>1. CASE Electing
    BY <2>1 DEF Electing, Halves
  <2>2. CASE Together
    BY <2>2 DEF Together, HasPaired, Halves, Determining
  <2> QED  BY <2>1, <2>2 DEF InStep, Elected, Pairing, Apart
<1> QED  BY <1>1, Invariance, PTL

-----------------------------------------------------------------------------
(* Where the slave's state is: under way as long as the slave waits for    *)
(* its write, then caught, then copied - or lost on the way.               *)
OnItsWay ==
    /\ wire # None => slaveAt = "write" /\ wire = slaveKeys
    /\ caught # None => masterAt = "select"
    /\ wire = None /\ lostBy = {} /\ caught # None => caught = slaveKeys
    /\ KnownUnlessLost

LinkIInv == LinkTypeOK /\ AppliedLatest /\ OnItsWay

(* At the start nothing is under way.                                      *)
LEMMA LinkStart == LinkInit => LinkIInv
BY KeyStatesAssumption
   DEF LinkInit, LinkIInv, LinkTypeOK, AppliedLatest, OnItsWay, KnownUnlessLost

(* Every step keeps the invariant.                                         *)
LEMMA LinkStep ==
    ASSUME LinkIInv, [LinkNext]_linkVars
    PROVE  LinkIInv'
<1> USE KeyStatesAssumption
<1> USE DEF LinkIInv, LinkTypeOK, AppliedLatest, OnItsWay, KnownUnlessLost, Quiet,
            slaveVars, masterVars
<1>1. CASE \E keys \in KeyStates : SlaveScan(keys)
  BY <1>1 DEF SlaveScan
<1>2. CASE \E keys \in KeyStates : MasterScan(keys)
  BY <1>2 DEF MasterScan, Combine, Forget, CallApply
<1>3. CASE SlaveWritten
  BY <1>3 DEF SlaveWritten
<1>4. CASE SlaveEvent
  BY <1>4 DEF SlaveEvent
<1>5. CASE Deliver
  <2>1. CASE Listening
    BY <1>5, <2>1 DEF Deliver, Listening
  <2>2. CASE ~Listening
    BY <1>5, <2>2 DEF Deliver
  <2> QED
    BY <2>1, <2>2
<1>6. CASE TakeSlaveState
  BY <1>6 DEF TakeSlaveState, UpdateSlave, Combine, CallApply
<1>7. CASE MasterEvent
  BY <1>7 DEF MasterEvent, Listening
<1>8. CASE MasterResume
  BY <1>8 DEF MasterResume
<1>9. CASE HostChange
  BY <1>9 DEF HostChange, Forget
<1>10. CASE Reconnect
  BY <1>10 DEF Reconnect
<1>11. CASE UNCHANGED linkVars
  BY <1>11 DEF linkVars
<1> QED
  BY <1>1, <1>2, <1>3, <1>4, <1>5, <1>6, <1>7, <1>8, <1>9, <1>10, <1>11 DEF LinkNext

(* The invariant holds in every reachable state.                           *)
LEMMA LinkInvariance == LinkSpec => []LinkIInv
<1>1. LinkIInv /\ [LinkNext]_linkVars => LinkIInv'
  BY LinkStep
<1> QED
  BY <1>1, LinkStart, PTL DEF LinkSpec

(* Every variable has its type.                                            *)
THEOREM LinkTypeCorrect == LinkSpec => []LinkTypeOK
BY LinkInvariance, PTL DEF LinkIInv

(* apply is given what the master knows of both halves.                    *)
THEOREM LatestIsApplied == LinkSpec => []AppliedLatest
BY LinkInvariance, PTL DEF LinkIInv

(* The master has the slave's state unless one of the named events lost it.*)
THEOREM KnownOrLost == LinkSpec => []KnownUnlessLost
BY LinkInvariance, PTL DEF LinkIInv, OnItsWay
=============================================================================
