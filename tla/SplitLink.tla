------------------------------ MODULE SplitLink ------------------------------
(***************************************************************************)
(* How the master half comes to know the keys of the slave half:           *)
(* slave_connection of split/slave.rs writes each new state to a           *)
(* characteristic of the master, and master_scan of split/master.rs serves *)
(* the write, combines it with its own state and calls apply.              *)
(*                                                                         *)
(* The GATT server of nrf-softdevice answers a write whether or not        *)
(* anybody waits for it; its event reaches the closure of run_until only   *)
(* while that future waits and has not broken off yet.  The closure keeps  *)
(* the value until the main task polls the future.                         *)
(***************************************************************************)
CONSTANTS
    KeyStates,  \* debounced states of one half, as do_scan returns them
    NoKeys,     \* the state in which every key is up
    None        \* no value

ASSUME KeyStatesAssumption == NoKeys \in KeyStates /\ None \notin KeyStates

VARIABLES
    slaveKeys,   \* previous_key_state of SlaveState
    slaveAt,     \* "scan" (in the select), "write" or "event"
    wire,        \* the state in the write request that is under way
    masterKeys,  \* master_raw_state
    masterAt,    \* "select", "apply" or "event" (waiting in that call)
    caught,      \* what the closure of run_until broke off with
    copy,        \* slave_raw_state
    applied,     \* the master's and the slave's part of apply's argument
    lostBy       \* why the slave's state did not get through

slaveVars == <<slaveKeys, slaveAt>>
masterVars == <<masterKeys, masterAt, copy, applied>>
linkVars == <<slaveVars, wire, masterVars, caught, lostBy>>

LinkInit ==
    /\ slaveKeys = NoKeys
    /\ slaveAt = "scan"
    /\ wire = None
    /\ masterKeys = NoKeys
    /\ masterAt = "select"
    /\ caught = None
    /\ copy = NoKeys
    /\ applied = [master |-> NoKeys, slave |-> NoKeys]
    /\ lostBy = {}

-----------------------------------------------------------------------------
(* The slave: scan, then write; or handle an event.                        *)

SlaveScan(keys) ==
    /\ slaveAt = "scan"
    /\ keys # slaveKeys
    /\ slaveKeys' = keys
    /\ slaveAt' = "write"
    /\ wire' = keys
    /\ lostBy' = {}
    /\ UNCHANGED <<masterVars, caught>>

SlaveWritten ==
    /\ slaveAt = "write"
    /\ wire = None
    /\ slaveAt' = "scan"
    /\ UNCHANGED <<slaveKeys, wire, masterVars, caught, lostBy>>

SlaveEvent ==
    /\ \/ slaveAt = "scan" /\ slaveAt' = "event"
       \/ slaveAt = "event" /\ slaveAt' = "scan"
    /\ UNCHANGED <<slaveKeys, wire, masterVars, caught, lostBy>>

-----------------------------------------------------------------------------
(* The master.                                                             *)

Listening == masterAt = "select" /\ caught = None

(* The write reaches the master: the closure, if any, breaks with it.      *)
Deliver ==
    /\ wire # None
    /\ wire' = None
    /\ IF Listening
       THEN caught' = wire /\ UNCHANGED lostBy
       ELSE lostBy' = lostBy \cup {"busy"} /\ UNCHANGED caught
    /\ UNCHANGED <<slaveVars, masterVars>>

(* The future of run_until is dropped, and what it broke off with.  It     *)
(* only matters if that is the state the slave is in.                      *)
Forget(why) ==
    /\ caught' = None
    /\ lostBy' = IF caught = slaveKeys /\ wire = None
                 THEN lostBy \cup {why} ELSE lostBy

\* Faulty: the state is combined with the raw state at the last change.
CombineStale(master, slave) ==
    applied' = [master |-> master, slave |-> applied.slave]

Combine(master, slave) == applied' = [master |-> master, slave |-> slave]

\* apply returns in the same poll, or waits for room in a channel.
CallApply == masterAt' \in {"select", "apply"}

(* The scan is looked at first, and wins if both are ready.                *)
MasterScan(keys) ==
    /\ masterAt = "select"
    /\ keys # masterKeys
    /\ masterKeys' = keys
    /\ Combine(keys, copy)
    /\ Forget("scan")
    /\ CallApply
    /\ UNCHANGED <<slaveVars, wire, copy>>

\* Faulty: slave_raw_state is not updated.
KeepSlave == copy' = copy

UpdateSlave == copy' = caught

TakeSlaveState ==
    /\ masterAt = "select"
    /\ caught # None
    /\ UpdateSlave
    /\ Combine(masterKeys, caught)
    /\ caught' = None
    /\ CallApply
    /\ UNCHANGED <<slaveVars, wire, masterKeys, lostBy>>

(* An event is looked at last.                                             *)
MasterEvent ==
    /\ Listening
    /\ masterAt' = "event"
    /\ UNCHANGED <<slaveVars, wire, masterKeys, copy, applied, caught, lostBy>>

MasterResume ==
    /\ masterAt \in {"apply", "event"}
    /\ masterAt' = "select"
    /\ UNCHANGED <<slaveVars, wire, masterKeys, copy, applied, caught, lostBy>>

(* A host connects or leaves: that future is looked at before master_scan, *)
(* which is dropped wherever it is and starts again.  (A battery level is  *)
(* looked at after it, and drops it only while it waits: MasterResume.)    *)
HostChange ==
    /\ masterAt' = "select"
    /\ Forget("host")
    /\ UNCHANGED <<slaveVars, wire, masterKeys, copy, applied>>

(* The halves lose each other, and start again with new states.            *)
Reconnect ==
    /\ slaveKeys' = NoKeys
    /\ slaveAt' = "scan"
    /\ wire' = None
    /\ masterKeys' = NoKeys
    /\ masterAt' = "select"
    /\ caught' = None
    /\ copy' = NoKeys
    /\ applied' = [master |-> NoKeys, slave |-> NoKeys]
    /\ lostBy' = {}

LinkNext ==
    \/ \E keys \in KeyStates : SlaveScan(keys) \/ MasterScan(keys)
    \/ SlaveWritten
    \/ SlaveEvent
    \/ Deliver
    \/ TakeSlaveState
    \/ MasterEvent
    \/ MasterResume
    \/ HostChange
    \/ Reconnect

(* The link layer repeats a packet until it arrives or the halves lose     *)
(* each other; the executor polls the main task again when it is woken;    *)
(* the channels that a special action waits for are drained by other       *)
(* tasks.                                                                  *)
LinkFairness ==
    /\ WF_linkVars(Deliver)
    /\ WF_linkVars(SlaveWritten)
    /\ WF_linkVars(TakeSlaveState)
    /\ WF_linkVars(MasterResume)

LinkSpec == LinkInit /\ [][LinkNext]_linkVars /\ LinkFairness

-----------------------------------------------------------------------------
(* Properties.                                                             *)

(* Every variable has its type.                                            *)
LinkTypeOK ==
    /\ slaveKeys \in KeyStates
    /\ slaveAt \in {"scan", "write", "event"}
    /\ wire \in KeyStates \cup {None}
    /\ masterKeys \in KeyStates
    /\ masterAt \in {"select", "apply", "event"}
    /\ caught \in KeyStates \cup {None}
    /\ copy \in KeyStates
    /\ applied \in [master : KeyStates, slave : KeyStates]
    /\ lostBy \subseteq {"busy", "scan", "host"}

(* Each half's part of what apply was last given is what the master knows  *)
(* of that half: no wake-up, of either half, combines a new part with one  *)
(* that is older than the last.                                            *)
AppliedLatest == applied = [master |-> masterKeys, slave |-> copy]

\* Nothing of the slave's state is under way.
Quiet == wire = None /\ caught = None

(* The master has the slave's state once nothing is under way, unless the  *)
(* write arrived while the master waited in apply or in an event handler,  *)
(* or was dropped in favour of a scan or of the host.  These are the only  *)
(* ways to lose it.                                                        *)
KnownUnlessLost == Quiet /\ lostBy = {} => copy = slaveKeys

(* A state that the slave keeps and that is not lost arrives.              *)
SlaveHeard ==
    \A keys \in KeyStates :
        <>[](slaveKeys = keys /\ lostBy = {}) => <>[](copy = keys)
=============================================================================
