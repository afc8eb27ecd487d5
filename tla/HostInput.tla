------------------------------ MODULE HostInput ------------------------------
(***************************************************************************)
(* The master half and its host: what update_master_state and              *)
(* send_input_report of split/master.rs make of the output of apply, and   *)
(* the loop of do_master around them.                                      *)
(*                                                                         *)
(* A report is the union of the modifiers and the set of the key codes in  *)
(* the six bytes after them; the order of the bytes means nothing to the   *)
(* host.  The softdevice queues notifications until the radio sends them.  *)
(***************************************************************************)
EXTENDS KeyHistory

CONSTANTS
    ReportSlots,   \* key codes that fit a report (REPORT_SIZE - 2)
    NotifyQueue,   \* hvn_tx_queue_size
    ErrOvf         \* the code that fills a report with too many keys

ASSUME ReportSlotsAssumption == ReportSlots \in Nat \ {0}
ASSUME NotifyQueueAssumption == NotifyQueue \in Nat \ {0}

VARIABLES
    hostConnected,  \* update_master_state runs, and not advertise_pairable
    hostReport,     \* the last report given to the softdevice for this host
    unsent,         \* notifications the softdevice has not sent yet
    behind,         \* no report since the host connected or a call was dropped
    failed          \* input_report_notify failed: unwrap() panics

hostVars == <<hostConnected, hostReport, unsent, behind, failed>>
allVars == <<vars, hostVars, historyVars>>

NothingPressed == [modifiers |-> {}, codes |-> {}]

HostInit ==
    /\ Init
    /\ NoHistory
    /\ hostConnected = FALSE
    /\ hostReport = NothingPressed
    /\ unsent = 0
    /\ behind = FALSE
    /\ failed = FALSE

-----------------------------------------------------------------------------
(* send_input_report                                                       *)

\* The last modifier counts only if no tap is pending for its key.
ReportedModifiers(stack) ==
    UNION {stack[i].value :
              i \in {j \in DOMAIN stack :
                        j < Len(stack) \/ ~IsPending(stack[j])}}

KeysWithCode(layer, keys) ==
    {k \in keys : LayerLookup[layer][k].tap.kind = "keycode"}

\* Faulty: one key too many before the report counts as full.
FirstKeysAndOne(keys) ==
    {k \in keys : Cardinality({j \in keys : j <= k}) <= ReportSlots + 1}

\* The keys the loop adds before it finds the report full.
FirstKeys(keys) ==
    {k \in keys : Cardinality({j \in keys : j <= k}) <= ReportSlots}

InputReport(modifiers, layer, keys) ==
    LET all == KeysWithCode(layer, keys)
        sent == FirstKeys(all)
    IN  [modifiers |-> ReportedModifiers(modifiers)
                          \cup UNION {LayerLookup[layer][k].tap.modifiers : k \in sent},
         codes |-> IF sent = all THEN {LayerLookup[layer][k].tap.code : k \in all}
                                 ELSE {ErrOvf}]

-----------------------------------------------------------------------------
(* update_master_state sends a report with the injected keys, if any, and  *)
(* one without.  unwrap() panics when the queue is full, and also when the *)
(* host has gone, which the master learns later, or has not asked for      *)
(* notifications: it may fail at any time.                                 *)
Notifications == IF output'.injected = {} THEN 1 ELSE 2

\* Faulty: the report with the injected keys is sent last.
TapLast == InputReport(activeModifiers', output'.layer, output'.keys \cup output'.injected)

LastReport == InputReport(activeModifiers', output'.layer, output'.keys)

SendReport ==
    /\ hostConnected
    /\ output'.kind = "report"
    /\ \/ /\ unsent + Notifications <= NotifyQueue
          /\ hostReport' = LastReport
          /\ unsent' = unsent + Notifications
          /\ behind' = FALSE
          /\ UNCHANGED failed
       \/ /\ failed' = TRUE
          /\ UNCHANGED <<hostReport, unsent, behind>>
    /\ UNCHANGED hostConnected

(* While no host is connected do_master discards what master_scan returns. *)
Discard ==
    /\ ~hostConnected \/ output'.kind = "none"
    /\ UNCHANGED hostVars

HostApply(saved) ==
    /\ ~failed
    /\ \/ ApplyUnchanged(saved)
       \/ ApplyKeys(saved)
       \/ \E k \in Pressed(saved) : ApplyLayer(saved, k) \/ ApplyModifier(saved, k)
    /\ SendReport \/ Discard

(* A push panics inside apply: nothing is returned, nothing is sent.       *)
Stopped(saved) ==
    /\ ~failed
    /\ \E k \in Pressed(saved) : ApplyOverflow(saved, k)
    /\ UNCHANGED hostVars

(* A host connects: gatt_server::run starts, no report has been sent.      *)
Connected ==
    /\ ~hostConnected
    /\ hostConnected' = TRUE
    /\ hostReport' = NothingPressed
    /\ unsent' = 0
    /\ behind' = TRUE
    /\ UNCHANGED failed

(* It leaves, and releases what it held.                                   *)
Disconnected ==
    /\ hostConnected
    /\ hostConnected' = FALSE
    /\ hostReport' = NothingPressed
    /\ unsent' = 0
    /\ behind' = FALSE
    /\ UNCHANGED failed

(* A battery level is ready first: update_master_state drops master_scan   *)
(* and starts it again.  The level is a notification too, if the host asks *)
(* for them and the queue has room; its failure is only logged.            *)
NotifyBattery ==
    /\ hostConnected
    /\ unsent' \in {unsent, unsent + 1} \cap 0 .. NotifyQueue
    /\ UNCHANGED <<hostConnected, hostReport, failed>>

(* The three events that drop master_scan while apply waits.               *)
Dropped(saved) ==
    /\ ~failed
    /\ \E k \in Pressed(saved) : ApplyCancelled(saved, k)
    /\ \/ Connected
       \/ Disconnected
       \/ NotifyBattery /\ behind' = TRUE

HostChange ==
    /\ ~failed /\ ~panicked
    /\ Connected \/ Disconnected
    /\ UNCHANGED vars

\* It arrives while master_scan waits for a key.
BatteryLevel ==
    /\ ~failed /\ ~panicked
    /\ NotifyBattery
    /\ UNCHANGED <<vars, behind>>

(* The radio sends the queued notifications.                               *)
Transmit ==
    /\ ~failed /\ ~panicked
    /\ unsent > 0
    /\ unsent' = 0
    /\ UNCHANGED <<vars, hostConnected, hostReport, behind, failed>>

HostTick ==
    /\ ~failed
    /\ Tick
    /\ UNCHANGED hostVars

(* The halves lose each other: do_master returns, which drops the host     *)
(* connection, and the next one starts with MasterState::new().            *)
HalfDisconnected ==
    /\ ~failed
    /\ Reset
    /\ hostConnected' = FALSE
    /\ hostReport' = NothingPressed
    /\ unsent' = 0
    /\ behind' = FALSE
    /\ UNCHANGED failed

HostNext ==
    /\ \/ \E saved \in SUBSET Keys : HostApply(saved) \/ Stopped(saved) \/ Dropped(saved)
       \/ HostChange
       \/ BatteryLevel
       \/ Transmit
       \/ HostTick
       \/ HalfDisconnected
    /\ Record

HostSpec == HostInit /\ [][HostNext]_allVars

-----------------------------------------------------------------------------
(* Properties.                                                             *)

(* The report never holds more codes than it has room for, however many    *)
(* keys are down, and the softdevice's queue is never overrun.             *)
HostTypeOK ==
    /\ hostConnected \in BOOLEAN
    /\ hostReport.modifiers \in Modifiers
    /\ hostReport.codes \subseteq Keycodes \cup {ErrOvf}
    /\ Cardinality(hostReport.codes) <= ReportSlots
    /\ unsent \in 0 .. NotifyQueue

\* The master runs, and has told this host the outcome of its last report.
InTouch == hostConnected /\ ~behind /\ ~failed

(* Every code and every modifier the host holds is one of a key that is    *)
(* down: nothing is typed, or stays down, for a key that is up.  A tap is  *)
(* released again by the call that sends it.                               *)
CodesOf(k) ==
    {LayerLookup[l][k].tap.code :
        l \in {m \in LayerIndices : LayerLookup[m][k].tap.kind = "keycode"}}

FlagsOf(k) ==
    (UNION {LayerLookup[l][k].hold.value :
               l \in {m \in LayerIndices : k \in ModifierKeys(m)}})
    \cup (UNION {LayerLookup[l][k].tap.modifiers :
                    l \in {m \in LayerIndices : LayerLookup[m][k].tap.kind = "keycode"}})

HostHoldsPressed ==
    InTouch =>
        /\ hostReport.codes \ {ErrOvf} \subseteq UNION {CodesOf(k) : k \in keyState}
        /\ hostReport.modifiers \subseteq UNION {FlagsOf(k) : k \in keyState}

(* What apply does not send again the host has: it lacks at most the       *)
(* modifiers that went down since its report, never a key or a release.    *)
HostLags ==
    InTouch
    => \E n \in 0 .. Len(activeModifiers) :
           hostReport = InputReport(SubSeq(activeModifiers, 1, n),
                                    CurrentLayerIndex, previousKeyState)

(* apply withholds a report only "to avoid sending the same input report   *)
(* multiple times": the one that would be sent now is the one the host has.*)
HostCurrent ==
    InTouch
    => hostReport = InputReport(activeModifiers, CurrentLayerIndex, previousKeyState)
=============================================================================
