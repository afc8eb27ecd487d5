---------------------------- MODULE FlashStorage ----------------------------
(***************************************************************************)
(* The settings of one half: flash_task and initialize_flash of            *)
(* flash/settings.rs, fed through the channel of flash/mod.rs, on a NOR    *)
(* flash that can only clear bits unless it is erased, and power that may  *)
(* fail at any time.                                                       *)
(*                                                                         *)
(* A field of the settings stands for one word of it, which the flash      *)
(* writes at once, and is the set of its bits that are 1.                  *)
(***************************************************************************)
EXTENDS Integers, Sequences

CONSTANTS
    Slots,        \* indices of bonds
    Bits,         \* bits of a field
    AddressBits,  \* those of the peer's address in the field of a peer
    ChannelSize   \* FLASH_CHANNEL_SIZE

ASSUME AddressBitsAssumption == AddressBits \subseteq Bits
ASSUME ChannelSizeAssumption == ChannelSize \in Nat

VARIABLES
    ram,         \* SETTINGS
    flash,       \* RESERVED_FLASH
    applyFlags,
    queue,       \* FLASH_OPERATIONS
    at,          \* "select", "erase" or "write"
    unfinished,  \* the fields that the erase or the write has yet to reach
    saved        \* history: what the flash held after the last apply or start

vars == <<ram, flash, applyFlags, queue, at, unfinished, saved>>

Fields == ({"peer", "system_attributes"} \X Slots) \cup {<<"board_flash", "board">>}
Words == SUBSET Bits
Settings == [Fields -> Words]

Zeroed == [f \in Fields |-> {}]

Operation ==
    [kind : {"StorePeer", "StoreSystemAttributes"}, slot : Slots, value : Words]
    \cup [kind : {"RemoveBond"}, slot : Slots]
    \cup [kind : {"StoreBoardFlash"}, value : Words]
    \cup {[kind |-> "ResetPersistentData"]}

\* initialize_flash copies the flash, whatever it holds, and the task starts.
Init ==
    /\ flash \in {Zeroed, [f \in Fields |-> Bits]}
    /\ ram = flash
    /\ applyFlags = {}
    /\ queue = << >>
    /\ at = "select"
    /\ unfinished = {}
    /\ saved = flash

-----------------------------------------------------------------------------
(* Operations come from the bonder, from special actions and callbacks,    *)
(* and from the other half.  With the channel full they wait or are lost.  *)
Send(operation) ==
    /\ Len(queue) < ChannelSize
    /\ queue' = Append(queue, operation)
    /\ UNCHANGED <<ram, flash, applyFlags, at, unfinished, saved>>

Store(field, value) == ram' = [ram EXCEPT ![field] = value]

\* Faulty: a bond is written without an erase.
StoreFlagsWriteOnly == applyFlags' = applyFlags \cup {"WRITE"}

StoreFlags == applyFlags' = applyFlags \cup {"ERASE", "WRITE"}

StoreValue(operation) ==
    /\ \/ /\ operation.kind = "StorePeer"
          /\ Store(<<"peer", operation.slot>>, operation.value)
       \/ /\ operation.kind = "StoreSystemAttributes"
          /\ Store(<<"system_attributes", operation.slot>>, operation.value)
       \/ /\ operation.kind = "StoreBoardFlash"
          /\ Store(<<"board_flash", "board">>, operation.value)
    /\ StoreFlags

\* Faulty: the flags of the operations before are forgotten.
ClearFlagsAssigned == applyFlags' = {"WRITE"}

\* Faulty: the slot is cleared in memory only.
ClearFlagsNone == applyFlags' = applyFlags

\* Zeroes clear bits: no erase is needed.
ClearFlags == applyFlags' = applyFlags \cup {"WRITE"}

\* The slot is free if the address is NO_ADDRESS.
RemoveBond(slot) ==
    IF ram[<<"peer", slot>>] \cap AddressBits = {}
    THEN UNCHANGED <<ram, applyFlags>>
    ELSE /\ ram' = [f \in Fields |->
                       IF f \in {<<"peer", slot>>, <<"system_attributes", slot>>}
                       THEN {} ELSE ram[f]]
         /\ ClearFlags

Receive ==
    /\ at = "select"
    /\ queue # << >>
    /\ queue' = Tail(queue)
    /\ LET operation == Head(queue)
       IN  \/ StoreValue(operation)
           \/ operation.kind = "RemoveBond" /\ RemoveBond(operation.slot)
           \/ operation.kind = "ResetPersistentData" /\ ram' = Zeroed /\ ClearFlags
    /\ UNCHANGED <<flash, at, unfinished, saved>>

(* FLASH_APPLY_TIME has passed without an operation.                       *)
Timeout ==
    /\ at = "select"
    /\ queue = << >>
    /\ "WRITE" \in applyFlags
    /\ at' = IF "ERASE" \in applyFlags THEN "erase" ELSE "write"
    /\ unfinished' = Fields
    /\ UNCHANGED <<ram, flash, applyFlags, queue, saved>>

EraseField ==
    /\ at = "erase"
    /\ \E f \in unfinished :
          /\ flash' = [flash EXCEPT ![f] = Bits]
          /\ unfinished' = unfinished \ {f}
    /\ UNCHANGED <<ram, applyFlags, queue, at, saved>>

Erased ==
    /\ at = "erase"
    /\ unfinished = {}
    /\ at' = "write"
    /\ unfinished' = Fields
    /\ UNCHANGED <<ram, flash, applyFlags, queue, saved>>

\* Writing cannot set a bit.
WriteField ==
    /\ at = "write"
    /\ \E f \in unfinished :
          /\ flash' = [flash EXCEPT ![f] = @ \cap ram[f]]
          /\ unfinished' = unfinished \ {f}
    /\ UNCHANGED <<ram, applyFlags, queue, at, saved>>

Written ==
    /\ at = "write"
    /\ unfinished = {}
    /\ at' = "select"
    /\ applyFlags' = {}
    /\ saved' = flash
    /\ UNCHANGED <<ram, flash, queue, unfinished>>

(* Power fails, or the half resets after a panic, and it starts again.     *)
Restart ==
    /\ ram' = flash
    /\ applyFlags' = {}
    /\ queue' = << >>
    /\ at' = "select"
    /\ unfinished' = {}
    /\ saved' = flash
    /\ UNCHANGED flash

FlashTask == Receive \/ Timeout \/ EraseField \/ Erased \/ WriteField \/ Written

Next ==
    \/ \E operation \in Operation : Send(operation)
    \/ FlashTask
    \/ Restart

(* The task is polled when it is woken; flash operations come to an end.   *)
Spec == Init /\ [][Next]_vars /\ WF_vars(FlashTask)

-----------------------------------------------------------------------------
(* Properties.                                                             *)

(* Every variable has its type.                                            *)
TypeOK ==
    /\ ram \in Settings
    /\ flash \in Settings
    /\ applyFlags \subseteq {"ERASE", "WRITE"}
    /\ queue \in Seq(Operation)
    /\ Len(queue) <= ChannelSize
    /\ at \in {"select", "erase", "write"}
    /\ unfinished \subseteq Fields
    /\ saved \in Settings

(* The flags say what the flash needs: without ERASE no bit of the flash   *)
(* would have to be set, however many operations came since the last apply *)
(* and in whichever order, and without WRITE it is up to date.             *)
FlagsSuffice ==
    at = "select" =>
        /\ "ERASE" \notin applyFlags => \A f \in Fields : ram[f] \subseteq flash[f]
        /\ applyFlags = {} => flash = ram

(* Power that fails while settings are applied leaves each word as it was  *)
(* before, as it was to become, or erased - never a mixture of its bits;   *)
(* and outside of that it leaves what was last applied.                    *)
NoMixture ==
    /\ \A f \in Fields : flash[f] \in {saved[f], ram[f], Bits}
    /\ at = "select" => flash = saved

(* Once no more operations come, the flash gets the settings, unless power *)
(* fails.                                                                  *)
QuietlySaved ==
    <>[][~Restart /\ \A operation \in Operation : ~Send(operation)]_vars
        => <>[](flash = ram)
=============================================================================
