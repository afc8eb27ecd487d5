----------------------------- MODULE FlashProofs -----------------------------
(***************************************************************************)
(* FlashStorage for every number of bonds and every width of a word: the   *)
(* flags collected since the last apply always say enough, so that an      *)
(* apply never leaves a word that is a mixture of two settings.            *)
(***************************************************************************)
EXTENDS FlashStorage, SequenceTheorems, TLAPS

(* What an erase has done so far, and what a write has.                    *)
Erasing ==
    at = "erase" =>
        /\ applyFlags = {"ERASE", "WRITE"}
        /\ \A f \in Fields : flash[f] = IF f \in unfinished THEN saved[f] ELSE Bits

Writing ==
    at = "write" =>
        /\ applyFlags # {}
        /\ \A f \in unfinished : ram[f] \subseteq flash[f] /\ flash[f] \in {saved[f], Bits}
        /\ \A f \in Fields \ unfinished : flash[f] = ram[f]

IInv == TypeOK /\ FlagsSuffice /\ NoMixture /\ Erasing /\ Writing

-----------------------------------------------------------------------------
(* At the start no word is being erased or written.                        *)
LEMMA InitInvariant == Init => IInv
<1> SUFFICES ASSUME Init PROVE IInv
    OBVIOUS
<1>1. flash \in Settings
    BY DEF Init, Settings, Words, Zeroed
<1>2. << >> \in Seq(Operation) /\ Len(<< >>) = 0
    OBVIOUS
<1>3. TypeOK
    BY <1>1, <1>2, ChannelSizeAssumption DEF Init, TypeOK
<1> QED
    BY <1>1, <1>3 DEF Init, IInv, FlagsSuffice, NoMixture, Erasing, Writing

(* The operations that a handler takes have their types.                   *)
LEMMA OperationTypes ==
    ASSUME NEW operation \in Operation
    PROVE  /\ operation.kind = "StorePeer" =>
                <<"peer", operation.slot>> \in Fields /\ operation.value \in Words
           /\ operation.kind = "StoreSystemAttributes" =>
                <<"system_attributes", operation.slot>> \in Fields /\ operation.value \in Words
           /\ operation.kind = "StoreBoardFlash" =>
                <<"board_flash", "board">> \in Fields /\ operation.value \in Words
    BY DEF Operation, Fields

(* Handling one operation keeps the flags sufficient.                      *)
LEMMA ReceiveInvariant ==
    ASSUME IInv, Receive
    PROVE  IInv'
<1> DEFINE operation == Head(queue)
<1> USE DEF IInv
<1>1. /\ operation \in Operation
      /\ queue' \in Seq(Operation)
      /\ Len(queue') <= ChannelSize
    <2>1. queue \in Seq(Operation) /\ queue # << >> /\ Len(queue) <= ChannelSize
        BY DEF TypeOK, Receive
    <2>2. Head(queue) \in Operation /\ Tail(queue) \in Seq(Operation)
        BY <2>1, HeadTailProperties
    <2>3. Len(Tail(queue)) = Len(queue) - 1 /\ Len(queue) \in Nat
        BY <2>1, HeadTailProperties, LenProperties
    <2> QED
        BY <2>1, <2>2, <2>3, ChannelSizeAssumption DEF Receive
<1>2. /\ ram' \in Settings
      /\ applyFlags' \subseteq {"ERASE", "WRITE"}
      /\ FlagsSuffice'
    <2>0. /\ at = "select" /\ at' = "select" /\ flash' = flash
          /\ ram \in Settings /\ flash \in Settings
          /\ applyFlags \subseteq {"ERASE", "WRITE"}
        BY DEF Receive, TypeOK
    <2> HIDE DEF IInv
    <2>1. CASE StoreValue(operation)
        <3>1. PICK f \in Fields, v \in Words : Store(f, v)
            BY <1>1, <2>1, OperationTypes DEF StoreValue
        <3>2. applyFlags' = applyFlags \cup {"ERASE", "WRITE"}
            BY <2>1 DEF StoreValue, StoreFlags
        <3>3. ram' \in Settings
            BY <2>0, <3>1 DEF Store, Settings
        <3> QED
            BY <2>0, <3>2, <3>3 DEF FlagsSuffice
    <2>2. ASSUME ram' \in Settings, \A f \in Fields : ram'[f] \subseteq ram[f], ClearFlags
          PROVE  applyFlags' \subseteq {"ERASE", "WRITE"} /\ FlagsSuffice'
        <3>1. applyFlags' = applyFlags \cup {"WRITE"}
            BY <2>2 DEF ClearFlags
        <3>2. "ERASE" \notin applyFlags => \A f \in Fields : ram[f] \subseteq flash[f]
            BY <2>0 DEF IInv, FlagsSuffice
        <3>3. "ERASE" \notin applyFlags' => \A f \in Fields : ram'[f] \subseteq flash[f]
            BY <2>2, <3>1, <3>2
        <3> QED
            BY <2>0, <3>1, <3>3 DEF FlagsSuffice
    <2>3. CASE operation.kind = "RemoveBond" /\ RemoveBond(operation.slot)
        <3>1. CASE UNCHANGED <<ram, applyFlags>>
            BY <2>0, <3>1 DEF IInv, FlagsSuffice
        <3>2. CASE ~ UNCHANGED <<ram, applyFlags>>
            <4> DEFINE cleared == {<<"peer", operation.slot>>, <<"system_attributes", operation.slot>>}
            <4>1. ClearFlags /\ ram' = [f \in Fields |-> IF f \in cleared THEN {} ELSE ram[f]]
                BY <2>3, <3>2 DEF RemoveBond
            <4> HIDE DEF cleared
            <4>2. ram' \in Settings /\ \A f \in Fields : ram'[f] \subseteq ram[f]
                BY <2>0, <4>1 DEF Settings, Words
            <4> QED
                BY <2>2, <4>1, <4>2
        <3> QED
            BY <3>1, <3>2
    <2>4. CASE operation.kind = "ResetPersistentData" /\ ram' = Zeroed /\ ClearFlags
        <3>1. ram' \in Settings /\ \A f \in Fields : ram'[f] \subseteq ram[f]
            BY <2>4 DEF Zeroed, Settings, Words
        <3> QED
            BY <2>2, <2>4, <3>1
    <2> QED
        BY <2>1, <2>3, <2>4 DEF Receive
<1>3. TypeOK'
    BY <1>1, <1>2 DEF TypeOK, Receive
<1>4. NoMixture' /\ Erasing' /\ Writing'
    BY DEF Receive, NoMixture, Erasing, Writing
<1> QED
    BY <1>2, <1>3, <1>4

(* Every other step does.                                                  *)
LEMMA NextInvariant == IInv /\ [Next]_vars => IInv'
<1> SUFFICES ASSUME IInv, [Next]_vars PROVE IInv'
    OBVIOUS
<1> USE DEF IInv
<1>1. ASSUME NEW operation \in Operation, Send(operation) PROVE IInv'
    <2>1. queue' \in Seq(Operation) /\ Len(queue') <= ChannelSize
        <3>1. queue \in Seq(Operation) /\ Len(queue) < ChannelSize /\ queue' = Append(queue, operation)
            BY <1>1 DEF TypeOK, Send
        <3> QED
            BY <3>1, AppendProperties, LenProperties, ChannelSizeAssumption
    <2>2. TypeOK'
        BY <1>1, <2>1 DEF TypeOK, Send
    <2> QED
        BY <1>1, <2>2 DEF Send, FlagsSuffice, NoMixture, Erasing, Writing
<1>2. CASE Receive
    BY <1>2, ReceiveInvariant
<1>3. CASE Timeout
    <2>1. TypeOK'
        BY <1>3 DEF TypeOK, Timeout
    <2>2. flash = saved /\ ("ERASE" \notin applyFlags => \A f \in Fields : ram[f] \subseteq flash[f])
        BY <1>3 DEF FlagsSuffice, NoMixture, Timeout
    <2>3. Erasing'
        BY <1>3, <2>2 DEF TypeOK, Timeout, Erasing
    <2>4. Writing'
        BY <1>3, <2>2 DEF Timeout, Writing
    <2> QED
        BY <1>3, <2>1, <2>2, <2>3, <2>4 DEF Timeout, FlagsSuffice, NoMixture
<1>4. CASE EraseField
    <2>1. PICK g \in unfinished : /\ flash' = [flash EXCEPT ![g] = Bits]
                                  /\ unfinished' = unfinished \ {g}
        BY <1>4 DEF EraseField
    <2>2. g \in Fields /\ flash \in [Fields -> Words] /\ at = "erase" /\ at' = "erase"
        BY <1>4 DEF TypeOK, Settings, EraseField
    <2>3. flash' \in Settings /\ unfinished' \subseteq Fields
        BY <2>1, <2>2 DEF TypeOK, Settings, Words
    <2>4. TypeOK'
        BY <1>4, <2>3 DEF TypeOK, EraseField
    <2>5. Erasing'
        BY <1>4, <2>1, <2>2 DEF Erasing, EraseField
    <2>6. NoMixture'
        BY <1>4, <2>2, <2>5 DEF Erasing, NoMixture, EraseField
    <2> QED
        BY <2>2, <2>4, <2>5, <2>6 DEF FlagsSuffice, Writing
<1>5. CASE Erased
    <2>1. TypeOK'
        BY <1>5 DEF TypeOK, Erased
    <2>2. \A f \in Fields : flash[f] = Bits /\ ram[f] \subseteq Bits
        BY <1>5 DEF Erased, Erasing, TypeOK, Settings, Words
    <2>3. Writing'
        BY <1>5, <2>2 DEF Erased, Erasing, Writing
    <2> QED
        BY <1>5, <2>1, <2>2, <2>3 DEF Erased, FlagsSuffice, NoMixture, Erasing
<1>6. CASE WriteField
    <2>1. PICK g \in unfinished : /\ flash' = [flash EXCEPT ![g] = @ \cap ram[g]]
                                  /\ unfinished' = unfinished \ {g}
        BY <1>6 DEF WriteField
    <2>2. /\ g \in Fields /\ flash \in [Fields -> Words] /\ ram \in [Fields -> Words]
          /\ at = "write" /\ at' = "write"
        BY <1>6 DEF TypeOK, Settings, WriteField
    <2>3. ram[g] \subseteq flash[g]
        BY <2>2 DEF Writing
    <2>4. flash' = [flash EXCEPT ![g] = ram[g]]
        BY <2>1, <2>2, <2>3
    <2>5. TypeOK'
        BY <1>6, <2>1, <2>2, <2>4 DEF TypeOK, Settings, WriteField
    <2>6. Writing'
        BY <1>6, <2>1, <2>2, <2>4 DEF TypeOK, Writing, WriteField
    <2>7. NoMixture'
        BY <1>6, <2>2, <2>4 DEF NoMixture, WriteField
    <2> QED
        BY <2>2, <2>5, <2>6, <2>7 DEF FlagsSuffice, Erasing
<1>7. CASE Written
    <2>1. TypeOK'
        BY <1>7 DEF TypeOK, Written
    <2>2. \A f \in Fields : flash[f] = ram[f]
        BY <1>7 DEF Written, Writing
    <2>3. flash = ram
        BY <2>2 DEF TypeOK, Settings
    <2> QED
        BY <1>7, <2>1, <2>3 DEF Written, FlagsSuffice, NoMixture, Erasing, Writing
<1>8. CASE Restart
    <2>1. << >> \in Seq(Operation) /\ Len(<< >>) = 0
        OBVIOUS
    <2>2. TypeOK'
        BY <1>8, <2>1, ChannelSizeAssumption DEF TypeOK, Restart
    <2> QED
        BY <1>8, <2>2 DEF Restart, FlagsSuffice, NoMixture, Erasing, Writing
<1>9. CASE UNCHANGED vars
    BY <1>9 DEF vars, TypeOK, FlagsSuffice, NoMixture, Erasing, Writing
<1> QED
    BY <1>1, <1>2, <1>3, <1>4, <1>5, <1>6, <1>7, <1>8, <1>9 DEF Next, FlashTask

-----------------------------------------------------------------------------
(* The invariant holds in every reachable state.                           *)
LEMMA InvariantHolds == Spec => []IInv
<1>1. Init => IInv
    BY InitInvariant
<1>2. IInv /\ [Next]_vars => IInv'
    BY NextInvariant
<1> QED
    BY <1>1, <1>2, PTL DEF Spec

(* The settings, the flash, the flags and the queue keep their types, and  *)
(* the channel its size.                                                   *)
THEOREM FlashTypes == Spec => []TypeOK
<1>1. IInv => TypeOK
    BY DEF IInv
<1> QED
    BY <1>1, InvariantHolds, PTL

(* However operations are mixed between two applies, flash_task erases     *)
(* whenever a bit must be set, and writes whenever anything has changed.   *)
THEOREM FlagsAlwaysSuffice == Spec => []FlagsSuffice
<1>1. IInv => FlagsSuffice
    BY DEF IInv
<1> QED
    BY <1>1, InvariantHolds, PTL

(* Whenever power fails, each word that initialize_flash will read is the  *)
(* one before, the one to come, or an erased one.                          *)
THEOREM NeverMixture == Spec => []NoMixture
<1>1. IInv => NoMixture
    BY DEF IInv
<1> QED
    BY <1>1, InvariantHolds, PTL
=============================================================================
