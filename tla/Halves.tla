-------------------------------- MODULE Halves --------------------------------
(***************************************************************************)
(* What the halves tell each other: the channels of operations            *)
(* (flash/operation.rs, power.rs, led/mod.rs, split/event.rs), run_clients *)
(* (split/common.rs), which writes the other half's operations one at a    *)
(* time over the link, the GATT callbacks that receive them, the handlers  *)
(* of keyboards/butterboard.rs and the bonder, from which they come, and   *)
(* what becomes of them when the link is lost.  The halves have the        *)
(* feature auto-reset: they look for each other again.                     *)
(*                                                                         *)
(* An operation says what to put where: <<field, value, from>>.  A field   *)
(* is an output (the power pin, an animation), the stored settings of the  *)
(* board or a bond slot; from, the half that asks for it, is not in the    *)
(* code.  Electing a master is Election's, what happens to the flash       *)
(* FlashStorage's.                                                         *)
(***************************************************************************)
EXTENDS Naturals, Sequences, SequencesExt

CONSTANTS
    Animations, \* the LED strips with an animation
    Count,      \* how many animations a strip goes through
    Slots,      \* the bond slots, in order
    Peers,      \* the hosts
    Size,       \* the size of each channel
    First,      \* the halves that may be master first
    MaxActs,    \* bound on the callbacks (2 each), bonds and removals (3 each)
    MaxEvents,  \* bound on the events sent to both halves
    MaxDrops,   \* bound on the losses of the link
    MaxBusy     \* bound on the key writes that are answered Busy

ASSUME SizeAssumption == Size \in Nat \ {0} /\ Count \in Nat \ {0}
ASSUME SlotsAssumption == Slots \in Seq(ToSet(Slots)) /\ IsInjective(Slots)
ASSUME NamesAssumption ==
    /\ {"power", "board", "flash", "event", "sync", "free", "none", "key"}
           \cap (Animations \cup Peers \cup ToSet(Slots)) = {}
    /\ Animations \cap ToSet(Slots) = {} /\ IsFiniteSet(Animations)
ASSUME FirstAssumption == First # {} /\ First \subseteq {"left", "right"}
ASSUME BoundsAssumption == MaxActs \in Nat /\ MaxEvents \in Nat /\ MaxDrops \in Nat /\ MaxBusy \in Nat

VARIABLES
    linked,     \* the halves are connected
    master,     \* the half that is master
    running,    \* per half, do_master or do_slave is past the discovery
    stopped,    \* the halves that panicked
    own,        \* per half and kind, the channel of its own task
    path,       \* per half and kind, the channel to the other half; run_clients
                \* holds its head while it runs
    writing,    \* per half, what the one outstanding GATT write is about
    todo,       \* per half, the sends its main task still waits for
    data,       \* per half, persistent_data of the Butterboard in RAM
    applied,    \* per half and field, what its tasks have put there
    intended,   \* per field, the value of the last operation for both halves
    unsure,     \* the fields on which the halves may differ
    acts, events, drops, busy \* the counters the bounds are for

moving == <<own, path, writing, todo>>
ghosts == <<intended, unsure>>
counters == <<acts, events, drops, busy>>
vars == <<linked, master, running, stopped, moving, data, applied, ghosts,
          counters>>

Halves == {"left", "right"}
Other(h) == IF h = "left" THEN "right" ELSE "left"

Outputs == {"power"} \cup Animations
BondSlots == ToSet(Slots)
Fields == Outputs \cup {"board"} \cup BondSlots
Kinds == Outputs \cup {"flash", "event"}

(* PowerState and lighting_state: 0 is On.                                 *)
Cycle(o) == IF o = "power" THEN 2 ELSE Count
Positions(o) == 0 .. Cycle(o) - 1
Data == {d \in [Outputs -> 0 .. Count + 1] : \A o \in Outputs : d[o] \in Positions(o)}
Values(f) ==
    CASE f \in Outputs -> Positions(f)
      [] f = "board" -> Data
      [] f \in BondSlots -> Peers \cup {"free"}

KindOf(f) == CASE f \in Outputs -> f [] f = "sync" -> "event" [] OTHER -> "flash"

Zero == [o \in Outputs |-> 0]
Erased == [f \in Fields |->
             CASE f \in Outputs -> 0 [] f = "board" -> Zero [] OTHER -> "free"]

Init ==
    /\ linked = TRUE
    /\ master \in First
    /\ running = [h \in Halves |-> TRUE]
    /\ stopped = {}
    /\ own = [h \in Halves |-> [k \in Kinds |-> <<>>]]
    /\ path = own
    /\ writing = [h \in Halves |-> "none"]
    /\ todo = [h \in Halves |-> <<>>]
    /\ data = [h \in Halves |-> Zero]
    /\ applied = [h \in Halves |-> Erased]
    /\ intended = Erased
    /\ unsure = {}
    /\ acts = 0
    /\ events = 0
    /\ drops = 0
    /\ busy = 0

-----------------------------------------------------------------------------
(* Side::Both sends to the own task first, then to the other half.         *)
Op(h, f, v) == <<f, v, h>>
Field(op) == op[1]
Value(op) == op[2]
From(op) == op[3]
This(op) == <<[to |-> "own", op |-> op]>>

\* Faulty: Side::Both does not include the other half.
BothThisOnly(op) == This(op)

Both(op) == <<[to |-> "own", op |-> op], [to |-> "other", op |-> op]>>

Queues == {own[h][k] : h \in Halves, k \in Kinds}
              \cup {path[h][k] : h \in Halves, k \in Kinds}
InTransit == UNION {ToSet(q) : q \in Queues}
Waiting(h) == {todo[h][i].op : i \in DOMAIN todo[h]}
AllOps == InTransit \cup UNION {Waiting(h) : h \in Halves}
Pending(f) == \E op \in AllOps : Field(op) = f
FieldsOf(ops) == {Field(op) : op \in ops} \cap Fields

(* Two halves, or the main task and the bonder, at one field at a time.    *)
Crossed(h, f) ==
    \E op \in AllOps : Field(op) = f /\ (From(op) # h \/ op \in Waiting(h))

Idle(h) == running[h] /\ h \notin stopped /\ todo[h] = <<>> /\ writing[h] # "key"

(* The main task of half h begins to send what is in sends, in that order. *)
Send(h, sends) ==
    /\ todo' = [todo EXCEPT ![h] = sends]
    /\ LET ops == {sends[i].op : i \in DOMAIN sends}
           fields == FieldsOf(ops)
       IN /\ unsure' = (unsure \ {f \in fields : ~Pending(f)})
                           \cup {f \in fields : Crossed(h, f)}
          /\ intended' = [f \in Fields |->
                IF f \in fields THEN Value(CHOOSE op \in ops : Field(op) = f)
                ELSE intended[f]]

Act(n) == acts + n <= MaxActs /\ acts' = acts + n /\ UNCHANGED events

\* Faulty: what is stored is not the new value.
AdvanceStoresOld(h, o) ==
    LET value == (data[h][o] + 1) % Cycle(o)
        new == [data[h] EXCEPT ![o] = value]
    IN /\ data' = [data EXCEPT ![h] = new]
       /\ Send(h, Both(Op(h, o, value)) \o Both(Op(h, "board", data[h])))

(* Butterboard: the next value of an output is shown and then stored.      *)
Advance(h, o) ==
    LET value == (data[h][o] + 1) % Cycle(o)
        new == [data[h] EXCEPT ![o] = value]
    IN /\ data' = [data EXCEPT ![h] = new]
       /\ Send(h, Both(Op(h, o, value)) \o Both(Op(h, "board", new)))

ToggleLighting(h) == Advance(h, "power")

(* The special actions of the master's keys.                               *)
Callback ==
    /\ Idle(master)
    /\ \E o \in Outputs : Advance(master, o)
    /\ Act(2)
    /\ UNCHANGED <<linked, master, running, stopped, own, path, writing, applied, drops, busy>>

SyncAnimations ==
    /\ Idle(master)
    /\ Send(master, Both(Op(master, "sync", 0)))
    /\ events < MaxEvents
    /\ events' = events + 1
    /\ UNCHANGED acts
    /\ UNCHANGED <<linked, master, running, stopped, own, path, writing, data, applied,
                   drops, busy>>

RemoveBond(s) ==
    /\ Idle(master)
    /\ Send(master, Both(Op(master, s, "free")))
    /\ Act(3)
    /\ UNCHANGED <<linked, master, running, stopped, own, path, writing, data, applied,
                   drops, busy>>

(* Both halves handle an event, and both send the result to both.          *)
CanHandleEvent(h) == Idle(h) /\ own[h]["event"] # <<>>

HandleEvent(h) ==
    /\ CanHandleEvent(h)
    /\ own' = [own EXCEPT ![h]["event"] = Tail(@)]
    /\ ToggleLighting(h)
    /\ UNCHANGED <<linked, master, running, stopped, path, writing, applied, counters>>

-----------------------------------------------------------------------------
(* The channels.  `send` waits for room, `try_send` drops.                 *)
RoomInOwn(h, k) == Len(own[h][k]) < Size
RoomInPath(h, k) == Len(path[h][k]) < Size + 1

Room(h, to, k) == IF to = "own" THEN RoomInOwn(h, k) ELSE RoomInPath(h, k)

CanSendNext(h) ==
    /\ h \notin stopped
    /\ todo[h] # <<>>
    /\ LET next == Head(todo[h]) IN Room(h, next.to, KindOf(Field(next.op)))

SendNext(h) ==
    /\ CanSendNext(h)
    /\ LET next == Head(todo[h])
           k == KindOf(Field(next.op))
       IN /\ own' = IF next.to = "own"
                    THEN [own EXCEPT ![h][k] = Append(@, next.op)] ELSE own
          /\ path' = IF next.to = "other"
                     THEN [path EXCEPT ![h][k] = Append(@, next.op)] ELSE path
    /\ todo' = [todo EXCEPT ![h] = Tail(@)]
    /\ UNCHANGED <<linked, master, running, stopped, writing, data, applied, ghosts, counters>>

(* The last send of a handler is to the other half, that of                *)
(* post_sides_connected and sides_disconnected to the own task.            *)
InHandler(h) == todo[h] # <<>> /\ Last(todo[h]).to = "other"
Restoring(h) == todo[h] # <<>> /\ Last(todo[h]).to = "own"

(* A host connects to the master or disconnects from it, or a battery      *)
(* level comes while one is connected: `select` drops the future in which  *)
(* the handler runs.                                                       *)
Cancel ==
    /\ running[master] /\ master \notin stopped
    /\ InHandler(master)
    /\ todo' = [todo EXCEPT ![master] = <<>>]
    /\ unsure' = unsure \cup FieldsOf(Waiting(master))
    /\ UNCHANGED <<linked, master, running, stopped, own, path, writing, data, applied,
                   intended, counters>>

(* on_bonded runs in the softdevice's task, whatever the main task does.   *)
Free(h) == {i \in DOMAIN Slots : applied[h][Slots[i]] = "free"}
\* Faulty: the last slot is taken, free or not.
SlotLast(h) == Slots[Len(Slots)]

Slot(h) == Slots[Min(Free(h))]

Bonded(p) ==
    /\ running[master] /\ master \notin stopped
    /\ ~Restoring(master)
    /\ Free(master) # {}
    /\ LET s == Slot(master)
           op == Op(master, s, p)
           ownRoom == RoomInOwn(master, "flash")
           pathRoom == RoomInPath(master, "flash")
       IN /\ own' = IF ownRoom THEN [own EXCEPT ![master]["flash"] = Append(@, op)] ELSE own
          /\ path' = IF pathRoom THEN [path EXCEPT ![master]["flash"] = Append(@, op)] ELSE path
          /\ intended' = [intended EXCEPT ![s] = p]
          /\ unsure' = IF Pending(s) \/ ~ownRoom \/ ~pathRoom THEN unsure \cup {s} ELSE unsure
    /\ Act(3)
    /\ UNCHANGED <<linked, master, running, stopped, writing, todo, data, applied, drops, busy>>

(* The power, lighting and flash tasks.                                    *)
\* Faulty: there is no power task.
CanReceiveNoPower(h, k) ==
    h \notin stopped /\ k \notin {"event", "power"} /\ own[h][k] # <<>>

CanReceive(h, k) == h \notin stopped /\ k # "event" /\ own[h][k] # <<>>

Receive(h, k) ==
    /\ CanReceive(h, k)
    /\ LET op == Head(own[h][k])
       IN applied' = [applied EXCEPT ![h][Field(op)] = Value(op)]
    /\ own' = [own EXCEPT ![h][k] = Tail(@)]
    /\ UNCHANGED <<linked, master, running, stopped, path, writing, todo, data, ghosts, counters>>

-----------------------------------------------------------------------------
(* run_clients: the head of each kind is written; while one write is       *)
(* outstanding another one is answered Busy and tried again.               *)
Writing(h) == linked /\ running[h] /\ ~Restoring(h)

CanStartWrite(h, k) == Writing(h) /\ path[h][k] # <<>> /\ writing[h] = "none"

StartWrite(h, k) ==
    /\ CanStartWrite(h, k)
    /\ writing' = [writing EXCEPT ![h] = k]
    /\ UNCHANGED <<linked, master, running, stopped, own, path, todo, data, applied, ghosts,
                   counters>>

(* The master's callback for writes is in place while it waits for keys or *)
(* events.  The slave's stays registered in a handler or a write of its    *)
(* keys if the loop had waited at all before.                              *)
MayServe(h) == Writing(h) /\ (h = master => todo[h] = <<>>)
MustServe(h) == Writing(h) /\ Idle(h)

CanDeliver(h) == linked /\ writing[h] \in Kinds

Deliver(h) ==
    /\ CanDeliver(h)
    /\ LET k == writing[h]
           op == Head(path[h][k])
       IN /\ \/ /\ MayServe(Other(h)) /\ RoomInOwn(Other(h), k)
                /\ own' = [own EXCEPT ![Other(h)][k] = Append(@, op)]
                /\ UNCHANGED unsure
             \/ /\ ~MustServe(Other(h)) \/ ~RoomInOwn(Other(h), k)
                /\ unsure' = unsure \cup FieldsOf({op})
                /\ UNCHANGED own
          /\ path' = [path EXCEPT ![h][k] = Tail(@)]
    /\ writing' = [writing EXCEPT ![h] = "none"]
    /\ UNCHANGED <<linked, master, running, stopped, todo, data, applied, intended, counters>>

(* The slave writes its keys.                                              *)
KeyWrite(h) ==
    /\ Writing(h)
    /\ h # master
    /\ Idle(h)
    /\ writing[h] = "none"
    /\ writing' = [writing EXCEPT ![h] = "key"]
    /\ UNCHANGED <<linked, master, running, stopped, own, path, todo, data, applied, ghosts,
                   counters>>

CanKeyDone(h) == linked /\ writing[h] = "key"

KeyDone(h) ==
    /\ CanKeyDone(h)
    /\ writing' = [writing EXCEPT ![h] = "none"]
    /\ UNCHANGED <<linked, master, running, stopped, own, path, todo, data, applied, ghosts,
                   counters>>

-----------------------------------------------------------------------------
(* Losing the link.  The operations run_clients holds are dropped with it: *)
(* the one being written, and the head of any other channel it has come to *)
(* read.  The main task then turns the power on.                           *)
\* Faulty: what run_clients holds goes back to the channel.
HeldNothing(h, taken) == taken = {}

Held(h, taken) ==
    /\ taken \subseteq {k \in Kinds : path[h][k] # <<>>}
    /\ \A k \in Kinds : writing[h] = k \/ Len(path[h][k]) > Size => k \in taken

GiveUp(h) ==
    \E taken \in SUBSET Kinds :
        /\ Held(h, taken)
        /\ path' = [path EXCEPT ![h] = [k \in Kinds |->
                       IF k \in taken THEN Tail(path[h][k]) ELSE path[h][k]]]
        /\ unsure' = unsure \cup FieldsOf({Head(path[h][k]) : k \in taken}) \cup {"power"}
        /\ running' = [running EXCEPT ![h] = FALSE]
        /\ writing' = [writing EXCEPT ![h] = "none"]
        /\ todo' = [todo EXCEPT ![h] = This(Op(h, "power", 0))]

CanLeave(h) == ~linked /\ running[h] /\ h \notin stopped /\ todo[h] = <<>>

Leave(h) ==
    /\ CanLeave(h)
    /\ GiveUp(h)
    /\ UNCHANGED <<linked, master, stopped, own, data, applied, intended, counters>>

(* The slave's write of its keys is answered Busy like any other, but it   *)
(* is not tried again: do_slave returns, which closes the connection.      *)
Busy(h) ==
    /\ Writing(h)
    /\ h # master
    /\ Idle(h)
    /\ writing[h] \in Kinds
    /\ busy < MaxBusy
    /\ GiveUp(h)
    /\ linked' = FALSE
    /\ busy' = busy + 1
    /\ UNCHANGED <<master, stopped, own, data, applied, intended, acts, events, drops>>

(* run_clients panics on any error but Busy if the handler of the main     *)
(* task, which is polled first, does not notice the loss.                  *)
CanPanic(h) ==
    /\ ~linked
    /\ running[h] /\ h \notin stopped
    /\ InHandler(h)
    /\ \E k \in Kinds : path[h][k] # <<>>

Panic(h) ==
    /\ CanPanic(h)
    /\ stopped' = stopped \cup {h}
    /\ UNCHANGED <<linked, master, running, moving, data, applied, ghosts, counters>>

Disconnect ==
    /\ linked
    /\ drops < MaxDrops
    /\ drops' = drops + 1
    /\ linked' = FALSE
    /\ UNCHANGED <<master, running, stopped, moving, data, applied, ghosts, acts, events, busy>>

(* post_sides_connected: each half shows its own persistent data.          *)
Restore(h) ==
    LET order == SetToSeq(Outputs)
    IN [i \in DOMAIN order |->
           [to |-> "own", op |-> Op(h, order[i], data[h][order[i]])]]

Reconnect ==
    /\ ~linked
    /\ stopped = {}
    /\ \A h \in Halves : ~running[h] /\ todo[h] = <<>>
    /\ linked' = TRUE
    /\ master' \in Halves
    /\ running' = [h \in Halves |-> TRUE]
    /\ todo' = [h \in Halves |-> Restore(h)]
    /\ unsure' = unsure \cup Outputs
    /\ UNCHANGED <<stopped, own, path, writing, data, applied, intended, counters>>

Next ==
    \/ Callback
    \/ SyncAnimations
    \/ \E s \in BondSlots : RemoveBond(s)
    \/ \E p \in Peers : Bonded(p)
    \/ Cancel
    \/ \E h \in Halves :
        \/ HandleEvent(h)
        \/ SendNext(h)
        \/ \E k \in Kinds : Receive(h, k) \/ StartWrite(h, k)
        \/ Deliver(h)
        \/ KeyWrite(h)
        \/ KeyDone(h)
        \/ Leave(h)
        \/ Busy(h)
        \/ Panic(h)
    \/ Disconnect
    \/ Reconnect

(* What the tasks and run_clients do of themselves: the guards of their    *)
(* steps, which are all that can keep them from a step.                    *)
CanWork ==
    \E h \in Halves :
        \/ CanHandleEvent(h) \/ CanSendNext(h) \/ CanDeliver(h)
        \/ CanKeyDone(h) \/ CanLeave(h) \/ CanPanic(h)
        \/ \E k \in Kinds : CanReceive(h, k) \/ CanStartWrite(h, k)

Spec == Init /\ [][Next]_vars

-----------------------------------------------------------------------------
IsOp(op) ==
    /\ From(op) \in Halves
    /\ \/ Field(op) = "sync" /\ Value(op) = 0
       \/ Field(op) \in Fields /\ Value(op) \in Values(Field(op))

(* Every channel holds operations of its kind and no more than it has room *)
(* for; only a half that runs writes, and only what it has.                *)
TypeOK ==
    /\ linked \in BOOLEAN /\ master \in Halves
    /\ running \in [Halves -> BOOLEAN] /\ stopped \subseteq Halves
    /\ \A h \in Halves : linked => running[h]
    /\ \A h \in Halves, k \in Kinds :
        /\ \A op \in ToSet(own[h][k]) \cup ToSet(path[h][k]) :
              IsOp(op) /\ KindOf(Field(op)) = k
        /\ Len(own[h][k]) <= Size
        /\ Len(path[h][k]) <= IF running[h] THEN Size + 1 ELSE Size
    /\ \A h \in Halves :
        /\ writing[h] \in Kinds => path[h][writing[h]] # <<>>
        /\ writing[h] \in Kinds \cup {"none", "key"}
        /\ writing[h] # "none" => running[h]
    /\ \A h \in Halves : \A op \in Waiting(h) : IsOp(op)
    /\ data \in [Halves -> Data]
    /\ \A h \in Halves, f \in Fields : applied[h][f] \in Values(f)
    /\ unsure \subseteq Fields

(* Unless an operation was lost or crossed another one, both halves end in *)
(* what the last operation for both says: the two are shown the same, and  *)
(* the same settings and bonds are stored on both.                         *)
HalvesAgree ==
    \A h \in Halves, f \in Fields :
        ~Pending(f) /\ f \notin unsure => applied[h][f] = intended[f]

(* What is stored for the board when nothing is on its way is what the     *)
(* half that changed it last has in RAM, or else the halves are not sure.  *)
StoredIsInUse ==
    ~Pending("board") /\ "board" \notin unsure =>
        \E h \in Halves : \A g \in Halves : applied[g]["board"] = data[h]

(* A bond is stored over another one only in a slot on which the halves    *)
(* differ, or which two hosts were given at once.                          *)
BondsAreKept ==
    [][\A h \in Halves, s \in BondSlots :
          applied[h][s] # "free" /\ applied'[h][s] \notin {"free", applied[h][s]} =>
              s \in unsure]_vars

(* The halves never wait for each other, nor a task for itself, with one   *)
(* exception: when nothing is left that the tasks can do, no handler still *)
(* waits to send, unless the half panicked, or the master sends an event   *)
(* to itself and its channel of events is full.                            *)
EventsFull(h) ==
    /\ h = master
    /\ InHandler(h) /\ Field(Head(todo[h]).op) = "sync" /\ ~RoomInOwn(h, "event")

NobodyStuck ==
    ~CanWork => \A h \in Halves \ stopped : todo[h] = <<>> \/ EventsFull(h)
===============================================================================
