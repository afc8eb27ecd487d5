# A TLA+ model of Butterware

Butterware is firmware for split wireless keyboards, written in async Rust on
Embassy. The two halves each run one build of it (left or right), talk to each
other over Bluetooth, and elect a master that also talks to the host. This
directory holds TLA+ modules of its logic, TLC configurations that check them
on small instances, and TLAPS proofs of the theorems that matter most.

Paths below are relative to the repository. There are no tests in it, so every
definition comes from the code itself.

## Inventory

Each half runs a single-threaded cooperative executor: a task runs until it
awaits, and `select` drops the future that lost. Tasks: main (connects, scans,
handles keys), softdevice, flash, battery, lighting, power.

| Component | State | Operations | Interacts with |
|---|---|---|---|
| Key map (`src/keys`, `src/interface/keyboard.rs`) | constant | - | read by the key handling and the report |
| Master key handling (`src/hardware/state/master.rs`) | stacks of layers and modifiers, state mask, lock mask, previous key state | `apply` | called by `master_scan`, awaits special actions, returns what to report |
| HID report (`src/split/master.rs`) | none; the host keeps the last report | `send_input_report`, `update_master_state` | sends what `apply` returns; select with the battery level |
| Scan and debouncing (`debounce.rs`, `state/mod.rs`, `state/slave.rs`) | three fields per key, last raw state | `update`, `do_scan` | raw states go to `apply` or to the other half |
| Split link (`split/master.rs`, `split/slave.rs`) | the master's copy of the slave's raw state | `master_scan`, `slave_connection`, `do_master`, `do_slave` | GATT writes from the slave, callbacks into the channels |
| Master election (`split/determine.rs`, `main.rs`) | random numbers, the `is_master` attribute | advertise and connect, once for each connection | decides between `do_master` and `do_slave` |
| Forwarding (`split/common.rs`, `split/event.rs`, `side.rs`) | eight channels of 10 | `send`, `try_send`, `run_clients` | carries flash, power, lighting and event operations to either half |
| Flash settings (`src/flash`) | RAM settings, flash page, apply flags | five operations, apply after a quiet time | fed by the bonder, special actions, the other half |
| Bonder (`ble/bonder.rs`) | none of its own | `on_bonded`, `save_sys_attrs`, lookups | reads the settings, queues operations for both halves |
| Power, battery (`power.rs`, `battery.rs`) | the power pin; a channel of 2 | `SetPower`; sampling | battery levels cancel `master_scan` |
| Butterboard (`keyboards/butterboard.rs`) | persistent data in RAM | callbacks, events, connection hooks | stores on both halves, queues animations and power |
| Lighting (`src/led`) | strip, at most two transitions, animation | `SetAnimation`, `update` | drained by the lighting task |
| BLE services, advertising, macros, key code tables | constant | - | - |

What is hard here is not parallelism but order: keys released in another order
than they were pressed, several changes in one scan, a future dropped at an
await with half of its work done, a message that arrives while nobody serves
it, two timers, full stacks and channels, halves that restart on their own.
`PROJECT.json` lists each such hazard at its line.

What makes each component correct:

- key handling: masks and stacks agree; nothing outlives its key; no key is
  typed that nobody pressed, no tap is lost; limits are not exceeded;
- report: after a quiet period the host holds exactly the keys that are down;
- scan: the output follows a stable input, and never a bounce;
- split link: the master's copy of the slave's state is eventually the slave's;
- election: exactly one master, from every combination of restarts;
- forwarding: in order, at most once, to the halves that `Side` names;
- flash: what is in flash after a crash is an earlier or the current state of
  the settings; a write without an erase never needs to set a bit;
- bonder: two bonds never share a slot; both halves hold the same bonds;
- Butterboard: both halves keep the same persistent data.

## Modules

| Module | Models |
|---|---|
| `Keymap` | the key map and the constants of the `Scannable` and `Keyboard` traits; the kinds of mapping |
| `Selection` | `Vec::remove`: what is left of a sequence |
| `MasterState` | `MasterState::apply`, the whole handler, and `new()` |
| `KeyHistory` | history variables for `MasterState`, for properties that relate reports to earlier ones |
| `HostInput` | `send_input_report`, `update_master_state` and the host loop of `do_master`, composed with `MasterState` and its history |
| `ApplyLoop` | `apply` statement by statement; implements `MasterState` |
| `Debounce` | `DebouncedKey`, the passes of `do_scan`, `update_needs_synchronize` of both halves |
| `SampleHistory` | `Debounce` with the times of the samples |
| `SplitLink` | the loops of `master_scan` and `slave_connection` that bring the slave's keys to the master |
| `Election` | `determine.rs`, the loop of `main` and the connecting parts of `do_master` and `do_slave` |
| `Halves` | the channels, `run_clients`, the GATT callbacks, the Butterboard's handlers, `on_bonded`, on both halves |
| `FlashStorage` | `initialize_flash`, `flash_task`, its channel and the flash, with power loss |
| `LedStrip` | `lighting_task`, the fades of a strip, `set_animation` and `update` of a driver, the bytes it sends |
| `MasterStateProofs`, `ApplyLoopProofs`, `HostProofs`, `DebounceProofs`, `ConnectionProofs` (`SplitLink` and `Election`), `FlashProofs`, `HalvesProofs`, `LedStripProofs` | the proofs |
| `MCMasterState`, `MCApplyLoop`, `MCHostInput`, `MCSplitLink`, `MCFlashStorage`, `MCHalves`, `MCLedStrip` | key maps and values for the model checker |

How they fit together. `main` loops: `Election` ends with a half in `do_master` or `do_slave`, connected.
From there `Debounce` makes each half's raw state, `SplitLink` brings the slave's to the master, `MasterState`
makes a report of both, `HostInput` sends it; `Halves` carries what the keys and the bonder ask for, `FlashStorage`
and `LedStrip` do it; a lost link leads back to `Election`. Composed into one specification are
`MasterState`, `KeyHistory` and `HostInput`. The others meet at an interface that each keeps open: any key state may
reach `apply`, any operation the flash and the strip, any role a half.

### How `MasterState` corresponds to the code

A `u64` key state is the set of the keys whose bit is set; bits beyond
`KEYS_TOTAL` never matter. The two `heapless::Vec`s are sequences of records with the
fields of `ActiveLayer` and `ActiveModifier`. `output` is what the last call
returned; `fired` are the special keys whose action it ran; `panicked` says
that a push found its stack full, after which the device does nothing.

`tap_timer` holds the time of the press in the code, and the only question asked
of it is whether `now() - time < TAP_TIME`. The model keeps the age instead, and
`Tick` makes pending timers older up to `TapTime`, beyond which nothing changes.

`apply` is cut at its own seams. The first half pops layers and modifiers:
`KeptLayers`, `KeptModifiers`, `MaskAfterRelease`, `LockAfterRelease`,
`HeldAfterRelease` and `Injected` say what the two loops leave, as functions of
the key state passed in. `Pressed` is what passes the two masks. The second
half takes one of the paths

- `ApplyUnchanged`: the first comparison finds nothing new;
- `ApplyKeys`: no hold key is pressed, special actions run, keys are reported;
- `ApplyLayer`, `ApplyModifier`: the loop meets a hold key, pushes it and sets the
  key state to 0, so that later keys are not looked at;
- `ApplyOverflow`: that push panics;
- `ApplyCancelled`: a special action waits for room in a channel and the future
  is dropped there (`select` in `do_master` and `update_master_state`).

`apply` may be called with any key state, also with the same one again: the
callers combine the states of both halves and a dropped write of the slave can
make the combination repeat. `Reset` is the next `do_master`, which makes a new
`MasterState`; `output` is then `NotCalled`.

In `KeyHistory` each step of `HostInput` also records, for each key, the layers
from which it was reported since it went down, whether it left the report,
and the layer on which it was pushed. The
history never restricts a step.

### How `ApplyLoop` corresponds to the code

`MasterState` says with sets what the loops of `apply` leave. `ApplyLoop` has the
loops: one action per iteration (`PopLayer`, `RemoveModifier`, `Visit`) and one per
stretch between them (`Call`, `LayersPopped`, `ModifiersRemoved`, `Compare`,
`Finish`), with `key_state`, `injected_keys`, `send_again`, the layer looked at and the
loop index as variables. `Drop` is the future dropped while a special action waits.
`before` holds the state at the start of the call, and the refinement mapping
shows it until the call returns, so that a whole call is one step of `MasterState`; what
is checked and proved there holds of the loops; `ApplyLoopProofs` proves this. Several hold keys in one event, the
case the `FIX` comment at line 135 worries about, are part of it: the first one wins and
the others wait for the next change.

### How `HostInput` corresponds to the code

Each step in which `apply` returns also does what its caller does: with a host,
`SendReport` gives the softdevice one notification, or two when keys were injected;
without, `Discard`. A report is the union of the modifiers and the set of key codes;
the order of its bytes means nothing. `hostReport` is the last report given to the
softdevice: notifications are acknowledged by the link layer, so the host gets them in
order as long as it stays connected. `Transmit` is the radio emptying the softdevice's queue
of `hvn_tx_queue_size` entries, at any time: that the program cannot influence.

`Connected`, `Disconnected` and a battery level drop `master_scan`; while it waits for
a key nothing is lost (`HostChange`, `BatteryLevel`), but while `apply` waits in a
special action the call is lost half done (`Dropped`). After that, and after a host
connects while keys are down, the host does not know the state of the keyboard until the
next report. `behind` is true then, and the properties about the host exclude it: the
code does leave the host out of date there.

### How `Debounce` corresponds to the code

One action per key of a pass (`Sample`: read the pin, `update`, collect the bit), one for
its end (`PassDone`: `update_needs_synchronize`, then return or wait) and one for the start of
the next, by the timer, by a new call of `do_scan`, or by the call that follows a dropped one:
passes have no await in them, so nothing of a pass is ever lost. Pins (`Contact`) and the clock
(`Tick`) go on between any two of these. `synchronized` is `master_raw_state` on the master and
`previous_key_state` on the slave. As with tap timers, ages stand for times; new keys
have the time 0, which is old whenever keys are renewed after the start, and recent at the
start (`Init` allows both). `SampleHistory` adds the time since each key was last sampled
down, and up.

### How `SplitLink` corresponds to the code

The states of the two halves are opaque values, what `do_scan` returns. The slave is in its
select, in its one write, or in an event handler; the master is in its select, or
waits in `apply` or in an event handler. The GATT server belongs to nrf-softdevice: it answers the
write in any case, and its event reaches the closure of `run_until` only while that future
exists and has not broken off. `caught` is what it broke off with, until the main task is polled and
`select_biased` takes it, or takes a ready scan and drops it. `lostBy` is a history
variable: why the state the slave is in did not get through.

### How `Election` corresponds to the code

`phase[h]` is the await at which the main task of half `h` is: the start of the loop (advertising or scanning), the random number,
the server or the write and the read, then `master` or `slave` (connecting to the other half), `discover`, `paired`;
`stalled` is a paired master in `trigger_event`, waiting for room in its own channel of events, which only the task that waits
empties: it does not see a lost link either. `disconnected` is the end of the loop without auto-reset.
The two halves are not alike: the left one advertises and serves `is_master`, the right one connects, writes
and reads. `Advertises` and `Scans` say who can find whom: addresses are fixed, so a half that scans also finds one that
advertises for another reason than it thinks. `WriteNumber` is the request; the softdevice
answers it in any case, and its event reaches `Compare` only if the left half's server runs by then (`Miss`).
The server returns when the connection ends, which the right half's `Read` does by dropping it. `attribute` is
the value in the GATT table, which outlives the connection. `Unwrap` is a panic on a request over a link that is gone: `defmt::unwrap`
stops the half until it is switched off and on. A paired half that loses the link notices (`Notice`), unless it is `stalled`, or
`run_clients` panics first because a handler waits to send (`Panic`, which also stands for the panics of `apply` and
`send_input_report`; the link ends with the half). `Resume` is a host that connects or leaves or a battery level, which drop the waiting handler. What
leads to `Stall` and `Panic` is in `Halves` and `HostInput`; here both may come at any time. `Restart` may, too, and is all that helps a half
that has panicked.

`upset` is a history variable: `restart` (a half restarted while the other one was electing or had a role and was not paired yet, or without
auto-reset), `lost` (the link was lost before both were paired), `early` (the right half read
before the left one compared). It is empty again when both are at the start. After each of these the halves may take the same
role and wait for ever: the code has no timeout there.

### How `Halves` corresponds to the code

The eight channels are `own[h][kind]`, drained by a task of the same half, and `path[h][kind]`, drained by the four futures
of `run_clients`. An operation is a triple: the field it is for, the value, and who asked. Every handler that sends to both
halves is a list in `todo[h]`, one entry per `send`, and `SendNext` does the next one as soon as there is room:
between two of them everything else goes on. `Bonded` runs in the softdevice's task and uses `try_send`.
`run_clients` has taken the head of a path while it writes it, so that a path holds one more than the channel;
the softdevice allows one outstanding request per connection (`writing`), and the others are answered Busy and
retried. `Deliver` is the write at the other half: its callback does `try_send`, and is not there while the master is in a handler,
which has dropped its server future. The slave's may be (its future may still be registered), hence
`MayServe` and `MustServe`.

`Cancel` is a host that connects or leaves, or a battery level while one is connected: `select` drops the future with the handler in it. `Busy` is the slave's own key
write, answered Busy like the others but not retried: `do_slave` gives up the connection. `Leave` is a half that
notices that the link is gone; with it the futures of `run_clients` are dropped with what they hold (`Held`).
`Panic` is `run_clients` failing on a dead link while a handler waits. `Reconnect` stands for the whole of `Election`: either half may be
master. The halves are built with `auto-reset`, on Butterboards with lighting.

`intended` and `unsure` are history variables: the last value asked of both halves, and the fields for which an operation was
lost, or crossed another one, since. `CanWork` puts together the guards of the steps that the tasks and `run_clients` take of
themselves (`CanReceive`, `CanStartWrite` and so on, each a conjunct of its action): nothing else keeps these steps from being
taken, so that it says what is enabled without saying `ENABLED`. `SyncAnimations` does what the code does, which is to toggle the lights on both halves; if
another toggle is on its way the halves may end with different lights.

Animations differ from the power pin in nothing but the length of their cycle; the runs have the pin alone. Not in it: the
status strip's animations that `main` sets, `ResetPersistentData`, and `StoreSystemAttributes`, which takes the path of a bond.

### How `FlashStorage` corresponds to the code

The settings are peers and system attributes by slot, and the board's data, each shortened to one word
of the flash: a set of bits. `Receive` is the first branch of the select of `flash_task`, `Timeout` the
second one: `select` polls the channel first, so the timer wins only if the queue is empty. The erase
and the write go on word by word, and operations queue up meanwhile. `Restart` is a power loss, or
the reset after a panic, and the next `initialize_flash`, which takes what it finds for settings. `saved` is
a history variable. Who sends which operation is left open: any operation may come at any time.

### How `LedStrip` corresponds to the code

One channel of one LED stands for the strip: all are treated alike. A colour is a level from 0 to 255, and an
animation a sequence of levels (`Wave`) with a speed; the code computes them with floats, from a sine or a hue. Time is in steps, `Full` of
which make a fade (a third of a second). `Receive` and `Tick` are the two branches of the select of `lighting_task`; a tick may
come late, since everything else runs on the same executor (`Elapsed`). `barriers` is the vector of at most two fades:
`InsertBarrier` pushes, or replaces the last one. `Fade` and `Animate` are the two branches of `update`: the animation
stands still while a fade runs. `Ws2812b` and `Sk6812` are the two `write_value_to_slice`, bit for bit.

Operators whose comment begins with "Faulty" are not part of the model: each is a
plausible mistake in the code, with which the property it is meant for fails.

## Runs

| Run | Instance | Checks |
|---|---|---|
| `butterboard` | 4 keys, the shape of the Butterboard's map: hold keys, two of them for layers, on the base layer only; 1 slot on each stack; a host, a report with room for one code, a queue of 2 | `TypeOK`, `NoPanic`, `TapFromItsLayer`, `TapExecuted`, `HostTypeOK` |
| `nested` | 4 keys, hold keys on all of 3 layers, 2 layer slots and 1 modifier slot, so that both stacks overflow; a host | six invariants of the stacks and masks, `OneLayerPerPress`, `SilencedStaySilent`, `HostHoldsPressed`, `HostLags`, `LockedUntilReleased`, `TapReported` |
| `apply_loop` | 4 keys, 2 layers, nested layers, modifiers and special keys, 2 slots on each stack | `ImplementsMasterState` (refinement) |
| `debounce` | 2 keys, a debounce time of 2 ticks, with the history | `ChangesReturned`, `ChangesAreStable`, `Settles` (liveness), no deadlock |
| `split_link` | 3 states of a half | `AppliedLatest`, `KnownUnlessLost`, `SlaveHeard` (liveness), no deadlock |
| `flash` | one bond, words of 2 bits, one of them of the address, room for 1 operation | `FlagsSuffice`, `NoMixture`, `QuietlySaved` (liveness), no deadlock |
| `election` | 2 random numbers, auto-reset | `OneMaster`, `SamePhase`, `Pairs` (liveness), no deadlock |
| `halves` | 2 bond slots, 2 hosts, channels for 1 operation; 3 callbacks, or 2 bonds and removals; the link lost once, given up once | `TypeOK`, `HalvesAgree`, `BondsAreKept` |
| `events` | 2 events that both halves handle, channels for 1 operation | `StoredIsInUse`, `NobodyStuck` |
| `lights` | black, white and one that swells, fades of 7 steps, updates after 1, 3 and 8 | `TypeOK`, `EndsInAnimation`, `Ws2812bFrames`, `Smooth`, `FadesEnd` (liveness), no deadlock |
| `host_withheld` | 4 keys: a letter, a layer, a modifier with a tap, a plain modifier; a queue of 3 | `HostCurrent`, violated |
| `sk6812` | that of `lights` | `Sk6812AsListed`, violated |

Bounds. Four keys are enough for two layer keys, one of them with a tap, a modifier and a regular key, or for
maps where a key holds something on one layer and types on another.
No property relates more keys at a time. Stacks of one and two entries let removals
below the top, chains of layers and the limit itself occur. `TapTime` is 2 or 1 clock steps: released at once, later but in
time, too late. No property depends on the key codes, which are a few strings. One slot for key codes instead of six makes two
letters a full report. Keys are debounced independently, so two are enough to have one of them changing while another
does not; a debounce time of two ticks lets a bounce come before, in and after it. Three states of
a half are those before, during and after a lost one. Two bits and three fields make words that need an erase,
words that do not, and applies cut between two words; a longer queue adds no order of operations.
The election compares two numbers, so two values make all three outcomes. In `Halves` each counter (`MaxActs`, where a callback
counts 2 and a bond or a removal 3, `MaxEvents`, `MaxDrops`, `MaxBusy`) bounds what comes from outside: two operations can cross or fill a channel, and
a third one finds the halves as they left them. A channel for one operation is full as soon as its task is late; ten need eleven operations.
With two slots a bond finds none, one or both free. A fade of 7 steps has updates that end it exactly, early and by far; four
animations are one more than fill both fades and the replacement.

Deadlock. `butterboard`, `nested`, `apply_loop` and `host_withheld` turn the check off: there the device does
stop, when a push or a notification panics. So do `halves` and `events`: what comes from outside is used up, or a half has
panicked; `NobodyStuck` says what must not be left waiting then.

Fairness. `MasterState`, `ApplyLoop`, `HostInput` and `Halves` claim no liveness and assume no fairness.
`Debounce` assumes that passes and time go on: each half calls `do_scan` in a loop, and its
timer ends. `Settles` excludes only endless reconnecting. `SplitLink` assumes that the link layer
delivers (or the halves lose each other), that a woken task is polled, and that special
actions and event handlers come to an end: they wait for room in channels that other tasks
drain (`NobodyStuck` of `Halves`, with its one exception). `FlashStorage` assumes that the flash task is polled and that erasing and writing end;
`QuietlySaved` excludes power losses and operations that never pause. `Election` assumes that halves in
reach find each other, that requests are answered and tasks polled; it assumes nothing of restarts, lost
links, panics and stalls. A paired half that has lost the link notices or panics, hence `Notice` is fair and `Panic`, which disables it, is not; nor is
`Resume`, since no host and no battery level need come. `Pairs` names what is left: the halves pair again unless `upset` says they are out of step, one has
panicked and is not switched off and on, the master is stalled, or halves keep restarting. `LedStrip` assumes that its task is polled: its timer ends. Scans, events and
animations are not fair: they need not come.

## What the runs show

- A tap is looked up in the layer that is current after the release. With hold-tap keys on the base layer
  only, as on the Butterboard, that is the layer it was pressed on (`butterboard`, `TapFromItsLayer`). With one on a higher layer, which the
  types allow and `nested` has, it is not.
- `host_withheld`: the second comparison of `apply` looks at the keys alone. A plain
  modifier that goes down with no key changes the report but not the keys, and is not
  told until another key changes; its release is (`send_again`). That is all that is ever withheld (`HostLags`).
- The softdevice's queue has three entries. Two taps between two transmissions need four, and the `unwrap` on the
  notification that finds it full stops the keyboard (`failed`; the runs with a host reach it). It also does when the host has gone and the
  master has not learnt that yet, or has not asked for notifications, so that any report may be the one that fails.
- The slave writes each state once. It does not reach the master if its write comes while the master waits in a
  special action or an event handler, or in the same poll as a scan or a host: `KnownUnlessLost` says these are the only ways.
- The election gives one master, equal numbers included, and both halves the same view, unless `upset` says why not.
- An operation for both halves reaches both, or is one of those that `unsure` names. Bonds are not overwritten where the halves agree.
- A channel of events that is full stops the master's keys for good, until a host connects or leaves, or a battery level comes while one is connected: its only reader
  is the task that waits (`EventsFull`). Nothing else waits for ever.
- Nor does such a master see that the halves have lost each other, and a half that loses the link while a handler waits to send panics. In both
  cases the other half waits alone (`Pairs`); in all others they pair again.
- `sk6812`: the driver's bytes come in the reverse of the order its comment lists them, with the bits of a value from the wrong
  end, so that the line does not carry groups of five bits. No keyboard here uses that driver. The one of the WS2812B is right for every level (`Ws2812bFrames`).

## Proofs

`MasterStateProofs` proves, for every key map, every number of keys, layers, slots
and every tap time, that `Spec` implies each invariant and action property of
`MasterState`. The assumptions are those named in `Keymap`:
the numbers are naturals (the stacks have at least one slot, there is a base
layer), and the key map is total.

The properties are not inductive one by one, but together they nearly are. `IInv` is
the conjunction of `TypeOK`, `WellFormed` (which is `HoldKeysMasked`,
`PendingTapUnique`, `StackChained` and `StacksHeld`, stated of any two stacks) and
`MasksConsistent`. `StacksHeld` is needed so that a key on a stack is known to be held and
cannot be pushed twice; `HoldKeysMasked` so that a pop keeps the locks off the
key that is re-enabled; `MasksConsistent` so that no stacked key is locked. The proof
follows `apply`: lemmas say what the pops leave (`ReleaseWellFormed`,
`ReleaseMasks`), what clearing a timer leaves (`ClearLastProperties`), what a push leaves
(`PushLayerWellFormed`, `PushModifierWellFormed`), and each path through `apply` combines
them. The steps keep `WellFormed` for any stacks, which lets one lemma serve both
halves of the handler.

`NothingSticks` adds that `previousKeyState` is empty whenever no key passes the
masks. `LocksLast`, `LayerChangesLock` and `TapsAreReported` are action
properties, proved from `IInv` action by action. `EnoughRoomNoPanic` bounds the
stacks by the number of keys that hold something (`EnoughRoom`): distinct keys
out of a finite set. It justifies the six layer slots and eight modifier slots of the
firmware for maps such as the Butterboard's.

`ApplyLoopProofs` proves that the loops implement those sets (`LoopImplementsMasterState`), so that every theorem about
`MasterState` is one about the statements of `apply`. A call is one step of `MasterState`, taken when it returns: until then
the mapping shows the state `before` the call. `LoopInv` says, for each phase, what the variables hold
in terms of the sets that `MasterState` computes from that state:

- `PoppingLayers`: what is left is a prefix of the stack; everything above it was released, is enabled again and has left its tap if it was in time;
  once a layer went, the locks are those of a change of the layer;
- `RemovingModifiers`: the layers are `KeptLayers`; above the index only modifiers whose key is held are left, which `Select` says of the
  positions not removed so far;
- `Released` and `Compared`: the stacks, the masks, the injected taps and `send_again` are what `MasterState` says of a whole call;
- `VisitingKeys`: of the keys visited so far either none holds anything and the special ones ran, or the first that does was pushed
  and nothing is left to visit.

Some steps rest on `IInv` of the state before the call. The loop takes the keys it re-enables out of `key_state` as it goes, so that a later
entry is looked up in less than what `MasterState` looks it up in; it makes no difference because no key is stacked twice and the mask has none
of the stacked ones (`ModifierHeld`). `MasterStateProofs` is instantiated
under the refinement mapping for this (`P`; the lemmas `Same...` say that its operators are those of `Atomic`, in terms of which the property is
stated). `Unmoved` lists what stays as it is while the call runs. The end of a call has one lemma per
path: `CompareStep` and `FinishKeys`, `FinishHold`, `OverflowStep`, `DropStep`.

`DebounceProofs` proves for any number of keys and any debounce time that no pass misses a
change (`NoChangeIsMissed`, with `AtRest`: a pass starts at the first key) and that bounces are
filtered (`BouncesAreFiltered`). The invariant behind the latter, `AgeIsOfSamples`, says only of
a state that the output does not have yet that its age is at most the time since the
opposite was sampled; of other states it would be false after `new()`.

`ConnectionProofs` proves of `SplitLink`, for any set of states, that apply sees the latest (`LatestIsApplied`)
and that a state gets lost in three ways only (`KnownOrLost`). `OnItsWay` follows the slave's state
from the wire to the closure to the copy.

`FlashProofs` proves for any number of bonds and any width of a word that the flags collected between two
applies suffice (`FlagsAlwaysSuffice`) and that each word is at any time old, new or erased
(`NeverMixture`). The invariant adds what an erase and a write have done so far (`Erasing`, `Writing`): the words
still to be written hold every bit they need, which is why clearing bits is enough.

Of `Election` it proves, for any set of random numbers, with and without auto-reset, that halves in step that have decided are
one master and one slave (`ElectsOneMaster`) and that connected halves in step are at the same part of the
protocol (`NeverAtCrossPurposes`). The invariant adds what each phase of one half says of the other while `upset` is empty: after
`Compare` the attribute is what the left half returns, the right half is past its read when the left one
has decided, and so on. Stalls and panics cannot break it: such a half has a role or is out of the protocol.

`HostProofs` proves of the composition of `MasterState`, `KeyHistory` and `HostInput`, for every key map, any room in a report and in
the softdevice's queue, what `butterboard` and `nested` check of it. `HostRunsMasterState` comes first: a step of the
composition is one of `MasterState` or leaves its variables alone, so that all theorems about `MasterState` hold here. The invariant
`HistoryInv` has three parts:

- `Remembers`: the last report named the current layer and the keys that `previous_key_state` holds, and those are neither locked nor hold or
  special keys of that layer; so a call that compares them with what is pressed compares like with like;
- `ReportedOnce`: only held keys have been reported, each from one layer, and a key that may still be reported from the current layer only: a
  change of the layer locks what is held, and a lock lasts as long as the key is held. From it `ReportedFromOneLayer`;
- `Silenced`: a key that left the report is still held, and locked or on a stack. From it `SilencedStaysSilent`.

Three more are kept beside it. `BaseTaps`: with `TapsFromBase`, a pending tap belongs to a key of the base layer that was pushed from there, with nothing but
the base below it. From it `TapsFromTheirLayer` and, with `TapsAreKeycodes`, `TapsAreExecuted`; the two assumptions on the key map
are what a map of the Butterboard's shape satisfies (`ButterboardTaps` in `MCHostInput`, which TLC evaluates), and without
them the two properties do not hold. `HostInStep`: the host's report is what the remembered keys make with the first
modifiers of the stack. From it `HostOnlyLags` and, with `ModifiersMapped` (an active modifier is what some
layer maps its key to), `HostHoldsOnlyPressed`.

`ReportsFit` needs none of it: `InputReportType` counts the codes of any set of keys.

`HalvesProofs` proves for any number of bond slots and hosts, any room in the channels and any number of callbacks, events, losses and
reconnections that the channels keep their bounds (`ChannelsFit`), that the halves end alike (`HalvesEndAlike`), that what is
stored is in use (`StoredIsWhatIsUsed`) and that no bond overwrites another one (`NoBondIsOverwritten`). `HalvesAgree` speaks of a
field that nothing is under way for; to get there, `AInv` says of every field that is not `unsure` what is under way for it (`Sure`):

- `FromOne`: all operations for it come from one half, so that the two paths cannot bring them in different orders;
- `Current`: what is still to be sent for it is what was last asked for;
- `Reaches`: for each half, the last operation on its way to it, or what it has if there is none, is what was last asked for, or else
  that is still to be sent;
- `OneBond`: for a bond slot, at most one bond is on its way to a half, and only while the slot is free there: `on_bonded` picks by the
  settings in RAM, which an operation that is still queued has not changed.

`TInv` adds to the types which kind of operation each channel holds and how long a path is while its head is being written. Most steps touch one field, and
the lemma `UntouchedIsSure` carries all others; `Appended` and `Taken` say what adding to a channel and taking from it leave
of the three facts about its content (whether it has a field, which value is the last, from whom). What a step loses becomes `unsure`, and `Sure` is asked of the other
fields only.

That nobody waits forever (`NobodyWaitsForever`) needs `Tails` beside the types: what a main task still has to send is the rest of what a handler sends,
which ends with the other half, or the rest of what a connection or its loss calls for, which is for the own tasks only; and only a
master's handler sends events. The proof then follows the channel that the next send finds full. One of the own half is read by
its task (`FullChannelIsRead`), or is that of the events, whose reader is who waits: `EventsFull`. One to the other half
(`FullPathIsWritten`) holds more than its size only if the half runs, so that `run_clients` writes it, waits for an answer, or panics on the dead link;
`Tails` is why the latter two see a handler there and nothing else. All three invariants were checked by TLC on the instances of `halves` and `events` before they were proved.

`LedStripProofs` proves for any animations, any length of a fade and any times between updates that there are never more than two
fades and that every level sent is a byte (`LedStripTypes`, from the arithmetic of a mixture), that the strip ends where the last
animation begins (`EndsWhereItBegins`), and that no update makes it jump (`MovesSmoothly`). For the last one `OnTheWay` says that what is shown
is the mixture that the first fade has reached and that a fade that waits has not begun; a rounded quotient grows by at most one more
than what is added (`QuotientGrows`), and the slope of an animation is a maximum that exists (`MaxLevel`). `Ws2812bIsFramed` proves the encoding for each
of the 256 levels: `Ws2812bBytes` gives the nine bytes with the level's bits as unknowns, `Ws2812bGroups` cuts them into
groups of nine.

The lemmas at the top of `MasterStateProofs` prove that picking elements by index (`Select`) keeps their order and loses none, that
picking one position less is removing one entry (`SelectWithout`, which a loop over `Vec::remove` rests on) and picking all of them
none (`SelectAll`), from the theorems on finite sets of the library.

Every safety property of the passing runs is proved. Only model-checked is the
liveness of `Debounce`, `SplitLink`, `FlashStorage`, `Election` and `LedStrip`: liveness under fairness is out of
the prover's reach.

## Plan

To be modelled: `StoreSystemAttributes` and `ResetPersistentData` in `Halves`, `Halves` with
`FlashStorage` in the place of its flash task.

## Not modelled

Key code tables, conversions into mappings and the macros that build tables (constant
data); GATT tables and advertising data; analog sampling and the floating-point
arithmetic of battery level and animations, whose curves `LedStrip` takes as given; the conversion of an
operation to bytes and back, which transmutes the same type on both halves; logging.
