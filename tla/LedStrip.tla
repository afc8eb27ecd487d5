------------------------------- MODULE LedStrip -------------------------------
(***************************************************************************)
(* One strip of led/mod.rs: the lighting task, LedStrip's barriers, which  *)
(* fade from what is shown to a new animation, and a driver's update and   *)
(* encoding.  The LEDs of a strip and their three channels are treated     *)
(* alike, so that one channel of one LED stands for all: a level from 0 to *)
(* 255, which the code keeps as a fraction and converts when it sends.     *)
(***************************************************************************)
EXTENDS Integers, Sequences, SequencesExt

CONSTANTS
    Static, Moving, \* the animations: Static, and Pulsate or Rainbow
    Wave,       \* per animation, the level at each phase
    Speed,      \* per moving animation, the phases it moves on per step of time
    Full,       \* the steps of time a fade takes
    Elapsed,    \* the steps between two updates
    QueueSize,  \* the size of the channel of operations
    MaxSets     \* bound on the operations

Animations == Static \cup Moving
Levels == 0 .. 255

ASSUME AnimationsAssumption == Static # {} /\ Static \cap Moving = {}
ASSUME WaveAssumption ==
    /\ \A a \in Animations : Wave[a] \in Seq(Levels) /\ Wave[a] # <<>>
    /\ \A a \in Static : Len(Wave[a]) = 1
    /\ \A a \in Moving : Speed[a] \in Nat
ASSUME TimeAssumption == Full \in Nat \ {0} /\ Elapsed \subseteq Nat \ {0}
ASSUME BoundsAssumption == QueueSize \in Nat /\ MaxSets \in Nat

VARIABLES
    ops,        \* LIGHTING_OPERATIONS, the animations to set
    leds,       \* the level of the strip
    barriers,   \* the levels it fades to, one after the other
    animation,  \* current_animation: its name and its phase
    shown,      \* the level sent last
    sets        \* the operations so far

vars == <<ops, leds, barriers, animation, shown, sets>>

Level(a) == Wave[a.name][a.at + 1]

(* The colour `new` starts with is black.                                  *)
Init ==
    /\ ops = <<>>
    /\ leds = 0
    /\ barriers = <<>>
    /\ animation \in {[name |-> a, at |-> 0] : a \in {b \in Static : Wave[b] = <<0>>}}
    /\ shown = 0
    /\ sets = 0

-----------------------------------------------------------------------------
SetAnimation(a) ==
    /\ Len(ops) < QueueSize
    /\ sets < MaxSets
    /\ ops' = Append(ops, a)
    /\ sets' = sets + 1
    /\ UNCHANGED <<leds, barriers, animation, shown>>

Barrier(level) == [led |-> level, amount |-> 0]

\* Faulty: the running fade is replaced.
InsertBarrierFirst(level) == <<Barrier(level)>>

\* Faulty: a third animation is dropped.
InsertBarrierDropped(level) ==
    IF Len(barriers) < 2 THEN Append(barriers, Barrier(level)) ELSE barriers

\* Faulty: the vector's capacity is not minded.
InsertBarrierAlways(level) == Append(barriers, Barrier(level))

InsertBarrier(level) ==
    IF Len(barriers) < 2
    THEN Append(barriers, Barrier(level))
    ELSE [barriers EXCEPT ![2] = Barrier(level)]

(* `select` polls the channel before the timer.                            *)
Receive ==
    /\ ops # <<>>
    /\ LET a == [name |-> Head(ops), at |-> 0]
       IN /\ barriers' = InsertBarrier(Level(a))
          /\ animation' = a
    /\ ops' = Tail(ops)
    /\ UNCHANGED <<leds, shown, sets>>

Complete(e) == barriers # <<>> /\ Head(barriers).amount + e >= Full

LedsAfter(e) == IF Complete(e) THEN Head(barriers).led ELSE leds

\* Faulty: a fade waits while another one waits for it.
BarriersAfterOne(e) ==
    IF Len(barriers) = 2 THEN barriers
    ELSE IF Complete(e) THEN Tail(barriers)
    ELSE IF barriers = <<>> THEN <<>>
    ELSE [barriers EXCEPT ![1].amount = @ + e]

BarriersAfter(e) ==
    IF Complete(e) THEN Tail(barriers)
    ELSE IF barriers = <<>> THEN <<>>
    ELSE [barriers EXCEPT ![1].amount = @ + e]

Mix(level, barrier) ==
    (level * (Full - barrier.amount) + barrier.led * barrier.amount) \div Full

Fade(e) ==
    /\ BarriersAfter(e) # <<>>
    /\ shown' = Mix(LedsAfter(e), Head(BarriersAfter(e)))
    /\ leds' = LedsAfter(e)
    /\ UNCHANGED animation

Advance(a, e) == [a EXCEPT !.at = (@ + Speed[a.name] * e) % Len(Wave[a.name])]

Animate(e) ==
    /\ BarriersAfter(e) = <<>>
    /\ \/ /\ animation.name \in Static
          /\ leds' = LedsAfter(e)
          /\ UNCHANGED animation
       \/ /\ animation.name \in Moving
          /\ animation' = Advance(animation, e)
          /\ leds' = Level(animation')
    /\ shown' = leds'

Update(e) ==
    /\ ops = <<>>
    /\ barriers' = BarriersAfter(e)
    /\ Fade(e) \/ Animate(e)
    /\ UNCHANGED <<ops, sets>>

Tick == \E e \in Elapsed : Update(e)

Next ==
    \/ \E a \in Animations : SetAnimation(a)
    \/ Receive
    \/ Tick

(* The lighting task runs: it takes an operation or its timer expires.     *)
Spec == Init /\ [][Next]_vars /\ WF_vars(Receive) /\ WF_vars(Tick)

-----------------------------------------------------------------------------
(* write_value_to_slice: the bytes a level is sent as.  LOOKUP repeats a   *)
(* bit three times for the WS2812B; parts of a byte that do not overlap    *)
(* are added, and what is shifted out of it is lost.                       *)
TestBit(value, offset) == (value \div 2 ^ offset) % 2

\* Faulty: the part of bit 4 that slice[3] has no room for is forgotten.
Ws2812bLosesBit(value) ==
    LET lookup(i) == 7 * TestBit(value, i)
    IN << 224 + lookup(7) * 4,
          112 + lookup(6) * 2,
          56 + lookup(5),
          28 + (lookup(4) \div 2),
          14 + (lookup(3) \div 4),
          7 + ((lookup(3) * 64) % 256),
          3 + lookup(2) * 32,
          129 + lookup(1) * 16,
          192 + lookup(0) * 8 >>

Ws2812b(value) ==
    LET lookup(i) == 7 * TestBit(value, i)
    IN << 224 + lookup(7) * 4,
          112 + lookup(6) * 2,
          56 + lookup(5),
          28 + (lookup(4) \div 2),
          14 + ((lookup(4) * 128) % 256) + (lookup(3) \div 4),
          7 + ((lookup(3) * 64) % 256),
          3 + lookup(2) * 32,
          129 + lookup(1) * 16,
          192 + lookup(0) * 8 >>

Sk6812(value) ==
    LET bit(i) == TestBit(value, i)
    IN << 16 + bit(7) * 8,
          66 + bit(5) * 32 + bit(6),
          8 + bit(3) * 128 + bit(4) * 4,
          33 + bit(2) * 16,
          132 + bit(0) * 64 + bit(1) * 2 >>

-----------------------------------------------------------------------------
TypeOK ==
    /\ ops \in Seq(Animations)
    /\ leds \in Levels /\ shown \in Levels /\ sets \in Nat
    /\ barriers \in Seq([led : Levels, amount : 0 .. Full - 1]) /\ Len(barriers) <= 2
    /\ animation \in [name : Animations, at : Nat]
    /\ animation.at < Len(Wave[animation.name])

(* The strip is where the animation set last is, or fades to where that    *)
(* animation will begin, however many were set during a fade: nothing      *)
(* jumps when the fades end.                                               *)
EndsInAnimation ==
    Level(animation) = IF barriers = <<>> THEN leds ELSE Last(barriers).led

(* From one update to the next the strip moves by no more than the part of *)
(* the fade that has gone by, and by what a moving animation moves.        *)
Distance(a, b) == IF a < b THEN b - a ELSE a - b

Slope(e) ==
    LET from(p) == [name |-> p[1], at |-> p[2] - 1]
        phases == UNION {{a} \X DOMAIN Wave[a] : a \in Moving}
    IN Max({0} \cup {Distance(Level(from(p)), Level(Advance(from(p), e))) : p \in phases})

Smooth ==
    [][\A e \in Elapsed : Update(e) =>
          Distance(shown, shown') <= ((255 * e) \div Full) + 1 + Slope(e)]_vars

(* Once no more animations come, the fades end.                            *)
FadesEnd == ops # <<>> ~> ops = <<>> /\ barriers = <<>>

(* What is shown goes out as eight groups of nine bits, the most           *)
(* significant bit first, each of them three ones, the bit three times,    *)
(* three zeros.                                                            *)
Bits(bytes) == [i \in 1 .. 8 * Len(bytes) |->
                   TestBit(bytes[1 + ((i - 1) \div 8)], 7 - ((i - 1) % 8))]
Group(bit) == <<1, 1, 1, bit, bit, bit, 0, 0, 0>>

Ws2812bFrames ==
    LET bits == Bits(Ws2812b(shown))
    IN /\ Len(bits) = 72
       /\ \A i \in 0 .. 7 : SubSeq(bits, 9 * i + 1, 9 * i + 9) = Group(TestBit(shown, 7 - i))

(* The bytes of the level that has every bit set are the five listed above *)
(* the driver's code, from 0 to 4.                                         *)
Sk6812AsListed ==
    shown = 255 => Bits(Sk6812(shown)) = FlattenSeq([i \in 1 .. 8 |-> <<1, 1, 0, 0, 0>>])
===============================================================================
