---------------------------- MODULE LedStripProofs ----------------------------
(***************************************************************************)
(* Where a strip is and where it fades to, for any animations and times.   *)
(***************************************************************************)
EXTENDS LedStrip, SequenceTheorems, WellFoundedInduction, TLAPS

(* Arithmetic of a mixture.                                                *)
LEMMA Share ==
    ASSUME NEW x \in 0 .. 255, NEW k \in Nat
    PROVE  x * k \in Nat /\ x * k <= 255 * k
<1> DEFINE y == 255 - x
<1>1. y \in Nat /\ x \in Nat /\ y * k \in Nat /\ x * k \in Nat
  OBVIOUS
<1>2. 255 * k = x * k + y * k
  OBVIOUS
<1> QED  BY <1>1, <1>2

(* A share divided again is a level.                                       *)
LEMMA Quotient ==
    ASSUME NEW n \in Nat \ {0}, NEW s \in Nat, s <= 255 * n
    PROVE  s \div n \in 0 .. 255
<1> DEFINE q == s \div n
<1>1. q \in Int /\ n * q <= s /\ s < n * (q + 1)
  OBVIOUS
<1> HIDE DEF q
<1>2. q <= 255
  <2> SUFFICES ASSUME q >= 256 PROVE FALSE
    BY <1>1
  <2>1. q - 256 \in Nat /\ n * (q - 256) \in Nat
    BY <1>1
  <2>2. n * q = n * (q - 256) + n * 256
    BY <1>1
  <2> QED  BY <1>1, <2>1, <2>2
<1>3. q >= 0
  <2> SUFFICES ASSUME q < 0 PROVE FALSE
    BY <1>1
  <2>1. -(q + 1) \in Nat /\ n * (-(q + 1)) \in Nat
    BY <1>1
  <2>2. n * (q + 1) = -(n * (-(q + 1)))
    BY <1>1
  <2> QED  BY <1>1, <2>1, <2>2
<1> QED  BY <1>1, <1>2, <1>3 DEF q

(* The end of a short sequence.                                            *)
LEMMA ShortSeq ==
    ASSUME NEW S, NEW s \in Seq(S), s # <<>>
    PROVE  /\ Head(s) \in S
           /\ Tail(s) \in Seq(S)
           /\ Len(Tail(s)) = Len(s) - 1
           /\ Len(s) \in Nat \ {0}
           /\ Last(s) = IF Tail(s) = <<>> THEN Head(s) ELSE Last(Tail(s))
<1>1. /\ Head(s) \in S /\ Tail(s) \in Seq(S) /\ Head(s) = s[1]
      /\ \A i \in 1 .. Len(Tail(s)) : Tail(s)[i] = s[i + 1]
  BY HeadTailProperties
<1>2. Len(s) \in Nat \ {0}
  BY EmptySeq
<1>3. Len(Tail(s)) = Len(s) - 1
  BY HeadTailProperties
<1>4. CASE Tail(s) = <<>>
  <2>1. Len(Tail(s)) = 0
    <3>1. Len(<<>>) = 0
      BY EmptySeq
    <3> QED  BY <1>4, <3>1, Zenon
  <2>2. Len(s) = 1
    <3> DEFINE n == Len(s)
               m == Len(Tail(s))
    <3>1. n \in Nat /\ m = n - 1 /\ m = 0
      BY <1>2, <1>3, <2>1
    <3> HIDE DEF n, m
    <3>2. n = 1
      BY <3>1
    <3> QED  BY <3>2 DEF n
  <2>3. Last(s) = s[1]
    BY <2>2, Zenon DEF Last
  <2> QED  BY <1>1, <1>2, <1>4, <1>3, <2>3
<1>5. CASE Tail(s) # <<>>
  <2>1. Len(Tail(s)) \in 1 .. Len(Tail(s)) /\ Len(Tail(s)) + 1 = Len(s)
    BY <1>1, <1>2, <1>5, <1>3, EmptySeq
  <2>2. Tail(s)[Len(Tail(s))] = s[Len(s)]
    BY <1>1, <2>1
  <2> QED  BY <1>1, <1>2, <1>5, <1>3, <2>2 DEF Last
<1> QED  BY <1>4, <1>5

USE AnimationsAssumption, WaveAssumption, TimeAssumption, BoundsAssumption

Barriers == [led : Levels, amount : 0 .. Full - 1]

(* An animation's phase has a level.                                       *)
LEMMA LevelType ==
    ASSUME NEW a \in [name : Animations, at : Nat], a.at < Len(Wave[a.name])
    PROVE  Level(a) \in Levels
BY DEF Level

(* A new animation begins at its first level.                              *)
LEMMA FirstLevel ==
    ASSUME NEW name \in Animations
    PROVE  /\ [name |-> name, at |-> 0] \in [name : Animations, at : Nat]
           /\ 0 < Len(Wave[name])
           /\ Level([name |-> name, at |-> 0]) \in Levels
BY LevelType DEF Level

(* A mixture of two levels is a level.                                     *)
LEMMA MixType ==
    ASSUME NEW level \in Levels, NEW barrier \in Barriers
    PROVE  Mix(level, barrier) \in Levels
<1> DEFINE a == barrier.amount
           b == barrier.led
<1>1. a \in Nat /\ Full - a \in Nat /\ b \in 0 .. 255 /\ level \in 0 .. 255
  BY DEF Barriers, Levels
<1>2. level * (Full - a) \in Nat /\ level * (Full - a) <= 255 * (Full - a)
  BY <1>1, Share
<1>3. b * a \in Nat /\ b * a <= 255 * a
  BY <1>1, Share
<1>4. 255 * (Full - a) + 255 * a = 255 * Full
  BY <1>1
<1> DEFINE sum == level * (Full - a) + b * a
<1>5. sum \in Nat /\ sum <= 255 * Full
  <2> DEFINE p == level * (Full - a)
             r == b * a
             u == 255 * (Full - a)
             v == 255 * a
  <2>1. p \in Nat /\ r \in Nat /\ u \in Nat /\ v \in Nat /\ p <= u /\ r <= v
    BY <1>1, <1>2, <1>3
  <2>2. u + v = 255 * Full
    BY <1>4
  <2> HIDE DEF p, r, u, v
  <2>3. p + r \in Nat /\ p + r <= 255 * Full
    BY <2>1, <2>2
  <2> QED  BY <2>3 DEF p, r
<1>6. sum \div Full \in 0 .. 255
  <2> HIDE DEF sum
  <2> QED  BY <1>5, Quotient
<1> QED  BY <1>6 DEF Mix, Levels

(* What a step of time makes of the strip and its barriers.                *)
LEMMA AfterType ==
    ASSUME TypeOK, NEW e \in Elapsed
    PROVE  /\ LedsAfter(e) \in Levels
           /\ BarriersAfter(e) \in Seq(Barriers)
           /\ Len(BarriersAfter(e)) <= 2
<1>1. barriers \in Seq(Barriers) /\ Len(barriers) <= 2 /\ leds \in Levels /\ e \in Nat
  BY DEF TypeOK, Barriers
<1>2. CASE barriers = <<>>
  BY <1>1, <1>2 DEF LedsAfter, BarriersAfter, Complete
<1>3. CASE barriers # <<>> /\ Complete(e)
  <2>1. LedsAfter(e) = Head(barriers).led /\ BarriersAfter(e) = Tail(barriers)
    BY <1>3 DEF LedsAfter, BarriersAfter
  <2>2. Head(barriers) \in Barriers /\ Tail(barriers) \in Seq(Barriers)
    BY <1>1, <1>3
  <2>3. Len(Tail(barriers)) <= 2
    BY <1>1, <1>3
  <2> QED  BY <2>1, <2>2, <2>3 DEF Barriers
<1>4. CASE barriers # <<>> /\ ~Complete(e)
  <2>1. barriers[1] \in Barriers /\ Head(barriers) = barriers[1]
    BY <1>1, <1>4
  <2>2. [barriers[1] EXCEPT !.amount = @ + e] \in Barriers
    BY <1>1, <1>4, <2>1 DEF Complete, Barriers
  <2>3. BarriersAfter(e) = [barriers EXCEPT ![1] = [barriers[1] EXCEPT !.amount = @ + e]]
    BY <1>4 DEF BarriersAfter
  <2> QED  BY <1>1, <1>4, <2>2, <2>3 DEF LedsAfter
<1> QED  BY <1>2, <1>3, <1>4

(* It ends where it would have ended.                                      *)
LEMMA AfterEnd ==
    ASSUME TypeOK, EndsInAnimation, NEW e \in Elapsed
    PROVE  Level(animation) =
               IF BarriersAfter(e) = <<>> THEN LedsAfter(e) ELSE Last(BarriersAfter(e)).led
<1>1. barriers \in Seq(Barriers) /\ Len(barriers) <= 2 /\ e \in Nat
  BY DEF TypeOK, Barriers
<1>2. CASE barriers = <<>>
  BY <1>1, <1>2 DEF LedsAfter, BarriersAfter, Complete, EndsInAnimation
<1>3. CASE barriers # <<>> /\ Complete(e)
  <2>1. Last(barriers) =
            IF Tail(barriers) = <<>> THEN Head(barriers) ELSE Last(Tail(barriers))
    BY <1>1, <1>3, ShortSeq
  <2> QED  BY <1>3, <2>1 DEF LedsAfter, BarriersAfter, EndsInAnimation
<1>4. CASE barriers # <<>> /\ ~Complete(e)
  <2>1. BarriersAfter(e) = [barriers EXCEPT ![1].amount = @ + e]
    BY <1>4 DEF BarriersAfter
  <2>2. Len(BarriersAfter(e)) = Len(barriers) /\ BarriersAfter(e) # <<>>
    BY <1>1, <1>4, <2>1
  <2>3. \A i \in 1 .. Len(barriers) : BarriersAfter(e)[i].led = barriers[i].led
    BY <1>1, <1>4, <2>1 DEF Barriers
  <2> QED  BY <1>1, <1>4, <2>2, <2>3 DEF EndsInAnimation, Last
<1> QED  BY <1>2, <1>3, <1>4

-----------------------------------------------------------------------------
IInv == TypeOK /\ EndsInAnimation

(* The strip begins black.                                                 *)
LEMMA InitIInv == Init => IInv
<1> SUFFICES ASSUME Init PROVE IInv
  OBVIOUS
<1>1. PICK a \in Static : Wave[a] = <<0>> /\ animation = [name |-> a, at |-> 0]
  BY DEF Init
<1>2. Level(animation) = 0 /\ 0 < Len(Wave[animation.name])
  <2>1. animation.name = a /\ animation.at = 0 /\ Wave[animation.name] = <<0>>
    BY <1>1
  <2>2. animation.at + 1 = 1
    BY <2>1
  <2>3. Wave[animation.name][animation.at + 1] = <<0>>[1]
    BY <2>1, <2>2, Zenon
  <2> QED  BY <2>1, <2>3 DEF Level
<1>3. animation \in [name : Animations, at : Nat]
  BY <1>1 DEF Animations
<1> QED  BY <1>2, <1>3 DEF Init, IInv, TypeOK, EndsInAnimation, Levels

(* A new animation is where the strip will end.                            *)
LEMMA ReceiveIInv == IInv /\ Receive => IInv'
<1> SUFFICES ASSUME IInv, Receive PROVE IInv'
  OBVIOUS
<1> DEFINE name == Head(ops)
           barrier == Barrier(Level([name |-> name, at |-> 0]))
<1>1. name \in Animations /\ Tail(ops) \in Seq(Animations)
  BY DEF IInv, TypeOK, Receive
<1>2. animation' = [name |-> name, at |-> 0] /\ barriers' = InsertBarrier(barrier.led)
  BY DEF Receive, Barrier
<1>3. barrier \in Barriers /\ barrier = Barrier(barrier.led)
  BY <1>1, FirstLevel DEF Barrier, Barriers
<1>4. barriers \in Seq(Barriers) /\ Len(barriers) <= 2
  BY DEF IInv, TypeOK, Barriers
<1> HIDE DEF barrier
<1>5. /\ barriers' \in Seq(Barriers) /\ Len(barriers') <= 2
      /\ barriers' # <<>> /\ Last(barriers') = barrier
  <2>1. CASE Len(barriers) < 2
    <3>1. barriers' = Append(barriers, barrier)
      BY <1>2, <1>3, <2>1 DEF InsertBarrier
    <3> QED  BY <1>3, <1>4, <2>1, <3>1 DEF Last
  <2>2. CASE Len(barriers) = 2
    <3>1. barriers' = [barriers EXCEPT ![2] = barrier]
      <4>1. ~(Len(barriers) < 2)
        BY <2>2
      <4> QED  BY <1>2, <1>3, <4>1, Zenon DEF InsertBarrier
    <3>2. Len(barriers') = 2 /\ barriers' \in Seq(Barriers) /\ barriers'[2] = barrier
      BY <1>3, <1>4, <2>2, <3>1
    <3> QED  BY <3>2 DEF Last
  <2>3. Len(barriers) < 2 \/ Len(barriers) = 2
    <3> DEFINE n == Len(barriers)
    <3>1. n \in Nat /\ n <= 2
      BY <1>4, LenProperties
    <3> HIDE DEF n
    <3>2. n < 2 \/ n = 2
      BY <3>1
    <3> QED  BY <3>2 DEF n
  <2> QED  BY <2>1, <2>2, <2>3, Zenon
<1>6. EndsInAnimation'
  <2>1. Level(animation)' = barrier.led
    BY <1>2 DEF barrier, Barrier, Level
  <2> QED  BY <1>5, <2>1 DEF EndsInAnimation
<1>7. animation' \in [name : Animations, at : Nat] /\ animation'.at < Len(Wave[animation'.name])
  BY <1>1, <1>2, FirstLevel
<1> QED  BY <1>1, <1>5, <1>6, <1>7 DEF IInv, TypeOK, Receive, Barriers

(* While it fades the animation stands still.                              *)
LEMMA FadeIInv ==
    ASSUME IInv, NEW e \in Elapsed, Update(e), Fade(e)
    PROVE  IInv'
<1>1. /\ barriers' = BarriersAfter(e) /\ leds' = LedsAfter(e) /\ barriers' # <<>>
      /\ animation' = animation /\ UNCHANGED <<ops, sets>>
      /\ shown' = Mix(LedsAfter(e), Head(BarriersAfter(e)))
  BY DEF Update, Fade
<1>2. /\ leds' \in Levels /\ barriers' \in Seq(Barriers) /\ Len(barriers') <= 2
  BY <1>1, AfterType DEF IInv
<1>3. shown' \in Levels
  <2>1. Head(barriers') \in Barriers
    BY <1>1, <1>2, ShortSeq
  <2> QED  BY <1>1, <1>2, <2>1, MixType
<1>4. EndsInAnimation'
  BY <1>1, AfterEnd DEF IInv, EndsInAnimation, Level
<1> QED  BY <1>1, <1>2, <1>3, <1>4 DEF IInv, TypeOK, Barriers

(* When it does not, the strip goes where the animation goes.              *)
LEMMA AnimateIInv ==
    ASSUME IInv, NEW e \in Elapsed, Update(e), Animate(e)
    PROVE  IInv'
<1>1. barriers' = <<>> /\ BarriersAfter(e) = <<>> /\ shown' = leds' /\ UNCHANGED <<ops, sets>>
  BY DEF Update, Animate
<1>2. CASE animation.name \in Static /\ leds' = LedsAfter(e) /\ UNCHANGED animation
  <2>1. Level(animation)' = leds'
    BY <1>1, <1>2, AfterEnd DEF IInv, Level
  <2>2. leds' \in Levels
    BY <1>2, AfterType DEF IInv
  <2> QED  BY <1>1, <1>2, <2>1, <2>2 DEF IInv, TypeOK, EndsInAnimation
<1>3. CASE /\ animation.name \in Moving
           /\ animation' = Advance(animation, e)
           /\ leds' = Level(animation')
  <2> DEFINE length == Len(Wave[animation.name])
             at == (animation.at + Speed[animation.name] * e) % length
  <2>1. animation \in [name : Animations, at : Nat] /\ length \in Nat \ {0}
    BY EmptySeq DEF IInv, TypeOK
  <2>2. animation.at + Speed[animation.name] * e \in Nat
    <3>1. Speed[animation.name] \in Nat /\ e \in Nat
      BY <1>3
    <3>2. Speed[animation.name] * e \in Nat
      BY <3>1
    <3> QED  BY <2>1, <3>2
  <2>3. at \in 0 .. length - 1
    BY <2>1, <2>2
  <2>4. animation' \in [name : Animations, at : Nat] /\ animation'.at < Len(Wave[animation'.name])
    <3>1. animation' = [animation EXCEPT !.at = at]
      BY <1>3 DEF Advance
    <3> HIDE DEF at
    <3> QED  BY <2>1, <2>3, <3>1
  <2>5. leds' \in Levels
    BY <1>3, <2>4, LevelType
  <2>6. Level(animation)' = leds'
    BY <1>3 DEF Level
  <2> QED  BY <1>1, <2>4, <2>5, <2>6 DEF IInv, TypeOK, EndsInAnimation
<1> QED  BY <1>2, <1>3 DEF Animate

(* Types and end hold whatever operations and ticks come.                  *)
THEOREM Invariance == Spec => []IInv
<1>1. IInv /\ [Next]_vars => IInv'
  <2> SUFFICES ASSUME IInv, [Next]_vars PROVE IInv'
    OBVIOUS
  <2>1. CASE \E a \in Animations : SetAnimation(a)
    BY <2>1 DEF IInv, TypeOK, EndsInAnimation, Level, SetAnimation
  <2>2. CASE Receive
    BY <2>2, ReceiveIInv
  <2>3. CASE Tick
    BY <2>3, FadeIInv, AnimateIInv DEF Tick, Update
  <2>4. CASE UNCHANGED vars
    BY <2>4 DEF IInv, TypeOK, EndsInAnimation, Level, vars
  <2> QED  BY <2>1, <2>2, <2>3, <2>4 DEF Next
<1> QED  BY InitIInv, <1>1, PTL DEF Spec

(* The variables keep their types; what is sent is always a byte, however  *)
(* long an update takes.                                                   *)
THEOREM LedStripTypes == Spec => []TypeOK
<1>1. IInv => TypeOK
  BY DEF IInv
<1> QED  BY <1>1, Invariance, PTL

(* However many animations are set during a fade, the strip ends where the *)
(* last of them begins.                                                    *)
THEOREM EndsWhereItBegins == Spec => []EndsInAnimation
<1>1. IInv => EndsInAnimation
  BY DEF IInv
<1> QED  BY <1>1, Invariance, PTL

-----------------------------------------------------------------------------
(* The bytes of the WS2812B.                                               *)

(* A bit is zero or one.                                                   *)
LEMMA BitType ==
    ASSUME NEW n \in Nat, NEW i \in 0 .. 7
    PROVE  TestBit(n, i) \in {0, 1}
<1>1. i \in {0, 1, 2, 3, 4, 5, 6, 7}
  OBVIOUS
<1>2. n \div 1 \in Nat /\ n \div 2 \in Nat /\ n \div 4 \in Nat /\ n \div 8 \in Nat
      /\ n \div 16 \in Nat /\ n \div 32 \in Nat /\ n \div 64 \in Nat /\ n \div 128 \in Nat
  OBVIOUS
<1>3. /\ 2 ^ 0 = 1 /\ 2 ^ 1 = 2 /\ 2 ^ 2 = 4 /\ 2 ^ 3 = 8
      /\ 2 ^ 4 = 16 /\ 2 ^ 5 = 32 /\ 2 ^ 6 = 64 /\ 2 ^ 7 = 128
  OBVIOUS
<1>4. n \div 2 ^ i \in Nat
  BY <1>1, <1>2, <1>3
<1>5. \A m \in Nat : m % 2 \in {0, 1}
  OBVIOUS
<1> QED  BY <1>4, <1>5 DEF TestBit

(* The eight bits of a byte, the most significant one first.               *)
Byte(n) == [j \in 1 .. 8 |-> TestBit(n, 8 - j)]

(* A byte's bits, with the powers worked out.                              *)
LEMMA ByteIs ==
    ASSUME NEW n \in Nat
    PROVE  Byte(n) = << (n \div 128) % 2, (n \div 64) % 2, (n \div 32) % 2, (n \div 16) % 2,
                        (n \div 8) % 2, (n \div 4) % 2, (n \div 2) % 2, n % 2 >>
<1>1. /\ 2 ^ 0 = 1 /\ 2 ^ 1 = 2 /\ 2 ^ 2 = 4 /\ 2 ^ 3 = 8
      /\ 2 ^ 4 = 16 /\ 2 ^ 5 = 32 /\ 2 ^ 6 = 64 /\ 2 ^ 7 = 128
  OBVIOUS
<1>2. n \div 1 = n
  OBVIOUS
<1> QED  BY <1>1, <1>2 DEF Byte, TestBit

(* The bytes that the driver sends, in bits.                               *)
LEMMA BytesSent ==
    /\ Byte(3) = <<0, 0, 0, 0, 0, 0, 1, 1>>
    /\ Byte(7) = <<0, 0, 0, 0, 0, 1, 1, 1>>
    /\ Byte(14) = <<0, 0, 0, 0, 1, 1, 1, 0>>
    /\ Byte(15) = <<0, 0, 0, 0, 1, 1, 1, 1>>
    /\ Byte(28) = <<0, 0, 0, 1, 1, 1, 0, 0>>
    /\ Byte(31) = <<0, 0, 0, 1, 1, 1, 1, 1>>
    /\ Byte(56) = <<0, 0, 1, 1, 1, 0, 0, 0>>
    /\ Byte(63) = <<0, 0, 1, 1, 1, 1, 1, 1>>
    /\ Byte(112) = <<0, 1, 1, 1, 0, 0, 0, 0>>
    /\ Byte(126) = <<0, 1, 1, 1, 1, 1, 1, 0>>
    /\ Byte(129) = <<1, 0, 0, 0, 0, 0, 0, 1>>
    /\ Byte(142) = <<1, 0, 0, 0, 1, 1, 1, 0>>
    /\ Byte(143) = <<1, 0, 0, 0, 1, 1, 1, 1>>
    /\ Byte(192) = <<1, 1, 0, 0, 0, 0, 0, 0>>
    /\ Byte(199) = <<1, 1, 0, 0, 0, 1, 1, 1>>
    /\ Byte(224) = <<1, 1, 1, 0, 0, 0, 0, 0>>
    /\ Byte(227) = <<1, 1, 1, 0, 0, 0, 1, 1>>
    /\ Byte(241) = <<1, 1, 1, 1, 0, 0, 0, 1>>
    /\ Byte(248) = <<1, 1, 1, 1, 1, 0, 0, 0>>
    /\ Byte(252) = <<1, 1, 1, 1, 1, 1, 0, 0>>
<1>1. Byte(3) = <<0, 0, 0, 0, 0, 0, 1, 1>>
  BY ByteIs
<1>2. Byte(7) = <<0, 0, 0, 0, 0, 1, 1, 1>>
  BY ByteIs
<1>3. Byte(14) = <<0, 0, 0, 0, 1, 1, 1, 0>>
  BY ByteIs
<1>4. Byte(15) = <<0, 0, 0, 0, 1, 1, 1, 1>>
  BY ByteIs
<1>5. Byte(28) = <<0, 0, 0, 1, 1, 1, 0, 0>>
  BY ByteIs
<1>6. Byte(31) = <<0, 0, 0, 1, 1, 1, 1, 1>>
  BY ByteIs
<1>7. Byte(56) = <<0, 0, 1, 1, 1, 0, 0, 0>>
  BY ByteIs
<1>8. Byte(63) = <<0, 0, 1, 1, 1, 1, 1, 1>>
  BY ByteIs
<1>9. Byte(112) = <<0, 1, 1, 1, 0, 0, 0, 0>>
  BY ByteIs
<1>10. Byte(126) = <<0, 1, 1, 1, 1, 1, 1, 0>>
  BY ByteIs
<1>11. Byte(129) = <<1, 0, 0, 0, 0, 0, 0, 1>>
  BY ByteIs
<1>12. Byte(142) = <<1, 0, 0, 0, 1, 1, 1, 0>>
  BY ByteIs
<1>13. Byte(143) = <<1, 0, 0, 0, 1, 1, 1, 1>>
  BY ByteIs
<1>14. Byte(192) = <<1, 1, 0, 0, 0, 0, 0, 0>>
  BY ByteIs
<1>15. Byte(199) = <<1, 1, 0, 0, 0, 1, 1, 1>>
  BY ByteIs
<1>16. Byte(224) = <<1, 1, 1, 0, 0, 0, 0, 0>>
  BY ByteIs
<1>17. Byte(227) = <<1, 1, 1, 0, 0, 0, 1, 1>>
  BY ByteIs
<1>18. Byte(241) = <<1, 1, 1, 1, 0, 0, 0, 1>>
  BY ByteIs
<1>19. Byte(248) = <<1, 1, 1, 1, 1, 0, 0, 0>>
  BY ByteIs
<1>20. Byte(252) = <<1, 1, 1, 1, 1, 1, 0, 0>>
  BY ByteIs
<1> QED  BY <1>1, <1>2, <1>3, <1>4, <1>5, <1>6, <1>7, <1>8, <1>9, <1>10, <1>11, <1>12, <1>13, <1>14, <1>15, <1>16, <1>17, <1>18, <1>19, <1>20

(* The nine bytes of a value, in bits: the groups lie one after the other. *)
LEMMA Ws2812bBytes ==
    ASSUME NEW v \in Nat
    PROVE  LET w == Ws2812b(v)
               t(i) == TestBit(v, i)
           IN /\ Len(w) = 9
              /\ Byte(w[1]) = <<1, 1, 1, t(7), t(7), t(7), 0, 0>>
              /\ Byte(w[2]) = <<0, 1, 1, 1, t(6), t(6), t(6), 0>>
              /\ Byte(w[3]) = <<0, 0, 1, 1, 1, t(5), t(5), t(5)>>
              /\ Byte(w[4]) = <<0, 0, 0, 1, 1, 1, t(4), t(4)>>
              /\ Byte(w[5]) = <<t(4), 0, 0, 0, 1, 1, 1, t(3)>>
              /\ Byte(w[6]) = <<t(3), t(3), 0, 0, 0, 1, 1, 1>>
              /\ Byte(w[7]) = <<t(2), t(2), t(2), 0, 0, 0, 1, 1>>
              /\ Byte(w[8]) = <<1, t(1), t(1), t(1), 0, 0, 0, 1>>
              /\ Byte(w[9]) = <<1, 1, t(0), t(0), t(0), 0, 0, 0>>
<1> DEFINE w == Ws2812b(v)
           t(i) == TestBit(v, i)
<1>1. \A i \in 0 .. 7 : t(i) \in {0, 1}
  BY BitType
<1>2. /\ Len(w) = 9
      /\ w[1] = 224 + (7 * t(7)) * 4
      /\ w[2] = 112 + (7 * t(6)) * 2
      /\ w[3] = 56 + 7 * t(5)
      /\ w[4] = 28 + ((7 * t(4)) \div 2)
      /\ w[5] = 14 + (((7 * t(4)) * 128) % 256) + ((7 * t(3)) \div 4)
      /\ w[6] = 7 + (((7 * t(3)) * 64) % 256)
      /\ w[7] = 3 + (7 * t(2)) * 32
      /\ w[8] = 129 + (7 * t(1)) * 16
      /\ w[9] = 192 + (7 * t(0)) * 8
  BY DEF Ws2812b
<1> HIDE DEF w, t
<1>3. /\ w[1] = IF t(7) = 0 THEN 224 ELSE 252
      /\ w[2] = IF t(6) = 0 THEN 112 ELSE 126
      /\ w[3] = IF t(5) = 0 THEN 56 ELSE 63
  BY <1>1, <1>2
<1>4. /\ w[4] = IF t(4) = 0 THEN 28 ELSE 31
      /\ w[6] = IF t(3) = 0 THEN 7 ELSE 199
  BY <1>1, <1>2
<1>5. w[5] = IF t(4) = 0 THEN IF t(3) = 0 THEN 14 ELSE 15
                         ELSE IF t(3) = 0 THEN 142 ELSE 143
  <2>1. CASE t(4) = 0
    BY <1>1, <1>2, <2>1
  <2>2. CASE t(4) = 1
    BY <1>1, <1>2, <2>2
  <2> QED  BY <1>1, <2>1, <2>2
<1>6. /\ w[7] = IF t(2) = 0 THEN 3 ELSE 227
      /\ w[8] = IF t(1) = 0 THEN 129 ELSE 241
      /\ w[9] = IF t(0) = 0 THEN 192 ELSE 248
  BY <1>1, <1>2
<1> HIDE DEF Byte
<1>7. /\ Byte(w[1]) = <<1, 1, 1, t(7), t(7), t(7), 0, 0>>
      /\ Byte(w[2]) = <<0, 1, 1, 1, t(6), t(6), t(6), 0>>
      /\ Byte(w[3]) = <<0, 0, 1, 1, 1, t(5), t(5), t(5)>>
  <2>1. \A x \in {0, 1} : x = 0 \/ x = 1
    OBVIOUS
  <2> QED  BY <1>1, <1>3, <2>1, BytesSent
<1>8. /\ Byte(w[4]) = <<0, 0, 0, 1, 1, 1, t(4), t(4)>>
      /\ Byte(w[5]) = <<t(4), 0, 0, 0, 1, 1, 1, t(3)>>
      /\ Byte(w[6]) = <<t(3), t(3), 0, 0, 0, 1, 1, 1>>
  BY <1>1, <1>4, <1>5, BytesSent
<1>9. /\ Byte(w[7]) = <<t(2), t(2), t(2), 0, 0, 0, 1, 1>>
      /\ Byte(w[8]) = <<1, t(1), t(1), t(1), 0, 0, 0, 1>>
      /\ Byte(w[9]) = <<1, 1, t(0), t(0), t(0), 0, 0, 0>>
  BY <1>1, <1>6, BytesSent
<1> QED  BY <1>2, <1>7, <1>8, <1>9 DEF w, t

(* Each bit of the bytes sent is one of a byte's.                          *)
LEMMA BitsAreBytes ==
    ASSUME NEW v \in Nat
    PROVE  /\ Len(Bits(Ws2812b(v))) = 72
           /\ \A q \in 0 .. 8, j \in 1 .. 8 :
                 Bits(Ws2812b(v))[8 * q + j] = Byte(Ws2812b(v)[q + 1])[j]
<1> DEFINE s == Ws2812b(v)
<1>0. Len(s) = 9
  BY Ws2812bBytes
<1> HIDE DEF s
<1>1. Bits(s) = [i \in 1 .. 72 |-> TestBit(s[1 + ((i - 1) \div 8)], 7 - ((i - 1) % 8))]
  BY <1>0 DEF Bits
<1>2. ASSUME NEW q \in 0 .. 8, NEW j \in 1 .. 8
      PROVE  Bits(s)[8 * q + j] = Byte(s[q + 1])[j]
  <2> DEFINE i == 8 * q + j
  <2>1. i \in 1 .. 72 /\ 1 + ((i - 1) \div 8) = q + 1 /\ 7 - ((i - 1) % 8) = 8 - j
    OBVIOUS
  <2>2. Bits(s)[i] = TestBit(s[q + 1], 8 - j)
    BY <1>1, <2>1
  <2> QED  BY <2>2 DEF Byte

<1> QED  BY <1>1, <1>2 DEF s

(* Nine bits one after the other are a group.                              *)
LEMMA GroupIs ==
    ASSUME NEW s, NEW m \in Int, NEW b, m >= 1,
           \A k \in 1 .. 9 : s[m + k - 1] = Group(b)[k]
    PROVE  SubSeq(s, m, m + 8) = Group(b)
<1>1. SubSeq(s, m, m + 8) = [k \in 1 .. 9 |-> s[m + k - 1]]
  OBVIOUS
<1>2. Group(b) = [k \in 1 .. 9 |-> Group(b)[k]]
  BY DEF Group
<1> QED  BY <1>1, <1>2


(* The 72 bits of a value, group by group.                                 *)
LEMMA Ws2812bGroups ==
    ASSUME NEW v \in Nat, NEW i \in 0 .. 7
    PROVE  SubSeq(Bits(Ws2812b(v)), 9 * i + 1, 9 * i + 9) = Group(TestBit(v, 7 - i))
<1> DEFINE w == Ws2812b(v)
           bits == Bits(w)
           t(k) == TestBit(v, k)
<1>1. \A q \in 0 .. 8, j \in 1 .. 8 : bits[8 * q + j] = Byte(w[q + 1])[j]
  BY BitsAreBytes
<1>2. /\ Byte(w[1]) = <<1, 1, 1, t(7), t(7), t(7), 0, 0>>
      /\ Byte(w[2]) = <<0, 1, 1, 1, t(6), t(6), t(6), 0>>
      /\ Byte(w[3]) = <<0, 0, 1, 1, 1, t(5), t(5), t(5)>>
      /\ Byte(w[4]) = <<0, 0, 0, 1, 1, 1, t(4), t(4)>>
      /\ Byte(w[5]) = <<t(4), 0, 0, 0, 1, 1, 1, t(3)>>
      /\ Byte(w[6]) = <<t(3), t(3), 0, 0, 0, 1, 1, 1>>
      /\ Byte(w[7]) = <<t(2), t(2), t(2), 0, 0, 0, 1, 1>>
      /\ Byte(w[8]) = <<1, t(1), t(1), t(1), 0, 0, 0, 1>>
      /\ Byte(w[9]) = <<1, 1, t(0), t(0), t(0), 0, 0, 0>>
  BY Ws2812bBytes
<1> HIDE DEF w, bits, t
<1>3. \A k \in 1 .. 9 : bits[(9 * i + 1) + k - 1] = Group(t(7 - i))[k]
  <2>1. ASSUME NEW k \in 1 .. 9, i + k <= 8
        PROVE  bits[(9 * i + 1) + k - 1] = Byte(w[i + 1])[i + k]
    <3>1. i \in 0 .. 8 /\ i + k \in 1 .. 8 /\ 8 * i + (i + k) = (9 * i + 1) + k - 1
      BY <2>1
    <3> QED  BY <1>1, <3>1
  <2>2. ASSUME NEW k \in 1 .. 9, i + k > 8
        PROVE  bits[(9 * i + 1) + k - 1] = Byte(w[i + 2])[i + k - 8]
    <3>1. i + 1 \in 0 .. 8 /\ i + k - 8 \in 1 .. 8
          /\ 8 * (i + 1) + (i + k - 8) = (9 * i + 1) + k - 1
          /\ (i + 1) + 1 = i + 2
      BY <2>2
    <3> QED  BY <1>1, <3>1
  <2>3. CASE i = 0
    BY <1>2, <2>1, <2>2, <2>3 DEF Group
  <2>4. CASE i = 1
    BY <1>2, <2>1, <2>2, <2>4 DEF Group
  <2>5. CASE i = 2
    BY <1>2, <2>1, <2>2, <2>5 DEF Group
  <2>6. CASE i = 3
    BY <1>2, <2>1, <2>2, <2>6 DEF Group
  <2>7. CASE i = 4
    BY <1>2, <2>1, <2>2, <2>7 DEF Group
  <2>8. CASE i = 5
    BY <1>2, <2>1, <2>2, <2>8 DEF Group
  <2>9. CASE i = 6
    BY <1>2, <2>1, <2>2, <2>9 DEF Group
  <2>10. CASE i = 7
    BY <1>2, <2>1, <2>2, <2>10 DEF Group
  <2>11. i \in {0, 1, 2, 3, 4, 5, 6, 7}
    OBVIOUS
  <2> QED  BY <2>11, <2>3, <2>4, <2>5, <2>6, <2>7, <2>8, <2>9, <2>10
<1>4. SubSeq(bits, 9 * i + 1, (9 * i + 1) + 8) = Group(t(7 - i))
  <2>1. 9 * i + 1 \in Int /\ 9 * i + 1 >= 1
    OBVIOUS
  <2> DEFINE m == 9 * i + 1
             b == t(7 - i)
  <2>2. m \in Int /\ m >= 1 /\ \A k \in 1 .. 9 : bits[m + k - 1] = Group(b)[k]
    BY <1>3, <2>1
  <2> HIDE DEF m, b
  <2>3. SubSeq(bits, m, m + 8) = Group(b)
    BY <2>2, GroupIs
  <2> QED  BY <2>3 DEF m, b
<1>5. (9 * i + 1) + 8 = 9 * i + 9
  OBVIOUS
<1> QED  BY <1>4, <1>5 DEF w, bits, t

(* Whatever is shown, the WS2812B is sent eight well-formed groups, though *)
(* their bits cross the bytes' boundaries.                                 *)
THEOREM Ws2812bIsFramed == Spec => []Ws2812bFrames
<1>1. IInv => Ws2812bFrames
  <2>1. IInv => shown \in Nat
    BY DEF IInv, TypeOK, Levels
  <2>2. ASSUME NEW v \in Nat
        PROVE  Len(Bits(Ws2812b(v))) = 72
    BY BitsAreBytes
  <2> QED  BY <2>1, <2>2, Ws2812bGroups DEF Ws2812bFrames
<1> QED  BY <1>1, Invariance, PTL

-----------------------------------------------------------------------------
(* How far the strip moves in an update.                                   *)

(* What is shown is on the way to the first barrier; a second one has not  *)
(* begun.                                                                  *)
OnTheWay ==
    /\ shown = IF barriers = <<>> THEN leds ELSE Mix(leds, Head(barriers))
    /\ Len(barriers) = 2 => barriers[2].amount = 0

(* A set of levels has a largest one.                                      *)
LEMMA MaxLevel ==
    ASSUME NEW S \in SUBSET Levels, NEW x \in S
    PROVE  Max(S) \in S /\ x <= Max(S)
<1> DEFINE T == {255 - y : y \in S}
<1>1. T \subseteq Nat /\ T # {}
  BY DEF Levels
<1>2. PICK n \in T : \A m \in T : ~(<<m, n>> \in OpToRel(<, Nat))
  BY <1>1, NatLessThanWellFounded, WFMin
<1>3. \A m \in T : n <= m
  <2> HIDE DEF T
  <2> SUFFICES ASSUME NEW m \in T PROVE n <= m
    OBVIOUS
  <2>1. m \in Nat /\ n \in Nat /\ ~(m < n)
    BY <1>1, <1>2 DEF OpToRel
  <2> QED  BY <2>1
<1>4. PICK z \in S : n = 255 - z
  BY <1>2
<1>5. \A y \in S : z >= y
  <2> SUFFICES ASSUME NEW y \in S PROVE z >= y
    OBVIOUS
  <2>1. n <= 255 - y
    BY <1>3
  <2> QED  BY <1>4, <2>1 DEF Levels
<1>6. Max(S) \in S /\ \A y \in S : Max(S) >= y
  BY <1>5 DEF Max
<1> QED  BY <1>6 DEF Levels

(* Distances add up.                                                       *)
LEMMA Triangle ==
    ASSUME NEW a \in Levels, NEW b \in Levels, NEW c \in Levels
    PROVE  /\ Distance(a, b) \in Levels
           /\ Distance(a, a) = 0
           /\ Distance(a, c) <= Distance(a, b) + Distance(b, c)
BY DEF Distance, Levels

(* A quotient grows by no more than its dividend's growth divided.         *)
LEMMA QuotientGrows ==
    ASSUME NEW n \in Nat \ {0}, NEW p \in Nat, NEW q \in Nat, NEW d \in Nat, q <= p + d
    PROVE  q \div n <= (p \div n) + (d \div n) + 1
<1> DEFINE P == p \div n
           Q == q \div n
           D == d \div n
<1>1. /\ P \in Int /\ Q \in Int /\ D \in Int
      /\ p < n * (P + 1) /\ d < n * (D + 1) /\ n * Q <= q
  OBVIOUS
<1> HIDE DEF P, Q, D
<1>2. n * (P + 1) + n * (D + 1) = n * (P + D + 2)
  BY <1>1
<1>3. n * Q < n * (P + D + 2)
  <2> DEFINE u == n * (P + 1)
             v == n * (D + 1)
             w == n * (P + D + 2)
             r == n * Q
  <2>1. u \in Int /\ v \in Int /\ w \in Int /\ r \in Int /\ u + v = w /\ p < u /\ d < v /\ r <= q
    BY <1>1, <1>2
  <2> HIDE DEF u, v, w, r
  <2>2. r < w
    BY <2>1
  <2> QED  BY <2>2 DEF r, w
<1>4. Q <= P + D + 1
  <2> SUFFICES ASSUME Q >= P + D + 2 PROVE FALSE
    BY <1>1
  <2> DEFINE k == Q - (P + D + 2)
  <2>1. k \in Nat /\ Q = k + (P + D + 2)
    BY <1>1
  <2> HIDE DEF k
  <2>2. n * Q = n * k + n * (P + D + 2) /\ n * k \in Nat
    BY <1>1, <2>1
  <2> QED  BY <1>1, <1>3, <2>2
<1> QED  BY <1>1, <1>4 DEF P, Q, D

(* A fade that goes on from one part of its time to a later one.           *)
LEMMA FadeMoves ==
    ASSUME NEW n \in Nat \ {0}, NEW l \in Levels, NEW t \in Levels, NEW e \in Nat,
           NEW a \in 0 .. n, NEW c \in 0 .. n, a <= c, c - a <= e
    PROVE  Distance((l * (n - a) + t * a) \div n, (l * (n - c) + t * c) \div n)
               <= ((255 * e) \div n) + 1
<1> DEFINE p == l * (n - a) + t * a
           q == l * (n - c) + t * c
           k == c - a
<1>1. k \in Nat /\ k <= e /\ l \in 0 .. 255 /\ t \in 0 .. 255
  BY DEF Levels
<1>2. l * k \in Nat /\ l * k <= 255 * k /\ t * k \in Nat /\ t * k <= 255 * k
  BY <1>1, Share
<1>3. p \in Nat /\ q \in Nat
  <2>1. /\ l * (n - a) \in Nat /\ t * a \in Nat
        /\ l * (n - c) \in Nat /\ t * c \in Nat
    BY <1>1, Share
  <2> QED  BY <2>1
<1>4. q + l * k = p + t * k
  <2>1. l * (n - c) = l * (n - a) - l * k
    BY <1>1
  <2>2. t * c = t * a + t * k
    BY <1>1
  <2>3. /\ l * (n - a) \in Int /\ l * (n - c) \in Int /\ t * a \in Int /\ t * c \in Int
    BY <1>1
  <2> QED  BY <1>2, <2>1, <2>2, <2>3
<1> HIDE DEF p, q
<1>5. q <= p + 255 * e /\ p <= q + 255 * e /\ 255 * e \in Nat
  <2> DEFINE x == l * k
             y == t * k
  <2>1. x \in Nat /\ y \in Nat /\ x <= 255 * k /\ y <= 255 * k /\ q + x = p + y
    BY <1>2, <1>4
  <2> HIDE DEF x, y
  <2> QED  BY <1>1, <1>3, <2>1
<1>6. /\ q \div n <= (p \div n) + ((255 * e) \div n) + 1
      /\ p \div n <= (q \div n) + ((255 * e) \div n) + 1
  BY <1>3, <1>5, QuotientGrows
<1>7. p \div n \in Int /\ q \div n \in Int /\ (255 * e) \div n \in Int
  BY <1>3, <1>5
<1>8. Distance(p \div n, q \div n) <= ((255 * e) \div n) + 1
  <2> DEFINE x == p \div n
             y == q \div n
             z == (255 * e) \div n
  <2> HIDE DEF x, y, z
  <2>1. x \in Int /\ y \in Int /\ z \in Int /\ y <= x + z + 1 /\ x <= y + z + 1
    BY <1>6, <1>7 DEF x, y, z
  <2>2. Distance(x, y) <= z + 1
    BY <2>1 DEF Distance
  <2> QED  BY <2>2 DEF x, y, z
<1> QED  BY <1>8 DEF p, q

(* What a moving animation moves by in a step is within its slope.         *)
LEMMA WithinSlope ==
    ASSUME NEW a \in [name : Animations, at : Nat], a.at < Len(Wave[a.name]),
           NEW e \in Elapsed
    PROVE  /\ Slope(e) \in Nat
           /\ a.name \in Moving =>
                  /\ Level(Advance(a, e)) \in Levels
                  /\ Distance(Level(a), Level(Advance(a, e))) <= Slope(e)
<1> DEFINE from(p) == [name |-> p[1], at |-> p[2] - 1]
           phases == UNION {{b} \X DOMAIN Wave[b] : b \in Moving}
           moves == {Distance(Level(from(p)), Level(Advance(from(p), e))) : p \in phases}
<1>1. ASSUME NEW b \in [name : Animations, at : Nat], b.name \in Moving,
             b.at < Len(Wave[b.name])
      PROVE  /\ Level(b) \in Levels /\ Level(Advance(b, e)) \in Levels
             /\ Distance(Level(b), Level(Advance(b, e))) \in Levels
  <2> DEFINE length == Len(Wave[b.name])
             at == (b.at + Speed[b.name] * e) % length
  <2>1. length \in Nat \ {0}
    BY <1>1, EmptySeq
  <2>2. b.at + Speed[b.name] * e \in Nat
    <3>1. Speed[b.name] \in Nat /\ e \in Nat /\ b.at \in Nat
      BY <1>1
    <3>2. Speed[b.name] * e \in Nat
      BY <3>1
    <3> QED  BY <3>1, <3>2
  <2>3. at \in 0 .. length - 1
    BY <2>1, <2>2
  <2>4. Advance(b, e) = [b EXCEPT !.at = at]
    BY DEF Advance
  <2>5. Advance(b, e) \in [name : Animations, at : Nat]
        /\ Advance(b, e).at < Len(Wave[Advance(b, e).name])
    <3> HIDE DEF at
    <3> QED  BY <1>1, <2>1, <2>3, <2>4
  <2>6. Level(b) \in Levels
    BY <1>1, LevelType
  <2>7. Level(Advance(b, e)) \in Levels
    BY <2>5, LevelType
  <2> QED  BY <2>6, <2>7, Triangle
<1>2. ASSUME NEW p \in phases
      PROVE  /\ from(p) \in [name : Animations, at : Nat]
             /\ from(p).name \in Moving /\ from(p).at < Len(Wave[from(p).name])
  <2>1. PICK b \in Moving : p \in {b} \X DOMAIN Wave[b]
    OBVIOUS
  <2>2. p[1] = b /\ p[2] \in DOMAIN Wave[b]
    BY <2>1
  <2>3. DOMAIN Wave[b] = 1 .. Len(Wave[b]) /\ Len(Wave[b]) \in Nat
    BY DEF Animations
  <2>4. b \in Animations
    BY DEF Animations
  <2> QED  BY <2>2, <2>3, <2>4
<1>3. moves \subseteq Levels
  <2> HIDE DEF phases, from
  <2> QED  BY <1>1, <1>2
<1>4. Slope(e) = Max({0} \cup moves)
  BY DEF Slope
<1> HIDE DEF moves
<1>5. {0} \cup moves \in SUBSET Levels
  BY <1>3 DEF Levels
<1>6. Slope(e) \in Nat /\ \A x \in moves : x <= Slope(e)
  <2> DEFINE S == {0} \cup moves
  <2>1. S \in SUBSET Levels /\ 0 \in S /\ moves \subseteq S /\ Slope(e) = Max(S)
    BY <1>4, <1>5
  <2> HIDE DEF S
  <2>2. Max(S) \in S
    BY <2>1, MaxLevel
  <2>3. \A x \in S : x <= Max(S)
    BY <2>1, MaxLevel
  <2>4. Slope(e) \in Levels
    BY <2>1, <2>2
  <2>5. \A x \in moves : x <= Slope(e)
    BY <2>1, <2>3
  <2>6. \A x \in Levels : x \in Nat
    BY DEF Levels
  <2>7. Slope(e) \in Nat
    BY <2>4, <2>6, Zenon
  <2> QED  BY <2>5, <2>7, Zenon
<1>7. ASSUME a.name \in Moving
      PROVE  Distance(Level(a), Level(Advance(a, e))) \in moves
  <2> DEFINE p == <<a.name, a.at + 1>>
  <2>1. p \in phases
    <3>1. DOMAIN Wave[a.name] = 1 .. Len(Wave[a.name]) /\ Len(Wave[a.name]) \in Nat
      BY <1>7 DEF Animations
    <3>2. a.at + 1 \in DOMAIN Wave[a.name]
      BY <3>1
    <3> QED  BY <1>7, <3>2
  <2>2. from(p) = a
    OBVIOUS
  <2> QED  BY <2>1, <2>2 DEF moves
<1> QED  BY <1>1, <1>6, <1>7

(* What is shown at a barrier that has its whole time behind it, and at    *)
(* one that has none.                                                      *)
LEMMA MixEnds ==
    ASSUME NEW l \in Levels, NEW t \in Levels
    PROVE  /\ (l * (Full - Full) + t * Full) \div Full = t
           /\ (l * (Full - 0) + t * 0) \div Full = l
<1>1. \A x \in 0 .. 255 : (x * Full) \div Full = x
  <2> SUFFICES ASSUME NEW x \in 0 .. 255 PROVE (x * Full) \div Full = x
    OBVIOUS
  <2> DEFINE y == (x * Full) \div Full
  <2>1. y \in Int /\ Full * y <= x * Full /\ x * Full < Full * (y + 1)
    BY Share
  <2> HIDE DEF y
  <2>2. y <= x
    <3> SUFFICES ASSUME y >= x + 1 PROVE FALSE
      BY <2>1
    <3> DEFINE k == y - (x + 1)
    <3>1. k \in Nat /\ y = k + x + 1
      BY <2>1
    <3> HIDE DEF k
    <3>2. Full * y = Full * k + x * Full + Full /\ Full * k \in Nat /\ x * Full \in Nat
      BY <3>1
    <3> QED  BY <2>1, <3>2
  <2>3. x <= y
    <3> SUFFICES ASSUME x >= y + 1 PROVE FALSE
      BY <2>1
    <3> DEFINE k == x - (y + 1)
    <3>1. k \in Nat /\ x = k + (y + 1)
      BY <2>1
    <3> HIDE DEF k
    <3>2. x * Full = Full * k + Full * (y + 1) /\ Full * k \in Nat
      BY <2>1, <3>1
    <3> QED  BY <2>1, <3>2
  <2> QED  BY <2>1, <2>2, <2>3
<1>2. l \in 0 .. 255 /\ t \in 0 .. 255
  BY DEF Levels
<1>3. l * (Full - Full) + t * Full = t * Full /\ l * (Full - 0) + t * 0 = l * Full
  BY <1>2
<1> QED  BY <1>1, <1>2, <1>3

(* At the start there is no way to go.                                     *)
LEMMA InitOnTheWay == Init => OnTheWay
BY DEF Init, OnTheWay

(* A new animation is faded to from where the strip is: a barrier that     *)
(* begins shows what was shown.                                            *)
LEMMA ReceiveOnTheWay == TypeOK /\ OnTheWay /\ Receive => OnTheWay'
<1> SUFFICES ASSUME TypeOK, OnTheWay, Receive PROVE OnTheWay'
  OBVIOUS
<1> DEFINE level == Level([name |-> Head(ops), at |-> 0])
<1>1. /\ barriers \in Seq(Barriers) /\ Len(barriers) <= 2 /\ leds \in Levels
      /\ ops \in Seq(Animations)
  BY DEF TypeOK, Barriers
<1>2. level \in Levels
  <2>1. Head(ops) \in Animations
    BY <1>1 DEF Receive
  <2> QED  BY <2>1, FirstLevel
<1>3. barriers' = InsertBarrier(level) /\ leds' = leds /\ shown' = shown
  BY DEF Receive
<1> HIDE DEF level
<1>4. CASE barriers = <<>>
  <2>1. barriers' = <<Barrier(level)>> /\ barriers' # <<>> /\ Head(barriers') = Barrier(level)
        /\ Len(barriers') = 1
    BY <1>3, <1>4 DEF InsertBarrier
  <2>2. Mix(leds, Barrier(level)) = leds
    BY <1>1, <1>2, MixEnds DEF Mix, Barrier
  <2> QED  BY <1>3, <1>4, <2>1, <2>2 DEF OnTheWay
<1>5. CASE barriers # <<>>
  <2>1. Len(barriers) = 1 \/ Len(barriers) = 2
    <3> DEFINE n == Len(barriers)
    <3>1. n \in Nat \ {0} /\ n <= 2
      BY <1>1, <1>5, ShortSeq
    <3> HIDE DEF n
    <3>2. n = 1 \/ n = 2
      BY <3>1
    <3> QED  BY <3>2 DEF n
  <2>2. CASE Len(barriers) = 1
    <3>1. barriers' = Append(barriers, Barrier(level))
      BY <1>3, <2>2 DEF InsertBarrier
    <3>2. Barrier(level) \in Barriers
      BY <1>2 DEF Barrier, Barriers
    <3>3. /\ barriers' \in Seq(Barriers) /\ Len(barriers') = 2
          /\ barriers'[1] = barriers[1] /\ barriers'[2] = Barrier(level)
      <4> DEFINE b == Barrier(level)
      <4>1. b \in Barriers /\ barriers' = Append(barriers, b)
        BY <3>1, <3>2
      <4> HIDE DEF b
      <4> DEFINE s == Append(barriers, b)
                 n == Len(barriers)
      <4>2. /\ s \in Seq(Barriers) /\ Len(s) = n + 1 /\ s[n + 1] = b
            /\ \A i \in 1 .. n : s[i] = barriers[i]
        BY <1>1, <4>1, AppendProperties
      <4>3. n = 1
        BY <2>2
      <4> HIDE DEF s, n
      <4>4. s \in Seq(Barriers) /\ Len(s) = 2 /\ s[1] = barriers[1] /\ s[2] = b
        BY <4>2, <4>3
      <4> QED  BY <4>1, <4>4 DEF b, s
    <3>4. barriers' # <<>> /\ Head(barriers') = Head(barriers) /\ barriers'[2] = Barrier(level)
      BY <1>1, <1>5, <3>3, EmptySeq
    <3> QED  BY <1>3, <1>5, <3>4 DEF OnTheWay, Mix, Barrier
  <2>3. CASE Len(barriers) = 2
    <3>1. barriers' = [barriers EXCEPT ![2] = Barrier(level)]
      <4>1. ~(Len(barriers) < 2)
        BY <2>3
      <4> QED  BY <1>3, <4>1, Zenon DEF InsertBarrier
    <3>2. barriers' # <<>> /\ Head(barriers') = Head(barriers) /\ barriers'[2] = Barrier(level)
      <4>1. Barrier(level) \in Barriers
        BY <1>2 DEF Barrier, Barriers
      <4> QED  BY <1>1, <2>3, <3>1, <4>1
    <3> QED  BY <1>3, <1>5, <3>2 DEF OnTheWay, Mix, Barrier
  <2> QED  BY <2>1, <2>2, <2>3
<1> QED  BY <1>4, <1>5

(* Where the fades alone take the strip in a step of time.                 *)
FadedTo(e) ==
    IF BarriersAfter(e) = <<>> THEN LedsAfter(e)
    ELSE Mix(LedsAfter(e), Head(BarriersAfter(e)))

(* They take it no further than the part of the fade that has gone by,     *)
(* though what is left of a step when a fade ends is lost to the next.     *)
LEMMA FadesMove ==
    ASSUME TypeOK, OnTheWay, NEW e \in Elapsed
    PROVE  /\ FadedTo(e) \in Levels
           /\ Distance(shown, FadedTo(e)) <= ((255 * e) \div Full) + 1
           /\ Len(BarriersAfter(e)) = 2 => BarriersAfter(e)[2].amount = 0
<1>1. /\ barriers \in Seq(Barriers) /\ Len(barriers) <= 2 /\ e \in Nat
      /\ leds \in Levels /\ shown \in Levels /\ Full \in Nat \ {0}
  BY DEF TypeOK, Barriers
<1>2. CASE barriers = <<>>
  <2>1. BarriersAfter(e) = <<>> /\ FadedTo(e) = shown
    BY <1>2 DEF FadedTo, LedsAfter, BarriersAfter, Complete, OnTheWay
  <2>2. 0 <= ((255 * e) \div Full) + 1
    BY <1>1
  <2>3. Distance(shown, FadedTo(e)) = 0
    BY <1>1, <2>1, Triangle
  <2> QED  BY <1>1, <2>1, <2>2, <2>3
<1> DEFINE b == Head(barriers)
           t == b.led
           a == b.amount
<1>3. ASSUME barriers # <<>>
      PROVE  /\ b \in Barriers /\ t \in Levels /\ a \in 0 .. Full /\ a < Full
             /\ shown = (leds * (Full - a) + t * a) \div Full
             /\ b = barriers[1] /\ Tail(barriers) \in Seq(Barriers)
             /\ Len(Tail(barriers)) = Len(barriers) - 1
  <2>1. b \in Barriers /\ Tail(barriers) \in Seq(Barriers)
        /\ Len(Tail(barriers)) = Len(barriers) - 1
    BY <1>1, <1>3, ShortSeq
  <2>2. t \in Levels /\ a \in 0 .. Full /\ a < Full
    BY <2>1 DEF Barriers
  <2>3. shown = Mix(leds, b)
    BY <1>3 DEF OnTheWay
  <2> QED  BY <1>1, <1>3, <2>1, <2>2, <2>3 DEF Mix
<1> HIDE DEF b, t, a
<1>4. CASE barriers # <<>> /\ Complete(e)
  <2>1. LedsAfter(e) = t /\ BarriersAfter(e) = Tail(barriers) /\ a + e >= Full
    BY <1>4 DEF LedsAfter, BarriersAfter, Complete, a, t, b
  <2>2. Len(barriers) = 2 => Head(Tail(barriers)).amount = 0
    BY <1>1, <1>4 DEF OnTheWay
  <2>3. FadedTo(e) = t
    <3>1. CASE Tail(barriers) = <<>>
      BY <2>1, <3>1 DEF FadedTo
    <3>2. CASE Tail(barriers) # <<>>
      <4>1. Len(barriers) = 2
        <5> DEFINE n == Len(barriers)
                   m == Len(Tail(barriers))
        <5>1. n \in Nat /\ n <= 2 /\ m \in Nat \ {0} /\ m = n - 1
          BY <1>1, <1>3, <1>4, <3>2, ShortSeq, EmptySeq
        <5> HIDE DEF n, m
        <5>2. n = 2
          BY <5>1
        <5> QED  BY <5>2 DEF n
      <4>2. Mix(t, Head(Tail(barriers))) = t
        <5>1. Head(Tail(barriers)) \in Barriers
          BY <1>3, <1>4, <3>2, ShortSeq
        <5>2. Head(Tail(barriers)).led \in Levels
          BY <5>1 DEF Barriers
        <5> QED  BY <1>3, <1>4, <2>2, <4>1, <5>2, MixEnds DEF Mix
      <4> QED  BY <2>1, <3>2, <4>2 DEF FadedTo
    <3> QED  BY <3>1, <3>2
  <2>4. t = (leds * (Full - Full) + t * Full) \div Full
    BY <1>1, <1>3, <1>4, MixEnds
  <2>5. Distance(shown, FadedTo(e)) <= ((255 * e) \div Full) + 1
    <3>1. Full \in 0 .. Full /\ a <= Full /\ Full - a <= e
      BY <1>1, <1>3, <1>4, <2>1
    <3>2. Distance((leds * (Full - a) + t * a) \div Full,
                   (leds * (Full - Full) + t * Full) \div Full) <= ((255 * e) \div Full) + 1
      BY <1>1, <1>3, <1>4, <3>1, FadeMoves
    <3> QED  BY <1>3, <1>4, <2>3, <2>4, <3>2
  <2>6. Len(BarriersAfter(e)) # 2
    <3> DEFINE n == Len(barriers)
               m == Len(Tail(barriers))
    <3>1. n \in Nat /\ n <= 2 /\ m = n - 1
      BY <1>1, <1>3, <1>4, ShortSeq
    <3> HIDE DEF n, m
    <3>2. m # 2
      BY <3>1
    <3> QED  BY <2>1, <3>2 DEF m
  <2> QED  BY <1>3, <1>4, <2>3, <2>5, <2>6
<1>5. CASE barriers # <<>> /\ ~Complete(e)
  <2> DEFINE c == [b EXCEPT !.amount = @ + e]
  <2>1. LedsAfter(e) = leds /\ BarriersAfter(e) = [barriers EXCEPT ![1].amount = @ + e]
        /\ a + e < Full
    BY <1>1, <1>3, <1>5 DEF LedsAfter, BarriersAfter, Complete, a, b
  <2>2. BarriersAfter(e) = [barriers EXCEPT ![1] = c]
    BY <1>3, <1>5, <2>1
  <2>3. c.led = t /\ c.amount = a + e /\ c \in Barriers
    BY <1>1, <1>3, <1>5, <2>1 DEF a, t, Barriers
  <2> HIDE DEF c
  <2>4. /\ BarriersAfter(e) # <<>> /\ Head(BarriersAfter(e)) = c
        /\ Len(BarriersAfter(e)) = Len(barriers)
        /\ Len(barriers) = 2 => BarriersAfter(e)[2] = barriers[2]
    BY <1>1, <1>5, <2>2, <2>3
  <2>5. FadedTo(e) = (leds * (Full - (a + e)) + t * (a + e)) \div Full
    BY <2>1, <2>3, <2>4 DEF FadedTo, Mix
  <2>6. Distance(shown, FadedTo(e)) <= ((255 * e) \div Full) + 1
    <3>1. a + e \in 0 .. Full /\ a <= a + e /\ (a + e) - a <= e
      BY <1>1, <1>3, <1>5, <2>1
    <3>2. Distance((leds * (Full - a) + t * a) \div Full,
                   (leds * (Full - (a + e)) + t * (a + e)) \div Full)
              <= ((255 * e) \div Full) + 1
      BY <1>1, <1>3, <1>5, <3>1, FadeMoves
    <3> QED  BY <1>3, <1>5, <2>5, <3>2
  <2>7. FadedTo(e) \in Levels
    BY <1>1, <2>1, <2>3, <2>4, MixType DEF FadedTo
  <2> QED  BY <2>4, <2>6, <2>7 DEF OnTheWay
<1> QED  BY <1>2, <1>4, <1>5

(* A step of time leaves the strip on the way, and near to where it was.   *)
LEMMA UpdateMoves ==
    ASSUME IInv, OnTheWay, NEW e \in Elapsed, Update(e)
    PROVE  /\ OnTheWay'
           /\ Distance(shown, shown') <= ((255 * e) \div Full) + 1 + Slope(e)
<1>1. /\ shown \in Levels /\ FadedTo(e) \in Levels
      /\ Distance(shown, FadedTo(e)) <= ((255 * e) \div Full) + 1
      /\ Len(BarriersAfter(e)) = 2 => BarriersAfter(e)[2].amount = 0
  BY FadesMove DEF IInv, TypeOK
<1>2. barriers' = BarriersAfter(e)
  BY DEF Update
<1>3. Slope(e) \in Nat
  BY WithinSlope DEF IInv, TypeOK
<1> DEFINE d == (255 * e) \div Full
<1>4. d \in Nat /\ Distance(shown, FadedTo(e)) \in Nat
  <2>1. e \in Nat /\ Full \in Nat \ {0}
    OBVIOUS
  <2>2. 255 * e \in Nat
    BY <2>1
  <2>3. d \in Nat
    BY <2>1, <2>2
  <2>4. Distance(shown, FadedTo(e)) \in Levels
    BY <1>1, Triangle
  <2>5. \A x \in Levels : x \in Nat
    BY DEF Levels
  <2> QED  BY <2>3, <2>4, <2>5, Zenon
<1> HIDE DEF d
<1>5. ASSUME shown' = FadedTo(e)
      PROVE  Distance(shown, shown') <= d + 1 + Slope(e)
  <2> DEFINE x == Distance(shown, FadedTo(e))
             z == Slope(e)
  <2>1. x \in Nat /\ z \in Nat /\ d \in Nat /\ x <= d + 1
    BY <1>1, <1>3, <1>4 DEF d
  <2> HIDE DEF x, z
  <2>2. x <= d + 1 + z
    BY <2>1
  <2> QED  BY <1>5, <2>2 DEF x, z
<1> HIDE DEF d
<1>6. CASE Fade(e)
  <2>1. /\ shown' = FadedTo(e) /\ leds' = LedsAfter(e) /\ barriers' # <<>>
        /\ shown' = Mix(leds', Head(barriers'))
    BY <1>2, <1>6 DEF Fade, FadedTo
  <2>2. OnTheWay'
    BY <1>1, <1>2, <2>1 DEF OnTheWay, Mix
  <2> QED  BY <1>5, <2>1, <2>2 DEF d
<1>7. CASE Animate(e)
  <2>1. barriers' = <<>> /\ BarriersAfter(e) = <<>> /\ shown' = leds' /\ FadedTo(e) = LedsAfter(e)
    BY <1>2, <1>7 DEF Animate, FadedTo
  <2>2. OnTheWay'
    BY <2>1 DEF OnTheWay
  <2>3. CASE leds' = LedsAfter(e)
    BY <1>5, <2>1, <2>2, <2>3 DEF d
  <2>4. CASE /\ animation.name \in Moving
             /\ animation' = Advance(animation, e)
             /\ leds' = Level(animation')
    <3>1. Level(animation) = FadedTo(e)
      BY <2>1, AfterEnd DEF IInv
    <3>2. shown' = Level(Advance(animation, e))
      BY <2>1, <2>4
    <3>3. /\ shown' \in Levels
          /\ Distance(FadedTo(e), shown') <= Slope(e)
      BY <2>4, <3>1, <3>2, WithinSlope DEF IInv, TypeOK
    <3>4. /\ Distance(shown, shown') <= Distance(shown, FadedTo(e)) + Distance(FadedTo(e), shown')
          /\ Distance(shown, shown') \in Levels /\ Distance(FadedTo(e), shown') \in Levels
      BY <1>1, <3>3, Triangle
    <3> DEFINE x == Distance(shown, FadedTo(e))
               y == Distance(FadedTo(e), shown')
               w == Distance(shown, shown')
               z == Slope(e)
    <3>5. x <= d + 1 /\ y <= z /\ w <= x + y
      BY <1>1, <3>3, <3>4 DEF d
    <3>6. y \in Levels /\ w \in Levels /\ x \in Nat /\ z \in Nat
      BY <1>3, <1>4, <3>4
    <3> HIDE DEF x, y, z, w
    <3>7. y \in Nat /\ w \in Nat
      BY <3>6 DEF Levels
    <3>8. w <= d + 1 + z
      BY <1>4, <3>5, <3>6, <3>7
    <3> QED  BY <2>2, <3>8 DEF w, z, d
  <2> QED  BY <1>7, <2>3, <2>4 DEF Animate
<1> QED  BY <1>6, <1>7 DEF Update

(* The strip is always on the way.                                         *)
LEMMA AlwaysOnTheWay == Spec => []OnTheWay
<1>1. IInv /\ OnTheWay /\ [Next]_vars => OnTheWay'
  <2> SUFFICES ASSUME IInv, OnTheWay, [Next]_vars PROVE OnTheWay'
    OBVIOUS
  <2>1. CASE \E a \in Animations : SetAnimation(a)
    BY <2>1 DEF OnTheWay, Mix, SetAnimation
  <2>2. CASE Receive
    BY <2>2, ReceiveOnTheWay DEF IInv
  <2>3. CASE Tick
    BY <2>3, UpdateMoves DEF Tick
  <2>4. CASE UNCHANGED vars
    BY <2>4 DEF OnTheWay, Mix, vars
  <2> QED  BY <2>1, <2>2, <2>3, <2>4 DEF Next
<1> QED  BY InitOnTheWay, Invariance, <1>1, PTL DEF Spec

(* From one update to the next the strip moves by no more than the part of *)
(* the fade that has gone by and what a moving animation moves, whenever   *)
(* operations arrive and however the fades follow one another.             *)
THEOREM MovesSmoothly == Spec => Smooth
<1> DEFINE A == \A e \in Elapsed : Update(e) =>
                    Distance(shown, shown') <= ((255 * e) \div Full) + 1 + Slope(e)
<1>1. IInv /\ OnTheWay => A
  BY UpdateMoves
<1>2. IInv /\ OnTheWay /\ [Next]_vars => [A]_vars
  BY <1>1
<1> HIDE DEF A
<1>3. Spec => [][A]_vars
  BY <1>2, Invariance, AlwaysOnTheWay, PTL DEF Spec
<1> QED  BY <1>3 DEF Smooth, A
===============================================================================
