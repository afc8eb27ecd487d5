----------------------------- MODULE HalvesProofs -----------------------------
(***************************************************************************)
(* Proofs about Halves, for any animations, bond slots and hosts, any size *)
(* of the channels, and any number of operations, events and losses of the *)
(* link.                                                                   *)
(***************************************************************************)
EXTENDS Halves, FiniteSetTheorems, SequenceTheorems, WellFoundedInduction, TLAPS

-----------------------------------------------------------------------------
(* Names.                                                                  *)

(* The two halves.                                                         *)
LEMMA HalvesNames ==
    \A h \in Halves : /\ Other(h) \in Halves
                      /\ Other(h) # h
                      /\ Other(Other(h)) = h
                      /\ \A g \in Halves : g = h \/ g = Other(h)
BY DEF Halves, Other

(* Fields, the kinds of their operations and the values they take.         *)
LEMMA FieldNames ==
    /\ "sync" \notin Fields /\ "board" \in Fields
    /\ Outputs \subseteq Fields /\ BondSlots \subseteq Fields
    /\ Outputs \cap BondSlots = {}
    /\ "board" \notin Outputs /\ "board" \notin BondSlots
    /\ "power" \in Outputs /\ "power" \in Fields
    /\ \A f \in Fields : f \in Outputs \/ f = "board" \/ f \in BondSlots
    /\ "none" \notin Kinds /\ "key" \notin Kinds
    /\ "event" \in Kinds /\ "flash" \in Kinds /\ "flash" # "event"
    /\ \A f \in Fields : KindOf(f) \in Kinds /\ KindOf(f) # "event"
    /\ KindOf("sync") = "event" /\ KindOf("board") = "flash"
    /\ \A s \in BondSlots : KindOf(s) = "flash"
<1>1. /\ "sync" \notin Outputs /\ "event" \notin Outputs /\ "flash" \notin Outputs
      /\ "board" \notin Outputs /\ "none" \notin Outputs /\ "key" \notin Outputs
      /\ "sync" \notin BondSlots /\ "board" \notin BondSlots /\ "power" \notin BondSlots
      /\ Outputs \cap BondSlots = {}
  BY NamesAssumption DEF Outputs, BondSlots
<1>2. \A f \in Outputs : KindOf(f) = f
  BY <1>1 DEF KindOf
<1>3. \A f : f \notin Outputs /\ f # "sync" => KindOf(f) = "flash"
  BY DEF KindOf
<1>4. KindOf("sync") = "event"
  BY <1>1 DEF KindOf
<1>5. "power" \in Outputs
  BY DEF Outputs
<1> QED  BY <1>1, <1>2, <1>3, <1>4, <1>5 DEF Fields, Kinds

(* What each field holds.                                                  *)
LEMMA FieldValues ==
    /\ \A o \in Outputs : Values(o) = Positions(o)
    /\ Values("board") = Data
    /\ \A s \in BondSlots : Values(s) = Peers \cup {"free"}
BY FieldNames DEF Values

-----------------------------------------------------------------------------
(* The types of operations, channels and fields.                           *)

AnyValue == {0} \cup UNION {Values(f) : f \in Fields}
Ops == {op \in (Fields \cup {"sync"}) \X AnyValue \X Halves : IsOp(op)}
KindOps(k) == {op \in Ops : KindOf(Field(op)) = k}
PathOps(h, k) == {op \in KindOps(k) : From(op) = h}

Sends == [to : {"own", "other"}, op : Ops]

(* What a main task sends comes from its half, and frees slots only: it is *)
(* the bonder that fills them.                                             *)
SendsOf(h) ==
    {send \in Sends : /\ From(send.op) = h
                      /\ Field(send.op) \in BondSlots => Value(send.op) = "free"}

Channels == [Halves -> [Kinds -> Seq(Ops)]]
Contents == {c \in [Fields -> AnyValue] : \A f \in Fields : c[f] \in Values(f)}

(* Operations are of this type, and say what they were made of.            *)
LEMMA OpTypes ==
    /\ \A h \in Halves, f \in Fields : \A v \in Values(f) : Op(h, f, v) \in Ops
    /\ \A h \in Halves : Op(h, "sync", 0) \in Ops
    /\ \A h, f, v : /\ Field(Op(h, f, v)) = f
                    /\ Value(Op(h, f, v)) = v
                    /\ From(Op(h, f, v)) = h
    /\ \A op \in Ops : /\ IsOp(op)
                       /\ From(op) \in Halves
                       /\ KindOf(Field(op)) \in Kinds
                       /\ KindOf(Field(op)) # "event" => Field(op) \in Fields
                       /\ Field(op) \in Fields => Value(op) \in Values(Field(op))
<1>1. \A h, f, v : /\ Field(Op(h, f, v)) = f
                   /\ Value(Op(h, f, v)) = v
                   /\ From(Op(h, f, v)) = h
  BY DEF Op, Field, Value, From
<1>2. ASSUME NEW h \in Halves, NEW f \in Fields, NEW v \in Values(f)
      PROVE  Op(h, f, v) \in Ops
  <2>1. IsOp(Op(h, f, v))
    BY <1>1 DEF IsOp
  <2>2. v \in AnyValue
    BY DEF AnyValue
  <2>3. Op(h, f, v) \in (Fields \cup {"sync"}) \X AnyValue \X Halves
    BY <2>2 DEF Op
  <2> QED  BY <2>1, <2>3 DEF Ops
<1>3. ASSUME NEW h \in Halves PROVE Op(h, "sync", 0) \in Ops
  <2>1. IsOp(Op(h, "sync", 0))
    BY <1>1 DEF IsOp
  <2>2. 0 \in AnyValue
    BY DEF AnyValue
  <2>3. Op(h, "sync", 0) \in (Fields \cup {"sync"}) \X AnyValue \X Halves
    BY <2>2 DEF Op
  <2> QED  BY <2>1, <2>3 DEF Ops
<1>4. \A op \in Ops : IsOp(op)
  BY DEF Ops
<1> QED  BY <1>1, <1>2, <1>3, <1>4, FieldNames DEF IsOp

(* The types of a longer or a shorter channel.                             *)
LEMMA QueueTypes ==
    ASSUME NEW S, NEW q \in Seq(S)
    PROVE  /\ \A x \in S : /\ Append(q, x) \in Seq(S)
                           /\ Len(Append(q, x)) = Len(q) + 1
           /\ q # <<>> => /\ Head(q) \in S
                          /\ Tail(q) \in Seq(S)
                          /\ Len(Tail(q)) = Len(q) - 1
                          /\ Len(q) \in Nat \ {0}
                          /\ \A i \in DOMAIN Tail(q) : Tail(q)[i] = q[i + 1]
           /\ Len(q) \in Nat
           /\ DOMAIN q = 1 .. Len(q)
           /\ \A i \in DOMAIN q : q[i] \in S
BY HeadTailProperties, ElementOfSeq, LenProperties

-----------------------------------------------------------------------------
(* The types of the state: the inductive invariant behind TypeOK.          *)

Typed ==
    /\ linked \in BOOLEAN /\ master \in Halves
    /\ running \in [Halves -> BOOLEAN] /\ stopped \subseteq Halves
    /\ own \in Channels /\ path \in Channels
    /\ writing \in [Halves -> Kinds \cup {"none", "key"}]
    /\ todo \in [Halves -> Seq(Sends)]
    /\ data \in [Halves -> Data]
    /\ applied \in [Halves -> Contents]
    /\ intended \in Contents /\ unsure \subseteq Fields

(* Every channel holds operations of its kind; what is on its way to the   *)
(* other half, or about to be sent, comes from this one.                   *)
Sorted ==
    \A h \in Halves :
        /\ \A k \in Kinds : /\ own[h][k] \in Seq(KindOps(k))
                            /\ path[h][k] \in Seq(PathOps(h, k))
        /\ todo[h] \in Seq(SendsOf(h))

Bounded ==
    \A h \in Halves, k \in Kinds :
        /\ Len(own[h][k]) <= Size
        /\ Len(path[h][k]) <= IF running[h] THEN Size + 1 ELSE Size

Writes ==
    \A h \in Halves :
        /\ writing[h] \in Kinds => path[h][writing[h]] # <<>>
        /\ writing[h] # "none" => running[h]
        /\ linked => running[h]

(* A half that does not run sends to its own tasks only: nobody else makes *)
(* room in its channels to the other half.                                 *)
Owed ==
    \A h \in Halves :
        ~running[h] => \A i \in DOMAIN todo[h] : todo[h][i].to = "own"

TInv == Typed /\ Sorted /\ Bounded /\ Writes /\ Owed

(* Operations of a kind are operations, with a field of that kind.         *)
LEMMA SortedOps ==
    /\ \A k \in Kinds : KindOps(k) \subseteq Ops
    /\ \A h \in Halves, k \in Kinds : PathOps(h, k) \subseteq KindOps(k)
    /\ \A h \in Halves : SendsOf(h) \subseteq Sends
    /\ \A send \in Sends : send.op \in Ops /\ send.to \in {"own", "other"}
    /\ \A op \in Ops : op \in KindOps(KindOf(Field(op)))
    /\ \A h \in Halves : \A op \in Ops :
          From(op) = h => op \in PathOps(h, KindOf(Field(op)))
    /\ \A h \in Halves, k \in Kinds : \A op \in PathOps(h, k) : From(op) = h
    /\ \A k \in Kinds : \A op \in KindOps(k) : KindOf(Field(op)) = k
BY DEF KindOps, PathOps, SendsOf, Sends

(* A sequence of what is in a set is one of what is in a larger set.       *)
LEMMA SeqGrows ==
    ASSUME NEW S, NEW T, S \subseteq T, NEW q \in Seq(S)
    PROVE  q \in Seq(T)
BY ElementOfSeq, SeqDef

(* The invariant implies the type invariant of the runs.                   *)
LEMMA TInvTypes == TInv => TypeOK
<1> SUFFICES ASSUME TInv PROVE TypeOK
  OBVIOUS
<1> USE DEF TInv
<1>1. ASSUME NEW h \in Halves, NEW k \in Kinds
      PROVE  \A op \in ToSet(own[h][k]) \cup ToSet(path[h][k]) :
                IsOp(op) /\ KindOf(Field(op)) = k
  <2>1. own[h][k] \in Seq(KindOps(k)) /\ path[h][k] \in Seq(PathOps(h, k))
    BY DEF Sorted
  <2>2. \A op \in ToSet(own[h][k]) \cup ToSet(path[h][k]) : op \in KindOps(k)
    BY <2>1, SortedOps, ElementOfSeq DEF ToSet
  <2> QED  BY <2>2, SortedOps, OpTypes
<1>2. ASSUME NEW h \in Halves, NEW op \in Waiting(h) PROVE IsOp(op)
  <2>1. PICK i \in DOMAIN todo[h] : op = todo[h][i].op
    BY DEF Waiting
  <2>2. todo[h] \in Seq(Sends)
    BY DEF Typed
  <2>3. todo[h][i] \in Sends
    BY <2>1, <2>2, ElementOfSeq
  <2> QED  BY <2>1, <2>3, SortedOps, OpTypes
<1>3. \A h \in Halves, f \in Fields : applied[h][f] \in Values(f)
  BY DEF Typed, Contents
<1>4. \A h \in Halves : writing[h] \in Kinds \cup {"none", "key"}
  BY DEF Typed
<1>5. /\ linked \in BOOLEAN /\ master \in Halves
      /\ running \in [Halves -> BOOLEAN] /\ stopped \subseteq Halves
      /\ data \in [Halves -> Data] /\ unsure \subseteq Fields
  BY DEF Typed
<1>6. \A h \in Halves :
        /\ linked => running[h]
        /\ writing[h] \in Kinds => path[h][writing[h]] # <<>>
        /\ writing[h] # "none" => running[h]
  BY DEF Writes
<1>7. \A h \in Halves, k \in Kinds :
        /\ Len(own[h][k]) <= Size
        /\ Len(path[h][k]) <= IF running[h] THEN Size + 1 ELSE Size
  BY DEF Bounded
<1> QED  BY <1>1, <1>2, <1>3, <1>4, <1>5, <1>6, <1>7 DEF TypeOK

(* At the start.                                                           *)
LEMMA InitTypes == Init => TInv
<1> SUFFICES ASSUME Init PROVE TInv
  OBVIOUS
<1> USE DEF Init
<1>1. \A S : <<>> \in Seq(S) /\ Len(<<>>) = 0
  BY EmptySeq
<1>2. Zero \in Data
  BY SizeAssumption DEF Zero, Data, Positions, Cycle
<1>3. Erased \in Contents
  <2>1. ASSUME NEW f \in Fields PROVE Erased[f] \in Values(f)
    <3>1. CASE f \in Outputs
      <4>1. Erased[f] = 0
        BY <3>1, FieldNames DEF Erased
      <4>2. 0 \in Positions(f)
        BY SizeAssumption DEF Positions, Cycle
      <4> QED  BY <3>1, <4>1, <4>2, FieldValues
    <3>2. CASE f = "board"
      BY <3>2, <1>2, FieldNames, FieldValues DEF Erased
    <3>3. CASE f \in BondSlots
      BY <3>3, FieldNames, FieldValues DEF Erased
    <3> QED  BY <3>1, <3>2, <3>3, FieldNames
  <2>2. \A f \in Fields : Erased[f] \in AnyValue
    BY <2>1 DEF AnyValue
  <2>3. Erased \in [Fields -> AnyValue]
    BY <2>2 DEF Erased
  <2> QED  BY <2>1, <2>3 DEF Contents
<1>4. Typed
  BY <1>1, <1>2, <1>3, FirstAssumption DEF Typed, Channels, Halves
<1>5. Sorted
  BY <1>1 DEF Sorted
<1>6. Bounded
  BY <1>1, SizeAssumption DEF Bounded
<1>7. Writes /\ Owed
  BY FieldNames DEF Writes, Owed
<1> QED  BY <1>4, <1>5, <1>6, <1>7 DEF TInv

-----------------------------------------------------------------------------
(* What handlers send.                                                     *)

(* What half h sends is for both halves, one value for each field.         *)
ForBoth(h, sends) ==
    /\ sends \in Seq(SendsOf(h))
    /\ \A i, j \in DOMAIN sends :
          Field(sends[i].op) = Field(sends[j].op) => sends[i].op = sends[j].op
    /\ \A i \in DOMAIN sends : \A to \in {"own", "other"} :
          \E j \in DOMAIN sends : sends[j] = [to |-> to, op |-> sends[i].op]

(* An operation that a half may send.                                      *)
MaySend(h, op) ==
    /\ op \in Ops /\ From(op) = h
    /\ Field(op) \in BondSlots => Value(op) = "free"

(* Both sends one operation to both.                                       *)
LEMMA BothIsForBoth ==
    ASSUME NEW h \in Halves, NEW op, MaySend(h, op)
    PROVE  /\ ForBoth(h, Both(op))
           /\ \A i \in DOMAIN Both(op) : Both(op)[i].op = op
           /\ Both(op) \in Seq(SendsOf(h)) /\ DOMAIN Both(op) = {1, 2}
           /\ Both(op)[1] = [to |-> "own", op |-> op]
           /\ Both(op)[2] = [to |-> "other", op |-> op]
<1>1. [to |-> "own", op |-> op] \in SendsOf(h) /\ [to |-> "other", op |-> op] \in SendsOf(h)
  BY DEF MaySend, SendsOf, Sends
<1>2. Both(op) \in Seq(SendsOf(h)) /\ DOMAIN Both(op) = {1, 2}
  BY <1>1 DEF Both
<1>3. Both(op)[1] = [to |-> "own", op |-> op] /\ Both(op)[2] = [to |-> "other", op |-> op]
  BY DEF Both
<1> QED  BY <1>2, <1>3 DEF ForBoth

(* And so do two of them after each other, about different fields.         *)
LEMMA TwoAreForBoth ==
    ASSUME NEW h \in Halves, NEW a, NEW b, MaySend(h, a), MaySend(h, b),
           Field(a) # Field(b)
    PROVE  /\ ForBoth(h, Both(a) \o Both(b))
           /\ \A i \in DOMAIN (Both(a) \o Both(b)) : (Both(a) \o Both(b))[i].op \in {a, b}
           /\ 1 \in DOMAIN (Both(a) \o Both(b)) /\ (Both(a) \o Both(b))[1].op = a
           /\ 3 \in DOMAIN (Both(a) \o Both(b)) /\ (Both(a) \o Both(b))[3].op = b
<1> DEFINE sends == Both(a) \o Both(b)
<1>1. /\ Both(a) \in Seq(SendsOf(h)) /\ Both(b) \in Seq(SendsOf(h))
      /\ Both(a)[1] = [to |-> "own", op |-> a] /\ Both(a)[2] = [to |-> "other", op |-> a]
      /\ Both(b)[1] = [to |-> "own", op |-> b] /\ Both(b)[2] = [to |-> "other", op |-> b]
  BY BothIsForBoth
<1>2. Len(Both(a)) = 2 /\ Len(Both(b)) = 2
  BY DEF Both
<1>3. /\ sends \in Seq(SendsOf(h)) /\ Len(sends) = Len(Both(a)) + Len(Both(b))
      /\ \A i \in 1 .. Len(Both(a)) + Len(Both(b)) :
            sends[i] = IF i <= Len(Both(a)) THEN Both(a)[i] ELSE Both(b)[i - Len(Both(a))]
  BY <1>1, ConcatProperties
<1>4. DOMAIN sends = {1, 2, 3, 4}
  BY <1>2, <1>3, LenProperties
<1>5. sends[1] = Both(a)[1] /\ sends[2] = Both(a)[2] /\ sends[3] = Both(b)[1] /\ sends[4] = Both(b)[2]
  BY <1>2, <1>3
<1> HIDE DEF sends
<1>6. /\ sends[1] = [to |-> "own", op |-> a] /\ sends[2] = [to |-> "other", op |-> a]
      /\ sends[3] = [to |-> "own", op |-> b] /\ sends[4] = [to |-> "other", op |-> b]
  BY <1>1, <1>5
<1>7. ForBoth(h, sends)
  <2>1. ASSUME NEW i \in DOMAIN sends, NEW j \in DOMAIN sends,
               Field(sends[i].op) = Field(sends[j].op)
        PROVE  sends[i].op = sends[j].op
    BY <2>1, <1>4, <1>6
  <2>2. ASSUME NEW i \in DOMAIN sends, NEW to \in {"own", "other"}
        PROVE  \E j \in DOMAIN sends : sends[j] = [to |-> to, op |-> sends[i].op]
    BY <1>4, <1>6
  <2> QED  BY <2>1, <2>2, <1>3 DEF ForBoth
<1>8. \A i \in DOMAIN sends : sends[i].op \in {a, b}
  BY <1>4, <1>6
<1> QED  BY <1>4, <1>6, <1>7, <1>8 DEF sends

(* The state after a handler has begun to send.                            *)
LEMMA SendTypes ==
    ASSUME TInv, NEW h \in Halves, NEW sends, ForBoth(h, sends), Send(h, sends)
    PROVE  /\ todo' \in [Halves -> Seq(Sends)] /\ todo'[h] = sends
           /\ \A g \in Halves : /\ todo'[g] \in Seq(SendsOf(g))
                                /\ g # h => todo'[g] = todo[g]
           /\ intended' \in Contents /\ unsure' \subseteq Fields
           /\ \A i \in DOMAIN sends : Field(sends[i].op) \in Fields =>
                 intended'[Field(sends[i].op)] = Value(sends[i].op)
           /\ \A f \in Fields : (\A i \in DOMAIN sends : Field(sends[i].op) # f) =>
                 intended'[f] = intended[f]
<1>1. /\ todo \in [Halves -> Seq(Sends)] /\ intended \in Contents /\ unsure \subseteq Fields
      /\ \A g \in Halves : todo[g] \in Seq(SendsOf(g))
  BY DEF TInv, Typed, Sorted
<1>2. sends \in Seq(SendsOf(h)) /\ sends \in Seq(Sends)
  BY SortedOps, SeqGrows DEF ForBoth
<1>3. todo' = [todo EXCEPT ![h] = sends]
  BY DEF Send
<1> DEFINE ops == {sends[i].op : i \in DOMAIN sends}
           fields == FieldsOf(ops)
           value(f) == Value(CHOOSE op \in ops : Field(op) = f)
<1>4. /\ unsure' = (unsure \ {f \in fields : ~Pending(f)}) \cup {f \in fields : Crossed(h, f)}
      /\ intended' = [f \in Fields |-> IF f \in fields THEN value(f) ELSE intended[f]]
  BY DEF Send
<1>5. fields \subseteq Fields
  BY DEF FieldsOf
<1>6. \A f \in fields : \E i \in DOMAIN sends : Field(sends[i].op) = f
  BY DEF FieldsOf
<1>7. ASSUME NEW i \in DOMAIN sends, Field(sends[i].op) \in Fields
      PROVE  Field(sends[i].op) \in fields /\ value(Field(sends[i].op)) = Value(sends[i].op)
  <2> DEFINE f == Field(sends[i].op)
  <2>1. sends[i].op \in ops
    OBVIOUS
  <2>2. f \in fields
    BY <1>7, <2>1 DEF FieldsOf
  <2>3. \A op \in ops : Field(op) = f => op = sends[i].op
    <3>1. \A j \in DOMAIN sends : Field(sends[j].op) = f => sends[j].op = sends[i].op
      BY DEF ForBoth
    <3> QED  BY <3>1
  <2>4. (CHOOSE op \in ops : Field(op) = f) = sends[i].op
    BY <2>1, <2>3
  <2> QED  BY <2>2, <2>4
<1>8. ASSUME NEW f \in fields PROVE value(f) \in Values(f)
  <2>1. PICK i \in DOMAIN sends : Field(sends[i].op) = f
    BY <1>6
  <2>2. value(f) = Value(sends[i].op)
    BY <2>1, <1>5, <1>7
  <2>3. sends[i].op \in Ops
    BY <1>2, ElementOfSeq, SortedOps
  <2> QED  BY <2>1, <2>2, <2>3, <1>5, OpTypes
<1>9. \A f \in Fields : (\A i \in DOMAIN sends : Field(sends[i].op) # f) => f \notin fields
  BY <1>6
<1> HIDE DEF fields, value
<1>10. intended' \in Contents
  <2>1. \A f \in Fields : intended'[f] \in Values(f)
    BY <1>1, <1>4, <1>8 DEF Contents
  <2>2. \A f \in Fields : intended'[f] \in AnyValue
    BY <2>1 DEF AnyValue
  <2> QED  BY <1>4, <2>1, <2>2 DEF Contents
<1>11. \A i \in DOMAIN sends : Field(sends[i].op) \in Fields =>
          intended'[Field(sends[i].op)] = Value(sends[i].op)
  BY <1>4, <1>7
<1>12. \A f \in Fields : (\A i \in DOMAIN sends : Field(sends[i].op) # f) =>
          intended'[f] = intended[f]
  BY <1>4, <1>9
<1>13. unsure' \subseteq Fields
  BY <1>1, <1>4, <1>5
<1>14. /\ todo' \in [Halves -> Seq(Sends)] /\ todo'[h] = sends
       /\ \A g \in Halves : /\ todo'[g] \in Seq(SendsOf(g))
                            /\ g # h => todo'[g] = todo[g]
  BY <1>1, <1>2, <1>3
<1> QED  BY <1>10, <1>11, <1>12, <1>13, <1>14

(* A new value of an output is shown and stored by both halves.            *)
LEMMA AdvanceSends ==
    ASSUME TInv, NEW h \in Halves, NEW o \in Outputs, Advance(h, o)
    PROVE  /\ data' \in [Halves -> Data]
           /\ \E sends : /\ ForBoth(h, sends) /\ Send(h, sends)
                         /\ \A i \in DOMAIN sends :
                               Field(sends[i].op) \in {o, "board"}
                         /\ \E i \in DOMAIN sends : sends[i].op = Op(h, "board", data'[h])
<1> DEFINE value == (data[h][o] + 1) % Cycle(o)
           new == [data[h] EXCEPT ![o] = value]
           a == Op(h, o, value)
           b == Op(h, "board", new)
<1>1. data \in [Halves -> Data]
  BY DEF TInv, Typed
<1>2. data[h] \in [Outputs -> 0 .. Count + 1] /\ \A p \in Outputs : data[h][p] \in Positions(p)
  BY <1>1 DEF Data
<1>3. Cycle(o) \in Nat \ {0} /\ Cycle(o) <= Count + 1
  BY SizeAssumption DEF Cycle
<1>4. value \in Positions(o) /\ value \in 0 .. Count + 1
  <2>1. \A n \in Nat, c \in Nat \ {0} : (n + 1) % c \in 0 .. c - 1
    OBVIOUS
  <2>2. data[h][o] \in Nat
    BY <1>2, <1>3, SizeAssumption
  <2>3. value \in 0 .. Cycle(o) - 1
    BY <1>3, <2>1, <2>2
  <2> QED  BY <1>3, <2>3, SizeAssumption DEF Positions
<1>5. new \in Data
  BY <1>2, <1>4 DEF Data
<1>6. data' = [data EXCEPT ![h] = new] /\ Send(h, Both(a) \o Both(b))
  BY DEF Advance
<1> HIDE DEF value, new
<1>7. a \in Ops /\ b \in Ops /\ Field(a) = o /\ Field(b) = "board" /\ From(a) = h /\ From(b) = h
  BY <1>4, <1>5, OpTypes, FieldNames, FieldValues
<1> HIDE DEF a, b
<1>8. MaySend(h, a) /\ MaySend(h, b) /\ Field(a) # Field(b)
  BY <1>7, FieldNames DEF MaySend
<1>9. /\ ForBoth(h, Both(a) \o Both(b))
      /\ \A i \in DOMAIN (Both(a) \o Both(b)) : (Both(a) \o Both(b))[i].op \in {a, b}
      /\ 3 \in DOMAIN (Both(a) \o Both(b)) /\ (Both(a) \o Both(b))[3].op = b
  BY <1>8, TwoAreForBoth
<1>10. data' \in [Halves -> Data] /\ data'[h] = new
  BY <1>1, <1>5, <1>6
<1>12. b = Op(h, "board", data'[h])
  BY <1>10 DEF b
<1>11. \A i \in DOMAIN (Both(a) \o Both(b)) : Field((Both(a) \o Both(b))[i].op) \in {o, "board"}
  BY <1>7, <1>9
<1> QED  BY <1>6, <1>9, <1>10, <1>11, <1>12

(* Removing a bond and syncing the animations are for both halves, too.    *)
LEMMA OtherSends ==
    ASSUME NEW h \in Halves, NEW s \in BondSlots
    PROVE  /\ ForBoth(h, Both(Op(h, s, "free"))) /\ ForBoth(h, Both(Op(h, "sync", 0)))
           /\ \A i \in DOMAIN Both(Op(h, s, "free")) :
                 Both(Op(h, s, "free"))[i].op = Op(h, s, "free")
           /\ \A i \in DOMAIN Both(Op(h, "sync", 0)) :
                 Both(Op(h, "sync", 0))[i].op = Op(h, "sync", 0)
           /\ Field(Op(h, s, "free")) = s /\ Field(Op(h, "sync", 0)) = "sync"
<1>1. /\ Op(h, s, "free") \in Ops /\ Op(h, "sync", 0) \in Ops
      /\ From(Op(h, s, "free")) = h /\ From(Op(h, "sync", 0)) = h
      /\ Value(Op(h, s, "free")) = "free"
      /\ Field(Op(h, s, "free")) = s /\ Field(Op(h, "sync", 0)) = "sync"
  BY OpTypes, FieldNames, FieldValues
<1>2. MaySend(h, Op(h, s, "free")) /\ MaySend(h, Op(h, "sync", 0))
  BY <1>1, FieldNames DEF MaySend
<1> QED  BY <1>1, <1>2, BothIsForBoth

-----------------------------------------------------------------------------
(* Every action keeps the types.                                           *)

(* A half that runs begins to send.                                        *)
LEMMA SendKeepsTypes ==
    ASSUME TInv, NEW h \in Halves, NEW sends, ForBoth(h, sends), Send(h, sends),
           running[h], own' \in Channels, data' \in [Halves -> Data],
           \A g \in Halves, k \in Kinds : /\ own'[g][k] \in Seq(KindOps(k))
                                          /\ Len(own'[g][k]) <= Size,
           UNCHANGED <<linked, master, running, stopped, path, writing, applied>>
    PROVE  TInv'
<1> USE DEF TInv
<1>1. /\ todo' \in [Halves -> Seq(Sends)]
      /\ \A g \in Halves : /\ todo'[g] \in Seq(SendsOf(g))
                           /\ g # h => todo'[g] = todo[g]
      /\ intended' \in Contents /\ unsure' \subseteq Fields
  BY SendTypes
<1>2. Typed'
  BY <1>1 DEF Typed
<1>3. Sorted'
  BY <1>1 DEF Sorted
<1>4. Bounded'
  BY DEF Bounded
<1>5. Writes'
  BY DEF Writes
<1>6. Owed'
  BY <1>1 DEF Owed
<1> QED  BY <1>2, <1>3, <1>4, <1>5, <1>6

(* The master's special actions.                                           *)
LEMMA CallbackTypes == TInv /\ Callback => TInv'
<1> SUFFICES ASSUME TInv, Callback PROVE TInv'
  OBVIOUS
<1>1. master \in Halves /\ running[master]
  BY DEF TInv, Typed, Callback, Idle
<1>2. PICK o \in Outputs : Advance(master, o)
  BY DEF Callback
<1>3. /\ data' \in [Halves -> Data]
      /\ \E sends : ForBoth(master, sends) /\ Send(master, sends)
  BY <1>1, <1>2, AdvanceSends
<1>4. UNCHANGED <<linked, master, running, stopped, own, path, writing, applied>>
  BY DEF Callback
<1>5. /\ own' \in Channels
      /\ \A g \in Halves, k \in Kinds : /\ own'[g][k] \in Seq(KindOps(k))
                                        /\ Len(own'[g][k]) <= Size
  BY <1>4 DEF TInv, Typed, Sorted, Bounded
<1> QED  BY <1>1, <1>3, <1>4, <1>5, SendKeepsTypes

(* The handler of a synchronisation keeps the types.                       *)
LEMMA SyncTypes == TInv /\ SyncAnimations => TInv'
<1> SUFFICES ASSUME TInv, SyncAnimations PROVE TInv'
  OBVIOUS
<1>1. master \in Halves /\ running[master]
  BY DEF TInv, Typed, SyncAnimations, Idle
<1>2. Send(master, Both(Op(master, "sync", 0)))
  BY DEF SyncAnimations
<1>3. ForBoth(master, Both(Op(master, "sync", 0)))
  <2>1. Op(master, "sync", 0) \in Ops /\ MaySend(master, Op(master, "sync", 0))
    BY <1>1, OpTypes, FieldNames DEF MaySend
  <2> QED  BY <1>1, <2>1, BothIsForBoth
<1>4. UNCHANGED <<linked, master, running, stopped, own, path, writing, data, applied>>
  BY DEF SyncAnimations
<1>5. /\ own' \in Channels /\ data' \in [Halves -> Data]
      /\ \A g \in Halves, k \in Kinds : /\ own'[g][k] \in Seq(KindOps(k))
                                        /\ Len(own'[g][k]) <= Size
  BY <1>4 DEF TInv, Typed, Sorted, Bounded
<1> QED  BY <1>1, <1>2, <1>3, <1>4, <1>5, SendKeepsTypes

(* So does the removal of a bond.                                          *)
LEMMA RemoveTypes == ASSUME NEW s \in BondSlots PROVE TInv /\ RemoveBond(s) => TInv'
<1> SUFFICES ASSUME TInv, RemoveBond(s) PROVE TInv'
  OBVIOUS
<1>1. master \in Halves /\ running[master]
  BY DEF TInv, Typed, RemoveBond, Idle
<1>2. Send(master, Both(Op(master, s, "free"))) /\ ForBoth(master, Both(Op(master, s, "free")))
  BY <1>1, OtherSends DEF RemoveBond
<1>3. UNCHANGED <<linked, master, running, stopped, own, path, writing, data, applied>>
  BY DEF RemoveBond
<1>4. /\ own' \in Channels /\ data' \in [Halves -> Data]
      /\ \A g \in Halves, k \in Kinds : /\ own'[g][k] \in Seq(KindOps(k))
                                        /\ Len(own'[g][k]) <= Size
  BY <1>3 DEF TInv, Typed, Sorted, Bounded
<1> QED  BY <1>1, <1>2, <1>3, <1>4, SendKeepsTypes

(* Reading a channel of the own half keeps its type and makes it shorter.  *)
LEMMA TailKeepsOwn ==
    ASSUME TInv, NEW h \in Halves, NEW k \in Kinds, own[h][k] # <<>>,
           own' = [own EXCEPT ![h][k] = Tail(@)]
    PROVE  /\ own' \in Channels /\ own'[h][k] = Tail(own[h][k])
           /\ \A g \in Halves, j \in Kinds : g # h \/ j # k => own'[g][j] = own[g][j]
           /\ \A g \in Halves, j \in Kinds : /\ own'[g][j] \in Seq(KindOps(j))
                                             /\ Len(own'[g][j]) <= Size
           /\ Head(own[h][k]) \in KindOps(k)
<1>1. own \in Channels
  BY DEF TInv, Typed
<1>2. /\ own' \in Channels /\ own'[h][k] = Tail(own[h][k])
      /\ \A g \in Halves, j \in Kinds : g # h \/ j # k => own'[g][j] = own[g][j]
  <2>1. own[h][k] \in Seq(Ops) /\ Tail(own[h][k]) \in Seq(Ops)
    BY <1>1, QueueTypes DEF Channels
  <2>2. own' = [own EXCEPT ![h] = [own[h] EXCEPT ![k] = Tail(own[h][k])]]
    OBVIOUS
  <2> QED  BY <1>1, <2>1, <2>2 DEF Channels
<1>3. own[h][k] \in Seq(KindOps(k)) /\ Len(own[h][k]) <= Size
  BY DEF TInv, Sorted, Bounded
<1>4. /\ Tail(own[h][k]) \in Seq(KindOps(k)) /\ Len(Tail(own[h][k])) = Len(own[h][k]) - 1
      /\ Head(own[h][k]) \in KindOps(k) /\ Len(own[h][k]) \in Nat
  BY <1>3, QueueTypes
<1>5. Len(Tail(own[h][k])) <= Size
  BY <1>3, <1>4, SizeAssumption
<1>6. \A g \in Halves, j \in Kinds : own[g][j] \in Seq(KindOps(j)) /\ Len(own[g][j]) <= Size
  BY DEF TInv, Sorted, Bounded
<1> QED  BY <1>2, <1>4, <1>5, <1>6

(* So does the handler of an event.                                        *)
LEMMA EventTypes == ASSUME NEW h \in Halves PROVE TInv /\ HandleEvent(h) => TInv'
<1> SUFFICES ASSUME TInv, HandleEvent(h) PROVE TInv'
  OBVIOUS
<1>1. running[h] /\ "event" \in Kinds /\ "power" \in Outputs
  BY FieldNames DEF HandleEvent, CanHandleEvent, Idle
<1>2. /\ own[h]["event"] # <<>> /\ own' = [own EXCEPT ![h]["event"] = Tail(@)]
      /\ Advance(h, "power")
      /\ UNCHANGED <<linked, master, running, stopped, path, writing, applied>>
  BY DEF HandleEvent, CanHandleEvent, ToggleLighting
<1>3. /\ data' \in [Halves -> Data]
      /\ \E sends : ForBoth(h, sends) /\ Send(h, sends)
  BY <1>1, <1>2, AdvanceSends
<1>4. /\ own' \in Channels
      /\ \A g \in Halves, k \in Kinds : /\ own'[g][k] \in Seq(KindOps(k))
                                        /\ Len(own'[g][k]) <= Size
  BY <1>1, <1>2, TailKeepsOwn
<1> QED  BY <1>1, <1>2, <1>3, <1>4, SendKeepsTypes

(* Sending to a channel of the own half keeps its type and its bound.      *)
LEMMA AppendKeepsOwn ==
    ASSUME TInv, NEW h \in Halves, NEW k \in Kinds, NEW op \in KindOps(k),
           RoomInOwn(h, k), own' = [own EXCEPT ![h][k] = Append(@, op)]
    PROVE  /\ own' \in Channels /\ own'[h][k] = Append(own[h][k], op)
           /\ \A g \in Halves, j \in Kinds : g # h \/ j # k => own'[g][j] = own[g][j]
           /\ \A g \in Halves, j \in Kinds : /\ own'[g][j] \in Seq(KindOps(j))
                                             /\ Len(own'[g][j]) <= Size
<1>1. own \in Channels
  BY DEF TInv, Typed
<1>2. /\ own' \in Channels /\ own'[h][k] = Append(own[h][k], op)
      /\ \A g \in Halves, j \in Kinds : g # h \/ j # k => own'[g][j] = own[g][j]
  <2>1. own[h][k] \in Seq(Ops) /\ Append(own[h][k], op) \in Seq(Ops)
    BY <1>1, QueueTypes, SortedOps DEF Channels
  <2>2. own' = [own EXCEPT ![h] = [own[h] EXCEPT ![k] = Append(own[h][k], op)]]
    OBVIOUS
  <2> QED  BY <1>1, <2>1, <2>2 DEF Channels
<1>3. own[h][k] \in Seq(KindOps(k)) /\ Len(own[h][k]) < Size
  BY DEF TInv, Sorted, RoomInOwn
<1>4. /\ Append(own[h][k], op) \in Seq(KindOps(k)) /\ Len(own[h][k]) \in Nat
      /\ Len(Append(own[h][k], op)) = Len(own[h][k]) + 1
  BY <1>3, QueueTypes
<1>5. Len(Append(own[h][k], op)) <= Size
  BY <1>3, <1>4, SizeAssumption
<1>6. \A g \in Halves, j \in Kinds : own[g][j] \in Seq(KindOps(j)) /\ Len(own[g][j]) <= Size
  BY DEF TInv, Sorted, Bounded
<1> QED  BY <1>2, <1>4, <1>5, <1>6

(* The same for a channel to the other half of a half that runs.           *)
LEMMA AppendKeepsPath ==
    ASSUME TInv, NEW h \in Halves, NEW k \in Kinds, NEW op \in PathOps(h, k),
           running[h], RoomInPath(h, k), path' = [path EXCEPT ![h][k] = Append(@, op)]
    PROVE  /\ path' \in Channels /\ path'[h][k] = Append(path[h][k], op)
           /\ \A g \in Halves, j \in Kinds : g # h \/ j # k => path'[g][j] = path[g][j]
           /\ \A g \in Halves, j \in Kinds :
                 /\ path'[g][j] \in Seq(PathOps(g, j))
                 /\ Len(path'[g][j]) <= IF running[g] THEN Size + 1 ELSE Size
                 /\ path[g][j] # <<>> => path'[g][j] # <<>>
<1>1. path \in Channels
  BY DEF TInv, Typed
<1>2. /\ path' \in Channels /\ path'[h][k] = Append(path[h][k], op)
      /\ \A g \in Halves, j \in Kinds : g # h \/ j # k => path'[g][j] = path[g][j]
  <2>1. path[h][k] \in Seq(Ops) /\ Append(path[h][k], op) \in Seq(Ops)
    BY <1>1, QueueTypes, SortedOps DEF Channels
  <2>2. path' = [path EXCEPT ![h] = [path[h] EXCEPT ![k] = Append(path[h][k], op)]]
    OBVIOUS
  <2> QED  BY <1>1, <2>1, <2>2 DEF Channels
<1>3. path[h][k] \in Seq(PathOps(h, k)) /\ Len(path[h][k]) < Size + 1
  BY DEF TInv, Sorted, RoomInPath
<1>4. /\ Append(path[h][k], op) \in Seq(PathOps(h, k)) /\ Len(path[h][k]) \in Nat
      /\ Len(Append(path[h][k], op)) = Len(path[h][k]) + 1
      /\ Append(path[h][k], op) # <<>>
  BY <1>3, QueueTypes
<1>5. Len(Append(path[h][k], op)) <= Size + 1
  BY <1>3, <1>4, SizeAssumption
<1>6. \A g \in Halves, j \in Kinds : 
         /\ path[g][j] \in Seq(PathOps(g, j))
         /\ Len(path[g][j]) <= IF running[g] THEN Size + 1 ELSE Size
  BY DEF TInv, Sorted, Bounded
<1> QED  BY <1>2, <1>4, <1>5, <1>6

(* What run_clients takes from a channel makes room.                       *)
LEMMA TailKeepsPath ==
    ASSUME TInv, NEW h \in Halves, NEW k \in Kinds, path[h][k] # <<>>,
           path' = [path EXCEPT ![h][k] = Tail(@)]
    PROVE  /\ path' \in Channels /\ path'[h][k] = Tail(path[h][k])
           /\ \A g \in Halves, j \in Kinds : g # h \/ j # k => path'[g][j] = path[g][j]
           /\ \A g \in Halves, j \in Kinds :
                 /\ path'[g][j] \in Seq(PathOps(g, j))
                 /\ Len(path'[g][j]) <= IF running[g] THEN Size + 1 ELSE Size
           /\ Head(path[h][k]) \in PathOps(h, k)
<1>1. path \in Channels
  BY DEF TInv, Typed
<1>2. /\ path' \in Channels /\ path'[h][k] = Tail(path[h][k])
      /\ \A g \in Halves, j \in Kinds : g # h \/ j # k => path'[g][j] = path[g][j]
  <2>1. path[h][k] \in Seq(Ops) /\ Tail(path[h][k]) \in Seq(Ops)
    BY <1>1, QueueTypes DEF Channels
  <2>2. path' = [path EXCEPT ![h] = [path[h] EXCEPT ![k] = Tail(path[h][k])]]
    OBVIOUS
  <2> QED  BY <1>1, <2>1, <2>2 DEF Channels
<1>3. path[h][k] \in Seq(PathOps(h, k))
  BY DEF TInv, Sorted
<1>4. /\ Tail(path[h][k]) \in Seq(PathOps(h, k)) /\ Len(path[h][k]) \in Nat
      /\ Len(Tail(path[h][k])) = Len(path[h][k]) - 1
      /\ Head(path[h][k]) \in PathOps(h, k)
  BY <1>3, QueueTypes
<1>5. \A g \in Halves, j \in Kinds :
         /\ path[g][j] \in Seq(PathOps(g, j))
         /\ Len(path[g][j]) <= IF running[g] THEN Size + 1 ELSE Size
  BY DEF TInv, Sorted, Bounded
<1>6. Len(Tail(path[h][k])) <= IF running[h] THEN Size + 1 ELSE Size
  BY <1>4, <1>5, SizeAssumption
<1> QED  BY <1>2, <1>4, <1>5, <1>6

(* The send at the head of what a main task waits for.                     *)
LEMMA NextSend ==
    ASSUME TInv, NEW h \in Halves, todo[h] # <<>>
    PROVE  LET next == Head(todo[h])
               k == KindOf(Field(next.op))
           IN /\ k \in Kinds /\ next.op \in PathOps(h, k) /\ next.op \in KindOps(k)
              /\ next.to \in {"own", "other"}
              /\ next \in SendsOf(h)
              /\ next.to = "other" => running[h]
              /\ Tail(todo[h]) \in Seq(SendsOf(h)) /\ Tail(todo[h]) \in Seq(Sends)
              /\ 1 \in DOMAIN todo[h] /\ todo[h][1] = next
              /\ \A i \in DOMAIN Tail(todo[h]) :
                    i + 1 \in DOMAIN todo[h] /\ Tail(todo[h])[i] = todo[h][i + 1]
              /\ \A i \in DOMAIN todo[h] : i # 1 =>
                    i - 1 \in DOMAIN Tail(todo[h]) /\ Tail(todo[h])[i - 1] = todo[h][i]
<1> DEFINE next == Head(todo[h])
           k == KindOf(Field(next.op))
<1>1. todo[h] \in Seq(SendsOf(h))
  BY DEF TInv, Sorted
<1>2. /\ next \in SendsOf(h) /\ Tail(todo[h]) \in Seq(SendsOf(h))
      /\ Len(todo[h]) \in Nat \ {0} /\ DOMAIN todo[h] = 1 .. Len(todo[h])
      /\ Len(Tail(todo[h])) = Len(todo[h]) - 1
      /\ \A i \in DOMAIN Tail(todo[h]) : Tail(todo[h])[i] = todo[h][i + 1]
  BY <1>1, QueueTypes
<1>3. DOMAIN Tail(todo[h]) = 1 .. Len(todo[h]) - 1
  BY <1>2, QueueTypes
<1>4. 1 \in DOMAIN todo[h] /\ todo[h][1] = next
  BY <1>1, <1>2, HeadTailProperties
<1>5. next.op \in Ops /\ next.to \in {"own", "other"} /\ From(next.op) = h
  BY <1>2, SortedOps DEF SendsOf
<1>6. k \in Kinds /\ next.op \in PathOps(h, k) /\ next.op \in KindOps(k)
  BY <1>5, SortedOps, OpTypes
<1>7. next.to = "other" => running[h]
  BY <1>4 DEF TInv, Owed
<1>8. Tail(todo[h]) \in Seq(Sends)
  BY <1>2, SortedOps, SeqGrows
<1>9. /\ \A i \in DOMAIN Tail(todo[h]) :
            i + 1 \in DOMAIN todo[h] /\ Tail(todo[h])[i] = todo[h][i + 1]
      /\ \A i \in DOMAIN todo[h] : i # 1 =>
            i - 1 \in DOMAIN Tail(todo[h]) /\ Tail(todo[h])[i - 1] = todo[h][i]
  <2>1. ASSUME NEW i \in DOMAIN Tail(todo[h])
        PROVE  i + 1 \in DOMAIN todo[h] /\ Tail(todo[h])[i] = todo[h][i + 1]
    BY <1>2, <1>3
  <2>2. ASSUME NEW i \in DOMAIN todo[h], i # 1
        PROVE  i - 1 \in DOMAIN Tail(todo[h]) /\ Tail(todo[h])[i - 1] = todo[h][i]
    <3>1. i \in 1 .. Len(todo[h]) /\ i - 1 \in 1 .. Len(todo[h]) - 1 /\ (i - 1) + 1 = i
      BY <1>2, <2>2
    <3> QED  BY <1>2, <1>3, <3>1
  <2> QED  BY <2>1, <2>2
<1> QED  BY <1>2, <1>4, <1>5, <1>6, <1>7, <1>8, <1>9

(* A main task's next send.                                                *)
LEMMA SendNextTypes == ASSUME NEW h \in Halves PROVE TInv /\ SendNext(h) => TInv'
<1> SUFFICES ASSUME TInv, SendNext(h) PROVE TInv'
  OBVIOUS
<1> USE DEF TInv
<1> DEFINE next == Head(todo[h])
           k == KindOf(Field(next.op))
<1>1. /\ k \in Kinds /\ next.op \in PathOps(h, k) /\ next.op \in KindOps(k)
      /\ next.to \in {"own", "other"}
      /\ next.to = "other" => running[h]
      /\ Tail(todo[h]) \in Seq(SendsOf(h)) /\ Tail(todo[h]) \in Seq(Sends)
      /\ \A i \in DOMAIN Tail(todo[h]) :
            i + 1 \in DOMAIN todo[h] /\ Tail(todo[h])[i] = todo[h][i + 1]
  BY NextSend DEF SendNext, CanSendNext
<1>2. /\ Room(h, next.to, k)
      /\ own' = IF next.to = "own" THEN [own EXCEPT ![h][k] = Append(@, next.op)] ELSE own
      /\ path' = IF next.to = "other" THEN [path EXCEPT ![h][k] = Append(@, next.op)] ELSE path
      /\ todo' = [todo EXCEPT ![h] = Tail(@)]
      /\ UNCHANGED <<linked, master, running, stopped, writing, data, applied, intended, unsure>>
  BY DEF SendNext, CanSendNext, ghosts
<1> HIDE DEF next, k
<1>3. /\ own' \in Channels
      /\ \A g \in Halves, j \in Kinds : /\ own'[g][j] \in Seq(KindOps(j))
                                        /\ Len(own'[g][j]) <= Size
  <2>1. CASE next.to = "own"
    BY <1>1, <1>2, <2>1, AppendKeepsOwn DEF Room
  <2>2. CASE next.to = "other"
    BY <1>2, <2>2 DEF Typed, Sorted, Bounded
  <2> QED  BY <1>1, <2>1, <2>2
<1>4. /\ path' \in Channels
      /\ \A g \in Halves, j \in Kinds :
            /\ path'[g][j] \in Seq(PathOps(g, j))
            /\ Len(path'[g][j]) <= IF running[g] THEN Size + 1 ELSE Size
            /\ path[g][j] # <<>> => path'[g][j] # <<>>
  <2>1. CASE next.to = "other"
    BY <1>1, <1>2, <2>1, AppendKeepsPath DEF Room
  <2>2. CASE next.to = "own"
    BY <1>2, <2>2 DEF Typed, Sorted, Bounded
  <2> QED  BY <1>1, <2>1, <2>2
<1>5. todo' \in [Halves -> Seq(Sends)] /\ \A g \in Halves : todo'[g] \in Seq(SendsOf(g))
  BY <1>1, <1>2 DEF Typed, Sorted
<1>6. Typed'
  BY <1>2, <1>3, <1>4, <1>5 DEF Typed
<1>7. Sorted' /\ Bounded'
  BY <1>2, <1>3, <1>4, <1>5 DEF Sorted, Bounded
<1>8. Writes'
  BY <1>2, <1>4 DEF Writes
<1>9. Owed'
  <2>1. todo'[h] = Tail(todo[h]) /\ \A g \in Halves : g # h => todo'[g] = todo[g]
    BY <1>2 DEF Typed
  <2> SUFFICES ASSUME NEW g \in Halves, ~running[g], NEW i \in DOMAIN todo'[g]
               PROVE  todo'[g][i].to = "own"
    BY <1>2 DEF Owed
  <2>2. CASE g = h
    <3>1. i + 1 \in DOMAIN todo[h] /\ todo'[h][i] = todo[h][i + 1]
      BY <1>1, <2>1, <2>2
    <3> QED  BY <2>2, <3>1 DEF Owed
  <2>3. CASE g # h
    BY <2>1, <2>3 DEF Owed
  <2> QED  BY <2>2, <2>3
<1> QED  BY <1>6, <1>7, <1>8, <1>9

(* A handler is dropped.                                                   *)
LEMMA CancelTypes == TInv /\ Cancel => TInv'
<1> SUFFICES ASSUME TInv, Cancel PROVE TInv'
  OBVIOUS
<1> USE DEF TInv
<1>1. /\ todo' = [todo EXCEPT ![master] = <<>>]
      /\ unsure' = unsure \cup FieldsOf(Waiting(master))
      /\ UNCHANGED <<linked, master, running, stopped, own, path, writing, data, applied,
                     intended>>
  BY DEF Cancel
<1>2. unsure' \subseteq Fields
  BY <1>1 DEF FieldsOf, Typed
<1>3. \A S : <<>> \in Seq(S)
  BY EmptySeq
<1>4. /\ todo' \in [Halves -> Seq(Sends)] /\ todo'[master] = <<>>
      /\ \A g \in Halves : g # master => todo'[g] = todo[g]
  BY <1>1, <1>3 DEF Typed
<1>5. Typed'
  BY <1>1, <1>2, <1>4 DEF Typed
<1>6. Sorted'
  BY <1>1, <1>3, <1>4 DEF Sorted
<1>7. Bounded' /\ Writes'
  BY <1>1 DEF Bounded, Writes
<1>8. Owed'
  <2> SUFFICES ASSUME NEW g \in Halves, ~running[g], NEW i \in DOMAIN todo'[g]
               PROVE  todo'[g][i].to = "own"
    BY <1>1 DEF Owed
  <2>1. CASE g = master
    BY <1>4, <2>1
  <2>2. CASE g # master
    BY <1>4, <2>2 DEF Owed
  <2> QED  BY <2>1, <2>2
<1> QED  BY <1>5, <1>6, <1>7, <1>8

(* The slot for a new bond is a free one.                                  *)
LEMMA SlotIsFree ==
    ASSUME NEW h \in Halves, Free(h) # {}
    PROVE  Slot(h) \in BondSlots /\ applied[h][Slot(h)] = "free"
<1>1. Slots \in Seq(ToSet(Slots))
  BY SlotsAssumption
<1>2. DOMAIN Slots \subseteq Nat
  BY <1>1, LenProperties
<1>3. Free(h) \subseteq DOMAIN Slots /\ Free(h) \in SUBSET Nat
  BY <1>2 DEF Free
<1>4. \E n \in Free(h) : \A m \in Free(h) : n <= m
  <2>1. PICK n \in Free(h) : \A m \in Free(h) : ~(<<m, n>> \in OpToRel(<, Nat))
    BY <1>3, NatLessThanWellFounded, WFMin
  <2>2. \A m \in Free(h) : ~(m < n)
    BY <1>3, <2>1 DEF OpToRel
  <2> QED  BY <1>3, <2>2
<1>5. Min(Free(h)) \in Free(h)
  BY <1>4 DEF Min
<1>6. Min(Free(h)) \in DOMAIN Slots /\ applied[h][Slots[Min(Free(h))]] = "free"
  BY <1>5 DEF Free
<1> QED  BY <1>6 DEF Slot, BondSlots, ToSet

(* A bond is stored on both halves, where there is room.                   *)
LEMMA BondedTypes == ASSUME NEW p \in Peers PROVE TInv /\ Bonded(p) => TInv'
<1> SUFFICES ASSUME TInv, Bonded(p) PROVE TInv'
  OBVIOUS
<1> USE DEF TInv
<1> DEFINE s == Slot(master)
           op == Op(master, s, p)
<1>1. master \in Halves /\ running[master] /\ s \in BondSlots /\ "flash" \in Kinds
  BY SlotIsFree, FieldNames DEF Typed, Bonded
<1>2. op \in PathOps(master, "flash") /\ op \in KindOps("flash")
  <2>1. op \in Ops /\ Field(op) = s /\ From(op) = master
    BY <1>1, OpTypes, FieldNames, FieldValues
  <2>2. KindOf(s) = "flash"
    BY <1>1, FieldNames
  <2> QED  BY <2>1, <2>2 DEF KindOps, PathOps
<1>3. /\ own' = IF RoomInOwn(master, "flash")
                THEN [own EXCEPT ![master]["flash"] = Append(@, op)] ELSE own
      /\ path' = IF RoomInPath(master, "flash")
                 THEN [path EXCEPT ![master]["flash"] = Append(@, op)] ELSE path
      /\ intended' = [intended EXCEPT ![s] = p]
      /\ unsure' \subseteq unsure \cup {s}
      /\ UNCHANGED <<linked, master, running, stopped, writing, todo, data, applied>>
  BY DEF Bonded
<1> HIDE DEF s, op
<1>4. /\ own' \in Channels
      /\ \A g \in Halves, j \in Kinds : /\ own'[g][j] \in Seq(KindOps(j))
                                        /\ Len(own'[g][j]) <= Size
  <2>1. CASE RoomInOwn(master, "flash")
    <3>1. own' = [own EXCEPT ![master]["flash"] = Append(@, op)]
      BY <1>3, <2>1
    <3> QED  BY <1>1, <1>2, <3>1, <2>1, AppendKeepsOwn
  <2>2. CASE ~RoomInOwn(master, "flash")
    BY <1>3, <2>2 DEF Typed, Sorted, Bounded
  <2> QED  BY <2>1, <2>2
<1>5. /\ path' \in Channels
      /\ \A g \in Halves, j \in Kinds :
            /\ path'[g][j] \in Seq(PathOps(g, j))
            /\ Len(path'[g][j]) <= IF running[g] THEN Size + 1 ELSE Size
            /\ path[g][j] # <<>> => path'[g][j] # <<>>
  <2>1. CASE RoomInPath(master, "flash")
    <3>1. path' = [path EXCEPT ![master]["flash"] = Append(@, op)]
      BY <1>3, <2>1
    <3> QED  BY <1>1, <1>2, <3>1, <2>1, AppendKeepsPath
  <2>2. CASE ~RoomInPath(master, "flash")
    BY <1>3, <2>2 DEF Typed, Sorted, Bounded
  <2> QED  BY <2>1, <2>2
<1>6. intended' \in Contents
  <2>1. s \in Fields /\ p \in Values(s)
    BY <1>1, FieldNames, FieldValues
  <2>2. p \in AnyValue
    BY <2>1 DEF AnyValue
  <2> QED  BY <1>3, <2>1, <2>2 DEF Typed, Contents
<1>7. unsure' \subseteq Fields
  BY <1>1, <1>3, FieldNames DEF Typed
<1>8. Typed'
  BY <1>3, <1>4, <1>5, <1>6, <1>7 DEF Typed
<1>9. Sorted' /\ Bounded'
  BY <1>3, <1>4, <1>5 DEF Sorted, Bounded
<1>10. Writes' /\ Owed'
  BY <1>3, <1>5 DEF Writes, Owed
<1> QED  BY <1>8, <1>9, <1>10

(* A task applies the operation at the head of its channel.                *)
LEMMA ReceiveTypes ==
    ASSUME NEW h \in Halves, NEW k \in Kinds PROVE TInv /\ Receive(h, k) => TInv'
<1> SUFFICES ASSUME TInv, Receive(h, k) PROVE TInv'
  OBVIOUS
<1> USE DEF TInv
<1> DEFINE op == Head(own[h][k])
<1>1. /\ own[h][k] # <<>> /\ k # "event"
      /\ applied' = [applied EXCEPT ![h][Field(op)] = Value(op)]
      /\ own' = [own EXCEPT ![h][k] = Tail(@)]
      /\ UNCHANGED <<linked, master, running, stopped, path, writing, todo, data, intended, unsure>>
  BY DEF Receive, CanReceive, ghosts
<1>2. /\ own' \in Channels /\ op \in KindOps(k)
      /\ \A g \in Halves, j \in Kinds : /\ own'[g][j] \in Seq(KindOps(j))
                                        /\ Len(own'[g][j]) <= Size
  BY <1>1, TailKeepsOwn
<1>3. Field(op) \in Fields /\ Value(op) \in Values(Field(op)) /\ Value(op) \in AnyValue
  <2>1. op \in Ops /\ KindOf(Field(op)) = k
    BY <1>2, SortedOps
  <2>2. Field(op) \in Fields /\ Value(op) \in Values(Field(op))
    BY <1>1, <2>1, OpTypes
  <2> QED  BY <2>2 DEF AnyValue
<1> HIDE DEF op
<1>4. applied' \in [Halves -> Contents]
  <2> DEFINE c == [applied[h] EXCEPT ![Field(op)] = Value(op)]
  <2>1. applied \in [Halves -> Contents]
    BY DEF Typed
  <2>2. c \in Contents
    BY <1>3, <2>1 DEF Contents
  <2>3. applied' = [applied EXCEPT ![h] = c]
    BY <1>1
  <2> HIDE DEF c
  <2> QED  BY <2>1, <2>2, <2>3
<1>5. Typed'
  BY <1>1, <1>2, <1>4 DEF Typed
<1>6. Sorted' /\ Bounded'
  BY <1>1, <1>2 DEF Sorted, Bounded
<1>7. Writes' /\ Owed'
  BY <1>1 DEF Writes, Owed
<1> QED  BY <1>5, <1>6, <1>7

(* A write begins.                                                         *)
LEMMA WriteTypes ==
    ASSUME NEW h \in Halves, NEW k \in Kinds
    PROVE  TInv /\ (StartWrite(h, k) \/ KeyWrite(h) \/ KeyDone(h)) => TInv'
<1> SUFFICES ASSUME TInv, StartWrite(h, k) \/ KeyWrite(h) \/ KeyDone(h) PROVE TInv'
  OBVIOUS
<1> USE DEF TInv
<1>1. /\ UNCHANGED <<linked, master, running, stopped, own, path, todo, data, applied,
                     intended, unsure>>
      /\ running[h]
      /\ \E w \in Kinds \cup {"none", "key"} :
            /\ writing' = [writing EXCEPT ![h] = w]
            /\ w \in Kinds => path[h][w] # <<>>
  <2>1. CASE StartWrite(h, k)
    BY <2>1 DEF StartWrite, CanStartWrite, Writing, ghosts
  <2>2. CASE KeyWrite(h)
    BY <2>2, FieldNames DEF KeyWrite, Writing, ghosts
  <2>3. CASE KeyDone(h)
    BY <2>3, FieldNames DEF KeyDone, CanKeyDone, Writes, ghosts
  <2> QED  BY <2>1, <2>2, <2>3
<1>2. PICK w \in Kinds \cup {"none", "key"} : /\ writing' = [writing EXCEPT ![h] = w]
                                              /\ w \in Kinds => path[h][w] # <<>>
  BY <1>1
<1>3. Typed'
  BY <1>1, <1>2 DEF Typed
<1>4. Sorted' /\ Bounded' /\ Owed'
  BY <1>1 DEF Sorted, Bounded, Owed
<1>5. Writes'
  BY <1>1, <1>2 DEF Writes, Typed
<1> QED  BY <1>3, <1>4, <1>5

(* The other half gets an operation, or loses it.                          *)
LEMMA DeliverTypes == ASSUME NEW h \in Halves PROVE TInv /\ Deliver(h) => TInv'
<1> SUFFICES ASSUME TInv, Deliver(h) PROVE TInv'
  OBVIOUS
<1> USE DEF TInv
<1> DEFINE k == writing[h]
           op == Head(path[h][k])
<1>1. /\ k \in Kinds /\ path[h][k] # <<>>
      /\ path' = [path EXCEPT ![h][k] = Tail(@)]
      /\ writing' = [writing EXCEPT ![h] = "none"]
      /\ \/ /\ RoomInOwn(Other(h), k)
            /\ own' = [own EXCEPT ![Other(h)][k] = Append(@, op)]
            /\ UNCHANGED unsure
         \/ /\ unsure' = unsure \cup FieldsOf({op})
            /\ UNCHANGED own
      /\ UNCHANGED <<linked, master, running, stopped, todo, data, applied, intended>>
  BY DEF Deliver, CanDeliver, Writes
<1> HIDE DEF k
<1>2. /\ path' \in Channels /\ path'[h][k] = Tail(path[h][k])
      /\ \A g \in Halves, j \in Kinds : g # h \/ j # k => path'[g][j] = path[g][j]
      /\ \A g \in Halves, j \in Kinds :
            /\ path'[g][j] \in Seq(PathOps(g, j))
            /\ Len(path'[g][j]) <= IF running[g] THEN Size + 1 ELSE Size
      /\ op \in PathOps(h, k)
  BY <1>1, TailKeepsPath
<1>3. op \in KindOps(k)
  BY <1>1, <1>2, SortedOps
<1> HIDE DEF op
<1>4. /\ own' \in Channels
      /\ \A g \in Halves, j \in Kinds : /\ own'[g][j] \in Seq(KindOps(j))
                                        /\ Len(own'[g][j]) <= Size
  <2>1. CASE /\ RoomInOwn(Other(h), k)
             /\ own' = [own EXCEPT ![Other(h)][k] = Append(@, op)]
    BY <1>1, <1>3, <2>1, AppendKeepsOwn, HalvesNames
  <2>2. CASE UNCHANGED own
    BY <2>2 DEF Typed, Sorted, Bounded
  <2> QED  BY <1>1, <2>1, <2>2
<1>5. unsure' \subseteq Fields
  BY <1>1 DEF Typed, FieldsOf
<1>6. Typed'
  BY <1>1, <1>2, <1>4, <1>5, FieldNames DEF Typed
<1>7. Sorted' /\ Bounded' /\ Owed'
  BY <1>1, <1>2, <1>4 DEF Sorted, Bounded, Owed
<1>8. Writes'
  <2>1. writing'[h] = "none" /\ \A g \in Halves : g # h => writing'[g] = writing[g]
    BY <1>1 DEF Typed
  <2>2. \A g \in Halves : g # h => path'[g] = path[g]
    BY <1>1 DEF Typed, Channels
  <2> QED  BY <1>1, <2>1, <2>2, FieldNames DEF Writes
<1> QED  BY <1>6, <1>7, <1>8

(* A half leaves do_master or do_slave.                                    *)
LEMMA GiveUpTypes ==
    ASSUME TInv, NEW h \in Halves, GiveUp(h), linked' = FALSE,
           UNCHANGED <<master, stopped, own, data, applied, intended>>
    PROVE  TInv'
<1> USE DEF TInv
<1> DEFINE op == Op(h, "power", 0)
<1>1. PICK taken \in SUBSET Kinds :
        /\ Held(h, taken)
        /\ path' = [path EXCEPT ![h] = [k \in Kinds |->
                       IF k \in taken THEN Tail(path[h][k]) ELSE path[h][k]]]
        /\ unsure' = unsure \cup FieldsOf({Head(path[h][k]) : k \in taken}) \cup {"power"}
        /\ running' = [running EXCEPT ![h] = FALSE]
        /\ writing' = [writing EXCEPT ![h] = "none"]
        /\ todo' = [todo EXCEPT ![h] = This(op)]
  BY DEF GiveUp
<1>2. /\ path \in Channels
      /\ \A k \in Kinds : path[h][k] \in Seq(PathOps(h, k)) /\ Len(path[h][k]) <= Size + 1
  <2>1. \A k \in Kinds : path[h][k] \in Seq(PathOps(h, k)) /\ Len(path[h][k]) \in Nat
    BY LenProperties DEF Sorted
  <2>2. \A k \in Kinds : Len(path[h][k]) <= IF running[h] THEN Size + 1 ELSE Size
    BY DEF Bounded
  <2> QED  BY <2>1, <2>2, SizeAssumption DEF Typed
<1> DEFINE left == [k \in Kinds |-> IF k \in taken THEN Tail(path[h][k]) ELSE path[h][k]]
<1>3. ASSUME NEW k \in Kinds
      PROVE  left[k] \in Seq(PathOps(h, k)) /\ left[k] \in Seq(Ops) /\ Len(left[k]) <= Size
  <2>1. path[h][k] \in Seq(PathOps(h, k)) /\ Len(path[h][k]) <= Size + 1 /\ Len(path[h][k]) \in Nat
    BY <1>2, LenProperties
  <2>2. PathOps(h, k) \subseteq Ops
    BY SortedOps
  <2>3. CASE k \in taken
    <3>1. path[h][k] # <<>>
      BY <1>1, <2>3 DEF Held
    <3>2. /\ Tail(path[h][k]) \in Seq(PathOps(h, k))
          /\ Len(Tail(path[h][k])) = Len(path[h][k]) - 1
      BY <2>1, <3>1, QueueTypes
    <3>3. Len(Tail(path[h][k])) <= Size
      BY <2>1, <3>2, SizeAssumption
    <3> QED  BY <2>2, <2>3, <3>2, <3>3, SeqGrows
  <2>4. CASE k \notin taken
    <3>1. ~(Len(path[h][k]) > Size)
      BY <1>1, <2>4 DEF Held
    <3>2. Len(path[h][k]) <= Size
      BY <2>1, <3>1, SizeAssumption
    <3> QED  BY <2>1, <2>2, <2>4, <3>2, SeqGrows
  <2> QED  BY <2>3, <2>4
<1>4. left \in [Kinds -> Seq(Ops)] /\ path' = [path EXCEPT ![h] = left]
  BY <1>1, <1>3
<1> HIDE DEF left
<1>5. /\ path' \in Channels /\ path'[h] = left
      /\ \A g \in Halves : g # h => path'[g] = path[g]
  BY <1>2, <1>4 DEF Channels
<1>6. This(op) \in Seq(Sends) /\ This(op) \in Seq(SendsOf(h))
      /\ \A i \in DOMAIN This(op) : This(op)[i].to = "own"
  <2>1. "power" \in Outputs /\ 0 \in Positions("power")
    BY FieldNames DEF Positions, Cycle
  <2>2. op \in Ops /\ Field(op) = "power" /\ From(op) = h
    BY <2>1, OpTypes, FieldNames, FieldValues
  <2> HIDE DEF op
  <2>3. [to |-> "own", op |-> op] \in Sends /\ [to |-> "own", op |-> op] \in SendsOf(h)
    BY <2>1, <2>2, FieldNames DEF Sends, SendsOf
  <2> QED  BY <2>3 DEF This
<1> HIDE DEF op
<1>7. /\ todo' \in [Halves -> Seq(Sends)] /\ todo'[h] = This(op)
      /\ \A g \in Halves : g # h => todo'[g] = todo[g]
  BY <1>1, <1>6 DEF Typed
<1>8. /\ running' \in [Halves -> BOOLEAN] /\ running'[h] = FALSE
      /\ \A g \in Halves : g # h => running'[g] = running[g]
      /\ writing' \in [Halves -> Kinds \cup {"none", "key"}] /\ writing'[h] = "none"
      /\ \A g \in Halves : g # h => writing'[g] = writing[g]
  BY <1>1 DEF Typed
<1>9. unsure' \subseteq Fields
  BY <1>1, FieldNames DEF Typed, FieldsOf
<1>10. Typed'
  BY <1>5, <1>7, <1>8, <1>9 DEF Typed
<1>11. Sorted'
  BY <1>3, <1>5, <1>6, <1>7 DEF Sorted
<1>12. Bounded'
  BY <1>3, <1>5, <1>8 DEF Bounded
<1>13. Writes'
  BY <1>5, <1>8, FieldNames DEF Writes
<1>14. Owed'
  <2> SUFFICES ASSUME NEW g \in Halves, ~running'[g], NEW i \in DOMAIN todo'[g]
               PROVE  todo'[g][i].to = "own"
    BY DEF Owed
  <2>1. CASE g = h
    BY <1>6, <1>7, <2>1
  <2>2. CASE g # h
    BY <1>7, <1>8, <2>2 DEF Owed
  <2> QED  BY <2>1, <2>2
<1> QED  BY <1>10, <1>11, <1>12, <1>13, <1>14

(* Halves that leave, panic or lose the link.                              *)
LEMMA LossTypes ==
    ASSUME NEW h \in Halves
    PROVE  TInv /\ (Leave(h) \/ Busy(h) \/ Panic(h) \/ Disconnect) => TInv'
<1> SUFFICES ASSUME TInv, Leave(h) \/ Busy(h) \/ Panic(h) \/ Disconnect PROVE TInv'
  OBVIOUS
<1>1. CASE Leave(h)
  <2>1. /\ GiveUp(h) /\ linked' = FALSE
        /\ UNCHANGED <<master, stopped, own, data, applied, intended>>
    BY <1>1 DEF Leave, CanLeave, TInv, Typed
  <2> QED  BY <2>1, GiveUpTypes
<1>2. CASE Busy(h)
  <2>1. /\ GiveUp(h) /\ linked' = FALSE
        /\ UNCHANGED <<master, stopped, own, data, applied, intended>>
    BY <1>2 DEF Busy
  <2> QED  BY <2>1, GiveUpTypes
<1>3. CASE Panic(h)
  <2>1. /\ stopped' = stopped \cup {h}
        /\ UNCHANGED <<linked, master, running, own, path, writing, todo, data, applied,
                       intended, unsure>>
    BY <1>3 DEF Panic, CanPanic, moving, ghosts
  <2> QED  BY <2>1 DEF TInv, Typed, Sorted, Bounded, Writes, Owed
<1>4. CASE Disconnect
  <2>1. /\ linked' = FALSE
        /\ UNCHANGED <<master, running, stopped, own, path, writing, todo, data, applied,
                       intended, unsure>>
    BY <1>4 DEF Disconnect, moving, ghosts
  <2> QED  BY <2>1 DEF TInv, Typed, Sorted, Bounded, Writes, Owed
<1> QED  BY <1>1, <1>2, <1>3, <1>4

(* What post_sides_connected sends: each output once, to the own tasks.    *)
LEMMA RestoreTypes ==
    ASSUME TInv, NEW h \in Halves
    PROVE  /\ Restore(h) \in Seq(SendsOf(h)) /\ Restore(h) \in Seq(Sends)
           /\ \A i \in DOMAIN Restore(h) : Field(Restore(h)[i].op) \in Outputs
<1> DEFINE n == Cardinality(Outputs)
           order == SetToSeq(Outputs)
           send(i) == [to |-> "own", op |-> Op(h, order[i], data[h][order[i]])]
<1>1. IsFiniteSet(Outputs)
  BY NamesAssumption, FS_Singleton, FS_Union DEF Outputs
<1>2. n \in Nat /\ ExistsBijection(1 .. n, Outputs)
  BY <1>1, FS_CardinalityType
<1>3. \E f \in [1 .. n -> Outputs] : IsInjective(f)
  BY <1>2 DEF ExistsBijection, Bijection, Injection, IsInjective
<1>4. order \in [1 .. n -> Outputs]
  BY <1>3 DEF SetToSeq
<1> HIDE DEF n, order
<1>5. ASSUME NEW i \in 1 .. n
      PROVE  send(i) \in SendsOf(h) /\ Field(send(i).op) \in Outputs
  <2> DEFINE o == order[i]
             v == data[h][order[i]]
  <2>1. o \in Outputs /\ v \in Positions(o)
    BY <1>4 DEF TInv, Typed, Data
  <2> HIDE DEF o, v
  <2>2. Op(h, o, v) \in Ops /\ Field(Op(h, o, v)) = o /\ From(Op(h, o, v)) = h
    BY <2>1, OpTypes, FieldNames, FieldValues
  <2>3. [to |-> "own", op |-> Op(h, o, v)] \in Sends
    BY <2>2 DEF Sends
  <2> QED  BY <2>1, <2>2, <2>3, FieldNames DEF SendsOf, o, v
<1>6. Restore(h) = [i \in 1 .. n |-> send(i)]
  BY <1>4 DEF Restore, order
<1> HIDE DEF send
<1>7. Restore(h) \in [1 .. n -> SendsOf(h)] /\ DOMAIN Restore(h) = 1 .. n
  BY <1>5, <1>6
<1>8. Restore(h) \in Seq(SendsOf(h))
  BY <1>2, <1>7, SeqDef
<1> QED  BY <1>5, <1>6, <1>7, <1>8, SortedOps, SeqGrows

(* The halves find each other again.                                       *)
LEMMA ReconnectTypes == TInv /\ Reconnect => TInv'
<1> SUFFICES ASSUME TInv, Reconnect PROVE TInv'
  OBVIOUS
<1>1. /\ linked' = TRUE /\ master' \in Halves
      /\ running' = [h \in Halves |-> TRUE]
      /\ todo' = [h \in Halves |-> Restore(h)]
      /\ unsure' = unsure \cup Outputs
      /\ UNCHANGED <<stopped, own, path, writing, data, applied, intended>>
  BY DEF Reconnect
<1>2. \A h \in Halves : Restore(h) \in Seq(SendsOf(h)) /\ Restore(h) \in Seq(Sends)
  BY RestoreTypes
<1>3. Typed'
  BY <1>1, <1>2, FieldNames DEF TInv, Typed
<1>4. Sorted'
  BY <1>1, <1>2 DEF TInv, Sorted
<1>5. Bounded'
  <2>1. \A h \in Halves, k \in Kinds : /\ own[h][k] \in Seq(KindOps(k)) /\ Len(own[h][k]) <= Size
                                       /\ Len(path[h][k]) \in Nat
                                       /\ Len(path[h][k]) <= IF running[h] THEN Size + 1 ELSE Size
    BY LenProperties DEF TInv, Sorted, Bounded
  <2>2. \A h \in Halves, k \in Kinds : Len(path[h][k]) <= Size + 1
    BY <2>1, SizeAssumption
  <2> QED  BY <1>1, <2>1, <2>2 DEF Bounded
<1>6. Writes' /\ Owed'
  BY <1>1 DEF TInv, Writes, Owed
<1> QED  BY <1>3, <1>4, <1>5, <1>6 DEF TInv

(* Every step keeps the types.                                             *)
LEMMA StepTypes == TInv /\ [Next]_vars => TInv'
<1> SUFFICES ASSUME TInv, [Next]_vars PROVE TInv'
  OBVIOUS
<1>1. CASE Callback \/ SyncAnimations \/ Cancel \/ Reconnect
  BY <1>1, CallbackTypes, SyncTypes, CancelTypes, ReconnectTypes
<1>2. CASE (\E s \in BondSlots : RemoveBond(s)) \/ (\E p \in Peers : Bonded(p))
  BY <1>2, RemoveTypes, BondedTypes
<1>3. ASSUME NEW h \in Halves,
             \/ HandleEvent(h) \/ SendNext(h) \/ Deliver(h) \/ KeyWrite(h) \/ KeyDone(h)
             \/ Leave(h) \/ Busy(h) \/ Panic(h)
             \/ \E k \in Kinds : Receive(h, k) \/ StartWrite(h, k)
      PROVE  TInv'
  BY <1>3, EventTypes, SendNextTypes, DeliverTypes, WriteTypes, LossTypes, ReceiveTypes, FieldNames
<1>4. CASE Disconnect
  BY <1>4, LossTypes DEF Halves
<1>5. CASE UNCHANGED vars
  BY <1>5 DEF vars, moving, ghosts, TInv, Typed, Sorted, Bounded, Writes, Owed
<1> QED  BY <1>1, <1>2, <1>3, <1>4, <1>5 DEF Next

(* The channels hold operations of their kind, and no more than they have  *)
(* room for; a half that writes has what it writes: for any sizes and any  *)
(* losses.                                                                 *)
THEOREM ChannelsFit == Spec => []TypeOK
<1>1. Init => TInv
  BY InitTypes
<1>2. TInv /\ [Next]_vars => TInv'
  BY StepTypes
<1>3. TInv => TypeOK
  BY TInvTypes
<1> QED  BY <1>1, <1>2, <1>3, PTL DEF Spec

-----------------------------------------------------------------------------
(* What a channel says about one field.                                    *)

Has(q, f) == \E i \in DOMAIN q : Field(q[i]) = f

(* The last operation for f, if there is one, asks for v.                  *)
Latest(q, f, v) ==
    \A i \in DOMAIN q :
        Field(q[i]) = f /\ (\A j \in DOMAIN q : j > i => Field(q[j]) # f) => Value(q[i]) = v

AllFrom(q, f, h) == \A i \in DOMAIN q : Field(q[i]) = f => From(q[i]) = h

(* An operation that fills a bond slot, and channels with at most one.     *)
IsBond(op, s) == Field(op) = s /\ Value(op) # "free"
HasBond(q, s) == \E i \in DOMAIN q : IsBond(q[i], s)
OnlyBond(q, s) == \A i, j \in DOMAIN q : IsBond(q[i], s) /\ IsBond(q[j], s) => i = j

(* r says about f what q does.                                             *)
Alike(q, r, f) ==
    /\ Has(r, f) <=> Has(q, f)
    /\ \A v : Latest(q, f, v) => Latest(r, f, v)
    /\ \A h : AllFrom(q, f, h) => AllFrom(r, f, h)
    /\ HasBond(r, f) <=> HasBond(q, f)
    /\ OnlyBond(q, f) => OnlyBond(r, f)

(* A channel is alike itself.                                              *)
LEMMA AlikeSelf == \A q, f : Alike(q, q, f)
BY DEF Alike

(* An operation is added at the end of a channel.                          *)
LEMMA Appended ==
    ASSUME NEW q \in Seq(Ops), NEW op \in Ops, NEW f
    PROVE  LET r == Append(q, op)
           IN /\ Has(r, f) <=> Has(q, f) \/ Field(op) = f
              /\ Field(op) = f => Latest(r, f, Value(op))
              /\ \A h : AllFrom(q, f, h) /\ (Field(op) = f => From(op) = h) => AllFrom(r, f, h)
              /\ HasBond(r, f) <=> HasBond(q, f) \/ IsBond(op, f)
              /\ OnlyBond(q, f) /\ (~IsBond(op, f) \/ ~HasBond(q, f)) => OnlyBond(r, f)
              /\ Field(op) # f => Alike(q, r, f)
<1> DEFINE r == Append(q, op)
           n == Len(q)
<1>1. /\ n \in Nat /\ DOMAIN q = 1 .. n /\ DOMAIN r = 1 .. n + 1
      /\ r[n + 1] = op /\ \A i \in DOMAIN q : r[i] = q[i]
  BY AppendProperties, LenProperties
<1> HIDE DEF r, n
<1>2. /\ DOMAIN q \subseteq DOMAIN r /\ n + 1 \in DOMAIN r /\ n + 1 \notin DOMAIN q
      /\ \A i \in DOMAIN r : i \in DOMAIN q \/ i = n + 1
      /\ \A i \in DOMAIN q : n + 1 > i /\ ~(i > n + 1)
      /\ \A i \in DOMAIN r : ~(i > n + 1)
  BY <1>1
<1>3. Has(r, f) <=> Has(q, f) \/ Field(op) = f
  BY <1>1, <1>2 DEF Has
<1>4. Field(op) = f => Latest(r, f, Value(op))
  BY <1>1, <1>2 DEF Latest
<1>5. \A h : AllFrom(q, f, h) /\ (Field(op) = f => From(op) = h) => AllFrom(r, f, h)
  BY <1>1, <1>2 DEF AllFrom
<1>6. HasBond(r, f) <=> HasBond(q, f) \/ IsBond(op, f)
  BY <1>1, <1>2 DEF HasBond
<1>7. OnlyBond(q, f) /\ (~IsBond(op, f) \/ ~HasBond(q, f)) => OnlyBond(r, f)
  BY <1>1, <1>2 DEF OnlyBond, HasBond
<1>8. ASSUME Field(op) # f, NEW v, Latest(q, f, v) PROVE Latest(r, f, v)
  <2> SUFFICES ASSUME NEW i \in DOMAIN r, Field(r[i]) = f,
                      \A j \in DOMAIN r : j > i => Field(r[j]) # f
               PROVE  Value(r[i]) = v
    BY DEF Latest
  <2>1. i \in DOMAIN q /\ r[i] = q[i]
    BY <1>1, <1>2, <1>8
  <2>2. \A j \in DOMAIN q : j > i => Field(q[j]) # f
    BY <1>1, <1>2
  <2> QED  BY <1>8, <2>1, <2>2 DEF Latest
<1>9. Field(op) # f => Alike(q, r, f)
  BY <1>3, <1>5, <1>6, <1>7, <1>8 DEF Alike, IsBond
<1> QED  BY <1>3, <1>4, <1>5, <1>6, <1>7, <1>9 DEF r

(* The operation at the head of a channel is taken.                        *)
LEMMA Taken ==
    ASSUME NEW q \in Seq(Ops), q # <<>>, NEW f
    PROVE  LET op == Head(q)
               r == Tail(q)
           IN /\ Has(q, f) <=> Has(r, f) \/ Field(op) = f
              /\ \A v : Latest(q, f, v) => Latest(r, f, v)
              /\ \A v : Latest(q, f, v) /\ Field(op) = f /\ ~Has(r, f) => Value(op) = v
              /\ \A h : AllFrom(q, f, h) =>
                    AllFrom(r, f, h) /\ (Field(op) = f => From(op) = h)
              /\ HasBond(q, f) <=> HasBond(r, f) \/ IsBond(op, f)
              /\ OnlyBond(q, f) => OnlyBond(r, f) /\ (IsBond(op, f) => ~HasBond(r, f))
              /\ Field(op) # f => Alike(q, r, f)
<1> DEFINE op == Head(q)
           r == Tail(q)
           n == Len(q)
<1>1. /\ n \in Nat \ {0} /\ DOMAIN q = 1 .. n /\ DOMAIN r = 1 .. n - 1
      /\ q[1] = op /\ \A i \in DOMAIN r : r[i] = q[i + 1]
  BY HeadTailProperties, LenProperties, EmptySeq, QueueTypes
<1> HIDE DEF r, n, op
<1>2. /\ 1 \in DOMAIN q
      /\ \A i \in DOMAIN r : i + 1 \in DOMAIN q /\ i + 1 # 1 /\ i \in Nat
      /\ \A i \in DOMAIN q : i = 1 \/ (i - 1 \in DOMAIN r /\ r[i - 1] = q[i])
      /\ \A i \in DOMAIN q : i \in Nat
  BY <1>1
<1>3. Has(q, f) <=> Has(r, f) \/ Field(op) = f
  BY <1>1, <1>2 DEF Has
<1>4. ASSUME NEW v, Latest(q, f, v) PROVE Latest(r, f, v)
  <2> SUFFICES ASSUME NEW i \in DOMAIN r, Field(r[i]) = f,
                      \A j \in DOMAIN r : j > i => Field(r[j]) # f
               PROVE  Value(r[i]) = v
    BY DEF Latest
  <2>1. ASSUME NEW j \in DOMAIN q, j > i + 1 PROVE Field(q[j]) # f
    <3>1. j - 1 \in DOMAIN r /\ r[j - 1] = q[j] /\ j - 1 > i
      BY <1>2, <2>1
    <3> QED  BY <3>1
  <2> QED  BY <1>1, <1>2, <1>4, <2>1 DEF Latest
<1>5. ASSUME NEW v, Latest(q, f, v), Field(op) = f, ~Has(r, f) PROVE Value(op) = v
  <2>1. \A j \in DOMAIN q : j > 1 => Field(q[j]) # f
    BY <1>2, <1>5 DEF Has
  <2> QED  BY <1>1, <1>2, <1>5, <2>1 DEF Latest
<1>6. \A h : AllFrom(q, f, h) => AllFrom(r, f, h) /\ (Field(op) = f => From(op) = h)
  BY <1>1, <1>2 DEF AllFrom
<1>7. HasBond(q, f) <=> HasBond(r, f) \/ IsBond(op, f)
  BY <1>1, <1>2 DEF HasBond
<1>8. ASSUME OnlyBond(q, f) PROVE OnlyBond(r, f) /\ (IsBond(op, f) => ~HasBond(r, f))
  <2>1. ASSUME NEW i \in DOMAIN r, NEW j \in DOMAIN r, IsBond(r[i], f), IsBond(r[j], f)
        PROVE  i = j
    <3>1. i + 1 = j + 1
      BY <1>1, <1>2, <1>8, <2>1 DEF OnlyBond
    <3> QED  BY <1>2, <3>1
  <2>2. ASSUME IsBond(op, f), NEW i \in DOMAIN r, IsBond(r[i], f) PROVE FALSE
    BY <1>1, <1>2, <1>8, <2>2 DEF OnlyBond
  <2> QED  BY <2>1, <2>2 DEF OnlyBond, HasBond
<1>9. Field(op) # f => Alike(q, r, f)
  BY <1>3, <1>4, <1>6, <1>7, <1>8 DEF Alike, IsBond
<1> QED  BY <1>3, <1>4, <1>5, <1>6, <1>7, <1>8, <1>9 DEF r, op

-----------------------------------------------------------------------------
(* Agreement: the inductive invariant behind HalvesAgree.                  *)

(* What is on its way to half g about f.                                   *)
Near(g, f) == own[g][KindOf(f)]
Far(g, f) == path[Other(g)][KindOf(f)]
Owes(h, to, f) == \E i \in DOMAIN todo[h] : Field(todo[h][i].op) = f /\ todo[h][i].to = to
Promised(g, f) == Owes(g, "own", f) \/ Owes(Other(g), "other", f)

(* All of it comes from one half: two halves at one field would overtake   *)
(* each other.                                                             *)
FromOne(f) ==
    \E h \in Halves :
        /\ \A g \in Halves : (\E i \in DOMAIN todo[g] : Field(todo[g][i].op) = f) => g = h
        /\ \A g \in Halves : Has(path[g][KindOf(f)], f) => g = h
        /\ \A g \in Halves : AllFrom(own[g][KindOf(f)], f, h)

(* What is still to be sent is what was last asked for.                    *)
Current(f) ==
    \A h \in Halves : \A i \in DOMAIN todo[h] :
        Field(todo[h][i].op) = f => Value(todo[h][i].op) = intended[f]

(* The last operation on its way to half g, or what g has if there is      *)
(* none, is what was last asked for, or else that is still to be sent.     *)
Reaches(g, f) ==
    \/ Promised(g, f)
    \/ Has(Far(g, f), f) /\ Latest(Far(g, f), f, intended[f])
    \/ ~Has(Far(g, f), f) /\ Has(Near(g, f), f) /\ Latest(Near(g, f), f, intended[f])
    \/ ~Has(Far(g, f), f) /\ ~Has(Near(g, f), f) /\ applied[g][f] = intended[f]

(* At most one bond for a slot is on its way to g, and only while the slot *)
(* is free there.                                                          *)
OneBond(g, s) ==
    /\ OnlyBond(Near(g, s), s) /\ OnlyBond(Far(g, s), s)
    /\ ~(HasBond(Near(g, s), s) /\ HasBond(Far(g, s), s))
    /\ HasBond(Near(g, s), s) \/ HasBond(Far(g, s), s) => applied[g][s] = "free"

Sure(f) ==
    /\ FromOne(f) /\ Current(f)
    /\ \A g \in Halves : Reaches(g, f)
    /\ f \in BondSlots => \A g \in Halves : OneBond(g, f)

(* The settings last sent are those of a half.                             *)
Stored == \E h \in Halves : intended["board"] = data[h]

AInv == (\A f \in Fields \ unsure : Sure(f)) /\ Stored

(* Nothing happens to f.                                                   *)
Untouched(f) ==
    /\ \A h \in Halves : /\ Alike(own[h][KindOf(f)], own'[h][KindOf(f)], f)
                         /\ Alike(path[h][KindOf(f)], path'[h][KindOf(f)], f)
                         /\ applied'[h][f] = applied[h][f]
    /\ \A h \in Halves : /\ \A to \in {"own", "other"} : Owes(h, to, f)' <=> Owes(h, to, f)
                         /\ \A i \in DOMAIN todo'[h] : Field(todo'[h][i].op) = f =>
                               \E j \in DOMAIN todo[h] : todo[h][j].op = todo'[h][i].op
    /\ intended'[f] = intended[f]

(* What is not touched stays sure.                                         *)
LEMMA UntouchedIsSure ==
    ASSUME NEW f \in Fields, Sure(f), Untouched(f)
    PROVE  Sure(f)'
<1> DEFINE k == KindOf(f)
<1>1. ASSUME NEW h \in Halves
      PROVE  /\ Has(own[h][k], f)' <=> Has(own[h][k], f)
             /\ Has(path[h][k], f)' <=> Has(path[h][k], f)
             /\ \A v : Latest(own[h][k], f, v) => Latest(own[h][k], f, v)'
             /\ \A v : Latest(path[h][k], f, v) => Latest(path[h][k], f, v)'
             /\ \A g : AllFrom(own[h][k], f, g) => AllFrom(own[h][k], f, g)'
             /\ HasBond(own[h][k], f)' <=> HasBond(own[h][k], f)
             /\ HasBond(path[h][k], f)' <=> HasBond(path[h][k], f)
             /\ OnlyBond(own[h][k], f) => OnlyBond(own[h][k], f)'
             /\ OnlyBond(path[h][k], f) => OnlyBond(path[h][k], f)'
             /\ applied'[h][f] = applied[h][f] /\ intended'[f] = intended[f]
  <2>1. Alike(own[h][k], own'[h][k], f) /\ Alike(path[h][k], path'[h][k], f)
    BY DEF Untouched
  <2> QED  BY <2>1 DEF Untouched, Alike, Has, Latest, AllFrom, HasBond, OnlyBond
<1>2. \A h \in Halves : Other(h) \in Halves
  BY HalvesNames
<1>3. FromOne(f)'
  <2>1. PICK h \in Halves :
          /\ \A g \in Halves : (\E i \in DOMAIN todo[g] : Field(todo[g][i].op) = f) => g = h
          /\ \A g \in Halves : Has(path[g][k], f) => g = h
          /\ \A g \in Halves : AllFrom(own[g][k], f, h)
    BY DEF FromOne, Sure
  <2>2. \A g \in Halves : (\E i \in DOMAIN todo'[g] : Field(todo'[g][i].op) = f) => g = h
    BY <2>1 DEF Untouched
  <2>3. \A g \in Halves : Has(path[g][k], f)' => g = h
    BY <1>1, <2>1
  <2>4. \A g \in Halves : AllFrom(own[g][k], f, h)'
    BY <1>1, <2>1
  <2> QED  BY <2>2, <2>3, <2>4 DEF FromOne
<1>4. Current(f)'
  BY DEF Current, Untouched, Sure
<1>5. ASSUME NEW g \in Halves PROVE Reaches(g, f)'
  <2>1. Promised(g, f)' <=> Promised(g, f)
    BY <1>2 DEF Promised, Untouched
  <2> QED  BY <1>1, <1>2, <2>1 DEF Reaches, Near, Far, Sure
<1>6. ASSUME f \in BondSlots, NEW g \in Halves PROVE OneBond(g, f)'
  BY <1>1, <1>2, <1>6 DEF OneBond, Near, Far, Sure
<1> QED  BY <1>3, <1>4, <1>5, <1>6 DEF Sure

(* What is in a channel or still to be sent is among all operations.       *)
LEMMA AllOpsHold ==
    ASSUME NEW h \in Halves
    PROVE  /\ \A k \in Kinds : \A i \in DOMAIN own[h][k] : own[h][k][i] \in AllOps
           /\ \A k \in Kinds : \A i \in DOMAIN path[h][k] : path[h][k][i] \in AllOps
           /\ \A i \in DOMAIN todo[h] : todo[h][i].op \in AllOps /\ todo[h][i].op \in Waiting(h)
<1>1. ASSUME NEW k \in Kinds, NEW i \in DOMAIN own[h][k] PROVE own[h][k][i] \in AllOps
  <2>1. own[h][k] \in Queues
    BY DEF Queues
  <2>2. own[h][k][i] \in ToSet(own[h][k])
    BY DEF ToSet
  <2> QED  BY <2>1, <2>2 DEF AllOps, InTransit
<1>2. ASSUME NEW k \in Kinds, NEW i \in DOMAIN path[h][k] PROVE path[h][k][i] \in AllOps
  <2>1. path[h][k] \in Queues
    BY DEF Queues
  <2>2. path[h][k][i] \in ToSet(path[h][k])
    BY DEF ToSet
  <2> QED  BY <2>1, <2>2 DEF AllOps, InTransit
<1>3. ASSUME NEW i \in DOMAIN todo[h]
      PROVE  todo[h][i].op \in AllOps /\ todo[h][i].op \in Waiting(h)
  BY DEF AllOps, Waiting
<1> QED  BY <1>1, <1>2, <1>3

(* Where nothing is pending, nothing is on its way.                        *)
LEMMA NothingPending ==
    ASSUME NEW f \in Fields, ~Pending(f), NEW h \in Halves
    PROVE  /\ ~Has(own[h][KindOf(f)], f) /\ ~Has(path[h][KindOf(f)], f)
           /\ ~HasBond(own[h][KindOf(f)], f) /\ ~HasBond(path[h][KindOf(f)], f)
           /\ \A g : AllFrom(own[h][KindOf(f)], f, g)
           /\ OnlyBond(own[h][KindOf(f)], f) /\ OnlyBond(path[h][KindOf(f)], f)
           /\ \A i \in DOMAIN todo[h] : Field(todo[h][i].op) # f
<1>1. KindOf(f) \in Kinds
  BY FieldNames
<1>2. /\ \A i \in DOMAIN own[h][KindOf(f)] : Field(own[h][KindOf(f)][i]) # f
      /\ \A i \in DOMAIN path[h][KindOf(f)] : Field(path[h][KindOf(f)][i]) # f
      /\ \A i \in DOMAIN todo[h] : Field(todo[h][i].op) # f
  BY <1>1, AllOpsHold DEF Pending
<1> QED  BY <1>2 DEF Has, HasBond, IsBond, AllFrom, OnlyBond

(* The fields of operations in a channel of one half to the other.         *)
LEMMA PathIsFromHalf ==
    ASSUME TInv, NEW f \in Fields, NEW g \in Halves
    PROVE  /\ own[g][KindOf(f)] \in Seq(Ops) /\ path[g][KindOf(f)] \in Seq(Ops)
           /\ \A i \in DOMAIN path[g][KindOf(f)] : From(path[g][KindOf(f)][i]) = g
           /\ \A i \in DOMAIN todo[g] : From(todo[g][i].op) = g
<1>1. KindOf(f) \in Kinds
  BY FieldNames
<1>2. /\ own[g][KindOf(f)] \in Seq(Ops) /\ path[g][KindOf(f)] \in Seq(Ops)
      /\ path[g][KindOf(f)] \in Seq(PathOps(g, KindOf(f)))
      /\ todo[g] \in Seq(SendsOf(g))
  BY <1>1 DEF TInv, Typed, Channels, Sorted
<1>3. \A i \in DOMAIN path[g][KindOf(f)] : path[g][KindOf(f)][i] \in PathOps(g, KindOf(f))
  BY <1>2, QueueTypes
<1>4. \A i \in DOMAIN todo[g] : todo[g][i] \in SendsOf(g)
  BY <1>2, QueueTypes
<1> QED  BY <1>1, <1>2, <1>3, <1>4, SortedOps DEF SendsOf

(* Where a half does not cross another one at a field, all there is about  *)
(* it comes from that half and is on its way.                              *)
LEMMA NotCrossed ==
    ASSUME TInv, NEW f \in Fields, NEW h \in Halves, ~Crossed(h, f)
    PROVE  \A g \in Halves :
              /\ AllFrom(own[g][KindOf(f)], f, h)
              /\ Has(path[g][KindOf(f)], f) => g = h
              /\ \A i \in DOMAIN todo[g] : Field(todo[g][i].op) # f
<1> SUFFICES ASSUME NEW g \in Halves
             PROVE  /\ AllFrom(own[g][KindOf(f)], f, h)
                    /\ Has(path[g][KindOf(f)], f) => g = h
                    /\ \A i \in DOMAIN todo[g] : Field(todo[g][i].op) # f
  OBVIOUS
<1>1. KindOf(f) \in Kinds
  BY FieldNames
<1>2. \A op \in AllOps : Field(op) = f => From(op) = h /\ op \notin Waiting(h)
  BY DEF Crossed
<1>3. AllFrom(own[g][KindOf(f)], f, h)
  BY <1>1, <1>2, AllOpsHold DEF AllFrom
<1>4. Has(path[g][KindOf(f)], f) => g = h
  BY <1>1, <1>2, AllOpsHold, PathIsFromHalf DEF Has
<1>5. ASSUME NEW i \in DOMAIN todo[g], Field(todo[g][i].op) = f PROVE FALSE
  <2>1. From(todo[g][i].op) = h /\ From(todo[g][i].op) = g /\ todo[g][i].op \notin Waiting(h)
    BY <1>2, <1>5, AllOpsHold, PathIsFromHalf
  <2> QED  BY <2>1, AllOpsHold
<1> QED  BY <1>3, <1>4, <1>5

(* A handler begins to send: both halves are promised the value.           *)
LEMMA SendAgrees ==
    ASSUME TInv, AInv, NEW h \in Halves, NEW sends, ForBoth(h, sends), Send(h, sends),
           todo[h] = <<>>,
           \A g \in Halves, f \in Fields : own'[g][KindOf(f)] = own[g][KindOf(f)],
           UNCHANGED <<path, applied>>
    PROVE  \A f \in Fields \ unsure' : Sure(f)'
<1> SUFFICES ASSUME NEW f \in Fields, f \notin unsure' PROVE Sure(f)'
  OBVIOUS
<1> DEFINE k == KindOf(f)
<1>1. /\ todo'[h] = sends
      /\ \A g \in Halves : g # h => todo'[g] = todo[g]
      /\ \A i \in DOMAIN sends : Field(sends[i].op) = f => intended'[f] = Value(sends[i].op)
      /\ (\A i \in DOMAIN sends : Field(sends[i].op) # f) => intended'[f] = intended[f]
  BY SendTypes
<1>2. \A i \in DOMAIN todo[h] : FALSE
  OBVIOUS
<1>3. \A g \in Halves : own'[g][k] = own[g][k] /\ path'[g][k] = path[g][k] /\ applied'[g] = applied[g]
  OBVIOUS
<1>4. CASE \A i \in DOMAIN sends : Field(sends[i].op) # f
  <2>1. f \notin FieldsOf({sends[i].op : i \in DOMAIN sends})
    BY <1>4 DEF FieldsOf
  <2>2. f \notin unsure
    BY <2>1 DEF Send
  <2>3. Sure(f)
    BY <2>2 DEF AInv
  <2>4. ASSUME NEW g \in Halves, NEW i \in DOMAIN todo'[g], Field(todo'[g][i].op) = f
        PROVE  g # h /\ todo'[g] = todo[g]
    BY <1>1, <1>4, <2>4
  <2>5. \A g \in Halves : \A to \in {"own", "other"} : Owes(g, to, f)' <=> Owes(g, to, f)
    BY <1>1, <1>2, <1>4 DEF Owes
  <2>6. Untouched(f)
    BY <1>1, <1>3, <1>4, <2>4, <2>5, AlikeSelf DEF Untouched
  <2> QED  BY <2>3, <2>6, UntouchedIsSure
<1>5. CASE \E i \in DOMAIN sends : Field(sends[i].op) = f
  <2>1. PICK i \in DOMAIN sends : Field(sends[i].op) = f
    BY <1>5
  <2>2. f \in FieldsOf({sends[j].op : j \in DOMAIN sends})
    BY <2>1 DEF FieldsOf
  <2>3. ~Crossed(h, f) /\ (f \in unsure => ~Pending(f))
    BY <2>2 DEF Send
  <2>4. \A g \in Halves : /\ AllFrom(own[g][k], f, h)
                          /\ Has(path[g][k], f) => g = h
                          /\ \A j \in DOMAIN todo[g] : Field(todo[g][j].op) # f
    BY <2>3, NotCrossed
  <2>5. FromOne(f)'
    <3>1. \A g \in Halves : (\E j \in DOMAIN todo'[g] : Field(todo'[g][j].op) = f) => g = h
      BY <1>1, <2>4
    <3>2. \A g \in Halves : Has(path[g][k], f)' => g = h
      BY <1>3, <2>4 DEF Has
    <3>3. \A g \in Halves : AllFrom(own[g][k], f, h)'
      BY <1>3, <2>4 DEF AllFrom
    <3> QED  BY <3>1, <3>2, <3>3 DEF FromOne
  <2>6. Current(f)'
    <3> SUFFICES ASSUME NEW g \in Halves, NEW j \in DOMAIN todo'[g], Field(todo'[g][j].op) = f
                 PROVE  Value(todo'[g][j].op) = intended'[f]
      BY DEF Current
    <3>1. g = h
      BY <1>1, <2>4
    <3> QED  BY <1>1, <3>1
  <2>7. \A to \in {"own", "other"} : Owes(h, to, f)'
    <3> SUFFICES ASSUME NEW to \in {"own", "other"} PROVE Owes(h, to, f)'
      OBVIOUS
    <3>1. PICK j \in DOMAIN sends : sends[j] = [to |-> to, op |-> sends[i].op]
      BY DEF ForBoth
    <3>2. Field(sends[j].op) = f /\ sends[j].to = to
      BY <2>1, <3>1
    <3> QED  BY <1>1, <3>2 DEF Owes
  <2>8. \A g \in Halves : Reaches(g, f)'
    BY <2>7, HalvesNames DEF Reaches, Promised
  <2>9. ASSUME f \in BondSlots, NEW g \in Halves PROVE OneBond(g, f)'
    <3>1. OneBond(g, f)
      <4>1. CASE f \in unsure
        BY <2>3, <4>1, NothingPending, HalvesNames DEF OneBond, Near, Far
      <4>2. CASE f \notin unsure
        BY <2>9, <4>2 DEF AInv, Sure
      <4> QED  BY <4>1, <4>2
    <3>2. Near(g, f)' = Near(g, f) /\ Far(g, f)' = Far(g, f) /\ applied'[g] = applied[g]
      BY <1>3, HalvesNames DEF Near, Far
    <3> QED  BY <3>1, <3>2 DEF OneBond, HasBond, OnlyBond
  <2> QED  BY <2>5, <2>6, <2>8, <2>9 DEF Sure
<1> QED  BY <1>4, <1>5

(* A main task's next send takes the value on its way.                     *)
LEMMA SendNextAgrees ==
    ASSUME TInv, AInv, NEW h \in Halves, SendNext(h)
    PROVE  \A f \in Fields \ unsure' : Sure(f)'
<1> SUFFICES ASSUME NEW f \in Fields, f \notin unsure' PROVE Sure(f)'
  OBVIOUS
<1> DEFINE next == Head(todo[h])
           op == next.op
           k == KindOf(Field(op))
           kf == KindOf(f)
<1>1. /\ todo[h] # <<>>
      /\ own' = IF next.to = "own" THEN [own EXCEPT ![h][k] = Append(@, op)] ELSE own
      /\ path' = IF next.to = "other" THEN [path EXCEPT ![h][k] = Append(@, op)] ELSE path
      /\ todo' = [todo EXCEPT ![h] = Tail(@)]
      /\ UNCHANGED <<applied, intended, unsure>>
  BY DEF SendNext, CanSendNext, ghosts
<1>2. /\ k \in Kinds /\ op \in PathOps(h, k)
      /\ next.to \in {"own", "other"}
      /\ next \in SendsOf(h)
      /\ 1 \in DOMAIN todo[h] /\ todo[h][1] = next
      /\ \A i \in DOMAIN Tail(todo[h]) :
            i + 1 \in DOMAIN todo[h] /\ Tail(todo[h])[i] = todo[h][i + 1]
      /\ \A i \in DOMAIN todo[h] : i # 1 =>
            i - 1 \in DOMAIN Tail(todo[h]) /\ Tail(todo[h])[i - 1] = todo[h][i]
  BY <1>1, NextSend
<1>3. op \in Ops /\ From(op) = h
  BY <1>2, SortedOps
<1>4. kf \in Kinds
  BY FieldNames
<1>5. Sure(f)
  BY <1>1 DEF AInv
<1>6. own \in Channels /\ path \in Channels /\ todo \in [Halves -> Seq(Sends)]
  BY DEF TInv, Typed
<1>7. todo'[h] = Tail(todo[h]) /\ \A g \in Halves : g # h => todo'[g] = todo[g]
  BY <1>1, <1>6
<1>8. ASSUME NEW g \in Halves, NEW i \in DOMAIN todo'[g], Field(todo'[g][i].op) = f
      PROVE  \E j \in DOMAIN todo[g] : todo[g][j] = todo'[g][i]
  <2>1. CASE g = h
    <3>1. i \in DOMAIN Tail(todo[h]) /\ todo'[g][i] = Tail(todo[h])[i]
      BY <1>7, <1>8, <2>1
    <3>2. i + 1 \in DOMAIN todo[g] /\ todo[g][i + 1] = todo'[g][i]
      BY <1>2, <2>1, <3>1
    <3> QED  BY <3>2
  <2>2. CASE g # h
    BY <1>7, <2>2
  <2> QED  BY <2>1, <2>2
<1> DEFINE Same(g, to) == Owes(g, to, f)' <=> Owes(g, to, f)
<1>9. ASSUME NEW g \in Halves, NEW to \in {"own", "other"},
             g # h \/ Field(op) # f \/ next.to # to
      PROVE  Same(g, to)
  <2>1. CASE g # h
    BY <1>7, <2>1 DEF Owes
  <2>2. CASE g = h /\ (Field(op) # f \/ next.to # to)
    <3>1. Owes(h, to, f)' => Owes(h, to, f)
      BY <1>2, <1>7 DEF Owes
    <3>2. ASSUME Owes(h, to, f) PROVE Owes(h, to, f)'
      <4>1. PICK i \in DOMAIN todo[h] : Field(todo[h][i].op) = f /\ todo[h][i].to = to
        BY <3>2 DEF Owes
      <4>2. i # 1
        BY <1>2, <2>2, <4>1
      <4> QED  BY <1>2, <1>7, <4>1, <4>2 DEF Owes
    <3> QED  BY <2>2, <3>1, <3>2
  <2> QED  BY <1>9, <2>1, <2>2
<1> HIDE DEF Same
<1>10. \A g \in Halves, j \in Kinds :
          /\ own'[g][j] = IF g = h /\ j = k /\ next.to = "own"
                          THEN Append(own[g][j], op) ELSE own[g][j]
          /\ path'[g][j] = IF g = h /\ j = k /\ next.to = "other"
                           THEN Append(path[g][j], op) ELSE path[g][j]
  BY <1>1, <1>2, <1>6 DEF Channels
<1>11. \A g \in Halves, j \in Kinds : own[g][j] \in Seq(Ops) /\ path[g][j] \in Seq(Ops)
  BY <1>6 DEF Channels
<1>12. CASE Field(op) # f
  <2>1. \A g \in Halves : Alike(own[g][kf], own'[g][kf], f) /\ Alike(path[g][kf], path'[g][kf], f)
    BY <1>3, <1>4, <1>10, <1>11, <1>12, AlikeSelf, Appended
  <2>2. \A g \in Halves : \A to \in {"own", "other"} : Owes(g, to, f)' <=> Owes(g, to, f)
    BY <1>9, <1>12 DEF Same
  <2>3. Untouched(f)
    BY <1>1, <1>8, <2>1, <2>2 DEF Untouched
  <2> QED  BY <1>5, <2>3, UntouchedIsSure
<1>13. CASE Field(op) = f
  <2>1. Value(op) = intended[f]
    BY <1>2, <1>5, <1>13 DEF Sure, Current
  <2>2. /\ \A g \in Halves : (\E i \in DOMAIN todo[g] : Field(todo[g][i].op) = f) => g = h
        /\ \A g \in Halves : Has(path[g][kf], f) => g = h
        /\ \A g \in Halves : AllFrom(own[g][kf], f, h)
    <3>1. PICK src \in Halves :
            /\ \A g \in Halves : (\E i \in DOMAIN todo[g] : Field(todo[g][i].op) = f) => g = src
            /\ \A g \in Halves : Has(path[g][kf], f) => g = src
            /\ \A g \in Halves : AllFrom(own[g][kf], f, src)
      BY <1>5 DEF Sure, FromOne
    <3>2. src = h
      BY <1>2, <1>13, <3>1
    <3> QED  BY <3>1, <3>2
  <2>3. f \in BondSlots => ~IsBond(op, f)
    BY <1>2, <1>13 DEF SendsOf, IsBond
  <2>4. /\ \A g \in Halves : g # h => own'[g][kf] = own[g][kf] /\ path'[g][kf] = path[g][kf]
        /\ own'[h][kf] = IF next.to = "own" THEN Append(own[h][kf], op) ELSE own[h][kf]
        /\ path'[h][kf] = IF next.to = "other" THEN Append(path[h][kf], op) ELSE path[h][kf]
    BY <1>4, <1>10, <1>13
  <2>5. FromOne(f)'
    <3>1. \A g \in Halves : (\E i \in DOMAIN todo'[g] : Field(todo'[g][i].op) = f) => g = h
      BY <1>8, <2>2
    <3>2. \A g \in Halves : Has(path[g][kf], f)' => g = h
      BY <2>2, <2>4 DEF Has
    <3>3. AllFrom(Append(own[h][kf], op), f, h)
      BY <1>3, <1>4, <1>11, <2>2, Appended
    <3>4. \A g \in Halves : AllFrom(own'[g][kf], f, h)
      BY <2>2, <2>4, <3>3
    <3>5. \A g \in Halves : AllFrom(own[g][kf], f, h)'
      BY <3>4 DEF AllFrom
    <3> QED  BY <3>1, <3>2, <3>5 DEF FromOne
  <2>6. Current(f)'
    BY <1>1, <1>5, <1>8 DEF Sure, Current
  <2>7. ASSUME NEW g \in Halves PROVE Reaches(g, f)'
    <3>1. CASE g = h /\ next.to = "own"
      <4>1. ~Has(path'[Other(g)][kf], f)
        BY <2>2, <2>4, <3>1, HalvesNames
      <4>2. Has(own'[g][kf], f) /\ Latest(own'[g][kf], f, intended'[f])
        <5>1. own'[g][kf] = Append(own[h][kf], op) /\ own[h][kf] \in Seq(Ops)
          BY <1>4, <1>11, <2>4, <3>1
        <5>2. /\ Has(Append(own[h][kf], op), f)
              /\ Latest(Append(own[h][kf], op), f, Value(op))
          BY <1>3, <1>13, <5>1, Appended
        <5> QED  BY <1>1, <2>1, <5>1, <5>2
      <4> QED  BY <4>1, <4>2 DEF Reaches, Near, Far, Has, Latest
    <3>2. CASE Other(g) = h /\ next.to = "other"
      <4>1. Has(path'[Other(g)][kf], f) /\ Latest(path'[Other(g)][kf], f, intended'[f])
        BY <1>1, <1>3, <1>4, <1>11, <1>13, <2>1, <2>4, <3>2, Appended
      <4> QED  BY <4>1 DEF Reaches, Far, Has, Latest
    <3>3. CASE ~(g = h /\ next.to = "own") /\ ~(Other(g) = h /\ next.to = "other")
      <4>1. Same(g, "own") /\ Same(Other(g), "other")
        BY <1>2, <1>9, <3>3, HalvesNames
      <4>2. Promised(g, f)' <=> Promised(g, f)
        BY <4>1 DEF Promised, Same
      <4>3. own'[g][kf] = own[g][kf] /\ path'[Other(g)][kf] = path[Other(g)][kf]
        BY <2>4, <3>3, HalvesNames
      <4>4. Near(g, f)' = Near(g, f) /\ Far(g, f)' = Far(g, f)
        BY <4>3 DEF Near, Far
      <4>5. Reaches(g, f)
        BY <1>5 DEF Sure
      <4> QED  BY <1>1, <4>2, <4>4, <4>5 DEF Reaches, Has, Latest
    <3> QED  BY <3>1, <3>2, <3>3
  <2>8. ASSUME f \in BondSlots, NEW g \in Halves PROVE OneBond(g, f)'
    <3>1. \A q \in Seq(Ops) : /\ HasBond(Append(q, op), f) <=> HasBond(q, f)
                              /\ OnlyBond(q, f) => OnlyBond(Append(q, op), f)
      BY <1>3, <2>3, <2>8, Appended
    <3>2. /\ HasBond(own'[g][kf], f) <=> HasBond(own[g][kf], f)
          /\ OnlyBond(own[g][kf], f) => OnlyBond(own'[g][kf], f)
          /\ HasBond(path'[Other(g)][kf], f) <=> HasBond(path[Other(g)][kf], f)
          /\ OnlyBond(path[Other(g)][kf], f) => OnlyBond(path'[Other(g)][kf], f)
      BY <1>4, <1>11, <2>4, <3>1, HalvesNames
    <3>3. OneBond(g, f) /\ applied' = applied
      BY <1>1, <1>5, <2>8 DEF Sure
    <3> QED  BY <3>2, <3>3 DEF OneBond, Near, Far, HasBond, OnlyBond
  <2> QED  BY <2>5, <2>6, <2>7, <2>8 DEF Sure
<1> QED  BY <1>12, <1>13

(* Where the channels, what is to be sent and what is applied stay as they *)
(* are, and the fields in doubt stay in doubt, so does the rest.           *)
LEMMA NothingMoves ==
    ASSUME AInv, UNCHANGED <<own, path, todo, applied, intended>>, unsure \subseteq unsure'
    PROVE  \A f \in Fields \ unsure' : Sure(f)'
<1> SUFFICES ASSUME NEW f \in Fields, f \notin unsure' PROVE Sure(f)'
  OBVIOUS
<1>1. Sure(f)
  BY DEF AInv
<1>2. Untouched(f)
  BY AlikeSelf DEF Untouched, Owes
<1> QED  BY <1>1, <1>2, UntouchedIsSure

(* A handler that is dropped leaves what it had to send in doubt.          *)
LEMMA CancelAgrees ==
    ASSUME TInv, AInv, Cancel
    PROVE  \A f \in Fields \ unsure' : Sure(f)'
<1> SUFFICES ASSUME NEW f \in Fields, f \notin unsure' PROVE Sure(f)'
  OBVIOUS
<1>1. /\ todo' = [todo EXCEPT ![master] = <<>>]
      /\ unsure' = unsure \cup FieldsOf(Waiting(master))
      /\ UNCHANGED <<own, path, applied, intended>>
  BY DEF Cancel
<1>2. master \in Halves /\ todo \in [Halves -> Seq(Sends)]
  BY DEF TInv, Typed
<1>3. Sure(f)
  BY <1>1 DEF AInv
<1>4. \A i \in DOMAIN todo[master] : Field(todo[master][i].op) # f
  BY <1>1, <1>2, AllOpsHold DEF FieldsOf
<1>5. todo'[master] = <<>> /\ \A g \in Halves : g # master => todo'[g] = todo[g]
  BY <1>1, <1>2
<1>6. \A g \in Halves : \A to \in {"own", "other"} : Owes(g, to, f)' <=> Owes(g, to, f)
  BY <1>4, <1>5 DEF Owes
<1>7. \A g \in Halves : \A i \in DOMAIN todo'[g] : todo'[g] = todo[g]
  BY <1>5
<1>8. Untouched(f)
  BY <1>1, <1>6, <1>7, AlikeSelf DEF Untouched
<1> QED  BY <1>3, <1>8, UntouchedIsSure

(* A bond goes to both halves, or its slot is in doubt.                    *)
LEMMA BondedAgrees ==
    ASSUME TInv, AInv, NEW p \in Peers, Bonded(p)
    PROVE  \A f \in Fields \ unsure' : Sure(f)'
<1> SUFFICES ASSUME NEW f \in Fields, f \notin unsure' PROVE Sure(f)'
  OBVIOUS
<1> DEFINE s == Slot(master)
           op == Op(master, s, p)
           kf == KindOf(f)
<1>1. master \in Halves /\ s \in BondSlots /\ applied[master][s] = "free" /\ "flash" \in Kinds
  BY SlotIsFree, FieldNames DEF Bonded, TInv, Typed
<1>2. /\ own' = IF RoomInOwn(master, "flash")
                THEN [own EXCEPT ![master]["flash"] = Append(@, op)] ELSE own
      /\ path' = IF RoomInPath(master, "flash")
                 THEN [path EXCEPT ![master]["flash"] = Append(@, op)] ELSE path
      /\ intended' = [intended EXCEPT ![s] = p]
      /\ unsure' = IF Pending(s) \/ ~RoomInOwn(master, "flash") \/ ~RoomInPath(master, "flash")
                   THEN unsure \cup {s} ELSE unsure
      /\ UNCHANGED <<todo, applied>>
  BY DEF Bonded
<1>3. op \in Ops /\ Field(op) = s /\ Value(op) = p /\ From(op) = master
  BY <1>1, OpTypes, FieldNames, FieldValues
<1> HIDE DEF s, op
<1>4. own \in Channels /\ path \in Channels /\ intended \in Contents
  BY DEF TInv, Typed
<1>5. /\ kf \in Kinds /\ (f = s => kf = "flash")
      /\ \A g \in Halves : own[g][kf] \in Seq(Ops) /\ path[g][kf] \in Seq(Ops)
  BY <1>1, <1>4, FieldNames DEF Channels
<1>6. Sure(f)
  BY <1>2 DEF AInv
<1>7. \A g \in Halves, j \in Kinds :
        /\ own'[g][j] = IF g = master /\ j = "flash" /\ RoomInOwn(master, "flash")
                        THEN Append(own[g][j], op) ELSE own[g][j]
        /\ path'[g][j] = IF g = master /\ j = "flash" /\ RoomInPath(master, "flash")
                         THEN Append(path[g][j], op) ELSE path[g][j]
  BY <1>1, <1>2, <1>4 DEF Channels
<1>8. CASE f # s
  <2>1. \A g \in Halves : Alike(own[g][kf], own'[g][kf], f) /\ Alike(path[g][kf], path'[g][kf], f)
    BY <1>3, <1>5, <1>7, <1>8, AlikeSelf, Appended
  <2>2. intended'[f] = intended[f]
    BY <1>2, <1>4, <1>8 DEF Contents
  <2>3. Untouched(f)
    BY <1>2, <2>1, <2>2 DEF Untouched, Owes
  <2> QED  BY <1>6, <2>3, UntouchedIsSure
<1>9. CASE f = s
  <2>1. ~Pending(f) /\ RoomInOwn(master, "flash") /\ RoomInPath(master, "flash")
    BY <1>2, <1>9
  <2>2. /\ \A g \in Halves : g # master => own'[g][kf] = own[g][kf] /\ path'[g][kf] = path[g][kf]
        /\ own'[master][kf] = Append(own[master][kf], op)
        /\ path'[master][kf] = Append(path[master][kf], op)
    BY <1>1, <1>5, <1>7, <1>9, <2>1
  <2>3. \A g \in Halves :
          /\ ~Has(own[g][kf], f) /\ ~Has(path[g][kf], f)
          /\ ~HasBond(own[g][kf], f) /\ ~HasBond(path[g][kf], f)
          /\ AllFrom(own[g][kf], f, master)
          /\ OnlyBond(own[g][kf], f) /\ OnlyBond(path[g][kf], f)
          /\ \A i \in DOMAIN todo[g] : Field(todo[g][i].op) # f
    BY <2>1, NothingPending
  <2>4. \A g \in Halves : applied[g][f] = intended[f]
    BY <1>6, <2>3, HalvesNames DEF Sure, Reaches, Promised, Owes, Near, Far
  <2>5. \A g \in Halves : applied'[g][f] = "free"
    BY <1>1, <1>2, <1>9, <2>4
  <2>6. intended'[f] = p
    BY <1>2, <1>4, <1>9 DEF Contents
  <2>7. \A q \in Seq(Ops) : /\ Has(Append(q, op), f) /\ Latest(Append(q, op), f, p)
                            /\ AllFrom(q, f, master) => AllFrom(Append(q, op), f, master)
                            /\ ~HasBond(q, f) /\ OnlyBond(q, f) => OnlyBond(Append(q, op), f)
    BY <1>3, <1>9, Appended
  <2>8. FromOne(f)'
    <3>1. \A g \in Halves : (\E i \in DOMAIN todo'[g] : Field(todo'[g][i].op) = f) => g = master
      BY <1>2, <2>3
    <3>2. \A g \in Halves : Has(path'[g][kf], f) => g = master
      BY <2>2, <2>3
    <3>3. \A g \in Halves : AllFrom(own'[g][kf], f, master)
      BY <1>5, <2>2, <2>3, <2>7
    <3> QED  BY <1>1, <3>1, <3>2, <3>3 DEF FromOne, Has, AllFrom
  <2>9. Current(f)'
    BY <1>2, <2>3 DEF Current
  <2>10. ASSUME NEW g \in Halves PROVE Reaches(g, f)'
    <3>1. CASE g = master
      <4>1. ~Has(path'[Other(g)][kf], f)
        BY <2>2, <2>3, <3>1, HalvesNames
      <4>2. Has(own'[g][kf], f) /\ Latest(own'[g][kf], f, intended'[f])
        BY <1>5, <2>2, <2>6, <2>7, <3>1
      <4> QED  BY <4>1, <4>2 DEF Reaches, Near, Far, Has, Latest
    <3>2. CASE g # master
      <4>1. Other(g) = master
        BY <1>1, <3>2, HalvesNames
      <4>2. Has(path'[Other(g)][kf], f) /\ Latest(path'[Other(g)][kf], f, intended'[f])
        <5>1. /\ path'[Other(g)][kf] = Append(path[master][kf], op)
              /\ path[master][kf] \in Seq(Ops)
          BY <1>1, <1>5, <2>2, <4>1
        <5> QED  BY <2>6, <2>7, <5>1
      <4> QED  BY <4>2 DEF Reaches, Far, Has, Latest
    <3> QED  BY <3>1, <3>2
  <2>11. ASSUME NEW g \in Halves PROVE OneBond(g, f)'
    <3>1. /\ OnlyBond(own'[g][kf], f) /\ OnlyBond(path'[Other(g)][kf], f)
      BY <1>5, <2>2, <2>3, <2>7, HalvesNames
    <3>2. ~HasBond(own'[g][kf], f) \/ ~HasBond(path'[Other(g)][kf], f)
      BY <2>2, <2>3, HalvesNames
    <3> QED  BY <2>5, <3>1, <3>2 DEF OneBond, Near, Far, HasBond, OnlyBond
  <2> QED  BY <2>8, <2>9, <2>10, <2>11 DEF Sure
<1> QED  BY <1>8, <1>9

(* What a task applies is what was on its way.                             *)
LEMMA ReceiveAgrees ==
    ASSUME TInv, AInv, NEW h \in Halves, NEW k \in Kinds, Receive(h, k)
    PROVE  \A f \in Fields \ unsure' : Sure(f)'
<1> SUFFICES ASSUME NEW f \in Fields, f \notin unsure' PROVE Sure(f)'
  OBVIOUS
<1> DEFINE op == Head(own[h][k])
           kf == KindOf(f)
<1>1. /\ own[h][k] # <<>> /\ k # "event"
      /\ applied' = [applied EXCEPT ![h][Field(op)] = Value(op)]
      /\ own' = [own EXCEPT ![h][k] = Tail(@)]
      /\ UNCHANGED <<path, todo, intended, unsure>>
  BY DEF Receive, CanReceive, ghosts
<1>2. /\ own'[h][k] = Tail(own[h][k])
      /\ \A g \in Halves, j \in Kinds : g # h \/ j # k => own'[g][j] = own[g][j]
      /\ op \in KindOps(k)
  BY <1>1, TailKeepsOwn
<1>3. KindOf(Field(op)) = k /\ op \in Ops /\ Field(op) \in Fields
  BY <1>1, <1>2, SortedOps, OpTypes
<1>4. own[h][k] \in Seq(Ops) /\ applied \in [Halves -> Contents] /\ kf \in Kinds
  BY FieldNames DEF TInv, Typed, Channels
<1>5. Sure(f)
  BY <1>1 DEF AInv
<1> HIDE DEF op
<1>6. applied'[h][Field(op)] = Value(op)
      /\ \A g \in Halves : g # h \/ f # Field(op) => applied'[g][f] = applied[g][f]
  BY <1>1, <1>3, <1>4 DEF Contents
<1>7. CASE Field(op) # f
  <2>1. \A g \in Halves : Alike(own[g][kf], own'[g][kf], f)
    <3>1. Alike(own[h][k], own'[h][k], f)
      BY <1>1, <1>2, <1>4, <1>7, Taken DEF op
    <3> QED  BY <1>2, <1>4, <3>1, AlikeSelf
  <2>2. Untouched(f)
    BY <1>1, <1>6, <1>7, <2>1, AlikeSelf DEF Untouched, Owes
  <2> QED  BY <1>5, <2>2, UntouchedIsSure
<1>8. CASE Field(op) = f
  <2> DEFINE q == own[h][kf]
             r == own'[h][kf]
  <2>1. /\ q \in Seq(Ops) /\ q # <<>> /\ op = Head(q) /\ r = Tail(q)
        /\ \A g \in Halves : g # h => own'[g][kf] = own[g][kf]
    BY <1>1, <1>2, <1>3, <1>4, <1>8 DEF op
  <2> HIDE DEF q, r
  <2>2. /\ Has(q, f)
        /\ \A v : Latest(q, f, v) => Latest(r, f, v)
        /\ \A v : Latest(q, f, v) /\ ~Has(r, f) => Value(op) = v
        /\ \A g : AllFrom(q, f, g) => AllFrom(r, f, g)
        /\ HasBond(q, f) <=> HasBond(r, f) \/ IsBond(op, f)
        /\ OnlyBond(q, f) => OnlyBond(r, f) /\ (IsBond(op, f) => ~HasBond(r, f))
    BY <1>8, <2>1, Taken
  <2>3. FromOne(f)'
    <3>1. PICK src \in Halves :
            /\ \A g \in Halves : (\E i \in DOMAIN todo[g] : Field(todo[g][i].op) = f) => g = src
            /\ \A g \in Halves : Has(path[g][kf], f) => g = src
            /\ \A g \in Halves : AllFrom(own[g][kf], f, src)
      BY <1>5 DEF Sure, FromOne
    <3>2. \A g \in Halves : AllFrom(own'[g][kf], f, src)
      BY <2>1, <2>2, <3>1 DEF q, r
    <3> QED  BY <1>1, <3>1, <3>2 DEF FromOne, Has, AllFrom
  <2>4. Current(f)'
    BY <1>1, <1>5 DEF Sure, Current
  <2>5. ASSUME NEW g \in Halves PROVE Reaches(g, f)'
    <3>1. Reaches(g, f) /\ (Promised(g, f)' <=> Promised(g, f)) /\ Far(g, f)' = Far(g, f)
      BY <1>1, <1>5 DEF Sure, Promised, Owes, Far
    <3>2. CASE g # h
      <4>1. Near(g, f)' = Near(g, f) /\ applied'[g][f] = applied[g][f]
        BY <1>6, <2>1, <3>2 DEF Near
      <4> QED  BY <1>1, <3>1, <4>1 DEF Reaches, Has, Latest
    <3>3. CASE g = h
      <4>1. Near(g, f) = q /\ Near(g, f)' = r
        BY <3>3 DEF Near, q, r
      <4>2. CASE Promised(g, f) \/ Has(Far(g, f), f)
        BY <1>1, <3>1, <4>2 DEF Reaches, Has, Latest
      <4>3. CASE ~Promised(g, f) /\ ~Has(Far(g, f), f)
        <5>1. Latest(q, f, intended[f])
          BY <2>2, <3>1, <4>1, <4>3 DEF Reaches
        <5>2. CASE Has(r, f)
          BY <1>1, <2>2, <3>1, <4>1, <4>3, <5>1, <5>2 DEF Reaches, Has, Latest
        <5>3. CASE ~Has(r, f)
          <6>1. applied'[g][f] = intended'[f]
            BY <1>1, <1>6, <1>8, <2>2, <3>3, <5>1, <5>3
          <6> QED  BY <3>1, <4>1, <4>3, <5>3, <6>1 DEF Reaches, Has
        <5> QED  BY <5>2, <5>3
      <4> QED  BY <4>2, <4>3
    <3> QED  BY <3>2, <3>3
  <2>6. ASSUME f \in BondSlots, NEW g \in Halves PROVE OneBond(g, f)'
    <3>1. OneBond(g, f) /\ Far(g, f)' = Far(g, f)
      BY <1>1, <1>5, <2>6 DEF Sure, Far
    <3>2. CASE g # h
      <4>1. Near(g, f)' = Near(g, f) /\ applied'[g][f] = applied[g][f]
        BY <1>6, <2>1, <3>2 DEF Near
      <4> QED  BY <3>1, <4>1 DEF OneBond, HasBond, OnlyBond
    <3>3. CASE g = h
      <4>1. Near(g, f) = q /\ Near(g, f)' = r
        BY <3>3 DEF Near, q, r
      <4>2. CASE IsBond(op, f)
        <5>1. ~HasBond(r, f) /\ OnlyBond(r, f) /\ ~HasBond(Far(g, f), f) /\ OnlyBond(Far(g, f), f)
          BY <2>2, <3>1, <4>1, <4>2 DEF OneBond
        <5> QED  BY <3>1, <4>1, <5>1 DEF OneBond, HasBond, OnlyBond
      <4>3. CASE ~IsBond(op, f)
        <5>1. applied'[g][f] = "free"
          BY <1>6, <1>8, <3>3, <4>3 DEF IsBond
        <5>2. /\ OnlyBond(r, f) /\ OnlyBond(Far(g, f), f)
              /\ ~(HasBond(r, f) /\ HasBond(Far(g, f), f))
          BY <2>2, <3>1, <4>1, <4>3 DEF OneBond
        <5> QED  BY <3>1, <4>1, <5>1, <5>2 DEF OneBond, HasBond, OnlyBond
      <4> QED  BY <4>2, <4>3
    <3> QED  BY <3>2, <3>3
  <2> QED  BY <2>3, <2>4, <2>5, <2>6 DEF Sure
<1> QED  BY <1>7, <1>8

(* An operation that is delivered stays on its way.                        *)
LEMMA DeliverAgrees ==
    ASSUME TInv, AInv, NEW h \in Halves, Deliver(h)
    PROVE  \A f \in Fields \ unsure' : Sure(f)'
<1> SUFFICES ASSUME NEW f \in Fields, f \notin unsure' PROVE Sure(f)'
  OBVIOUS
<1> DEFINE k == writing[h]
           op == Head(path[h][k])
           o == Other(h)
           kf == KindOf(f)
<1>1. /\ k \in Kinds /\ path[h][k] # <<>>
      /\ path' = [path EXCEPT ![h][k] = Tail(@)]
      /\ \/ /\ RoomInOwn(o, k)
            /\ own' = [own EXCEPT ![o][k] = Append(@, op)]
            /\ UNCHANGED unsure
         \/ /\ unsure' = unsure \cup FieldsOf({op})
            /\ UNCHANGED own
      /\ UNCHANGED <<todo, applied, intended>>
  BY DEF Deliver, CanDeliver, Writes, TInv
<1> HIDE DEF k
<1>2. /\ path'[h][k] = Tail(path[h][k]) /\ op \in PathOps(h, k)
      /\ \A g \in Halves, j \in Kinds : g # h \/ j # k => path'[g][j] = path[g][j]
  BY <1>1, TailKeepsPath
<1>3. op \in KindOps(k) /\ op \in Ops /\ KindOf(Field(op)) = k /\ From(op) = h
  BY <1>1, <1>2, SortedOps
<1>4. o \in Halves /\ o # h /\ Other(o) = h /\ \A g \in Halves : g = h \/ g = o
  BY HalvesNames
<1> HIDE DEF o
<1>5. own \in Channels /\ path \in Channels /\ kf \in Kinds
  BY FieldNames DEF TInv, Typed
<1>6. \A g \in Halves, j \in Kinds : own[g][j] \in Seq(Ops) /\ path[g][j] \in Seq(Ops)
  BY <1>5 DEF Channels
<1>7. Sure(f)
  BY <1>1 DEF AInv
<1>8. Alike(path[h][k], path'[h][k], f) \/ Field(op) = f
  BY <1>1, <1>2, <1>4, <1>6, Taken
<1>9. \A q \in Seq(Ops) :
        /\ Field(op) # f => Alike(q, Append(q, op), f)
        /\ Field(op) = f => /\ Has(Append(q, op), f) /\ Latest(Append(q, op), f, Value(op))
                            /\ AllFrom(q, f, h) => AllFrom(Append(q, op), f, h)
                            /\ HasBond(Append(q, op), f) <=> HasBond(q, f) \/ IsBond(op, f)
                            /\ OnlyBond(q, f) /\ (~IsBond(op, f) \/ ~HasBond(q, f)) =>
                                  OnlyBond(Append(q, op), f)
  BY <1>3, Appended
<1>10. Field(op) = f =>
        /\ Has(path[h][k], f)
        /\ \A v : Latest(path[h][k], f, v) => Latest(path'[h][k], f, v)
        /\ \A v : Latest(path[h][k], f, v) /\ ~Has(path'[h][k], f) => Value(op) = v
        /\ HasBond(path[h][k], f) <=> HasBond(path'[h][k], f) \/ IsBond(op, f)
        /\ OnlyBond(path[h][k], f) =>
              OnlyBond(path'[h][k], f) /\ (IsBond(op, f) => ~HasBond(path'[h][k], f))
  BY <1>1, <1>2, <1>6, Taken
<1> HIDE DEF op
<1>11. CASE Field(op) # f
  <2>1. \A g \in Halves : Alike(path[g][kf], path'[g][kf], f)
    BY <1>2, <1>5, <1>8, <1>11, AlikeSelf
  <2>2. \A g \in Halves : Alike(own[g][kf], own'[g][kf], f)
    <3>1. CASE own' = [own EXCEPT ![o][k] = Append(@, op)]
      <4>1. \A g \in Halves, j \in Kinds :
              own'[g][j] = IF g = o /\ j = k THEN Append(own[g][j], op) ELSE own[g][j]
        BY <1>1, <1>4, <1>5, <3>1 DEF Channels
      <4> QED  BY <1>5, <1>6, <1>9, <1>11, <4>1, AlikeSelf
    <3>2. CASE UNCHANGED own
      BY <3>2, AlikeSelf
    <3> QED  BY <1>1, <3>1, <3>2
  <2>3. Untouched(f)
    BY <1>1, <2>1, <2>2 DEF Untouched, Owes
  <2> QED  BY <1>7, <2>3, UntouchedIsSure
<1>12. CASE Field(op) = f
  <2>1. kf = k
    BY <1>3, <1>12
  <2>2. own' = [own EXCEPT ![o][k] = Append(@, op)]
    <3>1. f \in FieldsOf({op})
      BY <1>12 DEF FieldsOf
    <3> QED  BY <1>1, <3>1
  <2>3. own'[o][k] = Append(own[o][k], op) /\ own'[h][k] = own[h][k] /\ path'[o][k] = path[o][k]
    BY <1>1, <1>2, <1>4, <1>5, <2>2 DEF Channels
  <2>4. PICK src \in Halves :
          /\ \A g \in Halves : (\E i \in DOMAIN todo[g] : Field(todo[g][i].op) = f) => g = src
          /\ \A g \in Halves : Has(path[g][k], f) => g = src
          /\ \A g \in Halves : AllFrom(own[g][k], f, src)
    BY <1>7, <2>1 DEF Sure, FromOne
  <2>5. src = h
    BY <1>10, <1>12, <2>4
  <2>6. ~Has(path[o][k], f)
    BY <1>4, <2>4, <2>5
  <2>7. FromOne(f)'
    <3>1. \A g \in Halves : Has(path'[g][k], f) => g = h
      BY <1>4, <2>3, <2>6
    <3>2. \A g \in Halves : AllFrom(own'[g][k], f, h)
      BY <1>1, <1>4, <1>6, <1>9, <1>12, <2>3, <2>4, <2>5
    <3> QED  BY <1>1, <2>1, <2>4, <2>5, <3>1, <3>2 DEF FromOne, Has, AllFrom
  <2>8. Current(f)'
    BY <1>1, <1>7 DEF Sure, Current
  <2>9. ASSUME NEW g \in Halves PROVE Reaches(g, f)'
    <3>1. Reaches(g, f) /\ (Promised(g, f)' <=> Promised(g, f))
      BY <1>1, <1>7 DEF Sure, Promised, Owes
    <3>2. CASE g = h
      <4>1. Near(g, f)' = Near(g, f) /\ Far(g, f)' = Far(g, f)
        BY <2>1, <2>3, <3>2 DEF Near, Far, o
      <4> QED  BY <1>1, <3>1, <4>1 DEF Reaches, Has, Latest
    <3>3. CASE g = o
      <4>1. /\ Far(g, f) = path[h][k] /\ Far(g, f)' = path'[h][k]
            /\ Near(g, f)' = Append(own[o][k], op)
        BY <1>4, <2>1, <2>3, <3>3 DEF Near, Far
      <4>2. Promised(g, f) \/ Latest(path[h][k], f, intended[f])
        BY <1>10, <1>12, <3>1, <4>1 DEF Reaches
      <4>3. CASE Promised(g, f)
        BY <3>1, <4>3 DEF Reaches
      <4>4. CASE Latest(path[h][k], f, intended[f]) /\ Has(path'[h][k], f)
        <5>1. Has(path'[h][k], f) /\ Latest(path'[h][k], f, intended'[f])
          BY <1>1, <1>10, <1>12, <4>4
        <5>2. Has(Far(g, f), f)' /\ Latest(Far(g, f), f, intended[f])'
          BY <4>1, <5>1 DEF Has, Latest
        <5> QED  BY <5>2 DEF Reaches
      <4>5. CASE Latest(path[h][k], f, intended[f]) /\ ~Has(path'[h][k], f)
        <5>1. Value(op) = intended'[f]
          BY <1>1, <1>10, <1>12, <4>5
        <5>2. /\ Has(Append(own[o][k], op), f)
              /\ Latest(Append(own[o][k], op), f, intended'[f])
          BY <1>1, <1>4, <1>6, <1>9, <1>12, <5>1
        <5>3. ~Has(Far(g, f), f)' /\ Has(Near(g, f), f)' /\ Latest(Near(g, f), f, intended[f])'
          BY <4>1, <4>5, <5>2 DEF Has, Latest
        <5> QED  BY <5>3 DEF Reaches
      <4> QED  BY <4>2, <4>3, <4>4, <4>5
    <3> QED  BY <1>4, <3>2, <3>3
  <2>10. ASSUME f \in BondSlots, NEW g \in Halves PROVE OneBond(g, f)'
    <3>1. OneBond(g, f)
      BY <1>7, <2>10 DEF Sure
    <3>2. CASE g = h
      <4>1. Near(g, f)' = Near(g, f) /\ Far(g, f)' = Far(g, f)
        BY <2>1, <2>3, <3>2 DEF Near, Far, o
      <4> QED  BY <1>1, <3>1, <4>1 DEF OneBond, HasBond, OnlyBond
    <3>3. CASE g = o
      <4>1. /\ Far(g, f) = path[h][k] /\ Far(g, f)' = path'[h][k]
            /\ Near(g, f) = own[o][k] /\ Near(g, f)' = Append(own[o][k], op)
        BY <1>4, <2>1, <2>3, <3>3 DEF Near, Far
      <4>2. own[o][k] \in Seq(Ops)
        BY <1>1, <1>4, <1>6
      <4>3. /\ OnlyBond(own[o][k], f) /\ OnlyBond(path[h][k], f)
            /\ ~(HasBond(own[o][k], f) /\ HasBond(path[h][k], f))
            /\ HasBond(own[o][k], f) \/ HasBond(path[h][k], f) => applied[g][f] = "free"
        BY <3>1, <4>1 DEF OneBond
      <4>4. /\ OnlyBond(Append(own[o][k], op), f) /\ OnlyBond(path'[h][k], f)
            /\ ~(HasBond(Append(own[o][k], op), f) /\ HasBond(path'[h][k], f))
            /\ HasBond(Append(own[o][k], op), f) \/ HasBond(path'[h][k], f) =>
                  applied[g][f] = "free"
        BY <1>9, <1>10, <1>12, <4>2, <4>3
      <4> QED  BY <1>1, <4>1, <4>4 DEF OneBond, HasBond, OnlyBond
    <3> QED  BY <1>4, <3>2, <3>3
  <2> QED  BY <2>7, <2>8, <2>9, <2>10 DEF Sure
<1> QED  BY <1>11, <1>12

(* What is lost with the link is in doubt.                                 *)
LEMMA GiveUpAgrees ==
    ASSUME TInv, AInv, NEW h \in Halves, GiveUp(h), todo[h] = <<>>,
           UNCHANGED <<own, applied, intended>>
    PROVE  \A f \in Fields \ unsure' : Sure(f)'
<1> SUFFICES ASSUME NEW f \in Fields, f \notin unsure' PROVE Sure(f)'
  OBVIOUS
<1> DEFINE kf == KindOf(f)
           op == Op(h, "power", 0)
<1>1. PICK taken \in SUBSET Kinds :
        /\ Held(h, taken)
        /\ path' = [path EXCEPT ![h] = [k \in Kinds |->
                       IF k \in taken THEN Tail(path[h][k]) ELSE path[h][k]]]
        /\ unsure' = unsure \cup FieldsOf({Head(path[h][k]) : k \in taken}) \cup {"power"}
        /\ todo' = [todo EXCEPT ![h] = This(op)]
  BY DEF GiveUp
<1>2. path \in Channels /\ todo \in [Halves -> Seq(Sends)] /\ kf \in Kinds
  BY FieldNames DEF TInv, Typed
<1>3. Sure(f) /\ f # "power"
  BY <1>1 DEF AInv
<1>4. \A g \in Halves : Alike(path[g][kf], path'[g][kf], f)
  <2>1. /\ path'[h][kf] = IF kf \in taken THEN Tail(path[h][kf]) ELSE path[h][kf]
        /\ \A g \in Halves : g # h => path'[g][kf] = path[g][kf]
    BY <1>1, <1>2 DEF Channels
  <2>2. CASE kf \in taken
    <3>1. path[h][kf] # <<>> /\ path[h][kf] \in Seq(Ops)
      BY <1>1, <1>2, <2>2 DEF Held, Channels
    <3>2. Field(Head(path[h][kf])) # f
      BY <1>1, <2>2 DEF FieldsOf
    <3>3. Alike(path[h][kf], Tail(path[h][kf]), f)
      BY <3>1, <3>2, Taken
    <3> QED  BY <2>1, <2>2, <3>3, AlikeSelf
  <2>3. CASE kf \notin taken
    BY <2>1, <2>3, AlikeSelf
  <2> QED  BY <2>2, <2>3
<1>5. todo'[h] = This(op) /\ \A g \in Halves : g # h => todo'[g] = todo[g]
  BY <1>1, <1>2
<1>6. \A i \in DOMAIN This(op) : Field(This(op)[i].op) = "power"
  BY OpTypes DEF This
<1>7. \A g \in Halves : \A i \in DOMAIN todo'[g] : Field(todo'[g][i].op) = f => todo'[g] = todo[g]
  BY <1>3, <1>5, <1>6
<1>8. \A g \in Halves : \A to \in {"own", "other"} : Owes(g, to, f)' <=> Owes(g, to, f)
  <2>1. \A i \in DOMAIN todo[h] : FALSE
    OBVIOUS
  <2> QED  BY <1>3, <1>5, <1>6, <2>1 DEF Owes
<1>9. Untouched(f)
  BY <1>4, <1>7, <1>8, AlikeSelf DEF Untouched
<1> QED  BY <1>3, <1>9, UntouchedIsSure

(* After the halves have found each other, each shows its own.             *)
LEMMA ReconnectAgrees ==
    ASSUME TInv, AInv, Reconnect
    PROVE  \A f \in Fields \ unsure' : Sure(f)'
<1> SUFFICES ASSUME NEW f \in Fields, f \notin unsure' PROVE Sure(f)'
  OBVIOUS
<1>1. /\ \A h \in Halves : todo[h] = <<>>
      /\ todo' = [h \in Halves |-> Restore(h)]
      /\ unsure' = unsure \cup Outputs
      /\ UNCHANGED <<own, path, applied, intended>>
  BY DEF Reconnect
<1>2. Sure(f) /\ f \notin Outputs
  BY <1>1 DEF AInv
<1>3. \A h \in Halves : \A i \in DOMAIN todo[h] : FALSE
  BY <1>1
<1>4. \A h \in Halves : \A i \in DOMAIN todo'[h] : Field(todo'[h][i].op) # f
  BY <1>1, <1>2, RestoreTypes
<1>5. Untouched(f)
  BY <1>1, <1>3, <1>4, AlikeSelf DEF Untouched, Owes
<1> QED  BY <1>2, <1>5, UntouchedIsSure

(* At the start nothing is on its way, and both halves hold the same.      *)
LEMMA InitAgrees == Init => AInv
<1> SUFFICES ASSUME Init PROVE AInv
  OBVIOUS
<1> USE DEF Init
<1>1. \A h \in Halves, k \in Kinds : own[h][k] = <<>> /\ path[h][k] = <<>>
  OBVIOUS
<1>2. \A h \in Halves : todo[h] = <<>> /\ applied[h] = intended
  OBVIOUS
<1>3. ASSUME NEW f \in Fields PROVE Sure(f)
  <2>1. \A g \in Halves : own[g][KindOf(f)] = <<>> /\ path[g][KindOf(f)] = <<>> /\ Other(g) \in Halves
    BY <1>1, FieldNames, HalvesNames
  <2>2. /\ ~Has(<<>>, f) /\ ~HasBond(<<>>, f) /\ OnlyBond(<<>>, f)
        /\ \A g : AllFrom(<<>>, f, g)
    BY DEF Has, HasBond, OnlyBond, AllFrom
  <2>3. \A g \in Halves : \A i \in DOMAIN todo[g] : FALSE
    BY <1>2
  <2>4. FromOne(f)
    BY <2>1, <2>2, <2>3, HalvesNames DEF FromOne, Halves
  <2>5. Current(f)
    BY <2>3 DEF Current
  <2>6. \A g \in Halves : Reaches(g, f)
    BY <1>2, <2>1, <2>2 DEF Reaches, Near, Far
  <2>7. \A g \in Halves : OneBond(g, f)
    BY <2>1, <2>2 DEF OneBond, Near, Far
  <2> QED  BY <2>4, <2>5, <2>6, <2>7 DEF Sure
<1>4. Stored
  <2>1. Erased["board"] = Zero
    BY FieldNames DEF Erased
  <2> QED  BY <2>1 DEF Stored, Halves
<1> QED  BY <1>3, <1>4 DEF AInv

(* What a handler that advances an output last sent is what it has in RAM. *)
LEMMA AdvanceAgrees ==
    ASSUME TInv, AInv, NEW h \in Halves, NEW o \in Outputs, Advance(h, o), Idle(h),
           \A g \in Halves, f \in Fields : own'[g][KindOf(f)] = own[g][KindOf(f)],
           UNCHANGED <<path, applied>>
    PROVE  AInv'
<1>1. PICK sends : /\ ForBoth(h, sends) /\ Send(h, sends)
                   /\ \E i \in DOMAIN sends : sends[i].op = Op(h, "board", data'[h])
  BY AdvanceSends
<1>2. todo[h] = <<>>
  BY DEF Idle
<1>3. \A f \in Fields \ unsure' : Sure(f)'
  BY <1>1, <1>2, SendAgrees
<1>4. Stored'
  <2>1. PICK i \in DOMAIN sends : sends[i].op = Op(h, "board", data'[h])
    BY <1>1
  <2>2. Field(sends[i].op) = "board" /\ Value(sends[i].op) = data'[h]
    BY <2>1, OpTypes
  <2>3. intended'["board"] = data'[h]
    BY <1>1, <2>2, SendTypes, FieldNames
  <2> QED  BY <2>3 DEF Stored
<1> QED  BY <1>3, <1>4 DEF AInv

(* So does every step.                                                     *)
LEMMA StepAgrees == TInv /\ AInv /\ [Next]_vars => AInv'
<1> SUFFICES ASSUME TInv, AInv, [Next]_vars PROVE AInv'
  OBVIOUS
<1>1. master \in Halves
  BY DEF TInv, Typed
<1>2. ASSUME UNCHANGED <<intended, data>> PROVE Stored'
  BY <1>2 DEF AInv, Stored
<1>3. CASE Callback
  <2>1. PICK o \in Outputs : Advance(master, o)
    BY <1>3 DEF Callback
  <2>2. Idle(master) /\ UNCHANGED <<own, path, applied>>
    BY <1>3 DEF Callback
  <2> QED  BY <1>1, <2>1, <2>2, AdvanceAgrees
<1>4. CASE SyncAnimations
  <2> DEFINE sends == Both(Op(master, "sync", 0))
  <2>1. /\ Send(master, sends) /\ todo[master] = <<>>
        /\ UNCHANGED <<own, path, applied, data>>
    BY <1>4 DEF SyncAnimations, Idle
  <2>2. /\ ForBoth(master, sends)
        /\ \A i \in DOMAIN sends : Field(sends[i].op) = "sync"
    <3>1. /\ Op(master, "sync", 0) \in Ops /\ Field(Op(master, "sync", 0)) = "sync"
          /\ MaySend(master, Op(master, "sync", 0))
      BY <1>1, OpTypes, FieldNames DEF MaySend
    <3>2. /\ ForBoth(master, sends)
          /\ \A i \in DOMAIN sends : sends[i].op = Op(master, "sync", 0)
      BY <1>1, <3>1, BothIsForBoth
    <3> QED  BY <3>1, <3>2
  <2> HIDE DEF sends
  <2>3. \A f \in Fields \ unsure' : Sure(f)'
    BY <1>1, <2>1, <2>2, SendAgrees
  <2>4. intended'["board"] = intended["board"]
    BY <1>1, <2>1, <2>2, SendTypes, FieldNames
  <2> QED  BY <2>1, <2>3, <2>4 DEF AInv, Stored
<1>5. ASSUME NEW s \in BondSlots, RemoveBond(s) PROVE AInv'
  <2> DEFINE sends == Both(Op(master, s, "free"))
  <2>1. /\ Send(master, sends) /\ todo[master] = <<>>
        /\ UNCHANGED <<own, path, applied, data>>
    BY <1>5 DEF RemoveBond, Idle
  <2>2. /\ ForBoth(master, sends)
        /\ \A i \in DOMAIN sends : Field(sends[i].op) = s
    BY <1>1, OtherSends
  <2> HIDE DEF sends
  <2>3. \A f \in Fields \ unsure' : Sure(f)'
    BY <1>1, <2>1, <2>2, SendAgrees
  <2>4. intended'["board"] = intended["board"]
    BY <1>1, <2>1, <2>2, SendTypes, FieldNames
  <2> QED  BY <2>1, <2>3, <2>4 DEF AInv, Stored
<1>6. ASSUME NEW p \in Peers, Bonded(p) PROVE AInv'
  <2>1. \A f \in Fields \ unsure' : Sure(f)'
    BY <1>6, BondedAgrees
  <2>2. Slot(master) \in BondSlots
    BY <1>1, <1>6, SlotIsFree DEF Bonded
  <2>3. intended' = [intended EXCEPT ![Slot(master)] = p] /\ UNCHANGED data
    BY <1>6 DEF Bonded
  <2>4. intended'["board"] = intended["board"]
    BY <2>2, <2>3, FieldNames DEF TInv, Typed, Contents
  <2> QED  BY <2>1, <2>3, <2>4 DEF AInv, Stored
<1>7. CASE Cancel
  BY <1>2, <1>7, CancelAgrees DEF AInv, Cancel
<1>8. ASSUME NEW h \in Halves, HandleEvent(h) PROVE AInv'
  <2>1. /\ Idle(h) /\ Advance(h, "power") /\ "power" \in Outputs
        /\ own' = [own EXCEPT ![h]["event"] = Tail(@)]
        /\ UNCHANGED <<path, applied>>
    BY <1>8, FieldNames DEF HandleEvent, CanHandleEvent, ToggleLighting
  <2>2. own \in Channels
    BY DEF TInv, Typed
  <2>3. \A g \in Halves, f \in Fields : own'[g][KindOf(f)] = own[g][KindOf(f)]
    BY <2>1, <2>2, FieldNames DEF Channels
  <2> QED  BY <2>1, <2>3, AdvanceAgrees
<1>9. ASSUME NEW h \in Halves, SendNext(h) PROVE AInv'
  BY <1>2, <1>9, SendNextAgrees DEF AInv, SendNext, CanSendNext, ghosts
<1>10. ASSUME NEW h \in Halves, NEW k \in Kinds, Receive(h, k) PROVE AInv'
  BY <1>2, <1>10, ReceiveAgrees DEF AInv, Receive, CanReceive, ghosts
<1>11. ASSUME NEW h \in Halves, Deliver(h) PROVE AInv'
  BY <1>2, <1>11, DeliverAgrees DEF AInv, Deliver, CanDeliver
<1>12. ASSUME NEW h \in Halves, Leave(h) \/ Busy(h) PROVE AInv'
  <2>1. GiveUp(h) /\ todo[h] = <<>> /\ UNCHANGED <<own, applied, intended, data>>
    BY <1>12 DEF Leave, CanLeave, Busy, Idle
  <2> QED  BY <1>2, <2>1, GiveUpAgrees DEF AInv
<1>13. CASE Reconnect
  BY <1>2, <1>13, ReconnectAgrees DEF AInv, Reconnect
<1>14. CASE UNCHANGED <<own, path, todo, applied, intended, unsure, data>>
  BY <1>2, <1>14, NothingMoves DEF AInv
<1>15. ASSUME NEW h \in Halves, NEW k \in Kinds, StartWrite(h, k) PROVE AInv'
  BY <1>14, <1>15 DEF StartWrite, CanStartWrite, ghosts
<1>16. ASSUME NEW h \in Halves, KeyWrite(h) \/ KeyDone(h) \/ Panic(h) PROVE AInv'
  BY <1>14, <1>16 DEF KeyWrite, KeyDone, CanKeyDone, Panic, CanPanic, moving, ghosts
<1>17. CASE Disconnect \/ UNCHANGED vars
  BY <1>14, <1>17 DEF Disconnect, vars, moving, ghosts
<1> QED
  BY <1>3, <1>4, <1>5, <1>6, <1>7, <1>8, <1>9, <1>10, <1>11, <1>12, <1>13, <1>15, <1>16, <1>17
     DEF Next

(* Both invariants hold always.                                            *)
LEMMA HalvesInvariance == Spec => [](TInv /\ AInv)
<1>1. Init => TInv /\ AInv
  BY InitTypes, InitAgrees
<1>2. TInv /\ AInv /\ [Next]_vars => TInv' /\ AInv'
  BY StepTypes, StepAgrees
<1> QED  BY <1>1, <1>2, PTL DEF Spec

(* Nothing pending and nothing in doubt: both halves have what was last    *)
(* asked for.                                                              *)
LEMMA NothingPendingAgrees ==
    ASSUME AInv, NEW f \in Fields, f \notin unsure, ~Pending(f)
    PROVE  \A h \in Halves : applied[h][f] = intended[f]
<1>1. \A h \in Halves : /\ ~Has(own[h][KindOf(f)], f) /\ ~Has(path[h][KindOf(f)], f)
                        /\ \A i \in DOMAIN todo[h] : Field(todo[h][i].op) # f
  BY NothingPending
<1>2. \A h \in Halves : Reaches(h, f)
  BY DEF AInv, Sure
<1> QED  BY <1>1, <1>2, HalvesNames DEF Reaches, Promised, Owes, Near, Far

(* Unless an operation was lost or crossed another one, both halves end in *)
(* what the last operation for both says: for any channels, any number of  *)
(* operations and any losses of the link.                                  *)
THEOREM HalvesEndAlike == Spec => []HalvesAgree
<1>1. AInv => HalvesAgree
  BY NothingPendingAgrees DEF HalvesAgree
<1> QED  BY <1>1, HalvesInvariance, PTL

(* What is stored for the board when nothing is on its way is what the     *)
(* half that changed it last has in RAM, or else the halves are not sure.  *)
THEOREM StoredIsWhatIsUsed == Spec => []StoredIsInUse
<1>1. ASSUME AInv PROVE StoredIsInUse
  <2> SUFFICES ASSUME ~Pending("board"), "board" \notin unsure
               PROVE  \E h \in Halves : \A g \in Halves : applied[g]["board"] = data[h]
    BY DEF StoredIsInUse
  <2>1. \A g \in Halves : applied[g]["board"] = intended["board"]
    BY <1>1, NothingPendingAgrees, FieldNames
  <2>2. \E h \in Halves : intended["board"] = data[h]
    BY <1>1 DEF AInv, Stored
  <2> QED  BY <2>1, <2>2
<1> QED  BY <1>1, HalvesInvariance, PTL

(* A bond is stored over another one only in a slot on which the halves    *)
(* differ, or which two hosts were given at once.                          *)
THEOREM NoBondIsOverwritten == Spec => BondsAreKept
<1> DEFINE Keeps == \A h \in Halves, s \in BondSlots :
                       applied[h][s] # "free" /\ applied'[h][s] \notin {"free", applied[h][s]} =>
                           s \in unsure
<1>1. ASSUME TInv, AInv, [Next]_vars PROVE Keeps
  <2> SUFFICES ASSUME NEW h \in Halves, NEW s \in BondSlots, s \notin unsure,
                      applied[h][s] # "free",
                      applied'[h][s] # "free", applied'[h][s] # applied[h][s]
               PROVE  FALSE
    OBVIOUS
  <2>1. s \in Fields /\ KindOf(s) = "flash" /\ "flash" \in Kinds
    BY FieldNames
  <2>2. PICK g \in Halves, k \in Kinds : Receive(g, k)
    <3>1. ~UNCHANGED applied
      BY DEF Contents
    <3> QED
      BY <1>1, <3>1
         DEF Next, Callback, SyncAnimations, RemoveBond, Bonded, Cancel, HandleEvent,
             SendNext, StartWrite, Deliver, KeyWrite, KeyDone, Leave, Busy, Panic,
             Disconnect, Reconnect, vars
  <2> DEFINE op == Head(own[g][k])
  <2>3. /\ own[g][k] # <<>> /\ k # "event"
        /\ applied' = [applied EXCEPT ![g][Field(op)] = Value(op)]
    BY <2>2 DEF Receive, CanReceive
  <2>4. applied \in [Halves -> Contents] /\ own[g][k] \in Seq(KindOps(k)) /\ own[g][k] \in Seq(Ops)
    BY <1>1 DEF TInv, Typed, Sorted, Channels
  <2>5. op \in KindOps(k) /\ op = own[g][k][1] /\ 1 \in DOMAIN own[g][k]
    BY <2>3, <2>4, QueueTypes, HeadTailProperties
  <2>6. KindOf(Field(op)) = k
    BY <2>5, SortedOps
  <2> HIDE DEF op
  <2>7. g = h /\ Field(op) = s /\ Value(op) # "free"
    BY <2>1, <2>3, <2>4 DEF Contents
  <2>8. HasBond(Near(h, s), s)
    BY <2>5, <2>6, <2>7 DEF HasBond, IsBond, Near
  <2>9. OneBond(h, s)
    BY <1>1, <2>1 DEF AInv, Sure
  <2> QED  BY <2>8, <2>9 DEF OneBond
<1>2. TInv /\ AInv /\ [Next]_vars => [Keeps]_vars
  BY <1>1
<1> QED  BY <1>2, HalvesInvariance, PTL DEF BondsAreKept, Spec

-----------------------------------------------------------------------------
(* Nobody waits forever.                                                   *)

(* What is left of a handler ends with a send to the other half, and only  *)
(* the master's handlers send an event.                                    *)
Handles(h, sends) ==
    /\ Last(sends).to = "other"
    /\ h # master => \A i \in DOMAIN sends : Field(sends[i].op) # "sync"

(* What is left of post_sides_connected and sides_disconnected is for the  *)
(* tasks of the own half, which are no handlers of events.                 *)
Restores(sends) ==
    \A i \in DOMAIN sends : sends[i].to = "own" /\ Field(sends[i].op) # "sync"

(* A main task sends either what a handler sends or what the connection    *)
(* and its loss call for, never a part of both: this, with the types, is   *)
(* the inductive invariant behind NobodyStuck.                             *)
Tails ==
    \A h \in Halves : todo[h] # <<>> => Handles(h, todo[h]) \/ Restores(todo[h])

(* Taking the head of a sequence moves the rest and keeps the last.        *)
LEMMA TailKeepsLast ==
    ASSUME NEW S, NEW q \in Seq(S), q # <<>>
    PROVE  /\ Tail(q) # <<>> => Last(Tail(q)) = Last(q)
           /\ \A i \in DOMAIN Tail(q) : i + 1 \in DOMAIN q /\ Tail(q)[i] = q[i + 1]
<1>1. /\ Tail(q) \in Seq(S) /\ Len(Tail(q)) = Len(q) - 1 /\ Len(q) \in Nat \ {0}
      /\ \A i \in DOMAIN Tail(q) : Tail(q)[i] = q[i + 1]
      /\ DOMAIN q = 1 .. Len(q)
  BY QueueTypes
<1>2. DOMAIN Tail(q) = 1 .. Len(q) - 1
  BY <1>1, QueueTypes
<1>3. Tail(q) # <<>> => Len(Tail(q)) \in DOMAIN Tail(q)
  BY <1>1, <1>2, QueueTypes
<1>4. Tail(q) # <<>> => Tail(q)[Len(Tail(q))] = q[Len(q)]
  BY <1>1, <1>3
<1> QED  BY <1>1, <1>2, <1>4 DEF Last

(* What a handler sends ends with the other half.                          *)
LEMMA BothEndWithOther ==
    ASSUME NEW a, NEW b
    PROVE  /\ Last(Both(a)).to = "other" /\ Last(Both(a) \o Both(b)).to = "other"
           /\ \A i \in DOMAIN Both(a) : Both(a)[i].op = a
           /\ \A i \in DOMAIN (Both(a) \o Both(b)) : (Both(a) \o Both(b))[i].op \in {a, b}
<1> DEFINE S == [to : {"own", "other"}, op : {a, b}]
           sends == Both(a) \o Both(b)
<1>1. [to |-> "own", op |-> a] \in S /\ [to |-> "other", op |-> a] \in S
  OBVIOUS
<1>2. [to |-> "own", op |-> b] \in S /\ [to |-> "other", op |-> b] \in S
  OBVIOUS
<1>3. \A x \in S : x.op \in {a, b}
  OBVIOUS
<1> HIDE DEF S
<1>4. /\ Both(a) \in Seq(S) /\ Len(Both(a)) = 2 /\ DOMAIN Both(a) = {1, 2}
      /\ Both(a)[1] = [to |-> "own", op |-> a] /\ Both(a)[2] = [to |-> "other", op |-> a]
  BY <1>1 DEF Both
<1>5. /\ Both(b) \in Seq(S) /\ Len(Both(b)) = 2
      /\ Both(b)[2] = [to |-> "other", op |-> b]
  BY <1>2 DEF Both
<1>6. /\ sends \in Seq(S) /\ Len(sends) = Len(Both(a)) + Len(Both(b))
      /\ \A i \in 1 .. Len(Both(a)) + Len(Both(b)) :
            sends[i] = IF i <= Len(Both(a)) THEN Both(a)[i] ELSE Both(b)[i - Len(Both(a))]
  BY <1>4, <1>5, ConcatProperties
<1>7. Len(sends) = 4 /\ sends[4] = Both(b)[2]
  BY <1>4, <1>5, <1>6
<1>8. \A i \in DOMAIN sends : sends[i] \in S
  BY <1>6, ElementOfSeq
<1> QED  BY <1>3, <1>4, <1>5, <1>7, <1>8 DEF Last

(* One half begins to send something else, or sends the next.              *)
LEMMA OneHalfTails ==
    ASSUME Tails, todo \in [Halves -> Seq(Sends)], NEW h \in Halves, NEW sends,
           todo' = [todo EXCEPT ![h] = sends], master' = master,
           sends # <<>> => Handles(h, sends) \/ Restores(sends)
    PROVE  Tails'
BY DEF Tails, Handles, Restores

(* A step that changes neither who is master nor what the main tasks send. *)
LEMMA SameTails == Tails /\ UNCHANGED <<todo, master>> => Tails'
BY DEF Tails, Handles, Restores

(* A handler that sends new values of an output.                           *)
LEMMA AdvanceTails ==
    ASSUME TInv, Tails, NEW h \in Halves, NEW o \in Outputs, Advance(h, o),
           master' = master
    PROVE  Tails'
<1> DEFINE value == (data[h][o] + 1) % Cycle(o)
           new == [data[h] EXCEPT ![o] = value]
           a == Op(h, o, value)
           b == Op(h, "board", new)
           sends == Both(a) \o Both(b)
<1>1. todo \in [Halves -> Seq(Sends)] /\ todo' = [todo EXCEPT ![h] = sends]
  BY DEF TInv, Typed, Advance, Send
<1>2. Field(a) # "sync" /\ Field(b) # "sync"
  BY OpTypes, FieldNames
<1> HIDE DEF a, b
<1>3. /\ Last(sends).to = "other"
      /\ \A i \in DOMAIN sends : sends[i].op \in {a, b}
  BY BothEndWithOther
<1> HIDE DEF sends
<1>4. Handles(h, sends)
  BY <1>2, <1>3 DEF Handles
<1> QED  BY <1>1, <1>4, OneHalfTails

(* A handler that sends one operation, an event only if it is the master's. *)
LEMMA BothTails ==
    ASSUME TInv, Tails, NEW h \in Halves, NEW op, Send(h, Both(op)),
           Field(op) # "sync" \/ h = master, master' = master
    PROVE  Tails'
<1>1. todo \in [Halves -> Seq(Sends)] /\ todo' = [todo EXCEPT ![h] = Both(op)]
  BY DEF TInv, Typed, Send
<1>2. Handles(h, Both(op))
  BY BothEndWithOther DEF Handles
<1> QED  BY <1>1, <1>2, OneHalfTails

(* The next send of a main task.                                           *)
LEMMA SendNextTails ==
    ASSUME TInv, Tails, NEW h \in Halves, SendNext(h)
    PROVE  Tails'
<1> DEFINE rest == Tail(todo[h])
<1>1. /\ todo[h] # <<>> /\ todo' = [todo EXCEPT ![h] = rest] /\ master' = master
      /\ todo \in [Halves -> Seq(Sends)]
  BY DEF SendNext, CanSendNext, TInv, Typed
<1>2. /\ rest # <<>> => Last(rest) = Last(todo[h])
      /\ \A i \in DOMAIN rest : i + 1 \in DOMAIN todo[h] /\ rest[i] = todo[h][i + 1]
  BY <1>1, TailKeepsLast
<1> HIDE DEF rest
<1>3. CASE Handles(h, todo[h])
  <2>1. rest # <<>> => Handles(h, rest)
    BY <1>2, <1>3 DEF Handles
  <2> QED  BY <1>1, <2>1, OneHalfTails
<1>4. CASE Restores(todo[h])
  <2>1. Restores(rest)
    BY <1>2, <1>4 DEF Restores
  <2> QED  BY <1>1, <2>1, OneHalfTails
<1> QED  BY <1>1, <1>3, <1>4 DEF Tails

(* A half leaves do_master or do_slave.                                    *)
LEMMA GiveUpTails ==
    ASSUME TInv, Tails, NEW h \in Halves, GiveUp(h), master' = master
    PROVE  Tails'
<1> DEFINE op == Op(h, "power", 0)
<1>1. todo \in [Halves -> Seq(Sends)] /\ todo' = [todo EXCEPT ![h] = This(op)]
  BY DEF GiveUp, TInv, Typed
<1>2. Field(op) # "sync"
  BY OpTypes
<1> HIDE DEF op
<1>3. Restores(This(op))
  BY <1>2 DEF Restores, This
<1> QED  BY <1>1, <1>3, OneHalfTails

(* The halves find each other again, in any roles.                         *)
LEMMA ReconnectTails ==
    ASSUME TInv, Reconnect
    PROVE  Tails'
<1>1. todo' = [h \in Halves |-> Restore(h)]
  BY DEF Reconnect
<1>2. ASSUME NEW h \in Halves PROVE Restores(Restore(h))
  <2>1. \A i \in DOMAIN Restore(h) : Field(Restore(h)[i].op) # "sync"
    BY RestoreTypes, FieldNames
  <2>2. \A i \in DOMAIN Restore(h) : Restore(h)[i].to = "own"
    BY DEF Restore
  <2> QED  BY <2>1, <2>2 DEF Restores
<1> QED  BY <1>1, <1>2 DEF Tails, Restores

(* Every step keeps what the main tasks send in one piece.                 *)
LEMMA StepTails == TInv /\ Tails /\ [Next]_vars => Tails'
<1> SUFFICES ASSUME TInv, Tails, [Next]_vars PROVE Tails'
  OBVIOUS
<1>1. master \in Halves /\ todo \in [Halves -> Seq(Sends)]
  BY DEF TInv, Typed
<1>2. CASE Callback
  <2>1. PICK o \in Outputs : Advance(master, o)
    BY <1>2 DEF Callback
  <2> QED  BY <1>1, <1>2, <2>1, AdvanceTails DEF Callback
<1>3. CASE SyncAnimations
  BY <1>1, <1>3, BothTails DEF SyncAnimations
<1>4. ASSUME NEW s \in BondSlots, RemoveBond(s) PROVE Tails'
  <2>1. Field(Op(master, s, "free")) # "sync"
    BY OpTypes, FieldNames
  <2> QED  BY <1>1, <1>4, <2>1, BothTails DEF RemoveBond
<1>5. CASE Cancel
  BY <1>1, <1>5, OneHalfTails DEF Cancel
<1>6. ASSUME NEW h \in Halves, HandleEvent(h) PROVE Tails'
  BY <1>6, AdvanceTails, FieldNames DEF HandleEvent, ToggleLighting
<1>7. ASSUME NEW h \in Halves, SendNext(h) PROVE Tails'
  BY <1>7, SendNextTails
<1>8. ASSUME NEW h \in Halves, Leave(h) \/ Busy(h) PROVE Tails'
  BY <1>8, GiveUpTails DEF Leave, Busy
<1>9. CASE Reconnect
  BY <1>9, ReconnectTails
<1>10. ASSUME NEW h \in Halves,
              \/ Deliver(h) \/ KeyWrite(h) \/ KeyDone(h) \/ Panic(h)
              \/ \E k \in Kinds : Receive(h, k) \/ StartWrite(h, k)
       PROVE  Tails'
  BY <1>10, SameTails DEF Deliver, KeyWrite, KeyDone, Panic, Receive, StartWrite, moving
<1>11. CASE Disconnect \/ (\E p \in Peers : Bonded(p)) \/ UNCHANGED vars
  BY <1>11, SameTails DEF Disconnect, Bonded, vars, moving
<1> QED
  BY <1>2, <1>3, <1>4, <1>5, <1>6, <1>7, <1>8, <1>9, <1>10, <1>11 DEF Next

(* A send that finds no room in a channel of its own half waits for a task *)
(* or a handler that has something to read.                                *)
LEMMA FullChannelIsRead ==
    ASSUME TInv, NEW h \in Halves, NEW k \in Kinds, ~RoomInOwn(h, k)
    PROVE  own[h][k] # <<>>
<1>1. own[h][k] \in Seq(KindOps(k))
  BY DEF TInv, Sorted
<1>2. Len(own[h][k]) \in Nat /\ ~(Len(own[h][k]) < Size)
  BY <1>1, QueueTypes DEF RoomInOwn
<1>3. Len(<<>>) = 0
  BY EmptySeq
<1> QED  BY <1>2, <1>3, SizeAssumption

(* A handler that finds no room in a channel to the other half waits for   *)
(* run_clients, which has something to write or is writing, or panics.     *)
LEMMA FullPathIsWritten ==
    ASSUME TInv, NEW h \in Halves, h \notin stopped, NEW k \in Kinds, InHandler(h),
           ~RoomInPath(h, k)
    PROVE  CanWork
<1>1. path[h][k] \in Seq(PathOps(h, k)) /\ todo[h] # <<>>
  BY DEF TInv, Sorted, InHandler
<1>2. Len(path[h][k]) \in Nat /\ ~(Len(path[h][k]) < Size + 1)
  BY <1>1, QueueTypes DEF RoomInPath
<1>3. Len(<<>>) = 0
  BY EmptySeq
<1>4. path[h][k] # <<>>
  BY <1>2, <1>3, SizeAssumption
<1>5. running[h]
  <2>1. Len(path[h][k]) <= IF running[h] THEN Size + 1 ELSE Size
    BY DEF TInv, Bounded
  <2> QED  BY <1>2, <2>1, SizeAssumption
<1>6. ~Restoring(h)
  BY DEF InHandler, Restoring
<1>7. writing[h] \in Kinds \cup {"none", "key"}
  BY DEF TInv, Typed
<1>8. CASE linked
  BY <1>4, <1>5, <1>6, <1>7, <1>8
     DEF CanWork, CanStartWrite, CanDeliver, CanKeyDone, Writing
<1>9. CASE ~linked
  BY <1>4, <1>5, <1>9 DEF CanWork, CanPanic
<1> QED  BY <1>8, <1>9

(* What a main task waits to send can be sent, or makes work for another.  *)
LEMMA WaitingIsWork ==
    ASSUME TInv, Tails, NEW h \in Halves, h \notin stopped, todo[h] # <<>>,
           ~EventsFull(h)
    PROVE  CanWork
<1> DEFINE next == Head(todo[h])
           k == KindOf(Field(next.op))
<1>1. /\ k \in Kinds /\ next.to \in {"own", "other"} /\ next.op \in Ops
      /\ 1 \in DOMAIN todo[h] /\ todo[h][1] = next
  BY NextSend, SortedOps
<1>2. k = "event" => Field(next.op) = "sync"
  BY <1>1, OpTypes, FieldNames DEF IsOp
<1>3. Handles(h, todo[h]) \/ Restores(todo[h])
  BY DEF Tails
<1>4. Handles(h, todo[h]) => InHandler(h)
  BY DEF Handles, InHandler
<1>5. CASE Room(h, next.to, k)
  BY <1>5 DEF CanWork, CanSendNext
<1>6. CASE next.to = "own" /\ ~RoomInOwn(h, k) /\ k # "event"
  <2>1. own[h][k] # <<>>
    BY <1>1, <1>6, FullChannelIsRead
  <2> QED  BY <1>1, <1>6, <2>1 DEF CanWork, CanReceive
<1>7. CASE next.to = "own" /\ ~RoomInOwn(h, k) /\ k = "event"
  <2>1. Field(next.op) = "sync"
    BY <1>2, <1>7
  <2>2. ~Restores(todo[h])
    BY <1>1, <2>1 DEF Restores
  <2>3. InHandler(h) /\ h = master
    BY <1>1, <1>3, <1>4, <2>1, <2>2 DEF Handles
  <2> QED  BY <1>7, <2>1, <2>3 DEF EventsFull
<1>8. CASE next.to = "other" /\ ~RoomInPath(h, k)
  <2>1. ~Restores(todo[h])
    BY <1>1, <1>8 DEF Restores
  <2> QED  BY <1>1, <1>3, <1>4, <1>8, <2>1, FullPathIsWritten
<1> QED  BY <1>1, <1>5, <1>6, <1>7, <1>8 DEF Room

(* The halves never wait for each other, nor a task for itself, but for a  *)
(* master that sends an event to its own full channel: for any sizes of    *)
(* the channels, any number of operations and any losses of the link.      *)
THEOREM NobodyWaitsForever == Spec => []NobodyStuck
<1>1. Init => Tails
  BY DEF Init, Tails
<1>2. TInv /\ Tails /\ [Next]_vars => Tails'
  BY StepTails
<1>3. TInv /\ Tails => NobodyStuck
  BY WaitingIsWork DEF NobodyStuck
<1> QED  BY <1>1, <1>2, <1>3, HalvesInvariance, PTL DEF Spec
===============================================================================
