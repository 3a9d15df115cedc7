----------------------------- MODULE QueueProofs -----------------------------
(***************************************************************************)
(* For every capacity and every set of data, the ring buffer of queue.c    *)
(* keeps its fields consistent and implements the bounded deque.           *)
(***************************************************************************)
EXTENDS Queue, SequenceTheorems, TLAPS

IInv == TypeOK /\ RingInv

-----------------------------------------------------------------------------
(* Arithmetic of the indices: % as a comparison, without truncation        *)

LEMMA ModLemma ==
    ASSUME NEW a \in 0..(2 * NElem - 1)
    PROVE  a % NElem = IF a < NElem THEN a ELSE a - NElem
BY QueueAssumption

LEMMA AfterLemma ==
    ASSUME NEW i \in Slots
    PROVE  /\ After(i) \in Slots
           /\ After(i) = IF i = NElem - 1 THEN 0 ELSE i + 1
BY QueueAssumption, ModLemma DEF After, ToIndex, Slots

LEMMA BeforeLemma ==
    ASSUME NEW i \in Slots
    PROVE  /\ Before(i) \in Slots
           /\ Before(i) = IF i = 0 THEN NElem - 1 ELSE i - 1
<1>1. /\ i - 1 + NElem \in 0..(2 * NElem - 1)
      /\ i - 1 + NElem < NElem <=> i = 0
  BY QueueAssumption DEF Slots
<1>2. (i - 1 + NElem) % NElem = IF i = 0 THEN NElem - 1 ELSE i - 1
  BY <1>1, ModLemma, QueueAssumption DEF At, Slots
<1> QED
  BY <1>2, QueueAssumption DEF Before, ToIndex, Slots

LEMMA PositionLemma ==
    ASSUME NEW h \in Slots, NEW i \in 0..NElem
    PROVE  /\ At(h, i) \in Slots
           /\ At(h, i) = IF h + i < NElem THEN h + i ELSE h + i - NElem
<1>1. h + i \in 0..(2 * NElem - 1)
  BY QueueAssumption DEF Slots
<1> QED
  BY <1>1, ModLemma, QueueAssumption DEF At, Slots

(* How a position moves when head or the count moves, and that the         *)
(* NElem positions from head on are all different.                         *)
LEMMA AtZero ==
    ASSUME NEW h \in Slots
    PROVE  At(h, 0) = h /\ At(h, NElem) = h
BY PositionLemma, QueueAssumption DEF Slots

LEMMA AtNext ==
    ASSUME NEW h \in Slots, NEW i \in 0..(NElem - 1)
    PROVE  At(h, i + 1) = After(At(h, i)) /\ At(After(h), i) = At(h, i + 1)
<1>1. i \in 0..NElem /\ i + 1 \in 0..NElem
  BY QueueAssumption
<1>2. /\ After(h) \in Slots
      /\ After(h) = IF h = NElem - 1 THEN 0 ELSE h + 1
  BY AfterLemma
<1>3. /\ At(h, i) \in Slots
      /\ At(h, i) = IF h + i < NElem THEN h + i ELSE h + i - NElem
  BY <1>1, PositionLemma
<1>4. At(h, i + 1) = IF h + (i + 1) < NElem THEN h + (i + 1)
                                           ELSE h + (i + 1) - NElem
  BY <1>1, PositionLemma
<1>5. At(After(h), i) = IF After(h) + i < NElem THEN After(h) + i
                                               ELSE After(h) + i - NElem
  BY <1>1, <1>2, PositionLemma
<1>6. After(At(h, i)) = IF At(h, i) = NElem - 1 THEN 0 ELSE At(h, i) + 1
  BY <1>3, AfterLemma
<1>7. At(h, i + 1) = After(At(h, i))
  BY <1>1, <1>3, <1>4, <1>6, QueueAssumption DEF Slots
<1>8. At(After(h), i) = At(h, i + 1)
  BY <1>1, <1>2, <1>4, <1>5, QueueAssumption DEF Slots
<1> QED
  BY <1>7, <1>8

LEMMA AtPrevious ==
    ASSUME NEW h \in Slots, NEW i \in 1..NElem
    PROVE  At(h, i - 1) = Before(At(h, i)) /\ At(Before(h), i) = At(h, i - 1)
<1>1. i \in 0..NElem /\ i - 1 \in 0..NElem
  BY QueueAssumption
<1>2. /\ Before(h) \in Slots
      /\ Before(h) = IF h = 0 THEN NElem - 1 ELSE h - 1
  BY BeforeLemma
<1>3. /\ At(h, i) \in Slots
      /\ At(h, i) = IF h + i < NElem THEN h + i ELSE h + i - NElem
  BY <1>1, PositionLemma
<1>4. At(h, i - 1) = IF h + (i - 1) < NElem THEN h + (i - 1)
                                           ELSE h + (i - 1) - NElem
  BY <1>1, PositionLemma
<1>5. At(Before(h), i) = IF Before(h) + i < NElem THEN Before(h) + i
                                                 ELSE Before(h) + i - NElem
  BY <1>1, <1>2, PositionLemma
<1>6. Before(At(h, i)) = IF At(h, i) = 0 THEN NElem - 1 ELSE At(h, i) - 1
  BY <1>3, BeforeLemma
<1>7. At(h, i - 1) = Before(At(h, i))
  BY <1>1, <1>3, <1>4, <1>6, QueueAssumption DEF Slots
<1>8. At(Before(h), i) = At(h, i - 1)
  BY <1>1, <1>2, <1>4, <1>5, QueueAssumption DEF Slots
<1> QED
  BY <1>7, <1>8

LEMMA AtDistinct ==
    ASSUME NEW h \in Slots, NEW i \in 0..(NElem - 1), NEW j \in 0..(NElem - 1),
           i # j
    PROVE  At(h, i) # At(h, j)
<1>1. /\ At(h, i) = IF h + i < NElem THEN h + i ELSE h + i - NElem
      /\ At(h, j) = IF h + j < NElem THEN h + j ELSE h + j - NElem
  BY PositionLemma, QueueAssumption
<1> QED
  BY <1>1, QueueAssumption DEF Slots

-----------------------------------------------------------------------------
(* The inductive invariant: initially true, kept by every call             *)

LEMMA InitInv == Init => IInv
<1> SUFFICES ASSUME Init PROVE IInv
  OBVIOUS
<1>1. TypeOK
  BY QueueAssumption DEF Init, TypeOK, Slots, Answer
<1>2. At(head, 0) = 0
  BY AtZero, QueueAssumption DEF Init, Slots
<1> QED
  BY <1>1, <1>2 DEF Init, RingInv, IInv

LEMMA StepInv == IInv /\ [Next]_vars => IInv'
<1> SUFFICES ASSUME TypeOK, RingInv, [Next]_vars PROVE TypeOK' /\ RingInv'
  BY DEF IInv
<1>0. /\ NElem \in Nat /\ NElem > 0
      /\ head \in Slots /\ tail \in Slots /\ length \in 0..NElem
      /\ tail = At(head, length)
  BY QueueAssumption DEF TypeOK, RingInv
<1>1. ASSUME NEW d \in Data, Push(d) PROVE TypeOK' /\ RingInv'
  <2>0. length \in 0..(NElem - 1) /\ length' = length + 1
    BY <1>0, <1>1 DEF Push
  <2>1. TypeOK'
    BY <1>0, <1>1, <2>0, AfterLemma DEF Push, Answer, TypeOK
  <2>2. tail' = At(head', length')
    BY <1>0, <1>1, <2>0, AtNext DEF Push
  <2>3. ASSUME NEW i \in 0..(length' - 1) PROVE buffer'[At(head', i)] \in Data
    <3>1. CASE i = length
      BY <1>0, <1>1, <3>1 DEF Push, TypeOK
    <3>2. CASE i # length
      <4>1. i \in 0..(length - 1) /\ i \in 0..(NElem - 1) /\ i \in 0..NElem
        BY <1>0, <2>0, <3>2
      <4>2. At(head, i) # tail /\ At(head, i) \in Slots
        BY <1>0, <2>0, <3>2, <4>1, AtDistinct, PositionLemma
      <4> QED
        BY <1>1, <4>1, <4>2 DEF Push, RingInv, TypeOK
    <3> QED
      BY <3>1, <3>2
  <2> QED
    BY <2>1, <2>2, <2>3 DEF RingInv
<1>2. ASSUME NEW d \in Data, PushBack(d) PROVE TypeOK' /\ RingInv'
  <2>0. /\ length \in 0..(NElem - 1) /\ length' = length + 1
        /\ head' = Before(head) /\ head' \in Slots
    BY <1>0, <1>2, BeforeLemma DEF PushBack
  <2>1. TypeOK'
    BY <1>0, <1>2, <2>0 DEF PushBack, Answer, TypeOK
  <2>2. ASSUME NEW i \in 1..NElem PROVE At(head', i) = At(head, i - 1)
    BY <1>0, <2>0, AtPrevious
  <2>3. tail' = At(head', length')
    BY <1>0, <1>2, <2>0, <2>2 DEF PushBack
  <2>4. ASSUME NEW i \in 0..(length' - 1) PROVE buffer'[At(head', i)] \in Data
    <3>0. i \in 0..(NElem - 1)
      BY <1>0, <2>0
    <3>1. CASE i = 0
      <4>1. At(head', i) = head'
        BY <2>0, <3>1, AtZero
      <4> QED
        BY <1>2, <2>0, <4>1 DEF PushBack, TypeOK
    <3>2. CASE i # 0
      <4>1. i - 1 \in 0..(length - 1) /\ i \in 1..NElem /\ i - 1 \in 0..NElem
        BY <1>0, <2>0, <3>2
      <4>2. At(head', i) = At(head, i - 1) /\ At(head, i - 1) \in Slots
        BY <1>0, <2>2, <4>1, PositionLemma
      <4>3. At(head', i) # head'
        <5>1. At(head', 0) = head' /\ 0 \in 0..(NElem - 1)
          BY <1>0, <2>0, AtZero
        <5> QED
          BY <2>0, <3>0, <3>2, <5>1, AtDistinct
      <4> QED
        BY <1>2, <4>1, <4>2, <4>3 DEF PushBack, RingInv, TypeOK
    <3> QED
      BY <3>1, <3>2
  <2> QED
    BY <2>1, <2>3, <2>4 DEF RingInv
<1>3. ASSUME NEW d \in Data, PushRing(d), length < NElem PROVE TypeOK' /\ RingInv'
  <2>0. length \in 0..(NElem - 1) /\ length' = length + 1 /\ head' = head
    BY <1>0, <1>3 DEF PushRing
  <2>1. TypeOK'
    BY <1>0, <1>3, <2>0, AfterLemma DEF PushRing, Answer, TypeOK
  <2>2. tail' = At(head', length')
    BY <1>0, <1>3, <2>0, AtNext DEF PushRing
  <2>3. ASSUME NEW i \in 0..(length' - 1) PROVE buffer'[At(head', i)] \in Data
    <3>1. CASE i = length
      BY <1>0, <1>3, <2>0, <3>1 DEF PushRing, TypeOK
    <3>2. CASE i # length
      <4>1. i \in 0..(length - 1) /\ i \in 0..(NElem - 1) /\ i \in 0..NElem
        BY <1>0, <2>0, <3>2
      <4>2. At(head, i) # tail /\ At(head, i) \in Slots
        BY <1>0, <2>0, <3>2, <4>1, AtDistinct, PositionLemma
      <4> QED
        BY <1>3, <2>0, <4>1, <4>2 DEF PushRing, RingInv, TypeOK
    <3> QED
      BY <3>1, <3>2
  <2> QED
    BY <2>1, <2>2, <2>3 DEF RingInv
<1>4. ASSUME NEW d \in Data, PushRing(d), length = NElem PROVE TypeOK' /\ RingInv'
  <2>0. /\ length' = length /\ tail = head
        /\ head' = After(head) /\ head' \in Slots /\ tail' = After(tail)
    BY <1>0, <1>4, AtZero, AfterLemma DEF PushRing
  <2>1. TypeOK'
    BY <1>0, <1>4, <2>0 DEF PushRing, Answer, TypeOK
  <2>2. tail' = At(head', length')
    BY <1>4, <2>0, AtZero
  <2>3. ASSUME NEW i \in 0..(length' - 1) PROVE buffer'[At(head', i)] \in Data
    <3>0. i \in 0..(NElem - 1) /\ i + 1 \in 0..NElem
      BY <1>0, <1>4, <2>0
    <3>1. At(head', i) = At(head, i + 1) /\ At(head, i + 1) \in Slots
      BY <1>0, <2>0, <3>0, AtNext, PositionLemma
    <3>2. CASE i = NElem - 1
      <4>1. At(head', i) = tail
        BY <1>0, <2>0, <3>1, <3>2, AtZero
      <4> QED
        BY <1>0, <1>4, <4>1 DEF PushRing, TypeOK
    <3>3. CASE i # NElem - 1
      <4>1. i + 1 \in 0..(length - 1)
        BY <1>0, <1>4, <3>0, <3>3
      <4> QED
        BY <1>4, <3>1, <4>1 DEF PushRing, RingInv, TypeOK
    <3> QED
      BY <3>2, <3>3
  <2> QED
    BY <2>1, <2>2, <2>3 DEF RingInv
<1>5. ASSUME Pop PROVE TypeOK' /\ RingInv'
  <2>0. /\ length \in 1..NElem /\ length' = length - 1
        /\ head' = After(head) /\ head' \in Slots
        /\ 0 \in 0..(length - 1) /\ At(head, 0) = head
    BY <1>0, <1>5, AfterLemma, AtZero DEF Pop
  <2>1. TypeOK'
    BY <1>0, <1>5, <2>0 DEF Pop, Answer, TypeOK, RingInv
  <2>2. ASSUME NEW i \in 0..(length - 1) PROVE At(head', i) = At(head, i + 1)
    <3>1. i \in 0..(NElem - 1)
      BY <1>0
    <3> QED
      BY <1>0, <2>0, <3>1, AtNext
  <2>3. tail' = At(head', length')
    BY <1>0, <1>5, <2>0, <2>2 DEF Pop
  <2>4. ASSUME NEW i \in 0..(length' - 1) PROVE buffer'[At(head', i)] \in Data
    <3>1. i \in 0..(length - 1) /\ i + 1 \in 0..(length - 1)
      BY <1>0, <2>0
    <3> QED
      BY <1>5, <2>2, <3>1 DEF Pop, RingInv
  <2> QED
    BY <2>1, <2>3, <2>4 DEF RingInv
<1>6. ASSUME PopFront PROVE TypeOK' /\ RingInv'
  <2>0. /\ length \in 1..NElem /\ length' = length - 1 /\ head' = head
        /\ tail' = Before(tail) /\ tail' \in Slots
    BY <1>0, <1>6, BeforeLemma DEF PopFront
  <2>1. tail' = At(head, length - 1)
    BY <1>0, <2>0, AtPrevious
  <2>2. buffer[tail'] \in Data
    <3>1. length - 1 \in 0..(length - 1)
      BY <2>0
    <3> QED
      BY <2>1, <3>1 DEF RingInv
  <2>3. TypeOK'
    BY <1>0, <1>6, <2>0, <2>2 DEF PopFront, Answer, TypeOK
  <2>4. ASSUME NEW i \in 0..(length' - 1) PROVE buffer'[At(head', i)] \in Data
    <3>1. i \in 0..(length - 1)
      BY <1>0, <2>0
    <3> QED
      BY <1>6, <2>0, <3>1 DEF PopFront, RingInv
  <2> QED
    BY <2>0, <2>1, <2>3, <2>4 DEF RingInv
<1>7. CASE PushRefused
  BY <1>7 DEF PushRefused, RingInv, TypeOK, Answer
<1>8. CASE PopRefused
  BY <1>8 DEF PopRefused, RingInv, TypeOK, Answer
<1>9. CASE UNCHANGED vars
  BY <1>9 DEF vars, RingInv, TypeOK
<1>10. ASSUME NEW d \in Data, PushRing(d) PROVE TypeOK' /\ RingInv'
  <2>1. length < NElem \/ length = NElem
    BY <1>0
  <2> QED
    BY <1>3, <1>4, <1>10, <2>1
<1> QED
  BY <1>1, <1>2, <1>5, <1>6, <1>7, <1>8, <1>9, <1>10 DEF Next

(* The fields of the queue never leave their ranges: type correctness for  *)
(* every capacity the index type allows.                                   *)
THEOREM TypeCorrect == Spec => []TypeOK
<1>1. Init => IInv
  BY InitInv
<1>2. IInv /\ [Next]_vars => IInv'
  BY StepInv
<1>3. IInv => TypeOK
  BY DEF IInv
<1> QED
  BY <1>1, <1>2, <1>3, PTL DEF Spec

(* head, tail, length and the stored elements agree after every sequence   *)
(* of calls of queue.c.                                                    *)
THEOREM RingConsistent == Spec => []RingInv
<1>1. Init => IInv
  BY InitInv
<1>2. IInv /\ [Next]_vars => IInv'
  BY StepInv
<1>3. IInv => RingInv
  BY DEF IInv
<1> QED
  BY <1>1, <1>2, <1>3, PTL DEF Spec

-----------------------------------------------------------------------------
(* Refinement: the ring buffer seen as a sequence                          *)

LEMMA ItemsShape ==
    ASSUME NEW b, NEW h \in Slots, NEW n \in 0..NElem,
           \A i \in 0..(n - 1) : b[At(h, i)] \in Data
    PROVE  /\ ItemsOf(b, h, n) \in Seq(Data)
           /\ Len(ItemsOf(b, h, n)) = n
           /\ \A i \in 1..n : ItemsOf(b, h, n)[i] = b[At(h, i - 1)]
<1>1. n \in Nat
  BY QueueAssumption
<1>2. ASSUME NEW i \in 1..n PROVE b[At(h, i - 1)] \in Data
  <2>1. i - 1 \in 0..(n - 1)
    BY <1>1
  <2> QED
    BY <2>1
<1> QED
  BY <1>1, <1>2 DEF ItemsOf

(* Every step of the ring buffer is a step of the deque or changes nothing *)
LEMMA StepRefines ==
    IInv /\ IInv' /\ [Next]_vars => [Deque!Next]_(Deque!vars)
<1> SUFFICES ASSUME IInv, IInv', [Next]_vars
             PROVE  [Deque!Next]_(Deque!vars)
  OBVIOUS
<1> DEFINE new == ItemsOf(buffer', head', length')
<1>0. /\ NElem \in Nat /\ NElem > 0
      /\ head \in Slots /\ tail \in Slots /\ length \in 0..NElem
      /\ head' \in Slots /\ tail' \in Slots /\ length' \in 0..NElem
      /\ tail = At(head, length) /\ tail' = At(head', length')
      /\ buffer \in [Slots -> Data \cup {NoData}]
  BY QueueAssumption DEF IInv, TypeOK, RingInv
<1>a. /\ Items \in Seq(Data) /\ Len(Items) = length
      /\ \A i \in 1..length : Items[i] = buffer[At(head, i - 1)]
  BY <1>0, ItemsShape DEF IInv, RingInv, Items
<1>b. /\ new \in Seq(Data) /\ Len(new) = length'
      /\ \A i \in 1..length' : new[i] = buffer'[At(head', i - 1)]
  BY <1>0, ItemsShape DEF IInv, RingInv
<1>c. Items' = new
  BY DEF Items
<1> HIDE DEF new
<1>d. \A q \in Seq(Data) :
        /\ Len(q) = length'
        /\ \A i \in 1..length' : q[i] = buffer'[At(head', i - 1)]
        => Items' = q
  BY <1>b, <1>c, SeqEqual
<1>1. ASSUME NEW d \in Data, length < NElem, length' = length + 1, head' = head,
             buffer' = [buffer EXCEPT ![tail] = d]
      PROVE  Items' = Append(Items, d)
  <2>1. /\ Append(Items, d) \in Seq(Data)
        /\ Len(Append(Items, d)) = length + 1
        /\ \A i \in 1..length : Append(Items, d)[i] = Items[i]
        /\ Append(Items, d)[length + 1] = d
    BY <1>a, <1>0, AppendProperties
  <2>2. buffer'[At(head', length)] = d
    BY <1>0, <1>1
  <2>3. ASSUME NEW i \in 1..length
        PROVE  Append(Items, d)[i] = buffer'[At(head', i - 1)]
    <3>1. i - 1 \in 0..(NElem - 1) /\ length \in 0..(NElem - 1) /\ i - 1 # length
      BY <1>0, <1>1
    <3>2. At(head, i - 1) # tail
      BY <1>0, <3>1, AtDistinct
    <3>3. At(head, i - 1) \in Slots
      BY <1>0, <3>1, PositionLemma
    <3> QED
      BY <1>0, <1>1, <1>a, <2>1, <3>2, <3>3
  <2>4. \A i \in 1..length' : Append(Items, d)[i] = buffer'[At(head', i - 1)]
    <3> SUFFICES ASSUME NEW i \in 1..length'
                 PROVE  Append(Items, d)[i] = buffer'[At(head', i - 1)]
      OBVIOUS
    <3>1. CASE i \in 1..length
      BY <2>3, <3>1
    <3>2. CASE i = length + 1
      <4>1. i - 1 = length
        BY <1>0, <3>2
      <4>2. buffer'[At(head', i - 1)] = d
        BY <2>2, <4>1
      <4> QED
        BY <2>1, <3>2, <4>2
    <3>3. i \in 1..length \/ i = length + 1
      BY <1>0, <1>1
    <3> QED
      BY <3>1, <3>2, <3>3
  <2> QED
    BY <1>1, <1>d, <2>1, <2>4
<1>2. ASSUME NEW d \in Data, Push(d) PROVE Deque!Push(d)
  BY <1>0, <1>1, <1>2, <1>a
     DEF Push, Deque!Push, Deque!Pushed, Answer, Deque!Answer
<1>3. ASSUME NEW d \in Data, PushBack(d) PROVE Deque!PushBack(d)
  <2>0. /\ length' = length + 1 /\ length < NElem
        /\ head' = Before(head)
        /\ buffer' = [buffer EXCEPT ![head'] = d]
    BY <1>3 DEF PushBack
  <2>1. /\ <<d>> \o Items \in Seq(Data)
        /\ Len(<<d>> \o Items) = length + 1
        /\ (<<d>> \o Items)[1] = d
        /\ \A i \in 2..(length + 1) : (<<d>> \o Items)[i] = Items[i - 1]
    BY <1>0, <1>a, ConcatProperties
  <2>2. buffer'[At(head', 0)] = d
    BY <1>0, <2>0, AtZero
  <2>3. ASSUME NEW i \in 2..(length + 1)
        PROVE  (<<d>> \o Items)[i] = buffer'[At(head', i - 1)]
    <3>1. /\ i - 1 \in 0..(NElem - 1) /\ i - 1 \in 1..NElem
          /\ i - 1 \in 1..length /\ (i - 1) - 1 \in 0..NElem
          /\ 0 \in 0..(NElem - 1) /\ i - 1 # 0
      BY <1>0, <2>0
    <3>2. At(head', i - 1) # At(head', 0)
      BY <1>0, <3>1, AtDistinct
    <3>3. At(head', i - 1) = At(head, (i - 1) - 1)
      BY <1>0, <2>0, <3>1, AtPrevious
    <3>4. At(head', i - 1) \in Slots /\ At(head', 0) = head'
      BY <1>0, <3>1, AtZero, PositionLemma
    <3> QED
      BY <1>0, <1>a, <2>0, <2>1, <3>1, <3>2, <3>3, <3>4
  <2>4. Items' = <<d>> \o Items
    <3>1. ASSUME NEW i \in 1..length'
          PROVE  (<<d>> \o Items)[i] = buffer'[At(head', i - 1)]
      <4>1. CASE i = 1
        <5>1. i - 1 = 0
          BY <4>1
        <5> QED
          BY <2>1, <2>2, <4>1, <5>1
      <4>2. CASE i # 1
        <5>1. i \in 2..(length + 1)
          BY <1>0, <2>0, <4>2
        <5> QED
          BY <2>3, <5>1
      <4> QED
        BY <4>1, <4>2
    <3> QED
      BY <1>d, <2>0, <2>1, <3>1
  <2> QED
    BY <1>3, <1>a, <2>0, <2>4
       DEF PushBack, Deque!PushBack, Deque!PushedBack, Deque!Cons, Answer, Deque!Answer
<1>4. ASSUME NEW d \in Data, PushRing(d), length < NElem PROVE Deque!PushRing(d)
  <2>0. /\ length' = length + 1 /\ head' = head
        /\ buffer' = [buffer EXCEPT ![tail] = d]
    BY <1>0, <1>4 DEF PushRing
  <2>1. Items' = Append(Items, d)
    BY <1>1, <1>4, <2>0
  <2> QED
    BY <1>4, <1>a, <2>1
       DEF PushRing, Deque!PushRing, Deque!PushedRing, Answer, Deque!Answer
<1>5. ASSUME NEW d \in Data, PushRing(d), length = NElem PROVE Deque!PushRing(d)
  <2>0. /\ length' = length /\ head' = After(head) /\ tail = head
        /\ buffer' = [buffer EXCEPT ![head] = d]
        /\ result' = Answer(TRUE, NoData)
    <3>1. tail = head
      BY <1>0, <1>5, AtZero
    <3>2. ~(length < NElem)
      BY <1>0, <1>5
    <3> QED
      BY <1>5, <3>1, <3>2 DEF PushRing
  <2>1. /\ Tail(Items) \in Seq(Data) /\ Len(Tail(Items)) = length - 1
        /\ \A i \in 1..(length - 1) : Tail(Items)[i] = Items[i + 1]
    <3>1. Items # <<>>
      BY <1>0, <1>5, <1>a
    <3> QED
      BY <1>0, <1>a, <1>5, <3>1, HeadTailProperties
  <2>2. /\ Append(Tail(Items), d) \in Seq(Data)
        /\ Len(Append(Tail(Items), d)) = length
        /\ \A i \in 1..(length - 1) : Append(Tail(Items), d)[i] = Items[i + 1]
        /\ Append(Tail(Items), d)[length] = d
    BY <1>0, <1>5, <2>1, AppendProperties
  <2>3. ASSUME NEW i \in 1..length PROVE At(head', i - 1) = At(head, i)
    <3>1. i - 1 \in 0..(NElem - 1) /\ (i - 1) + 1 = i
      BY <1>0
    <3> QED
      BY <1>0, <2>0, <3>1, AtNext
  <2>4. buffer'[At(head', length - 1)] = d
    <3>1. At(head', length - 1) = head
      BY <1>0, <1>5, <2>3, AtZero
    <3> QED
      BY <1>0, <2>0, <3>1
  <2>5. ASSUME NEW i \in 1..(length - 1)
        PROVE  Append(Tail(Items), d)[i] = buffer'[At(head', i - 1)]
    <3>1. /\ i \in 0..(NElem - 1) /\ 0 \in 0..(NElem - 1) /\ i # 0
          /\ i \in 1..length /\ i + 1 \in 1..length /\ (i + 1) - 1 = i
      BY <1>0
    <3>2. At(head, i) # head /\ At(head, i) \in Slots
      BY <1>0, <3>1, AtDistinct, AtZero, PositionLemma
    <3> QED
      BY <1>0, <1>a, <2>0, <2>2, <2>3, <3>1, <3>2
  <2>6. Items' = Append(Tail(Items), d)
    <3>1. \A i \in 1..length' :
             Append(Tail(Items), d)[i] = buffer'[At(head', i - 1)]
      BY <1>0, <2>0, <2>2, <2>4, <2>5
    <3> QED
      BY <1>d, <2>0, <2>2, <3>1
  <2> QED
    BY <1>0, <1>5, <1>a, <2>0, <2>6
       DEF Deque!PushRing, Deque!PushedRing, Answer, Deque!Answer
<1>6. ASSUME Pop PROVE Deque!Pop
  <2>0. /\ length > 0 /\ length' = length - 1 /\ head' = After(head)
        /\ buffer' = buffer
    BY <1>6 DEF Pop
  <2>1. Items # <<>>
    BY <1>0, <1>a, <2>0
  <2>2. /\ Tail(Items) \in Seq(Data) /\ Len(Tail(Items)) = length - 1
        /\ \A i \in 1..(length - 1) : Tail(Items)[i] = Items[i + 1]
        /\ Head(Items) = Items[1]
    BY <1>0, <1>a, <2>1, HeadTailProperties
  <2>3. buffer[head] = Head(Items)
    BY <1>0, <1>a, <2>0, <2>2, AtZero
  <2>4. ASSUME NEW i \in 1..length' PROVE Tail(Items)[i] = buffer'[At(head', i - 1)]
    <3>1. /\ i - 1 \in 0..(NElem - 1) /\ i + 1 \in 1..length
          /\ (i - 1) + 1 = i /\ (i + 1) - 1 = i
      BY <1>0, <2>0
    <3>2. At(head', i - 1) = At(head, i)
      BY <1>0, <2>0, <3>1, AtNext
    <3> QED
      BY <1>0, <1>a, <2>0, <2>2, <3>1, <3>2
  <2>5. Items' = Tail(Items)
    BY <1>d, <2>0, <2>2, <2>4
  <2> QED
    BY <1>6, <2>1, <2>3, <2>5 DEF Pop, Deque!Pop, Answer, Deque!Answer
<1>7. ASSUME PopFront PROVE Deque!PopFront
  <2>0. /\ length > 0 /\ length' = length - 1 /\ head' = head
        /\ tail' = Before(tail) /\ buffer' = buffer
    BY <1>7 DEF PopFront
  <2>1. Items # <<>>
    BY <1>0, <1>a, <2>0
  <2>2. /\ SubSeq(Items, 1, length - 1) \in Seq(Data)
        /\ Len(SubSeq(Items, 1, length - 1)) = length - 1
        /\ \A i \in 1..(length - 1) : SubSeq(Items, 1, length - 1)[i] = Items[i]
    BY <1>0, <1>a, <2>0
  <2>3. buffer[tail'] = Items[length]
    BY <1>0, <1>a, <2>0
  <2>4. Items' = SubSeq(Items, 1, length - 1)
    <3>1. ASSUME NEW i \in 1..length'
          PROVE  SubSeq(Items, 1, length - 1)[i] = buffer'[At(head', i - 1)]
      <4>1. i \in 1..length /\ i \in 1..(length - 1)
        BY <1>0, <2>0
      <4> QED
        BY <1>a, <2>0, <2>2, <4>1
    <3> QED
      BY <1>d, <2>0, <2>2, <3>1
  <2> QED
    BY <1>7, <1>a, <2>1, <2>3, <2>4
       DEF PopFront, Deque!PopFront, Deque!Front, Deque!Last, Answer, Deque!Answer
<1>8. CASE PushRefused
  <2>1. 0 \in 0..(length - 1) /\ length = NElem
    BY <1>0, <1>8 DEF PushRefused
  <2>2. buffer[At(head, 0)] \in Data
    BY <2>1 DEF IInv, RingInv
  <2>3. Items' = Items
    BY <1>8 DEF PushRefused, Items
  <2>4. Deque!Push(buffer[At(head, 0)])
    <3>1. ~(Len(Items) < NElem)
      BY <1>0, <1>a, <2>1
    <3>2. result' = Answer(FALSE, NoData)
      BY <1>8 DEF PushRefused
    <3>3. (Len(Items) < NElem) = FALSE
      BY <3>1
    <3> QED
      BY <2>3, <3>2, <3>3 DEF Deque!Push, Deque!Pushed, Answer, Deque!Answer
  <2> QED
    BY <2>2, <2>4 DEF Deque!Next
<1>9. CASE PopRefused
  <2>1. Items' = Items /\ Items = <<>>
    BY <1>0, <1>a, <1>9 DEF PopRefused, Items
  <2> QED
    BY <1>9, <2>1 DEF PopRefused, Deque!PopRefused, Deque!Next, Answer, Deque!Answer
<1>10. CASE UNCHANGED vars
  BY <1>10 DEF vars, Items, Deque!vars
<1>11. ASSUME NEW d \in Data, PushRing(d) PROVE Deque!PushRing(d)
  <2>1. length < NElem \/ length = NElem
    BY <1>0
  <2> QED
    BY <1>4, <1>5, <1>11, <2>1
<1> QED
  BY <1>2, <1>3, <1>6, <1>7, <1>8, <1>9, <1>10, <1>11 DEF Next, Deque!Next

(* The ring buffer of queue.c implements the bounded deque it promises:    *)
(* no mix of calls reorders, repeats or loses an element, except the one   *)
(* queue_push_ring drops when the queue is full.                           *)
THEOREM ImplementsDeque == Spec => DequeSpec
<1>1. Init => Deque!Init
  <2> SUFFICES ASSUME Init PROVE Deque!Init
    OBVIOUS
  <2>1. Items = <<>>
    BY DEF Init, Items, ItemsOf
  <2> QED
    BY <2>1 DEF Init, Deque!Init, Answer, Deque!Answer
<1>2. Init => IInv
  BY InitInv
<1>3. IInv /\ [Next]_vars => IInv'
  BY StepInv
<1>4. IInv /\ IInv' /\ [Next]_vars => [Deque!Next]_(Deque!vars)
  BY StepRefines
<1> QED
  BY <1>1, <1>2, <1>3, <1>4, PTL DEF Spec, DequeSpec, Deque!Spec
=============================================================================
