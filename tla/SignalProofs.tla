----------------------------- MODULE SignalProofs -----------------------------
(***************************************************************************)
(* The outputs of DigitalOutput for any number of outputs and any          *)
(* sequences: at most one item of an output is on its way.  The sounder of *)
(* Piezzo for any tunes, any tones and any number of chains of timers.     *)
(***************************************************************************)
EXTENDS DigitalOutput, Piezzo, SequenceTheorems, FiniteSetTheorems, TLAPS

Holds(q, o) == \E i \in 1..Len(q) : q[i] = o
Distinct(q) == \A i, j \in 1..Len(q) : q[i] = q[j] => i = j

(* what is on its way for an output: a timer, an element of the queue, or  *)
(* nothing                                                                 *)
OnItsWay ==
    /\ Distinct(steps)
    /\ \A o \in Outputs :
          /\ stepTimers[o].other = 0
          /\ ~(stepTimers[o].named = 1 /\ Holds(steps, o))

(* an output that was set has nothing on its way and keeps its level *)
SetInv ==
    \A o \in Outputs :
        setLevel[o] # "none" =>
            /\ stepTimers[o].named = 0
            /\ ~Holds(steps, o)
            /\ pin[o] = setLevel[o]

(* a repeated sequence always has something on its way *)
RepeatInv ==
    \A o \in Outputs :
        setLevel[o] = "none" /\ sequence[o].repeat =>
            stepTimers[o].named = 1 \/ Holds(steps, o)

(* and so has one that is not at its end *)
MidwayInv ==
    \A o \in Outputs :
        setLevel[o] = "none" /\ position[o] # 1 =>
            stepTimers[o].named = 1 \/ Holds(steps, o)

IInv == OutputTypeOK /\ OnItsWay /\ SetInv /\ RepeatInv /\ MidwayInv

Timers == [named : 0..1, other : 0..1]
AnySequence == Sequences \cup {NoSequence}

-----------------------------------------------------------------------------
(* Lemmas about the queue: an output that is not in it finds room. *)

LEMMA RoomLemma ==
    ASSUME NEW q \in Seq(Outputs), Distinct(q),
           NEW o \in Outputs, ~Holds(q, o)
    PROVE  Len(q) < QueueSize
<1> DEFINE S == 1..Len(q)
           T == Outputs \ {o}
<1>1. Len(q) \in Nat /\ q \in [S -> Outputs]
  BY LenProperties
<1>2. q \in [S -> T]
  BY <1>1 DEF Holds
<1>3. IsFiniteSet(S) /\ Cardinality(S) = Len(q)
  BY <1>1, FS_Interval
<1>4. /\ IsFiniteSet(T) /\ Cardinality(T) = Cardinality(Outputs) - 1
      /\ Cardinality(Outputs) \in Nat /\ Cardinality(T) \in Nat
  BY OutputAssumption, FS_RemoveElement, FS_CardinalityType
<1>5. ~ \E x, y \in S : x # y /\ q[x] = q[y]
  BY DEF Distinct
<1>6. ~(Cardinality(T) < Cardinality(S))
  BY <1>2, <1>3, <1>4, <1>5, FS_PigeonHole
<1> QED
  BY <1>1, <1>3, <1>4, <1>6, OutputAssumption

LEMMA PushLemma ==
    ASSUME NEW q \in Seq(Outputs), Distinct(q),
           NEW o \in Outputs, ~Holds(q, o),
           NEW r, r = PushedRing(q, o, QueueSize)
    PROVE  /\ r \in Seq(Outputs)
           /\ Distinct(r)
           /\ \A p \in Outputs : Holds(r, p) <=> Holds(q, p) \/ p = o
<1>1. r = Append(q, o)
  BY RoomLemma DEF PushedRing
<1>2. /\ Len(q) \in Nat
      /\ r \in Seq(Outputs) /\ Len(r) = Len(q) + 1
      /\ \A i \in 1..Len(q) : r[i] = q[i]
      /\ r[Len(q) + 1] = o
  BY <1>1, LenProperties
<1>3. Distinct(r)
  BY <1>2 DEF Distinct, Holds
<1>4. \A p \in Outputs : Holds(r, p) <=> Holds(q, p) \/ p = o
  BY <1>2 DEF Holds
<1> QED
  BY <1>2, <1>3, <1>4

LEMMA PopLemma ==
    ASSUME NEW q \in Seq(Outputs), q # <<>>, Distinct(q)
    PROVE  /\ Head(q) \in Outputs
           /\ Tail(q) \in Seq(Outputs)
           /\ Distinct(Tail(q))
           /\ Holds(q, Head(q))
           /\ \A p \in Outputs : Holds(Tail(q), p) <=> Holds(q, p) /\ p # Head(q)
<1>1. /\ Len(q) \in Nat \ {0}
      /\ Head(q) = q[1] /\ Head(q) \in Outputs
      /\ Tail(q) \in Seq(Outputs)
      /\ Len(Tail(q)) = Len(q) - 1
      /\ \A i \in 1..Len(Tail(q)) : Tail(q)[i] = q[i + 1]
  BY EmptySeq, HeadTailProperties
<1>2. Holds(q, Head(q))
  BY <1>1 DEF Holds
<1>3. Distinct(Tail(q))
  BY <1>1 DEF Distinct
<1>4. ASSUME NEW p \in Outputs
      PROVE  Holds(Tail(q), p) <=> Holds(q, p) /\ p # Head(q)
  <2>1. ASSUME Holds(Tail(q), p) PROVE Holds(q, p) /\ p # Head(q)
    <3>1. PICK i \in 1..Len(Tail(q)) : Tail(q)[i] = p
      BY <2>1 DEF Holds
    <3>2. i + 1 \in 1..Len(q) /\ 1 \in 1..Len(q) /\ i + 1 # 1 /\ q[i + 1] = p
      BY <1>1, <3>1
    <3> QED
      BY <1>1, <3>2 DEF Holds, Distinct
  <2>2. ASSUME Holds(q, p), p # Head(q) PROVE Holds(Tail(q), p)
    <3>1. PICK i \in 1..Len(q) : q[i] = p
      BY <2>2 DEF Holds
    <3>2. i - 1 \in 1..Len(Tail(q)) /\ (i - 1) + 1 = i
      BY <1>1, <2>2, <3>1
    <3>3. Tail(q)[i - 1] = p
      BY <1>1, <3>1, <3>2
    <3> QED
      BY <3>2, <3>3 DEF Holds
  <2> QED
    BY <2>1, <2>2
<1> QED
  BY <1>1, <1>2, <1>3, <1>4

-----------------------------------------------------------------------------
(* Lemmas about one output. *)

LEMMA ParsedLemma ==
    ASSUME NEW s \in AnySequence, NEW n \in 1..(Len(s.items) + 1), NEW p \in {"on", "off"}
    PROVE  /\ Parsed(s, n, p).pin \in {"on", "off"}
           /\ Parsed(s, n, p).next \in 1..(Len(s.items) + 1)
           /\ Parsed(s, n, p).next # 1 => Parsed(s, n, p).more
<1>1. s.items \in Seq(Effects)
  <2>1. CASE s \in Sequences
    BY <2>1, OutputAssumption
  <2>2. CASE s = NoSequence
    BY <2>2, EmptySeq DEF NoSequence
  <2> QED
    BY <2>1, <2>2 DEF AnySequence
<1>2. Len(s.items) \in Nat
  BY <1>1, LenProperties
<1>3. Parsed(s, n, p).pin \in {"on", "off"}
  <2>1. CASE n > Len(s.items)
    BY <2>1 DEF Parsed
  <2>2. CASE ~(n > Len(s.items))
    <3>1. s.items[n] \in Effects
      BY <1>1, <1>2, <2>2, ElementOfSeq
    <3> QED
      BY <2>2, <3>1 DEF Parsed, Effects
  <2> QED
    BY <2>1, <2>2
<1>4. Parsed(s, n, p).next \in 1..(Len(s.items) + 1)
  <2>1. Parsed(s, n, p).next \in {1, n + 1}
    BY DEF Parsed
  <2>2. Parsed(s, n, p).next = n + 1 => ~(n > Len(s.items)) \/ n + 1 = 1
    BY DEF Parsed
  <2> QED
    BY <1>2, <2>1, <2>2
<1>5. Parsed(s, n, p).next # 1 => Parsed(s, n, p).more
  BY DEF Parsed
<1> QED
  BY <1>3, <1>4, <1>5

LEMMA TimerLemma ==
    ASSUME NEW t \in Timers
    PROVE  /\ StepCancelled(t) \in Timers
           /\ StepCancelled(t).named = 0
           /\ StepCancelled(t).other = t.other
           /\ StepForgotten(t) \in Timers
           /\ StepForgotten(t).named = 0
           /\ t.named = 0 => StepForgotten(t).other = t.other
           /\ StepArmed(t) \in Timers
           /\ StepArmed(t).named = 1
           /\ t.named = 0 => StepArmed(t).other = t.other
BY DEF Timers, StepCancelled, StepForgotten, StepArmed

(* the handler does item n of sequence s on o, whose timers are t *)
Stepping(o, s, n, t) ==
    /\ OutputTypeOK
    /\ o \in Outputs /\ s \in AnySequence /\ t \in Timers
    /\ n \in 1..(Len(s.items) + 1)
    /\ sequence' = [sequence EXCEPT ![o] = s]
    /\ Step(o, s, n, t)

(* what it leaves *)
Stepped(o, s, t) ==
    /\ pin' \in [Outputs -> {"on", "off"}]
    /\ sequence' \in [Outputs -> AnySequence]
    /\ position' \in [Outputs -> Nat]
    /\ \A p \in Outputs : position'[p] \in 1..(Len(sequence'[p].items) + 1)
    /\ stepTimers' \in [Outputs -> Timers]
    /\ \A p \in Outputs \ {o} : /\ pin'[p] = pin[p]
                                /\ stepTimers'[p] = stepTimers[p]
                                /\ sequence'[p] = sequence[p]
                                /\ position'[p] = position[p]
    /\ sequence'[o] = s
    /\ stepTimers'[o] \in {StepArmed(t), StepForgotten(t)}
    /\ s.repeat \/ position'[o] # 1 => stepTimers'[o] = StepArmed(t)

LEMMA StepLemma ==
    ASSUME NEW o, NEW s, NEW n, NEW t, Stepping(o, s, n, t)
    PROVE  Stepped(o, s, t)
<1> DEFINE item == Parsed(s, n, pin[o])
<1>0. s \in AnySequence /\ n \in 1..(Len(s.items) + 1) /\ pin[o] \in {"on", "off"}
  BY DEF Stepping, OutputTypeOK
<1>1. item.pin \in {"on", "off"} /\ item.next \in 1..(Len(s.items) + 1)
  BY <1>0, ParsedLemma
<1>9. item.next # 1 => item.more
  BY <1>0, ParsedLemma
<1> HIDE DEF item
<1> USE DEF Stepping, Stepped
<1>2. /\ pin' = [pin EXCEPT ![o] = item.pin]
      /\ position' = [position EXCEPT ![o] = item.next]
      /\ stepTimers' = [stepTimers EXCEPT ![o] =
                            IF item.more \/ s.repeat THEN StepArmed(t)
                                                     ELSE StepForgotten(t)]
  BY DEF Step, item
<1>3. StepArmed(t) \in Timers /\ StepForgotten(t) \in Timers
  BY TimerLemma
<1>4. /\ pin \in [Outputs -> {"on", "off"}]
      /\ sequence \in [Outputs -> AnySequence]
      /\ position \in [Outputs -> Nat]
      /\ \A p \in Outputs : position[p] \in 1..(Len(sequence[p].items) + 1)
      /\ stepTimers \in [Outputs -> Timers]
  BY DEF OutputTypeOK, AnySequence, Timers
<1>5. sequence' \in [Outputs -> AnySequence] /\ sequence'[o] = s
      /\ \A p \in Outputs \ {o} : sequence'[p] = sequence[p]
  BY <1>4
<1>6. /\ position' \in [Outputs -> Nat]
      /\ \A p \in Outputs : position'[p] \in 1..(Len(sequence'[p].items) + 1)
  BY <1>1, <1>2, <1>4, <1>5
<1>7. position'[o] = item.next /\ \A p \in Outputs \ {o} : position'[p] = position[p]
  BY <1>2, <1>4
<1>8. s.repeat \/ position'[o] # 1 => stepTimers'[o] = StepArmed(t)
  BY <1>9, <1>2, <1>4, <1>7
<1> QED
  BY <1>1, <1>2, <1>3, <1>4, <1>5, <1>6, <1>7, <1>8

-----------------------------------------------------------------------------
LEMMA InitOK == OutputInit => IInv
<1> SUFFICES ASSUME OutputInit PROVE IInv
  OBVIOUS
<1> USE DEF OutputInit
<1>1. OutputTypeOK
  BY EmptySeq DEF OutputTypeOK, NoSequence
<1>2. \A o \in Outputs : ~Holds(steps, o)
  BY EmptySeq DEF Holds
<1>3. OnItsWay
  BY EmptySeq DEF OnItsWay, Distinct
<1>4. SetInv /\ RepeatInv /\ MidwayInv
  BY DEF SetInv, RepeatInv, MidwayInv, NoSequence
<1> QED
  BY <1>1, <1>3, <1>4 DEF IInv

LEMMA NextOK ==
    ASSUME IInv, [OutputNext]_outputVars
    PROVE  IInv'
<1> USE DEF IInv
<1>0. /\ pin \in [Outputs -> {"on", "off"}]
      /\ sequence \in [Outputs -> AnySequence]
      /\ position \in [Outputs -> Nat]
      /\ stepTimers \in [Outputs -> Timers]
      /\ steps \in Seq(Outputs)
      /\ setLevel \in [Outputs -> {"on", "off", "none"}]
      /\ \A o \in Outputs : position[o] \in 1..(Len(sequence[o].items) + 1)
  BY DEF OutputTypeOK, AnySequence, Timers
<1>1. ASSUME NEW o \in Outputs, NEW v \in {"on", "off"},
             Call,
             pin' = [pin EXCEPT ![o] = v],
             stepTimers' = [stepTimers EXCEPT ![o] = StepCancelled(@)],
             setLevel' = [setLevel EXCEPT ![o] = v],
             UNCHANGED <<sequence, position, steps>>
      PROVE  IInv'
  <2>1. /\ stepTimers' \in [Outputs -> Timers]
        /\ stepTimers'[o].named = 0 /\ stepTimers'[o].other = 0
        /\ \A p \in Outputs \ {o} : stepTimers'[p] = stepTimers[p]
    BY <1>0, <1>1, TimerLemma DEF OnItsWay
  <2>2. OutputTypeOK'
    BY <1>0, <1>1, <2>1 DEF OutputTypeOK, Timers
  <2>3. OnItsWay'
    BY <1>1, <2>1 DEF OnItsWay
  <2>4. \A p \in Outputs : ~Holds(steps, p)
    BY <1>1, EmptySeq DEF Call, Holds
  <2>5. SetInv' /\ RepeatInv' /\ MidwayInv'
    BY <1>0, <1>1, <2>1, <2>4 DEF SetInv, RepeatInv, MidwayInv
  <2> QED
    BY <2>2, <2>3, <2>5
<1>2. ASSUME NEW o \in Outputs, NEW v \in {"on", "off"}, Set(o, v) PROVE IInv'
  BY <1>1, <1>2 DEF Set
<1>3. ASSUME NEW o \in Outputs, Toggle(o) PROVE IInv'
  <2> DEFINE v == IF pin[o] = "on" THEN "off" ELSE "on"
  <2>1. v \in {"on", "off"} /\ pin' = [pin EXCEPT ![o] = v] /\ pin'[o] = v
    BY <1>0, <1>3 DEF Toggle
  <2> HIDE DEF v
  <2> QED
    BY <1>1, <1>3, <2>1 DEF Toggle
<1>4. ASSUME NEW o \in Outputs, NEW s \in Sequences, Start(o, s) PROVE IInv'
  <2> DEFINE t == StepCancelled(stepTimers[o])
  <2>1. t \in Timers /\ t.named = 0 /\ t.other = 0
    <3>1. stepTimers[o] \in Timers /\ stepTimers[o].other = 0
      BY <1>0 DEF OnItsWay
    <3> QED
      BY <3>1, TimerLemma
  <2>2. s \in AnySequence /\ 1 \in 1..(Len(s.items) + 1)
    BY OutputAssumption, LenProperties DEF AnySequence
  <2>3. /\ sequence' = [sequence EXCEPT ![o] = s]
        /\ Step(o, s, 1, t)
        /\ setLevel' = [setLevel EXCEPT ![o] = "none"]
        /\ steps' = steps
    BY <1>4 DEF Start
  <2> HIDE DEF t
  <2>4. Stepped(o, s, t)
    <3>1. Stepping(o, s, 1, t)
      BY <2>1, <2>2, <2>3 DEF Stepping
    <3> QED
      BY <3>1, StepLemma
  <2>5. /\ stepTimers'[o].other = 0
        /\ s.repeat \/ position'[o] # 1 => stepTimers'[o].named = 1
    BY <2>1, <2>4, TimerLemma DEF Stepped
  <2>6. \A p \in Outputs : ~Holds(steps, p)
    BY <1>4, EmptySeq DEF Start, Call, Holds
  <2>7. OutputTypeOK'
    BY <1>0, <2>3, <2>4 DEF Stepped, OutputTypeOK, AnySequence, Timers
  <2>8. /\ sequence'[o] = s
         /\ \A p \in Outputs \ {o} :
               /\ pin'[p] = pin[p] /\ stepTimers'[p] = stepTimers[p]
               /\ sequence'[p] = sequence[p] /\ position'[p] = position[p]
    BY <2>4 DEF Stepped
  <2>9. OnItsWay'
    BY <2>3, <2>5, <2>6, <2>8 DEF OnItsWay
  <2>10. setLevel'[o] = "none" /\ \A p \in Outputs \ {o} : setLevel'[p] = setLevel[p]
    BY <1>0, <2>3
  <2>11. SetInv'
    BY <2>3, <2>6, <2>8, <2>10 DEF SetInv
  <2>12. RepeatInv'
    BY <2>3, <2>5, <2>8, <2>10 DEF RepeatInv
  <2>13. MidwayInv'
    BY <2>3, <2>5, <2>8, <2>10 DEF MidwayInv
  <2> QED
    BY <2>7, <2>9, <2>11, <2>12, <2>13
<1>5. ASSUME NEW o \in Outputs, NEW t \in {"named", "other"}, ExpireStep(o, t)
      PROVE  IInv'
  <2>1. t = "named" /\ stepTimers[o].named = 1
    BY <1>5 DEF ExpireStep, OnItsWay
  <2>2. ~Holds(steps, o) /\ Distinct(steps)
    BY <2>1 DEF OnItsWay
  <2>3. /\ steps' = PushedRing(steps, o, QueueSize)
        /\ stepTimers' = [stepTimers EXCEPT ![o]["named"] = 0]
        /\ UNCHANGED <<pin, sequence, position, setLevel>>
    BY <1>5, <2>1 DEF ExpireStep
  <2>4. /\ steps' \in Seq(Outputs)
        /\ Distinct(steps')
        /\ \A p \in Outputs : Holds(steps', p) <=> Holds(steps, p) \/ p = o
    BY <1>0, <2>2, <2>3, PushLemma
  <2>5. /\ stepTimers' \in [Outputs -> Timers]
        /\ stepTimers'[o].named = 0
        /\ stepTimers'[o].other = stepTimers[o].other
        /\ \A p \in Outputs \ {o} : stepTimers'[p] = stepTimers[p]
    <3>1. stepTimers[o] \in Timers
      BY <1>0
    <3>2. stepTimers'[o] = [named |-> 0, other |-> stepTimers[o].other]
      BY <1>0, <2>3, <3>1 DEF Timers
    <3>3. [named |-> 0, other |-> stepTimers[o].other] \in Timers
      BY <3>1 DEF Timers
    <3>4. /\ DOMAIN stepTimers' = Outputs
          /\ \A p \in Outputs \ {o} : stepTimers'[p] = stepTimers[p]
          /\ stepTimers' = [p \in Outputs |-> stepTimers'[p]]
      BY <1>0, <2>3
    <3>5. stepTimers' \in [Outputs -> Timers]
      <4>1. \A p \in Outputs : stepTimers'[p] \in Timers
        BY <1>0, <3>2, <3>3, <3>4
      <4> QED
        BY <3>4, <4>1
    <3> QED
      BY <3>2, <3>4, <3>5
  <2>6. OutputTypeOK'
    BY <1>0, <2>3, <2>4, <2>5 DEF OutputTypeOK, Timers
  <2>7. OnItsWay'
    BY <2>4, <2>5 DEF OnItsWay
  <2>8. SetInv'
    BY <2>1, <2>3, <2>4, <2>5 DEF SetInv
  <2>9. RepeatInv' /\ MidwayInv'
    BY <2>3, <2>4, <2>5 DEF RepeatInv, MidwayInv
  <2> QED
    BY <2>6, <2>7, <2>8, <2>9
<1>6. CASE OnStep
  <2> DEFINE o == Head(steps)
             s == sequence[o]
             t == stepTimers[o]
  <2>1. /\ o \in Outputs
        /\ Tail(steps) \in Seq(Outputs)
        /\ Distinct(Tail(steps))
        /\ Holds(steps, o)
        /\ \A p \in Outputs : Holds(Tail(steps), p) <=> Holds(steps, p) /\ p # o
    BY <1>0, <1>6, PopLemma DEF OnStep, OnItsWay
  <2>2. /\ steps' = Tail(steps)
        /\ Step(o, s, position[o], t)
        /\ UNCHANGED <<sequence, setLevel>>
    BY <1>6 DEF OnStep
  <2> HIDE DEF o
  <2>3. /\ s \in AnySequence /\ t \in Timers
        /\ position[o] \in 1..(Len(s.items) + 1)
        /\ sequence' = [sequence EXCEPT ![o] = s]
    BY <1>0, <2>1, <2>2
  <2>4. t.named = 0 /\ t.other = 0 /\ setLevel[o] = "none"
    <3>1. ~(t.named = 1) /\ t.other = 0
      BY <2>1 DEF OnItsWay
    <3>2. t.named = 0
      BY <2>3, <3>1 DEF Timers
    <3>3. setLevel[o] = "none"
      BY <2>1 DEF SetInv
    <3> QED
      BY <3>1, <3>2, <3>3
  <2>5. Stepped(o, s, t)
    <3>1. Stepping(o, s, position[o], t)
      BY <2>1, <2>2, <2>3 DEF Stepping
    <3> QED
      BY <3>1, StepLemma
  <2>6. /\ stepTimers'[o].other = 0
        /\ s.repeat \/ position'[o] # 1 => stepTimers'[o].named = 1
    BY <2>3, <2>4, <2>5, TimerLemma DEF Stepped
  <2>7. OutputTypeOK'
    BY <1>0, <2>1, <2>2, <2>5 DEF Stepped, OutputTypeOK, AnySequence, Timers
  <2>8. /\ sequence'[o] = s
         /\ \A p \in Outputs \ {o} :
               /\ pin'[p] = pin[p] /\ stepTimers'[p] = stepTimers[p]
               /\ sequence'[p] = sequence[p] /\ position'[p] = position[p]
    BY <2>5 DEF Stepped
  <2>9. OnItsWay'
    BY <2>1, <2>2, <2>6, <2>8 DEF OnItsWay
  <2>10. SetInv'
    BY <2>1, <2>2, <2>4, <2>8 DEF SetInv
  <2>11. RepeatInv'
    BY <2>1, <2>2, <2>6, <2>8 DEF RepeatInv
  <2>12. MidwayInv'
    BY <2>1, <2>2, <2>6, <2>8 DEF MidwayInv
  <2> QED
    BY <2>7, <2>9, <2>10, <2>11, <2>12
<1>7. CASE UNCHANGED outputVars
  BY <1>7 DEF outputVars, OutputTypeOK, OnItsWay, SetInv, RepeatInv, MidwayInv
<1> QED
  BY <1>2, <1>3, <1>4, <1>5, <1>6, <1>7 DEF OutputNext

LEMMA Inductive == OutputSpec => []IInv
BY InitOK, NextOK, PTL DEF OutputSpec

-----------------------------------------------------------------------------
(* Every position is one of its sequence, for any sequences. *)
THEOREM TypeCorrect == OutputSpec => []OutputTypeOK
<1>1. IInv => OutputTypeOK
  BY DEF IInv
<1> QED
  BY <1>1, Inductive, PTL

(* A pin keeps the level it was set to, whatever sequences ran before. *)
THEOREM LevelKept == OutputSpec => []SetSticks
<1>1. IInv => SetSticks
  BY DEF IInv, SetInv, SetSticks
<1> QED
  BY <1>1, Inductive, PTL

(* At most one item of an output is on its way, and one of a repeated      *)
(* sequence always is, for any number of outputs up to the size of the     *)
(* queue they share.                                                       *)
THEOREM ItemsDoNotPile == OutputSpec => []OneSequence
<1>1. ASSUME IInv PROVE OneSequence
  <2> SUFFICES ASSUME NEW o \in Outputs
               PROVE  /\ Steps(o) <= 1
                      /\ setLevel[o] = "none" /\ sequence[o].repeat => Steps(o) = 1
    BY DEF OneSequence
  <2> DEFINE W == {i \in DOMAIN steps : steps[i] = o}
  <2>1. DOMAIN steps = 1..Len(steps)
    BY <1>1, LenProperties DEF IInv, OutputTypeOK
  <2>2. /\ stepTimers[o].named \in 0..1
        /\ stepTimers[o].other = 0
        /\ ~(stepTimers[o].named = 1 /\ Holds(steps, o))
        /\ Distinct(steps)
    BY <1>1 DEF IInv, OutputTypeOK, OnItsWay
  <2>3. CASE Holds(steps, o)
    <3>1. PICK i \in 1..Len(steps) : steps[i] = o
      BY <2>3 DEF Holds
    <3>2. W = {i}
      BY <2>1, <2>2, <3>1 DEF Distinct
    <3>3. Cardinality(W) = 1
      BY <3>2, FS_Singleton
    <3> HIDE DEF W
    <3>4. Steps(o) = stepTimers[o].named + stepTimers[o].other + Cardinality(W)
      BY DEF Steps, W
    <3> QED
      BY <2>2, <2>3, <3>3, <3>4
  <2>4. CASE ~Holds(steps, o)
    <3>1. W = {}
      BY <2>1, <2>4 DEF Holds
    <3>2. Cardinality(W) = 0
      BY <3>1, FS_EmptySet
    <3> HIDE DEF W
    <3>3. Steps(o) = stepTimers[o].named + stepTimers[o].other + Cardinality(W)
      BY DEF Steps, W
    <3>4. setLevel[o] = "none" /\ sequence[o].repeat => stepTimers[o].named = 1
      BY <1>1, <2>4 DEF IInv, RepeatInv
    <3> QED
      BY <2>2, <3>2, <3>3, <3>4
  <2> QED
    BY <2>3, <2>4
<1> QED
  BY <1>1, Inductive, PTL

(* digital_output.h: a sequence that has begun does not stop before its    *)
(* end: while items are left one is on its way, unless the output was set  *)
(* or toggled.                                                             *)
NotStuckMidway ==
    \A o \in Outputs : setLevel[o] = "none" /\ position[o] # 1 => Steps(o) = 1

(* For any outputs up to the size of the queue and any sequences, no       *)
(* sequence is stuck midway: the safety half of SequenceEnds.              *)
THEOREM NeverStuck == OutputSpec => []NotStuckMidway
<1>1. ASSUME IInv, OneSequence PROVE NotStuckMidway
  <2> SUFFICES ASSUME NEW o \in Outputs, setLevel[o] = "none", position[o] # 1
               PROVE  Steps(o) = 1
    BY DEF NotStuckMidway
  <2> DEFINE W == {i \in DOMAIN steps : steps[i] = o}
  <2>1. /\ stepTimers[o].named \in 0..1 /\ stepTimers[o].other = 0
        /\ stepTimers[o].named = 1 \/ Holds(steps, o)
    BY <1>1 DEF IInv, OutputTypeOK, OnItsWay, MidwayInv
  <2>2. IsFiniteSet(W) /\ Cardinality(W) \in Nat
    <3>1. Len(steps) \in Nat /\ DOMAIN steps = 1..Len(steps)
      BY <1>1, LenProperties DEF IInv, OutputTypeOK
    <3>2. IsFiniteSet(DOMAIN steps)
      BY <3>1, FS_Interval
    <3>3. IsFiniteSet(W)
      BY <3>2, FS_Subset
    <3> QED
      BY <3>3, FS_CardinalityType
  <2>3. Holds(steps, o) => Cardinality(W) # 0
    <3>1. DOMAIN steps = 1..Len(steps)
      BY <1>1, LenProperties DEF IInv, OutputTypeOK
    <3>2. Holds(steps, o) => W # {}
      BY <3>1 DEF Holds
    <3> QED
      BY <2>2, <3>2, FS_EmptySet
  <2>4. Steps(o) = stepTimers[o].named + stepTimers[o].other + Cardinality(W)
    BY DEF Steps
  <2>5. Steps(o) <= 1
    BY <1>1 DEF OneSequence
  <2> HIDE DEF W
  <2> QED
    BY <2>1, <2>2, <2>3, <2>4, <2>5
<1>2. IInv /\ OneSequence => NotStuckMidway
  BY <1>1
<1> QED
  BY <1>2, Inductive, ItemsDoNotPile, PTL

-----------------------------------------------------------------------------
(* The sounder. *)
(* At the end of a tune there is nothing a tone could recover either. *)
TuneEndInv == Over /\ ~silenced => recovery = Off /\ (~playing => pwm = Off)

(* While notes are left something will play them. *)
TuneGoesOn == notes # <<>> /\ ~silenced => Chains(noteTimers) # 0

SoundInv ==
    /\ SoundTypeOK
    /\ Chains(noteTimers) <= MaxChains
    /\ ToneOverTune
    /\ TuneEndInv
    /\ TuneGoesOn

NoteTimerStates == [named : 0..1, other : 0..MaxChains]
NoteDue == IF "note" \in sounds THEN 1 ELSE 0

(* what the types of the other variables are, for steps that change few *)
SoundValues ==
    /\ Off \notin Pitches /\ Off \notin Tones
    /\ \A tone \in Tones : tone \notin Pitches
    /\ MaxChains \in Nat \ {0}

-----------------------------------------------------------------------------
LEMMA SoundValuesOK == SoundValues
BY PiezzoAssumption DEF SoundValues

(* A step that plays a note, or ends the tune, with n chains besides t. *)
LEMMA PlayLemma ==
    ASSUME SoundTypeOK, ToneOverTune, NEW left \in Seq(Notes), NEW slur \in BOOLEAN,
           NEW t \in NoteTimerStates, NEW n \in 0..1,
           t.named + t.other + n < MaxChains,
           PlayNextNote(left, slur, t)
    PROVE  /\ notes' \in Seq(Notes) /\ slurNext' \in BOOLEAN
           /\ lastTc' \in Pitches \cup {Off}
           /\ recovery' \in Pitches \cup {Off}
           /\ pwm' \in Pitches \cup Tones \cup {Off}
           /\ noteTimers' \in NoteTimerStates
           /\ noteTimers'.named + noteTimers'.other + n <= MaxChains
           /\ playing => pwm' \notin Pitches
           /\ \/ noteTimers'.named = 1
              \/ recovery' = Off /\ notes' = <<>> /\ (~playing => pwm' = Off)
<1>0. SoundValues /\ t.named \in 0..1 /\ t.other \in 0..MaxChains
  BY SoundValuesOK DEF NoteTimerStates
<1>1. CASE NextNote(left, slur, t)
  <2>1. /\ Head(left) \in Notes /\ Tail(left) \in Seq(Notes)
    BY <1>1, HeadTailProperties DEF NextNote
  <2>2. Head(left).pitch \in Pitches \cup {Off} /\ Head(left).slur \in BOOLEAN
    BY <2>1 DEF Notes
  <2>3. /\ notes' \in Seq(Notes) /\ slurNext' \in BOOLEAN
        /\ lastTc' \in Pitches \cup {Off}
        /\ recovery' \in Pitches \cup {Off}
    BY <1>1, <2>1, <2>2 DEF NextNote
  <2>4. pwm' \in Pitches \cup Tones \cup {Off}
    BY <1>1, <2>2 DEF NextNote, SoundTypeOK
  <2>5. playing => pwm' = pwm
    BY <1>1 DEF NextNote, Heard
  <2>6. noteTimers' = [named |-> 1, other |-> t.other + t.named]
    BY <1>1 DEF NextNote, NoteArmed
  <2>7. t.other + t.named \in 0..MaxChains /\ 1 + (t.other + t.named) + n <= MaxChains
    BY <1>0 DEF SoundValues
  <2>8. /\ noteTimers' \in NoteTimerStates /\ noteTimers'.named = 1
        /\ noteTimers'.named + noteTimers'.other + n <= MaxChains
    BY <2>6, <2>7 DEF NoteTimerStates
  <2> QED
    BY <2>3, <2>4, <2>5, <2>8 DEF ToneOverTune
<1>2. CASE EndTune(left, slur, t)
  <2>1. /\ notes' \in Seq(Notes) /\ slurNext' \in BOOLEAN
        /\ lastTc' \in Pitches \cup {Off} /\ recovery' = Off /\ notes' = <<>>
        /\ pwm' = IF playing THEN pwm ELSE Off
        /\ noteTimers' = t
    BY <1>2 DEF EndTune, SoundTypeOK
  <2>2. pwm' \in Pitches \cup Tones \cup {Off}
    BY <2>1 DEF SoundTypeOK
  <2>3. playing => pwm' \notin Pitches
    BY <2>1 DEF ToneOverTune
  <2>4. noteTimers'.named + noteTimers'.other + n <= MaxChains
    BY <1>0, <2>1 DEF SoundValues
  <2> QED
    BY <2>1, <2>2, <2>3, <2>4
<1> QED
  BY <1>1, <1>2 DEF PlayNextNote

-----------------------------------------------------------------------------
LEMMA SoundInitOK == SoundInit => SoundInv
<1> SUFFICES ASSUME SoundInit PROVE SoundInv
  OBVIOUS
<1>0. SoundValues
  BY SoundValuesOK
<1> USE DEF SoundInit, SoundValues
<1>1. SoundTypeOK
  <2>1. 0 \in 0..1 /\ 0 \in 0..MaxChains
    BY <1>0
  <2>2. noteTimers \in [named : 0..1, other : 0..MaxChains] /\ stops \in 0..MaxChains
    BY <2>1
  <2>3. notes \in Seq(Notes)
    BY EmptySeq
  <2> QED
    BY <2>2, <2>3 DEF SoundTypeOK
<1>2. Chains(noteTimers) <= MaxChains
  BY <1>0 DEF Chains
<1>3. ToneOverTune /\ TuneEndInv /\ TuneGoesOn
  BY <1>0 DEF ToneOverTune, TuneEndInv, TuneGoesOn
<1> QED
  BY <1>1, <1>2, <1>3 DEF SoundInv

LEMMA SoundNextOK ==
    ASSUME SoundInv, [SoundNext]_soundVars
    PROVE  SoundInv'
<1> USE DEF SoundInv
<1>0. /\ SoundValues
      /\ noteTimers \in NoteTimerStates
      /\ noteTimers.named \in 0..1 /\ noteTimers.other \in 0..MaxChains
      /\ NoteDue \in 0..1
      /\ Chains(noteTimers) = noteTimers.named + noteTimers.other + NoteDue
  BY SoundValuesOK DEF SoundTypeOK, NoteTimerStates, NoteDue, Chains
<1>1. ASSUME NEW tune \in Tunes, Play(tune) PROVE SoundInv'
  <2> DEFINE t == NoteCancelled(noteTimers)
  <2>1. t = [named |-> 0, other |-> noteTimers.other]
    BY <1>0 DEF NoteCancelled, NoteTimerStates
  <2>2. /\ t \in NoteTimerStates
        /\ t.named + t.other + NoteDue < MaxChains
    BY <1>0, <1>1, <2>1 DEF Play, Chains, NoteTimerStates, NoteDue
  <2>3. tune \in Seq(Notes)
    BY PiezzoAssumption
  <2>4. /\ PlayNextNote(tune, FALSE, t) /\ ~silenced'
        /\ UNCHANGED <<playing, stops, sounds>>
    BY <1>1 DEF Play
  <2> HIDE DEF t
  <2>5. /\ notes' \in Seq(Notes) /\ slurNext' \in BOOLEAN
        /\ lastTc' \in Pitches \cup {Off}
        /\ recovery' \in Pitches \cup {Off}
        /\ pwm' \in Pitches \cup Tones \cup {Off}
        /\ noteTimers' \in NoteTimerStates
        /\ noteTimers'.named + noteTimers'.other + NoteDue <= MaxChains
        /\ playing => pwm' \notin Pitches
        /\ \/ noteTimers'.named = 1
           \/ recovery' = Off /\ notes' = <<>> /\ (~playing => pwm' = Off)
    BY <1>0, <2>2, <2>3, <2>4, PlayLemma
  <2>6. SoundTypeOK'
    BY <1>1, <2>4, <2>5 DEF SoundTypeOK, NoteTimerStates, Play
  <2>7. Chains(noteTimers)' <= MaxChains
    BY <2>4, <2>5 DEF Chains, NoteDue
  <2>8. ToneOverTune'
    BY <2>4, <2>5 DEF ToneOverTune
  <2>9. noteTimers'.named = 1 => ~Over'
    BY <2>5 DEF Over, Chains, NoteTimerStates
  <2>10. TuneEndInv'
    BY <2>4, <2>5, <2>9 DEF TuneEndInv
  <2>11. noteTimers'.named = 1 => Chains(noteTimers)' # 0
    BY <2>5 DEF Chains, NoteTimerStates
  <2>12. TuneGoesOn'
    BY <2>5, <2>11 DEF TuneGoesOn
  <2> QED
    BY <2>6, <2>7, <2>8, <2>10, <2>12
<1>2. CASE Stop
  <2>1. noteTimers' = [named |-> 0, other |-> noteTimers.other]
    BY <1>0, <1>2 DEF Stop, NoteCancelled, NoteTimerStates
  <2>2. SoundTypeOK'
    BY <1>0, <1>2, <2>1 DEF Stop, SoundTypeOK
  <2>3. Chains(noteTimers)' <= MaxChains
    BY <1>0, <1>2, <2>1 DEF Stop, Chains, SoundValues
  <2>4. ToneOverTune' /\ TuneEndInv'
    BY <1>0, <1>2 DEF Stop, ToneOverTune, TuneEndInv, SoundValues
  <2>5. TuneGoesOn'
    BY <1>2 DEF Stop, TuneGoesOn
  <2> QED
    BY <2>2, <2>3, <2>4, <2>5
<1>3. ASSUME NEW tone \in Tones, StartTimedTone(tone) \/ StartTone(tone) PROVE SoundInv'
  <2>1. /\ pwm' = tone /\ playing' = TRUE
        /\ stops' \in 0..MaxChains
        /\ UNCHANGED <<notes, slurNext, lastTc, recovery, noteTimers, sounds, silenced>>
    BY <1>0, <1>3 DEF StartTimedTone, StartTone, SoundTypeOK, SoundValues
  <2>2. SoundTypeOK'
    BY <2>1 DEF SoundTypeOK
  <2>3. /\ Chains(noteTimers)' = Chains(noteTimers) /\ Chains(noteTimers)' <= MaxChains
        /\ Over' <=> Over
    BY <2>1 DEF Chains, Over
  <2>4. ToneOverTune'
    BY <1>0, <2>1 DEF ToneOverTune, SoundValues
  <2>5. TuneEndInv'
    BY <2>1, <2>3 DEF TuneEndInv
  <2>6. TuneGoesOn'
    BY <2>1, <2>3 DEF TuneGoesOn
  <2> QED
    BY <2>2, <2>3, <2>4, <2>5, <2>6
<1>4. ASSUME EndTone, sounds' \subseteq sounds, "note" \in sounds' <=> "note" \in sounds
      PROVE  SoundInv'
  <2>1. /\ playing' = FALSE /\ pwm' = recovery /\ recovery' = Off
        /\ UNCHANGED <<notes, slurNext, lastTc, noteTimers, stops, silenced>>
    BY <1>4 DEF EndTone
  <2>2. SoundTypeOK'
    BY <1>4, <2>1 DEF SoundTypeOK
  <2>3. /\ Chains(noteTimers)' = Chains(noteTimers) /\ Chains(noteTimers)' <= MaxChains
        /\ Over' <=> Over
    BY <1>4, <2>1 DEF Chains, Over
  <2>4. ToneOverTune'
    BY <2>1 DEF ToneOverTune
  <2>5. TuneEndInv'
    BY <2>1, <2>3 DEF TuneEndInv
  <2>6. TuneGoesOn'
    BY <2>1, <2>3 DEF TuneGoesOn
  <2> QED
    BY <2>2, <2>3, <2>4, <2>5, <2>6
<1>5. CASE StopTone
  BY <1>4, <1>5 DEF StopTone
<1>6. CASE OnToneStop
  BY <1>4, <1>6 DEF OnToneStop
<1>7. CASE OnNote
  <2>1. /\ "note" \in sounds /\ PlayNextNote(notes, slurNext, noteTimers)
        /\ sounds' = sounds \ {"note"}
        /\ UNCHANGED <<playing, stops, silenced>>
    BY <1>7 DEF OnNote
  <2>2. noteTimers.named + noteTimers.other + 0 < MaxChains
    BY <1>0, <2>1 DEF NoteDue, SoundValues
  <2>3. notes \in Seq(Notes) /\ slurNext \in BOOLEAN /\ 0 \in 0..1
    BY DEF SoundTypeOK
  <2>4. /\ notes' \in Seq(Notes) /\ slurNext' \in BOOLEAN
        /\ lastTc' \in Pitches \cup {Off}
        /\ recovery' \in Pitches \cup {Off}
        /\ pwm' \in Pitches \cup Tones \cup {Off}
        /\ noteTimers' \in NoteTimerStates
        /\ noteTimers'.named + noteTimers'.other + 0 <= MaxChains
        /\ playing => pwm' \notin Pitches
        /\ \/ noteTimers'.named = 1
           \/ recovery' = Off /\ notes' = <<>> /\ (~playing => pwm' = Off)
    BY <1>0, <2>1, <2>2, <2>3, PlayLemma
  <2>5. SoundTypeOK'
    BY <2>1, <2>4 DEF SoundTypeOK, NoteTimerStates
  <2>6. Chains(noteTimers)' <= MaxChains
    BY <2>1, <2>4 DEF Chains
  <2>7. ToneOverTune'
    BY <2>1, <2>4 DEF ToneOverTune
  <2>8. noteTimers'.named = 1 => ~Over'
    BY <2>4 DEF Over, Chains, NoteTimerStates
  <2>9. TuneEndInv'
    BY <2>1, <2>4, <2>8 DEF TuneEndInv
  <2>10. noteTimers'.named = 1 => Chains(noteTimers)' # 0
    BY <2>4 DEF Chains, NoteTimerStates
  <2>11. TuneGoesOn'
    BY <2>4, <2>10 DEF TuneGoesOn
  <2> QED
    BY <2>5, <2>6, <2>7, <2>9, <2>11
<1>8. ASSUME NEW t \in {"named", "other"}, ExpireNote(t) PROVE SoundInv'
  <2>1. /\ sounds' = sounds \cup {"note"}
        /\ UNCHANGED <<notes, slurNext, lastTc, pwm, playing, recovery, stops, silenced>>
    BY <1>8 DEF ExpireNote
  <2>2. /\ noteTimers' \in NoteTimerStates
        /\ noteTimers'.named + noteTimers'.other
              = noteTimers.named + noteTimers.other - 1
    <3>1. CASE t = "named"
      <4>1. noteTimers' = [named |-> noteTimers.named - 1, other |-> noteTimers.other]
            /\ noteTimers.named > 0
        BY <1>0, <1>8, <3>1 DEF ExpireNote, NoteTimerStates
      <4> QED
        BY <1>0, <4>1 DEF NoteTimerStates
    <3>2. CASE t = "other"
      <4>1. noteTimers' = [named |-> noteTimers.named, other |-> noteTimers.other - 1]
            /\ noteTimers.other > 0
        BY <1>0, <1>8, <3>2 DEF ExpireNote, NoteTimerStates
      <4> QED
        BY <1>0, <4>1 DEF NoteTimerStates, SoundValues
    <3> QED
      BY <3>1, <3>2
  <2>3. SoundTypeOK'
    BY <2>1, <2>2 DEF SoundTypeOK, NoteTimerStates
  <2>4. Chains(noteTimers)' <= MaxChains
    <3>1. Chains(noteTimers)' = noteTimers'.named + noteTimers'.other + 1
      BY <2>1 DEF Chains
    <3>2. noteTimers.named + noteTimers.other + NoteDue <= MaxChains
      BY <1>0
    <3> QED
      BY <1>0, <2>2, <3>1, <3>2 DEF SoundValues
  <2>5. Chains(noteTimers)' # 0
    <3>1. Chains(noteTimers)' = noteTimers'.named + noteTimers'.other + 1
      BY <2>1 DEF Chains
    <3>2. noteTimers'.named \in Nat /\ noteTimers'.other \in Nat
      BY <2>2 DEF NoteTimerStates
    <3> QED
      BY <3>1, <3>2
  <2>6. ToneOverTune' /\ TuneEndInv'
    BY <2>1, <2>5 DEF ToneOverTune, TuneEndInv, Over
  <2>7. TuneGoesOn'
    BY <2>5 DEF TuneGoesOn
  <2> QED
    BY <2>3, <2>4, <2>6, <2>7
<1>9. CASE ExpireTone
  <2>1. /\ stops' = stops - 1 /\ stops > 0
        /\ sounds' = sounds \cup {"tone_stop"}
        /\ UNCHANGED <<notes, slurNext, lastTc, pwm, playing, recovery, noteTimers, silenced>>
    BY <1>9 DEF ExpireTone
  <2>2. SoundTypeOK'
    BY <1>0, <2>1 DEF SoundTypeOK, SoundValues
  <2>3. /\ Chains(noteTimers)' = Chains(noteTimers) /\ Chains(noteTimers)' <= MaxChains
        /\ Over' <=> Over
    BY <2>1 DEF Chains, Over
  <2>4. ToneOverTune' /\ TuneEndInv'
    BY <2>1, <2>3 DEF ToneOverTune, TuneEndInv
  <2>5. TuneGoesOn'
    BY <2>1, <2>3 DEF TuneGoesOn
  <2> QED
    BY <2>2, <2>3, <2>4, <2>5
<1>10. CASE UNCHANGED soundVars
  <2>1. UNCHANGED <<notes, slurNext, lastTc, pwm, playing, recovery, noteTimers, stops,
                    sounds, silenced>>
    BY <1>10 DEF soundVars
  <2> QED
    BY <2>1 DEF SoundTypeOK, Chains, ToneOverTune, TuneEndInv, TuneGoesOn, Over
<1> QED
  BY <1>1, <1>2, <1>3, <1>5, <1>6, <1>7, <1>8, <1>9, <1>10
     DEF SoundNext, ExpireSound

LEMMA SoundInductive == SoundSpec => []SoundInv
BY SoundInitOK, SoundNextOK, PTL DEF SoundSpec

-----------------------------------------------------------------------------
(* The timers stay within the bound, for any tunes. *)
THEOREM SoundTypes == SoundSpec => []SoundTypeOK
<1>1. SoundInv => SoundTypeOK
  BY DEF SoundInv
<1> QED
  BY <1>1, SoundInductive, PTL

(* No note is heard over a tone, for any tunes and tones. *)
THEOREM NoNoteOverTone == SoundSpec => []ToneOverTune
<1>1. SoundInv => ToneOverTune
  BY DEF SoundInv
<1> QED
  BY <1>1, SoundInductive, PTL

(* No tune leaves a note sounding, however many chains of timers played it *)
(* and whatever tones came between.                                        *)
THEOREM EndsSilent == SoundSpec => []SilentAtEnd
<1>1. SoundInv => SilentAtEnd
  BY DEF SoundInv, TuneEndInv, SilentAtEnd
<1> QED
  BY <1>1, SoundInductive, PTL

(* A tune that was begun does not stop before its last note: while notes   *)
(* are left a timer or a notification will play the next one, whatever     *)
(* tones and beeps came between, unless the sounder was silenced. This is  *)
(* the safety half of TuneEnds.                                            *)
THEOREM TuneNeverStuck == SoundSpec => []TuneGoesOn
<1>1. SoundInv => TuneGoesOn
  BY DEF SoundInv
<1> QED
  BY <1>1, SoundInductive, PTL
=============================================================================
