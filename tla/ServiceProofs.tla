---------------------------- MODULE ServiceProofs ----------------------------
(***************************************************************************)
(* The filter of DigitalInput for any number of inputs and any threshold,  *)
(* the acknowledgements of DirectInput for any pins, and Memory's safety   *)
(* for every size of the heap, of the blocks and of the guard.             *)
(***************************************************************************)
EXTENDS DigitalInput, DirectInput, Memory, SequenceTheorems, TLAPS

(* An integrator at n, an input at s that saw u high and d low samples     *)
(* since it changed: the integrator is at its upper end only if the input  *)
(* is on, and an input that is settled has seen as many samples against it *)
(* as the integrator moved.                                                *)
Settled(n, s, u, d) ==
    /\ n = Threshold => s = "on"
    /\ s = "on" => n > 0
    /\ s = "on" => n + d >= Threshold
    /\ s = "off" => n <= u

(* the last k samples moved an integrator at n to one side *)
Kept(n, high, k) == IF high THEN n >= k ELSE n <= Threshold - k

FilterInv ==
    \A i \in Inputs :
        /\ Settled(integrator[i], input[i], ups[i], downs[i])
        /\ Kept(integrator[i], streak[i].high, streak[i].length)

(* The handler was told the input's last change, or is about to be. *)
ToldInv ==
    \A i \in Inputs : \/ changes[i] = <<>> /\ told[i] = input[i]
                      \/ changes[i] = <<input[i]>>

IInv == InputTypeOK /\ FilterInv /\ ToldInv

-----------------------------------------------------------------------------
Count == 0..Threshold

LEMMA CountedRange == ASSUME NEW n \in Count PROVE Counted(n) \in Count
BY InputAssumption DEF Count, Counted

LEMMA NotifiedLemma ==
    ASSUME NEW q \in Seq(Levels), NEW s \in Levels, NEW v \in Levels,
           q = <<>> \/ q = <<s>>
    PROVE  Notified(q, v) = <<v>>
<1>1. Len(<<>>) = 0 /\ Append(<<>>, v) = <<v>>
  OBVIOUS
<1>2. Len(<<s>>) = 1 /\ Tail(<<s>>) = <<>>
  OBVIOUS
<1>3. CASE q = <<>>
  BY <1>1, <1>3 DEF Notified, PushedRing
<1>4. CASE q = <<s>>
  BY <1>1, <1>2, <1>4 DEF Notified, PushedRing
<1> QED
  BY <1>3, <1>4

-----------------------------------------------------------------------------
LEMMA InitOK == InputInit => IInv
<1> SUFFICES ASSUME InputInit PROVE IInv
  OBVIOUS
<1> USE InputAssumption DEF InputInit
<1>1. InputTypeOK
  BY EmptySeq DEF InputTypeOK, Levels
<1>2. FilterInv
  BY DEF FilterInv, Settled, Kept
<1>3. ToldInv
  BY DEF ToldInv
<1> QED
  BY <1>1, <1>2, <1>3 DEF IInv

LEMMA NextOK ==
    ASSUME IInv, [InputNext]_inputVars
    PROVE  IInv'
<1> USE DEF IInv
<1>1. ASSUME NEW high \in SUBSET Inputs, Sample(high) PROVE IInv'
  <2>1. ASSUME NEW i \in Inputs
        PROVE  /\ integrator[i] \in Count /\ input[i] \in Levels
               /\ ups[i] \in Count /\ downs[i] \in Count
               /\ streak[i].high \in BOOLEAN /\ streak[i].length \in Count
    BY DEF InputTypeOK, Count
  <2>2. ASSUME NEW i \in Inputs
        PROVE  /\ integrator'[i] = Integrated(integrator[i], i \in high)
               /\ input'[i] = StateAfter(input[i], integrator[i], integrator'[i])
    BY <1>1 DEF Sample
  <2>3. ASSUME NEW i \in Inputs
        PROVE  /\ integrator'[i] \in Count /\ input'[i] \in Levels
               /\ ups'[i] \in Count /\ downs'[i] \in Count
               /\ Settled(integrator'[i], input'[i], ups'[i], downs'[i])
    <3>1. Settled(integrator[i], input[i], ups[i], downs[i])
      BY DEF FilterInv
    <3>3. CASE i \in high
      <4>1. integrator'[i] = Integrated(integrator[i], TRUE)
        BY <2>2, <3>3 DEF Integrated
      <4>2. /\ ups'[i] = IF input'[i] # input[i] THEN 0 ELSE Counted(ups[i])
            /\ downs'[i] = IF input'[i] # input[i] THEN 0 ELSE downs[i]
        BY <1>1, <3>3 DEF Sample
      <4> QED
        BY <2>1, <2>2, <3>1, <4>1, <4>2, InputAssumption
           DEF Count, Integrated, StateAfter, Settled, Levels, Counted
    <3>4. CASE i \notin high
      <4>1. integrator'[i] = Integrated(integrator[i], FALSE)
        BY <2>2, <3>4 DEF Integrated
      <4>2. /\ ups'[i] = IF input'[i] # input[i] THEN 0 ELSE ups[i]
            /\ downs'[i] = IF input'[i] # input[i] THEN 0 ELSE Counted(downs[i])
        BY <1>1, <3>4 DEF Sample
      <4> QED
        BY <2>1, <2>2, <3>1, <4>1, <4>2, InputAssumption
           DEF Count, Integrated, StateAfter, Settled, Levels, Counted
    <3> QED
      BY <3>3, <3>4
  <2>4. ASSUME NEW i \in Inputs
        PROVE  /\ streak'[i] \in [high : BOOLEAN, length : Count]
               /\ Kept(integrator'[i], streak'[i].high, streak'[i].length)
    <3> DEFINE k == IF streak[i].high = (i \in high)
                    THEN Counted(streak[i].length) ELSE 1
    <3>1. streak'[i] = [high |-> i \in high, length |-> k]
      BY <1>1 DEF Sample
    <3>2. 1 \in Count /\ Counted(streak[i].length) \in Count
      <4>1. streak[i].length \in Count
        BY <2>1
      <4> QED
        BY <4>1, InputAssumption, CountedRange DEF Count
    <3>3. k \in Count
      BY <3>2
    <3> HIDE DEF k
    <3>4. Kept(integrator[i], streak[i].high, streak[i].length)
      BY DEF FilterInv
    <3>5. CASE i \in high
      <4>1. integrator'[i] = Integrated(integrator[i], TRUE)
        BY <2>2, <3>5 DEF Integrated
      <4>2. \/ k = Counted(streak[i].length) /\ streak[i].high
            \/ k = 1
        BY <2>1, <3>5 DEF k
      <4>3. integrator'[i] >= k
        BY <2>1, <3>4, <3>3, <4>1, <4>2, InputAssumption
           DEF Count, Kept, Integrated, Counted
      <4>4. Kept(integrator'[i], i \in high, k)
        BY <3>5, <4>3 DEF Kept
      <4> QED
        BY <3>1, <3>3, <4>4
    <3>6. CASE i \notin high
      <4>1. integrator'[i] = Integrated(integrator[i], FALSE)
        BY <2>2, <3>6 DEF Integrated
      <4>2. \/ k = Counted(streak[i].length) /\ ~streak[i].high
            \/ k = 1
        BY <2>1, <3>6 DEF k
      <4>3. integrator'[i] <= Threshold - k
        BY <2>1, <3>4, <3>3, <4>1, <4>2, InputAssumption
           DEF Count, Kept, Integrated, Counted
      <4>4. Kept(integrator'[i], i \in high, k)
        BY <3>6, <4>3 DEF Kept
      <4> QED
        BY <3>1, <3>3, <4>4
    <3> QED
      BY <3>5, <3>6
  <2>5. ASSUME NEW i \in Inputs
        PROVE  /\ changes'[i] \in Seq(Levels)
               /\ \/ changes'[i] = <<>> /\ told'[i] = input'[i]
                  \/ changes'[i] = <<input'[i]>>
    <3>1. told' = told
      BY <1>1 DEF Sample
    <3>2. \/ changes[i] = <<>> /\ told[i] = input[i]
          \/ changes[i] = <<input[i]>>
      BY DEF ToldInv
    <3>3. CASE input'[i] = input[i]
      <4>1. changes'[i] = changes[i]
        BY <1>1, <3>3 DEF Sample
      <4>2. changes[i] \in Seq(Levels)
        BY DEF InputTypeOK
      <4> QED
        BY <3>1, <3>2, <3>3, <4>1, <4>2
    <3>4. CASE input'[i] # input[i]
      <4>1. changes'[i] = Notified(changes[i], input'[i])
        BY <1>1, <3>4 DEF Sample
      <4>2. changes'[i] = <<input'[i]>>
        BY <2>1, <2>3, <3>2, <4>1, NotifiedLemma DEF InputTypeOK
      <4> QED
        BY <2>3, <4>2
    <3> QED
      BY <3>3, <3>4
  <2>6. InputTypeOK'
    <3>1. /\ integrator' = [i \in Inputs |-> integrator'[i]]
          /\ input' = [i \in Inputs |-> input'[i]]
          /\ changes' = [i \in Inputs |-> changes'[i]]
          /\ ups' = [i \in Inputs |-> ups'[i]]
          /\ downs' = [i \in Inputs |-> downs'[i]]
          /\ streak' = [i \in Inputs |-> streak'[i]]
      BY <1>1 DEF Sample
    <3>2. told' \in [Inputs -> Levels]
      BY <1>1 DEF Sample, InputTypeOK
    <3> QED
      BY <2>3, <2>4, <2>5, <3>1, <3>2 DEF InputTypeOK, Count
  <2>7. FilterInv'
    BY <2>3, <2>4 DEF FilterInv
  <2>8. ToldInv'
    BY <2>5 DEF ToldInv
  <2> QED
    BY <2>6, <2>7, <2>8
<1>2. ASSUME NEW i \in Inputs, OnChange(i) PROVE IInv'
  <2>1. changes[i] = <<input[i]>> /\ input[i] \in Levels
    BY <1>2 DEF OnChange, ToldInv, InputTypeOK
  <2>2. Head(changes[i]) = input[i] /\ Tail(changes[i]) = <<>>
    BY <2>1
  <2>3. InputTypeOK'
    BY <1>2, <2>1, <2>2, EmptySeq DEF OnChange, InputTypeOK
  <2>4. FilterInv'
    BY <1>2 DEF OnChange, FilterInv
  <2>5. ToldInv'
    BY <1>2, <2>2 DEF OnChange, ToldInv, InputTypeOK
  <2> QED
    BY <2>3, <2>4, <2>5
<1>3. CASE UNCHANGED inputVars
  BY <1>3 DEF inputVars, InputTypeOK, FilterInv, ToldInv
<1> QED
  BY <1>1, <1>2, <1>3 DEF InputNext

LEMMA Inductive == InputSpec => []IInv
BY InitOK, NextOK, PTL DEF InputSpec

-----------------------------------------------------------------------------
(* The integrator stays between its ends for any threshold. *)
THEOREM TypeCorrect == InputSpec => []InputTypeOK
<1>1. IInv => InputTypeOK
  BY DEF IInv
<1> QED
  BY <1>1, Inductive, PTL

(* A level that lasts for the duration of the filter is the one the        *)
(* program was told, for any filter.                                       *)
THEOREM SteadyLevelSeen == InputSpec => []SteadySeen
<1>1. ASSUME IInv PROVE SteadySeen
  <2> SUFFICES ASSUME NEW i \in Inputs, streak[i].length = Threshold, changes[i] = <<>>
               PROVE  told[i] = "on" <=> streak[i].high
    BY DEF SteadySeen
  <2>1. told[i] = input[i]
    BY <1>1 DEF IInv, ToldInv
  <2>2. /\ Settled(integrator[i], input[i], ups[i], downs[i])
        /\ Kept(integrator[i], streak[i].high, Threshold)
        /\ integrator[i] \in 0..Threshold
        /\ streak[i].high \in BOOLEAN
    BY <1>1 DEF IInv, FilterInv, InputTypeOK
  <2>3. CASE streak[i].high
    <3>1. integrator[i] = Threshold
      BY <2>2, <2>3, InputAssumption DEF Kept
    <3> QED
      BY <2>1, <2>2, <2>3, <3>1 DEF Settled
  <2>4. CASE ~streak[i].high
    <3>1. ~(integrator[i] > 0)
      BY <2>2, <2>4, InputAssumption DEF Kept
    <3> QED
      BY <2>1, <2>2, <2>4, <3>1 DEF Settled
  <2> QED
    BY <2>3, <2>4
<1> QED
  BY <1>1, Inductive, PTL

(* An input that has settled changes only after a filter's worth of        *)
(* samples at the new level.                                               *)
THEOREM ChangesFiltered == InputSpec => ChangeFiltered
<1> DEFINE Lasting ==
        \A i \in Inputs :
            input[i] # "unknown" /\ input'[i] # input[i] =>
                IF input'[i] = "on" THEN ups[i] >= Threshold - 1
                                    ELSE downs[i] >= Threshold - 1
<1>1. ASSUME IInv, [InputNext]_inputVars PROVE [Lasting]_inputVars
  <2>1. ASSUME NEW high \in SUBSET Inputs, Sample(high) PROVE Lasting
    <3> SUFFICES ASSUME NEW i \in Inputs, input[i] # "unknown", input'[i] # input[i]
                 PROVE  IF input'[i] = "on" THEN ups[i] >= Threshold - 1
                                            ELSE downs[i] >= Threshold - 1
      OBVIOUS
    <3>1. /\ integrator[i] \in Count /\ input[i] \in Levels
          /\ ups[i] \in Count /\ downs[i] \in Count
          /\ Settled(integrator[i], input[i], ups[i], downs[i])
      BY <1>1 DEF IInv, InputTypeOK, FilterInv, Count
    <3>2. /\ integrator'[i] = Integrated(integrator[i], i \in high)
          /\ input'[i] = StateAfter(input[i], integrator[i], integrator'[i])
      BY <2>1 DEF Sample
    <3>3. CASE i \in high
      <4>1. integrator'[i] = Integrated(integrator[i], TRUE)
        BY <3>2, <3>3 DEF Integrated
      <4> QED
        BY <3>1, <3>2, <4>1, InputAssumption
           DEF Count, Integrated, StateAfter, Settled, Levels
    <3>4. CASE i \notin high
      <4>1. integrator'[i] = Integrated(integrator[i], FALSE)
        BY <3>2, <3>4 DEF Integrated
      <4> QED
        BY <3>1, <3>2, <4>1, InputAssumption
           DEF Count, Integrated, StateAfter, Settled, Levels
    <3> QED
      BY <3>3, <3>4
  <2>2. ASSUME NEW i \in Inputs, OnChange(i) PROVE Lasting
    BY <2>2 DEF OnChange
  <2> QED
    BY <1>1, <2>1, <2>2 DEF InputNext
<1>2. IInv /\ [InputNext]_inputVars => [Lasting]_inputVars
  BY <1>1
<1> QED
  BY <1>2, Inductive, PTL DEF InputSpec, ChangeFiltered

-----------------------------------------------------------------------------
(* DirectInput: a queue of one, and the call of _clear_interrupt *)
AtMostOne(S) == {<<>>} \cup {<<e>> : e \in S}
Calls == [pin : Pins, mask : SUBSET Pins]

(* The pins in a queue or a call. *)
Of(q) == {q[k] : k \in DOMAIN q}
Clearing == {clearing[k].pin : k \in DOMAIN clearing}
Sent == Of(changed) \cup ackTimers \cup Of(acks) \cup Clearing

DirectTypes ==
    /\ intFlags \subseteq Pins
    /\ sensed \subseteq Pins
    /\ isrMask \subseteq Pins
    /\ inIsr \in BOOLEAN
    /\ changed \in AtMostOne(Pins)
    /\ ackTimers \subseteq Pins
    /\ acks \in AtMostOne(Pins)
    /\ clearing \in AtMostOne(Calls)

(* A change is in one place at a time, and its pin neither is sensed nor   *)
(* has caused an interrupt that is still to come.                          *)
Apart ==
    /\ Of(changed) \cap ackTimers = {}
    /\ Of(changed) \cap Of(acks) = {}
    /\ Of(changed) \cap Clearing = {}
    /\ ackTimers \cap Of(acks) = {}
    /\ ackTimers \cap Clearing = {}
    /\ Of(acks) \cap Clearing = {}

DirectInv ==
    /\ DirectTypes
    /\ Apart
    /\ Sent \cap sensed = {}
    /\ ~inIsr => Sent \cap intFlags = {}

LEMMA OneElement ==
    ASSUME NEW S, NEW q \in AtMostOne(S), q # <<>>
    PROVE  /\ Head(q) \in S
           /\ q = <<Head(q)>>
           /\ Tail(q) = <<>>
<1>1. PICK e \in S : q = <<e>>
  BY DEF AtMostOne
<1>2. Head(<<e>>) = e /\ Tail(<<e>>) = <<>>
  OBVIOUS
<1> QED
  BY <1>1, <1>2

LEMMA OfQueue ==
    /\ Of(<<>>) = {}
    /\ \A e : Of(<<e>>) = {e}
BY DEF Of

(* the queue of one after a notification *)
LEMMA RingLemma ==
    ASSUME NEW S, NEW q \in AtMostOne(S), NEW e \in S
    PROVE  PushedRing(q, e, 1) = <<e>>
<1>1. Len(<<>>) = 0 /\ Append(<<>>, e) = <<e>>
  OBVIOUS
<1>2. CASE q = <<>>
  BY <1>1, <1>2 DEF PushedRing
<1>3. CASE q # <<>>
  <2>1. q = <<Head(q)>> /\ Tail(q) = <<>>
    BY <1>3, OneElement
  <2>2. Len(<<Head(q)>>) = 1
    OBVIOUS
  <2>3. Len(q) = 1
    BY <2>1, <2>2
  <2>4. PushedRing(q, e, 1) = Append(Tail(q), e)
    BY <2>3 DEF PushedRing
  <2>5. PushedRing(q, e, 1) = Append(<<>>, e)
    BY <2>1, <2>4
  <2> QED
    BY <1>1, <2>5
<1> QED
  BY <1>2, <1>3

(* of the pins that notify, one is left in the queue *)
LEMMA LastLemma ==
    ASSUME NEW S \in SUBSET Pins, NEW q \in AtMostOne(Pins)
    PROVE  /\ LastOf(S, q) \in AtMostOne(Pins)
           /\ Of(LastOf(S, q)) \subseteq S \/ LastOf(S, q) = q
<1>1. CASE S = {}
  BY <1>1 DEF LastOf
<1>2. CASE S # {}
  <2> DEFINE last == CHOOSE p \in S : \A r \in S : r <= p
  <2>1. \E p \in S : \A r \in S : r <= p
    <3> SUFFICES ASSUME \A p \in S : \E r \in S : ~(r <= p) PROVE FALSE
      OBVIOUS
    <3>1. S \subseteq 0..7
      BY DirectAssumption
    <3>2. 7 \notin S
      BY <3>1
    <3>3. 6 \notin S
      BY <3>1, <3>2
    <3>4. 5 \notin S
      BY <3>1, <3>2, <3>3
    <3>5. 4 \notin S
      BY <3>1, <3>2, <3>3, <3>4
    <3>6. S \subseteq 0..3
      BY <3>1, <3>2, <3>3, <3>4, <3>5
    <3>7. 3 \notin S
      BY <3>6
    <3>8. 2 \notin S
      BY <3>6, <3>7
    <3>9. 1 \notin S
      BY <3>6, <3>7, <3>8
    <3>10. 0 \notin S
      BY <3>6, <3>7, <3>8, <3>9
    <3>11. PICK p \in S : TRUE
      BY <1>2
    <3>12. p \in {0, 1, 2, 3}
      BY <3>6
    <3> QED
      BY <3>7, <3>8, <3>9, <3>10, <3>12
  <2>2. last \in S
    BY <2>1
  <2>3. LastOf(S, q) = PushedRing(q, last, 1)
    BY <1>2 DEF LastOf
  <2>4. LastOf(S, q) = <<last>>
    BY <2>2, <2>3, RingLemma
  <2> QED
    BY <2>2, <2>4, OfQueue DEF AtMostOne
<1> QED
  BY <1>1, <1>2

LEMMA DirectInitOK == DirectInit => DirectInv
<1> SUFFICES ASSUME DirectInit PROVE DirectInv
  OBVIOUS
<1>1. DirectTypes
  BY DEF DirectInit, DirectTypes, AtMostOne
<1>2. Of(changed) = {} /\ ackTimers = {} /\ Of(acks) = {} /\ Clearing = {}
  BY OfQueue DEF DirectInit, Clearing
<1> QED
  BY <1>1, <1>2 DEF DirectInv, Apart, Sent

LEMMA DirectNextOK == DirectInv /\ [DirectNext]_directVars => DirectInv'
<1> SUFFICES ASSUME DirectInv, [DirectNext]_directVars PROVE DirectInv'
  OBVIOUS
<1> USE DEF DirectInv, DirectTypes
<1>1. ASSUME NEW p \in Pins, Edge(p) PROVE DirectInv'
  <2>1. Sent' = Sent /\ Apart'
    BY <1>1 DEF Edge, Sent, Apart, Clearing, Of
  <2>2. DirectTypes'
    BY <1>1 DEF Edge
  <2> QED
    BY <1>1, <2>1, <2>2 DEF Edge
<1>2. ASSUME NEW p \in Pins, FilterExpires(p) PROVE DirectInv'
  <2>1. acks' = <<p>> /\ Of(acks') = {p}
    BY <1>2, RingLemma, OfQueue DEF FilterExpires
  <2>2. Clearing = {} /\ Clearing' = {}
    BY <1>2, OfQueue DEF FilterExpires, BetweenCalls, Clearing, Of
  <2>3. ackTimers' = ackTimers \ {p} /\ Of(changed') = Of(changed)
    BY <1>2 DEF FilterExpires
  <2>4. Apart'
    BY <1>2, <2>1, <2>2, <2>3 DEF FilterExpires, Apart
  <2>5. Sent' \subseteq Sent
    BY <1>2, <2>1, <2>2, <2>3 DEF FilterExpires, Sent
  <2>6. DirectTypes'
    BY <1>2, <2>1 DEF FilterExpires, AtMostOne
  <2> QED
    BY <1>2, <2>4, <2>5, <2>6 DEF FilterExpires
<1>3. CASE PinChangeIsr
  <2>1. Causes \subseteq Pins /\ Causes \cap Sent = {}
    BY <1>3 DEF PinChangeIsr, Causes
  <2>2. UNCHANGED <<intFlags, ackTimers, acks, clearing>> /\ inIsr' = TRUE
    BY <1>3 DEF PinChangeIsr
  <2>3. Clearing' = Clearing /\ Of(acks') = Of(acks)
    BY <2>2 DEF Clearing, Of
  <2>4. /\ changed' \in AtMostOne(Pins)
        /\ Of(changed') \subseteq Causes \/ Of(changed') = Of(changed)
    BY <1>3, <2>1, LastLemma DEF PinChangeIsr
  <2>5. Apart'
    BY <2>1, <2>2, <2>3, <2>4 DEF Apart, Sent
  <2>6. Sent' \subseteq Sent \cup Causes
    BY <2>2, <2>3, <2>4 DEF Sent
  <2>7. sensed' = sensed \ Causes /\ isrMask' = isrMask \cup Causes
    BY <1>3 DEF PinChangeIsr
  <2> QED
    BY <2>1, <2>2, <2>4, <2>5, <2>6, <2>7
<1>4. CASE IsrReturn
  <2>1. Sent' = Sent /\ Apart'
    BY <1>4 DEF IsrReturn, Sent, Apart, Clearing, Of
  <2> QED
    BY <1>4, <2>1 DEF IsrReturn
<1>5. CASE DirectHandler
  <2>1. /\ changed = <<Head(changed)>> /\ Tail(changed) = <<>>
        /\ Head(changed) \in Pins
    BY <1>5, OneElement DEF DirectHandler
  <2> DEFINE pin == Head(changed)
  <2>2. Of(changed) = {pin} /\ Of(changed') = {} /\ changed' = <<>>
    BY <1>5, <2>1, OfQueue DEF DirectHandler
  <2>3. Clearing = {} /\ clearing = <<>>
    BY <1>5, OfQueue DEF DirectHandler, BetweenCalls, Clearing, Of
  <2>4. UNCHANGED <<intFlags, sensed, isrMask, inIsr, acks>>
    BY <1>5 DEF DirectHandler
  <2>5. CASE pin \in Filtered
    <3>1. ackTimers' = ackTimers \cup {pin} /\ clearing' = clearing
      BY <1>5, <2>5 DEF DirectHandler
    <3>2. Clearing' = {} /\ Of(acks') = Of(acks)
      BY <2>3, <2>4, <3>1, OfQueue DEF Clearing
    <3>3. Apart' /\ Sent' \subseteq Sent
      BY <2>2, <2>3, <2>4, <3>1, <3>2 DEF Apart, Sent
    <3> QED
      BY <2>1, <2>2, <2>3, <2>4, <3>1, <3>3 DEF AtMostOne
  <2>6. CASE pin \notin Filtered
    <3>1. /\ ackTimers' = ackTimers
          /\ clearing' = <<[pin |-> pin, mask |-> isrMask]>>
      BY <1>5, <2>6 DEF DirectHandler
    <3>2. Clearing' = {pin} /\ Of(acks') = Of(acks)
      BY <2>4, <3>1 DEF Clearing
    <3>3. Apart' /\ Sent' \subseteq Sent
      BY <2>2, <2>3, <2>4, <3>1, <3>2 DEF Apart, Sent
    <3>4. clearing' \in AtMostOne(Calls)
      BY <2>1, <3>1 DEF AtMostOne, Calls
    <3> QED
      BY <2>1, <2>2, <2>3, <2>4, <3>1, <3>3, <3>4 DEF AtMostOne
  <2> QED
    BY <2>5, <2>6
<1>6. CASE AckHandler
  <2>1. acks = <<Head(acks)>> /\ Tail(acks) = <<>> /\ Head(acks) \in Pins
    BY <1>6, OneElement DEF AckHandler
  <2>2. Of(acks) = {Head(acks)} /\ Of(acks') = {} /\ acks' = <<>>
    BY <1>6, <2>1, OfQueue DEF AckHandler
  <2>3. Clearing = {}
    BY <1>6, OfQueue DEF AckHandler, BetweenCalls, Clearing, Of
  <2>4. UNCHANGED <<intFlags, sensed, isrMask, inIsr, changed, ackTimers>>
    BY <1>6 DEF AckHandler
  <2>5. clearing' = <<[pin |-> Head(acks), mask |-> isrMask]>>
    BY <1>6 DEF AckHandler
  <2>6. Clearing' = {Head(acks)} /\ Of(changed') = Of(changed)
    BY <2>4, <2>5 DEF Clearing
  <2>7. Apart' /\ Sent' \subseteq Sent
    BY <2>2, <2>3, <2>4, <2>6 DEF Apart, Sent
  <2>8. clearing' \in AtMostOne(Calls)
    BY <2>1, <2>5 DEF AtMostOne, Calls
  <2> QED
    BY <2>2, <2>4, <2>7, <2>8 DEF AtMostOne
<1>7. CASE ClearInterrupt
  <2>1. clearing = <<Head(clearing)>> /\ Head(clearing) \in Calls
    BY <1>7, OneElement DEF ClearInterrupt
  <2> DEFINE c == Head(clearing)
  <2>2. Clearing = {c.pin} /\ c.pin \in Pins /\ c.mask \subseteq Pins
    BY <2>1 DEF Clearing, Calls
  <2>3. clearing' = <<>> /\ isrMask' = c.mask \ {c.pin} /\ sensed' = sensed \cup {c.pin}
    BY <1>7 DEF ClearInterrupt
  <2>4. UNCHANGED <<intFlags, inIsr, changed, ackTimers, acks>> /\ ~inIsr
    BY <1>7 DEF ClearInterrupt
  <2>5. Clearing' = {} /\ Of(changed') = Of(changed) /\ Of(acks') = Of(acks)
    BY <2>3, <2>4 DEF Clearing
  <2>6. Apart' /\ Sent' = Sent \ {c.pin}
    BY <2>2, <2>4, <2>5 DEF Apart, Sent
  <2> QED
    BY <2>2, <2>3, <2>4, <2>6 DEF AtMostOne
<1>8. CASE UNCHANGED directVars
  BY <1>8 DEF directVars, Apart, Sent, Clearing, Of
<1> QED
  BY <1>1, <1>2, <1>3, <1>4, <1>5, <1>6, <1>7, <1>8 DEF DirectNext

LEMMA OnTheirWayLemma == OnTheirWay = Sent
<1>1. Of(changed) = Range(changed) /\ Of(acks) = Range(acks)
  BY DEF Of, Range
<1>2. {c.pin : c \in Range(clearing)} = Clearing
  BY DEF Clearing, Range
<1> QED
  BY <1>1, <1>2 DEF OnTheirWay, Sent

(* digital_input.c:71, "Mask of bits which are being processed": no pin    *)
(* notifies again before it was acknowledged, for any pins and filters.    *)
THEOREM NotifiesOnce == DirectSpec => OncePerAck
<1>1. DirectInv => (PinChangeIsr => Causes \cap OnTheirWay = {})
  <2> SUFFICES ASSUME DirectInv, PinChangeIsr PROVE Causes \cap OnTheirWay = {}
    OBVIOUS
  <2> QED
    BY OnTheirWayLemma DEF PinChangeIsr, DirectInv, Causes
<1> QED
  BY <1>1, DirectInitOK, DirectNextOK, PTL DEF DirectSpec, OncePerAck

(* While p is the only pin that changed, it is sensed or on its way.       *)
LoneInv(p) == Sent \subseteq {p} /\ p \in sensed \cup Sent

LEMMA LoneStep ==
    ASSUME NEW p \in Pins, DirectInv, LoneInv(p), (isrMask \subseteq {p})',
           [DirectNext]_directVars
    PROVE  LoneInv(p)'
<1> USE DEF DirectInv, DirectTypes, LoneInv
<1>1. ASSUME NEW r \in Pins, Edge(r) PROVE LoneInv(p)'
  <2>1. Sent' = Sent /\ sensed' = sensed
    BY <1>1 DEF Edge, Sent, Clearing, Of
  <2> QED
    BY <2>1
<1>2. ASSUME NEW r \in Pins, FilterExpires(r) PROVE LoneInv(p)'
  <2>1. Of(acks') = {r}
    BY <1>2, RingLemma, OfQueue DEF FilterExpires
  <2>2. /\ r \in ackTimers /\ ackTimers' = ackTimers \ {r}
        /\ Of(changed') = Of(changed) /\ Clearing' = Clearing /\ sensed' = sensed
    BY <1>2 DEF FilterExpires, Clearing
  <2>3. r = p
    BY <2>2 DEF Sent
  <2>4. Sent' = {p}
    BY <2>1, <2>2, <2>3 DEF Sent
  <2> QED
    BY <2>4
<1>3. CASE PinChangeIsr
  <2>1. Causes \subseteq {p} /\ sensed' = sensed \ Causes
    BY <1>3 DEF PinChangeIsr
  <2>2. ackTimers' = ackTimers /\ Clearing' = Clearing /\ Of(acks') = Of(acks)
    BY <1>3 DEF PinChangeIsr, Clearing, Of
  <2>3. CASE Causes = {}
    <3>1. changed' = changed
      BY <1>3, <2>3 DEF PinChangeIsr, LastOf
    <3>2. Sent' = Sent
      BY <2>2, <3>1 DEF Sent, Of
    <3> QED
      BY <2>1, <2>3, <3>2
  <2>4. CASE Causes = {p}
    <3> DEFINE last == CHOOSE e \in Causes : \A r \in Causes : r <= e
    <3>1. last = p
      <4>1. p <= p
        BY DirectAssumption
      <4> QED
        BY <2>4, <4>1
    <3>2. changed' = <<p>>
      <4>1. changed' = PushedRing(changed, last, 1)
        BY <1>3, <2>4 DEF PinChangeIsr, LastOf
      <4> HIDE DEF last
      <4> QED
        BY <3>1, <4>1, RingLemma
    <3>3. Of(changed') = {p}
      BY <3>2, OfQueue
    <3>4. Sent' = {p}
      BY <2>2, <3>3 DEF Sent
    <3> QED
      BY <3>4
  <2> QED
    BY <2>1, <2>3, <2>4
<1>4. CASE IsrReturn
  <2>1. Sent' = Sent /\ sensed' = sensed
    BY <1>4 DEF IsrReturn, Sent, Clearing, Of
  <2> QED
    BY <2>1
<1>5. CASE DirectHandler
  <2> DEFINE pin == Head(changed)
  <2>1. Of(changed) = {pin} /\ Of(changed') = {}
    BY <1>5, OneElement, OfQueue DEF DirectHandler
  <2>2. pin = p
    BY <2>1 DEF Sent
  <2>3. Clearing = {}
    BY <1>5, OfQueue DEF DirectHandler, BetweenCalls, Clearing, Of
  <2>4. Of(acks') = Of(acks) /\ sensed' = sensed
    BY <1>5 DEF DirectHandler, Of
  <2>5. CASE pin \in Filtered
    <3>1. ackTimers' = ackTimers \cup {p} /\ Clearing' = {}
      BY <1>5, <2>2, <2>3, <2>5 DEF DirectHandler, Clearing
    <3> QED
      BY <2>1, <2>4, <3>1 DEF Sent
  <2>6. CASE pin \notin Filtered
    <3>1. /\ ackTimers' = ackTimers
          /\ clearing' = <<[pin |-> p, mask |-> isrMask]>>
      BY <1>5, <2>2, <2>6 DEF DirectHandler
    <3>2. Clearing' = {p}
      BY <3>1 DEF Clearing
    <3> QED
      BY <2>1, <2>4, <3>1, <3>2 DEF Sent
  <2> QED
    BY <2>5, <2>6
<1>6. CASE AckHandler
  <2>1. Of(acks) = {Head(acks)} /\ Of(acks') = {}
    BY <1>6, OneElement, OfQueue DEF AckHandler
  <2>2. Head(acks) = p
    BY <2>1 DEF Sent
  <2>3. Clearing' = {p}
    BY <1>6, <2>2 DEF AckHandler, Clearing
  <2>4. Of(changed') = Of(changed) /\ ackTimers' = ackTimers
    BY <1>6 DEF AckHandler, Of
  <2> QED
    BY <2>1, <2>3, <2>4 DEF Sent
<1>7. CASE ClearInterrupt
  <2>1. clearing = <<Head(clearing)>>
    BY <1>7, OneElement DEF ClearInterrupt
  <2>2. Clearing = {Head(clearing).pin}
    BY <2>1 DEF Clearing
  <2>3. Head(clearing).pin = p
    BY <2>2 DEF Sent
  <2>4. sensed' = sensed \cup {p} /\ Clearing' = {}
    BY <1>7, <2>3 DEF ClearInterrupt, Clearing
  <2>5. Of(changed') = Of(changed) /\ ackTimers' = ackTimers /\ Of(acks') = Of(acks)
    BY <1>7 DEF ClearInterrupt, Of
  <2> QED
    BY <2>4, <2>5 DEF Sent
<1>8. CASE UNCHANGED directVars
  BY <1>8 DEF directVars, Sent, Clearing, Of
<1> QED
  BY <1>1, <1>2, <1>3, <1>4, <1>5, <1>6, <1>7, <1>8 DEF DirectNext

(* A pin is not lost while it is the only one to change: it is sensed, or  *)
(* its change is queued, in its filter or being acknowledged. This is the  *)
(* safety half of LonePinSensed.                                           *)
THEOREM LonePinKept ==
    ASSUME NEW p \in Pins
    PROVE  DirectSpec /\ [](isrMask \subseteq {p}) => [](p \in sensed \cup OnTheirWay)
<1>1. DirectInit => LoneInv(p)
  <2> SUFFICES ASSUME DirectInit PROVE LoneInv(p)
    OBVIOUS
  <2>1. Of(changed) = {} /\ ackTimers = {} /\ Of(acks) = {} /\ Clearing = {}
    BY OfQueue DEF DirectInit, Clearing
  <2> QED
    BY <2>1 DEF DirectInit, LoneInv, Sent
<1>2. LoneInv(p) => p \in sensed \cup OnTheirWay
  BY OnTheirWayLemma DEF LoneInv
<1>3. DirectInv /\ LoneInv(p) /\ (isrMask \subseteq {p})' /\ [DirectNext]_directVars
        => LoneInv(p)'
  BY LoneStep
<1> QED
  BY <1>1, <1>2, <1>3, DirectInitOK, DirectNextOK, PTL DEF DirectSpec

-----------------------------------------------------------------------------
(* Memory *)

(* Nowhere above the stack's lowest byte is a gap as long as the guard. *)
NoGap == \A a \in depth..(HeapSize - 1) : ~((a..(a + Guard - 1)) \subseteq filled)

MemoryInv == MemoryTypeOK /\ NoGap

-----------------------------------------------------------------------------
LEMMA MemoryInitOK == MemoryInit => MemoryInv
<1> SUFFICES ASSUME MemoryInit PROVE MemoryInv
  OBVIOUS
<1>1. nextBlock = 0 /\ depth = HeapSize /\ filled = Heap /\ HeapSize \in Nat
  BY MemoryAssumption DEF MemoryInit
<1>2. failed \in BOOLEAN
  BY DEF MemoryInit
<1>3. nextBlock \in Nat /\ nextBlock <= HeapSize /\ depth \in 0..HeapSize
  BY <1>1
<1>4. depth..(HeapSize - 1) = {}
  BY <1>1
<1> QED
  BY <1>1, <1>2, <1>3, <1>4 DEF MemoryInv, MemoryTypeOK, NoGap

LEMMA MemoryNextOK == MemoryInv /\ [MemoryNext]_memoryVars => MemoryInv'
<1> SUFFICES ASSUME MemoryInv, [MemoryNext]_memoryVars PROVE MemoryInv'
  OBVIOUS
<1> USE MemoryAssumption DEF MemoryInv, MemoryTypeOK, NoGap
<1>1. ASSUME NEW n \in BlockSizes, Alloc(n) PROVE MemoryInv'
  <2>1. n \in Nat \ {0} /\ nextBlock + n - 1 \in Checked(n)
    BY DEF Checked
  <2>2. nextBlock + n - 1 \in Heap
    BY <1>1, <2>1 DEF Alloc
  <2>3. nextBlock' <= HeapSize /\ nextBlock' \in Nat
    BY <1>1, <2>1, <2>2 DEF Alloc, Heap
  <2>4. filled' \subseteq filled /\ depth' = depth /\ failed' = failed
    BY <1>1 DEF Alloc
  <2> QED
    BY <2>3, <2>4
<1>2. ASSUME NEW n \in BlockSizes, AllocRefused(n) PROVE MemoryInv'
  BY <1>2 DEF AllocRefused
<1>3. ASSUME NEW d \in Heap, NEW written \in SUBSET (d..(depth - 1)), Grow(d, written)
      PROVE  MemoryInv'
  <2>1. UNCHANGED <<nextBlock, failed>> /\ filled' \subseteq filled
    BY <1>3 DEF Grow
  <2>2. depth' = d /\ d \in 0..HeapSize
    BY <1>3 DEF Grow, Heap
  <2>3. NoGap'
    BY <1>3, <2>2 DEF Grow
  <2>4. (~failed => nextBlock <= HeapSize)' /\ (nextBlock \in Nat)'
    BY <2>1
  <2> QED
    BY <2>1, <2>2, <2>3, <2>4
<1>4. CASE UNCHANGED memoryVars
  BY <1>4 DEF memoryVars
<1> QED
  BY <1>1, <1>2, <1>3, <1>4 DEF MemoryNext

(* The variables keep their ranges, and no block that was given out        *)
(* reaches beyond the heap.                                                *)
THEOREM HeapTypes == MemorySpec => []MemoryTypeOK
<1>1. MemoryInv => MemoryTypeOK
  BY DEF MemoryInv
<1> QED
  BY <1>1, MemoryInitOK, MemoryNextOK, PTL DEF MemorySpec

(* mem.c:63, "A check is done to detect if there is a risk a collision     *)
(* with the stack": a block that is given out ends below every byte the    *)
(* stack has reached.                                                      *)
THEOREM BlocksClear == MemorySpec => BlockClearOfStack
<1>1. ASSUME MemoryInv, MemoryNext
      PROVE  nextBlock' # nextBlock /\ ~failed' => nextBlock' <= depth
  <2> USE MemoryAssumption, <1>1 DEF MemoryInv, MemoryTypeOK, NoGap
  <2>1. ASSUME NEW n \in BlockSizes, Alloc(n) PROVE nextBlock' <= depth
    <3> DEFINE first == IF depth <= nextBlock THEN nextBlock ELSE depth
    <3>1. n \in Nat \ {0} /\ nextBlock + n - 1 \in Checked(n)
      BY DEF Checked
    <3>2. nextBlock + n - 1 \in Heap /\ nextBlock' = nextBlock + n
      BY <2>1, <3>1 DEF Alloc
    <3>3. SUFFICES ASSUME depth < nextBlock + n PROVE FALSE
      BY <3>1, <3>2
    <3>4. first \in depth..(HeapSize - 1) /\ first \in nextBlock..(nextBlock + n - 1)
      BY <3>1, <3>2, <3>3 DEF Heap
    <3>5. (first..(first + Guard - 1)) \subseteq Checked(n)
      BY <3>1, <3>4 DEF Checked
    <3> QED
      BY <2>1, <3>4, <3>5 DEF Alloc
  <2> QED
    BY <2>1 DEF MemoryNext, AllocRefused, Grow
<1>2. MemoryInv /\ [MemoryNext]_memoryVars
        => [nextBlock' # nextBlock /\ ~failed' => nextBlock' <= depth]_memoryVars
  BY <1>1 DEF memoryVars
<1> QED
  BY <1>2, MemoryInitOK, MemoryNextOK, PTL DEF MemorySpec, BlockClearOfStack
=============================================================================
