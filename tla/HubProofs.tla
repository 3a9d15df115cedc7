------------------------------ MODULE HubProofs ------------------------------
(***************************************************************************)
(* HubProtocol's safety for all periods, so also for a unit of one         *)
(* millisecond.  The grace period must be shorter than the period of the   *)
(* check: were they equal, the check could cancel a timer that has expired *)
(* and whose handler then ends the new grace period at once.               *)
(* From it, the bound of System on the time a valve outlives the wish for  *)
(* it, for all periods that also keep a grace period and a check within    *)
(* the first check, as the code's do.                                      *)
(***************************************************************************)
EXTENDS System, SequenceTheorems, TLAPS

Periods ==
    /\ Grace < Check
    /\ Check <= FirstCheck
    /\ FirstCheck + Check <= MaxAge

(* The two timers' queues hold at most one notification. *)
QueuesInv ==
    /\ pending["accept"] \in {<<>>, <<NoArgument>>}
    /\ pending["check"] \in {<<>>, <<NoArgument>>}

(* The handler commands are accepted again by is notified by one timer     *)
(* only, one grace period after _protocol_process was called.              *)
GraceInv ==
    /\ strayTimers = {}
    /\ ready => acceptTimer = 0 /\ pending["accept"] = <<>> /\ processed >= Grace
    /\ acceptTimer > 0 => ~ready /\ pending["accept"] = <<>>
                            /\ processed + acceptTimer = Grace
    /\ pending["accept"] # <<>> => processed = Grace

(* units to the next call of _on_check_comms *)
Left == IF pending["check"] = <<>> THEN checkTimer ELSE 0

(* When no command was counted since the last check, no command was        *)
(* applied since then either.                                              *)
CheckInv ==
    /\ checkTimer <= FirstCheck
    /\ pending["check"] # <<>> => checkTimer = Check
    /\ ~received => processed >= Check - Left

(* The last command counted was counted since the last check, or valves    *)
(* are on and it was in the period before.                                 *)
SilenceInv ==
    /\ received => silence <= FirstCheck - Left
    /\ ~received /\ pins # {} => silence <= FirstCheck + Check - Left

IInv == HubTypeOK /\ ValvesMatchCommand /\ QueuesInv /\ GraceInv /\ CheckInv /\ SilenceInv

-----------------------------------------------------------------------------
Bytes == Commands \cup {Garbage, NoArgument}

LEMMA TailOfOne == ASSUME NEW d PROVE Tail(<<d>>) = <<>>
OBVIOUS

LEMMA PoppedLemma ==
    ASSUME HubTypeOK, NEW h \in Handlers, pending[h] # <<>>
    PROVE  /\ Popped(h) \in [Handlers -> Seq(Bytes)]
           /\ Popped(h)[h] = Tail(pending[h])
           /\ \A g \in Handlers \ {h} : Popped(h)[g] = pending[g]
           /\ Head(pending[h]) \in Bytes
<1>1. pending \in [Handlers -> Seq(Bytes)]
  BY DEF HubTypeOK, Bytes
<1>2. Tail(pending[h]) \in Seq(Bytes) /\ Head(pending[h]) \in Bytes
  BY <1>1, HeadTailProperties
<1> QED
  BY <1>1, <1>2 DEF Popped

LEMMA NotifiedLemma ==
    ASSUME HubTypeOK, NEW h \in Handlers, NEW d \in Bytes
    PROVE  /\ Notifying(h, d) \in [Handlers -> Seq(Bytes)]
           /\ \A g \in Handlers \ {h} : Notifying(h, d)[g] = pending[g]
<1>1. pending \in [Handlers -> Seq(Bytes)]
  BY DEF HubTypeOK, Bytes
<1>2. \A s \in Seq(Bytes) : Append(s, d) \in Seq(Bytes)
  BY AppendProperties
<1>3. ASSUME ~(Len(pending[h]) < 1)
      PROVE  Tail(pending[h]) \in Seq(Bytes)
  <2>1. pending[h] \in Seq(Bytes) /\ pending[h] # <<>>
    BY <1>1, <1>3, EmptySeq, LenProperties
  <2> QED
    BY <2>1, HeadTailProperties
<1>4. PushedRing(pending[h], d, 1) \in Seq(Bytes)
  BY <1>1, <1>2, <1>3 DEF PushedRing
<1> QED
  BY <1>1, <1>4 DEF Notifying

LEMMA ValvesLemma ==
    ASSUME NEW cmd
    PROVE  ValvesFor(cmd) \in SUBSET Valves /\ ValvesFor(Idle) = {}
BY HubAssumption DEF ValvesFor

-----------------------------------------------------------------------------
LEMMA InvInit == Periods /\ HubInit => IInv
<1> SUFFICES ASSUME Periods, HubInit PROVE IInv
  OBVIOUS
<1>1. pending \in [Handlers -> Seq(Bytes)]
  BY EmptySeq DEF HubInit
<1>2. HubTypeOK
  <2>1. /\ pins \in SUBSET Valves /\ currentCmd \in Commands
        /\ incoming \in Commands \cup {Garbage}
        /\ pending \in [Handlers -> Seq(Commands \cup {Garbage, NoArgument})]
    BY <1>1, HubAssumption DEF HubInit, Bytes
  <2>2. /\ acceptTimer \in 0..Grace /\ strayTimers \in SUBSET (1..Grace)
        /\ checkTimer \in Nat \ {0}
        /\ processed \in 0..MaxAge /\ silence \in 0..MaxAge
    BY HubAssumption DEF HubInit
  <2>3. ready \in BOOLEAN /\ received \in BOOLEAN
    BY DEF HubInit
  <2> QED
    BY <2>1, <2>2, <2>3 DEF HubTypeOK
<1>3. ValvesMatchCommand
  BY HubAssumption DEF HubInit, ValvesMatchCommand
<1>4. /\ pending["accept"] = <<>>
      /\ pending["check"] = <<>>
  BY DEF HubInit, Handlers
<1>5. Left = FirstCheck
  BY <1>4 DEF Left, HubInit
<1>6. QueuesInv /\ GraceInv
  BY <1>4, HubAssumption DEF QueuesInv, GraceInv, HubInit, Periods
<1>7. CheckInv /\ SilenceInv
  BY <1>4, <1>5, HubAssumption DEF CheckInv, SilenceInv, HubInit, Periods
<1> QED
  BY <1>2, <1>3, <1>6, <1>7 DEF IInv

(* A command changes nothing but the silence when it is not applied, and   *)
(* starts a grace period when it is: then there was none.                  *)
LEMMA InvTraffic == Periods /\ IInv /\ HandleTraffic => IInv'
<1> SUFFICES ASSUME Periods, IInv, HandleTraffic PROVE IInv'
  OBVIOUS
<1> DEFINE cmd == Head(pending["traffic"])
<1>1. /\ pending' \in [Handlers -> Seq(Bytes)]
      /\ pending'["accept"] = pending["accept"]
      /\ pending'["check"] = pending["check"]
      /\ cmd \in Bytes
  BY PoppedLemma DEF HandleTraffic, IInv, Handlers
<1>2. Left' = Left
  BY <1>1 DEF HandleTraffic, Left
<1>3. CASE cmd \in Commands /\ currentCmd # cmd /\ ready
  <2>1. /\ received' = TRUE /\ silence' = 0 /\ currentCmd' = cmd
        /\ pins' = ValvesFor(cmd) /\ ready' = FALSE
        /\ acceptTimer' = Grace /\ processed' = 0
        /\ UNCHANGED <<strayTimers, checkTimer, incoming>>
    BY <1>3 DEF HandleTraffic, Process
  <2>2. HubTypeOK'
    <3>1. /\ pins' \in SUBSET Valves /\ currentCmd' \in Commands
          /\ acceptTimer' \in 0..Grace /\ processed' \in 0..MaxAge
          /\ silence' \in 0..MaxAge
      BY <1>3, <2>1, ValvesLemma, HubAssumption
    <3>2. ready' \in BOOLEAN /\ received' \in BOOLEAN
      BY <2>1
    <3> QED
      BY <1>1, <2>1, <3>1, <3>2 DEF IInv, HubTypeOK, Bytes
  <2>3. ValvesMatchCommand'
    BY <2>1 DEF ValvesMatchCommand, ValvesFor
  <2>4. QueuesInv'
    BY <1>1 DEF IInv, QueuesInv
  <2>5. GraceInv'
    BY <1>1, <1>3, <2>1, HubAssumption DEF IInv, GraceInv
  <2>6. CheckInv' /\ SilenceInv'
    <3>1. Left \in Nat /\ Left <= FirstCheck
      BY HubAssumption DEF IInv, CheckInv, HubTypeOK, Left
    <3> QED
      BY <1>1, <1>2, <2>1, <3>1, HubAssumption DEF IInv, CheckInv, SilenceInv
  <2> QED
    BY <2>2, <2>3, <2>4, <2>5, <2>6 DEF IInv
<1>4. CASE cmd \in Commands /\ ~(currentCmd # cmd /\ ready)
  <2>1. /\ received' = TRUE /\ silence' = 0
        /\ UNCHANGED <<pins, currentCmd, ready, acceptTimer, processed,
                       strayTimers, checkTimer, incoming>>
    BY <1>4 DEF HandleTraffic
  <2>2. HubTypeOK'
    <3>1. silence' \in 0..MaxAge
      BY <2>1, HubAssumption DEF IInv, HubTypeOK
    <3>2. received' \in BOOLEAN
      BY <2>1
    <3> QED
      BY <1>1, <2>1, <3>1, <3>2 DEF IInv, HubTypeOK, Bytes
  <2>3. ValvesMatchCommand' /\ QueuesInv' /\ GraceInv'
    BY <1>1, <2>1 DEF IInv, ValvesMatchCommand, QueuesInv, GraceInv
  <2>4. CheckInv' /\ SilenceInv'
    <3>1. Left \in Nat /\ Left <= FirstCheck
      BY HubAssumption DEF IInv, CheckInv, HubTypeOK, Left
    <3> QED
      BY <1>1, <1>2, <2>1, <3>1, HubAssumption DEF IInv, CheckInv, SilenceInv
  <2> QED
    BY <2>2, <2>3, <2>4 DEF IInv
<1>5. CASE cmd \notin Commands
  <2>1. UNCHANGED <<pins, currentCmd, ready, acceptTimer, received, processed,
                    silence, strayTimers, checkTimer, incoming>>
    BY <1>5 DEF HandleTraffic
  <2>2. HubTypeOK'
    BY <1>1, <2>1 DEF IInv, HubTypeOK, Bytes
  <2>3. ValvesMatchCommand' /\ QueuesInv' /\ GraceInv'
    BY <1>1, <2>1 DEF IInv, ValvesMatchCommand, QueuesInv, GraceInv
  <2>4. CheckInv' /\ SilenceInv'
    BY <1>1, <1>2, <2>1 DEF IInv, CheckInv, SilenceInv
  <2> QED
    BY <2>2, <2>3, <2>4 DEF IInv
<1> QED
  BY <1>3, <1>4, <1>5

(* When no command was counted since the last check, the grace period has  *)
(* ended and its handler has been called: the check may start another.     *)
LEMMA CheckAfterGrace ==
    ASSUME Periods, IInv, pending["check"] # <<>>, ~received
    PROVE  pending["accept"] = <<>> /\ processed > Grace
<1>1. processed >= Check
  BY HubAssumption DEF IInv, CheckInv, Left, HubTypeOK
<1> QED
  BY <1>1, HubAssumption DEF IInv, GraceInv, HubTypeOK, Periods

LEMMA InvCheck == Periods /\ IInv /\ OnCheckComms => IInv'
<1> SUFFICES ASSUME Periods, IInv, OnCheckComms PROVE IInv'
  OBVIOUS
<1>1. /\ pending' \in [Handlers -> Seq(Bytes)]
      /\ pending'["accept"] = pending["accept"]
      /\ pending'["check"] = Tail(pending["check"])
  BY PoppedLemma DEF OnCheckComms, IInv, Handlers
<1>2. pending'["check"] = <<>>
  BY <1>1, TailOfOne DEF IInv, QueuesInv, OnCheckComms
<1>3. checkTimer' = Check /\ Left' = Check
  BY <1>2 DEF OnCheckComms, IInv, CheckInv, Left
<1>4. Left = 0
  BY DEF OnCheckComms, Left
<1>5. CASE received
  <2>1. /\ received' = FALSE
        /\ UNCHANGED <<pins, currentCmd, ready, acceptTimer, processed,
                       strayTimers, checkTimer, incoming, silence>>
    BY <1>5 DEF OnCheckComms
  <2>2. HubTypeOK'
    <3>1. silence' \in 0..MaxAge
      BY <2>1, HubAssumption DEF IInv, HubTypeOK
    <3>2. received' \in BOOLEAN
      BY <2>1
    <3> QED
      BY <1>1, <2>1, <3>1, <3>2 DEF IInv, HubTypeOK, Bytes
  <2>3. ValvesMatchCommand' /\ QueuesInv' /\ GraceInv'
    BY <1>1, <1>2, <2>1 DEF IInv, ValvesMatchCommand, QueuesInv, GraceInv
  <2>4. CheckInv'
    BY <1>2, <1>3, <2>1, HubAssumption DEF IInv, CheckInv, HubTypeOK, Periods
  <2>5. SilenceInv'
    BY <1>3, <1>4, <1>5, <2>1, HubAssumption DEF IInv, SilenceInv, HubTypeOK
  <2> QED
    BY <2>2, <2>3, <2>4, <2>5 DEF IInv
<1>6. CASE ~received
  <2>1. /\ received' = FALSE /\ currentCmd' = Idle
        /\ pins' = ValvesFor(Idle) /\ ready' = FALSE
        /\ acceptTimer' = Grace /\ processed' = 0
        /\ UNCHANGED <<strayTimers, checkTimer, incoming, silence>>
    BY <1>6 DEF OnCheckComms, Process
  <2>2. HubTypeOK'
    <3>1. /\ pins' \in SUBSET Valves /\ currentCmd' \in Commands
          /\ acceptTimer' \in 0..Grace /\ processed' \in 0..MaxAge
      BY <2>1, ValvesLemma, HubAssumption
    <3>2. ready' \in BOOLEAN /\ received' \in BOOLEAN
      BY <2>1
    <3> QED
      BY <1>1, <2>1, <3>1, <3>2 DEF IInv, HubTypeOK, Bytes
  <2>3. ValvesMatchCommand' /\ QueuesInv'
    BY <1>1, <1>2, <2>1 DEF IInv, ValvesMatchCommand, ValvesFor, QueuesInv
  <2>4. pending["accept"] = <<>>
    BY <1>6, CheckAfterGrace DEF OnCheckComms
  <2>5. GraceInv'
    BY <1>1, <2>1, <2>4, HubAssumption DEF IInv, GraceInv
  <2>6. CheckInv'
    BY <1>2, <1>3, <2>1, HubAssumption DEF IInv, CheckInv, Periods
  <2>7. SilenceInv'
    BY <2>1, ValvesLemma DEF SilenceInv
  <2> QED
    BY <2>2, <2>3, <2>5, <2>6, <2>7 DEF IInv
<1> QED
  BY <1>5, <1>6

LEMMA InvAccept == Periods /\ IInv /\ OnAcceptCommandAgain => IInv'
<1> SUFFICES ASSUME Periods, IInv, OnAcceptCommandAgain PROVE IInv'
  OBVIOUS
<1>1. /\ pending' \in [Handlers -> Seq(Bytes)]
      /\ pending'["check"] = pending["check"]
      /\ pending'["accept"] = Tail(pending["accept"])
  BY PoppedLemma DEF OnAcceptCommandAgain, IInv, Handlers
<1>2. pending'["accept"] = <<>>
  BY <1>1, TailOfOne DEF IInv, QueuesInv, OnAcceptCommandAgain
<1>3. acceptTimer = 0 /\ processed = Grace
  BY DEF IInv, GraceInv, OnAcceptCommandAgain, HubTypeOK
<1>4. /\ ready' = TRUE /\ acceptTimer' = 0 /\ strayTimers' = {}
      /\ UNCHANGED <<pins, currentCmd, checkTimer, received, incoming, ages>>
  BY <1>3 DEF OnAcceptCommandAgain, IInv, GraceInv
<1>5. Left' = Left
  BY <1>1, <1>4 DEF Left
<1>6. HubTypeOK'
  BY <1>1, <1>4, HubAssumption DEF IInv, HubTypeOK, Bytes, ages
<1>7. ValvesMatchCommand' /\ QueuesInv'
  BY <1>1, <1>2, <1>4 DEF IInv, ValvesMatchCommand, QueuesInv
<1>8. GraceInv'
  BY <1>2, <1>3, <1>4, HubAssumption DEF GraceInv, ages
<1>9. CheckInv' /\ SilenceInv'
  BY <1>1, <1>4, <1>5 DEF IInv, CheckInv, SilenceInv, ages
<1> QED
  BY <1>6, <1>7, <1>8, <1>9 DEF IInv

LEMMA InvReceive ==
    ASSUME IInv, NEW byte \in Commands \cup {Garbage}, Receive(byte)
    PROVE  IInv'
<1>1. /\ pending' \in [Handlers -> Seq(Bytes)]
      /\ pending'["check"] = pending["check"]
      /\ pending'["accept"] = pending["accept"]
  BY NotifiedLemma DEF Receive, IInv, Handlers, Bytes
<1>2. Left' = Left
  BY <1>1 DEF Left, Receive
<1>3. HubTypeOK'
  BY <1>1 DEF IInv, HubTypeOK, Bytes, Receive, ages
<1>4. ValvesMatchCommand' /\ QueuesInv' /\ GraceInv'
  BY <1>1 DEF IInv, ValvesMatchCommand, QueuesInv, GraceInv, Receive, ages
<1>5. CheckInv' /\ SilenceInv'
  BY <1>1, <1>2 DEF IInv, CheckInv, SilenceInv, Receive, ages
<1> QED
  BY <1>3, <1>4, <1>5 DEF IInv

LEMMA OlderLemma ==
    ASSUME NEW age \in 0..MaxAge
    PROVE  /\ Older(age) \in 0..MaxAge
           /\ Older(age) >= age /\ Older(age) <= age + 1
           /\ age < MaxAge => Older(age) = age + 1
BY HubAssumption DEF Older

LEMMA InvPass == Periods /\ IInv /\ Pass => IInv'
<1> SUFFICES ASSUME Periods, IInv, Pass PROVE IInv'
  OBVIOUS
<1>1. pending["accept"] = <<>> /\ pending["check"] = <<>>
  BY DEF Pass, Quiet, Handlers
<1>2. strayTimers = {} /\ strayTimers' = {}
  BY DEF Pass, IInv, GraceInv
<1>3. /\ pending'["accept"] = IF acceptTimer = 1 THEN <<NoArgument>> ELSE <<>>
      /\ pending'["check"] = IF checkTimer = 1 THEN <<NoArgument>> ELSE <<>>
  BY <1>1, <1>2 DEF Pass, Handlers
<1>4. <<NoArgument>> \in Seq(Bytes)
  BY DEF Bytes
<1>5. pending' \in [Handlers -> Seq(Bytes)]
  BY <1>4 DEF Pass, IInv, HubTypeOK, Bytes
<1>6. Left = checkTimer /\ Left' = checkTimer - 1
  <2>1. Left = checkTimer /\ checkTimer \in Nat
    BY <1>1 DEF Left, IInv, HubTypeOK
  <2>2. CASE checkTimer = 1
    <3>1. pending'["check"] # <<>>
      BY <1>3, <2>2
    <3> QED
      BY <2>1, <2>2, <3>1 DEF Left
  <2>3. CASE checkTimer # 1
    <3>1. pending'["check"] = <<>> /\ checkTimer' = checkTimer - 1
      BY <1>3, <2>3 DEF Pass
    <3> QED
      BY <2>1, <3>1 DEF Left
  <2> QED
    BY <2>2, <2>3
<1>7. /\ processed' = Older(processed) /\ silence' = Older(silence)
      /\ acceptTimer' = IF acceptTimer = 0 THEN 0 ELSE acceptTimer - 1
      /\ checkTimer' = IF checkTimer = 1 THEN Check ELSE checkTimer - 1
      /\ UNCHANGED <<pins, currentCmd, ready, received, incoming>>
  BY DEF Pass
<1>8. /\ processed \in 0..MaxAge /\ silence \in 0..MaxAge
      /\ acceptTimer \in 0..Grace /\ checkTimer \in Nat \ {0}
      /\ Grace \in Nat /\ Check \in Nat \ {0} /\ FirstCheck \in Nat /\ MaxAge \in Nat
  BY HubAssumption DEF IInv, HubTypeOK
<1>9. HubTypeOK'
  <2>1. acceptTimer' \in 0..Grace /\ checkTimer' \in Nat \ {0}
    BY <1>7, <1>8
  <2>2. processed' \in 0..MaxAge /\ silence' \in 0..MaxAge
    BY <1>7, <1>8, OlderLemma
  <2> QED
    BY <1>2, <1>5, <1>7, <2>1, <2>2 DEF IInv, HubTypeOK, Bytes
<1>10. ValvesMatchCommand' /\ QueuesInv'
  BY <1>3, <1>7 DEF IInv, ValvesMatchCommand, QueuesInv
<1>11. GraceInv'
  <2>1. processed' >= processed /\ (processed < MaxAge => processed' = processed + 1)
    BY <1>7, <1>8, OlderLemma
  <2>2. CASE acceptTimer = 0
    <3>1. acceptTimer' = 0 /\ pending'["accept"] = <<>>
      BY <1>3, <1>7, <2>2
    <3>2. ready => processed' >= Grace
      <4>1. ready => processed >= Grace
        BY DEF IInv, GraceInv
      <4>2. processed' \in Nat
        BY <1>7, <1>8, OlderLemma
      <4> QED
        BY <1>8, <2>1, <4>1, <4>2
    <3> QED
      BY <1>2, <1>7, <3>1, <3>2 DEF GraceInv
  <2>3. CASE acceptTimer > 0
    <3>1. ~ready /\ processed + acceptTimer = Grace
      BY <2>3 DEF IInv, GraceInv
    <3>2. processed < MaxAge
      BY <1>8, <2>3, <3>1 DEF Periods
    <3>3. processed' + acceptTimer' = Grace
      BY <1>7, <1>8, <2>1, <2>3, <3>1, <3>2
    <3>4. acceptTimer' > 0 => pending'["accept"] = <<>>
      BY <1>3, <1>7, <1>8, <2>3
    <3>5. pending'["accept"] # <<>> => processed' = Grace
      BY <1>3, <1>7, <1>8, <2>1, <2>3, <3>1, <3>2
    <3> QED
      BY <1>2, <1>7, <3>1, <3>3, <3>4, <3>5 DEF GraceInv
  <2> QED
    BY <1>8, <2>2, <2>3
<1>12. CheckInv'
  <2>1. checkTimer' <= FirstCheck
    BY <1>7, <1>8 DEF IInv, CheckInv, Periods
  <2>2. pending'["check"] # <<>> => checkTimer' = Check
    BY <1>3, <1>7
  <2>3. ~received => processed' >= Check - (checkTimer - 1)
    <3>1. ~received => processed >= Check - checkTimer
      BY <1>6 DEF IInv, CheckInv
    <3>2. processed = MaxAge => processed' >= Check
      BY <1>7, <1>8, OlderLemma DEF Periods
    <3>3. processed < MaxAge => processed' = processed + 1
      BY <1>7, <1>8, OlderLemma
    <3> QED
      BY <1>7, <1>8, <3>1, <3>2, <3>3, OlderLemma
  <2> QED
    BY <1>6, <1>7, <2>1, <2>2, <2>3 DEF CheckInv
<1>13. SilenceInv'
  <2>1. silence' <= silence + 1 /\ silence' \in Nat
    BY <1>7, <1>8, OlderLemma
  <2>2. /\ received => silence <= FirstCheck - checkTimer
        /\ ~received /\ pins # {} => silence <= FirstCheck + Check - checkTimer
    BY <1>6 DEF IInv, SilenceInv
  <2>3. /\ received => silence' <= FirstCheck - (checkTimer - 1)
        /\ ~received /\ pins # {} => silence' <= FirstCheck + Check - (checkTimer - 1)
    BY <1>8, <2>1, <2>2
  <2> QED
    BY <1>6, <1>7, <2>3 DEF SilenceInv
<1> QED
  BY <1>9, <1>10, <1>11, <1>12, <1>13 DEF IInv

LEMMA InvNext == Periods /\ IInv /\ [HubNext]_hubVars => IInv'
<1> SUFFICES ASSUME Periods, IInv, [HubNext]_hubVars PROVE IInv'
  OBVIOUS
<1>1. CASE \E byte \in Commands \cup {Garbage} : Receive(byte)
  BY <1>1, InvReceive
<1>2. CASE Handle
  BY <1>2, InvTraffic, InvCheck, InvAccept DEF Handle
<1>3. CASE Pass
  BY <1>3, InvPass
<1>4. CASE UNCHANGED hubVars
  <2>1. Left' = Left
    BY <1>4 DEF hubVars, Left
  <2> QED
    BY <1>4, <2>1 DEF hubVars, IInv, HubTypeOK, ValvesMatchCommand, QueuesInv, GraceInv,
                      CheckInv, SilenceInv
<1> QED
  BY <1>1, <1>2, <1>3, <1>4 DEF HubNext

LEMMA Invariance == ASSUME Periods PROVE HubSpec => []IInv
<1>1. HubInit => IInv
  BY InvInit
<1>2. IInv /\ [HubNext]_hubVars => IInv'
  BY InvNext
<1> QED
  BY <1>1, <1>2, PTL DEF HubSpec

-----------------------------------------------------------------------------
(* protocol.c: every variable keeps its range, for all periods. *)
THEOREM TypeCorrect == ASSUME Periods PROVE HubSpec => []HubTypeOK
BY Invariance, PTL DEF IInv

(* At any time the valves are those of the current command. *)
THEOREM ValvesCorrect == ASSUME Periods PROVE HubSpec => []ValvesMatchCommand
BY Invariance, PTL DEF IInv

(* When valid commands stop, the valves are off after the time of the      *)
(* first check and one period, at the latest.                              *)
THEOREM FailsSafe == ASSUME Periods PROVE HubSpec => []FailSafe
<1>1. ASSUME IInv PROVE FailSafe
  <2> SUFFICES ASSUME Quiet, silence >= FirstCheck + Check, pins # {} PROVE FALSE
    BY DEF FailSafe
  <2>1. Left = checkTimer
    BY DEF Quiet, Handlers, Left
  <2>2. /\ silence \in Nat /\ checkTimer \in Nat \ {0}
        /\ FirstCheck \in Nat /\ Check \in Nat \ {0}
    BY <1>1, HubAssumption DEF IInv, HubTypeOK
  <2>3. silence <= FirstCheck + Check - checkTimer
    BY <1>1, <2>1, <2>2 DEF IInv, SilenceInv
  <2> QED
    BY <2>2, <2>3
<1> QED
  BY <1>1, Invariance, PTL

(* The valves never switch twice within a grace period: a command is only  *)
(* applied when the period is over, and a check that fails comes later.    *)
THEOREM SwitchesSlowly == ASSUME Periods PROVE HubSpec => NoFastSwitching
<1>1. ASSUME IInv, [HubNext]_hubVars, pins' # pins PROVE processed >= Grace
  <2>1. CASE HandleTraffic
    BY <1>1, <2>1 DEF HandleTraffic, IInv, GraceInv
  <2>2. CASE OnCheckComms
    <3>1. pending["check"] # <<>> /\ ~received
      BY <1>1, <2>2 DEF OnCheckComms
    <3> QED
      BY <1>1, <3>1, CheckAfterGrace, HubAssumption DEF IInv, HubTypeOK
  <2> QED
    BY <1>1, <2>1, <2>2 DEF HubNext, Handle, OnAcceptCommandAgain, Receive, Pass, hubVars
<1> QED
  BY <1>1, Invariance, PTL DEF HubSpec, NoFastSwitching

-----------------------------------------------------------------------------
(* The two boards. *)
SystemPeriods == Periods /\ Grace + Check <= FirstCheck

(* Commands are refused only while the timer that ends it is on its way;   *)
(* before the first check such a grace period began after the start.       *)
RefusingInv ==
    ~ready => /\ acceptTimer > 0 \/ pending["accept"] # <<>>
              /\ Left > Check => processed <= FirstCheck - Left

(* What the hub has yet to handle was wanted in this unit. *)
WishesInv ==
    /\ wanted \in wishes
    /\ wishes \in SUBSET Commands
    /\ unwanted \in 0..MaxAge
    /\ pending["traffic"] = <<>> \/ \E c \in wishes : pending["traffic"] = <<c>>
    /\ currentCmd \in wishes => unwanted = 0

(* A valve that is on was wanted when it was turned on, and any command    *)
(* counted since was either wanted then or came in the grace period.       *)
UnwantedInv ==
    pins # {} =>
        /\ ~ready => unwanted <= processed
        /\ received => unwanted <= FirstCheck - Left
        /\ ~received => unwanted <= FirstCheck + Check - Left

SInv == IInv /\ RefusingInv /\ WishesInv /\ UnwantedInv

LEMMA SInvInit == SystemPeriods /\ SystemInit => SInv
<1> SUFFICES ASSUME SystemPeriods, SystemInit PROVE SInv
  OBVIOUS
<1>1. IInv
  BY InvInit DEF SystemPeriods, SystemInit
<1>2. RefusingInv
  BY DEF RefusingInv, SystemInit, HubInit
<1>3. WishesInv
  <2>1. unwanted \in 0..MaxAge
    BY HubAssumption DEF SystemInit
  <2>2. pending["traffic"] = <<>>
    BY DEF SystemInit, HubInit, Handlers
  <2> QED
    BY <2>1, <2>2, HubAssumption DEF WishesInv, SystemInit
<1>4. UnwantedInv
  BY DEF UnwantedInv, SystemInit, HubInit
<1> QED
  BY <1>1, <1>2, <1>3, <1>4 DEF SInv

(* A step that leaves the hub alone, or only brings it a byte. *)
LEMMA SInvHubAlone ==
    ASSUME SInv, IInv', UNCHANGED <<pins, currentCmd, ready, acceptTimer,
                 checkTimer, received, processed>>,
           pending'["accept"] = pending["accept"],
           pending'["check"] = pending["check"],
           WishesInv', unwanted' <= unwanted
    PROVE  SInv'
<1>1. Left' = Left
  BY DEF Left
<1>2. RefusingInv'
  BY <1>1 DEF SInv, RefusingInv
<1>3. /\ Left \in Int /\ unwanted \in Nat /\ unwanted' \in Nat /\ processed \in Nat
      /\ FirstCheck \in Nat /\ Check \in Nat
  BY HubAssumption DEF SInv, IInv, HubTypeOK, WishesInv, Left
<1>4. UnwantedInv'
  BY <1>1, <1>3 DEF SInv, UnwantedInv
<1> QED
  BY <1>2, <1>4 DEF SInv

LEMMA Unmoved == ASSUME IInv, UNCHANGED hub PROVE IInv'
<1>1. Left' = Left
  BY DEF hub, Left
<1> QED
  BY <1>1 DEF hub, IInv, HubTypeOK, ValvesMatchCommand, QueuesInv, GraceInv,
              CheckInv, SilenceInv

LEMMA SInvWish == ASSUME SInv, NEW c \in Commands, Wish(c) PROVE SInv'
<1>1. UNCHANGED hub /\ wanted' = c /\ wishes' = wishes \cup {c}
  BY DEF Wish
<1>2. /\ unwanted' \in {0, unwanted}
      /\ currentCmd = c => unwanted' = 0
      /\ currentCmd # c => unwanted' = unwanted
  <2>1. unwanted' = IF c = currentCmd THEN 0 ELSE unwanted
    BY DEF Wish
  <2>2. CASE c = currentCmd
    BY <2>1, <2>2
  <2>3. CASE ~(c = currentCmd)
    BY <2>1, <2>3
  <2> QED
    BY <2>2, <2>3
<1>3. IInv'
  BY <1>1, Unmoved DEF SInv
<1>4. unwanted \in 0..MaxAge /\ 0 \in 0..MaxAge
  BY HubAssumption DEF SInv, WishesInv
<1>5. WishesInv'
  <2>1. /\ wanted' \in wishes' /\ wishes' \in SUBSET Commands
        /\ pending' = pending /\ currentCmd' = currentCmd
    BY <1>1 DEF SInv, WishesInv, hub
  <2>2. unwanted' \in 0..MaxAge
    BY <1>2, <1>4
  <2>3. currentCmd' \in wishes' => unwanted' = 0
    BY <1>1, <1>2, <2>1 DEF SInv, WishesInv
  <2>4. pending'["traffic"] = <<>> \/ \E d \in wishes' : pending'["traffic"] = <<d>>
    BY <1>1, <2>1 DEF SInv, WishesInv
  <2> QED
    BY <2>1, <2>2, <2>3, <2>4 DEF WishesInv
<1>6. unwanted' <= unwanted
  <2>1. unwanted' \in {0, unwanted}
    BY <1>2
  <2> QED
    BY <1>4, <2>1
<1>7. /\ UNCHANGED <<pins, currentCmd, ready, acceptTimer, checkTimer,
                     received, processed>>
      /\ pending'["accept"] = pending["accept"]
      /\ pending'["check"] = pending["check"]
  BY <1>1 DEF hub
<1> QED
  BY <1>3, <1>5, <1>6, <1>7, SInvHubAlone

LEMMA SInvRestartController == ASSUME SInv, ControllerRestart PROVE SInv'
<1>1. UNCHANGED hub /\ wanted' = Idle /\ wishes' = wishes \cup {Idle}
  BY DEF ControllerRestart
<1>2. /\ unwanted' \in {0, unwanted}
      /\ currentCmd = Idle => unwanted' = 0
      /\ currentCmd # Idle => unwanted' = unwanted
  <2>1. unwanted' = IF currentCmd = Idle THEN 0 ELSE unwanted
    BY DEF ControllerRestart
  <2>2. CASE currentCmd = Idle
    BY <2>1, <2>2
  <2>3. CASE ~(currentCmd = Idle)
    BY <2>1, <2>3
  <2> QED
    BY <2>2, <2>3
<1>3. IInv'
  BY <1>1, Unmoved DEF SInv
<1>4. unwanted \in 0..MaxAge /\ 0 \in 0..MaxAge
  BY HubAssumption DEF SInv, WishesInv
<1>5. WishesInv'
  <2>1. /\ wanted' \in wishes' /\ wishes' \in SUBSET Commands
        /\ pending' = pending /\ currentCmd' = currentCmd
    BY <1>1, HubAssumption DEF SInv, WishesInv, hub
  <2>2. unwanted' \in 0..MaxAge
    BY <1>2, <1>4
  <2>3. currentCmd' \in wishes' => unwanted' = 0
    BY <1>1, <1>2, <2>1 DEF SInv, WishesInv
  <2>4. pending'["traffic"] = <<>> \/ \E d \in wishes' : pending'["traffic"] = <<d>>
    BY <1>1, <2>1 DEF SInv, WishesInv
  <2> QED
    BY <2>1, <2>2, <2>3, <2>4 DEF WishesInv
<1>6. unwanted' <= unwanted
  <2>1. unwanted' \in {0, unwanted}
    BY <1>2
  <2> QED
    BY <1>4, <2>1
<1>7. /\ UNCHANGED <<pins, currentCmd, ready, acceptTimer, checkTimer,
                     received, processed>>
      /\ pending'["accept"] = pending["accept"]
      /\ pending'["check"] = pending["check"]
  BY <1>1 DEF hub
<1> QED
  BY <1>3, <1>5, <1>6, <1>7, SInvHubAlone

LEMMA SInvUnmoved == ASSUME SInv, UNCHANGED <<hub, wanted, wishes, unwanted>> PROVE SInv'
<1>1. IInv'
  BY Unmoved DEF SInv
<1>2. WishesInv' /\ unwanted' <= unwanted
  BY DEF SInv, WishesInv, hub
<1> QED
  BY <1>1, <1>2, SInvHubAlone DEF hub

LEMMA RingOfOne ==
    ASSUME NEW d
    PROVE  PushedRing(<<>>, d, 1) = <<d>> /\ \A c : PushedRing(<<c>>, d, 1) = <<d>>
<1>1. /\ Len(<<>>) = 0 /\ Append(<<>>, d) = <<d>>
      /\ \A c : Len(<<c>>) = 1 /\ Tail(<<c>>) = <<>>
  OBVIOUS
<1> QED
  BY <1>1 DEF PushedRing

LEMMA SInvSend == ASSUME SInv, Send PROVE SInv'
<1>1. CASE Receive(wanted)
  <2>1. wanted \in Commands \cup {Garbage}
    BY DEF SInv, WishesInv
  <2>2. IInv'
    BY <1>1, <2>1, InvReceive DEF SInv
  <2>3. /\ pending'["accept"] = pending["accept"]
        /\ pending'["check"] = pending["check"]
    BY <1>1, <2>1, NotifiedLemma DEF Receive, SInv, IInv, Handlers, Bytes
  <2>4. pending'["traffic"] = <<wanted>>
    <3>1. pending["traffic"] = <<>> \/ \E c \in wishes : pending["traffic"] = <<c>>
      BY DEF SInv, WishesInv
    <3>2. PushedRing(pending["traffic"], wanted, 1) = <<wanted>>
      BY <3>1, RingOfOne
    <3>3. pending \in [Handlers -> Seq(Bytes)]
      BY DEF SInv, IInv, HubTypeOK, Bytes
    <3> QED
      BY <1>1, <3>2, <3>3 DEF Receive, Notifying, Handlers
  <2>5. UNCHANGED <<wanted, wishes, unwanted>>
    BY DEF Send
  <2>6. UNCHANGED <<pins, currentCmd, ready, acceptTimer, checkTimer, received, processed>>
    BY <1>1 DEF Receive, ages
  <2>7. WishesInv' /\ unwanted' <= unwanted
    BY <2>4, <2>5, <2>6 DEF SInv, WishesInv
  <2> QED
    BY <2>2, <2>3, <2>6, <2>7, SInvHubAlone
<1>2. CASE UNCHANGED hub
  BY <1>2, SInvUnmoved DEF Send
<1> QED
  BY <1>1, <1>2 DEF Send

LEMMA Ranges ==
    ASSUME SystemPeriods, SInv
    PROVE  /\ Left \in 0..FirstCheck
           /\ unwanted \in 0..MaxAge /\ processed \in 0..MaxAge
           /\ Grace \in Nat \ {0} /\ Check \in Nat \ {0}
           /\ FirstCheck \in Nat \ {0} /\ MaxAge \in Nat
           /\ ~ready => processed <= Grace /\ processed <= FirstCheck - Left
<1>1. /\ unwanted \in 0..MaxAge /\ processed \in 0..MaxAge
      /\ checkTimer \in Nat \ {0} /\ acceptTimer \in 0..Grace
      /\ Grace \in Nat \ {0} /\ Check \in Nat \ {0}
      /\ FirstCheck \in Nat \ {0} /\ MaxAge \in Nat
  BY HubAssumption DEF SInv, WishesInv, IInv, HubTypeOK
<1>2. checkTimer <= FirstCheck
  BY DEF SInv, IInv, CheckInv
<1>3. Left \in 0..FirstCheck
  BY <1>1, <1>2 DEF Left
<1>4. ASSUME ~ready PROVE processed <= Grace
  <2>1. acceptTimer > 0 \/ pending["accept"] # <<>>
    BY <1>4 DEF SInv, RefusingInv
  <2>2. acceptTimer > 0 => processed + acceptTimer = Grace
    BY DEF SInv, IInv, GraceInv
  <2>3. pending["accept"] # <<>> => processed = Grace
    BY DEF SInv, IInv, GraceInv
  <2>4. CASE acceptTimer > 0
    BY <1>1, <2>2, <2>4
  <2>5. CASE pending["accept"] # <<>>
    BY <1>1, <2>3, <2>5
  <2> QED
    BY <2>1, <2>4, <2>5
<1>5. ASSUME ~ready PROVE processed <= FirstCheck - Left
  <2>1. Left > Check => processed <= FirstCheck - Left
    BY <1>5 DEF SInv, RefusingInv
  <2>2. processed <= Grace /\ Grace + Check <= FirstCheck
    BY <1>4, <1>5 DEF SystemPeriods
  <2> QED
    BY <1>1, <1>3, <2>1, <2>2
<1> QED
  BY <1>1, <1>3, <1>4, <1>5

(* A step of the hub's handlers keeps what was wanted. *)
LEMMA WishesKept ==
    ASSUME SInv, HubHandles,
           pending'["traffic"] = <<>> \/ pending'["traffic"] = pending["traffic"]
    PROVE  WishesInv'
<1>1. unwanted \in 0..MaxAge /\ 0 \in 0..MaxAge /\ MaxAge \in 0..MaxAge
  BY HubAssumption DEF SInv, WishesInv
<1>2. /\ UNCHANGED <<wanted, wishes>>
      /\ unwanted' = IF currentCmd' = currentCmd THEN unwanted
                     ELSE IF currentCmd' \in wishes THEN 0 ELSE MaxAge
  BY DEF HubHandles, controller
<1>3. unwanted' \in 0..MaxAge
  BY <1>1, <1>2
<1>4. currentCmd' \in wishes => unwanted' = 0
  BY <1>2 DEF SInv, WishesInv
<1> QED
  BY <1>2, <1>3, <1>4 DEF SInv, WishesInv

LEMMA SInvTraffic == ASSUME SystemPeriods, SInv, HubHandles, HandleTraffic PROVE SInv'
<1> DEFINE cmd == Head(pending["traffic"])
<1>1. IInv'
  BY InvTraffic DEF SystemPeriods, SInv
<1>2. PICK c \in wishes : pending["traffic"] = <<c>>
  BY DEF SInv, WishesInv, HandleTraffic
<1>3. /\ pending'["traffic"] = Tail(pending["traffic"])
      /\ pending'["accept"] = pending["accept"]
      /\ pending'["check"] = pending["check"]
  BY PoppedLemma DEF HandleTraffic, SInv, IInv, Handlers
<1>4. pending'["traffic"] = <<>> /\ cmd = c
  BY <1>2, <1>3, TailOfOne
<1>5. WishesInv'
  BY <1>4, WishesKept
<1>6. Left' = Left
  BY <1>3 DEF HandleTraffic, Left
<1>7. /\ cmd \in wishes /\ cmd \in Commands
      /\ unwanted' = IF currentCmd' = currentCmd THEN unwanted
                     ELSE IF currentCmd' \in wishes THEN 0 ELSE MaxAge
  BY <1>2, <1>4 DEF SInv, WishesInv, HubHandles
<1> HIDE DEF cmd
<1>8. CASE currentCmd # cmd /\ ready
  <2>1. /\ received' = TRUE /\ currentCmd' = cmd /\ ready' = FALSE
        /\ acceptTimer' = Grace /\ processed' = 0
    BY <1>7, <1>8 DEF HandleTraffic, Process, cmd
  <2>2. unwanted' = 0
    BY <1>7, <1>8, <2>1
  <2>3. RefusingInv' /\ UnwantedInv'
    BY <1>6, <2>1, <2>2, Ranges DEF RefusingInv, UnwantedInv
  <2> QED
    BY <1>1, <1>5, <2>3 DEF SInv
<1>9. CASE ~(currentCmd # cmd /\ ready)
  <2>1. /\ received' = TRUE
        /\ UNCHANGED <<pins, currentCmd, ready, acceptTimer, processed>>
    BY <1>7, <1>9 DEF HandleTraffic, cmd
  <2>2. unwanted' = unwanted
    BY <1>7, <2>1
  <2>3. RefusingInv'
    BY <1>3, <1>6, <2>1 DEF SInv, RefusingInv
  <2>4. pins # {} => unwanted <= FirstCheck - Left
    <3>1. CASE cmd = currentCmd
      <4>1. unwanted = 0
        BY <1>7, <3>1 DEF SInv, WishesInv
      <4> QED
        BY <4>1, Ranges
    <3>2. CASE ~ready
      <4>1. pins # {} => unwanted <= processed
        BY <3>2 DEF SInv, UnwantedInv
      <4>2. processed <= FirstCheck - Left
        BY <3>2, Ranges
      <4> QED
        BY <4>1, <4>2, Ranges
    <3> QED
      BY <1>9, <3>1, <3>2
  <2>5. UnwantedInv'
    BY <1>6, <2>1, <2>2, <2>4 DEF SInv, UnwantedInv
  <2> QED
    BY <1>1, <1>5, <2>3, <2>5 DEF SInv
<1> QED
  BY <1>8, <1>9

LEMMA SInvCheck == ASSUME SystemPeriods, SInv, HubHandles, OnCheckComms PROVE SInv'
<1>1. IInv'
  BY InvCheck DEF SystemPeriods, SInv
<1>2. /\ pending'["traffic"] = pending["traffic"]
      /\ pending'["accept"] = pending["accept"]
      /\ pending'["check"] = Tail(pending["check"])
  BY PoppedLemma DEF OnCheckComms, SInv, IInv, Handlers
<1>3. WishesInv'
  BY <1>2, WishesKept
<1>4. pending'["check"] = <<>> /\ checkTimer' = Check
  BY <1>2, TailOfOne DEF SInv, IInv, QueuesInv, CheckInv, OnCheckComms
<1>5. Left = 0 /\ Left' = Check
  BY <1>4 DEF Left, OnCheckComms
<1>6. CASE received
  <2>1. /\ received' = FALSE
        /\ UNCHANGED <<pins, currentCmd, ready, acceptTimer, processed>>
    BY <1>6 DEF OnCheckComms
  <2>2. unwanted' = unwanted
    BY <2>1 DEF HubHandles
  <2>3. RefusingInv'
    BY <1>2, <1>5, <2>1, Ranges DEF SInv, RefusingInv
  <2>4. UnwantedInv'
    BY <1>5, <1>6, <2>1, <2>2, Ranges DEF SInv, UnwantedInv
  <2> QED
    BY <1>1, <1>3, <2>3, <2>4 DEF SInv
<1>7. CASE ~received
  <2>1. pins' = ValvesFor(Idle) /\ ready' = FALSE /\ acceptTimer' = Grace
    BY <1>7 DEF OnCheckComms, Process
  <2>2. RefusingInv'
    BY <1>5, <2>1, Ranges DEF RefusingInv
  <2>3. UnwantedInv'
    BY <2>1, ValvesLemma, HubAssumption DEF UnwantedInv
  <2> QED
    BY <1>1, <1>3, <2>2, <2>3 DEF SInv
<1> QED
  BY <1>6, <1>7

LEMMA SInvAccept == ASSUME SystemPeriods, SInv, HubHandles, OnAcceptCommandAgain PROVE SInv'
<1>1. IInv'
  BY InvAccept DEF SystemPeriods, SInv
<1>2. /\ pending'["traffic"] = pending["traffic"]
      /\ pending'["check"] = pending["check"]
  BY PoppedLemma DEF OnAcceptCommandAgain, SInv, IInv, Handlers
<1>3. WishesInv'
  BY <1>2, WishesKept
<1>4. ready' = TRUE /\ UNCHANGED <<pins, currentCmd, checkTimer, received>>
  BY DEF OnAcceptCommandAgain
<1>5. Left' = Left
  BY <1>2, <1>4 DEF Left
<1>6. unwanted' = unwanted
  BY <1>4 DEF HubHandles
<1>7. RefusingInv' /\ UnwantedInv'
  BY <1>4, <1>5, <1>6 DEF SInv, RefusingInv, UnwantedInv
<1> QED
  BY <1>1, <1>3, <1>7 DEF SInv

LEMMA SInvHubRestart == ASSUME SystemPeriods, SInv, HubRestart PROVE SInv'
<1>1. UNCHANGED <<wanted, wishes>>
  BY DEF HubRestart, controller
<1>2. pending' = [h \in Handlers |-> <<>>]
  BY DEF HubRestart
<1>3. /\ pending' \in [Handlers -> Seq(Bytes)]
      /\ pending'["traffic"] = <<>> /\ pending'["accept"] = <<>>
      /\ pending'["check"] = <<>>
  BY <1>2, EmptySeq DEF Handlers
<1>4. Left' = FirstCheck
  BY <1>3 DEF Left, HubRestart
<1>5. /\ pins' = {} /\ currentCmd' = Idle /\ ready' = TRUE /\ acceptTimer' = 0
      /\ strayTimers' = {} /\ checkTimer' = FirstCheck /\ received' = FALSE
      /\ incoming' = Garbage /\ processed' = MaxAge /\ silence' = 0
  BY DEF HubRestart
<1>6. IInv'
  <2>1. HubTypeOK'
    <3>1. /\ pins' \in SUBSET Valves /\ currentCmd' \in Commands
          /\ incoming' \in Commands \cup {Garbage}
      BY <1>5, HubAssumption
    <3>2. /\ acceptTimer' \in 0..Grace /\ strayTimers' \in SUBSET (1..Grace)
          /\ checkTimer' \in Nat \ {0}
          /\ processed' \in 0..MaxAge /\ silence' \in 0..MaxAge
      BY <1>5, HubAssumption
    <3>3. ready' \in BOOLEAN /\ received' \in BOOLEAN
      BY <1>5
    <3> QED
      BY <1>3, <3>1, <3>2, <3>3 DEF HubTypeOK, Bytes
  <2>2. ValvesMatchCommand'
    BY <1>5, HubAssumption DEF ValvesMatchCommand
  <2>3. QueuesInv' /\ GraceInv'
    BY <1>3, <1>5, HubAssumption DEF QueuesInv, GraceInv, SystemPeriods, Periods
  <2>4. CheckInv' /\ SilenceInv'
    BY <1>3, <1>4, <1>5, HubAssumption DEF CheckInv, SilenceInv, SystemPeriods, Periods
  <2> QED
    BY <2>1, <2>2, <2>3, <2>4 DEF IInv
<1>7. WishesInv'
  <2>1. unwanted' = IF Idle \in wishes THEN 0 ELSE MaxAge
    BY DEF HubRestart
  <2>2. unwanted' \in 0..MaxAge
    BY <2>1, HubAssumption
  <2> QED
    BY <1>1, <1>3, <1>5, <2>1, <2>2 DEF SInv, WishesInv
<1>8. RefusingInv' /\ UnwantedInv'
  BY <1>5 DEF RefusingInv, UnwantedInv
<1> QED
  BY <1>6, <1>7, <1>8 DEF SInv

LEMMA SInvPasses == ASSUME SystemPeriods, SInv, UnitPasses PROVE SInv'
<1>1. IInv'
  BY InvPass DEF UnitPasses, SystemPeriods, SInv
<1>2. /\ pending["traffic"] = <<>> /\ pending["accept"] = <<>>
      /\ pending["check"] = <<>>
  BY DEF UnitPasses, Pass, Quiet, Handlers
<1>3. strayTimers = {}
  BY DEF SInv, IInv, GraceInv
<1>4. /\ pending'["traffic"] = <<>>
      /\ pending'["accept"] = IF acceptTimer = 1 THEN <<NoArgument>> ELSE <<>>
      /\ pending'["check"] = IF checkTimer = 1 THEN <<NoArgument>> ELSE <<>>
  BY <1>2, <1>3 DEF UnitPasses, Pass, Handlers
<1>5. /\ processed' = Older(processed)
      /\ acceptTimer' = IF acceptTimer = 0 THEN 0 ELSE acceptTimer - 1
      /\ checkTimer' = IF checkTimer = 1 THEN Check ELSE checkTimer - 1
      /\ UNCHANGED <<pins, currentCmd, ready, received>>
  BY DEF UnitPasses, Pass
<1>6. /\ wishes' = {wanted} /\ UNCHANGED wanted
      /\ unwanted' = IF wanted = currentCmd THEN 0 ELSE Older(unwanted)
  BY DEF UnitPasses
<1>7. checkTimer \in Nat \ {0} /\ acceptTimer \in 0..Grace
  BY DEF SInv, IInv, HubTypeOK
<1>8. Left = checkTimer /\ Left' = Left - 1
  <2>1. Left = checkTimer
    BY <1>2 DEF Left
  <2>2. CASE checkTimer = 1
    <3>1. pending'["check"] # <<>>
      BY <1>4, <2>2
    <3> QED
      BY <2>1, <2>2, <3>1 DEF Left
  <2>3. CASE checkTimer # 1
    <3>1. pending'["check"] = <<>> /\ checkTimer' = checkTimer - 1
      BY <1>4, <1>5, <2>3
    <3> QED
      BY <2>1, <3>1 DEF Left
  <2> QED
    BY <2>2, <2>3
<1>9. /\ processed' \in Nat /\ processed' <= processed + 1
      /\ processed < MaxAge => processed' = processed + 1
  BY <1>5, Ranges, OlderLemma
<1>10. /\ unwanted' \in 0..MaxAge /\ unwanted' <= unwanted + 1
  BY <1>6, Ranges, OlderLemma
<1>11. WishesInv'
  <2>1. wanted \in Commands
    BY DEF SInv, WishesInv
  <2> QED
    BY <1>4, <1>5, <1>6, <1>10, <2>1 DEF WishesInv
<1>12. RefusingInv'
  <2> SUFFICES ASSUME ~ready
               PROVE  /\ acceptTimer' > 0 \/ pending'["accept"] # <<>>
                      /\ processed' <= FirstCheck - Left'
    BY <1>5 DEF RefusingInv
  <2>1. acceptTimer > 0
    BY <1>2 DEF SInv, RefusingInv
  <2>2. CASE acceptTimer = 1
    <3>1. pending'["accept"] # <<>>
      BY <1>4, <2>2
    <3>2. processed' <= FirstCheck - Left'
      BY <1>8, <1>9, Ranges
    <3> QED
      BY <3>1, <3>2
  <2>3. CASE acceptTimer # 1
    BY <1>5, <1>7, <1>8, <1>9, <2>1, <2>3, Ranges
  <2> QED
    BY <2>2, <2>3
<1>13. UnwantedInv'
  <2> SUFFICES ASSUME pins # {}
               PROVE  /\ ~ready => unwanted' <= processed'
                      /\ received => unwanted' <= FirstCheck - Left'
                      /\ ~received => unwanted' <= FirstCheck + Check - Left'
    BY <1>5 DEF UnwantedInv
  <2>1. ASSUME ~ready PROVE unwanted' <= processed'
    <3>1. unwanted <= processed /\ processed <= Grace
      BY <2>1, Ranges DEF SInv, UnwantedInv
    <3>2. Grace < MaxAge
      BY Ranges DEF SystemPeriods, Periods
    <3>3. processed' = processed + 1
      BY <1>9, <3>1, <3>2, Ranges
    <3> QED
      BY <1>10, <3>1, <3>3, Ranges
  <2>2. ASSUME received PROVE unwanted' <= FirstCheck - Left'
    <3>1. unwanted <= FirstCheck - Left
      BY <2>2 DEF SInv, UnwantedInv
    <3> QED
      BY <1>8, <1>10, <3>1, Ranges
  <2>3. ASSUME ~received PROVE unwanted' <= FirstCheck + Check - Left'
    <3>1. unwanted <= FirstCheck + Check - Left
      BY <2>3 DEF SInv, UnwantedInv
    <3> QED
      BY <1>8, <1>10, <3>1, Ranges
  <2> QED
    BY <2>1, <2>2, <2>3
<1> QED
  BY <1>1, <1>11, <1>12, <1>13 DEF SInv

LEMMA SInvNext == ASSUME SystemPeriods, SInv, [SystemNext]_system PROVE SInv'
<1>1. CASE \E c \in Commands : Wish(c)
  BY <1>1, SInvWish
<1>2. CASE Send
  BY <1>2, SInvSend
<1>3. CASE StopTransmit
  BY <1>3, SInvUnmoved DEF StopTransmit
<1>4. CASE ControllerRestart
  BY <1>4, SInvRestartController
<1>5. CASE HubHandles
  BY <1>5, SInvTraffic, SInvCheck, SInvAccept DEF HubHandles, Handle
<1>6. CASE HubRestart
  BY <1>6, SInvHubRestart
<1>7. CASE UnitPasses
  BY <1>7, SInvPasses
<1>8. CASE Calm
  BY <1>8, SInvUnmoved DEF Calm, controller
<1>9. CASE UNCHANGED system
  BY <1>9, SInvUnmoved DEF system, controller
<1> QED
  BY <1>1, <1>2, <1>3, <1>4, <1>5, <1>6, <1>7, <1>8, <1>9 DEF SystemNext

(* Whatever frames are lost and whichever board restarts, a valve that is  *)
(* on was wanted within the time of the first check and one period.        *)
THEOREM ValvesFollowWish ==
    ASSUME SystemPeriods PROVE SystemSpec => []ValveNotOutlivesWish
<1>1. SystemInit => SInv
  BY SInvInit
<1>2. SInv /\ [SystemNext]_system => SInv'
  BY SInvNext
<1>3. ASSUME SInv PROVE ValveNotOutlivesWish
  <2> SUFFICES ASSUME Quiet, unwanted >= FirstCheck + Check, pins # {} PROVE FALSE
    BY DEF ValveNotOutlivesWish
  <2>1. Left = checkTimer
    BY DEF Quiet, Handlers, Left
  <2>2. checkTimer \in Nat \ {0}
    BY <1>3 DEF SInv, IInv, HubTypeOK
  <2>3. /\ unwanted \in Nat /\ FirstCheck \in Nat /\ Check \in Nat \ {0}
    BY <1>3, Ranges
  <2>4. unwanted <= FirstCheck - Left \/ unwanted <= FirstCheck + Check - Left
    BY <1>3 DEF SInv, UnwantedInv
  <2> QED
    BY <2>1, <2>2, <2>3, <2>4
<1> QED
  BY <1>1, <1>2, <1>3, PTL DEF SystemSpec

-----------------------------------------------------------------------------
(* Once the controller has been steady for a unit: a frame of the unit was *)
(* counted, or the check that reset the count is done for this unit; from  *)
(* the second unit on no check finds nothing; so a grace period that holds *)
(* the command up ends Grace + 1 units after the start, and the next frame *)
(* is applied.                                                             *)
HoldUpInv ==
    IF ready THEN \/ steady <= Grace + 1
                  \/ steady = Grace + 2 /\ (~sent \/ pending["traffic"] # <<>>)
             ELSE steady + acceptTimer <= Grace + 1

SteadyInv ==
    /\ steady \in 0..MaxAge
    /\ steady > 0 =>
        /\ sending /\ ~disturbed
        /\ wishes = {wanted}
        /\ sent /\ pending["traffic"] = <<>> /\ ~received
              => checkTimer = Check /\ pending["check"] = <<>>
        /\ steady > 1 /\ pending["check"] # <<>> => received
        /\ currentCmd # wanted => HoldUpInv

LEMMA Periodical ==
    ASSUME SystemPeriods, SInv
    PROVE  /\ Grace \in Nat \ {0} /\ Check \in Nat /\ Check > 1 /\ MaxAge \in Nat
           /\ acceptTimer \in 0..Grace /\ checkTimer \in Nat \ {0}
           /\ Grace + 3 <= MaxAge
<1>1. Grace < Check /\ Check <= FirstCheck /\ FirstCheck + Check <= MaxAge
  BY DEF SystemPeriods, Periods
<1>2. acceptTimer \in 0..Grace /\ checkTimer \in Nat \ {0}
  BY DEF SInv, IInv, HubTypeOK
<1>3. Grace + Check <= FirstCheck
  BY DEF SystemPeriods
<1>4. Grace \in Nat \ {0} /\ Check \in Nat \ {0} /\ FirstCheck \in Nat /\ MaxAge \in Nat
  BY Ranges
<1>5. Check > 1 /\ Grace + 3 <= MaxAge
  BY <1>1, <1>3, <1>4
<1> QED
  BY <1>2, <1>4, <1>5

LEMMA SteadyInit == SystemPeriods /\ SystemInit => SteadyInv
BY HubAssumption DEF SystemInit, SteadyInv

(* A step that changes no more than the bytes that came in. *)
LEMMA SteadyUnmoved ==
    ASSUME SteadyInv, UNCHANGED <<steady, sending, disturbed, wanted, wishes,
                                  currentCmd, ready, acceptTimer, checkTimer, received>>,
           pending'["check"] = pending["check"],
           \/ pending'["traffic"] = pending["traffic"] /\ sent' = sent
           \/ pending'["traffic"] # <<>>
    PROVE  SteadyInv'
BY DEF SteadyInv, HoldUpInv

LEMMA SteadyDisturbed ==
    ASSUME SteadyInv, disturbed, steady' = steady
    PROVE  SteadyInv'
BY DEF SteadyInv

LEMMA SteadyWish ==
    ASSUME SInv, SteadyInv, NEW c \in Commands, Wish(c)
    PROVE  SteadyInv'
<1>1. CASE c = wanted
  <2>1. /\ UNCHANGED <<steady, hub, sending, disturbed, sent, wanted>>
        /\ wishes' = wishes \cup {wanted}
    BY <1>1 DEF Wish
  <2>2. wishes' = wishes
    BY <2>1 DEF SInv, WishesInv
  <2> QED
    BY <2>1, <2>2, SteadyUnmoved DEF hub
<1>2. CASE c # wanted
  <2>1. steady' = 0 /\ 0 \in 0..MaxAge
    BY <1>2, HubAssumption DEF Wish
  <2> QED
    BY <2>1 DEF SteadyInv
<1> QED
  BY <1>1, <1>2

LEMMA SteadySend ==
    ASSUME SInv, SteadyInv, Send
    PROVE  SteadyInv'
<1>1. UNCHANGED <<steady, wanted, sending, wishes, disturbed>> /\ sent' = TRUE
  BY DEF Send
<1>2. CASE Receive(wanted)
  <2>1. wanted \in Bytes /\ "check" \in Handlers \ {"traffic"} /\ "traffic" \in Handlers
    BY DEF SInv, WishesInv, Bytes, Handlers
  <2>2. pending'["check"] = pending["check"]
    BY <1>2, <2>1, NotifiedLemma DEF Receive, SInv, IInv
  <2>3. pending'["traffic"] # <<>>
    <3>1. PushedRing(pending["traffic"], wanted, 1) = <<wanted>>
      BY RingOfOne DEF SInv, WishesInv
    <3>2. pending \in [Handlers -> Seq(Bytes)]
      BY DEF SInv, IInv, HubTypeOK, Bytes
    <3>3. pending'["traffic"] = <<wanted>>
      BY <1>2, <2>1, <3>1, <3>2 DEF Receive, Notifying
    <3> QED
      BY <3>3
  <2>4. UNCHANGED <<currentCmd, ready, acceptTimer, checkTimer, received>>
    BY <1>2 DEF Receive
  <2> QED
    BY <1>1, <2>2, <2>3, <2>4, SteadyUnmoved
<1>3. CASE disturbed /\ UNCHANGED hub
  BY <1>1, <1>3, SteadyDisturbed
<1> QED
  BY <1>2, <1>3 DEF Send

LEMMA SteadyTraffic ==
    ASSUME SystemPeriods, SInv, SteadyInv, HubHandles, HandleTraffic
    PROVE  SteadyInv'
<1> SUFFICES ASSUME steady > 0 PROVE SteadyInv'
  BY DEF SteadyInv, HubHandles
<1>1. UNCHANGED <<steady, sending, disturbed, wanted, wishes, sent>> /\ wishes = {wanted}
  BY DEF HubHandles, controller, SteadyInv
<1>2. pending["traffic"] = <<wanted>> /\ wanted \in Commands
  BY <1>1 DEF SInv, WishesInv, HandleTraffic
<1>3. pending'["check"] = pending["check"]
  BY PoppedLemma DEF HandleTraffic, SInv, IInv, Handlers
<1>4. /\ received' = TRUE /\ UNCHANGED checkTimer
      /\ IF currentCmd # wanted /\ ready
         THEN currentCmd' = wanted
         ELSE UNCHANGED <<currentCmd, ready, acceptTimer>>
  <2>1. Head(pending["traffic"]) = wanted
    BY <1>2
  <2> QED
    BY <1>2, <2>1 DEF HandleTraffic
<1>5. currentCmd' # wanted => HoldUpInv'
  <2> SUFFICES ASSUME currentCmd' # wanted PROVE HoldUpInv'
    OBVIOUS
  <2>1. /\ currentCmd # wanted /\ ~ready
        /\ UNCHANGED <<ready, acceptTimer>>
    BY <1>4
  <2>2. steady + acceptTimer <= Grace + 1
    BY <2>1 DEF SteadyInv, HoldUpInv
  <2> QED
    BY <1>1, <2>1, <2>2 DEF HoldUpInv
<1> QED
  BY <1>1, <1>4, <1>5 DEF SteadyInv

LEMMA SteadyCheck ==
    ASSUME SystemPeriods, SInv, SteadyInv, HubHandles, OnCheckComms
    PROVE  SteadyInv'
<1> SUFFICES ASSUME steady > 0 PROVE SteadyInv'
  BY DEF SteadyInv, HubHandles
<1>1. UNCHANGED <<steady, sending, disturbed, wanted, wishes, sent>> /\ wishes = {wanted}
  BY DEF HubHandles, controller, SteadyInv
<1>2. /\ pending["check"] = <<NoArgument>> /\ pending["traffic"] = <<>>
      /\ UNCHANGED checkTimer /\ checkTimer = Check
  BY DEF OnCheckComms, SInv, IInv, QueuesInv, CheckInv
<1>3. pending'["check"] = <<>> /\ pending'["traffic"] = <<>>
  <2>1. /\ pending'["check"] = Tail(pending["check"])
        /\ pending'["traffic"] = pending["traffic"]
    BY PoppedLemma DEF OnCheckComms, SInv, IInv, Handlers
  <2> QED
    BY <1>2, <2>1, TailOfOne
<1>4. steady \in Nat
  BY DEF SteadyInv
<1>5. currentCmd' # wanted => HoldUpInv'
  <2>1. CASE received
    <3>1. UNCHANGED <<currentCmd, ready, acceptTimer>>
      BY <2>1 DEF OnCheckComms
    <3>2. currentCmd # wanted => HoldUpInv
      BY DEF SteadyInv
    <3> QED
      BY <1>1, <1>2, <1>3, <3>1, <3>2 DEF HoldUpInv
  <2>2. CASE ~received
    <3>1. ~ready' /\ acceptTimer' = Grace
      BY <2>2 DEF OnCheckComms, Process
    <3>2. ~(steady > 1)
      BY <1>2, <2>2 DEF SteadyInv
    <3>3. steady + Grace <= Grace + 1
      BY <1>4, <3>2, Periodical
    <3> QED
      BY <1>1, <3>1, <3>3 DEF HoldUpInv
  <2> QED
    BY <2>1, <2>2
<1> QED
  BY <1>1, <1>2, <1>3, <1>5 DEF SteadyInv

LEMMA SteadyAccept ==
    ASSUME SystemPeriods, SInv, SteadyInv, HubHandles, OnAcceptCommandAgain
    PROVE  SteadyInv'
<1> SUFFICES ASSUME steady > 0 PROVE SteadyInv'
  BY DEF SteadyInv, HubHandles
<1>1. UNCHANGED <<steady, sending, disturbed, wanted, wishes, sent>> /\ wishes = {wanted}
  BY DEF HubHandles, controller, SteadyInv
<1>2. /\ pending'["check"] = pending["check"]
      /\ pending'["traffic"] = pending["traffic"]
  BY PoppedLemma DEF OnAcceptCommandAgain, SInv, IInv, Handlers
<1>3. UNCHANGED <<currentCmd, checkTimer, received>> /\ ready'
  BY DEF OnAcceptCommandAgain
<1>4. ~ready
  BY DEF OnAcceptCommandAgain, SInv, IInv, GraceInv
<1>5. currentCmd # wanted => steady <= Grace + 1
  <2> SUFFICES ASSUME currentCmd # wanted PROVE steady <= Grace + 1
    OBVIOUS
  <2>1. steady + acceptTimer <= Grace + 1
    BY <1>4 DEF SteadyInv, HoldUpInv
  <2>2. steady \in Nat
    BY DEF SteadyInv
  <2> QED
    BY <2>1, <2>2, Periodical
<1>6. currentCmd' # wanted => HoldUpInv'
  BY <1>1, <1>3, <1>5 DEF HoldUpInv
<1> QED
  BY <1>1, <1>2, <1>3, <1>6 DEF SteadyInv

LEMMA SteadyPasses ==
    ASSUME SystemPeriods, SInv, SteadyInv, UnitPasses
    PROVE  SteadyInv'
<1>1. /\ pending["traffic"] = <<>> /\ pending["accept"] = <<>>
      /\ pending["check"] = <<>>
  BY DEF UnitPasses, Pass, Quiet, Handlers
<1>2. /\ UNCHANGED <<wanted, sending, disturbed, currentCmd, ready, received>>
      /\ wishes' = {wanted} /\ sent' = FALSE
      /\ acceptTimer' = IF acceptTimer = 0 THEN 0 ELSE acceptTimer - 1
      /\ checkTimer' = IF checkTimer = 1 THEN Check ELSE checkTimer - 1
      /\ steady' = IF sending /\ ~disturbed THEN Older(steady) ELSE 0
      /\ sending => sent
  BY DEF UnitPasses, Pass
<1>3. pending'["check"] # <<>> => checkTimer = 1
  BY <1>1 DEF UnitPasses, Pass, Handlers
<1>4. steady \in 0..MaxAge /\ 0 \in 0..MaxAge
  BY HubAssumption DEF SteadyInv
<1>5. CASE ~(sending /\ ~disturbed)
  <2>1. steady' = 0
    BY <1>2, <1>5
  <2> QED
    BY <1>4, <2>1 DEF SteadyInv
<1>6. CASE sending /\ ~disturbed
  <2>1. steady' \in 0..MaxAge /\ steady' <= steady + 1
    BY <1>2, <1>4, <1>6, OlderLemma
  <2>2. ASSUME steady' > 1, pending'["check"] # <<>> PROVE received'
    <3>1. checkTimer # Check
      BY <1>3, <2>2, Periodical
    <3>2. steady > 0
      BY <1>4, <2>1, <2>2
    <3> QED
      BY <1>1, <1>2, <1>6, <3>1, <3>2 DEF SteadyInv
  <2>3. ASSUME currentCmd # wanted, ready
        PROVE  steady' <= Grace + 2
    <3>1. CASE steady > 0
      <4>1. steady <= Grace + 1
        BY <1>1, <1>2, <1>6, <2>3, <3>1 DEF SteadyInv, HoldUpInv
      <4> QED
        BY <1>4, <2>1, <4>1, Periodical
    <3>2. CASE ~(steady > 0)
      BY <1>4, <2>1, <3>2, Periodical
    <3> QED
      BY <3>1, <3>2
  <2>4. ASSUME currentCmd # wanted, ~ready
        PROVE  steady' + acceptTimer' <= Grace + 1
    <3>1. acceptTimer > 0
      BY <1>1, <2>4 DEF SInv, RefusingInv
    <3>2. acceptTimer' = acceptTimer - 1
      BY <1>2, <3>1, Periodical
    <3>3. CASE steady > 0
      <4>1. steady + acceptTimer <= Grace + 1
        BY <2>4, <3>3 DEF SteadyInv, HoldUpInv
      <4> QED
        BY <1>4, <2>1, <3>2, <4>1, Periodical
    <3>4. CASE ~(steady > 0)
      BY <1>4, <2>1, <3>2, <3>4, Periodical
    <3> QED
      BY <3>3, <3>4
  <2>5. ASSUME currentCmd' # wanted' PROVE HoldUpInv'
    <3>1. currentCmd # wanted
      BY <1>2, <2>5
    <3>2. CASE ready
      <4>1. steady' <= Grace + 2 /\ steady' \in Int /\ Grace \in Int
        BY <2>1, <2>3, <3>1, <3>2, Periodical
      <4>2. steady' <= Grace + 1 \/ steady' = Grace + 2
        BY <4>1
      <4> QED
        BY <1>2, <3>2, <4>2 DEF HoldUpInv
    <3>3. CASE ~ready
      BY <1>2, <2>4, <3>1, <3>3 DEF HoldUpInv
    <3> QED
      BY <3>2, <3>3
  <2> QED
    BY <1>2, <1>6, <2>1, <2>2, <2>5 DEF SteadyInv
<1> QED
  BY <1>5, <1>6

LEMMA SteadyNext ==
    ASSUME SystemPeriods, SInv, SteadyInv, [SystemNext]_system
    PROVE  SteadyInv'
<1>1. CASE \E c \in Commands : Wish(c)
  BY <1>1, SteadyWish
<1>2. CASE Send
  BY <1>2, SteadySend
<1>3. CASE StopTransmit
  BY <1>3, SteadyDisturbed DEF StopTransmit
<1>4. CASE ControllerRestart
  BY <1>4, SteadyDisturbed DEF ControllerRestart
<1>5. CASE HubHandles
  BY <1>5, SteadyTraffic, SteadyCheck, SteadyAccept DEF HubHandles, Handle
<1>6. CASE HubRestart
  BY <1>6, SteadyDisturbed DEF HubRestart
<1>7. CASE UnitPasses
  BY <1>7, SteadyPasses
<1>8. CASE Calm
  BY <1>8, SteadyDisturbed DEF Calm
<1>9. CASE UNCHANGED system
  BY <1>9, SteadyUnmoved DEF system, controller, hub
<1> QED
  BY <1>1, <1>2, <1>3, <1>4, <1>5, <1>6, <1>7, <1>8, <1>9 DEF SystemNext

(* A command the controller sends undisturbed is the hub's after the grace *)
(* period and three units, for any commands and periods: what a liveness   *)
(* property would say of it, with its time.                                *)
THEOREM CommandAppliedInTime ==
    ASSUME SystemPeriods PROVE SystemSpec => []AppliedInTime
<1>1. SystemInit => SInv /\ SteadyInv
  BY SInvInit, SteadyInit
<1>2. SInv /\ SteadyInv /\ [SystemNext]_system => SInv' /\ SteadyInv'
  BY SInvNext, SteadyNext
<1>3. ASSUME SInv, SteadyInv PROVE AppliedInTime
  <2> SUFFICES ASSUME steady >= Grace + 3, currentCmd # wanted PROVE FALSE
    BY DEF AppliedInTime
  <2>1. /\ steady \in Nat /\ Grace \in Nat \ {0} /\ acceptTimer \in Nat
    BY <1>3, Periodical DEF SteadyInv
  <2>2. steady > 0
    BY <2>1
  <2>3. HoldUpInv
    BY <1>3, <2>2 DEF SteadyInv
  <2>4. \/ steady <= Grace + 1 \/ steady = Grace + 2
        \/ steady + acceptTimer <= Grace + 1
    BY <2>3 DEF HoldUpInv
  <2> QED
    BY <2>1, <2>4
<1> QED
  BY <1>1, <1>2, <1>3, PTL DEF SystemSpec

(* Every variable of the two boards keeps its range. *)
THEOREM SystemTypeCorrect ==
    ASSUME SystemPeriods PROVE SystemSpec => []SystemTypeOK
<1> DEFINE FlagsInv == sending \in BOOLEAN /\ disturbed \in BOOLEAN /\ sent \in BOOLEAN
<1>1. SystemInit => SInv /\ SteadyInv /\ FlagsInv
  BY SInvInit, SteadyInit DEF SystemInit
<1>2. FlagsInv /\ [SystemNext]_system => FlagsInv'
  BY DEF SystemNext, Wish, Send, StopTransmit, ControllerRestart, HubHandles, HubRestart,
         UnitPasses, Calm, controller, system
<1>3. SInv /\ SteadyInv /\ [SystemNext]_system => SInv' /\ SteadyInv'
  BY SInvNext, SteadyNext
<1>4. SInv /\ SteadyInv /\ FlagsInv => SystemTypeOK
  BY DEF SInv, IInv, WishesInv, SteadyInv, SystemTypeOK
<1> QED
  BY <1>1, <1>2, <1>3, <1>4, PTL DEF SystemSpec
=============================================================================
