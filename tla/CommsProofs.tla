----------------------------- MODULE CommsProofs -----------------------------
(***************************************************************************)
(* The op-codes and the supervision of Comms, for any wanted commands and  *)
(* any limit of errors.                                                    *)
(***************************************************************************)
EXTENDS Comms, SequenceTheorems, TLAPS

Bits == 0..7

(* two bits that tell the op-codes of c and d apart *)
Differ(c, d, x, y) ==
    /\ x \in OpCode[c] <=> x \notin OpCode[d]
    /\ y \in OpCode[c] <=> y \notin OpCode[d]

Apart(c, d) == \E x, y \in Bits : x # y /\ Differ(c, d, x, y)

LEMMA CommandNames ==
    Commands = {"idle", "push_door", "pull_door", "blast_toolsetter",
                "blast_spindle", "unclamp_chuck", "reserved0", "reserved1"}
BY DEF Commands, OpCode

(* op_codes.h: every two commands are two bits apart at least *)
LEMMA PairsDiffer ==
    /\ Differ("idle", "push_door", 1, 2)
    /\ Differ("idle", "pull_door", 0, 2)
    /\ Differ("idle", "blast_toolsetter", 0, 2)
    /\ Differ("idle", "blast_spindle", 0, 1)
    /\ Differ("idle", "unclamp_chuck", 0, 3)
    /\ Differ("idle", "reserved0", 1, 2)
    /\ Differ("idle", "reserved1", 0, 1)
    /\ Differ("push_door", "pull_door", 0, 1)
    /\ Differ("push_door", "blast_toolsetter", 0, 1)
    /\ Differ("push_door", "blast_spindle", 0, 3)
    /\ Differ("push_door", "unclamp_chuck", 0, 1)
    /\ Differ("push_door", "reserved0", 3, 4)
    /\ Differ("push_door", "reserved1", 0, 6)
    /\ Differ("pull_door", "blast_toolsetter", 4, 5)
    /\ Differ("pull_door", "blast_spindle", 1, 6)
    /\ Differ("pull_door", "unclamp_chuck", 2, 3)
    /\ Differ("pull_door", "reserved0", 0, 1)
    /\ Differ("pull_door", "reserved1", 1, 3)
    /\ Differ("blast_toolsetter", "blast_spindle", 1, 4)
    /\ Differ("blast_toolsetter", "unclamp_chuck", 2, 3)
    /\ Differ("blast_toolsetter", "reserved0", 0, 1)
    /\ Differ("blast_toolsetter", "reserved1", 1, 3)
    /\ Differ("blast_spindle", "unclamp_chuck", 1, 2)
    /\ Differ("blast_spindle", "reserved0", 0, 7)
    /\ Differ("blast_spindle", "reserved1", 3, 4)
    /\ Differ("unclamp_chuck", "reserved0", 0, 1)
    /\ Differ("unclamp_chuck", "reserved1", 1, 2)
    /\ Differ("reserved0", "reserved1", 0, 3)
<1>1. /\ Differ("idle", "push_door", 1, 2)
      /\ Differ("idle", "pull_door", 0, 2)
      /\ Differ("idle", "blast_toolsetter", 0, 2)
      /\ Differ("idle", "blast_spindle", 0, 1)
      /\ Differ("idle", "unclamp_chuck", 0, 3)
      /\ Differ("idle", "reserved0", 1, 2)
      /\ Differ("idle", "reserved1", 0, 1)
  BY DEF Differ, OpCode
<1>2. /\ Differ("push_door", "pull_door", 0, 1)
      /\ Differ("push_door", "blast_toolsetter", 0, 1)
      /\ Differ("push_door", "blast_spindle", 0, 3)
      /\ Differ("push_door", "unclamp_chuck", 0, 1)
      /\ Differ("push_door", "reserved0", 3, 4)
      /\ Differ("push_door", "reserved1", 0, 6)
  BY DEF Differ, OpCode
<1>3. /\ Differ("pull_door", "blast_toolsetter", 4, 5)
      /\ Differ("pull_door", "blast_spindle", 1, 6)
      /\ Differ("pull_door", "unclamp_chuck", 2, 3)
      /\ Differ("pull_door", "reserved0", 0, 1)
      /\ Differ("pull_door", "reserved1", 1, 3)
  BY DEF Differ, OpCode
<1>4. /\ Differ("blast_toolsetter", "blast_spindle", 1, 4)
      /\ Differ("blast_toolsetter", "unclamp_chuck", 2, 3)
      /\ Differ("blast_toolsetter", "reserved0", 0, 1)
      /\ Differ("blast_toolsetter", "reserved1", 1, 3)
  BY DEF Differ, OpCode
<1>5. /\ Differ("blast_spindle", "unclamp_chuck", 1, 2)
      /\ Differ("blast_spindle", "reserved0", 0, 7)
      /\ Differ("blast_spindle", "reserved1", 3, 4)
  BY DEF Differ, OpCode
<1>6. /\ Differ("unclamp_chuck", "reserved0", 0, 1)
      /\ Differ("unclamp_chuck", "reserved1", 1, 2)
  BY DEF Differ, OpCode
<1>7. /\ Differ("reserved0", "reserved1", 0, 3)
  BY DEF Differ, OpCode
<1> QED
  BY <1>1, <1>2, <1>3, <1>4, <1>5, <1>6, <1>7

LEMMA TwoBits ==
    ASSUME NEW c \in Commands, NEW d \in Commands, c # d
    PROVE  Apart(c, d)
<1>1. /\ Apart("idle", "push_door")
      /\ Apart("idle", "pull_door")
      /\ Apart("idle", "blast_toolsetter")
      /\ Apart("idle", "blast_spindle")
      /\ Apart("idle", "unclamp_chuck")
      /\ Apart("idle", "reserved0")
      /\ Apart("idle", "reserved1")
  BY PairsDiffer DEF Apart, Bits
<1>2. /\ Apart("push_door", "pull_door")
      /\ Apart("push_door", "blast_toolsetter")
      /\ Apart("push_door", "blast_spindle")
      /\ Apart("push_door", "unclamp_chuck")
      /\ Apart("push_door", "reserved0")
      /\ Apart("push_door", "reserved1")
  BY PairsDiffer DEF Apart, Bits
<1>3. /\ Apart("pull_door", "blast_toolsetter")
      /\ Apart("pull_door", "blast_spindle")
      /\ Apart("pull_door", "unclamp_chuck")
      /\ Apart("pull_door", "reserved0")
      /\ Apart("pull_door", "reserved1")
  BY PairsDiffer DEF Apart, Bits
<1>4. /\ Apart("blast_toolsetter", "blast_spindle")
      /\ Apart("blast_toolsetter", "unclamp_chuck")
      /\ Apart("blast_toolsetter", "reserved0")
      /\ Apart("blast_toolsetter", "reserved1")
  BY PairsDiffer DEF Apart, Bits
<1>5. /\ Apart("blast_spindle", "unclamp_chuck")
      /\ Apart("blast_spindle", "reserved0")
      /\ Apart("blast_spindle", "reserved1")
  BY PairsDiffer DEF Apart, Bits
<1>6. /\ Apart("unclamp_chuck", "reserved0")
      /\ Apart("unclamp_chuck", "reserved1")
  BY PairsDiffer DEF Apart, Bits
<1>7. /\ Apart("reserved0", "reserved1")
  BY PairsDiffer DEF Apart, Bits
<1>8. ASSUME NEW a, NEW b, Apart(a, b) PROVE Apart(b, a)
  <2>1. PICK x \in Bits, y \in Bits : x # y /\ Differ(a, b, x, y)
    BY <1>8 DEF Apart
  <2>2. Differ(b, a, x, y)
    BY <2>1 DEF Differ
  <2> QED
    BY <2>1, <2>2 DEF Apart
<1>9. CASE c = "idle"
  BY <1>9, CommandNames, <1>1, <1>2, <1>3, <1>4, <1>5, <1>6, <1>7, <1>8
<1>10. CASE c = "push_door"
  BY <1>10, CommandNames, <1>1, <1>2, <1>3, <1>4, <1>5, <1>6, <1>7, <1>8
<1>11. CASE c = "pull_door"
  BY <1>11, CommandNames, <1>1, <1>2, <1>3, <1>4, <1>5, <1>6, <1>7, <1>8
<1>12. CASE c = "blast_toolsetter"
  BY <1>12, CommandNames, <1>1, <1>2, <1>3, <1>4, <1>5, <1>6, <1>7, <1>8
<1>13. CASE c = "blast_spindle"
  BY <1>13, CommandNames, <1>1, <1>2, <1>3, <1>4, <1>5, <1>6, <1>7, <1>8
<1>14. CASE c = "unclamp_chuck"
  BY <1>14, CommandNames, <1>1, <1>2, <1>3, <1>4, <1>5, <1>6, <1>7, <1>8
<1>15. CASE c = "reserved0"
  BY <1>15, CommandNames, <1>1, <1>2, <1>3, <1>4, <1>5, <1>6, <1>7, <1>8
<1>16. CASE c = "reserved1"
  BY <1>16, CommandNames, <1>1, <1>2, <1>3, <1>4, <1>5, <1>6, <1>7, <1>8
<1> QED
  BY CommandNames, <1>9, <1>10, <1>11, <1>12, <1>13, <1>14, <1>15, <1>16

-----------------------------------------------------------------------------
(* bytes *)

LEMMA OpCodeBits == \A c \in Commands : OpCode[c] \in Byte
BY CommandNames DEF OpCode, Byte

LEMMA SymDiffBits ==
    ASSUME NEW A, NEW B
    PROVE  \A x : x \in SymDiff(A, B) <=> ~(x \in A <=> x \in B)
BY DEF SymDiff

LEMMA SymDiffByte == ASSUME NEW A \in Byte, NEW B \in Byte PROVE SymDiff(A, B) \in Byte
BY DEF SymDiff, Byte

(* The masks are complements of each other. *)
LEMMA MaskBits ==
    /\ OnMask \in Byte /\ OffMask \in Byte
    /\ \A x \in Bits : x \in OnMask <=> x \notin OffMask
BY DEF OnMask, OffMask, Byte, Bits

(* A flipped bit makes no command of another one. *)
LEMMA FlippedIsNoCommand ==
    ASSUME NEW c \in Commands, NEW d \in Commands, NEW bit \in Bits
    PROVE  SymDiff(OpCode[c], {bit}) # OpCode[d]
<1> SUFFICES ASSUME SymDiff(OpCode[c], {bit}) = OpCode[d] PROVE FALSE
  OBVIOUS
<1>1. \A x : x \in OpCode[d] <=> ~(x \in OpCode[c] <=> x = bit)
  BY SymDiffBits
<1>2. CASE c = d
  BY <1>1, <1>2
<1>3. CASE c # d
  <2>1. PICK x \in Bits, y \in Bits : x # y /\ Differ(c, d, x, y)
    BY <1>3, TwoBits DEF Apart
  <2>2. x = bit /\ y = bit
    BY <1>1, <2>1 DEF Differ
  <2> QED
    BY <2>1, <2>2
<1> QED
  BY <1>2, <1>3

(* The replies on and off to one byte differ in every bit. *)
Masks == {OnMask, OffMask}

LEMMA MasksDiffer ==
    ASSUME NEW m \in Masks, NEW n \in Masks, m # n
    PROVE  \A x \in Bits : x \in m <=> x \notin n
BY MaskBits DEF Masks

LEMMA RepliesDiffer ==
    ASSUME NEW byte \in Byte, NEW m \in Masks, NEW n \in Masks,
           SymDiff(byte, m) = SymDiff(byte, n)
    PROVE  m = n
<1> SUFFICES ASSUME m # n PROVE FALSE
  OBVIOUS
<1>1. 0 \in Bits /\ (0 \in m <=> 0 \notin n)
  BY MasksDiffer DEF Bits
<1>2. 0 \in SymDiff(byte, m) <=> 0 \in SymDiff(byte, n)
  OBVIOUS
<1> QED
  BY <1>1, <1>2, SymDiffBits

(* A flipped bit of the command or of the reply gives no reply. *)
LEMMA FlippedCommandIsNoReply ==
    ASSUME NEW byte \in Byte, NEW bit \in Bits, NEW m \in Masks, NEW n \in Masks
    PROVE  SymDiff(SymDiff(byte, {bit}), m) # SymDiff(byte, n)
<1> DEFINE flip == SymDiff(byte, {bit})
<1>1. \A x : x \in flip <=> ~(x \in byte <=> x = bit)
  BY SymDiffBits
<1> HIDE DEF flip
<1>2. \A x : x \in SymDiff(flip, m) <=> ~(x \in flip <=> x \in m)
  BY SymDiffBits
<1>3. \A x : x \in SymDiff(byte, n) <=> ~(x \in byte <=> x \in n)
  BY SymDiffBits
<1>4. SUFFICES ASSUME SymDiff(flip, m) = SymDiff(byte, n) PROVE FALSE
  BY DEF flip
<1>5. CASE m = n
  BY <1>1, <1>2, <1>3, <1>4, <1>5
<1>6. CASE m # n
  <2>1. PICK x \in Bits : x # bit
    BY DEF Bits
  <2>2. x \in m <=> x \notin n
    BY <1>6, MasksDiffer
  <2> QED
    BY <1>1, <1>2, <1>3, <1>4, <2>1, <2>2
<1> QED
  BY <1>5, <1>6

LEMMA FlippedReplyIsNoReply ==
    ASSUME NEW byte \in Byte, NEW bit \in Bits, NEW m \in Masks, NEW n \in Masks
    PROVE  SymDiff(SymDiff(byte, m), {bit}) # SymDiff(byte, n)
<1> DEFINE reply == SymDiff(byte, m)
<1>1. \A x : x \in reply <=> ~(x \in byte <=> x \in m)
  BY SymDiffBits
<1> HIDE DEF reply
<1>2. \A x : x \in SymDiff(reply, {bit}) <=> ~(x \in reply <=> x = bit)
  BY SymDiffBits
<1>3. \A x : x \in SymDiff(byte, n) <=> ~(x \in byte <=> x \in n)
  BY SymDiffBits
<1>4. SUFFICES ASSUME SymDiff(reply, {bit}) = SymDiff(byte, n) PROVE FALSE
  BY DEF reply
<1>5. CASE m = n
  BY <1>1, <1>2, <1>3, <1>4, <1>5
<1>6. CASE m # n
  <2>1. PICK x \in Bits : x # bit
    BY DEF Bits
  <2>2. x \in m <=> x \notin n
    BY <1>6, MasksDiffer
  <2> QED
    BY <1>1, <1>2, <1>3, <1>4, <2>1, <2>2
<1> QED
  BY <1>5, <1>6

(* No op-code is a mask, so that neither a buffer that was reset nor a     *)
(* line nobody drives is a reply.                                          *)
LEMMA OpCodesAreNoMasks ==
    ASSUME NEW c \in Commands, NEW m \in Masks PROVE OpCode[c] # m
<1>1. \E x \in Bits : ~(x \in OpCode[c] <=> x \in OnMask)
  BY CommandNames DEF OpCode, OnMask, Bits
<1>2. \E x \in Bits : ~(x \in OpCode[c] <=> x \in OffMask)
  BY CommandNames DEF OpCode, OffMask, Bits
<1> QED
  BY <1>1, <1>2 DEF Masks

LEMMA SilenceIsNoReply ==
    ASSUME NEW c \in Commands, NEW m \in Masks
    PROVE  SymDiff(OpCode[c], m) # {} /\ SymDiff(OpCode[c], m) # Bits
<1>1. \A x : x \in SymDiff(OpCode[c], m) <=> ~(x \in OpCode[c] <=> x \in m)
  BY SymDiffBits
<1>2. OpCode[c] \in Byte /\ m \in Byte
  BY OpCodeBits, MaskBits DEF Masks
<1>3. CASE SymDiff(OpCode[c], m) = {}
  <2>1. OpCode[c] = m
    BY <1>1, <1>2, <1>3
  <2> QED
    BY <2>1, OpCodesAreNoMasks
<1>4. CASE SymDiff(OpCode[c], m) = Bits
  <2> DEFINE n == IF m = OnMask THEN OffMask ELSE OnMask
  <2>1. n \in Masks /\ \A x \in Bits : x \in m <=> x \notin n
    BY MaskBits DEF Masks
  <2>2. n \in Byte
    BY <2>1, MaskBits DEF Masks
  <2> HIDE DEF n
  <2>3. \A x \in Bits : x \in OpCode[c] <=> x \in n
    BY <1>1, <1>4, <2>1
  <2>4. OpCode[c] = n
    BY <1>2, <2>2, <2>3 DEF Byte, Bits
  <2> QED
    BY <2>1, <2>4, OpCodesAreNoMasks
<1> QED
  BY <1>3, <1>4

-----------------------------------------------------------------------------
(* the queues *)

QueuesOK ==
    /\ pending \in [Handlers -> Seq(BOOLEAN)]
    /\ \A h \in Handlers : Len(pending[h]) <= QueueSize[h]

LEMMA HandlerNames ==
    /\ Handlers = {"i2c_command", "i2c_read", "i2c_error", "comms_grace_over"}
    /\ QueueSize["i2c_command"] = 2
    /\ QueueSize["i2c_read"] = 1
    /\ QueueSize["i2c_error"] = 1
    /\ QueueSize["comms_grace_over"] = 1
BY DEF Handlers, Priority, QueueSize

LEMMA RingLemma ==
    ASSUME NEW q \in Seq(BOOLEAN), NEW d \in BOOLEAN, NEW n \in {1, 2}, Len(q) <= n
    PROVE  /\ PushedRing(q, d, n) \in Seq(BOOLEAN)
           /\ Len(PushedRing(q, d, n)) <= n
           /\ PushedRing(q, d, n) # <<>>
           /\ n = 1 => PushedRing(q, d, n) = <<d>>
<1>0. Len(q) \in Nat /\ n \in Nat
  BY LenProperties
<1>1. CASE Len(q) < n
  <2>1. PushedRing(q, d, n) = Append(q, d)
    BY <1>1 DEF PushedRing
  <2>2. /\ Append(q, d) \in Seq(BOOLEAN)
        /\ Len(Append(q, d)) = Len(q) + 1
    BY AppendProperties
  <2>3. n = 1 => Append(q, d) = <<d>>
    <3>1. n = 1 => Len(q) = 0
      BY <1>0, <1>1
    <3>2. n = 1 => q = <<>>
      BY <3>1, EmptySeq
    <3>3. Append(<<>>, d) = <<d>>
      OBVIOUS
    <3> QED
      BY <3>2, <3>3
  <2>4. Append(q, d) # <<>>
    BY <1>0, <2>2, EmptySeq
  <2> QED
    BY <1>0, <1>1, <2>1, <2>2, <2>3, <2>4
<1>2. CASE ~(Len(q) < n)
  <2>1. PushedRing(q, d, n) = Append(Tail(q), d)
    BY <1>2 DEF PushedRing
  <2>2. Len(q) = n /\ q # <<>>
    BY <1>0, <1>2, EmptySeq
  <2>3. Tail(q) \in Seq(BOOLEAN) /\ Len(Tail(q)) = n - 1
    BY <2>2, HeadTailProperties
  <2>4. /\ Append(Tail(q), d) \in Seq(BOOLEAN)
        /\ Len(Append(Tail(q), d)) = Len(Tail(q)) + 1
    BY <2>3, AppendProperties
  <2>5. n = 1 => Append(Tail(q), d) = <<d>>
    <3>1. n = 1 => Tail(q) = <<>>
      BY <2>3, EmptySeq
    <3>2. Append(<<>>, d) = <<d>>
      OBVIOUS
    <3> QED
      BY <3>1, <3>2
  <2>6. Append(Tail(q), d) # <<>>
    BY <1>0, <2>3, <2>4, EmptySeq
  <2> QED
    BY <1>0, <2>1, <2>3, <2>4, <2>5, <2>6
<1> QED
  BY <1>1, <1>2

LEMMA NotifiedLemma ==
    ASSUME QueuesOK, NEW h \in Handlers, NEW arg \in BOOLEAN, pending' = Notified(h, arg)
    PROVE  /\ QueuesOK'
           /\ pending'[h] # <<>>
           /\ QueueSize[h] = 1 => pending'[h] = <<arg>>
           /\ \A g \in Handlers \ {h} : pending'[g] = pending[g]
<1> DEFINE q == PushedRing(pending[h], arg, QueueSize[h])
<1>1. /\ pending' = [pending EXCEPT ![h] = q]
      /\ pending \in [Handlers -> Seq(BOOLEAN)]
  BY DEF Notified, QueuesOK
<1>2. QueueSize[h] \in {1, 2}
  BY HandlerNames
<1>3. /\ q \in Seq(BOOLEAN) /\ Len(q) <= QueueSize[h]
      /\ q # <<>>
      /\ QueueSize[h] = 1 => q = <<arg>>
  BY <1>1, <1>2, RingLemma DEF QueuesOK
<1> HIDE DEF q
<1>4. pending' \in [Handlers -> Seq(BOOLEAN)]
  BY <1>1, <1>3
<1>5. \A g \in Handlers \ {h} : pending'[g] = pending[g]
  BY <1>1
<1>6. pending'[h] = q
  BY <1>1
<1>7. \A g \in Handlers : Len(pending'[g]) <= QueueSize[g]
  BY <1>3, <1>5, <1>6 DEF QueuesOK
<1> QED
  BY <1>3, <1>4, <1>5, <1>6, <1>7 DEF QueuesOK

LEMMA One == ASSUME NEW n \in Nat, n # 0, n <= 1 PROVE n = 1
OBVIOUS

LEMMA PoppedLemma ==
    ASSUME QueuesOK, NEW h \in Handlers, pending[h] # <<>>, pending' = Popped(h)
    PROVE  /\ QueuesOK'
           /\ Head(pending[h]) \in BOOLEAN
           /\ QueueSize[h] = 1 => pending'[h] = <<>>
           /\ \A g \in Handlers \ {h} : pending'[g] = pending[g]
<1>1. /\ pending' = [pending EXCEPT ![h] = Tail(pending[h])]
      /\ pending \in [Handlers -> Seq(BOOLEAN)]
  BY DEF Popped, QueuesOK
<1>2. /\ Tail(pending[h]) \in Seq(BOOLEAN)
      /\ Len(Tail(pending[h])) = Len(pending[h]) - 1
      /\ Head(pending[h]) \in BOOLEAN
  BY <1>1, HeadTailProperties
<1>3. Len(pending[h]) \in Nat /\ Len(pending[h]) <= QueueSize[h] /\ Len(pending[h]) # 0
  BY <1>1, LenProperties, EmptySeq DEF QueuesOK
<1>4. pending' \in [Handlers -> Seq(BOOLEAN)]
  BY <1>1, <1>2
<1>5. \A g \in Handlers \ {h} : pending'[g] = pending[g]
  BY <1>1
<1>6. pending'[h] = Tail(pending[h])
  BY <1>1
<1>7. QueueSize[h] \in {1, 2}
  BY HandlerNames
<1>8. Len(pending'[h]) <= QueueSize[h]
  BY <1>2, <1>3, <1>6, <1>7
<1>9. \A g \in Handlers : Len(pending'[g]) <= QueueSize[g]
  BY <1>5, <1>8 DEF QueuesOK
<1>10. QueueSize[h] = 1 => pending'[h] = <<>>
  <2> SUFFICES ASSUME QueueSize[h] = 1 PROVE pending'[h] = <<>>
    OBVIOUS
  <2>0. Len(pending[h]) <= 1
    BY <1>3, HandlerNames
  <2>3. Len(pending[h]) \in Nat /\ Len(pending[h]) # 0
    BY <1>3
  <2>1. Len(pending[h]) = 1
    BY <2>0, <2>3, One
  <2>2. Len(Tail(pending[h])) = 0
    BY <1>2, <2>1
  <2> QED
    BY <1>2, <1>6, <2>2, EmptySeq
<1> QED
  BY <1>2, <1>4, <1>5, <1>9, <1>10 DEF QueuesOK

-----------------------------------------------------------------------------
(* what a frame under way has done so far *)
FrameInv ==
    bus = "reply" =>
        /\ delivered \in {OpCode[lastSent]} \cup Flipped(OpCode[lastSent])
        /\ sendData \in {EncodeReply(answered, delivered), {}}

(* An error in the queue and a frame on the bus may count once more each,  *)
(* and nothing starts a frame once the limit is reached.                   *)
ErrorPending == pending["i2c_error"] # <<>>
Busy == bus # "idle"

CountInv ==
    /\ ~stopTransmit => errorCount < Limit
    /\ errorCount <= Limit + 5
    /\ ErrorPending \/ Busy => errorCount <= Limit + 3
    /\ ErrorPending /\ Busy => errorCount <= Limit + 1

(* TypeOK of what is no queue *)
Ranges ==
    /\ command \in Wanted \cup {"idle"}
    /\ lastSent \in Wanted \cup {"idle"}
    /\ bus \in {"idle", "command", "reply"}
    /\ sendData \in Byte
    /\ pressure \in BOOLEAN
    /\ hubUp \in BOOLEAN
    /\ transmitTimer \in BOOLEAN
    /\ graceTimer \in BOOLEAN
    /\ errorCount \in Nat
    /\ inGracePeriod \in BOOLEAN
    /\ stopTransmit \in BOOLEAN
    /\ chuckReleased \in BOOLEAN
    /\ delivered \in Byte
    /\ answered \in BOOLEAN

IInv == QueuesOK /\ Ranges /\ FrameInv /\ CountInv

LEMMA WantedCommands == \A c \in Wanted \cup {"idle"} : c \in Commands
BY CommsAssumption, CommandNames

LEMMA EncodeByte ==
    ASSUME NEW on \in BOOLEAN, NEW byte \in Byte
    PROVE  /\ EncodeReply(on, byte) \in Byte
           /\ \E m \in Masks : EncodeReply(on, byte) = SymDiff(byte, m)
<1> DEFINE m == IF on THEN OnMask ELSE OffMask
<1>1. m \in Masks /\ m \in Byte
  BY MaskBits DEF Masks
<1>2. EncodeReply(on, byte) = SymDiff(byte, m)
  BY DEF EncodeReply
<1> HIDE DEF m
<1> QED
  BY <1>1, <1>2, SymDiffByte

LEMMA CountLemma ==
    ASSUME Ranges, CountError
    PROVE  /\ errorCount' \in Nat
           /\ errorCount' <= errorCount + 2
           /\ stopTransmit' \in BOOLEAN
           /\ chuckReleased' \in BOOLEAN
           /\ ~stopTransmit' => errorCount' < Limit
<1>1. errorCount \in Nat /\ Limit \in Nat
  BY CommsAssumption DEF Ranges
<1>2. errorCount' = errorCount \/ errorCount' = (errorCount + 2) % 256
  BY DEF CountError
<1>3. (errorCount + 2) % 256 \in Nat /\ (errorCount + 2) % 256 <= errorCount + 2
  BY <1>1
<1>4. errorCount' \in Nat /\ errorCount' <= errorCount + 2
  BY <1>1, <1>2, <1>3
<1>5. \/ errorCount' >= Limit /\ stopTransmit' = TRUE /\ chuckReleased' = FALSE
      \/ ~(errorCount' >= Limit) /\ UNCHANGED <<stopTransmit, chuckReleased>>
  BY DEF CountError
<1>6. stopTransmit' \in BOOLEAN /\ chuckReleased' \in BOOLEAN
  BY <1>5 DEF Ranges
<1>7. ~stopTransmit' => ~(errorCount' >= Limit)
  BY <1>5
<1> QED
  BY <1>1, <1>4, <1>6, <1>7

LEMMA InitOK == Init => IInv
<1> SUFFICES ASSUME Init PROVE IInv
  OBVIOUS
<1>1. \A h \in Handlers : pending[h] = <<>>
  BY DEF Init
<1>2. QueuesOK
  <2>1. Len(<<>>) = 0 /\ <<>> \in Seq(BOOLEAN)
    BY EmptySeq
  <2>2. pending \in [Handlers -> Seq(BOOLEAN)]
    BY <2>1 DEF Init
  <2>3. \A h \in Handlers : QueueSize[h] >= 0
    BY HandlerNames
  <2> QED
    BY <1>1, <2>1, <2>2, <2>3 DEF QueuesOK
<1>3. Ranges
  BY DEF Init, Ranges, Byte
<1>4. FrameInv
  BY DEF Init, FrameInv
<1>5. errorCount = 0 /\ Limit \in Nat \ {0}
  BY CommsAssumption DEF Init
<1>6. CountInv
  BY <1>5 DEF CountInv
<1> QED
  BY <1>2, <1>3, <1>4, <1>6 DEF IInv

(* What a step that leaves the frame alone keeps. *)
LEMMA FrameKept ==
    ASSUME FrameInv, UNCHANGED <<bus, lastSent, delivered, sendData, answered>>
    PROVE  FrameInv'
BY DEF FrameInv, EncodeReply, Flipped

(* A step that neither raises the count nor brings an error on its way. *)
LEMMA CountKept ==
    ASSUME CountInv, Ranges, errorCount' \in Nat, errorCount' <= errorCount,
           UNCHANGED stopTransmit, ErrorPending' => ErrorPending, Busy' => Busy
    PROVE  CountInv'
<1>1. Limit \in Nat /\ errorCount \in Nat
  BY CommsAssumption DEF Ranges
<1> QED
  BY <1>1 DEF CountInv

(* The end of a frame, with or without an error. *)
LEMMA FrameEndCounts ==
    ASSUME CountInv, Ranges, Busy, ~Busy', UNCHANGED <<errorCount, stopTransmit>>
    PROVE  CountInv'
<1>1. Limit \in Nat /\ errorCount \in Nat
  BY CommsAssumption DEF Ranges
<1> QED
  BY <1>1 DEF CountInv

(* The limit is reached with two errors on their way at most. *)
LEMMA LimitCounts ==
    ASSUME CountInv, Ranges, ~stopTransmit, CountError
    PROVE  CountInv'
<1>1. Limit \in Nat /\ errorCount \in Nat
  BY CommsAssumption DEF Ranges
<1>2. errorCount < Limit
  BY DEF CountInv
<1>3. errorCount' \in Nat /\ errorCount' <= errorCount + 2
  BY CountLemma
<1>4. errorCount' <= Limit + 1
  BY <1>1, <1>2, <1>3
<1>5. ~stopTransmit' => errorCount' < Limit
  BY CountLemma
<1> QED
  BY <1>1, <1>3, <1>4, <1>5 DEF CountInv

LEMMA OnErrorOK == ASSUME IInv, OnError PROVE IInv'
<1>0. QueuesOK /\ Ranges /\ FrameInv /\ CountInv
  BY DEF IInv
<1>1. /\ pending["i2c_error"] # <<>> /\ pending' = Popped("i2c_error") /\ CountError
      /\ UNCHANGED <<command, lastSent, transmitTimer, graceTimer, inGracePeriod,
                     hub, bus>>
  BY DEF OnError, Called
<1>2. QueuesOK' /\ pending'["i2c_error"] = <<>>
  BY <1>0, <1>1, HandlerNames, PoppedLemma
<1>3. /\ errorCount' \in Nat
      /\ errorCount' <= errorCount + 2
      /\ stopTransmit' \in BOOLEAN
      /\ chuckReleased' \in BOOLEAN
  BY <1>0, <1>1, CountLemma
<1>4. Ranges'
  BY <1>0, <1>1, <1>3 DEF Ranges, hub
<1>5. FrameInv'
  BY <1>0, <1>1, FrameKept DEF hub
<1>6. CountInv'
  <2>1. Limit \in Nat /\ errorCount \in Nat
    BY <1>0, CommsAssumption DEF Ranges
  <2>2. ErrorPending /\ ~ErrorPending' /\ (Busy' <=> Busy)
    BY <1>1, <1>2 DEF ErrorPending, Busy
  <2>3. errorCount <= Limit + 3 /\ (Busy => errorCount <= Limit + 1)
    BY <1>0, <2>2 DEF CountInv
  <2>4. errorCount' <= Limit + 5 /\ (Busy => errorCount' <= Limit + 3)
    BY <1>3, <2>1, <2>3
  <2>5. ~stopTransmit' => errorCount' < Limit
    BY <1>0, <1>1, CountLemma
  <2> QED
    BY <2>2, <2>4, <2>5 DEF CountInv
<1> QED
  BY <1>2, <1>4, <1>5, <1>6 DEF IInv

LEMMA OnReadOK == ASSUME IInv, OnRead PROVE IInv'
<1>0. QueuesOK /\ Ranges /\ FrameInv /\ CountInv
  BY DEF IInv
<1>1. /\ pending["i2c_read"] # <<>> /\ pending' = Popped("i2c_read")
      /\ errorCount' = IF errorCount > 0 THEN errorCount - 1 ELSE 0
      /\ chuckReleased' = Head(pending["i2c_read"])
      /\ UNCHANGED <<command, lastSent, transmitTimer, graceTimer, inGracePeriod,
                     stopTransmit, hub, bus>>
  BY DEF OnRead, Called
<1>2. /\ QueuesOK' /\ pending'["i2c_error"] = pending["i2c_error"]
      /\ Head(pending["i2c_read"]) \in BOOLEAN
  BY <1>0, <1>1, HandlerNames, PoppedLemma
<1>3. errorCount' \in Nat /\ errorCount' <= errorCount
  BY <1>0, <1>1 DEF Ranges
<1>4. Ranges'
  BY <1>0, <1>1, <1>2, <1>3 DEF Ranges, hub
<1>5. FrameInv'
  BY <1>0, <1>1, FrameKept DEF hub
<1>6. CountInv'
  BY <1>0, <1>1, <1>2, <1>3, CountKept DEF ErrorPending, Busy
<1> QED
  BY <1>2, <1>4, <1>5, <1>6 DEF IInv

LEMMA OnGraceOverOK == ASSUME IInv, OnGraceOver PROVE IInv'
<1>0. QueuesOK /\ Ranges /\ FrameInv /\ CountInv
  BY DEF IInv
<1>1. /\ pending["comms_grace_over"] # <<>> /\ pending' = Popped("comms_grace_over")
      /\ inGracePeriod' = FALSE
      /\ UNCHANGED <<command, lastSent, transmitTimer, graceTimer, errorCount,
                     stopTransmit, chuckReleased, hub, bus>>
  BY DEF OnGraceOver, Called
<1>2. QueuesOK' /\ pending'["i2c_error"] = pending["i2c_error"]
  BY <1>0, <1>1, HandlerNames, PoppedLemma
<1>3. errorCount' \in Nat /\ errorCount' <= errorCount
  BY <1>0, <1>1 DEF Ranges
<1>4. Ranges'
  BY <1>0, <1>1 DEF Ranges, hub
<1>5. FrameInv'
  BY <1>0, <1>1, FrameKept DEF hub
<1>6. CountInv'
  BY <1>0, <1>1, <1>2, <1>3, CountKept DEF ErrorPending, Busy
<1> QED
  BY <1>2, <1>4, <1>5, <1>6 DEF IInv

LEMMA OnSendOK == ASSUME IInv, OnSend PROVE IInv'
<1>0. QueuesOK /\ Ranges /\ FrameInv /\ CountInv
  BY DEF IInv
<1>1. /\ pending["i2c_command"] # <<>> /\ pending' = Popped("i2c_command")
      /\ UNCHANGED hub
  BY DEF OnSend, Called
<1>2. QueuesOK' /\ pending'["i2c_error"] = pending["i2c_error"]
  BY <1>0, <1>1, HandlerNames, PoppedLemma
<1>3. CASE stopTransmit /\ UNCHANGED <<controller, bus>>
  <2>1. Ranges'
    BY <1>0, <1>1, <1>3 DEF Ranges, controller, hub
  <2>2. FrameInv'
    BY <1>0, <1>1, <1>3, FrameKept DEF controller, hub
  <2>3. errorCount' \in Nat /\ errorCount' <= errorCount
    BY <1>0, <1>3 DEF Ranges, controller
  <2>4. CountInv'
    BY <1>0, <1>2, <1>3, <2>3, CountKept DEF controller, ErrorPending, Busy
  <2> QED
    BY <1>2, <2>1, <2>2, <2>4 DEF IInv
<1>4. CASE /\ ~stopTransmit /\ bus # "idle"
           /\ CountError
           /\ transmitTimer' = TRUE
           /\ UNCHANGED <<command, lastSent, graceTimer, inGracePeriod, bus>>
  <2>1. errorCount' \in Nat /\ stopTransmit' \in BOOLEAN /\ chuckReleased' \in BOOLEAN
    BY <1>0, <1>4, CountLemma
  <2>2. Ranges'
    BY <1>0, <1>1, <1>4, <2>1 DEF Ranges, hub
  <2>3. FrameInv'
    BY <1>0, <1>1, <1>4, FrameKept DEF hub
  <2>4. CountInv'
    BY <1>0, <1>4, LimitCounts
  <2> QED
    BY <1>2, <2>2, <2>3, <2>4 DEF IInv
<1>5. CASE /\ ~stopTransmit /\ bus = "idle"
           /\ lastSent' = command /\ bus' = "command" /\ transmitTimer' = TRUE
           /\ UNCHANGED <<command, graceTimer, errorCount, inGracePeriod,
                          stopTransmit, chuckReleased>>
  <2>1. Ranges'
    BY <1>0, <1>1, <1>5 DEF Ranges, hub
  <2>2. FrameInv'
    BY <1>5 DEF FrameInv
  <2>3. CountInv'
    <3>1. Limit \in Nat /\ errorCount \in Nat
      BY <1>0, CommsAssumption DEF Ranges
    <3>2. errorCount < Limit /\ errorCount' = errorCount
      BY <1>0, <1>5 DEF CountInv
    <3>3. errorCount' <= Limit + 1
      BY <3>1, <3>2
    <3> QED
      BY <3>1, <3>2, <3>3 DEF CountInv
  <2> QED
    BY <1>2, <2>1, <2>2, <2>3 DEF IInv
<1> QED
  BY <1>3, <1>4, <1>5 DEF OnSend

LEMMA ChangeCommandOK ==
    ASSUME IInv, NEW cmd \in Wanted, ChangeCommand(cmd) PROVE IInv'
<1>0. QueuesOK /\ Ranges /\ FrameInv /\ CountInv
  BY DEF IInv
<1>1. /\ command' = cmd /\ transmitTimer' = TRUE
      /\ UNCHANGED <<lastSent, graceTimer, errorCount, inGracePeriod,
                     stopTransmit, chuckReleased, hub, bus, pending>>
  BY DEF ChangeCommand
<1>2. QueuesOK'
  BY <1>0, <1>1 DEF QueuesOK
<1>3. Ranges'
  BY <1>0, <1>1 DEF Ranges, hub
<1>4. FrameInv'
  BY <1>0, <1>1, FrameKept DEF hub
<1>5. CountInv'
  BY <1>0, <1>1 DEF CountInv, ErrorPending, Busy
<1> QED
  BY <1>2, <1>3, <1>4, <1>5 DEF IInv

LEMMA ExpiresOK == ASSUME IInv, ExpireTransmit \/ ExpireGrace PROVE IInv'
<1>0. QueuesOK /\ Ranges /\ FrameInv /\ CountInv
  BY DEF IInv
<1>1. PICK h \in {"i2c_command", "comms_grace_over"} : pending' = Notified(h, FALSE)
  BY DEF ExpireTransmit, ExpireGrace
<1>2. QueuesOK' /\ pending'["i2c_error"] = pending["i2c_error"]
  BY <1>0, <1>1, HandlerNames, NotifiedLemma
<1>3. /\ transmitTimer' \in BOOLEAN /\ graceTimer' \in BOOLEAN
      /\ UNCHANGED <<command, lastSent, errorCount, inGracePeriod,
                     stopTransmit, chuckReleased, hub, bus>>
  BY <1>0 DEF ExpireTransmit, ExpireGrace, Ranges
<1>4. Ranges'
  BY <1>0, <1>3 DEF Ranges, hub
<1>5. FrameInv'
  BY <1>0, <1>3, FrameKept DEF hub
<1>6. CountInv'
  BY <1>0, <1>2, <1>3 DEF CountInv, ErrorPending, Busy
<1> QED
  BY <1>2, <1>4, <1>5, <1>6 DEF IInv

LEMMA HubReceivesOK ==
    ASSUME IInv, NEW byte \in {OpCode[lastSent]} \cup Flipped(OpCode[lastSent]),
           HubReceives(byte)
    PROVE  IInv'
<1>0. QueuesOK /\ Ranges /\ FrameInv /\ CountInv
  BY DEF IInv
<1>1. /\ bus = "command" /\ bus' = "reply"
      /\ delivered' = byte /\ answered' = pressure
      /\ sendData' = EncodeReply(pressure, byte)
      /\ UNCHANGED <<controller, pressure, hubUp, pending>>
  BY DEF HubReceives
<1>2. lastSent \in Commands /\ OpCode[lastSent] \in Byte
  BY <1>0, WantedCommands, OpCodeBits DEF Ranges
<1>3. byte \in Byte
  <2>1. \A bit \in Bits : {bit} \in Byte
    BY DEF Byte, Bits
  <2>2. Flipped(OpCode[lastSent]) \subseteq Byte
    BY <1>2, <2>1, SymDiffByte DEF Flipped, Bits
  <2> QED
    BY <1>2, <2>2
<1>4. pressure \in BOOLEAN
  BY <1>0 DEF Ranges
<1>5. sendData' \in Byte
  BY <1>1, <1>3, <1>4, EncodeByte
<1>6. QueuesOK'
  BY <1>0, <1>1 DEF QueuesOK
<1>7. Ranges'
  BY <1>0, <1>1, <1>3, <1>4, <1>5 DEF Ranges, controller
<1>8. FrameInv'
  <2>1. lastSent' = lastSent
    BY <1>1 DEF controller
  <2>2. sendData' = EncodeReply(answered', delivered')
    BY <1>1
  <2>3. delivered' \in {OpCode[lastSent']} \cup Flipped(OpCode[lastSent'])
    BY <1>1, <2>1
  <2> QED
    BY <2>2, <2>3 DEF FrameInv
<1>9. CountInv'
  BY <1>0, <1>1 DEF CountInv, ErrorPending, Busy, controller
<1> QED
  BY <1>6, <1>7, <1>8, <1>9 DEF IInv

(* the end of a frame, whoever is notified *)
LEMMA FrameEndsOK ==
    ASSUME IInv, bus # "idle", FrameEnds, QueuesOK' PROVE IInv'
<1>0. QueuesOK /\ Ranges /\ FrameInv /\ CountInv
  BY DEF IInv
<1>1. /\ bus' = "idle" /\ sendData' = {} /\ delivered' = {} /\ answered' = FALSE
      /\ UNCHANGED <<controller, pressure, hubUp>>
  BY DEF FrameEnds
<1>2. Ranges'
  BY <1>0, <1>1 DEF Ranges, controller, Byte
<1>3. FrameInv'
  BY <1>1 DEF FrameInv
<1>4. CountInv'
  BY <1>0, <1>1, FrameEndCounts DEF Busy, controller
<1> QED
  BY <1>2, <1>3, <1>4 DEF IInv

LEMMA MasterReadsOK == ASSUME IInv, NEW byte, MasterReads(byte) PROVE IInv'
<1>1. bus # "idle" /\ FrameEnds
  BY DEF MasterReads
<1>2. \E h \in {"i2c_error", "i2c_read"}, arg \in BOOLEAN : pending' = Notified(h, arg)
  BY DEF MasterReads
<1>3. QueuesOK'
  BY <1>2, HandlerNames, NotifiedLemma DEF IInv
<1> QED
  BY <1>1, <1>3, FrameEndsOK

LEMMA FaultOK == ASSUME IInv, Fault PROVE IInv'
<1>1. bus # "idle" /\ FrameEnds /\ pending' = Notified("i2c_error", FALSE)
  BY DEF Fault
<1>2. QueuesOK'
  BY <1>1, HandlerNames, NotifiedLemma DEF IInv
<1> QED
  BY <1>1, <1>2, FrameEndsOK

LEMMA HubStepsOK == ASSUME IInv, PressureChanges \/ HubFails \/ HubStarts PROVE IInv'
<1>0. QueuesOK /\ Ranges /\ FrameInv /\ CountInv
  BY DEF IInv
<1>1. /\ UNCHANGED <<controller, bus, pending, delivered, answered>>
      /\ sendData' \in {sendData, {}}
      /\ pressure' \in BOOLEAN /\ hubUp' \in BOOLEAN
  BY <1>0 DEF PressureChanges, HubFails, HubStarts, Ranges
<1>2. QueuesOK'
  BY <1>0, <1>1 DEF QueuesOK
<1>3. Ranges'
  BY <1>0, <1>1 DEF Ranges, controller, Byte
<1>4. FrameInv'
  BY <1>0, <1>1 DEF FrameInv, EncodeReply, Flipped, controller
<1>5. CountInv'
  BY <1>0, <1>1 DEF CountInv, ErrorPending, Busy, controller
<1> QED
  BY <1>2, <1>3, <1>4, <1>5 DEF IInv

LEMMA NextOK == IInv /\ [Next]_vars => IInv'
<1> SUFFICES ASSUME IInv, [Next]_vars PROVE IInv'
  OBVIOUS
<1>1. CASE Handle
  BY <1>1, OnSendOK, OnReadOK, OnErrorOK, OnGraceOverOK DEF Handle
<1>2. CASE ExpireTransmit \/ ExpireGrace
  BY <1>2, ExpiresOK
<1>3. CASE \E cmd \in Wanted : ChangeCommand(cmd)
  BY <1>3, ChangeCommandOK
<1>4. CASE Transfer
  <2>1. \/ \E byte \in {OpCode[lastSent]} \cup Flipped(OpCode[lastSent]) :
              HubReceives(byte)
        \/ \E byte : MasterReads(byte)
        \/ Fault
    BY <1>4 DEF Transfer
  <2> QED
    BY <2>1, HubReceivesOK, MasterReadsOK, FaultOK
<1>5. CASE PressureChanges \/ HubFails \/ HubStarts
  BY <1>5, HubStepsOK
<1>6. CASE UNCHANGED vars
  <2>1. UNCHANGED <<controller, hub, bus, pending>>
    BY <1>6 DEF vars
  <2>2. QueuesOK' /\ Ranges' /\ CountInv'
    BY <2>1 DEF IInv, QueuesOK, Ranges, CountInv, ErrorPending, Busy, controller, hub
  <2>3. FrameInv'
    BY <2>1, FrameKept DEF IInv, controller, hub
  <2> QED
    BY <2>2, <2>3 DEF IInv
<1> QED
  BY <1>1, <1>2, <1>3, <1>4, <1>5, <1>6 DEF Next

LEMMA Inductive == Spec => []IInv
BY InitOK, NextOK, PTL DEF Spec

-----------------------------------------------------------------------------
(* Every variable keeps its range; in particular the count of errors, a    *)
(* byte that goes up by two, stays within five of any limit.               *)
THEOREM TypeCorrect == Spec => []TypeOK
<1>1. IInv => TypeOK
  <2> SUFFICES ASSUME IInv PROVE TypeOK
    OBVIOUS
  <2>1. errorCount \in Nat /\ errorCount <= Limit + 5 /\ Limit \in Nat
    BY CommsAssumption DEF IInv, Ranges, CountInv
  <2>2. errorCount \in 0..(Limit + 5)
    BY <2>1
  <2> QED
    BY <2>2 DEF IInv, QueuesOK, Ranges, TypeOK
<1> QED
  BY <1>1, Inductive, PTL

(* op_codes.h:21, "using the highest hamming distance": with a bit flipped *)
(* on the wire no command, of those the controller may send, is taken for  *)
(* another one.                                                            *)
THEOREM CommandsDistinct == Spec => []NoWrongCommand
<1>1. IInv => NoWrongCommand
  <2> SUFFICES ASSUME IInv, bus = "reply", IsCommand(delivered)
               PROVE  delivered = OpCode[lastSent]
    BY DEF NoWrongCommand
  <2>1. lastSent \in Commands
    BY WantedCommands DEF IInv, Ranges
  <2>2. PICK d \in Commands : OpCode[d] = delivered
    BY DEF IsCommand
  <2>3. SUFFICES ASSUME delivered \in Flipped(OpCode[lastSent]) PROVE FALSE
    BY DEF IInv, FrameInv
  <2>4. PICK bit \in Bits : delivered = SymDiff(OpCode[lastSent], {bit})
    BY <2>3 DEF Flipped, Bits
  <2> QED
    BY <2>1, <2>2, <2>4, FlippedIsNoCommand
<1> QED
  BY <1>1, Inductive, PTL

(* what the master makes of a byte that decodes *)
LEMMA DecodeLemma ==
    ASSUME NEW cmd, NEW byte, DecodeReply(cmd, byte) # "error"
    PROVE  \/ /\ byte = SymDiff(OpCode[cmd], OnMask)
              /\ DecodeReply(cmd, byte) = "on"
           \/ /\ byte = SymDiff(OpCode[cmd], OffMask)
              /\ DecodeReply(cmd, byte) = "off"
BY DEF DecodeReply

(* A byte that decodes is the reply to the command that was sent, with the *)
(* pressure the hub had.                                                   *)
LEMMA AcceptedReply ==
    ASSUME IInv, bus = "reply", NEW byte,
           byte = Driven \/ (Undisturbed /\ byte \in Flipped(Driven)),
           DecodeReply(lastSent, byte) # "error"
    PROVE  /\ delivered = OpCode[lastSent]
           /\ answered = (DecodeReply(lastSent, byte) = "on")
<1> DEFINE op == OpCode[lastSent]
<1>1. lastSent \in Commands /\ op \in Byte /\ answered \in BOOLEAN /\ delivered \in Byte
  BY WantedCommands, OpCodeBits DEF IInv, Ranges
<1> DEFINE m == IF answered THEN OnMask ELSE OffMask
<1>2. m \in Masks /\ m \in Byte
  BY MaskBits DEF Masks
<1>3. \A b : EncodeReply(answered, b) = SymDiff(b, m)
  BY DEF EncodeReply
<1>4. PICK n \in Masks :
        /\ byte = SymDiff(op, n)
        /\ n = OnMask => DecodeReply(lastSent, byte) = "on"
        /\ n = OffMask => DecodeReply(lastSent, byte) = "off"
  <2>1. OnMask # OffMask
    BY MaskBits DEF Bits
  <2> QED
    BY <2>1, DecodeLemma DEF Masks
<1>5. m = OnMask => answered = TRUE
  BY <1>1, MaskBits DEF Bits
<1>6. m = OffMask => answered = FALSE
  BY <1>1, MaskBits DEF Bits
<1> HIDE DEF m
<1>7. SUFFICES delivered = op /\ n = m
  BY <1>2, <1>4, <1>5, <1>6 DEF Masks
<1>8. CASE byte = Driven
  <2>1. Driven # {} /\ Driven # Bits
    BY <1>1, <1>4, <1>8, SilenceIsNoReply
  <2>2. Driven = SymDiff(delivered, m)
    <3>1. Driven = sendData \/ Driven = Bits
      BY DEF Driven, Bits
    <3>2. sendData = EncodeReply(answered, delivered) \/ sendData = {}
      BY DEF IInv, FrameInv
    <3> QED
      BY <1>3, <2>1, <3>1, <3>2
  <2>3. CASE delivered = op
    BY <1>1, <1>2, <1>4, <1>8, <2>2, <2>3, RepliesDiffer
  <2>4. CASE delivered \in Flipped(op)
    <3>1. PICK bit \in Bits : delivered = SymDiff(op, {bit})
      BY <2>4 DEF Flipped, Bits
    <3> QED
      BY <1>1, <1>2, <1>4, <1>8, <2>2, <3>1, FlippedCommandIsNoReply
  <2> QED
    BY <2>3, <2>4 DEF IInv, FrameInv
<1>9. CASE Undisturbed /\ byte \in Flipped(Driven)
  <2>1. Driven = SymDiff(op, m)
    BY <1>3, <1>9 DEF Undisturbed
  <2>2. PICK bit \in Bits : byte = SymDiff(Driven, {bit})
    BY <1>9 DEF Flipped, Bits
  <2> QED
    BY <1>1, <1>2, <1>4, <2>1, <2>2, FlippedReplyIsNoReply
<1> QED
  BY <1>8, <1>9

(* op_codes.h: a reply the controller accepts says that the hub received   *)
(* the command that was sent and carries the pressure it had then,         *)
(* whatever bit was flipped and whenever the hub restarted.                *)
THEOREM RepliesMatch == Spec => ReplyMatchesCommand
<1> DEFINE Accepted == /\ bus = "reply" /\ bus' = "idle"
                       /\ \/ pending'["i2c_error"] = <<>>
                          \/ pending'["i2c_read"] # pending["i2c_read"]
           Matches == /\ delivered = OpCode[lastSent]
                      /\ pending'["i2c_read"] = <<answered>>
<1>1. ASSUME IInv, Next, Accepted PROVE Matches
  <2>0. QueuesOK
    BY <1>1 DEF IInv
  <2>1. ~Fault
    <3> SUFFICES ASSUME Fault PROVE FALSE
      OBVIOUS
    <3>1. pending' = Notified("i2c_error", FALSE)
      BY DEF Fault
    <3>2. pending'["i2c_error"] # <<>> /\ pending'["i2c_read"] = pending["i2c_read"]
      BY <2>0, <3>1, HandlerNames, NotifiedLemma
    <3> QED
      BY <1>1, <3>2
  <2>2. PICK byte : /\ MasterReads(byte)
                    /\ byte = Driven \/ (Undisturbed /\ byte \in Flipped(Driven))
    BY <1>1, <2>1 DEF Next, Handle, OnSend, OnRead, OnError, OnGraceOver,
       ExpireTransmit, ExpireGrace, ChangeCommand, Transfer, HubReceives,
       PressureChanges, HubFails, HubStarts
  <2> DEFINE reply == DecodeReply(lastSent, byte)
  <2>3. pending' = IF reply = "error" THEN Notified("i2c_error", FALSE)
                   ELSE Notified("i2c_read", reply = "on")
    BY <2>2 DEF MasterReads
  <2>4. reply # "error"
    <3> SUFFICES ASSUME reply = "error" PROVE FALSE
      OBVIOUS
    <3>1. pending' = Notified("i2c_error", FALSE)
      BY <2>3
    <3>2. pending'["i2c_error"] # <<>> /\ pending'["i2c_read"] = pending["i2c_read"]
      BY <2>0, <3>1, HandlerNames, NotifiedLemma
    <3> QED
      BY <1>1, <3>2
  <2>5. delivered = OpCode[lastSent] /\ answered = (reply = "on")
    BY <1>1, <2>2, <2>4, AcceptedReply
  <2>6. pending' = Notified("i2c_read", answered)
    BY <2>3, <2>4, <2>5
  <2>7. answered \in BOOLEAN
    BY <1>1 DEF IInv, Ranges
  <2>8. pending'["i2c_read"] = <<answered>>
    BY <2>0, <2>6, <2>7, HandlerNames, NotifiedLemma
  <2> QED
    BY <2>5, <2>8
<1>2. IInv /\ [Next]_vars => [Accepted => Matches]_vars
  BY <1>1
<1> QED
  BY <1>2, Inductive, PTL DEF Spec, ReplyMatchesCommand

-----------------------------------------------------------------------------
(* main.cpp:321-322, "The system will stop if the slave fails to answer or *)
(* if too many consecutive errors are detected": it goes on until then, a  *)
(* timer or a notification for the next frame being always on its way, and *)
(* stops when the count reaches the limit.                                 *)
GoesOnToLimit ==
    ~stopTransmit => /\ errorCount < Limit
                     /\ transmitTimer \/ pending["i2c_command"] # <<>>

NextFrameDue == ~stopTransmit => transmitTimer \/ pending["i2c_command"] # <<>>

LEMMA NextFrameStep == IInv /\ NextFrameDue /\ [Next]_vars => NextFrameDue'
<1> SUFFICES ASSUME IInv, NextFrameDue, [Next]_vars PROVE NextFrameDue'
  OBVIOUS
<1> USE DEF NextFrameDue
<1>0. /\ QueuesOK /\ stopTransmit \in BOOLEAN
      /\ Handlers = {"i2c_command", "i2c_read", "i2c_error", "comms_grace_over"}
  BY HandlerNames DEF IInv, Ranges
<1>1. ASSUME NEW h \in Handlers \ {"i2c_command"}, NEW arg \in BOOLEAN,
             \/ pending[h] # <<>> /\ pending' = Popped(h)
             \/ pending' = Notified(h, arg),
             transmitTimer' = transmitTimer, stopTransmit => stopTransmit'
      PROVE  NextFrameDue'
  <2>1. pending'["i2c_command"] = pending["i2c_command"]
    BY <1>0, <1>1, PoppedLemma, NotifiedLemma
  <2> QED
    BY <1>1, <2>1
<1>2. CASE OnSend
  BY <1>2 DEF OnSend, controller
<1>3. CASE OnRead
  <2>1. pending["i2c_read"] # <<>> /\ pending' = Popped("i2c_read")
        /\ UNCHANGED <<transmitTimer, stopTransmit>>
    BY <1>3 DEF OnRead, Called
  <2>2. FALSE \in BOOLEAN
    OBVIOUS
  <2> QED
    BY <1>0, <1>1, <2>1, <2>2
<1>4. CASE OnError
  <2>1. pending["i2c_error"] # <<>> /\ pending' = Popped("i2c_error")
        /\ transmitTimer' = transmitTimer /\ (stopTransmit => stopTransmit')
    BY <1>4 DEF OnError, Called, CountError
  <2>2. FALSE \in BOOLEAN
    OBVIOUS
  <2> QED
    BY <1>0, <1>1, <2>1, <2>2
<1>5. CASE OnGraceOver
  <2>1. pending["comms_grace_over"] # <<>> /\ pending' = Popped("comms_grace_over")
        /\ UNCHANGED <<transmitTimer, stopTransmit>>
    BY <1>5 DEF OnGraceOver, Called
  <2>2. FALSE \in BOOLEAN
    OBVIOUS
  <2> QED
    BY <1>0, <1>1, <2>1, <2>2
<1>6. CASE ExpireTransmit
  <2>1. pending' = Notified("i2c_command", FALSE)
    BY <1>6 DEF ExpireTransmit
  <2>2. pending'["i2c_command"] # <<>>
    BY <1>0, <2>1, NotifiedLemma
  <2> QED
    BY <2>2
<1>7. CASE ExpireGrace
  <2>1. pending' = Notified("comms_grace_over", FALSE)
        /\ UNCHANGED <<transmitTimer, stopTransmit>>
    BY <1>7 DEF ExpireGrace
  <2>2. FALSE \in BOOLEAN
    OBVIOUS
  <2> QED
    BY <1>0, <1>1, <2>1, <2>2
<1>8. ASSUME NEW cmd \in Wanted, ChangeCommand(cmd) PROVE NextFrameDue'
  BY <1>8 DEF ChangeCommand
<1>9. ASSUME NEW byte, HubReceives(byte) PROVE NextFrameDue'
  BY <1>9 DEF HubReceives, controller
<1>10. ASSUME NEW byte, MasterReads(byte) PROVE NextFrameDue'
  <2>1. UNCHANGED <<transmitTimer, stopTransmit>>
    BY <1>10 DEF MasterReads, FrameEnds, controller
  <2> DEFINE on == DecodeReply(lastSent, byte) = "on"
  <2>2. \/ pending' = Notified("i2c_error", FALSE)
        \/ pending' = Notified("i2c_read", on)
    BY <1>10 DEF MasterReads
  <2>3. on \in BOOLEAN /\ FALSE \in BOOLEAN
    OBVIOUS
  <2> HIDE DEF on
  <2> QED
    BY <1>0, <1>1, <2>1, <2>2, <2>3
<1>11. CASE Fault
  <2>1. pending' = Notified("i2c_error", FALSE) /\ UNCHANGED <<transmitTimer, stopTransmit>>
    BY <1>11 DEF Fault, FrameEnds, controller
  <2>2. FALSE \in BOOLEAN
    OBVIOUS
  <2> QED
    BY <1>0, <1>1, <2>1, <2>2
<1>12. CASE PressureChanges \/ HubFails \/ HubStarts
  BY <1>12 DEF PressureChanges, HubFails, HubStarts, controller
<1>13. CASE UNCHANGED vars
  BY <1>13 DEF vars, controller
<1> QED
  BY <1>2, <1>3, <1>4, <1>5, <1>6, <1>7, <1>8, <1>9, <1>10, <1>11, <1>12, <1>13
     DEF Next, Handle, Transfer

(* For any limit and any commands the supervision neither gives up before  *)
(* the limit nor goes on after it. This is the safety half of              *)
(* DeadLinkStops.                                                          *)
THEOREM StopsAtLimit == Spec => []GoesOnToLimit
<1>1. Init => NextFrameDue
  BY DEF Init, NextFrameDue
<1>2. IInv /\ NextFrameDue => GoesOnToLimit
  BY DEF IInv, CountInv, NextFrameDue, GoesOnToLimit
<1> QED
  BY <1>1, <1>2, Inductive, NextFrameStep, PTL DEF Spec
=============================================================================
