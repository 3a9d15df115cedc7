------------------------------ MODULE TimerProofs ------------------------------
(***************************************************************************)
(* The timer service of Timer, for any number of slots, any delays and any *)
(* periods, as long as the counter stays in the first half of its range:   *)
(* the circular list is well formed, a dispatch is complete, and the       *)
(* service implements TimerSet.                                            *)
(***************************************************************************)
EXTENDS Timer, WellFoundedInduction, TLAPS

(* The counter and the counts of the timers stay below half of the range   *)
(* of timer_count_t, where their signed distances are exact.               *)
NoWrap ==
    /\ 2 * MaxClock < Wrap
    /\ \A d \in Delays \cup Periods : 2 * (MaxClock + d) < Wrap

(* Offset(s), when the active slot is a *)
Off(s, a) == IF a <= s THEN s - a ELSE s - a + Slots

Futures == [id : Nat, count : Nat, due : Nat, repeat : Periods \cup {0},
            arg : Args \cup {NoArg}]

Valid(f) == f \in Futures /\ f.count = f.due /\ 2 * f.due < Wrap

(* The n slots from a on, and no others, hold timers, in the order of      *)
(* their times and with distinct instances; v is the slot after them.      *)
Shape(a, v, n) ==
    /\ n \in 0..Slots /\ a \in SlotIndex /\ v \in SlotIndex
    /\ n < Slots => Off(v, a) = n
    /\ n = Slots => v = a

InUse(l, a, n) ==
    /\ DOMAIN l = SlotIndex
    /\ \A s \in SlotIndex : Off(s, a) < n => Valid(l[s])
    /\ \A s \in SlotIndex : Off(s, a) >= n => l[s] = Free

InOrder(l, a, n) ==
    \A r, s \in SlotIndex :
        Off(r, a) < Off(s, a) /\ Off(s, a) < n => l[r].due <= l[s].due

Distinct(l, a, n) ==
    \A r, s \in SlotIndex :
        Off(r, a) < n /\ Off(s, a) < n /\ l[r].id = l[s].id => r = s

Holds(l, a, v, n) == Shape(a, v, n) /\ InUse(l, a, n) /\ InOrder(l, a, n) /\ Distinct(l, a, n)

(* f is in one of the n slots from a on *)
Among(f, l, a, n) == \E s \in SlotIndex : Off(s, a) < n /\ l[s] = f

-----------------------------------------------------------------------------
(* Arithmetic: % as a comparison, and the offsets of neighbours. *)
LEMMA ModLemma ==
    ASSUME NEW m \in Nat \ {0}, NEW d \in Int, -m <= d, d < m
    PROVE  d % m = IF 0 <= d THEN d ELSE d + m
OBVIOUS

LEMMA OffsetIs ==
    ASSUME NEW s \in SlotIndex, NEW a \in SlotIndex
    PROVE  /\ (s - a) % Slots = Off(s, a)
           /\ Off(s, a) \in 0..(Slots - 1)
<1>1. /\ Slots \in Nat \ {0} /\ s - a \in Int /\ -Slots <= s - a /\ s - a < Slots
  BY TimerAssumption DEF SlotIndex
<1>2. (s - a) % Slots = IF 0 <= s - a THEN s - a ELSE s - a + Slots
  BY <1>1, ModLemma
<1> QED
  BY <1>1, <1>2, TimerAssumption DEF Off, SlotIndex

LEMMA OffsetsDiffer ==
    ASSUME NEW r \in SlotIndex, NEW s \in SlotIndex, NEW a \in SlotIndex,
           Off(r, a) = Off(s, a)
    PROVE  r = s
BY TimerAssumption DEF Off, SlotIndex

LEMMA OffsetOfFirst ==
    ASSUME NEW s \in SlotIndex, NEW a \in SlotIndex
    PROVE  Off(a, a) = 0 /\ (Off(s, a) = 0 => s = a)
BY TimerAssumption DEF Off, SlotIndex

LEMMA LeftLemma ==
    ASSUME NEW s \in SlotIndex, NEW a \in SlotIndex
    PROVE  /\ LeftOf(s) \in SlotIndex
           /\ RightOf(LeftOf(s)) = s
           /\ Off(s, a) > 0 => Off(LeftOf(s), a) = Off(s, a) - 1
           /\ Off(s, a) = 0 => Off(LeftOf(s), a) = Slots - 1
BY TimerAssumption DEF Off, SlotIndex, LeftOf, RightOf

LEMMA RightLemma ==
    ASSUME NEW s \in SlotIndex, NEW a \in SlotIndex
    PROVE  /\ RightOf(s) \in SlotIndex
           /\ LeftOf(RightOf(s)) = s
           /\ Off(s, a) < Slots - 1 => Off(RightOf(s), a) = Off(s, a) + 1
           /\ Off(s, a) = Slots - 1 => RightOf(s) = a
BY TimerAssumption DEF Off, SlotIndex, LeftOf, RightOf

(* the offsets from the slot to the right of a *)
LEMMA FirstLeaves ==
    ASSUME NEW s \in SlotIndex, NEW a \in SlotIndex
    PROVE  /\ Off(a, RightOf(a)) = Slots - 1
           /\ s # a => Off(s, RightOf(a)) = Off(s, a) - 1
BY TimerAssumption DEF Off, SlotIndex, RightOf

(* an offset is that of a slot *)
LEMMA SlotAt ==
    ASSUME NEW a \in SlotIndex, NEW k \in 0..(Slots - 1)
    PROVE  \E s \in SlotIndex : Off(s, a) = k
<1>1. CASE a + k < Slots
  <2>1. a + k \in SlotIndex /\ Off(a + k, a) = k
    BY <1>1, TimerAssumption DEF Off, SlotIndex
  <2> QED
    BY <2>1
<1>2. CASE a + k >= Slots
  <2>1. a + k - Slots \in SlotIndex /\ Off(a + k - Slots, a) = k
    BY <1>2, TimerAssumption DEF Off, SlotIndex
  <2> QED
    BY <2>1
<1> QED
  BY <1>1, <1>2, TimerAssumption DEF SlotIndex

LEMMA Smallest ==
    ASSUME NEW T, T \subseteq Nat, T # {}
    PROVE  \E x \in T : \A y \in T : x <= y
<1> DEFINE Less == OpToRel(<, Nat)
<1>1. IsWellFoundedOn(Less, Nat)
  BY NatLessThanWellFounded, Zenon
<1>2. \A x, y \in Nat : <<y, x>> \in Less <=> y < x
  BY DEF OpToRel
<1> HIDE DEF Less
<1>3. PICK x \in T : \A y \in T : ~ (<<y, x>> \in Less)
  BY <1>1, WFMin
<1>4. \A y \in T : x <= y
  <2> TAKE y \in T
  <2>1. x \in Nat /\ y \in Nat
    OBVIOUS
  <2>2. ~(y < x)
    BY <1>2, <1>3, <2>1, Zenon
  <2> QED
    BY <2>1, <2>2
<1> QED
  BY <1>4

-----------------------------------------------------------------------------
(* The list after an insertion at k, a removal of the slot p, and the end  *)
(* of its first timer. *)
Shifted(l, a, n, k, f) ==
    [s \in SlotIndex |-> IF Off(s, a) = k THEN f
                         ELSE IF Off(s, a) \in (k + 1)..n THEN l[LeftOf(s)]
                         ELSE l[s]]

LEMMA InsertLemma ==
    ASSUME NEW l, NEW a, NEW v, NEW n, Holds(l, a, v, n), n < Slots,
           NEW f, Valid(f),
           \A s \in SlotIndex : Off(s, a) < n => l[s].id # f.id,
           NEW k \in 0..n,
           \A s \in SlotIndex : Off(s, a) < k => l[s].due <= f.due,
           \A s \in SlotIndex : k <= Off(s, a) /\ Off(s, a) < n => f.due <= l[s].due
    PROVE  /\ Holds(Shifted(l, a, n, k, f), a, RightOf(v), n + 1)
           /\ \A g : Among(g, Shifted(l, a, n, k, f), a, n + 1)
                        <=> g = f \/ Among(g, l, a, n)
<1> DEFINE m == Shifted(l, a, n, k, f)
<1>0. /\ Slots \in Nat \ {0} /\ n \in 0..Slots /\ a \in SlotIndex /\ v \in SlotIndex
      /\ k \in Nat /\ n \in Nat
      /\ Off(v, a) = n
      /\ \A s \in SlotIndex : Off(s, a) \in 0..(Slots - 1)
  BY TimerAssumption, OffsetIs DEF Holds, Shape
<1>1. DOMAIN m = SlotIndex
  BY DEF Shifted
<1>2. /\ \A s \in SlotIndex : Off(s, a) < k => m[s] = l[s]
      /\ \A s \in SlotIndex : Off(s, a) = k => m[s] = f
      /\ \A s \in SlotIndex : k < Off(s, a) /\ Off(s, a) <= n =>
            /\ m[s] = l[LeftOf(s)] /\ LeftOf(s) \in SlotIndex
            /\ Off(LeftOf(s), a) = Off(s, a) - 1
      /\ \A s \in SlotIndex : n < Off(s, a) => m[s] = l[s]
  BY <1>0, LeftLemma DEF Shifted
<1> HIDE DEF m
<1>3. Shape(a, RightOf(v), n + 1)
  BY <1>0, RightLemma DEF Shape
<1>4. InUse(m, a, n + 1)
  <2>1. ASSUME NEW s \in SlotIndex, Off(s, a) < n + 1 PROVE Valid(m[s])
    BY <1>0, <1>2, <2>1 DEF Holds, InUse
  <2>2. ASSUME NEW s \in SlotIndex, Off(s, a) >= n + 1 PROVE m[s] = Free
    BY <1>0, <1>2, <2>2 DEF Holds, InUse
  <2> QED
    BY <1>1, <2>1, <2>2 DEF InUse
<1>5. ASSUME NEW r \in SlotIndex, NEW s \in SlotIndex,
             Off(r, a) < Off(s, a), Off(s, a) < n + 1
      PROVE  m[r].due <= m[s].due
  <2>0. /\ f.due \in Nat
        /\ \A q \in SlotIndex : Off(q, a) < n => l[q].due \in Nat
    BY DEF Holds, InUse, Valid, Futures
  <2>1. CASE Off(s, a) < k
    BY <1>0, <1>2, <1>5, <2>1 DEF Holds, InOrder
  <2>2. CASE Off(s, a) = k
    BY <1>0, <1>2, <1>5, <2>2
  <2>3. CASE k < Off(s, a) /\ Off(r, a) = k
    <3>1. m[s] = l[LeftOf(s)] /\ LeftOf(s) \in SlotIndex /\ m[r] = f
          /\ Off(LeftOf(s), a) = Off(s, a) - 1
      BY <1>0, <1>2, <1>5, <2>3
    <3> QED
      BY <1>0, <1>5, <2>3, <3>1
  <2>4. CASE Off(r, a) < k /\ k < Off(s, a)
    <3>1. m[s] = l[LeftOf(s)] /\ LeftOf(s) \in SlotIndex /\ m[r] = l[r]
          /\ Off(LeftOf(s), a) = Off(s, a) - 1
      BY <1>0, <1>2, <1>5, <2>4
    <3>2. Off(r, a) < n /\ Off(LeftOf(s), a) < n /\ Off(r, a) < Off(LeftOf(s), a)
      BY <1>0, <1>5, <2>4, <3>1
    <3> QED
      BY <3>1, <3>2 DEF Holds, InOrder
  <2>5. CASE k < Off(r, a)
    <3>1. /\ m[s] = l[LeftOf(s)] /\ LeftOf(s) \in SlotIndex
          /\ m[r] = l[LeftOf(r)] /\ LeftOf(r) \in SlotIndex
          /\ Off(LeftOf(s), a) = Off(s, a) - 1
          /\ Off(LeftOf(r), a) = Off(r, a) - 1
      BY <1>0, <1>2, <1>5, <2>5
    <3>2. Off(LeftOf(s), a) < n /\ Off(LeftOf(r), a) < Off(LeftOf(s), a)
      BY <1>0, <1>5, <2>5, <3>1
    <3> QED
      BY <3>1, <3>2 DEF Holds, InOrder
  <2> QED
    BY <1>0, <1>5, <2>1, <2>2, <2>3, <2>4, <2>5
(* where a timer that is not f came from *)
<1>6. ASSUME NEW s \in SlotIndex, Off(s, a) < n + 1, Off(s, a) # k
      PROVE  \E q \in SlotIndex :
                /\ Off(q, a) < n /\ m[s] = l[q]
                /\ q = IF Off(s, a) < k THEN s ELSE LeftOf(s)
                /\ Off(q, a) = IF Off(s, a) < k THEN Off(s, a) ELSE Off(s, a) - 1
  <2>1. CASE Off(s, a) < k
    BY <1>0, <1>2, <1>6, <2>1
  <2>2. CASE k < Off(s, a)
    BY <1>0, <1>2, <1>6, <2>2
  <2> QED
    BY <1>0, <1>6, <2>1, <2>2
<1>7. ASSUME NEW r \in SlotIndex, NEW s \in SlotIndex,
             Off(r, a) < n + 1, Off(s, a) < n + 1, m[r].id = m[s].id
      PROVE  r = s
  <2>1. CASE Off(r, a) = k /\ Off(s, a) = k
    BY <1>0, <2>1, OffsetsDiffer
  <2>2. CASE Off(r, a) = k /\ Off(s, a) # k
    BY <1>2, <1>6, <1>7, <2>2
  <2>3. CASE Off(r, a) # k /\ Off(s, a) = k
    BY <1>2, <1>6, <1>7, <2>3
  <2>4. CASE Off(r, a) # k /\ Off(s, a) # k
    <3>1. PICK p \in SlotIndex :
                /\ Off(p, a) < n /\ m[r] = l[p]
                /\ Off(p, a) = IF Off(r, a) < k THEN Off(r, a) ELSE Off(r, a) - 1
      BY <1>6, <1>7, <2>4
    <3>2. PICK q \in SlotIndex :
                /\ Off(q, a) < n /\ m[s] = l[q]
                /\ Off(q, a) = IF Off(s, a) < k THEN Off(s, a) ELSE Off(s, a) - 1
      BY <1>6, <1>7, <2>4
    <3>3. p = q
      BY <1>7, <3>1, <3>2 DEF Holds, Distinct
    <3>4. Off(r, a) = Off(s, a)
      BY <1>0, <2>4, <3>1, <3>2, <3>3
    <3> QED
      BY <1>0, <3>4, OffsetsDiffer
  <2> QED
    BY <2>1, <2>2, <2>3, <2>4
<1>8. Holds(m, a, RightOf(v), n + 1)
  BY <1>3, <1>4, <1>5, <1>7 DEF Holds, InOrder, Distinct
<1>9. ASSUME NEW g, Among(g, m, a, n + 1) PROVE g = f \/ Among(g, l, a, n)
  <2>1. PICK s \in SlotIndex : Off(s, a) < n + 1 /\ m[s] = g
    BY <1>9 DEF Among
  <2>2. CASE Off(s, a) = k
    BY <1>2, <2>1, <2>2
  <2>3. CASE Off(s, a) # k
    BY <1>6, <2>1, <2>3 DEF Among
  <2> QED
    BY <2>2, <2>3
<1>10. Among(f, m, a, n + 1)
  <2>1. k \in 0..(Slots - 1)
    BY <1>0
  <2>2. PICK s \in SlotIndex : Off(s, a) = k
    BY <1>0, <2>1, SlotAt
  <2>3. Off(s, a) < n + 1
    BY <1>0, <2>2
  <2> QED
    BY <1>2, <2>2, <2>3 DEF Among
<1>11. ASSUME NEW g, Among(g, l, a, n) PROVE Among(g, m, a, n + 1)
  <2>1. PICK q \in SlotIndex : Off(q, a) < n /\ l[q] = g
    BY <1>11 DEF Among
  <2>2. CASE Off(q, a) < k
    <3>1. Off(q, a) < n + 1
      BY <1>0, <2>1
    <3> QED
      BY <1>2, <2>1, <2>2, <3>1 DEF Among
  <2>3. CASE k <= Off(q, a)
    <3>1. /\ RightOf(q) \in SlotIndex /\ LeftOf(RightOf(q)) = q
          /\ Off(RightOf(q), a) = Off(q, a) + 1
      BY <1>0, <2>1, RightLemma
    <3>2. k < Off(RightOf(q), a) /\ Off(RightOf(q), a) <= n /\ Off(RightOf(q), a) < n + 1
      BY <1>0, <2>1, <2>3, <3>1
    <3>3. m[RightOf(q)] = g
      BY <1>2, <2>1, <3>1, <3>2
    <3> QED
      BY <3>1, <3>2, <3>3 DEF Among
  <2> QED
    BY <1>0, <2>2, <2>3
<1> QED
  BY <1>8, <1>9, <1>10, <1>11 DEF m

LEMMA FirstLemma ==
    ASSUME NEW l, NEW a, NEW v, NEW n, Holds(l, a, v, n), n > 0
    PROVE  /\ Holds([l EXCEPT ![a] = Free], RightOf(a), v, n - 1)
           /\ \A g : Among(g, [l EXCEPT ![a] = Free], RightOf(a), n - 1)
                        <=> g # l[a] /\ Among(g, l, a, n)
<1> DEFINE m == [l EXCEPT ![a] = Free]
<1>0. /\ Slots \in Nat \ {0} /\ n \in 0..Slots /\ a \in SlotIndex /\ v \in SlotIndex
      /\ n < Slots => Off(v, a) = n
      /\ n = Slots => v = a
      /\ RightOf(a) \in SlotIndex
      /\ Off(a, a) = 0
      /\ \A s \in SlotIndex : Off(s, a) \in 0..(Slots - 1)
      /\ \A s \in SlotIndex : s # a => Off(s, a) # 0
  BY TimerAssumption, OffsetIs, OffsetOfFirst, RightLemma DEF Holds, Shape
<1>1. /\ DOMAIN m = SlotIndex
      /\ m[a] = Free
      /\ \A s \in SlotIndex : s # a => m[s] = l[s]
  BY <1>0 DEF Holds, InUse
<1>2. /\ Off(a, RightOf(a)) = Slots - 1
      /\ \A s \in SlotIndex : s # a => Off(s, RightOf(a)) = Off(s, a) - 1
      /\ \A s \in SlotIndex : Off(s, RightOf(a)) \in 0..(Slots - 1)
  BY <1>0, FirstLeaves, OffsetIs
<1> HIDE DEF m
<1>3. Shape(RightOf(a), v, n - 1)
  <2>1. n - 1 \in 0..Slots /\ n - 1 < Slots
    BY <1>0
  <2>2. Off(v, RightOf(a)) = n - 1
    <3>1. CASE n = Slots
      BY <1>0, <1>2, <3>1
    <3>2. CASE n < Slots
      BY <1>0, <1>2, <3>2
    <3> QED
      BY <1>0, <3>1, <3>2
  <2> QED
    BY <1>0, <2>1, <2>2 DEF Shape
(* the slots in use are the others that were *)
<1>4. ASSUME NEW s \in SlotIndex
      PROVE  /\ Off(s, RightOf(a)) < n - 1 => s # a /\ Off(s, a) < n /\ m[s] = l[s]
             /\ s # a /\ Off(s, a) < n => Off(s, RightOf(a)) < n - 1
  <2>0. Off(s, a) \in Int /\ Off(s, RightOf(a)) \in Int /\ n \in Int /\ n <= Slots /\ Slots \in Int
    BY <1>0, <1>2
  <2>1. CASE s = a
    <3>1. Off(s, RightOf(a)) = Slots - 1
      BY <1>2, <2>1
    <3> QED
      BY <2>0, <2>1, <3>1
  <2>2. CASE s # a
    <3>1. Off(s, RightOf(a)) = Off(s, a) - 1 /\ m[s] = l[s]
      BY <1>1, <1>2, <2>2
    <3> QED
      BY <2>0, <2>2, <3>1
  <2> QED
    BY <2>1, <2>2
<1>5. InUse(m, RightOf(a), n - 1)
  <2>1. ASSUME NEW s \in SlotIndex, Off(s, RightOf(a)) < n - 1 PROVE Valid(m[s])
    BY <1>4, <2>1 DEF Holds, InUse
  <2>2. ASSUME NEW s \in SlotIndex, Off(s, RightOf(a)) >= n - 1 PROVE m[s] = Free
    <3>1. s = a \/ Off(s, a) >= n
      BY <1>0, <1>2, <1>4, <2>2
    <3> QED
      BY <1>1, <3>1 DEF Holds, InUse
  <2> QED
    BY <1>1, <2>1, <2>2 DEF InUse
<1>6. ASSUME NEW r \in SlotIndex, NEW s \in SlotIndex,
             Off(r, RightOf(a)) < Off(s, RightOf(a)), Off(s, RightOf(a)) < n - 1
      PROVE  m[r].due <= m[s].due
  <2>1. Off(r, RightOf(a)) < n - 1
    BY <1>0, <1>2, <1>6
  <2>2. Off(r, a) < Off(s, a)
    <3>1. r # a /\ s # a
      BY <1>4, <1>6, <2>1
    <3>2. Off(r, RightOf(a)) = Off(r, a) - 1 /\ Off(s, RightOf(a)) = Off(s, a) - 1
      BY <1>2, <3>1
    <3>3. Off(r, a) \in Int /\ Off(s, a) \in Int
      BY <1>0
    <3> QED
      BY <1>6, <3>2, <3>3
  <2> QED
    BY <1>4, <1>6, <2>1, <2>2 DEF Holds, InOrder
<1>7. ASSUME NEW r \in SlotIndex, NEW s \in SlotIndex, Off(r, RightOf(a)) < n - 1,
             Off(s, RightOf(a)) < n - 1, m[r].id = m[s].id
      PROVE  r = s
  BY <1>4, <1>7 DEF Holds, Distinct
<1>8. Holds(m, RightOf(a), v, n - 1)
  BY <1>3, <1>5, <1>6, <1>7 DEF Holds, InOrder, Distinct
<1>9. ASSUME NEW g, Among(g, m, RightOf(a), n - 1)
      PROVE  g # l[a] /\ Among(g, l, a, n)
  <2>1. PICK s \in SlotIndex : Off(s, RightOf(a)) < n - 1 /\ m[s] = g
    BY <1>9 DEF Among
  <2>2. s # a /\ Off(s, a) < n /\ l[s] = g /\ Off(a, a) < n
    BY <1>0, <1>4, <2>1
  <2>3. l[s] # l[a]
    BY <1>0, <2>2 DEF Holds, Distinct
  <2> QED
    BY <2>2, <2>3 DEF Among
<1>10. ASSUME NEW g, g # l[a], Among(g, l, a, n)
       PROVE  Among(g, m, RightOf(a), n - 1)
  <2>1. PICK s \in SlotIndex : Off(s, a) < n /\ l[s] = g
    BY <1>10 DEF Among
  <2> QED
    BY <1>4, <1>10, <2>1 DEF Among
<1> QED
  BY <1>8, <1>9, <1>10 DEF m

Closed(l, a, v, n, p) ==
    [r \in SlotIndex |-> IF r = LeftOf(v) THEN Free
                         ELSE IF Off(r, a) \in Off(p, a)..(n - 1) THEN l[RightOf(r)]
                         ELSE l[r]]

LEMMA CancelLemma ==
    ASSUME NEW l, NEW a, NEW v, NEW n, Holds(l, a, v, n), n < Slots,
           NEW p \in SlotIndex, Off(p, a) < n
    PROVE  /\ Holds(Closed(l, a, v, n, p), a, LeftOf(v), n - 1)
           /\ \A g : Among(g, Closed(l, a, v, n, p), a, n - 1)
                        <=> g # l[p] /\ Among(g, l, a, n)
<1> DEFINE m == Closed(l, a, v, n, p)
           k == Off(p, a)
<1>0. /\ Slots \in Nat \ {0} /\ n \in 0..Slots /\ a \in SlotIndex /\ v \in SlotIndex
      /\ Off(v, a) = n
      /\ n > 0
      /\ LeftOf(v) \in SlotIndex
      /\ Off(LeftOf(v), a) = n - 1
      /\ k \in 0..(n - 1)
      /\ \A s \in SlotIndex : Off(s, a) \in 0..(Slots - 1)
  BY TimerAssumption, OffsetIs, LeftLemma DEF Holds, Shape
<1>1. DOMAIN m = SlotIndex
  BY DEF Closed
<1>2. /\ \A s \in SlotIndex : Off(s, a) < k => m[s] = l[s]
      /\ \A s \in SlotIndex : k <= Off(s, a) /\ Off(s, a) < n - 1 =>
            /\ m[s] = l[RightOf(s)] /\ RightOf(s) \in SlotIndex
            /\ Off(RightOf(s), a) = Off(s, a) + 1
      /\ \A s \in SlotIndex : Off(s, a) = n - 1 => m[s] = Free
      /\ \A s \in SlotIndex : n <= Off(s, a) => m[s] = l[s]
  <2>1. \A s \in SlotIndex : Off(s, a) = n - 1 => s = LeftOf(v)
    BY <1>0, OffsetsDiffer
  <2> QED
    BY <1>0, <2>1, RightLemma DEF Closed
<1> HIDE DEF m, k
<1>3. Shape(a, LeftOf(v), n - 1)
  BY <1>0 DEF Shape
<1>4. InUse(m, a, n - 1)
  <2>1. ASSUME NEW s \in SlotIndex, Off(s, a) < n - 1 PROVE Valid(m[s])
    BY <1>0, <1>2, <2>1 DEF Holds, InUse
  <2>2. ASSUME NEW s \in SlotIndex, Off(s, a) >= n - 1 PROVE m[s] = Free
    BY <1>0, <1>2, <2>2 DEF Holds, InUse
  <2> QED
    BY <1>1, <2>1, <2>2 DEF InUse
(* where a timer came from *)
<1>5. ASSUME NEW s \in SlotIndex, Off(s, a) < n - 1
      PROVE  \E q \in SlotIndex :
                /\ Off(q, a) < n /\ m[s] = l[q] /\ Off(q, a) # k
                /\ Off(q, a) = IF Off(s, a) < k THEN Off(s, a) ELSE Off(s, a) + 1
  <2>1. CASE Off(s, a) < k
    BY <1>0, <1>2, <1>5, <2>1
  <2>2. CASE k <= Off(s, a)
    <3>1. /\ m[s] = l[RightOf(s)] /\ RightOf(s) \in SlotIndex
          /\ Off(RightOf(s), a) = Off(s, a) + 1
      BY <1>2, <1>5, <2>2
    <3> QED
      BY <1>0, <1>5, <2>2, <3>1
  <2> QED
    BY <1>0, <2>1, <2>2
<1>6. ASSUME NEW r \in SlotIndex, NEW s \in SlotIndex,
             Off(r, a) < Off(s, a), Off(s, a) < n - 1
      PROVE  m[r].due <= m[s].due
  <2>1. PICK p1 \in SlotIndex :
                /\ Off(p1, a) < n /\ m[r] = l[p1]
                /\ Off(p1, a) = IF Off(r, a) < k THEN Off(r, a) ELSE Off(r, a) + 1
    BY <1>0, <1>5, <1>6
  <2>2. PICK q1 \in SlotIndex :
                /\ Off(q1, a) < n /\ m[s] = l[q1]
                /\ Off(q1, a) = IF Off(s, a) < k THEN Off(s, a) ELSE Off(s, a) + 1
    BY <1>5, <1>6
  <2>3. Off(p1, a) < Off(q1, a)
    BY <1>0, <1>6, <2>1, <2>2
  <2> QED
    BY <2>1, <2>2, <2>3 DEF Holds, InOrder
<1>7. ASSUME NEW r \in SlotIndex, NEW s \in SlotIndex,
             Off(r, a) < n - 1, Off(s, a) < n - 1, m[r].id = m[s].id
      PROVE  r = s
  <2>1. PICK p1 \in SlotIndex :
                /\ Off(p1, a) < n /\ m[r] = l[p1]
                /\ Off(p1, a) = IF Off(r, a) < k THEN Off(r, a) ELSE Off(r, a) + 1
    BY <1>5, <1>7
  <2>2. PICK q1 \in SlotIndex :
                /\ Off(q1, a) < n /\ m[s] = l[q1]
                /\ Off(q1, a) = IF Off(s, a) < k THEN Off(s, a) ELSE Off(s, a) + 1
    BY <1>5, <1>7
  <2>3. p1 = q1
    BY <1>7, <2>1, <2>2 DEF Holds, Distinct
  <2>4. Off(r, a) = Off(s, a)
    BY <1>0, <2>1, <2>2, <2>3
  <2> QED
    BY <2>4, <1>0, OffsetsDiffer
<1>8. Holds(m, a, LeftOf(v), n - 1)
  BY <1>3, <1>4, <1>6, <1>7 DEF Holds, InOrder, Distinct
<1>9. ASSUME NEW g, Among(g, m, a, n - 1) PROVE g # l[p] /\ Among(g, l, a, n)
  <2>1. PICK s \in SlotIndex : Off(s, a) < n - 1 /\ m[s] = g
    BY <1>9 DEF Among
  <2>2. PICK q \in SlotIndex : Off(q, a) < n /\ m[s] = l[q] /\ Off(q, a) # k
    BY <1>5, <2>1
  <2>3. q # p
    BY <2>2 DEF k
  <2>4. l[q] # l[p]
    BY <2>2, <2>3 DEF Holds, Distinct
  <2> QED
    BY <2>1, <2>2, <2>4 DEF Among
<1>10. ASSUME NEW g, g # l[p], Among(g, l, a, n) PROVE Among(g, m, a, n - 1)
  <2>1. PICK q \in SlotIndex : Off(q, a) < n /\ l[q] = g
    BY <1>10 DEF Among
  <2>2. Off(q, a) # k
    BY <1>0, <1>10, <2>1, OffsetsDiffer DEF k
  <2>3. CASE Off(q, a) < k
    <3>1. Off(q, a) < n - 1
      BY <1>0, <2>3
    <3> QED
      BY <1>2, <2>1, <2>3, <3>1 DEF Among
  <2>4. CASE k < Off(q, a)
    <3>1. Off(q, a) > 0
      BY <1>0, <2>4
    <3>2. /\ LeftOf(q) \in SlotIndex /\ RightOf(LeftOf(q)) = q
          /\ Off(LeftOf(q), a) = Off(q, a) - 1
      BY <1>0, <3>1, LeftLemma
    <3>3. k <= Off(LeftOf(q), a) /\ Off(LeftOf(q), a) < n - 1
      BY <1>0, <2>1, <2>4, <3>2
    <3>4. m[LeftOf(q)] = g
      BY <1>2, <2>1, <3>2, <3>3
    <3> QED
      BY <3>2, <3>3, <3>4 DEF Among
  <2> QED
    BY <1>0, <2>2, <2>3, <2>4
<1> QED
  BY <1>8, <1>9, <1>10 DEF m

-----------------------------------------------------------------------------
(* The search of timer_arm finds where the new timer goes. *)
LEMMA DistanceLemma ==
    ASSUME NEW c \in Nat, NEW d \in Nat, 2 * c < Wrap, 2 * d < Wrap
    PROVE  Distance(c, d) = d - c
<1>1. /\ Wrap \in Nat \ {0} /\ d - c \in Int /\ -Wrap <= d - c /\ d - c < Wrap
  BY TimerAssumption
<1>2. (d - c) % Wrap = IF 0 <= d - c THEN d - c ELSE d - c + Wrap
  BY <1>1, ModLemma
<1> QED
  BY <1>1, <1>2 DEF Distance

(* a count that did not wrap *)
LEMMA NoWrapMod ==
    ASSUME NEW d \in Nat, 2 * d < Wrap
    PROVE  d % Wrap = d
<1>1. /\ Wrap \in Nat \ {0} /\ d \in Int /\ -Wrap <= d /\ d < Wrap
  BY TimerAssumption
<1> QED
  BY <1>1, ModLemma

Clocks == clock \in Nat /\ 2 * clock < Wrap

LEMMA LengthLemma ==
    ASSUME NEW n, Holds(list, active, avail, n), n < Slots
    PROVE  /\ Length = n
           /\ \A s \in SlotIndex : Offset(s) = Off(s, active)
BY OffsetIs DEF Length, Offset, Holds, Shape

LEMMA InsertPoint ==
    ASSUME NEW n, Holds(list, active, avail, n), n < Slots, Clocks,
           NEW f, Valid(f)
    PROVE  \E k \in 0..n :
              /\ Inserted(f) = Shifted(list, active, n, k, f)
              /\ \A s \in SlotIndex : Off(s, active) < k => list[s].due <= f.due
              /\ \A s \in SlotIndex : k <= Off(s, active) /\ Off(s, active) < n =>
                    f.due <= list[s].due
<1>0. /\ Slots \in Nat \ {0} /\ n \in 0..Slots /\ active \in SlotIndex
      /\ \A s \in SlotIndex : Off(s, active) \in 0..(Slots - 1)
      /\ Length = n
      /\ \A s \in SlotIndex : Offset(s) = Off(s, active)
  BY TimerAssumption, OffsetIs, LengthLemma DEF Holds, Shape
<1>1. Counter = clock
  BY NoWrapMod DEF Counter, Clocks
<1>2. /\ f.due \in Nat /\ f.count = f.due
      /\ Distance(Counter, f.count) = f.due - clock
  BY <1>1, DistanceLemma DEF Clocks, Valid, Futures
<1>3. ASSUME NEW s \in SlotIndex, Off(s, active) < n
      PROVE  /\ list[s].due \in Nat
             /\ Distance(Counter, list[s].count) = list[s].due - clock
  <2>1. Valid(list[s])
    BY <1>3 DEF Holds, InUse
  <2> QED
    BY <1>1, <2>1, DistanceLemma DEF Clocks, Valid, Futures
<1> DEFINE Later == {o \in 0..(n - 1) :
                        \E s \in SlotIndex : Off(s, active) = o /\ f.due < list[s].due}
(* the insertion point exists: the first timer that is later *)
<1>4. \E k \in 0..n : InsertsAt(k, f.count)
  <2>1. CASE Later = {}
    <3>1. ASSUME NEW s \in SlotIndex, Offset(s) < n
          PROVE  Distance(Counter, f.count) >= Distance(Counter, list[s].count)
      <4>1. Off(s, active) \in 0..(n - 1)
        BY <1>0, <3>1
      <4>2. ~(f.due < list[s].due)
        BY <2>1, <4>1
      <4> QED
        BY <1>0, <1>2, <1>3, <3>1, <4>2 DEF Clocks
    <3>2. InsertsAt(n, f.count)
      BY <1>0, <3>1 DEF InsertsAt
    <3> QED
      BY <1>0, <3>2
  <2>2. CASE Later # {}
    <3>1. PICK k \in Later : \A o \in Later : k <= o
      <4>1. Later \subseteq Nat
        BY <1>0
      <4> HIDE DEF Later
      <4> QED
        BY <2>2, <4>1, Smallest
    <3>2. k \in 0..(n - 1)
      OBVIOUS
    <3>3. ASSUME NEW s \in SlotIndex, Offset(s) < k
          PROVE  Distance(Counter, f.count) >= Distance(Counter, list[s].count)
      <4>1. Off(s, active) \in 0..(n - 1) /\ Off(s, active) < k /\ Off(s, active) < n
        BY <1>0, <3>2, <3>3
      <4>2. Off(s, active) \notin Later
        <5> HIDE DEF Later
        <5> QED
          BY <3>1, <3>2, <4>1
      <4>3. ~(f.due < list[s].due)
        BY <4>1, <4>2
      <4> QED
        BY <1>2, <1>3, <4>1, <4>3 DEF Clocks
    <3>4. ASSUME NEW s \in SlotIndex, Offset(s) = k
          PROVE  Distance(Counter, f.count) < Distance(Counter, list[s].count)
      <4>1. PICK r \in SlotIndex : Off(r, active) = k /\ f.due < list[r].due
        OBVIOUS
      <4>2. r = s
        BY <1>0, <3>4, <4>1, OffsetsDiffer
      <4>3. Off(s, active) < n
        BY <1>0, <3>2, <3>4
      <4> QED
        BY <1>2, <1>3, <4>1, <4>2, <4>3 DEF Clocks
    <3>5. InsertsAt(k, f.count)
      BY <1>0, <3>2, <3>3, <3>4 DEF InsertsAt
    <3> QED
      BY <1>0, <3>2, <3>5
  <2> QED
    BY <2>1, <2>2
<1> DEFINE k == CHOOSE k \in 0..Length : InsertsAt(k, f.count)
<1>5. k \in 0..n /\ InsertsAt(k, f.count)
  BY <1>0, <1>4
<1>6. Inserted(f) = Shifted(list, active, n, k, f)
  BY <1>0 DEF Inserted, Shifted
<1> HIDE DEF k, Later
<1>7. ASSUME NEW s \in SlotIndex, Off(s, active) < k
      PROVE  list[s].due <= f.due
  <2>1. Off(s, active) < n
    BY <1>0, <1>5, <1>7
  <2>2. Distance(Counter, f.count) >= Distance(Counter, list[s].count)
    BY <1>0, <1>5, <1>7 DEF InsertsAt
  <2> QED
    BY <1>2, <1>3, <2>1, <2>2 DEF Clocks
<1>8. ASSUME NEW s \in SlotIndex, k <= Off(s, active), Off(s, active) < n
      PROVE  f.due <= list[s].due
  <2>1. k \in 0..(Slots - 1) /\ k < n
    BY <1>0, <1>5, <1>8
  <2>2. PICK r \in SlotIndex : Off(r, active) = k
    BY <1>0, <2>1, SlotAt
  <2>3. Distance(Counter, f.count) < Distance(Counter, list[r].count)
    BY <1>0, <1>5, <2>1, <2>2 DEF InsertsAt
  <2>4. f.due < list[r].due /\ list[r].due \in Nat
    BY <1>2, <1>3, <2>1, <2>2, <2>3 DEF Clocks
  <2>5. list[r].due <= list[s].due
    <3>1. CASE r = s
      BY <2>4, <3>1
    <3>2. CASE r # s
      <4>1. Off(r, active) < Off(s, active)
        BY <1>0, <1>8, <2>2, <3>2, OffsetsDiffer
      <4> QED
        BY <1>8, <4>1 DEF Holds, InOrder
    <3> QED
      BY <3>1, <3>2
  <2> QED
    BY <1>2, <1>3, <1>8, <2>4, <2>5
<1> QED
  BY <1>5, <1>6, <1>7, <1>8

(* timer_arm puts one more timer into the list. *)
LEMMA InsertedHolds ==
    ASSUME NEW n, Holds(list, active, avail, n), n < Slots, Clocks,
           NEW f, Valid(f),
           \A s \in SlotIndex : list[s].id < f.id
    PROVE  /\ Holds(Inserted(f), active, RightOf(avail), n + 1)
           /\ \A g : Among(g, Inserted(f), active, n + 1)
                        <=> g = f \/ Among(g, list, active, n)
           /\ n > 0 /\ list[active].due < f.due => Inserted(f)[active] = list[active]
<1>1. PICK k \in 0..n :
              /\ Inserted(f) = Shifted(list, active, n, k, f)
              /\ \A s \in SlotIndex : Off(s, active) < k => list[s].due <= f.due
              /\ \A s \in SlotIndex : k <= Off(s, active) /\ Off(s, active) < n =>
                    f.due <= list[s].due
  BY InsertPoint
<1>2. ASSUME NEW s \in SlotIndex, Off(s, active) < n PROVE list[s].id # f.id
  <2>1. list[s].id \in Nat /\ f.id \in Nat /\ list[s].id < f.id
    BY <1>2 DEF Holds, InUse, Valid, Futures
  <2> QED
    BY <2>1
<1>3. ASSUME n > 0, list[active].due < f.due
      PROVE  Inserted(f)[active] = list[active]
  <2>1. active \in SlotIndex /\ Off(active, active) = 0
    BY OffsetOfFirst DEF Holds, Shape
  <2>2. list[active].due \in Nat /\ f.due \in Nat
    BY <1>3, <2>1 DEF Holds, InUse, Valid, Futures
  <2>3. k # 0
    BY <1>1, <1>3, <2>1, <2>2
  <2> QED
    BY <1>1, <2>1, <2>3 DEF Shifted
<1> QED
  BY <1>1, <1>2, <1>3, InsertLemma

-----------------------------------------------------------------------------
(* The inductive invariant: the slots hold the timers of some length n,    *)
(* none with an instance that was not given yet. *)
Ids(l, a, n, i) == \A s \in SlotIndex : Off(s, a) < n => l[s].id <= i

Scalars ==
    /\ instance \in Int /\ instance >= -1
    /\ clock \in 0..MaxClock
    /\ tick \in BOOLEAN
    /\ timeNow \in 0..clock
    /\ pc \in {"idle", "dispatch"}
    /\ alert \in BOOLEAN

ListHolds(n) ==
    Holds(list, active, avail, n) /\ Ids(list, active, n, instance)

TInv == Scalars /\ \E n \in 0..Slots : ListHolds(n)

(* the test for a list with no room, and the slots in use *)
LEMMA UsedLemma ==
    ASSUME NEW l, NEW a, NEW v, NEW n, Holds(l, a, v, n)
    PROVE  /\ (a = v /\ l[a] # Free) <=> n = Slots
           /\ n < Slots => (v - a) % Slots = n
           /\ n < Slots => {s \in SlotIndex : (s - a) % Slots < (v - a) % Slots}
                              = {s \in SlotIndex : Off(s, a) < n}
           /\ n = Slots => SlotIndex = {s \in SlotIndex : Off(s, a) < n}
<1>0. /\ Slots \in Nat \ {0} /\ n \in 0..Slots /\ a \in SlotIndex /\ v \in SlotIndex
      /\ n < Slots => Off(v, a) = n
      /\ n = Slots => v = a
      /\ Off(a, a) = 0
      /\ \A s \in SlotIndex : Off(s, a) \in 0..(Slots - 1) /\ (s - a) % Slots = Off(s, a)
  BY TimerAssumption, OffsetIs, OffsetOfFirst DEF Holds, Shape
<1>1. (a = v /\ l[a] # Free) <=> n = Slots
  <2>1. CASE n = 0
    BY <1>0, <2>1 DEF Holds, InUse
  <2>2. CASE n > 0
    <3>1. Valid(l[a])
      BY <1>0, <2>2 DEF Holds, InUse
    <3>2. l[a] # Free
      BY <3>1 DEF Valid, Futures, Free
    <3> QED
      BY <1>0, <2>2, <3>2
  <2> QED
    BY <1>0, <2>1, <2>2
<1> QED
  BY <1>0, <1>1

LEMMA FullLemma ==
    ASSUME NEW n, Holds(list, active, avail, n)
    PROVE  /\ Full <=> n = Slots
           /\ Used = {s \in SlotIndex : Off(s, active) < n}
<1>1. n \in 0..Slots /\ Slots \in Nat
  BY TimerAssumption DEF Holds, Shape
<1>2. Full <=> n = Slots
  BY UsedLemma DEF Full
<1>3. CASE n = Slots
  BY <1>2, <1>3, UsedLemma DEF Used
<1>4. CASE n < Slots
  <2>1. Used = {s \in SlotIndex : (s - active) % Slots < (avail - active) % Slots}
    BY <1>1, <1>2, <1>4 DEF Used, Offset, Length
  <2> QED
    BY <1>2, <1>4, <2>1, UsedLemma
<1> QED
  BY <1>1, <1>2, <1>3, <1>4

(* the invariant says what InsertedHolds asks of the instances *)
LEMMA IdsLemma ==
    ASSUME Scalars, NEW n, ListHolds(n)
    PROVE  \A s \in SlotIndex : list[s].id < instance + 1
<1> TAKE s \in SlotIndex
<1>1. CASE Off(s, active) < n
  <2>1. list[s].id \in Nat /\ list[s].id <= instance
    BY <1>1 DEF ListHolds, Holds, InUse, Ids, Valid, Futures
  <2> QED
    BY <2>1 DEF Scalars
<1>2. CASE ~(Off(s, active) < n)
  <2>1. active \in SlotIndex /\ n \in Nat /\ Off(s, active) \in Nat
    BY OffsetIs, TimerAssumption DEF ListHolds, Holds, Shape
  <2>2. list[s] = Free
    BY <1>2, <2>1 DEF ListHolds, Holds, InUse
  <2> QED
    BY <2>2 DEF Scalars, Free
<1> QED
  BY <1>1, <1>2

-----------------------------------------------------------------------------
(* What the steps that change the list do to the set of its timers. *)
LEMMA ArmStep ==
    ASSUME NoWrap, Scalars, NEW n, ListHolds(n),
           NEW delay \in Delays, NEW repeat \in Periods, NEW arg \in Args,
           NEW lag \in 0..1, Arm(delay, repeat, arg, lag)
    PROVE  /\ Holds(list', active', avail', n + 1)
           /\ \A g : Among(g, list', active', n + 1)
                        <=> \/ g = Future(instance + 1, clock - lag + delay, repeat, arg)
                            \/ Among(g, list, active, n)
<1> DEFINE f == Future(instance + 1, clock - lag + delay, repeat, arg)
<1>1. /\ delay \in Nat /\ repeat \in Nat /\ clock \in Nat /\ clock <= MaxClock
      /\ MaxClock \in Nat /\ Wrap \in Nat /\ clock >= lag
      /\ 2 * MaxClock < Wrap /\ 2 * (MaxClock + delay) < Wrap
  BY TimerAssumption DEF NoWrap, Scalars, Arm
<1>2. Valid(f)
  <2>1. clock - lag + delay \in Nat /\ 2 * (clock - lag + delay) < Wrap
    BY <1>1
  <2>2. (clock - lag + delay) % Wrap = clock - lag + delay
    BY <2>1, NoWrapMod
  <2>3. instance + 1 \in Nat
    BY DEF Scalars
  <2> QED
    BY <2>1, <2>2, <2>3 DEF Valid, Futures, Future
<1>3. n < Slots
  BY FullLemma, TimerAssumption DEF ListHolds, Arm, Holds, Shape
<1>4. Clocks
  BY <1>1 DEF Clocks
<1>5. \A s \in SlotIndex : list[s].id < f.id
  BY IdsLemma DEF Future
<1>6. list' = Inserted(f) /\ avail' = RightOf(avail) /\ active' = active
  BY DEF Arm
<1> HIDE DEF f
<1>7. /\ Holds(Inserted(f), active, RightOf(avail), n + 1)
      /\ \A g : Among(g, Inserted(f), active, n + 1)
                        <=> g = f \/ Among(g, list, active, n)
  BY <1>2, <1>3, <1>4, <1>5, InsertedHolds DEF ListHolds
<1> QED
  BY <1>6, <1>7 DEF f

LEMMA CancelStep ==
    ASSUME NEW n, ListHolds(n), NEW s \in SlotIndex, Cancel(s)
    PROVE  /\ Off(s, active) < n
           /\ Holds(list', active', avail', n - 1)
           /\ \A g : Among(g, list', active', n - 1)
                        <=> g # list[s] /\ Among(g, list, active, n)
<1>1. /\ active \in SlotIndex /\ avail \in SlotIndex /\ n \in 0..Slots /\ Slots \in Nat \ {0}
      /\ \A r \in SlotIndex : Off(r, active) \in 0..(Slots - 1) /\ Offset(r) = Off(r, active)
  BY TimerAssumption, OffsetIs DEF ListHolds, Holds, Shape, Offset
<1>2. n < Slots
  <2>1. CASE n = Slots
    <3>1. avail = active
      BY <2>1 DEF ListHolds, Holds, Shape
    <3>2. Length = 0
      BY <1>1, <3>1, OffsetOfFirst DEF Length
    <3> QED
      BY <1>1, <3>2 DEF Cancel
  <2> QED
    BY <1>1, <2>1
<1>3. Length = n
  BY <1>2, LengthLemma DEF ListHolds
<1>4. Off(s, active) < n
  BY <1>1, <1>3 DEF Cancel
<1>5. /\ list' = Closed(list, active, avail, n, s)
      /\ avail' = LeftOf(avail) /\ active' = active
  BY <1>1, <1>3 DEF Cancel, Closed
<1> QED
  BY <1>2, <1>4, <1>5, CancelLemma DEF ListHolds

(* the timer at the active slot is one of the list, and due the first *)
LEMMA FirstIsDue ==
    ASSUME NEW n, ListHolds(n), active # avail
    PROVE  /\ n > 0 /\ n < Slots
           /\ active \in SlotIndex /\ Off(active, active) = 0
           /\ Valid(list[active])
           /\ Among(list[active], list, active, n)
           /\ \A s \in SlotIndex : Off(s, active) < n => list[active].due <= list[s].due
<1>1. /\ active \in SlotIndex /\ avail \in SlotIndex /\ n \in 0..Slots /\ Slots \in Nat \ {0}
      /\ n < Slots => Off(avail, active) = n
      /\ n = Slots => avail = active
      /\ Off(active, active) = 0
      /\ \A r \in SlotIndex : Off(r, active) \in 0..(Slots - 1)
  BY TimerAssumption, OffsetIs, OffsetOfFirst DEF ListHolds, Holds, Shape
<1>2. n > 0 /\ n < Slots
  BY <1>1, OffsetOfFirst
<1>3. Valid(list[active])
  BY <1>1, <1>2 DEF ListHolds, Holds, InUse
<1>4. ASSUME NEW s \in SlotIndex, Off(s, active) < n
      PROVE  list[active].due <= list[s].due
  <2>1. CASE s = active
    BY <1>3, <2>1 DEF Valid, Futures
  <2>2. CASE s # active
    <3>1. Off(active, active) < Off(s, active)
      BY <1>1, <2>2, OffsetOfFirst
    <3> QED
      BY <1>1, <1>4, <3>1 DEF ListHolds, Holds, InOrder
  <2> QED
    BY <2>1, <2>2
<1> QED
  BY <1>1, <1>2, <1>3, <1>4 DEF Among

(* a delivered timer leaves the list *)
LEMMA DeliverStep ==
    ASSUME NEW n, ListHolds(n), DispatchExpired, list[active].repeat = 0
    PROVE  /\ Holds(list', active', avail', n - 1)
           /\ \A g : Among(g, list', active', n - 1)
                        <=> g # list[active] /\ Among(g, list, active, n)
<1>1. n > 0
  BY FirstIsDue DEF DispatchExpired
<1>2. /\ list' = [list EXCEPT ![active] = Free]
      /\ active' = RightOf(active) /\ avail' = avail
  BY DEF DispatchExpired
<1> QED
  BY <1>1, <1>2, FirstLemma DEF ListHolds

(* a repeating one is in the list again, one period later *)
LEMMA RepeatStep ==
    ASSUME NoWrap, Scalars, NEW n, ListHolds(n), DispatchExpired,
           list[active].repeat # 0
    PROVE  /\ Holds(list', active', avail', n)
           /\ \A g : Among(g, list', active', n)
                        <=> \/ g = Future(instance + 1, list[active].due + list[active].repeat,
                                          list[active].repeat, NoArg)
                            \/ g # list[active] /\ Among(g, list, active, n)
<1> DEFINE old == list[active]
           f == Future(instance + 1, old.due + old.repeat, old.repeat, NoArg)
<1>1. /\ n > 0 /\ n < Slots /\ active \in SlotIndex
      /\ Valid(old)
  BY FirstIsDue DEF DispatchExpired
<1>2. /\ old.due \in Nat /\ old.repeat \in Periods /\ old.repeat \in Nat \ {0}
      /\ old.id \in Nat /\ old.id < instance + 1 /\ old.count = old.due
  BY <1>1, IdsLemma, TimerAssumption DEF Valid, Futures
<1>3. old.due <= MaxClock
  BY <1>2, TimerAssumption DEF DispatchExpired, Expired, Scalars
<1>4. Valid(f)
  <2>1. 2 * (MaxClock + old.repeat) < Wrap
    BY <1>2 DEF NoWrap
  <2>2. old.due + old.repeat \in Nat /\ 2 * (old.due + old.repeat) < Wrap
    BY <1>2, <1>3, <2>1, TimerAssumption
  <2>3. (old.due + old.repeat) % Wrap = old.due + old.repeat
    BY <2>2, NoWrapMod
  <2>4. instance + 1 \in Nat
    BY DEF Scalars
  <2> QED
    BY <1>2, <2>2, <2>3, <2>4 DEF Valid, Futures, Future
<1>5. Clocks
  BY TimerAssumption DEF Clocks, NoWrap, Scalars
<1>6. \A s \in SlotIndex : list[s].id < f.id
  BY IdsLemma DEF Future
<1>7. /\ f.due = old.due + old.repeat /\ f.id = instance + 1
      /\ old.due < f.due /\ f # old
  BY <1>2 DEF Future
<1>8. /\ list' = [Inserted(f) EXCEPT ![active] = Free]
      /\ avail' = RightOf(avail) /\ active' = RightOf(active)
  BY DEF DispatchExpired
<1> HIDE DEF f, old
<1>9. /\ Holds(Inserted(f), active, RightOf(avail), n + 1)
      /\ \A g : Among(g, Inserted(f), active, n + 1)
                        <=> g = f \/ Among(g, list, active, n)
      /\ n > 0 /\ list[active].due < f.due => Inserted(f)[active] = list[active]
  BY <1>1, <1>4, <1>5, <1>6, InsertedHolds DEF ListHolds
<1>10. Inserted(f)[active] = old
  BY <1>1, <1>7, <1>9 DEF old
<1>11. n + 1 > 0 /\ (n + 1) - 1 = n
  BY <1>1, TimerAssumption DEF ListHolds, Holds, Shape
<1>12. /\ Holds([Inserted(f) EXCEPT ![active] = Free], RightOf(active), RightOf(avail), n)
       /\ \A g : Among(g, [Inserted(f) EXCEPT ![active] = Free], RightOf(active), n)
                        <=> g # Inserted(f)[active] /\ Among(g, Inserted(f), active, n + 1)
  <2> DEFINE m == Inserted(f)
             w == RightOf(avail)
  <2>1. Holds(m, active, w, n + 1)
    BY <1>9
  <2> HIDE DEF m, w
  <2>2. /\ Holds([m EXCEPT ![active] = Free], RightOf(active), w, (n + 1) - 1)
        /\ \A g : Among(g, [m EXCEPT ![active] = Free], RightOf(active), (n + 1) - 1)
                        <=> g # m[active] /\ Among(g, m, active, n + 1)
    BY <1>11, <2>1, FirstLemma
  <2> QED
    BY <1>11, <2>2 DEF m, w
<1> DEFINE m == Inserted(f)
           l == [m EXCEPT ![active] = Free]
           r == RightOf(active)
           w == RightOf(avail)
<1>13. /\ list' = l /\ active' = r /\ avail' = w
       /\ Holds(l, r, w, n)
       /\ \A g : Among(g, l, r, n) <=> g # m[active] /\ Among(g, m, active, n + 1)
       /\ \A g : Among(g, m, active, n + 1) <=> g = f \/ Among(g, list, active, n)
       /\ m[active] = old
  BY <1>8, <1>9, <1>10, <1>12
<1> HIDE DEF m, l, r, w
<1>14. \A g : Among(g, l, r, n) <=> (g = f \/ (g # old /\ Among(g, list, active, n)))
  BY <1>7, <1>13
<1>15. /\ Holds(list', active', avail', n)
       /\ \A g : Among(g, list', active', n) <=> Among(g, l, r, n)
  BY <1>13
<1>16. \A g : Among(g, list', active', n) <=> (g = f \/ (g # old /\ Among(g, list, active, n)))
  BY <1>14, <1>15
<1> QED
  BY <1>15, <1>16 DEF f, old

-----------------------------------------------------------------------------
LEMMA InvInit ==
    ASSUME Init
    PROVE  TInv
<1>1. /\ Slots \in Nat \ {0} /\ active = 0 /\ avail = 0 /\ 0 \in SlotIndex
      /\ Off(0, 0) = 0 /\ MaxClock \in Nat
      /\ \A s \in SlotIndex : Off(s, 0) \in 0..(Slots - 1)
  BY TimerAssumption, OffsetIs, OffsetOfFirst DEF Init, SlotIndex
<1>2. Shape(active, avail, 0)
  BY <1>1 DEF Shape
<1>3. InUse(list, active, 0)
  BY <1>1 DEF InUse, Init
<1>4. InOrder(list, active, 0) /\ Distinct(list, active, 0) /\ Ids(list, active, 0, instance)
  BY <1>1 DEF InOrder, Distinct, Ids
<1>5. Scalars
  <2>1. instance \in Int /\ instance >= -1 /\ clock \in 0..MaxClock /\ timeNow \in 0..clock
    BY <1>1 DEF Init
  <2> QED
    BY <2>1 DEF Scalars, Init
<1> QED
  BY <1>1, <1>2, <1>3, <1>4, <1>5 DEF TInv, ListHolds, Holds

(* the instances of a list are those of its timers *)
LEMMA IdsAmong ==
    ASSUME NEW l, NEW a, NEW n, NEW i,
           \A g : Among(g, l, a, n) => g.id <= i
    PROVE  Ids(l, a, n, i)
BY DEF Ids, Among

LEMMA AmongIds ==
    ASSUME NEW l, NEW a, NEW v, NEW n, NEW i, Holds(l, a, v, n), Ids(l, a, n, i),
           NEW g, Among(g, l, a, n)
    PROVE  g.id <= i /\ g.id \in Nat
BY DEF Ids, Among, Holds, InUse, Valid, Futures

LEMMA InvStep ==
    ASSUME NoWrap, TInv, [Next]_vars
    PROVE  TInv'
<1>0. Scalars
  BY DEF TInv
<1>1. PICK n \in 0..Slots : ListHolds(n)
  BY DEF TInv
<1>2. \A g : Among(g, list, active, n) => g.id <= instance /\ g.id \in Nat
  BY <1>1, AmongIds DEF ListHolds
<1>3. ASSUME list' = list, active' = active, avail' = avail, instance' = instance, Scalars'
      PROVE  TInv'
  BY <1>1, <1>3 DEF TInv, ListHolds
<1>4. ASSUME NEW m, Holds(list', active', avail', m), Scalars',
             \A g : Among(g, list', active', m) => g.id <= instance'
      PROVE  TInv'
  <2>1. m \in 0..Slots
    BY <1>4 DEF Holds, Shape
  <2>2. Ids(list', active', m, instance')
    BY <1>4, IdsAmong
  <2> QED
    BY <1>4, <2>1, <2>2 DEF TInv, ListHolds
<1>5. CASE Tick
  <2>1. Scalars'
    BY <1>0, <1>5, TimerAssumption DEF Scalars, Tick
  <2> QED
    BY <1>3, <1>5, <2>1 DEF Tick
<1>6. ASSUME NEW delay \in Delays, NEW repeat \in Periods, NEW arg \in Args,
             NEW lag \in 0..1, Arm(delay, repeat, arg, lag)
      PROVE  TInv'
  <2>1. instance' = instance + 1 /\ Scalars'
    BY <1>0, <1>6 DEF Scalars, Arm
  <2> DEFINE f == Future(instance + 1, clock - lag + delay, repeat, arg)
  <2>2. /\ Holds(list', active', avail', n + 1)
        /\ \A g : Among(g, list', active', n + 1) <=> (g = f \/ Among(g, list, active, n))
    BY <1>0, <1>1, <1>6, ArmStep
  <2>3. f.id = instance + 1
    BY DEF Future
  <2> HIDE DEF f
  <2>4. \A g : Among(g, list', active', n + 1) => g.id <= instance'
    BY <1>0, <1>2, <2>1, <2>2, <2>3 DEF Scalars
  <2> QED
    BY <1>4, <2>1, <2>2, <2>4
<1>7. CASE ArmRefused
  <2>1. Scalars'
    BY <1>0, <1>7 DEF Scalars, ArmRefused
  <2> QED
    BY <1>3, <1>7, <2>1 DEF ArmRefused
<1>8. ASSUME NEW s \in SlotIndex, Cancel(s) PROVE TInv'
  <2>1. instance' = instance /\ Scalars'
    BY <1>0, <1>8 DEF Scalars, Cancel
  <2>2. /\ Holds(list', active', avail', n - 1)
        /\ \A g : Among(g, list', active', n - 1) => Among(g, list, active, n)
    BY <1>1, <1>8, CancelStep
  <2> QED
    BY <1>2, <1>4, <2>1, <2>2
<1>9. CASE DispatchBegin
  <2>1. Counter = clock
    BY <1>0, NoWrapMod, TimerAssumption DEF Counter, Scalars, NoWrap
  <2>2. clock' = clock /\ timeNow' = clock /\ clock \in Nat
    BY <1>0, <1>9, <2>1, TimerAssumption DEF Scalars, DispatchBegin
  <2>3. timeNow' \in 0..clock'
    BY <2>2
  <2>4. Scalars'
    BY <1>0, <1>9, <2>3 DEF Scalars, DispatchBegin
  <2> QED
    BY <1>3, <1>9, <2>4 DEF DispatchBegin
<1>10. CASE DispatchExpired
  <2>1. CASE list[active].repeat = 0
    <3>1. instance' = instance /\ Scalars'
      BY <1>0, <1>10, <2>1 DEF Scalars, DispatchExpired
    <3>2. /\ Holds(list', active', avail', n - 1)
          /\ \A g : Among(g, list', active', n - 1) => Among(g, list, active, n)
      BY <1>1, <1>10, <2>1, DeliverStep
    <3> QED
      BY <1>2, <1>4, <3>1, <3>2
  <2>2. CASE list[active].repeat # 0
    <3>1. instance' = instance + 1 /\ Scalars'
      BY <1>0, <1>10, <2>2 DEF Scalars, DispatchExpired
    <3> DEFINE f == Future(instance + 1, list[active].due + list[active].repeat, list[active].repeat, NoArg)
    <3>2. /\ Holds(list', active', avail', n)
          /\ \A g : Among(g, list', active', n) => (g = f \/ Among(g, list, active, n))
      BY <1>0, <1>1, <1>10, <2>2, RepeatStep
    <3>3. f.id = instance + 1
      BY DEF Future
    <3> HIDE DEF f
    <3>4. \A g : Among(g, list', active', n) => g.id <= instance'
      BY <1>0, <1>2, <3>1, <3>2, <3>3 DEF Scalars
    <3> QED
      BY <1>4, <3>1, <3>2, <3>4
  <2> QED
    BY <2>1, <2>2
<1>11. CASE DispatchEnd
  <2>1. Scalars'
    BY <1>0, <1>11 DEF Scalars, DispatchEnd
  <2> QED
    BY <1>3, <1>11, <2>1 DEF DispatchEnd
<1>12. CASE UNCHANGED vars
  BY <1>3, <1>0, <1>12 DEF vars, Scalars
<1> QED
  BY <1>5, <1>6, <1>7, <1>8, <1>9, <1>10, <1>11, <1>12 DEF Next, Dispatch

-----------------------------------------------------------------------------
LEMMA InvList ==
    ASSUME NoWrap, TInv
    PROVE  ListOK
<1>0. Scalars
  BY DEF TInv
<1>1. PICK n \in 0..Slots : ListHolds(n)
  BY DEF TInv
<1>2. /\ active \in SlotIndex /\ avail \in SlotIndex /\ n \in Nat /\ Slots \in Nat
      /\ \A s \in SlotIndex : Off(s, active) \in 0..(Slots - 1) /\ Offset(s) = Off(s, active)
  BY <1>1, OffsetIs, TimerAssumption DEF ListHolds, Holds, Shape, Offset
<1>3. Used = {s \in SlotIndex : Off(s, active) < n}
  BY <1>1, FullLemma DEF ListHolds
<1>4. \A s \in SlotIndex : IF s \in Used THEN Valid(list[s]) /\ list[s].id <= instance
                           ELSE list[s] = Free
  BY <1>1, <1>2, <1>3 DEF ListHolds, Holds, InUse, Ids
<1>5. TypeOK
  <2>1. ASSUME NEW s \in SlotIndex
        PROVE  /\ list[s].id \in -1..instance
               /\ list[s].count \in 0..(Wrap - 1)
               /\ list[s].repeat \in Periods \cup {0}
               /\ list[s].arg \in Args \cup {NoArg}
    <3>1. CASE s \in Used
      <4>1. /\ list[s] \in Futures /\ list[s].count = list[s].due
            /\ 2 * list[s].due < Wrap /\ list[s].id <= instance
        BY <1>4, <3>1 DEF Valid
      <4> QED
        BY <1>0, <4>1, TimerAssumption DEF Futures, Scalars
    <3>2. CASE s \notin Used
      BY <1>0, <1>4, <3>2, TimerAssumption DEF Free, Scalars
    <3> QED
      BY <3>1, <3>2
  <2>2. DOMAIN list = SlotIndex
    BY <1>1 DEF ListHolds, Holds, InUse
  <2>3. timeNow \in 0..(Wrap - 1)
    BY <1>0, TimerAssumption DEF Scalars, NoWrap
  <2> QED
    BY <1>0, <1>2, <2>1, <2>2, <2>3 DEF TypeOK, Scalars
<1>6. OnlyUsedHoldTimers
  <2>1. ASSUME NEW s \in SlotIndex PROVE list[s] # Free <=> s \in Used
    <3>1. ASSUME s \in Used PROVE list[s] # Free
      BY <1>4, <3>1 DEF Valid, Futures, Free
    <3> QED
      BY <1>4, <3>1
  <2> QED
    BY <2>1 DEF OnlyUsedHoldTimers
<1>7. Sorted
  BY <1>1, <1>2, <1>3 DEF Sorted, ListHolds, Holds, InOrder
<1> QED
  BY <1>5, <1>6, <1>7 DEF ListOK

LEMMA InvAlways ==
    ASSUME NoWrap
    PROVE  Spec => []TInv
<1>1. Init => TInv
  BY InvInit
<1>2. TInv /\ [Next]_vars => TInv'
  BY InvStep
<1> QED
  BY <1>1, <1>2, PTL DEF Spec

(* The circular list of timer.c is well formed in every state: exactly the *)
(* slots from the active one up to the available one hold timers, sorted   *)
(* by the time they are due, as long as the counter does not wrap. *)
THEOREM ListWellFormed ==
    ASSUME NoWrap
    PROVE  Spec => []ListOK
<1>1. TInv => ListOK
  BY InvList
<1>2. Spec => []TInv
  BY InvAlways
<1> QED
  BY <1>1, <1>2, PTL

(* timer_dispatch does not return while a timer that had expired when it   *)
(* was called is in a list that is not full. *)
THEOREM DispatchesAll ==
    ASSUME NoWrap
    PROVE  Spec => DispatchComplete
<1>1. ASSUME TInv, [Next]_vars, pc = "dispatch", pc' = "idle", ~Full
      PROVE  ~LateAfterDispatch
  <2>0. Scalars
    BY <1>1 DEF TInv
  <2>1. PICK n \in 0..Slots : ListHolds(n)
    BY <1>1 DEF TInv
  <2>2. DispatchEnd
    BY <1>1 DEF Next, Dispatch, Tick, Arm, ArmRefused, Cancel, DispatchBegin,
                DispatchExpired, vars
  <2>3. Used = {s \in SlotIndex : Off(s, active) < n}
    BY <2>1, FullLemma DEF ListHolds
  <2>4. CASE active = avail
    <3>1. n # Slots
      BY <1>1, <2>1, FullLemma DEF ListHolds
    <3>2. n = 0 /\ \A s \in SlotIndex : Off(s, active) \in Nat
      BY <2>1, <2>4, <3>1, OffsetIs, OffsetOfFirst, TimerAssumption
      DEF ListHolds, Holds, Shape
    <3> QED
      BY <2>3, <3>2 DEF LateAfterDispatch
  <2>5. CASE active # avail
    <3>1. ~(timeNow >= list[active].count)
      BY <2>2, <2>5 DEF DispatchEnd, Expired
    <3>2. /\ Valid(list[active])
          /\ \A s \in SlotIndex : Off(s, active) < n => list[active].due <= list[s].due
      BY <2>1, <2>5, FirstIsDue
    <3>3. timeNow < list[active].due /\ timeNow \in Nat /\ list[active].due \in Nat
      BY <2>0, <3>1, <3>2, TimerAssumption DEF Valid, Futures, Scalars
    <3>4. ASSUME NEW s \in SlotIndex, Off(s, active) < n PROVE ~(list[s].due <= timeNow)
      <4>1. list[s].due \in Nat
        BY <2>1, <3>4 DEF ListHolds, Holds, InUse, Valid, Futures
      <4> QED
        BY <3>2, <3>3, <3>4, <4>1
    <3> QED
      BY <2>3, <3>4 DEF LateAfterDispatch
  <2> QED
    BY <2>4, <2>5
<1>2. TInv /\ [Next]_vars => [pc = "dispatch" /\ pc' = "idle" /\ ~Full => ~LateAfterDispatch]_vars
  BY <1>1
<1>3. Spec => []TInv
  BY InvAlways
<1> QED
  BY <1>2, <1>3, PTL DEF Spec, DispatchComplete

-----------------------------------------------------------------------------
(* The refinement: Armed is the set of what TimerSet keeps of the timers   *)
(* of the list. *)
Kept(g) == [id |-> g.id, due |-> g.due, repeat |-> g.repeat]

LEMMA ArmedLemma ==
    ASSUME NEW n, Holds(list, active, avail, n)
    PROVE  \A x : x \in Armed <=> \E g : Among(g, list, active, n) /\ x = Kept(g)
BY FullLemma DEF Armed, Among, Kept

LEMMA ArmedNext ==
    ASSUME NEW n, Holds(list', active', avail', n)
    PROVE  \A x : x \in Armed' <=> \E g : Among(g, list', active', n) /\ x = Kept(g)
<1>1. n \in 0..Slots /\ Slots \in Nat
  BY TimerAssumption DEF Holds, Shape
<1>2. /\ Full' <=> n = Slots
      /\ n < Slots => {s \in SlotIndex : (s - active') % Slots < (avail' - active') % Slots}
                        = {s \in SlotIndex : Off(s, active') < n}
      /\ n = Slots => SlotIndex = {s \in SlotIndex : Off(s, active') < n}
  BY UsedLemma DEF Full
<1>3. Used' = {s \in SlotIndex : Off(s, active') < n}
  BY <1>1, <1>2 DEF Used, Offset, Length
<1> QED
  BY <1>3 DEF Armed, Among, Kept

(* what is kept of a timer still tells it from the others *)
LEMMA KeptLemma ==
    ASSUME NEW n, Holds(list, active, avail, n),
           NEW g, NEW h, Among(g, list, active, n), Among(h, list, active, n),
           Kept(g) = Kept(h)
    PROVE  g = h
<1>1. PICK r \in SlotIndex : Off(r, active) < n /\ list[r] = g
  BY DEF Among
<1>2. PICK s \in SlotIndex : Off(s, active) < n /\ list[s] = h
  BY DEF Among
<1>3. g.id = h.id
  BY DEF Kept
<1>4. r = s
  BY <1>1, <1>2, <1>3 DEF Holds, Distinct
<1> QED
  BY <1>1, <1>2, <1>4

LEMMA RefineInit ==
    ASSUME Init
    PROVE  Promise!Init
<1>1. Used = {}
  <2>1. /\ 0 \in SlotIndex /\ active = 0 /\ avail = 0 /\ list[0] = Free
        /\ \A s \in SlotIndex : (s - 0) % Slots \in Nat
    BY TimerAssumption, OffsetIs DEF Init, SlotIndex
  <2>2. (0 - 0) % Slots = 0
    BY <2>1, OffsetIs, OffsetOfFirst
  <2>3. ~Full
    BY <2>1 DEF Full
  <2> QED
    BY <2>1, <2>2, <2>3 DEF Used, Offset, Length
<1>2. Armed = {}
  BY <1>1 DEF Armed
<1> QED
  BY <1>2 DEF Init, Promise!Init, Promise!NoTimer, Promise!Timer, Free

LEMMA RefineStep ==
    ASSUME NoWrap, TInv, [Next]_vars
    PROVE  [Promise!Next]_(Promise!vars)
<1>0. Scalars
  BY DEF TInv
<1>1. PICK n \in 0..Slots : ListHolds(n)
  BY DEF TInv
<1>2. \A x : x \in Armed <=> \E g : Among(g, list, active, n) /\ x = Kept(g)
  BY <1>1, ArmedLemma DEF ListHolds
<1>3. \A g, h : Among(g, list, active, n) /\ Among(h, list, active, n) /\ Kept(g) = Kept(h)
                  => g = h
  BY <1>1, KeptLemma DEF ListHolds
(* one timer less: what is kept of it is what is no longer armed *)
<1>4. ASSUME NEW h, Among(h, list, active, n),
             NEW m, Holds(list', active', avail', m),
             \A g : Among(g, list', active', m) <=> g # h /\ Among(g, list, active, n)
      PROVE  Armed' = Armed \ {Kept(h)}
  <2>1. \A x : x \in Armed' <=> \E g : Among(g, list', active', m) /\ x = Kept(g)
    BY <1>4, ArmedNext
  <2>2. \A x : x \in Armed' <=> x \in Armed /\ x # Kept(h)
    BY <1>2, <1>3, <1>4, <2>1
  <2> QED
    BY <2>2
<1>5. ASSUME list' = list, active' = active, avail' = avail
      PROVE  Armed' = Armed
  BY <1>5 DEF Armed, Used, Full, Offset, Length
<1>6. ASSUME list' = list, active' = active, avail' = avail, instance' = instance,
             clock' = clock, delivered' = delivered
      PROVE  UNCHANGED Promise!vars
  BY <1>5, <1>6 DEF Promise!vars
<1>7. CASE Tick
  <2>1. Armed' = Armed
    BY <1>5, <1>7 DEF Tick
  <2>2. Promise!Tick
    BY <1>7, <2>1 DEF Tick, Promise!Tick
  <2> QED
    BY <2>2 DEF Promise!Next
<1>8. ASSUME NEW delay \in Delays, NEW repeat \in Periods, NEW arg \in Args,
             NEW lag \in 0..1, Arm(delay, repeat, arg, lag)
      PROVE  Promise!Next
  <2> DEFINE f == Future(instance + 1, clock - lag + delay, repeat, arg)
             t == [id |-> instance + 1, due |-> clock + (delay - lag), repeat |-> repeat]
  <2>1. Kept(f) = t
    <3>1. clock - lag + delay = clock + (delay - lag)
      BY <1>0, TimerAssumption DEF Scalars
    <3> QED
      BY <3>1 DEF Kept, Future
  <2>2. /\ Holds(list', active', avail', n + 1)
        /\ \A g : Among(g, list', active', n + 1) <=> (g = f \/ Among(g, list, active, n))
    BY <1>0, <1>1, <1>8, ArmStep
  <2> HIDE DEF f
  <2>3. \A x : x \in Armed' <=> \E g : Among(g, list', active', n + 1) /\ x = Kept(g)
    BY <2>2, ArmedNext
  <2>4. \A x : x \in Armed' <=> x \in Armed \/ x = Kept(f)
    BY <1>2, <2>2, <2>3
  <2>5. Armed' = Armed \cup {t}
    BY <2>1, <2>4
  <2>6. instance' = instance + 1 /\ clock' = clock /\ delivered' = delivered
    BY <1>8 DEF Arm
  <2>7. Promise!Arm(delay - lag, repeat)
    BY <2>5, <2>6 DEF Promise!Arm, Promise!Timer
  <2>8. delay - lag \in Delays \cup {d - 1 : d \in Delays}
    <3>1. CASE lag = 0
      <4>1. delay - lag = delay
        BY <3>1, TimerAssumption
      <4> QED
        BY <4>1
    <3>2. CASE lag = 1
      BY <3>2
    <3> QED
      BY <1>8, <3>1, <3>2
  <2> QED
    BY <2>7, <2>8 DEF Promise!Next
<1>9. CASE ArmRefused
  BY <1>6, <1>9 DEF ArmRefused
<1>10. ASSUME NEW s \in SlotIndex, Cancel(s) PROVE Promise!Next
  <2>1. /\ Off(s, active) < n
        /\ Holds(list', active', avail', n - 1)
        /\ \A g : Among(g, list', active', n - 1) <=> g # list[s] /\ Among(g, list, active, n)
    BY <1>1, <1>10, CancelStep
  <2>2. Among(list[s], list, active, n)
    BY <2>1 DEF Among
  <2>3. Armed' = Armed \ {Kept(list[s])}
    BY <1>4, <2>1, <2>2
  <2>4. Kept(list[s]) \in Armed
    BY <1>2, <2>2
  <2>5. Promise!Cancel(Kept(list[s]))
    BY <1>10, <2>3, <2>4 DEF Cancel, Promise!Cancel
  <2> QED
    BY <2>4, <2>5 DEF Promise!Next
<1>11. CASE DispatchBegin
  BY <1>6, <1>11 DEF DispatchBegin
<1>12. CASE DispatchExpired
  <2> DEFINE old == list[active]
             t == Kept(old)
  <2>1. /\ Valid(old) /\ Among(old, list, active, n)
        /\ \A s \in SlotIndex : Off(s, active) < n => old.due <= list[s].due
    BY <1>1, <1>12, FirstIsDue DEF DispatchExpired
  <2>2. /\ old.due \in Nat /\ old.count = old.due /\ old.id \in Nat
    BY <2>1 DEF Valid, Futures
  <2>3. /\ t.id = old.id /\ t.due = old.due /\ t.repeat = old.repeat
        /\ t = [id |-> old.id, due |-> old.due, repeat |-> old.repeat]
    BY DEF Kept
  <2>4. t \in Armed
    BY <1>2, <2>1
  <2>5. t.due <= clock
    <3>1. timeNow >= old.due
      BY <1>12, <2>2 DEF DispatchExpired, Expired
    <3>2. timeNow \in Nat /\ clock \in Nat /\ timeNow <= clock
      BY <1>0 DEF Scalars
    <3> HIDE DEF old, t
    <3> QED
      BY <2>2, <2>3, <3>1, <3>2
  <2>6. \A u \in Armed : t.due <= u.due
    <3> TAKE u \in Armed
    <3>1. PICK g : Among(g, list, active, n) /\ u = Kept(g)
      BY <1>2
    <3>2. u.due = g.due
      BY <3>1 DEF Kept
    <3>3. old.due <= g.due
      BY <2>1, <3>1 DEF Among
    <3> QED
      BY <2>3, <3>2, <3>3
  <2>7. /\ clock' = clock
        /\ [id |-> delivered.id, due |-> delivered.due, repeat |-> delivered.repeat]' = t
    BY <1>12, <2>3 DEF DispatchExpired
  <2>8. CASE old.repeat = 0
    <3>1. /\ Holds(list', active', avail', n - 1)
          /\ \A g : Among(g, list', active', n - 1) <=> g # old /\ Among(g, list, active, n)
      BY <1>1, <1>12, <2>8, DeliverStep
    <3>2. Armed' = Armed \ {t}
      BY <1>4, <2>1, <3>1
    <3>3. instance' = instance
      BY <1>12, <2>8 DEF DispatchExpired
    <3> HIDE DEF old, t
    <3>4. Promise!Deliver(t)
      BY <2>3, <2>4, <2>5, <2>6, <2>7, <2>8, <3>2, <3>3 DEF Promise!Deliver
    <3> QED
      BY <2>4, <3>4 DEF Promise!Next
  <2>9. CASE old.repeat # 0
    <3> DEFINE f == Future(instance + 1, old.due + old.repeat, old.repeat, NoArg)
    <3>1. /\ Holds(list', active', avail', n)
          /\ \A g : Among(g, list', active', n) <=> (g = f \/ (g # old /\ Among(g, list, active, n)))
      BY <1>0, <1>1, <1>12, <2>9, RepeatStep
    <3>2. Kept(f) = [id |-> instance + 1, due |-> old.due + old.repeat, repeat |-> old.repeat]
      BY DEF Kept, Future
    <3>3. instance' = instance + 1
      BY <1>12, <2>9 DEF DispatchExpired
    <3> HIDE DEF f, old
    <3>4. \A x : x \in Armed' <=> \E g : Among(g, list', active', n) /\ x = Kept(g)
      BY <3>1, ArmedNext
    <3>5. \A x : x \in Armed' <=> x = Kept(f) \/ (x \in Armed /\ x # t)
      BY <1>2, <1>3, <2>1, <3>1, <3>4
    <3>6. Armed' = (Armed \ {t}) \cup {Kept(f)}
      BY <3>5
    <3> HIDE DEF t
    <3>7. Promise!Deliver(t)
      BY <2>3, <2>4, <2>5, <2>6, <2>7, <2>9, <3>2, <3>3, <3>6
      DEF Promise!Deliver, Promise!Timer
    <3> QED
      BY <2>4, <3>7 DEF Promise!Next
  <2> QED
    BY <2>8, <2>9
<1>13. CASE DispatchEnd
  BY <1>6, <1>13 DEF DispatchEnd
<1>14. CASE UNCHANGED vars
  BY <1>6, <1>14 DEF vars
<1> QED
  BY <1>7, <1>8, <1>9, <1>10, <1>11, <1>12, <1>13, <1>14 DEF Next, Dispatch

(* Every behaviour of timer.c whose counter does not wrap is one of        *)
(* TimerSet: the armed timers are delivered in order of expiry, none       *)
(* early, none lost, repeating ones without drift, no cancelled one. *)
THEOREM ImplementsTimerSet ==
    ASSUME NoWrap
    PROVE  Spec => TimerSetSpec
<1>1. Init => Promise!Init
  BY RefineInit
<1>2. TInv /\ [Next]_vars => [Promise!Next]_(Promise!vars)
  BY RefineStep
<1>3. Spec => []TInv
  BY InvAlways
<1> QED
  BY <1>1, <1>2, <1>3, PTL DEF Spec, TimerSetSpec, Promise!Spec

-----------------------------------------------------------------------------
(* the instances of a set of timers *)
Instances(timers) == {t.id : t \in timers}

(* timer_cancel is given instances of timers that may be gone (the         *)
(* controller's transmit_timer, valve::timer, the hub's timer of the grace *)
(* period): it must not take away another timer.  Of the instances given   *)
(* so far none comes back into the list once it left it; and a timer that  *)
(* is delivered was armed, is due, and is armed no more.                   *)
OneTimerEach ==
    [][/\ \A id \in 0..instance : id \notin Instances(Armed) => id \notin Instances(Armed')
       /\ delivered' # delivered =>
              /\ delivered'.due <= clock
              /\ delivered'.id \in Instances(Armed)
              /\ delivered'.id \notin Instances(Armed')]_vars

LEMMA InstancesKept ==
    ASSUME Scalars, [Promise!Next]_(Promise!vars),
           NEW id \in 0..instance, id \notin Instances(Armed)
    PROVE  id \notin Instances(Armed')
<1>1. instance \in Int /\ id # instance + 1
  BY DEF Scalars
<1>2. \A t \in Armed : t.id # id
  BY DEF Instances
<1>3. SUFFICES \A t \in Armed' : t.id # id
  BY DEF Instances
<1>4. CASE Promise!Tick
  BY <1>2, <1>4 DEF Promise!Tick
<1>5. ASSUME NEW delay, NEW repeat, Promise!Arm(delay, repeat)
      PROVE  \A t \in Armed' : t.id # id
  BY <1>1, <1>2, <1>5 DEF Promise!Arm, Promise!Timer
<1>6. ASSUME NEW t, Promise!Cancel(t) PROVE \A u \in Armed' : u.id # id
  BY <1>2, <1>6 DEF Promise!Cancel
<1>7. ASSUME NEW t, Promise!Deliver(t) PROVE \A u \in Armed' : u.id # id
  BY <1>1, <1>2, <1>7 DEF Promise!Deliver, Promise!Timer
<1>8. CASE UNCHANGED Promise!vars
  BY <1>2, <1>8 DEF Promise!vars
<1> QED
  BY <1>4, <1>5, <1>6, <1>7, <1>8 DEF Promise!Next

LEMMA DeliveredLeaves ==
    ASSUME NoWrap, TInv, DispatchExpired
    PROVE  /\ delivered'.due <= clock
           /\ delivered'.id \in Instances(Armed)
           /\ delivered'.id \notin Instances(Armed')
<1>0. Scalars
  BY DEF TInv
<1>1. PICK n \in 0..Slots : ListHolds(n)
  BY DEF TInv
<1> DEFINE old == list[active]
<1>2. /\ Valid(old) /\ Among(old, list, active, n) /\ active # avail
      /\ delivered' = old /\ timeNow >= old.count
  BY <1>1, FirstIsDue DEF DispatchExpired, Expired
<1>3. old.due \in Nat /\ old.count = old.due /\ old.id \in Nat /\ old.id <= instance
  <2>1. PICK s \in SlotIndex : Off(s, active) < n /\ list[s] = old
    BY <1>2 DEF Among
  <2>2. list[s].id <= instance
    BY <1>1, <2>1 DEF ListHolds, Ids
  <2> QED
    BY <1>2, <2>1, <2>2 DEF Valid, Futures
<1>4. \A x : x \in Armed <=> \E g : Among(g, list, active, n) /\ x = Kept(g)
  BY <1>1, ArmedLemma DEF ListHolds
<1>5. \A g : Among(g, list, active, n) /\ g.id = old.id => g = old
  <2> SUFFICES ASSUME NEW g, Among(g, list, active, n), g.id = old.id PROVE g = old
    OBVIOUS
  <2>1. PICK r \in SlotIndex : Off(r, active) < n /\ list[r] = g
    BY DEF Among
  <2>2. PICK s \in SlotIndex : Off(s, active) < n /\ list[s] = old
    BY <1>2 DEF Among
  <2>3. r = s
    BY <1>1, <2>1, <2>2 DEF ListHolds, Holds, Distinct
  <2> QED
    BY <2>1, <2>2, <2>3
<1>6. PICK m : /\ Holds(list', active', avail', m)
               /\ \A g : Among(g, list', active', m) =>
                            g.id = instance + 1 \/ (g # old /\ Among(g, list, active, n))
  <2>1. CASE old.repeat = 0
    BY <1>1, <2>1, DeliverStep
  <2>2. CASE old.repeat # 0
    <3> DEFINE f == Future(instance + 1, old.due + old.repeat, old.repeat, NoArg)
    <3>1. /\ Holds(list', active', avail', n)
          /\ \A g : Among(g, list', active', n) <=> (g = f \/ (g # old /\ Among(g, list, active, n)))
      BY <1>0, <1>1, <2>2, RepeatStep
    <3>2. f.id = instance + 1
      BY DEF Future
    <3> HIDE DEF f
    <3> QED
      BY <3>1, <3>2
  <2> QED
    BY <2>1, <2>2
<1>7. \A x : x \in Armed' <=> \E g : Among(g, list', active', m) /\ x = Kept(g)
  BY <1>6, ArmedNext
<1>8. \A g : Kept(g).id = g.id
  BY DEF Kept
<1>9. instance + 1 # old.id /\ old.due <= clock
  BY <1>0, <1>2, <1>3 DEF Scalars
<1> HIDE DEF old
<1>10. old.id \in Instances(Armed)
  <2>1. Kept(old) \in Armed
    BY <1>2, <1>4
  <2> QED
    BY <1>8, <2>1 DEF Instances
<1>11. \A x \in Armed' : x.id # old.id
  <2> TAKE x \in Armed'
  <2>1. PICK g : Among(g, list', active', m) /\ x = Kept(g)
    BY <1>7
  <2>2. x.id = g.id
    BY <1>8, <2>1
  <2> QED
    BY <1>5, <1>6, <1>9, <2>1, <2>2
<1> QED
  BY <1>2, <1>9, <1>10, <1>11 DEF Instances

(* While the counter does not wrap, an instance names one timer for ever,  *)
(* and each timer is delivered once at most, in its time.                  *)
THEOREM NeverComesBack ==
    ASSUME NoWrap
    PROVE  Spec => OneTimerEach
<1>1. ASSUME TInv, [Next]_vars, NEW id \in 0..instance, id \notin Instances(Armed)
      PROVE  id \notin Instances(Armed')
  BY <1>1, RefineStep, InstancesKept DEF TInv
<1>2. ASSUME TInv, [Next]_vars, delivered' # delivered
      PROVE  /\ delivered'.due <= clock
             /\ delivered'.id \in Instances(Armed)
             /\ delivered'.id \notin Instances(Armed')
  <2>1. DispatchExpired
    BY <1>2 DEF Next, Dispatch, Tick, Arm, ArmRefused, Cancel, DispatchBegin,
                DispatchEnd, vars
  <2> QED
    BY <1>2, <2>1, DeliveredLeaves
<1>3. TInv /\ [Next]_vars =>
        [/\ \A id \in 0..instance : id \notin Instances(Armed) => id \notin Instances(Armed')
         /\ delivered' # delivered =>
                /\ delivered'.due <= clock
                /\ delivered'.id \in Instances(Armed)
                /\ delivered'.id \notin Instances(Armed')]_vars
  BY <1>1, <1>2
<1> QED
  BY <1>3, InvAlways, PTL DEF Spec, OneTimerEach
=============================================================================
