------------------------ MODULE ReplaceOrder_proofs ------------------------
(***************************************************************************)
(* Proofs about ReplaceOrder, for every number of ways: LRURepl selects as *)
(* FIFORepl does, and no way of LRURepl or PLRURepl is passed over for     *)
(* long.                                                                   *)
(***************************************************************************)
EXTENDS ReplaceOrder, Integers, FiniteSetTheorems, WellFoundedInduction, TLAPS

USE MaxTotalAssumption

-----------------------------------------------------------------------------
(***************************************************************************)
(* LRURepl and FIFORepl.                                                   *)
(***************************************************************************)

(***************************************************************************)
(* A number below 2t is reduced modulo t by at most one subtraction: the   *)
(* counter of FIFORepl, set to zero at total, counts modulo total.         *)
(***************************************************************************)
Wrapped(x, t) == IF x < t THEN x ELSE x - t

(***************************************************************************)
(* Below 2t, one subtraction is reduction modulo t.                        *)
(***************************************************************************)
LEMMA Wraps ==
  ASSUME NEW t \in Nat \ {0}, NEW x \in Nat, x < 2 * t
  PROVE  x % t = Wrapped(x, t)
BY DEF Wrapped

(***************************************************************************)
(* The queue of t ways is the ways in circular order from f on; the        *)
(* further back a way stands, the fewer selections it has waited.          *)
(***************************************************************************)
Circular(t, q, f) ==
  /\ q \in [1 .. t -> 0 .. t - 1]
  /\ f \in 0 .. t - 1
  /\ \A i \in 1 .. t : q[i] = Wrapped(f + i - 1, t)

(***************************************************************************)
(* A queue in circular order holds every way once, counting modulo t, and  *)
(* its front is the counter of FIFORepl.                                   *)
(***************************************************************************)
LEMMA CircularIsPermutation ==
  ASSUME NEW t \in Nat \ {0}, NEW q, NEW f, Circular(t, q, f)
  PROVE  /\ \A i \in 1 .. t : q[i] = (f + i - 1) % t
         /\ \A i, j \in 1 .. t : q[i] = q[j] => i = j
         /\ q[1] = f
<1>1. f \in Int /\ 0 <= f /\ f < t
  BY DEF Circular
<1>2. ASSUME NEW i \in 1 .. t
      PROVE  q[i] = (f + i - 1) % t
  <2>1. f + i - 1 \in Nat /\ f + i - 1 < 2 * t
    BY <1>1
  <2>2. (f + i - 1) % t = Wrapped(f + i - 1, t)
    BY <2>1, Wraps
  <2> QED  BY <2>2 DEF Circular
<1>3. ASSUME NEW i \in 1 .. t, NEW j \in 1 .. t, q[i] = q[j]
      PROVE  i = j
  <2>1. Wrapped(f + i - 1, t) = Wrapped(f + j - 1, t)
    BY <1>3 DEF Circular
  <2> QED  BY <1>1, <2>1 DEF Wrapped
<1>4. q[1] = f
  <2>1. 1 \in 1 .. t
    OBVIOUS
  <2>2. q[1] = Wrapped(f + 1 - 1, t)
    BY <2>1 DEF Circular
  <2> QED  BY <1>1, <2>2 DEF Wrapped
<1> QED  BY <1>2, <1>3, <1>4

(***************************************************************************)
(* A selection turns the queue by one and advances the counter by one.     *)
(***************************************************************************)
Turned(t, q) == [i \in 1 .. t |-> IF i < t THEN q[i + 1] ELSE q[1]]

(***************************************************************************)
(* A turned queue is in circular order from the next way on.               *)
(***************************************************************************)
LEMMA TurnedIsCircular ==
  ASSUME NEW t \in Nat \ {0}, NEW q, NEW f, Circular(t, q, f)
  PROVE  Circular(t, Turned(t, q), IF f + 1 = t THEN 0 ELSE f + 1)
<1> DEFINE p == Turned(t, q)
           g == IF f + 1 = t THEN 0 ELSE f + 1
<1>1. f \in Int /\ 0 <= f /\ f < t /\ q[1] = f /\ 1 \in 1 .. t
  <2>1. q[1] = f
    BY CircularIsPermutation
  <2> QED  BY <2>1 DEF Circular
<1>2. p \in [1 .. t -> 0 .. t - 1]
  BY <1>1 DEF Turned, Circular
<1>3. \A i \in 1 .. t : p[i] = IF i < t THEN q[i + 1] ELSE q[1]
  BY DEF Turned
<1> HIDE DEF p
<1>4. g \in 0 .. t - 1
  BY <1>1
<1>5. ASSUME NEW i \in 1 .. t
      PROVE  p[i] = Wrapped(g + i - 1, t)
  <2>1. CASE i < t
    <3>1. i + 1 \in 1 .. t /\ p[i] = q[i + 1]
      BY <1>3, <2>1
    <3>2. q[i + 1] = Wrapped(f + (i + 1) - 1, t)
      BY <3>1 DEF Circular
    <3> QED  BY <1>1, <2>1, <3>1, <3>2 DEF Wrapped
  <2>2. CASE i = t
    BY <1>1, <1>3, <2>2 DEF Wrapped
  <2> QED  BY <2>1, <2>2
<1> HIDE DEF g
<1>6. Circular(t, p, g)
  BY <1>2, <1>4, <1>5 DEF Circular
<1> QED  BY <1>6 DEF p, g

(***************************************************************************)
(* The ways wait for their turn in the order of the queue.                 *)
(***************************************************************************)
WaitsInOrder(t, q, waits) ==
  /\ waits \in [0 .. t - 1 -> Nat]
  /\ \A i \in 1 .. t : waits[q[i]] <= t - i

Restarted(t, waits, way) ==
  [w \in 0 .. t - 1 |-> IF w = way THEN 0 ELSE waits[w] + 1]

(***************************************************************************)
(* The way at the front goes to the back and starts waiting anew.          *)
(***************************************************************************)
LEMMA TurningKeepsOrder ==
  ASSUME NEW t \in Nat \ {0}, NEW q, NEW f, Circular(t, q, f),
         NEW waits, WaitsInOrder(t, q, waits)
  PROVE  WaitsInOrder(t, Turned(t, q), Restarted(t, waits, q[1]))
<1> DEFINE p == Turned(t, q)
           new == Restarted(t, waits, q[1])
<1>1. /\ \A i, j \in 1 .. t : q[i] = q[j] => i = j
      /\ \A i \in 1 .. t : q[i] \in 0 .. t - 1
      /\ 1 \in 1 .. t
  <2>1. \A i, j \in 1 .. t : q[i] = q[j] => i = j
    BY CircularIsPermutation
  <2> QED  BY <2>1 DEF Circular
<1>2. \A i \in 1 .. t : p[i] = IF i < t THEN q[i + 1] ELSE q[1]
  BY DEF Turned
<1>3. /\ new \in [0 .. t - 1 -> Nat]
      /\ \A w \in 0 .. t - 1 : new[w] = IF w = q[1] THEN 0 ELSE waits[w] + 1
  BY DEF Restarted, WaitsInOrder
<1> HIDE DEF p, new
<1>4. ASSUME NEW i \in 1 .. t
      PROVE  new[p[i]] <= t - i
  <2>1. CASE i < t
    <3>1. i + 1 \in 1 .. t /\ i + 1 # 1 /\ p[i] = q[i + 1]
      BY <1>2, <2>1
    <3>2. q[i + 1] \in 0 .. t - 1 /\ q[i + 1] # q[1]
      BY <1>1, <3>1
    <3>3. waits[q[i + 1]] <= t - (i + 1) /\ waits[q[i + 1]] \in Nat
      BY <3>1, <3>2 DEF WaitsInOrder
    <3>4. new[q[i + 1]] = waits[q[i + 1]] + 1
      BY <1>3, <3>2
    <3>5. new[p[i]] = waits[q[i + 1]] + 1
      BY <3>1, <3>4
    <3> QED  BY <3>3, <3>5
  <2>2. CASE i = t
    <3>1. p[i] = q[1] /\ q[1] \in 0 .. t - 1
      BY <1>1, <1>2, <2>2
    <3> QED  BY <1>3, <2>2, <3>1
  <2> QED  BY <2>1, <2>2
<1> QED  BY <1>3, <1>4 DEF WaitsInOrder, p, new

(***************************************************************************)
(* Every way stands somewhere in the queue, so none has waited total       *)
(* selections.                                                             *)
(***************************************************************************)
LEMMA WaitsAreShort ==
  ASSUME NEW t \in Nat \ {0}, NEW q, NEW f, Circular(t, q, f),
         NEW waits, WaitsInOrder(t, q, waits), NEW w \in 0 .. t - 1
  PROVE  waits[w] < t
<1>1. f \in Int /\ 0 <= f /\ f < t
  BY DEF Circular
<1>2. \E i \in 1 .. t : Wrapped(f + i - 1, t) = w
  <2>1. CASE w >= f
    <3>1. w - f + 1 \in 1 .. t /\ Wrapped(f + (w - f + 1) - 1, t) = w
      BY <1>1, <2>1 DEF Wrapped
    <3> QED  BY <3>1
  <2>2. CASE w < f
    <3>1. w + t - f + 1 \in 1 .. t /\ Wrapped(f + (w + t - f + 1) - 1, t) = w
      BY <1>1, <2>2 DEF Wrapped
    <3> QED  BY <3>1
  <2> QED  BY <1>1, <2>1, <2>2
<1>3. PICK i \in 1 .. t : q[i] = w
  BY <1>2 DEF Circular
<1>4. waits[w] <= t - i /\ waits[w] \in Nat
  BY <1>3 DEF WaitsInOrder
<1> QED  BY <1>4

-----------------------------------------------------------------------------
(***************************************************************************)
(* Induction over the natural numbers, in the form the provers can use.    *)
(***************************************************************************)
LEMMA LeastNumber ==
  ASSUME NEW T \in SUBSET Nat, T # {}
  PROVE  \E n \in T : \A m \in T : n <= m
<1>1. PICK n \in T : \A m \in T : <<m, n>> \notin OpToRel(<, Nat)
  BY NatLessThanWellFounded, WFMin
<1>2. \A m \in T : ~(m < n)
  BY <1>1 DEF OpToRel
<1> QED  BY <1>2

-----------------------------------------------------------------------------
(***************************************************************************)
(* PLRURepl.  Node n of the tree is visited in every period[n]-th          *)
(* selection, and next when due[n] more selections have passed it by: each *)
(* inner node sends every other visit to either child, the next one to the *)
(* child its bit points to.                                                *)
(***************************************************************************)
ChildDue(t, bits, period, due, p, b) ==
  /\ period[2 * p + b + 1] = 2 * period[p]
  /\ due[2 * p + b + 1] = due[p] + (IF b = bits[p] THEN 0 ELSE period[p])

ScheduledTo(m, t, bits, period, due) ==
  /\ period \in [0 .. 2 * t - 2 -> Nat] /\ period[0] = 1
  /\ due \in [0 .. 2 * t - 2 -> Nat] /\ due[0] = 0
  /\ \A p \in 0 .. t - 2 : \A b \in {0, 1} :
       2 * p + b + 1 <= m => ChildDue(t, bits, period, due, p, b)

Scheduled(t, bits, period, due) == ScheduledTo(2 * t - 2, t, bits, period, due)

(***************************************************************************)
(* Every node but the root is a child of an inner node before it.          *)
(***************************************************************************)
LEMMA NodeHasParent ==
  ASSUME NEW t \in Nat \ {0}, NEW n \in 1 .. 2 * t - 2
  PROVE  \E p \in 0 .. t - 2 : \E b \in {0, 1} :
           n = 2 * p + b + 1 /\ p = (n - 1) \div 2 /\ p < n
<1> DEFINE p == (n - 1) \div 2
           b == n - 1 - 2 * p
<1>1. p \in 0 .. t - 2 /\ b \in {0, 1} /\ n = 2 * p + b + 1 /\ p < n
  OBVIOUS
<1> HIDE DEF b
<1> QED  BY <1>1

(***************************************************************************)
(* In a schedule, both children of every inner node are due as its bit     *)
(* says.                                                                   *)
(***************************************************************************)
LEMMA ChildrenAreDue ==
  ASSUME NEW t \in Nat \ {0}, NEW bits, NEW period, NEW due,
         Scheduled(t, bits, period, due), NEW p \in 0 .. t - 2, NEW b \in {0, 1}
  PROVE  ChildDue(t, bits, period, due, p, b)
<1>1. 2 * p + b + 1 <= 2 * t - 2
  OBVIOUS
<1> QED  BY <1>1 DEF Scheduled, ScheduledTo

(***************************************************************************)
(* There is a schedule for every tree and every setting of its bits.       *)
(***************************************************************************)
LEMMA ScheduleExists ==
  ASSUME NEW t \in Nat \ {0}, NEW bits
  PROVE  \E period, due : Scheduled(t, bits, period, due)
<1> DEFINE last == 2 * t - 2
           Good(m) == \E period, due : ScheduledTo(m, t, bits, period, due)
           Bad == {m \in 0 .. last : ~Good(m)}
<1>1. Good(0)
  <2> DEFINE period == [n \in 0 .. last |-> IF n = 0 THEN 1 ELSE 0]
             due == [n \in 0 .. last |-> 0]
  <2>1. ScheduledTo(0, t, bits, period, due)
    BY DEF ScheduledTo
  <2> QED  BY <2>1
<1>2. ASSUME NEW m \in 0 .. last - 1, Good(m)
      PROVE  Good(m + 1)
  <2>1. PICK period, due : ScheduledTo(m, t, bits, period, due)
    BY <1>2
  <2>2. m + 1 \in 1 .. 2 * t - 2
    OBVIOUS
  <2>3. PICK p \in 0 .. t - 2 : \E b \in {0, 1} :
               m + 1 = 2 * p + b + 1 /\ p = (m + 1 - 1) \div 2 /\ p < m + 1
    BY <2>2, NodeHasParent
  <2>4. PICK b \in {0, 1} : m + 1 = 2 * p + b + 1 /\ p < m + 1
    BY <2>3
  <2> DEFINE period2 == [period EXCEPT ![m + 1] = 2 * period[p]]
             due2 == [due EXCEPT ![m + 1] =
                        due[p] + (IF b = bits[p] THEN 0 ELSE period[p])]
  <2>5. /\ period2 \in [0 .. last -> Nat] /\ due2 \in [0 .. last -> Nat]
        /\ period2[m + 1] = 2 * period[p]
        /\ due2[m + 1] = due[p] + (IF b = bits[p] THEN 0 ELSE period[p])
        /\ \A n \in 0 .. last : n # m + 1 => period2[n] = period[n] /\ due2[n] = due[n]
    BY <2>1, <2>2, <2>4 DEF ScheduledTo
  <2> HIDE DEF period2, due2
  <2>6. ASSUME NEW q \in 0 .. t - 2, NEW c \in {0, 1}, 2 * q + c + 1 <= m + 1
        PROVE  ChildDue(t, bits, period2, due2, q, c)
    <3>1. /\ q \in 0 .. last /\ 2 * q + c + 1 \in 0 .. last /\ q # m + 1
          /\ p \in 0 .. last /\ p # m + 1
      BY <2>4, <2>6
    <3>2. CASE 2 * q + c + 1 = m + 1
      <4>1. q = p /\ c = b
        BY <2>4, <3>2
      <4> QED  BY <2>4, <2>5, <3>1, <4>1 DEF ChildDue
    <3>3. CASE 2 * q + c + 1 # m + 1
      <4>1. 2 * q + c + 1 <= m
        BY <2>6, <3>3
      <4>2. ChildDue(t, bits, period, due, q, c)
        BY <2>1, <4>1 DEF ScheduledTo
      <4> QED  BY <2>5, <3>1, <3>3, <4>2 DEF ChildDue
    <3> QED  BY <3>2, <3>3
  <2>7. period2[0] = 1 /\ due2[0] = 0
    <3>1. 0 \in 0 .. last /\ 0 # m + 1 /\ period[0] = 1 /\ due[0] = 0
      BY <2>1, <2>2 DEF ScheduledTo
    <3> QED  BY <2>5, <3>1
  <2>8. ScheduledTo(m + 1, t, bits, period2, due2)
    BY <2>5, <2>6, <2>7 DEF ScheduledTo
  <2> QED  BY <2>8
<1> HIDE DEF Good
<1>3. Bad = {}
  <2> SUFFICES ASSUME Bad # {}
               PROVE  FALSE
    OBVIOUS
  <2>1. PICK n \in Bad : \A m \in Bad : n <= m
    <3>1. Bad \in SUBSET Nat
      OBVIOUS
    <3> HIDE DEF Bad
    <3> QED  BY <3>1, LeastNumber
  <2>2. n # 0
    BY <1>1
  <2>3. n - 1 \in 0 .. last - 1 /\ n - 1 \notin Bad /\ (n - 1) + 1 = n
    BY <2>1, <2>2
  <2>4. Good(n)
    BY <1>2, <2>3
  <2> QED  BY <2>4
<1>4. Good(last)
  BY <1>3
<1> QED  BY <1>4 DEF Good, Scheduled

(***************************************************************************)
(* Powers of two, which are the numbers of subsets of finite sets.         *)
(***************************************************************************)
LEMMA PowersOfTwo ==
  ASSUME NEW k \in Nat
  PROVE  2 ^ k \in Nat \ {0} /\ 2 ^ 0 = 1 /\ 2 ^ (k + 1) = 2 * 2 ^ k
<1> DEFINE Old == SUBSET (1 .. k)
           New == {S \cup {k + 1} : S \in Old}
           All == SUBSET (1 .. k + 1)
<1>1. /\ IsFiniteSet(1 .. k) /\ Cardinality(1 .. k) = k
      /\ IsFiniteSet(1 .. k + 1) /\ Cardinality(1 .. k + 1) = k + 1
  BY FS_Interval
<1>2. /\ IsFiniteSet(Old) /\ Cardinality(Old) = 2 ^ k
      /\ IsFiniteSet(All) /\ Cardinality(All) = 2 ^ (k + 1)
  BY <1>1, FS_SUBSET
<1>3. 2 ^ 0 = 1
  <2>1. IsFiniteSet({}) /\ Cardinality({}) = 0
    BY FS_EmptySet
  <2>2. Cardinality(SUBSET {}) = 2 ^ 0
    BY <2>1, FS_SUBSET
  <2>3. SUBSET {} = {{}}
    OBVIOUS
  <2> QED  BY <2>2, <2>3, FS_Singleton
<1>4. All = Old \cup New
  <2>1. ASSUME NEW S \in All
        PROVE  S \in Old \cup New
    <3>1. CASE k + 1 \in S
      <4>1. S \ {k + 1} \in Old /\ S = (S \ {k + 1}) \cup {k + 1}
        BY <3>1
      <4> QED  BY <4>1
    <3>2. CASE k + 1 \notin S
      BY <3>2
    <3> QED  BY <3>1, <3>2
  <2>2. ASSUME NEW S \in Old
        PROVE  S \in All /\ S \cup {k + 1} \in All
    OBVIOUS
  <2> HIDE DEF Old, All
  <2>3. \A T \in New : T \in All
    BY <2>2
  <2> HIDE DEF New
  <2>4. All \subseteq Old \cup New
    BY <2>1
  <2>5. Old \subseteq All /\ New \subseteq All
    BY <2>2, <2>3
  <2> QED  BY <2>4, <2>5
<1>5. Old \cap New = {}
  <2>1. k + 1 \notin 1 .. k
    OBVIOUS
  <2> QED  BY <2>1
<1>6. ExistsBijection(Old, New)
  <2> DEFINE f == [S \in Old |-> S \cup {k + 1}]
  <2>1. \A S \in Old : k + 1 \notin S
    OBVIOUS
  <2>2. \A S, T \in Old : S \cup {k + 1} = T \cup {k + 1} => S = T
    BY <2>1
  <2>3. /\ f \in [Old -> New]
        /\ \A S \in Old : f[S] = S \cup {k + 1}
        /\ \A T \in New : \E S \in Old : f[S] = T
    OBVIOUS
  <2> HIDE DEF f, Old, New
  <2>4. f \in Bijection(Old, New)
    BY <2>2, <2>3 DEF Bijection, Injection, Surjection, IsInjective
  <2> QED  BY <2>4 DEF ExistsBijection
<1> HIDE DEF Old, New, All
<1>7. IsFiniteSet(New) /\ Cardinality(New) = Cardinality(Old)
  BY <1>2, <1>6, FS_Bijection
<1>8. Cardinality(All) = Cardinality(Old) + Cardinality(New)
  <2>1. Cardinality(Old \cap New) = 0
    BY <1>5, FS_EmptySet
  <2>2. Cardinality(Old) \in Nat /\ Cardinality(New) \in Nat
    BY <1>2, <1>7, FS_CardinalityType
  <2>3. Cardinality(Old \cup New) =
          Cardinality(Old) + Cardinality(New) - Cardinality(Old \cap New)
    BY <1>2, <1>7, FS_Union
  <2> QED  BY <1>4, <2>1, <2>2, <2>3
<1>9. Cardinality(Old) \in Nat /\ Cardinality(Old) # 0
  <2>1. {} \in Old
    BY DEF Old
  <2> QED  BY <1>2, <2>1, FS_EmptySet, FS_CardinalityType
<1> QED  BY <1>2, <1>3, <1>7, <1>8, <1>9

(***************************************************************************)
(* The periods are powers of two, no node is deeper than its number says,  *)
(* and no node is due later than its period.                               *)
(***************************************************************************)
PeriodOK(period, due, n) ==
  /\ \E k \in Nat : period[n] = 2 ^ k
  /\ period[n] >= 1 /\ period[n] <= n + 1
  /\ due[n] < period[n]

(***************************************************************************)
(* This holds of every node, by induction over the nodes.                  *)
(***************************************************************************)
LEMMA PeriodsAreOK ==
  ASSUME NEW t \in Nat \ {0}, NEW bits, NEW period, NEW due,
         Scheduled(t, bits, period, due)
  PROVE  \A n \in 0 .. 2 * t - 2 : PeriodOK(period, due, n)
<1> DEFINE Bad == {n \in 0 .. 2 * t - 2 : ~PeriodOK(period, due, n)}
<1>1. Bad \in SUBSET Nat
  OBVIOUS
<1>2. ASSUME NEW n \in 0 .. 2 * t - 2, \A m \in Bad : n <= m
      PROVE  PeriodOK(period, due, n)
  <2>1. CASE n = 0
    <3>1. period[0] = 1 /\ due[0] = 0
      BY DEF Scheduled, ScheduledTo
    <3>2. 0 \in Nat /\ period[0] = 2 ^ 0
      BY <3>1, PowersOfTwo
    <3>3. \E k \in Nat : period[0] = 2 ^ k
      BY <3>2
    <3> QED  BY <2>1, <3>1, <3>3 DEF PeriodOK
  <2>2. CASE n # 0
    <3>1. n \in 1 .. 2 * t - 2
      BY <2>2
    <3>2. PICK p \in 0 .. t - 2, b \in {0, 1} : n = 2 * p + b + 1 /\ p < n
      BY <3>1, NodeHasParent
    <3>3. p \in 0 .. 2 * t - 2 /\ p \notin Bad
      BY <1>2, <3>2
    <3>4. PeriodOK(period, due, p)
      BY <3>3
    <3>5. /\ period[n] = 2 * period[p]
          /\ due[n] = due[p] + (IF b = bits[p] THEN 0 ELSE period[p])
      BY <3>2, ChildrenAreDue DEF ChildDue
    <3>6. period[p] \in Nat /\ due[p] \in Nat
      BY <3>3 DEF Scheduled, ScheduledTo
    <3>7. PICK k \in Nat : period[p] = 2 ^ k
      BY <3>4 DEF PeriodOK
    <3>8. k + 1 \in Nat /\ period[n] = 2 ^ (k + 1)
      BY <3>5, <3>7, PowersOfTwo
    <3>9. due[n] < period[n] /\ period[n] >= 1 /\ period[n] <= n + 1
      <4>1. /\ period[p] >= 1 /\ period[p] <= p + 1 /\ due[p] < period[p]
        BY <3>4 DEF PeriodOK
      <4> QED  BY <3>2, <3>5, <3>6, <4>1
    <3> QED  BY <3>8, <3>9 DEF PeriodOK
  <2> QED  BY <2>1, <2>2
<1>3. Bad = {}
  <2> SUFFICES ASSUME Bad # {}
               PROVE  FALSE
    OBVIOUS
  <2>1. PICK n \in Bad : \A m \in Bad : n <= m
    <3> HIDE DEF Bad
    <3> QED  BY <1>1, LeastNumber
  <2> QED  BY <1>2, <2>1
<1> QED  BY <1>3

(***************************************************************************)
(* The nodes that are due now are the path select walks: the root, and of  *)
(* each inner node on the path the child its bit points to.                *)
(***************************************************************************)
DueNow(t, due) == {n \in 0 .. 2 * t - 2 : due[n] = 0}

TreeBits(t) == [0 .. t - 2 -> {0, 1}]

(***************************************************************************)
(* A child is due now when its parent is and the bit points to it.         *)
(***************************************************************************)
LEMMA ChildIsDue ==
  ASSUME NEW t \in Nat \ {0}, NEW bits \in TreeBits(t), NEW period, NEW due,
         Scheduled(t, bits, period, due), NEW p \in 0 .. t - 2, NEW b \in {0, 1}
  PROVE  2 * p + b + 1 \in DueNow(t, due) <=> p \in DueNow(t, due) /\ b = bits[p]
<1>1. p \in 0 .. 2 * t - 2 /\ 2 * p + b + 1 \in 0 .. 2 * t - 2
  OBVIOUS
<1>2. due[2 * p + b + 1] = due[p] + (IF b = bits[p] THEN 0 ELSE period[p])
  BY ChildrenAreDue DEF ChildDue
<1>3. due[p] \in Nat /\ period[p] \in Nat /\ period[p] >= 1
  BY <1>1, PeriodsAreOK DEF Scheduled, ScheduledTo, PeriodOK
<1> QED  BY <1>1, <1>2, <1>3 DEF DueNow

(***************************************************************************)
(* Of two nodes on the path, the first is an inner node whose successor on *)
(* the path is not beyond the second.                                      *)
(***************************************************************************)
LEMMA PathIsChain ==
  ASSUME NEW t \in Nat \ {0}, NEW bits \in TreeBits(t), NEW period, NEW due,
         Scheduled(t, bits, period, due)
  PROVE  \A n \in DueNow(t, due) : \A m \in DueNow(t, due) :
           m < n => m <= t - 2 /\ 2 * m + bits[m] + 1 <= n
<1> DEFINE path == DueNow(t, due)
           Chain(n) == \A m \in path : m < n => m <= t - 2 /\ 2 * m + bits[m] + 1 <= n
           Bad == {n \in path : ~Chain(n)}
<1>1. path \in SUBSET Nat /\ path \subseteq 0 .. 2 * t - 2
  BY DEF DueNow
<1>2. ASSUME NEW n \in path, \A m \in Bad : n <= m
      PROVE  Chain(n)
  <2> SUFFICES ASSUME NEW m \in path, m < n
               PROVE  m <= t - 2 /\ 2 * m + bits[m] + 1 <= n
    OBVIOUS
  <2>1. n \in 1 .. 2 * t - 2 /\ m \in Nat
    BY <1>1
  <2>2. PICK p \in 0 .. t - 2, b \in {0, 1} : n = 2 * p + b + 1 /\ p < n
    BY <2>1, NodeHasParent
  <2>3. p \in path /\ b = bits[p]
    BY <2>2, ChildIsDue
  <2>4. CASE m = p
    BY <2>2, <2>3, <2>4
  <2>5. CASE m < p
    <3>1. p \notin Bad
      BY <1>2, <2>1, <2>2
    <3>2. m <= t - 2 /\ 2 * m + bits[m] + 1 <= p
      BY <2>3, <2>5, <3>1
    <3>3. m \in 0 .. t - 2
      BY <2>1, <3>2
    <3>4. bits[m] \in {0, 1}
      BY <3>3 DEF TreeBits
    <3> QED  BY <2>1, <2>2, <3>2, <3>4
  <2>6. CASE p < m
    <3>1. m \notin Bad
      BY <1>2, <2>1
    <3>2. 2 * p + bits[p] + 1 <= m
      BY <2>3, <2>6, <3>1
    <3> QED  BY <2>1, <2>2, <2>3, <3>2
  <2> QED  BY <2>1, <2>4, <2>5, <2>6
<1>3. Bad = {}
  <2> SUFFICES ASSUME Bad # {}
               PROVE  FALSE
    OBVIOUS
  <2>1. Bad \in SUBSET Nat
    BY <1>1
  <2>2. PICK n \in Bad : \A m \in Bad : n <= m
    <3> HIDE DEF Bad
    <3> QED  BY <2>1, LeastNumber
  <2> QED  BY <1>2, <2>2
<1> QED  BY <1>3

(***************************************************************************)
(* The path ends in a way, and in one only.                                *)
(***************************************************************************)
LEMMA PathHasOneLeaf ==
  ASSUME NEW t \in Nat \ {0}, NEW bits \in TreeBits(t), NEW period, NEW due,
         Scheduled(t, bits, period, due)
  PROVE  /\ \E n \in DueNow(t, due) : n \notin 0 .. t - 2
         /\ \A m, n \in DueNow(t, due) :
              m \notin 0 .. t - 2 /\ n \notin 0 .. t - 2 => m = n
<1> DEFINE path == DueNow(t, due)
           Behind == {2 * t - 2 - n : n \in path}
<1>1. path \subseteq 0 .. 2 * t - 2 /\ 0 \in path
  BY DEF DueNow, Scheduled, ScheduledTo
<1>2. Behind \in SUBSET Nat /\ Behind # {}
  BY <1>1
<1>3. PICK d \in Behind : \A e \in Behind : d <= e
  <2> HIDE DEF Behind
  <2> QED  BY <1>2, LeastNumber
<1>4. PICK n \in path : d = 2 * t - 2 - n
  BY <1>3
<1>5. \A m \in path : m <= n
  <2> TAKE m \in path
  <2>1. d <= 2 * t - 2 - m
    BY <1>3
  <2> QED  BY <1>1, <1>4, <2>1
<1>6. n \notin 0 .. t - 2
  <2> SUFFICES ASSUME n \in 0 .. t - 2
               PROVE  FALSE
    OBVIOUS
  <2>1. bits[n] \in {0, 1}
    BY DEF TreeBits
  <2>2. 2 * n + bits[n] + 1 \in path
    BY <2>1, ChildIsDue
  <2> QED  BY <1>5, <2>1, <2>2
<1>7. \A l \in path : l \notin 0 .. t - 2 => l \in Nat /\ ~(l <= t - 2)
  BY <1>1
<1>8. ASSUME NEW l \in path, NEW m \in path, l \notin 0 .. t - 2, m \notin 0 .. t - 2
      PROVE  l = m
  <2>1. ~(l < m) /\ ~(m < l)
    BY <1>7, <1>8, PathIsChain
  <2> QED  BY <1>7, <1>8, <2>1
<1> QED  BY <1>6, <1>8

(***************************************************************************)
(* The path of the code is the nodes that are due: both are the root and,  *)
(* below a node they hold, the child its bit points to.                    *)
(***************************************************************************)
OnPath(t, bits, f, n) ==
  \/ n = 0
  \/ LET parent == (n - 1) \div 2
     IN  f[parent] /\ n = 2 * parent + bits[parent] + 1

(***************************************************************************)
(* A function that satisfies the definition of the path of PLRUPath is     *)
(* true of the nodes that are due, by induction over the nodes.            *)
(***************************************************************************)
LEMMA PathIsDueNow ==
  ASSUME NEW t \in Nat \ {0}, NEW bits \in TreeBits(t), NEW period, NEW due,
         Scheduled(t, bits, period, due),
         NEW f, f = [n \in 0 .. 2 * t - 2 |-> OnPath(t, bits, f, n)]
  PROVE  \A n \in 0 .. 2 * t - 2 : f[n] <=> n \in DueNow(t, due)
<1> DEFINE Bad == {n \in 0 .. 2 * t - 2 : ~(f[n] <=> n \in DueNow(t, due))}
<1>1. Bad \in SUBSET Nat
  OBVIOUS
<1>2. ASSUME NEW n \in 0 .. 2 * t - 2, \A m \in Bad : n <= m
      PROVE  f[n] <=> n \in DueNow(t, due)
  <2>1. f[n] <=> OnPath(t, bits, f, n)
    OBVIOUS
  <2>2. CASE n = 0
    BY <2>1, <2>2 DEF OnPath, DueNow, Scheduled, ScheduledTo
  <2>3. CASE n # 0
    <3>1. n \in 1 .. 2 * t - 2
      BY <2>3
    <3>2. PICK p \in 0 .. t - 2, b \in {0, 1} :
               n = 2 * p + b + 1 /\ p = (n - 1) \div 2 /\ p < n
      BY <3>1, NodeHasParent
    <3>3. p \in 0 .. 2 * t - 2 /\ p \notin Bad
      BY <1>2, <3>2
    <3>4. f[p] <=> p \in DueNow(t, due)
      BY <3>3
    <3>5. n \in DueNow(t, due) <=> p \in DueNow(t, due) /\ b = bits[p]
      BY <3>2, ChildIsDue
    <3>6. OnPath(t, bits, f, n) <=> f[p] /\ n = 2 * p + bits[p] + 1
      BY <2>3, <3>2 DEF OnPath
    <3>7. bits[p] \in {0, 1}
      BY DEF TreeBits
    <3>8. n = 2 * p + bits[p] + 1 <=> b = bits[p]
      BY <3>2, <3>7
    <3> QED  BY <2>1, <3>4, <3>5, <3>6, <3>8
  <2> QED  BY <2>2, <2>3
<1>3. Bad = {}
  <2> SUFFICES ASSUME Bad # {}
               PROVE  FALSE
    OBVIOUS
  <2>1. PICK n \in Bad : \A m \in Bad : n <= m
    <3> HIDE DEF Bad
    <3> QED  BY <1>1, LeastNumber
  <2> QED  BY <1>2, <2>1
<1> QED  BY <1>3

(***************************************************************************)
(* There is such a function, so CHOOSE finds one.                          *)
(***************************************************************************)
LEMMA PathExists ==
  ASSUME NEW t \in Nat \ {0}, NEW bits \in TreeBits(t), NEW period, NEW due,
         Scheduled(t, bits, period, due)
  PROVE  LET f == [n \in 0 .. 2 * t - 2 |-> n \in DueNow(t, due)]
         IN  f = [n \in 0 .. 2 * t - 2 |-> OnPath(t, bits, f, n)]
<1> DEFINE f == [n \in 0 .. 2 * t - 2 |-> n \in DueNow(t, due)]
<1>1. ASSUME NEW n \in 0 .. 2 * t - 2
      PROVE  n \in DueNow(t, due) <=> OnPath(t, bits, f, n)
  <2>1. CASE n = 0
    BY <2>1 DEF OnPath, DueNow, Scheduled, ScheduledTo
  <2>2. CASE n # 0
    <3>1. n \in 1 .. 2 * t - 2
      BY <2>2
    <3>2. PICK p \in 0 .. t - 2, b \in {0, 1} :
               n = 2 * p + b + 1 /\ p = (n - 1) \div 2 /\ p < n
      BY <3>1, NodeHasParent
    <3>3. f[p] <=> p \in DueNow(t, due)
      <4>1. p \in 0 .. 2 * t - 2
        BY <3>2
      <4> QED  BY <4>1, Zenon
    <3>4. n \in DueNow(t, due) <=> p \in DueNow(t, due) /\ b = bits[p]
      BY <3>2, ChildIsDue
    <3> HIDE DEF f
    <3>5. OnPath(t, bits, f, n) <=> f[p] /\ n = 2 * p + bits[p] + 1
      BY <2>2, <3>2 DEF OnPath
    <3>6. bits[p] \in {0, 1}
      BY DEF TreeBits
    <3>7. n = 2 * p + bits[p] + 1 <=> b = bits[p]
      BY <3>2, <3>6
    <3> QED  BY <3>3, <3>4, <3>5, <3>7
  <2> QED  BY <2>1, <2>2
<1>2. \A n \in 0 .. 2 * t - 2 : (n \in DueNow(t, due)) = OnPath(t, bits, f, n)
  <2> TAKE n \in 0 .. 2 * t - 2
  <2> HIDE DEF f
  <2>1. n \in DueNow(t, due) <=> OnPath(t, bits, f, n)
    BY <1>1 DEF f
  <2> DEFINE d == n \in DueNow(t, due)
             o == OnPath(t, bits, f, n)
  <2>2. d \in BOOLEAN /\ o \in BOOLEAN
    BY DEF OnPath
  <2>3. d <=> o
    BY <2>1
  <2> HIDE DEF d, o
  <2>4. d = o
    BY <2>2, <2>3
  <2> QED  BY <2>4 DEF d, o
<1> QED  BY <1>2, Zenon

(***************************************************************************)
(* The path select walks is the set of nodes that are due now.             *)
(***************************************************************************)
LEMMA CodePathIsDueNow ==
  ASSUME total \in Nat \ {0}, NEW bits \in TreeBits(total), NEW period, NEW due,
         Scheduled(total, bits, period, due)
  PROVE  R!PLRUPath(bits) = DueNow(total, due)
<1> DEFINE Path(f) == f = [n \in 0 .. 2 * total - 2 |-> OnPath(total, bits, f, n)]
           g == CHOOSE f : Path(f)
<1>1. \E f : Path(f)
  BY PathExists
<1>2. Path(g)
  BY <1>1
<1>3. R!PLRUPath(bits) = {n \in 0 .. 2 * total - 2 : g[n]}
  BY DEF R!PLRUPath, R!Nodes, OnPath
<1> HIDE DEF g
<1>4. \A n \in 0 .. 2 * total - 2 : g[n] <=> n \in DueNow(total, due)
  BY <1>2, PathIsDueNow
<1> QED  BY <1>3, <1>4 DEF DueNow

(***************************************************************************)
(* A selection flips the bits on its path: what was due now is due again   *)
(* after its period, everything else one selection earlier.                *)
(***************************************************************************)
Flipped(t, bits, due) ==
  [n \in 0 .. t - 2 |-> IF n \in DueNow(t, due) THEN 1 - bits[n] ELSE bits[n]]

DueNext(t, period, due) ==
  [n \in 0 .. 2 * t - 2 |-> IF due[n] = 0 THEN period[n] - 1 ELSE due[n] - 1]

(***************************************************************************)
(* The tree with the flipped bits follows the schedule one selection on.   *)
(***************************************************************************)
LEMMA FlippingKeepsSchedule ==
  ASSUME NEW t \in Nat \ {0}, NEW bits \in TreeBits(t), NEW period, NEW due,
         Scheduled(t, bits, period, due)
  PROVE  Scheduled(t, Flipped(t, bits, due), period, DueNext(t, period, due))
<1> DEFINE bits2 == Flipped(t, bits, due)
           due2 == DueNext(t, period, due)
<1>1. \A n \in 0 .. 2 * t - 2 :
        period[n] \in Nat /\ due[n] \in Nat /\ period[n] >= 1 /\ due[n] < period[n]
  BY PeriodsAreOK DEF Scheduled, ScheduledTo, PeriodOK
<1>2. \A n \in 0 .. 2 * t - 2 :
        due2[n] = IF due[n] = 0 THEN period[n] - 1 ELSE due[n] - 1
  BY DEF DueNext
<1>3. due2 \in [0 .. 2 * t - 2 -> Nat]
  BY <1>1 DEF DueNext
<1>4. \A p \in 0 .. t - 2 :
        bits2[p] = IF due[p] = 0 THEN 1 - bits[p] ELSE bits[p]
  BY DEF Flipped, DueNow
<1> HIDE DEF bits2, due2
<1>5. ASSUME NEW p \in 0 .. t - 2, NEW b \in {0, 1}
      PROVE  ChildDue(t, bits2, period, due2, p, b)
  <2> DEFINE c == 2 * p + b + 1
  <2>1. p \in 0 .. 2 * t - 2 /\ c \in 0 .. 2 * t - 2
    OBVIOUS
  <2>2. /\ period[c] = 2 * period[p]
        /\ due[c] = due[p] + (IF b = bits[p] THEN 0 ELSE period[p])
    BY ChildrenAreDue DEF ChildDue
  <2>3. bits[p] \in {0, 1}
    BY DEF TreeBits
  <2> HIDE DEF c
  <2>4. CASE due[p] = 0
    <3>1. due2[p] = period[p] - 1 /\ (b = bits2[p] <=> b # bits[p])
      BY <1>2, <1>4, <2>1, <2>3, <2>4
    <3>2. due2[c] = IF b = bits[p] THEN period[c] - 1 ELSE period[p] - 1
      BY <1>1, <1>2, <2>1, <2>2, <2>4
    <3>3. due2[c] = due2[p] + (IF b = bits2[p] THEN 0 ELSE period[p])
      BY <1>1, <2>1, <2>2, <3>1, <3>2
    <3> QED  BY <2>2, <3>3 DEF ChildDue, c
  <2>5. CASE due[p] # 0
    <3>1. due2[p] = due[p] - 1 /\ bits2[p] = bits[p]
      BY <1>2, <1>4, <2>1, <2>5
    <3>2. due2[c] = due[c] - 1
      BY <1>1, <1>2, <2>1, <2>2, <2>5
    <3>3. due2[c] = due2[p] + (IF b = bits2[p] THEN 0 ELSE period[p])
      BY <1>1, <2>1, <2>2, <3>1, <3>2
    <3> QED  BY <2>2, <3>3 DEF ChildDue, c
  <2> QED  BY <2>4, <2>5
<1>6. period \in [0 .. 2 * t - 2 -> Nat] /\ period[0] = 1 /\ due[0] = 0
  BY DEF Scheduled, ScheduledTo
<1>7. due2[0] = 0
  BY <1>2, <1>6
<1>8. Scheduled(t, bits2, period, due2)
  BY <1>3, <1>5, <1>6, <1>7 DEF Scheduled, ScheduledTo
<1> QED  BY <1>8 DEF bits2, due2

(***************************************************************************)
(* The inductive invariant of PLRURepl: what a way has waited and what it  *)
(* is still to wait are together less than its period.                     *)
(***************************************************************************)
WaitsAsScheduled(t, waits, period, due) ==
  \A w \in 0 .. t - 1 : waits[w] + due[w + t - 1] < period[w + t - 1]

TreeInv(t, bits, waits) ==
  /\ bits \in TreeBits(t)
  /\ waits \in [0 .. t - 1 -> Nat]
  /\ \E period, due : /\ Scheduled(t, bits, period, due)
                      /\ WaitsAsScheduled(t, waits, period, due)

(***************************************************************************)
(* No way has waited when the object is constructed.                       *)
(***************************************************************************)
LEMMA InitialTree ==
  ASSUME NEW t \in Nat \ {0}
  PROVE  TreeInv(t, [n \in 0 .. t - 2 |-> 0], [w \in 0 .. t - 1 |-> 0])
<1> DEFINE bits == [n \in 0 .. t - 2 |-> 0]
           waits == [w \in 0 .. t - 1 |-> 0]
<1>1. PICK period, due : Scheduled(t, bits, period, due)
  BY ScheduleExists
<1>2. bits \in TreeBits(t) /\ waits \in [0 .. t - 1 -> Nat]
  BY DEF TreeBits
<1>3. \A w \in 0 .. t - 1 : waits[w] = 0
  OBVIOUS
<1> HIDE DEF bits, waits
<1>4. WaitsAsScheduled(t, waits, period, due)
  <2> SUFFICES ASSUME NEW w \in 0 .. t - 1
               PROVE  waits[w] + due[w + t - 1] < period[w + t - 1]
    BY DEF WaitsAsScheduled
  <2>1. w + t - 1 \in 0 .. 2 * t - 2
    OBVIOUS
  <2>2. due[w + t - 1] < period[w + t - 1] /\ due[w + t - 1] \in Nat
    BY <1>1, <2>1, PeriodsAreOK DEF PeriodOK, Scheduled, ScheduledTo
  <2> QED  BY <1>3, <2>2
<1>5. TreeInv(t, bits, waits)
  BY <1>1, <1>2, <1>4 DEF TreeInv
<1> QED  BY <1>5 DEF bits, waits

(***************************************************************************)
(* A selection keeps the invariant.                                        *)
(***************************************************************************)
LEMMA SelectionKeepsTree ==
  ASSUME NEW t \in Nat \ {0}, NEW bits, NEW waits, NEW period, NEW due,
         bits \in TreeBits(t), waits \in [0 .. t - 1 -> Nat],
         Scheduled(t, bits, period, due), WaitsAsScheduled(t, waits, period, due),
         NEW leaf \in DueNow(t, due), leaf \notin 0 .. t - 2
  PROVE  TreeInv(t, Flipped(t, bits, due), Restarted(t, waits, leaf - (t - 1)))
<1> DEFINE bits2 == Flipped(t, bits, due)
           due2 == DueNext(t, period, due)
           way == leaf - (t - 1)
           waits2 == Restarted(t, waits, way)
<1>1. Scheduled(t, bits2, period, due2)
  BY FlippingKeepsSchedule
<1>2. bits2 \in TreeBits(t)
  BY DEF Flipped, TreeBits
<1>3. /\ waits2 \in [0 .. t - 1 -> Nat]
      /\ \A w \in 0 .. t - 1 : waits2[w] = IF w = way THEN 0 ELSE waits[w] + 1
  BY DEF Restarted
<1>4. \A n \in 0 .. 2 * t - 2 :
        due2[n] = IF due[n] = 0 THEN period[n] - 1 ELSE due[n] - 1
  BY DEF DueNext
<1> HIDE DEF bits2, due2, waits2
<1>5. ASSUME NEW w \in 0 .. t - 1
      PROVE  waits2[w] + due2[w + t - 1] < period[w + t - 1]
  <2> DEFINE n == w + t - 1
  <2>1. n \in 0 .. 2 * t - 2 /\ n \notin 0 .. t - 2 /\ w = n - (t - 1)
    OBVIOUS
  <2>2. /\ due[n] \in Nat /\ period[n] \in Nat /\ due[n] < period[n] /\ period[n] >= 1
        /\ waits[w] \in Nat /\ waits[w] + due[n] < period[n]
    BY <2>1, PeriodsAreOK DEF PeriodOK, Scheduled, ScheduledTo, WaitsAsScheduled
  <2>3. leaf \in 0 .. 2 * t - 2 /\ (n = leaf <=> w = way)
    BY <2>1 DEF DueNow
  <2>4. n = leaf <=> due[n] = 0
    BY <2>1, PathHasOneLeaf DEF DueNow
  <2> HIDE DEF n, way
  <2>5. CASE due[n] = 0
    <3>1. waits2[w] = 0 /\ due2[n] = period[n] - 1
      BY <1>3, <1>4, <2>1, <2>3, <2>4, <2>5
    <3> QED  BY <2>2, <3>1 DEF n
  <2>6. CASE due[n] # 0
    <3>1. waits2[w] = waits[w] + 1 /\ due2[n] = due[n] - 1
      BY <1>3, <1>4, <2>1, <2>3, <2>4, <2>6
    <3> QED  BY <2>2, <3>1 DEF n
  <2> QED  BY <2>5, <2>6
<1>6. WaitsAsScheduled(t, waits2, period, due2)
  BY <1>5 DEF WaitsAsScheduled
<1>7. TreeInv(t, bits2, waits2)
  BY <1>1, <1>2, <1>3, <1>6 DEF TreeInv
<1> QED  BY <1>7 DEF bits2, waits2

-----------------------------------------------------------------------------
(***************************************************************************)
(* The bound on the waits: RoundOf(t) is the least power of two that is    *)
(* not below t, and every period is a power of two below 2t.               *)
(***************************************************************************)
LEMMA PowersGrow ==
  ASSUME NEW k \in Nat, NEW l \in Nat, k <= l
  PROVE  2 ^ k <= 2 ^ l
<1> DEFINE K == SUBSET (1 .. k)
           L == SUBSET (1 .. l)
<1>1. /\ IsFiniteSet(1 .. k) /\ Cardinality(1 .. k) = k
      /\ IsFiniteSet(1 .. l) /\ Cardinality(1 .. l) = l
  BY FS_Interval
<1>2. Cardinality(K) = 2 ^ k /\ IsFiniteSet(L) /\ Cardinality(L) = 2 ^ l
  BY <1>1, FS_SUBSET
<1>3. K \in SUBSET L
  OBVIOUS
<1> HIDE DEF K, L
<1> QED  BY <1>2, <1>3, FS_Subset

(***************************************************************************)
(* Powers of two outgrow every number.                                     *)
(***************************************************************************)
LEMMA PowersExceed ==
  ASSUME NEW k \in Nat
  PROVE  2 ^ k > k
<1> DEFINE Bad == {n \in Nat : ~(2 ^ n > n)}
<1>1. ASSUME NEW n \in Nat, \A m \in Bad : n <= m
      PROVE  2 ^ n > n
  <2>1. CASE n = 0
    BY <2>1, PowersOfTwo
  <2>2. CASE n # 0
    <3>1. n - 1 \in Nat /\ n - 1 \notin Bad
      BY <1>1, <2>2
    <3>2. 2 ^ (n - 1) > n - 1 /\ 2 ^ (n - 1) \in Nat
      BY <3>1, PowersOfTwo
    <3>3. 2 ^ ((n - 1) + 1) = 2 * 2 ^ (n - 1)
      BY <3>1, PowersOfTwo
    <3>4. (n - 1) + 1 = n
      OBVIOUS
    <3>5. 2 ^ n = 2 * 2 ^ (n - 1)
      BY <3>3, <3>4
    <3> QED  BY <3>1, <3>2, <3>5
  <2> QED  BY <2>1, <2>2
<1>2. Bad = {}
  <2> SUFFICES ASSUME Bad # {}
               PROVE  FALSE
    OBVIOUS
  <2>1. Bad \in SUBSET Nat
    OBVIOUS
  <2>2. PICK n \in Bad : \A m \in Bad : n <= m
    <3> HIDE DEF Bad
    <3> QED  BY <2>1, LeastNumber
  <2> QED  BY <1>1, <2>2
<1> QED  BY <1>2

(***************************************************************************)
(* RoundOf names a number: a power of two between t and 2t.                *)
(***************************************************************************)
LEMMA RoundIsPower ==
  ASSUME NEW t \in Nat \ {0}
  PROVE  /\ RoundOf(t) \in t .. 2 * t
         /\ \E k \in Nat : RoundOf(t) = 2 ^ k
<1> DEFINE K == {k \in Nat : 2 ^ k >= t}
           IsRound(m) == /\ \E k \in 0 .. t : m = 2 ^ k
                         /\ \A j \in t .. m - 1 : \A k \in 0 .. t : j # 2 ^ k
<1>1. t \in K /\ K \in SUBSET Nat
  BY PowersExceed, PowersOfTwo
<1>2. PICK k \in K : \A l \in K : k <= l
  <2> HIDE DEF K
  <2> QED  BY <1>1, LeastNumber
<1> DEFINE m == 2 ^ k
<1>3. m \in Nat /\ t <= m /\ k \in 0 .. t
  BY <1>1, <1>2, PowersOfTwo
<1>4. m <= 2 * t
  <2>1. CASE k = 0
    BY <2>1, PowersOfTwo
  <2>2. CASE k # 0
    <3>1. k - 1 \in Nat /\ k - 1 \notin K /\ (k - 1) + 1 = k
      BY <1>2, <2>2
    <3>2. 2 ^ (k - 1) \in Nat /\ 2 ^ (k - 1) < t
      BY <3>1, PowersOfTwo
    <3>3. 2 ^ ((k - 1) + 1) = 2 * 2 ^ (k - 1)
      BY <3>1, PowersOfTwo
    <3>4. m = 2 * 2 ^ (k - 1)
      BY <3>1, <3>3
    <3> QED  BY <3>2, <3>4
  <2> QED  BY <2>1, <2>2
<1>5. ASSUME NEW j \in t .. m - 1, NEW l \in 0 .. t, j = 2 ^ l
      PROVE  FALSE
  <2>1. l \in K
    BY <1>5
  <2>2. 2 ^ k <= 2 ^ l
    BY <1>2, <2>1, PowersGrow
  <2>3. j \in Nat /\ j < m
    BY <1>3
  <2> QED  BY <1>3, <1>5, <2>2, <2>3
<1>6. m \in t .. 2 * t /\ IsRound(m)
  BY <1>3, <1>4, <1>5
<1> HIDE DEF IsRound
<1>7. \E x \in t .. 2 * t : IsRound(x)
  BY <1>6
<1>8. RoundOf(t) = CHOOSE x \in t .. 2 * t : IsRound(x)
  BY DEF RoundOf, IsRound
<1>9. RoundOf(t) \in t .. 2 * t /\ IsRound(RoundOf(t))
  BY <1>7, <1>8
<1> QED  BY <1>9 DEF IsRound

(***************************************************************************)
(* A power of two below 2t is at most the one next to t.                   *)
(***************************************************************************)
LEMMA PeriodsAreShort ==
  ASSUME NEW t \in Nat \ {0}, NEW j \in Nat, 2 ^ j < 2 * t
  PROVE  2 ^ j <= RoundOf(t)
<1>1. PICK k \in Nat : RoundOf(t) = 2 ^ k
  BY RoundIsPower
<1>2. 2 ^ k \in Nat /\ t <= 2 ^ k /\ 2 ^ j \in Nat
  BY <1>1, RoundIsPower, PowersOfTwo
<1>3. CASE j <= k
  BY <1>1, <1>3, PowersGrow
<1>4. CASE k + 1 <= j
  <2>1. 2 ^ (k + 1) <= 2 ^ j /\ 2 ^ (k + 1) = 2 * 2 ^ k
    BY <1>4, PowersGrow, PowersOfTwo
  <2> QED  BY <1>2, <2>1
<1> QED  BY <1>3, <1>4

(***************************************************************************)
(* No way of the tree has waited as long as the next power of two.         *)
(***************************************************************************)
LEMMA TreeWaitsAreShort ==
  ASSUME NEW t \in Nat \ {0}, NEW bits, NEW waits, TreeInv(t, bits, waits),
         NEW w \in 0 .. t - 1
  PROVE  waits[w] < RoundOf(t)
<1> DEFINE n == w + t - 1
<1>1. PICK period, due : /\ Scheduled(t, bits, period, due)
                         /\ WaitsAsScheduled(t, waits, period, due)
  BY DEF TreeInv
<1>2. n \in 0 .. 2 * t - 2
  OBVIOUS
<1>3. PeriodOK(period, due, n)
  BY <1>1, <1>2, PeriodsAreOK
<1>4. PICK k \in Nat : period[n] = 2 ^ k
  BY <1>3 DEF PeriodOK
<1>5. period[n] < 2 * t /\ period[n] \in Nat /\ due[n] \in Nat /\ waits[w] \in Nat
  <2>1. period \in [0 .. 2 * t - 2 -> Nat] /\ due \in [0 .. 2 * t - 2 -> Nat]
    BY <1>1 DEF Scheduled, ScheduledTo
  <2>2. waits[w] \in Nat
    BY DEF TreeInv
  <2>3. period[n] <= n + 1
    BY <1>3 DEF PeriodOK
  <2>4. period[n] \in Nat /\ due[n] \in Nat
    BY <1>2, <2>1
  <2>5. n \in Int /\ n <= 2 * t - 2
    BY <1>2
  <2> HIDE DEF n
  <2> QED  BY <2>2, <2>3, <2>4, <2>5
<1>6. period[n] <= RoundOf(t)
  <2> HIDE DEF n
  <2> QED  BY <1>4, <1>5, PeriodsAreShort
<1>7. waits[w] + due[n] < period[n]
  BY <1>1 DEF WaitsAsScheduled
<1>8. RoundOf(t) \in Nat
  BY RoundIsPower
<1> HIDE DEF n
<1> QED  BY <1>5, <1>6, <1>7, <1>8

-----------------------------------------------------------------------------
(***************************************************************************)
(* The inductive invariant: each object with its waiting times.            *)
(***************************************************************************)
IInv ==
  /\ total \in 1 .. MaxTotal
  /\ Circular(total, lru, fifo)
  /\ WaitsInOrder(total, lru, lruWaits)
  /\ TreeInv(total, plru, plruWaits)

(***************************************************************************)
(* The constructors' queue is in circular order from zero on.              *)
(***************************************************************************)
LEMMA InitialQueue ==
  ASSUME NEW t \in Nat \ {0}
  PROVE  LET q == [i \in 1 .. t |-> i - 1]
         IN  Circular(t, q, 0) /\ WaitsInOrder(t, q, [w \in 0 .. t - 1 |-> 0])
<1> DEFINE q == [i \in 1 .. t |-> i - 1]
           waits == [w \in 0 .. t - 1 |-> 0]
<1>1. q \in [1 .. t -> 0 .. t - 1] /\ waits \in [0 .. t - 1 -> Nat]
  OBVIOUS
<1>2. \A i \in 1 .. t : q[i] = i - 1 /\ waits[q[i]] = 0
  OBVIOUS
<1> HIDE DEF q, waits
<1>3. Circular(t, q, 0)
  BY <1>1, <1>2 DEF Circular, Wrapped
<1>4. WaitsInOrder(t, q, waits)
  BY <1>1, <1>2 DEF WaitsInOrder
<1> QED  BY <1>3, <1>4 DEF q, waits

(***************************************************************************)
(* The objects as their constructors leave them satisfy the invariant.     *)
(***************************************************************************)
LEMMA InitIInv == Init => IInv
<1> SUFFICES ASSUME Init
             PROVE  IInv
  OBVIOUS
<1>1. total \in 1 .. MaxTotal /\ total \in Nat \ {0}
  BY DEF Init
<1>2. /\ lru = [i \in 1 .. total |-> i - 1]
      /\ fifo = 0
      /\ plru = [n \in 0 .. total - 2 |-> 0]
      /\ lruWaits = [w \in 0 .. total - 1 |-> 0]
      /\ plruWaits = [w \in 0 .. total - 1 |-> 0]
  BY DEF Init, R!InitialState, R!LRU!InitQueue, R!LRU!Positions, R!InnerNodes, R!Ways
<1>3. Circular(total, lru, fifo) /\ WaitsInOrder(total, lru, lruWaits)
  BY <1>1, <1>2, InitialQueue
<1>4. TreeInv(total, plru, plruWaits)
  BY <1>1, <1>2, InitialTree
<1> QED  BY <1>1, <1>3, <1>4 DEF IInv

(***************************************************************************)
(* The front of a queue of distinct ways stands in position one, so        *)
(* LRURepl's select turns the queue by one.                                *)
(***************************************************************************)
LEMMA SelectTurnsQueue ==
  ASSUME total \in Nat \ {0}, NEW q, NEW f, Circular(total, q, f)
  PROVE  R!LRUSelect(q) = [way |-> q[1], next |-> Turned(total, q)]
<1>1. 1 \in 1 .. total /\ \A i \in 1 .. total : q[i] = q[1] => i = 1
  BY CircularIsPermutation
<1>2. R!LRU!Position(q, q[1]) = 1
  BY <1>1 DEF R!LRU!Position, R!LRU!Positions
<1>3. R!LRU!Update(q, q[1]) = Turned(total, q)
  BY <1>2 DEF R!LRU!Update, R!LRU!Positions, Turned
<1> QED  BY <1>3 DEF R!LRUSelect, R!LRU!Front

(***************************************************************************)
(* A selection of LRURepl and FIFORepl keeps the invariant.                *)
(***************************************************************************)
LEMMA LRUAndFIFOKeepIInv == IInv /\ SelectLRUAndFIFO => IInv'
<1> SUFFICES ASSUME IInv, SelectLRUAndFIFO
             PROVE  IInv'
  OBVIOUS
<1>1. /\ total \in 1 .. MaxTotal /\ total \in Nat \ {0}
      /\ Circular(total, lru, fifo)
      /\ WaitsInOrder(total, lru, lruWaits)
      /\ TreeInv(total, plru, plruWaits)
  BY DEF IInv
<1>2. R!LRUSelect(lru) = [way |-> lru[1], next |-> Turned(total, lru)]
  BY <1>1, SelectTurnsQueue
<1>3. /\ lru' = Turned(total, lru)
      /\ fifo' = IF fifo + 1 = total THEN 0 ELSE fifo + 1
      /\ lruWaits' = Restarted(total, lruWaits, lru[1])
      /\ total' = total /\ plru' = plru /\ plruWaits' = plruWaits
  <2>1. PICK l \in R!Selections("LRURepl", lru), f \in R!Selections("FIFORepl", fifo) :
          /\ lru' = l.next
          /\ fifo' = f.next
          /\ lruWaits' = Waits(lruWaits, l.way)
          /\ UNCHANGED <<total, plru, plruWaits>>
    BY DEF SelectLRUAndFIFO
  <2>2. l = R!LRUSelect(lru) /\ f = R!FIFOSelect(fifo)
    BY <2>1 DEF R!Selections
  <2>3. f.next = IF fifo + 1 = total THEN 0 ELSE fifo + 1
    BY <2>2 DEF R!FIFOSelect
  <2>4. l.next = Turned(total, lru) /\ l.way = lru[1]
    BY <1>2, <2>2
  <2>5. Waits(lruWaits, lru[1]) = Restarted(total, lruWaits, lru[1])
    BY DEF Waits, Restarted, R!Ways
  <2> QED  BY <2>1, <2>3, <2>4, <2>5
<1>4. Circular(total, Turned(total, lru), IF fifo + 1 = total THEN 0 ELSE fifo + 1)
  BY <1>1, TurnedIsCircular
<1>5. WaitsInOrder(total, Turned(total, lru), Restarted(total, lruWaits, lru[1]))
  BY <1>1, TurningKeepsOrder
<1> QED  BY <1>1, <1>3, <1>4, <1>5 DEF IInv

(***************************************************************************)
(* A selection of PLRURepl keeps the invariant.                            *)
(***************************************************************************)
LEMMA PLRUKeepsIInv == IInv /\ SelectPLRU => IInv'
<1> SUFFICES ASSUME IInv, SelectPLRU
             PROVE  IInv'
  OBVIOUS
<1>1. /\ total \in 1 .. MaxTotal /\ total \in Nat \ {0}
      /\ Circular(total, lru, fifo)
      /\ WaitsInOrder(total, lru, lruWaits)
      /\ TreeInv(total, plru, plruWaits)
  BY DEF IInv
<1>2. plru \in TreeBits(total) /\ plruWaits \in [0 .. total - 1 -> Nat]
  BY <1>1 DEF TreeInv
<1>3. PICK period, due : /\ Scheduled(total, plru, period, due)
                         /\ WaitsAsScheduled(total, plruWaits, period, due)
  BY <1>1 DEF TreeInv
<1> DEFINE path == R!PLRUPath(plru)
           leaf == CHOOSE n \in path : n \notin 0 .. total - 2
<1>4. path = DueNow(total, due)
  BY <1>1, <1>2, <1>3, CodePathIsDueNow
<1>5. \E n \in path : n \notin 0 .. total - 2
  BY <1>1, <1>2, <1>3, <1>4, PathHasOneLeaf
<1>6. R!PLRUSelect(plru) = [way |-> leaf - (total - 1), next |-> Flipped(total, plru, due)]
  BY <1>4 DEF R!PLRUSelect, R!InnerNodes, Flipped
<1> HIDE DEF path
<1>7. leaf \in path /\ leaf \notin 0 .. total - 2
  BY <1>5
<1> HIDE DEF leaf
<1>8. /\ plru' = Flipped(total, plru, due)
      /\ plruWaits' = Restarted(total, plruWaits, leaf - (total - 1))
      /\ total' = total /\ lru' = lru /\ fifo' = fifo /\ lruWaits' = lruWaits
  <2>1. PICK s \in R!Selections("PLRURepl", plru) :
          /\ plru' = s.next
          /\ plruWaits' = Waits(plruWaits, s.way)
          /\ UNCHANGED <<total, lru, fifo, lruWaits>>
    BY DEF SelectPLRU
  <2>2. s = R!PLRUSelect(plru)
    BY <2>1 DEF R!Selections
  <2>3. s.next = Flipped(total, plru, due) /\ s.way = leaf - (total - 1)
    BY <1>6, <2>2
  <2>4. Waits(plruWaits, leaf - (total - 1))
          = Restarted(total, plruWaits, leaf - (total - 1))
    BY DEF Waits, Restarted, R!Ways
  <2> QED  BY <2>1, <2>3, <2>4
<1>9. TreeInv(total, Flipped(total, plru, due),
              Restarted(total, plruWaits, leaf - (total - 1)))
  BY <1>1, <1>2, <1>3, <1>4, <1>7, SelectionKeepsTree
<1> QED  BY <1>1, <1>8, <1>9 DEF IInv

(***************************************************************************)
(* The invariant holds in every state: no selection breaks it.             *)
(***************************************************************************)
THEOREM InductiveInvariant == Spec => []IInv
<1>1. IInv /\ UNCHANGED vars => IInv'
  BY DEF IInv, vars
<1>2. IInv /\ [Next]_vars => IInv'
  BY <1>1, LRUAndFIFOKeepIInv, PLRUKeepsIInv DEF Next
<1> QED  BY <1>2, InitIInv, PTL DEF Spec

-----------------------------------------------------------------------------
(***************************************************************************)
(* What follows from the invariant in a state.                             *)
(***************************************************************************)
LEMMA IInvHasTypes == IInv => TypeOK
<1> SUFFICES ASSUME IInv
             PROVE  TypeOK
  OBVIOUS
<1>1. /\ total \in 1 .. MaxTotal
      /\ lru \in [1 .. total -> 0 .. total - 1] /\ fifo \in 0 .. total - 1
  BY DEF IInv, Circular
<1>2. lruWaits \in [0 .. total - 1 -> Nat]
  BY DEF IInv, WaitsInOrder
<1>3. plru \in [0 .. total - 2 -> {0, 1}] /\ plruWaits \in [0 .. total - 1 -> Nat]
  BY DEF IInv, TreeInv, TreeBits
<1>4. lru \in R!States("LRURepl")
  BY <1>1 DEF R!States, R!LRU!Positions, R!Ways
<1>5. fifo \in R!States("FIFORepl")
  BY <1>1 DEF R!States, R!Ways
<1>6. plru \in R!States("PLRURepl")
  BY <1>3 DEF R!States, R!InnerNodes
<1> QED  BY <1>1, <1>2, <1>3, <1>4, <1>5, <1>6 DEF TypeOK, R!Ways

(***************************************************************************)
(* A queue in circular order from the counter on selects as the counter.   *)
(***************************************************************************)
LEMMA IInvIsFIFO == IInv => LRUReplIsFIFORepl
BY CircularIsPermutation DEF IInv, LRUReplIsFIFORepl

(***************************************************************************)
(* No way has waited longer than its place or its period allows.           *)
(***************************************************************************)
LEMMA IInvBoundsWaits == IInv => NoWayStarves
<1> SUFFICES ASSUME IInv, NEW w \in R!Ways
             PROVE  lruWaits[w] < total /\ plruWaits[w] < RoundOf(total)
  BY DEF NoWayStarves
<1>1. /\ total \in Nat \ {0}
      /\ Circular(total, lru, fifo)
      /\ WaitsInOrder(total, lru, lruWaits)
      /\ TreeInv(total, plru, plruWaits)
  BY DEF IInv
<1>2. w \in 0 .. total - 1
  BY DEF R!Ways
<1>3. lruWaits[w] < total
  BY <1>1, <1>2, WaitsAreShort
<1>4. plruWaits[w] < RoundOf(total)
  BY <1>1, <1>2, TreeWaitsAreShort
<1> QED  BY <1>3, <1>4

(***************************************************************************)
(* The three objects stay in states of their classes.                      *)
(***************************************************************************)
THEOREM TypeCorrect == Spec => []TypeOK
BY InductiveInvariant, IInvHasTypes, PTL

(***************************************************************************)
(* LRURepl, whose select is the only caller of LinkedLRU::update, selects  *)
(* the way FIFORepl selects, whatever the number of ways: nothing tells it *)
(* of a hit.                                                               *)
(***************************************************************************)
THEOREM LRUReplAlwaysFIFORepl == Spec => []LRUReplIsFIFORepl
BY InductiveInvariant, IInvIsFIFO, PTL

(***************************************************************************)
(* Whatever the number of ways, a power of two or not, LRURepl comes to    *)
(* every way within total selections and PLRURepl within the next power of *)
(* two.                                                                    *)
(***************************************************************************)
THEOREM NoWayEverStarves == Spec => []NoWayStarves
BY InductiveInvariant, IInvBoundsWaits, PTL

============================================================================
