---------------------------- MODULE SharedLemmas ----------------------------
(***************************************************************************)
(* Lemmas that the proofs about several modules cite: about the rows of    *)
(* orders, about sums that are counted as units, and the least number of a *)
(* set, by which what holds of a heap's nodes is proved without induction. *)
(***************************************************************************)
EXTENDS Orders, FiniteSets, FiniteSetTheorems, WellFoundedInduction, TLAPS

-----------------------------------------------------------------------------
(* What the operators of Orders do to the row of an order. *)

\* A constructed order has nothing filled.
LEMMA NewOrderFacts ==
  ASSUME NEW side \in Sides, NEW quan \in Nat
  PROVE  LET p == NewOrder(side, quan)
         IN  /\ p \in OrderRow
             /\ p.side = side /\ p.quan = quan /\ p.remaining = quan
             /\ p.filled = 0 /\ p.status = "Created"
  BY DEF NewOrder, OrderRow, Statuses

\* Sending changes the status only.
LEMMA SetSendingFacts ==
  ASSUME NEW o \in OrderRow
  PROVE  LET p == SetSendingToProvider(o)
         IN  /\ p \in OrderRow /\ p.status = "SendingToProvider"
             /\ p.side = o.side /\ p.quan = o.quan
             /\ p.filled = o.filled /\ p.remaining = o.remaining
             /\ p.commission = o.commission
  BY DEF SetSendingToProvider, OrderRow, Statuses

\* An execution that fits adds to what is filled and takes from what remains.
LEMMA ReportExecutionFacts ==
  ASSUME NEW o \in OrderRow, NEW size \in Nat \ {0}, ExecutionFits(o, size)
  PROVE  LET p == ReportExecution(o, size)
         IN  /\ p \in OrderRow
             /\ p.side = o.side /\ p.quan = o.quan
             /\ p.filled = o.filled + size
             /\ p.remaining = IF o.remaining = 0 THEN 0 ELSE o.remaining - size
             /\ o.status # "Created" => p.status # "Created"
<1> DEFINE left == IF o.remaining = 0 THEN 0 ELSE o.remaining - size
           filled == o.filled + size
           status == IF left = 0 THEN StatusWhenComplete(o) ELSE StatusWhenPartial(o)
           p == ReportExecution(o, size)
<1>1. left \in Nat /\ filled \in Nat
  BY DEF OrderRow, ExecutionFits
<1>2. StatusWhenComplete(o) \in Statuses /\ StatusWhenComplete(o) # "Created"
  BY DEF StatusWhenComplete, Statuses
<1>3. StatusWhenPartial(o) \in Statuses
      /\ (o.status # "Created" => StatusWhenPartial(o) # "Created")
  BY DEF StatusWhenPartial, Statuses, OrderRow
<1>4. status \in Statuses /\ (o.status # "Created" => status # "Created")
  BY <1>2, <1>3
<1>5. p = [o EXCEPT !.remaining = left, !.filled = filled, !.status = status]
  BY DEF ReportExecution
<1> HIDE DEF left, filled, status, p
<1>6. /\ p \in OrderRow
      /\ p.side = o.side /\ p.quan = o.quan
      /\ p.filled = filled /\ p.remaining = left /\ p.status = status
  BY <1>1, <1>4, <1>5 DEF OrderRow
<1> QED BY <1>4, <1>6 DEF left, filled, p

\* A cancellation changes the status only.
LEMMA MarkAsCancelledFacts ==
  ASSUME NEW o \in OrderRow
  PROVE  LET p == MarkAsCancelled(o)
         IN  /\ p \in OrderRow
             /\ p.side = o.side /\ p.quan = o.quan
             /\ p.filled = o.filled /\ p.remaining = o.remaining
             /\ o.status # "Created" => p.status # "Created"
<1> DEFINE status ==
     CASE o.status = "Created" -> "Cancelled"
       [] o.status \in {"SendingToProvider", "Submitted"}
            -> IF o.filled = 0 THEN "Cancelled" ELSE "CancelledWithPartialFill"
       [] o.status = "Filling" -> "CancelledWithPartialFill"
       [] o.status \in {"FillingDuringCancel", "Cancelled",
                        "CancelledWithPartialFill", "CancelSubmitted"}
            -> "Cancelled"
       [] OTHER -> o.status
           p == MarkAsCancelled(o)
<1>1. status \in Statuses /\ (o.status # "Created" => status # "Created")
  BY DEF Statuses, OrderRow
<1>2. p = [o EXCEPT !.status = status]
  BY DEF MarkAsCancelled
<1> HIDE DEF status, p
<1>3. /\ p \in OrderRow
      /\ p.side = o.side /\ p.quan = o.quan
      /\ p.filled = o.filled /\ p.remaining = o.remaining /\ p.status = status
  BY <1>1, <1>2 DEF OrderRow
<1> QED BY <1>1, <1>3 DEF p

\* A commission changes nothing else.
LEMMA SetCommissionFacts ==
  ASSUME NEW o \in OrderRow, NEW total \in Int
  PROVE  LET p == SetCommission(o, total)
         IN  /\ p \in OrderRow
             /\ p.side = o.side /\ p.quan = o.quan
             /\ p.filled = o.filled /\ p.remaining = o.remaining
             /\ p.status = o.status
  BY DEF SetCommission, OrderRow
-----------------------------------------------------------------------------
(* Counting what the orders of a set have left as a set of units, one for  *)
(* each order and number up to what remains.  The total over a set that    *)
(* changes one order at a time is then a fact about cardinalities, with no *)
(* induction over the set.                                                 *)

\* The units the orders of S have left, os giving their rows.
Units(S, os) == UNION {{o} \X (1 .. os[o].remaining) : o \in S}

\* The units of one order from one number to another.
LEMMA UnitsOfOne ==
  ASSUME NEW o, NEW a \in Nat, NEW b \in Nat, a <= b
  PROVE  LET T == {o} \X (a + 1 .. b)
         IN  IsFiniteSet(T) /\ Cardinality(T) = b - a
<1>1. IsFiniteSet({o}) /\ Cardinality({o}) = 1
  BY FS_Singleton
<1>2. IsFiniteSet(a + 1 .. b) /\ Cardinality(a + 1 .. b) = b - a
  <2>1. /\ IsFiniteSet(a + 1 .. b)
        /\ Cardinality(a + 1 .. b) = IF a + 1 > b THEN 0 ELSE b - (a + 1) + 1
    BY FS_Interval
  <2> QED BY <2>1
<1>3. IsFiniteSet({o} \X (a + 1 .. b))
      /\ Cardinality({o} \X (a + 1 .. b)) = b - a
  <2> DEFINE I == a + 1 .. b
             J == {o}
  <2>1. IsFiniteSet(I) /\ IsFiniteSet(J) /\ Cardinality(J) = 1 /\ Cardinality(I) \in Nat
    BY <1>1, <1>2
  <2> HIDE DEF I, J
  <2>2. IsFiniteSet(J \X I) /\ Cardinality(J \X I) = Cardinality(J) * Cardinality(I)
    BY <2>1, FS_Product
  <2>3. Cardinality(J \X I) = Cardinality(I)
    BY <2>1, <2>2
  <2> QED BY <1>2, <2>2, <2>3 DEF I, J
<1> QED BY <1>3

\* Only the rows of the orders of the set count.
LEMMA UnitsSame ==
  ASSUME NEW S, NEW os, NEW ps, \A p \in S : ps[p].remaining = os[p].remaining
  PROVE  Units(S, ps) = Units(S, os)
BY DEF Units

\* An order joins the set.
LEMMA UnitsAdded ==
  ASSUME NEW S, NEW os, NEW o, o \notin S, NEW n \in Nat, os[o].remaining = n,
         IsFiniteSet(Units(S, os))
  PROVE  /\ IsFiniteSet(Units(S \cup {o}, os))
         /\ Cardinality(Units(S \cup {o}, os))
              = Cardinality(Units(S, os)) + n
<1> DEFINE A == Units(S, os)
           B == {o} \X (1 .. os[o].remaining)
<1>1. Units(S \cup {o}, os) = A \cup B
  BY DEF Units
<1>2. A \cap B = {}
  BY DEF Units
<1>3. IsFiniteSet(B) /\ Cardinality(B) = n
  <2> DEFINE zero == 0
  <2>1. zero \in Nat /\ zero <= n /\ zero + 1 = 1 /\ n - zero = n
    OBVIOUS
  <2> HIDE DEF zero
  <2>2. IsFiniteSet({o} \X (zero + 1 .. n)) /\ Cardinality({o} \X (zero + 1 .. n)) = n - zero
    BY <2>1, UnitsOfOne
  <2> QED BY <2>1, <2>2
<1> HIDE DEF A, B
<1>4. /\ IsFiniteSet(A \cup B)
      /\ Cardinality(A \cup B) = Cardinality(A) + Cardinality(B) - Cardinality(A \cap B)
  BY <1>3, FS_Union DEF A
<1>5. Cardinality(A) \in Nat /\ Cardinality(A \cap B) = 0
  BY <1>2, FS_CardinalityType, FS_EmptySet DEF A
<1>6. Cardinality(A \cup B) = Cardinality(A) + n
  BY <1>3, <1>4, <1>5
<1>7. Units(S, os) = A
  BY DEF A
<1> QED BY <1>1, <1>4, <1>6, <1>7

\* An order of the set has n units less left.
LEMMA UnitsReduced ==
  ASSUME NEW S, NEW os, NEW ps, NEW o \in S, NEW n \in Nat,
         NEW k \in Nat, os[o].remaining = k, n <= k, ps[o].remaining = k - n,
         \A p \in S \ {o} : ps[p].remaining = os[p].remaining,
         IsFiniteSet(Units(S, os))
  PROVE  /\ IsFiniteSet(Units(S, ps))
         /\ n <= Cardinality(Units(S, os))
         /\ Cardinality(Units(S, ps)) = Cardinality(Units(S, os)) - n
<1> DEFINE A == Units(S, os)
           B == {o} \X (ps[o].remaining + 1 .. os[o].remaining)
<1>0. ps[o].remaining \in Nat /\ ps[o].remaining <= os[o].remaining
      /\ os[o].remaining - ps[o].remaining = n
  OBVIOUS
<1>1. Units(S, ps) = A \ B
  <2>1. ASSUME NEW u PROVE u \in Units(S, ps) <=> u \in A /\ u \notin B
    <3>1. u \in Units(S, ps) <=> \E p \in S : u \in {p} \X (1 .. ps[p].remaining)
      BY DEF Units
    <3>2. u \in A <=> \E p \in S : u \in {p} \X (1 .. os[p].remaining)
      BY DEF Units
    <3>3. CASE \E i : u = <<o, i>>
      <4>1. PICK i : u = <<o, i>>
        BY <3>3
      <4>2. u \in Units(S, ps) <=> i \in 1 .. ps[o].remaining
        BY <3>1, <4>1
      <4>3. u \in A <=> i \in 1 .. os[o].remaining
        BY <3>2, <4>1
      <4>4. u \in B <=> i \in ps[o].remaining + 1 .. os[o].remaining
        BY <4>1
      <4> HIDE DEF A, B
      <4> QED BY <1>0, <4>2, <4>3, <4>4
    <3>4. CASE ~ \E i : u = <<o, i>>
      <4>1. \A p, m : u \in {p} \X (1 .. m) => p # o
        BY <3>4
      <4>2. u \notin B
        BY <3>4
      <4> HIDE DEF A, B
      <4> QED BY <3>1, <3>2, <4>1, <4>2
    <3> QED BY <3>3, <3>4
  <2> HIDE DEF A, B
  <2> QED BY <2>1
<1>2. B \subseteq A
  BY <1>0 DEF Units
<1>3. IsFiniteSet(B) /\ Cardinality(B) = n
  <2> DEFINE x == ps[o].remaining
             y == os[o].remaining
  <2> HIDE DEF x, y
  <2>1. x \in Nat /\ y \in Nat /\ x <= y /\ y - x = n
    BY <1>0 DEF x, y
  <2>2. IsFiniteSet({o} \X (x + 1 .. y)) /\ Cardinality({o} \X (x + 1 .. y)) = y - x
    BY <2>1, UnitsOfOne
  <2> QED BY <2>1, <2>2 DEF x, y
<1> HIDE DEF A, B
<1>4. Cardinality(A \cap B) = n
  <2>1. A \cap B = B
    BY <1>2
  <2> QED BY <1>3, <2>1
<1>5. IsFiniteSet(A \ B) /\ Cardinality(A \ B) = Cardinality(A) - Cardinality(A \cap B)
  BY FS_Difference DEF A
<1>6. Cardinality(A) \in Nat /\ Cardinality(A \ B) \in Nat
  BY <1>5, FS_CardinalityType DEF A
<1>7. n <= Cardinality(A) /\ Cardinality(A \ B) = Cardinality(A) - n
  BY <1>4, <1>5, <1>6
<1>8. Units(S, os) = A
  BY DEF A
<1> QED BY <1>1, <1>5, <1>7, <1>8

\* An order leaves the set.
LEMMA UnitsDropped ==
  ASSUME NEW S, NEW T, NEW os, NEW ps, NEW o \in S, NEW n \in Nat,
         T = S \ {o}, os[o].remaining = n,
         \A p \in S \ {o} : ps[p].remaining = os[p].remaining,
         IsFiniteSet(Units(S, os))
  PROVE  /\ IsFiniteSet(Units(T, ps))
         /\ n <= Cardinality(Units(S, os))
         /\ Cardinality(Units(T, ps))
              = Cardinality(Units(S, os)) - n
<1> DEFINE U == S \ {o}
<1>1. Units(U, ps) = Units(U, os)
  BY UnitsSame
<1>2. Units(U, os) \subseteq Units(S, os)
  BY DEF Units
<1>3. IsFiniteSet(Units(U, os))
  BY <1>2, FS_Subset
<1>4. U \cup {o} = S
  OBVIOUS
<1>5. Cardinality(Units(S, os)) = Cardinality(Units(U, os)) + n
  <2>1. o \notin U
    OBVIOUS
  <2> HIDE DEF U
  <2>2. Cardinality(Units(U \cup {o}, os)) = Cardinality(Units(U, os)) + n
    BY <1>3, <2>1, UnitsAdded
  <2> QED BY <1>4, <2>2
<1>6. Cardinality(Units(U, os)) \in Nat
  BY <1>3, FS_CardinalityType
<1> HIDE DEF U
<1>7. /\ n <= Cardinality(Units(S, os))
      /\ Cardinality(Units(U, os)) = Cardinality(Units(S, os)) - n
  BY <1>5, <1>6
<1> QED BY <1>1, <1>3, <1>7 DEF U

\* An order of the set has another number left.
LEMMA UnitsChanged ==
  ASSUME NEW S, NEW os, NEW ps, NEW o \in S, NEW k \in Nat, NEW m \in Nat,
         os[o].remaining = k, ps[o].remaining = m,
         \A p \in S \ {o} : ps[p].remaining = os[p].remaining,
         IsFiniteSet(Units(S, os))
  PROVE  /\ IsFiniteSet(Units(S, ps))
         /\ Cardinality(Units(S, ps)) = (Cardinality(Units(S, os)) - k) + m
<1> DEFINE T == S \ {o}
<1>1. o \notin T /\ T \cup {o} = S
  OBVIOUS
<1>2. /\ IsFiniteSet(Units(T, ps))
      /\ Cardinality(Units(T, ps)) = Cardinality(Units(S, os)) - k
  BY UnitsDropped
<1> HIDE DEF T
<1>3. /\ IsFiniteSet(Units(T \cup {o}, ps))
      /\ Cardinality(Units(T \cup {o}, ps)) = Cardinality(Units(T, ps)) + m
  BY <1>1, <1>2, UnitsAdded
<1> QED BY <1>1, <1>2, <1>3
-----------------------------------------------------------------------------
(* Numbers. *)

\* A set of numbers that is not empty has a least one.
LEMMA LeastOf ==
  ASSUME NEW S \in SUBSET Nat, S # {}
  PROVE  \E m \in S : \A n \in S : m <= n
<1> DEFINE T == {1 .. n : n \in S}
           Sub == StrictSubsetOrdering(Nat)
<1>1. IsWellFoundedOn(Sub, FiniteSubsetsOf(Nat))
  BY FS_StrictSubsetOrderingWellFounded
<1>2. T \subseteq FiniteSubsetsOf(Nat) /\ T # {}
  <2>1. \A n \in S : 1 .. n \in SUBSET Nat /\ IsFiniteSet(1 .. n)
    BY FS_Interval
  <2> QED BY <2>1 DEF FiniteSubsetsOf
<1>3. PICK x \in T : \A y \in T : ~ (<<y, x>> \in Sub)
  <2> HIDE DEF T, Sub
  <2> QED BY <1>1, <1>2, WFMin
<1>4. PICK m \in S : x = 1 .. m
  BY <1>3
<1>5. ASSUME NEW n \in S, n < m
      PROVE  FALSE
  <2>1. (1 .. n) \subseteq (1 .. m) /\ (1 .. n) # (1 .. m)
    <3>1. m \in 1 .. m /\ m \notin 1 .. n
      BY <1>5
    <3> QED BY <1>5, <3>1
  <2>2. <<1 .. n, x>> \in Sub
    BY <1>4, <2>1 DEF StrictSubsetOrdering
  <2> QED BY <1>3, <2>2
<1> QED BY <1>5
=============================================================================
