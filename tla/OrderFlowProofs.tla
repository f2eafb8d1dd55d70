--------------------------- MODULE OrderFlowProofs ---------------------------
(***************************************************************************)
(* Proofs about OrderFlow, for any number of orders, any quantities and    *)
(* prices, and late executions and overfills or not.                       *)
(***************************************************************************)
EXTENDS OrderFlow, SharedLemmas, FiniteSetTheorems, TLAPS

-----------------------------------------------------------------------------
(* The row of the position. *)

\* A row has a side exactly while it is not flat.
RowOK(r) == r.active = 0 <=> r.sideActive = "Unknown"

\* What closing the whole of a row leaves in the constructed value.
Residue(r, s) == s.constructed \in 0 .. r.active * Multiplier - 1

\* What UpdateRowValues does not touch.
SamePending(r, s) ==
  /\ s.pending = r.pending
  /\ s.sidePending = r.sidePending
  /\ s.commission = r.commission

\* A trade on a row: the ledger's view of it.
Traded(r, s, side, quan, price) ==
  /\ Net(s) = Net(r) + (IF side = "Buy" THEN 1 ELSE -1) * quan
  /\ Cash(s) = Cash(r) - Value(side, quan, price)

\* Value is an integer, and that of a sum is the sum of the values.
LEMMA ValueType ==
  ASSUME NEW side \in Sides, NEW quan \in Nat, NEW price \in Nat
  PROVE  Value(side, quan, price) \in Int
BY MultiplierAssumption DEF Value, Sides

LEMMA ValueSum ==
  ASSUME NEW side \in Sides, NEW q1 \in Nat, NEW q2 \in Nat, NEW price \in Nat
  PROVE  Value(side, q1 + q2, price) = Value(side, q1, price) + Value(side, q2, price)
<1>1. (q1 + q2) * price = q1 * price + q2 * price
  OBVIOUS
<1>2. (q1 * price + q2 * price) * Multiplier
        = (q1 * price) * Multiplier + (q2 * price) * Multiplier
  <2> DEFINE x == q1 * price
             y == q2 * price
  <2>1. x \in Nat /\ y \in Nat
    OBVIOUS
  <2> HIDE DEF x, y
  <2>2. (x + y) * Multiplier = x * Multiplier + y * Multiplier
    BY <2>1, MultiplierAssumption
  <2> QED BY <2>2 DEF x, y
<1> DEFINE a == q1 * price * Multiplier
           b == q2 * price * Multiplier
           c == (q1 + q2) * price * Multiplier
<1>3. a \in Int /\ b \in Int /\ c \in Int
  BY MultiplierAssumption
<1>4. c = a + b
  BY <1>1, <1>2
<1> HIDE DEF a, b, c
<1>5. (IF side = "Buy" THEN c ELSE - c)
        = (IF side = "Buy" THEN a ELSE - a) + (IF side = "Buy" THEN b ELSE - b)
  BY <1>3, <1>4
<1> QED BY <1>5 DEF Value, a, b, c

\* The average cost is a whole number, and what it leaves of the constructed
\* value, over all units, is less than one for each unit.
LEMMA CostOfFacts ==
  ASSUME NEW r \in PositionRows, NEW quan \in Nat, r.active > 0
  PROVE  /\ CostOf(r, quan) \in Int
         /\ r.constructed - CostOf(r, r.active) \in 0 .. r.active * Multiplier - 1
<1> DEFINE n == r.active * Multiplier
           c == r.constructed
           avg == c \div n
<1>1. r.active \in Nat \ {0} /\ c \in Int /\ Multiplier \in Nat \ {0}
  BY MultiplierAssumption DEF PositionRows
<1>2. n \in Nat \ {0}
  BY <1>1
<1> HIDE DEF n, c
<1>3. avg \in Int /\ c - n * avg \in 0 .. n - 1
  BY <1>1, <1>2, Z3
<1>4. AverageCost(r) = avg
  BY DEF AverageCost, n, c
<1> HIDE DEF avg
<1>5. quan * avg * Multiplier \in Int
  BY <1>1, <1>3
<1>6. r.active * avg * Multiplier = n * avg
  BY <1>1, <1>3, Z3 DEF n
<1> QED BY <1>3, <1>4, <1>5, <1>6 DEF CostOf, c, n

\* Opening and increasing a position.
LEMMA ExtendTrades ==
  ASSUME NEW r \in PositionRows, RowOK(r), NEW side \in Sides,
         NEW quan \in Nat \ {0}, NEW price \in Nat,
         r.sideActive \in {"Unknown", side}
  PROVE  LET s == Extend(r, side, quan, price)
         IN  s \in PositionRows /\ RowOK(s) /\ SamePending(r, s)
             /\ Traded(r, s, side, quan, price)
<1> DEFINE v == Value(side, quan, price)
           active == r.active + quan
           constructed == r.constructed + v
           s == Extend(r, side, quan, price)
<1>1. v \in Int /\ active \in Nat /\ constructed \in Int
  BY ValueType DEF PositionRows
<1>2. s = [r EXCEPT !.sideActive = side, !.active = active, !.constructed = constructed]
  BY DEF Extend
<1> HIDE DEF s, active, constructed, v
<1>3. s \in PositionRows /\ SamePending(r, s)
  BY <1>1, <1>2 DEF PositionRows, PositionSides, Sides, SamePending
<1>4. /\ s.sideActive = side /\ s.active = r.active + quan
      /\ s.constructed = r.constructed + v /\ s.realized = r.realized
      /\ r.active \in Nat /\ r.constructed \in Int /\ r.realized \in Int
  BY <1>2 DEF active, constructed, PositionRows
<1>5. RowOK(s)
  BY <1>4 DEF RowOK, Sides
<1>6. Net(s) = Net(r) + (IF side = "Buy" THEN 1 ELSE -1) * quan
  BY <1>4 DEF Net, RowOK, Sides
<1>7. Cash(s) = Cash(r) - v
  BY <1>1, <1>4 DEF Cash
<1>8. Traded(r, s, side, quan, price)
  BY <1>6, <1>7 DEF Traded, v
<1> QED BY <1>3, <1>5, <1>8 DEF s

\* Decreasing and closing a position: whatever the units taken out cost, the
\* cost leaves the constructed value and is charged to the realized profit.
LEMMA ReduceTrades ==
  ASSUME NEW r \in PositionRows, RowOK(r), NEW side \in Sides,
         NEW quan \in Nat \ {0}, NEW price \in Nat,
         r.sideActive \notin {"Unknown", side}, quan <= r.active
  PROVE  LET s == Reduce(r, side, quan, price)
         IN  /\ s \in PositionRows /\ RowOK(s) /\ SamePending(r, s)
             /\ Traded(r, s, side, quan, price)
             /\ s.active = r.active - quan
             /\ quan = r.active => s.sideActive = "Unknown" /\ Residue(r, s)
<1> DEFINE v == Value(side, quan, price)
           c == CostOf(r, quan)
<1>1. v \in Int
  BY ValueType
<1>2. r.active \in Nat /\ r.active > 0 /\ r.constructed \in Int
  BY DEF PositionRows
<1>3. c \in Int
  BY <1>2, CostOfFacts
<1>4. quan = r.active => r.constructed - c \in 0 .. r.active * Multiplier - 1
  BY <1>2, CostOfFacts
<1> DEFINE active == r.active - quan
           constructed == r.constructed - c
           realized == r.realized - v - c
           s == Reduce(r, side, quan, price)
<1>5. s = [r EXCEPT !.realized = realized, !.active = active, !.constructed = constructed,
                    !.sideActive = IF r.active = quan THEN "Unknown" ELSE @]
  BY DEF Reduce
<1> HIDE DEF v, c
<1>6. active \in Nat /\ constructed \in Int /\ realized \in Int
  BY <1>1, <1>2, <1>3 DEF PositionRows
<1> HIDE DEF s, active, constructed, realized
<1>61. s \in PositionRows /\ SamePending(r, s)
  BY <1>5, <1>6 DEF PositionRows, PositionSides, SamePending
<1>7. /\ s.sideActive = IF r.active = quan THEN "Unknown" ELSE r.sideActive
      /\ s.active = r.active - quan
      /\ s.constructed = r.constructed - c /\ s.realized = r.realized - v - c
      /\ r.realized \in Int /\ r.sideActive \in {"Buy", "Sell"} \ {side}
  BY <1>5 DEF active, constructed, realized, PositionRows, PositionSides
<1>8. RowOK(s)
  BY <1>2, <1>3, <1>4, <1>7 DEF RowOK
<1>9. Net(s) = Net(r) + (IF side = "Buy" THEN 1 ELSE -1) * quan
  BY <1>2, <1>7 DEF Net, Sides
<1>10. Cash(s) = Cash(r) - v
  BY <1>1, <1>2, <1>3, <1>7 DEF Cash
<1>11. quan = r.active => s.sideActive = "Unknown" /\ Residue(r, s)
  BY <1>4, <1>7 DEF Residue
<1>12. Traded(r, s, side, quan, price)
  BY <1>9, <1>10 DEF Traded, v
<1> QED BY <1>61, <1>7, <1>8, <1>11, <1>12 DEF s

\* Any execution, one that turns the position included.
LEMMA UpdateRowValuesTrades ==
  ASSUME NEW r \in PositionRows, RowOK(r), NEW side \in Sides,
         NEW quan \in Nat \ {0}, NEW price \in Nat
  PROVE  LET s == UpdateRowValues(r, side, quan, price)
         IN  s \in PositionRows /\ RowOK(s) /\ SamePending(r, s)
             /\ Traded(r, s, side, quan, price)
             /\ (r.active > 0 /\ s.active = 0 => Residue(r, s))
<1>1. CASE r.sideActive \in {"Unknown", side}
  <2>1. Extend(r, side, quan, price).active > 0
    BY DEF Extend, PositionRows
  <2> QED BY <1>1, <2>1, ExtendTrades DEF UpdateRowValues
<1>2. CASE r.sideActive \notin {"Unknown", side} /\ quan <= r.active
  <2> DEFINE s == Reduce(r, side, quan, price)
  <2>1. /\ s \in PositionRows /\ RowOK(s) /\ SamePending(r, s)
        /\ Traded(r, s, side, quan, price)
        /\ s.active = r.active - quan
        /\ quan = r.active => Residue(r, s)
    BY <1>2, ReduceTrades
  <2>2. UpdateRowValues(r, side, quan, price) = s
    BY <1>2 DEF UpdateRowValues
  <2> HIDE DEF s
  <2>3. s.active = 0 => quan = r.active
    BY <2>1 DEF PositionRows
  <2> QED BY <2>1, <2>2, <2>3
<1>3. CASE r.sideActive \notin {"Unknown", side} /\ ~ (quan <= r.active)
  <2> DEFINE flat == Reduce(r, side, r.active, price)
             rest == quan - r.active
             s == Extend(flat, side, rest, price)
  <2>1. r.active \in Nat \ {0} /\ rest \in Nat \ {0} /\ quan = r.active + rest
    BY <1>3 DEF PositionRows, RowOK
  <2>2. /\ flat \in PositionRows /\ RowOK(flat) /\ SamePending(r, flat)
        /\ Traded(r, flat, side, r.active, price)
        /\ flat.sideActive = "Unknown"
    BY <1>3, <2>1, ReduceTrades
  <2> HIDE DEF flat, rest
  <2>3. s \in PositionRows /\ RowOK(s) /\ SamePending(flat, s)
        /\ Traded(flat, s, side, rest, price)
    BY <2>1, <2>2, ExtendTrades
  <2>4. Value(side, quan, price) = Value(side, r.active, price) + Value(side, rest, price)
    BY <2>1, ValueSum
  <2>5. UpdateRowValues(r, side, quan, price) = s
    BY <1>3 DEF UpdateRowValues, s, flat, rest
  <2>6. Traded(r, s, side, quan, price)
    <3> HIDE DEF s
    <3>1. /\ Net(r) \in Int /\ Cash(r) \in Int
          /\ Value(side, r.active, price) \in Int /\ Value(side, rest, price) \in Int
      BY <2>1, ValueType DEF PositionRows, Net, Cash
    <3> QED BY <2>1, <2>2, <2>3, <2>4, <3>1 DEF Traded
  <2>7. SamePending(r, s)
    BY <2>2, <2>3 DEF SamePending
  <2>8. s.active > 0
    <3>1. flat.active \in Nat
      BY <2>2 DEF PositionRows
    <3> QED BY <2>1, <3>1 DEF Extend, PositionRows
  <2> QED BY <2>3, <2>5, <2>6, <2>7, <2>8
<1> QED BY <1>1, <1>2, <1>3
-----------------------------------------------------------------------------
(* One order. *)

-----------------------------------------------------------------------------
(* The inductive invariant. *)

\* What was executed before the i-th execution of an order.
Before(o, i) == IF i = 1 THEN 0 ELSE fills[o][i - 1].cum

\* The broker's books of an order: the executions add up, they exceed the
\* order only once it is filled, and only a cancelled order is reported so.
BrokerInv(o) ==
  /\ seen[o] <= Len(fills[o])
  /\ brk[o].done = IF Len(fills[o]) = 0 THEN 0 ELSE fills[o][Len(fills[o])].cum
  /\ \A i \in 1 .. Len(fills[o]) :
       /\ fills[o][i].cum = Before(o, i) + fills[o][i].size
       /\ fills[o][i].cum <= brk[o].done
       /\ Before(o, i) < orders[o].quan => fills[o][i].cum <= orders[o].quan
  /\ brk[o].state = "none" => Len(fills[o]) = 0 /\ Len(news[o]) = 0
  /\ brk[o].state \in {"working", "rejected"} => brk[o].done < orders[o].quan
  /\ brk[o].state = "cancelled" => brk[o].done <= orders[o].quan
  /\ brk[o].state = "filled" => brk[o].done >= orders[o].quan
  /\ \A i \in 1 .. Len(news[o]) :
       news[o][i].cancelled => brk[o].state = "cancelled"

\* The program's books of an order.
OrderInv(o) ==
  /\ orders[o].quan = 0 => brk[o].state = "none" /\ o \notin open
  /\ orders[o].status = "Created" <=> brk[o].state = "none"
  /\ orders[o].quan > 0 /\ brk[o].state = "none" => o \in open
  /\ o \in open => orders[o].remaining > 0
  /\ orders[o].filled = ToldQuantity(o)
  /\ orders[o].remaining = IF orders[o].filled < orders[o].quan
                           THEN orders[o].quan - orders[o].filled ELSE 0
  /\ orders[o].quan > 0 /\ o \notin open => brk[o].state \in {"filled", "cancelled"}

\* The orders that are placed and open, and what they have left.
Live == {o \in open : Placed(o)}
PendingInv ==
  IsFiniteSet(Units(Live, orders)) /\ row.pending = Cardinality(Units(Live, orders))

IInv ==
  /\ TypeOK
  /\ \A o \in OrderIds : BrokerInv(o) /\ OrderInv(o)
  /\ PendingInv
  /\ RowOK(row)

\* An order none of whose books an action touches.
Untouched(o) ==
  /\ orders'[o] = orders[o] /\ brk'[o] = brk[o] /\ fills'[o] = fills[o]
  /\ seen'[o] = seen[o] /\ news'[o] = news[o]
  /\ o \in open' <=> o \in open

LEMMA UntouchedInv ==
  ASSUME NEW o \in OrderIds, BrokerInv(o), OrderInv(o), Untouched(o)
  PROVE  BrokerInv(o)' /\ OrderInv(o)'
<1>1. Before(o, 1)' = Before(o, 1) /\ \A i : Before(o, i)' = Before(o, i)
  BY DEF Untouched, Before
<1>2. BrokerInv(o)'
  BY <1>1 DEF Untouched, BrokerInv
<1>3. ToldQuantity(o)' = ToldQuantity(o)
  BY DEF Untouched, ToldQuantity
<1>4. OrderInv(o)'
  BY <1>3 DEF Untouched, OrderInv
<1> QED BY <1>2, <1>4

LEMMA InitInv == Init => IInv
<1> SUFFICES ASSUME Init PROVE IInv
  OBVIOUS
<1>1. TypeOK
  BY DEF Init, TypeOK, OrderRow, NewOrder, Sides, Statuses, PositionRows, PositionSides,
         EmptyRow, BrokerOrders, BrokerStates
<1>2. \A o \in OrderIds : BrokerInv(o) /\ OrderInv(o)
  BY DEF Init, BrokerInv, OrderInv, NewOrder, ToldQuantity
<1>3. PendingInv
  <2>1. Units(Live, orders) = {}
    BY DEF Units, Live, Init
  <2> QED BY <2>1, FS_EmptySet DEF PendingInv, Init, EmptyRow
<1>4. RowOK(row)
  BY DEF RowOK, Init, EmptyRow
<1> QED BY <1>1, <1>2, <1>3, <1>4 DEF IInv
-----------------------------------------------------------------------------
(* Steps of the strategy. *)

\* Neither the orders that are live nor what they have left changes.
LEMMA PendingSame ==
  ASSUME PendingInv, row'.pending = row.pending, Live' = Live,
         \A p \in Live : orders'[p].remaining = orders[p].remaining
  PROVE  PendingInv'
<1>1. Units(Live', orders') = Units(Live, orders)
  BY UnitsSame
<1> QED BY <1>1 DEF PendingInv

LEMMA ConstructOrderStep ==
  ASSUME IInv, NEW o \in OrderIds, NEW side \in Sides, NEW quan \in Quantities,
         ConstructOrder(o, side, quan)
  PROVE  IInv'
<1> USE DEF IInv
<1> DEFINE new == NewOrder(side, quan)
<1>0. quan \in Nat \ {0}
  BY ConstantsAssumption
<1>1. /\ new \in OrderRow /\ new.quan = quan /\ new.remaining = quan
      /\ new.filled = 0 /\ new.status = "Created"
  BY <1>0, NewOrderFacts
<1> HIDE DEF new
<1>2. /\ orders' = [orders EXCEPT ![o] = new] /\ open' = open \cup {o}
      /\ UNCHANGED <<row, portfolio, brk, fills, seen, news>>
      /\ orders[o].quan = 0
  BY DEF ConstructOrder, Constructed, new, TypeOK, OrderRow
<1>3. /\ brk[o].state = "none" /\ o \notin open /\ orders[o].filled = ToldQuantity(o)
      /\ Len(fills[o]) = 0 /\ Len(news[o]) = 0 /\ seen[o] = 0
  BY <1>2 DEF OrderInv, BrokerInv, TypeOK
<1>4. TypeOK'
  BY <1>1, <1>2 DEF TypeOK
<1>5. ASSUME NEW p \in OrderIds PROVE BrokerInv(p)' /\ OrderInv(p)'
  <2>1. CASE p # o
    BY <1>2, <2>1, UntouchedInv DEF Untouched, TypeOK
  <2>2. CASE p = o
    <3>1. orders'[o] = new /\ o \in open'
      BY <1>2 DEF TypeOK
    <3>2. BrokerInv(o)'
      BY <1>2, <1>3, <3>1 DEF BrokerInv, TypeOK
    <3>3. OrderInv(o)'
      BY <1>0, <1>1, <1>2, <1>3, <3>1 DEF OrderInv, ToldQuantity
    <3> QED BY <2>2, <3>2, <3>3
  <2> QED BY <2>1, <2>2
<1>6. PendingInv'
  <2>1. Live' = Live
    BY <1>2, <1>3 DEF Live, Placed
  <2>2. \A p \in Live : orders'[p].remaining = orders[p].remaining
    BY <1>2, <1>3 DEF Live, TypeOK
  <2> QED BY <1>2, <2>1, <2>2, PendingSame
<1>7. RowOK(row)'
  BY <1>2 DEF RowOK
<1> QED BY <1>4, <1>5, <1>6, <1>7

\* The order's quantity becomes pending and its units are counted.
LEMMA AddPendingFacts ==
  ASSUME NEW r \in PositionRows, NEW side \in Sides, NEW quan \in Nat
  PROVE  LET s == AddPending(r, side, quan)
         IN  /\ s \in PositionRows /\ s.pending = r.pending + quan
             /\ s.active = r.active /\ s.sideActive = r.sideActive
             /\ s.constructed = r.constructed /\ s.realized = r.realized
<1> DEFINE pending == r.pending + quan
           side2 == IF r.pending = 0 THEN side ELSE r.sidePending
           s == AddPending(r, side, quan)
<1>1. pending \in Nat /\ side2 \in PositionSides
  BY DEF PositionRows, PositionSides, Sides
<1>2. s = [r EXCEPT !.sidePending = side2, !.pending = pending]
  BY DEF AddPending, PositionRows
<1> HIDE DEF pending, side2, s
<1>3. /\ s \in PositionRows /\ s.pending = pending
      /\ s.active = r.active /\ s.sideActive = r.sideActive
      /\ s.constructed = r.constructed /\ s.realized = r.realized
  BY <1>1, <1>2 DEF PositionRows
<1> QED BY <1>3 DEF pending, s

\* An order that was not placed is placed, with everything remaining: what
\* PlaceOrder and ClosePosition have in common.
LEMMA PlacedStep ==
  ASSUME IInv, NEW o \in OrderIds, NEW new \in OrderRow, NEW side \in Sides,
         brk[o].state = "none",
         new.quan > 0, new.remaining = new.quan, new.filled = 0,
         new.status = "SendingToProvider",
         row' = AddPending(row, side, new.quan),
         orders' = [orders EXCEPT ![o] = new],
         open' = open \cup {o},
         brk' = [brk EXCEPT ![o].state = "working"],
         UNCHANGED <<portfolio, fills, seen, news>>
  PROVE  IInv'
<1> USE DEF IInv
<1>0. new.quan \in Nat
  BY DEF OrderRow
<1>1. /\ row' \in PositionRows /\ row'.pending = row.pending + new.quan
      /\ row'.active = row.active /\ row'.sideActive = row.sideActive
      /\ row'.constructed = row.constructed
  BY <1>0, AddPendingFacts DEF TypeOK
<1>2. brk'[o].state = "working" /\ brk'[o].done = brk[o].done /\ orders'[o] = new
  BY DEF TypeOK, BrokerOrders
<1>3. Len(fills[o]) = 0 /\ Len(news[o]) = 0 /\ seen[o] = 0 /\ brk[o].done = 0
  BY DEF BrokerInv, TypeOK
<1>4. TypeOK'
  <2>1. brk' \in [OrderIds -> BrokerOrders]
    BY DEF TypeOK, BrokerOrders, BrokerStates
  <2> QED BY <1>1, <2>1 DEF TypeOK
<1>5. ASSUME NEW p \in OrderIds PROVE BrokerInv(p)' /\ OrderInv(p)'
  <2>1. CASE p # o
    BY <2>1, UntouchedInv DEF Untouched, TypeOK
  <2>2. CASE p = o
    <3>1. BrokerInv(o)'
      BY <1>0, <1>2, <1>3 DEF BrokerInv, TypeOK
    <3>2. OrderInv(o)'
      BY <1>0, <1>2, <1>3 DEF OrderInv, ToldQuantity
    <3> QED BY <2>2, <3>1, <3>2
  <2> QED BY <2>1, <2>2
<1>6. PendingInv'
  <2>1. o \notin Live /\ Live' = Live \cup {o}
    BY <1>2 DEF Live, Placed, TypeOK
  <2>2. Units(Live, orders') = Units(Live, orders)
    <3>1. \A p \in Live : orders'[p].remaining = orders[p].remaining
      BY <2>1 DEF TypeOK
    <3> QED BY <3>1, UnitsSame
  <2>3. orders'[o].remaining = new.quan
    BY <1>2
  <2>4. /\ IsFiniteSet(Units(Live \cup {o}, orders'))
        /\ Cardinality(Units(Live \cup {o}, orders'))
             = Cardinality(Units(Live, orders')) + new.quan
    <3> DEFINE S == Live
               os == orders'
               n == new.quan
    <3>1. o \notin S /\ n \in Nat /\ os[o].remaining = n /\ IsFiniteSet(Units(S, os))
      BY <1>0, <2>1, <2>2, <2>3 DEF PendingInv
    <3> HIDE DEF S, os, n
    <3>2. /\ IsFiniteSet(Units(S \cup {o}, os))
          /\ Cardinality(Units(S \cup {o}, os)) = Cardinality(Units(S, os)) + n
      BY <3>1, UnitsAdded
    <3> QED BY <3>2 DEF S, os, n
  <2> QED BY <1>1, <2>1, <2>2, <2>4 DEF PendingInv
<1>7. RowOK(row)'
  BY <1>1 DEF RowOK
<1> QED BY <1>4, <1>5, <1>6, <1>7

LEMMA PlaceOrderStep ==
  ASSUME IInv, NEW o \in OrderIds, PlaceOrder(o)
  PROVE  IInv'
<1> DEFINE new == SetSendingToProvider(orders[o])
<1>1. /\ orders[o] \in OrderRow /\ BrokerInv(o) /\ OrderInv(o)
      /\ orders[o].quan > 0 /\ orders[o].status = "Created"
  BY DEF IInv, TypeOK, PlaceOrder, Constructed, MaySend
<1>2. /\ new \in OrderRow /\ new.status = "SendingToProvider"
      /\ new.side = orders[o].side /\ new.quan = orders[o].quan
      /\ new.filled = orders[o].filled /\ new.remaining = orders[o].remaining
  BY <1>1, SetSendingFacts
<1>3. brk[o].state = "none" /\ open = open \cup {o}
  BY <1>1 DEF OrderInv
<1>4. orders[o].filled = 0 /\ orders[o].remaining = orders[o].quan
  BY <1>1, <1>3 DEF OrderInv, BrokerInv, ToldQuantity, OrderRow, IInv, TypeOK
<1>5. orders[o].side \in Sides
  BY <1>1 DEF OrderRow
<1>6. /\ row' = AddPending(row, orders[o].side, new.quan)
      /\ orders' = [orders EXCEPT ![o] = new]
      /\ brk' = [brk EXCEPT ![o].state = "working"]
      /\ open' = open \cup {o}
      /\ UNCHANGED <<portfolio, fills, seen, news>>
  BY <1>1, <1>2, <1>3 DEF PlaceOrder
<1> HIDE DEF new
<1>7. new.quan > 0 /\ new.filled = 0 /\ new.remaining = new.quan
  BY <1>1, <1>2, <1>4
<1> QED BY <1>2, <1>3, <1>5, <1>6, <1>7, PlacedStep

LEMMA ClosePositionStep ==
  ASSUME IInv, NEW o \in OrderIds, ClosePosition(o)
  PROVE  IInv'
<1> DEFINE side == IF row.sideActive = "Buy" THEN "Sell" ELSE "Buy"
           new == SetSendingToProvider(NewOrder(side, row.active))
<1>1. row.active \in Nat /\ row.active > 0 /\ side \in Sides
  BY DEF IInv, TypeOK, PositionRows, ClosePosition, Sides
<1>2. orders[o].quan = 0
  BY DEF IInv, TypeOK, OrderRow, ClosePosition, Constructed
<1>3. brk[o].state = "none"
  BY <1>2 DEF IInv, OrderInv
<1>4. /\ orders' = [orders EXCEPT ![o] = new]
      /\ brk' = [brk EXCEPT ![o].state = "working"]
      /\ open' = open \cup {o}
      /\ row' = AddPending(row, side, row.active)
      /\ UNCHANGED <<portfolio, fills, seen, news>>
  BY DEF ClosePosition
<1> HIDE DEF side
<1>5. /\ new \in OrderRow /\ new.status = "SendingToProvider"
      /\ new.quan = row.active /\ new.filled = 0 /\ new.remaining = row.active
  BY <1>1, NewOrderFacts, SetSendingFacts
<1> HIDE DEF new
<1>6. row' = AddPending(row, side, new.quan)
  BY <1>4, <1>5
<1> QED BY <1>1, <1>3, <1>4, <1>5, <1>6, PlacedStep

LEMMA CancelOrderStep ==
  ASSUME IInv, NEW o \in OrderIds, CancelOrder(o)
  PROVE  IInv'
<1> USE DEF IInv
<1>1. /\ brk' = [brk EXCEPT ![o].cancelReq = TRUE]
      /\ UNCHANGED <<orders, open, row, portfolio, fills, seen, news>>
  BY DEF CancelOrder
<1>2. \A p \in OrderIds : brk'[p].state = brk[p].state /\ brk'[p].done = brk[p].done
  BY <1>1 DEF TypeOK, BrokerOrders
<1>3. TypeOK'
  <2>1. brk' \in [OrderIds -> BrokerOrders]
    BY <1>1 DEF TypeOK, BrokerOrders
  <2> QED BY <1>1, <2>1 DEF TypeOK
<1>4. ASSUME NEW p \in OrderIds PROVE BrokerInv(p)' /\ OrderInv(p)'
  <2>1. BrokerInv(p) /\ OrderInv(p)
    OBVIOUS
  <2>2. BrokerInv(p)'
    BY <1>1, <1>2, <2>1 DEF BrokerInv, Before
  <2>3. OrderInv(p)'
    BY <1>1, <1>2, <2>1 DEF OrderInv, ToldQuantity
  <2> QED BY <2>2, <2>3
<1>5. PendingInv'
  <2>1. Live' = Live
    BY <1>1, <1>2 DEF Live, Placed, TypeOK
  <2> QED BY <1>1, <2>1, PendingSame
<1>6. RowOK(row)'
  BY <1>1 DEF RowOK
<1> QED BY <1>3, <1>4, <1>5, <1>6
-----------------------------------------------------------------------------
(* Steps of the broker. *)

\* The program sees nothing of a broker's step but what is on its way.
LEMMA BrokerStep ==
  ASSUME IInv, NEW o \in OrderIds, NEW b \in BrokerOrders,
         NEW f \in Seq(Fills), NEW m \in Seq(Messages),
         brk[o].state # "none", b.state # "none",
         brk[o].state \in {"filled", "cancelled"} => b.state \in {"filled", "cancelled"},
         UNCHANGED <<programVars, seen>>,
         brk' = [brk EXCEPT ![o] = b],
         fills' = [fills EXCEPT ![o] = f],
         news' = [news EXCEPT ![o] = m],
         BrokerInv(o)', ToldQuantity(o)' = ToldQuantity(o)
  PROVE  IInv'
<1> USE DEF IInv, programVars
<1>1. brk'[o] = b
  BY DEF TypeOK
<1>2. TypeOK'
  BY DEF TypeOK
<1>3. ASSUME NEW p \in OrderIds PROVE BrokerInv(p)' /\ OrderInv(p)'
  <2>1. CASE p # o
    BY <2>1, UntouchedInv DEF Untouched, TypeOK
  <2>2. CASE p = o
    <3>1. OrderInv(o)
      OBVIOUS
    <3>2. OrderInv(o)'
      BY <1>1, <3>1 DEF OrderInv
    <3> QED BY <2>2, <3>2
  <2> QED BY <2>1, <2>2
<1>4. PendingInv'
  <2>1. Live' = Live
    BY <1>1 DEF Live, Placed, TypeOK
  <2> QED BY <2>1, PendingSame
<1>5. RowOK(row)'
  BY DEF RowOK
<1> QED BY <1>2, <1>3, <1>4, <1>5

\* One more execution, within the order, cancelled or not, or beyond a filled
\* one.
LEMMA ExecuteStep ==
  ASSUME IInv, NEW o \in OrderIds, NEW size \in Nat \ {0}, NEW price \in Prices,
         NEW b \in BrokerOrders,
         Execute(o, size, price), UNCHANGED <<programVars, seen>>,
         brk' = [brk EXCEPT ![o] = b],
         b.done = brk[o].done + size,
         \/ /\ brk[o].state = "working"
            /\ b.done <= orders[o].quan
            /\ b.state = IF b.done = orders[o].quan THEN "filled" ELSE "working"
         \/ /\ brk[o].state = "cancelled"
            /\ b.done <= orders[o].quan
            /\ b.state = "cancelled"
         \/ brk[o].state = "filled" /\ b.state = "filled"
  PROVE  IInv'
<1> DEFINE n == Len(fills[o])
           e == [size |-> size, price |-> price, cum |-> brk[o].done + size]
           f == Append(fills[o], e)
           msg == OpenOrder(o, FALSE, brk[o].done + size, n + 1)
           m == Append(news[o], msg)
<1>1. /\ fills[o] \in Seq(Fills) /\ news[o] \in Seq(Messages) /\ brk[o] \in BrokerOrders
      /\ orders[o] \in OrderRow /\ seen[o] \in Nat /\ n \in Nat
      /\ BrokerInv(o) /\ OrderInv(o)
  BY DEF IInv, TypeOK
<1>2. brk[o].done \in Nat /\ b.done \in Nat /\ orders[o].quan \in Nat
  BY <1>1 DEF BrokerOrders, OrderRow
<1>3. e \in Fills /\ e.cum = b.done /\ e.size = size
  BY <1>2 DEF Fills
<1>4. msg \in Messages /\ msg.cancelled = FALSE
  BY <1>1, <1>2 DEF OpenOrder, Messages, Unpriced
<1> HIDE DEF e, msg
<1>5. f \in Seq(Fills) /\ Len(f) = n + 1 /\ f[n + 1] = e
      /\ \A i \in 1 .. n : f[i] = fills[o][i]
  BY <1>1, <1>3
<1>6. m \in Seq(Messages)
      /\ \A i \in 1 .. Len(m) : m[i].cancelled => i \in 1 .. Len(news[o]) /\ m[i] = news[o][i]
  BY <1>1, <1>4
<1>7. /\ fills' = [fills EXCEPT ![o] = f] /\ news' = [news EXCEPT ![o] = m]
      /\ fills'[o] = f /\ news'[o] = m /\ brk'[o] = b
      /\ orders' = orders /\ seen' = seen
  BY DEF Execute, IInv, TypeOK, programVars, e, msg
<1> HIDE DEF f, m
<1>8. ToldQuantity(o)' = ToldQuantity(o)
  BY <1>1, <1>5, <1>7 DEF ToldQuantity, BrokerInv
<1>9. BrokerInv(o)'
  <2>1. seen'[o] <= Len(fills'[o])
    BY <1>1, <1>5, <1>7 DEF BrokerInv
  <2>2. brk'[o].done = IF Len(fills'[o]) = 0 THEN 0 ELSE fills'[o][Len(fills'[o])].cum
    BY <1>1, <1>3, <1>5, <1>7
  <2>3. ASSUME NEW i \in 1 .. Len(fills'[o])
        PROVE  /\ fills'[o][i].cum = Before(o, i)' + fills'[o][i].size
               /\ fills'[o][i].cum <= brk'[o].done
               /\ Before(o, i)' < orders'[o].quan => fills'[o][i].cum <= orders'[o].quan
    <3>1. CASE i \in 1 .. n
      <4>1. fills'[o][i] = fills[o][i] /\ Before(o, i)' = Before(o, i)
        <5>1. fills'[o][i] = fills[o][i]
          BY <1>5, <1>7, <3>1
        <5>2. CASE i = 1
          BY <5>1, <5>2 DEF Before
        <5>3. CASE i # 1
          <6>1. i - 1 \in 1 .. n
            BY <1>1, <3>1, <5>3
          <6>2. f[i - 1] = fills[o][i - 1]
            BY <1>5, <6>1
          <6> QED BY <1>7, <5>1, <5>3, <6>2 DEF Before
        <5> QED BY <5>2, <5>3
      <4>2. /\ fills[o][i].cum = Before(o, i) + fills[o][i].size
            /\ fills[o][i].cum <= brk[o].done
            /\ Before(o, i) < orders[o].quan => fills[o][i].cum <= orders[o].quan
        BY <1>1, <3>1 DEF BrokerInv
      <4>3. fills[o][i].cum \in Nat
        <5>1. fills[o][i] \in Fills
          BY <1>1, <3>1
        <5> QED BY <5>1 DEF Fills
      <4>4. fills[o][i].cum <= b.done
        BY <1>2, <4>2, <4>3
      <4> QED BY <1>7, <4>1, <4>2, <4>4
    <3>2. CASE i = n + 1
      <4>1. fills'[o][i] = e
        BY <1>5, <1>7, <3>2
      <4>2. Before(o, i)' = brk[o].done
        <5>1. CASE n = 0
          BY <1>1, <3>2, <5>1 DEF Before, BrokerInv
        <5>2. CASE n # 0
          <6>1. n \in 1 .. n /\ i - 1 = n /\ i # 1
            BY <1>1, <3>2, <5>2
          <6>2. f[n] = fills[o][n]
            BY <1>5, <6>1
          <6>3. brk[o].done = fills[o][n].cum
            BY <1>1, <5>2 DEF BrokerInv
          <6> QED BY <1>7, <6>1, <6>2, <6>3 DEF Before
        <5> QED BY <5>1, <5>2
      <4>3. Before(o, i)' < orders'[o].quan => b.done <= orders'[o].quan
        BY <1>1, <1>2, <1>7, <4>2 DEF BrokerInv
      <4> QED BY <1>2, <1>3, <1>7, <4>1, <4>2, <4>3
    <3> QED BY <1>1, <1>5, <1>7, <3>1, <3>2
  <2>4. /\ b.state # "none"
        /\ b.state \in {"working", "rejected"} => b.done < orders'[o].quan
        /\ b.state = "cancelled" => b.done <= orders'[o].quan
        /\ b.state = "filled" => b.done >= orders'[o].quan
    BY <1>1, <1>2, <1>7 DEF BrokerInv
  <2>5. \A i \in 1 .. Len(news'[o]) : news'[o][i].cancelled => b.state = "cancelled"
    BY <1>1, <1>6, <1>7 DEF BrokerInv
  <2> QED BY <1>7, <2>1, <2>2, <2>3, <2>4, <2>5 DEF BrokerInv
<1>10. brk[o].state # "none" /\ b.state # "none"
       /\ (brk[o].state \in {"filled", "cancelled"} => b.state \in {"filled", "cancelled"})
  OBVIOUS
<1> QED BY <1>5, <1>6, <1>7, <1>8, <1>9, <1>10, BrokerStep

LEMMA BrokerFillStep ==
  ASSUME IInv, NEW o \in OrderIds, BrokerFill(o)
  PROVE  IInv'
<1>1. /\ brk[o] \in BrokerOrders /\ brk[o].done \in Nat /\ orders[o].quan \in Nat
      /\ brk[o].state \in {"working", "cancelled"} /\ UNCHANGED <<programVars, seen>>
  BY DEF IInv, TypeOK, BrokerOrders, OrderRow, BrokerFill
<1>2. PICK size \in 1 .. (orders[o].quan - brk[o].done), price \in Prices :
        /\ Execute(o, size, price)
        /\ brk' = [brk EXCEPT ![o].done = @ + size,
                              ![o].state = IF /\ @ = "working"
                                              /\ brk[o].done + size = orders[o].quan
                                           THEN "filled" ELSE @]
  BY DEF BrokerFill
<1> DEFINE done == brk[o].done + size
           state == IF brk[o].state = "working" /\ done = orders[o].quan
                    THEN "filled" ELSE brk[o].state
           b == [brk[o] EXCEPT !.done = done, !.state = state]
<1>3. size \in Nat \ {0} /\ done \in Nat /\ done <= orders[o].quan /\ state \in BrokerStates
  BY <1>1, <1>2 DEF BrokerStates
<1>4. brk' = [brk EXCEPT ![o] = b]
  BY <1>1, <1>2 DEF IInv, TypeOK
<1> HIDE DEF done, state
<1>5. b \in BrokerOrders /\ b.done = done /\ b.state = state
  BY <1>1, <1>3 DEF BrokerOrders
<1> HIDE DEF b
<1> QED BY <1>1, <1>2, <1>3, <1>4, <1>5, ExecuteStep DEF done, state

LEMMA BrokerOverfillStep ==
  ASSUME IInv, NEW o \in OrderIds, BrokerOverfill(o)
  PROVE  IInv'
<1>1. /\ brk[o] \in BrokerOrders /\ brk[o].done \in Nat /\ orders[o].quan \in Nat
      /\ brk[o].state = "filled" /\ UNCHANGED <<programVars, seen>>
  BY DEF IInv, TypeOK, BrokerOrders, OrderRow, BrokerOverfill
<1>2. PICK size \in 1 .. (orders[o].quan + MaxOverfill - brk[o].done), price \in Prices :
        /\ Execute(o, size, price)
        /\ brk' = [brk EXCEPT ![o].done = @ + size]
  BY DEF BrokerOverfill
<1> DEFINE done == brk[o].done + size
           b == [brk[o] EXCEPT !.done = done]
<1>3. size \in Nat \ {0} /\ done \in Nat
  BY <1>1, <1>2, ConstantsAssumption
<1>4. brk' = [brk EXCEPT ![o] = b]
  BY <1>1, <1>2 DEF IInv, TypeOK
<1> HIDE DEF done
<1>5. b \in BrokerOrders /\ b.done = done /\ b.state = "filled"
  BY <1>1, <1>3 DEF BrokerOrders
<1> HIDE DEF b
<1> QED BY <1>1, <1>2, <1>3, <1>4, <1>5, ExecuteStep DEF done

LEMMA BrokerCancelStep ==
  ASSUME IInv, NEW o \in OrderIds, BrokerCancel(o)
  PROVE  IInv'
<1> DEFINE n == Len(fills[o])
           first == OpenOrder(o, TRUE, brk[o].done, n)
           second == OrderStatus(n)
           m == news[o] \o <<first, second>>
           b == [brk[o] EXCEPT !.state = "cancelled"]
<1>1. /\ fills[o] \in Seq(Fills) /\ news[o] \in Seq(Messages) /\ brk[o] \in BrokerOrders
      /\ brk[o].done \in Nat /\ n \in Nat /\ BrokerInv(o)
  BY DEF IInv, TypeOK, BrokerOrders
<1>2. b \in BrokerOrders /\ b.state = "cancelled" /\ b.done = brk[o].done
  BY <1>1 DEF BrokerOrders, BrokerStates
<1>3. first \in Messages /\ second \in Messages
  BY <1>1 DEF OpenOrder, OrderStatus, Messages, Unpriced
<1> HIDE DEF first, second
<1>4. m \in Seq(Messages)
  BY <1>1, <1>3
<1>5. /\ brk[o].state = "working" /\ UNCHANGED <<programVars, fills, seen>>
      /\ brk' = [brk EXCEPT ![o] = b] /\ brk'[o] = b
      /\ news' = [news EXCEPT ![o] = m] /\ fills' = [fills EXCEPT ![o] = fills[o]]
      /\ orders' = orders
  BY DEF BrokerCancel, IInv, TypeOK, first, second, programVars
<1> HIDE DEF m, b
<1>6. ToldQuantity(o)' = ToldQuantity(o)
  BY <1>5 DEF ToldQuantity
<1>7. BrokerInv(o)'
  <2>1. \A i : Before(o, i)' = Before(o, i)
    BY <1>5 DEF Before
  <2>2. brk[o].done <= orders[o].quan /\ brk[o].state # "none"
    <3>1. orders[o].quan \in Nat
      BY DEF IInv, TypeOK, OrderRow
    <3> QED BY <1>1, <1>5, <3>1 DEF BrokerInv
  <2>3. \A i \in 1 .. Len(m) : m[i].cancelled => b.state = "cancelled"
    BY <1>2
  <2> QED BY <1>1, <1>2, <1>5, <2>1, <2>2, <2>3 DEF BrokerInv
<1> QED BY <1>1, <1>2, <1>4, <1>5, <1>6, <1>7, BrokerStep

LEMMA BrokerRejectStep ==
  ASSUME IInv, NEW o \in OrderIds, BrokerReject(o)
  PROVE  IInv'
<1> DEFINE b == [brk[o] EXCEPT !.state = "rejected"]
<1>1. /\ fills[o] \in Seq(Fills) /\ news[o] \in Seq(Messages) /\ brk[o] \in BrokerOrders
      /\ BrokerInv(o)
  BY DEF IInv, TypeOK
<1>2. b \in BrokerOrders /\ b.state = "rejected" /\ b.done = brk[o].done
  BY <1>1 DEF BrokerOrders, BrokerStates
<1>3. /\ brk[o].state = "working" /\ UNCHANGED <<programVars, fills, seen, news>>
      /\ brk' = [brk EXCEPT ![o] = b] /\ brk'[o] = b
      /\ news' = [news EXCEPT ![o] = news[o]] /\ fills' = [fills EXCEPT ![o] = fills[o]]
      /\ orders' = orders
  BY DEF BrokerReject, IInv, TypeOK, programVars
<1> HIDE DEF b
<1>4. ToldQuantity(o)' = ToldQuantity(o)
  BY <1>3 DEF ToldQuantity
<1>5. BrokerInv(o)'
  <2>1. \A i : Before(o, i)' = Before(o, i)
    BY <1>3 DEF Before
  <2> QED BY <1>1, <1>2, <1>3, <2>1 DEF BrokerInv
<1> QED BY <1>1, <1>2, <1>3, <1>4, <1>5, BrokerStep
-----------------------------------------------------------------------------
(* Steps of delivery. *)

\* The next execution of an order fits what the order has left, in spite of
\* cancellations and overfills.
LEMMA NextExecution ==
  ASSUME IInv, NEW o \in OrderIds, seen[o] < Len(fills[o])
  PROVE  LET e == fills[o][seen[o] + 1]
         IN  /\ e.size \in Nat \ {0} /\ e.price \in Prices /\ e.cum \in Nat
             /\ e.cum = orders[o].filled + e.size
             /\ e.cum <= brk[o].done
             /\ ExecutionFits(orders[o], e.size)
             /\ brk[o].state # "none"
<1> DEFINE i == seen[o] + 1
           e == fills[o][i]
<1>1. /\ fills[o] \in Seq(Fills) /\ orders[o] \in OrderRow /\ seen[o] \in Nat
      /\ BrokerInv(o) /\ OrderInv(o)
  BY DEF IInv, TypeOK
<1>2. i \in 1 .. Len(fills[o]) /\ Len(fills[o]) # 0
  BY <1>1
<1>3. e \in Fills
  BY <1>1, <1>2
<1>4. e.size \in Nat \ {0} /\ e.price \in Prices /\ e.cum \in Nat
  BY <1>3 DEF Fills
<1>5. Before(o, i) = orders[o].filled
  <2>1. CASE seen[o] = 0
    BY <1>1, <2>1 DEF Before, OrderInv, ToldQuantity
  <2>2. CASE seen[o] # 0
    <3>1. i # 1 /\ i - 1 = seen[o]
      BY <1>1, <2>2
    <3> QED BY <1>1, <2>2, <3>1 DEF Before, OrderInv, ToldQuantity
  <2> QED BY <2>1, <2>2
<1>6. /\ e.cum = Before(o, i) + e.size
      /\ e.cum <= brk[o].done
      /\ Before(o, i) < orders[o].quan => e.cum <= orders[o].quan
  BY <1>1, <1>2 DEF BrokerInv
<1> HIDE DEF e
<1>7. ExecutionFits(orders[o], e.size)
  <2>1. /\ orders[o].filled \in Nat /\ orders[o].quan \in Nat
        /\ orders[o].remaining = IF orders[o].filled < orders[o].quan
                                 THEN orders[o].quan - orders[o].filled ELSE 0
    BY <1>1 DEF OrderRow, OrderInv
  <2> QED BY <1>4, <1>5, <1>6, <2>1 DEF ExecutionFits
<1>8. brk[o].state # "none"
  BY <1>1, <1>2 DEF BrokerInv
<1> QED BY <1>4, <1>5, <1>6, <1>7, <1>8 DEF e, i

\* What an execution or a cancellation takes out of pending was pending.
LEMMA ReleasePendingFacts ==
  ASSUME NEW r \in PositionRows, NEW quan \in Nat, quan <= r.pending
  PROVE  LET s == ReleasePending(r, quan)
         IN  /\ s \in PositionRows /\ s.pending = r.pending - quan
             /\ s.active = r.active /\ s.sideActive = r.sideActive
             /\ s.constructed = r.constructed /\ s.realized = r.realized
<1> DEFINE pending == r.pending - quan
           side == IF r.pending = quan THEN "Unknown" ELSE r.sidePending
           s == ReleasePending(r, quan)
<1>1. pending \in Nat /\ side \in PositionSides
  BY DEF PositionRows, PositionSides
<1>2. s = [r EXCEPT !.pending = pending, !.sidePending = side]
  BY DEF ReleasePending, PositionRows
<1> HIDE DEF pending, side, s
<1>3. /\ s \in PositionRows /\ s.pending = pending
      /\ s.active = r.active /\ s.sideActive = r.sideActive
      /\ s.constructed = r.constructed /\ s.realized = r.realized
  BY <1>1, <1>2 DEF PositionRows
<1> QED BY <1>3 DEF pending, s

\* The order of an execution: its books add up, and one with nothing left
\* was filled by the broker, or cancelled and executed all the same.
LEMMA ExecutedOrder ==
  ASSUME IInv, NEW o \in OrderIds, seen[o] < Len(fills[o]),
         orders' = [orders EXCEPT ![o] =
                      ReportExecution(@, fills[o][seen[o] + 1].size)],
         seen' = [seen EXCEPT ![o] = @ + 1],
         UNCHANGED brokerVars
  PROVE  /\ orders' \in [OrderIds -> OrderRow] /\ seen' \in [OrderIds -> Nat]
         /\ BrokerInv(o)'
         /\ orders'[o].filled = ToldQuantity(o)'
         /\ orders'[o].remaining = IF orders'[o].filled < orders'[o].quan
                                   THEN orders'[o].quan - orders'[o].filled ELSE 0
         /\ orders'[o].quan = orders[o].quan
         /\ orders'[o].status # "Created"
         /\ orders'[o].remaining = 0 => brk[o].state \in {"filled", "cancelled"}
<1> DEFINE e == fills[o][seen[o] + 1]
           new == ReportExecution(orders[o], e.size)
<1>1. /\ orders[o] \in OrderRow /\ seen[o] \in Nat /\ brk[o] \in BrokerOrders
      /\ BrokerInv(o) /\ OrderInv(o) /\ fills[o] \in Seq(Fills)
  BY DEF IInv, TypeOK
<1>2. /\ e.size \in Nat \ {0} /\ e.price \in Prices /\ e.cum \in Nat
      /\ e.cum = orders[o].filled + e.size /\ e.cum <= brk[o].done
      /\ ExecutionFits(orders[o], e.size) /\ brk[o].state # "none"
  BY NextExecution
<1>3. /\ new \in OrderRow /\ new.quan = orders[o].quan
      /\ new.filled = orders[o].filled + e.size
      /\ new.remaining = IF orders[o].remaining = 0 THEN 0
                                                  ELSE orders[o].remaining - e.size
      /\ orders[o].status # "Created" => new.status # "Created"
  BY <1>1, <1>2, ReportExecutionFacts
<1>4. orders'[o] = new /\ seen'[o] = seen[o] + 1 /\ brk' = brk /\ fills' = fills /\ news' = news
  BY DEF IInv, TypeOK, brokerVars
<1>5. new.filled = ToldQuantity(o)'
  BY <1>1, <1>2, <1>3, <1>4 DEF ToldQuantity
<1>6. orders' \in [OrderIds -> OrderRow] /\ seen' \in [OrderIds -> Nat]
  BY <1>1, <1>3 DEF IInv, TypeOK
<1>7. /\ orders[o].filled \in Nat /\ orders[o].quan \in Nat /\ brk[o].done \in Nat
      /\ orders[o].remaining = IF orders[o].filled < orders[o].quan
                               THEN orders[o].quan - orders[o].filled ELSE 0
      /\ orders[o].status # "Created"
  BY <1>1, <1>2 DEF OrderRow, OrderInv, BrokerOrders
<1> HIDE DEF e, new
<1>8. new.remaining = IF new.filled < new.quan THEN new.quan - new.filled ELSE 0
  BY <1>2, <1>3, <1>7 DEF ExecutionFits
<1>9. new.remaining = 0 => brk[o].state \in {"filled", "cancelled"}
  <2>1. new.remaining = 0 => brk[o].done >= orders[o].quan
    BY <1>2, <1>3, <1>7, <1>8
  <2> QED BY <1>1, <1>2, <1>7, <2>1 DEF BrokerInv, BrokerOrders, BrokerStates
<1>10. BrokerInv(o)'
  <2>1. \A i : Before(o, i)' = Before(o, i)
    BY <1>4 DEF Before
  <2> QED BY <1>1, <1>3, <1>4, <2>1 DEF BrokerInv
<1> QED BY <1>3, <1>4, <1>5, <1>6, <1>7, <1>8, <1>9, <1>10

\* What a delivery does to the pending quantity: n units of an open order are
\* released, and the order stays open with the rest or leaves with all of it.
LEMMA PendingReleased ==
  ASSUME PendingInv, row \in PositionRows, NEW o \in Live, NEW n \in Nat, NEW k \in Nat,
         orders[o].remaining = k, n <= k,
         \A p \in Live \ {o} : orders'[p].remaining = orders[p].remaining,
         \/ Live' = Live /\ orders'[o].remaining = k - n
         \/ Live' = Live \ {o} /\ n = k
  PROVE  /\ n <= row.pending
         /\ row'.pending = row.pending - n => PendingInv'
<1> DEFINE S == Live
           os == orders
           ps == orders'
<1>0. /\ IsFiniteSet(Units(S, os)) /\ row.pending = Cardinality(Units(S, os))
      /\ o \in S /\ os[o].remaining = k
      /\ \A p \in S \ {o} : ps[p].remaining = os[p].remaining
  BY DEF PendingInv
<1>1. CASE Live' = Live /\ orders'[o].remaining = k - n
  <2>1. ps[o].remaining = k - n
    BY <1>1
  <2>2. Units(Live', orders') = Units(S, ps)
    BY <1>1
  <2> HIDE DEF S, os, ps
  <2>3. /\ IsFiniteSet(Units(S, ps)) /\ n <= Cardinality(Units(S, os))
        /\ Cardinality(Units(S, ps)) = Cardinality(Units(S, os)) - n
    BY <1>0, <2>1, UnitsReduced
  <2> QED BY <1>0, <2>2, <2>3 DEF PendingInv
<1>2. CASE Live' = Live \ {o} /\ n = k
  <2> DEFINE T == S \ {o}
  <2>1. Units(Live', orders') = Units(T, ps) /\ T = S \ {o}
    BY <1>2
  <2> HIDE DEF S, os, ps, T
  <2>2. /\ IsFiniteSet(Units(T, ps)) /\ k <= Cardinality(Units(S, os))
        /\ Cardinality(Units(T, ps)) = Cardinality(Units(S, os)) - k
    BY <1>0, <2>1, UnitsDropped
  <2> QED BY <1>0, <1>2, <2>1, <2>2 DEF PendingInv
<1> QED BY <1>1, <1>2

LEMMA DeliverExecutionStep ==
  ASSUME IInv, NEW o \in OrderIds, DeliverExecution(o)
  PROVE  IInv'
<1> DEFINE e == fills[o][seen[o] + 1]
           done == UpdateRowValues(row, orders[o].side, e.size, e.price)
<1>1. /\ seen[o] < Len(fills[o])
      /\ orders' = [orders EXCEPT ![o] = ReportExecution(@, e.size)]
      /\ seen' = [seen EXCEPT ![o] = @ + 1]
      /\ UNCHANGED brokerVars /\ UNCHANGED <<brk, fills, news>>
  BY DEF DeliverExecution, IInv, TypeOK, brokerVars
<1>2. /\ orders' \in [OrderIds -> OrderRow] /\ seen' \in [OrderIds -> Nat]
      /\ BrokerInv(o)'
      /\ orders'[o].filled = ToldQuantity(o)'
      /\ orders'[o].remaining = IF orders'[o].filled < orders'[o].quan
                                THEN orders'[o].quan - orders'[o].filled ELSE 0
      /\ orders'[o].quan = orders[o].quan
      /\ orders'[o].status # "Created"
      /\ orders'[o].remaining = 0 => brk[o].state \in {"filled", "cancelled"}
  BY <1>1, ExecutedOrder
<1>3. /\ e.size \in Nat \ {0} /\ e.price \in Prices /\ e.price \in Nat
      /\ ExecutionFits(orders[o], e.size) /\ brk[o].state # "none"
  BY <1>1, NextExecution, ConstantsAssumption
<1>4. /\ orders[o] \in OrderRow /\ orders[o].side \in Sides /\ orders[o].remaining \in Nat
      /\ row \in PositionRows /\ RowOK(row) /\ BrokerInv(o) /\ OrderInv(o)
      /\ portfolio \in [realized : Int, commission : Int]
  BY DEF IInv, TypeOK, OrderRow
<1>5. done \in PositionRows /\ RowOK(done) /\ done.pending = row.pending
  BY <1>3, <1>4, UpdateRowValuesTrades DEF SamePending
<1>6. orders'[o].remaining = IF orders[o].remaining = 0 THEN 0
                                                     ELSE orders[o].remaining - e.size
  BY <1>1, <1>3, <1>4, ReportExecutionFacts DEF IInv, TypeOK
<1>7. \/ /\ o \in open
         /\ row' = ReleasePending(done, e.size)
         /\ open' = IF orders'[o].remaining = 0 THEN open \ {o} ELSE open
         /\ portfolio' = PortfolioExecution(portfolio, row.realized, done.realized)
      \/ /\ o \notin open
         /\ row' = done
         /\ UNCHANGED <<open, portfolio>>
  BY DEF DeliverExecution, IsComplete, IInv, TypeOK
<1> HIDE DEF e, done
<1>8. portfolio' \in [realized : Int, commission : Int]
  <2> DEFINE realized == portfolio.realized - row.realized + done.realized
  <2>1. realized \in Int
    BY <1>4, <1>5 DEF PositionRows
  <2>2. PortfolioExecution(portfolio, row.realized, done.realized)
          = [portfolio EXCEPT !.realized = realized]
    BY DEF PortfolioExecution
  <2> HIDE DEF realized
  <2> QED BY <1>4, <1>7, <2>1, <2>2
<1>9. /\ row' \in PositionRows /\ RowOK(row') /\ PendingInv'
      /\ open' \subseteq OrderIds
      /\ o \in open' => o \in open /\ orders'[o].remaining > 0
      /\ o \notin open' => o \notin open \/ orders'[o].remaining = 0
  <2>1. CASE o \in open
    <3>1. /\ o \in Live /\ PendingInv /\ orders[o].remaining > 0
          /\ e.size <= orders[o].remaining /\ open \subseteq OrderIds
      BY <1>3, <1>4, <2>1 DEF Live, Placed, IInv, OrderInv, ExecutionFits, TypeOK
    <3>2. \A p \in Live \ {o} : orders'[p].remaining = orders[p].remaining
      BY <1>1 DEF Live, IInv, TypeOK
    <3>3. orders'[o].remaining \in Nat /\ orders'[o].remaining = orders[o].remaining - e.size
      BY <1>2, <1>6, <3>1 DEF OrderRow
    <3>4. Live' = IF orders'[o].remaining = 0 THEN Live \ {o} ELSE Live
      BY <1>1, <1>7, <2>1 DEF Live, Placed
    <3>5. /\ e.size <= row.pending
          /\ row'.pending = row.pending - e.size => PendingInv'
      <4>1. CASE orders'[o].remaining = 0
        <5>1. e.size = orders[o].remaining /\ Live' = Live \ {o}
          BY <1>3, <1>4, <3>3, <3>4, <4>1
        <5> QED BY <1>3, <1>4, <3>1, <3>2, <5>1, PendingReleased
      <4>2. CASE orders'[o].remaining # 0
        BY <1>3, <1>4, <3>1, <3>2, <3>3, <3>4, <4>2, PendingReleased
      <4> QED BY <4>1, <4>2
    <3>6. /\ row' \in PositionRows /\ row'.pending = row.pending - e.size
          /\ row'.active = done.active /\ row'.sideActive = done.sideActive
          /\ row'.constructed = done.constructed
      BY <1>3, <1>5, <1>7, <2>1, <3>5, ReleasePendingFacts
    <3>7. RowOK(row')
      BY <1>5, <3>6 DEF RowOK
    <3> QED BY <1>7, <2>1, <3>1, <3>3, <3>5, <3>6, <3>7
  <2>2. CASE o \notin open
    <3>1. Live' = Live /\ o \notin Live
      BY <1>1, <1>7, <2>2 DEF Live, Placed
    <3>2. \A p \in Live : orders'[p].remaining = orders[p].remaining
      BY <1>1, <3>1 DEF Live, IInv, TypeOK
    <3>3. PendingInv'
      BY <1>5, <1>7, <2>2, <3>1, <3>2, PendingSame DEF IInv
    <3> QED BY <1>5, <1>7, <2>2, <3>3 DEF IInv, TypeOK
  <2> QED BY <2>1, <2>2
<1>10. TypeOK'
  BY <1>1, <1>2, <1>8, <1>9 DEF IInv, TypeOK
<1>11. ASSUME NEW p \in OrderIds PROVE BrokerInv(p)' /\ OrderInv(p)'
  <2>1. CASE p # o
    BY <1>1, <1>7, <2>1, UntouchedInv DEF Untouched, IInv, TypeOK
  <2>2. CASE p = o
    <3>1. brk'[o] = brk[o]
      BY <1>1
    <3>2. OrderInv(o)'
      BY <1>2, <1>3, <1>4, <1>9, <3>1 DEF OrderInv
    <3> QED BY <1>2, <2>2, <3>2
  <2> QED BY <2>1, <2>2
<1> QED BY <1>9, <1>10, <1>11 DEF IInv

\* A commission or a cancellation: what an order filled and has left stays,
\* and a cancellation that finds the order open takes it out with its rest.
LEMMA DeliverNewsStep ==
  ASSUME IInv, NEW o \in OrderIds, NEW again \in BOOLEAN, DeliverNews(o, again)
  PROVE  IInv'
<1> DEFINE msg    == Head(news[o])
           charge == IF msg.total = Unpriced THEN 0
                     ELSE IncrementalCommission(orders[o], msg.total)
           priced == IF msg.total = Unpriced THEN orders[o]
                     ELSE SetCommission(orders[o], msg.total)
           new    == IF msg.cancelled THEN MarkAsCancelled(priced) ELSE priced
           cost   == row.commission + charge
           paid   == [row EXCEPT !.commission = cost]
           m      == IF again THEN news[o] ELSE Tail(news[o])
<1>1. /\ news[o] \in Seq(Messages) /\ orders[o] \in OrderRow /\ brk[o] \in BrokerOrders
      /\ row \in PositionRows /\ RowOK(row) /\ BrokerInv(o) /\ OrderInv(o)
      /\ portfolio \in [realized : Int, commission : Int]
      /\ open \subseteq OrderIds /\ PendingInv
  BY DEF IInv, TypeOK
<1>2. news[o] # <<>> /\ Len(news[o]) # 0 /\ msg \in Messages /\ msg = news[o][1]
  BY <1>1 DEF DeliverNews
<1>3. /\ brk[o].state # "none"
      /\ msg.cancelled => brk[o].state = "cancelled"
  BY <1>1, <1>2 DEF BrokerInv
<1>4. /\ orders' = [orders EXCEPT ![o] = new]
      /\ portfolio' = PortfolioCommission(portfolio, 0, charge)
      /\ \/ /\ msg.cancelled /\ Releasable(o)
            /\ row' = ReleasePending(paid, orders[o].remaining)
            /\ open' = open \ {o}
         \/ /\ row' = paid
            /\ UNCHANGED open
      /\ news' = [news EXCEPT ![o] = m]
      /\ UNCHANGED <<brk, fills, seen>>
  BY DEF DeliverNews, IInv, TypeOK
<1>5. /\ m \in Seq(Messages)
      /\ \A i \in 1 .. Len(m) : m[i].cancelled => brk[o].state = "cancelled"
  <2>1. CASE again
    BY <1>1, <2>1 DEF BrokerInv
  <2>2. CASE ~ again
    <3>1. m = Tail(news[o])
      BY <2>2
    <3>2. /\ m \in Seq(Messages) /\ Len(m) = Len(news[o]) - 1
          /\ \A i \in 1 .. Len(m) : m[i] = news[o][i + 1]
      <4> DEFINE q == news[o]
      <4>1. q \in Seq(Messages) /\ Len(q) # 0 /\ m = Tail(q)
        BY <1>1, <1>2, <3>1
      <4> HIDE DEF q, m
      <4>2. m \in Seq(Messages) /\ Len(m) = Len(q) - 1
        BY <4>1
      <4>3. \A i \in 1 .. Len(m) : m[i] = q[i + 1]
        BY <4>1, <4>2
      <4> QED BY <4>2, <4>3 DEF q
    <3>3. \A i \in 1 .. Len(m) : i + 1 \in 1 .. Len(news[o])
      BY <1>1, <1>2, <3>2
    <3> HIDE DEF m
    <3> QED BY <1>1, <3>2, <3>3 DEF BrokerInv
  <2> QED BY <2>1, <2>2
<1>6. charge \in Int /\ msg.total \in Int
  BY <1>1, <1>2 DEF Messages, IncrementalCommission, OrderRow
<1> HIDE DEF msg, m
<1>7. /\ priced \in OrderRow
      /\ priced.side = orders[o].side /\ priced.quan = orders[o].quan
      /\ priced.filled = orders[o].filled /\ priced.remaining = orders[o].remaining
      /\ priced.status = orders[o].status
  BY <1>1, <1>6, SetCommissionFacts
<1> HIDE DEF priced
<1>8. /\ new \in OrderRow
      /\ new.side = orders[o].side /\ new.quan = orders[o].quan
      /\ new.filled = orders[o].filled /\ new.remaining = orders[o].remaining
      /\ new.status # "Created"
  <2>1. priced.status # "Created"
    BY <1>1, <1>3, <1>7 DEF OrderInv
  <2> QED BY <1>7, <2>1, MarkAsCancelledFacts
<1> HIDE DEF new, charge
<1>9. orders'[o] = new /\ \A p \in OrderIds : orders'[p].remaining = orders[p].remaining
  BY <1>4, <1>8 DEF IInv, TypeOK
<1>10. cost \in Int
  BY <1>1, <1>6 DEF PositionRows
<1> HIDE DEF cost
<1>11. /\ paid \in PositionRows /\ RowOK(paid) /\ paid.pending = row.pending
  BY <1>1, <1>10 DEF PositionRows, RowOK
<1> HIDE DEF paid
<1>12. portfolio' \in [realized : Int, commission : Int]
  <2> DEFINE commission == portfolio.commission - 0 + charge
  <2>1. commission \in Int /\ portfolio' = [portfolio EXCEPT !.commission = commission]
    BY <1>1, <1>4, <1>6 DEF PortfolioCommission
  <2> HIDE DEF commission
  <2> QED BY <1>1, <2>1
<1>13. /\ row' \in PositionRows /\ RowOK(row') /\ PendingInv'
       /\ open' \subseteq open
       /\ o \notin open' => o \notin open \/ brk[o].state = "cancelled"
       /\ \A p \in OrderIds : p # o => (p \in open' <=> p \in open)
  <2>1. CASE /\ msg.cancelled /\ Releasable(o)
             /\ row' = ReleasePending(paid, orders[o].remaining)
             /\ open' = open \ {o}
    <3> DEFINE k == orders[o].remaining
    <3>1. /\ o \in Live /\ k \in Nat
          /\ \A p \in Live \ {o} : orders'[p].remaining = orders[p].remaining
      BY <1>1, <1>3, <1>9, <2>1 DEF Live, Placed, Releasable, OrderRow
    <3>2. Live' = Live \ {o}
      BY <1>4, <2>1 DEF Live, Placed
    <3> HIDE DEF k
    <3>3. orders[o].remaining = k /\ k <= k
      BY <3>1 DEF k
    <3>4. k <= row.pending /\ (row'.pending = row.pending - k => PendingInv')
      BY <1>1, <3>1, <3>2, <3>3, PendingReleased
    <3>5. /\ row' \in PositionRows /\ row'.pending = row.pending - k
          /\ row'.active = paid.active /\ row'.sideActive = paid.sideActive
          /\ row'.constructed = paid.constructed
      BY <1>11, <2>1, <3>1, <3>3, <3>4, ReleasePendingFacts
    <3>6. RowOK(row')
      BY <1>11, <3>5 DEF RowOK
    <3> QED BY <1>3, <2>1, <3>4, <3>5, <3>6
  <2>2. CASE row' = paid /\ UNCHANGED open
    <3>1. Live' = Live /\ \A p \in Live : orders'[p].remaining = orders[p].remaining
      BY <1>1, <1>4, <1>9, <2>2 DEF Live, Placed
    <3>2. PendingInv'
      BY <1>1, <1>11, <2>2, <3>1, PendingSame
    <3> QED BY <1>11, <2>2, <3>2
  <2> QED BY <1>4, <2>1, <2>2
<1>14. TypeOK'
  BY <1>1, <1>4, <1>5, <1>8, <1>12, <1>13 DEF IInv, TypeOK
<1>15. ASSUME NEW p \in OrderIds PROVE BrokerInv(p)' /\ OrderInv(p)'
  <2>1. CASE p # o
    BY <1>4, <1>13, <2>1, UntouchedInv DEF Untouched, IInv, TypeOK
  <2>2. CASE p = o
    <3>1. /\ brk'[o] = brk[o] /\ fills'[o] = fills[o] /\ seen'[o] = seen[o] /\ news'[o] = m
      BY <1>4 DEF IInv, TypeOK
    <3>2. \A i : Before(o, i)' = Before(o, i)
      BY <3>1 DEF Before
    <3>3. BrokerInv(o)'
      BY <1>1, <1>3, <1>5, <1>8, <1>9, <3>1, <3>2 DEF BrokerInv
    <3>4. ToldQuantity(o)' = ToldQuantity(o)
      BY <3>1 DEF ToldQuantity
    <3>5. OrderInv(o)'
      BY <1>1, <1>3, <1>8, <1>9, <1>13, <3>1, <3>4 DEF OrderInv
    <3> QED BY <2>2, <3>3, <3>5
  <2> QED BY <2>1, <2>2
<1> QED BY <1>13, <1>14, <1>15 DEF IInv
-----------------------------------------------------------------------------
(* The theorems. *)

\* The invariant is inductive.
LEMMA StepInv == IInv /\ [Next]_vars => IInv'
<1> SUFFICES ASSUME IInv, [Next]_vars PROVE IInv'
  OBVIOUS
<1>1. CASE UNCHANGED vars
  <2> USE <1>1 DEF vars
  <2>1. TypeOK' /\ RowOK(row)'
    BY DEF IInv, TypeOK, RowOK
  <2>2. ASSUME NEW o \in OrderIds PROVE BrokerInv(o)' /\ OrderInv(o)'
    BY UntouchedInv DEF IInv, Untouched
  <2>3. Live' = Live
    BY DEF Live, Placed
  <2>4. PendingInv'
    BY <2>3, PendingSame DEF IInv
  <2> QED BY <2>1, <2>2, <2>4 DEF IInv
<1>2. ASSUME NEW o \in OrderIds, Strategy(o) PROVE IInv'
  BY <1>2, ConstructOrderStep, PlaceOrderStep, ClosePositionStep, CancelOrderStep
     DEF Strategy
<1>3. ASSUME NEW o \in OrderIds, Broker(o) PROVE IInv'
  BY <1>3, BrokerFillStep, BrokerOverfillStep, BrokerCancelStep, BrokerRejectStep
     DEF Broker
<1>4. ASSUME NEW o \in OrderIds, Deliver(o) PROVE IInv'
  BY <1>4, DeliverExecutionStep, DeliverNewsStep DEF Deliver
<1> QED BY <1>1, <1>2, <1>3, <1>4 DEF Next

THEOREM Inductive == Spec => []IInv
BY InitInv, StepInv, PTL DEF Spec

\* Every variable keeps its type: in particular the unsigned quantities of
\* Order and Position never go below zero.
THEOREM TypeCorrect == Spec => []TypeOK
<1>1. IInv => TypeOK
  BY DEF IInv
<1> QED BY <1>1, Inductive, PTL

\* Order counts every execution it is told of, once: ReportExecution keeps
\* filled and remaining consistent through cancellations and overfills.
THEOREM QuantityIsConserved == Spec => []QuantityConserved
<1>1. IInv => QuantityConserved
  BY DEF IInv, OrderInv, QuantityConserved
<1> QED BY <1>1, Inductive, PTL

\* Position::PlaceOrder, HandleExecution and HandleCancellation together
\* release every pending unit exactly once.
THEOREM PendingIsReleasedOnce == Spec => []PendingIsOpenRemaining
<1>1. PendingUnits = Units(Live, orders)
  BY DEF PendingUnits, Units, Live
<1>2. IInv => PendingIsOpenRemaining
  BY <1>1 DEF IInv, PendingInv, PendingIsOpenRemaining
<1> QED BY <1>2, Inductive, PTL

\* Position drops an order from m_vOpenOrders only after the broker ended it.
THEOREM DroppedOrdersAreOver == Spec => []ClosedOrdersAreOver
<1>1. ASSUME IInv, NEW o \in OrderIds, Constructed(o), o \notin open
      PROVE  brk[o].state \in {"filled", "cancelled"}
  BY <1>1 DEF IInv, OrderInv, TypeOK, OrderRow, Constructed
<1>2. IInv => ClosedOrdersAreOver
  BY <1>1 DEF ClosedOrdersAreOver
<1> QED BY <1>2, Inductive, PTL

-----------------------------------------------------------------------------
(* The refinement. *)

\* A step that neither creates an order nor fills one moves neither units nor
\* money.
LEMMA LedgerSame ==
  ASSUME TypeOK, orders' \in [OrderIds -> OrderRow],
         \A o \in OrderIds : /\ orders'[o].side = orders[o].side
                             /\ orders'[o].quan = orders[o].quan
                             /\ orders'[o].filled = orders[o].filled,
         row'.active = row.active, row'.sideActive = row.sideActive,
         row'.realized = row.realized, row'.constructed = row.constructed
  PROVE  UNCHANGED Ledger!vars
<1>1. [o \in OrderIds |-> [side |-> orders'[o].side, quan |-> orders'[o].quan]]
        = [o \in OrderIds |-> [side |-> orders[o].side, quan |-> orders[o].quan]]
  OBVIOUS
<1>2. [o \in OrderIds |-> orders'[o].filled] = [o \in OrderIds |-> orders[o].filled]
  OBVIOUS
<1>3. Net(row)' = Net(row) /\ Cash(row)' = Cash(row)
  BY DEF Net, Cash
<1> QED BY <1>1, <1>2, <1>3 DEF Ledger!vars

\* A constructed order is an accepted one.
LEMMA LedgerAccepts ==
  ASSUME IInv, NEW o \in OrderIds, NEW new \in OrderRow,
         orders[o].quan = 0, orders' = [orders EXCEPT ![o] = new],
         new.quan > 0, new.filled = 0,
         row'.active = row.active, row'.sideActive = row.sideActive,
         row'.realized = row.realized, row'.constructed = row.constructed
  PROVE  Ledger!Next
<1> DEFINE ordered == [p \in OrderIds |-> [side |-> orders[p].side, quan |-> orders[p].quan]]
           traded == [p \in OrderIds |-> orders[p].filled]
<1>1. orders'[o] = new /\ \A p \in OrderIds \ {o} : orders'[p] = orders[p]
  BY DEF IInv, TypeOK
<1>2. orders[o].filled = 0
  BY DEF IInv, OrderInv, BrokerInv, ToldQuantity, TypeOK
<1>3. ordered' = [ordered EXCEPT ![o] = [side |-> new.side, quan |-> new.quan]]
  BY <1>1
<1>4. traded' = traded
  BY <1>1, <1>2
<1>5. Net(row)' = Net(row) /\ Cash(row)' = Cash(row)
  BY DEF Net, Cash
<1>6. ordered[o].quan = 0 /\ ordered'[o].quan = new.quan
      /\ new.quan \in Nat \ {0} /\ new.side \in {"Buy", "Sell"}
  BY <1>1 DEF OrderRow, Sides
<1>7. Ledger!Accept(o, new.side, new.quan)
  BY <1>3, <1>4, <1>5, <1>6 DEF Ledger!Accept
<1>8. \E side \in {"Buy", "Sell"}, quan \in {ordered'[o].quan} : Ledger!Accept(o, side, quan)
  BY <1>6, <1>7
<1> QED BY <1>8 DEF Ledger!Next

\* What a commission or a cancellation does is no trade.
LEMMA NewsTrades ==
  ASSUME IInv, IInv', NEW o \in OrderIds, NEW again \in BOOLEAN, DeliverNews(o, again)
  PROVE  UNCHANGED Ledger!vars
<1> DEFINE msg    == Head(news[o])
           priced == IF msg.total = Unpriced THEN orders[o]
                     ELSE SetCommission(orders[o], msg.total)
           new    == IF msg.cancelled THEN MarkAsCancelled(priced) ELSE priced
           charge == IF msg.total = Unpriced THEN 0
                     ELSE IncrementalCommission(orders[o], msg.total)
           cost   == row.commission + charge
           paid   == [row EXCEPT !.commission = cost]
<1>1. /\ TypeOK /\ orders' \in [OrderIds -> OrderRow]
      /\ orders[o] \in OrderRow /\ row \in PositionRows /\ orders[o].remaining \in Nat
      /\ news[o] \in Seq(Messages)
  BY DEF IInv, TypeOK, OrderRow
<1>2. /\ news[o] # <<>>
      /\ orders' = [orders EXCEPT ![o] = new]
      /\ row' = paid \/ row' = ReleasePending(paid, orders[o].remaining)
  BY DEF DeliverNews, TypeOK, IInv
<1>3. msg \in Messages
  BY <1>1, <1>2
<1>4. msg.total \in Int
  BY <1>3 DEF Messages
<1> HIDE DEF msg
<1>5. /\ priced \in OrderRow
      /\ priced.side = orders[o].side /\ priced.quan = orders[o].quan
      /\ priced.filled = orders[o].filled
  BY <1>1, <1>4, SetCommissionFacts
<1> HIDE DEF priced
<1>6. /\ new.side = orders[o].side /\ new.quan = orders[o].quan
      /\ new.filled = orders[o].filled
  BY <1>5, MarkAsCancelledFacts
<1> HIDE DEF new, charge, cost
<1>7. \A p \in OrderIds : /\ orders'[p].side = orders[p].side
                          /\ orders'[p].quan = orders[p].quan
                          /\ orders'[p].filled = orders[p].filled
  BY <1>1, <1>2, <1>6 DEF TypeOK
<1>8. /\ row'.active = row.active /\ row'.sideActive = row.sideActive
      /\ row'.realized = row.realized /\ row'.constructed = row.constructed
  BY <1>1, <1>2 DEF ReleasePending, PositionRows
<1> QED BY <1>1, <1>7, <1>8, LedgerSame

\* A delivered execution is a trade, whether its order is still open or not.
LEMMA LedgerTrades ==
  ASSUME IInv, IInv', NEW o \in OrderIds, DeliverExecution(o)
  PROVE  Ledger!Next
<1> DEFINE ordered == [p \in OrderIds |-> [side |-> orders[p].side, quan |-> orders[p].quan]]
           traded == [p \in OrderIds |-> orders[p].filled]
           e == fills[o][seen[o] + 1]
           n == e.size
           price == e.price
           side == orders[o].side
           done == UpdateRowValues(row, side, n, price)
           new == ReportExecution(orders[o], n)
<1>1. /\ orders' = [orders EXCEPT ![o] = new] /\ seen[o] < Len(fills[o])
      /\ row' = done \/ row' = ReleasePending(done, n)
  BY DEF DeliverExecution, IInv, TypeOK
<1>2. /\ n \in Nat \ {0} /\ price \in Prices /\ price \in Nat
      /\ ExecutionFits(orders[o], n) /\ brk[o].state # "none"
  BY <1>1, NextExecution, ConstantsAssumption
<1>3. /\ orders[o] \in OrderRow /\ side \in Sides /\ row \in PositionRows /\ RowOK(row)
      /\ OrderInv(o) /\ orders[o].quan \in Nat /\ orders[o].filled \in Nat
  BY DEF IInv, TypeOK, OrderRow
<1> HIDE DEF e
<1>4. /\ new.side = orders[o].side /\ new.quan = orders[o].quan
      /\ new.filled = orders[o].filled + n
  BY <1>2, <1>3, ReportExecutionFacts
<1> HIDE DEF n, price
<1>5. done \in PositionRows /\ Traded(row, done, side, n, price)
  BY <1>2, <1>3, UpdateRowValuesTrades
<1> HIDE DEF done, new
<1>6. /\ row'.active = done.active /\ row'.sideActive = done.sideActive
      /\ row'.constructed = done.constructed /\ row'.realized = done.realized
  BY <1>1, <1>5 DEF ReleasePending, PositionRows
<1>7. Net(row') = Net(done) /\ Cash(row') = Cash(done)
  BY <1>6 DEF Net, Cash
<1>8. /\ Net(row)' = Net(row) + Ledger!Sign(side) * n
      /\ Cash(row)' = Cash(row) - Ledger!Sign(side) * (n * price * Multiplier)
  <2> DEFINE v == n * price * Multiplier
  <2>1. v \in Int /\ Value(side, n, price) = IF side = "Buy" THEN v ELSE - v
    BY <1>2, MultiplierAssumption DEF Value
  <2> HIDE DEF v
  <2>2. Value(side, n, price) = Ledger!Sign(side) * v
    BY <2>1 DEF Ledger!Sign
  <2>3. Net(row)' = Net(row') /\ Cash(row)' = Cash(row')
    BY DEF Net, Cash
  <2> QED BY <1>5, <1>7, <2>2, <2>3 DEF Traded, Ledger!Sign, v
<1>9. orders'[o] = new /\ \A p \in OrderIds \ {o} : orders'[p] = orders[p]
  BY <1>1 DEF IInv, TypeOK
<1>10. ordered' = ordered
  BY <1>4, <1>9
<1>11. traded' = [traded EXCEPT ![o] = @ + n] /\ n = traded'[o] - traded[o]
  <2> DEFINE filled == orders[o].filled
             total == filled + n
  <2>1. /\ traded[o] = filled /\ orders'[o].filled = total
        /\ \A p \in OrderIds \ {o} : orders'[p].filled = orders[p].filled
    BY <1>4, <1>9
  <2>2. filled \in Nat /\ n = total - filled
    BY <1>2, <1>3
  <2> HIDE DEF filled, total, n
  <2>3. traded' = [traded EXCEPT ![o] = total]
    BY <2>1
  <2>4. n = traded'[o] - traded[o]
    BY <2>1, <2>2, <2>3
  <2> QED BY <2>1, <2>3, <2>4 DEF total
<1>12. /\ orders[o].quan > 0
       /\ orders[o].filled < orders[o].quan => orders[o].filled + n <= orders[o].quan
  BY <1>2, <1>3 DEF OrderInv, ExecutionFits
<1>13. PICK m \in {n}, p \in {price} : TRUE
  OBVIOUS
<1>14. Ledger!Trade(o, m, p)
  BY <1>2, <1>8, <1>10, <1>11, <1>12, <1>13 DEF Ledger!Trade
<1>15. p \in Prices /\ m \in {traded'[o] - traded[o]}
  BY <1>2, <1>11, <1>13
<1> QED BY <1>14, <1>15 DEF Ledger!Next

\* The program maps its initial states and steps to the ledger's: an execution
\* counts once, with its size, price and side, and nothing else moves the
\* quantity held or the money.
THEOREM Refinement == Spec => ImplementsLedger
<1>1. Init => Ledger!Init
  BY DEF Init, Ledger!Init, NewOrder, EmptyRow, Net, Cash
<1>2. IInv /\ IInv' /\ [Next]_vars => [Ledger!Next]_(Ledger!vars)
  <2> SUFFICES ASSUME IInv, IInv', [Next]_vars
               PROVE  Ledger!Next \/ UNCHANGED Ledger!vars
    OBVIOUS
  <2>0. /\ TypeOK /\ row \in PositionRows /\ orders' \in [OrderIds -> OrderRow]
        /\ \A o \in OrderIds : orders[o] \in OrderRow /\ orders[o].side \in Sides
    BY DEF IInv, TypeOK, OrderRow
  <2>1. CASE orders' = orders /\ row' = row
    BY <2>0, <2>1, LedgerSame
  <2>2. ASSUME NEW o \in OrderIds, Strategy(o)
        PROVE  Ledger!Next \/ UNCHANGED Ledger!vars
    <3>1. ASSUME NEW side \in Sides, NEW quan \in Quantities, ConstructOrder(o, side, quan)
          PROVE  Ledger!Next
      <4> DEFINE new == NewOrder(side, quan)
      <4>1. quan \in Nat \ {0}
        BY ConstantsAssumption
      <4>2. /\ new \in OrderRow /\ new.quan > 0 /\ new.filled = 0
            /\ orders' = [orders EXCEPT ![o] = new] /\ row' = row
            /\ orders[o].quan = 0
        BY <2>0, <3>1, <4>1, NewOrderFacts DEF ConstructOrder, Constructed, OrderRow
      <4> HIDE DEF new
      <4> QED BY <4>2, LedgerAccepts
    <3>2. ASSUME PlaceOrder(o) PROVE UNCHANGED Ledger!vars
      <4>1. /\ orders' = [orders EXCEPT ![o] = SetSendingToProvider(orders[o])]
            /\ orders[o] \in OrderRow /\ orders[o].quan \in Nat
            /\ row' = AddPending(row, orders[o].side, orders[o].quan)
            /\ row \in PositionRows
        BY <2>0, <3>2 DEF PlaceOrder, OrderRow
      <4>2. /\ row'.active = row.active /\ row'.sideActive = row.sideActive
            /\ row'.realized = row.realized /\ row'.constructed = row.constructed
        BY <2>0, <4>1, AddPendingFacts
      <4>3. \A p \in OrderIds : /\ orders'[p].side = orders[p].side
                                /\ orders'[p].quan = orders[p].quan
                                /\ orders'[p].filled = orders[p].filled
        BY <2>0, <4>1, SetSendingFacts DEF TypeOK
      <4> QED BY <2>0, <4>2, <4>3, LedgerSame
    <3>3. ASSUME ClosePosition(o) PROVE Ledger!Next
      <4> DEFINE side == IF row.sideActive = "Buy" THEN "Sell" ELSE "Buy"
                 new == SetSendingToProvider(NewOrder(side, row.active))
      <4>1. row.active \in Nat \ {0} /\ side \in Sides
        BY <2>0, <3>3 DEF PositionRows, ClosePosition, Sides
      <4>2. /\ orders' = [orders EXCEPT ![o] = new] /\ orders[o].quan = 0
            /\ row' = AddPending(row, side, row.active)
        BY <2>0, <3>3 DEF ClosePosition, Constructed, OrderRow
      <4> HIDE DEF side
      <4>3. new \in OrderRow /\ new.quan > 0 /\ new.filled = 0
        BY <4>1, NewOrderFacts, SetSendingFacts
      <4> HIDE DEF new
      <4>4. /\ row'.active = row.active /\ row'.sideActive = row.sideActive
            /\ row'.realized = row.realized /\ row'.constructed = row.constructed
        BY <2>0, <4>1, <4>2, AddPendingFacts
      <4> QED BY <4>2, <4>3, <4>4, LedgerAccepts
    <3>4. ASSUME CancelOrder(o) PROVE UNCHANGED Ledger!vars
      BY <2>1, <3>4, LedgerSame, <2>0 DEF CancelOrder
    <3> QED BY <2>2, <3>1, <3>2, <3>3, <3>4 DEF Strategy
  <2>3. ASSUME NEW o \in OrderIds, Broker(o)
        PROVE  UNCHANGED Ledger!vars
    <3>1. orders' = orders /\ row' = row
      BY <2>3 DEF Broker, BrokerFill, BrokerOverfill, BrokerCancel, BrokerReject, programVars
    <3> QED BY <2>0, <3>1, LedgerSame
  <2>4. ASSUME NEW o \in OrderIds, NEW again \in BOOLEAN, DeliverNews(o, again)
        PROVE  UNCHANGED Ledger!vars
    BY <2>0, <2>4, NewsTrades
  <2>5. ASSUME NEW o \in OrderIds, Deliver(o)
        PROVE  Ledger!Next \/ UNCHANGED Ledger!vars
    BY <2>4, <2>5, LedgerTrades DEF Deliver
  <2> QED BY <2>1, <2>2, <2>3, <2>5 DEF Next, vars
<1>3. Spec => Ledger!Spec
  BY <1>1, <1>2, Inductive, PTL DEF Spec, Ledger!Spec
<1> QED BY <1>3 DEF ImplementsLedger
-----------------------------------------------------------------------------
(***************************************************************************)
(* What becomes of executions and orders, for any number of orders: the    *)
(* status of an order tells how it ended, what an execution realizes       *)
(* reaches the portfolio, and what a position realizes when it is closed.  *)
(***************************************************************************)
(* What moves neither units nor money. *)

\* The profit realized and the units held stay, and no order is cancelled back.
Neutral ==
  /\ row'.realized = row.realized /\ portfolio'.realized = portfolio.realized
  /\ row'.active = row.active
  /\ \A o \in OrderIds : brk[o].state = "cancelled" => brk'[o].state = "cancelled"

LEMMA StrategyNeutral ==
  ASSUME IInv, NEW o \in OrderIds, Strategy(o)
  PROVE  Neutral
<1>0. /\ TypeOK /\ row \in PositionRows /\ row.active \in Nat
      /\ brk \in [OrderIds -> BrokerOrders] /\ OrderInv(o) /\ orders[o] \in OrderRow
  BY DEF IInv, TypeOK, PositionRows
<1>1. CASE \E side \in Sides, quan \in Quantities : ConstructOrder(o, side, quan)
  BY <1>1 DEF ConstructOrder, Neutral
<1>2. CASE PlaceOrder(o)
  <2>1. row' = AddPending(row, orders[o].side, orders[o].quan)
        /\ portfolio' = portfolio /\ brk' = [brk EXCEPT ![o].state = "working"]
        /\ brk[o].state = "none" /\ orders[o].side \in Sides /\ orders[o].quan \in Nat
    BY <1>0, <1>2 DEF PlaceOrder, MaySend, OrderInv, OrderRow
  <2>2. row'.active = row.active /\ row'.realized = row.realized
    BY <1>0, <2>1, AddPendingFacts
  <2> QED BY <1>0, <2>1, <2>2 DEF Neutral, BrokerOrders
<1>3. CASE ClosePosition(o)
  <2>1. /\ \E side \in Sides : row' = AddPending(row, side, row.active)
        /\ portfolio' = portfolio /\ brk' = [brk EXCEPT ![o].state = "working"]
        /\ brk[o].state = "none"
    BY <1>0, <1>3 DEF ClosePosition, Constructed, OrderInv, Sides, OrderRow
  <2>2. row'.active = row.active /\ row'.realized = row.realized
    BY <1>0, <2>1, AddPendingFacts
  <2> QED BY <1>0, <2>1, <2>2 DEF Neutral, BrokerOrders
<1>4. CASE CancelOrder(o)
  BY <1>0, <1>4 DEF CancelOrder, Neutral, BrokerOrders
<1> QED BY <1>1, <1>2, <1>3, <1>4 DEF Strategy

LEMMA BrokerNeutral ==
  ASSUME IInv, NEW o \in OrderIds, Broker(o)
  PROVE  Neutral
<1>0. brk \in [OrderIds -> BrokerOrders]
  BY DEF IInv, TypeOK
<1>1. row' = row /\ portfolio' = portfolio
  BY DEF Broker, BrokerFill, BrokerOverfill, BrokerCancel, BrokerReject, programVars
<1>2. ASSUME NEW p \in OrderIds, brk[p].state = "cancelled"
      PROVE  brk'[p].state = "cancelled"
  BY <1>0, <1>2
     DEF Broker, BrokerFill, BrokerOverfill, BrokerCancel, BrokerReject, BrokerOrders
<1> QED BY <1>1, <1>2 DEF Neutral

LEMMA NewsNeutral ==
  ASSUME IInv, NEW o \in OrderIds, NEW again \in BOOLEAN, DeliverNews(o, again)
  PROVE  Neutral
<1> DEFINE charge == IF Head(news[o]).total = Unpriced THEN 0
                     ELSE IncrementalCommission(orders[o], Head(news[o]).total)
           cost == row.commission + charge
           paid == [row EXCEPT !.commission = cost]
<1>1. row \in PositionRows /\ portfolio \in [realized : Int, commission : Int]
  BY DEF IInv, TypeOK
<1>2. /\ portfolio' = PortfolioCommission(portfolio, 0, charge)
      /\ \/ row' = ReleasePending(paid, orders[o].remaining)
         \/ row' = paid
      /\ brk' = brk
  BY DEF DeliverNews
<1> HIDE DEF charge, cost
<1>3. row'.realized = row.realized /\ row'.active = row.active
  BY <1>1, <1>2 DEF ReleasePending, PositionRows
<1>4. portfolio'.realized = portfolio.realized
  BY <1>1, <1>2 DEF PortfolioCommission
<1> QED BY <1>2, <1>3, <1>4 DEF Neutral

\* The next execution: the row as UpdateRowValues leaves it, and the portfolio,
\* which is told when the order is open.
LEMMA ExecutionTrades ==
  ASSUME IInv, NEW o \in OrderIds, DeliverExecution(o)
  PROVE  /\ row'.active = 0 /\ row.active > 0 => Residue(row, row')
         /\ o \in open =>
              portfolio'.realized - portfolio.realized = row'.realized - row.realized
         /\ seen'[o] > seen[o]
<1> DEFINE e == fills[o][seen[o] + 1]
           done == UpdateRowValues(row, orders[o].side, e.size, e.price)
<1>1. /\ seen[o] < Len(fills[o]) /\ seen' = [seen EXCEPT ![o] = @ + 1]
      /\ \/ /\ o \in open
            /\ row' = ReleasePending(done, e.size)
            /\ portfolio' = PortfolioExecution(portfolio, row.realized, done.realized)
         \/ o \notin open /\ row' = done
  BY DEF DeliverExecution
<1>2. /\ e.size \in Nat \ {0} /\ e.price \in Nat
  BY <1>1, NextExecution, ConstantsAssumption
<1>3. /\ row \in PositionRows /\ RowOK(row) /\ orders[o].side \in Sides
      /\ portfolio \in [realized : Int, commission : Int] /\ seen \in [OrderIds -> Nat]
  BY DEF IInv, TypeOK, OrderRow
<1>4. done \in PositionRows /\ (row.active > 0 /\ done.active = 0 => Residue(row, done))
  BY <1>2, <1>3, UpdateRowValuesTrades
<1> HIDE DEF done, e
<1>5. row'.active = done.active /\ row'.realized = done.realized
      /\ row'.constructed = done.constructed
  BY <1>1, <1>4 DEF ReleasePending, PositionRows
<1>6. ASSUME o \in open
      PROVE  portfolio'.realized - portfolio.realized = row'.realized - row.realized
  <2> DEFINE realized == portfolio.realized - row.realized + done.realized
  <2>1. portfolio' = [portfolio EXCEPT !.realized = realized]
    BY <1>1, <1>6 DEF PortfolioExecution
  <2>2. /\ portfolio.realized \in Int /\ row.realized \in Int /\ done.realized \in Int
    BY <1>3, <1>4 DEF PositionRows
  <2> HIDE DEF realized
  <2>3. portfolio'.realized = realized
    BY <1>3, <2>1
  <2> QED BY <1>5, <2>2, <2>3 DEF realized
<1>7. seen'[o] > seen[o]
  BY <1>1, <1>3
<1> QED BY <1>4, <1>5, <1>6, <1>7 DEF Residue

\* UpdateRowValues keeps side and quantity together, and what closing a
\* position leaves in the constructed value does not depend on what earlier
\* round trips left there.
THEOREM ClosingRealizes == Spec => FlatIsRealized
<1>1. ASSUME IInv, IInv', [Next]_vars
      PROVE  /\ row'.active = 0 <=> row'.sideActive = "Unknown"
             /\ row.active > 0 /\ row'.active = 0 =>
                  row'.constructed \in 0 .. row.active * Multiplier - 1
  <2>1. RowOK(row)'
    BY <1>1 DEF IInv
  <2>2. ASSUME row.active > 0, row'.active = 0 PROVE Residue(row, row')
    <3>1. CASE UNCHANGED vars
      BY <2>2, <3>1 DEF vars
    <3>2. ASSUME NEW o \in OrderIds, DeliverExecution(o) PROVE Residue(row, row')
      BY <1>1, <2>2, <3>2, ExecutionTrades
    <3>3. CASE Neutral
      BY <2>2, <3>3 DEF Neutral
    <3> QED BY <1>1, <3>1, <3>2, <3>3, StrategyNeutral, BrokerNeutral, NewsNeutral
            DEF Next, Deliver
  <2> QED BY <2>1, <2>2 DEF RowOK, Residue
<1> QED BY <1>1, Inductive, PTL DEF Spec, FlatIsRealized
-----------------------------------------------------------------------------
(* The status of an order. *)

\* The statuses an order reaches; what each says of the order and of the
\* broker; and an order that left the open ones was complete or reported as
\* cancelled.
StatusInv(o) ==
  /\ orders[o].status \in
       {"Created", "SendingToProvider", "Filling", "Filled"} \cup CancelStatuses
  /\ orders[o].quan > 0 =>
       /\ orders[o].status = "Filled" => orders[o].remaining = 0
       /\ orders[o].remaining = 0 =>
            orders[o].status = "Filled" \/ brk[o].state = "cancelled"
       /\ o \notin open => WasOver(o)
  /\ orders[o].status \in CancelStatuses => brk[o].state = "cancelled"

SInv == IInv /\ \A o \in OrderIds : StatusInv(o)

LEMMA StatusSame ==
  ASSUME NEW o \in OrderIds, StatusInv(o), orders'[o].quan = orders[o].quan,
         orders'[o].status = orders[o].status, orders'[o].remaining = orders[o].remaining,
         brk[o].state = "cancelled" => brk'[o].state = "cancelled",
         o \in open => o \in open'
  PROVE  StatusInv(o)'
BY DEF StatusInv, WasOver

\* A new order is open, has something left, and has neither filled nor been
\* cancelled.
LEMMA StatusStarts ==
  ASSUME NEW o \in OrderIds, orders'[o].status \in {"Created", "SendingToProvider"},
         orders'[o].remaining # 0, o \in open'
  PROVE  StatusInv(o)'
BY DEF StatusInv, CancelStatuses

LEMMA StrategyStatus ==
  ASSUME SInv, NEW o \in OrderIds, Strategy(o), NEW p \in OrderIds
  PROVE  StatusInv(p)'
<1>0. /\ TypeOK /\ OrderInv(o) /\ BrokerInv(o) /\ StatusInv(p) /\ orders[o] \in OrderRow
      /\ orders[o].quan \in Nat /\ row.active \in Nat
      /\ \A q \in open : q \in open'
  BY DEF SInv, IInv, TypeOK, OrderRow, PositionRows, Strategy, ConstructOrder, PlaceOrder,
         ClosePosition, CancelOrder
<1>1. CASE p # o
  <2>1. orders'[p] = orders[p] /\ brk'[p].state = brk[p].state
    BY <1>0, <1>1 DEF Strategy, ConstructOrder, PlaceOrder, ClosePosition, CancelOrder, TypeOK
  <2> QED BY <1>0, <2>1, StatusSame
<1>2. CASE p = o
  <2>1. ASSUME NEW side \in Sides, NEW quan \in Quantities, ConstructOrder(o, side, quan)
        PROVE  StatusInv(o)'
    <3>1. orders'[o] = NewOrder(side, quan) /\ quan # 0 /\ o \in open'
      BY <1>0, <2>1, ConstantsAssumption DEF ConstructOrder, TypeOK
    <3> QED BY <3>1, StatusStarts DEF NewOrder
  <2>2. CASE PlaceOrder(o)
    <3>1. orders'[o] = SetSendingToProvider(orders[o]) /\ orders[o].quan > 0
          /\ orders[o].status = "Created"
      BY <1>0, <2>2 DEF PlaceOrder, TypeOK, Constructed, MaySend
    <3>2. brk[o].state = "none"
      BY <1>0, <3>1 DEF OrderInv
    <3>3. orders[o].filled = 0
      BY <1>0, <3>2 DEF OrderInv, BrokerInv, ToldQuantity, TypeOK
    <3>4. orders[o].remaining # 0
      BY <1>0, <3>1, <3>3 DEF OrderInv
    <3>5. orders'[o].status = "SendingToProvider" /\ orders'[o].remaining # 0
      BY <1>0, <3>1, <3>4, SetSendingFacts
    <3>7. o \in open'
      BY <1>0, <2>2, <3>1, <3>2 DEF PlaceOrder, OrderInv
    <3>6. StatusInv(o)'
      BY <3>5, <3>7, StatusStarts
    <3> QED BY <1>2, <3>6
  <2>3. CASE ClosePosition(o)
    <3>1. /\ row.active # 0
          /\ \E side \in {"Buy", "Sell"} :
               orders'[o] = SetSendingToProvider(NewOrder(side, row.active))
      BY <1>0, <2>3 DEF ClosePosition, TypeOK
    <3>2. orders'[o].status = "SendingToProvider" /\ orders'[o].remaining = row.active
      BY <3>1 DEF SetSendingToProvider, NewOrder
    <3>3. orders'[o].status \in {"Created", "SendingToProvider"} /\ orders'[o].remaining # 0
          /\ o \in open'
      BY <2>3, <3>1, <3>2 DEF ClosePosition
    <3>4. StatusInv(o)'
      BY <3>3, StatusStarts
    <3> QED BY <1>2, <3>4
  <2>4. CASE CancelOrder(o)
    <3>1. orders' = orders /\ brk'[o].state = brk[o].state
      BY <1>0, <2>4 DEF CancelOrder, TypeOK, BrokerOrders
    <3> QED BY <1>0, <1>2, <3>1, StatusSame
  <2> QED BY <1>2, <2>1, <2>2, <2>3, <2>4 DEF Strategy
<1> QED BY <1>1, <1>2

LEMMA BrokerStatus ==
  ASSUME SInv, NEW o \in OrderIds, Broker(o), NEW p \in OrderIds
  PROVE  StatusInv(p)'
<1>1. StatusInv(p) /\ orders' = orders /\ open' = open
  BY DEF SInv, Broker, BrokerFill, BrokerOverfill, BrokerCancel, BrokerReject, programVars
<1>2. brk[p].state = "cancelled" => brk'[p].state = "cancelled"
  BY BrokerNeutral DEF SInv, Neutral
<1> QED BY <1>1, <1>2, StatusSame

LEMMA ExecutionStatus ==
  ASSUME SInv, NEW o \in OrderIds, DeliverExecution(o), NEW p \in OrderIds
  PROVE  StatusInv(p)'
<1> DEFINE e == fills[o][seen[o] + 1]
           new == ReportExecution(orders[o], e.size)
<1>0. /\ TypeOK /\ IInv /\ StatusInv(o) /\ StatusInv(p) /\ OrderInv(o)
      /\ orders[o] \in OrderRow
  BY DEF SInv, IInv, TypeOK
<1>1. /\ seen[o] < Len(fills[o]) /\ brk' = brk
      /\ orders' = [orders EXCEPT ![o] = new]
      /\ \/ open' = IF IsComplete(new) THEN open \ {o} ELSE open
         \/ o \notin open /\ open' = open
  BY <1>0 DEF DeliverExecution, brokerVars, TypeOK
<1>3. e.size \in Nat \ {0} /\ brk[o].state # "none"
  BY <1>0, <1>1, NextExecution
<1>4. orders[o].quan > 0 /\ orders[o].status # "Created"
  BY <1>0, <1>3 DEF OrderInv, OrderRow
<1>5. orders'[o] = new /\ \A q \in OrderIds \ {o} : orders'[q] = orders[q]
  BY <1>0, <1>1 DEF TypeOK
<1> HIDE DEF e
<1> DEFINE left == IF orders[o].remaining = 0 THEN 0 ELSE orders[o].remaining - e.size
           status == IF left = 0 THEN StatusWhenComplete(orders[o])
                                 ELSE StatusWhenPartial(orders[o])
<1>6. new.remaining = left /\ new.status = status /\ new.quan = orders[o].quan
  <2> DEFINE filled == orders[o].filled + e.size
  <2>1. new = [orders[o] EXCEPT !.remaining = left, !.filled = filled, !.status = status]
    BY DEF ReportExecution
  <2> HIDE DEF left, status, filled, new
  <2> QED BY <1>0, <2>1 DEF OrderRow
<1>7. CASE p # o
  <2>1. o \in open /\ p \in open => p \in open'
    BY <1>1, <1>7
  <2>2. o \notin open /\ p \in open => p \in open'
    BY <1>1
  <2> HIDE DEF new
  <2> QED BY <1>0, <1>1, <1>5, <1>7, <2>1, <2>2, StatusSame
<1>8. CASE p = o /\ left = 0
  <2>1. \/ status = "Filled"
        \/ status = "CancelledWithPartialFill" /\ brk[o].state = "cancelled"
    BY <1>0, <1>8 DEF StatusWhenComplete, StatusInv, CancelStatuses
  <2> HIDE DEF left, status, new
  <2> QED BY <1>1, <1>5, <1>6, <1>8, <2>1 DEF StatusInv, CancelStatuses, WasOver
<1>9. CASE p = o /\ left # 0
  <2>1. orders[o].status # "Filled"
    BY <1>0, <1>4, <1>9 DEF StatusInv
  <2>2. /\ status \in {"Filling", "FillingDuringCancel"}
        /\ status = "FillingDuringCancel" <=> orders[o].status \in CancelStatuses
    BY <1>0, <1>4, <1>9, <2>1 DEF StatusWhenPartial, CancelStatuses, StatusInv
  <2>3. orders[o].remaining # 0 /\ (o \in open => o \in open')
    BY <1>1, <1>6, <1>9 DEF IsComplete
  <2> HIDE DEF left, status, new
  <2> QED BY <1>0, <1>1, <1>4, <1>5, <1>6, <1>9, <2>2, <2>3 DEF StatusInv, CancelStatuses, WasOver
<1> QED BY <1>7, <1>8, <1>9

LEMMA NewsStatus ==
  ASSUME SInv, NEW o \in OrderIds, NEW again \in BOOLEAN, DeliverNews(o, again),
         NEW p \in OrderIds
  PROVE  StatusInv(p)'
<1> DEFINE msg    == Head(news[o])
           priced == IF msg.total = Unpriced THEN orders[o]
                     ELSE SetCommission(orders[o], msg.total)
           new    == IF msg.cancelled THEN MarkAsCancelled(priced) ELSE priced
<1>0. /\ TypeOK /\ BrokerInv(o) /\ StatusInv(o) /\ StatusInv(p)
      /\ news[o] \in Seq(Messages) /\ orders[o] \in OrderRow
  BY DEF SInv, IInv, TypeOK
<1>1. /\ orders' = [orders EXCEPT ![o] = new] /\ brk' = brk /\ news[o] # <<>>
      /\ open' = open \/ (open' = open \ {o} /\ msg.cancelled)
  BY <1>0 DEF DeliverNews, TypeOK
<1>2. msg \in Messages /\ (msg.cancelled => brk[o].state = "cancelled")
  <2>1. Len(news[o]) # 0 /\ msg = news[o][1] /\ msg \in Messages
    BY <1>0, <1>1
  <2> QED BY <1>0, <2>1 DEF BrokerInv
<1>3. msg.total \in Int
  BY <1>2 DEF Messages
<1> HIDE DEF msg
<1>4. /\ priced \in OrderRow /\ priced.quan = orders[o].quan
      /\ priced.remaining = orders[o].remaining /\ priced.status = orders[o].status
  BY <1>0, <1>3, SetCommissionFacts
<1> HIDE DEF priced
<1>5. /\ new.quan = orders[o].quan /\ new.remaining = orders[o].remaining
      /\ new.status = "Filled" <=> orders[o].status = "Filled"
      /\ ~ msg.cancelled => new.status = orders[o].status
      /\ msg.cancelled /\ orders[o].status # "Filled" => new.status \in CancelStatuses
  <2>1. new.quan = priced.quan /\ new.remaining = priced.remaining
    BY <1>4, MarkAsCancelledFacts
  <2>2. CASE ~ msg.cancelled
    BY <1>4, <2>1, <2>2
  <2>3. CASE msg.cancelled
    <3>1. /\ MarkAsCancelled(priced).status = "Filled" <=> priced.status = "Filled"
          /\ priced.status # "Filled" => MarkAsCancelled(priced).status \in CancelStatuses
      BY <1>0, <1>4 DEF MarkAsCancelled, OrderRow, StatusInv, CancelStatuses
    <3> QED BY <1>4, <2>1, <2>3, <3>1
  <2> QED BY <2>2, <2>3
<1> HIDE DEF new
<1>6. CASE p = o
  <2>1. orders'[o] = new
    BY <1>0, <1>1 DEF TypeOK
  <2>2. CASE ~ msg.cancelled \/ orders[o].status = "Filled"
    <3>1. new.status = orders[o].status
      BY <1>5, <2>2
    <3>2. orders[o].quan > 0 /\ o \notin open' => WasOver(o)
      <4>1. CASE ~ msg.cancelled
        BY <1>0, <1>1, <4>1 DEF StatusInv
      <4>2. CASE orders[o].status = "Filled"
        BY <1>0, <4>2 DEF StatusInv, WasOver
      <4> QED BY <2>2, <4>1, <4>2
    <3> QED BY <1>0, <1>1, <1>5, <1>6, <2>1, <3>1, <3>2 DEF StatusInv, WasOver
  <2>3. CASE msg.cancelled /\ orders[o].status # "Filled"
    BY <1>0, <1>1, <1>2, <1>5, <1>6, <2>1, <2>3 DEF StatusInv, WasOver, CancelStatuses
  <2> QED BY <2>2, <2>3
<1>7. CASE p # o
  <2>1. p \in open => p \in open'
    BY <1>1, <1>7
  <2> QED BY <1>0, <1>1, <1>7, <2>1, StatusSame DEF TypeOK
<1> QED BY <1>6, <1>7

LEMMA SInvInit == Init => SInv
<1>1. Init => \A o \in OrderIds : StatusInv(o)
  BY DEF Init, StatusInv, CancelStatuses, NewOrder
<1> QED BY <1>1, InitInv DEF SInv

LEMMA SInvStep == SInv /\ [Next]_vars => SInv'
<1> SUFFICES ASSUME SInv, [Next]_vars PROVE SInv'
  OBVIOUS
<1>1. IInv'
  BY StepInv DEF SInv
<1>2. ASSUME NEW p \in OrderIds PROVE StatusInv(p)'
  <2>1. CASE UNCHANGED vars
    BY <2>1 DEF vars, SInv, StatusInv, WasOver
  <2>2. CASE Next
    BY <2>2, StrategyStatus, BrokerStatus, ExecutionStatus, NewsStatus DEF Next, Deliver
  <2> QED BY <2>1, <2>2
<1> QED BY <1>1, <1>2 DEF SInv

\* Order::ReportExecution and MarkAsCancelled: an order is Filled only when
\* nothing of it is left, and one with nothing left is Filled or was
\* cancelled by the broker, in whatever order its executions, overfills and
\* cancellations came.
THEOREM StatusTells == Spec => []FilledMeansComplete
<1>1. SInv => FilledMeansComplete
  BY DEF SInv, StatusInv, FilledMeansComplete, Constructed
<1> QED BY <1>1, SInvInit, SInvStep, PTL DEF Spec

\* Portfolio::HandleExecution and Position::HandleExecution: only an execution
\* of an order that was complete, or reported as cancelled, before it came
\* makes the two realized profits differ.
THEOREM PortfolioFollows == Spec => PortfolioFollowsPosition
<1> DEFINE Follows == portfolio'.realized - portfolio.realized = row'.realized - row.realized
<1>1. ASSUME SInv, [Next]_vars
      PROVE  Follows \/ \E o \in OrderIds : seen'[o] > seen[o] /\ WasOver(o)
  <2>0. IInv /\ row.realized \in Int /\ portfolio.realized \in Int
    BY <1>1 DEF SInv, IInv, TypeOK, PositionRows
  <2>1. CASE UNCHANGED vars
    BY <2>0, <2>1 DEF vars
  <2>2. ASSUME NEW o \in OrderIds, DeliverExecution(o)
        PROVE  Follows \/ (seen'[o] > seen[o] /\ WasOver(o))
    <3>1. /\ o \in open => Follows
          /\ seen'[o] > seen[o]
      BY <2>0, <2>2, ExecutionTrades
    <3>2. seen[o] < Len(fills[o])
      BY <2>2 DEF DeliverExecution
    <3>3. brk[o].state # "none"
      BY <2>0, <3>2, NextExecution
    <3>4. orders[o].quan > 0
      BY <2>0, <3>3 DEF IInv, OrderInv, TypeOK, OrderRow
    <3>5. o \notin open => WasOver(o)
      BY <1>1, <3>4 DEF SInv, StatusInv
    <3> QED BY <3>1, <3>5
  <2>3. CASE Neutral
    BY <2>0, <2>3 DEF Neutral
  <2> QED BY <1>1, <2>0, <2>1, <2>2, <2>3, StrategyNeutral, BrokerNeutral, NewsNeutral
          DEF Next, Deliver
<1> QED BY <1>1, SInvInit, SInvStep, PTL DEF Spec, PortfolioFollowsPosition
-----------------------------------------------------------------------------
(* The commission. *)

\* What each order was charged, in the form that SharedLemmas counts.
Charges == [o \in OrderIds |-> [remaining |-> orders[o].commission]]
Charged == Units(OrderIds, Charges)

\* The totals on their way are known or not, and nothing is charged for an order
\* that was not placed.
PricedInv(o) ==
  /\ \A i \in 1 .. Len(news[o]) : news[o][i].total \in {Unpriced} \cup Nat
  /\ orders[o].commission \in Nat
  /\ brk[o].state = "none" => orders[o].commission = 0

ChargeInv ==
  /\ IsFiniteSet(Charged) /\ row.commission = Cardinality(Charged)
  /\ portfolio.commission = row.commission

CInv == IInv /\ ChargeInv /\ \A o \in OrderIds : PricedInv(o)

\* A step that charges nothing.
Uncharged ==
  /\ \A o \in OrderIds :
       /\ orders'[o].commission = orders[o].commission
       /\ brk'[o].state = "none" => brk[o].state = "none"
  /\ row'.commission = row.commission
  /\ portfolio'.commission = portfolio.commission

LEMMA UnchargedInv ==
  ASSUME CInv, Uncharged
  PROVE  /\ ChargeInv'
         /\ \A o \in OrderIds : news'[o] = news[o] => PricedInv(o)'
<1>1. Charges' = Charges
  BY DEF Charges, Uncharged
<1>2. ChargeInv'
  BY <1>1 DEF CInv, ChargeInv, Charged, Uncharged
<1>3. \A o \in OrderIds : news'[o] = news[o] => PricedInv(o)'
  BY DEF CInv, PricedInv, Uncharged
<1> QED BY <1>2, <1>3

LEMMA StrategyCharges ==
  ASSUME CInv, NEW o \in OrderIds, Strategy(o)
  PROVE  Uncharged /\ news' = news
<1>0. /\ TypeOK /\ OrderInv(o) /\ PricedInv(o) /\ orders[o] \in OrderRow
      /\ row \in PositionRows /\ brk[o] \in BrokerOrders
  BY DEF CInv, IInv, TypeOK
<1>1. ASSUME NEW new, new.commission = orders[o].commission,
             orders' = [orders EXCEPT ![o] = new] \/ orders' = orders,
             row'.commission = row.commission, portfolio' = portfolio,
             brk'[o].state = "none" => brk[o].state = "none",
             \A p \in OrderIds \ {o} : brk'[p] = brk[p]
      PROVE  Uncharged
  BY <1>0, <1>1 DEF Uncharged, TypeOK
<1>2. news' = news /\ portfolio' = portfolio
      /\ \A p \in OrderIds \ {o} : brk'[p] = brk[p]
  BY <1>0 DEF Strategy, ConstructOrder, PlaceOrder, ClosePosition, CancelOrder, TypeOK
<1>3. \A side, quan : AddPending(row, side, quan).commission = row.commission
  BY <1>0 DEF AddPending, PositionRows
<1>4. ~ Constructed(o) => orders[o].commission = 0
  BY <1>0 DEF Constructed, OrderInv, PricedInv, OrderRow
<1>5. ASSUME NEW side \in Sides, NEW quan \in Quantities, ConstructOrder(o, side, quan)
      PROVE  Uncharged
  <2>1. NewOrder(side, quan).commission = orders[o].commission
    BY <1>4, <1>5 DEF ConstructOrder, NewOrder
  <2> QED BY <1>1, <1>2, <1>5, <2>1 DEF ConstructOrder
<1>6. CASE PlaceOrder(o)
  <2>1. SetSendingToProvider(orders[o]).commission = orders[o].commission
    BY <1>0, SetSendingFacts
  <2>2. brk'[o].state = "working"
    BY <1>0, <1>6 DEF PlaceOrder, TypeOK, BrokerOrders
  <2> QED BY <1>1, <1>2, <1>3, <1>6, <2>1, <2>2 DEF PlaceOrder
<1>7. CASE ClosePosition(o)
  <2>1. PICK side : /\ orders' = [orders EXCEPT ![o] =
                                   SetSendingToProvider(NewOrder(side, row.active))]
                    /\ row' = AddPending(row, side, row.active)
    BY <1>7 DEF ClosePosition
  <2>2. SetSendingToProvider(NewOrder(side, row.active)).commission = orders[o].commission
    BY <1>4, <1>7 DEF ClosePosition, NewOrder, SetSendingToProvider
  <2>3. brk'[o].state = "working"
    BY <1>0, <1>7 DEF ClosePosition, TypeOK, BrokerOrders
  <2> QED BY <1>1, <1>2, <1>3, <2>1, <2>2, <2>3
<1>8. CASE CancelOrder(o)
  <2>1. brk'[o].state = brk[o].state
    BY <1>0, <1>8 DEF CancelOrder, TypeOK, BrokerOrders
  <2> QED BY <1>1, <1>2, <1>8, <2>1 DEF CancelOrder
<1> QED BY <1>2, <1>5, <1>6, <1>7, <1>8 DEF Strategy

\* A message more keeps the totals as they are.
LEMMA TotalsAppend ==
  ASSUME NEW q \in Seq(Messages), NEW m \in Messages, m.total \in {Unpriced} \cup Nat,
         \A i \in 1 .. Len(q) : q[i].total \in {Unpriced} \cup Nat
  PROVE  /\ Append(q, m) \in Seq(Messages)
         /\ \A i \in 1 .. Len(Append(q, m)) :
              Append(q, m)[i].total \in {Unpriced} \cup Nat
<1> DEFINE r == Append(q, m)
<1>1. r \in Seq(Messages) /\ Len(r) = Len(q) + 1 /\ Len(q) \in Nat
  OBVIOUS
<1>2. \A i \in 1 .. Len(q) + 1 : r[i] = IF i = Len(q) + 1 THEN m ELSE q[i]
  OBVIOUS
<1> HIDE DEF r
<1>3. \A i \in 1 .. Len(r) : r[i].total \in {Unpriced} \cup Nat
  BY <1>1, <1>2
<1> QED BY <1>1, <1>3 DEF r

LEMMA BrokerCharges ==
  ASSUME CInv, NEW o \in OrderIds, Broker(o)
  PROVE  Uncharged /\ \A p \in OrderIds : PricedInv(p)'
<1>0. /\ TypeOK /\ PricedInv(o) /\ news[o] \in Seq(Messages) /\ fills[o] \in Seq(Fills)
      /\ brk[o] \in BrokerOrders /\ brk[o].done \in Nat /\ Len(fills[o]) \in Nat
  BY DEF CInv, IInv, TypeOK, BrokerOrders
<1>1. /\ orders' = orders /\ row' = row /\ portfolio' = portfolio
      /\ \A p \in OrderIds \ {o} : brk'[p] = brk[p] /\ news'[p] = news[p]
      /\ brk[o].state # "none"
  BY <1>0 DEF Broker, BrokerFill, BrokerOverfill, BrokerCancel, BrokerReject, programVars,
              Execute, TypeOK
<1>2. brk'[o].state # "none"
  <2>2. CASE BrokerFill(o)
    <3>1. PICK done, state :
            /\ brk' = [brk EXCEPT ![o].done = done, ![o].state = state]
            /\ state \in {"filled", brk[o].state}
      BY <2>2 DEF BrokerFill
    <3> QED BY <1>0, <1>1, <3>1 DEF TypeOK, BrokerOrders
  <2>3. CASE BrokerOverfill(o)
    <3>1. PICK done : brk' = [brk EXCEPT ![o].done = done]
      BY <2>3 DEF BrokerOverfill
    <3> QED BY <1>0, <1>1, <3>1 DEF TypeOK, BrokerOrders
  <2>4. CASE BrokerCancel(o) \/ BrokerReject(o)
    BY <1>0, <2>4 DEF BrokerCancel, BrokerReject, TypeOK, BrokerOrders
  <2> QED BY <2>2, <2>3, <2>4 DEF Broker
<1>3. Uncharged
  BY <1>1, <1>2 DEF Uncharged
<1>4. \A cancelled \in BOOLEAN, done \in Nat, after \in Nat :
        LET m == OpenOrder(o, cancelled, done, after)
        IN  m \in Messages /\ m.total \in {Unpriced} \cup Nat
  BY DEF OpenOrder, Messages, Unpriced
<1>5. \A after \in Nat : LET m == OrderStatus(after)
                         IN  m \in Messages /\ m.total \in {Unpriced} \cup Nat
  BY DEF OrderStatus, Messages, Unpriced
<1>6. \A i \in 1 .. Len(news[o]) : news[o][i].total \in {Unpriced} \cup Nat
  BY <1>0 DEF PricedInv
<1>7. \A i \in 1 .. Len(news'[o]) : news'[o][i].total \in {Unpriced} \cup Nat
  <2>1. ASSUME NEW size \in Nat, NEW price \in Prices, Execute(o, size, price)
        PROVE  \A i \in 1 .. Len(news'[o]) : news'[o][i].total \in {Unpriced} \cup Nat
    <3>1. PICK m : /\ m \in Messages /\ m.total \in {Unpriced} \cup Nat
                   /\ news' = [news EXCEPT ![o] = Append(@, m)]
      <4> DEFINE done == brk[o].done + size
                 after == Len(fills[o]) + 1
      <4>1. done \in Nat /\ after \in Nat
        BY <1>0
      <4>2. news' = [news EXCEPT ![o] = Append(@, OpenOrder(o, FALSE, done, after))]
        BY <2>1 DEF Execute
      <4> HIDE DEF done, after
      <4> QED BY <1>4, <4>1, <4>2
    <3>2. news'[o] = Append(news[o], m)
      BY <1>0, <3>1 DEF TypeOK
    <3> QED BY <1>0, <1>6, <3>1, <3>2, TotalsAppend
  <2>2. CASE BrokerFill(o)
    <3>1. PICK size \in 1 .. (orders[o].quan - brk[o].done), price \in Prices :
            Execute(o, size, price)
      BY <2>2 DEF BrokerFill
    <3>2. orders[o].quan - brk[o].done \in Int
      BY <1>0 DEF TypeOK, OrderRow
    <3>3. size \in Nat
      BY <3>1, <3>2
    <3> QED BY <2>1, <3>1, <3>3
  <2>3. CASE BrokerOverfill(o)
    <3>1. PICK size \in 1 .. (orders[o].quan + MaxOverfill - brk[o].done), price \in Prices :
            Execute(o, size, price)
      BY <2>3 DEF BrokerOverfill
    <3>2. orders[o].quan + MaxOverfill - brk[o].done \in Int
      BY <1>0, ConstantsAssumption DEF TypeOK, OrderRow
    <3>3. size \in Nat
      BY <3>1, <3>2
    <3> QED BY <2>1, <3>1, <3>3
  <2>4. CASE BrokerCancel(o)
    <3>1. PICK m, n : /\ m \in Messages /\ m.total \in {Unpriced} \cup Nat
                      /\ n \in Messages /\ n.total \in {Unpriced} \cup Nat
                      /\ news' = [news EXCEPT ![o] = @ \o <<m, n>>]
      BY <1>0, <1>4, <1>5, <2>4 DEF BrokerCancel
    <3>2. news'[o] = news[o] \o <<m, n>>
      BY <1>0, <3>1 DEF TypeOK
    <3>3. news[o] \o <<m, n>> = Append(Append(news[o], m), n)
      BY <1>0, <3>1
    <3>4. /\ Append(news[o], m) \in Seq(Messages)
          /\ \A i \in 1 .. Len(Append(news[o], m)) :
               Append(news[o], m)[i].total \in {Unpriced} \cup Nat
      BY <1>0, <1>6, <3>1, TotalsAppend
    <3> QED BY <3>1, <3>2, <3>3, <3>4, TotalsAppend
  <2>5. CASE BrokerReject(o)
    BY <1>6, <2>5 DEF BrokerReject
  <2> QED BY <2>2, <2>3, <2>4, <2>5 DEF Broker
<1>8. PricedInv(o)'
  BY <1>0, <1>1, <1>2, <1>7 DEF PricedInv
<1>9. ASSUME NEW p \in OrderIds PROVE PricedInv(p)'
  BY <1>1, <1>3, <1>8, UnchargedInv
<1> QED BY <1>3, <1>9

LEMMA ExecutionCharges ==
  ASSUME CInv, NEW o \in OrderIds, DeliverExecution(o)
  PROVE  Uncharged /\ news' = news
<1> DEFINE e    == fills[o][seen[o] + 1]
           now  == ReportExecution(orders[o], e.size)
           done == UpdateRowValues(row, orders[o].side, e.size, e.price)
<1>0. /\ TypeOK /\ IInv /\ orders[o] \in OrderRow /\ row \in PositionRows
      /\ portfolio \in [realized : Int, commission : Int]
  BY DEF CInv, IInv, TypeOK
<1>1. /\ seen[o] < Len(fills[o]) /\ brk' = brk /\ news' = news
      /\ orders' = [orders EXCEPT ![o] = now]
      /\ row' = ReleasePending(done, e.size) \/ row' = done
      /\ portfolio' = PortfolioExecution(portfolio, row.realized, done.realized)
         \/ portfolio' = portfolio
  BY DEF DeliverExecution, brokerVars
<1>2. e.size \in Nat \ {0} /\ e.price \in Nat
  BY <1>0, <1>1, NextExecution, ConstantsAssumption
<1>3. now.commission = orders[o].commission
  BY <1>0 DEF ReportExecution, OrderRow
<1>4. done \in PositionRows /\ done.commission = row.commission
  <2>1. orders[o].side \in Sides
    BY <1>0 DEF OrderRow
  <2>2. RowOK(row)
    BY <1>0 DEF IInv
  <2> HIDE DEF e
  <2>3. done \in PositionRows /\ SamePending(row, done)
    BY <1>0, <1>2, <2>1, <2>2, UpdateRowValuesTrades
  <2> HIDE DEF done
  <2> QED BY <2>3 DEF SamePending
<1> HIDE DEF now, done
<1>5. row'.commission = row.commission
  BY <1>1, <1>4 DEF ReleasePending, PositionRows
<1>6. portfolio'.commission = portfolio.commission
  BY <1>0, <1>1 DEF PortfolioExecution
<1>7. \A p \in OrderIds : orders'[p].commission = orders[p].commission
  BY <1>0, <1>1, <1>3 DEF TypeOK
<1> QED BY <1>1, <1>5, <1>6, <1>7 DEF Uncharged

\* A report of the commission: the increment is the difference of two totals, so that
\* a repeated one charges nothing.
LEMMA NewsCharges ==
  ASSUME CInv, NEW o \in OrderIds, NEW again \in BOOLEAN, DeliverNews(o, again)
  PROVE  ChargeInv' /\ \A p \in OrderIds : PricedInv(p)'
<1> DEFINE msg    == Head(news[o])
           charge == IF msg.total = Unpriced THEN 0
                     ELSE IncrementalCommission(orders[o], msg.total)
           priced == IF msg.total = Unpriced THEN orders[o]
                     ELSE SetCommission(orders[o], msg.total)
           new    == IF msg.cancelled THEN MarkAsCancelled(priced) ELSE priced
           cost   == row.commission + charge
           paid   == [row EXCEPT !.commission = cost]
           m      == IF again THEN news[o] ELSE Tail(news[o])
           k      == orders[o].commission
           total  == k + charge
<1>0. /\ TypeOK /\ ChargeInv /\ PricedInv(o) /\ BrokerInv(o) /\ orders[o] \in OrderRow
      /\ news[o] \in Seq(Messages) /\ row \in PositionRows /\ k \in Nat
      /\ portfolio \in [realized : Int, commission : Int]
  BY DEF CInv, IInv, TypeOK, PricedInv
<1>1. /\ orders' = [orders EXCEPT ![o] = new]
      /\ portfolio' = PortfolioCommission(portfolio, 0, charge)
      /\ row' = ReleasePending(paid, orders[o].remaining) \/ row' = paid
      /\ news' = [news EXCEPT ![o] = m] /\ brk' = brk
  BY DEF DeliverNews, CInv, IInv, TypeOK
<1>2. news[o] # <<>> /\ Len(news[o]) \in Nat \ {0} /\ msg = news[o][1]
  BY <1>0 DEF DeliverNews
<1>3. /\ msg.total \in {Unpriced} \cup Nat /\ brk[o].state # "none"
      /\ \A i \in 1 .. Len(m) : m[i].total \in {Unpriced} \cup Nat
  <2>1. \A i \in 1 .. Len(news[o]) : news[o][i].total \in {Unpriced} \cup Nat
    BY <1>0 DEF PricedInv
  <2>2. brk[o].state # "none"
    BY <1>0, <1>2 DEF BrokerInv
  <2> DEFINE q == news[o]
  <2>3. q \in Seq(Messages) /\ Len(q) \in Nat \ {0} /\ (m = q \/ m = Tail(q))
    BY <1>0, <1>2
  <2> HIDE DEF m, q
  <2>4. m = q \/ (Len(m) = Len(q) - 1 /\ \A i \in 1 .. Len(m) : m[i] = q[i + 1])
    BY <2>3
  <2>5. \A i \in 1 .. Len(m) : m[i] = q[i] \/ (i + 1 \in 1 .. Len(q) /\ m[i] = q[i + 1])
    BY <2>3, <2>4
  <2>6. \A i \in 1 .. Len(m) : i \in 1 .. Len(q) \/ i + 1 \in 1 .. Len(q)
    BY <2>3, <2>4
  <2> QED BY <1>2, <2>1, <2>2, <2>3, <2>4, <2>5, <2>6 DEF q
<1> HIDE DEF msg, m
<1>4. /\ charge \in Int /\ total \in Nat
      /\ priced.commission = total
  BY <1>0, <1>3 DEF IncrementalCommission, SetCommission, OrderRow, Unpriced
<1>5. priced \in OrderRow
  BY <1>0, <1>3, SetCommissionFacts DEF Unpriced
<1> HIDE DEF priced
<1>6. new.commission = total
  BY <1>4, <1>5 DEF MarkAsCancelled, OrderRow
<1> HIDE DEF new
<1>7. orders'[o].commission = total
      /\ \A p \in OrderIds \ {o} : orders'[p] = orders[p] /\ news'[p] = news[p]
  BY <1>0, <1>1, <1>6 DEF TypeOK
<1>8. row'.commission = row.commission + charge
  BY <1>0, <1>1, <1>4 DEF ReleasePending, PositionRows
<1>9. portfolio'.commission = portfolio.commission + charge
  <2>1. portfolio'.commission = portfolio.commission - 0 + charge
    BY <1>0, <1>1 DEF PortfolioCommission
  <2> QED BY <1>0, <1>4, <2>1
<1> DEFINE D == Charges
           E == Charges'
<1>10. D[o].remaining = k /\ E[o].remaining = total
       /\ \A p \in OrderIds \ {o} : E[p].remaining = D[p].remaining
  BY <1>7 DEF Charges
<1>11. Charged' = Units(OrderIds, E) /\ IsFiniteSet(Units(OrderIds, D))
       /\ row.commission = Cardinality(Units(OrderIds, D))
       /\ portfolio.commission = row.commission
  BY <1>0 DEF ChargeInv, Charged, Units
<1> HIDE DEF D, E
<1>12. /\ IsFiniteSet(Units(OrderIds, E))
       /\ Cardinality(Units(OrderIds, E)) = (Cardinality(Units(OrderIds, D)) - k) + total
  <2> HIDE DEF k, total
  <2> QED BY <1>0, <1>4, <1>10, <1>11, UnitsChanged
<1>13. ChargeInv'
  <2>1. row.commission \in Int
    BY <1>0 DEF PositionRows
  <2>2. (row.commission - k) + total = row.commission + charge
    BY <1>0, <1>4, <2>1
  <2> QED BY <1>8, <1>9, <1>11, <1>12, <2>2 DEF ChargeInv
<1>14. PricedInv(o)'
  <2>1. news'[o] = m
    BY <1>0, <1>1 DEF TypeOK
  <2> QED BY <1>1, <1>3, <1>4, <1>7, <2>1 DEF PricedInv
<1>15. ASSUME NEW p \in OrderIds, p # o PROVE PricedInv(p)'
  BY <1>1, <1>7, <1>15 DEF PricedInv, CInv
<1> QED BY <1>13, <1>14, <1>15

\* Order::SetCommission takes totals and tells the position the increments: the position
\* and the portfolio have paid what the orders were charged, whatever is repeated.
THEOREM CommissionIsCountedOnce == Spec => []CommissionIsCharged
<1>1. Init => CInv
  <2> SUFFICES ASSUME Init PROVE ChargeInv /\ \A o \in OrderIds : PricedInv(o)
    BY InitInv DEF CInv
  <2>1. Charged = {}
    BY DEF Init, Charged, Charges, Units, NewOrder
  <2>2. ChargeInv
    BY <2>1, FS_EmptySet DEF ChargeInv, Init, EmptyRow
  <2>3. \A o \in OrderIds : PricedInv(o)
    BY DEF Init, PricedInv, NewOrder
  <2> QED BY <2>2, <2>3
<1>2. CInv /\ [Next]_vars => CInv'
  <2> SUFFICES ASSUME CInv, [Next]_vars PROVE ChargeInv' /\ \A p \in OrderIds : PricedInv(p)'
    BY StepInv DEF CInv
  <2>1. CASE UNCHANGED vars
    <3>1. Uncharged /\ news' = news
      BY <2>1 DEF vars, Uncharged
    <3> QED BY <3>1, UnchargedInv
  <2>2. ASSUME NEW o \in OrderIds, Strategy(o)
        PROVE  ChargeInv' /\ \A p \in OrderIds : PricedInv(p)'
    BY <2>2, StrategyCharges, UnchargedInv
  <2>3. ASSUME NEW o \in OrderIds, Broker(o)
        PROVE  ChargeInv' /\ \A p \in OrderIds : PricedInv(p)'
    BY <2>3, BrokerCharges, UnchargedInv
  <2>4. ASSUME NEW o \in OrderIds, DeliverExecution(o)
        PROVE  ChargeInv' /\ \A p \in OrderIds : PricedInv(p)'
    BY <2>4, ExecutionCharges, UnchargedInv
  <2>5. ASSUME NEW o \in OrderIds, NEW again \in BOOLEAN, DeliverNews(o, again)
        PROVE  ChargeInv' /\ \A p \in OrderIds : PricedInv(p)'
    BY <2>5, NewsCharges
  <2> QED BY <2>1, <2>2, <2>3, <2>4, <2>5 DEF Next, Deliver
<1>3. CInv => CommissionIsCharged
  <2>1. CInv => ChargedUnits = Charged
    BY DEF ChargedUnits, Charged, Charges, Units
  <2> QED BY <2>1 DEF CInv, ChargeInv, PricedInv, CommissionIsCharged
<1> QED BY <1>1, <1>2, <1>3, PTL DEF Spec
=============================================================================
