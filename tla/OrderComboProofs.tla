-------------------------- MODULE OrderComboProofs --------------------------
(***************************************************************************)
(* Proofs about OrderCombo, for any combos, legs, positions and quotes.    *)
(***************************************************************************)
EXTENDS OrderCombo, SharedLemmas, FiniteSetTheorems, TLAPS

ComboRows == [state : ComboStates, callback : {"none", "submit", "cancel"}]
MonitorRows == [state : MonitorStates, countdown : 0 .. Periods]
BrokerRows == [state : BrokerStates, price : Nat, done : Nat,
               asked : BOOLEAN, told : BOOLEAN]

\* TypeOK, but for the units pending, which only PendingInv keeps above zero.
Typed ==
  /\ combo \in [Combos -> ComboRows]
  /\ leg \in [Legs -> LegStates]
  /\ mon \in [Legs -> MonitorRows]
  /\ orders \in [Legs -> OrderRow]
  /\ position \in [Positions -> [active : Int, pending : Int]]
  /\ broker \in [Legs -> BrokerRows]
  /\ quote \in [Positions -> Quotes \cup {NoQuote}]
  /\ moves \in 0 .. MaxMoves
  /\ strayed \in [Positions -> Nat]

\* Ended, of an order and what the broker did with it.
EndTold(o, b) == o.remaining = 0 \/ b.told

\* A leg of a combo c, in its state k, its monitor in state m, its order o:
\* a monitor that is not active has an order whose end it was told of, or,
\* when its combo was cancelled, whose cancellation was asked for.
TrackInv(c, k, m, o, b) ==
  /\ c.state \in {"bare", "loading"} => c.callback = "none" /\ b.state = "none"
  /\ c.state \notin {"bare", "loading"} => c.callback # "none" /\ k # "none"
  /\ c.state = "bare" => k = "none"
  /\ c.state = "monitoring" => c.callback = "submit"
  /\ b.state = "none" => /\ m \in {"NoPosition", "Available"}
                         /\ o.filled = 0 /\ o.remaining = 0 /\ b.done = 0
  /\ b.told => b.state = "cancelled"
  /\ o.filled <= b.done /\ b.done <= o.quan /\ o.remaining = o.quan - o.filled
  /\ m = "ManualCancel" => c.callback = "cancel"
  /\ c.callback = "submit" /\ m # "Active" => EndTold(o, b)
  /\ c.callback = "submit" /\ c.state = "done" => m # "Active"
  /\ c.callback = "cancel" => EndTold(o, b) \/ b.asked

OwnCombo(l) == combo[LegOf[l].combo]
Tracked(l) == TrackInv(OwnCombo(l), leg[l], mon[l].state, orders[l], broker[l])

IInv == Typed /\ \A l \in Legs : Tracked(l)

\* A combo has no callback before it is submitted.
Fresh == \A c \in Combos : combo[c].state \in {"bare", "loading"} => combo[c].callback = "none"

\* Combos that trade the same position do so one after the other.
Apart ==
  \A l, k \in Legs :
    l # k /\ LegOf[l].position = LegOf[k].position /\ leg[l] # "none" /\ leg[k] # "none" =>
      OwnCombo(l).state = "done" \/ OwnCombo(k).state = "done"

\* Legs are added to buy, and nothing was sold short before.
LongOnly == \A l \in Legs : LegOf[l].kind = "leg_add" => LegOf[l].side = "Buy"

\* An order of a combo that is not done.
Awaited(l) == broker[l].state # "none" /\ OwnCombo(l).state # "done"

\* A selling order of such a combo has no more left than its position holds,
\* but for what was sold behind the owner's back.
Unstrayed(p) == position[p].active + strayed[p]
LongInv ==
  /\ \A p \in Positions : Unstrayed(p) >= 0
  /\ \A l \in Legs :
       Awaited(l) /\ orders[l].side = "Sell" =>
         orders[l].remaining <= Unstrayed(LegOf[l].position)

\* The units pending are those that the placed orders have left, up to the
\* report of their cancellation.
Live(p) == {l \in Legs : LegOf[l].position = p /\ broker[l].state # "none" /\ ~ broker[l].told}
PendingInv ==
  \A p \in Positions :
    /\ IsFiniteSet(Units(Live(p), orders))
    /\ position[p].pending = Cardinality(Units(Live(p), orders))
-----------------------------------------------------------------------------
(* Parts of a leg.  *)

LEMMA LegsAreTyped ==
  ASSUME Typed, NEW l \in Legs
  PROVE  /\ LegOf[l].combo \in Combos /\ LegOf[l].position \in Positions
         /\ LegOf[l].kind \in Kinds /\ LegOf[l].side \in Sides /\ LegOf[l].quan \in Nat
         /\ OwnCombo(l) \in ComboRows /\ leg[l] \in LegStates /\ mon[l] \in MonitorRows
         /\ orders[l] \in OrderRow /\ broker[l] \in BrokerRows
         /\ PositionOf(l) \in [active : Int, pending : Int]
  BY OrderComboAssumption DEF Typed, OwnCombo, PositionOf

LEMMA PeriodsArePositive == Periods \in Nat /\ 0 \in 0 .. Periods /\ Periods \in 0 .. Periods
                            /\ 1 \in 0 .. Periods
  BY OrderComboAssumption

\* An action that leaves the legs but one alone keeps what it keeps of that
\* one; a price may change.
LEMMA OneLegSuffices ==
  ASSUME IInv, NEW l \in Legs, Typed', Tracked(l)',
         \A k \in Legs \ {l} :
           /\ OwnCombo(k)' = OwnCombo(k) /\ leg'[k] = leg[k]
           /\ mon'[k] = mon[k] /\ orders'[k] = orders[k] /\ broker'[k] = broker[k]
  PROVE  IInv'
<1>1. ASSUME NEW k \in Legs, k # l
      PROVE  Tracked(k)'
  <2>1. Tracked(k)
    BY DEF IInv
  <2> QED BY <1>1, <2>1 DEF Tracked, TrackInv, EndTold
<1> QED BY <1>1 DEF IInv

LEMMA InitInv == Init => IInv
<1> SUFFICES ASSUME Init PROVE IInv
  OBVIOUS
<1>1. NoOrder \in OrderRow /\ NoOrder.filled = 0 /\ NoOrder.quan = 0 /\ NoOrder.remaining = 0
  BY NewOrderFacts DEF NoOrder, Sides
<1>2. Typed
  <2>1. combo \in [Combos -> ComboRows]
    BY DEF Init, ComboRows, ComboStates
  <2>2. leg \in [Legs -> LegStates]
    BY DEF Init, LegStates
  <2>3. mon \in [Legs -> MonitorRows]
    BY PeriodsArePositive DEF Init, MonitorRows, MonitorStates
  <2>4. orders \in [Legs -> OrderRow]
    BY <1>1 DEF Init
  <2>5. position \in [Positions -> [active : Int, pending : Int]]
    BY OrderComboAssumption DEF Init
  <2>6. broker \in [Legs -> BrokerRows]
    BY DEF Init, BrokerRows, BrokerStates
  <2>7. /\ moves \in 0 .. MaxMoves /\ quote \in [Positions -> Quotes \cup {NoQuote}]
        /\ strayed \in [Positions -> Nat]
    BY OrderComboAssumption DEF Init
  <2> QED BY <2>1, <2>2, <2>3, <2>4, <2>5, <2>6, <2>7 DEF Typed
<1>3. ASSUME NEW l \in Legs
      PROVE  Tracked(l)
  <2>1. /\ OwnCombo(l).state = "bare" /\ OwnCombo(l).callback = "none"
        /\ leg[l] = "none" /\ mon[l].state = "NoPosition" /\ orders[l] = NoOrder
        /\ broker[l].state = "none" /\ broker[l].done = 0 /\ ~ broker[l].told
    BY <1>2, LegsAreTyped DEF Init, OwnCombo
  <2> QED BY <1>1, <2>1 DEF Tracked, TrackInv
<1> QED BY <1>2, <1>3 DEF IInv
-----------------------------------------------------------------------------
(* The broker and its reports.  *)

\* The broker's books of one order become b.
LEMMA BookBecomes ==
  ASSUME IInv, NEW l \in Legs, NEW b \in BrokerRows, broker' = [broker EXCEPT ![l] = b],
         UNCHANGED <<combo, leg, mon, orders, position, market, strayed>>,
         TrackInv(OwnCombo(l), leg[l], mon[l].state, orders[l], b)
  PROVE  IInv'
<1>1. /\ broker' \in [Legs -> BrokerRows] /\ broker'[l] = b
      /\ \A k \in Legs \ {l} : broker'[k] = broker[k]
  BY DEF IInv, Typed
<1>2. UNCHANGED <<combo, leg, mon, orders, position, quote, moves, strayed>>
  BY DEF market
<1>3. Typed'
  BY <1>1, <1>2 DEF IInv, Typed
<1>4. Tracked(l)'
  BY <1>1, <1>2 DEF Tracked, OwnCombo
<1> QED BY <1>1, <1>2, <1>3, <1>4, OneLegSuffices DEF OwnCombo

\* What the broker does with an order it has.
LEMMA BookIsTracked ==
  ASSUME IInv, NEW l \in Legs, broker[l].state # "none",
         NEW b \in BrokerRows, b.state # "none",
         broker[l].done <= b.done, b.done <= orders[l].quan,
         b.told = broker[l].told, b.asked = broker[l].asked,
         b.told => b.state = "cancelled"
  PROVE  TrackInv(OwnCombo(l), leg[l], mon[l].state, orders[l], b)
<1>1. Tracked(l) /\ Typed
  BY DEF IInv
<1>2. /\ orders[l].filled \in Nat /\ orders[l].quan \in Nat /\ orders[l].remaining \in Nat
      /\ broker[l].done \in Nat /\ b.done \in Nat
  BY <1>1, LegsAreTyped DEF OrderRow, BrokerRows
<1>3. EndTold(orders[l], broker[l]) = EndTold(orders[l], b)
  BY DEF EndTold
<1> QED BY <1>1, <1>2, <1>3 DEF Tracked, TrackInv

LEMMA BrokerFillKeeps ==
  ASSUME IInv, NEW l \in Legs, BrokerFill(l)
  PROVE  IInv'
<1>1. Tracked(l) /\ Typed /\ broker \in [Legs -> BrokerRows]
  BY DEF IInv, Typed
<1>2. /\ orders[l].quan \in Nat /\ broker[l] \in BrokerRows /\ broker[l].done \in Nat
      /\ broker[l].state \in {"working", "cancelled"}
  BY <1>1, LegsAreTyped DEF OrderRow, BrokerRows, BrokerFill
<1>3. PICK size \in 1 .. (orders[l].quan - broker[l].done) :
        broker' = [broker EXCEPT ![l].done = @ + size,
                    ![l].state = IF /\ @ = "working"
                                    /\ broker[l].done + size = orders[l].quan
                                 THEN "filled" ELSE @]
  BY DEF BrokerFill
<1> DEFINE done == broker[l].done + size
           state == IF broker[l].state = "working" /\ done = orders[l].quan
                    THEN "filled" ELSE broker[l].state
           b == [broker[l] EXCEPT !.done = done, !.state = state]
<1>4. /\ done \in Nat /\ broker[l].done <= done /\ done <= orders[l].quan
      /\ state \in BrokerStates /\ state # "none"
      /\ broker[l].state = "cancelled" => state = "cancelled"
  BY <1>2 DEF BrokerStates
<1>5. broker' = [broker EXCEPT ![l] = b]
  BY <1>1, <1>2, <1>3
<1> HIDE DEF done, state
<1>6. /\ b \in BrokerRows /\ b.state = state /\ b.done = done
      /\ b.told = broker[l].told /\ b.asked = broker[l].asked
  BY <1>2, <1>4 DEF BrokerRows
<1>7. broker[l].told => broker[l].state = "cancelled"
  BY <1>1 DEF Tracked, TrackInv
<1>8. TrackInv(OwnCombo(l), leg[l], mon[l].state, orders[l], b)
  BY <1>2, <1>4, <1>6, <1>7, BookIsTracked
<1> HIDE DEF b
<1> QED BY <1>5, <1>6, <1>8, BookBecomes DEF BrokerFill

LEMMA BrokerCancelKeeps ==
  ASSUME IInv, NEW l \in Legs, BrokerCancel(l)
  PROVE  IInv'
<1>1. Tracked(l) /\ Typed /\ broker \in [Legs -> BrokerRows]
  BY DEF IInv, Typed
<1>2. /\ orders[l].quan \in Nat /\ broker[l] \in BrokerRows /\ broker[l].done \in Nat
      /\ broker[l].state = "working"
  BY <1>1, LegsAreTyped DEF OrderRow, BrokerRows, BrokerCancel
<1> DEFINE b == [broker[l] EXCEPT !.state = "cancelled"]
<1>3. broker' = [broker EXCEPT ![l] = b]
  BY DEF BrokerCancel
<1>4. /\ b \in BrokerRows /\ b.state = "cancelled" /\ b.done = broker[l].done
      /\ b.told = broker[l].told /\ b.asked = broker[l].asked
  BY <1>2 DEF BrokerRows, BrokerStates
<1>5. broker[l].done <= orders[l].quan /\ ~ broker[l].told
  BY <1>1, <1>2 DEF Tracked, TrackInv
<1> HIDE DEF b
<1>6. TrackInv(OwnCombo(l), leg[l], mon[l].state, orders[l], b)
  BY <1>2, <1>4, <1>5, BookIsTracked
<1> QED BY <1>3, <1>4, <1>6, BookBecomes DEF BrokerCancel

LEMMA BrokerRejectKeeps ==
  ASSUME IInv, NEW l \in Legs, BrokerReject(l)
  PROVE  IInv'
<1>1. Tracked(l) /\ Typed /\ broker \in [Legs -> BrokerRows]
  BY DEF IInv, Typed
<1>2. /\ orders[l].quan \in Nat /\ broker[l] \in BrokerRows /\ broker[l].done \in Nat
      /\ broker[l].state = "working"
  BY <1>1, LegsAreTyped DEF OrderRow, BrokerRows, BrokerReject
<1> DEFINE b == [broker[l] EXCEPT !.state = "rejected"]
<1>3. broker' = [broker EXCEPT ![l] = b]
  BY DEF BrokerReject
<1>4. /\ b \in BrokerRows /\ b.state = "rejected" /\ b.done = broker[l].done
      /\ b.told = broker[l].told /\ b.asked = broker[l].asked
  BY <1>2 DEF BrokerRows, BrokerStates
<1>5. broker[l].done <= orders[l].quan /\ ~ broker[l].told
  BY <1>1, <1>2 DEF Tracked, TrackInv
<1> HIDE DEF b
<1>6. TrackInv(OwnCombo(l), leg[l], mon[l].state, orders[l], b)
  BY <1>2, <1>4, <1>5, BookIsTracked
<1> QED BY <1>3, <1>4, <1>6, BookBecomes DEF BrokerReject

\* A report changes the order and the monitor of one leg, and its position.
LEMMA ReportKeeps ==
  ASSUME IInv, NEW l \in Legs, NEW o \in OrderRow, NEW m \in MonitorRows,
         orders' = [orders EXCEPT ![l] = o], mon' = [mon EXCEPT ![l] = m],
         broker' \in [Legs -> BrokerRows],
         \A k \in Legs \ {l} : broker'[k] = broker[k],
         position' \in [Positions -> [active : Int, pending : Int]],
         strayed' \in [Positions -> Nat],
         UNCHANGED <<combo, leg, market>>,
         TrackInv(OwnCombo(l), leg[l], m.state, o, broker'[l])
  PROVE  IInv'
<1>1. /\ orders' \in [Legs -> OrderRow] /\ orders'[l] = o
      /\ \A k \in Legs \ {l} : orders'[k] = orders[k]
  BY DEF IInv, Typed
<1>2. /\ mon' \in [Legs -> MonitorRows] /\ mon'[l] = m
      /\ \A k \in Legs \ {l} : mon'[k] = mon[k]
  BY DEF IInv, Typed
<1>3. UNCHANGED <<combo, leg, quote, moves>>
  BY DEF market
<1>4. Typed'
  BY <1>1, <1>2, <1>3 DEF IInv, Typed
<1>5. Tracked(l)'
  BY <1>1, <1>2, <1>3 DEF Tracked, OwnCombo
<1> QED BY <1>1, <1>2, <1>3, <1>4, <1>5, OneLegSuffices DEF OwnCombo

\* The units of an execution are left in the order.  When its combo is done,
\* they come behind the owner's back.
LEMMA ExecutionFacts ==
  ASSUME IInv, NEW l \in Legs, NEW size \in 1 .. (broker[l].done - orders[l].filled)
  PROVE  /\ size \in Nat \ {0} /\ size <= orders[l].remaining
         /\ broker[l].state # "none"
         /\ OwnCombo(l).callback = "submit" /\ mon[l].state # "Active" => broker[l].told
         /\ OwnCombo(l).state = "done" => Stray(l)
         /\ LET o == ReportExecution(orders[l], size)
            IN  /\ o \in OrderRow
                /\ o.side = orders[l].side /\ o.quan = orders[l].quan
                /\ o.filled = orders[l].filled + size
                /\ o.remaining = orders[l].remaining - size
                /\ o.filled <= broker[l].done
<1>1. Typed /\ Tracked(l)
  BY DEF IInv
<1>2. /\ orders[l] \in OrderRow
      /\ orders[l].filled \in Nat /\ orders[l].quan \in Nat /\ orders[l].remaining \in Nat
      /\ broker[l].done \in Nat
  BY <1>1, LegsAreTyped DEF OrderRow, BrokerRows
<1>3. /\ size \in Nat \ {0} /\ size <= broker[l].done - orders[l].filled
      /\ orders[l].filled # broker[l].done
  BY <1>2
<1>4. /\ broker[l].done <= orders[l].quan
      /\ orders[l].remaining = orders[l].quan - orders[l].filled
  BY <1>1 DEF Tracked, TrackInv
<1>5. size <= orders[l].remaining /\ orders[l].remaining # 0
  BY <1>2, <1>3, <1>4
<1>6. /\ broker[l].state # "none"
      /\ OwnCombo(l).callback = "submit" /\ mon[l].state # "Active" => broker[l].told
      /\ OwnCombo(l).callback = "cancel" => broker[l].asked \/ broker[l].told
  BY <1>1, <1>2, <1>3, <1>5 DEF Tracked, TrackInv, EndTold
<1>7. OwnCombo(l).state = "done" => Stray(l)
  <2>1. OwnCombo(l).state = "done" => OwnCombo(l).callback \in {"submit", "cancel"}
    BY <1>1, LegsAreTyped DEF Tracked, TrackInv, ComboRows
  <2>2. OwnCombo(l).state = "done" /\ OwnCombo(l).callback = "submit" => mon[l].state # "Active"
    BY <1>1 DEF Tracked, TrackInv
  <2> QED BY <1>6, <2>1, <2>2 DEF Stray, OwnCombo
<1>8. ExecutionFits(orders[l], size)
  BY <1>5 DEF ExecutionFits
<1> DEFINE o == ReportExecution(orders[l], size)
<1>9. /\ o \in OrderRow
      /\ o.side = orders[l].side /\ o.quan = orders[l].quan
      /\ o.filled = orders[l].filled + size
      /\ o.remaining = orders[l].remaining - size
  BY <1>2, <1>3, <1>5, <1>8, ReportExecutionFacts
<1>10. o.filled <= broker[l].done
  BY <1>2, <1>3, <1>9
<1> QED BY <1>3, <1>5, <1>6, <1>7, <1>9, <1>10

LEMMA MonitorFilled ==
  ASSUME NEW m \in MonitorRows, NEW o
  PROVE  /\ HandleOrderFilled(m, o) \in MonitorRows
         /\ HandleOrderFilled(m, o).state =
              IF m.state = "Active" /\ o.remaining = 0 THEN "Filled" ELSE m.state
  BY DEF HandleOrderFilled, IsActive, MonitorRows, MonitorStates

LEMMA MonitorCancelled ==
  ASSUME NEW m \in MonitorRows
  PROVE  /\ HandleOrderCancelled(m) \in MonitorRows
         /\ HandleOrderCancelled(m).state =
              IF m.state \in {"Active", "ManualCancel"} THEN "Cancelled" ELSE m.state
  BY DEF HandleOrderCancelled, MonitorRows, MonitorStates

LEMMA DeliverExecutionKeeps ==
  ASSUME IInv, NEW l \in Legs, DeliverExecution(l)
  PROVE  IInv'
<1> DEFINE p == LegOf[l].position
           now(size) == ReportExecution(orders[l], size)
           after(size) == [active |-> IF now(size).side = "Buy" THEN position[p].active + size
                                      ELSE position[p].active - size,
                           pending |-> IF broker[l].told THEN position[p].pending
                                       ELSE position[p].pending - size]
           sold(size) == IF Stray(l) /\ now(size).side = "Sell" THEN strayed[p] + size
                         ELSE strayed[p]
<1>1. PICK size \in 1 .. (broker[l].done - orders[l].filled) :
        /\ orders' = [orders EXCEPT ![l] = now(size)]
        /\ mon' = [mon EXCEPT ![l] = HandleOrderFilled(@, now(size))]
        /\ position' = [position EXCEPT ![p] =
             [active |-> IF now(size).side = "Buy" THEN @.active + size ELSE @.active - size,
              pending |-> IF broker[l].told THEN @.pending ELSE @.pending - size]]
        /\ strayed' = [strayed EXCEPT ![p] =
             IF Stray(l) /\ now(size).side = "Sell" THEN @ + size ELSE @]
  BY DEF DeliverExecution
<1>2. UNCHANGED <<combo, leg, broker, market>>
  BY DEF DeliverExecution
<1>3. Typed /\ Tracked(l) /\ p \in Positions
      /\ position[p].active \in Int /\ position[p].pending \in Int
      /\ strayed[p] \in Nat
  BY LegsAreTyped DEF IInv, PositionOf, Typed
<1> DEFINE o == now(size)
           m == HandleOrderFilled(mon[l], o)
<1>4. /\ size \in Nat \ {0} /\ o \in OrderRow
      /\ o.quan = orders[l].quan /\ o.filled = orders[l].filled + size
      /\ o.remaining = orders[l].remaining - size /\ o.filled <= broker[l].done
      /\ broker[l].state # "none"
  BY ExecutionFacts
<1>5. m \in MonitorRows
      /\ m.state = IF mon[l].state = "Active" /\ o.remaining = 0 THEN "Filled" ELSE mon[l].state
  BY <1>3, LegsAreTyped, MonitorFilled
<1>6. orders' = [orders EXCEPT ![l] = o] /\ mon' = [mon EXCEPT ![l] = m]
  BY <1>1
<1>7. position' = [position EXCEPT ![p] = after(size)]
  BY <1>1
<1>8. after(size) \in [active : Int, pending : Int]
  BY <1>3, <1>4
<1>9. sold(size) \in Nat /\ strayed' = [strayed EXCEPT ![p] = sold(size)]
  BY <1>1, <1>3, <1>4
<1> HIDE DEF after, now, o, m, sold
<1>10. /\ position' \in [Positions -> [active : Int, pending : Int]]
       /\ strayed' \in [Positions -> Nat]
  BY <1>3, <1>7, <1>8, <1>9 DEF Typed
<1>11. TrackInv(OwnCombo(l), leg[l], m.state, o, broker[l])
  <2>1. /\ orders[l].filled \in Nat /\ orders[l].quan \in Nat /\ orders[l].remaining \in Nat
        /\ broker[l].done \in Nat
    BY <1>3, LegsAreTyped DEF OrderRow, BrokerRows
  <2>2. /\ o.filled <= broker[l].done /\ broker[l].done <= o.quan
        /\ o.remaining = o.quan - o.filled
    BY <1>3, <1>4, <2>1 DEF Tracked, TrackInv
  <2>3. OwnCombo(l).callback = "submit" /\ mon[l].state # "Active" => broker[l].told
    BY ExecutionFacts
  <2>4. /\ OwnCombo(l).callback = "submit" /\ m.state # "Active" => EndTold(o, broker[l])
        /\ m.state = "ManualCancel" => OwnCombo(l).callback = "cancel"
    BY <1>3, <1>5, <2>3 DEF Tracked, TrackInv, EndTold
  <2>5. OwnCombo(l).callback = "submit" /\ OwnCombo(l).state = "done" => m.state # "Active"
    BY <1>3, <1>5 DEF Tracked, TrackInv
  <2>6. EndTold(orders[l], broker[l]) => EndTold(o, broker[l])
    <3>1. orders[l].remaining # 0
      BY <1>4, <2>1 DEF OrderRow
    <3> QED BY <3>1 DEF EndTold
  <2> QED BY <1>3, <1>4, <2>2, <2>4, <2>5, <2>6 DEF Tracked, TrackInv
<1>12. broker' = broker /\ broker' \in [Legs -> BrokerRows] /\ UNCHANGED <<combo, leg, market>>
  BY <1>2, <1>3 DEF Typed
<1> QED BY <1>4, <1>5, <1>6, <1>10, <1>11, <1>12, ReportKeeps

LEMMA DeliverCancellationKeeps ==
  ASSUME IInv, NEW l \in Legs, DeliverCancellation(l)
  PROVE  IInv'
<1> DEFINE p == LegOf[l].position
           o == MarkAsCancelled(orders[l])
           m == HandleOrderCancelled(mon[l])
           b == [broker[l] EXCEPT !.told = TRUE]
           left == position[p].pending - orders[l].remaining
<1>1. broker[l].state = "cancelled" /\ UNCHANGED <<combo, leg, market, strayed>>
  BY DEF DeliverCancellation
<1>2. /\ orders' = [orders EXCEPT ![l] = o] /\ mon' = [mon EXCEPT ![l] = m]
      /\ broker' = [broker EXCEPT ![l] = b]
      /\ position' = [position EXCEPT ![p].pending = left]
  BY DEF DeliverCancellation
<1>3. Typed /\ Tracked(l) /\ p \in Positions /\ broker[l] \in BrokerRows
      /\ position[p] \in [active : Int, pending : Int] /\ orders[l].remaining \in Nat
  BY LegsAreTyped DEF IInv, PositionOf, OrderRow
<1>4. /\ o \in OrderRow /\ o.quan = orders[l].quan
      /\ o.filled = orders[l].filled /\ o.remaining = orders[l].remaining
  BY <1>3, LegsAreTyped, MarkAsCancelledFacts
<1>5. m \in MonitorRows
      /\ m.state = IF mon[l].state \in {"Active", "ManualCancel"} THEN "Cancelled"
                   ELSE mon[l].state
  BY <1>3, LegsAreTyped, MonitorCancelled
<1>6. /\ b \in BrokerRows /\ b.state = broker[l].state /\ b.done = broker[l].done
      /\ b.told = TRUE
  BY <1>3 DEF BrokerRows
<1>7. left \in Int
  BY <1>3
<1> HIDE DEF o, m, b, left
<1>8. position' \in [Positions -> [active : Int, pending : Int]]
  <2> DEFINE q == [position[p] EXCEPT !.pending = left]
  <2>1. q \in [active : Int, pending : Int]
    BY <1>3, <1>7
  <2>2. position' = [position EXCEPT ![p] = q]
    BY <1>2
  <2> HIDE DEF q
  <2> QED BY <1>3, <2>1, <2>2 DEF Typed
<1>9. /\ broker' \in [Legs -> BrokerRows] /\ broker'[l] = b
      /\ \A k \in Legs \ {l} : broker'[k] = broker[k]
      /\ strayed' \in [Positions -> Nat]
  BY <1>1, <1>2, <1>3, <1>6 DEF Typed
<1>10. TrackInv(OwnCombo(l), leg[l], m.state, o, b)
  <2>1. EndTold(o, b)
    BY <1>6 DEF EndTold
  <2> QED BY <1>1, <1>3, <1>4, <1>5, <1>6, <2>1 DEF Tracked, TrackInv
<1> QED BY <1>1, <1>2, <1>4, <1>5, <1>8, <1>9, <1>10, ReportKeeps
-----------------------------------------------------------------------------
(* The owner, and the market.  *)

LEMMA MoveQuoteKeeps ==
  ASSUME IInv, NEW p \in Positions, MoveQuote(p)
  PROVE  IInv'
<1>1. /\ moves < MaxMoves /\ moves' = moves + 1
      /\ UNCHANGED <<combo, leg, mon, orders, position, broker, strayed>>
  BY DEF MoveQuote
<1>2. PICK q \in Quotes \ {quote[p]} : quote' = [quote EXCEPT ![p] = q]
  BY DEF MoveQuote
<1>3. quote' \in [Positions -> Quotes \cup {NoQuote}] /\ moves' \in 0 .. MaxMoves
  BY <1>1, <1>2, OrderComboAssumption DEF IInv, Typed
<1>4. Typed'
  BY <1>1, <1>3 DEF IInv, Typed
<1>5. \A l \in Legs : Tracked(l)'
  BY <1>1 DEF IInv, Tracked, TrackInv, EndTold, OwnCombo
<1> QED BY <1>4, <1>5 DEF IInv

\* One combo's record becomes r.
LEMMA ComboBecomes ==
  ASSUME Typed, NEW c \in Combos, NEW r \in ComboRows, combo' = [combo EXCEPT ![c] = r]
  PROVE  /\ combo' \in [Combos -> ComboRows]
         /\ \A l \in Legs : OwnCombo(l)' = IF LegOf[l].combo = c THEN r ELSE OwnCombo(l)
<1>1. \A l \in Legs : LegOf[l].combo \in Combos
  BY OrderComboAssumption
<1> QED BY <1>1 DEF Typed, OwnCombo

LEMMA AddLegKeeps ==
  ASSUME IInv, NEW l \in Legs, AddLeg(l)
  PROVE  IInv'
<1> DEFINE c == LegOf[l].combo
           r == [combo[c] EXCEPT !.state = "loading"]
           m == [mon[l] EXCEPT !.state = "Available"]
<1>1. /\ combo[c].state \in {"bare", "loading"} /\ leg[l] = "none"
      /\ UNCHANGED <<orders, position, broker, market, strayed>>
  BY DEF AddLeg
<1>2. /\ combo' = [combo EXCEPT ![c] = r] /\ mon' = [mon EXCEPT ![l] = m]
      /\ leg' = [leg EXCEPT ![l] = LegOf[l].kind]
  BY DEF AddLeg
<1>3. Typed /\ c \in Combos /\ combo[c] \in ComboRows /\ mon[l] \in MonitorRows
      /\ LegOf[l].kind \in LegStates
  BY LegsAreTyped DEF IInv, OwnCombo, Kinds, LegStates
<1>4. /\ r \in ComboRows /\ r.state = "loading" /\ r.callback = combo[c].callback
      /\ m \in MonitorRows /\ m.state = "Available"
  BY <1>3 DEF ComboRows, ComboStates, MonitorRows, MonitorStates
<1> HIDE DEF r, m
<1>5. /\ combo' \in [Combos -> ComboRows]
      /\ \A k \in Legs : OwnCombo(k)' = IF LegOf[k].combo = c THEN r ELSE OwnCombo(k)
  BY <1>2, <1>3, <1>4, ComboBecomes
<1>6. /\ mon' \in [Legs -> MonitorRows] /\ leg' \in [Legs -> LegStates]
      /\ mon'[l] = m /\ \A k \in Legs \ {l} : mon'[k] = mon[k] /\ leg'[k] = leg[k]
  BY <1>2, <1>3, <1>4 DEF Typed
<1>7. UNCHANGED <<orders, position, broker, quote, moves, strayed>>
  BY <1>1 DEF market
<1>8. Typed'
  BY <1>3, <1>5, <1>6, <1>7 DEF Typed
<1>9. ASSUME NEW k \in Legs
      PROVE  Tracked(k)'
  <2>1. Tracked(k)
    BY DEF IInv
  <2>2. CASE LegOf[k].combo = c
    <3>1. OwnCombo(k)' = r /\ OwnCombo(k) = combo[c]
      BY <1>5, <2>2 DEF OwnCombo
    <3>2. broker[k].state = "none" /\ r.callback = "none"
      BY <1>1, <1>4, <2>1, <3>1 DEF Tracked, TrackInv
    <3>3. mon'[k].state \in {"NoPosition", "Available"}
      BY <1>4, <1>6, <2>1, <3>2 DEF Tracked, TrackInv
    <3> QED BY <1>4, <1>7, <2>1, <3>1, <3>2, <3>3 DEF Tracked, TrackInv
  <2>3. CASE LegOf[k].combo # c
    <3>1. OwnCombo(k)' = OwnCombo(k) /\ k # l
      BY <1>5, <2>3
    <3> QED BY <1>6, <1>7, <2>1, <3>1 DEF Tracked, TrackInv, EndTold
  <2> QED BY <2>2, <2>3
<1> QED BY <1>8, <1>9 DEF IInv

LEMMA CancelKeeps ==
  ASSUME IInv, NEW c \in Combos, Cancel(c)
  PROVE  IInv'
<1> DEFINE asked == {l \in LegsOf(c) : IsActive(mon[l])}
           r == [state |-> "cancel", callback |-> "cancel"]
           m(l) == [mon[l] EXCEPT !.state = "ManualCancel"]
           b(l) == [broker[l] EXCEPT !.asked = TRUE]
<1>1. /\ combo[c].state = "monitoring" /\ combo' = [combo EXCEPT ![c] = r]
      /\ mon' = [l \in Legs |-> IF l \in asked THEN m(l) ELSE mon[l]]
      /\ broker' = [l \in Legs |-> IF l \in asked THEN b(l) ELSE broker[l]]
      /\ UNCHANGED <<leg, orders, position, quote, moves, strayed>>
  BY DEF Cancel, market
<1>2. Typed /\ combo[c] \in ComboRows
      /\ \A l \in Legs : mon[l] \in MonitorRows /\ broker[l] \in BrokerRows
  BY DEF IInv, Typed
<1>3. r \in ComboRows /\ r.state = "cancel" /\ r.callback = "cancel"
  BY DEF ComboRows, ComboStates
<1>4. \A l \in Legs :
        /\ m(l) \in MonitorRows /\ m(l).state = "ManualCancel"
        /\ b(l) \in BrokerRows /\ b(l).state = broker[l].state
        /\ b(l).done = broker[l].done /\ b(l).told = broker[l].told /\ b(l).asked = TRUE
  BY <1>2 DEF MonitorRows, MonitorStates, BrokerRows
<1>5. /\ \A l \in asked : l \in Legs /\ LegOf[l].combo = c /\ mon[l].state = "Active"
      /\ \A l \in Legs : LegOf[l].combo = c /\ leg[l] # "none" /\ mon[l].state = "Active" =>
           l \in asked
  BY DEF LegsOf, IsActive
<1> HIDE DEF r, m, b, asked
<1>6. /\ combo' \in [Combos -> ComboRows]
      /\ \A l \in Legs : OwnCombo(l)' = IF LegOf[l].combo = c THEN r ELSE OwnCombo(l)
  BY <1>1, <1>2, <1>3, ComboBecomes
<1>7. ASSUME NEW l \in Legs
      PROVE  /\ mon'[l] \in MonitorRows
             /\ mon'[l].state = IF l \in asked THEN "ManualCancel" ELSE mon[l].state
             /\ broker'[l] \in BrokerRows /\ broker'[l].state = broker[l].state
             /\ broker'[l].done = broker[l].done /\ broker'[l].told = broker[l].told
             /\ broker'[l].asked = IF l \in asked THEN TRUE ELSE broker[l].asked
  <2>1. CASE l \in asked
    <3>1. mon'[l] = m(l) /\ broker'[l] = b(l)
      BY <1>1, <2>1, Zenon
    <3> QED BY <1>4, <2>1, <3>1, Zenon
  <2>2. CASE l \notin asked
    <3>1. mon'[l] = mon[l] /\ broker'[l] = broker[l]
      BY <1>1, <2>2, Zenon
    <3> QED BY <1>2, <2>2, <3>1, Zenon
  <2> QED BY <2>1, <2>2
<1>8. mon' \in [Legs -> MonitorRows] /\ broker' \in [Legs -> BrokerRows]
  <2>1. mon' = [l \in Legs |-> mon'[l]] /\ broker' = [l \in Legs |-> broker'[l]]
    BY <1>1, Zenon
  <2> QED BY <1>7, <2>1, Zenon
<1>9. Typed'
  BY <1>1, <1>2, <1>6, <1>8 DEF Typed
<1>10. ASSUME NEW l \in Legs
       PROVE  Tracked(l)'
  <2>1. Tracked(l)
    BY DEF IInv
  <2>2. CASE LegOf[l].combo = c
    <3>1. OwnCombo(l)' = r /\ OwnCombo(l) = combo[c]
      BY <1>6, <2>2 DEF OwnCombo
    <3>2. leg[l] # "none"
      BY <1>1, <2>1, <3>1 DEF Tracked, TrackInv
    <3>3. broker[l].state = "none" => l \notin asked
      BY <1>5, <2>1 DEF Tracked, TrackInv
    <3>4. EndTold(orders'[l], broker'[l]) \/ broker'[l].asked
      <4>1. CASE mon[l].state = "Active"
        BY <1>5, <1>7, <2>2, <3>2, <4>1
      <4>2. CASE mon[l].state # "Active"
        <5>1. EndTold(orders[l], broker[l])
          BY <1>1, <2>1, <3>1, <4>2 DEF Tracked, TrackInv
        <5> QED BY <1>1, <1>7, <5>1 DEF EndTold
      <4> QED BY <4>1, <4>2
    <3> QED BY <1>1, <1>3, <1>7, <2>1, <3>1, <3>2, <3>3, <3>4 DEF Tracked, TrackInv
  <2>3. CASE LegOf[l].combo # c
    <3>1. OwnCombo(l)' = OwnCombo(l) /\ l \notin asked
      BY <1>5, <1>6, <2>3
    <3> QED BY <1>1, <1>7, <2>1, <3>1 DEF Tracked, TrackInv, EndTold
  <2> QED BY <2>2, <2>3
<1> QED BY <1>9, <1>10 DEF IInv
-----------------------------------------------------------------------------
(* The timer.  *)

\* A tick ends no order and starts none.
LEMMA TickedMonitor ==
  ASSUME NEW m \in MonitorRows, NEW ok \in BOOLEAN
  PROVE  /\ TickMonitor(m, ok) \in MonitorRows
         /\ TickMonitor(m, ok).state =
              IF m.state \in {"Cancelled", "Filled"} THEN "Available" ELSE m.state
<1>0. m.countdown \in 0 .. Periods /\ m.state \in MonitorStates
  BY DEF MonitorRows
<1>1. Counted(m, ok) \in 0 .. Periods
  <2>1. CASE m.countdown > 1
    BY <1>0, <2>1, PeriodsArePositive DEF Counted
  <2>2. CASE ~ (m.countdown > 1) /\ ok
    BY <1>0, <2>2, PeriodsArePositive DEF Counted
  <2>3. CASE ~ (m.countdown > 1) /\ ~ ok
    BY <1>0, <2>3, PeriodsArePositive DEF Counted
  <2> QED BY <2>1, <2>2, <2>3
<1> DEFINE n == Counted(m, ok)
<1>2. CASE m.state = "Active"
  <2>1. TickMonitor(m, ok) = [m EXCEPT !.countdown = n]
    BY <1>2, Zenon DEF TickMonitor
  <2> HIDE DEF n
  <2>2. n \in 0 .. Periods
    BY <1>1 DEF n
  <2>3. [m EXCEPT !.countdown = n] \in MonitorRows
        /\ [m EXCEPT !.countdown = n].state = m.state
    BY <2>2 DEF MonitorRows
  <2> QED BY <1>2, <2>1, <2>3
<1>3. CASE m.state \in {"Cancelled", "Filled"}
  <2>1. TickMonitor(m, ok) = [m EXCEPT !.state = "Available"]
    <3>1. m.state # "Active"
      BY <1>3
    <3> QED BY <1>3, <3>1, Zenon DEF TickMonitor
  <2>2. [m EXCEPT !.state = "Available"] \in MonitorRows
        /\ [m EXCEPT !.state = "Available"].state = "Available"
    BY DEF MonitorRows, MonitorStates
  <2> QED BY <1>3, <2>1, <2>2
<1>4. CASE m.state # "Active" /\ m.state \notin {"Cancelled", "Filled"}
  <2>1. TickMonitor(m, ok) = m
    BY <1>4, Zenon DEF TickMonitor
  <2> QED BY <1>4, <2>1
<1> QED BY <1>2, <1>3, <1>4

\* A price goes down only while something bids below it.
LEMMA AdjustedPrice ==
  ASSUME NEW o, NEW price \in Nat, NEW q \in Quotes \cup {NoQuote}
  PROVE  Adjusted(o, price, q) \in Nat
<1>1. q.bid \in Nat /\ q.ask \in Nat
  BY OrderComboAssumption DEF NoQuote
<1>2. CASE o.side = "Buy"
  BY <1>1, <1>2 DEF Adjusted
<1>3. CASE o.side # "Buy"
  BY <1>1, <1>3 DEF Adjusted
<1> QED BY <1>2, <1>3

LEMMA TickKeeps ==
  ASSUME IInv, NEW c \in Combos, NEW ok \in SUBSET Positions, Tick(c, ok)
  PROVE  IInv'
<1> DEFINE steady(l) == LegOf[l].position \in ok
           m == [l \in Legs |-> IF l \in LegsOf(c) THEN TickMonitor(mon[l], steady(l))
                                                    ELSE mon[l]]
           moved == {l \in LegsOf(c) : Adjusts(mon[l], steady(l))}
           price(l) == Adjusted(orders[l], broker[l].price, QuoteOf(l))
           b(l) == [broker[l] EXCEPT !.price = price(l)]
           r == [combo[c] EXCEPT !.state = "done"]
<1>1. /\ combo[c].state \in {"monitoring", "cancel"}
      /\ mon' = m
      /\ leg' = [l \in Legs |-> IF l \in LegsOf(c) /\ ~ IsActive(m[l])
                                  THEN "done" ELSE leg[l]]
      /\ broker' = [l \in Legs |-> IF l \in moved /\ broker[l].state = "working"
                                    THEN b(l) ELSE broker[l]]
      /\ combo' = IF AllLegsDone(c, m) THEN [combo EXCEPT ![c] = r] ELSE combo
      /\ UNCHANGED <<orders, position, quote, moves, strayed>>
  BY DEF Tick, market
<1>2. Typed /\ combo[c] \in ComboRows
      /\ \A l \in Legs : /\ mon[l] \in MonitorRows /\ broker[l] \in BrokerRows
                          /\ leg[l] \in LegStates
  BY DEF IInv, Typed
<1>3. /\ r \in ComboRows /\ r.state = "done" /\ r.callback = combo[c].callback
  BY <1>2 DEF ComboRows, ComboStates
<1>4. ASSUME NEW l \in Legs
      PROVE  /\ b(l) \in BrokerRows /\ b(l).state = broker[l].state
             /\ b(l).done = broker[l].done /\ b(l).told = broker[l].told
             /\ b(l).asked = broker[l].asked
  <2>1. QuoteOf(l) \in Quotes \cup {NoQuote} /\ broker[l] \in BrokerRows
        /\ broker[l].price \in Nat
    BY <1>2, LegsAreTyped DEF Typed, QuoteOf, BrokerRows
  <2>2. price(l) \in Nat
    BY <2>1, AdjustedPrice
  <2> HIDE DEF price
  <2> QED BY <2>1, <2>2 DEF BrokerRows
<1>5. \A l \in Legs : (l \in LegsOf(c) <=> LegOf[l].combo = c /\ leg[l] # "none")
  BY DEF LegsOf
<1>6. ASSUME NEW l \in Legs
      PROVE  /\ m[l] \in MonitorRows
             /\ m[l].state = IF l \in LegsOf(c) /\ mon[l].state \in {"Cancelled", "Filled"}
                             THEN "Available" ELSE mon[l].state
  <2>1. CASE l \in LegsOf(c)
    <3>1. m[l] = TickMonitor(mon[l], steady(l)) /\ steady(l) \in BOOLEAN
      BY <2>1
    <3> HIDE DEF m, steady
    <3> QED BY <1>2, <2>1, <3>1, TickedMonitor
  <2>2. CASE l \notin LegsOf(c)
    <3>1. m[l] = mon[l]
      BY <2>2
    <3> HIDE DEF m
    <3> QED BY <1>2, <2>2, <3>1
  <2> QED BY <2>1, <2>2
<1>7. m \in [Legs -> MonitorRows]
  <2>1. m = [l \in Legs |-> m[l]]
    OBVIOUS
  <2> HIDE DEF m
  <2> QED BY <1>6, <2>1, Zenon
<1> HIDE DEF m, moved, b, r
<1>8. ASSUME NEW l \in Legs
      PROVE  /\ broker'[l] \in BrokerRows /\ broker'[l].state = broker[l].state
             /\ broker'[l].done = broker[l].done /\ broker'[l].told = broker[l].told
             /\ broker'[l].asked = broker[l].asked
  <2>1. CASE l \in moved /\ broker[l].state = "working"
    <3>1. broker'[l] = b(l)
      BY <1>1, <2>1, Zenon
    <3> QED BY <1>4, <3>1, Zenon
  <2>2. CASE ~ (l \in moved /\ broker[l].state = "working")
    <3>1. broker'[l] = broker[l]
      BY <1>1, <2>2, Zenon
    <3> QED BY <1>2, <3>1, Zenon
  <2> QED BY <2>1, <2>2
<1>9. broker' \in [Legs -> BrokerRows]
  <2>1. broker' = [l \in Legs |-> broker'[l]]
    BY <1>1, Zenon
  <2> QED BY <1>8, <2>1, Zenon
<1>10. /\ leg' \in [Legs -> LegStates]
       /\ \A l \in Legs : leg[l] # "none" => leg'[l] # "none"
       /\ \A l \in Legs : leg[l] = "none" => leg'[l] = "none"
  <2>1. "done" \in LegStates
    BY DEF LegStates
  <2>2. leg' \in [Legs -> LegStates]
    BY <1>1, <1>2, <2>1, Zenon
  <2>3. \A l \in Legs : leg'[l] = IF l \in LegsOf(c) /\ ~ IsActive(m[l])
                                  THEN "done" ELSE leg[l]
    BY <1>1, Zenon
  <2> QED BY <1>5, <2>2, <2>3
<1>11. /\ combo' \in [Combos -> ComboRows]
       /\ \A l \in Legs : OwnCombo(l)' = IF LegOf[l].combo = c /\ AllLegsDone(c, m)
                                         THEN r ELSE OwnCombo(l)
  <2>1. CASE AllLegsDone(c, m)
    <3>1. combo' = [combo EXCEPT ![c] = r]
      BY <1>1, <2>1
    <3> QED BY <1>2, <1>3, <2>1, <3>1, ComboBecomes
  <2>2. CASE ~ AllLegsDone(c, m)
    BY <1>1, <1>2, <2>2 DEF Typed, OwnCombo
  <2> QED BY <2>1, <2>2
<1>12. Typed'
  BY <1>1, <1>2, <1>7, <1>9, <1>10, <1>11 DEF Typed
<1>13. ASSUME NEW l \in Legs
       PROVE  Tracked(l)'
  <2>1. Tracked(l)
    BY DEF IInv
  <2>2. CASE LegOf[l].combo = c
    <3>1. OwnCombo(l) = combo[c] /\ leg[l] # "none"
      BY <1>1, <2>1, <2>2 DEF OwnCombo, Tracked, TrackInv
    <3>2. l \in LegsOf(c)
      BY <1>5, <2>2, <3>1
    <3>3. mon'[l].state = IF mon[l].state \in {"Cancelled", "Filled"} THEN "Available"
                          ELSE mon[l].state
      BY <1>1, <1>6, <3>2
    <3>4. AllLegsDone(c, m) => mon'[l].state # "Active"
      BY <1>1, <3>2 DEF AllLegsDone, IsActive
    <3>5. /\ OwnCombo(l)'.state \in {"monitoring", "cancel", "done"}
          /\ OwnCombo(l)'.callback = OwnCombo(l).callback
          /\ OwnCombo(l)'.state = "done" => AllLegsDone(c, m)
          /\ OwnCombo(l)'.state = "monitoring" => OwnCombo(l).state = "monitoring"
      BY <1>1, <1>3, <1>11, <2>2, <3>1
    <3>6. OwnCombo(l).callback # "none"
      BY <1>1, <2>1, <3>1 DEF Tracked, TrackInv
    <3> QED BY <1>1, <1>8, <1>10, <2>1, <3>1, <3>3, <3>4, <3>5, <3>6
         DEF Tracked, TrackInv, EndTold
  <2>3. CASE LegOf[l].combo # c
    <3>1. OwnCombo(l)' = OwnCombo(l) /\ mon'[l].state = mon[l].state
      BY <1>1, <1>5, <1>6, <1>11, <2>3
    <3>2. leg'[l] = leg[l]
      BY <1>1, <1>5, <2>3
    <3> QED BY <1>1, <1>8, <2>1, <3>1, <3>2 DEF Tracked, TrackInv, EndTold
  <2> QED BY <2>2, <2>3
<1> QED BY <1>12, <1>13 DEF IInv

\* The side and quantity of a leg's order.
LEMMA QuantitiesAreTyped ==
  ASSUME Typed, NEW l \in Legs
  PROVE  Quantity(l) \in Nat /\ Side(l) \in Sides
<1>1. PositionOf(l).active \in Int /\ LegOf[l].quan \in Nat /\ LegOf[l].side \in Sides
  BY LegsAreTyped
<1>2. Quantity(l) \in Nat
  BY <1>1 DEF Quantity
<1>3. Side(l) \in Sides
  BY <1>1 DEF Side, Sides
<1> QED BY <1>2, <1>3

LEMMA MidpointsAreTyped ==
  ASSUME NEW q \in Quotes \cup {NoQuote}
  PROVE  Midpoint(q) \in Nat
<1>1. q.bid \in Nat /\ q.ask \in Nat
  BY OrderComboAssumption DEF NoQuote
<1> QED BY <1>1 DEF Midpoint

LEMMA SubmitKeeps ==
  ASSUME IInv, NEW c \in Combos, Submit(c)
  PROVE  IInv'
<1> DEFINE placed == {l \in LegsOf(c) : MayPlace(l)}
           r == [state |-> "monitoring", callback |-> "submit"]
           m == [state |-> "Active", countdown |-> Periods]
           o(l) == SetSendingToProvider(NewOrder(Side(l), Quantity(l)))
           price(l) == Midpoint(QuoteOf(l))
           b(l) == [broker[l] EXCEPT !.state = "working", !.price = price(l)]
           units(p) == Quantity(CHOOSE l \in placed : LegOf[l].position = p)
<1>1. /\ combo[c].state = "loading" /\ combo' = [combo EXCEPT ![c] = r]
      /\ \A l \in Legs : LegOf[l].combo = c => leg[l] # "none"
      /\ leg' = [l \in Legs |-> IF l \in LegsOf(c) THEN "active" ELSE leg[l]]
      /\ mon' = [l \in Legs |-> IF l \in placed THEN m ELSE mon[l]]
      /\ orders' = [l \in Legs |-> IF l \in placed THEN o(l) ELSE orders[l]]
      /\ broker' = [l \in Legs |-> IF l \in placed THEN b(l) ELSE broker[l]]
      /\ position' = [p \in Positions |->
           [position[p] EXCEPT !.pending =
              IF \E l \in placed : LegOf[l].position = p THEN @ + units(p) ELSE @]]
      /\ UNCHANGED <<quote, moves, strayed>>
  BY DEF Submit, market
<1>2. Typed /\ combo[c] \in ComboRows
      /\ \A l \in Legs : /\ mon[l] \in MonitorRows /\ broker[l] \in BrokerRows
                          /\ leg[l] \in LegStates /\ orders[l] \in OrderRow
  BY DEF IInv, Typed
<1>3. /\ r \in ComboRows /\ r.state = "monitoring" /\ r.callback = "submit"
      /\ m \in MonitorRows /\ m.state = "Active"
  BY PeriodsArePositive DEF ComboRows, ComboStates, MonitorRows, MonitorStates
<1>4. \A l \in placed : l \in Legs /\ LegOf[l].combo = c /\ Quantity(l) > 0
  BY DEF LegsOf, MayPlace
<1>5. ASSUME NEW l \in Legs
      PROVE  /\ o(l) \in OrderRow /\ o(l).quan = Quantity(l)
             /\ o(l).remaining = Quantity(l) /\ o(l).filled = 0
             /\ o(l).side = Side(l)
  <2>1. Quantity(l) \in Nat /\ Side(l) \in Sides
    BY <1>2, QuantitiesAreTyped
  <2> DEFINE n == NewOrder(Side(l), Quantity(l))
  <2>2. /\ n \in OrderRow /\ n.quan = Quantity(l) /\ n.remaining = Quantity(l)
        /\ n.filled = 0 /\ n.side = Side(l)
    BY <2>1, NewOrderFacts
  <2> HIDE DEF n
  <2>3. LET s == SetSendingToProvider(n)
        IN  /\ s \in OrderRow /\ s.quan = n.quan /\ s.remaining = n.remaining
            /\ s.filled = n.filled /\ s.side = n.side
    BY <2>2, SetSendingFacts
  <2> QED BY <2>2, <2>3 DEF n
<1>6. ASSUME NEW l \in Legs
      PROVE  /\ b(l) \in BrokerRows /\ b(l).state = "working"
             /\ b(l).done = broker[l].done /\ b(l).told = broker[l].told
  <2>1. QuoteOf(l) \in Quotes \cup {NoQuote} /\ broker[l] \in BrokerRows
    BY <1>2, LegsAreTyped DEF Typed, QuoteOf
  <2>2. price(l) \in Nat
    BY <2>1, MidpointsAreTyped
  <2> HIDE DEF price
  <2> QED BY <2>1, <2>2 DEF BrokerRows, BrokerStates
<1>7. position' \in [Positions -> [active : Int, pending : Int]]
  <2>1. ASSUME NEW p \in Positions
        PROVE  position'[p] \in [active : Int, pending : Int]
    <3>1. position[p] \in [active : Int, pending : Int] /\ position[p].pending \in Int
      BY <1>2 DEF Typed
    <3>2. (\E l \in placed : LegOf[l].position = p) => units(p) \in Nat
      BY <1>2, <1>4, QuantitiesAreTyped
    <3> DEFINE k == IF \E l \in placed : LegOf[l].position = p
                    THEN position[p].pending + units(p) ELSE position[p].pending
    <3> HIDE DEF placed, units
    <3>3. k \in Int
      BY <3>1, <3>2
    <3>4. position'[p] = [position[p] EXCEPT !.pending = k]
      BY <1>1
    <3> HIDE DEF k
    <3> QED BY <3>1, <3>3, <3>4
  <2>2. position' = [p \in Positions |-> position'[p]]
    BY <1>1
  <2> QED BY <2>1, <2>2, Zenon
<1> HIDE DEF placed, r, m, o, b
<1>8. ASSUME NEW l \in Legs
      PROVE  /\ l \in placed => mon'[l] = m /\ orders'[l] = o(l) /\ broker'[l] = b(l)
             /\ l \notin placed =>
                  mon'[l] = mon[l] /\ orders'[l] = orders[l] /\ broker'[l] = broker[l]
  BY <1>1, Zenon
<1>9. /\ mon' \in [Legs -> MonitorRows] /\ orders' \in [Legs -> OrderRow]
      /\ broker' \in [Legs -> BrokerRows]
  BY <1>1, <1>2, <1>3, <1>5, <1>6, Zenon
<1>10. /\ leg' \in [Legs -> LegStates]
       /\ \A l \in Legs : leg[l] # "none" => leg'[l] # "none"
       /\ \A l \in Legs : LegOf[l].combo # c => leg'[l] = leg[l]
  BY <1>1, <1>2 DEF LegStates, LegsOf
<1>11. /\ combo' \in [Combos -> ComboRows]
       /\ \A l \in Legs : OwnCombo(l)' = IF LegOf[l].combo = c THEN r ELSE OwnCombo(l)
  BY <1>1, <1>2, <1>3, ComboBecomes
<1>12. Typed'
  BY <1>1, <1>2, <1>7, <1>9, <1>10, <1>11 DEF Typed
<1>13. ASSUME NEW l \in Legs
       PROVE  Tracked(l)'
  <2>1. Tracked(l)
    BY DEF IInv
  <2>2. CASE LegOf[l].combo = c
    <3>1. OwnCombo(l) = combo[c] /\ OwnCombo(l)' = r /\ leg'[l] # "none"
      BY <1>1, <1>10, <1>11, <2>2 DEF OwnCombo
    <3>2. /\ broker[l].state = "none" /\ broker[l].done = 0 /\ orders[l].filled = 0
          /\ ~ broker[l].told
          /\ mon[l].state \in {"NoPosition", "Available"}
      BY <1>1, <2>1, <3>1 DEF Tracked, TrackInv
    <3>3. CASE l \in placed
      <4>1. mon'[l] = m /\ orders'[l] = o(l) /\ broker'[l] = b(l)
        BY <1>8, <3>3
      <4>2. Quantity(l) \in Nat /\ Quantity(l) > 0
        BY <1>2, <1>4, <3>3, QuantitiesAreTyped
      <4>3. /\ broker'[l].state = "working" /\ broker'[l].done = 0 /\ ~ broker'[l].told
            /\ orders'[l].filled = 0 /\ orders'[l].quan = Quantity(l)
            /\ orders'[l].remaining = Quantity(l)
        BY <1>5, <1>6, <3>2, <4>1
      <4> QED BY <1>3, <3>1, <4>1, <4>2, <4>3 DEF Tracked, TrackInv
    <3>4. CASE l \notin placed
      <4>1. mon'[l] = mon[l] /\ orders'[l] = orders[l] /\ broker'[l] = broker[l]
        BY <1>8, <3>4
      <4> QED BY <1>3, <2>1, <3>1, <3>2, <4>1 DEF Tracked, TrackInv, EndTold
    <3> QED BY <3>3, <3>4
  <2>3. CASE LegOf[l].combo # c
    <3>1. OwnCombo(l)' = OwnCombo(l) /\ l \notin placed /\ leg'[l] = leg[l]
      BY <1>4, <1>10, <1>11, <2>3
    <3>2. mon'[l] = mon[l] /\ orders'[l] = orders[l] /\ broker'[l] = broker[l]
      BY <1>8, <3>1
    <3> QED BY <2>1, <3>1, <3>2 DEF Tracked, TrackInv, EndTold
  <2> QED BY <2>2, <2>3
<1> QED BY <1>12, <1>13 DEF IInv
-----------------------------------------------------------------------------
LEMMA NextKeepsInv == IInv /\ [Next]_vars => IInv'
<1> SUFFICES ASSUME IInv, [Next]_vars PROVE IInv'
  OBVIOUS
<1>1. CASE Owner
  BY <1>1, AddLegKeeps, SubmitKeeps, CancelKeeps DEF Owner
<1>2. CASE Clock
  BY <1>2, TickKeeps DEF Clock
<1>3. CASE Broker
  BY <1>3, BrokerFillKeeps, BrokerCancelKeeps, BrokerRejectKeeps DEF Broker
<1>4. CASE Deliver
  BY <1>4, DeliverExecutionKeeps, DeliverCancellationKeeps DEF Deliver
<1>5. CASE \E p \in Positions : MoveQuote(p)
  BY <1>5, MoveQuoteKeeps
<1>6. CASE UNCHANGED vars
  <2>1. Typed'
    BY <1>6 DEF vars, IInv, Typed
  <2>2. \A l \in Legs : Tracked(l)'
    BY <1>6 DEF vars, IInv, Tracked, TrackInv, EndTold, OwnCombo
  <2> QED BY <2>1, <2>2 DEF IInv
<1> QED BY <1>1, <1>2, <1>3, <1>4, <1>5, <1>6 DEF Next

LEMMA InvHolds == Spec => []IInv
  BY InitInv, NextKeepsInv, PTL DEF Spec

\* When a combo is done every order of its legs was reported filled or
\* cancelled, or was never placed, unless the combo was cancelled, and its
\* cancellation is on its way (OrderCombo::Tick, the states of MonitorOrder).
THEOREM DoneCombosAreOver == Spec => []DoneMeansOver
<1>1. IInv => DoneMeansOver
  <2> SUFFICES ASSUME IInv, NEW l \in Legs, OwnCombo(l).state = "done"
               PROVE  Ended(l) \/ (OwnCombo(l).callback = "cancel" /\ broker[l].asked)
    BY DEF DoneMeansOver, OwnCombo
  <2>1. Tracked(l) /\ OwnCombo(l).callback \in {"submit", "cancel"}
    BY LegsAreTyped DEF IInv, Tracked, TrackInv, ComboRows
  <2>2. CASE OwnCombo(l).callback = "submit"
    <3>1. EndTold(orders[l], broker[l])
      BY <2>1, <2>2 DEF Tracked, TrackInv
    <3> QED BY <3>1 DEF EndTold, Ended
  <2>3. CASE OwnCombo(l).callback = "cancel"
    <3>1. EndTold(orders[l], broker[l]) \/ broker[l].asked
      BY <2>1, <2>3 DEF Tracked, TrackInv
    <3> QED BY <2>3, <3>1 DEF EndTold, Ended
  <2> QED BY <2>1, <2>2, <2>3
<1> QED BY <1>1, InvHolds, PTL
-----------------------------------------------------------------------------
(* Selling what is held.  *)

\* Combos that are done stay done.
LEMMA CombosGoOn ==
  ASSUME Typed, Fresh, [Next]_vars
  PROVE  /\ Fresh'
         /\ \A c \in Combos : combo[c].state = "done" => combo'[c].state = "done"
<1>0. \A c \in Combos : combo[c] \in ComboRows
  BY DEF Typed
<1>1. SUFFICES ASSUME NEW c \in Combos, NEW r \in ComboRows,
                      combo' = [combo EXCEPT ![c] = r],
                      r.state \in {"bare", "loading"} => r.callback = "none",
                      combo[c].state = "done" => r.state = "done"
               PROVE  /\ Fresh'
                      /\ \A d \in Combos : combo[d].state = "done" => combo'[d].state = "done"
  <2>1. CASE combo' = combo
    BY <2>1 DEF Fresh
  <2>2. ASSUME NEW l \in Legs, AddLeg(l)
        PROVE  /\ Fresh'
               /\ \A c \in Combos : combo[c].state = "done" => combo'[c].state = "done"
    <3> DEFINE c == LegOf[l].combo
               r == [combo[c] EXCEPT !.state = "loading"]
    <3>1. c \in Combos /\ combo[c].state \in {"bare", "loading"}
          /\ combo' = [combo EXCEPT ![c] = r]
      BY <2>2, OrderComboAssumption DEF AddLeg
    <3>2. r \in ComboRows /\ r.state = "loading" /\ r.callback = combo[c].callback
      BY <1>0, <3>1 DEF ComboRows, ComboStates
    <3>3. combo[c].callback = "none"
      BY <3>1 DEF Fresh
    <3> HIDE DEF r, c
    <3> QED BY <1>1, <3>1, <3>2, <3>3
  <2>3. ASSUME NEW c \in Combos, Submit(c)
        PROVE  /\ Fresh'
               /\ \A d \in Combos : combo[d].state = "done" => combo'[d].state = "done"
    <3> DEFINE r == [state |-> "monitoring", callback |-> "submit"]
    <3>1. combo[c].state = "loading" /\ combo' = [combo EXCEPT ![c] = r]
      BY <2>3 DEF Submit
    <3>2. r \in ComboRows /\ r.state = "monitoring"
      BY DEF ComboRows, ComboStates
    <3>3. combo[c].callback = "none"
      BY <3>1 DEF Fresh
    <3> HIDE DEF r
    <3> QED BY <1>1, <3>1, <3>2, <3>3
  <2>4. ASSUME NEW c \in Combos, Cancel(c)
        PROVE  /\ Fresh'
               /\ \A d \in Combos : combo[d].state = "done" => combo'[d].state = "done"
    <3> DEFINE r == [state |-> "cancel", callback |-> "cancel"]
    <3>1. combo[c].state = "monitoring" /\ combo' = [combo EXCEPT ![c] = r]
      BY <2>4 DEF Cancel
    <3>2. r \in ComboRows /\ r.state = "cancel" /\ r.callback = "cancel"
      BY DEF ComboRows, ComboStates
    <3> HIDE DEF r
    <3> QED BY <1>1, <3>1, <3>2
  <2>5. ASSUME NEW c \in Combos, NEW ok, Tick(c, ok)
        PROVE  /\ Fresh'
               /\ \A d \in Combos : combo[d].state = "done" => combo'[d].state = "done"
    <3> DEFINE r == [combo[c] EXCEPT !.state = "done"]
    <3>1. combo' = combo \/ combo' = [combo EXCEPT ![c] = r]
      BY <2>5 DEF Tick
    <3>2. r \in ComboRows /\ r.state = "done" /\ r.callback = combo[c].callback
      BY <1>0 DEF ComboRows, ComboStates
    <3> HIDE DEF r
    <3> QED BY <1>1, <2>1, <3>1, <3>2
  <2>6. CASE \/ \E l \in Legs : BrokerFill(l) \/ BrokerCancel(l) \/ BrokerReject(l)
             \/ \E l \in Legs : DeliverExecution(l) \/ DeliverCancellation(l)
             \/ \E p \in Positions : MoveQuote(p)
             \/ UNCHANGED vars
    <3>1. combo' = combo
      BY <2>6 DEF BrokerFill, BrokerCancel, BrokerReject, DeliverExecution,
                  DeliverCancellation, MoveQuote, vars
    <3> QED BY <2>1, <3>1
  <2> QED BY <2>2, <2>3, <2>4, <2>5, <2>6 DEF Next, Owner, Clock, Broker, Deliver
<1>2. \A d \in Combos : combo'[d] = IF d = c THEN r ELSE combo[d]
  BY <1>1 DEF Typed
<1> QED BY <1>1, <1>2 DEF Fresh

\* Only AddLeg adds a leg.
LEMMA LegsAreAdded ==
  ASSUME Typed, [Next]_vars, NEW k \in Legs, leg'[k] # "none", leg[k] = "none"
  PROVE  AddLeg(k)
<1>1. ASSUME NEW l \in Legs, AddLeg(l)
      PROVE  AddLeg(k)
  <2>1. leg' = [leg EXCEPT ![l] = LegOf[l].kind]
    BY <1>1 DEF AddLeg
  <2>2. k = l
    BY <2>1 DEF Typed
  <2> QED BY <1>1, <2>2
<1>2. ASSUME NEW c \in Combos, Submit(c)
      PROVE  FALSE
  <2>1. leg'[k] = IF k \in LegsOf(c) THEN "active" ELSE leg[k]
    BY <1>2 DEF Submit
  <2> QED BY <2>1 DEF LegsOf
<1>3. ASSUME NEW c \in Combos, NEW ok, Tick(c, ok)
      PROVE  FALSE
  <2>1. leg'[k] = leg[k] \/ k \in LegsOf(c)
    BY <1>3 DEF Tick
  <2> QED BY <2>1 DEF LegsOf
<1>4. CASE \/ \E c \in Combos : Cancel(c)
           \/ \E l \in Legs : BrokerFill(l) \/ BrokerCancel(l) \/ BrokerReject(l)
           \/ \E l \in Legs : DeliverExecution(l) \/ DeliverCancellation(l)
           \/ \E p \in Positions : MoveQuote(p)
           \/ UNCHANGED vars
  <2>1. leg' = leg
    BY <1>4 DEF Cancel, BrokerFill, BrokerCancel, BrokerReject, DeliverExecution,
                DeliverCancellation, MoveQuote, vars
  <2> QED BY <2>1
<1> QED BY <1>1, <1>2, <1>3, <1>4 DEF Next, Owner, Clock, Broker, Deliver

LEMMA ApartKeeps ==
  ASSUME IInv, Fresh, Apart, [Next]_vars
  PROVE  Apart'
<1> SUFFICES ASSUME NEW l \in Legs, NEW k \in Legs, l # k,
                    LegOf[l].position = LegOf[k].position,
                    leg'[l] # "none", leg'[k] # "none"
             PROVE  OwnCombo(l)'.state = "done" \/ OwnCombo(k)'.state = "done"
  BY DEF Apart
<1>1. Typed /\ LegOf[l].combo \in Combos /\ LegOf[k].combo \in Combos
      /\ LegOf[l].combo # LegOf[k].combo
  BY OrderComboAssumption DEF IInv
<1>2. /\ OwnCombo(l).state = "done" => OwnCombo(l)'.state = "done"
      /\ OwnCombo(k).state = "done" => OwnCombo(k)'.state = "done"
  BY <1>1, CombosGoOn DEF OwnCombo
<1>3. CASE leg[l] # "none" /\ leg[k] # "none"
  BY <1>2, <1>3 DEF Apart
<1>4. CASE leg[l] = "none" /\ leg[k] # "none"
  <2>1. AddLeg(l)
    BY <1>1, <1>4, LegsAreAdded
  <2>2. OwnCombo(k).state = "done"
    BY <1>1, <1>4, <2>1 DEF AddLeg, Free, OwnCombo
  <2> QED BY <1>2, <2>2
<1>5. CASE leg[k] = "none" /\ leg[l] # "none"
  <2>1. AddLeg(k)
    BY <1>1, <1>5, LegsAreAdded
  <2>2. OwnCombo(l).state = "done"
    BY <1>1, <1>5, <2>1 DEF AddLeg, Free, OwnCombo
  <2> QED BY <1>2, <2>2
<1>6. CASE leg[k] = "none" /\ leg[l] = "none"
  <2>1. AddLeg(k) /\ AddLeg(l)
    BY <1>1, <1>6, LegsAreAdded
  <2>2. leg' = [leg EXCEPT ![k] = LegOf[k].kind]
    BY <2>1 DEF AddLeg
  <2>3. leg'[l] = "none"
    BY <1>1, <1>6, <2>2 DEF Typed
  <2> QED BY <2>3
<1> QED BY <1>3, <1>4, <1>5, <1>6

\* The awaited orders, by position: one alone.
LEMMA AwaitedAlone ==
  ASSUME IInv, Apart, NEW l \in Legs, NEW k \in Legs, l # k,
         LegOf[l].position = LegOf[k].position, Awaited(l)
  PROVE  ~ Awaited(k)
<1>1. ASSUME NEW j \in Legs, Awaited(j)
      PROVE  leg[j] # "none" /\ OwnCombo(j).state # "done"
  <2>1. Tracked(j)
    BY DEF IInv
  <2>2. broker[j].state # "none" /\ OwnCombo(j).state \notin {"bare", "loading"}
    BY <1>1, <2>1 DEF Awaited, Tracked, TrackInv
  <2> QED BY <1>1, <2>1, <2>2 DEF Awaited, Tracked, TrackInv
<1> QED BY <1>1 DEF Apart

\* An action that starts no order and trades nothing.
LEMMA QuietKeepsLong ==
  ASSUME LongInv,
         \A p \in Positions : position'[p].active = position[p].active /\ strayed'[p] = strayed[p],
         \A l \in Legs :
           /\ LegOf[l].position \in Positions
           /\ Awaited(l)' => Awaited(l)
           /\ orders'[l].side = orders[l].side /\ orders'[l].remaining = orders[l].remaining
  PROVE  LongInv'
<1>1. \A p \in Positions : Unstrayed(p)' = Unstrayed(p)
  BY DEF Unstrayed
<1>2. \A l \in Legs : Awaited(l)' /\ orders'[l].side = "Sell" =>
                       orders'[l].remaining <= Unstrayed(LegOf[l].position)'
  BY <1>1 DEF LongInv
<1> QED BY <1>1, <1>2 DEF LongInv

LEMMA SubmitKeepsLong ==
  ASSUME LongOnly, IInv, LongInv, NEW c \in Combos, Submit(c)
  PROVE  LongInv'
<1> DEFINE placed == {l \in LegsOf(c) : MayPlace(l)}
           o(l) == SetSendingToProvider(NewOrder(Side(l), Quantity(l)))
<1>1. Typed /\ \A l \in Legs : LegOf[l].position \in Positions
  BY OrderComboAssumption DEF IInv
<1>2. \A p \in Positions : position'[p].active = position[p].active /\ strayed'[p] = strayed[p]
  BY <1>1 DEF Submit, Typed
<1>3. ASSUME NEW l \in Legs
      PROVE  /\ l \notin placed => broker'[l] = broker[l] /\ orders'[l] = orders[l]
             /\ l \in placed => orders'[l] = o(l)
             /\ OwnCombo(l).state = "done" => OwnCombo(l)'.state = "done"
  <2>1. combo[c].state = "loading"
        /\ combo' = [combo EXCEPT ![c] = [state |-> "monitoring", callback |-> "submit"]]
    BY DEF Submit
  <2>2. LegOf[l].combo \in Combos
    BY OrderComboAssumption
  <2>3. OwnCombo(l).state = "done" => OwnCombo(l)'.state = "done"
    BY <1>1, <2>1, <2>2 DEF OwnCombo, Typed
  <2> QED BY <2>3 DEF Submit
<1>4. ASSUME NEW l \in placed
      PROVE  /\ l \in Legs
             /\ Quantity(l) \in Nat /\ Quantity(l) > 0
             /\ o(l).side = Side(l) /\ o(l).remaining = Quantity(l)
  <2>1. l \in Legs /\ Quantity(l) > 0 /\ Quantity(l) \in Nat /\ Side(l) \in Sides
    BY <1>1, QuantitiesAreTyped DEF LegsOf, MayPlace
  <2> DEFINE n == NewOrder(Side(l), Quantity(l))
  <2>2. n \in OrderRow /\ n.remaining = Quantity(l) /\ n.side = Side(l)
    BY <2>1, NewOrderFacts
  <2> HIDE DEF n
  <2>3. LET s == SetSendingToProvider(n)
        IN  s.remaining = n.remaining /\ s.side = n.side
    BY <2>2, SetSendingFacts
  <2> QED BY <2>1, <2>2, <2>3 DEF n
<1> HIDE DEF placed, o
<1>5. \A p \in Positions : Unstrayed(p)' = Unstrayed(p)
  BY <1>2 DEF Unstrayed
<1>6. \A p \in Positions : Unstrayed(p) >= 0 /\ strayed[p] \in Nat /\ position[p].active \in Int
  BY <1>1 DEF LongInv, Typed
<1>7. ASSUME NEW l \in Legs, Awaited(l)', orders'[l].side = "Sell"
      PROVE  orders'[l].remaining <= Unstrayed(LegOf[l].position)
  <2>1. PositionOf(l).active \in Int /\ strayed[LegOf[l].position] \in Nat
    BY <1>1, <1>6, LegsAreTyped DEF PositionOf
  <2>2. CASE l \in placed
    <3>1. Side(l) = "Sell" /\ orders'[l].remaining = Quantity(l) /\ Quantity(l) > 0
      BY <1>3, <1>4, <1>7, <2>2
    <3>2. LegOf[l].kind # "leg_add"
      BY <3>1 DEF LongOnly, Side
    <3>3. Quantity(l) = PositionOf(l).active
      BY <2>1, <3>1, <3>2 DEF Quantity, Side
    <3> QED BY <2>1, <3>1, <3>3 DEF Unstrayed, PositionOf
  <2>3. CASE l \notin placed
    <3>1. Awaited(l) /\ orders'[l] = orders[l]
      BY <1>3, <1>7, <2>3 DEF Awaited
    <3> QED BY <1>7, <3>1 DEF LongInv
  <2> QED BY <2>2, <2>3
<1> QED BY <1>1, <1>5, <1>6, <1>7 DEF LongInv

LEMMA ExecutionKeepsLong ==
  ASSUME IInv, Apart, LongInv, NEW l \in Legs, DeliverExecution(l)
  PROVE  LongInv'
<1> DEFINE p == LegOf[l].position
           now(size) == ReportExecution(orders[l], size)
           stray == Stray(l) /\ orders[l].side = "Sell"
<1>1. PICK size \in 1 .. (broker[l].done - orders[l].filled) :
        /\ orders' = [orders EXCEPT ![l] = now(size)]
        /\ position' = [position EXCEPT ![p] =
             [active |-> IF now(size).side = "Buy" THEN @.active + size ELSE @.active - size,
              pending |-> IF broker[l].told THEN @.pending ELSE @.pending - size]]
        /\ strayed' = [strayed EXCEPT ![p] =
             IF Stray(l) /\ now(size).side = "Sell" THEN @ + size ELSE @]
  BY DEF DeliverExecution
<1> DEFINE o == now(size)
<1>2. /\ Typed /\ p \in Positions /\ position[p].active \in Int /\ strayed[p] \in Nat
      /\ \A k \in Legs : LegOf[k].position \in Positions
  BY LegsAreTyped, OrderComboAssumption DEF IInv, PositionOf, Typed
<1>3. /\ size \in Nat \ {0} /\ o.side = orders[l].side
      /\ o.remaining = orders[l].remaining - size /\ o.remaining \in Nat
      /\ orders[l].remaining \in Nat /\ orders[l].side \in Sides
      /\ broker[l].state # "none"
      /\ OwnCombo(l).state = "done" => Stray(l)
  <2>1. o \in OrderRow /\ orders[l] \in OrderRow
    BY <1>2, ExecutionFacts, LegsAreTyped
  <2> HIDE DEF now
  <2>2. o.remaining \in Nat /\ orders[l].remaining \in Nat /\ orders[l].side \in Sides
    BY <2>1 DEF OrderRow
  <2> QED BY <2>2, ExecutionFacts DEF now
<1> HIDE DEF now
<1>4. /\ orders'[l] = o
      /\ \A k \in Legs \ {l} : orders'[k] = orders[k]
      /\ position'[p].active = IF o.side = "Buy" THEN position[p].active + size
                              ELSE position[p].active - size
      /\ \A q \in Positions \ {p} : position'[q] = position[q] /\ strayed'[q] = strayed[q]
  BY <1>1, <1>2 DEF Typed
<1>5. strayed'[p] = IF stray THEN strayed[p] + size ELSE strayed[p]
  BY <1>1, <1>2, <1>3 DEF Typed
<1>6. \A k \in Legs : Awaited(k)' <=> Awaited(k)
  <2>1. UNCHANGED <<combo, broker>>
    BY DEF DeliverExecution
  <2> QED BY <2>1 DEF Awaited, OwnCombo
<1>7. Unstrayed(p)' = IF orders[l].side = "Buy" THEN Unstrayed(p) + size
                     ELSE IF Stray(l) THEN Unstrayed(p) ELSE Unstrayed(p) - size
  <2> DEFINE st == Stray(l)
  <2>1. st \in BOOLEAN
    BY DEF Stray
  <2> HIDE DEF st, o, p
  <2>2. strayed'[p] = IF st /\ orders[l].side = "Sell" THEN strayed[p] + size ELSE strayed[p]
    BY <1>5 DEF st
  <2>3. position'[p].active = IF orders[l].side = "Buy" THEN position[p].active + size
                              ELSE position[p].active - size
    BY <1>3, <1>4
  <2>4. CASE orders[l].side = "Buy"
    BY <1>2, <1>3, <2>2, <2>3, <2>4 DEF Unstrayed
  <2>5. CASE orders[l].side = "Sell" /\ st
    BY <1>2, <1>3, <2>2, <2>3, <2>5 DEF Unstrayed, st
  <2>6. CASE orders[l].side = "Sell" /\ ~ st
    BY <1>2, <1>3, <2>2, <2>3, <2>6 DEF Unstrayed, st
  <2> QED BY <1>3, <2>4, <2>5, <2>6 DEF Sides
<1>8. \A q \in Positions \ {p} : Unstrayed(q)' = Unstrayed(q)
  BY <1>4 DEF Unstrayed
<1>9. /\ \A q \in Positions : Unstrayed(q) >= 0
      /\ \A k \in Legs : Awaited(k) /\ orders[k].side = "Sell" =>
           orders[k].remaining <= Unstrayed(LegOf[k].position)
  BY DEF LongInv
<1>10. Unstrayed(p) \in Int
  BY <1>2 DEF Unstrayed
<1>11. ~ Stray(l) => Awaited(l)
  BY <1>3 DEF Awaited
<1>12. /\ Unstrayed(p)' >= 0
       /\ Awaited(l) /\ orders[l].side = "Sell" => o.remaining <= Unstrayed(p)'
  <2>1. CASE orders[l].side = "Buy"
    BY <1>2, <1>3, <1>7, <1>9, <1>10, <2>1
  <2>2. CASE orders[l].side = "Sell" /\ Stray(l)
    <3>1. OwnCombo(l).state = "done"
      BY <2>2 DEF Stray, OwnCombo
    <3>2. ~ Awaited(l)
      BY <3>1 DEF Awaited
    <3>3. Unstrayed(p)' = Unstrayed(p)
      BY <1>7, <2>2
    <3> QED BY <1>2, <1>9, <3>2, <3>3
  <2>3. CASE orders[l].side = "Sell" /\ ~ Stray(l)
    <3>1. orders[l].remaining <= Unstrayed(p)
      BY <1>9, <1>11, <2>3
    <3>2. Unstrayed(p)' = Unstrayed(p) - size
      BY <1>7, <2>3
    <3> HIDE DEF o, p
    <3> QED BY <1>3, <1>10, <3>1, <3>2
  <2> QED BY <1>3, <2>1, <2>2, <2>3 DEF Sides
<1>13. ASSUME NEW k \in Legs, Awaited(k)', orders'[k].side = "Sell"
       PROVE  orders'[k].remaining <= Unstrayed(LegOf[k].position)'
  <2>1. CASE k = l
    BY <1>3, <1>4, <1>6, <1>12, <1>13, <2>1
  <2>2. CASE k # l /\ LegOf[k].position # p
    <3>1. Unstrayed(LegOf[k].position)' = Unstrayed(LegOf[k].position) /\ orders'[k] = orders[k]
      BY <1>2, <1>4, <1>8, <2>2
    <3> QED BY <1>6, <1>9, <1>13, <3>1
  <2>3. CASE k # l /\ LegOf[k].position = p
    <3>1. Awaited(k) /\ orders'[k] = orders[k]
      BY <1>4, <1>6, <1>13, <2>3
    <3>2. ~ Awaited(l)
      BY <2>3, <3>1, AwaitedAlone
    <3>3. Stray(l)
      BY <1>11, <3>2
    <3>4. Unstrayed(p)' = Unstrayed(p) \/ Unstrayed(p)' = Unstrayed(p) + size
      BY <1>7, <3>3
    <3>5. orders[k].remaining <= Unstrayed(p)
      BY <1>9, <1>13, <2>3, <3>1
    <3>6. orders[k].remaining \in Nat
      BY <1>2, LegsAreTyped DEF OrderRow
    <3> DEFINE u == Unstrayed(p)
               v == Unstrayed(p)'
               n == orders[k].remaining
    <3>7. n <= v
      <4>1. u \in Int /\ n \in Nat /\ n <= u /\ (v = u \/ v = u + size)
        BY <1>10, <3>4, <3>5, <3>6
      <4> HIDE DEF u, v, n
      <4> QED BY <1>3, <4>1
    <3> QED BY <2>3, <3>1, <3>7
  <2> QED BY <2>1, <2>2, <2>3
<1>14. ASSUME NEW q \in Positions
       PROVE  Unstrayed(q)' >= 0
  BY <1>8, <1>9, <1>12
<1> QED BY <1>13, <1>14 DEF LongInv

LEMMA LongKeeps ==
  ASSUME LongOnly, IInv, Fresh, Apart, LongInv, [Next]_vars
  PROVE  LongInv'
<1>1. /\ Typed
      /\ \A l \in Legs : LegOf[l].position \in Positions /\ LegOf[l].combo \in Combos
      /\ \A l \in Legs : broker[l] \in BrokerRows /\ orders[l] \in OrderRow
  BY OrderComboAssumption DEF IInv, Typed
<1>2. \A l \in Legs : OwnCombo(l).state = "done" => OwnCombo(l)'.state = "done"
  BY <1>1, CombosGoOn DEF OwnCombo
<1>3. ASSUME UNCHANGED <<orders, position, strayed>>,
             \A l \in Legs : broker'[l].state # "none" => broker[l].state # "none"
      PROVE  LongInv'
  <2>1. \A l \in Legs : Awaited(l)' => Awaited(l)
    BY <1>2, <1>3 DEF Awaited
  <2> QED BY <1>1, <1>3, <2>1, QuietKeepsLong
<1>4. CASE \/ \E l \in Legs : AddLeg(l)
           \/ \E p \in Positions : MoveQuote(p)
           \/ UNCHANGED vars
  <2>1. UNCHANGED <<broker, orders, position, strayed>>
    BY <1>4 DEF AddLeg, MoveQuote, vars
  <2> QED BY <1>3, <2>1
<1>5. ASSUME NEW c \in Combos, Cancel(c)
      PROVE  LongInv'
  <2>1. UNCHANGED <<orders, position, strayed>>
    BY <1>5 DEF Cancel
  <2>2. ASSUME NEW l \in Legs
        PROVE  broker'[l].state = broker[l].state
    <3>1. broker'[l] = broker[l] \/ broker'[l] = [broker[l] EXCEPT !.asked = TRUE]
      BY <1>5 DEF Cancel
    <3> QED BY <1>1, <3>1 DEF BrokerRows
  <2> QED BY <1>3, <2>1, <2>2
<1>6. ASSUME NEW c \in Combos, NEW ok, Tick(c, ok)
      PROVE  LongInv'
  <2>1. UNCHANGED <<orders, position, strayed>>
    BY <1>6 DEF Tick
  <2>2. ASSUME NEW l \in Legs
        PROVE  broker'[l].state = broker[l].state
    <3> DEFINE price == Adjusted(orders[l], broker[l].price, QuoteOf(l))
    <3>1. broker'[l] = broker[l] \/ broker'[l] = [broker[l] EXCEPT !.price = price]
      BY <1>6 DEF Tick
    <3> HIDE DEF price
    <3> QED BY <1>1, <3>1 DEF BrokerRows
  <2> QED BY <1>3, <2>1, <2>2
<1>7. ASSUME NEW l \in Legs, BrokerFill(l) \/ BrokerCancel(l) \/ BrokerReject(l)
      PROVE  LongInv'
  <2>1. UNCHANGED <<orders, position, strayed>>
    BY <1>7 DEF BrokerFill, BrokerCancel, BrokerReject
  <2>2. broker[l].state # "none" /\ \A k \in Legs \ {l} : broker'[k] = broker[k]
    BY <1>1, <1>7 DEF BrokerFill, BrokerCancel, BrokerReject, Typed
  <2> QED BY <1>3, <2>1, <2>2
<1>8. ASSUME NEW l \in Legs, DeliverCancellation(l)
      PROVE  LongInv'
  <2> DEFINE o == MarkAsCancelled(orders[l])
             left == position[LegOf[l].position].pending - orders[l].remaining
  <2>1. /\ orders' = [orders EXCEPT ![l] = o] /\ strayed' = strayed
        /\ position' = [position EXCEPT ![LegOf[l].position].pending = left]
        /\ broker[l].state = "cancelled"
        /\ broker' = [broker EXCEPT ![l].told = TRUE]
    BY <1>8 DEF DeliverCancellation
  <2>2. o.side = orders[l].side /\ o.remaining = orders[l].remaining
    BY <1>1, MarkAsCancelledFacts
  <2> HIDE DEF o, left
  <2>3. \A p \in Positions : position'[p].active = position[p].active
    BY <1>1, <2>1 DEF Typed
  <2>4. \A k \in Legs : orders'[k].side = orders[k].side
                        /\ orders'[k].remaining = orders[k].remaining
    BY <1>1, <2>1, <2>2 DEF Typed
  <2>5. \A k \in Legs : broker'[k].state # "none" => broker[k].state # "none"
    BY <1>1, <2>1 DEF Typed
  <2>6. \A k \in Legs : Awaited(k)' => Awaited(k)
    BY <1>2, <2>5 DEF Awaited
  <2> QED BY <1>1, <2>1, <2>3, <2>4, <2>6, QuietKeepsLong
<1>9. ASSUME NEW c \in Combos, Submit(c)
      PROVE  LongInv'
  BY <1>9, SubmitKeepsLong
<1>10. ASSUME NEW l \in Legs, DeliverExecution(l)
       PROVE  LongInv'
  BY <1>10, ExecutionKeepsLong
<1> QED BY <1>4, <1>5, <1>6, <1>7, <1>8, <1>9, <1>10
     DEF Next, Owner, Clock, Broker, Deliver

\* Combos that close positions one after the other oversell them by no more
\* than what cancelled orders sold behind the owner's back, however they are
\* filled and cancelled in part, when legs are added only to buy
\* (ClosePosition of MonitorOrder, AddLeg and CloseLeg).
THEOREM NeverSellsTooMuch ==
  ASSUME LongOnly
  PROVE  Spec => []NeverOversold
<1> DEFINE SInv == IInv /\ Fresh /\ Apart /\ LongInv
<1>1. Init => SInv
  <2>1. ASSUME Init
        PROVE  Fresh /\ Apart /\ LongInv
    <3>1. Fresh /\ Apart
      BY <2>1 DEF Init, Fresh, Apart
    <3>2. \A p \in Positions : Unstrayed(p) >= 0
      BY <2>1, OrderComboAssumption DEF Init, Unstrayed
    <3>3. \A l \in Legs : ~ Awaited(l)
      BY <2>1 DEF Init, Awaited
    <3> QED BY <3>1, <3>2, <3>3 DEF LongInv
  <2> QED BY <2>1, InitInv
<1>2. SInv /\ [Next]_vars => SInv'
  <2> SUFFICES ASSUME SInv, [Next]_vars
               PROVE  SInv'
    OBVIOUS
  <2>1. Typed
    BY DEF IInv
  <2>2. IInv'
    BY NextKeepsInv
  <2>3. Fresh'
    BY <2>1, CombosGoOn
  <2>4. Apart'
    BY ApartKeeps
  <2>5. LongInv'
    BY LongKeeps
  <2> QED BY <2>2, <2>3, <2>4, <2>5
<1>3. SInv => NeverOversold
  BY DEF LongInv, NeverOversold, Unstrayed
<1> HIDE DEF SInv
<1> QED BY <1>1, <1>2, <1>3, PTL DEF Spec
-----------------------------------------------------------------------------
(* Units pending.  *)

\* An action that places no order, reports nothing.
LEMMA QuietKeepsPending ==
  ASSUME PendingInv,
         \A l \in Legs : /\ broker'[l].state = "none" <=> broker[l].state = "none"
                         /\ broker'[l].told <=> broker[l].told
                         /\ orders'[l] = orders[l],
         \A p \in Positions : position'[p].pending = position[p].pending
  PROVE  PendingInv'
<1>1. ASSUME NEW p \in Positions
      PROVE  /\ IsFiniteSet(Units(Live(p)', orders'))
             /\ position'[p].pending = Cardinality(Units(Live(p)', orders'))
  <2>1. Live(p)' = Live(p)
    BY Zenon DEF Live
  <2>2. \A l \in Live(p) : orders'[l].remaining = orders[l].remaining
    BY DEF Live
  <2>3. Units(Live(p), orders') = Units(Live(p), orders)
    BY <2>2, UnitsSame
  <2> QED BY <2>1, <2>3 DEF PendingInv
<1> QED BY <1>1 DEF PendingInv

LEMMA SubmitKeepsPending ==
  ASSUME IInv, PendingInv, NEW c \in Combos, Submit(c)
  PROVE  PendingInv'
<1> DEFINE placed == {l \in LegsOf(c) : MayPlace(l)}
           o(l) == SetSendingToProvider(NewOrder(Side(l), Quantity(l)))
           units(p) == Quantity(CHOOSE l \in placed : LegOf[l].position = p)
<1>1. Typed /\ combo[c].state = "loading"
  BY DEF IInv, Submit
<1>2. ASSUME NEW l \in Legs
      PROVE  /\ l \notin placed => broker'[l] = broker[l] /\ orders'[l] = orders[l]
             /\ l \in placed => orders'[l] = o(l) /\ broker'[l].state = "working"
                                /\ broker'[l].told = broker[l].told
  <2>1. broker[l] \in BrokerRows
    BY <1>1, LegsAreTyped
  <2>2. l \in placed => broker'[l] = [broker[l] EXCEPT !.state = "working",
                                                     !.price = Midpoint(QuoteOf(l))]
    BY DEF Submit
  <2>3. l \in placed => broker'[l].state = "working" /\ broker'[l].told = broker[l].told
    BY <2>1, <2>2 DEF BrokerRows
  <2>4. l \notin placed => broker'[l] = broker[l] /\ orders'[l] = orders[l]
    BY DEF Submit
  <2>5. l \in placed => orders'[l] = o(l)
    BY DEF Submit
  <2> QED BY <2>3, <2>4, <2>5
<1>3. ASSUME NEW l \in placed
      PROVE  /\ l \in Legs /\ LegOf[l].combo = c
             /\ Quantity(l) \in Nat /\ o(l).remaining = Quantity(l)
             /\ broker[l].state = "none" /\ ~ broker[l].told
  <2>1. l \in Legs /\ LegOf[l].combo = c /\ Quantity(l) \in Nat /\ Side(l) \in Sides
    BY <1>1, QuantitiesAreTyped DEF LegsOf
  <2> DEFINE n == NewOrder(Side(l), Quantity(l))
  <2>2. n \in OrderRow /\ n.remaining = Quantity(l)
    BY <2>1, NewOrderFacts
  <2> HIDE DEF n
  <2>3. SetSendingToProvider(n).remaining = n.remaining
    BY <2>2, SetSendingFacts
  <2>4. Tracked(l) /\ OwnCombo(l) = combo[c]
    BY <2>1 DEF IInv, OwnCombo
  <2>5. broker[l].state = "none"
    BY <1>1, <2>4 DEF Tracked, TrackInv
  <2>6. ~ broker[l].told
    BY <2>4, <2>5 DEF Tracked, TrackInv
  <2> QED BY <2>1, <2>2, <2>3, <2>5, <2>6 DEF n
<1>4. \A l \in placed, k \in placed : LegOf[l].position = LegOf[k].position => l = k
  BY <1>3, OrderComboAssumption
<1>5. ASSUME NEW p \in Positions
      PROVE  position'[p].pending = IF \E l \in placed : LegOf[l].position = p
               THEN position[p].pending + units(p) ELSE position[p].pending
  BY <1>1 DEF Submit, Typed
<1> HIDE DEF placed, o
<1>6. ASSUME NEW p \in Positions
      PROVE  /\ IsFiniteSet(Units(Live(p)', orders'))
             /\ position'[p].pending = Cardinality(Units(Live(p)', orders'))
  <2>1. /\ IsFiniteSet(Units(Live(p), orders))
        /\ position[p].pending = Cardinality(Units(Live(p), orders))
    BY DEF PendingInv
  <2>2. \A l \in Live(p) : l \in Legs /\ l \notin placed
    BY <1>3 DEF Live
  <2>3. Units(Live(p), orders') = Units(Live(p), orders)
    <3>1. \A l \in Live(p) : orders'[l].remaining = orders[l].remaining
      BY <1>2, <2>2
    <3> QED BY <3>1, UnitsSame
  <2>4. CASE \E l \in placed : LegOf[l].position = p
    <3>1. PICK l \in placed : LegOf[l].position = p
      BY <2>4
    <3>2. \A k \in Legs : k \in Live(p)' <=> k \in Live(p) \/ k = l
      <4>1. ASSUME NEW k \in Legs, k \in placed, LegOf[k].position = p
            PROVE  k = l
        BY <1>4, <3>1, <4>1
      <4>2. l \in Legs /\ broker'[l].state # "none" /\ ~ broker'[l].told
        BY <1>2, <1>3
      <4>3. ASSUME NEW k \in Legs, k \notin placed
            PROVE  k \in Live(p)' <=> k \in Live(p)
        <5>1. broker'[k] = broker[k]
          BY <1>2, <4>3
        <5> QED BY <5>1 DEF Live
      <4>4. l \in Live(p)'
        BY <3>1, <4>2 DEF Live
      <4>5. \A k \in Live(p)' : LegOf[k].position = p
        BY DEF Live
      <4> QED BY <4>1, <4>3, <4>4, <4>5, <2>2
    <3>3. Live(p)' = Live(p) \cup {l}
      <4>1. Live(p)' \subseteq Legs /\ Live(p) \subseteq Legs
        BY DEF Live
      <4> QED BY <1>3, <3>2, <4>1
    <3>4. l \notin Live(p) /\ orders'[l].remaining = Quantity(l) /\ Quantity(l) \in Nat
      BY <1>2, <1>3, <2>2
    <3> DEFINE n == Quantity(l)
               S == Live(p)
    <3> HIDE DEF n, S
    <3>5. /\ IsFiniteSet(Units(S \cup {l}, orders'))
          /\ Cardinality(Units(S \cup {l}, orders')) = Cardinality(Units(S, orders')) + n
      <4>1. l \notin S /\ n \in Nat /\ orders'[l].remaining = n
        BY <3>4 DEF n, S
      <4>2. IsFiniteSet(Units(S, orders'))
        BY <2>1, <2>3 DEF S
      <4> QED BY <4>1, <4>2, UnitsAdded
    <3>6. units(p) = n
      <4>1. (CHOOSE k \in placed : LegOf[k].position = p) = l
        BY <1>4, <3>1
      <4> QED BY <4>1 DEF n
    <3>7. position'[p].pending = position[p].pending + n
      BY <1>5, <2>4, <3>6
    <3> QED BY <2>1, <2>3, <3>3, <3>5, <3>7 DEF S
  <2>5. CASE ~ \E l \in placed : LegOf[l].position = p
    <3>1. Live(p)' = Live(p)
      <4>1. ASSUME NEW k \in Legs
            PROVE  k \in Live(p)' <=> k \in Live(p)
        <5>1. CASE k \in placed
          <6>1. LegOf[k].position # p
            BY <2>5, <5>1
          <6> QED BY <6>1 DEF Live
        <5>2. CASE k \notin placed
          <6>1. broker'[k] = broker[k]
            BY <1>2, <5>2
          <6> QED BY <6>1 DEF Live
        <5> QED BY <5>1, <5>2
      <4>2. Live(p)' \subseteq Legs /\ Live(p) \subseteq Legs
        BY DEF Live
      <4> QED BY <4>1, <4>2
    <3>2. position'[p].pending = position[p].pending
      BY <1>5, <2>5
    <3> QED BY <2>1, <2>3, <3>1, <3>2
  <2> QED BY <2>4, <2>5
<1> QED BY <1>6 DEF PendingInv

\* One leg's order and books change, the pending units of its position too.
LEMMA OnePositionPending ==
  ASSUME IInv, PendingInv, NEW l \in Legs,
         \A k \in Legs \ {l} : broker'[k] = broker[k] /\ orders'[k] = orders[k],
         \A p \in Positions \ {LegOf[l].position} : position'[p] = position[p],
         NEW p \in Positions, p # LegOf[l].position
  PROVE  /\ IsFiniteSet(Units(Live(p)', orders'))
         /\ position'[p].pending = Cardinality(Units(Live(p)', orders'))
<1>1. Live(p)' = Live(p)
  <2>1. ASSUME NEW k \in Legs
        PROVE  k \in Live(p)' <=> k \in Live(p)
    <3>1. CASE k = l
      BY <3>1 DEF Live
    <3>2. CASE k # l
      <4>1. broker'[k] = broker[k]
        BY <3>2
      <4> QED BY <4>1 DEF Live
    <3> QED BY <3>1, <3>2
  <2>2. Live(p)' \subseteq Legs /\ Live(p) \subseteq Legs
    BY DEF Live
  <2> QED BY <2>1, <2>2
<1>2. \A k \in Live(p) : orders'[k].remaining = orders[k].remaining
  BY DEF Live
<1>3. Units(Live(p), orders') = Units(Live(p), orders)
  BY <1>2, UnitsSame
<1>4. position'[p] = position[p]
  OBVIOUS
<1> QED BY <1>1, <1>3, <1>4 DEF PendingInv

LEMMA ExecutionKeepsPending ==
  ASSUME IInv, PendingInv, NEW l \in Legs, DeliverExecution(l)
  PROVE  PendingInv'
<1> DEFINE p == LegOf[l].position
           now(size) == ReportExecution(orders[l], size)
<1>1. PICK size \in 1 .. (broker[l].done - orders[l].filled) :
        /\ orders' = [orders EXCEPT ![l] = now(size)]
        /\ position' = [position EXCEPT ![p] =
             [active |-> IF now(size).side = "Buy" THEN @.active + size ELSE @.active - size,
              pending |-> IF broker[l].told THEN @.pending ELSE @.pending - size]]
  BY DEF DeliverExecution
<1> DEFINE o == now(size)
           k == orders[l].remaining
<1>2. Typed /\ p \in Positions
  BY LegsAreTyped DEF IInv
<1>3. /\ size \in Nat /\ size <= k /\ o.remaining = k - size /\ k \in Nat
      /\ broker[l].state # "none"
  BY <1>2, ExecutionFacts, LegsAreTyped DEF OrderRow
<1>4. /\ orders'[l] = o
      /\ \A j \in Legs \ {l} : orders'[j] = orders[j]
      /\ position'[p].pending = IF broker[l].told THEN position[p].pending
                               ELSE position[p].pending - size
      /\ \A q \in Positions \ {p} : position'[q] = position[q]
  BY <1>1, <1>2 DEF Typed
<1>5. broker' = broker
  BY DEF DeliverExecution
<1>6. ASSUME NEW q \in Positions, q # p
      PROVE  /\ IsFiniteSet(Units(Live(q)', orders'))
             /\ position'[q].pending = Cardinality(Units(Live(q)', orders'))
  BY <1>4, <1>5, <1>6, OnePositionPending
<1> DEFINE S == Live(p)
<1>7. S' = S /\ (~ broker[l].told => l \in S) /\ (broker[l].told => l \notin S) /\ S \subseteq Legs
  BY <1>3, <1>5 DEF Live
<1>8. IsFiniteSet(Units(S, orders)) /\ position[p].pending = Cardinality(Units(S, orders))
  BY <1>2 DEF PendingInv
<1>9. \A j \in S \ {l} : orders'[j].remaining = orders[j].remaining
  BY <1>4, <1>7
<1>10. orders'[l].remaining = k - size /\ orders[l].remaining = k
  BY <1>3, <1>4
<1> HIDE DEF S, o, now, k, p
<1>11. ~ broker[l].told =>
         /\ IsFiniteSet(Units(S, orders'))
         /\ Cardinality(Units(S, orders')) = Cardinality(Units(S, orders)) - size
  BY <1>3, <1>7, <1>8, <1>9, <1>10, UnitsReduced
<1>12. broker[l].told => Units(S, orders') = Units(S, orders)
  BY <1>7, <1>9, UnitsSame
<1>13. /\ IsFiniteSet(Units(Live(p)', orders'))
       /\ position'[p].pending = Cardinality(Units(Live(p)', orders'))
  <2>1. CASE broker[l].told
    BY <1>4, <1>7, <1>8, <1>12, <2>1 DEF S
  <2>2. CASE ~ broker[l].told
    BY <1>4, <1>7, <1>8, <1>11, <2>2 DEF S
  <2> QED BY <2>1, <2>2
<1> QED BY <1>6, <1>13 DEF PendingInv

LEMMA CancellationKeepsPending ==
  ASSUME IInv, PendingInv, NEW l \in Legs, DeliverCancellation(l)
  PROVE  PendingInv'
<1> DEFINE p == LegOf[l].position
           o == MarkAsCancelled(orders[l])
           k == orders[l].remaining
           left == position[p].pending - k
           b == [broker[l] EXCEPT !.told = TRUE]
<1>1. /\ broker[l].state = "cancelled" /\ ~ broker[l].told
      /\ orders' = [orders EXCEPT ![l] = o]
      /\ broker' = [broker EXCEPT ![l] = b]
      /\ position' = [position EXCEPT ![p].pending = left]
  BY DEF DeliverCancellation
<1>2. Typed /\ p \in Positions /\ broker[l] \in BrokerRows
  BY LegsAreTyped DEF IInv
<1>3. k \in Nat /\ o.remaining = k
  BY <1>2, LegsAreTyped, MarkAsCancelledFacts DEF OrderRow
<1>4. b.told = TRUE
  BY <1>2 DEF BrokerRows
<1> HIDE DEF b, o
<1>5. /\ orders'[l] = o /\ broker'[l] = b
      /\ \A j \in Legs \ {l} : orders'[j] = orders[j] /\ broker'[j] = broker[j]
      /\ position'[p].pending = left
      /\ \A q \in Positions \ {p} : position'[q] = position[q]
  BY <1>1, <1>2 DEF Typed
<1>6. ASSUME NEW q \in Positions, q # p
      PROVE  /\ IsFiniteSet(Units(Live(q)', orders'))
             /\ position'[q].pending = Cardinality(Units(Live(q)', orders'))
  BY <1>5, <1>6, OnePositionPending
<1> DEFINE S == Live(p)
           T == S \ {l}
<1>7. l \in S /\ S \subseteq Legs
  BY <1>1 DEF Live
<1>8. Live(p)' = T
  <2>1. l \notin Live(p)'
    BY <1>4, <1>5 DEF Live
  <2>2. ASSUME NEW j \in Legs, j # l
        PROVE  j \in Live(p)' <=> j \in S
    <3>1. broker'[j] = broker[j]
      BY <1>5, <2>2
    <3> QED BY <3>1 DEF Live
  <2>3. Live(p)' \subseteq Legs
    BY DEF Live
  <2> QED BY <1>7, <2>1, <2>2, <2>3
<1>9. IsFiniteSet(Units(S, orders)) /\ position[p].pending = Cardinality(Units(S, orders))
  BY <1>2 DEF PendingInv
<1>10. \A j \in S \ {l} : orders'[j].remaining = orders[j].remaining
  BY <1>5, <1>7
<1>11. orders[l].remaining = k /\ T = S \ {l}
  OBVIOUS
<1> HIDE DEF S, T, k, p
<1>12. /\ IsFiniteSet(Units(T, orders'))
       /\ Cardinality(Units(T, orders')) = Cardinality(Units(S, orders)) - k
  BY <1>3, <1>7, <1>9, <1>10, <1>11, UnitsDropped
<1>13. /\ IsFiniteSet(Units(Live(p)', orders'))
       /\ position'[p].pending = Cardinality(Units(Live(p)', orders'))
  BY <1>5, <1>8, <1>9, <1>12
<1> QED BY <1>6, <1>13 DEF PendingInv

LEMMA PendingKeeps ==
  ASSUME IInv, PendingInv, [Next]_vars
  PROVE  PendingInv'
<1>1. Typed /\ \A l \in Legs : broker[l] \in BrokerRows
  BY DEF IInv, Typed
<1>2. ASSUME NEW c \in Combos, Submit(c)
      PROVE  PendingInv'
  BY <1>2, SubmitKeepsPending
<1>3. ASSUME NEW l \in Legs, DeliverExecution(l)
      PROVE  PendingInv'
  BY <1>3, ExecutionKeepsPending
<1>4. ASSUME NEW l \in Legs, DeliverCancellation(l)
      PROVE  PendingInv'
  BY <1>4, CancellationKeepsPending
<1>5. ASSUME UNCHANGED <<orders, position>>,
             \A l \in Legs : /\ broker'[l].state = "none" <=> broker[l].state = "none"
                             /\ broker'[l].told <=> broker[l].told
      PROVE  PendingInv'
  BY <1>5, QuietKeepsPending
<1>6. CASE \/ \E l \in Legs : AddLeg(l)
           \/ \E p \in Positions : MoveQuote(p)
           \/ UNCHANGED vars
  <2>1. UNCHANGED <<orders, position, broker>>
    BY <1>6 DEF AddLeg, MoveQuote, vars
  <2> QED BY <1>5, <2>1
<1>7. ASSUME NEW c \in Combos, Cancel(c)
      PROVE  PendingInv'
  <2>1. UNCHANGED <<orders, position>>
    BY <1>7 DEF Cancel
  <2>2. ASSUME NEW l \in Legs
        PROVE  /\ broker'[l].state = "none" <=> broker[l].state = "none"
               /\ broker'[l].told <=> broker[l].told
    <3>1. broker'[l] = broker[l] \/ broker'[l] = [broker[l] EXCEPT !.asked = TRUE]
      BY <1>7 DEF Cancel
    <3> QED BY <1>1, <3>1 DEF BrokerRows
  <2> QED BY <1>5, <2>1, <2>2
<1>8. ASSUME NEW c \in Combos, NEW ok, Tick(c, ok)
      PROVE  PendingInv'
  <2>1. UNCHANGED <<orders, position>>
    BY <1>8 DEF Tick
  <2>2. ASSUME NEW l \in Legs
        PROVE  /\ broker'[l].state = "none" <=> broker[l].state = "none"
               /\ broker'[l].told <=> broker[l].told
    <3> DEFINE price == Adjusted(orders[l], broker[l].price, QuoteOf(l))
    <3>1. broker'[l] = broker[l] \/ broker'[l] = [broker[l] EXCEPT !.price = price]
      BY <1>8 DEF Tick
    <3> HIDE DEF price
    <3> QED BY <1>1, <3>1 DEF BrokerRows
  <2> QED BY <1>5, <2>1, <2>2
<1>9. ASSUME NEW l \in Legs, BrokerFill(l) \/ BrokerCancel(l) \/ BrokerReject(l)
      PROVE  PendingInv'
  <2>1. UNCHANGED <<orders, position>>
    BY <1>9 DEF BrokerFill, BrokerCancel, BrokerReject, market
  <2>2. /\ broker'[l].state # "none" /\ broker[l].state # "none"
        /\ broker'[l].told <=> broker[l].told
        /\ \A k \in Legs \ {l} : broker'[k] = broker[k]
    <3>1. CASE BrokerFill(l)
      <4>1. PICK size \in 1 .. (orders[l].quan - broker[l].done) :
              broker' = [broker EXCEPT ![l].done = @ + size,
                    ![l].state = IF /\ @ = "working"
                                    /\ broker[l].done + size = orders[l].quan
                                 THEN "filled" ELSE @]
        BY <3>1 DEF BrokerFill
      <4> QED BY <1>1, <3>1, <4>1 DEF BrokerFill, BrokerRows, Typed
    <3>2. CASE BrokerCancel(l)
      BY <1>1, <3>2 DEF BrokerCancel, BrokerRows, Typed
    <3>3. CASE BrokerReject(l)
      BY <1>1, <3>3 DEF BrokerReject, BrokerRows, Typed
    <3> QED BY <1>9, <3>1, <3>2, <3>3
  <2>3. \A k \in Legs : /\ broker'[k].state = "none" <=> broker[k].state = "none"
                        /\ broker'[k].told <=> broker[k].told
    BY <2>2, Zenon
  <2> QED BY <1>5, <2>1, <2>3
<1> QED BY <1>2, <1>3, <1>4, <1>6, <1>7, <1>8, <1>9 DEF Next, Owner, Clock, Broker, Deliver

\* Units pending are never less than none: what an execution or a cancellation
\* takes away was added when the order was placed, and not taken before
\* (Position::HandleExecution and HandleCancellation, of several legs).
THEOREM TypeCorrect == Spec => []TypeOK
<1> DEFINE SInv == IInv /\ PendingInv
<1>1. Init => SInv
  <2>1. ASSUME Init, NEW p \in Positions
        PROVE  /\ IsFiniteSet(Units(Live(p), orders))
               /\ position[p].pending = Cardinality(Units(Live(p), orders))
    <3>1. Live(p) = {}
      BY <2>1 DEF Init, Live
    <3>2. Units({}, orders) = {}
      BY DEF Units
    <3>3. position[p].pending = 0
      BY <2>1 DEF Init
    <3> QED BY <3>1, <3>2, <3>3, FS_EmptySet
  <2> QED BY <2>1, InitInv DEF PendingInv
<1>2. SInv /\ [Next]_vars => SInv'
  BY NextKeepsInv, PendingKeeps
<1>3. SInv => TypeOK
  <2> SUFFICES ASSUME SInv PROVE TypeOK
    OBVIOUS
  <2>1. ASSUME NEW p \in Positions
        PROVE  position[p] \in [active : Int, pending : Nat]
    <3>1. position[p] \in [active : Int, pending : Int]
      BY DEF IInv, Typed
    <3>2. position[p].pending \in Nat
      BY FS_CardinalityType DEF PendingInv
    <3> QED BY <3>1, <3>2
  <2>2. position \in [Positions -> [active : Int, pending : Nat]]
    <3>1. position = [p \in Positions |-> position[p]]
      BY DEF IInv, Typed
    <3> QED BY <2>1, <3>1, Zenon
  <2> QED BY <2>2 DEF IInv, Typed, TypeOK, ComboRows, MonitorRows, BrokerRows
<1> HIDE DEF SInv
<1> QED BY <1>1, <1>2, <1>3, PTL DEF Spec
=============================================================================
