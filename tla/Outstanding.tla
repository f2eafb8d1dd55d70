---------------------------- MODULE Outstanding ----------------------------
(***************************************************************************)
(* Round trips: OrdersOutstanding and its two classes, Longs and Shorts    *)
(* (lib/TFTrading/OrdersOutstanding.cpp).                                  *)
(*                                                                         *)
(* A strategy hands over an entry order.  When it has filled, every quote  *)
(* may place an exit: a limit order at the target while the price is on    *)
(* the profitable side of the entry, a market order when the stop is hit   *)
(* or the trip is old; a limit order is cancelled when the price is on the *)
(* other side.  CancelAndCloseAllOrders cancels everything, then closes    *)
(* what is left.  All of it races with the broker's executions, which may  *)
(* come after the report of a cancellation (Position.cpp:534): the         *)
(* handlers are gone then, so that OrdersOutstanding does not hear of them.*)
(*                                                                         *)
(* An entry has any quantity and fills a unit at a time; an exit is for    *)
(* one unit.  An exit order is named by its trip and a slot, which is used *)
(* again when the program was told of its end; an exit that was told       *)
(* cancelled and may trade yet is counted in loose.                        *)
(***************************************************************************)
EXTENDS Integers, FiniteSets

CONSTANTS Trips,           \* Round trips: numbers, in the order of entry
          Slots,           \* Exit orders of a trip at a time
          Bases, Stops,    \* Prices of entries and of stops; 0: no stop
          Prices,          \* What a quote shows; 0: no price
          Sizes,           \* Quantities of entries
          Keep,            \* Entries kept when another one is made
          MaxLoose,        \* Bound: exits of a trip that may trade yet
          MaxStray         \* Bound: exits of a trip that traded after all

ASSUME OutstandingAssumption ==
  /\ Trips \subseteq Nat \ {0} /\ Slots \subseteq Nat \ {0}
  /\ Bases \subseteq Nat \ {0} /\ Stops \subseteq Nat /\ Prices \subseteq Nat
  /\ Sizes \subseteq Nat \ {0} /\ Keep \in Nat /\ MaxLoose \in Nat /\ MaxStray \in Nat

VARIABLES side,            \* Side of the entries: Buy (Longs) or Sell (Shorts)
          trips,           \* structRoundTrip, and the container it is in
          cac,             \* m_stateCancelAndClose
          entry, exits,    \* What the broker did with the orders
          loose,           \* Exits told cancelled that may trade yet, by trip
          closed,          \* Units that exits have traded, by trip
          strayed          \* History: those whose exit was told cancelled

vars == <<side, trips, cac, entry, exits, loose, closed, strayed>>

TripStates == {"OpenWaitingFill", "OpenCancelling", "Open", "Closing", "Cancelled"}
\* m_mapEntryOrdersFilling, m_mapOrdersToMatch, m_vCompletedRoundTrips, none.
Containers == {"new", "filling", "toMatch", "completed", "dropped"}
CacStates == {"none", "WaitingForEntryCancels", "WaitingForExitCancels",
              "WaitingForMatchingCloses", "Done"}
OrderTypes == {"none", "Limit", "Market"}

EntryOrders == [state : {"none", "working", "filled", "cancelled", "rejected"},
                quantity : Sizes \cup {0}, filled : Nat]
ExitOrders == [type : OrderTypes, state : {"none", "working", "cancelled"},
               asked : BOOLEAN, filled : BOOLEAN]

NoEntry == [state |-> "none", quantity |-> 0, filled |-> 0]
NoExit == [type |-> "none", state |-> "none", asked |-> FALSE, filled |-> FALSE]
Sent(type) == [NoExit EXCEPT !.type = type, !.state = "working"]

TypeOK ==
  /\ side \in {"Buy", "Sell"}
  /\ trips \in [Trips -> [in : Containers, state : TripStates, basis : Bases \cup {0},
                          stop : Stops \cup {0}, exit : Slots \cup {0}, old : BOOLEAN]]
  /\ cac \in CacStates
  /\ entry \in [Trips -> EntryOrders]
  /\ exits \in [Trips -> [Slots -> ExitOrders]]
  /\ loose \in [Trips -> Nat] /\ closed \in [Trips -> Nat] /\ strayed \in [Trips -> Nat]
  /\ \A t \in Trips :
       /\ trips[t].in = "filling" => trips[t].state \in {"OpenWaitingFill", "OpenCancelling"}
       /\ trips[t].in = "toMatch" => trips[t].state \in {"Open", "Closing"}

Init ==
  /\ side \in {"Buy", "Sell"}
  /\ trips = [t \in Trips |-> [in |-> "new", state |-> "OpenWaitingFill", basis |-> 0,
                               stop |-> 0, exit |-> 0, old |-> FALSE]]
  /\ cac = "none"
  /\ entry = [t \in Trips |-> NoEntry]
  /\ exits = [t \in Trips |-> [e \in Slots |-> NoExit]]
  /\ closed = [t \in Trips |-> 0] /\ loose = closed /\ strayed = closed

In(container) == {t \in Trips : trips[t].in = container}
CancelAndCloseInProgress == cac \notin {"none", "Done"}
-----------------------------------------------------------------------------
(* Orders. *)

\* Position::CancelOrder for the entries of the trips in asking: one request,
\* which the trip's state remembers.
Cancelling(asking) ==
  [t \in Trips |->
     IF t \in asking THEN [trips[t] EXCEPT !.state = "OpenCancelling"] ELSE trips[t]]

\* The exits after orders of the types in placing (a function on trips) are
\* placed, and the exits of the trips in asking are cancelled: one more request
\* whenever it is called.
FreeSlot(t) == CHOOSE e \in Slots : exits[t][e] = NoExit
ExitsAfter(placing, asking) ==
  [t \in Trips |->
     IF t \in DOMAIN placing THEN [exits[t] EXCEPT ![FreeSlot(t)] = Sent(placing[t])]
     ELSE IF t \in asking THEN [exits[t] EXCEPT ![trips[t].exit].asked = TRUE]
     ELSE exits[t]]

\* OrdersOutstanding::PlaceOrder: the trip's exit, before any end of an
\* earlier one is told.
WithExit(t) == [trips[t] EXCEPT !.exit = FreeSlot(t)]
Closing(t) == [WithExit(t) EXCEPT !.state = "Closing"]

HasSlot(placing) == \A t \in placing : \E e \in Slots : exits[t][e] = NoExit
-----------------------------------------------------------------------------
(* Calls of the strategy. *)

\* CancelAllButNEntryOrders: the oldest ones, those cancelled before counted.
OldestWaiting(n) ==
  LET excess == Cardinality(In("filling")) - n
  IN  {t \in In("filling") :
         /\ Cardinality({k \in In("filling") : k < t}) < excess
         /\ trips[t].state = "OpenWaitingFill"}

\* The strategy cancels all but some entries, AddOrderFilling, places the order.
Enter(t) ==
  /\ ~ CancelAndCloseInProgress
  /\ trips[t].in = "new"
  /\ \A k \in Trips : k < t => trips[k].in # "new"
  /\ \E basis \in Bases, stop \in Stops, quantity \in Sizes :
       /\ trips' = [Cancelling(OldestWaiting(Keep)) EXCEPT
            ![t] = [trips[t] EXCEPT !.in = "filling", !.basis = basis, !.stop = stop]]
       /\ entry' = [entry EXCEPT ![t] =
            [NoEntry EXCEPT !.state = "working", !.quantity = quantity]]
  /\ UNCHANGED <<side, cac, exits, loose, closed, strayed>>

WithExits == {t \in In("toMatch") : trips[t].exit # 0}

CancelAllMatchingOrders ==
  /\ exits' = ExitsAfter(<<>>, WithExits)
  /\ UNCHANGED <<side, trips, cac, entry, loose, closed, strayed>>

\* A strategy calls it once.
CancelAndCloseAllOrders ==
  /\ cac = "none"
  /\ cac' = "WaitingForEntryCancels"
  /\ trips' = Cancelling({t \in In("filling") : trips[t].state = "OpenWaitingFill"})
  /\ exits' = ExitsAfter(<<>>, WithExits)
  /\ UNCHANGED <<side, entry, loose, closed, strayed>>
-----------------------------------------------------------------------------
(* A quote. *)

\* Each quote moves CancelAndCloseInProgress one phase on.
ExitsGone == WithExits = {}

CloseStep ==
  \/ /\ cac = "WaitingForEntryCancels"
     /\ cac' = IF In("filling") = {} THEN "WaitingForExitCancels" ELSE cac
     /\ UNCHANGED <<trips, exits>>
  \/ /\ cac = "WaitingForExitCancels"
     /\ ExitsGone /\ HasSlot(In("toMatch"))
     /\ cac' = "WaitingForMatchingCloses"
     /\ trips' = [t \in Trips |-> IF t \in In("toMatch") THEN Closing(t) ELSE trips[t]]
     /\ exits' = ExitsAfter([t \in In("toMatch") |-> "Market"], {})
  \/ /\ cac = "WaitingForMatchingCloses"
     /\ cac' = IF In("toMatch") = {} THEN "Done" ELSE cac
     /\ UNCHANGED <<trips, exits>>

\* The price is not on the profitable side of the entry.
Outside(t, price) ==
  IF side = "Buy" THEN trips[t].basis >= price ELSE trips[t].basis <= price
StopHit(t, price) ==
  /\ trips[t].stop # 0
  /\ IF side = "Buy" THEN trips[t].stop > price ELSE trips[t].stop < price

\* What a quote does to a trip: cancel the entry after half a minute, close
\* the trip after an hour or at its stop, cancel the limit order when the
\* price is outside, place it when the price is inside.
TimesOut(t) == trips[t].in = "filling" /\ trips[t].state = "OpenWaitingFill" /\ trips[t].old
Closes(t, price) ==
  /\ t \in In("toMatch") \ WithExits
  /\ Outside(t, price)
  /\ trips[t].old \/ StopHit(t, price)
\* (Mutant: a limit order is placed beside one that is being cancelled.)
AgainTakesProfit(t, price) ==
  /\ t \in In("toMatch") /\ ~ Outside(t, price)
  /\ trips[t].exit # 0 => exits[t][trips[t].exit].asked
TakesProfit(t, price) == t \in In("toMatch") \ WithExits /\ ~ Outside(t, price)
CancelsExit(t, price) == t \in WithExits /\ Outside(t, price) /\ trips[t].state # "Closing"

Trade(price) ==
  LET late == {t \in Trips : TimesOut(t)}
      closing == {t \in Trips : price # 0 /\ Closes(t, price)}
      taking == {t \in Trips : price # 0 /\ TakesProfit(t, price)}
      asking == {t \in Trips : price # 0 /\ CancelsExit(t, price)}
  IN  /\ HasSlot(closing \cup taking)
      /\ trips' = [t \in Trips |->
           IF t \in closing THEN Closing(t)
           ELSE IF t \in taking THEN WithExit(t)
           ELSE Cancelling(late)[t]]
      /\ exits' = ExitsAfter([t \in closing \cup taking |->
                                IF t \in closing THEN "Market" ELSE "Limit"], asking)

HandleQuote(price) ==
  /\ \/ CancelAndCloseInProgress /\ CloseStep
     \/ ~ CancelAndCloseInProgress /\ Trade(price) /\ UNCHANGED cac
  /\ UNCHANGED <<side, entry, loose, closed, strayed>>
-----------------------------------------------------------------------------
(* Time, the broker, and its reports. *)

\* Half a minute since the entry was placed, an hour since it filled.
GetOld(t) ==
  /\ t \in In("filling") \cup In("toMatch") /\ ~ trips[t].old
  /\ trips' = [trips EXCEPT ![t].old = TRUE]
  /\ UNCHANGED <<side, cac, entry, exits, loose, closed, strayed>>

\* The broker trades what is left of an order that works, and of one that it
\* has cancelled: the execution was under way.
FillEntry(t) ==
  /\ entry[t].state \in {"working", "cancelled"} /\ entry[t].filled < entry[t].quantity
  /\ entry' = [entry EXCEPT ![t].filled = @ + 1]
  /\ UNCHANGED <<side, trips, cac, exits, loose, closed, strayed>>

\* On request, or by the exchange.
EndEntry(t) ==
  /\ entry[t].state = "working" /\ entry[t].filled < entry[t].quantity
  /\ \E end \in {"cancelled", "rejected"} :
       /\ end = "rejected" => entry[t].filled = 0
       /\ entry' = [entry EXCEPT ![t].state = end]
  /\ UNCHANGED <<side, trips, cac, exits, loose, closed, strayed>>

FillExit(t, e) ==
  /\ exits[t][e].state \in {"working", "cancelled"} /\ ~ exits[t][e].filled
  /\ exits' = [exits EXCEPT ![t][e] = [NoExit EXCEPT !.state = exits[t][e].state,
                                                    !.filled = TRUE]]
  /\ closed' = [closed EXCEPT ![t] = @ + 1]
  /\ UNCHANGED <<side, trips, cac, entry, loose, strayed>>

CancelExit(t, e) ==
  /\ exits[t][e].state = "working" /\ ~ exits[t][e].filled
  /\ exits' = [exits EXCEPT ![t][e] = [NoExit EXCEPT !.state = "cancelled"]]
  /\ UNCHANGED <<side, trips, cac, entry, loose, closed, strayed>>

\* An exit that was told cancelled trades after all, or never will.
FillLoose(t) ==
  /\ loose[t] > 0 /\ strayed[t] < MaxStray
  /\ loose' = [loose EXCEPT ![t] = @ - 1]
  /\ closed' = [closed EXCEPT ![t] = @ + 1]
  /\ strayed' = [strayed EXCEPT ![t] = @ + 1]
  /\ UNCHANGED <<side, trips, cac, entry, exits>>

SettleLoose(t) ==
  /\ loose[t] > 0
  /\ loose' = [loose EXCEPT ![t] = @ - 1]
  /\ UNCHANGED <<side, trips, cac, entry, exits, closed, strayed>>

\* HandleBaseOrderFilled, HandleBaseOrderCancelled: the handlers are removed,
\* so that neither is called again.  The reports of a cancellation and of the
\* last execution come in either order.
\* (Mutants: an entry that is being cancelled is not matched; the state stays.)
FilledUnlessCancelling(trip) ==
  IF trip.state = "OpenCancelling"
  THEN [trip EXCEPT !.in = "dropped", !.state = "Cancelled", !.old = FALSE]
  ELSE [trip EXCEPT !.in = "toMatch", !.state = "Open", !.old = FALSE]
FilledKeepsState(trip) == [trip EXCEPT !.in = "toMatch", !.old = FALSE]
HandleBaseOrderFilled(trip) == [trip EXCEPT !.in = "toMatch", !.state = "Open", !.old = FALSE]

HandleBaseOrderCancelled(trip) ==
  [trip EXCEPT !.in = "dropped", !.state = "Cancelled", !.old = FALSE]

DeliverEntry(t) ==
  /\ trips[t].in = "filling"
  /\ \/ /\ entry[t].filled = entry[t].quantity
        /\ trips' = [trips EXCEPT ![t] = HandleBaseOrderFilled(@)]
        /\ entry' = [entry EXCEPT ![t].state = "filled"]
     \/ /\ entry[t].state = "cancelled"
        /\ trips' = [trips EXCEPT ![t] = HandleBaseOrderCancelled(@)]
        /\ UNCHANGED entry
  /\ UNCHANGED <<side, cac, exits, loose, closed, strayed>>

\* HandleMatchingOrderFilled, HandleMatchingOrderCancelled look for the order
\* among the exits that trips have now.
Exits(t, e) == t \in In("toMatch") /\ trips[t].exit = e
HandleMatchingOrderFilled(t) == [trips EXCEPT ![t].in = "completed", ![t].old = FALSE]
\* (Mutant: a cancelled exit stays the trip's.)
CancelledKeepsExit(t) == trips
HandleMatchingOrderCancelled(t) == [trips EXCEPT ![t].exit = 0]

DeliverExit(t, e) ==
  /\ \/ /\ exits[t][e].filled
        /\ trips' = IF Exits(t, e) THEN HandleMatchingOrderFilled(t) ELSE trips
        /\ UNCHANGED <<loose, strayed>>
     \/ /\ exits[t][e].state = "cancelled"
        /\ trips' = IF Exits(t, e) THEN HandleMatchingOrderCancelled(t) ELSE trips
        /\ IF exits[t][e].filled
           THEN /\ strayed[t] < MaxStray /\ strayed' = [strayed EXCEPT ![t] = @ + 1]
                /\ UNCHANGED loose
           ELSE /\ loose[t] < MaxLoose /\ loose' = [loose EXCEPT ![t] = @ + 1]
                /\ UNCHANGED strayed
  /\ exits' = [exits EXCEPT ![t][e] = NoExit]
  /\ UNCHANGED <<side, cac, entry, closed>>
-----------------------------------------------------------------------------
Next ==
  \/ \E t \in Trips :
       \/ Enter(t) \/ GetOld(t) \/ FillEntry(t) \/ EndEntry(t) \/ DeliverEntry(t)
       \/ FillLoose(t) \/ SettleLoose(t)
  \/ \E t \in Trips, e \in Slots :
       FillExit(t, e) \/ CancelExit(t, e) \/ DeliverExit(t, e)
  \/ \E price \in Prices : HandleQuote(price)
  \/ CancelAllMatchingOrders
  \/ CancelAndCloseAllOrders

Spec == Init /\ [][Next]_vars

\* Quotes go on (while everything is closed, whatever they show), reports
\* arrive, the broker executes market orders, answers cancellations and does
\* not execute a cancelled order for ever.
Fairness ==
  /\ WF_vars(CancelAndCloseInProgress /\ HandleQuote(0))
  /\ \A t \in Trips :
       /\ WF_vars(DeliverEntry(t)) /\ WF_vars(FillLoose(t) \/ SettleLoose(t))
       /\ WF_vars(trips[t].state = "OpenCancelling" /\ (FillEntry(t) \/ EndEntry(t)))
       /\ \A e \in Slots :
            /\ WF_vars(DeliverExit(t, e))
            /\ WF_vars(exits[t][e].asked /\ (FillExit(t, e) \/ CancelExit(t, e)))
            /\ WF_vars(exits[t][e].type = "Market" /\ FillExit(t, e))

FairSpec == Spec /\ Fairness
-----------------------------------------------------------------------------
(* Properties. *)

\* Exits of whose end the program is not told, and which have not traded.
Working(t) ==
  {e \in Slots : exits[t][e].state \in {"working", "cancelled"} /\ ~ exits[t][e].filled}

\* A trip never has orders in the market for more than the unit it closes:
\* whatever is cancelled, fills at that moment, times out or hits its stop, no
\* second exit trades the same unit, but for the exits that trade although they
\* were told cancelled: each of those trades it once more.
Opened(t) == IF entry[t].filled = 0 THEN 0 ELSE 1
NeverOverclosed ==
  \A t \in Trips : closed[t] + Cardinality(Working(t)) <= Opened(t) + strayed[t]

\* What a trip that leaves the containers still holds is what the code gives
\* up: a completed one the units beyond the first, less what exits told
\* cancelled traded as well; a dropped one all that its entry trades, before or
\* after the report of the cancellation.  Nothing else is forgotten: an entry
\* that fills while it is asked to cancel is matched and closed.
Held(t) == entry[t].filled - closed[t]
ForgottenIsGivenUp ==
  \A t \in Trips :
    /\ trips[t].in \in {"completed", "dropped"} => Working(t) = {}
    /\ trips[t].in = "completed" => Held(t) = entry[t].quantity - 1 - strayed[t]
    /\ trips[t].in = "dropped" => Held(t) = entry[t].filled /\ entry[t].state = "cancelled"

\* CancelAndCloseAllOrders ends, unless an entry was rejected or the exchange
\* cancels a closing order: nobody places another one.
Stuck ==
  \/ \E t \in Trips : entry[t].state = "rejected"
  \/ cac = "WaitingForMatchingCloses" /\ \E t \in In("toMatch") : trips[t].exit = 0
CloseEnds == CancelAndCloseInProgress ~> (cac = "Done" \/ Stuck)
=============================================================================
