-------------------------- MODULE OutstandingProofs --------------------------
(***************************************************************************)
(* Proofs about Outstanding, for any number of round trips, exits, and     *)
(* prices.                                                                 *)
(*                                                                         *)
(* Although nothing in the code counts the exits of a trip, there is at    *)
(* most one: it is placed when the trip has none, and forgotten with the   *)
(* report of its end.  The invariant says so, trip by trip, and says what  *)
(* the entry and the closed units are in each container.                   *)
(***************************************************************************)
EXTENDS Outstanding, FiniteSetTheorems, TLAPS

TripRows == [in : Containers, state : TripStates, basis : Bases \cup {0},
             stop : Stops \cup {0}, exit : Slots \cup {0}, old : BOOLEAN]

Typed ==
  /\ trips \in [Trips -> TripRows]
  /\ entry \in [Trips -> EntryOrders]
  /\ exits \in [Trips -> [Slots -> ExitOrders]]
  /\ loose \in [Trips -> Nat] /\ closed \in [Trips -> Nat] /\ strayed \in [Trips -> Nat]

Phases == side \in {"Buy", "Sell"} /\ cac \in CacStates

\* No exit is known, or e alone is.
Empty(x) == \A e \in Slots : x[e] = NoExit
Alone(x, e) ==
  /\ e \in Slots
  /\ x[e].state \in {"working", "cancelled"}
  /\ \A k \in Slots \ {e} : x[k] = NoExit

\* The states of a trip in its container.
StateInv(trip) ==
  /\ trip.in = "new" => trip.state = "OpenWaitingFill"
  /\ trip.in = "filling" => trip.state \in {"OpenWaitingFill", "OpenCancelling"}
  /\ trip.in = "toMatch" => trip.state \in {"Open", "Closing"}

\* The entry of a trip in the container in.
EntryInv(in, en) ==
  /\ in = "new" => en.state = "none"
  /\ in = "filling" => en.state \in {"working", "cancelled", "rejected"} /\ en.quantity # 0
  /\ in = "dropped" => en.state = "cancelled"
  /\ in \in {"toMatch", "completed"} =>
       en.state = "filled" /\ en.quantity # 0 /\ en.filled = en.quantity

\* What the broker has of a trip that has its exits x, l of which may trade
\* yet, and has closed c units, s of them astray.
OrdersInv(trip, x, l, c, s) ==
  /\ trip.in \in {"new", "filling"} => trip.exit = 0
  /\ trip.in \in {"new", "filling", "dropped"} => Empty(x) /\ l = 0 /\ c = 0 /\ s = 0
  /\ trip.in = "completed" => Empty(x) /\ c = s + 1
  /\ trip.in = "toMatch" =>
       \/ trip.exit = 0 /\ Empty(x) /\ c = s
       \/ Alone(x, trip.exit) /\ c = IF x[trip.exit].filled THEN s + 1 ELSE s

TripInv(t) ==
  /\ StateInv(trips[t]) /\ EntryInv(trips[t].in, entry[t])
  /\ OrdersInv(trips[t], exits[t], loose[t], closed[t], strayed[t])

IInv == Phases /\ Typed /\ \A t \in Trips : TripInv(t)
-----------------------------------------------------------------------------
(* Orders. *)

LEMMA OrdersAreTyped ==
  /\ NoExit \in ExitOrders /\ NoExit.state = "none" /\ NoExit.filled = FALSE
  /\ \A type \in {"Limit", "Market"} :
       /\ Sent(type) \in ExitOrders /\ Sent(type) # NoExit
       /\ Sent(type).state = "working" /\ Sent(type).filled = FALSE
  BY DEF NoExit, Sent, ExitOrders, OrderTypes

\* A request to cancel changes nothing else of an order.
LEMMA AskedKeepsState ==
  ASSUME NEW b \in ExitOrders
  PROVE  /\ [b EXCEPT !.asked = TRUE] \in ExitOrders
         /\ [b EXCEPT !.asked = TRUE].state = b.state
         /\ [b EXCEPT !.asked = TRUE].filled = b.filled
  BY DEF ExitOrders

\* An exit that is placed is alone.
LEMMA PlacedIsAlone ==
  ASSUME NEW x \in [Slots -> ExitOrders], Empty(x), NEW e \in Slots,
         NEW type \in {"Limit", "Market"}
  PROVE  LET y == [x EXCEPT ![e] = Sent(type)]
         IN  /\ y \in [Slots -> ExitOrders]
             /\ Alone(y, e) /\ y[e].filled = FALSE
<1> DEFINE o == Sent(type)
<1>1. o \in ExitOrders /\ o.state = "working" /\ o.filled = FALSE
  BY OrdersAreTyped
<1> HIDE DEF o
<1>2. [x EXCEPT ![e] = o] \in [Slots -> ExitOrders]
  BY <1>1
<1>3. Alone([x EXCEPT ![e] = o], e) /\ [x EXCEPT ![e] = o][e].filled = FALSE
  BY <1>1 DEF Alone, Empty
<1> QED BY <1>2, <1>3 DEF o

\* An exit whose cancellation is asked for stays alone, in its state.
LEMMA AskedIsAlone ==
  ASSUME NEW x \in [Slots -> ExitOrders], NEW e, Alone(x, e)
  PROVE  LET y == [x EXCEPT ![e].asked = TRUE]
         IN  /\ y \in [Slots -> ExitOrders]
             /\ Alone(y, e) /\ y[e].filled = x[e].filled
<1> DEFINE o == [x[e] EXCEPT !.asked = TRUE]
<1>0. e \in Slots
  BY DEF Alone
<1>1. o \in ExitOrders /\ o.state = x[e].state /\ o.filled = x[e].filled
  BY <1>0, AskedKeepsState
<1>2. [x EXCEPT ![e].asked = TRUE] = [x EXCEPT ![e] = o]
  OBVIOUS
<1> HIDE DEF o
<1>3. [x EXCEPT ![e] = o] \in [Slots -> ExitOrders]
  BY <1>1
<1>4. Alone([x EXCEPT ![e] = o], e) /\ [x EXCEPT ![e] = o][e].filled = x[e].filled
  BY <1>0, <1>1 DEF Alone
<1> QED BY <1>2, <1>3, <1>4

LEMMA ZeroIsNoSlot == 0 \notin Slots
  BY OutstandingAssumption

\* Trips of the containers: who has an exit, and who has none.
LEMMA ExitsOfTrips ==
  ASSUME IInv, NEW t \in Trips, trips[t].in = "toMatch"
  PROVE  /\ trips[t].exit = 0 => Empty(exits[t]) /\ closed[t] = strayed[t]
         /\ trips[t].exit # 0 =>
              /\ Alone(exits[t], trips[t].exit)
              /\ closed[t] = IF exits[t][trips[t].exit].filled THEN strayed[t] + 1
                             ELSE strayed[t]
  BY ZeroIsNoSlot DEF IInv, TripInv, OrdersInv, Alone

LEMMA InitInv == Init => IInv
<1> SUFFICES ASSUME Init PROVE IInv
  OBVIOUS
<1>1. Phases
  BY DEF Init, Phases, CacStates
<1>2. /\ [in |-> "new", state |-> "OpenWaitingFill", basis |-> 0,
          stop |-> 0, exit |-> 0, old |-> FALSE] \in TripRows
      /\ [e \in Slots |-> NoExit] \in [Slots -> ExitOrders]
  BY OrdersAreTyped DEF TripRows, Containers, TripStates
<1>3. Typed
  <2>1. trips \in [Trips -> TripRows]
    BY <1>2 DEF Init
  <2>2. entry \in [Trips -> EntryOrders]
    BY DEF Init, NoEntry, EntryOrders
  <2>3. exits \in [Trips -> [Slots -> ExitOrders]]
    BY <1>2, Zenon DEF Init
  <2>4. loose \in [Trips -> Nat] /\ closed \in [Trips -> Nat] /\ strayed \in [Trips -> Nat]
    BY DEF Init
  <2> QED BY <2>1, <2>2, <2>3, <2>4 DEF Typed
<1>4. ASSUME NEW t \in Trips
      PROVE  TripInv(t)
  <2>1. /\ trips[t].in = "new" /\ trips[t].exit = 0
        /\ trips[t].state = "OpenWaitingFill"
        /\ entry[t].state = "none"
        /\ loose[t] = 0 /\ closed[t] = 0 /\ strayed[t] = 0
    BY DEF Init, NoEntry
  <2>2. Empty(exits[t])
    BY DEF Init, Empty
  <2> QED BY <2>1, <2>2 DEF TripInv, StateInv, EntryInv, OrdersInv
<1> QED BY <1>1, <1>3, <1>4 DEF IInv
-----------------------------------------------------------------------------
(* Changes of a row.  *)

\* An entry, an end, a state: a row stays a row.
LEMMA RowsStayRows ==
  ASSUME NEW r \in TripRows
  PROVE  /\ \A c \in Containers : [r EXCEPT !.in = c] \in TripRows
         /\ \A s \in TripStates : [r EXCEPT !.state = s] \in TripRows
         /\ \A e \in Slots \cup {0} : [r EXCEPT !.exit = e] \in TripRows
         /\ \A b \in BOOLEAN : [r EXCEPT !.old = b] \in TripRows
         /\ \A b \in Bases, s \in Stops :
              [r EXCEPT !.in = "filling", !.basis = b, !.stop = s] \in TripRows
<1> USE DEF TripRows
<1>1. \A c \in Containers : [r EXCEPT !.in = c] \in TripRows
  OBVIOUS
<1>2. \A s \in TripStates : [r EXCEPT !.state = s] \in TripRows
  OBVIOUS
<1>3. \A e \in Slots \cup {0} : [r EXCEPT !.exit = e] \in TripRows
  OBVIOUS
<1>4. \A b \in BOOLEAN : [r EXCEPT !.old = b] \in TripRows
  OBVIOUS
<1>5. \A b \in Bases, s \in Stops :
        [r EXCEPT !.in = "filling", !.basis = b, !.stop = s] \in TripRows
  BY DEF Containers
<1> QED BY <1>1, <1>2, <1>3, <1>4, <1>5

\* An action that leaves the variables of all trips but one alone keeps
\* what it keeps of that one.
LEMMA OneTripSuffices ==
  ASSUME IInv, NEW t \in Trips, Typed', Phases', TripInv(t)',
         \A k \in Trips \ {t} :
           /\ trips'[k] = trips[k] /\ entry'[k] = entry[k] /\ exits'[k] = exits[k]
           /\ loose'[k] = loose[k] /\ closed'[k] = closed[k] /\ strayed'[k] = strayed[k]
  PROVE  IInv'
<1>1. ASSUME NEW k \in Trips, k # t
      PROVE  TripInv(k)'
  <2>1. TripInv(k)
    BY DEF IInv
  <2> QED BY <1>1, <2>1 DEF TripInv, StateInv, EntryInv, OrdersInv, Empty, Alone
<1> QED BY <1>1 DEF IInv

\* An exit that the broker knows is the exit of a trip that waits for it.
LEMMA KnownExit ==
  ASSUME IInv, NEW t \in Trips, NEW e \in Slots, exits[t][e] # NoExit
  PROVE  /\ trips[t].in = "toMatch" /\ trips[t].exit = e
         /\ Alone(exits[t], e)
         /\ closed[t] = IF exits[t][e].filled THEN strayed[t] + 1 ELSE strayed[t]
         /\ StateInv(trips[t]) /\ EntryInv("toMatch", entry[t])
<1>1. ~ Empty(exits[t])
  BY DEF Empty
<1>2. trips[t].in \in Containers
  BY DEF IInv, Typed, TripRows
<1>3. trips[t].in = "toMatch"
  BY <1>1, <1>2 DEF IInv, TripInv, OrdersInv, Containers
<1>4. /\ Alone(exits[t], trips[t].exit)
      /\ closed[t] = IF exits[t][trips[t].exit].filled THEN strayed[t] + 1 ELSE strayed[t]
  BY <1>1, <1>3 DEF IInv, TripInv, OrdersInv
<1>5. trips[t].exit = e
  BY <1>4 DEF Alone
<1> QED BY <1>3, <1>4, <1>5 DEF IInv, TripInv

\* One exit of one trip becomes the order o.
LEMMA ExitBecomes ==
  ASSUME Typed, NEW t \in Trips, NEW e \in Slots, NEW o \in ExitOrders,
         exits' = [exits EXCEPT ![t] = [exits[t] EXCEPT ![e] = o]]
  PROVE  /\ exits' \in [Trips -> [Slots -> ExitOrders]]
         /\ exits'[t] = [exits[t] EXCEPT ![e] = o]
         /\ exits'[t][e] = o
         /\ \A k \in Slots \ {e} : exits'[t][k] = exits[t][k]
         /\ \A k \in Trips \ {t} : exits'[k] = exits[k]
<1>1. exits \in [Trips -> [Slots -> ExitOrders]] /\ exits[t] \in [Slots -> ExitOrders]
  BY DEF Typed
<1> DEFINE x == [exits[t] EXCEPT ![e] = o]
<1>2. x \in [Slots -> ExitOrders] /\ x[e] = o /\ \A k \in Slots \ {e} : x[k] = exits[t][k]
  BY <1>1
<1> HIDE DEF x
<1>3. exits' = [exits EXCEPT ![t] = x]
  BY DEF x
<1>4. /\ exits' \in [Trips -> [Slots -> ExitOrders]]
      /\ exits'[t] = x
      /\ \A k \in Trips \ {t} : exits'[k] = exits[k]
  BY <1>1, <1>2, <1>3
<1> QED BY <1>2, <1>4 DEF x

\* One trip's row becomes r.
LEMMA RowBecomes ==
  ASSUME Typed, NEW t \in Trips, NEW r \in TripRows, trips' = [trips EXCEPT ![t] = r]
  PROVE  /\ trips' \in [Trips -> TripRows] /\ trips'[t] = r
         /\ \A k \in Trips \ {t} : trips'[k] = trips[k]
  BY DEF Typed

LEMMA GetOldKeeps ==
  ASSUME IInv, NEW t \in Trips, GetOld(t)
  PROVE  IInv'
<1> DEFINE r == [trips[t] EXCEPT !.old = TRUE]
<1>1. Typed /\ trips[t] \in TripRows
  BY DEF IInv, Typed
<1>2. r \in TripRows
  BY <1>1, RowsStayRows
<1>3. r.in = trips[t].in /\ r.state = trips[t].state /\ r.exit = trips[t].exit
  BY <1>1 DEF TripRows
<1>4. /\ trips' = [trips EXCEPT ![t] = r]
      /\ UNCHANGED <<side, cac, entry, exits, loose, closed, strayed>>
  BY DEF GetOld
<1> HIDE DEF r
<1>5. /\ trips' \in [Trips -> TripRows] /\ trips'[t] = r
      /\ \A k \in Trips \ {t} : trips'[k] = trips[k]
  BY <1>1, <1>2, <1>4, RowBecomes
<1>6. Typed' /\ Phases'
  BY <1>1, <1>4, <1>5 DEF IInv, Typed, Phases
<1>7. TripInv(t)'
  BY <1>3, <1>4, <1>5 DEF IInv, TripInv, StateInv, EntryInv, OrdersInv, Empty, Alone
<1> QED BY <1>4, <1>5, <1>6, <1>7, OneTripSuffices

\* The broker changes an entry whose trip waits for it, or has forgotten it.
LEMMA EntryBecomes ==
  ASSUME IInv, NEW t \in Trips, NEW b \in EntryOrders,
         entry' = [entry EXCEPT ![t] = b],
         EntryInv(trips[t].in, b),
         UNCHANGED <<side, trips, cac, exits, loose, closed, strayed>>
  PROVE  IInv'
<1>1. Typed
  BY DEF IInv
<1>2. /\ entry' \in [Trips -> EntryOrders] /\ entry'[t] = b
      /\ \A k \in Trips \ {t} : entry'[k] = entry[k]
  BY <1>1 DEF Typed
<1>3. Typed' /\ Phases'
  BY <1>1, <1>2 DEF IInv, Typed, Phases
<1>4. TripInv(t)'
  BY <1>2 DEF IInv, TripInv, StateInv, EntryInv, OrdersInv, Empty, Alone
<1> QED BY <1>2, <1>3, <1>4, OneTripSuffices

LEMMA FillEntryKeeps ==
  ASSUME IInv, NEW t \in Trips, FillEntry(t)
  PROVE  IInv'
<1> DEFINE b == [entry[t] EXCEPT !.filled = @ + 1]
<1>1. /\ entry' = [entry EXCEPT ![t] = b]
      /\ entry[t].state \in {"working", "cancelled"}
      /\ UNCHANGED <<side, trips, cac, exits, loose, closed, strayed>>
  BY DEF FillEntry
<1>2. entry[t] \in EntryOrders /\ EntryInv(trips[t].in, entry[t])
  BY DEF IInv, Typed, TripInv
<1>3. /\ b \in EntryOrders
      /\ b.state = entry[t].state /\ b.quantity = entry[t].quantity
  BY <1>2 DEF EntryOrders
<1>4. EntryInv(trips[t].in, b)
  BY <1>1, <1>2, <1>3 DEF EntryInv
<1> QED BY <1>1, <1>3, <1>4, EntryBecomes

LEMMA EndEntryKeeps ==
  ASSUME IInv, NEW t \in Trips, EndEntry(t)
  PROVE  IInv'
<1>1. PICK end \in {"cancelled", "rejected"} :
        entry' = [entry EXCEPT ![t].state = end]
  BY DEF EndEntry
<1> DEFINE b == [entry[t] EXCEPT !.state = end]
<1>2. /\ entry' = [entry EXCEPT ![t] = b]
      /\ entry[t].state = "working"
      /\ UNCHANGED <<side, trips, cac, exits, loose, closed, strayed>>
  BY <1>1 DEF EndEntry
<1>3. entry[t] \in EntryOrders /\ EntryInv(trips[t].in, entry[t]) /\ trips[t].in \in Containers
  BY DEF IInv, Typed, TripInv, TripRows
<1>4. /\ b \in EntryOrders /\ b.state = end /\ b.quantity = entry[t].quantity
  BY <1>3 DEF EntryOrders
<1>5. EntryInv(trips[t].in, b)
  BY <1>2, <1>3, <1>4 DEF EntryInv, Containers
<1> QED BY <1>2, <1>4, <1>5, EntryBecomes

\* An exit changes at the broker.
LEMMA FillExitKeeps ==
  ASSUME IInv, NEW t \in Trips, NEW e \in Slots, FillExit(t, e)
  PROVE  IInv'
<1> DEFINE o == [NoExit EXCEPT !.state = exits[t][e].state, !.filled = TRUE]
<1>1. /\ exits[t][e].state \in {"working", "cancelled"} /\ ~ exits[t][e].filled
      /\ closed' = [closed EXCEPT ![t] = @ + 1]
      /\ UNCHANGED <<side, trips, cac, entry, loose, strayed>>
  BY DEF FillExit
<1>2. Typed /\ closed[t] \in Nat /\ strayed[t] \in Nat
  BY DEF IInv, Typed
<1>3. o \in ExitOrders /\ o.state \in {"working", "cancelled"} /\ o.filled = TRUE
  BY <1>1 DEF ExitOrders, NoExit, OrderTypes
<1>4. exits' = [exits EXCEPT ![t] = [exits[t] EXCEPT ![e] = o]]
  BY DEF FillExit
<1> HIDE DEF o
<1>5. /\ exits' \in [Trips -> [Slots -> ExitOrders]] /\ exits'[t][e] = o
      /\ \A k \in Slots \ {e} : exits'[t][k] = exits[t][k]
      /\ \A k \in Trips \ {t} : exits'[k] = exits[k]
  BY <1>2, <1>3, <1>4, ExitBecomes
<1>6. /\ closed' \in [Trips -> Nat] /\ closed'[t] = closed[t] + 1
      /\ \A k \in Trips \ {t} : closed'[k] = closed[k]
  BY <1>1, <1>2 DEF Typed
<1>7. Typed' /\ Phases'
  BY <1>1, <1>2, <1>5, <1>6 DEF IInv, Typed, Phases
<1>8. /\ trips[t].in = "toMatch" /\ trips[t].exit = e
      /\ Alone(exits[t], e) /\ closed[t] = strayed[t]
  BY <1>1, KnownExit, OrdersAreTyped
<1>9. Alone(exits'[t], e) /\ closed'[t] = strayed'[t] + 1
  BY <1>1, <1>3, <1>5, <1>6, <1>8 DEF Alone
<1>10. OrdersInv(trips'[t], exits'[t], loose'[t], closed'[t], strayed'[t])
  BY <1>1, <1>3, <1>5, <1>8, <1>9 DEF OrdersInv
<1>11. TripInv(t)'
  BY <1>1, <1>10 DEF IInv, TripInv, StateInv, EntryInv, OrdersInv, Empty, Alone
<1> QED BY <1>1, <1>5, <1>6, <1>7, <1>11, OneTripSuffices

LEMMA CancelExitKeeps ==
  ASSUME IInv, NEW t \in Trips, NEW e \in Slots, CancelExit(t, e)
  PROVE  IInv'
<1> DEFINE o == [NoExit EXCEPT !.state = "cancelled"]
<1>1. /\ exits[t][e].state = "working" /\ ~ exits[t][e].filled
      /\ UNCHANGED <<side, trips, cac, entry, loose, closed, strayed>>
  BY DEF CancelExit
<1>2. Typed
  BY DEF IInv
<1>3. o \in ExitOrders /\ o.state = "cancelled" /\ o.filled = FALSE
  BY DEF ExitOrders, NoExit, OrderTypes
<1>4. exits' = [exits EXCEPT ![t] = [exits[t] EXCEPT ![e] = o]]
  BY DEF CancelExit
<1> HIDE DEF o
<1>5. /\ exits' \in [Trips -> [Slots -> ExitOrders]] /\ exits'[t][e] = o
      /\ \A k \in Slots \ {e} : exits'[t][k] = exits[t][k]
      /\ \A k \in Trips \ {t} : exits'[k] = exits[k]
  BY <1>2, <1>3, <1>4, ExitBecomes
<1>6. Typed' /\ Phases'
  BY <1>1, <1>2, <1>5 DEF IInv, Typed, Phases
<1>7. /\ trips[t].in = "toMatch" /\ trips[t].exit = e
      /\ Alone(exits[t], e) /\ closed[t] = strayed[t]
  BY <1>1, KnownExit, OrdersAreTyped
<1>8. Alone(exits'[t], e)
  BY <1>3, <1>5, <1>7 DEF Alone
<1>9. OrdersInv(trips'[t], exits'[t], loose'[t], closed'[t], strayed'[t])
  BY <1>1, <1>3, <1>5, <1>7, <1>8 DEF OrdersInv
<1>10. TripInv(t)'
  BY <1>1, <1>9 DEF IInv, TripInv, StateInv, EntryInv, OrdersInv, Empty, Alone
<1> QED BY <1>1, <1>5, <1>6, <1>10, OneTripSuffices

\* An exit that was told cancelled belongs to a trip that filled.
LEMMA LooseOfTrip ==
  ASSUME IInv, NEW t \in Trips, loose[t] > 0
  PROVE  trips[t].in \in {"toMatch", "completed"}
<1>1. trips[t].in \in Containers /\ loose[t] # 0
  BY DEF IInv, Typed, TripRows
<1> QED BY <1>1 DEF IInv, TripInv, OrdersInv, Containers

LEMMA FillLooseKeeps ==
  ASSUME IInv, NEW t \in Trips, FillLoose(t)
  PROVE  IInv'
<1>1. /\ loose[t] > 0
      /\ loose' = [loose EXCEPT ![t] = @ - 1]
      /\ closed' = [closed EXCEPT ![t] = @ + 1]
      /\ strayed' = [strayed EXCEPT ![t] = @ + 1]
      /\ UNCHANGED <<side, trips, cac, entry, exits>>
  BY DEF FillLoose
<1>2. Typed /\ loose[t] \in Nat /\ closed[t] \in Nat /\ strayed[t] \in Nat
  BY DEF IInv, Typed
<1>3. /\ loose' \in [Trips -> Nat] /\ closed' \in [Trips -> Nat]
      /\ strayed' \in [Trips -> Nat]
      /\ closed'[t] = closed[t] + 1 /\ strayed'[t] = strayed[t] + 1
      /\ \A k \in Trips \ {t} : /\ loose'[k] = loose[k] /\ closed'[k] = closed[k]
                               /\ strayed'[k] = strayed[k]
  BY <1>1, <1>2 DEF Typed
<1>4. Typed' /\ Phases'
  BY <1>1, <1>2, <1>3 DEF IInv, Typed, Phases
<1>5. trips[t].in \in {"toMatch", "completed"}
  BY <1>1, LooseOfTrip
<1>6. OrdersInv(trips[t], exits[t], loose[t], closed[t], strayed[t])
  BY DEF IInv, TripInv
<1>7. OrdersInv(trips[t], exits[t], loose'[t], closed'[t], strayed'[t])
  BY <1>2, <1>3, <1>5, <1>6 DEF OrdersInv
<1>8. TripInv(t)'
  BY <1>1, <1>7 DEF IInv, TripInv, StateInv, EntryInv, OrdersInv, Empty, Alone
<1> QED BY <1>1, <1>3, <1>4, <1>8, OneTripSuffices

LEMMA SettleLooseKeeps ==
  ASSUME IInv, NEW t \in Trips, SettleLoose(t)
  PROVE  IInv'
<1>1. /\ loose[t] > 0
      /\ loose' = [loose EXCEPT ![t] = @ - 1]
      /\ UNCHANGED <<side, trips, cac, entry, exits, closed, strayed>>
  BY DEF SettleLoose
<1>2. Typed /\ loose[t] \in Nat
  BY DEF IInv, Typed
<1>3. /\ loose' \in [Trips -> Nat]
      /\ \A k \in Trips \ {t} : loose'[k] = loose[k]
  BY <1>1, <1>2 DEF Typed
<1>4. Typed' /\ Phases'
  BY <1>1, <1>2, <1>3 DEF IInv, Typed, Phases
<1>5. trips[t].in \in {"toMatch", "completed"}
  BY <1>1, LooseOfTrip
<1>6. OrdersInv(trips[t], exits[t], loose[t], closed[t], strayed[t])
  BY DEF IInv, TripInv
<1>7. OrdersInv(trips[t], exits[t], loose'[t], closed[t], strayed[t])
  BY <1>5, <1>6 DEF OrdersInv
<1>8. TripInv(t)'
  BY <1>1, <1>7 DEF IInv, TripInv, StateInv, EntryInv, OrdersInv, Empty, Alone
<1> QED BY <1>1, <1>3, <1>4, <1>8, OneTripSuffices

LEMMA DeliverEntryKeeps ==
  ASSUME IInv, NEW t \in Trips, DeliverEntry(t)
  PROVE  IInv'
<1>1. trips[t].in = "filling" /\ UNCHANGED <<side, cac, exits, loose, closed, strayed>>
  BY DEF DeliverEntry
<1>2. Typed /\ trips[t] \in TripRows /\ entry[t] \in EntryOrders
  BY DEF IInv, Typed
<1>3. /\ trips[t].exit = 0 /\ Empty(exits[t])
      /\ loose[t] = 0 /\ closed[t] = 0 /\ strayed[t] = 0
      /\ entry[t].quantity # 0
  BY <1>1 DEF IInv, TripInv, EntryInv, OrdersInv
<1>4. SUFFICES ASSUME NEW r \in TripRows, trips' = [trips EXCEPT ![t] = r],
                      NEW b \in EntryOrders, entry' = [entry EXCEPT ![t] = b],
                      StateInv(r), EntryInv(r.in, b),
                      OrdersInv(r, exits[t], loose[t], closed[t], strayed[t])
               PROVE  IInv'
  <2>1. CASE /\ entry[t].filled = entry[t].quantity
             /\ trips' = [trips EXCEPT ![t] = HandleBaseOrderFilled(@)]
             /\ entry' = [entry EXCEPT ![t].state = "filled"]
    <3> DEFINE r == HandleBaseOrderFilled(trips[t])
               b == [entry[t] EXCEPT !.state = "filled"]
    <3>1. /\ r \in TripRows
          /\ r.in = "toMatch" /\ r.state = "Open" /\ r.exit = 0
      BY <1>2, <1>3 DEF HandleBaseOrderFilled, TripRows, Containers, TripStates
    <3>2. /\ b \in EntryOrders /\ b.state = "filled"
          /\ b.quantity = entry[t].quantity /\ b.filled = entry[t].filled
      BY <1>2 DEF EntryOrders
    <3>3. trips' = [trips EXCEPT ![t] = r] /\ entry' = [entry EXCEPT ![t] = b]
      BY <2>1
    <3> HIDE DEF r, b
    <3>4. /\ StateInv(r) /\ EntryInv(r.in, b)
          /\ OrdersInv(r, exits[t], loose[t], closed[t], strayed[t])
      BY <1>3, <2>1, <3>1, <3>2 DEF StateInv, EntryInv, OrdersInv
    <3> QED BY <1>4, <3>1, <3>2, <3>3, <3>4
  <2>2. CASE /\ entry[t].state = "cancelled"
             /\ trips' = [trips EXCEPT ![t] = HandleBaseOrderCancelled(@)]
             /\ UNCHANGED entry
    <3> DEFINE r == HandleBaseOrderCancelled(trips[t])
    <3>1. r \in TripRows /\ r.in = "dropped"
      BY <1>2 DEF HandleBaseOrderCancelled, TripRows, Containers, TripStates
    <3>2. trips' = [trips EXCEPT ![t] = r]
      BY <2>2
    <3>3. entry' = [entry EXCEPT ![t] = entry[t]]
      BY <1>2, <2>2 DEF Typed
    <3> HIDE DEF r
    <3>4. /\ StateInv(r) /\ EntryInv(r.in, entry[t])
          /\ OrdersInv(r, exits[t], loose[t], closed[t], strayed[t])
      BY <1>3, <2>2, <3>1 DEF StateInv, EntryInv, OrdersInv
    <3> QED BY <1>2, <1>4, <3>1, <3>2, <3>3, <3>4
  <2> QED BY <2>1, <2>2 DEF DeliverEntry
<1>5. /\ trips' \in [Trips -> TripRows] /\ trips'[t] = r
      /\ \A k \in Trips \ {t} : trips'[k] = trips[k]
  BY <1>2, <1>4, RowBecomes
<1>6. /\ entry' \in [Trips -> EntryOrders] /\ entry'[t] = b
      /\ \A k \in Trips \ {t} : entry'[k] = entry[k]
  BY <1>2, <1>4 DEF Typed
<1>7. Typed' /\ Phases'
  BY <1>1, <1>2, <1>5, <1>6 DEF IInv, Typed, Phases
<1>8. TripInv(t)'
  BY <1>1, <1>4, <1>5, <1>6 DEF TripInv, StateInv, EntryInv, OrdersInv, Empty, Alone
<1> QED BY <1>1, <1>5, <1>6, <1>7, <1>8, OneTripSuffices

LEMMA DeliverExitKeeps ==
  ASSUME IInv, NEW t \in Trips, NEW e \in Slots, DeliverExit(t, e)
  PROVE  IInv'
<1>1. /\ exits[t][e].filled \/ exits[t][e].state = "cancelled"
      /\ UNCHANGED <<side, cac, entry, closed>>
  BY DEF DeliverExit
<1>2. Typed /\ trips[t] \in TripRows
  BY DEF IInv, Typed
<1>3. /\ trips[t].in = "toMatch" /\ trips[t].exit = e
      /\ Alone(exits[t], e)
      /\ closed[t] = IF exits[t][e].filled THEN strayed[t] + 1 ELSE strayed[t]
      /\ StateInv(trips[t]) /\ EntryInv("toMatch", entry[t])
  <2>1. exits[t][e] # NoExit
    BY <1>1, OrdersAreTyped
  <2> QED BY <2>1, KnownExit
<1>4. PICK o \in ExitOrders :
        o = NoExit /\ exits' = [exits EXCEPT ![t] = [exits[t] EXCEPT ![e] = o]]
  BY OrdersAreTyped DEF DeliverExit
<1>5. /\ exits' \in [Trips -> [Slots -> ExitOrders]] /\ exits'[t][e] = NoExit
      /\ \A k \in Slots \ {e} : exits'[t][k] = exits[t][k]
      /\ \A k \in Trips \ {t} : exits'[k] = exits[k]
  BY <1>2, <1>4, ExitBecomes
<1>6. Empty(exits'[t])
  BY <1>3, <1>5 DEF Alone, Empty
<1>7. Exits(t, e)
  BY <1>3 DEF Exits, In
<1>8. SUFFICES ASSUME NEW r \in TripRows, trips' = [trips EXCEPT ![t] = r],
                      NEW l \in Nat, loose' = [loose EXCEPT ![t] = l],
                      NEW s \in Nat, strayed' = [strayed EXCEPT ![t] = s],
                      StateInv(r), EntryInv(r.in, entry[t]),
                      OrdersInv(r, exits'[t], l, closed[t], s)
               PROVE  IInv'
  <2> DEFINE done == [trips[t] EXCEPT !.in = "completed", !.old = FALSE]
             free == [trips[t] EXCEPT !.exit = 0]
  <2>0. /\ loose[t] \in Nat /\ strayed[t] \in Nat
        /\ loose = [loose EXCEPT ![t] = loose[t]]
        /\ strayed = [strayed EXCEPT ![t] = strayed[t]]
    BY <1>2 DEF Typed
  <2>1. done \in TripRows /\ done.in = "completed"
    BY <1>2 DEF TripRows, Containers
  <2>2. /\ free \in TripRows
        /\ free.in = "toMatch" /\ free.exit = 0 /\ free.state = trips[t].state
    BY <1>2, <1>3, RowsStayRows DEF TripRows
  <2>3. EntryInv("completed", entry[t])
    BY <1>3 DEF EntryInv
  <2>4. CASE /\ exits[t][e].filled
             /\ trips' = HandleMatchingOrderFilled(t)
             /\ UNCHANGED <<loose, strayed>>
    <3>1. trips' = [trips EXCEPT ![t] = done]
      BY <1>2, <2>4 DEF HandleMatchingOrderFilled, Typed, TripRows
    <3>2. loose' = [loose EXCEPT ![t] = loose[t]] /\ strayed' = [strayed EXCEPT ![t] = strayed[t]]
      BY <2>0, <2>4
    <3> HIDE DEF done
    <3>3. StateInv(done) /\ OrdersInv(done, exits'[t], loose[t], closed[t], strayed[t])
      BY <1>3, <1>6, <2>1, <2>4 DEF StateInv, OrdersInv
    <3> QED BY <1>8, <2>0, <2>1, <2>3, <3>1, <3>2, <3>3
  <2>5. CASE /\ trips' = HandleMatchingOrderCancelled(t) /\ exits[t][e].filled
             /\ strayed' = [strayed EXCEPT ![t] = @ + 1] /\ UNCHANGED loose
    <3>1. trips' = [trips EXCEPT ![t] = free]
      BY <2>5 DEF HandleMatchingOrderCancelled
    <3>2. /\ loose' = [loose EXCEPT ![t] = loose[t]]
          /\ strayed' = [strayed EXCEPT ![t] = strayed[t] + 1]
      BY <2>0, <2>5
    <3> HIDE DEF free
    <3>3. /\ StateInv(free) /\ strayed[t] + 1 \in Nat
          /\ OrdersInv(free, exits'[t], loose[t], closed[t], strayed[t] + 1)
      BY <1>3, <1>6, <2>0, <2>2, <2>5 DEF StateInv, OrdersInv
    <3> QED BY <1>3, <1>8, <2>0, <2>2, <3>1, <3>2, <3>3
  <2>6. CASE /\ trips' = HandleMatchingOrderCancelled(t) /\ ~ exits[t][e].filled
             /\ loose' = [loose EXCEPT ![t] = @ + 1] /\ UNCHANGED strayed
    <3>1. trips' = [trips EXCEPT ![t] = free]
      BY <2>6 DEF HandleMatchingOrderCancelled
    <3>2. /\ loose' = [loose EXCEPT ![t] = loose[t] + 1]
          /\ strayed' = [strayed EXCEPT ![t] = strayed[t]]
      BY <2>0, <2>6
    <3> HIDE DEF free
    <3>3. /\ StateInv(free) /\ loose[t] + 1 \in Nat
          /\ OrdersInv(free, exits'[t], loose[t] + 1, closed[t], strayed[t])
      BY <1>3, <1>6, <2>0, <2>2, <2>6 DEF StateInv, OrdersInv
    <3> QED BY <1>3, <1>8, <2>0, <2>2, <3>1, <3>2, <3>3
  <2> QED BY <1>7, <2>4, <2>5, <2>6 DEF DeliverExit
<1>9. /\ trips' \in [Trips -> TripRows] /\ trips'[t] = r
      /\ \A k \in Trips \ {t} : trips'[k] = trips[k]
  BY <1>2, <1>8, RowBecomes
<1>10. /\ loose' \in [Trips -> Nat] /\ loose'[t] = l
       /\ strayed' \in [Trips -> Nat] /\ strayed'[t] = s
       /\ \A k \in Trips \ {t} : loose'[k] = loose[k] /\ strayed'[k] = strayed[k]
  BY <1>2, <1>8 DEF Typed
<1>11. Typed' /\ Phases'
  BY <1>1, <1>2, <1>5, <1>9, <1>10 DEF IInv, Typed, Phases
<1>12. TripInv(t)'
  BY <1>1, <1>8, <1>9, <1>10 DEF TripInv, StateInv, EntryInv, OrdersInv, Empty, Alone
<1> QED BY <1>1, <1>5, <1>9, <1>10, <1>11, <1>12, OneTripSuffices

LEMMA OldestAreFilling ==
  \A n : \A k \in OldestWaiting(n) : k \in Trips /\ trips[k].in = "filling"
  BY DEF OldestWaiting, In

\* Entries that are cancelled: the rows of the trips of W, which are filling.
LEMMA CancellingRows ==
  ASSUME IInv, NEW W, \A t \in W : t \in Trips /\ trips[t].in = "filling"
  PROVE  /\ Cancelling(W) \in [Trips -> TripRows]
         /\ \A t \in Trips : /\ Cancelling(W)[t].in = trips[t].in
                             /\ Cancelling(W)[t].exit = trips[t].exit
                             /\ StateInv(Cancelling(W)[t])
<1>1. \A t \in Trips : trips[t] \in TripRows
  BY DEF IInv, Typed
<1>2. \A t \in Trips : [trips[t] EXCEPT !.state = "OpenCancelling"] \in TripRows
  BY <1>1, RowsStayRows DEF TripStates
<1>3. Cancelling(W) \in [Trips -> TripRows]
  BY <1>1, <1>2, Zenon DEF Cancelling
<1>4. ASSUME NEW t \in Trips
      PROVE  /\ Cancelling(W)[t].in = trips[t].in /\ Cancelling(W)[t].exit = trips[t].exit
             /\ StateInv(Cancelling(W)[t])
  <2>1. CASE t \in W
    <3>1. Cancelling(W)[t] = [trips[t] EXCEPT !.state = "OpenCancelling"]
      BY <2>1, Zenon DEF Cancelling
    <3>2. trips[t].in = "filling"
      BY <2>1
    <3>3. /\ Cancelling(W)[t].in = "filling" /\ Cancelling(W)[t].exit = trips[t].exit
          /\ Cancelling(W)[t].state = "OpenCancelling"
      BY <1>1, <3>1, <3>2 DEF TripRows
    <3> QED BY <3>2, <3>3 DEF StateInv
  <2>2. CASE t \notin W
    <3>1. Cancelling(W)[t] = trips[t]
      BY <2>2, Zenon DEF Cancelling
    <3> QED BY <3>1 DEF IInv, TripInv
  <2> QED BY <2>1, <2>2
<1> QED BY <1>3, <1>4

LEMMA EnterKeeps ==
  ASSUME IInv, NEW t \in Trips, Enter(t)
  PROVE  IInv'
<1> DEFINE C == Cancelling(OldestWaiting(Keep))
<1>1. PICK b \in Bases, s \in Stops, q \in Sizes :
        /\ trips' = [C EXCEPT ![t] = [trips[t] EXCEPT !.in = "filling", !.basis = b, !.stop = s]]
        /\ entry' = [entry EXCEPT ![t] = [NoEntry EXCEPT !.state = "working", !.quantity = q]]
  BY DEF Enter
<1>2. trips[t].in = "new" /\ UNCHANGED <<side, cac, exits, loose, closed, strayed>>
  BY DEF Enter
<1>3. /\ C \in [Trips -> TripRows]
      /\ \A k \in Trips : /\ C[k].in = trips[k].in /\ C[k].exit = trips[k].exit
                          /\ StateInv(C[k])
  BY OldestAreFilling, CancellingRows
<1> HIDE DEF C
<1> DEFINE r == [trips[t] EXCEPT !.in = "filling", !.basis = b, !.stop = s]
           o == [NoEntry EXCEPT !.state = "working", !.quantity = q]
<1>4. Typed /\ trips[t] \in TripRows
  BY DEF IInv, Typed
<1>5. r \in TripRows
  BY <1>4, RowsStayRows
<1>6. r.in = "filling" /\ r.exit = trips[t].exit /\ r.state = trips[t].state
  BY <1>4 DEF TripRows
<1>7. o \in EntryOrders /\ o.state = "working" /\ o.quantity # 0
  BY OutstandingAssumption DEF EntryOrders, NoEntry
<1> HIDE DEF r, o
<1>8. /\ trips' \in [Trips -> TripRows] /\ trips'[t] = r
      /\ \A k \in Trips \ {t} : trips'[k] = C[k]
  BY <1>1, <1>3, <1>5 DEF r
<1>9. /\ entry' \in [Trips -> EntryOrders] /\ entry'[t] = o
      /\ \A k \in Trips \ {t} : entry'[k] = entry[k]
  BY <1>1, <1>4, <1>7 DEF o, Typed
<1>10. Typed' /\ Phases'
  BY <1>2, <1>4, <1>8, <1>9 DEF IInv, Typed, Phases
<1>11. TripInv(t)'
  <2>1. /\ trips[t].exit = 0 /\ Empty(exits[t])
        /\ loose[t] = 0 /\ closed[t] = 0 /\ strayed[t] = 0
        /\ trips[t].state = "OpenWaitingFill"
    BY <1>2 DEF IInv, TripInv, StateInv, OrdersInv
  <2> QED BY <1>2, <1>6, <1>7, <1>8, <1>9, <2>1
          DEF TripInv, StateInv, EntryInv, OrdersInv, Empty
<1>12. ASSUME NEW k \in Trips, k # t
       PROVE  TripInv(k)'
  <2>1. /\ trips'[k].in = trips[k].in /\ trips'[k].exit = trips[k].exit
        /\ StateInv(trips'[k])
    BY <1>3, <1>8, <1>12
  <2>2. TripInv(k) /\ entry'[k] = entry[k]
    BY <1>9, <1>12 DEF IInv
  <2> QED BY <1>2, <2>1, <2>2 DEF TripInv, StateInv, EntryInv, OrdersInv, Empty, Alone
<1> QED BY <1>10, <1>11, <1>12 DEF IInv
-----------------------------------------------------------------------------
(* Quotes and the cancellation of everything.  *)

\* Exits are placed for trips without one, and cancelled for trips with one.
LEMMA ExitsAfterAre ==
  ASSUME IInv, NEW P, NEW placing, DOMAIN placing = P, NEW asking,
         P \subseteq In("toMatch") \ WithExits, asking \subseteq WithExits,
         \A t \in P : placing[t] \in {"Limit", "Market"},
         HasSlot(P)
  PROVE  /\ ExitsAfter(placing, asking) \in [Trips -> [Slots -> ExitOrders]]
         /\ \A t \in P : /\ Alone(ExitsAfter(placing, asking)[t], FreeSlot(t))
                        /\ ~ ExitsAfter(placing, asking)[t][FreeSlot(t)].filled
                        /\ closed[t] = strayed[t]
         /\ \A t \in asking :
              /\ Alone(ExitsAfter(placing, asking)[t], trips[t].exit)
              /\ ExitsAfter(placing, asking)[t][trips[t].exit].filled
                   = exits[t][trips[t].exit].filled
         /\ \A t \in Trips \ (P \cup asking) : ExitsAfter(placing, asking)[t] = exits[t]
<1>0. \A t \in Trips : exits[t] \in [Slots -> ExitOrders]
  BY DEF IInv, Typed
<1>1. P \subseteq Trips /\ asking \subseteq Trips
  BY DEF In, WithExits
<1>2. ASSUME NEW t \in P
      PROVE  /\ [exits[t] EXCEPT ![FreeSlot(t)] = Sent(placing[t])] \in [Slots -> ExitOrders]
             /\ Alone([exits[t] EXCEPT ![FreeSlot(t)] = Sent(placing[t])], FreeSlot(t))
             /\ [exits[t] EXCEPT ![FreeSlot(t)] = Sent(placing[t])][FreeSlot(t)].filled = FALSE
             /\ closed[t] = strayed[t]
  <2>1. trips[t].in = "toMatch" /\ trips[t].exit = 0
    BY DEF In, WithExits
  <2>2. Empty(exits[t]) /\ closed[t] = strayed[t]
    BY <1>1, <2>1, ExitsOfTrips
  <2>3. FreeSlot(t) \in Slots
    BY DEF HasSlot, FreeSlot
  <2> QED BY <1>0, <1>1, <2>2, <2>3, PlacedIsAlone
<1>3. ASSUME NEW t \in asking
      PROVE  /\ [exits[t] EXCEPT ![trips[t].exit].asked = TRUE] \in [Slots -> ExitOrders]
             /\ Alone([exits[t] EXCEPT ![trips[t].exit].asked = TRUE], trips[t].exit)
             /\ [exits[t] EXCEPT ![trips[t].exit].asked = TRUE][trips[t].exit].filled
                  = exits[t][trips[t].exit].filled
  <2>1. trips[t].in = "toMatch" /\ trips[t].exit # 0
    BY DEF In, WithExits
  <2>2. Alone(exits[t], trips[t].exit)
    BY <1>1, <2>1, ExitsOfTrips
  <2> QED BY <1>0, <1>1, <2>2, AskedIsAlone
<1>4. \A t \in Trips : ExitsAfter(placing, asking)[t] =
        IF t \in P THEN [exits[t] EXCEPT ![FreeSlot(t)] = Sent(placing[t])]
        ELSE IF t \in asking THEN [exits[t] EXCEPT ![trips[t].exit].asked = TRUE]
        ELSE exits[t]
  BY Zenon DEF ExitsAfter
<1>5. P \cap asking = {}
  OBVIOUS
<1>6. ExitsAfter(placing, asking) \in [Trips -> [Slots -> ExitOrders]]
  <2>1. ASSUME NEW t \in Trips
        PROVE  ExitsAfter(placing, asking)[t] \in [Slots -> ExitOrders]
    <3>1. CASE t \in P
      BY <1>2, <1>4, <3>1, Zenon
    <3>2. CASE t \notin P /\ t \in asking
      BY <1>3, <1>4, <3>2, Zenon
    <3>3. CASE t \notin P /\ t \notin asking
      BY <1>0, <1>4, <3>3, Zenon
    <3> QED BY <3>1, <3>2, <3>3
  <2>2. ExitsAfter(placing, asking) = [t \in Trips |-> ExitsAfter(placing, asking)[t]]
    BY Zenon DEF ExitsAfter
  <2> QED BY <2>1, <2>2, Zenon
<1>7. \A t \in P : /\ Alone(ExitsAfter(placing, asking)[t], FreeSlot(t))
                 /\ ~ ExitsAfter(placing, asking)[t][FreeSlot(t)].filled
                 /\ closed[t] = strayed[t]
  <2>1. \A t \in P : t \in Trips
    BY <1>1
  <2> QED BY <1>2, <1>4, <2>1, Zenon
<1>8. \A t \in asking :
        /\ Alone(ExitsAfter(placing, asking)[t], trips[t].exit)
        /\ ExitsAfter(placing, asking)[t][trips[t].exit].filled = exits[t][trips[t].exit].filled
  <2>1. \A t \in asking : t \in Trips /\ t \notin P
    BY <1>1, <1>5
  <2> QED BY <1>3, <1>4, <2>1, Zenon
<1>9. \A t \in Trips \ (P \cup asking) : ExitsAfter(placing, asking)[t] = exits[t]
  BY <1>4
<1> QED BY <1>6, <1>7, <1>8, <1>9

\* What such a change must do to the rows and the entries to keep IInv.
LEMMA SwitchingExitsKeeps ==
  ASSUME IInv, NEW P, NEW placing, DOMAIN placing = P, NEW asking,
         P \subseteq In("toMatch") \ WithExits, asking \subseteq WithExits,
         \A t \in P : placing[t] \in {"Limit", "Market"},
         HasSlot(P),
         exits' = ExitsAfter(placing, asking),
         Phases', UNCHANGED <<entry, loose, closed, strayed>>,
         trips' \in [Trips -> TripRows],
         \A t \in Trips : /\ trips'[t].in = trips[t].in
                          /\ trips'[t].exit = IF t \in P THEN FreeSlot(t) ELSE trips[t].exit
                          /\ StateInv(trips'[t])
  PROVE  IInv'
<1>1. /\ exits' \in [Trips -> [Slots -> ExitOrders]]
      /\ \A t \in P : /\ Alone(exits'[t], FreeSlot(t))
                     /\ ~ exits'[t][FreeSlot(t)].filled
                     /\ closed[t] = strayed[t]
      /\ \A t \in asking : /\ Alone(exits'[t], trips[t].exit)
                          /\ exits'[t][trips[t].exit].filled = exits[t][trips[t].exit].filled
      /\ \A t \in Trips \ (P \cup asking) : exits'[t] = exits[t]
  BY ExitsAfterAre
<1>2. Typed'
  BY <1>1 DEF IInv, Typed
<1>3. ASSUME NEW t \in Trips
      PROVE  OrdersInv(trips'[t], exits'[t], loose'[t], closed'[t], strayed'[t])
  <2>0. OrdersInv(trips[t], exits[t], loose[t], closed[t], strayed[t])
    BY DEF IInv, TripInv
  <2>1. CASE t \in P
    <3>1. trips[t].in = "toMatch"
      BY <2>1 DEF In
    <3> QED BY <1>1, <2>1, <3>1 DEF OrdersInv
  <2>2. CASE t \in asking
    <3>1. trips[t].in = "toMatch" /\ trips[t].exit # 0 /\ t \notin P
      BY <2>2 DEF In, WithExits
    <3>2. closed[t] = IF exits[t][trips[t].exit].filled THEN strayed[t] + 1 ELSE strayed[t]
      BY <3>1, ExitsOfTrips
    <3> QED BY <1>1, <2>2, <3>1, <3>2 DEF OrdersInv
  <2>3. CASE t \in Trips \ (P \cup asking)
    BY <1>1, <2>0, <2>3 DEF OrdersInv
  <2> QED BY <2>1, <2>2, <2>3
<1>4. \A t \in Trips : TripInv(t)'
  BY <1>3 DEF IInv, TripInv, StateInv, EntryInv, OrdersInv, Empty, Alone
<1> QED BY <1>2, <1>4 DEF IInv

\* Its special case: nothing is placed.
LEMMA AskingExitsKeeps ==
  ASSUME IInv, NEW asking, asking \subseteq WithExits,
         exits' = ExitsAfter(<<>>, asking),
         Phases', UNCHANGED <<entry, loose, closed, strayed>>,
         trips' \in [Trips -> TripRows],
         \A t \in Trips : /\ trips'[t].in = trips[t].in
                          /\ trips'[t].exit = trips[t].exit
                          /\ StateInv(trips'[t])
  PROVE  IInv'
<1>1. DOMAIN <<>> = {}
  OBVIOUS
<1>2. HasSlot({}) /\ {} \subseteq In("toMatch") \ WithExits
  BY DEF HasSlot
<1>3. \A t \in {} : <<>>[t] \in {"Limit", "Market"}
  OBVIOUS
<1> DEFINE placing == <<>>
<1> HIDE DEF placing
<1>4. /\ DOMAIN placing = {} /\ \A t \in {} : placing[t] \in {"Limit", "Market"}
      /\ exits' = ExitsAfter(placing, asking)
  BY <1>1, <1>3 DEF placing
<1>5. \A t \in Trips :
        trips'[t].exit = IF t \in {} THEN FreeSlot(t) ELSE trips[t].exit
  OBVIOUS
<1> QED BY <1>2, <1>4, <1>5, SwitchingExitsKeeps

LEMMA CancelAllMatchingKeeps ==
  ASSUME IInv, CancelAllMatchingOrders
  PROVE  IInv'
<1>1. /\ exits' = ExitsAfter(<<>>, WithExits)
      /\ UNCHANGED <<side, trips, cac, entry, loose, closed, strayed>>
  BY DEF CancelAllMatchingOrders
<1>2. Phases' /\ UNCHANGED <<entry, loose, closed, strayed>>
  BY <1>1 DEF IInv, Phases
<1>3. /\ trips' \in [Trips -> TripRows]
      /\ \A t \in Trips : /\ trips'[t].in = trips[t].in
                          /\ trips'[t].exit = trips[t].exit
                          /\ StateInv(trips'[t])
  BY <1>1 DEF IInv, Typed, TripInv
<1> QED BY <1>1, <1>2, <1>3, AskingExitsKeeps

LEMMA CancelAndCloseKeeps ==
  ASSUME IInv, CancelAndCloseAllOrders
  PROVE  IInv'
<1> DEFINE W == {t \in In("filling") : trips[t].state = "OpenWaitingFill"}
<1>1. /\ cac' = "WaitingForEntryCancels"
      /\ trips' = Cancelling(W)
      /\ exits' = ExitsAfter(<<>>, WithExits)
      /\ UNCHANGED <<side, entry, loose, closed, strayed>>
  BY DEF CancelAndCloseAllOrders
<1>2. \A t \in W : t \in Trips /\ trips[t].in = "filling"
  BY DEF In
<1> HIDE DEF W
<1>3. /\ trips' \in [Trips -> TripRows]
      /\ \A t \in Trips : /\ trips'[t].in = trips[t].in
                          /\ trips'[t].exit = trips[t].exit
                          /\ StateInv(trips'[t])
  BY <1>1, <1>2, CancellingRows
<1>4. Phases' /\ UNCHANGED <<entry, loose, closed, strayed>>
  BY <1>1 DEF IInv, Phases, CacStates
<1> QED BY <1>1, <1>3, <1>4, AskingExitsKeeps

\* The rows of trips whose exit is placed.
LEMMA PlacingRows ==
  ASSUME IInv, NEW t \in In("toMatch"), \E e \in Slots : exits[t][e] = NoExit
  PROVE  /\ WithExit(t) \in TripRows /\ Closing(t) \in TripRows
         /\ WithExit(t).in = trips[t].in /\ Closing(t).in = trips[t].in
         /\ WithExit(t).exit = FreeSlot(t) /\ Closing(t).exit = FreeSlot(t)
         /\ StateInv(WithExit(t)) /\ StateInv(Closing(t))
<1>1. /\ t \in Trips /\ trips[t] \in TripRows /\ trips[t].in = "toMatch"
      /\ trips[t].state \in {"Open", "Closing"}
  BY DEF IInv, Typed, TripInv, StateInv, In
<1>2. FreeSlot(t) \in Slots
  BY DEF FreeSlot
<1> DEFINE e == FreeSlot(t)
<1>3. e \in Slots \cup {0}
  BY <1>2
<1>4. WithExit(t) = [trips[t] EXCEPT !.exit = e]
  BY DEF WithExit
<1> HIDE DEF e
<1>5. /\ WithExit(t) \in TripRows
      /\ WithExit(t).in = "toMatch" /\ WithExit(t).exit = e
      /\ WithExit(t).state \in {"Open", "Closing"}
  <2> DEFINE w == [trips[t] EXCEPT !.exit = e]
  <2>1. w \in TripRows
    BY <1>1, <1>3, RowsStayRows
  <2>2. w.in = "toMatch" /\ w.exit = e /\ w.state = trips[t].state
    BY <1>1 DEF TripRows
  <2> QED BY <1>1, <1>4, <2>1, <2>2
<1>6. /\ Closing(t) \in TripRows
      /\ Closing(t).in = "toMatch" /\ Closing(t).exit = e
      /\ Closing(t).state = "Closing"
  <2> DEFINE w == WithExit(t)
  <2>1. Closing(t) = [w EXCEPT !.state = "Closing"]
    BY DEF Closing
  <2>2. w \in TripRows /\ w.in = "toMatch" /\ w.exit = e
    BY <1>5
  <2> HIDE DEF w
  <2>3. [w EXCEPT !.state = "Closing"] \in TripRows
    BY <2>2, RowsStayRows DEF TripStates
  <2>4. /\ [w EXCEPT !.state = "Closing"].in = "toMatch"
        /\ [w EXCEPT !.state = "Closing"].exit = e
        /\ [w EXCEPT !.state = "Closing"].state = "Closing"
    BY <2>2 DEF TripRows
  <2> QED BY <2>1, <2>3, <2>4
<1>7. StateInv(WithExit(t)) /\ StateInv(Closing(t))
  BY <1>5, <1>6 DEF StateInv
<1> QED BY <1>1, <1>5, <1>6, <1>7 DEF e

LEMMA CloseStepKeeps ==
  ASSUME IInv, CloseStep, UNCHANGED <<side, entry, loose, closed, strayed>>
  PROVE  IInv'
<1>1. ASSUME cac' \in CacStates, UNCHANGED <<trips, exits>>
      PROVE  IInv'
  <2>1. Typed' /\ Phases'
    BY <1>1 DEF IInv, Typed, Phases
  <2>2. \A t \in Trips : TripInv(t)'
    BY <1>1 DEF IInv, TripInv, StateInv, EntryInv, OrdersInv, Empty, Alone
  <2> QED BY <2>1, <2>2 DEF IInv
<1>2. CASE /\ ExitsGone /\ HasSlot(In("toMatch"))
           /\ cac' = "WaitingForMatchingCloses"
           /\ trips' = [t \in Trips |-> IF t \in In("toMatch") THEN Closing(t) ELSE trips[t]]
           /\ exits' = ExitsAfter([t \in In("toMatch") |-> "Market"], {})
  <2> DEFINE P == In("toMatch")
             placing == [t \in P |-> "Market"]
  <2>1. /\ DOMAIN placing = P
        /\ \A t \in P : placing[t] \in {"Limit", "Market"}
        /\ exits' = ExitsAfter(placing, {})
    BY <1>2
  <2>2. P \subseteq In("toMatch") \ WithExits /\ {} \subseteq WithExits /\ HasSlot(P)
    BY <1>2 DEF ExitsGone
  <2>3. \A t \in P : /\ Closing(t) \in TripRows
                     /\ Closing(t).in = trips[t].in /\ Closing(t).exit = FreeSlot(t)
                     /\ StateInv(Closing(t))
    BY <2>2, PlacingRows DEF HasSlot
  <2>4. trips' = [t \in Trips |-> IF t \in P THEN Closing(t) ELSE trips[t]]
    BY <1>2
  <2> HIDE DEF placing, P
  <2>5. \A t \in Trips : trips[t] \in TripRows /\ StateInv(trips[t])
    BY DEF IInv, Typed, TripInv
  <2>6. trips' \in [Trips -> TripRows]
    BY <2>3, <2>4, <2>5, Zenon
  <2>7. ASSUME NEW t \in Trips
        PROVE  /\ trips'[t].in = trips[t].in
               /\ trips'[t].exit = IF t \in P THEN FreeSlot(t) ELSE trips[t].exit
               /\ StateInv(trips'[t])
    <3>1. CASE t \in P
      <4>1. trips'[t] = Closing(t)
        BY <2>4, <3>1, Zenon
      <4> QED BY <2>3, <3>1, <4>1, Zenon
    <3>2. CASE t \notin P
      <4>1. trips'[t] = trips[t]
        BY <2>4, <3>2, Zenon
      <4> QED BY <2>5, <3>2, <4>1, Zenon
    <3> QED BY <3>1, <3>2
  <2>8. Phases' /\ UNCHANGED <<entry, loose, closed, strayed>>
    BY <1>2 DEF IInv, Phases, CacStates
  <2> QED BY <2>1, <2>2, <2>6, <2>7, <2>8, SwitchingExitsKeeps
<1> QED BY <1>1, <1>2 DEF CloseStep, IInv, Phases, CacStates

LEMMA TradeKeeps ==
  ASSUME IInv, NEW price, Trade(price),
         UNCHANGED <<side, cac, entry, loose, closed, strayed>>
  PROVE  IInv'
<1> DEFINE late == {t \in Trips : TimesOut(t)}
           closing == {t \in Trips : price # 0 /\ Closes(t, price)}
           taking == {t \in Trips : price # 0 /\ TakesProfit(t, price)}
           asking == {t \in Trips : price # 0 /\ CancelsExit(t, price)}
           P == closing \cup taking
           placing == [t \in P |-> IF t \in closing THEN "Market" ELSE "Limit"]
<1>1. /\ HasSlot(P)
      /\ trips' = [t \in Trips |->
           IF t \in closing THEN Closing(t)
           ELSE IF t \in taking THEN WithExit(t)
           ELSE Cancelling(late)[t]]
      /\ exits' = ExitsAfter(placing, asking)
  BY DEF Trade
<1>2. /\ DOMAIN placing = P
      /\ \A t \in P : placing[t] \in {"Limit", "Market"}
  OBVIOUS
<1>3. P \subseteq In("toMatch") \ WithExits /\ asking \subseteq WithExits
  BY DEF Closes, TakesProfit, CancelsExit
<1>4. \A t \in late : t \in Trips /\ trips[t].in = "filling"
  BY DEF TimesOut
<1>5. P = closing \cup taking
  OBVIOUS
<1> HIDE DEF placing, P, late, closing, taking, asking
<1>6. \A t \in P :
        /\ WithExit(t) \in TripRows /\ Closing(t) \in TripRows
        /\ WithExit(t).in = trips[t].in /\ Closing(t).in = trips[t].in
        /\ WithExit(t).exit = FreeSlot(t) /\ Closing(t).exit = FreeSlot(t)
        /\ StateInv(WithExit(t)) /\ StateInv(Closing(t))
  <2>1. \A t \in P : t \in In("toMatch") /\ \E e \in Slots : exits[t][e] = NoExit
    BY <1>1, <1>3 DEF HasSlot
  <2> QED BY <2>1, PlacingRows
<1>7. /\ Cancelling(late) \in [Trips -> TripRows]
      /\ \A t \in Trips : /\ Cancelling(late)[t].in = trips[t].in
                          /\ Cancelling(late)[t].exit = trips[t].exit
                          /\ StateInv(Cancelling(late)[t])
  BY <1>4, CancellingRows
<1>9. ASSUME NEW t \in Trips
      PROVE  /\ trips'[t] \in TripRows
             /\ trips'[t].in = trips[t].in
             /\ trips'[t].exit = IF t \in P THEN FreeSlot(t) ELSE trips[t].exit
             /\ StateInv(trips'[t])
  <2>1. CASE t \in closing
    <3>1. trips'[t] = Closing(t) /\ t \in P
      BY <1>1, <1>5, <2>1, Zenon
    <3> QED BY <1>6, <3>1, Zenon
  <2>2. CASE t \notin closing /\ t \in taking
    <3>1. trips'[t] = WithExit(t) /\ t \in P
      BY <1>1, <1>5, <2>2, Zenon
    <3> QED BY <1>6, <3>1, Zenon
  <2>3. CASE t \notin closing /\ t \notin taking
    <3>1. trips'[t] = Cancelling(late)[t] /\ t \notin P
      BY <1>1, <1>5, <2>3, Zenon
    <3>2. Cancelling(late)[t] \in TripRows
      BY <1>7
    <3> QED BY <1>7, <3>1, <3>2, Zenon
  <2> QED BY <2>1, <2>2, <2>3
<1>10. trips' \in [Trips -> TripRows]
  <2>1. trips' = [t \in Trips |-> trips'[t]]
    BY <1>1, Zenon
  <2> QED BY <1>9, <2>1, Zenon
<1>11. Phases' /\ UNCHANGED <<entry, loose, closed, strayed>>
  BY DEF IInv, Phases
<1> QED BY <1>1, <1>2, <1>3, <1>9, <1>10, <1>11, SwitchingExitsKeeps

LEMMA HandleQuoteKeeps ==
  ASSUME IInv, NEW price, HandleQuote(price)
  PROVE  IInv'
<1>1. CASE CancelAndCloseInProgress /\ CloseStep
  <2>1. CloseStep /\ UNCHANGED <<side, entry, loose, closed, strayed>>
    BY <1>1 DEF HandleQuote
  <2> QED BY <2>1, CloseStepKeeps
<1>2. CASE ~ CancelAndCloseInProgress /\ Trade(price) /\ UNCHANGED cac
  <2>1. Trade(price) /\ UNCHANGED <<side, cac, entry, loose, closed, strayed>>
    BY <1>2 DEF HandleQuote
  <2> QED BY <2>1, TradeKeeps
<1> QED BY <1>1, <1>2 DEF HandleQuote
-----------------------------------------------------------------------------
(* The theorems.  *)

LEMMA NextKeepsInv == IInv /\ [Next]_vars => IInv'
<1> SUFFICES ASSUME IInv, [Next]_vars PROVE IInv'
  OBVIOUS
<1>1. CASE \E t \in Trips :
             \/ Enter(t) \/ GetOld(t) \/ FillEntry(t) \/ EndEntry(t) \/ DeliverEntry(t)
             \/ FillLoose(t) \/ SettleLoose(t)
  BY <1>1, EnterKeeps, GetOldKeeps, FillEntryKeeps, EndEntryKeeps, DeliverEntryKeeps,
     FillLooseKeeps, SettleLooseKeeps
<1>2. CASE \E t \in Trips, e \in Slots :
             FillExit(t, e) \/ CancelExit(t, e) \/ DeliverExit(t, e)
  BY <1>2, FillExitKeeps, CancelExitKeeps, DeliverExitKeeps
<1>3. CASE \E price \in Prices : HandleQuote(price)
  BY <1>3, HandleQuoteKeeps
<1>4. CASE CancelAllMatchingOrders
  BY <1>4, CancelAllMatchingKeeps
<1>5. CASE CancelAndCloseAllOrders
  BY <1>5, CancelAndCloseKeeps
<1>6. CASE UNCHANGED vars
  <2>1. Typed' /\ Phases'
    BY <1>6 DEF vars, IInv, Typed, Phases
  <2>2. \A t \in Trips : TripInv(t)'
    BY <1>6 DEF vars, IInv, TripInv, StateInv, EntryInv, OrdersInv, Empty, Alone
  <2> QED BY <2>1, <2>2 DEF IInv
<1> QED BY <1>1, <1>2, <1>3, <1>4, <1>5, <1>6 DEF Next

LEMMA InvHolds == Spec => []IInv
  BY InitInv, NextKeepsInv, PTL DEF Spec

\* Every trip stays a trip, in a state that its container knows, through all
\* reports, quotes and cancellations.
THEOREM TypeCorrect == Spec => []TypeOK
<1>1. IInv => TypeOK
  BY DEF IInv, Phases, Typed, TripInv, StateInv, TypeOK, TripRows
<1> QED BY <1>1, InvHolds, PTL

\* A unit is never traded back twice but by an exit that was told cancelled:
\* exits that work and exits that filled are never more than the unit of the
\* entry and the exits that traded after all (HandleBaseOrderFilled, the
\* placing of exits in HandleQuote, HandleMatchingOrder...).
THEOREM NeverClosesTwice == Spec => []NeverOverclosed
<1>1. ASSUME IInv, NEW t \in Trips
      PROVE  closed[t] + Cardinality(Working(t)) <= Opened(t) + strayed[t]
  <2>0. /\ trips[t].in \in Containers /\ closed[t] \in Nat /\ strayed[t] \in Nat
        /\ EntryInv(trips[t].in, entry[t])
        /\ OrdersInv(trips[t], exits[t], loose[t], closed[t], strayed[t])
    BY <1>1 DEF IInv, Typed, TripRows, TripInv
  <2>1. CASE Empty(exits[t])
    <3>1. Working(t) = {}
      BY <2>1, OrdersAreTyped DEF Working, Empty
    <3>2. Cardinality(Working(t)) = 0
      BY <3>1, FS_EmptySet
    <3>3. CASE trips[t].in \in {"new", "filling", "dropped"}
      BY <2>0, <3>2, <3>3 DEF OrdersInv, Opened
    <3>4. CASE trips[t].in \in {"toMatch", "completed"}
      <4>1. Opened(t) = 1
        BY <2>0, <3>4 DEF EntryInv, Opened
      <4>2. closed[t] <= strayed[t] + 1
        <5>1. ~ Alone(exits[t], trips[t].exit)
          BY <2>1, OrdersAreTyped DEF Alone, Empty
        <5> QED BY <2>0, <3>4, <5>1 DEF OrdersInv
      <4> QED BY <2>0, <3>2, <4>1, <4>2
    <3> QED BY <2>0, <3>3, <3>4 DEF Containers
  <2>2. CASE ~ Empty(exits[t])
    <3> DEFINE e == trips[t].exit
    <3>1. /\ trips[t].in = "toMatch" /\ Alone(exits[t], e)
          /\ closed[t] = IF exits[t][e].filled THEN strayed[t] + 1 ELSE strayed[t]
      BY <2>0, <2>2 DEF OrdersInv, Containers
    <3>2. Working(t) = IF exits[t][e].filled THEN {} ELSE {e}
      BY <3>1, OrdersAreTyped DEF Working, Alone
    <3>3. Cardinality({e}) = 1 /\ Cardinality({}) = 0
      BY FS_Singleton, FS_EmptySet
    <3>4. Opened(t) = 1
      BY <2>0, <3>1 DEF EntryInv, Opened
    <3> HIDE DEF e
    <3>5. CASE exits[t][e].filled
      BY <2>0, <3>1, <3>2, <3>3, <3>4, <3>5
    <3>6. CASE ~ exits[t][e].filled
      BY <2>0, <3>1, <3>2, <3>3, <3>4, <3>6
    <3> QED BY <3>5, <3>6
  <2> QED BY <2>1, <2>2
<1>2. IInv => NeverOverclosed
  BY <1>1 DEF NeverOverclosed
<1> QED BY <1>2, InvHolds, PTL

\* What a forgotten trip holds is what the code gives up: the units beyond the
\* first, and what an entry trades that was told cancelled
\* (HandleBaseOrderFilled, HandleBaseOrderCancelled, HandleMatchingOrderFilled).
THEOREM ForgottenTripsGiveUp == Spec => []ForgottenIsGivenUp
<1>1. ASSUME IInv, NEW t \in Trips
      PROVE  /\ trips[t].in \in {"completed", "dropped"} => Working(t) = {}
             /\ trips[t].in = "completed" => Held(t) = entry[t].quantity - 1 - strayed[t]
             /\ trips[t].in = "dropped" =>
                  Held(t) = entry[t].filled /\ entry[t].state = "cancelled"
  <2>1. /\ EntryInv(trips[t].in, entry[t])
        /\ OrdersInv(trips[t], exits[t], loose[t], closed[t], strayed[t])
        /\ entry[t] \in EntryOrders /\ strayed[t] \in Nat
    BY <1>1 DEF IInv, TripInv, Typed
  <2>2. trips[t].in \in {"completed", "dropped"} => Working(t) = {}
    <3>1. trips[t].in \in {"completed", "dropped"} => Empty(exits[t])
      BY <2>1 DEF OrdersInv
    <3> QED BY <3>1, OrdersAreTyped DEF Working, Empty
  <2>3. entry[t].filled \in Nat /\ entry[t].quantity \in Nat
    <3>1. entry[t] \in EntryOrders
      BY <2>1
    <3>2. entry[t].filled \in Nat /\ entry[t].quantity \in Sizes \cup {0}
      BY <3>1 DEF EntryOrders
    <3>3. \A q \in Sizes \cup {0} : q \in Nat
      BY OutstandingAssumption
    <3> QED BY <3>2, <3>3
  <2>4. trips[t].in = "completed" => Held(t) = entry[t].quantity - 1 - strayed[t]
    BY <2>1, <2>3 DEF EntryInv, OrdersInv, Held
  <2>5. trips[t].in = "dropped" => Held(t) = entry[t].filled /\ entry[t].state = "cancelled"
    BY <2>1, <2>3 DEF EntryInv, OrdersInv, Held
  <2> QED BY <2>2, <2>4, <2>5
<1>2. IInv => ForgottenIsGivenUp
  BY <1>1 DEF ForgottenIsGivenUp
<1> QED BY <1>2, InvHolds, PTL
=============================================================================
