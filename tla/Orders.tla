------------------------------- MODULE Orders -------------------------------
(***************************************************************************)
(* One order of lib/TFTrading/Order.cpp: its row and the transitions that  *)
(* OrderManager makes on it.  No state of its own: the modules that keep   *)
(* orders (OrderFlow, SimExecution) apply these operators to their rows.   *)
(*                                                                         *)
(* Prices, times, names and the average fill price are left out: nothing   *)
(* in Order decides anything from them.                                    *)
(***************************************************************************)
EXTENDS Integers

Sides == {"Buy", "Sell"}

\* The order statuses the code can assign (OrderStatus::EOrderStatus).
Statuses ==
  {"Created", "SendingToProvider", "PreSubmission", "Rejected", "Submitted",
   "Filling", "CancelSubmitted", "FillingDuringCancel", "Filled",
   "Cancelled", "CancelledWithPartialFill", "OverFilled"}

OrderRow ==
  [side : Sides, quan : Nat, remaining : Nat, filled : Nat,
   status : Statuses, commission : Int]

\* A constructed order: nothing filled, everything remaining.
NewOrder(side, quan) ==
  [side |-> side, quan |-> quan, remaining |-> quan, filled |-> 0,
   status |-> "Created", commission |-> 0]

\* The assertion of SetSendingToProvider: an order is sent only once.
MaySend(o) == o.status = "Created"

SetSendingToProvider(o) == [o EXCEPT !.status = "SendingToProvider"]

\* The assertion on the size of an execution: an order with nothing left
\* takes any size (it is an overfill), another one takes at most the rest.
ExecutionFits(o, size) == o.remaining = 0 \/ size <= o.remaining

\* Mutant: an overfilled order keeps the status it was just given.
StatusKeptOverFilled(o) == IF o.remaining = 0 THEN "OverFilled" ELSE "Filled"

\* Status when an execution leaves nothing remaining.  An overfilled order
\* was just given status OverFilled, for which the switch has only the
\* default branch.
StatusWhenComplete(o) ==
  IF o.remaining > 0 /\ o.status \in {"CancelSubmitted", "Cancelled"}
  THEN "CancelledWithPartialFill"
  ELSE "Filled"

\* Status when an execution leaves some quantity remaining.
StatusWhenPartial(o) ==
  CASE o.status \in {"SendingToProvider", "Submitted", "Filling", "PreSubmission"}
         -> "Filling"
    [] o.status \in {"Cancelled", "CancelSubmitted", "FillingDuringCancel",
                     "CancelledWithPartialFill"}
         -> "FillingDuringCancel"
    [] OTHER -> o.status

\* Mutant: an overfill is not counted.
ReportExecutionUpToQuantity(o, size) ==
  IF o.remaining = 0 THEN o
  ELSE [o EXCEPT !.remaining = @ - size, !.filled = @ + size,
                 !.status = IF o.remaining = size THEN "Filled" ELSE "Filling"]

\* Mutant: a cancelled order is not filled any more.
ReportExecutionUnlessCancelled(o, size) ==
  IF o.status = "Cancelled" THEN o
  ELSE [o EXCEPT !.remaining = @ - size, !.filled = @ + size]

ReportExecution(o, size) ==
  LET left == IF o.remaining = 0 THEN 0 ELSE o.remaining - size
  IN  [o EXCEPT !.remaining = left,
                !.filled = @ + size,
                !.status = IF left = 0 THEN StatusWhenComplete(o)
                                       ELSE StatusWhenPartial(o)]

\* Nothing is left to fill: the order moves from the open to the closed ones.
\* (Mutant: the first fill is enough.)
FilledOnce(o) == o.filled > 0
IsComplete(o) == o.remaining = 0

\* The provider gives the commission of the order so far; the position is
\* told the increment.
SetCommission(o, total) == [o EXCEPT !.commission = total]
\* (Mutant: the total is taken for an increment.)
TotalCommission(o, total) == total
IncrementalCommission(o, total) == total - o.commission

MarkAsCancelled(o) ==
  [o EXCEPT !.status =
     CASE o.status = "Created" -> "Cancelled"
       [] o.status \in {"SendingToProvider", "Submitted"}
            -> IF o.filled = 0 THEN "Cancelled" ELSE "CancelledWithPartialFill"
       [] o.status = "Filling" -> "CancelledWithPartialFill"
       [] o.status \in {"FillingDuringCancel", "Cancelled",
                        "CancelledWithPartialFill", "CancelSubmitted"}
            -> "Cancelled"
       [] OTHER -> o.status]
=============================================================================
