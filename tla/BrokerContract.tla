---------------------------- MODULE BrokerContract ----------------------------
(***************************************************************************)
(* What the program takes for granted of whoever executes its orders: each *)
(* order by itself is accepted once, executed piece by piece up to its     *)
(* quantity, and ended by its last execution or by a cancellation that was *)
(* asked for; nothing happens to it afterwards.                            *)
(*                                                                         *)
(* SimExecution implements this module.                                    *)
(***************************************************************************)
EXTENDS Integers

CONSTANT OrderIds          \* Identifiers of the orders

VARIABLES state,           \* [OrderIds -> {"none", "working", "filled", "cancelled"}]
          quan,            \* [OrderIds -> Nat], the quantity ordered
          done,            \* [OrderIds -> Nat], the quantity executed
          asked            \* [OrderIds -> BOOLEAN], a cancellation was asked for

bookOf(o) == <<state[o], quan[o], done[o], asked[o]>>

InitOf(o) == state[o] = "none" /\ quan[o] = 0 /\ done[o] = 0 /\ asked[o] = FALSE

Accept(o) ==
  /\ state[o] = "none" /\ state'[o] = "working"
  /\ quan'[o] \in Nat \ {0}
  /\ done'[o] = done[o] /\ asked'[o] = asked[o]

\* A request may come at any time, and may come again.
Ask(o) ==
  /\ state[o] # "none" /\ state'[o] = state[o]
  /\ asked'[o] = TRUE
  /\ done'[o] = done[o] /\ quan'[o] = quan[o]

Execute(o) ==
  /\ state[o] = "working"
  /\ done'[o] > done[o] /\ done'[o] <= quan[o]
  /\ state'[o] = IF done'[o] = quan[o] THEN "filled" ELSE "working"
  /\ quan'[o] = quan[o] /\ asked'[o] = asked[o]

Cancel(o) ==
  /\ state[o] = "working" /\ asked[o] /\ state'[o] = "cancelled"
  /\ done'[o] = done[o] /\ quan'[o] = quan[o] /\ asked'[o] = asked[o]

NextOf(o) == Accept(o) \/ Ask(o) \/ Execute(o) \/ Cancel(o)

\* The orders do not depend on each other, and several may move at once.
vars == <<state, quan, done, asked>>

Init == \A o \in OrderIds : InitOf(o)
Next == \A o \in OrderIds : NextOf(o) \/ UNCHANGED bookOf(o)

Spec == Init /\ [][Next]_vars
=============================================================================
