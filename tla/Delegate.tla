------------------------------- MODULE Delegate -------------------------------
(***************************************************************************)
(* ou::Delegate (lib/OUCommon/Delegate.h): the list of handlers through    *)
(* which orders, positions, watches and providers call each other.         *)
(*                                                                         *)
(* Any thread may dispatch (operator()), add and remove, and a handler may *)
(* do all of it again on the delegate that is calling it.  Changes are     *)
(* made in a master list under one spin lock and copied to the dispatched  *)
(* list, under another, when nobody dispatches; a dispatch that ends       *)
(* copies the changes that came during it.                                 *)
(*                                                                         *)
(* Steps are interleaved as if memory were sequentially consistent.  The   *)
(* lists are read and written under the lock or the count that protects    *)
(* them, so the steps between two accesses to the atomics are one action.  *)
(***************************************************************************)
EXTENDS Integers, Sequences, FiniteSets

Lists == INSTANCE SequencesExt

CONSTANTS Threads, Handlers,
          None,            \* The holder of a lock that is free
          MayThrow,        \* May a handler throw?
          MayDestroy,      \* May the delegate be destroyed?
          MaxHandlers,     \* Bound on the length of the list
          MaxDepth,        \* Bound on nested dispatches of a thread
          MaxChanges       \* Bound on the count of changes

ASSUME DelegateConstantsAssumption ==
  /\ IsFiniteSet(Threads) /\ None \notin Threads
  /\ MayThrow \in BOOLEAN /\ MayDestroy \in BOOLEAN
  /\ MaxHandlers \in Nat /\ MaxDepth \in Nat /\ MaxChanges \in Nat

VARIABLES master,          \* m_vDispatchMaster
          dispatch,        \* m_vDispatch
          running,         \* m_cntDispatchProcesses
          changes,         \* m_cntChanges
          updater,         \* Holder of m_spinlockVectorUpdate, or None
          replacer,        \* Holder of m_spinlockVectorReplace, or None
          pc,              \* Where each thread is
          stack,           \* Its iterators in dispatch, the innermost last
          life,            \* Of the delegate
          skipped          \* History, not in the code: nobody will come for
                           \* changes that are not copied

lists == <<master, dispatch>>
locks == <<updater, replacer>>
vars == <<master, dispatch, running, changes, updater, replacer, pc, stack, life, skipped>>

\* "user": outside of the delegate, or in a handler when the stack is not empty.
\* Then operator(): "wait", "next", "check", "lock"; Add and Remove: "want";
\* VectorReplace: "test", "guard", "recheck", "copy", "reset", "release"; and
\* "unlock".
Places == {"user", "wait", "next", "check", "lock", "want", "test", "guard",
           "recheck", "copy", "reset", "release", "unlock"}

TypeOK ==
  /\ master \in Seq(Handlers)
  /\ dispatch \in Seq(Handlers)
  /\ running \in Nat
  /\ changes \in Nat
  /\ updater \in Threads \cup {None}
  /\ replacer \in Threads \cup {None}
  /\ pc \in [Threads -> Places]
  /\ stack \in [Threads -> Seq(Nat \ {0})]
  /\ life \in {"alive", "ending", "ended"}
  /\ skipped \in BOOLEAN

Init ==
  /\ master = <<>> /\ dispatch = <<>>
  /\ running = 0 /\ changes = 0
  /\ updater = None /\ replacer = None
  /\ pc = [t \in Threads |-> "user"]
  /\ stack = [t \in Threads |-> <<>>]
  /\ life = "alive"
  /\ skipped = FALSE

Go(t, from, to) == pc[t] = from /\ pc' = [pc EXCEPT ![t] = to]

\* A call from outside of a delegate that is being destroyed is its caller's
\* fault; the handlers being called may still use it.
MayCall(t) == life = "alive" \/ (life = "ending" /\ stack[t] # <<>>)
-----------------------------------------------------------------------------
(* operator() *)

Enter(t) ==
  /\ Go(t, "user", "wait")
  /\ MayCall(t) /\ Len(stack[t]) < MaxDepth
  /\ running' = running + 1
  /\ stack' = [stack EXCEPT ![t] = Append(@, 1)]
  /\ UNCHANGED <<lists, changes, locks, life, skipped>>

\* The lock is taken and given back at once.  (Mutant: there is no wait.)
WaitNot(t) ==
  /\ Go(t, "wait", "next")
  /\ UNCHANGED <<lists, running, changes, locks, stack, life, skipped>>
Wait(t) ==
  /\ Go(t, "wait", "next")
  /\ replacer = None
  /\ UNCHANGED <<lists, running, changes, locks, stack, life, skipped>>

\* The handler under the iterator is called; it returns, or throws.
Call(t) ==
  /\ Go(t, "next", "user")
  /\ Lists!Last(stack[t]) <= Len(dispatch)
  /\ UNCHANGED <<lists, running, changes, locks, stack, life, skipped>>

Return(t) ==
  /\ Go(t, "user", "next")
  /\ stack[t] # <<>>
  /\ stack' = [stack EXCEPT ![t] = Append(Lists!Front(@), Lists!Last(@) + 1)]
  /\ UNCHANGED <<lists, running, changes, locks, life, skipped>>

\* The count is given back, and nothing else is done.  (Mutant: and given back
\* again by whoever catches the exception.)
ThrowTwice(t) ==
  /\ MayThrow
  /\ pc[t] = "user" /\ stack[t] # <<>>
  /\ running' = running - 2
  /\ stack' = [stack EXCEPT ![t] = Lists!Front(@)]
  /\ UNCHANGED <<lists, changes, locks, pc, life, skipped>>
Throw(t) ==
  /\ MayThrow
  /\ pc[t] = "user" /\ stack[t] # <<>>
  /\ running' = running - 1
  /\ stack' = [stack EXCEPT ![t] = Lists!Front(@)]
  /\ skipped' = (skipped \/ (running = 1 /\ changes # 0))
  /\ UNCHANGED <<lists, changes, locks, pc, life>>

Leave(t) ==
  /\ Go(t, "next", "check")
  /\ Lists!Last(stack[t]) > Len(dispatch)
  /\ running' = running - 1
  /\ stack' = [stack EXCEPT ![t] = Lists!Front(@)]
  /\ UNCHANGED <<lists, changes, locks, life, skipped>>

\* (Mutant: changes made during the dispatch are left.)
CheckNot(t) ==
  /\ Go(t, "check", "user")
  /\ UNCHANGED <<lists, running, changes, locks, stack, life, skipped>>
Check(t) ==
  /\ Go(t, "check", IF changes # 0 THEN "lock" ELSE "user")
  /\ UNCHANGED <<lists, running, changes, locks, stack, life, skipped>>

LockUpdate(t) ==
  /\ Go(t, "lock", "test")
  /\ updater = None /\ updater' = t
  /\ UNCHANGED <<lists, running, changes, replacer, stack, life, skipped>>
-----------------------------------------------------------------------------
(* Add and Remove: the update lock, the master list and the count *)

\* Which of them was called, and with which handler, is seen when the lock is
\* taken.  (The bound counts the calls under way.)
Ask(t) ==
  /\ Go(t, "user", "want")
  /\ MayCall(t)
  /\ changes + Cardinality({u \in Threads : pc[u] = "want"}) < MaxChanges
  /\ UNCHANGED <<lists, running, changes, locks, stack, life, skipped>>

Change(t, list) ==
  /\ Go(t, "want", "test")
  /\ updater = None /\ updater' = t
  /\ master' = list
  /\ changes' = changes + 1
  /\ UNCHANGED <<dispatch, running, replacer, stack, life, skipped>>

Add(t, h) == Len(master) < MaxHandlers /\ Change(t, Append(master, h))

\* Only the first entry of the handler, when there is one.
Remove(t, h) ==
  \/ (\A i \in DOMAIN master : master[i] # h) /\ Change(t, master)
  \/ \E i \in DOMAIN master :
       /\ master[i] = h /\ \A j \in 1 .. i - 1 : master[j] # h
       /\ Change(t, Lists!RemoveAt(master, i))
-----------------------------------------------------------------------------
(* VectorReplace, under the update lock, and the end of its callers *)

\* (Mutant: waits for the dispatches to end, with the lock.)
TestAgain(t) ==
  /\ Go(t, "test", IF running = 0 THEN "guard" ELSE "test")
  /\ UNCHANGED <<lists, running, changes, locks, stack, life, skipped>>
Test(t) ==
  /\ Go(t, "test", IF running = 0 THEN "guard" ELSE "unlock")
  /\ UNCHANGED <<lists, running, changes, locks, stack, life, skipped>>

LockReplace(t) ==
  /\ Go(t, "guard", "recheck")
  /\ replacer = None /\ replacer' = t
  /\ UNCHANGED <<lists, running, changes, updater, stack, life, skipped>>

\* (Mutant: a dispatch that began since the test is not looked for.)
RecheckNot(t) ==
  /\ Go(t, "recheck", "copy")
  /\ UNCHANGED <<lists, running, changes, locks, stack, life, skipped>>
Recheck(t) ==
  /\ Go(t, "recheck", IF running = 0 THEN "copy" ELSE "reset")
  /\ skipped' = (skipped \/ running # 0)
  /\ UNCHANGED <<lists, running, changes, locks, stack, life>>

Copy(t) ==
  /\ Go(t, "copy", "reset")
  /\ dispatch' = master /\ skipped' = FALSE
  /\ UNCHANGED <<master, running, changes, locks, stack, life>>

Reset(t) ==
  /\ Go(t, "reset", "release")
  /\ changes' = 0
  /\ UNCHANGED <<lists, running, locks, stack, life, skipped>>

UnlockReplace(t) ==
  /\ Go(t, "release", "unlock")
  /\ replacer' = None
  /\ UNCHANGED <<lists, running, changes, updater, stack, life, skipped>>

UnlockUpdate(t) ==
  /\ Go(t, "unlock", "user")
  /\ updater' = None
  /\ UNCHANGED <<lists, running, changes, replacer, stack, life, skipped>>
-----------------------------------------------------------------------------
(* ~Delegate: waits for the count, then clears the lists.  Nobody is adding or *)
(* removing at its start; a handler does not destroy the delegate that calls   *)
(* it, which would wait for itself.                                            *)

Destroy ==
  /\ MayDestroy /\ life = "alive" /\ life' = "ending"
  /\ \A t \in Threads : pc[t] \in {"user", "wait", "next"}
  /\ \E t \in Threads : stack[t] = <<>>
  /\ UNCHANGED <<lists, running, changes, locks, pc, stack, skipped>>

\* (Mutant: without waiting.)
DestroyNow ==
  /\ life = "ending" /\ life' = "ended"
  /\ master' = <<>> /\ dispatch' = <<>>
  /\ UNCHANGED <<running, changes, locks, pc, stack, skipped>>
Destroyed ==
  /\ life = "ending" /\ life' = "ended"
  /\ running = 0
  /\ master' = <<>> /\ dispatch' = <<>>
  /\ UNCHANGED <<running, changes, locks, pc, stack, skipped>>
-----------------------------------------------------------------------------
\* What the users of the delegate do, and what it does.
User(t) ==
  Enter(t) \/ Return(t) \/ Throw(t) \/ Ask(t)

Acquire(t) ==
  \/ Wait(t) \/ LockUpdate(t) \/ LockReplace(t)
  \/ \E h \in Handlers : Add(t, h) \/ Remove(t, h)

Work(t) ==
  \/ Acquire(t) \/ Call(t) \/ Leave(t) \/ Check(t)
  \/ Test(t) \/ Recheck(t) \/ Copy(t) \/ Reset(t)
  \/ UnlockReplace(t) \/ UnlockUpdate(t)

Next ==
  \/ \E t \in Threads : User(t) \/ Work(t)
  \/ Destroy \/ Destroyed

Spec == Init /\ [][Next]_vars
-----------------------------------------------------------------------------
(* Safety. *)

\* The iterators of a thread that are in use: all but one that waits to begin.
Iterating(t) == stack[t] # <<>> /\ (pc[t] = "wait" => Len(stack[t]) > 1)

\* The dispatched list is not copied over while a thread has an iterator in it:
\* "perform VectorReplace only outside of operator() method influence".
CopyExcludesDispatch ==
  \A t \in Threads : pc[t] = "copy" => \A u \in Threads : ~ Iterating(u)

\* Whoever is called was on the list when its dispatch began: no dispatch sees the
\* list change under it, nor the end of the delegate.
ListIsStable ==
  [][dispatch' # dispatch => \A t \in Threads : ~ Iterating(t)]_vars

\* No iterator outlives the lists.  (What operator() does after it has given its
\* count back may.)
EndedAfterDispatch == life = "ended" => \A t \in Threads : stack[t] = <<>>

\* When nobody uses the delegate, what is dispatched is what was added and not
\* removed: "update dispatch with queued changes".
Quiet == \A t \in Threads : pc[t] = "user" /\ stack[t] = <<>>
ChangesAreDispatched == Quiet => dispatch = master

\* Changes are lost in two ways only: a handler threw out of the last dispatch,
\* so that nobody looked at their count, or a copy met a dispatch that had begun
\* since its first test.  And not for good: the next copy brings them.
NothingElseIsLost == Quiet => dispatch = master \/ skipped
-----------------------------------------------------------------------------
(* Liveness: threads go on, and the exchange of a spin lock that is free again *)
(* and again succeeds in the end.                                              *)

Fairness ==
  \A t \in Threads : WF_vars(Work(t)) /\ SF_vars(Acquire(t))

FairSpec == Spec /\ Fairness

\* Whoever has come for a lock, to dispatch, to add, to remove or to copy, gets
\* it, whatever the others do.
Waiting(t) == pc[t] \in {"wait", "lock", "want", "guard"}
LocksAreObtained == \A t \in Threads : Waiting(t) ~> ~ Waiting(t)
=============================================================================
