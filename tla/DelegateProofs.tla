---------------------------- MODULE DelegateProofs ----------------------------
(***************************************************************************)
(* Proofs about Delegate, for any threads and handlers, any nesting of     *)
(* dispatches, and with handlers that throw and a delegate that is         *)
(* destroyed or not.                                                       *)
(***************************************************************************)
EXTENDS Delegate, SharedLemmas, SequenceTheorems, TLAPS

\* The dispatches that threads are in, as units (see SharedLemmas).
Depths == [t \in Threads |-> [remaining |-> Len(stack[t])]]
Dispatches == Units(Threads, Depths)

\* m_cntDispatchProcesses counts them.
CountInv == IsFiniteSet(Dispatches) /\ running = Cardinality(Dispatches)

\* A thread that waits or iterates has an iterator, and whoever holds the lock
\* against dispatches is between taking it and giving it back.
PlaceInv ==
  \A t \in Threads :
    /\ pc[t] \in {"wait", "next"} => stack[t] # <<>>
    /\ pc[t] \in {"recheck", "copy", "reset", "release"} => replacer = t

IInv ==
  /\ TypeOK
  /\ CountInv
  /\ PlaceInv
  /\ CopyExcludesDispatch
  /\ EndedAfterDispatch
-----------------------------------------------------------------------------
(* The iterators of a thread. *)

\* One is added at the start.
LEMMA StackAppend ==
  ASSUME NEW s \in Seq(Nat \ {0})
  PROVE  /\ Append(s, 1) \in Seq(Nat \ {0})
         /\ Len(Append(s, 1)) = Len(s) + 1
         /\ Append(s, 1) # <<>>
OBVIOUS

\* The innermost one ends.
LEMMA StackFront ==
  ASSUME NEW s \in Seq(Nat \ {0}), s # <<>>
  PROVE  /\ Lists!Front(s) \in Seq(Nat \ {0})
         /\ Len(s) \in Nat \ {0}
         /\ Len(Lists!Front(s)) = Len(s) - 1
<1>1. Len(s) \in Nat \ {0}
  BY EmptySeq
<1>2. \A i \in 1 .. Len(s) : s[i] \in Nat \ {0}
  BY ElementOfSeq
<1>3. \A i \in 1 .. Len(s) - 1 : s[i] \in Nat \ {0}
  BY <1>1, <1>2
<1> DEFINE n == Len(s) - 1
<1>0. n \in Nat
  BY <1>1
<1> HIDE DEF n
<1>4. n \in Int /\ 1 \in Int /\ (IF 1 <= n THEN n - 1 + 1 ELSE 0) = n
  BY <1>0
<1>5. SubSeq(s, 1, n) \in Seq(Nat \ {0}) /\ Len(SubSeq(s, 1, n)) = IF 1 <= n THEN n - 1 + 1 ELSE 0
  BY <1>3, <1>4, SubSeqProperties DEF n
<1>6. Lists!Front(s) = SubSeq(s, 1, n)
  BY DEF Lists!Front, n
<1> QED BY <1>1, <1>4, <1>5, <1>6 DEF n

\* The innermost one moves on.
LEMMA StackReturn ==
  ASSUME NEW s \in Seq(Nat \ {0}), s # <<>>
  PROVE  LET r == Append(Lists!Front(s), Lists!Last(s) + 1)
         IN  r \in Seq(Nat \ {0}) /\ Len(r) = Len(s) /\ r # <<>>
<1>1. Len(s) \in Nat \ {0} /\ Lists!Front(s) \in Seq(Nat \ {0})
      /\ Len(Lists!Front(s)) = Len(s) - 1
  BY StackFront
<1>2. Lists!Last(s) \in Nat \ {0}
  BY <1>1, ElementOfSeq DEF Lists!Last
<1> DEFINE f == Lists!Front(s)
           l == Lists!Last(s) + 1
<1>3. l \in Nat \ {0} /\ f \in Seq(Nat \ {0}) /\ Len(f) = Len(s) - 1
  BY <1>1, <1>2
<1> HIDE DEF f, l
<1>4. Append(f, l) \in Seq(Nat \ {0}) /\ Len(Append(f, l)) = Len(f) + 1
      /\ Append(f, l) # <<>>
  BY <1>3
<1>5. Len(Append(f, l)) = Len(s)
  BY <1>1, <1>3, <1>4
<1> QED BY <1>4, <1>5 DEF f, l

\* One entry is removed from a list.
LEMMA RemoveAtType ==
  ASSUME NEW S, NEW s \in Seq(S), NEW i \in DOMAIN s
  PROVE  Lists!RemoveAt(s, i) \in Seq(S)
<1>1. Len(s) \in Nat /\ i \in 1 .. Len(s) /\ \A j \in 1 .. Len(s) : s[j] \in S
  BY LenProperties, ElementOfSeq
<1>2. SubSeq(s, 1, i - 1) \in Seq(S)
  <2>1. \A j \in 1 .. i - 1 : s[j] \in S
    BY <1>1
  <2> QED BY <1>1, <2>1, SubSeqProperties
<1>3. SubSeq(s, i + 1, Len(s)) \in Seq(S)
  <2>1. \A j \in i + 1 .. Len(s) : s[j] \in S
    BY <1>1
  <2> QED BY <1>1, <2>1, SubSeqProperties
<1> QED BY <1>2, <1>3, ConcatProperties DEF Lists!RemoveAt
-----------------------------------------------------------------------------
(* The parts of the invariant that a step does not touch, or touches in one  *)
(* thread only.                                                              *)

\* The iterators stay.
LEMMA SameCount ==
  ASSUME CountInv, running' = running, stack' = stack
  PROVE  CountInv'
BY DEF CountInv, Dispatches, Depths, Units

\* The iterators of one thread change in number, and so does the count.
LEMMA ChangedCount ==
  ASSUME TypeOK, CountInv, NEW t \in Threads, NEW s \in Seq(Nat \ {0}),
         stack' = [stack EXCEPT ![t] = s],
         running' = (running - Len(stack[t])) + Len(s)
  PROVE  CountInv' /\ running' \in Nat
<1> DEFINE D == Depths
           E == Depths'
           k == Len(stack[t])
           m == Len(s)
<1>1. k \in Nat /\ m \in Nat
  BY LenProperties DEF TypeOK
<1>2. D[t].remaining = k /\ E[t].remaining = m
  BY DEF Depths, TypeOK
<1>3. \A u \in Threads \ {t} : E[u].remaining = D[u].remaining
  BY DEF Depths, TypeOK
<1>4. IsFiniteSet(Units(Threads, D)) /\ running = Cardinality(Units(Threads, D))
  BY DEF CountInv, Dispatches
<1>5. Dispatches' = Units(Threads, E)
  BY DEF Dispatches, Units
<1>6. running' = (running - k) + m
  OBVIOUS
<1> HIDE DEF D, E, k, m
<1>7. /\ IsFiniteSet(Units(Threads, E))
      /\ Cardinality(Units(Threads, E)) = (Cardinality(Units(Threads, D)) - k) + m
  BY <1>1, <1>2, <1>3, <1>4, UnitsChanged
<1>8. Cardinality(Units(Threads, E)) \in Nat
  BY <1>7, FS_CardinalityType
<1> QED BY <1>4, <1>5, <1>6, <1>7, <1>8 DEF CountInv

\* When nobody is counted nobody has an iterator.
LEMMA NobodyDispatches ==
  ASSUME TypeOK, CountInv, running = 0
  PROVE  \A t \in Threads : stack[t] = <<>>
<1> SUFFICES ASSUME NEW t \in Threads, stack[t] # <<>>
             PROVE  FALSE
  OBVIOUS
<1>1. Len(stack[t]) \in Nat \ {0}
  BY StackFront DEF TypeOK
<1>2. <<t, 1>> \in Dispatches
  BY <1>1 DEF Dispatches, Units, Depths
<1>3. Dispatches = {}
  BY FS_EmptySet DEF CountInv
<1> QED BY <1>2, <1>3

\* The types and places after a step of one thread, which holds the replace lock
\* where it must.
LEMMA StepPlaces ==
  ASSUME PlaceInv, TypeOK, NEW t \in Threads, NEW p \in Places,
         pc' = [pc EXCEPT ![t] = p],
         \A u \in Threads \ {t} : stack'[u] = stack[u],
         p \in {"wait", "next"} => stack'[t] # <<>>,
         p \in {"recheck", "copy", "reset", "release"} => replacer' = t,
         \A u \in Threads \ {t} : replacer = u => replacer' = u
  PROVE  PlaceInv' /\ pc' \in [Threads -> Places]
BY DEF PlaceInv, TypeOK

\* No iterator begins while a thread copies.
LEMMA StepExcludes ==
  ASSUME CopyExcludesDispatch, TypeOK, NEW t \in Threads, NEW p \in Places,
         pc' = [pc EXCEPT ![t] = p], p # "copy",
         \A u \in Threads \ {t} : stack'[u] = stack[u],
         (\E u \in Threads : pc[u] = "copy") => (Iterating(t)' => Iterating(t))
  PROVE  CopyExcludesDispatch'
<1> SUFFICES ASSUME NEW u \in Threads, pc'[u] = "copy", NEW v \in Threads, Iterating(v)'
             PROVE  FALSE
  BY DEF CopyExcludesDispatch
<1>1. u # t /\ pc[u] = "copy"
  BY DEF TypeOK
<1>2. CASE v = t
  BY <1>1, <1>2 DEF CopyExcludesDispatch
<1>3. CASE v # t
  BY <1>1, <1>3 DEF CopyExcludesDispatch, Iterating, TypeOK
<1> QED BY <1>2, <1>3
-----------------------------------------------------------------------------
(* Steps. *)

\* A thread goes on with the iterators as they are.
\* Whether changes were skipped is known.
LEMMA SkippedIsTyped ==
  ASSUME TypeOK, Next
  PROVE  skipped' \in BOOLEAN
<1>1. \/ UNCHANGED skipped
      \/ \E t \in Threads : Throw(t) \/ Recheck(t) \/ Copy(t)
  BY DEF Next, User, Work, Acquire, Enter, Return, Ask, Wait, Call, Leave, Check, LockUpdate,
         Add, Remove, Change, Test, LockReplace, Reset, UnlockReplace, UnlockUpdate,
         Destroy, Destroyed
<1>2. CASE UNCHANGED skipped
  BY <1>2 DEF TypeOK
<1>3. CASE \E t \in Threads : Throw(t) \/ Recheck(t) \/ Copy(t)
  BY <1>3 DEF Throw, Recheck, Copy
<1> QED BY <1>1, <1>2, <1>3

LEMMA QuietStep ==
  ASSUME IInv, skipped' \in BOOLEAN, NEW t \in Threads, NEW p \in Places,
         pc' = [pc EXCEPT ![t] = p], p # "copy",
         running' = running, stack' = stack, life' = life,
         master' \in Seq(Handlers), dispatch' \in Seq(Handlers), changes' \in Nat,
         updater' \in Threads \cup {None}, replacer' \in Threads \cup {None},
         p \in {"wait", "next"} => stack[t] # <<>>,
         p \in {"recheck", "reset", "release"} => replacer' = t,
         \A u \in Threads \ {t} : replacer = u => replacer' = u,
         (\E u \in Threads : pc[u] = "copy") => (Iterating(t)' => Iterating(t))
  PROVE  IInv'
<1>1. PlaceInv' /\ pc' \in [Threads -> Places]
  BY StepPlaces DEF IInv
<1>2. CopyExcludesDispatch'
  BY StepExcludes DEF IInv
<1>3. CountInv'
  BY SameCount DEF IInv
<1>4. TypeOK'
  BY <1>1 DEF IInv, TypeOK
<1>5. EndedAfterDispatch'
  BY DEF IInv, EndedAfterDispatch
<1> QED BY <1>1, <1>2, <1>3, <1>4, <1>5 DEF IInv

\* A thread begins, moves or ends an iterator.
LEMMA StackStep ==
  ASSUME IInv, skipped' \in BOOLEAN, NEW t \in Threads, NEW p \in Places,
         pc' = [pc EXCEPT ![t] = p], p \notin {"recheck", "copy", "reset", "release"},
         NEW s \in Seq(Nat \ {0}), stack' = [stack EXCEPT ![t] = s],
         running' = (running - Len(stack[t])) + Len(s),
         UNCHANGED <<lists, changes, locks, life>>,
         p \in {"wait", "next"} => s # <<>>,
         life = "ended" => s = <<>>,
         (\E u \in Threads : pc[u] = "copy") => (Iterating(t)' => Iterating(t))
  PROVE  IInv'
<1>0. UNCHANGED <<master, dispatch, changes, updater, replacer, life>>
      /\ stack'[t] = s /\ \A u \in Threads \ {t} : stack'[u] = stack[u]
  BY DEF lists, locks, IInv, TypeOK
<1>1. PlaceInv' /\ pc' \in [Threads -> Places]
  BY <1>0, StepPlaces DEF IInv
<1>2. CopyExcludesDispatch'
  BY <1>0, StepExcludes DEF IInv
<1>3. CountInv' /\ running' \in Nat
  BY ChangedCount DEF IInv
<1>4. TypeOK'
  BY <1>0, <1>1, <1>3 DEF IInv, TypeOK
<1>5. EndedAfterDispatch'
  BY <1>0 DEF IInv, EndedAfterDispatch
<1> QED BY <1>1, <1>2, <1>3, <1>4, <1>5 DEF IInv

\* A thread in a handler, or about to call one, has an iterator that has begun.
LEMMA Iterates ==
  ASSUME NEW t \in Threads, stack[t] # <<>>, pc[t] # "wait"
  PROVE  Iterating(t)
BY DEF Iterating

LEMMA EnterStep ==
  ASSUME IInv, skipped' \in BOOLEAN, NEW t \in Threads, Enter(t)
  PROVE  IInv'
<1> DEFINE s == Append(stack[t], 1)
<1>1. stack[t] \in Seq(Nat \ {0}) /\ Len(stack[t]) \in Nat /\ running \in Nat
  BY LenProperties DEF IInv, TypeOK
<1>2. s \in Seq(Nat \ {0}) /\ Len(s) = Len(stack[t]) + 1 /\ s # <<>>
  BY <1>1, StackAppend
<1>3. /\ pc[t] = "user" /\ pc' = [pc EXCEPT ![t] = "wait"]
      /\ stack' = [stack EXCEPT ![t] = s]
      /\ running' = running + 1
      /\ UNCHANGED <<lists, changes, locks, life>>
      /\ life # "ended"
  BY DEF Enter, Go, MayCall
<1>4. stack'[t] = s /\ pc'[t] = "wait"
  BY <1>3 DEF IInv, TypeOK
<1> HIDE DEF s
<1>5. Iterating(t)' => Iterating(t)
  <2> SUFFICES ASSUME Iterating(t)' PROVE Iterating(t)
    OBVIOUS
  <2>1. Len(s) > 1
    BY <1>4 DEF Iterating
  <2>2. stack[t] # <<>>
    BY <1>1, <1>2, <2>1, EmptySeq
  <2> QED BY <1>3, <2>2, Iterates
<1>6. running' = (running - Len(stack[t])) + Len(s)
  <2>1. \A r, k \in Nat : r + 1 = (r - k) + (k + 1)
    OBVIOUS
  <2> QED BY <1>1, <1>2, <1>3, <2>1
<1>7. "wait" \in Places
  BY DEF Places
<1> QED BY <1>2, <1>3, <1>5, <1>6, <1>7, StackStep

LEMMA ReturnStep ==
  ASSUME IInv, skipped' \in BOOLEAN, NEW t \in Threads, Return(t)
  PROVE  IInv'
<1> DEFINE s == Append(Lists!Front(stack[t]), Lists!Last(stack[t]) + 1)
<1>1. stack[t] \in Seq(Nat \ {0}) /\ stack[t] # <<>> /\ running \in Nat
  BY DEF IInv, TypeOK, Return
<1>2. s \in Seq(Nat \ {0}) /\ Len(s) = Len(stack[t]) /\ s # <<>>
  BY <1>1, StackReturn
<1>3. /\ pc[t] = "user" /\ pc' = [pc EXCEPT ![t] = "next"]
      /\ stack' = [stack EXCEPT ![t] = s]
      /\ running' = running
      /\ UNCHANGED <<lists, changes, locks, life>>
  BY DEF Return, Go
<1> HIDE DEF s
<1>4. Iterating(t) /\ life # "ended"
  BY <1>1, <1>3, Iterates DEF IInv, EndedAfterDispatch
<1>5. running' = (running - Len(stack[t])) + Len(s)
  <2>1. Len(stack[t]) \in Nat
    BY <1>1, LenProperties
  <2> QED BY <1>1, <1>2, <1>3, <2>1
<1>6. "next" \in Places
  BY DEF Places
<1> QED BY <1>2, <1>3, <1>4, <1>5, <1>6, StackStep

\* The end of a dispatch, which returns or throws.
LEMMA EndStep ==
  ASSUME IInv, skipped' \in BOOLEAN, NEW t \in Threads, pc[t] \in {"user", "next"}, stack[t] # <<>>,
         NEW p \in {"user", "check"}, pc' = [pc EXCEPT ![t] = p],
         running' = running - 1,
         stack' = [stack EXCEPT ![t] = Lists!Front(@)],
         UNCHANGED <<lists, changes, locks, life>>
  PROVE  IInv'
<1> DEFINE s == Lists!Front(stack[t])
<1>1. stack[t] \in Seq(Nat \ {0}) /\ running \in Nat
  BY DEF IInv, TypeOK
<1>2. s \in Seq(Nat \ {0}) /\ Len(stack[t]) \in Nat \ {0} /\ Len(s) = Len(stack[t]) - 1
  BY <1>1, StackFront
<1>3. stack' = [stack EXCEPT ![t] = s]
  OBVIOUS
<1> HIDE DEF s
<1>4. Iterating(t) /\ life # "ended"
  BY Iterates DEF IInv, EndedAfterDispatch
<1>5. running' = (running - Len(stack[t])) + Len(s)
  BY <1>1, <1>2
<1>6. p \in Places
  BY DEF Places
<1> QED BY <1>2, <1>3, <1>4, <1>5, <1>6, StackStep

LEMMA ThrowStep ==
  ASSUME IInv, skipped' \in BOOLEAN, NEW t \in Threads, Throw(t)
  PROVE  IInv'
<1>1. pc' = [pc EXCEPT ![t] = "user"]
  BY DEF Throw, IInv, TypeOK
<1> QED BY <1>1, EndStep DEF Throw

LEMMA LeaveStep ==
  ASSUME IInv, skipped' \in BOOLEAN, NEW t \in Threads, Leave(t)
  PROVE  IInv'
<1>1. pc[t] = "next" /\ stack[t] # <<>>
  BY DEF Leave, Go, IInv, PlaceInv
<1> QED BY <1>1, EndStep DEF Leave, Go

\* The other steps of operator(), and of the locks.
LEMMA DispatchStep ==
  ASSUME IInv, skipped' \in BOOLEAN, NEW t \in Threads, Wait(t) \/ Call(t) \/ Check(t) \/ Ask(t)
  PROVE  IInv'
<1> DEFINE p == pc'[t]
<1>1. /\ pc' = [pc EXCEPT ![t] = p] /\ p \in {"next", "user", "lock", "want"}
      /\ running' = running /\ stack' = stack /\ life' = life
      /\ UNCHANGED <<master, dispatch, changes, updater, replacer>>
  BY DEF Wait, Call, Check, Ask, Go, lists, locks, IInv, TypeOK
<1>2. p = "next" => stack[t] # <<>> /\ replacer = None
  BY <1>1 DEF Wait, Call, Check, Ask, Go, IInv, PlaceInv, TypeOK
<1>3. ~ (p = "next") => pc[t] # "wait"
  BY <1>1 DEF Wait, Call, Check, Ask, Go, IInv, TypeOK
<1> HIDE DEF p
<1>4. (\E u \in Threads : pc[u] = "copy") => p # "next"
  BY <1>2, DelegateConstantsAssumption DEF IInv, PlaceInv
<1>5. (\E u \in Threads : pc[u] = "copy") => (Iterating(t)' => Iterating(t))
  BY <1>1, <1>3, <1>4 DEF Iterating
<1>6. p \in Places
  BY <1>1 DEF Places
<1>7. TypeOK
  BY DEF IInv
<1> QED BY <1>1, <1>2, <1>5, <1>6, <1>7, QuietStep DEF TypeOK

LEMMA ChangeStep ==
  ASSUME IInv, skipped' \in BOOLEAN, NEW t \in Threads, NEW list \in Seq(Handlers), Change(t, list)
  PROVE  IInv'
<1>1. /\ pc[t] = "want" /\ pc' = [pc EXCEPT ![t] = "test"]
      /\ running' = running /\ stack' = stack /\ life' = life
      /\ master' = list /\ dispatch' = dispatch /\ changes' = changes + 1
      /\ updater' = t /\ replacer' = replacer
  BY DEF Change, Go
<1>2. Iterating(t)' => Iterating(t)
  BY <1>1 DEF Iterating
<1>3. "test" \in Places
  BY DEF Places
<1>4. /\ master' \in Seq(Handlers) /\ dispatch' \in Seq(Handlers) /\ changes' \in Nat
      /\ updater' \in Threads \cup {None} /\ replacer' \in Threads \cup {None}
  BY <1>1 DEF IInv, TypeOK
<1>5. \A u \in Threads \ {t} : replacer = u => replacer' = u
  BY <1>1
<1> QED BY <1>1, <1>2, <1>3, <1>4, <1>5, QuietStep

LEMMA UserStep ==
  ASSUME IInv, skipped' \in BOOLEAN, NEW t \in Threads, User(t)
  PROVE  IInv'
BY EnterStep, ReturnStep, ThrowStep, DispatchStep DEF User

\* Add and Remove, when they have the lock.
LEMMA ListStep ==
  ASSUME IInv, skipped' \in BOOLEAN, NEW t \in Threads, NEW h \in Handlers, Add(t, h) \/ Remove(t, h)
  PROVE  IInv'
<1>0. master \in Seq(Handlers)
  BY DEF IInv, TypeOK
<1>1. CASE Add(t, h)
  <2>1. Append(master, h) \in Seq(Handlers)
    BY <1>0
  <2> QED BY <1>1, <2>1, ChangeStep DEF Add
<1>2. CASE Remove(t, h)
  <2>1. CASE Change(t, master)
    BY <1>0, <2>1, ChangeStep
  <2>2. ASSUME NEW i \in DOMAIN master, Change(t, Lists!RemoveAt(master, i)) PROVE IInv'
    <3>1. Lists!RemoveAt(master, i) \in Seq(Handlers)
      BY <1>0, RemoveAtType
    <3> QED BY <2>2, <3>1, ChangeStep
  <2> QED BY <1>2, <2>1, <2>2 DEF Remove
<1> QED BY <1>1, <1>2

\* The steps of VectorReplace and of the locks, but for the second test.
LEMMA ReplaceStep ==
  ASSUME IInv, skipped' \in BOOLEAN, NEW t \in Threads,
         \/ LockUpdate(t) \/ LockReplace(t) \/ Test(t) \/ Copy(t)
         \/ Reset(t) \/ UnlockReplace(t) \/ UnlockUpdate(t)
  PROVE  IInv'
<1> DEFINE p == pc'[t]
<1>0. TypeOK /\ PlaceInv
  BY DEF IInv
<1>1. /\ pc' = [pc EXCEPT ![t] = p] 
      /\ p \in {"test", "guard", "recheck", "reset", "release", "unlock", "user"}
      /\ pc[t] # "wait"
      /\ running' = running /\ stack' = stack /\ life' = life
  BY <1>0 DEF LockUpdate, LockReplace, Test, Copy, Reset, UnlockReplace, UnlockUpdate,
            Go, TypeOK
<1>2. /\ master' = master /\ (dispatch' = dispatch \/ dispatch' = master)
      /\ changes' \in {0, changes}
      /\ updater' \in {updater, t, None} /\ replacer' \in {replacer, t, None}
  BY DEF LockUpdate, LockReplace, Test, Copy, Reset, UnlockReplace, UnlockUpdate,
            lists, locks
<1>3. p \in {"recheck", "reset", "release"} => replacer' = t
  BY <1>0 DEF LockUpdate, LockReplace, Test, Copy, Reset, UnlockReplace, UnlockUpdate,
            Go, TypeOK, PlaceInv, locks
<1>4. replacer' = replacer \/ replacer \in {t, None}
  BY <1>0 DEF LockUpdate, LockReplace, Test, Copy, Reset, UnlockReplace, UnlockUpdate,
            Go, PlaceInv, locks
<1> HIDE DEF p
<1>5. \A u \in Threads \ {t} : replacer = u => replacer' = u
  BY <1>4, DelegateConstantsAssumption
<1>6. Iterating(t)' => Iterating(t)
  BY <1>1 DEF Iterating
<1>7. p \in Places
  BY <1>1 DEF Places
<1>8. /\ master' \in Seq(Handlers) /\ dispatch' \in Seq(Handlers) /\ changes' \in Nat
      /\ updater' \in Threads \cup {None} /\ replacer' \in Threads \cup {None}
  BY <1>0, <1>2 DEF TypeOK
<1> QED BY <1>1, <1>3, <1>5, <1>6, <1>7, <1>8, QuietStep

\* The second test: nobody is counted, so nobody has an iterator.
LEMMA RecheckStep ==
  ASSUME IInv, skipped' \in BOOLEAN, NEW t \in Threads, Recheck(t)
  PROVE  IInv'
<1>0. TypeOK /\ PlaceInv /\ CountInv
  BY DEF IInv
<1>1. /\ pc[t] = "recheck" /\ replacer = t
      /\ running' = running /\ stack' = stack /\ life' = life
      /\ UNCHANGED <<master, dispatch, changes, updater, replacer>>
  BY <1>0 DEF Recheck, Go, PlaceInv, lists, locks
<1>2. CASE running # 0
  <2>1. pc' = [pc EXCEPT ![t] = "reset"]
    BY <1>2 DEF Recheck, Go
  <2>2. Iterating(t)' => Iterating(t)
    BY <1>1 DEF Iterating
  <2>3. "reset" \in Places
    BY DEF Places
  <2> QED BY <1>0, <1>1, <2>1, <2>2, <2>3, QuietStep DEF TypeOK
<1>3. CASE running = 0
  <2>1. pc' = [pc EXCEPT ![t] = "copy"]
    BY <1>3 DEF Recheck, Go
  <2>2. "copy" \in Places
    BY DEF Places
  <2>3. PlaceInv' /\ pc' \in [Threads -> Places]
    BY <1>0, <1>1, <2>1, <2>2, StepPlaces
  <2>4. CopyExcludesDispatch'
    BY <1>0, <1>1, <1>3, NobodyDispatches DEF CopyExcludesDispatch, Iterating
  <2>5. CountInv'
    BY <1>0, <1>1, SameCount
  <2>6. TypeOK'
    BY <1>0, <1>1, <2>3 DEF TypeOK
  <2>7. EndedAfterDispatch'
    BY <1>1 DEF IInv, EndedAfterDispatch
  <2> QED BY <2>3, <2>4, <2>5, <2>6, <2>7 DEF IInv
<1> QED BY <1>2, <1>3

\* The destructor.
LEMMA DestroyStep ==
  ASSUME IInv, skipped' \in BOOLEAN, Destroy \/ Destroyed
  PROVE  IInv'
<1>0. TypeOK /\ PlaceInv /\ CountInv
  BY DEF IInv
<1>1. /\ running' = running /\ stack' = stack /\ pc' = pc
      /\ UNCHANGED <<changes, updater, replacer>>
      /\ master' \in {master, <<>>} /\ dispatch' \in {dispatch, <<>>}
      /\ life' \in {"ending", "ended"} /\ (life' = "ended" => running = 0)
  BY DEF Destroy, Destroyed, lists, locks
<1>2. TypeOK'
  BY <1>0, <1>1, EmptySeq DEF TypeOK
<1>3. CountInv'
  BY <1>0, <1>1, SameCount
<1>4. PlaceInv' /\ CopyExcludesDispatch'
  BY <1>1 DEF IInv, PlaceInv, CopyExcludesDispatch, Iterating
<1>5. EndedAfterDispatch'
  BY <1>0, <1>1, NobodyDispatches DEF EndedAfterDispatch
<1> QED BY <1>2, <1>3, <1>4, <1>5 DEF IInv

LEMMA InitInv == Init => IInv
<1> SUFFICES ASSUME Init PROVE IInv
  OBVIOUS
<1>1. TypeOK
  BY EmptySeq DEF Init, TypeOK, Places
<1>2. CountInv
  <2>1. Dispatches = {}
    BY DEF Init, Dispatches, Units, Depths
  <2> QED BY <2>1, FS_EmptySet DEF Init, CountInv
<1>3. PlaceInv /\ CopyExcludesDispatch /\ EndedAfterDispatch
  BY DEF Init, PlaceInv, CopyExcludesDispatch, EndedAfterDispatch
<1> QED BY <1>1, <1>2, <1>3 DEF IInv

LEMMA StepInv == IInv /\ [Next]_vars => IInv'
<1> SUFFICES ASSUME IInv, [Next]_vars PROVE IInv'
  OBVIOUS
<1>0. Next => skipped' \in BOOLEAN
  BY SkippedIsTyped DEF IInv
<1>1. ASSUME NEW t \in Threads, User(t) PROVE IInv'
  BY <1>0, <1>1, UserStep DEF Next
<1>2. ASSUME NEW t \in Threads, Work(t) PROVE IInv'
  BY <1>0, <1>2, DispatchStep, ListStep, LeaveStep, ReplaceStep, RecheckStep DEF Next, Work, Acquire
<1>3. CASE Destroy \/ Destroyed
  BY <1>0, <1>3, DestroyStep DEF Next
<1>4. CASE UNCHANGED vars
  <2>1. UNCHANGED <<master, dispatch, running, changes, updater, replacer, pc, stack, life, skipped>>
    BY <1>4 DEF vars, lists, locks
  <2>2. CountInv'
    BY <2>1, SameCount DEF IInv
  <2>3. TypeOK'
    BY <2>1 DEF IInv, TypeOK
  <2>4. PlaceInv' /\ CopyExcludesDispatch' /\ EndedAfterDispatch'
    BY <2>1 DEF IInv, PlaceInv, CopyExcludesDispatch, EndedAfterDispatch, Iterating
  <2> QED BY <2>2, <2>3, <2>4 DEF IInv
<1> QED BY <1>1, <1>2, <1>3, <1>4 DEF Next
-----------------------------------------------------------------------------
(* Theorems. *)

\* The inductive invariant: m_cntDispatchProcesses is the number of iterators in
\* use, whoever copies holds the lock against dispatches, and is alone.
THEOREM CountsIterators == Spec => []IInv
<1> QED BY InitInv, StepInv, PTL DEF Spec

\* Types of every variable; the count of dispatches never goes below zero, also
\* when handlers throw out of nested dispatches.
THEOREM TypeCorrect == Spec => []TypeOK
<1>1. IInv => TypeOK
  BY DEF IInv
<1> QED BY <1>1, CountsIterators, PTL

\* VectorReplace copies "only outside of operator() method influence".
THEOREM CopiesAlone == Spec => []CopyExcludesDispatch
<1>1. IInv => CopyExcludesDispatch
  BY DEF IInv
<1> QED BY <1>1, CountsIterators, PTL

\* The destructor clears the lists when no thread has an iterator, nor will
\* have one.  (That is all it waits for: a thread may still be in the part of
\* operator() that follows its count.)
THEOREM ListsOutliveIterators == Spec => []EndedAfterDispatch
<1>1. IInv => EndedAfterDispatch
  BY DEF IInv
<1> QED BY <1>1, CountsIterators, PTL

\* No step changes the dispatched list while a thread iterates over it.
THEOREM ListsAreStable == Spec => ListIsStable
<1> DEFINE Stable == dispatch' # dispatch => \A t \in Threads : ~ Iterating(t)
<1>1. IInv /\ [Next]_vars => [Stable]_vars
  <2> SUFFICES ASSUME IInv, Next, dispatch' # dispatch, NEW t \in Threads
               PROVE  ~ Iterating(t)
    BY DEF vars
  <2>1. CASE Destroyed
    BY <2>1, NobodyDispatches DEF Destroyed, IInv, Iterating
  <2>2. ASSUME NEW u \in Threads, Copy(u) PROVE ~ Iterating(t)
    BY <2>2 DEF Copy, Go, IInv, CopyExcludesDispatch
  <2>3. ~ Destroy /\ \A u \in Threads : ~ User(u)
    BY DEF Destroy, User, Enter, Return, Throw, Ask, lists
  <2>4. \A u \in Threads : Work(u) => Copy(u)
    BY DEF Work, Acquire, Wait, Add, Remove, Change, LockUpdate, LockReplace, Call, Leave, Check, Test,
           Recheck, Reset, UnlockReplace, UnlockUpdate, lists
  <2> QED BY <2>1, <2>2, <2>3, <2>4 DEF Next
<1> QED BY <1>1, CountsIterators, PTL DEF Spec, ListIsStable
-----------------------------------------------------------------------------
(* Changes that are not dispatched yet. *)

\* Whoever tests and copies holds the lock of the updates.
UpdateInv ==
  \A t \in Threads :
    pc[t] \in {"test", "guard", "recheck", "copy", "reset", "release", "unlock"} => updater = t

\* Somebody is in a dispatch, at whose end the count of changes is looked at, or
\* is on the way from there, or from a change, to the copy.
Coming ==
  running > 0
    \/ \E t \in Threads : pc[t] \in {"check", "lock", "test", "guard", "recheck", "copy"}

\* A change that is not dispatched is counted, and somebody comes for it, or it was
\* skipped; the count is reset when the list was copied, or the copy skipped.
ChangeInv ==
  /\ dispatch = master \/ skipped \/ (changes # 0 /\ Coming)
  /\ \A t \in Threads : pc[t] = "reset" => dispatch = master \/ skipped

LEMMA UpdateStep ==
  ASSUME UpdateInv, TypeOK, NEW t \in Threads, NEW p \in Places,
         pc' = [pc EXCEPT ![t] = p],
         p \in {"test", "guard", "recheck", "copy", "reset", "release", "unlock"} => updater' = t,
         updater' # updater => updater \in {None, t}
  PROVE  UpdateInv'
BY DelegateConstantsAssumption DEF UpdateInv, TypeOK

LEMMA UpdateKeeps ==
  ASSUME TypeOK, UpdateInv, [Next]_vars
  PROVE  UpdateInv'
<1>0. pc \in [Threads -> Places]
  BY DEF TypeOK
<1>1. ASSUME NEW t \in Threads, Enter(t) \/ Return(t) \/ Ask(t) \/ Wait(t) \/ Call(t) \/ Leave(t)
                                \/ Check(t)
      PROVE  UpdateInv'
  <2>1. UNCHANGED updater
    BY <1>1 DEF Enter, Return, Ask, Wait, Call, Leave, Check, locks
  <2>2. \E p \in {"wait", "next", "want", "user", "check", "lock"} : pc' = [pc EXCEPT ![t] = p]
    BY <1>1 DEF Enter, Return, Ask, Wait, Call, Leave, Check, Go
  <2> QED BY <2>1, <2>2, UpdateStep DEF Places
<1>2. ASSUME NEW t \in Threads, Throw(t)
      PROVE  UpdateInv'
  BY <1>2 DEF Throw, locks, UpdateInv
<1>3. ASSUME NEW t \in Threads, LockUpdate(t) \/ \E list : Change(t, list)
      PROVE  UpdateInv'
  <2>1. pc' = [pc EXCEPT ![t] = "test"] /\ updater = None /\ updater' = t
    BY <1>3 DEF LockUpdate, Change, Go
  <2> QED BY <2>1, UpdateStep DEF Places
<1>4. ASSUME NEW t \in Threads, Test(t) \/ LockReplace(t) \/ Recheck(t) \/ Copy(t) \/ Reset(t)
                                \/ UnlockReplace(t)
      PROVE  UpdateInv'
  <2>1. UNCHANGED updater
    BY <1>4 DEF Test, LockReplace, Recheck, Copy, Reset, UnlockReplace, locks
  <2>2. /\ pc[t] \in {"test", "guard", "recheck", "copy", "reset", "release"}
        /\ \E p \in {"guard", "recheck", "copy", "reset", "release", "unlock"} :
             pc' = [pc EXCEPT ![t] = p]
    BY <1>4 DEF Test, LockReplace, Recheck, Copy, Reset, UnlockReplace, Go
  <2>3. updater = t
    BY <2>2 DEF UpdateInv
  <2> QED BY <2>1, <2>2, <2>3, UpdateStep DEF Places
<1>5. ASSUME NEW t \in Threads, UnlockUpdate(t)
      PROVE  UpdateInv'
  <2>1. pc[t] = "unlock" /\ pc' = [pc EXCEPT ![t] = "user"] /\ updater' = None
    BY <1>5 DEF UnlockUpdate, Go
  <2>2. updater = t
    BY <2>1 DEF UpdateInv
  <2> QED BY <2>1, <2>2, UpdateStep DEF Places
<1>6. CASE UNCHANGED vars
  BY <1>6 DEF vars, locks, UpdateInv
<1>7. ASSUME NEW t \in Threads, User(t) \/ Work(t)
      PROVE  UpdateInv'
  BY <1>1, <1>2, <1>3, <1>4, <1>5, <1>7 DEF User, Work, Acquire, Add, Remove
<1>8. CASE Destroy \/ Destroyed
  BY <1>8 DEF Destroy, Destroyed, locks, UpdateInv
<1> QED BY <1>6, <1>7, <1>8 DEF Next

\* A thread goes on, and if somebody was coming for a change, somebody still is.
LEMMA OnTheWay ==
  ASSUME TypeOK, ChangeInv, NEW t \in Threads, NEW p \in Places,
         pc' = [pc EXCEPT ![t] = p], p # "reset",
         UNCHANGED <<master, dispatch, changes, skipped>>,
         running' \in Nat,
         \/ running' > 0
         \/ p \in {"check", "lock", "test", "guard", "recheck", "copy"}
         \/ /\ running' = running
            /\ changes = 0 \/ pc[t] \notin {"check", "lock", "test", "guard", "recheck", "copy"}
  PROVE  ChangeInv'
<1>1. pc'[t] = p /\ \A u \in Threads \ {t} : pc'[u] = pc[u]
  BY DEF TypeOK
<1>2. changes # 0 /\ Coming => Coming'
  BY <1>1 DEF Coming
<1> QED BY <1>1, <1>2 DEF ChangeInv

LEMMA UserKeepsChanges ==
  ASSUME IInv, ChangeInv, NEW t \in Threads, User(t), running' \in Nat
  PROVE  ChangeInv'
<1>0. running \in Nat /\ changes \in Nat /\ pc \in [Threads -> Places] /\ TypeOK
  BY DEF IInv, TypeOK
<1>1. CASE Enter(t)
  <2>1. /\ pc' = [pc EXCEPT ![t] = "wait"] /\ running' = running + 1
        /\ UNCHANGED <<master, dispatch, changes, skipped>>
    BY <1>1 DEF Enter, Go, lists
  <2>2. running' > 0
    BY <1>0, <2>1
  <2> QED BY <1>0, <2>1, <2>2, OnTheWay DEF Places
<1>2. CASE Return(t) \/ Ask(t)
  <2>1. /\ pc[t] = "user" /\ running' = running
        /\ pc' = [pc EXCEPT ![t] = "next"] \/ pc' = [pc EXCEPT ![t] = "want"]
        /\ UNCHANGED <<master, dispatch, changes, skipped>>
    BY <1>2 DEF Return, Ask, Go, lists
  <2> QED BY <1>0, <2>1, OnTheWay DEF Places
<1>3. CASE Throw(t)
  <2>1. /\ running' = running - 1 /\ skipped' = (skipped \/ (running = 1 /\ changes # 0))
        /\ UNCHANGED <<master, dispatch, changes, pc>>
    BY <1>3 DEF Throw, lists
  <2>2. running' = 0 \/ running' > 0
    BY <1>0, <2>1
  <2>3. CASE running' > 0
    BY <2>1, <2>3 DEF ChangeInv, Coming
  <2>4. CASE running' = 0
    <3>1. running = 1
      BY <1>0, <2>1, <2>4
    <3> QED BY <2>1, <3>1 DEF ChangeInv
  <2> QED BY <2>2, <2>3, <2>4
<1> QED BY <1>1, <1>2, <1>3 DEF User

LEMMA WorkKeepsChanges ==
  ASSUME IInv, UpdateInv, ChangeInv, NEW t \in Threads, Work(t), running' \in Nat
  PROVE  ChangeInv'
<1>0. running \in Nat /\ changes \in Nat /\ pc \in [Threads -> Places] /\ TypeOK
  BY DEF IInv, TypeOK
<1>1. CASE Wait(t) \/ Call(t) \/ UnlockReplace(t) \/ UnlockUpdate(t)
  <2>1. /\ pc[t] \in {"wait", "next", "release", "unlock"} /\ running' = running
        /\ UNCHANGED <<master, dispatch, changes, skipped>>
        /\ \E p \in {"next", "user", "unlock"} : pc' = [pc EXCEPT ![t] = p]
    BY <1>1 DEF Wait, Call, UnlockReplace, UnlockUpdate, Go, lists
  <2> QED BY <1>0, <2>1, OnTheWay DEF Places
<1>2. CASE LockUpdate(t) \/ LockReplace(t) \/ Leave(t)
  <2>1. /\ UNCHANGED <<master, dispatch, changes, skipped>>
        /\ \E p \in {"test", "recheck", "check"} : pc' = [pc EXCEPT ![t] = p]
    BY <1>2 DEF LockUpdate, LockReplace, Leave, Go, lists
  <2> QED BY <1>0, <2>1, OnTheWay DEF Places
<1>3. CASE Check(t)
  <2>1. /\ UNCHANGED <<master, dispatch, running, changes, skipped>>
        /\ pc' = [pc EXCEPT ![t] = IF changes # 0 THEN "lock" ELSE "user"]
    BY <1>3 DEF Check, Go, lists
  <2> QED BY <1>0, <2>1, OnTheWay DEF Places
<1>4. CASE Test(t)
  <2>1. /\ UNCHANGED <<master, dispatch, running, changes, skipped>>
        /\ pc' = [pc EXCEPT ![t] = IF running = 0 THEN "guard" ELSE "unlock"]
    BY <1>4 DEF Test, Go, lists
  <2>2. running' = 0 \/ running' > 0
    BY <1>0, <2>1
  <2> QED BY <1>0, <2>1, <2>2, OnTheWay DEF Places
<1>5. CASE Recheck(t)
  <2>1. /\ UNCHANGED <<master, dispatch, running, changes>>
        /\ skipped' = (skipped \/ running # 0)
        /\ pc' = [pc EXCEPT ![t] = IF running = 0 THEN "copy" ELSE "reset"]
    BY <1>5 DEF Recheck, Go, lists
  <2>2. CASE running = 0
    <3>1. skipped' <=> skipped
      BY <2>1, <2>2
    <3>2. pc'[t] = "copy" /\ \A u \in Threads \ {t} : pc'[u] = pc[u]
      BY <1>0, <2>1, <2>2
    <3>3. Coming'
      BY <3>2 DEF Coming
    <3> QED BY <2>1, <3>1, <3>2, <3>3 DEF ChangeInv
  <2>3. CASE running # 0
    BY <2>1, <2>3 DEF ChangeInv
  <2> QED BY <2>2, <2>3
<1>6. CASE Copy(t)
  <2>1. dispatch' = master'
    BY <1>6 DEF Copy
  <2> QED BY <2>1 DEF ChangeInv
<1>7. CASE Reset(t)
  <2>1. pc[t] = "reset" /\ UNCHANGED <<master, dispatch, skipped>>
    BY <1>7 DEF Reset, Go, lists
  <2>2. dispatch' = master' \/ skipped'
    BY <2>1 DEF ChangeInv
  <2> QED BY <2>2 DEF ChangeInv
<1>8. ASSUME NEW list, Change(t, list)
      PROVE  ChangeInv'
  <2>1. /\ pc' = [pc EXCEPT ![t] = "test"] /\ updater = None /\ changes' = changes + 1
    BY <1>8 DEF Change, Go
  <2>2. pc'[t] = "test" /\ \A u \in Threads \ {t} : pc'[u] = pc[u]
    BY <1>0, <2>1
  <2>3. changes' # 0 /\ Coming'
    BY <1>0, <2>1, <2>2 DEF Coming
  <2>4. \A u \in Threads : pc'[u] # "reset"
    BY <2>1, <2>2, DelegateConstantsAssumption DEF UpdateInv
  <2> QED BY <2>3, <2>4 DEF ChangeInv
<1> QED BY <1>1, <1>2, <1>3, <1>4, <1>5, <1>6, <1>7, <1>8 DEF Work, Acquire, Add, Remove

\* When nobody uses the delegate, what is dispatched is what was added and not
\* removed, for any threads, handlers that throw, and any nesting, but for changes
\* that a throw or a failed recheck has skipped.
THEOREM ChangesArrive == Spec => []NothingElseIsLost
<1>1. Init => UpdateInv /\ ChangeInv
  BY DEF Init, UpdateInv, ChangeInv
<1>2. IInv /\ IInv' /\ UpdateInv /\ ChangeInv /\ [Next]_vars => UpdateInv' /\ ChangeInv'
  <2> SUFFICES ASSUME IInv, IInv', UpdateInv, ChangeInv, [Next]_vars
               PROVE  UpdateInv' /\ ChangeInv'
    OBVIOUS
  <2>1. UpdateInv'
    BY UpdateKeeps DEF IInv
  <2>2. running' \in Nat
    BY DEF IInv, TypeOK
  <2>3. ASSUME NEW t \in Threads, User(t) \/ Work(t) PROVE ChangeInv'
    BY <2>2, <2>3, UserKeepsChanges, WorkKeepsChanges
  <2>4. CASE Destroy \/ UNCHANGED vars
    BY <2>1, <2>4 DEF Destroy, vars, lists, ChangeInv, Coming
  <2>5. CASE Destroyed
    BY <2>1, <2>5 DEF Destroyed, ChangeInv
  <2> QED BY <2>1, <2>3, <2>4, <2>5 DEF Next
<1>3. IInv /\ ChangeInv => NothingElseIsLost
  <2> SUFFICES ASSUME IInv, ChangeInv, Quiet PROVE ~ Coming
    BY DEF NothingElseIsLost, ChangeInv
  <2>1. \A t \in Threads : pc[t] = "user" /\ stack[t] = <<>>
    BY DEF Quiet
  <2>2. Dispatches = {}
    <3>1. \A t \in Threads : Len(stack[t]) = 0
      BY <2>1
    <3> QED BY <3>1 DEF Dispatches, Units, Depths
  <2>3. running = 0
    BY <2>2, FS_EmptySet DEF IInv, CountInv
  <2> QED BY <2>1, <2>3 DEF Coming
<1> QED BY <1>1, <1>2, <1>3, InitInv, CountsIterators, PTL DEF Spec
=============================================================================
