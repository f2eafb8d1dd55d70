--------------------------- MODULE MergeRunProofs ---------------------------
(***************************************************************************)
(* Proofs about MergeRun, for any number of series and any recordings.     *)
(***************************************************************************)
EXTENDS MergeRun, SharedLemmas, SequenceTheorems, TLAPS

\* The carriers that Merge has added and that hold a datum.
Holds(s) == s <= added /\ ~ Exhausted(s, next)

Typed ==
  /\ recorded \in [Series -> Recordings]
  /\ thread \in {"none", "adding", "rising", "merging", "sinking", "ended"}
  /\ added \in 0 .. SeriesCount
  /\ request \in {"Unknown", "Run", "Stop"}
  /\ state \in {"Init", "Running", "Stopped"}
  /\ heap \in Seq(Series)
  /\ active \in 0 .. Len(heap) /\ at \in 0 .. Len(heap)
  /\ next \in [Series -> Nat \ {0}]
  /\ \A s \in Series : next[s] <= Len(recorded[s]) + 1
  /\ clock \in Nat

\* No carrier is in the heap twice.
Distinct == \A i, j \in 1 .. Len(heap) : heap[i] = heap[j] => i = j

\* The active items are the carriers that hold a datum; only those that were
\* added are in the heap.
Content ==
  /\ \A i \in 1 .. Len(heap) : heap[i] <= added
  /\ \A i \in 1 .. active : ~ Exhausted(heap[i], next)
  /\ \A s \in Series : Holds(s) => \E i \in 1 .. active : heap[i] = s

\* Where Merge is.
Phase ==
  /\ thread \in {"none", "adding", "rising"} =>
       active = Len(heap) /\ state = "Init" /\ \A s \in Series : next[s] = 1
  /\ thread = "rising" => at \in 1 .. active
  /\ thread = "sinking" => at \in 1 .. active
  /\ thread \in {"merging", "sinking", "ended"} => added = SeriesCount
  /\ thread \in {"merging", "sinking"} => state = "Running"
  /\ state = "Stopped" => thread = "ended"
  /\ thread = "ended" => active = 0 \/ request # "Run"

\* A parent is not later than its child, but for the carrier that rises, or the
\* parent that sinks; then its own parent is not later than its children.
Ordered ==
  /\ \A i \in 2 .. active :
       ~ (thread = "rising" /\ i = at) /\ ~ (thread = "sinking" /\ Parent(i) = at) =>
         Time(Parent(i)) <= Time(i)
  /\ thread \in {"rising", "sinking"} /\ at > 1 =>
       \A i \in 2 .. active : Parent(i) = at => Time(Parent(at)) <= Time(i)

IInv == Typed /\ Distinct /\ Content /\ Phase /\ Ordered
-----------------------------------------------------------------------------
(* The heap as a tree, and what a swap does to it.  *)

LEMMA RecordingFacts ==
  ASSUME Typed, NEW s \in Series
  PROVE  /\ recorded[s] \in Seq(Nat \ {0}) /\ Len(recorded[s]) \in Nat
         /\ \A i \in 1 .. Len(recorded[s]) : recorded[s][i] \in Nat \ {0}
         /\ \A i, j \in 1 .. Len(recorded[s]) : i <= j => recorded[s][i] <= recorded[s][j]
         /\ next[s] \in Nat \ {0} /\ next[s] <= Len(recorded[s]) + 1
         /\ ~ Exhausted(s, next) => next[s] \in 1 .. Len(recorded[s])
<1>1. recorded[s] \in Recordings /\ next[s] \in Nat \ {0} /\ next[s] <= Len(recorded[s]) + 1
  BY DEF Typed
<1>2. recorded[s] \in Seq(Nat \ {0})
      /\ \A i, j \in DOMAIN recorded[s] : i <= j => recorded[s][i] <= recorded[s][j]
  BY <1>1, MergeAssumption
<1>3. Len(recorded[s]) \in Nat /\ DOMAIN recorded[s] = 1 .. Len(recorded[s])
      /\ \A i \in 1 .. Len(recorded[s]) : recorded[s][i] \in Nat \ {0}
  BY <1>2, LenProperties, ElementOfSeq
<1>4. ASSUME ~ Exhausted(s, next)
      PROVE  next[s] \in 1 .. Len(recorded[s])
  <2>1. ~ (next[s] > Len(recorded[s]))
    BY <1>4 DEF Exhausted
  <2> QED BY <1>1, <1>3, <2>1
<1> QED BY <1>1, <1>2, <1>3, <1>4

LEMMA HeapFacts ==
  ASSUME Typed
  PROVE  /\ Len(heap) \in Nat /\ active \in Nat /\ active <= Len(heap)
         /\ \A i \in 1 .. Len(heap) : heap[i] \in Series /\ Time(i) \in Nat
<1>1. Len(heap) \in Nat /\ \A i \in 1 .. Len(heap) : heap[i] \in Series
  BY LenProperties, ElementOfSeq DEF Typed
<1>2. active \in Nat /\ active <= Len(heap)
  BY <1>1 DEF Typed
<1>3. ASSUME NEW i \in 1 .. Len(heap)
      PROVE  Time(i) \in Nat
  BY <1>1, <1>3, RecordingFacts DEF Time
<1> QED BY <1>1, <1>2, <1>3

LEMMA Tree ==
  /\ \A i \in Nat : i >= 2 => Parent(i) \in 1 .. i - 1
  /\ \A i, k \in Nat : Parent(i) = k <=> i = Left(k) \/ i = Right(k)
  /\ \A k \in Nat : Left(k) \in Nat /\ Right(k) = Left(k) + 1
  /\ \A k \in Nat \ {0} : Left(k) > k
  BY DEF Parent, Left, Right

LEMMA SwapFacts ==
  ASSUME Typed, NEW i \in 1 .. Len(heap), NEW j \in 1 .. Len(heap)
  PROVE  /\ Swap(i, j) \in Seq(Series) /\ Len(Swap(i, j)) = Len(heap)
         /\ Swap(i, j)[i] = heap[j] /\ Swap(i, j)[j] = heap[i]
         /\ \A k \in 1 .. Len(heap) : k # i /\ k # j => Swap(i, j)[k] = heap[k]
<1>1. heap \in Seq(Series) /\ heap \in [1 .. Len(heap) -> Series] /\ Len(heap) \in Nat
  BY LenProperties DEF Typed
<1>2. Swap(i, j) \in [1 .. Len(heap) -> Series]
  BY <1>1 DEF Swap
<1>3. Swap(i, j) \in Seq(Series) /\ Len(Swap(i, j)) = Len(heap)
  BY <1>1, <1>2, SeqDef
<1> QED BY <1>1, <1>3 DEF Swap

\* A swap takes the times along, and no carrier comes or goes.
LEMMA SwapKeeps ==
  ASSUME Typed, Distinct, Content, NEW i \in 1 .. active, NEW j \in 1 .. active,
         heap' = Swap(i, j), UNCHANGED <<recorded, added, next, active>>
  PROVE  /\ heap' \in Seq(Series) /\ Len(heap') = Len(heap)
         /\ Distinct' /\ Content'
         /\ Time(i)' = Time(j) /\ Time(j)' = Time(i)
         /\ \A k \in 1 .. Len(heap) : k # i /\ k # j => Time(k)' = Time(k)
<1>1. i \in 1 .. Len(heap) /\ j \in 1 .. Len(heap) /\ Len(heap) \in Nat
      /\ active \in Nat /\ active <= Len(heap)
  BY HeapFacts
<1>2. /\ heap' \in Seq(Series) /\ Len(heap') = Len(heap)
      /\ heap'[i] = heap[j] /\ heap'[j] = heap[i]
      /\ \A k \in 1 .. Len(heap) : k # i /\ k # j => heap'[k] = heap[k]
  BY <1>1, SwapFacts
<1>3. Distinct'
  BY <1>1, <1>2 DEF Distinct
<1>4. Content'
  <2>1. \A k \in 1 .. Len(heap') : heap'[k] <= added'
    BY <1>1, <1>2 DEF Content
  <2>2. ASSUME NEW k \in 1 .. active'
        PROVE  ~ Exhausted(heap[k], next)'
    <3>1. heap'[k] = heap[i] \/ heap'[k] = heap[j] \/ heap'[k] = heap[k]
      BY <1>1, <1>2
    <3>2. ~ Exhausted(heap[i], next) /\ ~ Exhausted(heap[j], next) /\ ~ Exhausted(heap[k], next)
      BY DEF Content
    <3>3. ~ Exhausted(heap'[k], next)
      BY <3>1, <3>2
    <3> QED BY <3>3 DEF Exhausted
  <2>3. ASSUME NEW s \in Series, Holds(s)'
        PROVE  \E k \in 1 .. active' : heap'[k] = s
    <3>1. Holds(s)
      BY <2>3 DEF Holds, Exhausted
    <3>2. PICK k \in 1 .. active : heap[k] = s
      BY <3>1 DEF Content
    <3> QED BY <1>1, <1>2, <3>2
  <2> QED BY <2>1, <2>2, <2>3 DEF Content
<1>5. /\ Time(i)' = Time(j) /\ Time(j)' = Time(i)
      /\ \A k \in 1 .. Len(heap) : k # i /\ k # j => Time(k)' = Time(k)
  BY <1>1, <1>2 DEF Time, Exhausted
<1> QED BY <1>2, <1>3, <1>4, <1>5

\* In a heap that is in order the root is the earliest.
LEMMA RootIsEarliest ==
  ASSUME Typed, \A i \in 2 .. active : Time(Parent(i)) <= Time(i)
  PROVE  \A i \in 1 .. active : Time(1) <= Time(i)
<1> DEFINE late == {i \in 1 .. active : ~ (Time(1) <= Time(i))}
<1>1. active \in Nat /\ \A i \in 1 .. active : Time(i) \in Nat
  BY HeapFacts
<1>2. SUFFICES ASSUME late # {} PROVE FALSE
  OBVIOUS
<1>3. PICK m \in late : \A n \in late : m <= n
  <2>1. late \in SUBSET Nat
    BY <1>1
  <2> QED BY <1>2, <2>1, LeastOf
<1>4. m \in 2 .. active
  BY <1>1, <1>3
<1>5. Parent(m) \in 1 .. m - 1
  BY <1>1, <1>4, Tree
<1>6. Parent(m) \in 1 .. active /\ Parent(m) \notin late
  BY <1>1, <1>3, <1>4, <1>5
<1> QED BY <1>1, <1>3, <1>4, <1>6
-----------------------------------------------------------------------------
(* The steps.  *)

LEMMA InitInv == Init => IInv
<1> SUFFICES ASSUME Init PROVE IInv
  OBVIOUS
<1> USE DEF Init
<1>1. \A s \in Series : Len(recorded[s]) \in Nat
  <2>1. \A s \in Series : recorded[s] \in Seq(Nat \ {0})
    BY MergeAssumption
  <2> QED BY <2>1, LenProperties
<1>2. Typed
  <2>1. heap \in Seq(Series) /\ Len(heap) = 0
    BY EmptySeq
  <2>2. next \in [Series -> Nat \ {0}] /\ \A s \in Series : next[s] <= Len(recorded[s]) + 1
    BY <1>1
  <2>3. added \in 0 .. SeriesCount
    BY MergeAssumption
  <2> QED BY <2>1, <2>2, <2>3 DEF Typed
<1>3. Distinct /\ Content /\ Phase /\ Ordered
  <2>1. \A s \in Series : ~ Holds(s)
    BY DEF Holds, Series
  <2> QED BY <2>1, EmptySeq DEF Distinct, Content, Phase, Ordered
<1> QED BY <1>2, <1>3 DEF IInv

\* Steps that move no carrier.
LEMMA OwnerKeeps ==
  ASSUME IInv, Run \/ Stop \/ BeginRun \/ EndRun \/ UNCHANGED vars
  PROVE  IInv'
<1> USE DEF IInv
<1>1. UNCHANGED <<recorded, added, heap, active, at, next>>
      /\ clock' \in Nat
  BY DEF Typed, Run, Stop, BeginRun, EndRun, vars
<1>2. Typed'
  BY <1>1 DEF Typed, Run, Stop, BeginRun, EndRun, vars
<1>3. Distinct' /\ Content'
  BY <1>1 DEF Distinct, Content, Holds, Exhausted
<1>4. Phase'
  BY <1>1 DEF Phase, Run, Stop, BeginRun, EndRun, vars
<1>5. Ordered'
  <2>1. \A i : Time(i)' = Time(i)
    BY <1>1 DEF Time, Exhausted
  <2>2. thread' \in {"rising", "sinking"} <=> thread \in {"rising", "sinking"}
    BY DEF Run, Stop, BeginRun, EndRun, vars
  <2>3. thread \in {"rising", "sinking"} => thread' = thread
    BY DEF Run, Stop, BeginRun, EndRun, vars
  <2> QED BY <1>1, <2>1, <2>2, <2>3 DEF Ordered
<1> QED BY <1>2, <1>3, <1>4, <1>5

LEMMA AddKeeps ==
  ASSUME IInv, AddSeries
  PROVE  IInv'
<1> USE DEF IInv
<1> DEFINE new == added + 1
<1>1. /\ SeriesCount \in Nat /\ added \in Nat /\ new \in Series
      /\ thread = "adding" /\ active = Len(heap) /\ state = "Init"
      /\ \A s \in Series : next[s] = 1
      /\ Len(heap) \in Nat /\ heap \in Seq(Series)
      /\ added' = new /\ UNCHANGED <<recorded, request, state, next, clock>>
  BY MergeAssumption, HeapFacts DEF AddSeries, Typed, Phase, Series
<1>2. recorded[new] \in Seq(Nat \ {0}) /\ Len(recorded[new]) \in Nat
      /\ (recorded[new] = <<>> <=> Len(recorded[new]) = 0)
  BY <1>1, RecordingFacts, EmptySeq
<1>3. added' \in 0 .. SeriesCount
  BY <1>1 DEF Series
<1>4. \A i \in 1 .. Len(heap) : heap[i] <= added
  BY DEF Content
<1>5. CASE recorded[new] = <<>>
  <2>1. UNCHANGED <<thread, heap, active, at>>
    BY <1>5 DEF AddSeries
  <2>2. Typed'
    BY <1>1, <1>3, <2>1 DEF Typed
  <2>3. Distinct' /\ Phase'
    BY <1>1, <2>1 DEF Distinct, Phase
  <2>4. Content'
    <3>1. \A i \in 1 .. Len(heap') : heap'[i] <= added'
      <4>1. \A i \in 1 .. Len(heap) : heap[i] \in Nat
        BY HeapFacts DEF Series
      <4> QED BY <1>1, <1>4, <2>1, <4>1
    <3>2. ASSUME NEW s \in Series, Holds(s)'
          PROVE  Holds(s)
      <4>1. s <= added + 1 /\ ~ Exhausted(s, next)
        BY <1>1, <3>2 DEF Holds, Exhausted
      <4>2. Exhausted(new, next)
        BY <1>1, <1>2, <1>5 DEF Exhausted
      <4>3. s # new
        BY <4>1, <4>2
      <4>4. s \in Nat
        BY DEF Series
      <4> HIDE DEF new
      <4>5. s <= added
        BY <1>1, <4>1, <4>3, <4>4 DEF new
      <4> QED BY <4>1, <4>5 DEF Holds
    <3> QED BY <1>1, <2>1, <3>1, <3>2 DEF Content, Exhausted
  <2>5. Ordered'
    BY <1>1, <2>1 DEF Ordered, Time, Exhausted
  <2> QED BY <2>2, <2>3, <2>4, <2>5
<1>6. CASE recorded[new] # <<>>
  <2>1. /\ heap' = Append(heap, new) /\ active' = active + 1 /\ at' = active + 1
        /\ thread' = "rising"
    BY <1>6 DEF AddSeries
  <2>2. /\ heap' \in Seq(Series) /\ Len(heap') = Len(heap) + 1
        /\ \A i \in 1 .. Len(heap) : heap'[i] = heap[i]
        /\ heap'[Len(heap) + 1] = new
    BY <1>1, <2>1, AppendProperties
  <2>3. Typed'
    <3>1. active' \in 0 .. Len(heap') /\ at' \in 0 .. Len(heap')
      BY <1>1, <2>1, <2>2
    <3> QED BY <1>1, <1>3, <2>1, <2>2, <3>1 DEF Typed
  <2>4. \A i \in 1 .. Len(heap) : heap[i] \in Nat /\ heap[i] <= added
    BY <1>4, HeapFacts DEF Series
  <2>5. \A i \in 1 .. Len(heap') : i \in 1 .. Len(heap) \/ i = Len(heap) + 1
    BY <1>1, <2>2
  <2>6. Distinct'
    BY <1>1, <2>2, <2>4, <2>5 DEF Distinct
  <2>7. Content'
    <3>1. \A i \in 1 .. Len(heap') : heap'[i] <= added'
      BY <1>1, <2>2, <2>4, <2>5
    <3>2. ~ Exhausted(new, next)
      BY <1>1, <1>2, <1>6 DEF Exhausted
    <3>3. ASSUME NEW i \in 1 .. active'
          PROVE  ~ Exhausted(heap[i], next)'
      <4>1. (heap'[i] = heap[i] /\ i \in 1 .. active) \/ heap'[i] = new
        BY <1>1, <2>1, <2>2
      <4>2. ~ Exhausted(heap'[i], next)
        BY <3>2, <4>1 DEF Content
      <4> QED BY <1>1, <4>2 DEF Exhausted
    <3>4. ASSUME NEW s \in Series, Holds(s)'
          PROVE  \E i \in 1 .. active' : heap'[i] = s
      <4>1. s <= added + 1 /\ ~ Exhausted(s, next) /\ s \in Nat
        BY <1>1, <3>4 DEF Holds, Exhausted, Series
      <4>2. CASE s = new
        <5>1. Len(heap) + 1 \in 1 .. active'
          BY <1>1, <2>1
        <5> QED BY <2>2, <4>2, <5>1
      <4>3. CASE s # new
        <5>1. Holds(s)
          BY <1>1, <4>1, <4>3 DEF Holds
        <5>2. PICK i \in 1 .. active : heap[i] = s
          BY <5>1 DEF Content
        <5> QED BY <1>1, <2>1, <2>2, <5>2
      <4> QED BY <4>2, <4>3
    <3> QED BY <3>1, <3>3, <3>4 DEF Content
  <2>8. Phase'
    BY <1>1, <2>1, <2>2 DEF Phase
  <2>9. Ordered'
    <3>1. \A i \in 1 .. Len(heap) : Time(i)' = Time(i)
      BY <1>1, <2>2 DEF Time, Exhausted
    <3>2. \A i \in 2 .. active : Time(Parent(i)) <= Time(i)
      BY <1>1 DEF Ordered
    <3>3. ASSUME NEW i \in 2 .. active', i # at'
          PROVE  Time(Parent(i))' <= Time(i)'
      <4>1. i \in 2 .. active /\ Parent(i) \in 1 .. i - 1
        BY <1>1, <2>1, <3>3, Tree
      <4>2. i \in 1 .. Len(heap) /\ Parent(i) \in 1 .. Len(heap)
        BY <1>1, <4>1
      <4>3. Time(Parent(i))' = Time(Parent(i)) /\ Time(i)' = Time(i)
        BY <3>1, <4>2
      <4> QED BY <3>2, <4>1, <4>3
    <3>4. \A i \in 2 .. active' : Parent(i) # at'
      <4>1. \A i \in 2 .. active' : Parent(i) \in 1 .. i - 1
        BY <1>1, <2>1, Tree
      <4> QED BY <1>1, <2>1, <4>1
    <3> QED BY <2>1, <3>3, <3>4 DEF Ordered
  <2> QED BY <2>3, <2>6, <2>7, <2>8, <2>9
<1> QED BY <1>5, <1>6

LEMMA SiftUpKeeps ==
  ASSUME IInv, SiftUp
  PROVE  IInv'
<1> USE DEF IInv
<1>1. /\ thread = "rising" /\ at \in 1 .. active /\ active \in Nat
      /\ Len(heap) \in Nat /\ active = Len(heap) /\ state = "Init"
      /\ \A s \in Series : next[s] = 1
      /\ \A i \in 1 .. active : Time(i) \in Nat
      /\ UNCHANGED <<recorded, added, request, state, active, next, clock>>
  BY HeapFacts DEF SiftUp, Phase
<1>2. \A i \in 2 .. active : i # at => Time(Parent(i)) <= Time(i)
  BY <1>1 DEF Ordered
<1>3. at > 1 => \A i \in 2 .. active : Parent(i) = at => Time(Parent(at)) <= Time(i)
  BY <1>1 DEF Ordered
<1>4. \A i \in 2 .. active : Parent(i) \in 1 .. i - 1 /\ Parent(i) \in 1 .. active
  BY <1>1, Tree
<1>5. CASE at = 1 \/ Time(Parent(at)) < Time(at)
  <2>1. thread' = "adding" /\ at' = 0 /\ heap' = heap
    BY <1>5 DEF SiftUp
  <2>2. Typed'
    BY <1>1, <2>1 DEF Typed
  <2>3. Distinct' /\ Content' /\ Phase'
    BY <1>1, <2>1 DEF Distinct, Content, Holds, Exhausted, Phase
  <2>4. \A i : Time(i)' = Time(i)
    BY <1>1, <2>1 DEF Time, Exhausted
  <2>5. \A i \in 2 .. active : Time(Parent(i)) <= Time(i)
    BY <1>1, <1>2, <1>4, <1>5
  <2> QED BY <1>1, <2>1, <2>2, <2>3, <2>4, <2>5 DEF Ordered
<1>6. CASE ~ (at = 1 \/ Time(Parent(at)) < Time(at))
  <2>0. PICK k, up : k = at /\ up = Parent(at)
    OBVIOUS
  <2>1. at' = up /\ heap' = Swap(k, up) /\ thread' = "rising"
    BY <1>1, <1>6, <2>0 DEF SiftUp
  <2>2. k \in 2 .. active /\ up \in 1 .. active /\ up < k /\ up = Parent(k)
    BY <1>1, <1>4, <1>6, <2>0
  <2>3. /\ heap' \in Seq(Series) /\ Len(heap') = Len(heap)
        /\ Distinct' /\ Content'
        /\ Time(k)' = Time(up) /\ Time(up)' = Time(k)
        /\ \A i \in 1 .. Len(heap) : i # k /\ i # up => Time(i)' = Time(i)
    BY <1>1, <2>1, <2>2, SwapKeeps
  <2>4. Typed' /\ Phase'
    <3>1. active \in 0 .. Len(heap') /\ up \in 0 .. Len(heap')
      BY <1>1, <2>2, <2>3
    <3>2. Typed'
      BY <1>1, <2>1, <2>3, <3>1 DEF Typed
    <3>3. Phase'
      BY <1>1, <2>1, <2>2, <2>3 DEF Phase
    <3> QED BY <3>2, <3>3
  <2>5. Time(k) <= Time(up) /\ Time(k) \in Nat /\ Time(up) \in Nat
    BY <1>1, <1>6, <2>0, <2>2
  <2>6. ASSUME NEW i \in 2 .. active, i # up
        PROVE  Time(Parent(i))' <= Time(i)'
    <3>1. Parent(i) \in 1 .. active /\ Parent(i) < i /\ i \in 1 .. active
      BY <1>1, <1>4
    <3>2. CASE i = k
      BY <2>2, <2>3, <2>5, <3>2
    <3>3. CASE i # k /\ Parent(i) = up
      <4>1. Time(up) <= Time(i) /\ Time(i)' = Time(i) /\ Time(i) \in Nat
        BY <1>1, <1>2, <2>0, <2>3, <2>6, <3>1, <3>3
      <4> QED BY <2>3, <2>5, <3>3, <4>1
    <3>4. CASE Parent(i) = k
      <4>1. Time(up) <= Time(i) /\ Time(i)' = Time(i)
        BY <1>1, <1>3, <2>0, <2>2, <2>3, <2>6, <3>1, <3>4
      <4> QED BY <2>3, <3>4, <4>1
    <3>5. CASE i # k /\ Parent(i) # up /\ Parent(i) # k
      BY <1>1, <1>2, <2>0, <2>3, <2>6, <3>1, <3>5
    <3> QED BY <3>2, <3>3, <3>4, <3>5
  <2>7. ASSUME up > 1, NEW i \in 2 .. active, Parent(i) = up
        PROVE  Time(Parent(up))' <= Time(i)'
    <3>1. up \in 2 .. active /\ up # k
      BY <2>2, <2>7
    <3>2. Parent(up) \in 1 .. active /\ Parent(up) < up /\ Time(Parent(up)) <= Time(up)
      BY <1>2, <1>4, <2>0, <3>1
    <3>3. Time(Parent(up))' = Time(Parent(up))
      BY <1>1, <2>2, <2>3, <3>2
    <3>4. CASE i = k
      BY <2>3, <3>2, <3>3, <3>4
    <3>5. CASE i # k
      <4>1. i # up
        BY <2>2, <2>7, <3>2, <1>4
      <4>2. Time(up) <= Time(i) /\ Time(i)' = Time(i)
        BY <1>1, <1>2, <2>0, <2>3, <2>7, <3>5, <4>1
      <4>3. Time(Parent(up)) \in Nat /\ Time(i) \in Nat
        BY <1>1, <3>2
      <4> QED BY <2>5, <3>2, <3>3, <4>2, <4>3
    <3> QED BY <3>4, <3>5
  <2>8. Ordered'
    BY <1>1, <2>1, <2>6, <2>7 DEF Ordered
  <2> QED BY <2>3, <2>4, <2>8
<1> QED BY <1>5, <1>6

LEMMA SiftDownKeeps ==
  ASSUME IInv, SiftDown
  PROVE  IInv'
<1> USE DEF IInv
<1>0. PICK k : k = at
  OBVIOUS
<1>1. /\ thread = "sinking" /\ k \in 1 .. active /\ active \in Nat
      /\ Len(heap) \in Nat /\ active <= Len(heap)
      /\ \A i \in 1 .. active : Time(i) \in Nat
      /\ UNCHANGED <<recorded, added, request, state, active, next, clock>>
  BY <1>0, HeapFacts DEF SiftDown, Phase
<1>2. \A i \in 2 .. active : Parent(i) # k => Time(Parent(i)) <= Time(i)
  BY <1>0, <1>1 DEF Ordered
<1>3. k > 1 => \A i \in 2 .. active : Parent(i) = k => Time(Parent(k)) <= Time(i)
  BY <1>0, <1>1 DEF Ordered
<1>4. \A i \in 2 .. active : Parent(i) \in 1 .. i - 1 /\ Parent(i) \in 1 .. active
  <2>1. \A i \in 2 .. active : Parent(i) \in 1 .. i - 1
    <3>1. \A i \in 2 .. active : i \in Nat /\ i >= 2
      BY <1>1
    <3> QED BY <3>1, Tree
  <2> QED BY <1>1, <2>1
<1>5. /\ k \in Nat \ {0} /\ Left(k) \in Nat /\ Right(k) = Left(k) + 1 /\ Left(k) > k
      /\ \A i \in 2 .. active : (Parent(i) = k <=> i = Left(k) \/ i = Right(k))
  <2>1. k \in Nat \ {0} /\ \A i \in 2 .. active : i \in Nat
    BY <1>1
  <2> QED BY <2>1, Tree
<1>6. PICK c : c = Candidate(k)
  OBVIOUS
\* The candidate is the earlier child.
<1>7. ASSUME Left(k) <= active
      PROVE  /\ c \in 2 .. active /\ Parent(c) = k /\ c > k
             /\ \A i \in 2 .. active : Parent(i) = k => Time(c) <= Time(i)
  <2>1. CASE Left(k) = active
    <3>1. c = Left(k)
      BY <1>6, <2>1 DEF Candidate
    <3>2. c \in 2 .. active /\ c > k /\ Parent(c) = k
      BY <1>1, <1>5, <2>1, <3>1
    <3>3. \A i \in 2 .. active : Parent(i) = k => i = c
      BY <1>1, <1>5, <2>1, <3>1
    <3>4. Time(c) \in Nat
      BY <1>1, <3>2
    <3> QED BY <3>2, <3>3, <3>4
  <2>2. CASE Left(k) # active
    <3>1. Left(k) \in 2 .. active /\ Right(k) \in 2 .. active
      BY <1>1, <1>5, <1>7, <2>2
    <3>2. Time(Left(k)) \in Nat /\ Time(Right(k)) \in Nat
      BY <1>1, <3>1
    <3>3. CASE Time(Left(k)) < Time(Right(k))
      <4>1. c = Left(k)
        BY <1>6, <3>3 DEF Candidate
      <4>2. c \in 2 .. active /\ c > k /\ Parent(c) = k
        BY <1>1, <1>5, <3>1, <4>1
      <4>3. \A i \in 2 .. active : Parent(i) = k => i = Left(k) \/ i = Right(k)
        BY <1>5
      <4> QED BY <3>2, <3>3, <4>1, <4>2, <4>3
    <3>4. CASE ~ (Time(Left(k)) < Time(Right(k)))
      <4>1. c = Right(k)
        BY <1>6, <2>2, <3>4 DEF Candidate
      <4>2. c \in 2 .. active /\ c > k /\ Parent(c) = k
        BY <1>1, <1>5, <3>1, <4>1
      <4>3. \A i \in 2 .. active : Parent(i) = k => i = Left(k) \/ i = Right(k)
        BY <1>5
      <4> QED BY <3>2, <3>4, <4>1, <4>2, <4>3
    <3> QED BY <3>3, <3>4
  <2> QED BY <2>1, <2>2
<1>8. CASE ~ (Left(k) <= active /\ Time(c) < Time(k))
  <2>1. thread' = "merging" /\ at' = 0 /\ heap' = heap
    BY <1>0, <1>6, <1>8 DEF SiftDown
  <2>2. Typed'
    BY <1>1, <2>1 DEF Typed
  <2>3. Distinct' /\ Content' /\ Phase'
    BY <1>1, <2>1 DEF Distinct, Content, Holds, Exhausted, Phase
  <2>4. \A i : Time(i)' = Time(i)
    BY <1>1, <2>1 DEF Time, Exhausted
  <2>5. ASSUME NEW i \in 2 .. active
        PROVE  Time(Parent(i)) <= Time(i)
    <3>1. CASE Parent(i) = k
      <4>1. Left(k) <= active
        <5>1. i = Left(k) \/ i = Left(k) + 1
          BY <1>5, <3>1
        <5> QED BY <1>1, <1>5, <5>1
      <4>2. ~ (Time(c) < Time(k)) /\ Time(c) <= Time(i)
        BY <1>7, <1>8, <3>1, <4>1
      <4>3. Time(c) \in Nat /\ Time(k) \in Nat /\ Time(i) \in Nat
        BY <1>1, <1>7, <4>1
      <4> QED BY <3>1, <4>2, <4>3
    <3>2. CASE Parent(i) # k
      BY <1>2, <3>2
    <3> QED BY <3>1, <3>2
  <2> QED BY <1>1, <2>1, <2>2, <2>3, <2>4, <2>5 DEF Ordered
<1>9. CASE Left(k) <= active /\ Time(c) < Time(k)
  <2>1. at' = c /\ heap' = Swap(k, c) /\ thread' = "sinking"
    BY <1>0, <1>1, <1>6, <1>9 DEF SiftDown
  <2>2. /\ c \in 2 .. active /\ Parent(c) = k /\ c > k /\ c \in 1 .. active
        /\ \A i \in 2 .. active : Parent(i) = k => Time(c) <= Time(i)
        /\ Time(c) \in Nat /\ Time(k) \in Nat
    BY <1>1, <1>7, <1>9
  <2>3. /\ heap' \in Seq(Series) /\ Len(heap') = Len(heap)
        /\ Distinct' /\ Content'
        /\ Time(k)' = Time(c) /\ Time(c)' = Time(k)
        /\ \A i \in 1 .. Len(heap) : i # k /\ i # c => Time(i)' = Time(i)
    BY <1>1, <2>1, <2>2, SwapKeeps
  <2>4. Typed' /\ Phase'
    <3>1. active \in 0 .. Len(heap') /\ c \in 0 .. Len(heap')
      BY <1>1, <2>2, <2>3
    <3>2. Typed'
      BY <1>1, <2>1, <2>3, <3>1 DEF Typed
    <3>3. Phase'
      BY <1>1, <2>1, <2>2, <2>3 DEF Phase
    <3> QED BY <3>2, <3>3
  <2>5. ASSUME NEW i \in 2 .. active, Parent(i) # c
        PROVE  Time(Parent(i))' <= Time(i)'
    <3>1. Parent(i) \in 1 .. active /\ Parent(i) < i /\ i \in 1 .. active
      BY <1>1, <1>4
    <3>2. CASE i = c
      BY <1>9, <2>2, <2>3, <3>2
    <3>3. CASE i # c /\ Parent(i) = k
      <4>1. Time(c) <= Time(i) /\ Time(i)' = Time(i)
        BY <1>1, <2>2, <2>3, <3>1, <3>3
      <4> QED BY <2>3, <3>3, <4>1
    <3>4. CASE i = k
      <4>1. Time(Parent(k)) <= Time(c) /\ Parent(k) # k
        BY <1>1, <1>3, <2>2, <3>1, <3>4
      <4>2. Time(Parent(k))' = Time(Parent(k))
        BY <1>1, <2>3, <2>5, <3>1, <3>4, <4>1
      <4> QED BY <2>3, <3>4, <4>1, <4>2
    <3>5. CASE i # c /\ i # k /\ Parent(i) # k
      <4>1. Time(Parent(i))' = Time(Parent(i)) /\ Time(i)' = Time(i)
        BY <1>1, <2>3, <2>5, <3>1, <3>5
      <4> QED BY <1>2, <3>5, <4>1
    <3> QED BY <3>2, <3>3, <3>4, <3>5
  <2>6. ASSUME NEW i \in 2 .. active, Parent(i) = c
        PROVE  Time(Parent(c))' <= Time(i)'
    <3>1. i # c /\ i # k /\ c # k /\ i \in 1 .. active
      BY <1>1, <1>4, <2>2, <2>6
    <3>2. Time(c) <= Time(i) /\ Time(i)' = Time(i)
      BY <1>1, <1>2, <2>3, <2>6, <3>1
    <3> QED BY <2>2, <2>3, <3>2
  <2>7. Ordered'
    BY <1>1, <2>1, <2>5, <2>6 DEF Ordered
  <2> QED BY <2>3, <2>4, <2>7
<1> QED BY <1>8, <1>9

\* What a turn of the merge does to the series.
LEMMA ProcessFacts ==
  ASSUME IInv, ProcessRoot, NEW root, root = heap[1]
  PROVE  /\ root \in Series /\ ~ Exhausted(root, next)
         /\ next' \in [Series -> Nat \ {0}]
         /\ \A s \in Series : next'[s] <= Len(recorded[s]) + 1
         /\ next'[root] = next[root] + 1
         /\ \A s \in Series : s # root => next'[s] = next[s]
         /\ \A s \in Series : ~ Exhausted(s, next') => ~ Exhausted(s, next)
         /\ clock' = Time(1) /\ clock' \in Nat
         /\ \A i \in 1 .. active : Time(1) <= Time(i)
<1> USE DEF IInv
<1>1. /\ thread = "merging" /\ active \in Nat /\ active > 0 /\ Len(heap) \in Nat
      /\ active <= Len(heap) /\ heap[1] \in Series
      /\ next' = [next EXCEPT ![root] = @ + 1] /\ next \in [Series -> Nat \ {0}]
      /\ clock' = recorded[root][next[root]]
  BY HeapFacts DEF ProcessRoot, Typed
<1>2. 1 \in 1 .. active /\ root \in Series
  BY <1>1
<1>3. ~ Exhausted(root, next)
  BY <1>1, <1>2 DEF Content
<1>4. /\ next' \in [Series -> Nat \ {0}] /\ next'[root] = next[root] + 1
      /\ \A s \in Series : s # root => next'[s] = next[s]
  BY <1>1, <1>2
<1>5. \A s \in Series : /\ next[s] \in Nat /\ Len(recorded[s]) \in Nat
                        /\ next[s] <= Len(recorded[s]) + 1
  BY RecordingFacts
<1>6. next[root] <= Len(recorded[root])
  BY <1>2, <1>3, <1>5 DEF Exhausted
<1>7. \A s \in Series : next'[s] <= Len(recorded[s]) + 1
  BY <1>2, <1>4, <1>5, <1>6
<1>8. \A s \in Series : ~ Exhausted(s, next') => ~ Exhausted(s, next)
  BY <1>3, <1>4, <1>5 DEF Exhausted
<1>9. clock' = Time(1) /\ clock' \in Nat
  <2>1. clock' = Time(1)
    BY <1>1, <1>3 DEF Time
  <2> QED BY <1>1, <1>2, <2>1, HeapFacts
<1>10. \A i \in 1 .. active : Time(1) <= Time(i)
  <2>1. \A i \in 2 .. active : Time(Parent(i)) <= Time(i)
    BY <1>1 DEF Ordered
  <2> QED BY <2>1, RootIsEarliest
<1> QED BY <1>2, <1>3, <1>4, <1>7, <1>8, <1>9, <1>10

LEMMA ProcessKeeps ==
  ASSUME IInv, ProcessRoot
  PROVE  IInv'
<1> USE DEF IInv
<1>0. PICK root : root = heap[1]
  OBVIOUS
<1>1. /\ thread = "merging" /\ active \in Nat /\ active > 0 /\ Len(heap) \in Nat
      /\ active <= Len(heap) /\ added = SeriesCount /\ state = "Running"
      /\ UNCHANGED <<recorded, added, request, state>>
      /\ 1 \in 1 .. active /\ active \in 1 .. active
      /\ 1 \in 1 .. Len(heap) /\ active \in 1 .. Len(heap)
  BY HeapFacts DEF ProcessRoot, Phase
<1>2. /\ root \in Series /\ ~ Exhausted(root, next)
      /\ next' \in [Series -> Nat \ {0}]
      /\ \A s \in Series : next'[s] <= Len(recorded[s]) + 1
      /\ \A s \in Series : s # root => next'[s] = next[s]
      /\ \A s \in Series : ~ Exhausted(s, next') => ~ Exhausted(s, next)
      /\ clock' \in Nat
  BY <1>0, ProcessFacts
<1>3. \A i \in 1 .. Len(heap) : heap[i] \in Series /\ (i # 1 => heap[i] # root)
  BY <1>0, <1>1, HeapFacts DEF Distinct
<1>4. \A i \in 2 .. active : /\ Parent(i) \in 1 .. i - 1 /\ Time(Parent(i)) <= Time(i)
  <2>1. \A i \in 2 .. active : Parent(i) \in 1 .. i - 1
    <3>1. \A i \in 2 .. active : i \in Nat /\ i >= 2
      BY <1>1
    <3> QED BY <3>1, Tree
  <2>2. \A i \in 2 .. active : Time(Parent(i)) <= Time(i)
    BY <1>1 DEF Ordered
  <2> QED BY <2>1, <2>2
<1>5. \A s \in Series : Holds(s)' => Holds(s) /\ ~ Exhausted(s, next')
  BY <1>1, <1>2 DEF Holds, Exhausted
<1>6. CASE ~ Exhausted(root, next')
  <2>1. heap' = heap /\ active' = active /\ thread' = "sinking" /\ at' = 1
    BY <1>0, <1>6 DEF ProcessRoot
  <2>2. Typed'
    <3>1. at' \in 0 .. Len(heap')
      BY <1>1, <2>1
    <3> QED BY <1>1, <1>2, <2>1, <3>1 DEF Typed
  <2>3. Distinct' /\ Phase'
    BY <1>1, <2>1 DEF Distinct, Phase
  <2>4. Content'
    <3>1. ASSUME NEW i \in 1 .. active'
          PROVE  ~ Exhausted(heap[i], next)'
      <4>1. i \in 1 .. Len(heap)
        BY <1>1, <2>1
      <4>2. CASE heap[i] = root
        BY <1>1, <1>6, <2>1, <4>2 DEF Exhausted
      <4>3. CASE heap[i] # root
        <5>1. ~ Exhausted(heap[i], next)
          BY <2>1 DEF Content
        <5>2. next'[heap[i]] = next[heap[i]]
          BY <1>2, <1>3, <4>1, <4>3
        <5> QED BY <1>1, <2>1, <5>1, <5>2 DEF Exhausted
      <4> QED BY <4>2, <4>3
    <3>2. \A s \in Series : Holds(s)' => \E i \in 1 .. active' : heap'[i] = s
      BY <1>5, <2>1 DEF Content
    <3>3. \A i \in 1 .. Len(heap') : heap'[i] <= added'
      BY <1>1, <2>1 DEF Content
    <3> QED BY <3>1, <3>2, <3>3 DEF Content
  <2>5. \A i \in 2 .. active : Time(i)' = Time(i)
    <3>1. \A i \in 2 .. active : next'[heap[i]] = next[heap[i]]
      BY <1>1, <1>2, <1>3
    <3> QED BY <1>1, <2>1, <3>1 DEF Time, Exhausted
  <2>6. ASSUME NEW i \in 2 .. active, Parent(i) # 1
        PROVE  Time(Parent(i))' <= Time(i)'
    <3>1. Parent(i) \in 1 .. i - 1 /\ i \in Nat /\ i <= active
      BY <1>1, <1>4
    <3>2. Parent(i) \in 2 .. active
      BY <1>1, <2>6, <3>1
    <3> QED BY <1>4, <2>5, <3>2
  <2>7. Ordered'
    <3>1. ~ (at' > 1)
      BY <2>1
    <3> QED BY <2>1, <2>6, <3>1 DEF Ordered
  <2> QED BY <2>2, <2>3, <2>4, <2>7
<1>7. CASE Exhausted(root, next')
  <2>1. /\ heap' = Swap(1, active) /\ active' = active - 1
        /\ IF active <= 2 THEN UNCHANGED <<thread, at>> ELSE thread' = "sinking" /\ at' = 1
    BY <1>0, <1>7 DEF ProcessRoot
  <2>2. /\ heap' \in Seq(Series) /\ Len(heap') = Len(heap)
        /\ heap'[1] = heap[active] /\ heap'[active] = heap[1]
        /\ \A i \in 1 .. Len(heap) : i # 1 /\ i # active => heap'[i] = heap[i]
    BY <1>1, <2>1, SwapFacts
  <2>3. Typed'
    <3>1. active' \in 0 .. Len(heap') /\ at' \in 0 .. Len(heap')
      <4>1. at' = at \/ at' = 1
        BY <2>1
      <4>2. at \in 0 .. Len(heap) /\ 1 \in 0 .. Len(heap)
        BY <1>1 DEF Typed
      <4> QED BY <1>1, <2>1, <2>2, <4>1, <4>2
    <3>2. thread' \in {"merging", "sinking"}
      BY <1>1, <2>1
    <3> QED BY <1>1, <1>2, <2>2, <3>1, <3>2 DEF Typed
  <2>4. Distinct'
    BY <1>1, <2>2 DEF Distinct
  <2>5. Phase'
    BY <1>1, <2>1, <2>2 DEF Phase
  <2>6. \A i \in 1 .. active' : /\ i \in 1 .. active - 1 /\ heap'[i] \in Series
                               /\ heap'[i] # root /\ ~ Exhausted(heap'[i], next)
    <3>1. SUFFICES ASSUME NEW i \in 1 .. active'
                   PROVE  /\ i \in 1 .. active - 1 /\ heap'[i] \in Series
                          /\ heap'[i] # root /\ ~ Exhausted(heap'[i], next)
      OBVIOUS
    <3>2. PICK j \in 2 .. active : heap'[i] = heap[j]
      <4>1. i \in 1 .. Len(heap) /\ i < active /\ active >= 2
        BY <1>1, <2>1
      <4>2. CASE i = 1
        BY <1>1, <2>2, <4>1, <4>2
      <4>3. CASE i # 1
        BY <1>1, <2>2, <4>1, <4>3
      <4> QED BY <4>2, <4>3
    <3>3. j \in 1 .. Len(heap) /\ j \in 1 .. active /\ j # 1
      BY <1>1
    <3>4. ~ Exhausted(heap[j], next)
      BY <3>3 DEF Content
    <3> QED BY <1>3, <2>1, <3>2, <3>3, <3>4
  <2>7. Content'
    <3>1. \A i \in 1 .. Len(heap') : heap'[i] <= added'
      BY <1>1, <2>2 DEF Content
    <3>2. ASSUME NEW i \in 1 .. active'
          PROVE  ~ Exhausted(heap[i], next)'
      <4>1. next'[heap'[i]] = next[heap'[i]]
        BY <1>2, <2>6
      <4>2. ~ Exhausted(heap'[i], next)
        BY <2>6
      <4> QED BY <1>1, <4>1, <4>2 DEF Exhausted
    <3>3. ASSUME NEW s \in Series, Holds(s)'
          PROVE  \E i \in 1 .. active' : heap'[i] = s
      <4>1. Holds(s) /\ s # root
        BY <1>5, <1>7, <3>3
      <4>2. PICK j \in 1 .. active : heap[j] = s
        BY <4>1 DEF Content
      <4>3. j # 1 /\ j \in 1 .. Len(heap) /\ active > 1
        BY <1>0, <1>1, <4>1, <4>2
      <4>4. CASE j = active
        <5>1. 1 \in 1 .. active'
          BY <1>1, <2>1, <4>3
        <5> QED BY <2>2, <4>2, <4>4, <5>1
      <4>5. CASE j # active
        <5>1. j \in 1 .. active'
          BY <1>1, <2>1, <4>3, <4>5
        <5> QED BY <2>2, <4>2, <4>3, <4>5, <5>1
      <4> QED BY <4>4, <4>5
    <3> QED BY <3>1, <3>2, <3>3 DEF Content
  <2>8. Ordered'
    <3>1. CASE active <= 2
      <4>1. thread' = "merging" /\ 2 .. active' = {}
        BY <1>1, <2>1, <3>1
      <4> QED BY <4>1 DEF Ordered
    <3>2. CASE ~ (active <= 2)
      <4>1. thread' = "sinking" /\ at' = 1 /\ ~ (at' > 1)
        BY <2>1, <3>2
      <4>2. ASSUME NEW i \in 2 .. active'
            PROVE  Time(i)' = Time(i)
        <5>1. i \in 1 .. Len(heap) /\ i # 1 /\ i # active
          BY <1>1, <2>1
        <5>2. heap'[i] = heap[i] /\ next'[heap[i]] = next[heap[i]]
          BY <1>2, <1>3, <2>2, <5>1
        <5> QED BY <1>1, <5>2 DEF Time, Exhausted
      <4>3. ASSUME NEW i \in 2 .. active', Parent(i) # 1
            PROVE  Time(Parent(i))' <= Time(i)'
        <5>1. i \in 2 .. active /\ i < active
          BY <1>1, <2>1
        <5>2. Parent(i) \in 1 .. i - 1 /\ Time(Parent(i)) <= Time(i)
          BY <1>4, <5>1
        <5>3. Parent(i) \in 2 .. active'
          BY <1>1, <2>1, <4>3, <5>1, <5>2
        <5> QED BY <4>2, <5>2, <5>3
      <4> QED BY <4>1, <4>3 DEF Ordered
    <3> QED BY <3>1, <3>2
  <2> QED BY <2>3, <2>4, <2>5, <2>7, <2>8
<1> QED BY <1>6, <1>7

LEMMA NextKeeps == IInv /\ [Next]_vars => IInv'
<1> SUFFICES ASSUME IInv, [Next]_vars PROVE IInv'
  OBVIOUS
<1>1. CASE Run \/ Stop \/ BeginRun \/ EndRun \/ UNCHANGED vars
  BY <1>1, OwnerKeeps
<1>2. CASE AddSeries
  BY <1>2, AddKeeps
<1>3. CASE SiftUp
  BY <1>3, SiftUpKeeps
<1>4. CASE SiftDown
  BY <1>4, SiftDownKeeps
<1>5. CASE ProcessRoot
  BY <1>5, ProcessKeeps
<1> QED BY <1>1, <1>2, <1>3, <1>4, <1>5 DEF Next

LEMMA Invariant == Spec => []IInv
<1> QED BY InitInv, NextKeeps, PTL DEF Spec
-----------------------------------------------------------------------------
(* The theorems.  *)

\* The heap and its positions keep their types: its active part never reaches
\* beyond it, no carrier is in it twice, and none is asked for a datum behind
\* the last that its series holds.
THEOREM TypeCorrect == Spec => []TypeOK
<1>1. IInv => TypeOK
  <2> SUFFICES ASSUME IInv PROVE TypeOK
    OBVIOUS
  <2>1. Typed /\ Distinct
    BY DEF IInv
  <2>2. heap \in Seq(Series) /\ DOMAIN heap = 1 .. Len(heap)
    BY <2>1, LenProperties DEF Typed
  <2>3. IsInjective(heap)
    BY <2>1, <2>2 DEF Distinct, IsInjective
  <2>4. ToSet(heap) \subseteq Series
    BY <2>1, <2>2, HeapFacts DEF ToSet
  <2>5. \A s \in Series : next[s] \in 1 .. Len(recorded[s]) + 1
    BY <2>1, RecordingFacts
  <2> QED BY <2>1, <2>3, <2>4, <2>5 DEF Typed, TypeOK
<1> QED BY <1>1, Invariant, PTL

LEMMA OrderKeeps == IInv /\ MergedInOrder /\ [Next]_vars => MergedInOrder'
<1> SUFFICES ASSUME IInv, MergedInOrder, [Next]_vars PROVE MergedInOrder'
  OBVIOUS
<1>0. Typed
  BY DEF IInv
<1>1. CASE ProcessRoot
  <2>0. PICK root : root = heap[1]
    OBVIOUS
  <2>1. /\ thread = "merging" /\ added = SeriesCount /\ recorded' = recorded
    BY <1>1 DEF IInv, Phase, ProcessRoot
  <2>2. /\ root \in Series /\ ~ Exhausted(root, next)
        /\ next'[root] = next[root] + 1
        /\ \A s \in Series : s # root => next'[s] = next[s]
        /\ \A s \in Series : ~ Exhausted(s, next') => ~ Exhausted(s, next)
        /\ clock' = Time(1)
        /\ \A i \in 1 .. active : Time(1) <= Time(i)
    BY <1>1, <2>0, ProcessFacts
  <2>3. SUFFICES ASSUME NEW s \in Series, ~ Exhausted(s, next)'
                 PROVE  clock' <= recorded[s][next'[s]]
    BY <2>1 DEF MergedInOrder
  <2>4. ~ Exhausted(s, next')
    BY <2>1, <2>3 DEF Exhausted
  <2>5. CASE s = root
    <3>1. clock' = recorded[s][next[s]]
      BY <2>0, <2>2, <2>5 DEF Time
    <3>2. next[s] \in 1 .. Len(recorded[s]) /\ next[s] + 1 \in 1 .. Len(recorded[s])
      <4>1. next[s] \in Nat \ {0} /\ Len(recorded[s]) \in Nat
        BY <1>0, RecordingFacts
      <4>2. ~ (next[s] + 1 > Len(recorded[s]))
        BY <2>2, <2>4, <2>5 DEF Exhausted
      <4> QED BY <4>1, <4>2
    <3>3. recorded[s][next[s]] <= recorded[s][next[s] + 1]
      <4>1. \A i, j \in 1 .. Len(recorded[s]) : i <= j => recorded[s][i] <= recorded[s][j]
        BY <1>0, RecordingFacts
      <4>2. next[s] <= next[s] + 1
        BY <3>2
      <4> QED BY <3>2, <4>1, <4>2
    <3> QED BY <2>2, <2>5, <3>1, <3>3
  <2>6. CASE s # root
    <3>1. Holds(s)
      <4>1. s <= added
        BY <2>1 DEF Series
      <4> QED BY <2>2, <2>4, <4>1 DEF Holds
    <3>2. PICK i \in 1 .. active : heap[i] = s
      BY <3>1 DEF IInv, Content
    <3>3. Time(i) = recorded[s][next[s]]
      BY <2>2, <2>4, <3>2 DEF Time
    <3> QED BY <2>2, <2>6, <3>3
  <2> QED BY <2>5, <2>6
<1>2. CASE BeginRun
  <2>1. clock' = 0 /\ UNCHANGED <<recorded, next>>
    BY <1>2 DEF BeginRun
  <2>2. ASSUME NEW s \in Series, ~ Exhausted(s, next)
        PROVE  recorded[s][next[s]] \in Nat
    BY <1>0, <2>2, RecordingFacts
  <2> QED BY <2>1, <2>2 DEF MergedInOrder, Exhausted
<1>3. CASE Run \/ Stop \/ AddSeries \/ SiftUp \/ SiftDown \/ EndRun \/ UNCHANGED vars
  <2>1. UNCHANGED <<recorded, next, clock>>
    BY <1>3 DEF Run, Stop, AddSeries, SiftUp, SiftDown, EndRun, vars
  <2>2. thread' \in {"merging", "sinking"} => thread \in {"merging", "sinking"}
    BY <1>3 DEF Run, Stop, AddSeries, SiftUp, SiftDown, EndRun, vars
  <2> QED BY <2>1, <2>2 DEF MergedInOrder, Exhausted
<1> QED BY <1>1, <1>2, <1>3 DEF Next

\* The simulated time never overtakes a datum that is still to come, of any
\* number of series of any length: what the turns of SiftUp and SiftDown leave
\* is a heap, so the root that is sent is the earliest there is.
THEOREM PlaysInOrder == Spec => []MergedInOrder
<1>1. Init => MergedInOrder
  BY DEF Init, MergedInOrder
<1> QED BY <1>1, Invariant, OrderKeeps, PTL DEF Spec

\* A run that nobody stops ends only when every series is used up: a carrier
\* is archived when it has no datum left, and none is lost by the swaps.
THEOREM PlaysAll == Spec => []AllDelivered
<1>1. IInv => AllDelivered
  <2> SUFFICES ASSUME IInv, state = "Stopped", request = "Run", NEW s \in Series
               PROVE  Exhausted(s, next)
    BY DEF AllDelivered
  <2>1. thread = "ended" /\ active = 0 /\ added = SeriesCount
    BY DEF IInv, Phase
  <2>2. ~ Holds(s)
    BY <2>1 DEF IInv, Content
  <2>3. s <= added
    BY <2>1 DEF Series
  <2> QED BY <2>2, <2>3 DEF Holds
<1> QED BY <1>1, Invariant, PTL
=============================================================================
