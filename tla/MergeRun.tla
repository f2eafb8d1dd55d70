------------------------------ MODULE MergeRun ------------------------------
(***************************************************************************)
(* A simulation plays recorded series back, merged by time:                *)
(* SimulationProvider (lib/TFSimulation/SimulationProvider.cpp) starts a   *)
(* thread that gives every series to MergeDatedDatums, which keeps one     *)
(* carrier per series in a heap (lib/OUCommon/MinHeap.h), and sends the    *)
(* datum at its root until the series are used up or a stop is asked for.  *)
(*                                                                         *)
(* Series are numbered in the order in which Merge adds them.  Those that  *)
(* nobody watches, or that are not recorded, are empty.  A stop may come   *)
(* from the owner's thread or from a handler of a datum.  A turn of each   *)
(* loop is a step: of the merge, and of the two that sift in the heap.     *)
(***************************************************************************)
EXTENDS Naturals, Sequences, SequencesExt

CONSTANTS SeriesCount,
          Recordings       \* Sequences of times that a series may hold

Series == 1 .. SeriesCount

\* A recording is in order of time.
ASSUME MergeAssumption ==
  /\ SeriesCount \in Nat
  /\ \A r \in Recordings :
       /\ r \in Seq(Nat \ {0})
       /\ \A i, j \in DOMAIN r : i <= j => r[i] <= r[j]

VARIABLES recorded,        \* The series of the symbols
          thread, added,   \* Where Merge is; the series it has looked at
          request, state,  \* MergeDatedDatums: m_request, m_state
          heap, active,    \* CMinHeap: m_vT, m_cntActiveItems
          at,              \* Where the carrier is that a sift moves, 0 if none
          next,            \* The datum that each carrier holds
          clock            \* TimeSource: the simulated time, 0 before any

vars == <<recorded, thread, added, request, state, heap, active, at, next, clock>>

TypeOK ==
  /\ recorded \in [Series -> Recordings]
  /\ thread \in {"none", "adding", "rising", "merging", "sinking", "ended"}
  /\ added \in 0 .. SeriesCount
  /\ request \in {"Unknown", "Run", "Stop"}
  /\ state \in {"Init", "Running", "Stopped"}
  /\ IsInjective(heap) /\ ToSet(heap) \subseteq Series
  /\ active \in 0 .. Len(heap) /\ at \in 0 .. Len(heap)
  /\ \A s \in Series : next[s] \in 1 .. Len(recorded[s]) + 1
  /\ clock \in Nat

Init ==
  /\ recorded \in [Series -> Recordings]
  /\ thread = "none" /\ added = 0
  /\ request = "Unknown" /\ state = "Init"
  /\ heap = <<>> /\ active = 0 /\ at = 0
  /\ next = [s \in Series |-> 1]
  /\ clock = 0
-----------------------------------------------------------------------------
(* The heap of carriers, ordered by the time of the datum that each holds.  *)

\* No datum is left for the carrier.
Exhausted(s, n) == n[s] > Len(recorded[s])

\* m_dt of the carrier at a place of the heap.
Time(i) ==
  LET s == heap[i] IN IF Exhausted(s, next) THEN 0 ELSE recorded[s][next[s]]

\* (Mutant: without the temporary.)
Overwrite(i, j) == [heap EXCEPT ![i] = heap[j]]
Swap(i, j) == [heap EXCEPT ![i] = heap[j], ![j] = heap[i]]

Parent(i) == i \div 2
Left(i) == 2 * i
Right(i) == 2 * i + 1

\* The child that may rise above i.  (Mutant: always the left one.)
LeftOnly(i) == Left(i)
Candidate(i) ==
  IF Left(i) = active \/ Time(Left(i)) < Time(Right(i)) THEN Left(i) ELSE Right(i)

\* A turn of SiftUp: a carrier rises past a parent that is not earlier.
SiftUp ==
  /\ thread = "rising"
  /\ IF at = 1 \/ Time(Parent(at)) < Time(at)
     THEN thread' = "adding" /\ at' = 0 /\ UNCHANGED heap
     ELSE at' = Parent(at) /\ heap' = Swap(at, Parent(at)) /\ UNCHANGED thread
  /\ UNCHANGED <<recorded, added, request, state, active, next, clock>>

\* A turn of SiftDown: a carrier sinks below a child that is earlier.
SiftDown ==
  /\ thread = "sinking"
  /\ IF Left(at) <= active /\ Time(Candidate(at)) < Time(at)
     THEN at' = Candidate(at) /\ heap' = Swap(at, Candidate(at)) /\ UNCHANGED thread
     ELSE thread' = "merging" /\ at' = 0 /\ UNCHANGED heap
  /\ UNCHANGED <<recorded, added, request, state, active, next, clock>>
-----------------------------------------------------------------------------
(* The owner, and the thread of the merge. *)

\* SimulationProvider::Run.  m_pMerge is never reset: it runs once.
Run ==
  /\ thread = "none"
  /\ thread' = "adding"
  /\ UNCHANGED <<recorded, added, request, state, heap, active, at, next, clock>>

\* SimulationProvider::Stop; without an m_pMerge it only prints.
Stop ==
  /\ thread # "none"
  /\ request' = "Stop"
  /\ UNCHANGED <<recorded, thread, added, state, heap, active, at, next, clock>>

\* Merge adds the series that hold something.
AddSeries ==
  /\ thread = "adding" /\ added < SeriesCount
  /\ added' = added + 1
  /\ IF recorded[added + 1] # <<>>
     THEN /\ heap' = Append(heap, added + 1)
          /\ active' = active + 1 /\ at' = active + 1 /\ thread' = "rising"
     ELSE UNCHANGED <<thread, heap, active, at>>
  /\ UNCHANGED <<recorded, request, state, next, clock>>

\* SetSimulationMode forgets the time; MergeDatedDatums::Run overwrites what
\* was requested.
BeginRun ==
  /\ thread = "adding" /\ added = SeriesCount
  /\ thread' = "merging"
  /\ clock' = 0
  /\ request' = "Run" /\ state' = "Running"
  /\ UNCHANGED <<recorded, added, heap, active, at, next>>

\* The root sends its datum and takes the next; without one it goes behind the
\* active items (ArchiveRoot).  The heap sifts while it has two items.
ProcessRoot ==
  /\ thread = "merging" /\ active > 0 /\ request = "Run"
  /\ LET root == heap[1]
     IN  /\ clock' = recorded[root][next[root]]
         /\ next' = [next EXCEPT ![root] = @ + 1]
         /\ IF Exhausted(root, next')
            THEN heap' = Swap(1, active) /\ active' = active - 1
            ELSE UNCHANGED <<heap, active>>
         /\ IF Exhausted(root, next') /\ active <= 2
            THEN UNCHANGED <<thread, at>> ELSE thread' = "sinking" /\ at' = 1
  /\ UNCHANGED <<recorded, added, request, state>>

\* (Mutant: the last series is not waited for.)
EndRunOneLeft ==
  /\ thread = "merging" /\ (active <= 1 \/ request # "Run")
  /\ thread' = "ended" /\ state' = "Stopped"
  /\ UNCHANGED <<recorded, added, request, heap, active, at, next, clock>>
EndRun ==
  /\ thread = "merging" /\ (active = 0 \/ request # "Run")
  /\ thread' = "ended" /\ state' = "Stopped"
  /\ UNCHANGED <<recorded, added, request, heap, active, at, next, clock>>

Next == Run \/ Stop \/ AddSeries \/ SiftUp \/ BeginRun \/ ProcessRoot \/ SiftDown \/ EndRun

Spec == Init /\ [][Next]_vars
-----------------------------------------------------------------------------
(* Properties. *)

\* No datum still to come, of any series, is earlier than the simulated time:
\* whatever the shape of the heap, the clock of the simulation and the data
\* its strategies see never go back (TimeSource.h:64 asserts it).
MergedInOrder ==
  thread \in {"merging", "sinking"} =>
    \A s \in Series : ~ Exhausted(s, next) => clock <= recorded[s][next[s]]

\* A run that ends before anybody asks it to stop has sent every datum of
\* every series: none was archived too early, or dropped from the heap.
AllDelivered ==
  state = "Stopped" /\ request = "Run" => \A s \in Series : Exhausted(s, next)
=============================================================================
