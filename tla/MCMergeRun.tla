----------------------------- MODULE MCMergeRun -----------------------------
(***************************************************************************)
(* Recordings for TLC: every series of up to two datums, at times 1 to     *)
(* MaxTime.                                                                *)
(***************************************************************************)
EXTENDS MergeRun

CONSTANT MaxTime

MCRecordings ==
  {<<>>} \cup {<<t>> : t \in 1 .. MaxTime}
  \cup {<<p[1], p[2]>> : p \in {q \in (1 .. MaxTime) \X (1 .. MaxTime) : q[1] <= q[2]}}
=============================================================================
