----------------------------- MODULE MCProfiler -----------------------------
(***************************************************************************)
(* Instances of Profiler small enough for TLC.                             *)
(***************************************************************************)
EXTENDS Profiler

\* Six memories: the floor can be raised twice before seeding runs out of memories.
OneSpace == {[floor |-> 1, top |-> 6]}

\* The bounds change between two processes.
TwoSpaces == {[floor |-> 1, top |-> 6], [floor |-> 3, top |-> 5]}

NoFaults == {}
SaveFaults == {"save"}
=============================================================================
