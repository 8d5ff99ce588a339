--------------------------- MODULE MCFunctionLogs ---------------------------
(***************************************************************************)
(* An instance of FunctionLogs small enough for TLC.                       *)
(***************************************************************************)
EXTENDS FunctionLogs, TLC

CONSTANTS a, b, none, s1, s2

TwoStreams == {s1, s2}
TwoModels == {a, b}
OneModel == {a}
NoPayloadModel == {none}

Streams2 == Permutations(TwoStreams)

\* At most two things go wrong, with the function or with the query.
MaxTroubles == 2
MCSpec == Init /\ [][Next /\ faults' + apiFaults' + interrupts' <= MaxTroubles]_vars
=============================================================================
