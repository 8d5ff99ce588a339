----------------------------- MODULE AuditTrail -----------------------------
(***************************************************************************)
(* What a durable trace promises its reader: it only ever grows, no event  *)
(* comes twice, and the events of each thread appear in the order in which *)
(* the thread emitted them.  A writer that dies may leave a torn end: the  *)
(* next event continues it and cannot be read, and no other is affected.   *)
(* Nothing is said about completeness.                                     *)
(***************************************************************************)
EXTENDS Naturals, Sequences

CONSTANTS Threads, MaxEvents

VARIABLES
    trail,        \* the events on disk, <<thread, number>> each
    unreadable,   \* the positions of those that continue a torn end
    torn          \* does the trail end in the beginning of an event nobody will complete?
vars == <<trail, unreadable, torn>>

Events == Threads \X (1..MaxEvents)
InOrder(s) == \A i, j \in 1..Len(s) : (i < j /\ s[i][1] = s[j][1]) => s[i][2] < s[j][2]

Init == trail = <<>> /\ unreadable = {} /\ torn = FALSE

Grow == /\ Len(trail) < Len(trail')
        /\ SubSeq(trail', 1, Len(trail)) = trail
        /\ \A i \in 1..Len(trail') : trail'[i] \in Events
        /\ InOrder(trail')
        /\ unreadable' = IF torn THEN unreadable \cup {Len(trail) + 1} ELSE unreadable
Tear == ~torn /\ torn' /\ UNCHANGED <<trail, unreadable>>

Spec == Init /\ [][Grow \/ Tear]_vars
=============================================================================
