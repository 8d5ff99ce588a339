--------------------------- MODULE ManagedSession ---------------------------
(***************************************************************************)
(* What ConfigManager.managed() promises (src/optiserve/aws/lambda_client  *)
(* .py): the function is anybody's to rewrite until the session's exit;    *)
(* from there on only the original is written back, and a session that is  *)
(* left either has the function back as it was found or is on record as    *)
(* not having restored it.                                                 *)
(*                                                                         *)
(* LambdaConfig implements it call by call; ProfileCommand, which takes a  *)
(* session as a few steps of a command, implements the same promise.       *)
(***************************************************************************)

CONSTANT
    Unmanaged   \* the caller may call set_config outside of a session

VARIABLES
    session,    \* "out", "in" the body, or in the "exit" block
    function,   \* "original", as it was found, or "profiled"
    unrestored, \* the last restore failed or was interrupted
    disturbed   \* somebody else wrote, or the process died

vars == <<session, function, unrestored, disturbed>>

Init == session = "out" /\ function = "original" /\ unrestored = FALSE /\ disturbed = FALSE

\* managed(), up to its yield: nothing is written.
Enter ==
    /\ session = "out" /\ session' = "in"
    /\ unrestored' = FALSE
    /\ UNCHANGED <<function, disturbed>>

\* set_config, in a session or outside of one, which may fail before or after its update.
Touch ==
    /\ session = "in" \/ (session = "out" /\ Unmanaged)
    /\ function' \in {"original", "profiled"}
    /\ UNCHANGED unrestored \/ unrestored' = FALSE
    /\ UNCHANGED <<session, disturbed>>

\* The body ends, perhaps in a set_config that fails.
Exit ==
    /\ session = "in" /\ session' = "exit"
    /\ function' \in {"original", "profiled"}
    /\ unrestored' = FALSE
    /\ UNCHANGED disturbed

\* reset_config's update.
Rewrite ==
    /\ session = "exit"
    /\ function' = "original"
    /\ UNCHANGED <<session, unrestored, disturbed>>

\* reset_config ends.  One that failed may have written, and then what it should.
Leave ==
    /\ session = "exit" /\ session' = "out"
    /\ \/ function' = "original" /\ unrestored' = FALSE
       \/ function' \in {function, "original"} /\ unrestored' = TRUE
    /\ UNCHANGED disturbed

\* Once somebody else writes, or the process dies, nothing is promised.
Disturb ==
    /\ disturbed' = TRUE
    /\ session' \in {"out", "in", "exit"} /\ function' \in {"original", "profiled"}
    /\ unrestored' \in BOOLEAN

Next == Enter \/ Touch \/ Exit \/ Rewrite \/ Leave \/ Disturb

Spec == Init /\ [][Next]_vars
=============================================================================
