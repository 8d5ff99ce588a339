------------------------------ MODULE MCTrace ------------------------------
(* The instance of Trace the run checks.                                    *)
EXTENDS Trace

CONSTANTS t1, t2

MCThreads == {t1, t2}
MCRegistered == <<"broken", "jsonl", "memory">>
=============================================================================
