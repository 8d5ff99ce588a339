------------------------------ MODULE LogsQuery ------------------------------
(***************************************************************************)
(* One Logs Insights query at a time: AWSLogs._run_query and _stop_query   *)
(* (src/optiserve/aws/logs_client.py), and the service that runs it.       *)
(***************************************************************************)
EXTENDS Integers

CONSTANTS
    Attempts,      \* poll_attempts
    MaxFetches,    \* bound on the calls of _run_query
    MaxInterrupts, \* bound on KeyboardInterrupts
    MaxApiFaults   \* bound on API calls that raise

ASSUME QueryAssumption ==
    /\ Attempts \in Nat /\ MaxFetches \in Nat /\ MaxInterrupts \in Nat /\ MaxApiFaults \in Nat

VARIABLES
    pc,         \* of the caller: "idle", "polling", "stopping"
    polls,      \* polls made
    query,      \* the caller's query at the service: "none", "Running", or how it ended
    outcome,    \* of the last fetch: "none", "rows", "failed", "timeout", "error", "interrupted"
    left,       \* history: queries left running when their fetch was over
    unknown,    \* history: queries the service started whose id never reached the caller
    refusals,   \* history: stop_query's that raised
    fetches, interrupts, apiFaults

countVars == <<left, unknown, refusals, fetches, interrupts, apiFaults>>
queryVars == <<pc, polls, query, outcome, countVars>>

Ended == {"Complete", "Failed", "Cancelled", "Timeout", "Stopped"}

QueryTypeOK ==
    /\ pc \in {"idle", "polling", "stopping"}
    /\ polls \in 0 .. Attempts
    /\ query \in {"none", "Running"} \cup Ended
    /\ outcome \in {"none", "rows", "failed", "timeout", "error", "interrupted"}
    /\ left \in Nat /\ unknown \in Nat /\ refusals \in 0 .. apiFaults
    /\ fetches \in 0 .. MaxFetches /\ interrupts \in 0 .. MaxInterrupts
    /\ apiFaults \in 0 .. MaxApiFaults

QueryInit ==
    /\ pc = "idle" /\ polls = 0 /\ query = "none" /\ outcome = "none"
    /\ left = 0 /\ unknown = 0 /\ refusals = 0 /\ fetches = 0 /\ interrupts = 0 /\ apiFaults = 0

ApiFault == apiFaults < MaxApiFaults /\ apiFaults' = apiFaults + 1

\* The fetch is over: its query either has ended or is left running.
Over(how) ==
    /\ pc' = "idle" /\ outcome' = how
    /\ left' = left + (IF query = "Running" THEN 1 ELSE 0)

\* start_query is sent until an answer comes back, and raises after a failure that is not resent
\* (session.py:40).  Each failure may have been only that of the answer, the query running on; so it
\* is with a KeyboardInterrupt that comes while start_query waits.
StartQuery ==
    /\ pc = "idle" /\ fetches < MaxFetches
    /\ fetches' = fetches + 1 /\ polls' = 0
    /\ \E failed \in 0 .. MaxApiFaults - apiFaults, cut \in {0, 1} :
        /\ apiFaults' = apiFaults + failed
        /\ interrupts' = interrupts + cut /\ interrupts' <= MaxInterrupts
        /\ \E begun \in 0 .. failed + cut : unknown' = unknown + begun /\ left' = left + begun
        /\ \/ /\ cut = 0
              /\ pc' = "polling" /\ query' = "Running" /\ outcome' = "none"
           \/ /\ cut = 0 /\ failed > 0
              /\ query' = "none" /\ outcome' = "error"
              /\ UNCHANGED pc
           \/ /\ cut = 1
              /\ query' = "none" /\ outcome' = "interrupted"
              /\ UNCHANGED pc
    /\ UNCHANGED refusals

\* The service ends the query in one way or another; the rows are those of that moment.
ServiceEnds(how) ==
    /\ pc # "idle" /\ query = "Running"
    /\ query' = how
    /\ UNCHANGED <<pc, polls, outcome, countVars>>

Polling == pc = "polling" /\ polls < Attempts

PollComplete ==
    /\ Polling /\ query = "Complete"
    /\ Over("rows")
    /\ UNCHANGED <<polls, query, unknown, refusals, fetches, interrupts, apiFaults>>

\* LogParsingError
PollFailed ==
    /\ Polling /\ query \in Ended \ {"Complete"}
    /\ pc' = "stopping" /\ outcome' = "failed"
    /\ UNCHANGED <<polls, query, countVars>>

PollRunning ==
    /\ Polling /\ query = "Running"
    /\ polls' = polls + 1
    /\ UNCHANGED <<pc, query, outcome, countVars>>

PollRaises ==
    /\ Polling /\ ApiFault
    /\ pc' = "stopping" /\ outcome' = "error"
    /\ UNCHANGED <<polls, query, left, unknown, refusals, fetches, interrupts>>

\* FunctionTimeout, once the budget is used up.
GiveUp ==
    /\ pc = "polling" /\ polls = Attempts
    /\ pc' = "stopping" /\ outcome' = "timeout"
    /\ UNCHANGED <<polls, query, countVars>>

\* Faulty variant: the query is given up and never stopped.
StopQueryForgotten ==
    /\ pc = "stopping"
    /\ Over(outcome)
    /\ UNCHANGED <<polls, query, unknown, refusals, fetches, interrupts, apiFaults>>

HasStopped == IF query = "Running" THEN "Stopped" ELSE query

\* _stop_query: best effort, then the exception goes on.  A stop_query that raises may have been
\* refused, or may have lost only its answer.
StopQuery ==
    /\ pc = "stopping"
    /\ \/ /\ query' = HasStopped /\ pc' = "idle"
          /\ UNCHANGED <<outcome, left, refusals, apiFaults>>
       \/ /\ ApiFault
          /\ refusals' = refusals + 1
          /\ \/ query' = HasStopped /\ pc' = "idle" /\ UNCHANGED <<outcome, left>>
             \/ Over(outcome) /\ UNCHANGED query
    /\ UNCHANGED <<polls, unknown, fetches, interrupts>>

\* A KeyboardInterrupt is not an Exception: nothing stops the query.
InterruptFetch ==
    /\ pc # "idle" /\ interrupts < MaxInterrupts
    /\ interrupts' = interrupts + 1
    /\ Over("interrupted")
    /\ UNCHANGED <<polls, query, unknown, refusals, fetches, apiFaults>>

QueryNext ==
    \/ StartQuery \/ PollComplete \/ PollFailed \/ PollRunning \/ PollRaises \/ GiveUp \/ StopQuery
    \/ InterruptFetch
    \/ \E how \in Ended \ {"Stopped"} : ServiceEnds(how)

QuerySpec == QueryInit /\ [][QueryNext]_queryVars
-----------------------------------------------------------------------------
(* Correctness *)

\* A query is left running, and keeps using the account's small quota, only if its id never reached
\* the caller, for an interrupt, or for a stop_query that raised: "an abandoned Insights query keeps
\* consuming the account's concurrent-query quota" (logs_client.py:67-70).
NoQueryLeftRunning == left <= unknown + interrupts + refusals
=============================================================================
