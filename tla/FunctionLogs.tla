---------------------------- MODULE FunctionLogs ----------------------------
(***************************************************************************)
(* AWSFunctionLogs.get_logs and get_logs_df: the lines an ImageFunction    *)
(* logs, fetched by a LogsQuery and grouped by ML model.  The function is  *)
(* invoked, killed and reconfigured while the query runs.                  *)
(***************************************************************************)
EXTENDS ImageFunction, LogsQuery, FiniteSetsExt

CONSTANTS
    DockerDeploy, \* docker_deploy: the query asks for the markers as well, oldest line first
    RowLimit      \* total_logs_limit

ASSUME LogsAssumption == DockerDeploy \in BOOLEAN /\ RowLimit \in Nat

VARIABLE results \* the rows the service hands out

vars == <<imageVars, queryVars, results>>

TypeOK ==
    /\ ImageTypeOK /\ QueryTypeOK
    /\ results \in Seq(Line) /\ Len(results) <= RowLimit

Init == ImageInit /\ QueryInit /\ results = <<>>
-----------------------------------------------------------------------------
(* The service *)

\* What the query sees: the lines since start_time that have been ingested, a prefix per stream.
Visible(start, lag) ==
    LET Later(i) == {j \in DOMAIN log : j > i /\ log[j].stream = log[i].stream}
    IN  {i \in DOMAIN log : i >= start /\ Cardinality(Later(i)) >= lag[log[i].stream]}

\* The two query strings of get_logs: what is asked for, and in which order.
Asked(lines) == {i \in lines : DockerDeploy \/ log[i].kind = "report"}
Sorted(order) ==
    \A i, j \in DOMAIN order : i < j => IF DockerDeploy THEN order[i] < order[j] ELSE order[i] > order[j]

\* `limit`: how many of n rows are handed out.
Limited(n) == IF n < RowLimit THEN n ELSE RowLimit

Completes ==
    /\ ServiceEnds("Complete")
    /\ \E start \in {1, 2}, lag \in [Streams -> {0, 1}] :
        LET asked == Asked(Visible(start, lag)) IN
        \E order \in [1 .. Cardinality(asked) -> asked] :
            /\ Sorted(order)
            /\ results' = [k \in 1 .. Limited(Cardinality(asked)) |-> log[order[k]]]
    /\ UNCHANGED imageVars

ServiceFails ==
    /\ \E how \in {"Failed", "Cancelled", "Timeout"} : ServiceEnds(how)
    /\ UNCHANGED <<imageVars, results>>

FunctionStep == ImageNext /\ UNCHANGED <<queryVars, results>>

\* start_query begins with no rows.
Start == StartQuery /\ results' = <<>> /\ UNCHANGED imageVars

CallerStep ==
    /\ PollComplete \/ PollFailed \/ PollRunning \/ PollRaises \/ GiveUp \/ StopQuery
        \/ InterruptFetch
    /\ UNCHANGED <<imageVars, results>>

\* Nothing more is asked of the function or of the logs.
Stopped ==
    /\ Running = {} /\ pc = "idle" /\ fetches = MaxFetches
    /\ UNCHANGED vars

Next == FunctionStep \/ Start \/ Completes \/ ServiceFails \/ CallerStep \/ Stopped

Spec == Init /\ [][Next]_vars
-----------------------------------------------------------------------------
(* Grouping.  The rows of a model are numbers of rows of the answer; the list the code makes of  *)
(* them has one stream after the other, an order that nothing reads.                            *)

RowsOf(s) == {i \in DOMAIN results : results[i].stream = s}
Logged == {results[i].stream : i \in DOMAIN results}
Markers(s) == {i \in RowsOf(s) : results[i].kind = "marker"}
Named(s) == results[Min(Markers(s))].model

\* Faulty variant: model_name is not reset from one stream to the next.
ModelOfCarried(s) ==
    LET First(t) == Min(RowsOf(t))
        named == {t \in Logged : Markers(t) # {} /\ First(t) <= First(s)}
    IN  IF named = {} THEN NoModel
        ELSE Named(CHOOSE t \in named : \A u \in named : First(u) <= First(t))

\* The first marker of a stream names its model; NoModel is "unknown".
ModelOf(s) == IF Markers(s) = {} THEN NoModel ELSE Named(s)

Relevant(m) == {i \in DOMAIN results : results[i].kind = "report" /\ ModelOf(results[i].stream) = m}

LogsByModel == [m \in {ModelOf(s) : s \in Logged} |-> Relevant(m)]

\* get_logs answers with a flat list when no stream has a marker.
Grouped == DOMAIN LogsByModel # {NoModel}

\* get_logs_df: a model that is not among the groups is answered with all of them.
Frame(m) ==
    IF Grouped /\ m \in DOMAIN LogsByModel THEN LogsByModel[m]
    ELSE UNION {LogsByModel[k] : k \in DOMAIN LogsByModel}
-----------------------------------------------------------------------------
(* Correctness *)

\* While no payload names a model, the rows reported for a model are invocations that ran it (or
\* were refused before any model was chosen), whatever was killed, reconfigured, ingested late or
\* cut off: an environment keeps the MODEL_NAME it was created with (logs_client.py:168-193).
RowsAreOfTheirModel ==
    outcome = "rows" /\ Grouped =>
        \A m \in DOMAIN LogsByModel \ {NoModel} :
            \A i \in Frame(m) : results[i].model \in {m, NoModel}
=============================================================================
