------------------------- MODULE FunctionLogsProofs -------------------------
(***************************************************************************)
(* For every number of environments, models, polls, interrupts and faults: *)
(* no query is left running without a reason, only a write that is cut off *)
(* leaves a torn model behind, and for good, what answered did the same    *)
(* work, and the rows of a model are those of invocations that ran it.     *)
(***************************************************************************)
EXTENDS FunctionLogs, FiniteSetTheorems, TLAPS

LEMMA QueryInvInit == QueryInit => QueryTypeOK /\ NoQueryLeftRunning
  BY QueryAssumption DEF QueryInit, QueryTypeOK, NoQueryLeftRunning, QueryAssumption

LEMMA QueryInvStep ==
    QueryTypeOK /\ NoQueryLeftRunning /\ [QueryNext]_queryVars =>
        QueryTypeOK' /\ NoQueryLeftRunning'
<1> SUFFICES ASSUME QueryTypeOK, NoQueryLeftRunning, [QueryNext]_queryVars
             PROVE  QueryTypeOK' /\ NoQueryLeftRunning'
  OBVIOUS
<1> USE QueryAssumption
    DEF QueryAssumption, QueryTypeOK, NoQueryLeftRunning, Ended, Over, ApiFault, Polling, countVars
<1>1. CASE StartQuery
  <2>1. PICK failed \in 0 .. MaxApiFaults - apiFaults, cut \in {0, 1} :
            /\ apiFaults' = apiFaults + failed
            /\ interrupts' = interrupts + cut /\ interrupts' <= MaxInterrupts
            /\ \E begun \in 0 .. failed + cut : unknown' = unknown + begun /\ left' = left + begun
            /\ pc' = "polling" \/ pc' = pc
            /\ query' \in {"none", "Running"} /\ outcome' \in {"none", "error", "interrupted"}
    BY <1>1 DEF StartQuery
  <2>2. PICK begun \in 0 .. failed + cut : unknown' = unknown + begun /\ left' = left + begun
    BY <2>1
  <2>3. fetches' = fetches + 1 /\ fetches < MaxFetches /\ polls' = 0 /\ refusals' = refusals
    BY <1>1 DEF StartQuery
  <2>4. QED
    BY <2>1, <2>2, <2>3
<1>2. CASE PollComplete
  BY <1>2 DEF PollComplete
<1>3. CASE PollFailed \/ PollRunning \/ GiveUp
  BY <1>3 DEF PollFailed, PollRunning, GiveUp
<1>4. CASE PollRaises
  BY <1>4 DEF PollRaises
<1>5. CASE StopQuery
  BY <1>5 DEF StopQuery, HasStopped
<1>6. CASE InterruptFetch
  BY <1>6 DEF InterruptFetch
<1>7. CASE \E how \in Ended \ {"Stopped"} : ServiceEnds(how)
  BY <1>7 DEF ServiceEnds
<1>8. CASE UNCHANGED queryVars
  BY <1>8 DEF queryVars
<1>9. QED
  BY <1>1, <1>2, <1>3, <1>4, <1>5, <1>6, <1>7, <1>8 DEF QueryNext

\* However it is fetched for, every query that is left running has its lost id, its interrupt or its
\* stop_query that raised.
THEOREM QueriesAreStopped == QuerySpec => []NoQueryLeftRunning
  BY QueryInvInit, QueryInvStep, PTL DEF QuerySpec

\* AWSFunctionLogs uses the query loop as AWSLogs defines it.
LEMMA LogsStepIsQueryStep == [Next]_vars => [QueryNext]_queryVars
<1> SUFFICES ASSUME [Next]_vars PROVE [QueryNext]_queryVars
  OBVIOUS
<1>1. CASE FunctionStep \/ Stopped \/ UNCHANGED vars
  BY <1>1 DEF FunctionStep, Stopped, vars
<1>2. CASE Start \/ CallerStep
  BY <1>2 DEF Start, CallerStep, QueryNext
<1>3. CASE Completes \/ ServiceFails
  BY <1>3 DEF Completes, ServiceFails, QueryNext, Ended
<1>4. QED
  BY <1>1, <1>2, <1>3 DEF Next

\* The function may be invoked, killed and reconfigured meanwhile.
THEOREM LogsImplementQuery == Spec => QuerySpec
  BY LogsStepIsQueryStep, PTL DEF Spec, Init, QuerySpec

\* So the queries of AWSFunctionLogs are stopped too.
THEOREM LogsQueriesAreStopped == Spec => []NoQueryLeftRunning
  BY QueriesAreStopped, LogsImplementQuery, PTL
-----------------------------------------------------------------------------
(***************************************************************************)
(* The model files                                                         *)
(***************************************************************************)
FilesInv ==
    /\ live \in Models \cup {NoModel}
    /\ env \in [Streams -> Models \cup {NoModel}]
    /\ at \in [Streams -> {"idle", "load", "write", "open", "images"}]
    /\ model \in [Streams -> Models \cup {NoModel}]
    /\ disk \in [Streams -> [Models -> {"absent", "torn", "whole"}]]
    /\ spoilt \in [Streams -> SUBSET (Models \cup {NoModel})]
    /\ loaded \in [Streams -> SUBSET Models]
    /\ \A s \in Streams :
        /\ at[s] \in {"write", "open"} => model[s] \in Models
        /\ at[s] = "write" => model[s] \notin spoilt[s] \cup loaded[s]
    /\ CutOffForGood

LEMMA FilesInit == Init => FilesInv
  BY ImageAssumption DEF Init, ImageInit, ImageAssumption, FilesInv, CutOffForGood

LEMMA FilesStep == FilesInv /\ [Next]_vars => FilesInv'
<1> SUFFICES ASSUME FilesInv, [ImageNext]_imageVars PROVE FilesInv'
  BY DEF Next, FunctionStep, Start, Completes, ServiceFails, CallerStep, Stopped, vars
<1> USE DEF FilesInv, CutOffForGood, End, GoTo, SpoilModel, tmpVars, runVars
<1>1. ASSUME NEW m \in EnvModels, SetModelName(m) PROVE FilesInv'
  BY <1>1, ImageAssumption DEF SetModelName, ImageAssumption
<1>2. ASSUME NEW s \in Streams, Kill(s) PROVE FilesInv'
  <2>1. /\ at' = [at EXCEPT ![s] = "idle"] /\ loaded' = [loaded EXCEPT ![s] = {}]
        /\ UNCHANGED <<live, env, disk, model>>
    BY <1>2 DEF Kill
  <2>2. CASE at[s] = "write" /\ SpoilModel(s)
    BY <2>1, <2>2
  <2>3. CASE at[s] # "write" /\ UNCHANGED spoilt
    BY <2>1, <2>3
  <2>4. QED
    BY <1>2, <2>2, <2>3 DEF Kill
<1>3. ASSUME NEW s \in Streams, Reject(s) PROVE FilesInv'
  BY <1>3 DEF Reject, Take
<1>4. ASSUME NEW s \in Streams, NEW p \in PayloadModels, Invoke(s, p) PROVE FilesInv'
  <2>1. env' \in [Streams -> Models \cup {NoModel}]
    BY <1>4 DEF Invoke, Take
  <2>2. NamedModel(s, p) \in Models \cup {NoModel}
    BY <2>1, ImageAssumption DEF NamedModel, ImageAssumption
  <2>3. /\ at[s] = "idle" /\ at' = [at EXCEPT ![s] = "load"]
        /\ model' = [model EXCEPT ![s] = NamedModel(s, p)]
        /\ UNCHANGED <<live, disk, spoilt, loaded>>
    BY <1>4 DEF Invoke, Take
  <2>4. QED
    BY <2>1, <2>2, <2>3
<1>5. ASSUME NEW s \in Streams, Load(s) PROVE FilesInv'
  <2>1. at[s] = "load" /\ model[s] \in Models
        /\ UNCHANGED <<live, env, spoilt, loaded, model>>
    BY <1>5, ImageAssumption DEF Load, ImageAssumption
  <2>2. CASE UNCHANGED disk /\ \E w \in {"idle", "images", "open"} : at' = [at EXCEPT ![s] = w]
    BY <2>1, <2>2
  <2>3. CASE /\ disk' = [disk EXCEPT ![s][model[s]] = "torn"]
             /\ at' = [at EXCEPT ![s] = "write"]
             /\ disk[s][model[s]] = "absent" /\ model[s] \notin loaded[s]
    BY <2>1, <2>3
  <2>4. QED
    BY <1>5, <2>2, <2>3 DEF Load
<1>6. ASSUME NEW s \in Streams, Write(s) PROVE FilesInv'
  <2>1. at[s] = "write" /\ UNCHANGED <<live, env, loaded, model>>
    BY <1>6 DEF Write
  <2>2. CASE /\ at' = [at EXCEPT ![s] = "open"] /\ UNCHANGED spoilt
             /\ disk' = [disk EXCEPT ![s][model[s]] = "whole"]
    BY <2>1, <2>2
  <2>3. CASE at' = [at EXCEPT ![s] = "idle"] /\ SpoilModel(s) /\ UNCHANGED disk
    BY <2>1, <2>3
  <2>4. QED
    BY <1>6, <2>2, <2>3 DEF Write
<1>7. ASSUME NEW s \in Streams, Open(s) PROVE FilesInv'
  <2>1. at[s] = "open" /\ UNCHANGED <<live, env, model, disk, spoilt>>
    BY <1>7 DEF Open
  <2>2. CASE /\ disk[s][model[s]] = "whole" /\ at' = [at EXCEPT ![s] = "images"]
             /\ loaded' = [loaded EXCEPT ![s] = @ \cup {model[s]}]
    <3>1. model[s] \notin spoilt[s]
      BY <2>1, <2>2
    <3>2. QED
      BY <2>1, <2>2, <3>1
  <2>3. CASE at' = [at EXCEPT ![s] = "idle"] /\ UNCHANGED loaded
    BY <2>1, <2>3
  <2>4. QED
    BY <1>7, <2>2, <2>3 DEF Open
<1>8. ASSUME NEW s \in Streams, Unsupported(s) \/ ListingFails(s) \/ Answer(s) PROVE FilesInv'
  <2>1. /\ at[s] # "write" /\ at' = [at EXCEPT ![s] = "idle"]
        /\ UNCHANGED <<live, env, model, loaded, disk, spoilt>>
    BY <1>8 DEF Unsupported, ListingFails, Answer
  <2>2. QED
    BY <2>1
<1>9. ASSUME NEW s \in Streams, Fetch(s) PROVE FilesInv'
  BY <1>9 DEF Fetch, Fault
<1>10. CASE UNCHANGED imageVars
  BY <1>10 DEF imageVars
<1>11. QED
  BY <1>1, <1>2, <1>3, <1>4, <1>5, <1>6, <1>7, <1>8, <1>9, <1>10 DEF ImageNext, Handler

\* Only a write that is cut off, by a kill or by a full /tmp, makes an environment one that never
\* loads a model again; and it does so for good.
THEOREM OnlyACutOffWriteTears == Spec => []CutOffForGood
<1>1. FilesInv => CutOffForGood
  BY DEF FilesInv
<1>2. QED
  BY <1>1, FilesInit, FilesStep, PTL DEF Spec
-----------------------------------------------------------------------------
(***************************************************************************)
(* Counting                                                                *)
(***************************************************************************)
LEMMA LeastNatural ==
    ASSUME NEW S \in SUBSET Nat, S # {}
    PROVE  Min(S) \in S /\ \A x \in S : Min(S) <= x
<1> DEFINE less == {ss \in Nat \X Nat : ss[1] < ss[2]}
<1>1. IsWellFoundedOn(less, Nat)
  BY NatLessThanWellFounded DEF OpToRel
<1> HIDE DEF less
<1>2. PICK m \in S : \A y \in S : ~(<<y, m>> \in less)
  BY <1>1, WFMin
<1>3. ASSUME NEW y \in S PROVE m <= y
  <2>1. <<y, m>> \in Nat \X Nat /\ <<y, m>>[1] = y /\ <<y, m>>[2] = m
    OBVIOUS
  <2>2. ~(y < m)
    BY <1>2, <2>1 DEF less
  <2>3. QED
    BY <2>2
<1>4. QED
  BY <1>3 DEF Min

LEMMA FilesFinite == ASSUME NEW all \in SUBSET Files PROVE IsFiniteSet(all)
<1>1. IsFiniteSet(0 .. NumImages - 1) /\ IsFiniteSet(1 .. Objects)
  BY ImageAssumption, FS_Interval DEF ImageAssumption
<1>2. IsFiniteSet(Files)
  BY <1>1, FS_Product DEF Files
<1>3. QED
  BY <1>2, FS_Subset

\* Of N files the first n by name are min(n, N) in number: what comes before a file ranks it, and
\* the ranks are 0 .. N - 1.
Below(all, f) == {g \in all : Before(g, f)}
Rank(all, f) == Cardinality(Below(all, f))

LEMMA RankIncreases ==
    ASSUME NEW all \in SUBSET Files, NEW f \in all
    PROVE  /\ Rank(all, f) \in 0 .. Cardinality(all) - 1
           /\ \A g \in all : Before(g, f) => Rank(all, g) < Rank(all, f)
<1>1. IsFiniteSet(all) /\ Cardinality(all) \in Nat
  BY FilesFinite, FS_CardinalityType
<1>2. all \subseteq Int \X Int
  BY ImageAssumption DEF ImageAssumption, Files
<1>3. \A g \in all : IsFiniteSet(Below(all, g)) /\ Rank(all, g) \in Nat
  <2>1. ASSUME NEW g \in all PROVE IsFiniteSet(Below(all, g))
    BY <1>1, FS_Subset DEF Below
  <2>2. QED
    BY <2>1, FS_CardinalityType DEF Rank
<1>4. f \notin Below(all, f) /\ Below(all, f) \in SUBSET all
  BY <1>2 DEF Below, Before
<1>5. Rank(all, f) < Cardinality(all)
  <2>1. Below(all, f) # all
    BY <1>4
  <2>2. Rank(all, f) <= Cardinality(all) /\ Rank(all, f) # Cardinality(all)
    BY <2>1, <1>1, <1>4, FS_Subset DEF Rank
  <2>3. QED
    BY <2>2, <1>1, <1>3
<1>6. ASSUME NEW g \in all, Before(g, f) PROVE Rank(all, g) < Rank(all, f)
  <2>1. Below(all, g) \in SUBSET Below(all, f)
    BY <1>2, <1>6 DEF Below, Before
  <2>2. g \in Below(all, f) /\ g \notin Below(all, g)
    BY <1>2, <1>6 DEF Below, Before
  <2>3. Rank(all, g) <= Rank(all, f) /\ Rank(all, g) # Rank(all, f)
    BY <2>1, <2>2, <1>3, FS_Subset DEF Rank
  <2>4. QED
    BY <2>3, <1>3
<1>7. QED
  BY <1>1, <1>3, <1>5, <1>6

LEMMA FirstFiles ==
    ASSUME NEW all \in SUBSET Files, NEW n \in Nat
    PROVE  LET first == {f \in all : Rank(all, f) < n}
           IN  /\ Cardinality(first) \in 0 .. n
               /\ Cardinality(all) >= n => Cardinality(first) = n
<1> DEFINE first == {f \in all : Rank(all, f) < n}
           N == Cardinality(all)
           ranks == [f \in all |-> Rank(all, f)]
<1>1. IsFiniteSet(all) /\ N \in Nat
  BY FilesFinite, FS_CardinalityType
<1>2. ranks \in [all -> 0 .. N - 1] /\ \A f \in all : ranks[f] = Rank(all, f)
  BY RankIncreases
<1>3. \A f, g \in all : ranks[f] = ranks[g] => f = g
  <2> SUFFICES ASSUME NEW f \in all, NEW g \in all, f # g PROVE ranks[f] # ranks[g]
    OBVIOUS
  <2>1. Before(f, g) \/ Before(g, f)
    <3>1. f \in Int \X Int /\ g \in Int \X Int
      BY ImageAssumption DEF ImageAssumption, Files
    <3>2. QED
      BY <3>1 DEF Before
  <2>2. Rank(all, f) \in Int /\ Rank(all, g) \in Int
    BY <1>2
  <2>3. QED
    BY <2>1, <2>2, RankIncreases
<1>4. ranks \in Injection(all, 0 .. N - 1)
  BY <1>2, <1>3 DEF Injection, IsInjective
<1>5. IsFiniteSet(0 .. N - 1) /\ Cardinality(0 .. N - 1) = N
  BY <1>1, FS_Interval
<1>6. \A r \in 0 .. N - 1 : \E f \in all : ranks[f] = r
  <2>1. ranks \in Surjection(all, 0 .. N - 1)
    BY <1>4, <1>5, FS_Injection
  <2>2. QED
    BY <2>1 DEF Surjection
<1>7. IsFiniteSet(0 .. n - 1) /\ Cardinality(0 .. n - 1) = n
  BY FS_Interval
<1> DEFINE part == [f \in first |-> ranks[f]]
<1>8. part \in Injection(first, 0 .. n - 1)
  BY <1>2, <1>3 DEF Injection, IsInjective
<1>9. Cardinality(first) \in Nat /\ Cardinality(first) <= n
  BY <1>7, <1>8, FS_Injection, FS_CardinalityType
<1>10. ASSUME N >= n PROVE Cardinality(first) = n
  <2>1. part \in Surjection(first, 0 .. n - 1)
    <3>1. \A r \in 0 .. n - 1 : \E f \in first : part[f] = r
      BY <1>1, <1>2, <1>6, <1>10
    <3>2. part \in [first -> 0 .. n - 1]
      BY <1>8 DEF Injection
    <3>3. QED
      BY <3>1, <3>2 DEF Surjection
  <2>2. QED
    BY <1>7, <1>8, <2>1, FS_Injection
<1>11. QED
  BY <1>9, <1>10
-----------------------------------------------------------------------------
(***************************************************************************)
(* Types                                                                   *)
(***************************************************************************)
LEMMA ServedFromCache ==
    ASSUME ImageTypeOK, NEW s \in Streams
    PROVE  LET all == images[s].whole \cup images[s].torn
           IN  /\ all \in SUBSET Files
               /\ Cardinality(FromCache(s)) \in 0 .. NumImages
               /\ Cardinality(all) >= NumImages /\ images[s].torn = {} =>
                      Cardinality(FromCache(s)) = NumImages
<1> DEFINE all == images[s].whole \cup images[s].torn
           first == {f \in all : Rank(all, f) < NumImages}
<1>1. all \in SUBSET Files /\ NumImages \in Nat
  BY ImageAssumption DEF ImageAssumption, ImageTypeOK
<1>2. FromCache(s) = first \ images[s].torn
  BY DEF FromCache, Rank, Below
<1>3. /\ Cardinality(first) \in 0 .. NumImages
      /\ Cardinality(all) >= NumImages => Cardinality(first) = NumImages
  BY <1>1, FirstFiles
<1>4. IsFiniteSet(first)
  BY <1>1, FilesFinite
<1>5. Cardinality(FromCache(s)) \in Nat /\ Cardinality(FromCache(s)) <= Cardinality(first)
  <2>1. FromCache(s) \in SUBSET first
    BY <1>2
  <2>2. QED
    BY <1>4, <2>1, FS_Subset, FS_CardinalityType
<1>6. QED
  BY <1>1, <1>2, <1>3, <1>5

LEMMA ReportType ==
    ASSUME ImageTypeOK, NEW s \in Streams, NEW m \in Models \cup {NoModel},
           NEW how \in {"ok", "bad_request", "error", "killed"}, NEW n \in 0 .. NumImages
    PROVE  Report(s, m, how, n) \in Line
<1>1. (missed[s] \/ images[s].torn # {}) \in BOOLEAN
  BY DEF ImageTypeOK
<1>2. QED
  BY <1>1 DEF Report, Line

\* What the end of an invocation leaves well typed.
LEMMA EndType ==
    ASSUME ImageTypeOK, NEW s \in Streams, NEW how \in {"ok", "bad_request", "error", "killed"},
           NEW n \in 0 .. NumImages, End(s, how, n)
    PROVE  /\ at' \in [Streams -> {"idle", "load", "write", "open", "images"}]
           /\ log' \in Seq(Line)
           /\ UNCHANGED <<model, todo, used, missed>>
<1>1. Report(s, model[s], how, n) \in Line
  BY ReportType DEF ImageTypeOK
<1>2. QED
  BY <1>1 DEF End, ImageTypeOK

\* The type invariant by what its parts are about.
ConfigType ==
    /\ live \in EnvModels /\ env \in [Streams -> Models \cup {NoModel}]
    /\ life \in [Streams -> {"none", "live", "stale"}]
RunType ==
    /\ at \in [Streams -> {"idle", "load", "write", "open", "images"}]
    /\ model \in [Streams -> Models \cup {NoModel}]
    /\ todo \in [Streams -> SUBSET (1 .. Objects)] /\ used \in [Streams -> 0 .. NumImages]
    /\ missed \in [Streams -> BOOLEAN]
    /\ log \in Seq(Line)
DiskType ==
    /\ loaded \in [Streams -> SUBSET Supported]
    /\ disk \in [Streams -> [Models -> {"absent", "torn", "whole"}]]
    /\ spoilt \in [Streams -> SUBSET (Models \cup {NoModel})]
    /\ faults \in 0 .. MaxFaults /\ changes \in 0 .. MaxChanges
ImagesType ==
    /\ images \in [Streams -> [whole : SUBSET Files, torn : SUBSET Files]]
    /\ \A s \in Streams : images[s].whole \cap images[s].torn = {}

LEMMA TypeParts == ImageTypeOK <=> ConfigType /\ RunType /\ DiskType /\ ImagesType
  BY DEF ImageTypeOK, ConfigType, RunType, DiskType, ImagesType

LEMMA ImageTypeInit == ImageInit => ImageTypeOK
<1> SUFFICES ASSUME ImageInit PROVE ImageTypeOK
  OBVIOUS
<1> USE ImageAssumption DEF ImageAssumption, ImageInit
<1>1. ConfigType /\ RunType
  BY DEF ConfigType, RunType
<1>2. DiskType
  BY DEF DiskType
<1>3. ImagesType
  BY DEF ImagesType
<1>4. QED
  BY <1>1, <1>2, <1>3, TypeParts

LEMMA ConfigTypeStep == ASSUME ImageTypeOK, [ImageNext]_imageVars PROVE ConfigType'
<1> USE ImageAssumption, TypeParts DEF ImageAssumption, ConfigType
<1>1. ASSUME NEW m \in EnvModels, SetModelName(m) PROVE ConfigType'
  BY <1>1 DEF SetModelName
<1>2. ASSUME NEW s \in Streams, Take(s), UNCHANGED live PROVE ConfigType'
  BY <1>2 DEF Take
<1>3. ASSUME NEW s \in Streams, Reject(s) PROVE ConfigType'
  BY <1>2, <1>3 DEF Reject
<1>4. ASSUME NEW s \in Streams, NEW p \in PayloadModels, Invoke(s, p) PROVE ConfigType'
  BY <1>2, <1>4 DEF Invoke
<1>5. ASSUME NEW s \in Streams, Kill(s) \/ Handler(s) PROVE ConfigType'
  BY <1>5 DEF Kill, Handler, Unsupported, Load, Write, Open, Fetch, ListingFails, Answer
<1>6. CASE UNCHANGED imageVars
  BY <1>6 DEF imageVars
<1>7. QED
  BY <1>1, <1>3, <1>4, <1>5, <1>6 DEF ImageNext

LEMMA RunTypeStep == ASSUME ImageTypeOK, [ImageNext]_imageVars PROVE RunType'
<1>0. RunType /\ NumImages \in Nat /\ Objects \in Nat
  BY ImageAssumption, TypeParts DEF ImageAssumption
<1> USE <1>0 DEF RunType
<1>1. ASSUME NEW m \in EnvModels, SetModelName(m) PROVE RunType'
  BY <1>1 DEF SetModelName, runVars
<1>2. ASSUME NEW s \in Streams, NEW how \in {"ok", "bad_request", "error", "killed"},
             NEW n \in 0 .. NumImages, End(s, how, n)
      PROVE  RunType'
  BY <1>2, EndType
<1>3. ASSUME NEW s \in Streams, Kill(s) PROVE RunType'
  BY <1>2, <1>3 DEF Kill
<1>4. ASSUME NEW s \in Streams, Reject(s) PROVE RunType'
  <2>1. Report(s, NoModel, "bad_request", 0) \in Line
    <3>1. 0 \in 0 .. NumImages /\ NoModel \in Models \cup {NoModel}
      OBVIOUS
    <3>2. QED
      BY <3>1, ReportType
  <2>2. QED
    BY <1>4, <2>1 DEF Reject
<1>5. ASSUME NEW s \in Streams, NEW p \in PayloadModels, Invoke(s, p) PROVE RunType'
  <2>1. NamedModel(s, p) \in Models \cup {NoModel}
    <3>1. ConfigType'
      BY <1>5, ConfigTypeStep DEF ImageNext
    <3>2. QED
      BY <3>1, ImageAssumption DEF ConfigType, NamedModel, ImageAssumption
  <2>2. [kind |-> "marker", stream |-> s, model |-> NamedModel(s, p),
         outcome |-> "none", images |-> 0, excused |-> FALSE] \in Line
    BY <2>1 DEF Line
  <2>3. log' \in Seq(Line)
    BY <1>5, <2>2 DEF Invoke
  <2>4. missed' \in [Streams -> BOOLEAN]
    BY <1>5 DEF Invoke
  <2>5. todo' \in [Streams -> SUBSET (1 .. Objects)]
    BY <1>5 DEF Invoke
  <2>6. QED
    BY <1>5, <2>1, <2>3, <2>4, <2>5 DEF Invoke
<1>6. ASSUME NEW s \in Streams, Unsupported(s) PROVE RunType'
  <2>1. PICK how \in {"bad_request", "error"} : End(s, how, 0)
    BY <1>6 DEF Unsupported
  <2>2. QED
    BY <1>2, <2>1
<1>7. ASSUME NEW s \in Streams, Load(s) PROVE RunType'
  <2>1. 0 \in 0 .. NumImages
    OBVIOUS
  <2>2. CASE End(s, "error", 0)
    BY <2>1, <2>2, <1>2
  <2>3. CASE \E w \in {"images", "open", "write"} : GoTo(s, w) /\ log' = log
    BY <2>3 DEF GoTo
  <2>4. QED
    BY <1>7, <2>2, <2>3 DEF Load
<1>8. ASSUME NEW s \in Streams, Write(s) PROVE RunType'
  <2>1. 0 \in 0 .. NumImages
    OBVIOUS
  <2>2. CASE End(s, "error", 0)
    BY <2>1, <2>2, <1>2
  <2>3. CASE GoTo(s, "open") /\ log' = log
    BY <2>3 DEF GoTo
  <2>4. QED
    BY <1>8, <2>2, <2>3 DEF Write
<1>9. ASSUME NEW s \in Streams, Open(s) PROVE RunType'
  <2>1. 0 \in 0 .. NumImages
    OBVIOUS
  <2>2. CASE End(s, "error", 0)
    BY <2>1, <2>2, <1>2
  <2>3. CASE GoTo(s, "images") /\ log' = log
    BY <2>3 DEF GoTo
  <2>4. QED
    BY <1>9, <2>2, <2>3 DEF Open
<1>10. ASSUME NEW s \in Streams, Fetch(s) PROVE RunType'
  <2>1. used[s] \in 0 .. NumImages - 1
    BY <1>10 DEF Fetch, Fetching
  <2>2. used' = used \/ used' = [used EXCEPT ![s] = used[s] + 1]
    BY <1>10 DEF Fetch
  <2>3. used' \in [Streams -> 0 .. NumImages]
    <3>1. used[s] + 1 \in 0 .. NumImages
      BY <2>1
    <3>2. QED
      BY <3>1, <2>2
  <2>4. todo' \in [Streams -> SUBSET (1 .. Objects)] /\ missed' \in [Streams -> BOOLEAN]
        /\ UNCHANGED <<at, model, log>>
    BY <1>10 DEF Fetch
  <2>5. QED
    BY <2>3, <2>4
<1>11. ASSUME NEW s \in Streams, ListingFails(s) PROVE RunType'
  BY <1>2, <1>11 DEF ListingFails
<1>12. ASSUME NEW s \in Streams, Answer(s) PROVE RunType'
  <2>1. Cardinality(FromCache(s)) \in 0 .. NumImages
    BY ServedFromCache
  <2>2. QED
    BY <1>2, <1>12, <2>1 DEF Answer
<1>13. CASE UNCHANGED imageVars
  BY <1>13 DEF imageVars, runVars
<1>14. QED
  BY <1>1, <1>3, <1>4, <1>5, <1>6, <1>7, <1>8, <1>9, <1>10, <1>11, <1>12, <1>13
  DEF ImageNext, Handler

\* A model that is being loaded is one the loader knows: what the type of `loaded` rests on.
ModelsInUse == \A s \in Streams : at[s] \in {"write", "open"} => model[s] \in Supported

LEMMA ModelsInUseStep ==
    ASSUME ImageTypeOK, ModelsInUse, [ImageNext]_imageVars PROVE ModelsInUse'
<1>0. RunType
  BY TypeParts
<1> USE <1>0 DEF RunType, ModelsInUse
<1>1. ASSUME NEW m \in EnvModels, SetModelName(m) PROVE ModelsInUse'
  BY <1>1 DEF SetModelName, runVars
<1>2. ASSUME NEW s \in Streams, NEW how, NEW n, End(s, how, n) PROVE ModelsInUse'
  BY <1>2 DEF End
<1>3. ASSUME NEW s \in Streams, Kill(s) \/ Unsupported(s) \/ ListingFails(s) \/ Answer(s)
      PROVE  ModelsInUse'
  BY <1>2, <1>3 DEF Kill, Unsupported, ListingFails, Answer
<1>4. ASSUME NEW s \in Streams, Reject(s) PROVE ModelsInUse'
  BY <1>4 DEF Reject, Take
<1>5. ASSUME NEW s \in Streams, NEW p \in PayloadModels, Invoke(s, p) PROVE ModelsInUse'
  BY <1>5 DEF Invoke
<1>6. ASSUME NEW s \in Streams, Load(s) PROVE ModelsInUse'
  BY <1>6 DEF Load, GoTo, End
<1>7. ASSUME NEW s \in Streams, Write(s) \/ Open(s) PROVE ModelsInUse'
  BY <1>7 DEF Write, Open, GoTo, End
<1>8. ASSUME NEW s \in Streams, Fetch(s) PROVE ModelsInUse'
  BY <1>8 DEF Fetch
<1>9. CASE UNCHANGED imageVars
  BY <1>9 DEF imageVars, runVars
<1>10. QED
  BY <1>1, <1>3, <1>4, <1>5, <1>6, <1>7, <1>8, <1>9 DEF ImageNext, Handler

LEMMA DiskTypeStep ==
    ASSUME ImageTypeOK, ModelsInUse, [ImageNext]_imageVars PROVE DiskType'
<1>0. DiskType /\ RunType /\ MaxFaults \in Nat /\ MaxChanges \in Nat /\ Supported \subseteq Models
  BY ImageAssumption, TypeParts DEF ImageAssumption
<1> USE <1>0 DEF DiskType
<1>1. Fault => faults' \in 0 .. MaxFaults
  BY DEF Fault
<1>2. ASSUME NEW m \in EnvModels, SetModelName(m) PROVE DiskType'
  BY <1>2 DEF SetModelName, tmpVars
<1>3. ASSUME NEW s \in Streams, Kill(s) PROVE DiskType'
  <2>1. loaded' = [loaded EXCEPT ![s] = {}] /\ Fault /\ UNCHANGED <<disk, changes>>
    BY <1>3 DEF Kill
  <2>2. spoilt' \in [Streams -> SUBSET (Models \cup {NoModel})]
    BY <1>3 DEF Kill, SpoilModel, RunType
  <2>3. QED
    BY <1>1, <2>1, <2>2
<1>4. ASSUME NEW s \in Streams, Reject(s) PROVE DiskType'
  BY <1>4 DEF Reject, tmpVars
<1>5. ASSUME NEW s \in Streams, NEW p \in PayloadModels, Invoke(s, p) PROVE DiskType'
  BY <1>5 DEF Invoke, tmpVars
<1>6. ASSUME NEW s \in Streams, Unsupported(s) \/ ListingFails(s) \/ Answer(s) PROVE DiskType'
  <2>1. UNCHANGED <<loaded, disk, spoilt, changes>> /\ (Fault \/ UNCHANGED faults)
    BY <1>6 DEF Unsupported, ListingFails, Answer, tmpVars
  <2>2. QED
    BY <1>1, <2>1
<1>7. ASSUME NEW s \in Streams, Load(s) PROVE DiskType'
  <2>1. UNCHANGED <<loaded, spoilt, changes>> /\ (Fault \/ UNCHANGED faults)
    BY <1>7 DEF Load
  <2>2. disk' = disk \/ disk' = [disk EXCEPT ![s][model[s]] = "torn"]
    BY <1>7 DEF Load
  <2>3. disk' \in [Streams -> [Models -> {"absent", "torn", "whole"}]]
    BY <2>2
  <2>4. QED
    BY <1>1, <2>1, <2>3
<1>8. ASSUME NEW s \in Streams, Write(s) PROVE DiskType'
  <2>1. UNCHANGED <<loaded, changes>> /\ (Fault \/ UNCHANGED faults)
    BY <1>8 DEF Write
  <2>2. disk' = disk \/ disk' = [disk EXCEPT ![s][model[s]] = "whole"]
    BY <1>8 DEF Write
  <2>3. spoilt' \in [Streams -> SUBSET (Models \cup {NoModel})]
    BY <1>8 DEF Write, SpoilModel, RunType
  <2>4. QED
    BY <1>1, <2>1, <2>2, <2>3
<1>9. ASSUME NEW s \in Streams, Fetch(s) PROVE DiskType'
  <2>1. UNCHANGED <<loaded, disk, spoilt, changes>> /\ (Fault \/ UNCHANGED faults)
    BY <1>9 DEF Fetch
  <2>2. QED
    BY <1>1, <2>1
<1>11. CASE UNCHANGED imageVars
  BY <1>11 DEF imageVars, tmpVars
<1>12. ASSUME NEW s \in Streams, Open(s) PROVE DiskType'
  <2>1. model[s] \in Supported
    BY <1>12 DEF Open, ModelsInUse
  <2>2. loaded' \in [Streams -> SUBSET Supported]
    BY <1>12, <2>1 DEF Open
  <2>3. QED
    BY <1>12, <2>2 DEF Open, tmpVars
<1>13. QED
  BY <1>2, <1>3, <1>4, <1>5, <1>6, <1>7, <1>8, <1>9, <1>11, <1>12 DEF ImageNext, Handler

\* Fetching an image of the bucket makes a file whole, or tears it when it cannot be saved, and a kill
\* tears one; nothing else writes any.
LEMMA ImagesTypeStep == ASSUME ImageTypeOK, [ImageNext]_imageVars PROVE ImagesType'
<1>0. ImagesType /\ RunType /\ NumImages \in Nat /\ Objects \in Nat
  BY ImageAssumption, TypeParts DEF ImageAssumption
<1>1. ASSUME UNCHANGED images PROVE ImagesType'
  BY <1>0, <1>1 DEF ImagesType
<1>2. ASSUME NEW s \in Streams, NEW o \in todo[s], used[s] < NumImages,
             \/ images' = [images EXCEPT ![s] = [whole |-> @.whole \cup {<<used[s], o>>},
                                                 torn |-> @.torn \ {<<used[s], o>>}]]
             \/ images' = [images EXCEPT ![s] = [whole |-> @.whole \ {<<used[s], o>>},
                                                 torn |-> @.torn \cup {<<used[s], o>>}]]
      PROVE  ImagesType'
  <2> DEFINE file == <<used[s], o>>
  <2>1. file \in Files
    <3>1. used[s] \in 0 .. NumImages - 1 /\ o \in 1 .. Objects
      BY <1>0, <1>2 DEF RunType
    <3>2. QED
      BY <3>1 DEF Files
  <2>2. /\ images[s].whole \in SUBSET Files /\ images[s].torn \in SUBSET Files
        /\ images[s].whole \cap images[s].torn = {}
    BY <1>0 DEF ImagesType
  <2> HIDE DEF file
  <2> DEFINE fetched == [whole |-> images[s].whole \cup {file}, torn |-> images[s].torn \ {file}]
             cut == [whole |-> images[s].whole \ {file}, torn |-> images[s].torn \cup {file}]
  <2>3. /\ fetched \in [whole : SUBSET Files, torn : SUBSET Files]
        /\ cut \in [whole : SUBSET Files, torn : SUBSET Files]
        /\ fetched.whole \cap fetched.torn = {} /\ cut.whole \cap cut.torn = {}
    BY <2>1, <2>2
  <2>4. images' = [images EXCEPT ![s] = fetched] \/ images' = [images EXCEPT ![s] = cut]
    BY <1>2 DEF file
  <2> HIDE DEF fetched, cut
  <2>5. QED
    BY <1>0, <2>3, <2>4 DEF ImagesType
<1>3. ASSUME NEW m \in EnvModels, SetModelName(m) PROVE ImagesType'
  BY <1>1, <1>3 DEF SetModelName, tmpVars
<1>4. ASSUME NEW s \in Streams, Kill(s) PROVE ImagesType'
  BY <1>1, <1>2, <1>4 DEF Kill, TearImage
<1>5. ASSUME NEW s \in Streams, Fetch(s) PROVE ImagesType'
  BY <1>1, <1>2, <1>5 DEF Fetch, Fetching, TearImage
<1>6. ASSUME NEW s \in Streams,
             \/ Reject(s) \/ Unsupported(s) \/ Load(s) \/ Write(s) \/ Open(s)
             \/ ListingFails(s) \/ Answer(s)
      PROVE  ImagesType'
  BY <1>1, <1>6 DEF Reject, Unsupported, Load, Write, Open, ListingFails, Answer, tmpVars
<1>7. ASSUME NEW s \in Streams, NEW p \in PayloadModels, Invoke(s, p) PROVE ImagesType'
  BY <1>1, <1>7 DEF Invoke, tmpVars
<1>8. CASE UNCHANGED imageVars
  BY <1>1, <1>8 DEF imageVars, tmpVars
<1>9. QED
  BY <1>3, <1>4, <1>5, <1>6, <1>7, <1>8 DEF ImageNext, Handler

LEMMA ImageTypeStep ==
    ASSUME ImageTypeOK, ModelsInUse, [ImageNext]_imageVars PROVE ImageTypeOK' /\ ModelsInUse'
<1>1. ConfigType' /\ RunType' /\ DiskType' /\ ImagesType'
  BY ConfigTypeStep, RunTypeStep, DiskTypeStep, ImagesTypeStep
<1>2. ImageTypeOK'
  BY <1>1 DEF ImageTypeOK, ConfigType, RunType, DiskType, ImagesType
<1>3. QED
  BY <1>2, ModelsInUseStep

\* What the service hands out: rows of the log, in one of the two orders, up to the limit.
LEMMA CompletesWithRows ==
    ASSUME ImageTypeOK, Completes
    PROVE  /\ results' \in Seq(Line) /\ Len(results') <= RowLimit
           /\ \A k \in DOMAIN results' : \E i \in DOMAIN log : results'[k] = log[i]
<1>1. PICK start \in {1, 2}, lag \in [Streams -> {0, 1}] :
          LET asked == Asked(Visible(start, lag)) IN
          \E order \in [1 .. Cardinality(asked) -> asked] :
              results' = [k \in 1 .. Limited(Cardinality(asked)) |-> log[order[k]]]
  BY DEF Completes
<1> DEFINE asked == Asked(Visible(start, lag))
<1>2. PICK order \in [1 .. Cardinality(asked) -> asked] :
          results' = [k \in 1 .. Limited(Cardinality(asked)) |-> log[order[k]]]
  BY <1>1
<1>3. log \in Seq(Line) /\ RowLimit \in Nat
  BY LogsAssumption DEF LogsAssumption, ImageTypeOK
<1>4. asked \subseteq DOMAIN log
  BY DEF Asked, Visible
<1>5. Cardinality(asked) \in Nat
  <2>1. IsFiniteSet(1 .. Len(log)) /\ DOMAIN log = 1 .. Len(log) /\ Len(log) \in Nat
    BY <1>3, FS_Interval
  <2>2. QED
    BY <1>4, <2>1, FS_Subset, FS_CardinalityType
<1> HIDE DEF asked
<1>6. /\ Limited(Cardinality(asked)) \in Nat
      /\ Limited(Cardinality(asked)) <= RowLimit /\ Limited(Cardinality(asked)) <= Cardinality(asked)
  BY <1>3, <1>5 DEF Limited
<1>7. \A k \in 1 .. Limited(Cardinality(asked)) : order[k] \in DOMAIN log
  BY <1>2, <1>4, <1>5, <1>6
<1>8. \A k \in 1 .. Limited(Cardinality(asked)) : log[order[k]] \in Line
  BY <1>3, <1>7
<1> DEFINE n == Limited(Cardinality(asked))
<1> HIDE DEF n
<1>9. n \in Nat /\ results' = [k \in 1 .. n |-> log[order[k]]] /\ n <= RowLimit
  BY <1>2, <1>6 DEF n
<1>10. results' \in Seq(Line) /\ Len(results') = n /\ DOMAIN results' = 1 .. n
  <2>1. \A k \in 1 .. n : log[order[k]] \in Line
    BY <1>8 DEF n
  <2>2. QED
    BY <1>9, <2>1
<1>11. QED
  BY <1>7, <1>9, <1>10 DEF n

LEMMA TypeInit == Init => TypeOK /\ ModelsInUse
<1> SUFFICES ASSUME Init PROVE TypeOK /\ ModelsInUse
  OBVIOUS
<1>1. ImageTypeOK /\ QueryTypeOK
  BY ImageTypeInit, QueryInvInit DEF Init
<1>2. results \in Seq(Line) /\ Len(results) <= RowLimit
  BY LogsAssumption DEF Init, LogsAssumption
<1>3. ModelsInUse
  BY DEF Init, ImageInit, ModelsInUse
<1>4. QED
  BY <1>1, <1>2, <1>3 DEF TypeOK

LEMMA TypeStep ==
    TypeOK /\ ModelsInUse /\ NoQueryLeftRunning /\ [Next]_vars =>
        TypeOK' /\ ModelsInUse' /\ NoQueryLeftRunning'
<1> SUFFICES ASSUME TypeOK, ModelsInUse, NoQueryLeftRunning, [Next]_vars
             PROVE  TypeOK' /\ ModelsInUse' /\ NoQueryLeftRunning'
  OBVIOUS
<1>1. [ImageNext]_imageVars
  BY DEF Next, FunctionStep, Start, Completes, ServiceFails, CallerStep, Stopped, vars
<1>2. ImageTypeOK' /\ ModelsInUse'
  BY <1>1, ImageTypeStep DEF TypeOK
<1>3. QueryTypeOK' /\ NoQueryLeftRunning'
  BY LogsStepIsQueryStep, QueryInvStep DEF TypeOK
<1>4. results' \in Seq(Line) /\ Len(results') <= RowLimit
  <2>1. CASE Completes
    BY <2>1, CompletesWithRows DEF TypeOK
  <2>2. CASE Start
    BY <2>2, LogsAssumption DEF Start, LogsAssumption
  <2>3. CASE UNCHANGED results
    BY <2>3 DEF TypeOK
  <2>4. QED
    BY <2>1, <2>2, <2>3 DEF Next, FunctionStep, ServiceFails, CallerStep, Stopped, vars
<1>5. QED
  BY <1>2, <1>3, <1>4 DEF TypeOK

\* The state of the function, of the query and of its answer stays well typed: among the rest, a
\* loader only ever holds models it supports, an image is used at most num_images times, and an
\* answer has no more rows than its limit.
THEOREM TypesHold == Spec => []TypeOK
<1>1. Init => TypeOK /\ ModelsInUse /\ NoQueryLeftRunning
  BY TypeInit, QueryInvInit DEF Init
<1>2. QED
  BY <1>1, TypeStep, PTL DEF Spec
-----------------------------------------------------------------------------
(***************************************************************************)
(* The work of an invocation                                               *)
(***************************************************************************)
\* An invocation that was refused nothing has its images in the cache, or those it has used and those
\* it may still list are enough.
Enough(s) ==
    \/ /\ todo[s] = {} /\ used[s] = 0
       /\ Cardinality(images[s].whole \cup images[s].torn) >= NumImages
    \/ Cardinality(todo[s]) + used[s] >= NumImages

EnoughImages == \A s \in Streams : at[s] # "idle" /\ ~missed[s] => Enough(s)

LEMMA TodoCounts ==
    ASSUME ImageTypeOK, NEW s \in Streams
    PROVE  /\ Cardinality(todo[s]) \in Nat
           /\ \A o \in todo[s] : Cardinality(todo[s] \ {o}) = Cardinality(todo[s]) - 1
<1>1. IsFiniteSet(todo[s])
  <2>1. todo[s] \in SUBSET (1 .. Objects)
    BY DEF ImageTypeOK
  <2>2. IsFiniteSet(1 .. Objects)
    BY ImageAssumption, FS_Interval DEF ImageAssumption
  <2>3. QED
    BY <2>1, <2>2, FS_Subset
<1>2. QED
  BY <1>1, FS_CardinalityType, FS_RemoveElement

LEMMA EnoughImagesStep ==
    ASSUME ImageTypeOK, EnoughImages, [ImageNext]_imageVars PROVE EnoughImages'
<1>0. RunType /\ NumImages \in Nat /\ Objects \in Nat
  BY ImageAssumption, TypeParts DEF ImageAssumption
\* What an environment is busy with is its own.
<1>1. ASSUME NEW s \in Streams,
             \A r \in Streams \ {s} : /\ at'[r] = at[r] /\ todo'[r] = todo[r] /\ used'[r] = used[r]
                                      /\ missed'[r] = missed[r] /\ images'[r] = images[r],
             at'[s] # "idle" /\ ~missed'[s] => Enough(s)'
      PROVE  EnoughImages'
  <2> SUFFICES ASSUME NEW r \in Streams, at'[r] # "idle", ~missed'[r] PROVE Enough(r)'
    BY DEF EnoughImages
  <2>1. CASE r = s
    BY <1>1, <2>1
  <2>2. CASE r # s
    BY <1>1, <2>2 DEF EnoughImages, Enough
  <2>3. QED
    BY <2>1, <2>2
<1>2. ASSUME NEW s \in Streams, NEW how, NEW n, End(s, how, n),
             \A r \in Streams \ {s} : images'[r] = images[r]
      PROVE  EnoughImages'
  <2>1. at'[s] = "idle" /\ \A r \in Streams \ {s} : at'[r] = at[r]
    BY <1>0, <1>2 DEF End, RunType
  <2>2. UNCHANGED <<todo, used, missed>>
    BY <1>2 DEF End
  <2>3. QED
    BY <1>1, <1>2, <2>1, <2>2
<1>3. ASSUME UNCHANGED <<todo, used, missed, images>>,
             \A r \in Streams : at'[r] # "idle" => at[r] # "idle"
      PROVE  EnoughImages'
  BY <1>3 DEF EnoughImages, Enough
<1>4. ASSUME NEW m \in EnvModels, SetModelName(m) PROVE EnoughImages'
  BY <1>3, <1>4 DEF SetModelName, runVars, tmpVars
<1>5. ASSUME NEW s \in Streams, Kill(s) PROVE EnoughImages'
  <2>1. \A r \in Streams \ {s} : images'[r] = images[r]
    BY <1>5, TypeParts DEF Kill, TearImage, ImagesType
  <2>2. QED
    BY <1>2, <1>5, <2>1 DEF Kill
<1>6. ASSUME NEW s \in Streams, Reject(s) PROVE EnoughImages'
  BY <1>3, <1>6 DEF Reject, tmpVars
<1>7. ASSUME NEW s \in Streams, NEW p \in PayloadModels, Invoke(s, p) PROVE EnoughImages'
  <2>1. /\ at' = [at EXCEPT ![s] = "load"] /\ used' = [used EXCEPT ![s] = 0]
        /\ todo' = [todo EXCEPT ![s] = IF Cached(s) THEN {} ELSE 1 .. Objects]
        /\ missed' = [missed EXCEPT ![s] = Objects < NumImages] /\ UNCHANGED images
    BY <1>7 DEF Invoke, tmpVars
  <2>2. Cardinality(1 .. Objects) = Objects
    BY <1>0, FS_Interval
  <2>3. used'[s] = 0 /\ (~missed'[s] => Objects >= NumImages)
        /\ todo'[s] = IF Cached(s) THEN {} ELSE 1 .. Objects
    <3>1. missed'[s] = (Objects < NumImages)
      BY <1>0, <2>1, Zenon DEF RunType
    <3>2. ~(Objects < NumImages) => Objects >= NumImages
      BY <1>0
    <3>3. used'[s] = 0 /\ todo'[s] = IF Cached(s) THEN {} ELSE 1 .. Objects
      BY <1>0, <2>1 DEF RunType
    <3>4. QED
      BY <3>1, <3>2, <3>3
  <2>4. ~missed'[s] => Enough(s)'
    BY <1>0, <2>1, <2>2, <2>3 DEF Enough, Cached
  <2>5. \A r \in Streams \ {s} : /\ at'[r] = at[r] /\ todo'[r] = todo[r] /\ used'[r] = used[r]
                                 /\ missed'[r] = missed[r] /\ images'[r] = images[r]
    BY <1>0, <2>1 DEF RunType
  <2>6. QED
    BY <1>1, <2>4, <2>5
<1>8. ASSUME NEW s \in Streams, Unsupported(s) \/ ListingFails(s) \/ Answer(s) PROVE EnoughImages'
  BY <1>2, <1>8 DEF Unsupported, ListingFails, Answer, tmpVars
<1>9. ASSUME NEW s \in Streams, Load(s) \/ Write(s) \/ Open(s) PROVE EnoughImages'
  <2>1. UNCHANGED <<todo, used, missed, images>> /\ at[s] # "idle"
        /\ \E w : at' = [at EXCEPT ![s] = w]
    BY <1>9 DEF Load, Write, Open, GoTo, End, tmpVars
  <2>2. QED
    BY <1>0, <1>3, <2>1 DEF RunType
<1>10. ASSUME NEW s \in Streams, Fetch(s) PROVE EnoughImages'
  <2>1. PICK o \in todo[s] :
            /\ todo' = [todo EXCEPT ![s] = @ \ {o}]
            /\ \/ used' = [used EXCEPT ![s] = @ + 1] /\ UNCHANGED missed
               \/ missed' = [missed EXCEPT ![s] = TRUE] /\ UNCHANGED used
    BY <1>10 DEF Fetch
  <2>2. at[s] # "idle" /\ UNCHANGED at
    BY <1>10 DEF Fetch
  <2>3. ~missed'[s] => ~missed[s] /\ used'[s] = used[s] + 1
    BY <1>0, <2>1 DEF RunType
  <2>4. todo'[s] = todo[s] \ {o} /\ todo[s] # {}
    BY <1>0, <2>1 DEF RunType
  <2>5. ASSUME ~missed'[s] PROVE Enough(s)'
    <3>1. Cardinality(todo[s]) + used[s] >= NumImages
      BY <2>2, <2>3, <2>4, <2>5 DEF EnoughImages, Enough
    <3>2. Cardinality(todo'[s]) = Cardinality(todo[s]) - 1 /\ Cardinality(todo[s]) \in Nat
      BY <2>1, <2>4, TodoCounts
    <3>3. used[s] \in Nat
      BY <1>0 DEF RunType
    <3>4. Cardinality(todo'[s]) + used'[s] >= NumImages
      BY <1>0, <2>3, <2>5, <3>1, <3>2, <3>3
    <3>5. QED
      BY <3>4 DEF Enough
  <2>6. \A r \in Streams \ {s} : images'[r] = images[r]
    BY <1>10, TypeParts DEF Fetch, TearImage, ImagesType
  <2>7. \A r \in Streams \ {s} : /\ at'[r] = at[r] /\ todo'[r] = todo[r] /\ used'[r] = used[r]
                                 /\ missed'[r] = missed[r]
    BY <1>0, <2>1, <2>2 DEF RunType
  <2>8. QED
    BY <1>1, <2>5, <2>6, <2>7
<1>11. CASE UNCHANGED imageVars
  BY <1>3, <1>11 DEF imageVars, runVars, tmpVars
<1>12. QED
  BY <1>4, <1>5, <1>6, <1>7, <1>8, <1>9, <1>10, <1>11 DEF ImageNext, Handler

LEMMA SameWorkStep ==
    ASSUME ImageTypeOK, EnoughImages, SameWork, [ImageNext]_imageVars PROVE SameWork'
<1>0. log \in Seq(Line) /\ NumImages \in Nat \ {0}
  BY ImageAssumption DEF ImageAssumption, ImageTypeOK
\* A line that is not an answer, or counts all the images, may be logged.
<1>1. ASSUME NEW l, log' = Append(log, l),
             l.kind = "report" /\ l.outcome = "ok" /\ ~l.excused => l.images = NumImages
      PROVE  SameWork'
  <2> SUFFICES ASSUME NEW i \in DOMAIN log',
                      log'[i].kind = "report", log'[i].outcome = "ok", ~log'[i].excused
               PROVE  log'[i].images = NumImages
    BY DEF SameWork
  <2>1. (i \in DOMAIN log /\ log'[i] = log[i]) \/ log'[i] = l
    BY <1>0, <1>1
  <2>2. QED
    BY <1>1, <2>1 DEF SameWork
<1>2. ASSUME UNCHANGED log PROVE SameWork'
  BY <1>2 DEF SameWork
<1>3. ASSUME NEW s \in Streams, NEW m, NEW how, how # "ok", NEW n,
             log' = Append(log, Report(s, m, how, n))
      PROVE  SameWork'
  <2>1. Report(s, m, how, n).outcome # "ok"
    BY <1>3 DEF Report
  <2>2. QED
    BY <1>1, <1>3, <2>1
<1>4. ASSUME NEW m \in EnvModels, SetModelName(m) PROVE SameWork'
  BY <1>2, <1>4 DEF SetModelName
<1>5. ASSUME NEW s \in Streams, Kill(s) \/ Reject(s) \/ Unsupported(s) \/ ListingFails(s)
      PROVE  SameWork'
  BY <1>3, <1>5 DEF Kill, Reject, Unsupported, ListingFails, End
<1>6. ASSUME NEW s \in Streams, NEW p \in PayloadModels, Invoke(s, p) PROVE SameWork'
  <2> DEFINE l == [kind |-> "marker", stream |-> s, model |-> NamedModel(s, p),
                   outcome |-> "none", images |-> 0, excused |-> FALSE]
  <2>1. log' = Append(log, l) /\ l.kind # "report"
    BY <1>6 DEF Invoke
  <2> HIDE DEF l
  <2>2. QED
    BY <1>1, <2>1
<1>7. ASSUME NEW s \in Streams, Load(s) \/ Write(s) \/ Open(s) \/ Fetch(s) PROVE SameWork'
  <2>1. UNCHANGED log \/ log' = Append(log, Report(s, model[s], "error", 0))
    BY <1>7 DEF Load, Write, Open, Fetch, End
  <2>2. QED
    BY <1>2, <1>3, <2>1
<1>8. ASSUME NEW s \in Streams, Answer(s) PROVE SameWork'
  <2> DEFINE n == IF used[s] > 0 \/ missed[s] THEN used[s] ELSE Cardinality(FromCache(s))
  <2>1. /\ log' = Append(log, Report(s, model[s], "ok", n))
        /\ at[s] # "idle" /\ (todo[s] = {} \/ used[s] >= NumImages)
        /\ used[s] \in 0 .. NumImages
    BY <1>0, <1>8 DEF Answer, End, Fetching, ImageTypeOK
  <2>2. ASSUME ~missed[s], images[s].torn = {} PROVE n = NumImages
    <3>1. CASE used[s] >= NumImages
      BY <1>0, <2>1, <3>1
    <3>2. CASE todo[s] = {} /\ Cardinality(todo[s]) + used[s] >= NumImages
      <4>1. Cardinality(todo[s]) = 0
        BY <3>2, FS_EmptySet
      <4>2. QED
        BY <1>0, <2>1, <3>2, <4>1
    <3>3. CASE /\ used[s] = 0
               /\ Cardinality(images[s].whole \cup images[s].torn) >= NumImages
      BY <2>2, <3>3, ServedFromCache
    <3>4. QED
      BY <2>1, <2>2, <3>1, <3>2, <3>3 DEF EnoughImages, Enough
  <2> HIDE DEF n
  <2>3. ~Report(s, model[s], "ok", n).excused => Report(s, model[s], "ok", n).images = NumImages
    BY <2>2 DEF Report
  <2>4. QED
    BY <1>1, <2>1, <2>3
<1>9. CASE UNCHANGED imageVars
  BY <1>2, <1>9 DEF imageVars
<1>10. QED
  BY <1>4, <1>5, <1>6, <1>7, <1>8, <1>9 DEF ImageNext, Handler

LEMMA WorkInit == Init => EnoughImages /\ SameWork
  BY DEF Init, ImageInit, EnoughImages, SameWork

\* The durations that are compared belong to the same work, for every number of images, objects and
\* environments: an answer that counts fewer images was refused one, or found a torn one.
THEOREM AnswersDidTheSameWork == Spec => []SameWork
<1>1. [Next]_vars => [ImageNext]_imageVars
  BY DEF Next, FunctionStep, Start, Completes, ServiceFails, CallerStep, Stopped, vars
<1>2. TypeOK /\ EnoughImages /\ SameWork /\ [Next]_vars => EnoughImages' /\ SameWork'
  BY <1>1, EnoughImagesStep, SameWorkStep DEF TypeOK
<1>3. QED
  BY <1>2, WorkInit, TypesHold, PTL DEF Spec
-----------------------------------------------------------------------------
(***************************************************************************)
(* The rows of a model                                                     *)
(***************************************************************************)
\* What a line says of the environment that logged it: it has been created, with the model it ran.
TrueOf(l) ==
    /\ life[l.stream] # "none"
    /\ l.model \in {env[l.stream], NoModel}
    /\ l.kind = "marker" => l.model # NoModel

BusyTrue == \A s \in Streams : at[s] # "idle" => life[s] # "none" /\ model[s] = env[s]
LogTrue == \A i \in DOMAIN log : TrueOf(log[i])
ResultsTrue == \A i \in DOMAIN results : TrueOf(results[i])

EnvironmentsKeepTheirModel == BusyTrue /\ LogTrue /\ ResultsTrue

LEMMA CreatedOnce ==
    ASSUME ImageTypeOK, [ImageNext]_imageVars, NEW s \in Streams, life[s] # "none"
    PROVE  life'[s] # "none" /\ env'[s] = env[s]
<1> USE DEF ImageTypeOK
<1>1. ASSUME NEW m \in EnvModels, SetModelName(m) PROVE life'[s] # "none" /\ env'[s] = env[s]
  BY <1>1 DEF SetModelName
<1>2. ASSUME NEW r \in Streams, Take(r) PROVE life'[s] # "none" /\ env'[s] = env[s]
  BY <1>2 DEF Take
<1>3. ASSUME UNCHANGED <<life, env>> PROVE life'[s] # "none" /\ env'[s] = env[s]
  BY <1>3
<1>4. ASSUME NEW r \in Streams, Kill(r) \/ Handler(r) PROVE UNCHANGED <<life, env>>
  BY <1>4 DEF Kill, Handler, Unsupported, Load, Write, Open, Fetch, ListingFails, Answer
<1>5. QED
  BY <1>1, <1>2, <1>3, <1>4 DEF ImageNext, Reject, Invoke, imageVars

LEMMA LinesStayTrue ==
    ASSUME ImageTypeOK, [ImageNext]_imageVars, NEW l \in Line, TrueOf(l) PROVE TrueOf(l)'
<1>1. l.stream \in Streams
  BY DEF Line
<1>2. QED
  BY <1>1, CreatedOnce DEF TrueOf

LEMMA BusyStep ==
    ASSUME PayloadModels \subseteq {NoModel}, ImageTypeOK, BusyTrue, [ImageNext]_imageVars
    PROVE  BusyTrue'
<1>0. RunType
  BY TypeParts
<1>1. ASSUME \A r \in Streams : at'[r] # "idle" => at[r] # "idle" /\ model'[r] = model[r]
      PROVE  BusyTrue'
  BY <1>1, CreatedOnce DEF BusyTrue
<1>2. ASSUME NEW s \in Streams, NEW how, NEW n, End(s, how, n) PROVE BusyTrue'
  BY <1>0, <1>1, <1>2 DEF End, RunType
<1>3. ASSUME NEW s \in Streams, at[s] # "idle", UNCHANGED model,
             UNCHANGED at \/ \E w : at' = [at EXCEPT ![s] = w]
      PROVE  BusyTrue'
  BY <1>0, <1>1, <1>3 DEF RunType
<1>4. ASSUME NEW m \in EnvModels, SetModelName(m) PROVE BusyTrue'
  BY <1>1, <1>4 DEF SetModelName, runVars
<1>5. ASSUME NEW s \in Streams, Kill(s) \/ Unsupported(s) \/ ListingFails(s) \/ Answer(s)
      PROVE  BusyTrue'
  BY <1>2, <1>5 DEF Kill, Unsupported, ListingFails, Answer
<1>6. ASSUME NEW s \in Streams, Reject(s) PROVE BusyTrue'
  BY <1>0, <1>1, <1>6 DEF Reject, Take, RunType
<1>7. ASSUME NEW s \in Streams, NEW p \in PayloadModels, Invoke(s, p) PROVE BusyTrue'
  <2>1. /\ at' = [at EXCEPT ![s] = "load"] /\ life' = [life EXCEPT ![s] = "live"]
        /\ model' = [model EXCEPT ![s] = NamedModel(s, p)] /\ p = NoModel
    BY <1>7 DEF Invoke, Take
  <2>2. life'[s] # "none" /\ model'[s] = env'[s]
    BY <1>0, <2>1 DEF RunType, ImageTypeOK, NamedModel
  <2>3. ASSUME NEW r \in Streams \ {s}, at'[r] # "idle" PROVE life'[r] # "none" /\ model'[r] = env'[r]
    BY <1>0, <2>1, <2>3, CreatedOnce DEF RunType, BusyTrue
  <2>4. QED
    BY <2>2, <2>3 DEF BusyTrue
<1>8. ASSUME NEW s \in Streams, Load(s) \/ Write(s) \/ Open(s) \/ Fetch(s) PROVE BusyTrue'
  BY <1>3, <1>8 DEF Load, Write, Open, Fetch, GoTo, End
<1>9. CASE UNCHANGED imageVars
  BY <1>1, <1>9 DEF imageVars, runVars
<1>10. QED
  BY <1>4, <1>5, <1>6, <1>7, <1>8, <1>9 DEF ImageNext, Handler

LEMMA LogStep ==
    ASSUME PayloadModels \subseteq {NoModel}, ImageTypeOK, BusyTrue, LogTrue, [ImageNext]_imageVars
    PROVE  LogTrue'
<1>0. log \in Seq(Line) /\ RunType /\ ConfigType
  BY TypeParts DEF RunType
<1>1. \A l \in Line : TrueOf(l) => TrueOf(l)'
  BY LinesStayTrue
<1>2. \A i \in DOMAIN log : log[i] \in Line /\ TrueOf(log[i])
  BY <1>0 DEF LogTrue
<1>3. ASSUME UNCHANGED log PROVE LogTrue'
  BY <1>1, <1>2, <1>3 DEF LogTrue, TrueOf
<1>4. ASSUME NEW l, log' = Append(log, l), TrueOf(l)' PROVE LogTrue'
  <2> SUFFICES ASSUME NEW i \in DOMAIN log'
               PROVE  /\ life'[log'[i].stream] # "none"
                      /\ log'[i].model \in {env'[log'[i].stream], NoModel}
                      /\ log'[i].kind = "marker" => log'[i].model # NoModel
    BY DEF LogTrue, TrueOf
  <2>1. log'[i] = l \/ (i \in DOMAIN log /\ log'[i] = log[i])
    BY <1>0, <1>4
  <2>2. QED
    BY <1>1, <1>2, <1>4, <2>1 DEF TrueOf
<1>5. ASSUME NEW s \in Streams, NEW how, NEW n, at[s] # "idle",
             log' = Append(log, Report(s, model[s], how, n))
      PROVE  LogTrue'
  <2> DEFINE l == Report(s, model[s], how, n)
  <2>1. l.stream = s /\ l.model = model[s] /\ l.kind # "marker"
    BY DEF Report
  <2> HIDE DEF l
  <2>2. \E k : log' = Append(log, k) /\ k.stream = s /\ k.model = model[s] /\ k.kind # "marker"
    BY <1>5, <2>1 DEF l
  <2>3. PICK k : log' = Append(log, k) /\ k.stream = s /\ k.model = model[s] /\ k.kind # "marker"
    BY <2>2
  <2>4. TrueOf(k)'
    BY <1>5, <2>3, CreatedOnce DEF TrueOf, BusyTrue
  <2>5. QED
    BY <1>4, <2>3, <2>4
<1>6. ASSUME NEW m \in EnvModels, SetModelName(m) PROVE LogTrue'
  BY <1>3, <1>6 DEF SetModelName
<1>7. ASSUME NEW s \in Streams, Kill(s) \/ Unsupported(s) \/ ListingFails(s) \/ Answer(s)
      PROVE  LogTrue'
  BY <1>5, <1>7 DEF Kill, Unsupported, ListingFails, Answer, End
<1>8. ASSUME NEW s \in Streams, Reject(s) PROVE LogTrue'
  <2>1. life'[s] # "none"
    BY <1>0, <1>8 DEF Reject, Take, ConfigType
  <2>2. PICK k : log' = Append(log, k) /\ k.stream = s /\ k.model = NoModel /\ k.kind # "marker"
    BY <1>8 DEF Reject, Report
  <2>3. TrueOf(k)'
    BY <2>1, <2>2 DEF TrueOf
  <2>4. QED
    BY <1>4, <2>2, <2>3
<1>9. ASSUME NEW s \in Streams, NEW p \in PayloadModels, Invoke(s, p) PROVE LogTrue'
  <2>1. life'[s] # "none" /\ NamedModel(s, p) = env'[s] /\ env'[s] # NoModel
    BY <1>0, <1>9 DEF Invoke, Take, NamedModel, ConfigType
  <2>2. PICK k : log' = Append(log, k) /\ k.stream = s /\ k.model = env'[s]
    BY <1>9, <2>1 DEF Invoke
  <2>3. TrueOf(k)'
    BY <2>1, <2>2 DEF TrueOf
  <2>4. QED
    BY <1>4, <2>2, <2>3
<1>10. ASSUME NEW s \in Streams, Load(s) \/ Write(s) \/ Open(s) \/ Fetch(s) PROVE LogTrue'
  <2>1. at[s] # "idle" /\ (UNCHANGED log \/ log' = Append(log, Report(s, model[s], "error", 0)))
    BY <1>10 DEF Load, Write, Open, Fetch, End
  <2>2. QED
    BY <1>3, <1>5, <2>1
<1>11. CASE UNCHANGED imageVars
  BY <1>3, <1>11 DEF imageVars
<1>12. QED
  BY <1>6, <1>7, <1>8, <1>9, <1>10, <1>11 DEF ImageNext, Handler

LEMMA EnvironmentsStep ==
    ASSUME PayloadModels \subseteq {NoModel}, TypeOK, EnvironmentsKeepTheirModel, [Next]_vars
    PROVE  EnvironmentsKeepTheirModel'
<1>1. [ImageNext]_imageVars
  BY DEF Next, FunctionStep, Start, Completes, ServiceFails, CallerStep, Stopped, vars
<1>2. ImageTypeOK /\ log \in Seq(Line) /\ results \in Seq(Line)
  BY DEF TypeOK, ImageTypeOK
<1>3. BusyTrue' /\ LogTrue'
  BY <1>1, <1>2, BusyStep, LogStep DEF EnvironmentsKeepTheirModel
<1>4. \A l \in Line : TrueOf(l) => TrueOf(l)'
  BY <1>1, <1>2, LinesStayTrue
<1>5. CASE Completes
  <2>1. \A k \in DOMAIN results' : \E i \in DOMAIN log : results'[k] = log[i]
    BY <1>2, <1>5, CompletesWithRows
  <2>2. UNCHANGED <<life, env, log>>
    BY <1>5 DEF Completes, imageVars
  <2>3. ResultsTrue'
    BY <2>1, <2>2 DEF EnvironmentsKeepTheirModel, LogTrue, ResultsTrue, TrueOf
  <2>4. QED
    BY <1>3, <2>3 DEF EnvironmentsKeepTheirModel
<1>6. CASE Start
  BY <1>3, <1>6 DEF Start, EnvironmentsKeepTheirModel, ResultsTrue
<1>7. CASE UNCHANGED results
  <2>1. \A i \in DOMAIN results : results[i] \in Line /\ TrueOf(results[i])
    BY <1>2 DEF EnvironmentsKeepTheirModel, ResultsTrue
  <2>2. ResultsTrue'
    BY <1>4, <1>7, <2>1 DEF ResultsTrue, TrueOf
  <2>3. QED
    BY <1>3, <2>2 DEF EnvironmentsKeepTheirModel
<1>8. QED
  BY <1>5, <1>6, <1>7 DEF Next, FunctionStep, ServiceFails, CallerStep, Stopped, vars

LEMMA EnvironmentsInit == Init => EnvironmentsKeepTheirModel
  BY DEF Init, ImageInit, EnvironmentsKeepTheirModel, BusyTrue, LogTrue, ResultsTrue

\* The rows of a group are of its model when its first marker is of the stream's environment.
LEMMA GroupsAreTrue ==
    ASSUME TypeOK, EnvironmentsKeepTheirModel PROVE RowsAreOfTheirModel
<1> SUFFICES ASSUME Grouped, NEW m \in DOMAIN LogsByModel \ {NoModel}, NEW i \in Frame(m)
             PROVE  results[i].model \in {m, NoModel}
  BY DEF RowsAreOfTheirModel
<1> DEFINE s == results[i].stream
<1>1. i \in DOMAIN results /\ ModelOf(s) = m
  BY DEF Frame, LogsByModel, Relevant
<1>2. Markers(s) # {} /\ Named(s) = m
  BY <1>1 DEF ModelOf
<1>3. Markers(s) \in SUBSET Nat
  BY DEF Markers, RowsOf, TypeOK
<1> DEFINE first == Min(Markers(s))
<1>4. first \in Markers(s)
  BY <1>2, <1>3, LeastNatural
<1>5. /\ first \in DOMAIN results /\ results[first].stream = s
      /\ results[first].kind = "marker" /\ results[first].model = m
  BY <1>2, <1>4 DEF Markers, RowsOf, Named
<1> HIDE DEF first
<1>6. m = env[s]
  BY <1>5 DEF EnvironmentsKeepTheirModel, ResultsTrue, TrueOf
<1>7. QED
  BY <1>1, <1>6 DEF EnvironmentsKeepTheirModel, ResultsTrue, TrueOf

\* However invocations, kills, updates and queries interleave, and whatever the limit cuts off: while
\* no payload names a model, the durations grouped under a model are of invocations of that model.
THEOREM DurationsBelongToTheirModel ==
    ASSUME PayloadModels \subseteq {NoModel}
    PROVE  Spec => []RowsAreOfTheirModel
<1>1. TypeOK /\ EnvironmentsKeepTheirModel /\ [Next]_vars => EnvironmentsKeepTheirModel'
  BY EnvironmentsStep
<1>2. TypeOK /\ EnvironmentsKeepTheirModel => RowsAreOfTheirModel
  BY GroupsAreTrue
<1>3. QED
  BY <1>1, <1>2, EnvironmentsInit, TypesHold, PTL DEF Spec

=============================================================================
