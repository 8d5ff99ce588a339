---------------------------- MODULE ImageFunction ----------------------------
(***************************************************************************)
(* A profiled image function in its execution environments: the handlers   *)
(* and model loaders of src/experiments/functions/yolo and resnet.  An     *)
(* environment is known by its log stream.  Its process holds the models   *)
(* it has loaded; its /tmp holds model files and cached images, and is     *)
(* kept when the process is killed at a timeout or out of memory.          *)
(***************************************************************************)
EXTENDS Integers, Sequences, FiniteSets

CONSTANTS
    Streams,       \* execution environments
    Models,        \* model names that occur in MODEL_NAME or in a payload
    Supported,     \* those the loader knows and the bucket has a file for
    NoModel,       \* no MODEL_NAME, or no model_name in the payload
    EnvModels,     \* values MODEL_NAME may be given
    PayloadModels, \* values model_name may have in a payload
    Objects,       \* number of images in the bucket, listed in order
    NumImages,     \* num_images of the payload
    Strict,        \* resnet: an image that cannot be cached is not used either
    MaxInvocations, MaxChanges, MaxFaults \* bounds on invocations, set_config's, and what goes wrong

ASSUME ImageAssumption ==
    /\ NoModel \notin Models /\ Supported \subseteq Models
    /\ EnvModels \cup PayloadModels \subseteq Models \cup {NoModel}
    /\ Objects \in Nat /\ NumImages \in Nat \ {0} /\ Strict \in BOOLEAN
    /\ MaxInvocations \in Nat /\ MaxChanges \in Nat /\ MaxFaults \in Nat

VARIABLES
    live,     \* MODEL_NAME of the deployed configuration
    env,      \* MODEL_NAME an environment was created with
    life,     \* "none", "live", "stale": created before the last configuration update
    at,       \* where its invocation is: "idle", "load", "write", "open", "images"
    model,    \* model_name of that invocation
    loaded,   \* YOLO_MODELS, RESNET_MODELS
    disk,     \* the model files of /tmp: "absent", "torn", "whole"
    images,   \* the whole and the torn files <<images_fetched, object>> of /tmp/images
    todo,     \* objects still to be listed by fetch_images_from_s3, or {} from the cache
    used,     \* images handed to model.predict
    log,      \* the function's log group, oldest line first
    spoilt,   \* history: the models whose file a kill or a full /tmp cut off in this environment
    missed,   \* history: an image was refused to this invocation
    faults, changes

tmpVars == <<disk, images>>
runVars == <<at, model, todo, used, missed>>
imageVars == <<live, env, life, runVars, loaded, tmpVars, log, spoilt, faults, changes>>

Files == (0 .. NumImages - 1) \X (1 .. Objects)

Line == [kind : {"marker", "report"}, stream : Streams, model : Models \cup {NoModel},
         outcome : {"none", "ok", "bad_request", "error", "killed"}, images : 0 .. NumImages,
         excused : BOOLEAN]

ImageTypeOK ==
    /\ live \in EnvModels /\ env \in [Streams -> Models \cup {NoModel}]
    /\ life \in [Streams -> {"none", "live", "stale"}]
    /\ at \in [Streams -> {"idle", "load", "write", "open", "images"}]
    /\ model \in [Streams -> Models \cup {NoModel}]
    /\ loaded \in [Streams -> SUBSET Supported]
    /\ disk \in [Streams -> [Models -> {"absent", "torn", "whole"}]]
    /\ images \in [Streams -> [whole : SUBSET Files, torn : SUBSET Files]]
    /\ \A s \in Streams : images[s].whole \cap images[s].torn = {}
    /\ todo \in [Streams -> SUBSET (1 .. Objects)] /\ used \in [Streams -> 0 .. NumImages]
    /\ log \in Seq(Line)
    /\ spoilt \in [Streams -> SUBSET (Models \cup {NoModel})] /\ missed \in [Streams -> BOOLEAN]
    /\ faults \in 0 .. MaxFaults /\ changes \in 0 .. MaxChanges

ImageInit ==
    /\ live \in EnvModels /\ env = [s \in Streams |-> NoModel]
    /\ life = [s \in Streams |-> "none"] /\ at = [s \in Streams |-> "idle"]
    /\ model = [s \in Streams |-> NoModel] /\ loaded = [s \in Streams |-> {}]
    /\ disk = [s \in Streams |-> [m \in Models |-> "absent"]]
    /\ images = [s \in Streams |-> [whole |-> {}, torn |-> {}]]
    /\ todo = [s \in Streams |-> {}] /\ used = [s \in Streams |-> 0]
    /\ log = <<>>
    /\ spoilt = [s \in Streams |-> {}] /\ missed = [s \in Streams |-> FALSE]
    /\ faults = 0 /\ changes = 0

Reports == SelectSeq(log, LAMBDA l : l.kind = "report")
Running == {s \in Streams : at[s] # "idle"}

Report(s, m, outcome, n) ==
    [kind |-> "report", stream |-> s, model |-> m, outcome |-> outcome, images |-> n,
     excused |-> missed[s] \/ images[s].torn # {}]

\* The handler returns, raises, or is killed; the platform reports the invocation.
End(s, outcome, n) ==
    /\ at' = [at EXCEPT ![s] = "idle"]
    /\ log' = Append(log, Report(s, model[s], outcome, n))
    /\ UNCHANGED <<model, todo, used, missed>>

Fault == faults < MaxFaults /\ faults' = faults + 1

\* The image that is being saved is cut off, whatever the file of that name held.
TearImage(s, o) ==
    images' = [images EXCEPT ![s] = [whole |-> @.whole \ {<<used[s], o>>},
                                     torn |-> @.torn \cup {<<used[s], o>>}]]

\* The model file that is being written is cut off.
SpoilModel(s) == spoilt' = [spoilt EXCEPT ![s] = @ \cup {model[s]}]
-----------------------------------------------------------------------------
(* The platform *)

\* ConfigManager.set_config gives the function another MODEL_NAME: its environments take no more
\* invocations.
SetModelName(m) ==
    /\ changes < MaxChanges /\ changes' = changes + 1
    /\ live' = m
    /\ life' = [s \in Streams |-> IF life[s] = "live" THEN "stale" ELSE life[s]]
    /\ UNCHANGED <<env, runVars, loaded, tmpVars, log, spoilt, faults>>

\* Memory or time runs out: the process is gone, and what it was writing is cut off.
Kill(s) ==
    /\ at[s] # "idle" /\ Fault
    /\ End(s, "killed", used[s])
    /\ loaded' = [loaded EXCEPT ![s] = {}]
    /\ \/ /\ at[s] = "images" /\ todo[s] # {} /\ used[s] < NumImages
          /\ \E o \in {o \in todo[s] : \A p \in todo[s] : o <= p} : TearImage(s, o)
          /\ UNCHANGED spoilt
       \/ /\ UNCHANGED images
          /\ IF at[s] = "write" THEN SpoilModel(s) ELSE UNCHANGED spoilt
    /\ UNCHANGED <<live, env, life, disk, changes>>
-----------------------------------------------------------------------------
(* The handler: lambda_handler_yolo, lambda_handler_resnet *)

\* An invocation reaches a new environment, or a live one that is idle.
Take(s) ==
    /\ Len(Reports) + Cardinality(Running) < MaxInvocations
    /\ at[s] = "idle" /\ life[s] \in {"none", "live"}
    /\ life' = [life EXCEPT ![s] = "live"]
    /\ env' = [env EXCEPT ![s] = IF life[s] = "none" THEN live ELSE @]

NamedModel(s, payload) == IF payload # NoModel THEN payload ELSE env'[s]

\* No bucket_name, or no model name in payload and environment: answered before the marker.
Reject(s) ==
    /\ Take(s)
    /\ model' = [model EXCEPT ![s] = NoModel]
    /\ log' = Append(log, Report(s, NoModel, "bad_request", 0))
    /\ UNCHANGED <<live, at, todo, used, missed, loaded, tmpVars, spoilt, faults, changes>>

\* Faulty variant: half the images are enough to be taken for the cache.
CachedByHalf(s) == Cardinality(images[s].whole \cup images[s].torn) * 2 >= NumImages

Cached(s) == Cardinality(images[s].whole \cup images[s].torn) >= NumImages

\* The images are counted and the marker is logged.  Cached images are read here; nothing changes
\* them before Answer counts them.
Invoke(s, payload) ==
    /\ Take(s)
    /\ NamedModel(s, payload) # NoModel
    /\ at' = [at EXCEPT ![s] = "load"]
    /\ model' = [model EXCEPT ![s] = NamedModel(s, payload)]
    /\ todo' = [todo EXCEPT ![s] = IF Cached(s) THEN {} ELSE 1 .. Objects]
    /\ used' = [used EXCEPT ![s] = 0] /\ missed' = [missed EXCEPT ![s] = Objects < NumImages]
    /\ log' = Append(log, [kind |-> "marker", stream |-> s, model |-> NamedModel(s, payload),
                           outcome |-> "none", images |-> 0, excused |-> FALSE])
    /\ UNCHANGED <<live, loaded, tmpVars, spoilt, faults, changes>>
-----------------------------------------------------------------------------
(* load_custom_yolo, load_custom_resnet *)

\* The resnet loader refuses a name it does not know; a name the bucket has no file for raises.
Unsupported(s) ==
    /\ at[s] = "load" /\ model[s] \notin Supported
    /\ \E outcome \in {"bad_request", "error"} : End(s, outcome, 0)
    /\ UNCHANGED <<live, env, life, loaded, tmpVars, spoilt, faults, changes>>

GoTo(s, where) == at' = [at EXCEPT ![s] = where] /\ UNCHANGED <<model, todo, used, missed>>

\* Faulty variant: the file is opened before the model is fetched.
LoadOpensFirst(s) ==
    /\ at[s] = "load" /\ model[s] \in Supported
    /\ \/ /\ model[s] \in loaded[s]
          /\ GoTo(s, "images")
          /\ UNCHANGED <<disk, log, faults>>
       \/ /\ model[s] \notin loaded[s] /\ disk[s][model[s]] # "absent"
          /\ GoTo(s, "open")
          /\ UNCHANGED <<disk, log, faults>>
       \/ /\ model[s] \notin loaded[s] /\ disk[s][model[s]] = "absent"
          /\ disk' = [disk EXCEPT ![s][model[s]] = "torn"]
          /\ \/ GoTo(s, "write") /\ UNCHANGED <<log, faults>>
             \/ Fault /\ End(s, "error", 0)
    /\ UNCHANGED <<live, env, life, loaded, images, spoilt, changes>>

\* The model is in memory, in /tmp, or fetched from the bucket; only then is the file opened.
\* Fetching it, or opening the file, may raise.
Load(s) ==
    /\ at[s] = "load" /\ model[s] \in Supported
    /\ \/ /\ model[s] \in loaded[s]
          /\ GoTo(s, "images")
          /\ UNCHANGED <<disk, log, faults>>
       \/ /\ model[s] \notin loaded[s] /\ disk[s][model[s]] # "absent"
          /\ GoTo(s, "open")
          /\ UNCHANGED <<disk, log, faults>>
       \/ /\ model[s] \notin loaded[s] /\ disk[s][model[s]] = "absent"
          /\ \/ /\ GoTo(s, "write")
                /\ disk' = [disk EXCEPT ![s][model[s]] = "torn"]
                /\ UNCHANGED <<log, faults>>
             \/ /\ Fault /\ End(s, "error", 0)
                /\ UNCHANGED disk
    /\ UNCHANGED <<live, env, life, loaded, images, spoilt, changes>>

\* f.write: the whole of the file reaches /tmp, or a full /tmp raises and what was written stays.
Write(s) ==
    /\ at[s] = "write"
    /\ \/ /\ GoTo(s, "open")
          /\ disk' = [disk EXCEPT ![s][model[s]] = "whole"]
          /\ UNCHANGED <<log, spoilt, faults>>
       \/ /\ Fault /\ End(s, "error", 0) /\ SpoilModel(s)
          /\ UNCHANGED disk
    /\ UNCHANGED <<live, env, life, loaded, images, changes>>

\* YOLO(tmp_file), torch.load: a torn file raises, and neither handler catches it.
Open(s) ==
    /\ at[s] = "open"
    /\ IF disk[s][model[s]] = "whole"
       THEN /\ loaded' = [loaded EXCEPT ![s] = @ \cup {model[s]}]
            /\ GoTo(s, "images")
            /\ UNCHANGED log
       ELSE End(s, "error", 0) /\ UNCHANGED loaded
    /\ UNCHANGED <<live, env, life, tmpVars, spoilt, faults, changes>>
-----------------------------------------------------------------------------
(* The images: load_images_from_cache, fetch_images_from_s3 *)

Before(f, g) == f[1] < g[1] \/ (f[1] = g[1] /\ f[2] < g[2])

\* The first num_images files by name, of which a torn one is left out.
FromCache(s) ==
    LET all == images[s].whole \cup images[s].torn
    IN {f \in all : Cardinality({g \in all : Before(g, f)}) < NumImages} \ images[s].torn

Fetching(s) == todo[s] # {} /\ used[s] < NumImages

\* The next object is fetched, cached and used; or the bucket refuses it, or it is no image; or it
\* cannot be saved, and what the save left in /tmp may be cut off: yolo uses the image all the same.
Fetch(s) ==
    /\ at[s] = "images" /\ Fetching(s)
    /\ \E o \in {o \in todo[s] : \A p \in todo[s] : o <= p} :
        /\ todo' = [todo EXCEPT ![s] = @ \ {o}]
        /\ \/ /\ images' = [images EXCEPT ![s] = [whole |-> @.whole \cup {<<used[s], o>>},
                                                  torn |-> @.torn \ {<<used[s], o>>}]]
              /\ used' = [used EXCEPT ![s] = @ + 1]
              /\ UNCHANGED <<missed, faults>>
           \/ /\ Fault
              /\ missed' = [missed EXCEPT ![s] = TRUE]
              /\ UNCHANGED <<used, images>>
           \/ /\ Fault
              /\ UNCHANGED images \/ TearImage(s, o)
              /\ IF Strict
                 THEN missed' = [missed EXCEPT ![s] = TRUE] /\ UNCHANGED used
                 ELSE used' = [used EXCEPT ![s] = @ + 1] /\ UNCHANGED missed
    /\ UNCHANGED <<live, env, life, at, model, loaded, disk, log, spoilt, changes>>

\* Listing the bucket raises.
ListingFails(s) ==
    /\ at[s] = "images" /\ Fetching(s) /\ Fault
    /\ End(s, "error", used[s])
    /\ UNCHANGED <<live, env, life, loaded, tmpVars, spoilt, changes>>

\* Every batch has been predicted.  `todo` is {} from the start when the images are cached.
Answer(s) ==
    /\ at[s] = "images" /\ ~Fetching(s)
    /\ End(s, "ok", IF used[s] > 0 \/ missed[s] THEN used[s] ELSE Cardinality(FromCache(s)))
    /\ UNCHANGED <<live, env, life, loaded, tmpVars, spoilt, faults, changes>>

Handler(s) ==
    Unsupported(s) \/ Load(s) \/ Write(s) \/ Open(s) \/ Fetch(s) \/ ListingFails(s) \/ Answer(s)

ImageNext ==
    \/ \E m \in EnvModels : SetModelName(m)
    \/ \E s \in Streams : Kill(s) \/ Reject(s) \/ Handler(s)
    \/ \E s \in Streams, p \in PayloadModels : Invoke(s, p)
-----------------------------------------------------------------------------
(* Correctness *)

\* A model file is not whole exactly while it is being written and once its writing was cut off, by
\* a kill or by a full /tmp: a bucket that refuses leaves nothing behind.  A file that was cut off is
\* there for good, for the loader asks only whether it exists: the environment never loads that model
\* again (models.py:16-27).
CutOffForGood ==
    \A s \in Streams, m \in Models :
        /\ disk[s][m] = "torn" <=> (at[s] = "write" /\ model[s] = m) \/ m \in spoilt[s]
        /\ m \in spoilt[s] => m \notin loaded[s]

\* An answered invocation ran on all of its images, whichever environment served it and whatever was
\* cached there, unless it was refused one or a kill or a full /tmp tore a cached one: the durations
\* that are compared belong to the same work (app.py:125-139).
SameWork ==
    \A i \in DOMAIN log :
        log[i].kind = "report" /\ log[i].outcome = "ok" /\ ~log[i].excused =>
            log[i].images = NumImages
=============================================================================
