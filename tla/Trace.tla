-------------------------------- MODULE Trace --------------------------------
(***************************************************************************)
(* The hook registry and its sinks (optiserve/observability/hooks.py,      *)
(* sinks.py).  The profiler's threads emit events; each walks the          *)
(* registry's list of sinks by index while the main thread may register,   *)
(* remove and close sinks, be interrupted or killed.  A line sink          *)
(* (JsonlSink, EmfSink) writes and flushes under its own lock.             *)
(*                                                                         *)
(* An event is its thread and number; its line is shorter than the buffer  *)
(* of Python's streams.  A flush may reach the file in parts.  A process   *)
(* that starts again appends to the same files.                            *)
(***************************************************************************)
EXTENDS Integers, FiniteSets, SequencesExt

CONSTANTS
    Threads,      \* the threads that emit
    Main,         \* the one that also registers sinks and takes signals
    Nobody,       \* holds a lock that is free
    Jsonl, Emf, Memory, Broken,  \* the sinks: one of each class, one that always raises
    Registered,   \* the sinks a process registers when it starts
    MaxEvents,    \* bounds the events a thread emits
    MaxChanges,   \* bounds remove, add, clear and close calls
    MaxFaults     \* bounds failed flushes and closes, interrupts and kills

ASSUME TraceAssumption ==
    /\ Main \in Threads /\ Nobody \notin Threads
    /\ Jsonl \notin {Emf, Memory, Broken} /\ Emf \notin {Memory, Broken} /\ Memory # Broken
    /\ {Jsonl, Emf} \cap {"idle", "dispatch"} = {}
    /\ Registered \in Seq({Jsonl, Emf, Memory, Broken}) /\ IsInjective(Registered)
    /\ MaxEvents \in Nat /\ MaxChanges \in Nat /\ MaxFaults \in Nat

Sinks == {Jsonl, Emf, Memory, Broken}
LineSinks == {Jsonl, Emf}
Events == Threads \X (1..MaxEvents)
(* EmfSink drops an event without a numeric metric; here, the even ones.   *)
Measured(e) == e[2] % 2 = 1

VARIABLES
    sinks,     \* HookRegistry._sinks
    met,       \* the sinks the process has registered so far
    pc,        \* thread -> where it is in emit
    at,        \* thread -> the index of the sink it is calling
    emitted,   \* thread -> how many events it has emitted
    lock,      \* line sink -> the thread in its critical section
    open,      \* is JsonlSink._stream not None?
    buffer,    \* line sink -> written, not flushed
    file,      \* sink -> what got there: the lines that ended, the kept events
    tail,      \* line sink -> what follows them: nothing ("whole"), the beginning of the buffer's
               \* first line ("begun"), or of one that nobody will continue ("torn")
    joined,    \* line sink -> the lines of its file that come after a torn one, on the same line
    owed,      \* thread -> the sinks its current event has to reach
    due,       \* the deliveries a returned emit stands for (history)
    changes,   \* registry changes so far
    faults     \* faults so far
ends == <<tail, joined>>
vars == <<sinks, met, pc, at, emitted, lock, open, buffer, file, ends, owed, due, changes, faults>>

Event(t) == <<t, emitted[t]>>
Current(t) == sinks[at[t]]

Init ==
    /\ sinks = Registered /\ met = ToSet(Registered)
    /\ pc = [t \in Threads |-> "idle"] /\ at = [t \in Threads |-> 0]
    /\ emitted = [t \in Threads |-> 0]
    /\ lock = [s \in LineSinks |-> Nobody] /\ open = TRUE
    /\ buffer = [s \in LineSinks |-> <<>>] /\ file = [s \in Sinks |-> <<>>]
    /\ tail = [s \in LineSinks |-> "whole"] /\ joined = [s \in LineSinks |-> {}]
    /\ owed = [t \in Threads |-> {}] /\ due = {}
    /\ changes = 0 /\ faults = 0

-----------------------------------------------------------------------------
(* Emitting.                                                               *)

(* emit returns at once when nothing is registered.                        *)
Emit(t) ==
    /\ pc[t] = "idle" /\ emitted[t] < MaxEvents
    /\ emitted' = [emitted EXCEPT ![t] = @ + 1]
    /\ IF sinks = <<>> THEN UNCHANGED <<pc, at, owed>>
       ELSE /\ pc' = [pc EXCEPT ![t] = "dispatch"] /\ at' = [at EXCEPT ![t] = 1]
            /\ owed' = [owed EXCEPT ![t] = {s \in ToSet(sinks) \ {Broken} :
                            /\ s = Jsonl => open
                            /\ s = Emf => Measured(<<t, emitted[t] + 1>>)}]
    /\ UNCHANGED <<sinks, met, lock, open, buffer, file, ends, due, changes, faults>>

(* The loop over the list: by index, over whatever the list holds by then. *)
GoOn(t) == pc' = [pc EXCEPT ![t] = "dispatch"] /\ at' = [at EXCEPT ![t] = @ + 1]

Return(t) ==
    /\ pc[t] = "dispatch" /\ at[t] > Len(sinks)
    /\ pc' = [pc EXCEPT ![t] = "idle"]
    /\ due' = due \cup {<<Event(t), s>> : s \in owed[t]}
    /\ owed' = [owed EXCEPT ![t] = {}]
    /\ UNCHANGED <<sinks, met, at, emitted, lock, open, buffer, file, ends, changes, faults>>

HandleInMemory(t) ==
    /\ pc[t] = "dispatch" /\ at[t] <= Len(sinks) /\ Current(t) = Memory
    /\ file' = [file EXCEPT ![Memory] = Append(@, Event(t))]
    /\ GoOn(t)
    /\ UNCHANGED <<sinks, met, emitted, lock, open, buffer, ends, owed, due, changes, faults>>

(* A sink that raises, and one that has nothing to write for this event.   *)
SkipSink(t) ==
    /\ pc[t] = "dispatch" /\ at[t] <= Len(sinks)
    /\ \/ Current(t) = Broken
       \/ Current(t) = Jsonl /\ ~open
       \/ Current(t) = Emf /\ ~Measured(Event(t))
    /\ GoOn(t)
    /\ UNCHANGED <<sinks, met, emitted, lock, open, buffer, file, ends, owed, due, changes, faults>>

(* A line sink: the check before the lock, the lock, the write, the flush. *)
(* The thread keeps the sink it called whatever becomes of the list.       *)
StartLine(t) ==
    /\ pc[t] = "dispatch" /\ at[t] <= Len(sinks)
    /\ \/ Current(t) = Jsonl /\ open
       \/ Current(t) = Emf /\ Measured(Event(t))
    /\ pc' = [pc EXCEPT ![t] = Current(t)]
    /\ UNCHANGED <<sinks, met, at, emitted, lock, open, buffer, file, ends, owed, due, changes, faults>>

Holds(t, s) == lock[s] = t
WriteLine(t, s) ==
    /\ pc[t] = s /\ lock[s] = Nobody
    /\ IF s = Jsonl /\ ~open            \* closed since the check: None.write raises, and is swallowed
       THEN GoOn(t) /\ UNCHANGED <<lock, buffer>>
       ELSE /\ lock' = [lock EXCEPT ![s] = t]
            /\ buffer' = [buffer EXCEPT ![s] = Append(@, Event(t))]
            /\ UNCHANGED <<pc, at>>
    /\ UNCHANGED <<sinks, met, emitted, open, file, ends, owed, due, changes, faults>>

(* Faulty variant: the line is written, and flushed when the file closes.  *)
FlushLate(t, s) ==
    /\ pc[t] = s /\ Holds(t, s)
    /\ lock' = [lock EXCEPT ![s] = Nobody]
    /\ GoOn(t)
    /\ UNCHANGED <<sinks, met, emitted, open, buffer, file, ends, owed, due, changes, faults>>

(* What writing to the file gets there: the first k lines of the buffer    *)
(* and, if more, the beginning of the next.                                *)
Put(s, k) ==
    /\ file' = [file EXCEPT ![s] = @ \o SubSeq(buffer[s], 1, k)]
    /\ joined' = [joined EXCEPT ![s] = IF tail[s] = "torn" /\ k > 0 THEN @ \cup {Len(file[s]) + 1} ELSE @]
Ending(s, k, more) ==
    IF k = 0 /\ (tail[s] = "torn" \/ ~more) THEN tail[s] ELSE IF more THEN "begun" ELSE "whole"
PutAll(s) ==
    LET n == Len(buffer[s]) IN Put(s, n) /\ tail' = [tail EXCEPT ![s] = Ending(s, n, FALSE)]
Orphaned(end) == IF end = "begun" THEN "torn" ELSE end

(* The system took a part of what the flush had to write.                  *)
WriteSome(t, s) ==
    /\ pc[t] = s /\ Holds(t, s)
    /\ \E k \in 0..(Len(buffer[s]) - 1), more \in BOOLEAN :
        /\ Put(s, k) /\ tail' = [tail EXCEPT ![s] = Ending(s, k, more)]
        /\ buffer' = [buffer EXCEPT ![s] = SubSeq(@, k + 1, Len(@))]
    /\ UNCHANGED <<sinks, met, pc, at, emitted, lock, open, owed, due, changes, faults>>

(* Faulty variant: what was flushed stays in the buffer.                   *)
FlushAgain(t, s) ==
    /\ pc[t] = s /\ Holds(t, s)
    /\ PutAll(s)
    /\ lock' = [lock EXCEPT ![s] = Nobody]
    /\ GoOn(t)
    /\ UNCHANGED <<sinks, met, emitted, open, buffer, owed, due, changes, faults>>

Flush(t, s) ==
    /\ pc[t] = s /\ Holds(t, s)
    /\ PutAll(s)
    /\ buffer' = [buffer EXCEPT ![s] = <<>>]
    /\ lock' = [lock EXCEPT ![s] = Nobody]
    /\ GoOn(t)
    /\ UNCHANGED <<sinks, met, emitted, open, owed, due, changes, faults>>

(* Faulty variant: the error leaves the sink with its lock taken.          *)
FailFlushLocked(t, s) ==
    /\ pc[t] = s /\ Holds(t, s) /\ faults < MaxFaults
    /\ owed' = [owed EXCEPT ![t] = @ \ {s}]
    /\ GoOn(t)
    /\ faults' = faults + 1
    /\ UNCHANGED <<sinks, met, emitted, lock, open, buffer, file, ends, due, changes>>

(* The disk is full: flush raises, and what was not written stays in the   *)
(* buffer - or the write does, over earlier lines that fill the buffer,    *)
(* and the line is dropped.                                                *)
FailFlush(t, s) ==
    /\ pc[t] = s /\ Holds(t, s) /\ faults < MaxFaults
    /\ \/ UNCHANGED buffer
       \/ Len(buffer[s]) > 1 /\ buffer' = [buffer EXCEPT ![s] = Front(@)]
    /\ lock' = [lock EXCEPT ![s] = Nobody]
    /\ owed' = [owed EXCEPT ![t] = @ \ {s}]
    /\ GoOn(t)
    /\ faults' = faults + 1
    /\ UNCHANGED <<sinks, met, emitted, open, file, ends, due, changes>>

(* KeyboardInterrupt or SystemExit in the main thread passes every except  *)
(* of dispatch; `with` releases the lock, the rest of the sinks get nothing. *)
Interrupt ==
    /\ pc[Main] # "idle" /\ faults < MaxFaults
    /\ pc' = [pc EXCEPT ![Main] = "idle"]
    /\ lock' = [s \in LineSinks |-> IF lock[s] = Main THEN Nobody ELSE lock[s]]
    /\ owed' = [owed EXCEPT ![Main] = {}]
    /\ faults' = faults + 1
    /\ UNCHANGED <<sinks, met, at, emitted, open, buffer, file, ends, due, changes>>

-----------------------------------------------------------------------------
(* The main thread, between its own events.                                *)

Change == pc[Main] = "idle" /\ changes < MaxChanges /\ changes' = changes + 1

(* A sink is registered once: an event under way when it is removed and    *)
(* added again would reach it twice.                                       *)
AddSink(s) ==
    /\ Change /\ s \notin met
    /\ sinks' = Append(sinks, s) /\ met' = met \cup {s}
    /\ UNCHANGED <<pc, at, emitted, lock, open, buffer, file, ends, owed, due, faults>>

(* Removing a sink that a thread's loop has passed moves the next one      *)
(* under its index: the thread's event does not reach that one either.     *)
NextIndex(t) == IF pc[t] = "dispatch" THEN at[t] ELSE at[t] + 1
Passed(t, i) == IF i < NextIndex(t) /\ NextIndex(t) <= Len(sinks) THEN {sinks[NextIndex(t)]} ELSE {}
RemoveSink(s) ==
    /\ Change /\ s \in ToSet(sinks)
    /\ LET i == CHOOSE j \in DOMAIN sinks : sinks[j] = s
       IN  /\ sinks' = RemoveAt(sinks, i)
           /\ owed' = [t \in Threads |-> IF pc[t] = "idle" THEN {} ELSE owed[t] \ (Passed(t, i) \cup {s})]
    /\ UNCHANGED <<met, pc, at, emitted, lock, open, buffer, file, ends, due, faults>>

ClearSinks ==
    /\ Change /\ sinks # <<>>
    /\ sinks' = <<>>
    /\ owed' = [t \in Threads |-> {}]
    /\ UNCHANGED <<met, pc, at, emitted, lock, open, buffer, file, ends, due, faults>>

(* JsonlSink.close: closing the stream flushes it.  When that fails the    *)
(* stream is closed all the same, and the rest of its buffer is gone.      *)
Close ==
    /\ Change /\ open /\ lock[Jsonl] = Nobody
    /\ buffer' = [buffer EXCEPT ![Jsonl] = <<>>]
    /\ open' = FALSE
    /\ owed' = [t \in Threads |-> owed[t] \ {Jsonl}]
    /\ UNCHANGED <<sinks, met, pc, at, emitted, lock, due>>
CloseJsonl ==
    /\ Close /\ PutAll(Jsonl)
    /\ UNCHANGED faults
FailClose ==
    /\ Close /\ faults < MaxFaults /\ faults' = faults + 1
    /\ \E k \in 0..(Len(buffer[Jsonl]) - 1), more \in BOOLEAN :
        Put(Jsonl, k) /\ tail' = [tail EXCEPT ![Jsonl] = Orphaned(Ending(Jsonl, k, more))]

(* The process is killed and started again; InMemorySink's events and what *)
(* was not flushed are gone, the files are appended to as they are.        *)
Kill ==
    /\ faults < MaxFaults /\ faults' = faults + 1
    /\ sinks' = Registered /\ met' = ToSet(Registered) /\ open' = TRUE
    /\ pc' = [t \in Threads |-> "idle"] /\ at' = [t \in Threads |-> 0]
    /\ lock' = [s \in LineSinks |-> Nobody] /\ buffer' = [s \in LineSinks |-> <<>>]
    /\ file' = [file EXCEPT ![Memory] = <<>>]
    /\ tail' = [s \in LineSinks |-> Orphaned(tail[s])]
    /\ owed' = [t \in Threads |-> {}]
    /\ due' = {d \in due : d[2] # Memory}
    /\ UNCHANGED <<emitted, joined, changes>>

-----------------------------------------------------------------------------
Step(t) == \/ Return(t) \/ HandleInMemory(t) \/ SkipSink(t) \/ StartLine(t)
           \/ \E s \in LineSinks : WriteLine(t, s) \/ Flush(t, s)
Next == \/ \E t \in Threads : \/ Emit(t) \/ Step(t)
                              \/ \E s \in LineSinks : WriteSome(t, s) \/ FailFlush(t, s)
        \/ \E s \in Sinks : AddSink(s) \/ RemoveSink(s)
        \/ ClearSinks \/ CloseJsonl \/ FailClose \/ Interrupt \/ Kill

Spec == Init /\ [][Next]_vars
(* Every running thread is scheduled; nobody has to emit or to fail.       *)
FairSpec == Spec /\ \A t \in Threads : WF_vars(Step(t))

-----------------------------------------------------------------------------
(* Type invariant: a lock is held by the thread inside its sink's critical *)
(* section and by nobody else (sinks.py:87-93, 160-168).                   *)
TypeOK ==
    /\ sinks \in Seq(Sinks) /\ met \subseteq Sinks
    /\ pc \in [Threads -> {"idle", "dispatch"} \cup LineSinks]
    /\ at \in [Threads -> Nat] /\ emitted \in [Threads -> 0..MaxEvents]
    /\ lock \in [LineSinks -> Threads \cup {Nobody}]
    /\ \A s \in LineSinks : lock[s] # Nobody => pc[lock[s]] = s
    /\ open \in BOOLEAN
    /\ buffer \in [LineSinks -> Seq(Events)] /\ file \in [Sinks -> Seq(Events)]
    /\ tail \in [LineSinks -> {"whole", "begun", "torn"}] /\ joined \in [LineSinks -> SUBSET Nat]
    /\ owed \in [Threads -> SUBSET Sinks] /\ due \subseteq Events \X Sinks
    /\ changes \in 0..MaxChanges /\ faults \in 0..MaxFaults

(* An emit that returned delivered its event to every working sink that    *)
(* was registered throughout - however other sinks fail, and even if the   *)
(* process is killed afterwards; removing a sink meanwhile costs the event *)
(* the next one at most (hooks.py:77-84, sinks.py:68-99).  The event's     *)
(* line is in the file from its first character to its last.               *)
Delivered == \A d \in due : d[1] \in ToSet(file[d[2]])

(* The JSON-lines trace is an audit trail: each event's line once, in each *)
(* thread's order, over flushes that fail or reach the file in parts,      *)
(* interrupts, closes and restarts; a line that was readable stays so, and *)
(* only the first one after a torn end is not (sinks.py:68-99).            *)
Trail == INSTANCE AuditTrail
         WITH trail <- file[Jsonl], unreadable <- joined[Jsonl], torn <- (tail[Jsonl] = "torn")
TrailSpec == Trail!Spec

(* An emit comes back: no failure leaves a sink's lock taken               *)
(* (hooks.py:77-84, sinks.py:87-93).                                       *)
EmitReturns == \A t \in Threads : pc[t] # "idle" ~> pc[t] = "idle"
=============================================================================
