------------------------------ MODULE TraceProofs ------------------------------
(***************************************************************************)
(* For every set of threads, list of sinks and number of failures: the     *)
(* JSON-lines file is the audit trail of AuditTrail.tla, and an emit that  *)
(* returned has delivered its event.                                       *)
(***************************************************************************)
EXTENDS Trace, SequenceTheorems, TLAPS

LEMMA SinksDiffer ==
    /\ Jsonl # Emf /\ Jsonl # Memory /\ Emf # Memory
    /\ Jsonl # "idle" /\ Jsonl # "dispatch" /\ Emf # "idle" /\ Emf # "dispatch"
    /\ Main \in Threads /\ Nobody \notin Threads
  BY TraceAssumption DEF TraceAssumption

-----------------------------------------------------------------------------
(* Types.                                                                  *)

\* The type invariant by what its parts are about; a thread in an emit has an event and an index.
ControlType ==
    /\ pc \in [Threads -> {"idle", "dispatch"} \cup LineSinks]
    /\ lock \in [LineSinks -> Threads \cup {Nobody}]
    /\ \A s \in LineSinks : lock[s] # Nobody => pc[lock[s]] = s

ListType == sinks \in Seq(Sinks) /\ met \subseteq Sinks /\ open \in BOOLEAN

CountType ==
    /\ at \in [Threads -> Nat] /\ emitted \in [Threads -> 0..MaxEvents]
    /\ \A t \in Threads : pc[t] # "idle" => emitted[t] >= 1 /\ at[t] >= 1

BoundType == changes \in 0..MaxChanges /\ faults \in 0..MaxFaults

FileType == buffer \in [LineSinks -> Seq(Events)] /\ file \in [Sinks -> Seq(Events)]

EndType == tail \in [LineSinks -> {"whole", "begun", "torn"}] /\ joined \in [LineSinks -> SUBSET Nat]

HistoryType == owed \in [Threads -> SUBSET Sinks] /\ due \subseteq Events \X Sinks

TypeInv == ControlType /\ ListType /\ CountType /\ BoundType /\ FileType /\ EndType /\ HistoryType

LEMMA EventType == ASSUME CountType, NEW t \in Threads, pc[t] # "idle" PROVE Event(t) \in Events
  BY TraceAssumption DEF TraceAssumption, CountType, Event, Events

LEMMA TypeInit == Init => TypeInv
<1> SUFFICES ASSUME Init PROVE TypeInv
  OBVIOUS
<1> USE TraceAssumption DEF TraceAssumption, Init
<1>1. ControlType
  BY DEF ControlType
<1>2. ListType
  BY DEF ListType, Sinks, ToSet
<1>3. CountType /\ BoundType
  BY DEF CountType, BoundType
<1>4. FileType /\ EndType /\ HistoryType
  BY DEF FileType, EndType, HistoryType
<1>5. QED
  BY <1>1, <1>2, <1>3, <1>4 DEF TypeInv

\* What WriteSome and FailFlush leave alone, for the parts that are not about files.
LEMMA SomeWritten ==
    ASSUME NEW t \in Threads, NEW s \in LineSinks, WriteSome(t, s)
    PROVE  UNCHANGED <<sinks, met, pc, at, emitted, lock, open, owed, due, changes, faults>>
  BY DEF WriteSome

LEMMA ControlStep == ControlType /\ [Next]_vars => ControlType'
<1> SUFFICES ASSUME ControlType, [Next]_vars PROVE ControlType'
  OBVIOUS
<1> USE SinksDiffer DEF ControlType, LineSinks
<1>1. ASSUME NEW t \in Threads, Emit(t) \/ Return(t) \/ HandleInMemory(t) \/ SkipSink(t) PROVE ControlType'
  BY <1>1 DEF Emit, Return, HandleInMemory, SkipSink, GoOn
<1>2. ASSUME NEW t \in Threads, StartLine(t) PROVE ControlType'
  BY <1>2 DEF StartLine
<1>3. ASSUME NEW t \in Threads, NEW s \in LineSinks, WriteLine(t, s) PROVE ControlType'
  BY <1>3 DEF WriteLine, GoOn
<1>4. ASSUME NEW t \in Threads, NEW s \in LineSinks, Flush(t, s) \/ FailFlush(t, s) PROVE ControlType'
  <2>1. /\ pc[t] = s /\ pc' = [pc EXCEPT ![t] = "dispatch"]
        /\ lock' = [lock EXCEPT ![s] = Nobody]
    BY <1>4 DEF Flush, FailFlush, Holds, GoOn
  <2>2. \A r \in LineSinks : lock'[r] # Nobody => r # s /\ lock[r] # t /\ lock'[r] = lock[r]
    BY <2>1
  <2>3. QED
    BY <2>1, <2>2
<1>5. ASSUME NEW s \in Sinks, AddSink(s) \/ RemoveSink(s) PROVE ControlType'
  BY <1>5 DEF AddSink, RemoveSink
<1>6. CASE ClearSinks \/ CloseJsonl \/ FailClose \/ UNCHANGED vars
  BY <1>6 DEF ClearSinks, CloseJsonl, FailClose, Close, vars
<1>7. CASE Interrupt
  BY <1>7 DEF Interrupt
<1>8. CASE Kill
  BY <1>8 DEF Kill
<1>9. ASSUME NEW t \in Threads, NEW s \in LineSinks, WriteSome(t, s) PROVE ControlType'
  BY <1>9, SomeWritten
<1>10. QED
  BY <1>1, <1>2, <1>3, <1>4, <1>5, <1>6, <1>7, <1>8, <1>9 DEF Next, Step

LEMMA CountStep == ControlType /\ CountType /\ [Next]_vars => CountType'
<1> SUFFICES ASSUME ControlType, CountType, [Next]_vars PROVE CountType'
  OBVIOUS
<1> USE SinksDiffer, TraceAssumption DEF TraceAssumption, ControlType, CountType, LineSinks
<1>1. ASSUME NEW t \in Threads, Emit(t) PROVE CountType'
  <2>1. emitted' = [emitted EXCEPT ![t] = @ + 1] /\ emitted[t] < MaxEvents
    BY <1>1 DEF Emit
  <2>2. emitted' \in [Threads -> 0..MaxEvents] /\ emitted'[t] >= 1
    BY <2>1
  <2>3. /\ at' = at \/ at' = [at EXCEPT ![t] = 1]
        /\ pc' = pc \/ (pc' = [pc EXCEPT ![t] = "dispatch"] /\ at'[t] = 1)
    BY <1>1 DEF Emit
  <2>4. QED
    BY <2>1, <2>2, <2>3
<1>2. ASSUME NEW t \in Threads, Return(t) \/ StartLine(t) PROVE CountType'
  BY <1>2 DEF Return, StartLine
<1>3. ASSUME NEW t \in Threads, HandleInMemory(t) \/ SkipSink(t) PROVE CountType'
  <2>1. pc[t] # "idle" /\ GoOn(t) /\ UNCHANGED emitted
    BY <1>3 DEF HandleInMemory, SkipSink
  <2>2. at' \in [Threads -> Nat] /\ \A u \in Threads : at'[u] >= at[u]
    BY <2>1 DEF GoOn
  <2>3. QED
    BY <2>1, <2>2 DEF GoOn
<1>4. ASSUME NEW t \in Threads, NEW s \in LineSinks, WriteLine(t, s) PROVE CountType'
  BY <1>4 DEF WriteLine, GoOn
<1>5. ASSUME NEW t \in Threads, NEW s \in LineSinks, Flush(t, s) \/ FailFlush(t, s) PROVE CountType'
  <2>1. pc[t] # "idle" /\ GoOn(t) /\ UNCHANGED emitted
    BY <1>5 DEF Flush, FailFlush
  <2>2. at' \in [Threads -> Nat] /\ \A u \in Threads : at'[u] >= at[u]
    BY <2>1 DEF GoOn
  <2>3. QED
    BY <2>1, <2>2 DEF GoOn
<1>6. ASSUME NEW s \in Sinks, AddSink(s) \/ RemoveSink(s) PROVE CountType'
  BY <1>6 DEF AddSink, RemoveSink, Change
<1>7. CASE ClearSinks \/ CloseJsonl \/ FailClose
  BY <1>7 DEF ClearSinks, CloseJsonl, FailClose, Close, Change
<1>11. CASE UNCHANGED vars
  BY <1>11 DEF vars
<1>8. CASE Interrupt
  BY <1>8 DEF Interrupt
<1>9. CASE Kill
  BY <1>9 DEF Kill
<1>10. ASSUME NEW t \in Threads, NEW s \in LineSinks, WriteSome(t, s) PROVE CountType'
  BY <1>10, SomeWritten
<1>12. QED
  BY <1>1, <1>2, <1>3, <1>4, <1>5, <1>6, <1>7, <1>8, <1>9, <1>10, <1>11 DEF Next, Step

LEMMA BoundStep == BoundType /\ [Next]_vars => BoundType'
<1> SUFFICES ASSUME BoundType, [Next]_vars PROVE BoundType'
  OBVIOUS
<1> USE TraceAssumption DEF TraceAssumption, BoundType
<1>1. ASSUME NEW t \in Threads, Emit(t) \/ Step(t) PROVE BoundType'
  BY <1>1 DEF Emit, Step, Return, HandleInMemory, SkipSink, StartLine, WriteLine, Flush
<1>2. ASSUME NEW t \in Threads, NEW s \in LineSinks, FailFlush(t, s) PROVE BoundType'
  BY <1>2 DEF FailFlush
<1>3. ASSUME NEW s \in Sinks, AddSink(s) \/ RemoveSink(s) PROVE BoundType'
  BY <1>3 DEF AddSink, RemoveSink, Change
<1>4. CASE ClearSinks \/ CloseJsonl \/ FailClose
  <2>1. /\ changes < MaxChanges /\ changes' = changes + 1
        /\ faults' = faults \/ (faults < MaxFaults /\ faults' = faults + 1)
    BY <1>4 DEF ClearSinks, CloseJsonl, FailClose, Close, Change
  <2>2. QED
    BY <2>1
<1>5. CASE Interrupt \/ Kill \/ UNCHANGED vars
  BY <1>5 DEF Interrupt, Kill, vars
<1>6. ASSUME NEW t \in Threads, NEW s \in LineSinks, WriteSome(t, s) PROVE BoundType'
  BY <1>6, SomeWritten
<1>7. QED
  BY <1>1, <1>2, <1>3, <1>4, <1>5, <1>6 DEF Next

LEMMA Removal ==
    ASSUME NEW S, NEW q \in Seq(S), NEW i \in DOMAIN q
    PROVE  /\ RemoveAt(q, i) \in Seq(S)
           /\ Len(RemoveAt(q, i)) = Len(q) - 1
           /\ \A j \in 1..(Len(q) - 1) :
                  RemoveAt(q, i)[j] = IF j < i THEN q[j] ELSE q[j + 1]
<1> DEFINE front == SubSeq(q, 1, i - 1)
           back == SubSeq(q, i + 1, Len(q))
<1>1. /\ front \in Seq(S) /\ Len(front) = i - 1
      /\ \A j \in 1..(i - 1) : front[j] = q[j]
  OBVIOUS
<1>2. /\ back \in Seq(S) /\ Len(back) = Len(q) - i
      /\ \A j \in 1..(Len(q) - i) : back[j] = q[i + j]
  OBVIOUS
<1>3. RemoveAt(q, i) = front \o back
  BY DEF RemoveAt
<1> HIDE DEF front, back
<1>4. front \o back \in Seq(S) /\ Len(front \o back) = Len(q) - 1
  BY <1>1, <1>2
<1>5. ASSUME NEW j \in 1..(Len(q) - 1) PROVE (front \o back)[j] = IF j < i THEN q[j] ELSE q[j + 1]
  <2>1. CASE j < i
    BY <2>1, <1>1, <1>2
  <2>2. CASE ~(j < i)
    <3>1. (front \o back)[j] = back[j - (i - 1)]
      BY <2>2, <1>1, <1>2
    <3>2. j - (i - 1) \in 1..(Len(q) - i) /\ i + (j - (i - 1)) = j + 1
      BY <2>2
    <3>3. QED
      BY <2>2, <3>1, <3>2, <1>2
  <2>3. QED
    BY <2>1, <2>2
<1>6. QED
  BY <1>3, <1>4, <1>5

LEMMA ListStep == ListType /\ [Next]_vars => ListType'
<1> SUFFICES ASSUME ListType, [Next]_vars PROVE ListType'
  OBVIOUS
<1> USE DEF ListType
<1>1. ASSUME NEW s \in Sinks, AddSink(s) PROVE ListType'
  BY <1>1 DEF AddSink
<1>2. ASSUME NEW s \in Sinks, RemoveSink(s) PROVE ListType'
  <2>1. PICK i \in DOMAIN sinks : sinks' = RemoveAt(sinks, i)
    BY <1>2 DEF RemoveSink, ToSet
  <2>2. QED
    BY <1>2, <2>1, Removal DEF RemoveSink
<1>3. CASE ClearSinks
  BY <1>3 DEF ClearSinks
<1>7. CASE CloseJsonl \/ FailClose
  BY <1>7 DEF CloseJsonl, FailClose, Close
<1>8. CASE Interrupt \/ UNCHANGED vars
  BY <1>8 DEF Interrupt, vars
<1>4. CASE Kill
  BY <1>4, TraceAssumption DEF Kill, TraceAssumption, Sinks, ToSet
<1>5. ASSUME NEW t \in Threads, Emit(t) \/ Step(t) \/ \E s \in LineSinks : FailFlush(t, s)
      PROVE ListType'
  BY <1>5 DEF Emit, Step, Return, HandleInMemory, SkipSink, StartLine, WriteLine, Flush, FailFlush
<1>6. ASSUME NEW t \in Threads, NEW s \in LineSinks, WriteSome(t, s) PROVE ListType'
  BY <1>6, SomeWritten
<1>9. QED
  BY <1>1, <1>2, <1>3, <1>4, <1>5, <1>6, <1>7, <1>8 DEF Next

\* A sequence in two parts.
LEMMA Parted ==
    ASSUME NEW S, NEW b \in Seq(S), NEW k \in 0..Len(b)
    PROVE  /\ SubSeq(b, 1, k) \in Seq(S) /\ Len(SubSeq(b, 1, k)) = k
           /\ \A i \in 1..k : SubSeq(b, 1, k)[i] = b[i]
           /\ SubSeq(b, k + 1, Len(b)) \in Seq(S) /\ Len(SubSeq(b, k + 1, Len(b))) = Len(b) - k
           /\ \A i \in 1..(Len(b) - k) : SubSeq(b, k + 1, Len(b))[i] = b[k + i]
  OBVIOUS

LEMMA Dropped ==
    ASSUME NEW S, NEW b \in Seq(S), Len(b) > 1
    PROVE  Front(b) \in Seq(S) /\ Front(b) = SubSeq(b, 1, Len(b) - 1) /\ Len(b) - 1 \in 1..Len(b)
  BY DEF Front

\* The file after a write, whole or not.
LEMMA PutWrites ==
    ASSUME FileType, EndType, NEW s \in LineSinks, NEW k \in 0..Len(buffer[s]), Put(s, k)
    PROVE  /\ file' \in [Sinks -> Seq(Events)] /\ joined' \in [LineSinks -> SUBSET Nat]
           /\ file'[s] = file[s] \o SubSeq(buffer[s], 1, k)
           /\ \A r \in Sinks \ {s} : file'[r] = file[r]
           /\ \A r \in LineSinks \ {s} : joined'[r] = joined[r]
           /\ joined'[s] = IF tail[s] = "torn" /\ k > 0 THEN joined[s] \cup {Len(file[s]) + 1}
                           ELSE joined[s]
<1>1. file[s] \in Seq(Events) /\ buffer[s] \in Seq(Events) /\ s \in Sinks
  BY DEF FileType, LineSinks, Sinks
<1>2. SubSeq(buffer[s], 1, k) \in Seq(Events)
  BY <1>1, Parted
<1>3. file[s] \o SubSeq(buffer[s], 1, k) \in Seq(Events) /\ Len(file[s]) + 1 \in Nat
  BY <1>1, <1>2
<1>4. /\ file' = [file EXCEPT ![s] = file[s] \o SubSeq(buffer[s], 1, k)]
      /\ joined' = [joined EXCEPT ![s] = IF tail[s] = "torn" /\ k > 0
                                         THEN joined[s] \cup {Len(file[s]) + 1} ELSE joined[s]]
  BY DEF Put
<1>5. QED
  BY <1>1, <1>3, <1>4 DEF FileType, EndType

LEMMA BufferLength ==
    ASSUME TypeInv, NEW s \in LineSinks
    PROVE  /\ buffer[s] \in Seq(Events) /\ Len(buffer[s]) \in Nat
           /\ Len(buffer[s]) \in 0..Len(buffer[s])
           /\ \A k \in 0..(Len(buffer[s]) - 1) : k \in 0..Len(buffer[s])
  BY DEF TypeInv, FileType

\* What an action that writes to a line sink's file does with the buffer's first k lines.
Wrote(s, k) ==
    /\ Put(s, k)
    /\ tail' \in [LineSinks -> {"whole", "begun", "torn"}]
    /\ tail[s] = "torn" /\ k = 0 => tail'[s] = "torn"
    /\ \A r \in LineSinks \ {s} : tail'[r] = tail[r]

LEMMA EndTypes ==
    ASSUME EndType, NEW s \in LineSinks, NEW k, NEW more \in BOOLEAN
    PROVE  /\ Ending(s, k, more) \in {"whole", "begun", "torn"}
           /\ Orphaned(Ending(s, k, more)) \in {"whole", "begun", "torn"}
           /\ tail[s] = "torn" /\ k = 0 => Ending(s, k, more) = "torn" /\ Orphaned(Ending(s, k, more)) = "torn"
  BY DEF EndType, Ending, Orphaned

LEMMA AllWritten ==
    ASSUME EndType, NEW s \in LineSinks, PutAll(s)
    PROVE  Wrote(s, Len(buffer[s]))
<1>1. Put(s, Len(buffer[s])) /\ tail' = [tail EXCEPT ![s] = Ending(s, Len(buffer[s]), FALSE)]
  BY DEF PutAll
<1>2. QED
  BY <1>1, EndTypes DEF Wrote, EndType

LEMMA FlushWrites ==
    ASSUME TypeInv, NEW t \in Threads, NEW s \in LineSinks, Flush(t, s) \/ WriteSome(t, s)
    PROVE  \E k \in 0..Len(buffer[s]) :
               Wrote(s, k) /\ buffer' = [buffer EXCEPT ![s] = SubSeq(@, k + 1, Len(@))]
<1>0. buffer[s] \in Seq(Events) /\ buffer \in [LineSinks -> Seq(Events)] /\ EndType
  BY DEF TypeInv, FileType
<1>1. CASE WriteSome(t, s)
  <2>1. PICK k \in 0..(Len(buffer[s]) - 1), more \in BOOLEAN :
            /\ Put(s, k) /\ tail' = [tail EXCEPT ![s] = Ending(s, k, more)]
            /\ buffer' = [buffer EXCEPT ![s] = SubSeq(@, k + 1, Len(@))]
    BY <1>1 DEF WriteSome
  <2>2. Wrote(s, k)
    BY <1>0, <2>1, EndTypes DEF Wrote, EndType
  <2>3. k \in 0..Len(buffer[s])
    BY <1>0
  <2>. QED
    BY <2>1, <2>2, <2>3
<1>2. CASE Flush(t, s)
  <2>1. Wrote(s, Len(buffer[s])) /\ buffer' = [buffer EXCEPT ![s] = <<>>]
    BY <1>0, <1>2, AllWritten DEF Flush
  <2>2. SubSeq(buffer[s], Len(buffer[s]) + 1, Len(buffer[s])) = <<>> /\ Len(buffer[s]) \in 0..Len(buffer[s])
    BY <1>0
  <2>. QED
    BY <2>1, <2>2
<1>. QED
  BY <1>1, <1>2

LEMMA CloseWrites ==
    ASSUME TypeInv, CloseJsonl \/ FailClose
    PROVE  \E k \in 0..Len(buffer[Jsonl]) : Wrote(Jsonl, k) /\ buffer' = [buffer EXCEPT ![Jsonl] = <<>>]
<1>0. /\ buffer[Jsonl] \in Seq(Events) /\ Len(buffer[Jsonl]) \in 0..Len(buffer[Jsonl])
      /\ EndType /\ Jsonl \in LineSinks
  BY DEF TypeInv, FileType, LineSinks
<1>1. buffer' = [buffer EXCEPT ![Jsonl] = <<>>]
  BY DEF CloseJsonl, FailClose, Close
<1>2. CASE CloseJsonl
  BY <1>0, <1>1, <1>2, AllWritten DEF CloseJsonl
<1>3. CASE FailClose
  <2>1. PICK k \in 0..(Len(buffer[Jsonl]) - 1), more \in BOOLEAN :
            Put(Jsonl, k) /\ tail' = [tail EXCEPT ![Jsonl] = Orphaned(Ending(Jsonl, k, more))]
    BY <1>3 DEF FailClose
  <2>2. Wrote(Jsonl, k)
    BY <1>0, <2>1, EndTypes DEF Wrote, EndType
  <2>3. k \in 0..Len(buffer[Jsonl])
    BY <1>0
  <2>. QED
    BY <1>1, <2>2, <2>3
<1>. QED
  BY <1>2, <1>3

LEMMA FileStep == TypeInv /\ [Next]_vars => FileType' /\ EndType'
<1> SUFFICES ASSUME TypeInv, [Next]_vars PROVE FileType' /\ EndType'
  OBVIOUS
<1>0. FileType /\ EndType /\ CountType /\ ControlType
  BY DEF TypeInv
<1> USE SinksDiffer DEF FileType, EndType, LineSinks, Sinks
<1>1. ASSUME NEW t \in Threads, HandleInMemory(t) PROVE FileType' /\ EndType'
  <2>1. Event(t) \in Events
    BY <1>0, <1>1, EventType DEF HandleInMemory
  <2>2. QED
    BY <1>0, <1>1, <2>1 DEF HandleInMemory, ends
<1>2. ASSUME NEW t \in Threads, NEW s \in LineSinks, WriteLine(t, s) PROVE FileType' /\ EndType'
  <2>1. Event(t) \in Events
    BY <1>0, <1>2, EventType DEF WriteLine
  <2>2. Append(buffer[s], Event(t)) \in Seq(Events)
    BY <1>0, <2>1
  <2>3. buffer' \in [LineSinks -> Seq(Events)]
    BY <1>0, <1>2, <2>2 DEF WriteLine
  <2>4. QED
    BY <1>0, <1>2, <2>3 DEF WriteLine, ends
<1>3. ASSUME NEW t \in Threads, NEW s \in LineSinks, Flush(t, s) \/ WriteSome(t, s)
      PROVE  FileType' /\ EndType'
  <2>1. PICK k \in 0..Len(buffer[s]) :
            Wrote(s, k) /\ buffer' = [buffer EXCEPT ![s] = SubSeq(@, k + 1, Len(@))]
    BY <1>3, FlushWrites
  <2>2. file' \in [Sinks -> Seq(Events)] /\ joined' \in [LineSinks -> SUBSET Nat]
    BY <1>0, <2>1, PutWrites DEF Wrote
  <2>3. buffer[s] \in Seq(Events) /\ SubSeq(buffer[s], k + 1, Len(buffer[s])) \in Seq(Events)
    BY <1>0, Parted
  <2>. QED
    BY <1>0, <2>1, <2>2, <2>3 DEF Wrote
<1>4. CASE CloseJsonl \/ FailClose
  <2>1. PICK k \in 0..Len(buffer[Jsonl]) : Wrote(Jsonl, k) /\ buffer' = [buffer EXCEPT ![Jsonl] = <<>>]
    BY <1>4, CloseWrites
  <2>2. file' \in [Sinks -> Seq(Events)] /\ joined' \in [LineSinks -> SUBSET Nat]
    BY <1>0, <2>1, PutWrites DEF Wrote
  <2>. QED
    BY <1>0, <2>1, <2>2 DEF Wrote
<1>5. CASE Kill
  BY <1>0, <1>5 DEF Kill, Orphaned
<1>6. ASSUME NEW t \in Threads, NEW s \in LineSinks, FailFlush(t, s) PROVE FileType' /\ EndType'
  <2>1. buffer[s] \in Seq(Events)
    BY <1>0
  <2>2. CASE UNCHANGED buffer
    BY <1>0, <1>6, <2>2 DEF FailFlush, ends
  <2>3. CASE Len(buffer[s]) > 1 /\ buffer' = [buffer EXCEPT ![s] = Front(@)]
    <3>1. Front(buffer[s]) \in Seq(Events)
      BY <2>1, <2>3, Dropped
    <3>. QED
      BY <1>0, <1>6, <2>3, <3>1 DEF FailFlush, ends
  <2>. QED
    BY <1>6, <2>2, <2>3 DEF FailFlush
<1>7. ASSUME NEW t \in Threads, Emit(t) \/ Return(t) \/ SkipSink(t) \/ StartLine(t)
      PROVE FileType' /\ EndType'
  BY <1>0, <1>7 DEF Emit, Return, SkipSink, StartLine, ends
<1>8. ASSUME NEW s \in Sinks, AddSink(s) \/ RemoveSink(s) PROVE FileType' /\ EndType'
  BY <1>0, <1>8 DEF AddSink, RemoveSink, ends
<1>9. CASE ClearSinks \/ Interrupt \/ UNCHANGED vars
  BY <1>0, <1>9 DEF ClearSinks, Interrupt, vars, ends
<1>10. QED
  BY <1>1, <1>2, <1>3, <1>4, <1>5, <1>6, <1>7, <1>8, <1>9 DEF Next, Step

LEMMA HistoryStep == TypeInv /\ [Next]_vars => HistoryType'
<1> SUFFICES ASSUME TypeInv, [Next]_vars PROVE HistoryType'
  OBVIOUS
<1> USE SinksDiffer DEF TypeInv, HistoryType
<1>1. ASSUME NEW t \in Threads, Emit(t) PROVE HistoryType'
  <2>1. ToSet(sinks) \subseteq Sinks
    BY DEF ListType, ToSet
  <2>2. QED
    BY <1>1, <2>1 DEF Emit
<1>2. ASSUME NEW t \in Threads, Return(t) PROVE HistoryType'
  <2>1. Event(t) \in Events
    BY <1>2, EventType DEF Return
  <2>2. QED
    BY <1>2, <2>1 DEF Return
<1>3. ASSUME NEW t \in Threads, HandleInMemory(t) \/ SkipSink(t) \/ StartLine(t) PROVE HistoryType'
  BY <1>3 DEF HandleInMemory, SkipSink, StartLine
<1>4. ASSUME NEW t \in Threads, NEW s \in LineSinks, WriteLine(t, s) \/ Flush(t, s) \/ FailFlush(t, s)
      PROVE HistoryType'
  BY <1>4 DEF WriteLine, Flush, FailFlush
<1>5. ASSUME NEW s \in Sinks, AddSink(s) PROVE HistoryType'
  BY <1>5 DEF AddSink
<1>6. ASSUME NEW s \in Sinks, RemoveSink(s) PROVE HistoryType'
  <2>1. PICK i \in DOMAIN sinks :
            owed' = [t \in Threads |-> IF pc[t] = "idle" THEN {} ELSE owed[t] \ (Passed(t, i) \cup {s})]
    BY <1>6 DEF RemoveSink, ToSet
  <2>2. QED
    BY <1>6, <2>1 DEF RemoveSink
<1>7. CASE ClearSinks \/ CloseJsonl \/ FailClose
  BY <1>7 DEF ClearSinks, CloseJsonl, FailClose, Close
<1>8. CASE Interrupt \/ Kill \/ UNCHANGED vars
  BY <1>8 DEF Interrupt, Kill, vars
<1>9. ASSUME NEW t \in Threads, NEW s \in LineSinks, WriteSome(t, s) PROVE HistoryType'
  BY <1>9, SomeWritten
<1>10. QED
  BY <1>1, <1>2, <1>3, <1>4, <1>5, <1>6, <1>7, <1>8, <1>9 DEF Next, Step

LEMMA TypeStep == TypeInv /\ [Next]_vars => TypeInv'
  BY ControlStep, CountStep, BoundStep, ListStep, FileStep, HistoryStep DEF TypeInv

LEMMA TypeInvariant == Spec => []TypeInv
  BY TypeInit, TypeStep, PTL DEF Spec

\* Types, and that a sink's lock is held by the thread that is writing to it, for any number of
\* threads and failures (sinks.py:87-93, 160-168).
THEOREM TraceTypeCorrect == Spec => []TypeOK
<1>1. TypeInv => TypeOK
  BY DEF TypeInv, ControlType, ListType, CountType, BoundType, FileType, EndType, HistoryType, TypeOK
<1>2. QED
  BY <1>1, TypeInvariant, PTL
-----------------------------------------------------------------------------
(* The trail.                                                              *)

Line == file[Jsonl] \o buffer[Jsonl]

Written(t) == \E i \in DOMAIN Line : Line[i] = Event(t)

\* The JSON-lines sink is behind the thread's index: its loop does not come to it again.
Behind(t) ==
    /\ Jsonl \in met
    /\ \A i \in DOMAIN sinks : sinks[i] = Jsonl => i < at[t] \/ (i = at[t] /\ pc[t] = Jsonl)

\* Every line is of an event that was emitted, in its thread's order.
OrderInv ==
    /\ Trail!InOrder(Line)
    /\ \A i \in DOMAIN Line : Line[i][2] <= emitted[Line[i][1]]

\* A thread that is about to write its event, or has written it, will not come to the sink again.
BehindInv ==
    /\ \A t \in Threads : pc[t] = Jsonl => Behind(t)
    /\ \A t \in Threads : pc[t] # "idle" /\ Written(t) =>
                              Behind(t) /\ (pc[t] = Jsonl => lock[Jsonl] = t)

\* No sink is in the list twice, and none is there that has not been met.
ListInv == IsInjective(sinks) /\ \A i \in DOMAIN sinks : sinks[i] \in met

TrailInv == OrderInv /\ BehindInv /\ ListInv

LEMMA LineType == TypeInv => Line \in Seq(Events)
  BY DEF TypeInv, FileType, Line, LineSinks, Sinks

\* The line after a step: no event that was not in it before, and those it has where they were.
Shortened == \A i \in DOMAIN Line' : i \in DOMAIN Line /\ Line'[i] = Line[i]

LEMMA Regrouped ==
    ASSUME NEW S, NEW f \in Seq(S), NEW p \in Seq(S), NEW q \in Seq(S)
    PROVE  (f \o p) \o q = f \o (p \o q)
  BY ConcatAssociative, SMTT(20)

LEMMA MovedLine ==
    ASSUME NEW S, NEW f \in Seq(S), NEW b \in Seq(S), NEW k \in 0..Len(b)
    PROVE  (f \o SubSeq(b, 1, k)) \o SubSeq(b, k + 1, Len(b)) = f \o b
<1>1. SubSeq(b, 1, k) \in Seq(S) /\ SubSeq(b, k + 1, Len(b)) \in Seq(S)
  BY Parted
<1>2. 1 \in 1..(Len(b) + 1) /\ k \in (1 - 1)..Len(b) /\ Len(b) \in k..Len(b)
  OBVIOUS
<1>3. SubSeq(b, 1, k) \o SubSeq(b, k + 1, Len(b)) = SubSeq(b, 1, Len(b))
  BY <1>2, ConcatAdjacentSubSeq
<1>4. SubSeq(b, 1, Len(b)) = b
  BY SubSeqFull
<1>5. SubSeq(b, 1, k) \o SubSeq(b, k + 1, Len(b)) = b
  BY ONLY <1>3, <1>4, Zenon
<1>6. (f \o SubSeq(b, 1, k)) \o SubSeq(b, k + 1, Len(b)) = f \o (SubSeq(b, 1, k) \o SubSeq(b, k + 1, Len(b)))
  <2>1. \A p, q \in Seq(S) : (f \o p) \o q = f \o (p \o q)
    BY Regrouped
  <2>. QED
    BY ONLY <1>1, <2>1
<1>. QED
  BY ONLY <1>5, <1>6, Zenon

\* What an action does to the line: nothing, or append an event, or take from its end.
LEMMA LineKept ==
    ASSUME TypeInv, NEW t \in Threads, NEW s \in LineSinks,
           \/ Emit(t) \/ Return(t) \/ SkipSink(t) \/ StartLine(t) \/ HandleInMemory(t)
           \/ Flush(t, s) \/ WriteSome(t, s) \/ WriteLine(t, Emf)
    PROVE  Line' = Line
<1>0. FileType /\ EndType
  BY DEF TypeInv
<1> USE SinksDiffer DEF FileType, LineSinks, Sinks
<1>1. CASE Emit(t) \/ Return(t) \/ SkipSink(t) \/ StartLine(t)
  BY <1>1 DEF Emit, Return, SkipSink, StartLine, Line
<1>2. CASE HandleInMemory(t)
  BY <1>0, <1>2 DEF HandleInMemory, Line
<1>3. CASE WriteLine(t, Emf)
  BY <1>0, <1>3 DEF WriteLine, Line
<1>4. CASE Flush(t, s) \/ WriteSome(t, s)
  <2>1. PICK k \in 0..Len(buffer[s]) :
            Wrote(s, k) /\ buffer' = [buffer EXCEPT ![s] = SubSeq(@, k + 1, Len(@))]
    BY <1>4, FlushWrites
  <2>2. /\ file'[s] = file[s] \o SubSeq(buffer[s], 1, k)
        /\ \A r \in Sinks \ {s} : file'[r] = file[r]
    BY <1>0, <2>1, PutWrites DEF Wrote
  <2>3. CASE s = Emf
    BY <1>0, <2>1, <2>2, <2>3 DEF Line
  <2>4. CASE s = Jsonl
    <3>1. /\ file[Jsonl] \in Seq(Events) /\ buffer[Jsonl] \in Seq(Events)
          /\ buffer'[Jsonl] = SubSeq(buffer[Jsonl], k + 1, Len(buffer[Jsonl]))
      BY <1>0, <2>1, <2>4
    <3>2. (file[Jsonl] \o SubSeq(buffer[Jsonl], 1, k)) \o SubSeq(buffer[Jsonl], k + 1, Len(buffer[Jsonl]))
            = file[Jsonl] \o buffer[Jsonl]
      BY <2>4, <3>1, MovedLine
    <3>. QED
      BY <2>2, <2>4, <3>1, <3>2 DEF Line
  <2>. QED
    BY <2>3, <2>4
<1>5. QED
  BY <1>1, <1>2, <1>3, <1>4

LEMMA LineKeptByChanges ==
    ASSUME TypeInv, NEW s \in Sinks,
           AddSink(s) \/ RemoveSink(s) \/ ClearSinks \/ Interrupt \/ UNCHANGED vars
    PROVE  Line' = Line
  BY DEF AddSink, RemoveSink, ClearSinks, Interrupt, vars, Line

LEMMA Prefix ==
    ASSUME NEW S, NEW f \in Seq(S), NEW b \in Seq(S)
    PROVE  \A i \in DOMAIN f : i \in DOMAIN (f \o b) /\ (f \o b)[i] = f[i]
  BY ConcatProperties

LEMMA LineShortened ==
    ASSUME TypeInv, NEW t \in Threads, NEW s \in LineSinks,
           FailFlush(t, s) \/ CloseJsonl \/ FailClose \/ Kill
    PROVE  Shortened
<1>0. FileType /\ EndType /\ file[Jsonl] \in Seq(Events) /\ buffer[Jsonl] \in Seq(Events)
  BY DEF TypeInv, FileType, LineSinks, Sinks
<1>1. ASSUME NEW k \in 0..Len(buffer[Jsonl]), Line' = file[Jsonl] \o SubSeq(buffer[Jsonl], 1, k)
      PROVE  Shortened
  <2> DEFINE rest == SubSeq(buffer[Jsonl], k + 1, Len(buffer[Jsonl]))
  <2>1. SubSeq(buffer[Jsonl], 1, k) \in Seq(Events) /\ rest \in Seq(Events)
    BY <1>0, Parted
  <2>2. Line' \in Seq(Events)
    BY <1>0, <1>1, <2>1
  <2>3. Line = Line' \o rest
    BY <1>0, <1>1, MovedLine DEF Line
  <2>. QED
    BY <2>1, <2>2, <2>3, Prefix DEF Shortened
<1>2. ASSUME NEW f \in Seq(Events) PROVE f \o <<>> = f
  OBVIOUS
<1>3. ASSUME Line' = Line PROVE Shortened
  BY <1>3 DEF Shortened
<1>4. CASE CloseJsonl \/ FailClose
  <2>1. PICK k \in 0..Len(buffer[Jsonl]) : Wrote(Jsonl, k) /\ buffer' = [buffer EXCEPT ![Jsonl] = <<>>]
    BY <1>4, CloseWrites
  <2>2. file'[Jsonl] = file[Jsonl] \o SubSeq(buffer[Jsonl], 1, k) /\ file' \in [Sinks -> Seq(Events)]
    BY <1>0, <2>1, PutWrites DEF Wrote, LineSinks
  <2>3. Line' = file'[Jsonl] /\ buffer'[Jsonl] = <<>>
    BY <1>0, <1>2, <2>1, <2>2 DEF Line, FileType, LineSinks, Sinks
  <2>. QED
    BY <1>1, <2>2, <2>3
<1>5. CASE FailFlush(t, s)
  <2>1. file' = file
    BY <1>5 DEF FailFlush
  <2>2. CASE buffer'[Jsonl] = buffer[Jsonl]
    BY <1>3, <2>1, <2>2 DEF Line
  <2>3. CASE Len(buffer[Jsonl]) > 1 /\ buffer'[Jsonl] = Front(buffer[Jsonl])
    <3>1. /\ Front(buffer[Jsonl]) = SubSeq(buffer[Jsonl], 1, Len(buffer[Jsonl]) - 1)
          /\ Len(buffer[Jsonl]) - 1 \in 0..Len(buffer[Jsonl])
      BY <1>0, <2>3, Dropped
    <3>. QED
      BY <1>1, <2>1, <2>3, <3>1 DEF Line
  <2>. QED
    BY <1>0, <1>5, <2>2, <2>3 DEF FailFlush, FileType, LineSinks
<1>6. CASE Kill
  <2>1. file'[Jsonl] = file[Jsonl] /\ buffer'[Jsonl] = <<>>
    BY <1>0, <1>6, SinksDiffer DEF Kill, FileType, LineSinks, Sinks
  <2>2. SubSeq(buffer[Jsonl], 1, 0) = <<>> /\ 0 \in 0..Len(buffer[Jsonl])
    BY <1>0
  <2>. QED
    BY <1>1, <2>1, <2>2 DEF Line
<1>. QED
  BY <1>4, <1>5, <1>6

LEMMA LineWritten ==
    ASSUME TypeInv, NEW t \in Threads, WriteLine(t, Jsonl)
    PROVE  \/ GoOn(t) /\ lock' = lock /\ Line' = Line
           \/ /\ UNCHANGED <<pc, at>> /\ lock' = [lock EXCEPT ![Jsonl] = t]
              /\ Line' = Append(Line, Event(t))
<1> USE SinksDiffer DEF TypeInv, FileType, LineSinks, Sinks, Line
<1>1. CASE ~open
  BY <1>1 DEF WriteLine
<1>2. CASE open
  <2>1. Event(t) \in Events
    BY EventType DEF WriteLine
  <2>2. buffer'[Jsonl] = Append(buffer[Jsonl], Event(t)) /\ file' = file
    BY <1>2 DEF WriteLine
  <2>3. Line' = Append(Line, Event(t))
    BY <2>1, <2>2
  <2>4. QED
    BY <1>2, <2>3 DEF WriteLine
<1>3. QED
  BY <1>1, <1>2

LEMMA ListInvStep == TypeInv /\ ListInv /\ [Next]_vars => ListInv'
<1> SUFFICES ASSUME TypeInv, ListInv, [Next]_vars PROVE ListInv'
  OBVIOUS
<1> USE DEF TypeInv, ListType, ListInv, IsInjective
<1>1. ASSUME NEW s \in Sinks, AddSink(s) PROVE ListInv'
  <2>1. /\ sinks' = Append(sinks, s) /\ met' = met \cup {s} /\ s \notin met
    BY <1>1 DEF AddSink
  <2>2. /\ DOMAIN sinks' = 1..(Len(sinks) + 1) /\ sinks'[Len(sinks) + 1] = s
        /\ \A i \in 1..Len(sinks) : i \in DOMAIN sinks /\ sinks'[i] = sinks[i]
    BY <2>1
  <2>3. QED
    BY <2>1, <2>2
<1>2. ASSUME NEW s \in Sinks, RemoveSink(s) PROVE ListInv'
  <2>1. PICK i \in DOMAIN sinks : sinks' = RemoveAt(sinks, i)
    BY <1>2 DEF RemoveSink, ToSet
  <2>2. /\ DOMAIN sinks' = 1..(Len(sinks) - 1)
        /\ \A j \in DOMAIN sinks' : sinks'[j] = IF j < i THEN sinks[j] ELSE sinks[j + 1]
    <3>1. /\ sinks' \in Seq(Sinks) /\ Len(sinks') = Len(sinks) - 1
          /\ \A j \in 1..(Len(sinks) - 1) :
                 sinks'[j] = IF j < i THEN sinks[j] ELSE sinks[j + 1]
      BY <2>1, Removal
    <3>2. QED
      BY <3>1
  <2>3. \A j \in DOMAIN sinks' : j \in DOMAIN sinks /\ j + 1 \in DOMAIN sinks
    BY <2>2
  <2>4. met' = met
    BY <1>2 DEF RemoveSink
  <2>5. \A j \in DOMAIN sinks' : sinks'[j] \in met'
    BY <2>2, <2>3, <2>4
  <2>6. ASSUME NEW j \in DOMAIN sinks', NEW k \in DOMAIN sinks', sinks'[j] = sinks'[k] PROVE j = k
    BY <2>2, <2>3, <2>6
  <2>7. QED
    BY <2>5, <2>6
<1>3. CASE ClearSinks
  BY <1>3 DEF ClearSinks
<1>7. CASE CloseJsonl \/ FailClose \/ Interrupt \/ UNCHANGED vars
  BY <1>7 DEF CloseJsonl, FailClose, Close, Interrupt, vars
<1>4. CASE Kill
  BY <1>4, TraceAssumption DEF Kill, TraceAssumption, Sinks, ToSet
<1>5. ASSUME NEW t \in Threads, Emit(t) \/ Step(t) \/ \E s \in LineSinks : FailFlush(t, s)
      PROVE ListInv'
  BY <1>5 DEF Emit, Step, Return, HandleInMemory, SkipSink, StartLine, WriteLine, Flush, FailFlush
<1>6. ASSUME NEW t \in Threads, NEW s \in LineSinks, WriteSome(t, s) PROVE ListInv'
  BY <1>6, SomeWritten
<1>8. QED
  BY <1>1, <1>2, <1>3, <1>4, <1>5, <1>6, <1>7 DEF Next

LEMMA OrderStep == TypeInv /\ OrderInv /\ BehindInv /\ [Next]_vars => OrderInv'
<1> SUFFICES ASSUME TypeInv, OrderInv, BehindInv, [Next]_vars PROVE OrderInv'
  OBVIOUS
<1>0. DOMAIN Line' = 1..Len(Line') /\ DOMAIN Line = 1..Len(Line)
  <2>1. Line \in Seq(Events)
    BY LineType
  <2>2. TypeInv'
    BY TypeStep
  <2>3. Line' \in Seq(Events)
    BY <2>2 DEF TypeInv, FileType, Line, LineSinks, Sinks
  <2>. QED
    BY <2>1, <2>3
<1>1. ASSUME Shortened, emitted' = emitted PROVE OrderInv'
  BY <1>0, <1>1 DEF Shortened, OrderInv, Trail!InOrder
<1>s. ASSUME Line' = Line PROVE Shortened
  BY <1>s DEF Shortened
<1>2. ASSUME NEW t \in Threads, Emit(t) PROVE OrderInv'
  <2>1. Line' = Line
    BY <1>2, LineKept DEF LineSinks
  <2>2. emitted \in [Threads -> Nat] /\ emitted' \in [Threads -> Nat]
    BY <1>2, TraceAssumption DEF Emit, TypeInv, CountType, TraceAssumption
  <2>3. \A u \in Threads : emitted'[u] >= emitted[u]
    BY <1>2, <2>2 DEF Emit
  <2>4. \A i \in DOMAIN Line : Line[i][1] \in Threads /\ Line[i][2] \in Nat
    BY LineType DEF Events
  <2>5. \A i \in DOMAIN Line : Line[i][2] <= emitted'[Line[i][1]]
    BY <2>2, <2>3, <2>4 DEF OrderInv
  <2>6. QED
    BY <2>1, <2>5 DEF OrderInv, Trail!InOrder
<1>3. ASSUME NEW t \in Threads, WriteLine(t, Jsonl), Line' = Append(Line, Event(t)), emitted' = emitted,
             lock' = [lock EXCEPT ![Jsonl] = t]
      PROVE  OrderInv'
  <2>1. Event(t) \in Events /\ Event(t)[1] = t /\ Event(t)[2] = emitted[t] /\ emitted[t] \in Nat
    BY <1>3, EventType, SinksDiffer, TraceAssumption
       DEF WriteLine, Event, TypeInv, CountType, TraceAssumption
  <2>2. lock[Jsonl] = Nobody /\ pc[t] = Jsonl
    BY <1>3 DEF WriteLine
  <2>3. ~Written(t)
    BY <2>2, SinksDiffer DEF BehindInv
  <2>4. /\ DOMAIN Line' = 1..(Len(Line) + 1) /\ Line'[Len(Line) + 1] = Event(t)
        /\ \A i \in 1..Len(Line) : i \in DOMAIN Line /\ Line'[i] = Line[i]
        /\ DOMAIN Line = 1..Len(Line) /\ Len(Line) \in Nat
    BY <1>3, <2>1, LineType
  <2>5. \A i \in DOMAIN Line : Line[i][1] = t => Line[i][2] < emitted[t]
    <3>1. SUFFICES ASSUME NEW i \in DOMAIN Line, Line[i][1] = t PROVE Line[i][2] < emitted[t]
      OBVIOUS
    <3>2. Line[i] \in Events /\ Line[i] # Event(t)
      BY <2>3, LineType DEF Written
    <3>3. Line[i] = <<t, Line[i][2]>> /\ Line[i][2] \in Nat
      BY <3>1, <3>2 DEF Events
    <3>4. Line[i][2] # emitted[t] /\ Line[i][2] <= emitted[t]
      BY <3>1, <3>2, <3>3 DEF Event, OrderInv
    <3>5. QED
      BY <2>1, <3>3, <3>4
  <2>6. ASSUME NEW i \in DOMAIN Line', NEW j \in DOMAIN Line', i < j, Line'[i][1] = Line'[j][1]
        PROVE  Line'[i][2] < Line'[j][2]
    <3>1. CASE j = Len(Line) + 1
      BY <2>1, <2>4, <2>5, <2>6, <3>1
    <3>2. CASE j \in 1..Len(Line)
      BY <2>4, <2>6, <3>2 DEF OrderInv, Trail!InOrder
    <3>3. QED
      BY <2>4, <3>1, <3>2
  <2>7. DOMAIN Line' = 1..Len(Line')
    BY <1>3, <2>1, LineType
  <2>8. \A i \in DOMAIN Line' : Line'[i][2] <= emitted'[Line'[i][1]]
    BY <1>3, <2>1, <2>4 DEF OrderInv
  <2>9. QED
    BY <2>6, <2>7, <2>8 DEF OrderInv, Trail!InOrder
<1>4. CASE Kill \/ CloseJsonl \/ FailClose
  <2>1. Shortened
    BY <1>4, SinksDiffer, LineShortened DEF LineSinks
  <2>2. emitted' = emitted
    BY <1>4 DEF Kill, CloseJsonl, FailClose, Close
  <2>. QED
    BY <1>1, <2>1, <2>2
<1>5. ASSUME NEW t \in Threads,
             Return(t) \/ SkipSink(t) \/ StartLine(t) \/ HandleInMemory(t) \/ WriteLine(t, Emf)
      PROVE  OrderInv'
  <2>1. Line' = Line
    BY <1>5, LineKept DEF LineSinks
  <2>2. emitted' = emitted
    BY <1>5 DEF Return, SkipSink, StartLine, HandleInMemory, WriteLine
  <2>3. QED
    BY <1>1, <1>s, <2>1, <2>2
<1>6. ASSUME NEW t \in Threads, NEW s \in LineSinks, Flush(t, s) \/ WriteSome(t, s) \/ FailFlush(t, s)
      PROVE  OrderInv'
  <2>1. Shortened
    BY <1>6, <1>s, LineKept, LineShortened
  <2>2. emitted' = emitted
    BY <1>6 DEF Flush, WriteSome, FailFlush
  <2>3. QED
    BY <1>1, <2>1, <2>2
<1>7. ASSUME NEW s \in Sinks, AddSink(s) \/ RemoveSink(s) PROVE OrderInv'
  BY <1>1, <1>s, <1>7, LineKeptByChanges DEF AddSink, RemoveSink
<1>8. CASE ClearSinks \/ Interrupt \/ UNCHANGED vars
  <2>1. Line' = Line
    BY <1>8, LineKeptByChanges DEF Sinks
  <2>2. emitted' = emitted
    BY <1>8 DEF ClearSinks, Interrupt, vars
  <2>3. QED
    BY <1>1, <1>s, <2>1, <2>2
<1>9. ASSUME NEW t \in Threads, WriteLine(t, Jsonl) PROVE OrderInv'
  <2>1. emitted' = emitted
    BY <1>9 DEF WriteLine
  <2>2. QED
    BY <1>1, <1>s, <1>3, <1>9, <2>1, LineWritten
<1>10. QED
  BY <1>2, <1>4, <1>5, <1>6, <1>7, <1>8, <1>9 DEF Next, Step, LineSinks

\* A thread that is not in the step keeps what BehindInv says of it, as does one that moves on.
LEMMA BehindKept ==
    ASSUME TypeInv, BehindInv, NEW u \in Threads, Shortened, emitted'[u] = emitted[u],
           UNCHANGED <<sinks, met>>,
           \/ /\ pc'[u] = pc[u] /\ at'[u] = at[u]
              /\ pc[u] = Jsonl => (lock[Jsonl] = u => lock'[Jsonl] = u)
           \/ pc[u] # "idle" /\ pc'[u] = "dispatch" /\ at'[u] = at[u] + 1
           \/ pc'[u] = "idle"
    PROVE  /\ pc'[u] = Jsonl => Behind(u)'
           /\ pc'[u] # "idle" /\ Written(u)' => Behind(u)' /\ (pc'[u] = Jsonl => lock'[Jsonl] = u)
<1> USE SinksDiffer DEF BehindInv, Behind, TypeInv, CountType, ListType
<1>1. Written(u)' => Written(u)
  BY DEF Written, Event, Shortened
<1>2. CASE pc'[u] = pc[u] /\ at'[u] = at[u] /\ (pc[u] = Jsonl => (lock[Jsonl] = u => lock'[Jsonl] = u))
  BY <1>1, <1>2
<1>3. CASE pc[u] # "idle" /\ pc'[u] = "dispatch" /\ at'[u] = at[u] + 1
  BY <1>1, <1>3
<1>4. CASE pc'[u] = "idle"
  BY <1>4
<1>5. QED
  BY <1>2, <1>3, <1>4

LEMMA BehindStep == TypeInv /\ OrderInv /\ BehindInv /\ ListInv /\ [Next]_vars => BehindInv'
<1> SUFFICES ASSUME TypeInv, OrderInv, BehindInv, ListInv, [Next]_vars PROVE BehindInv'
  OBVIOUS
<1> DEFINE Ok(u) == /\ pc[u] = Jsonl => Behind(u)
                    /\ pc[u] # "idle" /\ Written(u) => Behind(u) /\ (pc[u] = Jsonl => lock[Jsonl] = u)
<1>0. (\A u \in Threads : Ok(u)') => BehindInv'
  BY DEF BehindInv
<1> HIDE DEF Ok
<1>s. ASSUME Line' = Line PROVE Shortened
  BY <1>s DEF Shortened
<1>1. ASSUME NEW t \in Threads, Emit(t), NEW u \in Threads PROVE Ok(u)'
  <2>1. Line' = Line
    BY <1>1, LineKept DEF LineSinks
  <2>2. CASE u # t \/ sinks = <<>>
    <3>1. CASE u = t
      BY <1>1, <2>2, <3>1, SinksDiffer DEF Emit, Ok, TypeInv, ControlType
    <3>2. CASE u # t
      BY <1>1, <1>s, <2>1, <3>2, BehindKept DEF Emit, Ok, TypeInv, ControlType, CountType
    <3>3. QED
      BY <3>1, <3>2
  <2>3. CASE u = t /\ sinks # <<>>
    <3>1. pc'[t] = "dispatch" /\ emitted'[t] = emitted[t] + 1 /\ emitted[t] \in Nat
      BY <1>1, <2>3, TraceAssumption DEF Emit, TypeInv, ControlType, CountType, TraceAssumption
    <3>2. ~Written(t)'
      <4>1. SUFFICES ASSUME NEW i \in DOMAIN Line, Line[i] = <<t, emitted[t] + 1>> PROVE FALSE
        BY <2>1, <3>1 DEF Written, Event
      <4>2. emitted[t] + 1 <= emitted[t]
        BY <4>1 DEF OrderInv
      <4>3. QED
        BY <3>1, <4>2
    <3>3. QED
      BY <2>3, <3>1, <3>2, SinksDiffer DEF Ok
  <2>4. QED
    BY <2>2, <2>3
<1>2. ASSUME NEW t \in Threads, NEW s \in LineSinks,
             \/ Return(t) \/ HandleInMemory(t) \/ SkipSink(t) \/ WriteLine(t, Emf)
             \/ Flush(t, s) \/ FailFlush(t, s),
             NEW u \in Threads
      PROVE  Ok(u)'
  <2>1. Shortened
    BY <1>2, <1>s, LineKept, LineShortened
  <2>2. emitted' = emitted /\ UNCHANGED <<sinks, met>>
    BY <1>2 DEF Return, HandleInMemory, SkipSink, WriteLine, Flush, FailFlush
  <2>3. CASE u # t
    <3>1. pc'[u] = pc[u] /\ at'[u] = at[u]
      BY <1>2, <2>3 DEF Return, HandleInMemory, SkipSink, WriteLine, Flush, FailFlush, GoOn, TypeInv,
                        ControlType, CountType
    <3>2. lock[Jsonl] = u => lock'[Jsonl] = u
      <4>1. CASE Return(t) \/ HandleInMemory(t) \/ SkipSink(t)
        BY <4>1 DEF Return, HandleInMemory, SkipSink
      <4>2. CASE WriteLine(t, Emf)
        BY <4>2, SinksDiffer DEF WriteLine, TypeInv, ControlType, LineSinks
      <4>3. CASE Flush(t, s) \/ FailFlush(t, s)
        BY <2>3, <4>3 DEF Flush, FailFlush, Holds, TypeInv, ControlType, LineSinks
      <4>4. QED
        BY <1>2, <4>1, <4>2, <4>3
    <3>3. QED
      BY <2>1, <2>2, <3>1, <3>2, BehindKept DEF Ok
  <2>4. CASE u = t
    <3>1. CASE Return(t)
      <4>1. pc'[t] = "idle"
        BY <3>1 DEF Return, TypeInv, ControlType
      <4>2. QED
        BY <2>4, <4>1, SinksDiffer DEF Ok
    <3>2. CASE WriteLine(t, Emf) /\ UNCHANGED <<pc, at>>
      <4>1. pc[t] = Emf
        BY <3>2 DEF WriteLine
      <4>2. QED
        BY <2>1, <2>2, <2>4, <3>2, <4>1, SinksDiffer, BehindKept DEF Ok
    <3>3. CASE GoOn(t) /\ pc[t] # "idle"
      <4>1. pc'[t] = "dispatch" /\ at'[t] = at[t] + 1
        BY <3>3 DEF GoOn, TypeInv, ControlType, CountType
      <4>2. QED
        BY <2>1, <2>2, <2>4, <3>3, <4>1, BehindKept DEF Ok
    <3>4. QED
      BY <1>2, <3>1, <3>2, <3>3, SinksDiffer
         DEF HandleInMemory, SkipSink, WriteLine, Flush, FailFlush, LineSinks
  <2>5. QED
    BY <2>3, <2>4
<1>3. ASSUME NEW t \in Threads, StartLine(t), NEW u \in Threads PROVE Ok(u)'
  <2>1. Line' = Line
    BY <1>3, LineKept DEF LineSinks
  <2>2. UNCHANGED <<emitted, sinks, met, at, lock>> /\ pc' = [pc EXCEPT ![t] = Current(t)]
    BY <1>3 DEF StartLine
  <2>3. CASE u # t
    BY <1>s, <2>1, <2>2, <2>3, BehindKept DEF Ok, TypeInv, ControlType
  <2>4. CASE u = t
    <3>1. pc[t] = "dispatch" /\ at[t] \in DOMAIN sinks /\ pc'[t] = sinks[at[t]]
      <4>1. pc[t] = "dispatch" /\ at[t] <= Len(sinks)
        BY <1>3 DEF StartLine
      <4>2. at[t] \in DOMAIN sinks
        BY <4>1 DEF TypeInv, CountType, ListType
      <4>3. QED
        BY <2>2, <4>1, <4>2 DEF TypeInv, ControlType, Current
    <3>2. sinks[at[t]] \in met /\ \A i \in DOMAIN sinks : sinks[i] = sinks[at[t]] => i = at[t]
      BY <3>1 DEF ListInv, IsInjective
    <3>3. Written(t) => Behind(t) /\ sinks[at[t]] # Jsonl
      BY <3>1, SinksDiffer DEF BehindInv, Behind, TypeInv, CountType
    <3>4. Written(t)' <=> Written(t)
      BY <2>1, <2>2 DEF Written, Event
    <3>5. Written(t) => Behind(t)'
      BY <2>2, <3>1, <3>3, SinksDiffer DEF Behind
    <3>6. pc'[t] = Jsonl => Behind(t)'
      BY <2>2, <3>1, <3>2 DEF Behind
    <3>7. QED
      BY <2>4, <3>1, <3>3, <3>4, <3>5, <3>6 DEF Ok
  <2>5. QED
    BY <2>3, <2>4
<1>4. ASSUME NEW t \in Threads, WriteLine(t, Jsonl), NEW u \in Threads PROVE Ok(u)'
  <2>1. emitted' = emitted /\ UNCHANGED <<sinks, met>> /\ pc[t] = Jsonl /\ lock[Jsonl] = Nobody
    BY <1>4 DEF WriteLine
  <2>2. CASE GoOn(t) /\ lock' = lock /\ Line' = Line
    BY <1>s, <2>1, <2>2, SinksDiffer, BehindKept DEF Ok, GoOn, TypeInv, ControlType, CountType
  <2>3. CASE /\ UNCHANGED <<pc, at>> /\ lock' = [lock EXCEPT ![Jsonl] = t]
             /\ Line' = Append(Line, Event(t))
    <3>1. Behind(t) /\ (Behind(u)' <=> Behind(u)) /\ lock'[Jsonl] = t
      BY <2>1, <2>3 DEF BehindInv, Behind, TypeInv, ControlType, LineSinks
    <3>2. CASE u = t
      BY <3>1, <3>2 DEF Ok
    <3>3. CASE u # t
      <4>1. Event(t) \in Events /\ Line \in Seq(Events) /\ Event(t) # Event(u) /\ Event(u)' = Event(u)
        BY <2>1, <3>3, EventType, LineType, SinksDiffer DEF TypeInv, Event
      <4>2. Written(u)' => Written(u)
        BY <2>3, <4>1 DEF Written
      <4>3. QED
        BY <2>1, <2>3, <3>1, <4>2, SinksDiffer DEF Ok, BehindInv
    <3>4. QED
      BY <3>2, <3>3
  <2>4. QED
    BY <1>4, <2>2, <2>3, LineWritten
<1>5. ASSUME NEW s \in Sinks, AddSink(s), NEW u \in Threads PROVE Ok(u)'
  <2>1. Line' = Line
    BY <1>5, LineKeptByChanges
  <2>2. /\ sinks' = Append(sinks, s) /\ met' = met \cup {s} /\ s \notin met
        /\ UNCHANGED <<pc, at, lock, emitted>>
    BY <1>5 DEF AddSink
  <2>3. /\ DOMAIN sinks' = 1..(Len(sinks) + 1) /\ sinks'[Len(sinks) + 1] = s
        /\ \A i \in 1..Len(sinks) : i \in DOMAIN sinks /\ sinks'[i] = sinks[i]
    BY <2>2 DEF TypeInv, ListType
  <2>4. Behind(u) => Behind(u)'
    BY <2>2, <2>3 DEF Behind
  <2>5. Written(u)' <=> Written(u)
    BY <2>1, <2>2 DEF Written, Event
  <2>6. QED
    BY <2>2, <2>4, <2>5 DEF Ok, BehindInv
<1>6. ASSUME NEW s \in Sinks, RemoveSink(s), NEW u \in Threads PROVE Ok(u)'
  <2>1. Line' = Line
    BY <1>6, LineKeptByChanges
  <2>2. PICK i \in DOMAIN sinks : sinks' = RemoveAt(sinks, i)
    BY <1>6 DEF RemoveSink, ToSet
  <2>3. UNCHANGED <<met, pc, at, lock, emitted>>
    BY <1>6 DEF RemoveSink
  <2>4. /\ sinks' \in Seq(Sinks) /\ Len(sinks') = Len(sinks) - 1
        /\ \A j \in 1..(Len(sinks) - 1) : sinks'[j] = IF j < i THEN sinks[j] ELSE sinks[j + 1]
    BY <2>2, Removal DEF TypeInv, ListType
  <2>5. \A j \in DOMAIN sinks' : \E k \in DOMAIN sinks : k >= j /\ sinks'[j] = sinks[k]
    <3>1. SUFFICES ASSUME NEW j \in DOMAIN sinks'
                   PROVE  \E k \in DOMAIN sinks : k >= j /\ sinks'[j] = sinks[k]
      OBVIOUS
    <3>2. j \in 1..(Len(sinks) - 1) /\ j \in DOMAIN sinks /\ j + 1 \in DOMAIN sinks
      BY <2>4 DEF TypeInv, ListType
    <3>3. QED
      BY <2>4, <3>2
  <2>6. Behind(u) => Behind(u)'
    <3>1. SUFFICES ASSUME Behind(u), NEW j \in DOMAIN sinks', sinks'[j] = Jsonl
                   PROVE  j < at[u] \/ (j = at[u] /\ pc[u] = Jsonl)
      BY <2>3 DEF Behind
    <3>2. PICK k \in DOMAIN sinks : k >= j /\ sinks[k] = Jsonl
      BY <2>5, <3>1
    <3>3. k < at[u] \/ (k = at[u] /\ pc[u] = Jsonl)
      BY <3>1, <3>2 DEF Behind
    <3>4. j \in Nat /\ k \in Nat /\ at[u] \in Nat
      BY <2>4 DEF TypeInv, ListType, CountType
    <3>5. QED
      BY <3>2, <3>3, <3>4
  <2>7. Written(u)' <=> Written(u)
    BY <2>1, <2>3 DEF Written, Event
  <2>8. QED
    BY <2>3, <2>6, <2>7 DEF Ok, BehindInv
<1>7. ASSUME ClearSinks, NEW u \in Threads PROVE Ok(u)'
  <2>1. Line' = Line
    BY <1>7, LineKeptByChanges DEF Sinks
  <2>2. sinks' = <<>> /\ UNCHANGED <<met, pc, at, lock, emitted>>
    BY <1>7 DEF ClearSinks
  <2>3. Behind(u) => Behind(u)'
    BY <2>2 DEF Behind
  <2>4. Written(u)' <=> Written(u)
    BY <2>1, <2>2 DEF Written, Event
  <2>5. QED
    BY <2>2, <2>3, <2>4 DEF Ok, BehindInv
<1>8. ASSUME CloseJsonl \/ FailClose \/ Interrupt \/ UNCHANGED vars, NEW u \in Threads PROVE Ok(u)'
  <2>1. Shortened
    BY <1>8, <1>s, LineKeptByChanges, LineShortened, SinksDiffer DEF Sinks, LineSinks
  <2>2. UNCHANGED <<sinks, met, emitted, at>>
    BY <1>8 DEF CloseJsonl, FailClose, Close, Interrupt, vars
  <2>3. \/ pc'[u] = pc[u] /\ (lock[Jsonl] = u => lock'[Jsonl] = u)
        \/ pc'[u] = "idle"
    BY <1>8, SinksDiffer DEF CloseJsonl, FailClose, Close, Interrupt, vars, TypeInv, ControlType, LineSinks
  <2>4. QED
    BY <2>1, <2>2, <2>3, BehindKept DEF Ok
<1>9. ASSUME Kill, NEW u \in Threads PROVE Ok(u)'
  BY <1>9, SinksDiffer DEF Kill, Ok
<1>10. ASSUME NEW t \in Threads, NEW s \in LineSinks, WriteSome(t, s), NEW u \in Threads PROVE Ok(u)'
  <2>1. Shortened
    BY <1>10, <1>s, LineKept
  <2>. QED
    BY <1>10, <2>1, SomeWritten, BehindKept DEF Ok
<1>11. ASSUME NEW u \in Threads PROVE Ok(u)'
  BY <1>1, <1>2, <1>3, <1>4, <1>5, <1>6, <1>7, <1>8, <1>9, <1>10 DEF Next, Step, LineSinks
<1>12. QED
  BY <1>0, <1>11

LEMMA TrailInvariant == Spec => [](TypeInv /\ TrailInv)
<1>1. Init /\ TypeInv => TrailInv
  <2> SUFFICES ASSUME Init, TypeInv PROVE TrailInv
    OBVIOUS
  <2>1. Line = <<>>
    BY DEF Init, Line, LineSinks, Sinks
  <2>2. OrderInv /\ BehindInv
    BY <2>1, SinksDiffer DEF OrderInv, BehindInv, Trail!InOrder, Written, Init
  <2>3. ListInv
    BY TraceAssumption DEF TraceAssumption, ListInv, Init, ToSet
  <2>4. QED
    BY <2>2, <2>3 DEF TrailInv
<1>2. TypeInv /\ TrailInv /\ [Next]_vars => TrailInv'
  BY OrderStep, BehindStep, ListInvStep DEF TrailInv
<1>3. QED
  BY <1>1, <1>2, TypeInvariant, PTL DEF Spec

\* A step leaves a line sink's file alone, or adds lines of the buffer to it; of these the first one
\* continues a torn end.
LEMMA FileGrows ==
    ASSUME TypeInv, [Next]_vars, NEW s \in LineSinks
    PROVE  \/ file'[s] = file[s] /\ joined'[s] = joined[s] /\ (tail[s] = "torn" => tail'[s] = "torn")
           \/ \E k \in 1..Len(buffer[s]) :
                  /\ file'[s] = file[s] \o SubSeq(buffer[s], 1, k)
                  /\ joined'[s] = IF tail[s] = "torn" THEN joined[s] \cup {Len(file[s]) + 1} ELSE joined[s]
<1> DEFINE Same == file'[s] = file[s] /\ joined'[s] = joined[s] /\ (tail[s] = "torn" => tail'[s] = "torn")
           More(k) == /\ file'[s] = file[s] \o SubSeq(buffer[s], 1, k)
                      /\ joined'[s] = IF tail[s] = "torn" THEN joined[s] \cup {Len(file[s]) + 1}
                                      ELSE joined[s]
           Grows == Same \/ \E k \in 1..Len(buffer[s]) : More(k)
<1>0. /\ FileType /\ EndType /\ s \in Sinks /\ s # Memory
      /\ file[s] \in Seq(Events) /\ buffer[s] \in Seq(Events)
  BY SinksDiffer DEF TypeInv, FileType, LineSinks, Sinks
<1>1. ASSUME NEW r \in LineSinks, NEW k \in 0..Len(buffer[r]), Wrote(r, k)
      PROVE  Grows
  <2>1. CASE r # s
    BY <1>0, <1>1, <2>1, PutWrites DEF Wrote
  <2>2. CASE r = s /\ k = 0
    <3>1. file[s] \o SubSeq(buffer[s], 1, 0) = file[s]
      BY <1>0
    <3>2. Put(s, 0) /\ 0 \in 0..Len(buffer[s]) /\ (tail[s] = "torn" => tail'[s] = "torn")
      BY <1>1, <2>2 DEF Wrote
    <3>3. /\ file'[s] = file[s] \o SubSeq(buffer[s], 1, 0)
          /\ joined'[s] = IF tail[s] = "torn" /\ 0 > 0 THEN joined[s] \cup {Len(file[s]) + 1} ELSE joined[s]
      <4>1. FileType /\ EndType
        BY <1>0
      <4>. QED
        BY ONLY <4>1, <3>2, s \in LineSinks, PutWrites
    <3>. QED
      BY <3>1, <3>2, <3>3
  <2>3. CASE r = s /\ k # 0
    <3>1. k \in 1..Len(buffer[s]) /\ k > 0
      BY <1>0, <2>3
    <3>2. More(k)
      BY <1>0, <1>1, <2>3, <3>1, PutWrites DEF Wrote
    <3>. QED
      BY <3>1, <3>2
  <2>. QED
    BY <2>1, <2>2, <2>3
<1>2. ASSUME NEW t \in Threads, NEW r \in LineSinks, Flush(t, r) \/ WriteSome(t, r)
      PROVE  Grows
  BY <1>1, <1>2, FlushWrites
<1>3. ASSUME CloseJsonl \/ FailClose PROVE Grows
  BY <1>1, <1>3, CloseWrites DEF LineSinks
<1>4. ASSUME NEW t \in Threads, Emit(t) \/ Return(t) \/ SkipSink(t) \/ StartLine(t) PROVE Grows
  BY <1>4 DEF Emit, Return, SkipSink, StartLine, ends
<1>5. ASSUME NEW t \in Threads, HandleInMemory(t) PROVE Grows
  BY <1>0, <1>5 DEF HandleInMemory, ends, FileType
<1>6. ASSUME NEW t \in Threads, NEW r \in LineSinks, WriteLine(t, r) \/ FailFlush(t, r) PROVE Grows
  BY <1>6 DEF WriteLine, FailFlush, ends
<1>7. ASSUME NEW r \in Sinks, AddSink(r) \/ RemoveSink(r) PROVE Grows
  BY <1>7 DEF AddSink, RemoveSink, ends
<1>8. ASSUME ClearSinks \/ Interrupt \/ UNCHANGED vars PROVE Grows
  BY <1>8 DEF ClearSinks, Interrupt, vars, ends
<1>9. ASSUME Kill PROVE Grows
  BY <1>0, <1>9 DEF Kill, Orphaned, FileType
<1> HIDE DEF Grows
<1>10. \/ CloseJsonl \/ FailClose \/ Kill \/ ClearSinks \/ Interrupt \/ UNCHANGED vars
       \/ \E r \in Sinks : AddSink(r) \/ RemoveSink(r)
       \/ \E t \in Threads : \/ Emit(t) \/ Return(t) \/ SkipSink(t) \/ StartLine(t) \/ HandleInMemory(t)
                              \/ \E r \in LineSinks : \/ WriteLine(t, r) \/ FailFlush(t, r)
                                                      \/ Flush(t, r) \/ WriteSome(t, r)
  BY DEF Next, Step
<1>11. Grows
  BY <1>2, <1>3, <1>4, <1>5, <1>6, <1>7, <1>8, <1>9, <1>10
<1>. QED
  BY <1>11 DEF Grows

LEMMA Extension ==
    ASSUME NEW S, NEW f \in Seq(S), NEW b \in Seq(S), NEW k \in 1..Len(b)
    PROVE  LET g == f \o SubSeq(b, 1, k) IN Len(f) < Len(g) /\ SubSeq(g, 1, Len(f)) = f
<1> DEFINE g == f \o SubSeq(b, 1, k)
<1>1. SubSeq(b, 1, k) \in Seq(S) /\ Len(SubSeq(b, 1, k)) = k
  BY Parted
<1>2. g \in Seq(S) /\ Len(g) = Len(f) + k /\ \A i \in 1..Len(f) : g[i] = f[i]
  BY <1>1
<1>3. Len(f) \in Nat /\ Len(f) < Len(g)
  BY <1>2
<1> HIDE DEF g
<1>4. /\ SubSeq(g, 1, Len(f)) \in Seq(S) /\ Len(SubSeq(g, 1, Len(f))) = Len(f)
      /\ \A i \in 1..Len(f) : SubSeq(g, 1, Len(f))[i] = f[i]
  BY <1>2, <1>3
<1>5. SubSeq(g, 1, Len(f)) = f
  BY <1>4
<1>. QED
  BY <1>3, <1>5 DEF g

\* Whatever the threads, the main thread and the failures do, for any number of each: the file only
\* grows, the events of a thread appear in its order and at most once, and of the lines that are
\* added only the first one after a torn end cannot be read (sinks.py:68-99).
THEOREM TraceImplementsTrail == Spec => TrailSpec
<1>1. Init => Trail!Init
  BY DEF Init, Trail!Init, Sinks, LineSinks
<1>2. TypeInv /\ TypeInv' /\ TrailInv' /\ [Next]_vars => [Trail!Grow \/ Trail!Tear]_(Trail!vars)
  <2> SUFFICES ASSUME TypeInv, TypeInv', TrailInv', [Next]_vars
               PROVE  Trail!Grow \/ Trail!Tear \/ UNCHANGED Trail!vars
    OBVIOUS
  <2>0. /\ file[Jsonl] \in Seq(Events) /\ buffer[Jsonl] \in Seq(Events)
        /\ file'[Jsonl] \in Seq(Events) /\ buffer'[Jsonl] \in Seq(Events) /\ Jsonl \in LineSinks
    BY DEF TypeInv, FileType, LineSinks, Sinks
  <2>1. CASE /\ file'[Jsonl] = file[Jsonl] /\ joined'[Jsonl] = joined[Jsonl]
             /\ (tail[Jsonl] = "torn" => tail'[Jsonl] = "torn")
    BY <2>1 DEF Trail!Tear, Trail!vars
  <2>2. ASSUME NEW k \in 1..Len(buffer[Jsonl]),
               file'[Jsonl] = file[Jsonl] \o SubSeq(buffer[Jsonl], 1, k),
               joined'[Jsonl] = IF tail[Jsonl] = "torn" THEN joined[Jsonl] \cup {Len(file[Jsonl]) + 1}
                                ELSE joined[Jsonl]
        PROVE  Trail!Grow
    <3>1. /\ Len(file[Jsonl]) < Len(file'[Jsonl])
          /\ SubSeq(file'[Jsonl], 1, Len(file[Jsonl])) = file[Jsonl]
      BY <2>0, <2>2, Extension
    <3>2. \A i \in 1..Len(file'[Jsonl]) : file'[Jsonl][i] \in Trail!Events
      BY <2>0 DEF Events, Trail!Events
    <3>3. ASSUME NEW f \in Seq(Events), NEW b \in Seq(Events)
          PROVE  \A i \in 1..Len(f) : i \in 1..Len(f \o b) /\ (f \o b)[i] = f[i]
      OBVIOUS
    <3>4. Trail!InOrder(file'[Jsonl] \o buffer'[Jsonl])
      BY DEF TrailInv, OrderInv, Line
    <3>5. Trail!InOrder(file'[Jsonl])
      BY <2>0, <3>3, <3>4 DEF Trail!InOrder
    <3>6. QED
      BY <2>2, <3>1, <3>2, <3>5 DEF Trail!Grow
  <2>. QED
    BY <2>0, <2>1, <2>2, FileGrows
<1>3. QED
  BY <1>1, <1>2, TrailInvariant, PTL DEF Spec, TrailSpec, Trail!Spec
-----------------------------------------------------------------------------
(* The deliveries.                                                         *)

Reached(t, s) == Event(t) \in ToSet(file[s])
Ahead(t, s) == \E j \in DOMAIN sinks : j >= NextIndex(t) /\ sinks[j] = s
Writing(t, s) == pc[t] = s /\ s \in LineSinks

\* A sink a thread's event is owed to has it, is being written to, or is still to come in the loop -
\* and will not be skipped then.
Served(t) ==
    /\ pc[t] = "idle" => owed[t] = {}
    /\ Broken \notin owed[t]
    /\ Jsonl \in owed[t] => open
    /\ Emf \in owed[t] => Measured(Event(t))
    /\ \A s \in owed[t] : Reached(t, s) \/ Ahead(t, s) \/ Writing(t, s)

\* Who holds a line sink's lock has its event at the end of the buffer.
HolderHasWritten ==
    \A s \in LineSinks, t \in Threads :
        lock[s] = t => buffer[s] # <<>> /\ buffer[s][Len(buffer[s])] = Event(t)

DeliveryInv == (\A t \in Threads : Served(t)) /\ HolderHasWritten /\ Delivered

\* What two sequences hold, the one after the other holds.
LEMMA Joined ==
    ASSUME NEW S, NEW f \in Seq(S), NEW b \in Seq(S)
    PROVE  ToSet(f) \cup ToSet(b) \subseteq ToSet(f \o b)
<1>1. ASSUME NEW x \in ToSet(f) PROVE x \in ToSet(f \o b)
  <2>1. PICK i \in DOMAIN f : f[i] = x
    BY <1>1 DEF ToSet
  <2>2. i \in DOMAIN (f \o b) /\ (f \o b)[i] = x
    BY <2>1
  <2>3. QED
    BY <2>2 DEF ToSet
<1>2. ASSUME NEW x \in ToSet(b) PROVE x \in ToSet(f \o b)
  <2>1. PICK i \in DOMAIN b : b[i] = x
    BY <1>2 DEF ToSet
  <2>2. Len(f) + i \in DOMAIN (f \o b) /\ (f \o b)[Len(f) + i] = x
    BY <2>1
  <2>3. QED
    BY <2>2 DEF ToSet
<1>3. QED
  BY <1>1, <1>2

LEMMA Appended ==
    ASSUME NEW S, NEW f \in Seq(S), NEW e \in S
    PROVE  ToSet(f) \cup {e} \subseteq ToSet(Append(f, e))
<1>1. ASSUME NEW x \in ToSet(f) PROVE x \in ToSet(Append(f, e))
  <2>1. PICK i \in DOMAIN f : f[i] = x
    BY <1>1 DEF ToSet
  <2>2. i \in DOMAIN Append(f, e) /\ Append(f, e)[i] = x
    BY <2>1
  <2>3. QED
    BY <2>2 DEF ToSet
<1>2. e \in ToSet(Append(f, e))
  <2>1. Len(f) + 1 \in DOMAIN Append(f, e) /\ Append(f, e)[Len(f) + 1] = e
    OBVIOUS
  <2>2. QED
    BY <2>1 DEF ToSet
<1>3. QED
  BY <1>1, <1>2

\* What a file holds it keeps, except that a kill takes the memory sink's.
LEMMA FilesKeep ==
    ASSUME TypeInv, [Next]_vars, NEW s \in Sinks, s # Memory \/ ~Kill
    PROVE  ToSet(file[s]) \subseteq ToSet(file'[s])
<1> USE SinksDiffer DEF TypeInv, FileType, LineSinks, Sinks
<1>1. ASSUME NEW t \in Threads, HandleInMemory(t) PROVE ToSet(file[s]) \subseteq ToSet(file'[s])
  <2>1. Event(t) \in Events
    BY <1>1, EventType DEF HandleInMemory
  <2>2. file'[s] = file[s] \/ file'[s] = Append(file[s], Event(t))
    BY <1>1 DEF HandleInMemory
  <2>3. QED
    BY <2>1, <2>2, Appended
<1>2. CASE s \in LineSinks
  <2>1. CASE file'[s] = file[s]
    BY <2>1
  <2>2. ASSUME NEW k \in 1..Len(buffer[s]), file'[s] = file[s] \o SubSeq(buffer[s], 1, k)
        PROVE  ToSet(file[s]) \subseteq ToSet(file'[s])
    <3>1. file[s] \in Seq(Events) /\ buffer[s] \in Seq(Events) /\ k \in 0..Len(buffer[s])
      BY <1>2
    <3>2. SubSeq(buffer[s], 1, k) \in Seq(Events)
      BY <3>1, Parted
    <3>. QED
      BY <2>2, <3>1, <3>2, Joined
  <2>. QED
    BY <1>2, <2>1, <2>2, FileGrows
<1>3. CASE s \notin LineSinks
  <2>1. ASSUME NEW r \in LineSinks, NEW k \in 0..Len(buffer[r]), Wrote(r, k) PROVE file'[s] = file[s]
    BY <1>3, <2>1, PutWrites DEF Wrote
  <2>2. ASSUME NEW t \in Threads, NEW r \in LineSinks, Flush(t, r) \/ WriteSome(t, r)
        PROVE  file'[s] = file[s]
    BY <2>1, <2>2, FlushWrites
  <2>3. ASSUME CloseJsonl \/ FailClose PROVE file'[s] = file[s]
    BY <2>1, <2>3, CloseWrites
  <2>4. ASSUME Kill PROVE file'[s] = file[s]
    BY <2>4 DEF Kill
  <2>5. ASSUME NEW t \in Threads,
               \/ Emit(t) \/ Return(t) \/ SkipSink(t) \/ StartLine(t)
               \/ \E r \in LineSinks : WriteLine(t, r) \/ FailFlush(t, r)
        PROVE  file'[s] = file[s]
    BY <2>5 DEF Emit, Return, SkipSink, StartLine, WriteLine, FailFlush
  <2>6. ASSUME NEW r \in Sinks, AddSink(r) \/ RemoveSink(r) PROVE file'[s] = file[s]
    BY <2>6 DEF AddSink, RemoveSink
  <2>7. ASSUME ClearSinks \/ Interrupt \/ UNCHANGED vars PROVE file'[s] = file[s]
    BY <2>7 DEF ClearSinks, Interrupt, vars
  <2>8. (\E t \in Threads : HandleInMemory(t)) \/ file'[s] = file[s]
    BY <2>2, <2>3, <2>4, <2>5, <2>6, <2>7 DEF Next, Step
  <2>. QED
    BY <1>1, <2>8
<1>. QED
  BY <1>2, <1>3

\* A thread that stays where it is stays served, whatever is added to the list and the files.
LEMMA ServedStays ==
    ASSUME TypeInv, NEW t \in Threads, Served(t), owed'[t] \subseteq owed[t],
           emitted'[t] = emitted[t], pc'[t] = pc[t], at'[t] = at[t],
           Jsonl \in owed'[t] => open',
           \A j \in DOMAIN sinks : j \in DOMAIN sinks' /\ sinks'[j] = sinks[j],
           \A s \in owed'[t] : ToSet(file[s]) \subseteq ToSet(file'[s])
    PROVE  Served(t)'
<1>1. Event(t)' = Event(t) /\ NextIndex(t)' = NextIndex(t)
  BY DEF Event, NextIndex
<1>2. ASSUME NEW s \in owed'[t] PROVE Reached(t, s)' \/ Ahead(t, s)' \/ Writing(t, s)'
  <2>1. CASE Reached(t, s)
    BY <1>1, <2>1 DEF Reached
  <2>2. CASE Ahead(t, s)
    BY <1>1, <2>2 DEF Ahead
  <2>3. CASE Writing(t, s)
    BY <2>3 DEF Writing
  <2>4. QED
    BY <2>1, <2>2, <2>3 DEF Served
<1>3. QED
  BY <1>1, <1>2 DEF Served, Measured

\* A thread that goes on to the next sink stays served when the one it leaves has its event, or is
\* not owed it.
LEMMA ServedGoesOn ==
    ASSUME TypeInv, NEW t \in Threads, Served(t), GoOn(t), pc[t] # "idle",
           owed'[t] \subseteq owed[t], UNCHANGED <<emitted, sinks, open>>,
           \A s \in owed'[t] : ToSet(file[s]) \subseteq ToSet(file'[s]),
           \A s \in owed'[t] : (IF pc[t] = "dispatch" THEN s = Current(t) ELSE s = pc[t])
                                  => Event(t) \in ToSet(file'[s])
    PROVE  Served(t)'
<1> USE SinksDiffer DEF TypeInv, ControlType, CountType, LineSinks
<1>1. pc'[t] = "dispatch" /\ at'[t] = at[t] + 1 /\ at[t] \in Nat /\ Event(t)' = Event(t)
  BY DEF GoOn, Event
<1>2. NextIndex(t)' = at[t] + 1
  BY <1>1 DEF NextIndex
<1>3. ASSUME NEW s \in owed'[t] PROVE Reached(t, s)' \/ Ahead(t, s)'
  <2>1. CASE Reached(t, s)
    BY <1>1, <1>3, <2>1 DEF Reached
  <2>2. CASE Ahead(t, s)
    <3>1. PICK j \in DOMAIN sinks : j >= NextIndex(t) /\ sinks[j] = s
      BY <2>2 DEF Ahead
    <3>2. CASE pc[t] = "dispatch" /\ j = at[t]
      BY <1>1, <1>3, <3>1, <3>2 DEF Current, Reached
    <3>3. CASE ~(pc[t] = "dispatch" /\ j = at[t])
      <4>1. j \in Nat
        BY DEF ListType
      <4>2. j >= at[t] + 1
        BY <1>1, <3>1, <3>3, <4>1 DEF NextIndex
      <4>3. QED
        BY <1>2, <3>1, <4>2 DEF Ahead
    <3>4. QED
      BY <3>2, <3>3
  <2>3. CASE Writing(t, s)
    BY <1>1, <1>3, <2>3 DEF Writing, Reached
  <2>4. QED
    BY <1>3, <2>1, <2>2, <2>3 DEF Served
<1>4. QED
  BY <1>1, <1>3 DEF Served, Measured

LEMMA ServedByRemoval ==
    ASSUME TypeInv, ListInv, NEW r \in Sinks, RemoveSink(r), NEW t \in Threads, Served(t)
    PROVE  Served(t)'
<1>1. PICK i \in DOMAIN sinks :
          /\ sinks[i] = r /\ sinks' = RemoveAt(sinks, i)
          /\ owed' = [u \in Threads |-> IF pc[u] = "idle" THEN {} ELSE owed[u] \ (Passed(u, i) \cup {r})]
  BY DEF RemoveSink, ToSet
<1>2. UNCHANGED <<pc, at, emitted, file, open>>
  BY DEF RemoveSink
<1>3. /\ DOMAIN sinks' = 1..(Len(sinks) - 1) /\ DOMAIN sinks = 1..Len(sinks) /\ Len(sinks) \in Nat
      /\ \A j \in 1..(Len(sinks) - 1) : sinks'[j] = IF j < i THEN sinks[j] ELSE sinks[j + 1]
  <2>1. sinks \in Seq(Sinks)
    BY DEF TypeInv, ListType
  <2>2. /\ sinks' \in Seq(Sinks) /\ Len(sinks') = Len(sinks) - 1
        /\ \A j \in 1..(Len(sinks) - 1) : sinks'[j] = IF j < i THEN sinks[j] ELSE sinks[j + 1]
    BY <1>1, <2>1, Removal
  <2>3. Len(sinks) \in Nat /\ DOMAIN sinks = 1..Len(sinks) /\ DOMAIN sinks' = 1..Len(sinks')
    BY <2>1, <2>2
  <2>4. QED
    BY <2>2, <2>3
<1>4. Event(t)' = Event(t) /\ NextIndex(t)' = NextIndex(t) /\ NextIndex(t) \in Nat
  BY <1>2 DEF Event, NextIndex, TypeInv, CountType
<1>5. owed'[t] \subseteq owed[t] /\ (pc[t] = "idle" => owed'[t] = {})
  BY <1>1
<1>6. ASSUME NEW s \in owed'[t] PROVE Reached(t, s)' \/ Ahead(t, s)' \/ Writing(t, s)'
  <2>1. s # r /\ s \notin Passed(t, i)
    BY <1>1, <1>6
  <2>2. CASE Reached(t, s)
    BY <1>2, <1>4, <2>2 DEF Reached
  <2>3. CASE Ahead(t, s)
    <3>1. PICK j \in DOMAIN sinks : j >= NextIndex(t) /\ sinks[j] = s
      BY <2>3 DEF Ahead
    <3>2. j # i
      BY <1>1, <2>1, <3>1
    <3>3. CASE j < i
      <4>1. j \in DOMAIN sinks' /\ sinks'[j] = s
        BY <1>3, <3>1, <3>3
      <4>2. QED
        BY <1>4, <3>1, <4>1 DEF Ahead
    <3>4. CASE j > i
      <4>1. j # NextIndex(t)
        BY <1>3, <2>1, <3>1, <3>4 DEF Passed
      <4>2. j - 1 \in 1..(Len(sinks) - 1) /\ j - 1 >= NextIndex(t) /\ ~(j - 1 < i) /\ (j - 1) + 1 = j
        BY <1>3, <1>4, <3>1, <3>4, <4>1
      <4>3. j - 1 \in DOMAIN sinks' /\ sinks'[j - 1] = s
        BY <1>3, <3>1, <4>2
      <4>4. QED
        BY <1>4, <4>2, <4>3 DEF Ahead
    <3>5. QED
      BY <1>3, <3>2, <3>3, <3>4
  <2>4. CASE Writing(t, s)
    BY <1>2, <2>4 DEF Writing
  <2>5. QED
    BY <1>5, <1>6, <2>2, <2>3, <2>4 DEF Served
<1>7. QED
  BY <1>2, <1>4, <1>5, <1>6 DEF Served, Measured

LEMMA ServedStep ==
    TypeInv /\ ListInv /\ DeliveryInv /\ [Next]_vars => \A u \in Threads : Served(u)'
<1> SUFFICES ASSUME TypeInv, ListInv, DeliveryInv, [Next]_vars, NEW u \in Threads PROVE Served(u)'
  OBVIOUS
<1>0. Served(u) /\ (\A t \in Threads : Served(t)) /\ HolderHasWritten
  BY DEF DeliveryInv
<1>a. owed[u] \subseteq Sinks
  BY DEF TypeInv, HistoryType
<1>b. \A s \in Sinks : s # Memory \/ ~Kill => ToSet(file[s]) \subseteq ToSet(file'[s])
  BY FilesKeep
\* Whoever is not in the step.
<1>c. ASSUME ~Kill, owed'[u] \subseteq owed[u], emitted'[u] = emitted[u], pc'[u] = pc[u], at'[u] = at[u],
             UNCHANGED sinks, open' = open \/ Jsonl \notin owed'[u]
      PROVE  Served(u)'
  <2>1. Jsonl \in owed'[u] => open'
    BY <1>0, <1>c DEF Served
  <2>2. \A s \in owed'[u] : ToSet(file[s]) \subseteq ToSet(file'[s])
    BY <1>a, <1>b, <1>c
  <2>3. \A j \in DOMAIN sinks : j \in DOMAIN sinks' /\ sinks'[j] = sinks[j]
    BY <1>c
  <2>4. QED
    BY <1>0, <1>c, <2>1, <2>2, <2>3, ServedStays
\* Whoever leaves a sink that has the event, or is not owed it.
<1>d. ASSUME ~Kill, GoOn(u), pc[u] # "idle", owed'[u] \subseteq owed[u], UNCHANGED <<emitted, sinks, open>>,
             \A s \in owed'[u] : (IF pc[u] = "dispatch" THEN s = Current(u) ELSE s = pc[u])
                                    => Event(u) \in ToSet(file'[s])
      PROVE  Served(u)'
  <2>1. \A s \in owed'[u] : ToSet(file[s]) \subseteq ToSet(file'[s])
    BY <1>a, <1>b, <1>d
  <2>2. QED
    BY <1>0, <1>d, <2>1, ServedGoesOn
<1>e. ASSUME owed'[u] = {}, pc'[u] = "idle" PROVE Served(u)'
  BY <1>e DEF Served
<1>1. CASE Kill
  BY <1>1, <1>e DEF Kill
<1> USE DEF TypeInv, ControlType, CountType, HistoryType
<1>2. ASSUME NEW t \in Threads, ~Kill, Emit(t) PROVE Served(u)'
  <2>1. CASE u # t
    BY <1>2, <1>c, <2>1 DEF Emit
  <2>2. CASE u = t /\ sinks = <<>>
    BY <1>0, <1>2, <1>e, <2>2 DEF Emit, Served
  <2>3. CASE u = t /\ sinks # <<>>
    <3>1. /\ pc'[u] = "dispatch" /\ at'[u] = 1 /\ UNCHANGED <<sinks, open>>
          /\ owed'[u] = {s \in ToSet(sinks) \ {Broken} :
                             (s = Jsonl => open) /\ (s = Emf => Measured(<<u, emitted[u] + 1>>))}
          /\ Event(u)' = <<u, emitted[u] + 1>>
      <4>1. Emit(u) /\ sinks # <<>>
        BY <1>2, <2>3
      <4>2. pc'[u] = "dispatch" /\ at'[u] = 1 /\ UNCHANGED <<sinks, open>>
        BY <4>1 DEF Emit
      <4>3. owed'[u] = {s \in ToSet(sinks) \ {Broken} :
                           (s = Jsonl => open) /\ (s = Emf => Measured(<<u, emitted[u] + 1>>))}
        BY <4>1 DEF Emit
      <4>4. Event(u)' = <<u, emitted[u] + 1>>
        BY <4>1 DEF Emit, Event
      <4>5. QED
        BY <4>2, <4>3, <4>4
    <3>2. \A s \in owed'[u] : Ahead(u, s)'
      <4>1. NextIndex(u)' = 1
        BY <3>1 DEF NextIndex
      <4>2. \A s \in owed'[u] : \E j \in DOMAIN sinks : sinks[j] = s
        BY <3>1 DEF ToSet
      <4>3. \A j \in DOMAIN sinks : j >= 1
        BY DEF ListType
      <4>4. QED
        BY <3>1, <4>1, <4>2, <4>3 DEF Ahead
    <3>3. Jsonl \in owed'[u] => open'
      BY <3>1
    <3>4. Emf \in owed'[u] => Measured(Event(u)')
      BY <3>1
    <3>5. Broken \notin owed'[u] /\ pc'[u] # "idle"
      BY <3>1
    <3>6. QED
      BY <3>2, <3>3, <3>4, <3>5 DEF Served, Measured
  <2>4. QED
    BY <2>1, <2>2, <2>3
<1>3. ASSUME NEW t \in Threads, ~Kill, Return(t) PROVE Served(u)'
  <2>1. CASE u # t
    BY <1>3, <1>c, <2>1 DEF Return
  <2>2. CASE u = t
    BY <1>3, <1>e, <2>2 DEF Return
  <2>3. QED
    BY <2>1, <2>2
<1>4. ASSUME NEW t \in Threads, ~Kill, HandleInMemory(t) PROVE Served(u)'
  <2>1. CASE u # t
    BY <1>4, <1>c, <2>1 DEF HandleInMemory, GoOn
  <2>2. CASE u = t
    <3>1. /\ GoOn(u) /\ pc[u] = "dispatch" /\ Current(u) = Memory
          /\ file' = [file EXCEPT ![Memory] = Append(@, Event(u))]
          /\ UNCHANGED <<sinks, emitted, open, owed>>
      BY <1>4, <2>2 DEF HandleInMemory
    <3>2. file[Memory] \in Seq(Events) /\ Event(u) \in Events
      BY <3>1, EventType DEF FileType, Sinks
    <3>3. Event(u) \in ToSet(Append(file[Memory], Event(u)))
      BY <3>2, Appended
    <3>4. Event(u) \in ToSet(file'[Memory])
      BY <3>1, <3>3 DEF FileType, Sinks
    <3>5. QED
      BY <1>4, <1>d, <3>1, <3>4
  <2>3. QED
    BY <2>1, <2>2
<1>5. ASSUME NEW t \in Threads, ~Kill, SkipSink(t) PROVE Served(u)'
  <2>1. CASE u # t
    BY <1>5, <1>c, <2>1 DEF SkipSink, GoOn
  <2>2. CASE u = t
    <3>1. GoOn(u) /\ pc[u] = "dispatch" /\ UNCHANGED <<sinks, emitted, open, owed>>
      BY <1>5, <2>2 DEF SkipSink
    <3>2. Current(u) \notin owed[u]
      BY <1>0, <1>5, <2>2 DEF SkipSink, Served
    <3>3. QED
      BY <1>5, <1>d, <3>1, <3>2
  <2>3. QED
    BY <2>1, <2>2
<1>6. ASSUME NEW t \in Threads, ~Kill, StartLine(t) PROVE Served(u)'
  <2>1. CASE u # t
    BY <1>6, <1>c, <2>1 DEF StartLine
  <2>2. CASE u = t
    <3>1. /\ pc[u] = "dispatch" /\ pc'[u] = Current(u) /\ Current(u) \in LineSinks
          /\ UNCHANGED <<sinks, at, emitted, open, owed, file>>
      BY <1>6, <2>2 DEF StartLine, LineSinks
    <3>2. Event(u)' = Event(u) /\ NextIndex(u)' = at[u] + 1 /\ NextIndex(u) = at[u]
      BY <3>1, SinksDiffer DEF Event, NextIndex, LineSinks
    <3>3. ASSUME NEW s \in owed[u] PROVE Reached(u, s)' \/ Ahead(u, s)' \/ Writing(u, s)'
      <4>1. CASE Reached(u, s)
        BY <3>1, <3>2, <4>1 DEF Reached
      <4>2. CASE Ahead(u, s)
        <5>1. PICK j \in DOMAIN sinks : j >= at[u] /\ sinks[j] = s
          BY <3>2, <4>2 DEF Ahead
        <5>2. CASE j = at[u]
          BY <3>1, <5>1, <5>2 DEF Writing, Current
        <5>3. CASE j # at[u]
          <6>1. j >= at[u] + 1
            BY <5>1, <5>3 DEF ListType
          <6>2. QED
            BY <3>1, <3>2, <5>1, <6>1 DEF Ahead
        <5>4. QED
          BY <5>2, <5>3
      <4>3. CASE Writing(u, s)
        BY <3>1, <4>3, SinksDiffer DEF Writing, LineSinks
      <4>4. QED
        BY <1>0, <3>3, <4>1, <4>2, <4>3 DEF Served
    <3>4. pc[u] # "idle" /\ pc'[u] # "idle"
      BY <3>1, SinksDiffer DEF LineSinks
    <3>5. QED
      BY <1>0, <3>1, <3>2, <3>3, <3>4 DEF Served, Measured
  <2>3. QED
    BY <2>1, <2>2
<1>7. ASSUME NEW t \in Threads, NEW r \in LineSinks, ~Kill, WriteLine(t, r) PROVE Served(u)'
  <2>1. CASE u # t \/ UNCHANGED <<pc, at>>
    BY <1>7, <1>c, <2>1 DEF WriteLine, GoOn
  <2>2. CASE u = t /\ GoOn(t) /\ r = Jsonl /\ ~open
    <3>1. pc[u] = Jsonl /\ Jsonl \notin owed[u] /\ UNCHANGED <<sinks, emitted, open, owed>>
      BY <1>0, <1>7, <2>2 DEF WriteLine, Served
    <3>2. QED
      BY <1>7, <1>d, <2>2, <3>1, SinksDiffer
  <2>3. QED
    BY <1>7, <2>1, <2>2 DEF WriteLine
<1>8. ASSUME NEW t \in Threads, NEW r \in LineSinks, ~Kill, Flush(t, r) PROVE Served(u)'
  <2>1. CASE u # t
    BY <1>8, <1>c, <2>1 DEF Flush, GoOn
  <2>2. CASE u = t
    <3>1. /\ GoOn(u) /\ pc[u] = r /\ lock[r] = u /\ UNCHANGED <<sinks, emitted, open, owed>>
          /\ Put(r, Len(buffer[r]))
      BY <1>8, <2>2 DEF Flush, Holds, PutAll
    <3>2. file[r] \in Seq(Events) /\ buffer[r] \in Seq(Events) /\ r \in Sinks
      BY DEF FileType, Sinks, LineSinks
    <3>3. Event(u) \in ToSet(buffer[r])
      <4>1. buffer[r] # <<>> /\ buffer[r][Len(buffer[r])] = Event(u)
        BY <1>0, <3>1 DEF HolderHasWritten
      <4>2. Len(buffer[r]) \in DOMAIN buffer[r]
        BY <3>2, <4>1
      <4>. QED
        BY <4>1, <4>2 DEF ToSet
    <3>4. Event(u) \in ToSet(file[r] \o buffer[r])
      BY <3>2, <3>3, Joined
    <3>5. file'[r] = file[r] \o buffer[r]
      <4>1. FileType /\ EndType /\ Len(buffer[r]) \in 0..Len(buffer[r])
        BY <3>2
      <4>2. file'[r] = file[r] \o SubSeq(buffer[r], 1, Len(buffer[r]))
        BY <3>1, <4>1, PutWrites
      <4>3. SubSeq(buffer[r], 1, Len(buffer[r])) = buffer[r]
        BY <3>2, SubSeqFull
      <4>. QED
        BY <4>2, <4>3
    <3>6. QED
      BY <1>8, <1>d, <3>1, <3>4, <3>5, SinksDiffer DEF LineSinks
  <2>3. QED
    BY <2>1, <2>2
<1>9. ASSUME NEW t \in Threads, NEW r \in LineSinks, ~Kill, FailFlush(t, r) PROVE Served(u)'
  <2>1. CASE u # t
    BY <1>9, <1>c, <2>1 DEF FailFlush, GoOn
  <2>2. CASE u = t
    <3>1. /\ GoOn(u) /\ pc[u] = r /\ UNCHANGED <<sinks, emitted, open>>
          /\ owed'[u] = owed[u] \ {r}
      BY <1>9, <2>2 DEF FailFlush
    <3>2. QED
      BY <1>9, <1>d, <3>1, SinksDiffer DEF LineSinks
  <2>3. QED
    BY <2>1, <2>2
<1>10. ASSUME NEW r \in Sinks, ~Kill, AddSink(r) PROVE Served(u)'
  <2>1. sinks' = Append(sinks, r) /\ UNCHANGED <<pc, at, emitted, open, owed, file>>
    BY <1>10 DEF AddSink
  <2>2. \A j \in DOMAIN sinks : j \in DOMAIN sinks' /\ sinks'[j] = sinks[j]
    BY <2>1 DEF ListType
  <2>3. Jsonl \in owed'[u] => open'
    BY <1>0, <2>1 DEF Served
  <2>4. QED
    BY <1>0, <2>1, <2>2, <2>3, ServedStays
<1>11. ASSUME NEW r \in Sinks, RemoveSink(r) PROVE Served(u)'
  BY <1>0, <1>11, ServedByRemoval
<1>12. CASE ClearSinks
  <2>1. owed'[u] = {}
    BY <1>12 DEF ClearSinks
  <2>2. QED
    BY <2>1 DEF Served
<1>13. ASSUME ~Kill, CloseJsonl \/ FailClose PROVE Served(u)'
  BY <1>13, <1>c DEF CloseJsonl, FailClose, Close
<1>14. ASSUME ~Kill, Interrupt PROVE Served(u)'
  BY <1>14, <1>c, <1>e DEF Interrupt
<1>15. ASSUME ~Kill, UNCHANGED vars PROVE Served(u)'
  BY <1>15, <1>c DEF vars
<1>16. ASSUME NEW t \in Threads, NEW r \in LineSinks, ~Kill, WriteSome(t, r) PROVE Served(u)'
  BY <1>16, <1>c, SomeWritten
<1>17. QED
  BY <1>1, <1>2, <1>3, <1>4, <1>5, <1>6, <1>7, <1>8, <1>9, <1>10, <1>11, <1>12, <1>13, <1>14, <1>15,
     <1>16
  DEF Next, Step

LastIs(s, t) == buffer[s] # <<>> /\ buffer[s][Len(buffer[s])] = Event(t)

LEMMA HolderStep == TypeInv /\ HolderHasWritten /\ [Next]_vars => HolderHasWritten'
<1> SUFFICES ASSUME TypeInv, HolderHasWritten, [Next]_vars, NEW r \in LineSinks, NEW u \in Threads,
                    lock'[r] = u
             PROVE  LastIs(r, u)'
  BY DEF HolderHasWritten, LastIs
<1> USE SinksDiffer DEF TypeInv, ControlType, FileType
<1>1. ASSUME lock[r] = u, emitted'[u] = emitted[u], buffer'[r] = buffer[r]
      PROVE  LastIs(r, u)'
  BY <1>1 DEF HolderHasWritten, LastIs, Event
<1>2. ASSUME NEW t \in Threads, Emit(t) PROVE LastIs(r, u)'
  <2>1. lock[r] = u /\ buffer'[r] = buffer[r] /\ pc[t] = "idle"
    BY <1>2 DEF Emit
  <2>2. u # t
    BY <2>1 DEF LineSinks
  <2>3. emitted'[u] = emitted[u]
    BY <1>2, <2>2 DEF Emit, CountType
  <2>4. QED
    BY <1>1, <2>1, <2>3
<1>3. ASSUME NEW t \in Threads, Return(t) \/ HandleInMemory(t) \/ SkipSink(t) \/ StartLine(t)
      PROVE  LastIs(r, u)'
  BY <1>1, <1>3 DEF Return, HandleInMemory, SkipSink, StartLine
<1>4. ASSUME NEW t \in Threads, NEW s \in LineSinks, WriteLine(t, s)
      PROVE  LastIs(r, u)'
  <2>1. CASE UNCHANGED <<lock, buffer>>
    BY <1>1, <1>4, <2>1 DEF WriteLine
  <2>2. CASE /\ lock' = [lock EXCEPT ![s] = t]
             /\ buffer' = [buffer EXCEPT ![s] = Append(@, Event(t))]
    <3>1. emitted' = emitted /\ pc[t] = s
      BY <1>4 DEF WriteLine
    <3>2. CASE r # s
      BY <1>1, <2>2, <3>1, <3>2
    <3>3. CASE r = s
      <4>1. u = t /\ Event(u)' = Event(u) /\ buffer'[r] = Append(buffer[r], Event(u))
        BY <2>2, <3>1, <3>3 DEF Event
      <4>2. buffer[r] \in Seq(Events) /\ Event(u) \in Events
        <5>1. pc[u] # "idle"
          BY <3>1, <4>1 DEF LineSinks
        <5>2. QED
          BY <5>1, EventType
      <4>3. DEFINE b == buffer[r]
                   e == Event(u)
      <4>4. b \in Seq(Events) /\ e \in Events
        BY <4>2
      <4>5. HIDE DEF b, e
      <4>6. /\ Append(b, e) # <<>> /\ Len(Append(b, e)) = Len(b) + 1 /\ Len(b) \in Nat
            /\ Append(b, e)[Len(b) + 1] = e
        BY ONLY <4>4
      <4>7. buffer'[r] # <<>> /\ buffer'[r][Len(buffer'[r])] = Event(u)'
        BY ONLY <4>1, <4>6 DEF b, e
      <4>8. QED
        BY ONLY <4>7 DEF LastIs
    <3>4. QED
      BY <3>2, <3>3
  <2>3. QED
    BY <1>4, <2>1, <2>2 DEF WriteLine
<1>5. ASSUME NEW t \in Threads, NEW s \in LineSinks, Flush(t, s) \/ FailFlush(t, s)
      PROVE  LastIs(r, u)'
  <2>1. /\ lock' = [lock EXCEPT ![s] = Nobody] /\ emitted' = emitted
        /\ \A q \in LineSinks \ {s} : buffer'[q] = buffer[q]
    BY <1>5 DEF Flush, FailFlush
  <2>2. r # s
    BY <2>1
  <2>3. QED
    BY <1>1, <2>1, <2>2
<1>6. ASSUME NEW s \in Sinks, AddSink(s) \/ RemoveSink(s) PROVE LastIs(r, u)'
  BY <1>1, <1>6 DEF AddSink, RemoveSink
<1>7. CASE CloseJsonl \/ FailClose
  <2>1. r # Jsonl /\ buffer'[r] = buffer[r]
    BY <1>7 DEF CloseJsonl, FailClose, Close
  <2>2. QED
    BY <1>1, <1>7, <2>1 DEF CloseJsonl, FailClose, Close
<1>8. CASE ClearSinks \/ UNCHANGED vars
  BY <1>1, <1>8 DEF ClearSinks, vars
<1>9. CASE Interrupt
  BY <1>1, <1>9 DEF Interrupt
<1>10. CASE Kill
  BY <1>10 DEF Kill
<1>11. ASSUME NEW t \in Threads, NEW s \in LineSinks, WriteSome(t, s) PROVE LastIs(r, u)'
  <2>1. PICK k \in 0..(Len(buffer[s]) - 1) : buffer' = [buffer EXCEPT ![s] = SubSeq(@, k + 1, Len(@))]
    BY <1>11 DEF WriteSome
  <2>2. lock' = lock /\ emitted' = emitted
    BY <1>11 DEF WriteSome
  <2>3. CASE r # s
    BY <1>1, <2>1, <2>2, <2>3
  <2>4. CASE r = s
    <3>1. buffer[r] \in Seq(Events) /\ LastIs(r, u)
      BY <2>2 DEF HolderHasWritten, LastIs
    <3>2. buffer'[r] = SubSeq(buffer[r], k + 1, Len(buffer[r]))
      BY <2>1, <2>4
    <3>3. /\ Len(buffer[r]) \in Nat /\ k \in 0..Len(buffer[r])
          /\ Len(buffer[r]) - k \in 1..(Len(buffer[r]) - k) /\ k + (Len(buffer[r]) - k) = Len(buffer[r])
      BY <2>4, <3>1
    <3>4. /\ buffer'[r] \in Seq(Events) /\ Len(buffer'[r]) = Len(buffer[r]) - k
          /\ \A i \in 1..(Len(buffer[r]) - k) : buffer'[r][i] = buffer[r][k + i]
      BY <3>1, <3>2, <3>3, Parted
    <3>5. buffer'[r][Len(buffer'[r])] = buffer[r][Len(buffer[r])] /\ buffer'[r] # <<>>
      BY <3>3, <3>4
    <3>. QED
      BY <2>2, <3>1, <3>5 DEF LastIs, Event
  <2>. QED
    BY <2>3, <2>4
<1>12. QED
  BY <1>2, <1>3, <1>4, <1>5, <1>6, <1>7, <1>8, <1>9, <1>10, <1>11 DEF Next, Step

LEMMA DeliveredStep == TypeInv /\ DeliveryInv /\ [Next]_vars => Delivered'
<1> SUFFICES ASSUME TypeInv, DeliveryInv, [Next]_vars, NEW d \in due'
             PROVE  d[1] \in ToSet(file'[d[2]])
  BY DEF Delivered
<1>1. ASSUME d \in due, d[2] # Memory \/ ~Kill PROVE d[1] \in ToSet(file'[d[2]])
  <2>1. d[2] \in Sinks /\ d[1] \in ToSet(file[d[2]])
    BY <1>1 DEF TypeInv, HistoryType, DeliveryInv, Delivered
  <2>2. QED
    BY <1>1, <2>1, FilesKeep
\* When the loop is over nothing is ahead, and nothing is being written.
<1>2. ASSUME NEW t \in Threads, Return(t) PROVE d[1] \in ToSet(file'[d[2]])
  <2>1. ASSUME NEW s \in owed[t] PROVE Event(t) \in ToSet(file[s])
    <3>1. pc[t] = "dispatch" /\ at[t] > Len(sinks)
      BY <1>2 DEF Return
    <3>2. ~Writing(t, s)
      BY <3>1, SinksDiffer DEF Writing, LineSinks
    <3>3. ~Ahead(t, s)
      BY <3>1 DEF Ahead, NextIndex, TypeInv, ListType, CountType
    <3>4. QED
      BY <2>1, <3>2, <3>3 DEF DeliveryInv, Served, Reached
  <2>2. d \in due \/ \E s \in owed[t] : d = <<Event(t), s>>
    BY <1>2 DEF Return
  <2>3. file' = file
    BY <1>2 DEF Return
  <2>4. CASE d \in due
    BY <2>3, <2>4 DEF DeliveryInv, Delivered
  <2>5. CASE \E s \in owed[t] : d = <<Event(t), s>>
    BY <2>1, <2>3, <2>5
  <2>6. QED
    BY <2>2, <2>4, <2>5
<1>3. CASE Kill
  BY <1>1, <1>3 DEF Kill
<1>4. ASSUME ~Kill, UNCHANGED due PROVE d[1] \in ToSet(file'[d[2]])
  BY <1>1, <1>4
<1>5. Kill \/ (\E t \in Threads : Return(t)) \/ UNCHANGED due
  <2>1. ASSUME NEW t \in Threads, NEW s \in LineSinks,
               \/ Emit(t) \/ HandleInMemory(t) \/ SkipSink(t) \/ StartLine(t)
               \/ WriteLine(t, s) \/ Flush(t, s) \/ FailFlush(t, s) \/ WriteSome(t, s)
        PROVE  UNCHANGED due
    BY <2>1 DEF Emit, HandleInMemory, SkipSink, StartLine, WriteLine, Flush, FailFlush, WriteSome
  <2>2. ASSUME NEW s \in Sinks, AddSink(s) \/ RemoveSink(s) PROVE UNCHANGED due
    BY <2>2 DEF AddSink, RemoveSink
  <2>3. ClearSinks \/ CloseJsonl \/ FailClose \/ Interrupt \/ UNCHANGED vars => UNCHANGED due
    BY DEF ClearSinks, CloseJsonl, FailClose, Close, Interrupt, vars
  <2>4. QED
    BY <2>1, <2>2, <2>3 DEF Next, Step, LineSinks
<1>6. QED
  BY <1>2, <1>3, <1>4, <1>5

\* An emit that comes back has delivered its event: to every working sink that was in the list
\* throughout, whatever other threads, sinks, signals and registry changes did meanwhile, and for
\* any number of each.
THEOREM ReturnedMeansDelivered == Spec => []Delivered
<1>1. Init /\ TypeInv => DeliveryInv
  <2> SUFFICES ASSUME Init PROVE DeliveryInv
    OBVIOUS
  <2>1. \A t \in Threads : Served(t)
    BY DEF Init, Served
  <2>2. HolderHasWritten
    BY SinksDiffer DEF Init, HolderHasWritten
  <2>3. Delivered
    BY DEF Init, Delivered
  <2>4. QED
    BY <2>1, <2>2, <2>3 DEF DeliveryInv
<1>2. TypeInv /\ TrailInv /\ DeliveryInv /\ [Next]_vars => DeliveryInv'
  BY ServedStep, HolderStep, DeliveredStep DEF TrailInv, DeliveryInv
<1>3. DeliveryInv => Delivered
  BY DEF DeliveryInv
<1>4. QED
  BY <1>1, <1>2, <1>3, TrailInvariant, PTL DEF Spec
-----------------------------------------------------------------------------
(***************************************************************************)
(* Why an emit returns: the part of EmitReturns that needs no fairness.    *)
(* A thread's own steps take it through the sink it is calling and on to   *)
(* the next index, which the registrations bound; nobody else's step moves *)
(* it, and whom it waits for at a lock is inside that sink (TypeOK).       *)
(***************************************************************************)
Part(t) == CASE pc[t] = "dispatch" -> 1
             [] pc[t] # "dispatch" /\ lock[pc[t]] # t -> 2
             [] OTHER -> 3

EmitAdvances(t) ==
    pc[t] # "idle" /\ pc'[t] # "idle" =>
        \/ at[t] < at'[t] /\ at'[t] <= Len(Registered) + MaxChanges + 1
        \/ at'[t] = at[t] /\ Part(t) < Part(t)'
        \/ ~Step(t) /\ UNCHANGED <<at[t], pc[t], Part(t)>>

\* The list holds what was registered at the start and what was added since, and a loop is at most one
\* past it.
IndexInv ==
    /\ Len(sinks) <= Len(Registered) + changes
    /\ \A t \in Threads :
        /\ pc[t] = "dispatch" => at[t] <= Len(Registered) + changes + 1
        /\ pc[t] \in LineSinks => at[t] <= Len(Registered) + changes

LEMMA ListLength ==
    ASSUME TypeInv, IndexInv, [Next]_vars
    PROVE  (Len(sinks) <= Len(Registered) + changes)' /\ changes <= changes'
<1> USE TraceAssumption DEF TraceAssumption, TypeInv, ListType, BoundType, IndexInv, Sinks
<1>1. Len(Registered) \in Nat /\ changes \in Nat /\ Len(sinks) \in Nat
  OBVIOUS
<1>2. ASSUME NEW s \in Sinks, AddSink(s) PROVE Len(sinks') = Len(sinks) + 1 /\ changes' = changes + 1
  BY <1>2 DEF AddSink, Change
<1>3. ASSUME NEW s \in Sinks, RemoveSink(s)
      PROVE  Len(sinks') = Len(sinks) - 1 /\ changes' = changes + 1
  <2>1. PICK i \in DOMAIN sinks : sinks' = RemoveAt(sinks, i)
    BY <1>3 DEF RemoveSink, ToSet
  <2>2. Len(RemoveAt(sinks, i)) = Len(sinks) - 1
    BY Removal
  <2>. QED
    BY <1>3, <2>1, <2>2 DEF RemoveSink, Change
<1>4. ClearSinks => sinks' = <<>> /\ changes' = changes + 1
  BY DEF ClearSinks, Change
<1>5. CloseJsonl \/ FailClose => sinks' = sinks /\ changes' = changes + 1
  BY DEF CloseJsonl, FailClose, Close, Change
<1>6. Kill => sinks' = Registered /\ changes' = changes
  BY DEF Kill
<1>7. Interrupt \/ UNCHANGED vars => UNCHANGED <<sinks, changes>>
  BY DEF Interrupt, vars
<1>8. ASSUME NEW t \in Threads, Emit(t) \/ Step(t) \/ \E s \in LineSinks : FailFlush(t, s) \/ WriteSome(t, s)
      PROVE UNCHANGED <<sinks, changes>>
  BY <1>8 DEF Emit, Step, Return, HandleInMemory, SkipSink, StartLine, WriteLine, Flush, FailFlush, WriteSome
<1>9. \/ \E s \in Sinks : AddSink(s) \/ RemoveSink(s)
      \/ ClearSinks \/ CloseJsonl \/ FailClose \/ Kill \/ Interrupt \/ UNCHANGED vars
      \/ \E t \in Threads : Emit(t) \/ Step(t) \/ \E s \in LineSinks : FailFlush(t, s) \/ WriteSome(t, s)
  BY DEF Next
<1>10. \/ Len(sinks') = Len(sinks) + 1 /\ changes' = changes + 1
       \/ Len(sinks') = Len(sinks) - 1 /\ changes' = changes + 1
       \/ sinks' = <<>> /\ changes' = changes + 1
       \/ sinks' = sinks /\ changes' = changes + 1
       \/ sinks' = Registered /\ changes' = changes
       \/ sinks' = sinks /\ changes' = changes
  BY ONLY <1>2, <1>3, <1>4, <1>5, <1>6, <1>7, <1>8, <1>9
<1>. QED
  BY <1>1, <1>10

\* A thread's own step, a failing flush among them.
LEMMA OwnStepAdvances ==
    ASSUME TypeInv, IndexInv, NEW t \in Threads,
           Step(t) \/ \E s \in LineSinks : FailFlush(t, s)
    PROVE  /\ pc[t] # "idle"
           /\ \/ pc'[t] = "idle"
              \/ pc'[t] = "dispatch" /\ at'[t] = at[t] + 1 /\ at[t] <= Len(Registered) + changes
              \/ /\ at'[t] = at[t] /\ pc[t] = "dispatch" /\ pc'[t] \in LineSinks
                 /\ at[t] <= Len(Registered) + changes /\ Part(t) < Part(t)'
              \/ at'[t] = at[t] /\ pc'[t] = pc[t] /\ pc[t] \in LineSinks /\ Part(t) < Part(t)'
           /\ \A u \in Threads \ {t} : UNCHANGED <<pc[u], at[u], Part(u)>>
           /\ UNCHANGED changes
<1> USE SinksDiffer, TraceAssumption
    DEF TraceAssumption, TypeInv, ControlType, CountType, ListType, BoundType, IndexInv, LineSinks,
        GoOn, Part
<1>1. Len(sinks) <= Len(Registered) + changes /\ Len(sinks) \in Nat /\ Len(Registered) \in Nat
      /\ changes \in Nat
  BY DEF Sinks
<1>2. CASE Return(t)
  BY <1>2 DEF Return
<1>3. CASE HandleInMemory(t)
  BY <1>1, <1>3 DEF HandleInMemory
<1>4. CASE SkipSink(t)
  BY <1>1, <1>4 DEF SkipSink
<1>5. CASE StartLine(t)
  <2>1. lock[Jsonl] # t /\ lock[Emf] # t
    BY <1>5 DEF StartLine
  <2>. QED
    BY <1>1, <1>5, <2>1 DEF StartLine
<1>6. ASSUME NEW s \in LineSinks, WriteLine(t, s)
      PROVE  /\ \/ at'[t] = at[t] + 1 /\ pc'[t] = "dispatch"
                \/ at'[t] = at[t] /\ pc'[t] = pc[t] /\ Part(t) < Part(t)'
             /\ pc[t] = s
             /\ \A u \in Threads \ {t} : UNCHANGED <<pc[u], at[u], Part(u)>>
             /\ UNCHANGED changes
  <2>1. pc[t] = s /\ lock[s] = Nobody /\ UNCHANGED changes /\ pc[t] # "dispatch"
    BY <1>6 DEF WriteLine
  <2>2. CASE GoOn(t) /\ UNCHANGED lock
    BY <2>1, <2>2
  <2>3. CASE lock' = [lock EXCEPT ![s] = t] /\ UNCHANGED <<pc, at>>
    <3>1. Part(t) = 2 /\ Part(t)' = 3
      BY <2>1, <2>3
    <3>2. ASSUME NEW u \in Threads \ {t} PROVE UNCHANGED <<pc[u], at[u], Part(u)>>
      <4>1. \A r \in LineSinks : lock[r] = u <=> lock'[r] = u
        BY <2>1, <2>3
      <4>. QED
        BY <2>3, <4>1
    <3>. QED
      BY <2>1, <2>3, <3>1, <3>2
  <2>. QED
    BY <1>6, <2>2, <2>3 DEF WriteLine
<1>7. ASSUME NEW s \in LineSinks, Flush(t, s) \/ FailFlush(t, s)
      PROVE  /\ at'[t] = at[t] + 1 /\ pc'[t] = "dispatch" /\ pc[t] = s
             /\ \A u \in Threads \ {t} : UNCHANGED <<pc[u], at[u], Part(u)>>
             /\ UNCHANGED changes
  <2>1. /\ pc[t] = s /\ lock[s] = t /\ lock' = [lock EXCEPT ![s] = Nobody]
        /\ GoOn(t) /\ UNCHANGED changes
    BY <1>7 DEF Flush, FailFlush, Holds
  <2>2. ASSUME NEW u \in Threads \ {t} PROVE UNCHANGED <<pc[u], at[u], Part(u)>>
    <3>1. \A r \in LineSinks : lock[r] = u <=> lock'[r] = u
      BY <2>1
    <3>. QED
      BY <2>1, <3>1
  <2>. QED
    BY <2>1, <2>2
<1>. QED
  BY <1>2, <1>3, <1>4, <1>5, <1>6, <1>7 DEF Step

\* What is no step of any thread's own: it leaves every emit where it is, or ends it.
LEMMA OtherStepsWait ==
    ASSUME TypeInv, [Next]_vars, NEW t \in Threads, pc[t] # "idle",
           \A u \in Threads : ~Step(u) /\ \A s \in LineSinks : ~FailFlush(u, s)
    PROVE  pc'[t] = "idle" \/ UNCHANGED <<pc[t], at[t], Part(t)>>
<1> USE SinksDiffer DEF TypeInv, ControlType, CountType, LineSinks, Part
<1>1. ASSUME NEW u \in Threads, Emit(u) PROVE UNCHANGED <<pc[t], at[t], Part(t)>>
  BY <1>1 DEF Emit
<1>2. ASSUME NEW s \in Sinks, AddSink(s) \/ RemoveSink(s) PROVE UNCHANGED <<pc[t], at[t], Part(t)>>
  BY <1>2 DEF AddSink, RemoveSink
<1>3. CASE ClearSinks \/ CloseJsonl \/ FailClose \/ UNCHANGED vars
  BY <1>3 DEF ClearSinks, CloseJsonl, FailClose, Close, vars
<1>4. CASE Interrupt
  BY <1>4 DEF Interrupt
<1>5. CASE Kill
  BY <1>5 DEF Kill
<1>6. ASSUME NEW u \in Threads, NEW s \in LineSinks, WriteSome(u, s)
      PROVE  UNCHANGED <<pc[t], at[t], Part(t)>>
  BY <1>6, SomeWritten
<1>. QED
  BY <1>1, <1>2, <1>3, <1>4, <1>5, <1>6 DEF Next

LEMMA IdleBegins ==
    ASSUME TypeInv, [Next]_vars, NEW t \in Threads, pc[t] = "idle",
           \A u \in Threads : ~Step(u) /\ \A s \in LineSinks : ~FailFlush(u, s)
    PROVE  pc'[t] = "idle" \/ (pc'[t] = "dispatch" /\ at'[t] = 1)
<1> USE DEF TypeInv, ControlType, CountType
<1>1. ASSUME NEW u \in Threads, Emit(u)
      PROVE  pc'[t] = "idle" \/ (pc'[t] = "dispatch" /\ at'[t] = 1)
  BY <1>1 DEF Emit
<1>2. ASSUME NEW s \in Sinks, AddSink(s) \/ RemoveSink(s) PROVE UNCHANGED pc
  BY <1>2 DEF AddSink, RemoveSink
<1>3. ClearSinks \/ CloseJsonl \/ FailClose \/ Interrupt \/ Kill \/ UNCHANGED vars => pc'[t] = "idle"
  BY DEF ClearSinks, CloseJsonl, FailClose, Close, Interrupt, Kill, vars
<1>4. ASSUME NEW u \in Threads, NEW s \in LineSinks, WriteSome(u, s) PROVE UNCHANGED pc
  BY <1>4, SomeWritten
<1>. QED
  BY <1>1, <1>2, <1>3, <1>4 DEF Next

LEMMA IndexStep ==
    ASSUME TypeInv, TypeInv', IndexInv, [Next]_vars
    PROVE  IndexInv'
<1>1. (Len(sinks) <= Len(Registered) + changes)' /\ changes <= changes'
  BY ListLength
<1>2. /\ Len(Registered) \in Nat /\ changes \in Nat /\ changes' \in Nat
      /\ \A t \in Threads : at[t] \in Nat
  BY TraceAssumption DEF TraceAssumption, TypeInv, ListType, CountType, BoundType, Sinks
<1>3. ASSUME NEW t \in Threads
      PROVE  /\ pc'[t] = "dispatch" => at'[t] <= Len(Registered) + changes' + 1
             /\ pc'[t] \in LineSinks => at'[t] <= Len(Registered) + changes'
  <2> USE SinksDiffer DEF LineSinks
  <2>1. /\ pc[t] = "dispatch" => at[t] <= Len(Registered) + changes + 1
        /\ pc[t] \in LineSinks => at[t] <= Len(Registered) + changes
    BY DEF IndexInv
  <2>2. /\ Len(Registered) \in Nat /\ changes \in Nat /\ changes' \in Nat /\ changes <= changes'
        /\ at[t] \in Nat
    BY <1>1, <1>2
  <2>3. CASE UNCHANGED <<pc[t], at[t]>>
    BY ONLY <2>3, <2>1, <2>2
  <2>4. CASE \E u \in Threads : Step(u) \/ \E s \in LineSinks : FailFlush(u, s)
    <3>1. PICK u \in Threads : Step(u) \/ \E s \in LineSinks : FailFlush(u, s)
      BY <2>4
    <3>2. CASE u = t
      <4>1. \/ pc'[t] = "idle"
            \/ pc'[t] = "dispatch" /\ at'[t] = at[t] + 1 /\ at[t] <= Len(Registered) + changes
            \/ at'[t] = at[t] /\ at[t] <= Len(Registered) + changes
        BY <2>1, <3>1, <3>2, OwnStepAdvances
      <4>. QED
        BY ONLY <2>2, <4>1, SinksDiffer DEF LineSinks
    <3>3. CASE u # t
      <4>1. UNCHANGED <<pc[t], at[t]>>
        BY <3>1, <3>3, OwnStepAdvances
      <4>. QED
        BY <2>3, <4>1
    <3>. QED
      BY <3>2, <3>3
  <2>5. CASE ~\E u \in Threads : Step(u) \/ \E s \in LineSinks : FailFlush(u, s)
    <3>1. CASE pc[t] # "idle"
      <4>1. pc'[t] = "idle" \/ UNCHANGED <<pc[t], at[t]>>
        BY <2>5, <3>1, OtherStepsWait
      <4>. QED
        BY <2>3, <4>1
    <3>2. CASE pc[t] = "idle"
      <4>1. pc'[t] = "idle" \/ (pc'[t] = "dispatch" /\ at'[t] = 1)
        BY <2>5, <3>2, IdleBegins
      <4>. QED
        BY ONLY <2>2, <4>1, SinksDiffer DEF LineSinks
    <3>. QED
      BY <3>1, <3>2
  <2>. QED
    BY <2>4, <2>5
<1>. QED
  BY <1>1, <1>3 DEF IndexInv

LEMMA EmitStep ==
    ASSUME TypeInv, TypeInv', IndexInv, [Next]_vars
    PROVE  \A t \in Threads : EmitAdvances(t)
<1> SUFFICES ASSUME NEW t \in Threads, pc[t] # "idle", pc'[t] # "idle"
             PROVE  \/ at[t] < at'[t] /\ at'[t] <= Len(Registered) + MaxChanges + 1
                    \/ at'[t] = at[t] /\ Part(t) < Part(t)'
                    \/ ~Step(t) /\ UNCHANGED <<at[t], pc[t], Part(t)>>
  BY DEF EmitAdvances
<1>1. /\ Len(Registered) \in Nat /\ changes \in Nat /\ MaxChanges \in Nat /\ changes <= MaxChanges
      /\ at[t] \in Nat
  BY TraceAssumption DEF TraceAssumption, TypeInv, ListType, CountType, BoundType, Sinks
<1>2. CASE Step(t) \/ \E s \in LineSinks : FailFlush(t, s)
  <2>1. \/ at'[t] = at[t] + 1 /\ at[t] <= Len(Registered) + changes
        \/ at'[t] = at[t] /\ Part(t) < Part(t)'
    BY <1>2, OwnStepAdvances
  <2>. QED
    BY <1>1, <2>1
<1>3. CASE ~Step(t) /\ \A s \in LineSinks : ~FailFlush(t, s)
  <2>1. CASE \E u \in Threads : Step(u) \/ \E s \in LineSinks : FailFlush(u, s)
    <3>1. PICK u \in Threads \ {t} : Step(u) \/ \E s \in LineSinks : FailFlush(u, s)
      BY <1>3, <2>1
    <3>2. UNCHANGED <<pc[t], at[t], Part(t)>>
      BY <3>1, OwnStepAdvances
    <3>. QED
      BY <1>3, <3>2
  <2>2. CASE ~\E u \in Threads : Step(u) \/ \E s \in LineSinks : FailFlush(u, s)
    <3>1. UNCHANGED <<pc[t], at[t], Part(t)>>
      BY <2>2, OtherStepsWait
    <3>. QED
      BY <1>3, <3>1
  <2>. QED
    BY <2>1, <2>2
<1>. QED
  BY <1>2, <1>3

\* An emit takes at most three steps of its thread for each sink that was ever in the list, whatever
\* other threads, signals and registry changes do between them (hooks.py:77-84).
THEOREM EveryEmitAdvances == Spec => [][\A t \in Threads : EmitAdvances(t)]_vars
<1>1. Init => IndexInv
  BY TraceAssumption DEF TraceAssumption, Init, IndexInv, LineSinks, Sinks
<1>2. TypeInv /\ TypeInv' /\ IndexInv /\ [Next]_vars => IndexInv'
  BY IndexStep
<1>3. TypeInv /\ TypeInv' /\ IndexInv /\ [Next]_vars => \A t \in Threads : EmitAdvances(t)
  BY EmitStep
<1>. QED
  BY <1>1, <1>2, <1>3, TypeInvariant, PTL DEF Spec
=============================================================================
