------------------------------- MODULE Sampling -------------------------------
(***************************************************************************)
(* A power measurement with an HVPM monsoon: Monsoon.measure_power gives   *)
(* the device away, runs an assembly line and takes the device back        *)
(* (api/monsoon.py, api/hvpm/monsoon.py).  The line is made of three, one  *)
(* inside the other (sampling/engine, sampling/hvpm/transformers.py):      *)
(*                                                                         *)
(*   threads:    hvpm ------------------------------------> aggregator     *)
(*   processes:  collector --> normalizer                                  *)
(*   threads:                  reader --> chunker --> applier              *)
(*                                                                         *)
(* Each arrow out of a node that does work is a stream, a queue with an    *)
(* end-of-stream mark.  A line's run() returns when its nodes are over;    *)
(* what they raise stays in futures that nobody reads.                     *)
(*                                                                         *)
(* A packet carries one sample here, and a sample is its number in the     *)
(* order of collection, which is also its time.  Calibration values are    *)
(* the samples they come from.                                             *)
(***************************************************************************)
EXTENDS Naturals, Sequences, FiniteSets, SequencesExt

CONSTANTS
    BufferSize,     \* packets in a buffer (64 in the code)
    Window,         \* calibration_window_size (5 in the code)
    Settle,         \* measure_after_seconds, in samples
    MaxBuffers,     \* bound: buffers collected
    ReadMayFail,    \* environment: a USB read may raise (a timeout of a second)
    DeviceMayFail   \* environment: setting the device up may raise

ASSUME SizesAssumption ==
    /\ BufferSize \in Nat \ {0} /\ Window \in Nat \ {0}
    /\ Settle \in Nat /\ MaxBuffers \in Nat
ASSUME FaultsAssumption == ReadMayFail \in BOOLEAN /\ DeviceMayFail \in BOOLEAN

VARIABLES
    main,          \* the thread in measure_power
    node,          \* where the seven nodes are
    holders,       \* who has the device open
    taken,         \* the types of the samples collected so far
    buffers,       \* number of buffers collected
    stream,        \* the queues between the nodes
    windows,       \* SampleChunker.calibration_data
    stored,        \* SampleChunker._stored_raw_samples
    start,         \* SampleAggregator._start_time; 0 is None
    gathered       \* the readings SampleAggregator has summed up

chunkVars == <<windows, stored>>
aggrVars  == <<start, gathered>>
vars == <<main, node, holders, taken, buffers, stream, chunkVars, aggrVars>>

Nodes   == {"hvpm", "aggregator", "collector", "normalizer", "reader", "chunker",
            "applier"}
Streams == {"raw", "packets", "chunks", "readings"}
NodePCs == {"unborn", "begin", "loop", "closing", "joining", "ended", "raised"}
Over(n) == node[n] \in {"ended", "raised"}

\* SampleType; 0x20 is the type that nobody knows.
Types  == {"measure", "zero", "ref", "unknown"}
Origins == {"zero", "ref"}
Hole   == 0

Init ==
    /\ main = "idle"
    /\ node = [n \in Nodes |-> "unborn"]
    /\ holders = {"main"}
    /\ taken = <<>> /\ buffers = 0
    /\ stream = [s \in Streams |-> [items |-> <<>>, closed |-> FALSE]]
    /\ windows = [o \in Origins |-> <<>>] /\ stored = <<>>
    /\ start = 0 /\ gathered = <<>>

Goto(n, label) == node' = [node EXCEPT ![n] = label]

\* add_indexed_buffer, for each of a list of buffers, and end_stream
Send(str, s, bufs) == [str EXCEPT ![s].items = @ \o bufs]
End(str, s) == [str EXCEPT ![s].closed = TRUE]

\* remove_indexed_buffer: the next buffer, or the end.
Next1(s) == Head(stream[s].items)
HasNext(s) == stream[s].items # <<>>
AtEnd(s) == stream[s].items = <<>> /\ stream[s].closed
Removed(s) == [stream EXCEPT ![s].items = Tail(@)]

------------------------------------------------------------------------------
(* take_samples, and the nodes that run a line *)

TakeSamples ==
    /\ main = "idle"
    /\ main' = "running"
    /\ holders' = holders \ {"main"}
    /\ node' = [node EXCEPT !["hvpm"] = "begin", !["aggregator"] = "loop"]
    /\ UNCHANGED <<taken, buffers, stream, chunkVars, aggrVars>>

\* The status packet is read before sampling.
HvpmOpens ==
    /\ node["hvpm"] = "begin"
    /\ holders' = holders \cup {"hvpm"}
    /\ Goto("hvpm", "loop")
    /\ UNCHANGED <<main, taken, buffers, stream, chunkVars, aggrVars>>

\* closeDevice(), and the line of processes is started.
HvpmRunsLine ==
    /\ node["hvpm"] = "loop"
    /\ holders' = holders \ {"hvpm"}
    /\ node' = [node EXCEPT !["hvpm"] = "joining", !["collector"] = "begin",
                            !["normalizer"] = "begin"]
    /\ UNCHANGED <<main, taken, buffers, stream, chunkVars, aggrVars>>

\* Nothing closes the device then.
HvpmFails ==
    /\ node["hvpm"] \in {"begin", "loop"}
    /\ DeviceMayFail
    /\ Goto("hvpm", "raised")
    /\ UNCHANGED <<main, holders, taken, buffers, stream, chunkVars, aggrVars>>

NormalizerRunsLine ==
    /\ node["normalizer"] = "begin"
    /\ node' = [node EXCEPT !["normalizer"] = "joining", !["reader"] = "loop",
                            !["chunker"] = "loop", !["applier"] = "loop"]
    /\ UNCHANGED <<main, holders, taken, buffers, stream, chunkVars, aggrVars>>

NormalizerEnds ==
    /\ node["normalizer"] = "joining"
    /\ \A n \in {"reader", "chunker", "applier"} : Over(n)
    /\ Goto("normalizer", "ended")
    /\ UNCHANGED <<main, holders, taken, buffers, stream, chunkVars, aggrVars>>

\* Mutant: the pool of processes is not joined.
HvpmEndsAtOnce ==
    /\ node["hvpm"] = "joining"
    /\ Goto("hvpm", "ended")
    /\ UNCHANGED <<main, holders, taken, buffers, stream, chunkVars, aggrVars>>

HvpmEnds ==
    /\ node["hvpm"] = "joining"
    /\ Over("collector") /\ Over("normalizer")
    /\ Goto("hvpm", "ended")
    /\ UNCHANGED <<main, holders, taken, buffers, stream, chunkVars, aggrVars>>

\* run() returns, and the finally of take_samples takes the device back.
RunReturns ==
    /\ main = "running"
    /\ Over("hvpm") /\ Over("aggregator")
    /\ main' = "returned"
    /\ holders' = holders \cup {"main"}
    /\ UNCHANGED <<node, taken, buffers, stream, chunkVars, aggrVars>>

------------------------------------------------------------------------------
(* PacketCollector *)

CollectorBegins ==
    /\ node["collector"] = "begin"
    /\ holders' = holders \cup {"collector"}
    /\ Goto("collector", "loop")
    /\ UNCHANGED <<main, taken, buffers, stream, chunkVars, aggrVars>>

\* on_begin raises; the device is closed with the process, if not by on_end.
CollectorFails ==
    /\ node["collector"] = "begin"
    /\ DeviceMayFail
    /\ Goto("collector", "raised")
    /\ UNCHANGED <<main, holders, taken, buffers, stream, chunkVars, aggrVars>>

\* A read that raises leaves a hole in the buffer.
Filled(holes) ==
    [i \in 1..BufferSize |->
        IF i \in holes THEN Hole ELSE Len(taken) + Cardinality((1..i) \ holes)]

CollectorFills ==
    /\ node["collector"] = "loop"
    /\ buffers < MaxBuffers
    /\ buffers' = buffers + 1
    /\ \E holes \in SUBSET (1..BufferSize) :
         /\ ReadMayFail \/ holes = {}
         /\ \E read \in [1..(BufferSize - Cardinality(holes)) -> Types] :
              taken' = taken \o read
         /\ stream' = Send(stream, "raw", <<Filled(holes)>>)
    /\ UNCHANGED <<main, node, holders, chunkVars, aggrVars>>

\* The time is up.
CollectorEndsStream ==
    /\ node["collector"] = "loop"
    /\ stream' = End(stream, "raw")
    /\ Goto("collector", "closing")
    /\ UNCHANGED <<main, holders, taken, buffers, chunkVars, aggrVars>>

CollectorCloses ==
    /\ node["collector"] = "closing"
    /\ holders' = holders \ {"collector"}
    /\ Goto("collector", "ended")
    /\ UNCHANGED <<main, taken, buffers, stream, chunkVars, aggrVars>>

------------------------------------------------------------------------------
(* The nodes that transform buffers: PacketReader *)

\* END is passed on, after what _on_end_of_stream has left to send.
EndsAfter(n, in, out, bufs) ==
    /\ node[n] = "loop" /\ AtEnd(in)
    /\ stream' = End(Send(stream, out, bufs), out)
    /\ Goto(n, "ended")
    /\ UNCHANGED <<main, holders, taken, buffers, aggrVars>>

\* A node that raises sends no END.
Raises(n) ==
    /\ Goto(n, "raised")
    /\ UNCHANGED <<main, holders, taken, buffers, stream, chunkVars, aggrVars>>

\* Packet(None): TypeError
ReaderRaises ==
    /\ node["reader"] = "loop" /\ HasNext("raw")
    /\ Contains(Next1("raw"), Hole)
    /\ Raises("reader")

ReaderPasses ==
    /\ node["reader"] = "loop" /\ HasNext("raw")
    /\ ~Contains(Next1("raw"), Hole)
    /\ stream' = Send(Removed("raw"), "packets", <<Next1("raw")>>)
    /\ UNCHANGED <<main, node, holders, taken, buffers, chunkVars, aggrVars>>

ReaderEnds == EndsAfter("reader", "raw", "packets", <<>>) /\ UNCHANGED chunkVars

------------------------------------------------------------------------------
(* SampleChunker *)

\* CalibrationWindows.add
Add(win, k) == IF Len(win) = Window THEN Append(Tail(win), k) ELSE Append(win, k)

\* CalibrationSnapshot: a window that is not full stands for CalibrationError.
Cut(st) == [samples |-> st.stored, snapshot |-> st.windows]

\* Mutant: the chunk is cut after the calibration sample was added.
SeesLate(st, k) ==
    LET type == taken[k] IN
    CASE type = "measure" -> [st EXCEPT !.stored = Append(@, k)]
      [] type \in Origins ->
           LET next == [st EXCEPT !.windows[type] = Add(@, k)]
           IN IF st.stored = <<>> THEN next
              ELSE [next EXCEPT !.out = Append(@, Cut(next)), !.stored = <<>>]
      [] OTHER -> st

\* One sample of _transform_buffer.
Sees(st, k) ==
    LET type == taken[k]
        cut  == IF st.stored = <<>> THEN st
                ELSE [st EXCEPT !.out = Append(@, Cut(st)), !.stored = <<>>]
    IN CASE type = "measure" -> [st EXCEPT !.stored = Append(@, k)]
         [] type \in Origins -> [cut EXCEPT !.windows[type] = Add(@, k)]
         [] OTHER            -> st

ChunkState == [stored |-> stored, windows |-> windows, out |-> <<>>]

\* What has become of it after i samples of a buffer.
Chunked(buf) ==
    LET st[i \in 0..Len(buf)] == IF i = 0 THEN ChunkState ELSE Sees(st[i - 1], buf[i])
    IN  st

ChunkerChunks ==
    /\ node["chunker"] = "loop" /\ HasNext("packets")
    /\ LET st == Chunked(Next1("packets"))[Len(Next1("packets"))] IN
         /\ stored' = st.stored /\ windows' = st.windows
         /\ stream' = Send(Removed("packets"), "chunks", st.out)
    /\ UNCHANGED <<main, node, holders, taken, buffers, aggrVars>>

\* Mutant: what is stored is not flushed.
ChunkerEndsUnflushed ==
    /\ EndsAfter("chunker", "packets", "chunks", <<>>)
    /\ UNCHANGED chunkVars

\* The last chunk is sent even if it is empty.
ChunkerEnds ==
    /\ EndsAfter("chunker", "packets", "chunks", <<Cut(ChunkState)>>)
    /\ stored' = <<>>
    /\ UNCHANGED windows

------------------------------------------------------------------------------
(* CalibrationApplier *)

Calibrated(snapshot) == \A o \in Origins : Len(snapshot[o]) = Window

\* Without a sample, the array of measurements has one dimension: IndexError.
ApplierRaises ==
    /\ node["applier"] = "loop" /\ HasNext("chunks")
    /\ Next1("chunks").samples = <<>> /\ Calibrated(Next1("chunks").snapshot)
    /\ Raises("applier")

Readings(chunk) ==
    IF ~Calibrated(chunk.snapshot) THEN <<>>
    ELSE [i \in DOMAIN chunk.samples |->
            [sample |-> chunk.samples[i], by |-> chunk.snapshot]]

ApplierApplies ==
    /\ node["applier"] = "loop" /\ HasNext("chunks")
    /\ Next1("chunks").samples # <<>> \/ ~Calibrated(Next1("chunks").snapshot)
    /\ stream' = Send(Removed("chunks"), "readings", <<Readings(Next1("chunks"))>>)
    /\ UNCHANGED <<main, node, holders, taken, buffers, chunkVars, aggrVars>>

\* Mutant: END is forgotten.
ApplierEndsSilently ==
    /\ node["applier"] = "loop" /\ AtEnd("chunks")
    /\ Goto("applier", "ended")
    /\ UNCHANGED <<main, holders, taken, buffers, stream, chunkVars, aggrVars>>

ApplierEnds == EndsAfter("applier", "chunks", "readings", <<>>) /\ UNCHANGED chunkVars

------------------------------------------------------------------------------
(* SampleAggregator *)

\* One reading of _transform_buffer: the first of all sets the time.
Sums(st, r) ==
    LET from == IF st.start = 0 THEN r.sample ELSE st.start
    IN  [start |-> from,
         gathered |-> IF r.sample - from < Settle THEN st.gathered
                      ELSE Append(st.gathered, r)]

Summed(buf) ==
    LET st[i \in 0..Len(buf)] == IF i = 0 THEN [start |-> start, gathered |-> gathered]
                                 ELSE Sums(st[i - 1], buf[i])
    IN  st

AggregatorSums ==
    /\ node["aggregator"] = "loop" /\ HasNext("readings")
    /\ LET st == Summed(Next1("readings"))[Len(Next1("readings"))]
       IN  start' = st.start /\ gathered' = st.gathered
    /\ stream' = Removed("readings")
    /\ UNCHANGED <<main, node, holders, taken, buffers, chunkVars>>

\* Its END goes to /dev/null.
AggregatorEnds ==
    /\ node["aggregator"] = "loop" /\ AtEnd("readings")
    /\ Goto("aggregator", "ended")
    /\ UNCHANGED <<main, holders, taken, buffers, stream, chunkVars, aggrVars>>

------------------------------------------------------------------------------
HvpmStep == HvpmOpens \/ HvpmRunsLine \/ HvpmFails \/ HvpmEnds
CollectorStep ==
    \/ CollectorBegins \/ CollectorFails \/ CollectorFills \/ CollectorEndsStream
    \/ CollectorCloses
NormalizerStep == NormalizerRunsLine \/ NormalizerEnds
ReaderStep == ReaderPasses \/ ReaderRaises \/ ReaderEnds
ChunkerStep == ChunkerChunks \/ ChunkerEnds
ApplierStep == ApplierApplies \/ ApplierRaises \/ ApplierEnds
AggregatorStep == AggregatorSums \/ AggregatorEnds

Next ==
    \/ TakeSamples \/ RunReturns
    \/ HvpmStep \/ CollectorStep \/ NormalizerStep \/ ReaderStep \/ ChunkerStep
    \/ ApplierStep \/ AggregatorStep

Spec == Init /\ [][Next]_vars

(* Each node is a thread or a process of its own; none of them waits for   *)
(* anything but a queue or the end of others.  The collector ends when its *)
(* time is up.                                                             *)
FairSpec ==
    /\ Spec
    /\ WF_vars(RunReturns) /\ WF_vars(HvpmStep) /\ WF_vars(CollectorStep)
    /\ WF_vars(NormalizerStep) /\ WF_vars(ReaderStep) /\ WF_vars(ChunkerStep)
    /\ WF_vars(ApplierStep) /\ WF_vars(AggregatorStep)

------------------------------------------------------------------------------
(* Properties *)

Samples == 1..(BufferSize * MaxBuffers)
SampleSeqs == Seq(Samples)
Snapshots == [Origins -> SampleSeqs]
Reading == [sample : Samples, by : Snapshots]

TypeOK ==
    /\ main \in {"idle", "running", "returned"}
    /\ node \in [Nodes -> NodePCs]
    /\ holders \subseteq {"main", "hvpm", "collector"}
    /\ taken \in Seq(Types) /\ buffers \in 0..MaxBuffers
    /\ DOMAIN stream = Streams /\ \A s \in Streams : stream[s].closed \in BOOLEAN
    /\ stream["raw"].items \in Seq(Seq(Samples \cup {Hole}))
    /\ stream["packets"].items \in Seq(SampleSeqs)
    /\ stream["chunks"].items \in Seq([samples : SampleSeqs, snapshot : Snapshots])
    /\ stream["readings"].items \in Seq(Seq(Reading))
    /\ windows \in Snapshots /\ \A o \in Origins : Len(windows[o]) <= Window
    /\ stored \in SampleSeqs
    /\ start \in {0} \cup Samples /\ gathered \in Seq(Reading)

\* The device is open in one place at a time, whatever fails: take_samples
\* releases it "so the child process can sample from the Monsoon", and the
\* children are done with it before it is taken back.  (Except by a child that
\* died between opening it and closing it.)
ExclusiveDevice ==
    node["hvpm"] # "raised" => Cardinality(holders) <= 1

\* A reading is calibrated by the last Window samples of each origin that the
\* device sent before it, however far ahead of the applier the collector and the
\* chunker are (CalibrationSnapshot, calibration.py:125-128).
Before(k, o) == {i \in 1..(k - 1) : taken[i] = o}
Increasing(seq) == \A i, j \in DOMAIN seq : i < j => seq[i] < seq[j]
AreTheLast(seq, before) ==
    /\ Len(seq) = Window /\ Increasing(seq)
    /\ ToSet(seq) \subseteq before
    /\ \A k \in before \ ToSet(seq) : \A l \in ToSet(seq) : k < l
RightCalibration ==
    \A r \in ToSet(gathered) : \A o \in Origins : AreTheLast(r.by[o], Before(r.sample, o))

\* When run() has returned and no node has raised, the result counts every sample
\* taken since the device was calibrated and had settled, in order and once.
CalibratedAt(k) == \A o \in Origins : Cardinality(Before(k, o)) >= Window
Usable == {k \in DOMAIN taken : taken[k] = "measure" /\ CalibratedAt(k)}
Wanted == {k \in Usable : \E j \in Usable : j <= k /\ k - j >= Settle}
ResultIsComplete ==
    main = "returned" /\ (\A n \in Nodes : node[n] = "ended") =>
        LET counted == [i \in DOMAIN gathered |-> gathered[i].sample]
        IN  Increasing(counted) /\ ToSet(counted) = Wanted

\* run() returns, or a node has raised and the ones after it wait for ever.
RunReturnsUnlessRaised ==
    main = "running" ~> main = "returned" \/ \E n \in Nodes : node[n] = "raised"
==============================================================================
