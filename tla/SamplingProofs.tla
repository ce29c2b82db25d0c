--------------------------- MODULE SamplingProofs ---------------------------
(***************************************************************************)
(* Where the Monsoon is open during a measurement, and what becomes of the *)
(* samples, for any sizes of buffers and windows, for any samples and      *)
(* whatever fails.                                                         *)
(*                                                                         *)
(* The samples flow from the collector to the aggregator.  Of each node    *)
(* there is a number up to which it has seen them, and the items of each   *)
(* stream cover the samples between two such numbers: this is Flow, and    *)
(* RightCalibration follows from it.  That the nodes end one after the     *)
(* other, each when nothing is left for it (EndsInOrder), gives            *)
(* ResultIsComplete.                                                       *)
(***************************************************************************)
EXTENDS Sampling, FiniteSetTheorems, SequenceTheorems, WellFoundedInduction, TLAPS

\* main, the hvpm thread and the collector have the device open where their code
\* says so, and each of them only while the one before waits for it.
Handover ==
    /\ main \in {"idle", "running", "returned"}
    /\ node \in [Nodes -> NodePCs]
    /\ holders \subseteq {"main", "hvpm", "collector"}
    /\ main = "idle" => \A n \in Nodes : node[n] = "unborn"
    /\ main = "returned" => node["hvpm"] \in {"ended", "raised"}
    /\ "main" \in holders <=> main # "running"
    /\ "hvpm" \in holders => node["hvpm"] \in {"loop", "raised"}
    /\ "collector" \in holders => node["collector"] \in {"loop", "closing"}
    /\ node["collector"] \in {"begin", "loop", "closing"} => node["hvpm"] = "joining"

LEMMA HandoverInit == Init => Handover
BY DEF Init, Handover, Nodes, NodePCs

\* The steps of the other nodes do not touch the device.
LEMMA HandoverElsewhere ==
    ASSUME Handover, NEW n \in Nodes \ {"hvpm", "collector"}, NEW label \in NodePCs,
           main # "idle", node' = [node EXCEPT ![n] = label] \/ UNCHANGED node,
           UNCHANGED <<main, holders>>
    PROVE  Handover'
BY DEF Handover, Nodes

LEMMA HandoverNext == Handover /\ [Next]_vars => Handover'
<1> SUFFICES ASSUME Handover, [Next]_vars PROVE Handover'
  OBVIOUS
<1>0. Nodes = {"hvpm", "aggregator", "collector", "normalizer", "reader", "chunker",
               "applier"}
      /\ {"unborn", "begin", "loop", "closing", "joining", "ended", "raised"} = NodePCs
  BY DEF Nodes, NodePCs
<1>1. CASE TakeSamples \/ RunReturns
  BY <1>0, <1>1 DEF TakeSamples, RunReturns, Handover, Over
<1>2. CASE HvpmStep
  BY <1>0, <1>2 DEF HvpmStep, HvpmOpens, HvpmRunsLine, HvpmFails, HvpmEnds, Handover,
                    Goto, Over
<1>3. CASE CollectorStep
  BY <1>0, <1>3 DEF CollectorStep, CollectorBegins, CollectorFails, CollectorFills,
                    CollectorEndsStream, CollectorCloses, Handover, Goto
<1>4. CASE NormalizerRunsLine
  BY <1>0, <1>4 DEF NormalizerRunsLine, Handover
<1>5. CASE NormalizerEnds
  <2>1. main # "idle"
    BY <1>0, <1>5 DEF NormalizerEnds, Handover
  <2> QED
    BY <1>0, <1>5, <2>1, HandoverElsewhere DEF NormalizerEnds, Goto
<1>6. CASE ReaderStep
  <2>1. main # "idle"
    BY <1>0, <1>6 DEF ReaderStep, ReaderPasses, ReaderRaises, ReaderEnds, EndsAfter,
                      Handover
  <2>2. /\ UNCHANGED <<main, holders>>
        /\ UNCHANGED node \/ \E label \in NodePCs : node' = [node EXCEPT !["reader"] = label]
    BY <1>0, <1>6 DEF ReaderStep, ReaderPasses, ReaderRaises, ReaderEnds, EndsAfter,
                      Raises, Goto
  <2> QED
    BY <1>0, <2>1, <2>2, HandoverElsewhere
<1>7. CASE ChunkerStep
  <2>1. main # "idle"
    BY <1>0, <1>7 DEF ChunkerStep, ChunkerChunks, ChunkerEnds, EndsAfter, Handover
  <2>2. /\ UNCHANGED <<main, holders>>
        /\ UNCHANGED node \/ \E label \in NodePCs : node' = [node EXCEPT !["chunker"] = label]
    BY <1>0, <1>7 DEF ChunkerStep, ChunkerChunks, ChunkerEnds, EndsAfter, Goto
  <2> QED
    BY <1>0, <2>1, <2>2, HandoverElsewhere
<1>8. CASE ApplierStep
  <2>1. main # "idle"
    BY <1>0, <1>8 DEF ApplierStep, ApplierApplies, ApplierRaises, ApplierEnds, EndsAfter,
                      Handover
  <2>2. /\ UNCHANGED <<main, holders>>
        /\ UNCHANGED node \/ \E label \in NodePCs : node' = [node EXCEPT !["applier"] = label]
    BY <1>0, <1>8 DEF ApplierStep, ApplierApplies, ApplierRaises, ApplierEnds, EndsAfter,
                      Raises, Goto
  <2> QED
    BY <1>0, <2>1, <2>2, HandoverElsewhere
<1>9. CASE AggregatorStep
  <2>1. main # "idle"
    BY <1>0, <1>9 DEF AggregatorStep, AggregatorSums, AggregatorEnds, Handover
  <2>2. /\ UNCHANGED <<main, holders>>
        /\ UNCHANGED node
           \/ \E label \in NodePCs : node' = [node EXCEPT !["aggregator"] = label]
    BY <1>0, <1>9 DEF AggregatorStep, AggregatorSums, AggregatorEnds, Goto
  <2> QED
    BY <1>0, <2>1, <2>2, HandoverElsewhere
<1>10. CASE UNCHANGED vars
  BY <1>10 DEF vars, Handover
<1> QED
  BY <1>1, <1>2, <1>3, <1>4, <1>5, <1>6, <1>7, <1>8, <1>9, <1>10
     DEF Next, NormalizerStep

\* The device is open in at most one place at a time, unless the thread that reads
\* the status packet has raised with it open.
THEOREM ExclusiveDeviceHolds == Spec => []ExclusiveDevice
<1>1. Handover => ExclusiveDevice
  <2> SUFFICES ASSUME Handover, node["hvpm"] # "raised" PROVE Cardinality(holders) <= 1
    BY DEF ExclusiveDevice
  <2>1. \E h : holders \subseteq {h}
    <3>1. CASE main # "running"
      BY <3>1 DEF Handover, Nodes
    <3>2. CASE main = "running"
      BY <3>2 DEF Handover
    <3> QED
      BY <3>1, <3>2
  <2>2. PICK h : holders \subseteq {h}
    BY <2>1
  <2>3. IsFiniteSet({h}) /\ Cardinality({h}) = 1
    BY FS_Singleton
  <2> QED
    BY <2>2, <2>3, FS_Subset
<1> QED
  BY <1>1, HandoverInit, HandoverNext, PTL DEF Spec

------------------------------------------------------------------------------
(* Who is over when, and what that says of the queues *)

Fresh(n) == node[n] = "unborn"
EndsInOrder ==
    /\ DOMAIN stream = Streams
    /\ \A s \in Streams : stream[s].closed \in BOOLEAN
    /\ node["hvpm"] \in {"unborn", "begin", "loop"} => Fresh("collector") /\ Fresh("normalizer")
    /\ node["hvpm"] = "unborn" => Fresh("aggregator")
    /\ node["normalizer"] \in {"unborn", "begin"} =>
         Fresh("reader") /\ Fresh("chunker") /\ Fresh("applier")
    /\ stream["raw"].closed => node["collector"] \in {"closing", "ended"}
    /\ stream["packets"].closed => node["reader"] = "ended"
    /\ stream["chunks"].closed => node["chunker"] = "ended"
    /\ stream["readings"].closed => node["applier"] = "ended"
    /\ node["reader"] = "ended" => AtEnd("raw")
    /\ node["chunker"] = "ended" => AtEnd("packets") /\ stored = <<>>
    /\ node["applier"] = "ended" => AtEnd("chunks")
    /\ node["aggregator"] = "ended" => AtEnd("readings")

------------------------------------------------------------------------------
(* What is in the queues *)

SampleBuffers == Seq(Nat)
Chunks        == [samples : Seq(Nat), snapshot : [Origins -> Seq(Nat)]]
AnyReading    == [sample : Nat, by : [Origins -> Seq(Nat)]]
ReadingBufs   == Seq(AnyReading)

\* The items follow each other: each covers the samples from one mark to the next,
\* as covers says of an item and two marks.
Row(items, covers, from, to) ==
    \E mark \in [0..Len(items) -> from..to] :
      /\ mark[0] = from /\ mark[Len(items)] = to
      /\ \A i, j \in 0..Len(items) : i <= j => mark[i] <= mark[j]
      /\ \A i \in 1..Len(items) : <<items[i], mark[i - 1], mark[i]>> \in covers

Measured(a, b) == {k \in (a + 1)..b : taken[k] = "measure"}
UsableIn(a, b) == {k \in Measured(a, b) : CalibratedAt(k)}

\* The last samples of origin o up to k, as many as there are and fit the window.
WindowAt(win, o, k) ==
    /\ win \in Seq(Nat) /\ Len(win) <= Window /\ Increasing(win)
    /\ ToSet(win) \subseteq {j \in 1..k : taken[j] = o}
    /\ \A j \in 1..k : taken[j] = o /\ j \notin ToSet(win) =>
         Len(win) = Window /\ \A l \in ToSet(win) : j < l

IsBuffer(buf, a, b)  == buf = [i \in 1..BufferSize |-> a + i] /\ b = a + BufferSize
IsRaw(buf, a, b)     == ~Contains(buf, Hole) => IsBuffer(buf, a, b)
IsChunk(chunk, a, b) ==
    /\ Increasing(chunk.samples) /\ ToSet(chunk.samples) = Measured(a, b)
    /\ \A k \in ToSet(chunk.samples), o \in Origins : WindowAt(chunk.snapshot[o], o, k)
Right(r) == \A o \in Origins : WindowAt(r.by[o], o, r.sample) /\ Len(r.by[o]) = Window
SamplesOf(buf) == [i \in DOMAIN buf |-> buf[i].sample]
IsReadings(buf, a, b) ==
    /\ Increasing(SamplesOf(buf))
    /\ ToSet(SamplesOf(buf)) = UsableIn(a, b)
    /\ \A r \in ToSet(buf) : Right(r)

Covering(Items) == {g \in Items \X Nat \X Nat : g[2] <= g[3] /\ g[3] <= Len(taken)}
RawCover     == {g \in Covering(SampleBuffers) : IsRaw(g[1], g[2], g[3])}
PacketCover  == {g \in Covering(SampleBuffers) : IsBuffer(g[1], g[2], g[3])}
ChunkCover   == {g \in Covering(Chunks) : IsChunk(g[1], g[2], g[3])}
ReadingCover == {g \in Covering(ReadingBufs) : IsReadings(g[1], g[2], g[3])}

IsShaped(str) ==
    str = [s \in Streams |-> [items |-> str[s].items, closed |-> str[s].closed]]
QueueTypes ==
    /\ IsShaped(stream) /\ taken \in Seq(Types)
    /\ stream["raw"].items \in Seq(SampleBuffers)
    /\ stream["packets"].items \in Seq(SampleBuffers)
    /\ stream["chunks"].items \in Seq(Chunks)
    /\ stream["readings"].items \in Seq(ReadingBufs)
    /\ windows \in [Origins -> Seq(Nat)] /\ stored \in Seq(Nat)
    /\ start \in Nat /\ gathered \in ReadingBufs

\* What the chunker has when it has seen the samples up to c and cut those up to h.
Chunking(windows_, stored_, h, c) ==
    /\ \A o \in Origins : WindowAt(windows_[o], o, c)
    /\ Increasing(stored_) /\ ToSet(stored_) = Measured(h, c)
    /\ \A s \in ToSet(stored_) : \A j \in s..c : taken[j] \notin Origins

\* What the aggregator has when it has seen the readings up to g.
Summing(start_, gathered_, g) ==
    /\ start_ = 0 => UsableIn(0, g) = {}
    /\ start_ # 0 => start_ \in UsableIn(0, g) /\ \A k \in UsableIn(0, g) : start_ <= k
    /\ Increasing(SamplesOf(gathered_))
    /\ ToSet(SamplesOf(gathered_)) = {k \in UsableIn(0, g) : k - start_ >= Settle}
    /\ \A r \in ToSet(gathered_) : Right(r)

\* The aggregator has seen the samples up to g; those up to r wait for it, those
\* up to h for the applier; the chunker has seen those up to c, and those up to p
\* wait for it.
Flow(g, r, h, c, p) ==
    /\ g \in 0..r /\ r \in 0..h /\ h \in 0..c /\ c \in 0..p /\ p \in 0..Len(taken)
    /\ Summing(start, gathered, g)
    /\ Row(stream["readings"].items, ReadingCover, g, r)
    /\ Row(stream["chunks"].items, ChunkCover, r, h)
    /\ Chunking(windows, stored, h, c)
    /\ Row(stream["packets"].items, PacketCover, c, p)
    /\ Row(stream["raw"].items, RawCover, p, Len(taken))
Flows == \E g, r, h, c, p \in 0..Len(taken) : Flow(g, r, h, c, p)

------------------------------------------------------------------------------
(* Numbers and sequences of them *)

\* A set of numbers that has a member has a least one.
LEMMA LeastOf ==
    ASSUME NEW T \in SUBSET Nat, T # {}
    PROVE  \E m \in T : \A n \in T : m <= n
<1> DEFINE R == {ss \in Nat \X Nat : ss[1] < ss[2]}
<1>1. IsWellFoundedOn(R, Nat)
  BY NatLessThanWellFounded DEF OpToRel
<1>2. \A a, b \in Nat : <<a, b>> \in R <=> a < b
  OBVIOUS
<1> HIDE DEF R
<1>3. PICK m \in T : \A n \in T : ~(<<n, m>> \in R)
  BY <1>1, WFMin
<1>4. \A n \in T : m <= n
  <2> SUFFICES ASSUME NEW n \in T PROVE m <= n
    OBVIOUS
  <2>1. n \in Nat /\ m \in Nat /\ ~(n < m)
    BY <1>2, <1>3
  <2> QED
    BY <2>1
<1> QED
  BY <1>4

\* Induction up to n: a set that has 0, and the next after each of its own.
LEMMA UpTo ==
    ASSUME NEW n \in Nat, NEW T, 0 \in T, \A i \in 1..n : i - 1 \in T => i \in T
    PROVE  0..n \subseteq T
<1> SUFFICES ASSUME (0..n) \ T # {} PROVE FALSE
  OBVIOUS
<1>1. (0..n) \ T \in SUBSET Nat
  OBVIOUS
<1>2. PICK m \in (0..n) \ T : \A k \in (0..n) \ T : m <= k
  BY <1>1, LeastOf
<1>3. m \in 1..n
  BY <1>2
<1>4. m - 1 \in T
  <2>1. m - 1 \in 0..n /\ ~(m <= m - 1)
    BY <1>3
  <2> QED
    BY <1>2, <2>1
<1> QED
  BY <1>2, <1>3, <1>4

\* What is defined step by step exists.
Follows(f, V, a, n, next) ==
    f \in [0..n -> V] /\ f[0] = a /\ \A i \in 1..n : f[i] = next[<<i, f[i - 1]>>]
NextIn(next, V, n) == next \in [(1..n) \X V -> V]
LEMMA StepByStep ==
    ASSUME NEW V, NEW a \in V, NEW n \in Nat, NEW next, NextIn(next, V, n)
    PROVE  \E f : Follows(f, V, a, n, next)
<1> USE DEF NextIn, Follows
<1> DEFINE Steps(f, m) == f[0] = a /\ \A i \in 1..m : f[i] = next[<<i, f[i - 1]>>]
           T == {m \in 0..n : \E f \in [0..n -> V] : Steps(f, m)}
<1>1. 0 \in T
  <2> DEFINE g == [i \in 0..n |-> a]
  <2>1. g \in [0..n -> V] /\ g[0] = a /\ 0 \in 0..n
    OBVIOUS
  <2>2. Steps(g, 0)
    BY <2>1
  <2> HIDE DEF g, Steps
  <2> QED
    BY <2>1, <2>2
<1>2. ASSUME NEW m \in 1..n, m - 1 \in T PROVE m \in T
  <2>1. PICK f \in [0..n -> V] : Steps(f, m - 1)
    BY <1>2
  <2> DEFINE g == [f EXCEPT ![m] = next[<<m, f[m - 1]>>]]
  <2>2. m - 1 \in 0..n /\ m \in 0..n /\ f[m - 1] \in V
    OBVIOUS
  <2>3. next[<<m, f[m - 1]>>] \in V
    BY <2>2
  <2>4. g \in [0..n -> V] /\ g[m] = next[<<m, f[m - 1]>>]
        /\ \A i \in 0..n : i # m => g[i] = f[i]
    BY <2>2, <2>3
  <2> HIDE DEF g
  <2>5. g[0] = a
    BY <2>1, <2>4
  <2>6. ASSUME NEW i \in 1..m PROVE g[i] = next[<<i, g[i - 1]>>]
    <3>1. i \in 0..n /\ i - 1 \in 0..n /\ i - 1 # m
      OBVIOUS
    <3>2. CASE i = m
      BY <2>4, <3>1, <3>2
    <3>3. CASE i # m
      <4>1. i \in 1..(m - 1)
        BY <3>3
      <4> QED
        BY <2>1, <2>4, <3>1, <3>3, <4>1
    <3> QED
      BY <3>2, <3>3
  <2>7. Steps(g, m)
    BY <2>5, <2>6
  <2> QED
    BY <2>2, <2>4, <2>7
<1> HIDE DEF T
<1>3. n \in T
  BY <1>1, <1>2, UpTo
<1> QED
  BY <1>3 DEF T

LEMMA SeqFacts ==
    ASSUME NEW S, NEW seq \in Seq(S)
    PROVE  /\ Len(seq) \in Nat /\ DOMAIN seq = 1..Len(seq)
           /\ \A i \in 1..Len(seq) : seq[i] \in S
           /\ ToSet(seq) \subseteq S
           /\ seq = <<>> <=> Len(seq) = 0
           /\ seq = <<>> <=> ToSet(seq) = {}
<1>1. Len(seq) \in Nat /\ DOMAIN seq = 1..Len(seq)
      /\ \A i \in 1..Len(seq) : seq[i] \in S
  BY LenProperties, ElementOfSeq
<1>2. seq = <<>> <=> Len(seq) = 0
  BY EmptySeq
<1>3. ToSet(seq) \subseteq S
  BY <1>1 DEF ToSet
<1>4. Len(seq) = 0 <=> ToSet(seq) = {}
  <2>1. Len(seq) = 0 => DOMAIN seq = {}
    BY <1>1
  <2>2. Len(seq) # 0 => 1 \in DOMAIN seq
    BY <1>1
  <2> QED
    BY <2>1, <2>2 DEF ToSet
<1> QED
  BY <1>1, <1>2, <1>3, <1>4

LEMMA SetOfAppend ==
    ASSUME NEW S, NEW seq \in Seq(S), NEW s \in S
    PROVE  /\ Append(seq, s) \in Seq(S) /\ Len(Append(seq, s)) = Len(seq) + 1
           /\ ToSet(Append(seq, s)) = ToSet(seq) \cup {s}
<1> DEFINE more == Append(seq, s)
<1>1. /\ more \in Seq(S) /\ Len(more) = Len(seq) + 1 /\ more[Len(seq) + 1] = s
      /\ \A i \in 1..Len(seq) : more[i] = seq[i]
      /\ Len(seq) \in Nat /\ DOMAIN seq = 1..Len(seq) /\ DOMAIN more = 1..Len(more)
  BY AppendProperties, SeqFacts
<1> HIDE DEF more
<1>2. ASSUME NEW x \in ToSet(more) PROVE x \in ToSet(seq) \cup {s}
  <2>1. PICK i \in DOMAIN more : more[i] = x
    BY <1>2 DEF ToSet
  <2>2. i \in 1..Len(seq) \/ i = Len(seq) + 1
    BY <1>1
  <2> QED
    BY <1>1, <2>1, <2>2 DEF ToSet
<1>3. ASSUME NEW x \in ToSet(seq) PROVE x \in ToSet(more)
  <2>1. PICK i \in DOMAIN seq : seq[i] = x
    BY <1>3 DEF ToSet
  <2>2. i \in DOMAIN more
    BY <1>1
  <2> QED
    BY <1>1, <2>1, <2>2 DEF ToSet
<1>4. s \in ToSet(more)
  <2>1. Len(seq) + 1 \in DOMAIN more
    BY <1>1
  <2> QED
    BY <1>1, <2>1 DEF ToSet
<1> QED
  BY <1>1, <1>2, <1>3, <1>4 DEF more

LEMMA IncreasingAppend ==
    ASSUME NEW seq \in Seq(Nat), Increasing(seq), NEW k \in Nat,
           \A j \in ToSet(seq) : j < k
    PROVE  Increasing(Append(seq, k))
<1> DEFINE more == Append(seq, k)
<1>1. /\ Len(more) = Len(seq) + 1 /\ more[Len(seq) + 1] = k
      /\ \A i \in 1..Len(seq) : more[i] = seq[i] /\ seq[i] < k
      /\ Len(seq) \in Nat /\ DOMAIN seq = 1..Len(seq) /\ DOMAIN more = 1..Len(more)
  BY AppendProperties, SeqFacts, LenProperties DEF ToSet
<1> HIDE DEF more
<1>2. Increasing(more)
  BY <1>1 DEF Increasing
<1> QED
  BY <1>2 DEF more

LEMMA EmptyIs == ToSet(<<>>) = {} /\ Increasing(<<>>) /\ DOMAIN <<>> = {} /\ Len(<<>>) = 0
BY DEF ToSet, Increasing

------------------------------------------------------------------------------
(* Queues *)

LEMMA RowEmpty == \A covers : \A from \in Nat : Row(<<>>, covers, from, from)
<1> SUFFICES ASSUME NEW covers, NEW from \in Nat PROVE Row(<<>>, covers, from, from)
  OBVIOUS
<1> DEFINE mark == [i \in 0..0 |-> from]
<1>1. Len(<<>>) = 0 /\ 1..0 = {} /\ \A i \in 0..0 : i = 0
  OBVIOUS
<1>2. mark \in [0..0 -> from..from] /\ \A i \in 0..0 : mark[i] = from
  OBVIOUS
<1> HIDE DEF mark
<1> QED
  BY <1>1, <1>2 DEF Row

\* An item more at the end.
LEMMA RowAppend ==
    ASSUME NEW X, NEW items \in Seq(X), NEW x \in X, NEW covers, NEW from \in Nat, NEW to \in Nat,
           NEW new \in Nat, from <= to, to <= new, Row(items, covers, from, to),
           <<x, to, new>> \in covers
    PROVE  Row(Append(items, x), covers, from, new)
<1> DEFINE n == Len(items)
           more == Append(items, x)
<1>1. /\ n \in Nat /\ Len(more) = n + 1 /\ more[n + 1] = x
      /\ \A i \in 1..n : more[i] = items[i]
  BY AppendProperties, LenProperties
<1>2. PICK mark \in [0..n -> from..to] :
        /\ mark[0] = from /\ mark[n] = to
        /\ \A i, j \in 0..n : i <= j => mark[i] <= mark[j]
        /\ \A i \in 1..n : <<items[i], mark[i - 1], mark[i]>> \in covers
  BY DEF Row
<1> HIDE DEF n, more
<1> DEFINE mark2 == [i \in 0..(n + 1) |-> IF i = n + 1 THEN new ELSE mark[i]]
<1>3. /\ \A i \in 0..n : mark2[i] = mark[i] /\ mark[i] \in from..to
      /\ mark2[n + 1] = new /\ n + 1 \in 0..(n + 1)
  BY <1>1
<1>4. \A i \in 0..(n + 1) : i \in 0..n \/ i = n + 1
  BY <1>1
<1>5. mark2 \in [0..(n + 1) -> from..new]
  BY <1>3, <1>4
<1> HIDE DEF mark2
<1>6. mark2[0] = from
  BY <1>1, <1>2, <1>3
<1>7. \A i, j \in 0..(n + 1) : i <= j => mark2[i] <= mark2[j]
  <2> SUFFICES ASSUME NEW i \in 0..(n + 1), NEW j \in 0..(n + 1), i <= j
               PROVE  mark2[i] <= mark2[j]
    OBVIOUS
  <2>1. CASE i \in 0..n /\ j \in 0..n
    BY <1>2, <1>3, <2>1
  <2>2. CASE i \in 0..n /\ j = n + 1
    BY <1>3, <2>2
  <2>3. CASE i = n + 1
    <3>1. j = n + 1
      BY <1>1, <2>3
    <3> QED
      BY <1>3, <2>3, <3>1
  <2> QED
    BY <1>4, <2>1, <2>2, <2>3
<1>8. \A i \in 1..(n + 1) : <<more[i], mark2[i - 1], mark2[i]>> \in covers
  <2> TAKE i \in 1..(n + 1)
  <2>1. CASE i \in 1..n
    <3>1. i \in 0..n /\ i - 1 \in 0..n
      BY <1>1, <2>1
    <3> QED
      BY <1>1, <1>2, <1>3, <2>1, <3>1
  <2>2. CASE i = n + 1
    <3>1. i - 1 = n /\ n \in 0..n
      BY <1>1, <2>2
    <3> QED
      BY <1>1, <1>2, <1>3, <2>2, <3>1
  <2> QED
    BY <1>1, <2>1, <2>2
<1>9. Row(more, covers, from, new)
  BY <1>1, <1>3, <1>5, <1>6, <1>7, <1>8 DEF Row
<1> QED
  BY <1>9 DEF more

\* The first item, and what is left when it is taken out.
LEMMA RowTail ==
    ASSUME NEW X, NEW items \in Seq(X), NEW covers, NEW from \in Nat, NEW to \in Nat,
           Row(items, covers, from, to), items # <<>>
    PROVE  \E mid \in from..to :
             <<Head(items), from, mid>> \in covers /\ Row(Tail(items), covers, mid, to)
<1> DEFINE n == Len(items)
           rest == Tail(items)
<1>1. /\ n \in Nat \ {0} /\ Len(rest) = n - 1 /\ Head(items) = items[1]
      /\ \A i \in 1..(n - 1) : rest[i] = items[i + 1]
  BY EmptySeq, HeadTailProperties
<1>2. PICK mark \in [0..n -> from..to] :
        /\ mark[0] = from /\ mark[n] = to
        /\ \A i, j \in 0..n : i <= j => mark[i] <= mark[j]
        /\ \A i \in 1..n : <<items[i], mark[i - 1], mark[i]>> \in covers
  BY DEF Row
<1> HIDE DEF n, rest
<1> DEFINE mid == mark[1]
           mark2 == [i \in 0..(n - 1) |-> mark[i + 1]]
<1>3. mid \in from..to /\ <<Head(items), from, mid>> \in covers
  <2>1. 1 \in 0..n /\ 1 \in 1..n /\ 1 - 1 = 0
    BY <1>1
  <2> QED
    BY <1>1, <1>2, <2>1
<1>4. \A i \in 0..(n - 1) : i + 1 \in 0..n /\ i + 1 \in 1..n /\ 1 <= i + 1
                            /\ mark2[i] = mark[i + 1]
  BY <1>1
<1>5. mark2 \in [0..(n - 1) -> mid..to]
  <2>1. \A i \in 0..(n - 1) : mark[i + 1] \in mid..to
    <3> TAKE i \in 0..(n - 1)
    <3>1. i + 1 \in 0..n /\ 1 \in 0..n /\ 1 <= i + 1
      BY <1>1
    <3>2. mark[1] <= mark[i + 1] /\ mark[i + 1] \in from..to /\ mark[1] \in from..to
      BY <1>2, <3>1
    <3> QED
      BY <3>2
  <2> QED
    BY <2>1
<1>6. mark2[0] = mid /\ mark2[n - 1] = to
  BY <1>1, <1>2
<1>7. \A i, j \in 0..(n - 1) : i <= j => mark2[i] <= mark2[j]
  BY <1>2, <1>4
<1>8. \A i \in 1..(n - 1) : <<rest[i], mark2[i - 1], mark2[i]>> \in covers
  <2> TAKE i \in 1..(n - 1)
  <2>1. i + 1 \in 1..n /\ i - 1 \in 0..(n - 1) /\ i \in 0..(n - 1)
        /\ (i - 1) + 1 = i /\ (i + 1) - 1 = i
    BY <1>1
  <2> HIDE DEF mark2
  <2>2. mark2[i - 1] = mark[i] /\ mark2[i] = mark[i + 1] /\ rest[i] = items[i + 1]
    BY <1>1, <1>4, <2>1
  <2>3. <<items[i + 1], mark[i], mark[i + 1]>> \in covers
    BY <1>2, <2>1
  <2> QED
    BY <2>2, <2>3
<1> HIDE DEF mark2, mid
<1>9. Row(rest, covers, mid, to)
  BY <1>1, <1>5, <1>6, <1>7, <1>8 DEF Row
<1> QED
  BY <1>3, <1>9 DEF rest

LEMMA RowGrows ==
    ASSUME NEW items, NEW covers, NEW wider, NEW from, NEW to, covers \subseteq wider,
           Row(items, covers, from, to)
    PROVE  Row(items, wider, from, to)
BY DEF Row

LEMMA RowOfNone ==
    ASSUME NEW covers, NEW from, NEW to, Row(<<>>, covers, from, to)
    PROVE  from = to
BY DEF Row

\* Two rows, one after the other.
LEMMA RowConcat ==
    ASSUME NEW X, NEW items \in Seq(X), NEW others \in Seq(X), NEW covers,
           NEW from \in Nat, NEW to \in Nat, NEW new \in Nat, from <= to, to <= new,
           Row(items, covers, from, to), Row(others, covers, to, new)
    PROVE  Row(items \o others, covers, from, new)
<1> DEFINE n == Len(items)
           m == Len(others)
           both == items \o others
<1>1. /\ n \in Nat /\ m \in Nat /\ Len(both) = n + m
      /\ \A i \in 1..n : both[i] = items[i]
      /\ \A i \in (n + 1)..(n + m) : both[i] = others[i - n]
  BY ConcatProperties, LenProperties
<1>2. PICK a \in [0..n -> from..to] :
        /\ a[0] = from /\ a[n] = to
        /\ \A i, j \in 0..n : i <= j => a[i] <= a[j]
        /\ \A i \in 1..n : <<items[i], a[i - 1], a[i]>> \in covers
  BY DEF Row
<1>3. PICK b \in [0..m -> to..new] :
        /\ b[0] = to /\ b[m] = new
        /\ \A i, j \in 0..m : i <= j => b[i] <= b[j]
        /\ \A i \in 1..m : <<others[i], b[i - 1], b[i]>> \in covers
  BY DEF Row
<1> HIDE DEF n, m, both
<1> DEFINE c == [i \in 0..(n + m) |-> IF i <= n THEN a[i] ELSE b[i - n]]
<1>4. \A i \in 0..(n + m) : i \in 0..n \/ (i \in n..(n + m) /\ i > n /\ i - n \in 0..m)
  BY <1>1
<1>5. \A i \in 0..n : i \in 0..(n + m) /\ c[i] = a[i] /\ a[i] \in from..to
  BY <1>1
<1>6. \A i \in n..(n + m) : i \in 0..(n + m) /\ i - n \in 0..m /\ b[i - n] \in to..new
                            /\ c[i] = b[i - n]
  <2> TAKE i \in n..(n + m)
  <2>1. i \in 0..(n + m) /\ i - n \in 0..m
    BY <1>1
  <2>2. CASE i = n
    <3>1. i - n = 0 /\ i <= n /\ i \in 0..n
      BY <1>1, <2>2
    <3> QED
      BY <1>2, <1>3, <2>1, <2>2, <3>1
  <2>3. CASE i # n
    <3>1. ~(i <= n)
      BY <1>1, <2>3
    <3> QED
      BY <2>1, <3>1
  <2> QED
    BY <2>2, <2>3
<1>7. c \in [0..(n + m) -> from..new]
  BY <1>4, <1>5, <1>6
<1> HIDE DEF c
<1>8. c[0] = from /\ c[n + m] = new
  <2>1. 0 \in 0..n /\ n + m \in n..(n + m) /\ (n + m) - n = m
    BY <1>1
  <2> QED
    BY <1>2, <1>3, <1>5, <1>6, <2>1
<1>9. \A i, j \in 0..(n + m) : i <= j => c[i] <= c[j]
  <2> SUFFICES ASSUME NEW i \in 0..(n + m), NEW j \in 0..(n + m), i <= j
               PROVE  c[i] <= c[j]
    OBVIOUS
  <2>1. CASE i \in 0..n /\ j \in 0..n
    BY <1>2, <1>5, <2>1
  <2>2. CASE i \in 0..n /\ j \in n..(n + m)
    <3>1. c[i] \in from..to /\ c[j] \in to..new
      BY <1>5, <1>6, <2>2
    <3> QED
      BY <3>1
  <2>3. CASE i \in n..(n + m) /\ j \in n..(n + m)
    <3>1. i - n \in 0..m /\ j - n \in 0..m /\ i - n <= j - n
      BY <1>1, <1>6, <2>3
    <3> QED
      BY <1>3, <1>6, <2>3, <3>1
  <2>4. CASE i \in n..(n + m) /\ i > n /\ j \in 0..n
    BY <1>1, <2>4
  <2> QED
    BY <1>4, <2>1, <2>2, <2>3, <2>4
<1>10. \A i \in 1..(n + m) : <<both[i], c[i - 1], c[i]>> \in covers
  <2> TAKE i \in 1..(n + m)
  <2>1. CASE i \in 1..n
    <3>1. i \in 0..n /\ i - 1 \in 0..n
      BY <1>1, <2>1
    <3> QED
      BY <1>1, <1>2, <1>5, <2>1, <3>1
  <2>2. CASE i \in (n + 1)..(n + m)
    <3>1. i \in n..(n + m) /\ i - 1 \in n..(n + m) /\ i - n \in 1..m
          /\ (i - 1) - n = (i - n) - 1
      BY <1>1, <2>2
    <3>2. both[i] = others[i - n] /\ c[i - 1] = b[(i - n) - 1] /\ c[i] = b[i - n]
      BY <1>1, <1>6, <2>2, <3>1
    <3>3. <<others[i - n], b[(i - n) - 1], b[i - n]>> \in covers
      BY <1>3, <3>1
    <3> QED
      BY <3>2, <3>3
  <2> QED
    BY <1>1, <2>1, <2>2
<1>11. Row(both, covers, from, new)
  BY <1>1, <1>7, <1>8, <1>9, <1>10 DEF Row
<1> QED
  BY <1>11 DEF both

------------------------------------------------------------------------------
(* Windows *)

Seen(o, k) == {j \in 1..k : taken[j] = o}

LEMMA WindowLater ==
    ASSUME NEW win, NEW o, NEW a \in Nat, NEW b \in Nat, a <= b,
           \A j \in (a + 1)..b : taken[j] # o
    PROVE  Seen(o, a) = Seen(o, b) /\ (WindowAt(win, o, a) <=> WindowAt(win, o, b))
<1>1. \A j \in 1..b : j \in 1..a \/ j \in (a + 1)..b
  OBVIOUS
<1>2. \A j \in 1..a : j \in 1..b
  OBVIOUS
<1>3. Seen(o, a) = Seen(o, b)
  BY <1>1, <1>2 DEF Seen
<1>4. \A j : (j \in 1..a /\ taken[j] = o) <=> (j \in 1..b /\ taken[j] = o)
  BY <1>1, <1>2
<1> QED
  BY <1>3, <1>4 DEF WindowAt

LEMMA TailOfIncreasing ==
    ASSUME NEW seq \in Seq(Nat), Increasing(seq), seq # <<>>
    PROVE  /\ Tail(seq) \in Seq(Nat) /\ Increasing(Tail(seq)) /\ Len(Tail(seq)) = Len(seq) - 1
           /\ seq[1] \in ToSet(seq) /\ ToSet(Tail(seq)) = ToSet(seq) \ {seq[1]}
           /\ \A l \in ToSet(Tail(seq)) : seq[1] < l
<1> DEFINE rest == Tail(seq)
           n == Len(seq)
<1>1. /\ n \in Nat \ {0} /\ DOMAIN seq = 1..n /\ rest \in Seq(Nat) /\ Len(rest) = n - 1
      /\ \A i \in 1..n : seq[i] \in Nat
      /\ \A i \in 1..(n - 1) : rest[i] = seq[i + 1]
  BY SeqFacts, HeadTailProperties
<1>2. DOMAIN rest = 1..(n - 1)
  BY <1>1, SeqFacts
<1> HIDE DEF rest, n
<1>3. \A i \in 1..(n - 1) : i + 1 \in 1..n /\ 1 < i + 1
  BY <1>1
<1>4. Increasing(rest)
  <2> SUFFICES ASSUME NEW i \in 1..(n - 1), NEW j \in 1..(n - 1), i < j PROVE rest[i] < rest[j]
    BY <1>2 DEF Increasing
  <2>1. i + 1 \in 1..n /\ j + 1 \in 1..n /\ i + 1 < j + 1
    BY <1>1
  <2> QED
    BY <1>1, <2>1 DEF Increasing
<1>5. 1 \in DOMAIN seq
  BY <1>1
<1>6. \A l \in ToSet(rest) : l \in ToSet(seq) /\ seq[1] < l
  <2> SUFFICES ASSUME NEW i \in 1..(n - 1) PROVE rest[i] \in ToSet(seq) /\ seq[1] < rest[i]
    BY <1>2 DEF ToSet
  <2>1. rest[i] = seq[i + 1] /\ i + 1 \in DOMAIN seq /\ 1 < i + 1
    BY <1>1, <1>3
  <2> QED
    BY <1>5, <2>1 DEF Increasing, ToSet
<1>7. ASSUME NEW l \in ToSet(seq), l # seq[1] PROVE l \in ToSet(rest)
  <2>1. PICK i \in DOMAIN seq : seq[i] = l
    BY DEF ToSet
  <2>2. i # 1
    BY <1>7, <2>1
  <2>3. i - 1 \in DOMAIN rest /\ (i - 1) + 1 = i /\ i - 1 \in 1..(n - 1)
    BY <1>1, <1>2, <2>1, <2>2
  <2>4. rest[i - 1] = l
    BY <1>1, <2>1, <2>3
  <2> QED
    BY <2>3, <2>4 DEF ToSet
<1>8. \A l \in ToSet(rest) : l # seq[1]
  <2>1. seq[1] \in Nat
    BY <1>1
  <2> QED
    BY <1>6, <2>1
<1>9. seq[1] \in ToSet(seq)
  BY <1>5 DEF ToSet
<1> QED
  BY <1>1, <1>4, <1>6, <1>7, <1>8, <1>9 DEF rest, n

LEMMA WindowAdd ==
    ASSUME NEW win, NEW o, NEW k \in Nat \ {0}, WindowAt(win, o, k - 1), taken[k] = o
    PROVE  WindowAt(Add(win, k), o, k)
<1> DEFINE new == Add(win, k)
<1>0. Window \in Nat \ {0} /\ win \in Seq(Nat) /\ Increasing(win) /\ Len(win) <= Window
      /\ \A j \in 1..(k - 1) : j < k /\ j \in 1..k /\ j \in Nat
  BY SizesAssumption DEF WindowAt
<1>1. \A j \in ToSet(win) : j \in 1..(k - 1) /\ taken[j] = o
  BY DEF WindowAt
<1>2. \A j \in 1..k : j \in 1..(k - 1) \/ j = k
  OBVIOUS
<1>3. CASE Len(win) # Window
  <2>1. new = Append(win, k)
    BY <1>3 DEF Add
  <2>2. /\ new \in Seq(Nat) /\ Len(new) = Len(win) + 1 /\ ToSet(new) = ToSet(win) \cup {k}
        /\ Len(win) \in Nat
    BY <1>0, <2>1, SetOfAppend, SeqFacts
  <2>3. Increasing(new)
    BY <1>0, <1>1, <2>1, IncreasingAppend
  <2> HIDE DEF new
  <2>4. \A j \in 1..k : taken[j] = o => j \in ToSet(new)
    BY <1>2, <1>3, <2>2 DEF WindowAt
  <2>5. ToSet(new) \subseteq {j \in 1..k : taken[j] = o}
    BY <1>0, <1>1, <2>2
  <2>6. Len(new) <= Window
    BY <1>0, <1>3, <2>2
  <2>7. WindowAt(new, o, k)
    BY <2>2, <2>3, <2>4, <2>5, <2>6 DEF WindowAt
  <2> QED
    BY <2>7 DEF new
<1>4. CASE Len(win) = Window
  <2> DEFINE rest == Tail(win)
  <2>1. new = Append(rest, k)
    BY <1>4 DEF Add
  <2>2. win # <<>>
    BY <1>0, <1>4, SeqFacts
  <2>3. /\ rest \in Seq(Nat) /\ Increasing(rest) /\ Len(rest) = Len(win) - 1
        /\ win[1] \in ToSet(win) /\ ToSet(rest) = ToSet(win) \ {win[1]}
        /\ \A l \in ToSet(rest) : win[1] < l
    BY <1>0, <2>2, TailOfIncreasing
  <2> HIDE DEF rest
  <2>4. /\ new \in Seq(Nat) /\ Len(new) = Len(rest) + 1 /\ ToSet(new) = ToSet(rest) \cup {k}
    BY <2>1, <2>3, SetOfAppend
  <2>5. Increasing(new)
    <3>1. \A j \in ToSet(rest) : j < k
      BY <1>0, <1>1, <2>3
    <3> QED
      BY <2>1, <2>3, <3>1, IncreasingAppend
  <2>6. Len(new) = Window
    BY <1>0, <1>4, <2>3, <2>4
  <2> HIDE DEF new
  <2>7. ToSet(new) \subseteq {j \in 1..k : taken[j] = o}
    BY <1>0, <1>1, <2>3, <2>4
  <2>8. ASSUME NEW j \in 1..k, taken[j] = o, j \notin ToSet(new), NEW l \in ToSet(new)
        PROVE  j < l
    <3>1. j \in 1..(k - 1) /\ j < k
      BY <1>0, <1>2, <2>4, <2>8
    <3>2. CASE l = k
      BY <3>1, <3>2
    <3>3. CASE l \in ToSet(rest) /\ j = win[1]
      BY <2>3, <3>3
    <3>4. CASE l \in ToSet(rest) /\ j \notin ToSet(win)
      BY <2>3, <2>8, <3>1, <3>4 DEF WindowAt
    <3> QED
      BY <2>3, <2>4, <2>8, <3>2, <3>3, <3>4
  <2>9. WindowAt(new, o, k)
    BY <1>0, <2>4, <2>5, <2>6, <2>7, <2>8 DEF WindowAt
  <2> QED
    BY <2>9 DEF new
<1> QED
  BY <1>3, <1>4

LEMMA SetOfIncreasing ==
    ASSUME NEW seq \in Seq(Nat), Increasing(seq)
    PROVE  IsFiniteSet(ToSet(seq)) /\ Cardinality(ToSet(seq)) = Len(seq)
<1> DEFINE n == Len(seq)
<1>1. n \in Nat /\ DOMAIN seq = 1..n /\ \A i \in 1..n : seq[i] \in Nat
  BY SeqFacts
<1>2. ToSet(seq) = {seq[i] : i \in 1..n}
  BY <1>1 DEF ToSet
<1>3. seq \in [1..n -> ToSet(seq)]
  BY <1>2, LenProperties
<1>4. \A i, j \in 1..n : seq[i] = seq[j] => i = j
  <2> SUFFICES ASSUME NEW i \in 1..n, NEW j \in 1..n, seq[i] = seq[j], i # j PROVE FALSE
    OBVIOUS
  <2>1. i < j \/ j < i
    BY <1>1
  <2>2. seq[i] < seq[j] \/ seq[j] < seq[i]
    BY <1>1, <2>1 DEF Increasing
  <2> QED
    BY <1>1, <2>2
<1>5. seq \in Bijection(1..n, ToSet(seq))
  BY <1>2, <1>3, <1>4 DEF Bijection, Injection, Surjection, IsInjective
<1>6. IsFiniteSet(1..n) /\ Cardinality(1..n) = n
  <2>1. 1 \in Int /\ n \in Int
    BY <1>1
  <2> QED
    BY <1>1, <2>1, FS_Interval
<1>7. ExistsBijection(1..n, ToSet(seq))
  BY <1>5 DEF ExistsBijection
<1> HIDE DEF n
<1> QED
  BY <1>6, <1>7, FS_Bijection DEF n

\* The window is full if there have been as many samples as fit.
LEMMA WindowFull ==
    ASSUME NEW win, NEW o, NEW k \in Nat, WindowAt(win, o, k)
    PROVE  Len(win) = Window <=> Cardinality(Seen(o, k)) >= Window
<1>1. /\ win \in Seq(Nat) /\ Increasing(win) /\ Len(win) <= Window /\ Window \in Nat
      /\ ToSet(win) \subseteq Seen(o, k)
      /\ \A j \in Seen(o, k) : j \notin ToSet(win) => Len(win) = Window
  BY SizesAssumption DEF WindowAt, Seen
<1>2. IsFiniteSet(ToSet(win)) /\ Cardinality(ToSet(win)) = Len(win) /\ Len(win) \in Nat
  BY <1>1, SetOfIncreasing, SeqFacts
<1>3. IsFiniteSet(Seen(o, k))
  <2>1. IsFiniteSet(1..k)
    <3>1. 1 \in Int /\ k \in Int
      OBVIOUS
    <3> QED
      BY <3>1, FS_Interval
  <2>2. Seen(o, k) \subseteq 1..k
    BY DEF Seen
  <2> QED
    BY <2>1, <2>2, FS_Subset
<1>4. Cardinality(ToSet(win)) <= Cardinality(Seen(o, k)) /\ Cardinality(Seen(o, k)) \in Nat
  BY <1>1, <1>3, FS_Subset, FS_CardinalityType
<1>5. Len(win) # Window => Seen(o, k) = ToSet(win)
  BY <1>1
<1> QED
  BY <1>1, <1>2, <1>4, <1>5

\* What a full window of a measurement is, and what a reading promises.
LEMMA CalibratedIs ==
    ASSUME NEW k \in Nat, taken[k] = "measure", NEW snapshot,
           \A o \in Origins : WindowAt(snapshot[o], o, k)
    PROVE  Calibrated(snapshot) <=> CalibratedAt(k)
<1>1. ASSUME NEW o \in Origins PROVE Before(k, o) = Seen(o, k)
  <2>1. o # taken[k]
    BY DEF Origins
  <2>2. \A j \in 1..k : j \in 1..(k - 1) \/ j = k
    OBVIOUS
  <2>3. \A j \in 1..(k - 1) : j \in 1..k
    OBVIOUS
  <2> QED
    BY <2>1, <2>2, <2>3 DEF Before, Seen
<1> QED
  BY <1>1, WindowFull DEF Calibrated, CalibratedAt

LEMMA RightIs ==
    ASSUME NEW r, r.sample \in Nat, taken[r.sample] = "measure", Right(r), NEW o \in Origins
    PROVE  AreTheLast(r.by[o], Before(r.sample, o))
<1>1. o # taken[r.sample]
  BY DEF Origins
<1>2. WindowAt(r.by[o], o, r.sample) /\ Len(r.by[o]) = Window
  BY DEF Right
<1> DEFINE k == r.sample
<1>3. \A j : (j \in 1..k /\ taken[j] = o) <=> (j \in 1..(k - 1) /\ taken[j] = o)
  <2>1. \A j \in 1..k : j \in 1..(k - 1) \/ j = k
    OBVIOUS
  <2>2. \A j \in 1..(k - 1) : j \in 1..k
    OBVIOUS
  <2> QED
    BY <1>1, <2>1, <2>2
<1> QED
  BY <1>2, <1>3 DEF AreTheLast, Before, WindowAt

------------------------------------------------------------------------------
(* The chunker *)

ChunkStates == [stored : Seq(Nat), windows : [Origins -> Seq(Nat)], out : Seq(Chunks)]

LEMMA MeasuredNext ==
    ASSUME NEW a \in Nat, NEW k \in Nat, a < k
    PROVE  /\ taken[k] = "measure" => Measured(a, k) = Measured(a, k - 1) \cup {k}
           /\ taken[k] # "measure" => Measured(a, k) = Measured(a, k - 1)
           /\ Measured(k, k) = {}
<1>1. (a + 1)..k = ((a + 1)..(k - 1)) \cup {k} /\ (k + 1)..k = {}
  OBVIOUS
<1> QED
  BY <1>1 DEF Measured

LEMMA SeesTypes ==
    ASSUME NEW st \in ChunkStates, NEW k \in Nat
    PROVE  /\ Sees(st, k) \in ChunkStates
           /\ taken[k] = "measure" =>
                Sees(st, k) = [st EXCEPT !.stored = Append(st.stored, k)]
           /\ taken[k] \in Origins =>
                /\ Sees(st, k).windows
                     = [st.windows EXCEPT ![taken[k]] = Add(st.windows[taken[k]], k)]
                /\ Sees(st, k).stored = <<>>
                /\ Sees(st, k).out = IF st.stored = <<>> THEN st.out
                                     ELSE Append(st.out, Cut(st))
           /\ taken[k] \notin Origins \cup {"measure"} => Sees(st, k) = st
<1>0. /\ st.stored \in Seq(Nat) /\ st.windows \in [Origins -> Seq(Nat)] /\ st.out \in Seq(Chunks)
      /\ "measure" \notin Origins
      /\ st = [stored |-> st.stored, windows |-> st.windows, out |-> st.out]
  BY DEF ChunkStates, Origins
<1>1. CASE taken[k] = "measure"
  <2>1. Sees(st, k) = [st EXCEPT !.stored = Append(st.stored, k)]
    BY <1>0, <1>1 DEF Sees
  <2>2. Append(st.stored, k) \in Seq(Nat)
    BY <1>0, AppendProperties
  <2>3. Sees(st, k) \in ChunkStates
    BY <2>1, <2>2 DEF ChunkStates
  <2> QED
    BY <1>0, <1>1, <2>1, <2>3
<1>2. CASE taken[k] \in Origins
  <2> DEFINE win == st.windows[taken[k]]
             cut == IF st.stored = <<>> THEN st
                    ELSE [st EXCEPT !.out = Append(st.out, Cut(st)), !.stored = <<>>]
  <2>1. Sees(st, k) = [cut EXCEPT !.windows[taken[k]] = Add(cut.windows[taken[k]], k)]
    BY <1>0, <1>2 DEF Sees
  <2>2. Add(win, k) \in Seq(Nat)
    <3>1. win \in Seq(Nat)
      BY <1>0, <1>2
    <3>2. Append(win, k) \in Seq(Nat)
      BY <3>1, AppendProperties
    <3>3. Len(win) = Window => Append(Tail(win), k) \in Seq(Nat)
      <4> SUFFICES ASSUME Len(win) = Window PROVE Append(Tail(win), k) \in Seq(Nat)
        OBVIOUS
      <4>1. win # <<>>
        BY <3>1, SeqFacts, SizesAssumption
      <4>2. Tail(win) \in Seq(Nat)
        BY <3>1, <4>1, HeadTailProperties
      <4> QED
        BY <4>2, AppendProperties
    <3> QED
      BY <3>2, <3>3 DEF Add
  <2>3. Cut(st) \in Chunks
    BY <1>0 DEF Cut, Chunks
  <2>4. /\ cut.windows = st.windows /\ cut.stored = <<>>
        /\ cut.out = IF st.stored = <<>> THEN st.out ELSE Append(st.out, Cut(st))
        /\ cut = [stored |-> cut.stored, windows |-> cut.windows, out |-> cut.out]
    BY <1>0
  <2>5. cut.out \in Seq(Chunks) /\ <<>> \in Seq(Nat)
    BY <1>0, <2>3, <2>4, AppendProperties, EmptySeq
  <2> HIDE DEF cut
  <2>6. Sees(st, k) = [stored |-> <<>>, out |-> cut.out,
                       windows |-> [st.windows EXCEPT ![taken[k]] = Add(win, k)]]
    BY <2>1, <2>4
  <2>7. [st.windows EXCEPT ![taken[k]] = Add(win, k)] \in [Origins -> Seq(Nat)]
    BY <1>0, <2>2
  <2>8. Sees(st, k) \in ChunkStates
    BY <2>5, <2>6, <2>7 DEF ChunkStates
  <2> QED
    BY <1>0, <1>2, <2>4, <2>6, <2>8
<1>3. CASE taken[k] \notin Origins \cup {"measure"}
  BY <1>3 DEF Sees
<1> QED
  BY <1>1, <1>2, <1>3

LEMMA ChunkedSteps ==
    ASSUME ChunkState \in ChunkStates, NEW buf \in Seq(Nat)
    PROVE  /\ Chunked(buf) \in [0..Len(buf) -> ChunkStates] /\ Chunked(buf)[0] = ChunkState
           /\ \A i \in 1..Len(buf) : Chunked(buf)[i] = Sees(Chunked(buf)[i - 1], buf[i])
<1> DEFINE n == Len(buf)
           next == [p \in (1..n) \X ChunkStates |-> Sees(p[2], buf[p[1]])]
<1>1. n \in Nat /\ \A i \in 1..n : buf[i] \in Nat
  BY SeqFacts
<1>2. next \in [(1..n) \X ChunkStates -> ChunkStates]
  BY <1>1, SeesTypes
<1>3. \A i \in 1..n : \A st \in ChunkStates : next[<<i, st>>] = Sees(st, buf[i])
  OBVIOUS
<1> HIDE DEF n, next
<1>4. PICK f : Follows(f, ChunkStates, ChunkState, n, next)
  <2>1. n \in Nat /\ NextIn(next, ChunkStates, n)
    BY <1>1, <1>2 DEF NextIn
  <2> QED
    BY <2>1, StepByStep
<1>5. \A i \in 1..n : f[i] = Sees(f[i - 1], buf[i])
  <2> TAKE i \in 1..n
  <2>1. i - 1 \in 0..n
    BY <1>1
  <2> QED
    BY <1>3, <1>4, <2>1 DEF Follows
<1>6. f = [i \in 0..n |-> IF i = 0 THEN ChunkState ELSE Sees(f[i - 1], buf[i])]
  BY <1>1, <1>4, <1>5 DEF Follows
<1> DEFINE g == Chunked(buf)
<1>7. g = [i \in 0..n |-> IF i = 0 THEN ChunkState ELSE Sees(g[i - 1], buf[i])]
  BY <1>6 DEF Chunked, n
<1> HIDE DEF g
<1>8. 0..n \subseteq {i \in 0..n : g[i] = f[i]}
  <2> DEFINE T == {i \in 0..n : g[i] = f[i]}
  <2>1. 0 \in T
    BY <1>1, <1>4, <1>7 DEF Follows
  <2>2. ASSUME NEW i \in 1..n, i - 1 \in T PROVE i \in T
    <3>1. g[i] = Sees(g[i - 1], buf[i]) /\ i \in 0..n
      BY <1>1, <1>7
    <3> QED
      BY <1>5, <2>2, <3>1
  <2> HIDE DEF T
  <2>3. 0..n \subseteq T
    BY <1>1, <2>1, <2>2, UpTo
  <2> QED
    BY <2>3 DEF T
<1>9. g = f
  BY <1>4, <1>7, <1>8 DEF Follows
<1> QED
  BY <1>4, <1>5, <1>9 DEF g, n, Follows

\* The chunks that were cut since h0, and what is stored, when k was seen.
Cuts(st, h0, k) ==
    \E h \in h0..k :
      /\ Row(st.out, ChunkCover, h0, h)
      /\ Chunking(st.windows, st.stored, h, k)

\* What is stored makes a chunk: no calibration sample has come since.
LEMMA CutCovers ==
    ASSUME NEW st \in ChunkStates, NEW h \in Nat, NEW k \in Nat, h <= k,
           Chunking(st.windows, st.stored, h, k)
    PROVE  IsChunk(Cut(st), h, k)
<1>1. /\ \A o \in Origins : WindowAt(st.windows[o], o, k)
      /\ Increasing(st.stored) /\ ToSet(st.stored) = Measured(h, k)
      /\ \A s \in ToSet(st.stored) : \A j \in s..k : taken[j] \notin Origins
  BY DEF Chunking
<1>2. ASSUME NEW s \in ToSet(st.stored), NEW o \in Origins
      PROVE  WindowAt(st.windows[o], o, s)
  <2>1. s \in Nat /\ s <= k /\ \A j \in (s + 1)..k : j \in s..k
    BY <1>1 DEF Measured
  <2>2. \A j \in (s + 1)..k : taken[j] # o
    BY <1>1, <2>1
  <2> QED
    BY <1>1, <2>1, <2>2, WindowLater
<1> QED
  BY <1>1, <1>2 DEF IsChunk, Cut

LEMMA CutsNext ==
    ASSUME NEW st \in ChunkStates, NEW h0 \in Nat, NEW k \in 1..Len(taken), Len(taken) \in Nat,
           h0 < k, Cuts(st, h0, k - 1)
    PROVE  Cuts(Sees(st, k), h0, k)
<1>0. /\ k \in Nat \ {0} /\ k - 1 \in Nat
      /\ st.stored \in Seq(Nat) /\ st.windows \in [Origins -> Seq(Nat)] /\ st.out \in Seq(Chunks)
      /\ "measure" \notin Origins
  BY DEF ChunkStates, Origins
<1>1. PICK h \in h0..(k - 1) :
        Row(st.out, ChunkCover, h0, h) /\ Chunking(st.windows, st.stored, h, k - 1)
  BY DEF Cuts
<1>2. h \in Nat /\ h < k /\ h \in h0..k /\ k \in h0..k
  BY <1>1
<1>3. /\ \A o \in Origins : WindowAt(st.windows[o], o, k - 1)
      /\ Increasing(st.stored) /\ ToSet(st.stored) = Measured(h, k - 1)
      /\ \A s \in ToSet(st.stored) : \A j \in s..(k - 1) : taken[j] \notin Origins
  BY <1>1 DEF Chunking
<1>4. \A o : taken[k] # o => \A win : WindowAt(win, o, k - 1) <=> WindowAt(win, o, k)
  <2> SUFFICES ASSUME NEW o, taken[k] # o, NEW win
               PROVE  WindowAt(win, o, k - 1) <=> WindowAt(win, o, k)
    OBVIOUS
  <2>1. \A j \in ((k - 1) + 1)..k : taken[j] # o
    BY <1>0
  <2>2. k \in Nat /\ k - 1 \in Nat /\ k - 1 <= k
    BY <1>0
  <2> QED
    BY <2>1, <2>2, WindowLater
<1>5. \A s \in ToSet(st.stored) : s \in Nat /\ s < k /\ \A j \in s..k : j \in s..(k - 1) \/ j = k
  BY <1>0, <1>2, <1>3 DEF Measured
<1>6. CASE taken[k] = "measure"
  <2> DEFINE new == Append(st.stored, k)
  <2>1. Sees(st, k) = [st EXCEPT !.stored = new]
    BY <1>0, <1>6, SeesTypes
  <2>2. ToSet(new) = ToSet(st.stored) \cup {k} /\ Increasing(new)
    BY <1>0, <1>3, <1>5, SetOfAppend, IncreasingAppend
  <2> HIDE DEF new
  <2>3. Measured(h, k) = Measured(h, k - 1) \cup {k}
    BY <1>0, <1>2, <1>6, MeasuredNext
  <2>4. \A o \in Origins : WindowAt(st.windows[o], o, k)
    BY <1>0, <1>3, <1>4, <1>6
  <2>5. ASSUME NEW s \in ToSet(new), NEW j \in s..k PROVE taken[j] \notin Origins
    <3>1. CASE j = k
      BY <1>0, <1>6, <3>1
    <3>2. CASE j # k
      <4>1. s \in ToSet(st.stored)
        <5>1. s # k
          BY <1>0, <3>2
        <5> QED
          BY <2>2, <5>1
      <4> QED
        BY <1>3, <1>5, <3>2, <4>1
    <3> QED
      BY <3>1, <3>2
  <2>6. Chunking(st.windows, new, h, k)
    BY <1>3, <2>2, <2>3, <2>4, <2>5 DEF Chunking
  <2>7. /\ Sees(st, k).out = st.out /\ Sees(st, k).windows = st.windows
        /\ Sees(st, k).stored = new
    BY <2>1 DEF ChunkStates
  <2> QED
    BY <1>1, <1>2, <2>6, <2>7 DEF Cuts
<1>7. CASE taken[k] \in Origins
  <2> DEFINE new == Sees(st, k)
  <2>1. /\ new.windows = [st.windows EXCEPT ![taken[k]] = Add(st.windows[taken[k]], k)]
        /\ new.stored = <<>>
        /\ new.out = IF st.stored = <<>> THEN st.out ELSE Append(st.out, Cut(st))
    BY <1>0, <1>7, SeesTypes
  <2> HIDE DEF new
  <2>2. ASSUME NEW o \in Origins PROVE WindowAt(new.windows[o], o, k)
    <3>1. CASE o = taken[k]
      <4>1. new.windows[o] = Add(st.windows[o], k)
        BY <1>0, <2>1, <3>1
      <4> QED
        BY <1>0, <1>3, <3>1, <4>1, WindowAdd
    <3>2. CASE o # taken[k]
      <4>1. new.windows[o] = st.windows[o]
        BY <1>0, <2>1, <3>2
      <4> QED
        BY <1>3, <1>4, <3>2, <4>1
    <3> QED
      BY <3>1, <3>2
  <2>3. Measured(k, k) = {} /\ Measured(h, k) = ToSet(st.stored)
    BY <1>0, <1>2, <1>3, <1>7, MeasuredNext
  <2>4. CASE st.stored = <<>>
    <3>1. ToSet(<<>>) = Measured(h, k) /\ Increasing(<<>>) /\ ToSet(<<>>) = {}
      BY <2>3, <2>4, EmptyIs
    <3>2. Chunking(new.windows, new.stored, h, k)
      BY <2>1, <2>2, <3>1 DEF Chunking
    <3> QED
      BY <1>1, <1>2, <2>1, <2>4, <3>2 DEF Cuts, new
  <2>5. CASE st.stored # <<>>
    <3>1. ToSet(<<>>) = Measured(k, k) /\ Increasing(<<>>) /\ ToSet(<<>>) = {}
      BY <2>3, EmptyIs
    <3>2. Chunking(new.windows, new.stored, k, k)
      BY <2>1, <2>2, <3>1 DEF Chunking
    <3>3. IsChunk(Cut(st), h, k)
      <4>1. IsChunk(Cut(st), h, k - 1)
        <5>1. h \in Nat /\ h <= k - 1 /\ k - 1 \in Nat
          BY <1>0, <1>2
        <5>2. Chunking(st.windows, st.stored, h, k - 1)
          BY <1>1
        <5> QED
          BY <5>1, <5>2, CutCovers
      <4>2. Measured(h, k) = Measured(h, k - 1)
        BY <1>3, <2>3
      <4> QED
        BY <4>1, <4>2 DEF IsChunk
    <3>4. Cut(st) \in Chunks
      BY <1>0 DEF Cut, Chunks
    <3>5. <<Cut(st), h, k>> \in ChunkCover
      BY <1>0, <1>2, <3>3, <3>4 DEF ChunkCover, Covering
    <3>6. Row(new.out, ChunkCover, h0, k)
      BY <1>0, <1>1, <1>2, <2>1, <2>5, <3>4, <3>5, RowAppend
    <3> QED
      BY <1>2, <3>2, <3>6 DEF Cuts, new
  <2> QED
    BY <2>4, <2>5
<1>8. CASE taken[k] \notin Origins \cup {"measure"}
  <2>1. Sees(st, k) = st
    BY <1>0, <1>8, SeesTypes
  <2>2. \A o \in Origins : WindowAt(st.windows[o], o, k)
    BY <1>3, <1>4, <1>8
  <2>3. Measured(h, k) = Measured(h, k - 1)
    BY <1>0, <1>2, <1>8, MeasuredNext
  <2>4. \A s \in ToSet(st.stored) : \A j \in s..k : taken[j] \notin Origins
    BY <1>3, <1>5, <1>8
  <2>5. Chunking(st.windows, st.stored, h, k)
    BY <1>3, <2>2, <2>3, <2>4 DEF Chunking
  <2> QED
    BY <1>1, <1>2, <2>1, <2>5 DEF Cuts
<1> QED
  BY <1>6, <1>7, <1>8

------------------------------------------------------------------------------
(* The aggregator *)

SumStates == [start : Nat, gathered : ReadingBufs]

LEMMA SamplesAre ==
    ASSUME NEW buf \in ReadingBufs
    PROVE  /\ SamplesOf(buf) \in Seq(Nat) /\ Len(SamplesOf(buf)) = Len(buf)
           /\ Len(buf) \in Nat /\ DOMAIN buf = 1..Len(buf) /\ DOMAIN SamplesOf(buf) = 1..Len(buf)
           /\ \A i \in 1..Len(buf) :
                buf[i] \in AnyReading /\ buf[i].sample \in Nat /\ SamplesOf(buf)[i] = buf[i].sample
<1>1. Len(buf) \in Nat /\ DOMAIN buf = 1..Len(buf) /\ \A i \in 1..Len(buf) : buf[i] \in AnyReading
  BY SeqFacts DEF ReadingBufs
<1>2. \A i \in 1..Len(buf) : buf[i].sample \in Nat
  BY <1>1 DEF AnyReading
<1>3. SamplesOf(buf) = [i \in 1..Len(buf) |-> buf[i].sample]
  BY <1>1 DEF SamplesOf
<1>4. SamplesOf(buf) \in Seq(Nat) /\ Len(SamplesOf(buf)) = Len(buf)
  BY <1>1, <1>2, <1>3
<1> QED
  BY <1>1, <1>2, <1>3, <1>4

LEMMA SamplesOfMore ==
    ASSUME NEW buf \in ReadingBufs, NEW r \in AnyReading
    PROVE  /\ Append(buf, r) \in ReadingBufs
           /\ SamplesOf(Append(buf, r)) = Append(SamplesOf(buf), r.sample)
           /\ ToSet(Append(buf, r)) = ToSet(buf) \cup {r}
<1> DEFINE more == Append(buf, r)
           one == SamplesOf(more)
           two == Append(SamplesOf(buf), r.sample)
<1>a. r.sample \in Nat
  BY DEF AnyReading
<1>b. more \in ReadingBufs /\ ToSet(more) = ToSet(buf) \cup {r}
  BY SetOfAppend DEF ReadingBufs
<1>0. r.sample \in Nat /\ more \in ReadingBufs /\ ToSet(more) = ToSet(buf) \cup {r}
  BY <1>a, <1>b
<1>1. /\ Len(more) = Len(buf) + 1 /\ more[Len(buf) + 1] = r
      /\ \A i \in 1..Len(buf) : more[i] = buf[i]
  BY AppendProperties DEF ReadingBufs
<1>2. /\ SamplesOf(buf) \in Seq(Nat) /\ Len(SamplesOf(buf)) = Len(buf) /\ Len(buf) \in Nat
      /\ \A i \in 1..Len(buf) : SamplesOf(buf)[i] = buf[i].sample
  BY SamplesAre
<1>3. /\ two \in Seq(Nat) /\ Len(two) = Len(buf) + 1 /\ two[Len(buf) + 1] = r.sample
      /\ \A i \in 1..Len(buf) : two[i] = SamplesOf(buf)[i]
  BY <1>0, <1>2, AppendProperties
<1>4. /\ one \in Seq(Nat) /\ Len(one) = Len(more)
      /\ \A i \in 1..Len(more) : one[i] = more[i].sample
  <2> HIDE DEF more
  <2> QED
    BY <1>0, SamplesAre
<1> HIDE DEF more, one, two
<1>5. \A i \in 1..Len(one) : one[i] = two[i]
  <2> TAKE i \in 1..Len(one)
  <2>1. i \in 1..Len(buf) \/ i = Len(buf) + 1
    BY <1>1, <1>2, <1>4
  <2> QED
    BY <1>1, <1>2, <1>3, <1>4, <2>1
<1>6. one = two
  BY <1>1, <1>3, <1>4, <1>5, SeqEqual
<1> QED
  BY <1>0, <1>6 DEF more, one, two

LEMMA SumsIs ==
    ASSUME NEW st \in SumStates, NEW r \in AnyReading,
           NEW from, from = IF st.start = 0 THEN r.sample ELSE st.start
    PROVE  /\ Sums(st, r) \in SumStates /\ Sums(st, r).start = from
           /\ Sums(st, r).gathered = IF r.sample - from < Settle THEN st.gathered
                                     ELSE Append(st.gathered, r)
<1>1. st.start \in Nat /\ st.gathered \in ReadingBufs /\ r.sample \in Nat
  BY DEF SumStates, AnyReading
<1>2. Append(st.gathered, r) \in ReadingBufs
  BY <1>1, SamplesOfMore
<1> QED
  BY <1>1, <1>2 DEF Sums, SumStates

LEMMA SummedSteps ==
    ASSUME NEW first \in SumStates, first = [start |-> start, gathered |-> gathered],
           NEW buf \in ReadingBufs
    PROVE  /\ Summed(buf) \in [0..Len(buf) -> SumStates] /\ Summed(buf)[0] = first
           /\ \A i \in 1..Len(buf) : Summed(buf)[i] = Sums(Summed(buf)[i - 1], buf[i])
<1> DEFINE n == Len(buf)
           next == [p \in (1..n) \X SumStates |-> Sums(p[2], buf[p[1]])]
<1>1. n \in Nat /\ \A i \in 1..n : buf[i] \in AnyReading
  BY SamplesAre
<1>2. next \in [(1..n) \X SumStates -> SumStates]
  BY <1>1, SumsIs
<1>3. \A i \in 1..n : \A st \in SumStates : next[<<i, st>>] = Sums(st, buf[i])
  OBVIOUS
<1> HIDE DEF n, next
<1>4. PICK f : Follows(f, SumStates, first, n, next)
  <2>1. n \in Nat /\ NextIn(next, SumStates, n)
    BY <1>1, <1>2 DEF NextIn
  <2> QED
    BY <2>1, StepByStep
<1>5. \A i \in 1..n : f[i] = Sums(f[i - 1], buf[i])
  <2> TAKE i \in 1..n
  <2>1. i - 1 \in 0..n
    BY <1>1
  <2> QED
    BY <1>3, <1>4, <2>1 DEF Follows
<1>6. f = [i \in 0..n |-> IF i = 0 THEN [start |-> start, gathered |-> gathered]
                          ELSE Sums(f[i - 1], buf[i])]
  BY <1>1, <1>4, <1>5 DEF Follows
<1> DEFINE g == Summed(buf)
<1>7. g = [i \in 0..n |-> IF i = 0 THEN [start |-> start, gathered |-> gathered]
                          ELSE Sums(g[i - 1], buf[i])]
  BY <1>6 DEF Summed, n
<1> HIDE DEF g
<1>8. 0..n \subseteq {i \in 0..n : g[i] = f[i]}
  <2> DEFINE T == {i \in 0..n : g[i] = f[i]}
  <2>1. 0 \in T
    BY <1>1, <1>4, <1>7 DEF Follows
  <2>2. ASSUME NEW i \in 1..n, i - 1 \in T PROVE i \in T
    <3>1. g[i] = Sums(g[i - 1], buf[i]) /\ i \in 0..n
      BY <1>1, <1>7
    <3> QED
      BY <1>5, <2>2, <3>1
  <2> HIDE DEF T
  <2>3. 0..n \subseteq T
    BY <1>1, <2>1, <2>2, UpTo
  <2> QED
    BY <2>3 DEF T
<1>9. g = f
  BY <1>4, <1>7, <1>8 DEF Follows
<1> QED
  BY <1>4, <1>5, <1>9 DEF g, n, Follows

\* A reading more.
LEMMA SummingNext ==
    ASSUME NEW st \in SumStates, NEW r \in AnyReading, NEW m \in Nat, m < r.sample,
           Right(r), UsableIn(m, r.sample) = {r.sample},
           Summing(st.start, st.gathered, m)
    PROVE  Summing(Sums(st, r).start, Sums(st, r).gathered, r.sample)
<1> DEFINE k == r.sample
           from == IF st.start = 0 THEN k ELSE st.start
           new == Sums(st, r)
<1>0. /\ k \in Nat /\ st.start \in Nat /\ st.gathered \in ReadingBufs /\ Settle \in Nat
      /\ SamplesOf(st.gathered) \in Seq(Nat)
  BY SamplesAre, SizesAssumption DEF SumStates, AnyReading
<1>1. /\ new.start = from
      /\ new.gathered = IF k - from < Settle THEN st.gathered ELSE Append(st.gathered, r)
  BY SumsIs
<1> HIDE DEF new
<1>2. UsableIn(0, k) = UsableIn(0, m) \cup {k}
  <2>1. \A j \in (0 + 1)..k : j \in (0 + 1)..m \/ j \in (m + 1)..k
    BY <1>0
  <2>2. \A j \in (0 + 1)..m : j \in (0 + 1)..k
    BY <1>0
  <2>3. \A j \in (m + 1)..k : j \in (0 + 1)..k
    BY <1>0
  <2>4. UsableIn(0, k) = UsableIn(0, m) \cup UsableIn(m, k)
    BY <2>1, <2>2, <2>3 DEF UsableIn, Measured
  <2> QED
    BY <2>4
<1>3. \A j \in UsableIn(0, m) : j \in Nat /\ j < k
  BY <1>0 DEF UsableIn, Measured
<1>4. /\ st.start = 0 => UsableIn(0, m) = {}
      /\ st.start # 0 => st.start \in UsableIn(0, m) /\ \A j \in UsableIn(0, m) : st.start <= j
      /\ Increasing(SamplesOf(st.gathered))
      /\ ToSet(SamplesOf(st.gathered)) = {j \in UsableIn(0, m) : j - st.start >= Settle}
      /\ \A x \in ToSet(st.gathered) : Right(x)
  BY DEF Summing
<1>5. /\ from \in Nat /\ from # 0 /\ from \in UsableIn(0, k) /\ from <= k
      /\ \A j \in UsableIn(0, k) : from <= j
  BY <1>0, <1>2, <1>3, <1>4
<1>6. ToSet(SamplesOf(st.gathered)) = {j \in UsableIn(0, m) : j - from >= Settle}
  BY <1>4
<1>7. \A j \in ToSet(SamplesOf(st.gathered)) : j < k
  BY <1>3, <1>6
<1> HIDE DEF from
<1>8. CASE k - from < Settle
  <2>1. {j \in UsableIn(0, k) : j - from >= Settle} = {j \in UsableIn(0, m) : j - from >= Settle}
    BY <1>0, <1>2, <1>5, <1>8
  <2> QED
    BY <1>1, <1>4, <1>5, <1>6, <1>8, <2>1 DEF Summing, new
<1>9. CASE ~(k - from < Settle)
  <2>1. {j \in UsableIn(0, k) : j - from >= Settle}
          = {j \in UsableIn(0, m) : j - from >= Settle} \cup {k}
    BY <1>0, <1>2, <1>5, <1>9
  <2>2. /\ SamplesOf(new.gathered) = Append(SamplesOf(st.gathered), k)
        /\ ToSet(new.gathered) = ToSet(st.gathered) \cup {r}
    BY <1>0, <1>1, <1>9, SamplesOfMore
  <2>3. /\ Increasing(SamplesOf(new.gathered))
        /\ ToSet(SamplesOf(new.gathered)) = ToSet(SamplesOf(st.gathered)) \cup {k}
    <3>1. SamplesOf(st.gathered) \in Seq(Nat) /\ k \in Nat
      BY <1>0
    <3>2. Increasing(Append(SamplesOf(st.gathered), k))
      BY <1>4, <1>7, <3>1, IncreasingAppend
    <3>3. ToSet(Append(SamplesOf(st.gathered), k)) = ToSet(SamplesOf(st.gathered)) \cup {k}
      BY <3>1, SetOfAppend
    <3> QED
      BY <2>2, <3>2, <3>3
  <2>4. \A x \in ToSet(new.gathered) : Right(x)
    BY <1>4, <2>2
  <2> QED
    BY <1>1, <1>5, <1>6, <2>1, <2>3, <2>4 DEF Summing, new
<1> QED
  BY <1>8, <1>9

LEMMA SummingLater ==
    ASSUME NEW a \in Nat, NEW b \in Nat, a <= b, UsableIn(a, b) = {}, NEW st, NEW gt,
           Summing(st, gt, a)
    PROVE  Summing(st, gt, b)
<1>1. \A j \in (0 + 1)..b : j \in (0 + 1)..a \/ j \in (a + 1)..b
  OBVIOUS
<1>2. \A j \in (0 + 1)..a : j \in (0 + 1)..b
  OBVIOUS
<1>3. UsableIn(0, b) = UsableIn(0, a)
  BY <1>1, <1>2 DEF UsableIn, Measured
<1> QED
  BY <1>3 DEF Summing

\* All readings of a buffer.
LEMMA SummedCovers ==
    ASSUME NEW first \in SumStates, first = [start |-> start, gathered |-> gathered],
           NEW buf \in ReadingBufs, NEW g \in Nat, NEW b \in Nat, g <= b,
           IsReadings(buf, g, b), Summing(start, gathered, g)
    PROVE  /\ Summed(buf)[Len(buf)] \in SumStates
           /\ Summing(Summed(buf)[Len(buf)].start, Summed(buf)[Len(buf)].gathered, b)
<1> DEFINE n == Len(buf)
           st == Summed(buf)
           m == [i \in 0..n |-> IF i = 0 THEN g ELSE buf[i].sample]
<1>1. /\ n \in Nat /\ DOMAIN buf = 1..n /\ DOMAIN SamplesOf(buf) = 1..n
      /\ \A i \in 1..n :
           buf[i] \in AnyReading /\ buf[i].sample \in Nat /\ SamplesOf(buf)[i] = buf[i].sample
  BY SamplesAre
<1>2. /\ \A i \in 0..n : st[i] \in SumStates
      /\ st[0] = first /\ \A i \in 1..n : st[i] = Sums(st[i - 1], buf[i])
  BY SummedSteps
<1>3. /\ m[0] = g /\ \A i \in 1..n : m[i] = buf[i].sample
      /\ \A i \in 0..n : m[i] \in Nat
  BY <1>1
<1> HIDE DEF n, st, m
<1>4. \A i \in 1..n : buf[i].sample \in UsableIn(g, b) /\ Right(buf[i])
  BY <1>1 DEF IsReadings, ToSet
<1>5. ASSUME NEW k \in UsableIn(g, b) PROVE \E i \in 1..n : buf[i].sample = k
  BY <1>1 DEF IsReadings, ToSet
<1>6. \A i, j \in 1..n : i < j => buf[i].sample < buf[j].sample
  BY <1>1 DEF IsReadings, Increasing
<1>7. \A i \in 0..n : g <= m[i] /\ m[i] <= b
  BY <1>3, <1>4 DEF UsableIn, Measured
<1>8. ASSUME NEW i \in 1..n
      PROVE  m[i - 1] < m[i] /\ UsableIn(m[i - 1], m[i]) = {m[i]}
  <2>1. i - 1 \in 0..n /\ i \in 0..n
    BY <1>1
  <2>2. m[i - 1] < m[i]
    <3>1. CASE i = 1
      <4>1. m[i] \in Measured(g, b) /\ m[i - 1] = g
        BY <1>3, <1>4, <3>1 DEF UsableIn
      <4> QED
        BY <1>3, <2>1, <4>1 DEF Measured
    <3>2. CASE i # 1
      <4>1. i - 1 \in 1..n /\ i - 1 < i
        BY <1>1, <3>2
      <4> QED
        BY <1>3, <1>6, <4>1
    <3> QED
      BY <3>1, <3>2
  <2>3. m[i] \in UsableIn(m[i - 1], m[i])
    <3>1. m[i] \in UsableIn(g, b) /\ m[i] \in (m[i - 1] + 1)..m[i]
      BY <1>3, <1>4, <2>1, <2>2
    <3> QED
      BY <3>1 DEF UsableIn, Measured
  <2>4. ASSUME NEW k \in UsableIn(m[i - 1], m[i]) PROVE k = m[i]
    <3>1. k \in (m[i - 1] + 1)..m[i] /\ k \in (g + 1)..b
      <4>1. k \in (m[i - 1] + 1)..m[i]
        BY DEF UsableIn, Measured
      <4> QED
        BY <1>3, <1>7, <2>1, <4>1
    <3>2. k \in UsableIn(g, b)
      BY <3>1 DEF UsableIn, Measured
    <3>3. PICK l \in 1..n : buf[l].sample = k
      BY <1>5, <3>2
    <3>4. m[l] = k
      BY <1>3, <3>3
    <3>5. ~(l < i)
      <4> SUFFICES ASSUME l < i PROVE FALSE
        OBVIOUS
      <4>1. l = i - 1 \/ l < i - 1
        BY <1>1
      <4>2. l < i - 1 => i - 1 \in 1..n
        BY <1>1
      <4>3. m[l] <= m[i - 1]
        BY <1>1, <1>3, <1>6, <2>1, <4>1, <4>2
      <4> QED
        BY <1>3, <2>1, <3>1, <3>4, <4>3
    <3>6. ~(i < l)
      <4> SUFFICES ASSUME i < l PROVE FALSE
        OBVIOUS
      <4>1. m[i] < m[l]
        BY <1>3, <1>6
      <4> QED
        BY <1>3, <2>1, <3>1, <3>4, <4>1
    <3>7. l = i
      BY <1>1, <3>5, <3>6
    <3> QED
      BY <3>4, <3>7
  <2> QED
    BY <2>2, <2>3, <2>4
<1> DEFINE T == {i \in 0..n : Summing(st[i].start, st[i].gathered, m[i])}
<1>9. 0..n \subseteq T
  <2>1. 0 \in T
    BY <1>1, <1>2, <1>3
  <2>2. ASSUME NEW i \in 1..n, i - 1 \in T PROVE i \in T
    <3>1. i \in 0..n /\ i - 1 \in 0..n /\ Summing(st[i - 1].start, st[i - 1].gathered, m[i - 1])
      BY <1>1, <2>2
    <3>2. /\ st[i - 1] \in SumStates /\ buf[i] \in AnyReading /\ m[i - 1] \in Nat
          /\ m[i] = buf[i].sample /\ m[i - 1] < buf[i].sample /\ Right(buf[i])
          /\ UsableIn(m[i - 1], buf[i].sample) = {buf[i].sample}
      BY <1>1, <1>2, <1>3, <1>4, <1>8, <3>1
    <3>3. Summing(Sums(st[i - 1], buf[i]).start, Sums(st[i - 1], buf[i]).gathered, buf[i].sample)
      BY <3>1, <3>2, SummingNext
    <3> QED
      BY <1>2, <3>1, <3>2, <3>3
  <2> HIDE DEF T
  <2> QED
    BY <1>1, <2>1, <2>2, UpTo
<1>10. n \in 0..n
  BY <1>1
<1>11. Summing(st[n].start, st[n].gathered, m[n])
  BY <1>9, <1>10
<1>12. UsableIn(m[n], b) = {}
  <2> SUFFICES ASSUME NEW k \in UsableIn(m[n], b) PROVE FALSE
    OBVIOUS
  <2>1. k \in (m[n] + 1)..b /\ k \in (g + 1)..b
    <3>1. k \in (m[n] + 1)..b
      BY DEF UsableIn, Measured
    <3> QED
      BY <1>3, <1>7, <1>10, <3>1
  <2>2. k \in UsableIn(g, b)
    BY <2>1 DEF UsableIn, Measured
  <2>3. PICK l \in 1..n : buf[l].sample = k
    BY <1>5, <2>2
  <2>4. m[l] = k /\ n \in 1..n /\ (l = n \/ l < n)
    BY <1>1, <1>3, <2>3
  <2>5. m[l] <= m[n]
    BY <1>3, <1>6, <1>10, <2>4
  <2> QED
    BY <1>3, <1>10, <2>1, <2>4, <2>5
<1>13. Summing(st[n].start, st[n].gathered, b)
  BY <1>3, <1>7, <1>10, <1>11, <1>12, SummingLater
<1> QED
  BY <1>2, <1>10, <1>13 DEF st, n

------------------------------------------------------------------------------
(* The streams *)

\* All that changes is that stream s has the items.
HasNow(new, str, s, items) ==
    /\ IsShaped(new) /\ new[s].items = items
    /\ \A q \in Streams \ {s} : new[q] = str[q]
    /\ \A q \in Streams : new[q].closed = str[q].closed

LEMMA SendIs ==
    ASSUME NEW str, IsShaped(str), NEW s \in Streams, NEW bufs
    PROVE  HasNow(Send(str, s, bufs), str, s, str[s].items \o bufs)
<1>1. /\ DOMAIN str = Streams
      /\ \A q \in Streams : str[q] = [items |-> str[q].items, closed |-> str[q].closed]
  BY DEF IsShaped
<1> DEFINE new == Send(str, s, bufs)
           one == [items |-> str[s].items \o bufs, closed |-> str[s].closed]
<1>2. new = [str EXCEPT ![s] = [str[s] EXCEPT !.items = str[s].items \o bufs]]
  BY DEF Send
<1>3. [str[s] EXCEPT !.items = str[s].items \o bufs] = one
  <2> DEFINE x == str[s]
             was == str[s].items
             over == str[s].closed
             is == str[s].items \o bufs
  <2>1. x = [items |-> was, closed |-> over]
    BY <1>1
  <2> HIDE DEF x, was, over, is
  <2>2. [x EXCEPT !.items = is] = [items |-> is, closed |-> over]
    BY <2>1
  <2> QED
    BY <2>2 DEF x, was, over, is
<1>4. new = [str EXCEPT ![s] = one]
  BY <1>2, <1>3
<1> HIDE DEF new
<1>5. /\ DOMAIN new = Streams /\ new[s] = one
      /\ \A q \in Streams \ {s} : new[q] = str[q]
      /\ new = [q \in Streams |-> new[q]]
  BY <1>1, <1>4
<1>6. \A q \in Streams : new[q] = [items |-> new[q].items, closed |-> new[q].closed]
  BY <1>1, <1>5
<1>7. IsShaped(new)
  BY <1>5, <1>6 DEF IsShaped
<1> QED
  BY <1>1, <1>5, <1>7 DEF new, HasNow

\* All that changes is that stream s is over.
IsOver(new, str, s) ==
    /\ IsShaped(new) /\ new[s].closed = TRUE
    /\ \A q \in Streams : new[q].items = str[q].items
    /\ \A q \in Streams \ {s} : new[q] = str[q]

LEMMA EndIs ==
    ASSUME NEW str, IsShaped(str), NEW s \in Streams
    PROVE  IsOver(End(str, s), str, s)
<1>1. /\ DOMAIN str = Streams
      /\ \A q \in Streams : str[q] = [items |-> str[q].items, closed |-> str[q].closed]
  BY DEF IsShaped
<1> DEFINE new == End(str, s)
           one == [items |-> str[s].items, closed |-> TRUE]
<1>2. new = [str EXCEPT ![s] = [str[s] EXCEPT !.closed = TRUE]]
  BY DEF End
<1>3. [str[s] EXCEPT !.closed = TRUE] = one
  <2> DEFINE x == str[s]
             was == str[s].items
             over == str[s].closed
             is == TRUE
  <2>1. x = [items |-> was, closed |-> over]
    BY <1>1
  <2> HIDE DEF x, was, over, is
  <2>2. [x EXCEPT !.closed = is] = [items |-> was, closed |-> is]
    BY <2>1
  <2> QED
    BY <2>2 DEF x, was, over, is
<1>4. new = [str EXCEPT ![s] = one]
  BY <1>2, <1>3
<1> HIDE DEF new
<1>5. /\ DOMAIN new = Streams /\ new[s] = one
      /\ \A q \in Streams \ {s} : new[q] = str[q]
      /\ new = [q \in Streams |-> new[q]]
  BY <1>1, <1>4
<1>6. \A q \in Streams : new[q] = [items |-> new[q].items, closed |-> new[q].closed]
  BY <1>1, <1>5
<1>7. IsShaped(new)
  BY <1>5, <1>6 DEF IsShaped
<1> QED
  BY <1>1, <1>5, <1>7 DEF new, IsOver

LEMMA RemovedIs ==
    ASSUME IsShaped(stream), NEW s \in Streams
    PROVE  HasNow(Removed(s), stream, s, Tail(stream[s].items))
<1>1. /\ DOMAIN stream = Streams
      /\ \A q \in Streams : stream[q] = [items |-> stream[q].items, closed |-> stream[q].closed]
  BY DEF IsShaped
<1> DEFINE new == Removed(s)
           one == [items |-> Tail(stream[s].items), closed |-> stream[s].closed]
<1>2. new = [stream EXCEPT ![s] = [stream[s] EXCEPT !.items = Tail(stream[s].items)]]
  BY DEF Removed
<1>3. [stream[s] EXCEPT !.items = Tail(stream[s].items)] = one
  <2> DEFINE x == stream[s]
             was == stream[s].items
             over == stream[s].closed
             is == Tail(stream[s].items)
  <2>1. x = [items |-> was, closed |-> over]
    BY <1>1
  <2> HIDE DEF x, was, over, is
  <2>2. [x EXCEPT !.items = is] = [items |-> is, closed |-> over]
    BY <2>1
  <2> QED
    BY <2>2 DEF x, was, over, is
<1>4. new = [stream EXCEPT ![s] = one]
  BY <1>2, <1>3
<1> HIDE DEF new
<1>5. /\ DOMAIN new = Streams /\ new[s] = one
      /\ \A q \in Streams \ {s} : new[q] = stream[q]
      /\ new = [q \in Streams |-> new[q]]
  BY <1>1, <1>4
<1>6. \A q \in Streams : new[q] = [items |-> new[q].items, closed |-> new[q].closed]
  BY <1>1, <1>5
<1>7. IsShaped(new)
  BY <1>5, <1>6 DEF IsShaped
<1> QED
  BY <1>1, <1>5, <1>7 DEF new, HasNow

LEMMA SendOne ==
    ASSUME NEW X, NEW items \in Seq(X), NEW x \in X
    PROVE  items \o <<x>> = Append(items, x) /\ Append(items, x) \in Seq(X)
BY AppendIsConcat, AppendProperties

------------------------------------------------------------------------------
(* The collector: what has been taken stays as it was *)

LEMMA TakenGrows ==
    ASSUME taken \in Seq(Types), NEW read \in Seq(Types), taken' = taken \o read
    PROVE  /\ Len(taken) \in Nat /\ Len(taken)' = Len(taken) + Len(read) /\ Len(read) \in Nat
           /\ taken' \in Seq(Types)
           /\ \A k \in 1..Len(taken) : taken'[k] = taken[k]
BY ConcatProperties, SeqFacts

Grown ==
    /\ Len(taken) \in Nat /\ Len(taken)' \in Nat /\ Len(taken) <= Len(taken)'
    /\ \A k \in 1..Len(taken) : taken'[k] = taken[k]

LEMMA GrownMeasured ==
    ASSUME Grown, NEW a \in Nat, NEW b \in 0..Len(taken)
    PROVE  /\ Measured(a, b)' = Measured(a, b) /\ UsableIn(a, b)' = UsableIn(a, b)
           /\ \A k \in Measured(a, b) : k \in 1..Len(taken)
<1>1. \A k \in (a + 1)..b : k \in 1..Len(taken) /\ k \in Nat
  BY DEF Grown
<1>2. Measured(a, b)' = Measured(a, b)
  BY <1>1 DEF Grown, Measured
<1>3. ASSUME NEW k \in 1..Len(taken) PROVE CalibratedAt(k)' <=> CalibratedAt(k)
  <2>1. \A i \in 1..(k - 1) : i \in 1..Len(taken)
    BY DEF Grown
  <2>2. \A o : Before(k, o)' = Before(k, o)
    BY <2>1 DEF Grown, Before
  <2> QED
    BY <2>2 DEF CalibratedAt
<1>4. \A k \in Measured(a, b) : k \in 1..Len(taken)
  BY <1>1 DEF Measured
<1>5. UsableIn(a, b)' = UsableIn(a, b)
  BY <1>2, <1>3, <1>4 DEF UsableIn
<1> QED
  BY <1>2, <1>4, <1>5

LEMMA GrownWindow ==
    ASSUME Grown, NEW win, NEW o, NEW k \in 0..Len(taken), WindowAt(win, o, k)
    PROVE  WindowAt(win, o, k)'
<1>1. \A j \in 1..k : j \in 1..Len(taken)
  BY DEF Grown
<1> QED
  BY <1>1 DEF Grown, WindowAt

LEMMA GrownRight ==
    ASSUME Grown, NEW r, r.sample \in 0..Len(taken), Right(r)
    PROVE  Right(r)'
BY GrownWindow DEF Right

LEMMA GrownChunk ==
    ASSUME Grown, NEW chunk, NEW a \in Nat, NEW b \in 0..Len(taken), IsChunk(chunk, a, b)
    PROVE  IsChunk(chunk, a, b)'
<1>1. Measured(a, b)' = Measured(a, b) /\ \A k \in Measured(a, b) : k \in 0..Len(taken)
  <2>1. \A k \in 1..Len(taken) : k \in 0..Len(taken)
    BY DEF Grown
  <2> QED
    BY <2>1, GrownMeasured
<1>2. \A k \in ToSet(chunk.samples), o \in Origins : WindowAt(chunk.snapshot[o], o, k)'
  <2> SUFFICES ASSUME NEW k \in ToSet(chunk.samples), NEW o \in Origins
               PROVE  WindowAt(chunk.snapshot[o], o, k)'
    OBVIOUS
  <2>1. k \in 0..Len(taken) /\ WindowAt(chunk.snapshot[o], o, k)
    BY <1>1 DEF IsChunk
  <2> QED
    BY <2>1, GrownWindow
<1> QED
  BY <1>1, <1>2 DEF IsChunk

LEMMA SamplesOfSet ==
    ASSUME NEW buf, NEW r \in ToSet(buf)
    PROVE  r.sample \in ToSet(SamplesOf(buf))
BY DEF ToSet, SamplesOf

LEMMA GrownReadings ==
    ASSUME Grown, NEW buf, NEW a \in Nat, NEW b \in 0..Len(taken), IsReadings(buf, a, b)
    PROVE  IsReadings(buf, a, b)'
<1>1. UsableIn(a, b)' = UsableIn(a, b) /\ \A k \in UsableIn(a, b) : k \in 0..Len(taken)
  <2>1. \A k \in 1..Len(taken) : k \in 0..Len(taken)
    BY DEF Grown
  <2> QED
    BY <2>1, GrownMeasured DEF UsableIn
<1>2. \A r \in ToSet(buf) : Right(r)'
  <2> SUFFICES ASSUME NEW r \in ToSet(buf) PROVE Right(r)'
    OBVIOUS
  <2>1. r.sample \in 0..Len(taken) /\ Right(r)
    BY <1>1, SamplesOfSet DEF IsReadings
  <2> QED
    BY <2>1, GrownRight
<1> QED
  BY <1>1, <1>2 DEF IsReadings, SamplesOf

LEMMA GrownCovers ==
    ASSUME Grown
    PROVE  /\ RawCover \subseteq RawCover' /\ PacketCover \subseteq PacketCover'
           /\ ChunkCover \subseteq ChunkCover' /\ ReadingCover \subseteq ReadingCover'
<1>1. \A b \in Nat : b <= Len(taken) => b <= Len(taken)' /\ b \in 0..Len(taken)
  BY DEF Grown
<1>2. \A Items : Covering(Items) \subseteq Covering(Items)'
  BY <1>1 DEF Covering
<1>3. RawCover \subseteq RawCover' /\ PacketCover \subseteq PacketCover'
  BY <1>2 DEF RawCover, PacketCover, IsRaw, IsBuffer
<1>4. ChunkCover \subseteq ChunkCover'
  <2> SUFFICES ASSUME NEW x \in ChunkCover PROVE x \in ChunkCover'
    OBVIOUS
  <2>1. x \in Covering(Chunks) /\ IsChunk(x[1], x[2], x[3])
    BY DEF ChunkCover
  <2>2. x[2] \in Nat /\ x[3] \in 0..Len(taken)
    BY <1>1, <2>1 DEF Covering
  <2>3. IsChunk(x[1], x[2], x[3])'
    BY <2>1, <2>2, GrownChunk
  <2> QED
    BY <1>2, <2>1, <2>3 DEF ChunkCover
<1>5. ReadingCover \subseteq ReadingCover'
  <2> SUFFICES ASSUME NEW x \in ReadingCover PROVE x \in ReadingCover'
    OBVIOUS
  <2>1. x \in Covering(ReadingBufs) /\ IsReadings(x[1], x[2], x[3])
    BY DEF ReadingCover
  <2>2. x[2] \in Nat /\ x[3] \in 0..Len(taken)
    BY <1>1, <2>1 DEF Covering
  <2>3. IsReadings(x[1], x[2], x[3])'
    BY <2>1, <2>2, GrownReadings
  <2> QED
    BY <1>2, <2>1, <2>3 DEF ReadingCover
<1> QED
  BY <1>3, <1>4, <1>5

LEMMA GrownChunking ==
    ASSUME Grown, NEW win, NEW kept, NEW h \in Nat, NEW c \in 0..Len(taken),
           Chunking(win, kept, h, c)
    PROVE  Chunking(win, kept, h, c)'
<1>1. Measured(h, c)' = Measured(h, c) /\ \A s \in Measured(h, c) : s \in 1..Len(taken)
  BY GrownMeasured
<1>2. \A o \in Origins : WindowAt(win[o], o, c)'
  <2>1. \A o \in Origins : WindowAt(win[o], o, c)
    BY DEF Chunking
  <2> QED
    BY <2>1, GrownWindow
<1>3. \A s \in ToSet(kept) : \A j \in s..c : taken'[j] \notin Origins
  <2> SUFFICES ASSUME NEW s \in ToSet(kept), NEW j \in s..c PROVE taken'[j] \notin Origins
    OBVIOUS
  <2>1. s \in 1..Len(taken) /\ taken[j] \notin Origins
    BY <1>1 DEF Chunking
  <2>2. j \in 1..Len(taken)
    BY <2>1 DEF Grown
  <2> QED
    BY <2>1, <2>2 DEF Grown
<1> QED
  BY <1>1, <1>2, <1>3 DEF Chunking

LEMMA GrownSumming ==
    ASSUME Grown, NEW st, NEW got, NEW g \in 0..Len(taken), Summing(st, got, g)
    PROVE  Summing(st, got, g)'
<1>1. UsableIn(0, g)' = UsableIn(0, g) /\ \A k \in UsableIn(0, g) : k \in 0..Len(taken)
  <2>1. \A k \in 1..Len(taken) : k \in 0..Len(taken)
    BY DEF Grown
  <2> QED
    BY <2>1, GrownMeasured DEF UsableIn
<1>2. \A r \in ToSet(got) : Right(r)'
  <2> SUFFICES ASSUME NEW r, r \in ToSet(got) PROVE Right(r)'
    OBVIOUS
  <2>1. r.sample \in 0..Len(taken) /\ Right(r)
    BY <1>1, SamplesOfSet DEF Summing
  <2> QED
    BY <2>1, GrownRight
<1> QED
  BY <1>1, <1>2 DEF Summing, SamplesOf

\* What still waits, waits as it did.
LEMMA RowsLater ==
    ASSUME Grown
    PROVE  \A items, a, b :
             /\ Row(items, RawCover, a, b) => Row(items, RawCover', a, b)
             /\ Row(items, PacketCover, a, b) => Row(items, PacketCover', a, b)
             /\ Row(items, ChunkCover, a, b) => Row(items, ChunkCover', a, b)
             /\ Row(items, ReadingCover, a, b) => Row(items, ReadingCover', a, b)
BY GrownCovers, RowGrows

------------------------------------------------------------------------------
(* What each step does to the queues *)

Moving == QueueTypes /\ Flows

\* The marks, as numbers.
LEMMA Marks ==
    ASSUME Moving
    PROVE  \E g, r, h, c, p \in Nat :
             /\ g <= r /\ r <= h /\ h <= c /\ c <= p /\ p <= Len(taken)
             /\ Flow(g, r, h, c, p) /\ Len(taken) \in Nat
BY SeqFacts DEF Moving, QueueTypes, Flows, Flow

LEMMA Marked ==
    ASSUME Len(taken)' \in Nat, NEW g \in Nat, NEW r \in Nat, NEW h \in Nat, NEW c \in Nat,
           NEW p \in Nat, g <= r, r <= h, h <= c, c <= p, p <= Len(taken)',
           Summing(start, gathered, g)', Row(stream["readings"].items, ReadingCover, g, r)',
           Row(stream["chunks"].items, ChunkCover, r, h)', Chunking(windows, stored, h, c)',
           Row(stream["packets"].items, PacketCover, c, p)',
           Row(stream["raw"].items, RawCover, p, Len(taken))'
    PROVE  Flows'
<1>1. /\ g \in 0..Len(taken)' /\ r \in 0..Len(taken)' /\ h \in 0..Len(taken)'
      /\ c \in 0..Len(taken)' /\ p \in 0..Len(taken)'
  OBVIOUS
<1>2. Flow(g, r, h, c, p)'
  BY DEF Flow
<1> QED
  BY <1>1, <1>2 DEF Flows

\* The chunker and the aggregator keep what they have.
LEMMA ChunkingKept ==
    ASSUME Grown, UNCHANGED chunkVars, NEW h \in Nat, NEW c \in 0..Len(taken),
           Chunking(windows, stored, h, c)
    PROVE  Chunking(windows, stored, h, c)'
<1>1. PICK win, kept : win = windows /\ kept = stored
  OBVIOUS
<1>2. Chunking(win, kept, h, c)
  BY <1>1
<1>3. Chunking(win, kept, h, c)'
  BY <1>2, GrownChunking
<1>4. windows' = win /\ stored' = kept
  BY <1>1 DEF chunkVars
<1> QED
  BY <1>3, <1>4 DEF Chunking

LEMMA SummingKept ==
    ASSUME Grown, UNCHANGED aggrVars, NEW g \in 0..Len(taken), Summing(start, gathered, g)
    PROVE  Summing(start, gathered, g)'
<1>1. PICK st, got : st = start /\ got = gathered
  OBVIOUS
<1>2. Summing(st, got, g)
  BY <1>1
<1>3. Summing(st, got, g)'
  BY <1>2, GrownSumming
<1>4. start' = st /\ gathered' = got
  BY <1>1 DEF aggrVars
<1> QED
  BY <1>3, <1>4 DEF Summing

LEMMA TakenStays ==
    ASSUME taken \in Seq(Types), UNCHANGED taken
    PROVE  Grown /\ Len(taken)' = Len(taken)
BY SeqFacts DEF Grown

\* A step that only ends streams, and those that leave them alone.
LEMMA MovingKept ==
    ASSUME Moving, UNCHANGED <<taken, chunkVars, aggrVars>>, IsShaped(stream'),
           \A s \in Streams : stream'[s].items = stream[s].items
    PROVE  Moving'
<1>1. Grown /\ Len(taken)' = Len(taken)
  BY TakenStays DEF Moving, QueueTypes
<1>2. PICK g, r, h, c, p \in Nat :
        /\ g <= r /\ r <= h /\ h <= c /\ c <= p /\ p <= Len(taken)
        /\ Flow(g, r, h, c, p) /\ Len(taken) \in Nat
  BY Marks
<1>3. /\ stream'["raw"].items = stream["raw"].items
      /\ stream'["packets"].items = stream["packets"].items
      /\ stream'["chunks"].items = stream["chunks"].items
      /\ stream'["readings"].items = stream["readings"].items
  BY DEF Streams
<1>4. Chunking(windows, stored, h, c)' /\ Summing(start, gathered, g)'
  BY <1>1, <1>2, ChunkingKept, SummingKept DEF Flow
<1>5. /\ Row(stream["readings"].items, ReadingCover, g, r)'
      /\ Row(stream["chunks"].items, ChunkCover, r, h)'
      /\ Row(stream["packets"].items, PacketCover, c, p)'
      /\ Row(stream["raw"].items, RawCover, p, Len(taken))'
  BY <1>1, <1>2, <1>3, RowsLater DEF Flow
<1>6. Flows'
  BY <1>1, <1>2, <1>4, <1>5, Marked
<1>7. QueueTypes'
  BY <1>3 DEF Moving, QueueTypes, chunkVars, aggrVars
<1> QED
  BY <1>6, <1>7 DEF Moving

\* A node that has nothing left ends its stream.
LEMMA EndsMoving ==
    ASSUME Moving, NEW s \in Streams, stream' = End(stream, s),
           UNCHANGED <<taken, chunkVars, aggrVars>>
    PROVE  Moving'
<1>1. IsShaped(stream) /\ IsOver(End(stream, s), stream, s)
  BY EndIs DEF Moving, QueueTypes
<1>2. IsShaped(stream') /\ \A q \in Streams : stream'[q].items = stream[q].items
  BY <1>1 DEF IsOver
<1> QED
  BY <1>2, MovingKept

LEMMA CollectorFillsMoving == Moving /\ CollectorFills => Moving'
<1> SUFFICES ASSUME Moving, CollectorFills PROVE Moving'
  OBVIOUS
<1>1. PICK holes \in SUBSET (1..BufferSize) :
        /\ \E read \in [1..(BufferSize - Cardinality(holes)) -> Types] : taken' = taken \o read
        /\ stream' = Send(stream, "raw", <<Filled(holes)>>)
  BY DEF CollectorFills
<1>2. PICK read \in [1..(BufferSize - Cardinality(holes)) -> Types] : taken' = taken \o read
  BY <1>1
<1>3. BufferSize \in Nat /\ IsFiniteSet(1..BufferSize) /\ Cardinality(1..BufferSize) = BufferSize
  BY SizesAssumption, FS_Interval
<1>4. BufferSize - Cardinality(holes) \in Nat
  <2>1. IsFiniteSet(holes) /\ Cardinality(holes) <= BufferSize
    BY <1>3, FS_Subset
  <2>2. Cardinality(holes) \in Nat
    BY <2>1, FS_CardinalityType
  <2> QED
    BY <1>3, <2>1, <2>2
<1>5. read \in Seq(Types) /\ Len(read) = BufferSize - Cardinality(holes)
  BY <1>4
<1>6. taken \in Seq(Types)
  BY DEF Moving, QueueTypes
<1>7. /\ Len(taken) \in Nat /\ Len(taken)' = Len(taken) + Len(read) /\ Len(read) \in Nat
      /\ taken' \in Seq(Types) /\ \A k \in 1..Len(taken) : taken'[k] = taken[k]
  BY <1>2, <1>5, <1>6, TakenGrows
<1>8. Grown
  BY <1>7 DEF Grown
<1> DEFINE buf == Filled(holes)
<1>9. \A i \in 1..BufferSize : Cardinality((1..i) \ holes) \in Nat
  <2> SUFFICES ASSUME NEW i \in 1..BufferSize PROVE Cardinality((1..i) \ holes) \in Nat
    OBVIOUS
  <2>1. IsFiniteSet(1..i)
    BY FS_Interval
  <2>2. IsFiniteSet((1..i) \ holes)
    BY <2>1, FS_Difference
  <2> QED
    BY <2>2, FS_CardinalityType
<1>10. buf \in SampleBuffers
  <2>1. buf \in [1..BufferSize -> Nat]
    BY <1>7, <1>9 DEF Filled, Hole
  <2> QED
    BY <1>3, <2>1 DEF SampleBuffers
<1>11. IsRaw(buf, Len(taken), Len(taken)')
  <2> SUFFICES ASSUME ~Contains(buf, Hole) PROVE IsBuffer(buf, Len(taken), Len(taken)')
    BY DEF IsRaw
  <2>1. DOMAIN buf = 1..BufferSize /\ Len(buf) = BufferSize
    BY <1>3, <1>10 DEF Filled, SampleBuffers
  <2>2. holes = {}
    <3> SUFFICES ASSUME NEW i \in holes PROVE FALSE
      OBVIOUS
    <3>1. i \in 1..Len(buf) /\ buf[i] = Hole
      BY <2>1 DEF Filled
    <3> QED
      BY <3>1 DEF Contains
  <2>3. \A i \in 1..BufferSize : Cardinality((1..i) \ holes) = i
    <3> SUFFICES ASSUME NEW i \in 1..BufferSize PROVE Cardinality((1..i) \ holes) = i
      OBVIOUS
    <3>1. (1..i) \ holes = 1..i
      BY <2>2
    <3>2. Cardinality(1..i) = i
      BY FS_Interval
    <3> QED
      BY <3>1, <3>2
  <2>4. buf = [i \in 1..BufferSize |-> Len(taken) + i]
    BY <2>2, <2>3 DEF Filled
  <2>5. Cardinality(holes) = 0
    BY <2>2, FS_EmptySet
  <2> QED
    BY <1>3, <1>5, <1>7, <2>4, <2>5 DEF IsBuffer
<1> HIDE DEF buf
<1>12. <<buf, Len(taken), Len(taken)'>> \in RawCover'
  BY <1>7, <1>10, <1>11 DEF RawCover, Covering
<1>13. PICK g, r, h, c, p \in Nat :
        /\ g <= r /\ r <= h /\ h <= c /\ c <= p /\ p <= Len(taken)
        /\ Flow(g, r, h, c, p) /\ Len(taken) \in Nat
  BY Marks
<1>14. /\ IsShaped(stream') /\ stream'["raw"].items = Append(stream["raw"].items, buf)
       /\ stream'["raw"].items \in Seq(SampleBuffers)
       /\ stream'["packets"].items = stream["packets"].items
       /\ stream'["chunks"].items = stream["chunks"].items
       /\ stream'["readings"].items = stream["readings"].items
  <2>1. IsShaped(stream) /\ stream["raw"].items \in Seq(SampleBuffers)
    BY DEF Moving, QueueTypes
  <2>2. stream' = Send(stream, "raw", <<buf>>)
    BY <1>1 DEF buf
  <2>3. /\ IsShaped(stream') /\ stream'["raw"].items = stream["raw"].items \o <<buf>>
        /\ \A q \in Streams \ {"raw"} : stream'[q] = stream[q]
    <3>1. HasNow(stream', stream, "raw", stream["raw"].items \o <<buf>>)
      BY <2>1, <2>2, SendIs DEF Streams
    <3> QED
      BY <3>1 DEF HasNow
  <2>4. /\ stream["raw"].items \o <<buf>> = Append(stream["raw"].items, buf)
        /\ Append(stream["raw"].items, buf) \in Seq(SampleBuffers)
    BY <1>10, <2>1, SendOne
  <2> QED
    BY <2>3, <2>4 DEF Streams
<1>15. UNCHANGED chunkVars /\ UNCHANGED aggrVars
  BY DEF CollectorFills
<1>16. Chunking(windows, stored, h, c)' /\ Summing(start, gathered, g)'
  BY <1>8, <1>13, <1>15, ChunkingKept, SummingKept DEF Flow
<1>17. /\ Row(stream["readings"].items, ReadingCover, g, r)'
       /\ Row(stream["chunks"].items, ChunkCover, r, h)'
       /\ Row(stream["packets"].items, PacketCover, c, p)'
  BY <1>8, <1>13, <1>14, RowsLater DEF Flow
<1>18. Row(stream["raw"].items, RawCover, p, Len(taken))'
  <2>1. Row(stream["raw"].items, RawCover', p, Len(taken))
    BY <1>8, <1>13, RowsLater DEF Flow
  <2>2. stream["raw"].items \in Seq(SampleBuffers)
    BY DEF Moving, QueueTypes
  <2>3. Len(taken)' \in Nat /\ Len(taken) <= Len(taken)'
    BY <1>7
  <2>4. Row(Append(stream["raw"].items, buf), RawCover', p, Len(taken)')
    BY <1>10, <1>12, <1>13, <2>1, <2>2, <2>3, RowAppend
  <2> QED
    BY <1>14, <2>4
<1>19. Len(taken)' \in Nat /\ p <= Len(taken)'
  BY <1>7, <1>13
<1>20. Flows'
  BY <1>13, <1>16, <1>17, <1>18, <1>19, Marked
<1>21. QueueTypes'
  BY <1>7, <1>14, <1>15 DEF Moving, QueueTypes, chunkVars, aggrVars
<1> QED
  BY <1>20, <1>21 DEF Moving

\* The first item of one stream is taken out, and bufs go into another.
Passed(a, b, bufs) ==
    /\ IsShaped(stream')
    /\ stream'[a].items = Tail(stream[a].items)
    /\ stream'[b].items = stream[b].items \o bufs
    /\ \A q \in Streams \ {a, b} : stream'[q] = stream[q]
    /\ \A q \in Streams : stream'[q].closed = stream[q].closed

LEMMA PassedIs ==
    ASSUME IsShaped(stream), NEW a \in Streams, NEW b \in Streams \ {a}, NEW bufs,
           stream' = Send(Removed(a), b, bufs)
    PROVE  Passed(a, b, bufs)
<1>1. HasNow(Removed(a), stream, a, Tail(stream[a].items))
  BY RemovedIs
<1> DEFINE mid == Removed(a)
<1> HIDE DEF mid
<1>2. /\ IsShaped(mid) /\ mid[a].items = Tail(stream[a].items)
      /\ \A q \in Streams \ {a} : mid[q] = stream[q]
      /\ \A q \in Streams : mid[q].closed = stream[q].closed
  BY <1>1 DEF HasNow, mid
<1>3. HasNow(Send(mid, b, bufs), mid, b, mid[b].items \o bufs)
  BY <1>2, SendIs
<1>4. stream' = Send(mid, b, bufs)
  BY DEF mid
<1>5. HasNow(stream', mid, b, mid[b].items \o bufs)
  BY <1>3, <1>4
<1>6. mid[b] = stream[b]
  BY <1>2
<1> QED
  BY <1>2, <1>5, <1>6 DEF Passed, HasNow

\* bufs go into a stream, which ends.
Finished(b, bufs) ==
    /\ IsShaped(stream') /\ stream'[b].items = stream[b].items \o bufs
    /\ stream'[b].closed = TRUE
    /\ \A q \in Streams \ {b} : stream'[q] = stream[q]

LEMMA FinishedIs ==
    ASSUME IsShaped(stream), NEW b \in Streams, NEW bufs,
           stream' = End(Send(stream, b, bufs), b)
    PROVE  Finished(b, bufs)
<1>1. HasNow(Send(stream, b, bufs), stream, b, stream[b].items \o bufs)
  BY SendIs
<1> DEFINE mid == Send(stream, b, bufs)
<1> HIDE DEF mid
<1>2. /\ IsShaped(mid) /\ mid[b].items = stream[b].items \o bufs
      /\ \A q \in Streams \ {b} : mid[q] = stream[q]
  BY <1>1 DEF HasNow, mid
<1>3. stream' = End(mid, b)
  BY DEF mid
<1>4. IsOver(stream', mid, b)
  BY <1>2, <1>3, EndIs
<1> QED
  BY <1>2, <1>4 DEF Finished, IsOver

LEMMA ReaderPassesMoving == Moving /\ ReaderPasses => Moving'
<1> SUFFICES ASSUME Moving, ReaderPasses PROVE Moving'
  OBVIOUS
<1> DEFINE buf == Next1("raw")
<1>1. /\ stream["raw"].items # <<>> /\ ~Contains(buf, Hole)
      /\ stream' = Send(Removed("raw"), "packets", <<buf>>)
      /\ UNCHANGED taken /\ UNCHANGED chunkVars /\ UNCHANGED aggrVars
  BY DEF ReaderPasses, HasNext
<1>2. /\ IsShaped(stream) /\ taken \in Seq(Types)
      /\ stream["raw"].items \in Seq(SampleBuffers)
      /\ stream["packets"].items \in Seq(SampleBuffers)
  BY DEF Moving, QueueTypes
<1>3. buf = Head(stream["raw"].items) /\ buf \in SampleBuffers
      /\ Tail(stream["raw"].items) \in Seq(SampleBuffers)
  BY <1>1, <1>2, HeadTailProperties DEF Next1
<1> HIDE DEF buf
<1>4. Grown /\ Len(taken)' = Len(taken)
  BY <1>1, <1>2, TakenStays
<1>5. PICK g, r, h, c, p \in Nat :
        /\ g <= r /\ r <= h /\ h <= c /\ c <= p /\ p <= Len(taken)
        /\ Flow(g, r, h, c, p) /\ Len(taken) \in Nat
  BY Marks
<1>6. Passed("raw", "packets", <<buf>>)
  BY <1>1, <1>2, PassedIs DEF Streams
<1>7. /\ stream["packets"].items \o <<buf>> = Append(stream["packets"].items, buf)
      /\ Append(stream["packets"].items, buf) \in Seq(SampleBuffers)
  BY <1>2, <1>3, SendOne
<1>8. /\ IsShaped(stream') /\ stream'["raw"].items = Tail(stream["raw"].items)
      /\ stream'["packets"].items = Append(stream["packets"].items, buf)
      /\ stream'["chunks"].items = stream["chunks"].items
      /\ stream'["readings"].items = stream["readings"].items
  BY <1>6, <1>7 DEF Passed, Streams
<1>9. PICK mid \in p..Len(taken) :
        /\ <<buf, p, mid>> \in RawCover
        /\ Row(Tail(stream["raw"].items), RawCover, mid, Len(taken))
  <2>1. Row(stream["raw"].items, RawCover, p, Len(taken))
    BY <1>5 DEF Flow
  <2> QED
    BY <1>1, <1>2, <1>3, <1>5, <2>1, RowTail
<1>10. mid \in Nat /\ p <= mid /\ mid <= Len(taken)
  BY <1>5, <1>9
<1>11. <<buf, p, mid>> \in PacketCover
  BY <1>1, <1>9 DEF RawCover, PacketCover, IsRaw
<1>12. Row(Append(stream["packets"].items, buf), PacketCover, c, mid)
  BY <1>2, <1>3, <1>5, <1>10, <1>11, RowAppend DEF Flow
<1>13. Chunking(windows, stored, h, c)' /\ Summing(start, gathered, g)'
  BY <1>1, <1>4, <1>5, ChunkingKept, SummingKept DEF Flow
<1>14. /\ Row(stream["readings"].items, ReadingCover, g, r)'
       /\ Row(stream["chunks"].items, ChunkCover, r, h)'
       /\ Row(stream["packets"].items, PacketCover, c, mid)'
       /\ Row(stream["raw"].items, RawCover, mid, Len(taken))'
  BY <1>4, <1>5, <1>8, <1>9, <1>12, RowsLater DEF Flow
<1>15. c <= mid /\ mid <= Len(taken)' /\ Len(taken)' \in Nat
  BY <1>4, <1>5, <1>10
<1>16. Flows'
  BY <1>5, <1>10, <1>13, <1>14, <1>15, Marked
<1>17. QueueTypes'
  BY <1>1, <1>2, <1>3, <1>7, <1>8 DEF Moving, QueueTypes, chunkVars, aggrVars
<1> QED
  BY <1>16, <1>17 DEF Moving

\* READER and APPLIER have nothing left to send when they are over.
LEMMA EndsEmpty ==
    ASSUME Moving, NEW b \in Streams, stream' = End(Send(stream, b, <<>>), b),
           UNCHANGED <<taken, chunkVars, aggrVars>>
    PROVE  Moving'
<1>1. Finished(b, <<>>)
  BY FinishedIs DEF Moving, QueueTypes
<1>2. \E X : stream[b].items \in Seq(X)
  BY DEF Moving, QueueTypes, Streams
<1>3. stream[b].items \o <<>> = stream[b].items
  BY <1>2, ConcatEmptySeq
<1> QED
  BY <1>1, <1>3, MovingKept DEF Finished

LEMMA ChunkStateIs ==
    ASSUME Moving
    PROVE  /\ ChunkState \in ChunkStates /\ ChunkState.out = <<>>
           /\ ChunkState.windows = windows /\ ChunkState.stored = stored
BY EmptySeq DEF Moving, QueueTypes, ChunkStates, ChunkState

\* A whole buffer of samples that follow what the chunker has seen.
LEMMA ChunkedCovers ==
    ASSUME Moving, NEW buf \in SampleBuffers, NEW h \in Nat, NEW c \in Nat, NEW mid \in Nat,
           h <= c, mid <= Len(taken), Len(taken) \in Nat, IsBuffer(buf, c, mid),
           Chunking(windows, stored, h, c)
    PROVE  /\ Chunked(buf)[Len(buf)] \in ChunkStates
           /\ Cuts(Chunked(buf)[Len(buf)], h, mid)
<1> DEFINE n == Len(buf)
           st == Chunked(buf)
<1>1. /\ st \in [0..n -> ChunkStates] /\ st[0] = ChunkState
      /\ \A i \in 1..n : st[i] = Sees(st[i - 1], buf[i])
  BY ChunkStateIs, ChunkedSteps DEF SampleBuffers
<1>2. n = BufferSize /\ n \in Nat /\ mid = c + n /\ \A i \in 1..n : buf[i] = c + i
  BY SizesAssumption DEF IsBuffer, SampleBuffers
<1> HIDE DEF n, st
<1> DEFINE T == {i \in 0..n : Cuts(st[i], h, c + i)}
<1>3. 0 \in T
  <2>1. Row(ChunkState.out, ChunkCover, h, h) /\ h \in h..c
    BY ChunkStateIs, RowEmpty
  <2>2. Chunking(ChunkState.windows, ChunkState.stored, h, c)
    BY ChunkStateIs
  <2>3. Cuts(ChunkState, h, c)
    BY <2>1, <2>2 DEF Cuts
  <2>4. c + 0 = c /\ 0 \in 0..n
    BY <1>2
  <2> QED
    BY <1>1, <2>3, <2>4
<1>4. \A i \in 1..n : i - 1 \in T => i \in T
  <2> SUFFICES ASSUME NEW i \in 1..n, i - 1 \in T PROVE i \in T
    OBVIOUS
  <2>1. /\ i \in 0..n /\ i - 1 \in 0..n /\ c + i \in 1..Len(taken) /\ h < c + i
        /\ c + (i - 1) = (c + i) - 1
    BY <1>2
  <2>2. Cuts(st[i - 1], h, (c + i) - 1) /\ st[i - 1] \in ChunkStates
    BY <1>1, <2>1
  <2>3. Cuts(Sees(st[i - 1], c + i), h, c + i)
    BY <2>1, <2>2, CutsNext
  <2>4. st[i] = Sees(st[i - 1], c + i)
    BY <1>1, <1>2
  <2> QED
    BY <2>1, <2>3, <2>4
<1> HIDE DEF T
<1>5. 0..n \subseteq T
  BY <1>2, <1>3, <1>4, UpTo
<1>6. Cuts(st[n], h, mid) /\ st[n] \in ChunkStates
  <2>1. n \in 0..n
    BY <1>2
  <2>2. Cuts(st[n], h, c + n)
    BY <1>5, <2>1 DEF T
  <2> QED
    BY <1>1, <1>2, <2>1, <2>2
<1> QED
  BY <1>6 DEF n, st

LEMMA ChunkerChunksMoving == Moving /\ ChunkerChunks => Moving'
<1> SUFFICES ASSUME Moving, ChunkerChunks PROVE Moving'
  OBVIOUS
<1> DEFINE buf == Next1("packets")
<1>1. PICK st : st = Chunked(buf)[Len(buf)]
  OBVIOUS
<1>2. /\ stream["packets"].items # <<>>
      /\ stored' = st.stored /\ windows' = st.windows
      /\ stream' = Send(Removed("packets"), "chunks", st.out)
      /\ UNCHANGED taken /\ UNCHANGED aggrVars
  BY <1>1 DEF ChunkerChunks, HasNext
<1>3. /\ IsShaped(stream) /\ taken \in Seq(Types)
      /\ stream["packets"].items \in Seq(SampleBuffers)
      /\ stream["chunks"].items \in Seq(Chunks)
  BY DEF Moving, QueueTypes
<1>4. buf = Head(stream["packets"].items) /\ buf \in SampleBuffers
      /\ Tail(stream["packets"].items) \in Seq(SampleBuffers)
  BY <1>2, <1>3, HeadTailProperties DEF Next1
<1> HIDE DEF buf
<1>5. Grown /\ Len(taken)' = Len(taken)
  BY <1>2, <1>3, TakenStays
<1>6. PICK g, r, h, c, p \in Nat :
        /\ g <= r /\ r <= h /\ h <= c /\ c <= p /\ p <= Len(taken)
        /\ Flow(g, r, h, c, p) /\ Len(taken) \in Nat
  BY Marks
<1>7. PICK mid \in c..p :
        /\ <<buf, c, mid>> \in PacketCover
        /\ Row(Tail(stream["packets"].items), PacketCover, mid, p)
  <2>1. Row(stream["packets"].items, PacketCover, c, p)
    BY <1>6 DEF Flow
  <2> QED
    BY <1>2, <1>3, <1>4, <1>6, <2>1, RowTail
<1>8. mid \in Nat /\ c <= mid /\ mid <= p /\ mid <= Len(taken)
  BY <1>6, <1>7
<1>9. st \in ChunkStates /\ Cuts(st, h, mid)
  <2>1. IsBuffer(buf, c, mid)
    BY <1>7 DEF PacketCover
  <2>2. Chunking(windows, stored, h, c)
    BY <1>6 DEF Flow
  <2> QED
    BY <1>1, <1>4, <1>6, <1>8, <2>1, <2>2, ChunkedCovers
<1>10. PICK new \in h..mid :
        /\ Row(st.out, ChunkCover, h, new)
        /\ Chunking(st.windows, st.stored, new, mid)
  BY <1>9 DEF Cuts
<1>11. new \in Nat /\ h <= new /\ new <= mid
  BY <1>6, <1>8, <1>10
<1>12. /\ st.out \in Seq(Chunks) /\ st.windows \in [Origins -> Seq(Nat)]
       /\ st.stored \in Seq(Nat)
  BY <1>9 DEF ChunkStates
<1>13. Passed("packets", "chunks", st.out)
  BY <1>2, <1>3, PassedIs DEF Streams
<1>14. /\ IsShaped(stream') /\ stream'["raw"].items = stream["raw"].items
       /\ stream'["packets"].items = Tail(stream["packets"].items)
       /\ stream'["chunks"].items = stream["chunks"].items \o st.out
       /\ stream'["readings"].items = stream["readings"].items
  BY <1>13 DEF Passed, Streams
<1>15. Row(stream["chunks"].items \o st.out, ChunkCover, r, new)
       /\ stream["chunks"].items \o st.out \in Seq(Chunks)
  <2>1. Row(stream["chunks"].items, ChunkCover, r, h)
    BY <1>6 DEF Flow
  <2>2. Row(stream["chunks"].items \o st.out, ChunkCover, r, new)
    BY <1>3, <1>6, <1>10, <1>11, <1>12, <2>1, RowConcat
  <2> QED
    BY <1>3, <1>12, <2>2, ConcatProperties
<1>16. Chunking(windows, stored, new, mid)'
  <2>1. PICK win, kept : win = st.windows /\ kept = st.stored
    OBVIOUS
  <2>2. mid \in 0..Len(taken) /\ Chunking(win, kept, new, mid)
    BY <1>6, <1>8, <1>10, <2>1
  <2>3. Chunking(win, kept, new, mid)'
    BY <1>5, <1>11, <2>2, GrownChunking
  <2>4. windows' = win /\ stored' = kept
    BY <1>2, <2>1
  <2> QED
    BY <2>3, <2>4 DEF Chunking
<1>17. Summing(start, gathered, g)'
  BY <1>2, <1>5, <1>6, SummingKept DEF Flow
<1>18. /\ Row(stream["readings"].items, ReadingCover, g, r)'
       /\ Row(stream["chunks"].items, ChunkCover, r, new)'
       /\ Row(stream["packets"].items, PacketCover, mid, p)'
       /\ Row(stream["raw"].items, RawCover, p, Len(taken))'
  BY <1>5, <1>6, <1>7, <1>14, <1>15, RowsLater DEF Flow
<1>19. r <= new /\ p <= Len(taken)' /\ Len(taken)' \in Nat
  BY <1>5, <1>6, <1>11
<1>20. Flows'
  BY <1>6, <1>8, <1>11, <1>16, <1>17, <1>18, <1>19, Marked
<1>21. QueueTypes'
  BY <1>2, <1>3, <1>4, <1>12, <1>14, <1>15 DEF Moving, QueueTypes, aggrVars
<1> QED
  BY <1>20, <1>21 DEF Moving

LEMMA ChunkerEndsMoving == Moving /\ ChunkerEnds => Moving'
<1> SUFFICES ASSUME Moving, ChunkerEnds PROVE Moving'
  OBVIOUS
<1>1. PICK chunk, win : chunk = Cut(ChunkState) /\ win = windows
  OBVIOUS
<1>2. /\ stream["packets"].items = <<>>
      /\ stored' = <<>> /\ windows' = win
      /\ stream' = End(Send(stream, "chunks", <<chunk>>), "chunks")
      /\ UNCHANGED taken /\ UNCHANGED aggrVars
  BY <1>1 DEF ChunkerEnds, EndsAfter, AtEnd
<1>3. /\ IsShaped(stream) /\ taken \in Seq(Types) /\ windows \in [Origins -> Seq(Nat)]
      /\ stored \in Seq(Nat) /\ stream["chunks"].items \in Seq(Chunks)
  BY DEF Moving, QueueTypes
<1>4. Grown /\ Len(taken)' = Len(taken)
  BY <1>2, <1>3, TakenStays
<1>5. PICK g, r, h, c, p \in Nat :
        /\ g <= r /\ r <= h /\ h <= c /\ c <= p /\ p <= Len(taken)
        /\ Flow(g, r, h, c, p) /\ Len(taken) \in Nat
  BY Marks
<1>6. chunk \in Chunks /\ IsChunk(chunk, h, c)
  <2>1. Chunking(ChunkState.windows, ChunkState.stored, h, c) /\ ChunkState \in ChunkStates
    BY <1>5, ChunkStateIs DEF Flow
  <2>2. IsChunk(Cut(ChunkState), h, c)
    BY <1>5, <2>1, CutCovers
  <2>3. Cut(ChunkState) \in Chunks
    BY <1>3, ChunkStateIs DEF Cut, Chunks
  <2> QED
    BY <1>1, <2>2, <2>3
<1>7. <<chunk, h, c>> \in ChunkCover
  BY <1>5, <1>6 DEF ChunkCover, Covering
<1>8. Row(Append(stream["chunks"].items, chunk), ChunkCover, r, c)
  <2>1. Row(stream["chunks"].items, ChunkCover, r, h)
    BY <1>5 DEF Flow
  <2> QED
    BY <1>3, <1>5, <1>6, <1>7, <2>1, RowAppend
<1>9. Finished("chunks", <<chunk>>)
  BY <1>2, <1>3, FinishedIs DEF Streams
<1>10. /\ stream["chunks"].items \o <<chunk>> = Append(stream["chunks"].items, chunk)
       /\ Append(stream["chunks"].items, chunk) \in Seq(Chunks)
  BY <1>3, <1>6, SendOne
<1>11. /\ IsShaped(stream') /\ stream'["raw"].items = stream["raw"].items
       /\ stream'["packets"].items = stream["packets"].items
       /\ stream'["chunks"].items = Append(stream["chunks"].items, chunk)
       /\ stream'["readings"].items = stream["readings"].items
  BY <1>9, <1>10 DEF Finished, Streams
<1>12. Chunking(windows, stored, c, c)'
  <2>1. PICK kept : kept = <<>>
    OBVIOUS
  <2>2. Chunking(win, kept, c, c)
    <3>1. Measured(c, c) = {}
      BY <1>5 DEF Measured
    <3>2. Increasing(kept) /\ ToSet(kept) = {}
      BY <2>1, EmptyIs
    <3>3. \A o \in Origins : WindowAt(win[o], o, c)
      BY <1>1, <1>5 DEF Flow, Chunking
    <3> QED
      BY <3>1, <3>2, <3>3 DEF Chunking
  <2>3. Chunking(win, kept, c, c)'
    BY <1>4, <1>5, <2>2, GrownChunking
  <2> QED
    BY <1>2, <2>1, <2>3 DEF Chunking
<1>13. Summing(start, gathered, g)'
  BY <1>2, <1>4, <1>5, SummingKept DEF Flow
<1>14. /\ Row(stream["readings"].items, ReadingCover, g, r)'
       /\ Row(stream["chunks"].items, ChunkCover, r, c)'
       /\ Row(stream["packets"].items, PacketCover, c, p)'
       /\ Row(stream["raw"].items, RawCover, p, Len(taken))'
  BY <1>4, <1>5, <1>8, <1>11, RowsLater DEF Flow
<1>15. r <= c /\ p <= Len(taken)' /\ Len(taken)' \in Nat
  BY <1>4, <1>5
<1>16. Flows'
  BY <1>5, <1>12, <1>13, <1>14, <1>15, Marked
<1>17. QueueTypes'
  BY <1>1, <1>2, <1>3, <1>10, <1>11, EmptySeq DEF Moving, QueueTypes, aggrVars
<1> QED
  BY <1>16, <1>17 DEF Moving

\* What the applier makes of a chunk.
LEMMA ReadingsCover ==
    ASSUME NEW chunk \in Chunks, NEW a \in Nat, NEW b \in Nat, IsChunk(chunk, a, b)
    PROVE  Readings(chunk) \in ReadingBufs /\ IsReadings(Readings(chunk), a, b)
<1>1. /\ chunk.samples \in Seq(Nat) /\ chunk.snapshot \in [Origins -> Seq(Nat)]
      /\ Increasing(chunk.samples) /\ ToSet(chunk.samples) = Measured(a, b)
      /\ \A k \in ToSet(chunk.samples), o \in Origins : WindowAt(chunk.snapshot[o], o, k)
  BY DEF Chunks, IsChunk
<1>2. \A k \in Measured(a, b) : Calibrated(chunk.snapshot) <=> CalibratedAt(k)
  <2> SUFFICES ASSUME NEW k \in Measured(a, b)
               PROVE  Calibrated(chunk.snapshot) <=> CalibratedAt(k)
    OBVIOUS
  <2>1. k \in Nat /\ taken[k] = "measure"
    BY DEF Measured
  <2>2. \A o \in Origins : WindowAt(chunk.snapshot[o], o, k)
    BY <1>1
  <2> QED
    BY <2>1, <2>2, CalibratedIs
<1>3. CASE ~Calibrated(chunk.snapshot)
  <2> DEFINE none == Readings(chunk)
  <2>1. none = <<>>
    BY <1>3 DEF Readings
  <2> HIDE DEF none
  <2>2. none \in ReadingBufs /\ Len(none) = 0
    BY <2>1, EmptySeq DEF ReadingBufs
  <2>3. SamplesOf(none) = <<>>
    <3>1. SamplesOf(none) \in Seq(Nat) /\ Len(SamplesOf(none)) = 0
      BY <2>2, SamplesAre
    <3> QED
      BY <3>1, SeqFacts
  <2>4. UsableIn(a, b) = {}
    BY <1>2, <1>3 DEF UsableIn
  <2>5. Increasing(SamplesOf(none)) /\ ToSet(SamplesOf(none)) = UsableIn(a, b)
    BY <2>3, <2>4, EmptyIs
  <2>6. ToSet(none) = {}
    BY <2>1, EmptyIs
  <2>7. IsReadings(none, a, b)
    BY <2>5, <2>6 DEF IsReadings
  <2> QED
    BY <2>2, <2>7 DEF none
<1>4. CASE Calibrated(chunk.snapshot)
  <2> DEFINE n == Len(chunk.samples)
             one(i) == [sample |-> chunk.samples[i], by |-> chunk.snapshot]
             buf == Readings(chunk)
  <2>1. n \in Nat /\ DOMAIN chunk.samples = 1..n /\ \A i \in 1..n : chunk.samples[i] \in Nat
    BY <1>1, SeqFacts
  <2>2. buf = [i \in 1..n |-> one(i)]
    BY <1>4, <2>1 DEF Readings
  <2>3. \A i \in 1..n : one(i) \in AnyReading
    BY <1>1, <2>1 DEF AnyReading
  <2> HIDE DEF buf
  <2>4. buf \in ReadingBufs /\ Len(buf) = n /\ DOMAIN buf = 1..n
    <3>1. buf \in [1..n -> AnyReading]
      BY <2>2, <2>3
    <3> HIDE DEF n
    <3> QED
      BY <2>1, <3>1 DEF ReadingBufs
  <2>5. SamplesOf(buf) = chunk.samples
    <3>1. /\ SamplesOf(buf) \in Seq(Nat) /\ Len(SamplesOf(buf)) = n
          /\ \A i \in 1..n : SamplesOf(buf)[i] = buf[i].sample
      BY <2>4, SamplesAre
    <3>2. \A i \in 1..n : SamplesOf(buf)[i] = chunk.samples[i]
      BY <2>2, <3>1
    <3> QED
      BY <1>1, <3>1, <3>2, SeqEqual
  <2>6. UsableIn(a, b) = Measured(a, b)
    BY <1>2, <1>4 DEF UsableIn
  <2>7. \A r \in ToSet(buf) : Right(r)
    <3> SUFFICES ASSUME NEW i \in 1..n PROVE Right(buf[i])
      BY <2>4 DEF ToSet
    <3>1. buf[i].sample = chunk.samples[i] /\ buf[i].by = chunk.snapshot
      BY <2>2
    <3>2. chunk.samples[i] \in ToSet(chunk.samples)
      BY <2>1 DEF ToSet
    <3>3. \A o \in Origins : Len(chunk.snapshot[o]) = Window
      BY <1>4 DEF Calibrated
    <3> QED
      BY <1>1, <3>1, <3>2, <3>3 DEF Right
  <2>8. IsReadings(buf, a, b)
    BY <1>1, <2>5, <2>6, <2>7 DEF IsReadings
  <2> QED
    BY <2>4, <2>8 DEF buf
<1> QED
  BY <1>3, <1>4

LEMMA ApplierAppliesMoving == Moving /\ ApplierApplies => Moving'
<1> SUFFICES ASSUME Moving, ApplierApplies PROVE Moving'
  OBVIOUS
<1> DEFINE chunk == Next1("chunks")
           buf == Readings(chunk)
<1>1. /\ stream["chunks"].items # <<>>
      /\ stream' = Send(Removed("chunks"), "readings", <<buf>>)
      /\ UNCHANGED taken /\ UNCHANGED chunkVars /\ UNCHANGED aggrVars
  BY DEF ApplierApplies, HasNext
<1>2. /\ IsShaped(stream) /\ taken \in Seq(Types)
      /\ stream["chunks"].items \in Seq(Chunks)
      /\ stream["readings"].items \in Seq(ReadingBufs)
  BY DEF Moving, QueueTypes
<1>3. chunk = Head(stream["chunks"].items) /\ chunk \in Chunks
      /\ Tail(stream["chunks"].items) \in Seq(Chunks)
  BY <1>1, <1>2, HeadTailProperties DEF Next1
<1> HIDE DEF chunk
<1>4. Grown /\ Len(taken)' = Len(taken)
  BY <1>1, <1>2, TakenStays
<1>5. PICK g, r, h, c, p \in Nat :
        /\ g <= r /\ r <= h /\ h <= c /\ c <= p /\ p <= Len(taken)
        /\ Flow(g, r, h, c, p) /\ Len(taken) \in Nat
  BY Marks
<1>6. PICK mid \in r..h :
        /\ <<chunk, r, mid>> \in ChunkCover
        /\ Row(Tail(stream["chunks"].items), ChunkCover, mid, h)
  <2>1. Row(stream["chunks"].items, ChunkCover, r, h)
    BY <1>5 DEF Flow
  <2> QED
    BY <1>1, <1>2, <1>3, <1>5, <2>1, RowTail
<1>7. mid \in Nat /\ r <= mid /\ mid <= h /\ mid <= Len(taken)
  BY <1>5, <1>6
<1>8. buf \in ReadingBufs /\ IsReadings(buf, r, mid)
  <2>1. IsChunk(chunk, r, mid)
    BY <1>6 DEF ChunkCover
  <2> QED
    BY <1>3, <1>5, <1>7, <2>1, ReadingsCover
<1> HIDE DEF buf
<1>9. <<buf, r, mid>> \in ReadingCover
  BY <1>5, <1>7, <1>8 DEF ReadingCover, Covering
<1>10. Row(Append(stream["readings"].items, buf), ReadingCover, g, mid)
  <2>1. Row(stream["readings"].items, ReadingCover, g, r)
    BY <1>5 DEF Flow
  <2> QED
    BY <1>2, <1>5, <1>7, <1>8, <1>9, <2>1, RowAppend
<1>11. Passed("chunks", "readings", <<buf>>)
  BY <1>1, <1>2, PassedIs DEF Streams
<1>12. /\ stream["readings"].items \o <<buf>> = Append(stream["readings"].items, buf)
       /\ Append(stream["readings"].items, buf) \in Seq(ReadingBufs)
  BY <1>2, <1>8, SendOne
<1>13. /\ IsShaped(stream') /\ stream'["raw"].items = stream["raw"].items
       /\ stream'["packets"].items = stream["packets"].items
       /\ stream'["chunks"].items = Tail(stream["chunks"].items)
       /\ stream'["readings"].items = Append(stream["readings"].items, buf)
  BY <1>11, <1>12 DEF Passed, Streams
<1>14. Chunking(windows, stored, h, c)' /\ Summing(start, gathered, g)'
  BY <1>1, <1>4, <1>5, ChunkingKept, SummingKept DEF Flow
<1>15. /\ Row(stream["readings"].items, ReadingCover, g, mid)'
       /\ Row(stream["chunks"].items, ChunkCover, mid, h)'
       /\ Row(stream["packets"].items, PacketCover, c, p)'
       /\ Row(stream["raw"].items, RawCover, p, Len(taken))'
  BY <1>4, <1>5, <1>6, <1>10, <1>13, RowsLater DEF Flow
<1>16. g <= mid /\ p <= Len(taken)' /\ Len(taken)' \in Nat
  BY <1>4, <1>5, <1>7
<1>17. Flows'
  BY <1>5, <1>7, <1>14, <1>15, <1>16, Marked
<1>18. QueueTypes'
  BY <1>1, <1>2, <1>3, <1>12, <1>13 DEF Moving, QueueTypes, chunkVars, aggrVars
<1> QED
  BY <1>17, <1>18 DEF Moving

LEMMA AggregatorSumsMoving == Moving /\ AggregatorSums => Moving'
<1> SUFFICES ASSUME Moving, AggregatorSums PROVE Moving'
  OBVIOUS
<1> DEFINE buf == Next1("readings")
<1>1. PICK st : st = Summed(buf)[Len(buf)]
  OBVIOUS
<1>2. /\ stream["readings"].items # <<>>
      /\ start' = st.start /\ gathered' = st.gathered
      /\ stream' = Removed("readings")
      /\ UNCHANGED taken /\ UNCHANGED chunkVars
  BY <1>1 DEF AggregatorSums, HasNext
<1>3. /\ IsShaped(stream) /\ taken \in Seq(Types)
      /\ stream["readings"].items \in Seq(ReadingBufs)
      /\ start \in Nat /\ gathered \in ReadingBufs
  BY DEF Moving, QueueTypes
<1>4. buf = Head(stream["readings"].items) /\ buf \in ReadingBufs
      /\ Tail(stream["readings"].items) \in Seq(ReadingBufs)
  BY <1>2, <1>3, HeadTailProperties DEF Next1
<1> HIDE DEF buf
<1>5. Grown /\ Len(taken)' = Len(taken)
  BY <1>2, <1>3, TakenStays
<1>6. PICK g, r, h, c, p \in Nat :
        /\ g <= r /\ r <= h /\ h <= c /\ c <= p /\ p <= Len(taken)
        /\ Flow(g, r, h, c, p) /\ Len(taken) \in Nat
  BY Marks
<1>7. PICK mid \in g..r :
        /\ <<buf, g, mid>> \in ReadingCover
        /\ Row(Tail(stream["readings"].items), ReadingCover, mid, r)
  <2>1. Row(stream["readings"].items, ReadingCover, g, r)
    BY <1>6 DEF Flow
  <2> QED
    BY <1>2, <1>3, <1>4, <1>6, <2>1, RowTail
<1>8. mid \in Nat /\ g <= mid /\ mid <= r /\ mid <= Len(taken)
  BY <1>6, <1>7
<1>9. st \in SumStates /\ Summing(st.start, st.gathered, mid)
  <2>1. IsReadings(buf, g, mid)
    BY <1>7 DEF ReadingCover
  <2>2. Summing(start, gathered, g)
    BY <1>6 DEF Flow
  <2>3. PICK first : first = [start |-> start, gathered |-> gathered]
    OBVIOUS
  <2>4. first \in SumStates
    BY <1>3, <2>3 DEF SumStates
  <2> QED
    BY <1>1, <1>4, <1>6, <1>8, <2>1, <2>2, <2>3, <2>4, SummedCovers
<1>10. HasNow(stream', stream, "readings", Tail(stream["readings"].items))
  BY <1>2, <1>3, RemovedIs DEF Streams
<1>11. /\ IsShaped(stream') /\ stream'["raw"].items = stream["raw"].items
       /\ stream'["packets"].items = stream["packets"].items
       /\ stream'["chunks"].items = stream["chunks"].items
       /\ stream'["readings"].items = Tail(stream["readings"].items)
  BY <1>10 DEF HasNow, Streams
<1>12. Summing(start, gathered, mid)'
  <2>1. PICK from, got : from = st.start /\ got = st.gathered
    OBVIOUS
  <2>2. mid \in 0..Len(taken) /\ Summing(from, got, mid)
    BY <1>6, <1>8, <1>9, <2>1
  <2>3. Summing(from, got, mid)'
    BY <1>5, <2>2, GrownSumming
  <2>4. start' = from /\ gathered' = got
    BY <1>2, <2>1
  <2> QED
    BY <2>3, <2>4 DEF Summing
<1>13. Chunking(windows, stored, h, c)'
  BY <1>2, <1>5, <1>6, ChunkingKept DEF Flow
<1>14. /\ Row(stream["readings"].items, ReadingCover, mid, r)'
       /\ Row(stream["chunks"].items, ChunkCover, r, h)'
       /\ Row(stream["packets"].items, PacketCover, c, p)'
       /\ Row(stream["raw"].items, RawCover, p, Len(taken))'
  BY <1>5, <1>6, <1>7, <1>11, RowsLater DEF Flow
<1>15. p <= Len(taken)' /\ Len(taken)' \in Nat
  BY <1>5, <1>6
<1>16. Flows'
  BY <1>6, <1>8, <1>12, <1>13, <1>14, <1>15, Marked
<1>17. QueueTypes'
  BY <1>2, <1>3, <1>4, <1>9, <1>11 DEF Moving, QueueTypes, chunkVars, SumStates
<1> QED
  BY <1>16, <1>17 DEF Moving

LEMMA MovingNext == Moving /\ [Next]_vars => Moving'
<1> SUFFICES ASSUME Moving, [Next]_vars PROVE Moving'
  OBVIOUS
<1>1. CASE CollectorFills
  BY <1>1, CollectorFillsMoving
<1>2. CASE CollectorEndsStream
  BY <1>2, EndsMoving DEF CollectorEndsStream, Streams
<1>3. CASE ReaderPasses
  BY <1>3, ReaderPassesMoving
<1>4. CASE ReaderEnds
  BY <1>4, EndsEmpty DEF ReaderEnds, EndsAfter, Streams
<1>5. CASE ChunkerChunks
  BY <1>5, ChunkerChunksMoving
<1>6. CASE ChunkerEnds
  BY <1>6, ChunkerEndsMoving
<1>7. CASE ApplierApplies
  BY <1>7, ApplierAppliesMoving
<1>8. CASE ApplierEnds
  BY <1>8, EndsEmpty DEF ApplierEnds, EndsAfter, Streams
<1>9. CASE AggregatorSums
  BY <1>9, AggregatorSumsMoving
<1>10. ASSUME UNCHANGED <<taken, stream, chunkVars, aggrVars>> PROVE Moving'
  <2>1. IsShaped(stream)
    BY DEF Moving, QueueTypes
  <2> QED
    BY <1>10, <2>1, MovingKept
<1>11. CASE TakeSamples \/ RunReturns \/ HvpmStep \/ NormalizerStep
  BY <1>10, <1>11 DEF TakeSamples, RunReturns, HvpmStep, HvpmOpens, HvpmRunsLine,
                      HvpmFails, HvpmEnds, NormalizerStep, NormalizerRunsLine,
                      NormalizerEnds
<1>12. CASE CollectorBegins \/ CollectorFails \/ CollectorCloses
  BY <1>10, <1>12 DEF CollectorBegins, CollectorFails, CollectorCloses
<1>13. CASE ReaderRaises \/ ApplierRaises \/ AggregatorEnds
  BY <1>10, <1>13 DEF ReaderRaises, ApplierRaises, AggregatorEnds, Raises
<1>14. CASE UNCHANGED vars
  BY <1>10, <1>14 DEF vars
<1> QED
  BY <1>1, <1>2, <1>3, <1>4, <1>5, <1>6, <1>7, <1>8, <1>9, <1>11, <1>12, <1>13, <1>14
     DEF Next, CollectorStep, ReaderStep, ChunkerStep, ApplierStep, AggregatorStep

LEMMA MovingInit == Init => Moving
<1> SUFFICES ASSUME Init PROVE Moving
  OBVIOUS
<1>1. /\ IsShaped(stream) /\ taken = <<>> /\ stored = <<>> /\ gathered = <<>> /\ start = 0
      /\ windows = [o \in Origins |-> <<>>]
      /\ stream["raw"].items = <<>> /\ stream["packets"].items = <<>>
      /\ stream["chunks"].items = <<>> /\ stream["readings"].items = <<>>
  BY DEF Init, IsShaped, Streams
<1>2. QueueTypes
  BY <1>1, EmptySeq DEF QueueTypes, ReadingBufs
<1>3. Len(taken) = 0
  BY <1>1, EmptyIs
<1>4. Measured(0, 0) = {} /\ UsableIn(0, 0) = {}
  BY DEF Measured, UsableIn
<1>5. Chunking(windows, stored, 0, 0)
  <2>1. \A o \in Origins : windows[o] = <<>>
    BY <1>1
  <2>2. \A o : WindowAt(<<>>, o, 0)
    BY SizesAssumption, EmptySeq, EmptyIs DEF WindowAt
  <2> QED
    BY <1>1, <1>4, <2>1, <2>2, EmptyIs DEF Chunking
<1>6. Summing(start, gathered, 0)
  <2>1. SamplesOf(gathered) = <<>> /\ ToSet(gathered) = {}
    <3>1. gathered \in ReadingBufs /\ Len(gathered) = 0
      BY <1>1, EmptySeq DEF ReadingBufs
    <3>2. SamplesOf(gathered) \in Seq(Nat) /\ Len(SamplesOf(gathered)) = 0
      BY <3>1, SamplesAre
    <3> QED
      BY <1>1, <3>2, SeqFacts, EmptyIs
  <2> QED
    BY <1>1, <1>4, <2>1, EmptyIs DEF Summing
<1>7. Flow(0, 0, 0, 0, 0)
  BY <1>1, <1>3, <1>5, <1>6, RowEmpty DEF Flow
<1>8. Flows
  <2>1. 0 \in 0..Len(taken)
    BY <1>3
  <2> QED
    BY <1>7, <2>1 DEF Flows
<1> QED
  BY <1>2, <1>8 DEF Moving

------------------------------------------------------------------------------
(* Who is over when *)

LEMMA EndsInOrderInit == Init => EndsInOrder
<1> SUFFICES ASSUME Init PROVE EndsInOrder
  OBVIOUS
<1>1. \A n \in Nodes : node[n] = "unborn"
  BY DEF Init
<1>2. DOMAIN stream = Streams /\ \A s \in Streams : stream[s].closed = FALSE
  BY DEF Init
<1> QED
  BY <1>1, <1>2 DEF EndsInOrder, Fresh, Nodes, Streams

LEMMA EndsInOrderNext == Moving /\ Handover /\ EndsInOrder /\ [Next]_vars => EndsInOrder'
<1> SUFFICES ASSUME Moving, Handover, EndsInOrder, [Next]_vars PROVE EndsInOrder'
  OBVIOUS
<1>0. /\ IsShaped(stream) /\ node \in [Nodes -> NodePCs]
      /\ Nodes = {"hvpm", "aggregator", "collector", "normalizer", "reader", "chunker",
                  "applier"}
      /\ Streams = {"raw", "packets", "chunks", "readings"}
  BY DEF Moving, QueueTypes, Handover, Nodes, Streams
<1>1. ASSUME UNCHANGED <<stream, stored>>, TakeSamples \/ RunReturns \/ HvpmStep
      PROVE  EndsInOrder'
  BY <1>0, <1>1 DEF TakeSamples, RunReturns, HvpmStep, HvpmOpens, HvpmRunsLine, HvpmFails,
     HvpmEnds, Handover, EndsInOrder, Fresh, AtEnd, Goto
<1>2. ASSUME UNCHANGED <<stream, stored>>,
             NormalizerStep \/ CollectorBegins \/ CollectorFails \/ CollectorCloses
      PROVE  EndsInOrder'
  BY <1>0, <1>2 DEF NormalizerStep, NormalizerRunsLine, NormalizerEnds, CollectorBegins,
     CollectorFails, CollectorCloses, EndsInOrder, Fresh, AtEnd, Goto
<1>3. ASSUME UNCHANGED <<stream, stored>>, ReaderRaises \/ ApplierRaises \/ AggregatorEnds
      PROVE  EndsInOrder'
  BY <1>0, <1>3 DEF ReaderRaises, ApplierRaises, AggregatorEnds, Raises, EndsInOrder,
     Fresh, AtEnd, Goto
<1>4. CASE CollectorFills
  <2>1. PICK buf : stream' = Send(stream, "raw", <<buf>>)
    BY <1>4 DEF CollectorFills
  <2>2. HasNow(stream', stream, "raw", stream["raw"].items \o <<buf>>)
    BY <1>0, <2>1, SendIs
  <2>3. /\ node["collector"] = "loop" /\ node' = node /\ stored' = stored
    BY <1>4 DEF CollectorFills, chunkVars
  <2>4. DOMAIN stream' = Streams
    BY <2>2 DEF HasNow, IsShaped
  <2> QED
    BY <1>0, <2>2, <2>3, <2>4 DEF HasNow, EndsInOrder, Fresh, AtEnd
<1>5. CASE CollectorEndsStream
  <2>1. IsOver(stream', stream, "raw")
    BY <1>0, <1>5, EndIs DEF CollectorEndsStream
  <2>2. /\ node["collector"] = "loop" /\ node' = [node EXCEPT !["collector"] = "closing"]
        /\ stored' = stored
    BY <1>5 DEF CollectorEndsStream, Goto, chunkVars
  <2>3. DOMAIN stream' = Streams
    BY <2>1 DEF IsOver, IsShaped
  <2> QED
    BY <1>0, <2>1, <2>2, <2>3 DEF IsOver, EndsInOrder, Fresh, AtEnd
<1>6. CASE ReaderPasses
  <2>1. PICK buf : stream' = Send(Removed("raw"), "packets", <<buf>>)
    BY <1>6 DEF ReaderPasses
  <2>2. Passed("raw", "packets", <<buf>>)
    BY <1>0, <2>1, PassedIs
  <2>3. node["reader"] = "loop" /\ node' = node /\ stored' = stored
    BY <1>6 DEF ReaderPasses, chunkVars
  <2>4. DOMAIN stream' = Streams
    BY <2>2 DEF Passed, IsShaped
  <2> QED
    BY <1>0, <2>2, <2>3, <2>4 DEF Passed, EndsInOrder, Fresh, AtEnd
<1>7. CASE ChunkerChunks
  <2>1. PICK bufs : stream' = Send(Removed("packets"), "chunks", bufs)
    BY <1>7 DEF ChunkerChunks
  <2>2. Passed("packets", "chunks", bufs)
    BY <1>0, <2>1, PassedIs
  <2>3. node["chunker"] = "loop" /\ node' = node
    BY <1>7 DEF ChunkerChunks
  <2>4. DOMAIN stream' = Streams
    BY <2>2 DEF Passed, IsShaped
  <2> QED
    BY <1>0, <2>2, <2>3, <2>4 DEF Passed, EndsInOrder, Fresh, AtEnd
<1>8. CASE ApplierApplies
  <2>1. PICK buf : stream' = Send(Removed("chunks"), "readings", <<buf>>)
    BY <1>8 DEF ApplierApplies
  <2>2. Passed("chunks", "readings", <<buf>>)
    BY <1>0, <2>1, PassedIs
  <2>3. node["applier"] = "loop" /\ node' = node /\ stored' = stored
    BY <1>8 DEF ApplierApplies, chunkVars
  <2>4. DOMAIN stream' = Streams
    BY <2>2 DEF Passed, IsShaped
  <2> QED
    BY <1>0, <2>2, <2>3, <2>4 DEF Passed, EndsInOrder, Fresh, AtEnd
<1>9. CASE AggregatorSums
  <2>1. HasNow(stream', stream, "readings", Tail(stream["readings"].items))
    BY <1>0, <1>9, RemovedIs DEF AggregatorSums
  <2>2. node["aggregator"] = "loop" /\ node' = node /\ stored' = stored
    BY <1>9 DEF AggregatorSums, chunkVars
  <2>3. DOMAIN stream' = Streams
    BY <2>1 DEF HasNow, IsShaped
  <2> QED
    BY <1>0, <2>1, <2>2, <2>3 DEF HasNow, EndsInOrder, Fresh, AtEnd
<1>10. CASE ReaderEnds
  <2>1. /\ node["reader"] = "loop" /\ node' = [node EXCEPT !["reader"] = "ended"]
        /\ AtEnd("raw") /\ stored' = stored
        /\ stream' = End(Send(stream, "packets", <<>>), "packets")
    BY <1>10 DEF ReaderEnds, EndsAfter, Goto, chunkVars
  <2>2. Finished("packets", <<>>)
    BY <1>0, <2>1, FinishedIs
  <2>3. DOMAIN stream' = Streams
    BY <2>2 DEF Finished, IsShaped
  <2> QED
    BY <1>0, <2>1, <2>2, <2>3 DEF Finished, EndsInOrder, Fresh, AtEnd
<1>11. CASE ChunkerEnds
  <2>1. PICK chunk : stream' = End(Send(stream, "chunks", <<chunk>>), "chunks")
    BY <1>11 DEF ChunkerEnds, EndsAfter
  <2>2. /\ node["chunker"] = "loop" /\ node' = [node EXCEPT !["chunker"] = "ended"]
        /\ AtEnd("packets") /\ stored' = <<>>
    BY <1>11 DEF ChunkerEnds, EndsAfter, Goto
  <2>3. Finished("chunks", <<chunk>>)
    BY <1>0, <2>1, FinishedIs
  <2>4. DOMAIN stream' = Streams
    BY <2>3 DEF Finished, IsShaped
  <2> QED
    BY <1>0, <2>2, <2>3, <2>4 DEF Finished, EndsInOrder, Fresh, AtEnd
<1>12. CASE ApplierEnds
  <2>1. /\ node["applier"] = "loop" /\ node' = [node EXCEPT !["applier"] = "ended"]
        /\ AtEnd("chunks") /\ stored' = stored
        /\ stream' = End(Send(stream, "readings", <<>>), "readings")
    BY <1>12 DEF ApplierEnds, EndsAfter, Goto, chunkVars
  <2>2. Finished("readings", <<>>)
    BY <1>0, <2>1, FinishedIs
  <2>3. DOMAIN stream' = Streams
    BY <2>2 DEF Finished, IsShaped
  <2> QED
    BY <1>0, <2>1, <2>2, <2>3 DEF Finished, EndsInOrder, Fresh, AtEnd
<1>13. CASE TakeSamples \/ RunReturns \/ HvpmStep
  <2>1. UNCHANGED <<stream, stored>>
    BY <1>13 DEF TakeSamples, RunReturns, HvpmStep, HvpmOpens, HvpmRunsLine, HvpmFails,
                 HvpmEnds, chunkVars
  <2> QED
    BY <1>1, <1>13, <2>1
<1>14. CASE NormalizerStep \/ CollectorBegins \/ CollectorFails \/ CollectorCloses
  <2>1. UNCHANGED <<stream, stored>>
    BY <1>14 DEF NormalizerStep, NormalizerRunsLine, NormalizerEnds, CollectorBegins,
                 CollectorFails, CollectorCloses, chunkVars
  <2> QED
    BY <1>2, <1>14, <2>1
<1>15. CASE ReaderRaises \/ ApplierRaises \/ AggregatorEnds
  <2>1. UNCHANGED <<stream, stored>>
    BY <1>15 DEF ReaderRaises, ApplierRaises, AggregatorEnds, Raises, chunkVars
  <2> QED
    BY <1>3, <1>15, <2>1
<1>16. CASE UNCHANGED vars
  BY <1>16 DEF vars, chunkVars, EndsInOrder, Fresh, AtEnd
<1> QED
  BY <1>4, <1>5, <1>6, <1>7, <1>8, <1>9, <1>10, <1>11, <1>12, <1>13, <1>14, <1>15, <1>16
     DEF Next, CollectorStep, ReaderStep, ChunkerStep, ApplierStep, AggregatorStep

------------------------------------------------------------------------------
(* The results *)

\* Every reading that is summed up is calibrated by the last samples of each origin
\* the device sent before it, whatever the nodes do and however far one is ahead.
THEOREM RightCalibrationHolds == Spec => []RightCalibration
<1>1. Moving => RightCalibration
  <2> SUFFICES ASSUME Moving, NEW r \in ToSet(gathered), NEW o \in Origins
               PROVE  AreTheLast(r.by[o], Before(r.sample, o))
    BY DEF RightCalibration
  <2>1. PICK g, rr, h, c, p \in Nat : Flow(g, rr, h, c, p)
    BY Marks
  <2>2. Right(r) /\ r.sample \in UsableIn(0, g)
    BY <2>1, SamplesOfSet DEF Flow, Summing
  <2>3. r.sample \in Nat /\ taken[r.sample] = "measure"
    BY <2>2 DEF UsableIn, Measured
  <2> QED
    BY <2>2, <2>3, RightIs
<1> QED
  BY <1>1, MovingInit, MovingNext, PTL DEF Spec

\* When all is over, nothing is on its way.
LEMMA NothingLeft ==
    ASSUME Moving, EndsInOrder, \A n \in Nodes : node[n] = "ended"
    PROVE  Summing(start, gathered, Len(taken))
<1>1. PICK g, r, h, c, p \in Nat :
        /\ g <= r /\ r <= h /\ h <= c /\ c <= p /\ p <= Len(taken)
        /\ Flow(g, r, h, c, p) /\ Len(taken) \in Nat
  BY Marks
<1>2. /\ stream["raw"].items = <<>> /\ stream["packets"].items = <<>>
      /\ stream["chunks"].items = <<>> /\ stream["readings"].items = <<>>
      /\ stored = <<>>
  BY DEF EndsInOrder, AtEnd, Nodes
<1>3. g = r /\ r = h /\ c = p /\ p = Len(taken)
  BY <1>1, <1>2, RowOfNone DEF Flow
<1>4. Measured(h, c) = {}
  BY <1>1, <1>2, EmptyIs DEF Flow, Chunking
<1>5. UsableIn(h, c) = {}
  BY <1>4 DEF UsableIn
<1> QED
  BY <1>1, <1>3, <1>5, SummingLater DEF Flow

\* A result counts every sample it should, in order and once.
THEOREM ResultIsCompleteHolds == Spec => []ResultIsComplete
<1>1. Moving /\ EndsInOrder => ResultIsComplete
  <2> SUFFICES ASSUME Moving, EndsInOrder, \A n \in Nodes : node[n] = "ended"
               PROVE  Increasing(SamplesOf(gathered)) /\ ToSet(SamplesOf(gathered)) = Wanted
    BY DEF ResultIsComplete, SamplesOf
  <2>1. Summing(start, gathered, Len(taken))
    BY NothingLeft
  <2>2. DOMAIN taken = 1..Len(taken) /\ Len(taken) \in Nat
    BY SeqFacts DEF Moving, QueueTypes
  <2>3. Usable = UsableIn(0, Len(taken)) /\ \A k \in Usable : k \in Nat \ {0}
    BY <2>2 DEF Usable, UsableIn, Measured
  <2>4. Wanted = {k \in Usable : k - start >= Settle}
    <3>1. CASE start = 0
      BY <2>1, <2>3, <3>1 DEF Wanted, Summing
    <3>2. CASE start # 0
      <4>1. start \in Usable /\ \A k \in Usable : start <= k
        BY <2>1, <2>3, <3>2 DEF Summing
      <4>2. ASSUME NEW k \in Usable
            PROVE  (\E j \in Usable : j <= k /\ k - j >= Settle) <=> k - start >= Settle
        BY <2>3, <4>1, SizesAssumption
      <4> QED
        BY <4>2 DEF Wanted
    <3> QED
      BY <3>1, <3>2
  <2> QED
    BY <2>1, <2>3, <2>4 DEF Summing
<1>2. Init => Moving /\ Handover /\ EndsInOrder
  BY MovingInit, HandoverInit, EndsInOrderInit
<1>3. Moving /\ Handover /\ EndsInOrder /\ [Next]_vars
        => (Moving /\ Handover /\ EndsInOrder)'
  BY MovingNext, HandoverNext, EndsInOrderNext
<1> QED
  BY <1>1, <1>2, <1>3, PTL DEF Spec
==============================================================================
