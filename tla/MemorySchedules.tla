--------------------------- MODULE MemorySchedules ---------------------------
(***************************************************************************)
(* The sizing functions of crates/common/src/resources.rs: how a list of   *)
(* source sizes, a number of CPUs and a memory limit become batches        *)
(* (weighted_batches_for_working_set, source_ingestion_batches) or a       *)
(* worker width (syntax_worker_count_for_sources, worker_count_for_limit). *)
(*                                                                         *)
(* A loop iteration of the batching functions is one action; Return hands  *)
(* the result to the caller and forgets the call, for the functions keep   *)
(* no state.  Bytes are u64 and additions saturate at U64Max, a parameter  *)
(* here like the code's named constants, so that a small instance reaches  *)
(* the edges.                                                              *)
(***************************************************************************)
EXTENDS WeightSums, Sequences

CONSTANTS
  Sources,            \* the source_bytes slices, sequences of sizes
  CpuWorkers,         \* the requested cpu_workers, 0 included
  Limits,             \* memory limits, or NoBytes
  Residents,          \* resident sizes, or NoBytes where the host reports none
  Transients,         \* bytes_per_worker of the fixed profiles
  NoBytes,            \* Option::None of a size
  U64Max,
  UnitBase,           \* WEIGHTED_COMPILER_UNIT_BASE_BYTES
  Amplification,      \* WEIGHTED_COMPILER_SOURCE_AMPLIFICATION
  HeadroomDivisor,    \* WEIGHTED_COMPILER_HEADROOM_DIVISOR
  CompilerHeadroom,   \* WEIGHTED_COMPILER_MIN_HEADROOM_BYTES
  SyntaxHeadroom,     \* WEIGHTED_SYNTAX_HEADROOM_BYTES
  SyntaxReserve,      \* SYNTAX_RESIDENT_RESERVE_BYTES
  IngestionHeadroom,  \* SOURCE_INGESTION_MIN_HEADROOM_BYTES
  Copies              \* SOURCE_INGESTION_COPY_AMPLIFICATION

U64 == 0..U64Max

ASSUME ScheduleAssumption ==
  /\ U64Max \in Nat \ {0, 1}
  /\ Sources \subseteq Seq(U64)
  /\ CpuWorkers \subseteq Nat
  /\ Limits \subseteq (U64 \ {0}) \cup {NoBytes}
  /\ Residents \subseteq U64 \cup {NoBytes}
  /\ Transients \subseteq U64
  /\ NoBytes \notin U64
  /\ {UnitBase, Amplification, HeadroomDivisor, CompilerHeadroom,
      SyntaxHeadroom, IngestionHeadroom, Copies} \subseteq U64 \ {0}
  /\ SyntaxReserve \in U64

Kinds == {"compiler", "syntax", "ingestion"}

VARIABLES
  at,        \* "idle", "fill" inside a batching function, "done" with a result
  job,       \* the arguments of the call
  start,     \* start of the batch being filled
  end,       \* its end, exclusive
  bytes,     \* batch_bytes
  batches,   \* the ranges so far: <<start, end>>
  width      \* the worker count returned, 0 without one

schedVars == <<at, job, start, end, bytes, batches, width>>

NoJob == [kind |-> "compiler", sources |-> <<>>, cpu |-> 0, limit |-> NoBytes,
          resident |-> NoBytes, transient |-> 0]

SchedInit ==
  /\ at = "idle" /\ job = NoJob
  /\ start = 0 /\ end = 0 /\ bytes = 0 /\ batches = <<>> /\ width = 0

-----------------------------------------------------------------------------
(* Arithmetic and memory windows. *)

AtMost(a, b) == IF a <= b THEN a ELSE b
AtLeast(a, b) == IF a >= b THEN a ELSE b
SaturatingAdd(a, b) == AtMost(a + b, U64Max)

UnitBytes(source) == SaturatingAdd(UnitBase, AtMost(source * Amplification, U64Max))

\* A quarter of the limit or the named minimum, but never the whole limit.
Headroom(kind, limit) ==
  AtMost(CASE kind = "compiler"  -> AtLeast(limit \div HeadroomDivisor, CompilerHeadroom)
           [] kind = "syntax"    -> SyntaxHeadroom
           [] kind = "ingestion" -> AtLeast(limit \div HeadroomDivisor, IngestionHeadroom),
         SaturatingSub(limit, 1))

\* An unknown resident size is assumed: half of the limit, or the reserve.
ResidentBytes(kind, limit, resident) ==
  IF resident # NoBytes THEN resident
  ELSE IF kind = "syntax" THEN SyntaxReserve ELSE limit \div 2

Free(kind, limit, resident) ==
  SaturatingSub(SaturatingSub(limit, ResidentBytes(kind, limit, resident)), Headroom(kind, limit))

\* weighted_working_memory_bytes, syntax_working_memory_bytes, raw_window_bytes.
Window(kind, limit, resident) ==
  IF limit = NoBytes THEN NoBytes
  ELSE AtLeast(IF kind = "ingestion" THEN Free(kind, limit, resident) \div Copies
                                     ELSE Free(kind, limit, resident), 1)

-----------------------------------------------------------------------------
(* Batches. *)

Count == Len(job.sources)

\* Raw reads are weighed by their bytes and not bounded by the CPUs, unless
\* there is no limit to weigh them against.
Raw == job.kind = "ingestion" /\ job.limit # NoBytes

Weight(i) == IF Raw THEN job.sources[i] ELSE UnitBytes(job.sources[i])

CallBatches(kind, sources, cpu, limit, resident) ==
  /\ at = "idle"
  /\ job' = [kind |-> kind, sources |-> sources, cpu |-> cpu, limit |-> limit,
             resident |-> resident, transient |-> 0]
  /\ at' = IF sources = <<>> THEN "done" ELSE "fill"
  /\ UNCHANGED <<start, end, bytes, batches, width>>

\* The first unit of a batch is always taken; another one only if it fits.
Takes ==
  LET window == Window(job.kind, job.limit, job.resident) IN
  /\ end < Count
  /\ Raw \/ end - start < AtLeast(job.cpu, 1)
  /\ end > start /\ window # NoBytes => SaturatingAdd(bytes, Weight(end + 1)) <= window

TakeUnit ==
  /\ at = "fill" /\ Takes
  /\ bytes' = SaturatingAdd(bytes, Weight(end + 1))
  /\ end' = end + 1
  /\ UNCHANGED <<at, job, start, batches, width>>

\* Mutant: the unit that did not fit is left out of the next batch.
CloseBatchPastEnd ==
  /\ at = "fill" /\ ~Takes
  /\ batches' = Append(batches, <<start, end>>)
  /\ LET past == AtMost(end + 1, Count)
     IN  start' = past /\ end' = past /\ at' = IF past = Count THEN "done" ELSE "fill"
  /\ bytes' = 0
  /\ UNCHANGED <<job, width>>

\* The batch is pushed and the next one begins where it ends.
CloseBatch ==
  /\ at = "fill" /\ ~Takes
  /\ batches' = Append(batches, <<start, end>>)
  /\ start' = end /\ bytes' = 0
  /\ at' = IF end = Count THEN "done" ELSE "fill"
  /\ UNCHANGED <<job, end, width>>

-----------------------------------------------------------------------------
(* Worker widths. *)

\* Mutant: the units are taken as they come.
LargestUnsorted(sources) == [i \in DOMAIN sources |-> UnitBytes(sources[i])]

\* The units that a descending sort puts before unit i.
SortedBefore(weight, i) ==
  {j \in DOMAIN weight : weight[j] > weight[i] \/ (weight[j] = weight[i] /\ j < i)}

\* The weights, heaviest first.
Largest(sources) ==
  LET weight == [i \in DOMAIN sources |-> UnitBytes(sources[i])]
  IN  [n \in DOMAIN sources |->
         weight[CHOOSE i \in DOMAIN sources : Cardinality(SortedBefore(weight, i)) = n - 1]]

\* syntax_worker_count_for_sources: how many of the heaviest units fit together.
WidthForSources(sources, cpu, limit, resident) ==
  LET most == AtMost(AtLeast(cpu, 1), Len(sources))
      fits(n) == AtMost(TotalWeight(Largest(sources), 1..n), U64Max) <= Window("syntax", limit, resident)
  IN  IF sources = <<>> THEN 1
      ELSE IF limit = NoBytes THEN most
      ELSE Cardinality({n \in 1..most : \A m \in 2..n : fits(m)})

\* worker_count_for_limit, behind the profiles with one cost per worker.
WidthForLimit(cpu, transient, reserved, limit) ==
  IF limit = NoBytes THEN AtLeast(cpu, 1)
  ELSE AtMost(AtLeast(cpu, 1), AtLeast(SaturatingSub(limit, reserved) \div AtLeast(transient, 1), 1))

CallWidthForSources(sources, cpu, limit, resident) ==
  /\ at = "idle"
  /\ job' = [kind |-> "syntax", sources |-> sources, cpu |-> cpu, limit |-> limit,
             resident |-> resident, transient |-> 0]
  /\ width' = WidthForSources(sources, cpu, limit, resident)
  /\ at' = "done"
  /\ UNCHANGED <<start, end, bytes, batches>>

\* The callers pass a constant reserve or the resident size, whichever is larger.
CallWidthForLimit(cpu, transient, reserved, limit) ==
  /\ at = "idle"
  /\ job' = [kind |-> "fixed", sources |-> <<>>, cpu |-> cpu, limit |-> limit,
             resident |-> reserved, transient |-> transient]
  /\ width' = WidthForLimit(cpu, transient, reserved, limit)
  /\ at' = "done"
  /\ UNCHANGED <<start, end, bytes, batches>>

-----------------------------------------------------------------------------
Return ==
  /\ at = "done"
  /\ at' = "idle" /\ job' = NoJob
  /\ start' = 0 /\ end' = 0 /\ bytes' = 0 /\ batches' = <<>> /\ width' = 0

SchedNext ==
  \/ TakeUnit \/ CloseBatch \/ Return
  \/ /\ at = "idle"
     /\ \E cpu \in CpuWorkers, limit \in Limits, resident \in Residents :
          \/ \E sources \in Sources :
               \/ \E kind \in Kinds : CallBatches(kind, sources, cpu, limit, resident)
               \/ CallWidthForSources(sources, cpu, limit, resident)
          \/ \E transient \in Transients :
               resident # NoBytes /\ CallWidthForLimit(cpu, transient, resident, limit)

SchedSpec == SchedInit /\ [][SchedNext]_schedVars

-----------------------------------------------------------------------------
(* Properties. *)

\* "The returned ranges cover every input exactly once and preserve source
\* order": the batches are adjoining, non-empty ranges from the first unit to
\* where the current batch starts, which is the end once the call returns.
BatchesPartition ==
  /\ \A i \in DOMAIN batches : batches[i][1] < batches[i][2]
  /\ \A i \in DOMAIN batches : batches[i][1] = IF i = 1 THEN 0 ELSE batches[i - 1][2]
  /\ batches # <<>> => batches[Len(batches)][2] = start
  /\ at = "done" /\ width = 0 => start = Count

Units(batch) == (batch[1] + 1)..batch[2]

\* What is resident, the headroom and the units of a set together.
Committed(units, copies) ==
  ResidentBytes(job.kind, job.limit, job.resident) + Headroom(job.kind, job.limit)
    + copies * TotalWeight([i \in 1..Count |-> Weight(i)], units)

\* A batch of several units fits the process limit beside what is resident and
\* the headroom, in true sums and not in saturated ones (raw reads count twice;
\* a window of one byte, the least there is, may hold one such byte).
BatchesFit ==
  job.limit # NoBytes =>
    \A i \in DOMAIN batches : Cardinality(Units(batches[i])) > 1 =>
      \/ Committed(Units(batches[i]), IF Raw THEN Copies ELSE 1) <= job.limit
      \/ Raw /\ TotalWeight(job.sources, Units(batches[i])) <= 1

\* The two together: every unit is in one batch, in order, and a batch that
\* could be made smaller fits.
BatchesExact == BatchesPartition /\ BatchesFit

\* "Sizing against the largest `N` units proves that every possible set of
\* concurrently scheduled files fits the same live-memory envelope": whichever
\* files the workers pick; and likewise for a fixed cost per worker.  One
\* worker always remains.
WidthFitsAnySet ==
  width > 1 /\ job.limit # NoBytes =>
    /\ \A units \in SUBSET (1..Count) :
         Cardinality(units) \in 2..width => Committed(units, 1) <= job.limit
    /\ job.kind = "fixed" => job.resident + width * job.transient <= job.limit
=============================================================================
