---------------------------- MODULE OrderedStream ----------------------------
(***************************************************************************)
(* stream_decl_indexes_in_order (crates/db/src/lib.rs): per-file headers   *)
(* are lowered by several workers and published by one coordinator in      *)
(* canonical file order.                                                   *)
(*                                                                         *)
(* The coordinator feeds indices to a bounded work channel, workers admit  *)
(* themselves in index order (mutex + condition variable), take a permit   *)
(* of the memory gate while holding that mutex, lower the file and send    *)
(* the result, permit attached, through a second bounded channel.  The     *)
(* coordinator reorders the results, visits them in order, drops the       *)
(* permit and schedules one more index.  A lowering that panics is sent as *)
(* an error; the coordinator unwinds and thread::scope waits for all       *)
(* workers.  The memory gate is PermitPool; its units are the files.       *)
(***************************************************************************)
EXTENDS PermitPool, Sequences

CONSTANTS
  FileCount,   \* files.len(); the units are 0..FileCount-1
  Workers,     \* the workers the pass asks for: requested_workers clamped
  LookAhead,   \* the window is LookAhead times the workers (4 in the code)
  MayPanic     \* the files whose lowering may panic

ASSUME StreamAssumption ==
  /\ FileCount \in Nat \ {0}
  /\ Units = 0..(FileCount - 1)
  /\ IsFiniteSet(Workers) /\ Workers # {}
  /\ Cardinality(Workers) <= FileCount
  /\ LookAhead \in Nat \ {0}
  /\ MayPanic \subseteq Units

VARIABLES
  active,      \* the workers whose thread could be spawned
  workQ,       \* the work channel's buffer
  workOpen,    \* work_tx has not been dropped
  resultQ,     \* the result channel's buffer: [index, ok]
  wpc,         \* wpc[w]: where worker w is
  index,       \* index[w]: the unit worker w works on
  lowered,     \* lowered[w]: its lowering returned (FALSE: it panicked)
  admission,   \* *next_admission
  mpc,         \* where the coordinator is
  scheduled,   \* next_to_schedule
  reorder,     \* the keys of the reorder map
  published    \* the files visited so far, in the order of the visits

chanVars == <<workQ, workOpen, resultQ>>
workerVars == <<wpc, index, lowered, admission>>
mainVars == <<mpc, scheduled, reorder, published>>
vars == <<poolVars, active, chanVars, workerVars, mainVars>>

WorkerPlaces == {"recv", "admit", "admitWait", "permit", "lower", "send", "exit"}
MainPlaces ==
  {"serial", "seed", "recv", "publish", "drop", "join", "done", "unwind", "scopeWait", "panicked"}

StreamTypeOK ==
  /\ PoolTypeOK
  /\ active \subseteq Workers
  /\ workQ \in Seq(Units)
  /\ workOpen \in BOOLEAN
  /\ resultQ \in Seq([index : Units, ok : BOOLEAN])
  /\ wpc \in [Workers -> WorkerPlaces]
  /\ index \in [Workers -> Units]
  /\ lowered \in [Workers -> BOOLEAN]
  /\ admission \in 0..FileCount
  /\ mpc \in MainPlaces
  /\ scheduled \in 0..FileCount
  /\ reorder \subseteq Units
  /\ published \in Seq(Units)

-----------------------------------------------------------------------------
WorkerCount == Cardinality(Workers)

AtMost(a, b) == IF a <= b THEN a ELSE b

\* Saturating multiplication apart, max(worker_count) is implied by LookAhead >= 1.
Window == AtMost(LookAhead * WorkerCount, FileCount)

next == Len(published)   \* next_to_publish

\* One worker, or no thread at all, is the exact serial loop.  Work is only
\* sent once all threads are spawned, so a partial spawn is an initial choice.
Init ==
  /\ PoolInit
  /\ active \in SUBSET Workers
  /\ mpc = IF WorkerCount = 1 \/ active = {} THEN "serial" ELSE "seed"
  /\ workQ = <<>> /\ resultQ = <<>> /\ workOpen = TRUE
  /\ wpc = [w \in Workers |-> "recv"]
  /\ index = [w \in Workers |-> 0]
  /\ lowered = [w \in Workers |-> TRUE]
  /\ admission = 0 /\ scheduled = 0
  /\ reorder = {} /\ published = <<>>

-----------------------------------------------------------------------------
(* Workers *)

WorkerGoes(w, from, to) ==
  /\ wpc[w] = from
  /\ wpc' = [wpc EXCEPT ![w] = to]

\* The receiver sits behind a mutex; recv fails once the sender is dropped
\* and the buffer is empty.
Recv(w) ==
  /\ w \in active
  /\ \/ /\ workQ # <<>>
        /\ WorkerGoes(w, "recv", "admit")
        /\ index' = [index EXCEPT ![w] = Head(workQ)]
        /\ workQ' = Tail(workQ)
     \/ /\ workQ = <<>> /\ ~workOpen
        /\ WorkerGoes(w, "recv", "exit")
        /\ UNCHANGED <<index, workQ>>
  /\ UNCHANGED <<poolVars, active, workOpen, resultQ, lowered, admission, mainVars>>

\* A worker that takes its permit holds the admission mutex all the while.
AdmissionFree == \A w \in Workers : wpc[w] # "permit"

\* Mutant: a worker admits itself whatever its turn.
CheckAdmissionAnyTurn(w) ==
  /\ AdmissionFree
  /\ WorkerGoes(w, "admit", "permit")
  /\ UNCHANGED <<poolVars, active, chanVars, index, lowered, admission, mainVars>>

CheckAdmission(w) ==
  /\ AdmissionFree
  /\ WorkerGoes(w, "admit", IF admission = index[w] THEN "permit" ELSE "admitWait")
  /\ UNCHANGED <<poolVars, active, chanVars, index, lowered, admission, mainVars>>

\* The permit is granted: the turn passes on and all waiting workers look again.
TakePermit(w) ==
  /\ wpc[w] = "permit"
  /\ at[index[w]] \in {"idle", "woken"}
  /\ Admit(index[w])
  /\ admission' = admission + 1
  /\ wpc' = [v \in Workers |->
               IF v = w THEN "lower" ELSE IF wpc[v] = "admitWait" THEN "admit" ELSE wpc[v]]
  /\ UNCHANGED <<active, chanVars, index, lowered, mainVars>>

\* The permit is refused: the worker sleeps on the pool, mutex in hand.
WaitForPermit(w) ==
  /\ wpc[w] = "permit"
  /\ at[index[w]] \in {"idle", "woken"}
  /\ Sleep(index[w])
  /\ UNCHANGED <<active, chanVars, workerVars, mainVars>>

Lower(w) ==
  /\ WorkerGoes(w, "lower", "send")
  /\ \E ok \in {TRUE} \cup {index[w] \notin MayPanic} : lowered' = [lowered EXCEPT ![w] = ok]
  /\ UNCHANGED <<poolVars, active, chanVars, index, admission, mainVars>>

\* The receiver outlives the scope, so the send can block but not fail.
Send(w) ==
  /\ Len(resultQ) < WorkerCount
  /\ WorkerGoes(w, "send", "recv")
  /\ resultQ' = Append(resultQ, [index |-> index[w], ok |-> lowered[w]])
  /\ UNCHANGED <<poolVars, active, workQ, workOpen, index, lowered, admission, mainVars>>

-----------------------------------------------------------------------------
(* Coordinator *)

MainGoes(from, to) == mpc = from /\ mpc' = to

\* The blocking send on the work channel, whose capacity is the window.
Schedule ==
  /\ Len(workQ) < Window
  /\ workQ' = Append(workQ, scheduled)
  /\ scheduled' = scheduled + 1

SerialStep ==
  /\ mpc = "serial"
  /\ \/ /\ next < FileCount
        /\ published' = Append(published, next)
        /\ UNCHANGED mpc
     \/ /\ next < FileCount
        /\ next \in MayPanic
        /\ mpc' = "panicked"
        /\ UNCHANGED published
     \/ /\ next = FileCount
        /\ mpc' = "done"
        /\ UNCHANGED published
  /\ UNCHANGED <<poolVars, active, chanVars, workerVars, scheduled, reorder>>

Seed ==
  /\ mpc = "seed"
  /\ \/ scheduled < Window /\ Schedule /\ UNCHANGED mpc
     \/ scheduled = Window /\ mpc' = "recv" /\ UNCHANGED <<workQ, scheduled>>
  /\ UNCHANGED <<poolVars, active, workOpen, resultQ, workerVars, reorder, published>>

\* Mutant: every received result schedules one more index.
ReceiveAndSchedule ==
  /\ resultQ # <<>>
  /\ Head(resultQ).ok
  /\ MainGoes("recv", "publish")
  /\ reorder' = reorder \cup {Head(resultQ).index}
  /\ resultQ' = Tail(resultQ)
  /\ IF scheduled < FileCount THEN Schedule ELSE UNCHANGED <<workQ, scheduled>>
  /\ UNCHANGED <<poolVars, active, workOpen, workerVars, published>>

ReceiveResult ==
  /\ resultQ # <<>>
  /\ Head(resultQ).ok
  /\ MainGoes("recv", "publish")
  /\ reorder' = reorder \cup {Head(resultQ).index}
  /\ resultQ' = Tail(resultQ)
  /\ UNCHANGED <<poolVars, active, workQ, workOpen, workerVars, scheduled, published>>

\* A panic payload: the permit and the work sender are dropped, then the
\* coordinator unwinds.
ReceivePanic ==
  /\ resultQ # <<>>
  /\ ~Head(resultQ).ok
  /\ MainGoes("recv", "unwind")
  /\ Release(Head(resultQ).index)
  /\ workOpen' = FALSE
  /\ resultQ' = Tail(resultQ)
  /\ UNCHANGED <<active, workQ, workerVars, scheduled, reorder, published>>

\* Mutant: the map's first entry is taken, whatever its key.
PublishAnyHead ==
  /\ mpc = "publish"
  /\ \/ /\ reorder # {}
        /\ \E u \in reorder :
             /\ \A v \in reorder : u <= v
             /\ reorder' = reorder \ {u}
             /\ published' = Append(published, u)
        /\ IF scheduled < FileCount THEN Schedule ELSE UNCHANGED <<workQ, scheduled>>
        /\ mpc' = "drop"
        /\ UNCHANGED workOpen
     \/ /\ reorder = {}
        /\ mpc' = IF next < FileCount THEN "recv" ELSE "join"
        /\ workOpen' = (next < FileCount)
        /\ UNCHANGED <<workQ, scheduled, reorder, published>>
  /\ UNCHANGED <<poolVars, active, resultQ, workerVars>>

\* The head of the order is visited and one more index scheduled, or the
\* inner loop ends: the next result is awaited, or the work sender dropped.
Publish ==
  /\ mpc = "publish"
  /\ \/ /\ next \in reorder
        /\ reorder' = reorder \ {next}
        /\ published' = Append(published, next)
        /\ IF scheduled < FileCount THEN Schedule ELSE UNCHANGED <<workQ, scheduled>>
        /\ mpc' = "drop"
        /\ UNCHANGED workOpen
     \/ /\ next \notin reorder
        /\ mpc' = IF next < FileCount THEN "recv" ELSE "join"
        /\ workOpen' = (next < FileCount)
        /\ UNCHANGED <<workQ, scheduled, reorder, published>>
  /\ UNCHANGED <<poolVars, active, resultQ, workerVars>>

\* `_permit` goes out of scope at the end of the loop body.
DropPublished ==
  /\ MainGoes("drop", "publish")
  /\ Release(published[Len(published)])
  /\ UNCHANGED <<active, chanVars, workerVars, scheduled, reorder, published>>

\* Unwinding drops the reorder map, a permit at a time.
Unwind ==
  /\ mpc = "unwind"
  /\ \/ \E u \in reorder : Release(u) /\ reorder' = reorder \ {u} /\ UNCHANGED mpc
     \/ reorder = {} /\ mpc' = "scopeWait" /\ UNCHANGED <<poolVars, reorder>>
  /\ UNCHANGED <<active, chanVars, workerVars, scheduled, published>>

\* The joins, and the wait of thread::scope: every thread has returned.
Finish ==
  /\ \A w \in active : wpc[w] = "exit"
  /\ MainGoes("join", "done") \/ MainGoes("scopeWait", "panicked")
  /\ UNCHANGED <<poolVars, active, chanVars, workerVars, scheduled, reorder, published>>

-----------------------------------------------------------------------------
\* Both condition variables may wake a thread nobody notified.
SpuriousWakeup ==
  \/ /\ \E u \in Units : SpuriousWake(u)
     /\ UNCHANGED <<active, chanVars, workerVars, mainVars>>
  \/ /\ \E w \in Workers : WorkerGoes(w, "admitWait", "admit")
     /\ UNCHANGED <<poolVars, active, chanVars, index, lowered, admission, mainVars>>

WorkerStep(w) ==
  \/ Recv(w) \/ CheckAdmission(w) \/ TakePermit(w) \/ WaitForPermit(w) \/ Lower(w) \/ Send(w)

MainStep ==
  \/ SerialStep \/ Seed \/ ReceiveResult \/ ReceivePanic
  \/ Publish \/ DropPublished \/ Unwind \/ Finish

Next ==
  \/ \E w \in Workers : WorkerStep(w)
  \/ MainStep
  \/ SpuriousWakeup

\* Every thread that can run is scheduled, and lowering a file ends.
Fairness ==
  /\ \A w \in Workers : WF_vars(WorkerStep(w))
  /\ WF_vars(MainStep)

StreamSpec == Init /\ [][Next]_vars /\ Fairness

-----------------------------------------------------------------------------
\* "Stable symbol allocation requires ordered publication": whatever order the
\* workers finish in, the visits are a prefix of the canonical file order,
\* each file once.
CanonicalPublication == \A i \in 1..Len(published) : published[i] = i - 1

Executing == {index[w] : w \in {v \in Workers : wpc[v] \notin {"recv", "exit"}}}
Completed == {resultQ[i].index : i \in DOMAIN resultQ} \cup reorder
Queued == {workQ[i] : i \in DOMAIN workQ}

\* "The window bounds queued, executing, and completed-but-unpublished units
\* together": the reorder map stays within it however slow the head is.
WindowBoundsUnits ==
  Cardinality(Queued \cup Executing \cup Completed) <= Window

\* Every file is published, or a panic is handed to the coordinator: the
\* workers and the coordinator never wait for each other for ever.
StreamCompletes == <>(mpc \in {"done", "panicked", "unwind"})

\* A lowering that panics is resumed on the calling thread.
PanicReachesCaller == <>(mpc \in {"done", "panicked"})
=============================================================================
