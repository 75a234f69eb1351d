---------------------------- MODULE CompilerVisit ----------------------------
(***************************************************************************)
(* try_visit_parallel (crates/db/src/compiler_object.rs) with the work its *)
(* three callers give it: compiler objects are lowered by several workers  *)
(* and visited by the caller, in completion order (the object store) or in *)
(* input order (diagnostics, whole-workspace visits).                      *)
(*                                                                         *)
(* Where OrderedStream only unwinds, this visitor cancels: the first error *)
(* stops the caller's loop, raises `cancelled`, drops the work sender and  *)
(* the result receiver, and the scope waits for the workers to notice.  An *)
(* index is announced nowhere once its worker has left, so the workers of  *)
(* an input-order visit may wait for a turn that never comes; VisitReturns *)
(* says where that ends.  The memory gate is PermitPool; its units are the *)
(* item indices, and a permit travels with its result.                     *)
(***************************************************************************)
EXTENDS PermitPool, Sequences

CONSTANTS
  ItemCount,     \* items.len(), the units are 0..ItemCount-1
  Workers,       \* worker_count, clamped to the items
  Window,        \* max_in_flight, clamped to the workers and the items
  WorkMayFail,   \* the items whose work may return an error or panic
  VisitMayFail   \* the items whose visit may return an error or panic

ASSUME VisitAssumption ==
  /\ ItemCount \in Nat \ {0}
  /\ Units = 0..(ItemCount - 1)
  /\ IsFiniteSet(Workers) /\ Workers # {}
  /\ Window \in Cardinality(Workers)..ItemCount
  /\ WorkMayFail \subseteq Units
  /\ VisitMayFail \subseteq Units

VARIABLES
  order,       \* visit_order: "Completion" or "Input"
  workQ,       \* the work channel's buffer
  workOpen,    \* work_tx has not been dropped
  resultQ,     \* the result channel's buffer: [index, ok]
  resultOpen,  \* result_rx has not been dropped
  cancelled,
  wpc,         \* wpc[w]: where worker w is
  index,       \* index[w]: the item worker w works on
  ok,          \* ok[w]: its work returned Ok
  admission,   \* *next_memory_admission
  mpc,         \* where the caller is
  outcome,     \* what its loop ends with: "ok", "err", or "panic" of a visit
  scheduled,   \* next_to_schedule
  completed,   \* the items whose result was received
  reorder,     \* the received items that wait for their visit
  visited      \* the items visited so far, in the order of the visits

chanVars == <<workQ, workOpen, resultQ, resultOpen, cancelled>>
workerVars == <<wpc, index, ok, admission>>
mainVars == <<mpc, outcome, scheduled, completed, reorder, visited>>
vars == <<poolVars, order, chanVars, workerVars, mainVars>>

\* The window is in the work channel before the first worker starts.
Init ==
  /\ PoolInit
  /\ order \in {"Completion", "Input"}
  /\ workQ = [i \in 1..Window |-> i - 1] /\ workOpen = TRUE
  /\ resultQ = <<>> /\ resultOpen = TRUE
  /\ cancelled = FALSE
  /\ wpc = [w \in Workers |-> "top"]
  /\ index = [w \in Workers |-> 0]
  /\ ok = [w \in Workers |-> TRUE]
  /\ admission = 0
  /\ mpc = "recv" /\ outcome = "ok"
  /\ scheduled = Window
  /\ completed = {} /\ reorder = {} /\ visited = <<>>

-----------------------------------------------------------------------------
(* Workers *)

WorkerGoes(w, from, to) ==
  /\ wpc[w] = from
  /\ wpc' = [wpc EXCEPT ![w] = to]

\* The two tests of `cancelled`: before an index is received, and after.
Top(w) ==
  /\ WorkerGoes(w, "top", IF cancelled THEN "exit" ELSE "recv")
  /\ UNCHANGED <<poolVars, order, chanVars, index, ok, admission, mainVars>>

Recheck(w) ==
  /\ WorkerGoes(w, "recheck",
       IF cancelled THEN "exit" ELSE IF order = "Input" THEN "turn" ELSE "permit")
  /\ UNCHANGED <<poolVars, order, chanVars, index, ok, admission, mainVars>>

\* The receiver sits behind a mutex; recv fails once the sender is dropped
\* and the buffer is empty.
Recv(w) ==
  /\ \/ /\ workQ # <<>>
        /\ WorkerGoes(w, "recv", "recheck")
        /\ index' = [index EXCEPT ![w] = Head(workQ)]
        /\ workQ' = Tail(workQ)
     \/ /\ workQ = <<>> /\ ~workOpen
        /\ WorkerGoes(w, "recv", "exit")
        /\ UNCHANGED <<index, workQ>>
  /\ UNCHANGED <<poolVars, order, workOpen, resultQ, resultOpen, cancelled, ok, admission, mainVars>>

\* Input order: a worker that takes its permit holds the admission mutex.
AdmissionFree == order = "Input" => \A w \in Workers : wpc[w] # "permit"

TakeTurn(w) ==
  /\ AdmissionFree
  /\ WorkerGoes(w, "turn", IF admission = index[w] THEN "permit" ELSE "turnWait")
  /\ UNCHANGED <<poolVars, order, chanVars, index, ok, admission, mainVars>>

\* notify_all on the admission's condition variable.
PassTurn(w) ==
  wpc' = [v \in Workers |->
            IF v = w THEN "work" ELSE IF wpc[v] = "turnWait" THEN "turn" ELSE wpc[v]]

\* acquire, refused and granted; the turn only exists in input order.
WaitForPermit(w) ==
  /\ wpc[w] = "permit"
  /\ at[index[w]] \in {"idle", "woken"}
  /\ Sleep(index[w])
  /\ UNCHANGED <<order, chanVars, workerVars, mainVars>>

TakePermit(w) ==
  /\ wpc[w] = "permit"
  /\ at[index[w]] \in {"idle", "woken"}
  /\ Admit(index[w])
  /\ \/ order = "Input" /\ admission' = admission + 1 /\ PassTurn(w)
     \/ order = "Completion" /\ UNCHANGED admission /\ WorkerGoes(w, "permit", "work")
  /\ UNCHANGED <<order, chanVars, index, ok, mainVars>>

\* The work succeeds, or its error or its panic (caught) drops the permit.
Work(w) ==
  /\ WorkerGoes(w, "work", "send")
  /\ \/ ok' = [ok EXCEPT ![w] = TRUE] /\ UNCHANGED poolVars
     \/ /\ index[w] \in WorkMayFail
        /\ ok' = [ok EXCEPT ![w] = FALSE]
        /\ Release(index[w])
  /\ UNCHANGED <<order, chanVars, index, admission, mainVars>>

Send(w) ==
  /\ resultOpen
  /\ Len(resultQ) < Cardinality(Workers)
  /\ WorkerGoes(w, "send", "top")
  /\ resultQ' = Append(resultQ, [index |-> index[w], ok |-> ok[w]])
  /\ UNCHANGED <<poolVars, order, workQ, workOpen, resultOpen, cancelled, index, ok, admission, mainVars>>

\* Drop of a result: an error carries no permit.
DropResult(u, good) == IF good THEN Release(u) ELSE UNCHANGED poolVars

\* Mutant: a result that cannot be sent is leaked.
SendFailsLeaking(w) ==
  /\ ~resultOpen
  /\ WorkerGoes(w, "send", "exit")
  /\ UNCHANGED <<poolVars, order, chanVars, index, ok, admission, mainVars>>

\* The receiver is gone, also for a worker that was blocked on a full buffer.
SendFails(w) ==
  /\ ~resultOpen
  /\ WorkerGoes(w, "send", "exit")
  /\ DropResult(index[w], ok[w])
  /\ UNCHANGED <<order, chanVars, index, ok, admission, mainVars>>

-----------------------------------------------------------------------------
(* The caller *)

Acceptable(r) == r.ok /\ r.index \notin completed

Receive ==
  /\ mpc = "recv" /\ resultQ # <<>>
  /\ Acceptable(Head(resultQ))
  /\ completed' = completed \cup {Head(resultQ).index}
  /\ reorder' = reorder \cup {Head(resultQ).index}
  /\ resultQ' = Tail(resultQ)
  /\ mpc' = "visit"
  /\ UNCHANGED <<poolVars, order, workQ, workOpen, resultOpen, cancelled, workerVars,
                 outcome, scheduled, visited>>

\* An error result, a duplicate one, or no worker left to send any.
ReceiveFails ==
  /\ mpc = "recv"
  /\ IF resultQ = <<>> THEN \A w \in Workers : wpc[w] = "exit" ELSE ~Acceptable(Head(resultQ))
  /\ resultQ' = IF resultQ = <<>> THEN <<>> ELSE Tail(resultQ)
  /\ outcome' = "err" /\ mpc' = "leave"
  /\ UNCHANGED <<poolVars, order, workQ, workOpen, resultOpen, cancelled, workerVars,
                 scheduled, completed, reorder, visited>>

\* Mutant: the smallest received item is visited, whatever is still missing.
VisitableAny == {u \in reorder : \A v \in reorder : u <= v}

\* Completion order visits what was just received.
Visitable == IF order = "Input" THEN reorder \cap {Len(visited)} ELSE reorder

\* The visit consumes the result, permit included.
Visit ==
  /\ mpc = "visit"
  /\ \E u \in Visitable :
       /\ visited' = Append(visited, u)
       /\ reorder' = reorder \ {u}
       /\ Release(u)
  /\ mpc' = "schedule"
  /\ UNCHANGED <<order, chanVars, workerVars, outcome, scheduled, completed>>

\* Only the object store's visit (completion order) returns errors; any may panic.
VisitFails ==
  /\ mpc = "visit"
  /\ \E u \in Visitable \cap VisitMayFail : reorder' = reorder \ {u} /\ Release(u)
  /\ \E o \in {"panic"} \cup (IF order = "Completion" THEN {"err"} ELSE {}) : outcome' = o
  /\ mpc' = "leave"
  /\ UNCHANGED <<order, chanVars, workerVars, scheduled, completed, visited>>

\* One more item for each one visited; the channel holds the whole window.
Schedule ==
  /\ mpc = "schedule" /\ mpc' = "visit"
  /\ \/ /\ scheduled < ItemCount /\ Len(workQ) < Window
        /\ workQ' = Append(workQ, scheduled)
        /\ scheduled' = scheduled + 1
     \/ scheduled = ItemCount /\ UNCHANGED <<workQ, scheduled>>
  /\ UNCHANGED <<poolVars, order, workOpen, resultQ, resultOpen, cancelled, workerVars,
                 outcome, completed, reorder, visited>>

EndVisits ==
  /\ mpc = "visit" /\ Visitable = {}
  /\ mpc' = IF Len(visited) < ItemCount THEN "recv" ELSE "drop"
  /\ UNCHANGED <<poolVars, order, chanVars, workerVars, outcome, scheduled, completed, reorder, visited>>

\* Leaving the loop drops the reorder map, a permit at a time; then an error,
\* but not a panic, raises the flag.
Leave ==
  /\ mpc = "leave"
  /\ \/ /\ \E u \in reorder : Release(u) /\ reorder' = reorder \ {u}
        /\ UNCHANGED <<mpc, cancelled>>
     \/ /\ reorder = {}
        /\ cancelled' = (outcome = "err") /\ mpc' = "drop"
        /\ UNCHANGED <<poolVars, reorder>>
  /\ UNCHANGED <<order, workQ, workOpen, resultQ, resultOpen, workerVars, outcome, scheduled, completed, visited>>

DropWorkSender ==
  /\ mpc = "drop" /\ workOpen
  /\ workOpen' = FALSE
  /\ UNCHANGED <<poolVars, order, workQ, resultQ, resultOpen, cancelled, workerVars, mainVars>>

\* Mutant: the receiver lives until the scope has ended.
DropReceiverLate ==
  /\ mpc = "drop" /\ resultOpen
  /\ ~workOpen /\ \A w \in Workers : wpc[w] = "exit"
  /\ resultOpen' = FALSE
  /\ UNCHANGED <<poolVars, order, workQ, workOpen, resultQ, cancelled, workerVars, mainVars>>

\* An unwinding closure drops what it captured in an order of its own.
DropReceiver ==
  /\ mpc = "drop" /\ resultOpen
  /\ ~workOpen \/ outcome = "panic"
  /\ resultOpen' = FALSE
  /\ UNCHANGED <<poolVars, order, workQ, workOpen, resultQ, cancelled, workerVars, mainVars>>

\* The buffered results go with their receiver.
DiscardResults ==
  /\ ~resultOpen /\ resultQ # <<>>
  /\ DropResult(Head(resultQ).index, Head(resultQ).ok)
  /\ resultQ' = Tail(resultQ)
  /\ UNCHANGED <<order, workQ, workOpen, resultOpen, cancelled, workerVars, mainVars>>

\* The end of the scope: every worker has returned.
Join ==
  /\ mpc = "drop" /\ ~workOpen /\ ~resultOpen /\ resultQ = <<>>
  /\ \A w \in Workers : wpc[w] = "exit"
  /\ mpc' = "returned"
  /\ UNCHANGED <<poolVars, order, chanVars, workerVars, outcome, scheduled, completed, reorder, visited>>

-----------------------------------------------------------------------------
\* Both condition variables may wake a thread nobody notified.
SpuriousWakeup ==
  \/ /\ \E u \in Units : SpuriousWake(u)
     /\ UNCHANGED <<order, chanVars, workerVars, mainVars>>
  \/ /\ \E w \in Workers : WorkerGoes(w, "turnWait", "turn")
     /\ UNCHANGED <<poolVars, order, chanVars, index, ok, admission, mainVars>>

WorkerStep(w) ==
  \/ Top(w) \/ Recv(w) \/ Recheck(w) \/ TakeTurn(w) \/ WaitForPermit(w) \/ TakePermit(w)
  \/ Work(w) \/ Send(w) \/ SendFails(w)

MainStep ==
  \/ Receive \/ ReceiveFails \/ Visit \/ VisitFails \/ Schedule \/ EndVisits \/ Leave
  \/ DropWorkSender \/ DropReceiver \/ DiscardResults \/ Join

Next ==
  \/ \E w \in Workers : WorkerStep(w)
  \/ MainStep
  \/ SpuriousWakeup

\* Every thread that can run is scheduled, and lowering an object ends.
Fairness ==
  /\ \A w \in Workers : WF_vars(WorkerStep(w))
  /\ WF_vars(MainStep)

VisitSpec == Init /\ [][Next]_vars /\ Fairness

-----------------------------------------------------------------------------
\* "`visit` is called in `files` order exactly once per requested file" and
\* "every scheduled item must be published exactly once": no item is visited
\* twice, input order is kept whatever order the workers finish in, and a call
\* that returns Ok has visited them all.
VisitsExact ==
  /\ \A i, j \in DOMAIN visited : visited[i] = visited[j] => i = j
  /\ order = "Input" => \A i \in DOMAIN visited : visited[i] = i - 1
  /\ (mpc = "returned" /\ outcome = "ok") => Len(visited) = ItemCount

\* However the call ends (results in the workers' hands, in the channel and in
\* the reorder map, a blocked send, a caught panic), all memory is given back.
PermitsReturned == mpc = "returned" => used = 0

\* The call returns, with the error if there is one, although workers may be
\* blocked in send, in recv or in the memory gate when the caller gives up.
\* The exception is the cancelled visit in input order: a worker that received
\* an index and then saw `cancelled` takes that index's turn with it, and the
\* workers behind it wait for ever.
VisitReturns == <>(mpc = "returned" \/ (order = "Input" /\ cancelled))

\* "worker errors must abort publication", in input order too: refuted by the
\* behaviour that VisitReturns excepts.
AbortedVisitReturns == <>(mpc = "returned")
=============================================================================
