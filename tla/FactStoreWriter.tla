--------------------------- MODULE FactStoreWriter ---------------------------
(***************************************************************************)
(* FactStoreWriter (crates/factstore/src/writer.rs): producers hand        *)
(* entries to one writer thread through a bounded channel and a byte       *)
(* budget; finish asks the thread to sort, index, sync and rename the      *)
(* temporary file over the target.                                         *)
(*                                                                         *)
(* An entry stands for the one add_owned or add_streamed call that brings  *)
(* it.  finish and Drop take the writer by value, so no call is under way  *)
(* when they start.  The crossbeam channel is external: DiscardOnDrop says *)
(* whether dropping the receiver drops the commands still queued.          *)
(* PersistSession gives the writer its owner, and the processes beside it. *)
(***************************************************************************)
EXTENDS WeightSums, Sequences

CONSTANTS
  Entries,       \* the entries the producers may add
  Streamed,      \* those added with add_streamed
  KeyOf,         \* KeyOf[e]: the index key
  SizeOf,        \* SizeOf[e]: payload.len()
  QueueCap,      \* entry_queue_capacity
  ByteLimit,     \* entry_queue_byte_budget, at least 1
  DiscardOnDrop

ASSUME WriterAssumption ==
  /\ Streamed \subseteq Entries
  /\ SizeOf \in [Entries -> Nat]
  /\ QueueCap \in Nat \ {0}
  /\ ByteLimit \in Nat \ {0}
  /\ DiscardOnDrop \in BOOLEAN
  /\ "finish" \notin Entries

VARIABLES
  call,        \* call[e]: where the add of e is
  charged,     \* the entries whose BytePermit is live
  budgetUsed,  \* *ByteBudget.used
  queue,       \* the channel: entries and the "finish" command
  senderOpen,  \* the writer's Sender has not been dropped
  connected,   \* the thread's Receiver has not been dropped
  wpc,         \* where the writer thread is
  failed,      \* what ended the thread early: "entry", "encode", "panic"
  index,       \* the pending index entries, in arrival order
  tmp,         \* the temporary file: "absent", "partial", "complete", "synced"
  target,      \* the target: "old", "new" or "torn"
  durable,     \* the rename survives a power failure
  opc,         \* where the owner is
  reply,       \* the one-shot of the Finish command
  finishReply, \* the one-shot created with the thread
  result       \* what finish returned

producerVars == <<call, charged, budgetUsed>>
threadVars == <<connected, wpc, failed, index>>
diskVars == <<tmp, target, durable>>
ownerVars == <<senderOpen, opc, result>>
replyVars == <<reply, finishReply>>
vars == <<producerVars, queue, threadVars, diskVars, ownerVars, replyVars>>

CallPlaces == {"idle", "asleep", "woken", "granted", "await", "ok", "err"}
ThreadPlaces == {"recv", "metadata", "sync", "rename", "syncDir", "leaving", "dropped", "exited"}
OwnerPlaces == {"open", "sendFinish", "awaitReply", "fallback", "join", "returned", "dropJoin",
                "dropped", "crashed"}
Results == {"none", "ok", "duplicate", "ioError", "brokenPipe", "writeError", "noReply", "panicked"}

WriterTypeOK ==
  /\ call \in [Entries -> CallPlaces]
  /\ charged \subseteq Entries \ Streamed
  /\ budgetUsed \in 0..ByteLimit
  /\ queue \in Seq(Entries \cup {"finish"}) /\ Len(queue) <= QueueCap
  /\ senderOpen \in BOOLEAN /\ connected \in BOOLEAN /\ durable \in BOOLEAN
  /\ wpc \in ThreadPlaces
  /\ failed \in {"no", "entry", "encode", "panic"}
  /\ index \in Seq(Entries)
  /\ tmp \in {"absent", "partial", "complete", "synced"}
  /\ target \in {"old", "new", "torn"}
  /\ opc \in OwnerPlaces
  /\ reply \in {"none", "ok", "duplicate", "ioError"}
  /\ finishReply \in {"none", "writeError", "closed"}
  /\ result \in Results

\* create / create_from_prepared: the temporary file exists with a reserved
\* header before the thread is spawned.
Init ==
  /\ call = [e \in Entries |-> "idle"] /\ charged = {} /\ budgetUsed = 0
  /\ queue = <<>> /\ senderOpen = TRUE /\ connected = TRUE
  /\ wpc = "recv" /\ failed = "no" /\ index = <<>>
  /\ tmp = "partial" /\ target = "old" /\ durable = TRUE
  /\ opc = "open" /\ reply = "none" /\ finishReply = "none" /\ result = "none"

Running == opc # "crashed"

-----------------------------------------------------------------------------
(* ByteBudget *)

\* payload.max(1).min(limit)
Charge(e) ==
  LET atLeastOne == IF SizeOf[e] = 0 THEN 1 ELSE SizeOf[e]
  IN  IF atLeastOne <= ByteLimit THEN atLeastOne ELSE ByteLimit

Affordable(e) == budgetUsed + Charge(e) <= ByteLimit

\* notify_all
Woken(calls) == [d \in Entries |-> IF calls[d] = "asleep" THEN "woken" ELSE calls[d]]

\* Mutant: release subtracts the unclamped payload.
ReturnPayloadSize(e, calls) ==
  /\ charged' = charged \ {e}
  /\ budgetUsed' = SaturatingSub(budgetUsed, SizeOf[e])
  /\ call' = Woken(calls)

\* Drop of e's BytePermit, given the callers' places after this step.
ReturnCharge(e, calls) ==
  /\ charged' = charged \ {e}
  /\ budgetUsed' = SaturatingSub(budgetUsed, Charge(e))
  /\ call' = Woken(calls)

Moved(e, place) == [call EXCEPT ![e] = place]

-----------------------------------------------------------------------------
(* Producers *)

\* add_owned: one test of ByteBudget::acquire's loop.
AcquireBytes(e) ==
  /\ Running /\ opc = "open"
  /\ e \notin Streamed
  /\ call[e] \in {"idle", "woken"}
  /\ \/ /\ Affordable(e)
        /\ call' = Moved(e, "granted")
        /\ charged' = charged \cup {e}
        /\ budgetUsed' = budgetUsed + Charge(e)
     \/ /\ ~Affordable(e)
        /\ call' = Moved(e, "asleep")
        /\ UNCHANGED <<charged, budgetUsed>>
  /\ UNCHANGED <<queue, threadVars, diskVars, ownerVars, replyVars>>

\* Sender::send of an owned entry: blocks on a full queue, fails once the
\* receiver is gone, and then drops the command with its permit.
SendEntry(e) ==
  /\ Running
  /\ e \notin Streamed /\ call[e] = "granted"
  /\ \/ /\ connected /\ Len(queue) < QueueCap
        /\ queue' = Append(queue, e)
        /\ call' = Moved(e, "ok")
        /\ UNCHANGED <<charged, budgetUsed>>
     \/ /\ ~connected
        /\ ReturnCharge(e, Moved(e, "err"))
        /\ UNCHANGED queue
  /\ UNCHANGED <<threadVars, diskVars, ownerVars, replyVars>>

\* add_streamed takes stream_serial before it sends.
LockStream(e) ==
  /\ Running /\ opc = "open"
  /\ e \in Streamed /\ call[e] = "idle"
  /\ \A d \in Streamed : call[d] \notin {"granted", "await"}
  /\ call' = Moved(e, "granted")
  /\ UNCHANGED <<charged, budgetUsed, queue, threadVars, diskVars, ownerVars, replyVars>>

SendStreamed(e) ==
  /\ Running
  /\ e \in Streamed /\ call[e] = "granted"
  /\ \/ /\ connected /\ Len(queue) < QueueCap
        /\ queue' = Append(queue, e)
        /\ call' = Moved(e, "await")
     \/ /\ ~connected
        /\ call' = Moved(e, "err")
        /\ UNCHANGED queue
  /\ UNCHANGED <<charged, budgetUsed, threadVars, diskVars, ownerVars, replyVars>>

-----------------------------------------------------------------------------
(* Writer thread *)

Receives(cmd) ==
  /\ Running
  /\ wpc = "recv"
  /\ queue # <<>> /\ Head(queue) = cmd
  /\ queue' = Tail(queue)

\* WriteCmd::Entry: the permit is dropped with the command.
WriteEntry(e) ==
  /\ Receives(e) /\ e \notin Streamed
  /\ index' = Append(index, e)
  /\ ReturnCharge(e, call)
  /\ UNCHANGED <<connected, wpc, failed, diskVars, ownerVars, replyVars>>

\* Mutant: a failed write is logged and the loop goes on.
SkipFailedEntry(e) ==
  /\ Receives(e) /\ e \notin Streamed
  /\ ReturnCharge(e, call)
  /\ UNCHANGED <<connected, wpc, failed, index, diskVars, ownerVars, replyVars>>

\* write_all fails: `?` leaves run_writer_thread with the error.
WriteEntryFails(e) ==
  /\ Receives(e) /\ e \notin Streamed
  /\ wpc' = "leaving" /\ failed' = "entry"
  /\ ReturnCharge(e, call)
  /\ UNCHANGED <<connected, index, diskVars, ownerVars, replyVars>>

\* WriteCmd::StreamEntry
EncodeStreamed(e) ==
  /\ Receives(e) /\ e \in Streamed
  /\ index' = Append(index, e)
  /\ call' = Moved(e, "ok")
  /\ UNCHANGED <<connected, wpc, failed, charged, budgetUsed, diskVars, ownerVars, replyVars>>

\* The encoder returns an error (replied, file removed) or panics (the reply
\* sender is dropped by the unwinding).
EncodeFails(e) ==
  /\ Receives(e) /\ e \in Streamed
  /\ call' = Moved(e, "err")
  /\ wpc' = "leaving"
  /\ \/ failed' = "encode" /\ tmp' = "absent"
     \/ failed' = "panic" /\ UNCHANGED tmp
  /\ UNCHANGED <<connected, index, charged, budgetUsed, target, durable, ownerVars, replyVars>>

DuplicateKey == \E i, j \in DOMAIN index : i # j /\ KeyOf[index[i]] = KeyOf[index[j]]

\* finalize_writer: the sorted rows are scanned for equal neighbours first.
BeginFinalize ==
  /\ Receives("finish")
  /\ \/ /\ DuplicateKey
        /\ reply' = "duplicate" /\ tmp' = "absent" /\ wpc' = "leaving"
     \/ /\ ~DuplicateKey
        /\ wpc' = "metadata"
        /\ UNCHANGED <<reply, tmp>>
  /\ UNCHANGED <<producerVars, connected, failed, index, target, durable, ownerVars, finishReply>>

FinalizeStep(from, to) ==
  /\ Running
  /\ wpc = from /\ wpc' = to
  /\ UNCHANGED <<producerVars, queue, connected, failed, index, ownerVars, finishReply>>

\* A file that another process unlinked is written on, but has no name.
OnDisk(state) == IF tmp = "absent" THEN "absent" ELSE state

\* String pool, index rows and header.
WriteMetadata ==
  /\ FinalizeStep("metadata", "sync")
  /\ tmp' = OnDisk("complete")
  /\ UNCHANGED <<target, durable, reply>>

\* Mutant: the file is renamed before it is synced.
SkipSync ==
  /\ FinalizeStep("sync", "rename")
  /\ UNCHANGED <<diskVars, reply>>

SyncFile ==
  /\ FinalizeStep("sync", "rename")
  /\ tmp' = OnDisk("synced")
  /\ UNCHANGED <<target, durable, reply>>

\* rename over the target; until the directory is synced it may be undone.
RenameOverTarget ==
  /\ tmp # "absent"
  /\ FinalizeStep("rename", "syncDir")
  /\ target' = IF tmp = "synced" THEN "new" ELSE "torn"
  /\ tmp' = "absent" /\ durable' = FALSE
  /\ UNCHANGED reply

\* Mutant: a directory that cannot be synced fails the finish.
ReportDirSync ==
  /\ FinalizeStep("syncDir", "leaving")
  /\ durable' \in BOOLEAN
  /\ reply' = IF durable' THEN "ok" ELSE "ioError"
  /\ UNCHANGED <<tmp, target>>

\* The result of the directory's sync is ignored.
SyncDirAndReply ==
  /\ FinalizeStep("syncDir", "leaving")
  /\ durable' \in BOOLEAN
  /\ reply' = "ok"
  /\ UNCHANGED <<tmp, target>>

FinalizeFails ==
  /\ \E from \in {"metadata", "sync", "rename"} : FinalizeStep(from, "leaving")
  /\ reply' = "ioError"
  /\ UNCHANGED diskVars

\* The channel is empty and its only sender dropped.
Disconnected ==
  /\ Running
  /\ wpc = "recv" /\ queue = <<>> /\ ~senderOpen
  /\ wpc' = "leaving" /\ tmp' = "absent"
  /\ UNCHANGED <<producerVars, queue, connected, failed, index, target, durable, ownerVars, replyVars>>

\* run_writer_thread returns: its Receiver is dropped.
DropReceiver ==
  /\ Running
  /\ wpc = "leaving"
  /\ wpc' = "dropped" /\ connected' = FALSE
  /\ UNCHANGED <<producerVars, queue, failed, index, diskVars, ownerVars, replyVars>>

\* Mutant: a discarded command keeps its permit.
DiscardLeaksPermit ==
  /\ Running
  /\ wpc = "dropped" /\ DiscardOnDrop
  /\ queue # <<>> /\ queue' = Tail(queue)
  /\ call' = IF Head(queue) \in Streamed THEN Moved(Head(queue), "err") ELSE call
  /\ UNCHANGED <<charged, budgetUsed, threadVars, diskVars, ownerVars, replyVars>>

\* The queued commands are dropped, and with them permits and reply senders.
DiscardQueued ==
  /\ Running
  /\ wpc = "dropped" /\ DiscardOnDrop
  /\ queue # <<>> /\ queue' = Tail(queue)
  /\ LET cmd == Head(queue)
     IN  IF cmd \in Entries \ Streamed THEN ReturnCharge(cmd, call)
         ELSE /\ call' = IF cmd \in Streamed THEN Moved(cmd, "err") ELSE call
              /\ UNCHANGED <<charged, budgetUsed>>
  /\ UNCHANGED <<threadVars, diskVars, ownerVars, replyVars>>

\* The spawned closure ends: an Err outcome is sent, TemporaryStorePath
\* removes the file if it is still there, the reply sender is dropped.
ThreadExit ==
  /\ Running
  /\ wpc = "dropped" /\ (DiscardOnDrop => queue = <<>>)
  /\ wpc' = "exited"
  /\ finishReply' = IF failed = "entry" THEN "writeError" ELSE "closed"
  /\ tmp' = "absent"
  /\ UNCHANGED <<producerVars, queue, connected, failed, index, target, durable, ownerVars, reply>>

-----------------------------------------------------------------------------
(* Owner *)

NoCallUnderWay == \A e \in Entries : call[e] \in {"idle", "ok", "err"}

OwnerGoes(from, to) ==
  /\ opc = from /\ opc' = to
  /\ UNCHANGED <<producerVars, threadVars, diskVars, replyVars>>

CallFinish ==
  /\ OwnerGoes("open", "sendFinish")
  /\ NoCallUnderWay
  /\ UNCHANGED <<queue, senderOpen, result>>

\* A failed send returns at once, and Drop joins the thread.
SendFinish ==
  \/ /\ connected /\ Len(queue) < QueueCap
     /\ OwnerGoes("sendFinish", "awaitReply")
     /\ queue' = Append(queue, "finish")
     /\ senderOpen' = FALSE
     /\ UNCHANGED result
  \/ /\ ~connected
     /\ OwnerGoes("sendFinish", "join")
     /\ result' = "brokenPipe"
     /\ senderOpen' = FALSE
     /\ UNCHANGED queue

\* The one-shot answers, or its sender was dropped with the command.
AwaitReply ==
  /\ \/ reply # "none" /\ OwnerGoes("awaitReply", "join") /\ result' = reply
     \/ reply = "none" /\ ~connected /\ OwnerGoes("awaitReply", "fallback") /\ UNCHANGED result
  /\ UNCHANGED <<queue, senderOpen>>

Fallback ==
  /\ finishReply # "none"
  /\ OwnerGoes("fallback", "join")
  /\ result' = IF finishReply = "writeError" THEN "writeError" ELSE "noReply"
  /\ UNCHANGED <<queue, senderOpen>>

\* JoinHandle::join reports a panic in place of the answer; Drop ignores it.
Join ==
  /\ wpc = "exited"
  /\ \/ /\ OwnerGoes("join", "returned")
        /\ result' = IF failed = "panic" /\ result # "brokenPipe" THEN "panicked" ELSE result
     \/ /\ OwnerGoes("dropJoin", "dropped")
        /\ UNCHANGED result
  /\ UNCHANGED <<queue, senderOpen>>

\* Drop without finish.
DropWriter ==
  /\ OwnerGoes("open", "dropJoin")
  /\ NoCallUnderWay
  /\ senderOpen' = FALSE
  /\ UNCHANGED <<queue, result>>

\* The process or the machine stops.  A rename whose directory was not synced
\* may be lost with the machine.
Crash ==
  /\ Running
  /\ opc' = "crashed"
  /\ target' \in {target} \cup (IF durable THEN {} ELSE {"old"})
  /\ UNCHANGED <<producerVars, queue, threadVars, tmp, durable, senderOpen, result, replyVars>>

-----------------------------------------------------------------------------
ProducerStep(e) ==
  AcquireBytes(e) \/ SendEntry(e) \/ LockStream(e) \/ SendStreamed(e)

ThreadStep ==
  \/ \E e \in Entries :
       WriteEntry(e) \/ WriteEntryFails(e) \/ EncodeStreamed(e) \/ EncodeFails(e)
  \/ BeginFinalize \/ WriteMetadata \/ SyncFile \/ RenameOverTarget \/ SyncDirAndReply
  \/ FinalizeFails \/ Disconnected \/ DropReceiver \/ DiscardQueued \/ ThreadExit

FinishStep == SendFinish \/ AwaitReply \/ Fallback \/ Join

Next ==
  \/ \E e \in Entries : ProducerStep(e)
  \/ ThreadStep
  \/ FinishStep \/ CallFinish \/ DropWriter
  \/ Crash

\* A call that has begun runs on, the writer thread is scheduled, and so is
\* an owner inside finish or Drop; nobody has to begin a call, or to crash.
Fairness ==
  /\ \A e \in Entries :
       /\ WF_vars(call[e] = "woken" /\ AcquireBytes(e))
       /\ WF_vars(SendEntry(e))
       /\ WF_vars(SendStreamed(e))
  /\ WF_vars(ThreadStep)
  /\ WF_vars(FinishStep)

WriterSpec == Init /\ [][Next]_vars /\ Fairness

-----------------------------------------------------------------------------
\* "Entries are never dropped or truncated": when finish answers Ok the target
\* is the new generation and its rows are exactly the entries whose add
\* returned Ok, each key once, whatever the order in which they arrived.
FinishOkIsComplete ==
  result = "ok" /\ opc = "returned" =>
    /\ target = "new"
    /\ {index[i] : i \in DOMAIN index} = {e \in Entries : call[e] = "ok"}
    /\ \A i, j \in DOMAIN index : i # j => KeyOf[index[i]] # KeyOf[index[j]]

\* The converse: a finish that failed, and a drop without finish, leave the
\* previously published generation in place.
FailureKeepsOldGeneration ==
  (opc = "dropped" \/ (opc = "returned" /\ result # "ok")) => target = "old"

\* At no time, and after no crash, is the target anything but a complete
\* generation: the file is synced before it takes the target's name.
TargetNeverTorn == target # "torn"

\* Every add that has begun, finish and Drop return, also when the writer
\* thread fails or dies under them: no producer sleeps beside a budget that
\* nobody will refill, and no caller waits for a reply that nobody will send.
CallsReturn ==
  /\ \A e \in Entries :
       call[e] \in {"asleep", "woken", "granted", "await"}
         ~> (call[e] \in {"ok", "err"} \/ opc = "crashed")
  /\ opc \in {"sendFinish", "dropJoin"} ~> opc \in {"returned", "dropped", "crashed"}

-----------------------------------------------------------------------------
\* The byte budget of the queue is the same gate as the memory permits of the
\* compiler phases: an owned entry is a unit, its charge a permit.
Budget == INSTANCE PermitPool WITH
  Units <- Entries,
  Weight <- [e \in Entries |-> IF SizeOf[e] = 0 THEN 1 ELSE SizeOf[e]],
  Capacity <- ByteLimit,
  NoLimit <- 0,
  used <- budgetUsed,
  held <- [e \in Entries |-> IF e \in charged THEN Charge(e) ELSE 0],
  at <- [e \in Entries |->
           IF e \in charged THEN "held"
           ELSE IF e \in Streamed THEN "idle"
           ELSE IF call[e] \in {"idle", "asleep", "woken"} THEN call[e] ELSE "released"]
=============================================================================
