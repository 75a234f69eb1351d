---------------------------- MODULE PersistSession ----------------------------
(***************************************************************************)
(* The write-through sessions of TaintGraphIndex                           *)
(* (crates/workspace/src/taint_index.rs) around a FactStoreWriter, beside  *)
(* another process that maintains the same cache directory.                *)
(*                                                                         *)
(* A session owns the target's advisory lock: it takes the lock, removes   *)
(* the temporary files that dead writers left, and creates its writer.     *)
(* The lock dies with its process; a temporary file does not.  A name says *)
(* nothing about whether its writer lives, only the lock does.             *)
(***************************************************************************)
EXTENDS FactStoreWriter

CONSTANT MaxSessions   \* bound on the sessions of our process and its successors

ASSUME SessionAssumption == MaxSessions \in Nat \ {0}

VARIABLES
  lock,      \* who holds <target>.lock: "none", "self" or "rival"
  stage,     \* where our session is
  rival,     \* where the other process's maintenance is
  strays,    \* the sessions whose temporary file outlived their process
  session    \* the number of the session

sessionVars == <<lock, stage, rival, strays, session>>

\* The first session has just begun.
SessionInit ==
  /\ Init
  /\ lock = "self" /\ stage = "writing" /\ session = 1
  /\ rival = "idle" /\ strays = {}

-----------------------------------------------------------------------------
(* Our process *)

StageGoes(from, to) == stage = from /\ stage' = to

\* finish_persist_to_disk has its writer's answer: Ok unlocks, an error closes
\* the lock's file.  A session dropped without finish has closed it already.
EndSession ==
  /\ \/ opc = "returned" /\ StageGoes("writing", "idle") /\ lock' = "none"
     \/ opc = "dropped" /\ StageGoes("closing", "idle") /\ UNCHANGED lock
  /\ UNCHANGED <<vars, rival, strays, session>>

\* clear, clear_for_config: the session is dropped without finish, and its
\* fields in the order of their declaration, the lock before the writer.  An
\* insertion under way keeps the session alive.
DropSession ==
  /\ opc = "open" /\ NoCallUnderWay
  /\ StageGoes("writing", "closing")
  /\ lock' = "none"
  /\ UNCHANGED <<vars, rival, strays, session>>

\* begin_persist_to_disk_report; a lock that is taken ends it with WouldBlock.
Begin ==
  /\ session < MaxSessions /\ session' = session + 1
  /\ StageGoes("idle", "locked")
  /\ lock = "none" /\ lock' = "self"
  /\ UNCHANGED <<vars, rival, strays>>

\* Mutant: the staging files are left to Drop.
SweepNothing ==
  /\ StageGoes("locked", "swept")
  /\ UNCHANGED <<vars, lock, rival, strays, session>>

\* cleanup_abandoned_taint_graph_temp_files
Sweep ==
  /\ StageGoes("locked", "swept")
  /\ strays' = {}
  /\ UNCHANGED <<vars, lock, rival, session>>

\* FactStoreWriter::create; what the target holds is now the old generation.
Create ==
  /\ StageGoes("swept", "writing")
  /\ call' = [e \in Entries |-> "idle"] /\ charged' = {} /\ budgetUsed' = 0
  /\ queue' = <<>> /\ senderOpen' = TRUE /\ connected' = TRUE
  /\ wpc' = "recv" /\ failed' = "no" /\ index' = <<>>
  /\ tmp' = "partial" /\ durable' = TRUE
  /\ target' = IF target = "torn" THEN "torn" ELSE "old"
  /\ opc' = "open" /\ reply' = "none" /\ finishReply' = "none" /\ result' = "none"
  /\ UNCHANGED <<lock, rival, strays, session>>

\* A killed process runs no Drop: its file stays, its lock does not.
ProcessStops ==
  /\ Crash \/ (~Running /\ stage # "idle" /\ UNCHANGED vars)
  /\ stage' = "idle"
  /\ lock' = IF lock = "self" THEN "none" ELSE lock
  /\ strays' = strays \cup (IF Running /\ tmp # "absent" THEN {session} ELSE {})
  /\ UNCHANGED <<rival, session>>

-----------------------------------------------------------------------------
(* maintain_sidecar_cache, or the beginning of a session, in another process *)

\* Mutant: the sweep trusts the file names.
RivalIgnoresLock ==
  /\ rival = "idle" /\ rival' = "locked"
  /\ UNCHANGED <<vars, lock, stage, strays, session>>

RivalLocks ==
  /\ rival = "idle" /\ rival' = "locked"
  /\ lock = "none" /\ lock' = "rival"
  /\ UNCHANGED <<vars, stage, strays, session>>

\* Every name <target>.tmp.<pid>.<counter> is unlinked, ours included.
RivalSweeps ==
  /\ rival = "locked" /\ rival' = "swept"
  /\ strays' = {}
  /\ tmp' = IF Running THEN "absent" ELSE tmp
  /\ UNCHANGED <<producerVars, queue, threadVars, target, durable, ownerVars, replyVars>>
  /\ UNCHANGED <<lock, stage, session>>

\* unlock, or the other process stops.
RivalEnds ==
  /\ rival \in {"locked", "swept"} /\ rival' = "idle"
  /\ lock' = IF lock = "rival" THEN "none" ELSE lock
  /\ UNCHANGED <<vars, stage, strays, session>>

-----------------------------------------------------------------------------
\* Calls begin while the session is open, and its drop reaches the writer last.
WriterStep ==
  /\ \/ \E e \in Entries : (stage = "writing" \/ call[e] # "idle") /\ ProducerStep(e)
     \/ ThreadStep
     \/ FinishStep
     \/ stage = "writing" /\ CallFinish
     \/ stage = "closing" /\ DropWriter
  /\ UNCHANGED sessionVars

SessionNext ==
  \/ WriterStep
  \/ EndSession \/ DropSession \/ Begin \/ Sweep \/ Create \/ ProcessStops
  \/ RivalLocks \/ RivalSweeps \/ RivalEnds

\* The fairness is the writer's: nobody has to begin a session or to sweep.
SessionSpec == SessionInit /\ [][SessionNext]_<<vars, sessionVars>> /\ Fairness

-----------------------------------------------------------------------------
\* "Active writers retain their lock and are never touched": no sweep of any
\* process takes the temporary file from under a writer that can still
\* publish it, although a sweep looks at names only.
LiveWriterKeepsFile ==
  stage = "writing" =>
    /\ opc = "open" /\ wpc = "recv" => tmp # "absent"
    /\ wpc \in {"metadata", "sync", "rename"} => tmp # "absent"

\* Once finish or Drop has returned, whatever failed on the way and whichever
\* earlier process was killed, no temporary file is left beside the target.
NoTemporaryLeft ==
  opc \in {"returned", "dropped"} => tmp = "absent" /\ strays = {}

\* The byte budget of each session's writer keeps every promise of the permit
\* gate, through failures and discarded commands: charges are returned once,
\* each return wakes all, and no charge survives into the next session.
BudgetIsPermitGate ==
  /\ Budget!PoolInit
  /\ [][Budget!PoolNext \/ (Create /\ Budget!PoolInit')]_(Budget!poolVars)
=============================================================================
