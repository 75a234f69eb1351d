------------------------ MODULE PersistSessionProofs ------------------------
(* The factstore writer and its sessions keep their promises for any       *)
(* entries, queue, budget and number of sessions, whoever fails or is      *)
(* killed, and its byte budget implements the permit gate.                 *)
EXTENDS PersistSession, TLAPS

Finalizing == {"metadata", "sync", "rename", "syncDir"}
Gone == {"leaving", "dropped", "exited"}

Holds(q, x) == \E i \in DOMAIN q : q[i] = x

\* Every command is queued once, and nothing is sent after finish.
QueueShape(q) ==
  /\ \A i, j \in DOMAIN q : q[i] = q[j] => i = j
  /\ \A i \in DOMAIN q : q[i] = "finish" => i = Len(q)

SessionTypeOK ==
  /\ WriterTypeOK
  /\ lock \in {"none", "self", "rival"}
  /\ stage \in {"idle", "locked", "swept", "writing", "closing"}
  /\ rival \in {"idle", "locked", "swept"}
  /\ session \in Nat /\ strays \subseteq Nat

\* The advisory lock excludes the other process from the beginning of a session
\* to its end, and the session's stage bounds where its writer's owner is.
LockExcludes ==
  /\ lock = "self" <=> stage \in {"locked", "swept", "writing"}
  /\ lock = "rival" <=> rival # "idle"
  /\ stage = "writing" => opc \in {"open", "sendFinish", "awaitReply", "fallback", "join", "returned"}
  /\ stage = "closing" => opc \in {"open", "dropJoin", "dropped"}
  /\ stage \in {"idle", "locked", "swept"} => opc \in {"returned", "dropped", "crashed"}

\* The temporary file is there as long as a session may publish it, is synced
\* before it is renamed, and is gone with the thread; files of killed processes
\* are gone before a writer is created.
FileFollowsThread ==
  /\ stage = "writing" /\ wpc \in {"recv", "metadata", "sync", "rename"} => tmp # "absent"
  /\ wpc = "rename" => tmp \in {"synced", "absent"}
  /\ wpc = "exited" => tmp = "absent"
  /\ Running \/ stage = "swept" => strays = {}

\* The permit of an owned entry is live from its grant until its command is
\* written, discarded or refused.
OwnedPermit(e) ==
  /\ call[e] \in {"idle", "asleep", "woken"} => e \notin charged
  /\ call[e] = "granted" => e \in charged
  /\ Holds(queue, e) => e \in charged /\ call[e] = "ok"

PermitsFollowCalls ==
  /\ QueueShape(queue)
  /\ \A e \in Entries \ Streamed : OwnedPermit(e)
  /\ \A e \in Streamed : Holds(queue, e) => call[e] = "await"

\* Only the owner's finish makes the thread finalize, and no call is under way
\* by then.
FinishIsLast ==
  /\ connected <=> wpc \notin {"dropped", "exited"}
  /\ wpc \notin Gone => reply = "none" /\ failed = "no"
  /\ opc # "open" => NoCallUnderWay
  /\ Holds(queue, "finish") => opc \notin {"open", "sendFinish", "dropJoin", "dropped"}
  /\ Holds(queue, "finish") /\ connected => opc = "awaitReply" /\ reply = "none"
  /\ wpc \in Finalizing => opc = "awaitReply"
  /\ opc \in {"open", "sendFinish", "dropJoin", "dropped"} => reply = "none"

\* What the owner returns is what the thread did: the target is new exactly from
\* the rename on, and Ok is returned exactly then.
OutcomeKnown ==
  /\ opc = "fallback" => reply = "none" /\ ~connected
  /\ opc \in {"join", "returned"} => wpc \in Gone /\ (result = "ok" <=> reply = "ok")
  /\ opc \in {"returned", "dropped"} => wpc = "exited"
  /\ reply = "ok" => failed = "no"
  /\ target = "new" <=> wpc = "syncDir" \/ reply = "ok"

\* An entry whose add returned Ok is in the index or still queued; once the
\* thread finalizes, the index is exactly the entries added, each key once.
RowsAreCalls ==
  /\ wpc = "recv" => \A e \in Entries :
       /\ call[e] = "ok" => Holds(index, e) \/ Holds(queue, e)
       /\ Holds(index, e) => call[e] = "ok"
  /\ wpc \in Finalizing \/ reply = "ok" =>
       /\ queue = <<>> /\ ~DuplicateKey
       /\ \A e \in Entries : call[e] = "ok" <=> Holds(index, e)

\* The inductive invariant of the sessions.  A killed process leaves its writer
\* as it was, so nothing is said of that writer's progress.
SessionInv ==
  /\ SessionTypeOK
  /\ LockExcludes
  /\ FileFollowsThread
  /\ TargetNeverTorn
  /\ PermitsFollowCalls
  /\ Running => FinishIsLast /\ OutcomeKnown /\ RowsAreCalls

-----------------------------------------------------------------------------
(* The channel and the callers' places. *)

\* A sequence holds what was appended and what it held.
LEMMA HoldsAppend ==
  ASSUME NEW S, NEW q \in Seq(S), NEW x \in S
  PROVE  Append(q, x) \in Seq(S) /\ \A y : Holds(Append(q, x), y) <=> Holds(q, y) \/ y = x
<1>1. /\ Append(q, x) \in Seq(S) /\ Len(q) \in Nat
      /\ DOMAIN q = 1..Len(q) /\ DOMAIN Append(q, x) = 1..(Len(q) + 1)
      /\ \A i \in 1..Len(q) : Append(q, x)[i] = q[i]
      /\ Append(q, x)[Len(q) + 1] = x
  OBVIOUS
<1>2. \A y : Holds(Append(q, x), y) <=> Holds(q, y) \/ y = x
  <2> SUFFICES ASSUME NEW y PROVE Holds(Append(q, x), y) <=> Holds(q, y) \/ y = x
    OBVIOUS
  <2>1. ASSUME NEW i \in 1..(Len(q) + 1), Append(q, x)[i] = y PROVE Holds(q, y) \/ y = x
    BY <1>1, <2>1 DEF Holds
  <2>2. ASSUME NEW i \in 1..Len(q), q[i] = y PROVE Holds(Append(q, x), y)
    BY <1>1, <2>2 DEF Holds
  <2>3. Holds(Append(q, x), x)
    BY <1>1 DEF Holds
  <2>4. QED
    BY <1>1, <2>1, <2>2, <2>3 DEF Holds
<1>3. QED
  BY <1>1, <1>2

\* Sending a command that is not queued yet, before any finish.
LEMMA QueueAppend ==
  ASSUME NEW S, NEW q \in Seq(S), NEW x \in S, QueueShape(q), ~Holds(q, x), ~Holds(q, "finish")
  PROVE  /\ Append(q, x) \in Seq(S) /\ Len(Append(q, x)) = Len(q) + 1
         /\ QueueShape(Append(q, x))
         /\ \A y : Holds(Append(q, x), y) <=> Holds(q, y) \/ y = x
<1>1. /\ Append(q, x) \in Seq(S) /\ Len(Append(q, x)) = Len(q) + 1 /\ Len(q) \in Nat
      /\ DOMAIN q = 1..Len(q) /\ DOMAIN Append(q, x) = 1..(Len(q) + 1)
      /\ \A i \in 1..Len(q) : Append(q, x)[i] = q[i]
      /\ Append(q, x)[Len(q) + 1] = x
  OBVIOUS
<1>2. \A y : Holds(Append(q, x), y) <=> Holds(q, y) \/ y = x
  BY HoldsAppend
<1>3. QueueShape(Append(q, x))
  <2>1. \A i \in 1..Len(q) : q[i] # x /\ q[i] # "finish"
    BY <1>1 DEF Holds
  <2>2. \A i, j \in 1..Len(q) : q[i] = q[j] => i = j
    BY <1>1 DEF QueueShape
  <2> DEFINE a == Append(q, x)
  <2> HIDE DEF a
  <2>3. \A i, j \in 1..(Len(q) + 1) : a[i] = a[j] => i = j
    BY <1>1, <2>1, <2>2 DEF a
  <2>4. \A i \in 1..(Len(q) + 1) : a[i] = "finish" => i = Len(q) + 1
    BY <1>1, <2>1 DEF a
  <2>5. QED
    BY <1>1, <2>3, <2>4 DEF QueueShape, a
<1>4. QED
  BY <1>1, <1>2, <1>3

\* Receiving or discarding the oldest command.
LEMMA QueueTail ==
  ASSUME NEW S, NEW q \in Seq(S), q # <<>>, QueueShape(q)
  PROVE  /\ Head(q) \in S /\ Holds(q, Head(q))
         /\ Tail(q) \in Seq(S) /\ Len(Tail(q)) = Len(q) - 1
         /\ QueueShape(Tail(q))
         /\ \A y : Holds(Tail(q), y) <=> Holds(q, y) /\ y # Head(q)
         /\ Head(q) = "finish" => Tail(q) = <<>>
<1> DEFINE t == Tail(q)
<1>1. /\ Len(q) \in Nat /\ Len(q) # 0 /\ DOMAIN q = 1..Len(q)
      /\ Head(q) = q[1] /\ q[1] \in S /\ t \in Seq(S) /\ Len(t) = Len(q) - 1
      /\ DOMAIN t = 1..(Len(q) - 1)
      /\ \A i \in 1..(Len(q) - 1) : t[i] = q[i + 1]
  OBVIOUS
<1> HIDE DEF t
<1>2. /\ \A i, j \in 1..Len(q) : q[i] = q[j] => i = j
      /\ \A i \in 1..Len(q) : q[i] = "finish" => i = Len(q)
  BY <1>1 DEF QueueShape
<1>3. \A y : Holds(t, y) <=> Holds(q, y) /\ y # Head(q)
  <2> SUFFICES ASSUME NEW y PROVE Holds(t, y) <=> Holds(q, y) /\ y # Head(q)
    OBVIOUS
  <2>1. ASSUME NEW i \in 1..(Len(q) - 1), t[i] = y PROVE Holds(q, y) /\ y # Head(q)
    <3>1. i + 1 \in 1..Len(q) /\ q[i + 1] = y /\ 1 \in 1..Len(q) /\ i + 1 # 1
      BY <1>1, <2>1
    <3>2. QED
      BY <1>1, <1>2, <3>1 DEF Holds
  <2>2. ASSUME NEW i \in 1..Len(q), q[i] = y, y # Head(q) PROVE Holds(t, y)
    <3>1. i - 1 \in 1..(Len(q) - 1) /\ t[i - 1] = q[i]
      BY <1>1, <2>2
    <3>2. QED
      BY <1>1, <2>2, <3>1 DEF Holds
  <2>3. QED
    BY <1>1, <2>1, <2>2 DEF Holds
<1>4. QueueShape(t)
  <2>1. \A i, j \in 1..(Len(q) - 1) : t[i] = t[j] => i = j
    <3> SUFFICES ASSUME NEW i \in 1..(Len(q) - 1), NEW j \in 1..(Len(q) - 1), t[i] = t[j]
                 PROVE  i = j
      OBVIOUS
    <3>1. i + 1 \in 1..Len(q) /\ j + 1 \in 1..Len(q) /\ q[i + 1] = q[j + 1]
      BY <1>1
    <3>2. i + 1 = j + 1
      BY <1>2, <3>1
    <3>3. QED
      BY <1>1, <3>2
  <2>2. \A i \in 1..(Len(q) - 1) : t[i] = "finish" => i = Len(q) - 1
    <3> SUFFICES ASSUME NEW i \in 1..(Len(q) - 1), t[i] = "finish" PROVE i = Len(q) - 1
      OBVIOUS
    <3>1. i + 1 \in 1..Len(q) /\ q[i + 1] = "finish"
      BY <1>1
    <3>2. i + 1 = Len(q)
      BY <1>2, <3>1
    <3>3. i \in Nat /\ Len(q) \in Nat
      BY <1>1
    <3>4. QED
      BY <3>2, <3>3
  <2>3. QED
    BY <1>1, <2>1, <2>2 DEF QueueShape
<1>5. Head(q) = "finish" => t = <<>>
  <2>1. 1 \in 1..Len(q)
    BY <1>1
  <2>2. Head(q) = "finish" => 1 = Len(q)
    BY <1>1, <1>2, <2>1
  <2>3. Head(q) = "finish" => Len(t) = 0
    BY <1>1, <2>2
  <2>4. QED
    BY <1>1, <2>3
<1>6. Holds(q, Head(q))
  BY <1>1 DEF Holds
<1>7. QED
  BY <1>1, <1>3, <1>4, <1>5, <1>6 DEF t

\* An empty channel.
LEMMA QueueEmpty ==
  /\ QueueShape(<<>>) /\ \A y : ~Holds(<<>>, y)
  /\ \A S : <<>> \in Seq(S) /\ Len(<<>>) = 0
BY DEF QueueShape, Holds

\* notify_all wakes sleepers and moves nobody else.
LEMMA WokenFacts ==
  ASSUME NEW c \in [Entries -> CallPlaces]
  PROVE  /\ Woken(c) \in [Entries -> CallPlaces]
         /\ \A d \in Entries : Woken(c)[d] = IF c[d] = "asleep" THEN "woken" ELSE c[d]
BY DEF Woken, CallPlaces

\* A charge is positive and never exceeds the limit.
LEMMA ChargeFacts ==
  ASSUME NEW e \in Entries
  PROVE  Charge(e) \in 1..ByteLimit
BY WriterAssumption DEF Charge

\* A returned charge leaves a budget within its limit.
LEMMA ReturnFacts ==
  ASSUME SessionTypeOK, NEW e \in Entries, NEW calls \in [Entries -> CallPlaces],
         ReturnCharge(e, calls)
  PROVE  /\ call' \in [Entries -> CallPlaces]
         /\ \A d \in Entries : call'[d] = IF calls[d] = "asleep" THEN "woken" ELSE calls[d]
         /\ charged' = charged \ {e} /\ charged' \subseteq Entries \ Streamed
         /\ budgetUsed' \in 0..ByteLimit
<1>1. budgetUsed \in 0..ByteLimit /\ Charge(e) \in 1..ByteLimit
  BY ChargeFacts DEF SessionTypeOK, WriterTypeOK
<1>2. budgetUsed' = SaturatingSub(budgetUsed, Charge(e)) /\ charged' = charged \ {e}
      /\ call' = Woken(calls)
  BY DEF ReturnCharge
<1>3. budgetUsed' \in 0..ByteLimit
  BY <1>1, <1>2, WriterAssumption DEF SaturatingSub
<1>4. QED
  BY <1>2, <1>3, WokenFacts DEF SessionTypeOK, WriterTypeOK

-----------------------------------------------------------------------------
(* Producers. *)

\* Calls begin and go on only while the writer is open.
LEMMA ProducersWhileOpen ==
  ASSUME SessionInv, NEW e \in Entries, ProducerStep(e)
  PROVE  /\ opc = "open" /\ Running
         /\ FinishIsLast /\ OutcomeKnown /\ RowsAreCalls
         /\ reply = "none" /\ wpc \notin Finalizing /\ ~Holds(queue, "finish")
         /\ UNCHANGED <<threadVars, diskVars, ownerVars, replyVars>>
<1>1. Running /\ UNCHANGED <<threadVars, diskVars, ownerVars, replyVars>>
  BY DEF ProducerStep, AcquireBytes, SendEntry, LockStream, SendStreamed
<1>2. opc = "open" \/ call[e] = "granted"
  BY DEF ProducerStep, AcquireBytes, SendEntry, LockStream, SendStreamed
<1>3. FinishIsLast /\ OutcomeKnown /\ RowsAreCalls
  BY <1>1 DEF SessionInv
<1>4. opc = "open"
  BY <1>2, <1>3 DEF FinishIsLast, NoCallUnderWay
<1>5. QED
  BY <1>1, <1>3, <1>4 DEF FinishIsLast, Finalizing

\* What an add may change, and what must hold of its places and its permit.
LEMMA ProducerFrame ==
  ASSUME SessionInv, NEW e \in Entries, ProducerStep(e), UNCHANGED sessionVars,
         call' \in [Entries -> CallPlaces],
         charged' \subseteq Entries \ Streamed, budgetUsed' \in 0..ByteLimit,
         queue' \in Seq(Entries \cup {"finish"}), Len(queue') <= QueueCap,
         PermitsFollowCalls', ~Holds(queue', "finish"),
         wpc = "recv" => \A d \in Entries :
           /\ call'[d] = "ok" => call[d] = "ok" \/ Holds(queue', d)
           /\ call[d] = "ok" => call'[d] = "ok"
           /\ Holds(queue, d) => Holds(queue', d)
  PROVE  SessionInv'
<1>1. /\ opc = "open" /\ Running
      /\ FinishIsLast /\ OutcomeKnown /\ RowsAreCalls
      /\ reply = "none" /\ wpc \notin Finalizing /\ ~Holds(queue, "finish")
      /\ UNCHANGED <<threadVars, diskVars, ownerVars, replyVars>>
  BY ProducersWhileOpen
<1> USE DEF threadVars, diskVars, ownerVars, replyVars, sessionVars
<1>2. SessionTypeOK'
  BY <1>1 DEF SessionInv, SessionTypeOK, WriterTypeOK
<1>3. LockExcludes' /\ FileFollowsThread' /\ TargetNeverTorn'
  BY <1>1 DEF SessionInv, LockExcludes, FileFollowsThread, TargetNeverTorn, Running
<1>4. FinishIsLast'
  BY <1>1 DEF FinishIsLast
<1>5. OutcomeKnown'
  BY <1>1 DEF OutcomeKnown
<1>6. RowsAreCalls'
  BY <1>1 DEF RowsAreCalls
<1>7. QED
  BY <1>2, <1>3, <1>4, <1>5, <1>6 DEF SessionInv

\* add_owned and add_streamed, from the first test to the send.
LEMMA ProducerKeeps ==
  ASSUME SessionInv, NEW e \in Entries, ProducerStep(e), UNCHANGED sessionVars
  PROVE  SessionInv'
<1>1. /\ SessionTypeOK /\ PermitsFollowCalls /\ ~Holds(queue, "finish") /\ e # "finish"
      /\ call \in [Entries -> CallPlaces] /\ charged \subseteq Entries \ Streamed
      /\ budgetUsed \in 0..ByteLimit
      /\ queue \in Seq(Entries \cup {"finish"}) /\ Len(queue) <= QueueCap
      /\ connected <=> wpc \notin {"dropped", "exited"}
  BY ProducersWhileOpen, WriterAssumption DEF SessionInv, SessionTypeOK, WriterTypeOK, FinishIsLast
<1>2. \A p \in CallPlaces : /\ Moved(e, p) \in [Entries -> CallPlaces]
                            /\ \A d \in Entries : Moved(e, p)[d] = IF d = e THEN p ELSE call[d]
  BY <1>1 DEF Moved
<1>3. CASE AcquireBytes(e) \/ LockStream(e)
  <2>1. PICK p \in {"granted", "asleep"} : call' = Moved(e, p) /\ call[e] \in {"idle", "woken"}
    BY <1>3 DEF AcquireBytes, LockStream
  <2>2. /\ queue' = queue
        /\ \/ e \in Streamed /\ charged' = charged /\ budgetUsed' = budgetUsed
           \/ e \notin Streamed /\ p = "granted" /\ charged' = charged \cup {e}
              /\ budgetUsed' = budgetUsed + Charge(e) /\ budgetUsed + Charge(e) <= ByteLimit
           \/ e \notin Streamed /\ p = "asleep" /\ charged' = charged /\ budgetUsed' = budgetUsed
    <3>1. CASE AcquireBytes(e) /\ Affordable(e)
      BY <1>1, <1>2, <2>1, <3>1 DEF AcquireBytes, Affordable, CallPlaces
    <3>2. CASE AcquireBytes(e) /\ ~Affordable(e)
      BY <1>1, <1>2, <2>1, <3>2 DEF AcquireBytes, CallPlaces
    <3>3. CASE LockStream(e)
      BY <3>3 DEF LockStream
    <3>4. QED
      BY <1>3, <3>1, <3>2, <3>3
  <2>3. call' \in [Entries -> CallPlaces] /\ \A d \in Entries : call'[d] = IF d = e THEN p ELSE call[d]
    BY <1>2, <2>1 DEF CallPlaces
  <2>4. budgetUsed' \in 0..ByteLimit
    BY <1>1, <2>2, ChargeFacts, WriterAssumption
  <2>5. charged' \subseteq Entries \ Streamed
    BY <1>1, <2>2
  <2>6. PermitsFollowCalls'
    <3>1. ASSUME NEW d \in Entries \ Streamed PROVE OwnedPermit(d)'
      <4>1. OwnedPermit(d)
        BY <1>1 DEF PermitsFollowCalls
      <4>2. CASE d = e
        BY <2>1, <2>2, <2>3, <4>1, <4>2 DEF OwnedPermit
      <4>3. CASE d # e
        BY <2>2, <2>3, <4>1, <4>3 DEF OwnedPermit
      <4>4. QED
        BY <4>2, <4>3
    <3>2. ASSUME NEW d \in Streamed, Holds(queue, d) PROVE call'[d] = "await"
      BY <1>1, <2>1, <2>3, <3>2, WriterAssumption DEF PermitsFollowCalls
    <3>3. QED
      BY <1>1, <2>2, <3>1, <3>2 DEF PermitsFollowCalls
  <2>7. QED
    BY <1>1, <2>1, <2>2, <2>3, <2>4, <2>5, <2>6, ProducerFrame
<1>4. CASE /\ SendEntry(e) \/ SendStreamed(e)
           /\ connected /\ Len(queue) < QueueCap /\ queue' = Append(queue, e)
  <2>1. /\ call[e] = "granted" /\ charged' = charged /\ budgetUsed' = budgetUsed
        /\ call' = Moved(e, IF e \in Streamed THEN "await" ELSE "ok")
    BY <1>1, <1>4 DEF SendEntry, SendStreamed
  <2>2. /\ call' \in [Entries -> CallPlaces]
        /\ \A d \in Entries : call'[d] = IF d = e THEN IF e \in Streamed THEN "await" ELSE "ok"
                                                  ELSE call[d]
    BY <1>2, <2>1 DEF CallPlaces
  <2>3. ~Holds(queue, e)
    BY <1>1, <2>1 DEF PermitsFollowCalls, OwnedPermit
  <2>4. /\ queue' \in Seq(Entries \cup {"finish"}) /\ Len(queue') = Len(queue) + 1
        /\ QueueShape(queue')
        /\ \A y : Holds(queue', y) <=> Holds(queue, y) \/ y = e
    BY <1>1, <1>4, <2>3, QueueAppend DEF PermitsFollowCalls
  <2>5. Len(queue') <= QueueCap
    BY <1>1, <1>4, <2>4, WriterAssumption
  <2>6. PermitsFollowCalls'
    <3>1. ASSUME NEW d \in Entries \ Streamed PROVE OwnedPermit(d)'
      <4>1. OwnedPermit(d)
        BY <1>1 DEF PermitsFollowCalls
      <4>2. CASE d = e
        BY <2>1, <2>2, <2>4, <4>1, <4>2 DEF OwnedPermit
      <4>3. CASE d # e
        BY <2>1, <2>2, <2>4, <4>1, <4>3 DEF OwnedPermit
      <4>4. QED
        BY <4>2, <4>3
    <3>2. ASSUME NEW d \in Streamed, Holds(queue', d) PROVE call'[d] = "await"
      BY <1>1, <2>2, <2>4, <3>2, WriterAssumption DEF PermitsFollowCalls
    <3>3. QED
      BY <2>4, <3>1, <3>2 DEF PermitsFollowCalls
  <2>7. QED
    BY <1>1, <2>1, <2>2, <2>4, <2>5, <2>6, ProducerFrame
<1>5. CASE (SendEntry(e) \/ SendStreamed(e)) /\ ~connected
  <2>1. call[e] = "granted" /\ queue' = queue
    BY <1>5 DEF SendEntry, SendStreamed
  <2>2. /\ call' \in [Entries -> CallPlaces]
        /\ call'[e] = "err"
        /\ \A d \in Entries : d # e => call'[d] = IF call[d] = "asleep" /\ e \notin Streamed THEN "woken" ELSE call[d]
        /\ charged' = charged \ {e} /\ budgetUsed' \in 0..ByteLimit
    <3>1. Moved(e, "err") \in [Entries -> CallPlaces]
          /\ \A d \in Entries : Moved(e, "err")[d] = IF d = e THEN "err" ELSE call[d]
      BY <1>2 DEF CallPlaces
    <3>2. CASE SendEntry(e)
      <4>1. ReturnCharge(e, Moved(e, "err")) /\ e \notin Streamed
        BY <1>5, <3>2 DEF SendEntry
      <4>2. QED
        BY <1>1, <3>1, <4>1, ReturnFacts
    <3>3. CASE SendStreamed(e)
      BY <1>1, <1>5, <3>1, <3>3 DEF SendStreamed
    <3>4. QED
      BY <1>5, <3>2, <3>3
  <2>3. PermitsFollowCalls'
    <3>1. ASSUME NEW d \in Entries \ Streamed PROVE OwnedPermit(d)'
      <4>1. OwnedPermit(d)
        BY <1>1 DEF PermitsFollowCalls
      <4>2. CASE d = e
        BY <2>1, <2>2, <4>1, <4>2 DEF OwnedPermit
      <4>3. CASE d # e
        BY <2>1, <2>2, <4>1, <4>3 DEF OwnedPermit
      <4>4. QED
        BY <4>2, <4>3
    <3>2. ASSUME NEW d \in Streamed, Holds(queue, d) PROVE call'[d] = "await"
      <4>1. call[d] = "await"
        BY <1>1, <3>2 DEF PermitsFollowCalls
      <4>2. QED
        BY <2>1, <2>2, <4>1, WriterAssumption
    <3>3. QED
      BY <1>1, <2>1, <3>1, <3>2 DEF PermitsFollowCalls
  <2>4. wpc # "recv"
    BY <1>1, <1>5
  <2>5. QED
    BY <1>1, <2>1, <2>2, <2>3, <2>4, ProducerFrame
<1>6. QED
  BY <1>3, <1>4, <1>5 DEF ProducerStep, SendEntry, SendStreamed

-----------------------------------------------------------------------------
(* The writer thread. *)

\* The writer takes the next entry: it is written, encoded, or ends the thread.
LEMMA EntryKeeps ==
  ASSUME SessionInv, NEW e \in Entries, UNCHANGED sessionVars,
         WriteEntry(e) \/ WriteEntryFails(e) \/ EncodeStreamed(e) \/ EncodeFails(e)
  PROVE  SessionInv'
<1>1. /\ Receives(e)
      /\ UNCHANGED <<connected, target, durable, ownerVars, replyVars>>
      /\ \/ wpc' = "recv" /\ failed' = failed /\ tmp' = tmp /\ index' = Append(index, e)
         \/ wpc' = "leaving" /\ failed' \in {"entry", "encode", "panic"}
            /\ tmp' \in {"absent", tmp} /\ index' = index
  BY DEF WriteEntry, WriteEntryFails, EncodeStreamed, EncodeFails, Receives, diskVars, replyVars, ownerVars
<1>2. /\ Running /\ wpc = "recv" /\ queue # <<>> /\ Head(queue) = e /\ queue' = Tail(queue)
      /\ FinishIsLast /\ OutcomeKnown /\ RowsAreCalls
      /\ SessionTypeOK /\ PermitsFollowCalls
  BY <1>1 DEF Receives, SessionInv
<1>3. /\ queue \in Seq(Entries \cup {"finish"}) /\ Len(queue) <= QueueCap /\ QueueShape(queue)
      /\ call \in [Entries -> CallPlaces] /\ index \in Seq(Entries)
      /\ charged \subseteq Entries \ Streamed /\ budgetUsed \in 0..ByteLimit /\ Streamed \subseteq Entries
  BY <1>2, WriterAssumption DEF SessionTypeOK, WriterTypeOK, PermitsFollowCalls
<1>4. /\ queue' \in Seq(Entries \cup {"finish"}) /\ Len(queue') = Len(queue) - 1
      /\ QueueShape(queue') /\ Holds(queue, e)
      /\ \A y : Holds(queue', y) <=> Holds(queue, y) /\ y # e
  BY <1>2, <1>3, QueueTail
<1>5. Len(queue') <= QueueCap
  BY <1>3, <1>4, WriterAssumption
<1>6. /\ e \in Streamed => call[e] = "await"
      /\ e \notin Streamed => call[e] = "ok" /\ e \in charged
  BY <1>2, <1>4 DEF PermitsFollowCalls, OwnedPermit
<1>7. /\ call' \in [Entries -> CallPlaces]
      /\ \A d \in Entries : d # e =>
           call'[d] = IF call[d] = "asleep" /\ e \notin Streamed THEN "woken" ELSE call[d]
      /\ call'[e] \in {"ok", "err"} /\ (wpc' = "recv" \/ e \notin Streamed => call'[e] = "ok")
      /\ charged' = charged \ {e} /\ budgetUsed' \in 0..ByteLimit
  <2>1. CASE e \notin Streamed
    <3>1. ReturnCharge(e, call)
      BY <2>1 DEF WriteEntry, WriteEntryFails, EncodeStreamed, EncodeFails
    <3>2. QED
      BY <1>2, <1>3, <1>6, <2>1, <3>1, ReturnFacts
  <2>2. CASE e \in Streamed
    <3>1. /\ charged' = charged /\ budgetUsed' = budgetUsed
          /\ \/ call' = Moved(e, "ok")
             \/ call' = Moved(e, "err") /\ wpc' = "leaving"
      BY <2>2 DEF WriteEntry, WriteEntryFails, EncodeStreamed, EncodeFails
    <3>2. QED
      BY <1>3, <2>2, <3>1 DEF Moved, CallPlaces
  <2>3. QED
    BY <2>1, <2>2
<1>8. /\ index' \in Seq(Entries)
      /\ wpc' = "recv" => \A y : Holds(index', y) <=> Holds(index, y) \/ y = e
  <2>1. Append(index, e) \in Seq(Entries) /\ \A y : Holds(Append(index, e), y) <=> Holds(index, y) \/ y = e
    BY <1>3, HoldsAppend
  <2>2. QED
    BY <1>1, <1>3, <2>1
<1> USE DEF ownerVars, replyVars, sessionVars
<1>9. SessionTypeOK'
  BY <1>1, <1>2, <1>3, <1>4, <1>5, <1>7, <1>8 DEF SessionTypeOK, WriterTypeOK, ThreadPlaces
<1>10. LockExcludes' /\ TargetNeverTorn'
  BY <1>1 DEF SessionInv, LockExcludes, TargetNeverTorn
<1>11. FileFollowsThread'
  BY <1>1, <1>2 DEF SessionInv, FileFollowsThread, Running
<1>12. PermitsFollowCalls'
  <2>1. ASSUME NEW d \in Entries \ Streamed PROVE OwnedPermit(d)'
    <3>1. OwnedPermit(d)
      BY <1>2 DEF PermitsFollowCalls
    <3>2. CASE d = e
      BY <1>4, <1>7, <3>2 DEF OwnedPermit
    <3>3. CASE d # e
      BY <1>4, <1>7, <3>1, <3>3 DEF OwnedPermit
    <3>4. QED
      BY <3>2, <3>3
  <2>2. ASSUME NEW d \in Streamed, Holds(queue', d) PROVE call'[d] = "await"
    <3>1. d # e /\ call[d] = "await" /\ d \in Entries
      BY <1>2, <1>3, <1>4, <2>2 DEF PermitsFollowCalls
    <3>2. QED
      BY <1>7, <3>1
  <2>3. QED
    BY <1>4, <2>1, <2>2 DEF PermitsFollowCalls
<1>13. FinishIsLast'
  <2>1. NoCallUnderWay => NoCallUnderWay'
    BY <1>3, <1>6, <1>7 DEF NoCallUnderWay
  <2>2. QED
    BY <1>1, <1>2, <1>4, <2>1 DEF FinishIsLast, Gone, Finalizing
<1>14. OutcomeKnown'
  BY <1>1, <1>2 DEF FinishIsLast, OutcomeKnown, Gone
<1>15. RowsAreCalls'
  <2>1. reply' = "none"
    BY <1>1, <1>2 DEF FinishIsLast, Gone
  <2>2. ASSUME wpc' = "recv", NEW d \in Entries
        PROVE  /\ call'[d] = "ok" => Holds(index', d) \/ Holds(queue', d)
               /\ Holds(index', d) => call'[d] = "ok"
    <3>1. (call[d] = "ok" => Holds(index, d) \/ Holds(queue, d)) /\ (Holds(index, d) => call[d] = "ok")
      BY <1>2 DEF RowsAreCalls
    <3>2. QED
      BY <1>4, <1>7, <1>8, <2>2, <3>1
  <2>3. QED
    BY <1>1, <2>1, <2>2 DEF RowsAreCalls, Finalizing
<1>16. QED
  BY <1>9, <1>10, <1>11, <1>12, <1>13, <1>14, <1>15 DEF SessionInv

\* The finish command is received after every entry: no call is under way.
LEMMA BeginFinalizeKeeps ==
  ASSUME SessionInv, BeginFinalize, UNCHANGED sessionVars
  PROVE  SessionInv'
<1>1. /\ Running /\ wpc = "recv" /\ queue # <<>> /\ Head(queue) = "finish" /\ queue' = Tail(queue)
      /\ UNCHANGED <<producerVars, connected, failed, index, target, durable, ownerVars, finishReply>>
      /\ \/ reply' = "duplicate" /\ tmp' = "absent" /\ wpc' = "leaving"
         \/ ~DuplicateKey /\ wpc' = "metadata" /\ reply' = reply /\ tmp' = tmp
  BY DEF BeginFinalize, Receives
<1>2. /\ FinishIsLast /\ OutcomeKnown /\ RowsAreCalls
      /\ SessionTypeOK /\ PermitsFollowCalls
  BY <1>1 DEF SessionInv
<1>3. queue \in Seq(Entries \cup {"finish"}) /\ QueueShape(queue)
  BY <1>2 DEF SessionTypeOK, WriterTypeOK, PermitsFollowCalls
<1>4. /\ Holds(queue, "finish") /\ queue' = <<>>
      /\ \A y : Holds(queue, y) => y = "finish"
  <2>1. /\ Tail(queue) = <<>> /\ Holds(queue, "finish")
        /\ \A y : Holds(Tail(queue), y) <=> Holds(queue, y) /\ y # "finish"
    BY <1>1, <1>3, QueueTail
  <2>2. QED
    BY <1>1, <2>1, QueueEmpty
<1>5. connected /\ reply = "none" /\ opc = "awaitReply" /\ failed = "no"
  BY <1>1, <1>2, <1>4 DEF FinishIsLast, Gone
<1>6. /\ queue' \in Seq(Entries \cup {"finish"}) /\ Len(queue') <= QueueCap
      /\ QueueShape(queue') /\ \A y : ~Holds(queue', y)
  BY <1>4, QueueEmpty, WriterAssumption
<1> USE DEF producerVars, ownerVars, sessionVars
<1>7. SessionTypeOK'
  BY <1>1, <1>2, <1>6 DEF SessionTypeOK, WriterTypeOK, ThreadPlaces
<1>8. LockExcludes' /\ TargetNeverTorn' /\ FileFollowsThread'
  BY <1>1 DEF SessionInv, LockExcludes, TargetNeverTorn, FileFollowsThread, Running
<1>9. PermitsFollowCalls'
  <2>1. ASSUME NEW d \in Entries \ Streamed PROVE OwnedPermit(d)'
    <3>1. OwnedPermit(d)
      BY <1>2 DEF PermitsFollowCalls
    <3>2. QED
      BY <1>1, <1>6, <3>1 DEF OwnedPermit
  <2>2. QED
    BY <1>6, <2>1 DEF PermitsFollowCalls
<1>10. FinishIsLast'
  BY <1>1, <1>2, <1>5, <1>6 DEF FinishIsLast, Gone, NoCallUnderWay
<1>11. OutcomeKnown'
  BY <1>1, <1>2, <1>5 DEF OutcomeKnown
<1>12. RowsAreCalls'
  <2>1. reply' # "ok"
    BY <1>1, <1>5
  <2>2. CASE wpc' = "leaving"
    BY <2>1, <2>2 DEF RowsAreCalls, Finalizing
  <2>3. CASE wpc' = "metadata"
    <3>1. ~DuplicateKey'
      BY <1>1, <2>3 DEF DuplicateKey
    <3>2. \A e \in Entries : call'[e] = "ok" <=> Holds(index', e)
      <4> SUFFICES ASSUME NEW e \in Entries PROVE call[e] = "ok" <=> Holds(index, e)
        BY <1>1
      <4>1. e # "finish" /\ ~Holds(queue, e)
        BY <1>4, WriterAssumption
      <4>2. QED
        BY <1>1, <1>2, <4>1 DEF RowsAreCalls
    <3>3. QED
      BY <1>4, <2>3, <3>1, <3>2 DEF RowsAreCalls
  <2>4. QED
    BY <1>1, <2>2, <2>3
<1>13. QED
  BY <1>7, <1>8, <1>9, <1>10, <1>11, <1>12 DEF SessionInv

\* finalize_writer from the metadata to its answer, or to its failure.
LEMMA FinalizeKeeps ==
  ASSUME SessionInv, UNCHANGED sessionVars,
         WriteMetadata \/ SyncFile \/ RenameOverTarget \/ SyncDirAndReply \/ FinalizeFails
  PROVE  SessionInv'
<1>1. /\ Running /\ wpc \in Finalizing
      /\ UNCHANGED <<producerVars, queue, connected, failed, index, ownerVars, finishReply>>
  BY DEF WriteMetadata, SyncFile, RenameOverTarget, SyncDirAndReply, FinalizeFails, FinalizeStep, Finalizing
<1>2. /\ FinishIsLast /\ OutcomeKnown /\ RowsAreCalls /\ SessionTypeOK
      /\ LockExcludes /\ TargetNeverTorn /\ PermitsFollowCalls /\ FileFollowsThread
  BY <1>1 DEF SessionInv
<1>3. /\ opc = "awaitReply" /\ connected /\ reply = "none" /\ failed = "no"
      /\ queue = <<>> /\ ~DuplicateKey /\ \A e \in Entries : call[e] = "ok" <=> Holds(index, e)
  BY <1>1, <1>2 DEF FinishIsLast, RowsAreCalls, Finalizing, Gone
<1>4. /\ tmp \in {"absent", "partial", "complete", "synced"} /\ durable \in BOOLEAN
      /\ target \in {"old", "new"} /\ (target = "new" <=> wpc = "syncDir")
  BY <1>2, <1>3 DEF SessionTypeOK, WriterTypeOK, TargetNeverTorn, OutcomeKnown
<1>5. \/ /\ wpc = "metadata" /\ wpc' = "sync" /\ tmp' = (IF tmp = "absent" THEN "absent" ELSE "complete")
         /\ target' = target /\ durable' = durable /\ reply' = reply
      \/ /\ wpc = "sync" /\ wpc' = "rename" /\ tmp' = (IF tmp = "absent" THEN "absent" ELSE "synced")
         /\ target' = target /\ durable' = durable /\ reply' = reply
      \/ /\ wpc = "rename" /\ wpc' = "syncDir" /\ tmp # "absent" /\ tmp' = "absent" /\ durable' = FALSE
         /\ target' = (IF tmp = "synced" THEN "new" ELSE "torn") /\ reply' = reply
      \/ /\ wpc = "syncDir" /\ wpc' = "leaving" /\ durable' \in BOOLEAN /\ reply' = "ok"
         /\ tmp' = tmp /\ target' = target
      \/ /\ wpc \in {"metadata", "sync", "rename"} /\ wpc' = "leaving" /\ reply' = "ioError"
         /\ tmp' = tmp /\ target' = target /\ durable' = durable
  BY DEF WriteMetadata, SyncFile, RenameOverTarget, SyncDirAndReply, FinalizeFails, FinalizeStep, OnDisk, diskVars
<1>6. wpc = "rename" => tmp \in {"synced", "absent"}
  BY <1>2 DEF FileFollowsThread
<1> USE DEF producerVars, ownerVars, sessionVars
<1>7. /\ wpc' \in ThreadPlaces /\ tmp' \in {"absent", "partial", "complete", "synced"}
      /\ durable' \in BOOLEAN /\ target' \in {"old", "new"} /\ reply' \in {"none", "ok", "ioError"}
      /\ wpc' \in {"sync", "rename", "syncDir", "leaving"}
      /\ (target' = "new" <=> wpc' = "syncDir" \/ reply' = "ok")
      /\ (wpc' \in {"sync", "rename", "syncDir"} => reply' = "none")
  BY <1>3, <1>4, <1>5, <1>6 DEF ThreadPlaces
<1>8. SessionTypeOK'
  <2>1. WriterTypeOK'
    BY <1>1, <1>2, <1>7 DEF SessionTypeOK, WriterTypeOK
  <2>2. QED
    BY <1>2, <2>1 DEF SessionTypeOK
<1>9. LockExcludes' /\ TargetNeverTorn'
  BY <1>1, <1>2, <1>7 DEF LockExcludes, TargetNeverTorn
<1>10. FileFollowsThread'
  BY <1>1, <1>2, <1>5 DEF FileFollowsThread, Running
<1>11. PermitsFollowCalls'
  BY <1>1, <1>2 DEF PermitsFollowCalls, OwnedPermit
<1>12. FinishIsLast'
  <2>1. NoCallUnderWay' /\ \A y : ~Holds(queue', y)
    BY <1>1, <1>2, <1>3, QueueEmpty DEF FinishIsLast, NoCallUnderWay
  <2>2. QED
    BY <1>1, <1>3, <1>7, <2>1 DEF FinishIsLast, Gone
<1>13. OutcomeKnown'
  BY <1>1, <1>3, <1>7 DEF OutcomeKnown
<1>14. RowsAreCalls'
  BY <1>1, <1>3, <1>7 DEF RowsAreCalls, DuplicateKey
<1>15. QED
  BY <1>8, <1>9, <1>10, <1>11, <1>12, <1>13, <1>14 DEF SessionInv

\* The thread leaves: the channel is disconnected, its receiver dropped, its
\* closure ends.
LEMMA LeaveKeeps ==
  ASSUME SessionInv, Disconnected \/ DropReceiver \/ ThreadExit, UNCHANGED sessionVars
  PROVE  SessionInv'
<1>1. /\ Running
      /\ UNCHANGED <<producerVars, queue, failed, index, target, durable, ownerVars, reply>>
      /\ \/ wpc = "recv" /\ wpc' = "leaving" /\ connected' = connected
            /\ tmp' = "absent" /\ finishReply' = finishReply
         \/ wpc = "leaving" /\ wpc' = "dropped" /\ connected' = FALSE
            /\ tmp' = tmp /\ finishReply' = finishReply
         \/ wpc = "dropped" /\ wpc' = "exited" /\ connected' = connected
            /\ tmp' = "absent" /\ finishReply' \in {"writeError", "closed"}
  BY DEF Disconnected, DropReceiver, ThreadExit, diskVars, replyVars
<1>2. /\ FinishIsLast /\ OutcomeKnown /\ RowsAreCalls /\ SessionTypeOK
      /\ LockExcludes /\ TargetNeverTorn /\ PermitsFollowCalls /\ FileFollowsThread
  BY <1>1 DEF SessionInv
<1> USE DEF producerVars, ownerVars, sessionVars
<1>3. SessionTypeOK'
  <2>1. WriterTypeOK
    BY <1>2 DEF SessionTypeOK
  <2>2. /\ wpc' \in ThreadPlaces /\ connected' \in BOOLEAN
        /\ tmp' \in {"absent", "partial", "complete", "synced"}
        /\ finishReply' \in {"none", "writeError", "closed"}
    BY <1>1, <2>1 DEF WriterTypeOK, ThreadPlaces
  <2>3. WriterTypeOK'
    BY <1>1, <2>1, <2>2 DEF WriterTypeOK
  <2>4. QED
    BY <1>2, <2>3 DEF SessionTypeOK
<1>4. LockExcludes' /\ TargetNeverTorn' /\ PermitsFollowCalls'
  BY <1>1, <1>2 DEF LockExcludes, TargetNeverTorn, PermitsFollowCalls, OwnedPermit
<1>5. FileFollowsThread'
  BY <1>1, <1>2 DEF FileFollowsThread, Running
<1>6. FinishIsLast'
  BY <1>1, <1>2 DEF FinishIsLast, NoCallUnderWay, Gone, Finalizing
<1>7. OutcomeKnown'
  BY <1>1, <1>2 DEF OutcomeKnown, FinishIsLast, Gone
<1>8. RowsAreCalls'
  BY <1>1, <1>2 DEF RowsAreCalls, DuplicateKey, Finalizing
<1>9. QED
  BY <1>3, <1>4, <1>5, <1>6, <1>7, <1>8 DEF SessionInv

\* A dropped receiver drops what is queued, and with it permits and replies.
LEMMA DiscardKeeps ==
  ASSUME SessionInv, DiscardQueued, UNCHANGED sessionVars
  PROVE  SessionInv'
<1> DEFINE cmd == Head(queue)
<1>1. /\ Running /\ wpc = "dropped" /\ queue # <<>> /\ queue' = Tail(queue)
      /\ UNCHANGED <<threadVars, diskVars, ownerVars, replyVars>>
      /\ \/ cmd \in Entries \ Streamed /\ ReturnCharge(cmd, call)
         \/ cmd \in Streamed /\ call' = Moved(cmd, "err") /\ UNCHANGED <<charged, budgetUsed>>
         \/ cmd \notin Entries /\ UNCHANGED <<call, charged, budgetUsed>>
  BY WriterAssumption DEF DiscardQueued
<1>2. /\ FinishIsLast /\ OutcomeKnown /\ RowsAreCalls /\ SessionTypeOK
      /\ LockExcludes /\ TargetNeverTorn /\ PermitsFollowCalls /\ FileFollowsThread
  BY <1>1 DEF SessionInv
<1>3. /\ queue \in Seq(Entries \cup {"finish"}) /\ Len(queue) <= QueueCap /\ QueueShape(queue)
      /\ call \in [Entries -> CallPlaces] /\ charged \subseteq Entries \ Streamed
      /\ budgetUsed \in 0..ByteLimit /\ Streamed \subseteq Entries
  BY <1>2, WriterAssumption DEF SessionTypeOK, WriterTypeOK, PermitsFollowCalls
<1>4. /\ queue' \in Seq(Entries \cup {"finish"}) /\ Len(queue') = Len(queue) - 1
      /\ QueueShape(queue') /\ Holds(queue, cmd)
      /\ \A y : Holds(queue', y) <=> Holds(queue, y) /\ y # cmd
  BY <1>1, <1>3, QueueTail
<1>5. Len(queue') <= QueueCap
  BY <1>3, <1>4, WriterAssumption
<1>6. /\ cmd \in Streamed => call[cmd] = "await"
      /\ cmd \in Entries \ Streamed => call[cmd] = "ok"
  BY <1>2, <1>4 DEF PermitsFollowCalls, OwnedPermit
<1> HIDE DEF cmd
<1>7. /\ call' \in [Entries -> CallPlaces]
      /\ \A d \in Entries : d # cmd =>
           call'[d] = IF call[d] = "asleep" /\ cmd \in Entries \ Streamed THEN "woken" ELSE call[d]
      /\ cmd \in Entries => call'[cmd] \in {"ok", "err"}
      /\ charged' = charged \ {cmd} /\ budgetUsed' \in 0..ByteLimit
  <2>1. CASE cmd \in Entries \ Streamed /\ ReturnCharge(cmd, call)
    BY <1>2, <1>3, <1>6, <2>1, ReturnFacts
  <2>2. CASE cmd \in Streamed /\ call' = Moved(cmd, "err") /\ UNCHANGED <<charged, budgetUsed>>
    BY <1>3, <2>2 DEF Moved, CallPlaces
  <2>3. CASE cmd \notin Entries /\ UNCHANGED <<call, charged, budgetUsed>>
    BY <1>3, <2>3
  <2>4. QED
    BY <1>1, <2>1, <2>2, <2>3
<1> USE DEF threadVars, diskVars, ownerVars, replyVars, sessionVars
<1>8. SessionTypeOK'
  <2>1. WriterTypeOK'
    BY <1>1, <1>2, <1>3, <1>4, <1>5, <1>7 DEF SessionTypeOK, WriterTypeOK
  <2>2. QED
    BY <1>2, <2>1 DEF SessionTypeOK
<1>9. LockExcludes' /\ TargetNeverTorn' /\ FileFollowsThread'
  BY <1>1, <1>2 DEF LockExcludes, TargetNeverTorn, FileFollowsThread, Running
<1>10. PermitsFollowCalls'
  <2>1. ASSUME NEW d \in Entries \ Streamed PROVE OwnedPermit(d)'
    <3>1. OwnedPermit(d)
      BY <1>2 DEF PermitsFollowCalls
    <3>2. CASE d = cmd
      BY <1>4, <1>7, <3>2 DEF OwnedPermit
    <3>3. CASE d # cmd
      BY <1>4, <1>7, <3>1, <3>3 DEF OwnedPermit
    <3>4. QED
      BY <3>2, <3>3
  <2>2. ASSUME NEW d \in Streamed, Holds(queue', d) PROVE call'[d] = "await"
    <3>1. d # cmd /\ call[d] = "await" /\ d \in Entries
      BY <1>2, <1>3, <1>4, <2>2 DEF PermitsFollowCalls
    <3>2. QED
      BY <1>7, <3>1
  <2>3. QED
    BY <1>4, <2>1, <2>2 DEF PermitsFollowCalls
<1>11. FinishIsLast'
  <2>1. NoCallUnderWay => NoCallUnderWay'
    BY <1>3, <1>7 DEF NoCallUnderWay
  <2>2. QED
    BY <1>1, <1>2, <1>4, <2>1 DEF FinishIsLast, Gone, Finalizing
<1>12. OutcomeKnown'
  BY <1>1, <1>2 DEF OutcomeKnown
<1>13. RowsAreCalls'
  BY <1>1, <1>2 DEF RowsAreCalls, Finalizing
<1>14. QED
  BY <1>8, <1>9, <1>10, <1>11, <1>12, <1>13 DEF SessionInv

-----------------------------------------------------------------------------
(* The owner. *)

\* finish and Drop, from their call to their return.
LEMMA OwnerKeeps ==
  ASSUME SessionInv, UNCHANGED sessionVars,
         FinishStep \/ (stage = "writing" /\ CallFinish) \/ (stage = "closing" /\ DropWriter)
  PROVE  SessionInv'
<1>1. /\ UNCHANGED <<producerVars, threadVars, diskVars, replyVars>>
      /\ \/ /\ stage = "writing" /\ opc = "open" /\ opc' = "sendFinish" /\ NoCallUnderWay
            /\ UNCHANGED <<queue, senderOpen, result>>
         \/ /\ opc = "sendFinish" /\ opc' = "awaitReply" /\ connected /\ Len(queue) < QueueCap
            /\ queue' = Append(queue, "finish") /\ senderOpen' = FALSE /\ result' = result
         \/ /\ opc = "sendFinish" /\ opc' = "join" /\ ~connected
            /\ queue' = queue /\ senderOpen' = FALSE /\ result' = "brokenPipe"
         \/ /\ opc = "awaitReply" /\ opc' = "join" /\ reply # "none"
            /\ queue' = queue /\ senderOpen' = senderOpen /\ result' = reply
         \/ /\ opc = "awaitReply" /\ opc' = "fallback" /\ reply = "none" /\ ~connected
            /\ UNCHANGED <<queue, senderOpen, result>>
         \/ /\ opc = "fallback" /\ opc' = "join"
            /\ queue' = queue /\ senderOpen' = senderOpen /\ result' \in {"writeError", "noReply"}
         \/ /\ opc = "join" /\ opc' = "returned" /\ wpc = "exited"
            /\ queue' = queue /\ senderOpen' = senderOpen
            /\ result' = IF failed = "panic" /\ result # "brokenPipe" THEN "panicked" ELSE result
         \/ /\ opc = "dropJoin" /\ opc' = "dropped" /\ wpc = "exited"
            /\ UNCHANGED <<queue, senderOpen, result>>
         \/ /\ stage = "closing" /\ opc = "open" /\ opc' = "dropJoin" /\ NoCallUnderWay
            /\ queue' = queue /\ senderOpen' = FALSE /\ result' = result
  BY DEF FinishStep, SendFinish, AwaitReply, Fallback, Join, CallFinish, DropWriter, OwnerGoes
<1>2. /\ Running /\ Running' /\ SessionTypeOK /\ LockExcludes /\ TargetNeverTorn
      /\ PermitsFollowCalls /\ FileFollowsThread
  BY <1>1 DEF SessionInv, Running
<1>3. FinishIsLast /\ OutcomeKnown /\ RowsAreCalls
  BY <1>2 DEF SessionInv
<1>4. /\ queue' \in Seq(Entries \cup {"finish"}) /\ Len(queue') <= QueueCap /\ QueueShape(queue')
      /\ \A y : Holds(queue', y) <=> Holds(queue, y) \/ (y = "finish" /\ opc = "sendFinish" /\ opc' = "awaitReply")
  <2>1. queue \in Seq(Entries \cup {"finish"}) /\ Len(queue) <= QueueCap /\ QueueShape(queue)
    BY <1>2 DEF SessionTypeOK, WriterTypeOK, PermitsFollowCalls
  <2>2. CASE queue' = queue /\ ~(opc = "sendFinish" /\ opc' = "awaitReply")
    BY <2>1, <2>2
  <2>3. CASE /\ opc = "sendFinish" /\ opc' = "awaitReply" /\ Len(queue) < QueueCap
             /\ queue' = Append(queue, "finish")
    <3>1. ~Holds(queue, "finish")
      BY <1>3, <2>3 DEF FinishIsLast
    <3>2. /\ queue' \in Seq(Entries \cup {"finish"}) /\ Len(queue') = Len(queue) + 1
          /\ QueueShape(queue') /\ \A y : Holds(queue', y) <=> Holds(queue, y) \/ y = "finish"
      BY <2>1, <2>3, <3>1, QueueAppend
    <3>3. Len(queue') <= QueueCap
      BY <2>1, <2>3, <3>2, WriterAssumption
    <3>4. QED
      BY <2>3, <3>2, <3>3
  <2>4. QED
    BY <1>1, <2>2, <2>3
<1> USE DEF producerVars, threadVars, diskVars, replyVars, sessionVars
<1>5. SessionTypeOK'
  <2>1. opc' \in OwnerPlaces /\ senderOpen' \in BOOLEAN /\ result' \in Results
    <3>1. senderOpen \in BOOLEAN /\ result \in Results /\ reply \in {"none", "ok", "duplicate", "ioError"}
      BY <1>2 DEF SessionTypeOK, WriterTypeOK
    <3>2. QED
      BY <1>1, <3>1 DEF OwnerPlaces, Results
  <2>2. WriterTypeOK'
    BY <1>1, <1>2, <1>4, <2>1 DEF SessionTypeOK, WriterTypeOK
  <2>3. QED
    BY <1>2, <2>2 DEF SessionTypeOK
<1>6. LockExcludes'
  BY <1>1, <1>2 DEF LockExcludes
<1>7. FileFollowsThread' /\ TargetNeverTorn'
  BY <1>1, <1>2 DEF FileFollowsThread, TargetNeverTorn
<1>8. PermitsFollowCalls'
  <2>1. ASSUME NEW d \in Entries \ Streamed PROVE OwnedPermit(d)'
    <3>1. OwnedPermit(d) /\ d # "finish"
      BY <1>2, WriterAssumption DEF PermitsFollowCalls
    <3>2. QED
      BY <1>1, <1>4, <3>1 DEF OwnedPermit
  <2>2. ASSUME NEW d \in Streamed, Holds(queue', d) PROVE call'[d] = "await"
    BY <1>1, <1>2, <1>4, <2>2, WriterAssumption DEF PermitsFollowCalls
  <2>3. QED
    BY <1>4, <2>1, <2>2 DEF PermitsFollowCalls
<1>9. FinishIsLast'
  <2>1. NoCallUnderWay'
    BY <1>1, <1>3 DEF FinishIsLast, NoCallUnderWay
  <2>2. QED
    BY <1>1, <1>3, <1>4, <2>1 DEF FinishIsLast, OutcomeKnown, Gone, Finalizing
<1>10. OutcomeKnown'
  BY <1>1, <1>3 DEF FinishIsLast, OutcomeKnown, Gone, Finalizing
<1>11. RowsAreCalls'
  BY <1>1, <1>3, <1>4 DEF RowsAreCalls, DuplicateKey, FinishIsLast, Finalizing
<1>12. QED
  BY <1>5, <1>6, <1>7, <1>8, <1>9, <1>10, <1>11 DEF SessionInv

-----------------------------------------------------------------------------
(* Sessions and the other process. *)

\* A writer that nobody moved keeps what the invariant says of it.
LEMMA WriterUnmoved ==
  ASSUME SessionInv, UNCHANGED vars
  PROVE  /\ WriterTypeOK' /\ TargetNeverTorn' /\ PermitsFollowCalls'
         /\ Running' => FinishIsLast' /\ OutcomeKnown' /\ RowsAreCalls'
<1> USE DEF vars, producerVars, threadVars, diskVars, ownerVars, replyVars
<1>1. WriterTypeOK' /\ TargetNeverTorn'
  BY DEF SessionInv, SessionTypeOK, WriterTypeOK, TargetNeverTorn
<1>2. PermitsFollowCalls'
  BY DEF SessionInv, PermitsFollowCalls, OwnedPermit
<1>3. ASSUME Running' PROVE FinishIsLast' /\ OutcomeKnown' /\ RowsAreCalls'
  <2>1. FinishIsLast /\ OutcomeKnown /\ RowsAreCalls
    BY <1>3 DEF SessionInv, Running
  <2>2. FinishIsLast' /\ OutcomeKnown'
    BY <2>1 DEF FinishIsLast, OutcomeKnown, NoCallUnderWay
  <2>3. RowsAreCalls'
    BY <2>1 DEF RowsAreCalls, DuplicateKey
  <2>4. QED
    BY <2>2, <2>3
<1>4. QED
  BY <1>1, <1>2, <1>3

\* Steps that move the session, the lock or the other process only.
LEMMA SessionMoveKeeps ==
  ASSUME SessionInv, EndSession \/ DropSession \/ Begin \/ Sweep \/ RivalLocks \/ RivalEnds
  PROVE  SessionInv'
<1>1. /\ UNCHANGED vars
      /\ \/ opc = "returned" /\ stage = "writing" /\ stage' = "idle" /\ lock' = "none"
            /\ UNCHANGED <<rival, strays, session>>
         \/ opc = "dropped" /\ stage = "closing" /\ stage' = "idle"
            /\ UNCHANGED <<lock, rival, strays, session>>
         \/ opc = "open" /\ stage = "writing" /\ stage' = "closing" /\ lock' = "none"
            /\ UNCHANGED <<rival, strays, session>>
         \/ stage = "idle" /\ stage' = "locked" /\ lock = "none" /\ lock' = "self"
            /\ session' = session + 1 /\ UNCHANGED <<rival, strays>>
         \/ stage = "locked" /\ stage' = "swept" /\ strays' = {} /\ UNCHANGED <<lock, rival, session>>
         \/ rival = "idle" /\ rival' = "locked" /\ lock = "none" /\ lock' = "rival"
            /\ UNCHANGED <<stage, strays, session>>
         \/ rival \in {"locked", "swept"} /\ rival' = "idle"
            /\ lock' = (IF lock = "rival" THEN "none" ELSE lock)
            /\ UNCHANGED <<stage, strays, session>>
  BY DEF EndSession, DropSession, Begin, Sweep, RivalLocks, RivalEnds, StageGoes
<1>2. SessionTypeOK /\ LockExcludes /\ FileFollowsThread
  BY DEF SessionInv
<1>3. /\ WriterTypeOK' /\ TargetNeverTorn' /\ PermitsFollowCalls'
      /\ Running' => FinishIsLast' /\ OutcomeKnown' /\ RowsAreCalls'
  BY <1>1, WriterUnmoved
<1>4. opc' = opc /\ wpc' = wpc /\ tmp' = tmp
  BY <1>1 DEF vars, threadVars, diskVars, ownerVars
<1>5. SessionTypeOK'
  <2>1. session \in Nat /\ strays \subseteq Nat
    BY <1>2 DEF SessionTypeOK
  <2>2. session' \in Nat
    <3>1. session' = session \/ session' = session + 1
      BY <1>1
    <3>2. QED
      BY <2>1, <3>1
  <2>3. strays' \subseteq Nat
    BY <1>1, <2>1
  <2>4. /\ lock' \in {"none", "self", "rival"} /\ rival' \in {"idle", "locked", "swept"}
        /\ stage' \in {"idle", "locked", "swept", "writing", "closing"}
    BY <1>1, <1>2 DEF SessionTypeOK
  <2>5. QED
    BY <1>3, <2>2, <2>3, <2>4 DEF SessionTypeOK
<1>6. LockExcludes'
  BY <1>1, <1>2, <1>4 DEF LockExcludes
<1>7. FileFollowsThread'
  BY <1>1, <1>2, <1>4 DEF FileFollowsThread, Running
<1>8. QED
  BY <1>3, <1>5, <1>6, <1>7 DEF SessionInv

\* A new writer, over a directory that has been swept.
LEMMA CreateKeeps ==
  ASSUME SessionInv, Create
  PROVE  SessionInv'
<1>1. /\ call' = [e \in Entries |-> "idle"] /\ charged' = {} /\ budgetUsed' = 0
      /\ queue' = <<>> /\ senderOpen' = TRUE /\ connected' = TRUE
      /\ wpc' = "recv" /\ failed' = "no" /\ index' = <<>>
      /\ tmp' = "partial" /\ durable' = TRUE
      /\ opc' = "open" /\ reply' = "none" /\ finishReply' = "none" /\ result' = "none"
      /\ stage = "swept" /\ stage' = "writing" /\ UNCHANGED <<lock, rival, strays, session>>
  BY DEF Create, StageGoes
<1>2. SessionTypeOK /\ LockExcludes /\ FileFollowsThread /\ TargetNeverTorn
  BY DEF SessionInv
<1>3. target' = "old"
  BY <1>2 DEF Create, TargetNeverTorn
<1>4. call' \in [Entries -> CallPlaces] /\ \A e \in Entries : call'[e] = "idle"
  BY <1>1 DEF CallPlaces
<1>5. /\ queue' \in Seq(Entries \cup {"finish"}) /\ Len(queue') = 0 /\ index' \in Seq(Entries)
      /\ QueueShape(queue') /\ \A y : ~Holds(queue', y) /\ ~Holds(index', y)
  BY <1>1, QueueEmpty
<1>6. WriterTypeOK'
  BY <1>1, <1>3, <1>4, <1>5, WriterAssumption DEF WriterTypeOK, ThreadPlaces, OwnerPlaces, Results
<1>7. SessionTypeOK'
  BY <1>1, <1>2, <1>6 DEF SessionTypeOK
<1>8. LockExcludes'
  BY <1>1, <1>2 DEF LockExcludes
<1>9. FileFollowsThread' /\ TargetNeverTorn'
  BY <1>1, <1>2, <1>3 DEF FileFollowsThread, TargetNeverTorn
<1>10. PermitsFollowCalls'
  BY <1>1, <1>4, <1>5 DEF PermitsFollowCalls, OwnedPermit
<1>11. FinishIsLast' /\ OutcomeKnown'
  BY <1>1, <1>3, <1>5 DEF FinishIsLast, OutcomeKnown, Finalizing, Gone
<1>12. RowsAreCalls'
  BY <1>1, <1>4, <1>5 DEF RowsAreCalls, Finalizing
<1>13. QED
  BY <1>7, <1>8, <1>9, <1>10, <1>11, <1>12 DEF SessionInv

\* A killed process: its lock is gone, its file may stay.
LEMMA StopKeeps ==
  ASSUME SessionInv, ProcessStops
  PROVE  SessionInv'
<1>1. SessionTypeOK /\ LockExcludes /\ FileFollowsThread /\ TargetNeverTorn /\ PermitsFollowCalls
  BY DEF SessionInv
<1>2. /\ opc' = "crashed" /\ target' \in {target, "old"}
      /\ UNCHANGED <<producerVars, queue, threadVars, tmp, durable, senderOpen, result, replyVars>>
  BY DEF ProcessStops, Crash, Running, vars, ownerVars, diskVars
<1>3. /\ stage' = "idle" /\ lock' = (IF lock = "self" THEN "none" ELSE lock)
      /\ strays' \subseteq strays \cup {session} /\ rival' = rival /\ session' = session
  BY DEF ProcessStops
<1> USE DEF producerVars, threadVars, replyVars
<1>4. WriterTypeOK'
  BY <1>1, <1>2 DEF SessionTypeOK, WriterTypeOK, OwnerPlaces
<1>5. SessionTypeOK'
  BY <1>1, <1>3, <1>4 DEF SessionTypeOK
<1>6. LockExcludes'
  BY <1>1, <1>2, <1>3 DEF LockExcludes, SessionTypeOK
<1>7. FileFollowsThread' /\ TargetNeverTorn' /\ ~Running'
  BY <1>1, <1>2, <1>3 DEF FileFollowsThread, TargetNeverTorn, Running
<1>8. PermitsFollowCalls'
  BY <1>1, <1>2 DEF PermitsFollowCalls, OwnedPermit
<1>9. QED
  BY <1>5, <1>6, <1>7, <1>8 DEF SessionInv

\* The other process unlinks every temporary file: it holds the lock, so no
\* session of ours may still publish one.
LEMMA RivalSweepKeeps ==
  ASSUME SessionInv, RivalSweeps
  PROVE  SessionInv'
<1>1. /\ rival = "locked" /\ rival' = "swept" /\ strays' = {}
      /\ tmp' \in {"absent", tmp}
      /\ UNCHANGED <<producerVars, queue, threadVars, target, durable, ownerVars, replyVars>>
      /\ UNCHANGED <<lock, stage, session>>
  BY DEF RivalSweeps
<1>2. SessionTypeOK /\ LockExcludes /\ FileFollowsThread /\ TargetNeverTorn /\ PermitsFollowCalls
  BY DEF SessionInv
<1> USE DEF producerVars, threadVars, ownerVars, replyVars
<1>3. lock = "rival" /\ stage # "writing"
  BY <1>1, <1>2 DEF LockExcludes
<1>4. SessionTypeOK'
  <2>1. WriterTypeOK'
    BY <1>1, <1>2 DEF SessionTypeOK, WriterTypeOK
  <2>2. QED
    BY <1>1, <1>2, <2>1 DEF SessionTypeOK
<1>5. LockExcludes'
  BY <1>1, <1>2, <1>3 DEF LockExcludes
<1>6. FileFollowsThread' /\ TargetNeverTorn'
  BY <1>1, <1>2, <1>3 DEF FileFollowsThread, TargetNeverTorn
<1>7. PermitsFollowCalls'
  BY <1>1, <1>2 DEF PermitsFollowCalls, OwnedPermit
<1>8. ASSUME Running' PROVE FinishIsLast' /\ OutcomeKnown' /\ RowsAreCalls'
  <2>1. FinishIsLast /\ OutcomeKnown /\ RowsAreCalls
    BY <1>1, <1>8 DEF SessionInv, Running
  <2>2. FinishIsLast' /\ OutcomeKnown'
    BY <1>1, <2>1 DEF FinishIsLast, OutcomeKnown, NoCallUnderWay
  <2>3. RowsAreCalls'
    BY <1>1, <2>1 DEF RowsAreCalls, DuplicateKey
  <2>4. QED
    BY <2>2, <2>3
<1>9. QED
  BY <1>4, <1>5, <1>6, <1>7, <1>8 DEF SessionInv

-----------------------------------------------------------------------------
(* The theorems. *)

\* The invariant holds of the first session.
LEMMA SessionInvInit ==
  SessionInit => SessionInv
<1> SUFFICES ASSUME SessionInit PROVE SessionInv
  OBVIOUS
<1> USE DEF SessionInit, Init
<1>1. call \in [Entries -> CallPlaces] /\ \A e \in Entries : call[e] = "idle"
  BY DEF CallPlaces
<1>2. /\ queue \in Seq(Entries \cup {"finish"}) /\ Len(queue) = 0 /\ index \in Seq(Entries)
      /\ QueueShape(queue) /\ \A y : ~Holds(queue, y) /\ ~Holds(index, y)
  BY QueueEmpty
<1>3. WriterTypeOK
  BY <1>1, <1>2, WriterAssumption DEF WriterTypeOK, ThreadPlaces, OwnerPlaces, Results
<1>4. SessionTypeOK /\ LockExcludes /\ FileFollowsThread /\ TargetNeverTorn
  BY <1>3 DEF SessionTypeOK, LockExcludes, FileFollowsThread, TargetNeverTorn
<1>5. PermitsFollowCalls
  BY <1>1, <1>2 DEF PermitsFollowCalls, OwnedPermit
<1>6. FinishIsLast /\ OutcomeKnown
  BY <1>2 DEF FinishIsLast, OutcomeKnown, Finalizing, Gone
<1>7. RowsAreCalls
  BY <1>1, <1>2 DEF RowsAreCalls, Finalizing
<1>8. QED
  BY <1>4, <1>5, <1>6, <1>7 DEF SessionInv

\* Every step of the sessions, and a stutter, keeps the invariant.
LEMMA SessionInvStep ==
  SessionInv /\ [SessionNext]_<<vars, sessionVars>> => SessionInv'
<1> SUFFICES ASSUME SessionInv, [SessionNext]_<<vars, sessionVars>> PROVE SessionInv'
  OBVIOUS
<1>1. CASE WriterStep
  <2>1. UNCHANGED sessionVars
    BY <1>1 DEF WriterStep
  <2>2. ASSUME NEW e \in Entries, ProducerStep(e) PROVE SessionInv'
    BY <2>1, <2>2, ProducerKeeps
  <2>3. CASE ThreadStep
    BY <2>1, <2>3, EntryKeeps, BeginFinalizeKeeps, FinalizeKeeps, LeaveKeeps, DiscardKeeps DEF ThreadStep
  <2>4. CASE FinishStep \/ (stage = "writing" /\ CallFinish) \/ (stage = "closing" /\ DropWriter)
    BY <2>1, <2>4, OwnerKeeps
  <2>5. QED
    BY <1>1, <2>2, <2>3, <2>4 DEF WriterStep
<1>2. CASE EndSession \/ DropSession \/ Begin \/ Sweep \/ RivalLocks \/ RivalEnds
  BY <1>2, SessionMoveKeeps
<1>3. CASE Create \/ ProcessStops \/ RivalSweeps
  BY <1>3, CreateKeeps, StopKeeps, RivalSweepKeeps
<1>4. CASE UNCHANGED <<vars, sessionVars>>
  <2>1. /\ WriterTypeOK' /\ TargetNeverTorn' /\ PermitsFollowCalls'
        /\ Running' => FinishIsLast' /\ OutcomeKnown' /\ RowsAreCalls'
    BY <1>4, WriterUnmoved
  <2>2. SessionTypeOK' /\ LockExcludes' /\ FileFollowsThread'
    BY <1>4, <2>1 DEF SessionInv, SessionTypeOK, LockExcludes, FileFollowsThread, Running,
                      sessionVars, vars, threadVars, diskVars, ownerVars
  <2>3. QED
    BY <2>1, <2>2 DEF SessionInv
<1>5. QED
  BY <1>1, <1>2, <1>3, <1>4 DEF SessionNext

\* The inductive invariant, of every session of every process.
THEOREM SessionInvHolds == SessionSpec => []SessionInv
BY SessionInvInit, SessionInvStep, PTL DEF SessionSpec

\* Every variable of the writer keeps its type.
THEOREM SessionTypes == SessionSpec => []WriterTypeOK
<1>1. SessionInv => WriterTypeOK
  BY DEF SessionInv, SessionTypeOK
<1>2. QED
  BY <1>1, SessionInvHolds, PTL

\* No sweep takes the file from under a writer that may still publish it.
THEOREM WriterKeepsFile == SessionSpec => []LiveWriterKeepsFile
<1>1. SessionInv => LiveWriterKeepsFile
  BY DEF SessionInv, FileFollowsThread, LiveWriterKeepsFile
<1>2. QED
  BY <1>1, SessionInvHolds, PTL

\* finish answers Ok only for a target that holds every entry added, once.
THEOREM FinishOkComplete == SessionSpec => []FinishOkIsComplete
<1>1. SessionInv => FinishOkIsComplete
  <2> SUFFICES ASSUME SessionInv, result = "ok", opc = "returned" PROVE FinishOkIsComplete
    BY DEF FinishOkIsComplete
  <2>1. OutcomeKnown /\ RowsAreCalls /\ index \in Seq(Entries)
    BY DEF SessionInv, SessionTypeOK, WriterTypeOK, Running
  <2>2. reply = "ok" /\ target = "new"
    BY <2>1 DEF OutcomeKnown
  <2>3. ~DuplicateKey /\ \A e \in Entries : call[e] = "ok" <=> Holds(index, e)
    BY <2>1, <2>2 DEF RowsAreCalls
  <2>4. {index[i] : i \in DOMAIN index} = {e \in Entries : call[e] = "ok"}
    BY <2>1, <2>3 DEF Holds
  <2>5. \A i, j \in DOMAIN index : i # j => KeyOf[index[i]] # KeyOf[index[j]]
    BY <2>3 DEF DuplicateKey
  <2>6. QED
    BY <2>2, <2>4, <2>5 DEF FinishOkIsComplete
<1>2. QED
  BY <1>1, SessionInvHolds, PTL

\* A finish that failed and a drop leave the old generation.
THEOREM FailureKeepsOld == SessionSpec => []FailureKeepsOldGeneration
<1>1. SessionInv => FailureKeepsOldGeneration
  <2> SUFFICES ASSUME SessionInv, opc = "dropped" \/ (opc = "returned" /\ result # "ok")
               PROVE  target = "old"
    BY DEF FailureKeepsOldGeneration
  <2>1. /\ OutcomeKnown /\ FinishIsLast /\ TargetNeverTorn /\ target \in {"old", "new", "torn"}
    BY DEF SessionInv, SessionTypeOK, WriterTypeOK, Running
  <2>2. reply # "ok" /\ wpc # "syncDir"
    BY <2>1 DEF OutcomeKnown, FinishIsLast
  <2>3. QED
    BY <2>1, <2>2 DEF OutcomeKnown, TargetNeverTorn
<1>2. QED
  BY <1>1, SessionInvHolds, PTL

\* The target is a complete generation, also after a crash.
THEOREM TargetWhole == SessionSpec => []TargetNeverTorn
<1>1. SessionInv => TargetNeverTorn
  BY DEF SessionInv
<1>2. QED
  BY <1>1, SessionInvHolds, PTL

\* finish and Drop return to a directory without temporary files.
THEOREM NoFileLeft == SessionSpec => []NoTemporaryLeft
<1>1. SessionInv => NoTemporaryLeft
  BY DEF SessionInv, NoTemporaryLeft, FileFollowsThread, OutcomeKnown, Running
<1>2. QED
  BY <1>1, SessionInvHolds, PTL

-----------------------------------------------------------------------------
(* The byte budget implements the permit gate. *)

\* The permit and the place that the gate sees of an entry.
PermitBytes == [e \in Entries |-> IF e \in charged THEN Charge(e) ELSE 0]

PermitPlace ==
  [e \in Entries |->
     IF e \in charged THEN "held"
     ELSE IF e \in Streamed THEN "idle"
     ELSE IF call[e] \in {"idle", "asleep", "woken"} THEN call[e] ELSE "released"]

\* An entry is charged what the gate would, and admitted when the gate would:
\* the gate's exception for an empty pool is no exception here.
LEMMA GateTest ==
  ASSUME SessionTypeOK, NEW e \in Entries
  PROVE  Budget!Admitted(e) = Charge(e) /\ (Budget!Fits(e) <=> Affordable(e))
<1>1. ByteLimit # 0 /\ ByteLimit \in Nat /\ SizeOf[e] \in Nat /\ budgetUsed \in Nat
  BY WriterAssumption DEF SessionTypeOK, WriterTypeOK
<1>2. Budget!Admitted(e) = Charge(e)
  BY <1>1 DEF Budget!Admitted, Charge
<1>3. Charge(e) \in 1..ByteLimit
  BY ChargeFacts
<1>4. QED
  BY <1>1, <1>2, <1>3 DEF Budget!Fits, Affordable

\* One test of acquire is one test of the gate.
LEMMA AcquireIsGate ==
  ASSUME SessionInv, NEW e \in Entries, AcquireBytes(e)
  PROVE  Budget!PoolNext
<1>1. /\ SessionTypeOK /\ call \in [Entries -> CallPlaces] /\ charged \subseteq Entries \ Streamed
      /\ e \notin Streamed /\ call[e] \in {"idle", "woken"} /\ e \notin charged
  BY DEF SessionInv, SessionTypeOK, WriterTypeOK, AcquireBytes, PermitsFollowCalls, OwnedPermit
<1>2. PermitPlace[e] = call[e]
  BY <1>1 DEF PermitPlace
<1>3. CASE Affordable(e)
  <2>1. /\ call' = Moved(e, "granted") /\ charged' = charged \cup {e}
        /\ budgetUsed' = budgetUsed + Charge(e)
    BY <1>3 DEF AcquireBytes
  <2>2. PermitBytes' = [PermitBytes EXCEPT ![e] = Charge(e)]
    BY <2>1 DEF PermitBytes, Charge
  <2>3. \A d \in Entries : d # e => call'[d] = call[d]
    BY <1>1, <2>1 DEF Moved
  <2>4. PermitPlace' = [PermitPlace EXCEPT ![e] = "held"]
    BY <2>1, <2>3 DEF PermitPlace
  <2>5. Budget!Admit(e)
    BY <1>1, <1>3, <2>1, <2>2, <2>4, GateTest DEF Budget!Admit, PermitBytes, PermitPlace
  <2>6. QED
    BY <1>1, <1>2, <2>5 DEF Budget!PoolNext, Budget!Acquire, Budget!Retry, PermitPlace
<1>4. CASE ~Affordable(e)
  <2>1. call' = Moved(e, "asleep") /\ charged' = charged /\ budgetUsed' = budgetUsed
    BY <1>4 DEF AcquireBytes
  <2>2. PermitBytes' = PermitBytes
    BY <2>1 DEF PermitBytes, Charge
  <2>3. call'[e] = "asleep" /\ \A d \in Entries : d # e => call'[d] = call[d]
    BY <1>1, <2>1 DEF Moved
  <2>4. PermitPlace' = [PermitPlace EXCEPT ![e] = "asleep"]
    BY <1>1, <2>1, <2>3 DEF PermitPlace
  <2>5. Budget!Sleep(e)
    BY <1>1, <1>4, <2>1, <2>2, <2>4, GateTest DEF Budget!Sleep, PermitBytes, PermitPlace
  <2>6. QED
    BY <1>1, <1>2, <2>5 DEF Budget!PoolNext, Budget!Acquire, Budget!Retry, PermitPlace
<1>5. QED
  BY <1>3, <1>4

\* Dropping a BytePermit, whoever drops it, is the gate's release: the charge
\* is positive, so everyone asleep is woken.
LEMMA ReturnIsGate ==
  ASSUME SessionInv, NEW e \in Entries \ Streamed, e \in charged,
         NEW calls \in [Entries -> CallPlaces], calls[e] \in {"ok", "err"},
         \A d \in Entries : d # e => calls[d] = call[d],
         ReturnCharge(e, calls)
  PROVE  Budget!PoolNext
<1>1. /\ charged' = charged \ {e} /\ budgetUsed' = SaturatingSub(budgetUsed, Charge(e))
      /\ call' = Woken(calls) /\ Charge(e) # 0
  BY ChargeFacts, WriterAssumption DEF ReturnCharge
<1>2. \A d \in Entries : call'[d] = IF calls[d] = "asleep" THEN "woken" ELSE calls[d]
  BY <1>1, WokenFacts
<1>3. PermitBytes' = [PermitBytes EXCEPT ![e] = 0] /\ PermitBytes[e] = Charge(e)
  BY <1>1 DEF PermitBytes, Charge
<1>4. PermitPlace[e] = "held"
  BY DEF PermitPlace
<1> DEFINE dropped == [PermitPlace EXCEPT ![e] = "released"]
<1>5. PermitPlace' = [d \in Entries |-> IF dropped[d] = "asleep" THEN "woken" ELSE dropped[d]]
  <2>1. ASSUME NEW d \in Entries
        PROVE  PermitPlace'[d] = IF dropped[d] = "asleep" THEN "woken" ELSE dropped[d]
    BY <1>1, <1>2 DEF PermitPlace
  <2>2. QED
    BY <2>1 DEF PermitPlace
<1>6. /\ PermitPlace[e] = "held" /\ PermitBytes[e] # 0
      /\ budgetUsed' = Budget!SaturatingSub(budgetUsed, PermitBytes[e])
      /\ PermitBytes' = [PermitBytes EXCEPT ![e] = 0]
      /\ PermitPlace' = Budget!WakeAll([PermitPlace EXCEPT ![e] = "released"])
  BY <1>1, <1>3, <1>4, <1>5 DEF Budget!SaturatingSub, SaturatingSub, Budget!WakeAll
<1>7. Budget!Release(e)
  BY <1>6, Zenon DEF Budget!Release, PermitBytes, PermitPlace
<1>8. QED
  BY <1>7 DEF Budget!PoolNext

\* A step that touches no permit, and moves only callers the gate does not see.
LEMMA GateUnmoved ==
  ASSUME charged' = charged, budgetUsed' = budgetUsed,
         \A d \in Entries : d \in charged \/ d \in Streamed \/ call'[d] = call[d]
  PROVE  UNCHANGED Budget!poolVars
<1>1. PermitBytes' = PermitBytes
  BY DEF PermitBytes, Charge
<1>2. PermitPlace' = PermitPlace
  BY DEF PermitPlace
<1>3. QED
  BY <1>1, <1>2 DEF Budget!poolVars, PermitBytes, PermitPlace

\* The command at the head of the queue has its permit if it is owned.
LEMMA HeadIsCharged ==
  ASSUME SessionInv, queue # <<>>, NEW e \in Entries \ Streamed, Head(queue) = e
  PROVE  e \in charged /\ call[e] = "ok"
<1>1. queue \in Seq(Entries \cup {"finish"}) /\ QueueShape(queue) /\ OwnedPermit(e)
  BY DEF SessionInv, SessionTypeOK, WriterTypeOK, PermitsFollowCalls
<1>2. Holds(queue, e)
  BY <1>1, QueueTail
<1>3. QED
  BY <1>1, <1>2 DEF OwnedPermit

\* Every step of the writer is a step of the gate, or one it does not see.
LEMMA WriterStepIsGate ==
  ASSUME SessionInv, WriterStep
  PROVE  Budget!PoolNext \/ UNCHANGED Budget!poolVars
<1>1. /\ SessionTypeOK /\ PermitsFollowCalls /\ call \in [Entries -> CallPlaces]
      /\ Streamed \subseteq Entries
  BY WriterAssumption DEF SessionInv, SessionTypeOK, WriterTypeOK
<1>2. ASSUME NEW e \in Entries, ProducerStep(e)
      PROVE  Budget!PoolNext \/ UNCHANGED Budget!poolVars
  <2>1. CASE AcquireBytes(e)
    BY <2>1, AcquireIsGate
  <2>2. CASE SendEntry(e)
    <3>1. e \in Entries \ Streamed /\ e \in charged
      BY <1>1, <2>2 DEF SendEntry, PermitsFollowCalls, OwnedPermit
    <3>2. CASE call' = Moved(e, "ok") /\ UNCHANGED <<charged, budgetUsed>>
      <4>1. \A d \in Entries : d # e => call'[d] = call[d]
        BY <1>1, <3>2 DEF Moved
      <4>2. QED
        BY <3>1, <3>2, <4>1, GateUnmoved
    <3>3. CASE ReturnCharge(e, Moved(e, "err"))
      <4>1. /\ Moved(e, "err") \in [Entries -> CallPlaces] /\ Moved(e, "err")[e] = "err"
            /\ \A d \in Entries : d # e => Moved(e, "err")[d] = call[d]
        BY <1>1 DEF Moved, CallPlaces
      <4>2. QED
        BY <3>1, <3>3, <4>1, ReturnIsGate
    <3>4. QED
      BY <2>2, <3>2, <3>3 DEF SendEntry
  <2>3. CASE LockStream(e) \/ SendStreamed(e)
    <3>1. /\ e \in Streamed /\ charged' = charged /\ budgetUsed' = budgetUsed
          /\ \E p \in CallPlaces : call' = Moved(e, p)
      BY <2>3 DEF LockStream, SendStreamed, CallPlaces
    <3>2. \A d \in Entries : d # e => call'[d] = call[d]
      BY <1>1, <3>1 DEF Moved
    <3>3. QED
      BY <3>1, <3>2, GateUnmoved
  <2>4. QED
    BY <1>2, <2>1, <2>2, <2>3 DEF ProducerStep
<1>3. ASSUME UNCHANGED producerVars PROVE UNCHANGED Budget!poolVars
  BY <1>3, GateUnmoved DEF producerVars
<1>4. CASE ThreadStep
  <2>1. ASSUME NEW e \in Entries, WriteEntry(e) \/ WriteEntryFails(e) PROVE Budget!PoolNext
    <3>1. queue # <<>> /\ Head(queue) = e /\ e \in Entries \ Streamed /\ ReturnCharge(e, call)
      BY <2>1 DEF WriteEntry, WriteEntryFails, Receives
    <3>2. e \in charged /\ call[e] = "ok"
      BY <3>1, HeadIsCharged
    <3>3. QED
      BY <1>1, <3>1, <3>2, ReturnIsGate
  <2>2. ASSUME NEW e \in Entries, EncodeStreamed(e) \/ EncodeFails(e) PROVE UNCHANGED Budget!poolVars
    <3>1. /\ e \in Streamed /\ charged' = charged /\ budgetUsed' = budgetUsed
          /\ \E p \in CallPlaces : call' = Moved(e, p)
      BY <2>2 DEF EncodeStreamed, EncodeFails, CallPlaces
    <3>2. \A d \in Entries : d # e => call'[d] = call[d]
      BY <1>1, <3>1 DEF Moved
    <3>3. QED
      BY <3>1, <3>2, GateUnmoved
  <2>3. CASE DiscardQueued
    <3>1. CASE Head(queue) \in Entries \ Streamed
      <4>1. queue # <<>> /\ ReturnCharge(Head(queue), call)
        BY <2>3, <3>1 DEF DiscardQueued
      <4>2. Head(queue) \in charged /\ call[Head(queue)] = "ok"
        BY <3>1, <4>1, HeadIsCharged
      <4>3. QED
        BY <1>1, <3>1, <4>1, <4>2, ReturnIsGate
    <3>2. CASE Head(queue) \in Streamed
      <4>1. charged' = charged /\ budgetUsed' = budgetUsed /\ call' = Moved(Head(queue), "err")
        BY <2>3, <3>2 DEF DiscardQueued
      <4>2. \A d \in Entries : d # Head(queue) => call'[d] = call[d]
        BY <1>1, <4>1 DEF Moved
      <4>3. QED
        BY <3>2, <4>1, <4>2, GateUnmoved
    <3>3. CASE Head(queue) \notin Entries
      <4>1. UNCHANGED producerVars
        BY <1>1, <2>3, <3>3 DEF DiscardQueued, producerVars
      <4>2. QED
        BY <1>3, <4>1
    <3>4. QED
      BY <3>1, <3>2, <3>3
  <2>4. CASE \/ BeginFinalize \/ WriteMetadata \/ SyncFile \/ RenameOverTarget \/ SyncDirAndReply
             \/ FinalizeFails \/ Disconnected \/ DropReceiver \/ ThreadExit
    <3>1. UNCHANGED producerVars
      BY <2>4 DEF BeginFinalize, WriteMetadata, SyncFile, RenameOverTarget, SyncDirAndReply,
                  FinalizeFails, FinalizeStep, Disconnected, DropReceiver, ThreadExit
    <3>2. QED
      BY <1>3, <3>1
  <2>5. QED
    BY <1>4, <2>1, <2>2, <2>3, <2>4 DEF ThreadStep
<1>5. CASE FinishStep \/ CallFinish \/ DropWriter
  <2>1. UNCHANGED producerVars
    BY <1>5 DEF FinishStep, SendFinish, AwaitReply, Fallback, Join, CallFinish, DropWriter, OwnerGoes
  <2>2. QED
    BY <1>3, <2>1
<1>6. QED
  BY <1>2, <1>4, <1>5 DEF WriterStep

\* A new writer's budget is a new gate.
LEMMA CreateIsNewGate ==
  ASSUME Create
  PROVE  Budget!PoolInit'
<1>1. charged' = {} /\ budgetUsed' = 0 /\ \A e \in Entries : call'[e] = "idle"
  BY DEF Create
<1>2. PermitBytes' = [e \in Entries |-> 0]
  BY <1>1 DEF PermitBytes
<1>3. PermitPlace' = [e \in Entries |-> "idle"]
  BY <1>1 DEF PermitPlace
<1>4. QED
  BY <1>1, <1>2, <1>3 DEF Budget!PoolInit, PermitBytes, PermitPlace

\* Every session's byte budget is the permit gate: each charge, wait, return
\* and wake-up of the writer is one the gate allows.
THEOREM BudgetRefinesGate == SessionSpec => BudgetIsPermitGate
<1>1. SessionInit => Budget!PoolInit
  <2> SUFFICES ASSUME SessionInit PROVE Budget!PoolInit
    OBVIOUS
  <2>1. charged = {} /\ budgetUsed = 0 /\ \A e \in Entries : call[e] = "idle"
    BY DEF SessionInit, Init
  <2>2. PermitBytes = [e \in Entries |-> 0] /\ PermitPlace = [e \in Entries |-> "idle"]
    BY <2>1 DEF PermitBytes, PermitPlace
  <2>3. QED
    BY <2>1, <2>2 DEF Budget!PoolInit, PermitBytes, PermitPlace
<1>2. SessionInv /\ [SessionNext]_<<vars, sessionVars>>
        => [Budget!PoolNext \/ (Create /\ Budget!PoolInit')]_(Budget!poolVars)
  <2> SUFFICES ASSUME SessionInv, [SessionNext]_<<vars, sessionVars>>
               PROVE  Budget!PoolNext \/ (Create /\ Budget!PoolInit') \/ UNCHANGED Budget!poolVars
    OBVIOUS
  <2>1. CASE WriterStep
    BY <2>1, WriterStepIsGate
  <2>2. CASE Create
    BY <2>2, CreateIsNewGate
  <2>3. CASE \/ EndSession \/ DropSession \/ Begin \/ Sweep \/ ProcessStops
             \/ RivalLocks \/ RivalSweeps \/ RivalEnds \/ UNCHANGED <<vars, sessionVars>>
    <3>1. UNCHANGED producerVars
      BY <2>3 DEF EndSession, DropSession, Begin, Sweep, ProcessStops, Crash, RivalLocks, RivalSweeps,
                  RivalEnds, vars
    <3>2. QED
      BY <3>1, GateUnmoved DEF producerVars
  <2>4. QED
    BY <2>1, <2>2, <2>3 DEF SessionNext
<1>3. QED
  BY <1>1, <1>2, SessionInvHolds, PTL DEF SessionSpec, BudgetIsPermitGate
=============================================================================
