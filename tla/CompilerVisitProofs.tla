------------------------ MODULE CompilerVisitProofs ------------------------
(* try_visit_parallel visits each item once and returns every permit, for  *)
(* any items, workers, window and failures, and its memory is gated by     *)
(* SyntaxMemoryPermitPool.                                                 *)
EXTENDS CompilerVisit, PermitPoolProofs

Busy == {"recheck", "turn", "turnWait", "permit", "work", "send"}
WaitsForTurn == {"recheck", "turn", "turnWait"}

\* The worker's item has its permit.
Carries(w) == wpc[w] = "work" \/ (wpc[w] = "send" /\ ok[w])

VisitTypeOK ==
  /\ PoolTypeOK
  /\ order \in {"Completion", "Input"}
  /\ workQ \in Seq(Units) /\ resultQ \in Seq([index : Units, ok : BOOLEAN])
  /\ wpc \in [Workers -> Busy \cup {"top", "recv", "exit"}]
  /\ index \in [Workers -> Units] /\ ok \in [Workers -> BOOLEAN]
  /\ scheduled \in 0..ItemCount
  /\ completed \subseteq Units /\ reorder \subseteq Units /\ visited \in Seq(Units)
  /\ mpc \in {"recv", "visit", "schedule", "leave", "drop", "returned"}
  /\ outcome \in {"ok", "err", "panic"}

\* An item is in the work channel, with one worker, in the result channel or
\* received, and never in two of these places nor twice in one.
OneHome ==
  /\ Distinct(workQ) /\ DistinctResults(resultQ)
  /\ \A v, w \in Workers : wpc[v] \in Busy /\ wpc[w] \in Busy /\ index[v] = index[w] => v = w
  /\ WorkSet(workQ) \cap (ResultSet(resultQ) \cup completed) = {}
  /\ ResultSet(resultQ) \cap completed = {}
  /\ \A w \in Workers : wpc[w] \in Busy =>
       index[w] \notin WorkSet(workQ) \cup ResultSet(resultQ) \cup completed
  /\ \A u \in WorkSet(workQ) \cup ResultSet(resultQ) \cup completed : u < scheduled
  /\ \A w \in Workers : wpc[w] \in Busy => index[w] < scheduled

\* The items in the workers' hands that have their permit.
Carried == {index[w] : w \in {v \in Workers : Carries(v)}}

\* A permit travels with its item: it is live exactly while the item is being
\* worked on, or its result is in a worker's hands, the channel or the map.
PermitTravels == Holders = Carried \cup GoodSet(resultQ) \cup reorder

\* An item has not been at the gate before its worker takes it there, and has
\* no permit until it is granted one.
FreshIsIdle ==
  /\ \A u \in Units : u \in WorkSet(workQ) \/ u >= scheduled => at[u] = "idle"
  /\ \A w \in Workers : wpc[w] \in WaitsForTurn => at[index[w]] = "idle"
  /\ \A w \in Workers : wpc[w] = "permit" => at[index[w]] \in {"idle", "asleep", "woken"}

\* What was received is visited at most once.
VisitsOnce ==
  /\ reorder \subseteq completed
  /\ \A i \in DOMAIN visited : visited[i] \in completed \ reorder
  /\ Distinct(visited)
  /\ order = "Input" => \A i \in DOMAIN visited : visited[i] = i - 1

\* How the caller's loop ended, and what is left when it has.
CallerKnows ==
  /\ mpc \in {"recv", "visit", "schedule"} => outcome = "ok"
  /\ mpc = "leave" => outcome # "ok"
  /\ mpc \in {"drop", "returned"} => reorder = {} /\ (outcome = "ok" => Len(visited) = ItemCount)
  /\ mpc = "returned" => resultQ = <<>> /\ \A w \in Workers : wpc[w] = "exit"

\* The inductive invariant of the visit.
VisitInv ==
  /\ VisitTypeOK
  /\ OneHome
  /\ PermitTravels
  /\ FreshIsIdle
  /\ VisitsOnce
  /\ CallerKnows

-----------------------------------------------------------------------------
\* What the channels and the workers hold are items.
LEMMA ItemsAreUnits ==
  ASSUME VisitTypeOK
  PROVE  /\ WorkSet(workQ) \subseteq Units /\ ResultSet(resultQ) \subseteq Units
         /\ GoodSet(resultQ) \subseteq ResultSet(resultQ)
         /\ reorder \subseteq Units /\ completed \subseteq Units
         /\ \A v \in Workers : index[v] \in Units
         /\ scheduled \in Nat /\ \A u \in Units : u \in Nat
<1>1. workQ \in Seq(Units) /\ resultQ \in Seq([index : Units, ok : BOOLEAN])
  BY DEF VisitTypeOK
<1>2. \A i \in DOMAIN workQ : workQ[i] \in Units
  BY <1>1
<1>3. \A i \in DOMAIN resultQ : resultQ[i] \in [index : Units, ok : BOOLEAN]
  <2> DEFINE R == [index : Units, ok : BOOLEAN]
  <2>1. resultQ \in Seq(R)
    BY <1>1
  <2> HIDE DEF R
  <2>2. \A i \in DOMAIN resultQ : resultQ[i] \in R
    BY <2>1
  <2>3. QED
    BY <2>2 DEF R
<1>4. WorkSet(workQ) \subseteq Units
  BY <1>2 DEF WorkSet
<1>5. ResultSet(resultQ) \subseteq Units /\ GoodSet(resultQ) \subseteq ResultSet(resultQ)
  BY <1>3 DEF ResultSet, GoodSet
<1>6. QED
  BY <1>4, <1>5, VisitAssumption DEF VisitTypeOK

-----------------------------------------------------------------------------
(* The gate, and workers that move without it. *)

\* The steps of a worker that has nothing in its hands, or waits for its turn.
Strolls(from, to) ==
  \/ from \in {"top", "recv"} /\ to \in {"recv", "exit"}
  \/ from \in WaitsForTurn /\ to \in {"turn", "turnWait", "permit", "exit"}

\* Such steps keep the invariant.
LEMMA StrollKeeps ==
  ASSUME VisitInv, UNCHANGED <<poolVars, order, chanVars, index, ok, mainVars>>,
         wpc' \in [Workers -> Busy \cup {"top", "recv", "exit"}],
         \A v \in Workers : wpc'[v] = wpc[v] \/ Strolls(wpc[v], wpc'[v])
  PROVE  VisitInv'
<1> USE DEF poolVars, chanVars, mainVars
<1>1. VisitTypeOK'
  BY DEF VisitInv, VisitTypeOK, PoolTypeOK
<1>2. /\ \A v \in Workers : wpc'[v] \in Busy => wpc[v] \in Busy
      /\ \A v \in Workers : wpc[v] = "exit" => wpc'[v] = "exit"
      /\ \A v \in Workers : wpc'[v] \in WaitsForTurn => wpc[v] \in WaitsForTurn
      /\ \A v \in Workers : wpc'[v] = "permit" => wpc[v] = "permit" \/ wpc[v] \in WaitsForTurn
      /\ \A v \in Workers : Carries(v)' <=> Carries(v)
  BY DEF Strolls, Busy, WaitsForTurn, Carries
<1>3. OneHome'
  BY <1>2 DEF VisitInv, OneHome
<1>4. PermitTravels'
  BY <1>2 DEF VisitInv, PermitTravels, Carried, Holders
<1>5. FreshIsIdle'
  BY <1>2 DEF VisitInv, FreshIsIdle
<1>6. VisitsOnce' /\ CallerKnows'
  BY <1>2 DEF VisitInv, VisitsOnce, CallerKnows
<1>7. QED
  BY <1>1, <1>3, <1>4, <1>5, <1>6 DEF VisitInv

\* The tests of the flag, the wait for the turn, a channel that has ended.
LEMMA WorkerStrolls ==
  ASSUME VisitInv, NEW w \in Workers,
         \/ Top(w) \/ Recheck(w) \/ TakeTurn(w)
         \/ Recv(w) /\ workQ = <<>>
         \/ WorkerGoes(w, "turnWait", "turn") /\ UNCHANGED <<poolVars, order, chanVars, index, ok, mainVars>>
  PROVE  VisitInv'
<1>1. PICK to \in {"recv", "exit", "turn", "turnWait", "permit"} :
        wpc' = [wpc EXCEPT ![w] = to] /\ Strolls(wpc[w], to)
  BY DEF Top, Recheck, TakeTurn, Recv, WorkerGoes, Strolls, WaitsForTurn
<1>2. UNCHANGED <<poolVars, order, chanVars, index, ok, mainVars>>
  BY DEF Top, Recheck, TakeTurn, Recv, chanVars
<1>3. wpc \in [Workers -> Busy \cup {"top", "recv", "exit"}]
  BY DEF VisitInv, VisitTypeOK
<1>4. wpc' \in [Workers -> Busy \cup {"top", "recv", "exit"}]
  BY <1>1, <1>3 DEF Busy
<1>5. \A v \in Workers : wpc'[v] = wpc[v] \/ Strolls(wpc[v], wpc'[v])
  BY <1>1, <1>3
<1>6. QED
  BY <1>2, <1>4, <1>5, StrollKeeps

\* A worker receives an index: the item moves from the channel to its hands.
LEMMA RecvKeeps ==
  ASSUME VisitInv, NEW w \in Workers, Recv(w), workQ # <<>>
  PROVE  VisitInv'
<1>1. /\ wpc[w] = "recv" /\ wpc' = [wpc EXCEPT ![w] = "recheck"]
      /\ index' = [index EXCEPT ![w] = Head(workQ)] /\ workQ' = Tail(workQ)
      /\ UNCHANGED <<poolVars, order, workOpen, resultQ, resultOpen, cancelled, ok, admission, mainVars>>
  BY DEF Recv, WorkerGoes
<1>2. VisitTypeOK /\ OneHome /\ PermitTravels /\ FreshIsIdle /\ VisitsOnce /\ CallerKnows
  BY DEF VisitInv
<1>3. PICK u : u = Head(workQ)
  OBVIOUS
<1>4. /\ u \in Units /\ u \in WorkSet(workQ) /\ workQ' \in Seq(Units) /\ Distinct(workQ')
      /\ WorkSet(workQ') = WorkSet(workQ) \ {u}
  BY <1>1, <1>2, <1>3, WorkTail DEF VisitTypeOK, OneHome
<1>5. /\ wpc \in [Workers -> Busy \cup {"top", "recv", "exit"}] /\ index \in [Workers -> Units]
      /\ wpc'[w] = "recheck" /\ index'[w] = u
      /\ \A v \in Workers : v # w => wpc'[v] = wpc[v] /\ index'[v] = index[v]
  BY <1>1, <1>2, <1>3 DEF VisitTypeOK
<1> USE DEF poolVars, mainVars
<1>6. VisitTypeOK'
  BY <1>1, <1>2, <1>3, <1>4 DEF VisitTypeOK, PoolTypeOK, Busy
<1>7. OneHome'
  <2>1. ASSUME NEW v \in Workers, wpc'[v] \in Busy
        PROVE  /\ index'[v] \notin WorkSet(workQ') \cup ResultSet(resultQ') \cup completed'
               /\ index'[v] < scheduled'
    BY <1>1, <1>2, <1>4, <1>5, <2>1 DEF OneHome
  <2>2. ASSUME NEW v \in Workers, NEW x \in Workers, wpc'[v] \in Busy, wpc'[x] \in Busy, index'[v] = index'[x]
        PROVE  v = x
    BY <1>1, <1>2, <1>4, <1>5, <2>2 DEF OneHome, Busy
  <2>3. QED
    BY <1>1, <1>2, <1>4, <2>1, <2>2 DEF OneHome
<1>8. \A v \in Workers : Carries(v)' <=> Carries(v) /\ v # w
  BY <1>1, <1>5 DEF Carries
<1>9. ~Carries(w)
  BY <1>1 DEF Carries
<1>10. PermitTravels'
  <2>1. Carried' = Carried
    BY <1>5, <1>8, <1>9 DEF Carried
  <2>2. QED
    BY <1>1, <1>2, <2>1 DEF PermitTravels, Holders
<1>11. FreshIsIdle'
  BY <1>1, <1>2, <1>4, <1>5 DEF FreshIsIdle, WaitsForTurn
<1>12. VisitsOnce' /\ CallerKnows'
  BY <1>1, <1>2, <1>5 DEF VisitsOnce, CallerKnows
<1>13. QED
  BY <1>6, <1>7, <1>10, <1>11, <1>12 DEF VisitInv

\* acquire refuses: the worker sleeps at the gate.
LEMMA WaitKeeps ==
  ASSUME VisitInv, NEW w \in Workers, WaitForPermit(w)
  PROVE  VisitInv'
<1>1. /\ wpc[w] = "permit" /\ Sleep(index[w])
      /\ UNCHANGED <<order, chanVars, workerVars, mainVars>>
  BY DEF WaitForPermit
<1>2. VisitTypeOK /\ OneHome /\ PermitTravels /\ FreshIsIdle /\ VisitsOnce /\ CallerKnows
  BY DEF VisitInv
<1>3. PICK u : u = index[w]
  OBVIOUS
<1>4. u \in Units /\ PoolTypeOK /\ at[u] # "held"
  BY <1>1, <1>2, <1>3 DEF VisitTypeOK, FreshIsIdle
<1>5. /\ PoolTypeOK' /\ at'[u] = "asleep" /\ \A v \in Units : v # u => at'[v] = at[v]
  BY <1>1, <1>3, <1>4, GateFacts
<1> USE DEF chanVars, workerVars, mainVars
<1>6. VisitTypeOK'
  BY <1>1, <1>2, <1>5 DEF VisitTypeOK
<1>7. OneHome' /\ VisitsOnce' /\ CallerKnows'
  BY <1>1, <1>2 DEF OneHome, VisitsOnce, CallerKnows
<1>8. \A v \in Workers : Carries(v)' <=> Carries(v)
  BY <1>1 DEF Carries
<1>9. PermitTravels'
  <2>1. Carried' = Carried
    BY <1>1, <1>8 DEF Carried
  <2>2. Holders' = Holders
    BY <1>4, <1>5 DEF Holders
  <2>3. QED
    BY <1>1, <1>2, <2>1, <2>2 DEF PermitTravels
<1>10. FreshIsIdle'
  <2>1. u \notin WorkSet(workQ) /\ u < scheduled /\ \A v \in Workers : wpc[v] \in Busy /\ v # w => index[v] # u
    BY <1>1, <1>2, <1>3 DEF OneHome, Busy
  <2>2. scheduled \in Nat /\ \A v \in Workers : index[v] \in Units /\ \A x \in Units : x \in Nat
    BY <1>2, VisitAssumption DEF VisitTypeOK
  <2>3. ASSUME NEW x \in Units, x \in WorkSet(workQ) \/ x >= scheduled PROVE at'[x] = "idle"
    BY <1>2, <1>4, <1>5, <2>1, <2>2, <2>3 DEF FreshIsIdle
  <2>4. ASSUME NEW v \in Workers, wpc[v] \in WaitsForTurn PROVE at'[index[v]] = "idle"
    <3>1. v # w /\ wpc[v] \in Busy
      BY <1>1, <2>4 DEF WaitsForTurn, Busy
    <3>2. QED
      BY <1>2, <1>5, <2>1, <2>2, <2>4, <3>1 DEF FreshIsIdle
  <2>5. ASSUME NEW v \in Workers, wpc[v] = "permit" PROVE at'[index[v]] \in {"idle", "asleep", "woken"}
    BY <1>2, <1>3, <1>5, <2>2, <2>5 DEF FreshIsIdle
  <2>6. QED
    BY <1>1, <2>3, <2>4, <2>5 DEF FreshIsIdle
<1>11. QED
  BY <1>6, <1>7, <1>9, <1>10 DEF VisitInv

\* A permit is granted, and in input order the turn passes on.
LEMMA TakeKeeps ==
  ASSUME VisitInv, NEW w \in Workers, TakePermit(w)
  PROVE  VisitInv'
<1>1. /\ wpc[w] = "permit" /\ Admit(index[w])
      /\ UNCHANGED <<order, chanVars, index, ok, mainVars>>
  BY DEF TakePermit
<1>2. VisitTypeOK /\ OneHome /\ PermitTravels /\ FreshIsIdle /\ VisitsOnce /\ CallerKnows
  BY DEF VisitInv
<1>3. PICK u : u = index[w]
  OBVIOUS
<1>4. u \in Units /\ PoolTypeOK
  BY <1>2, <1>3 DEF VisitTypeOK
<1>5. /\ PoolTypeOK' /\ at'[u] = "held" /\ \A v \in Units : v # u => at'[v] = at[v]
  BY <1>1, <1>3, <1>4, GateFacts
<1>6. /\ wpc \in [Workers -> Busy \cup {"top", "recv", "exit"}]
      /\ wpc' \in [Workers -> Busy \cup {"top", "recv", "exit"}]
      /\ wpc'[w] = "work"
      /\ \A v \in Workers : v # w => wpc'[v] = wpc[v] \/ (wpc[v] = "turnWait" /\ wpc'[v] = "turn")
  BY <1>1, <1>2 DEF TakePermit, PassTurn, WorkerGoes, VisitTypeOK, Busy
<1> USE DEF chanVars, mainVars
<1>7. VisitTypeOK'
  BY <1>1, <1>2, <1>5, <1>6 DEF VisitTypeOK
<1>8. \A v \in Workers : wpc'[v] \in Busy <=> wpc[v] \in Busy
  BY <1>1, <1>6 DEF Busy
<1>9. OneHome'
  BY <1>1, <1>2, <1>8 DEF OneHome
<1>10. \A v \in Workers : Carries(v)' <=> Carries(v) \/ v = w
  BY <1>1, <1>6 DEF Carries
<1>11. VisitsOnce' /\ CallerKnows'
  BY <1>1, <1>2, <1>6 DEF VisitsOnce, CallerKnows
<1>12. reorder \cup GoodSet(resultQ) \subseteq Units /\ \A v \in Workers : index[v] \in Units
  BY <1>2, ItemsAreUnits
<1>13. PermitTravels'
  <2>1. Carried' = Carried \cup {u}
    BY <1>1, <1>3, <1>10 DEF Carried
  <2>2. Holders' = Holders \cup {u}
    BY <1>4, <1>5 DEF Holders
  <2>3. QED
    BY <1>1, <1>2, <2>1, <2>2 DEF PermitTravels
<1>14. FreshIsIdle'
  <2>1. u \notin WorkSet(workQ) /\ u < scheduled /\ \A v \in Workers : wpc[v] \in Busy /\ v # w => index[v] # u
    BY <1>1, <1>2, <1>3 DEF OneHome, Busy
  <2>2. scheduled \in Nat /\ \A x \in Units : x \in Nat
    BY <1>2, VisitAssumption DEF VisitTypeOK
  <2>3. ASSUME NEW x \in Units, x \in WorkSet(workQ) \/ x >= scheduled PROVE at'[x] = "idle"
    BY <1>2, <1>4, <1>5, <2>1, <2>2, <2>3 DEF FreshIsIdle
  <2>4. ASSUME NEW v \in Workers, wpc'[v] \in WaitsForTurn PROVE at'[index[v]] = "idle"
    <3>1. v # w /\ wpc[v] \in Busy /\ wpc[v] \in WaitsForTurn
      BY <1>6, <2>4 DEF WaitsForTurn, Busy
    <3>2. QED
      BY <1>2, <1>5, <1>12, <2>1, <3>1 DEF FreshIsIdle
  <2>5. ASSUME NEW v \in Workers, wpc'[v] = "permit" PROVE at'[index[v]] \in {"idle", "asleep", "woken"}
    <3>1. v # w /\ wpc[v] = "permit" /\ wpc[v] \in Busy
      BY <1>6, <2>5 DEF Busy
    <3>2. QED
      BY <1>2, <1>5, <1>12, <2>1, <3>1 DEF FreshIsIdle
  <2>6. QED
    BY <1>1, <2>3, <2>4, <2>5 DEF FreshIsIdle
<1>15. QED
  BY <1>7, <1>9, <1>11, <1>13, <1>14 DEF VisitInv

\* A release leaves the items alone that wait for the gate.
LEMMA ReleaseKeepsFresh ==
  ASSUME VisitInv, NEW u \in Units, Release(u), workQ' = workQ, scheduled' = scheduled, index' = index,
         \A v \in Workers : /\ wpc'[v] \in WaitsForTurn => wpc[v] \in WaitsForTurn
                            /\ wpc'[v] = "permit" => wpc[v] = "permit"
  PROVE  FreshIsIdle'
<1>1. FreshIsIdle /\ VisitTypeOK /\ PoolTypeOK
  BY DEF VisitInv, VisitTypeOK
<1>2. \A v \in Workers : index[v] \in Units
  BY <1>1, ItemsAreUnits
<1>3. \A x \in Units : /\ at[x] = "idle" => at'[x] = "idle"
                       /\ at[x] \in {"idle", "asleep", "woken"} => at'[x] \in {"idle", "asleep", "woken"}
  BY <1>1, ReleaseFacts
<1>4. ASSUME NEW x \in Units, x \in WorkSet(workQ) \/ x >= scheduled PROVE at'[x] = "idle"
  BY <1>1, <1>3, <1>4 DEF FreshIsIdle
<1>5. ASSUME NEW v \in Workers, wpc'[v] \in WaitsForTurn PROVE at'[index[v]] = "idle"
  BY <1>1, <1>2, <1>3, <1>5 DEF FreshIsIdle
<1>6. ASSUME NEW v \in Workers, wpc'[v] = "permit" PROVE at'[index[v]] \in {"idle", "asleep", "woken"}
  BY <1>1, <1>2, <1>3, <1>6 DEF FreshIsIdle
<1>7. QED
  BY <1>4, <1>5, <1>6 DEF FreshIsIdle

\* The work ends, or its error drops the permit before the result is sent.
LEMMA WorkKeeps ==
  ASSUME VisitInv, NEW w \in Workers, Work(w)
  PROVE  VisitInv'
<1>1. /\ wpc[w] = "work" /\ wpc' = [wpc EXCEPT ![w] = "send"]
      /\ UNCHANGED <<order, chanVars, index, admission, mainVars>>
      /\ \/ ok' = [ok EXCEPT ![w] = TRUE] /\ UNCHANGED poolVars
         \/ ok' = [ok EXCEPT ![w] = FALSE] /\ Release(index[w])
  BY DEF Work, WorkerGoes
<1>2. VisitTypeOK /\ OneHome /\ PermitTravels /\ FreshIsIdle /\ VisitsOnce /\ CallerKnows /\ PoolTypeOK
  BY DEF VisitInv, VisitTypeOK
<1>3. PICK u : u = index[w]
  OBVIOUS
<1>4. /\ wpc \in [Workers -> Busy \cup {"top", "recv", "exit"}] /\ ok \in [Workers -> BOOLEAN]
      /\ index \in [Workers -> Units] /\ u \in Units
  BY <1>2, <1>3 DEF VisitTypeOK
<1>5. /\ wpc' \in [Workers -> Busy \cup {"top", "recv", "exit"}] /\ ok' \in [Workers -> BOOLEAN]
      /\ wpc'[w] = "send" /\ \A v \in Workers : v # w => wpc'[v] = wpc[v] /\ ok'[v] = ok[v]
  BY <1>1, <1>4 DEF Busy
<1>6. PoolTypeOK'
  BY <1>1, <1>2, <1>3, <1>4, ReleaseFacts DEF poolVars, PoolTypeOK
<1> USE DEF chanVars, mainVars
<1>7. VisitTypeOK'
  BY <1>1, <1>2, <1>5, <1>6 DEF VisitTypeOK
<1>8. /\ \A v \in Workers : wpc'[v] \in Busy <=> wpc[v] \in Busy
      /\ \A v \in Workers : wpc'[v] \in WaitsForTurn => wpc[v] \in WaitsForTurn
      /\ \A v \in Workers : wpc'[v] = "permit" => wpc[v] = "permit"
      /\ \A v \in Workers : wpc[v] # "exit" \/ v # w
  BY <1>1, <1>5 DEF Busy, WaitsForTurn
<1>9. OneHome'
  BY <1>1, <1>2, <1>8 DEF OneHome
<1>10. VisitsOnce' /\ CallerKnows'
  BY <1>1, <1>2, <1>5, <1>8 DEF VisitsOnce, CallerKnows
<1>11. \A v \in Workers : v # w => (Carries(v)' <=> Carries(v))
  BY <1>5, Zenon DEF Carries
<1>12. Carries(w) /\ wpc[w] \in Busy
  BY <1>1 DEF Carries, Busy
<1>13. CASE ok' = [ok EXCEPT ![w] = TRUE] /\ UNCHANGED poolVars
  <2>1. Carries(w)'
    <3>1. ok'[w] = TRUE
      BY <1>4, <1>13
    <3>2. QED
      BY <1>5, <3>1 DEF Carries
  <2>2. Carried' = Carried
    BY <1>1, <1>11, <1>12, <2>1 DEF Carried
  <2>3. PermitTravels'
    BY <1>1, <1>2, <1>13, <2>2 DEF PermitTravels, Holders, poolVars
  <2>4. FreshIsIdle'
    BY <1>1, <1>2, <1>8, <1>13 DEF FreshIsIdle, poolVars
  <2>5. QED
    BY <1>7, <1>9, <1>10, <2>3, <2>4 DEF VisitInv
<1>14. CASE ok' = [ok EXCEPT ![w] = FALSE] /\ Release(index[w])
  <2>1. ~Carries(w)'
    <3>1. ok'[w] = FALSE
      BY <1>4, <1>14
    <3>2. QED
      BY <1>5, <3>1 DEF Carries
  <2>2. \A v \in Workers : v # w /\ Carries(v) => index[v] # u
    BY <1>2, <1>3, <1>12 DEF OneHome, Carries, Busy
  <2>3. Carried' = Carried \ {u}
    BY <1>1, <1>3, <1>11, <2>1, <2>2 DEF Carried
  <2>4. u \notin GoodSet(resultQ) \cup reorder
    BY <1>2, <1>3, <1>12, ItemsAreUnits DEF OneHome, VisitsOnce
  <2>5. Holders' = Holders \ {u}
    BY <1>2, <1>3, <1>4, <1>14, ReleaseFacts
  <2>6. PermitTravels'
    BY <1>1, <1>2, <2>3, <2>4, <2>5 DEF PermitTravels
  <2>7. FreshIsIdle'
    BY <1>1, <1>3, <1>4, <1>8, <1>14, ReleaseKeepsFresh
  <2>8. QED
    BY <1>7, <1>9, <1>10, <2>6, <2>7 DEF VisitInv
<1>15. QED
  BY <1>1, <1>13, <1>14

\* A worker lets go of its item: it sends the result, or finds the receiver
\* gone and drops it.
LEMMA HandOver ==
  ASSUME VisitInv, NEW w \in Workers, NEW to \in {"top", "exit"},
         wpc[w] = "send", wpc' = [wpc EXCEPT ![w] = to],
         UNCHANGED <<order, index, ok, mainVars>>
  PROVE  /\ wpc' \in [Workers -> Busy \cup {"top", "recv", "exit"}]
         /\ \A v \in Workers : /\ wpc'[v] \in Busy => wpc[v] \in Busy /\ v # w
                               /\ wpc'[v] \in WaitsForTurn => wpc[v] \in WaitsForTurn
                               /\ wpc'[v] = "permit" => wpc[v] = "permit"
         /\ Carried' = {index[v] : v \in {x \in Workers : Carries(x) /\ x # w}}
         /\ Carried = Carried' \cup (IF ok[w] THEN {index[w]} ELSE {})
         /\ index[w] \notin Carried' \cup GoodSet(resultQ) \cup reorder
         /\ mpc # "returned"
<1>1. VisitTypeOK /\ OneHome /\ VisitsOnce /\ CallerKnows
  BY DEF VisitInv
<1>2. wpc \in [Workers -> Busy \cup {"top", "recv", "exit"}] /\ ok \in [Workers -> BOOLEAN]
  BY <1>1 DEF VisitTypeOK
<1>3. /\ wpc' \in [Workers -> Busy \cup {"top", "recv", "exit"}] /\ wpc'[w] = to
      /\ \A v \in Workers : v # w => wpc'[v] = wpc[v]
  BY <1>2
<1>4. \A v \in Workers : /\ wpc'[v] \in Busy => wpc[v] \in Busy /\ v # w
                         /\ wpc'[v] \in WaitsForTurn => wpc[v] \in WaitsForTurn
                         /\ wpc'[v] = "permit" => wpc[v] = "permit"
  BY <1>3 DEF Busy, WaitsForTurn
<1>5. \A v \in Workers : Carries(v)' <=> Carries(v) /\ v # w
  <2>1. ~Carries(w)'
    BY <1>3 DEF Carries
  <2>2. ASSUME NEW v \in Workers, v # w PROVE Carries(v)' <=> Carries(v)
    BY <1>3, <2>2, Zenon DEF Carries
  <2>3. QED
    BY <2>1, <2>2
<1>6. Carried' = {index[v] : v \in {x \in Workers : Carries(x) /\ x # w}}
  BY <1>5 DEF Carried
<1>7. Carries(w) <=> ok[w]
  BY DEF Carries
<1>8. Carried = Carried' \cup (IF ok[w] THEN {index[w]} ELSE {})
  BY <1>6, <1>7 DEF Carried
<1>9. index[w] \notin GoodSet(resultQ) \cup reorder
  BY <1>1, ItemsAreUnits DEF OneHome, VisitsOnce, Busy
<1>10. \A v \in Workers : v # w /\ Carries(v) => index[v] # index[w]
  BY <1>1 DEF OneHome, Carries, Busy
<1>11. index[w] \notin Carried'
  BY <1>6, <1>10
<1>12. mpc # "returned"
  BY <1>1 DEF CallerKnows
<1>13. QED
  BY <1>3, <1>4, <1>6, <1>8, <1>9, <1>11, <1>12

\* The result and its permit go into the channel.
LEMMA SendKeeps ==
  ASSUME VisitInv, NEW w \in Workers, Send(w)
  PROVE  VisitInv'
<1>1. /\ wpc[w] = "send" /\ wpc' = [wpc EXCEPT ![w] = "top"]
      /\ resultQ' = Append(resultQ, [index |-> index[w], ok |-> ok[w]])
      /\ UNCHANGED <<poolVars, order, workQ, workOpen, resultOpen, cancelled, index, ok, admission, mainVars>>
  BY DEF Send, WorkerGoes
<1>2. VisitTypeOK /\ OneHome /\ PermitTravels /\ FreshIsIdle /\ VisitsOnce /\ CallerKnows
  BY DEF VisitInv
<1>3. /\ wpc' \in [Workers -> Busy \cup {"top", "recv", "exit"}]
      /\ \A v \in Workers : /\ wpc'[v] \in Busy => wpc[v] \in Busy /\ v # w
                            /\ wpc'[v] \in WaitsForTurn => wpc[v] \in WaitsForTurn
                            /\ wpc'[v] = "permit" => wpc[v] = "permit"
      /\ Carried = Carried' \cup (IF ok[w] THEN {index[w]} ELSE {})
      /\ mpc # "returned"
  BY <1>1, HandOver
<1>4. /\ index[w] \in Units /\ ok[w] \in BOOLEAN
      /\ index[w] \notin WorkSet(workQ) \cup ResultSet(resultQ) \cup completed /\ index[w] < scheduled
      /\ \A v \in Workers : wpc[v] \in Busy /\ v # w => index[v] # index[w]
  BY <1>1, <1>2 DEF VisitTypeOK, OneHome, Busy
<1>5. /\ resultQ' \in Seq([index : Units, ok : BOOLEAN]) /\ DistinctResults(resultQ')
      /\ ResultSet(resultQ') = ResultSet(resultQ) \cup {index[w]}
      /\ ok[w] => GoodSet(resultQ') = GoodSet(resultQ) \cup {index[w]}
      /\ ~ok[w] => GoodSet(resultQ') = GoodSet(resultQ)
  <2>1. resultQ \in Seq([index : Units, ok : BOOLEAN]) /\ DistinctResults(resultQ)
    BY <1>2 DEF VisitTypeOK, OneHome
  <2>2. \E u \in Units, g \in BOOLEAN : u = index[w] /\ g = ok[w]
    BY <1>4
  <2>3. PICK u \in Units, g \in BOOLEAN : u = index[w] /\ g = ok[w]
    BY <2>2
  <2>4. u \notin ResultSet(resultQ) /\ resultQ' = Append(resultQ, [index |-> u, ok |-> g])
    BY <1>1, <1>4, <2>3
  <2>5. /\ resultQ' \in Seq([index : Units, ok : BOOLEAN]) /\ DistinctResults(resultQ')
        /\ ResultSet(resultQ') = ResultSet(resultQ) \cup {u}
        /\ g => GoodSet(resultQ') = GoodSet(resultQ) \cup {u}
        /\ ~g => GoodSet(resultQ') = GoodSet(resultQ)
    BY <2>1, <2>4, ResultAppend
  <2>6. QED
    BY <2>3, <2>5
<1> USE DEF poolVars, mainVars
<1>6. VisitTypeOK'
  BY <1>1, <1>2, <1>3, <1>5 DEF VisitTypeOK, PoolTypeOK
<1>7. OneHome'
  <2>1. ASSUME NEW v \in Workers, wpc'[v] \in Busy
        PROVE  /\ index[v] \notin WorkSet(workQ) \cup ResultSet(resultQ') \cup completed
               /\ index[v] < scheduled
    BY <1>2, <1>3, <1>4, <1>5, <2>1 DEF OneHome
  <2>2. \A v, x \in Workers : wpc'[v] \in Busy /\ wpc'[x] \in Busy /\ index[v] = index[x] => v = x
    BY <1>2, <1>3 DEF OneHome
  <2>3. /\ WorkSet(workQ) \cap (ResultSet(resultQ') \cup completed) = {}
        /\ ResultSet(resultQ') \cap completed = {}
        /\ \A u \in WorkSet(workQ) \cup ResultSet(resultQ') \cup completed : u < scheduled
    BY <1>2, <1>4, <1>5 DEF OneHome
  <2>4. QED
    BY <1>1, <1>2, <1>5, <2>1, <2>2, <2>3 DEF OneHome
<1>8. PermitTravels'
  <2>1. Holders' = Holders
    BY <1>1 DEF Holders
  <2>2. CASE ok[w]
    BY <1>1, <1>2, <1>3, <1>5, <2>1, <2>2 DEF PermitTravels
  <2>3. CASE ~ok[w]
    BY <1>1, <1>2, <1>3, <1>5, <2>1, <2>3 DEF PermitTravels
  <2>4. QED
    BY <2>2, <2>3
<1>9. FreshIsIdle'
  BY <1>1, <1>2, <1>3 DEF FreshIsIdle
<1>10. VisitsOnce' /\ CallerKnows'
  BY <1>1, <1>2, <1>3 DEF VisitsOnce, CallerKnows
<1>11. QED
  BY <1>6, <1>7, <1>8, <1>9, <1>10 DEF VisitInv

\* The receiver is gone: the result is dropped with its permit.
LEMMA SendFailsKeeps ==
  ASSUME VisitInv, NEW w \in Workers, SendFails(w)
  PROVE  VisitInv'
<1>1. /\ wpc[w] = "send" /\ wpc' = [wpc EXCEPT ![w] = "exit"]
      /\ UNCHANGED <<order, chanVars, index, ok, admission, mainVars>>
      /\ \/ ok[w] /\ Release(index[w])
         \/ ~ok[w] /\ UNCHANGED poolVars
  BY DEF SendFails, WorkerGoes, DropResult
<1>2. VisitTypeOK /\ OneHome /\ PermitTravels /\ FreshIsIdle /\ VisitsOnce /\ CallerKnows /\ PoolTypeOK
  BY DEF VisitInv, VisitTypeOK
<1>3. /\ wpc' \in [Workers -> Busy \cup {"top", "recv", "exit"}]
      /\ \A v \in Workers : /\ wpc'[v] \in Busy => wpc[v] \in Busy /\ v # w
                            /\ wpc'[v] \in WaitsForTurn => wpc[v] \in WaitsForTurn
                            /\ wpc'[v] = "permit" => wpc[v] = "permit"
      /\ Carried = Carried' \cup (IF ok[w] THEN {index[w]} ELSE {})
      /\ index[w] \notin Carried' \cup GoodSet(resultQ) \cup reorder
      /\ mpc # "returned"
  BY <1>1, HandOver
<1>4. index[w] \in Units
  BY <1>2, ItemsAreUnits
<1>5. PoolTypeOK'
  BY <1>1, <1>2, <1>4, ReleaseFacts DEF poolVars, PoolTypeOK
<1> USE DEF chanVars, mainVars
<1>6. VisitTypeOK'
  BY <1>1, <1>2, <1>3, <1>5 DEF VisitTypeOK
<1>7. OneHome'
  BY <1>1, <1>2, <1>3 DEF OneHome
<1>8. VisitsOnce' /\ CallerKnows'
  BY <1>1, <1>2, <1>3 DEF VisitsOnce, CallerKnows
<1>9. CASE ok[w] /\ Release(index[w])
  <2>1. Holders' = Holders \ {index[w]}
    BY <1>2, <1>4, <1>9, ReleaseFacts
  <2>2. PermitTravels'
    BY <1>1, <1>2, <1>3, <1>9, <2>1 DEF PermitTravels
  <2>3. FreshIsIdle'
    BY <1>1, <1>3, <1>4, <1>9, ReleaseKeepsFresh
  <2>4. QED
    BY <1>6, <1>7, <1>8, <2>2, <2>3 DEF VisitInv
<1>10. CASE ~ok[w] /\ UNCHANGED poolVars
  <2>1. Holders' = Holders
    BY <1>10 DEF Holders, poolVars
  <2>2. PermitTravels'
    BY <1>1, <1>2, <1>3, <1>10, <2>1 DEF PermitTravels
  <2>3. FreshIsIdle'
    BY <1>1, <1>2, <1>3, <1>10 DEF FreshIsIdle, poolVars
  <2>4. QED
    BY <1>6, <1>7, <1>8, <2>2, <2>3 DEF VisitInv
<1>11. QED
  BY <1>1, <1>9, <1>10

-----------------------------------------------------------------------------
(* The caller. *)

\* A result is received: it moves from the channel to the map.
LEMMA ReceiveKeeps ==
  ASSUME VisitInv, Receive
  PROVE  VisitInv'
<1>1. /\ mpc = "recv" /\ mpc' = "visit" /\ resultQ # <<>> /\ resultQ' = Tail(resultQ)
      /\ Head(resultQ).ok /\ completed' = completed \cup {Head(resultQ).index}
      /\ reorder' = reorder \cup {Head(resultQ).index}
      /\ UNCHANGED <<poolVars, order, workQ, workOpen, resultOpen, cancelled, workerVars,
                     outcome, scheduled, visited>>
  BY DEF Receive, Acceptable
<1>2. VisitTypeOK /\ OneHome /\ PermitTravels /\ FreshIsIdle /\ VisitsOnce /\ CallerKnows
  BY DEF VisitInv
<1>3. PICK u : u = Head(resultQ).index
  OBVIOUS
<1>4. /\ u \in Units /\ u \in ResultSet(resultQ) /\ u \in GoodSet(resultQ)
      /\ resultQ' \in Seq([index : Units, ok : BOOLEAN]) /\ DistinctResults(resultQ')
      /\ ResultSet(resultQ') = ResultSet(resultQ) \ {u}
      /\ GoodSet(resultQ') = GoodSet(resultQ) \ {u}
  BY <1>1, <1>2, <1>3, ResultTail DEF VisitTypeOK, OneHome
<1>5. u \notin completed /\ u \notin WorkSet(workQ) /\ u < scheduled
      /\ \A w \in Workers : wpc[w] \in Busy => index[w] # u
  BY <1>2, <1>4 DEF OneHome
<1> USE DEF poolVars, workerVars
<1>6. VisitTypeOK'
  BY <1>1, <1>2, <1>3, <1>4 DEF VisitTypeOK, PoolTypeOK
<1>7. OneHome'
  BY <1>1, <1>2, <1>3, <1>4, <1>5 DEF OneHome
<1>8. PermitTravels'
  <2>1. Holders' = Holders /\ Carried' = Carried
    BY <1>1 DEF Holders, Carried, Carries
  <2>2. QED
    BY <1>1, <1>2, <1>3, <1>4, <2>1 DEF PermitTravels
<1>9. FreshIsIdle'
  BY <1>1, <1>2 DEF FreshIsIdle
<1>10. VisitsOnce'
  BY <1>1, <1>2, <1>3, <1>5 DEF VisitsOnce
<1>11. CallerKnows'
  BY <1>1, <1>2 DEF CallerKnows
<1>12. QED
  BY <1>6, <1>7, <1>8, <1>9, <1>10, <1>11 DEF VisitInv

\* The caller stops with an error: a result without a permit, or none.
LEMMA ReceiveFailsKeeps ==
  ASSUME VisitInv, ReceiveFails
  PROVE  VisitInv'
<1>1. /\ mpc = "recv" /\ mpc' = "leave" /\ outcome' = "err"
      /\ \/ resultQ' = resultQ
         \/ resultQ # <<>> /\ resultQ' = Tail(resultQ) /\ ~Acceptable(Head(resultQ))
      /\ UNCHANGED <<poolVars, order, workQ, workOpen, resultOpen, cancelled, workerVars,
                     scheduled, completed, reorder, visited>>
  BY DEF ReceiveFails
<1>2. VisitTypeOK /\ OneHome /\ PermitTravels /\ FreshIsIdle /\ VisitsOnce /\ CallerKnows
  BY DEF VisitInv
<1>3. /\ resultQ' \in Seq([index : Units, ok : BOOLEAN]) /\ DistinctResults(resultQ')
      /\ ResultSet(resultQ') \subseteq ResultSet(resultQ)
      /\ GoodSet(resultQ') = GoodSet(resultQ)
  <2>1. CASE resultQ' = resultQ
    BY <1>2, <2>1 DEF VisitTypeOK, OneHome
  <2>2. CASE resultQ # <<>> /\ resultQ' = Tail(resultQ) /\ ~Acceptable(Head(resultQ))
    <3>1. /\ Head(resultQ).index \in ResultSet(resultQ)
          /\ Tail(resultQ) \in Seq([index : Units, ok : BOOLEAN]) /\ DistinctResults(Tail(resultQ))
          /\ ResultSet(Tail(resultQ)) = ResultSet(resultQ) \ {Head(resultQ).index}
          /\ GoodSet(Tail(resultQ)) = GoodSet(resultQ) \ {Head(resultQ).index}
          /\ Head(resultQ).ok <=> Head(resultQ).index \in GoodSet(resultQ)
      BY <1>2, <2>2, ResultTail DEF VisitTypeOK, OneHome
    <3>2. Head(resultQ).index \notin completed
      BY <1>2, <3>1 DEF OneHome
    <3>3. Head(resultQ).index \notin GoodSet(resultQ)
      BY <2>2, <3>1, <3>2 DEF Acceptable
    <3>4. QED
      BY <2>2, <3>1, <3>3
  <2>3. QED
    BY <1>1, <2>1, <2>2
<1> USE DEF poolVars, workerVars
<1>4. VisitTypeOK'
  BY <1>1, <1>2, <1>3 DEF VisitTypeOK, PoolTypeOK
<1>5. OneHome'
  BY <1>1, <1>2, <1>3 DEF OneHome
<1>6. PermitTravels'
  <2>1. Holders' = Holders /\ Carried' = Carried
    BY <1>1 DEF Holders, Carried, Carries
  <2>2. QED
    BY <1>1, <1>2, <1>3, <2>1 DEF PermitTravels
<1>7. FreshIsIdle' /\ VisitsOnce' /\ CallerKnows'
  BY <1>1, <1>2 DEF FreshIsIdle, VisitsOnce, CallerKnows
<1>8. QED
  BY <1>4, <1>5, <1>6, <1>7 DEF VisitInv

\* An item of the map is given up with its permit: visited, or dropped.
LEMMA GiveUpKeeps ==
  ASSUME VisitInv, NEW u \in reorder, Release(u), reorder' = reorder \ {u},
         UNCHANGED <<order, workQ, resultQ, workerVars, scheduled, completed>>
  PROVE  /\ PoolTypeOK' /\ OneHome' /\ PermitTravels' /\ FreshIsIdle'
         /\ reorder' \subseteq Units /\ reorder' \subseteq completed'
<1>1. VisitTypeOK /\ OneHome /\ PermitTravels /\ FreshIsIdle /\ VisitsOnce /\ PoolTypeOK /\ u \in Units
  BY DEF VisitInv, VisitTypeOK
<1> USE DEF workerVars
<1>2. PoolTypeOK' /\ Holders' = Holders \ {u}
  BY <1>1, ReleaseFacts
<1>3. OneHome' /\ Carried' = Carried
  BY <1>1 DEF OneHome, Carried, Carries
<1>4. u \in completed /\ u \notin GoodSet(resultQ) /\ u \notin Carried
  <2>1. u \in completed /\ u \notin GoodSet(resultQ)
    BY <1>1, ItemsAreUnits DEF VisitsOnce, OneHome
  <2>2. ASSUME NEW w \in Workers, Carries(w) PROVE index[w] # u
    BY <1>1, <2>1, <2>2 DEF OneHome, Carries, Busy
  <2>3. QED
    BY <2>1, <2>2 DEF Carried
<1>5. PermitTravels'
  BY <1>1, <1>2, <1>3, <1>4 DEF PermitTravels
<1>6. FreshIsIdle'
  BY <1>1, ReleaseKeepsFresh
<1>7. QED
  BY <1>1, <1>2, <1>3, <1>5, <1>6 DEF VisitTypeOK, VisitsOnce

\* An item is visited, or its visit fails.
LEMMA VisitKeeps ==
  ASSUME VisitInv, Visit \/ VisitFails
  PROVE  VisitInv'
<1>1. /\ mpc = "visit" /\ UNCHANGED <<order, chanVars, workerVars, scheduled, completed>>
      /\ \/ mpc' = "schedule" /\ outcome' = outcome
         \/ mpc' = "leave" /\ outcome' \in {"err", "panic"}
  BY DEF Visit, VisitFails
<1>2. PICK u \in Visitable : /\ Release(u) /\ reorder' = reorder \ {u}
                             /\ visited' = visited \/ visited' = Append(visited, u)
  BY DEF Visit, VisitFails
<1>3. u \in reorder /\ (order = "Input" => u = Len(visited))
  BY <1>2 DEF Visitable
<1>4. VisitTypeOK /\ VisitsOnce /\ CallerKnows /\ u \in Units /\ visited \in Seq(Units)
  BY <1>3 DEF VisitInv, VisitTypeOK
<1> USE DEF chanVars
<1>5. /\ PoolTypeOK' /\ OneHome' /\ PermitTravels' /\ FreshIsIdle'
      /\ reorder' \subseteq Units /\ reorder' \subseteq completed'
  BY <1>1, <1>2, <1>3, GiveUpKeeps
<1>6. /\ visited' \in Seq(Units) /\ Distinct(visited')
      /\ \A i \in DOMAIN visited' : visited'[i] \in completed \ reorder'
      /\ order = "Input" => \A i \in DOMAIN visited' : visited'[i] = i - 1
  <2>1. CASE visited' = visited
    BY <1>2, <1>4, <2>1 DEF VisitsOnce
  <2>2. CASE visited' = Append(visited, u)
    <3>1. u \notin WorkSet(visited)
      BY <1>3, <1>4 DEF VisitsOnce, WorkSet
    <3>2. visited' \in Seq(Units) /\ Distinct(visited')
      BY <1>4, <2>2, <3>1, WorkAppend DEF VisitsOnce
    <3>3. /\ Len(visited) \in Nat /\ DOMAIN visited = 1..Len(visited)
          /\ DOMAIN visited' = 1..(Len(visited) + 1)
          /\ \A i \in 1..Len(visited) : visited'[i] = visited[i]
          /\ visited'[Len(visited) + 1] = u
      BY <1>4, <2>2
    <3>4. ASSUME NEW i \in DOMAIN visited'
          PROVE  visited'[i] \in completed \ reorder' /\ (order = "Input" => visited'[i] = i - 1)
      <4>1. CASE i \in 1..Len(visited)
        BY <1>2, <1>4, <3>3, <4>1 DEF VisitsOnce
      <4>2. CASE i = Len(visited) + 1
        <5>1. u \in completed \ reorder'
          BY <1>2, <1>3, <1>4 DEF VisitsOnce
        <5>2. Len(visited) = i - 1
          BY <3>3, <4>2
        <5>3. QED
          BY <1>3, <3>3, <4>2, <5>1, <5>2
      <4>3. QED
        BY <3>3, <3>4, <4>1, <4>2
    <3>5. QED
      BY <3>2, <3>4
  <2>3. QED
    BY <1>2, <2>1, <2>2
<1>7. VisitTypeOK'
  BY <1>1, <1>4, <1>5, <1>6 DEF VisitTypeOK, workerVars
<1>8. VisitsOnce'
  BY <1>1, <1>5, <1>6 DEF VisitsOnce
<1>9. CallerKnows'
  BY <1>1, <1>4 DEF CallerKnows
<1>10. QED
  BY <1>5, <1>7, <1>8, <1>9 DEF VisitInv

\* One more item is scheduled.
LEMMA ScheduleKeeps ==
  ASSUME VisitInv, Schedule
  PROVE  VisitInv'
<1>1. /\ mpc = "schedule" /\ mpc' = "visit"
      /\ \/ scheduled < ItemCount /\ workQ' = Append(workQ, scheduled) /\ scheduled' = scheduled + 1
         \/ UNCHANGED <<workQ, scheduled>>
      /\ UNCHANGED <<poolVars, order, workOpen, resultQ, resultOpen, cancelled, workerVars,
                     outcome, completed, reorder, visited>>
  BY DEF Schedule
<1>2. VisitTypeOK /\ OneHome /\ PermitTravels /\ FreshIsIdle /\ VisitsOnce /\ CallerKnows
  BY DEF VisitInv
<1> USE DEF poolVars, workerVars
<1>3. PermitTravels' /\ VisitsOnce' /\ CallerKnows'
  BY <1>1, <1>2 DEF PermitTravels, Holders, Carried, Carries, VisitsOnce, CallerKnows
<1>4. CASE UNCHANGED <<workQ, scheduled>>
  BY <1>1, <1>2, <1>3, <1>4 DEF VisitInv, VisitTypeOK, PoolTypeOK, OneHome, FreshIsIdle
<1>5. CASE scheduled < ItemCount /\ workQ' = Append(workQ, scheduled) /\ scheduled' = scheduled + 1
  <2>1. scheduled \in Units /\ scheduled \in Nat /\ scheduled' \in 0..ItemCount
    BY <1>2, <1>5, VisitAssumption DEF VisitTypeOK
  <2>2. scheduled \notin WorkSet(workQ) \cup ResultSet(resultQ) \cup completed
        /\ \A w \in Workers : wpc[w] \in Busy => index[w] # scheduled
    BY <1>2, <2>1 DEF OneHome
  <2>3. /\ workQ' \in Seq(Units) /\ Distinct(workQ') /\ WorkSet(workQ') = WorkSet(workQ) \cup {scheduled}
    BY <1>2, <1>5, <2>1, <2>2, WorkAppend DEF VisitTypeOK, OneHome
  <2>4. VisitTypeOK'
    BY <1>1, <1>2, <2>1, <2>3 DEF VisitTypeOK, PoolTypeOK
  <2>5. \A x \in Units : /\ x < scheduled => x < scheduled'
                         /\ x >= scheduled' => x >= scheduled
    BY <1>2, <1>5, ItemsAreUnits
  <2>6. scheduled < scheduled'
    BY <1>5, <2>1
  <2>7. OneHome'
    <3>1. \A u \in WorkSet(workQ') \cup ResultSet(resultQ) \cup completed : u < scheduled'
      BY <1>2, <2>3, <2>5, <2>6, ItemsAreUnits DEF OneHome
    <3>2. \A w \in Workers : wpc[w] \in Busy =>
            index[w] < scheduled' /\ index[w] \notin WorkSet(workQ') \cup ResultSet(resultQ) \cup completed
      BY <1>2, <2>2, <2>3, <2>5, ItemsAreUnits DEF OneHome
    <3>3. WorkSet(workQ') \cap (ResultSet(resultQ) \cup completed) = {}
      BY <1>2, <2>2, <2>3 DEF OneHome
    <3>4. QED
      BY <1>1, <1>2, <2>3, <3>1, <3>2, <3>3 DEF OneHome
  <2>8. FreshIsIdle'
    <3>1. ASSUME NEW x \in Units, x \in WorkSet(workQ') \/ x >= scheduled' PROVE at[x] = "idle"
      <4>1. x \in WorkSet(workQ) \/ x >= scheduled
        BY <2>1, <2>3, <2>5, <3>1
      <4>2. QED
        BY <1>2, <4>1 DEF FreshIsIdle
    <3>2. QED
      BY <1>1, <1>2, <3>1 DEF FreshIsIdle
  <2>9. QED
    BY <1>3, <2>4, <2>7, <2>8 DEF VisitInv
<1>6. QED
  BY <1>1, <1>4, <1>5

\* Items visited once are at most all items.
LEMMA VisitsAtMostAll ==
  ASSUME VisitTypeOK, VisitsOnce
  PROVE  Len(visited) \in Nat /\ Len(visited) <= ItemCount
<1>1. /\ visited \in Seq(Units) /\ Len(visited) \in Nat /\ DOMAIN visited = 1..Len(visited)
      /\ visited \in [1..Len(visited) -> Units] /\ ItemCount \in Nat
  BY VisitAssumption DEF VisitTypeOK
<1>2. IsFiniteSet(1..Len(visited)) /\ Cardinality(1..Len(visited)) = Len(visited)
  <2>1. IF 1 <= Len(visited) THEN Len(visited) - 1 + 1 = Len(visited) ELSE Len(visited) = 0
    BY <1>1
  <2>2. QED
    BY <1>1, <2>1, FS_Interval
<1>3. IsFiniteSet(Units) /\ Cardinality(Units) = ItemCount
  <2>1. 0 \in Int /\ ItemCount - 1 \in Int /\ ~(0 > ItemCount - 1) /\ (ItemCount - 1) - 0 + 1 = ItemCount
    BY VisitAssumption
  <2>2. QED
    BY <2>1, FS_Interval, VisitAssumption
<1>4. ASSUME ItemCount < Len(visited) PROVE FALSE
  <2>1. \E i, j \in 1..Len(visited) : i # j /\ visited[i] = visited[j]
    BY <1>1, <1>2, <1>3, <1>4, FS_PigeonHole
  <2>2. QED
    BY <1>1, <2>1 DEF VisitsOnce, Distinct
<1>5. QED
  BY <1>1, <1>4

\* The inner loop ends; after the last visit the map is empty.
LEMMA EndVisitsKeeps ==
  ASSUME VisitInv, EndVisits
  PROVE  VisitInv'
<1>1. /\ mpc = "visit" /\ Visitable = {}
      /\ mpc' = IF Len(visited) < ItemCount THEN "recv" ELSE "drop"
      /\ UNCHANGED <<poolVars, order, chanVars, workerVars, outcome, scheduled, completed, reorder, visited>>
  BY DEF EndVisits
<1>2. VisitTypeOK /\ OneHome /\ PermitTravels /\ FreshIsIdle /\ VisitsOnce /\ CallerKnows
  BY DEF VisitInv
<1>3. ASSUME ~(Len(visited) < ItemCount) PROVE Len(visited) = ItemCount /\ reorder = {}
  <2>1. Len(visited) = ItemCount
    BY <1>2, <1>3, VisitsAtMostAll, VisitAssumption
  <2>2. CASE order = "Completion"
    BY <1>1, <2>1, <2>2 DEF Visitable
  <2>3. CASE order = "Input"
    <3> SUFFICES ASSUME NEW x \in reorder PROVE FALSE
      BY <2>1
    <3>1. x \in Nat /\ x < ItemCount
      BY <1>2, VisitAssumption DEF VisitTypeOK
    <3>2. x + 1 \in DOMAIN visited /\ (x + 1) - 1 = x
      BY <1>2, <2>1, <3>1 DEF VisitTypeOK
    <3>3. visited[x + 1] = x /\ visited[x + 1] \notin reorder
      BY <1>2, <2>3, <3>2 DEF VisitsOnce
    <3>4. QED
      BY <3>3
  <2>4. QED
    BY <1>2, <2>2, <2>3 DEF VisitTypeOK
<1> USE DEF poolVars, chanVars, workerVars
<1>4. VisitTypeOK'
  BY <1>1, <1>2 DEF VisitTypeOK, PoolTypeOK
<1>5. OneHome' /\ FreshIsIdle' /\ VisitsOnce'
  BY <1>1, <1>2 DEF OneHome, FreshIsIdle, VisitsOnce
<1>6. PermitTravels'
  BY <1>1, <1>2 DEF PermitTravels, Holders, Carried, Carries
<1>7. CallerKnows'
  BY <1>1, <1>2, <1>3 DEF CallerKnows
<1>8. QED
  BY <1>4, <1>5, <1>6, <1>7 DEF VisitInv

\* Leaving with an error drops the map, a permit at a time.
LEMMA LeaveKeeps ==
  ASSUME VisitInv, Leave
  PROVE  VisitInv'
<1>1. /\ mpc = "leave"
      /\ UNCHANGED <<order, workQ, workOpen, resultQ, resultOpen, workerVars, outcome, scheduled, completed, visited>>
      /\ \/ mpc' = mpc /\ \E u \in reorder : Release(u) /\ reorder' = reorder \ {u}
         \/ mpc' = "drop" /\ reorder = {} /\ UNCHANGED <<poolVars, reorder>>
  BY DEF Leave
<1>2. VisitTypeOK /\ OneHome /\ PermitTravels /\ FreshIsIdle /\ VisitsOnce /\ CallerKnows
  BY DEF VisitInv
<1>3. CallerKnows'
  BY <1>1, <1>2 DEF CallerKnows
<1>4. CASE mpc' = mpc /\ \E u \in reorder : Release(u) /\ reorder' = reorder \ {u}
  <2>1. PICK u \in reorder : Release(u) /\ reorder' = reorder \ {u}
    BY <1>4
  <2>2. /\ PoolTypeOK' /\ OneHome' /\ PermitTravels' /\ FreshIsIdle'
        /\ reorder' \subseteq Units /\ reorder' \subseteq completed'
    BY <1>1, <2>1, GiveUpKeeps
  <2>3. VisitTypeOK'
    BY <1>1, <1>2, <1>4, <2>2 DEF VisitTypeOK, workerVars
  <2>4. VisitsOnce'
    BY <1>1, <1>2, <2>1, <2>2 DEF VisitsOnce
  <2>5. QED
    BY <1>3, <2>2, <2>3, <2>4 DEF VisitInv
<1>5. CASE mpc' = "drop" /\ reorder = {} /\ UNCHANGED <<poolVars, reorder>>
  <2>1. VisitTypeOK'
    BY <1>1, <1>2, <1>5 DEF VisitTypeOK, PoolTypeOK, poolVars, workerVars
  <2>2. OneHome' /\ FreshIsIdle' /\ VisitsOnce'
    BY <1>1, <1>2, <1>5 DEF OneHome, FreshIsIdle, VisitsOnce, poolVars, workerVars
  <2>3. PermitTravels'
    BY <1>1, <1>2, <1>5 DEF PermitTravels, Holders, Carried, Carries, poolVars, workerVars
  <2>4. QED
    BY <1>3, <2>1, <2>2, <2>3 DEF VisitInv
<1>6. QED
  BY <1>1, <1>4, <1>5

\* The channel ends are dropped, and the scope waits for the workers.
LEMMA EndKeeps ==
  ASSUME VisitInv,
         \/ DropWorkSender \/ DropReceiver \/ Join
         \/ UNCHANGED vars
  PROVE  VisitInv'
<1>1. /\ UNCHANGED <<poolVars, order, workQ, resultQ, workerVars, outcome, scheduled, completed, reorder, visited>>
      /\ \/ mpc' = mpc
         \/ /\ mpc = "drop" /\ mpc' = "returned" /\ resultQ = <<>>
            /\ \A w \in Workers : wpc[w] = "exit"
  BY DEF DropWorkSender, DropReceiver, Join, vars, mainVars, chanVars
<1>2. VisitTypeOK /\ OneHome /\ PermitTravels /\ FreshIsIdle /\ VisitsOnce /\ CallerKnows
  BY DEF VisitInv
<1> USE DEF poolVars, workerVars
<1>3. VisitTypeOK'
  BY <1>1, <1>2 DEF VisitTypeOK, PoolTypeOK
<1>4. OneHome' /\ FreshIsIdle' /\ VisitsOnce'
  BY <1>1, <1>2 DEF OneHome, FreshIsIdle, VisitsOnce
<1>5. PermitTravels'
  BY <1>1, <1>2 DEF PermitTravels, Holders, Carried, Carries
<1>6. CallerKnows'
  BY <1>1, <1>2 DEF CallerKnows
<1>7. QED
  BY <1>3, <1>4, <1>5, <1>6 DEF VisitInv

\* The buffered results go with their receiver, permits included.
LEMMA DiscardResultsKeeps ==
  ASSUME VisitInv, DiscardResults
  PROVE  VisitInv'
<1>1. /\ resultQ # <<>> /\ resultQ' = Tail(resultQ)
      /\ UNCHANGED <<order, workQ, workOpen, resultOpen, cancelled, workerVars, mainVars>>
      /\ \/ Head(resultQ).ok /\ Release(Head(resultQ).index)
         \/ ~Head(resultQ).ok /\ UNCHANGED poolVars
  BY DEF DiscardResults, DropResult
<1>2. VisitTypeOK /\ OneHome /\ PermitTravels /\ FreshIsIdle /\ VisitsOnce /\ CallerKnows /\ PoolTypeOK
  BY DEF VisitInv, VisitTypeOK
<1>3. PICK u : u = Head(resultQ).index
  OBVIOUS
<1>4. /\ u \in Units /\ u \in ResultSet(resultQ) /\ (Head(resultQ).ok <=> u \in GoodSet(resultQ))
      /\ resultQ' \in Seq([index : Units, ok : BOOLEAN]) /\ DistinctResults(resultQ')
      /\ ResultSet(resultQ') = ResultSet(resultQ) \ {u}
      /\ GoodSet(resultQ') = GoodSet(resultQ) \ {u}
  BY <1>1, <1>2, <1>3, ResultTail DEF VisitTypeOK, OneHome
<1>5. PoolTypeOK'
  BY <1>1, <1>2, <1>3, <1>4, ReleaseFacts DEF poolVars, PoolTypeOK
<1> USE DEF workerVars, mainVars
<1>6. VisitTypeOK'
  BY <1>1, <1>2, <1>4, <1>5 DEF VisitTypeOK
<1>7. OneHome'
  BY <1>1, <1>2, <1>4 DEF OneHome
<1>8. VisitsOnce' /\ CallerKnows' /\ Carried' = Carried
  BY <1>1, <1>2 DEF VisitsOnce, CallerKnows, Carried, Carries
<1>9. CASE Head(resultQ).ok /\ Release(Head(resultQ).index)
  <2>1. Holders' = Holders \ {u}
    BY <1>2, <1>3, <1>4, <1>9, ReleaseFacts
  <2>2. u \notin reorder /\ u \notin Carried
    <3>1. u \notin completed /\ \A w \in Workers : wpc[w] \in Busy => index[w] # u
      BY <1>2, <1>4 DEF OneHome
    <3>2. QED
      BY <1>2, <3>1 DEF VisitsOnce, Carried, Carries, Busy
  <2>3. PermitTravels'
    BY <1>1, <1>2, <1>4, <1>8, <2>1, <2>2 DEF PermitTravels
  <2>4. FreshIsIdle'
    BY <1>1, <1>3, <1>4, <1>9, ReleaseKeepsFresh
  <2>5. QED
    BY <1>6, <1>7, <1>8, <2>3, <2>4 DEF VisitInv
<1>10. CASE ~Head(resultQ).ok /\ UNCHANGED poolVars
  <2>1. Holders' = Holders
    BY <1>10 DEF Holders, poolVars
  <2>2. PermitTravels'
    BY <1>1, <1>2, <1>4, <1>8, <1>10, <2>1 DEF PermitTravels
  <2>3. FreshIsIdle'
    BY <1>1, <1>2, <1>10 DEF FreshIsIdle, poolVars
  <2>4. QED
    BY <1>6, <1>7, <1>8, <2>2, <2>3 DEF VisitInv
<1>11. QED
  BY <1>1, <1>9, <1>10

\* A sleeper at the gate wakes unasked.
LEMMA SpuriousKeeps ==
  ASSUME VisitInv, NEW u \in Units, SpuriousWake(u),
         UNCHANGED <<order, chanVars, workerVars, mainVars>>
  PROVE  VisitInv'
<1>1. VisitTypeOK /\ OneHome /\ PermitTravels /\ FreshIsIdle /\ VisitsOnce /\ CallerKnows /\ PoolTypeOK
  BY DEF VisitInv, VisitTypeOK
<1>2. /\ PoolTypeOK' /\ at[u] = "asleep" /\ at'[u] = "woken"
      /\ \A v \in Units : v # u => at'[v] = at[v]
  BY <1>1 DEF SpuriousWake, PoolTypeOK, Places
<1> USE DEF chanVars, workerVars, mainVars
<1>3. VisitTypeOK'
  BY <1>1, <1>2 DEF VisitTypeOK
<1>4. OneHome' /\ VisitsOnce' /\ CallerKnows'
  BY <1>1 DEF OneHome, VisitsOnce, CallerKnows
<1>5. PermitTravels'
  <2>1. Holders' = Holders
    BY <1>2 DEF Holders
  <2>2. Carried' = Carried
    BY DEF Carried, Carries
  <2>3. QED
    BY <1>1, <2>1, <2>2 DEF PermitTravels
<1>6. FreshIsIdle'
  <2>1. \A v \in Workers : index[v] \in Units
    BY <1>1, ItemsAreUnits
  <2>2. QED
    BY <1>1, <1>2, <2>1 DEF FreshIsIdle
<1>7. QED
  BY <1>3, <1>4, <1>5, <1>6 DEF VisitInv

-----------------------------------------------------------------------------
(* The theorems. *)

\* The window is queued, and nothing has happened yet.
LEMMA VisitInvInit ==
  Init => VisitInv
<1> SUFFICES ASSUME Init PROVE VisitInv
  OBVIOUS
<1> USE DEF Init
<1>1. Window \in Nat /\ Window <= ItemCount /\ ItemCount \in Nat /\ Units = 0..(ItemCount - 1)
  BY VisitAssumption, FS_CardinalityType
<1>2. workQ \in Seq(Units)
  BY <1>1
<1>3. DOMAIN workQ = 1..Window /\ \A i \in 1..Window : workQ[i] = i - 1
  BY <1>1
<1>4. Distinct(workQ) /\ \A u \in WorkSet(workQ) : u < scheduled
  BY <1>1, <1>3 DEF Distinct, WorkSet
<1>5. ResultSet(resultQ) = {} /\ GoodSet(resultQ) = {} /\ DistinctResults(resultQ)
      /\ resultQ \in Seq([index : Units, ok : BOOLEAN]) /\ visited \in Seq(Units) /\ DOMAIN visited = {}
  BY DEF ResultSet, GoodSet, DistinctResults
<1>6. PoolTypeOK /\ Holders = {}
  BY DEF PoolInit, PoolTypeOK, Places, Holders
<1>7. /\ wpc \in [Workers -> Busy \cup {"top", "recv", "exit"}] /\ index \in [Workers -> Units]
      /\ ok \in [Workers -> BOOLEAN] /\ scheduled \in 0..ItemCount
  BY <1>1, VisitAssumption
<1>8. VisitTypeOK
  BY <1>2, <1>5, <1>6, <1>7 DEF VisitTypeOK
<1>9. \A w \in Workers : wpc[w] = "top" /\ ~Carries(w) /\ wpc[w] \notin Busy
  BY DEF Carries, Busy
<1>10. OneHome
  BY <1>4, <1>5, <1>9 DEF OneHome
<1>11. PermitTravels
  BY <1>5, <1>6, <1>9 DEF PermitTravels, Carried
<1>12. FreshIsIdle
  BY <1>9 DEF PoolInit, FreshIsIdle, WaitsForTurn
<1>13. VisitsOnce /\ CallerKnows
  BY <1>5 DEF VisitsOnce, CallerKnows, Distinct
<1>14. QED
  BY <1>8, <1>10, <1>11, <1>12, <1>13 DEF VisitInv

\* Every step of the workers and of the caller keeps the invariant.
LEMMA VisitInvStep ==
  VisitInv /\ [Next]_vars => VisitInv'
<1> SUFFICES ASSUME VisitInv, [Next]_vars PROVE VisitInv'
  OBVIOUS
<1>1. ASSUME NEW w \in Workers, WorkerStep(w) PROVE VisitInv'
  BY <1>1, WorkerStrolls, RecvKeeps, WaitKeeps, TakeKeeps, WorkKeeps, SendKeeps, SendFailsKeeps DEF WorkerStep
<1>2. CASE MainStep
  BY <1>2, ReceiveKeeps, ReceiveFailsKeeps, VisitKeeps, ScheduleKeeps, EndVisitsKeeps, LeaveKeeps,
     EndKeeps, DiscardResultsKeeps DEF MainStep
<1>3. CASE SpuriousWakeup
  <2>1. ASSUME NEW u \in Units, SpuriousWake(u), UNCHANGED <<order, chanVars, workerVars, mainVars>>
        PROVE  VisitInv'
    BY <2>1, SpuriousKeeps
  <2>2. ASSUME NEW w \in Workers, WorkerGoes(w, "turnWait", "turn"),
               UNCHANGED <<poolVars, order, chanVars, index, ok, admission, mainVars>>
        PROVE  VisitInv'
    BY <2>2, WorkerStrolls
  <2>3. QED
    BY <1>3, <2>1, <2>2 DEF SpuriousWakeup
<1>4. CASE UNCHANGED vars
  BY <1>4, EndKeeps
<1>5. QED
  BY <1>1, <1>2, <1>3, <1>4 DEF Next

\* The inductive invariant, in either order of visits and whoever fails.
THEOREM VisitInvariance == VisitSpec => []VisitInv
BY VisitInvInit, VisitInvStep, PTL DEF VisitSpec

\* Each item is visited at most once, in input order if that was asked for,
\* and a call that returns Ok has visited them all.
THEOREM VisitsAreExact == VisitSpec => []VisitsExact
<1>1. VisitInv => VisitsExact
  BY DEF VisitInv, VisitsOnce, CallerKnows, VisitsExact, Distinct
<1>2. QED
  BY <1>1, VisitInvariance, PTL

\* The visit is a client of the memory gate: each of its steps is one of the
\* gate's, or leaves the gate alone.
THEOREM VisitUsesGate == VisitSpec => PoolSafetySpec
<1>1. Init => PoolInit
  BY DEF Init
<1>2. VisitInv /\ [Next]_vars => [PoolNext]_poolVars
  <2> SUFFICES ASSUME VisitInv, [Next]_vars PROVE PoolNext \/ UNCHANGED poolVars
    OBVIOUS
  <2>1. VisitTypeOK /\ OneHome /\ reorder \subseteq Units /\ \A w \in Workers : index[w] \in Units
    BY ItemsAreUnits DEF VisitInv
  <2>2. ASSUME NEW u \in Units, Release(u) PROVE PoolNext
    BY <2>2 DEF PoolNext
  <2>3. ASSUME NEW w \in Workers, WorkerStep(w) PROVE PoolNext \/ UNCHANGED poolVars
    <3>1. CASE TakePermit(w) \/ WaitForPermit(w)
      BY <2>1, <3>1 DEF TakePermit, WaitForPermit, PoolNext, Acquire, Retry
    <3>2. CASE Work(w) \/ SendFails(w)
      BY <2>1, <2>2, <3>2 DEF Work, SendFails, DropResult
    <3>3. CASE Top(w) \/ Recheck(w) \/ TakeTurn(w) \/ Recv(w) \/ Send(w)
      BY <3>3 DEF Top, Recheck, TakeTurn, Recv, Send
    <3>4. QED
      BY <2>3, <3>1, <3>2, <3>3 DEF WorkerStep
  <2>4. CASE MainStep
    <3>1. CASE Visit \/ VisitFails
      BY <2>1, <2>2, <3>1 DEF Visit, VisitFails, Visitable
    <3>2. CASE Leave
      BY <2>1, <2>2, <3>2 DEF Leave
    <3>3. CASE DiscardResults
      <4>1. Head(resultQ).index \in Units
        BY <2>1, <3>3, ResultTail DEF VisitTypeOK, OneHome, DiscardResults
      <4>2. QED
        BY <2>2, <3>3, <4>1 DEF DiscardResults, DropResult
    <3>4. CASE \/ Receive \/ ReceiveFails \/ Schedule \/ EndVisits
               \/ DropWorkSender \/ DropReceiver \/ Join
      BY <3>4 DEF Receive, ReceiveFails, Schedule, EndVisits, DropWorkSender, DropReceiver, Join
    <3>5. QED
      BY <2>4, <3>1, <3>2, <3>3, <3>4 DEF MainStep
  <2>5. CASE SpuriousWakeup
    BY <2>5 DEF SpuriousWakeup, PoolNext
  <2>6. CASE UNCHANGED vars
    BY <2>6 DEF vars
  <2>7. QED
    BY <2>3, <2>4, <2>5, <2>6 DEF Next
<1>3. QED
  BY <1>1, <1>2, VisitInvariance, PTL DEF VisitSpec, PoolSafetySpec

\* The gate's account is exact while items travel through the visit.
THEOREM VisitAccounting == VisitSpec => []UsedIsLivePermits
BY VisitUsesGate, PoolAccounting, PTL

\* The items under way never exceed the envelope.
THEOREM VisitWithinCapacity == VisitSpec => []WithinCapacity
BY VisitUsesGate, PoolWithinCapacity, PTL

\* A worker asleep at the gate always has a live permit ahead of it.
THEOREM VisitSleeperHasWaker == VisitSpec => []SleeperHasWaker
BY VisitUsesGate, PoolSleeperHasWaker, PTL

\* When the call has returned, no permit is live and all memory is back.
THEOREM VisitReturnsPermits == VisitSpec => []PermitsReturned
<1>1. VisitInv /\ UsedIsLivePermits => PermitsReturned
  <2> SUFFICES ASSUME VisitInv, UsedIsLivePermits, mpc = "returned" PROVE used = 0
    BY DEF PermitsReturned
  <2>1. reorder = {} /\ resultQ = <<>> /\ \A w \in Workers : wpc[w] = "exit"
    BY DEF VisitInv, CallerKnows
  <2>2. GoodSet(resultQ) = {} /\ Carried = {}
    BY <2>1 DEF GoodSet, Carried, Carries
  <2>3. Holders = {}
    BY <2>1, <2>2 DEF VisitInv, PermitTravels
  <2>4. QED
    BY <2>3, WeightOfEmpty DEF UsedIsLivePermits
<1>2. QED
  BY <1>1, VisitInvariance, VisitAccounting, PTL
=============================================================================
