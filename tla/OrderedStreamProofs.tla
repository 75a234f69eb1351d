------------------------ MODULE OrderedStreamProofs ------------------------
(* stream_decl_indexes_in_order publishes in canonical order, keeps within *)
(* its window and its memory gate, and has given all memory back when it   *)
(* is done, for any files, workers, look-ahead and panics.                 *)
EXTENDS OrderedStream, PermitPoolProofs

Busy == {"admit", "admitWait", "permit", "lower", "send"}
Carrying == {"lower", "send"}

\* A file on its way lies between the last visit and the last scheduling.
UnderWay(u) == next <= u /\ u < scheduled

\* A file is in the work channel, with one worker, in the result channel or in
\* the reorder map, in one of these only and once, from the time it is
\* scheduled until it is visited.
OneHome ==
  /\ Distinct(workQ) /\ DistinctResults(resultQ)
  /\ \A v, w \in Workers : wpc[v] \in Busy /\ wpc[w] \in Busy /\ index[v] = index[w] => v = w
  /\ WorkSet(workQ) \cap (ResultSet(resultQ) \cup reorder) = {}
  /\ ResultSet(resultQ) \cap reorder = {}
  /\ \A w \in Workers : wpc[w] \in Busy =>
       index[w] \notin WorkSet(workQ) \cup ResultSet(resultQ) \cup reorder
  /\ \A u \in WorkSet(workQ) \cup ResultSet(resultQ) \cup reorder : UnderWay(u)
  /\ \A w \in Workers : wpc[w] \in Busy => UnderWay(index[w])

\* The worker at the gate is alone there and it is its file's turn.
TurnIsHeld ==
  \A w \in Workers : wpc[w] = "permit" =>
    /\ admission = index[w]
    /\ \A v \in Workers : wpc[v] = "permit" => v = w

Carried == {index[w] : w \in {v \in Workers : wpc[v] \in Carrying}}

\* The file whose visit has ended and whose permit is about to be dropped.
Visiting == IF mpc = "drop" THEN {next - 1} ELSE {}

\* A permit travels with its file, from the gate to the end of its visit.
PermitTravels == Holders = Carried \cup ResultSet(resultQ) \cup reorder \cup Visiting

\* How far the coordinator is: the window moves with the visits.
CoordinatorKnows ==
  /\ scheduled <= next + Window
  /\ next <= FileCount
  /\ mpc = "serial" => scheduled = 0
  /\ mpc = "seed" => next = 0
  /\ mpc = "drop" => next > 0
  /\ mpc \in {"join", "done"} => next = FileCount

\* The inductive invariant of the pass.
StreamInv ==
  /\ StreamTypeOK
  /\ OneHome
  /\ TurnIsHeld
  /\ PermitTravels
  /\ CanonicalPublication
  /\ CoordinatorKnows

-----------------------------------------------------------------------------
\* What the channels and the workers hold are files; the window is a number.
LEMMA FilesAreUnits ==
  ASSUME StreamTypeOK
  PROVE  /\ WorkSet(workQ) \subseteq Units /\ ResultSet(resultQ) \subseteq Units
         /\ reorder \subseteq Units /\ \A v \in Workers : index[v] \in Units
         /\ next \in Nat /\ scheduled \in Nat /\ FileCount \in Nat /\ Window \in Nat
         /\ \A u \in Units : u \in Nat /\ u < FileCount
         /\ \A u \in Nat : u < FileCount => u \in Units
<1>1. workQ \in Seq(Units) /\ resultQ \in Seq([index : Units, ok : BOOLEAN])
  BY DEF StreamTypeOK
<1>2. \A i \in DOMAIN workQ : workQ[i] \in Units
  BY <1>1
<1>3. \A i \in DOMAIN resultQ : resultQ[i] \in [index : Units, ok : BOOLEAN]
  <2> DEFINE R == [index : Units, ok : BOOLEAN]
  <2>1. resultQ \in Seq(R)
    BY <1>1
  <2> HIDE DEF R
  <2>2. \A i \in DOMAIN resultQ : resultQ[i] \in R
    BY <2>1
  <2>3. QED
    BY <2>2 DEF R
<1>4. WorkSet(workQ) \subseteq Units /\ ResultSet(resultQ) \subseteq Units
  BY <1>2, <1>3 DEF WorkSet, ResultSet
<1>5. WorkerCount \in Nat /\ LookAhead \in Nat /\ FileCount \in Nat
  BY StreamAssumption, FS_CardinalityType DEF WorkerCount
<1>6. LookAhead * WorkerCount \in Nat
  BY <1>5
<1>7. Window \in Nat
  BY <1>5, <1>6 DEF Window, AtMost
<1>8. QED
  BY <1>4, <1>5, <1>7, StreamAssumption DEF StreamTypeOK, next

-----------------------------------------------------------------------------
(* Workers. *)

\* The steps of a worker that changes neither its file nor its permit.
Strolls(from, to) ==
  \/ from = to
  \/ from = "recv" /\ to = "exit"
  \/ from \in {"admit", "admitWait"} /\ to \in {"admit", "admitWait"}
  \/ from = "lower" /\ to = "send"

\* Such steps keep the invariant.
LEMMA StrollKeeps ==
  ASSUME StreamInv, UNCHANGED <<poolVars, active, chanVars, index, admission, mainVars>>,
         wpc' \in [Workers -> WorkerPlaces], lowered' \in [Workers -> BOOLEAN],
         \A v \in Workers : Strolls(wpc[v], wpc'[v])
  PROVE  StreamInv'
<1> USE DEF poolVars, chanVars, mainVars
<1>1. StreamTypeOK'
  BY DEF StreamInv, StreamTypeOK, PoolTypeOK
<1>2. \A v \in Workers : /\ wpc'[v] \in Busy <=> wpc[v] \in Busy
                         /\ wpc'[v] \in Carrying <=> wpc[v] \in Carrying
                         /\ wpc'[v] = "permit" <=> wpc[v] = "permit"
  BY DEF Strolls, Busy, Carrying
<1>3. OneHome' /\ TurnIsHeld'
  BY <1>2 DEF StreamInv, OneHome, TurnIsHeld, UnderWay, next
<1>4. PermitTravels'
  <2>1. Carried' = Carried
    BY <1>2 DEF Carried
  <2>2. QED
    BY <2>1 DEF StreamInv, PermitTravels, Visiting, Holders, next
<1>5. CanonicalPublication' /\ CoordinatorKnows'
  BY DEF StreamInv, CanonicalPublication, CoordinatorKnows, next
<1>6. QED
  BY <1>1, <1>3, <1>4, <1>5 DEF StreamInv

\* A worker's way to the gate's door, its lowering and its end.
LEMMA WorkerStrolls ==
  ASSUME StreamInv, NEW w \in Workers,
         \/ workQ = <<>> /\ Recv(w)
         \/ CheckAdmission(w) /\ admission # index[w]
         \/ Lower(w)
  PROVE  StreamInv'
<1>1. wpc \in [Workers -> WorkerPlaces] /\ lowered \in [Workers -> BOOLEAN]
  BY DEF StreamInv, StreamTypeOK
<1>2. CASE workQ = <<>> /\ Recv(w)
  <2>1. wpc[w] = "recv" /\ wpc' = [wpc EXCEPT ![w] = "exit"]
        /\ UNCHANGED <<poolVars, active, chanVars, index, lowered, admission, mainVars>>
    BY <1>2 DEF Recv, WorkerGoes, chanVars
  <2>2. QED
    BY <1>1, <2>1, StrollKeeps DEF Strolls, WorkerPlaces
<1>3. CASE CheckAdmission(w) /\ admission # index[w]
  <2>1. wpc[w] = "admit" /\ wpc' = [wpc EXCEPT ![w] = "admitWait"]
        /\ UNCHANGED <<poolVars, active, chanVars, index, lowered, admission, mainVars>>
    BY <1>3 DEF CheckAdmission, WorkerGoes
  <2>2. QED
    BY <1>1, <2>1, StrollKeeps DEF Strolls, WorkerPlaces
<1>4. CASE Lower(w)
  <2>1. wpc[w] = "lower" /\ wpc' = [wpc EXCEPT ![w] = "send"]
        /\ UNCHANGED <<poolVars, active, chanVars, index, admission, mainVars>>
    BY <1>4 DEF Lower, WorkerGoes
  <2>2. PICK ok \in {TRUE} \cup {index[w] \notin MayPanic} : lowered' = [lowered EXCEPT ![w] = ok]
    BY <1>4 DEF Lower
  <2>3. lowered' \in [Workers -> BOOLEAN]
    BY <1>1, <2>2
  <2>4. QED
    BY <1>1, <2>1, <2>3, StrollKeeps DEF Strolls, WorkerPlaces
<1>5. QED
  BY <1>2, <1>3, <1>4

\* A worker takes the oldest index.
LEMMA RecvKeeps ==
  ASSUME StreamInv, NEW w \in Workers, workQ # <<>>, Recv(w)
  PROVE  StreamInv'
<1>1. /\ wpc[w] = "recv" /\ wpc' = [wpc EXCEPT ![w] = "admit"]
      /\ index' = [index EXCEPT ![w] = Head(workQ)] /\ workQ' = Tail(workQ)
      /\ UNCHANGED <<poolVars, active, workOpen, resultQ, lowered, admission, mainVars>>
  BY DEF Recv, WorkerGoes
<1>2. /\ StreamTypeOK /\ OneHome /\ TurnIsHeld /\ PermitTravels
      /\ CanonicalPublication /\ CoordinatorKnows
  BY DEF StreamInv
<1>3. /\ workQ \in Seq(Units) /\ wpc \in [Workers -> WorkerPlaces] /\ index \in [Workers -> Units]
      /\ Distinct(workQ)
  BY <1>2 DEF StreamTypeOK, OneHome
<1>4. /\ Head(workQ) \in Units /\ Head(workQ) \in WorkSet(workQ)
      /\ workQ' \in Seq(Units) /\ Distinct(workQ')
      /\ WorkSet(workQ') = WorkSet(workQ) \ {Head(workQ)}
  BY <1>1, <1>3, WorkTail
<1>5. /\ wpc' \in [Workers -> WorkerPlaces] /\ index' \in [Workers -> Units]
      /\ wpc'[w] = "admit" /\ index'[w] = Head(workQ)
      /\ \A v \in Workers : v # w => wpc'[v] = wpc[v] /\ index'[v] = index[v]
  BY <1>1, <1>3, <1>4 DEF WorkerPlaces
<1> USE DEF poolVars, mainVars
<1>6. StreamTypeOK'
  BY <1>1, <1>2, <1>4, <1>5 DEF StreamTypeOK, PoolTypeOK
<1>7. OneHome'
  <2>1. \A u : UnderWay(u)' <=> UnderWay(u)
    BY <1>1 DEF UnderWay, next
  <2>2. ASSUME NEW v \in Workers, wpc'[v] \in Busy
        PROVE  /\ index'[v] \notin WorkSet(workQ') \cup ResultSet(resultQ') \cup reorder'
               /\ UnderWay(index'[v])
    BY <1>1, <1>2, <1>4, <1>5, <2>2 DEF OneHome
  <2>3. ASSUME NEW v \in Workers, NEW x \in Workers, wpc'[v] \in Busy, wpc'[x] \in Busy, index'[v] = index'[x]
        PROVE  v = x
    BY <1>1, <1>2, <1>4, <1>5, <2>3 DEF OneHome, Busy
  <2>4. \A v \in Workers : wpc'[v] \in Busy => UnderWay(index[v])'
    BY <1>1, <2>2 DEF UnderWay, next
  <2>5. \A u \in WorkSet(workQ') \cup ResultSet(resultQ') \cup reorder' : UnderWay(u)'
    BY <1>1, <1>2, <1>4, <2>1 DEF OneHome
  <2>6. QED
    BY <1>1, <1>2, <1>4, <2>2, <2>3, <2>4, <2>5 DEF OneHome
<1>8. TurnIsHeld'
  BY <1>1, <1>2, <1>5 DEF TurnIsHeld
<1>9. PermitTravels'
  <2>1. Carried' = Carried
    BY <1>1, <1>5 DEF Carried, Carrying
  <2>2. QED
    BY <1>1, <1>2, <2>1 DEF PermitTravels, Visiting, Holders, next
<1>10. CanonicalPublication' /\ CoordinatorKnows'
  BY <1>1, <1>2 DEF CanonicalPublication, CoordinatorKnows, next
<1>11. QED
  BY <1>6, <1>7, <1>8, <1>9, <1>10 DEF StreamInv

\* A worker whose turn it is goes to the gate, the admission mutex in hand.
LEMMA AdmissionKeeps ==
  ASSUME StreamInv, NEW w \in Workers, CheckAdmission(w), admission = index[w]
  PROVE  StreamInv'
<1>1. /\ wpc[w] = "admit" /\ wpc' = [wpc EXCEPT ![w] = "permit"]
      /\ \A v \in Workers : wpc[v] # "permit"
      /\ UNCHANGED <<poolVars, active, chanVars, index, lowered, admission, mainVars>>
  BY DEF CheckAdmission, WorkerGoes, AdmissionFree
<1>2. /\ StreamTypeOK /\ OneHome /\ TurnIsHeld /\ PermitTravels
      /\ CanonicalPublication /\ CoordinatorKnows
  BY DEF StreamInv
<1>3. /\ wpc' \in [Workers -> WorkerPlaces] /\ wpc'[w] = "permit"
      /\ \A v \in Workers : v # w => wpc'[v] = wpc[v]
  BY <1>1, <1>2 DEF StreamTypeOK, WorkerPlaces
<1>4. \A v \in Workers : /\ wpc'[v] \in Busy <=> wpc[v] \in Busy
                         /\ wpc'[v] \in Carrying <=> wpc[v] \in Carrying
  BY <1>1, <1>3 DEF Busy, Carrying
<1> USE DEF poolVars, chanVars, mainVars
<1>5. StreamTypeOK'
  BY <1>1, <1>2, <1>3 DEF StreamTypeOK, PoolTypeOK
<1>6. OneHome'
  BY <1>1, <1>2, <1>4 DEF OneHome, UnderWay, next
<1>7. TurnIsHeld'
  BY <1>1, <1>3 DEF TurnIsHeld
<1>8. PermitTravels'
  <2>1. Carried' = Carried
    BY <1>1, <1>4 DEF Carried
  <2>2. QED
    BY <1>1, <1>2, <2>1 DEF PermitTravels, Visiting, Holders, next
<1>9. CanonicalPublication' /\ CoordinatorKnows'
  BY <1>1, <1>2 DEF CanonicalPublication, CoordinatorKnows, next
<1>10. QED
  BY <1>5, <1>6, <1>7, <1>8, <1>9 DEF StreamInv

\* The gate refuses: the worker sleeps there, the mutex still in hand.
LEMMA WaitKeeps ==
  ASSUME StreamInv, NEW w \in Workers, WaitForPermit(w)
  PROVE  StreamInv'
<1>1. /\ wpc[w] = "permit" /\ at[index[w]] \in {"idle", "woken"} /\ Sleep(index[w])
      /\ UNCHANGED <<active, chanVars, workerVars, mainVars>>
  BY DEF WaitForPermit
<1>2. /\ StreamTypeOK /\ OneHome /\ TurnIsHeld /\ PermitTravels
      /\ CanonicalPublication /\ CoordinatorKnows
  BY DEF StreamInv
<1>3. PICK u : u = index[w]
  OBVIOUS
<1>4. u \in Units /\ PoolTypeOK /\ u \notin Holders
  BY <1>1, <1>2, <1>3 DEF StreamTypeOK, Holders
<1>5. PoolTypeOK' /\ Holders' = Holders
  BY <1>1, <1>3, <1>4, GateFacts
<1> USE DEF chanVars, workerVars, mainVars
<1>6. StreamTypeOK'
  BY <1>1, <1>2, <1>5 DEF StreamTypeOK
<1>7. OneHome' /\ TurnIsHeld' /\ CanonicalPublication' /\ CoordinatorKnows'
  BY <1>1, <1>2 DEF OneHome, TurnIsHeld, UnderWay, CanonicalPublication, CoordinatorKnows, next
<1>8. PermitTravels'
  BY <1>1, <1>2, <1>5 DEF PermitTravels, Carried, Visiting, next
<1>9. QED
  BY <1>6, <1>7, <1>8 DEF StreamInv

\* The permit is granted, the turn passes on and all who wait look again.
LEMMA TakeKeeps ==
  ASSUME StreamInv, NEW w \in Workers, TakePermit(w)
  PROVE  StreamInv'
<1>1. /\ wpc[w] = "permit" /\ Admit(index[w]) /\ admission' = admission + 1
      /\ wpc' = [v \in Workers |->
           IF v = w THEN "lower" ELSE IF wpc[v] = "admitWait" THEN "admit" ELSE wpc[v]]
      /\ UNCHANGED <<active, chanVars, index, lowered, mainVars>>
  BY DEF TakePermit
<1>2. /\ StreamTypeOK /\ OneHome /\ TurnIsHeld /\ PermitTravels
      /\ CanonicalPublication /\ CoordinatorKnows
  BY DEF StreamInv
<1>3. PICK u : u = index[w]
  OBVIOUS
<1>4. u \in Units /\ PoolTypeOK
  BY <1>2, <1>3 DEF StreamTypeOK
<1>5. PoolTypeOK' /\ Holders' = Holders \cup {u}
  BY <1>1, <1>3, <1>4, GateFacts
<1>6. /\ wpc' \in [Workers -> WorkerPlaces] /\ wpc'[w] = "lower"
      /\ \A v \in Workers : v # w => wpc'[v] = wpc[v] \/ (wpc[v] = "admitWait" /\ wpc'[v] = "admit")
  BY <1>1, <1>2 DEF StreamTypeOK, WorkerPlaces
<1>7. admission' \in 0..FileCount
  <2>1. admission = u /\ u \in Nat /\ u < FileCount /\ FileCount \in Nat
    BY <1>1, <1>2, <1>3, <1>4, FilesAreUnits DEF TurnIsHeld
  <2>2. QED
    BY <1>1, <2>1
<1> USE DEF chanVars, mainVars
<1>8. StreamTypeOK'
  BY <1>1, <1>2, <1>5, <1>6, <1>7 DEF StreamTypeOK
<1>9. \A v \in Workers : /\ wpc'[v] \in Busy <=> wpc[v] \in Busy
                         /\ wpc'[v] \in Carrying <=> wpc[v] \in Carrying \/ v = w
                         /\ wpc'[v] = "permit" => wpc[v] = "permit" /\ v # w
  BY <1>1, <1>6 DEF Busy, Carrying
<1>10. OneHome'
  BY <1>1, <1>2, <1>9 DEF OneHome, UnderWay, next
<1>11. TurnIsHeld'
  BY <1>1, <1>2, <1>9 DEF TurnIsHeld
<1>12. PermitTravels'
  <2>1. Carried' = Carried \cup {u}
    BY <1>1, <1>3, <1>9 DEF Carried
  <2>2. QED
    BY <1>1, <1>2, <1>5, <2>1 DEF PermitTravels, Visiting, next
<1>13. CanonicalPublication' /\ CoordinatorKnows'
  BY <1>1, <1>2 DEF CanonicalPublication, CoordinatorKnows, next
<1>14. QED
  BY <1>8, <1>10, <1>11, <1>12, <1>13 DEF StreamInv

\* A result, a panic's included, leaves with its permit.
LEMMA SendKeeps ==
  ASSUME StreamInv, NEW w \in Workers, Send(w)
  PROVE  StreamInv'
<1>1. /\ wpc[w] = "send" /\ wpc' = [wpc EXCEPT ![w] = "recv"]
      /\ resultQ' = Append(resultQ, [index |-> index[w], ok |-> lowered[w]])
      /\ UNCHANGED <<poolVars, active, workQ, workOpen, index, lowered, admission, mainVars>>
  BY DEF Send, WorkerGoes
<1>2. /\ StreamTypeOK /\ OneHome /\ TurnIsHeld /\ PermitTravels
      /\ CanonicalPublication /\ CoordinatorKnows
  BY DEF StreamInv
<1>3. PICK u : u = index[w]
  OBVIOUS
<1>4. /\ u \in Units /\ lowered[w] \in BOOLEAN /\ wpc[w] \in Busy
      /\ resultQ \in Seq([index : Units, ok : BOOLEAN])
  BY <1>1, <1>2, <1>3 DEF StreamTypeOK, Busy
<1>5. DistinctResults(resultQ) /\ u \notin WorkSet(workQ) \cup ResultSet(resultQ) \cup reorder /\ UnderWay(u)
  BY <1>2, <1>3, <1>4 DEF OneHome
<1>6. /\ resultQ' \in Seq([index : Units, ok : BOOLEAN]) /\ DistinctResults(resultQ')
      /\ ResultSet(resultQ') = ResultSet(resultQ) \cup {u}
  BY <1>1, <1>3, <1>4, <1>5, ResultAppend
<1>7. /\ wpc' \in [Workers -> WorkerPlaces] /\ wpc'[w] = "recv"
      /\ \A v \in Workers : v # w => wpc'[v] = wpc[v]
  BY <1>1, <1>2 DEF StreamTypeOK, WorkerPlaces
<1>8. \A v \in Workers : /\ wpc'[v] \in Busy <=> wpc[v] \in Busy /\ v # w
                         /\ wpc'[v] \in Carrying <=> wpc[v] \in Carrying /\ v # w
                         /\ wpc'[v] = "permit" <=> wpc[v] = "permit"
  BY <1>1, <1>7 DEF Busy, Carrying
<1> USE DEF poolVars, mainVars
<1>9. StreamTypeOK'
  BY <1>1, <1>2, <1>6, <1>7 DEF StreamTypeOK, PoolTypeOK
<1>10. OneHome'
  <2>1. \A x : UnderWay(x)' <=> UnderWay(x)
    BY <1>1 DEF UnderWay, next
  <2>2. \A v \in Workers : wpc'[v] \in Busy => index[v] # u
    BY <1>2, <1>3, <1>4, <1>8 DEF OneHome
  <2>3. \A v \in Workers : wpc'[v] \in Busy => UnderWay(index[v])'
    BY <1>1, <1>2, <1>8 DEF OneHome, UnderWay, next
  <2>4. \A x \in WorkSet(workQ') \cup ResultSet(resultQ') \cup reorder' : UnderWay(x)'
    BY <1>1, <1>2, <1>5, <1>6, <2>1 DEF OneHome
  <2>5. \A v, x \in Workers : wpc'[v] \in Busy /\ wpc'[x] \in Busy /\ index'[v] = index'[x] => v = x
    BY <1>1, <1>2, <1>8 DEF OneHome
  <2>6. /\ WorkSet(workQ') \cap (ResultSet(resultQ') \cup reorder') = {}
        /\ ResultSet(resultQ') \cap reorder' = {}
        /\ \A v \in Workers : wpc'[v] \in Busy =>
             index'[v] \notin WorkSet(workQ') \cup ResultSet(resultQ') \cup reorder'
    BY <1>1, <1>2, <1>5, <1>6, <1>8, <2>2 DEF OneHome
  <2>7. QED
    BY <1>1, <1>2, <1>6, <2>3, <2>4, <2>5, <2>6 DEF OneHome
<1>11. TurnIsHeld'
  BY <1>1, <1>2, <1>8 DEF TurnIsHeld
<1>12. PermitTravels'
  <2>1. Carried = Carried' \cup {u}
    <3>1. wpc[w] \in Carrying
      BY <1>1 DEF Carrying
    <3>2. QED
      BY <1>1, <1>3, <1>8, <3>1 DEF Carried
  <2>2. QED
    BY <1>1, <1>2, <1>6, <2>1 DEF PermitTravels, Visiting, Holders, next
<1>13. CanonicalPublication' /\ CoordinatorKnows'
  BY <1>1, <1>2 DEF CanonicalPublication, CoordinatorKnows, next
<1>14. QED
  BY <1>9, <1>10, <1>11, <1>12, <1>13 DEF StreamInv

-----------------------------------------------------------------------------
(* Coordinator. *)

\* A scheduled index is new: everything under way was scheduled before it.
LEMMA Refill ==
  ASSUME StreamInv,
         IF scheduled < FileCount THEN Schedule ELSE UNCHANGED <<workQ, scheduled>>
  PROVE  /\ workQ' \in Seq(Units) /\ Distinct(workQ')
         /\ scheduled' \in 0..FileCount /\ scheduled' \in {scheduled, scheduled + 1}
         /\ WorkSet(workQ) \subseteq WorkSet(workQ')
         /\ \A u \in WorkSet(workQ') : u \in WorkSet(workQ) \/ (u = scheduled /\ scheduled' = scheduled + 1)
<1>1. StreamTypeOK /\ OneHome
  BY DEF StreamInv
<1>2. scheduled \in Nat /\ FileCount \in Nat /\ scheduled <= FileCount
  BY <1>1, FilesAreUnits DEF StreamTypeOK
<1>3. workQ \in Seq(Units) /\ Distinct(workQ)
  BY <1>1 DEF StreamTypeOK, OneHome
<1>4. CASE scheduled < FileCount
  <2>1. workQ' = Append(workQ, scheduled) /\ scheduled' = scheduled + 1
    BY <1>4 DEF Schedule
  <2>2. scheduled \in Units
    BY <1>1, <1>2, <1>4, FilesAreUnits
  <2>3. scheduled \notin WorkSet(workQ)
    BY <1>1, <1>2 DEF OneHome, UnderWay
  <2>4. /\ workQ' \in Seq(Units) /\ Distinct(workQ')
        /\ WorkSet(workQ') = WorkSet(workQ) \cup {scheduled}
    BY <1>3, <2>1, <2>2, <2>3, WorkAppend
  <2>5. QED
    BY <1>2, <1>4, <2>1, <2>4
<1>5. CASE ~(scheduled < FileCount)
  <2>1. workQ' = workQ /\ scheduled' = scheduled
    BY <1>5
  <2>2. scheduled' \in 0..FileCount
    BY <1>2, <2>1
  <2>3. QED
    BY <1>3, <2>1, <2>2
<1>6. QED
  BY <1>4, <1>5

\* The window is filled, and then the coordinator turns to the results.
LEMMA SeedKeeps ==
  ASSUME StreamInv, Seed
  PROVE  StreamInv'
<1>1. /\ mpc = "seed" /\ mpc' \in {"seed", "recv"}
      /\ UNCHANGED <<poolVars, active, workOpen, resultQ, workerVars, reorder, published>>
  BY DEF Seed
<1>2. /\ StreamTypeOK /\ OneHome /\ TurnIsHeld /\ PermitTravels
      /\ CanonicalPublication /\ CoordinatorKnows
  BY DEF StreamInv
<1>3. /\ next \in Nat /\ scheduled \in Nat /\ Window \in Nat /\ FileCount \in Nat
      /\ \A v \in Workers : index[v] \in Nat
      /\ \A u \in WorkSet(workQ) \cup ResultSet(resultQ) \cup reorder : u \in Nat
  BY <1>2, FilesAreUnits
<1>4. Window <= FileCount
  <2>1. LookAhead * WorkerCount \in Nat
    <3>1. WorkerCount \in Nat /\ LookAhead \in Nat
      BY StreamAssumption, FS_CardinalityType DEF WorkerCount
    <3>2. QED
      BY <3>1
  <2>2. QED
    BY <1>3, <2>1 DEF Window, AtMost
<1>5. /\ workQ' \in Seq(Units) /\ Distinct(workQ')
      /\ scheduled' \in 0..FileCount /\ scheduled' \in {scheduled, scheduled + 1}
      /\ \A u \in WorkSet(workQ') : u \in WorkSet(workQ) \/ (u = scheduled /\ scheduled' = scheduled + 1)
      /\ scheduled' = scheduled \/ scheduled < Window
  <2>1. CASE scheduled < Window /\ Schedule
    <3>1. scheduled < FileCount
      BY <1>3, <1>4, <2>1
    <3>2. QED
      BY <2>1, <3>1, Refill
  <2>2. CASE UNCHANGED <<workQ, scheduled>>
    BY <1>2, <2>2 DEF StreamTypeOK, OneHome
  <2>3. QED
    BY <2>1, <2>2 DEF Seed
<1> USE DEF poolVars, workerVars
<1>6. StreamTypeOK'
  BY <1>1, <1>2, <1>5 DEF StreamTypeOK, PoolTypeOK, MainPlaces
<1>7. OneHome'
  <2>1. next' = next
    BY <1>1 DEF next
  <2>2. /\ scheduled \notin ResultSet(resultQ) \cup reorder
        /\ \A v \in Workers : wpc[v] \in Busy => index[v] # scheduled
    BY <1>2, <1>3 DEF OneHome, UnderWay
  <2>3. \A v \in Workers : wpc[v] \in Busy => UnderWay(index[v])'
    BY <1>1, <1>2, <1>3, <1>5, <2>1 DEF OneHome, UnderWay
  <2>4. \A u \in WorkSet(workQ') \cup ResultSet(resultQ) \cup reorder : UnderWay(u)'
    <3>1. next <= scheduled
      BY <1>1, <1>2, <1>3 DEF CoordinatorKnows
    <3>2. QED
      BY <1>2, <1>3, <1>5, <2>1, <3>1 DEF OneHome, UnderWay
  <2>5. /\ WorkSet(workQ') \cap (ResultSet(resultQ) \cup reorder) = {}
        /\ \A v \in Workers : wpc[v] \in Busy =>
             index[v] \notin WorkSet(workQ') \cup ResultSet(resultQ) \cup reorder
    BY <1>2, <1>5, <2>2 DEF OneHome
  <2>6. QED
    BY <1>1, <1>2, <1>5, <2>3, <2>4, <2>5 DEF OneHome
<1>8. TurnIsHeld' /\ CanonicalPublication'
  BY <1>1, <1>2 DEF TurnIsHeld, CanonicalPublication
<1>9. PermitTravels'
  BY <1>1, <1>2 DEF PermitTravels, Carried, Visiting, Holders, next
<1>10. CoordinatorKnows'
  BY <1>1, <1>2, <1>3, <1>5 DEF CoordinatorKnows, next
<1>11. QED
  BY <1>6, <1>7, <1>8, <1>9, <1>10 DEF StreamInv

\* The serial loop has nothing under way; it visits, panics or ends.
LEMMA SerialKeeps ==
  ASSUME StreamInv, SerialStep
  PROVE  StreamInv'
<1>1. /\ mpc = "serial"
      /\ UNCHANGED <<poolVars, active, chanVars, workerVars, scheduled, reorder>>
  BY DEF SerialStep
<1>2. /\ StreamTypeOK /\ OneHome /\ TurnIsHeld /\ PermitTravels
      /\ CanonicalPublication /\ CoordinatorKnows
  BY DEF StreamInv
<1>3. /\ next \in Nat /\ FileCount \in Nat /\ Window \in Nat /\ scheduled = 0
      /\ \A v \in Workers : index[v] \in Nat
      /\ \A u \in WorkSet(workQ) \cup ResultSet(resultQ) \cup reorder : u \in Nat
  BY <1>1, <1>2, FilesAreUnits DEF CoordinatorKnows
<1>4. /\ WorkSet(workQ) \cup ResultSet(resultQ) \cup reorder = {}
      /\ \A v \in Workers : wpc[v] \notin Busy
  BY <1>2, <1>3 DEF OneHome, UnderWay
<1>5. /\ published' \in Seq(Units) /\ next' \in Nat /\ next' <= FileCount
      /\ mpc' \in {"serial", "panicked", "done"} /\ (mpc' = "done" => next' = FileCount)
      /\ CanonicalPublication'
  <2>1. CASE next < FileCount /\ published' = Append(published, next) /\ UNCHANGED mpc
    <3>1. next \in Units /\ published \in Seq(Units) /\ next = Len(published)
      BY <1>2, <1>3, <2>1, FilesAreUnits DEF StreamTypeOK, next
    <3>2. /\ published' \in Seq(Units) /\ Len(published') = next + 1
          /\ \A i \in 1..Len(published) : published'[i] = published[i]
          /\ published'[next + 1] = next
      BY <2>1, <3>1
    <3>3. CanonicalPublication'
      BY <1>2, <1>3, <3>1, <3>2 DEF CanonicalPublication
    <3>4. QED
      BY <1>1, <1>3, <2>1, <3>2, <3>3 DEF next
  <2>2. CASE mpc' = "panicked" /\ UNCHANGED published
    BY <1>2, <1>3, <2>2 DEF StreamTypeOK, CoordinatorKnows, CanonicalPublication, next
  <2>3. CASE next = FileCount /\ mpc' = "done" /\ UNCHANGED published
    BY <1>2, <1>3, <2>3 DEF StreamTypeOK, CoordinatorKnows, CanonicalPublication, next
  <2>4. QED
    BY <2>1, <2>2, <2>3 DEF SerialStep
<1> USE DEF poolVars, chanVars, workerVars
<1>6. StreamTypeOK'
  BY <1>1, <1>2, <1>5 DEF StreamTypeOK, PoolTypeOK, MainPlaces
<1>7. OneHome' /\ TurnIsHeld'
  BY <1>1, <1>2, <1>4 DEF OneHome, TurnIsHeld
<1>8. PermitTravels'
  <2>1. Visiting = {} /\ Visiting' = {}
    BY <1>1, <1>5 DEF Visiting
  <2>2. QED
    BY <1>1, <1>2, <2>1 DEF PermitTravels, Carried, Holders
<1>9. CoordinatorKnows'
  BY <1>1, <1>3, <1>5 DEF CoordinatorKnows, next
<1>10. QED
  BY <1>5, <1>6, <1>7, <1>8, <1>9 DEF StreamInv

\* A result moves from the channel to the reorder map.
LEMMA ReceiveKeeps ==
  ASSUME StreamInv, ReceiveResult
  PROVE  StreamInv'
<1>1. /\ mpc = "recv" /\ mpc' = "publish" /\ resultQ # <<>>
      /\ reorder' = reorder \cup {Head(resultQ).index} /\ resultQ' = Tail(resultQ)
      /\ UNCHANGED <<poolVars, active, workQ, workOpen, workerVars, scheduled, published>>
  BY DEF ReceiveResult, MainGoes
<1>2. /\ StreamTypeOK /\ OneHome /\ TurnIsHeld /\ PermitTravels
      /\ CanonicalPublication /\ CoordinatorKnows
  BY DEF StreamInv
<1>3. resultQ \in Seq([index : Units, ok : BOOLEAN]) /\ DistinctResults(resultQ)
  BY <1>2 DEF StreamTypeOK, OneHome
<1>4. PICK u : u = Head(resultQ).index
  OBVIOUS
<1>5. /\ u \in Units /\ u \in ResultSet(resultQ)
      /\ resultQ' \in Seq([index : Units, ok : BOOLEAN]) /\ DistinctResults(resultQ')
      /\ ResultSet(resultQ') = ResultSet(resultQ) \ {u}
  BY <1>1, <1>3, <1>4, ResultTail
<1> USE DEF poolVars, workerVars
<1>6. StreamTypeOK'
  BY <1>1, <1>2, <1>4, <1>5 DEF StreamTypeOK, PoolTypeOK, MainPlaces
<1>7. OneHome'
  <2>1. ResultSet(resultQ') \cup reorder' = ResultSet(resultQ) \cup reorder
    BY <1>1, <1>4, <1>5
  <2>2. ResultSet(resultQ') \cap reorder' = {}
    BY <1>1, <1>2, <1>4, <1>5 DEF OneHome
  <2>3. \A v \in Workers : wpc[v] \in Busy => UnderWay(index[v])'
    BY <1>1, <1>2 DEF OneHome, UnderWay, next
  <2>4. \A x \in WorkSet(workQ) \cup (ResultSet(resultQ') \cup reorder') : UnderWay(x)'
    BY <1>1, <1>2, <2>1 DEF OneHome, UnderWay, next
  <2>5. \A v \in Workers : wpc[v] \in Busy =>
           index[v] \notin WorkSet(workQ) \cup (ResultSet(resultQ') \cup reorder')
    BY <1>2, <2>1 DEF OneHome
  <2>6. WorkSet(workQ) \cap (ResultSet(resultQ') \cup reorder') = {}
    BY <1>2, <2>1 DEF OneHome
  <2>7. QED
    BY <1>1, <1>2, <1>5, <2>2, <2>3, <2>4, <2>5, <2>6 DEF OneHome
<1>8. TurnIsHeld' /\ CanonicalPublication' /\ CoordinatorKnows'
  BY <1>1, <1>2 DEF TurnIsHeld, CanonicalPublication, CoordinatorKnows, next
<1>9. PermitTravels'
  BY <1>1, <1>2, <1>4, <1>5 DEF PermitTravels, Carried, Visiting, Holders
<1>10. QED
  BY <1>6, <1>7, <1>8, <1>9 DEF StreamInv

\* A file that only the coordinator has is dropped from its place, and its
\* permit with it.
LEMMA DropKeeps ==
  ASSUME StreamInv, NEW u \in Units, Release(u),
         UNCHANGED <<active, workQ, workerVars, scheduled, published>>, workOpen' \in BOOLEAN,
         resultQ' \in Seq([index : Units, ok : BOOLEAN]), DistinctResults(resultQ'),
         ResultSet(resultQ') \cup reorder' = (ResultSet(resultQ) \cup reorder) \ {u},
         ResultSet(resultQ') \subseteq ResultSet(resultQ), reorder' \subseteq reorder,
         mpc' \in {"publish", "unwind"},
         \/ mpc = "drop" /\ u = next - 1
         \/ mpc # "drop" /\ u \in ResultSet(resultQ) \cup reorder
  PROVE  StreamInv'
<1>1. /\ StreamTypeOK /\ OneHome /\ TurnIsHeld /\ PermitTravels
      /\ CanonicalPublication /\ CoordinatorKnows /\ PoolTypeOK
  BY DEF StreamInv, StreamTypeOK
<1>2. PoolTypeOK' /\ Holders' = Holders \ {u}
  BY <1>1, ReleaseFacts
<1>3. reorder' \subseteq Units
  BY <1>1, FilesAreUnits
<1> USE DEF workerVars
<1>4. StreamTypeOK'
  BY <1>1, <1>2, <1>3 DEF StreamTypeOK, MainPlaces
<1>5. OneHome'
  <2>1. \A x : UnderWay(x)' <=> UnderWay(x)
    BY DEF UnderWay, next
  <2>2. \A v \in Workers : wpc[v] \in Busy => UnderWay(index[v])'
    BY <1>1 DEF OneHome, UnderWay, next
  <2>3. ResultSet(resultQ') \cap reorder' = {}
    BY <1>1 DEF OneHome
  <2>4. /\ WorkSet(workQ) \cap (ResultSet(resultQ') \cup reorder') = {}
        /\ \A v \in Workers : wpc[v] \in Busy =>
             index[v] \notin WorkSet(workQ) \cup ResultSet(resultQ') \cup reorder'
    BY <1>1 DEF OneHome
  <2>5. \A x \in WorkSet(workQ) \cup ResultSet(resultQ') \cup reorder' : UnderWay(x)'
    BY <1>1, <2>1 DEF OneHome
  <2>6. QED
    BY <1>1, <2>2, <2>3, <2>4, <2>5 DEF OneHome
<1>6. TurnIsHeld' /\ CanonicalPublication' /\ CoordinatorKnows'
  BY <1>1 DEF TurnIsHeld, CanonicalPublication, CoordinatorKnows, next
<1>7. PermitTravels'
  <2>1. next \in Nat /\ \A v \in Workers : index[v] \in Nat
    BY <1>1, FilesAreUnits
  <2>2. u \notin Carried
    <3>1. ASSUME NEW v \in Workers, wpc[v] \in Carrying PROVE index[v] # u
      <4>1. wpc[v] \in Busy
        BY <3>1 DEF Carrying, Busy
      <4>2. index[v] \notin ResultSet(resultQ) \cup reorder /\ next <= index[v]
        BY <1>1, <4>1 DEF OneHome, UnderWay
      <4>3. QED
        BY <2>1, <4>2
    <3>2. QED
      BY <3>1 DEF Carried
  <2>3. Carried' = Carried /\ Visiting' = {}
    BY DEF Carried, Visiting
  <2>4. Visiting \subseteq {u}
    BY DEF Visiting
  <2>5. QED
    BY <1>1, <1>2, <2>2, <2>3, <2>4 DEF PermitTravels
<1>8. QED
  BY <1>4, <1>5, <1>6, <1>7 DEF StreamInv

\* A panic's result, a visited file and what unwinding finds are dropped.
LEMMA DropsKeep ==
  ASSUME StreamInv, ReceivePanic \/ DropPublished \/ (Unwind /\ reorder # {})
  PROVE  StreamInv'
<1>1. StreamTypeOK /\ OneHome /\ CanonicalPublication /\ CoordinatorKnows
  BY DEF StreamInv
<1>2. resultQ \in Seq([index : Units, ok : BOOLEAN]) /\ DistinctResults(resultQ)
      /\ workOpen \in BOOLEAN /\ reorder \subseteq Units
      /\ ResultSet(resultQ) \cap reorder = {}
  BY <1>1 DEF StreamTypeOK, OneHome
<1>3. /\ next \in Nat /\ \A u \in Units : u \in Nat
      /\ \A u \in ResultSet(resultQ) \cup reorder : next <= u /\ u \in Nat
  BY <1>1, FilesAreUnits DEF OneHome, UnderWay
<1>4. CASE ReceivePanic
  <2>1. /\ mpc = "recv" /\ mpc' = "unwind" /\ resultQ # <<>> /\ Release(Head(resultQ).index)
        /\ resultQ' = Tail(resultQ) /\ workOpen' = FALSE /\ reorder' = reorder
        /\ UNCHANGED <<active, workQ, workerVars, scheduled, published>>
    BY <1>4 DEF ReceivePanic, MainGoes
  <2>2. PICK u : u = Head(resultQ).index
    OBVIOUS
  <2>3. /\ u \in Units /\ u \in ResultSet(resultQ)
        /\ resultQ' \in Seq([index : Units, ok : BOOLEAN]) /\ DistinctResults(resultQ')
        /\ ResultSet(resultQ') = ResultSet(resultQ) \ {u}
    BY <1>2, <2>1, <2>2, ResultTail
  <2>4. ResultSet(resultQ') \cup reorder' = (ResultSet(resultQ) \cup reorder) \ {u}
    BY <1>2, <2>1, <2>3
  <2>5. QED
    BY <2>1, <2>2, <2>3, <2>4, DropKeeps
<1>5. CASE DropPublished
  <2>1. /\ mpc = "drop" /\ mpc' = "publish" /\ Release(published[Len(published)])
        /\ UNCHANGED <<active, workQ, workOpen, resultQ, workerVars, scheduled, reorder, published>>
    BY <1>5 DEF DropPublished, MainGoes, chanVars
  <2>2. PICK u : u = published[Len(published)]
    OBVIOUS
  <2>3. u = next - 1 /\ u \in Units
    <3>1. Len(published) \in 1..Len(published) /\ published \in Seq(Units)
      BY <1>1, <1>3, <2>1 DEF CoordinatorKnows, StreamTypeOK, next
    <3>2. QED
      BY <1>1, <2>2, <3>1 DEF CanonicalPublication, next
  <2>4. ResultSet(resultQ') \cup reorder' = (ResultSet(resultQ) \cup reorder) \ {u}
    <3>1. u \notin ResultSet(resultQ) \cup reorder
      BY <1>3, <2>3
    <3>2. QED
      BY <2>1, <3>1
  <2>5. QED
    BY <1>2, <2>1, <2>2, <2>3, <2>4, DropKeeps
<1>6. CASE Unwind /\ reorder # {}
  <2>1. PICK u \in reorder : Release(u) /\ reorder' = reorder \ {u} /\ UNCHANGED mpc
    BY <1>6 DEF Unwind
  <2>2. /\ mpc = "unwind" /\ mpc' = "unwind"
        /\ UNCHANGED <<active, workQ, workOpen, resultQ, workerVars, scheduled, published>>
    BY <1>6, <2>1 DEF Unwind, chanVars
  <2>3. ResultSet(resultQ') \cup reorder' = (ResultSet(resultQ) \cup reorder) \ {u}
    BY <1>2, <2>1, <2>2
  <2>4. QED
    BY <1>2, <2>1, <2>2, <2>3, DropKeeps
<1>7. QED
  BY <1>4, <1>5, <1>6

\* The coordinator moves on and touches nothing: the inner loop ends, the map
\* is empty, the threads have been joined.
LEMMA MoveOnKeeps ==
  ASSUME StreamInv, UNCHANGED <<poolVars, active, workQ, resultQ, workerVars, scheduled, reorder, published>>,
         workOpen' \in BOOLEAN, mpc # "drop",
         mpc' \in {"recv", "join", "done", "scopeWait", "panicked"},
         mpc' \in {"join", "done"} => next = FileCount
  PROVE  StreamInv'
<1> USE DEF poolVars, workerVars
<1>1. StreamTypeOK' /\ OneHome' /\ TurnIsHeld' /\ CanonicalPublication'
  BY DEF StreamInv, StreamTypeOK, PoolTypeOK, MainPlaces, OneHome, UnderWay, TurnIsHeld,
         CanonicalPublication, next
<1>2. PermitTravels'
  BY DEF StreamInv, PermitTravels, Carried, Visiting, Holders
<1>3. CoordinatorKnows'
  BY DEF StreamInv, CoordinatorKnows, next
<1>4. QED
  BY <1>1, <1>2, <1>3 DEF StreamInv

\* The steps that do so.
LEMMA MovesOn ==
  ASSUME StreamInv,
         \/ Publish /\ next \notin reorder
         \/ Unwind /\ reorder = {}
         \/ Finish
  PROVE  StreamInv'
<1>1. workOpen \in BOOLEAN /\ next \in Nat /\ FileCount \in Nat /\ next <= FileCount
  BY FilesAreUnits DEF StreamInv, StreamTypeOK, CoordinatorKnows
<1>2. CASE Publish /\ next \notin reorder
  <2>1. /\ mpc = "publish" /\ mpc' = IF next < FileCount THEN "recv" ELSE "join"
        /\ workOpen' = (next < FileCount)
        /\ UNCHANGED <<poolVars, active, workQ, resultQ, workerVars, scheduled, reorder, published>>
    BY <1>2 DEF Publish
  <2>2. mpc' = "join" => next = FileCount
    BY <1>1, <2>1
  <2>3. QED
    BY <2>1, <2>2, MoveOnKeeps
<1>3. CASE Unwind /\ reorder = {}
  <2>1. mpc = "unwind" /\ mpc' = "scopeWait"
        /\ UNCHANGED <<poolVars, active, workQ, workOpen, resultQ, workerVars, scheduled, reorder, published>>
    BY <1>3 DEF Unwind, chanVars
  <2>2. QED
    BY <1>1, <2>1, MoveOnKeeps
<1>4. CASE Finish
  <2>1. /\ (mpc = "join" /\ mpc' = "done") \/ (mpc = "scopeWait" /\ mpc' = "panicked")
        /\ UNCHANGED <<poolVars, active, workQ, workOpen, resultQ, workerVars, scheduled, reorder, published>>
    BY <1>4 DEF Finish, MainGoes, chanVars
  <2>2. mpc' = "done" => next = FileCount
    BY <2>1 DEF StreamInv, CoordinatorKnows
  <2>3. QED
    BY <1>1, <2>1, <2>2, MoveOnKeeps
<1>5. QED
  BY <1>2, <1>3, <1>4

\* The head of the order is visited and the window moves on by one.
LEMMA PublishKeeps ==
  ASSUME StreamInv, Publish, next \in reorder
  PROVE  StreamInv'
<1>1. /\ mpc = "publish" /\ mpc' = "drop" /\ reorder' = reorder \ {next}
      /\ published' = Append(published, next)
      /\ IF scheduled < FileCount THEN Schedule ELSE UNCHANGED <<workQ, scheduled>>
      /\ UNCHANGED <<poolVars, active, workOpen, resultQ, workerVars>>
  BY DEF Publish
<1>2. /\ StreamTypeOK /\ OneHome /\ TurnIsHeld /\ PermitTravels
      /\ CanonicalPublication /\ CoordinatorKnows
  BY DEF StreamInv
<1>3. /\ next \in Nat /\ scheduled \in Nat /\ Window \in Nat /\ FileCount \in Nat
      /\ \A v \in Workers : index[v] \in Nat
      /\ \A u \in WorkSet(workQ) \cup ResultSet(resultQ) \cup reorder : u \in Nat
  BY <1>2, FilesAreUnits
<1>4. /\ workQ' \in Seq(Units) /\ Distinct(workQ')
      /\ scheduled' \in 0..FileCount /\ scheduled' \in {scheduled, scheduled + 1}
      /\ \A u \in WorkSet(workQ') : u \in WorkSet(workQ) \/ (u = scheduled /\ scheduled' = scheduled + 1)
  BY <1>1, Refill
<1>5. next \in Units /\ next < scheduled /\ next < FileCount /\ reorder \subseteq Units
  BY <1>2, FilesAreUnits DEF OneHome, UnderWay
<1>6. /\ published' \in Seq(Units) /\ next' = next + 1 /\ CanonicalPublication'
  <2>1. published \in Seq(Units) /\ next = Len(published)
    BY <1>2 DEF StreamTypeOK, next
  <2>2. /\ published' \in Seq(Units) /\ Len(published') = next + 1
        /\ \A i \in 1..Len(published) : published'[i] = published[i]
        /\ published'[next + 1] = next
    BY <1>1, <1>5, <2>1
  <2>3. CanonicalPublication'
    BY <1>2, <1>3, <2>1, <2>2 DEF CanonicalPublication
  <2>4. QED
    BY <2>2, <2>3 DEF next
<1> USE DEF poolVars, workerVars
<1>7. StreamTypeOK'
  BY <1>1, <1>2, <1>4, <1>5, <1>6 DEF StreamTypeOK, PoolTypeOK, MainPlaces
<1>8. OneHome'
  <2>1. /\ scheduled \notin ResultSet(resultQ) \cup reorder
        /\ \A v \in Workers : wpc[v] \in Busy => index[v] # scheduled /\ index[v] # next
        /\ next \notin WorkSet(workQ) \cup ResultSet(resultQ)
    BY <1>2, <1>3 DEF OneHome, UnderWay
  <2>2. ASSUME NEW x \in Nat, next <= x, x # next, x < scheduled \/ (x = scheduled /\ scheduled' = scheduled + 1)
        PROVE  next' <= x /\ x < scheduled'
    BY <1>3, <1>4, <1>6, <2>2 DEF next
  <2>3. ASSUME NEW v \in Workers, wpc[v] \in Busy PROVE next' <= index[v] /\ index[v] < scheduled'
    BY <1>2, <1>3, <2>1, <2>2, <2>3 DEF OneHome, UnderWay
  <2>4. ASSUME NEW x \in WorkSet(workQ') \cup ResultSet(resultQ) \cup reorder' PROVE next' <= x /\ x < scheduled'
    <3>1. x # next
      BY <1>1, <1>3, <1>4, <1>5, <2>1, <2>4
    <3>2. x \in WorkSet(workQ) \cup ResultSet(resultQ) \cup reorder \/ (x = scheduled /\ scheduled' = scheduled + 1)
      BY <1>1, <1>4, <2>4
    <3>3. x \in Nat /\ next <= x /\ (x < scheduled \/ (x = scheduled /\ scheduled' = scheduled + 1))
      BY <1>2, <1>3, <1>5, <3>2 DEF OneHome, UnderWay
    <3>4. QED
      BY <2>2, <3>1, <3>3
  <2>5. /\ WorkSet(workQ') \cap (ResultSet(resultQ) \cup reorder') = {}
        /\ ResultSet(resultQ) \cap reorder' = {}
        /\ \A v \in Workers : wpc[v] \in Busy =>
             index[v] \notin WorkSet(workQ') \cup ResultSet(resultQ) \cup reorder'
    BY <1>1, <1>2, <1>4, <2>1 DEF OneHome
  <2>6. QED
    BY <1>1, <1>2, <1>4, <2>3, <2>4, <2>5 DEF OneHome, UnderWay
<1>9. TurnIsHeld'
  BY <1>1, <1>2 DEF TurnIsHeld
<1>10. PermitTravels'
  <2>1. Visiting = {} /\ Visiting' = {next}
    BY <1>1, <1>3, <1>6 DEF Visiting, next
  <2>2. reorder = reorder' \cup {next}
    BY <1>1
  <2>3. Carried' = Carried /\ Holders' = Holders
    BY <1>1 DEF Carried, Holders
  <2>4. QED
    BY <1>1, <1>2, <2>1, <2>2, <2>3 DEF PermitTravels
<1>11. CoordinatorKnows'
  BY <1>1, <1>2, <1>3, <1>4, <1>5, <1>6 DEF CoordinatorKnows, next
<1>12. QED
  BY <1>6, <1>7, <1>8, <1>9, <1>10, <1>11 DEF StreamInv

-----------------------------------------------------------------------------
\* A wakeup nobody asked for moves one sleeper, at the gate or at the door.
LEMMA SpuriousKeeps ==
  ASSUME StreamInv, SpuriousWakeup
  PROVE  StreamInv'
<1>1. /\ StreamTypeOK /\ OneHome /\ TurnIsHeld /\ PermitTravels
      /\ CanonicalPublication /\ CoordinatorKnows
  BY DEF StreamInv
<1>2. CASE \E u \in Units : SpuriousWake(u) /\ UNCHANGED <<active, chanVars, workerVars, mainVars>>
  <2>1. PICK u \in Units : SpuriousWake(u) /\ UNCHANGED <<active, chanVars, workerVars, mainVars>>
    BY <1>2
  <2>2. PoolTypeOK' /\ Holders' = Holders
    BY <1>1, <2>1 DEF SpuriousWake, StreamTypeOK, PoolTypeOK, Places, Holders
  <2> USE DEF chanVars, workerVars, mainVars
  <2>3. StreamTypeOK'
    BY <1>1, <2>1, <2>2 DEF StreamTypeOK
  <2>4. OneHome' /\ TurnIsHeld' /\ CanonicalPublication' /\ CoordinatorKnows'
    BY <1>1, <2>1 DEF OneHome, TurnIsHeld, UnderWay, CanonicalPublication, CoordinatorKnows, next
  <2>5. PermitTravels'
    BY <1>1, <2>1, <2>2 DEF PermitTravels, Carried, Visiting, next
  <2>6. QED
    BY <2>3, <2>4, <2>5 DEF StreamInv
<1>3. CASE /\ \E w \in Workers : WorkerGoes(w, "admitWait", "admit")
           /\ UNCHANGED <<poolVars, active, chanVars, index, lowered, admission, mainVars>>
  <2>1. PICK w \in Workers : wpc[w] = "admitWait" /\ wpc' = [wpc EXCEPT ![w] = "admit"]
    BY <1>3 DEF WorkerGoes
  <2>2. wpc \in [Workers -> WorkerPlaces] /\ lowered \in [Workers -> BOOLEAN]
    BY <1>1 DEF StreamTypeOK
  <2>3. wpc' \in [Workers -> WorkerPlaces] /\ \A v \in Workers : Strolls(wpc[v], wpc'[v])
    BY <2>1, <2>2 DEF Strolls, WorkerPlaces
  <2>4. QED
    BY <1>3, <2>2, <2>3, StrollKeeps
<1>4. QED
  BY <1>2, <1>3 DEF SpuriousWakeup

\* Nothing is scheduled, held or visited at the start.
LEMMA StreamInvInit == Init => StreamInv
<1> SUFFICES ASSUME Init PROVE StreamInv
  OBVIOUS
<1>1. /\ FileCount \in Nat \ {0} /\ 0 \in Units /\ WorkerCount \in Nat /\ LookAhead \in Nat
  BY StreamAssumption, FS_CardinalityType DEF WorkerCount
<1>2. PoolTypeOK /\ Holders = {}
  BY DEF Init, PoolInit, PoolTypeOK, Places, Holders
<1>3. mpc \in {"serial", "seed"} /\ next = 0 /\ scheduled = 0
  BY DEF Init, next
<1>4. StreamTypeOK
  BY <1>1, <1>2 DEF Init, StreamTypeOK, WorkerPlaces, MainPlaces
<1>5. WorkSet(workQ) = {} /\ ResultSet(resultQ) = {} /\ \A w \in Workers : wpc[w] = "recv"
  BY DEF Init, WorkSet, ResultSet
<1>6. OneHome /\ TurnIsHeld
  BY <1>5 DEF Init, OneHome, TurnIsHeld, Distinct, DistinctResults, Busy
<1>7. PermitTravels
  <2>1. Carried = {} /\ Visiting = {} /\ reorder = {}
    BY <1>3, <1>5 DEF Init, Carried, Carrying, Visiting
  <2>2. QED
    BY <1>2, <1>5, <2>1 DEF PermitTravels
<1>8. CanonicalPublication
  BY DEF Init, CanonicalPublication
<1>9. CoordinatorKnows
  <2>1. Window \in Nat
    BY <1>4, FilesAreUnits
  <2>2. QED
    BY <1>1, <1>3, <2>1 DEF CoordinatorKnows
<1>10. QED
  BY <1>4, <1>6, <1>7, <1>8, <1>9 DEF StreamInv

\* Every step of a worker and of the coordinator keeps the invariant.
LEMMA StreamInvStep == StreamInv /\ [Next]_vars => StreamInv'
<1> SUFFICES ASSUME StreamInv, [Next]_vars PROVE StreamInv'
  OBVIOUS
<1>1. ASSUME NEW w \in Workers, WorkerStep(w) PROVE StreamInv'
  <2>1. CASE Recv(w)
    BY <2>1, RecvKeeps, WorkerStrolls
  <2>2. CASE CheckAdmission(w)
    BY <2>2, AdmissionKeeps, WorkerStrolls
  <2>3. CASE TakePermit(w)
    BY <2>3, TakeKeeps
  <2>4. CASE WaitForPermit(w)
    BY <2>4, WaitKeeps
  <2>5. CASE Lower(w)
    BY <2>5, WorkerStrolls
  <2>6. CASE Send(w)
    BY <2>6, SendKeeps
  <2>7. QED
    BY <1>1, <2>1, <2>2, <2>3, <2>4, <2>5, <2>6 DEF WorkerStep
<1>2. CASE MainStep
  <2>1. CASE SerialStep
    BY <2>1, SerialKeeps
  <2>2. CASE Seed
    BY <2>2, SeedKeeps
  <2>3. CASE ReceiveResult
    BY <2>3, ReceiveKeeps
  <2>4. CASE ReceivePanic \/ DropPublished
    BY <2>4, DropsKeep
  <2>5. CASE Publish
    BY <2>5, PublishKeeps, MovesOn
  <2>6. CASE Unwind
    BY <2>6, DropsKeep, MovesOn
  <2>7. CASE Finish
    BY <2>7, MovesOn
  <2>8. QED
    BY <1>2, <2>1, <2>2, <2>3, <2>4, <2>5, <2>6, <2>7 DEF MainStep
<1>3. CASE SpuriousWakeup
  BY <1>3, SpuriousKeeps
<1>4. CASE UNCHANGED vars
  BY <1>4 DEF vars, poolVars, chanVars, workerVars, mainVars, StreamInv, StreamTypeOK, PoolTypeOK,
              OneHome, UnderWay, TurnIsHeld, PermitTravels, Carried, Visiting, Holders,
              CanonicalPublication, CoordinatorKnows, next
<1>5. QED
  BY <1>1, <1>2, <1>3, <1>4 DEF Next

\* The inductive invariant of the pass, with workers or without, whoever panics.
THEOREM StreamInvariance == StreamSpec => []StreamInv
BY StreamInvInit, StreamInvStep, PTL DEF StreamSpec

\* Whatever order the workers finish in, the visits are a prefix of the
\* canonical file order.
THEOREM StreamPublishesInOrder == StreamSpec => []CanonicalPublication
<1>1. StreamInv => CanonicalPublication
  BY DEF StreamInv
<1>2. QED
  BY <1>1, StreamInvariance, PTL

\* Queued, executing and completed-but-unpublished files together never exceed
\* the window: they all lie in the interval of that length after the last visit.
THEOREM StreamWithinWindow == StreamSpec => []WindowBoundsUnits
<1>1. StreamInv => WindowBoundsUnits
  <2> SUFFICES ASSUME StreamInv PROVE WindowBoundsUnits
    OBVIOUS
  <2>1. /\ next \in Nat /\ scheduled \in Nat /\ Window \in Nat
        /\ \A u \in WorkSet(workQ) \cup ResultSet(resultQ) \cup reorder : u \in Nat
        /\ \A v \in Workers : index[v] \in Nat
    BY FilesAreUnits DEF StreamInv
  <2>2. scheduled <= next + Window
    BY DEF StreamInv, CoordinatorKnows
  <2> DEFINE all == Queued \cup Executing \cup Completed
             span == next..(next + Window - 1)
  <2>3. \A v \in Workers : wpc[v] \notin {"recv", "exit"} => wpc[v] \in Busy
    BY DEF StreamInv, StreamTypeOK, WorkerPlaces, Busy
  <2>4. all \in SUBSET span
    <3>1. ASSUME NEW u \in WorkSet(workQ) \cup ResultSet(resultQ) \cup reorder PROVE u \in span
      BY <2>1, <2>2 DEF StreamInv, OneHome, UnderWay
    <3>2. ASSUME NEW v \in Workers, wpc[v] \notin {"recv", "exit"} PROVE index[v] \in span
      BY <2>1, <2>2, <2>3, <3>2 DEF StreamInv, OneHome, UnderWay
    <3>3. Queued = WorkSet(workQ) /\ Completed = ResultSet(resultQ) \cup reorder
      BY DEF Queued, Completed, WorkSet, ResultSet
    <3>4. ASSUME NEW u \in Executing PROVE u \in span
      BY <3>2 DEF Executing
    <3>5. QED
      BY <3>1, <3>3, <3>4
  <2>5. IsFiniteSet(span) /\ Cardinality(span) = Window
    <3>1. /\ IsFiniteSet(span)
          /\ Cardinality(span) = IF next > next + Window - 1 THEN 0 ELSE next + Window - 1 - next + 1
      BY <2>1, FS_Interval
    <3>2. QED
      BY <2>1, <3>1
  <2>6. IsFiniteSet(all) /\ Cardinality(all) <= Cardinality(span)
    BY <2>4, <2>5, FS_Subset
  <2>7. QED
    BY <2>5, <2>6 DEF WindowBoundsUnits
<1>2. QED
  BY <1>1, StreamInvariance, PTL

\* The pass is a client of the memory gate: each of its steps is one of the
\* gate's, or leaves the gate alone.
THEOREM StreamUsesGate == StreamSpec => PoolSafetySpec
<1>1. Init => PoolInit
  BY DEF Init
<1>2. StreamInv /\ [Next]_vars => [PoolNext]_poolVars
  <2> SUFFICES ASSUME StreamInv, [Next]_vars PROVE PoolNext \/ UNCHANGED poolVars
    OBVIOUS
  <2>1. /\ StreamTypeOK /\ OneHome /\ reorder \subseteq Units
        /\ \A w \in Workers : index[w] \in Units
    BY FilesAreUnits DEF StreamInv
  <2>2. ASSUME NEW u \in Units, Release(u) PROVE PoolNext
    BY <2>2 DEF PoolNext
  <2>3. ASSUME NEW w \in Workers, WorkerStep(w) PROVE PoolNext \/ UNCHANGED poolVars
    <3>1. CASE TakePermit(w) \/ WaitForPermit(w)
      BY <2>1, <3>1 DEF TakePermit, WaitForPermit, PoolNext, Acquire, Retry
    <3>2. CASE Recv(w) \/ CheckAdmission(w) \/ Lower(w) \/ Send(w)
      BY <3>2 DEF Recv, CheckAdmission, Lower, Send
    <3>3. QED
      BY <2>3, <3>1, <3>2 DEF WorkerStep
  <2>4. CASE MainStep
    <3>1. CASE ReceivePanic
      <4>1. Head(resultQ).index \in Units
        BY <2>1, <3>1, ResultTail DEF StreamTypeOK, OneHome, ReceivePanic
      <4>2. QED
        BY <2>2, <3>1, <4>1 DEF ReceivePanic
    <3>2. CASE DropPublished
      <4>1. published \in Seq(Units) /\ Len(published) \in 1..Len(published)
        BY <3>2 DEF StreamInv, StreamTypeOK, CoordinatorKnows, DropPublished, MainGoes, next
      <4>2. published[Len(published)] \in Units
        BY <4>1
      <4>3. QED
        BY <2>2, <3>2, <4>2 DEF DropPublished
    <3>3. CASE Unwind
      BY <2>1, <2>2, <3>3 DEF Unwind
    <3>4. CASE SerialStep \/ Seed \/ ReceiveResult \/ Publish \/ Finish
      BY <3>4 DEF SerialStep, Seed, ReceiveResult, Publish, Finish
    <3>5. QED
      BY <2>4, <3>1, <3>2, <3>3, <3>4 DEF MainStep
  <2>5. CASE SpuriousWakeup
    BY <2>5 DEF SpuriousWakeup, PoolNext
  <2>6. CASE UNCHANGED vars
    BY <2>6 DEF vars
  <2>7. QED
    BY <2>3, <2>4, <2>5, <2>6 DEF Next
<1>3. QED
  BY <1>1, <1>2, StreamInvariance, PTL DEF StreamSpec, PoolSafetySpec

\* The gate's promises to the pass: an exact account, within the capacity, and
\* no worker asleep beside an empty gate.
THEOREM StreamGate == StreamSpec => [](UsedIsLivePermits /\ WithinCapacity /\ SleeperHasWaker)
BY StreamUsesGate, PoolAccounting, PoolWithinCapacity, PoolSleeperHasWaker, PTL

\* When the pass is done, by its workers or by the serial loop, every permit
\* has been dropped.
StreamReturnsMemory == mpc = "done" => used = 0

\* A finished pass leaves the gate empty.  (A pass that panicked may not: its
\* results stay in the channel, see PanicReachesCaller.)
THEOREM StreamReturnsPermits == StreamSpec => []StreamReturnsMemory
<1>1. StreamInv /\ UsedIsLivePermits => StreamReturnsMemory
  <2> SUFFICES ASSUME StreamInv, UsedIsLivePermits, mpc = "done" PROVE used = 0
    BY DEF StreamReturnsMemory
  <2>1. /\ next = FileCount /\ scheduled \in Nat /\ scheduled <= FileCount /\ FileCount \in Nat
        /\ \A u \in WorkSet(workQ) \cup ResultSet(resultQ) \cup reorder : u \in Nat
        /\ \A v \in Workers : index[v] \in Nat
    BY FilesAreUnits DEF StreamInv, StreamTypeOK, CoordinatorKnows
  <2>2. ResultSet(resultQ) = {} /\ reorder = {} /\ \A v \in Workers : wpc[v] \notin Busy
    BY <2>1 DEF StreamInv, OneHome, UnderWay
  <2>3. Carried = {} /\ Visiting = {}
    BY <2>2 DEF Carried, Carrying, Busy, Visiting
  <2>4. Holders = {}
    BY <2>2, <2>3 DEF StreamInv, PermitTravels
  <2>5. QED
    BY <2>4, WeightOfEmpty DEF UsedIsLivePermits
<1>2. QED
  BY <1>1, StreamInvariance, StreamGate, PTL
=============================================================================
