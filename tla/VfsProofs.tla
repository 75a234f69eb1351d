----------------------------- MODULE VfsProofs -----------------------------
(* The VFS keeps its promises for any names, texts, readers and number of  *)
(* changes.                                                                *)
EXTENDS Vfs, TLAPS

\* by_path and the live files are inverse to one another.
PathIndexExact ==
  /\ \A k \in Keys : byPath[k] # None =>
       Live(byPath[k]) /\ Key[files[byPath[k]].path] = k
  /\ \A i \in Ids : Live(i) => byPath[Key[files[i].path]] = i

\* by_basename lists exactly the live files with the basename.
BasenameIndexExact ==
  \A b \in Bases : byBasename[b] = {i \in Ids : Live(i) /\ BaseOf[Key[files[i].path]] = b}

\* A retired id is a tombstone, and the table is long enough to hold every id
\* that was ever used: its length is a fresh id.
TombstonesHold ==
  \A i \in Ids : /\ i \in retired => ~Live(i)
                 /\ Live(i) \/ i \in retired => i <= slots

\* Nothing was written under an id never used, nor under a version still to
\* come.
HistoryBehind ==
  \A d \in denotes : /\ Live(d.file) \/ d.file \in retired
                     /\ Live(d.file) => d.version <= files[d.file].version

\* A live file means what its version was written to mean, loaded or not.
LiveIsDenoted ==
  \A i \in Ids : Live(i) =>
    /\ files[i].version <= revision
    /\ [file |-> i, version |-> files[i].version, text |-> Denoted(i)] \in denotes

\* The inductive invariant of the table and its readers.
VfsInv ==
  /\ VfsTypeOK
  /\ PathIndexExact
  /\ BasenameIndexExact
  /\ TombstonesHold
  /\ HistoryBehind
  /\ LiveIsDenoted
  /\ OneTextPerVersion
  /\ SnapshotIsDenoted

-----------------------------------------------------------------------------
\* What the constants say of ids, revisions and the absent value.
LEMMA VfsFacts ==
  /\ Ids \subseteq Nat /\ 1 \in Ids /\ 0 \in 0..MaxRevision /\ 0 \in 0..MaxFiles
  /\ None \notin Ids /\ None \notin Texts /\ None \notin Snapshots
  /\ \A n \in Names : Key[n] \in Keys /\ BaseOf[Key[n]] \in Bases
BY VfsAssumption DEF Ids, Keys, Bases

\* A replaced snapshot keeps its path and moves to the next version.
LEMMA NextVersion ==
  ASSUME NEW s \in Snapshots, NEW text \in Texts \cup {Placeholder}, s.version < MaxRevision
  PROVE  LET n == [s EXCEPT !.text = text, !.version = s.version + 1]
         IN  /\ n \in Snapshots /\ n.path = s.path /\ n.text = text
             /\ n.version = s.version + 1
<1>1. s.version \in 0..MaxRevision /\ s.path \in Names /\ s.text \in Texts \cup {Placeholder}
  BY DEF Snapshots
<1>2. s.version + 1 \in 0..MaxRevision
  BY <1>1, VfsAssumption
<1>3. s = [path |-> s.path, text |-> s.text, version |-> s.version]
  BY DEF Snapshots
<1>4. [s EXCEPT !.text = text, !.version = s.version + 1]
        = [path |-> s.path, text |-> text, version |-> s.version + 1]
  <2> DEFINE n == [s EXCEPT !.text = text, !.version = s.version + 1]
  <2>1. DOMAIN s = {"path", "text", "version"}
    BY <1>3
  <2>2. n.path = s.path /\ n.text = text /\ n.version = s.version + 1
    BY <2>1
  <2>3. n = [f \in {"path", "text", "version"} |-> n[f]]
    BY <2>1
  <2> HIDE DEF n
  <2>4. n = [path |-> s.path, text |-> text, version |-> s.version + 1]
    BY <2>2, <2>3
  <2>5. QED
    BY <2>4 DEF n
<1>5. QED
  BY <1>1, <1>2, <1>4 DEF Snapshots

\* The two indexes, the tombstones and the history of the table, together.
TableInv ==
  /\ PathIndexExact
  /\ BasenameIndexExact
  /\ TombstonesHold
  /\ HistoryBehind
  /\ LiveIsDenoted
  /\ OneTextPerVersion

\* A live file is stored with the next version and a text: its id, its path and
\* every older meaning stay.
LEMMA StoreNextKeeps ==
  ASSUME VfsTypeOK, TableInv,
         NEW i \in Ids, Live(i),
         NEW snap \in Snapshots, snap.path = files[i].path, snap.version = files[i].version + 1,
         NEW identity \in Texts \cup {None}, identity = None => snap.text \in Texts,
         Store(i, snap, identity),
         UNCHANGED <<byPath, byBasename, slots, retired>>
  PROVE  /\ files' \in [Ids -> Snapshots \cup {None}]
         /\ lazy' \in [Ids -> Texts \cup {None}]
         /\ revision' \in 0..MaxRevision
         /\ denotes' \subseteq [file : Ids, version : 0..MaxRevision, text : Texts]
         /\ denotes \subseteq denotes'
         /\ TableInv'
<1> DEFINE meaning == IF identity = None THEN snap.text ELSE identity
           new == [file |-> i, version |-> snap.version, text |-> meaning]
<1>1. /\ revision < MaxRevision /\ revision' = revision + 1
      /\ files' = [files EXCEPT ![i] = snap] /\ lazy' = [lazy EXCEPT ![i] = identity]
      /\ denotes' = denotes \cup {new}
  BY DEF Store
<1>2. meaning \in Texts /\ snap.version \in 0..MaxRevision /\ snap.path \in Names
  BY DEF Snapshots
<1>3. new \in [file : Ids, version : 0..MaxRevision, text : Texts]
      /\ new.file = i /\ new.version = snap.version /\ new.text = meaning
  BY <1>2
<1>4. files[i] \in Snapshots /\ files[i].version \in Nat /\ files[i].version <= revision
      /\ revision \in Nat
  <2>1. files[i] \in Snapshots /\ revision \in 0..MaxRevision
    BY DEF VfsTypeOK, Live
  <2>2. files[i].version \in 0..MaxRevision
    BY <2>1 DEF Snapshots
  <2>3. files[i].version <= revision
    BY DEF TableInv, LiveIsDenoted
  <2>4. QED
    BY <2>1, <2>2, <2>3, VfsAssumption
<1>5. /\ files' \in [Ids -> Snapshots \cup {None}]
      /\ lazy' \in [Ids -> Texts \cup {None}]
      /\ revision' \in 0..MaxRevision
      /\ denotes' \subseteq [file : Ids, version : 0..MaxRevision, text : Texts]
  BY <1>1, <1>3, VfsAssumption DEF VfsTypeOK
<1>6. /\ files'[i] = snap /\ lazy'[i] = identity
      /\ \A j \in Ids : j # i => files'[j] = files[j] /\ lazy'[j] = lazy[j]
      /\ \A j \in Ids : Live(j)' <=> Live(j)
      /\ \A j \in Ids : Live(j) => files'[j].path = files[j].path
  BY <1>1, VfsFacts DEF VfsTypeOK, Live
<1> HIDE DEF meaning, new
<1>7. PathIndexExact'
  <2>1. \A k \in Keys : byPath[k] # None => byPath[k] \in Ids
    BY DEF VfsTypeOK
  <2>2. QED
    BY <1>6, <2>1 DEF TableInv, PathIndexExact
<1>8. BasenameIndexExact'
  BY <1>6 DEF VfsTypeOK, TableInv, BasenameIndexExact
<1>9. TombstonesHold'
  BY <1>6 DEF VfsTypeOK, TableInv, TombstonesHold
<1>10. \A d \in denotes : d.file \in Ids /\ d.version \in Nat
  BY VfsAssumption DEF VfsTypeOK
<1>11. HistoryBehind'
  <2> SUFFICES ASSUME NEW d \in denotes'
               PROVE  /\ Live(d.file)' \/ d.file \in retired
                      /\ Live(d.file)' => d.version <= files'[d.file].version
    BY DEF HistoryBehind
  <2>1. CASE d = new
    BY <1>2, <1>3, <1>6, <2>1
  <2>2. CASE d \in denotes
    <3>1. /\ Live(d.file) \/ d.file \in retired
          /\ Live(d.file) => d.version <= files[d.file].version
      BY <2>2 DEF TableInv, HistoryBehind
    <3>2. CASE d.file = i
      BY <3>1, <3>2, <1>4, <1>6, <1>10, <2>2
    <3>3. CASE d.file # i
      BY <3>1, <3>3, <1>6, <1>10, <2>2
    <3>4. QED
      BY <3>2, <3>3
  <2>3. QED
    BY <1>1, <2>1, <2>2
<1>12. LiveIsDenoted'
  <2> SUFFICES ASSUME NEW j \in Ids, Live(j)'
               PROVE  /\ files'[j].version <= revision'
                      /\ [file |-> j, version |-> files'[j].version, text |-> Denoted(j)'] \in denotes'
    BY DEF LiveIsDenoted
  <2>1. CASE j = i
    <3>1. Denoted(i)' = meaning
      BY <1>6 DEF Denoted, meaning
    <3>2. [file |-> i, version |-> files'[i].version, text |-> Denoted(i)'] = new
      BY <1>6, <3>1 DEF new
    <3>3. QED
      BY <1>1, <1>4, <1>6, <2>1, <3>2
  <2>2. CASE j # i
    <3>1. /\ files[j].version <= revision
          /\ [file |-> j, version |-> files[j].version, text |-> Denoted(j)] \in denotes
      BY <1>6 DEF TableInv, LiveIsDenoted
    <3>2. Denoted(j)' = Denoted(j) /\ files'[j] = files[j]
      BY <1>6, <2>2 DEF Denoted
    <3>3. files[j].version \in Nat
      BY <1>6, VfsAssumption DEF VfsTypeOK, Live, Snapshots
    <3>4. QED
      BY <1>1, <1>4, <3>1, <3>2, <3>3
  <2>3. QED
    BY <2>1, <2>2
<1>13. OneTextPerVersion'
  <2>1. \A d \in denotes : d.file = i => d.version # snap.version
    BY <1>4, <1>10 DEF TableInv, HistoryBehind
  <2>2. QED
    BY <1>1, <1>3, <2>1 DEF TableInv, OneTextPerVersion
<1>14. QED
  BY <1>1, <1>5, <1>7, <1>8, <1>9, <1>11, <1>12, <1>13 DEF TableInv

\* A path that is not interned takes an id that was never used: the id has no
\* meaning yet, so version 0 cannot clash with an older one.
LEMMA PlaceKeeps ==
  ASSUME VfsTypeOK, TableInv,
         NEW i \in Ids, ~Live(i), i \notin retired,
         NEW name \in Names, byPath[Key[name]] = None,
         NEW text \in Texts \cup {Placeholder},
         NEW identity \in Texts \cup {None}, identity = None => text \in Texts,
         Place(i, name, text, identity)
  PROVE  VfsTypeOK' /\ TableInv' /\ denotes \subseteq denotes' /\ UNCHANGED readerVars
<1> DEFINE snap == [path |-> name, text |-> text, version |-> 0]
           meaning == IF identity = None THEN text ELSE identity
           new == [file |-> i, version |-> 0, text |-> meaning]
<1>1. /\ revision < MaxRevision /\ revision' = revision + 1
      /\ files' = [files EXCEPT ![i] = snap] /\ lazy' = [lazy EXCEPT ![i] = identity]
      /\ denotes' = denotes \cup {new}
      /\ slots' = IF i > slots THEN i ELSE slots
      /\ byPath' = [byPath EXCEPT ![Key[name]] = i]
      /\ byBasename' = [byBasename EXCEPT ![BaseOf[Key[name]]] = byBasename[BaseOf[Key[name]]] \cup {i}]
      /\ UNCHANGED <<retired, loader, edits>> /\ UNCHANGED readerVars
  BY DEF Place, Store
<1>2. /\ snap \in Snapshots /\ snap.path = name /\ snap.text = text /\ snap.version = 0
      /\ snap # None
  BY VfsFacts DEF Snapshots
<1>3. /\ new \in [file : Ids, version : 0..MaxRevision, text : Texts]
      /\ new.file = i /\ new.version = 0 /\ new.text = meaning
  BY VfsFacts
<1> HIDE DEF snap, meaning, new
<1>4. Key[name] \in Keys /\ BaseOf[Key[name]] \in Bases /\ i \in Nat /\ slots \in Nat
      /\ revision \in Nat
  BY VfsFacts, VfsAssumption DEF VfsTypeOK
<1>5. VfsTypeOK'
  <2>1. slots' \in 0..MaxFiles
    BY <1>1, <1>4, VfsAssumption DEF VfsTypeOK, Ids
  <2>2. byBasename[BaseOf[Key[name]]] \cup {i} \in SUBSET Ids
    BY <1>4 DEF VfsTypeOK
  <2>3. byBasename' \in [Bases -> SUBSET Ids]
    BY <1>1, <2>2 DEF VfsTypeOK
  <2>4. revision' \in 0..MaxRevision
    BY <1>1, <1>4, VfsAssumption
  <2>5. QED
    BY <1>1, <1>2, <1>3, <2>1, <2>3, <2>4 DEF VfsTypeOK, readerVars
<1>6. /\ files'[i] = snap /\ lazy'[i] = identity /\ Live(i)'
      /\ \A j \in Ids : j # i => files'[j] = files[j] /\ lazy'[j] = lazy[j] /\ (Live(j)' <=> Live(j))
  BY <1>1, <1>2 DEF VfsTypeOK, Live
<1>7. \A d \in denotes : d.file \in Ids /\ d.file # i
  BY DEF VfsTypeOK, TableInv, HistoryBehind
<1>8. PathIndexExact'
  <2>1. \A k \in Keys : byPath'[k] = IF k = Key[name] THEN i ELSE byPath[k]
    BY <1>1 DEF VfsTypeOK
  <2>2. ASSUME NEW k \in Keys, byPath'[k] # None
        PROVE  files'[byPath'[k]] # None /\ Key[files'[byPath'[k]].path] = k
    <3>1. CASE k = Key[name]
      BY <1>2, <1>6, <2>1, <3>1
    <3>2. CASE k # Key[name]
      <4>1. byPath'[k] = byPath[k] /\ byPath[k] \in Ids
            /\ Live(byPath[k]) /\ Key[files[byPath[k]].path] = k
        BY <2>1, <2>2, <3>2 DEF VfsTypeOK, TableInv, PathIndexExact
      <4>2. byPath[k] # i
        BY <4>1
      <4>3. files'[byPath[k]] = files[byPath[k]]
        BY <1>6, <4>1, <4>2
      <4>4. QED
        BY <4>1, <4>3 DEF Live
    <3>3. QED
      BY <3>1, <3>2
  <2>3. ASSUME NEW j \in Ids, Live(j)'
        PROVE  byPath'[Key[files'[j].path]] = j
    <3>1. CASE j = i
      BY <1>2, <1>4, <1>6, <2>1, <3>1
    <3>2. CASE j # i
      <4>1. Live(j) /\ files'[j] = files[j]
        BY <1>6, <2>3, <3>2
      <4>2. files[j].path \in Names
        BY <4>1 DEF VfsTypeOK, Live, Snapshots
      <4>3. byPath[Key[files[j].path]] = j
        BY <4>1 DEF TableInv, PathIndexExact
      <4>4. Key[files[j].path] # Key[name]
        BY <4>3, VfsFacts
      <4>5. QED
        BY <2>1, <4>1, <4>2, <4>3, <4>4, VfsFacts
    <3>3. QED
      BY <3>1, <3>2
  <2>4. QED
    BY <2>2, <2>3 DEF PathIndexExact, Live
<1>9. BasenameIndexExact'
  <2> SUFFICES ASSUME NEW b \in Bases
               PROVE  byBasename'[b] = {j \in Ids : Live(j)' /\ BaseOf[Key[files'[j].path]] = b}
    BY DEF BasenameIndexExact
  <2>1. byBasename[b] = {j \in Ids : Live(j) /\ BaseOf[Key[files[j].path]] = b}
    BY DEF TableInv, BasenameIndexExact
  <2>2. byBasename'[b] = IF b = BaseOf[Key[name]] THEN byBasename[b] \cup {i} ELSE byBasename[b]
    BY <1>1 DEF VfsTypeOK
  <2>3. QED
    BY <1>2, <1>6, <2>1, <2>2
<1>10. TombstonesHold'
  <2>1. \A j \in Ids : Live(j) \/ j \in retired => j <= slots
    BY DEF TableInv, TombstonesHold
  <2>2. slots <= slots' /\ i <= slots' /\ slots' \in Nat
    BY <1>1, <1>4
  <2>3. \A j \in Ids : Live(j)' \/ j \in retired => j <= slots'
    BY <1>4, <1>6, <2>1, <2>2, VfsFacts
  <2>4. \A j \in retired : j \in Ids => ~Live(j)'
    BY <1>6 DEF TableInv, TombstonesHold
  <2>5. QED
    BY <1>1, <2>3, <2>4 DEF TombstonesHold
<1>11. HistoryBehind'
  <2>1. \A d \in denotes : /\ Live(d.file) \/ d.file \in retired
                           /\ Live(d.file) => d.version <= files[d.file].version
    BY DEF TableInv, HistoryBehind
  <2>2. \A d \in denotes : /\ Live(d.file)' \/ d.file \in retired
                           /\ Live(d.file)' => d.version <= files'[d.file].version
    BY <1>6, <1>7, <2>1
  <2>3. Live(new.file)' /\ new.version <= files'[new.file].version
    BY <1>2, <1>3, <1>6
  <2>4. QED
    BY <1>1, <2>2, <2>3 DEF HistoryBehind
<1>12. LiveIsDenoted'
  <2> SUFFICES ASSUME NEW j \in Ids, Live(j)'
               PROVE  /\ files'[j].version <= revision'
                      /\ [file |-> j, version |-> files'[j].version, text |-> Denoted(j)'] \in denotes'
    BY DEF LiveIsDenoted
  <2>1. CASE j = i
    <3>1. Denoted(i)' = meaning
      BY <1>2, <1>6 DEF Denoted, meaning
    <3>2. [file |-> i, version |-> files'[i].version, text |-> Denoted(i)'] = new
      BY <1>2, <1>6, <3>1 DEF new
    <3>3. QED
      BY <1>1, <1>2, <1>4, <1>6, <2>1, <3>2
  <2>2. CASE j # i
    <3>1. Live(j) /\ Denoted(j)' = Denoted(j) /\ files'[j] = files[j]
      BY <1>6, <2>2 DEF Denoted
    <3>2. /\ files[j].version <= revision
          /\ [file |-> j, version |-> files[j].version, text |-> Denoted(j)] \in denotes
      BY <3>1 DEF TableInv, LiveIsDenoted
    <3>3. files[j].version \in Nat
      BY <3>1, VfsAssumption DEF VfsTypeOK, Live, Snapshots
    <3>4. QED
      BY <1>1, <1>4, <3>1, <3>2, <3>3
  <2>3. QED
    BY <2>1, <2>2
<1>13. OneTextPerVersion'
  BY <1>1, <1>3, <1>7 DEF TableInv, OneTextPerVersion
<1>14. QED
  BY <1>1, <1>5, <1>8, <1>9, <1>10, <1>11, <1>12, <1>13 DEF TableInv

\* Replace stores the next version of an interned path.
LEMMA ReplaceKeeps ==
  ASSUME VfsTypeOK, TableInv, NEW i \in Ids, Live(i),
         NEW text \in Texts \cup {Placeholder},
         NEW identity \in Texts \cup {None}, identity = None => text \in Texts,
         Replace(i, text, identity)
  PROVE  VfsTypeOK' /\ TableInv' /\ denotes \subseteq denotes' /\ UNCHANGED readerVars
<1> DEFINE snap == [files[i] EXCEPT !.text = text, !.version = files[i].version + 1]
<1>1. Store(i, snap, identity) /\ UNCHANGED <<byPath, byBasename, slots, retired, loader, edits>>
      /\ UNCHANGED readerVars
  BY DEF Replace
<1>2. files[i] \in Snapshots /\ files[i].version < MaxRevision
  <2>1. files[i] \in Snapshots /\ revision \in 0..MaxRevision /\ revision < MaxRevision
    BY <1>1 DEF VfsTypeOK, Live, Store
  <2>2. files[i].version \in 0..MaxRevision /\ files[i].version <= revision
    BY <2>1 DEF Snapshots, TableInv, LiveIsDenoted
  <2>3. QED
    BY <2>1, <2>2, VfsAssumption
<1>3. snap \in Snapshots /\ snap.path = files[i].path /\ snap.version = files[i].version + 1
      /\ snap.text = text
  BY <1>2, NextVersion
<1> HIDE DEF snap
<1>4. /\ files' \in [Ids -> Snapshots \cup {None}]
      /\ lazy' \in [Ids -> Texts \cup {None}]
      /\ revision' \in 0..MaxRevision
      /\ denotes' \subseteq [file : Ids, version : 0..MaxRevision, text : Texts]
      /\ denotes \subseteq denotes'
      /\ TableInv'
  BY <1>1, <1>3, StoreNextKeeps
<1>5. QED
  BY <1>1, <1>4 DEF VfsTypeOK, readerVars

\* All four ways to intern a path, with the next id or a given one.
LEMMA InternKeeps ==
  ASSUME VfsTypeOK, TableInv, NEW name \in Names,
         NEW text \in Texts \cup {Placeholder},
         NEW identity \in Texts \cup {None}, identity = None => text \in Texts,
         Intern(name, text, identity) \/ \E i \in Ids : InternAt(i, name, text, identity)
  PROVE  VfsTypeOK' /\ TableInv' /\ denotes \subseteq denotes' /\ UNCHANGED readerVars
<1>1. Key[name] \in Keys
  BY VfsFacts
<1>2. byPath[Key[name]] # None => byPath[Key[name]] \in Ids /\ Live(byPath[Key[name]])
  BY <1>1 DEF VfsTypeOK, TableInv, PathIndexExact
<1>3. CASE byPath[Key[name]] # None /\ Replace(byPath[Key[name]], text, identity)
  BY <1>2, <1>3, ReplaceKeeps
<1>4. CASE byPath[Key[name]] = None /\ slots < MaxFiles /\ Place(slots + 1, name, text, identity)
  <2>1. slots + 1 \in Ids /\ slots \in Nat
    BY <1>4, VfsAssumption DEF VfsTypeOK, Ids
  <2>2. ~Live(slots + 1) /\ slots + 1 \notin retired
    BY <2>1 DEF TableInv, TombstonesHold
  <2>3. QED
    BY <1>4, <2>1, <2>2, PlaceKeeps
<1>5. ASSUME NEW i \in Ids, InternAt(i, name, text, identity)
      PROVE  VfsTypeOK' /\ TableInv' /\ denotes \subseteq denotes' /\ UNCHANGED readerVars
  <2>1. CASE byPath[Key[name]] = i /\ Replace(i, text, identity)
    <3>1. Live(i)
      BY <1>2, <2>1, VfsFacts
    <3>2. QED
      BY <2>1, <3>1, ReplaceKeeps
  <2>2. CASE /\ byPath[Key[name]] = None /\ i \notin retired /\ ~Live(i)
             /\ Place(i, name, text, identity)
    BY <2>2, PlaceKeeps
  <2>3. QED
    BY <1>5, <2>1, <2>2 DEF InternAt
<1>6. QED
  BY <1>3, <1>4, <1>5 DEF Intern

\* Removal empties the slot, forgets the path and leaves a tombstone.
LEMMA RemoveKeeps ==
  ASSUME VfsTypeOK, TableInv, NEW name \in Names, Remove(name)
  PROVE  VfsTypeOK' /\ TableInv' /\ denotes' = denotes /\ UNCHANGED readerVars
<1>1. /\ Key[name] \in Keys /\ byPath[Key[name]] \in Ids /\ Live(byPath[Key[name]])
      /\ Key[files[byPath[Key[name]]].path] = Key[name]
  <2>1. Key[name] \in Keys /\ byPath[Key[name]] # None
    BY VfsFacts DEF Remove
  <2>2. QED
    BY <2>1 DEF VfsTypeOK, TableInv, PathIndexExact
<1>2. PICK i \in Ids : i = byPath[Key[name]]
  BY <1>1
<1>3. PICK b0 \in Bases : b0 = BaseOf[Key[name]]
  BY VfsFacts
<1>4. /\ revision < MaxRevision /\ revision' = revision + 1
      /\ byBasename' = [byBasename EXCEPT ![b0] = byBasename[b0] \ {i}]
      /\ byPath' = [byPath EXCEPT ![Key[name]] = None]
      /\ retired' = retired \cup {i}
      /\ files' = [files EXCEPT ![i] = None]
      /\ lazy' = [lazy EXCEPT ![i] = None]
      /\ edits' = [edits EXCEPT ![i] = <<>>]
      /\ UNCHANGED <<slots, loader, denotes>> /\ UNCHANGED readerVars
  BY <1>1, <1>2, <1>3 DEF Remove, Retire
<1>5. VfsTypeOK'
  <2>1. byBasename[b0] \ {i} \in SUBSET Ids
    BY DEF VfsTypeOK
  <2>2. byBasename' \in [Bases -> SUBSET Ids]
    BY <1>4, <2>1 DEF VfsTypeOK
  <2>3. <<>> \in Seq(0..MaxRevision) /\ edits \in [Ids -> Seq(0..MaxRevision)]
    BY DEF VfsTypeOK
  <2>4. edits' \in [Ids -> Seq(0..MaxRevision)]
    BY <1>4, <2>3
  <2>5. revision' \in 0..MaxRevision
    BY <1>4, VfsAssumption DEF VfsTypeOK
  <2>6. QED
    BY <1>4, <2>2, <2>4, <2>5 DEF VfsTypeOK, readerVars
<1>6. /\ files'[i] = None /\ ~Live(i)'
      /\ \A j \in Ids : j # i => files'[j] = files[j] /\ lazy'[j] = lazy[j] /\ (Live(j)' <=> Live(j))
  BY <1>4 DEF VfsTypeOK, Live
<1>7. PathIndexExact'
  <2>1. \A k \in Keys : byPath'[k] = IF k = Key[name] THEN None ELSE byPath[k]
    BY <1>4 DEF VfsTypeOK
  <2>2. ASSUME NEW k \in Keys, byPath'[k] # None
        PROVE  files'[byPath'[k]] # None /\ Key[files'[byPath'[k]].path] = k
    <3>1. k # Key[name] /\ byPath'[k] = byPath[k]
      BY <2>1, <2>2
    <3>2. byPath[k] \in Ids /\ Live(byPath[k]) /\ Key[files[byPath[k]].path] = k
      BY <2>2, <3>1 DEF VfsTypeOK, TableInv, PathIndexExact
    <3>3. byPath[k] # i
      BY <1>1, <1>2, <3>1, <3>2
    <3>4. files'[byPath[k]] = files[byPath[k]]
      BY <1>6, <3>2, <3>3
    <3>5. QED
      BY <3>1, <3>2, <3>4 DEF Live
  <2>3. ASSUME NEW j \in Ids, Live(j)'
        PROVE  byPath'[Key[files'[j].path]] = j
    <3>1. j # i /\ Live(j) /\ files'[j] = files[j]
      BY <1>6, <2>3
    <3>2. files[j].path \in Names
      BY <3>1 DEF VfsTypeOK, Live, Snapshots
    <3>3. byPath[Key[files[j].path]] = j
      BY <3>1 DEF TableInv, PathIndexExact
    <3>4. Key[files[j].path] # Key[name]
      BY <1>2, <3>1, <3>3
    <3>5. QED
      BY <2>1, <3>1, <3>2, <3>3, <3>4, VfsFacts
  <2>4. QED
    BY <2>2, <2>3 DEF PathIndexExact, Live
<1>8. BasenameIndexExact'
  <2> SUFFICES ASSUME NEW b \in Bases
               PROVE  byBasename'[b] = {j \in Ids : Live(j)' /\ BaseOf[Key[files'[j].path]] = b}
    BY DEF BasenameIndexExact
  <2>1. byBasename[b] = {j \in Ids : Live(j) /\ BaseOf[Key[files[j].path]] = b}
    BY DEF TableInv, BasenameIndexExact
  <2>2. byBasename'[b] = IF b = b0 THEN byBasename[b] \ {i} ELSE byBasename[b]
    BY <1>4 DEF VfsTypeOK
  <2>3. BaseOf[Key[files[i].path]] = b0
    BY <1>1, <1>2, <1>3
  <2>4. QED
    BY <1>6, <2>1, <2>2, <2>3
<1>9. TombstonesHold'
  <2>1. Live(i)
    BY <1>1, <1>2
  <2>2. QED
    BY <1>4, <1>6, <2>1 DEF TableInv, TombstonesHold
<1>10. HistoryBehind'
  <2>1. \A d \in denotes : /\ d.file \in Ids
                           /\ Live(d.file) \/ d.file \in retired
                           /\ Live(d.file) => d.version <= files[d.file].version
    BY DEF VfsTypeOK, TableInv, HistoryBehind
  <2>2. \A d \in denotes : /\ Live(d.file)' \/ d.file \in retired'
                           /\ Live(d.file)' => d.version <= files'[d.file].version
    BY <1>4, <1>6, <2>1
  <2>3. QED
    BY <1>4, <2>2 DEF HistoryBehind
<1>11. LiveIsDenoted'
  <2> SUFFICES ASSUME NEW j \in Ids, Live(j)'
               PROVE  /\ files'[j].version <= revision'
                      /\ [file |-> j, version |-> files'[j].version, text |-> Denoted(j)'] \in denotes'
    BY DEF LiveIsDenoted
  <2>1. j # i /\ Live(j) /\ Denoted(j)' = Denoted(j) /\ files'[j] = files[j]
    BY <1>6 DEF Denoted
  <2>2. /\ files[j].version <= revision
        /\ [file |-> j, version |-> files[j].version, text |-> Denoted(j)] \in denotes
    BY <2>1 DEF TableInv, LiveIsDenoted
  <2>3. files[j].version \in Nat /\ revision \in Nat
    BY <2>1, VfsAssumption DEF VfsTypeOK, Live, Snapshots
  <2>4. QED
    BY <1>4, <2>1, <2>2, <2>3
<1>12. OneTextPerVersion'
  BY <1>4 DEF TableInv, OneTextPerVersion
<1>13. QED
  BY <1>4, <1>5, <1>7, <1>8, <1>9, <1>10, <1>11, <1>12 DEF TableInv

-----------------------------------------------------------------------------
\* The table's promises depend on the table alone.
LEMMA TableUnchanged ==
  ASSUME TableInv,
         UNCHANGED <<byPath, byBasename, files, slots, retired, lazy, revision, denotes>>
  PROVE  TableInv'
<1>1. \A i : (Live(i)' <=> Live(i)) /\ Denoted(i)' = Denoted(i)
  BY DEF Live, Denoted
<1>2. PathIndexExact'
  BY DEF Live, TableInv, PathIndexExact
<1>3. BasenameIndexExact'
  BY DEF Live, TableInv, BasenameIndexExact
<1>4. TombstonesHold'
  BY DEF Live, TableInv, TombstonesHold
<1>5. HistoryBehind'
  BY DEF Live, TableInv, HistoryBehind
<1>6. LiveIsDenoted'
  BY DEF Live, Denoted, TableInv, LiveIsDenoted
<1>7. OneTextPerVersion'
  BY DEF TableInv, OneTextPerVersion
<1>8. QED
  BY <1>2, <1>3, <1>4, <1>5, <1>6, <1>7 DEF TableInv

\* The readers' part of the type invariant.
ReaderTypeOK ==
  /\ at \in [Readers -> Places]
  /\ job \in [Readers -> [file : Ids, edit : BOOLEAN]]
  /\ seen \in [Readers -> [path : Names \cup {None}, version : 0..MaxRevision, identity : Texts \cup {None}]]
  /\ got \in [Readers -> Results]

\* A reader at rest holds well-typed values.
LEMMA RestTypes ==
  /\ NoJob \in [file : Ids, edit : BOOLEAN]
  /\ NothingSeen \in [path : Names \cup {None}, version : 0..MaxRevision, identity : Texts \cup {None}]
  /\ NoResult \in Results /\ NoResult.kind # "ok"
BY VfsFacts DEF NoJob, NothingSeen, NoResult, Results

\* A call that fails returns no text.
LEMMA FailKeeps ==
  ASSUME ReaderTypeOK, SnapshotIsDenoted, NEW r \in Readers,
         NEW kind \in {"unknown", "no_loader", "load_error"}, Fail(r, kind), denotes' = denotes
  PROVE  ReaderTypeOK' /\ SnapshotIsDenoted'
<1> DEFINE result == [NoResult EXCEPT !.kind = kind, !.file = job[r].file]
<1>1. result = [kind |-> kind, file |-> job[r].file, version |-> 0, text |-> None]
  <2>1. DOMAIN NoResult = {"kind", "file", "version", "text"} /\ NoResult.version = 0 /\ NoResult.text = None
    BY DEF NoResult
  <2>2. /\ result.kind = kind /\ result.file = job[r].file
        /\ result.version = 0 /\ result.text = None
    BY <2>1
  <2>3. result = [f \in {"kind", "file", "version", "text"} |-> result[f]]
    BY <2>1
  <2> HIDE DEF result
  <2>4. QED
    BY <2>2, <2>3
<1>2. job[r].file \in Ids
  BY DEF ReaderTypeOK
<1>3. result \in Results /\ result.kind # "ok"
  BY <1>1, <1>2, VfsFacts DEF Results
<1> HIDE DEF result
<1>4. /\ got' = [got EXCEPT ![r] = result] /\ at' = [at EXCEPT ![r] = "idle"]
      /\ seen' = [seen EXCEPT ![r] = NothingSeen] /\ job' = [job EXCEPT ![r] = NoJob]
  BY DEF Fail, result
<1>5. ReaderTypeOK'
  BY <1>3, <1>4, RestTypes DEF ReaderTypeOK, Places
<1>6. SnapshotIsDenoted'
  BY <1>3, <1>4 DEF ReaderTypeOK, SnapshotIsDenoted
<1>7. QED
  BY <1>5, <1>6

\* A call that returns a snapshot of its file returns what the version denotes.
LEMMA ReturnKeeps ==
  ASSUME ReaderTypeOK, SnapshotIsDenoted, NEW r \in Readers,
         NEW snap \in Snapshots, Return(r, snap), denotes' = denotes,
         [file |-> job[r].file, version |-> snap.version, text |-> snap.text] \in denotes
  PROVE  ReaderTypeOK' /\ SnapshotIsDenoted'
<1> DEFINE result == [kind |-> "ok", file |-> job[r].file, version |-> snap.version, text |-> snap.text]
           next == IF job[r].edit THEN job[r] ELSE NoJob
           place == IF job[r].edit THEN "editing" ELSE "idle"
<1>1. job[r] \in [file : Ids, edit : BOOLEAN] /\ job[r].file \in Ids
  BY DEF ReaderTypeOK
<1>2. result \in Results /\ next \in [file : Ids, edit : BOOLEAN] /\ place \in Places
  BY <1>1, RestTypes DEF Results, Snapshots, Places
<1>3. [file |-> result.file, version |-> result.version, text |-> result.text] \in denotes
  OBVIOUS
<1>4. /\ got' = [got EXCEPT ![r] = result] /\ at' = [at EXCEPT ![r] = place]
      /\ seen' = [seen EXCEPT ![r] = NothingSeen] /\ job' = [job EXCEPT ![r] = next]
  BY DEF Return
<1> HIDE DEF result, next, place
<1>5. ReaderTypeOK'
  BY <1>2, <1>4, RestTypes DEF ReaderTypeOK
<1>6. SnapshotIsDenoted'
  BY <1>3, <1>4 DEF ReaderTypeOK, SnapshotIsDenoted
<1>7. QED
  BY <1>5, <1>6

\* The read section and the supersession of a load leave the table alone and
\* answer from it.
LEMMA ReadingKeeps ==
  ASSUME VfsInv, NEW r \in Readers, Capture(r) \/ Superseded(r) \/ Retry(r)
  PROVE  VfsInv'
<1> DEFINE i == job[r].file
<1>1. ReaderTypeOK /\ SnapshotIsDenoted /\ TableInv /\ i \in Ids
  BY DEF VfsInv, VfsTypeOK, ReaderTypeOK, TableInv
<1>2. UNCHANGED tableVars
  BY DEF Capture, Superseded, Retry
<1>3. TableInv'
  BY <1>1, <1>2, TableUnchanged DEF tableVars
<1>4. Live(i) => files[i] \in Snapshots /\ lazy[i] \in Texts \cup {None}
  BY <1>1 DEF VfsInv, VfsTypeOK, Live
<1>5. ReaderTypeOK' /\ SnapshotIsDenoted'
  <2>1. CASE \E kind \in {"unknown", "no_loader"} : Fail(r, kind)
    BY <1>1, <1>2, <2>1, FailKeeps DEF tableVars
  <2>2. CASE Live(i) /\ lazy[i] = None /\ Return(r, files[i])
    <3>1. [file |-> i, version |-> files[i].version, text |-> files[i].text] \in denotes
      BY <1>1, <2>2 DEF TableInv, LiveIsDenoted, Denoted
    <3>2. QED
      BY <1>1, <1>2, <1>4, <2>2, <3>1, ReturnKeeps DEF tableVars
  <2>3. CASE /\ Live(i)
             /\ at' = [at EXCEPT ![r] = "loading"]
             /\ seen' = [seen EXCEPT ![r] = [path |-> files[i].path, version |-> files[i].version,
                                             identity |-> lazy[i]]]
             /\ UNCHANGED <<job, got>>
    <3>1. [path |-> files[i].path, version |-> files[i].version, identity |-> lazy[i]]
            \in [path : Names \cup {None}, version : 0..MaxRevision, identity : Texts \cup {None}]
      BY <1>4, <2>3 DEF Snapshots
    <3>2. ReaderTypeOK'
      BY <1>1, <2>3, <3>1 DEF ReaderTypeOK, Places
    <3>3. QED
      BY <1>1, <1>2, <2>3, <3>2 DEF SnapshotIsDenoted, tableVars
  <2>4. CASE Retry(r)
    <3>1. ReaderTypeOK'
      BY <1>1, <2>4, RestTypes DEF Retry, ReaderTypeOK, Places
    <3>2. QED
      BY <1>1, <1>2, <2>4, <3>1 DEF Retry, SnapshotIsDenoted, tableVars
  <2>5. QED
    BY <2>1, <2>2, <2>3, <2>4 DEF Capture, Superseded
<1>6. QED
  BY <1>2, <1>3, <1>5 DEF VfsInv, VfsTypeOK, ReaderTypeOK, TableInv, tableVars

\* The loader's text is the identity the entry still has, so publishing it keeps
\* what the file means.
LEMMA InstallMeaning ==
  ASSUME VfsInv, NEW r \in Readers, Install(r, TRUE)
  PROVE  \E i \in Ids, snap \in Snapshots :
           /\ i = job[r].file /\ Live(i) /\ lazy[i] \in Texts
           /\ snap.path = files[i].path /\ snap.version = files[i].version /\ snap.text = lazy[i]
           /\ files' = [files EXCEPT ![i] = snap]
           /\ lazy' = [lazy EXCEPT ![i] = None]
           /\ Return(r, snap)
           /\ UNCHANGED <<byPath, byBasename, slots, retired, loader, edits, revision, denotes>>
<1>1. PICK i \in Ids : i = job[r].file
  BY DEF VfsInv, VfsTypeOK
<1>2. /\ Live(i) /\ lazy[i] # None /\ lazy[i] = seen[r].identity
      /\ files' = [files EXCEPT ![i] = [files[i] EXCEPT !.text = seen[r].identity]]
      /\ lazy' = [lazy EXCEPT ![i] = None]
      /\ Return(r, [files[i] EXCEPT !.text = seen[r].identity])
      /\ UNCHANGED <<byPath, byBasename, slots, retired, loader, edits, revision, denotes>>
  BY <1>1 DEF Install, SameEntry, VfsInv, VfsTypeOK
<1>3. files[i] \in Snapshots /\ lazy[i] \in Texts
  BY <1>2 DEF VfsInv, VfsTypeOK, Live
<1> DEFINE snap == [files[i] EXCEPT !.text = seen[r].identity]
<1>4. snap \in Snapshots /\ snap.path = files[i].path /\ snap.version = files[i].version
      /\ snap.text = lazy[i]
  BY <1>2, <1>3 DEF Snapshots
<1> HIDE DEF snap
<1>5. files' = [files EXCEPT ![i] = snap] /\ Return(r, snap)
  BY <1>2 DEF snap
<1>6. QED
  BY <1>1, <1>2, <1>3, <1>4, <1>5

\* A first load changes neither the version nor the meaning of any file.
LEMMA InstallKeeps ==
  ASSUME VfsInv, NEW r \in Readers, NEW ok \in BOOLEAN, Install(r, ok)
  PROVE  VfsInv'
<1>1. ReaderTypeOK /\ SnapshotIsDenoted /\ TableInv
  BY DEF VfsInv, VfsTypeOK, ReaderTypeOK, TableInv
<1>2. CASE Fail(r, "load_error") /\ UNCHANGED tableVars
  <2>1. ReaderTypeOK' /\ SnapshotIsDenoted'
    BY <1>1, <1>2, FailKeeps DEF tableVars
  <2>2. TableInv'
    BY <1>1, <1>2, TableUnchanged DEF tableVars
  <2>3. QED
    BY <1>2, <2>1, <2>2 DEF VfsInv, VfsTypeOK, ReaderTypeOK, TableInv, tableVars
<1>3. CASE Install(r, TRUE)
  <2>1. PICK i \in Ids, snap \in Snapshots :
           /\ i = job[r].file /\ Live(i) /\ lazy[i] \in Texts
           /\ snap.path = files[i].path /\ snap.version = files[i].version /\ snap.text = lazy[i]
           /\ files' = [files EXCEPT ![i] = snap]
           /\ lazy' = [lazy EXCEPT ![i] = None]
           /\ Return(r, snap)
           /\ UNCHANGED <<byPath, byBasename, slots, retired, loader, edits, revision, denotes>>
    BY <1>3, InstallMeaning
  <2>2. [file |-> i, version |-> snap.version, text |-> snap.text] \in denotes
    BY <1>1, <2>1, VfsFacts DEF TableInv, LiveIsDenoted, Denoted
  <2>3. ReaderTypeOK' /\ SnapshotIsDenoted'
    BY <1>1, <2>1, <2>2, ReturnKeeps
  <2>4. VfsTypeOK'
    BY <2>1, <2>3 DEF VfsInv, VfsTypeOK, ReaderTypeOK
  <2>5. /\ files'[i] = snap /\ lazy'[i] = None
        /\ \A j \in Ids : j # i => files'[j] = files[j] /\ lazy'[j] = lazy[j]
    BY <2>1 DEF VfsInv, VfsTypeOK
  <2>6. \A j \in Ids : /\ Live(j)' <=> Live(j)
                       /\ Live(j) => files'[j].path = files[j].path /\ files'[j].version = files[j].version
    BY <2>1, <2>5, VfsFacts DEF Live
  <2>7. \A j \in Ids : Denoted(j)' = Denoted(j)
    BY <2>1, <2>5, VfsFacts DEF Denoted
  <2>8. PathIndexExact'
    <3>1. \A k \in Keys : byPath[k] # None => byPath[k] \in Ids
      BY DEF VfsInv, VfsTypeOK
    <3>2. QED
      BY <1>1, <2>1, <2>6, <3>1 DEF TableInv, PathIndexExact
  <2>9. BasenameIndexExact'
    BY <1>1, <2>1, <2>6 DEF TableInv, BasenameIndexExact
  <2>10. TombstonesHold'
    BY <1>1, <2>1, <2>6 DEF TableInv, TombstonesHold
  <2>11. HistoryBehind'
    <3>1. \A d \in denotes : d.file \in Ids
      BY DEF VfsInv, VfsTypeOK
    <3>2. QED
      BY <1>1, <2>1, <2>6, <3>1 DEF TableInv, HistoryBehind
  <2>12. LiveIsDenoted'
    BY <1>1, <2>1, <2>6, <2>7 DEF TableInv, LiveIsDenoted
  <2>13. OneTextPerVersion'
    BY <1>1, <2>1 DEF TableInv, OneTextPerVersion
  <2>14. QED
    BY <2>3, <2>4, <2>8, <2>9, <2>10, <2>11, <2>12, <2>13 DEF VfsInv
<1>4. QED
  BY <1>2, <1>3 DEF Install

\* The write section of apply_edits stores the next version of a live file.
LEMMA ApplyEditsKeeps ==
  ASSUME VfsInv, NEW r \in Readers, NEW text \in Texts, ApplyEdits(r, text)
  PROVE  VfsInv'
<1>1. PICK i \in Ids : i = job[r].file
  BY DEF VfsInv, VfsTypeOK
<1> DEFINE snap == [files[i] EXCEPT !.text = text, !.version = files[i].version + 1]
<1>2. /\ Live(i) /\ Store(i, snap, None)
      /\ edits' = [edits EXCEPT ![i] = Append(edits[i], files[i].version)]
      /\ EndEdits(r)
      /\ UNCHANGED <<byPath, byBasename, slots, retired, loader, seen>>
  BY <1>1 DEF ApplyEdits
<1>3. VfsTypeOK /\ ReaderTypeOK /\ SnapshotIsDenoted /\ TableInv
  BY DEF VfsInv, VfsTypeOK, ReaderTypeOK, TableInv
<1>4. files[i] \in Snapshots /\ files[i].version \in 0..MaxRevision /\ files[i].version < MaxRevision
  <2>1. files[i] \in Snapshots /\ revision \in 0..MaxRevision /\ revision < MaxRevision
    BY <1>2, <1>3 DEF VfsTypeOK, Live, Store
  <2>2. files[i].version \in 0..MaxRevision /\ files[i].version <= revision
    BY <1>2, <1>3, <2>1 DEF Snapshots, TableInv, LiveIsDenoted
  <2>3. QED
    BY <2>1, <2>2, VfsAssumption
<1>5. snap \in Snapshots /\ snap.path = files[i].path /\ snap.version = files[i].version + 1
      /\ snap.text = text
  BY <1>4, NextVersion
<1> HIDE DEF snap
<1>6. /\ files' \in [Ids -> Snapshots \cup {None}]
      /\ lazy' \in [Ids -> Texts \cup {None}]
      /\ revision' \in 0..MaxRevision
      /\ denotes' \subseteq [file : Ids, version : 0..MaxRevision, text : Texts]
      /\ denotes \subseteq denotes'
      /\ TableInv'
  BY <1>2, <1>3, <1>5, StoreNextKeeps
<1>7. ReaderTypeOK' /\ SnapshotIsDenoted'
  BY <1>2, <1>3, <1>6, RestTypes DEF EndEdits, ReaderTypeOK, SnapshotIsDenoted, Places
<1>8. edits' \in [Ids -> Seq(0..MaxRevision)]
  <2>1. edits[i] \in Seq(0..MaxRevision)
    BY <1>3 DEF VfsTypeOK
  <2>2. Append(edits[i], files[i].version) \in Seq(0..MaxRevision)
    BY <1>4, <2>1
  <2>3. QED
    BY <1>2, <1>3, <2>2 DEF VfsTypeOK
<1>9. QED
  BY <1>2, <1>3, <1>6, <1>7, <1>8 DEF VfsInv, VfsTypeOK, ReaderTypeOK, TableInv

\* Everything else changes no file.
LEMMA OtherKeeps ==
  ASSUME VfsInv,
         \/ SetLazyLoader \/ UNCHANGED vars
         \/ \E i \in Ids : TakeEdits(i)
         \/ \E r \in Readers :
              \/ \E i \in Ids, edit \in BOOLEAN : Call(r, i, edit)
              \/ \E mixed \in BOOLEAN : ApplyEditsFails(r, mixed)
  PROVE  VfsInv'
<1>1. ReaderTypeOK /\ SnapshotIsDenoted /\ TableInv
  BY DEF VfsInv, VfsTypeOK, ReaderTypeOK, TableInv
<1>2. UNCHANGED <<byPath, byBasename, files, slots, retired, lazy, revision, denotes>>
  BY DEF SetLazyLoader, TakeEdits, Call, ApplyEditsFails, vars, tableVars
<1>3. TableInv'
  BY <1>1, <1>2, TableUnchanged
<1>4. loader' \in BOOLEAN /\ edits' \in [Ids -> Seq(0..MaxRevision)]
  <2>1. /\ <<>> \in Seq(0..MaxRevision)
        /\ loader \in BOOLEAN /\ edits \in [Ids -> Seq(0..MaxRevision)]
    BY DEF VfsInv, VfsTypeOK
  <2>2. loader' = loader \/ loader' = TRUE
    BY DEF SetLazyLoader, TakeEdits, Call, ApplyEditsFails, vars, tableVars
  <2>3. edits' = edits \/ \E i \in Ids : edits' = [edits EXCEPT ![i] = <<>>]
    BY DEF SetLazyLoader, TakeEdits, Call, ApplyEditsFails, vars, tableVars
  <2>4. QED
    BY <2>1, <2>2, <2>3
<1>5. ReaderTypeOK' /\ SnapshotIsDenoted'
  <2>1. CASE UNCHANGED readerVars
    BY <1>1, <1>2, <2>1 DEF readerVars, ReaderTypeOK, SnapshotIsDenoted
  <2>2. ASSUME NEW r \in Readers, NEW i \in Ids, NEW edit \in BOOLEAN, Call(r, i, edit)
        PROVE  ReaderTypeOK' /\ SnapshotIsDenoted'
    BY <1>1, <1>2, <2>2, RestTypes DEF Call, ReaderTypeOK, SnapshotIsDenoted, Places
  <2>3. ASSUME NEW r \in Readers, NEW mixed \in BOOLEAN, ApplyEditsFails(r, mixed)
        PROVE  ReaderTypeOK' /\ SnapshotIsDenoted'
    BY <1>1, <1>2, <2>3, RestTypes
       DEF ApplyEditsFails, EndEdits, ReaderTypeOK, SnapshotIsDenoted, Places
  <2>4. QED
    BY <2>1, <2>2, <2>3 DEF SetLazyLoader, TakeEdits, vars
<1>6. QED
  BY <1>2, <1>3, <1>4, <1>5 DEF VfsInv, VfsTypeOK, ReaderTypeOK, TableInv

-----------------------------------------------------------------------------
\* Every step of a writer or a reader preserves the invariant.
LEMMA VfsInvStep ==
  ASSUME VfsInv, [Next]_vars
  PROVE  VfsInv'
<1>1. CASE Interning
  <2>1. VfsTypeOK /\ TableInv /\ SnapshotIsDenoted
    BY DEF VfsInv, TableInv
  <2>2. VfsTypeOK' /\ TableInv' /\ denotes \subseteq denotes' /\ UNCHANGED readerVars
    <3>1. ASSUME NEW name \in Names, NEW text \in Texts,
                 \/ Write(name, text)
                 \/ \E i \in Ids : WriteWithId(i, name, text)
          PROVE  VfsTypeOK' /\ TableInv' /\ denotes \subseteq denotes' /\ UNCHANGED readerVars
      BY <2>1, <3>1, InternKeeps DEF Write, WriteWithId
    <3>2. ASSUME NEW name \in Names, NEW text \in Texts,
                 \/ WriteLazy(name, text)
                 \/ \E i \in Ids : WriteLazyWithId(i, name, text)
          PROVE  VfsTypeOK' /\ TableInv' /\ denotes \subseteq denotes' /\ UNCHANGED readerVars
      BY <2>1, <3>2, InternKeeps, VfsFacts DEF WriteLazy, WriteLazyWithId
    <3>3. ASSUME NEW name \in Names, Remove(name)
          PROVE  VfsTypeOK' /\ TableInv' /\ denotes \subseteq denotes' /\ UNCHANGED readerVars
      BY <2>1, <3>3, RemoveKeeps
    <3>4. QED
      BY <1>1, <3>1, <3>2, <3>3 DEF Interning
  <2>3. SnapshotIsDenoted'
    BY <2>1, <2>2 DEF SnapshotIsDenoted, readerVars
  <2>4. QED
    BY <2>2, <2>3 DEF VfsInv, TableInv
<1>2. ASSUME NEW r \in Readers, Reading(r) \/ Editing(r) PROVE VfsInv'
  BY <1>2, ReadingKeeps, InstallKeeps, ApplyEditsKeeps, OtherKeeps DEF Reading, Editing
<1>3. QED
  BY <1>1, <1>2, OtherKeeps DEF Next

\* The invariant of the VFS holds throughout.
LEMMA VfsInvHolds == Spec => []VfsInv
<1>1. Init => VfsInv
  <2> SUFFICES ASSUME Init PROVE VfsInv
    OBVIOUS
  <2>1. <<>> \in Seq(0..MaxRevision)
    OBVIOUS
  <2>2. VfsTypeOK
    BY <2>1, RestTypes, VfsFacts DEF Init, VfsTypeOK, Places
  <2>3. \A i \in Ids : ~Live(i)
    BY DEF Init, Live
  <2>4. QED
    BY <2>2, <2>3, RestTypes DEF Init, VfsInv, PathIndexExact, BasenameIndexExact, TombstonesHold,
         HistoryBehind, LiveIsDenoted, OneTextPerVersion, SnapshotIsDenoted
<1>2. VfsInv /\ [Next]_vars => VfsInv'
  BY VfsInvStep
<1>3. QED
  BY <1>1, <1>2, PTL DEF Spec

\* The table and its readers keep their types: versions and revisions stay
\* within the number of changes, ids within the table.
THEOREM VfsTypes == Spec => []VfsTypeOK
<1>1. VfsInv => VfsTypeOK
  BY DEF VfsInv
<1>2. QED
  BY <1>1, VfsInvHolds, PTL

\* A (FileId, version) pair means one text for ever: caches keyed by it never
\* serve a result of other bytes.
THEOREM VfsOneTextPerVersion == Spec => []OneTextPerVersion
<1>1. VfsInv => OneTextPerVersion
  BY DEF VfsInv
<1>2. QED
  BY <1>1, VfsInvHolds, PTL

\* snapshot returns the text its version was written to mean, whatever writers
\* did to the file while the loader ran.
THEOREM VfsSnapshotIsDenoted == Spec => []SnapshotIsDenoted
<1>1. VfsInv => SnapshotIsDenoted
  BY DEF VfsInv
<1>2. QED
  BY <1>1, VfsInvHolds, PTL

\* unique_file_ending_with answers what a scan of all live files would.
THEOREM VfsSuffixLookupExact == Spec => []SuffixLookupExact
<1>1. VfsInv => SuffixLookupExact
  <2> SUFFICES ASSUME VfsInv, NEW s \in Suffixes
               PROVE  LET all == {i \in Ids : Live(i) /\ Key[files[i].path] \in EndsIn[s]}
                      IN  UniqueFileEndingWith(s) = IF Cardinality(all) = 1 THEN all ELSE {}
    BY DEF SuffixLookupExact
  <2> DEFINE all == {i \in Ids : Live(i) /\ Key[files[i].path] \in EndsIn[s]}
             candidates == IF SuffixBase[s] \in Bases THEN byBasename[SuffixBase[s]] ELSE {}
             matches == {i \in candidates : Live(i) /\ Key[files[i].path] \in EndsIn[s]}
  <2>1. \A i \in all : BaseOf[Key[files[i].path]] = SuffixBase[s] /\ SuffixBase[s] \in Bases
    <3> SUFFICES ASSUME NEW i \in all
                 PROVE  BaseOf[Key[files[i].path]] = SuffixBase[s] /\ SuffixBase[s] \in Bases
      OBVIOUS
    <3>1. BaseOf[Key[files[i].path]] = SuffixBase[s]
      BY VfsAssumption
    <3>2. files[i].path \in Names
      BY DEF VfsInv, VfsTypeOK, Live, Snapshots
    <3>3. QED
      BY <3>1, <3>2, VfsFacts
  <2>2. SuffixBase[s] \in Bases =>
          byBasename[SuffixBase[s]] = {i \in Ids : Live(i) /\ BaseOf[Key[files[i].path]] = SuffixBase[s]}
    BY DEF VfsInv, BasenameIndexExact
  <2>3. matches = all
    BY <2>1, <2>2
  <2>4. QED
    BY <2>3 DEF UniqueFileEndingWith
<1>2. QED
  BY <1>1, VfsInvHolds, PTL

\* While the revision stands still no file changes its version, existence or
\* meaning: only a first load touches a file without counting a revision, and it
\* publishes what the identity stood for.
THEOREM VfsRevisionCoversContent == Spec => RevisionCoversContent
<1> DEFINE Covered == revision' = revision =>
                        \A i \in Ids : /\ Live(i)' <=> Live(i)
                                       /\ Live(i) => /\ files'[i].version = files[i].version
                                                     /\ Denoted(i)' = Denoted(i)
<1>1. VfsInv /\ [Next]_vars => [Covered]_vars
  <2> SUFFICES ASSUME VfsInv, Next PROVE Covered
    OBVIOUS
  <2>1. revision \in Nat
    BY VfsAssumption DEF VfsInv, VfsTypeOK
  <2>2. CASE UNCHANGED <<files, lazy>>
    BY <2>2 DEF Live, Denoted
  <2>3. CASE revision' = revision + 1
    BY <2>1, <2>3
  <2>4. ASSUME NEW r \in Readers, Install(r, TRUE) PROVE Covered
    <3>1. PICK i \in Ids, snap \in Snapshots :
             /\ i = job[r].file /\ Live(i) /\ lazy[i] \in Texts
             /\ snap.path = files[i].path /\ snap.version = files[i].version /\ snap.text = lazy[i]
             /\ files' = [files EXCEPT ![i] = snap]
             /\ lazy' = [lazy EXCEPT ![i] = None]
             /\ Return(r, snap)
             /\ UNCHANGED <<byPath, byBasename, slots, retired, loader, edits, revision, denotes>>
      BY <2>4, InstallMeaning
    <3>2. /\ files'[i] = snap /\ lazy'[i] = None
          /\ \A j \in Ids : j # i => files'[j] = files[j] /\ lazy'[j] = lazy[j]
      BY <3>1 DEF VfsInv, VfsTypeOK
    <3>3. \A j \in Ids : /\ Live(j)' <=> Live(j)
                         /\ Live(j) => files'[j].version = files[j].version
      BY <3>1, <3>2, VfsFacts DEF Live
    <3>4. \A j \in Ids : Denoted(j)' = Denoted(j)
      BY <3>1, <3>2, VfsFacts DEF Denoted
    <3>5. QED
      BY <3>3, <3>4
  <2>5. CASE Interning
    <3>1. ASSUME NEW i, NEW name, NEW text, NEW identity,
                 Replace(i, text, identity) \/ Place(i, name, text, identity)
          PROVE  revision' = revision + 1
      BY <3>1 DEF Replace, Place, Store
    <3>2. revision' = revision + 1
      BY <2>5, <3>1 DEF Interning, Write, WriteLazy, WriteWithId, WriteLazyWithId, Intern,
           InternAt, Remove, Retire
    <3>3. QED
      BY <2>3, <3>2
  <2>6. ASSUME NEW r \in Readers, Reading(r) PROVE Covered
    <3>1. CASE Capture(r) \/ Superseded(r) \/ Retry(r)
      BY <2>2, <3>1 DEF Capture, Superseded, Retry, tableVars
    <3>2. ASSUME NEW ok \in BOOLEAN, Install(r, ok) PROVE Covered
      <4>1. CASE ok
        BY <2>4, <3>2, <4>1
      <4>2. CASE ~ok
        BY <2>2, <3>2, <4>2 DEF Install, tableVars
      <4>3. QED
        BY <4>1, <4>2
    <3>3. QED
      BY <2>6, <3>1, <3>2 DEF Reading
  <2>7. ASSUME NEW r \in Readers, Editing(r) PROVE Covered
    BY <2>2, <2>3, <2>7 DEF Editing, ApplyEdits, Store, ApplyEditsFails, tableVars
  <2>8. QED
    BY <2>2, <2>5, <2>6, <2>7 DEF Next, SetLazyLoader, TakeEdits, Call, tableVars
<1>2. QED
  BY <1>1, VfsInvHolds, PTL DEF Spec, RevisionCoversContent
=============================================================================
