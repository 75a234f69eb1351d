---------------------------- MODULE ParserCache ----------------------------
(***************************************************************************)
(* ParserCache (crates/parser/src/lib.rs): parse_snapshot by several       *)
(* threads, for one cache key (one file and grammar; keys do not interact) *)
(* and the grammar's parser pool, while writers change the file and the    *)
(* other sources its recovery consults (reachable preprocessor headers).   *)
(*                                                                         *)
(* A source text stands for its version: parsed_matches_snapshot compares  *)
(* the version and the Arc of the text, and one version has one text       *)
(* (module Vfs).  A context stands for its fingerprint.                    *)
(***************************************************************************)
EXTENDS Naturals, FiniteSets

CONSTANTS
  Threads,
  Contexts,     \* states of the sources outside the file
  None,
  MaxRevision   \* bound: writes to the VFS

ASSUME ParserAssumption == MaxRevision \in Nat /\ None \notin Contexts /\ IsFiniteSet(Threads)

VARIABLES
  version,      \* the file's current version
  context,      \* the current state of the other sources
  revision,     \* Vfs::revision
  cache,        \* the entry under the key, or None
  idle,         \* parsers in the grammar's pool
  created,      \* history: parsers ever made for the grammar
  at,           \* at[t]: where thread t is in parse_snapshot
  snapshot,     \* snapshot[t]: version of the requested snapshot
  print,        \* print[t]: context_fingerprint
  seenRev,      \* seenRev[t]: context_revision
  old,          \* old[t]: the entry read for an incremental reparse, until it is used
  built,        \* built[t]: the tree, used_recovery and timed_out of t's parse
  out           \* out[t]: the ParsedFile of t's last call, or None

worldVars == <<version, context, revision>>
poolVars == <<idle, created>>
localVars == <<snapshot, print, seenRev, old>>
vars == <<worldVars, cache, poolVars, at, localVars, built, out>>

\* What is true of a tree, which the code cannot see.  partial: it is the
\* timeout's placeholder, or its parser buffer was a normalized or recovered one,
\* so it does not describe the source text; foreign: it consulted a context other
\* than the one fingerprinted; corrupt: it was edited out of a tree that did not
\* describe its source, or out of a corrupt one.
Trees == [partial : BOOLEAN, foreign : BOOLEAN, corrupt : BOOLEAN]

\* A tree with what parse_snapshot records about it on the way.
Builds == [tree : Trees, used_recovery : BOOLEAN, timed_out : BOOLEAN]
NoBuild == [tree |-> [partial |-> FALSE, foreign |-> FALSE, corrupt |-> FALSE],
            used_recovery |-> FALSE, timed_out |-> FALSE]

\* A ParsedFile.  timeout: its diagnostics include "parse-timeout".
Entries == [version : 0..MaxRevision, print : Contexts, rev : 0..MaxRevision,
            tree : Trees, used_recovery : BOOLEAN, timeout : BOOLEAN]
Working == {"checked_out", "rechecked", "parsing", "recovering"}

ParserTypeOK ==
  /\ version \in 0..MaxRevision /\ revision \in 0..MaxRevision /\ context \in Contexts
  /\ cache \in Entries \cup {None}
  /\ idle \in Nat /\ created \in Nat
  /\ at \in [Threads -> {"idle", "start", "printed", "lookup", "missed", "insert"} \cup Working]
  /\ snapshot \in [Threads -> 0..MaxRevision]
  /\ print \in [Threads -> Contexts]
  /\ seenRev \in [Threads -> 0..MaxRevision]
  /\ old \in [Threads -> Entries \cup {None}]
  /\ built \in [Threads -> Builds]
  /\ out \in [Threads -> Entries \cup {None}]

Init ==
  /\ version = 0 /\ revision = 0 /\ context \in Contexts
  /\ cache = None
  /\ idle = 0 /\ created = 0
  /\ at = [t \in Threads |-> "idle"]
  /\ snapshot = [t \in Threads |-> 0]
  /\ print = [t \in Threads |-> context]
  /\ seenRev = [t \in Threads |-> 0]
  /\ old = [t \in Threads |-> None]
  /\ built = [t \in Threads |-> NoBuild]
  /\ out = [t \in Threads |-> None]

-----------------------------------------------------------------------------
(* The VFS and invalidation. *)

WriteFile ==
  /\ revision < MaxRevision
  /\ version' = version + 1
  /\ revision' = revision + 1
  /\ UNCHANGED <<context, cache, poolVars, at, localVars, built, out>>

WriteContext(c) ==
  /\ revision < MaxRevision
  /\ context' = c
  /\ revision' = revision + 1
  /\ UNCHANGED <<version, cache, poolVars, at, localVars, built, out>>

\* release by a lowering phase, or invalidate after an edit.
Release ==
  /\ cache # None
  /\ cache' = None
  /\ UNCHANGED <<worldVars, poolVars, at, localVars, built, out>>

-----------------------------------------------------------------------------
(* parse_snapshot. *)

Matches(entry, t) == entry # None /\ entry.version = snapshot[t] /\ entry.print = print[t]

\* ParserLease::drop.
ReturnParser == idle' = idle + 1 /\ UNCHANGED created

Return(t, entry) ==
  /\ out' = [out EXCEPT ![t] = entry]
  /\ at' = [at EXCEPT ![t] = "idle"]
  /\ old' = [old EXCEPT ![t] = None]
  /\ built' = [built EXCEPT ![t] = NoBuild]
  /\ seenRev' = [seenRev EXCEPT ![t] = 0]
  /\ UNCHANGED <<snapshot, print>>

Goto(t, place) == at' = [at EXCEPT ![t] = place]

\* parse takes the current snapshot; an adapter passes one it already walks.
Call(t) ==
  /\ at[t] = "idle"
  /\ \E v \in 0..version : snapshot' = [snapshot EXCEPT ![t] = v]
  /\ out' = [out EXCEPT ![t] = None]
  /\ Goto(t, "start")
  /\ UNCHANGED <<worldVars, cache, poolVars, print, seenRev, old, built>>

Fingerprint(t) ==
  /\ at[t] = "start"
  /\ print' = [print EXCEPT ![t] = context]
  /\ Goto(t, "printed")
  /\ UNCHANGED <<worldVars, cache, poolVars, snapshot, seenRev, old, built, out>>

ReadRevision(t) ==
  /\ at[t] = "printed"
  /\ seenRev' = [seenRev EXCEPT ![t] = revision]
  /\ Goto(t, "lookup")
  /\ UNCHANGED <<worldVars, cache, poolVars, snapshot, print, old, built, out>>

Lookup(t) ==
  /\ at[t] = "lookup"
  /\ \/ Matches(cache, t) /\ Return(t, cache)
     \/ ~Matches(cache, t) /\ Goto(t, "missed") /\ UNCHANGED <<localVars, built, out>>
  /\ UNCHANGED <<worldVars, cache, poolVars>>

\* pop().unwrap_or_default(); the language may fail to load before it.
Checkout(t) ==
  /\ at[t] = "missed"
  /\ \/ idle > 0 /\ idle' = idle - 1 /\ UNCHANGED created
     \/ idle = 0 /\ created' = created + 1 /\ UNCHANGED idle
  /\ Goto(t, "checked_out")
  /\ UNCHANGED <<worldVars, cache, localVars, built, out>>

\* A peer may have finished this exact snapshot meanwhile.
Recheck(t) ==
  /\ at[t] = "checked_out"
  /\ \/ Matches(cache, t) /\ Return(t, cache) /\ ReturnParser
     \/ ~Matches(cache, t) /\ Goto(t, "rechecked") /\ UNCHANGED <<poolVars, localVars, built, out>>
  /\ UNCHANGED <<worldVars, cache>>

ReadOld(t) ==
  /\ at[t] = "rechecked"
  /\ old' = [old EXCEPT ![t] = cache]
  /\ Goto(t, "parsing")
  /\ UNCHANGED <<worldVars, cache, poolVars, snapshot, print, seenRev, built, out>>

\* tree_sitter_language_for_path, set_language or a parse without a result:
\* `?` returns, and the lease drops a parser it already holds.
ParseFails(t) ==
  /\ at[t] = "missed" \/ at[t] \in Working \ {"checked_out", "rechecked"}
  /\ IF at[t] = "missed" THEN UNCHANGED poolVars ELSE ReturnParser
  /\ Return(t, None)
  /\ UNCHANGED <<worldVars, cache>>

\* incremental_tree: a tree of this context that neither flag excludes.
Hint(t) ==
  /\ old[t] # None
  /\ old[t].print = print[t]
  /\ ~old[t].used_recovery
  /\ ~old[t].timeout

\* parse_normalization_edits consults the sources before the first parse; a
\* normalized buffer is parsed from nothing, and so is the empty text after a
\* timeout.  A damaged tree goes to recovery.
Parse(t, normalized, timedOut, damaged) ==
  LET edited == ~normalized /\ ~timedOut /\ Hint(t)
      tree == [partial |-> normalized \/ timedOut,
               foreign |-> normalized /\ context # print[t],
               corrupt |-> edited /\ (old[t].tree.partial \/ old[t].tree.corrupt)]
  IN
  /\ at[t] = "parsing"
  /\ built' = [built EXCEPT ![t] =
                 [tree |-> tree, used_recovery |-> normalized, timed_out |-> timedOut]]
  /\ IF damaged /\ ~timedOut THEN Goto(t, "recovering") /\ UNCHANGED poolVars
                             ELSE Goto(t, "insert") /\ ReturnParser
  /\ old' = [old EXCEPT ![t] = None]
  /\ UNCHANGED <<worldVars, cache, snapshot, print, seenRev, out>>

\* A round of parse_recovery_edit_batches consults the sources; one that
\* improves puts in a tree parsed from nothing but an edited buffer.
RecoveredTree(t, improves) ==
  [partial |-> built[t].tree.partial \/ improves,
   foreign |-> built[t].tree.foreign \/ context # print[t],
   corrupt |-> built[t].tree.corrupt /\ ~improves]

\* Mutant: the round's tree is kept, and used_recovery is not set.
RecoverUnflagged(t, improves) ==
  /\ at[t] = "recovering"
  /\ built' = [built EXCEPT ![t].tree = RecoveredTree(t, improves)]
  /\ IF improves THEN UNCHANGED <<at, poolVars>> ELSE Goto(t, "insert") /\ ReturnParser
  /\ UNCHANGED <<worldVars, cache, localVars, out>>

\* One round; the rounds stop at the first one that improves nothing.
Recover(t, improves) ==
  /\ at[t] = "recovering"
  /\ built' = [built EXCEPT ![t].tree = RecoveredTree(t, improves),
                            ![t].used_recovery = @ \/ improves]
  /\ IF improves THEN UNCHANGED <<at, poolVars>> ELSE Goto(t, "insert") /\ ReturnParser
  /\ UNCHANGED <<worldVars, cache, localVars, out>>

\* diagnostics_for_tree reports a timeout whatever the tree is.
Parsed(t) ==
  [version |-> snapshot[t], print |-> print[t], rev |-> seenRev[t], tree |-> built[t].tree,
   used_recovery |-> built[t].used_recovery, timeout |-> built[t].timed_out]

\* Mutant: whatever was parsed last is cached.
SupersededNever(t) == FALSE

\* The entry in the cache is newer than what t parsed.
Superseded(t) ==
  /\ cache # None
  /\ \/ cache.version > snapshot[t]
     \/ cache.version = snapshot[t] /\ cache.rev > seenRev[t]

\* Mutant: a caller with an old snapshot gets the newer entry.
InsertOrNewest(t) ==
  /\ at[t] = "insert"
  /\ IF Matches(cache, t) \/ Superseded(t)
     THEN Return(t, cache) /\ UNCHANGED cache
     ELSE cache' = Parsed(t) /\ Return(t, Parsed(t))
  /\ UNCHANGED <<worldVars, poolVars>>

\* Cache the newest version, but return the tree of the requested snapshot.
Insert(t) ==
  /\ at[t] = "insert"
  /\ \/ Matches(cache, t) /\ Return(t, cache) /\ UNCHANGED cache
     \/ ~Matches(cache, t) /\ Superseded(t) /\ Return(t, Parsed(t)) /\ UNCHANGED cache
     \/ ~Matches(cache, t) /\ ~Superseded(t) /\ cache' = Parsed(t) /\ Return(t, Parsed(t))
  /\ UNCHANGED <<worldVars, poolVars>>

Step(t) ==
  \/ Call(t) \/ Fingerprint(t) \/ ReadRevision(t) \/ Lookup(t) \/ Checkout(t)
  \/ Recheck(t) \/ ReadOld(t) \/ ParseFails(t) \/ Insert(t)
  \/ \E n, o, d \in BOOLEAN : Parse(t, n, o, d)
  \/ \E i \in BOOLEAN : Recover(t, i)

Next ==
  \/ WriteFile \/ Release
  \/ \E c \in Contexts : WriteContext(c)
  \/ \E t \in Threads : Step(t)

Spec == Init /\ [][Next]_vars

-----------------------------------------------------------------------------
(* Properties. *)

\* parse_snapshot answers for the snapshot it was given, not for a newer one
\* that a peer cached meanwhile: "Returning a peer's newer entry here would
\* pair that newer tree with the caller's older source."
ResultIsForSnapshot ==
  \A t \in Threads : out[t] # None => out[t].version = snapshot[t] /\ out[t].print = print[t]

\* Threads finish out of order, yet an entry is never replaced by one of an
\* older version, nor at the same version by one of an older revision.
NewestKept ==
  [][cache # None /\ cache' # None /\ cache' # cache =>
       \/ cache'.version > cache.version
       \/ cache'.version = cache.version /\ cache'.rev >= cache.rev]_vars

\* No tree in the cache or in an answer descends, through any number of
\* incremental reparses, from a timeout's placeholder or from a tree whose parser
\* buffer was not the source: "A timeout stores an intentionally empty
\* placeholder tree, which does not describe `parsed.source` and therefore cannot
\* be edited safely."  incremental_tree sees the flags only, so each path that
\* makes such a tree has to set one.
NoCorruptTree ==
  /\ cache # None => ~cache.tree.corrupt
  /\ \A t \in Threads : out[t] # None => ~out[t].tree.corrupt

\* "The parser cache then cannot reuse a tree after the external context
\* changes while the source file itself stays fixed"
\* (parse_context_fingerprint, crates/lang_api/src/lib.rs): a tree answered
\* from the cache was built from the context that its caller fingerprinted and
\* that still holds.  TLC refutes it: the fingerprint is taken before the context
\* is consulted, and a context that changes in between and changes back leaves a
\* foreign tree under a valid key (README).
HitMatchesContext ==
  [][\A t \in Threads : at[t] = "lookup" /\ at'[t] = "idle" /\ print[t] = context =>
       ~out'[t].tree.foreign]_vars
=============================================================================
