------------------------------- MODULE IdgQuery -------------------------------
(***************************************************************************)
(* One query of the IDG service (crates/idg/src/service.rs) from its       *)
(* function summaries to its answer, as three fixed points that run one    *)
(* after the other:                                                        *)
(*   summaries   compile_summaries_to_fixed_point (function_summary.rs)    *)
(*   relevance   target_relevance_in_func_scope: the backward pruning      *)
(*               proof for the query's targets                             *)
(*   forward     symbolic_forward_closure_nodes: the context-matched       *)
(*               closure of the seeds                                      *)
(* A step is one function compiled, or one turn of a worklist loop.  While *)
(* the forward closure runs, other workers ask the same finished proof     *)
(* about facts; a lookup and the promotion of the key it found are two     *)
(* steps, under the shared and the exclusive lock of the set's cache.      *)
(*                                                                         *)
(* A job fixes the program, the seeds, the targets, the entry function     *)
(* (root, 0 for the APIs without one) and which proof is compiled:         *)
(* "none", "all" (target_relevance) or "source"                            *)
(* (target_relevance_from_source_within_funcs).  The function corridor     *)
(* allowed_funcs is the whole program.                                     *)
(***************************************************************************)
EXTENDS IdgFlow

CONSTANTS
    Jobs,           \* the queries
    Readers,        \* other workers that share the proof
    Asked,          \* the <<base, field>> pairs they ask about
    ReplayBatch,    \* CONTEXT_REPLAY_BATCH_ENTRIES
    Radix           \* 2^32 in the code: one field of a packed key

ASSUME QueryAssumption ==
    /\ ReplayBatch \in Nat \ {0} /\ PrefixUnit = Radix^3
    /\ InterBit < Radix
    /\ \A j \in Jobs : /\ Len(j.p.func) < Radix /\ Len(j.p.bases) < Radix
                       /\ Len(j.p.fields) < Radix /\ ToSet(j.p.fields) = FieldNames(j.p)
                       /\ \A i \in DOMAIN j.p.edges : j.p.edges[i].span < InterBit

VARIABLES
    job,        \* the query
    runtime,    \* the service's indexes of the program
    phase,      \* "summaries", "relevance", "forward" or "done"
    sums,       \* function -> its parameter/output pairs
    round,      \* [now, next]: functions of this round and of the next
    rel,        \* the backward worklist
    fwd,        \* the forward worklist, with the proof it prunes by
    answer,     \* the nodes returned
    reader,     \* other worker -> what it is doing
    tick,       \* flips with every step of the query itself, for its fairness
    want        \* what the query means (history)

vars == <<job, runtime, phase, sums, round, rel, fwd, answer, reader, tick, want>>

P == job.p
Func(v) == P.func[v]
BaseFunc(b) == P.bases[b].func

(***************************************************************************)
(* Packed keys.                                                            *)
(***************************************************************************)
NodeKey(v, c) == c * Radix + v
KeyNode(key) == key % Radix
KeyContext(key) == key \div Radix

FactKey(b, f) == b * Radix + f                             \* symbolic_fact_key
StateKey(n, c) == n.base + Radix * n.field + Radix^2 * n.prov + Radix^3 * c
KeyFact(key) == [base |-> key % Radix, field |-> (key \div Radix) % Radix,
                 prov |-> (key \div Radix^2) % Radix]
KeyFactContext(key) == key \div Radix^3

(***************************************************************************)
(* Neighbours in the contextual graph: ordinary edges and the matched-call *)
(* edges that the summaries derive.                                        *)
(***************************************************************************)
ContextualReach ==
    {<<e.from, e.to>> : e \in {d \in ToSet(P.edges) : d.kind = "flow"}}
      \cup UNION {DerivedEdges(P, f, sums) : f \in FuncsOf(P)}

FlowRow(from, to) == [kind |-> "flow", from |-> from, to |-> to, span |-> 0]

Successors(v) ==
    LET nodes == Sorted({e[2] : e \in {d \in ContextualReach : d[1] = v}})
    IN  [i \in DOMAIN nodes |-> FlowRow(v, nodes[i])]

Predecessors(v) ==
    LET nodes == Sorted({e[1] : e \in {d \in ContextualReach : d[2] = v}})
    IN  [i \in DOMAIN nodes |-> FlowRow(nodes[i], v)]

-------------------------------------------------------------------------------
(***************************************************************************)
(* The backward proof.                                                     *)
(***************************************************************************)
EmptyProof == [nodes |-> {}, facts |-> EmptySpillSet(FALSE), wild |-> EmptySpillSet(FALSE),
               complete |-> TRUE]

ProofHasNode(proof, v) == ~proof.complete \/ v \in proof.nodes

\* contains_fact: the answer, and the proof with the caches its lookups moved.
InFacts(proof, inFact) == [found |-> inFact.found, proof |-> [proof EXCEPT !.facts = inFact.set]]

InWildOrFacts(proof, b, f, inWild) ==
    IF inWild.found THEN [found |-> TRUE, proof |-> [proof EXCEPT !.wild = inWild.set]]
    ELSE InFacts([proof EXCEPT !.wild = inWild.set], ContainsKey(proof.facts, FactKey(b, f)))

ProofHasFact(proof, b, f) ==
    IF proof.complete THEN InWildOrFacts(proof, b, f, ContainsKey(proof.wild, b))
    ELSE [found |-> TRUE, proof |-> proof]

Want(r, v) ==
    IF v \in r.proof.nodes THEN r
    ELSE [r EXCEPT !.proof.nodes = @ \cup {v}, !.nodes = Push(@, v)]

\* An insertion into the proof: what is new also goes to its frontier.
FactAdded(r, key, added) ==
    [r EXCEPT !.proof.facts = added.set, !.facts = IF added.new THEN Push(@, key) ELSE @]

WantFactUnless(r, b, f, covered) ==
    IF covered.found THEN [r EXCEPT !.proof.wild = covered.set]
    ELSE FactAdded([r EXCEPT !.proof.wild = covered.set], FactKey(b, f),
                   Insert(r.proof.facts, FactKey(b, f)))

WantFact(r, b, f) == WantFactUnless(r, b, f, ContainsKey(r.proof.wild, b))

BaseAdded(r, b, added) ==
    [r EXCEPT !.proof.wild = added.set, !.bases = IF added.new THEN Push(@, b) ELSE @]

WantBase(r, b) == BaseAdded(r, b, Insert(r.proof.wild, b))

\* Only a proof rooted at a source function keeps a set of active functions.
IsActive(r, f) == job.rel # "source" \/ f \in r.active
Activate(r, f) == [r EXCEPT !.active = IF job.rel = "source" THEN @ \cup {f} ELSE @]

WantIfActive(r, v) == IF IsActive(r, Func(v)) THEN Want(r, v) ELSE r
WantProvider(r, v) == Want(Activate(r, Func(v)), v)

EmptyBackward ==
    [proof |-> EmptyProof, nodes |-> EmptySpillStack, facts |-> EmptySpillStack,
     bases |-> EmptySpillStack, active |-> IF job.rel = "source" THEN {job.root} ELSE {}]

\* The loops over the rows of an index, in the order of the rows.  The source of
\* a heap or return row becomes active, that of another row must be.
RECURSIVE WantIfActives(_, _)
WantIfActives(r, nodes) ==
    IF nodes = <<>> THEN r ELSE WantIfActives(WantIfActive(r, Head(nodes)), Tail(nodes))

WantRow(r, e) ==
    IF e.kind \in {"heap", "ret"} THEN WantProvider(r, e.from) ELSE WantIfActive(r, e.from)

RECURSIVE WantRows(_, _)
WantRows(r, rows) == IF rows = <<>> THEN r ELSE WantRows(WantRow(r, Head(rows)), Tail(rows))

RECURSIVE WantFacts(_, _)
WantFacts(r, rows) ==
    IF rows = <<>> THEN r
    ELSE WantFacts(WantFact(r, Head(rows).base, Head(rows).field), Tail(rows))

RECURSIVE WantBases(_, _)
WantBases(r, bases) ==
    IF bases = <<>> THEN r ELSE WantBases(WantBase(r, Head(bases)), Tail(bases))

StartBackward == WantIfActives(EmptyBackward, job.targets)

\* The sources of the transforms into a base: a provider becomes active, an
\* argument or copy must come from a function that is.  Field 0 is every field.
ActivatesProvider(x) == x.kind \in {"Return", "ConstructorReturn", "ReceiverMutation"}

WantSource(r, x, f) ==
    IF f = 0 THEN WantBase(r, x.src) ELSE WantFact(r, x.src, f)

RECURSIVE WantSources(_, _, _)
WantSources(r, rows, f) ==
    IF rows = <<>> THEN r
    ELSE LET x == Head(rows)
             w == IF ActivatesProvider(x) THEN Activate(r, BaseFunc(x.src)) ELSE r
         IN  WantSources(IF IsActive(w, BaseFunc(x.src)) THEN WantSource(w, x, f) ELSE w,
                         Tail(rows), f)

\* A scalar written at v may be one exact field of a callee's storage.
RECURSIVE WantScalarReturns(_, _)
WantScalarReturns(r, rows) ==
    IF rows = <<>> THEN r
    ELSE LET x == Head(rows)
         IN  WantScalarReturns(WantFact(Activate(r, BaseFunc(x.src)), x.src, x.exact), Tail(rows))

\* Mutant: facts are inverted only for a node that reads a whole base.
BackwardNodeBareOnly(r, v) ==
    LET inputs == WantRows(r, Predecessors(v) \o runtime.into[v])
    IN  IF StorageRead(P, v) = 0 THEN inputs
        ELSE WantBase(WantFacts(inputs, runtime.facts[v]), StorageRead(P, v))

\* A projected place that no base decomposes makes the proof incomplete.
Decomposed(r, v) ==
    [r EXCEPT !.proof.complete = @ /\ (runtime.facts[v] = <<>> => ~IsProjected(P, v))]

BackwardNode(r, v) ==
    WantScalarReturns(
        WantBases(
            Decomposed(WantFacts(WantRows(r, Predecessors(v) \o runtime.into[v]),
                                 runtime.facts[v]), v),
            IF StorageRead(P, v) = 0 THEN <<>> ELSE <<StorageRead(P, v)>>),
        runtime.scalarInto[v])

\* The same facts on the storage that contains b or that b contains.
Rebased(b, f) ==
    LET rows == runtime.rebases[b]
        all  == [i \in DOMAIN rows |-> [base |-> rows[i], field |-> RebasedField(P, b, rows[i], f)]]
    IN  SelectSeq(all, LAMBDA n : n.field # 0)

BackwardFact(r, b, f) ==
    WantSources(WantIfActives(WantFacts(r, Rebased(b, f)), runtime.sources[b][f]),
                runtime.xfInto[b], f)

BackwardBase(r, b) ==
    WantSources(WantIfActives(WantBases(r, runtime.rebases[b]), runtime.baseSources[b]),
                runtime.xfInto[b], 0)

\* One turn of the loop: a node, then a fact, then a base, each if there is one.
InvertNode(r, top) ==
    IF top.some THEN BackwardNode([r EXCEPT !.nodes = top.stack], top.key)
                ELSE [r EXCEPT !.nodes = top.stack]

InvertFact(r, top) ==
    IF top.some
    THEN BackwardFact([r EXCEPT !.facts = top.stack], top.key \div Radix, top.key % Radix)
    ELSE [r EXCEPT !.facts = top.stack]

InvertBase(r, top) ==
    IF top.some THEN BackwardBase([r EXCEPT !.bases = top.stack], top.key)
                ELSE [r EXCEPT !.bases = top.stack]

ThenBase(r) == InvertBase(r, Pop(r.bases))
ThenFact(r) == IF r.proof.complete THEN ThenBase(InvertFact(r, Pop(r.facts))) ELSE r
BackwardTurn(r) == ThenFact(InvertNode(r, Pop(r.nodes)))

BackwardPending(r) == \E s \in {r.nodes, r.facts, r.bases} : ~StackIsEmpty(s)

-------------------------------------------------------------------------------
(***************************************************************************)
(* The forward closure.                                                    *)
(***************************************************************************)
EmptyForward(proof) ==
    [nodes |-> EmptySpillStack, facts |-> EmptySpillStack, root |-> {}, erased |-> {},
     states |-> EmptySpillSet(FALSE), sources |-> EmptySpillSet(FALSE),
     known |-> EmptySpillSet(FALSE), boundaries |-> <<>>, callers |-> <<>>,
     retNodes |-> EmptySpillSet(TRUE), retFacts |-> EmptySpillSet(TRUE),
     active |-> IF job.root = 0 THEN {} ELSE {job.root}, proof |-> proof]

FuncIsActive(w, f) == job.root = 0 \/ f \in w.active
ActivateFunc(w, f) == [w EXCEPT !.active = IF job.root = 0 THEN @ ELSE @ \cup {f}]

NodeIsRelevant(w, v) == job.rel = "none" \/ ProofHasNode(w.proof, v)
NodeIsAllowed(w, v) == NodeIsRelevant(w, v) /\ FuncIsActive(w, Func(v))

\* ClosureVisited::insert: the root context in a set of its own, every other
\* context in the spill set and, context-erased, in the result.
NodeAdded(w, v, c, added) ==
    IF ~added.new THEN [w EXCEPT !.states = added.set]
    ELSE [w EXCEPT !.states = added.set, !.erased = @ \cup {v},
                   !.nodes = Push(@, NodeKey(v, c))]

EnqueueNode(w, v, c) ==
    IF c # 0 THEN NodeAdded(w, v, c, Insert(w.states, NodeKey(v, c)))
    ELSE IF v \in w.root THEN w
    ELSE [w EXCEPT !.root = @ \cup {v}, !.nodes = Push(@, NodeKey(v, c))]

\* fact_is_relevant: field demand first, then the proof.
ByProof(w, asked) == [found |-> asked.found, w |-> [w EXCEPT !.proof = asked.proof]]

FactIsRelevant(w, b, f) ==
    IF b \notin runtime.demand THEN [found |-> FALSE, w |-> w]
    ELSE IF job.rel = "none" THEN [found |-> TRUE, w |-> w]
    ELSE ByProof(w, ProofHasFact(w.proof, b, f))

KnownAdded(w, key, added) ==
    [w EXCEPT !.known = added.set, !.facts = IF added.new THEN Push(@, key) ELSE @]

EnqueueIfRelevant(relevant, key) ==
    IF relevant.found THEN KnownAdded(relevant.w, key, Insert(relevant.w.known, key))
                      ELSE relevant.w

EnqueueFact(w, n, c) == EnqueueIfRelevant(FactIsRelevant(w, n.base, n.field), StateKey(n, c))

\* The loops over rows [fact, context] and [node, context].
RECURSIVE EnqueueFacts(_, _)
EnqueueFacts(w, rows) ==
    IF rows = <<>> THEN w
    ELSE EnqueueFacts(EnqueueFact(w, Head(rows).fact, Head(rows).context), Tail(rows))

\* enqueue_symbolic_node_source: reach v by ordinary flow in context c, and
\* introduce the facts of its place once per context.
FactRows(facts, c) == [i \in DOMAIN facts |-> [fact |-> facts[i], context |-> c]]

Introduce(w, v, c, source) ==
    EnqueueFacts([w EXCEPT !.sources = source.set],
                 IF source.new THEN FactRows(runtime.facts[v], c) ELSE <<>>)

MarkSource(w, v, c) ==
    IF runtime.demand = {} THEN w ELSE Introduce(w, v, c, Insert(w.sources, NodeKey(v, c)))

EnqueueSource(w, v, c) ==
    IF NodeIsAllowed(w, v) THEN MarkSource(EnqueueNode(w, v, c), v, c) ELSE w

RECURSIVE EnqueueSources(_, _)
EnqueueSources(w, rows) ==
    IF rows = <<>> THEN w
    ELSE EnqueueSources(EnqueueSource(w, Head(rows).node, Head(rows).context), Tail(rows))

(***************************************************************************)
(* Call contexts.                                                          *)
(***************************************************************************)
ContextOf(w, key) == IndexOr0(w.boundaries, key)
Matches(w, c, key) == c # 0 /\ w.boundaries[c] = key

\* Everything the context has returned after a key, read in batches.
RECURSIVE Returned(_, _, _)
Returned(s, c, last) ==
    LET page == KeysWithPrefixBatch(s, c, last, ReplayBatch)
    IN  IF page = <<>> THEN <<>> ELSE page \o Returned(s, c, Last(page))

\* Mutant: a later caller gets no replay.
RegisterNoReplay(w, c, context) ==
    [context |-> context,
     w |-> IF c \in ToSet(w.callers[context]) THEN w
           ELSE [w EXCEPT !.callers[context] = Append(@, c)]]

\* register_context_call: the context of the boundary, and for a caller it did
\* not have yet a replay of what it has already returned.
ReplayNodes(w, keys, c) ==
    EnqueueSources(w, [i \in DOMAIN keys |-> [node |-> KeyNode(keys[i]), context |-> c]])

ReplayFacts(w, keys, c) ==
    EnqueueFacts(w, [i \in DOMAIN keys |-> [fact |-> KeyFact(keys[i]), context |-> c]])

Register(w, c, context) ==
    [context |-> context,
     w |-> IF c \in ToSet(w.callers[context]) THEN w
           ELSE ReplayFacts(ReplayNodes([w EXCEPT !.callers[context] = Append(@, c)],
                                        Returned(w.retNodes, context, -1), c),
                            Returned(w.retFacts, context, -1), c)]

OpenContext(w, key) ==
    IF ContextOf(w, key) # 0 THEN w
    ELSE [w EXCEPT !.boundaries = Append(@, key), !.callers = Append(@, <<>>)]

RegisterCall(w, c, key) ==
    Register(OpenContext(w, key), c, ContextOf(OpenContext(w, key), key))

\* complete_node_return and complete_fact_return: what is new is handed to
\* every caller the context has now.
HandNode(w, c, v, added) ==
    EnqueueSources([w EXCEPT !.retNodes = added.set],
                   IF added.new
                   THEN [i \in DOMAIN w.callers[c] |-> [node |-> v, context |-> w.callers[c][i]]]
                   ELSE <<>>)

ReturnNode(w, c, v) == HandNode(w, c, v, Insert(w.retNodes, c * PrefixUnit + v))

\* Mutant: a returned fact goes back to the first caller only.
HandFactOnce(w, c, n, added) ==
    EnqueueFacts([w EXCEPT !.retFacts = added.set],
                 IF added.new THEN <<[fact |-> n, context |-> w.callers[c][1]]>> ELSE <<>>)

HandFact(w, c, n, added) ==
    EnqueueFacts([w EXCEPT !.retFacts = added.set],
                 IF added.new
                 THEN [i \in DOMAIN w.callers[c] |-> [fact |-> n, context |-> w.callers[c][i]]]
                 ELSE <<>>)

ReturnFact(w, c, n) == HandFact(w, c, n, Insert(w.retFacts, StateKey(n, c)))

(***************************************************************************)
(* One node.                                                               *)
(***************************************************************************)
\* activate_summary_transition: into an active function, or out of one.
Transition(w, v, t, c) ==
    IF ~NodeIsRelevant(w, t) \/ (~FuncIsActive(w, Func(t)) /\ ~FuncIsActive(w, Func(v))) THEN w
    ELSE EnqueueSource(ActivateFunc(w, Func(t)), t, c)

EnterCall(call, v) == EnqueueSource(call.w, v, call.context)

ForwardCall(w, e, c) ==
    IF ~NodeIsRelevant(w, e.to) \/ ~FuncIsActive(w, Func(e.from)) THEN w
    ELSE EnterCall(RegisterCall(ActivateFunc(w, Func(e.to)), c, BoundaryOf(P, e)), e.to)

ForwardReturn(w, e, c) ==
    IF ~NodeIsAllowed(w, e.to) THEN w
    ELSE IF Matches(w, c, BoundaryOf(P, e)) THEN ReturnNode(w, c, e.to)
    ELSE IF job.root = 0 /\ c = 0 THEN EnqueueSource(w, e.to, 0)
    ELSE w

\* What a node leads to, in the order flow, heap, calls, returns.
ForwardRow(w, e, c) ==
    CASE e.kind \in {"flow", "heap"} -> Transition(w, e.from, e.to, IF e.kind = "heap" THEN 0 ELSE c)
      [] e.kind = "call" -> ForwardCall(w, e, c)
      [] e.kind = "ret"  -> ForwardReturn(w, e, c)

RECURSIVE ForwardRows(_, _, _)
ForwardRows(w, rows, c) ==
    IF rows = <<>> THEN w ELSE ForwardRows(ForwardRow(w, Head(rows), c), Tail(rows), c)

ForwardNode(w, v, c) == ForwardRows(w, Successors(v) \o runtime.out[v], c)

(***************************************************************************)
(* One fact.                                                               *)
(***************************************************************************)
Consume(w, v, c) == IF NodeIsAllowed(w, v) THEN EnqueueNode(w, v, c) ELSE w

\* symbolic_transform_contexts: where a transform leads from context c.
Lead(take, context, w) == [take |-> take, context |-> context, w |-> w]
LeadInto(call) == Lead("in", call.context, call.w)

TransformContexts(w, x, c) ==
    LET key == TransformBoundary(P, x)
    IN  IF ~CrossesCall(P, x) THEN Lead("in", c, w)
        ELSE IF Enters(x)
        THEN IF FuncIsActive(w, key.caller)
             THEN LeadInto(RegisterCall(ActivateFunc(w, key.callee), c, key))
             ELSE Lead("no", 0, w)
        ELSE IF Matches(w, c, key) THEN Lead("return", c, w)
        ELSE IF job.root = 0 /\ c = 0 THEN Lead("in", 0, w)
        ELSE Lead("no", 0, w)

\* propagate_scalar_symbolic_return: the field becomes the scalar it is written to.
ScalarTo(t, v) ==
    IF ~NodeIsAllowed(t.w, v) THEN t.w
    ELSE IF t.take = "return" THEN ReturnNode(t.w, t.context, v)
    ELSE EnqueueSource(t.w, v, t.context)

RECURSIVE ScalarReturn(_, _)
ScalarReturn(t, nodes) ==
    IF nodes = <<>> THEN t.w
    ELSE ScalarReturn([t EXCEPT !.w = ScalarTo(t, Head(nodes))], Tail(nodes))

FactReturn(t, n) ==
    IF ~FuncIsActive(t.w, BaseFunc(n.base)) THEN t.w
    ELSE IF t.take = "return" THEN ReturnFact(t.w, t.context, n)
    ELSE EnqueueFact(t.w, n, t.context)

Transformed(t, x, n) ==
    IF t.take = "no" THEN t.w
    ELSE IF x.kind = "ScalarReturn"
    THEN ScalarReturn(t, IF x.exact = n.field THEN runtime.writes[x.dst][x.write] ELSE <<>>)
    ELSE FactReturn(t, [base |-> x.dst, field |-> n.field, prov |-> ProducedProvenance(P, x)])

ApplyIfRelevant(relevant, x, n, c) ==
    IF relevant.found THEN Transformed(TransformContexts(relevant.w, x, c), x, n)
                      ELSE relevant.w

ApplyTransform(w, x, n, c) ==
    IF OutOfOrder(x, n.prov) THEN w
    ELSE ApplyIfRelevant(IF x.kind = "ScalarReturn" THEN [found |-> TRUE, w |-> w]
                         ELSE FactIsRelevant(w, x.dst, n.field), x, n, c)

RECURSIVE ApplyTransforms(_, _, _, _)
ApplyTransforms(w, rows, n, c) ==
    IF rows = <<>> THEN w
    ELSE ApplyTransforms(ApplyTransform(w, Head(rows), n, c), Tail(rows), n, c)

RECURSIVE ConsumeAll(_, _, _)
ConsumeAll(w, nodes, c) ==
    IF nodes = <<>> THEN w ELSE ConsumeAll(Consume(w, Head(nodes), c), Tail(nodes), c)

\* A fact moves to the storage around and inside its base, is read, and takes
\* the transforms of its base.
RebasedRows(n, c) ==
    LET moved == Rebased(n.base, n.field)
    IN  [i \in DOMAIN moved |->
            [fact |-> [n EXCEPT !.base = moved[i].base, !.field = moved[i].field], context |-> c]]

ForwardFact(w, n, c) ==
    ApplyTransforms(ConsumeAll(EnqueueFacts(w, RebasedRows(n, c)),
                               runtime.reads[n.base][n.field], c),
                    runtime.xfOut[n.base], n, c)

\* One turn of the loop: a node, then a fact, each if there is one.
FollowNode(w, top) ==
    IF top.some
    THEN ForwardNode([w EXCEPT !.nodes = top.stack], KeyNode(top.key), KeyContext(top.key))
    ELSE [w EXCEPT !.nodes = top.stack]

FollowFact(w, top) ==
    IF top.some
    THEN ForwardFact([w EXCEPT !.facts = top.stack], KeyFact(top.key), KeyFactContext(top.key))
    ELSE [w EXCEPT !.facts = top.stack]

ThenFollowFact(w) == FollowFact(w, Pop(w.facts))
ForwardTurn(w) == ThenFollowFact(FollowNode(w, Pop(w.nodes)))

ForwardPending(w) == ~StackIsEmpty(w.nodes) \/ ~StackIsEmpty(w.facts)

StartForward(proof) ==
    EnqueueSources(EmptyForward(proof),
                   [i \in DOMAIN job.seeds |-> [node |-> job.seeds[i], context |-> 0]])

-------------------------------------------------------------------------------
(***************************************************************************)
(* The query as a process.                                                 *)
(***************************************************************************)
Idle == [at |-> "idle", key |-> 0]

Init ==
    /\ job \in Jobs /\ runtime = RuntimeOf(job.p)
    /\ phase = "summaries"
    /\ sums = [f \in FuncsOf(job.p) |-> {}]
    /\ round = [now |-> Sorted(FuncsOf(job.p)), next |-> {}]
    /\ rel = <<>> /\ fwd = <<>> /\ answer = {}
    /\ reader = [x \in Readers |-> Idle]
    /\ tick = 0
    /\ want = [flow |-> TabulatedNodes(job.p, job.root # 0, ToSet(job.seeds)),
               realizable |-> RealizableNodes(job.p, job.root # 0, ToSet(job.seeds)),
               pairs |-> [f \in FuncsOf(job.p) |-> BalancedPairs(job.p, f)]]

\* Mutant: a changed summary leaves its callers as they are.
CompileSummaryOnce ==
    /\ phase = "summaries" /\ round.now # <<>>
    /\ sums' = [sums EXCEPT ![Head(round.now)] = CompileFunction(P, Head(round.now), sums)]
    /\ round' = [round EXCEPT !.now = Tail(@)]
    /\ UNCHANGED <<job, runtime, phase, rel, fwd, answer, reader, want>>

\* A function whose summary changed puts its callers into the next round.
CompileSummary ==
    /\ phase = "summaries" /\ round.now # <<>>
    /\ LET f == Head(round.now)
           summary == CompileFunction(P, f, sums)
       IN  /\ sums' = [sums EXCEPT ![f] = summary]
           /\ round' = [now |-> Tail(round.now),
                        next |-> IF summary = sums[f] THEN round.next
                                 ELSE round.next \cup CallersOf(P, f)]
    /\ UNCHANGED <<job, runtime, phase, rel, fwd, answer, reader, want>>

NextRound ==
    /\ phase = "summaries" /\ round.now = <<>> /\ round.next # {}
    /\ round' = [now |-> Sorted(round.next), next |-> {}]
    /\ UNCHANGED <<job, runtime, phase, sums, rel, fwd, answer, reader, want>>

SummariesDone == phase = "summaries" /\ round.now = <<>> /\ round.next = {}

\* An answer is empty at once when the proof admits none of the seeds.
OpenForward(proof) ==
    IF job.rel # "none" /\ \A v \in ToSet(job.seeds) : ~ProofHasNode(proof, v)
    THEN /\ phase' = "done" /\ fwd' = [EmptyForward(proof) EXCEPT !.proof = proof]
    ELSE /\ phase' = "forward" /\ fwd' = StartForward(proof)

StartRelevance ==
    /\ SummariesDone /\ job.rel # "none"
    /\ phase' = "relevance" /\ rel' = StartBackward
    /\ UNCHANGED <<job, runtime, sums, round, fwd, answer, reader, want>>

SkipRelevance ==
    /\ SummariesDone /\ job.rel = "none"
    /\ OpenForward(EmptyProof)
    /\ UNCHANGED <<job, runtime, sums, round, rel, answer, reader, want>>

RelevanceTurn ==
    /\ phase = "relevance" /\ BackwardPending(rel) /\ rel.proof.complete
    /\ rel' = BackwardTurn(rel)
    /\ UNCHANGED <<job, runtime, phase, sums, round, fwd, answer, reader, want>>

RelevanceDone ==
    /\ phase = "relevance" /\ (~BackwardPending(rel) \/ ~rel.proof.complete)
    /\ OpenForward(rel.proof)
    /\ rel' = <<>>
    /\ UNCHANGED <<job, runtime, sums, round, answer, reader, want>>

ClosureTurn ==
    /\ phase = "forward" /\ ForwardPending(fwd)
    /\ fwd' = ForwardTurn(fwd)
    /\ UNCHANGED <<job, runtime, phase, sums, round, rel, answer, reader, want>>

ClosureDone ==
    /\ phase = "forward" /\ ~ForwardPending(fwd)
    /\ phase' = "done" /\ answer' = fwd.root \cup fwd.erased
    /\ UNCHANGED <<job, runtime, sums, round, rel, fwd, reader, want>>

\* Another worker looks a fact up in the shared proof under the shared lock ...
ReaderLooksUp(x) ==
    /\ phase = "forward" /\ job.rel # "none" /\ reader[x].at = "idle"
    /\ \E q \in Asked :
          LET seen == LookupKey(fwd.proof.facts, FactKey(q[1], q[2]))
          IN  /\ fwd' = [fwd EXCEPT !.proof.facts = seen.set]
              /\ reader' = [reader EXCEPT ![x] =
                    [at |-> IF seen.promote THEN "promote" ELSE "done",
                     key |-> FactKey(q[1], q[2])]]
    /\ UNCHANGED <<job, runtime, phase, sums, round, rel, answer, tick, want>>

\* ... and promotes the key it found in a run under the exclusive one.
ReaderPromotes(x) ==
    /\ reader[x].at = "promote"
    /\ fwd' = [fwd EXCEPT !.proof.facts = Promote(@, reader[x].key)]
    /\ reader' = [reader EXCEPT ![x].at = "done"]
    /\ UNCHANGED <<job, runtime, phase, sums, round, rel, answer, tick, want>>

Finished == phase = "done" /\ UNCHANGED vars

QueryStep ==
    /\ tick' = 1 - tick
    /\ \/ CompileSummary \/ NextRound \/ StartRelevance \/ SkipRelevance
       \/ RelevanceTurn \/ RelevanceDone \/ ClosureTurn \/ ClosureDone

Next ==
    \/ QueryStep
    \/ \E x \in Readers : ReaderLooksUp(x) \/ ReaderPromotes(x)
    \/ Finished

\* The query's own thread keeps running until it has its answer.  One of its
\* steps is enabled in every state before that, and only they flip tick.
QueryRuns == phase # "done" /\ tick' = 1 - tick

Spec == Init /\ [][Next]_vars /\ WF_tick(QueryRuns)
-------------------------------------------------------------------------------
(***************************************************************************)
(* Properties.                                                             *)
(***************************************************************************)
Answered == phase = "done"

\* Without a proof the answer is the least fixed point of the context-matched
\* flow: the worklists, the replay of returns to callers that come later, the
\* field demand, the derived summary edges, the activation of functions and the
\* spill stores neither lose a node nor add one.
ClosureIsLeastFixpoint ==
    Answered /\ job.rel = "none" => answer = want.flow

\* A node that a value reaches with some concrete call stack, every return
\* going back to the call it came from, is in the answer: contexts that are
\* single boundaries and not call strings lose no such path.
RealizableFlowFound ==
    Answered /\ job.rel = "none" => want.realizable \subseteq answer

\* Pruning by the backward proof of the targets changes nothing about them: a
\* target is in the pruned answer exactly if it is in the full one, and the
\* pruned answer holds no node that the full one does not.
RelevanceKeepsTargets ==
    Answered /\ job.rel = "all" =>
        /\ answer \cap ToSet(job.targets) = want.flow \cap ToSet(job.targets)
        /\ answer \subseteq want.flow

\* The same for the proof rooted at a source function, as its documentation
\* says (service.rs l.1039 and l.5356): no realizable path is excluded.
SourceProofKeepsTargets ==
    Answered /\ job.rel = "source" =>
        want.realizable \cap ToSet(job.targets) \subseteq answer

\* A summary never claims a pair that no balanced path connects, and when the
\* rounds end it has them all, recursion included.
SummariesExact ==
    /\ \A f \in FuncsOf(P) : sums[f] \subseteq want.pairs[f]
    /\ phase # "summaries" => sums = want.pairs

SpillSets ==
    (IF rel = <<>> THEN {} ELSE {rel.proof.facts, rel.proof.wild})
      \cup (IF fwd = <<>> THEN {}
            ELSE {fwd.proof.facts, fwd.proof.wild, fwd.states, fwd.sources, fwd.known,
                  fwd.retNodes, fwd.retFacts})

SpillStacks ==
    (IF rel = <<>> THEN {} ELSE {rel.nodes, rel.facts, rel.bases})
      \cup (IF fwd = <<>> THEN {} ELSE {fwd.nodes, fwd.facts})

\* Across flushes, merges and reloads every relation of the fixed points stores
\* each key once and finds it again, and every frontier holds exactly what its
\* length says, its chunks tiling the file.
SpillStoresExact ==
    (\A s \in SpillSets : SetIsExact(s)) /\ (\A s \in SpillStacks : StackIsExact(s))

\* Workers that look the same key up before either promotes it leave one copy of
\* it in the shared cache, and the cache never answers for a key that is not in
\* the relation.
PromotionKeepsCacheExact == \A s \in SpillSets : CacheIsExact(s)

\* Every query is answered: the frontiers run dry although a turn may push more
\* than it pops, on recursive programs too.
QueryEnds == <>Answered
===============================================================================
