------------------------------ MODULE IdgProgram ------------------------------
(***************************************************************************)
(* One compiled program as the IDG query service sees it: the runtime      *)
(* indexes built once from the segments (crates/idg/src/service.rs,        *)
(* symbolic.rs, function_summary.rs), and the flow that a query answers    *)
(* questions about.                                                        *)
(*                                                                         *)
(* A program p is a record                                                 *)
(*   func    the owner function of node 1, 2, ...                          *)
(*   place   per node [k, path, span]: a "read" or "write" of the storage  *)
(*           path, a call "arg"ument of the site span, or "none"           *)
(*   edges   rows [kind, from, to, span] in stored order; kind is "flow",  *)
(*           "consume" (an aggregate read as a whole), "heap", "call" or   *)
(*           "ret", and span the call site of the last two                 *)
(*   bases   rows [func, path]: the storage that field facts hang on       *)
(*   fields  the suffix paths of the field dictionary                      *)
(*   xf      symbolic transforms [src, dst, kind, exact, call, write, ooo] *)
(*           between bases; exact is a field (0: none), ooo the flag       *)
(*           allow_out_of_order_source                                     *)
(* Paths are short sequences, spans small positive numbers in one file,    *)
(* and a call has one argument.                                            *)
(***************************************************************************)
EXTENDS SpillStore

CONSTANT InterBit    \* SYMBOLIC_FACT_INTERPROCEDURAL: above every span id

NodesOf(p) == 1..Len(p.func)

\* The nodes that pass a test, in workspace order.
NodeRows(p, Test(_)) == SelectSeq([v \in NodesOf(p) |-> v], Test)

RowsFrom(p, kind, v) == SelectSeq(p.edges, LAMBDA e : e.kind = kind /\ e.from = v)
RowsInto(p, kind, v) == SelectSeq(p.edges, LAMBDA e : e.kind = kind /\ e.to = v)

\* The first position of an element in a sequence, 0 if it is not there.
IndexOr0(seq, x) == LeastOr({i \in DOMAIN seq : seq[i] = x}, 0)

BaseId(p, f, path) == IndexOr0(p.bases, [func |-> f, path |-> path])
FieldId(p, path) == IndexOr0(p.fields, path)

(***************************************************************************)
(* structured_storage_parts and what the runtime index derives from it.    *)
(***************************************************************************)
IsStorage(p, v) == p.place[v].k \in {"read", "write"}
IsProjected(p, v) == IsStorage(p, v) /\ Len(p.place[v].path) > 1

\* The base whose storage is the node's whole path, 0 if there is none.
WholeBase(p, v) == BaseId(p, p.func[v], p.place[v].path)

\* Only a base with a transform that checks source order keeps local spans.
RetainsLocalProvenance(p, b) ==
    \E i \in DOMAIN p.xf : p.xf[i].src = b /\ ~p.xf[i].ooo

LocalProvenance(p, b, span) == IF RetainsLocalProvenance(p, b) THEN span ELSE 0

\* build_symbolic_fact_page: one fact for every way to cut the node's path into
\* a known base and a field.
NodeFacts(p, v) ==
    LET path  == p.place[v].path
        base(cut)  == BaseId(p, p.func[v], SubSeq(path, 1, cut))
        field(cut) == FieldId(p, SubSeq(path, cut + 1, Len(path)))
        cuts  == IF IsStorage(p, v)
                 THEN SelectSeq([i \in 1..(Len(path) - 1) |-> i],
                                LAMBDA cut : base(cut) # 0 /\ field(cut) # 0)
                 ELSE <<>>
    IN  [i \in DOMAIN cuts |->
            [base |-> base(cuts[i]), field |-> field(cuts[i]),
             prov |-> IF p.place[v].k = "write"
                      THEN LocalProvenance(p, base(cuts[i]), p.place[v].span) ELSE 0]]

HasFact(p, v, b, f) ==
    \E i \in DOMAIN NodeFacts(p, v) : NodeFacts(p, v)[i].base = b /\ NodeFacts(p, v)[i].field = f

FactSources(p, b, f) == NodeRows(p, LAMBDA v : HasFact(p, v, b, f))
BaseSources(p, b) == NodeRows(p, LAMBDA v : \E f \in DOMAIN p.fields : HasFact(p, v, b, f))
ExactReads(p, b, f) == NodeRows(p, LAMBDA v : p.place[v].k = "read" /\ HasFact(p, v, b, f))
ScalarWrites(p, b, span) ==
    NodeRows(p, LAMBDA v : p.place[v].k = "write" /\ p.place[v].span = span /\ WholeBase(p, v) = b)
StorageRead(p, v) == IF p.place[v].k = "read" THEN WholeBase(p, v) ELSE 0

\* Arguments whose value goes on through the call itself.
IsResolvedCallArg(p, v) ==
    \/ RowsFrom(p, "call", v) # <<>>
    \/ /\ p.place[v].k = "arg"
       /\ \E i \in DOMAIN p.xf : /\ p.xf[i].kind = "Argument"
                                 /\ p.bases[p.xf[i].src].func = p.func[v]
                                 /\ p.xf[i].call = p.place[v].span

AggregateReads(p, b) ==
    NodeRows(p, LAMBDA v : /\ ~IsResolvedCallArg(p, v)
                           /\ \E i \in DOMAIN p.edges :
                                 /\ p.edges[i].kind = "consume" /\ p.edges[i].to = v
                                 /\ StorageRead(p, p.edges[i].from) = b)

(***************************************************************************)
(* Rebases: one storage path is an ancestor of another in the same         *)
(* function, so a field of the one is a longer or shorter field of the     *)
(* other.  RebasedField is 0 when the other decomposition names no known   *)
(* field.                                                                  *)
(***************************************************************************)
Rebases(p, b) ==
    SelectSeq([i \in DOMAIN p.bases |-> i],
              LAMBDA t : /\ p.bases[t].func = p.bases[b].func
                         /\ \/ IsStrictPrefix(p.bases[t].path, p.bases[b].path)
                            \/ IsStrictPrefix(p.bases[b].path, p.bases[t].path))

RebasedField(p, b, t, f) ==
    LET from   == p.bases[b].path
        to     == p.bases[t].path
        prefix == IF Len(to) < Len(from) THEN SubSeq(from, Len(to) + 1, Len(from))
                                         ELSE SubSeq(to, Len(from) + 1, Len(to))
        field  == p.fields[f]
    IN  IF Len(to) < Len(from) THEN FieldId(p, prefix \o field)
        ELSE IF IsStrictPrefix(prefix, field)
             THEN FieldId(p, SubSeq(field, Len(prefix) + 1, Len(field)))
             ELSE 0

\* The field dictionary: every proper suffix of a storage path of a node, and
\* every prefix that a rebase adds or strips.
FieldNames(p) ==
    UNION {{SubSeq(p.place[v].path, cut, Len(p.place[v].path)) : cut \in 2..Len(p.place[v].path)} :
              v \in {n \in NodesOf(p) : IsStorage(p, n)}}
      \cup UNION {{SubSeq(p.bases[b].path, Len(p.bases[t].path) + 1, Len(p.bases[b].path)) :
                      t \in {u \in ToSet(Rebases(p, b)) : Len(p.bases[u].path) < Len(p.bases[b].path)}} :
                    b \in DOMAIN p.bases}

(***************************************************************************)
(* Call boundaries: the key of a call is (caller, callee, site).           *)
(***************************************************************************)
BoundaryOf(p, e) ==
    IF e.kind = "call"
    THEN [caller |-> p.func[e.from], callee |-> p.func[e.to], span |-> e.span]
    ELSE [caller |-> p.func[e.to], callee |-> p.func[e.from], span |-> e.span]

Enters(x) == x.kind = "Argument"
CrossesCall(p, x) == x.kind # "Copy" /\ p.bases[x.src].func # p.bases[x.dst].func

TransformBoundary(p, x) ==
    LET src == p.bases[x.src].func
        dst == p.bases[x.dst].func
    IN  IF Enters(x) THEN [caller |-> src, callee |-> dst, span |-> x.call]
                     ELSE [caller |-> dst, callee |-> src, span |-> x.call]

TransformsFrom(p, b) == SelectSeq(p.xf, LAMBDA x : x.src = b)
TransformsInto(p, b) == SelectSeq(p.xf, LAMBDA x : x.dst = b /\ x.kind # "ScalarReturn")

\* The exact fields of callees that the scalar written at v may be.
ScalarReturnsInto(p, v) ==
    IF p.place[v].k # "write" \/ WholeBase(p, v) = 0 THEN <<>>
    ELSE SelectSeq(p.xf, LAMBDA x : /\ x.kind = "ScalarReturn" /\ x.exact # 0
                                    /\ x.dst = WholeBase(p, v)
                                    /\ x.write = p.place[v].span)

\* A local fact written after the transform's site does not take it, unless it
\* is the very value passed as the argument.
OutOfOrder(x, prov) ==
    /\ ~x.ooo
    /\ prov \in 1..(InterBit - 1)
    /\ ~(x.kind = "Argument" /\ prov = x.write)
    /\ prov > x.call

\* The provenance of a fact that a transform produces.
ProducedProvenance(p, x) ==
    IF x.kind # "Copy" THEN InterBit ELSE LocalProvenance(p, x.dst, x.write)

(***************************************************************************)
(* Field demand: the bases some projected place or aggregate read can      *)
(* observe, closed backwards over rebases and transforms (the index of     *)
(* reverse transforms holds no ScalarReturn).                              *)
(***************************************************************************)
FieldDemand(p) ==
    LET B == DOMAIN p.bases
        observed == {b \in B : BaseSources(p, b) # <<>> \/ AggregateReads(p, b) # <<>>}
        before(b) == ToSet(Rebases(p, b))
                       \cup {p.xf[i].src : i \in {j \in DOMAIN p.xf : /\ p.xf[j].dst = b
                                                                      /\ p.xf[j].kind # "ScalarReturn"}}
        grow(S) == S \cup UNION {before(b) : b \in S}
        closed[n \in Nat] == IF n = 0 THEN observed ELSE grow(closed[n-1])
    IN  closed[Cardinality(B)]

\* What the service builds once from its segments and every query reads.
RuntimeOf(p) ==
    LET N == NodesOf(p)
        B == DOMAIN p.bases
        F == DOMAIN p.fields
    IN  [out  |-> [v \in N |-> RowsFrom(p, "heap", v) \o RowsFrom(p, "call", v)
                                 \o RowsFrom(p, "ret", v)],
         into |-> [v \in N |-> RowsInto(p, "heap", v) \o RowsInto(p, "call", v)
                                 \o RowsInto(p, "ret", v) \o RowsInto(p, "consume", v)],
         facts       |-> [v \in N |-> NodeFacts(p, v)],
         sources     |-> [b \in B |-> [f \in F |-> FactSources(p, b, f)]],
         baseSources |-> [b \in B |-> BaseSources(p, b)],
         reads       |-> [b \in B |-> [f \in F |-> ExactReads(p, b, f) \o AggregateReads(p, b)]],
         rebases     |-> [b \in B |-> Rebases(p, b)],
         demand      |-> FieldDemand(p),
         xfOut       |-> [b \in B |-> TransformsFrom(p, b)],
         xfInto      |-> [b \in B |-> TransformsInto(p, b)],
         scalarInto  |-> [v \in N |-> ScalarReturnsInto(p, v)],
         writes      |-> [b \in B |-> [s \in {x.write : x \in ToSet(p.xf)} |-> ScalarWrites(p, b, s)]]]

(***************************************************************************)
(* Function summaries: the parameter/output pairs a function connects,     *)
(* given the summaries of its callees (compile_function).                  *)
(***************************************************************************)
FuncsOf(p) == ToSet(p.func)
ParamsOf(p, f) == {v \in NodesOf(p) : p.func[v] = f /\ RowsInto(p, "call", v) # <<>>}
OutputsOf(p, f) == {v \in NodesOf(p) : p.func[v] = f /\ RowsFrom(p, "ret", v) # <<>>}

LocalEdges(p, f) ==
    {<<p.edges[i].from, p.edges[i].to>> :
        i \in {j \in DOMAIN p.edges : /\ p.edges[j].kind = "flow"
                                      /\ p.func[p.edges[j].from] = f
                                      /\ p.func[p.edges[j].to] = f}}

\* An argument connected to the continuation of the same call by the summary of
\* the callee.
DerivedEdges(p, f, sums) ==
    LET rows(kind) == {p.edges[i] : i \in {j \in DOMAIN p.edges : p.edges[j].kind = kind}}
        matched == {<<c, r>> \in rows("call") \X rows("ret") :
                       /\ BoundaryOf(p, c) = BoundaryOf(p, r)
                       /\ BoundaryOf(p, c).caller = f
                       /\ <<c.to, r.from>> \in sums[BoundaryOf(p, c).callee]}
    IN  {<<m[1].from, m[2].to>> : m \in matched} \ LocalEdges(p, f)

\* The nodes reachable from S over a set of edges.
Reachable(p, edges, S) ==
    LET grow(T) == T \cup {e[2] : e \in {d \in edges : d[1] \in T}}
        grown[n \in Nat] == IF n = 0 THEN S ELSE grow(grown[n-1])
    IN  grown[Len(p.func)]

CompileFunction(p, f, sums) ==
    LET edges == LocalEdges(p, f) \cup DerivedEdges(p, f, sums)
    IN  {po \in ParamsOf(p, f) \X OutputsOf(p, f) : po[2] \in Reachable(p, edges, {po[1]})}

CallersOf(p, f) ==
    {BoundaryOf(p, p.edges[i]).caller :
        i \in {j \in DOMAIN p.edges : /\ p.edges[j].kind \in {"call", "ret"}
                                      /\ BoundaryOf(p, p.edges[j]).callee = f}}
===============================================================================
