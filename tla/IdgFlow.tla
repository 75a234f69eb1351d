-------------------------------- MODULE IdgFlow --------------------------------
(***************************************************************************)
(* What a flow query means, without worklists, spill stores, summaries,    *)
(* demand or activation: the one-step flow relation of a program, labelled *)
(* by what each step does to the call stack, and two closures over it.     *)
(*                                                                         *)
(* An item is <<"node", v>>: the value at node v; <<"source", v>>: v was   *)
(* reached by ordinary flow, so its place introduces field facts; or       *)
(* <<"fact", base, field, provenance>>.                                    *)
(***************************************************************************)
EXTENDS IdgProgram

Same(item) == [do |-> "same", key |-> <<>>, item |-> item]

EdgeSteps(p, v) ==
    {CASE e.kind = "flow" -> Same(<<"source", e.to>>)
       [] e.kind = "heap" -> [do |-> "reset", key |-> <<>>, item |-> <<"source", e.to>>]
       [] e.kind = "call" -> [do |-> "push", key |-> BoundaryOf(p, e), item |-> <<"source", e.to>>]
       [] e.kind = "ret"  -> [do |-> "pop", key |-> BoundaryOf(p, e), item |-> <<"source", e.to>>] :
        e \in {d \in ToSet(p.edges) : d.from = v /\ d.kind # "consume"}}

TransformSteps(p, b, f, prov) ==
    LET does(x) == IF ~CrossesCall(p, x) THEN "same" ELSE IF Enters(x) THEN "push" ELSE "pop"
        key(x) == IF does(x) = "same" THEN <<>> ELSE TransformBoundary(p, x)
        items(x) == IF x.kind # "ScalarReturn"
                    THEN {<<"fact", x.dst, f, ProducedProvenance(p, x)>>}
                    ELSE IF x.exact # f THEN {}
                    ELSE {<<"source", v>> : v \in ToSet(ScalarWrites(p, x.dst, x.write))}
    IN  UNION {{[do |-> does(x), key |-> key(x), item |-> i] : i \in items(x)} :
                  x \in {y \in ToSet(p.xf) : y.src = b /\ ~OutOfOrder(y, prov)}}

Steps(p, item) ==
    CASE item[1] = "node" -> EdgeSteps(p, item[2])
      [] item[1] = "source" ->
            {Same(<<"node", item[2]>>)} \cup
            {Same(<<"fact", n.base, n.field, n.prov>>) : n \in ToSet(NodeFacts(p, item[2]))}
      [] item[1] = "fact" ->
            LET b == item[2]
                f == item[3]
            IN  {Same(<<"fact", t, RebasedField(p, b, t, f), item[4]>>) :
                    t \in {u \in ToSet(Rebases(p, b)) : RebasedField(p, b, u, f) # 0}}
                \cup {Same(<<"node", v>>) : v \in ToSet(ExactReads(p, b, f) \o AggregateReads(p, b))}
                \cup TransformSteps(p, b, f, item[4])

NodesIn(states) == {s[2][2] : s \in {t \in states : t[2][1] = "node"}}

(***************************************************************************)
(* Tabulation: a context is <<>> (the seeds') or one call boundary, and a  *)
(* boundary returns to every context that called it.  The least set of     *)
(* states <<context, item>> and calls <<caller context, context>>.         *)
(***************************************************************************)
Tabulate(p, rooted, known) ==
    LET taken == UNION {{<<s, t>> : t \in Steps(p, s[2])} : s \in known.states}
        next(s, t) ==
            CASE t.do = "same"  -> {<<s[1], t.item>>}
              [] t.do = "reset" -> {<<<<>>, t.item>>}
              [] t.do = "push"  -> {<<t.key, t.item>>}
              [] t.do = "pop"   ->
                    IF s[1] = t.key THEN {<<c[1], t.item>> : c \in {d \in known.calls : d[2] = t.key}}
                    ELSE IF s[1] = <<>> /\ ~rooted THEN {<<<<>>, t.item>>} ELSE {}
    IN  [states |-> known.states \cup UNION {next(m[1], m[2]) : m \in taken},
         calls |-> known.calls \cup {<<m[1][1], m[2].key>> : m \in {n \in taken : n[2].do = "push"}}]

CONSTANT FlowRounds    \* rounds after which both closures are complete

Tabulated(p, rooted, seeds) ==
    LET round[n \in Nat] ==
            IF n = 0 THEN [states |-> {<<<<>>, <<"source", v>>>> : v \in seeds}, calls |-> {}]
            ELSE Tabulate(p, rooted, round[n-1])
    IN  round[FlowRounds]

TabulatedNodes(p, rooted, seeds) == NodesIn(Tabulated(p, rooted, seeds).states)

(***************************************************************************)
(* Call strings: the items that are reached with a concrete call stack, of *)
(* at most StackDepth frames.                                              *)
(***************************************************************************)
CONSTANT StackDepth

Walk(p, rooted, states) ==
    LET next(s, t) ==
            CASE t.do = "same"  -> {<<s[1], t.item>>}
              [] t.do = "reset" -> {<<<<>>, t.item>>}
              [] t.do = "push"  -> IF Len(s[1]) = StackDepth THEN {}
                                   ELSE {<<Append(s[1], t.key), t.item>>}
              [] t.do = "pop"   ->
                    IF s[1] # <<>> /\ Last(s[1]) = t.key THEN {<<Front(s[1]), t.item>>}
                    ELSE IF s[1] = <<>> /\ ~rooted THEN {<<<<>>, t.item>>} ELSE {}
    IN  states \cup UNION {UNION {next(s, t) : t \in Steps(p, s[2])} : s \in states}

RealizableNodes(p, rooted, seeds) ==
    LET round[n \in Nat] ==
            IF n = 0 THEN {<<<<>>, <<"source", v>>>> : v \in seeds} ELSE Walk(p, rooted, round[n-1])
    IN  NodesIn(round[FlowRounds])

\* The parameter/output pairs of a function that ordinary flow connects on a
\* balanced path: what its summary must be.
BalancedPairs(p, f) ==
    LET scalar == [p EXCEPT !.xf = <<>>, !.edges = SelectSeq(@, LAMBDA e : e.kind # "heap")]
        level(v) == {s \in Tabulated(scalar, TRUE, {v}).states : s[1] = <<>>}
    IN  {po \in ParamsOf(p, f) \X OutputsOf(p, f) : po[2] \in NodesIn(level(po[1]))}
================================================================================
