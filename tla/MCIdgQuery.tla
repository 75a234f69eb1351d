------------------------------ MODULE MCIdgQuery ------------------------------
(***************************************************************************)
(* Small programs and queries for IdgQuery.                                *)
(***************************************************************************)
EXTENDS IdgQuery

none == [k |-> "none", path |-> <<"-">>, span |-> 0]
rd(path) == [k |-> "read", path |-> path, span |-> 0]
wr(path, span) == [k |-> "write", path |-> path, span |-> span]
arg(site) == [k |-> "arg", path |-> <<"-">>, span |-> site]
row(kind, from, to, span) == [kind |-> kind, from |-> from, to |-> to, span |-> span]
flow(from, to) == row("flow", from, to, 0)
base(func, path) == [func |-> func, path |-> path]
xf(kind, src, dst, call, write) ==
    [src |-> src, dst |-> dst, kind |-> kind, exact |-> 0, call |-> call, write |-> write, ooo |-> TRUE]

\* Two objects go through g to the shared helper h and back; b.f is written with
\* a value that takes three local steps.
\*   main { a.f = ..; i = ..; j = i; k = j; b.f = k; r = g(a); s = g(b); use(r.f); use(s.f) }
\*   g(p) { z = h(p); return z }      h(q) { q.f = ..; return q }
Shared ==
    [func  |-> <<1, 1, 1, 1, 1, 1, 3, 1, 1, 1>>,
     place |-> <<wr(<<"a", "f">>, 1), wr(<<"b", "f">>, 2), rd(<<"r", "f">>), rd(<<"s", "f">>), none, none,
                 wr(<<"q", "f">>, 6), none, none, none>>,
     edges |-> <<flow(3, 5), flow(4, 6), flow(8, 9), flow(9, 10), flow(10, 2)>>,
     bases |-> <<base(1, <<"a">>), base(1, <<"b">>), base(1, <<"r">>), base(1, <<"s">>),
                 base(2, <<"p">>), base(2, <<"z">>), base(3, <<"q">>)>>,
     fields |-> <<<<"f">>>>,
     xf    |-> <<xf("Argument", 1, 5, 3, 3), xf("Argument", 2, 5, 4, 4), xf("Argument", 5, 7, 5, 5),
                 xf("Return", 7, 6, 5, 5), xf("Return", 6, 3, 3, 3), xf("Return", 6, 4, 4, 4)>>]

\* Scalars through two mutually recursive functions, and through the heap.
\*   main { x = wrap(a); y = wrap(b); k.v = y }      reader { return k.v }
\*   wrap(m) { t = rec(m); return t }                other { u = reader() }
\*   rec(n) { return n or wrap(n) }
Recursive ==
    [func  |-> <<1, 1, 1, 1, 2, 2, 2, 3, 3, 3, 4, 4, 5>>,
     place |-> [v \in 1..13 |-> none],
     edges |-> <<row("call", 1, 5, 1), row("ret", 7, 2, 1), row("call", 3, 5, 2), row("ret", 7, 4, 2),
                 row("call", 5, 8, 3), row("ret", 10, 6, 3), flow(6, 7),
                 flow(8, 10), row("call", 8, 5, 4), row("ret", 7, 9, 4), flow(9, 10),
                 row("heap", 4, 11, 0), flow(11, 12), row("ret", 12, 13, 5)>>,
     bases |-> <<base(1, <<"a">>)>>, fields |-> <<>>, xf |-> <<>>]

\* Nested access paths, a copy that must not see a later write, a field returned
\* as a scalar, and an aggregate consumed as a whole.
\*   main { o.i.f = ..; t = o.i; o.i.g = ..; u = t; s = get(u); log(t); use(t.g); use(u.f); m.x(s) }
\*   get(q) { return q.f }
Nested ==
    [func  |-> <<1, 1, 1, 1, 1, 1, 1, 1, 2, 1, 1>>,
     place |-> <<wr(<<"o", "i", "f">>, 1), wr(<<"o", "i", "g">>, 3), rd(<<"t", "g">>), rd(<<"u", "f">>),
                 wr(<<"s">>, 5), none, rd(<<"t">>), arg(6), rd(<<"q", "f">>), none, rd(<<"m", "x">>)>>,
     edges |-> <<row("consume", 7, 8, 0), flow(8, 10), flow(5, 6), flow(3, 10), flow(6, 11)>>,
     bases |-> <<base(1, <<"o">>), base(1, <<"o", "i">>), base(1, <<"t">>), base(1, <<"u">>),
                 base(1, <<"s">>), base(2, <<"q">>)>>,
     fields |-> <<<<"f">>, <<"g">>, <<"i">>, <<"i", "f">>, <<"i", "g">>, <<"x">>>>,
     xf    |-> <<[xf("Copy", 2, 3, 2, 2) EXCEPT !.ooo = FALSE], xf("Copy", 3, 4, 4, 4),
                 xf("Argument", 4, 6, 5, 5), [xf("ScalarReturn", 6, 5, 5, 5) EXCEPT !.exact = 1]>>]

\* The helper f is used by main directly and again below c, whose result takes
\* one more local step on its way to the target.
\*   main { x = f(a); y = c(b); w = y.f; use(w, x.f) }
\*   c(p) { z = f(p); return z }      f(q) { return q }
TwoRoutes ==
    [func  |-> <<1, 1, 1, 1, 1>>,
     place |-> <<wr(<<"b", "f">>, 1), wr(<<"w">>, 4), rd(<<"x", "f">>), rd(<<"y", "f">>), none>>,
     edges |-> <<flow(4, 2), flow(2, 5), flow(3, 5)>>,
     bases |-> <<base(1, <<"a">>), base(1, <<"x">>), base(1, <<"b">>), base(1, <<"y">>),
                 base(2, <<"p">>), base(2, <<"z">>), base(3, <<"q">>)>>,
     fields |-> <<<<"f">>>>,
     xf    |-> <<xf("Argument", 1, 7, 2, 2), xf("Return", 7, 2, 2, 2), xf("Argument", 3, 5, 3, 3),
                 xf("Return", 6, 4, 3, 3), xf("Argument", 5, 7, 5, 5), xf("Return", 7, 6, 5, 5)>>]

Query(p, seeds, targets, root, proof) ==
    [p |-> p, seeds |-> seeds, targets |-> targets, root |-> root, rel |-> proof]

\* The same program with its rows stored the other way round.
Turned(p) == [p EXCEPT !.edges = Reverse(@), !.xf = Reverse(@)]

Questions ==
    {<<Shared, <<1, 8>>, <<5, 6>>, 1>>, <<Shared, <<1, 2>>, <<6>>, 1>>, <<Shared, <<7>>, <<5>>, 3>>,
     <<Recursive, <<1>>, <<2, 4>>, 1>>, <<Recursive, <<1, 3>>, <<13>>, 1>>,
     <<Nested, <<1, 2>>, <<10>>, 1>>, <<Nested, <<1>>, <<6>>, 1>>, <<Nested, <<1>>, <<11>>, 1>>,
     <<TwoRoutes, <<1>>, <<5>>, 1>>}

MCJobs ==
    UNION {{Query(p, q[2], q[3], root, proof) :
               p \in {q[1], Turned(q[1])}, root \in {0, q[4]}, proof \in {"none", "all"}} :
              q \in Questions}
SourceJobs == {Query(TwoRoutes, <<1>>, <<5>>, 1, proof) : proof \in {"none", "all", "source"}}

MCAsked == {<<7, 1>>, <<3, 2>>}

\* The reference closures are closed, so FlowRounds is enough.
ASSUME ReferenceIsClosed ==
    \A j \in Jobs : LET t == Tabulated(j.p, j.root # 0, ToSet(j.seeds))
                    IN  Tabulate(j.p, j.root # 0, t) = t
===============================================================================
