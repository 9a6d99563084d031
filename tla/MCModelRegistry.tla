-------------------------- MODULE MCModelRegistry --------------------------
(* Contents of the registry file that differ in what they make of the same *)
(* names: another kind, another upstream, no upstream, an entry that is    *)
(* refused, one that is no object, a file that is half written.            *)
EXTENDS ModelRegistry, TLC

CONSTANTS r1, r2, t0, t1, t2

entry(p, k, b) == [provider |-> p, kind |-> k, base |-> b]
m == <<"plain", "m">>
x == <<"plain", "x">>
j == <<"jetbrains", "j">>
MCNames == {m, x, j, Template, <<"compat", "u">>}
MCBuiltin == m :> entry("vertex", "embedding", None)
MCExtra == {x}
content(es, inc) == [text |-> "json", entries |-> es, include |-> inc]
Plain == content(<<>>, None)
Upstream1 ==
    content(Template :> entry("openai_compatible", "chat", "b1"), {<<"compat", "u">>})
Upstream2 ==
    content(Template :> entry("openai_compatible", "chat", "b2")
              @@ m :> entry("vertex", "chat", None), None)
Rejected ==
    content(m :> entry("openai_compatible", "chat", None), {m})
Odd == content(j :> entry("jetbrains", "embedding", None) @@ x :> NotAnObject, {x})
HalfWritten == [text |-> "undecodable", entries |-> <<>>, include |-> None]
MCContents == {Plain, Upstream1, Upstream2, Rejected, Odd, HalfWritten}
MCEnvContent == Plain
MCEnvFilter == MCNames
MCOffered == "b1" :> {"u"} @@ "b2" :> {}
Symmetry == Permutations(Requests) \union Permutations(Times \ {Epoch})
=============================================================================
