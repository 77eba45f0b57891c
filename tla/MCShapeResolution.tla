-------------------------- MODULE MCShapeResolution --------------------------
(* Four declarations that name one another in every way, one of which may  *)
(* be written under another, with one that has its kind and one name that  *)
(* is bound to nothing, under a ceiling that is passed and one that is not.*)
EXTENDS ShapeResolution

CONSTANTS a, b, c, d, k

MCShapes == {a, b, c, d, k}
Named(ts) == {[form |-> "name", names |-> <<t>>] : t \in ts}
Composite(ps) == {[form |-> "composite", names |-> pair] : pair \in ps}
Union(ps) == {[form |-> "expression", names |-> pair] : pair \in ps}

(* The forms of each declaration.                                          *)
OfA == Named({b, c, Missing}) \cup Composite({<<b, c>>, <<c, b>>}) \cup Union({<<b, a>>})
OfB == Named({c, d, k}) \cup Composite({<<c, d>>, <<d, c>>, <<k, a>>})
OfC == Named({d, k, Missing}) \cup Composite({<<k, d>>, <<d, b>>})
         \cup Union({<<k, k>>, <<k, Missing>>, <<a, k>>})
OfD == Named({a, b, k, Missing})
Decl(x, y, z, w, s) ==
    CASE s = a -> x [] s = b -> y [] s = c -> z [] s = d -> w
      [] OTHER -> [form |-> "known", names |-> <<>>]

MCCorpus ==
    {[form |-> [s \in MCShapes |-> Decl(x, y, z, w, s).form],
      kind |-> [s \in MCShapes |-> IF s = k THEN "object" ELSE "union"],
      names |-> [s \in MCShapes |-> Decl(x, y, z, w, s).names],
      under |-> [s \in MCShapes |-> IF s = o THEN <<d>> ELSE <<>>],
      faulty |-> f,
      worklist |-> IF o = k THEN <<a, b, c, d>> ELSE <<a, b, c>>,
      maxDepth |-> n] :
        x \in OfA, y \in OfB, z \in OfC, w \in OfD, o \in {a, c, k},
        f \in {{}, {b}}, n \in {1, 5}}
(* What is written under another is not in scope: nothing names it.        *)
MCModels ==
    {m \in MCCorpus :
        (\E s \in MCShapes : d \in ToSet(m.under[s]) /\ s # k)
            => \A s \in MCShapes : d \notin ToSet(m.names[s])}
=============================================================================
