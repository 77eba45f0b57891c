-------------------------------- MODULE MCPasses --------------------------------
(* Two resources, with one below the first and two below the second, a     *)
(* method on three of them with a response in one.  Of the documents, some *)
(* vary what is wrong with them, some their paths, some the paths that are *)
(* not well formed and some their `securedBy:`.                            *)
EXTENDS Passes

CONSTANTS r1, r2, r3, r4, r5, o1, o2, o3, p1, oauth, basic

MCTop == <<r1, r3>>
MCOperationsOf == (r1 :> <<o1>>) @@ (r2 :> <<o2>>) @@ (r3 :> <<>>) @@ (r4 :> <<o3>>)
                    @@ (r5 :> <<>>)
MCNested == (r1 :> <<r2>>) @@ (r2 :> <<>>) @@ (r3 :> <<r4>>) @@ (r4 :> <<r5>>) @@ (r5 :> <<>>)
MCResponsesOf == (o1 :> <<p1>>) @@ (o2 :> <<>>) @@ (o3 :> <<>>)

Each(p, q, s, t, u) == (r1 :> p) @@ (r2 :> q) @@ (r3 :> s) @@ (r4 :> t) @@ (r5 :> u)
NoSecurity == [l \in Levels |-> None]
Plain == [strict |-> FALSE, options |-> {}, faults |-> {},
          path |-> Each(<<"a">>, <<"b">>, <<"b">>, <<"v">>, <<"w">>),
          declared |-> [r \in Resources |-> <<>>],
          secured |-> NoSecurity, scopes |-> (oauth :> {"x", "y"}) @@ (basic :> None)]

Faults ==
    ({"source", "template"} \X {r1, r2, r4, o2})
      \cup ({"facet"} \X {r1, r2, o1, o2, p1}) \cup ({"unknown"} \X {r1, r4, o1, p1})
      \cup ({"header", "types", "apifield", "unresolved", "discriminator", "annotation",
             "merge", "example"} \X {API})
      \cup ({"scheme"} \X {oauth})
Failing ==
    {[Plain EXCEPT !.strict = strict, !.options = options, !.faults = faults] :
        strict \in BOOLEAN, options \in SUBSET {"UNWRAPPED", "VALIDATED"},
        faults \in {{f, g, h} : f \in Faults, g \in Faults, h \in {<<"facet", p1>>, <<"unknown", p1>>}}
                     \cup {{f, g} : f \in Faults, g \in Faults} \cup {{}}}

Steps == {<<"a">>, <<"a", "b">>, <<"b">>, <<"v">>, <<"w", "v", "w">>}
Laid ==
    {[Plain EXCEPT !.path = Each(p, q, s, t, <<"w">>), !.faults = faults,
                   !.declared = Each(<<>>, <<"v">>, <<>>, <<"v">>, <<>>)] :
        p \in Steps, q \in Steps, s \in Steps, t \in Steps,
        faults \in {{}, {<<"facet", o3>>}, {<<"unknown", r2>>}}}

(* Up to three ill-formed paths below one another, with what the resources *)
(* declare and what is inherited from above.                               *)
Broken == {<<"v">>, <<"v", "{">>, <<"{">>, <<"w", "v">>, <<"a">>}
Unresolved ==
    {[Plain EXCEPT !.path = Each(<<"a">>, q, s, t, u), !.strict = strict,
                   !.declared = Each(<<>>, <<"w", "v">>, <<"w">>, d, <<>>)] :
        q \in {<<"v">>, <<"{">>}, s \in Broken \cup {<<"v", "x", "w">>}, t \in Broken, u \in Broken,
        d \in {<<>>, <<"v">>, <<"x", "v">>}, strict \in BOOLEAN}

Entry(name, scopes) == [name |-> name, scopes |-> scopes]
Lists ==
    {None, <<>>, <<Entry(Null, {})>>, <<Entry(oauth, {"x"}), Entry(basic, {})>>,
     <<Entry("gone", {})>>}
Securing ==
    {[Plain EXCEPT !.strict = strict, !.faults = faults,
                   !.secured = [NoSecurity EXCEPT ![API] = l, ![r1] = m, ![o1] = n, ![r2] = k]] :
        strict \in BOOLEAN, faults \in {{}, {<<"scheme", oauth>>}, {<<"annotation", API>>}},
        l \in Lists \cup {<<Entry(oauth, {"x", "z"})>>}, m \in Lists,
        n \in Lists \cup {<<Entry(basic, {"x"})>>}, k \in {None, <<Entry(oauth, {"y"})>>}}

MCCorpus ==
    Failing \cup Unresolved \cup Securing \cup {d \in Laid : d.path[r1] # d.path[r3]}
=============================================================================
