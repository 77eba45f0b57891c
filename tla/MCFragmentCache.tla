--------------------------- MODULE MCFragmentCache ---------------------------
(* Every document set over an API, two libraries and a trait in which the  *)
(* API imports the libraries, the libraries import themselves, each other  *)
(* and, wrongly, the API, and the trait imports a library.                 *)
EXTENDS FragmentCache

CONSTANTS api, l1, l2, t

MCFiles == {api, l1, l2, t}

Document(kind, states, includes, uses) ==
    {[kind |-> kind, state |-> state, include |-> i, uses |-> u] :
        state \in states, i \in includes, u \in uses}
Absent(kind) ==
    {[kind |-> kind, state |-> state, include |-> <<>>, uses |-> <<>>] :
        state \in {"missing", "unreadable"}}

UpToTwo(S) == {<<>>} \cup {<<f>> : f \in S} \cup (S \X S)

MCCorpus ==
    {[f \in MCFiles |-> IF f = api THEN a ELSE IF f = l1 THEN x
                        ELSE IF f = l2 THEN y ELSE z] :
        a \in Document("api", {"ok"}, {<<>>, <<t>>},
                       {<<>>, <<l1>>, <<l1, l2>>, <<l2, l1>>}),
        x \in Absent("library")
               \cup Document("library", {"ok", "bad"}, {<<>>, <<t>>, <<t, l2>>},
                             UpToTwo({l1, l2, api})),
        y \in Absent("library")
               \cup Document("library", {"ok", "bad"}, {<<>>}, UpToTwo({l1, l2})),
        z \in Absent("trait")
               \cup Document("trait", {"ok", "bad"}, {<<>>}, {<<>>, <<l1>>, <<l2>>})}
=============================================================================
