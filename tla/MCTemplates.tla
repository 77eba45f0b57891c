------------------------------ MODULE MCTemplates ------------------------------
(* A resource with one below it, a chain of two resource types that may    *)
(* name each other, and two traits in two libraries that import each       *)
(* other: `x.paged` is `paged` in the library it is written in, as is      *)
(* `y.secured` `secured` in the other.                                     *)
EXTENDS Templates

CONSTANTS r1, r2, A, B, paged, secured, get, put, p, body, auth

MCChildren == (r1 :> <<r2>>) @@ (r2 :> <<>>)

MCFinds(by, name) ==
    CASE by \notin {paged, secured} /\ name = "A" -> A
      [] by \notin {paged, secured} /\ name = "B" -> B
      [] name = (IF by = paged THEN "paged" ELSE "x.paged") -> paged
      [] name = (IF by = secured THEN "secured" ELSE "y.secured") -> secured
      [] OTHER -> None

Ref(name, given) == [name |-> name, params |-> given]
Plain(name) == <<Ref(name, {})>>
Part(is, writes, uses) == [is |-> is, writes |-> writes, vars |-> uses]
Bare == Part(<<>>, {}, {})
Declares(type, own, ops, optional) ==
    [type |-> type, own |-> own, ops |-> ops, optional |-> optional]

Uppers ==
    {Declares(type, own, ops, {}) :
        type \in {Plain("A"), <<Ref("A", {p})>>},
        own \in {Bare, Part(Plain("y.secured"), {}, {})},
        ops \in {<<>>, get :> Part(Plain("x.paged"), {auth}, {}),
                 (get :> Bare) @@ (put :> Part(<<Ref("x.paged", {}), Ref("y.secured", {p})>>, {}, {}))}}
Lowers ==
    {Declares(type, Bare, get :> Part(Plain("gone"), {}, {}), {}) :
        type \in {<<>>, Plain("B")}}
Firsts ==
    {Declares(type, Part(is, {}, {}), ops, optional) :
        type \in {<<>>, Plain("B"), Plain("gone")}, is \in {<<>>, <<Ref("x.paged", {p})>>},
        ops \in {get :> Part(<<>>, {body}, {p}), get :> Part(Plain("y.secured"), {}, {})},
        optional \in {{}, {get}}}
Seconds ==
    {Declares(Plain("A"), Part(Plain("gone"), {}, {}), ops, optional) :
        ops \in {put :> Part(Plain("x.paged"), {body}, {}),
                 (get :> Part(Plain("x.paged"), {auth, body}, {})) @@ (put :> Bare)},
        optional \in {{}, {put}}}
Pageds == {Part(is, {auth}, {}) : is \in {<<>>, Plain("y.secured"), Plain("gone")}}
Secureds == {Part(is, {body, auth}, uses) :
               is \in {Plain("secured"), Plain("x.paged")}, uses \in {{}, {p}}}

MCCorpus ==
    {(r1 :> upper) @@ (r2 :> lower) @@ (A :> a) @@ (B :> b) @@ (paged :> x) @@ (secured :> y) :
        upper \in Uppers, lower \in Lowers, a \in Firsts, b \in Seconds,
        x \in Pageds, y \in Secureds}
=============================================================================
