---------------------------- MODULE MCExtensionChain ----------------------------
(* Chains of a root API, a document that extends it and one that extends   *)
(* that, every tree of one of four subjects: the types, a method, the      *)
(* traits and the names a method applies, and the `uses:`.  Then chains    *)
(* that do not load.                                                       *)
EXTENDS ExtensionChain

CONSTANTS api, near, far, l1, l2, lib

Str(v, by) == Scalar(v, by)
Map(by, entries) ==
    Mapping([i \in DOMAIN entries |-> Entry(Str(entries[i][1], by), entries[i][2])], by)
Seq1(by, names) == Sequence([i \in DOMAIN names |-> Str(names[i], by)], by)

Titled(by, entries) ==
    Map(by, (IF by = api THEN << <<"title", Str("v1", by)>> >> ELSE <<>>) \o entries)

Declared(by) ==
    {Str("string", by), Str("integer", by), Str(Null, by),
     Map(by, << <<"type", Str("string", by)>>, <<"example", Str("e1", by)>> >>),
     Map(by, << <<"schema", Str("integer", by)>>, <<"examples", Map(by, << <<"a", Str("e1", by)>> >>)>> >>),
     Map(by, << <<"description", Str("v1", by)>>, <<"(note)", Str("v1", by)>> >>),
     Map(by, << <<"properties", Map(by, << <<"description", Str("string", by)>> >>)>> >>),
     Map(by, << <<"enum", Seq1(by, <<"x", "y">>)>> >>),
     Map(by, << <<"enum", Seq1(by, <<"y", "z">>)>>, <<"example", Str("e2", by)>> >>)}
Typed(by) ==
    {Titled(by, << <<key, Map(by, << <<name, t>> >>)>> >>) :
        key \in {"types", "schemas"}, name \in {"T", "U"}, t \in Declared(by)}
      \cup {Titled(by, << <<"annotationTypes", Map(by, << <<"T", Str("string", by)>> >>)>> >>)}
SomeTyped(by) ==
    {Titled(by, <<>>), Titled(by, << <<"types", Str(Null, by)>> >>),
     Titled(by, << <<"schemas", Map(by, << <<"U", Str("integer", by)>> >>)>>, <<"uses", Map(by, <<>>)>> >>)}
      \cup {Titled(by, << <<"types", Map(by, << <<"T", t>> >>)>> >>) : t \in Declared(by)}

Got(by) ==
    {<<"queryParameters", Map(by, << <<"description", Str("string", by)>> >>)>>,
     <<"queryParameters", Map(by, << <<"q", Str("string", by)>> >>)>>,
     <<"queryString", Str("string", by)>>,
     <<"description", Str("v1", by)>>, <<"description", Str("v2", by)>>,
     <<"protocols", Str("x", by)>>, <<"protocols", Seq1(by, <<"x", "y">>)>>,
     <<"protocols", Seq1(by, <<"y">>)>>, <<"protocols", Seq1(by, <<"y", "y">>)>>,
     <<"securedBy", Seq1(by, <<"x">>)>>, <<"securedBy", Str("y", by)>>,
     <<"body", Map(by, << <<"example", Str("e1", by)>> >>)>>,
     <<"body", Map(by, << <<"text/xml", Str("string", by)>> >>)>>,
     <<"body", Map(by, << <<"text/xml", Map(by, << <<"examples", Map(by, << <<"a", Str("e1", by)>> >>)>> >>)>> >>)>>,
     <<"responses", Map(by, << <<"description", Map(by, << <<"body", Str("string", by)>> >>)>> >>)>>}
Method(by, facets) ==
    Titled(by, << <<"/r", Map(by, << <<"get", Map(by, facets)>> >>)>> >>)
SomeServed(by) ==
    {Titled(by, <<>>), Titled(by, << <<"/r", Str(Null, by)>> >>)} \cup {Method(by, <<f>>) : f \in Got(by)}
Served(by) ==
    SomeServed(by)
      \cup {Method(by, <<f, <<"description", Str("v2", by)>> >>) : f \in {g \in Got(by) : g[1] # "description"}}

Trait(by, names) == Map(by, [i \in DOMAIN names |-> <<names[i], Map(by, << <<"usage", Str("v1", by)>> >>)>>])
Applies(by) ==
    {Titled(by, ts \o is) :
        ts \in {<<>>} \cup {<< <<"traits", Trait(by, names)>> >> : names \in {<<"t">>, <<"u">>, <<"t", "u">>}},
        is \in {<<>>} \cup
               {<< <<"/r", Map(by, << <<"get", Map(by, << <<"is", v>> >>)>> >>)>> >> :
                   v \in {Str("t", by), Seq1(by, <<"t">>), Seq1(by, <<"u", "t">>),
                          Sequence(<<Map(by, << <<"u", Map(by, << <<"p", Str("x", by)>> >>)>> >>)>>, by)}}}

File(kind, extends, uses, subject) ==
    [kind |-> kind, extends |-> extends, uses |-> uses, subject |-> subject]
NoUses == [x \in UsedAs |-> None]
Chain(subject, k, u, v, w) ==
    (api :> File("API", None, u, subject)) @@ (near :> File(k, api, v, subject))
      @@ (far :> File(IF subject = "uses" THEN "Extension" ELSE "Overlay", near, w, subject))
Using ==
    {Chain("uses", "Overlay", u, v, w) :
        u \in [UsedAs -> {l1, None}], v \in [UsedAs -> {l1, l2, None}], w \in [UsedAs -> {l1, l2, None}]}
Unloadable ==
    {(api :> File(k, x, NoUses, "uses")) @@ (near :> File("Overlay", y, NoUses, "uses"))
       @@ (far :> File("Extension", z, NoUses, "uses")) @@ (lib :> File("Library", None, NoUses, "uses")) :
        k \in {"API", "Overlay", None}, x \in {near, far, None}, y \in {api, far, lib, None}, z \in {near, far, api}}

MCCorpus ==
    {Chain(s, k, NoUses, NoUses, NoUses) : s \in {"types", "method", "names"}, k \in ExtensionKinds}
      \cup Using \cup Unloadable
MCWritten ==
    [types |-> (api :> SomeTyped(api)) @@ (near :> SomeTyped(near)) @@ (far :> Typed(far)),
     method |-> (api :> Served(api)) @@ (near :> Served(near)) @@ (far :> SomeServed(far)),
     names |-> [u \in {api, near, far} |-> Applies(u)],
     uses |-> [u \in {api, near, far, lib} |-> {Titled(u, <<>>), Mapping(<<>>, u)}]]
=============================================================================
