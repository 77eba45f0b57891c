---------------------------- MODULE ExtensionChain ----------------------------
(***************************************************************************)
(* fastraml/parser/extensions.py: an Overlay or Extension is loaded with   *)
(* the chain of masters its `extends` names, down to one API, and the      *)
(* chain is applied to that API from the nearest document outward.  What   *)
(* is decoded is the resulting tree, once.                                 *)
(*                                                                         *)
(* A document is `kind` (None: not RAML, or unreadable), the file its      *)
(* `extends` names (None: there is none), its `uses:` (None: not written), *)
(* and what the documents of its parse are about, which is all its root    *)
(* node depends on.                                                        *)
(***************************************************************************)
EXTENDS ExtensionMerge

CONSTANTS
    UsedAs,     \* the prefixes a `uses:` may name
    Entry0,     \* the file that is parsed
    Corpus,     \* the documents of a parse, by URI
    Written     \* the root nodes a document may have, by subject and URI

ExtensionKinds == {"Overlay", "Extension"}

VARIABLES
    file,       \* the documents, which no step changes
    phase,      \* "loading", "applying", "uses", "done" or "failed"
    chain,      \* `seen`: the URIs loaded, the entry first
    root,       \* the root nodes of those composed
    position,   \* how many documents are applied
    target,     \* the tree the root API has become
    master,     \* the tree before the last document was applied
    declaredBy, \* APIFragment.declared_by: the position that added a name
    visible,    \* visible_uses by position; the API's `uses` are at 0
    errors

vars == <<file, phase, chain, root, position, target, master, declaredBy, visible, errors>>

(* The documents in the order they are applied; position 0 is the root API.*)
Last0 == Len(chain) - 1
Applied(p) == chain[Len(chain) - p]

Init ==
    /\ file \in Corpus
    /\ phase = "loading"
    /\ chain = <<Entry0>>
    /\ root = <<>>
    /\ position = 0
    /\ target = None /\ master = None
    /\ declaredBy = <<>>
    /\ visible = <<>>
    /\ errors = {}

(* _load and _extends_node, one document: the root API ends the chain; a   *)
(* master that is missing, seen before or of another kind ends the parse.  *)
Follows(uri, next) ==
    /\ next # None
    /\ next \notin ToSet(chain)
    /\ file[next].kind \in ExtensionKinds \cup {"API"}

Load ==
    /\ phase = "loading"
    /\ LET uri == chain[Len(chain)]
           next == file[uri].extends
       IN /\ \E n \in Written[file[uri].subject][uri] : root' = root @@ (uri :> n)
          /\ CASE file[uri].kind = "API" ->
                    /\ phase' = "applying"
                    /\ target' = root'[uri]
                    /\ errors' = IF "title" \in Keys(target') THEN {} ELSE {<<"title", uri>>}
                    /\ UNCHANGED chain
               [] file[uri].kind # "API" /\ Follows(uri, next) ->
                    /\ chain' = Append(chain, next)
                    /\ UNCHANGED <<phase, target, errors>>
               [] OTHER ->
                    /\ phase' = "failed"
                    /\ errors' = {<<"extends", chain>>}
                    /\ UNCHANGED <<chain, target>>
    /\ UNCHANGED <<file, position, master, declaredBy, visible>>

(* `origins.setdefault(name, position)`.                                   *)
Recorded(declared, p) ==
    declaredBy @@ [d \in declared |-> p]

(* The body of the loop of decode_extension_chain, one document: merge it, *)
(* keep what an Overlay may not do, record the names it declared.          *)
Apply ==
    /\ phase = "applying" /\ position < Last0
    /\ LET uri == Applied(position + 1)
           merge == MergeExtension(target, root[uri], file[uri].kind = "Overlay", uri)
       IN /\ target' = merge.node
          /\ errors' = errors \cup {<<"overlay", uri, v>> : v \in merge.out.violations}
          /\ declaredBy' = Recorded(merge.out.declared, position + 1)
    /\ master' = target
    /\ position' = position + 1
    /\ UNCHANGED <<file, phase, chain, root, visible>>

(* The tree is decoded in full whatever was reported of the merge.         *)
Decode ==
    /\ phase = "applying" /\ position = Last0
    /\ phase' = "uses"
    /\ UNCHANGED <<file, chain, root, position, target, master, declaredBy, visible, errors>>

(* _resolve_libraries, one document: its prefixes beside its masters',     *)
(* which keep one that it names for another library.                       *)
Own(p) == {x \in UsedAs : file[Applied(p)].uses[x] # None}
Combined(p) ==
    [x \in UsedAs |->
        IF p > 0 /\ visible[p][x] # None THEN visible[p][x]
        ELSE file[Applied(p)].uses[x]]
Conflicts(p) ==
    IF p = 0 THEN {}
    ELSE {x \in Own(p) : visible[p][x] # None /\ visible[p][x] # file[Applied(p)].uses[x]}

ResolveLibraries ==
    /\ phase = "uses"
    /\ LET p == Len(visible)
       IN /\ visible' = Append(visible, Combined(p))
          /\ errors' = errors \cup {<<"prefix", Applied(p), x>> : x \in Conflicts(p)}
          /\ phase' = IF p = Last0 THEN "done" ELSE "uses"
    /\ UNCHANGED <<file, chain, root, position, target, master, declaredBy>>

Next == Load \/ Apply \/ Decode \/ ResolveLibraries
Spec == Init /\ [][Next]_vars 

-----------------------------------------------------------------------------
(* Resolving a name of the tree.  Every scalar below a node:               *)
RECURSIVE Parts(_)
Parts(n) ==
    {n} \cup UNION {IF n.is = "mapping" THEN Parts(e.key) \cup Parts(e.value) ELSE Parts(e) :
                      e \in ToSet(n.content)}

(* The names `is:` applies, and the traits the tree declares.              *)
RECURSIVE Applications(_, _)
Applications(n, site) ==
    IF n.is # "mapping" THEN {}
    ELSE UNION {LET child == ChildSite(site, e.key.value)
                IN IF e.key.value = "is" /\ child = "APPLICATION"
                   THEN IF e.value.is = "sequence"
                        THEN UNION {IF i.is = "mapping" THEN {i.content[1].key} ELSE {i} :
                                      i \in ToSet(e.value.content)}
                        ELSE {e.value}
                   ELSE Applications(e.value, child) : e \in ToSet(n.content)}
Declarations(tree, name) ==
    IF tree.is = "mapping" /\ name \in Keys(tree) /\ At(tree, name).is = "mapping"
    THEN Keys(At(tree, name)) ELSE {}

(* _seen_from and VisibleTable.get, at the position of the document that   *)
(* wrote the name: an unmarked node is the root API's.                     *)
PositionOf(n) ==
    IF n.author = None THEN 0 ELSE CHOOSE p \in 0..Last0 : Applied(p) = n.author
Origin(name) ==
    IF <<"traits", name>> \in DOMAIN declaredBy THEN declaredBy[<<"traits", name>>] ELSE 0
Resolves(n) ==
    /\ n.value \in Declarations(target, "traits")
    /\ Origin(n.value) <= PositionOf(n)

-----------------------------------------------------------------------------
(* What of a tree an Overlay may not touch, in one spelling: without the   *)
(* facets and annotations it is free to change and, at `types`, without    *)
(* the types `known` does not name.  A type that is only a `type` is that  *)
(* type, an empty mapping is null, and a name in a list is a list of one.  *)
Scalar0(v) == <<"scalar", v>>
RECURSIVE Core(_, _, _, _)
Core(n, site, name, known) ==
    LET bound == {e \in ToSet(n.content) :
                    /\ ~AllowedKey(site, e.key.value)
                    /\ ~(site = "ROOT" /\ e.key.value \in IgnoredAtRoot)
                    /\ site = "TYPES" => e.key.value \in known}
        parts == {<<Canonical(site, e.key.value),
                    Core(e.value, ChildSite(site, e.key.value), e.key.value, known)>> : e \in bound}
        left == {p \in parts : ~(site = "ROOT" /\ p = <<"types", Scalar0(Null)>>)}
    IN CASE site \in {"DATA", "DOCUMENTATION"} -> <<n.is, n>>
         [] n.is = "scalar" /\ name \in SequenceKeys -> <<"sequence", <<Scalar0(n.value)>>>>
         [] n.is = "scalar" -> Scalar0(n.value)
         [] n.is = "sequence" ->
               <<"sequence", [i \in DOMAIN n.content |-> Core(n.content[i], "GENERIC", "", known)]>>
         [] left = {} -> Scalar0(Null)
         [] site = "TYPE" /\ {p[1] : p \in left} = {"type"} -> (CHOOSE p \in left : TRUE)[2]
         [] OTHER -> <<"mapping", left>>

Known == Declarations(master, "types") \cup Declarations(master, "schemas")
CoreOf(tree) == Core(tree, "ROOT", "", Known)

(* An Overlay that passes the check has changed nothing but what an Overlay*)
(* may change, and one that is refused has changed something more: the     *)
(* merge and the check walk the same keys in two spellings, one removes    *)
(* what the other adds, and only below an allowed key is all of it free    *)
(* (merge, _change, _allowed_key).                                         *)
OverlayChangesNothing ==
    (position > 0 /\ phase = "applying" /\ file[Applied(position)].kind = "Overlay") =>
        ((\E v \in errors : v[1] = "overlay" /\ v[2] = Applied(position))
            <=> CoreOf(target) # CoreOf(master))

(* Every node of the tree is resolved in the file that wrote it: the marks *)
(* a later document leaves on what an earlier one wrote, and on a key it   *)
(* replaced or kept, name the author of each (mark_authored, _union,       *)
(* _replace).                                                              *)
AuthorsKnown ==
    phase \in {"applying", "uses"} =>
        \A n \in Parts(target) :
            n.by # None => n.author = (IF n.by = Applied(0) THEN None ELSE n.by)

(* A name resolves exactly where a document of the chain up to its writer's*)
(* declared it, and a prefix names one library for every document that     *)
(* sees it, or the conflict is reported (docs/19 section 5.2).             *)
SeenAlongTheChain ==
    /\ phase = "uses" =>
          \A n \in Applications(target, "ROOT") :
             Resolves(n) <=>
                \E p \in 0..PositionOf(n) : n.value \in Declarations(root[Applied(p)], "traits")
    /\ phase = "done" =>
          \A x \in UsedAs, p \in 0..Last0 :
             LET libraries == {file[Applied(i)].uses[x] : i \in 0..p} \ {None}
             IN /\ visible[p + 1][x] \in libraries \cup {None}
                /\ visible[p + 1][x] = None <=> libraries = {}
                /\ \A i \in p..Last0 : libraries # {} => visible[i + 1][x] = visible[p + 1][x]
                /\ Cardinality(libraries) > 1 =>
                      \E e \in errors : e[1] = "prefix" /\ e[3] = x

(* A document that restates what the tree already says changes nothing of  *)
(* it: applying a document twice is applying it once (union_items,         *)
(* node_value_equal, _normalize, _remove_conflicts).                       *)
RestatedUnchanged ==
    phase = "applying" /\ position > 0 =>
        LET uri == Applied(position)
        IN MergeExtension(target, root[uri], TRUE, uri).kept

=============================================================================
