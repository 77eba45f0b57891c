---------------------------- MODULE ExtensionMerge ----------------------------
(***************************************************************************)
(* fastraml/parser/extension_merge.py: what an Overlay or Extension does   *)
(* to the tree of its master, and which of it an Overlay may not do.  The  *)
(* positions of the grammar are those of parser/syntax.py.                 *)
(*                                                                         *)
(* A node carries the document that wrote it, `by` (None for one the merge *)
(* makes), and the mark the merge gives it, `author`, which in the program *)
(* is an entry of Raml._document_provenance under the node's identity.     *)
(***************************************************************************)
EXTENDS Naturals, Sequences, FiniteSets, SequencesExt, TLC

CONSTANTS
    Paths, Annotations, Media,  \* names that are a path, an annotation, a media type
    Null, None                  \* the value of an empty node, and no document

Methods == {"get", "put"}

-----------------------------------------------------------------------------
(* yamlnode.py: a scalar, a sequence, or a mapping of keys to values.      *)
Scalar(value, by) == [is |-> "scalar", value |-> value, content |-> <<>>, by |-> by, author |-> None]
Sequence(items, by) == [is |-> "sequence", value |-> Null, content |-> items, by |-> by, author |-> None]
Mapping(entries, by) == [is |-> "mapping", value |-> Null, content |-> entries, by |-> by, author |-> None]
Entry(key, value) == [key |-> key, value |-> value]

IsNull(n) == n.is = "scalar" /\ n.value = Null
Keys(n) == {e.key.value : e \in ToSet(n.content)}
At(n, name) == (CHOOSE e \in ToSet(n.content) : e.key.value = name).value

(* mark_subtree: set if absent, and not entered when present.              *)
RECURSIVE Authored(_, _)
Authored(n, author) ==
    IF n.author # None THEN n
    ELSE [n EXCEPT !.author = author,
                   !.content = [i \in DOMAIN @ |->
                      IF n.is = "mapping"
                      THEN Entry(Authored(@[i].key, author), Authored(@[i].value, author))
                      ELSE Authored(@[i], author)]]

(* structural_merge.py, node_value_equal: whoever wrote them.              *)
RECURSIVE ValueEqual(_, _)
ValueEqual(a, b) ==
    /\ a.is = b.is
    /\ a.value = b.value
    /\ Len(a.content) = Len(b.content)
    /\ \A i \in DOMAIN a.content :
          IF a.is = "mapping"
          THEN /\ a.content[i].key.value = b.content[i].key.value
               /\ ValueEqual(a.content[i].value, b.content[i].value)
          ELSE ValueEqual(a.content[i], b.content[i])

-----------------------------------------------------------------------------
(* syntax.py, NAME_MAPS and _CHILDREN.                                     *)
NameMaps ==
    [TYPES |-> "TYPE", ANNOTATION_TYPES |-> "TYPE", NAMED_TYPES |-> "TYPE",
     TRAITS |-> "METHOD", RESOURCE_TYPES |-> "RESOURCE",
     SECURITY_SCHEMES |-> "SECURITY_SCHEME", RESPONSES |-> "RESPONSE", EXAMPLES |-> "DATA"]
Grammar ==
    [ROOT |-> [types |-> "TYPES", schemas |-> "TYPES", annotationTypes |-> "ANNOTATION_TYPES",
               traits |-> "TRAITS", resourceTypes |-> "RESOURCE_TYPES",
               securitySchemes |-> "SECURITY_SCHEMES", baseUriParameters |-> "NAMED_TYPES",
               documentation |-> "DOCUMENTATION", securedBy |-> "APPLICATION"],
     RESOURCE |-> [uriParameters |-> "NAMED_TYPES", type |-> "APPLICATION", is |-> "APPLICATION",
                   securedBy |-> "APPLICATION"],
     METHOD |-> [headers |-> "NAMED_TYPES", queryParameters |-> "NAMED_TYPES",
                 queryString |-> "TYPE", body |-> "BODY", responses |-> "RESPONSES",
                 is |-> "APPLICATION", securedBy |-> "APPLICATION"],
     RESPONSE |-> [headers |-> "NAMED_TYPES", body |-> "BODY"],
     TYPE |-> [properties |-> "NAMED_TYPES", facets |-> "NAMED_TYPES", items |-> "TYPE",
               type |-> "TYPE", schema |-> "TYPE", examples |-> "EXAMPLES",
               example |-> "DATA", default |-> "DATA"],
     SECURITY_SCHEME |-> [describedBy |-> "METHOD"]]

FacetSite(site, name) == IF site = "BODY" /\ name \notin Media THEN "TYPE" ELSE site

ChildSite(site, name) ==
    LET at == FacetSite(site, name)
    IN CASE site \in DOMAIN NameMaps -> NameMaps[site]
         [] site \in {"DATA", "APPLICATION"} -> site
         [] name \in Annotations -> "DATA"
         [] site = "BODY" /\ name \in Media -> "TYPE"
         [] site \in {"ROOT", "RESOURCE"} /\ name \in Paths -> "RESOURCE"
         [] site = "RESOURCE" /\ name \in Methods -> "METHOD"
         [] at \in DOMAIN Grammar /\ name \in DOMAIN Grammar[at] -> Grammar[at][name]
         [] OTHER -> "GENERIC"

-----------------------------------------------------------------------------
(* _CONFLICTS: the key that another one removes.                           *)
Conflicting(site, name) ==
    CASE FacetSite(site, name) = "METHOD" /\ name = "queryString" -> "queryParameters"
      [] FacetSite(site, name) = "METHOD" /\ name = "queryParameters" -> "queryString"
      [] FacetSite(site, name) = "TYPE" /\ name = "example" -> "examples"
      [] FacetSite(site, name) = "TYPE" /\ name = "examples" -> "example"
      [] OTHER -> None

(* _SYNONYMS: `schemas` for `types`, `schema` for `type`.                  *)
Canonical(site, name) ==
    CASE FacetSite(site, name) = "ROOT" /\ name = "schemas" -> "types"
      [] FacetSite(site, name) = "TYPE" /\ name = "schema" -> "type"
      [] OTHER -> name

SequenceKeys == {"protocols", "mediaType", "is", "securedBy", "allowedTargets"}
IgnoredAtRoot == {"uses", "usage", "extends"}
OverlayFacets ==
    {"title", "displayName", "description", "usage", "example", "examples", "documentation"}
DeclarationKinds ==
    [TYPES |-> "types", ANNOTATION_TYPES |-> "annotationTypes", TRAITS |-> "traits",
     RESOURCE_TYPES |-> "resourceTypes", SECURITY_SCHEMES |-> "securitySchemes"]

(* _allowed_key: an Overlay may change what is at and below `name`.        *)
AllowedKey(site, name) ==
    /\ site \notin DOMAIN NameMaps \cup {"DATA"}
    /\ \/ name \in OverlayFacets \cup Annotations
       \/ site = "ROOT" /\ name = "annotationTypes"

-----------------------------------------------------------------------------
(* What the merge of one document reports beside the tree: the changes an  *)
(* Overlay may not make and the names declared.                            *)
Nothing == [violations |-> {}, declared |-> {}]
Both(a, b) ==
    [violations |-> a.violations \cup b.violations, declared |-> a.declared \cup b.declared]

(* Mutant: a type map is free whatever happens in it.                      *)
ChangeAnyType(overlay, site, name, change, free) ==
    [Nothing EXCEPT !.violations =
        IF ~overlay \/ free \/ AllowedKey(site, name) \/ site = "TYPES"
        THEN {} ELSE {<<name, change>>}]

(* _change.                                                                *)
Change(overlay, site, name, change, free) ==
    [Nothing EXCEPT !.violations =
        IF \/ ~overlay \/ free \/ AllowedKey(site, name)
           \/ /\ change = "added"
              /\ \/ site = "TYPES"
                 \/ site = "ROOT" /\ name \in {"types", "schemas"}
        THEN {} ELSE {<<name, change>>}]

(* _declare and _declare_all: a new name, or all of a map that was absent. *)
Declare(site, names) ==
    [Nothing EXCEPT !.declared =
        IF site \in DOMAIN DeclarationKinds THEN {<<DeclarationKinds[site], n>> : n \in names} ELSE {}]
(* Mutant: a map that is added whole declares nothing.                     *)
DeclareOne(site, name, value) == Declare(site, {name})
DeclareAll(site, name, value) ==
    Both(Declare(site, {name}),
         Declare(ChildSite(site, name), IF value.is = "mapping" THEN Keys(value) ELSE {}))

(* _normalize: two spellings of one thing, where their kinds differ.  The  *)
(* containers are the merge's own.                                         *)
Spelled(n, other, site, name) ==
    CASE n.is = other.is -> n
      [] IsNull(n) /\ other.is = "mapping" -> Mapping(<<>>, None)
      [] ~IsNull(n) /\ site = "TYPE" /\ n.is = "scalar" /\ other.is = "mapping" ->
            Mapping(<<Entry(Scalar("type", None), n)>>, None)
      [] name \in SequenceKeys /\ n.is = "scalar" /\ other.is = "sequence" ->
            Sequence(<<n>>, None)
      [] OTHER -> n

(* A value that was merged: whether it is still the target's very node, and*)
(* whether it is now the document's, key and all.                          *)
Kept(n) == [node |-> n, kept |-> TRUE, replaced |-> FALSE, out |-> Nothing]
Grafted(n, out) == [node |-> n, kept |-> FALSE, replaced |-> FALSE, out |-> out]

Scalars(n) == n.is = "sequence" /\ \A i \in ToSet(n.content) : i.is = "scalar"

(* Mutants: an item is added unmarked, or although it is there.            *)
UnionUnmarked(old, new, by) ==
    FoldLeft(LAMBDA items, n :
                IF \E i \in ToSet(items) : ValueEqual(i, n) THEN items ELSE Append(items, n),
             old.content, new.content)
UnionOfAll(old, new, by) ==
    old.content \o [i \in DOMAIN new.content |-> Authored(new.content[i], by)]

(* structural_merge.py, union_items.                                       *)
Union(old, new, by) ==
    FoldLeft(LAMBDA items, n :
                IF \E i \in ToSet(items) : ValueEqual(i, n) THEN items
                ELSE Append(items, Authored(n, by)),
             old.content, new.content)

(* _Merger, for the document `by`: mapping, _value, _replace and _union.   *)
(* `free` is below a key an Overlay may change.                            *)
RECURSIVE MergeMapping(_, _, _, _, _, _)

Replace(old, new, site, name, free, overlay, by) ==
    IF ValueEqual(old, new) THEN Kept(old)
    ELSE [node |-> Authored(new, by), kept |-> FALSE, replaced |-> TRUE,
          out |-> Change(overlay, site, name, "changed", free)]

AddItems(old, new, site, name, free, overlay, by) ==
    LET items == Union(old, new, by)
    IN IF Len(items) = Len(old.content) THEN Kept(old)
       ELSE Grafted(Sequence(items, None), Change(overlay, site, name, "added", free))

Merge(old, new, child, site, name, free, overlay, by) ==
    CASE child \notin {"DATA", "DOCUMENTATION", "APPLICATION"} /\ old.is = "mapping" /\ new.is = "mapping" ->
           MergeMapping(old, new, child, free \/ AllowedKey(site, name), overlay, by)
      [] child \notin {"DATA", "DOCUMENTATION"} /\ old.is = "sequence" /\ new.is = "sequence"
           /\ (child = "APPLICATION" => Scalars(old) /\ Scalars(new)) ->
           AddItems(old, new, site, name, free, overlay, by)
      [] OTHER -> Replace(old, new, site, name, free, overlay, by)

MergeSpelled(written, given, child, site, name, free, overlay, by) ==
    IF child \in {"DATA", "DOCUMENTATION"}
    THEN Merge(written, given, child, site, name, free, overlay, by)
    ELSE LET old == Spelled(written, given, child, name)
         IN [Merge(old, Spelled(given, written, child, name), child, site, name, free, overlay, by)
               EXCEPT !.kept = @ /\ old.is = written.is]

MergeValue(written, given, site, name, free, overlay, by) ==
    MergeSpelled(written, given, ChildSite(site, name), site, name, free, overlay, by)

(* mapping.  Where a key of the target is, that no conflict has removed: 0 *)
(* where it is not.                                                        *)
Live(gone, at) == IF at = {} THEN 0
                  ELSE LET i == CHOOSE i \in at : \A k \in at : i <= k
                       IN IF i \in gone THEN 0 ELSE i
Exact(own, name) == {i \in DOMAIN own : own[i].key.value = name}
Alike(own, site, name) ==
    IF site \in {"ROOT", "TYPE", "BODY"}
    THEN {i \in DOMAIN own : Canonical(site, own[i].key.value) = Canonical(site, name)}
    ELSE {}
Where(own, gone, site, name) ==
    Live(gone, IF Exact(own, name) = {} THEN Alike(own, site, name) ELSE Exact(own, name))

(* What the merge has come to, as a key's entry e is added, or merged into *)
(* the i-th of the target.                                                 *)
Added(state, e, site, against, free, overlay, by) ==
    [state EXCEPT
        !.gone = @ \cup ({against} \ {0}),
        !.added = Append(@, Entry(Authored(e.key, by), Authored(e.value, by))),
        !.out = Both(Both(@, DeclareAll(site, e.key.value, e.value)),
                     Both(Change(overlay, site, e.key.value, "added", free),
                          IF against = 0 THEN Nothing
                          ELSE Change(overlay, site, Conflicting(site, e.key.value), "removed", free)))]
Merged(state, e, i, r, by) ==
    IF r.kept THEN state
    ELSE [state EXCEPT
            !.changed = TRUE,
            !.merged[i] = Entry(IF r.replaced THEN Authored(e.key, by) ELSE @.key, r.node),
            !.out = Both(@, r.out)]
Result(target, end) ==
    LET left == [i \in DOMAIN end.merged |-> [i |-> i, e |-> end.merged[i]]]
        stay == SelectSeq(left, LAMBDA x : x.i \notin end.gone)
    IN IF ~end.changed /\ end.added = <<>> THEN Kept(target)
       ELSE Grafted(Mapping([k \in DOMAIN stay |-> stay[k].e] \o end.added, None), end.out)

MergeMapping(target, extension, site, free, overlay, by) ==
    LET Step(state, e) ==
          LET i == Where(target.content, state.gone, site, e.key.value)
          IN CASE site = "ROOT" /\ e.key.value \in IgnoredAtRoot -> state
               [] i = 0 -> Added(state, e, site,
                                 Live(state.gone, Exact(target.content, Conflicting(site, e.key.value))),
                                 free, overlay, by)
               [] OTHER -> Merged(state, e, i,
                                  MergeValue(state.merged[i].value, e.value, site, e.key.value,
                                             free, overlay, by), by)
    IN Result(target,
              FoldLeft(Step,
                       [merged |-> target.content, gone |-> {}, added |-> <<>>,
                        changed |-> FALSE, out |-> Nothing],
                       extension.content))

(* merge_extension.                                                        *)
MergeExtension(target, extension, overlay, by) ==
    MergeMapping(target, extension, "ROOT", FALSE, overlay, by)
=============================================================================
