------------------------------- MODULE Templates -------------------------------
(***************************************************************************)
(* fastraml/parser/{endpoint_build,resourcetypes,traits}.py between the    *)
(* two stages of the endpoint build: the chain of resource types a         *)
(* resource applies is compiled and merged underneath it, then the traits  *)
(* that reach each method, closest first, then the same for the resources  *)
(* below.  What failed to apply is noted where it failed and on every      *)
(* resource that holds that.                                               *)
(*                                                                         *)
(* Content is abstracted to who wrote each facet, a template's variables   *)
(* to the parameters that supply them.  A reference is the place it is     *)
(* written at: its name is looked up in the namespace of `by`.             *)
(***************************************************************************)
EXTENDS Naturals, Sequences, FiniteSets, SequencesExt, TLC

CONSTANTS
    Resources, Root,    \* one resource of the API and those below it
    Children,           \* the resources nested in each, in order
    Methods, Facets, Params,
    Types, Traits,      \* the definitions
    Names,              \* what a reference may be written as
    Finds(_, _),        \* the definition a name is, in a writer's namespace
    None,
    Corpus              \* the documents

ASSUME TreeAssumption ==
    /\ Root \in Resources /\ Children \in [Resources -> Seq(Resources)]
    /\ \A r \in Resources : Root \notin ToSet(Children[r])
    /\ \A r, s \in Resources : ToSet(Children[r]) \cap ToSet(Children[s]) # {} => r = s
    /\ \A S \in SUBSET Resources :
          Root \in S /\ (\A r \in S : ToSet(Children[r]) \subseteq S) => S = Resources

(* References written by `by`: each finds one of the definitions, or none. *)
AreNames(references, by, definitions) ==
    /\ references \in Seq([name : Names, params : SUBSET Params])
    /\ \A i \in DOMAIN references :
          Finds(by, references[i].name) \in definitions \cup {None}

(* `part`: what stands under a method, a trait, or a resource's own keys.  *)
IsPart(p, by) ==
    /\ AreNames(p.is, by, Traits)
    /\ p.writes \subseteq Facets /\ p.vars \subseteq Params
IsDeclaration(d, by) ==
    /\ Len(d.type) <= 1 /\ AreNames(d.type, by, Types) /\ IsPart(d.own, by)
    /\ DOMAIN d.ops \subseteq Methods /\ d.optional \subseteq DOMAIN d.ops
    /\ \A m \in DOMAIN d.ops : IsPart(d.ops[m], by)
(* Only a type may call a method optional: at a resource `post?` is no     *)
(* method name (METHODS of syntax.py, make_source_endpoint).               *)
ASSUME CorpusAssumption ==
    \A c \in Corpus :
        /\ \A w \in Resources \cup Types : IsDeclaration(c[w], w)
        /\ \A t \in Traits : IsPart(c[t], t)
        /\ \A r \in Resources : c[r].optional = {}
ASSUME NoneAssumption == None \notin Methods \cup Types \cup Traits
ASSUME TraitsAssumption == IsFiniteSet(Traits)

VARIABLES
    doc,        \* the document, a member of Corpus
    res,        \* SourceEndPoint of each resource
    path,       \* the resources _resolve_directives is inside of
    phase,      \* where it is in the innermost
    chain,      \* the resource types compiled for it, closest first
    visited,    \* the names of the chain
    method,     \* the operation apply_traits is at, None between two
    queue,      \* references of this distance still to be taken
    nested,     \* those of the next
    applied,    \* its operations apply_traits is done with
    done,       \* resources dealt with
    errors,     \* what apply_traits has accumulated
    bound,      \* <<resource, reference>>: the reference's `resolved` is set
    reported,   \* failures in the error of the parse
    merged      \* ghost: the resource types merged into each resource

vars == <<doc, res, path, phase, chain, visited, method, queue, nested, applied, done,
          errors, bound, reported, merged>>

(* DirectiveRef, written by `by` in method `at` or, `at` None, beside it.  *)
Refs(part, by, at) ==
    [i \in DOMAIN part.is |->
        [name |-> part.is[i].name, params |-> part.is[i].params,
         by |-> by, at |-> at]]

Operation(part, by, m) ==
    [is |-> Refs(part, by, m), rtIs |-> <<>>, nested |-> {}, taken |-> {},
     content |-> [f \in part.writes |-> by], failed |-> {}]

(* make_source_endpoint of what `by` declares, with the methods `kept`.    *)
Source(by, kept) ==
    LET d == doc[by] IN
    [type |-> [i \in DOMAIN d.type |->
                [name |-> d.type[i].name, params |-> d.type[i].params,
                 by |-> by, at |-> None]],
     is |-> Refs(d.own, by, None), rtIs |-> <<>>,
     content |-> [f \in d.own.writes |-> by],
     ops |-> [m \in kept |-> Operation(d.ops[m], by, m)],
     failed |-> {}]

(* Mutant of Under: the template's content wins.                           *)
Over(target, source) ==
    [f \in DOMAIN target \cup DOMAIN source |->
        IF f \in DOMAIN source THEN source[f] ELSE target[f]]

(* merge_structural and `securedBy`: the target wins whatever both write.  *)
Under(target, source) ==
    [f \in DOMAIN target \cup DOMAIN source |->
        IF f \in DOMAIN target THEN target[f] ELSE source[f]]

(* merge_resource_type_into.                                               *)
MergeMethod(own, new) ==
    [own EXCEPT !.rtIs = @ \o new.is, !.content = Under(@, new.content)]
Contributed(new) == [new EXCEPT !.rtIs = @ \o new.is, !.is = <<>>]
Merge(target, source) ==
    [target EXCEPT
        !.content = Under(@, source.content),
        !.rtIs = @ \o source.is,
        !.type = IF @ = <<>> THEN source.type ELSE @,
        !.ops = [m \in DOMAIN @ \cup DOMAIN source.ops |->
                    IF m \notin DOMAIN @ THEN Contributed(source.ops[m])
                    ELSE IF m \notin DOMAIN source.ops THEN @[m]
                    ELSE MergeMethod(@[m], source.ops[m])]]

(* Mutant of Kept: an optional method is a method.                         *)
KeptAll(t, existing) == DOMAIN doc[t].ops

(* _filter_optional_methods.                                               *)
Kept(t, existing) ==
    {m \in DOMAIN doc[t].ops : m \in doc[t].optional => m \in existing}

(* check_parameters: none unused in the template as written, all that the  *)
(* template as filtered uses.                                              *)
Accepts(own, dropped, ref) ==
    own \subseteq ref.params /\ ref.params \subseteq own \cup dropped
TypeAccepts(t, existing, ref) ==
    LET uses(ms) == UNION {doc[t].ops[m].vars : m \in ms} IN
    Accepts(doc[t].own.vars \cup uses(Kept(t, existing)),
            uses(DOMAIN doc[t].ops), ref)
TraitAccepts(t, ref) == Accepts(doc[t].vars, {}, ref)

Found(ref) == Finds(ref.by, ref.name)
Failure(r, ref) == [on |-> r, ref |-> ref]

Here == Last(path)
Target == IF chain = <<>> THEN res[Here] ELSE Last(chain)
Note(r, failures) == [res EXCEPT ![r].failed = @ \cup failures]

(* _resolve_directives enters a resource.                                  *)
Begin(p) ==
    /\ path' = p /\ phase' = "type" /\ chain' = <<>> /\ visited' = {}
    /\ method' = None /\ queue' = <<>> /\ nested' = <<>> /\ errors' = {}
    /\ applied' = {}

Init ==
    /\ doc \in Corpus
    /\ res = [r \in Resources |-> Source(r, DOMAIN doc[r].ops)]
    /\ path = <<Root>> /\ phase = "type" /\ chain = <<>> /\ visited = {}
    /\ method = None /\ queue = <<>> /\ nested = <<>> /\ errors = {}
    /\ applied = {} /\ done = {} /\ bound = {} /\ reported = {}
    /\ merged = [r \in Resources |-> <<>>]

-----------------------------------------------------------------------------
(* apply_resource_type, down the chain, and back up.                       *)
Chained == phase = "type" /\ Target.type # <<>> /\ Target.type[1].name \notin visited

CompileType ==
    /\ Chained
    /\ LET ref == Target.type[1]  t == Found(ref) IN
       /\ t # None /\ TypeAccepts(t, DOMAIN Target.ops, ref)
       /\ visited' = visited \cup {ref.name}
       /\ bound' = bound \cup {<<Here, ref>>}
       /\ chain' = Append(chain, Source(t, Kept(t, DOMAIN Target.ops)))
       /\ merged' = [merged EXCEPT ![Here] = Append(@, t)]
    /\ UNCHANGED <<doc, res, path, phase, method, queue, nested, applied, done, errors,
                   reported>>

(* No such type, or not with these parameters: nothing of the chain is     *)
(* merged, and the failure is the resource's.                              *)
FailType ==
    /\ Chained
    /\ LET ref == Target.type[1]  t == Found(ref)
           failure == Failure(Here, ref) IN
       /\ ~(t # None /\ TypeAccepts(t, DOMAIN Target.ops, ref))
       /\ bound' = IF t = None THEN bound ELSE bound \cup {<<Here, ref>>}
       /\ res' = Note(Here, {failure})
       /\ reported' = reported \cup {failure}
       /\ visited' = visited \cup {ref.name}
    /\ chain' = <<>> /\ phase' = "traits"
    /\ merged' = [merged EXCEPT ![Here] = <<>>]
    /\ UNCHANGED <<doc, path, method, queue, nested, applied, done, errors>>

EndChain ==
    /\ phase = "type" /\ ~Chained
    /\ phase' = IF chain = <<>> THEN "traits" ELSE "merge"
    /\ UNCHANGED <<doc, res, path, chain, visited, method, queue, nested, applied, done,
                   errors, bound, reported, merged>>

MergeType ==
    /\ phase = "merge"
    /\ LET n == Len(chain) IN
       IF n = 1
       THEN /\ res' = [res EXCEPT ![Here] = Merge(@, chain[1])]
            /\ chain' = <<>> /\ phase' = "traits"
       ELSE /\ chain' = [SubSeq(chain, 1, n - 1) EXCEPT ![n - 1] = Merge(@, chain[n])]
            /\ UNCHANGED <<res, phase>>
    /\ UNCHANGED <<doc, path, visited, method, queue, nested, applied, done, errors,
                   bound, reported, merged>>

-----------------------------------------------------------------------------
(* apply_traits.                                                           *)

(* Mutant of InPriorityOrder: the resource's come before the method's.     *)
InResourceOrder(r, m) ==
    res[r].is \o res[r].ops[m].is \o res[r].ops[m].rtIs \o res[r].rtIs

InPriorityOrder(r, m) ==
    res[r].ops[m].is \o res[r].is \o res[r].ops[m].rtIs \o res[r].rtIs

(* Mutant of Seen: a name is remembered for one distance only.             *)
SeenDirectly(r, m) ==
    {ref.name : ref \in res[r].ops[m].taken \cap ToSet(InPriorityOrder(r, m))}

Seen(r, m) == {ref.name : ref \in res[r].ops[m].taken}

(* A mapping keeps the order it was declared in, which may be any.         *)
StartMethod ==
    /\ phase = "traits" /\ method = None
    /\ \E m \in DOMAIN res[Here].ops :
        /\ m \notin applied
        /\ method' = m /\ queue' = InPriorityOrder(Here, m)
    /\ UNCHANGED <<doc, res, path, phase, chain, visited, nested, applied, done, errors,
                   bound, reported, merged>>

Op == res[Here].ops[method]
Taking == phase = "traits" /\ method # None /\ queue # <<>>

SkipTrait ==
    /\ Taking /\ Head(queue).name \in Seen(Here, method)
    /\ queue' = Tail(queue)
    /\ UNCHANGED <<doc, res, path, phase, chain, visited, method, nested, applied, done,
                   errors, bound, reported, merged>>

(* merge_trait_into; its own traits wait for the next distance.            *)
ApplyTrait ==
    /\ Taking /\ Head(queue).name \notin Seen(Here, method)
    /\ LET ref == Head(queue)  t == Found(ref) IN
       /\ t # None /\ TraitAccepts(t, ref)
       /\ res' = [res EXCEPT ![Here].ops[method] =
            [Op EXCEPT !.taken = Op.taken \cup {ref},
                       !.content = Under(Op.content, [f \in doc[t].writes |-> t])]]
       /\ bound' = bound \cup {<<Here, ref>>}
       /\ nested' = nested \o Refs(doc[t], t, method)
    /\ queue' = Tail(queue)
    /\ UNCHANGED <<doc, path, phase, chain, visited, method, applied, done, errors,
                   reported, merged>>

FailTrait ==
    /\ Taking /\ Head(queue).name \notin Seen(Here, method)
    /\ LET ref == Head(queue)  t == Found(ref)
           failure == Failure(Here, ref) IN
       /\ ~(t # None /\ TraitAccepts(t, ref))
       /\ res' = [res EXCEPT ![Here].ops[method] =
            [Op EXCEPT !.taken = Op.taken \cup {ref},
                       !.failed = Op.failed \cup {failure}]]
       /\ bound' = IF t = None THEN bound ELSE bound \cup {<<Here, ref>>}
       /\ errors' = errors \cup {failure}
    /\ queue' = Tail(queue)
    /\ UNCHANGED <<doc, path, phase, chain, visited, method, nested, applied, done,
                   reported, merged>>

NextDistance ==
    /\ phase = "traits" /\ method # None /\ queue = <<>> /\ nested # <<>>
    /\ res' = [res EXCEPT ![Here].ops[method] =
                    [Op EXCEPT !.nested = Op.nested \cup ToSet(nested)]]
    /\ queue' = nested /\ nested' = <<>>
    /\ UNCHANGED <<doc, path, phase, chain, visited, method, applied, done, errors,
                   bound, reported, merged>>

EndMethod ==
    /\ phase = "traits" /\ method # None /\ queue = <<>> /\ nested = <<>>
    /\ applied' = applied \cup {method} /\ method' = None
    /\ UNCHANGED <<doc, res, path, phase, chain, visited, queue, nested, done, errors,
                   bound, reported, merged>>

MethodRefs(r, m) ==
    ToSet(res[r].ops[m].is) \cup ToSet(res[r].ops[m].rtIs)
        \cup res[r].ops[m].nested

(* Mutant of ResourceRefs: those of a resource with methods were applied.  *)
ResourceRefsOwn(r) == ToSet(res[r].is)

ResourceRefs(r) == ToSet(res[r].is) \cup ToSet(res[r].rtIs)

(* What reaches the resource or its methods and no method took, and the    *)
(* failures of such references.                                            *)
Unapplied ==
    LET M == DOMAIN res[Here].ops IN
    (ResourceRefs(Here) \cup UNION {MethodRefs(Here, m) : m \in M})
        \ UNION {res[Here].ops[m].taken : m \in M}
Unknown(S) == {Failure(Here, ref) : ref \in {x \in S : Found(x) = None}}

(* _bind_unapplied, and the end of apply_traits: its error is noted on the *)
(* resource, what no operation could apply on the operation as well.       *)
BindUnapplied ==
    /\ phase = "traits" /\ method = None
    /\ DOMAIN res[Here].ops \subseteq applied
    /\ LET ops == res[Here].ops
           all == errors \cup Unknown(Unapplied)
           noted == [m \in DOMAIN ops |-> [ops[m] EXCEPT
                        !.failed = @ \cup Unknown(Unapplied \cap MethodRefs(Here, m))]] IN
       /\ bound' = bound \cup {<<Here, ref>> : ref \in {x \in Unapplied : Found(x) # None}}
       /\ res' = [res EXCEPT ![Here].failed = @ \cup all, ![Here].ops = noted]
       /\ reported' = reported \cup all
    /\ phase' = "children" /\ errors' = {}
    /\ UNCHANGED <<doc, path, chain, visited, method, queue, nested, applied, done,
                   merged>>

-----------------------------------------------------------------------------
(* _resolve_directives, of the resources below.                            *)
Below == {i \in DOMAIN Children[Here] : Children[Here][i] \notin done}

Descend ==
    /\ path # <<>> /\ phase = "children"
    /\ \E i \in Below :
        /\ \A j \in Below : i <= j
        /\ Begin(Append(path, Children[Here][i]))
    /\ UNCHANGED <<doc, res, done, bound, reported, merged>>

(* Mutant of Holder: only what the types and traits of a child failed.     *)
HolderAbove(p) == IF Len(p) > 2 THEN {p[Len(p) - 1]} ELSE {}

(* The resource that notes what this one returns.                          *)
Holder(p) == IF Len(p) > 1 THEN {p[Len(p) - 1]} ELSE {}

Return ==
    /\ path # <<>> /\ phase = "children" /\ Below = {}
    /\ res' = [r \in Resources |->
                IF r \in Holder(path)
                THEN [res[r] EXCEPT !.failed = @ \cup res[Here].failed] ELSE res[r]]
    /\ path' = Front(path) /\ done' = done \cup {Here}
    /\ UNCHANGED <<doc, phase, chain, visited, method, queue, nested, applied, errors,
                   bound, reported, merged>>

Finished == path = <<>>
End == Finished /\ UNCHANGED vars

Next ==
    \/ CompileType \/ FailType \/ EndChain \/ MergeType
    \/ StartMethod \/ SkipTrait \/ ApplyTrait \/ FailTrait \/ NextDistance
    \/ EndMethod \/ BindUnapplied
    \/ Descend \/ Return \/ End

Spec == Init /\ [][Next]_vars /\ WF_vars(Next)

-----------------------------------------------------------------------------

Settled(r) == r \in done

(* A resource has the methods it declares and those its types do not call  *)
(* optional, however long the chain: `post?` brings none, and a chain that *)
(* failed halfway brings none (apply_resource_type).                       *)
MethodsByChain ==
    \A r \in Resources : Settled(r) =>
        DOMAIN res[r].ops = DOMAIN doc[r].ops \cup
            UNION {DOMAIN doc[t].ops \ doc[t].optional : t \in ToSet(merged[r])}

(* What can be applied of what is named within n steps of a method.        *)
Applied(r, m) ==
    {ref \in res[r].ops[m].taken : Found(ref) # None /\ TraitAccepts(Found(ref), ref)}
Within(r, m) ==
    LET near[n \in 0..Cardinality(Traits)] ==
            IF n = 0 THEN Applied(r, m) \cap ToSet(InPriorityOrder(r, m))
            ELSE near[n - 1] \cup
                 (Applied(r, m) \cap
                    UNION {ToSet(Refs(doc[Found(x)], Found(x), m)) : x \in near[n - 1]})
    IN near

(* A facet of a method is the resource's own if it writes it, then that of *)
(* the nearest type in the chain that writes it in that method (an         *)
(* optional one, if what applies the type has the method), then that of a  *)
(* trait than which no applied one is nearer and writes it (docs/08        *)
(* sections 3.1 and 3.2).                                                  *)
ClosestDeclarationWins ==
    \A r \in Resources : Settled(r) =>
        \A m \in DOMAIN res[r].ops : \A f \in Facets :
            LET parts == <<r>> \o merged[r]
                has[i \in DOMAIN parts] ==
                    /\ m \in DOMAIN doc[parts[i]].ops
                    /\ m \in doc[parts[i]].optional => has[i - 1]
                writing == {i \in DOMAIN parts :
                                has[i] /\ f \in doc[parts[i]].ops[m].writes}
                near == Within(r, m)
                at(n) == {Found(ref) : ref \in near[n]}
                from(n) == {t \in at(n) : f \in doc[t].writes}
                content == res[r].ops[m].content IN
            IF writing # {}
            THEN content[f] = parts[CHOOSE i \in writing : \A j \in writing : i <= j]
            ELSE \A n \in DOMAIN near :
                    from(n) # {} => f \in DOMAIN content /\ content[f] \in from(n)

(* What is named directly, closest first, from what is written.            *)
Direct(r, m) ==
    (IF m \in DOMAIN doc[r].ops THEN Refs(doc[r].ops[m], r, m) ELSE <<>>)
        \o Refs(doc[r].own, r, None) \o res[r].ops[m].rtIs \o res[r].rtIs

(* Of the references that reach a method and name one trait, the closest   *)
(* is the one applied: a method's own before the resource's, theirs before *)
(* a resource type's, and any of them before a trait's, whatever order the *)
(* distances were met in (apply_traits).                                   *)
ClosestReferenceTaken ==
    \A r \in Resources : Settled(r) =>
        \A m \in DOMAIN res[r].ops :
            LET direct == Direct(r, m)  taken == res[r].ops[m].taken IN
            \A i \in DOMAIN direct : \E ref \in taken :
                /\ {x \in taken : x.name = direct[i].name} = {ref}
                /\ \E j \in 1..i : direct[j] = ref

(* Between several writers and several references the closest is taken, of *)
(* a facet and of a trait alike (merge_resource_type_into, apply_traits).  *)
ClosestWins == ClosestDeclarationWins /\ ClosestReferenceTaken

(* "Every `is:` entry is bound to its definition whether or not it is      *)
(* applied" (docs/08 section 3.2), or reported: those skipped, those of a  *)
(* trait, and those of a resource with no methods.                         *)
BoundOrReported ==
    \A r \in Resources : Settled(r) =>
        \A ref \in ToSet(res[r].is \o res[r].rtIs)
                    \cup UNION {MethodRefs(r, m) : m \in DOMAIN res[r].ops} :
            IF Found(ref) # None THEN <<r, ref>> \in bound
            ELSE Failure(r, ref) \in reported

(* A resource knows all that failed in it and below, and nothing else; all *)
(* of it is reported; and what failed at a method only, at that method     *)
(* (docs/13 section 1).                                                    *)
Holds(r) ==
    {c \in Resources : \A S \in SUBSET Resources :
        r \in S /\ (\A x \in S : ToSet(Children[x]) \subseteq S) => c \in S}
FailuresPassThrough ==
    Finished =>
        /\ res[Root].failed = reported
        /\ \A r \in Resources :
            /\ res[r].failed = {e \in reported : e.on \in Holds(r)}
            /\ \A m \in DOMAIN res[r].ops :
                /\ res[r].ops[m].failed \subseteq res[r].failed
                /\ \A ref \in MethodRefs(r, m) :
                    Failure(r, ref) \in reported => Failure(r, ref) \in res[r].ops[m].failed

(* A type that reaches itself and traits that apply each other do not keep *)
(* the build from ending.                                                  *)
Terminates == <>Finished

(* Resource types do not lose the traits they name on the way to the       *)
(* resource: those of every type of the chain reach it, at the resource    *)
(* and at the methods (docs/08 section 3.1).                               *)
ChainTraitsKept ==
    \A r \in Resources : Settled(r) =>
        \A t \in ToSet(merged[r]) :
            /\ ToSet(Refs(doc[t].own, t, None)) \subseteq ToSet(res[r].rtIs)
            /\ \A m \in DOMAIN doc[t].ops \ doc[t].optional :
                ToSet(Refs(doc[t].ops[m], t, m)) \subseteq ToSet(res[r].ops[m].rtIs)
=============================================================================
