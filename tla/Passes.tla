-------------------------------- MODULE Passes --------------------------------
(***************************************************************************)
(* fastraml/parser/entry.py and what it runs: the stages of a parse, what  *)
(* each does when it fails, and in detail the two between decoding and     *)
(* type resolution.  ENDPOINTS decodes every resource, operation and       *)
(* response, marks what failed on everything that holds it, and registers  *)
(* the resources by URI (registry.py, source_decode.py,                    *)
(* endpoint_build.py); SECURITY hands `securedBy:` down and binds each     *)
(* reference (security.py).                                                *)
(*                                                                         *)
(* A document is what is wrong with it and where, and the path, the URI    *)
(* parameters and the `securedBy:` of each resource.  A problem is <<what, *)
(* where>>, an error the set of the problems it holds.                     *)
(***************************************************************************)
EXTENDS Naturals, Sequences, FiniteSets, SequencesExt, TLC

CONSTANTS
    Top,                \* the API's resources, in order
    Resources, Operations, Responses,
    OperationsOf, Nested,   \* what each resource holds, in order
    ResponsesOf,        \* what each operation holds, in order
    API,                \* the fragment, which a whole-document problem is at
    Definitions,        \* the security schemes it declares
    Variable,           \* the parts of a path that are `{...}`
    Malformed,          \* those that would be, and are not well formed
    Null, None,
    Corpus              \* the documents

Entities == Resources \cup Operations \cup Responses
Levels == {API} \cup Resources \cup Operations  \* where securedBy: is written

Stages == <<"DECODED", "ENDPOINTS", "SECURITY", "RESOLVED", "ANNOTATIONS",
            "UNWRAPPED", "VALIDATED">>

(* What each entity holds: a resource its operations and then its resources.*)
Children ==
    [e \in Entities |->
        IF e \in Resources THEN OperationsOf[e] \o Nested[e]
        ELSE IF e \in Operations THEN ResponsesOf[e] ELSE <<>>]

(* An entity is of one kind, and stands in one place below the API.        *)
ASSUME KindsAssumption ==
    /\ Resources \cap Operations = {} /\ Resources \cap Responses = {}
    /\ Operations \cap Responses = {} /\ Definitions \cap Entities = {}
    /\ API \notin Entities /\ {Null, None} \cap Definitions = {} /\ Null # None
    /\ None \notin ToSet(Stages) /\ Variable \cap Malformed = {}
ASSUME TreeAssumption ==
    /\ Top \in Seq(Resources) /\ IsInjective(Top)
    /\ OperationsOf \in [Resources -> Seq(Operations)]
    /\ Nested \in [Resources -> Seq(Resources)]
    /\ ResponsesOf \in [Operations -> Seq(Responses)]
    /\ \A e \in Entities :
        /\ IsInjective(Children[e]) /\ ToSet(Top) \cap ToSet(Children[e]) = {}
        /\ \A d \in Entities : ToSet(Children[d]) \cap ToSet(Children[e]) # {} => d = e
    /\ \A S \in SUBSET Entities :
        ToSet(Top) \subseteq S /\ (\A e \in S : ToSet(Children[e]) \subseteq S) => S = Entities

(* An entity and all that it holds: the least set with it that has what    *)
(* its members hold.                                                       *)
Below ==
    [e \in Entities |->
        {c \in Entities : \A S \in SUBSET Entities :
            e \in S /\ (\A x \in S : ToSet(Children[x]) \subseteq S) => c \in S}]

(* The resources a resource stands in, from the API down, itself last.     *)
Line ==
    [r \in Resources |->
        SetToSortSeq({s \in Resources : r \in Below[s]},
                     LAMBDA a, b : Cardinality(Below[a]) > Cardinality(Below[b]))]

(* What a stage may find wrong with the document that this module does not *)
(* look into: what it raises, and what it hands to Raml.recover.           *)
Raising ==
    [DECODED |-> {"header", "types"}, RESOLVED |-> {"unresolved"}, ANNOTATIONS |-> {},
     UNWRAPPED |-> {"merge"}, VALIDATED |-> {"example"}]
Recovered ==
    [DECODED |-> {"apifield", "scheme"}, RESOLVED |-> {"discriminator"},
     ANNOTATIONS |-> {"annotation"}, UNWRAPPED |-> {}, VALIDATED |-> {}]

(* What may be wrong with an entity: it cannot be read, a template it      *)
(* applies fails, a key of its own fails or is one it does not have.       *)
EntityKinds == {"source", "template", "facet", "unknown"}
OtherKinds == UNION {Raising[s] \cup Recovered[s] : s \in DOMAIN Raising}

(* A document has its problems where they can be, for each resource the    *)
(* parts of its path and the names in its `uriParameters:`, and for each   *)
(* level no `securedBy:` or a list of entries, a name and the scopes asked *)
(* for.                                                                    *)
ASSUME CorpusAssumption ==
    \A c \in Corpus :
        /\ c.strict \in BOOLEAN
        /\ c.faults \subseteq
               (EntityKinds \X Entities) \cup (OtherKinds \X ({API} \cup Definitions))
        /\ \A r \in Resources :
               /\ Len(c.path[r]) \in Nat /\ DOMAIN c.path[r] = 1..Len(c.path[r])
               /\ c.declared[r] \in Seq(Variable) /\ IsInjective(c.declared[r])
        /\ \A l \in Levels :
               c.secured[l] # None =>
                 /\ Len(c.secured[l]) \in Nat /\ DOMAIN c.secured[l] = 1..Len(c.secured[l])
                 /\ \A i \in DOMAIN c.secured[l] : <<l, i>> \notin Entities \cup Definitions

VARIABLES
    doc,        \* the document and the options, a member of Corpus
    step,       \* what the driver is at: a stage, or a step of one
    left,       \* places in Top of the resources still to be decoded
    attached,   \* entities in the model
    marking,    \* Raml._marking_stack
    failing,    \* what each open entity's accumulator holds
    acc,        \* the accumulator of the stage
    walk,       \* the frames of _walk
    endpoints,  \* Raml.endpoints
    params,     \* EndPoint.uri_parameters, once they are resolved
    secured,    \* whose references are in each `secured_by`
    binding,    \* references still to be bound
    definition, \* SecurityScheme.definition
    compiled,   \* SecurityScheme.compiled_params
    broken,     \* Raml.broken
    errors,     \* what the caller is told
    completed, stopped_at,
    outcome     \* "running", "returned" or "raised"

decoding == <<left, attached, marking, failing>>
walking == <<walk, endpoints, params>>
binds == <<secured, binding, definition, compiled>>
vars == <<doc, step, decoding, acc, walking, binds, broken, errors, completed,
          stopped_at, outcome>>

Lenient == ~doc.strict

MarkLast(marks, whom, error) ==  \* a mutant: the second replaces the first
    [e \in DOMAIN marks |-> IF e \in whom /\ error # {} THEN error ELSE marks[e]]

(* registry.py, Raml.mark: a second failure joins the first.               *)
Mark(marks, whom, error) ==
    [e \in DOMAIN marks |-> marks[e] \cup (IF e \in whom THEN error ELSE {})]

Wrong(kind, where) == {<<kind, e>> : e \in where} \cap doc.faults

-----------------------------------------------------------------------------
(* registry.py, Raml.stage.                                                *)
Following(s) ==
    LET place == CHOOSE i \in DOMAIN Stages : Stages[i] = s
        later == {i \in DOMAIN Stages :
                    i > place /\ (Stages[i] \in {"UNWRAPPED", "VALIDATED"} => Stages[i] \in doc.options)}
    IN IF later = {} THEN "done"
       ELSE Stages[CHOOSE i \in later : \A j \in later : i <= j]

(* The first error of the entry's own header or root is the parse's own.   *)
Fatal(error) == <<"header", API>> \in error

StageEnds(s) ==
    /\ completed' = Append(completed, s)
    /\ step' = Following(s)
    /\ UNCHANGED <<stopped_at, outcome>>

StageRaises(s, error) ==
    /\ stopped_at' = s
    /\ step' = "done"
    /\ outcome' = IF doc.strict \/ Fatal(error) THEN "raised" ELSE "returned"
    /\ UNCHANGED completed

EndAnyway(s, raised, recovered) ==  \* a mutant: a strict parse recovers too
    /\ errors' = errors \cup raised \cup recovered
    /\ IF raised = {} THEN StageEnds(s) ELSE StageRaises(s, raised)

(* The end of a stage.  What was handed to Raml.recover stops a strict     *)
(* parse only.                                                             *)
EndOf(s, raised, recovered) ==
    LET stopping == raised \cup (IF doc.strict THEN recovered ELSE {})
    IN /\ errors' = errors \cup raised \cup recovered
       /\ IF stopping = {} THEN StageEnds(s) ELSE StageRaises(s, stopping)

(* The stages that are only their faults here.  A fatal header ends        *)
(* decoding at once; what comes after P7, P7 must have finished for.       *)
Whole(s) ==
    /\ step = s
    /\ LET found == {f \in doc.faults : f[1] \in Raising[s] \cup Recovered[s]}
           raised == {f \in found : f[1] \in Raising[s]}
           error == CASE Fatal(found) -> {<<"header", API>>}
                      [] s = "RESOLVED" /\ raised # {} -> raised
                      [] OTHER -> found
       IN /\ EndOf(s, error \cap raised, error \ raised)
          /\ broken' = [e \in DOMAIN broken |-> broken[e] \cup {f \in error : f[1] = "scheme" /\ f[2] = e}]
    /\ UNCHANGED <<doc, decoding, acc, walking, binds>>

-----------------------------------------------------------------------------
(* ENDPOINTS.  endpoint_build.py, _build_endpoints: a resource that cannot *)
(* be read is left out with all it holds, and the templates of the others  *)
(* are applied.                                                            *)
Readable(r) == Wrong("source", Below[r]) = {}

Sources ==
    /\ step = "ENDPOINTS"
    /\ left' = {i \in DOMAIN Top : Readable(Top[i])}
    /\ acc' = Wrong("source", Entities)
                \cup Wrong("template", UNION {Below[Top[i]] : i \in left'})
    /\ step' = "decode"
    /\ UNCHANGED <<doc, attached, marking, failing, walking, binds, broken, errors,
                   completed, stopped_at, outcome>>

(* source_decode.py, decode_source_endpoint, decode_source_operation and   *)
(* _decode_response, from the attachment of the entity to the last of its  *)
(* own keys.  A template that failed was noted on all that hold it.        *)
Unread(e) == {i \in DOMAIN Children[e] : Children[e][i] \notin attached}
IsNext(e) ==
    IF marking # <<>>
    THEN LET unread == Unread(Last(marking)) IN
         \E i \in unread : e = Children[Last(marking)][i] /\ \A j \in unread : i <= j
    ELSE \E i \in left : e = Top[i] /\ \A j \in left : i <= j

Open(e) ==
    /\ step = "decode" /\ IsNext(e)
    /\ attached' = attached \cup {e}
    /\ marking' = Append(marking, e)
    /\ LET noted == IF e \in Responses THEN {} ELSE Wrong("template", Below[e])
           unknown == Wrong("unknown", {e})
           attaching == Mark(broken, {e}, noted)
       IN IF doc.strict
          THEN /\ failing' = [failing EXCEPT ![e] = Wrong("facet", {e}) \cup unknown]
               /\ broken' = attaching
               /\ UNCHANGED errors
          ELSE /\ failing' = [failing EXCEPT ![e] = Wrong("facet", {e})]
               /\ broken' = Mark(attaching, ToSet(marking'), unknown)  \* Raml.recover
               /\ errors' = errors \cup unknown
    /\ left' = IF marking = <<>> THEN {i \in left : Top[i] # e} ELSE left
    /\ UNCHANGED <<doc, step, acc, walking, binds, completed, stopped_at, outcome>>

(* registry.py, _Marking.__exit__, and the `except` of whoever decoded e.  *)
Close(e) ==
    /\ step = "decode" /\ marking # <<>> /\ e = Last(marking) /\ Unread(e) = {}
    /\ LET error == failing[e]
       IN /\ marking' = Front(marking)
          /\ broken' = Mark(broken, {e}, error)
          /\ IF marking' # <<>>
             THEN /\ failing' = [failing EXCEPT ![Last(marking')] = @ \cup error]
                  /\ UNCHANGED <<acc, step, walk>>
             ELSE /\ acc' = acc \cup error
                  /\ walk' = <<[at |-> API, held |-> FALSE, register |-> TRUE,
                               failure |-> {}, rest |-> <<e>>]>>
                  /\ step' = "walk"
                  /\ UNCHANGED failing
    /\ UNCHANGED <<doc, left, attached, endpoints, params, binds, errors, completed,
                   stopped_at, outcome>>

-----------------------------------------------------------------------------
(* endpoint_build.py, _walk, of the resource just decoded; source_ir.py    *)
(* has written its full URI.                                               *)
FullUri(r) == FlattenSeq([i \in DOMAIN Line[r] |-> doc.path[Line[r][i]]])
Taken(uri) == \E r \in ToSet(endpoints) : FullUri(r) = uri

(* _resolve_uri_parameters.  The parameters are a dictionary, its names in *)
(* the order they came in and the resource each is of; a name that comes   *)
(* again keeps its place.                                                  *)
NoParameters == [names |-> <<>>, of |-> [x \in {} |-> API]]
Own(r) == ToSet(doc.path[r]) \cap Variable
Added(names, path) ==
    LET upto[k \in 0..Len(path)] ==
            IF k = 0 THEN names
            ELSE IF path[k] \in Variable \ ToSet(upto[k - 1]) THEN Append(upto[k - 1], path[k])
            ELSE upto[k - 1]
    IN upto[Len(path)]

InheritedLast(inherited, r) ==  \* a mutant: {**own, **inherited}
    [names |-> Added(Added(<<>>, doc.path[r]), inherited.names),
     of |-> [x \in ToSet(inherited.names) \cup Own(r) |->
               IF x \in ToSet(inherited.names) THEN inherited.of[x] ELSE r]]
(* {**inherited, **own}: the inherited ones first, and its own in force.   *)
Merged(inherited, r) ==
    [names |-> Added(inherited.names, doc.path[r]),
     of |-> [x \in ToSet(inherited.names) \cup Own(r) |->
               IF x \in Own(r) THEN r ELSE inherited.of[x]]]

(* A template that is not well formed has no variables to read: the        *)
(* resource keeps what it declares, and the resources below see no more.   *)
IsTemplate(r) == ToSet(doc.path[r]) \cap Malformed = {}
Declared(r) == [names |-> doc.declared[r], of |-> [x \in ToSet(doc.declared[r]) |-> r]]

ResolvedAnyway(inherited, r) == Merged(inherited, r)  \* a mutant: merges all the same
Resolution(inherited, r) == IF IsTemplate(r) THEN Merged(inherited, r) ELSE Declared(r)
Faulty(r) ==
    IF ~IsTemplate(r) THEN {<<"malformed", r>>}
    ELSE IF ToSet(doc.declared[r]) \subseteq Own(r) THEN {} ELSE {<<"unused", r>>}

Registering(r, register) ==
    LET above == Last(walk)
        duplicate == IF Taken(FullUri(r)) THEN {<<"duplicate", r>>} ELSE {}
        first == duplicate = {} /\ above.register
    IN /\ step = "walk" /\ above.rest # <<>> /\ r = Head(above.rest)
       /\ endpoints' = IF first THEN Append(endpoints, r) ELSE endpoints
       /\ params' = [params EXCEPT ![r] = Resolution(params[above.at], r)]
       /\ acc' = acc \cup duplicate \cup Faulty(r)
       /\ walk' = Append([walk EXCEPT ![Len(walk)].rest = Tail(@)],
                         [at |-> r, held |-> above.held \/ first,
                          register |-> IF duplicate = {} THEN above.register ELSE register,
                          failure |-> duplicate,
                          rest |-> Nested[r]])
       /\ UNCHANGED <<doc, step, decoding, binds, broken, errors, completed, stopped_at,
                      outcome>>

VisitAnyway(r) == Registering(r, Last(walk).register)  \* a mutant
Visit(r) == Registering(r, Last(walk).register /\ Last(walk).held)

(* A resource that holds a loser is marked with it, if the model holds it. *)
Return ==
    /\ step = "walk" /\ Last(walk).rest = <<>>
    /\ LET frame == Last(walk)
           above == Front(walk)
       IN IF above = <<>>
          THEN /\ walk' = <<>> /\ step' = "decode"
               /\ UNCHANGED broken
          ELSE /\ walk' = [above EXCEPT ![Len(above)].failure =
                              IF @ = {} THEN frame.failure ELSE @]
               /\ broken' = IF frame.held THEN Mark(broken, {frame.at}, frame.failure)
                            ELSE broken
               /\ UNCHANGED step
    /\ UNCHANGED <<doc, decoding, acc, endpoints, params, binds, errors, completed,
                   stopped_at, outcome>>

Endpoints ==
    /\ step = "decode" /\ left = {} /\ marking = <<>>
    /\ EndOf("ENDPOINTS", acc, {})
    /\ acc' = {}
    /\ UNCHANGED <<doc, decoding, walking, binds, broken>>

-----------------------------------------------------------------------------
(* SECURITY.  A reference is its place in the `securedBy:` of a level.     *)
Refs(level) ==
    IF doc.secured[level] = None THEN <<>>
    ELSE [i \in DOMAIN doc.secured[level] |-> <<level, i>>]
Written(ref) == doc.secured[ref[1]][ref[2]]

(* source_decode.py, _secured_by: the API's, where there is none.          *)
Decoded == [l \in Levels |-> IF doc.secured[l] = None THEN API ELSE l]

(* security.py, _inherit, of each resource.                                *)
Inherited(whose) ==
    [l \in Levels |->
        IF \E r \in ToSet(endpoints) :
              l \in ToSet(OperationsOf[r]) /\ doc.secured[r] # None /\ doc.secured[l] = None
        THEN whose[CHOOSE r \in ToSet(endpoints) : l \in ToSet(OperationsOf[r])]
        ELSE whose[l]]

MethodsOnly(whose) ==  \* a mutant: a resource's own list is not bound
    LET Of(l) == Refs(whose[l])
        OfAll(r) == FlattenSeq([i \in DOMAIN OperationsOf[r] |-> Of(OperationsOf[r][i])])
    IN FlattenSeq([i \in DOMAIN endpoints |-> OfAll(endpoints[i])]) \o Refs(API)

(* _every_reference.                                                       *)
EveryReference(whose) ==
    LET Of(l) == Refs(whose[l])
        OfAll(r) == FlattenSeq([i \in DOMAIN OperationsOf[r] |-> Of(OperationsOf[r][i])]) \o Of(r)
    IN FlattenSeq([i \in DOMAIN endpoints |-> OfAll(endpoints[i])]) \o Refs(API)

Inherit ==
    /\ step = "SECURITY"
    /\ secured' = Inherited(Decoded)
    /\ binding' = EveryReference(secured')
    /\ step' = "bind"
    /\ UNCHANGED <<doc, decoding, acc, walking, definition, compiled, broken, errors,
                   completed, stopped_at, outcome>>

(* _bind and _apply_params.  A scheme that is not OAuth 2.0 has no scopes  *)
(* (None) to narrow.                                                       *)
Declares(scheme, scopes) == doc.scopes[scheme] # None /\ scopes \subseteq doc.scopes[scheme]

Bind ==
    /\ step = "bind" /\ binding # <<>>
    /\ LET ref == Head(binding)
           asked == Written(ref)
           partial == IF asked.name \in Definitions THEN broken[asked.name] ELSE {}
           Fails(problem) == /\ broken' = Mark(broken, {ref}, {<<problem, ref>>})
                             /\ acc' = acc \cup {<<problem, ref>>}
           To(d) == definition' = [definition EXCEPT ![ref] = d]
       IN \/ /\ definition[ref] # None
             /\ UNCHANGED <<definition, compiled, broken, acc>>
          \/ /\ definition[ref] = None /\ asked.name = Null /\ To(Null)
             /\ UNCHANGED <<compiled, broken, acc>>
          \/ /\ definition[ref] = None /\ asked.name \notin Definitions \cup {Null}
             /\ Fails("unbound")
             /\ UNCHANGED <<definition, compiled>>
          \/ /\ definition[ref] = None /\ asked.name \in Definitions /\ To(asked.name)
             /\ \/ /\ Lenient /\ partial # {}
                   /\ broken' = Mark(broken, {ref}, partial)
                   /\ UNCHANGED <<compiled, acc>>
                \/ /\ partial = {} /\ asked.scopes = {}
                   /\ UNCHANGED <<compiled, broken, acc>>
                \/ /\ partial = {} /\ asked.scopes # {} /\ Declares(asked.name, asked.scopes)
                   /\ compiled' = [compiled EXCEPT ![ref] = asked.scopes]
                   /\ UNCHANGED <<broken, acc>>
                \/ /\ partial = {} /\ asked.scopes # {} /\ ~Declares(asked.name, asked.scopes)
                   /\ Fails("scope")
                   /\ UNCHANGED compiled
    /\ binding' = Tail(binding)
    /\ UNCHANGED <<doc, step, decoding, walking, secured, errors, completed, stopped_at,
                   outcome>>

Secured ==
    /\ step = "bind" /\ binding = <<>>
    /\ EndOf("SECURITY", {}, acc)
    /\ acc' = {}
    /\ UNCHANGED <<doc, decoding, walking, binds, broken>>

(* entry.py, parse_lenient, and what returns in the strict one.            *)
Finish ==
    /\ step = "done" /\ outcome = "running"
    /\ outcome' = "returned"
    /\ UNCHANGED <<doc, step, decoding, acc, walking, binds, broken, errors, completed,
                   stopped_at>>

-----------------------------------------------------------------------------
Marked == Entities \cup Definitions
References == UNION {ToSet(Refs(l)) : l \in Levels}

Init ==
    /\ doc \in Corpus
    /\ step = "DECODED"
    /\ left = {} /\ attached = {} /\ marking = <<>>
    /\ failing = [e \in Entities |-> {}]
    /\ acc = {}
    /\ walk = <<>> /\ endpoints = <<>>
    /\ params = [r \in Resources \cup {API} |-> NoParameters]
    /\ secured = Decoded /\ binding = <<>>
    /\ definition = [ref \in References |-> None]
    /\ compiled = [ref \in References |-> {}]
    /\ broken = [e \in Marked \cup References |-> {}]
    /\ errors = {} /\ completed = <<>> /\ stopped_at = None /\ outcome = "running"

Next ==
    \/ \E s \in {"DECODED", "RESOLVED", "ANNOTATIONS", "UNWRAPPED", "VALIDATED"} : Whole(s)
    \/ Sources
    \/ \E e \in Entities : Open(e) \/ Close(e)
    \/ \E r \in Resources : Visit(r)
    \/ Return \/ Endpoints \/ Inherit \/ Bind \/ Secured \/ Finish

Spec == Init /\ [][Next]_vars

-----------------------------------------------------------------------------
(* Properties.                                                             *)
Over == outcome # "running"

(* The problems of the document that a stage was there to find: none of    *)
(* what was left out before it was looked at.                              *)
Found(e) == \E r \in ToSet(Top) : e \in Below[r] /\ Readable(r)
FoundBy(s) ==
    IF s = "ENDPOINTS"
    THEN {f \in doc.faults : \/ f[1] = "source"
                             \/ f[1] \in EntityKinds /\ Found(f[2])}
    ELSE IF s = "SECURITY" THEN {}
    ELSE {f \in doc.faults : f[1] \in Raising[s] \cup Recovered[s]}

(* A parse tells its caller of every problem its stages found, whichever   *)
(* way each was kept, and says where it stopped: all that went before was  *)
(* sound, or recovered from.  What is in the model and marked has a problem*)
(* behind it (registry.py, stage and recover; entry.py).                   *)
ReportedAsRun ==
    Over =>
      LET ran == completed \o (IF stopped_at = None THEN <<>> ELSE <<stopped_at>>)
      IN /\ IF <<"header", API>> \in doc.faults
            THEN ran = <<"DECODED">> /\ outcome = "raised"
            ELSE /\ \A s \in ToSet(ran) \ {"RESOLVED"} : FoundBy(s) \subseteq errors
                 /\ outcome = "raised" <=> doc.strict /\ errors # {}
         /\ \A i \in 1..Len(ran) - 1 : ran[i + 1] = Following(ran[i])
         /\ Head(ran) = "DECODED"
         /\ stopped_at = None => Following(Last(ran)) = "done"
         /\ stopped_at # None => errors # {}
         /\ doc.strict => (stopped_at = None <=> errors = {})
         /\ \A f \in errors : f[1] \in EntityKinds => f \in FoundBy("ENDPOINTS")
         /\ \A e \in DOMAIN broken : broken[e] \subseteq errors \/ outcome = "raised"

(* An entity is marked with all that went wrong in it and in what it       *)
(* holds, and only with that, however each problem was met: raised out of  *)
(* it, recovered from inside it, or noted before it was decoded            *)
(* (registry.py, mark; docs/13-public-api.md).                             *)
MarkedWhereItFailed ==
    \A e \in attached \ ToSet(marking) :
        {f \in broken[e] : f[1] \in EntityKinds}
          = Wrong("facet", Below[e]) \cup Wrong("unknown", Below[e])
              \cup (IF e \in Responses THEN {} ELSE Wrong("template", Below[e]))

(* A resource whose URI was taken, and each that encloses it, is marked    *)
(* with a duplicate, when the model holds it; of one that no tree holds,   *)
(* nothing is registered and nothing marked (endpoint_build.py, _walk).    *)
UnregisteredMarked ==
    step \notin {"walk"} =>
      \A t \in (ToSet(Top) \cap attached) \ ToSet(marking) :
        \A r \in Below[t] \cap Resources :
          LET duplicates == {f \in broken[r] : f[1] = "duplicate"}
              losers == (Below[r] \cap Resources) \ ToSet(endpoints)
          IN IF t \in ToSet(endpoints)
             THEN duplicates # {} <=> losers # {}
             ELSE r \in losers /\ duplicates = {}

(* Both: an entity's marks are those of what went wrong in and below it,   *)
(* met while it was decoded, before, or when it was registered.  What is   *)
(* wrong with its URI parameters is reported, and marks nothing.           *)
MarkedAsFound == MarkedWhereItFailed /\ UnregisteredMarked

(* What a resource gives of its own, its variables or, if its path is not  *)
(* well formed, what it declares; and the resources that count for it, from*)
(* the innermost of the latter inwards.                                    *)
Gives(s) == IF IsTemplate(s) THEN doc.path[s] ELSE doc.declared[s]
Counted(r) ==
    {s \in Resources : /\ r \in Below[s]
                       /\ \A m \in Resources : r \in Below[m] /\ ~IsTemplate(m) => s \in Below[m]}

(* Each variable of the URI of a resource that was walked, registered or   *)
(* not, is a parameter of it, once, in the order in which they first come  *)
(* in it, and is that of the innermost resource that writes it, however    *)
(* often it is repeated.  Where a path around it is not well formed, that  *)
(* holds from the innermost such resource on, and of the names that one    *)
(* declares (endpoint_build.py, _walk and _resolve_uri_parameters).        *)
UriParametersByPath ==
    step # "walk" =>
      \A t \in (ToSet(Top) \cap attached) \ ToSet(marking) :
        \A r \in Below[t] \cap Resources :
          LET counted == Counted(r)
              steps == UNION {DOMAIN Gives(s) : s \in counted}
              Places(x) == {p \in counted \X steps :
                              p[2] \in DOMAIN Gives(p[1]) /\ Gives(p[1])[p[2]] = x}
              Before(p, q) == IF p[1] = q[1] THEN p[2] < q[2] ELSE q[1] \in Below[p[1]]
              names == params[r].names
              of == params[r].of
          IN /\ IsInjective(names) /\ DOMAIN of = ToSet(names)
             /\ ToSet(names) = {x \in Variable : Places(x) # {}}
             /\ \A i, j \in DOMAIN names : i < j =>
                  \E p \in Places(names[i]) : \A q \in Places(names[j]) : Before(p, q)
             /\ \A x \in ToSet(names) :
                  /\ \E p \in Places(x) : p[1] = of[x]
                  /\ \A q \in Places(x) : of[x] \in Below[q[1]]

(* After SECURITY, a method answers to the references of the closest level *)
(* that wrote any, though only a resource's own methods see its list; each *)
(* reference in force is bound or marked, one to a broken scheme is        *)
(* marked, and it asks for no scope its scheme lacks (security.py).        *)
BoundOrMarked ==
    Over /\ "SECURITY" \in ToSet(completed) =>
      \A r \in ToSet(endpoints) : \A l \in {r} \cup ToSet(OperationsOf[r]) :
        LET closest == IF doc.secured[l] # None THEN l
                       ELSE IF doc.secured[r] # None THEN r ELSE API
        IN /\ secured[l] = closest
           /\ \A ref \in ToSet(Refs(closest)) :
                /\ definition[ref] = None => broken[ref] # {}
                /\ definition[ref] \in Definitions =>
                     /\ definition[ref] = Written(ref).name
                     /\ broken[definition[ref]] # {} => broken[ref] # {} /\ compiled[ref] = {}
                     /\ broken[ref] = {} =>
                          /\ compiled[ref] = Written(ref).scopes
                          /\ compiled[ref] # {} => compiled[ref] \subseteq doc.scopes[definition[ref]]

=============================================================================
