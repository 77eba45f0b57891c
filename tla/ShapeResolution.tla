--------------------------- MODULE ShapeResolution ---------------------------
(***************************************************************************)
(* fastraml/types/resolve.py: pass P7, which settles the kind of every     *)
(* declaration whose own text does not tell it.  The worklist is drained   *)
(* in order, but a referent is settled out of order, on the way, and what  *)
(* the worklist holds grows: the declarations written under one that was   *)
(* just settled come after it.                                             *)
(*                                                                         *)
(* A type expression is the names in it, in the order in which the visitor *)
(* meets them: the shapes it builds between them are not followed.         *)
(***************************************************************************)
EXTENDS Naturals, SequencesExt, FiniteSetsExt, TLC

CONSTANTS
    Shapes,         \* the declarations
    Unknown,        \* the kind of an UnknownShape
    Missing,        \* a name that no scope binds
    Corpus          \* the models that may be resolved

(* How a declaration gets its kind: it has it from its decoding ("known"), *)
(* or takes that of what it names, of the first of its parents, or of its  *)
(* expression: "array" or "union".                                         *)
Kinds == {"string", "object", "array", "union"}
Forms == {"known", "name", "composite", "expression"}

(* names: what a declaration refers to; under: those written under it,     *)
(* which its kind's decoding builds; faulty: whether one of those fails.   *)
Models == [form : [Shapes -> Forms], kind : [Shapes -> Kinds],
           names : [Shapes -> Seq(Shapes \cup {Missing})],
           under : [Shapes -> Seq(Shapes)], faulty : SUBSET Shapes,
           worklist : Seq(Shapes), maxDepth : Nat]

ASSUME CorpusAssumption ==
    /\ Missing \notin Shapes /\ Unknown \notin Kinds /\ Corpus \subseteq Models
    /\ \A m \in Corpus, s \in Shapes :
        /\ m.form[s] = "known" <=> m.names[s] = <<>>
        /\ m.form[s] = "name" => Len(m.names[s]) = 1

VARIABLES
    model,          \* a member of Corpus, as decoded
    kind,           \* the kind of each shape
    edges,          \* alias, inherits and link: what a shape with a kind refers to
    queue,          \* Raml.unresolved_shapes
    stack,          \* the calls of resolve_shape, outermost first
    visiting,       \* the shapes with BaseShape._visiting
    chainFailure,   \* the shapes with UnknownShape.chain_failure, a function
    broken,         \* Raml.broken: the errors each shape is marked with
    errors,         \* what the accumulator has
    entered,        \* the shapes resolve_shape has walked,
    again           \* and those it has walked more than once

walked == <<entered, again>>
vars == <<model, kind, edges, queue, stack, visiting, chainFailure, broken, errors, walked>>

Init ==
    /\ model \in Corpus
    /\ kind = [s \in Shapes |-> IF model.form[s] = "known" THEN model.kind[s] ELSE Unknown]
    /\ edges = [s \in Shapes |-> {}]
    /\ queue = model.worklist /\ stack = <<>> /\ visiting = {}
    /\ chainFailure = [s \in {} |-> s] /\ broken = [s \in Shapes |-> {}] /\ errors = {}
    /\ entered = {} /\ again = {}

Error(what, s) == [what |-> what, at |-> s]
Settled(s) == kind[s] # Unknown

Top == Last(stack)
Referent == Head(Top.left)
Following == stack # <<>> /\ Top.left # <<>>
Advanced == Append(Front(stack), [Top EXCEPT !.left = Tail(@)])
-----------------------------------------------------------------------------
(* Mutant of TooDeep: the ceiling itself is refused.                       *)
TooDeepAtCeiling == Len(stack) >= model.maxDepth

(* A call's depth is the number of calls it is inside.                     *)
TooDeep == Len(stack) > model.maxDepth

Enter(s, calls) ==
    /\ stack' = Append(calls, [shape |-> s, left |-> model.names[s]])
    /\ visiting' = visiting \cup {s}
    /\ entered' = entered \cup {s}
    /\ again' = IF s \in entered THEN again \cup {s} ELSE again
    /\ UNCHANGED <<model, kind, edges, chainFailure, broken, errors>>

(* UnknownShape.chain_failure of these shapes is the error.                *)
Failing(shapes, error) ==
    [s \in shapes \cup DOMAIN chainFailure |->
        IF s \in shapes THEN error ELSE chainFailure[s]]

(* Mutant of Unwind: the cause is kept where the error started only.       *)
UnwindKeptOnce(error, kinds) ==
    LET passed == {stack[i].shape : i \in DOMAIN stack} IN
    /\ kind' = kinds
    /\ visiting' = visiting \ passed
    /\ broken' = [s \in Shapes |-> IF s \in passed THEN broken[s] \cup {error} ELSE broken[s]]
    /\ chainFailure' = IF error.what = "too deep"
                       THEN Failing({Top.shape}, error) ELSE chainFailure
    /\ errors' = errors \cup {error}
    /\ stack' = <<>>
    /\ UNCHANGED <<model, walked>>

(* Mutant of Unwind: only the shape the error started in is marked.        *)
UnwindMarkingOne(error, kinds) ==
    LET passed == {stack[i].shape : i \in DOMAIN stack} IN
    /\ kind' = kinds
    /\ visiting' = visiting \ passed
    /\ broken' = [broken EXCEPT ![Top.shape] = @ \cup {error}]
    /\ chainFailure' = IF error.what = "too deep"
                       THEN Failing(passed, error) ELSE chainFailure
    /\ errors' = errors \cup {error}
    /\ stack' = <<>>
    /\ UNCHANGED <<model, walked>>

(* An error leaves every call on the stack: each shape is marked with it,  *)
(* is no longer visited, and keeps it when it is the chain's length.  The  *)
(* accumulator takes it, and the worklist goes on.                         *)
Unwind(error, kinds) ==
    LET passed == {stack[i].shape : i \in DOMAIN stack} IN
    /\ kind' = kinds
    /\ visiting' = visiting \ passed
    /\ broken' = [s \in Shapes |-> IF s \in passed THEN broken[s] \cup {error} ELSE broken[s]]
    /\ chainFailure' = IF error.what = "too deep"
                       THEN Failing(passed, error) ELSE chainFailure
    /\ errors' = errors \cup {error}
    /\ stack' = <<>>
    /\ UNCHANGED <<model, walked>>
-----------------------------------------------------------------------------
(* resolve_shapes: the next of the worklist, which may have been settled,  *)
(* or have failed at the ceiling, on the way to another.                   *)
Take ==
    /\ stack = <<>> /\ queue # <<>>
    /\ queue' = Tail(queue)
    /\ LET s == Head(queue) IN
       \/ /\ Settled(s)
          /\ UNCHANGED <<model, kind, edges, stack, visiting, chainFailure, broken, errors, walked>>
       \/ /\ s \in DOMAIN chainFailure
          /\ errors' = errors \cup {chainFailure[s]}
          /\ UNCHANGED <<model, kind, edges, stack, visiting, chainFailure, broken, walked>>
       \/ ~Settled(s) /\ s \notin DOMAIN chainFailure /\ Enter(s, <<>>)

(* resolve_shape of the next referent, in the order of its checks.         *)
FollowSettled ==
    /\ Following /\ Referent # Missing /\ Settled(Referent)
    /\ stack' = Advanced
    /\ UNCHANGED <<model, kind, edges, queue, visiting, chainFailure, broken, errors, walked>>

FollowMissing ==
    /\ Following /\ Referent = Missing
    /\ Unwind(Error("unbound", Top.shape), kind)
    /\ UNCHANGED <<edges, queue>>

(* Mutant of FollowVisiting: as in unwrap, a shape being walked is passed. *)
FollowVisitingOver ==
    /\ Following /\ Referent # Missing /\ ~Settled(Referent)
    /\ Referent \in visiting
    /\ stack' = Advanced
    /\ UNCHANGED <<model, kind, edges, queue, visiting, chainFailure, broken, errors, walked>>

FollowVisiting ==
    /\ Following /\ Referent # Missing /\ ~Settled(Referent)
    /\ Referent \in visiting
    /\ Unwind(Error("cyclic", Referent), kind)
    /\ UNCHANGED <<edges, queue>>

Open == /\ Following /\ Referent # Missing /\ ~Settled(Referent)
        /\ Referent \notin visiting

FollowFailed ==
    /\ Open /\ Referent \in DOMAIN chainFailure
    /\ Unwind(chainFailure[Referent], kind)
    /\ UNCHANGED <<edges, queue>>

FollowTooDeep ==
    /\ Open /\ Referent \notin DOMAIN chainFailure /\ TooDeep
    /\ Unwind(Error("too deep", Referent), kind)
    /\ UNCHANGED <<edges, queue>>

FollowNew ==
    /\ Open /\ Referent \notin DOMAIN chainFailure /\ ~TooDeep
    /\ Enter(Referent, Advanced)
    /\ UNCHANGED queue

(* Mutant of Kind: the kind of the last name.                              *)
KindOfLast(s) ==
    IF model.form[s] = "expression" THEN model.kind[s] ELSE kind[Last(model.names[s])]

(* The first parent's kind, the referent's, or the expression's.           *)
Kind(s) ==
    IF model.form[s] = "expression" THEN model.kind[s] ELSE kind[model.names[s][1]]

(* attach_kind: the kind is set, and then the declarations written under   *)
(* it are built, which join the worklist.  One that fails leaves the kind  *)
(* and what was built.                                                     *)
Settling == stack # <<>> /\ Top.left = <<>>
Settle ==
    /\ Settling /\ Top.shape \notin model.faulty
    /\ kind' = [kind EXCEPT ![Top.shape] = Kind(Top.shape)]
    /\ edges' = [edges EXCEPT ![Top.shape] = ToSet(model.names[Top.shape])]
    /\ queue' = queue \o model.under[Top.shape]
    /\ stack' = Front(stack)
    /\ visiting' = visiting \ {Top.shape}
    /\ UNCHANGED <<model, chainFailure, broken, errors, walked>>

(* What a shape refers to though it failed: its parents and its `!include` *)
(* are there from its decoding (a name may be either an include's or an    *)
(* alias's), an alias and what an expression builds only when it settles.  *)
KeptEdges(s) ==
    CASE model.form[s] = "composite" -> {ToSet(model.names[s])}
      [] model.form[s] = "name" -> {ToSet(model.names[s]), {}}
      [] OTHER -> {{}}

(* Mutant of SettleFaulty: a shape that failed is tried again later.       *)
SettleFaultyLater ==
    /\ Settling /\ Top.shape \in model.faulty
    /\ queue' = queue \o model.under[Top.shape] \o <<Top.shape>>
    /\ Unwind(Error("facet", Top.shape), kind)
    /\ UNCHANGED edges

SettleFaulty ==
    /\ Settling /\ Top.shape \in model.faulty
    /\ queue' = queue \o model.under[Top.shape]
    /\ Unwind(Error("facet", Top.shape),
              [kind EXCEPT ![Top.shape] = Kind(Top.shape)])
    /\ \E kept \in KeptEdges(Top.shape) : edges' = [edges EXCEPT ![Top.shape] = kept]

Next ==
    \/ Take
    \/ FollowSettled \/ FollowMissing \/ FollowVisiting
    \/ FollowFailed \/ FollowTooDeep \/ FollowNew
    \/ Settle \/ SettleFaulty

(* A sequential pass, which goes on until the worklist is empty.           *)
Spec == Init /\ [][Next]_vars /\ WF_vars(Next)
-----------------------------------------------------------------------------
(* Properties.                                                             *)

Drained == queue = <<>> /\ stack = <<>>

(* The declarations from which every path of references ends: the least    *)
(* set that has whatever refers into it only.                              *)
Grounded(references) ==
    {s \in Shapes : \A X \in SUBSET Shapes :
        (\A t \in Shapes : references[t] \subseteq X => t \in X) => s \in X}

(* The declarations that have a kind by definition: what they name has one.*)
Names == [s \in Shapes |-> ToSet(model.names[s])]
Resolvable == Grounded(Names)

(* Those that have this kind by definition, their own or that of the first *)
(* name: the least set again.                                              *)
Defined(its) ==
    {s \in Shapes : \A X \in SUBSET Shapes :
        (\A t \in Shapes :
            (IF model.form[t] \in {"known", "expression"} THEN model.kind[t] = its
             ELSE model.names[t][1] \in X) => t \in X) => s \in X}

(* Whatever the order of the worklist, a kind that was settled is the one  *)
(* that the definition gives (docs/07 section 2).                          *)
KindsByDefinition ==
    LET sound == Resolvable IN
    \A s \in Shapes : Settled(s) => s \in sound /\ s \in Defined(kind[s])

(* Invariant I5 (docs/02 section 4): a shape P7 was to settle has a kind,  *)
(* unless it is marked.                                                    *)
UnknownIsMarked ==
    Drained => \A s \in entered \cup ToSet(model.worklist) :
        Settled(s) \/ broken[s] # {}

(* Declarations to settle, each named by the one before, that are one more *)
(* than the calls that may be inside one another.                          *)
LongChain ==
    LET length == model.maxDepth + 2 IN
    \E X \in SUBSET {s \in Shapes : model.form[s] # "known"} :
        /\ Cardinality(X) = length
        /\ \E chain \in Bijection(1..length, X) :
            \A i \in 1..(length - 1) : chain[i + 1] \in Names[chain[i]]

(* What a declaration leads to by what it names, itself included.          *)
Leads(s) ==
    {t \in Shapes : \A X \in SUBSET Shapes :
        s \in X /\ (\A u \in X : Names[u] \cap Shapes \subseteq X) => t \in X}

(* A declaration that leads to none that is wrong is not marked, whatever  *)
(* else is in the model, if no chain is longer than the ceiling allows.    *)
SoundUnmarked ==
    Drained /\ ~LongChain =>
        \A s \in Resolvable : Leads(s) \cap model.faulty = {} => broken[s] = {}

(* A declaration is marked exactly as far as its own names and the ceiling *)
(* give reason, in either direction (resolve_shape's error paths).         *)
MarkedIffUnsound == UnknownIsMarked /\ SoundUnmarked

(* No settled declaration reaches itself by what it names: P9, which does  *)
(* not look for such a cycle, would merge a shape in it as it stands.      *)
EdgesAcyclic == Grounded(edges) = Shapes

(* "A long chain costs time linear in its length" (docs/12 section 3): in  *)
(* a model whose only errors are chains too long, each declaration is      *)
(* walked once, however many others lead to it.                            *)
ChainsLinear == Resolvable = Shapes /\ model.faulty = {} => again = {}

(* What later passes and the cost of this one rest on: the settled edges   *)
(* have no cycle and no declaration is walked twice.                       *)
WalkedOnce == EdgesAcyclic /\ ChainsLinear

Terminates == <>Drained
=============================================================================
