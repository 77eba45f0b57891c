-------------------------------- MODULE Unwrap --------------------------------
(***************************************************************************)
(* fastraml/types/unwrap.py: flattening every declared type and marking    *)
(* the cycles left.  The walk of shapes is recursive and shares what it    *)
(* has done; a shape is flagged before its parts are walked, so a cycle    *)
(* reaches shapes that are not finished and may still fail.                *)
(*                                                                         *)
(* Shapes are objects: their properties are a container, which an alias    *)
(* shares with its referent and a subtype copies.  A shape has at most one *)
(* parent, property names are all different, merges do not replace a shape *)
(* (no union collapses), and the ceilings on depth are not reached.        *)
(***************************************************************************)
EXTENDS Naturals, SequencesExt, TLC

CONSTANTS
    Declared,       \* the sequence of declared shapes (fragment_typedefs)
    Anonymous,      \* shapes written in place, below a declaration
    None,           \* no alias, no container
    Corpus          \* the models that may be unwrapped

Shapes == ToSet(Declared) \cup Anonymous

(* A model: what each shape names, what it holds, and the shapes whose own *)
(* merge is rejected.                                                      *)
Models == [alias : [Shapes -> Shapes \cup {None}],
           inherits : [Shapes -> Seq(Shapes)],
           properties : [Shapes -> Seq(Shapes)],
           rejected : SUBSET Shapes]

(* The shapes that are written: declared, or in place in one that is.      *)
Written(m) ==
    {s \in Shapes : \A S \in SUBSET Shapes :
        ToSet(Declared) \subseteq S /\ (\A x \in S : ToSet(m.properties[x]) \subseteq S)
            => s \in S}

ASSUME CorpusAssumption ==
    /\ Declared \in Seq(Shapes)
    /\ None \notin Shapes /\ Corpus \subseteq Models
    /\ \A m \in Corpus, s \in Shapes :
        /\ Len(m.inherits[s]) <= 1
        /\ m.alias[s] # None => m.inherits[s] = <<>> /\ m.properties[s] = <<>>
ASSUME WrittenAssumption ==
    \A m \in Corpus : \A s \in Shapes \ Written(m) :
        m.alias[s] = None /\ m.inherits[s] = <<>> /\ m.properties[s] = <<>>

VARIABLES
    model,          \* a member of Corpus, as declared
    entries,        \* each container's entries, as they stand
    container,      \* the container of each shape, named by its first owner,
                    \* or None for a shape without properties
    parents,        \* BaseShape.inherits: an alias takes its referent's
    unwrapped,      \* the shapes with BaseShape._unwrapped
    done,           \* the keys of _Walk.done
    failed,         \* _Walk.failed, a function; an error is its first shape
    reported,       \* what the accumulator has, in order
    phase,          \* "unwrap", "carry", "finish" or "end"
    next,           \* the index of the next declared shape
    stack,          \* the calls of _unwrap, or of _finish, outermost first
    visiting        \* the shapes with BaseShape._visiting

flattening == <<container, parents, unwrapped, done, failed, reported>>
vars == <<model, entries, flattening, phase, next, stack, visiting>>

(* An entry holds a shape or, once marked, a RecursiveShape with a head.   *)
Holding(s) == [shape |-> s, recursive |-> FALSE]
Marker(head) == [shape |-> head, recursive |-> TRUE]

Held(s) == IF container[s] = None THEN <<>> ELSE entries[container[s]]
Nested(s) == {e.shape : e \in {f \in ToSet(Held(s)) : ~f.recursive}}
Named(s) == {model.alias[s]} \ {None}

(* _sources *)
Sources(s) == ToSet(parents[s]) \cup Named(s) \cup Nested(s)

Init ==
    /\ model \in Corpus
    /\ entries = [s \in Shapes |->
           [i \in DOMAIN model.properties[s] |-> Holding(model.properties[s][i])]]
    /\ container = [s \in Shapes |-> IF model.properties[s] = <<>> THEN None ELSE s]
    /\ parents = model.inherits
    /\ unwrapped = {} /\ done = {}
    /\ failed = [s \in {} |-> s] /\ reported = <<>>
    /\ phase = "unwrap" /\ next = 1 /\ stack = <<>> /\ visiting = {}
-----------------------------------------------------------------------------
(* _unwrap.                                                                *)

Top == Last(stack)
AfterTop(frame) == Append(Front(stack), frame)

(* A call: the shapes still to unwrap, in the order of the code.           *)
Call(s) ==
    [shape |-> s,
     left |-> IF model.alias[s] # None THEN <<model.alias[s]>>
              ELSE model.inherits[s] \o [i \in DOMAIN Held(s) |-> Held(s)[i].shape]]

Unfailed(s) == s \notin DOMAIN failed /\ s \notin unwrapped
Open(s) ==
    /\ Unfailed(s)
    /\ unwrapped' = unwrapped \cup {s}
    /\ UNCHANGED <<model, entries, container, parents, done, failed, reported, phase, visiting>>

(* Next declared shape: one already walked, well or not, is passed over.   *)
Declare ==
    /\ phase = "unwrap" /\ stack = <<>> /\ next <= Len(Declared)
    /\ next' = next + 1
    /\ LET s == Declared[next] IN
       \/ Open(s) /\ stack' = <<Call(s)>>
       \/ ~Unfailed(s) /\ UNCHANGED <<model, entries, flattening, phase, stack, visiting>>

(* The next part of the shape on top is unwrapped, or is already flagged:  *)
(* finished, or still on the stack.                                        *)
Advanced == [Top EXCEPT !.left = Tail(@)]
Follow ==
    /\ phase = "unwrap" /\ stack # <<>> /\ Top.left # <<>>
    /\ LET s == Head(Top.left) IN
       \/ Open(s) /\ stack' = Append(AfterTop(Advanced), Call(s))
       \/ /\ s \in unwrapped
          /\ stack' = AfterTop(Advanced)
          /\ UNCHANGED <<model, entries, flattening, phase, visiting>>
    /\ UNCHANGED next

Failing(shapes, error) ==
    [s \in shapes \cup DOMAIN failed |-> IF s \in shapes THEN error ELSE failed[s]]

(* An error leaves every call on the stack: each of their shapes is marked *)
(* with it (Raml.broken has the same keys) and loses its flag.             *)
Unwind(error) ==
    LET passed == {stack[i].shape : i \in DOMAIN stack} IN
    /\ failed' = Failing(passed, error)
    /\ unwrapped' = unwrapped \ passed
    /\ stack' = <<>>
    /\ UNCHANGED <<model, entries, container, parents, done, phase, next, visiting>>

(* Mutant of FollowFailed: the stored error is raised as a new one.        *)
FollowFailedAgain ==
    /\ phase = "unwrap" /\ stack # <<>> /\ Top.left # <<>>
    /\ Head(Top.left) \in DOMAIN failed
    /\ Unwind(failed[Head(Top.left)])
    /\ reported' = Append(reported, failed[Head(Top.left)])

(* A second route to a failure (_Failed): nothing is reported again.       *)
FollowFailed ==
    /\ phase = "unwrap" /\ stack # <<>> /\ Top.left # <<>>
    /\ Head(Top.left) \in DOMAIN failed
    /\ Unwind(failed[Head(Top.left)])
    /\ UNCHANGED reported

Merging == phase = "unwrap" /\ stack # <<>> /\ Top.left = <<>>

(* inherit or alias_to raises, and the accumulator takes the error.        *)
Reject ==
    /\ Merging /\ Top.shape \in model.rejected
    /\ Unwind(Top.shape)
    /\ reported' = Append(reported, Top.shape)

(* Mutant of Inherited: what the parent declares, not what it inherits.    *)
InheritedDeclared(s) ==
    IF model.inherits[s] = <<>> THEN <<>>
    ELSE SelectSeq(Held(model.inherits[s][1]),
                   LAMBDA e : e.shape \in ToSet(model.properties[model.inherits[s][1]]))

(* What the parent holds, as it stands: it may still be on the stack.      *)
Inherited(s) == IF model.inherits[s] = <<>> THEN <<>> ELSE Held(model.inherits[s][1])

(* alias_to takes the referent's container and parents, if it has them by  *)
(* then.                                                                   *)
AliasTo(s, referent) ==
    /\ container' = [container EXCEPT ![s] = container[referent]]
    /\ parents' = [parents EXCEPT ![s] = parents[referent]]
    /\ UNCHANGED entries

(* inherit adds the parent's properties after the shape's own.             *)
Inherit(s) ==
    /\ entries' = [entries EXCEPT ![s] = @ \o Inherited(s)]
    /\ container' = IF Inherited(s) = <<>> THEN container ELSE [container EXCEPT ![s] = s]
    /\ UNCHANGED parents

Merge ==
    /\ Merging /\ Top.shape \notin model.rejected
    /\ LET s == Top.shape IN
       /\ done' = done \cup {s}
       /\ \/ model.alias[s] # None /\ AliasTo(s, model.alias[s])
          \/ model.alias[s] = None /\ Inherit(s)
    /\ stack' = Front(stack)
    /\ UNCHANGED <<model, unwrapped, failed, reported, phase, next, visiting>>

(* Mutant of ToCarry: a shape that merely encloses a failed one is left.   *)
HeirsToCarry ==
    {s \in done \ DOMAIN failed :
        (ToSet(model.inherits[s]) \cup Named(s)) \cap DOMAIN failed # {}}

(* _fail_what_reached_a_failure, a shape at a time, in any order.          *)
ToCarry == {s \in done \ DOMAIN failed : Sources(s) \cap DOMAIN failed # {}}

(* Mutant of Carry: the shape loses its flag and is not put in `failed`.   *)
CarryUnmarked ==
    /\ phase = "carry"
    /\ \E s \in ToCarry : unwrapped' = unwrapped \ {s}
    /\ UNCHANGED <<model, entries, container, parents, done, failed, reported, phase, next,
                   stack, visiting>>

Carry ==
    /\ phase = "carry"
    /\ \E s \in ToCarry : \E source \in Sources(s) \cap DOMAIN failed :
        /\ failed' = Failing({s}, failed[source])
        /\ unwrapped' = unwrapped \ {s}
    /\ UNCHANGED <<model, entries, container, parents, done, reported, phase, next, stack,
                   visiting>>

UnwrapEnds ==
    /\ phase = "unwrap" /\ stack = <<>> /\ next > Len(Declared)
    /\ phase' = "carry"
    /\ UNCHANGED <<model, entries, flattening, next, stack, visiting>>
CarryEnds ==
    /\ phase = "carry" /\ ToCarry = {}
    /\ phase' = "finish" /\ next' = 1
    /\ UNCHANGED <<model, entries, flattening, stack, visiting>>
-----------------------------------------------------------------------------
(* _finish, which goes down every path, over what was unwrapped.           *)

Enter(s) ==
    /\ visiting' = visiting \cup {s}
    /\ UNCHANGED <<model, entries, flattening, phase>>
Visit(s) == [shape |-> s, at |-> 1]

(* Mutant of FinishDeclared: a declaration that failed is not walked.      *)
FinishWhole ==
    /\ phase = "finish" /\ stack = <<>> /\ next <= Len(Declared)
    /\ next' = next + 1
    /\ IF Declared[next] \in DOMAIN failed
       THEN UNCHANGED <<model, entries, flattening, phase, visiting, stack>>
       ELSE Enter(Declared[next]) /\ stack' = <<Visit(Declared[next])>>

FinishDeclared ==
    /\ phase = "finish" /\ stack = <<>> /\ next <= Len(Declared)
    /\ next' = next + 1
    /\ Enter(Declared[next]) /\ stack' = <<Visit(Declared[next])>>

Slot == Held(Top.shape)
InSlot == phase = "finish" /\ stack # <<>> /\ Top.at <= Len(Slot)
Onward == AfterTop([Top EXCEPT !.at = @ + 1])

(* The entry closes a cycle: the shape it holds is being walked, or the    *)
(* nearest is of those it is an alias of.  A marker takes its place, in    *)
(* the container and so for every alias that shares it.                    *)
Heads ==
    {head \in visiting : \A S \in SUBSET Shapes :
        Slot[Top.at].shape \in S /\ (\A s \in S \ visiting : Named(s) \subseteq S)
            => head \in S}
Mark ==
    /\ InSlot /\ ~Slot[Top.at].recursive
    /\ \E head \in Heads :
        entries' = [entries EXCEPT ![container[Top.shape]][Top.at] = Marker(head)]
    /\ stack' = Onward
    /\ UNCHANGED <<model, flattening, phase, next, visiting>>

PassMarker ==
    /\ InSlot /\ Slot[Top.at].recursive
    /\ stack' = Onward
    /\ UNCHANGED <<model, entries, flattening, phase, next, visiting>>

Descend ==
    /\ InSlot /\ ~Slot[Top.at].recursive /\ Heads = {}
    /\ Enter(Slot[Top.at].shape)
    /\ stack' = Append(Onward, Visit(Slot[Top.at].shape))
    /\ UNCHANGED next

Leaving == phase = "finish" /\ stack # <<>> /\ Top.at > Len(Slot)

(* Mutant of Leave: _visiting is not cleared.                              *)
LeaveVisiting ==
    /\ Leaving /\ stack' = Front(stack)
    /\ UNCHANGED <<model, entries, flattening, phase, next, visiting>>

Leave ==
    /\ Leaving /\ stack' = Front(stack)
    /\ visiting' = visiting \ {Top.shape}
    /\ UNCHANGED <<model, entries, flattening, phase, next>>

FinishEnds ==
    /\ phase = "finish" /\ stack = <<>> /\ next > Len(Declared)
    /\ phase' = "end"
    /\ UNCHANGED <<model, entries, flattening, next, stack, visiting>>

Next ==
    \/ Declare \/ Follow \/ FollowFailed \/ Reject \/ Merge \/ UnwrapEnds
    \/ Carry \/ CarryEnds
    \/ FinishDeclared \/ Mark \/ PassMarker \/ Descend \/ Leave \/ FinishEnds

(* A sequential pass, which goes on until it returns.                      *)
Spec == Init /\ [][Next]_vars /\ WF_vars(Next)
-----------------------------------------------------------------------------
(* Properties.                                                             *)

Unwrapped == phase \in {"finish", "end"}

(* A shape flagged unwrapped is whole: so is every shape it inherits from, *)
(* is an alias of or encloses, and none of their merges was rejected,      *)
(* whatever was reached before it failed (docs/07 section 6).              *)
FlaggedAreWhole ==
    Unwrapped => \A s \in unwrapped :
        s \notin model.rejected /\ Sources(s) \subseteq unwrapped

Leads(s) == Named(s) \cup ToSet(model.inherits[s]) \cup ToSet(model.properties[s])

(* The shapes from which every walk along `to` ends: the least set with    *)
(* each shape that goes to shapes of it only.                              *)
Ending(to) ==
    {s \in Shapes : \A S \in SUBSET Shapes :
        (\A x \in Shapes : to[x] \subseteq S => x \in S) => s \in S}

(* The flattening of docs/07 sections 3 and 4: a subtype's properties are  *)
(* its own and then its parent's, an alias's those of its referent.        *)
Holds(s) == [i \in DOMAIN Held(s) |-> Held(s)[i].shape]
Flattened(s) ==
    IF model.alias[s] # None THEN Holds(model.alias[s])
    ELSE model.properties[s]
            \o (IF model.inherits[s] = <<>> THEN <<>> ELSE Holds(model.inherits[s][1]))

(* A shape flagged unwrapped that leads to no type cycle holds what the    *)
(* definition says, in its order, whichever declaration was reached first. *)
(* (In a cycle the walk takes a shape "as it stands": docs/07 section 6.)  *)
FlattenedOutsideCycles ==
    phase = "finish" /\ next = 1 =>
        \A s \in unwrapped \cap Ending([t \in Shapes |-> Leads(t)]) : Holds(s) = Flattened(s)

(* A failure is reported once, by whichever route it is met, and no shape  *)
(* is marked with one that was not (_Failed; docs/07 section 6).           *)
ReportedOnce ==
    /\ \A i, j \in DOMAIN reported : reported[i] = reported[j] => i = j
    /\ Unwrapped => {failed[s] : s \in DOMAIN failed} = ToSet(reported)

(* Once P9 is over, whether or not something failed, a walk down the       *)
(* containment of any shape ends: it meets no shape inside itself.         *)
WalkEnds == phase = "end" => Ending([s \in Shapes |-> Nested(s)]) = Shapes

(* A marker stands for an edge that closes a cycle: it is inside its head, *)
(* however the containers are shared.  A diamond is not a cycle.           *)
Inside(c, head) ==
    \A S \in SUBSET Shapes :
        head \in S /\ (\A t \in S : {e.shape : e \in ToSet(Held(t))} \subseteq S)
            => \E t \in S : container[t] = c
MarkersCloseCycles ==
    phase = "end" => \A s \in Shapes : \A e \in ToSet(entries[s]) :
        e.recursive => Inside(s, e.shape)

Terminates == <>(phase = "end")
=============================================================================
