---------------------------- MODULE SourceCache ----------------------------
(***************************************************************************)
(* fastraml/service/source.py, with those who use it: the workspace, which *)
(* tells it of changes and asks for the present text's tree, and the       *)
(* snapshots, whose hovers ask for the tree of the text they parsed, the   *)
(* last of them long after the workspace dropped the snapshot.  A file     *)
(* changes together with the notice of it (Workspace tells them apart);    *)
(* texts are without their byte order mark; the YAML backend, which no     *)
(* process changes, is left out of the composition policy.                 *)
(***************************************************************************)
EXTENDS Naturals, FiniteSets

CONSTANTS
    Files, Roots, Texts, Depths,
    Fits,           \* the <<text, depth>> that compose
    Reads,          \* for each root, the files its parse reads
    Synthetic,      \* files whose tree in a parse is not the composition
                    \* of their text (original_tree): JSON includes
    Written,        \* the texts each file may come to have
    MaxGeneration,  \* bounds the changes and policies of a behaviour
    MaxHeld,        \* bounds the dropped snapshots held at a time
    None

ASSUME FitsAssumption == Fits \subseteq Texts \X Depths
ASSUME ReadsAssumption == Reads \in [Roots -> SUBSET Files]
ASSUME WrittenAssumption == Written \in [Files -> SUBSET Texts]
ASSUME NumbersAssumption ==
    Depths \subseteq Nat /\ MaxGeneration \in Nat /\ MaxHeld \in Nat
ASSUME NoneAssumption ==
    /\ None \notin Texts \cup (Texts \X Depths)
    /\ None \notin [text : Texts, depth : Depths,
                    root : {None} \cup (Texts \X Depths)]

VARIABLES
    text,           \* the text of each file, a buffer's or the disk's
    depth,          \* config.parser.max_depth
    retain,         \* linter.requires_source: parses keep their trees
    sources,        \* the Sources of the workspace
    snapshots,      \* Workspace._snapshots, None where it has none
    held,           \* dropped snapshots that a consumer goes on with
    missed,         \* ghost: files changed unrecorded under a held snapshot
    composed,       \* ghost: how often the present text was composed
    answer          \* ghost: what the last reader asked, and was given

vars == <<text, depth, retain, sources, snapshots, held, missed, composed, answer>>

Compose(t, d) == IF <<t, d>> \in Fits THEN <<t, d>> ELSE None

Live == {snapshots[r] : r \in Roots} \ {None}
-----------------------------------------------------------------------------
(* Sources.                                                                *)

(* configure: a new composition policy.  Mutant: nothing is cleared.       *)
ConfigureKeeping(o, d) == [o EXCEPT !.maxDepth = d]
Configure(o, d) ==
    IF d = o.maxDepth THEN o
    ELSE [o EXCEPT !.entries = [f \in Files |-> None],
                   !.generation = @ + 1,
                   !.policyGeneration = o.generation + 1,
                   !.maxDepth = d]

(* A change of f is remembered for a file some snapshot or the cache uses, *)
(* or once did.                                                            *)
Recorded(o, f, read) == read \/ o.entries[f] # None \/ o.changed[f] > 0

(* discard.  Mutants: only what is cached is remembered; the entry stays.  *)
DiscardCached(o, f, read) ==
    [o EXCEPT !.entries = [@ EXCEPT ![f] = None],
              !.generation = @ + 1,
              !.changed = [@ EXCEPT ![f] =
                IF o.entries[f] # None THEN o.generation + 1 ELSE @]]
Discard(o, f, read) ==
    [entries |-> [o.entries EXCEPT ![f] = None],
     changed |-> [o.changed EXCEPT ![f] =
                    IF Recorded(o, f, read) THEN o.generation + 1 ELSE @],
     generation |-> o.generation + 1,
     policyGeneration |-> o.policyGeneration, maxDepth |-> o.maxDepth]

(* lookup.  Mutant: the composition policy is not compared.                *)
LookupText(o, f, t, d) == o.entries[f] # None /\ o.entries[f].text = t
Lookup(o, f, t, d) ==
    /\ o.entries[f] # None
    /\ o.entries[f].text = t /\ o.entries[f].depth = d

(* Whether a reader of generation g may publish.  Mutant: any may.         *)
AnyPublishes(o, f, d, g) == d = o.maxDepth
MayPublish(o, f, d, g) ==
    g >= o.changed[f] /\ g >= o.policyGeneration /\ d = o.maxDepth

(* node: the tree given to a reader of generation g, which may bring a     *)
(* tree of its own (`original`), and what is stored by then.  The owner    *)
(* itself asks with the present generation, where the code passes none.    *)
Shared(o, f, t, d, g, original) ==
    Lookup(o, f, t, d) /\ ~(original # None /\ MayPublish(o, f, d, g))
Node(o, f, t, d, g, original) ==
    IF Shared(o, f, t, d, g, original) THEN o.entries[f].root
    ELSE IF original # None THEN original ELSE Compose(t, d)
Published(o, f, t, d, g, original) ==
    IF Shared(o, f, t, d, g, original) \/ ~MayPublish(o, f, d, g) THEN o
    ELSE [o EXCEPT !.entries[f] =
            [text |-> t, depth |-> d, root |-> Node(o, f, t, d, g, original)]]

(* The tree a snapshot kept of f, where it is the composition of its text. *)
Original(s, f) ==
    IF retain /\ f \notin Synthetic THEN Compose(s.texts[f], s.depth) ELSE None

(* A reader asks; `composed` counts those that composed and published.     *)
AskNode(o, f, t, d, g, original) ==
    /\ sources' = Published(o, f, t, d, g, original)
    /\ answer' = [text |-> t, depth |-> d, root |-> Node(o, f, t, d, g, original)]
    /\ composed' =
        LET known == IF o.maxDepth = sources.maxDepth THEN composed
                     ELSE [h \in Files |-> 0]
        IN  IF /\ ~Shared(o, f, t, d, g, original) /\ original = None
               /\ MayPublish(o, f, d, g) /\ known[f] < 2
            THEN [known EXCEPT ![f] = @ + 1] ELSE known
-----------------------------------------------------------------------------
Init ==
    /\ text \in [Files -> Texts] /\ \A f \in Files : text[f] \in Written[f]
    /\ depth \in Depths /\ retain \in BOOLEAN
    /\ sources = [entries |-> [f \in Files |-> None],
                  changed |-> [f \in Files |-> 0],
                  policyGeneration |-> 0, maxDepth |-> depth, generation |-> 0]
    /\ snapshots = [r \in Roots |-> None] /\ held = {}
    /\ missed = {} /\ composed = [f \in Files |-> 0] /\ answer = None

(* _touched(f): the snapshots that read f are dropped, and any of those in *)
(* error when f appeared (`failed`); what a consumer still has it keeps.   *)
Change(f, t, failed, kept) ==
    LET readers == {r \in Roots : snapshots[r] # None /\ f \in snapshots[r].read}
        dropped == {snapshots[r] : r \in readers \cup failed} \ {None}
        news == Recorded(sources, f, readers # {})
    IN  /\ sources.generation < MaxGeneration
        /\ text' = [text EXCEPT ![f] = t]
        /\ snapshots' = [r \in Roots |->
                            IF r \in readers \cup failed THEN None ELSE snapshots[r]]
        /\ kept \subseteq dropped /\ held' = held \cup kept
        /\ Cardinality(held') <= MaxHeld
        /\ sources' = Discard(sources, f, readers # {})
        /\ composed' = [composed EXCEPT ![f] = 0]
        /\ missed' = IF news THEN missed \ {f}
                     ELSE IF \E s \in held : f \in s.read THEN missed \cup {f}
                     ELSE missed
        /\ UNCHANGED <<depth, retain, answer>>

SetDepth(d) ==
    /\ sources.generation < MaxGeneration
    /\ depth' = d
    /\ UNCHANGED <<text, retain, sources, snapshots, held, missed, composed, answer>>

(* _parse(r), of a root without a snapshot.                                *)
Parse(r) ==
    /\ snapshots[r] = None
    /\ sources' = Configure(sources, depth)
    /\ composed' = IF depth = sources.maxDepth THEN composed
                   ELSE [f \in Files |-> 0]
    /\ snapshots' = [snapshots EXCEPT ![r] =
                        [root |-> r, read |-> Reads[r],
                         texts |-> [f \in Reads[r] |-> text[f]],
                         depth |-> depth, generation |-> sources'.generation,
                         asked |-> {}]]
    /\ UNCHANGED <<text, depth, retain, held, missed, answer>>

(* Workspace.source(f), given the tree of some current snapshot that read  *)
(* the same text under the same policy.                                    *)
Offers(f) ==
    {Original(s, f) : s \in {s \in Live : /\ f \in s.read
                                          /\ s.depth = depth
                                          /\ s.texts[f] = text[f]}} \ {None}
Source(f) ==
    LET o == Configure(sources, depth) IN
    /\ \E original \in (IF Offers(f) = {} THEN {None} ELSE Offers(f)) :
        AskNode(o, f, text[f], depth, o.generation, original)
    /\ UNCHANGED <<text, depth, retain, snapshots, held, missed>>

(* Hover._node(f) of a snapshot: asked once, then remembered; where it has *)
(* a tree that is no composition, it keeps to that.                        *)
HoverNode(s, f) ==
    /\ f \in s.read \ s.asked
    /\ ~(retain /\ f \in Synthetic)
    /\ AskNode(sources, f, s.texts[f], s.depth, s.generation, Original(s, f))
    /\ LET told == [s EXCEPT !.asked = @ \cup {f}] IN
        /\ snapshots' = [r \in Roots |-> IF snapshots[r] = s THEN told ELSE snapshots[r]]
        /\ held' = IF s \in held THEN (held \ {s}) \cup {told} ELSE held
    /\ UNCHANGED <<text, depth, retain, missed>>

(* The consumer of a dropped snapshot is done with it.                     *)
Release(s) ==
    /\ held' = held \ {s}
    /\ UNCHANGED <<text, depth, retain, sources, snapshots, missed, composed, answer>>

Next ==
    \/ \E f \in Files :
        \/ \E t \in Written[f], failed \in SUBSET Roots, kept \in SUBSET Live :
            Change(f, t, failed, kept)
        \/ Source(f)
        \/ \E s \in Live \cup held : HoverNode(s, f)
    \/ \E d \in Depths : SetDepth(d)
    \/ \E r \in Roots : Parse(r)
    \/ \E s \in held : Release(s)

Spec == Init /\ [][Next]_vars
-----------------------------------------------------------------------------
(* Properties.                                                             *)

(* What is stored is of the present policy and the present text of its     *)
(* file, however late a dropped snapshot asks for the tree of what it      *)
(* parsed: but for a change that came when no snapshot of the workspace    *)
(* read the file, while a consumer still had a dropped one that did        *)
(* (Sources.node, discard).                                                *)
EntriesCurrent ==
    \A f \in Files : sources.entries[f] # None =>
        /\ sources.entries[f].depth = sources.maxDepth
        /\ f \in missed \/ sources.entries[f].text = text[f]

(* One text is composed once for all current readers, the workspace and    *)
(* the hovers, in any order (test_service_source_cache.py).                *)
ComposedOnce == \A f \in Files \ missed : composed[f] <= 1

(* The cache is not seen: each reader is given the composition of the text *)
(* it asked about, and what is kept is what SourceStore allows.            *)
Store == INSTANCE SourceStore WITH
    stored <- [f \in Files |-> IF sources.entries[f] = None THEN None
                               ELSE sources.entries[f].text]
StoreSpec == Store!Spec
=============================================================================
