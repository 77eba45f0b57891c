# FastRAML in TLA+

TLA+ specifications of [FastRAML](../src), a RAML 1.0 parser, resolver and
language service in Python, with the TLC configurations that check them on small
instances and TLAPS proofs of some of their properties for every instance.
Paths below are relative to `src/`; `fragments.py:1323` is a line of
`src/fastraml/parser/fragments.py`, and `docs/07` is `src/docs/07-*.md`.

Each module models one component, from its source. Data are abstracted to what
the properties tell apart (a document is its kind, its links and whether it has a
mistake); control is kept: the guards, early returns and order of effects of each
handler, and the errors it may raise wherever what comes after depends on which it
was. What a module leaves out of its component is listed at the end.

## The system

A parse goes through the passes P1 to P10 of `docs/02`. Documents are composed,
decoded into fragments and linked (P1-P3), resource types and traits are merged
into endpoints (P4), URI parameters and security schemes are bound (P6, P5), the kind
of every declaration is settled (P7), annotations are bound (P8), types are flattened
along inheritance and their cycles marked (P9), and values are validated (P10). A *strict* parse raises the first stage's errors; a *lenient*
parse, which the language service uses, keeps what there is, **marks** what failed
(`Raml.broken`) and goes on. Above the parser are read-only views (OpenAPI export,
lint, backward comparison, join) and a long-running workspace with an LSP server.

| Component | State it keeps | Operations | What is hard | What makes it correct |
|---|---|---|---|---|
| GC tuning, `gctuning.py` | process-wide thresholds, a depth, what was saved | `tuned_gc` around each operation, `set_gc_tuning` | threads overlap without nesting; the host changes the thresholds without a lock | the host's thresholds come back; they are only raised; no restore under a running operation |
| Fragments, `parser/fragments.py` | cache by URI, failure and waiters of each fragment, marks | `parse_fragment`, `decode_fragment`, `resolve_uses`, `refer`, `_settle` | documents import one another in cycles; a link meets a fragment whose failure is not known yet | each is decoded once; a link is marked iff its fragment failed; each problem is reported once; it ends |
| Entry and passes, `parser/entry.py`, `registry.py` | stage, accumulated errors, marking scopes | stages, `recover`, `mark` | one failure in nested scopes; partial models go on to later passes | what is reported is what ran and failed; a mark holds all that failed in and below its entity |
| Endpoints P4-P6, `endpoint_build.py`, `source_decode.py`, `security.py` | the resources by URI, URI parameters, `securedBy:` references and what they are bound to | decode, `_walk`, `apply_security_schemes` | URIs that collide at any depth, failures several entities down, references shared by the methods that inherit them | parameters follow the path; a reference is bound or marked |
| Overlays, `parser/extensions.py`, `extension_merge.py`, `structural_merge.py` | the chain, the tree, who wrote each node | load, merge and check, `uses:` along the chain | merges see the effect of earlier ones; one thing has several spellings; the check is a side effect of the merge | an accepted Overlay changes nothing but what it may; each node is resolved where its author sees; merging again changes nothing |
| Templates, `parser/resourcetypes.py`, `traits.py`, `templates.py`, `structural_merge.py`, `endpoint_build.py` | the source form of each resource and method, visited and seen names, bound references, failures | `apply_resource_type`, `merge_resource_type_into`, `apply_traits`, `_bind_unapplied`, `_resolve_directives` | chains and cycles of types; a trait reached by several routes, nested, under several names; a failure in the middle of a chain or several resources down | the closest declaration and the closest reference win; nothing named is lost; failures reach what holds them |
| Shape resolution P7, `types/resolve.py` | worklist, `_visiting`, chain failures, marks | `resolve_shapes`, `resolve_shape`, `attach_kind` | declarations are settled out of order, on the way to others; failures several calls deep; a depth ceiling | kinds are by definition and not by order; what has none is marked; linear work |
| Unwrap P9, `types/unwrap.py`, `inherit.py` | containers shared or copied, `_unwrapped`, `_visiting`, `failed` | `_unwrap`, `_fail_what_reached_a_failure`, `_finish` | shapes are flagged before they are whole; aliases share containers; cycles | what is flagged is whole; flattening is by definition; the marked graph has no cycle |
| Narrowing, `types/inherit.py` | - | `inherit` per kind, unions | distribution over union members | a subtype accepts no more than its parent |
| Validation P10, `types/validate.py` | compiled validators | validate a value | unions, discriminators, markers | a value is accepted iff a member accepts it |
| Workspace, `service/workspace.py` | buffers, roots, snapshots, last reads | `open`, `change`, `close`, `changed_on_disk`, `snapshot`, `serving`, `readers` | lazy parses, notices that come late, a file looked for and absent, incremental roots | a snapshot is what a parse would give now; roots are what a discovery finds |
| LSP server, `service/lsp.py` | pending files, a timer, what each root showed | notifications, parser tier, lint tier, `publish` | changes between two tiers; files shared by roots; roots found after the change | once settled the client shows what there is to show, and nothing else |
| Source owner, `service/source.py` | composed trees by URI, generations, the changes it keeps account of | `configure`, `discard`, `node` | snapshots ask for the trees of what they parsed long after they were dropped; changes of files nobody seems to read | what is kept is the present text's; a reader is given the tree of the text it asked about |
| Views, join, lint, comparison, CLI | none of their own | read a finished model | - | equality with a definition |

The entry points call the passes in order (`registry.py`), the passes share the
model's objects and its marks, the workspace calls a lenient parse through an
overlay of buffers over files, and the server calls the workspace from one event
loop. Every operation of the parser and of the workspace runs under `tuned_gc`.

The full list of components with their files, and the list of hazards with their
lines and the properties aimed at them, are in `PROJECT.json`.

## Modules

| Module | Models | State and actions |
|---|---|---|
| `GcTuning` | `gctuning.py`, all of it, and a host | `threshold`, `gcEnabled` are the collector's; `enabled`, `depth`, `saved`, `ours` the module's globals; `lock` is `_lock`. `_enter` is `Enter`, `Raise`; `_leave` is `Leave`, `Restore`: the host can act wherever the code makes two calls of `gc`. The host is `HostSets`, `HostSetsYoung`, `HostSwitches`. |
| `FragmentCache` | the decoding recursion of `parser/fragments.py` | A stack of frames. `FollowCached`, `FollowRefused`, `FollowNew` are the outcomes of `parse_fragment` for the next link; `EndBody` and `Return` are the two times a fragment settles. |
| `ParseRead` | what a lenient parse reads (`entry.py`, `fragments.py`, `includes.py`, `extensions.py`) | Operators only: `Parse(view, root)` gives model or none, error, texts kept, files read, from a view of the files. |
| `Workspace` | `service/workspace.py`, over `ParseRead` | One action per operation: `Open`, `Change`, `Close`, `ChangedOnDisk`, `Serve`, `AskFor`, `AllReaders`; others write the disk (`Write`, `Delete`), and the notice comes later. `serving` is a generator: `Serve` may be left at any snapshot it yields. |
| `Publishing` | `service/lsp.py`, over `ParseRead` and the workspace's promise | `DidOpen`, `DidChange`, `DidClose`, `Watched` are handlers; `ParserTier`, `LintTier` are `_flush` at its two stages, with the whole of `publish` in each. |
| `ShapeResolution` | P7, `types/resolve.py` | A stack of `resolve_shape` calls over a worklist that grows. `Take` is a turn of `resolve_shapes`; `Follow...` are the outcomes of a call for the next referent, in the order of its checks; `Settle`, `SettleFaulty` are `attach_kind`; an error unwinds the whole stack in one step, marking on the way. |
| `Unwrap` | P9, `types/unwrap.py`, and what `inherit.py` does to properties | Containers with identity: an alias takes its referent's, and its `parents`; a subtype copies. `Declare`, `Follow`, `FollowFailed`, `Reject`, `Merge` are `_unwrap`; `Carry` is `_fail_what_reached_a_failure`; `FinishDeclared`, `Mark`, `PassMarker`, `Descend`, `Leave` are `_finish`. |
| `Templates` | the pass between the two stages of the endpoint build: `endpoint_build.py`, `resourcetypes.py`, `traits.py`, what they need of `templates.py`, `source_ir.py`, `structural_merge.py` | `path` is the recursion of `_resolve_directives`, `chain` that of `apply_resource_type`. `CompileType`, `FailType`, `EndChain` go down the chain, `MergeType` back up; `StartMethod`, `SkipTrait`, `ApplyTrait`, `FailTrait`, `NextDistance`, `EndMethod` are the loops of `apply_traits` and `BindUnapplied` its end; `Descend`, `Return` are the resources below. Content is who wrote each facet. |
| `SourceStore` | what the owner of composed trees promises | Abstract: `text`, what is `stored` of each file, the last `answer`. `Change`, `Ask`, `Forget`. |
| `SourceCache` | `service/source.py`, with the workspace that owns it and the snapshots that use it | `sources` is the object, with its entries, the generation of each recorded change, and the policy. `Change` is `Workspace._touched`, `Parse` and `Source` its readers, `HoverNode` is `Hover._node` of any snapshot, the dropped ones (`held`) too. Refines `SourceStore`. |
| `Passes` | `parser/entry.py`, stages and marks of `registry.py`, `endpoint_build.py`, `source_decode.py`, `security.py` | `step` is where the driver is. `Whole` is a stage known by its faults only; `Sources`, `Open`, `Close` decode the entities inside `marking` scopes; `Visit`, `Return` are the recursion of `_walk`, with the URI parameters of each resource, a dictionary in order (`Resolution`: merged, or only declared where the path raises); `Inherit`, `Bind` are P5. `EndOf` is the end of every stage: raised, recovered or sound. |
| `ExtensionMerge` | `parser/extension_merge.py`, `syntax.py`, the unions of `structural_merge.py` | Operators only, recursive over trees: `MergeExtension` gives the tree, the Overlay errors and the names declared. A node carries who wrote it and whom the merge says wrote it. |
| `ExtensionChain` | `parser/extensions.py`, over `ExtensionMerge` | `Load` follows `extends`, `Apply` merges the next document, `ResolveLibraries` combines the `uses:`; the properties compare with a definition of what a tree says in whatever spelling (`Core`). |
| `FragmentCache_proofs`, `Passes_proofs`, `Templates_proofs`, `ShapeResolution_proofs`, `Unwrap_proofs`, `SourceCache_proofs`, and `Service_proofs` (of `Workspace` and `GcTuning`) | - | Theorems and proofs. |
| `SequenceSets` | - | Lemmas on sequences and stacks that five of the proofs share. |
| `MC...` | - | Instances for TLC. |

Composition. `Workspace` and `Publishing` extend `ParseRead`, which tells them
what a parse depends on. `Publishing` takes of the workspace the promise that
`Workspace!SnapshotsFresh` and `Workspace!RootsAsDiscovered` check: its
snapshots are parses of the current view. `SourceCache` takes the same part of
the workspace from its other side: which snapshots there are, and who is told of a
change. `Passes` is the driver, with the two stages between decoding and
types in detail; `FragmentCache` and `ExtensionChain` are inside its `DECODED`,
`Templates` inside its `Sources` (a template that fails is a fault there),
`ShapeResolution` and `Unwrap` are its `RESOLVED` and `UNWRAPPED`. `ShapeResolution` and `Unwrap` are
the two passes a model goes through in this order; `ShapeResolution`'s
`EdgesAcyclic` is what lets `Unwrap` assume that references between declarations
end (`DeclaredLinks`, `ThreeLinks` of `MCUnwrap`), the remaining cycles going
through properties.

Recursion of the code is a stack of frames; recursion over data is a recursive
function or a fold, so that the modules can be reasoned about with TLAPS.
`ExtensionMerge` is the exception: the recursion of a merge of trees is over the
trees, in `RECURSIVE` operators, and nothing is proved of it.

## Runs

`Deadlock` is checked except in the two passes, which really stop when they have
returned (`ShapeResolution`, `Unwrap`), and where a parse is over (`Passes`,
`ExtensionChain`); `FragmentCache` and `Templates` have an explicit end.

| Run | Instance | What it shows |
|---|---|---|
| `gc_tuning` | three operations, two young thresholds, generation 2 thresholds 1, 3, 4 around FastRAML's 3 | `HostThresholdsBack`, `OnlyRaises`, `NoRestoreUnderAnother` for every overlap with a host |
| `fragment_cache` | every document set of an API, two libraries and a trait: missing, unreadable, wrong or sound, importing one another in every order, cyclically and as the wrong kind | `DecodedOnce`, `MarkedIffFailed`, `LinkedAsItStands`, `EveryProblemReportedOnce`, `Terminates` |
| `workspace` | an API, a library, an overlay not listed by a folder, a file outside; the library changes on disk; every text of a buffer changes a header or a link | `SnapshotsFresh`, `RootsAsDiscovered` |
| `publishing` | two APIs, a library they may share, a trait that may be deleted | `ShownAsItIs`, `Settles` |
| `publishing_shared` | the same | violates `FindingsShownAgain` (disagreement 2) |
| `shape_resolution` | four declarations that name one another, a known kind and an unbound name; one may be written under another, one may be faulty; a ceiling of 1 and one of 5 | `KindsByDefinition`, `MarkedIffUnsound`, `WalkedOnce`, `Terminates` |
| `unwrap` | two declarations with up to three nested shapes and at most one rejected merge; three declarations in every order with up to two nested | `FlaggedAreWhole`, `FlattenedOutsideCycles`, `ReportedOnce`, `WalkEnds`, `MarkersCloseCycles`, `Terminates` |
| `templates` | a resource and one below it, two types that may name each other, an unknown type or neither, with optional methods and a parameter; two traits in libraries that import each other, where one definition has two names; an unknown trait | `MethodsByChain`, `ClosestWins`, `BoundOrReported`, `FailuresPassThrough`, `Terminates` |
| `templates_chain` | the same | violates `ChainTraitsKept` (disagreement 1) |
| `source_cache` | an API that reads a library of two texts, one of which composes at the greater depth only; one dropped snapshot held at a time; three generations | `EntriesCurrent`, `ComposedOnce`, and `StoreSpec`: it implements `SourceStore` |
| `passes` | five resources, one below one, two below one another under a second, three methods and a response; up to three faults of every kind anywhere, strict or lenient, with and without P9 and P10; every way for their paths, of five, to collide, one of which repeats a variable; up to three paths below one another that are not well formed, with and without declared parameters; every `securedBy:` of five at three levels | `ReportedAsRun`, `MarkedAsFound`, `UriParametersByPath`, `BoundOrMarked` |
| `extension_chain` | an API, a document over it and one over that, with every pair of the spellings a type, a method, traits and their names may have; `uses:` of one prefix; chains that do not load | `OverlayChangesNothing`, `AuthorsKnown`, `SeenAlongTheChain`, `RestatedUnchanged` |

Why the bounds are enough for the questions asked:

- `GcTuning`: what an operation does depends on being first, last or neither, so
  three operations show every overlap; the thresholds are one below, equal to and
  above the raised one, because the code compares with it and with equality only.
  Operations are symmetric. `depth` is bounded by the operations.
- `FragmentCache`: a hazard needs a cycle, a link into it from inside and one
  from outside, a failure before and after each; two libraries that import
  themselves and each other, reached from an API and through an included trait,
  have all of these. No counter is bounded: a parse ends.
- `Workspace`: two roots, one of them read through the other, one file that changes
  in every way on disk and in a buffer. Texts are a few, chosen so that a change
  alters a header, a link kind, or neither.
- `Publishing`: two roots are what sharing needs; one file goes from shared to
  not and back, and one from included to missing.
- `ShapeResolution`: four declarations give chains of three references, above a
  ceiling of 1 and below one of 5, cycles of two and three, and joins.
- `Unwrap`: two declarations and three nested shapes give a cycle through a
  property, an alias that shares its container, and one more route into either;
  three declarations add a subtype of an alias and an order of arrival.
- `Templates`: two types give a chain, a chain that closes on itself and one that
  breaks at its end; two traits give a nested trait, one reached directly as well,
  and a cycle under a second name; a resource above and one below, each with and
  without a type, tell where a failure belongs. One parameter is missing,
  supplied or superfluous, in a method kept or dropped.
- `SourceCache`: one file that changes and one root that reads it; a stale reader
  needs a parse, a change and its question, and three generations give it another
  change in between, or a change of policy, in any order.
- `Passes`: two resources at the top and one below each are what a collision within
  a tree, across trees and below a loser needs; three below one another are a path
  that is not well formed with one above whose parameters are lost and one below that
  loses them, and two such paths; two faults in one line of entities and one more
  show what a mark joins; `securedBy:` at all three levels, with a
  name that is unbound, null, of a broken scheme, of a scheme without scopes.
- `ExtensionChain`: two documents over the API are what makes the second see the
  first's work, and what a name declared between the two needs.

One type invariant is kept where it is the ground of a proof (`GcTuning`,
`FragmentCache`; `SourceCache_proofs`, `ShapeResolution_proofs`, `Templates_proofs`,
`Unwrap_proofs` and `Passes_proofs` have their own). `MarkedIffUnsound`,
`WalkedOnce`, `ClosestWins`, `ShownAsItIs` and `MarkedAsFound` are each the
conjunction of two properties named in their modules, with a mutant for either half.

### Fairness

`FragmentCache`, `ShapeResolution`, `Unwrap` and `Templates` are sequential passes:
`WF_vars(Next)` says only that a call that can go on does, until it returns.
`Publishing` has `WF_timer(GoesOff)`: `loop.call_later` runs a timer that is not
cancelled, and the next change cancels it; so `Settles` assumes that changes stop
(`<>[][GoesOff]_vars`). Users, the disk and the host are never fair. `GcTuning`,
`Workspace`, `SourceCache`, `Passes` and `ExtensionChain` claim no liveness.

## What is proved

TLAPS checks these for every value of the constants.

**`Service_proofs`** holds the theorems of `GcTuning` and of `Workspace`: the command
`lsp` runs the whole server, and with it every operation of the workspace, inside one
`tuned_gc` (`cli/serve.py:48-63`).

*The collector's tuning*, `TuningSpec`, from `SpansAssumption`, `ThresholdAssumption` and
`NoneAssumption`. The properties are not inductive: whether leaving restores what
the host wants depends on how the count, the lock, `_saved`, `_ours` and the
thresholds in force are related while operations are anywhere between. The
inductive invariant (`TuningInductive`) says:

- `DepthIsRunning`: `_depth` is the number of operations entered and not left (lemma
  `CountRunning` counts the set as one joins or leaves);
- `LockHeld`: the lock is held exactly by the operation between two calls of `gc`;
- `RaisingInv`, `RestoringInv`: what that operation has read and will write;
- `SavedInv`: with nothing running nothing is saved; while something is saved,
  `_ours` is `_saved` raised, and `_saved` was below FastRAML's threshold;
- `Attributable`: unless a host's change cannot be told from FastRAML's own
  (`blurred`), the host's thresholds are the saved ones while `_ours` is in force and
  the current ones otherwise.

From it `TuningTypeCorrect`, `HostThresholdsBackHolds`, `OnlyRaisesHolds` and, as an action
property, `NoRestoreUnderAnotherHolds`. `host` and `blurred` are ghosts: what the host
last asked for, and whether it made a change that no comparison could attribute (it set
exactly FastRAML's thresholds, changed a part of them while they were in force, or
acted between the read and the write under the lock, which it does not know of).
The last of these is documented in the code's terms only: thresholds are compared as
a whole (`gctuning.py:89`), so a change of a young one hides that the other is
FastRAML's.

*The workspace*, `Spec`. `SpecRootsAsDiscovered`, from no assumption: a change of one file
never makes another one a root, so the incremental decision is right if each file is
decided again whenever its header may have changed: the proof has one case for each
operation that may. `SpecSnapshotsFresh`, from `TextsAssumption`: what a parse gives depends
on the files it looked at (`ParseLocal`; what the links lead to is a least set, so a
closed set of files that look the same in two views is followed the same way,
`ClosureSame`), and it looks for a file that is not there only if it fails. So the
snapshots dropped when a file changes, its readers and, when it appeared, those that
failed, are all that depended on it. Files changed without a notice yet and files read
without being recorded (disagreement 3) are excepted in the property itself.

**`FragmentCache_proofs`**, from `CorpusAssumption`, `FilesAssumption` (a document is not
a link) and `EntryAssumption`, for any document set, in three layers, with one lemma per
action in each:

- `CacheInductive`: the cache is exactly what has been decoded and nothing was decoded
  twice (`Cached`); each frame under the innermost stands at a link of its document, the
  one its inner frame was opened for (`Suspended`, without which the link that `Return`
  sets would not be known to be one); a document has waiters only while it is on the
  stack and has not failed (`Waits`). It gives `CacheTypeCorrect` and `DecodedOnceHolds`.
- `MarksInductive`: `MarkedIffFailed` and `LinkedAsItStands` speak of the end of the
  parse; what is inductive is about the links followed so far (`Followed`): each is
  marked iff nothing answers it or its fragment has failed *by now*, linked iff something
  answers it and there is something in that to link (`Given`: an included document that
  did not compose has no definition), and among those its fragment will tell while that
  is not known (`Right`);
  nothing else is marked, linked or waits (`OnlyFollowed`). To keep it, no document may
  be on the stack twice (`Apart`), each frame must be the decode of the link under it
  (`Opened`), and one that has failed must still hold the errors it failed with
  (`Failing`): otherwise its second settling would take the failure back. `SettleMarks`
  is the heart: a failure that becomes known reaches exactly the links that met it before.
- `ProblemsInductive`: what the frames and the report hold together are the problems found
  so far (`Held = Found`), each once (`HeldOnce`), and only what the entry reaches is in the
  cache. At the end everything followed from the entry is in the cache, a closed set,
  so it is all that `Reachable`, a least set, requires: `EveryProblemReportedOnceHolds`.

**`SourceCache_proofs`**, from the assumptions of `SourceCache`, for any files, roots,
texts, depths and bounds. `EntriesAlwaysCurrent` and `ImplementsStore`: every step of the
cache is a step of `SourceStore` or leaves it as it is, under the mapping that forgets
generations and policies. An entry is the present text's because a reader may publish
only if its file has not changed since its snapshot's generation, but changes are
recorded only for files in use. So the invariant must say that every snapshot is from
a generation that has been (`SnapshotsPast`), and that one whose generation is not older
than the last *recorded* change of a file it read either read the present text or the
file is `missed` (`RecentKnowText`). `missed` is a ghost: the files changed while no live
snapshot and no entry had them but a dropped snapshot did. For those the docstring of
`Sources.node` (disagreement 7) does not hold, and `SourceStore` says so.
`SpecComposedOnce`: a current reader that composes a text leaves it stored, and what takes
it out again (a change, a policy, a reader of another text) starts the count anew
(`CountInv`), so nobody composes it twice.

**`ShapeResolution_proofs`**, from `CorpusAssumption`, for any declarations, worklist
and ceiling. `KindsByDefinition`, `EdgesAcyclic` and `Resolvable` are least sets,
written as what is in every closed set. They are reached from below: `Settle` comes when
all that the shape on top names is settled, so every closed set that has those has it
too (`SettledKinds`), and a shape that was not settled was in no settled one's
references, so the new ones close no cycle (`SettleStep`). What makes this inductive is
that the stack is a path of names (`PathOfNames`): each call is in a name of the call
it is inside of, and the names before that one are settled. Together with
`NoneStuck` (no declarations hold one another up in a model without mistakes) the same
path shows that an unbound name or a cycle cannot be met there, so the only errors are
chains too long, and every shape such an error passes keeps it (`OnceOnly`): none is
walked again. `AllAttended` gives that a declaration without a kind is marked
(`SpecUnknownIsMarked`). For the other half, that what leads to nothing wrong is not
marked, every mark and every failure kept must have its reason (`MarksFounded`,
`FailuresLong`): the shape leads to something wrong, or a chain of names longer than
the ceiling starts there, and the calls on the stack are such a chain (`StackLeads`).
Theorems: `SpecKindsByDefinition`, `SpecWalkedOnce`, `SpecMarkedIffUnsound`.

**`Passes_proofs`**, from `KindsAssumption`, `TreeAssumption` (each entity stands in one
place below the API) and `CorpusAssumption`, for any tree, documents and options. `Orderly`
says what the driver's variables are and in which order its steps come. `Below`, what stands
below an entity, is a least set; lemmas `BelowHolder`, `NoneBelowItself` and those next to
them take the place of an induction over the tree. `Pathed`: what is being decoded is a path
from a resource at the top, and what has been closed holds only what has been closed.

- `SpecReportedAsRun` (`Reported`). The property is of the end of a parse; what is inductive is
  that every problem found so far is told, or kept by the stage or by an entity still
  open (`Collected`, `Gathered`), so that whichever way an entity or a stage ends,
  by raising, recovering or noting, nothing is let go. Conversely what is kept, or in
  a mark, was found (`Justified`). The stages completed and the present one are a chain
  (`Chained`), and a parse that stopped has errors and the outcome they call for
  (`Concluded`).
- `SpecMarkedAsFound`, while decoding: what a closed entity is marked with (`Mine`), and of an
  open one both what is marked already (`Noted`) and what it will fail with (`Fails`), which
  depends on which of what it holds is closed (`MarkedInside`). While registering: the walk
  is a path from the resource at the top whose turn it is (`Walked`); what is to come is
  `Untouched`, what is behind is `Settled`, and a frame holds a failure exactly if its
  resource, or one below it that is behind, lost its URI (`FrameMarked`, `WalkMarked`).
- `SpecUriParametersByPath` (`WalkResolved`): what is on the walk, and all that is behind,
  has the parameters of the path its enclosing resources make up (`ByPath`), so that
  `Visit` need only add its own part (`MergedByPath`). A parameter that is written again
  keeps its place and changes its owner. `AddedFacts` says in which order names come that
  are put behind others one by one: each at the first place where the path has it. A
  resource whose path is not well formed starts anew with what it declares
  (`DeclaredByPath`): none above it counts for it or for what is below (`CountedAnew`).
- `SpecBoundOrMarked` (`ReferencesBound`): until references are bound none is; from then on
  each in force is bound, marked or still to come, the lists in force do not change, and
  one that has its scheme is marked with what is wrong with it (`BoundWell`). The last of
  these needs that no scheme is marked after decoding.

**`Templates_proofs`**, from `TreeAssumption` (the resources are a tree), `CorpusAssumption`
(also: `post?` is no method of a resource, only of a type), `NoneAssumption` and
`TraitsAssumption` (finitely many traits, so that the property's distances are bounded),
for any tree, templates and references, in six layers: types
(`TypedInv`); the way down the tree, what has been left and what has not been entered
(`Branch`); then one for each theorem.

- `SpecMethodsByChain` (`MethodsInv`): what has not been entered is as declared; what is in
  compilation and what is left of it to merge bring, together with the resource as it
  stands, exactly the methods its types promise (`ChainBrings`); what has its types has
  them (`HasMethods`). A failure in the chain leaves the resource as declared.
- `SpecClosestWins` (`ClosestInv`): while types are compiled and merged, each layer of the
  chain stands for itself, the last for all that was merged into it, and the resource for
  itself: its methods are those the parts it stands for have, and each facet is of the
  first of these parts that writes it (`Layered`, lemma `MergeStands`). An optional method
  is one whose run of parts begins at a part that requires it (`Having`), which needs no
  recursion. When traits begin, the resource stands for all its parts, and traits leave
  that as it is (`Stays`). For the traits there are distances `L` of those applied
  (`Distances`): zero is what is named directly, each further one is nested in one a step
  nearer, none is nested in one more than a step nearer, and what an applied trait nests
  is taken, queued or `nested`, by its own distance. Since what is applied next is at
  least as far as all that is, a facet taken first is from a nearest writer (`Adds`), and
  a name taken first is from the closest reference (`DirectFirst`). The property compares
  with two recursive functions (`Has`, `Within`); they agree with `Having` and with `L`
  because a least disagreement would have a smaller one (`LeastNumber`, from the
  library's `WFMin` for sets).
- `SpecBoundOrReported` (`RefsInv`): in the resource whose traits are applied every reference
  is settled, queued, nested one distance further or of a method still to come
  (`ApplyingHere`); in what is past, everything is (`SettledRefs`). The references of a
  trait reach a method with the trait, so what is `nested` has to be among them.
- `SpecFailuresPassThrough` (`FailuresInv`): what is done knows the failures in it and in what
  is done below (`KnownWhereHeld`), what failed in a method is noted there
  (`KnownWhereWritten`). `Holds` is a least set over the tree.

**`Unwrap_proofs`**, from `CorpusAssumption` and `WrittenAssumption` (a shape not written
in place below a declaration is empty), for any declarations and corpus.
`FlaggedAreWhole` speaks of the end of the walk; during it a shape may be flagged, and
even finished, while what it holds is still to be walked in the container of a shape
further out. The invariant follows what a shape names *as declared* (`Leads`): what a
finished shape leads to was reached (`DoneReached`), what a call on the stack leads to
was reached or is still to be followed (`CallsOpen`), and no container or list of
parents ever gets anything from outside what its shape leads to (`Contained`, for every
closed set of shapes). `Carry` removes the flags of what reached a failure, so that in
the end the flagged shapes are closed under `Leads`, and by `Contained` under what they
hold. `SpecReportedOnce` rests on `FailuresReported`.

- `SpecFlattenedOutsideCycles`: `Ending` is a least set, and `Flattened` one law between
  a shape and what it is merged from, so it is enough that each finished shape obeys
  it (`SettledFlat`), that none unfinished was touched (`Fresh`), and that the
  parent is finished when a shape is merged. Outside cycles it is (`MergedLast`): were
  it still open, its call would be further out, and the calls in between, each in what
  the one before leads to (`Walking`), would lead from it back to itself; a set in which
  each leads to another of them has none that ends (`NoEndAmong`).
- `SpecWalkEnds` and `SpecMarkersCloseCycles`: while cycles are marked, what a call of
  `_finish` has passed ends, or is marked, or is the next call (`Passed`); what was left,
  or named by a marker, ends or is being visited (`Met`); and whatever is on the stack is inside
  all that is further out (`Enclosed`). Marking another edge takes nothing out that a
  marker relies on, for the head of a marker has the container of the shape whose place
  it takes (`InsideKept`, from `Sharing` and `InPlace`).

Only model-checked: all liveness (`Terminates`, `Settles`), which TLAPS does not
prove under fairness; everything of `ExtensionChain`, whose merge is recursive over data,
in `RECURSIVE` operators; and `ShownAsItIs` of `Publishing`, which is not true of every
value of its constants: a deletion of a library in use, or a change of its kind, leaves
something shown that is not so (disagreement 4; and 10), and the instance leaves those out.

## What disagrees

The first two are runs that TLC finds violated; `PROJECT.json` quotes the lines.
The others were met while modelling, and are what the properties above make
exception of; no run is spent on them.

1. `resourcetypes.py:325` and `343`. When a resource type has a `type:` of its own, its
   parent's traits are put in the `rt_traits` of the compiled child, and merging the
   child into the resource takes the child's `traits` only: what the parent names in
   `is:`, for the resource or for a method the resource declares too, is lost. It is
   neither applied nor bound, and a name that matches nothing is not reported.
2. `lsp.py:252`. When one of two roots stops using a library they share, the parser tier
   clears the other's lint findings in it and the lint tier does not bring them back.
3. `workspace.py:531`. A file that a parse read and rejected for its kind is not in
   `Snapshot.read` ("every file the parse read or tried to read", `workspace.py:105`);
   when a buffer turns it into what the link wants, the snapshot stays.
   `SnapshotsFresh` sets those files apart.
4. `lsp.py:219`. The roots a deletion concerns are sought after they stopped reading the
   deleted file, so their new error is not published (`lsp.py:188` says dependents are).
5. `unwrap.py:666`. With an alias of a recursive type declared first, the cycle is
   headed by the anonymous copy, which `docs/07:230-233` says never happens.
6. `endpoint_build.py:162`. Resources are registered while the stage runs, so after an
   `ENDPOINTS` that failed `endpoints` is what was registered before, where
   `docs/13:56-57` says it is empty until the stage finishes. And a resource that
   encloses two duplicates is marked with the first only.
7. `source.py:64`. A change of a file that no live snapshot read and no entry held is not
   recorded; a dropped snapshot that did read it may then publish its text, where the
   docstring of `node` says that an old snapshot cannot replace the current owner.
   `lookup` compares texts, so no reader is given the wrong tree: a miss is composed.
8. `extension_merge.py:267`. When a declaration map that is a scalar or `!include` is
   replaced whole, the names in the new one are not recorded as declared by the
   document, so nodes of the root API resolve them, against `docs/19` section 5.2. The
   corpus of `extension_chain` leaves this case out.
9. `endpoint_build.py:200`. A path that is not well formed (`/{v}/{a`) raises before the
   parameters are merged, and the resources below are handed what its resource declares:
   in the model of a lenient parse they, and it, are without the parameters of the
   resources above, where `docs/08` section 6.2 says that each endpoint exposes its
   ancestors' parameters first. `UriParametersByPath` states what the code does.
10. `lsp.py:235`. An open file with no header shows that it cannot be parsed. When a root
   comes to read it, or stops, only what the root showed or shows is sent: its own problem
   stays, or is not shown again, until the file itself changes, though "a file no root
   reads shows its own only while it is open" (`lsp.py:215`). The instance of
   `publishing` leaves such files out.

That types within a cycle are flattened as they stand, and so by order of
declaration, is documented (`docs/07` section 6, `docs/15` section 2):
`FlattenedOutsideCycles` is stated with that exception.

## What is not modelled

- In modelled components: the decoders of each section and JSON Schema data types
  (`fragments.py`); the include cache and size limits; in `ExtensionMerge`, the
  errors of a document in its own keys and `usage:`, the records of sections and
  of removed properties and the reports of changed annotation types; in `Passes`,
  what a stage other than P4-P6 does beyond its faults, synthesised parameters'
  types, source positions, hooks and limits;
  `roots` globs, `collect` and a change of folders in the service; parsing of type
  expressions and the shapes inside them (P7 sees the names in an expression);
  several parents, union distribution and collapse, facets other than properties,
  and the depth ceilings of P9; in `Templates`, the substitution of parameters,
  provenance marks, reserved parameters, the merge within one facet, empty
  definitions, and stage 2.
- Text: YAML composition, expression grammar, positions, wording of errors.
- Libraries: JSON Schema compilation, URLs and HTTP.
- Views: pure functions of a finished model, of which comparison, join and lint
  are worth definitions of their own.
- Command line, contributed packages and the viewer.

## Plan

Modelled so far: the service (`Workspace`, `Publishing`, `SourceCache`), the parse
from its documents to its flattened types (`FragmentCache`, `ExtensionChain`,
`Templates`, `Passes`, `ShapeResolution`, `Unwrap`), and the collector's tuning. Next,
in order of what it would say about the system:

1. `Narrowing` of `inherit.py`, over values: a subtype accepts what its parent
   accepts, several parents and union collapse included; it would give `Unwrap` the
   merges it now takes as rejected or not. The ceilings of P9 with it.
2. `Validate`, then `Compare`: a comparison that reports no break is one where every
   old value is accepted.
3. Join, lint suppression.
4. `Workspace` with the cache inside, and a parse at every query as its abstract
   specification.

Theorem to come: `ShownAsItIs` of `Publishing`, under an assumption that names the
libraries which stay.
