------------------------------ MODULE Workspace ------------------------------
(***************************************************************************)
(* fastraml/service/workspace.py: open buffers over the files on disk, the *)
(* roots, and one cached parse (a snapshot) per root, dropped when a file  *)
(* it read changes.  The disk is changed by others, and the workspace      *)
(* hears of it later (changed_on_disk).  Python dicts are functions with   *)
(* the present keys as their domain.  `_garbage` and `collect`, which free *)
(* memory and change no answer, are left to the module of the server.      *)
(***************************************************************************)
EXTENDS ParseRead, Naturals

CONSTANTS
    Inside,         \* the files in a workspace folder
    Listed,         \* those SafeFileLoader.files lists: a .raml name, no
                    \* hidden directory above
    Path,           \* the order of paths, a number for each file
    Written,        \* for each file, the texts others write to it
    Volatile,       \* the files others write, delete and give notice of
    Typed,          \* and the texts the editor holds for it
    Unknown         \* `None`, for _roots

ASSUME FoldersAssumption ==
    Volatile \subseteq Inside /\ Listed \subseteq Inside /\ Inside \subseteq Files
ASSUME PathAssumption ==
    Path \in [Files -> Nat] /\ \A f, g \in Files : Path[f] = Path[g] => f = g
ASSUME TextsAssumption == \A f \in Files :
    /\ Written[f] \subseteq Texts /\ Typed[f] \subseteq Texts
    /\ f \notin Inside => Written[f] = {}

VARIABLES
    disk,           \* the files on disk
    pending,        \* ghost: files changed on disk since the last notice
    buffers,        \* Workspace.buffers
    roots,          \* Workspace._roots, or Unknown
    snapshots,      \* Workspace._snapshots
    lastRead        \* Workspace._last_read

vars == <<disk, pending, buffers, roots, snapshots, lastRead>>

Drop(f, keys) == Restrict(f, DOMAIN f \ keys)
With(m, f, text) == Over([g \in {f} |-> text], m)

(* What a parse loads (_Overlay.load): a buffer first, and nothing outside *)
(* the folders.                                                            *)
View == Restrict(Over(buffers, disk), (DOMAIN buffers \cup DOMAIN disk) \cap Inside)

Refused(root) ==
    [raml |-> FALSE, error |-> TRUE, kept |-> Restrict(View, {}),
     read |-> {root}, seen |-> {}, lacked |-> {}]
Parsed(root) == IF root \in Inside THEN Parse(View, root) ELSE Refused(root)
Current(root) ==
    IF root \in DOMAIN snapshots THEN snapshots[root] ELSE Parsed(root)

(* _is_root: by the header of the buffer, or of the file in a folder.      *)
IsRoot(f) ==
    \/ OfKind(buffers, f, RootKinds)
    \/ f \notin DOMAIN buffers /\ f \in Inside /\ OfKind(disk, f, RootKinds)

(* _discover *)
Discover == {f \in (Listed \cap DOMAIN disk) \cup DOMAIN buffers : IsRoot(f)}

OnDisk == {f \in Files : Written[f] # {}}

Init ==
    /\ disk \in [OnDisk -> UNION {Written[f] : f \in OnDisk}]
    /\ \A f \in OnDisk : disk[f] \in Written[f]
    /\ pending = {} /\ buffers = Restrict(disk, {}) /\ roots = Unknown
    /\ snapshots = Restrict(disk, {}) /\ lastRead = snapshots
-----------------------------------------------------------------------------
(* Changes.                                                                *)

(* Mutant of Stale: a file that appears is no news to a failed snapshot.   *)
StaleReaders(f, appeared) == {r \in DOMAIN snapshots : f \in snapshots[r].read}

(* _touched: drop the snapshots that read f; where f appeared, also those  *)
(* that failed, perhaps for want of it.                                    *)
Stale(f, appeared) ==
    {r \in DOMAIN snapshots :
        f \in snapshots[r].read \/ (appeared /\ snapshots[r].error)}
Touched(f, appeared) ==
    LET stale == Stale(f, appeared) IN
    /\ snapshots' = Drop(snapshots, stale)
    /\ lastRead' = Over([r \in stale |-> snapshots[r].read], lastRead)
Untouched == UNCHANGED <<snapshots, lastRead>>

(* _classify, after the change of `buffers`: f is a root or not, decided   *)
(* again for f alone.                                                      *)
Classify(f) ==
    roots' = IF roots = Unknown THEN Unknown
             ELSE IF IsRoot(f)' THEN roots \cup {f} ELSE roots \ {f}

(* text(f), when f is not open: what a current snapshot kept, else the     *)
(* file.  {} stands for None, {text} for a text; of several snapshots that *)
(* keep f the code takes the oldest, the model any.                        *)
Keepers(f) == {r \in DOMAIN snapshots : f \in DOMAIN snapshots[r].kept}
ClosedText(f) ==
    IF Keepers(f) # {} THEN {{snapshots[r].kept[f]} : r \in Keepers(f)}
    ELSE {IF f \in Inside \cap DOMAIN disk THEN {disk[f]} ELSE {}}

(* open and change: _put.                                                  *)
Put(f, text, before) ==
    /\ buffers' = With(buffers, f, text)
    /\ UNCHANGED <<disk, pending>>
    /\ IF f \notin DOMAIN buffers \/ buffers[f].kind # text.kind
       THEN Classify(f) ELSE UNCHANGED roots
    /\ IF before # {text} THEN Touched(f, before = {}) ELSE Untouched

Open(f, text) ==
    /\ f \notin DOMAIN buffers
    /\ \E before \in ClosedText(f) : Put(f, text, before)
Change(f, text) == f \in DOMAIN buffers /\ Put(f, text, {buffers[f]})

(* Mutant of Close: the header of the file on disk is not looked at.       *)
CloseUnclassified(f) ==
    /\ f \in DOMAIN buffers
    /\ buffers' = Drop(buffers, {f})
    /\ UNCHANGED <<disk, pending, roots>>
    /\ Touched(f, FALSE)

Close(f) ==
    /\ f \in DOMAIN buffers
    /\ buffers' = Drop(buffers, {f})
    /\ UNCHANGED <<disk, pending>>
    /\ Classify(f)
    /\ Touched(f, FALSE)

ChangedOnDisk(f) ==
    /\ roots' = Unknown
    /\ Touched(f, TRUE)
    /\ pending' = pending \ {f}
    /\ UNCHANGED <<disk, buffers>>

(* Others write or delete f; the notice is still to come.                  *)
Write(f, text) ==
    /\ disk' = With(disk, f, text)
    /\ disk' # disk
    /\ pending' = pending \cup {f}
    /\ UNCHANGED <<buffers, roots, snapshots, lastRead>>
Delete(f) ==
    /\ f \in DOMAIN disk
    /\ disk' = Drop(disk, {f})
    /\ pending' = pending \cup {f}
    /\ UNCHANGED <<buffers, roots, snapshots, lastRead>>
-----------------------------------------------------------------------------
(* Queries.                                                                *)

Roots == IF roots = Unknown THEN Discover ELSE roots
BringCurrent(rs) ==
    /\ roots' = Roots
    /\ snapshots' = Over(snapshots, [r \in rs |-> Parsed(r)])
    /\ UNCHANGED <<disk, pending, buffers, lastRead>>

(* _order, and the place of a root in serving(f).                          *)
Order(r, f) ==
    LET read == IF r \in DOMAIN snapshots THEN snapshots[r].read ELSE lastRead[r]
    IN  IF r = f THEN 0
        ELSE IF r \notin DOMAIN snapshots \cup DOMAIN lastRead THEN 2
        ELSE IF f \in read THEN 1 ELSE 3
Before(r, s, f) ==
    \/ Order(r, f) < Order(s, f)
    \/ Order(r, f) = Order(s, f) /\ Path[r] <= Path[s]

(* serving(f), left by its consumer at one of the snapshots it yields, or  *)
(* run to its end.                                                         *)
Readers(f) == {r \in Roots : f \in Current(r).read}
Serve(f) ==
    \E readers \in {Readers(f)} :
        \/ \E last \in readers : BringCurrent({r \in Roots : Before(r, last, f)})
        \/ BringCurrent(Roots \cup (IF readers = {} THEN {f} ELSE {}))

(* snapshot(f), which its callers ask of a root.                           *)
AskFor(f) ==
    /\ roots # Unknown /\ f \in roots
    /\ snapshots' = Over(snapshots, [r \in {f} |-> Parsed(r)])
    /\ UNCHANGED <<disk, pending, buffers, roots, lastRead>>

(* readers() is BringCurrent(Roots), a Serve whose file every root reads.  *)
AllReaders == BringCurrent(Roots)

Next ==
    \/ \E f \in Files :
        \/ \E text \in Typed[f] : Open(f, text) \/ Change(f, text)
        \/ Close(f) \/ Serve(f) \/ AskFor(f)
    \/ \E f \in Volatile :
        \/ \E text \in Written[f] : Write(f, text)
        \/ Delete(f) \/ ChangedOnDisk(f)
    \/ AllReaders

Spec == Init /\ [][Next]_vars
-----------------------------------------------------------------------------
(* Properties.                                                             *)

(* What a snapshot looked at without recording it, the file being there: a *)
(* file of the wrong kind for the link that led to it.                     *)
Unrecorded(s) == s.seen \ (s.read \cup s.lacked)

(* A snapshot still held is what a parse would give now, for any sequence  *)
(* of edits, notices and queries: unless one of the files it looked at has *)
(* changed on disk without a notice yet, or was read but is not recorded   *)
(* (_touched, _put, close; docs/21 section 2).                             *)
SnapshotsFresh ==
    \A r \in DOMAIN snapshots : LET s == snapshots[r] IN
        s.seen \cap pending = {} /\ Unrecorded(s) = {} => s = Parsed(r)

(* The roots kept from one discovery, adjusted file by file as buffers     *)
(* open, close and change their header, are those a new discovery would    *)
(* find: but for notices to come, and for a file no discovery lists that   *)
(* was open (_classify).                                                   *)
RootsAsDiscovered ==
    roots # Unknown => \A f \in (Listed \cup DOMAIN buffers) \ pending :
        f \in roots <=> f \in Discover
=============================================================================
