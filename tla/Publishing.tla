------------------------------ MODULE Publishing ------------------------------
(***************************************************************************)
(* fastraml/service/lsp.py: what the language server publishes.  A change  *)
(* schedules a parser tier, which schedules a lint tier on the next turn   *)
(* of the loop; any change in between starts over.  The server runs on one *)
(* event loop, so a handler and a tier are each one step.                  *)
(*                                                                         *)
(* Of the workspace this module takes its promise (Workspace!SnapshotsFresh*)
(* and Workspace!RootsAsDiscovered): the roots are those of the current    *)
(* view, and a snapshot is a parse of it.  A change on disk and its notice *)
(* are one step.  `collect`, which frees memory, is left out.              *)
(***************************************************************************)
EXTENDS ParseRead, TLC

CONSTANTS
    Written,        \* for each file, the texts the disk may hold for it
    Typed,          \* and the texts the editor may
    Removable       \* the files others delete

ASSUME RemovableAssumption == Removable \subseteq Files
ASSUME TextsAssumption == \A f \in Files :
    Written[f] \subseteq Texts /\ Typed[f] \subseteq Texts

VARIABLES
    disk, buffers,  \* the text of each file there, of each file open
    pending,        \* RamlServer._pending
    timer,          \* the tier RamlServer._timer will run, or "none"
    shown,          \* RamlServer._shown, by root
    client,         \* what the client shows in each file: published last
    told,           \* ghost: the files a notification was about
    servers         \* ghost: what served each file at some publication

vars == <<disk, buffers, pending, timer, shown, client, told, servers>>

View == buffers @@ disk
Roots == {f \in DOMAIN View : OfKind(View, f, RootKinds)}
Drop(f, keys) == Restrict(f, DOMAIN f \ keys)

Init ==
    /\ disk \in [Files -> UNION {Written[f] : f \in Files}]
    /\ \A f \in Files : disk[f] \in Written[f]
    /\ buffers = Restrict(disk, {})
    /\ pending = {} /\ timer = "none"
    /\ shown = Restrict(disk, {}) /\ client = [f \in Files |-> {}]
    /\ told = {} /\ servers = [f \in Files |-> {}]
-----------------------------------------------------------------------------
(* What there is to show.                                                  *)

(* A problem, or a lint finding, and the file it is in.                    *)
Diagnostic(f, what) == [file |-> f, what |-> what]
FilesIn(diagnostics) == {d.file : d \in diagnostics}
In(diagnostics, f) == {d \in diagnostics : d.file = f}

(* The snapshot of a root: what it read, the problems of the parse, and    *)
(* what lint finds, which runs on an unwrapped model only.                 *)
Snapshot(root) ==
    LET parse == Parse(View, root)
        decoded == DOMAIN parse.kept
        problems ==
            IF ~parse.raml THEN {Diagnostic(root, "refused")}
            ELSE {Diagnostic(f, "mistake") : f \in {g \in decoded : ~View[g].sound}}
                    \cup {Diagnostic(f, "unread") : f \in
                            {g \in decoded : Unfollowed(View, g) # {}}}
    IN  [read |-> parse.read, problems |-> problems,
         findings |-> IF problems # {} THEN {}
                      ELSE {Diagnostic(f, "finding") : f \in {g \in decoded : ~View[g].clean}}]

(* The current snapshots, of roots and of files parsed on their own.       *)
Current == [f \in Files |-> Snapshot(f)]

(* queries.diagnostics *)
Diagnostics(snapshot, lint) ==
    snapshot.problems \cup (IF lint THEN snapshot.findings ELSE {})

(* publish's `serving`: the roots that read f, else f itself while it is   *)
(* open.                                                                   *)
Serving(now, f) ==
    LET readers == {r \in Roots : f \in now[r].read}
    IN  IF readers # {} THEN readers ELSE {f} \cap DOMAIN buffers

(* What f shows: the diagnostics in it of every root serving it.           *)
Merged(now, f, lint) ==
    UNION {In(Diagnostics(now[r], lint), f) : r \in Serving(now, f)}
-----------------------------------------------------------------------------
(* publish.                                                                *)

Remembered(memory, r) == IF r \in DOMAIN memory THEN memory[r] ELSE {}

(* Mutant of ToSend: a file the root stopped reading is not cleared.       *)
ToSendPresent(now, lint) ==
    UNION {FilesIn(Diagnostics(now[r], lint)) : r \in UNION {Serving(now, f) : f \in pending}}

(* What a pending file showed as its own root, and all that the roots      *)
(* serving it showed or will show.  The entry of a pending file is popped  *)
(* before another is looked up: what it held is in the union already.      *)
ToSend(now, lint) ==
    UNION {Remembered(shown, f) : f \in pending}
        \cup UNION {Remembered(shown, r) \cup FilesIn(Diagnostics(now[r], lint)) :
                        r \in UNION {Serving(now, f) : f \in pending}}

Publish(lint) ==
    \E now \in {Current} :
    LET sent == ToSend(now, lint)
        found == UNION {Serving(now, f) : f \in pending \cup sent}
    IN
    /\ client' = [f \in Files |-> IF f \in sent THEN Merged(now, f, lint) ELSE client[f]]
    /\ shown' = [r \in found |-> FilesIn(Diagnostics(now[r], lint))] @@ Drop(shown, pending)
    /\ servers' = [f \in Files |-> servers[f] \cup Serving(now, f)]
    /\ UNCHANGED <<disk, buffers, told>>

(* Mutant of ParserTier: the lint tier is not scheduled.                   *)
ParserTierLast ==
    /\ timer = "parser"
    /\ Publish(FALSE)
    /\ timer' = "none" /\ UNCHANGED pending

(* _flush.  Each tier runs from its timer; the parser tier sets the next.  *)
ParserTier ==
    /\ timer = "parser"
    /\ Publish(FALSE)
    /\ timer' = "lint" /\ UNCHANGED pending

LintTier ==
    /\ timer = "lint"
    /\ Publish(TRUE)
    /\ timer' = "none" /\ pending' = {}
-----------------------------------------------------------------------------
(* The handlers of document notifications.                                 *)

(* Mutant of Changed: only the last file changed is remembered.            *)
ChangedLast(f) ==
    /\ pending' = {f} /\ timer' = "parser"
    /\ told' = told \cup {f} /\ UNCHANGED <<shown, client, servers>>

(* changed and _schedule: the timer set before is cancelled.               *)
Changed(f) ==
    /\ pending' = pending \cup {f} /\ timer' = "parser"
    /\ told' = told \cup {f} /\ UNCHANGED <<shown, client, servers>>

DidOpen(f, text) ==
    /\ f \notin DOMAIN buffers
    /\ buffers' = (f :> text) @@ buffers
    /\ Changed(f) /\ UNCHANGED disk
DidChange(f, text) ==
    /\ f \in DOMAIN buffers /\ text # buffers[f]
    /\ buffers' = (f :> text) @@ buffers
    /\ Changed(f) /\ UNCHANGED disk
DidClose(f) ==
    /\ f \in DOMAIN buffers
    /\ buffers' = Drop(buffers, {f})
    /\ Changed(f) /\ UNCHANGED disk

(* watched, of a file written or deleted.                                  *)
Watched(f, after) ==
    /\ disk' = after @@ Drop(disk, {f})
    /\ disk' # disk
    /\ Changed(f) /\ UNCHANGED buffers

Tier == ParserTier \/ LintTier
Notice ==
    \E f \in Files :
        \/ \E text \in Typed[f] : DidOpen(f, text) \/ DidChange(f, text)
        \/ DidClose(f)
        \/ \E text \in Written[f] : Watched(f, f :> text)
        \/ f \in Removable /\ Watched(f, Drop(disk, Files))
Next == Tier \/ Notice

(* call_later: a timer that is not cancelled goes off.  GoesOff is what a  *)
(* tier does to the timer, and no other step does it; a tier can run       *)
(* whenever one is set.  (A debounced timer is cancelled by each change:   *)
(* Settles assumes that changes stop.)                                     *)
GoesOff == timer # "none" /\ timer' \in {"lint", "none"} \ {timer}

Spec == Init /\ [][Next]_vars /\ WF_timer(GoesOff)
-----------------------------------------------------------------------------

Settled == timer = "none"

(* Once no tier is due, every problem of every root that reads a file some *)
(* notification was about is shown where it is, and every lint finding in  *)
(* a file that had one root all along, whatever changes the tiers were     *)
(* interleaved with (publish, lsp.py:212-252).                             *)
AllShown ==
    Settled => LET now == Current IN
        \A f \in told : \A r \in Serving(now, f) :
            /\ \A d \in now[r].problems : d \in client[d.file]
            /\ \A d \in now[r].findings :
                servers[d.file] \subseteq {r} => d \in client[d.file]

(* The same for the findings in every file: cleared for the parser tier,   *)
(* they are "shown again by the lint tier" (docs/21 section 5).            *)
FindingsShownAgain ==
    Settled => LET now == Current IN
        \A f \in told : \A r \in Serving(now, f) : \A d \in now[r].findings :
            d \in client[d.file]

(* Roots that never had a file in common with another.                     *)
Apart == {r \in Files : \A f \in Files : r \in servers[f] => servers[f] = {r}}

(* And nothing else is shown in the files of roots that share none: what   *)
(* was fixed, or is in a file the root stopped reading, "is cleared"       *)
(* (lsp.py:215-218).                                                       *)
NothingStale ==
    Settled => LET now == Current IN
        \A f \in Files : servers[f] \subseteq Apart => client[f] \subseteq Merged(now, f, TRUE)

(* Both: what a client shows is what there is to show (publish).           *)
ShownAsItIs == AllShown /\ NothingStale

(* After the last notification both tiers run, and none is due any more    *)
(* (_schedule, _flush, lsp.py:192-210).                                    *)
Settles == <>[][GoesOff]_vars => <>[](Settled /\ pending = {})
=============================================================================
