---------------------------- MODULE FragmentCache ----------------------------
(***************************************************************************)
(* fastraml/parser/fragments.py: the fragments of one parse.  A document   *)
(* is decoded at most once, cached by its URI, and may reach itself again  *)
(* through `!include` in its body or through `uses:`, which is resolved    *)
(* after its body.  Failures are accumulated, reported once, and recorded  *)
(* as marks on every link (an entry of `uses:`, or the definition an       *)
(* `!include` is written in) whose fragment failed, whenever the link met  *)
(* it: through the failure, in the cache afterwards, or still decoding.    *)
(*                                                                         *)
(* The recursion is a stack of frames, one per document being decoded.     *)
(***************************************************************************)
EXTENDS Naturals, Sequences, SequencesExt

CONSTANTS
    Files,      \* URIs
    Entry,      \* the entry document
    Corpus      \* the document sets to parse: functions from Files

Kinds == {"api", "library", "trait"}

(* What a file is: `state` is "missing" (does not load), "unreadable" (no  *)
(* YAML or no map, so no links), "bad" (a mistake in the body) or "ok".    *)
ASSUME CorpusAssumption ==
    \A c \in Corpus : \A f \in Files :
        /\ c[f].kind \in Kinds
        /\ c[f].state \in {"missing", "unreadable", "bad", "ok"}
        /\ c[f].include \in Seq(Files) /\ c[f].uses \in Seq(Files)
(* A document is not a link: the problems of the two are told apart.       *)
ASSUME FilesAssumption ==
    \A f \in Files : f \notin [from : Files, phase : {"include", "uses"}, at : Nat]
ASSUME EntryAssumption ==
    Entry \in Files /\ \A c \in Corpus :
        c[Entry].kind = "api" /\ c[Entry].state # "missing"

VARIABLES
    doc,        \* the document set, a member of Corpus
    fragments,  \* URIs in Raml's fragment cache
    failure,    \* fragments whose _failure is set
    waiting,    \* _waiting of each fragment; None exactly off the stack
    linked,     \* links whose `link` is set
    marked,     \* links in Raml.broken
    stack,      \* documents being decoded, the innermost last
    reported,   \* the problems in the error of the parse, once it is over
    decodes     \* ghost: the files decoded, in order

vars == <<doc, fragments, failure, waiting, linked, marked, stack, reported,
          decodes>>

(* A link is where it is written; each phase of a decode follows its own.  *)
Link(f, phase, i) == [from |-> f, phase |-> phase, at |-> i]
Targets(f, phase) ==
    IF doc[f].state = "unreadable" THEN <<>> ELSE doc[f][phase]
LinksOf(f) == UNION {{Link(f, phase, i) : i \in DOMAIN Targets(f, phase)} :
                     phase \in {"include", "uses"}}
Target(l) == doc[l.from][l.phase][l.at]
Required(l) == IF l.phase = "uses" THEN "library" ELSE "trait"

(* No fragment answers the link: there is no such file, or it is another   *)
(* kind than the link requires.                                            *)
Refused(l) ==
    doc[Target(l)].kind # Required(l) \/ doc[Target(l)].state = "missing"

(* What a link takes of the fragment that answers it, failed or not: of a  *)
(* library the library; of a trait its definition, which there is none of  *)
(* in a document that could not be composed (_DefinitionFragment.decode).  *)
Empty(l) == l.phase = "include" /\ doc[Target(l)].state = "unreadable"
Given(l) == IF Empty(l) THEN {} ELSE {l}

Frame(f) == [file |-> f, phase |-> "include", at |-> 1, errors |-> <<>>]
Top == stack[Len(stack)]
Decoding == {stack[i].file : i \in 1..Len(stack)}
Current == Link(Top.file, Top.phase, Top.at)
Pending == stack # <<>> /\ Top.at <= Len(Targets(Top.file, Top.phase))

(* Mutant of Register: only a decoded fragment is cached, by its caller.   *)
RegisterLate(f) == UNCHANGED fragments /\ decodes' = Append(decodes, f)

(* Decoding f has begun (decode_fragment, up to the body): the fragment is *)
(* registered before anything in the file is looked at.                    *)
Register(f) == fragments' = fragments \cup {f} /\ decodes' = Append(decodes, f)

Init ==
    /\ doc \in Corpus
    /\ fragments = {Entry} /\ decodes = <<Entry>>
    /\ failure = {} /\ linked = {} /\ marked = {}
    /\ waiting = [f \in Files |-> {}]
    /\ stack = <<Frame(Entry)>> /\ reported = <<>>

(* Mutant of Advance: the first failure ends the loop over the links.      *)
AdvanceToFirstError(frames, errors) ==
    [frames EXCEPT ![Len(frames)].at = IF errors = <<>> THEN @ + 1 ELSE 9,
                   ![Len(frames)].errors = @ \o errors]

(* The frames, once the innermost has moved past its link with `errors`.   *)
Advance(frames, errors) ==
    [frames EXCEPT ![Len(frames)].at = @ + 1,
                   ![Len(frames)].errors = @ \o errors]

(* Mutants of Refer: a fragment in progress is taken for a sound one; or   *)
(* it is waited for.                                                       *)
ReferFinished(f, l) ==
    /\ marked' = IF f \in failure THEN marked \cup {l} ELSE marked
    /\ UNCHANGED waiting
ReferBlocking(f, l) ==
    /\ f \notin Decoding
    /\ marked' = IF f \in failure THEN marked \cup {l} ELSE marked
    /\ UNCHANGED waiting

(* refer: a fragment found in the cache marks its referrer at once if it   *)
(* has failed, later if it is still being decoded.                         *)
Refer(f, l) ==
    /\ marked' = IF f \in failure THEN marked \cup {l} ELSE marked
    /\ waiting' = IF f \notin failure /\ f \in Decoding
                  THEN [waiting EXCEPT ![f] = @ \cup {l}] ELSE waiting

(* Mutant of FollowCached: a failed fragment in the cache fails again.     *)
FollowCachedRaising ==
    /\ Pending
    /\ LET l == Current  f == Target(l) IN
       /\ f \in fragments /\ ~Refused(l)
       /\ linked' = linked \cup Given(l)
       /\ Refer(f, l)
       /\ stack' = Advance(stack, IF f \in failure THEN <<f>> ELSE <<>>)
    /\ UNCHANGED <<doc, fragments, failure, reported, decodes>>

(* parse_fragment of a fragment in the cache.                              *)
FollowCached ==
    /\ Pending
    /\ LET l == Current  f == Target(l) IN
       /\ f \in fragments /\ ~Refused(l)
       /\ linked' = linked \cup Given(l)
       /\ Refer(f, l)
       /\ stack' = Advance(stack, <<>>)
    /\ UNCHANGED <<doc, fragments, failure, reported, decodes>>

(* The load or the kind check fails, for a cached fragment as for a new.   *)
FollowRefused ==
    /\ Pending
    /\ LET l == Current IN
       /\ Refused(l)
       /\ marked' = marked \cup {l}
       /\ stack' = Advance(stack, <<l>>)
    /\ UNCHANGED <<doc, fragments, failure, waiting, linked, reported, decodes>>

FollowNew ==
    /\ Pending
    /\ LET f == Target(Current) IN
       /\ f \notin fragments /\ ~Refused(Current)
       /\ Register(f)
       /\ stack' = Append(stack, Frame(f))
    /\ UNCHANGED <<doc, failure, waiting, linked, marked, reported>>

(* Mutant of Settle: those told of the failure go on waiting for it.       *)
SettleKeepingWaiting(f, errors) ==
    /\ failure' = IF errors = <<>> THEN failure \ {f} ELSE failure \cup {f}
    /\ UNCHANGED waiting

(* _settle *)
Settle(f, errors) ==
    /\ failure' = IF errors = <<>> THEN failure \ {f} ELSE failure \cup {f}
    /\ waiting' = IF errors = <<>> THEN waiting ELSE [waiting EXCEPT ![f] = {}]

(* The end of the body: its own mistake joins what its includes reported,  *)
(* and who met this fragment meanwhile is told before `uses:` begins.      *)
EndBody ==
    /\ stack # <<>> /\ Top.phase = "include" /\ ~Pending
    /\ LET f == Top.file
           own == IF doc[f].state = "ok" THEN <<>> ELSE <<f>>
           errors == Top.errors \o own IN
       /\ Settle(f, errors)
       /\ marked' = IF errors = <<>> THEN marked ELSE marked \cup waiting[f]
       /\ stack' = [stack EXCEPT ![Len(stack)] =
                        [@ EXCEPT !.phase = "uses", !.at = 1, !.errors = errors]]
    /\ UNCHANGED <<doc, fragments, linked, reported, decodes>>

(* The end of decode_fragment and its caller's share: the link is set, to  *)
(* what there is even of a failed fragment, and marked by the failure.     *)
Return ==
    /\ stack # <<>> /\ Top.phase = "uses" /\ ~Pending
    /\ LET f == Top.file
           errors == Top.errors
           outer == Front(stack)
           told == IF errors = <<>> THEN {} ELSE waiting[f] IN
       /\ failure' = IF errors = <<>> THEN failure \ {f} ELSE failure \cup {f}
       /\ waiting' = [waiting EXCEPT ![f] = {}]
       /\ IF outer = <<>>
          THEN /\ stack' = <<>> /\ reported' = errors
               /\ marked' = marked \cup told
               /\ UNCHANGED linked
          ELSE LET l == Link(Last(outer).file, Last(outer).phase, Last(outer).at) IN
               /\ stack' = Advance(outer, errors)
               /\ linked' = linked \cup Given(l)
               /\ marked' = marked \cup told
                               \cup (IF errors = <<>> THEN {} ELSE {l})
               /\ UNCHANGED reported
    /\ UNCHANGED <<doc, fragments, decodes>>

Over == stack = <<>> /\ UNCHANGED vars

Next ==
    FollowCached \/ FollowRefused \/ FollowNew \/ EndBody \/ Return \/ Over

Spec == Init /\ [][Next]_vars /\ WF_vars(Next)
-----------------------------------------------------------------------------
(* Properties.                                                             *)

Finished == stack = <<>>

TypeOK ==
    /\ fragments \subseteq Files /\ failure \subseteq fragments
    /\ decodes \in Seq(Files) /\ Decoding \subseteq fragments
    /\ \A l \in linked \cup marked : l \in LinksOf(l.from)
    /\ \A f \in Files : waiting[f] # {} => f \in Decoding \ failure

(* However the documents reach one another, each is decoded once: a cycle  *)
(* finds the fragment in progress (decode_fragment, docs/04 section 6).    *)
DecodedOnce == IsInjective(decodes)

(* When the parse is over, a link is marked exactly when there is no       *)
(* fragment for it or its fragment failed, in whatever order the failure   *)
(* and the link were met (refer, _settle; docs/04 section 6).              *)
MarkedIffFailed ==
    Finished => \A f \in fragments : \A l \in LinksOf(f) :
        l \in marked <=> Refused(l) \/ Target(l) \in failure

(* The failures of one document hide no other: every link of every         *)
(* document that was reached has been followed, and is linked if there is  *)
(* a library or a definition to link, complete or not, and whether it met  *)
(* the failure or found the fragment in the cache.  An included document   *)
(* that could not be composed has no definition (resolve_uses,             *)
(* _one_definition).                                                       *)
LinkedAsItStands ==
    Finished => \A f \in fragments : \A l \in LinksOf(f) :
        l \in linked <=>
            ~Refused(l) /\ (l.phase = "uses" \/ doc[Target(l)].state # "unreadable")

(* The documents a parse must reach, by definition rather than by search.  *)
Closed(S) == \A f \in S : \A l \in LinksOf(f) : ~Refused(l) => Target(l) \in S
Reachable ==
    {f \in Files : \A S \in SUBSET Files : Entry \in S /\ Closed(S) => f \in S}
Problems ==
    {f \in Reachable : doc[f].state # "ok"}
        \cup UNION {{l \in LinksOf(f) : Refused(l)} : f \in Reachable}

(* The parse reports every mistake there is in what it reaches, each one   *)
(* once however many links lead to it (resolve_uses: "only the first is    *)
(* reported").                                                             *)
EveryProblemReportedOnce ==
    Finished => IsInjective(reported) /\ ToSet(reported) = Problems

(* Cyclic imports do not keep the parse from ending.                       *)
Terminates == <>Finished
=============================================================================
