---------------------------- MODULE SourceStore ----------------------------
(***************************************************************************)
(* What the owner of composed trees promises its readers                   *)
(* (fastraml/service/source.py): whoever asks is given the composition of  *)
(* the text it asked about, and what is kept for the next reader is the    *)
(* present text of the file, or nothing.  No generation, no policy and no  *)
(* snapshot is seen from here.                                             *)
(***************************************************************************)
CONSTANTS
    Files, Texts, Depths,
    Fits,           \* the <<text, depth>> that compose
    None            \* a failed composition, and nothing kept

VARIABLES
    text,           \* the present text of each file
    stored,         \* the text whose tree is kept for each file, or None
    missed,         \* files that changed while nobody kept account of them
    answer          \* what the last reader asked, and was given

abstract == <<text, stored, missed, answer>>

Compose(t, d) == IF <<t, d>> \in Fits THEN <<t, d>> ELSE None

Nothing == [f \in Files |-> None]

Init ==
    /\ text \in [Files -> Texts] /\ stored = Nothing
    /\ missed = {} /\ answer = None

Change(f, t) ==
    /\ text' = [text EXCEPT ![f] = t]
    /\ stored' = [stored EXCEPT ![f] = None]
    /\ missed' \in {missed, missed \cup {f}, missed \ {f}}
    /\ UNCHANGED answer

(* A reader that cannot know the present text may leave its own only where *)
(* the change was missed.                                                  *)
Ask(f, t, d) ==
    /\ answer' = [text |-> t, depth |-> d, root |-> Compose(t, d)]
    /\ \E kept \in {stored, Nothing} :
        \/ stored' = kept
        \/ (t = text[f] \/ f \in missed) /\ stored' = [kept EXCEPT ![f] = t]
    /\ UNCHANGED <<text, missed>>

Forget == stored' = Nothing /\ UNCHANGED <<text, missed, answer>>

Next ==
    \/ \E f \in Files, t \in Texts :
        Change(f, t) \/ \E d \in Depths : Ask(f, t, d)
    \/ Forget

Spec == Init /\ [][Next]_abstract
=============================================================================
