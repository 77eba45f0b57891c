------------------------------ MODULE ParseRead ------------------------------
(***************************************************************************)
(* What one lenient parse reads of a set of documents and what it records  *)
(* of that: entry.py, parser/fragments.py, parser/includes.py and          *)
(* parser/extensions.py as far as service/workspace.py depends on them.    *)
(* A view maps each file a parse can load to its text; a text is what      *)
(* decides which other files are read, and whether it has a mistake.       *)
(***************************************************************************)
EXTENDS Functions

CONSTANT Files

(* `kind` is the header ("data" when there is none), `uses` and `includes` *)
(* the files the text refers to, `extends` the master of an overlay (at    *)
(* most one), `sound` that the text has no mistake of its own of those that*)
(* stop a parse before unwrap, `clean` that lint finds nothing in it.      *)
Texts == [kind : {"api", "overlay", "library", "trait", "data"},
          uses : SUBSET Files, includes : SUBSET Files,
          extends : SUBSET Files, sound : BOOLEAN, clean : BOOLEAN]

RootKinds == {"api", "overlay"}
OfKind(view, f, kinds) == f \in DOMAIN view /\ view[f].kind \in kinds

(* The links of f a parse follows into another document: a library it      *)
(* uses, and an included fragment or content.  The rest are mistakes.      *)
Follows(view, f) ==
    {g \in view[f].uses : OfKind(view, g, {"library"})}
        \cup {g \in view[f].includes : OfKind(view, g, {"trait", "data"})}

(* The dictionary m laid over another.                                     *)
Over(m, under) ==
    [f \in DOMAIN m \cup DOMAIN under |->
        IF f \in DOMAIN m THEN m[f] ELSE under[f]]

(* The least set of files with S in it that leads nowhere else: what every *)
(* such set holds.                                                         *)
Closed(X, S, links) ==
    S \subseteq X /\ \A link \in links : link[1] \in X => link[2] \in X
Closure(S, links) ==
    S \cup {f \in {link[2] : link \in links} :
               \A X \in SUBSET Files : Closed(X, S, links) => f \in X}

(* An overlay is read through its masters, down to an API; no header, no   *)
(* file or a cycle on the way leaves no root API to parse.                 *)
Extended(view) ==
    UNION {{f} \X view[f].extends : f \in {g \in DOMAIN view : view[g].kind = "overlay"}}
Masters(view, root) == Closure({root}, Extended(view))
Parsable(view, root) ==
    IF OfKind(view, root, {"overlay"})
    THEN /\ \A f \in Masters(view, root) : OfKind(view, f, RootKinds)
         /\ \E f \in Masters(view, root) : view[f].kind = "api"
    ELSE OfKind(view, root, {"api", "library", "trait"})

(* The documents decoded, each with its text kept.                         *)
Followed(view) == UNION {{f} \X Follows(view, f) : f \in DOMAIN view}
Decoded(view, root) == Closure(Masters(view, root), Followed(view))

Unfollowed(view, f) == (view[f].uses \cup view[f].includes) \ Follows(view, f)

(* _parse of a root in a folder.  `raml` is whether there is a model,      *)
(* `error` whether something failed; `kept` is Raml.source_texts; `read`   *)
(* is _read: what was kept, and every include that was tried.  `seen` is   *)
(* not recorded by the code: all that was loaded or looked for.            *)
Parse(view, root) ==
    IF Parsable(view, root)
    THEN LET decoded == Decoded(view, root)
             seen == decoded \cup UNION {view[f].includes \cup view[f].uses : f \in decoded}
         IN
         [raml  |-> TRUE,
          error |-> \E f \in decoded : ~view[f].sound \/ Unfollowed(view, f) # {},
          kept  |-> Restrict(view, decoded),
          read  |-> decoded \cup UNION {view[f].includes : f \in decoded},
          seen  |-> seen, lacked |-> seen \ DOMAIN view]
    ELSE [raml |-> FALSE, error |-> TRUE, kept |-> Restrict(view, {}),
          read |-> {root}, seen |-> Masters(view, root),
          lacked |-> Masters(view, root) \ DOMAIN view]
=============================================================================
