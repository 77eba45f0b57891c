--------------------------- MODULE Service_proofs ---------------------------
(***************************************************************************)
(* The process of the language server (cli/serve.py, _lsp): the workspace, *)
(* and the collector it defers for its whole run, a span of tuned_gc       *)
(* beside those of the parses in it.  They share no state.                 *)
(*                                                                         *)
(* The workspace, for any files, folders and texts.  The roots kept are    *)
(* those a discovery would find.  A change of one file never makes another *)
(* one a root, so it is enough that f is decided again whenever its header *)
(* may have changed.                                                       *)
(*                                                                         *)
(* A snapshot held is a parse of the files as they are.  What a parse gives*)
(* depends on the files it looked at only, and it looks for a file that is *)
(* not there only if it fails: the snapshots dropped when a file changes,  *)
(* its readers and, when it appeared, the failed ones, are all those that  *)
(* depend on it.                                                           *)
(*                                                                         *)
(* The collector, for any number of operations and any thresholds: the     *)
(* process has the host's thresholds whenever no operation runs.           *)
(***************************************************************************)
EXTENDS Workspace, GcTuning, FiniteSetTheorems, TLAPS

LEMMA DropFacts ==
    ASSUME NEW m, NEW f
    PROVE  /\ DOMAIN Drop(m, {f}) = DOMAIN m \ {f}
           /\ \A g \in DOMAIN m \ {f} : Drop(m, {f})[g] = m[g]
  BY DEF Drop, Restrict

LEMMA PutStep ==
    ASSUME RootsAsDiscovered, NEW f \in Files, NEW text, NEW before, Put(f, text, before)
    PROVE  RootsAsDiscovered'
  <1>1. buffers' = With(buffers, f, text) /\ UNCHANGED <<disk, pending>>
    BY DEF Put
  <1>2. DOMAIN buffers' = {f} \cup DOMAIN buffers /\ buffers'[f] = text
        /\ \A g \in DOMAIN buffers : g # f => buffers'[g] = buffers[g]
    BY <1>1 DEF With, Over
  <1>3. ASSUME NEW g, g # f PROVE IsRoot(g)' <=> IsRoot(g)
    BY <1>1, <1>2, <1>3 DEF IsRoot, OfKind
  <1>4. CASE f \notin DOMAIN buffers \/ buffers[f].kind # text.kind
    <2>1. Classify(f)
      BY <1>4 DEF Put
    <2> QED BY <1>1, <1>2, <1>3, <2>1 DEF RootsAsDiscovered, Classify, Discover
  <1>5. CASE f \in DOMAIN buffers /\ buffers[f].kind = text.kind
    <2>1. roots' = roots
      BY <1>5 DEF Put
    <2>2. IsRoot(f)' <=> IsRoot(f)
      BY <1>1, <1>2, <1>5 DEF IsRoot, OfKind
    <2> QED BY <1>1, <1>2, <1>3, <1>5, <2>1, <2>2 DEF RootsAsDiscovered, Discover
  <1> QED BY <1>4, <1>5

LEMMA CloseStep ==
    ASSUME RootsAsDiscovered, NEW f \in Files, Close(f)
    PROVE  RootsAsDiscovered'
  <1>1. buffers' = Drop(buffers, {f}) /\ UNCHANGED <<disk, pending>> /\ Classify(f)
    BY DEF Close
  <1>2. DOMAIN buffers' = DOMAIN buffers \ {f}
        /\ \A g \in DOMAIN buffers \ {f} : buffers'[g] = buffers[g]
    BY <1>1, DropFacts
  <1>3. ASSUME NEW g, g # f PROVE IsRoot(g)' <=> IsRoot(g)
    BY <1>1, <1>2, <1>3 DEF IsRoot, OfKind
  <1>4. IsRoot(f)' => f \in DOMAIN disk'
    BY <1>2 DEF IsRoot, OfKind
  <1> QED BY <1>1, <1>2, <1>3, <1>4 DEF RootsAsDiscovered, Classify, Discover

(* Others change the file, and nobody has been told.                       *)
LEMMA DiskStep ==
    ASSUME RootsAsDiscovered, NEW f,
           (\E text : Write(f, text)) \/ Delete(f)
    PROVE  RootsAsDiscovered'
  <1>1. /\ pending' = pending \cup {f} /\ UNCHANGED <<buffers, roots>>
        /\ \A g : g # f => /\ g \in DOMAIN disk' <=> g \in DOMAIN disk
                           /\ g \in DOMAIN disk => disk'[g] = disk[g]
    <2>1. CASE \E text : Write(f, text)
      <3>1. PICK text : Write(f, text)
        BY <2>1
      <3>2. disk' = With(disk, f, text)
        BY <3>1 DEF Write
      <3>3. /\ DOMAIN disk' = {f} \cup DOMAIN disk
            /\ \A g \in DOMAIN disk : g # f => disk'[g] = disk[g]
        BY <3>2 DEF With, Over
      <3> QED BY <3>1, <3>3 DEF Write
    <2>2. CASE Delete(f)
      BY <2>2, DropFacts DEF Delete
    <2> QED BY <2>1, <2>2
  <1>2. ASSUME NEW g, g # f PROVE IsRoot(g)' <=> IsRoot(g)
    BY <1>1, <1>2 DEF IsRoot, OfKind
  <1> QED BY <1>1, <1>2 DEF RootsAsDiscovered, Discover

LEMMA QueryStep ==
    ASSUME RootsAsDiscovered,
           \/ AllReaders
           \/ \E f \in Files : Serve(f) \/ AskFor(f)
           \/ UNCHANGED vars
    PROVE  RootsAsDiscovered'
  <1>1. UNCHANGED <<disk, pending, buffers>> /\ roots' \in {roots, Roots}
    BY DEF AllReaders, Serve, AskFor, BringCurrent, vars
  <1>2. \A g : IsRoot(g)' <=> IsRoot(g)
    BY <1>1 DEF IsRoot, OfKind
  <1>3. Discover' = Discover
    BY <1>1, <1>2 DEF Discover
  <1> QED BY <1>1, <1>3 DEF RootsAsDiscovered, Roots
-----------------------------------------------------------------------------
(* Whatever is opened, edited, closed, written or deleted, in any order,   *)
(* the roots kept are those a new discovery would find, but for notices to *)
(* come and for a closed file that no discovery lists (_classify).         *)
THEOREM SpecRootsAsDiscovered == Spec => []RootsAsDiscovered
  <1>1. Init => RootsAsDiscovered
    BY DEF Init, RootsAsDiscovered
  <1>2. RootsAsDiscovered /\ [Next]_vars => RootsAsDiscovered'
    <2> SUFFICES ASSUME RootsAsDiscovered, [Next]_vars PROVE RootsAsDiscovered'
      OBVIOUS
    <2>1. CASE \E f \in Files : \E text \in Typed[f] : Open(f, text) \/ Change(f, text)
      BY <2>1, PutStep DEF Open, Change
    <2>2. CASE \E f \in Files : Close(f)
      BY <2>2, CloseStep
    <2>3. CASE \E f \in Volatile : (\E text \in Written[f] : Write(f, text)) \/ Delete(f)
      BY <2>3, DiskStep
    <2>4. CASE \E f \in Volatile : ChangedOnDisk(f)
      BY <2>4 DEF ChangedOnDisk, RootsAsDiscovered
    <2>5. CASE \/ AllReaders
               \/ \E f \in Files : Serve(f) \/ AskFor(f)
               \/ UNCHANGED vars
      BY <2>5, QueryStep
    <2> QED BY <2>1, <2>2, <2>3, <2>4, <2>5 DEF Next
  <1> QED BY <1>1, <1>2, PTL DEF Spec
-----------------------------------------------------------------------------
(* Closures.                                                               *)

(* What can be parsed: texts of files.                                     *)
IsView(v) == DOMAIN v \subseteq Files /\ \A f \in DOMAIN v : v[f] \in Texts

IsLinks(links) == \A link \in links : \E f, g \in Files : link = <<f, g>>

(* Files v and w say the same of.                                          *)
AgreeAt(v, w, f) ==
    /\ f \in DOMAIN v <=> f \in DOMAIN w
    /\ f \in DOMAIN v => v[f] = w[f]
Agree(v, w, S) == \A f \in S : AgreeAt(v, w, f)

LEMMA ClosureClosed ==
    ASSUME NEW S \in SUBSET Files, NEW links, IsLinks(links)
    PROVE  /\ Closure(S, links) \subseteq Files
           /\ Closed(Closure(S, links), S, links)
  <1> DEFINE C == Closure(S, links)
  <1>1. C \subseteq Files
    BY DEF Closure, IsLinks
  <1>2. ASSUME NEW link \in links, link[1] \in C PROVE link[2] \in C
    <2>1. ASSUME NEW X \in SUBSET Files, Closed(X, S, links) PROVE link[2] \in X
      <3>1. link[1] \in X
        BY <1>2, <2>1 DEF Closure, Closed
      <3> QED BY <2>1, <3>1 DEF Closed
    <2> QED BY <2>1 DEF Closure
  <1> QED BY <1>1, <1>2 DEF Closed, Closure

LEMMA ClosureLeast ==
    ASSUME NEW S, NEW links, NEW X \in SUBSET Files, Closed(X, S, links)
    PROVE  Closure(S, links) \subseteq X
  BY DEF Closure, Closed

(* Links that differ only outside the closure lead to the same files.      *)
LEMMA ClosureSame ==
    ASSUME NEW S \in SUBSET Files, NEW links, NEW others,
           IsLinks(links), IsLinks(others),
           \A f \in Closure(S, links) : \A g : <<f, g>> \in links <=> <<f, g>> \in others
    PROVE  Closure(S, others) = Closure(S, links)
  <1> DEFINE C == Closure(S, links)
             D == Closure(S, others)
  <1>1. C \in SUBSET Files /\ Closed(C, S, links)
    BY ClosureClosed
  <1>2. D \in SUBSET Files /\ Closed(D, S, others)
    BY ClosureClosed
  <1>3. Closed(C, S, others)
    <2>1. ASSUME NEW link \in others, link[1] \in C PROVE link[2] \in C
      <3>1. PICK f, g : link = <<f, g>>
        BY DEF IsLinks
      <3>2. link[1] = f /\ link[2] = g
        BY <3>1
      <3>3. <<f, g>> \in links
        BY <2>1, <3>1, <3>2
      <3> QED BY <1>1, <2>1, <3>2, <3>3 DEF Closed
    <2> QED BY <1>1, <2>1 DEF Closed
  <1>4. D \subseteq C
    BY <1>1, <1>3, ClosureLeast
  <1>5. Closed(D, S, links)
    <2>1. ASSUME NEW link \in links, link[1] \in D PROVE link[2] \in D
      <3>1. PICK f, g : link = <<f, g>>
        BY DEF IsLinks
      <3>2. link[1] = f /\ link[2] = g
        BY <3>1
      <3>3. <<f, g>> \in others
        BY <1>4, <2>1, <3>1, <3>2
      <3> QED BY <1>2, <2>1, <3>2, <3>3 DEF Closed
    <2> QED BY <1>2, <2>1 DEF Closed
  <1> QED BY <1>2, <1>4, <1>5, ClosureLeast
-----------------------------------------------------------------------------
(* What a parse gives.                                                     *)

LEMMA TextLinks ==
    ASSUME NEW v, IsView(v)
    PROVE  /\ IsLinks(Extended(v)) /\ IsLinks(Followed(v))
           /\ \A f, g : <<f, g>> \in Extended(v) <=>
                f \in DOMAIN v /\ v[f].kind = "overlay" /\ g \in v[f].extends
           /\ \A f, g : <<f, g>> \in Followed(v) <=> f \in DOMAIN v /\ g \in Follows(v, f)
           /\ \A f \in DOMAIN v : Follows(v, f) \subseteq DOMAIN v
           /\ \A f \in DOMAIN v : Follows(v, f) \subseteq v[f].uses \cup v[f].includes
  <1>1. \A f \in DOMAIN v : Follows(v, f) \subseteq DOMAIN v
    BY DEF Follows, OfKind
  <1>2. \A f \in DOMAIN v : v[f].extends \subseteq Files /\ f \in Files
    BY DEF IsView, Texts
  <1>3. \A f, g : <<f, g>> \in Extended(v) <=>
            f \in DOMAIN v /\ v[f].kind = "overlay" /\ g \in v[f].extends
    BY DEF Extended
  <1>4. \A f, g : <<f, g>> \in Followed(v) <=> f \in DOMAIN v /\ g \in Follows(v, f)
    BY DEF Followed
  <1>5. IsLinks(Extended(v))
    BY <1>2 DEF IsLinks, Extended
  <1>6. IsLinks(Followed(v))
    BY <1>1 DEF IsLinks, Followed, IsView
  <1> QED BY <1>1, <1>3, <1>4, <1>5, <1>6 DEF Follows

LEMMA ParseFacts ==
    ASSUME NEW v, IsView(v), NEW root \in Files
    PROVE  /\ root \in Masters(v, root) /\ Masters(v, root) \subseteq Files
           /\ Masters(v, root) \subseteq Decoded(v, root) /\ Decoded(v, root) \subseteq Files
           /\ \A f \in Decoded(v, root) \cap DOMAIN v : Follows(v, f) \subseteq Decoded(v, root)
           /\ Parsable(v, root) => Decoded(v, root) \subseteq DOMAIN v
  <1> DEFINE M == Masters(v, root)
             D == Decoded(v, root)
  <1>1. M \in SUBSET Files /\ Closed(M, {root}, Extended(v))
    BY TextLinks, ClosureClosed DEF Masters
  <1>2. D \in SUBSET Files /\ Closed(D, M, Followed(v))
    BY <1>1, TextLinks, ClosureClosed DEF Decoded
  <1>3. \A f \in D \cap DOMAIN v : Follows(v, f) \subseteq D
    <2> SUFFICES ASSUME NEW f \in D \cap DOMAIN v, NEW g \in Follows(v, f) PROVE g \in D
      OBVIOUS
    <2>1. <<f, g>> \in Followed(v)
      BY TextLinks
    <2> QED BY <1>2, <2>1 DEF Closed
  <1>4. ASSUME Parsable(v, root) PROVE D \subseteq DOMAIN v
    <2>1. M \subseteq DOMAIN v
      <3>1. CASE OfKind(v, root, {"overlay"})
        BY <1>4, <3>1 DEF Parsable, OfKind
      <3>2. CASE ~OfKind(v, root, {"overlay"})
        <4>1. root \in DOMAIN v
          BY <1>4, <3>2 DEF Parsable, OfKind
        <4>2. Closed({root}, {root}, Extended(v))
          <5>1. ASSUME NEW link \in Extended(v), link[1] = root PROVE FALSE
            <6>1. PICK f, g : link = <<f, g>>
              BY TextLinks DEF IsLinks
            <6> QED BY <3>2, <5>1, <6>1, TextLinks DEF OfKind
          <5> QED BY <5>1 DEF Closed
        <4>3. M \subseteq {root}
          BY <4>2, ClosureLeast DEF Masters
        <4> QED BY <4>1, <4>3
      <3> QED BY <3>1, <3>2
    <2>2. Closed(DOMAIN v, M, Followed(v))
      <3>1. ASSUME NEW link \in Followed(v) PROVE link[2] \in DOMAIN v
        <4>1. PICK f, g : link = <<f, g>>
          BY TextLinks DEF IsLinks
        <4> QED BY <3>1, <4>1, TextLinks
      <3> QED BY <2>1, <3>1 DEF Closed
    <2> QED BY <2>2, ClosureLeast DEF Decoded, IsView
  <1> QED BY <1>1, <1>2, <1>3, <1>4 DEF Closed

(* A parse keeps the texts of files it records and that are there, and if  *)
(* it looked for one that is not there it failed.                          *)
LEMMA ParseRecords ==
    ASSUME NEW v, IsView(v), NEW root \in Files
    PROVE  LET s == Parse(v, root) IN
           /\ DOMAIN s.kept \subseteq s.read \cap s.seen \cap DOMAIN v
           /\ \A f \in DOMAIN s.kept : s.kept[f] = v[f]
           /\ s.lacked = s.seen \ DOMAIN v
           /\ s.lacked # {} => s.error
  <1> DEFINE D == Decoded(v, root)
  <1>1. CASE Parsable(v, root)
    <2>1. D \subseteq DOMAIN v
      BY <1>1, ParseFacts
    <2>2. /\ Parse(v, root).kept = [f \in D |-> v[f]]
          /\ D \subseteq Parse(v, root).read \cap Parse(v, root).seen
          /\ Parse(v, root).seen = D \cup UNION {v[f].includes \cup v[f].uses : f \in D}
          /\ Parse(v, root).lacked = Parse(v, root).seen \ DOMAIN v
          /\ Parse(v, root).error <=> \E f \in D : ~v[f].sound \/ Unfollowed(v, f) # {}
      BY <1>1 DEF Parse, Restrict
    <2>3. ASSUME NEW g \in Parse(v, root).lacked PROVE Parse(v, root).error
      <3>1. PICK f \in D : g \in v[f].includes \cup v[f].uses
        BY <2>1, <2>2, <2>3
      <3>2. g \notin Follows(v, f)
        BY <2>1, <2>2, <2>3, TextLinks
      <3> QED BY <2>2, <3>1, <3>2 DEF Unfollowed
    <2> QED BY <2>1, <2>2, <2>3
  <1>2. CASE ~Parsable(v, root)
    BY <1>2 DEF Parse, Restrict
  <1> QED BY <1>1, <1>2

(* It depends on the files it looked at only.                              *)
LEMMA ParseLocal ==
    ASSUME NEW v, NEW w, IsView(v), IsView(w), NEW root \in Files,
           Agree(v, w, Parse(v, root).seen)
    PROVE  Parse(w, root) = Parse(v, root)
  <1> DEFINE M == Masters(v, root)
             D == Decoded(v, root)
  <1>1. Agree(v, w, M)
    BY ParseFacts DEF Parse, Agree
  <1>2. Masters(w, root) = M
    <2>1. ASSUME NEW f \in M, NEW g
          PROVE  <<f, g>> \in Extended(v) <=> <<f, g>> \in Extended(w)
      <3>1. AgreeAt(v, w, f)
        BY <1>1 DEF Agree
      <3>2. /\ <<f, g>> \in Extended(v) <=>
                f \in DOMAIN v /\ v[f].kind = "overlay" /\ g \in v[f].extends
            /\ <<f, g>> \in Extended(w) <=>
                f \in DOMAIN w /\ w[f].kind = "overlay" /\ g \in w[f].extends
        BY TextLinks
      <3> QED BY <3>1, <3>2 DEF AgreeAt
    <2>2. IsLinks(Extended(v)) /\ IsLinks(Extended(w)) /\ {root} \in SUBSET Files
      BY TextLinks
    <2>3. \A f \in Closure({root}, Extended(v)) :
            \A g : <<f, g>> \in Extended(v) <=> <<f, g>> \in Extended(w)
      BY <2>1 DEF Masters
    <2>4. Closure({root}, Extended(w)) = Closure({root}, Extended(v))
      BY <2>2, <2>3, ClosureSame
    <2> QED BY <2>4 DEF Masters
  <1>3. Parsable(w, root) <=> Parsable(v, root)
    <2>1. root \in M
      BY ParseFacts
    <2> QED BY <1>1, <1>2, <2>1 DEF Parsable, OfKind, Agree, AgreeAt
  <1>4. CASE ~Parsable(v, root)
    <2>1. Restrict(v, {}) = Restrict(w, {})
      BY DEF Restrict
    <2>2. M \ DOMAIN v = M \ DOMAIN w
      BY <1>1 DEF Agree, AgreeAt
    <2> QED BY <1>2, <1>3, <1>4, <2>1, <2>2 DEF Parse
  <1>5. CASE Parsable(v, root)
    <2>1. /\ D \subseteq DOMAIN v /\ Agree(v, w, D)
          /\ \A f \in D : Agree(v, w, v[f].uses \cup v[f].includes)
      BY <1>5, ParseFacts DEF Parse, Agree
    <2>2. \A f \in D : f \in DOMAIN w /\ w[f] = v[f] /\ Follows(w, f) = Follows(v, f)
      BY <2>1 DEF Follows, OfKind, Agree, AgreeAt
    <2>3. Decoded(w, root) = D
      <3>1. \A f \in D : \A g : <<f, g>> \in Followed(v) <=> <<f, g>> \in Followed(w)
        BY <2>1, <2>2, TextLinks
      <3> QED BY <1>2, <3>1, TextLinks, ParseFacts, ClosureSame DEF Decoded
    <2>4. Restrict(v, D) = Restrict(w, D)
      BY <2>2 DEF Restrict
    <2>5. \A f \in D : Unfollowed(w, f) = Unfollowed(v, f)
      BY <2>2 DEF Unfollowed
    <2>6. Parse(v, root).seen \ DOMAIN v = Parse(v, root).seen \ DOMAIN w
      BY DEF Agree, AgreeAt
    <2> DEFINE looked(u) == D \cup UNION {u[f].includes \cup u[f].uses : f \in D}
               found(u) == D \cup UNION {u[f].includes : f \in D}
               failed(u) == \E f \in D : ~u[f].sound \/ Unfollowed(u, f) # {}
    <2>7. looked(w) = looked(v) /\ found(w) = found(v) /\ failed(w) = failed(v)
      BY <2>2, <2>5
    <2>8. looked(v) = Parse(v, root).seen
      BY <1>5 DEF Parse
    <2>9. /\ Parse(v, root) =
             [raml |-> TRUE, error |-> failed(v), kept |-> Restrict(v, D),
              read |-> found(v), seen |-> looked(v), lacked |-> looked(v) \ DOMAIN v]
          /\ Parse(w, root) =
             [raml |-> TRUE, error |-> failed(w), kept |-> Restrict(w, D),
              read |-> found(w), seen |-> looked(w), lacked |-> looked(w) \ DOMAIN w]
      BY <1>3, <1>5, <2>3 DEF Parse
    <2> HIDE DEF looked, found, failed
    <2> QED BY <2>4, <2>6, <2>7, <2>8, <2>9
  <1> QED BY <1>4, <1>5
-----------------------------------------------------------------------------
(* Snapshots.                                                              *)

ViewOf(b, d) == Restrict(Over(b, d), (DOMAIN b \cup DOMAIN d) \cap Inside)

LEMMA ViewOfFacts ==
    ASSUME NEW b, NEW d
    PROVE  /\ View = ViewOf(buffers, disk)
           /\ \A f : f \in DOMAIN ViewOf(b, d) <=>
                f \in Inside /\ (f \in DOMAIN b \/ f \in DOMAIN d)
           /\ \A f \in DOMAIN ViewOf(b, d) :
                ViewOf(b, d)[f] = IF f \in DOMAIN b THEN b[f] ELSE d[f]
           /\ IsView(b) /\ IsView(d) => IsView(ViewOf(b, d))
  <1>1. /\ \A f : f \in DOMAIN ViewOf(b, d) <=>
                f \in Inside /\ (f \in DOMAIN b \/ f \in DOMAIN d)
        /\ \A f \in DOMAIN ViewOf(b, d) :
                ViewOf(b, d)[f] = IF f \in DOMAIN b THEN b[f] ELSE d[f]
    BY DEF ViewOf, Restrict, Over
  <1>2. View = ViewOf(buffers, disk)
    BY DEF View, ViewOf
  <1>3. ASSUME IsView(b), IsView(d) PROVE IsView(ViewOf(b, d))
    BY <1>1, <1>3, FoldersAssumption DEF IsView
  <1> QED BY <1>1, <1>2, <1>3

(* s is the parse of root of some view, which says what the present one    *)
(* says of the files s looked at and that have not changed since.          *)
HeldIn(s, root, view, changed) ==
    \E v : /\ IsView(v) /\ s = Parse(v, root)
           /\ Agree(v, view, s.seen \ (changed \cup Unrecorded(s)))

LEMMA HeldFacts ==
    ASSUME NEW s, NEW root \in Files, NEW v, IsView(v), s = Parse(v, root)
    PROVE  /\ DOMAIN s.kept \subseteq s.read \cap s.seen \cap DOMAIN v
           /\ \A f \in DOMAIN s.kept : s.kept[f] = v[f]
           /\ \A f \in s.seen \ Unrecorded(s) :
                f \notin s.read => f \notin DOMAIN v /\ s.error
  <1>1. /\ DOMAIN s.kept \subseteq s.read \cap s.seen \cap DOMAIN v
        /\ \A f \in DOMAIN s.kept : s.kept[f] = v[f]
        /\ s.lacked = s.seen \ DOMAIN v
        /\ s.lacked # {} => s.error
    BY ParseRecords
  <1>2. ASSUME NEW f \in s.seen \ Unrecorded(s), f \notin s.read
        PROVE  f \notin DOMAIN v /\ s.error
    <2>1. f \in s.lacked
      BY <1>2 DEF Unrecorded
    <2> QED BY <1>1, <2>1
  <1> QED BY <1>1, <1>2

(* The file f changes, or a notice of it comes: s is still good if f is    *)
(* among the changed, if nothing about f changed, if s did not fail and    *)
(* does not read f, or if s does not read f, which was there and still is. *)
LEMMA HeldStill ==
    ASSUME NEW s, NEW root \in Files, NEW view, NEW changed, NEW after, NEW changes,
           HeldIn(s, root, view, changed),
           NEW f, \A g : g # f => AgreeAt(view, after, g), changed \ {f} \subseteq changes,
           \/ f \in changes
           \/ f \notin changed /\ AgreeAt(view, after, f)
           \/ f \notin s.read /\ ~s.error
           \/ /\ f \notin s.read /\ f \notin changed
              /\ f \notin DOMAIN view => AgreeAt(view, after, f)
    PROVE  HeldIn(s, root, after, changes)
  <1>1. PICK v : /\ IsView(v) /\ s = Parse(v, root)
                 /\ Agree(v, view, s.seen \ (changed \cup Unrecorded(s)))
    BY DEF HeldIn
  <1>2. \A g \in s.seen \ Unrecorded(s) : g \notin s.read => g \notin DOMAIN v /\ s.error
    BY <1>1, HeldFacts
  <1>3. ASSUME NEW g \in s.seen \ (changes \cup Unrecorded(s)) PROVE AgreeAt(v, after, g)
    <2>1. CASE g # f
      BY <1>1, <1>3, <2>1 DEF Agree, AgreeAt
    <2>2. CASE g = f
      BY <1>1, <1>2, <1>3, <2>2 DEF Agree, AgreeAt
    <2> QED BY <2>1, <2>2
  <1> QED BY <1>1, <1>3 DEF HeldIn, Agree

(* The inductive invariant.                                                *)
Texted == IsView(buffers) /\ IsView(disk)
Fresh(r) ==
    IF r \in Inside THEN HeldIn(snapshots[r], r, View, pending)
    ELSE snapshots[r] = Refused(r)
FreshInv == Texted /\ \A r \in DOMAIN snapshots : Fresh(r)

LEMMA FreshNow == FreshInv => SnapshotsFresh
  <1> SUFFICES ASSUME FreshInv, NEW r \in DOMAIN snapshots,
                      snapshots[r].seen \cap pending = {}, Unrecorded(snapshots[r]) = {}
               PROVE  snapshots[r] = Parsed(r)
    BY DEF SnapshotsFresh
  <1>1. CASE r \notin Inside
    BY <1>1 DEF FreshInv, Fresh, Parsed
  <1>2. CASE r \in Inside
    <2>1. PICK v : /\ IsView(v) /\ snapshots[r] = Parse(v, r)
                   /\ Agree(v, View, snapshots[r].seen)
      BY <1>2 DEF FreshInv, Fresh, HeldIn
    <2>2. IsView(View)
      BY ViewOfFacts DEF FreshInv, Texted
    <2>3. Parse(View, r) = Parse(v, r)
      BY <1>2, <2>1, <2>2, ParseLocal, FoldersAssumption
    <2> QED BY <1>2, <2>1, <2>3 DEF Parsed
  <1> QED BY <1>1, <1>2

LEMMA RefusedStill == ASSUME NEW r PROVE Refused(r)' = Refused(r)
  <1>1. Restrict(View, {})' = Restrict(View, {})
    BY DEF Restrict
  <1> QED BY <1>1 DEF Refused

LEMMA TouchedFacts ==
    ASSUME NEW f, NEW appeared, Touched(f, appeared)
    PROVE  /\ DOMAIN snapshots' \subseteq DOMAIN snapshots
           /\ \A r \in DOMAIN snapshots' :
                /\ snapshots'[r] = snapshots[r]
                /\ f \notin snapshots[r].read
                /\ appeared => ~snapshots[r].error
  BY DEF Touched, Stale, Drop, Restrict

(* A snapshot that outlives a step about f is fresh after it.              *)
LEMMA FreshStill ==
    ASSUME FreshInv, NEW f, Texted',
           \A g : g # f => AgreeAt(View, View', g), pending \ {f} \subseteq pending',
           NEW r \in DOMAIN snapshots, snapshots'[r] = snapshots[r],
           \/ f \in pending'
           \/ f \notin pending /\ AgreeAt(View, View', f)
           \/ f \notin snapshots[r].read /\ ~snapshots[r].error
           \/ /\ f \notin snapshots[r].read /\ f \notin pending
              /\ f \notin DOMAIN View => AgreeAt(View, View', f)
    PROVE  Fresh(r)'
  <1>1. CASE r \in Inside
    <2>1. HeldIn(snapshots[r], r, View, pending)
      BY <1>1 DEF FreshInv, Fresh
    <2>2. HeldIn(snapshots[r], r, View', pending')
      BY <1>1, <2>1, HeldStill, FoldersAssumption
    <2> QED BY <1>1, <2>2 DEF Fresh
  <1>2. CASE r \notin Inside
    BY <1>2, RefusedStill DEF FreshInv, Fresh
  <1> QED BY <1>1, <1>2

(* The views before and after a step that changes nothing but f.           *)
LEMMA ViewStill ==
    ASSUME NEW f,
           \A g : g # f => /\ g \in DOMAIN buffers' <=> g \in DOMAIN buffers
                           /\ g \in DOMAIN buffers => buffers'[g] = buffers[g]
                           /\ g \in DOMAIN disk' <=> g \in DOMAIN disk
                           /\ g \in DOMAIN disk => disk'[g] = disk[g]
    PROVE  /\ \A g : g # f => AgreeAt(View, View', g)
           /\ f \notin Inside => AgreeAt(View, View', f)
           /\ f \in DOMAIN View <=> f \in Inside /\ (f \in DOMAIN buffers \/ f \in DOMAIN disk)
           /\ f \in DOMAIN View =>
                View[f] = IF f \in DOMAIN buffers THEN buffers[f] ELSE disk[f]
           /\ f \in DOMAIN View' <=> f \in Inside /\ (f \in DOMAIN buffers' \/ f \in DOMAIN disk')
           /\ f \in DOMAIN View' =>
                View'[f] = IF f \in DOMAIN buffers' THEN buffers'[f] ELSE disk'[f]
  <1>1. View = ViewOf(buffers, disk) /\ View' = ViewOf(buffers', disk')
    BY DEF View, ViewOf
  <1>2. /\ \A g : g \in DOMAIN View <=> g \in Inside /\ (g \in DOMAIN buffers \/ g \in DOMAIN disk)
        /\ \A g \in DOMAIN View :
                View[g] = IF g \in DOMAIN buffers THEN buffers[g] ELSE disk[g]
    BY <1>1, ViewOfFacts
  <1>3. /\ \A g : g \in DOMAIN View' <=>
                g \in Inside /\ (g \in DOMAIN buffers' \/ g \in DOMAIN disk')
        /\ \A g \in DOMAIN View' :
                View'[g] = IF g \in DOMAIN buffers' THEN buffers'[g] ELSE disk'[g]
    BY <1>1, ViewOfFacts
  <1> HIDE <1>1
  <1> QED BY <1>2, <1>3 DEF AgreeAt

(* _put: where it drops nothing, the text is the one in view; where it     *)
(* does, what is left neither reads f nor, if f appeared, failed.          *)
LEMMA FreshPut ==
    ASSUME FreshInv, NEW f \in Files, NEW text \in Typed[f], NEW before,
           Put(f, text, before),
           \/ f \in DOMAIN buffers /\ before = {buffers[f]}
           \/ f \notin DOMAIN buffers /\ before \in ClosedText(f)
    PROVE  FreshInv'
  <1>1. /\ UNCHANGED <<disk, pending>>
        /\ DOMAIN buffers' = {f} \cup DOMAIN buffers /\ buffers'[f] = text
        /\ \A g \in DOMAIN buffers : g # f => buffers'[g] = buffers[g]
    BY DEF Put, With, Over
  <1>2. Texted'
    BY <1>1, TextsAssumption DEF FreshInv, Texted, IsView
  <1>3. /\ \A g : g # f => AgreeAt(View, View', g)
        /\ f \notin Inside => AgreeAt(View, View', f)
        /\ f \in DOMAIN View <=> f \in Inside /\ (f \in DOMAIN buffers \/ f \in DOMAIN disk)
        /\ f \in DOMAIN View =>
            View[f] = IF f \in DOMAIN buffers THEN buffers[f] ELSE disk[f]
        /\ f \in DOMAIN View' <=> f \in Inside
        /\ f \in DOMAIN View' => View'[f] = text
    BY <1>1, ViewStill
  (* What text(f) says, unless the disk changed since.                     *)
  <1>4. f \in pending \/ f \notin Inside \/
            (IF f \in DOMAIN View THEN before = {View[f]} ELSE before = {})
    <2>1. CASE f \in DOMAIN buffers
      BY <1>3, <2>1
    <2>2. CASE f \notin DOMAIN buffers /\ Keepers(f) = {}
      BY <1>3, <2>2 DEF ClosedText
    <2>3. CASE f \notin DOMAIN buffers /\ Keepers(f) # {}
      <3>1. PICK r \in Keepers(f) : before = {snapshots[r].kept[f]}
        BY <2>3 DEF ClosedText
      <3>2. r \in DOMAIN snapshots /\ f \in DOMAIN snapshots[r].kept
        BY <3>1 DEF Keepers
      <3>3. r \in Inside
        BY <3>2 DEF FreshInv, Fresh, Refused, Restrict
      <3>4. PICK v : /\ IsView(v) /\ snapshots[r] = Parse(v, r)
                     /\ Agree(v, View, snapshots[r].seen \ (pending \cup Unrecorded(snapshots[r])))
        BY <3>2, <3>3 DEF FreshInv, Fresh, HeldIn
      <3>5. /\ DOMAIN snapshots[r].kept \subseteq
                    snapshots[r].read \cap snapshots[r].seen \cap DOMAIN v
            /\ \A g \in DOMAIN snapshots[r].kept : snapshots[r].kept[g] = v[g]
        BY <3>3, <3>4, HeldFacts, FoldersAssumption
      <3>6. f \in snapshots[r].seen /\ f \notin Unrecorded(snapshots[r])
        BY <3>2, <3>5 DEF Unrecorded
      <3>7. f \notin pending => AgreeAt(v, View, f)
        BY <3>4, <3>6 DEF Agree
      <3> QED BY <3>1, <3>2, <3>5, <3>7 DEF AgreeAt
    <2> QED BY <2>1, <2>2, <2>3
  <1>5. CASE before = {text}
    <2>1. snapshots' = snapshots
      BY <1>5 DEF Put, Untouched
    <2>2. f \in pending \/ AgreeAt(View, View', f)
      BY <1>3, <1>4, <1>5 DEF AgreeAt
    <2>3. ASSUME NEW r \in DOMAIN snapshots PROVE Fresh(r)'
      BY <1>1, <1>2, <1>3, <2>1, <2>2, FreshStill
    <2> QED BY <1>2, <2>1, <2>3 DEF FreshInv
  <1>6. CASE before # {text}
    <2>1. Touched(f, before = {})
      BY <1>6 DEF Put
    <2>2. /\ DOMAIN snapshots' \subseteq DOMAIN snapshots
          /\ \A r \in DOMAIN snapshots' :
                /\ snapshots'[r] = snapshots[r]
                /\ f \notin snapshots[r].read
                /\ before = {} => ~snapshots[r].error
      BY <2>1, TouchedFacts
    <2>3. \/ f \in pending \/ before = {}
          \/ f \notin DOMAIN View => AgreeAt(View, View', f)
      BY <1>3, <1>4
    <2>4. ASSUME NEW r \in DOMAIN snapshots' PROVE Fresh(r)'
      BY <1>1, <1>2, <1>3, <2>2, <2>3, <2>4, FreshStill
    <2> QED BY <1>2, <2>4 DEF FreshInv
  <1> QED BY <1>5, <1>6

LEMMA FreshClose ==
    ASSUME FreshInv, NEW f \in Files, Close(f)
    PROVE  FreshInv'
  <1>1. /\ f \in DOMAIN buffers /\ UNCHANGED <<disk, pending>> /\ Touched(f, FALSE)
        /\ DOMAIN buffers' = DOMAIN buffers \ {f}
        /\ \A g \in DOMAIN buffers \ {f} : buffers'[g] = buffers[g]
    BY DropFacts DEF Close
  <1>2. Texted'
    BY <1>1 DEF FreshInv, Texted, IsView
  <1>3. /\ \A g : g # f => AgreeAt(View, View', g)
        /\ f \notin DOMAIN View => AgreeAt(View, View', f)
    BY <1>1, ViewStill
  <1>4. /\ DOMAIN snapshots' \subseteq DOMAIN snapshots
        /\ \A r \in DOMAIN snapshots' :
            snapshots'[r] = snapshots[r] /\ f \notin snapshots[r].read
    BY <1>1, TouchedFacts
  <1>5. ASSUME NEW r \in DOMAIN snapshots' PROVE Fresh(r)'
    BY <1>1, <1>2, <1>3, <1>4, <1>5, FreshStill
  <1> QED BY <1>2, <1>5 DEF FreshInv

LEMMA FreshNotice ==
    ASSUME FreshInv, NEW f, ChangedOnDisk(f)
    PROVE  FreshInv'
  <1>1. UNCHANGED <<disk, buffers>> /\ pending' = pending \ {f} /\ Touched(f, TRUE)
    BY DEF ChangedOnDisk
  <1>2. View' = View /\ Texted'
    BY <1>1 DEF View, FreshInv, Texted
  <1>3. /\ DOMAIN snapshots' \subseteq DOMAIN snapshots
        /\ \A r \in DOMAIN snapshots' :
            /\ snapshots'[r] = snapshots[r]
            /\ f \notin snapshots[r].read /\ ~snapshots[r].error
    BY <1>1, TouchedFacts
  <1>4. \A g : AgreeAt(View, View', g)
    BY <1>2 DEF AgreeAt
  <1>5. ASSUME NEW r \in DOMAIN snapshots' PROVE Fresh(r)'
    BY <1>1, <1>2, <1>3, <1>4, <1>5, FreshStill
  <1> QED BY <1>2, <1>5 DEF FreshInv

LEMMA FreshDisk ==
    ASSUME FreshInv, NEW f \in Volatile,
           (\E text \in Written[f] : Write(f, text)) \/ Delete(f)
    PROVE  FreshInv'
  <1>1. /\ pending' = pending \cup {f} /\ UNCHANGED <<buffers, snapshots>>
        /\ \A g : g # f => /\ g \in DOMAIN disk' <=> g \in DOMAIN disk
                           /\ g \in DOMAIN disk => disk'[g] = disk[g]
        /\ IsView(disk')
    <2> USE DEF FreshInv, Texted, IsView
    <2>1. CASE \E text \in Written[f] : Write(f, text)
      <3>1. PICK text \in Written[f] : Write(f, text)
        BY <2>1
      <3>2. /\ DOMAIN disk' = {f} \cup DOMAIN disk /\ disk'[f] = text
            /\ \A g \in DOMAIN disk : g # f => disk'[g] = disk[g]
        BY <3>1 DEF Write, With, Over
      <3>3. f \in Files /\ text \in Texts
        BY FoldersAssumption, TextsAssumption
      <3> QED BY <3>1, <3>2, <3>3 DEF Write
    <2>2. CASE Delete(f)
      BY <2>2, DropFacts DEF Delete
    <2> QED BY <2>1, <2>2
  <1>2. Texted'
    BY <1>1 DEF FreshInv, Texted
  <1>3. \A g : g # f => AgreeAt(View, View', g)
    BY <1>1, ViewStill
  <1>4. ASSUME NEW r \in DOMAIN snapshots' PROVE Fresh(r)'
    BY <1>1, <1>2, <1>3, <1>4, FreshStill
  <1> QED BY <1>2, <1>4 DEF FreshInv

(* A query parses what it needs of the present view.                       *)
LEMMA FreshQuery ==
    ASSUME FreshInv,
           \/ AllReaders
           \/ \E f \in Files : Serve(f) \/ AskFor(f)
           \/ UNCHANGED vars
    PROVE  FreshInv'
  <1>1. /\ UNCHANGED <<disk, pending, buffers>>
        /\ \A r \in DOMAIN snapshots' :
            \/ r \in DOMAIN snapshots /\ snapshots'[r] = snapshots[r]
            \/ snapshots'[r] = Parsed(r)
    <2>1. ASSUME NEW rs, snapshots' = Over(snapshots, [r \in rs |-> Parsed(r)])
          PROVE  \A r \in DOMAIN snapshots' :
                    \/ r \in DOMAIN snapshots /\ snapshots'[r] = snapshots[r]
                    \/ snapshots'[r] = Parsed(r)
      BY <2>1 DEF Over
    <2> QED BY <2>1 DEF AllReaders, Serve, AskFor, BringCurrent, vars
  <1>2. View' = View /\ Texted'
    BY <1>1 DEF View, FreshInv, Texted
  <1>3. ASSUME NEW r \in DOMAIN snapshots' PROVE Fresh(r)'
    <2>1. CASE r \in DOMAIN snapshots /\ snapshots'[r] = snapshots[r]
      BY <1>1, <1>2, <2>1, RefusedStill DEF FreshInv, Fresh
    <2>2. CASE snapshots'[r] = Parsed(r)
      <3>1. IsView(View)
        BY ViewOfFacts DEF FreshInv, Texted
      <3>2. r \in Inside => HeldIn(Parsed(r), r, View, pending)
        BY <3>1 DEF HeldIn, Parsed, Agree, AgreeAt
      <3> QED BY <1>1, <1>2, <2>2, <3>2, RefusedStill DEF Fresh, Parsed
    <2> QED BY <1>1, <2>1, <2>2
  <1> QED BY <1>2, <1>3 DEF FreshInv
-----------------------------------------------------------------------------
(* Whatever is opened, edited, closed, written, deleted and asked, in any  *)
(* order, a snapshot still held is what a parse would give now (_touched,  *)
(* _put, close), but for files changed without a notice and for those it   *)
(* read and did not record.                                                *)
THEOREM SpecSnapshotsFresh == Spec => []SnapshotsFresh
  <1>1. Init => FreshInv
    <2> SUFFICES ASSUME Init PROVE FreshInv
      OBVIOUS
    <2>1. DOMAIN buffers = {} /\ DOMAIN snapshots = {}
      BY DEF Init, Restrict
    <2>2. DOMAIN disk = OnDisk /\ \A f \in OnDisk : f \in Files /\ disk[f] \in Texts
      BY TextsAssumption DEF Init, OnDisk
    <2> QED BY <2>1, <2>2 DEF FreshInv, Texted, IsView
  <1>2. FreshInv /\ [Next]_vars => FreshInv'
    <2> SUFFICES ASSUME FreshInv, [Next]_vars PROVE FreshInv'
      OBVIOUS
    <2>1. CASE \E f \in Files : \E text \in Typed[f] : Open(f, text) \/ Change(f, text)
      BY <2>1, FreshPut DEF Open, Change
    <2>2. CASE \E f \in Files : Close(f)
      BY <2>2, FreshClose
    <2>3. CASE \E f \in Volatile : (\E text \in Written[f] : Write(f, text)) \/ Delete(f)
      BY <2>3, FreshDisk
    <2>4. CASE \E f \in Volatile : ChangedOnDisk(f)
      BY <2>4, FreshNotice
    <2>5. CASE \/ AllReaders
               \/ \E f \in Files : Serve(f) \/ AskFor(f)
               \/ UNCHANGED vars
      BY <2>5, FreshQuery
    <2> QED BY <2>1, <2>2, <2>3, <2>4, <2>5 DEF Next
  <1> QED BY <1>1, <1>2, FreshNow, PTL DEF Spec

-----------------------------------------------------------------------------
(* The collector.                                                          *)
DepthIsRunning == depth = Cardinality(Running)

(* The holder of _lock is the one span between a read of the thresholds    *)
(* and the write that follows it.                                          *)
LockHeld ==
    \A s \in Spans : lock = s <=> pc[s] \in {"raising", "restoring"}

RaisingInv ==
    \A s \in Spans : pc[s] = "raising" =>
        /\ depth = 0 /\ saved = None
        /\ current.full < FullCollectionThreshold
        /\ ~blurred => current = threshold

RestoringInv ==
    \A s \in Spans : pc[s] = "restoring" =>
        /\ depth = 0 /\ saved # None
        /\ ~blurred => threshold = ours

SavedInv ==
    /\ saved = None => ours = None
    /\ saved # None => /\ ours = Tuned(saved)
                       /\ saved.full < FullCollectionThreshold
    /\ depth = 0 /\ lock = Nobody => saved = None

(* Either nothing is saved and the thresholds are the host's; or what is   *)
(* saved is the host's and ours are in force; or the host has since set    *)
(* thresholds of its own that _leave can tell from ours.                   *)
Attributable ==
    ~blurred =>
        \/ saved = None /\ threshold = host
        \/ saved # None /\ threshold = ours /\ saved = host
        \/ saved # None /\ threshold = host /\ threshold # ours

TuningInv ==
    /\ TypeOK /\ DepthIsRunning /\ LockHeld /\ RaisingInv /\ RestoringInv
    /\ SavedInv /\ Attributable
-----------------------------------------------------------------------------
(* The threshold triples, as the actions build them.                       *)
LEMMA TunedType ==
    ASSUME NEW th \in Thresholds
    PROVE  /\ Tuned(th) \in Thresholds /\ Tuned(th) # None
           /\ Tuned(th).full = FullCollectionThreshold
           /\ Tuned(th).young = th.young
  BY NoneAssumption DEF Tuned, Thresholds

LEMMA HostThresholdsAreThresholds ==
    ASSUME NEW th \in HostThresholds
    PROVE  th \in Thresholds /\ th # None
  BY NoneAssumption DEF HostThresholds, Thresholds

LEMMA YoungType ==
    ASSUME NEW y \in Young
    PROVE  /\ \A th \in Thresholds : [th EXCEPT !.young = y] \in Thresholds
           /\ \A th \in HostThresholds : [th EXCEPT !.young = y] \in HostThresholds
  BY DEF HostThresholds, Thresholds

(* A span that starts or stops running moves the count of them by one.     *)
LEMMA CountRunning ==
    ASSUME NEW R \in SUBSET Spans, NEW s \in Spans
    PROVE  /\ Cardinality(R) \in Nat
           /\ s \notin R => Cardinality(R \cup {s}) = Cardinality(R) + 1
           /\ s \in R => /\ Cardinality(R \ {s}) = Cardinality(R) - 1
                         /\ Cardinality(R) > 0
  <1>1. IsFiniteSet(R)
    BY FS_Subset, SpansAssumption
  <1>2. Cardinality(R) \in Nat
    BY <1>1, FS_CardinalityType
  <1>3. s \notin R => Cardinality(R \cup {s}) = Cardinality(R) + 1
    BY <1>1, FS_AddElement
  <1>4. s \in R => Cardinality(R \ {s}) = Cardinality(R) - 1
    BY <1>1, FS_RemoveElement
  <1>5. s \in R => Cardinality(R \ {s}) \in Nat
    BY <1>1, FS_RemoveElement, FS_CardinalityType
  <1> QED BY <1>2, <1>3, <1>4, <1>5

LEMMA TuningInvInit == TuningInit => TuningInv
  <1> SUFFICES ASSUME TuningInit PROVE TuningInv
    OBVIOUS
  <1>1. TypeOK
    BY HostThresholdsAreThresholds DEF TuningInit, TypeOK
  <1>2. DepthIsRunning
    <2>1. Running = {}
      BY DEF TuningInit, Running
    <2> QED BY <2>1, FS_EmptySet DEF TuningInit, DepthIsRunning
  <1>3. LockHeld /\ RaisingInv /\ RestoringInv /\ SavedInv /\ Attributable
    BY SpansAssumption
    DEF TuningInit, LockHeld, RaisingInv, RestoringInv, SavedInv, Attributable
  <1> QED BY <1>1, <1>2, <1>3 DEF TuningInv
-----------------------------------------------------------------------------
(* One lemma per action.                                                   *)
LEMMA BeginStep ==
    ASSUME TuningInv, NEW s \in Spans, Begin(s)
    PROVE  TuningInv'
  <1> USE DEF TuningInv, Begin
  <1>1. TypeOK' /\ Running' = Running
    BY DEF TypeOK, Running
  <1>2. DepthIsRunning'
    BY <1>1 DEF DepthIsRunning
  <1>3. LockHeld' /\ RaisingInv' /\ RestoringInv'
    BY DEF TypeOK, LockHeld, RaisingInv, RestoringInv
  <1>4. SavedInv' /\ Attributable'
    BY DEF SavedInv, Attributable
  <1> QED BY <1>1, <1>2, <1>3, <1>4

LEMMA EnterStep ==
    ASSUME TuningInv, NEW s \in Spans, Enter(s)
    PROVE  TuningInv'
  <1> USE DEF TuningInv
  <1>1. CASE FirstToRaise /\ lock' = s /\ current' = threshold
             /\ pc' = [pc EXCEPT ![s] = "raising"] /\ UNCHANGED depth
    <2>1. TypeOK' /\ Running' = Running
      BY <1>1 DEF TypeOK, Running, Enter
    <2>2. DepthIsRunning'
      BY <1>1, <2>1 DEF DepthIsRunning
    <2>3. LockHeld'
      BY <1>1, SpansAssumption DEF TypeOK, LockHeld, Enter
    <2>4. saved = None
      BY <1>1 DEF SavedInv, FirstToRaise, Enter
    <2>5. RaisingInv' /\ RestoringInv'
      BY <1>1, <2>4 DEF TypeOK, RaisingInv, RestoringInv, Enter, FirstToRaise
    <2>6. SavedInv' /\ Attributable'
      BY <1>1, <2>4 DEF SavedInv, Attributable, Enter
    <2> QED BY <2>1, <2>2, <2>3, <2>5, <2>6
  <1>2. CASE ~FirstToRaise /\ depth' = depth + 1
             /\ pc' = [pc EXCEPT ![s] = "running"] /\ UNCHANGED <<lock, current>>
    <2>1. TypeOK'
      BY <1>2 DEF TypeOK, Enter
    <2>2. Running' = Running \cup {s} /\ s \notin Running
      BY <1>2 DEF TypeOK, Running, Enter
    <2>3. DepthIsRunning'
      BY <1>2, <2>2, CountRunning DEF DepthIsRunning, Running
    <2>4. LockHeld'
      BY <1>2, SpansAssumption DEF TypeOK, LockHeld, Enter
    <2>5. \A t \in Spans : pc[t] \notin {"raising", "restoring"}
      BY SpansAssumption DEF LockHeld, Enter
    <2>6. RaisingInv' /\ RestoringInv'
      BY <1>2, <2>5 DEF TypeOK, RaisingInv, RestoringInv
    <2>7. SavedInv' /\ Attributable'
      BY <1>2 DEF SavedInv, Attributable, Enter, TypeOK
    <2> QED BY <2>1, <2>3, <2>4, <2>6, <2>7
  <1> QED BY <1>1, <1>2 DEF Enter

LEMMA RaiseStep ==
    ASSUME TuningInv, NEW s \in Spans, Raise(s)
    PROVE  TuningInv'
  <1> USE DEF TuningInv
  <1>1. /\ current \in Thresholds /\ current # None
        /\ Tuned(current) \in Thresholds /\ Tuned(current) # None
        /\ Tuned(current).full = FullCollectionThreshold
    BY TunedType, NoneAssumption DEF TypeOK
  <1>2. TypeOK'
    BY <1>1 DEF TypeOK, Raise
  <1>3. Running' = Running \cup {s} /\ s \notin Running
    BY DEF TypeOK, Running, Raise
  <1>4. DepthIsRunning'
    BY <1>3, CountRunning DEF DepthIsRunning, Running, Raise
  <1>5. lock = s /\ \A t \in Spans : t # s => pc[t] \notin {"raising", "restoring"}
    BY DEF LockHeld, Raise
  <1>6. LockHeld' /\ RaisingInv' /\ RestoringInv'
    BY <1>5, SpansAssumption
    DEF TypeOK, LockHeld, RaisingInv, RestoringInv, Raise
  <1>7. SavedInv'
    BY <1>1 DEF SavedInv, RaisingInv, Raise, TypeOK
  <1>8. ~blurred => current = host
    BY DEF RaisingInv, Attributable, Raise
  <1>9. Attributable'
    BY <1>1, <1>8 DEF Attributable, Raise
  <1> QED BY <1>2, <1>4, <1>6, <1>7, <1>9

LEMMA FinishStep ==
    ASSUME TuningInv, NEW s \in Spans, Finish(s)
    PROVE  TuningInv'
  <1> USE DEF TuningInv, Finish
  <1>1. TypeOK' /\ Running' = Running
    BY DEF TypeOK, Running
  <1>2. DepthIsRunning'
    BY <1>1 DEF DepthIsRunning
  <1>3. LockHeld' /\ RaisingInv' /\ RestoringInv'
    BY DEF TypeOK, LockHeld, RaisingInv, RestoringInv
  <1>4. SavedInv' /\ Attributable'
    BY DEF SavedInv, Attributable
  <1> QED BY <1>1, <1>2, <1>3, <1>4

LEMMA LeaveStep ==
    ASSUME TuningInv, NEW s \in Spans, Leave(s)
    PROVE  TuningInv'
  <1> USE DEF TuningInv
  <1>1. s \in Running /\ Running \in SUBSET Spans
    BY DEF Running, Leave
  <1>2. /\ depth \in Nat /\ depth > 0 /\ depth - 1 \in Nat
        /\ Cardinality(Running \ {s}) = depth - 1
    BY <1>1, CountRunning DEF DepthIsRunning, TypeOK
  <1>3. \A t \in Spans : pc[t] \notin {"raising", "restoring"}
    BY SpansAssumption DEF LockHeld, Leave
  <1>4. Running' = Running \ {s}
    BY DEF TypeOK, Running, Leave
  <1>5. DepthIsRunning'
    BY <1>2, <1>4 DEF DepthIsRunning, Leave
  <1>6. CASE NothingToRestore /\ pc' = [pc EXCEPT ![s] = "idle"]
             /\ UNCHANGED <<saved, ours, lock>>
    <2>1. TypeOK'
      BY <1>2, <1>6 DEF TypeOK, Leave
    <2>2. LockHeld' /\ RaisingInv' /\ RestoringInv'
      BY <1>3, <1>6, SpansAssumption
      DEF TypeOK, LockHeld, RaisingInv, RestoringInv, Leave
    <2>3. SavedInv' /\ Attributable'
      BY <1>2, <1>6 DEF SavedInv, Attributable, Leave, NothingToRestore
    <2> QED BY <1>5, <2>1, <2>2, <2>3
  <1>7. CASE ~NothingToRestore /\ threshold # ours /\ saved' = None /\ ours' = None
             /\ pc' = [pc EXCEPT ![s] = "idle"] /\ UNCHANGED lock
    <2>1. TypeOK'
      BY <1>2, <1>7 DEF TypeOK, Leave
    <2>2. LockHeld' /\ RaisingInv' /\ RestoringInv'
      BY <1>3, <1>7, SpansAssumption
      DEF TypeOK, LockHeld, RaisingInv, RestoringInv, Leave
    <2>3. SavedInv' /\ Attributable'
      BY <1>7 DEF SavedInv, Attributable, Leave, NothingToRestore
    <2> QED BY <1>5, <2>1, <2>2, <2>3
  <1>8. CASE ~NothingToRestore /\ threshold = ours /\ lock' = s
             /\ pc' = [pc EXCEPT ![s] = "restoring"] /\ UNCHANGED <<saved, ours>>
    <2>1. TypeOK'
      BY <1>2, <1>8 DEF TypeOK, Leave
    <2>2. LockHeld'
      BY <1>3, <1>8, SpansAssumption DEF TypeOK, LockHeld, Leave
    <2>3. RaisingInv' /\ RestoringInv'
      BY <1>2, <1>3, <1>8
      DEF TypeOK, RaisingInv, RestoringInv, Leave, NothingToRestore
    <2>4. SavedInv' /\ Attributable'
      BY <1>8, SpansAssumption DEF SavedInv, Attributable, Leave
    <2> QED BY <1>5, <2>1, <2>2, <2>3, <2>4
  <1> QED BY <1>6, <1>7, <1>8 DEF Leave

LEMMA RestoreStep ==
    ASSUME TuningInv, NEW s \in Spans, Restore(s)
    PROVE  TuningInv'
  <1> USE DEF TuningInv
  <1>1. saved # None /\ depth = 0 /\ (~blurred => threshold = ours)
    BY DEF RestoringInv, Restore
  <1>2. TypeOK' /\ Running' = Running
    BY <1>1 DEF TypeOK, Running, Restore
  <1>3. DepthIsRunning'
    BY <1>2 DEF DepthIsRunning, Restore
  <1>4. lock = s /\ \A t \in Spans : t # s => pc[t] \notin {"raising", "restoring"}
    BY DEF LockHeld, Restore
  <1>5. LockHeld' /\ RaisingInv' /\ RestoringInv'
    BY <1>4, SpansAssumption
    DEF TypeOK, LockHeld, RaisingInv, RestoringInv, Restore
  <1>6. SavedInv' /\ Attributable'
    BY <1>1 DEF SavedInv, Attributable, Restore
  <1> QED BY <1>2, <1>3, <1>5, <1>6
-----------------------------------------------------------------------------
LEMMA HostSetsStep ==
    ASSUME TuningInv, NEW th \in HostThresholds, HostSets(th)
    PROVE  TuningInv'
  <1> USE DEF TuningInv, HostSets, tuning
  <1>1. th \in Thresholds /\ th # None
    BY HostThresholdsAreThresholds
  <1>2. blurred' \in BOOLEAN /\ (~blurred' => lock = Nobody /\ th # ours)
    OBVIOUS
  <1>3. TypeOK' /\ Running' = Running
    BY <1>1, <1>2 DEF TypeOK, Running
  <1>4. DepthIsRunning' /\ LockHeld'
    BY <1>3 DEF DepthIsRunning, LockHeld
  <1>5. ~blurred' => \A t \in Spans : pc[t] \notin {"raising", "restoring"}
    BY <1>2, SpansAssumption DEF LockHeld
  <1>6. RaisingInv' /\ RestoringInv'
    BY <1>5 DEF RaisingInv, RestoringInv
  <1>7. SavedInv' /\ Attributable'
    BY <1>2 DEF SavedInv, Attributable
  <1> QED BY <1>3, <1>4, <1>6, <1>7

LEMMA HostSetsYoungStep ==
    ASSUME TuningInv, NEW y \in Young, HostSetsYoung(y)
    PROVE  TuningInv'
  <1> USE DEF TuningInv
  <1> DEFINE th == [threshold EXCEPT !.young = y]
  <1>1. /\ threshold' = th /\ host' = [host EXCEPT !.young = y]
        /\ blurred' = (blurred \/ lock # Nobody \/ th = ours \/ threshold = ours)
        /\ UNCHANGED <<gcEnabled, enabled, depth, saved, ours, lock, current, pc>>
    BY DEF HostSetsYoung, tuning
  <1>2. th \in Thresholds /\ host' \in HostThresholds
    BY <1>1, YoungType DEF TypeOK
  <1> HIDE DEF th
  <1>3. blurred' \in BOOLEAN /\ (~blurred' =>
          ~blurred /\ lock = Nobody /\ th # ours /\ threshold # ours)
    BY <1>1
  <1>4. TypeOK' /\ Running' = Running
    BY <1>1, <1>2, <1>3 DEF TypeOK, Running
  <1>5. DepthIsRunning' /\ LockHeld'
    BY <1>1, <1>4 DEF DepthIsRunning, LockHeld
  <1>6. ~blurred' => \A t \in Spans : pc[t] \notin {"raising", "restoring"}
    BY <1>3, SpansAssumption DEF LockHeld
  <1>7. RaisingInv' /\ RestoringInv'
    BY <1>1, <1>6 DEF RaisingInv, RestoringInv
  <1>8. threshold = host => host' = th
    BY <1>1 DEF th
  <1>9. SavedInv' /\ Attributable'
    BY <1>1, <1>3, <1>8 DEF SavedInv, Attributable
  <1> QED BY <1>4, <1>5, <1>7, <1>9

LEMMA OtherStep ==
    ASSUME TuningInv, SetGcTuning \/ HostSwitches \/ UNCHANGED tuningVars
    PROVE  TuningInv'
  <1> USE DEF TuningInv, SetGcTuning, HostSwitches, tuningVars, tuning
  <1>1. TypeOK' /\ Running' = Running
    BY DEF TypeOK, Running
  <1>2. DepthIsRunning' /\ LockHeld' /\ RaisingInv' /\ RestoringInv'
    BY <1>1 DEF DepthIsRunning, LockHeld, RaisingInv, RestoringInv
  <1>3. SavedInv' /\ Attributable'
    BY DEF SavedInv, Attributable
  <1> QED BY <1>1, <1>2, <1>3

(* The inductive invariant holds in every behaviour.                       *)
THEOREM TuningInductive == TuningSpec => []TuningInv
  <1>1. TuningInit => TuningInv
    BY TuningInvInit
  <1>2. TuningInv /\ [TuningNext]_tuningVars => TuningInv'
    BY BeginStep, EnterStep, RaiseStep, FinishStep, LeaveStep, RestoreStep,
       HostSetsStep, HostSetsYoungStep, OtherStep
    DEF TuningNext, SpanStep
  <1> QED BY <1>1, <1>2, PTL DEF TuningSpec

(* The module's globals, and each operation's place in tuned_gc, keep      *)
(* their types; _depth never goes below zero (gctuning.py:35-45).          *)
THEOREM TuningTypeCorrect == TuningSpec => []TypeOK
  <1>1. TuningInv => TypeOK
    BY DEF TuningInv
  <1> QED BY <1>1, TuningInductive, PTL
-----------------------------------------------------------------------------
(* No span runs exactly when the depth is 0.                               *)
LEMMA NoneRunning ==
    ASSUME TuningInv
    PROVE  depth = 0 <=> Running = {}
  <1>1. IsFiniteSet(Running)
    BY FS_Subset, SpansAssumption DEF Running
  <1> QED BY <1>1, FS_EmptySet DEF TuningInv, DepthIsRunning

(* Once no operation runs the process has the thresholds the host last     *)
(* asked for (_leave, gctuning.py:83-91).                                  *)
THEOREM HostThresholdsBackHolds == TuningSpec => []HostThresholdsBack
  <1>1. TuningInv => HostThresholdsBack
    BY NoneRunning DEF TuningInv, SavedInv, Attributable, HostThresholdsBack
  <1> QED BY <1>1, TuningInductive, PTL

(* The host's generation 2 threshold is never lowered, its young ones      *)
(* never touched (gctuning.py:9-14).                                       *)
THEOREM OnlyRaisesHolds == TuningSpec => []OnlyRaises
  <1>1. TuningInv => OnlyRaises
    <2> SUFFICES ASSUME TuningInv, ~blurred
                 PROVE  threshold.full >= host.full /\ threshold.young = host.young
      BY DEF OnlyRaises
    <2>1. /\ threshold \in Thresholds /\ host \in Thresholds
          /\ host.full \in Nat /\ FullCollectionThreshold \in Nat
      BY HostThresholdsAreThresholds, ThresholdAssumption
      DEF TuningInv, TypeOK, HostThresholds
    <2>2. CASE threshold = host
      BY <2>1, <2>2
    <2>3. CASE saved # None /\ threshold = ours /\ saved = host
      <3>1. threshold = Tuned(host) /\ host.full < FullCollectionThreshold
        BY <2>3 DEF TuningInv, SavedInv
      <3>2. /\ threshold.full = FullCollectionThreshold
            /\ threshold.young = host.young
        BY <2>1, <3>1, TunedType
      <3> QED BY <2>1, <3>1, <3>2
    <2> QED BY <2>2, <2>3 DEF TuningInv, Attributable
  <1> QED BY <1>1, TuningInductive, PTL

(* While an operation keeps running no step of another one changes the     *)
(* thresholds: not the first to leave, not a later one to enter            *)
(* (gctuning.py:16-17).                                                    *)
THEOREM NoRestoreUnderAnotherHolds == TuningSpec => NoRestoreUnderAnother
  <1> DEFINE A == Running \cap Running' # {} /\ pc' # pc => threshold' = threshold
  <1>1. TuningInv /\ [TuningNext]_tuningVars => [A]_tuningVars
    <2> SUFFICES ASSUME TuningInv, TuningNext, Running # {}, pc' # pc
                 PROVE  threshold' = threshold
      OBVIOUS
    <2>1. ASSUME NEW s \in Spans, SpanStep(s)
          PROVE  threshold' = threshold
      <3>1. depth # 0
        BY NoneRunning
      <3>2. pc[s] \notin {"raising", "restoring"}
        BY <3>1 DEF TuningInv, RaisingInv, RestoringInv
      <3> QED BY <2>1, <3>2
        DEF SpanStep, Begin, Enter, Raise, Finish, Leave, Restore
    <2>2. CASE SetGcTuning
      BY <2>2 DEF SetGcTuning
    <2>3. ASSUME NEW th \in HostThresholds, HostSets(th) PROVE FALSE
      BY <2>3 DEF HostSets, tuning
    <2>4. ASSUME NEW y \in Young, HostSetsYoung(y) PROVE FALSE
      BY <2>4 DEF HostSetsYoung, tuning
    <2>5. CASE HostSwitches
      BY <2>5 DEF HostSwitches, tuning
    <2> QED BY <2>1, <2>2, <2>3, <2>4, <2>5 DEF TuningNext
  <1>2. NoRestoreUnderAnother <=> [][A]_tuningVars
    BY DEF NoRestoreUnderAnother
  <1> QED BY <1>1, <1>2, TuningInductive, PTL DEF TuningSpec
=============================================================================
