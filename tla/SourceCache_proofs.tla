------------------------- MODULE SourceCache_proofs -------------------------
(***************************************************************************)
(* For any files, roots, texts and policies: the owner of composed trees   *)
(* keeps only what is current, and its cache implements SourceStore.       *)
(***************************************************************************)
EXTENDS SourceCache, TLAPS

Trees == {None} \cup (Texts \X Depths)
Entries == [text : Texts, depth : Depths, root : Trees]
Owners == [entries : [Files -> {None} \cup Entries], changed : [Files -> Nat],
           policyGeneration : Nat, maxDepth : Depths, generation : Nat]

(* A snapshot as _parse makes it.                                          *)
IsSnapshot(s) ==
    /\ s.read \subseteq Files /\ s.texts \in [s.read -> Texts]
    /\ s.depth \in Depths /\ s.generation \in Nat

Snapshots == Live \cup held

TypeOK ==
    /\ text \in [Files -> Texts] /\ depth \in Depths
    /\ missed \subseteq Files
    /\ DOMAIN snapshots = Roots
    /\ \A s \in Snapshots : IsSnapshot(s)

(* An owner whose entries are whole and current, its generations past.     *)
Sound(o) ==
    /\ o \in Owners
    /\ o.policyGeneration <= o.generation
    /\ \A f \in Files : o.changed[f] <= o.generation
    /\ \A f \in Files : o.entries[f] # None =>
        /\ o.entries[f].root = Compose(o.entries[f].text, o.entries[f].depth)
        /\ o.entries[f].depth = o.maxDepth
        /\ f \in missed \/ o.entries[f].text = text[f]

SnapshotsPast == \A s \in Snapshots : s.generation <= sources.generation

(* A snapshot as recent as the last change remembered of f has its present *)
(* text, unless a change of f was missed.                                  *)
RecentKnowText ==
    \A s \in Snapshots : \A f \in s.read :
        s.generation >= sources.changed[f] =>
            f \in missed \/ s.texts[f] = text[f]

IInv == TypeOK /\ Sound(sources) /\ SnapshotsPast /\ RecentKnowText
-----------------------------------------------------------------------------
(* The operators of Sources.                                               *)
LEMMA ComposeType ==
    ASSUME NEW t \in Texts, NEW d \in Depths
    PROVE  Compose(t, d) \in Trees
  BY DEF Compose, Trees

LEMMA EntryIsSomething ==
    ASSUME NEW e \in Entries
    PROVE  e # None
  BY NoneAssumption DEF Entries, Trees

LEMMA ConfigureType ==
    ASSUME NEW o \in Owners, NEW d \in Depths
    PROVE  /\ Configure(o, d) \in Owners
           /\ Configure(o, d).maxDepth = d
           /\ Configure(o, d).changed = o.changed
           /\ Configure(o, d).generation >= o.generation
           /\ \/ Configure(o, d) = o
              \/ /\ Configure(o, d).policyGeneration = Configure(o, d).generation
                 /\ Configure(o, d).entries = [f \in Files |-> None]
  <1>1. CASE d = o.maxDepth
    BY <1>1 DEF Configure, Owners
  <1>2. CASE d # o.maxDepth
    <2>1. Configure(o, d) =
            [entries |-> [f \in Files |-> None], changed |-> o.changed,
             policyGeneration |-> o.generation + 1, maxDepth |-> d,
             generation |-> o.generation + 1]
      BY <1>2 DEF Configure, Owners
    <2>2. [f \in Files |-> None] \in [Files -> {None} \cup Entries]
      OBVIOUS
    <2>3. o.changed \in [Files -> Nat] /\ o.generation \in Nat
      BY DEF Owners
    <2>4. Configure(o, d) \in Owners
      BY <2>1, <2>2, <2>3 DEF Owners
    <2>5. QED  BY <2>1, <2>3, <2>4
  <1>3. QED  BY <1>1, <1>2

(* A reader is given the composition of what it asks about, when what is   *)
(* stored is whole and what it brings is that composition.                 *)
LEMMA NodeComposes ==
    ASSUME NEW o \in Owners, NEW f \in Files, NEW t \in Texts, NEW d \in Depths,
           NEW g \in Nat, NEW original \in Trees,
           original # None => original = Compose(t, d),
           o.entries[f] # None =>
                o.entries[f].root = Compose(o.entries[f].text, o.entries[f].depth)
    PROVE  Node(o, f, t, d, g, original) = Compose(t, d)
  <1>1. CASE Shared(o, f, t, d, g, original)
    BY <1>1 DEF Shared, Lookup, Node
  <1>2. CASE ~Shared(o, f, t, d, g, original)
    BY <1>2 DEF Node
  <1>3. QED  BY <1>1, <1>2

LEMMA PublishedType ==
    ASSUME NEW o \in Owners, NEW f \in Files, NEW t \in Texts, NEW d \in Depths,
           NEW g \in Nat, NEW original \in Trees,
           Node(o, f, t, d, g, original) = Compose(t, d)
    PROVE  /\ Published(o, f, t, d, g, original) \in Owners
           /\ \/ Published(o, f, t, d, g, original) = o
              \/ /\ MayPublish(o, f, d, g)
                 /\ Published(o, f, t, d, g, original) =
                        [o EXCEPT !.entries[f] =
                            [text |-> t, depth |-> d, root |-> Compose(t, d)]]
  BY ComposeType DEF Published, Owners, Entries

LEMMA ConfigureSound ==
    ASSUME NEW o, Sound(o), NEW d \in Depths
    PROVE  /\ Sound(Configure(o, d)) /\ Configure(o, d).maxDepth = d
           /\ Configure(o, d).changed = o.changed
           /\ Configure(o, d).generation >= o.generation
           /\ Configure(o, d).generation >= Configure(o, d).policyGeneration
  <1> DEFINE p == Configure(o, d)
  <1>1. p \in Owners /\ p.maxDepth = d /\ p.changed = o.changed
        /\ p.generation >= o.generation
    BY ConfigureType DEF Sound
  <1>2. o.generation \in Nat /\ p.generation \in Nat /\ o.changed \in [Files -> Nat]
        /\ p.policyGeneration \in Nat
    BY <1>1 DEF Sound, Owners
  <1>3. CASE p = o
    BY <1>1, <1>3 DEF Sound, Owners
  <1>4. CASE /\ p.policyGeneration = p.generation
             /\ p.entries = [f \in Files |-> None]
    BY <1>1, <1>2, <1>4 DEF Sound
  <1>5. QED  BY <1>3, <1>4, ConfigureType DEF Sound

(* What a reader that may publish leaves is sound, where such a reader     *)
(* knows the present text.                                                 *)
LEMMA PublishedSound ==
    ASSUME NEW o, Sound(o), NEW f \in Files, NEW t \in Texts, NEW d \in Depths,
           NEW g \in Nat, NEW original \in Trees,
           original # None => original = Compose(t, d),
           MayPublish(o, f, d, g) => f \in missed \/ t = text[f]
    PROVE  /\ Node(o, f, t, d, g, original) = Compose(t, d)
           /\ Sound(Published(o, f, t, d, g, original))
           /\ Published(o, f, t, d, g, original).changed = o.changed
           /\ Published(o, f, t, d, g, original).generation = o.generation
  <1> DEFINE p == Published(o, f, t, d, g, original)
             e == [text |-> t, depth |-> d, root |-> Compose(t, d)]
  <1>1. o \in Owners
    BY DEF Sound
  <1>2. Node(o, f, t, d, g, original) = Compose(t, d)
    BY <1>1, NodeComposes DEF Sound
  <1>3. p \in Owners /\ (p = o \/ (MayPublish(o, f, d, g) /\ p = [o EXCEPT !.entries[f] = e]))
    BY <1>1, <1>2, PublishedType
  <1>4. CASE p = o
    BY <1>2, <1>4
  <1>5. CASE MayPublish(o, f, d, g) /\ p = [o EXCEPT !.entries[f] = e]
    <2>1. d = o.maxDepth /\ (f \in missed \/ t = text[f])
      BY <1>5 DEF MayPublish
    <2>2. p.changed = o.changed /\ p.generation = o.generation
          /\ p.policyGeneration = o.policyGeneration /\ p.maxDepth = o.maxDepth
          /\ p.entries = [o.entries EXCEPT ![f] = e]
      BY <1>1, <1>5 DEF Owners
    <2>3. o.entries \in [Files -> {None} \cup Entries]
      BY <1>1 DEF Owners
    <2>4. \A h \in Files : p.entries[h] = IF h = f THEN e ELSE o.entries[h]
      BY <2>2, <2>3
    <2>5. Sound(p)
      BY <1>3, <2>1, <2>2, <2>4 DEF Sound
    <2>6. QED  BY <1>2, <2>2, <2>5
  <1>6. QED  BY <1>3, <1>4, <1>5
(* What a snapshot brings is the composition of the text it parsed.        *)
LEMMA OriginalComposes ==
    ASSUME NEW s, IsSnapshot(s), NEW f \in s.read
    PROVE  /\ Original(s, f) \in Trees
           /\ Original(s, f) # None => Original(s, f) = Compose(s.texts[f], s.depth)
           /\ f \in Files /\ s.texts[f] \in Texts
  <1>1. f \in Files /\ s.texts[f] \in Texts /\ s.depth \in Depths
    BY DEF IsSnapshot
  <1>2. QED  BY <1>1, ComposeType DEF Original, Trees

LEMMA OffersCompose ==
    ASSUME TypeOK, NEW f \in Files, NEW original,
           original \in (IF Offers(f) = {} THEN {None} ELSE Offers(f))
    PROVE  /\ original \in Trees
           /\ original # None => original = Compose(text[f], depth)
  <1>1. CASE Offers(f) = {}
    BY <1>1 DEF Trees
  <1>2. CASE Offers(f) # {}
    <2>1. PICK s \in Live : /\ original = Original(s, f) /\ f \in s.read
                            /\ s.depth = depth /\ s.texts[f] = text[f]
      BY <1>2 DEF Offers
    <2>2. IsSnapshot(s)
      BY <2>1 DEF TypeOK, Snapshots
    <2>3. QED  BY <2>1, <2>2, OriginalComposes
  <1>3. QED  BY <1>1, <1>2

LEMMA Initial == Init => IInv
  <1> SUFFICES ASSUME Init PROVE IInv
    OBVIOUS
  <1>1. Live = {} /\ held = {}
    BY DEF Init, Live
  <1>2. sources \in Owners
    BY DEF Init, Owners
  <1>3. Sound(sources)
    BY <1>2 DEF Init, Sound
  <1>4. QED
    BY <1>1, <1>3 DEF Init, IInv, TypeOK, Snapshots, SnapshotsPast, RecentKnowText

LEMMA ChangeKeeps ==
    ASSUME IInv, NEW f \in Files, NEW t \in Written[f],
           NEW failed \in SUBSET Roots, NEW kept \in SUBSET Live,
           Change(f, t, failed, kept)
    PROVE  IInv'
  <1> DEFINE readers == {r \in Roots : snapshots[r] # None /\ f \in snapshots[r].read}
             news == Recorded(sources, f, readers # {})
  <1>1. TypeOK /\ Sound(sources) /\ SnapshotsPast /\ RecentKnowText
    BY DEF IInv
  <1>2. t \in Texts
    BY WrittenAssumption
  <1>3. /\ text' = [text EXCEPT ![f] = t]
        /\ snapshots' = [r \in Roots |->
                            IF r \in readers \cup failed THEN None ELSE snapshots[r]]
        /\ held' = held \cup kept
        /\ sources' = Discard(sources, f, readers # {})
        /\ missed' = IF news THEN missed \ {f}
                     ELSE IF \E s \in held : f \in s.read THEN missed \cup {f}
                     ELSE missed
        /\ depth' = depth
    BY DEF Change
  <1>4. sources \in Owners
    BY <1>1 DEF Sound
  <1>5. /\ sources'.entries = [sources.entries EXCEPT ![f] = None]
        /\ sources'.generation = sources.generation + 1
        /\ sources'.changed = [sources.changed EXCEPT ![f] =
                IF news THEN sources.generation + 1 ELSE @]
        /\ sources'.policyGeneration = sources.policyGeneration
        /\ sources'.maxDepth = sources.maxDepth
        /\ sources' \in Owners
    <2>1. sources' = [entries |-> [sources.entries EXCEPT ![f] = None],
             changed |-> [sources.changed EXCEPT ![f] =
                IF news THEN sources.generation + 1 ELSE sources.changed[f]],
             policyGeneration |-> sources.policyGeneration,
             maxDepth |-> sources.maxDepth, generation |-> sources.generation + 1]
      BY <1>3 DEF Discard
    <2>2. /\ sources'.entries = [sources.entries EXCEPT ![f] = None]
          /\ sources'.generation = sources.generation + 1
          /\ sources'.changed = [sources.changed EXCEPT ![f] =
                IF news THEN sources.generation + 1 ELSE @]
          /\ sources'.policyGeneration = sources.policyGeneration
          /\ sources'.maxDepth = sources.maxDepth
          /\ sources' = [entries |-> sources'.entries, changed |-> sources'.changed,
                         policyGeneration |-> sources'.policyGeneration,
                         maxDepth |-> sources'.maxDepth,
                         generation |-> sources'.generation]
      BY <2>1
    <2>3. /\ sources'.entries \in [Files -> {None} \cup Entries]
          /\ sources'.generation \in Nat /\ sources'.changed \in [Files -> Nat]
          /\ sources'.policyGeneration \in Nat /\ sources'.maxDepth \in Depths
      BY <1>4, <2>2 DEF Owners
    <2>4. QED  BY <2>2, <2>3 DEF Owners
  <1>6. Live' \subseteq {s \in Live : f \notin s.read} /\ Snapshots' \subseteq Snapshots
    BY <1>3 DEF Live, Snapshots
  <1>7. TypeOK'
    BY <1>1, <1>2, <1>3, <1>6 DEF TypeOK, IsSnapshot
  <1>8. Sound(sources)'
    <2>1. \A h \in Files : sources'.changed[h] <= sources'.generation
      BY <1>1, <1>4, <1>5 DEF Sound, Owners
    <2>2. sources'.policyGeneration <= sources'.generation
      BY <1>1, <1>4, <1>5 DEF Sound, Owners
    <2>3. ASSUME NEW h \in Files, sources'.entries[h] # None
          PROVE  /\ h # f /\ sources'.entries[h] = sources.entries[h]
                 /\ text'[h] = text[h] /\ (h \in missed' <=> h \in missed)
      BY <1>1, <1>3, <1>4, <1>5, <2>3 DEF TypeOK, Owners
    <2>4. QED  BY <1>1, <1>5, <2>1, <2>2, <2>3 DEF Sound, Compose
  <1>9. SnapshotsPast'
    BY <1>1, <1>4, <1>5, <1>6 DEF SnapshotsPast, TypeOK, IsSnapshot, Owners
  <1>10. RecentKnowText'
    <2> SUFFICES ASSUME NEW s \in Snapshots', NEW h \in s.read,
                        s.generation >= sources'.changed[h]
                 PROVE  h \in missed' \/ s.texts[h] = text'[h]
      BY DEF RecentKnowText
    <2>1. s \in Snapshots /\ IsSnapshot(s) /\ h \in Files /\ s.generation \in Nat
          /\ s.generation <= sources.generation
      BY <1>1, <1>6 DEF TypeOK, SnapshotsPast, IsSnapshot
    <2>2. CASE h # f
      BY <1>1, <1>3, <1>4, <1>5, <2>1, <2>2 DEF RecentKnowText, TypeOK, Owners
    <2>3. CASE h = f
      <3>1. ~news
        BY <1>4, <1>5, <2>1, <2>3 DEF Owners
      <3>2. readers = {}
        BY <3>1 DEF Recorded
      <3>3. \A l \in Live : f \notin l.read
        BY <3>2 DEF Live
      <3>4. s \in held
        BY <1>3, <1>6, <2>1, <2>3, <3>3 DEF Snapshots
      <3>5. QED  BY <1>3, <2>3, <3>1, <3>4
    <2>4. QED  BY <2>2, <2>3
  <1>11. QED  BY <1>7, <1>8, <1>9, <1>10 DEF IInv
LEMMA ParseKeeps ==
    ASSUME IInv, NEW r \in Roots, Parse(r)
    PROVE  IInv'
  <1> DEFINE o == Configure(sources, depth)
             new == [root |-> r, read |-> Reads[r],
                     texts |-> [f \in Reads[r] |-> text[f]],
                     depth |-> depth, generation |-> o.generation, asked |-> {}]
  <1>1. TypeOK /\ Sound(sources) /\ SnapshotsPast /\ RecentKnowText
    BY DEF IInv
  <1>2. /\ sources' = o /\ snapshots' = [snapshots EXCEPT ![r] = new]
        /\ text' = text /\ depth' = depth /\ held' = held /\ missed' = missed
    BY DEF Parse
  <1>3. /\ Sound(o) /\ o.changed = sources.changed
        /\ o.generation >= sources.generation
    BY <1>1, ConfigureSound DEF TypeOK
  <1>4. /\ sources.generation \in Nat /\ o.generation \in Nat
        /\ o.changed \in [Files -> Nat]
    BY <1>1, <1>3 DEF Sound, Owners
  <1>5. Snapshots' \subseteq Snapshots \cup {new}
    BY <1>1, <1>2 DEF Snapshots, Live, TypeOK
  <1>6. /\ new.read = Reads[r] /\ new.texts = [f \in Reads[r] |-> text[f]]
        /\ new.depth = depth /\ new.generation = o.generation
    OBVIOUS
  <1>7. Reads[r] \subseteq Files /\ new.texts \in [Reads[r] -> Texts]
    BY <1>1, <1>6, ReadsAssumption DEF TypeOK
  <1>8. IsSnapshot(new)
    BY <1>1, <1>4, <1>6, <1>7 DEF IsSnapshot, TypeOK
  <1> HIDE DEF new
  <1>9. TypeOK'
    BY <1>1, <1>2, <1>5, <1>8 DEF TypeOK
  <1>10. Sound(sources)'
    BY <1>2, <1>3 DEF Sound, Compose
  <1>11. SnapshotsPast'
    BY <1>1, <1>2, <1>3, <1>4, <1>5, <1>6 DEF SnapshotsPast, TypeOK, IsSnapshot
  <1>12. RecentKnowText'
    BY <1>1, <1>2, <1>3, <1>5, <1>6, <1>7 DEF RecentKnowText
  <1>13. QED  BY <1>9, <1>10, <1>11, <1>12 DEF IInv

(* Every question is answered with the composition of what it asks about,  *)
(* and leaves the owner as sound as it was.                                *)
LEMMA SourceAsks ==
    ASSUME IInv, NEW f \in Files, Source(f)
    PROVE  LET o == Configure(sources, depth) IN
           \E original \in Trees :
            /\ AskNode(o, f, text[f], depth, o.generation, original)
            /\ Node(o, f, text[f], depth, o.generation, original) = Compose(text[f], depth)
            /\ Sound(Published(o, f, text[f], depth, o.generation, original))
            /\ Published(o, f, text[f], depth, o.generation, original).changed
                    = sources.changed
            /\ Published(o, f, text[f], depth, o.generation, original).generation
                    >= sources.generation
  <1> DEFINE o == Configure(sources, depth)
  <1>1. TypeOK /\ Sound(sources)
    BY DEF IInv
  <1>2. depth \in Depths /\ text[f] \in Texts
    BY <1>1 DEF TypeOK
  <1>3. Sound(o) /\ o.changed = sources.changed /\ o.generation >= sources.generation
    BY <1>1, <1>2, ConfigureSound
  <1>4. PICK original \in (IF Offers(f) = {} THEN {None} ELSE Offers(f)) :
            AskNode(o, f, text[f], depth, o.generation, original)
    BY DEF Source
  <1>5. original \in Trees /\ (original # None => original = Compose(text[f], depth))
    BY <1>1, OffersCompose
  <1>6. o.generation \in Nat
    BY <1>3 DEF Sound, Owners
  <1>7. /\ Node(o, f, text[f], depth, o.generation, original) = Compose(text[f], depth)
        /\ Sound(Published(o, f, text[f], depth, o.generation, original))
        /\ Published(o, f, text[f], depth, o.generation, original).changed = o.changed
        /\ Published(o, f, text[f], depth, o.generation, original).generation
                = o.generation
    <2> HIDE DEF o
    <2>1. QED  BY <1>2, <1>3, <1>5, <1>6, PublishedSound
  <1>8. QED  BY <1>3, <1>4, <1>5, <1>7

LEMMA HoverAsks ==
    ASSUME IInv, NEW s \in Snapshots, NEW f \in Files, HoverNode(s, f)
    PROVE  LET t == s.texts[f]
               p == Published(sources, f, t, s.depth, s.generation, Original(s, f))
           IN  /\ f \in s.read /\ t \in Texts /\ s.depth \in Depths
               /\ AskNode(sources, f, t, s.depth, s.generation, Original(s, f))
               /\ Node(sources, f, t, s.depth, s.generation, Original(s, f))
                        = Compose(t, s.depth)
               /\ MayPublish(sources, f, s.depth, s.generation) =>
                        f \in missed \/ t = text[f]
               /\ Sound(p) /\ p.changed = sources.changed
               /\ p.generation = sources.generation
  <1>1. TypeOK /\ Sound(sources) /\ RecentKnowText
    BY DEF IInv
  <1>2. /\ f \in s.read
        /\ AskNode(sources, f, s.texts[f], s.depth, s.generation, Original(s, f))
    BY DEF HoverNode
  <1>3. IsSnapshot(s)
    BY <1>1 DEF TypeOK
  <1>4. s.texts[f] \in Texts /\ s.depth \in Depths /\ s.generation \in Nat
    BY <1>2, <1>3 DEF IsSnapshot
  <1>5. MayPublish(sources, f, s.depth, s.generation) => f \in missed \/ s.texts[f] = text[f]
    BY <1>1, <1>2 DEF MayPublish, RecentKnowText
  <1>6. /\ Original(s, f) \in Trees
        /\ Original(s, f) # None => Original(s, f) = Compose(s.texts[f], s.depth)
    BY <1>2, <1>3, OriginalComposes
  <1>7. QED  BY <1>1, <1>2, <1>4, <1>5, <1>6, PublishedSound

LEMMA SourceKeeps ==
    ASSUME IInv, NEW f \in Files, Source(f)
    PROVE  IInv'
  <1>1. TypeOK /\ SnapshotsPast /\ RecentKnowText
    BY DEF IInv
  <1>2. /\ text' = text /\ depth' = depth /\ snapshots' = snapshots
        /\ held' = held /\ missed' = missed
    BY DEF Source
  <1>3. /\ Sound(sources') /\ sources'.changed = sources.changed
        /\ sources'.generation >= sources.generation
    BY SourceAsks DEF AskNode
  <1>4. sources.generation \in Nat /\ sources'.generation \in Nat
    BY <1>3 DEF IInv, Sound, Owners
  <1>5. Snapshots' = Snapshots
    BY <1>2 DEF Snapshots, Live
  <1>6. TypeOK' /\ RecentKnowText'
    BY <1>1, <1>2, <1>3, <1>5 DEF TypeOK, RecentKnowText
  <1>7. Sound(sources)'
    BY <1>2, <1>3 DEF Sound, Compose
  <1>8. SnapshotsPast'
    BY <1>1, <1>3, <1>4, <1>5 DEF SnapshotsPast, TypeOK, IsSnapshot
  <1>9. QED  BY <1>6, <1>7, <1>8 DEF IInv

LEMMA HoverKeeps ==
    ASSUME IInv, NEW s \in Snapshots, NEW f \in Files, HoverNode(s, f)
    PROVE  IInv'
  <1> DEFINE told == [s EXCEPT !.asked = @ \cup {f}]
  <1>1. TypeOK /\ SnapshotsPast /\ RecentKnowText
    BY DEF IInv
  <1>2. /\ text' = text /\ depth' = depth /\ missed' = missed
        /\ snapshots' = [r \in Roots |-> IF snapshots[r] = s THEN told ELSE snapshots[r]]
        /\ held' = IF s \in held THEN (held \ {s}) \cup {told} ELSE held
    BY DEF HoverNode
  <1>3. /\ Sound(sources') /\ sources'.changed = sources.changed
        /\ sources'.generation = sources.generation
    BY HoverAsks DEF AskNode
  <1>4. Snapshots' \subseteq Snapshots \cup {told}
    BY <1>2 DEF Snapshots, Live
  <1>5. /\ told.read = s.read /\ told.texts = s.texts
        /\ told.depth = s.depth /\ told.generation = s.generation
    OBVIOUS
  <1>6. IsSnapshot(told)
    BY <1>1, <1>5 DEF TypeOK, IsSnapshot
  <1> HIDE DEF told
  <1>7. TypeOK'
    BY <1>1, <1>2, <1>4, <1>6 DEF TypeOK
  <1>8. Sound(sources)'
    BY <1>2, <1>3 DEF Sound, Compose
  <1>9. SnapshotsPast'
    BY <1>1, <1>3, <1>4, <1>5 DEF SnapshotsPast
  <1>10. RecentKnowText'
    BY <1>1, <1>2, <1>3, <1>4, <1>5 DEF RecentKnowText
  <1>11. QED  BY <1>7, <1>8, <1>9, <1>10 DEF IInv

LEMMA Preserved == IInv /\ [Next]_vars => IInv'
  <1> SUFFICES ASSUME IInv, [Next]_vars PROVE IInv'
    OBVIOUS
  <1>1. ASSUME NEW d \in Depths, SetDepth(d) PROVE IInv'
    BY <1>1 DEF SetDepth, IInv, TypeOK, Sound, SnapshotsPast, RecentKnowText,
        Snapshots, Live, Compose
  <1>2. ASSUME NEW s \in held, Release(s) PROVE IInv'
    <2>1. Snapshots' \subseteq Snapshots
      BY <1>2 DEF Release, Snapshots, Live
    <2>2. QED
      BY <1>2, <2>1 DEF Release, IInv, TypeOK, Sound, SnapshotsPast,
          RecentKnowText, Compose
  <1>3. CASE UNCHANGED vars
    BY <1>3 DEF vars, IInv, TypeOK, Sound, SnapshotsPast, RecentKnowText,
        Snapshots, Live, Compose
  <1>4. QED
    BY <1>1, <1>2, <1>3, ChangeKeeps, ParseKeeps, SourceKeeps, HoverKeeps
    DEF Next, Snapshots

(* Whatever is asked, by whom and however late, what is stored is of the   *)
(* present policy and text (Sources.node, discard, configure).             *)
THEOREM EntriesAlwaysCurrent == Spec => []EntriesCurrent
  <1>1. IInv => EntriesCurrent
    BY DEF IInv, Sound, EntriesCurrent
  <1>2. QED  BY <1>1, Initial, Preserved, PTL DEF Spec
-----------------------------------------------------------------------------
(* The mapping to SourceStore.                                             *)

Kept(o) == [f \in Files |-> IF o.entries[f] = None THEN None ELSE o.entries[f].text]

LEMMA ConfigureMapped ==
    ASSUME NEW o \in Owners, NEW d \in Depths
    PROVE  Kept(Configure(o, d)) \in {Kept(o), [f \in Files |-> None]}
  <1>1. CASE Configure(o, d) = o
    BY <1>1
  <1>2. CASE Configure(o, d).entries = [f \in Files |-> None]
    BY <1>2 DEF Kept
  <1>3. QED  BY <1>1, <1>2, ConfigureType

LEMMA PublishedMapped ==
    ASSUME NEW o \in Owners, NEW f \in Files, NEW t \in Texts, NEW d \in Depths,
           NEW g \in Nat, NEW original \in Trees,
           Node(o, f, t, d, g, original) = Compose(t, d)
    PROVE  LET p == Published(o, f, t, d, g, original) IN
           \/ Kept(p) = Kept(o)
           \/ MayPublish(o, f, d, g) /\ Kept(p) = [Kept(o) EXCEPT ![f] = t]
  <1> DEFINE p == Published(o, f, t, d, g, original)
             e == [text |-> t, depth |-> d, root |-> Compose(t, d)]
  <1>1. CASE p = o
    BY <1>1
  <1>2. CASE MayPublish(o, f, d, g) /\ p = [o EXCEPT !.entries[f] = e]
    <2>1. e \in Entries /\ e.text = t
      BY ComposeType DEF Entries
    <2>2. e # None
      BY <2>1, EntryIsSomething
    <2>3. p.entries = [o.entries EXCEPT ![f] = e]
      BY <1>2 DEF Owners
    <2>4. \A h \in Files : p.entries[h] = IF h = f THEN e ELSE o.entries[h]
      BY <2>3 DEF Owners
    <2>5. Kept(p) = [Kept(o) EXCEPT ![f] = t]
      BY <2>1, <2>2, <2>4 DEF Kept
    <2>6. QED  BY <1>2, <2>5
  <1>3. QED  BY <1>1, <1>2, PublishedType

LEMMA StoreInitial == Init => Store!Init
  BY DEF Init, Store!Init, Store!Nothing

LEMMA StoreStep == IInv /\ [Next]_vars => [Store!Next]_Store!abstract
  <1> SUFFICES ASSUME IInv, [Next]_vars PROVE [Store!Next]_Store!abstract
    OBVIOUS
  <1>1. TypeOK /\ Sound(sources) /\ sources \in Owners
    BY DEF IInv, Sound
  <1>2. ASSUME NEW f \in Files, NEW t \in Written[f], NEW failed \in SUBSET Roots,
               NEW kept \in SUBSET Live, Change(f, t, failed, kept)
        PROVE  Store!Change(f, t) /\ t \in Texts
    <2>1. sources'.entries = [sources.entries EXCEPT ![f] = None]
      BY <1>2 DEF Change, Discard
    <2>2. \A h \in Files : sources'.entries[h] =
                IF h = f THEN None ELSE sources.entries[h]
      BY <1>1, <2>1 DEF Owners
    <2>3. Kept(sources)' = [Kept(sources) EXCEPT ![f] = None]
      BY <2>2 DEF Kept
    <2>4. /\ text' = [text EXCEPT ![f] = t] /\ answer' = answer
          /\ missed' \in {missed, missed \cup {f}, missed \ {f}}
      BY <1>2 DEF Change
    <2>5. t \in Texts
      BY WrittenAssumption
    <2>6. QED  BY <2>3, <2>4, <2>5 DEF Store!Change, Kept
  <1>3. ASSUME NEW r \in Roots, Parse(r)
        PROVE  Store!Forget \/ UNCHANGED Store!abstract
    <2>1. /\ sources' = Configure(sources, depth)
          /\ UNCHANGED <<text, missed, answer>>
      BY <1>3 DEF Parse
    <2>2. Kept(sources') \in {Kept(sources), [f \in Files |-> None]}
      BY <1>1, <2>1, ConfigureMapped DEF TypeOK
    <2>3. QED
      BY <2>1, <2>2 DEF Store!Forget, Store!abstract, Store!Nothing, Kept
  <1>4. ASSUME NEW f \in Files, Source(f)
        PROVE  \E t \in Texts, d \in Depths : Store!Ask(f, t, d)
    <2> DEFINE o == Configure(sources, depth)
    <2>1. text[f] \in Texts /\ depth \in Depths
      BY <1>1 DEF TypeOK
    <2>2. o \in Owners /\ Kept(o) \in {Kept(sources), [h \in Files |-> None]}
      BY <1>1, <2>1, ConfigureMapped, ConfigureType
    <2>3. o.generation \in Nat
      BY <2>2 DEF Owners
    <2>4. PICK original \in Trees :
            /\ AskNode(o, f, text[f], depth, o.generation, original)
            /\ Node(o, f, text[f], depth, o.generation, original)
                    = Compose(text[f], depth)
      BY <1>4, SourceAsks
    <2> HIDE DEF o
    <2>5. Kept(sources') = Kept(o) \/ Kept(sources') = [Kept(o) EXCEPT ![f] = text[f]]
      BY <2>1, <2>2, <2>3, <2>4, PublishedMapped DEF AskNode
    <2>6. answer' = [text |-> text[f], depth |-> depth, root |-> Compose(text[f], depth)]
      BY <2>4 DEF AskNode
    <2>7. UNCHANGED <<text, missed>>
      BY <1>4 DEF Source
    <2>8. PICK t \in Texts, d \in Depths : t = text[f] /\ d = depth
      BY <2>1
    <2>9. Store!Ask(f, t, d)
      BY <2>2, <2>5, <2>6, <2>7, <2>8
      DEF Store!Ask, Store!Nothing, Store!Compose, Compose, Kept
    <2>10. QED  BY <2>9
  <1>5. ASSUME NEW s \in Snapshots, NEW f \in Files, HoverNode(s, f)
        PROVE  \E t \in Texts, d \in Depths : Store!Ask(f, t, d)
    <2> DEFINE t == s.texts[f]
    <2>1. /\ f \in s.read /\ t \in Texts /\ s.depth \in Depths
          /\ AskNode(sources, f, t, s.depth, s.generation, Original(s, f))
          /\ Node(sources, f, t, s.depth, s.generation, Original(s, f))
                = Compose(t, s.depth)
          /\ MayPublish(sources, f, s.depth, s.generation) =>
                f \in missed \/ t = text[f]
      BY <1>5, HoverAsks
    <2>2. IsSnapshot(s) /\ s.generation \in Nat /\ Original(s, f) \in Trees
      BY <1>1, <2>1, OriginalComposes DEF TypeOK, IsSnapshot
    <2>3. \/ Kept(sources') = Kept(sources)
          \/ /\ f \in missed \/ t = text[f]
             /\ Kept(sources') = [Kept(sources) EXCEPT ![f] = t]
      BY <1>1, <2>1, <2>2, PublishedMapped DEF AskNode
    <2>4. answer' = [text |-> t, depth |-> s.depth, root |-> Compose(t, s.depth)]
      BY <2>1 DEF AskNode
    <2>5. UNCHANGED <<text, missed>>
      BY <1>5 DEF HoverNode
    <2>6. Store!Ask(f, t, s.depth)
      BY <2>1, <2>3, <2>4, <2>5
      DEF Store!Ask, Store!Nothing, Store!Compose, Compose, Kept
    <2>7. QED  BY <2>1, <2>6
  <1>6. ASSUME NEW d \in Depths, SetDepth(d) PROVE UNCHANGED Store!abstract
    BY <1>6 DEF SetDepth, Store!abstract
  <1>7. ASSUME NEW s \in held, Release(s) PROVE UNCHANGED Store!abstract
    BY <1>7 DEF Release, Store!abstract
  <1>8. CASE UNCHANGED vars
    BY <1>8 DEF vars, Store!abstract
  <1>9. \A f \in Files, t \in Texts : Store!Change(f, t) => Store!Next
    BY DEF Store!Next
  <1>10. \A f \in Files, t \in Texts, d \in Depths : Store!Ask(f, t, d) => Store!Next
    BY DEF Store!Next
  <1>11. Store!Forget => Store!Next
    BY DEF Store!Next
  <1>12. CASE \E f \in Files, t \in Texts, failed \in SUBSET Roots, kept \in SUBSET Live :
                t \in Written[f] /\ Change(f, t, failed, kept)
    BY <1>2, <1>9, <1>12
  <1>13. CASE \E f \in Files : Source(f)
    BY <1>4, <1>10, <1>13
  <1>14. CASE \E f \in Files, s \in Snapshots : HoverNode(s, f)
    BY <1>5, <1>10, <1>14
  <1>15. CASE \E r \in Roots : Parse(r)
    BY <1>3, <1>11, <1>15
  <1>16. \A f \in Files : Written[f] \subseteq Texts
    BY WrittenAssumption
  <1>17. QED
    BY <1>6, <1>7, <1>8, <1>12, <1>13, <1>14, <1>15, <1>16 DEF Next, Snapshots

(* The cache is not seen by those who ask: every step is one SourceStore   *)
(* allows, or none (Sources.node, lookup).                                 *)
THEOREM ImplementsStore == Spec => StoreSpec
  BY Initial, Preserved, StoreInitial, StoreStep, PTL
  DEF Spec, StoreSpec, Store!Spec
-----------------------------------------------------------------------------
(* How often the present text is composed.  Whoever composed it stored it, *)
(* and what is stored is current: a later reader that might store its own  *)
(* composition asks about the same text and policy, and is given this one. *)

Counted(o, count) ==
    /\ count \in [Files -> 0..2]
    /\ \A f \in Files \ missed :
        count[f] <= 1 /\ (count[f] = 1 => o.entries[f] # None)

CountInv == Counted(sources, composed)

LEMMA PublishedKeeps ==
    ASSUME NEW o \in Owners, NEW f \in Files, NEW t \in Texts, NEW d \in Depths,
           NEW g \in Nat, NEW original \in Trees,
           Node(o, f, t, d, g, original) = Compose(t, d)
    PROVE  LET p == Published(o, f, t, d, g, original) IN
           /\ \A h \in Files : o.entries[h] # None => p.entries[h] # None
           /\ ~Shared(o, f, t, d, g, original) /\ MayPublish(o, f, d, g)
                => p.entries[f] # None
  <1> DEFINE p == Published(o, f, t, d, g, original)
             e == [text |-> t, depth |-> d, root |-> Compose(t, d)]
  <1>1. e # None
    BY ComposeType, EntryIsSomething DEF Entries
  <1>2. CASE Shared(o, f, t, d, g, original) \/ ~MayPublish(o, f, d, g)
    <2>1. p = o
      BY <1>2 DEF Published
    <2> QED BY <1>2, <2>1
  <1>3. CASE ~(Shared(o, f, t, d, g, original) \/ ~MayPublish(o, f, d, g))
    <2>1. p = [o EXCEPT !.entries[f] = e]
      BY <1>3 DEF Published
    <2>2. p.entries = [o.entries EXCEPT ![f] = e]
      BY <2>1 DEF Owners
    <2>3. \A h \in Files : p.entries[h] = IF h = f THEN e ELSE o.entries[h]
      BY <2>2 DEF Owners
    <2> QED BY <1>1, <2>3
  <1> QED BY <1>2, <1>3

LEMMA AskCounted ==
    ASSUME NEW o, Sound(o), NEW f \in Files, NEW t \in Texts, NEW d \in Depths,
           NEW g \in Nat, NEW original \in Trees,
           Node(o, f, t, d, g, original) = Compose(t, d),
           MayPublish(o, f, d, g) => f \in missed \/ t = text[f],
           NEW known, Counted(o, known), NEW after,
           after = IF /\ ~Shared(o, f, t, d, g, original) /\ original = None
                      /\ MayPublish(o, f, d, g) /\ known[f] < 2
                   THEN [known EXCEPT ![f] = @ + 1] ELSE known
    PROVE  Counted(Published(o, f, t, d, g, original), after)
  <1> DEFINE p == Published(o, f, t, d, g, original)
             composes == /\ ~Shared(o, f, t, d, g, original) /\ original = None
                         /\ MayPublish(o, f, d, g)
  <1>1. /\ \A h \in Files : o.entries[h] # None => p.entries[h] # None
        /\ composes => p.entries[f] # None
    BY PublishedKeeps DEF Sound
  <1>2. known \in [Files -> 0..2]
    BY DEF Counted
  <1>3. CASE ~(composes /\ known[f] < 2)
    <2>1. after = known
      BY <1>3
    <2>2. Counted(p, after)
      <3> HIDE DEF p, composes
      <3> QED BY <1>1, <2>1 DEF Counted
    <2> QED BY <2>2
  <1>4. CASE composes /\ known[f] < 2
    <2>1. after = [known EXCEPT ![f] = @ + 1]
      BY <1>4
    <2>2. after \in [Files -> 0..2]
      BY <1>2, <1>4, <2>1
    <2>3. ASSUME f \notin missed PROVE known[f] = 0
      <3>1. t = text[f] /\ d = o.maxDepth
        BY <1>4, <2>3 DEF MayPublish
      <3>2. ~Lookup(o, f, t, d)
        BY <1>4 DEF Shared
      <3>3. o.entries[f] = None
        BY <2>3, <3>1, <3>2 DEF Lookup, Sound
      <3> QED BY <1>2, <2>3, <3>3 DEF Counted
    <2>4. ASSUME NEW h \in Files \ missed
          PROVE  after[h] <= 1 /\ (after[h] = 1 => p.entries[h] # None)
      <3>1. CASE h = f
        BY <1>1, <1>2, <1>4, <2>1, <2>3, <3>1
      <3>2. CASE h # f
        <4>1. after[h] = known[h]
          BY <1>2, <2>1, <3>2
        <4> QED BY <1>1, <4>1 DEF Counted
      <3> QED BY <3>1, <3>2
    <2>5. Counted(p, after)
      <3> HIDE DEF p
      <3> QED BY <2>2, <2>4 DEF Counted
    <2> QED BY <2>5
  <1> QED BY <1>3, <1>4

LEMMA ConfigureCounted ==
    ASSUME CountInv, NEW d
    PROVE  /\ Counted(Configure(sources, d),
                      IF d = sources.maxDepth THEN composed ELSE [h \in Files |-> 0])
           /\ sources \in Owners /\ d \in Depths =>
                (Configure(sources, d).maxDepth = sources.maxDepth <=> d = sources.maxDepth)
  <1>1. CASE d = sources.maxDepth
    BY <1>1 DEF Configure, CountInv
  <1>2. CASE d # sources.maxDepth
    BY <1>2, ConfigureType DEF Counted
  <1> QED BY <1>1, <1>2

LEMMA CountedStep == IInv /\ CountInv /\ [Next]_vars => CountInv'
  <1> SUFFICES ASSUME IInv, CountInv, [Next]_vars PROVE CountInv'
    OBVIOUS
  <1>1. TypeOK /\ Sound(sources) /\ sources \in Owners
    BY DEF IInv, Sound
  <1>2. ASSUME NEW f \in Files, NEW t, NEW failed, NEW kept, Change(f, t, failed, kept)
        PROVE  CountInv'
    <2>1. sources'.entries = [sources.entries EXCEPT ![f] = None]
      BY <1>2 DEF Change, Discard
    <2>2. \A h \in Files : h # f => sources'.entries[h] = sources.entries[h]
      BY <1>1, <2>1 DEF Owners
    <2>3. /\ composed' = [composed EXCEPT ![f] = 0]
          /\ missed' \in {missed, missed \cup {f}, missed \ {f}}
      BY <1>2 DEF Change
    <2>4. composed \in [Files -> 0..2]
      BY DEF CountInv, Counted
    <2>5. composed' \in [Files -> 0..2] /\ composed'[f] = 0
          /\ \A h \in Files : h # f => composed'[h] = composed[h]
      BY <2>3, <2>4
    <2> QED BY <2>2, <2>3, <2>5 DEF CountInv, Counted
  <1>3. ASSUME NEW r \in Roots, Parse(r) PROVE CountInv'
    <2>1. /\ sources' = Configure(sources, depth) /\ missed' = missed
          /\ composed' = IF depth = sources.maxDepth THEN composed ELSE [f \in Files |-> 0]
      BY <1>3 DEF Parse
    <2>2. Counted(sources', composed')
      BY <2>1, ConfigureCounted
    <2> QED BY <2>1, <2>2 DEF CountInv, Counted
  <1>4. ASSUME NEW f \in Files, Source(f) PROVE CountInv'
    <2> DEFINE o == Configure(sources, depth)
               known == IF depth = sources.maxDepth THEN composed ELSE [h \in Files |-> 0]
    <2>1. text[f] \in Texts /\ depth \in Depths
      BY <1>1 DEF TypeOK
    <2>2. /\ Counted(o, known)
          /\ o.maxDepth = sources.maxDepth <=> depth = sources.maxDepth
      BY <1>1, <2>1, ConfigureCounted
    <2>3. Sound(o)
      BY <1>1, <2>1, ConfigureSound
    <2>4. PICK original \in Trees :
            /\ AskNode(o, f, text[f], depth, o.generation, original)
            /\ Node(o, f, text[f], depth, o.generation, original) = Compose(text[f], depth)
      BY <1>4, SourceAsks
    <2>5. o.generation \in Nat
      BY <2>3 DEF Sound, Owners
    <2>6. /\ sources' = Published(o, f, text[f], depth, o.generation, original)
          /\ composed' = IF /\ ~Shared(o, f, text[f], depth, o.generation, original)
                            /\ original = None
                            /\ MayPublish(o, f, depth, o.generation) /\ known[f] < 2
                         THEN [known EXCEPT ![f] = @ + 1] ELSE known
      BY <2>2, <2>4 DEF AskNode
    <2> HIDE DEF o, known
    <2>7. Counted(sources', composed')
      BY <2>1, <2>2, <2>3, <2>4, <2>5, <2>6, AskCounted
    <2>8. missed' = missed
      BY <1>4 DEF Source
    <2> QED BY <2>7, <2>8 DEF CountInv, Counted
  <1>5. ASSUME NEW s \in Snapshots, NEW f \in Files, HoverNode(s, f) PROVE CountInv'
    <2> DEFINE t == s.texts[f]
               o == sources
    <2>1. /\ f \in s.read /\ t \in Texts /\ s.depth \in Depths
          /\ AskNode(sources, f, t, s.depth, s.generation, Original(s, f))
          /\ Node(sources, f, t, s.depth, s.generation, Original(s, f))
                = Compose(t, s.depth)
          /\ MayPublish(sources, f, s.depth, s.generation) =>
                f \in missed \/ t = text[f]
      BY <1>5, HoverAsks
    <2>2. s.generation \in Nat /\ Original(s, f) \in Trees
      BY <1>1, <2>1, OriginalComposes DEF TypeOK, IsSnapshot
    <2>3. /\ sources' = Published(sources, f, t, s.depth, s.generation, Original(s, f))
          /\ composed' = IF /\ ~Shared(sources, f, t, s.depth, s.generation, Original(s, f))
                            /\ Original(s, f) = None
                            /\ MayPublish(sources, f, s.depth, s.generation) /\ composed[f] < 2
                         THEN [composed EXCEPT ![f] = @ + 1] ELSE composed
      BY <2>1 DEF AskNode
    <2> HIDE DEF t
    <2>4. Counted(sources', composed')
      BY <1>1, <2>1, <2>2, <2>3, AskCounted DEF CountInv
    <2>5. missed' = missed
      BY <1>5 DEF HoverNode
    <2> QED BY <2>4, <2>5 DEF CountInv, Counted
  <1>6. ASSUME UNCHANGED <<sources, composed, missed>> PROVE CountInv'
    BY <1>6 DEF CountInv, Counted
  <1>7. (\E d \in Depths : SetDepth(d)) \/ (\E s \in held : Release(s)) \/ UNCHANGED vars
            => UNCHANGED <<sources, composed, missed>>
    BY DEF SetDepth, Release, vars
  <1> QED BY <1>2, <1>3, <1>4, <1>5, <1>6, <1>7 DEF Next, Snapshots

(* One text is composed once for all current readers, the workspace and    *)
(* the hovers, in any order (Sources.node; test_service_source_cache.py).  *)
THEOREM SpecComposedOnce == Spec => []ComposedOnce
  <1>1. Init => CountInv
    BY DEF Init, CountInv, Counted
  <1>2. CountInv => ComposedOnce
    BY DEF CountInv, Counted, ComposedOnce
  <1> QED BY <1>1, <1>2, Initial, Preserved, CountedStep, PTL DEF Spec
=============================================================================
