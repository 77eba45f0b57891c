---------------------------- MODULE Passes_proofs ----------------------------
(***************************************************************************)
(* For any tree of resources and any documents.                            *)
(***************************************************************************)
EXTENDS Passes, SequenceSets

(* What an entity holds.                                                   *)
Holds(e) == ToSet(Children[e])
Tops == ToSet(Top)
IsClosed(S) == \A x \in S : Holds(x) \subseteq S

-----------------------------------------------------------------------------
(* The tree.                                                               *)
LEMMA EveryElement ==
    ASSUME NEW S, NEW s \in Seq(S)
    PROVE  ToSet(s) \subseteq S /\ \A i \in DOMAIN s : s[i] \in S
  <1>1. DOMAIN s = 1..Len(s) /\ \A i \in 1..Len(s) : s[i] \in S
    BY LenProperties, ElementOfSeq
  <1> QED BY <1>1 DEF ToSet

LEMMA ResourceHolds ==
    ASSUME NEW r \in Resources
    PROVE  /\ OperationsOf[r] \in Seq(Operations) /\ Nested[r] \in Seq(Resources)
           /\ Children[r] \in Seq(Entities)
           /\ Holds(r) = ToSet(OperationsOf[r]) \cup ToSet(Nested[r])
           /\ ToSet(OperationsOf[r]) \subseteq Operations /\ ToSet(Nested[r]) \subseteq Resources
           /\ IsInjective(Nested[r])
  <1> DEFINE s == OperationsOf[r]
             t == Nested[r]
  <1>1. s \in Seq(Operations) /\ t \in Seq(Resources)
    BY TreeAssumption
  <1>2. Children[r] = s \o t
    BY DEF Children, Entities
  <1> HIDE DEF s, t
  <1>3. Operations \subseteq Entities /\ Resources \subseteq Entities
    BY DEF Entities
  <1>4. s \in Seq(Entities) /\ t \in Seq(Entities)
    BY <1>1, <1>3, SeqMonotonic
  <1>5. s \o t \in Seq(Entities) /\ ToSet(s \o t) = ToSet(s) \cup ToSet(t)
    BY <1>4, ConcatSet, ConcatProperties
  <1>6. ToSet(s) \subseteq Operations /\ ToSet(t) \subseteq Resources
    BY <1>1, EveryElement
  <1>7. IsInjective(s \o t)
    BY <1>2, TreeAssumption DEF Entities
  <1>8. IsInjective(t)
    <2>1. /\ DOMAIN (s \o t) = 1..(Len(s) + Len(t)) /\ DOMAIN t = 1..Len(t)
          /\ Len(s) \in Nat /\ Len(t) \in Nat
          /\ \A i \in 1..(Len(s) + Len(t)) :
                (s \o t)[i] = IF i <= Len(s) THEN s[i] ELSE t[i - Len(s)]
      BY <1>4, <1>5, LenProperties, ConcatProperties
    <2>2. \A i \in 1..Len(t) : /\ i + Len(s) \in 1..(Len(s) + Len(t))
                               /\ (s \o t)[i + Len(s)] = t[i]
      <3>1. \A i \in 1..Len(t) : /\ i + Len(s) \in 1..(Len(s) + Len(t))
                                 /\ ~(i + Len(s) <= Len(s)) /\ (i + Len(s)) - Len(s) = i
        BY <2>1
      <3> QED BY <2>1, <3>1
    <2>3. \A i, j \in 1..Len(t) : i + Len(s) = j + Len(s) => i = j
      BY <2>1
    <2> QED BY <1>7, <2>1, <2>2, <2>3 DEF IsInjective
  <1> QED BY <1>1, <1>2, <1>5, <1>6, <1>8 DEF Holds, s, t

LEMMA TreeFacts ==
    /\ Top \in Seq(Resources) /\ IsInjective(Top) /\ Tops \subseteq Resources /\ Tops \subseteq Entities
    /\ \A e \in Entities :
          /\ Children[e] \in Seq(Entities) /\ IsInjective(Children[e]) /\ Holds(e) \subseteq Entities
          /\ Tops \cap Holds(e) = {}
          /\ e \in Responses => Holds(e) = {}
          /\ e \in Operations => Holds(e) \subseteq Responses
    /\ \A d, e, c \in Entities : c \in Holds(d) /\ c \in Holds(e) => d = e
    /\ \A S \in SUBSET Entities : Tops \subseteq S /\ IsClosed(S) => S = Entities
  <1>1. Top \in Seq(Resources) /\ IsInjective(Top) /\ Tops \subseteq Resources /\ Tops \subseteq Entities
    BY TreeAssumption, EveryElement DEF Tops, Entities
  <1>2. ASSUME NEW e \in Entities
        PROVE  /\ Children[e] \in Seq(Entities)
               /\ e \in Responses => Holds(e) = {}
               /\ e \in Operations => Holds(e) \subseteq Responses
    <2>1. CASE e \in Resources
      BY <2>1, ResourceHolds, KindsAssumption
    <2>2. CASE e \in Operations
      <3>1. Children[e] = ResponsesOf[e] /\ ResponsesOf[e] \in Seq(Responses)
        BY <2>2, KindsAssumption, TreeAssumption DEF Children, Entities
      <3>2. Responses \subseteq Entities
        BY DEF Entities
      <3>3. Children[e] \in Seq(Entities) /\ Holds(e) \subseteq Responses
        <4> DEFINE s == ResponsesOf[e]
        <4> HIDE DEF s
        <4>1. s \in Seq(Responses) /\ Children[e] = s
          BY <3>1 DEF s
        <4>2. s \in Seq(Entities) /\ ToSet(s) \subseteq Responses
          BY <3>2, <4>1, SeqMonotonic, EveryElement
        <4> QED BY <4>1, <4>2 DEF Holds
      <3> QED BY <2>2, <3>3, KindsAssumption
    <2>3. CASE e \in Responses
      <3>1. Children[e] = <<>>
        BY <2>3, KindsAssumption DEF Children
      <3>2. <<>> \in Seq(Entities) /\ ToSet(<<>>) = {}
        BY EmptySeq DEF ToSet
      <3> QED BY <2>3, <3>1, <3>2, KindsAssumption DEF Holds
    <2> QED BY <2>1, <2>2, <2>3 DEF Entities
  <1>3. ASSUME NEW e \in Entities
        PROVE  IsInjective(Children[e]) /\ Holds(e) \subseteq Entities /\ Tops \cap Holds(e) = {}
    <2>1. IsInjective(Children[e]) /\ Tops \cap Holds(e) = {}
      BY TreeAssumption DEF Tops, Holds
    <2> DEFINE s == Children[e]
    <2>2. s \in Seq(Entities)
      BY <1>2
    <2> HIDE DEF s
    <2>3. ToSet(s) \subseteq Entities
      BY <2>2, EveryElement
    <2> QED BY <2>1, <2>3 DEF Holds, s
  <1>4. \A d, e, c \in Entities : c \in Holds(d) /\ c \in Holds(e) => d = e
    BY TreeAssumption DEF Holds
  <1>5. \A S \in SUBSET Entities : Tops \subseteq S /\ IsClosed(S) => S = Entities
    BY TreeAssumption DEF Holds, Tops, IsClosed
  <1> QED BY <1>1, <1>2, <1>3, <1>4, <1>5

LEMMA BelowLeast ==
    ASSUME NEW e \in Entities
    PROVE  /\ e \in Below[e] /\ Below[e] \subseteq Entities /\ IsClosed(Below[e])
           /\ \A S \in SUBSET Entities : e \in S /\ IsClosed(S) => Below[e] \subseteq S
  <1>1. Below[e] = {c \in Entities : \A S \in SUBSET Entities :
                        e \in S /\ IsClosed(S) => c \in S}
    BY DEF Below, Holds, IsClosed
  <1>2. ASSUME NEW x \in Below[e], NEW c \in Holds(x) PROVE c \in Below[e]
    <2>1. c \in Entities
      BY <1>1, TreeFacts
    <2>2. ASSUME NEW S \in SUBSET Entities, e \in S, IsClosed(S) PROVE c \in S
      BY <1>1, <2>2 DEF IsClosed
    <2> QED BY <1>1, <2>1, <2>2
  <1> QED BY <1>1, <1>2 DEF IsClosed

LEMMA BelowWithin ==
    ASSUME NEW e \in Entities, NEW d \in Below[e]
    PROVE  Below[d] \subseteq Below[e]
  BY BelowLeast

(* What is below an entity is that entity, or is held by another below it. *)
LEMMA BelowHolder ==
    ASSUME NEW e \in Entities, NEW d \in Entities, NEW c \in Holds(d)
    PROVE  c \in Below[e] <=> c = e \/ d \in Below[e]
  <1>1. c \in Entities
    BY TreeFacts
  <1>2. ASSUME c \in Below[e], c # e PROVE d \in Below[e]
    <2> DEFINE S == {x \in Below[e] : x = e \/ \E p \in Below[e] : x \in Holds(p)}
    <2>1. S \subseteq Entities /\ e \in S
      BY BelowLeast
    <2>2. IsClosed(S)
      BY BelowLeast DEF IsClosed
    <2>3. c \in S
      <3> HIDE DEF S
      <3> QED BY <1>2, <2>1, <2>2, BelowLeast
    <2>4. PICK p \in Below[e] : c \in Holds(p)
      BY <1>2, <2>3
    <2>5. p \in Entities
      BY BelowLeast
    <2> QED BY <1>1, <2>4, <2>5, TreeFacts
  <1> QED BY <1>2, BelowLeast DEF IsClosed

LEMMA BelowSplit ==
    ASSUME NEW e \in Entities
    PROVE  \A x : x \in Below[e] <=> x = e \/ \E c \in Holds(e) : x \in Below[c]
  <1> DEFINE S == {x \in Entities : x = e \/ \E c \in Holds(e) : x \in Below[c]}
  <1>1. e \in S /\ S \subseteq Entities
    OBVIOUS
  <1>2. ASSUME NEW x \in S, NEW d \in Holds(x) PROVE d \in S
    <2>1. d \in Entities
      BY TreeFacts
    <2>2. CASE x = e
      BY <2>1, <2>2, BelowLeast
    <2>3. CASE x # e
      <3>1. PICK c \in Holds(e) : x \in Below[c]
        BY <2>3
      <3>2. c \in Entities
        BY TreeFacts
      <3>3. d \in Below[c]
        BY <3>1, <3>2, BelowLeast DEF IsClosed
      <3> QED BY <2>1, <3>1, <3>3
    <2> QED BY <2>2, <2>3
  <1>3. Below[e] \subseteq S
    <2>1. IsClosed(S)
      BY <1>2 DEF IsClosed
    <2> HIDE DEF S
    <2> QED BY <1>1, <2>1, BelowLeast
  <1>4. ASSUME NEW c \in Holds(e) PROVE Below[c] \subseteq Below[e]
    <2>1. c \in Below[e]
      BY BelowLeast DEF IsClosed
    <2> QED BY <2>1, BelowWithin
  <1> QED BY <1>3, <1>4, BelowLeast

LEMMA BelowFromTop ==
    ASSUME NEW t \in Tops, NEW e \in Entities, t \in Below[e]
    PROVE  t = e
  <1>1. ASSUME t # e PROVE FALSE
    <2>1. PICK c \in Holds(e) : t \in Below[c]
      BY <1>1, BelowSplit
    <2> DEFINE S == Below[e] \ {t}
    <2>2. e \in Entities /\ S \subseteq Entities /\ e \in S
      BY <1>1, BelowLeast
    <2>3. IsClosed(S)
      BY BelowLeast, TreeFacts DEF IsClosed
    <2>4. Below[e] \subseteq S
      <3> HIDE DEF S
      <3> QED BY <2>2, <2>3, BelowLeast
    <2> QED BY <2>4
  <1> QED BY <1>1

(* Nothing holds, at any depth, what holds it.                             *)
LEMMA NoneBelowItself ==
    ASSUME NEW e \in Entities, NEW c \in Holds(e)
    PROVE  c \in Entities /\ e \notin Below[c] /\ c # e
  <1> DEFINE S == {x \in Entities : \A d \in Holds(x) : x \notin Below[d]}
  <1>1. Tops \subseteq S
    <2>1. ASSUME NEW t \in Tops, NEW d \in Holds(t) PROVE t \notin Below[d]
      <3>1. t \in Entities /\ d \in Entities /\ d \notin Tops
        BY TreeFacts
      <3> QED BY <3>1, BelowFromTop
    <2> QED BY <2>1, TreeFacts
  <1>2. ASSUME NEW x \in S, NEW y \in Holds(x), NEW d \in Holds(y), y \in Below[d]
        PROVE  FALSE
    <2>1. x \in Entities /\ y \in Entities /\ d \in Entities
      BY TreeFacts
    <2>2. Below[y] \subseteq Below[d]
      BY <1>2, <2>1, BelowWithin
    <2>3. d \in Below[y]
      BY <2>1, BelowLeast DEF IsClosed
    <2>4. Below[d] \subseteq Below[y]
      BY <2>1, <2>3, BelowWithin
    <2>5. y = d \/ x \in Below[d]
      BY <1>2, <2>1, BelowHolder
    <2>6. CASE x \in Below[d]
      BY <2>4, <2>6
    <2>7. CASE y = d
      <3>1. y \in Holds(y)
        BY <2>7
      <3>2. x = y
        BY <2>1, <3>1, TreeFacts
      <3> QED BY <2>1, <3>1, <3>2, BelowLeast
    <2> QED BY <2>5, <2>6, <2>7
  <1>3. IsClosed(S)
    BY <1>2, TreeFacts DEF IsClosed
  <1>4. S = Entities
    <2>1. S \in SUBSET Entities
      OBVIOUS
    <2> HIDE DEF S
    <2> QED BY <1>1, <1>3, <2>1, TreeFacts
  <1>5. c \in Entities /\ e \notin Below[c]
    BY <1>4, TreeFacts
  <1> QED BY <1>5, BelowLeast

(* What two resources of the API hold is apart, and so is what any two     *)
(* that one entity holds do.                                               *)
LEMMA TopsApart ==
    ASSUME NEW t \in Tops, NEW u \in Tops, t # u
    PROVE  Below[t] \cap Below[u] = {}
  <1>1. t \in Entities /\ u \in Entities
    BY TreeFacts
  <1> DEFINE S == Below[t] \ Below[u]
  <1>2. S \subseteq Entities /\ t \in S
    BY <1>1, BelowLeast, BelowFromTop
  <1>3. ASSUME NEW x \in S, NEW c \in Holds(x) PROVE c \in S
    <2>1. x \in Entities /\ c \in Entities /\ c \in Below[t]
      BY <1>1, <1>3, BelowLeast, TreeFacts DEF IsClosed
    <2>2. c # u
      BY <2>1, TreeFacts
    <2> QED BY <1>1, <2>1, <2>2, BelowHolder
  <1>4. IsClosed(S)
    BY <1>3 DEF IsClosed
  <1>5. Below[t] \subseteq S
    <2> HIDE DEF S
    <2> QED BY <1>1, <1>2, <1>4, BelowLeast
  <1> QED BY <1>5

LEMMA HeldApart ==
    ASSUME NEW e \in Entities, NEW c \in Holds(e), NEW d \in Holds(e), c # d
    PROVE  c \notin Below[d]
  <1>1. c \in Entities /\ d \in Entities /\ e \notin Below[d]
    BY NoneBelowItself
  <1> QED BY <1>1, BelowHolder

-----------------------------------------------------------------------------
(* What the invariants say.  First, the types, and what each step of the   *)
(* driver leaves behind.                                                   *)
StageNames == ToSet(Stages)
Steps == StageNames \cup {"decode", "walk", "bind", "done"}
ToSecurity == {"DECODED", "ENDPOINTS", "decode", "walk", "SECURITY", "bind"}
Frames == [at : Resources \cup {API}, held : BOOLEAN, register : BOOLEAN,
           failure : SUBSET ({"duplicate"} \X Resources), rest : Seq(Resources)]

TypeOK ==
    /\ doc \in Corpus /\ step \in Steps
    /\ left \subseteq DOMAIN Top /\ attached \subseteq Entities /\ marking \in Seq(Entities)
    /\ DOMAIN failing = Entities
    /\ walk \in Seq(Frames) /\ endpoints \in Seq(Resources)
    /\ secured \in [Levels -> Levels] /\ binding \in Seq(References)
    /\ DOMAIN definition = References /\ DOMAIN compiled = References
    /\ DOMAIN broken = Marked \cup References
    /\ completed \in Seq(StageNames) /\ stopped_at \in StageNames \cup {None}
    /\ outcome \in {"running", "returned", "raised"}

Ordered ==
    /\ step # "done" => stopped_at = None /\ outcome = "running"
    /\ step \in ToSecurity => "SECURITY" \notin ToSet(completed)
    /\ step # "bind" => binding = <<>>
    /\ step # "decode" => marking = <<>>
    /\ marking # <<>> => marking[1] \in Tops
    /\ step # "walk" <=> walk = <<>>
    /\ \A k \in 2..Len(walk) : walk[k].at \in Resources
    /\ step \notin {"decode", "walk", "bind"} => acc = {}
    /\ step \in {"DECODED", "ENDPOINTS"} => attached = {} /\ endpoints = <<>> /\ left = {}

Orderly == TypeOK /\ Ordered

-----------------------------------------------------------------------------
(* The operators.                                                          *)
LEMMA StageList ==
    /\ StageNames = {"DECODED", "ENDPOINTS", "SECURITY", "RESOLVED", "ANNOTATIONS",
                     "UNWRAPPED", "VALIDATED"}
    /\ DOMAIN Stages = 1..7 /\ Stages[1] = "DECODED" /\ Stages[2] = "ENDPOINTS"
    /\ Stages[3] = "SECURITY" /\ Stages[4] = "RESOLVED" /\ Stages[5] = "ANNOTATIONS"
    /\ Stages[6] = "UNWRAPPED" /\ Stages[7] = "VALIDATED"
  <1>1. /\ DOMAIN Stages = 1..7 /\ Stages[1] = "DECODED" /\ Stages[2] = "ENDPOINTS"
        /\ Stages[3] = "SECURITY" /\ Stages[4] = "RESOLVED" /\ Stages[5] = "ANNOTATIONS"
        /\ Stages[6] = "UNWRAPPED" /\ Stages[7] = "VALIDATED"
    BY DEF Stages
  <1>2. 1..7 = {1, 2, 3, 4, 5, 6, 7}
    OBVIOUS
  <1> QED BY <1>1, <1>2 DEF StageNames, ToSet

LEMMA FollowingFacts ==
    /\ Following("DECODED") = "ENDPOINTS" /\ Following("ENDPOINTS") = "SECURITY"
    /\ Following("SECURITY") = "RESOLVED" /\ Following("RESOLVED") = "ANNOTATIONS"
    /\ Following("ANNOTATIONS") \in {"UNWRAPPED", "VALIDATED", "done"}
    /\ Following("UNWRAPPED") \in {"VALIDATED", "done"}
    /\ Following("VALIDATED") = "done"
  <1> DEFINE place(s) == CHOOSE i \in DOMAIN Stages : Stages[i] = s
             later(k) == {i \in DOMAIN Stages : i > k /\
                            (Stages[i] \in {"UNWRAPPED", "VALIDATED"} => Stages[i] \in doc.options)}
             first(S) == CHOOSE i \in S : \A j \in S : i <= j
             from(k) == IF later(k) = {} THEN "done" ELSE Stages[first(later(k))]
  <1>1. \A s : Following(s) = from(place(s))
    BY DEF Following
  <1>2. DOMAIN Stages = {1, 2, 3, 4, 5, 6, 7}
    <2>1. 1..7 = {1, 2, 3, 4, 5, 6, 7}
      OBVIOUS
    <2> QED BY <2>1, StageList
  <1>3. ASSUME NEW k \in DOMAIN Stages PROVE place(Stages[k]) = k
    <2>1. \A i \in DOMAIN Stages : Stages[i] = Stages[k] => i = k
      BY <1>2, <1>3, StageList
    <2> QED BY <2>1
  <1>4. /\ Following("DECODED") = from(1) /\ Following("ENDPOINTS") = from(2)
        /\ Following("SECURITY") = from(3) /\ Following("RESOLVED") = from(4)
        /\ Following("ANNOTATIONS") = from(5) /\ Following("UNWRAPPED") = from(6)
        /\ Following("VALIDATED") = from(7)
    <2> HIDE DEF from, place
    <2> QED BY <1>1, <1>2, <1>3, StageList
  <1>5. ASSUME NEW k \in {1, 2, 3, 4} PROVE from(k) = Stages[k + 1]
    <2>1. k + 1 \in later(k)
      BY <1>2, <1>5, StageList
    <2>2. \A i \in later(k) : i \in Nat /\ k + 1 <= i
      BY <1>2, <1>5
    <2> HIDE DEF later
    <2>3. \E i \in later(k) : \A j \in later(k) : i <= j
      BY <2>1, <2>2
    <2>4. first(later(k)) \in later(k) /\ \A j \in later(k) : first(later(k)) <= j
      <3> HIDE DEF first
      <3>1. first(later(k)) = CHOOSE i \in later(k) : \A j \in later(k) : i <= j
        BY DEF first
      <3> QED BY <2>3, <3>1
    <2> HIDE DEF first
    <2>5. first(later(k)) = k + 1
      BY <1>5, <2>1, <2>2, <2>4
    <2> QED BY <2>1, <2>5
  <1>6. ASSUME NEW k \in {5, 6, 7}
        PROVE  from(k) = "done" \/ \E i \in later(k) : from(k) = Stages[i]
    <2>1. \A i \in later(k) : i \in {6, 7}
      BY <1>2, <1>6
    <2> HIDE DEF later
    <2>2. later(k) # {} => \E i \in later(k) : \A j \in later(k) : i <= j
      <3>1. CASE 6 \in later(k)
        BY <2>1, <3>1
      <3>2. CASE 6 \notin later(k)
        BY <2>1, <3>2
      <3> QED BY <3>1, <3>2
    <2>3. later(k) # {} => first(later(k)) \in later(k)
      <3> HIDE DEF first
      <3>1. first(later(k)) = CHOOSE i \in later(k) : \A j \in later(k) : i <= j
        BY DEF first
      <3> QED BY <2>2, <3>1
    <2> HIDE DEF first
    <2> QED BY <2>3
  <1>7. /\ \A i \in later(5) : Stages[i] \in {"UNWRAPPED", "VALIDATED"}
        /\ \A i \in later(6) : Stages[i] = "VALIDATED"
        /\ later(7) = {}
    BY <1>2, StageList
  <1> HIDE DEF later, from
  <1>8. /\ from(5) \in {"UNWRAPPED", "VALIDATED", "done"} /\ from(6) \in {"VALIDATED", "done"}
        /\ from(7) = "done"
    BY <1>6, <1>7
  <1>9. from(1) = Stages[2] /\ from(2) = Stages[3] /\ from(3) = Stages[4] /\ from(4) = Stages[5]
    BY <1>5
  <1> QED BY <1>4, <1>8, <1>9, StageList

LEMMA FaultsTyped ==
    ASSUME doc \in Corpus, NEW f \in doc.faults
    PROVE  /\ f = <<f[1], f[2]>> /\ doc.strict \in BOOLEAN
           /\ f[1] \in EntityKinds => f[2] \in Entities
           /\ f[1] \notin EntityKinds => f[2] \notin Entities
  <1>1. /\ f \in (EntityKinds \X Entities) \cup (OtherKinds \X ({API} \cup Definitions))
        /\ doc.strict \in BOOLEAN
    BY CorpusAssumption
  <1>2. OtherKinds \cap EntityKinds = {}
    BY DEF OtherKinds, EntityKinds, Raising, Recovered
  <1> QED BY <1>1, <1>2, KindsAssumption

LEMMA RefsFacts ==
    ASSUME doc \in Corpus, NEW l \in Levels
    PROVE  /\ Refs(l) \in Seq(References) /\ ToSet(Refs(l)) \subseteq References
           /\ \A ref \in ToSet(Refs(l)) : ref[1] = l /\ ref \notin Marked
  <1> DEFINE n == Len(doc.secured[l])
  <1>1. CASE doc.secured[l] = None
    <2>1. Refs(l) = <<>>
      BY <1>1 DEF Refs
    <2>2. <<>> \in Seq(References) /\ ToSet(<<>>) = {}
      BY EmptySeq DEF ToSet
    <2> QED BY <2>1, <2>2
  <1>2. CASE doc.secured[l] # None
    <2>1. /\ n \in Nat /\ DOMAIN doc.secured[l] = 1..n
          /\ \A i \in 1..n : <<l, i>> \notin Marked
      BY <1>2, CorpusAssumption DEF Marked
    <2>2. Refs(l) = [i \in 1..n |-> <<l, i>>]
      BY <1>2, <2>1 DEF Refs
    <2>3. ToSet(Refs(l)) \subseteq References
      BY DEF References
    <2>4. \A i \in 1..n : <<l, i>> \in ToSet(Refs(l))
      BY <2>2 DEF ToSet
    <2>5. Refs(l) \in Seq(References)
      <3> HIDE DEF n
      <3>1. \A i \in 1..n : <<l, i>> \in References
        BY <2>3, <2>4
      <3> QED BY <2>1, <2>2, <3>1
    <2> QED BY <2>1, <2>2, <2>3, <2>5 DEF ToSet
  <1> QED BY <1>1, <1>2

LEMMA ReferencesApart ==
    ASSUME doc \in Corpus
    PROVE  References \cap Marked = {}
  BY RefsFacts DEF References

LEMMA InheritedType ==
    ASSUME endpoints \in Seq(Resources), NEW whose \in [Levels -> Levels]
    PROVE  Inherited(whose) \in [Levels -> Levels]
  <1>1. ToSet(endpoints) \subseteq Levels
    BY EveryElement DEF Levels
  <1>2. ASSUME NEW l \in Levels, \E r \in ToSet(endpoints) : l \in ToSet(OperationsOf[r])
        PROVE  (CHOOSE r \in ToSet(endpoints) : l \in ToSet(OperationsOf[r])) \in Levels
    BY <1>1, <1>2
  <1> QED BY <1>2 DEF Inherited

LEMMA EveryReferenceSet ==
    ASSUME doc \in Corpus, endpoints \in Seq(Resources), NEW whose \in [Levels -> Levels]
    PROVE  /\ EveryReference(whose) \in Seq(References)
           /\ ToSet(Refs(API)) \subseteq ToSet(EveryReference(whose))
           /\ \A r \in ToSet(endpoints) : \A l \in {r} \cup ToSet(OperationsOf[r]) :
                ToSet(Refs(whose[l])) \subseteq ToSet(EveryReference(whose))
  <1> DEFINE Of(l) == Refs(whose[l])
             Ops(r) == [i \in DOMAIN OperationsOf[r] |-> Of(OperationsOf[r][i])]
             OfAll(r) == FlattenSeq(Ops(r)) \o Of(r)
             each == [i \in DOMAIN endpoints |-> OfAll(endpoints[i])]
             first == FlattenSeq(each)
             last == Refs(API)
  <1>1. EveryReference(whose) = first \o last
    BY DEF EveryReference
  <1>2. \A l \in Levels : Of(l) \in Seq(References)
    BY RefsFacts
  <1>3. last \in Seq(References)
    BY RefsFacts DEF Levels
  <1> HIDE DEF Of
  <1>4. ASSUME NEW r \in Resources
        PROVE  /\ OfAll(r) \in Seq(References)
               /\ \A l \in {r} \cup ToSet(OperationsOf[r]) : ToSet(Of(l)) \subseteq ToSet(OfAll(r))
    <2> DEFINE ops == OperationsOf[r]
    <2>1. ops \in Seq(Operations)
      BY TreeAssumption
    <2>2. /\ DOMAIN ops = 1..Len(ops) /\ Len(ops) \in Nat
          /\ \A i \in DOMAIN ops : ops[i] \in Levels
      <3> HIDE DEF ops
      <3>1. DOMAIN ops = 1..Len(ops) /\ Len(ops) \in Nat /\ \A i \in DOMAIN ops : ops[i] \in Operations
        BY <2>1, LenProperties, EveryElement
      <3> QED BY <3>1 DEF Levels
    <2>3. r \in Levels
      BY DEF Levels
    <2> DEFINE s == Ops(r)
               t == Of(r)
    <2>4. s \in Seq(Seq(References)) /\ DOMAIN s = DOMAIN ops /\ \A i \in DOMAIN ops : s[i] = Of(ops[i])
      <3>1. s = [i \in 1..Len(ops) |-> Of(ops[i])]
        BY <2>2
      <3>2. \A i \in 1..Len(ops) : Of(ops[i]) \in Seq(References)
        BY <1>2, <2>2
      <3> HIDE DEF s, ops
      <3> QED BY <2>2, <3>1, <3>2
    <2> HIDE DEF s
    <2>5. /\ FlattenSeq(s) \in Seq(References)
          /\ \A i \in DOMAIN ops : ToSet(Of(ops[i])) \subseteq ToSet(FlattenSeq(s))
      BY <2>4, FlattenedSet
    <2>6. t \in Seq(References)
      BY <1>2, <2>3
    <2> DEFINE f == FlattenSeq(s)
    <2> HIDE DEF t, f
    <2>7. f \o t \in Seq(References) /\ ToSet(f \o t) = ToSet(f) \cup ToSet(t)
      BY <2>5, <2>6, ConcatSet, ConcatProperties DEF f
    <2>8. OfAll(r) = f \o t
      BY DEF f, s, t
    <2>9. ASSUME NEW l \in ToSet(OperationsOf[r]) PROVE ToSet(Of(l)) \subseteq ToSet(f)
      BY <2>5, <2>9 DEF ToSet, f
    <2> HIDE DEF OfAll
    <2> QED BY <2>7, <2>8, <2>9 DEF t
  <1> HIDE DEF OfAll
  <1>5. /\ DOMAIN endpoints = 1..Len(endpoints) /\ Len(endpoints) \in Nat
        /\ \A i \in DOMAIN endpoints : endpoints[i] \in Resources
    BY LenProperties, EveryElement
  <1>6. each \in Seq(Seq(References)) /\ DOMAIN each = DOMAIN endpoints
    BY <1>4, <1>5
  <1>7. \A i \in DOMAIN endpoints : each[i] = OfAll(endpoints[i])
    OBVIOUS
  <1> HIDE DEF each
  <1>8. /\ first \in Seq(References)
        /\ \A x : x \in ToSet(first) <=> \E i \in DOMAIN each : x \in ToSet(each[i])
    BY <1>6, FlattenedSet
  <1> HIDE DEF first, last
  <1>9. first \o last \in Seq(References) /\ ToSet(first \o last) = ToSet(first) \cup ToSet(last)
    BY <1>3, <1>8, ConcatSet, ConcatProperties
  <1>10. ASSUME NEW r \in ToSet(endpoints), NEW l \in {r} \cup ToSet(OperationsOf[r])
         PROVE  ToSet(Refs(whose[l])) \subseteq ToSet(first)
    <2>1. PICK i \in DOMAIN endpoints : endpoints[i] = r
      BY DEF ToSet
    <2>2. ToSet(Of(l)) \subseteq ToSet(each[i])
      BY <1>4, <1>5, <1>7, <2>1
    <2> QED BY <1>6, <1>8, <2>1, <2>2 DEF Of
  <1> QED BY <1>1, <1>9, <1>10 DEF last

(* What may be wrong with the URI parameters of a resource.                *)
Troubles(r) == {<<"malformed", r>>, <<"unused", r>>}

(* The frames of the walk, as its two steps leave them.                    *)
LEMMA VisitWalk ==
    ASSUME TypeOK, Ordered, NEW r \in Resources, Visit(r)
    PROVE  \E duplicate \in {{}, {<<"duplicate", r>>}} :
             LET n == Len(walk)
                 above == walk[n]
                 first == duplicate = {} /\ above.register
             IN /\ n \in Nat \ {0} /\ above \in Frames
                /\ above.rest # <<>> /\ r = Head(above.rest)
                /\ walk' \in Seq(Frames) /\ Len(walk') = n + 1
                /\ \A k \in 1..n : k # n => walk'[k] = walk[k]
                /\ walk'[n] = [above EXCEPT !.rest = Tail(@)] /\ walk'[n + 1].at = r
                /\ walk'[n + 1] =
                     [at |-> r, held |-> above.held \/ first,
                      register |-> IF duplicate = {} THEN above.register
                                   ELSE above.register /\ above.held,
                      failure |-> duplicate, rest |-> Nested[r]]
                /\ endpoints' = IF first THEN Append(endpoints, r) ELSE endpoints
                /\ acc \cup duplicate \subseteq acc'
                /\ acc' \subseteq acc \cup duplicate \cup Troubles(r)
                /\ step = "walk" /\ step' = "walk"
                /\ UNCHANGED <<doc, decoding, binds, broken, errors, completed, stopped_at, outcome>>
  <1> DEFINE n == Len(walk)
             above == walk[n]
             duplicate == IF Taken(FullUri(r)) THEN {<<"duplicate", r>>} ELSE {}
             first == duplicate = {} /\ above.register
             part == [above EXCEPT !.rest = Tail(@)]
             kept == [walk EXCEPT ![n] = part]
             frame == [at |-> r, held |-> above.held \/ first,
                       register |-> IF duplicate = {} THEN above.register
                                    ELSE above.register /\ above.held,
                       failure |-> duplicate, rest |-> Nested[r]]
  <1>1. step = "walk" /\ walk # <<>> /\ walk \in Seq(Frames)
    BY DEF Visit, Registering, Ordered, TypeOK
  <1>2. n \in Nat \ {0} /\ n \in 1..n
    BY <1>1, EmptySeq
  <1>3. above \in Frames
    BY <1>1, <1>2, ElementOfSeq
  <1>4. above.rest # <<>> /\ r = Head(above.rest)
    BY DEF Visit, Registering, Last
  <1>5. above.rest \in Seq(Resources) /\ Tail(above.rest) \in Seq(Resources)
    BY <1>3, <1>4, HeadTailProperties DEF Frames
  <1>6. part \in Frames
    BY <1>3, <1>5 DEF Frames
  <1>7. Nested[r] \in Seq(Resources)
    BY ResourceHolds
  <1>8. frame \in Frames
    <2>1. above.held \in BOOLEAN /\ above.register \in BOOLEAN
      BY <1>3 DEF Frames
    <2>2. duplicate \in SUBSET ({"duplicate"} \X Resources)
      OBVIOUS
    <2>3. (above.held \/ first) \in BOOLEAN
      OBVIOUS
    <2>4. (IF duplicate = {} THEN above.register ELSE above.register /\ above.held) \in BOOLEAN
      BY <2>1
    <2> HIDE DEF duplicate, first, above
    <2> QED BY <1>7, <2>2, <2>3, <2>4 DEF Frames
  <1>9. /\ walk' = Append([walk EXCEPT ![n].rest = Tail(@)], frame)
        /\ endpoints' = IF first THEN Append(endpoints, r) ELSE endpoints
        /\ acc \cup duplicate \subseteq acc'
        /\ acc' \subseteq acc \cup duplicate \cup Troubles(r)
        /\ step' = "walk"
        /\ UNCHANGED <<doc, decoding, binds, broken, errors, completed, stopped_at, outcome>>
    BY <1>1 DEF Visit, Registering, Last, Faulty, Troubles
  <1>10. [walk EXCEPT ![n].rest = Tail(@)] = kept
    OBVIOUS
  <1>11. duplicate \in {{}, {<<"duplicate", r>>}}
    OBVIOUS
  <1> HIDE DEF duplicate, first, above
  <1>15. frame.at = r
    OBVIOUS
  <1> HIDE DEF n, frame, part
  <1>12. /\ kept \in Seq(Frames) /\ Len(kept) = n
         /\ \A k \in 1..n : kept[k] = IF k = n THEN part ELSE walk[k]
    BY <1>1, <1>2, <1>6, ExceptSeq DEF n
  <1> HIDE DEF kept
  <1>13. /\ walk' \in Seq(Frames) /\ Len(walk') = n + 1 /\ walk'[n + 1] = frame
         /\ \A k \in 1..n : walk'[k] = kept[k]
    <2>1. walk' = Append(kept, frame)
      BY <1>9, <1>10
    <2> QED BY <1>8, <1>12, <2>1, AppendProperties
  <1>14. walk'[n] = part /\ \A k \in 1..n : k # n => walk'[k] = walk[k]
    BY <1>2, <1>12, <1>13
  <1> QED BY <1>1, <1>2, <1>3, <1>4, <1>9, <1>11, <1>13, <1>14, <1>15
          DEF n, frame, part, first, above

LEMMA ReturnWalk ==
    ASSUME TypeOK, Ordered, Return
    PROVE  LET n == Len(walk)
               frame == walk[n]
           IN /\ n \in Nat \ {0} /\ frame \in Frames /\ frame.rest = <<>> /\ step = "walk"
              /\ n = 1 => walk' = <<>> /\ step' = "decode" /\ broken' = broken
              /\ n # 1 =>
                   /\ step' = "walk" /\ walk' \in Seq(Frames) /\ Len(walk') = n - 1 /\ walk' # <<>>
                   /\ \A k \in 1..(n - 1) : k # n - 1 => walk'[k] = walk[k]
                   /\ walk[n - 1] \in Frames
                   /\ walk'[n - 1] = [walk[n - 1] EXCEPT !.failure =
                                         IF @ = {} THEN frame.failure ELSE @]
                   /\ broken' = IF frame.held THEN Mark(broken, {frame.at}, frame.failure)
                                ELSE broken
              /\ UNCHANGED <<doc, decoding, acc, endpoints, params, binds, errors, completed,
                             stopped_at, outcome>>
  <1> DEFINE n == Len(walk)
             frame == walk[n]
             above == Front(walk)
             joined == [above[n - 1] EXCEPT !.failure = IF @ = {} THEN frame.failure ELSE @]
  <1>1. step = "walk" /\ walk # <<>> /\ walk \in Seq(Frames)
    BY DEF Return, Ordered, TypeOK
  <1>2. n \in Nat \ {0} /\ n \in 1..n
    BY <1>1, EmptySeq
  <1>3. frame \in Frames
    BY <1>1, <1>2, ElementOfSeq
  <1>4. /\ above \in Seq(Frames) /\ Len(above) = n - 1
        /\ \A k \in 1..(n - 1) : above[k] = walk[k]
    BY <1>1, <1>3, LastReplaced
  <1>5. frame.rest = <<>> /\ UNCHANGED <<doc, decoding, acc, endpoints, params, binds, errors,
                                         completed, stopped_at, outcome>>
    BY DEF Return, Last
  <1>6. CASE n = 1
    <2>1. above = <<>>
      BY <1>4, <1>6, EmptySeq
    <2>2. walk' = <<>> /\ step' = "decode" /\ broken' = broken
      BY <2>1 DEF Return
    <2> QED BY <1>1, <1>2, <1>3, <1>5, <1>6, <2>2
  <1>7. CASE n # 1
    <2>1. n - 1 \in 1..(n - 1) /\ n - 1 \in Nat \ {0}
      BY <1>2, <1>7
    <2>2. above # <<>> /\ above[n - 1] = walk[n - 1] /\ above[n - 1] \in Frames
      BY <1>4, <2>1, EmptySeq, ElementOfSeq
    <2>3. /\ walk' = [above EXCEPT ![Len(above)].failure = IF @ = {} THEN frame.failure ELSE @]
          /\ broken' = IF frame.held THEN Mark(broken, {frame.at}, frame.failure) ELSE broken
          /\ step' = step
      BY <2>2 DEF Return, Last
    <2>4. joined \in Frames
      BY <1>3, <2>2 DEF Frames
    <2>5. walk' = [above EXCEPT ![n - 1] = joined]
      <3> HIDE DEF above, frame
      <3> QED BY <1>4, <2>3
    <2> HIDE DEF n, above, joined
    <2>6. /\ walk' \in Seq(Frames) /\ Len(walk') = n - 1
          /\ \A k \in 1..(n - 1) : walk'[k] = IF k = n - 1 THEN joined ELSE above[k]
      BY <1>4, <2>1, <2>4, <2>5, ExceptSeq
    <2>7. walk' # <<>>
      BY <2>1, <2>6, EmptySeq
    <2>8. walk'[n - 1] = [walk[n - 1] EXCEPT !.failure = IF @ = {} THEN frame.failure ELSE @]
      BY <2>1, <2>2, <2>6 DEF joined
    <2>9. \A k \in 1..(n - 1) : k # n - 1 => walk'[k] = walk[k]
      BY <1>4, <2>6
    <2> QED BY <1>1, <1>2, <1>3, <1>5, <1>7, <2>2, <2>3, <2>6, <2>7, <2>8, <2>9 DEF n
  <1> QED BY <1>6, <1>7

(* The end of a stage: it was sound or recovered from, or the parse stops. *)
LEMMA EndFacts ==
    ASSUME NEW s, NEW raised, NEW recovered, EndOf(s, raised, recovered)
    PROVE  /\ errors' = errors \cup raised \cup recovered
           /\ \/ /\ raised = {} /\ (doc.strict => recovered = {})
                 /\ completed' = Append(completed, s) /\ step' = Following(s)
                 /\ stopped_at' = stopped_at /\ outcome' = outcome
              \/ /\ raised # {} \/ (doc.strict /\ recovered # {})
                 /\ completed' = completed /\ stopped_at' = s /\ step' = "done"
                 /\ outcome' = IF doc.strict \/ Fatal(raised) THEN "raised" ELSE "returned"
  BY DEF EndOf, StageEnds, StageRaises

LEMMA EndOrderly ==
    ASSUME TypeOK, Ordered, NEW s \in StageNames, NEW raised, NEW recovered,
           EndOf(s, raised, recovered),
           \/ step = s /\ s \notin {"ENDPOINTS", "SECURITY"}
           \/ step = "decode" /\ s = "ENDPOINTS"
           \/ step = "bind" /\ s = "SECURITY"
    PROVE  /\ completed' \in Seq(StageNames) /\ stopped_at' \in StageNames \cup {None}
           /\ outcome' \in {"running", "returned", "raised"}
           /\ step' \in Steps \ {"DECODED", "decode", "walk", "bind"}
           /\ step' = "ENDPOINTS" => step = "DECODED"
           /\ step' # "done" => stopped_at' = None /\ outcome' = "running"
           /\ step' \in ToSecurity => "SECURITY" \notin ToSet(completed')
  <1>1. /\ completed \in Seq(StageNames) /\ stopped_at = None /\ outcome = "running"
        /\ s \in ToSecurity => "SECURITY" \notin ToSet(completed)
    <2>1. step # "done"
      BY StageList
    <2>2. s \in ToSecurity => step \in ToSecurity
      BY DEF ToSecurity
    <2> QED BY <2>1, <2>2 DEF TypeOK, Ordered
  <1>2. CASE /\ completed' = completed /\ stopped_at' = s /\ step' = "done"
             /\ outcome' = IF doc.strict \/ Fatal(raised) THEN "raised" ELSE "returned"
    BY <1>1, <1>2 DEF Steps, ToSecurity
  <1>3. CASE /\ completed' = Append(completed, s) /\ step' = Following(s)
             /\ stopped_at' = stopped_at /\ outcome' = outcome
    <2>1. completed' \in Seq(StageNames) /\ ToSet(completed') = ToSet(completed) \cup {s}
      BY <1>1, <1>3, AppendSet
    <2>2. /\ Following(s) \in Steps \ {"DECODED", "decode", "walk", "bind"}
          /\ Following(s) = "ENDPOINTS" => s = "DECODED"
          /\ Following(s) \in ToSecurity => s \in ToSecurity /\ s # "SECURITY"
      <3>1. /\ s = "DECODED" => Following(s) = "ENDPOINTS"
            /\ s = "ENDPOINTS" => Following(s) = "SECURITY"
            /\ s = "SECURITY" => Following(s) = "RESOLVED"
            /\ s = "RESOLVED" => Following(s) = "ANNOTATIONS"
            /\ s = "ANNOTATIONS" => Following(s) \in {"UNWRAPPED", "VALIDATED", "done"}
            /\ s = "UNWRAPPED" => Following(s) \in {"VALIDATED", "done"}
            /\ s = "VALIDATED" => Following(s) = "done"
        BY FollowingFacts
      <3> QED BY <3>1, StageList DEF Steps, ToSecurity
    <2>3. step' = "ENDPOINTS" => step = "DECODED"
      BY <1>3, <2>2
    <2>4. step' \in ToSecurity => "SECURITY" \notin ToSet(completed')
      BY <1>1, <1>3, <2>1, <2>2
    <2> QED BY <1>1, <1>3, <2>1, <2>2, <2>3, <2>4
  <1> QED BY <1>2, <1>3, EndFacts

-----------------------------------------------------------------------------
LEMMA DocStays ==
    ASSUME [Next]_vars
    PROVE  doc' = doc
  BY DEF Next, vars, Whole, Sources, Open, Close, Visit, Registering, Return, Endpoints, Inherit,
         Bind, Secured, Finish

LEMMA ReferencesStay ==
    ASSUME doc' = doc
    PROVE  References' = References
  BY DEF References, Refs

LEMMA OrderlyInit == Init => Orderly
  <1> SUFFICES ASSUME Init PROVE Orderly
    OBVIOUS
  <1> USE DEF Init
  <1>1. <<>> \in Seq(Entities) /\ <<>> \in Seq(Frames) /\ <<>> \in Seq(Resources)
        /\ <<>> \in Seq(References) /\ <<>> \in Seq(StageNames)
    BY EmptySeq
  <1>2. Decoded \in [Levels -> Levels]
    BY DEF Decoded, Levels
  <1>3. TypeOK
    BY <1>1, <1>2, StageList DEF TypeOK, Steps, Marked
  <1>4. ToSet(completed) = {} /\ 2..Len(walk) = {}
    BY DEF ToSet
  <1> QED BY <1>3, <1>4 DEF Orderly, Ordered

LEMMA OrderlyNext == Orderly /\ [Next]_vars => Orderly'
  <1> SUFFICES ASSUME TypeOK, Ordered, [Next]_vars PROVE TypeOK' /\ Ordered'
    BY DEF Orderly
  <1>1. doc' = doc /\ doc' \in Corpus /\ References' = References
    BY DocStays, ReferencesStay DEF TypeOK
  <1>2. ASSUME NEW s \in {"DECODED", "RESOLVED", "ANNOTATIONS", "UNWRAPPED", "VALIDATED"}, Whole(s)
        PROVE  TypeOK' /\ Ordered'
    <2>1. step = s /\ s \in StageNames /\ s \notin {"ENDPOINTS", "SECURITY"}
      BY <1>2, StageList DEF Whole
    <2>2. PICK raised, recovered : EndOf(s, raised, recovered)
      BY <1>2 DEF Whole
    <2>3. /\ completed' \in Seq(StageNames) /\ stopped_at' \in StageNames \cup {None}
          /\ outcome' \in {"running", "returned", "raised"}
          /\ step' \in Steps \ {"DECODED", "decode", "walk", "bind"}
          /\ step' = "ENDPOINTS" => step = "DECODED"
          /\ step' # "done" => stopped_at' = None /\ outcome' = "running"
          /\ step' \in ToSecurity => "SECURITY" \notin ToSet(completed')
      BY <2>1, <2>2, EndOrderly
    <2>4. /\ DOMAIN broken' = DOMAIN broken /\ UNCHANGED <<decoding, acc, walking, binds>>
      BY <1>2 DEF Whole
    <2>5. step \notin {"decode", "walk", "bind", "done"}
      BY <2>1
    <2>6. TypeOK'
      BY <1>1, <2>3, <2>4 DEF TypeOK, decoding, walking, binds
    <2>7. Ordered'
      BY <2>3, <2>4, <2>5 DEF Ordered, decoding, walking, binds
    <2> QED BY <2>6, <2>7
  <1>3. CASE Sources
    <2>1. /\ step = "ENDPOINTS" /\ step' = "decode" /\ left' \subseteq DOMAIN Top
          /\ UNCHANGED <<attached, marking, failing, walking, binds, broken, errors,
                   completed, stopped_at, outcome>>
      BY <1>3 DEF Sources
    <2>2. TypeOK'
      BY <1>1, <2>1 DEF TypeOK, walking, binds, Steps
    <2>3. Ordered'
      BY <2>1 DEF Ordered, walking, binds, ToSecurity
    <2> QED BY <2>2, <2>3
  <1>4. ASSUME NEW e \in Entities, Open(e) PROVE TypeOK' /\ Ordered'
    <2>1. /\ step = "decode" /\ attached' = attached \cup {e} /\ marking' = Append(marking, e)
          /\ left' \subseteq left /\ DOMAIN failing' = DOMAIN failing /\ DOMAIN broken' = DOMAIN broken
          /\ UNCHANGED <<step, acc, walking, binds, completed, stopped_at, outcome>>
      BY <1>4 DEF Open, Mark
    <2>2. /\ marking' \in Seq(Entities) /\ Len(marking') = Len(marking) + 1
          /\ marking'[Len(marking) + 1] = e /\ \A i \in 1..Len(marking) : marking'[i] = marking[i]
      BY <2>1, AppendProperties DEF TypeOK
    <2>3. TypeOK'
      BY <1>1, <2>1, <2>2 DEF TypeOK, walking, binds
    <2>4. marking'[1] \in Tops
      <3>1. CASE marking = <<>>
        <4>1. marking'[1] = e
          BY <2>2, <3>1
        <4>2. e \in Tops
          BY <1>4, <3>1 DEF Open, IsNext, Tops, ToSet, TypeOK
        <4> QED BY <4>1, <4>2
      <3>2. CASE marking # <<>>
        <4>1. Len(marking) \in Nat \ {0}
          BY <3>2, EmptySeq DEF TypeOK
        <4> QED BY <2>2, <3>2, <4>1 DEF Ordered
      <3> QED BY <3>1, <3>2
    <2>5. Ordered'
      BY <2>1, <2>4 DEF Ordered, walking, binds
    <2> QED BY <2>3, <2>5
  <1>5. ASSUME NEW e \in Entities, Close(e) PROVE TypeOK' /\ Ordered'
    <2> DEFINE n == Len(marking)
               frame == [at |-> API, held |-> FALSE, register |-> TRUE,
                         failure |-> {}, rest |-> <<e>>]
    <2>1. /\ step = "decode" /\ marking # <<>> /\ e = Last(marking) /\ marking' = Front(marking)
          /\ DOMAIN failing' = DOMAIN failing /\ DOMAIN broken' = DOMAIN broken
          /\ \/ marking' # <<>> /\ UNCHANGED <<acc, step, walk>>
             \/ marking' = <<>> /\ walk' = <<frame>> /\ step' = "walk"
          /\ UNCHANGED <<left, attached, endpoints, params, binds, errors, completed,
                   stopped_at, outcome>>
      BY <1>5 DEF Close, Mark
    <2>2. /\ n \in Nat \ {0} /\ marking' \in Seq(Entities) /\ Len(marking') = n - 1
          /\ e = marking[n] /\ \A i \in 1..(n - 1) : marking'[i] = marking[i]
      <3>1. marking \in Seq(Entities)
        BY DEF TypeOK
      <3> QED BY <2>1, <3>1, LastReplaced
    <2>3. marking[1] \in Tops
      BY <2>1 DEF Ordered
    <2>4. CASE marking' # <<>>
      <3>1. Len(marking') # 0
        BY <2>2, <2>4, EmptySeq
      <3>2. marking'[1] = marking[1]
        BY <2>2, <3>1
      <3>3. UNCHANGED <<acc, step, walk>>
        BY <2>1, <2>4
      <3>4. TypeOK'
        BY <1>1, <2>1, <2>2, <3>3 DEF TypeOK, binds
      <3>5. Ordered'
        BY <2>1, <2>3, <2>4, <3>2, <3>3 DEF Ordered, binds
      <3> QED BY <3>4, <3>5
    <2>5. CASE marking' = <<>>
      <3>1. n = 1
        BY <2>2, <2>5, EmptySeq
      <3>2. e \in Resources
        BY <2>2, <2>3, <3>1, TreeFacts
      <3>3. frame \in Frames
        <4>1. <<e>> \in Seq(Resources)
          BY <3>2
        <4> QED BY <4>1 DEF Frames
      <3>4. walk' = <<frame>> /\ step' = "walk"
        BY <2>1, <2>5
      <3>5. walk' \in Seq(Frames) /\ walk' # <<>>
        <4> HIDE DEF frame
        <4> QED BY <3>3, <3>4
      <3>6. TypeOK'
        BY <1>1, <2>1, <2>2, <3>4, <3>5 DEF TypeOK, binds, Steps
      <3>7. Len(walk') = 1 /\ 2..1 = {}
        <4> HIDE DEF frame
        <4> QED BY <3>4
      <3>8. Ordered'
        BY <2>1, <2>5, <3>4, <3>5, <3>7 DEF Ordered, binds, ToSecurity
      <3> QED BY <3>6, <3>8
    <2> QED BY <2>4, <2>5
  <1>6. ASSUME NEW r \in Resources, Visit(r) PROVE TypeOK' /\ Ordered'
    <2>1. /\ walk' \in Seq(Frames) /\ Len(walk') = Len(walk) + 1 /\ Len(walk) \in Nat
          /\ step = "walk" /\ step' = "walk"
          /\ endpoints' = endpoints \/ endpoints' = Append(endpoints, r)
          /\ UNCHANGED <<doc, decoding, binds, broken, errors, completed, stopped_at, outcome>>
      BY <1>6, VisitWalk
    <2>2. endpoints' \in Seq(Resources)
      <3>1. endpoints \in Seq(Resources)
        BY DEF TypeOK
      <3>2. Append(endpoints, r) \in Seq(Resources)
        BY <3>1, AppendProperties
      <3> QED BY <2>1, <3>1, <3>2
    <2>3. walk' # <<>>
      BY <2>1, EmptySeq
    <2>4. TypeOK'
      BY <1>1, <2>1, <2>2 DEF TypeOK, decoding, binds
    <2>5. ASSUME NEW k \in 2..Len(walk') PROVE walk'[k].at \in Resources
      <3> DEFINE n == Len(walk)
      <3>1. /\ n \in Nat \ {0} /\ walk[n] \in Frames /\ Len(walk') = n + 1
            /\ \A i \in 1..n : i # n => walk'[i] = walk[i]
            /\ walk'[n] = [walk[n] EXCEPT !.rest = Tail(@)] /\ walk'[n + 1].at = r
        BY <1>6, VisitWalk
      <3>2. walk'[n].at = walk[n].at
        BY <3>1 DEF Frames
      <3> HIDE DEF n
      <3>3. k = n + 1 \/ k = n \/ (k \in 1..n /\ k # n)
        BY <3>1
      <3>4. k # n + 1 => k \in 2..n
        BY <3>1
      <3>5. \A i \in 2..n : walk[i].at \in Resources
        BY DEF Ordered, n
      <3> QED BY <3>1, <3>2, <3>3, <3>4, <3>5
    <2>6. Ordered'
      BY <2>1, <2>3, <2>5 DEF Ordered, decoding, binds, ToSecurity
    <2> QED BY <2>4, <2>6
  <1>7. CASE Return
    <2>1. /\ step = "walk"
          /\ \/ walk' = <<>> /\ step' = "decode"
             \/ step' = "walk" /\ walk' \in Seq(Frames) /\ walk' # <<>>
          /\ UNCHANGED <<doc, decoding, acc, endpoints, params, binds, errors, completed,
                             stopped_at, outcome>>
      BY <1>7, ReturnWalk
    <2>2. DOMAIN broken' = DOMAIN broken
      BY <1>7 DEF Return, Mark
    <2>3. walk' \in Seq(Frames)
      BY <2>1, EmptySeq
    <2>4. TypeOK'
      BY <1>1, <2>1, <2>2, <2>3 DEF TypeOK, decoding, binds, Steps
    <2>5. ASSUME NEW k \in 2..Len(walk') PROVE walk'[k].at \in Resources
      <3> DEFINE n == Len(walk)
      <3>1. /\ n \in Nat \ {0}
            /\ n = 1 => walk' = <<>>
            /\ n # 1 =>
                 /\ Len(walk') = n - 1
                 /\ \A i \in 1..(n - 1) : i # n - 1 => walk'[i] = walk[i]
                 /\ walk[n - 1] \in Frames
                 /\ walk'[n - 1] = [walk[n - 1] EXCEPT !.failure =
                                         IF @ = {} THEN walk[n].failure ELSE @]
        BY <1>7, ReturnWalk
      <3>2. n # 1
        BY <3>1, <2>5
      <3>3. walk'[n - 1].at = walk[n - 1].at
        BY <3>1, <3>2 DEF Frames
      <3> HIDE DEF n
      <3>4. k \in 1..(n - 1) /\ k \in 2..n
        BY <3>1, <3>2
      <3>5. walk[k].at \in Resources
        BY <3>4 DEF Ordered, n
      <3> QED BY <3>1, <3>2, <3>3, <3>4, <3>5
    <2>6. Ordered'
      BY <2>1, <2>5 DEF Ordered, decoding, binds, ToSecurity
    <2> QED BY <2>4, <2>6
  <1>8. CASE Endpoints
    <2>1. /\ step = "decode" /\ marking = <<>> /\ acc' = {}
          /\ UNCHANGED <<doc, decoding, walking, binds, broken>>
          /\ EndOf("ENDPOINTS", acc, {})
      BY <1>8 DEF Endpoints
    <2>2. /\ completed' \in Seq(StageNames) /\ stopped_at' \in StageNames \cup {None}
          /\ outcome' \in {"running", "returned", "raised"}
          /\ step' \in Steps \ {"DECODED", "decode", "walk", "bind"}
          /\ step' = "ENDPOINTS" => step = "DECODED"
          /\ step' # "done" => stopped_at' = None /\ outcome' = "running"
          /\ step' \in ToSecurity => "SECURITY" \notin ToSet(completed')
      BY <2>1, StageList, EndOrderly
    <2>3. TypeOK'
      BY <1>1, <2>1, <2>2 DEF TypeOK, decoding, walking, binds
    <2>4. Ordered'
      BY <2>1, <2>2 DEF Ordered, decoding, walking, binds
    <2> QED BY <2>3, <2>4
  <1>9. CASE Inherit
    <2>1. /\ step = "SECURITY" /\ step' = "bind"
          /\ secured' = Inherited(Decoded) /\ binding' = EveryReference(secured')
          /\ UNCHANGED <<decoding, acc, walking, definition, compiled, broken, errors,
                   completed, stopped_at, outcome>>
      BY <1>9 DEF Inherit
    <2>2. Decoded \in [Levels -> Levels]
      BY DEF Decoded, Levels
    <2>3. secured' \in [Levels -> Levels]
      BY <2>1, <2>2, InheritedType DEF TypeOK
    <2>4. binding' \in Seq(References)
      BY <2>1, <2>3, EveryReferenceSet DEF TypeOK
    <2>5. TypeOK'
      BY <1>1, <2>1, <2>3, <2>4 DEF TypeOK, decoding, walking, Steps
    <2>6. Ordered'
      BY <2>1 DEF Ordered, decoding, walking, ToSecurity
    <2> QED BY <2>5, <2>6
  <1>10. CASE Bind
    <2>1. /\ step = "bind" /\ binding # <<>> /\ binding' = Tail(binding)
          /\ DOMAIN definition' = DOMAIN definition /\ DOMAIN compiled' = DOMAIN compiled
          /\ UNCHANGED <<doc, step, decoding, walking, secured, errors, completed, stopped_at,
                   outcome>>
      BY <1>10 DEF Bind
    <2>2. DOMAIN broken' = DOMAIN broken
      BY <1>10 DEF Bind, Mark
    <2>3. binding' \in Seq(References)
      BY <2>1, HeadTailProperties DEF TypeOK
    <2>4. TypeOK'
      BY <1>1, <2>1, <2>2, <2>3 DEF TypeOK, decoding, walking
    <2>5. Ordered'
      BY <2>1 DEF Ordered, decoding, walking
    <2> QED BY <2>4, <2>5
  <1>11. CASE Secured
    <2>1. /\ step = "bind" /\ binding = <<>> /\ acc' = {}
          /\ UNCHANGED <<doc, decoding, walking, binds, broken>>
          /\ EndOf("SECURITY", {}, acc)
      BY <1>11 DEF Secured
    <2>2. /\ completed' \in Seq(StageNames) /\ stopped_at' \in StageNames \cup {None}
          /\ outcome' \in {"running", "returned", "raised"}
          /\ step' \in Steps \ {"DECODED", "decode", "walk", "bind"}
          /\ step' = "ENDPOINTS" => step = "DECODED"
          /\ step' # "done" => stopped_at' = None /\ outcome' = "running"
          /\ step' \in ToSecurity => "SECURITY" \notin ToSet(completed')
      BY <2>1, StageList, EndOrderly
    <2>3. TypeOK'
      BY <1>1, <2>1, <2>2 DEF TypeOK, decoding, walking, binds
    <2>4. Ordered'
      BY <2>1, <2>2 DEF Ordered, decoding, walking, binds
    <2> QED BY <2>3, <2>4
  <1>12. CASE Finish
    BY <1>1, <1>12 DEF Finish, TypeOK, Ordered, decoding, walking, binds
  <1>13. CASE UNCHANGED vars
    BY <1>1, <1>13 DEF vars, TypeOK, Ordered, decoding, walking, binds
  <1> QED BY <1>2, <1>3, <1>4, <1>5, <1>6, <1>7, <1>8, <1>9, <1>10, <1>11, <1>12, <1>13 DEF Next

THEOREM OrderlyHolds == Spec => []Orderly
  <1> QED BY OrderlyInit, OrderlyNext, PTL DEF Spec

-----------------------------------------------------------------------------
(* References.  One that has its scheme is marked with what is wrong with  *)
(* the scheme, and asks for scopes the scheme has.                         *)
BoundWell(ref) ==
    /\ definition[ref] \notin Definitions => compiled[ref] = {}
    /\ definition[ref] \in Definitions =>
         /\ definition[ref] = Written(ref).name
         /\ broken[definition[ref]] # {} => broken[ref] # {} /\ compiled[ref] = {}
         /\ broken[ref] = {} =>
              /\ compiled[ref] = Written(ref).scopes
              /\ compiled[ref] # {} => compiled[ref] \subseteq doc.scopes[definition[ref]]

Unbound(ref) == definition[ref] = None /\ compiled[ref] = {}

(* From where references are bound, those in force are bound, marked or    *)
(* still to come.                                                          *)
Binding == step = "bind" \/ "SECURITY" \in ToSet(completed)
InForce == ToSet(EveryReference(secured))

ReferencesBound ==
    /\ \A ref \in References : BoundWell(ref)
    /\ step \in ToSecurity \ {"bind"} => \A ref \in References : Unbound(ref)
    /\ Binding =>
         /\ secured = Inherited(Decoded)
         /\ \A ref \in InForce : ref \in ToSet(binding) \/ definition[ref] # None \/ broken[ref] # {}

LEMMA MarkFacts ==
    ASSUME NEW marks, NEW whom, NEW error
    PROVE  /\ DOMAIN Mark(marks, whom, error) = DOMAIN marks
           /\ \A x \in DOMAIN marks : x \notin whom => Mark(marks, whom, error)[x] = marks[x]
           /\ \A x \in DOMAIN marks : x \in whom => Mark(marks, whom, error)[x] = marks[x] \cup error
  BY DEF Mark

(* What a stage that is only its faults finds.                             *)
FaultsOf(s) == {f \in doc.faults : f[1] \in Raising[s] \cup Recovered[s]}
RaisedIn(s, error) == {f \in error : f[1] \in Raising[s]}
WholeStages == {"DECODED", "RESOLVED", "ANNOTATIONS", "UNWRAPPED", "VALIDATED"}

LEMMA WholeFacts ==
    ASSUME NEW s \in WholeStages, Whole(s)
    PROVE  \E error \in SUBSET FaultsOf(s) :
             /\ step = s
             /\ EndOf(s, RaisedIn(s, error), error \ RaisedIn(s, error))
             /\ <<"header", API>> \in doc.faults /\ s = "DECODED" => error = {<<"header", API>>}
             /\ <<"header", API>> \notin doc.faults \/ s # "DECODED" =>
                  /\ <<"header", API>> \notin error
                  /\ s # "RESOLVED" => error = FaultsOf(s)
             /\ broken' = [e \in DOMAIN broken |->
                              broken[e] \cup {f \in error : f[1] = "scheme" /\ f[2] = e}]
             /\ s # "DECODED" => \A f \in error : f[1] # "scheme"
             /\ UNCHANGED <<doc, decoding, acc, walking, binds>>
  <1> DEFINE found == FaultsOf(s)
             raised == {f \in found : f[1] \in Raising[s]}
             header == <<"header", API>>
             error == CASE Fatal(found) -> {header}
                        [] s = "RESOLVED" /\ raised # {} -> raised
                        [] OTHER -> found
  <1>1. /\ step = s /\ EndOf(s, error \cap raised, error \ raised)
        /\ broken' = [e \in DOMAIN broken |->
                        broken[e] \cup {f \in error : f[1] = "scheme" /\ f[2] = e}]
        /\ UNCHANGED <<doc, decoding, acc, walking, binds>>
    BY DEF Whole, FaultsOf
  <1>2. Fatal(found) <=> header \in doc.faults /\ s = "DECODED"
    <2>1. "header" \in Raising[s] \cup Recovered[s] <=> s = "DECODED"
      BY DEF Raising, Recovered, WholeStages
    <2> QED BY <2>1 DEF Fatal, FaultsOf
  <1>3. /\ Fatal(found) => error = {header}
        /\ ~Fatal(found) /\ s = "RESOLVED" => error = raised \/ error = found
        /\ ~Fatal(found) /\ s # "RESOLVED" => error = found
    <2> HIDE DEF raised, found
    <2> QED BY <1>2 DEF Fatal
  <1>4. error \subseteq found
    <2>1. Fatal(found) => {header} \subseteq found
      BY DEF Fatal
    <2> HIDE DEF error, found
    <2> QED BY <1>2, <1>3, <2>1
  <1>5. ~Fatal(found) => header \notin found
    BY DEF Fatal
  <1> HIDE DEF error
  <1>6. error \cap raised = RaisedIn(s, error) /\ error \ raised = error \ RaisedIn(s, error)
    BY <1>4 DEF RaisedIn
  <1>7. s # "DECODED" => \A f \in error : f[1] # "scheme"
    BY <1>4 DEF FaultsOf, Raising, Recovered, WholeStages
  <1>8. EndOf(s, RaisedIn(s, error), error \ RaisedIn(s, error))
    <2> DEFINE x == error \cap raised
               y == error \ raised
    <2>1. EndOf(s, x, y) /\ x = RaisedIn(s, error) /\ y = error \ RaisedIn(s, error)
      BY <1>1, <1>6
    <2> HIDE DEF x, y
    <2> QED BY <2>1
  <1> HIDE DEF raised
  <1> QED BY <1>1, <1>2, <1>3, <1>4, <1>5, <1>7, <1>8

(* Nothing is marked at a scheme once decoding is over, or at a reference  *)
(* before SECURITY.                                                        *)
LEMMA MarksOfOthers ==
    ASSUME Orderly, [Next]_vars, step # "DECODED", ~Bind, NEW x \in Definitions \cup References
    PROVE  broken'[x] = broken[x]
  <1>1. TypeOK /\ Ordered
    BY DEF Orderly
  <1>2. x \in DOMAIN broken /\ x \notin Entities
    BY <1>1, ReferencesApart, KindsAssumption DEF TypeOK, Marked
  <1>3. ASSUME NEW s \in {"DECODED", "RESOLVED", "ANNOTATIONS", "UNWRAPPED", "VALIDATED"}, Whole(s)
        PROVE  broken'[x] = broken[x]
    <2>1. s \in {"RESOLVED", "ANNOTATIONS", "UNWRAPPED", "VALIDATED"}
      BY <1>3 DEF Whole
    <2>2. PICK error : /\ broken' = [e \in DOMAIN broken |->
                                       broken[e] \cup {f \in error : f[1] = "scheme" /\ f[2] = e}]
                       /\ s # "DECODED" => \A f \in error : f[1] # "scheme"
      BY <1>3, WholeFacts DEF WholeStages
    <2>3. \A f \in error : f[1] # "scheme"
      BY <2>1, <2>2
    <2> QED BY <1>2, <2>2, <2>3
  <1>4. ASSUME NEW e \in Entities, Open(e) PROVE broken'[x] = broken[x]
    <2>1. marking' \in Seq(Entities)
      BY <1>1, <1>4, AppendProperties DEF Open, TypeOK
    <2>2. x \notin ToSet(marking') /\ x # e
      BY <1>2, <2>1, EveryElement
    <2> DEFINE attaching(noted) == Mark(broken, {e}, noted)
    <2>3. \A noted : x \in DOMAIN attaching(noted) /\ attaching(noted)[x] = broken[x]
      BY <1>2, <2>2, MarkFacts
    <2>4. PICK noted, unknown : \/ broken' = attaching(noted)
                                \/ broken' = Mark(attaching(noted), ToSet(marking'), unknown)
      BY <1>4 DEF Open
    <2> HIDE DEF attaching
    <2> QED BY <2>2, <2>3, <2>4, MarkFacts
  <1>5. ASSUME NEW e \in Entities, Close(e) PROVE broken'[x] = broken[x]
    <2>1. broken' = Mark(broken, {e}, failing[e])
      BY <1>5 DEF Close
    <2> QED BY <1>2, <2>1, MarkFacts
  <1>6. CASE Return
    <2> DEFINE n == Len(walk)
    <2>1. \/ broken' = broken
          \/ n \in Nat \ {0} /\ n # 1 /\ broken' = Mark(broken, {walk[n].at}, walk[n].failure)
      BY <1>1, <1>6, ReturnWalk
    <2>2. n \in Nat \ {0} /\ n # 1 => walk[n].at \in Resources
      <3>1. n \in Nat \ {0} /\ n # 1 => n \in 2..n
        OBVIOUS
      <3> QED BY <1>1, <3>1 DEF Ordered
    <2>3. n \in Nat \ {0} /\ n # 1 => walk[n].at # x
      BY <1>2, <2>2 DEF Entities
    <2> HIDE DEF n
    <2> QED BY <1>2, <2>1, <2>3, MarkFacts
  <1> QED BY <1>3, <1>4, <1>5, <1>6 DEF Next, vars, Sources, Visit, Registering, Endpoints, Inherit,
             Secured, Finish

LEMMA BindFacts ==
    ASSUME Orderly, ReferencesBound, Bind, NEW ref \in References, ref = Head(binding)
    PROVE  /\ \A x \in DOMAIN broken : x # ref => broken'[x] = broken[x]
           /\ \A x \in References : x # ref => definition'[x] = definition[x] /\ compiled'[x] = compiled[x]
           /\ BoundWell(ref)'
           /\ definition'[ref] # None \/ broken'[ref] # {}
           /\ broken[ref] \subseteq broken'[ref] /\ (definition[ref] # None => definition'[ref] # None)
  <1> DEFINE asked == Written(ref)
             partial == IF asked.name \in Definitions THEN broken[asked.name] ELSE {}
             Fails(problem) == /\ broken' = Mark(broken, {ref}, {<<problem, ref>>})
                               /\ acc' = acc \cup {<<problem, ref>>}
             To(d) == definition' = [definition EXCEPT ![ref] = d]
  <1>1. /\ ref \in DOMAIN broken /\ ref \in DOMAIN definition /\ ref \in DOMAIN compiled
        /\ DOMAIN definition = References /\ DOMAIN compiled = References
        /\ \A d \in Definitions : d \in DOMAIN broken /\ d # ref
    BY ReferencesApart DEF Orderly, TypeOK, Marked
  <1>2. BoundWell(ref) /\ doc' = doc /\ Written(ref)' = Written(ref)
    BY DEF ReferencesBound, Bind, Written
  <1>3. /\ None \notin Definitions /\ Null \notin Definitions /\ Null # None
    BY KindsAssumption
  <1>4. \/ /\ definition[ref] # None
           /\ UNCHANGED <<definition, compiled, broken>>
        \/ /\ definition[ref] = None /\ asked.name = Null /\ To(Null)
           /\ UNCHANGED <<compiled, broken>>
        \/ /\ definition[ref] = None /\ asked.name \notin Definitions \cup {Null}
           /\ Fails("unbound")
           /\ UNCHANGED <<definition, compiled>>
        \/ /\ definition[ref] = None /\ asked.name \in Definitions /\ To(asked.name)
           /\ partial # {}
           /\ broken' = Mark(broken, {ref}, partial)
           /\ UNCHANGED compiled
        \/ /\ definition[ref] = None /\ asked.name \in Definitions /\ To(asked.name)
           /\ partial = {} /\ asked.scopes = {}
           /\ UNCHANGED <<compiled, broken>>
        \/ /\ definition[ref] = None /\ asked.name \in Definitions /\ To(asked.name)
           /\ partial = {} /\ asked.scopes # {} /\ Declares(asked.name, asked.scopes)
           /\ compiled' = [compiled EXCEPT ![ref] = asked.scopes]
           /\ UNCHANGED broken
        \/ /\ definition[ref] = None /\ asked.name \in Definitions /\ To(asked.name)
           /\ partial = {} /\ asked.scopes # {} /\ ~Declares(asked.name, asked.scopes)
           /\ Fails("scope")
           /\ UNCHANGED compiled
    BY DEF Bind
  <1> HIDE DEF asked
  <1>5. asked = Written(ref) /\ asked' = asked
    BY <1>2 DEF asked
  <1>6. CASE definition[ref] # None /\ UNCHANGED <<definition, compiled, broken>>
    BY <1>1, <1>2, <1>6 DEF BoundWell
  <1>7. CASE /\ definition[ref] = None /\ asked.name = Null /\ To(Null)
             /\ UNCHANGED <<compiled, broken>>
    <2>1. definition'[ref] = Null /\ \A x \in References : x # ref => definition'[x] = definition[x]
      BY <1>1, <1>7
    <2>2. compiled'[ref] = {}
      BY <1>2, <1>3, <1>7 DEF BoundWell
    <2> QED BY <1>3, <1>7, <2>1, <2>2 DEF BoundWell
  <1>8. CASE /\ definition[ref] = None /\ Fails("unbound")
             /\ UNCHANGED <<definition, compiled>>
    <2>1. /\ broken'[ref] = broken[ref] \cup {<<"unbound", ref>>}
          /\ \A x \in DOMAIN broken : x # ref => broken'[x] = broken[x]
      BY <1>1, <1>8, MarkFacts
    <2>2. compiled'[ref] = {} /\ definition'[ref] = None
      BY <1>2, <1>3, <1>8 DEF BoundWell
    <2> QED BY <1>3, <1>8, <2>1, <2>2 DEF BoundWell
  <1>9. CASE definition[ref] = None /\ asked.name \in Definitions /\ To(asked.name)
    <2>1. /\ definition'[ref] = asked.name /\ asked.name # None
          /\ \A x \in References : x # ref => definition'[x] = definition[x]
      BY <1>1, <1>3, <1>9
    <2>2. compiled[ref] = {} /\ partial = broken[asked.name] /\ asked.name # ref
      BY <1>1, <1>2, <1>3, <1>9 DEF BoundWell
    <2>3. CASE partial # {} /\ broken' = Mark(broken, {ref}, partial) /\ UNCHANGED compiled
      <3>1. /\ broken'[ref] = broken[ref] \cup partial
            /\ \A x \in DOMAIN broken : x # ref => broken'[x] = broken[x]
        BY <1>1, <2>3, MarkFacts
      <3> HIDE DEF partial
      <3> QED BY <1>1, <1>2, <1>5, <1>9, <2>1, <2>2, <2>3, <3>1 DEF BoundWell
    <2>4. CASE partial = {} /\ asked.scopes = {} /\ UNCHANGED <<compiled, broken>>
      <3> HIDE DEF partial
      <3> QED BY <1>1, <1>2, <1>5, <1>9, <2>1, <2>2, <2>4 DEF BoundWell
    <2>5. CASE /\ partial = {} /\ asked.scopes # {} /\ Declares(asked.name, asked.scopes)
               /\ compiled' = [compiled EXCEPT ![ref] = asked.scopes]
               /\ UNCHANGED broken
      <3>1. /\ compiled'[ref] = asked.scopes
            /\ \A x \in References : x # ref => compiled'[x] = compiled[x]
        BY <1>1, <2>5
      <3> HIDE DEF partial
      <3> QED BY <1>1, <1>2, <1>5, <1>9, <2>1, <2>2, <2>5, <3>1 DEF BoundWell, Declares
    <2>6. CASE partial = {} /\ Fails("scope") /\ UNCHANGED compiled
      <3>1. /\ broken'[ref] = broken[ref] \cup {<<"scope", ref>>}
            /\ \A x \in DOMAIN broken : x # ref => broken'[x] = broken[x]
        BY <1>1, <2>6, MarkFacts
      <3> HIDE DEF partial
      <3> QED BY <1>1, <1>2, <1>5, <1>9, <2>1, <2>2, <2>6, <3>1 DEF BoundWell
    <2> QED BY <1>4, <1>9, <2>3, <2>4, <2>5, <2>6, <1>3
  <1> HIDE DEF Fails, To, partial
  <1> QED BY <1>4, <1>6, <1>7, <1>8, <1>9

LEMMA SecuredStay ==
    ASSUME doc' = doc, endpoints' = endpoints
    PROVE  /\ Inherited(Decoded)' = Inherited(Decoded)
           /\ secured' = secured => InForce' = InForce
  <1>1. Decoded' = Decoded
    BY DEF Decoded
  <1>2. Inherited(Decoded)' = Inherited(Decoded)
    BY <1>1 DEF Inherited
  <1>3. ASSUME secured' = secured PROVE InForce' = InForce
    BY <1>3 DEF InForce, EveryReference, Refs
  <1> QED BY <1>2, <1>3

LEMMA BoundNext == Orderly /\ ReferencesBound /\ [Next]_vars => ReferencesBound'
  <1> SUFFICES ASSUME Orderly, ReferencesBound, [Next]_vars PROVE ReferencesBound'
    OBVIOUS
  <1>1. doc' = doc /\ References' = References /\ Orderly'
    BY DocStays, ReferencesStay, OrderlyNext
  <1>2. TypeOK /\ Ordered
    BY DEF Orderly
  <1>3. \A ref \in References : Written(ref)' = Written(ref)
    BY <1>1 DEF Written
  <1>4. CASE Bind
    <2>1. /\ step = "bind" /\ binding # <<>> /\ binding' = Tail(binding)
          /\ UNCHANGED <<doc, step, decoding, walking, secured, errors, completed, stopped_at, outcome>>
      BY <1>4 DEF Bind
    <2>2. /\ Head(binding) \in References
          /\ ToSet(binding) = {Head(binding)} \cup ToSet(binding')
      BY <1>2, <2>1, TailSet DEF TypeOK
    <2>3. PICK ref \in References : ref = Head(binding)
      BY <2>2
    <2>4. /\ \A x \in DOMAIN broken : x # ref => broken'[x] = broken[x]
          /\ \A x \in References : x # ref => definition'[x] = definition[x] /\ compiled'[x] = compiled[x]
          /\ BoundWell(ref)'
          /\ definition'[ref] # None \/ broken'[ref] # {}
      BY <1>4, <2>3, BindFacts
    <2>5. \A x \in Definitions \cup References : x \in DOMAIN broken
      BY <1>2 DEF TypeOK, Marked
    <2>6. \A d \in Definitions : d # ref
      BY <1>2, ReferencesApart DEF TypeOK, Marked
    <2>7. ASSUME NEW x \in References PROVE BoundWell(x)'
      <3>1. CASE x = ref
        BY <2>4, <3>1
      <3>2. CASE x # ref
        <4>1. BoundWell(x)
          BY DEF ReferencesBound
        <4> QED BY <1>1, <1>3, <2>4, <2>5, <2>6, <3>2, <4>1 DEF BoundWell
      <3> QED BY <3>1, <3>2
    <2>8. secured' = Inherited(Decoded)' /\ InForce' = InForce
      BY <2>1, SecuredStay DEF ReferencesBound, Binding, walking
    <2>9. InForce \subseteq References
      <3>1. ToSet(EveryReference(secured)) \subseteq References
        <4>1. EveryReference(secured) \in Seq(References)
          BY <1>2, EveryReferenceSet DEF TypeOK
        <4> QED BY <4>1, EveryElement
      <3> QED BY <3>1 DEF InForce
    <2>10. ASSUME NEW x \in InForce
           PROVE  x \in ToSet(binding') \/ definition'[x] # None \/ broken'[x] # {}
      <3>1. CASE x = ref
        BY <2>4, <3>1
      <3>2. CASE x # ref
        <4>1. x \in ToSet(binding) \/ definition[x] # None \/ broken[x] # {}
          BY <2>1 DEF ReferencesBound, Binding
        <4> QED BY <2>2, <2>3, <2>4, <2>5, <2>9, <3>2, <4>1
      <3> QED BY <3>1, <3>2
    <2> QED BY <1>1, <2>1, <2>7, <2>8, <2>10 DEF ReferencesBound, ToSecurity
  <1>5. CASE ~Bind /\ step = "DECODED"
    <2>1. \A x \in References : Unbound(x)
      BY <1>5 DEF ReferencesBound, ToSecurity
    <2>2. UNCHANGED <<definition, compiled>>
      BY <1>5 DEF Next, vars, Whole, Sources, Open, Close, Visit, Registering, Return, Endpoints,
             Inherit, Secured, Finish, binds
    <2>3. \A x \in References : Unbound(x)' /\ BoundWell(x)'
      BY <2>1, <2>2, KindsAssumption DEF Unbound, BoundWell
    <2>4. ~Binding'
      <3>1. \/ step' = "done" /\ completed' = completed
            \/ step' \in {"DECODED", "ENDPOINTS"}
        <4>1. ASSUME NEW s \in WholeStages, Whole(s) PROVE (step' = "done" /\ completed' = completed) \/ step' = "ENDPOINTS"
          <5>1. s = "DECODED" /\ \E raised, recovered : EndOf(s, raised, recovered)
            BY <1>5, <4>1 DEF Whole
          <5> QED BY <5>1, EndFacts, FollowingFacts
        <4> QED BY <1>5, <4>1 DEF Next, vars, Sources, Open, Close, Visit, Registering, Return,
                 Endpoints, Inherit, Secured, Finish, WholeStages
      <3>2. "SECURITY" \notin ToSet(completed)
        BY <1>2, <1>5 DEF Ordered, ToSecurity
      <3>3. step' \in {"DECODED", "ENDPOINTS"} => "SECURITY" \notin ToSet(completed')
        BY <1>1 DEF Orderly, Ordered, ToSecurity
      <3> QED BY <3>1, <3>2, <3>3 DEF Binding
    <2> QED BY <1>1, <2>3, <2>4 DEF ReferencesBound
  <1>6. CASE ~Bind /\ step # "DECODED"
    <2>1. UNCHANGED <<definition, compiled>>
      BY <1>6 DEF Next, vars, Whole, Sources, Open, Close, Visit, Registering, Return, Endpoints,
             Inherit, Secured, Finish, binds
    <2>2. \A x \in Definitions \cup References : broken'[x] = broken[x]
      BY <1>6, MarksOfOthers
    <2>3. ASSUME NEW x \in References PROVE BoundWell(x)'
      <3>1. BoundWell(x)
        BY DEF ReferencesBound
      <3> QED BY <1>1, <1>3, <2>1, <2>2, <3>1 DEF BoundWell
    <2>4. CASE Inherit
      <3>1. /\ step = "SECURITY" /\ step' = "bind" /\ endpoints' = endpoints
            /\ secured' = Inherited(Decoded) /\ binding' = EveryReference(secured')
        BY <2>4 DEF Inherit, walking
      <3>2. secured' = Inherited(Decoded)'
        BY <1>1, <3>1, SecuredStay
      <3>3. InForce' = ToSet(binding')
        BY <1>1, <3>1 DEF InForce, EveryReference, Refs
      <3> QED BY <1>1, <2>3, <3>1, <3>2, <3>3 DEF ReferencesBound
    <2>5. CASE step \in ToSecurity \ {"bind"} /\ ~Inherit
      <3>1. \A x \in References : Unbound(x)'
        BY <2>1, <2>5 DEF ReferencesBound, Unbound
      <3>2. "SECURITY" \notin ToSet(completed)
        BY <1>2, <2>5 DEF Ordered
      <3>3. ~Binding'
        <4>1. CASE Endpoints
          <5>1. EndOf("ENDPOINTS", acc, {})
            BY <4>1 DEF Endpoints
          <5>2. \/ step' = "done" /\ completed' = completed
                \/ step' = "SECURITY"
            BY <5>1, EndFacts, FollowingFacts
          <5>3. step' = "SECURITY" => "SECURITY" \notin ToSet(completed')
            BY <1>1 DEF Orderly, Ordered, ToSecurity
          <5> QED BY <3>2, <5>2, <5>3 DEF Binding
        <4>2. CASE ~Endpoints
          <5>1. completed' = completed /\ step' # "bind"
            <6>1. \A s \in WholeStages : ~Whole(s)
              BY <1>6, <2>5 DEF Whole, WholeStages, ToSecurity
            <6>2. \/ step' = step
                  \/ step' \in {"decode", "walk"}
              BY <1>6, <2>5, <4>2, <6>1 DEF Next, vars, Sources, Open, Close, Visit, Registering,
                 Return, Secured, Finish, WholeStages
            <6>3. completed' = completed
              BY <1>6, <2>5, <4>2, <6>1 DEF Next, vars, Sources, Open, Close, Visit, Registering,
                 Return, Secured, Finish, WholeStages
            <6> QED BY <2>5, <6>2, <6>3
          <5> QED BY <3>2, <5>1 DEF Binding
        <4> QED BY <4>1, <4>2
      <3> QED BY <1>1, <2>3, <3>1, <3>3 DEF ReferencesBound
    <2>6. CASE step \notin ToSecurity \ {"bind"}
      <3>1. \/ \E s \in WholeStages \ {"DECODED"} : Whole(s)
            \/ Secured \/ Finish \/ UNCHANGED vars
        BY <1>6, <2>6 DEF Next, Sources, Open, Close, Visit, Registering, Return, Endpoints,
           Inherit, WholeStages, ToSecurity, Whole
      <3>2. UNCHANGED <<secured, binding, endpoints>>
        BY <3>1 DEF Whole, Secured, Finish, vars, binds, walking
      <3>3. /\ step' \notin ToSecurity \ {"bind"}
            /\ Binding' => Binding
        <4>1. ASSUME NEW s \in StageNames, NEW raised, NEW recovered, EndOf(s, raised, recovered),
                     s \notin {"DECODED", "ENDPOINTS"}, s # "SECURITY" \/ step = "bind"
              PROVE  step' \notin ToSecurity /\ (Binding' => Binding)
          <5>1. \/ step' = "done" /\ completed' = completed
                \/ step' = Following(s) /\ completed' = Append(completed, s)
            BY <4>1, EndFacts
          <5>2. completed' = Append(completed, s) => ToSet(completed') = ToSet(completed) \cup {s}
            BY <1>2, AppendSet DEF TypeOK
          <5>3. Following(s) \in {"RESOLVED", "ANNOTATIONS", "UNWRAPPED", "VALIDATED", "done"}
            BY <4>1, FollowingFacts, StageList
          <5>4. step' \notin ToSecurity
            BY <5>1, <5>3 DEF ToSecurity
          <5> QED BY <4>1, <5>1, <5>2, <5>4 DEF Binding, ToSecurity
        <4>2. ASSUME NEW s \in WholeStages \ {"DECODED"}, Whole(s)
              PROVE  step' \notin ToSecurity /\ (Binding' => Binding)
          <5>1. \E raised, recovered : EndOf(s, raised, recovered)
            BY <4>2 DEF Whole
          <5> QED BY <4>1, <5>1, StageList DEF WholeStages
        <4>3. CASE Secured
          <5>1. step = "bind" /\ EndOf("SECURITY", {}, acc)
            BY <4>3 DEF Secured
          <5> QED BY <4>1, <5>1, StageList
        <4>4. CASE Finish \/ UNCHANGED vars
          <5>1. step' = step /\ completed' = completed
            BY <4>4 DEF Finish, vars
          <5> QED BY <2>6, <5>1 DEF Binding
        <4> QED BY <3>1, <4>2, <4>3, <4>4
      <3>4. Inherited(Decoded)' = Inherited(Decoded) /\ InForce' = InForce
        BY <1>1, <3>2, SecuredStay
      <3>5. \A ref \in InForce : ref \in References
        <4>1. EveryReference(secured) \in Seq(References)
          BY <1>2, EveryReferenceSet DEF TypeOK
        <4> QED BY <4>1, EveryElement DEF InForce
      <3>6. ASSUME Binding'
            PROVE  /\ secured' = Inherited(Decoded)'
                   /\ \A ref \in InForce' : ref \in ToSet(binding') \/ definition'[ref] # None \/ broken'[ref] # {}
        BY <2>1, <2>2, <3>2, <3>3, <3>4, <3>5, <3>6 DEF ReferencesBound
      <3> QED BY <1>1, <2>3, <3>3, <3>6 DEF ReferencesBound
    <2> QED BY <2>4, <2>5, <2>6
  <1> QED BY <1>4, <1>5, <1>6

LEMMA BoundInit == Init => ReferencesBound
  <1> SUFFICES ASSUME Init PROVE ReferencesBound
    OBVIOUS
  <1>1. \A ref \in References : Unbound(ref) /\ BoundWell(ref)
    BY KindsAssumption DEF Init, Unbound, BoundWell
  <1>2. ~Binding
    BY DEF Init, Binding, ToSet
  <1> QED BY <1>1, <1>2 DEF ReferencesBound

LEMMA BoundImplied == Orderly /\ ReferencesBound => BoundOrMarked
  <1> SUFFICES ASSUME Orderly, ReferencesBound, Over, "SECURITY" \in ToSet(completed),
                      NEW r \in ToSet(endpoints), NEW l \in {r} \cup ToSet(OperationsOf[r])
               PROVE  LET closest == IF doc.secured[l] # None THEN l
                                     ELSE IF doc.secured[r] # None THEN r ELSE API
                      IN /\ secured[l] = closest
                         /\ \A ref \in ToSet(Refs(closest)) :
                              /\ definition[ref] = None => broken[ref] # {}
                              /\ definition[ref] \in Definitions =>
                                   /\ definition[ref] = Written(ref).name
                                   /\ broken[definition[ref]] # {} => broken[ref] # {} /\ compiled[ref] = {}
                                   /\ broken[ref] = {} =>
                                        /\ compiled[ref] = Written(ref).scopes
                                        /\ compiled[ref] # {} => compiled[ref] \subseteq doc.scopes[definition[ref]]
    BY DEF BoundOrMarked
  <1> DEFINE closest == IF doc.secured[l] # None THEN l
                        ELSE IF doc.secured[r] # None THEN r ELSE API
  <1>1. TypeOK /\ Ordered
    BY DEF Orderly
  <1>2. r \in Resources /\ ToSet(OperationsOf[r]) \subseteq Operations
    BY <1>1, EveryElement, ResourceHolds DEF TypeOK
  <1>3. l \in Levels /\ r \in Levels /\ API \in Levels
    BY <1>2 DEF Levels
  <1>4. secured = Inherited(Decoded) /\ binding = <<>>
    <2>1. step # "bind"
      BY <1>1 DEF Ordered, ToSecurity
    <2> QED BY <1>1, <2>1 DEF ReferencesBound, Binding, Ordered
  <1> DEFINE gives(q) == /\ l \in ToSet(OperationsOf[q])
                         /\ doc.secured[q] # None /\ doc.secured[l] = None
  <1>5. secured[l] = IF \E q \in ToSet(endpoints) : gives(q)
                     THEN Decoded[CHOOSE q \in ToSet(endpoints) : l \in ToSet(OperationsOf[q])]
                     ELSE Decoded[l]
    BY <1>3, <1>4 DEF Inherited
  <1>6. \A q \in Levels : Decoded[q] = IF doc.secured[q] = None THEN API ELSE q
    BY DEF Decoded
  <1>7. ASSUME NEW q \in ToSet(endpoints), l \in ToSet(OperationsOf[q])
        PROVE  q = r /\ l # r
    <2>1. q \in Resources /\ l \in Holds(q) /\ l \in Operations
      BY <1>1, <1>7, EveryElement, ResourceHolds DEF TypeOK
    <2>2. l # r
      BY <1>2, <2>1, KindsAssumption
    <2>3. l \in Holds(r)
      BY <1>2, <2>2, ResourceHolds
    <2> QED BY <1>2, <2>1, <2>2, <2>3, TreeFacts DEF Entities
  <1>8. secured[l] = closest
    <2>1. CASE \E q \in ToSet(endpoints) : gives(q)
      <3>1. l \in ToSet(OperationsOf[r]) /\ doc.secured[r] # None /\ doc.secured[l] = None
        BY <1>7, <2>1
      <3>2. (CHOOSE q \in ToSet(endpoints) : l \in ToSet(OperationsOf[q])) = r
        BY <1>7, <3>1
      <3> QED BY <1>3, <1>5, <1>6, <2>1, <3>1, <3>2
    <2>2. CASE ~ \E q \in ToSet(endpoints) : gives(q)
      <3>1. doc.secured[l] = None => doc.secured[r] = None
        BY <2>2
      <3> QED BY <1>3, <1>5, <1>6, <2>2, <3>1
    <2> QED BY <2>1, <2>2
  <1>9. ToSet(Refs(closest)) \subseteq InForce
    BY <1>1, <1>8, EveryReferenceSet DEF TypeOK, InForce
  <1>10. closest \in Levels
    BY <1>3
  <1> HIDE DEF closest
  <1>11. ASSUME NEW ref \in ToSet(Refs(closest))
         PROVE  /\ definition[ref] = None => broken[ref] # {}
                /\ BoundWell(ref)
    <2>1. ref \in References
      BY <1>1, <1>10, RefsFacts DEF TypeOK
    <2>2. ToSet(binding) = {}
      BY <1>4 DEF ToSet
    <2> QED BY <1>9, <2>1, <2>2 DEF ReferencesBound, Binding
  <1> QED BY <1>8, <1>11 DEF closest, BoundWell

(* After SECURITY each method answers to the closest list that is written, *)
(* and each reference in force is bound or marked, asks for nothing its    *)
(* scheme lacks, and is marked where the scheme is (security.py).          *)
THEOREM SpecBoundOrMarked == Spec => []BoundOrMarked
  <1>1. Init => Orderly /\ ReferencesBound
    BY OrderlyInit, BoundInit
  <1>2. Orderly /\ ReferencesBound /\ [Next]_vars => (Orderly /\ ReferencesBound)'
    BY OrderlyNext, BoundNext
  <1> QED BY <1>1, <1>2, BoundImplied, PTL DEF Spec

-----------------------------------------------------------------------------
(* Decoding.  What is being decoded is a path from a resource of the API;  *)
(* what is closed holds only what is closed; and what is attached stands   *)
(* below a resource that could be read.                                    *)
Closed == attached \ ToSet(marking)

Pathed ==
    /\ \A i \in left : Top[i] \notin attached /\ Readable(Top[i])
    /\ ToSet(marking) \subseteq attached /\ IsInjective(marking)
    /\ \A i \in 1..(Len(marking) - 1) : marking[i + 1] \in Holds(marking[i])
    /\ IsClosed(Closed)
    /\ \A e \in attached : e \in Tops \/ \E d \in attached : e \in Holds(d)
    /\ \A e \in attached : Found(e)

LEMMA DocWords ==
    ASSUME doc' = doc
    PROVE  /\ \A kind, where : Wrong(kind, where)' = Wrong(kind, where)
           /\ \A r : Readable(r)' = Readable(r)
           /\ \A e : Found(e)' = Found(e)
           /\ \A s : FoundBy(s)' = FoundBy(s)
           /\ \A s : Following(s)' = Following(s)
           /\ \A s : FaultsOf(s)' = FaultsOf(s)
  <1>1. \A kind, where : Wrong(kind, where)' = Wrong(kind, where)
    BY DEF Wrong
  <1>2. \A r : Readable(r)' = Readable(r)
    BY DEF Readable, Wrong
  <1>3. \A e : Found(e)' = Found(e)
    BY DEF Found, Readable, Wrong
  <1>4. \A s : FoundBy(s)' = FoundBy(s)
    BY <1>3 DEF FoundBy
  <1>5. \A s : Following(s)' = Following(s)
    BY DEF Following
  <1>6. \A s : FaultsOf(s)' = FaultsOf(s)
    BY DEF FaultsOf
  <1> QED BY <1>1, <1>2, <1>3, <1>4, <1>5, <1>6

LEMMA DetachedBelow ==
    ASSUME Orderly, Pathed, NEW e \in Entities, e \notin attached
    PROVE  Below[e] \cap attached = {}
  <1> DEFINE S == Below[e] \ attached
  <1>1. S \subseteq Entities /\ e \in S
    BY BelowLeast
  <1>2. ASSUME NEW x \in S, NEW c \in Holds(x) PROVE c \in S
    <2>1. x \in Entities /\ c \in Below[e] /\ c \in Entities
      BY BelowLeast, TreeFacts DEF IsClosed
    <2>2. ASSUME c \in attached PROVE FALSE
      <3>1. c \notin Tops
        BY <2>1, TreeFacts
      <3>2. PICK d \in attached : c \in Holds(d)
        BY <2>2, <3>1 DEF Pathed
      <3>3. d = x
        BY <2>1, <3>2, TreeFacts DEF Orderly, TypeOK
      <3> QED BY <1>2, <3>2, <3>3
    <2> QED BY <2>1, <2>2
  <1>3. IsClosed(S)
    BY <1>2 DEF IsClosed
  <1>4. Below[e] \subseteq S
    <2> HIDE DEF S
    <2> QED BY <1>1, <1>3, BelowLeast
  <1> QED BY <1>4

LEMMA ClosedBelow ==
    ASSUME Orderly, Pathed, NEW e \in Closed
    PROVE  Below[e] \subseteq Closed
  <1>1. Closed \subseteq Entities /\ IsClosed(Closed)
    BY DEF Orderly, TypeOK, Pathed, Closed
  <1> QED BY <1>1, BelowLeast

LEMMA FoundBelow ==
    ASSUME NEW e \in Entities, Found(e), NEW c \in Below[e]
    PROVE  Found(c)
  <1>1. PICK r \in Tops : e \in Below[r] /\ Readable(r)
    BY DEF Found, Tops
  <1>2. c \in Below[r]
    BY <1>1, BelowWithin, TreeFacts
  <1> QED BY <1>1, <1>2 DEF Found, Tops

(* What is opened is new, the API's or held by what was opened last.       *)
LEMMA OpenPath ==
    ASSUME Orderly, Pathed, NEW e \in Entities, Open(e)
    PROVE  /\ e \notin attached /\ Found(e)
           /\ marking' \in Seq(Entities) /\ Len(marking') = Len(marking) + 1 /\ Len(marking) \in Nat
           /\ marking'[Len(marking) + 1] = e /\ \A i \in 1..Len(marking) : marking'[i] = marking[i]
           /\ ToSet(marking') = ToSet(marking) \cup {e} /\ attached' = attached \cup {e}
           /\ Closed' = Closed
           /\ \/ marking = <<>> /\ e \in Tops /\ \E i \in left : Top[i] = e
              \/ marking # <<>> /\ e \in Holds(marking[Len(marking)])
           /\ left' = IF marking = <<>> THEN {i \in left : Top[i] # e} ELSE left
  <1>1. TypeOK /\ Ordered
    BY DEF Orderly
  <1>2. /\ attached' = attached \cup {e} /\ marking' = Append(marking, e)
        /\ left' = IF marking = <<>> THEN {i \in left : Top[i] # e} ELSE left
        /\ IsNext(e)
    BY DEF Open
  <1>3. /\ marking' \in Seq(Entities) /\ Len(marking') = Len(marking) + 1
        /\ marking'[Len(marking) + 1] = e /\ \A i \in 1..Len(marking) : marking'[i] = marking[i]
        /\ ToSet(marking') = ToSet(marking) \cup {e} /\ Len(marking) \in Nat
    BY <1>1, <1>2, AppendProperties, AppendSet, LenProperties DEF TypeOK
  <1>4. CASE marking = <<>>
    <2>1. PICK i \in left : e = Top[i]
      BY <1>2, <1>4 DEF IsNext
    <2>2. e \in Tops /\ e \notin attached /\ Readable(e)
      BY <1>1, <2>1 DEF Pathed, TypeOK, Tops, ToSet
    <2>3. Found(e)
      BY <2>2, BelowLeast DEF Found, Tops
    <2> QED BY <1>2, <1>3, <1>4, <2>1, <2>2, <2>3 DEF Closed
  <1>5. CASE marking # <<>>
    <2>1. PICK i \in Unread(Last(marking)) : e = Children[Last(marking)][i]
      BY <1>2, <1>5 DEF IsNext
    <2>2. e \in Holds(Last(marking)) /\ e \notin attached
      BY <2>1 DEF Unread, Holds, ToSet
    <2>3. Last(marking) \in ToSet(marking) /\ Last(marking) = marking[Len(marking)]
      <3>1. marking \in Seq(Entities)
        BY <1>1 DEF TypeOK
      <3> QED BY <1>5, <3>1, LastSet DEF Last
    <2>4. Last(marking) \in Entities /\ Found(Last(marking))
      BY <1>1, <2>3 DEF Pathed, TypeOK
    <2>5. e \in Below[Last(marking)]
      BY <2>2, <2>4, BelowLeast DEF IsClosed
    <2>6. Found(e)
      BY <2>4, <2>5, FoundBelow
    <2> QED BY <1>2, <1>3, <1>5, <2>2, <2>3, <2>6 DEF Closed
  <1> QED BY <1>4, <1>5

(* All that holds what is opened is being decoded.                         *)
LEMMA PathAbove ==
    ASSUME Orderly, Pathed, NEW n \in 1..Len(marking), NEW m \in 1..n
    PROVE  marking[n] \in Below[marking[m]]
  <1> DEFINE Not == {k \in Nat : k \in m..Len(marking) /\ marking[k] \notin Below[marking[m]]}
  <1>1. /\ \A i \in 1..Len(marking) : marking[i] \in Entities
        /\ Len(marking) \in Nat
    BY ElementOfSeq, LenProperties DEF Orderly, TypeOK
  <1>2. ASSUME NEW k \in Not PROVE \E j \in Not : ~(k <= j)
    <2>1. k \in m..Len(marking) /\ k \in Nat /\ marking[k] \notin Below[marking[m]]
      OBVIOUS
    <2>2. k # m
      BY <1>1, <2>1, BelowLeast
    <2>3. /\ k - 1 \in Nat /\ k - 1 \in m..Len(marking) /\ ~(k <= k - 1) /\ (k - 1) + 1 = k
          /\ k - 1 \in 1..(Len(marking) - 1) /\ m \in 1..Len(marking)
      BY <1>1, <2>1, <2>2
    <2>4. marking[k] \in Holds(marking[k - 1])
      BY <2>3 DEF Pathed
    <2>5. marking[k - 1] \notin Below[marking[m]]
      BY <1>1, <2>1, <2>3, <2>4, BelowLeast DEF IsClosed
    <2> QED BY <2>3, <2>5
  <1>3. Not = {}
    <2>1. Not \in SUBSET Nat
      OBVIOUS
    <2> HIDE DEF Not
    <2> QED BY <1>2, <2>1, LeastNumber
  <1>4. n \in Nat /\ n \in m..Len(marking)
    BY <1>1
  <1> QED BY <1>3, <1>4

(* What is closed is the last opened, and holds only what is closed.       *)
LEMMA ClosePath ==
    ASSUME Orderly, Pathed, NEW e \in Entities, Close(e)
    PROVE  LET n == Len(marking)
           IN /\ n \in Nat \ {0} /\ e = marking[n] /\ marking' = Front(marking) /\ marking # <<>>
              /\ marking' \in Seq(Entities) /\ Len(marking') = n - 1
              /\ \A i \in 1..(n - 1) : marking'[i] = marking[i]
              /\ ToSet(marking) = ToSet(marking') \cup {e} /\ e \notin ToSet(marking')
              /\ IsInjective(marking')
              /\ attached' = attached /\ e \in attached /\ e \notin Closed
              /\ Closed' = Closed \cup {e} /\ Holds(e) \subseteq Closed
              /\ n = 1 <=> marking' = <<>>
              /\ n = 1 => e \in Tops
              /\ n # 1 => e \in Holds(marking[n - 1]) /\ Last(marking') = marking[n - 1]
  <1> DEFINE n == Len(marking)
  <1>1. TypeOK /\ Ordered
    BY DEF Orderly
  <1>2. /\ marking # <<>> /\ e = Last(marking) /\ marking' = Front(marking) /\ Unread(e) = {}
        /\ attached' = attached /\ step = "decode"
    BY DEF Close
  <1>3. marking \in Seq(Entities) /\ DOMAIN marking = 1..n
    BY <1>1, LenProperties DEF TypeOK
  <1>4. /\ n \in Nat \ {0} /\ e = marking[n] /\ marking' \in Seq(Entities) /\ Len(marking') = n - 1
        /\ \A i \in 1..(n - 1) : marking'[i] = marking[i]
    BY <1>2, <1>3, LastReplaced
  <1>5. /\ ToSet(marking) = ToSet(marking') \cup {e} /\ e \notin ToSet(marking')
        /\ IsInjective(marking')
    BY <1>2, <1>3, LastSet DEF Pathed
  <1>6. e \in attached /\ e \notin Closed /\ Closed' = Closed \cup {e}
    <2>1. e \in attached
      BY <1>5 DEF Pathed
    <2> QED BY <1>2, <1>5, <2>1 DEF Closed
  <1>7. n = 1 <=> marking' = <<>>
    <2>1. marking' = <<>> <=> Len(marking') = 0
      BY <1>4, EmptySeq
    <2> QED BY <1>4, <2>1
  <1>8. n = 1 => e \in Tops
    BY <1>1, <1>2, <1>4 DEF Ordered
  <1>9. ASSUME n # 1 PROVE e \in Holds(marking[n - 1]) /\ Last(marking') = marking[n - 1]
    <2>1. n - 1 \in 1..(n - 1) /\ n - 1 + 1 = n
      BY <1>4, <1>9
    <2> QED BY <1>4, <2>1 DEF Pathed, Last
  <1> HIDE DEF n
  <1>10. ASSUME NEW c \in Holds(e) PROVE c \in Closed
    <2>1. c \in attached
      BY <1>2, <1>10 DEF Unread, Holds, ToSet
    <2>2. ASSUME c \in ToSet(marking) PROVE FALSE
      <3>1. PICK i \in 1..n : c = marking[i]
        BY <1>3, <2>2 DEF ToSet
      <3>2. c \in Entities /\ c # e /\ e \notin Below[c]
        BY <1>10, NoneBelowItself
      <3>3. i \in 1..n /\ n \in 1..Len(marking)
        BY <1>4, <3>1 DEF n
      <3>4. marking[n] \in Below[marking[i]]
        BY <3>3, PathAbove
      <3> QED BY <1>4, <3>1, <3>2, <3>4
    <2> QED BY <2>1, <2>2 DEF Closed
  <1> QED BY <1>2, <1>4, <1>5, <1>6, <1>7, <1>8, <1>9, <1>10 DEF n

LEMMA PathedInit == Init => Pathed
  <1> SUFFICES ASSUME Init PROVE Pathed
    OBVIOUS
  <1>1. ToSet(marking) = {} /\ DOMAIN marking = {} /\ 1..(Len(marking) - 1) = {}
    BY DEF Init, ToSet
  <1> QED BY <1>1 DEF Init, Pathed, Closed, IsClosed, IsInjective

LEMMA PathedNext == Orderly /\ Pathed /\ [Next]_vars => Pathed'
  <1> SUFFICES ASSUME Orderly, Pathed, [Next]_vars PROVE Pathed'
    OBVIOUS
  <1>1. doc' = doc /\ (\A r : Readable(r)' = Readable(r)) /\ \A e : Found(e)' = Found(e)
    BY DocStays, DocWords
  <1>2. TypeOK /\ Ordered
    BY DEF Orderly
  <1>3. CASE Sources
    <2>1. /\ left' = {i \in DOMAIN Top : Readable(Top[i])} /\ UNCHANGED <<attached, marking>>
          /\ attached = {}
      BY <1>2, <1>3 DEF Sources, Ordered
    <2> QED BY <1>1, <2>1 DEF Pathed, Closed, IsClosed
  <1>4. ASSUME NEW e \in Entities, Open(e) PROVE Pathed'
    <2> DEFINE n == Len(marking)
    <2>1. /\ e \notin attached /\ Found(e)
          /\ marking' \in Seq(Entities) /\ Len(marking') = n + 1 /\ n \in Nat
          /\ marking'[n + 1] = e /\ \A i \in 1..n : marking'[i] = marking[i]
          /\ ToSet(marking') = ToSet(marking) \cup {e} /\ attached' = attached \cup {e}
          /\ Closed' = Closed
          /\ \/ marking = <<>> /\ e \in Tops /\ \E i \in left : Top[i] = e
             \/ marking # <<>> /\ e \in Holds(marking[n])
          /\ left' = IF marking = <<>> THEN {i \in left : Top[i] # e} ELSE left
      BY <1>4, OpenPath
    <2>2. \A i \in left' : Top[i] \notin attached'
      <3>1. CASE marking = <<>>
        BY <2>1, <3>1 DEF Pathed
      <3>2. CASE marking # <<>>
        <4>1. marking[n] \in Entities
          <5>1. marking \in Seq(Entities) /\ n \in 1..n
            BY <1>2, <2>1, <3>2, EmptySeq DEF TypeOK
          <5> QED BY <5>1, ElementOfSeq
        <4>2. e \notin Tops
          BY <2>1, <3>2, <4>1, TreeFacts
        <4>3. \A i \in left : Top[i] \in Tops
          BY <1>2 DEF TypeOK, Tops, ToSet
        <4> QED BY <2>1, <3>2, <4>2, <4>3 DEF Pathed
      <3> QED BY <3>1, <3>2
    <2>3. \A i \in left' : Readable(Top[i])
      BY <2>1 DEF Pathed
    <2>4. IsInjective(marking')
      <3>1. marking \in Seq(Entities) /\ IsInjective(marking) /\ e \notin ToSet(marking)
        BY <1>2, <2>1 DEF Pathed, TypeOK
      <3>2. IsInjective(Append(marking, e))
        BY <3>1, AppendNew
      <3> QED BY <1>4, <3>2 DEF Open
    <2>5. ASSUME NEW i \in 1..(Len(marking') - 1) PROVE marking'[i + 1] \in Holds(marking'[i])
      <3>1. i \in 1..n /\ n # 0 /\ (i = n \/ (i + 1 \in 1..n /\ i \in 1..(n - 1)))
        BY <2>1
      <3>2. marking # <<>>
        BY <3>1
      <3> HIDE DEF n
      <3> QED BY <2>1, <3>1, <3>2 DEF Pathed, n
    <2>6. \A x \in attached' : x \in Tops \/ \E d \in attached' : x \in Holds(d)
      <3>1. marking # <<>> => marking[n] \in attached
        <4>1. marking # <<>> => n \in DOMAIN marking
          BY <1>2, <2>1, EmptySeq, LenProperties DEF TypeOK
        <4> QED BY <4>1 DEF Pathed, ToSet
      <3> HIDE DEF n
      <3> QED BY <2>1, <3>1 DEF Pathed
    <2> HIDE DEF n
    <2>7. IsClosed(Closed')
      BY <2>1 DEF Pathed
    <2> QED BY <1>1, <2>1, <2>2, <2>3, <2>4, <2>5, <2>6, <2>7 DEF Pathed
  <1>5. ASSUME NEW e \in Entities, Close(e) PROVE Pathed'
    <2> DEFINE n == Len(marking)
    <2>1. /\ n \in Nat \ {0} /\ Len(marking') = n - 1
          /\ \A i \in 1..(n - 1) : marking'[i] = marking[i]
          /\ ToSet(marking) = ToSet(marking') \cup {e}
          /\ IsInjective(marking') /\ attached' = attached
          /\ Closed' = Closed \cup {e} /\ Holds(e) \subseteq Closed
          /\ left' = left
      BY <1>5, ClosePath DEF Close
    <2>2. IsClosed(Closed')
      BY <2>1 DEF Pathed, IsClosed
    <2>3. \A i \in 1..(Len(marking') - 1) : marking'[i + 1] \in Holds(marking'[i])
      <3>1. \A i \in 1..((n - 1) - 1) : i \in 1..(n - 1) /\ i + 1 \in 1..(n - 1)
        BY <2>1
      <3> HIDE DEF n
      <3> QED BY <2>1, <3>1 DEF Pathed, n
    <2> HIDE DEF n
    <2> QED BY <1>1, <2>1, <2>2, <2>3 DEF Pathed
  <1>6. CASE UNCHANGED <<left, attached, marking>>
    BY <1>1, <1>6 DEF Pathed, Closed
  <1> QED BY <1>3, <1>4, <1>5, <1>6 DEF Next, vars, Whole, Visit, Registering, Return, Endpoints,
             Inherit, Bind, Secured, Finish, decoding

-----------------------------------------------------------------------------
(* What is reported.  The stage the parse is in follows the one before it. *)
Now ==
    IF step = "done" THEN (IF stopped_at = None THEN "done" ELSE stopped_at)
    ELSE IF step \in {"decode", "walk"} THEN "ENDPOINTS"
    ELSE IF step = "bind" THEN "SECURITY" ELSE step

Onward == [s \in StageNames |-> Following(s)]

Chained ==
    /\ \A i \in 1..(Len(completed) - 1) : completed[i + 1] = Onward[completed[i]]
    /\ completed # <<>> => completed[1] = "DECODED"
    /\ Now = IF completed = <<>> THEN "DECODED" ELSE Onward[completed[Len(completed)]]

Header == <<"header", API>>

Concluded ==
    /\ Header \in doc.faults /\ step # "DECODED" =>
         step = "done" /\ completed = <<>> /\ stopped_at = "DECODED"
    /\ stopped_at # None =>
         /\ errors # {} /\ step = "done"
         /\ outcome = IF doc.strict \/ Header \in doc.faults THEN "raised" ELSE "returned"
    /\ stopped_at = None => outcome # "raised" /\ (doc.strict => errors = {})

(* A problem that was found is told, or kept by a stage or by an entity    *)
(* that is still open.                                                     *)
Pending == UNION {failing[q] : q \in ToSet(marking)}
Kept == errors \cup acc \cup Pending

Collected ==
    \A s \in StageNames \ {"RESOLVED"} :
      s \in ToSet(completed) \/ (s = stopped_at /\ Header \notin doc.faults) =>
        FoundBy(s) \subseteq errors

Gathered ==
    step \in {"decode", "walk"} =>
      /\ Wrong("source", Entities) \subseteq Kept
      /\ \A e \in Entities : Found(e) => Wrong("template", {e}) \subseteq Kept
      /\ \A i \in DOMAIN Top : Readable(Top[i]) => i \in left \/ Top[i] \in attached
      /\ \A e \in attached : Wrong("facet", {e}) \cup Wrong("unknown", {e}) \subseteq Kept

Justified ==
    /\ \A f \in Kept : f[1] \in EntityKinds => f \in FoundBy("ENDPOINTS")
    /\ \A f \in acc \cup Pending : f # Header
    /\ \A x \in DOMAIN broken : broken[x] \subseteq Kept
    /\ \A k \in DOMAIN walk : walk[k].failure \subseteq Kept

-----------------------------------------------------------------------------
LEMMA WrongFacts ==
    ASSUME doc \in Corpus, NEW kind, NEW where
    PROVE  \A f : f \in Wrong(kind, where) <=> f \in doc.faults /\ f[1] = kind /\ f[2] \in where
  <1>1. ASSUME NEW f \in Wrong(kind, where)
        PROVE  f \in doc.faults /\ f[1] = kind /\ f[2] \in where
    BY DEF Wrong
  <1>2. ASSUME NEW f \in doc.faults, f[1] = kind, f[2] \in where PROVE f \in Wrong(kind, where)
    <2>1. f = <<kind, f[2]>>
      BY <1>2, FaultsTyped
    <2> QED BY <1>2, <2>1 DEF Wrong
  <1> QED BY <1>1, <1>2

LEMMA WrongFound ==
    ASSUME doc \in Corpus, NEW e \in Entities, Found(e), NEW kind \in {"template", "facet", "unknown"},
           NEW f \in Wrong(kind, {e})
    PROVE  f \in FoundBy("ENDPOINTS") /\ f # Header
  <1>1. f \in doc.faults /\ f[1] = kind /\ f[2] = e
    BY WrongFacts
  <1> QED BY <1>1 DEF FoundBy, EntityKinds, Header

LEMMA KeptIs ==
    \A f : f \in Kept <=> f \in errors \/ f \in acc \/ \E q \in ToSet(marking) : f \in failing[q]
  BY DEF Kept, Pending

LEMMA KeptIsNext ==
    \A f : f \in Kept' <=> f \in errors' \/ f \in acc' \/ \E q \in ToSet(marking') : f \in failing'[q]
  BY DEF Kept, Pending

(* What each step does to what is kept.                                    *)
KeepsAll ==
    /\ Kept \subseteq Kept'
    /\ \A f \in Kept' : f[1] \in EntityKinds => f \in FoundBy("ENDPOINTS")
    /\ \A f \in acc' \cup Pending' : f # Header
    /\ \A x \in DOMAIN broken : broken'[x] \subseteq Kept'
    /\ \A k \in DOMAIN walk' : walk'[k].failure \subseteq Kept'

LEMMA WholeKeeps ==
    ASSUME Orderly, Pathed, Justified, NEW s \in WholeStages, Whole(s)
    PROVE  KeepsAll
  <1>1. PICK error \in SUBSET FaultsOf(s) :
           /\ EndOf(s, RaisedIn(s, error), error \ RaisedIn(s, error))
           /\ broken' = [e \in DOMAIN broken |->
                            broken[e] \cup {f \in error : f[1] = "scheme" /\ f[2] = e}]
           /\ UNCHANGED <<doc, decoding, acc, walking, binds>>
    BY WholeFacts
  <1>2. errors' = errors \cup RaisedIn(s, error) \cup (error \ RaisedIn(s, error))
    BY <1>1, EndFacts
  <1>3. errors' = errors \cup error
    BY <1>2 DEF RaisedIn
  <1>4. acc' = acc /\ Pending' = Pending /\ walk' = walk
    BY <1>1 DEF Pending, decoding, walking
  <1>5. Kept' = Kept \cup error
    BY <1>3, <1>4 DEF Kept
  <1>6. \A f \in error : f[1] \notin EntityKinds
    <2>1. \A f \in error : f[1] \in Raising[s] \cup Recovered[s]
      BY DEF FaultsOf
    <2>2. (Raising[s] \cup Recovered[s]) \cap EntityKinds = {}
      BY DEF WholeStages, Raising, Recovered, EntityKinds
    <2> QED BY <2>1, <2>2
  <1>7. \A x \in DOMAIN broken : broken'[x] \subseteq broken[x] \cup error
    BY <1>1
  <1> QED BY <1>4, <1>5, <1>6, <1>7 DEF KeepsAll, Justified

LEMMA SourcesKeeps ==
    ASSUME Orderly, Pathed, Justified, Sources
    PROVE  /\ KeepsAll
           /\ Wrong("source", Entities) \subseteq Kept'
           /\ \A e \in Entities : Found(e) => Wrong("template", {e}) \subseteq Kept'
           /\ \A i \in DOMAIN Top : Readable(Top[i]) => i \in left'
  <1> DEFINE sources == Wrong("source", Entities)
             below == UNION {Below[Top[i]] : i \in left'}
             templates == Wrong("template", below)
  <1>1. TypeOK /\ Ordered
    BY DEF Orderly
  <1>2. /\ step = "ENDPOINTS" /\ acc = {} /\ marking' = marking /\ failing' = failing
        /\ left' = {i \in DOMAIN Top : Readable(Top[i])}
        /\ acc' = sources \cup templates
        /\ UNCHANGED <<walk, broken, errors>>
    BY <1>1 DEF Sources, walking, Ordered
  <1>3. Kept' = Kept \cup sources \cup templates
    BY <1>2 DEF Kept, Pending
  <1>4. \A f \in sources : f \in FoundBy("ENDPOINTS") /\ f # Header
    BY <1>1, WrongFacts DEF FoundBy, Header, TypeOK
  <1>5. \A f \in templates : f \in doc.faults /\ f[1] = "template" /\ f[2] \in below
    BY <1>1, WrongFacts DEF TypeOK
  <1>6. \A x \in below : Found(x)
    <2>1. \A i \in DOMAIN Top : Top[i] \in ToSet(Top)
      BY DEF ToSet
    <2> QED BY <1>2, <2>1 DEF Found
  <1>7. \A f \in templates : f \in FoundBy("ENDPOINTS") /\ f # Header
    BY <1>5, <1>6 DEF FoundBy, EntityKinds, Header
  <1>8. Pending' = Pending
    BY <1>2 DEF Pending
  <1>9. ASSUME NEW e \in Entities, Found(e) PROVE Wrong("template", {e}) \subseteq templates
    <2>1. PICK r \in ToSet(Top) : e \in Below[r] /\ Readable(r)
      BY <1>9 DEF Found
    <2>2. PICK i \in DOMAIN Top : r = Top[i]
      BY DEF ToSet
    <2>3. e \in below
      BY <1>2, <2>1, <2>2
    <2> HIDE DEF below
    <2>4. ASSUME NEW f \in Wrong("template", {e}) PROVE f \in templates
      <3>1. f \in doc.faults /\ f[1] = "template" /\ f[2] = e
        BY <1>1, WrongFacts DEF TypeOK
      <3>2. f \in Wrong("template", below)
        BY <1>1, <2>3, <3>1, WrongFacts DEF TypeOK
      <3> QED BY <3>2
    <2> QED BY <2>4
  <1> HIDE DEF sources, templates
  <1>10. KeepsAll
    BY <1>2, <1>3, <1>4, <1>7, <1>8 DEF KeepsAll, Justified
  <1> QED BY <1>2, <1>3, <1>9, <1>10 DEF sources

LEMMA OpenKeeps ==
    ASSUME Orderly, Pathed, Justified, Gathered, NEW e \in Entities, Open(e)
    PROVE  /\ KeepsAll
           /\ Wrong("facet", {e}) \cup Wrong("unknown", {e}) \subseteq Kept'
  <1> DEFINE facet == Wrong("facet", {e})
             unknown == Wrong("unknown", {e})
             noted == IF e \in Responses THEN {} ELSE Wrong("template", Below[e])
             attaching == Mark(broken, {e}, noted)
  <1>1. TypeOK /\ Ordered /\ step = "decode"
    BY DEF Orderly, Open
  <1>2. /\ e \notin ToSet(marking) /\ Found(e) /\ ToSet(marking') = ToSet(marking) \cup {e}
    BY OpenPath DEF Pathed
  <1>3. /\ acc' = acc /\ walk' = walk
        /\ \/ /\ failing' = [failing EXCEPT ![e] = facet \cup unknown]
              /\ broken' = attaching /\ errors' = errors
           \/ /\ failing' = [failing EXCEPT ![e] = facet]
              /\ broken' = Mark(attaching, ToSet(marking'), unknown)
              /\ errors' = errors \cup unknown
    BY DEF Open, walking
  <1>4. \A q \in ToSet(marking) : failing'[q] = failing[q]
    <2>1. ToSet(marking) \subseteq DOMAIN failing
      BY <1>1, EveryElement DEF TypeOK
    <2> HIDE DEF facet, unknown
    <2> QED BY <1>2, <1>3, <2>1
  <1>5. \A f : f \in Kept' <=> f \in Kept \/ f \in facet \/ f \in unknown
    <2>1. e \in DOMAIN failing
      BY <1>1 DEF TypeOK
    <2> HIDE DEF facet, unknown
    <2>2. CASE failing' = [failing EXCEPT ![e] = facet \cup unknown] /\ errors' = errors
      <3>1. failing'[e] = facet \cup unknown
        BY <2>1, <2>2
      <3> QED BY <1>2, <1>3, <1>4, <2>2, <3>1, KeptIs, KeptIsNext
    <2>3. CASE failing' = [failing EXCEPT ![e] = facet] /\ errors' = errors \cup unknown
      <3>1. failing'[e] = facet
        BY <2>1, <2>3
      <3> QED BY <1>2, <1>3, <1>4, <2>3, <3>1, KeptIs, KeptIsNext
    <2> QED BY <1>3, <2>2, <2>3
  <1>6. \A f \in facet \cup unknown : f \in FoundBy("ENDPOINTS") /\ f # Header
    BY <1>1, <1>2, WrongFound DEF TypeOK
  <1>7. noted \subseteq Kept
    <2>1. ASSUME NEW f \in Wrong("template", Below[e]) PROVE f \in Kept
      <3>1. f \in doc.faults /\ f[1] = "template" /\ f[2] \in Below[e]
        BY <1>1, WrongFacts DEF TypeOK
      <3>2. Found(f[2]) /\ f[2] \in Entities
        BY <1>2, <3>1, FoundBelow, BelowLeast
      <3>3. f \in Wrong("template", {f[2]})
        BY <1>1, <3>1, WrongFacts DEF TypeOK
      <3> QED BY <1>1, <3>2, <3>3 DEF Gathered
    <2> QED BY <2>1
  <1> HIDE DEF facet, unknown, noted
  <1>8. ASSUME NEW x \in DOMAIN broken PROVE broken'[x] \subseteq Kept'
    <2>1. x \in DOMAIN attaching /\ attaching[x] \subseteq broken[x] \cup noted
      BY MarkFacts
    <2> HIDE DEF attaching
    <2>2. broken'[x] \subseteq attaching[x] \cup unknown
      BY <1>3, <2>1, MarkFacts
    <2> QED BY <1>5, <1>7, <2>1, <2>2 DEF Justified
  <1>9. \A f \in acc' \cup Pending' : f # Header
    <2>1. ASSUME NEW f \in Pending' PROVE f \in Pending \cup facet \cup unknown
      <3>1. PICK q \in ToSet(marking') : f \in failing'[q]
        BY DEF Pending
      <3>2. CASE q = e
        <4>1. failing'[e] \subseteq facet \cup unknown
          BY <1>1, <1>3 DEF TypeOK
        <4> QED BY <3>1, <3>2, <4>1
      <3>3. CASE q # e
        BY <1>2, <1>4, <3>1, <3>3 DEF Pending
      <3> QED BY <3>2, <3>3
    <2> QED BY <1>3, <1>6, <2>1 DEF Justified
  <1> HIDE DEF attaching
  <1>10. \A f \in Kept' : f[1] \in EntityKinds => f \in FoundBy("ENDPOINTS")
    BY <1>5, <1>6 DEF Justified
  <1>11. Kept \subseteq Kept' /\ facet \cup unknown \subseteq Kept'
    BY <1>5
  <1>12. \A k \in DOMAIN walk' : walk'[k].failure \subseteq Kept'
    BY <1>3, <1>11 DEF Justified
  <1> QED BY <1>8, <1>9, <1>10, <1>11, <1>12 DEF KeepsAll, facet, unknown

LEMMA CloseKeeps ==
    ASSUME Orderly, Pathed, Justified, NEW e \in Entities, Close(e)
    PROVE  KeepsAll
  <1> DEFINE n == Len(marking)
             above == marking[n - 1]
             error == failing[e]
  <1>1. TypeOK /\ Ordered /\ step = "decode" /\ doc' = doc
    BY DEF Orderly, Close
  <1>2. /\ n \in Nat \ {0} /\ e = marking[n] /\ e \in ToSet(marking)
        /\ ToSet(marking) = ToSet(marking') \cup {e} /\ e \notin ToSet(marking')
        /\ n = 1 <=> marking' = <<>>
        /\ n # 1 => Last(marking') = above /\ above \in ToSet(marking')
    <2>1. /\ n \in Nat \ {0} /\ e = marking[n] /\ marking' \in Seq(Entities)
          /\ ToSet(marking) = ToSet(marking') \cup {e} /\ e \notin ToSet(marking')
          /\ n = 1 <=> marking' = <<>>
          /\ n # 1 => Last(marking') = above
      BY ClosePath
    <2>2. marking' # <<>> => Last(marking') \in ToSet(marking')
      BY <2>1, LastSet
    <2> QED BY <2>1, <2>2
  <1>3. /\ broken' = Mark(broken, {e}, error) /\ errors' = errors
        /\ IF marking' # <<>>
           THEN /\ failing' = [failing EXCEPT ![Last(marking')] = @ \cup error]
                /\ acc' = acc /\ walk' = walk
           ELSE /\ acc' = acc \cup error /\ failing' = failing
                /\ walk' = <<[at |-> API, held |-> FALSE, register |-> TRUE,
                              failure |-> {}, rest |-> <<e>>]>>
    BY DEF Close
  <1>4. ToSet(marking) \subseteq DOMAIN failing /\ walk = <<>>
    BY <1>1, EveryElement DEF TypeOK, Ordered
  <1> HIDE DEF n
  <1>5. \A f : f \in Kept' <=> f \in Kept
    <2>1. CASE n = 1
      <3>1. ToSet(marking') = {}
        BY <1>2, <2>1 DEF ToSet
      <3>2. \A f : f \in Kept <=> f \in errors \/ f \in acc \/ f \in error
        BY <1>2, <3>1, KeptIs
      <3> QED BY <1>2, <1>3, <2>1, <3>1, <3>2, KeptIsNext
    <2>2. CASE n # 1
      <3>1. failing' = [failing EXCEPT ![above] = @ \cup error] /\ acc' = acc
        BY <1>2, <1>3, <2>2
      <3> HIDE DEF above, error
      <3>2. /\ above \in DOMAIN failing /\ failing'[above] = failing[above] \cup error
            /\ \A q \in ToSet(marking') : q # above => failing'[q] = failing[q]
        BY <1>2, <1>4, <2>2, <3>1
      <3> QED BY <1>2, <1>3, <2>2, <3>1, <3>2, KeptIs, KeptIsNext DEF error
    <2> QED BY <2>1, <2>2
  <1>6. \A f \in acc' \cup Pending' : f \in acc \cup Pending
    <2>1. \A f \in error : f \in Pending
      BY <1>2 DEF Pending
    <2>2. CASE n = 1
      <3>1. Pending' = {}
        BY <1>2, <2>2 DEF Pending, ToSet
      <3> QED BY <1>2, <1>3, <2>1, <2>2, <3>1
    <2>3. CASE n # 1
      <3>1. failing' = [failing EXCEPT ![above] = @ \cup error] /\ acc' = acc
        BY <1>2, <1>3, <2>3
      <3>2. ASSUME NEW q \in ToSet(marking') PROVE failing'[q] \subseteq failing[q] \cup error
        <4> HIDE DEF above, error
        <4> QED BY <1>2, <1>4, <3>1
      <3> HIDE DEF error
      <3>3. \A f \in Pending' : f \in Pending
        BY <1>2, <2>1, <3>2 DEF Pending
      <3> QED BY <3>1, <3>3
    <2> QED BY <2>2, <2>3
  <1>7. error \subseteq Kept
    BY <1>2, KeptIs
  <1> HIDE DEF error
  <1>8. \A x \in DOMAIN broken : broken'[x] \subseteq Kept'
    <2>1. \A x \in DOMAIN broken : broken'[x] \subseteq broken[x] \cup error
      BY <1>3, MarkFacts
    <2> QED BY <1>5, <1>7, <2>1 DEF Justified
  <1>9. \A k \in DOMAIN walk' : walk'[k].failure \subseteq Kept'
    <2>1. CASE marking' # <<>>
      BY <1>3, <1>4, <2>1
    <2>2. CASE marking' = <<>>
      <3>1. walk' = <<[at |-> API, held |-> FALSE, register |-> TRUE,
                       failure |-> {}, rest |-> <<e>>]>>
        BY <1>3, <2>2
      <3>2. \A k \in DOMAIN walk' : walk'[k].failure = {}
        BY <3>1
      <3> QED BY <3>2
    <2> QED BY <2>1, <2>2
  <1> QED BY <1>5, <1>6, <1>8, <1>9 DEF KeepsAll, Justified

LEMMA VisitKeeps ==
    ASSUME Orderly, Pathed, Justified, NEW r \in Resources, Visit(r)
    PROVE  KeepsAll
  <1> DEFINE n == Len(walk)
             above == walk[n]
  <1>1. TypeOK /\ Ordered
    BY DEF Orderly
  <1>2. PICK duplicate \in {{}, {<<"duplicate", r>>}} :
          /\ n \in Nat \ {0} /\ above \in Frames
          /\ walk' \in Seq(Frames) /\ Len(walk') = n + 1
          /\ \A k \in 1..n : k # n => walk'[k] = walk[k]
          /\ walk'[n] = [above EXCEPT !.rest = Tail(@)]
          /\ walk'[n + 1].failure = duplicate
          /\ acc \cup duplicate \subseteq acc'
          /\ acc' \subseteq acc \cup duplicate \cup Troubles(r)
          /\ UNCHANGED <<decoding, broken, errors>>
    <2> DEFINE Is(duplicate) ==
             LET first == duplicate = {} /\ above.register
             IN /\ n \in Nat \ {0} /\ above \in Frames
                /\ walk' \in Seq(Frames) /\ Len(walk') = n + 1
                /\ \A k \in 1..n : k # n => walk'[k] = walk[k]
                /\ walk'[n] = [above EXCEPT !.rest = Tail(@)]
                /\ walk'[n + 1] =
                     [at |-> r, held |-> above.held \/ first,
                      register |-> IF duplicate = {} THEN above.register
                                   ELSE above.register /\ above.held,
                      failure |-> duplicate, rest |-> Nested[r]]
                /\ acc \cup duplicate \subseteq acc'
                /\ acc' \subseteq acc \cup duplicate \cup Troubles(r)
                /\ UNCHANGED <<decoding, broken, errors>>
    <2>1. PICK duplicate \in {{}, {<<"duplicate", r>>}} : Is(duplicate)
      BY <1>1, VisitWalk
    <2>2. walk'[n + 1].failure = duplicate
      BY <2>1
    <2> HIDE DEF n, above
    <2> QED BY <2>1, <2>2
  <1>3. Pending' = Pending
    BY <1>2 DEF Pending, decoding
  <1>4. /\ Kept \cup duplicate \subseteq Kept'
        /\ \A f \in Kept' : f \in Kept \/ f \in duplicate \/ f \in Troubles(r)
    BY <1>2, <1>3 DEF Kept
  <1>5. \A f \in acc' \cup Pending' : f \in acc \cup Pending \/ f \in duplicate \/ f \in Troubles(r)
    BY <1>2, <1>3
  <1>6. /\ \A f \in duplicate : f[1] \notin EntityKinds /\ f # Header
        /\ \A f \in Troubles(r) : f[1] \notin EntityKinds /\ f # Header
    BY DEF EntityKinds, Header, Troubles
  <1>7. ASSUME NEW k \in DOMAIN walk' PROVE walk'[k].failure \subseteq Kept'
    <2>1. k \in 1..(n + 1) /\ DOMAIN walk = 1..n
      BY <1>1, <1>2, LenProperties DEF TypeOK
    <2>2. walk'[n].failure = above.failure
      BY <1>2 DEF Frames
    <2>3. k = n + 1 \/ (k \in 1..n /\ walk'[k].failure = walk[k].failure)
      <3> HIDE DEF n
      <3>1. k = n + 1 \/ k = n \/ (k \in 1..n /\ k # n)
        BY <1>2, <2>1
      <3>2. n \in 1..n /\ walk'[n].failure = walk[n].failure
        BY <1>2, <2>2
      <3> QED BY <1>2, <3>1, <3>2
    <2> HIDE DEF n
    <2> QED BY <1>2, <1>4, <2>1, <2>3 DEF Justified
  <1> QED BY <1>2, <1>4, <1>5, <1>6, <1>7 DEF KeepsAll, Justified

LEMMA ReturnKeeps ==
    ASSUME Orderly, Pathed, Justified, Return
    PROVE  KeepsAll
  <1> DEFINE n == Len(walk)
             frame == walk[n]
  <1>1. TypeOK /\ Ordered
    BY DEF Orderly
  <1>2. /\ n \in Nat \ {0} /\ frame \in Frames
        /\ n = 1 => walk' = <<>> /\ broken' = broken
        /\ n # 1 =>
             /\ walk' \in Seq(Frames) /\ Len(walk') = n - 1
             /\ \A k \in 1..(n - 1) : k # n - 1 => walk'[k] = walk[k]
             /\ walk[n - 1] \in Frames
             /\ walk'[n - 1] = [walk[n - 1] EXCEPT !.failure = IF @ = {} THEN frame.failure ELSE @]
             /\ broken' = IF frame.held THEN Mark(broken, {frame.at}, frame.failure) ELSE broken
        /\ UNCHANGED <<decoding, acc, errors>>
    BY <1>1, ReturnWalk
  <1>3. Pending' = Pending
    BY <1>2 DEF Pending, decoding
  <1>4. Kept' = Kept
    BY <1>2, <1>3 DEF Kept
  <1>5. DOMAIN walk = 1..n
    BY <1>1, LenProperties DEF TypeOK
  <1>6. frame.failure \subseteq Kept
    <2>1. n \in 1..n
      BY <1>2
    <2>2. n \in DOMAIN walk
      <3> HIDE DEF n
      <3> QED BY <1>5, <2>1
    <2> QED BY <2>2 DEF Justified
  <1>7. \A x \in DOMAIN broken : broken'[x] \subseteq broken[x] \cup frame.failure
    <2> DEFINE at == {frame.at}
               failure == frame.failure
    <2>1. broken' = broken \/ broken' = Mark(broken, at, failure)
      BY <1>2
    <2> HIDE DEF at, failure
    <2>2. \A x \in DOMAIN broken : broken'[x] \subseteq broken[x] \cup failure
      BY <2>1, MarkFacts
    <2> QED BY <2>2 DEF failure
  <1>8. ASSUME NEW k \in DOMAIN walk' PROVE walk'[k].failure \subseteq Kept
    <2>1. n # 1 /\ k \in 1..(n - 1)
      <3>1. n # 1
        BY <1>2
      <3>2. DOMAIN walk' = 1..(n - 1)
        <4>1. walk' \in Seq(Frames) /\ Len(walk') = n - 1
          BY <1>2, <3>1
        <4> HIDE DEF n
        <4> QED BY <4>1, LenProperties
      <3> QED BY <3>1, <3>2
    <2>2. walk'[n - 1].failure = IF walk[n - 1].failure = {} THEN frame.failure
                                 ELSE walk[n - 1].failure
      BY <1>2, <2>1 DEF Frames
    <2>3. k \in 1..n /\ n - 1 \in 1..n
      BY <1>2, <2>1
    <2> HIDE DEF n, frame
    <2>4. walk[k].failure \subseteq Kept /\ walk[n - 1].failure \subseteq Kept
      BY <1>5, <2>3 DEF Justified
    <2> QED BY <1>2, <1>6, <2>1, <2>2, <2>4
  <1> HIDE DEF frame
  <1>9. \A x \in DOMAIN broken : broken'[x] \subseteq Kept
    BY <1>6, <1>7 DEF Justified
  <1> QED BY <1>2, <1>3, <1>4, <1>8, <1>9 DEF KeepsAll, Justified

LEMMA EndKeeps ==
    ASSUME Orderly, Pathed, Justified, Endpoints \/ Secured
    PROVE  KeepsAll /\ errors' = Kept /\ Kept = errors \cup acc
  <1>1. /\ marking = <<>> /\ marking' = <<>> /\ walk = <<>> /\ walk' = <<>> /\ broken' = broken /\ acc' = {}
        /\ errors' = errors \cup acc
    <2>1. CASE Endpoints
      <3>1. EndOf("ENDPOINTS", acc, {})
        BY <2>1 DEF Endpoints
      <3>2. errors' = errors \cup acc
        BY <3>1, EndFacts
      <3> QED BY <2>1, <3>2 DEF Endpoints, decoding, walking, Orderly, Ordered
    <2>2. CASE Secured
      <3>1. EndOf("SECURITY", {}, acc)
        BY <2>2 DEF Secured
      <3>2. errors' = errors \cup acc
        BY <3>1, EndFacts
      <3> QED BY <2>2, <3>2 DEF Secured, decoding, walking, Orderly, Ordered
    <2> QED BY <2>1, <2>2
  <1>2. Pending = {} /\ Pending' = {}
    BY <1>1 DEF Pending, ToSet
  <1>3. Kept' = Kept /\ errors' = Kept /\ Kept = errors \cup acc
    BY <1>1, <1>2 DEF Kept
  <1> QED BY <1>1, <1>2, <1>3 DEF KeepsAll, Justified

LEMMA BindKeeps ==
    ASSUME Orderly, Pathed, Justified, Bind
    PROVE  KeepsAll
  <1> DEFINE ref == Head(binding)
             asked == Written(ref)
             partial == IF asked.name \in Definitions THEN broken[asked.name] ELSE {}
             Fails(problem) == /\ broken' = Mark(broken, {ref}, {<<problem, ref>>})
                               /\ acc' = acc \cup {<<problem, ref>>}
  <1>1. /\ UNCHANGED <<decoding, walking, errors>>
        /\ \/ UNCHANGED <<broken, acc>>
           \/ Fails("unbound") \/ Fails("scope")
           \/ broken' = Mark(broken, {ref}, partial) /\ acc' = acc
    BY DEF Bind
  <1>2. Pending' = Pending /\ walk' = walk
    BY <1>1 DEF Pending, decoding, walking
  <1>3. partial \subseteq Kept
    <2>1. Definitions \subseteq DOMAIN broken
      BY DEF Orderly, TypeOK, Marked
    <2> QED BY <2>1 DEF Justified
  <1> HIDE DEF ref, partial
  <1>4. PICK new \in {{}, {<<"unbound", ref>>}, {<<"scope", ref>>}} :
          /\ acc' = acc \cup new
          /\ \A x \in DOMAIN broken : broken'[x] \subseteq broken[x] \cup partial \cup new
    <2>1. CASE UNCHANGED <<broken, acc>>
      BY <2>1
    <2>2. CASE Fails("unbound") \/ Fails("scope")
      <3>1. PICK new \in {{<<"unbound", ref>>}, {<<"scope", ref>>}} :
              acc' = acc \cup new /\ broken' = Mark(broken, {ref}, new)
        BY <2>2
      <3> QED BY <3>1, MarkFacts
    <2>3. CASE broken' = Mark(broken, {ref}, partial) /\ acc' = acc
      BY <2>3, MarkFacts
    <2> QED BY <1>1, <2>1, <2>2, <2>3
  <1>5. Kept' = Kept \cup new
    BY <1>1, <1>2, <1>4 DEF Kept
  <1>6. \A f \in new : f[1] \notin EntityKinds /\ f # Header
    BY DEF EntityKinds, Header
  <1> QED BY <1>2, <1>3, <1>4, <1>5, <1>6 DEF KeepsAll, Justified

LEMMA Keeps ==
    ASSUME Orderly, Pathed, Justified, Gathered, [Next]_vars
    PROVE  KeepsAll
  <1>1. ASSUME UNCHANGED <<decoding, acc, walking, broken, errors>> PROVE KeepsAll
    <2>1. Pending' = Pending /\ walk' = walk /\ broken' = broken /\ acc' = acc /\ errors' = errors
      BY <1>1 DEF Pending, decoding, walking
    <2>2. Kept' = Kept
      BY <2>1 DEF Kept
    <2> QED BY <2>1, <2>2 DEF KeepsAll, Justified
  <1>2. CASE Inherit \/ Finish \/ UNCHANGED vars
    BY <1>1, <1>2 DEF Inherit, Finish, vars
  <1>3. CASE Sources
    BY <1>3, SourcesKeeps
  <1>4. ASSUME NEW e \in Entities, Open(e) \/ Close(e) PROVE KeepsAll
    BY <1>4, OpenKeeps, CloseKeeps
  <1>5. ASSUME NEW s \in WholeStages, Whole(s) PROVE KeepsAll
    BY <1>5, WholeKeeps
  <1>6. ASSUME NEW r \in Resources, Visit(r) PROVE KeepsAll
    BY <1>6, VisitKeeps
  <1>7. CASE Return \/ Bind \/ Endpoints \/ Secured
    BY <1>7, ReturnKeeps, BindKeeps, EndKeeps
  <1> QED BY <1>2, <1>3, <1>4, <1>5, <1>6, <1>7 DEF Next, WholeStages

(* A stage that ends, whichever way, is the next of the chain.             *)
LEMMA EndReported ==
    ASSUME Orderly, Chained, Concluded, NEW s \in StageNames, NEW raised, NEW recovered,
           EndOf(s, raised, recovered), doc' = doc,
           \/ step = s /\ s \notin {"ENDPOINTS", "SECURITY"}
           \/ step = "decode" /\ s = "ENDPOINTS"
           \/ step = "bind" /\ s = "SECURITY",
           Fatal(raised) <=> Header \in doc.faults,
           Header \in doc.faults => s = "DECODED"
    PROVE  Chained' /\ Concluded'
  <1> DEFINE n == Len(completed)
  <1>1. /\ TypeOK /\ Ordered /\ step # "done" /\ stopped_at = None /\ outcome = "running"
    <2>1. step # "done"
      BY StageList
    <2> QED BY <2>1 DEF Orderly, Ordered
  <1>2. /\ completed \in Seq(StageNames) /\ n \in Nat
        /\ \A i \in 1..n : completed[i] \in StageNames
    BY <1>1, ElementOfSeq, LenProperties DEF TypeOK
  <1>3. Now = s /\ Onward' = Onward /\ s # None /\ Onward[s] = Following(s)
    <2>1. Onward' = Onward
      BY DocWords DEF Onward
    <2>2. Now = s
      <3>1. s \notin {"decode", "walk", "bind", "done"}
        BY StageList
      <3> QED BY <1>1, <3>1 DEF Now
    <2> QED BY <2>1, <2>2, KindsAssumption DEF Onward, StageNames
  <1>4. /\ errors' = errors \cup raised \cup recovered
        /\ \/ /\ raised = {} /\ (doc.strict => recovered = {})
              /\ completed' = Append(completed, s) /\ step' = Following(s)
              /\ stopped_at' = stopped_at /\ outcome' = outcome
           \/ /\ raised # {} \/ (doc.strict /\ recovered # {})
              /\ completed' = completed /\ stopped_at' = s /\ step' = "done"
              /\ outcome' = IF doc.strict \/ Fatal(raised) THEN "raised" ELSE "returned"
    BY EndFacts
  <1>5. step' \in Steps \ {"DECODED", "decode", "walk", "bind"}
    BY <1>1, EndOrderly
  <1>6. CASE /\ completed' = completed /\ stopped_at' = s /\ step' = "done"
             /\ raised # {} \/ (doc.strict /\ recovered # {})
             /\ outcome' = IF doc.strict \/ Fatal(raised) THEN "raised" ELSE "returned"
    <2>1. Now' = s
      BY <1>3, <1>6 DEF Now
    <2>2. Chained'
      BY <1>3, <1>6, <2>1 DEF Chained
    <2>3. errors' # {}
      BY <1>4, <1>6
    <2>4. Header \in doc.faults => completed = <<>>
      <3>1. ASSUME s = "DECODED", completed # <<>> PROVE FALSE
        <4>1. n \in 1..n
          BY <1>2, <3>1, EmptySeq
        <4>2. completed[n] \in StageNames
          BY <1>2, <4>1
        <4>3. Following(completed[n]) = "DECODED"
          BY <1>3, <3>1, <4>2 DEF Chained, Onward
        <4> HIDE DEF n
        <4> QED BY <4>2, <4>3, FollowingFacts, StageList
      <3> QED BY <3>1
    <2>5. Concluded'
      BY <1>3, <1>6, <2>3, <2>4 DEF Concluded, Header
    <2> QED BY <2>2, <2>5
  <1>7. CASE /\ raised = {} /\ (doc.strict => recovered = {})
             /\ completed' = Append(completed, s) /\ step' = Following(s)
             /\ stopped_at' = stopped_at /\ outcome' = outcome
    <2>1. Header \notin doc.faults
      BY <1>7 DEF Fatal
    <2>2. Concluded'
      BY <1>1, <1>4, <1>7, <2>1 DEF Concluded
    <2>3. /\ Len(completed') = n + 1 /\ completed'[n + 1] = s
          /\ \A i \in 1..n : completed'[i] = completed[i]
      BY <1>2, <1>7, AppendProperties
    <2>4. Now' = Following(s)
      BY <1>1, <1>5, <1>7 DEF Now
    <2>5. completed' # <<>>
      <3>1. completed' \in Seq(StageNames)
        BY <1>1, EndOrderly
      <3> HIDE DEF n
      <3> QED BY <1>2, <2>3, <3>1, EmptySeq
    <2>6. completed = <<>> <=> n = 0
      BY <1>2, EmptySeq
    <2>7. Now = IF completed = <<>> THEN "DECODED" ELSE Onward[completed[n]]
      BY DEF Chained
    <2>8. completed'[1] = "DECODED"
      <3>1. CASE n = 0
        BY <1>3, <2>3, <2>6, <2>7, <3>1
      <3>2. CASE n # 0
        <4>1. 1 \in 1..n
          BY <1>2, <3>2
        <4> HIDE DEF n
        <4> QED BY <2>3, <2>6, <3>2, <4>1 DEF Chained
      <3> QED BY <3>1, <3>2
    <2>9. ASSUME NEW i \in 1..(Len(completed') - 1)
          PROVE  completed'[i + 1] = Onward[completed'[i]]
      <3>1. i \in 1..n /\ n # 0 /\ (i = n \/ (i + 1 \in 1..n /\ i \in 1..(n - 1)))
        BY <1>2, <2>3
      <3> HIDE DEF n
      <3> QED BY <1>3, <2>3, <2>6, <2>7, <3>1 DEF Chained, n
    <2> HIDE DEF n
    <2> QED BY <1>3, <2>2, <2>3, <2>4, <2>5, <2>8, <2>9 DEF Chained
  <1> QED BY <1>4, <1>6, <1>7

Reported == Chained /\ Concluded /\ Collected /\ Gathered /\ Justified

LEMMA ErrorsGrow ==
    ASSUME [Next]_vars
    PROVE  errors \subseteq errors'
  <1>1. ASSUME NEW s, NEW raised, NEW recovered, EndOf(s, raised, recovered)
        PROVE  errors \subseteq errors'
    BY <1>1, EndFacts
  <1> QED BY <1>1 DEF Next, vars, Whole, Sources, Open, Close, Visit, Registering, Return,
             Endpoints, Inherit, Bind, Secured, Finish

(* The steps within a stage.                                               *)
LEMMA WithinStage ==
    ASSUME Orderly, Concluded, [Next]_vars, ~Endpoints, ~Secured,
           \A s \in WholeStages : ~Whole(s)
    PROVE  /\ completed' = completed /\ stopped_at' = stopped_at /\ Now' = Now
           /\ step' = step \/ (step # "done" /\ step' \notin {"done", "DECODED"} /\ step # "DECODED")
           /\ outcome' = outcome \/ (outcome' = "returned" /\ stopped_at = None)
           /\ doc.strict => errors' = errors
           /\ step' \in {"decode", "walk"} => step \in {"ENDPOINTS", "decode", "walk"}
           /\ step' \in {"decode", "walk"} /\ step = "ENDPOINTS" => Sources
  <1>1. TypeOK /\ Ordered
    BY DEF Orderly
  <1>2. CASE Sources
    BY <1>2 DEF Sources, Now
  <1>3. ASSUME NEW e \in Entities, Open(e) \/ Close(e)
        PROVE  /\ UNCHANGED <<completed, stopped_at, outcome>> /\ step = "decode"
               /\ step' \in {"decode", "walk"} /\ (doc.strict => errors' = errors)
    BY <1>3 DEF Open, Close
  <1>4. ASSUME NEW r \in Resources, Visit(r)
        PROVE  /\ UNCHANGED <<completed, stopped_at, outcome, errors>>
               /\ step = "walk" /\ step' = "walk"
    BY <1>4 DEF Visit, Registering
  <1>5. CASE Return
    BY <1>5 DEF Return, Now
  <1>6. CASE Inherit
    BY <1>6 DEF Inherit, Now
  <1>7. CASE Bind
    BY <1>7 DEF Bind, Now
  <1>8. CASE Finish
    BY <1>8 DEF Finish, Now, Concluded
  <1>9. CASE UNCHANGED vars
    BY <1>9 DEF vars, Now
  <1> QED BY <1>2, <1>3, <1>4, <1>5, <1>6, <1>7, <1>8, <1>9 DEF Next, WholeStages, Now

LEMMA EndpointsFound ==
    ASSUME Orderly, Pathed, Gathered, Endpoints
    PROVE  FoundBy("ENDPOINTS") \subseteq Kept
  <1>1. /\ step = "decode" /\ left = {} /\ marking = <<>> /\ doc \in Corpus
    BY DEF Endpoints, Orderly, TypeOK
  <1>2. Closed = attached
    BY <1>1 DEF Closed, ToSet
  <1>3. ASSUME NEW e \in Entities, Found(e) PROVE e \in attached
    <2>1. PICK r \in ToSet(Top) : e \in Below[r] /\ Readable(r)
      BY <1>3 DEF Found
    <2>2. PICK i \in DOMAIN Top : r = Top[i]
      BY DEF ToSet
    <2>3. r \in attached
      BY <1>1, <2>1, <2>2 DEF Gathered
    <2> QED BY <1>2, <2>1, <2>3, ClosedBelow
  <1>4. ASSUME NEW f \in FoundBy("ENDPOINTS") PROVE f \in Kept
    <2>1. f \in doc.faults /\ f[1] \in EntityKinds /\ f[2] \in Entities
      BY <1>1, <1>4, FaultsTyped DEF FoundBy, EntityKinds
    <2>2. f[1] # "source" => Found(f[2])
      BY <1>4 DEF FoundBy
    <2>3. \A kind, where : f[1] = kind /\ f[2] \in where => f \in Wrong(kind, where)
      BY <1>1, <2>1, WrongFacts
    <2>4. CASE f[1] = "source"
      BY <1>1, <2>1, <2>3, <2>4 DEF Gathered
    <2>5. CASE f[1] = "template"
      <3>1. f \in Wrong("template", {f[2]})
        BY <2>3, <2>5
      <3> QED BY <1>1, <2>1, <2>2, <2>5, <3>1 DEF Gathered
    <2>6. CASE f[1] \in {"facet", "unknown"}
      <3>1. f \in Wrong("facet", {f[2]}) \cup Wrong("unknown", {f[2]})
        BY <2>3, <2>6
      <3>2. f[2] \in attached
        BY <1>3, <2>1, <2>2, <2>6
      <3> QED BY <1>1, <3>1, <3>2 DEF Gathered
    <2> QED BY <2>1, <2>4, <2>5, <2>6 DEF EntityKinds
  <1> QED BY <1>4

LEMMA GatheredNext ==
    ASSUME Orderly, Pathed, Justified, Gathered, Concluded, [Next]_vars
    PROVE  Gathered'
  <1>1. /\ doc' = doc /\ (\A kind, where : Wrong(kind, where)' = Wrong(kind, where))
        /\ (\A r : Readable(r)' = Readable(r)) /\ \A e : Found(e)' = Found(e)
    BY DocStays, DocWords
  <1>2. Kept \subseteq Kept'
    BY Keeps DEF KeepsAll
  <1>3. SUFFICES ASSUME step' \in {"decode", "walk"} PROVE Gathered'
    BY DEF Gathered
  <1>4. CASE Sources
    <2>1. /\ Wrong("source", Entities) \subseteq Kept'
          /\ \A e \in Entities : Found(e) => Wrong("template", {e}) \subseteq Kept'
          /\ \A i \in DOMAIN Top : Readable(Top[i]) => i \in left'
      BY <1>4, SourcesKeeps
    <2>2. attached' = {}
      BY <1>4 DEF Sources, Orderly, Ordered
    <2> QED BY <1>1, <2>1, <2>2 DEF Gathered
  <1>5. ASSUME NEW e \in Entities, Open(e) PROVE Gathered'
    <2>1. /\ step = "decode" /\ attached' = attached \cup {e}
          /\ left' = IF marking = <<>> THEN {i \in left : Top[i] # e} ELSE left
      BY <1>5 DEF Open
    <2>2. Wrong("facet", {e}) \cup Wrong("unknown", {e}) \subseteq Kept'
      BY <1>5, OpenKeeps
    <2>3. \A i \in DOMAIN Top : Readable(Top[i]) => i \in left' \/ Top[i] \in attached'
      BY <2>1 DEF Gathered
    <2>4. \A x \in attached' : Wrong("facet", {x}) \cup Wrong("unknown", {x}) \subseteq Kept'
      BY <1>2, <2>1, <2>2 DEF Gathered
    <2> QED BY <1>1, <1>2, <2>1, <2>3, <2>4 DEF Gathered
  <1>6. ASSUME UNCHANGED <<left, attached>>, step \in {"decode", "walk"} PROVE Gathered'
    BY <1>1, <1>2, <1>6 DEF Gathered
  <1>7. ASSUME NEW s \in StageNames, NEW raised, NEW recovered, EndOf(s, raised, recovered),
               \/ step = s /\ s \notin {"ENDPOINTS", "SECURITY"}
               \/ step = "decode" /\ s = "ENDPOINTS"
               \/ step = "bind" /\ s = "SECURITY"
        PROVE  FALSE
    <2>1. step' \notin {"decode", "walk"}
      BY <1>7, EndOrderly DEF Orderly
    <2> QED BY <1>3, <2>1
  <1>8. ASSUME NEW s \in WholeStages, Whole(s) PROVE FALSE
    <2>1. step = s /\ s \in StageNames /\ s \notin {"ENDPOINTS", "SECURITY"}
      BY <1>8, StageList DEF Whole, WholeStages
    <2>2. PICK raised, recovered : EndOf(s, raised, recovered)
      BY <1>8 DEF Whole
    <2> QED BY <1>7, <2>1, <2>2
  <1>9. ~Endpoints /\ ~Secured
    BY <1>7, StageList DEF Endpoints, Secured
  <1>10. step \in {"ENDPOINTS", "decode", "walk"} /\ (step = "ENDPOINTS" => Sources)
    BY <1>3, <1>8, <1>9, WithinStage
  <1>11. \/ Sources \/ \E e \in Entities : Open(e)
         \/ UNCHANGED <<left, attached>>
    BY <1>8, <1>9 DEF Next, vars, WholeStages, Close, Visit, Registering, Return, Inherit, Bind,
                      Finish, decoding
  <1> QED BY <1>4, <1>5, <1>6, <1>10, <1>11

LEMMA JustifiedNext ==
    ASSUME Orderly, Pathed, Justified, Gathered, [Next]_vars
    PROVE  Justified'
  <1>1. doc' = doc /\ FoundBy("ENDPOINTS")' = FoundBy("ENDPOINTS")
    BY DocStays, DocWords
  <1>2. DOMAIN broken' = DOMAIN broken
    <2>1. TypeOK /\ TypeOK'
      BY OrderlyNext DEF Orderly
    <2>2. References' = References
      BY <1>1, ReferencesStay
    <2> QED BY <2>1, <2>2 DEF TypeOK
  <1>3. KeepsAll
    BY Keeps
  <1> QED BY <1>1, <1>2, <1>3 DEF KeepsAll, Justified, Header

LEMMA ReportedNext ==
    ASSUME Orderly, Pathed, Reported, [Next]_vars
    PROVE  Reported'
  <1>1. Chained /\ Concluded /\ Collected /\ Gathered /\ Justified /\ TypeOK /\ Ordered
    BY DEF Reported, Orderly
  <1>2. Gathered' /\ Justified'
    BY <1>1, GatheredNext, JustifiedNext
  <1>3. /\ doc' = doc /\ errors \subseteq errors' /\ (\A s : FoundBy(s)' = FoundBy(s))
        /\ Onward' = Onward
    BY DocStays, DocWords, ErrorsGrow DEF Onward
  <1>4. ASSUME NEW s \in StageNames, NEW raised, NEW recovered, EndOf(s, raised, recovered),
               \/ step = s /\ s \notin {"ENDPOINTS", "SECURITY"}
               \/ step = "decode" /\ s = "ENDPOINTS"
               \/ step = "bind" /\ s = "SECURITY",
               Fatal(raised) <=> Header \in doc.faults,
               Header \notin doc.faults /\ s # "RESOLVED" => FoundBy(s) \subseteq errors'
        PROVE  Chained' /\ Concluded' /\ Collected'
    <2>1. Header \in doc.faults => s = "DECODED"
      <3>1. step # "DECODED" /\ step # "done" => Header \notin doc.faults
        BY <1>1 DEF Concluded
      <3> QED BY <1>4, <3>1, StageList
    <2>2. Chained' /\ Concluded'
      BY <1>1, <1>3, <1>4, <2>1, EndReported
    <2>3. stopped_at = None
      BY <1>1, <1>4, StageList DEF Ordered
    <2>4. /\ completed' = completed \/ (completed' = Append(completed, s) /\ raised = {})
          /\ stopped_at' = stopped_at \/ stopped_at' = s
      BY <1>4, EndFacts
    <2>5. completed \in Seq(StageNames)
      BY <1>1 DEF TypeOK
    <2>6. \A x \in ToSet(completed') : x \in ToSet(completed) \/ (x = s /\ raised = {})
      <3>1. ToSet(Append(completed, s)) = ToSet(completed) \cup {s}
        BY <2>5, AppendSet
      <3>2. CASE completed' = completed
        BY <3>2
      <3>3. CASE completed' = Append(completed, s) /\ raised = {}
        BY <3>1, <3>3
      <3> QED BY <2>4, <3>2, <3>3
    <2>7. raised = {} => Header \notin doc.faults
      BY <1>4 DEF Fatal
    <2>8. \A x \in StageNames : x # None
      BY KindsAssumption DEF StageNames
    <2>9. Collected'
      BY <1>1, <1>3, <1>4, <2>3, <2>4, <2>6, <2>7, <2>8 DEF Collected, Header
    <2> QED BY <2>2, <2>9
  <1>5. ASSUME NEW s \in WholeStages, Whole(s) PROVE Chained' /\ Concluded' /\ Collected'
    <2>1. s \in StageNames /\ s \notin {"ENDPOINTS", "SECURITY", "done"}
      BY StageList DEF WholeStages
    <2>2. PICK error \in SUBSET FaultsOf(s) :
            /\ step = s
            /\ EndOf(s, RaisedIn(s, error), error \ RaisedIn(s, error))
            /\ Header \in doc.faults /\ s = "DECODED" => error = {Header}
            /\ Header \notin doc.faults \/ s # "DECODED" =>
                 Header \notin error /\ (s # "RESOLVED" => error = FaultsOf(s))
      BY <1>5, WholeFacts DEF Header
    <2>3. Header \in doc.faults => s = "DECODED"
      BY <1>1, <2>1, <2>2 DEF Concluded
    <2>4. Header \in error /\ s = "DECODED" => Header \in RaisedIn(s, error)
      BY DEF RaisedIn, Header, Raising
    <2>5. Fatal(RaisedIn(s, error)) <=> Header \in doc.faults
      BY <2>2, <2>3, <2>4 DEF Fatal, RaisedIn, Header
    <2>6. ASSUME Header \notin doc.faults, s # "RESOLVED" PROVE FoundBy(s) \subseteq errors'
      <3>1. FoundBy(s) = FaultsOf(s)
        BY <2>1 DEF FoundBy, FaultsOf
      <3>2. errors' = errors \cup RaisedIn(s, error) \cup (error \ RaisedIn(s, error))
        BY <2>2, EndFacts
      <3> QED BY <2>2, <2>6, <3>1, <3>2
    <2> DEFINE raised == RaisedIn(s, error)
               recovered == error \ raised
    <2>7. EndOf(s, raised, recovered) /\ (Fatal(raised) <=> Header \in doc.faults)
      BY <2>2, <2>5
    <2> HIDE DEF raised, recovered
    <2> QED BY <1>4, <2>1, <2>2, <2>6, <2>7
  <1>6. ASSUME Endpoints \/ Secured PROVE Chained' /\ Concluded' /\ Collected'
    <2>1. Header \notin doc.faults
      <3>1. step \notin {"DECODED", "done"}
        BY <1>6 DEF Endpoints, Secured
      <3> QED BY <1>1, <3>1 DEF Concluded
    <2>2. CASE Endpoints
      <3>1. EndOf("ENDPOINTS", acc, {}) /\ step = "decode"
        BY <2>2 DEF Endpoints
      <3>2. ~Fatal(acc)
        BY <1>1 DEF Justified, Fatal, Header
      <3>3. FoundBy("ENDPOINTS") \subseteq errors'
        BY <1>1, <2>2, EndpointsFound, EndKeeps
      <3> QED BY <1>4, <2>1, <3>1, <3>2, <3>3, StageList
    <2>3. CASE Secured
      <3>1. EndOf("SECURITY", {}, acc) /\ step = "bind"
        BY <2>3 DEF Secured
      <3>2. ~Fatal({}) /\ FoundBy("SECURITY") = {}
        BY DEF Fatal, FoundBy
      <3> QED BY <1>4, <2>1, <3>1, <3>2, StageList
    <2> QED BY <1>6, <2>2, <2>3
  <1>7. ASSUME ~Endpoints, ~Secured, \A s \in WholeStages : ~Whole(s)
        PROVE  Chained' /\ Concluded' /\ Collected'
    <2>1. /\ completed' = completed /\ stopped_at' = stopped_at /\ Now' = Now
          /\ step' = step \/ (step # "done" /\ step' \notin {"done", "DECODED"} /\ step # "DECODED")
          /\ outcome' = outcome \/ (outcome' = "returned" /\ stopped_at = None)
          /\ doc.strict => errors' = errors
      BY <1>1, <1>7, WithinStage
    <2>2. Chained'
      BY <1>1, <1>3, <2>1 DEF Chained
    <2>3. Concluded'
      BY <1>1, <1>3, <2>1 DEF Concluded, Header
    <2>4. Collected'
      BY <1>1, <1>3, <2>1 DEF Collected, Header
    <2> QED BY <2>2, <2>3, <2>4
  <1> QED BY <1>2, <1>5, <1>6, <1>7 DEF Reported

LEMMA ReportedInit == Init => Reported
  <1> SUFFICES ASSUME Init PROVE Reported
    OBVIOUS
  <1>1. /\ ToSet(marking) = {} /\ ToSet(completed) = {} /\ Pending = {} /\ DOMAIN walk = {}
        /\ 1..(Len(completed) - 1) = {}
    BY DEF Init, ToSet, Pending
  <1>2. Kept = {}
    BY <1>1 DEF Init, Kept
  <1>3. \A x \in DOMAIN broken : broken[x] = {}
    BY DEF Init
  <1>4. Chained
    BY <1>1 DEF Init, Chained, Now
  <1>5. Concluded
    BY DEF Init, Concluded
  <1>6. Collected
    <2>1. \A s \in StageNames : s # None
      BY KindsAssumption DEF StageNames
    <2> QED BY <1>1, <2>1 DEF Init, Collected
  <1>7. Gathered
    BY DEF Init, Gathered
  <1>8. Justified
    BY <1>1, <1>2, <1>3 DEF Init, Justified
  <1> QED BY <1>4, <1>5, <1>6, <1>7, <1>8 DEF Reported

LEMMA ReportedImplied == Orderly /\ Reported => ReportedAsRun
  <1> SUFFICES ASSUME Orderly, Reported, Over PROVE ReportedAsRun
    BY DEF ReportedAsRun
  <1> DEFINE n == Len(completed)
             ran == completed \o (IF stopped_at = None THEN <<>> ELSE <<stopped_at>>)
  <1>1. /\ TypeOK /\ Ordered /\ Chained /\ Concluded /\ Collected /\ Justified
        /\ step = "done" /\ acc = {} /\ marking = <<>>
    BY DEF Orderly, Reported, Over, Ordered
  <1>2. Kept = errors
    <2>1. Pending = {}
      BY <1>1 DEF Pending, ToSet
    <2> QED BY <1>1, <2>1 DEF Kept
  <1>3. /\ completed \in Seq(StageNames) /\ n \in Nat /\ (completed = <<>> <=> n = 0)
        /\ \A i \in 1..n : completed[i] \in StageNames
        /\ stopped_at \in StageNames \cup {None} /\ None \notin StageNames
    BY <1>1, EmptySeq, ElementOfSeq, LenProperties, KindsAssumption DEF TypeOK, StageNames
  <1>4. \A s \in StageNames : Onward[s] = Following(s)
    BY DEF Onward
  <1>5. /\ \A i \in 1..(n - 1) : completed[i + 1] = Following(completed[i])
        /\ n # 0 => completed[1] = "DECODED"
        /\ Now = IF n = 0 THEN "DECODED" ELSE Following(completed[n])
    <2>1. \A i \in 1..(n - 1) : i \in 1..n
      BY <1>3
    <2>2. n # 0 => n \in 1..n
      BY <1>3
    <2> QED BY <1>1, <1>3, <1>4, <2>1, <2>2 DEF Chained
  <1>6. /\ \A f \in errors : f[1] \in EntityKinds => f \in FoundBy("ENDPOINTS")
        /\ \A e \in DOMAIN broken : broken[e] \subseteq errors
    BY <1>1, <1>2 DEF Justified
  <1>7. CASE stopped_at = None
    <2>1. ran = completed
      BY <1>3, <1>7, ConcatEmptySeq
    <2>2. n # 0 /\ Following(completed[n]) = "done"
      <3>1. Now = "done"
        BY <1>1, <1>7 DEF Now
      <3> HIDE DEF n
      <3> QED BY <1>5, <3>1
    <2>3. Header \notin doc.faults /\ outcome # "raised" /\ (doc.strict => errors = {})
      <3>1. stopped_at # "DECODED"
        BY <1>3, <1>7, StageList
      <3> QED BY <1>1, <1>7, <3>1 DEF Concluded
    <2>4. ToSet(ran) \subseteq StageNames
      BY <1>3, <2>1, EveryElement
    <2>5. \A s \in ToSet(ran) \ {"RESOLVED"} : FoundBy(s) \subseteq errors
      BY <1>1, <2>1, <2>4 DEF Collected
    <2>6. Head(ran) = "DECODED" /\ Last(ran) = completed[n] /\ Len(ran) = n
      <3>1. completed # <<>>
        BY <1>3, <2>2
      <3>2. Head(completed) = completed[1]
        BY <1>3, <3>1, HeadTailProperties
      <3> QED BY <1>5, <2>1, <2>2, <3>2 DEF Last
    <2> HIDE DEF n, ran
    <2>7. \A i \in 1..(Len(ran) - 1) : ran[i + 1] = Following(ran[i])
      BY <1>5, <2>1, <2>6
    <2>8. \A e \in DOMAIN broken : broken[e] \subseteq errors \/ outcome = "raised"
      BY <1>6
    <2>9. outcome = "raised" <=> doc.strict /\ errors # {}
      BY <2>3
    <2> QED BY <1>6, <1>7, <2>2, <2>3, <2>5, <2>6, <2>7, <2>8, <2>9 DEF ReportedAsRun, Header, ran
  <1>8. CASE stopped_at # None
    <2>1. /\ ran = Append(completed, stopped_at) /\ stopped_at \in StageNames
      <3>1. completed \o <<stopped_at>> = Append(completed, stopped_at)
        BY <1>3, <1>8
      <3> QED BY <1>3, <1>8, <3>1
    <2>2. /\ Len(ran) = n + 1 /\ ran[n + 1] = stopped_at /\ ran \in Seq(StageNames)
          /\ \A i \in 1..n : ran[i] = completed[i]
          /\ ToSet(ran) = ToSet(completed) \cup {stopped_at}
      <3> HIDE DEF ran
      <3> QED BY <1>3, <2>1, AppendProperties, AppendSet
    <2>3. stopped_at = IF n = 0 THEN "DECODED" ELSE Following(completed[n])
      BY <1>1, <1>5, <1>8 DEF Now
    <2>4. /\ errors # {}
          /\ outcome = IF doc.strict \/ Header \in doc.faults THEN "raised" ELSE "returned"
          /\ Header \in doc.faults => completed = <<>> /\ stopped_at = "DECODED"
      BY <1>1, <1>8 DEF Concluded
    <2>5. Header \in doc.faults => ran = <<"DECODED">>
      <3> HIDE DEF ran
      <3>1. \A x : Append(<<>>, x) = <<x>>
        OBVIOUS
      <3> QED BY <2>1, <2>4, <3>1
    <2>6. Header \notin doc.faults => \A s \in ToSet(ran) \ {"RESOLVED"} : FoundBy(s) \subseteq errors
      <3>1. ToSet(completed) \subseteq StageNames
        BY <1>3, EveryElement
      <3> HIDE DEF ran
      <3> QED BY <1>1, <2>1, <2>2, <3>1 DEF Collected
    <2>7. ran # <<>> /\ Head(ran) = ran[1]
      <3> HIDE DEF ran, n
      <3>1. ran # <<>>
        BY <1>3, <2>2, EmptySeq
      <3> QED BY <2>2, <3>1, HeadTailProperties
    <2> HIDE DEF n, ran
    <2>8. ran[1] = "DECODED"
      <3>1. CASE n = 0
        BY <2>2, <2>3, <3>1
      <3>2. CASE n # 0
        <4>1. 1 \in 1..n
          BY <1>3, <3>2
        <4> QED BY <1>5, <2>2, <3>2, <4>1
      <3> QED BY <3>1, <3>2
    <2>9. ASSUME NEW i \in 1..(Len(ran) - 1) PROVE ran[i + 1] = Following(ran[i])
      <3>1. i \in 1..n /\ n # 0 /\ (i = n \/ (i + 1 \in 1..n /\ i \in 1..(n - 1)))
        BY <1>3, <2>2
      <3> QED BY <1>5, <2>2, <2>3, <3>1
    <2>10. \A e \in DOMAIN broken : broken[e] \subseteq errors \/ outcome = "raised"
      BY <1>6
    <2>11. Header \notin doc.faults => (outcome = "raised" <=> doc.strict /\ errors # {})
      BY <2>4
    <2>12. doc.strict => (stopped_at = None <=> errors = {})
      BY <1>8, <2>4
    <2> QED BY <1>6, <1>8, <2>4, <2>5, <2>6, <2>7, <2>8, <2>9, <2>10, <2>11, <2>12
            DEF ReportedAsRun, Header, ran
  <1> QED BY <1>7, <1>8

(* A parse tells its caller of every problem its stages found, whichever   *)
(* way each was kept, and says where it stopped (registry.py, stage and    *)
(* recover; entry.py).                                                     *)
THEOREM SpecReportedAsRun == Spec => []ReportedAsRun
  <1>1. Init => Orderly /\ Pathed /\ Reported
    BY OrderlyInit, PathedInit, ReportedInit
  <1>2. (Orderly /\ Pathed /\ Reported) /\ [Next]_vars => (Orderly /\ Pathed /\ Reported)'
    BY OrderlyNext, PathedNext, ReportedNext
  <1>3. Orderly /\ Pathed /\ Reported => ReportedAsRun
    BY ReportedImplied
  <1> QED BY <1>1, <1>2, <1>3, PTL DEF Spec

-----------------------------------------------------------------------------
(* What is marked.  What an entity that is decoded is marked with, what    *)
(* one that is being decoded will fail with, and what it was marked with   *)
(* when it was attached or by Raml.recover.                                *)
Within(e) == {e} \cup UNION {Below[c] : c \in Holds(e) \cap Closed}

Mine(f, e) ==
    f \in doc.faults /\ f[2] \in Below[e] /\
      (f[1] \in {"facet", "unknown"} \/ (f[1] = "template" /\ e \notin Responses))
Fails(f, e) ==
    f \in doc.faults /\ f[2] \in Within(e) /\
      (f[1] = "facet" \/ (doc.strict /\ f[1] = "unknown"))
Noted(f, e) ==
    f \in doc.faults /\
      \/ f[1] = "template" /\ e \notin Responses /\ f[2] \in Below[e]
      \/ f[1] = "unknown" /\ ~doc.strict /\ f[2] \in Below[e] \cap attached

MarkedInside ==
    /\ \A e \in Closed : \A f : f \in broken[e] /\ f[1] \in EntityKinds <=> Mine(f, e)
    /\ \A e \in ToSet(marking) : \A f :
         /\ f \in failing[e] <=> Fails(f, e)
         /\ f \in broken[e] /\ f[1] \in EntityKinds <=> Noted(f, e)
    /\ \A e \in Entities \ attached : \A f \in broken[e] : f[1] \notin EntityKinds

(* Only decoding and registering mark an entity; a scheme is its own.      *)
LEMMA EntityMarks ==
    ASSUME Orderly, [Next]_vars, ~Return, \A e \in Entities : ~Open(e) /\ ~Close(e)
    PROVE  /\ UNCHANGED <<attached, marking, failing>>
           /\ \A x \in Entities : /\ broken[x] \subseteq broken'[x]
                                  /\ \A f \in broken'[x] : f \in broken[x] \/ f[1] = "scheme"
  <1>1. TypeOK /\ Entities \subseteq DOMAIN broken
    BY DEF Orderly, TypeOK, Marked
  <1>2. ASSUME NEW s \in WholeStages, Whole(s)
        PROVE  /\ UNCHANGED <<attached, marking, failing>>
               /\ \A x \in Entities : /\ broken[x] \subseteq broken'[x]
                                      /\ \A f \in broken'[x] : f \in broken[x] \/ f[1] = "scheme"
    <2>1. PICK error : /\ UNCHANGED decoding
                       /\ broken' = [e \in DOMAIN broken |->
                                       broken[e] \cup {f \in error : f[1] = "scheme" /\ f[2] = e}]
      BY <1>2, WholeFacts
    <2> QED BY <1>1, <2>1 DEF decoding
  <1>3. CASE Bind
    <2> DEFINE ref == Head(binding)
    <2>1. ref \notin Entities
      <3>1. binding \in Seq(References) /\ binding # <<>>
        BY <1>1, <1>3 DEF Bind, TypeOK
      <3>2. ref \in References
        BY <3>1, HeadTailProperties
      <3> QED BY <1>1, <3>2, ReferencesApart DEF Marked, TypeOK
    <2> DEFINE only == {ref}
    <2>2. UNCHANGED decoding /\ (broken' = broken \/ \E error : broken' = Mark(broken, only, error))
      BY <1>3 DEF Bind
    <2>3. \A x \in Entities : x \notin only /\ x \in DOMAIN broken
      BY <1>1, <2>1
    <2> HIDE DEF only
    <2>4. \A x \in Entities : broken'[x] = broken[x]
      BY <2>2, <2>3, MarkFacts
    <2> QED BY <2>2, <2>4 DEF decoding
  <1> QED BY <1>2, <1>3 DEF Next, vars, WholeStages, Sources, Visit, Registering, Endpoints,
             Inherit, Secured, Finish, decoding

LEMMA OpenMarks ==
    ASSUME Orderly, Pathed, MarkedInside, NEW e \in Entities, Open(e)
    PROVE  /\ MarkedInside'
           /\ \A x \in Entities : /\ broken[x] \subseteq broken'[x]
                                  /\ \A f \in broken'[x] : f \in broken[x] \/ f[1] \in EntityKinds
  <1> DEFINE n == Len(marking)
             facet == Wrong("facet", {e})
             unknown == Wrong("unknown", {e})
             noted == IF e \in Responses THEN {} ELSE Wrong("template", Below[e])
             attaching == Mark(broken, {e}, noted)
             all == ToSet(marking')
  <1>1. TypeOK /\ doc \in Corpus /\ doc' = doc /\ Entities \subseteq DOMAIN broken
    BY DEF Orderly, TypeOK, Open, Marked
  <1>2. /\ e \notin attached /\ n \in Nat
        /\ all = ToSet(marking) \cup {e} /\ attached' = attached \cup {e}
        /\ Closed' = Closed
        /\ marking = <<>> \/ (marking # <<>> /\ e \in Holds(marking[n]))
    BY OpenPath
  <1>3. ToSet(marking) \subseteq attached /\ ToSet(marking) \subseteq DOMAIN failing
        /\ ToSet(marking) \subseteq Entities /\ e \in DOMAIN failing
    BY <1>1, EveryElement DEF Pathed, TypeOK
  <1>4. \A f : /\ f \in facet <=> f \in doc.faults /\ f[1] = "facet" /\ f[2] = e
               /\ f \in unknown <=> f \in doc.faults /\ f[1] = "unknown" /\ f[2] = e
               /\ f \in noted <=> f \in doc.faults /\ f[1] = "template" /\ f[2] \in Below[e]
                                    /\ e \notin Responses
    BY <1>1, WrongFacts
  <1>5. IF doc.strict
        THEN failing' = [failing EXCEPT ![e] = facet \cup unknown] /\ broken' = attaching
        ELSE failing' = [failing EXCEPT ![e] = facet] /\ broken' = Mark(attaching, all, unknown)
    BY DEF Open
  <1>6. ASSUME NEW q \in ToSet(marking) PROVE e \in Below[q]
    <2>1. marking # <<>> /\ marking \in Seq(Entities) /\ n \in 1..n
      BY <1>1, <1>2, EmptySeq DEF TypeOK, ToSet
    <2>2. PICK m \in 1..n : q = marking[m]
      BY <2>1, LenProperties DEF ToSet
    <2>3. marking[n] \in Below[marking[m]]
      BY <2>1, PathAbove
    <2>4. q \in Entities
      BY <1>3
    <2> HIDE DEF n
    <2> QED BY <1>2, <2>1, <2>2, <2>3, <2>4, BelowLeast DEF IsClosed
  <1> HIDE DEF n, facet, unknown, noted, all
  <1>7. /\ \A x \in Entities : x # e => attaching[x] = broken[x]
        /\ attaching[e] = broken[e] \cup noted /\ Entities \subseteq DOMAIN attaching
    BY <1>1, MarkFacts
  <1> HIDE DEF attaching
  <1>8. /\ \A x \in Entities \ all : broken'[x] = broken[x]
        /\ \A x \in ToSet(marking) : broken'[x] = broken[x] \cup (IF doc.strict THEN {} ELSE unknown)
        /\ broken'[e] = broken[e] \cup noted \cup (IF doc.strict THEN {} ELSE unknown)
    <2>1. e \notin ToSet(marking)
      BY <1>2, <1>3
    <2>2. CASE doc.strict
      BY <1>2, <1>3, <1>5, <1>7, <2>1, <2>2
    <2>3. CASE ~doc.strict
      BY <1>2, <1>3, <1>5, <1>7, <2>1, <2>3, MarkFacts
    <2> QED BY <2>2, <2>3
  <1>9. /\ \A q \in ToSet(marking) : failing'[q] = failing[q]
        /\ failing'[e] = facet \cup (IF doc.strict THEN unknown ELSE {})
    <2>1. e \notin ToSet(marking)
      BY <1>2, <1>3
    <2> QED BY <1>3, <1>5, <2>1
  <1>10. ASSUME NEW x \in Closed' PROVE \A f : f \in broken'[x] /\ f[1] \in EntityKinds <=> Mine(f, x)'
    <2>1. x \in Closed /\ x \in Entities /\ x \notin all
      BY <1>1, <1>2 DEF TypeOK, Closed
    <2>2. \A f : Mine(f, x)' <=> Mine(f, x)
      BY <1>1 DEF Mine
    <2> QED BY <1>8, <2>1, <2>2 DEF MarkedInside
  <1>11. ASSUME NEW x \in Entities \ attached'
         PROVE  \A f \in broken'[x] : f[1] \notin EntityKinds
    <2>1. x \notin attached /\ x \notin all
      BY <1>2, <1>3
    <2> QED BY <1>8, <2>1 DEF MarkedInside
  <1>12. ASSUME NEW q \in ToSet(marking), NEW f
         PROVE  /\ f \in failing'[q] <=> Fails(f, q)'
                /\ f \in broken'[q] /\ f[1] \in EntityKinds <=> Noted(f, q)'
    <2>1. Fails(f, q)' <=> Fails(f, q)
      BY <1>1, <1>2 DEF Fails, Within
    <2>2. f \in unknown => f[1] \in EntityKinds
      BY <1>4 DEF EntityKinds
    <2>3. Noted(f, q)' <=> Noted(f, q) \/ (~doc.strict /\ f \in unknown)
      BY <1>1, <1>2, <1>4, <1>6 DEF Noted
    <2> QED BY <1>8, <1>9, <2>1, <2>2, <2>3 DEF MarkedInside
  <1>13. ASSUME NEW f
         PROVE  /\ f \in failing'[e] <=> Fails(f, e)'
                /\ f \in broken'[e] /\ f[1] \in EntityKinds <=> Noted(f, e)'
    <2>1. Below[e] \cap attached = {} /\ e \in Below[e]
      BY <1>2, DetachedBelow, BelowLeast
    <2>2. \A c \in Holds(e) : c \notin Closed
      <3>1. \A c \in Holds(e) : c \in Below[e]
        BY BelowLeast DEF IsClosed
      <3> QED BY <2>1, <3>1 DEF Closed
    <2>3. Within(e)' = {e}
      BY <1>2, <2>2 DEF Within
    <2>4. Fails(f, e)' <=> f \in facet \/ (doc.strict /\ f \in unknown)
      BY <1>1, <1>4, <2>3 DEF Fails
    <2>5. Noted(f, e)' <=> f \in noted \/ (~doc.strict /\ f \in unknown)
      BY <1>1, <1>2, <1>4, <2>1 DEF Noted
    <2>6. f \in broken[e] => f[1] \notin EntityKinds
      BY <1>2 DEF MarkedInside
    <2>7. f \in noted \/ f \in unknown => f[1] \in EntityKinds
      BY <1>4 DEF EntityKinds
    <2> QED BY <1>8, <1>9, <2>4, <2>5, <2>6, <2>7
  <1>14. MarkedInside'
    <2>1. ToSet(marking)' = ToSet(marking) \cup {e}
      BY <1>2 DEF all
    <2> QED BY <1>10, <1>11, <1>12, <1>13, <2>1 DEF MarkedInside
  <1>15. ASSUME NEW x \in Entities
         PROVE  /\ broken[x] \subseteq broken'[x]
                /\ \A f \in broken'[x] : f \in broken[x] \/ f[1] \in EntityKinds
    <2>1. \A f : f \in noted \/ f \in unknown => f[1] \in EntityKinds
      BY <1>4 DEF EntityKinds
    <2> QED BY <1>2, <1>8, <2>1
  <1> QED BY <1>14, <1>15

LEMMA CloseMarks ==
    ASSUME Orderly, Pathed, MarkedInside, NEW e \in Entities, Close(e)
    PROVE  /\ MarkedInside'
           /\ \A x \in Entities : /\ broken[x] \subseteq broken'[x]
                                  /\ \A f \in broken'[x] : f \in broken[x] \/ f[1] \in EntityKinds
  <1> DEFINE n == Len(marking)
             above == marking[n - 1]
             error == failing[e]
  <1>1. TypeOK /\ doc \in Corpus /\ doc' = doc /\ Entities \subseteq DOMAIN broken
    BY DEF Orderly, TypeOK, Close, Marked
  <1>2. /\ n \in Nat \ {0} /\ e \in ToSet(marking)
        /\ ToSet(marking) = ToSet(marking') \cup {e} /\ e \notin ToSet(marking')
        /\ attached' = attached /\ e \in attached /\ e \notin Closed
        /\ Closed' = Closed \cup {e} /\ Holds(e) \subseteq Closed
        /\ n = 1 <=> marking' = <<>>
        /\ n # 1 => e \in Holds(above) /\ Last(marking') = above
    BY ClosePath
  <1>3. /\ broken' = Mark(broken, {e}, error)
        /\ IF marking' # <<>> THEN failing' = [failing EXCEPT ![Last(marking')] = @ \cup error]
           ELSE failing' = failing
    BY DEF Close
  <1>4. ToSet(marking) \subseteq Entities /\ DOMAIN failing = Entities
    BY <1>1, EveryElement DEF TypeOK
  <1>5. Within(e) = Below[e] /\ Below[e] \subseteq attached
    <2>1. \A c \in Holds(e) : Below[c] \subseteq Closed
      BY <1>2, ClosedBelow
    <2>2. \A x : x \in Within(e) <=> x \in Below[e]
      BY <1>2, BelowSplit DEF Within
    <2> QED BY <1>2, <2>1, <2>2, BelowSplit DEF Closed
  <1>6. \A f : f \in error <=> Fails(f, e)
    BY <1>2 DEF MarkedInside
  <1>7. \A f \in error : f[1] \in EntityKinds
    BY <1>6 DEF Fails, EntityKinds
  <1> HIDE DEF n
  <1>8. /\ \A x \in Entities : x # e => broken'[x] = broken[x]
        /\ broken'[e] = broken[e] \cup error
    BY <1>1, <1>3, MarkFacts
  <1>9. ASSUME NEW x \in Closed', NEW f
        PROVE  f \in broken'[x] /\ f[1] \in EntityKinds <=> Mine(f, x)'
    <2>1. Mine(f, x)' <=> Mine(f, x)
      BY <1>1 DEF Mine
    <2>2. CASE x # e
      <3>1. x \in Closed /\ x \in Entities
        BY <1>1, <1>2, <2>2 DEF Closed, TypeOK
      <3> QED BY <1>8, <2>1, <2>2, <3>1 DEF MarkedInside
    <2>3. CASE x = e
      <3>1. f \in broken[e] /\ f[1] \in EntityKinds <=> Noted(f, e)
        BY <1>2 DEF MarkedInside
      <3>2. Mine(f, e) <=> Noted(f, e) \/ Fails(f, e)
        BY <1>1, <1>5, FaultsTyped DEF Mine, Noted, Fails
      <3> QED BY <1>6, <1>7, <1>8, <2>1, <2>3, <3>1, <3>2
    <2> QED BY <2>2, <2>3
  <1>10. ASSUME NEW q \in ToSet(marking'), NEW f PROVE f \in failing'[q] <=> Fails(f, q)'
    <2>1. n # 1 /\ q \in ToSet(marking) /\ q \in Entities /\ q # e
      BY <1>2, <1>4 DEF ToSet
    <2>2. above \in ToSet(marking') /\ above \in Entities
      <3>1. marking' \in Seq(Entities) /\ marking' # <<>> /\ Last(marking') = above
        BY <1>1, <1>2, <2>1, ClosePath
      <3>2. Last(marking') \in ToSet(marking')
        BY <3>1, LastSet
      <3> QED BY <1>2, <1>4, <3>1, <3>2
    <2>3. failing' = [failing EXCEPT ![above] = @ \cup error]
      BY <1>2, <1>3, <2>1
    <2>4. f \in failing[q] <=> Fails(f, q)
      BY <2>1 DEF MarkedInside
    <2> HIDE DEF error, above
    <2>5. CASE q # above
      <3>1. e \notin Holds(q)
        BY <1>2, <2>1, <2>2, <2>5, TreeFacts
      <3>2. Fails(f, q)' <=> Fails(f, q)
        BY <1>1, <1>2, <3>1 DEF Fails, Within
      <3> QED BY <1>4, <2>1, <2>2, <2>3, <2>4, <2>5, <3>2
    <2>6. CASE q = above
      <3>1. \A x : x \in Within(q)' <=> x \in Within(q) \/ x \in Within(e)
        BY <1>2, <1>5, <2>1, <2>6 DEF Within
      <3>2. Fails(f, q)' <=> Fails(f, q) \/ Fails(f, e)
        BY <1>1, <3>1 DEF Fails
      <3> QED BY <1>4, <1>6, <2>1, <2>2, <2>3, <2>4, <2>6, <3>2
    <2> QED BY <2>5, <2>6
  <1>11. ASSUME NEW q \in ToSet(marking'), NEW f
         PROVE  f \in broken'[q] /\ f[1] \in EntityKinds <=> Noted(f, q)'
    <2>1. q \in ToSet(marking) /\ q \in Entities /\ q # e
      BY <1>2, <1>4
    <2>2. Noted(f, q)' <=> Noted(f, q)
      BY <1>1, <1>2 DEF Noted
    <2> QED BY <1>8, <2>1, <2>2 DEF MarkedInside
  <1> HIDE DEF error
  <1>12. ASSUME NEW x \in Entities \ attached'
         PROVE  \A f \in broken'[x] : f[1] \notin EntityKinds
    BY <1>2, <1>8 DEF MarkedInside
  <1>13. MarkedInside'
    BY <1>9, <1>10, <1>11, <1>12 DEF MarkedInside
  <1>14. ASSUME NEW x \in Entities
         PROVE  /\ broken[x] \subseteq broken'[x]
                /\ \A f \in broken'[x] : f \in broken[x] \/ f[1] \in EntityKinds
    BY <1>7, <1>8
  <1> QED BY <1>13, <1>14

(* Being registered marks with nothing but duplicates.                     *)
LEMMA ReturnMarks ==
    ASSUME Orderly, Return
    PROVE  /\ attached' = attached /\ marking' = marking /\ failing' = failing
           /\ \A x \in Entities : /\ broken[x] \subseteq broken'[x]
                                  /\ \A f \in broken'[x] : f \in broken[x] \/ f[1] = "duplicate"
  <1> DEFINE n == Len(walk)
             frame == walk[n]
             at == {frame.at}
             failure == frame.failure
  <1>1. TypeOK /\ Ordered /\ Entities \subseteq DOMAIN broken
    BY DEF Orderly, TypeOK, Marked
  <1>2. /\ frame \in Frames /\ UNCHANGED decoding
        /\ broken' = broken \/ broken' = Mark(broken, at, failure)
    BY <1>1, ReturnWalk
  <1>3. \A f \in failure : f[1] = "duplicate"
    BY <1>2 DEF Frames
  <1> HIDE DEF at, failure
  <1>4. \A x \in Entities : x \in DOMAIN broken
    BY <1>1
  <1> QED BY <1>2, <1>3, <1>4, MarkFacts DEF decoding

LEMMA MarkedInsideInit == Init => MarkedInside
  <1>1. ASSUME Init PROVE ToSet(marking) = {} /\ Closed = {} /\ \A x \in Entities : broken[x] = {}
    BY <1>1 DEF Init, ToSet, Closed, Marked
  <1> QED BY <1>1 DEF MarkedInside

LEMMA MarkedInsideNext ==
    ASSUME Orderly, Pathed, MarkedInside, [Next]_vars
    PROVE  MarkedInside'
  <1>1. doc' = doc /\ TypeOK
    BY DocStays DEF Orderly
  <1>2. ASSUME attached' = attached, marking' = marking, failing' = failing,
               \A x \in Entities :
                 /\ broken[x] \subseteq broken'[x]
                 /\ \A f \in broken'[x] : f \in broken[x] \/ f[1] \in {"scheme", "duplicate"}
        PROVE  MarkedInside'
    <2>1. Closed' = Closed /\ Closed \subseteq Entities /\ ToSet(marking) \subseteq Entities
      BY <1>1, <1>2, EveryElement DEF Closed, TypeOK
    <2>2. \A x \in Entities : \A f :
            f[1] \in EntityKinds => (f \in broken'[x] <=> f \in broken[x])
      BY <1>2 DEF EntityKinds
    <2>3. \A x, f : /\ Mine(f, x)' <=> Mine(f, x)
                    /\ Fails(f, x)' <=> Fails(f, x)
                    /\ Noted(f, x)' <=> Noted(f, x)
      BY <1>1, <1>2, <2>1 DEF Mine, Fails, Noted, Within
    <2>4. ToSet(marking)' = ToSet(marking)
      BY <1>2
    <2>5. \A e \in Closed : \A f : f \in broken'[e] /\ f[1] \in EntityKinds <=> Mine(f, e)
      BY <2>1, <2>2 DEF MarkedInside
    <2>6. \A e \in ToSet(marking) : \A f : f \in broken'[e] /\ f[1] \in EntityKinds <=> Noted(f, e)
      BY <2>1, <2>2 DEF MarkedInside
    <2>7. \A e \in Entities \ attached : \A f \in broken'[e] : f[1] \notin EntityKinds
      BY <2>2 DEF MarkedInside
    <2>8. \A e \in ToSet(marking) : \A f : f \in failing'[e] <=> Fails(f, e)
      BY <1>2 DEF MarkedInside
    <2> QED BY <1>2, <2>1, <2>3, <2>4, <2>5, <2>6, <2>7, <2>8 DEF MarkedInside
  <1>3. CASE Return
    BY <1>2, <1>3, ReturnMarks
  <1>4. ASSUME NEW e \in Entities, Open(e) \/ Close(e) PROVE MarkedInside'
    BY <1>4, OpenMarks, CloseMarks
  <1>5. CASE ~Return /\ \A e \in Entities : ~Open(e) /\ ~Close(e)
    BY <1>2, <1>5, EntityMarks
  <1> QED BY <1>3, <1>4, <1>5

(* What two entities that one holds hold is apart.                         *)
LEMMA SiblingsApart ==
    ASSUME NEW e \in Entities, NEW c \in Holds(e), NEW d \in Holds(e), c # d
    PROVE  Below[c] \cap Below[d] = {}
  <1>1. c \in Entities /\ d \in Entities /\ c \notin Below[d] /\ d \notin Below[c]
    BY TreeFacts, HeldApart
  <1> DEFINE S == Below[c] \ Below[d]
  <1>2. S \subseteq Entities /\ c \in S
    BY <1>1, BelowLeast
  <1>3. ASSUME NEW x \in S, NEW y \in Holds(x) PROVE y \in S
    <2>1. x \in Entities /\ y \in Entities /\ y \in Below[c]
      BY <1>1, <1>3, BelowLeast, TreeFacts DEF IsClosed
    <2>2. y # d
      BY <1>1, <2>1
    <2> QED BY <1>1, <2>1, <2>2, BelowHolder
  <1>4. IsClosed(S)
    BY <1>3 DEF IsClosed
  <1>5. Below[c] \subseteq S
    <2> HIDE DEF S
    <2> QED BY <1>1, <1>2, <1>4, BelowLeast
  <1> QED BY <1>5

(* The resources below a resource are those below the ones nested in it.   *)
LEMMA ResourcesBelow ==
    ASSUME NEW r \in Resources
    PROVE  /\ ToSet(Nested[r]) \subseteq Holds(r) /\ ToSet(Nested[r]) \subseteq Resources
           /\ \A x \in Resources :
                x \in Below[r] <=> x = r \/ \E c \in ToSet(Nested[r]) : x \in Below[c]
  <1>1. /\ r \in Entities /\ Holds(r) = ToSet(OperationsOf[r]) \cup ToSet(Nested[r])
        /\ ToSet(OperationsOf[r]) \subseteq Operations /\ ToSet(Nested[r]) \subseteq Resources
    BY ResourceHolds DEF Entities
  <1>2. ASSUME NEW o \in Operations, NEW x \in Resources PROVE x \notin Below[o]
    <2> DEFINE S == Operations \cup Responses
    <2>1. o \in S /\ o \in Entities /\ S \in SUBSET Entities
      BY DEF Entities
    <2>2. IsClosed(S)
      <3>1. ASSUME NEW y \in S PROVE Holds(y) \subseteq S
        <4>1. CASE y \in Operations
          <5>1. Children[y] = ResponsesOf[y] /\ ResponsesOf[y] \in Seq(Responses)
            BY <4>1, KindsAssumption, TreeAssumption DEF Children, Entities
          <5> QED BY <5>1, EveryElement DEF Holds
        <4>2. CASE y \in Responses
          <5>1. Children[y] = <<>>
            BY <4>2, KindsAssumption DEF Children, Entities
          <5> QED BY <5>1 DEF Holds, ToSet
        <4> QED BY <4>1, <4>2
      <3> QED BY <3>1 DEF IsClosed
    <2>3. x \notin S
      BY KindsAssumption
    <2> HIDE DEF S
    <2> QED BY <2>1, <2>2, <2>3, BelowLeast
  <1> QED BY <1>1, <1>2, BelowSplit

-----------------------------------------------------------------------------
(* Registering.  The walk is a path from the resource of the API whose     *)
(* turn it is; those to come are untouched, and those behind are marked as *)
(* they should be.                                                         *)
Twice(r) == {f \in broken[r] : f[1] = "duplicate"}
Losers(r) == (Below[r] \cap Resources) \ ToSet(endpoints)
Untouched(c) ==
    \A r \in Resources \cap Below[c] : r \notin ToSet(endpoints) /\ Twice(r) = {}
Settled(c, t) ==
    \A r \in Resources \cap Below[c] :
        IF t \in ToSet(endpoints) THEN Twice(r) # {} <=> Losers(r) # {}
        ELSE r \notin ToSet(endpoints) /\ Twice(r) = {}
Behind(k) ==
    {c \in ToSet(Nested[walk[k].at]) \ ToSet(walk[k].rest) :
        k = Len(walk) \/ c # walk[k + 1].at}

Current(t) == walk # <<>> /\ (walk[1].rest = <<t>> \/ (Len(walk) >= 2 /\ walk[2].at = t))

Walked ==
    /\ walk # <<>> => /\ ~walk[1].held /\ walk[1].register
                      /\ walk[1].rest = <<>> \/ \E t \in Tops \cap Closed : walk[1].rest = <<t>>
    /\ Len(walk) >= 2 => walk[1].rest = <<>> /\ walk[2].at \in Tops \cap Closed
    /\ \A k \in 2..(Len(walk) - 1) :
         walk[k + 1].at \in ToSet(Nested[walk[k].at]) \ ToSet(walk[k].rest)
    /\ \A k \in 2..Len(walk) :
         ToSet(walk[k].rest) \subseteq ToSet(Nested[walk[k].at]) /\ IsInjective(walk[k].rest)

(* A frame, of a resource below the resource t of the API.                 *)
FrameMarked(k, a, t) ==
    /\ Twice(a) = {}
    /\ walk[k].held = (t \in ToSet(endpoints)) /\ walk[k].register = (t \in ToSet(endpoints))
    /\ \A c \in ToSet(walk[k].rest) : Untouched(c)
    /\ \A c \in Behind(k) : Settled(c, t)
    /\ IF t \in ToSet(endpoints)
       THEN walk[k].failure # {} <=> a \notin ToSet(endpoints) \/ \E c \in Behind(k) : Losers(c) # {}
       ELSE a \notin ToSet(endpoints)

WalkMarked ==
    /\ \A t \in Tops : t \notin Closed \/ (walk # <<>> /\ walk[1].rest = <<t>>) => Untouched(t)
    /\ \A t \in Tops \cap Closed : ~Current(t) => Settled(t, t)
    /\ \A k \in 2..Len(walk) : \A a \in Resources, t \in Tops :
         walk[k].at = a /\ walk[2].at = t => FrameMarked(k, a, t)

LEMMA RegionStays ==
    ASSUME NEW c \in Entities,
           \A x \in Resources \cap Below[c] :
               (x \in ToSet(endpoints') <=> x \in ToSet(endpoints)) /\ Twice(x)' = Twice(x)
    PROVE  /\ Untouched(c)' <=> Untouched(c)
           /\ Losers(c)' = Losers(c)
           /\ \A t : (t \in ToSet(endpoints') <=> t \in ToSet(endpoints)) =>
                       (Settled(c, t)' <=> Settled(c, t))
  <1>1. ASSUME NEW x \in Below[c] PROVE Losers(x)' = Losers(x)
    <2>1. Below[x] \subseteq Below[c]
      BY BelowWithin
    <2> QED BY <2>1 DEF Losers
  <1>2. Losers(c)' = Losers(c)
    BY <1>1, BelowLeast
  <1>3. Untouched(c)' <=> Untouched(c)
    BY DEF Untouched
  <1>4. ASSUME NEW t, t \in ToSet(endpoints') <=> t \in ToSet(endpoints)
        PROVE  Settled(c, t)' <=> Settled(c, t)
    BY <1>1, <1>4 DEF Settled
  <1> QED BY <1>2, <1>3, <1>4

(* What is walked last stands below all that is being walked.              *)
LEMMA WalkAbove ==
    ASSUME Orderly, Walked, NEW n \in 2..Len(walk), NEW m \in 2..n
    PROVE  walk[n].at \in Below[walk[m].at]
  <1> DEFINE Not == {k \in Nat : k \in m..Len(walk) /\ walk[k].at \notin Below[walk[m].at]}
  <1>1. /\ \A i \in 2..Len(walk) : walk[i].at \in Resources /\ walk[i].at \in Entities
        /\ Len(walk) \in Nat
    BY LenProperties DEF Orderly, Ordered, TypeOK, Entities
  <1>2. ASSUME NEW k \in Not PROVE \E j \in Not : ~(k <= j)
    <2>1. k \in m..Len(walk) /\ k \in Nat /\ walk[k].at \notin Below[walk[m].at]
      OBVIOUS
    <2>2. m \in 2..Len(walk)
      BY <1>1
    <2>3. k # m
      BY <1>1, <2>1, <2>2, BelowLeast
    <2>4. /\ k - 1 \in Nat /\ k - 1 \in m..Len(walk) /\ ~(k <= k - 1) /\ (k - 1) + 1 = k
          /\ k - 1 \in 2..(Len(walk) - 1) /\ k - 1 \in 2..Len(walk)
      BY <1>1, <2>1, <2>3
    <2>5. walk[k].at \in ToSet(Nested[walk[k - 1].at])
      BY <2>4 DEF Walked
    <2>6. walk[k].at \in Holds(walk[k - 1].at)
      BY <1>1, <2>4, <2>5, ResourcesBelow
    <2>7. walk[k - 1].at \notin Below[walk[m].at]
      BY <1>1, <2>1, <2>2, <2>4, <2>6, BelowLeast DEF IsClosed
    <2> QED BY <2>4, <2>7
  <1>3. Not = {}
    <2>1. Not \in SUBSET Nat
      OBVIOUS
    <2> HIDE DEF Not
    <2> QED BY <1>2, <2>1, LeastNumber
  <1>4. n \in Nat /\ n \in m..Len(walk)
    BY <1>1
  <1> QED BY <1>3, <1>4

(* The frames after the two steps, field by field.                         *)
LEMMA VisitFrames ==
    ASSUME Orderly, Walked, NEW r \in Resources, Visit(r)
    PROVE  \E duplicate \in {{}, {<<"duplicate", r>>}} :
             LET n == Len(walk)
             IN /\ n \in Nat \ {0} /\ r \in ToSet(walk[n].rest) /\ walk' # <<>> /\ walk # <<>>
                /\ Len(walk') = n + 1
                /\ \A k \in 1..n : /\ walk'[k].at = walk[k].at /\ walk'[k].held = walk[k].held
                                   /\ walk'[k].register = walk[k].register
                                   /\ walk'[k].failure = walk[k].failure
                                   /\ ToSet(walk'[k].rest) = ToSet(walk[k].rest) \ {x \in {r} : k = n}
                                   /\ k # n => walk'[k].rest = walk[k].rest
                                   /\ IsInjective(walk[k].rest) => IsInjective(walk'[k].rest)
                /\ walk'[n + 1].at = r /\ walk'[n + 1].rest = Nested[r]
                /\ walk'[n + 1].failure = duplicate
                /\ walk'[n + 1].held = (walk[n].held \/ (duplicate = {} /\ walk[n].register))
                /\ walk'[n + 1].register = (walk[n].register /\ (duplicate = {} \/ walk[n].held))
                /\ ToSet(endpoints') = ToSet(endpoints) \cup
                                         {x \in {r} : duplicate = {} /\ walk[n].register}
                /\ n = 1 => walk[1].rest = <<r>> /\ walk'[1].rest = <<>>
                /\ UNCHANGED <<decoding, broken>>
  <1> DEFINE n == Len(walk)
             above == walk[n]
  <1>1. TypeOK /\ Ordered
    BY DEF Orderly
  <1> DEFINE Is(duplicate) ==
             LET first == duplicate = {} /\ above.register
             IN /\ n \in Nat \ {0} /\ above \in Frames
                /\ above.rest # <<>> /\ r = Head(above.rest)
                /\ walk' \in Seq(Frames) /\ Len(walk') = n + 1
                /\ \A k \in 1..n : k # n => walk'[k] = walk[k]
                /\ walk'[n] = [above EXCEPT !.rest = Tail(@)]
                /\ walk'[n + 1] =
                     [at |-> r, held |-> above.held \/ first,
                      register |-> IF duplicate = {} THEN above.register
                                   ELSE above.register /\ above.held,
                      failure |-> duplicate, rest |-> Nested[r]]
                /\ endpoints' = IF first THEN Append(endpoints, r) ELSE endpoints
                /\ UNCHANGED <<decoding, broken>>
  <1>2. PICK duplicate \in {{}, {<<"duplicate", r>>}} : Is(duplicate)
    BY <1>1, VisitWalk
  <1>3. /\ n \in Nat \ {0} /\ n \in 1..n /\ above \in Frames /\ above.rest # <<>>
        /\ r = Head(above.rest) /\ above.rest \in Seq(Resources)
        /\ above.held \in BOOLEAN /\ above.register \in BOOLEAN
    BY <1>2 DEF Frames
  <1>4. /\ r \in ToSet(above.rest)
        /\ IsInjective(above.rest) =>
             IsInjective(Tail(above.rest)) /\ ToSet(Tail(above.rest)) = ToSet(above.rest) \ {r}
    <2> DEFINE rest == above.rest
    <2> HIDE DEF above
    <2>1. ToSet(rest) = {r} \cup ToSet(Tail(rest))
      BY <1>3, TailSet
    <2>2. IsInjective(rest) => IsInjective(Tail(rest)) /\ r \notin ToSet(Tail(rest))
      BY <1>3, HeadApart
    <2> QED BY <2>1, <2>2
  <1>5. IsInjective(above.rest) /\ (n = 1 => above.rest = <<r>>)
    <2>1. CASE n = 1
      <3>1. walk # <<>>
        BY <1>3, <2>1, EmptySeq
      <3>2. PICK t : above.rest = <<t>>
        BY <1>3, <2>1, <3>1 DEF Walked
      <3>3. Head(above.rest) = t /\ IsInjective(<<t>>)
        BY <3>2 DEF IsInjective
      <3> QED BY <1>3, <3>2, <3>3
    <2>2. CASE n # 1
      <3>1. n \in 2..n
        <4> HIDE DEF n, above
        <4> QED BY <1>3, <2>2
      <3> QED BY <2>2, <3>1 DEF Walked
    <2> QED BY <2>1, <2>2
  <1>6. /\ walk'[n].at = above.at /\ walk'[n].held = above.held
        /\ walk'[n].register = above.register /\ walk'[n].failure = above.failure
        /\ walk'[n].rest = Tail(above.rest)
    BY <1>2 DEF Frames
  <1>7. /\ walk'[n + 1].at = r /\ walk'[n + 1].rest = Nested[r]
        /\ walk'[n + 1].failure = duplicate
        /\ walk'[n + 1].held = (above.held \/ (duplicate = {} /\ above.register))
        /\ walk'[n + 1].register = (above.register /\ (duplicate = {} \/ above.held))
    <2>1. /\ walk'[n + 1].at = r /\ walk'[n + 1].rest = Nested[r]
          /\ walk'[n + 1].failure = duplicate
          /\ walk'[n + 1].held = (above.held \/ (duplicate = {} /\ above.register))
          /\ walk'[n + 1].register = IF duplicate = {} THEN above.register
                                     ELSE above.register /\ above.held
      BY <1>2
    <2> QED BY <1>3, <2>1
  <1>8. ToSet(endpoints') = ToSet(endpoints) \cup {x \in {r} : duplicate = {} /\ above.register}
    <2>1. endpoints \in Seq(Resources)
      BY <1>1 DEF TypeOK
    <2>2. ToSet(Append(endpoints, r)) = ToSet(endpoints) \cup {r}
      BY <2>1, AppendSet
    <2>3. CASE duplicate = {} /\ above.register
      BY <1>2, <2>2, <2>3
    <2>4. CASE ~(duplicate = {} /\ above.register)
      BY <1>2, <2>4
    <2> QED BY <2>3, <2>4
  <1>9. /\ Len(walk') = n + 1 /\ UNCHANGED <<decoding, broken>>
        /\ \A k \in 1..n : k # n => walk'[k] = walk[k]
    BY <1>2
  <1>10. walk # <<>> /\ walk' # <<>>
    <2>1. walk' \in Seq(Frames) /\ walk \in Seq(Frames)
      BY <1>1, <1>2 DEF TypeOK
    <2>2. Len(walk) # 0 /\ Len(walk') # 0
      BY <1>3, <1>9
    <2> QED BY <2>1, <2>2, EmptySeq
  <1>11. n = 1 => walk[1].rest = <<r>> /\ walk'[1].rest = <<>>
    <2>1. Tail(<<r>>) = <<>>
      OBVIOUS
    <2> QED BY <1>5, <1>6, <2>1
  <1> HIDE DEF n, above
  <1>12. ASSUME NEW k \in 1..n
         PROVE  /\ walk'[k].at = walk[k].at /\ walk'[k].held = walk[k].held
                /\ walk'[k].register = walk[k].register
                /\ walk'[k].failure = walk[k].failure
                /\ ToSet(walk'[k].rest) = ToSet(walk[k].rest) \ {x \in {r} : k = n}
                /\ k # n => walk'[k].rest = walk[k].rest
                /\ IsInjective(walk[k].rest) => IsInjective(walk'[k].rest)
    <2>1. CASE k = n
      BY <1>4, <1>5, <1>6, <2>1 DEF above
    <2>2. CASE k # n
      BY <1>9, <2>2
    <2> QED BY <2>1, <2>2
  <1> QED BY <1>3, <1>4, <1>7, <1>8, <1>9, <1>10, <1>11, <1>12 DEF n, above

LEMMA ReturnFrames ==
    ASSUME Orderly, Return
    PROVE  LET n == Len(walk)
           IN /\ n \in Nat \ {0} /\ walk # <<>> /\ walk[n].rest = <<>>
              /\ n = 1 => walk' = <<>> /\ broken' = broken
              /\ n # 1 =>
                   /\ walk' # <<>> /\ Len(walk') = n - 1
                   /\ \A k \in 1..(n - 1) :
                        /\ walk'[k].at = walk[k].at /\ walk'[k].held = walk[k].held
                        /\ walk'[k].register = walk[k].register /\ walk'[k].rest = walk[k].rest
                        /\ walk'[k].failure # {} <=>
                             walk[k].failure # {} \/ (k = n - 1 /\ walk[n].failure # {})
                   /\ \A x \in Resources :
                        Twice(x)' = Twice(x) \cup
                            {f \in walk[n].failure : walk[n].held /\ x = walk[n].at}
              /\ UNCHANGED <<decoding, endpoints>>
  <1> DEFINE n == Len(walk)
             frame == walk[n]
  <1>1. TypeOK /\ Ordered /\ Resources \subseteq DOMAIN broken
    BY DEF Orderly, TypeOK, Marked, Entities
  <1>2. /\ n \in Nat \ {0} /\ frame \in Frames /\ frame.rest = <<>> /\ step = "walk"
        /\ n = 1 => walk' = <<>> /\ broken' = broken
        /\ n # 1 =>
             /\ Len(walk') = n - 1 /\ walk' # <<>>
             /\ \A k \in 1..(n - 1) : k # n - 1 => walk'[k] = walk[k]
             /\ walk[n - 1] \in Frames
             /\ walk'[n - 1] = [walk[n - 1] EXCEPT !.failure = IF @ = {} THEN frame.failure ELSE @]
             /\ broken' = IF frame.held THEN Mark(broken, {frame.at}, frame.failure) ELSE broken
        /\ UNCHANGED <<decoding, endpoints>>
    BY <1>1, ReturnWalk
  <1>3. walk # <<>>
    BY <1>1, <1>2 DEF Ordered
  <1>4. ASSUME n # 1
        PROVE  /\ walk'[n - 1].at = walk[n - 1].at /\ walk'[n - 1].held = walk[n - 1].held
               /\ walk'[n - 1].register = walk[n - 1].register
               /\ walk'[n - 1].rest = walk[n - 1].rest
               /\ walk'[n - 1].failure # {} <=> walk[n - 1].failure # {} \/ frame.failure # {}
    BY <1>2, <1>4 DEF Frames
  <1>5. ASSUME n # 1, NEW x \in Resources
        PROVE  Twice(x)' = Twice(x) \cup {f \in frame.failure : frame.held /\ x = frame.at}
    <2>1. \A f \in frame.failure : f[1] = "duplicate"
      BY <1>2 DEF Frames
    <2> DEFINE only == {frame.at}
               failure == frame.failure
    <2>2. broken' = IF frame.held THEN Mark(broken, only, failure) ELSE broken
      BY <1>2, <1>5
    <2>3. x \in DOMAIN broken
      BY <1>1
    <2>4. x \in only <=> x = frame.at
      OBVIOUS
    <2> HIDE DEF frame, only, failure
    <2>5. broken'[x] = IF frame.held /\ x \in only THEN broken[x] \cup failure ELSE broken[x]
      <3>1. CASE frame.held
        <4>1. broken' = Mark(broken, only, failure)
          BY <2>2, <3>1
        <4>2. /\ x \in only => Mark(broken, only, failure)[x] = broken[x] \cup failure
              /\ x \notin only => Mark(broken, only, failure)[x] = broken[x]
          BY <2>3, MarkFacts
        <4> QED BY <3>1, <4>1, <4>2
      <3>2. CASE ~frame.held
        BY <2>2, <3>2
      <3> QED BY <3>1, <3>2
    <2> QED BY <2>1, <2>4, <2>5 DEF Twice, failure
  <1> HIDE DEF n, frame
  <1>6. ASSUME n # 1, NEW k \in 1..(n - 1)
        PROVE  /\ walk'[k].at = walk[k].at /\ walk'[k].held = walk[k].held
               /\ walk'[k].register = walk[k].register /\ walk'[k].rest = walk[k].rest
               /\ walk'[k].failure # {} <=>
                    walk[k].failure # {} \/ (k = n - 1 /\ frame.failure # {})
    <2>1. CASE k = n - 1
      BY <1>4, <1>6, <2>1
    <2>2. CASE k # n - 1
      BY <1>2, <1>6, <2>2
    <2> QED BY <2>1, <2>2
  <1> QED BY <1>2, <1>3, <1>5, <1>6 DEF n, frame

(* Where the resource that is registered stands.                           *)
LEMMA VisitPlace ==
    ASSUME Orderly, Walked, NEW r \in Resources, Visit(r)
    PROVE  LET n == Len(walk)
           IN \E t \in Tops \cap Closed :
                /\ walk'[2].at = t /\ r \in Below[t]
                /\ n = 1 => r = t /\ walk[1].rest = <<t>>
                /\ n # 1 => walk[2].at = t /\ r # t /\ walk[1].rest = <<>>
                            /\ walk[n].at \in Resources /\ r \in Holds(walk[n].at)
  <1> DEFINE n == Len(walk)
  <1>1. PICK duplicate :
          /\ n \in Nat \ {0} /\ r \in ToSet(walk[n].rest) /\ walk # <<>>
          /\ \A k \in 1..n : walk'[k].at = walk[k].at
          /\ walk'[n + 1].at = r
          /\ n = 1 => walk[1].rest = <<r>>
    BY VisitFrames
  <1>2. CASE n = 1
    <2>1. walk[1].rest # <<>> /\ walk[1].rest = <<r>> /\ walk'[2].at = r
      BY <1>1, <1>2
    <2>2. PICK t \in Tops \cap Closed : walk[1].rest = <<t>>
      BY <1>1, <2>1 DEF Walked
    <2>3. t = r
      <3>1. <<t>>[1] = <<r>>[1]
        BY <2>1, <2>2
      <3> QED BY <3>1
    <2>4. r \in Below[r]
      BY BelowLeast DEF Entities
    <2> QED BY <1>2, <2>1, <2>2, <2>3, <2>4
  <1>3. CASE n # 1
    <2>1. n \in 2..n /\ 2 \in 2..n /\ 2 \in 1..n /\ n >= 2
      <3> HIDE DEF n
      <3> QED BY <1>1, <1>3
    <2>2. walk[2].at \in Tops \cap Closed /\ walk[1].rest = <<>>
      BY <2>1 DEF Walked
    <2>3. walk[n].at \in Resources
      BY <2>1 DEF Orderly, Ordered
    <2>4. r \in ToSet(Nested[walk[n].at])
      BY <1>1, <2>1 DEF Walked
    <2>5. r \in Holds(walk[n].at) /\ r \notin Tops
      <3>1. r \in Holds(walk[n].at)
        BY <2>3, <2>4, ResourcesBelow
      <3>2. walk[n].at \in Entities
        BY <2>3 DEF Entities
      <3> QED BY <3>1, <3>2, TreeFacts
    <2>6. r \in Below[walk[2].at]
      <3>1. walk[n].at \in Below[walk[2].at]
        BY <2>1, WalkAbove
      <3>2. walk[2].at \in Entities
        BY <2>2, TreeFacts
      <3> QED BY <2>5, <3>1, <3>2, BelowLeast DEF IsClosed
    <2> QED BY <1>1, <1>3, <2>1, <2>2, <2>3, <2>5, <2>6
  <1> QED BY <1>2, <1>3

(* Nothing to come, and nothing behind, holds it.                          *)
LEMMA VisitApart ==
    ASSUME Orderly, Walked, NEW r \in Resources, Visit(r),
           NEW k \in 2..Len(walk)
    PROVE  /\ Behind(k)' = Behind(k)
           /\ walk[k].at \in Resources /\ r \in Below[walk[k].at] /\ r # walk[k].at
           /\ \A c \in ToSet(walk'[k].rest) \cup Behind(k) : c \in Entities /\ r \notin Below[c]
  <1> DEFINE n == Len(walk)
             a == walk[k].at
             on == IF k = n THEN r ELSE walk[k + 1].at
  <1>1. PICK duplicate :
          /\ n \in Nat \ {0} /\ r \in ToSet(walk[n].rest) /\ Len(walk') = n + 1
          /\ \A j \in 1..n : /\ walk'[j].at = walk[j].at
                             /\ ToSet(walk'[j].rest) = ToSet(walk[j].rest) \ {x \in {r} : j = n}
          /\ walk'[n + 1].at = r
    BY VisitFrames
  <1>2. /\ k \in 2..n /\ k \in 1..n /\ n \in 2..n /\ k + 1 \in 1..(n + 1) /\ k # n + 1
        /\ n # 1 /\ k \in 2..n
        /\ k # n => k \in 2..(n - 1) /\ k + 1 \in 1..n /\ k + 1 \in 2..n
    <2>1. k \in 2..n
      OBVIOUS
    <2> HIDE DEF n
    <2> QED BY <1>1, <2>1
  <1>3. /\ a \in Resources /\ a \in Entities /\ walk[n].at \in Resources /\ walk[n].at \in Entities
        /\ k # n => walk[k + 1].at \in Resources
    BY <1>2 DEF Orderly, Ordered, Entities
  <1>4. /\ ToSet(walk[k].rest) \subseteq ToSet(Nested[a])
        /\ ToSet(walk[n].rest) \subseteq ToSet(Nested[walk[n].at])
        /\ k # n => walk[k + 1].at \in ToSet(Nested[a]) \ ToSet(walk[k].rest)
    BY <1>2 DEF Walked
  <1>5. walk'[k + 1].at = on
    BY <1>1, <1>2
  <1>6. on \in ToSet(Nested[a]) /\ on \notin ToSet(walk'[k].rest)
    BY <1>1, <1>2, <1>4
  <1>7. Behind(k)' = Behind(k)
    <2>1. ToSet(walk'[k].rest) = ToSet(walk[k].rest) \ {x \in {r} : k = n} /\ walk'[k].at = a
      BY <1>1, <1>2
    <2>2. Behind(k)' = {c \in ToSet(Nested[a]) \ ToSet(walk'[k].rest) : c # on}
      BY <1>1, <1>2, <1>5, <2>1 DEF Behind
    <2>3. CASE k = n
      BY <1>1, <2>1, <2>2, <2>3 DEF Behind
    <2>4. CASE k # n
      BY <2>1, <2>2, <2>4 DEF Behind
    <2> QED BY <2>3, <2>4
  <1>8. r \in Below[on] /\ on \in Entities
    <2>1. CASE k = n
      <3>1. r \in Entities
        BY DEF Entities
      <3> QED BY <2>1, <3>1, BelowLeast
    <2>2. CASE k # n
      <3>1. walk[n].at \in Below[walk[k + 1].at]
        BY <1>2, <2>2, WalkAbove
      <3>2. r \in Holds(walk[n].at)
        BY <1>1, <1>3, <1>4, ResourcesBelow
      <3>3. walk[k + 1].at \in Entities
        BY <1>3, <2>2 DEF Entities
      <3> QED BY <2>2, <3>1, <3>2, <3>3, BelowLeast DEF IsClosed
    <2> QED BY <2>1, <2>2
  <1> HIDE DEF n, on
  <1>9. on \in Holds(a) /\ \A c \in ToSet(Nested[a]) : c \in Holds(a) /\ c \in Entities
    BY <1>3, <1>6, ResourcesBelow, TreeFacts
  <1>10. \A c \in ToSet(walk'[k].rest) \cup Behind(k) : c \in ToSet(Nested[a]) /\ c # on
    <2>1. \A c \in ToSet(walk'[k].rest) : c \in ToSet(Nested[a]) /\ c # on
      BY <1>1, <1>2, <1>4, <1>6
    <2>2. \A c \in Behind(k) : c \in ToSet(Nested[a]) /\ c # on
      BY <1>1 DEF Behind, on, n
    <2> QED BY <2>1, <2>2
  <1>11. \A c \in ToSet(walk'[k].rest) \cup Behind(k) : c \in Entities /\ r \notin Below[c]
    <2> HIDE DEF a
    <2> QED BY <1>3, <1>8, <1>9, <1>10, SiblingsApart
  <1>12. r \in Below[a] /\ r # a
    <2> HIDE DEF a
    <2>1. a \notin Below[on]
      BY <1>3, <1>9, NoneBelowItself
    <2>2. on \in Below[a]
      BY <1>3, <1>9, BelowLeast DEF IsClosed
    <2> QED BY <1>3, <1>8, <2>1, <2>2, BelowWithin
  <1> QED BY <1>3, <1>7, <1>11, <1>12

LEMMA VisitWalked ==
    ASSUME Orderly, Walked, NEW r \in Resources, Visit(r)
    PROVE  Walked'
  <1> DEFINE n == Len(walk)
  <1>1. PICK duplicate :
          /\ n \in Nat \ {0} /\ r \in ToSet(walk[n].rest) /\ Len(walk') = n + 1 /\ walk # <<>>
          /\ \A k \in 1..n : /\ walk'[k].at = walk[k].at /\ walk'[k].held = walk[k].held
                             /\ walk'[k].register = walk[k].register
                             /\ ToSet(walk'[k].rest) = ToSet(walk[k].rest) \ {x \in {r} : k = n}
                             /\ k # n => walk'[k].rest = walk[k].rest
                             /\ IsInjective(walk[k].rest) => IsInjective(walk'[k].rest)
          /\ walk'[n + 1].at = r /\ walk'[n + 1].rest = Nested[r]
          /\ n = 1 => walk'[1].rest = <<>>
          /\ UNCHANGED decoding
    BY VisitFrames
  <1>2. PICK t \in Tops \cap Closed :
          /\ walk'[2].at = t /\ (n # 1 => walk[1].rest = <<>>)
    BY VisitPlace
  <1>3. Closed' = Closed
    BY <1>1 DEF decoding, Closed
  <1> HIDE DEF n
  <1>4. walk'[1].rest = <<>> /\ ~walk'[1].held /\ walk'[1].register
    <2>1. 1 \in 1..n /\ (n # 1 => 1 # n)
      BY <1>1
    <2>2. ~walk[1].held /\ walk[1].register
      BY <1>1 DEF Walked
    <2> QED BY <1>1, <1>2, <2>1, <2>2
  <1>5. ASSUME NEW k \in 2..(Len(walk') - 1)
        PROVE  walk'[k + 1].at \in ToSet(Nested[walk'[k].at]) \ ToSet(walk'[k].rest)
    <2>1. k \in 1..n /\ k \in 2..n /\ (k # n => k \in 2..(n - 1) /\ k + 1 \in 1..n)
      BY <1>1
    <2>2. ToSet(walk[k].rest) \subseteq ToSet(Nested[walk[k].at])
      BY <2>1 DEF Walked, n
    <2>3. CASE k = n
      BY <1>1, <2>1, <2>2, <2>3
    <2>4. CASE k # n
      <3>1. walk[k + 1].at \in ToSet(Nested[walk[k].at]) \ ToSet(walk[k].rest)
        BY <2>1, <2>4 DEF Walked, n
      <3> QED BY <1>1, <2>1, <2>4, <3>1
    <2> QED BY <2>3, <2>4
  <1>6. ASSUME NEW k \in 2..Len(walk')
        PROVE  ToSet(walk'[k].rest) \subseteq ToSet(Nested[walk'[k].at]) /\ IsInjective(walk'[k].rest)
    <2>1. k = n + 1 \/ (k \in 1..n /\ k \in 2..n)
      BY <1>1
    <2>2. CASE k = n + 1
      BY <1>1, <2>2, ResourceHolds
    <2>3. CASE k \in 1..n /\ k \in 2..n
      <3>1. ToSet(walk[k].rest) \subseteq ToSet(Nested[walk[k].at]) /\ IsInjective(walk[k].rest)
        BY <2>3 DEF Walked, n
      <3> QED BY <1>1, <2>3, <3>1
    <2> QED BY <2>1, <2>2, <2>3
  <1> QED BY <1>2, <1>3, <1>4, <1>5, <1>6 DEF Walked

LEMMA ReturnWalked ==
    ASSUME Orderly, Walked, Return
    PROVE  Walked'
  <1> DEFINE n == Len(walk)
  <1>1. /\ n \in Nat \ {0} /\ walk # <<>>
        /\ n = 1 => walk' = <<>>
        /\ n # 1 =>
             /\ Len(walk') = n - 1
             /\ \A k \in 1..(n - 1) :
                  /\ walk'[k].at = walk[k].at /\ walk'[k].held = walk[k].held
                  /\ walk'[k].register = walk[k].register /\ walk'[k].rest = walk[k].rest
        /\ UNCHANGED decoding
    BY ReturnFrames
  <1>2. Closed' = Closed
    BY <1>1 DEF decoding, Closed
  <1>3. CASE n = 1
    <2>1. walk' = <<>> /\ Len(walk') = 0 /\ 2..Len(walk') = {} /\ 2..(Len(walk') - 1) = {}
      BY <1>1, <1>3
    <2> QED BY <2>1 DEF Walked
  <1>4. CASE n # 1
    <2>1. /\ 1 \in 1..(n - 1) /\ n >= 2
          /\ n - 1 >= 2 => 2 \in 1..(n - 1)
          /\ \A k \in 2..(n - 1) : k \in 1..(n - 1) /\ k \in 2..n
          /\ \A k \in 2..((n - 1) - 1) : k \in 1..(n - 1) /\ k \in 2..(n - 1) /\ k + 1 \in 1..(n - 1)
      BY <1>1, <1>4
    <2>2. ~walk[1].held /\ walk[1].register /\ walk[1].rest = <<>> /\ walk[2].at \in Tops \cap Closed
      BY <1>1, <2>1 DEF Walked
    <2>3. /\ ~walk'[1].held /\ walk'[1].register /\ walk'[1].rest = <<>>
          /\ n - 1 >= 2 => walk'[2].at \in Tops \cap Closed
      BY <1>1, <1>4, <2>1, <2>2
    <2>4. ASSUME NEW k \in 2..((n - 1) - 1)
          PROVE  walk'[k + 1].at \in ToSet(Nested[walk'[k].at]) \ ToSet(walk'[k].rest)
      <3>1. walk[k + 1].at \in ToSet(Nested[walk[k].at]) \ ToSet(walk[k].rest)
        BY <2>1 DEF Walked
      <3> HIDE DEF n
      <3> QED BY <1>1, <1>4, <2>1, <3>1
    <2>5. ASSUME NEW k \in 2..(n - 1)
          PROVE  ToSet(walk'[k].rest) \subseteq ToSet(Nested[walk'[k].at]) /\ IsInjective(walk'[k].rest)
      <3>1. ToSet(walk[k].rest) \subseteq ToSet(Nested[walk[k].at]) /\ IsInjective(walk[k].rest)
        BY <2>1 DEF Walked
      <3> HIDE DEF n
      <3> QED BY <1>1, <1>4, <2>1, <3>1
    <2> HIDE DEF n
    <2> QED BY <1>1, <1>2, <1>4, <2>3, <2>4, <2>5 DEF Walked
  <1> QED BY <1>3, <1>4

LEMMA CloseWalked ==
    ASSUME Orderly, Pathed, Walked, NEW e \in Entities, Close(e)
    PROVE  /\ Walked' /\ walk = <<>> /\ Closed' = Closed \cup {e} /\ e \notin Closed
           /\ endpoints' = endpoints
           /\ IF e \in Tops THEN walk' # <<>> /\ Len(walk') = 1 /\ walk'[1].rest = <<e>>
              ELSE walk' = <<>>
  <1> DEFINE frame == [at |-> API, held |-> FALSE, register |-> TRUE,
                       failure |-> {}, rest |-> <<e>>]
  <1>1. walk = <<>> /\ endpoints' = endpoints
    BY DEF Close, Orderly, Ordered
  <1>2. /\ Closed' = Closed \cup {e} /\ e \notin Closed
        /\ marking' = <<>> => e \in Tops
        /\ marking' # <<>> => e \notin Tops
    <2>1. LET n == Len(marking)
          IN /\ n \in Nat \ {0}
             /\ Closed' = Closed \cup {e} /\ e \notin Closed
             /\ n = 1 <=> marking' = <<>>
             /\ n = 1 => e \in Tops
             /\ n # 1 => e \in Holds(marking[n - 1])
      BY ClosePath
    <2> DEFINE n == Len(marking)
    <2>2. n # 1 => marking[n - 1] \in Entities
      <3>1. n # 1 => n - 1 \in 1..n
        <4>1. n \in Nat \ {0}
          BY <2>1
        <4> HIDE DEF n
        <4> QED BY <4>1
      <3>2. marking \in Seq(Entities)
        BY DEF Orderly, TypeOK
      <3> QED BY <3>1, <3>2, ElementOfSeq
    <2>3. n # 1 => e \notin Tops
      BY <2>1, <2>2, TreeFacts
    <2> QED BY <2>1, <2>3
  <1>3. CASE marking' # <<>>
    <2>1. walk' = walk
      BY <1>3 DEF Close
    <2>2. Len(walk') = 0 /\ 2..Len(walk') = {} /\ 2..(Len(walk') - 1) = {}
      BY <1>1, <2>1
    <2> QED BY <1>1, <1>2, <1>3, <2>1, <2>2 DEF Walked
  <1>4. CASE marking' = <<>>
    <2>1. walk' = <<frame>>
      BY <1>4 DEF Close
    <2>2. ~frame.held /\ frame.register /\ frame.rest = <<e>>
      OBVIOUS
    <2> HIDE DEF frame
    <2>3. walk' # <<>> /\ Len(walk') = 1 /\ walk'[1] = frame
      BY <2>1
    <2>4. 2..Len(walk') = {} /\ 2..(Len(walk') - 1) = {} /\ ~(Len(walk') >= 2)
      BY <2>3
    <2>5. Walked'
      BY <1>2, <1>4, <2>2, <2>3, <2>4 DEF Walked
    <2> QED BY <1>1, <1>2, <1>4, <2>2, <2>3, <2>5
  <1> QED BY <1>3, <1>4

(* The other steps leave the walk as it is.                                *)
LEMMA WalkStays ==
    ASSUME Orderly, Pathed, MarkedInside, [Next]_vars, ~Return,
           \A e \in Entities : ~Close(e), \A r \in Resources : ~Visit(r)
    PROVE  /\ walk' = walk /\ endpoints' = endpoints /\ Closed' = Closed
           /\ \A x \in Resources : Twice(x)' = Twice(x)
  <1>1. walk' = walk /\ endpoints' = endpoints
    BY DEF Next, vars, Whole, Sources, Open, Endpoints, Inherit, Bind, Secured, Finish, walking
  <1>2. Resources \subseteq Entities
    BY DEF Entities
  <1>3. ASSUME NEW e \in Entities, Open(e)
        PROVE  Closed' = Closed /\ \A x \in Resources : Twice(x)' = Twice(x)
    <2>1. Closed' = Closed
      BY <1>3, OpenPath
    <2>2. \A x \in Entities : /\ broken[x] \subseteq broken'[x]
                              /\ \A f \in broken'[x] : f \in broken[x] \/ f[1] \in EntityKinds
      BY <1>3, OpenMarks
    <2>3. \A x \in Entities : \A f : f \in Twice(x)' <=> f \in Twice(x)
      BY <2>2 DEF Twice, EntityKinds
    <2> QED BY <1>2, <2>1, <2>3
  <1>4. CASE \A e \in Entities : ~Open(e)
    <2>1. /\ attached' = attached /\ marking' = marking
          /\ \A x \in Entities : /\ broken[x] \subseteq broken'[x]
                                 /\ \A f \in broken'[x] : f \in broken[x] \/ f[1] = "scheme"
      BY <1>4, EntityMarks
    <2>2. \A x \in Entities : \A f : f \in Twice(x)' <=> f \in Twice(x)
      BY <2>1 DEF Twice
    <2> QED BY <1>1, <1>2, <2>1, <2>2 DEF Closed
  <1> QED BY <1>1, <1>3, <1>4

LEMMA WalkedNext ==
    ASSUME Orderly, Pathed, MarkedInside, Walked, [Next]_vars
    PROVE  Walked'
  <1>1. CASE \E r \in Resources : Visit(r)
    BY <1>1, VisitWalked
  <1>2. CASE Return
    BY <1>2, ReturnWalked
  <1>3. CASE \E e \in Entities : Close(e)
    BY <1>3, CloseWalked
  <1>4. CASE ~Return /\ (\A e \in Entities : ~Close(e)) /\ \A r \in Resources : ~Visit(r)
    <2>1. walk' = walk /\ Closed' = Closed
      BY <1>4, WalkStays
    <2> QED BY <2>1 DEF Walked
  <1> QED BY <1>1, <1>2, <1>3, <1>4

LEMMA VisitMarked ==
    ASSUME Orderly, Walked, WalkMarked, NEW r \in Resources, Visit(r)
    PROVE  WalkMarked'
  <1> DEFINE n == Len(walk)
             E == ToSet(endpoints)
             F == ToSet(endpoints')
  <1>1. PICK duplicate \in {{}, {<<"duplicate", r>>}} :
          /\ n \in Nat \ {0} /\ r \in ToSet(walk[n].rest) /\ walk' # <<>> /\ walk # <<>>
          /\ Len(walk') = n + 1
          /\ \A k \in 1..n : /\ walk'[k].at = walk[k].at /\ walk'[k].held = walk[k].held
                             /\ walk'[k].register = walk[k].register
                             /\ walk'[k].failure = walk[k].failure
                             /\ ToSet(walk'[k].rest) = ToSet(walk[k].rest) \ {x \in {r} : k = n}
          /\ walk'[n + 1].at = r /\ walk'[n + 1].rest = Nested[r]
          /\ walk'[n + 1].failure = duplicate
          /\ walk'[n + 1].held = (walk[n].held \/ (duplicate = {} /\ walk[n].register))
          /\ walk'[n + 1].register = (walk[n].register /\ (duplicate = {} \/ walk[n].held))
          /\ F = E \cup {x \in {r} : duplicate = {} /\ walk[n].register}
          /\ n = 1 => walk'[1].rest = <<>>
          /\ UNCHANGED <<decoding, broken>>
    BY VisitFrames
  <1>2. PICK t \in Tops \cap Closed :
          /\ walk'[2].at = t /\ r \in Below[t]
          /\ n = 1 => r = t /\ walk[1].rest = <<t>>
          /\ n # 1 => walk[2].at = t /\ r # t /\ walk[1].rest = <<>>
    BY VisitPlace
  <1>3. r \in Entities /\ t \in Entities /\ r \in Below[r]
    BY TreeFacts, BelowLeast DEF Entities
  <1>4. Closed' = Closed /\ \A x : Twice(x)' = Twice(x)
    BY <1>1 DEF decoding, Closed, Twice
  <1>5. /\ \A x : x # r => (x \in F <=> x \in E)
        /\ \A c \in Entities : r \notin Below[c] =>
             /\ Untouched(c)' <=> Untouched(c)
             /\ Losers(c)' = Losers(c)
             /\ \A u : u # r => (Settled(c, u)' <=> Settled(c, u))
    <2>1. \A x : x # r => (x \in F <=> x \in E)
      BY <1>1
    <2>2. ASSUME NEW c \in Entities, r \notin Below[c]
          PROVE  /\ Untouched(c)' <=> Untouched(c)
                 /\ Losers(c)' = Losers(c)
                 /\ \A u : (u \in F <=> u \in E) => (Settled(c, u)' <=> Settled(c, u))
      <3>1. \A x \in Resources \cap Below[c] : (x \in F <=> x \in E) /\ Twice(x)' = Twice(x)
        BY <1>4, <2>1, <2>2
      <3> QED BY <3>1, RegionStays
    <2> QED BY <2>1, <2>2
  <1>6. /\ n = 1 \/ (n # 1 /\ n \in 2..n /\ 2 \in 2..n /\ 2 \in 1..n)
        /\ \A k \in 2..(n + 1) : k = n + 1 \/ (k \in 2..n /\ k \in 1..n /\ n # 1)
        /\ n + 1 >= 2 /\ 1 \in 1..n
    <2> HIDE DEF n
    <2> QED BY <1>1
  <1>7. n # 1 => /\ walk[n].at \in Resources /\ FrameMarked(n, walk[n].at, t)
    <2>1. n # 1 => walk[n].at \in Resources
      BY <1>6 DEF Orderly, Ordered
    <2> QED BY <1>2, <1>6, <2>1 DEF WalkMarked
  <1>8. Untouched(r)
    <2>1. CASE n = 1
      BY <1>1, <1>2, <2>1 DEF WalkMarked
    <2>2. CASE n # 1
      BY <1>1, <1>7, <2>2 DEF FrameMarked
    <2> QED BY <2>1, <2>2
  <1>9. r \notin E /\ Twice(r) = {}
    BY <1>3, <1>8 DEF Untouched
  <1>10. walk'[1].rest = <<>>
    <2>1. n # 1 => walk'[1].rest = walk[1].rest
      <3>1. PICK x : n # 1 => walk'[1].rest = walk[1].rest
        BY <1>6, VisitFrames
      <3> QED BY <3>1
    <2> QED BY <1>1, <1>2, <2>1
  <1>11. /\ walk'[n + 1].held = (t \in F) /\ walk'[n + 1].register = (t \in F)
         /\ IF t \in F THEN duplicate # {} <=> r \notin F ELSE r \notin F
    <2> DEFINE held == walk[n].held
               register == walk[n].register
    <2>1. /\ walk'[n + 1].held = (held \/ (duplicate = {} /\ register))
          /\ walk'[n + 1].register = (register /\ (duplicate = {} \/ held))
      BY <1>1
    <2>2. r \in F <=> duplicate = {} /\ register
      <3>1. F = E \cup {x \in {r} : duplicate = {} /\ register}
        BY <1>1
      <3> HIDE DEF E, F, register
      <3> QED BY <1>9, <3>1
    <2>3. CASE n = 1
      <3>1. ~held /\ register /\ r = t
        BY <1>1, <1>2, <2>3 DEF Walked
      <3> HIDE DEF n, E, F, held, register
      <3> QED BY <2>1, <2>2, <3>1
    <2>4. CASE n # 1
      <3>1. held = (t \in E) /\ register = (t \in E) /\ r # t
        BY <1>2, <1>7, <2>4 DEF FrameMarked
      <3>2. t \in F <=> t \in E
        BY <1>5, <3>1
      <3> HIDE DEF n, E, F, held, register
      <3>3. CASE t \in E
        <4>1. held = TRUE /\ register = TRUE
          BY <3>1, <3>3
        <4> QED BY <2>1, <2>2, <3>2, <3>3, <4>1
      <3>4. CASE t \notin E
        <4>1. ~held /\ ~register
          BY <3>1, <3>4
        <4> QED BY <2>1, <2>2, <3>2, <3>4, <4>1
      <3> QED BY <3>3, <3>4
    <2> QED BY <2>3, <2>4
  <1>12. ASSUME NEW k, k = n + 1 PROVE FrameMarked(k, r, t)'
    <2>1. Behind(k)' = {}
      <3>1. k = Len(walk') /\ ToSet(Nested[walk'[k].at]) \ ToSet(walk'[k].rest) = {}
        BY <1>1, <1>12
      <3> QED BY <3>1 DEF Behind
    <2>2. ASSUME NEW c \in ToSet(Nested[r]) PROVE Untouched(c)'
      <3>1. c \in Entities /\ r \notin Below[c] /\ Below[c] \subseteq Below[r]
        <4>1. c \in Holds(r)
          BY ResourcesBelow
        <4>2. c \in Below[r]
          BY <1>3, <4>1, BelowLeast DEF IsClosed
        <4> QED BY <1>3, <4>1, <4>2, NoneBelowItself, BelowWithin
      <3>2. Untouched(c)
        BY <1>8, <3>1 DEF Untouched
      <3> QED BY <1>5, <3>1, <3>2
    <2>3. Twice(r)' = {}
      BY <1>4, <1>9
    <2>4. \A c \in ToSet(walk'[k].rest) : Untouched(c)'
      BY <1>1, <1>12, <2>2
    <2>5. /\ walk'[k].held = (t \in F) /\ walk'[k].register = (t \in F)
          /\ IF t \in F THEN walk'[k].failure # {} <=> r \notin F ELSE r \notin F
      BY <1>1, <1>11, <1>12
    <2> QED BY <2>1, <2>3, <2>4, <2>5 DEF FrameMarked, F
  <1>13. ASSUME NEW k \in 2..n, NEW a \in Resources, walk'[k].at = a PROVE FrameMarked(k, a, t)'
    <2>1. k \in 1..n /\ n # 1 /\ walk[k].at = a /\ walk[2].at = t /\ r # t
      BY <1>1, <1>2, <1>6, <1>13
    <2>2. FrameMarked(k, a, t)
      BY <2>1 DEF WalkMarked
    <2>3. /\ Behind(k)' = Behind(k) /\ r # a
          /\ \A c \in ToSet(walk'[k].rest) \cup Behind(k) : c \in Entities /\ r \notin Below[c]
      BY <2>1, VisitApart
    <2>4. (t \in F <=> t \in E) /\ (a \in F <=> a \in E)
      BY <1>5, <2>1, <2>3
    <2>5. Twice(a)' = {}
      BY <1>4, <2>2 DEF FrameMarked
    <2>6. ASSUME NEW c \in ToSet(walk'[k].rest) PROVE Untouched(c)'
      <3>1. c \in ToSet(walk[k].rest)
        BY <1>1, <2>1
      <3> QED BY <1>5, <2>2, <2>3, <3>1 DEF FrameMarked
    <2>7. ASSUME NEW c \in Behind(k) PROVE Settled(c, t)' /\ Losers(c)' = Losers(c)
      BY <1>5, <2>1, <2>2, <2>3 DEF FrameMarked
    <2>8. /\ walk'[k].held = walk[k].held /\ walk'[k].register = walk[k].register
          /\ walk'[k].failure = walk[k].failure
      BY <1>1, <2>1
    <2>9. /\ walk'[k].held = (t \in F) /\ walk'[k].register = (t \in F)
          /\ IF t \in F
             THEN walk'[k].failure # {} <=> a \notin F \/ \E c \in Behind(k) : Losers(c)' # {}
             ELSE a \notin F
      BY <2>2, <2>4, <2>7, <2>8 DEF FrameMarked
    <2> HIDE DEF n, E
    <2> QED BY <2>3, <2>5, <2>6, <2>7, <2>9 DEF FrameMarked, F
  <1>14. ASSUME NEW u \in Tops, u # t PROVE r \notin Below[u] /\ u # r /\ u \in Entities
    <2>1. Below[u] \cap Below[t] = {}
      BY <1>14, TopsApart
    <2>2. u \in Entities /\ u \in Below[u]
      BY TreeFacts, BelowLeast
    <2> QED BY <1>2, <2>1, <2>2
  <1>15. ASSUME NEW u \in Tops, u \notin Closed' \/ (walk' # <<>> /\ walk'[1].rest = <<u>>)
         PROVE  Untouched(u)'
    <2>1. u \notin Closed
      <3>1. <<u>> # <<>>
        OBVIOUS
      <3> QED BY <1>4, <1>10, <1>15, <3>1
    <2>2. u # t
      BY <2>1
    <2>3. Untouched(u)
      BY <2>1 DEF WalkMarked
    <2> QED BY <1>5, <1>14, <2>2, <2>3
  <1>16. ASSUME NEW u \in Tops \cap Closed, ~Current(u)' PROVE Settled(u, u)'
    <2>1. u # t
      <3>1. Len(walk') >= 2
        BY <1>1, <1>6
      <3> QED BY <1>1, <1>2, <1>16, <3>1 DEF Current
    <2>2. ~Current(u)
      <3>1. <<u>> # <<>> /\ (<<u>> = <<t>> => u = t)
        OBVIOUS
      <3>2. walk[1].rest # <<u>>
        BY <1>2, <2>1, <3>1
      <3>3. n >= 2 => walk[2].at # u
        BY <1>2, <2>1
      <3> QED BY <3>2, <3>3 DEF Current
    <2>3. Settled(u, u)
      BY <2>2 DEF WalkMarked
    <2> QED BY <1>5, <1>14, <2>1, <2>3
  <1>17. ASSUME NEW k \in 2..Len(walk'), NEW a \in Resources, NEW u \in Tops,
                walk'[k].at = a, walk'[2].at = u
         PROVE  FrameMarked(k, a, u)'
    <2>1. u = t /\ (k = n + 1 \/ k \in 2..n)
      BY <1>1, <1>2, <1>6, <1>17
    <2>2. CASE k = n + 1
      <3>1. a = r
        BY <1>1, <1>17, <2>2
      <3> QED BY <1>12, <2>1, <2>2, <3>1
    <2>3. CASE k \in 2..n
      BY <1>13, <1>17, <2>1, <2>3
    <2> QED BY <2>1, <2>2, <2>3
  <1> QED BY <1>4, <1>15, <1>16, <1>17 DEF WalkMarked

(* Nothing to come, and nothing behind, holds what is returned from.       *)
LEMMA ReturnApart ==
    ASSUME Orderly, Walked, Return, NEW k \in 2..(Len(walk) - 1),
           NEW a \in Resources, walk[Len(walk)].at = a
    PROVE  /\ \A c : c \in Behind(k)' <=> c \in Behind(k) \/ (k = Len(walk) - 1 /\ c = a)
           /\ walk[k].at \in Resources /\ a # walk[k].at
           /\ \A c \in ToSet(walk[k].rest) \cup Behind(k) : c \in Entities /\ a \notin Below[c]
  <1> DEFINE n == Len(walk)
             b == walk[k].at
             on == walk[k + 1].at
  <1>1. /\ n \in Nat \ {0}
        /\ n # 1 =>
             /\ Len(walk') = n - 1
             /\ \A j \in 1..(n - 1) : walk'[j].at = walk[j].at /\ walk'[j].rest = walk[j].rest
    BY ReturnFrames
  <1>2. /\ k \in 2..(n - 1) /\ k \in 2..n /\ k \in 1..(n - 1) /\ n # 1 /\ k # n
        /\ k + 1 \in 2..n /\ n \in 2..n
        /\ k # n - 1 => k + 1 \in 1..(n - 1)
        /\ k = n - 1 <=> k + 1 = n
    <2>1. k \in 2..(n - 1) /\ n \in Nat \ {0}
      BY <1>1
    <2> HIDE DEF n
    <2> QED BY <2>1
  <1>3. /\ b \in Resources /\ b \in Entities /\ on \in Resources /\ on \in Entities
        /\ a \in Entities
    BY <1>2 DEF Orderly, Ordered, Entities
  <1>4. /\ ToSet(walk[k].rest) \subseteq ToSet(Nested[b])
        /\ on \in ToSet(Nested[b]) \ ToSet(walk[k].rest)
    BY <1>2 DEF Walked
  <1>5. a \in Below[on]
    BY <1>2, WalkAbove
  <1>6. \A c : c \in Behind(k) <=> c \in ToSet(Nested[b]) /\ c \notin ToSet(walk[k].rest) /\ c # on
    BY <1>2 DEF Behind
  <1>7. \A c : c \in Behind(k)' <=> c \in Behind(k) \/ (k = n - 1 /\ c = a)
    <2>1. walk'[k].at = b /\ walk'[k].rest = walk[k].rest
      BY <1>1, <1>2
    <2>2. \A c : c \in Behind(k)' <=>
                   /\ c \in ToSet(Nested[b]) /\ c \notin ToSet(walk[k].rest)
                   /\ k = Len(walk') \/ c # walk'[k + 1].at
      BY <2>1 DEF Behind
    <2>3. CASE k = n - 1
      <3>1. on = a /\ k = Len(walk')
        BY <1>1, <1>2, <2>3
      <3> HIDE DEF n, on, b
      <3> QED BY <1>4, <1>6, <2>2, <2>3, <3>1
    <2>4. CASE k # n - 1
      <3>1. k # Len(walk') /\ walk'[k + 1].at = on
        BY <1>1, <1>2, <2>4
      <3> HIDE DEF n, on, b
      <3> QED BY <1>6, <2>2, <2>4, <3>1
    <2> QED BY <2>3, <2>4
  <1> HIDE DEF on
  <1>8. /\ on \in Holds(b)
        /\ \A c \in ToSet(walk[k].rest) \cup Behind(k) : c \in Holds(b) /\ c \in Entities /\ c # on
    <2>1. \A c \in ToSet(Nested[b]) : c \in Holds(b) /\ c \in Entities
      BY <1>3, ResourcesBelow, TreeFacts
    <2> HIDE DEF b
    <2> QED BY <1>4, <1>6, <2>1
  <1>9. \A c \in ToSet(walk[k].rest) \cup Behind(k) : c \in Entities /\ a \notin Below[c]
    <2> HIDE DEF b
    <2> QED BY <1>3, <1>5, <1>8, SiblingsApart
  <1>10. a # b
    <2> HIDE DEF b
    <2> QED BY <1>3, <1>5, <1>8, NoneBelowItself
  <1> QED BY <1>3, <1>7, <1>9, <1>10

(* What is returned from is settled.                                       *)
LEMMA ReturnSettled ==
    ASSUME Orderly, Walked, WalkMarked, Return, Len(walk) # 1,
           NEW a \in Resources, walk[Len(walk)].at = a, NEW t \in Tops, walk[2].at = t
    PROVE  /\ Settled(a, t)' /\ Twice(a) = {}
           /\ \A x \in Resources : x # a => Twice(x)' = Twice(x)
           /\ t \in ToSet(endpoints) => (walk[Len(walk)].failure # {} <=> Losers(a) # {})
  <1> DEFINE n == Len(walk)
             E == ToSet(endpoints)
             failure == walk[n].failure
             held == walk[n].held
  <1>1. /\ n \in Nat \ {0} /\ walk[n].rest = <<>> /\ endpoints' = endpoints
        /\ \A x \in Resources : Twice(x)' = Twice(x) \cup {f \in failure : held /\ x = a}
    BY ReturnFrames
  <1>2. n \in 2..n
    <2>1. n # 1 /\ n \in Nat \ {0}
      BY <1>1
    <2> HIDE DEF n
    <2> QED BY <2>1
  <1>3. FrameMarked(n, a, t)
    BY <1>2 DEF WalkMarked
  <1>4. \A c : c \in Behind(n) <=> c \in ToSet(Nested[a])
    <2>1. ToSet(walk[n].rest) = {}
      BY <1>1 DEF ToSet
    <2> QED BY <2>1 DEF Behind
  <1>5. /\ Twice(a) = {} /\ (held <=> t \in E)
        /\ \A c \in ToSet(Nested[a]) : Settled(c, t)
        /\ t \in E => (failure # {} <=> a \notin E \/ \E c \in ToSet(Nested[a]) : Losers(c) # {})
        /\ t \notin E => a \notin E
    BY <1>3, <1>4 DEF FrameMarked
  <1>6. \A x \in Resources : x \in Below[a] <=> x = a \/ \E c \in ToSet(Nested[a]) : x \in Below[c]
    BY ResourcesBelow
  <1>7. t \in E => (failure # {} <=> Losers(a) # {})
    <2>1. Losers(a) # {} <=> a \notin E \/ \E c \in ToSet(Nested[a]) : Losers(c) # {}
      <3> HIDE DEF n, failure, held
      <3> QED BY <1>6 DEF Losers
    <2> QED BY <1>5, <2>1
  <1> HIDE DEF n, failure, held
  <1>8. \A x \in Resources : x # a => Twice(x)' = Twice(x)
    BY <1>1
  <1>9. Twice(a)' # {} <=> t \in E /\ Losers(a) # {}
    <2>1. Twice(a)' = {f \in failure : held}
      BY <1>1, <1>5
    <2> QED BY <1>5, <1>7, <2>1
  <1>10. \A x : Losers(x)' = Losers(x)
    BY <1>1 DEF Losers
  <1>11. ASSUME NEW x \in Resources \cap Below[a]
         PROVE  IF t \in E THEN Twice(x)' # {} <=> Losers(x) # {} ELSE x \notin E /\ Twice(x)' = {}
    <2>1. CASE x = a
      BY <1>5, <1>9, <2>1
    <2>2. CASE x # a
      <3>1. PICK c \in ToSet(Nested[a]) : x \in Below[c]
        BY <1>6, <2>2
      <3>2. Settled(c, t) /\ Twice(x)' = Twice(x)
        BY <1>5, <1>8, <2>2
      <3> QED BY <3>1, <3>2 DEF Settled
    <2> QED BY <2>1, <2>2
  <1>12. Settled(a, t)'
    BY <1>1, <1>10, <1>11 DEF Settled
  <1> QED BY <1>5, <1>7, <1>8, <1>12 DEF n, failure

LEMMA ReturnMarked ==
    ASSUME Orderly, Walked, WalkMarked, Return
    PROVE  WalkMarked'
  <1> DEFINE n == Len(walk)
             E == ToSet(endpoints)
  <1>1. /\ n \in Nat \ {0} /\ walk # <<>> /\ walk[n].rest = <<>>
        /\ n = 1 => walk' = <<>> /\ broken' = broken
        /\ n # 1 =>
             /\ walk' # <<>> /\ Len(walk') = n - 1
             /\ \A k \in 1..(n - 1) :
                  /\ walk'[k].at = walk[k].at /\ walk'[k].held = walk[k].held
                  /\ walk'[k].register = walk[k].register /\ walk'[k].rest = walk[k].rest
                  /\ walk'[k].failure # {} <=>
                       walk[k].failure # {} \/ (k = n - 1 /\ walk[n].failure # {})
        /\ UNCHANGED <<decoding, endpoints>>
    BY ReturnFrames
  <1>2. Closed' = Closed /\ endpoints' = endpoints
    BY <1>1 DEF decoding, Closed
  <1>3. CASE n = 1
    <2>1. \A x : Twice(x)' = Twice(x)
      BY <1>1, <1>3 DEF Twice
    <2>2. \A c \in Entities : /\ Untouched(c)' <=> Untouched(c)
                              /\ \A u : Settled(c, u)' <=> Settled(c, u)
      BY <1>2, <2>1, RegionStays
    <2>3. \A u : walk[1].rest # <<u>>
      BY <1>1, <1>3
    <2>4. walk' = <<>> /\ Len(walk') = 0 /\ 2..Len(walk') = {}
      BY <1>1, <1>3
    <2>5. Tops \subseteq Entities
      BY TreeFacts
    <2>6. \A u \in Tops : u \notin Closed' => Untouched(u)'
      BY <1>2, <2>2, <2>5 DEF WalkMarked
    <2>7. \A u \in Tops \cap Closed : Settled(u, u)'
      <3>1. \A u : ~Current(u)
        BY <1>3, <2>3 DEF Current
      <3> QED BY <2>2, <2>5, <3>1 DEF WalkMarked
    <2> QED BY <1>2, <2>4, <2>6, <2>7 DEF WalkMarked
  <1>4. CASE n # 1
    <2>1. /\ n >= 2 /\ n \in 2..n /\ 1 \in 1..(n - 1) /\ 2 \in 2..n
          /\ \A k \in 2..(n - 1) : k \in 1..(n - 1) /\ k \in 2..n
          /\ n = 2 \/ (n - 1 >= 2 /\ 2 \in 1..(n - 1))
      <3>1. n # 1 /\ n \in Nat \ {0}
        BY <1>1, <1>4
      <3> HIDE DEF n
      <3> QED BY <3>1
    <2>2. PICK t \in Tops \cap Closed :
            walk[2].at = t /\ walk[1].rest = <<>> /\ walk'[1].rest = <<>>
      BY <1>1, <1>4, <2>1 DEF Walked
    <2>3. PICK a \in Resources : walk[n].at = a /\ a \in Below[t] /\ t \in Entities
      BY <2>1, <2>2, WalkAbove, TreeFacts DEF Orderly, Ordered
    <2>4. /\ Settled(a, t)' /\ Twice(a) = {}
          /\ \A x \in Resources : x # a => Twice(x)' = Twice(x)
          /\ t \in E => (walk[n].failure # {} <=> Losers(a) # {})
      BY <1>4, <2>2, <2>3, ReturnSettled
    <2>5. ASSUME NEW c \in Entities, a \notin Below[c]
          PROVE  /\ Untouched(c)' <=> Untouched(c)
                 /\ Losers(c)' = Losers(c)
                 /\ \A u : Settled(c, u)' <=> Settled(c, u)
      <3>1. \A x \in Resources \cap Below[c] : Twice(x)' = Twice(x)
        BY <2>4, <2>5
      <3> QED BY <1>2, <3>1, RegionStays
    <2>6. ASSUME NEW u \in Tops, u # t PROVE u \in Entities /\ a \notin Below[u]
      <3>1. Below[u] \cap Below[t] = {}
        BY <2>2, <2>6, TopsApart
      <3> QED BY <2>3, <3>1, TreeFacts
    <2>7. ASSUME NEW u \in Tops, u \notin Closed' \/ (walk' # <<>> /\ walk'[1].rest = <<u>>)
          PROVE  Untouched(u)'
      <3>1. u \notin Closed
        <4>1. <<u>> # <<>>
          OBVIOUS
        <4> QED BY <1>2, <2>2, <2>7, <4>1
      <3>2. u # t
        BY <2>2, <3>1
      <3>3. Untouched(u)
        BY <3>1 DEF WalkMarked
      <3> QED BY <2>5, <2>6, <3>2, <3>3
    <2>8. ASSUME NEW u \in Tops \cap Closed, ~Current(u)' PROVE Settled(u, u)'
      <3>1. CASE u = t
        <4>1. n = 2
          <5>1. ~(n - 1 >= 2 /\ walk'[2].at = t)
            BY <1>1, <1>4, <2>8, <3>1 DEF Current
          <5> QED BY <1>1, <1>4, <2>1, <2>2, <5>1
        <4>2. a = t
          BY <2>2, <2>3, <4>1
        <4> QED BY <2>4, <3>1, <4>2
      <3>2. CASE u # t
        <4>1. ~Current(u)
          <5>1. <<u>> # <<>>
            OBVIOUS
          <5> QED BY <2>2, <3>2, <5>1 DEF Current
        <4>2. Settled(u, u)
          BY <4>1 DEF WalkMarked
        <4> QED BY <2>5, <2>6, <3>2, <4>2
      <3> QED BY <3>1, <3>2
    <2>9. ASSUME NEW k \in 2..(n - 1), NEW b \in Resources, walk[k].at = b
          PROVE  FrameMarked(k, b, t)'
      <3>1. k \in 1..(n - 1) /\ k \in 2..n
        BY <2>1
      <3>2. FrameMarked(k, b, t)
        BY <2>2, <2>9, <3>1 DEF WalkMarked
      <3>3. /\ \A c : c \in Behind(k)' <=> c \in Behind(k) \/ (k = n - 1 /\ c = a)
            /\ a # b
            /\ \A c \in ToSet(walk[k].rest) \cup Behind(k) : c \in Entities /\ a \notin Below[c]
        BY <2>3, <2>9, ReturnApart
      <3>4. Twice(b)' = {}
        BY <2>4, <3>2, <3>3 DEF FrameMarked
      <3>5. /\ walk'[k].held = walk[k].held /\ walk'[k].register = walk[k].register
            /\ walk'[k].rest = walk[k].rest
            /\ walk'[k].failure # {} <=>
                 walk[k].failure # {} \/ (k = n - 1 /\ walk[n].failure # {})
        BY <1>1, <1>4, <3>1
      <3>6. \A c \in ToSet(walk'[k].rest) : Untouched(c)'
        BY <2>5, <3>2, <3>3, <3>5 DEF FrameMarked
      <3>7. \A c \in Behind(k) : Settled(c, t)' /\ Losers(c)' = Losers(c)
        BY <2>5, <3>2, <3>3 DEF FrameMarked
      <3>8. \A c \in Behind(k)' : Settled(c, t)'
        BY <2>4, <3>3, <3>7
      <3>9. Losers(a)' = Losers(a)
        BY <1>2 DEF Losers
      <3>10. (\E c \in Behind(k)' : Losers(c)' # {})
               <=> (\E c \in Behind(k) : Losers(c) # {}) \/ (k = n - 1 /\ Losers(a) # {})
        <4> HIDE DEF n
        <4> QED BY <3>3, <3>7, <3>9
      <3>11. /\ walk[k].held = (t \in E) /\ walk[k].register = (t \in E)
             /\ t \in E => (walk[k].failure # {} <=> b \notin E \/ \E c \in Behind(k) : Losers(c) # {})
             /\ t \notin E => b \notin E
        BY <3>2 DEF FrameMarked
      <3>12. /\ walk'[k].held = (t \in E) /\ walk'[k].register = (t \in E)
             /\ IF t \in E
                THEN walk'[k].failure # {} <=> b \notin E \/ \E c \in Behind(k)' : Losers(c)' # {}
                ELSE b \notin E
        <4> HIDE DEF n, E
        <4> QED BY <2>4, <3>5, <3>10, <3>11
      <3> QED BY <1>2, <3>4, <3>6, <3>8, <3>12 DEF FrameMarked
    <2>10. ASSUME NEW k \in 2..Len(walk'), NEW b \in Resources, NEW u \in Tops,
                  walk'[k].at = b, walk'[2].at = u
           PROVE  FrameMarked(k, b, u)'
      <3>1. k \in 2..(n - 1) /\ k \in 1..(n - 1) /\ 2 \in 1..(n - 1)
        <4>1. k \in 2..(n - 1) /\ n \in Nat \ {0}
          BY <1>1, <1>4
        <4> HIDE DEF n
        <4> QED BY <4>1
      <3>2. walk[k].at = b /\ t = u
        BY <1>1, <1>4, <2>2, <2>10, <3>1
      <3> QED BY <2>9, <3>1, <3>2
    <2> QED BY <1>2, <2>7, <2>8, <2>10 DEF WalkMarked
  <1> QED BY <1>3, <1>4

(* An entity that is open, and what it holds, is not registered.           *)
LEMMA CloseMarked ==
    ASSUME Orderly, Pathed, MarkedInside, Walked, WalkMarked, NEW e \in Entities, Close(e)
    PROVE  WalkMarked'
  <1>1. /\ Walked' /\ walk = <<>> /\ Closed' = Closed \cup {e} /\ e \notin Closed
        /\ endpoints' = endpoints
        /\ IF e \in Tops THEN walk' # <<>> /\ Len(walk') = 1 /\ walk'[1].rest = <<e>>
           ELSE walk' = <<>>
    BY CloseWalked
  <1>2. \A x \in Entities : Twice(x)' = Twice(x)
    <2>1. \A x \in Entities : /\ broken[x] \subseteq broken'[x]
                              /\ \A f \in broken'[x] : f \in broken[x] \/ f[1] \in EntityKinds
      BY CloseMarks
    <2>2. \A x \in Entities : \A f : f \in Twice(x)' <=> f \in Twice(x)
      BY <2>1 DEF Twice, EntityKinds
    <2> QED BY <2>2
  <1>3. \A c \in Entities : /\ Untouched(c)' <=> Untouched(c)
                            /\ \A u : Settled(c, u)' <=> Settled(c, u)
    BY <1>1, <1>2, RegionStays DEF Entities
  <1>4. Tops \subseteq Entities
    BY TreeFacts
  <1>5. ASSUME NEW u \in Tops, u \notin Closed' \/ (walk' # <<>> /\ walk'[1].rest = <<u>>)
        PROVE  Untouched(u)'
    <2>1. u \notin Closed
      <3>1. <<u>> = <<e>> => u = e
        OBVIOUS
      <3> QED BY <1>1, <1>5, <3>1
    <2>2. Untouched(u)
      BY <2>1 DEF WalkMarked
    <2> QED BY <1>3, <1>4, <2>2
  <1>6. ASSUME NEW u \in Tops \cap Closed', ~Current(u)' PROVE Settled(u, u)'
    <2>1. u # e /\ u \in Closed
      BY <1>1, <1>6 DEF Current
    <2>2. Settled(u, u)
      BY <1>1, <2>1 DEF WalkMarked, Current
    <2> QED BY <1>3, <1>4, <2>2
  <1>7. 2..Len(walk') = {}
    <2>1. CASE Len(walk') = 1
      BY <2>1
    <2>2. CASE walk' = <<>>
      BY <2>2
    <2> QED BY <1>1, <2>1, <2>2
  <1> QED BY <1>5, <1>6, <1>7 DEF WalkMarked

LEMMA WalkMarkedNext ==
    ASSUME Orderly, Pathed, MarkedInside, Walked, WalkMarked, [Next]_vars
    PROVE  WalkMarked'
  <1>1. CASE \E r \in Resources : Visit(r)
    BY <1>1, VisitMarked
  <1>2. CASE Return
    BY <1>2, ReturnMarked
  <1>3. CASE \E e \in Entities : Close(e)
    BY <1>3, CloseMarked
  <1>4. CASE ~Return /\ (\A e \in Entities : ~Close(e)) /\ \A r \in Resources : ~Visit(r)
    <2>1. /\ walk' = walk /\ Closed' = Closed /\ endpoints' = endpoints
          /\ \A x \in Resources : Twice(x)' = Twice(x)
      BY <1>4, WalkStays
    <2>2. \A c \in Entities : /\ Untouched(c)' <=> Untouched(c)
                              /\ Losers(c)' = Losers(c)
                              /\ \A u : Settled(c, u)' <=> Settled(c, u)
      BY <2>1, RegionStays
    <2>3. Tops \subseteq Entities /\ \A u : Current(u)' <=> Current(u)
      BY <2>1, TreeFacts DEF Current
    <2>4. ASSUME NEW k \in 2..Len(walk), NEW a \in Resources, NEW t \in Tops,
                 walk[k].at = a, walk[2].at = t
          PROVE  FrameMarked(k, a, t)'
      <3>1. FrameMarked(k, a, t)
        BY <2>4 DEF WalkMarked
      <3>2. Behind(k)' = Behind(k)
        BY <2>1 DEF Behind
      <3>3. \A c \in ToSet(walk[k].rest) \cup Behind(k) : c \in Entities
        <4>1. ToSet(walk[k].rest) \subseteq ToSet(Nested[a])
          BY <2>4 DEF Walked
        <4>2. Behind(k) \subseteq ToSet(Nested[a])
          BY <2>4 DEF Behind
        <4>3. ToSet(Nested[a]) \subseteq Entities
          BY ResourcesBelow DEF Entities
        <4> QED BY <4>1, <4>2, <4>3
      <3>4. \A c \in ToSet(walk[k].rest) : Untouched(c)'
        BY <2>2, <3>1, <3>3 DEF FrameMarked
      <3>5. \A c \in Behind(k) : Settled(c, t)' /\ Losers(c)' = Losers(c)
        BY <2>2, <3>1, <3>3 DEF FrameMarked
      <3> QED BY <2>1, <3>1, <3>2, <3>4, <3>5 DEF FrameMarked
    <2>5. \A u \in Tops : u \notin Closed \/ (walk # <<>> /\ walk[1].rest = <<u>>) => Untouched(u)'
      BY <2>2, <2>3 DEF WalkMarked
    <2>6. \A u \in Tops \cap Closed : ~Current(u) => Settled(u, u)'
      BY <2>2, <2>3 DEF WalkMarked
    <2> QED BY <2>1, <2>3, <2>4, <2>5, <2>6 DEF WalkMarked
  <1> QED BY <1>1, <1>2, <1>3, <1>4

LEMMA WalkMarkedInit == Init => Walked /\ WalkMarked
  <1> SUFFICES ASSUME Init PROVE Walked /\ WalkMarked
    OBVIOUS
  <1>1. /\ walk = <<>> /\ Len(walk) = 0 /\ 2..Len(walk) = {} /\ 2..(Len(walk) - 1) = {}
        /\ Closed = {} /\ ToSet(endpoints) = {} /\ \A x \in Entities : broken[x] = {}
    BY DEF Init, ToSet, Closed, Marked
  <1>2. \A c \in Entities : Untouched(c)
    BY <1>1 DEF Untouched, Twice, Entities
  <1>3. Tops \subseteq Entities
    BY TreeFacts
  <1> QED BY <1>1, <1>2, <1>3 DEF Walked, WalkMarked

LEMMA MarkedImplied ==
    ASSUME Orderly, MarkedInside, WalkMarked
    PROVE  MarkedAsFound
  <1>1. TypeOK /\ Ordered /\ doc \in Corpus
    BY DEF Orderly, TypeOK
  <1>2. ASSUME NEW e \in attached \ ToSet(marking)
        PROVE  {f \in broken[e] : f[1] \in EntityKinds}
                 = Wrong("facet", Below[e]) \cup Wrong("unknown", Below[e])
                     \cup (IF e \in Responses THEN {} ELSE Wrong("template", Below[e]))
    <2> DEFINE noted == IF e \in Responses THEN {} ELSE Wrong("template", Below[e])
               all == Wrong("facet", Below[e]) \cup Wrong("unknown", Below[e]) \cup noted
               marks == {f \in broken[e] : f[1] \in EntityKinds}
    <2>1. \A f : f \in marks <=> Mine(f, e)
      BY DEF MarkedInside, Closed
    <2>2. \A f : /\ f \in Wrong("facet", Below[e])
                      <=> f \in doc.faults /\ f[1] = "facet" /\ f[2] \in Below[e]
                 /\ f \in Wrong("unknown", Below[e])
                      <=> f \in doc.faults /\ f[1] = "unknown" /\ f[2] \in Below[e]
                 /\ f \in Wrong("template", Below[e])
                      <=> f \in doc.faults /\ f[1] = "template" /\ f[2] \in Below[e]
      BY <1>1, WrongFacts
    <2>3. \A f : f \in all <=> Mine(f, e)
      BY <2>2 DEF Mine
    <2> HIDE DEF marks, all
    <2>4. marks = all
      BY <2>1, <2>3
    <2> QED BY <2>4 DEF marks, all
  <1>3. ASSUME step # "walk", NEW t \in Tops \cap Closed, NEW r \in Below[t] \cap Resources
        PROVE  IF t \in ToSet(endpoints) THEN Twice(r) # {} <=> Losers(r) # {}
               ELSE r \in Losers(r) /\ Twice(r) = {}
    <2>1. ~Current(t)
      BY <1>1, <1>3 DEF Ordered, Current
    <2>2. Settled(t, t) /\ r \in Below[r]
      BY <2>1, BelowLeast DEF WalkMarked, Entities
    <2> QED BY <2>2 DEF Settled, Losers
  <1>4. MarkedWhereItFailed
    BY <1>2 DEF MarkedWhereItFailed
  <1>5. UnregisteredMarked
    BY <1>3 DEF UnregisteredMarked, Tops, Closed, Twice, Losers
  <1> QED BY <1>4, <1>5 DEF MarkedAsFound

(* An entity's marks are those of what went wrong in and below it, met     *)
(* while it was decoded, before, or when it was registered (registry.py,   *)
(* mark; source_decode.py; endpoint_build.py, _walk).                      *)
THEOREM SpecMarkedAsFound == Spec => []MarkedAsFound
  <1> DEFINE IInv == Orderly /\ Pathed /\ MarkedInside /\ Walked /\ WalkMarked
  <1>1. Init => IInv
    BY OrderlyInit, PathedInit, MarkedInsideInit, WalkMarkedInit
  <1>2. IInv /\ [Next]_vars => IInv'
    <2> SUFFICES ASSUME IInv, [Next]_vars PROVE IInv'
      OBVIOUS
    <2>1. Orderly' /\ Pathed'
      BY OrderlyNext, PathedNext
    <2>2. MarkedInside' /\ Walked' /\ WalkMarked'
      BY MarkedInsideNext, WalkedNext, WalkMarkedNext
    <2> QED BY <2>1, <2>2
  <1>3. IInv => MarkedAsFound
    BY MarkedImplied
  <1> HIDE DEF IInv
  <1> QED BY <1>1, <1>2, <1>3, PTL DEF Spec
-----------------------------------------------------------------------------
(* The URI parameters.  The names of a path are put behind those that are  *)
(* there, one by one.                                                      *)
NextUpto(path, f, k) ==
    IF path[k] \in Variable \ ToSet(f[k - 1]) THEN Append(f[k - 1], path[k]) ELSE f[k - 1]
Upto(names, path, k, f) ==
    f = [i \in 0..k |-> IF i = 0 THEN names
                        ELSE IF path[i] \in Variable \ ToSet(f[i - 1])
                             THEN Append(f[i - 1], path[i]) ELSE f[i - 1]]

LEMMA UptoExists ==
    ASSUME NEW names, NEW path, NEW n \in Nat
    PROVE  \E f : Upto(names, path, n, f)
  <1> DEFINE Not == {k \in Nat : ~ \E f : Upto(names, path, k, f)}
             at(f, i) == IF i = 0 THEN names ELSE NextUpto(path, f, i)
  <1>0. ASSUME NEW f, NEW k \in Nat, f = [i \in 0..k |-> at(f, i)]
        PROVE  Upto(names, path, k, f)
    BY <1>0 DEF Upto, NextUpto
  <1>1. ASSUME NEW k \in Not PROVE \E m \in Not : ~(k <= m)
    <2>1. k \in Nat
      OBVIOUS
    <2>2. CASE k = 0
      <3> DEFINE f == [i \in 0..0 |-> names]
      <3>1. f = [i \in 0..0 |-> at(f, i)]
        OBVIOUS
      <3> QED BY <1>0, <2>2, <3>1
    <2>3. CASE k # 0
      <3>1. k - 1 \in Nat /\ ~(k <= k - 1)
        BY <2>1, <2>3
      <3>2. SUFFICES ASSUME NEW f, Upto(names, path, k - 1, f)
                     PROVE  \E g : Upto(names, path, k, g)
        BY <3>1
      <3> DEFINE g == [i \in 0..k |-> IF i = k THEN NextUpto(path, f, k) ELSE f[i]]
      <3>3. ASSUME NEW i \in 0..k PROVE g[i] = at(g, i)
        <4>1. i # 0 => i - 1 \in 0..k /\ i - 1 # k
          BY <2>1
        <4>2. i # 0 => g[i - 1] = f[i - 1]
          BY <4>1
        <4>3. CASE i = k
          BY <2>3, <4>2, <4>3 DEF NextUpto
        <4>4. CASE i # k
          <5>1. i \in 0..(k - 1)
            BY <2>1, <4>4
          <5>2. f[i] = at(f, i)
            BY <3>2, <5>1 DEF Upto, NextUpto
          <5> QED BY <4>2, <4>4, <5>2 DEF NextUpto
        <4> QED BY <4>3, <4>4
      <3>4. g = [i \in 0..k |-> at(g, i)]
        <4>1. g = [i \in 0..k |-> g[i]]
          OBVIOUS
        <4> HIDE DEF g, at
        <4> QED BY <3>3, <4>1
      <3> HIDE DEF g
      <3> QED BY <1>0, <2>1, <3>4
    <2> QED BY <2>2, <2>3
  <1>2. Not = {}
    <2>1. Not \in SUBSET Nat
      OBVIOUS
    <2> HIDE DEF Not
    <2> QED BY <1>1, <2>1, LeastNumber
  <1> QED BY <1>2

(* What is put behind comes in the order in which the path first has it.   *)
LEMMA AddedFacts ==
    ASSUME NEW names \in Seq(Variable), NEW path,
           Len(path) \in Nat, DOMAIN path = 1..Len(path), IsInjective(names)
    PROVE  LET a == Added(names, path)
           IN /\ a \in Seq(Variable) /\ IsInjective(a) /\ Len(names) <= Len(a)
              /\ \A i \in 1..Len(names) : a[i] = names[i]
              /\ ToSet(a) = ToSet(names) \cup (ToSet(path) \cap Variable)
              /\ \A i, j \in (Len(names) + 1)..Len(a) : i < j =>
                   \E m \in DOMAIN path : /\ path[m] = a[i]
                                          /\ \A p \in DOMAIN path : path[p] = a[j] => m < p
  <1> DEFINE n == Len(path)
             f == CHOOSE f : Upto(names, path, n, f)
             l == Len(names)
             Said(k) ==
               /\ f[k] \in Seq(Variable) /\ IsInjective(f[k]) /\ l <= Len(f[k])
               /\ \A i \in 1..l : f[k][i] = names[i]
               /\ \A x : x \in ToSet(f[k]) <=>
                           x \in ToSet(names) \/ (x \in Variable /\ \E m \in 1..k : path[m] = x)
               /\ \A i \in (l + 1)..Len(f[k]) : \E m \in 1..k : path[m] = f[k][i]
               /\ \A i, j \in (l + 1)..Len(f[k]) : i < j =>
                    \E m \in 1..k : /\ path[m] = f[k][i]
                                    /\ \A p \in 1..k : path[p] = f[k][j] => m < p
             Not == {k \in 0..n : ~Said(k)}
  <1>1. n \in Nat /\ DOMAIN path = 1..n /\ l \in Nat
    BY LenProperties
  <1>2. Upto(names, path, n, f)
    BY <1>1, UptoExists
  <1>3. \A i \in 0..n : f[i] = IF i = 0 THEN names ELSE NextUpto(path, f, i)
    <2> HIDE DEF f
    <2> QED BY <1>2 DEF Upto, NextUpto
  <1>4. Added(names, path) = f[n]
    BY DEF Added, Upto
  <1> HIDE DEF f, n
  <1>5. ASSUME NEW k \in Not PROVE \E m \in Not : ~(k <= m)
    <2>1. k \in 0..n /\ ~Said(k)
      OBVIOUS
    <2>2. k # 0
      <3>1. ASSUME k = 0 PROVE Said(k)
        <4>1. f[k] = names /\ 1..k = {} /\ (l + 1)..Len(names) = {}
          BY <1>1, <1>3, <2>1, <3>1
        <4> QED BY <1>1, <4>1
      <3> QED BY <2>1, <3>1
    <2>3. k - 1 \in 0..n /\ ~(k <= k - 1) /\ k \in Nat /\ k \in 1..n
      BY <1>1, <2>1, <2>2
    <2>4. ASSUME Said(k - 1) PROVE Said(k)
      <3> DEFINE s == f[k - 1]
                 t == f[k]
                 x == path[k]
      <3>1. t = IF x \in Variable \ ToSet(s) THEN Append(s, x) ELSE s
        BY <1>3, <2>1, <2>2 DEF NextUpto
      <3>2. \A m \in 1..k : m = k \/ m \in 1..(k - 1)
        BY <2>3
      <3>3. k \in 1..k /\ \A m \in 1..(k - 1) : m \in 1..k /\ m < k
        BY <2>3
      <3>4. CASE x \notin Variable \ ToSet(s)
        <4>1. t = s
          BY <3>1, <3>4
        <4>2. \A y : y \in ToSet(t) <=>
                 y \in ToSet(names) \/ (y \in Variable /\ \E m \in 1..k : path[m] = y)
          BY <2>4, <3>2, <3>3, <3>4, <4>1
        <4>3. \A i \in (l + 1)..Len(t) : \E m \in 1..k : path[m] = t[i]
          BY <2>4, <3>3, <4>1
        <4>4. ASSUME NEW i \in (l + 1)..Len(t), NEW j \in (l + 1)..Len(t), i < j
              PROVE  \E m \in 1..k : /\ path[m] = t[i]
                                     /\ \A p \in 1..k : path[p] = t[j] => m < p
          <5>1. \A a, b \in (l + 1)..Len(s) : a < b =>
                  \E m \in 1..(k - 1) : /\ path[m] = s[a]
                                        /\ \A p \in 1..(k - 1) : path[p] = s[b] => m < p
            BY <2>4
          <5>2. i \in (l + 1)..Len(s) /\ j \in (l + 1)..Len(s)
            BY <4>1, <4>4
          <5> HIDE DEF s, t, l
          <5>3. PICK m \in 1..(k - 1) :
                    path[m] = s[i] /\ \A p \in 1..(k - 1) : path[p] = s[j] => m < p
            BY <4>4, <5>1, <5>2
          <5> QED BY <3>2, <3>3, <4>1, <5>3
        <4> HIDE DEF s, t
        <4> QED BY <2>4, <4>1, <4>2, <4>3, <4>4 DEF s, t
      <3>5. CASE x \in Variable \ ToSet(s)
        <4> HIDE DEF x
        <4>1. t = Append(s, x) /\ s \in Seq(Variable) /\ x \in Variable /\ x \notin ToSet(s)
          BY <2>4, <3>1, <3>5
        <4> HIDE DEF s, t
        <4>2. /\ t \in Seq(Variable) /\ ToSet(t) = ToSet(s) \cup {x} /\ IsInjective(t)
              /\ Len(s) \in Nat /\ Len(t) = Len(s) + 1 /\ t[Len(s) + 1] = x
              /\ \A i \in 1..Len(s) : t[i] = s[i]
          <5>1. IsInjective(s)
            BY <2>4 DEF s
          <5> QED BY <4>1, <5>1, AppendSet, AppendNew, AppendProperties, LenProperties
        <4>3. l <= Len(s) /\ l <= Len(t) /\ \A i \in 1..l : i \in 1..Len(s) /\ t[i] = names[i]
          <5>1. l <= Len(s) /\ \A i \in 1..l : s[i] = names[i]
            BY <2>4 DEF s
          <5> QED BY <1>1, <4>2, <5>1
        <4>4. \A i \in (l + 1)..Len(t) : i = Len(s) + 1
                    \/ (i \in (l + 1)..Len(s) /\ i \in 1..Len(s) /\ t[i] = s[i])
          BY <1>1, <4>2
        <4>5. \A y : y \in ToSet(t) <=>
                 y \in ToSet(names) \/ (y \in Variable /\ \E m \in 1..k : path[m] = y)
          BY <2>4, <3>2, <3>3, <4>1, <4>2 DEF s, x
        <4>6. \A i \in (l + 1)..Len(s) : \E m \in 1..(k - 1) : path[m] = s[i]
          BY <2>4 DEF s
        <4>7. \A i \in (l + 1)..Len(t) : \E m \in 1..k : path[m] = t[i]
          BY <3>3, <4>2, <4>4, <4>6 DEF x
        <4>8. ASSUME NEW i \in (l + 1)..Len(t), NEW j \in (l + 1)..Len(t), i < j
              PROVE  \E m \in 1..k : /\ path[m] = t[i]
                                     /\ \A p \in 1..k : path[p] = t[j] => m < p
          <5>1. i \in (l + 1)..Len(s) /\ t[i] = s[i]
            <6>1. i # Len(s) + 1
              BY <1>1, <4>2, <4>8
            <6> QED BY <4>4, <6>1
          <5>2. CASE j = Len(s) + 1
            <6>1. PICK m \in 1..(k - 1) : path[m] = s[i]
              BY <4>6, <5>1
            <6>2. ASSUME NEW p \in 1..(k - 1) PROVE path[p] # x
              <7>1. x \in Variable /\ path[p] = x => x \in ToSet(s)
                BY <2>4 DEF s
              <7> QED BY <4>1, <7>1
            <6>3. \A p \in 1..k : path[p] = t[j] => p = k
              BY <3>2, <4>2, <5>2, <6>2
            <6> QED BY <3>3, <5>1, <6>1, <6>3
          <5>3. CASE j \in (l + 1)..Len(s) /\ t[j] = s[j]
            <6>1. PICK m \in 1..(k - 1) :
                      path[m] = s[i] /\ \A p \in 1..(k - 1) : path[p] = s[j] => m < p
              BY <2>4, <4>8, <5>1, <5>3 DEF s
            <6> QED BY <3>2, <3>3, <5>1, <5>3, <6>1
          <5> QED BY <4>4, <5>2, <5>3
        <4> QED BY <4>2, <4>3, <4>5, <4>7, <4>8 DEF t
      <3> QED BY <3>4, <3>5
    <2> HIDE DEF Said
    <2> QED BY <2>1, <2>3, <2>4
  <1>6. Not = {}
    <2>1. Not \in SUBSET Nat
      BY <1>1
    <2> HIDE DEF Not
    <2> QED BY <1>5, <2>1, LeastNumber
  <1>7. Said(n)
    <2> HIDE DEF Said
    <2>1. n \in 0..n
      BY <1>1
    <2> QED BY <1>6, <2>1
  <1>8. \A x : x \in ToSet(path) <=> \E m \in 1..n : path[m] = x
    BY <1>1 DEF ToSet
  <1> HIDE DEF l
  <1>9. ToSet(f[n]) = ToSet(names) \cup (ToSet(path) \cap Variable)
    BY <1>7, <1>8
  <1>10. /\ f[n] \in Seq(Variable) /\ IsInjective(f[n]) /\ l <= Len(f[n])
         /\ \A i \in 1..l : f[n][i] = names[i]
         /\ \A i, j \in (l + 1)..Len(f[n]) : i < j =>
              \E m \in 1..n : /\ path[m] = f[n][i]
                              /\ \A p \in 1..n : path[p] = f[n][j] => m < p
    BY <1>7
  <1> DEFINE a == f[n]
  <1> HIDE DEF Said, a
  <1>11. /\ a \in Seq(Variable) /\ IsInjective(a) /\ l <= Len(a)
         /\ \A i \in 1..l : a[i] = names[i]
         /\ ToSet(a) = ToSet(names) \cup (ToSet(path) \cap Variable)
    BY <1>9, <1>10 DEF a
  <1>13. ASSUME NEW i \in (l + 1)..Len(a), NEW j \in (l + 1)..Len(a), i < j
         PROVE  \E m \in DOMAIN path : /\ path[m] = a[i]
                                       /\ \A p \in DOMAIN path : path[p] = a[j] => m < p
    <2>1. PICK m \in 1..n : path[m] = a[i] /\ \A p \in 1..n : path[p] = a[j] => m < p
      BY <1>10, <1>13 DEF a
    <2>2. DOMAIN path = 1..n
      BY DEF n
    <2> QED BY <2>1, <2>2
  <1>12. Added(names, path) = a
    BY <1>4 DEF a
  <1> QED BY <1>11, <1>12, <1>13 DEF l
(* What the parameters of a resource are if they are those of the path     *)
(* that the resources counted for it make up.                              *)
Writes(s, x) == \E k \in DOMAIN Gives(s) : Gives(s)[k] = x
ByPath(p, on) ==
    /\ p.names \in Seq(Variable) /\ IsInjective(p.names) /\ DOMAIN p.of = ToSet(p.names)
    /\ \A x : x \in ToSet(p.names) <=> x \in Variable /\ \E s \in on : Writes(s, x)
    /\ \A i, j \in DOMAIN p.names : i < j =>
         \E s \in on : \E k \in DOMAIN Gives(s) :
            /\ Gives(s)[k] = p.names[i]
            /\ \A u \in on : \A l \in DOMAIN Gives(u) :
                 Gives(u)[l] = p.names[j] => IF s = u THEN k < l ELSE u \in Below[s]
    /\ \A x \in ToSet(p.names) :
         /\ p.of[x] \in on /\ Writes(p.of[x], x)
         /\ \A s \in on : Writes(s, x) => p.of[x] \in Below[s]

LEMMA MergedByPath ==
    ASSUME doc \in Corpus, NEW inherited, NEW on \in SUBSET Resources, ByPath(inherited, on),
           NEW r \in Resources, r \notin on, \A s \in on : r \in Below[s],
           IsTemplate(r)
    PROVE  ByPath(Merged(inherited, r), on \cup {r})
  <1> DEFINE path == doc.path[r]
             names == inherited.names
             of == inherited.of
             a == Added(names, path)
             m == Merged(inherited, r)
             l == Len(names)
  <1>1. Len(path) \in Nat /\ DOMAIN path = 1..Len(path)
    BY CorpusAssumption
  <1>0. Gives(r) = path
    BY DEF Gives
  <1>2. names \in Seq(Variable) /\ IsInjective(names) /\ DOMAIN of = ToSet(names)
    BY DEF ByPath
  <1>3. /\ a \in Seq(Variable) /\ IsInjective(a) /\ l <= Len(a)
        /\ \A i \in 1..l : a[i] = names[i]
        /\ ToSet(a) = ToSet(names) \cup (ToSet(path) \cap Variable)
        /\ \A i, j \in (l + 1)..Len(a) : i < j =>
             \E k \in DOMAIN path : /\ path[k] = a[i]
                                    /\ \A p \in DOMAIN path : path[p] = a[j] => k < p
    BY <1>1, <1>2, AddedFacts
  <1>4. /\ m.names = a /\ Own(r) = ToSet(path) \cap Variable
        /\ m.of = [x \in ToSet(names) \cup Own(r) |-> IF x \in Own(r) THEN r ELSE of[x]]
    BY DEF Merged, Own
  <1>5. /\ \A x : x \in ToSet(names) <=> x \in Variable /\ \E s \in on : Writes(s, x)
        /\ \A i, j \in DOMAIN names : i < j =>
             \E s \in on : \E k \in DOMAIN Gives(s) :
                /\ Gives(s)[k] = names[i]
                /\ \A u \in on : \A p \in DOMAIN Gives(u) :
                     Gives(u)[p] = names[j] => IF s = u THEN k < p ELSE u \in Below[s]
        /\ \A x \in ToSet(names) :
             /\ of[x] \in on /\ Writes(of[x], x)
             /\ \A s \in on : Writes(s, x) => of[x] \in Below[s]
    BY DEF ByPath
  <1>6. \A x : Writes(r, x) <=> x \in ToSet(path)
    BY <1>0 DEF Writes, ToSet
  <1>7. /\ l \in Nat /\ Len(a) \in Nat /\ DOMAIN names = 1..l /\ DOMAIN a = 1..Len(a)
        /\ r \in Below[r]
    BY <1>2, <1>3, LenProperties, BelowLeast DEF Entities
  <1> HIDE DEF a, m, l, names, of
  <1>8. \A x : x \in ToSet(m.names) <=> x \in Variable /\ \E s \in on \cup {r} : Writes(s, x)
    BY <1>3, <1>4, <1>5, <1>6
  <1>9. ASSUME NEW x \in ToSet(m.names)
        PROVE  /\ m.of[x] \in on \cup {r} /\ Writes(m.of[x], x)
               /\ \A s \in on \cup {r} : Writes(s, x) => m.of[x] \in Below[s]
    <2>1. x \in ToSet(names) \cup Own(r) /\ x \in Variable
      BY <1>3, <1>4, <1>8, <1>9
    <2>2. CASE x \in Own(r)
      BY <1>4, <1>6, <1>7, <2>1, <2>2
    <2>3. CASE x \notin Own(r)
      <3>1. x \in ToSet(names) /\ m.of[x] = of[x] /\ ~Writes(r, x)
        BY <1>4, <1>6, <2>1, <2>3
      <3> QED BY <1>5, <3>1
    <2> QED BY <2>2, <2>3
  <1>10. ASSUME NEW i \in DOMAIN a, NEW j \in DOMAIN a, i < j
         PROVE  \E s \in on \cup {r} : \E k \in DOMAIN Gives(s) :
                  /\ Gives(s)[k] = a[i]
                  /\ \A u \in on \cup {r} : \A p \in DOMAIN Gives(u) :
                       Gives(u)[p] = a[j] => IF s = u THEN k < p ELSE u \in Below[s]
    <2>1. /\ i \in 1..l \/ i \in (l + 1)..Len(a)
          /\ j \in 1..l => i \in 1..l
          /\ j \in 1..l \/ j \in (l + 1)..Len(a)
      BY <1>7, <1>10
    <2>2. j \in (l + 1)..Len(a) => a[j] \in Variable /\ a[j] \notin ToSet(names)
      <3>1. ASSUME j \in (l + 1)..Len(a), a[j] \in ToSet(names) PROVE FALSE
        <4>1. PICK q \in 1..l : names[q] = a[j]
          BY <1>7, <3>1 DEF ToSet
        <4>2. q \in DOMAIN a /\ a[q] = a[j] /\ q # j
          BY <1>3, <1>7, <3>1, <4>1
        <4> QED BY <1>3, <1>10, <4>2 DEF IsInjective
      <3>2. a[j] \in Variable
        BY <1>3, <1>7, <1>10, ElementOfSeq
      <3> QED BY <3>1, <3>2
    <2>3. j \in (l + 1)..Len(a) => \A u \in on : ~Writes(u, a[j])
      BY <1>5, <2>2
    <2>4. CASE j \in 1..l
      <3>1. i \in DOMAIN names /\ j \in DOMAIN names /\ a[i] = names[i] /\ a[j] = names[j]
        BY <1>3, <1>7, <2>1, <2>4
      <3>2. PICK s \in on : \E k \in DOMAIN Gives(s) :
                /\ Gives(s)[k] = names[i]
                /\ \A u \in on : \A p \in DOMAIN Gives(u) :
                     Gives(u)[p] = names[j] => IF s = u THEN k < p ELSE u \in Below[s]
        BY <1>5, <1>10, <3>1
      <3> QED BY <3>1, <3>2
    <2>5. CASE i \in 1..l /\ j \in (l + 1)..Len(a)
      <3>1. a[i] \in ToSet(names)
        BY <1>3, <1>7, <2>5 DEF ToSet
      <3>2. PICK s \in on : Writes(s, a[i])
        BY <1>5, <3>1
      <3>3. PICK k \in DOMAIN Gives(s) : Gives(s)[k] = a[i]
        BY <3>2 DEF Writes
      <3>4. ASSUME NEW u \in on \cup {r}, NEW p \in DOMAIN Gives(u), Gives(u)[p] = a[j]
            PROVE  u = r /\ s # u /\ u \in Below[s]
        BY <2>3, <2>5, <3>4 DEF Writes
      <3> QED BY <3>3, <3>4
    <2>6. CASE i \in (l + 1)..Len(a) /\ j \in (l + 1)..Len(a)
      <3>1. PICK k \in DOMAIN path :
                path[k] = a[i] /\ \A p \in DOMAIN path : path[p] = a[j] => k < p
        BY <1>3, <1>10, <2>6
      <3>2. ASSUME NEW u \in on \cup {r}, NEW p \in DOMAIN Gives(u), Gives(u)[p] = a[j]
            PROVE  u = r /\ k < p
        BY <1>0, <2>3, <2>6, <3>1, <3>2 DEF Writes
      <3> QED BY <1>0, <3>1, <3>2
    <2> QED BY <2>1, <2>4, <2>5, <2>6
  <1>11. DOMAIN m.of = ToSet(m.names)
    BY <1>3, <1>4
  <1> HIDE DEF path
  <1> DEFINE all == on \cup {r}
  <1>13. \A i, j \in DOMAIN m.names : i < j =>
           \E s \in all : \E k \in DOMAIN Gives(s) :
              /\ Gives(s)[k] = m.names[i]
              /\ \A u \in all : \A p \in DOMAIN Gives(u) :
                   Gives(u)[p] = m.names[j] => IF s = u THEN k < p ELSE u \in Below[s]
    BY <1>4, <1>10
  <1>14. m.names \in Seq(Variable) /\ IsInjective(m.names)
    BY <1>3, <1>4
  <1> HIDE DEF all
  <1>12. ByPath(m, all)
    <2>1. /\ \A x : x \in ToSet(m.names) <=> x \in Variable /\ \E s \in all : Writes(s, x)
          /\ \A x \in ToSet(m.names) :
               /\ m.of[x] \in all /\ Writes(m.of[x], x)
               /\ \A s \in all : Writes(s, x) => m.of[x] \in Below[s]
      BY <1>8, <1>9 DEF all
    <2> QED BY <1>11, <1>13, <1>14, <2>1 DEF ByPath
  <1> QED BY <1>12 DEF m, all

LEMMA DeclaredByPath ==
    ASSUME doc \in Corpus, NEW r \in Resources, ~IsTemplate(r)
    PROVE  ByPath(Declared(r), {r})
  <1> DEFINE names == doc.declared[r]
             of == [x \in ToSet(names) |-> r]
  <1>1. names \in Seq(Variable) /\ IsInjective(names) /\ r \in Below[r]
    BY CorpusAssumption, BelowLeast DEF Entities
  <1>2. Gives(r) = names /\ Declared(r).names = names /\ Declared(r).of = of
    BY DEF Gives, Declared
  <1>3. \A x : x \in ToSet(names) <=> x \in Variable /\ Writes(r, x)
    <2>1. \A k \in DOMAIN names : names[k] \in Variable
      BY <1>1, ElementOfSeq, LenProperties
    <2> QED BY <1>2, <2>1 DEF Writes, ToSet
  <1>4. ASSUME NEW i \in DOMAIN names, NEW j \in DOMAIN names, i < j
        PROVE  \A l \in DOMAIN names : names[l] = names[j] => i < l
    BY <1>1, <1>4 DEF IsInjective
  <1> HIDE DEF names
  <1>5. DOMAIN of = ToSet(names) /\ \A x \in ToSet(names) : of[x] = r
    OBVIOUS
  <1> HIDE DEF of
  <1> QED BY <1>1, <1>2, <1>3, <1>4, <1>5 DEF ByPath

-----------------------------------------------------------------------------
(* What has been walked has its parameters.                                *)
Resolved(r) == ByPath(params[r], Counted(r))
ResolvedBelow(c) == \A r \in Resources \cap Below[c] : Resolved(r)
WalkResolved ==
    /\ DOMAIN params = Resources \cup {API} /\ params[API] = NoParameters
    /\ walk # <<>> => walk[1].at = API
    /\ \A t \in Tops \cap Closed : ~Current(t) => ResolvedBelow(t)
    /\ \A k \in 2..Len(walk) : /\ \A a \in Resources : walk[k].at = a => Resolved(a)
                               /\ \A c \in Behind(k) : ResolvedBelow(c)

(* Below a well-formed path the resources counted are one more.            *)
LEMMA VisitCounted ==
    ASSUME Orderly, Walked, WalkResolved, NEW r \in Resources, Visit(r), IsTemplate(r)
    PROVE  \E on \in SUBSET Resources :
             /\ Counted(r) = on \cup {r} /\ r \notin on /\ \A s \in on : r \in Below[s]
             /\ ByPath(params[walk[Len(walk)].at], on)
  <1> DEFINE n == Len(walk)
  <1>1. PICK t \in Tops \cap Closed :
          /\ n = 1 => r = t
          /\ n # 1 => walk[n].at \in Resources /\ r \in Holds(walk[n].at)
    BY VisitPlace
  <1>2. n \in Nat \ {0} /\ walk # <<>>
    <2>1. \E duplicate : n \in Nat \ {0} /\ walk # <<>>
      BY VisitFrames
    <2> QED BY <2>1
  <1>3. Resources \subseteq Entities /\ r \in Below[r]
    BY BelowLeast DEF Entities
  <1>4. CASE n = 1
    <2>1. Counted(r) = {r}
      <3>1. \A s \in Resources : r \in Below[s] <=> s = r
        BY <1>1, <1>3, <1>4, BelowFromTop
      <3> QED BY <3>1 DEF Counted
    <2>2. params[walk[n].at] = NoParameters
      BY <1>2, <1>4 DEF WalkResolved
    <2>3. ByPath(NoParameters, {})
      <3>1. NoParameters.names = <<>> /\ DOMAIN NoParameters.of = {}
        BY DEF NoParameters
      <3>2. <<>> \in Seq(Variable) /\ DOMAIN <<>> = {} /\ ToSet(<<>>) = {} /\ IsInjective(<<>>)
        BY EmptySeq DEF ToSet, IsInjective
      <3> QED BY <3>1, <3>2 DEF ByPath
    <2> QED BY <2>1, <2>2, <2>3
  <1>5. CASE n # 1
    <2> DEFINE e == walk[n].at
    <2>1. e \in Resources /\ r \in Holds(e) /\ n \in 2..n
      <3> HIDE DEF n
      <3> QED BY <1>1, <1>2, <1>5
    <2>2. Resolved(e)
      BY <2>1 DEF WalkResolved
    <2> HIDE DEF e
    <2>3. Counted(r) = Counted(e) \cup {r}
      <3>1. \A s \in Resources : r \in Below[s] <=> s = r \/ e \in Below[s]
        BY <1>3, <2>1, BelowHolder
      <3> QED BY <3>1 DEF Counted
    <2>4. r \notin Counted(e)
      BY <1>3, <2>1, NoneBelowItself DEF Counted
    <2>5. \A s \in Counted(e) : r \in Below[s]
      BY <1>3, <2>1, BelowHolder DEF Counted
    <2>6. Counted(e) \in SUBSET Resources
      BY DEF Counted
    <2> QED BY <2>2, <2>3, <2>4, <2>5, <2>6 DEF Resolved, e
  <1> QED BY <1>4, <1>5

(* From one that is not well formed the counting starts anew.              *)
LEMMA CountedAnew ==
    ASSUME NEW r \in Resources, ~IsTemplate(r)
    PROVE  Counted(r) = {r}
  <1>1. Resources \subseteq Entities /\ r \in Below[r]
    BY BelowLeast DEF Entities
  <1>2. ASSUME NEW s \in Counted(r), s # r PROVE FALSE
    <2>1. s \in Entities /\ r \in Below[s] /\ s \in Below[r]
      BY <1>1, <1>2 DEF Counted
    <2>2. PICK c \in Holds(s) : r \in Below[c]
      BY <1>2, <2>1, BelowSplit
    <2>3. c \in Entities /\ s \notin Below[c]
      BY <2>1, NoneBelowItself
    <2>4. Below[r] \subseteq Below[c]
      BY <1>1, <2>2, <2>3, BelowWithin
    <2> QED BY <2>1, <2>3, <2>4
  <1>3. r \in Counted(r)
    BY <1>1 DEF Counted
  <1> QED BY <1>2, <1>3

(* What counts for a resource is the document's alone.                     *)
LEMMA GivesStays ==
    ASSUME doc' = doc
    PROVE  /\ \A s : Gives(s)' = Gives(s)
           /\ \A s, y : Writes(s, y)' <=> Writes(s, y)
           /\ \A x : Counted(x)' = Counted(x)
  <1>1. \A s : IsTemplate(s)' <=> IsTemplate(s)
    BY DEF IsTemplate
  <1>2. \A s : Gives(s)' = Gives(s)
    BY <1>1 DEF Gives
  <1>3. \A s, y : Writes(s, y)' <=> Writes(s, y)
    BY <1>2 DEF Writes
  <1>4. \A x : Counted(x)' = Counted(x)
    BY <1>1 DEF Counted
  <1> QED BY <1>2, <1>3, <1>4

(* A step that leaves the parameters of a resource, or has just found them.*)
LEMMA ResolvedStays ==
    ASSUME NEW x \in Resources, params'[x] = params[x], doc' = doc, Resolved(x)
    PROVE  Resolved(x)'
  <1>1. /\ \A s : Gives(s)' = Gives(s)
        /\ \A s, y : Writes(s, y)' <=> Writes(s, y)
        /\ Counted(x)' = Counted(x)
    BY GivesStays
  <1> QED BY <1>1 DEF Resolved, ByPath

LEMMA VisitResolves ==
    ASSUME Orderly, Walked, WalkResolved, NEW r \in Resources, Visit(r)
    PROVE  /\ Resolved(r)' /\ \A x \in Resources : Resolved(x) => Resolved(x)'
           /\ DOMAIN params' = Resources \cup {API} /\ params'[API] = NoParameters
  <1> DEFINE inherited == params[walk[Len(walk)].at]
  <1>1. doc \in Corpus
    BY DEF Orderly, TypeOK
  <1>2. PICK m : m = Resolution(inherited, r)
    OBVIOUS
  <1>3. /\ doc' = doc /\ DOMAIN params' = DOMAIN params /\ params'[r] = m
        /\ \A x \in DOMAIN params : x # r => params'[x] = params[x]
    BY <1>2 DEF Visit, Registering, Last, WalkResolved
  <1>4. ByPath(m, Counted(r))
    <2>1. CASE IsTemplate(r)
      <3>1. PICK on \in SUBSET Resources :
              /\ Counted(r) = on \cup {r} /\ r \notin on /\ \A s \in on : r \in Below[s]
              /\ ByPath(inherited, on)
        BY <2>1, VisitCounted
      <3>2. m = Merged(inherited, r)
        BY <1>2, <2>1 DEF Resolution
      <3> HIDE DEF inherited
      <3> QED BY <1>1, <2>1, <3>1, <3>2, MergedByPath
    <2>2. CASE ~IsTemplate(r)
      <3>1. m = Declared(r)
        BY <1>2, <2>2 DEF Resolution
      <3> QED BY <1>1, <2>2, <3>1, CountedAnew, DeclaredByPath
    <2> QED BY <2>1, <2>2
  <1>5. Resolved(r)'
    <2>1. /\ \A s : Gives(s)' = Gives(s)
          /\ \A s, y : Writes(s, y)' <=> Writes(s, y)
          /\ Counted(r)' = Counted(r)
      BY <1>3, GivesStays
    <2> QED BY <1>3, <1>4, <2>1 DEF Resolved, ByPath
  <1>6. API # r
    BY KindsAssumption DEF Entities
  <1>7. \A x \in Resources : x # r /\ Resolved(x) => Resolved(x)'
    BY <1>3, ResolvedStays DEF WalkResolved
  <1> QED BY <1>3, <1>5, <1>6, <1>7 DEF WalkResolved

LEMMA VisitResolved ==
    ASSUME Orderly, Walked, WalkResolved, NEW r \in Resources, Visit(r)
    PROVE  WalkResolved'
  <1> DEFINE n == Len(walk)
  <1>1. PICK duplicate :
          /\ n \in Nat \ {0} /\ walk' # <<>> /\ walk # <<>> /\ Len(walk') = n + 1
          /\ \A k \in 1..n : walk'[k].at = walk[k].at
          /\ walk'[n + 1].at = r /\ walk'[n + 1].rest = Nested[r]
          /\ n = 1 => walk[1].rest = <<r>> /\ walk'[1].rest = <<>>
          /\ UNCHANGED decoding
    BY VisitFrames
  <1>2. PICK t \in Tops \cap Closed :
          /\ walk'[2].at = t
          /\ n = 1 => walk[1].rest = <<t>>
          /\ n # 1 => walk[2].at = t /\ walk[1].rest = <<>>
    BY VisitPlace
  <1>3. Closed' = Closed
    BY <1>1 DEF decoding, Closed
  <1>4. /\ Resolved(r)' /\ \A x \in Resources : Resolved(x) => Resolved(x)'
        /\ DOMAIN params' = Resources \cup {API} /\ params'[API] = NoParameters
    BY VisitResolves
  <1>5. \A c : ResolvedBelow(c) => ResolvedBelow(c)'
    BY <1>4 DEF ResolvedBelow
  <1>6. ASSUME NEW u \in Tops \cap Closed', ~Current(u)' PROVE ResolvedBelow(u)'
    <2>1. u # t
      <3>1. n + 1 >= 2
        <4> HIDE DEF n
        <4> QED BY <1>1
      <3> QED BY <1>1, <1>2, <1>6, <3>1 DEF Current
    <2>2. ~Current(u)
      <3>1. <<t>> # <<u>> /\ <<u>> # <<>>
        <4>1. <<t>>[1] # <<u>>[1]
          BY <2>1
        <4> QED BY <4>1
      <3>2. n >= 2 => n # 1
        <4> HIDE DEF n
        <4> QED BY <1>1
      <3> QED BY <1>2, <2>1, <3>1, <3>2 DEF Current
    <2> QED BY <1>3, <1>5, <1>6, <2>2 DEF WalkResolved
  <1>7. ASSUME NEW k \in 2..Len(walk')
        PROVE  /\ \A a \in Resources : walk'[k].at = a => Resolved(a)'
               /\ \A c \in Behind(k)' : ResolvedBelow(c)'
    <2>1. k = n + 1 \/ (k \in 2..n /\ k \in 1..n)
      <3> HIDE DEF n
      <3> QED BY <1>1, <1>7
    <2>2. CASE k = n + 1
      <3>1. Behind(k)' = {}
        <4>1. walk'[k].at = r /\ walk'[k].rest = Nested[r]
          BY <1>1, <2>2
        <4> QED BY <4>1 DEF Behind
      <3>2. walk'[k].at = r
        BY <1>1, <2>2
      <3> QED BY <1>4, <3>1, <3>2
    <2>3. CASE k \in 2..n /\ k \in 1..n
      <3>1. PICK b \in Resources : walk[k].at = b
        BY <2>3 DEF Orderly, Ordered
      <3>2. Behind(k)' = Behind(k)
        BY <2>3, VisitApart
      <3>3. Resolved(b) /\ \A c \in Behind(k) : ResolvedBelow(c)
        BY <2>3, <3>1 DEF WalkResolved
      <3>4. walk'[k].at = b
        BY <1>1, <2>3, <3>1
      <3>5. Resolved(b)'
        BY <1>4, <3>3
      <3> QED BY <1>5, <3>2, <3>3, <3>4, <3>5
    <2> QED BY <2>1, <2>2, <2>3
  <1>8. walk'[1].at = API
    <2>1. 1 \in 1..n
      <3> HIDE DEF n
      <3> QED BY <1>1
    <2> QED BY <1>1, <2>1 DEF WalkResolved
  <1> QED BY <1>4, <1>6, <1>7, <1>8 DEF WalkResolved
LEMMA ReturnResolved ==
    ASSUME Orderly, Walked, WalkResolved, Return
    PROVE  WalkResolved'
  <1> DEFINE n == Len(walk)
  <1>1. /\ n \in Nat \ {0} /\ walk # <<>> /\ walk[n].rest = <<>>
        /\ n = 1 => walk' = <<>>
        /\ n # 1 =>
             /\ walk' # <<>> /\ Len(walk') = n - 1
             /\ \A k \in 1..(n - 1) : walk'[k].at = walk[k].at /\ walk'[k].rest = walk[k].rest
        /\ UNCHANGED decoding
    BY ReturnFrames
  <1>2. Closed' = Closed /\ params' = params /\ doc' = doc
    BY <1>1 DEF decoding, Closed, Return
  <1>3. /\ \A x \in Resources : Resolved(x) => Resolved(x)'
        /\ \A c : ResolvedBelow(c) => ResolvedBelow(c)'
    <2>1. \A x \in Resources : Resolved(x) => Resolved(x)'
      BY <1>2, ResolvedStays
    <2> QED BY <2>1 DEF ResolvedBelow
  <1>4. CASE n = 1
    <2>1. \A u : ~Current(u)
      <3>1. \A u : walk[1].rest # <<u>>
        BY <1>1, <1>4
      <3> QED BY <1>4, <3>1 DEF Current
    <2>2. walk' = <<>> /\ 2..Len(walk') = {}
      BY <1>1, <1>4
    <2> QED BY <1>2, <1>3, <2>1, <2>2 DEF WalkResolved
  <1>5. CASE n # 1
    <2>1. /\ n >= 2 /\ n \in 2..n /\ 1 \in 1..(n - 1) /\ 2 \in 2..n
          /\ \A k \in 2..(n - 1) : k \in 1..(n - 1) /\ k \in 2..n
          /\ n = 2 \/ (n - 1 >= 2 /\ 2 \in 1..(n - 1))
      <3>1. n # 1 /\ n \in Nat \ {0}
        BY <1>1, <1>5
      <3> HIDE DEF n
      <3> QED BY <3>1
    <2>2. PICK t \in Tops \cap Closed : walk[2].at = t /\ walk[1].rest = <<>>
      BY <2>1 DEF Walked
    <2>3. PICK a \in Resources : walk[n].at = a
      BY <2>1 DEF Orderly, Ordered
    <2>4. ResolvedBelow(a)
      <3>1. Resolved(a) /\ \A c \in Behind(n) : ResolvedBelow(c)
        BY <2>1, <2>3 DEF WalkResolved
      <3>2. Behind(n) = ToSet(Nested[a])
        <4>1. ToSet(walk[n].rest) = {}
          BY <1>1 DEF ToSet
        <4> QED BY <2>3, <4>1 DEF Behind
      <3> QED BY <3>1, <3>2, ResourcesBelow DEF ResolvedBelow
    <2>5. ASSUME NEW u \in Tops \cap Closed, ~Current(u)' PROVE ResolvedBelow(u)
      <3>1. CASE u = t
        <4>1. n = 2
          <5>1. ~(n - 1 >= 2 /\ walk'[2].at = t)
            BY <1>1, <1>5, <2>5, <3>1 DEF Current
          <5> QED BY <1>1, <1>5, <2>1, <2>2, <5>1
        <4>2. a = t
          BY <2>2, <2>3, <4>1
        <4> QED BY <2>4, <3>1, <4>2
      <3>2. CASE u # t
        <4>1. ~Current(u)
          <5>1. <<u>> # <<>>
            OBVIOUS
          <5> QED BY <2>2, <3>2, <5>1 DEF Current
        <4> QED BY <4>1 DEF WalkResolved
      <3> QED BY <3>1, <3>2
    <2>6. ASSUME NEW k \in 2..Len(walk')
          PROVE  /\ \A b \in Resources : walk'[k].at = b => Resolved(b)'
                 /\ \A c \in Behind(k)' : ResolvedBelow(c)'
      <3>1. k \in 2..(n - 1) /\ k \in 1..(n - 1) /\ k \in 2..n
        <4>1. k \in 2..(n - 1) /\ n \in Nat \ {0}
          BY <1>1, <1>5, <2>6
        <4> HIDE DEF n
        <4> QED BY <4>1
      <3>2. \A c : c \in Behind(k)' <=> c \in Behind(k) \/ (k = n - 1 /\ c = a)
        BY <2>3, <3>1, ReturnApart
      <3>3. walk'[k].at = walk[k].at
        BY <1>1, <1>5, <3>1
      <3>4. /\ \A b \in Resources : walk[k].at = b => Resolved(b)
            /\ \A c \in Behind(k) : ResolvedBelow(c)
        BY <3>1 DEF WalkResolved
      <3> QED BY <1>3, <2>4, <3>2, <3>3, <3>4
    <2>7. walk'[1].at = API
      BY <1>1, <1>5, <2>1 DEF WalkResolved
    <2> QED BY <1>2, <1>3, <2>5, <2>6, <2>7 DEF WalkResolved
  <1> QED BY <1>4, <1>5

LEMMA WalkResolvedNext ==
    ASSUME Orderly, Pathed, MarkedInside, Walked, WalkResolved, [Next]_vars
    PROVE  WalkResolved'
  <1>1. CASE \E r \in Resources : Visit(r)
    BY <1>1, VisitResolved
  <1>2. CASE Return
    BY <1>2, ReturnResolved
  <1>3. CASE ~Return /\ \A r \in Resources : ~Visit(r)
    <2>1. params' = params /\ doc' = doc
      <3>1. params' = params
        <4>1. ASSUME NEW e \in Entities, Close(e) PROVE params' = params
          BY <4>1 DEF Close
        <4>2. CASE \A e \in Entities : ~Close(e)
          <5>1. ~Return /\ (\A e \in Entities : ~Close(e)) /\ (\A r \in Resources : ~Visit(r))
            BY <1>3, <4>2
          <5> QED BY <5>1 DEF Next, vars, Whole, Sources, Open, Endpoints, Inherit, Bind, Secured,
                            Finish, walking
        <4> QED BY <4>1, <4>2
      <3> QED BY <3>1, DocStays
    <2>2. /\ \A x \in Resources : Resolved(x) => Resolved(x)'
          /\ \A c : ResolvedBelow(c) => ResolvedBelow(c)'
      <3>1. \A x \in Resources : Resolved(x) => Resolved(x)'
        BY <2>1, ResolvedStays
      <3> QED BY <3>1 DEF ResolvedBelow
    <2>3. CASE \E e \in Entities : Close(e)
      <3>1. PICK e \in Entities : Close(e)
        BY <2>3
      <3>2. /\ walk = <<>> /\ Closed' = Closed \cup {e}
            /\ IF e \in Tops THEN walk' # <<>> /\ Len(walk') = 1 /\ walk'[1].rest = <<e>>
               ELSE walk' = <<>>
        BY <3>1, CloseWalked
      <3>3. 2..Len(walk') = {}
        <4>1. CASE Len(walk') = 1
          BY <4>1
        <4>2. CASE walk' = <<>>
          BY <4>2
        <4> QED BY <3>2, <4>1, <4>2
      <3>4. ASSUME NEW u \in Tops \cap Closed', ~Current(u)' PROVE ResolvedBelow(u)'
        <4>1. u # e /\ u \in Closed
          BY <3>2, <3>4 DEF Current
        <4>2. ResolvedBelow(u)
          BY <3>2, <4>1 DEF WalkResolved, Current
        <4> QED BY <2>2, <4>2
      <3>5. walk' # <<>> => walk'[1].at = API
        <4>1. walk' # <<>> => walk' = <<[at |-> API, held |-> FALSE, register |-> TRUE,
                                         failure |-> {}, rest |-> <<e>>]>>
          BY <3>1, <3>2 DEF Close
        <4> QED BY <4>1
      <3> QED BY <2>1, <3>3, <3>4, <3>5 DEF WalkResolved
    <2>4. CASE \A e \in Entities : ~Close(e)
      <3>1. walk' = walk /\ Closed' = Closed
        BY <1>3, <2>4, WalkStays
      <3>2. (\A u : Current(u)' <=> Current(u)) /\ \A k : Behind(k)' = Behind(k)
        BY <3>1 DEF Current, Behind
      <3>3. \A u \in Tops \cap Closed : ~Current(u) => ResolvedBelow(u)'
        BY <2>2 DEF WalkResolved
      <3>4. \A k \in 2..Len(walk) : /\ \A b \in Resources : walk[k].at = b => Resolved(b)'
                                    /\ \A c \in Behind(k) : ResolvedBelow(c)'
        BY <2>2 DEF WalkResolved
      <3> QED BY <2>1, <3>1, <3>2, <3>3, <3>4 DEF WalkResolved
    <2> QED BY <2>3, <2>4
  <1> QED BY <1>1, <1>2, <1>3

LEMMA WalkResolvedInit == Init => WalkResolved
  <1> SUFFICES ASSUME Init PROVE WalkResolved
    OBVIOUS
  <1>1. walk = <<>> /\ 2..Len(walk) = {} /\ Closed = {}
    BY DEF Init, Closed
  <1>2. DOMAIN params = Resources \cup {API} /\ params[API] = NoParameters
    BY DEF Init
  <1> QED BY <1>1, <1>2 DEF WalkResolved

LEMMA ResolvedImplied ==
    ASSUME Orderly, WalkResolved
    PROVE  UriParametersByPath
  <1> SUFFICES ASSUME step # "walk", NEW t \in Tops \cap Closed, NEW r \in Below[t] \cap Resources
               PROVE  LET counted == Counted(r)
                          steps == UNION {DOMAIN Gives(s) : s \in counted}
                          Places(x) == {p \in counted \X steps :
                                          p[2] \in DOMAIN Gives(p[1]) /\ Gives(p[1])[p[2]] = x}
                          Before(p, q) == IF p[1] = q[1] THEN p[2] < q[2] ELSE q[1] \in Below[p[1]]
                          names == params[r].names
                          of == params[r].of
                      IN /\ IsInjective(names) /\ DOMAIN of = ToSet(names)
                         /\ ToSet(names) = {x \in Variable : Places(x) # {}}
                         /\ \A i, j \in DOMAIN names : i < j =>
                              \E p \in Places(names[i]) : \A q \in Places(names[j]) : Before(p, q)
                         /\ \A x \in ToSet(names) :
                              /\ \E p \in Places(x) : p[1] = of[x]
                              /\ \A q \in Places(x) : of[x] \in Below[q[1]]
    BY DEF UriParametersByPath, Tops, Closed
  <1> DEFINE on == Counted(r)
             steps == UNION {DOMAIN Gives(s) : s \in on}
             Places(x) == {p \in on \X steps :
                             p[2] \in DOMAIN Gives(p[1]) /\ Gives(p[1])[p[2]] = x}
             Before(p, q) == IF p[1] = q[1] THEN p[2] < q[2] ELSE q[1] \in Below[p[1]]
             names == params[r].names
             of == params[r].of
  <1>1. ByPath(params[r], on)
    <2>1. ~Current(t)
      BY DEF Orderly, Ordered, Current
    <2> QED BY <2>1 DEF WalkResolved, ResolvedBelow, Resolved
  <1>2. /\ IsInjective(names) /\ DOMAIN of = ToSet(names)
        /\ \A x : x \in ToSet(names) <=> x \in Variable /\ \E s \in on : Writes(s, x)
        /\ \A i, j \in DOMAIN names : i < j =>
             \E s \in on : \E k \in DOMAIN Gives(s) :
                /\ Gives(s)[k] = names[i]
                /\ \A u \in on : \A l \in DOMAIN Gives(u) :
                     Gives(u)[l] = names[j] => IF s = u THEN k < l ELSE u \in Below[s]
        /\ \A x \in ToSet(names) :
             /\ of[x] \in on /\ Writes(of[x], x)
             /\ \A s \in on : Writes(s, x) => of[x] \in Below[s]
    BY <1>1 DEF ByPath
  <1> HIDE DEF on, names, of
  <1>3. /\ \A x : \A p \in Places(x) :
             p[1] \in on /\ p[2] \in DOMAIN Gives(p[1]) /\ Gives(p[1])[p[2]] = x
        /\ \A x : \A s \in on : \A k \in DOMAIN Gives(s) :
             Gives(s)[k] = x => /\ <<s, k>> \in Places(x)
                                   /\ <<s, k>>[1] = s /\ <<s, k>>[2] = k
    OBVIOUS
  <1> HIDE DEF steps, Places
  <1>4. \A x : Places(x) # {} <=> \E s \in on : Writes(s, x)
    <2>1. ASSUME NEW x, NEW p \in Places(x) PROVE \E s \in on : Writes(s, x)
      BY <1>3, <2>1 DEF Writes
    <2>2. ASSUME NEW x, NEW s \in on, Writes(s, x) PROVE \E p \in Places(x) : p[1] = s
      <3>1. PICK k \in DOMAIN Gives(s) : Gives(s)[k] = x
        BY <2>2 DEF Writes
      <3>2. <<s, k>> \in Places(x) /\ <<s, k>>[1] = s
        BY <1>3, <3>1
      <3> QED BY <3>2
    <2> QED BY <2>1, <2>2
  <1>5. ToSet(names) = {x \in Variable : Places(x) # {}}
    BY <1>2, <1>4
  <1>6. ASSUME NEW i \in DOMAIN names, NEW j \in DOMAIN names, i < j
        PROVE  \E p \in Places(names[i]) : \A q \in Places(names[j]) : Before(p, q)
    <2>4. PICK s \in on : \E k \in DOMAIN Gives(s) :
            /\ Gives(s)[k] = names[i]
            /\ \A u \in on : \A l \in DOMAIN Gives(u) :
                 Gives(u)[l] = names[j] => IF s = u THEN k < l ELSE u \in Below[s]
      BY <1>2, <1>6
    <2>1. PICK k \in DOMAIN Gives(s) :
            /\ Gives(s)[k] = names[i]
            /\ \A u \in on : \A l \in DOMAIN Gives(u) :
                 Gives(u)[l] = names[j] => IF s = u THEN k < l ELSE u \in Below[s]
      BY <2>4
    <2>2. <<s, k>> \in Places(names[i]) /\ <<s, k>>[1] = s /\ <<s, k>>[2] = k
      BY <1>3, <2>1
    <2>3. \A q \in Places(names[j]) : Before(<<s, k>>, q)
      BY <1>3, <2>1, <2>2
    <2> QED BY <2>2, <2>3
  <1>7. ASSUME NEW x \in ToSet(names)
        PROVE  /\ \E p \in Places(x) : p[1] = of[x]
               /\ \A q \in Places(x) : of[x] \in Below[q[1]]
    <2>1. PICK s \in on : s = of[x] /\ Writes(s, x)
      BY <1>2
    <2>2. \E p \in Places(x) : p[1] = of[x]
      <3>1. PICK k \in DOMAIN Gives(s) : Gives(s)[k] = x
        BY <2>1 DEF Writes
      <3>2. <<s, k>> \in Places(x) /\ <<s, k>>[1] = s
        BY <1>3, <3>1
      <3> QED BY <2>1, <3>2
    <2>3. \A q \in Places(x) : q[1] \in on /\ Writes(q[1], x)
      BY <1>3 DEF Writes
    <2> QED BY <1>2, <2>2, <2>3
  <1> QED BY <1>2, <1>5, <1>6, <1>7 DEF on, names, of, steps, Places

(* The parameters of what was walked are the variables of its URI, from the*)
(* innermost path that is not well formed if there is one, once, in the    *)
(* order of the path, each of the innermost resource that writes it        *)
(* (endpoint_build.py, _resolve_uri_parameters).                           *)
THEOREM SpecUriParametersByPath == Spec => []UriParametersByPath
  <1> DEFINE IInv == Orderly /\ Pathed /\ MarkedInside /\ Walked /\ WalkResolved
  <1>1. Init => IInv
    BY OrderlyInit, PathedInit, MarkedInsideInit, WalkMarkedInit, WalkResolvedInit
  <1>2. IInv /\ [Next]_vars => IInv'
    <2> SUFFICES ASSUME IInv, [Next]_vars PROVE IInv'
      OBVIOUS
    <2>1. Orderly' /\ Pathed'
      BY OrderlyNext, PathedNext
    <2>2. MarkedInside' /\ Walked' /\ WalkResolved'
      BY MarkedInsideNext, WalkedNext, WalkResolvedNext
    <2> QED BY <2>1, <2>2
  <1>3. IInv => UriParametersByPath
    BY ResolvedImplied
  <1> HIDE DEF IInv
  <1> QED BY <1>1, <1>2, <1>3, PTL DEF Spec
=============================================================================
