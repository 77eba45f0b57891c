------------------------ MODULE ShapeResolution_proofs ------------------------
(***************************************************************************)
(* For any declarations: a kind that P7 settles is the one the definition  *)
(* gives, the settled references have no cycle, a declaration is walked    *)
(* once in a model without mistakes, and one left without a kind is marked.*)
(*                                                                         *)
(* Each of the least sets in these properties is reached from below: a     *)
(* shape is settled when all it names is, so any closed set that has what  *)
(* was settled before has it too.                                          *)
(***************************************************************************)
EXTENDS ShapeResolution, SequenceSets, FiniteSetTheorems, TLAPS

Calls == [shape : Shapes, left : Seq(Shapes \cup {Missing})]
SettledShapes == {s \in Shapes : Settled(s)}

TypeOK ==
    /\ model \in Corpus
    /\ kind \in [Shapes -> Kinds \cup {Unknown}]
    /\ edges \in [Shapes -> SUBSET SettledShapes]
    /\ queue \in Seq(Shapes) /\ stack \in Seq(Calls)
    /\ DOMAIN chainFailure \subseteq Shapes

(* The stack is a path of names: each call is in one of the names of the   *)
(* call it is inside of, and the names before that one are settled.        *)
Path(calls) ==
    /\ \A i \in 1..Len(calls) :
        /\ ~Settled(calls[i].shape)
        /\ ToSet(calls[i].left) \subseteq Names[calls[i].shape]
    /\ \A i \in 1..(Len(calls) - 1) :
        /\ calls[i + 1].shape \in Names[calls[i].shape]
        /\ Names[calls[i].shape] \subseteq
                SettledShapes \cup ToSet(calls[i].left) \cup {calls[i + 1].shape}
    /\ \A i, j \in 1..Len(calls) : calls[i].shape = calls[j].shape => i = j
ShapesOf(calls) == {calls[i].shape : i \in 1..Len(calls)}
PathOfNames ==
    /\ Path(stack) /\ visiting = ShapesOf(stack)
    /\ stack # <<>> => Names[Top.shape] \subseteq SettledShapes \cup ToSet(Top.left)

(* What has its kind already is not walked, and what has none refers to    *)
(* nothing yet.                                                            *)
KnownSettled == \A s \in Shapes : model.form[s] = "known" => Settled(s)
UnsettledNoEdges == \A s \in Shapes : ~Settled(s) => edges[s] = {}

FailuresTooDeep ==
    \A s \in DOMAIN chainFailure : chainFailure[s].what = "too deep" /\ broken[s] # {}

(* A declaration P7 is to settle is, or is being walked, or is marked, or  *)
(* is still to come.                                                       *)
Attended(s) == Settled(s) \/ broken[s] # {} \/ s \in visiting
AllAttended ==
    /\ entered \subseteq Shapes
    /\ \A s \in entered : Attended(s)
    /\ \A s \in ToSet(model.worklist) : Attended(s) \/ s \in ToSet(queue)

(* In a model without mistakes, nothing walked is to be walked again.      *)
WithoutMistakes == Resolvable = Shapes /\ model.faulty = {}
OnceOnly ==
    WithoutMistakes =>
        /\ again = {}
        /\ \A s \in entered : Settled(s) \/ s \in visiting \/ s \in DOMAIN chainFailure

IInv ==
    /\ TypeOK /\ PathOfNames /\ KnownSettled /\ UnsettledNoEdges /\ FailuresTooDeep
    /\ AllAttended /\ OnceOnly /\ KindsByDefinition /\ EdgesAcyclic
-----------------------------------------------------------------------------
LEMMA ModelFacts ==
    ASSUME model \in Corpus
    PROVE  /\ Missing \notin Shapes /\ Unknown \notin Kinds
           /\ model.names \in [Shapes -> Seq(Shapes \cup {Missing})]
           /\ model.under \in [Shapes -> Seq(Shapes)]
           /\ model.kind \in [Shapes -> Kinds] /\ model.form \in [Shapes -> Forms]
           /\ model.worklist \in Seq(Shapes)
           /\ \A s \in Shapes :
                /\ model.form[s] = "known" <=> model.names[s] = <<>>
                /\ Names[s] \subseteq Shapes \cup {Missing}
                /\ model.form[s] # "known" => model.names[s][1] \in Names[s]
  <1>1. model \in Models
    BY CorpusAssumption
  <1>2. ASSUME NEW s \in Shapes
        PROVE  /\ model.form[s] = "known" <=> model.names[s] = <<>>
               /\ Names[s] \subseteq Shapes \cup {Missing}
               /\ model.form[s] # "known" => model.names[s][1] \in Names[s]
    <2>1. model.names[s] \in Seq(Shapes \cup {Missing})
      BY <1>1 DEF Models
    <2>2. model.form[s] = "known" <=> model.names[s] = <<>>
      BY CorpusAssumption
    <2>3. Names[s] = ToSet(model.names[s])
      BY DEF Names
    <2>4. Names[s] \subseteq Shapes \cup {Missing}
      BY <2>1, <2>3, LenProperties, ElementOfSeq DEF ToSet
    <2>5. model.names[s] # <<>> => 1 \in DOMAIN model.names[s]
      BY <2>1, LenProperties, EmptySeq
    <2> QED BY <2>2, <2>3, <2>4, <2>5 DEF ToSet
  <1> QED BY <1>1, <1>2, CorpusAssumption DEF Models

LEMMA InitIInv == Init => IInv
  <1> SUFFICES ASSUME Init PROVE IInv
    OBVIOUS
  <1>1. model \in Corpus
    BY DEF Init
  <1>2. kind = [s \in Shapes |-> IF model.form[s] = "known" THEN model.kind[s] ELSE Unknown]
        /\ edges = [s \in Shapes |-> {}] /\ stack = <<>> /\ chainFailure = [s \in {} |-> s]
        /\ visiting = {} /\ entered = {} /\ again = {} /\ queue = model.worklist
    BY DEF Init
  <1>3. kind \in [Shapes -> Kinds \cup {Unknown}]
    BY <1>1, <1>2, ModelFacts
  <1>4. \A s \in Shapes : Settled(s) <=> model.form[s] = "known"
    BY <1>1, <1>2, ModelFacts DEF Settled
  <1>5. TypeOK
    BY <1>1, <1>2, <1>3, ModelFacts DEF TypeOK
  <1>6. PathOfNames
    BY <1>2 DEF PathOfNames, Path, ShapesOf
  <1>7. KnownSettled /\ UnsettledNoEdges /\ FailuresTooDeep /\ AllAttended /\ OnceOnly
    BY <1>2, <1>4 DEF KnownSettled, UnsettledNoEdges, FailuresTooDeep, AllAttended, OnceOnly
  <1>8. KindsByDefinition
    <2> SUFFICES ASSUME NEW s \in Shapes, Settled(s)
                 PROVE  s \in Resolvable /\ s \in Defined(kind[s])
      BY DEF KindsByDefinition
    <2>1. model.form[s] = "known" /\ kind[s] = model.kind[s]
      BY <1>2, <1>4
    <2>2. Names[s] = {}
      BY <1>1, <2>1, ModelFacts DEF Names, ToSet
    <2>3. s \in Resolvable
      BY <2>2 DEF Resolvable, Grounded
    <2>4. s \in Defined(kind[s])
      BY <2>1 DEF Defined
    <2> QED BY <2>3, <2>4
  <1>9. EdgesAcyclic
    BY <1>2 DEF EdgesAcyclic, Grounded
  <1> QED BY <1>5, <1>6, <1>7, <1>8, <1>9 DEF IInv
-----------------------------------------------------------------------------
(* Declarations that hold one another up, or name what is bound to nothing,*)
(* have no kind by definition; in a model without mistakes there are none. *)
LEMMA StuckUnsound ==
    ASSUME model \in Corpus, NEW C \in SUBSET Shapes,
           \A t \in C : Names[t] \cap (C \cup {Missing}) # {}
    PROVE  C \cap Resolvable = {}
  <1> DEFINE X == Shapes \ C
  <1>1. \A t \in Shapes : Names[t] \subseteq X => t \in X
    BY ModelFacts
  <1>2. \A s \in Resolvable : s \in X
    BY <1>1 DEF Resolvable, Grounded
  <1> QED BY <1>2

LEMMA NoneStuck ==
    ASSUME model \in Corpus, Resolvable = Shapes, NEW C \in SUBSET Shapes,
           \A t \in C : Names[t] \cap (C \cup {Missing}) # {}
    PROVE  C = {}
  BY StuckUnsound

(* Steps that settle nothing.                                              *)
LEMMA SameKinds ==
    ASSUME IInv, UNCHANGED <<model, kind, edges>>
    PROVE  /\ KindsByDefinition' /\ EdgesAcyclic' /\ KnownSettled' /\ UnsettledNoEdges'
           /\ SettledShapes' = SettledShapes /\ Names' = Names /\ Resolvable' = Resolvable
           /\ \A s : Settled(s)' <=> Settled(s)
  <1>1. Names' = Names /\ \A s : Settled(s)' <=> Settled(s)
    BY DEF Names, Settled
  <1>2. Resolvable' = Resolvable
    BY <1>1 DEF Resolvable, Grounded
  <1>3. SettledShapes' = SettledShapes
    BY <1>1 DEF SettledShapes
  <1>4. \A its : Defined(its)' = Defined(its)
    BY DEF Defined
  <1>5. KindsByDefinition'
    BY <1>1, <1>2, <1>4 DEF IInv, KindsByDefinition
  <1>6. EdgesAcyclic'
    BY DEF IInv, EdgesAcyclic, Grounded
  <1>7. KnownSettled' /\ UnsettledNoEdges'
    BY <1>1 DEF IInv, KnownSettled, UnsettledNoEdges
  <1> QED BY <1>1, <1>2, <1>3, <1>5, <1>6, <1>7

(* A call on top of the stack, and the stack once it takes its next name.  *)
LEMMA TopFacts ==
    ASSUME IInv, stack # <<>>
    PROVE  /\ Len(stack) \in Nat \ {0} /\ Top = stack[Len(stack)] /\ Top \in Calls
           /\ Top.shape \in Shapes /\ Top.shape \in visiting /\ ~Settled(Top.shape)
           /\ Names[Top.shape] \subseteq SettledShapes \cup ToSet(Top.left)
           /\ Front(stack) \in Seq(Calls) /\ Len(Front(stack)) = Len(stack) - 1
           /\ \A i \in 1..(Len(stack) - 1) : Front(stack)[i] = stack[i]
  <1>1. stack \in Seq(Calls)
    BY DEF IInv, TypeOK
  <1>2. \E f : f \in Calls
    BY <1>1, ElementOfSeq, EmptySeq
  <1>3. /\ Len(stack) \in Nat \ {0} /\ Top = stack[Len(stack)] /\ Top \in Calls
        /\ Front(stack) \in Seq(Calls) /\ Len(Front(stack)) = Len(stack) - 1
        /\ \A i \in 1..(Len(stack) - 1) : Front(stack)[i] = stack[i]
    BY <1>1, <1>2, LastReplaced DEF Top
  <1>4. Len(stack) \in 1..Len(stack)
    BY <1>3
  <1> QED BY <1>3, <1>4 DEF IInv, PathOfNames, Path, ShapesOf, Calls

LEMMA AdvancedFacts ==
    ASSUME IInv, Following
    PROVE  /\ Referent \in Names[Top.shape] /\ Referent \in Shapes \cup {Missing}
           /\ Advanced \in Seq(Calls) /\ Len(Advanced) = Len(stack)
           /\ Path(Advanced) /\ ShapesOf(Advanced) = visiting
           /\ Advanced[Len(stack)].shape = Top.shape
           /\ \A i \in 1..Len(stack) : Advanced[i].shape = stack[i].shape
           /\ Names[Top.shape] \subseteq
                SettledShapes \cup ToSet(Advanced[Len(stack)].left) \cup {Referent}
  <1>1. stack # <<>> /\ Top.left # <<>> /\ stack \in Seq(Calls)
    BY DEF Following, IInv, TypeOK
  <1>2. Top \in Calls /\ Top = stack[Len(stack)] /\ Len(stack) \in Nat \ {0}
        /\ Names[Top.shape] \subseteq SettledShapes \cup ToSet(Top.left)
    BY <1>1, TopFacts
  <1>3. Top.left \in Seq(Shapes \cup {Missing})
    BY <1>2 DEF Calls
  <1>4. /\ Referent \in Shapes \cup {Missing} /\ Tail(Top.left) \in Seq(Shapes \cup {Missing})
        /\ ToSet(Top.left) = {Referent} \cup ToSet(Tail(Top.left))
    BY <1>1, <1>3, TailSet DEF Referent
  <1> DEFINE f == [Top EXCEPT !.left = Tail(@)]
  <1>5. f \in Calls /\ f.shape = Top.shape /\ f.left = Tail(Top.left)
    BY <1>2, <1>4 DEF Calls
  <1> HIDE DEF f
  <1>6. /\ Advanced \in Seq(Calls) /\ Len(Advanced) = Len(stack)
        /\ \A i \in 1..Len(stack) : Advanced[i] = IF i = Len(stack) THEN f ELSE stack[i]
    <2>1. Advanced = Append(Front(stack), f)
      BY DEF Advanced, f
    <2> QED BY <1>1, <1>5, <2>1, LastReplaced
  <1>7. Path(stack) /\ visiting = ShapesOf(stack)
    BY DEF IInv, PathOfNames
  <1>8. \A i \in 1..Len(stack) :
            /\ Advanced[i].shape = stack[i].shape
            /\ ToSet(Advanced[i].left) \subseteq ToSet(stack[i].left)
            /\ i # Len(stack) => Advanced[i] = stack[i]
    BY <1>2, <1>4, <1>5, <1>6
  <1>9. \A i \in 1..(Len(stack) - 1) : i \in 1..Len(stack) /\ i + 1 \in 1..Len(stack) /\ i # Len(stack)
    BY <1>2
  <1>10. Path(Advanced)
    <2>1. \A i \in 1..Len(Advanced) :
            /\ ~Settled(Advanced[i].shape)
            /\ ToSet(Advanced[i].left) \subseteq Names[Advanced[i].shape]
      BY <1>6, <1>7, <1>8 DEF Path
    <2>2. \A i \in 1..(Len(Advanced) - 1) :
            /\ Advanced[i + 1].shape \in Names[Advanced[i].shape]
            /\ Names[Advanced[i].shape] \subseteq
                    SettledShapes \cup ToSet(Advanced[i].left) \cup {Advanced[i + 1].shape}
      BY <1>6, <1>7, <1>8, <1>9 DEF Path
    <2>3. \A i, j \in 1..Len(Advanced) : Advanced[i].shape = Advanced[j].shape => i = j
      BY <1>6, <1>7, <1>8 DEF Path
    <2> QED BY <2>1, <2>2, <2>3 DEF Path
  <1>11. ShapesOf(Advanced) = visiting
    BY <1>6, <1>7, <1>8 DEF ShapesOf
  <1>12. Len(stack) \in 1..Len(stack)
    BY <1>2
  <1>13. Referent \in Names[Top.shape]
    BY <1>2, <1>4, <1>7, <1>12 DEF Path
  <1>14. Advanced[Len(stack)] = f
    BY <1>6, <1>12
  <1> QED BY <1>2, <1>4, <1>5, <1>6, <1>8, <1>10, <1>11, <1>13, <1>14
-----------------------------------------------------------------------------
(* The steps.                                                              *)

(* A declaration is entered over a path to it.                             *)
LEMMA EnterStep ==
    ASSUME IInv, NEW s \in Shapes, ~Settled(s), s \notin visiting,
           s \notin DOMAIN chainFailure,
           NEW base \in Seq(Calls), Path(base), ShapesOf(base) = visiting, Enter(s, base),
           base # <<>> =>
                /\ s \in Names[base[Len(base)].shape]
                /\ Names[base[Len(base)].shape] \subseteq
                        SettledShapes \cup ToSet(base[Len(base)].left) \cup {s},
           queue' \in Seq(Shapes), ToSet(queue) \subseteq ToSet(queue') \cup {s}
    PROVE  IInv'
  <1> DEFINE f == [shape |-> s, left |-> model.names[s]]
  <1>1. /\ stack' = Append(base, f) /\ visiting' = visiting \cup {s}
        /\ entered' = entered \cup {s}
        /\ again' = IF s \in entered THEN again \cup {s} ELSE again
        /\ UNCHANGED <<model, kind, edges, chainFailure, broken, errors>>
    BY DEF Enter
  <1>2. /\ KindsByDefinition' /\ EdgesAcyclic' /\ KnownSettled' /\ UnsettledNoEdges'
        /\ SettledShapes' = SettledShapes /\ Names' = Names /\ Resolvable' = Resolvable
        /\ \A t : Settled(t)' <=> Settled(t)
    BY <1>1, SameKinds
  <1>3. model \in Corpus
    BY DEF IInv, TypeOK
  <1>4. f \in Calls /\ f.shape = s /\ ToSet(f.left) = Names[s]
    BY <1>3, ModelFacts DEF Calls, Names
  <1> HIDE DEF f
  <1> DEFINE n == Len(base)
  <1>5. /\ n \in Nat /\ stack' \in Seq(Calls) /\ Len(stack') = n + 1 /\ stack' # <<>>
        /\ \A i \in 1..n : stack'[i] = base[i]
        /\ stack'[n + 1] = f
    BY <1>1, <1>4, AppendProperties, LenProperties
  <1>6. n # 0 => base # <<>> /\ n \in 1..n
    BY <1>5, EmptySeq
  <1>7. \A i \in 1..(n + 1) : i \in 1..n \/ i = n + 1
    BY <1>5
  <1>8. \A i \in 1..n : base[i].shape \in visiting
    BY DEF ShapesOf
  <1>9. /\ \A i \in 1..n : ~Settled(base[i].shape) /\ ToSet(base[i].left) \subseteq Names[base[i].shape]
        /\ \A i \in 1..(n - 1) :
            /\ base[i + 1].shape \in Names[base[i].shape]
            /\ Names[base[i].shape] \subseteq
                    SettledShapes \cup ToSet(base[i].left) \cup {base[i + 1].shape}
        /\ \A i, j \in 1..n : base[i].shape = base[j].shape => i = j
    BY DEF Path
  <1>10. Path(stack)'
    <2>1. ASSUME NEW i \in 1..Len(stack')
          PROVE  /\ kind'[stack'[i].shape] = Unknown
                 /\ ToSet(stack'[i].left) \subseteq Names'[stack'[i].shape]
      <3>1. CASE i \in 1..n
        BY <1>1, <1>2, <1>5, <1>9, <3>1 DEF Settled
      <3>2. CASE i = n + 1
        BY <1>1, <1>2, <1>4, <1>5, <3>2 DEF Settled
      <3> QED BY <1>5, <1>7, <3>1, <3>2
    <2>2. ASSUME NEW i \in 1..(Len(stack') - 1)
          PROVE  /\ stack'[i + 1].shape \in Names'[stack'[i].shape]
                 /\ Names'[stack'[i].shape] \subseteq
                        SettledShapes' \cup ToSet(stack'[i].left) \cup {stack'[i + 1].shape}
      <3>1. i \in 1..n /\ stack'[i] = base[i]
        BY <1>5
      <3>2. CASE i = n
        BY <1>2, <1>4, <1>5, <1>6, <3>1, <3>2
      <3>3. CASE i # n
        <4>1. i \in 1..(n - 1) /\ i + 1 \in 1..n
          BY <1>5, <3>1, <3>3
        <4> QED BY <1>2, <1>5, <1>9, <3>1, <4>1
      <3> QED BY <3>2, <3>3
    <2>3. \A i, j \in 1..Len(stack') : stack'[i].shape = stack'[j].shape => i = j
      BY <1>4, <1>5, <1>7, <1>8, <1>9
    <2> QED BY <2>1, <2>2, <2>3 DEF Path, Settled
  <1>11. visiting' = ShapesOf(stack)'
    <2>1. \A t \in visiting : \E i \in 1..n : base[i].shape = t
      BY DEF ShapesOf
    <2>2. n + 1 \in 1..(n + 1) /\ \A i \in 1..n : i \in 1..(n + 1)
      BY <1>5
    <2>3. \A t \in visiting' : \E i \in 1..(n + 1) : stack'[i].shape = t
      <3> SUFFICES ASSUME NEW t \in visiting' PROVE \E i \in 1..(n + 1) : stack'[i].shape = t
        OBVIOUS
      <3>1. CASE t = s
        BY <1>4, <1>5, <2>2, <3>1
      <3>2. CASE t \in visiting
        BY <1>5, <2>1, <2>2, <3>2
      <3> QED BY <1>1, <3>1, <3>2
    <2>4. \A i \in 1..(n + 1) : stack'[i].shape \in visiting'
      BY <1>1, <1>4, <1>5, <1>7, <1>8
    <2> QED BY <1>5, <2>3, <2>4 DEF ShapesOf
  <1>12. PathOfNames'
    <2>1. Top' = f
      BY <1>5 DEF Top, Last
    <2> QED BY <1>2, <1>4, <1>10, <1>11, <2>1 DEF PathOfNames
  <1>13. TypeOK'
    BY <1>1, <1>2, <1>5 DEF IInv, TypeOK
  <1>14. FailuresTooDeep'
    BY <1>1 DEF IInv, FailuresTooDeep
  <1>15. AllAttended'
    BY <1>1, <1>2 DEF IInv, AllAttended, Attended
  <1>16. OnceOnly'
    BY <1>1, <1>2 DEF IInv, OnceOnly, WithoutMistakes
  <1> QED BY <1>2, <1>12, <1>13, <1>14, <1>15, <1>16 DEF IInv

(* An error leaves no call, and a mark on each shape it passed.            *)
LEMMA UnwindFacts ==
    ASSUME IInv, NEW error, NEW kinds, Unwind(error, kinds),
           \A s \in Shapes : Settled(s) => kinds[s] # Unknown,
           queue' \in Seq(Shapes), ToSet(queue) \subseteq ToSet(queue')
    PROVE  /\ stack' = <<>> /\ PathOfNames' /\ FailuresTooDeep' /\ AllAttended'
           /\ kind' = kinds /\ UNCHANGED <<model, walked>>
           /\ DOMAIN chainFailure' \subseteq Shapes
           /\ DOMAIN chainFailure \subseteq DOMAIN chainFailure'
           /\ error.what = "too deep" => visiting \subseteq DOMAIN chainFailure'
  <1> DEFINE passed == {stack[i].shape : i \in DOMAIN stack}
  <1>1. /\ stack' = <<>> /\ visiting' = visiting \ passed /\ kind' = kinds
        /\ broken' = [s \in Shapes |-> IF s \in passed THEN broken[s] \cup {error} ELSE broken[s]]
        /\ chainFailure' = IF error.what = "too deep"
                           THEN Failing(passed, error) ELSE chainFailure
        /\ UNCHANGED <<model, walked>>
    BY DEF Unwind
  <1>2. stack \in Seq(Calls) /\ DOMAIN chainFailure \subseteq Shapes
    BY DEF IInv, TypeOK
  <1>3. DOMAIN stack = 1..Len(stack) /\ \A i \in 1..Len(stack) : stack[i] \in Calls
    BY <1>2, LenProperties, ElementOfSeq
  <1>4. passed = visiting /\ passed \subseteq Shapes
    BY <1>3 DEF IInv, PathOfNames, ShapesOf, Calls
  <1>5. \A s \in DOMAIN chainFailure : chainFailure[s].what = "too deep" /\ broken[s] # {}
    BY DEF IInv, FailuresTooDeep
  <1> HIDE DEF passed
  <1>6. \A s \in Shapes : /\ broken[s] # {} => broken'[s] # {}
                          /\ s \in visiting => broken'[s] # {}
    BY <1>1, <1>4
  <1>7. visiting' = {} /\ PathOfNames'
    <2>1. visiting' = {}
      BY <1>1, <1>4
    <2>2. \A i \in 1..Len(<<>>) : FALSE
      OBVIOUS
    <2>3. \A i \in 1..(Len(<<>>) - 1) : FALSE
      OBVIOUS
    <2> QED BY <1>1, <2>1, <2>2, <2>3 DEF PathOfNames, Path, ShapesOf
  <1>8. /\ \A s \in DOMAIN chainFailure' :
            \/ s \in visiting /\ chainFailure'[s] = error /\ error.what = "too deep"
            \/ s \in DOMAIN chainFailure /\ chainFailure'[s] = chainFailure[s]
        /\ DOMAIN chainFailure \subseteq DOMAIN chainFailure'
        /\ error.what = "too deep" => visiting \subseteq DOMAIN chainFailure'
    <2>1. CASE error.what = "too deep"
      <3>1. chainFailure' = [s \in passed \cup DOMAIN chainFailure |->
                                IF s \in passed THEN error ELSE chainFailure[s]]
        BY <1>1, <2>1 DEF Failing
      <3> QED BY <1>4, <2>1, <3>1
    <2>2. CASE error.what # "too deep"
      <3>1. chainFailure' = chainFailure
        BY <1>1, <2>2
      <3> QED BY <2>2, <3>1
    <2> QED BY <2>1, <2>2
  <1>9. FailuresTooDeep' /\ DOMAIN chainFailure' \subseteq Shapes
    <2> SUFFICES ASSUME NEW s \in DOMAIN chainFailure'
                 PROVE  chainFailure'[s].what = "too deep" /\ broken'[s] # {} /\ s \in Shapes
      BY DEF FailuresTooDeep
    <2>1. CASE s \in visiting /\ chainFailure'[s] = error /\ error.what = "too deep"
      <3>1. s \in Shapes
        BY <1>4, <2>1
      <3>2. broken'[s] # {}
        BY <1>6, <2>1, <3>1
      <3>3. chainFailure'[s].what = "too deep"
        BY <2>1
      <3> QED BY <3>1, <3>2, <3>3
    <2>2. CASE s \in DOMAIN chainFailure /\ chainFailure'[s] = chainFailure[s]
      <3>1. s \in Shapes /\ chainFailure[s].what = "too deep" /\ broken[s] # {}
        BY <1>2, <1>5, <2>2
      <3>2. broken'[s] # {}
        BY <1>6, <3>1
      <3>3. chainFailure'[s].what = "too deep"
        BY <2>2, <3>1
      <3> QED BY <3>1, <3>2, <3>3
    <2> QED BY <1>8, <2>1, <2>2
  <1>10. \A s \in Shapes : Attended(s) => kind'[s] # Unknown \/ broken'[s] # {}
    BY <1>1, <1>6 DEF Attended
  <1>11. AllAttended'
    <2>1. entered' = entered /\ model' = model
      BY <1>1 DEF walked
    <2>2. model.worklist \in Seq(Shapes)
      BY ModelFacts DEF IInv, TypeOK
    <2>3. ToSet(model.worklist) \subseteq Shapes
      BY <2>2, LenProperties, ElementOfSeq DEF ToSet
    <2> QED BY <1>10, <2>1, <2>3 DEF IInv, AllAttended, Attended, Settled
  <1> QED BY <1>1, <1>7, <1>8, <1>9, <1>11, Zenon

(* The walk ends in an error; without mistakes only a chain's length is    *)
(* one.                                                                    *)
LEMMA UnwindStep ==
    ASSUME IInv, NEW error, Unwind(error, kind), UNCHANGED <<edges, queue>>,
           WithoutMistakes => error.what = "too deep"
    PROVE  IInv'
  <1>1. queue' \in Seq(Shapes) /\ ToSet(queue) \subseteq ToSet(queue')
    BY DEF IInv, TypeOK
  <1>2. \A s \in Shapes : Settled(s) => kind[s] # Unknown
    BY DEF Settled
  <1>3. /\ stack' = <<>> /\ PathOfNames' /\ FailuresTooDeep' /\ AllAttended'
        /\ kind' = kind /\ UNCHANGED <<model, walked>>
        /\ DOMAIN chainFailure' \subseteq Shapes
        /\ DOMAIN chainFailure \subseteq DOMAIN chainFailure'
        /\ error.what = "too deep" => visiting \subseteq DOMAIN chainFailure'
    BY <1>1, <1>2, UnwindFacts, Zenon
  <1>4. /\ KindsByDefinition' /\ EdgesAcyclic' /\ KnownSettled' /\ UnsettledNoEdges'
        /\ SettledShapes' = SettledShapes /\ Resolvable' = Resolvable
        /\ \A t : Settled(t)' <=> Settled(t)
    BY <1>3, SameKinds
  <1>5. TypeOK'
    <2>1. /\ model' \in Corpus /\ kind' \in [Shapes -> Kinds \cup {Unknown}]
          /\ edges' \in [Shapes -> SUBSET SettledShapes']
      BY <1>3, <1>4 DEF IInv, TypeOK
    <2>2. stack' \in Seq(Calls)
      BY <1>3, EmptySeq
    <2> QED BY <1>1, <1>3, <2>1, <2>2 DEF TypeOK
  <1>6. OnceOnly'
    <2>1. entered' = entered /\ again' = again
      BY <1>3 DEF walked
    <2> QED BY <1>3, <1>4, <2>1 DEF IInv, OnceOnly, WithoutMistakes
  <1> QED BY <1>3, <1>4, <1>5, <1>6 DEF IInv

LEMMA FailStep ==
    ASSUME IInv, FollowMissing \/ FollowVisiting \/ FollowFailed \/ FollowTooDeep
    PROVE  IInv'
  <1>1. Following /\ stack # <<>> /\ UNCHANGED <<edges, queue>>
    BY DEF FollowMissing, FollowVisiting, FollowFailed, FollowTooDeep, Open, Following
  <1>2. Referent \in Names[Top.shape] /\ Top.shape \in Shapes
    BY <1>1, AdvancedFacts, TopFacts
  <1>3. model \in Corpus
    BY DEF IInv, TypeOK
  <1>4. CASE FollowMissing
    <2> DEFINE error == Error("unbound", Top.shape)
    <2>1. Unwind(error, kind) /\ Referent = Missing
      BY <1>4 DEF FollowMissing
    <2>2. error.what # "too deep"
      BY DEF Error
    <2>3. ~WithoutMistakes
      <3> DEFINE C == {Top.shape}
      <3> SUFFICES ASSUME Resolvable = Shapes PROVE FALSE
        BY DEF WithoutMistakes
      <3>1. C \in SUBSET Shapes /\ \A t \in C : Names[t] \cap (C \cup {Missing}) # {}
        BY <1>2, <2>1
      <3>2. C = {}
        BY <1>3, <3>1, NoneStuck
      <3> QED BY <3>2
    <2> HIDE DEF error
    <2> QED BY <1>1, <2>1, <2>2, <2>3, UnwindStep
  <1>5. CASE FollowVisiting
    <2> DEFINE error == Error("cyclic", Referent)
    <2>1. Unwind(error, kind) /\ Referent \in visiting
      BY <1>5 DEF FollowVisiting
    <2>2. error.what # "too deep"
      BY DEF Error
    <2>3. ~WithoutMistakes
      <3> SUFFICES ASSUME Resolvable = Shapes PROVE FALSE
        BY DEF WithoutMistakes
      <3> DEFINE n == Len(stack)
      <3>1. stack \in Seq(Calls) /\ n \in Nat \ {0} /\ Top = stack[n]
        BY <1>1, TopFacts DEF IInv, TypeOK
      <3>2. \A i \in 1..n : stack[i].shape \in Shapes
        <4>1. \A i \in 1..n : stack[i] \in Calls
          BY <3>1, ElementOfSeq
        <4> QED BY <4>1 DEF Calls
      <3>3. PICK j \in 1..n : stack[j].shape = Referent
        BY <2>1 DEF IInv, PathOfNames, ShapesOf
      <3>4. \A i \in 1..(n - 1) : stack[i + 1].shape \in Names[stack[i].shape]
        BY DEF IInv, PathOfNames, Path
      <3> DEFINE C == {stack[i].shape : i \in j..n}
      <3>5. C \in SUBSET Shapes /\ Referent \in C
        BY <3>1, <3>2, <3>3
      <3>6. ASSUME NEW i \in j..n PROVE Names[stack[i].shape] \cap C # {}
        <4>1. CASE i = n
          BY <1>2, <3>1, <3>5, <4>1
        <4>2. CASE i # n
          <5>1. i \in 1..(n - 1) /\ i + 1 \in j..n
            BY <3>1, <3>3, <4>2
          <5> QED BY <3>4, <5>1
        <4> QED BY <4>1, <4>2
      <3>7. \A t \in C : Names[t] \cap (C \cup {Missing}) # {}
        BY <3>6
      <3> HIDE DEF C
      <3>8. C = {}
        BY <1>3, <3>5, <3>7, NoneStuck
      <3> QED BY <3>5, <3>8
    <2> HIDE DEF error
    <2> QED BY <1>1, <2>1, <2>2, <2>3, UnwindStep
  <1>6. CASE FollowFailed
    <2> DEFINE error == chainFailure[Referent]
    <2>1. Unwind(error, kind) /\ Referent \in DOMAIN chainFailure
      BY <1>6 DEF FollowFailed
    <2>2. error.what = "too deep"
      BY <2>1 DEF IInv, FailuresTooDeep
    <2> HIDE DEF error
    <2> QED BY <1>1, <2>1, <2>2, UnwindStep
  <1>7. CASE FollowTooDeep
    <2> DEFINE error == Error("too deep", Referent)
    <2>1. Unwind(error, kind)
      BY <1>7 DEF FollowTooDeep
    <2>2. error.what = "too deep"
      BY DEF Error
    <2> HIDE DEF error
    <2> QED BY <1>1, <2>1, <2>2, UnwindStep
  <1> QED BY <1>4, <1>5, <1>6, <1>7

(* A shape is settled once all it names is: it takes the kind it has by    *)
(* definition.                                                             *)
LEMMA SettledKinds ==
    ASSUME IInv, Settling, model' = model,
           kind' = [kind EXCEPT ![Top.shape] = Kind(Top.shape)]
    PROVE  /\ kind' \in [Shapes -> Kinds \cup {Unknown}]
           /\ \A s \in Shapes :
                /\ kind'[s] # Unknown <=> kind[s] # Unknown \/ s = Top.shape
                /\ kind[s] # Unknown => kind'[s] = kind[s]
           /\ SettledShapes' = SettledShapes \cup {Top.shape}
           /\ Names[Top.shape] \subseteq SettledShapes
           /\ Names' = Names /\ Resolvable' = Resolvable
           /\ KindsByDefinition' /\ KnownSettled'
  <1> DEFINE s == Top.shape
  <1>1. /\ stack # <<>> /\ Top.left = <<>> /\ s \in Shapes /\ ~Settled(s)
        /\ Names[s] \subseteq SettledShapes \cup ToSet(Top.left)
    BY TopFacts DEF Settling
  <1>2. Names[s] \subseteq SettledShapes
    BY <1>1 DEF ToSet
  <1>3. model \in Corpus /\ kind \in [Shapes -> Kinds \cup {Unknown}]
    BY DEF IInv, TypeOK
  <1>4. /\ Unknown \notin Kinds /\ model.kind \in [Shapes -> Kinds]
        /\ model.form[s] # "known" => model.names[s][1] \in Names[s]
    BY <1>1, <1>3, ModelFacts
  <1>5. model.form[s] # "known"
    BY <1>1 DEF IInv, KnownSettled
  <1>6. model.names[s][1] \in Shapes /\ kind[model.names[s][1]] # Unknown
    BY <1>2, <1>4, <1>5 DEF SettledShapes, Settled
  <1>7. Kind(s) \in Kinds
    BY <1>1, <1>3, <1>4, <1>6 DEF Kind
  <1> DEFINE k == Kind(s)
  <1>8. kind' = [kind EXCEPT ![s] = k]
    OBVIOUS
  <1>9. k = IF model.form[s] = "expression" THEN model.kind[s] ELSE kind[model.names[s][1]]
    BY DEF Kind
  <1> HIDE DEF s, k
  <1>10. /\ kind' \in [Shapes -> Kinds \cup {Unknown}]
         /\ \A t \in Shapes : kind'[t] = IF t = s THEN k ELSE kind[t]
    BY <1>1, <1>3, <1>7, <1>8 DEF k
  <1>11. k # Unknown /\ kind[s] = Unknown
    BY <1>1, <1>4, <1>7 DEF k, Settled
  <1>12. \A t \in Shapes : /\ kind'[t] # Unknown <=> kind[t] # Unknown \/ t = s
                           /\ kind[t] # Unknown => kind'[t] = kind[t]
    BY <1>10, <1>11
  <1>13. SettledShapes' = SettledShapes \cup {s}
    BY <1>1, <1>12 DEF SettledShapes, Settled
  <1>14. Names' = Names
    BY DEF Names
  <1>15. Resolvable' = Resolvable
    BY <1>14 DEF Resolvable, Grounded
  <1>16. \A its : Defined(its)' = Defined(its)
    BY DEF Defined
  <1>17. \A t \in Shapes : kind[t] # Unknown => t \in Resolvable /\ t \in Defined(kind[t])
    BY DEF IInv, KindsByDefinition, Settled
  <1>18. s \in Resolvable
    <2> SUFFICES ASSUME NEW X \in SUBSET Shapes,
                        \A t \in Shapes : Names[t] \subseteq X => t \in X
                 PROVE  s \in X
      BY <1>1 DEF Resolvable, Grounded
    <2>1. ASSUME NEW t \in Names[s] PROVE t \in X
      <3>1. t \in Resolvable
        BY <1>2, <1>17, <2>1 DEF SettledShapes, Settled, s
      <3> QED BY <3>1 DEF Resolvable, Grounded
    <2> QED BY <1>1, <2>1
  <1>19. s \in Defined(k)
    <2> SUFFICES ASSUME NEW X \in SUBSET Shapes,
                        \A t \in Shapes :
                            (IF model.form[t] \in {"known", "expression"} THEN model.kind[t] = k
                             ELSE model.names[t][1] \in X) => t \in X
                 PROVE  s \in X
      BY <1>1 DEF Defined
    <2>1. CASE model.form[s] = "expression"
      BY <1>1, <1>9, <2>1
    <2>2. CASE model.form[s] # "expression"
      <3> DEFINE first == model.names[s][1]
      <3>1. first \in Shapes /\ kind[first] # Unknown /\ k = kind[first]
        BY <1>6, <1>9, <2>2 DEF s
      <3> HIDE DEF first
      <3>2. first \in Defined(k)
        BY <1>17, <3>1
      <3>3. first \in X
        BY <3>2 DEF Defined
      <3> QED BY <1>1, <1>5, <2>2, <3>3 DEF first, s
    <2> QED BY <2>1, <2>2
  <1>20. KindsByDefinition'
    <2>1. \A t \in Shapes : kind'[t] # Unknown => t \in Resolvable /\ t \in Defined(kind'[t])
      BY <1>10, <1>12, <1>17, <1>18, <1>19
    <2> QED BY <1>15, <1>16, <2>1 DEF KindsByDefinition, Settled
  <1>21. KnownSettled'
    BY <1>12 DEF IInv, KnownSettled, Settled
  <1> QED BY <1>2, <1>10, <1>12, <1>13, <1>14, <1>15, <1>20, <1>21 DEF s

(* The declarations written under a shape join the worklist.               *)
LEMMA QueueGrows ==
    ASSUME IInv, NEW s \in Shapes
    PROVE  /\ queue \o model.under[s] \in Seq(Shapes)
           /\ ToSet(queue) \subseteq ToSet(queue \o model.under[s])
  <1>1. queue \in Seq(Shapes) /\ model.under[s] \in Seq(Shapes)
    BY ModelFacts DEF IInv, TypeOK
  <1> QED BY <1>1, ConcatSet, ConcatProperties

(* What was just settled refers to what it names or to less, all of which  *)
(* was settled before, and nothing refers to it yet.                       *)
LEMMA SettledEdges ==
    ASSUME IInv, Settling, model' = model,
           kind' = [kind EXCEPT ![Top.shape] = Kind(Top.shape)],
           NEW kept \in SUBSET Names[Top.shape],
           edges' = [edges EXCEPT ![Top.shape] = kept]
    PROVE  edges' \in [Shapes -> SUBSET SettledShapes'] /\ UnsettledNoEdges' /\ EdgesAcyclic'
  <1> DEFINE s == Top.shape
  <1>1. /\ \A t \in Shapes : kind'[t] # Unknown <=> kind[t] # Unknown \/ t = s
        /\ SettledShapes' = SettledShapes \cup {s} /\ Names[s] \subseteq SettledShapes
    BY SettledKinds
  <1>2. s \in Shapes /\ ~Settled(s)
    BY TopFacts DEF Settling
  <1>3. edges \in [Shapes -> SUBSET SettledShapes] /\ edges[s] = {}
    BY <1>2 DEF IInv, TypeOK, UnsettledNoEdges
  <1> HIDE DEF s
  <1>4. edges' = [edges EXCEPT ![s] = kept] /\ kept \subseteq SettledShapes
    BY <1>1 DEF s
  <1>5. edges' \in [Shapes -> SUBSET SettledShapes']
    BY <1>1, <1>2, <1>3, <1>4
  <1>6. UnsettledNoEdges'
    BY <1>1, <1>3, <1>4 DEF IInv, UnsettledNoEdges, Settled
  <1>7. EdgesAcyclic'
    <2> SUFFICES ASSUME NEW r \in Shapes, NEW X \in SUBSET Shapes,
                        \A t \in Shapes : edges'[t] \subseteq X => t \in X
                 PROVE  r \in X
      BY DEF EdgesAcyclic, Grounded
    <2> DEFINE Y == X \cup {s}
    <2>1. \A t \in Shapes : t # s => edges'[t] = edges[t]
      BY <1>3, <1>4
    <2>2. \A t \in Shapes : s \notin edges[t]
      BY <1>2, <1>3 DEF SettledShapes
    <2>3. ASSUME NEW t \in Shapes, edges[t] \subseteq Y PROVE t \in Y
      BY <2>1, <2>2, <2>3
    <2>4. \A q \in Shapes : q \in Y
      <3>1. Y \in SUBSET Shapes
        BY <1>2
      <3>2. Grounded(edges) = Shapes
        BY DEF IInv, EdgesAcyclic
      <3> HIDE DEF Y
      <3> QED BY <2>3, <3>1, <3>2 DEF Grounded
    <2>5. edges'[s] = kept /\ s \notin kept /\ kept \subseteq Shapes
      BY <1>2, <1>3, <1>4 DEF SettledShapes
    <2>6. s \in X
      BY <1>2, <2>4, <2>5
    <2> QED BY <2>4, <2>6
  <1> QED BY <1>5, <1>6, <1>7

LEMMA SettleFaultyStep == IInv /\ SettleFaulty => IInv'
  <1> SUFFICES ASSUME IInv, SettleFaulty PROVE IInv'
    OBVIOUS
  <1> DEFINE error == Error("facet", Top.shape)
             kinds == [kind EXCEPT ![Top.shape] = Kind(Top.shape)]
  <1>1. /\ Settling /\ stack # <<>> /\ Top.shape \in model.faulty /\ Unwind(error, kinds)
        /\ queue' = queue \o model.under[Top.shape] /\ error.what # "too deep"
    BY DEF SettleFaulty, Settling, Error
  <1>2. kind' = kinds /\ model' = model /\ entered' = entered /\ again' = again
    BY <1>1 DEF Unwind, walked
  <1>3. /\ kind' \in [Shapes -> Kinds \cup {Unknown}]
        /\ \A s \in Shapes : kind'[s] # Unknown <=> kind[s] # Unknown \/ s = Top.shape
        /\ SettledShapes' = SettledShapes \cup {Top.shape} /\ Resolvable' = Resolvable
        /\ KindsByDefinition' /\ KnownSettled'
    BY <1>1, <1>2, SettledKinds
  <1>4. Top.shape \in Shapes
    BY <1>1, TopFacts
  <1>5. queue' \in Seq(Shapes) /\ ToSet(queue) \subseteq ToSet(queue')
    BY <1>1, <1>4, QueueGrows
  <1>6. \A s \in Shapes : Settled(s) => kinds[s] # Unknown
    BY <1>2, <1>3 DEF Settled
  <1>9. edges' \in [Shapes -> SUBSET SettledShapes'] /\ UnsettledNoEdges' /\ EdgesAcyclic'
    <2>1. PICK kept \in KeptEdges(Top.shape) : edges' = [edges EXCEPT ![Top.shape] = kept]
      BY DEF SettleFaulty
    <2>2. kept \in SUBSET Names[Top.shape]
      BY <1>4 DEF KeptEdges, Names
    <2> QED BY <1>1, <1>2, <2>1, <2>2, SettledEdges
  <1> HIDE DEF error, kinds
  <1>7. /\ stack' = <<>> /\ PathOfNames' /\ FailuresTooDeep' /\ AllAttended'
        /\ DOMAIN chainFailure' \subseteq Shapes
    BY <1>1, <1>5, <1>6, UnwindFacts
  <1>8. TypeOK'
    <2>1. stack' \in Seq(Calls)
      BY <1>7, EmptySeq
    <2>2. model' \in Corpus
      BY <1>2 DEF IInv, TypeOK
    <2> QED BY <1>3, <1>5, <1>7, <1>9, <2>1, <2>2 DEF TypeOK
  <1>10. OnceOnly'
    BY <1>1, <1>2 DEF OnceOnly, WithoutMistakes
  <1> QED BY <1>3, <1>7, <1>8, <1>9, <1>10 DEF IInv

LEMMA SettleStep == IInv /\ Settle => IInv'
  <1> SUFFICES ASSUME IInv, Settle PROVE IInv'
    OBVIOUS
  <1> DEFINE s == Top.shape
             n == Len(stack)
  <1>1. /\ Settling /\ stack # <<>> /\ queue' = queue \o model.under[s]
        /\ kind' = [kind EXCEPT ![Top.shape] = Kind(Top.shape)]
        /\ edges' = [edges EXCEPT ![s] = Names[s]]
        /\ stack' = Front(stack) /\ visiting' = visiting \ {s}
        /\ model' = model /\ chainFailure' = chainFailure /\ broken' = broken
        /\ entered' = entered /\ again' = again
    <2>1. s \in Shapes
      BY TopFacts DEF Settle, Settling
    <2>2. Names[s] = ToSet(model.names[s])
      BY <2>1 DEF Names
    <2> QED BY <2>2 DEF Settle, Settling, walked
  <1>2. /\ kind' \in [Shapes -> Kinds \cup {Unknown}]
        /\ \A t \in Shapes : kind'[t] # Unknown <=> kind[t] # Unknown \/ t = s
        /\ SettledShapes' = SettledShapes \cup {s}
        /\ Names[s] \subseteq SettledShapes
        /\ Names' = Names /\ Resolvable' = Resolvable
        /\ KindsByDefinition' /\ KnownSettled'
    BY <1>1, SettledKinds
  <1>3. /\ n \in Nat \ {0} /\ s = stack[n].shape /\ s \in Shapes /\ ~Settled(s) /\ s \in visiting
        /\ Front(stack) \in Seq(Calls) /\ Len(Front(stack)) = n - 1
        /\ \A i \in 1..(n - 1) : Front(stack)[i] = stack[i]
    BY <1>1, TopFacts
  <1>4. queue' \in Seq(Shapes) /\ ToSet(queue) \subseteq ToSet(queue')
    BY <1>1, <1>3, QueueGrows
  <1>5. stack \in Seq(Calls) /\ \A i \in 1..n : stack[i].shape \in Shapes
    <2>1. stack \in Seq(Calls)
      BY DEF IInv, TypeOK
    <2>2. \A i \in 1..n : stack[i] \in Calls
      BY <2>1, ElementOfSeq
    <2> QED BY <2>1, <2>2 DEF Calls
  <1>6. Names[s] \in SUBSET Names[s]
    OBVIOUS
  <1>9. edges' \in [Shapes -> SUBSET SettledShapes'] /\ UnsettledNoEdges' /\ EdgesAcyclic'
    BY <1>1, <1>6, SettledEdges
  <1> HIDE DEF s, n
  <1>7. TypeOK'
    <2>1. model' \in Corpus /\ DOMAIN chainFailure' \subseteq Shapes
      BY <1>1 DEF IInv, TypeOK
    <2> QED BY <1>1, <1>2, <1>3, <1>4, <1>9, <2>1 DEF TypeOK
  <1>8. PathOfNames'
    <2>1. /\ \A i \in 1..n : ~Settled(stack[i].shape) /\ ToSet(stack[i].left) \subseteq Names[stack[i].shape]
          /\ \A i \in 1..(n - 1) :
                /\ stack[i + 1].shape \in Names[stack[i].shape]
                /\ Names[stack[i].shape] \subseteq
                        SettledShapes \cup ToSet(stack[i].left) \cup {stack[i + 1].shape}
          /\ \A i, j \in 1..n : stack[i].shape = stack[j].shape => i = j
          /\ visiting = {stack[i].shape : i \in 1..n}
      BY DEF IInv, PathOfNames, Path, ShapesOf, n
    <2>2. /\ Len(stack') = n - 1 /\ \A i \in 1..(n - 1) : stack'[i] = stack[i]
          /\ \A i \in 1..(n - 1) : i \in 1..n /\ i # n
          /\ \A i \in 1..n : i = n \/ i \in 1..(n - 1)
          /\ \A i \in 1..(n - 1 - 1) : i \in 1..(n - 1) /\ i + 1 \in 1..(n - 1)
          /\ n \in 1..n
      BY <1>1, <1>3
    <2>3. \A i \in 1..(n - 1) : stack[i].shape # s
      BY <1>3, <2>1, <2>2
    <2>4. \A i \in 1..Len(stack') :
            kind'[stack'[i].shape] = Unknown /\ ToSet(stack'[i].left) \subseteq Names'[stack'[i].shape]
      <3> SUFFICES ASSUME NEW i \in 1..(n - 1)
                   PROVE  /\ kind'[stack[i].shape] = Unknown
                          /\ ToSet(stack[i].left) \subseteq Names'[stack[i].shape]
        BY <2>2
      <3>1. i \in 1..n /\ stack[i].shape # s /\ stack[i].shape \in Shapes
        BY <1>5, <2>2, <2>3
      <3>2. kind[stack[i].shape] = Unknown
        BY <2>1, <3>1 DEF Settled
      <3> QED BY <1>2, <2>1, <3>1, <3>2
    <2>5. \A i \in 1..(Len(stack') - 1) :
            /\ stack'[i + 1].shape \in Names'[stack'[i].shape]
            /\ Names'[stack'[i].shape] \subseteq
                    SettledShapes' \cup ToSet(stack'[i].left) \cup {stack'[i + 1].shape}
      BY <1>2, <2>1, <2>2
    <2>6. \A i, j \in 1..Len(stack') : stack'[i].shape = stack'[j].shape => i = j
      BY <2>1, <2>2
    <2>7. visiting' = {stack'[i].shape : i \in 1..Len(stack')}
      <3>1. \A i \in 1..(n - 1) : stack'[i].shape = stack[i].shape /\ stack[i].shape \in visiting
        BY <2>1, <2>2
      <3>2. ASSUME NEW t \in visiting, t # s PROVE \E i \in 1..(n - 1) : stack'[i].shape = t
        <4>1. PICK i \in 1..n : stack[i].shape = t
          BY <2>1
        <4>2. i \in 1..(n - 1)
          BY <1>3, <2>2, <3>2, <4>1
        <4> QED BY <3>1, <4>1, <4>2
      <3> DEFINE others == {stack'[i].shape : i \in 1..(n - 1)}
      <3>3. \A t \in others : t \in visiting /\ t # s
        BY <2>3, <3>1
      <3>4. \A t \in visiting : t # s => t \in others
        BY <3>2
      <3>5. visiting' = others
        <4> HIDE DEF others
        <4> QED BY <1>1, <3>3, <3>4
      <3> QED BY <2>2, <3>5
    <2>8. ASSUME stack' # <<>>
          PROVE  Names'[Top'.shape] \subseteq SettledShapes' \cup ToSet(Top'.left)
      <3>1. stack' \in Seq(Calls)
        BY <1>1, <1>3
      <3>2. n - 1 \in 1..(n - 1)
        BY <1>3, <2>2, <2>8, <3>1, EmptySeq
      <3>3. Top' = stack'[n - 1] /\ stack'[n - 1] = stack[n - 1]
        BY <2>2, <3>2 DEF Top, Last
      <3>4. stack[(n - 1) + 1].shape = s
        BY <1>3
      <3>5. Names[stack[n - 1].shape] \subseteq SettledShapes \cup ToSet(stack[n - 1].left) \cup {s}
        BY <2>1, <3>2, <3>4
      <3> QED BY <1>2, <3>3, <3>5
    <2> QED BY <2>4, <2>5, <2>6, <2>7, <2>8 DEF PathOfNames, Path, ShapesOf, Settled
  <1>10. FailuresTooDeep'
    BY <1>1 DEF IInv, FailuresTooDeep
  <1>11. AllAttended'
    <2>1. model.worklist \in Seq(Shapes)
      BY ModelFacts DEF IInv, TypeOK
    <2>2. ToSet(model.worklist) \subseteq Shapes
      BY <2>1, LenProperties, ElementOfSeq DEF ToSet
    <2>3. \A t \in Shapes : Attended(t) => kind'[t] # Unknown \/ broken'[t] # {} \/ t \in visiting'
      BY <1>1, <1>2 DEF Attended, Settled
    <2> QED BY <1>1, <1>4, <2>2, <2>3 DEF IInv, AllAttended, Attended, Settled
  <1>12. OnceOnly'
    <2>1. entered \subseteq Shapes
      BY DEF IInv, AllAttended
    <2> QED BY <1>1, <1>2, <2>1 DEF IInv, OnceOnly, WithoutMistakes, Settled
  <1> QED BY <1>2, <1>7, <1>8, <1>9, <1>10, <1>11, <1>12 DEF IInv

LEMMA TakeStep == IInv /\ Take => IInv'
  <1> SUFFICES ASSUME IInv, Take PROVE IInv'
    OBVIOUS
  <1> DEFINE s == Head(queue)
  <1>1. queue \in Seq(Shapes) /\ queue # <<>> /\ stack = <<>> /\ queue' = Tail(queue)
    BY DEF IInv, TypeOK, Take
  <1>2. s \in Shapes /\ queue' \in Seq(Shapes) /\ ToSet(queue) = {s} \cup ToSet(queue')
    BY <1>1, TailSet
  <1>3. ASSUME Settled(s) \/ s \in DOMAIN chainFailure,
               UNCHANGED <<model, kind, edges, stack, visiting, chainFailure, broken, walked>>
        PROVE  IInv'
    <2>1. /\ KindsByDefinition' /\ EdgesAcyclic' /\ KnownSettled' /\ UnsettledNoEdges'
          /\ SettledShapes' = SettledShapes /\ Names' = Names /\ Resolvable' = Resolvable
          /\ \A t : Settled(t)' <=> Settled(t)
      BY <1>3, SameKinds
    <2>2. TypeOK'
      BY <1>2, <1>3, <2>1 DEF IInv, TypeOK
    <2>3. PathOfNames'
      BY <1>1, <1>3 DEF IInv, PathOfNames, Path, ShapesOf
    <2>4. FailuresTooDeep'
      BY <1>3 DEF IInv, FailuresTooDeep
    <2>5. Attended(s)
      BY <1>3 DEF IInv, FailuresTooDeep, Attended
    <2>6. AllAttended'
      BY <1>2, <1>3, <2>1, <2>5 DEF IInv, AllAttended, Attended, walked
    <2>7. OnceOnly'
      BY <1>3, <2>1 DEF IInv, OnceOnly, WithoutMistakes, walked
    <2> QED BY <2>1, <2>2, <2>3, <2>4, <2>6, <2>7 DEF IInv
  <1>4. CASE ~Settled(s) /\ s \notin DOMAIN chainFailure /\ Enter(s, <<>>)
    <2> DEFINE base == <<>>
    <2>1. /\ base \in Seq(Calls) /\ base = <<>> /\ Len(base) = 0
      OBVIOUS
    <2>2. Path(base) /\ ShapesOf(base) = {} /\ visiting = {}
      BY <1>1 DEF IInv, PathOfNames, Path, ShapesOf
    <2>3. Enter(s, base)
      BY <1>4
    <2> HIDE DEF base, s
    <2> QED BY <1>2, <1>4, <2>1, <2>2, <2>3, EnterStep
  <1>5. \/ UNCHANGED <<model, kind, edges, stack, visiting, chainFailure, broken, walked>>
           /\ (Settled(s) \/ s \in DOMAIN chainFailure)
        \/ ~Settled(s) /\ s \notin DOMAIN chainFailure /\ Enter(s, <<>>)
    BY DEF Take
  <1> QED BY <1>3, <1>4, <1>5

LEMMA FollowSettledStep == IInv /\ FollowSettled => IInv'
  <1> SUFFICES ASSUME IInv, FollowSettled PROVE IInv'
    OBVIOUS
  <1>1. /\ Following /\ stack # <<>> /\ Settled(Referent) /\ Referent # Missing
        /\ stack' = Advanced
        /\ UNCHANGED <<model, kind, edges, queue, visiting, chainFailure, broken, walked>>
    BY DEF FollowSettled, Following
  <1>2. /\ Referent \in Shapes \cup {Missing}
        /\ Advanced \in Seq(Calls) /\ Len(Advanced) = Len(stack)
        /\ Path(Advanced) /\ ShapesOf(Advanced) = visiting
        /\ Advanced[Len(stack)].shape = Top.shape
        /\ Names[Top.shape] \subseteq
                SettledShapes \cup ToSet(Advanced[Len(stack)].left) \cup {Referent}
    BY <1>1, AdvancedFacts
  <1>3. /\ KindsByDefinition' /\ EdgesAcyclic' /\ KnownSettled' /\ UnsettledNoEdges'
        /\ SettledShapes' = SettledShapes /\ Names' = Names /\ Resolvable' = Resolvable
        /\ \A t : Settled(t)' <=> Settled(t)
    BY <1>1, SameKinds
  <1>4. TypeOK'
    BY <1>1, <1>2, <1>3 DEF IInv, TypeOK
  <1>5. Referent \in SettledShapes
    BY <1>1, <1>2 DEF SettledShapes
  <1>6. PathOfNames'
    <2>1. Path(stack)'
      BY <1>1, <1>2, <1>3 DEF Path, Settled
    <2>2. visiting' = ShapesOf(stack)'
      BY <1>1, <1>2 DEF ShapesOf
    <2>3. Top' = Advanced[Len(stack)]
      BY <1>1, <1>2 DEF Top, Last
    <2> QED BY <1>2, <1>3, <1>5, <2>1, <2>2, <2>3 DEF PathOfNames
  <1>7. FailuresTooDeep'
    BY <1>1 DEF IInv, FailuresTooDeep
  <1>8. AllAttended'
    BY <1>1, <1>3 DEF IInv, AllAttended, Attended, walked
  <1>9. OnceOnly'
    BY <1>1, <1>3 DEF IInv, OnceOnly, WithoutMistakes, walked
  <1> QED BY <1>3, <1>4, <1>6, <1>7, <1>8, <1>9 DEF IInv

LEMMA FollowNewStep == IInv /\ FollowNew => IInv'
  <1> SUFFICES ASSUME IInv, FollowNew PROVE IInv'
    OBVIOUS
  <1> DEFINE base == Advanced
             s == Referent
  <1>1. /\ Following /\ s # Missing /\ ~Settled(s) /\ s \notin visiting
        /\ s \notin DOMAIN chainFailure /\ Enter(s, base) /\ queue' = queue
    BY DEF FollowNew, Open
  <1>2. /\ s \in Names[Top.shape] /\ s \in Shapes
        /\ base \in Seq(Calls) /\ Len(base) = Len(stack)
        /\ Path(base) /\ ShapesOf(base) = visiting
        /\ base[Len(base)].shape = Top.shape
        /\ Names[Top.shape] \subseteq SettledShapes \cup ToSet(base[Len(base)].left) \cup {s}
    BY <1>1, AdvancedFacts
  <1>3. queue' \in Seq(Shapes) /\ ToSet(queue) \subseteq ToSet(queue') \cup {s}
    BY <1>1 DEF IInv, TypeOK
  <1> HIDE DEF base, s
  <1> QED BY <1>1, <1>2, <1>3, EnterStep

LEMMA NextIInv == IInv /\ [Next]_vars => IInv'
  <1> SUFFICES ASSUME IInv, [Next]_vars PROVE IInv'
    OBVIOUS
  <1>1. CASE UNCHANGED vars
    <2>1. UNCHANGED <<model, kind, edges, queue, stack, visiting, chainFailure, broken, walked>>
      BY <1>1 DEF vars
    <2>2. /\ KindsByDefinition' /\ EdgesAcyclic' /\ KnownSettled' /\ UnsettledNoEdges'
          /\ SettledShapes' = SettledShapes /\ Names' = Names /\ Resolvable' = Resolvable
          /\ \A t : Settled(t)' <=> Settled(t)
      BY <2>1, SameKinds
    <2>3. TypeOK' /\ FailuresTooDeep'
      BY <2>1, <2>2 DEF IInv, TypeOK, FailuresTooDeep
    <2>4. PathOfNames'
      BY <2>1, <2>2 DEF IInv, PathOfNames, Path, ShapesOf, Settled, Top
    <2>5. AllAttended' /\ OnceOnly'
      BY <2>1, <2>2 DEF IInv, AllAttended, Attended, OnceOnly, WithoutMistakes, walked
    <2> QED BY <2>2, <2>3, <2>4, <2>5 DEF IInv
  <1>2. CASE FollowMissing \/ FollowVisiting \/ FollowFailed \/ FollowTooDeep
    BY <1>2, FailStep
  <1> QED BY <1>1, <1>2, TakeStep, FollowSettledStep, FollowNewStep, SettleStep,
             SettleFaultyStep DEF Next

(* The stack is a path of names, what is settled has all it names settled, *)
(* and what was to be settled is attended to.                              *)
THEOREM ResolutionInvariant == Spec => []IInv
  BY InitIInv, NextIInv, PTL DEF Spec
-----------------------------------------------------------------------------
(* A kind that was settled is the one the definition gives, whatever the   *)
(* order of the worklist (docs/07 section 2).                              *)
THEOREM SpecKindsByDefinition == Spec => []KindsByDefinition
  <1>1. IInv => KindsByDefinition
    BY DEF IInv
  <1> QED BY <1>1, ResolutionInvariant, PTL

(* The settled references have no cycle, and in a model whose only errors  *)
(* are chains too long no declaration is walked twice (docs/12 section 3). *)
THEOREM SpecWalkedOnce == Spec => []WalkedOnce
  <1>1. IInv => WalkedOnce
    BY DEF IInv, WalkedOnce, ChainsLinear, OnceOnly, WithoutMistakes
  <1> QED BY <1>1, ResolutionInvariant, PTL

(* A declaration that P7 was to settle has a kind, unless it is marked     *)
(* (invariant I5, docs/02 section 4).                                      *)
THEOREM SpecUnknownIsMarked == Spec => []UnknownIsMarked
  <1>1. ASSUME IInv PROVE UnknownIsMarked
    <2> SUFFICES ASSUME Drained, NEW s \in entered \cup ToSet(model.worklist)
                 PROVE  Settled(s) \/ broken[s] # {}
      BY DEF UnknownIsMarked
    <2>1. visiting = {} /\ ToSet(queue) = {}
      BY <1>1 DEF IInv, PathOfNames, ShapesOf, Drained, ToSet
    <2> QED BY <1>1, <2>1 DEF IInv, AllAttended, Attended
  <1> QED BY <1>1, ResolutionInvariant, PTL
-----------------------------------------------------------------------------
(* Marks.  What is on the stack leads to what is on top of it, so a mark   *)
(* that unwinds it has its reason in what each of them names.              *)

StackLeads ==
    \A s \in Shapes : \A i, j \in 1..Len(stack) :
        i <= j /\ stack[i].shape = s => stack[j].shape \in Leads(s)
Founded(s) == LongChain \/ s \notin Resolvable \/ Leads(s) \cap model.faulty # {}
MarksFounded == \A s \in Shapes : broken[s] # {} => Founded(s)
FailuresLong == DOMAIN chainFailure # {} => LongChain

MInv == StackLeads /\ MarksFounded /\ FailuresLong

LEMMA LeadsFacts ==
    ASSUME NEW s \in Shapes
    PROVE  /\ s \in Leads(s)
           /\ \A t \in Leads(s) : Names[t] \cap Shapes \subseteq Leads(s)
  BY DEF Leads

LEMMA SameModel ==
    ASSUME UNCHANGED model
    PROVE  /\ Names' = Names /\ LongChain' = LongChain /\ Resolvable' = Resolvable
           /\ \A s : Leads(s)' = Leads(s) /\ (Founded(s)' <=> Founded(s))
  <1>1. Names' = Names
    BY DEF Names
  <1>2. LongChain' = LongChain
    BY <1>1 DEF LongChain
  <1>3. Resolvable' = Resolvable
    BY <1>1 DEF Resolvable, Grounded
  <1>4. \A s : Leads(s)' = Leads(s)
    BY <1>1 DEF Leads
  <1> QED BY <1>1, <1>2, <1>3, <1>4 DEF Founded

(* Steps that mark nothing.                                                *)
LEMMA UnmarkedStep ==
    ASSUME MInv, StackLeads', UNCHANGED <<model, broken, chainFailure>>
    PROVE  MInv'
  <1>1. MarksFounded'
    BY SameModel DEF MInv, MarksFounded
  <1>2. FailuresLong'
    BY SameModel DEF MInv, FailuresLong
  <1> QED BY <1>1, <1>2 DEF MInv

LEMMA EnteredLeads ==
    ASSUME IInv, MInv, NEW s \in Shapes, NEW base \in Seq(Calls), Enter(s, base),
           \/ base = <<>>
           \/ /\ Len(base) = Len(stack) /\ stack # <<>> /\ s \in Names[Top.shape]
              /\ \A i \in 1..Len(stack) : base[i].shape = stack[i].shape
    PROVE  MInv'
  <1> DEFINE f == [shape |-> s, left |-> model.names[s]]
             n == Len(base)
  <1>1. stack' = Append(base, f) /\ UNCHANGED <<model, broken, chainFailure>>
    BY DEF Enter
  <1>2. n \in Nat
    BY LenProperties
  <1>3. /\ Len(stack') = n + 1
        /\ \A i \in 1..n : stack'[i] = base[i]
        /\ stack'[n + 1].shape = s
    BY <1>1, <1>2, AppendProperties
  <1>4. \A i \in 1..n : s \in Leads(base[i].shape)
    <2>1. CASE base = <<>>
      BY <2>1
    <2>2. CASE base # <<>>
      <3>1. /\ n = Len(stack) /\ stack # <<>> /\ s \in Names[Top.shape]
            /\ \A i \in 1..n : base[i].shape = stack[i].shape
        BY <2>2
      <3>2. Top = stack[n] /\ n \in 1..n
        BY <3>1, TopFacts
      <3> SUFFICES ASSUME NEW i \in 1..n PROVE s \in Leads(stack[i].shape)
        BY <3>1
      <3>3. stack[i].shape \in Shapes
        <4>1. stack[i] \in Calls
          BY <3>1, ElementOfSeq DEF IInv, TypeOK
        <4> QED BY <4>1 DEF Calls
      <3>4. Top.shape \in Leads(stack[i].shape)
        BY <1>2, <3>1, <3>2, <3>3 DEF MInv, StackLeads
      <3> QED BY <3>1, <3>3, <3>4, LeadsFacts
    <2> QED BY <2>1, <2>2
  <1>5. \A t \in Shapes : \A i, j \in 1..n :
            i <= j /\ base[i].shape = t => base[j].shape \in Leads(t)
    <2>1. CASE base = <<>>
      BY <2>1
    <2>2. CASE base # <<>>
      BY <2>2 DEF MInv, StackLeads
    <2> QED BY <2>1, <2>2
  <1>6. s \in Leads(s)
    BY LeadsFacts
  <1>7. StackLeads'
    <2> SUFFICES ASSUME NEW t \in Shapes, NEW i \in 1..Len(stack'), NEW j \in 1..Len(stack'),
                        i <= j, stack'[i].shape = t
                 PROVE  stack'[j].shape \in Leads(t)'
      BY DEF StackLeads
    <2>1. Leads(t)' = Leads(t)
      BY <1>1, SameModel
    <2>2. (i \in 1..n \/ i = n + 1) /\ (j \in 1..n \/ j = n + 1)
      BY <1>2, <1>3
    <2>3. stack'[j].shape \in Leads(t)
      <3>1. CASE i \in 1..n /\ j \in 1..n
        BY <1>3, <1>5, <3>1
      <3>2. CASE i \in 1..n /\ j = n + 1
        BY <1>3, <1>4, <3>2
      <3>3. CASE i = n + 1
        BY <1>2, <1>3, <1>6, <2>2, <3>3
      <3> QED BY <2>2, <3>1, <3>2, <3>3
    <2> QED BY <2>1, <2>3
  <1> QED BY <1>1, <1>7, UnmarkedStep

LEMMA SettledLeads ==
    ASSUME IInv, MInv, Take \/ FollowSettled \/ FollowNew \/ Settle \/ UNCHANGED vars
    PROVE  MInv'
  <1>1. ASSUME UNCHANGED <<model, broken, chainFailure>>,
               Len(stack') = Len(stack) \/ Len(stack') = Len(stack) - 1, Len(stack) \in Nat,
               \A i \in 1..Len(stack') : stack'[i].shape = stack[i].shape
        PROVE  MInv'
    <2>1. \A s : Leads(s)' = Leads(s)
      BY <1>1, SameModel
    <2>2. StackLeads'
      <3> SUFFICES ASSUME NEW t \in Shapes, NEW i \in 1..Len(stack'), NEW j \in 1..Len(stack'),
                          i <= j, stack'[i].shape = t
                   PROVE  stack'[j].shape \in Leads(t)'
        BY DEF StackLeads
      <3>1. i \in 1..Len(stack) /\ j \in 1..Len(stack)
        BY <1>1
      <3>2. stack'[j].shape \in Leads(t)
        BY <1>1, <3>1 DEF MInv, StackLeads
      <3> QED BY <2>1, <3>2
    <2> QED BY <1>1, <2>2, UnmarkedStep
  <1>2. stack \in Seq(Calls) /\ Len(stack) \in Nat
    BY LenProperties DEF IInv, TypeOK
  <1>3. CASE UNCHANGED vars
    BY <1>1, <1>2, <1>3 DEF vars
  <1>4. CASE FollowSettled
    BY <1>1, <1>2, <1>4, AdvancedFacts DEF FollowSettled
  <1>5. CASE Settle
    BY <1>1, <1>2, <1>5, TopFacts DEF Settle, Settling
  <1>6. CASE FollowNew
    <2> DEFINE base == Advanced
               s == Referent
    <2>1. Following /\ s # Missing /\ Enter(s, base) /\ stack # <<>>
      BY <1>6 DEF FollowNew, Open, Following
    <2>2. /\ s \in Names[Top.shape] /\ s \in Shapes
          /\ base \in Seq(Calls) /\ Len(base) = Len(stack)
          /\ \A i \in 1..Len(stack) : base[i].shape = stack[i].shape
      BY <2>1, AdvancedFacts
    <2> HIDE DEF base, s
    <2> QED BY <2>1, <2>2, EnteredLeads
  <1>7. CASE Take
    <2>1. CASE Enter(Head(queue), <<>>)
      <3> DEFINE base == <<>>
                 s == Head(queue)
      <3>1. s \in Shapes
        BY <1>7, TailSet DEF Take, IInv, TypeOK
      <3>2. base \in Seq(Calls) /\ base = <<>>
        OBVIOUS
      <3>3. Enter(s, base)
        BY <2>1
      <3> HIDE DEF base, s
      <3> QED BY <3>1, <3>2, <3>3, EnteredLeads
    <2>2. CASE UNCHANGED <<model, stack, broken, chainFailure>>
      BY <1>1, <1>2, <2>2
    <2> QED BY <1>7, <2>1, <2>2 DEF Take
  <1> QED BY <1>3, <1>4, <1>5, <1>6, <1>7

LEMMA EmptyLeads == stack' = <<>> => StackLeads'
  BY DEF StackLeads

(* An error marks what is on the stack.                                    *)
LEMMA UnwoundFounded ==
    ASSUME IInv, MInv, NEW error, NEW kinds, Unwind(error, kinds),
           \A s \in visiting : Founded(s), error.what = "too deep" => LongChain
    PROVE  MInv'
  <1> DEFINE passed == {stack[i].shape : i \in DOMAIN stack}
  <1>1. /\ stack' = <<>> /\ model' = model
        /\ broken' = [s \in Shapes |-> IF s \in passed THEN broken[s] \cup {error} ELSE broken[s]]
        /\ DOMAIN chainFailure' # {} => error.what = "too deep" \/ DOMAIN chainFailure # {}
    BY DEF Unwind
  <1>2. passed = visiting
    <2>1. DOMAIN stack = 1..Len(stack)
      BY LenProperties DEF IInv, TypeOK
    <2> QED BY <2>1 DEF IInv, PathOfNames, ShapesOf
  <1>3. MarksFounded'
    <2> SUFFICES ASSUME NEW s \in Shapes, broken'[s] # {} PROVE Founded(s)'
      BY DEF MarksFounded
    <2>1. Founded(s)
      BY <1>1, <1>2 DEF MInv, MarksFounded
    <2> QED BY <1>1, <2>1, SameModel
  <1>4. FailuresLong'
    BY <1>1, SameModel DEF MInv, FailuresLong
  <1>5. StackLeads'
    BY <1>1, EmptyLeads
  <1> QED BY <1>3, <1>4, <1>5 DEF MInv

(* The calls of a stack at its ceiling and the name it cannot follow.      *)
LEMMA ChainOfStack ==
    ASSUME IInv, Open, TooDeep
    PROVE  LongChain
  <1> DEFINE n == Len(stack)
             d == model.maxDepth
             length == d + 2
             chain == [i \in 1..length |->
                        IF i = length THEN Referent ELSE stack[n - (d + 1) + i].shape]
             X == {chain[i] : i \in 1..length}
  <1>1. /\ Following /\ Referent # Missing /\ ~Settled(Referent) /\ Referent \notin visiting
        /\ stack # <<>>
    BY DEF Open, Following
  <1>2. /\ n \in Nat \ {0} /\ Top = stack[n] /\ Referent \in Names[Top.shape]
        /\ Referent \in Shapes
    BY <1>1, TopFacts, AdvancedFacts
  <1>3. d \in Nat /\ n >= d + 1
    <2>1. model \in Models
      BY CorpusAssumption DEF IInv, TypeOK
    <2>2. n > d
      BY DEF TooDeep
    <2> QED BY <1>2, <2>1, <2>2 DEF Models
  <1>4. /\ \A i \in 1..n : /\ stack[i].shape \in Shapes /\ ~Settled(stack[i].shape)
                           /\ stack[i].shape \in visiting
        /\ \A i \in 1..(n - 1) : stack[i + 1].shape \in Names[stack[i].shape]
        /\ \A i, j \in 1..n : stack[i].shape = stack[j].shape => i = j
    <2>1. \A i \in 1..n : stack[i].shape \in Shapes
      <3>1. \A i \in 1..n : stack[i] \in Calls
        BY ElementOfSeq DEF IInv, TypeOK
      <3> QED BY <3>1 DEF Calls
    <2> QED BY <2>1 DEF IInv, PathOfNames, Path, ShapesOf
  <1>5. \A i \in 1..length : i # length => n - (d + 1) + i \in 1..n
    BY <1>2, <1>3
  <1>6. \A i \in 1..length : chain[i] \in Shapes /\ model.form[chain[i]] # "known"
    BY <1>1, <1>2, <1>4, <1>5 DEF IInv, KnownSettled
  <1>7. \A i, j \in 1..length : chain[i] = chain[j] => i = j
    <2> SUFFICES ASSUME NEW i \in 1..length, NEW j \in 1..length, chain[i] = chain[j]
                 PROVE  i = j
      OBVIOUS
    <2>1. CASE i # length /\ j # length
      <3>1. stack[n - (d + 1) + i].shape = stack[n - (d + 1) + j].shape
        BY <2>1
      <3>2. n - (d + 1) + i = n - (d + 1) + j
        BY <1>4, <1>5, <2>1, <3>1
      <3> QED BY <1>2, <1>3, <3>2
    <2>2. CASE i = length \/ j = length
      BY <1>1, <1>4, <1>5, <2>2
    <2> QED BY <2>1, <2>2
  <1>8. chain \in Bijection(1..length, X)
    <2>1. chain \in [1..length -> X] /\ \A t \in X : \E i \in 1..length : chain[i] = t
      OBVIOUS
    <2> HIDE DEF chain, X
    <2>2. DOMAIN chain = 1..length
      BY <2>1
    <2> QED BY <1>7, <2>1, <2>2 DEF Bijection, Injection, Surjection, IsInjective
  <1>9. Cardinality(X) = length
    <2>1. length \in Nat
      BY <1>3
    <2> HIDE DEF length, chain, X
    <2> QED BY <1>8, <2>1, FS_CountingElements DEF ExistsBijection
  <1>10. \A i \in 1..(length - 1) : chain[i + 1] \in Names[chain[i]]
    <2> SUFFICES ASSUME NEW i \in 1..(length - 1) PROVE chain[i + 1] \in Names[chain[i]]
      OBVIOUS
    <2>1. i \in 1..length /\ i + 1 \in 1..length /\ i # length
      BY <1>3
    <2> DEFINE k == n - (d + 1) + i
    <2>2. chain[i] = stack[k].shape
      BY <2>1
    <2>3. CASE i = d + 1
      <3>1. k = n
        BY <1>2, <1>3, <2>3
      <3>2. i + 1 = length
        BY <1>3, <2>3
      <3>3. chain[i + 1] = Referent
        BY <2>1, <3>2
      <3> QED BY <1>2, <2>2, <3>1, <3>3
    <2>4. CASE i # d + 1
      <3>1. k \in 1..(n - 1) /\ n - (d + 1) + (i + 1) = k + 1 /\ i + 1 # length
        BY <1>2, <1>3, <2>4
      <3>2. chain[i + 1] = stack[k + 1].shape
        BY <2>1, <3>1
      <3> QED BY <1>4, <2>2, <3>1, <3>2
    <2> QED BY <2>3, <2>4
  <1>11. X \in SUBSET {s \in Shapes : model.form[s] # "known"}
    BY <1>6
  <1> HIDE DEF chain, X
  <1> QED BY <1>8, <1>9, <1>10, <1>11 DEF LongChain

LEMMA MarkStep ==
    ASSUME IInv, MInv,
           FollowMissing \/ FollowVisiting \/ FollowFailed \/ FollowTooDeep \/ SettleFaulty
    PROVE  MInv'
  <1> DEFINE n == Len(stack)
  <1>1. stack # <<>> /\ model \in Corpus
    BY DEF FollowMissing, FollowVisiting, FollowFailed, FollowTooDeep, SettleFaulty,
           Open, Following, Settling, IInv, TypeOK
  <1>2. /\ n \in Nat \ {0} /\ Top = stack[n] /\ n \in 1..n
        /\ visiting \subseteq Shapes
        /\ \A s \in visiting : \E i \in 1..n : s = stack[i].shape
        /\ \A i \in 1..n : stack[i].shape \in visiting
        /\ \A i \in 1..(n - 1) : stack[i + 1].shape \in Names[stack[i].shape]
    <2>1. n \in Nat \ {0} /\ Top = stack[n]
      BY <1>1, TopFacts
    <2>2. \A i \in 1..n : stack[i] \in Calls
      BY ElementOfSeq DEF IInv, TypeOK
    <2> QED BY <2>1, <2>2 DEF IInv, PathOfNames, Path, ShapesOf, Calls
  <1>3. CASE FollowMissing \/ FollowVisiting
    <2>1. Following /\ Referent \in visiting \cup {Missing}
      BY <1>3 DEF FollowMissing, FollowVisiting
    <2>2. Referent \in Names[Top.shape]
      BY <2>1, AdvancedFacts
    <2>3. \A t \in visiting : Names[t] \cap (visiting \cup {Missing}) # {}
      <3> SUFFICES ASSUME NEW i \in 1..n
                   PROVE  Names[stack[i].shape] \cap (visiting \cup {Missing}) # {}
        BY <1>2
      <3>1. CASE i = n
        BY <1>2, <2>1, <2>2, <3>1
      <3>2. CASE i # n
        <4>1. i \in 1..(n - 1) /\ i + 1 \in 1..n
          BY <1>2, <3>2
        <4> QED BY <1>2, <4>1
      <3> QED BY <3>1, <3>2
    <2>4. \A s \in visiting : Founded(s)
      BY <1>1, <1>2, <2>3, StuckUnsound DEF Founded
    <2> DEFINE unbound == Error("unbound", Top.shape)
               cyclic == Error("cyclic", Referent)
    <2>5. Unwind(unbound, kind) \/ Unwind(cyclic, kind)
      BY <1>3 DEF FollowMissing, FollowVisiting
    <2>6. unbound.what # "too deep" /\ cyclic.what # "too deep"
      BY DEF Error
    <2> HIDE DEF unbound, cyclic
    <2> QED BY <2>4, <2>5, <2>6, UnwoundFounded
  <1>4. CASE FollowFailed \/ FollowTooDeep
    <2>1. LongChain
      BY <1>4, ChainOfStack DEF FollowFailed, FollowTooDeep, MInv, FailuresLong
    <2>2. \E error : Unwind(error, kind)
      BY <1>4 DEF FollowFailed, FollowTooDeep
    <2> QED BY <2>1, <2>2, UnwoundFounded DEF Founded
  <1>5. CASE SettleFaulty
    <2>1. Top.shape \in model.faulty
      BY <1>5 DEF SettleFaulty
    <2>2. ASSUME NEW s \in visiting PROVE Founded(s)
      <3>1. PICK i \in 1..n : s = stack[i].shape
        BY <1>2
      <3>2. s \in Shapes /\ i <= n
        BY <1>2
      <3>3. Top.shape \in Leads(s)
        BY <1>2, <3>1, <3>2 DEF MInv, StackLeads
      <3> QED BY <2>1, <3>3 DEF Founded
    <2> DEFINE error == Error("facet", Top.shape)
               kinds == [kind EXCEPT ![Top.shape] = Kind(Top.shape)]
    <2>3. Unwind(error, kinds)
      BY <1>5 DEF SettleFaulty
    <2>4. error.what # "too deep"
      BY DEF Error
    <2> HIDE DEF error, kinds
    <2> QED BY <2>2, <2>3, <2>4, UnwoundFounded
  <1> QED BY <1>3, <1>4, <1>5

THEOREM MarksInvariant == Spec => []MInv
  <1>1. Init => MInv
    BY DEF Init, MInv, StackLeads, MarksFounded, FailuresLong
  <1>2. IInv /\ MInv /\ [Next]_vars => MInv'
    BY SettledLeads, MarkStep DEF Next
  <1> QED BY <1>1, <1>2, ResolutionInvariant, PTL DEF Spec

(* A declaration is marked exactly as far as its own names and the ceiling *)
(* give reason (resolve_shape's error paths).                              *)
THEOREM SpecMarkedIffUnsound == Spec => []MarkedIffUnsound
  <1>1. MInv => SoundUnmarked
    BY DEF MInv, MarksFounded, Founded, SoundUnmarked, Resolvable, Grounded
  <1> QED BY <1>1, MarksInvariant, SpecUnknownIsMarked, PTL DEF MarkedIffUnsound
=============================================================================
