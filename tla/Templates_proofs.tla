--------------------------- MODULE Templates_proofs ---------------------------
(***************************************************************************)
(* For any resources, templates and document: a resource gets the methods  *)
(* its chain of types promises, and of each method what the closest of     *)
(* those that write it says; what is named anywhere is bound or reported,  *)
(* and what failed is known wherever it is held.                           *)
(***************************************************************************)
EXTENDS Templates, SequenceSets, WellFoundedInduction, FiniteSetTheorems

-----------------------------------------------------------------------------
(* Types.                                                                  *)

Writers == Resources \cup Types \cup Traits
RefType ==
    [name : Names, params : SUBSET Params, by : Writers, at : Methods \cup {None}]

(* Where a reference is written decides what it may find.                  *)
TypeRef == {ref \in RefType : ref.at = None /\ Found(ref) \in Types \cup {None}}
TraitRef(at) == {ref \in RefType : ref.at = at /\ Found(ref) \in Traits \cup {None}}
Reaching(m) == TraitRef(m) \cup TraitRef(None)

FailureType == [on : Resources, ref : RefType]
ContentType == UNION {[F -> Writers] : F \in SUBSET Facets}
OperationType(m) ==
    [is : Seq(TraitRef(m)), rtIs : Seq(TraitRef(m)), nested : SUBSET TraitRef(m),
     taken : SUBSET Reaching(m), content : ContentType, failed : SUBSET FailureType]
OperationsType ==
    {ops \in UNION {[M -> UNION {OperationType(m) : m \in Methods}] : M \in SUBSET Methods} :
        \A m \in DOMAIN ops : ops[m] \in OperationType(m)}
SourceType ==
    [type : Seq(TypeRef), is : Seq(TraitRef(None)), rtIs : Seq(TraitRef(None)),
     content : ContentType, ops : OperationsType, failed : SUBSET FailureType]

Typed ==
    /\ doc \in Corpus /\ res \in [Resources -> SourceType]
    /\ path \in Seq(Resources) /\ done \subseteq Resources
    /\ phase \in {"type", "merge", "traits", "children"}
    /\ chain \in Seq(SourceType) /\ merged \in [Resources -> Seq(Types)]
    /\ method \in Methods \cup {None} /\ applied \subseteq Methods
    /\ queue \in Seq(Reaching(method)) /\ nested \in Seq(TraitRef(method))
    /\ errors \subseteq FailureType /\ reported \subseteq FailureType

(* What is in progress is in progress in the innermost resource.           *)
InPhase ==
    /\ phase # "children" => path # <<>>
    /\ phase \in {"traits", "children"} => chain = <<>>
    /\ phase = "merge" => chain # <<>>
    /\ phase # "traits" => method = None /\ errors = {}
    /\ method = None => queue = <<>> /\ nested = <<>>
    /\ method # None => method \in DOMAIN res[Here].ops

TypedInv == Typed /\ InPhase
-----------------------------------------------------------------------------
(* What the operators return.                                              *)

LEMMA SeqsGrow ==
    ASSUME NEW S, NEW T, S \subseteq T, NEW s \in Seq(S)
    PROVE  s \in Seq(T)
  OBVIOUS

LEMMA RefsTyped ==
    ASSUME NEW part, NEW by \in Writers, NEW at \in Methods \cup {None}, IsPart(part, by)
    PROVE  Refs(part, by, at) \in Seq(TraitRef(at))
  <1> DEFINE n == Len(part.is)
             ref(i) == [name |-> part.is[i].name, params |-> part.is[i].params,
                        by |-> by, at |-> at]
  <1>1. part.is \in Seq([name : Names, params : SUBSET Params]) /\ n \in Nat
        /\ DOMAIN part.is = 1..n
    BY LenProperties DEF IsPart, AreNames
  <1>2. ASSUME NEW i \in 1..n PROVE ref(i) \in TraitRef(at)
    <2>1. part.is[i] \in [name : Names, params : SUBSET Params]
      BY <1>1, <1>2, ElementOfSeq
    <2>2. ref(i) \in RefType
      BY <2>1 DEF RefType
    <2>3. Found(ref(i)) \in Traits \cup {None}
      BY <1>1, <1>2 DEF IsPart, AreNames, Found
    <2> QED BY <2>2, <2>3 DEF TraitRef
  <1>3. [i \in 1..n |-> ref(i)] \in Seq(TraitRef(at))
    BY <1>1, <1>2
  <1> QED BY <1>1, <1>3 DEF Refs

LEMMA OperationTyped ==
    ASSUME NEW part, NEW by \in Writers, NEW m \in Methods, IsPart(part, by)
    PROVE  Operation(part, by, m) \in OperationType(m)
  <1>1. Refs(part, by, m) \in Seq(TraitRef(m))
    BY RefsTyped
  <1>2. [f \in part.writes |-> by] \in ContentType
    BY DEF ContentType, IsPart
  <1> QED BY <1>1, <1>2 DEF Operation, OperationType

LEMMA MethodsTyped ==
    ASSUME NEW M \in SUBSET Methods, NEW ops, ops = [m \in M |-> ops[m]],
           \A m \in M : ops[m] \in OperationType(m)
    PROVE  ops \in OperationsType /\ DOMAIN ops = M
  <1>1. \A m \in M : ops[m] \in UNION {OperationType(k) : k \in Methods}
    OBVIOUS
  <1>2. ops \in [M -> UNION {OperationType(k) : k \in Methods}] /\ DOMAIN ops = M
    BY <1>1
  <1> QED BY <1>2 DEF OperationsType

LEMMA OpsTyped ==
    ASSUME NEW ops \in OperationsType
    PROVE  /\ DOMAIN ops \subseteq Methods /\ ops = [m \in DOMAIN ops |-> ops[m]]
           /\ \A m \in DOMAIN ops : ops[m] \in OperationType(m)
  BY DEF OperationsType

Untouched(s) ==
    \A m \in DOMAIN s.ops :
        s.ops[m].taken = {} /\ s.ops[m].nested = {} /\ s.ops[m].failed = {}

LEMMA SourceTyped ==
    ASSUME doc \in Corpus, NEW by \in Resources \cup Types,
           NEW kept \in SUBSET DOMAIN doc[by].ops
    PROVE  /\ Source(by, kept) \in SourceType /\ Source(by, kept).failed = {}
           /\ DOMAIN Source(by, kept).ops = kept /\ Untouched(Source(by, kept))
  <1> DEFINE d == doc[by]
             ops == [m \in kept |-> Operation(d.ops[m], by, m)]
             ref(i) == [name |-> d.type[i].name, params |-> d.type[i].params,
                        by |-> by, at |-> None]
             type == [i \in DOMAIN d.type |-> ref(i)]
             n == Len(d.type)
  <1>1. IsDeclaration(d, by) /\ by \in Writers
    BY CorpusAssumption DEF Writers
  <1>2. kept \subseteq Methods /\ \A m \in kept : ops[m] \in OperationType(m)
    BY <1>1, OperationTyped DEF IsDeclaration
  <1>3. ops \in OperationsType /\ DOMAIN ops = kept
    BY <1>2, MethodsTyped
  <1>4. type \in Seq(TypeRef)
    <2>1. d.type \in Seq([name : Names, params : SUBSET Params]) /\ n \in Nat
          /\ DOMAIN d.type = 1..n
      BY <1>1, LenProperties DEF IsDeclaration, AreNames
    <2>2. ASSUME NEW i \in 1..n PROVE ref(i) \in TypeRef
      <3>1. d.type[i] \in [name : Names, params : SUBSET Params]
        BY <2>1, <2>2, ElementOfSeq
      <3>2. ref(i) \in RefType
        BY <1>1, <3>1 DEF RefType
      <3>3. Found(ref(i)) \in Types \cup {None}
        BY <1>1, <2>1, <2>2 DEF IsDeclaration, AreNames, Found
      <3> QED BY <3>2, <3>3 DEF TypeRef
    <2>3. [i \in 1..n |-> ref(i)] \in Seq(TypeRef)
      BY <2>1, <2>2
    <2> QED BY <2>1, <2>3
  <1>5. IsPart(d.own, by)
    BY <1>1 DEF IsDeclaration
  <1>6. Refs(d.own, by, None) \in Seq(TraitRef(None))
    BY <1>1, <1>5, RefsTyped
  <1>7. [f \in d.own.writes |-> by] \in ContentType
    BY <1>1, <1>5 DEF ContentType, IsPart
  <1>8. \A m \in kept : ops[m].taken = {} /\ ops[m].nested = {} /\ ops[m].failed = {}
    BY DEF Operation
  <1> DEFINE is == Refs(d.own, by, None)
             content == [f \in d.own.writes |-> by]
  <1>9. Source(by, kept) =
            [type |-> type, is |-> is, rtIs |-> <<>>, content |-> content, ops |-> ops,
             failed |-> {}]
    BY DEF Source
  <1> HIDE DEF ops, type, is, content
  <1>10. Source(by, kept) \in SourceType /\ Source(by, kept).failed = {}
         /\ Source(by, kept).ops = ops
    BY <1>3, <1>4, <1>6, <1>7, <1>9 DEF SourceType, is, content
  <1> QED BY <1>3, <1>8, <1>10 DEF Untouched

LEMMA UnderTyped ==
    ASSUME NEW target \in ContentType, NEW source \in ContentType
    PROVE  Under(target, source) \in ContentType
  <1>1. PICK F \in SUBSET Facets : target \in [F -> Writers]
    BY DEF ContentType
  <1>2. PICK G \in SUBSET Facets : source \in [G -> Writers]
    BY DEF ContentType
  <1>3. Under(target, source) \in [F \cup G -> Writers]
    BY <1>1, <1>2 DEF Under
  <1> QED BY <1>3 DEF ContentType

(* What merging a type into what applies it leaves.                        *)
LEMMA MergeTyped ==
    ASSUME NEW target \in SourceType, NEW source \in SourceType
    PROVE  /\ Merge(target, source) \in SourceType
           /\ Merge(target, source).failed = target.failed
           /\ DOMAIN Merge(target, source).ops = DOMAIN target.ops \cup DOMAIN source.ops
           /\ Untouched(target) /\ Untouched(source) => Untouched(Merge(target, source))
  <1> DEFINE M == DOMAIN target.ops \cup DOMAIN source.ops
             op(m) == IF m \notin DOMAIN target.ops THEN Contributed(source.ops[m])
                      ELSE IF m \notin DOMAIN source.ops THEN target.ops[m]
                      ELSE MergeMethod(target.ops[m], source.ops[m])
             ops == [m \in M |-> op(m)]
  <1>1. target.ops \in OperationsType /\ source.ops \in OperationsType
    BY DEF SourceType
  <1>2. M \in SUBSET Methods
    BY <1>1, OpsTyped
  <1>3. ASSUME NEW m \in M
        PROVE  /\ op(m) \in OperationType(m)
               /\ Untouched(target) /\ Untouched(source) =>
                    op(m).taken = {} /\ op(m).nested = {} /\ op(m).failed = {}
    <2>1. CASE m \notin DOMAIN target.ops
      <3> DEFINE s == source.ops[m]
      <3>1. s \in OperationType(m)
        BY <1>1, <2>1, OpsTyped
      <3>2. s.rtIs \o s.is \in Seq(TraitRef(m)) /\ <<>> \in Seq(TraitRef(m))
        BY <3>1, ConcatProperties DEF OperationType
      <3> HIDE DEF s
      <3>3. Contributed(s) \in OperationType(m)
        BY <3>1, <3>2 DEF Contributed, OperationType
      <3>4. /\ Contributed(s).taken = s.taken /\ Contributed(s).nested = s.nested
            /\ Contributed(s).failed = s.failed
        BY <3>1 DEF Contributed, OperationType
      <3> QED BY <2>1, <3>3, <3>4 DEF Untouched, s
    <2>2. CASE m \in DOMAIN target.ops /\ m \notin DOMAIN source.ops
      BY <1>1, <2>2, OpsTyped DEF Untouched
    <2>3. CASE m \in DOMAIN target.ops /\ m \in DOMAIN source.ops
      <3> DEFINE t == target.ops[m]  s == source.ops[m]
      <3>1. t \in OperationType(m) /\ s \in OperationType(m)
        BY <1>1, <2>3, OpsTyped
      <3>2. t.rtIs \o s.is \in Seq(TraitRef(m))
        BY <3>1, ConcatProperties DEF OperationType
      <3>3. Under(t.content, s.content) \in ContentType
        BY <3>1, UnderTyped DEF OperationType
      <3> HIDE DEF t, s
      <3>4. MergeMethod(t, s) \in OperationType(m)
        BY <3>1, <3>2, <3>3 DEF MergeMethod, OperationType
      <3>5. /\ MergeMethod(t, s).taken = t.taken /\ MergeMethod(t, s).nested = t.nested
            /\ MergeMethod(t, s).failed = t.failed
        BY <3>1 DEF MergeMethod, OperationType
      <3> QED BY <2>3, <3>4, <3>5 DEF Untouched, t, s
    <2> QED BY <2>1, <2>2, <2>3
  <1>4. ops \in OperationsType /\ DOMAIN ops = M
    BY <1>2, <1>3, MethodsTyped
  <1>5. Under(target.content, source.content) \in ContentType
    BY UnderTyped DEF SourceType
  <1>6. target.rtIs \o source.is \in Seq(TraitRef(None))
    BY ConcatProperties DEF SourceType
  <1> DEFINE type == IF target.type = <<>> THEN source.type ELSE target.type
  <1>7. type \in Seq(TypeRef)
    BY DEF SourceType
  <1>8. Merge(target, source) =
            [target EXCEPT !.content = Under(target.content, source.content),
                           !.rtIs = target.rtIs \o source.is, !.type = type, !.ops = ops]
    BY DEF Merge
  <1>9. \A m \in M : ops[m] = op(m)
    OBVIOUS
  <1> HIDE DEF ops, type
  <1>10. /\ Merge(target, source) \in SourceType /\ Merge(target, source).ops = ops
         /\ Merge(target, source).failed = target.failed
    BY <1>4, <1>5, <1>6, <1>7, <1>8 DEF SourceType
  <1> QED BY <1>3, <1>4, <1>9, <1>10 DEF Untouched

(* What replacing one operation leaves.                                    *)
With(r, m, o) == [res EXCEPT ![r].ops[m] = o]

LEMMA OperationReplaced ==
    ASSUME res \in [Resources -> SourceType], NEW r \in Resources,
           NEW m \in DOMAIN res[r].ops, NEW o \in OperationType(m)
    PROVE  /\ With(r, m, o) \in [Resources -> SourceType]
           /\ \A q \in Resources \ {r} : With(r, m, o)[q] = res[q]
           /\ \A q \in Resources :
                /\ With(r, m, o)[q].failed = res[q].failed
                /\ With(r, m, o)[q].is = res[q].is
                /\ With(r, m, o)[q].rtIs = res[q].rtIs
                /\ DOMAIN With(r, m, o)[q].ops = DOMAIN res[q].ops
                /\ \A k \in DOMAIN res[q].ops :
                    With(r, m, o)[q].ops[k] = IF q = r /\ k = m THEN o ELSE res[q].ops[k]
  <1> DEFINE ops == res[r].ops
             changed == [ops EXCEPT ![m] = o]
             new == With(r, m, o)
             source == [res[r] EXCEPT !.ops = changed]
  <1>1. res[r] \in SourceType /\ ops \in OperationsType
    BY DEF SourceType
  <1>2. /\ DOMAIN ops \subseteq Methods /\ \A k \in DOMAIN ops : ops[k] \in OperationType(k)
        /\ ops = [k \in DOMAIN ops |-> ops[k]]
    BY <1>1, OpsTyped
  <1>3. /\ DOMAIN changed = DOMAIN ops
        /\ \A k \in DOMAIN ops : changed[k] = IF k = m THEN o ELSE ops[k]
    BY <1>2
  <1>4. changed \in OperationsType
    <2>1. changed = [k \in DOMAIN ops |-> changed[k]]
      BY <1>3
    <2>2. \A k \in DOMAIN ops : changed[k] \in OperationType(k)
      BY <1>2, <1>3
    <2> HIDE DEF changed, ops
    <2> QED BY <1>2, <2>1, <2>2, MethodsTyped
  <1> HIDE DEF changed
  <1>5. /\ source \in SourceType /\ source.ops = changed /\ source.failed = res[r].failed
        /\ source.is = res[r].is /\ source.rtIs = res[r].rtIs
    BY <1>1, <1>4 DEF SourceType
  <1>6. new = [res EXCEPT ![r] = source]
    BY DEF changed, With
  <1> HIDE DEF source, new
  <1>7. new \in [Resources -> SourceType] /\ new[r] = source
        /\ \A q \in Resources \ {r} : new[q] = res[q]
    BY <1>5, <1>6
  <1> QED BY <1>3, <1>5, <1>7 DEF new

LEMMA InnermostTyped ==
    ASSUME TypedInv, path # <<>>
    PROVE  Here \in Resources /\ res[Here] \in SourceType
  BY LastReplaced DEF TypedInv, Typed, Here

LEMMA QueueTyped ==
    ASSUME res \in [Resources -> SourceType], NEW r \in Resources,
           NEW m \in DOMAIN res[r].ops
    PROVE  InPriorityOrder(r, m) \in Seq(Reaching(m))
  <1>1. res[r] \in SourceType /\ res[r].ops[m] \in OperationType(m)
    BY OpsTyped DEF SourceType
  <1> DEFINE s == res[r]  o == s.ops[m]
  <1>2. /\ o.is \in Seq(Reaching(m)) /\ o.rtIs \in Seq(Reaching(m))
        /\ s.is \in Seq(Reaching(m)) /\ s.rtIs \in Seq(Reaching(m))
    BY <1>1, SeqsGrow DEF SourceType, OperationType, Reaching
  <1> HIDE DEF s, o
  <1>3. o.is \o s.is \o o.rtIs \o s.rtIs \in Seq(Reaching(m))
    BY <1>2, ConcatProperties
  <1> QED BY <1>3 DEF InPriorityOrder, s, o

LEMMA TypedInitially == Init => TypedInv
  <1> SUFFICES ASSUME Init PROVE TypedInv
    OBVIOUS
  <1>1. doc \in Corpus /\ Root \in Resources
    BY TreeAssumption DEF Init
  <1>2. \A r \in Resources : Source(r, DOMAIN doc[r].ops) \in SourceType
    BY <1>1, SourceTyped
  <1>3. <<Root>> \in Seq(Resources)
    BY <1>1
  <1> QED BY <1>1, <1>2, <1>3 DEF Init, TypedInv, Typed, InPhase

LEMMA TargetTyped ==
    ASSUME TypedInv, path # <<>>
    PROVE  /\ Target \in SourceType
           /\ Target.type # <<>> =>
                Target.type[1] \in TypeRef /\ Found(Target.type[1]) \in Types \cup {None}
  <1>1. Target \in SourceType
    BY InnermostTyped, LastReplaced DEF Target, TypedInv, Typed
  <1>2. Target.type \in Seq(TypeRef)
    BY <1>1 DEF SourceType
  <1> DEFINE type == Target.type
  <1> HIDE DEF type
  <1>3. type # <<>> => type[1] \in TypeRef
    BY <1>2 DEF type
  <1> QED BY <1>1, <1>3 DEF type, TypeRef

LEMMA TypesTyped ==
    ASSUME TypedInv, CompileType \/ FailType \/ EndChain \/ MergeType
    PROVE  TypedInv'
  <1>1. path # <<>> /\ Here \in Resources /\ res[Here] \in SourceType /\ Target \in SourceType
    BY InnermostTyped, TargetTyped
    DEF CompileType, FailType, EndChain, MergeType, Chained, TypedInv, InPhase
  <1>2. /\ Typed /\ InPhase /\ doc \in Corpus /\ res \in [Resources -> SourceType]
        /\ chain \in Seq(SourceType) /\ merged \in [Resources -> Seq(Types)]
        /\ reported \subseteq FailureType
    BY DEF TypedInv, Typed
  <1> DEFINE ref == Target.type[1]  t == Found(ref)
  <1>3. CASE CompileType
    <2>1. t \in Types
      BY <1>1, <1>3, TargetTyped DEF CompileType, Chained
    <2>2. Source(t, Kept(t, DOMAIN Target.ops)) \in SourceType
      BY <1>2, <2>1, SourceTyped DEF Kept
    <2>3. merged[Here] \in Seq(Types)
      BY <1>1, <1>2
    <2> HIDE DEF t, ref
    <2>4. /\ chain' = Append(chain, Source(t, Kept(t, DOMAIN Target.ops)))
          /\ merged' = [merged EXCEPT ![Here] = Append(merged[Here], t)]
      BY <1>3 DEF CompileType, t, ref
    <2>5. chain' \in Seq(SourceType) /\ merged' \in [Resources -> Seq(Types)]
      BY <1>1, <1>2, <2>1, <2>2, <2>3, <2>4, AppendProperties
    <2> QED BY <1>2, <1>3, <2>5 DEF CompileType, Chained, TypedInv, Typed, InPhase
  <1>4. CASE FailType
    <2>1. ref \in RefType
      BY <1>1, <1>4, TargetTyped DEF FailType, Chained, TypeRef
    <2> DEFINE failure == Failure(Here, ref)
               source == [res[Here] EXCEPT !.failed = res[Here].failed \cup {failure}]
    <2>2. failure \in FailureType
      BY <1>1, <2>1 DEF Failure, FailureType
    <2>3. source \in SourceType
      BY <1>1, <2>2 DEF SourceType
    <2>4. res' = [res EXCEPT ![Here] = source] /\ reported' = reported \cup {failure}
      <3>1. res' = Note(Here, {failure}) /\ reported' = reported \cup {failure}
        BY <1>4 DEF FailType
      <3> QED BY <3>1 DEF Note
    <2>5. merged' \in [Resources -> Seq(Types)]
      <3>1. merged' = [merged EXCEPT ![Here] = <<>>] /\ <<>> \in Seq(Types)
        BY <1>4 DEF FailType
      <3> QED BY <1>1, <1>2, <3>1
    <2> HIDE DEF failure, source
    <2>6. res' \in [Resources -> SourceType] /\ reported' \subseteq FailureType
      BY <1>2, <2>2, <2>3, <2>4
    <2>7. chain' = <<>> /\ chain' \in Seq(SourceType)
      BY <1>4 DEF FailType
    <2> QED BY <1>2, <1>4, <2>5, <2>6, <2>7 DEF FailType, Chained, TypedInv, Typed, InPhase
  <1>5. CASE EndChain
    BY <1>2, <1>5 DEF EndChain, TypedInv, Typed, InPhase
  <1>6. CASE MergeType
    <2> DEFINE n == Len(chain)
    <2>1. chain # <<>> /\ n \in Nat \ {0} /\ \A i \in 1..n : chain[i] \in SourceType
      <3>1. chain # <<>>
        BY <1>2, <1>6 DEF MergeType, InPhase
      <3> QED BY <1>2, <3>1, LenProperties, EmptySeq, ElementOfSeq
    <2>2. CASE n = 1
      <3> DEFINE source == Merge(res[Here], chain[1])
      <3>1. source \in SourceType
        BY <1>1, <2>1, <2>2, MergeTyped
      <3>2. res' = [res EXCEPT ![Here] = source] /\ chain' = <<>> /\ phase' = "traits"
        BY <1>6, <2>2 DEF MergeType
      <3> HIDE DEF source
      <3>3. res' \in [Resources -> SourceType]
        BY <1>1, <1>2, <3>1, <3>2
      <3>4. chain' \in Seq(SourceType)
        BY <3>2
      <3> QED BY <1>2, <1>6, <3>2, <3>3, <3>4 DEF MergeType, TypedInv, Typed, InPhase
    <2>3. CASE n # 1
      <3>1. n - 1 \in 1..n /\ n \in 1..n
        <4>1. \A k \in Nat : k \notin {0, 1} => k - 1 \in 1..k /\ k \in 1..k
          OBVIOUS
        <4> QED BY <2>1, <2>3, <4>1
      <3> DEFINE e == Merge(chain[n - 1], chain[n])
      <3>2. e \in SourceType
        BY <2>1, <3>1, MergeTyped
      <3>3. chain' = PairAs(chain, e)
        <4> DEFINE shorter == SubSeq(chain, 1, n - 1)
        <4>1. chain' = [shorter EXCEPT ![n - 1] = Merge(shorter[n - 1], chain[n])]
          BY <1>6, <2>3 DEF MergeType
        <4>2. n - 1 \in 1..(n - 1)
          BY <2>1, <2>3
        <4>3. shorter[n - 1] = chain[n - 1]
          BY <1>2, <2>1, <4>2, LastReplaced DEF Front
        <4> QED BY <4>1, <4>3 DEF PairAs
      <3> HIDE DEF e
      <3>4. chain' \in Seq(SourceType) /\ chain' # <<>>
        BY <1>2, <2>1, <2>3, <3>2, <3>3, PairReplaced
      <3> QED BY <1>2, <1>6, <2>3, <3>4 DEF MergeType, TypedInv, Typed, InPhase
    <2> QED BY <2>2, <2>3
  <1> QED BY <1>3, <1>4, <1>5, <1>6

(* What an operation's traits change of it, and nothing else.              *)
LEMMA TraitsTyped ==
    ASSUME TypedInv, \/ StartMethod \/ SkipTrait \/ ApplyTrait \/ FailTrait
                     \/ NextDistance \/ EndMethod
    PROVE  TypedInv'
  <1>1. path # <<>> /\ Here \in Resources /\ res[Here] \in SourceType /\ phase = "traits"
    BY InnermostTyped DEF StartMethod, SkipTrait, ApplyTrait, FailTrait, NextDistance,
       EndMethod, Taking, TypedInv, InPhase
  <1>2. /\ Typed /\ InPhase /\ res \in [Resources -> SourceType]
        /\ queue \in Seq(Reaching(method)) /\ nested \in Seq(TraitRef(method))
        /\ errors \subseteq FailureType /\ doc \in Corpus
    BY DEF TypedInv, Typed
  <1>3. DOMAIN res[Here].ops \subseteq Methods
    BY <1>1, OpsTyped DEF SourceType
  <1>4. CASE StartMethod
    <2>1. PICK m \in DOMAIN res[Here].ops : method' = m /\ queue' = InPriorityOrder(Here, m)
      BY <1>4 DEF StartMethod
    <2>2. queue' \in Seq(Reaching(method')) /\ method' \in Methods /\ m # None
      BY <1>1, <1>2, <1>3, <2>1, QueueTyped, NoneAssumption
    <2>3. nested' = <<>> /\ nested' \in Seq(TraitRef(method'))
      BY <1>2, <1>4 DEF StartMethod, InPhase
    <2>4. /\ doc' = doc /\ res' = res /\ path' = path /\ phase' = phase /\ chain' = chain
          /\ applied' = applied /\ done' = done /\ errors' = errors /\ reported' = reported
          /\ merged' = merged
      BY <1>4 DEF StartMethod
    <2>5. Here' = Here
      BY <2>4 DEF Here
    <2>6. Typed'
      BY <1>2, <2>2, <2>3, <2>4 DEF Typed
    <2>7. InPhase'
      BY <1>1, <1>2, <2>1, <2>2, <2>4, <2>5 DEF InPhase
    <2> QED BY <2>6, <2>7 DEF TypedInv
  <1>5. CASE SkipTrait
    <2>1. queue' \in Seq(Reaching(method)) /\ queue # <<>> /\ method # None
      BY <1>2, <1>5, TailSet DEF SkipTrait, Taking
    <2>2. /\ doc' = doc /\ res' = res /\ path' = path /\ phase' = phase /\ chain' = chain
          /\ applied' = applied /\ done' = done /\ errors' = errors /\ reported' = reported
          /\ merged' = merged /\ method' = method /\ nested' = nested
      BY <1>5 DEF SkipTrait
    <2>3. Here' = Here
      BY <2>2 DEF Here
    <2>4. Typed'
      BY <1>2, <2>1, <2>2 DEF Typed
    <2>5. InPhase'
      BY <1>1, <1>2, <2>1, <2>2, <2>3 DEF InPhase
    <2> QED BY <2>4, <2>5 DEF TypedInv
  <1>6. CASE EndMethod
    <2>1. queue = <<>> /\ nested = <<>> /\ method \in Methods
      BY <1>2, <1>6 DEF EndMethod, Typed
    <2>2. /\ doc' = doc /\ res' = res /\ path' = path /\ phase' = phase /\ chain' = chain
          /\ applied' = applied \cup {method} /\ done' = done /\ errors' = errors
          /\ reported' = reported
          /\ merged' = merged /\ method' = None /\ nested' = nested /\ queue' = queue
      BY <1>6 DEF EndMethod
    <2>3. queue' \in Seq(Reaching(method')) /\ nested' \in Seq(TraitRef(method'))
      BY <2>1, <2>2
    <2>4. Typed'
      BY <1>2, <2>1, <2>2, <2>3 DEF Typed
    <2>5. InPhase'
      BY <1>1, <1>2, <2>1, <2>2 DEF InPhase
    <2> QED BY <2>4, <2>5 DEF TypedInv
  <1>7. ASSUME NEW o \in OperationType(method), method \in DOMAIN res[Here].ops,
               method # None, res' = With(Here, method, o),
               queue' \in Seq(Reaching(method)), nested' \in Seq(TraitRef(method)),
               errors' \subseteq FailureType,
               doc' = doc, path' = path, phase' = phase, chain' = chain, applied' = applied,
               done' = done, reported' = reported, merged' = merged, method' = method
        PROVE  TypedInv'
    <2>1. /\ res' \in [Resources -> SourceType]
          /\ DOMAIN res'[Here].ops = DOMAIN res[Here].ops
      BY <1>1, <1>2, <1>7, OperationReplaced
    <2>2. Here' = Here
      BY <1>7 DEF Here
    <2>3. Typed'
      BY <1>2, <1>7, <2>1 DEF Typed
    <2>4. InPhase'
      BY <1>1, <1>2, <1>7, <2>1, <2>2 DEF InPhase
    <2> QED BY <2>3, <2>4 DEF TypedInv
  <1>8. method # None =>
            method \in DOMAIN res[Here].ops /\ Op \in OperationType(method)
    BY <1>1, <1>2, OpsTyped DEF InPhase, SourceType, Op
  <1> DEFINE ref == Head(queue)  t == Found(ref)
  <1>9. Taking => /\ ref \in Reaching(method) /\ Tail(queue) \in Seq(Reaching(method))
                  /\ ref \in RefType /\ t \in Traits \cup {None}
    <2>1. Taking => ref \in Reaching(method) /\ Tail(queue) \in Seq(Reaching(method))
      BY <1>2, TailSet DEF Taking
    <2> QED BY <2>1 DEF Reaching, TraitRef
  <1>10. CASE ApplyTrait
    <2>1. Taking /\ t \in Traits /\ method # None /\ method \in Methods
      BY <1>2, <1>9, <1>10 DEF ApplyTrait, Taking, Typed
    <2> DEFINE content == Under(Op.content, [f \in doc[t].writes |-> t])
               o == [Op EXCEPT !.taken = Op.taken \cup {ref}, !.content = content]
    <2>2. IsPart(doc[t], t) /\ t \in Writers
      BY <1>2, <2>1, CorpusAssumption DEF Writers
    <2>3. [f \in doc[t].writes |-> t] \in ContentType
      BY <2>2 DEF ContentType, IsPart
    <2>4. content \in ContentType
      BY <1>8, <2>1, <2>3, UnderTyped DEF OperationType
    <2>5. Refs(doc[t], t, method) \in Seq(TraitRef(method))
      BY <2>1, <2>2, RefsTyped
    <2> HIDE DEF content, t, ref
    <2>6. o \in OperationType(method)
      BY <1>8, <1>9, <2>1, <2>4 DEF OperationType
    <2>7. /\ res' = With(Here, method, o)
          /\ nested' = nested \o Refs(doc[t], t, method)
      BY <1>10 DEF ApplyTrait, With, content, t, ref
    <2>8. nested' \in Seq(TraitRef(method))
      BY <1>2, <2>5, <2>7, ConcatProperties
    <2> HIDE DEF o
    <2> QED BY <1>2, <1>7, <1>8, <1>9, <1>10, <2>1, <2>6, <2>7, <2>8 DEF ApplyTrait
  <1>11. CASE FailTrait
    <2>1. Taking /\ method # None /\ method \in Methods
      BY <1>2, <1>11 DEF FailTrait, Taking, Typed
    <2> DEFINE failure == Failure(Here, ref)
               o == [Op EXCEPT !.taken = Op.taken \cup {ref}, !.failed = Op.failed \cup {failure}]
    <2>2. failure \in FailureType
      BY <1>1, <1>9, <2>1 DEF Failure, FailureType
    <2> HIDE DEF failure, ref
    <2>3. o \in OperationType(method)
      BY <1>8, <1>9, <2>1, <2>2 DEF OperationType
    <2>4. res' = With(Here, method, o) /\ errors' = errors \cup {failure}
      BY <1>11 DEF FailTrait, With, failure, ref
    <2> HIDE DEF o
    <2> QED BY <1>2, <1>7, <1>8, <1>9, <1>11, <2>1, <2>2, <2>3, <2>4 DEF FailTrait
  <1>12. CASE NextDistance
    <2> DEFINE o == [Op EXCEPT !.nested = Op.nested \cup ToSet(nested)]
    <2>1. method # None /\ method \in Methods
      BY <1>2, <1>12 DEF NextDistance, Typed
    <2>2. ToSet(nested) \subseteq TraitRef(method)
      BY <1>2, ElementOfSeq, LenProperties DEF ToSet
    <2>3. o \in OperationType(method)
      BY <1>8, <2>1, <2>2 DEF OperationType
    <2>4. res' = With(Here, method, o) /\ queue' = nested /\ nested' = <<>>
      BY <1>12 DEF NextDistance, With
    <2>5. queue' \in Seq(Reaching(method)) /\ nested' \in Seq(TraitRef(method))
      BY <1>2, <2>4, SeqsGrow DEF Reaching
    <2> HIDE DEF o
    <2> QED BY <1>2, <1>7, <1>8, <1>12, <2>1, <2>3, <2>4, <2>5 DEF NextDistance
  <1> QED BY <1>4, <1>5, <1>6, <1>10, <1>11, <1>12

(* What the end of a resource's traits leaves of it.                       *)
LEMMA UnappliedBound ==
    ASSUME TypedInv, BindUnapplied
    PROVE  /\ res' \in [Resources -> SourceType]
           /\ Unknown(Unapplied) \subseteq FailureType
           /\ \A q \in Resources \ {Here} : res'[q] = res[q]
           /\ \A q \in Resources :
                /\ res'[q].failed = IF q = Here
                        THEN res[q].failed \cup errors \cup Unknown(Unapplied)
                        ELSE res[q].failed
                /\ res'[q].is = res[q].is /\ res'[q].rtIs = res[q].rtIs
                /\ DOMAIN res'[q].ops = DOMAIN res[q].ops
                /\ \A m \in DOMAIN res[q].ops :
                    /\ res'[q].ops[m].is = res[q].ops[m].is
                    /\ res'[q].ops[m].rtIs = res[q].ops[m].rtIs
                    /\ res'[q].ops[m].nested = res[q].ops[m].nested
                    /\ res'[q].ops[m].taken = res[q].ops[m].taken
                    /\ res'[q].ops[m].content = res[q].ops[m].content
                    /\ res'[q].ops[m].failed = IF q = Here
                            THEN res[q].ops[m].failed
                                    \cup Unknown(Unapplied \cap MethodRefs(q, m))
                            ELSE res[q].ops[m].failed
  <1> DEFINE r == Here  s == res[r]  ops == s.ops
             all == errors \cup Unknown(Unapplied)
             failed(m) == ops[m].failed \cup Unknown(Unapplied \cap MethodRefs(r, m))
             op(m) == [ops[m] EXCEPT !.failed = failed(m)]
             noted == [m \in DOMAIN ops |-> op(m)]
             new == [s EXCEPT !.failed = s.failed \cup all, !.ops = noted]
  <1>1. /\ r \in Resources /\ s \in SourceType /\ res \in [Resources -> SourceType]
        /\ errors \subseteq FailureType
    BY InnermostTyped DEF BindUnapplied, TypedInv, InPhase, Typed
  <1>2. /\ ops \in OperationsType /\ DOMAIN ops \subseteq Methods
        /\ \A m \in DOMAIN ops : ops[m] \in OperationType(m)
    BY <1>1, OpsTyped DEF SourceType
  <1>3. Unapplied \subseteq RefType
    <2>1. ResourceRefs(r) \subseteq RefType
      <3>1. s.is \in Seq(RefType) /\ s.rtIs \in Seq(RefType)
        BY <1>1, SeqsGrow DEF SourceType, TraitRef
      <3> QED BY <3>1, ElementOfSeq, LenProperties DEF ToSet, ResourceRefs
    <2>2. ASSUME NEW m \in DOMAIN ops PROVE MethodRefs(r, m) \subseteq RefType
      <3>1. TraitRef(m) \subseteq RefType /\ ops[m] \in OperationType(m)
        BY <1>2 DEF TraitRef
      <3>2. ops[m].is \in Seq(RefType) /\ ops[m].rtIs \in Seq(RefType)
            /\ ops[m].nested \subseteq RefType
        BY <3>1, SeqsGrow DEF OperationType
      <3> QED BY <3>2, ElementOfSeq, LenProperties DEF ToSet, MethodRefs
    <2> QED BY <2>1, <2>2 DEF Unapplied
  <1>4. ASSUME NEW S \in SUBSET RefType PROVE Unknown(S) \subseteq FailureType
    BY <1>1 DEF Unknown, Failure, FailureType
  <1>5. Unknown(Unapplied) \subseteq FailureType
    BY <1>3, <1>4
  <1>6. ASSUME NEW m \in DOMAIN ops
        PROVE  /\ op(m) \in OperationType(m) /\ op(m).failed = failed(m)
               /\ op(m).is = ops[m].is /\ op(m).rtIs = ops[m].rtIs
               /\ op(m).nested = ops[m].nested /\ op(m).taken = ops[m].taken
               /\ op(m).content = ops[m].content
    <2>1. Unknown(Unapplied \cap MethodRefs(r, m)) \subseteq FailureType
      BY <1>3, <1>4
    <2> QED BY <1>2, <2>1 DEF OperationType
  <1>7. noted \in OperationsType /\ DOMAIN noted = DOMAIN ops
        /\ \A m \in DOMAIN ops : noted[m] = op(m)
    <2>1. /\ noted = [m \in DOMAIN ops |-> noted[m]] /\ DOMAIN noted = DOMAIN ops
          /\ \A m \in DOMAIN ops : noted[m] = op(m)
      OBVIOUS
    <2> HIDE DEF noted, op
    <2>2. \A m \in DOMAIN ops : noted[m] \in OperationType(m)
      BY <1>6, <2>1
    <2> HIDE DEF ops
    <2> QED BY <1>2, <2>1, <2>2, MethodsTyped
  <1>8. res' = [res EXCEPT ![r] = new]
    BY DEF BindUnapplied
  <1> HIDE DEF noted, all
  <1>9. new \in SourceType /\ new.failed = s.failed \cup all /\ new.ops = noted
        /\ new.is = s.is /\ new.rtIs = s.rtIs
    BY <1>1, <1>5, <1>7 DEF SourceType, all
  <1> HIDE DEF new, op
  <1>10. res' \in [Resources -> SourceType] /\ res'[r] = new
         /\ \A q \in Resources \ {r} : res'[q] = res[q]
    BY <1>1, <1>8, <1>9
  <1>11. /\ res'[r].failed = res[r].failed \cup errors \cup Unknown(Unapplied)
         /\ res'[r].is = res[r].is /\ res'[r].rtIs = res[r].rtIs
         /\ DOMAIN res'[r].ops = DOMAIN res[r].ops
    BY <1>7, <1>9, <1>10 DEF all
  <1>12. \A m \in DOMAIN ops : res'[r].ops[m] = op(m)
    BY <1>7, <1>9, <1>10
  <1> DEFINE Rest(q, m) ==
                /\ res'[q].ops[m].is = res[q].ops[m].is
                /\ res'[q].ops[m].rtIs = res[q].ops[m].rtIs
                /\ res'[q].ops[m].nested = res[q].ops[m].nested
                /\ res'[q].ops[m].taken = res[q].ops[m].taken
                /\ res'[q].ops[m].content = res[q].ops[m].content
                /\ res'[q].ops[m].failed = IF q = r
                        THEN res[q].ops[m].failed
                                \cup Unknown(Unapplied \cap MethodRefs(q, m))
                        ELSE res[q].ops[m].failed
  <1>13. ASSUME NEW m \in DOMAIN res[r].ops PROVE Rest(r, m)
    <2>1. res'[r].ops[m] = op(m)
      BY <1>12
    <2> HIDE DEF r
    <2> QED BY <1>6, <2>1
  <1>14. ASSUME NEW q \in Resources, q # r, NEW m \in DOMAIN res[q].ops PROVE Rest(q, m)
    BY <1>10, <1>14
  <1> HIDE DEF r, Rest
  <1>15. \A q \in Resources : \A m \in DOMAIN res[q].ops : Rest(q, m)
    BY <1>13, <1>14
  <1> QED BY <1>5, <1>10, <1>11, <1>15 DEF r, Rest

(* What a resource dealt with hands to the one that holds it.              *)
LEMMA FailuresHanded ==
    ASSUME TypedInv, Return
    PROVE  /\ res' \in [Resources -> SourceType] /\ Here \in Resources
           /\ path' \in Seq(Resources)
           /\ \A q \in Resources :
                /\ res'[q].failed = IF q \in Holder(path)
                        THEN res[q].failed \cup res[Here].failed ELSE res[q].failed
                /\ res'[q].is = res[q].is /\ res'[q].rtIs = res[q].rtIs
                /\ res'[q].ops = res[q].ops
  <1>1. Here \in Resources /\ res[Here] \in SourceType /\ path # <<>>
        /\ res \in [Resources -> SourceType] /\ path \in Seq(Resources)
    BY InnermostTyped DEF Return, TypedInv, Typed
  <1> DEFINE new(q) == [res[q] EXCEPT !.failed = res[q].failed \cup res[Here].failed]
  <1>2. ASSUME NEW q \in Resources
        PROVE  /\ new(q) \in SourceType /\ new(q).is = res[q].is /\ new(q).rtIs = res[q].rtIs
               /\ new(q).failed = res[q].failed \cup res[Here].failed
               /\ new(q).ops = res[q].ops
    <2>1. res[q] \in SourceType
      BY <1>1
    <2> QED BY <1>1, <2>1 DEF SourceType
  <1>3. res' = [q \in Resources |-> IF q \in Holder(path) THEN new(q) ELSE res[q]]
    BY DEF Return
  <1>4. path' \in Seq(Resources)
    BY <1>1, LastReplaced DEF Return
  <1> HIDE DEF new
  <1> QED BY <1>1, <1>2, <1>3, <1>4

LEMMA TreeTyped ==
    ASSUME TypedInv, BindUnapplied \/ Descend \/ Return
    PROVE  TypedInv'
  <1>1. Typed /\ InPhase /\ path \in Seq(Resources)
    BY DEF TypedInv, Typed
  <1>2. CASE BindUnapplied
    <2>1. res' \in [Resources -> SourceType] /\ Unknown(Unapplied) \subseteq FailureType
      BY <1>2, UnappliedBound
    <2>2. reported' = reported \cup errors \cup Unknown(Unapplied) /\ errors' = {}
      BY <1>2 DEF BindUnapplied
    <2>3. Typed'
      BY <1>1, <1>2, <2>1, <2>2 DEF BindUnapplied, Typed
    <2>4. InPhase'
      BY <1>1, <1>2, <2>2 DEF BindUnapplied, InPhase
    <2> QED BY <2>3, <2>4 DEF TypedInv
  <1>3. CASE Descend
    <2>1. path # <<>> /\ Here \in Resources
      BY <1>3, InnermostTyped DEF Descend
    <2>2. PICK i \in Below : Begin(Append(path, Children[Here][i]))
      BY <1>3 DEF Descend
    <2>3. Children[Here][i] \in Resources
      BY <2>1, <2>2, TreeAssumption, ElementOfSeq, LenProperties DEF Below
    <2>4. path' \in Seq(Resources) /\ path' # <<>>
      BY <1>1, <2>2, <2>3, AppendProperties DEF Begin
    <2>5. queue' = <<>> /\ nested' = <<>> /\ chain' = <<>> /\ method' = None /\ errors' = {}
          /\ applied' = {} /\ phase' = "type"
      BY <2>2 DEF Begin
    <2>6. doc' = doc /\ res' = res /\ done' = done /\ merged' = merged /\ reported' = reported
      BY <1>3 DEF Descend
    <2>7. Typed'
      BY <1>1, <2>4, <2>5, <2>6 DEF Typed
    <2>8. InPhase'
      BY <2>4, <2>5 DEF InPhase
    <2> QED BY <2>7, <2>8 DEF TypedInv
  <1>4. CASE Return
    <2>1. res' \in [Resources -> SourceType] /\ Here \in Resources /\ path' \in Seq(Resources)
      BY <1>4, FailuresHanded
    <2>2. phase = "children" /\ method = None
      BY <1>1, <1>4 DEF Return, InPhase
    <2>3. Typed'
      BY <1>1, <1>4, <2>1 DEF Return, Typed
    <2>4. InPhase'
      BY <1>1, <1>4, <2>2 DEF Return, InPhase
    <2> QED BY <2>3, <2>4 DEF TypedInv
  <1> QED BY <1>2, <1>3, <1>4

LEMMA StillTyped == ASSUME TypedInv, UNCHANGED vars PROVE TypedInv'
  BY DEF TypedInv, Typed, InPhase, vars, Here

(* All that the build of an endpoint tree keeps is well formed, and what   *)
(* it is in the middle of belongs to the innermost resource.               *)
THEOREM TypedInductive == Spec => []TypedInv
  <1>1. TypedInv /\ [Next]_vars => TypedInv'
    BY TypesTyped, TraitsTyped, TreeTyped, StillTyped DEF Next, End
  <1> QED BY <1>1, TypedInitially, PTL DEF Spec
-----------------------------------------------------------------------------
(* The way down the tree.                                                  *)

OnPath == ToSet(path)
Branch ==
    /\ IsInjective(path) /\ (path # <<>> => path[1] = Root)
    /\ \A i \in 1..(Len(path) - 1) : path[i + 1] \in ToSet(Children[path[i]])
    /\ OnPath \cap done = {} /\ Root \in OnPath \cup done
    /\ \A r \in done : ToSet(Children[r]) \subseteq done
    /\ \A r \in Resources : ToSet(Children[r]) \cap done # {} => r \in OnPath \cup done

(* How far a resource is: `Compiled` has its types, `Past` also its traits.*)
Compiled(r) == r \in OnPath \cup done /\ (path # <<>> /\ r = Here => phase \in {"traits", "children"})
Past(r) == r \in OnPath \cup done /\ (path # <<>> /\ r = Here => phase = "children")

LEMMA ChildrenTyped ==
    ASSUME NEW r \in Resources
    PROVE  /\ ToSet(Children[r]) \subseteq Resources
           /\ \A i \in DOMAIN Children[r] : Children[r][i] \in ToSet(Children[r])
  BY TreeAssumption, ElementOfSeq, LenProperties DEF ToSet

LEMMA PathEnds ==
    ASSUME path \in Seq(Resources), path # <<>>
    PROVE  /\ Len(path) \in Nat \ {0} /\ Here = path[Len(path)] /\ Here \in Resources
           /\ OnPath = {path[i] : i \in 1..Len(path)} /\ Here \in OnPath
           /\ OnPath \subseteq Resources
  BY LastReplaced, LenProperties, EmptySeq, ElementOfSeq DEF Here, OnPath, ToSet

(* A step down the tree is to a resource nobody has come to.               *)
LEMMA StepDown ==
    ASSUME TypedInv, Branch, Descend
    PROVE  \E c \in ToSet(Children[Here]) :
            /\ c \in Resources /\ c \notin OnPath \cup done /\ path' = Append(path, c)
            /\ path' # <<>> /\ Here' = c /\ OnPath' = OnPath \cup {c}
            /\ Len(path') = Len(path) + 1 /\ path'[Len(path) + 1] = c
            /\ \A i \in 1..Len(path) : path'[i] = path[i]
            /\ Begin(path') /\ Here \in OnPath
  <1>1. path # <<>> /\ path \in Seq(Resources)
    BY DEF Descend, TypedInv, Typed
  <1>2. /\ Len(path) \in Nat \ {0} /\ Here = path[Len(path)] /\ Here \in Resources
        /\ OnPath = {path[i] : i \in 1..Len(path)} /\ Here \in OnPath
    BY <1>1, PathEnds
  <1>3. PICK i \in Below : Begin(Append(path, Children[Here][i]))
    BY DEF Descend
  <1> DEFINE c == Children[Here][i]
  <1>4. c \in ToSet(Children[Here]) /\ c \in Resources /\ c \notin done
    BY <1>2, <1>3, ChildrenTyped DEF Below
  <1> HIDE DEF c
  <1>5. c \notin OnPath
    <2>1. SUFFICES ASSUME NEW j \in 1..Len(path), c = path[j] PROVE FALSE
      BY <1>2
    <2>2. CASE j = 1
      <3>1. path[1] = Root /\ Root \notin ToSet(Children[Here])
        BY <1>1, <1>2, TreeAssumption DEF Branch
      <3> QED BY <1>4, <2>1, <2>2, <3>1
    <2>3. CASE j # 1
      <3>1. j - 1 \in 1..(Len(path) - 1) /\ j - 1 \in 1..Len(path) /\ (j - 1) + 1 = j
        BY <1>2, <2>3
      <3>2. c \in ToSet(Children[path[j - 1]])
        <4>1. \A k \in 1..(Len(path) - 1) : path[k + 1] \in ToSet(Children[path[k]])
          BY DEF Branch
        <4> QED BY <2>1, <3>1, <4>1
      <3>3. path[j - 1] \in Resources
        BY <1>1, <3>1, ElementOfSeq
      <3>4. path[j - 1] = Here
        <4>1. ToSet(Children[path[j - 1]]) \cap ToSet(Children[Here]) # {}
          BY <1>4, <3>2
        <4> QED BY <1>2, <3>3, <4>1, TreeAssumption
      <3>5. j - 1 = Len(path)
        <4>1. \A k, l \in 1..Len(path) : path[k] = path[l] => k = l
          BY <1>1, LenProperties DEF Branch, IsInjective
        <4> QED BY <1>2, <3>1, <3>4, <4>1
      <3> QED BY <1>2, <3>1, <3>5
    <2> QED BY <2>2, <2>3
  <1>6. path' = Append(path, c) /\ Begin(path')
    BY <1>3 DEF Begin, c
  <1>7. /\ Len(path') = Len(path) + 1 /\ path'[Len(path) + 1] = c
        /\ \A k \in 1..Len(path) : path'[k] = path[k]
        /\ path' \in Seq(Resources)
    BY <1>1, <1>4, <1>6, AppendProperties
  <1>8. OnPath' = OnPath \cup {c}
    BY <1>1, <1>4, <1>6, AppendSet DEF OnPath
  <1>9. path' # <<>> /\ Here' = c
    BY <1>2, <1>7, EmptySeq DEF Here, Last
  <1> QED BY <1>2, <1>4, <1>5, <1>6, <1>7, <1>8, <1>9

(* A step up leaves a resource below which all is dealt with.              *)
LEMMA StepUp ==
    ASSUME TypedInv, Branch, Return
    PROVE  /\ Here \in OnPath /\ Here \in Resources /\ Here \notin done
           /\ ToSet(Children[Here]) \subseteq done /\ done' = done \cup {Here}
           /\ OnPath' = OnPath \ {Here} /\ phase = "children" /\ phase' = phase
           /\ Len(path') = Len(path) - 1 /\ \A i \in 1..(Len(path) - 1) : path'[i] = path[i]
           /\ path' # <<>> =>
                /\ Holder(path) = {Here'} /\ Here' \in OnPath' /\ Here' \in Resources
                /\ Here \in ToSet(Children[Here'])
           /\ path' = <<>> => Holder(path) = {} /\ Here = Root
  <1>1. path # <<>> /\ path \in Seq(Resources)
    BY DEF Return, TypedInv, Typed
  <1> DEFINE n == Len(path)
  <1>2. /\ n \in Nat \ {0} /\ Here = path[n] /\ Here \in Resources
        /\ OnPath = {path[i] : i \in 1..n} /\ Here \in OnPath /\ OnPath \subseteq Resources
    BY <1>1, PathEnds
  <1>3. /\ path' \in Seq(Resources) /\ Len(path') = n - 1
        /\ \A i \in 1..(n - 1) : path'[i] = path[i]
    BY <1>1, LastReplaced DEF Return
  <1>4. \A k, l \in 1..n : path[k] = path[l] => k = l
    BY <1>1, LenProperties DEF Branch, IsInjective
  <1>5. OnPath' = OnPath \ {Here}
    <2>1. OnPath' = {path'[i] : i \in 1..(n - 1)}
      BY <1>3, LenProperties DEF OnPath, ToSet
    <2>2. OnPath' = {path[i] : i \in 1..(n - 1)}
      BY <1>3, <2>1
    <2>3. n \in 1..n /\ \A i \in 1..n : i = n \/ i \in 1..(n - 1)
      BY <1>2
    <2>4. \A i \in 1..(n - 1) : i \in 1..n /\ i # n
      BY <1>2
    <2>5. \A i \in 1..(n - 1) : path[i] # Here
      BY <1>2, <1>4, <2>3, <2>4
    <2>6. OnPath = {path[i] : i \in 1..(n - 1)} \cup {Here}
      BY <1>2, <2>3, <2>4
    <2> QED BY <2>2, <2>5, <2>6
  <1>6. ToSet(Children[Here]) \subseteq done
    <2>1. \A i \in DOMAIN Children[Here] : Children[Here][i] \in done
      BY DEF Return, Below
    <2> QED BY <2>1 DEF ToSet
  <1>7. done' = done \cup {Here} /\ phase = "children" /\ phase' = phase
    BY DEF Return
  <1>8. Here \notin done
    BY <1>2 DEF Branch
  <1>9. ASSUME path' # <<>>
        PROVE  /\ Holder(path) = {Here'} /\ Here' \in OnPath' /\ Here' \in Resources
               /\ Here \in ToSet(Children[Here'])
    <2>1. n - 1 # 0
      BY <1>3, <1>9, EmptySeq
    <2>2. n - 1 \in 1..(n - 1) /\ n - 1 \in 1..n /\ (n - 1) + 1 = n /\ n > 1
      <3>1. \A k \in Nat : k - 1 # 0 /\ k # 0 =>
                k - 1 \in 1..(k - 1) /\ k - 1 \in 1..k /\ (k - 1) + 1 = k /\ k > 1
        OBVIOUS
      <3> QED BY <1>2, <2>1, <3>1
    <2>3. Here' = path[n - 1]
      BY <1>3, <2>2 DEF Here, Last
    <2>4. Holder(path) = {Here'}
      BY <2>2, <2>3 DEF Holder
    <2>5. Here' \in OnPath'
      <3>1. path[n - 1] \in OnPath /\ path[n - 1] # Here
        BY <1>2, <1>4, <2>2
      <3> QED BY <1>5, <2>3, <3>1
    <2>6. Here \in ToSet(Children[Here'])
      <3>1. \A k \in 1..(Len(path) - 1) : path[k + 1] \in ToSet(Children[path[k]])
        BY DEF Branch
      <3> QED BY <1>2, <2>2, <2>3, <3>1
    <2> QED BY <1>2, <1>5, <2>4, <2>5, <2>6
  <1>10. ASSUME path' = <<>> PROVE Holder(path) = {} /\ Here = Root
    <2>1. n = 1
      BY <1>2, <1>3, <1>10
    <2> QED BY <1>1, <1>2, <2>1 DEF Branch, Holder
  <1> QED BY <1>2, <1>3, <1>5, <1>6, <1>7, <1>8, <1>9, <1>10

LEMMA BranchInitially == Init => Branch
  <1> SUFFICES ASSUME Init PROVE Branch
    OBVIOUS
  <1>1. path = <<Root>> /\ done = {} /\ Root \in Resources
    BY TreeAssumption DEF Init
  <1>2. Len(path) = 1 /\ DOMAIN path = 1..1 /\ path[1] = Root /\ 1..(1 - 1) = {}
    BY <1>1
  <1>3. IsInjective(path)
    BY <1>2 DEF IsInjective
  <1>4. OnPath = {Root}
    BY <1>1, SingleSet DEF OnPath
  <1> QED BY <1>1, <1>2, <1>3, <1>4 DEF Branch

LEMMA BranchDown == ASSUME TypedInv, Branch, Descend PROVE Branch'
  <1>1. PICK c \in ToSet(Children[Here]) :
            /\ c \in Resources /\ c \notin OnPath \cup done /\ path' = Append(path, c)
            /\ path' # <<>> /\ Here' = c /\ OnPath' = OnPath \cup {c}
            /\ Len(path') = Len(path) + 1 /\ path'[Len(path) + 1] = c
            /\ \A i \in 1..Len(path) : path'[i] = path[i]
            /\ Here \in OnPath
    BY StepDown
  <1>2. path # <<>> /\ path \in Seq(Resources) /\ done' = done
    BY DEF Descend, TypedInv, Typed
  <1>3. Len(path) \in Nat \ {0} /\ Here = path[Len(path)]
    BY <1>2, PathEnds
  <1>4. IsInjective(path')
    BY <1>1, <1>2, AppendNew DEF Branch, OnPath
  <1>5. path'[1] = Root
    BY <1>1, <1>2, <1>3 DEF Branch
  <1>6. ASSUME NEW i \in 1..(Len(path') - 1) PROVE path'[i + 1] \in ToSet(Children[path'[i]])
    <2>1. CASE i = Len(path)
      BY <1>1, <1>3, <2>1
    <2>2. CASE i # Len(path)
      <3>1. i \in 1..(Len(path) - 1) /\ i \in 1..Len(path) /\ i + 1 \in 1..Len(path)
        BY <1>1, <1>3, <2>2
      <3>2. path[i + 1] \in ToSet(Children[path[i]])
        BY <3>1 DEF Branch
      <3> QED BY <1>1, <3>1, <3>2
    <2> QED BY <2>1, <2>2
  <1> QED BY <1>1, <1>2, <1>4, <1>5, <1>6 DEF Branch

LEMMA BranchUp == ASSUME TypedInv, Branch, Return PROVE Branch'
  <1>1. /\ Here \in OnPath /\ Here \in Resources /\ Here \notin done
        /\ ToSet(Children[Here]) \subseteq done /\ done' = done \cup {Here}
        /\ OnPath' = OnPath \ {Here}
        /\ Len(path') = Len(path) - 1 /\ \A i \in 1..(Len(path) - 1) : path'[i] = path[i]
        /\ path' # <<>> =>
                /\ Holder(path) = {Here'} /\ Here' \in OnPath' /\ Here' \in Resources
                /\ Here \in ToSet(Children[Here'])
        /\ path' = <<>> => Holder(path) = {} /\ Here = Root
    BY StepUp
  <1>2. /\ path # <<>> /\ path \in Seq(Resources) /\ path' \in Seq(Resources)
        /\ Len(path) \in Nat \ {0}
    BY FailuresHanded, PathEnds DEF Return, TypedInv, Typed
  <1>3. IsInjective(path')
    <2>1. DOMAIN path = 1..Len(path) /\ DOMAIN path' = 1..(Len(path) - 1)
      BY <1>1, <1>2, LenProperties
    <2>2. \A i \in 1..(Len(path) - 1) : i \in 1..Len(path)
      BY <1>2
    <2> QED BY <1>1, <2>1, <2>2 DEF Branch, IsInjective
  <1>4. path' # <<>> => path'[1] = Root
    <2>1. path' # <<>> => 1 \in 1..(Len(path) - 1)
      BY <1>1, <1>2, EmptySeq
    <2> QED BY <1>1, <1>2, <2>1 DEF Branch
  <1>5. ASSUME NEW i \in 1..(Len(path') - 1) PROVE path'[i + 1] \in ToSet(Children[path'[i]])
    <2>1. i \in 1..(Len(path) - 1) /\ i + 1 \in 1..(Len(path) - 1)
      BY <1>1, <1>2
    <2>2. path[i + 1] \in ToSet(Children[path[i]])
      BY <2>1 DEF Branch
    <2> QED BY <1>1, <2>1, <2>2
  <1>6. /\ OnPath' \cap done' = {} /\ Root \in OnPath' \cup done'
        /\ \A r \in done' : ToSet(Children[r]) \subseteq done'
    BY <1>1 DEF Branch
  <1>7. ASSUME NEW r \in Resources, ToSet(Children[r]) \cap done' # {}
        PROVE  r \in OnPath' \cup done'
    <2>1. CASE Here \notin ToSet(Children[r])
      BY <1>1, <1>7, <2>1 DEF Branch
    <2>2. CASE Here \in ToSet(Children[r])
      <3>1. path' # <<>>
        BY <1>1, <2>2, TreeAssumption
      <3>2. ToSet(Children[r]) \cap ToSet(Children[Here']) # {} /\ Here' \in Resources
        BY <1>1, <2>2, <3>1
      <3>3. r = Here'
        BY <3>2, TreeAssumption
      <3> QED BY <1>1, <3>1, <3>3
    <2> QED BY <2>1, <2>2
  <1> QED BY <1>3, <1>4, <1>5, <1>6, <1>7 DEF Branch

LEMMA BranchStill ==
    ASSUME Branch, path' = path, done' = done PROVE Branch'
  BY DEF Branch, OnPath

THEOREM BranchInductive == Spec => []Branch
  <1>1. TypedInv /\ Branch /\ [Next]_vars => Branch'
    <2> SUFFICES ASSUME TypedInv, Branch, [Next]_vars PROVE Branch'
      OBVIOUS
    <2>1. CASE Descend
      BY <2>1, BranchDown
    <2>2. CASE Return
      BY <2>2, BranchUp
    <2>3. CASE ~Descend /\ ~Return
      <3>1. path' = path /\ done' = done
        BY <2>3 DEF Next, CompileType, FailType, EndChain, MergeType, StartMethod, SkipTrait,
           ApplyTrait, FailTrait, NextDistance, EndMethod, BindUnapplied, End, vars
      <3> QED BY <3>1, BranchStill
    <2> QED BY <2>1, <2>2, <2>3
  <1> QED BY <1>1, BranchInitially, TypedInductive, PTL DEF Spec

(* The steps of the traits stay with the innermost resource, which keeps   *)
(* its methods.                                                            *)
TraitStep ==
    \/ StartMethod \/ SkipTrait \/ ApplyTrait \/ FailTrait \/ NextDistance
    \/ EndMethod \/ BindUnapplied

LEMMA TraitStepStays ==
    ASSUME TypedInv, TraitStep
    PROVE  /\ path # <<>> /\ Here \in Resources /\ Here' = Here
           /\ phase = "traits" /\ phase' \in {"traits", "children"}
           /\ path' = path /\ done' = done /\ doc' = doc /\ merged' = merged /\ chain' = chain
           /\ \A q \in Resources \ {Here} : res'[q] = res[q]
           /\ \A q \in Resources :
                /\ DOMAIN res'[q].ops = DOMAIN res[q].ops
                /\ res'[q].is = res[q].is /\ res'[q].rtIs = res[q].rtIs
  <1>1. path # <<>> /\ Here \in Resources /\ phase = "traits"
    BY InnermostTyped DEF TraitStep, StartMethod, SkipTrait, ApplyTrait, FailTrait,
       NextDistance, EndMethod, BindUnapplied, Taking, TypedInv, InPhase
  <1>2. /\ path' = path /\ done' = done /\ doc' = doc /\ merged' = merged /\ chain' = chain
        /\ phase' \in {"traits", "children"}
    BY <1>1 DEF TraitStep, StartMethod, SkipTrait, ApplyTrait, FailTrait,
       NextDistance, EndMethod, BindUnapplied
  <1>3. Here' = Here
    BY <1>2 DEF Here
  <1>4. CASE StartMethod \/ SkipTrait \/ EndMethod
    <2>1. res' = res
      BY <1>4 DEF StartMethod, SkipTrait, EndMethod
    <2> QED BY <1>1, <1>2, <1>3, <2>1
  <1>5. CASE BindUnapplied
    BY <1>1, <1>2, <1>3, <1>5, UnappliedBound
  <1>6. CASE ApplyTrait \/ FailTrait \/ NextDistance
    <2>1. \E s : res' = [res EXCEPT ![Here].ops[method] = s]
      BY <1>6 DEF ApplyTrait, FailTrait, NextDistance
    <2>2. PICK s : res' = [res EXCEPT ![Here].ops[method] = s]
      BY <2>1
    <2>3. /\ res \in [Resources -> SourceType] /\ method # None
          /\ method \in DOMAIN res[Here].ops
      BY <1>6 DEF ApplyTrait, FailTrait, NextDistance, Taking, TypedInv, Typed, InPhase
    <2> DEFINE ops == [res[Here].ops EXCEPT ![method] = s]
               source == [res[Here] EXCEPT !.ops = ops]
    <2>4. res' = [res EXCEPT ![Here] = source]
      BY <2>2
    <2>5. DOMAIN ops = DOMAIN res[Here].ops
      OBVIOUS
    <2> HIDE DEF ops
    <2>6. source.ops = ops /\ source.is = res[Here].is /\ source.rtIs = res[Here].rtIs
      <3>1. res[Here] \in SourceType
        BY <1>1, <2>3
      <3> QED BY <3>1 DEF SourceType
    <2> HIDE DEF source
    <2>7. res'[Here] = source /\ \A q \in Resources \ {Here} : res'[q] = res[q]
      BY <1>1, <2>3, <2>4
    <2>8. /\ DOMAIN res'[Here].ops = DOMAIN res[Here].ops
          /\ res'[Here].is = res[Here].is /\ res'[Here].rtIs = res[Here].rtIs
      BY <2>5, <2>6, <2>7
    <2>9. \A q \in Resources :
            /\ DOMAIN res'[q].ops = DOMAIN res[q].ops
            /\ res'[q].is = res[q].is /\ res'[q].rtIs = res[q].rtIs
      <3>1. \A q \in Resources : q = Here \/ q \in Resources \ {Here}
        OBVIOUS
      <3> QED BY <2>7, <2>8, <3>1
    <2> QED BY <1>1, <1>2, <1>3, <2>7, <2>9
  <1> QED BY <1>4, <1>5, <1>6 DEF TraitStep
-----------------------------------------------------------------------------
(* The methods a chain brings.                                             *)

(* A resource whose types are not merged into it is as it was declared.    *)
AsDeclared ==
    \A r \in Resources : ~Compiled(r) =>
        /\ Untouched(res[r]) /\ DOMAIN res[r].ops = DOMAIN doc[r].ops
        /\ r \notin OnPath => res[r].failed = {} /\ merged[r] = <<>>

(* Each type of a chain `c` of the types T has its own methods, the last   *)
(* with what was merged into it, and of the optional ones those of what    *)
(* applies it, the first the resource with the methods M.                  *)
Required(D, t) == DOMAIN D[t].ops \ D[t].optional
Brings(c, T, D, i) ==
    IF i < Len(c) THEN Required(D, T[i])
    ELSE UNION {Required(D, T[j]) : j \in i..Len(T)}
Applying(c, M, i) == IF i = 1 THEN M ELSE DOMAIN c[i - 1].ops
Brought(c, T, D, M) ==
    \A i \in DOMAIN c :
        /\ Untouched(c[i]) /\ Brings(c, T, D, i) \subseteq DOMAIN c[i].ops
        /\ DOMAIN c[i].ops \subseteq Brings(c, T, D, i) \cup Applying(c, M, i)

TypesOf == merged[Here]
ChainBrings ==
    phase \in {"type", "merge"} =>
        /\ IF phase = "type" THEN Len(chain) = Len(TypesOf)
           ELSE chain # <<>> /\ Len(chain) <= Len(TypesOf)
        /\ Brought(chain, TypesOf, doc, DOMAIN res[Here].ops)

MethodsOf(r) == DOMAIN doc[r].ops \cup UNION {Required(doc, t) : t \in ToSet(merged[r])}
HasMethods == \A r \in Resources : Compiled(r) => DOMAIN res[r].ops = MethodsOf(r)

MethodsInv == AsDeclared /\ ChainBrings /\ HasMethods

(* A type that joins the chain: what stood at its end brings what it did.  *)
LEMMA BroughtCompiled ==
    ASSUME NEW D, NEW M, NEW c \in Seq(SourceType), NEW T \in Seq(Types),
           Len(c) = Len(T), Brought(c, T, D, M),
           NEW t \in Types, NEW s \in SourceType, Untouched(s),
           Required(D, t) \subseteq DOMAIN s.ops,
           DOMAIN s.ops \subseteq
                Required(D, t) \cup (IF c = <<>> THEN M ELSE DOMAIN Last(c).ops)
    PROVE  Brought(Append(c, s), Append(T, t), D, M)
  <1> DEFINE n == Len(c)  d == Append(c, s)  U == Append(T, t)
  <1>1. /\ n \in Nat /\ Len(d) = n + 1 /\ d[n + 1] = s /\ DOMAIN c = 1..n
        /\ DOMAIN d = 1..(n + 1) /\ \A i \in 1..n : d[i] = c[i]
    BY AppendProperties, LenProperties
  <1>2. /\ Len(T) = n /\ Len(U) = n + 1 /\ U[n + 1] = t /\ \A i \in 1..n : U[i] = T[i]
    BY AppendProperties
  <1> HIDE DEF n, d, U
  <1>3. ASSUME NEW i \in 1..n
        PROVE  Brings(c, T, D, i) = Required(D, T[i])
    <2>1. CASE i < n
      BY <2>1 DEF Brings, n
    <2>2. CASE ~(i < n)
      <3>1. i = n
        BY <1>1, <2>2
      <3>2. i..n = {i}
        BY <1>1, <3>1
      <3> QED BY <1>2, <2>2, <3>2 DEF Brings, n
    <2> QED BY <2>1, <2>2
  <1>4. ASSUME NEW i \in 1..n
        PROVE  /\ Untouched(d[i]) /\ Brings(d, U, D, i) \subseteq DOMAIN d[i].ops
               /\ DOMAIN d[i].ops \subseteq Brings(d, U, D, i) \cup Applying(d, M, i)
    <2>1. i < Len(d) /\ d[i] = c[i] /\ U[i] = T[i]
      BY <1>1, <1>2
    <2>2. Brings(d, U, D, i) = Brings(c, T, D, i)
      BY <1>3, <2>1 DEF Brings
    <2>3. Applying(d, M, i) = Applying(c, M, i)
      <3>1. i # 1 => i - 1 \in 1..n
        BY <1>1
      <3> QED BY <1>1, <3>1 DEF Applying
    <2>4. /\ Untouched(c[i]) /\ Brings(c, T, D, i) \subseteq DOMAIN c[i].ops
          /\ DOMAIN c[i].ops \subseteq Brings(c, T, D, i) \cup Applying(c, M, i)
      BY <1>1 DEF Brought
    <2> QED BY <2>1, <2>2, <2>3, <2>4
  <1>5. Brings(d, U, D, n + 1) = Required(D, t)
    <2>1. ~(n + 1 < Len(d)) /\ (n + 1)..Len(U) = {n + 1}
      BY <1>1, <1>2
    <2> QED BY <1>2, <2>1 DEF Brings
  <1>6. Applying(d, M, n + 1) = IF c = <<>> THEN M ELSE DOMAIN Last(c).ops
    <2>1. CASE c = <<>>
      <3>1. n + 1 = 1
        BY <2>1 DEF n
      <3> QED BY <2>1, <3>1 DEF Applying
    <2>2. CASE c # <<>>
      <3>1. n # 0
        BY <2>2, EmptySeq DEF n
      <3>2. n + 1 # 1 /\ (n + 1) - 1 = n /\ n \in 1..n
        BY <1>1, <3>1
      <3>3. d[n] = Last(c)
        BY <1>1, <3>2 DEF Last, n
      <3> QED BY <2>2, <3>2, <3>3 DEF Applying
    <2> QED BY <2>1, <2>2
  <1>7. /\ Untouched(d[n + 1]) /\ Brings(d, U, D, n + 1) \subseteq DOMAIN d[n + 1].ops
        /\ DOMAIN d[n + 1].ops \subseteq Brings(d, U, D, n + 1) \cup Applying(d, M, n + 1)
    BY <1>1, <1>5, <1>6
  <1>8. \A i \in DOMAIN d : i \in 1..n \/ i = n + 1
    BY <1>1
  <1>9. Brought(d, U, D, M)
    BY <1>4, <1>7, <1>8 DEF Brought
  <1> QED BY <1>9 DEF d, U

(* The last type of a chain merged into the one before it.                 *)
LEMMA BroughtMerged ==
    ASSUME NEW D, NEW M, NEW c \in Seq(SourceType), NEW T \in Seq(Types),
           Len(c) <= Len(T), Brought(c, T, D, M), Len(c) # 0, Len(c) # 1
    PROVE  Brought(PairAs(c, Merge(c[Len(c) - 1], c[Len(c)])), T, D, M)
  <1> DEFINE n == Len(c)  k == n - 1  e == Merge(c[k], c[n])  d == PairAs(c, e)
  <1>1. n \in Nat /\ Len(T) \in Nat /\ n # 0 /\ n # 1 /\ n <= Len(T) /\ DOMAIN c = 1..n
    BY LenProperties
  <1>2. k \in Nat /\ k \in 1..n /\ n \in 1..n /\ k < n /\ k + 1 = n
    BY <1>1
  <1>3. c[k] \in SourceType /\ c[n] \in SourceType
    BY <1>2, ElementOfSeq
  <1>4. /\ e \in SourceType /\ DOMAIN e.ops = DOMAIN c[k].ops \cup DOMAIN c[n].ops
        /\ Untouched(c[k]) /\ Untouched(c[n]) => Untouched(e)
    BY <1>3, MergeTyped
  <1>5. /\ Len(d) = k /\ DOMAIN d = 1..k /\ \A i \in 1..k : d[i] = IF i = k THEN e ELSE c[i]
    <2>1. d = PairAs(c, e) /\ e \in SourceType
      BY <1>4
    <2> HIDE DEF e
    <2>2. /\ d \in Seq(SourceType) /\ Len(d) = Len(c) - 1
          /\ \A i \in 1..(Len(c) - 1) : d[i] = IF i = Len(c) - 1 THEN e ELSE c[i]
      BY <2>1, PairReplaced
    <2> QED BY <2>2, LenProperties
  <1> HIDE DEF e, k, d
  <1>6. ASSUME NEW i \in 1..n
        PROVE  /\ Untouched(c[i]) /\ Brings(c, T, D, i) \subseteq DOMAIN c[i].ops
               /\ DOMAIN c[i].ops \subseteq Brings(c, T, D, i) \cup Applying(c, M, i)
    BY <1>1 DEF Brought
  <1>7. ASSUME NEW i \in 1..k PROVE Applying(d, M, i) = Applying(c, M, i)
    <2>1. i # 1 => i - 1 \in 1..k /\ i - 1 # k
      BY <1>2
    <2> QED BY <1>5, <2>1 DEF Applying
  <1>8. ASSUME NEW i \in 1..k, i # k
        PROVE  /\ Untouched(d[i]) /\ Brings(d, T, D, i) \subseteq DOMAIN d[i].ops
               /\ DOMAIN d[i].ops \subseteq Brings(d, T, D, i) \cup Applying(d, M, i)
    <2>1. i < k /\ i < n /\ i \in 1..n
      BY <1>2, <1>8
    <2>2. Brings(d, T, D, i) = Brings(c, T, D, i)
      BY <1>5, <2>1 DEF Brings, n
    <2> QED BY <1>5, <1>6, <1>7, <1>8, <2>1, <2>2
  <1>9. Brings(d, T, D, k) = Brings(c, T, D, k) \cup Brings(c, T, D, n)
    <2>1. Brings(d, T, D, k) = UNION {Required(D, T[j]) : j \in k..Len(T)}
      BY <1>2, <1>5 DEF Brings
    <2>2. Brings(c, T, D, n) = UNION {Required(D, T[j]) : j \in n..Len(T)}
      BY <1>1 DEF Brings, n
    <2>3. Brings(c, T, D, k) = Required(D, T[k])
      BY <1>2 DEF Brings, n
    <2>4. k..Len(T) = {k} \cup n..Len(T)
      BY <1>1, <1>2
    <2> QED BY <2>1, <2>2, <2>3, <2>4
  <1>10. Applying(c, M, n) = DOMAIN c[k].ops
    BY <1>1, <1>2 DEF Applying, k
  <1>11. /\ Untouched(d[k]) /\ Brings(d, T, D, k) \subseteq DOMAIN d[k].ops
         /\ DOMAIN d[k].ops \subseteq Brings(d, T, D, k) \cup Applying(d, M, k)
    <2>1. k \in 1..k /\ d[k] = e
      BY <1>2, <1>5
    <2> QED BY <1>2, <1>4, <1>6, <1>7, <1>9, <1>10, <2>1
  <1>12. Brought(d, T, D, M)
    BY <1>5, <1>8, <1>11 DEF Brought
  <1> QED BY <1>12 DEF d, e, k

(* What the resource has when the first type is merged into it.            *)
LEMMA BroughtAll ==
    ASSUME NEW D, NEW M, NEW c \in Seq(SourceType), NEW T \in Seq(Types),
           Brought(c, T, D, M), Len(c) = 1
    PROVE  /\ Untouched(c[1])
           /\ M \cup DOMAIN c[1].ops = M \cup UNION {Required(D, t) : t \in ToSet(T)}
  <1>1. 1 \in DOMAIN c /\ Applying(c, M, 1) = M
    BY LenProperties DEF Applying
  <1>2. Brings(c, T, D, 1) = UNION {Required(D, t) : t \in ToSet(T)}
    <2>1. Brings(c, T, D, 1) = UNION {Required(D, T[j]) : j \in 1..Len(T)}
      BY DEF Brings
    <2>2. ToSet(T) = {T[j] : j \in 1..Len(T)}
      BY LenProperties DEF ToSet
    <2> QED BY <2>1, <2>2
  <1> QED BY <1>1, <1>2 DEF Brought

LEMMA CompiledBy ==
    ASSUME path' = path, done' = done, phase \in {"traits", "children"},
           phase' \in {"traits", "children"}, NEW r
    PROVE  Compiled(r)' <=> Compiled(r)
  BY DEF Compiled, OnPath, Here

LEMMA MethodsInitially == Init => MethodsInv
  <1> SUFFICES ASSUME Init PROVE MethodsInv
    OBVIOUS
  <1>1. /\ doc \in Corpus /\ path = <<Root>> /\ phase = "type" /\ chain = <<>> /\ done = {}
        /\ res = [r \in Resources |-> Source(r, DOMAIN doc[r].ops)]
        /\ merged = [r \in Resources |-> <<>>] /\ Root \in Resources
    BY TreeAssumption DEF Init
  <1>2. \A r \in Resources :
            /\ res[r].failed = {} /\ DOMAIN res[r].ops = DOMAIN doc[r].ops
            /\ Untouched(res[r])
    BY <1>1, SourceTyped
  <1>3. OnPath = {Root} /\ Here = Root /\ path # <<>>
    BY <1>1, SingleSet DEF OnPath, Here, Last
  <1>4. ~Compiled(Root) /\ \A r \in Resources : ~Compiled(r)
    BY <1>1, <1>3 DEF Compiled
  <1>5. Len(chain) = Len(TypesOf) /\ DOMAIN chain = {}
    BY <1>1, <1>3 DEF TypesOf
  <1> QED BY <1>1, <1>2, <1>4, <1>5 DEF MethodsInv, AsDeclared, ChainBrings, HasMethods, Brought

LEMMA MethodsCompile == ASSUME TypedInv, MethodsInv, CompileType PROVE MethodsInv'
  <1>1. /\ path # <<>> /\ Here \in Resources /\ phase = "type" /\ phase' = phase
        /\ res' = res /\ path' = path /\ done' = done /\ doc' = doc /\ doc \in Corpus
        /\ chain \in Seq(SourceType) /\ merged \in [Resources -> Seq(Types)]
    BY InnermostTyped DEF CompileType, Chained, TypedInv, InPhase, Typed
  <1>2. PICK t \in Types : t = Found(Target.type[1])
    BY <1>1, TargetTyped DEF CompileType, Chained
  <1> DEFINE s == Source(t, Kept(t, DOMAIN Target.ops))
  <1>3. s \in SourceType /\ DOMAIN s.ops = Kept(t, DOMAIN Target.ops) /\ Untouched(s)
    BY <1>1, SourceTyped DEF Kept
  <1>4. chain' = Append(chain, s) /\ merged' = [merged EXCEPT ![Here] = Append(merged[Here], t)]
    BY <1>2 DEF CompileType
  <1>5. Required(doc, t) \subseteq Kept(t, DOMAIN Target.ops)
        /\ Kept(t, DOMAIN Target.ops) \subseteq Required(doc, t) \cup DOMAIN Target.ops
    BY DEF Kept, Required
  <1> HIDE DEF s
  <1>6. DOMAIN Target.ops = IF chain = <<>> THEN DOMAIN res[Here].ops ELSE DOMAIN Last(chain).ops
    BY DEF Target
  <1>7. TypesOf' = Append(TypesOf, t) /\ TypesOf \in Seq(Types)
        /\ \A q \in Resources \ {Here} : merged'[q] = merged[q]
    BY <1>1, <1>4 DEF TypesOf, Here
  <1>8. Len(chain) = Len(TypesOf) /\ Brought(chain, TypesOf, doc, DOMAIN res[Here].ops)
    BY <1>1 DEF MethodsInv, ChainBrings
  <1>9. Brought(Append(chain, s), Append(TypesOf, t), doc, DOMAIN res[Here].ops)
    BY <1>1, <1>3, <1>5, <1>6, <1>7, <1>8, BroughtCompiled
  <1>10. Len(chain') = Len(TypesOf')
    BY <1>1, <1>3, <1>4, <1>7, <1>8, AppendProperties
  <1>11. Here' = Here
    BY <1>1 DEF Here
  <1>12. ChainBrings'
    BY <1>1, <1>4, <1>7, <1>9, <1>10, <1>11 DEF ChainBrings
  <1>13. \A r : Compiled(r)' <=> Compiled(r)
    BY <1>1 DEF Compiled, OnPath, Here
  <1>14. ~Compiled(Here) /\ Here \in OnPath
    BY <1>1, PathEnds DEF Compiled, TypedInv, Typed
  <1>15. AsDeclared'
    BY <1>1, <1>7, <1>13, <1>14 DEF MethodsInv, AsDeclared, OnPath
  <1>16. HasMethods'
    <2>1. ASSUME NEW r \in Resources, Compiled(r)' PROVE DOMAIN res'[r].ops = MethodsOf(r)'
      <3>1. Compiled(r) /\ r # Here
        BY <1>13, <1>14, <2>1
      <3>2. merged'[r] = merged[r]
        BY <1>7, <3>1
      <3> QED BY <1>1, <3>1, <3>2 DEF MethodsInv, HasMethods, MethodsOf
    <2> QED BY <2>1 DEF HasMethods
  <1> QED BY <1>12, <1>15, <1>16 DEF MethodsInv

LEMMA MethodsFail == ASSUME TypedInv, MethodsInv, FailType PROVE MethodsInv'
  <1>1. /\ path # <<>> /\ Here \in Resources /\ phase = "type" /\ phase' = "traits"
        /\ path' = path /\ done' = done /\ doc' = doc
        /\ res \in [Resources -> SourceType] /\ merged \in [Resources -> Seq(Types)]
    BY InnermostTyped DEF FailType, Chained, TypedInv, InPhase, Typed
  <1>2. merged' = [merged EXCEPT ![Here] = <<>>]
    BY DEF FailType
  <1>3. PICK failure : res' = Note(Here, {failure})
    BY DEF FailType
  <1> DEFINE source == [res[Here] EXCEPT !.failed = @ \cup {failure}]
  <1>4. res' = [res EXCEPT ![Here] = source]
    BY <1>3 DEF Note
  <1>5. source.ops = res[Here].ops
    <2>1. res[Here] \in SourceType
      BY <1>1
    <2> QED BY <2>1 DEF SourceType
  <1> HIDE DEF source
  <1>6. /\ \A q \in Resources : res'[q].ops = res[q].ops
        /\ \A q \in Resources \ {Here} : res'[q] = res[q]
    BY <1>1, <1>4, <1>5
  <1>7. merged'[Here] = <<>> /\ \A q \in Resources \ {Here} : merged'[q] = merged[q]
    BY <1>1, <1>2
  <1>8. Here \in OnPath /\ OnPath' = OnPath /\ Here' = Here
    BY <1>1, PathEnds DEF TypedInv, Typed, OnPath, Here
  <1>9. \A r : IF r = Here THEN ~Compiled(r) /\ Compiled(r)' ELSE Compiled(r)' <=> Compiled(r)
    BY <1>1, <1>8 DEF Compiled
  <1>10. ChainBrings'
    BY <1>1 DEF ChainBrings
  <1>11. AsDeclared'
    <2>1. ASSUME NEW r \in Resources, ~Compiled(r)'
          PROVE  /\ Untouched(res'[r]) /\ DOMAIN res'[r].ops = DOMAIN doc[r].ops
                 /\ r \notin OnPath => res'[r].failed = {} /\ merged'[r] = <<>>
      <3>1. r # Here /\ ~Compiled(r)
        BY <1>9, <2>1
      <3>2. res'[r] = res[r] /\ merged'[r] = merged[r]
        BY <1>6, <1>7, <3>1
      <3> QED BY <3>1, <3>2 DEF MethodsInv, AsDeclared
    <2> QED BY <1>1, <1>8, <2>1 DEF AsDeclared
  <1>12. HasMethods'
    <2>1. ASSUME NEW r \in Resources, Compiled(r)' PROVE DOMAIN res'[r].ops = MethodsOf(r)'
      <3>1. CASE r = Here
        <4>1. DOMAIN res[Here].ops = DOMAIN doc[Here].ops
          BY <1>1, <1>9 DEF MethodsInv, AsDeclared
        <4>2. ToSet(merged'[Here]) = {}
          BY <1>7 DEF ToSet
        <4>3. MethodsOf(r)' = DOMAIN doc[r].ops
          BY <1>1, <3>1, <4>2 DEF MethodsOf
        <4> QED BY <1>6, <3>1, <4>1, <4>3
      <3>2. CASE r # Here
        <4>1. Compiled(r) /\ merged'[r] = merged[r]
          BY <1>7, <1>9, <2>1, <3>2
        <4> QED BY <1>1, <1>6, <4>1 DEF MethodsInv, HasMethods, MethodsOf
      <3> QED BY <3>1, <3>2
    <2> QED BY <2>1 DEF HasMethods
  <1> QED BY <1>10, <1>11, <1>12 DEF MethodsInv

LEMMA MethodsEndChain == ASSUME TypedInv, MethodsInv, EndChain PROVE MethodsInv'
  <1>1. /\ path # <<>> /\ Here \in Resources /\ phase = "type" /\ Here \in OnPath
        /\ phase' = IF chain = <<>> THEN "traits" ELSE "merge"
        /\ path' = path /\ done' = done /\ doc' = doc /\ res' = res /\ merged' = merged
        /\ chain' = chain /\ chain \in Seq(SourceType) /\ merged \in [Resources -> Seq(Types)]
    BY InnermostTyped, PathEnds DEF EndChain, TypedInv, InPhase, Typed
  <1>2. OnPath' = OnPath /\ Here' = Here
    BY <1>1 DEF OnPath, Here
  <1>3. \A r : IF r = Here THEN ~Compiled(r) /\ (Compiled(r)' <=> chain = <<>>)
               ELSE Compiled(r)' <=> Compiled(r)
    BY <1>1, <1>2 DEF Compiled
  <1>4. Len(chain) = Len(TypesOf) /\ Brought(chain, TypesOf, doc, DOMAIN res[Here].ops)
    BY <1>1 DEF MethodsInv, ChainBrings
  <1>5. TypesOf \in Seq(Types) /\ Len(TypesOf) \in Nat
    BY <1>1, LenProperties DEF TypesOf
  <1>6. ChainBrings'
    <2>1. TypesOf' = TypesOf
      BY <1>1, <1>2 DEF TypesOf
    <2>2. Len(chain) <= Len(TypesOf)
      BY <1>4, <1>5
    <2> QED BY <1>1, <1>2, <1>4, <2>1, <2>2 DEF ChainBrings
  <1>7. AsDeclared'
    BY <1>1, <1>2, <1>3 DEF MethodsInv, AsDeclared
  <1>8. HasMethods'
    <2>1. ASSUME NEW r \in Resources, Compiled(r)' PROVE DOMAIN res[r].ops = MethodsOf(r)
      <3>1. CASE r = Here
        <4>1. merged[Here] = <<>>
          <5>1. chain = <<>>
            BY <1>3, <2>1, <3>1
          <5>2. Len(TypesOf) = 0
            BY <1>4, <5>1
          <5> QED BY <1>5, <5>2, EmptySeq DEF TypesOf
        <4>2. ToSet(merged[Here]) = {}
          BY <4>1 DEF ToSet
        <4>3. DOMAIN res[Here].ops = DOMAIN doc[Here].ops
          BY <1>1, <1>3 DEF MethodsInv, AsDeclared
        <4> QED BY <3>1, <4>2, <4>3 DEF MethodsOf
      <3>2. CASE r # Here
        BY <1>3, <2>1, <3>2 DEF MethodsInv, HasMethods
      <3> QED BY <3>1, <3>2
    <2> QED BY <1>1, <2>1 DEF HasMethods, MethodsOf
  <1> QED BY <1>6, <1>7, <1>8 DEF MethodsInv

LEMMA MethodsMerge == ASSUME TypedInv, MethodsInv, MergeType PROVE MethodsInv'
  <1>1. /\ path # <<>> /\ Here \in Resources /\ phase = "merge" /\ Here \in OnPath
        /\ path' = path /\ done' = done /\ doc' = doc /\ merged' = merged
        /\ res \in [Resources -> SourceType] /\ res[Here] \in SourceType
        /\ chain \in Seq(SourceType) /\ merged \in [Resources -> Seq(Types)]
    BY InnermostTyped, PathEnds DEF MergeType, TypedInv, InPhase, Typed
  <1>2. OnPath' = OnPath /\ Here' = Here /\ TypesOf' = TypesOf /\ TypesOf \in Seq(Types)
    BY <1>1 DEF OnPath, Here, TypesOf
  <1>3. /\ chain # <<>> /\ Len(chain) <= Len(TypesOf)
        /\ Brought(chain, TypesOf, doc, DOMAIN res[Here].ops)
    BY <1>1 DEF MethodsInv, ChainBrings
  <1>4. ~Compiled(Here) /\ \A r : r # Here => (Compiled(r)' <=> Compiled(r))
    BY <1>1, <1>2 DEF Compiled
  <1>5. Untouched(res[Here]) /\ DOMAIN res[Here].ops = DOMAIN doc[Here].ops
    BY <1>1, <1>4 DEF MethodsInv, AsDeclared
  <1> DEFINE n == Len(chain)
  <1>6. n \in Nat /\ n # 0 /\ Len(TypesOf) \in Nat
    BY <1>1, <1>2, <1>3, EmptySeq, LenProperties
  <1>7. CASE n = 1
    <2> DEFINE new == Merge(res[Here], chain[1])
    <2>1. res' = [res EXCEPT ![Here] = new] /\ phase' = "traits"
      BY <1>7 DEF MergeType
    <2>2. chain[1] \in SourceType
      <3>1. 1 \in 1..Len(chain)
        BY <1>7
      <3> QED BY <1>1, <3>1, ElementOfSeq
    <2>3. DOMAIN new.ops = DOMAIN res[Here].ops \cup DOMAIN chain[1].ops
      BY <1>1, <2>2, MergeTyped
    <2> HIDE DEF new
    <2>4. DOMAIN new.ops = DOMAIN doc[Here].ops \cup UNION {Required(doc, t) : t \in ToSet(TypesOf)}
      BY <1>1, <1>2, <1>3, <1>5, <1>7, <2>3, BroughtAll
    <2>5. DOMAIN new.ops = MethodsOf(Here)
      BY <2>4 DEF MethodsOf, TypesOf
    <2>6. res'[Here] = new /\ \A q \in Resources \ {Here} : res'[q] = res[q]
      BY <1>1, <2>1
    <2>7. Compiled(Here)'
      BY <1>1, <1>2, <2>1 DEF Compiled
    <2>8. ChainBrings'
      BY <2>1 DEF ChainBrings
    <2>9. AsDeclared'
      BY <1>1, <1>2, <1>4, <2>6, <2>7 DEF MethodsInv, AsDeclared
    <2>10. HasMethods'
      <3>1. ASSUME NEW r \in Resources, Compiled(r)' PROVE DOMAIN res'[r].ops = MethodsOf(r)
        BY <1>4, <2>5, <2>6, <3>1 DEF MethodsInv, HasMethods
      <3> QED BY <1>1, <3>1 DEF HasMethods, MethodsOf
    <2> QED BY <2>8, <2>9, <2>10 DEF MethodsInv
  <1>8. CASE n # 1
    <2> DEFINE e == Merge(chain[n - 1], chain[n])
    <2>1. chain' = PairAs(chain, e) /\ res' = res /\ phase' = phase
      <3> DEFINE shorter == SubSeq(chain, 1, n - 1)
      <3>1. /\ chain' = [shorter EXCEPT ![n - 1] = Merge(shorter[n - 1], chain[n])]
            /\ res' = res /\ phase' = phase
        BY <1>8 DEF MergeType
      <3>2. n - 1 \in 1..(n - 1)
        <4>1. \A k \in Nat : k # 0 /\ k # 1 => k - 1 \in 1..(k - 1)
          OBVIOUS
        <4> QED BY <1>6, <1>8, <4>1
      <3>3. shorter[n - 1] = chain[n - 1]
        BY <1>1, <1>3, <3>2, LastReplaced DEF Front
      <3> QED BY <3>1, <3>3 DEF PairAs
    <2> DEFINE d == PairAs(chain, e)
    <2>2. Brought(d, TypesOf, doc, DOMAIN res[Here].ops)
      BY <1>1, <1>2, <1>3, <1>6, <1>8, BroughtMerged
    <2>3. d \in Seq(SourceType) /\ Len(d) = n - 1 /\ d # <<>>
      <3>1. \A k \in Nat : k # 0 /\ k # 1 => k - 1 \in 1..k /\ k \in 1..k
        OBVIOUS
      <3>2. n # 0 /\ n # 1 /\ chain[n - 1] \in SourceType /\ chain[n] \in SourceType
        BY <1>1, <1>6, <1>8, <3>1, ElementOfSeq
      <3>3. e \in SourceType
        BY <3>2, MergeTyped
      <3> HIDE DEF e
      <3> QED BY <1>1, <3>2, <3>3, PairReplaced
    <2>4. chain' = d
      BY <2>1
    <2> HIDE DEF d, e
    <2>5. \A r : Compiled(r)' <=> Compiled(r)
      BY <1>1, <1>2, <2>1 DEF Compiled
    <2>6. ChainBrings'
      <3>1. Len(d) <= Len(TypesOf)
        BY <1>3, <1>6, <2>3
      <3> QED BY <1>1, <1>2, <2>1, <2>2, <2>3, <2>4, <3>1 DEF ChainBrings
    <2>7. AsDeclared'
      BY <1>1, <1>2, <2>1, <2>5 DEF MethodsInv, AsDeclared
    <2>8. HasMethods'
      BY <1>1, <2>1, <2>5 DEF MethodsInv, HasMethods, MethodsOf
    <2> QED BY <2>6, <2>7, <2>8 DEF MethodsInv
  <1> QED BY <1>7, <1>8

LEMMA MethodsTraits == ASSUME TypedInv, MethodsInv, TraitStep PROVE MethodsInv'
  <1>1. /\ path # <<>> /\ Here \in Resources /\ Here' = Here
        /\ phase = "traits" /\ phase' \in {"traits", "children"}
        /\ path' = path /\ done' = done /\ doc' = doc /\ merged' = merged
        /\ \A q \in Resources \ {Here} : res'[q] = res[q]
        /\ \A q \in Resources : DOMAIN res'[q].ops = DOMAIN res[q].ops
    BY TraitStepStays
  <1>2. \A r : Compiled(r)' <=> Compiled(r)
    BY <1>1, CompiledBy
  <1>3. Compiled(Here) /\ OnPath' = OnPath
    BY <1>1, PathEnds DEF Compiled, TypedInv, Typed, OnPath
  <1>4. ChainBrings'
    BY <1>1 DEF ChainBrings
  <1>5. AsDeclared'
    BY <1>1, <1>2, <1>3 DEF MethodsInv, AsDeclared
  <1>6. HasMethods'
    BY <1>1, <1>2 DEF MethodsInv, HasMethods, MethodsOf
  <1> QED BY <1>4, <1>5, <1>6 DEF MethodsInv

LEMMA MethodsDown == ASSUME TypedInv, Branch, MethodsInv, Descend PROVE MethodsInv'
  <1>1. PICK c \in ToSet(Children[Here]) :
            /\ c \in Resources /\ c \notin OnPath \cup done /\ path' # <<>> /\ Here' = c
            /\ OnPath' = OnPath \cup {c} /\ Begin(path')
    BY StepDown
  <1>2. /\ path # <<>> /\ phase = "children" /\ phase' = "type" /\ chain' = <<>>
        /\ doc' = doc /\ res' = res /\ done' = done /\ merged' = merged
    BY <1>1 DEF Descend, Begin
  <1>3. \A r : IF r = c THEN ~Compiled(r) /\ ~Compiled(r)' ELSE Compiled(r)' <=> Compiled(r)
    BY <1>1, <1>2 DEF Compiled
  <1>4. merged[c] = <<>>
    BY <1>1, <1>3 DEF MethodsInv, AsDeclared
  <1>5. TypesOf' = <<>>
    BY <1>1, <1>2, <1>4 DEF TypesOf
  <1>6. ChainBrings'
    <2>1. DOMAIN chain' = {} /\ Len(chain') = Len(TypesOf')
      BY <1>2, <1>5
    <2> QED BY <1>2, <2>1 DEF ChainBrings, Brought
  <1>7. AsDeclared'
    BY <1>1, <1>2, <1>3 DEF MethodsInv, AsDeclared
  <1>8. HasMethods'
    BY <1>2, <1>3 DEF MethodsInv, HasMethods, MethodsOf
  <1> QED BY <1>6, <1>7, <1>8 DEF MethodsInv

LEMMA MethodsUp == ASSUME TypedInv, Branch, MethodsInv, Return PROVE MethodsInv'
  <1>1. /\ Here \in OnPath /\ done' = done \cup {Here} /\ OnPath' = OnPath \ {Here}
        /\ phase = "children" /\ phase' = phase
        /\ path' # <<>> => Holder(path) = {Here'} /\ Here' \in OnPath'
        /\ path' = <<>> => Holder(path) = {}
    BY StepUp
  <1>2. /\ path # <<>> /\ doc' = doc /\ merged' = merged
        /\ \A q \in Resources : res'[q].ops = res[q].ops
        /\ \A q \in Resources \ Holder(path) : res'[q].failed = res[q].failed
    BY FailuresHanded DEF Return
  <1>3. \A r : (Compiled(r) <=> r \in OnPath \cup done)
               /\ (Compiled(r)' <=> r \in OnPath \cup done)
    BY <1>1 DEF Compiled
  <1>4. ChainBrings'
    BY <1>1 DEF ChainBrings
  <1>5. AsDeclared'
    <2>1. ASSUME NEW r \in Resources, ~Compiled(r)'
          PROVE  /\ Untouched(res'[r]) /\ DOMAIN res'[r].ops = DOMAIN doc[r].ops
                 /\ res'[r].failed = {} /\ merged'[r] = <<>>
      <3>1. ~Compiled(r) /\ r \notin OnPath /\ r \notin Holder(path)
        BY <1>1, <1>3, <2>1
      <3>2. Untouched(res[r]) /\ DOMAIN res[r].ops = DOMAIN doc[r].ops
            /\ res[r].failed = {} /\ merged[r] = <<>>
        BY <3>1 DEF MethodsInv, AsDeclared
      <3> QED BY <1>2, <3>1, <3>2 DEF Untouched
    <2> QED BY <1>2, <2>1 DEF AsDeclared
  <1>6. HasMethods'
    BY <1>2, <1>3 DEF MethodsInv, HasMethods, MethodsOf
  <1> QED BY <1>4, <1>5, <1>6 DEF MethodsInv

LEMMA MethodsStill == ASSUME MethodsInv, UNCHANGED vars PROVE MethodsInv'
  <1>1. /\ path' = path /\ done' = done /\ phase' = phase /\ doc' = doc /\ res' = res
        /\ chain' = chain /\ merged' = merged
    BY DEF vars
  <1>2. OnPath' = OnPath /\ Here' = Here /\ TypesOf' = TypesOf
    BY <1>1 DEF OnPath, Here, TypesOf
  <1>3. \A r : Compiled(r)' <=> Compiled(r)
    BY <1>1, <1>2 DEF Compiled
  <1>4. ChainBrings'
    BY <1>1, <1>2 DEF MethodsInv, ChainBrings
  <1>5. AsDeclared'
    BY <1>1, <1>2, <1>3 DEF MethodsInv, AsDeclared
  <1>6. HasMethods'
    BY <1>1, <1>3 DEF MethodsInv, HasMethods, MethodsOf
  <1> QED BY <1>4, <1>5, <1>6 DEF MethodsInv

(* While a chain is compiled and merged, its last type has all that the    *)
(* types after it require, and of optional methods those of what applies   *)
(* it.                                                                     *)
THEOREM MethodsInductive == Spec => []MethodsInv
  <1>1. TypedInv /\ Branch /\ MethodsInv /\ [Next]_vars => MethodsInv'
    BY MethodsCompile, MethodsFail, MethodsEndChain, MethodsMerge, MethodsTraits, MethodsDown,
       MethodsUp, MethodsStill DEF Next, End, TraitStep
  <1> QED BY <1>1, MethodsInitially, TypedInductive, BranchInductive, PTL DEF Spec

(* Every resource dealt with has the methods it declares and those its     *)
(* types require, and no others, however long the chain of resource types  *)
(* and wherever it failed (apply_resource_type).                           *)
THEOREM SpecMethodsByChain == Spec => []MethodsByChain
  <1>1. TypedInv /\ Branch /\ MethodsInv => MethodsByChain
    <2> SUFFICES ASSUME TypedInv, Branch, MethodsInv, NEW r \in Resources, r \in done
                 PROVE  DOMAIN res[r].ops = DOMAIN doc[r].ops \cup
                            UNION {DOMAIN doc[t].ops \ doc[t].optional : t \in ToSet(merged[r])}
      BY DEF MethodsByChain, Settled
    <2>1. path # <<>> => r # Here
      <3>1. path # <<>> => Here \in OnPath
        BY PathEnds DEF TypedInv, Typed
      <3> QED BY <3>1 DEF Branch
    <2>2. Compiled(r)
      BY <2>1 DEF Compiled
    <2> QED BY <2>2 DEF MethodsInv, HasMethods, MethodsOf, Required
  <1> QED BY <1>1, TypedInductive, BranchInductive, MethodsInductive, PTL
-----------------------------------------------------------------------------
(* What becomes of a reference.                                            *)

Resolved(r, ref, failures) ==
    IF Found(ref) # None THEN <<r, ref>> \in bound ELSE Failure(r, ref) \in failures

ApplyingHere ==
    phase = "traits" =>
        /\ \A e \in errors : e.on = Here
        /\ \A m \in DOMAIN res[Here].ops :
            /\ res[Here].ops[m].failed \subseteq errors
            /\ \A ref \in res[Here].ops[m].taken : Resolved(Here, ref, errors)

SettledRefs ==
    \A r \in Resources : Past(r) =>
        /\ \A ref \in ResourceRefs(r) : Resolved(r, ref, reported)
        /\ \A m \in DOMAIN res[r].ops :
            /\ res[r].ops[m].failed \subseteq res[r].failed
            /\ \A ref \in MethodRefs(r, m) : Resolved(r, ref, reported)

RefsInv == ApplyingHere /\ SettledRefs

(* The steps of the types stay with the innermost resource, and leave      *)
(* nothing applied in it; one that fails is known there.                   *)
TypeStep == CompileType \/ FailType \/ EndChain \/ MergeType

LEMMA TypeStepStays ==
    ASSUME TypedInv, MethodsInv, TypeStep
    PROVE  /\ path # <<>> /\ Here \in Resources /\ Here' = Here
           /\ phase \in {"type", "merge"} /\ phase' \in {"type", "merge", "traits"}
           /\ path' = path /\ done' = done /\ errors = {} /\ errors' = {}
           /\ bound \subseteq bound' /\ Untouched(res[Here]) /\ Untouched(res'[Here])
           /\ \A q \in Resources \ {Here} : res'[q] = res[q]
           /\ \E F :
                /\ \A e \in F : e.on = Here /\ e.ref.at = None
                /\ reported' = reported \cup F /\ res'[Here].failed = res[Here].failed \cup F
  <1>1. /\ path # <<>> /\ Here \in Resources /\ phase \in {"type", "merge"} /\ errors = {}
        /\ phase' \in {"type", "merge", "traits"} /\ path' = path /\ done' = done
        /\ errors' = errors /\ bound \subseteq bound'
    <2>1. phase \in {"type", "merge"}
      BY DEF TypeStep, CompileType, FailType, EndChain, MergeType, Chained
    <2>2. path # <<>> /\ Here \in Resources /\ errors = {}
      BY <2>1, InnermostTyped DEF TypedInv, InPhase
    <2>3. path' = path /\ done' = done /\ errors' = errors /\ bound \subseteq bound'
      BY DEF TypeStep, CompileType, FailType, EndChain, MergeType
    <2>4. phase' \in {"type", "merge", "traits"}
      BY <2>1 DEF TypeStep, CompileType, FailType, EndChain, MergeType
    <2> QED BY <2>1, <2>2, <2>3, <2>4
  <1>2. Here' = Here
    BY <1>1 DEF Here
  <1>3. res \in [Resources -> SourceType] /\ res[Here] \in SourceType /\ chain \in Seq(SourceType)
    BY <1>1 DEF TypedInv, Typed
  <1>4. Untouched(res[Here])
    <2>1. ~Compiled(Here)
      BY <1>1 DEF Compiled
    <2> QED BY <1>1, <2>1 DEF MethodsInv, AsDeclared
  <1>5. CASE CompileType \/ EndChain
    <2>1. res' = res /\ reported' = reported
      BY <1>5 DEF CompileType, EndChain
    <2>2. /\ \A e \in {} : e.on = Here /\ e.ref.at = None
          /\ reported' = reported \cup {} /\ res'[Here].failed = res[Here].failed \cup {}
      BY <2>1
    <2> QED BY <1>1, <1>2, <1>4, <2>1, <2>2
  <1>6. CASE FailType
    <2> DEFINE failure == Failure(Here, Target.type[1])
               source == [res[Here] EXCEPT !.failed = @ \cup {failure}]
    <2>1. res' = Note(Here, {failure}) /\ reported' = reported \cup {failure}
      BY <1>6 DEF FailType
    <2>2. failure.on = Here /\ failure.ref.at = None
      <3>1. Target.type[1] \in TypeRef
        BY <1>1, <1>6, TargetTyped DEF FailType, Chained
      <3> QED BY <3>1 DEF TypeRef, Failure
    <2> HIDE DEF failure
    <2>3. res' = [res EXCEPT ![Here] = source]
      BY <2>1 DEF Note
    <2>4. source.failed = res[Here].failed \cup {failure} /\ source.ops = res[Here].ops
      BY <1>3 DEF SourceType
    <2> HIDE DEF source
    <2>5. res'[Here] = source /\ \A q \in Resources \ {Here} : res'[q] = res[q]
      BY <1>1, <1>3, <2>3
    <2>6. Untouched(res'[Here])
      BY <1>4, <2>4, <2>5 DEF Untouched
    <2> QED BY <1>1, <1>2, <1>4, <2>1, <2>2, <2>4, <2>5, <2>6
  <1>7. CASE MergeType
    <2>1. reported' = reported
      BY <1>7 DEF MergeType
    <2>2. CASE Len(chain) = 1
      <3> DEFINE new == Merge(res[Here], chain[1])
      <3>1. res' = [res EXCEPT ![Here] = new]
        BY <1>7, <2>2 DEF MergeType
      <3>2. chain[1] \in SourceType
        <4>1. 1 \in 1..Len(chain)
          BY <2>2
        <4> QED BY <1>3, <4>1, ElementOfSeq
      <3>3. Untouched(chain[1])
        <4>1. 1 \in DOMAIN chain
          BY <1>3, <2>2, LenProperties
        <4> QED BY <1>1, <4>1 DEF MethodsInv, ChainBrings, Brought
      <3>4. new.failed = res[Here].failed /\ Untouched(new)
        BY <1>3, <1>4, <3>2, <3>3, MergeTyped
      <3> HIDE DEF new
      <3>5. res'[Here] = new /\ \A q \in Resources \ {Here} : res'[q] = res[q]
        BY <1>1, <1>3, <3>1
      <3>6. /\ \A e \in {} : e.on = Here /\ e.ref.at = None
            /\ reported' = reported \cup {} /\ res'[Here].failed = res[Here].failed \cup {}
        BY <2>1, <3>4, <3>5
      <3> QED BY <1>1, <1>2, <1>4, <3>4, <3>5, <3>6
    <2>3. CASE Len(chain) # 1
      <3>1. res' = res
        BY <1>7, <2>3 DEF MergeType
      <3>2. /\ \A e \in {} : e.on = Here /\ e.ref.at = None
            /\ reported' = reported \cup {} /\ res'[Here].failed = res[Here].failed \cup {}
        BY <2>1, <3>1
      <3> QED BY <1>1, <1>2, <1>4, <3>1, <3>2
    <2> QED BY <2>2, <2>3
  <1> QED BY <1>5, <1>6, <1>7 DEF TypeStep

(* What a step of a method's traits takes is bound, or is in its error and *)
(* noted on the method.                                                    *)
LEMMA TraitStepTakes ==
    ASSUME TypedInv, TraitStep, ~BindUnapplied
    PROVE  /\ bound \subseteq bound' /\ reported' = reported /\ phase' = phase
           /\ res'[Here].failed = res[Here].failed
           /\ \E F :
                /\ errors' = errors \cup F
                /\ \A e \in F : e.on = Here /\ e.ref.at \in {None, method}
                /\ F # {} => method \in DOMAIN res[Here].ops
                /\ \A m \in DOMAIN res[Here].ops :
                    /\ res'[Here].ops[m].failed =
                            res[Here].ops[m].failed \cup (IF m = method THEN F ELSE {})
                    /\ \A ref \in res'[Here].ops[m].taken \ res[Here].ops[m].taken :
                            IF Found(ref) # None THEN <<Here, ref>> \in bound'
                            ELSE Failure(Here, ref) \in errors'
  <1>1. /\ path # <<>> /\ Here \in Resources /\ res \in [Resources -> SourceType]
        /\ queue \in Seq(Reaching(method))
    BY TraitStepStays DEF TypedInv, Typed
  <1>2. CASE StartMethod \/ SkipTrait \/ EndMethod
    <2>1. res' = res /\ errors' = errors /\ bound' = bound /\ reported' = reported
          /\ phase' = phase
      BY <1>2 DEF StartMethod, SkipTrait, EndMethod
    <2>2. /\ errors' = errors \cup {} /\ \A e \in {} : e.on = Here /\ e.ref.at \in {None, method}
          /\ \A m \in DOMAIN res[Here].ops :
                    /\ res'[Here].ops[m].failed =
                            res[Here].ops[m].failed \cup (IF m = method THEN {} ELSE {})
                    /\ \A ref \in res'[Here].ops[m].taken \ res[Here].ops[m].taken :
                            IF Found(ref) # None THEN <<Here, ref>> \in bound'
                            ELSE Failure(Here, ref) \in errors'
      BY <2>1
    <2> QED BY <2>1, <2>2
  <1>3. method # None =>
            /\ method \in DOMAIN res[Here].ops /\ Op \in OperationType(method)
            /\ Op = res[Here].ops[method]
    BY <1>1, OpsTyped DEF TypedInv, InPhase, SourceType, Op
  <1>4. ASSUME NEW o \in OperationType(method), method \in DOMAIN res[Here].ops,
               res' = With(Here, method, o)
        PROVE  /\ res'[Here].failed = res[Here].failed
               /\ \A k \in DOMAIN res[Here].ops :
                    res'[Here].ops[k] = IF k = method THEN o ELSE res[Here].ops[k]
    BY <1>1, <1>4, OperationReplaced
  <1> DEFINE ref == Head(queue)  t == Found(ref)
  <1>5. Taking => ref \in Reaching(method) /\ ref.at \in {None, method}
    <2>1. Taking => ref \in Reaching(method)
      BY <1>1, TailSet DEF Taking
    <2> QED BY <2>1 DEF Reaching, TraitRef
  <1>6. CASE ApplyTrait
    <2>1. Taking /\ method # None /\ t # None /\ t \in Traits
      <3>1. Taking /\ method # None /\ t # None
        BY <1>6 DEF ApplyTrait, Taking
      <3> QED BY <1>5, <3>1 DEF Reaching, TraitRef
    <2> DEFINE content == Under(Op.content, [f \in doc[t].writes |-> t])
               o == [Op EXCEPT !.taken = Op.taken \cup {ref}, !.content = content]
    <2>2. content \in ContentType
      <3>1. IsPart(doc[t], t) /\ t \in Writers
        BY <2>1, CorpusAssumption DEF Writers, TypedInv, Typed
      <3>2. [f \in doc[t].writes |-> t] \in ContentType
        BY <3>1 DEF ContentType, IsPart
      <3> QED BY <1>3, <2>1, <3>2, UnderTyped DEF OperationType
    <2>3. /\ res' = With(Here, method, o) /\ bound' = bound \cup {<<Here, ref>>}
          /\ errors' = errors /\ reported' = reported /\ phase' = phase
      BY <1>6 DEF ApplyTrait, With
    <2> HIDE DEF content
    <2>4. o \in OperationType(method) /\ o.taken = Op.taken \cup {ref} /\ o.failed = Op.failed
      BY <1>3, <1>5, <2>1, <2>2 DEF OperationType
    <2> HIDE DEF o
    <2>5. /\ res'[Here].failed = res[Here].failed
          /\ \A k \in DOMAIN res[Here].ops :
                    res'[Here].ops[k] = IF k = method THEN o ELSE res[Here].ops[k]
      BY <1>3, <1>4, <2>1, <2>3, <2>4
    <2> HIDE DEF ref
    <2>6. /\ errors' = errors \cup {} /\ \A e \in {} : e.on = Here /\ e.ref.at \in {None, method}
          /\ \A m \in DOMAIN res[Here].ops :
                    /\ res'[Here].ops[m].failed =
                            res[Here].ops[m].failed \cup (IF m = method THEN {} ELSE {})
                    /\ \A x \in res'[Here].ops[m].taken \ res[Here].ops[m].taken :
                            IF Found(x) # None THEN <<Here, x>> \in bound'
                            ELSE Failure(Here, x) \in errors'
      BY <1>3, <2>1, <2>3, <2>4, <2>5
    <2> QED BY <2>3, <2>5, <2>6
  <1>7. CASE FailTrait
    <2> DEFINE failure == Failure(Here, ref)
               o == [Op EXCEPT !.taken = Op.taken \cup {ref}, !.failed = Op.failed \cup {failure}]
    <2>1. Taking /\ method # None /\ method \in DOMAIN res[Here].ops
      BY <1>3, <1>7 DEF FailTrait, Taking
    <2>2. failure \in FailureType /\ failure.on = Here /\ failure.ref.at \in {None, method}
      BY <1>1, <1>5, <2>1 DEF Failure, FailureType, Reaching, TraitRef
    <2>3. /\ res' = With(Here, method, o) /\ errors' = errors \cup {failure}
          /\ (t # None => bound' = bound \cup {<<Here, ref>>}) /\ bound \subseteq bound'
          /\ reported' = reported /\ phase' = phase
      BY <1>7 DEF FailTrait, With
    <2>4. failure = Failure(Here, ref)
      OBVIOUS
    <2> HIDE DEF failure
    <2>5. /\ o \in OperationType(method) /\ o.taken = Op.taken \cup {ref}
          /\ o.failed = Op.failed \cup {failure}
      BY <1>3, <1>5, <2>1, <2>2 DEF OperationType
    <2> HIDE DEF o
    <2>6. /\ res'[Here].failed = res[Here].failed
          /\ \A k \in DOMAIN res[Here].ops :
                    res'[Here].ops[k] = IF k = method THEN o ELSE res[Here].ops[k]
      BY <1>3, <1>4, <2>1, <2>3, <2>5
    <2> HIDE DEF ref
    <2>7. ASSUME NEW m \in DOMAIN res[Here].ops
          PROVE     /\ res'[Here].ops[m].failed =
                            res[Here].ops[m].failed \cup (IF m = method THEN {failure} ELSE {})
                    /\ \A x \in res'[Here].ops[m].taken \ res[Here].ops[m].taken :
                            IF Found(x) # None THEN <<Here, x>> \in bound'
                            ELSE Failure(Here, x) \in errors'
      <3>1. CASE m = method
        BY <1>3, <2>1, <2>3, <2>4, <2>5, <2>6, <3>1
      <3>2. CASE m # method
        BY <2>6, <3>2
      <3> QED BY <3>1, <3>2
    <2>8. \A e \in {failure} : e.on = Here /\ e.ref.at \in {None, method}
      BY <2>2
    <2> QED BY <2>1, <2>3, <2>6, <2>7, <2>8
  <1>8. CASE NextDistance
    <2> DEFINE o == [Op EXCEPT !.nested = Op.nested \cup ToSet(nested)]
    <2>1. method # None /\ ToSet(nested) \subseteq TraitRef(method)
      BY <1>8, ElementOfSeq, LenProperties DEF NextDistance, ToSet, TypedInv, Typed
    <2>2. /\ res' = With(Here, method, o) /\ errors' = errors /\ bound' = bound
          /\ reported' = reported /\ phase' = phase
      BY <1>8 DEF NextDistance, With
    <2>3. o \in OperationType(method) /\ o.taken = Op.taken /\ o.failed = Op.failed
      BY <1>3, <2>1 DEF OperationType
    <2> HIDE DEF o
    <2>4. /\ res'[Here].failed = res[Here].failed
          /\ \A k \in DOMAIN res[Here].ops :
                    res'[Here].ops[k] = IF k = method THEN o ELSE res[Here].ops[k]
      BY <1>3, <1>4, <2>1, <2>2, <2>3
    <2>5. /\ errors' = errors \cup {} /\ \A e \in {} : e.on = Here /\ e.ref.at \in {None, method}
          /\ \A m \in DOMAIN res[Here].ops :
                    /\ res'[Here].ops[m].failed =
                            res[Here].ops[m].failed \cup (IF m = method THEN {} ELSE {})
                    /\ \A x \in res'[Here].ops[m].taken \ res[Here].ops[m].taken :
                            IF Found(x) # None THEN <<Here, x>> \in bound'
                            ELSE Failure(Here, x) \in errors'
      BY <1>3, <2>1, <2>2, <2>3, <2>4
    <2> QED BY <2>2, <2>4, <2>5
  <1> QED BY <1>2, <1>6, <1>7, <1>8 DEF TraitStep

LEMMA RefsInitially == Init => RefsInv
  <1> SUFFICES ASSUME Init PROVE RefsInv
    OBVIOUS
  <1>1. path = <<Root>> /\ phase = "type" /\ done = {} /\ Root \in Resources
    BY TreeAssumption DEF Init
  <1>2. OnPath = {Root} /\ Here = Root /\ path # <<>>
    BY <1>1, SingleSet DEF OnPath, Here, Last
  <1>3. \A r : ~Past(r)
    BY <1>1, <1>2 DEF Past
  <1> QED BY <1>1, <1>3 DEF RefsInv, ApplyingHere, SettledRefs

(* What is settled stays so where nothing of the resource changes.         *)
LEMMA RefsKept ==
    ASSUME SettledRefs, NEW r \in Resources, Past(r),
           bound \subseteq bound', reported \subseteq reported',
           res'[r].is = res[r].is, res'[r].rtIs = res[r].rtIs, res'[r].ops = res[r].ops,
           res[r].failed \subseteq res'[r].failed
    PROVE  /\ \A ref \in ResourceRefs(r)' : Resolved(r, ref, reported)'
           /\ \A m \in DOMAIN res'[r].ops :
                /\ res'[r].ops[m].failed \subseteq res'[r].failed
                /\ \A ref \in MethodRefs(r, m)' : Resolved(r, ref, reported)'
  <1>1. \A ref : Resolved(r, ref, reported) => Resolved(r, ref, reported)'
    BY DEF Resolved
  <1>2. ResourceRefs(r)' = ResourceRefs(r) /\ \A m : MethodRefs(r, m)' = MethodRefs(r, m)
    BY DEF ResourceRefs, MethodRefs
  <1> QED BY <1>1, <1>2 DEF SettledRefs

LEMMA RefsTypes == ASSUME TypedInv, MethodsInv, RefsInv, TypeStep PROVE RefsInv'
  <1>1. /\ path # <<>> /\ Here \in Resources /\ Here' = Here
        /\ phase \in {"type", "merge"} /\ phase' \in {"type", "merge", "traits"}
        /\ path' = path /\ done' = done /\ errors' = {}
        /\ bound \subseteq bound' /\ Untouched(res'[Here])
        /\ \A q \in Resources \ {Here} : res'[q] = res[q]
        /\ reported \subseteq reported'
    BY TypeStepStays
  <1>2. \A r : (Past(r)' <=> Past(r)) /\ (Past(r) => r # Here)
    BY <1>1 DEF Past, OnPath
  <1>3. ApplyingHere'
    BY <1>1 DEF ApplyingHere, Untouched
  <1>4. SettledRefs'
    <2>1. ASSUME NEW r \in Resources, Past(r)'
          PROVE  /\ \A ref \in ResourceRefs(r)' : Resolved(r, ref, reported)'
                 /\ \A m \in DOMAIN res'[r].ops :
                    /\ res'[r].ops[m].failed \subseteq res'[r].failed
                    /\ \A ref \in MethodRefs(r, m)' : Resolved(r, ref, reported)'
      BY <1>1, <1>2, <2>1, RefsKept DEF RefsInv
    <2> QED BY <2>1 DEF SettledRefs
  <1> QED BY <1>3, <1>4 DEF RefsInv

LEMMA RefsTraits ==
    ASSUME TypedInv, RefsInv, TraitStep, ~BindUnapplied PROVE RefsInv'
  <1>1. /\ path # <<>> /\ Here \in Resources /\ Here' = Here /\ phase = "traits"
        /\ path' = path /\ done' = done
        /\ \A q \in Resources \ {Here} : res'[q] = res[q]
        /\ \A q \in Resources :
                /\ DOMAIN res'[q].ops = DOMAIN res[q].ops
                /\ res'[q].is = res[q].is /\ res'[q].rtIs = res[q].rtIs
    BY TraitStepStays
  <1>2. bound \subseteq bound' /\ reported' = reported /\ phase' = phase
    BY TraitStepTakes
  <1>3. PICK F :
                /\ errors' = errors \cup F
                /\ \A e \in F : e.on = Here /\ e.ref.at \in {None, method}
                /\ F # {} => method \in DOMAIN res[Here].ops
                /\ \A m \in DOMAIN res[Here].ops :
                    /\ res'[Here].ops[m].failed =
                            res[Here].ops[m].failed \cup (IF m = method THEN F ELSE {})
                    /\ \A ref \in res'[Here].ops[m].taken \ res[Here].ops[m].taken :
                            IF Found(ref) # None THEN <<Here, ref>> \in bound'
                            ELSE Failure(Here, ref) \in errors'
    BY TraitStepTakes
  <1>4. \A r : (Past(r)' <=> Past(r)) /\ (Past(r) => r # Here)
    BY <1>1, <1>2 DEF Past, OnPath
  <1>5. ApplyingHere'
    <2>1. \A e \in errors' : e.on = Here'
      BY <1>1, <1>3 DEF RefsInv, ApplyingHere
    <2>2. ASSUME NEW m \in DOMAIN res[Here].ops
          PROVE  /\ res'[Here].ops[m].failed \subseteq errors'
                 /\ \A ref \in res'[Here].ops[m].taken :
                        IF Found(ref) # None THEN <<Here, ref>> \in bound'
                        ELSE Failure(Here, ref) \in errors'
      <3>1. res[Here].ops[m].failed \subseteq errors
            /\ \A ref \in res[Here].ops[m].taken : Resolved(Here, ref, errors)
        BY <1>1 DEF RefsInv, ApplyingHere
      <3>2. \A ref \in res[Here].ops[m].taken :
                        IF Found(ref) # None THEN <<Here, ref>> \in bound'
                        ELSE Failure(Here, ref) \in errors'
        BY <1>2, <1>3, <3>1 DEF Resolved
      <3>3. res'[Here].ops[m].failed \subseteq errors'
        BY <1>3, <3>1
      <3> QED BY <1>3, <3>2, <3>3
    <2> QED BY <1>1, <2>1, <2>2 DEF ApplyingHere, Resolved
  <1>6. SettledRefs'
    <2>1. ASSUME NEW r \in Resources, Past(r)'
          PROVE  /\ \A ref \in ResourceRefs(r)' : Resolved(r, ref, reported)'
                 /\ \A m \in DOMAIN res'[r].ops :
                    /\ res'[r].ops[m].failed \subseteq res'[r].failed
                    /\ \A ref \in MethodRefs(r, m)' : Resolved(r, ref, reported)'
      BY <1>1, <1>2, <1>4, <2>1, RefsKept DEF RefsInv
    <2> QED BY <2>1 DEF SettledRefs
  <1> QED BY <1>5, <1>6 DEF RefsInv

(* Of what reaches the resource, an operation took it or nobody did.       *)
LEMMA RefsBind == ASSUME TypedInv, RefsInv, BindUnapplied PROVE RefsInv'
  <1> DEFINE M == DOMAIN res[Here].ops
  <1>1. /\ path # <<>> /\ Here \in Resources /\ Here' = Here /\ phase = "traits"
        /\ path' = path /\ done' = done
        /\ \A q \in Resources \ {Here} : res'[q] = res[q]
        /\ DOMAIN res'[Here].ops = M
        /\ res'[Here].is = res[Here].is /\ res'[Here].rtIs = res[Here].rtIs
    BY TraitStepStays DEF TraitStep
  <1>2. /\ phase' = "children" /\ reported' = reported \cup errors \cup Unknown(Unapplied)
        /\ bound' = bound \cup {<<Here, ref>> : ref \in {x \in Unapplied : Found(x) # None}}
    BY DEF BindUnapplied
  <1>3. /\ res'[Here].failed = res[Here].failed \cup errors \cup Unknown(Unapplied)
        /\ \A m \in M :
            /\ res'[Here].ops[m].is = res[Here].ops[m].is
            /\ res'[Here].ops[m].rtIs = res[Here].ops[m].rtIs
            /\ res'[Here].ops[m].nested = res[Here].ops[m].nested
            /\ res'[Here].ops[m].failed =
                    res[Here].ops[m].failed \cup Unknown(Unapplied \cap MethodRefs(Here, m))
    BY <1>1, UnappliedBound
  <1>4. ASSUME NEW ref \in ResourceRefs(Here) \cup UNION {MethodRefs(Here, m) : m \in M}
        PROVE  IF Found(ref) # None THEN <<Here, ref>> \in bound'
               ELSE Failure(Here, ref) \in reported'
    <2>1. CASE ref \in Unapplied
      BY <1>2, <2>1 DEF Unknown
    <2>2. CASE ref \notin Unapplied
      <3>1. PICK m \in M : ref \in res[Here].ops[m].taken
        BY <1>4, <2>2 DEF Unapplied
      <3>2. Resolved(Here, ref, errors)
        BY <1>1, <3>1 DEF RefsInv, ApplyingHere
      <3> QED BY <1>2, <3>2 DEF Resolved
    <2> QED BY <2>1, <2>2
  <1>5. ASSUME NEW m \in M PROVE res'[Here].ops[m].failed \subseteq res'[Here].failed
    <2>1. res[Here].ops[m].failed \subseteq errors
      BY <1>1 DEF RefsInv, ApplyingHere
    <2>2. Unknown(Unapplied \cap MethodRefs(Here, m)) \subseteq Unknown(Unapplied)
      BY DEF Unknown
    <2> QED BY <1>3, <2>1, <2>2
  <1>6. \A r : r # Here => (Past(r)' <=> Past(r))
    BY <1>1, <1>2 DEF Past, OnPath
  <1>7. ApplyingHere'
    BY <1>2 DEF ApplyingHere
  <1>8. SettledRefs'
    <2>1. ASSUME NEW r \in Resources, Past(r)'
          PROVE  /\ \A ref \in ResourceRefs(r)' : Resolved(r, ref, reported)'
                 /\ \A m \in DOMAIN res'[r].ops :
                    /\ res'[r].ops[m].failed \subseteq res'[r].failed
                    /\ \A ref \in MethodRefs(r, m)' : Resolved(r, ref, reported)'
      <3>1. CASE r = Here
        <4>1. /\ ResourceRefs(r)' = ResourceRefs(r)
              /\ \A m \in M : MethodRefs(r, m)' = MethodRefs(r, m)
          BY <1>1, <1>3, <3>1 DEF ResourceRefs, MethodRefs
        <4>2. \A ref \in ResourceRefs(r)' : Resolved(r, ref, reported)'
          BY <1>4, <3>1, <4>1 DEF Resolved
        <4>3. ASSUME NEW m \in M
              PROVE  \A ref \in MethodRefs(r, m)' : Resolved(r, ref, reported)'
          BY <1>4, <3>1, <4>1 DEF Resolved
        <4> QED BY <1>1, <1>5, <3>1, <4>2, <4>3
      <3>2. CASE r # Here
        BY <1>1, <1>2, <1>6, <2>1, <3>2, RefsKept DEF RefsInv
      <3> QED BY <3>1, <3>2
    <2> QED BY <2>1 DEF SettledRefs
  <1> QED BY <1>7, <1>8 DEF RefsInv

LEMMA RefsTree ==
    ASSUME TypedInv, Branch, RefsInv, Descend \/ Return PROVE RefsInv'
  <1>1. bound' = bound /\ reported' = reported
    BY DEF Descend, Return
  <1>2. phase' # "traits"
    BY StepUp, StepDown DEF Begin
  <1>3. ApplyingHere'
    BY <1>2 DEF ApplyingHere
  <1>4. ASSUME NEW r \in Resources, Past(r)'
        PROVE  /\ Past(r) /\ res'[r].is = res[r].is /\ res'[r].rtIs = res[r].rtIs
               /\ res'[r].ops = res[r].ops /\ res[r].failed \subseteq res'[r].failed
    <2>1. CASE Descend
      <3>1. PICK c \in ToSet(Children[Here]) :
                /\ c \in Resources /\ c \notin OnPath \cup done /\ path' # <<>> /\ Here' = c
                /\ OnPath' = OnPath \cup {c} /\ Begin(path')
        BY <2>1, StepDown
      <3>2. done' = done /\ res' = res /\ phase = "children" /\ phase' = "type"
        BY <2>1, <3>1 DEF Descend, Begin
      <3> QED BY <1>4, <3>1, <3>2 DEF Past
    <2>2. CASE Return
      <3>1. /\ Here \in OnPath /\ done' = done \cup {Here} /\ OnPath' = OnPath \ {Here}
            /\ phase = "children" /\ phase' = phase
        BY <2>2, StepUp
      <3>2. Past(r)
        BY <1>4, <3>1 DEF Past
      <3> QED BY <2>2, <3>2, FailuresHanded
    <2> QED BY <2>1, <2>2
  <1>5. SettledRefs'
    <2>1. ASSUME NEW r \in Resources, Past(r)'
          PROVE  /\ \A ref \in ResourceRefs(r)' : Resolved(r, ref, reported)'
                 /\ \A m \in DOMAIN res'[r].ops :
                    /\ res'[r].ops[m].failed \subseteq res'[r].failed
                    /\ \A ref \in MethodRefs(r, m)' : Resolved(r, ref, reported)'
      BY <1>1, <1>4, <2>1, RefsKept DEF RefsInv
    <2> QED BY <2>1 DEF SettledRefs
  <1> QED BY <1>3, <1>5 DEF RefsInv

LEMMA RefsStill == ASSUME RefsInv, UNCHANGED vars PROVE RefsInv'
  BY DEF vars, RefsInv, ApplyingHere, SettledRefs, Past, OnPath, Here, Resolved, ResourceRefs,
     MethodRefs

(* What an operation took is bound, or is in the error of the resource's   *)
(* traits; once they are done, so is all that reaches the resource.        *)
THEOREM RefsInductive == Spec => []RefsInv
  <1>1. TypedInv /\ Branch /\ MethodsInv /\ RefsInv /\ [Next]_vars => RefsInv'
    BY RefsTypes, RefsTraits, RefsBind, RefsTree, RefsStill DEF Next, End, TraitStep, TypeStep
  <1> QED BY <1>1, RefsInitially, TypedInductive, BranchInductive, MethodsInductive, PTL
          DEF Spec

LEMMA DoneIsPast ==
    ASSUME TypedInv, Branch, NEW r \in done
    PROVE  Past(r) /\ r \in Resources
  <1>1. path # <<>> => Here \in OnPath
    BY PathEnds DEF TypedInv, Typed
  <1>2. path # <<>> => r # Here
    BY <1>1 DEF Branch
  <1> QED BY <1>2 DEF Past, TypedInv, Typed

(* Every `is:` entry that reaches a resource dealt with is bound to the    *)
(* trait it names or reported, whether it was applied, skipped, a trait's  *)
(* own, or had no operation to apply to (_bind_unapplied).                 *)
THEOREM SpecBoundOrReported == Spec => []BoundOrReported
  <1>1. TypedInv /\ Branch /\ RefsInv => BoundOrReported
    <2> SUFFICES ASSUME TypedInv, Branch, RefsInv, NEW r \in Resources, r \in done,
                        NEW ref \in ToSet(res[r].is \o res[r].rtIs)
                                \cup UNION {MethodRefs(r, m) : m \in DOMAIN res[r].ops}
                 PROVE  IF Found(ref) # None THEN <<r, ref>> \in bound
                        ELSE Failure(r, ref) \in reported
      BY DEF BoundOrReported, Settled
    <2>1. Past(r)
      BY DoneIsPast
    <2>2. res[r].is \in Seq(TraitRef(None)) /\ res[r].rtIs \in Seq(TraitRef(None))
      BY DEF TypedInv, Typed, SourceType
    <2>3. ToSet(res[r].is \o res[r].rtIs) = ResourceRefs(r)
      BY <2>2, ConcatSet DEF ResourceRefs
    <2>4. Resolved(r, ref, reported)
      BY <2>1, <2>3 DEF RefsInv, SettledRefs
    <2> QED BY <2>4 DEF Resolved
  <1> QED BY <1>1, TypedInductive, BranchInductive, RefsInductive, PTL
-----------------------------------------------------------------------------
(* Where failures are known.                                               *)

KnownWhereHeld ==
    /\ \A r \in done : res[r].failed = {e \in reported : e.on \in Holds(r)}
    /\ \A r \in OnPath :
        res[r].failed = {e \in reported :
            e.on = r \/ \E c \in ToSet(Children[r]) \cap done : e.on \in Holds(c)}
    /\ \A e \in reported : e.on \in OnPath \cup done
KnownWhereWritten ==
    \A e \in reported \cup errors : e.ref.at # None =>
        e.ref.at \in DOMAIN res[e.on].ops /\ e \in res[e.on].ops[e.ref.at].failed

FailuresInv == KnownWhereHeld /\ KnownWhereWritten

LEMMA HoldsWithin ==
    ASSUME NEW S \in SUBSET Resources, \A x \in S : ToSet(Children[x]) \subseteq S, NEW r \in S
    PROVE  Holds(r) \subseteq S
  BY DEF Holds

LEMMA HoldsClosed ==
    ASSUME NEW r \in Resources, NEW x \in Holds(r)
    PROVE  ToSet(Children[x]) \subseteq Holds(r)
  <1>1. x \in Resources
    BY DEF Holds
  <1>2. ToSet(Children[x]) \subseteq Resources
    BY <1>1, ChildrenTyped
  <1> QED BY <1>2 DEF Holds

(* A resource holds itself and what its children hold.                     *)
LEMMA HoldsBelow ==
    ASSUME NEW r \in Resources
    PROVE  Holds(r) = {r} \cup UNION {Holds(c) : c \in ToSet(Children[r])}
  <1> DEFINE S == {r} \cup UNION {Holds(c) : c \in ToSet(Children[r])}
  <1>1. ToSet(Children[r]) \subseteq Resources
    BY ChildrenTyped
  <1>2. \A q \in Resources : q \in Holds(q)
    BY DEF Holds
  <1>3. S \subseteq Resources
    BY <1>1 DEF Holds
  <1>4. \A x \in S : ToSet(Children[x]) \subseteq S
    <2>1. ToSet(Children[r]) \subseteq S
      BY <1>1, <1>2
    <2>2. ASSUME NEW c \in ToSet(Children[r]), NEW x \in Holds(c)
          PROVE  ToSet(Children[x]) \subseteq S
      <3>1. ToSet(Children[x]) \subseteq Holds(c)
        BY <1>1, HoldsClosed
      <3> QED BY <3>1
    <2> QED BY <2>1, <2>2
  <1>5. Holds(r) \subseteq S
    <2>1. r \in S
      OBVIOUS
    <2> HIDE DEF S
    <2> QED BY <1>3, <1>4, <2>1, HoldsWithin
  <1>6. ASSUME NEW c \in ToSet(Children[r]) PROVE Holds(c) \subseteq Holds(r)
    <2>1. c \in Holds(r)
      BY <1>2, HoldsClosed
    <2>2. Holds(r) \subseteq Resources
      BY DEF Holds
    <2> QED BY <2>1, <2>2, HoldsClosed, HoldsWithin
  <1> QED BY <1>2, <1>5, <1>6

(* What a resource dealt with holds is dealt with.                         *)
LEMMA HoldsDone ==
    ASSUME TypedInv, Branch, NEW r \in done
    PROVE  Holds(r) \subseteq done
  <1>1. done \subseteq Resources /\ \A x \in done : ToSet(Children[x]) \subseteq done
    BY DEF TypedInv, Typed, Branch
  <1> QED BY <1>1, HoldsWithin

(* Failures of the innermost resource, noted there, are not below it.      *)
LEMMA HeldHere ==
    ASSUME TypedInv, Branch, KnownWhereHeld, path # <<>>, path' = path, done' = done,
           NEW F, \A e \in F : e.on = Here, reported' = reported \cup F,
           res'[Here].failed = res[Here].failed \cup F,
           \A q \in Resources \ {Here} : res'[q].failed = res[q].failed
    PROVE  KnownWhereHeld'
  <1>1. /\ OnPath' = OnPath /\ Here' = Here /\ Here \in OnPath /\ OnPath \subseteq Resources
        /\ Here \notin done /\ done \subseteq Resources
    BY PathEnds DEF OnPath, Here, TypedInv, Typed, Branch
  <1>2. \A r \in done : Here \notin Holds(r)
    BY <1>1, HoldsDone
  <1>3. ASSUME NEW r \in done
        PROVE  res'[r].failed = {e \in reported' : e.on \in Holds(r)}
    <2>1. res[r].failed = {e \in reported : e.on \in Holds(r)}
      BY DEF KnownWhereHeld
    <2>2. r # Here /\ r \in Resources
      BY <1>1
    <2> QED BY <1>2, <2>1, <2>2
  <1>4. ASSUME NEW r \in OnPath
        PROVE  res'[r].failed = {e \in reported' :
                    e.on = r \/ \E c \in ToSet(Children[r]) \cap done : e.on \in Holds(c)}
    <2>1. res[r].failed = {e \in reported :
                    e.on = r \/ \E c \in ToSet(Children[r]) \cap done : e.on \in Holds(c)}
      BY DEF KnownWhereHeld
    <2>2. CASE r = Here
      BY <2>1, <2>2
    <2>3. CASE r # Here
      BY <1>1, <1>2, <2>1, <2>3
    <2> QED BY <2>2, <2>3
  <1>5. \A e \in reported' : e.on \in OnPath \cup done
    BY <1>1 DEF KnownWhereHeld
  <1> QED BY <1>1, <1>3, <1>4, <1>5 DEF KnownWhereHeld

LEMMA FailuresInitially == Init => FailuresInv
  <1> SUFFICES ASSUME Init PROVE FailuresInv
    OBVIOUS
  <1>1. /\ doc \in Corpus /\ path = <<Root>> /\ done = {} /\ reported = {} /\ errors = {}
        /\ res = [r \in Resources |-> Source(r, DOMAIN doc[r].ops)] /\ Root \in Resources
    BY TreeAssumption DEF Init
  <1>2. OnPath = {Root}
    BY <1>1, SingleSet DEF OnPath
  <1>3. res[Root].failed = {}
    BY <1>1, SourceTyped
  <1> QED BY <1>1, <1>2, <1>3 DEF FailuresInv, KnownWhereHeld, KnownWhereWritten

LEMMA FailuresTypes ==
    ASSUME TypedInv, Branch, MethodsInv, FailuresInv, TypeStep PROVE FailuresInv'
  <1>1. /\ path # <<>> /\ Here \in Resources /\ Here' = Here
        /\ path' = path /\ done' = done /\ errors = {} /\ errors' = {}
        /\ Untouched(res[Here])
        /\ \A q \in Resources \ {Here} : res'[q] = res[q]
    BY TypeStepStays
  <1>2. PICK F :
                /\ \A e \in F : e.on = Here /\ e.ref.at = None
                /\ reported' = reported \cup F /\ res'[Here].failed = res[Here].failed \cup F
    BY TypeStepStays
  <1>3. KnownWhereHeld'
    BY <1>1, <1>2, HeldHere DEF FailuresInv
  <1>4. ASSUME NEW e \in reported', e.ref.at # None
        PROVE  e.ref.at \in DOMAIN res'[e.on].ops /\ e \in res'[e.on].ops[e.ref.at].failed
    <2>1. e \in reported
      BY <1>2, <1>4
    <2>2. e.ref.at \in DOMAIN res[e.on].ops /\ e \in res[e.on].ops[e.ref.at].failed
      BY <1>4, <2>1 DEF FailuresInv, KnownWhereWritten
    <2>3. e.on # Here
      BY <1>1, <2>2 DEF Untouched
    <2>4. e.on \in Resources
      BY <2>1 DEF TypedInv, Typed, FailureType
    <2> QED BY <1>1, <2>2, <2>3, <2>4
  <1>5. KnownWhereWritten'
    BY <1>1, <1>4 DEF KnownWhereWritten
  <1> QED BY <1>3, <1>5 DEF FailuresInv

LEMMA FailuresTraits ==
    ASSUME TypedInv, Branch, RefsInv, FailuresInv, TraitStep, ~BindUnapplied
    PROVE  FailuresInv'
  <1>1. /\ path # <<>> /\ Here \in Resources /\ Here' = Here /\ phase = "traits"
        /\ path' = path /\ done' = done
        /\ \A q \in Resources \ {Here} : res'[q] = res[q]
        /\ \A q \in Resources : DOMAIN res'[q].ops = DOMAIN res[q].ops
    BY TraitStepStays
  <1>2. reported' = reported /\ res'[Here].failed = res[Here].failed
    BY TraitStepTakes
  <1>3. PICK F :
                /\ errors' = errors \cup F
                /\ \A e \in F : e.on = Here /\ e.ref.at \in {None, method}
                /\ F # {} => method \in DOMAIN res[Here].ops
                /\ \A m \in DOMAIN res[Here].ops :
                    res'[Here].ops[m].failed =
                            res[Here].ops[m].failed \cup (IF m = method THEN F ELSE {})
    BY TraitStepTakes
  <1>4. KnownWhereHeld'
    <2>1. /\ \A e \in {} : e.on = Here
          /\ reported' = reported \cup {} /\ res'[Here].failed = res[Here].failed \cup {}
          /\ \A q \in Resources \ {Here} : res'[q].failed = res[q].failed
      BY <1>1, <1>2
    <2> QED BY <1>1, <2>1, HeldHere DEF FailuresInv
  <1>5. ASSUME NEW e \in reported \cup errors, e.ref.at # None
        PROVE  e.ref.at \in DOMAIN res'[e.on].ops /\ e \in res'[e.on].ops[e.ref.at].failed
    <2>1. e.ref.at \in DOMAIN res[e.on].ops /\ e \in res[e.on].ops[e.ref.at].failed
      BY <1>5 DEF FailuresInv, KnownWhereWritten
    <2>2. e.on \in Resources
      BY <1>5 DEF TypedInv, Typed, FailureType
    <2>3. CASE e.on = Here
      BY <1>1, <1>3, <2>1, <2>3
    <2>4. CASE e.on # Here
      BY <1>1, <2>1, <2>2, <2>4
    <2> QED BY <2>3, <2>4
  <1>6. ASSUME NEW e \in F, e.ref.at # None
        PROVE  e.ref.at \in DOMAIN res'[e.on].ops /\ e \in res'[e.on].ops[e.ref.at].failed
    BY <1>1, <1>3, <1>6
  <1>7. KnownWhereWritten'
    BY <1>2, <1>3, <1>5, <1>6 DEF KnownWhereWritten
  <1> QED BY <1>4, <1>7 DEF FailuresInv

LEMMA FailuresBind ==
    ASSUME TypedInv, Branch, RefsInv, FailuresInv, BindUnapplied
    PROVE  FailuresInv'
  <1>1. /\ path # <<>> /\ Here \in Resources /\ Here' = Here /\ phase = "traits"
        /\ path' = path /\ done' = done /\ res[Here] \in SourceType
        /\ \A q \in Resources \ {Here} : res'[q] = res[q]
        /\ \A q \in Resources : DOMAIN res'[q].ops = DOMAIN res[q].ops
    BY TraitStepStays, InnermostTyped DEF TraitStep
  <1> DEFINE F == errors \cup Unknown(Unapplied)
  <1>2. reported' = reported \cup F /\ errors' = {}
    BY DEF BindUnapplied
  <1>3. /\ res'[Here].failed = res[Here].failed \cup F
        /\ \A m \in DOMAIN res[Here].ops :
            res'[Here].ops[m].failed =
                    res[Here].ops[m].failed \cup Unknown(Unapplied \cap MethodRefs(Here, m))
    BY <1>1, UnappliedBound
  <1>4. \A e \in F : e.on = Here
    BY <1>1 DEF RefsInv, ApplyingHere, Unknown, Failure
  <1> HIDE DEF F
  <1>5. KnownWhereHeld'
    BY <1>1, <1>2, <1>3, <1>4, HeldHere DEF FailuresInv
  <1> USE DEF F
  <1>6. ASSUME NEW e \in reported \cup errors, e.ref.at # None
        PROVE  e.ref.at \in DOMAIN res'[e.on].ops /\ e \in res'[e.on].ops[e.ref.at].failed
    <2>1. e.ref.at \in DOMAIN res[e.on].ops /\ e \in res[e.on].ops[e.ref.at].failed
      BY <1>6 DEF FailuresInv, KnownWhereWritten
    <2>2. e.on \in Resources
      BY <1>6 DEF TypedInv, Typed, FailureType
    <2>3. CASE e.on = Here
      BY <1>1, <1>3, <2>1, <2>3
    <2>4. CASE e.on # Here
      BY <1>1, <2>1, <2>2, <2>4
    <2> QED BY <2>3, <2>4
  <1>7. ASSUME NEW e \in Unknown(Unapplied), e.ref.at # None
        PROVE  e.ref.at \in DOMAIN res'[e.on].ops /\ e \in res'[e.on].ops[e.ref.at].failed
    <2>1. PICK ref \in Unapplied : e = Failure(Here, ref) /\ Found(ref) = None
      BY DEF Unknown
    <2>2. e.on = Here /\ e.ref = ref
      BY <2>1 DEF Failure
    <2>3. ref \notin ResourceRefs(Here)
      <3>1. res[Here].is \in Seq(TraitRef(None)) /\ res[Here].rtIs \in Seq(TraitRef(None))
        BY <1>1 DEF SourceType
      <3>2. ResourceRefs(Here) \subseteq TraitRef(None)
        BY <3>1, ElementOfSeq, LenProperties DEF ResourceRefs, ToSet
      <3> QED BY <1>7, <2>2, <3>2 DEF TraitRef
    <2>4. PICK m \in DOMAIN res[Here].ops : ref \in MethodRefs(Here, m)
      BY <2>1, <2>3 DEF Unapplied
    <2>5. ref.at = m
      <3>1. res[Here].ops[m] \in OperationType(m)
        BY <1>1, OpsTyped DEF SourceType
      <3>2. MethodRefs(Here, m) \subseteq TraitRef(m)
        BY <3>1, ElementOfSeq, LenProperties DEF MethodRefs, ToSet, OperationType
      <3> QED BY <2>4, <3>2 DEF TraitRef
    <2>6. e \in Unknown(Unapplied \cap MethodRefs(Here, m))
      BY <2>1, <2>4 DEF Unknown
    <2> QED BY <1>1, <1>3, <2>2, <2>4, <2>5, <2>6
  <1>8. KnownWhereWritten'
    BY <1>2, <1>6, <1>7 DEF KnownWhereWritten
  <1> QED BY <1>5, <1>8 DEF FailuresInv

(* A resource nobody has come to has no failures, nor has any below it.    *)
LEMMA FailuresDown ==
    ASSUME TypedInv, Branch, MethodsInv, FailuresInv, Descend PROVE FailuresInv'
  <1>1. PICK c \in ToSet(Children[Here]) :
            /\ c \in Resources /\ c \notin OnPath \cup done /\ path' # <<>> /\ Here' = c
            /\ OnPath' = OnPath \cup {c} /\ Begin(path')
    BY StepDown
  <1>2. /\ res' = res /\ done' = done /\ reported' = reported /\ errors' = {}
    BY <1>1 DEF Descend, Begin
  <1>3. res[c].failed = {} /\ ToSet(Children[c]) \cap done = {}
    <2>1. ~Compiled(c)
      BY <1>1 DEF Compiled
    <2> QED BY <1>1, <2>1 DEF MethodsInv, AsDeclared, Branch
  <1>4. \A e \in reported : e.on # c
    BY <1>1 DEF FailuresInv, KnownWhereHeld
  <1>5. KnownWhereHeld'
    BY <1>1, <1>2, <1>3, <1>4 DEF FailuresInv, KnownWhereHeld
  <1>6. KnownWhereWritten'
    BY <1>2 DEF FailuresInv, KnownWhereWritten
  <1> QED BY <1>5, <1>6 DEF FailuresInv

(* What is handed up is all that was held below.                           *)
LEMMA FailuresUp ==
    ASSUME TypedInv, Branch, FailuresInv, Return PROVE FailuresInv'
  <1>1. /\ Here \in OnPath /\ Here \in Resources /\ Here \notin done
        /\ ToSet(Children[Here]) \subseteq done /\ done' = done \cup {Here}
        /\ OnPath' = OnPath \ {Here} /\ phase = "children"
        /\ path' # <<>> =>
                /\ Holder(path) = {Here'} /\ Here' \in OnPath' /\ Here' \in Resources
                /\ Here \in ToSet(Children[Here'])
        /\ path' = <<>> => Holder(path) = {} /\ Here = Root
    BY StepUp
  <1>2. /\ reported' = reported /\ errors' = errors /\ errors = {}
        /\ done \subseteq Resources /\ OnPath \subseteq Resources
    BY <1>1, PathEnds DEF Return, TypedInv, Typed, InPhase
  <1>3. \A q \in Resources :
            /\ res'[q].failed = IF q \in Holder(path)
                    THEN res[q].failed \cup res[Here].failed ELSE res[q].failed
            /\ res'[q].ops = res[q].ops
    BY FailuresHanded
  <1>4. \A q \in Holder(path) : q \in OnPath'
    BY <1>1
  <1>5. res[Here].failed = {e \in reported : e.on \in Holds(Here)}
    <2>1. res[Here].failed = {e \in reported :
                e.on = Here \/ \E c \in ToSet(Children[Here]) \cap done : e.on \in Holds(c)}
      BY <1>1 DEF FailuresInv, KnownWhereHeld
    <2>2. Holds(Here) = {Here} \cup UNION {Holds(c) : c \in ToSet(Children[Here])}
      BY <1>1, HoldsBelow
    <2> QED BY <1>1, <2>1, <2>2
  <1>6. ASSUME NEW r \in done'
        PROVE  res'[r].failed = {e \in reported : e.on \in Holds(r)}
    <2>1. r \notin Holder(path) /\ r \in Resources
      BY <1>1, <1>2, <1>4 DEF Branch
    <2>2. res'[r].failed = res[r].failed
      BY <1>3, <2>1
    <2>3. CASE r = Here
      BY <1>5, <2>2, <2>3
    <2>4. CASE r # Here
      BY <1>1, <2>2, <2>4 DEF FailuresInv, KnownWhereHeld
    <2> QED BY <2>3, <2>4
  <1>7. ASSUME NEW r \in OnPath'
        PROVE  res'[r].failed = {e \in reported :
                    e.on = r \/ \E c \in ToSet(Children[r]) \cap done' : e.on \in Holds(c)}
    <2>1. r \in OnPath /\ r \in Resources
      BY <1>1, <1>2
    <2>2. res[r].failed = {e \in reported :
                    e.on = r \/ \E c \in ToSet(Children[r]) \cap done : e.on \in Holds(c)}
      BY <2>1 DEF FailuresInv, KnownWhereHeld
    <2>3. CASE r \in Holder(path)
      <3>1. Here \in ToSet(Children[r])
        BY <1>1, <2>3
      <3>2. res'[r].failed = res[r].failed \cup res[Here].failed
        BY <1>3, <2>1, <2>3
      <3> QED BY <1>1, <1>5, <2>2, <3>1, <3>2
    <2>4. CASE r \notin Holder(path)
      <3>1. Here \notin ToSet(Children[r])
        <4>1. CASE path' = <<>>
          BY <1>1, <2>1, <4>1, TreeAssumption
        <4>2. CASE path' # <<>>
          <5>1. r # Here' /\ Here' \in Resources /\ Here \in ToSet(Children[Here'])
            BY <1>1, <2>4, <4>2
          <5>2. ToSet(Children[r]) \cap ToSet(Children[Here']) = {}
            BY <2>1, <5>1, TreeAssumption
          <5> QED BY <5>1, <5>2
        <4> QED BY <4>1, <4>2
      <3>2. res'[r].failed = res[r].failed
        BY <1>3, <2>1, <2>4
      <3> QED BY <1>1, <2>2, <3>1, <3>2
    <2> QED BY <2>3, <2>4
  <1>8. KnownWhereHeld'
    <2>1. \A e \in reported : e.on \in OnPath' \cup done'
      BY <1>1 DEF FailuresInv, KnownWhereHeld
    <2> QED BY <1>2, <1>6, <1>7, <2>1 DEF KnownWhereHeld
  <1>9. KnownWhereWritten'
    <2>1. \A e \in reported \cup errors : e.on \in Resources
      BY DEF TypedInv, Typed, FailureType
    <2> QED BY <1>2, <1>3, <2>1 DEF FailuresInv, KnownWhereWritten
  <1> QED BY <1>8, <1>9 DEF FailuresInv

LEMMA FailuresStill == ASSUME FailuresInv, UNCHANGED vars PROVE FailuresInv'
  BY DEF vars, FailuresInv, KnownWhereHeld, KnownWhereWritten, OnPath

(* A resource dealt with knows the failures of what it holds, one being    *)
(* dealt with its own and those of the children it has had back.           *)
THEOREM FailuresInductive == Spec => []FailuresInv
  <1>1. TypedInv /\ Branch /\ MethodsInv /\ RefsInv /\ FailuresInv /\ [Next]_vars
            => FailuresInv'
    BY FailuresTypes, FailuresTraits, FailuresBind, FailuresDown, FailuresUp, FailuresStill
    DEF Next, End, TraitStep, TypeStep
  <1> QED BY <1>1, FailuresInitially, TypedInductive, BranchInductive, MethodsInductive,
             RefsInductive, PTL DEF Spec

(* When the tree is built, each resource knows all the failures in it and  *)
(* below and no others, the root all that is reported; what failed where   *)
(* only a method names it is known at that method (_resolve_directives).   *)
THEOREM SpecFailuresPassThrough == Spec => []FailuresPassThrough
  <1>1. TypedInv /\ Branch /\ RefsInv /\ FailuresInv => FailuresPassThrough
    <2> SUFFICES ASSUME TypedInv, Branch, RefsInv, FailuresInv, path = <<>>
                 PROVE  /\ res[Root].failed = reported
                        /\ \A r \in Resources :
                            /\ res[r].failed = {e \in reported : e.on \in Holds(r)}
                            /\ \A m \in DOMAIN res[r].ops :
                                /\ res[r].ops[m].failed \subseteq res[r].failed
                                /\ \A ref \in MethodRefs(r, m) :
                                    Failure(r, ref) \in reported =>
                                        Failure(r, ref) \in res[r].ops[m].failed
      BY DEF FailuresPassThrough, Finished
    <2>1. OnPath = {}
      BY DEF OnPath, ToSet
    <2>2. done = Resources
      BY <2>1, TreeAssumption DEF Branch, TypedInv, Typed
    <2>3. ASSUME NEW r \in Resources
          PROVE  res[r].failed = {e \in reported : e.on \in Holds(r)}
      BY <2>2 DEF FailuresInv, KnownWhereHeld
    <2>4. Holds(Root) = Resources /\ Root \in Resources
      BY TreeAssumption DEF Holds
    <2>5. res[Root].failed = reported
      <3>1. \A e \in reported : e.on \in Resources
        BY DEF TypedInv, Typed, FailureType
      <3> QED BY <2>3, <2>4, <3>1
    <2>6. ASSUME NEW r \in Resources, NEW m \in DOMAIN res[r].ops
          PROVE  /\ res[r].ops[m].failed \subseteq res[r].failed
                 /\ \A ref \in MethodRefs(r, m) :
                        Failure(r, ref) \in reported => Failure(r, ref) \in res[r].ops[m].failed
      <3>1. res[r].ops[m].failed \subseteq res[r].failed
        BY <2>2, DoneIsPast DEF RefsInv, SettledRefs
      <3>2. res[r].ops[m] \in OperationType(m) /\ m \in Methods
        BY OpsTyped DEF TypedInv, Typed, SourceType
      <3>3. MethodRefs(r, m) \subseteq TraitRef(m)
        BY <3>2, ElementOfSeq, LenProperties DEF MethodRefs, ToSet, OperationType
      <3>4. ASSUME NEW ref \in MethodRefs(r, m), Failure(r, ref) \in reported
            PROVE  Failure(r, ref) \in res[r].ops[m].failed
        <4>1. ref.at = m /\ m # None
          BY <3>2, <3>3, NoneAssumption DEF TraitRef
        <4>2. Failure(r, ref).on = r /\ Failure(r, ref).ref = ref
          BY DEF Failure
        <4> QED BY <3>4, <4>1, <4>2 DEF FailuresInv, KnownWhereWritten
      <3> QED BY <3>1, <3>4
    <2> QED BY <2>3, <2>5, <2>6
  <1> QED BY <1>1, TypedInductive, BranchInductive, RefsInductive, FailuresInductive, PTL
-----------------------------------------------------------------------------
(* Who writes what of a method.                                            *)

(* The parts of a resource: itself and the types it applies.  Which of     *)
(* them have the method m (an optional one, if what applies them does),    *)
(* and which write its facet f.                                            *)
Parts(r) == <<r>> \o merged[r]
Having(D, T, m) ==
    {i \in 1..Len(T) : \E j \in 1..i :
        m \notin D[T[j]].optional /\ \A k \in j..i : m \in DOMAIN D[T[k]].ops}
Writing(D, T, m, f) == {i \in Having(D, T, m) : f \in D[T[i]].ops[m].writes}

(* What stands for the parts k to e of T: their methods, and of each facet *)
(* the first of them that writes it.                                       *)
FirstOf(T, W, f, content) ==
    IF f \in DOMAIN content
    THEN \E i \in W : content[f] = T[i] /\ \A j \in W : i <= j
    ELSE W = {}
Says(D, T, m, k, e, content) ==
    \A f \in Facets : FirstOf(T, Writing(D, T, m, f) \cap k..e, f, content)
Stands(D, T, k, e, s) ==
    /\ DOMAIN s.ops = {m \in Methods : Having(D, T, m) \cap k..e # {}}
    /\ \A m \in DOMAIN s.ops : Says(D, T, m, k, e, s.ops[m].content)

(* While types are compiled and merged each stands for itself, the last    *)
(* for what was merged into it too, and the first is the resource.         *)
Layers(D, T, c, s) ==
    \A k \in 0..Len(c) :
        Stands(D, T, k + 1, IF k = Len(c) THEN Len(T) ELSE k + 1, IF k = 0 THEN s ELSE c[k])
Layered == phase \in {"type", "merge"} => Layers(doc, Parts(Here), chain, res[Here])

(* What a resource and its methods name themselves stays as declared.      *)
OwnRefs ==
    \A r \in Resources :
        /\ res[r].is = Refs(doc[r].own, r, None)
        /\ \A m \in DOMAIN res[r].ops :
            res[r].ops[m].is =
                IF m \in DOMAIN doc[r].ops THEN Refs(doc[r].ops[m], r, m) ELSE <<>>
Waiting ==
    \A r \in Resources \ (OnPath \cup done) : Stands(doc, Parts(r), 1, 1, res[r])

(* Traits leave what the parts write as it is.                             *)
Stays(D, T, m, content) ==
    \A f \in Facets : Writing(D, T, m, f) # {} =>
        /\ f \in DOMAIN content
        /\ \E i \in Writing(D, T, m, f) :
            content[f] = T[i] /\ \A j \in Writing(D, T, m, f) : i <= j

(* The traits applied are found distance by distance: L is theirs, d the   *)
(* present one, q what is queued of it and n what is nested in it.         *)
NestedIn(D, x, m) == ToSet(Refs(D[Found(x)], Found(x), m))
Can(D, taken) == {x \in taken : Found(x) # None /\ Accepts(D[Found(x)].vars, {}, x)}
Named(S) == {x.name : x \in S}

DirectFirst(direct, taken, d, q) ==
    /\ \A i \in 1..Len(direct) :
        \/ \E j \in 1..i : direct[j] \in taken /\ direct[j].name = direct[i].name
        \/ d = 0 /\ i > Len(direct) - Len(q)
    /\ d = 0 =>
        /\ Len(q) <= Len(direct)
        /\ \A k \in 1..Len(q) : q[k] = direct[Len(direct) - Len(q) + k]
        /\ \A x \in taken : \E j \in 1..(Len(direct) - Len(q)) : x = direct[j]
Distances(D, m, direct, taken, L, d, q, n) ==
    LET able == Can(D, taken) IN
    /\ L \in [able -> 0..d]
    /\ \A x \in able :
        /\ L[x] = 0 <=> x \in ToSet(direct)
        /\ L[x] # 0 => \E y \in able : L[y] + 1 = L[x] /\ x \in NestedIn(D, y, m)
        /\ \A z \in NestedIn(D, x, m) :
            \/ z.name \in Named(taken)
            \/ L[x] = d /\ z \in ToSet(n)
            \/ L[x] + 1 = d /\ z \in ToSet(q)
        /\ \A z \in NestedIn(D, x, m) \cap able : L[z] <= L[x] + 1
    /\ d # 0 => \A z \in ToSet(q) : \E y \in able : L[y] + 1 = d /\ z \in NestedIn(D, y, m)
    /\ \A z \in ToSet(n) : \E y \in able : L[y] = d /\ z \in NestedIn(D, y, m)
From(D, taken, f) == {x \in Can(D, taken) : f \in D[Found(x)].writes}
Adds(D, T, m, taken, L, content) ==
    \A f \in Facets : Writing(D, T, m, f) = {} =>
        IF f \in DOMAIN content
        THEN \E x \in From(D, taken, f) :
                content[f] = Found(x) /\ \A y \in From(D, taken, f) : L[x] <= L[y]
        ELSE From(D, taken, f) = {}

InOrder(D, T, m, direct, taken, content, L, d, q, n) ==
    /\ \A x, y \in taken : x.name = y.name => x = y
    /\ DirectFirst(direct, taken, d, q)
    /\ Distances(D, m, direct, taken, L, d, q, n)
    /\ Adds(D, T, m, taken, L, content)
Reached(D, T, m, direct, taken, content, q, n) ==
    \E d \in Nat : \E L : InOrder(D, T, m, direct, taken, content, L, d, q, n)
Through(r, m, q, n) ==
    Reached(doc, Parts(r), m, InPriorityOrder(r, m), res[r].ops[m].taken,
            res[r].ops[m].content, q, n)

(* A method is not begun, or the traits are being applied, or all were.    *)
Begun ==
    /\ phase \in {"type", "merge"} => applied = {}
    /\ phase = "traits" => method \notin applied /\ \A m \in DOMAIN res[Here].ops :
        /\ Stays(doc, Parts(Here), m, res[Here].ops[m].content)
        /\ m \in applied => Through(Here, m, <<>>, <<>>)
        /\ m \notin applied /\ m = method => Through(Here, m, queue, nested)
        /\ m \notin applied /\ m # method =>
            /\ res[Here].ops[m].taken = {}
            /\ Says(doc, Parts(Here), m, 1, Len(Parts(Here)), res[Here].ops[m].content)
Ended ==
    \A r \in Resources : Past(r) => \A m \in DOMAIN res[r].ops :
        /\ Stays(doc, Parts(r), m, res[r].ops[m].content)
        /\ Through(r, m, <<>>, <<>>)

ClosestInv == OwnRefs /\ Waiting /\ Layered /\ Begun /\ Ended
-----------------------------------------------------------------------------
LEMMA PartsFacts ==
    ASSUME NEW r \in Resources, NEW b \in Seq(Types)
    PROVE  /\ <<r>> \o b \in Seq(Resources \cup Types) /\ Len(b) \in Nat
           /\ Len(<<r>> \o b) = Len(b) + 1 /\ (<<r>> \o b)[1] = r
           /\ \A i \in 1..Len(b) : (<<r>> \o b)[i + 1] = b[i]
  <1> DEFINE a == <<r>>
  <1>1. a \in Seq(Resources \cup Types) /\ b \in Seq(Resources \cup Types)
    BY SeqsGrow
  <1>2. Len(a) = 1 /\ a[1] = r /\ Len(b) \in Nat
    BY <1>1, LenProperties
  <1>3. /\ a \o b \in Seq(Resources \cup Types) /\ Len(a \o b) = Len(a) + Len(b)
        /\ \A i \in 1..(Len(a) + Len(b)) :
              (a \o b)[i] = IF i <= Len(a) THEN a[i] ELSE b[i - Len(a)]
    BY <1>1, ConcatProperties
  <1> HIDE DEF a
  <1>4. 1 \in 1..(1 + Len(b)) /\ 1 <= 1
    BY <1>2
  <1>5. ASSUME NEW i \in 1..Len(b) PROVE (a \o b)[i + 1] = b[i]
    <2>1. i + 1 \in 1..(1 + Len(b)) /\ ~(i + 1 <= 1) /\ (i + 1) - 1 = i
      BY <1>2
    <2> QED BY <1>2, <1>3, <2>1
  <1>6. /\ a \o b \in Seq(Resources \cup Types) /\ Len(b) \in Nat
        /\ Len(a \o b) = Len(b) + 1 /\ (a \o b)[1] = r
        /\ \A i \in 1..Len(b) : (a \o b)[i + 1] = b[i]
    BY <1>2, <1>3, <1>4, <1>5
  <1> QED BY <1>6 DEF a

(* One more type for a resource.                                           *)
LEMMA PartAdded ==
    ASSUME NEW r \in Resources, NEW b \in Seq(Types), NEW t \in Types
    PROVE  LET T == <<r>> \o b  U == <<r>> \o Append(b, t) IN
           /\ T \in Seq(Resources \cup Types) /\ U \in Seq(Resources \cup Types)
           /\ Len(T) = Len(b) + 1 /\ Len(b) \in Nat /\ Len(U) = Len(T) + 1
           /\ U[Len(T) + 1] = t /\ \A i \in 1..Len(T) : U[i] = T[i]
  <1> DEFINE T == <<r>> \o b  c == Append(b, t)  U == <<r>> \o c
  <1>1. /\ T \in Seq(Resources \cup Types) /\ Len(b) \in Nat /\ Len(T) = Len(b) + 1
        /\ T[1] = r /\ \A i \in 1..Len(b) : T[i + 1] = b[i]
    BY PartsFacts
  <1>2. /\ c \in Seq(Types) /\ Len(c) = Len(b) + 1 /\ c[Len(b) + 1] = t
        /\ \A i \in 1..Len(b) : c[i] = b[i]
    BY AppendProperties
  <1> HIDE DEF c
  <1>3. /\ U \in Seq(Resources \cup Types) /\ Len(U) = Len(c) + 1 /\ U[1] = r
        /\ \A i \in 1..Len(c) : U[i + 1] = c[i]
    BY <1>2, PartsFacts
  <1> HIDE DEF T, U
  <1>4. Len(b) + 1 \in 1..Len(c)
    BY <1>1, <1>2
  <1>5. U[Len(T) + 1] = t
    BY <1>1, <1>2, <1>3, <1>4
  <1>6. ASSUME NEW i \in 1..Len(T) PROVE U[i] = T[i]
    <2>1. CASE i # 1
      <3>1. i - 1 \in 1..Len(b) /\ i - 1 \in 1..Len(c) /\ (i - 1) + 1 = i
        BY <1>1, <1>2, <2>1
      <3> QED BY <1>1, <1>2, <1>3, <3>1
    <2> QED BY <1>1, <1>3, <2>1
  <1>7. Len(U) = Len(T) + 1
    BY <1>1, <1>2, <1>3
  <1> QED BY <1>1, <1>3, <1>5, <1>6, <1>7 DEF T, U, c

(* What the first e parts have does not depend on the others.              *)
LEMMA HavingLocal ==
    ASSUME NEW D, NEW S, NEW T \in Seq(S), NEW U \in Seq(S), NEW e \in Nat,
           e <= Len(T), e <= Len(U), \A i \in 1..e : T[i] = U[i], NEW m
    PROVE  \A i \in 1..e :
            /\ i \in Having(D, T, m) <=> i \in Having(D, U, m)
            /\ \A f : i \in Writing(D, T, m, f) <=> i \in Writing(D, U, m, f)
  <1>1. Len(T) \in Nat /\ Len(U) \in Nat
    BY LenProperties
  <1> SUFFICES ASSUME NEW i \in 1..e
               PROVE  /\ i \in Having(D, T, m) <=> i \in Having(D, U, m)
                      /\ \A f : i \in Writing(D, T, m, f) <=> i \in Writing(D, U, m, f)
    OBVIOUS
  <1>2. i \in 1..Len(T) /\ i \in 1..Len(U) /\ \A j \in 1..i : j \in 1..e /\ \A k \in j..i : k \in 1..e
    BY <1>1
  <1>3. i \in Having(D, T, m) <=> i \in Having(D, U, m)
    BY <1>2 DEF Having
  <1> QED BY <1>2, <1>3 DEF Writing

LEMMA StandsLocal ==
    ASSUME NEW D, NEW S, NEW T \in Seq(S), NEW U \in Seq(S), NEW e \in Nat,
           e <= Len(T), e <= Len(U), \A i \in 1..e : T[i] = U[i],
           NEW k \in Nat \ {0}, NEW s, Stands(D, T, k, e, s)
    PROVE  Stands(D, U, k, e, s)
  <1>1. k..e \subseteq 1..e
    OBVIOUS
  <1>2. ASSUME NEW m
        PROVE  /\ Having(D, T, m) \cap k..e = Having(D, U, m) \cap k..e
               /\ \A f : Writing(D, T, m, f) \cap k..e = Writing(D, U, m, f) \cap k..e
    BY <1>1, HavingLocal
  <1>3. ASSUME NEW m \in DOMAIN s.ops PROVE Says(D, U, m, k, e, s.ops[m].content)
    <2>1. Says(D, T, m, k, e, s.ops[m].content)
      BY DEF Stands
    <2> SUFFICES ASSUME NEW f \in Facets
                 PROVE  FirstOf(U, Writing(D, U, m, f) \cap k..e, f, s.ops[m].content)
      BY DEF Says
    <2>2. FirstOf(T, Writing(D, U, m, f) \cap k..e, f, s.ops[m].content)
      BY <1>2, <2>1 DEF Says
    <2>3. \A i \in Writing(D, U, m, f) \cap k..e : T[i] = U[i]
      BY <1>1
    <2> QED BY <2>2, <2>3 DEF FirstOf
  <1> QED BY <1>2, <1>3 DEF Stands

(* A part has a method if it declares it and, when it is optional, what    *)
(* applies the part has it.                                                *)
LEMMA HavingStep ==
    ASSUME NEW D, NEW T, NEW m, NEW i \in 1..Len(T), Len(T) \in Nat
    PROVE  i \in Having(D, T, m) <=>
            /\ m \in DOMAIN D[T[i]].ops
            /\ m \in D[T[i]].optional => i # 1 /\ i - 1 \in Having(D, T, m)
  <1>1. ASSUME i \in Having(D, T, m)
        PROVE  /\ m \in DOMAIN D[T[i]].ops
               /\ m \in D[T[i]].optional => i # 1 /\ i - 1 \in Having(D, T, m)
    <2>1. PICK j \in 1..i :
            m \notin D[T[j]].optional /\ \A k \in j..i : m \in DOMAIN D[T[k]].ops
      BY <1>1 DEF Having
    <2>2. i \in j..i
      OBVIOUS
    <2>3. ASSUME m \in D[T[i]].optional PROVE i # 1 /\ i - 1 \in Having(D, T, m)
      <3>1. j # i
        BY <2>1, <2>3
      <3>2. i # 1 /\ i - 1 \in 1..Len(T) /\ j \in 1..(i - 1) /\ j..(i - 1) \subseteq j..i
        BY <3>1
      <3> QED BY <2>1, <3>2 DEF Having
    <2> QED BY <2>1, <2>2, <2>3
  <1>2. ASSUME m \in DOMAIN D[T[i]].ops,
               m \in D[T[i]].optional => i # 1 /\ i - 1 \in Having(D, T, m)
        PROVE  i \in Having(D, T, m)
    <2>1. CASE m \notin D[T[i]].optional
      <3>1. i \in 1..i /\ i..i = {i}
        OBVIOUS
      <3> QED BY <1>2, <2>1, <3>1 DEF Having
    <2>2. CASE m \in D[T[i]].optional
      <3>1. PICK j \in 1..(i - 1) :
              m \notin D[T[j]].optional /\ \A k \in j..(i - 1) : m \in DOMAIN D[T[k]].ops
        BY <1>2, <2>2 DEF Having
      <3>2. j \in 1..i /\ \A k \in j..i : k = i \/ k \in j..(i - 1)
        OBVIOUS
      <3> QED BY <1>2, <3>1, <3>2 DEF Having
    <2> QED BY <2>1, <2>2
  <1> QED BY <1>1, <1>2

(* A part by itself, and with what comes after it merged into it.          *)
LEMMA SourceStands ==
    ASSUME doc \in Corpus, NEW T \in Seq(Resources \cup Types), NEW k \in 1..Len(T),
           NEW kept, kept = {m \in Methods : k \in Having(doc, T, m)}
    PROVE  /\ kept \subseteq DOMAIN doc[T[k]].ops
           /\ Stands(doc, T, k, k, Source(T[k], kept))
  <1> DEFINE by == T[k]
  <1>1. Len(T) \in Nat /\ by \in Resources \cup Types
    BY LenProperties, ElementOfSeq
  <1>2. \A m \in kept : m \in DOMAIN doc[by].ops
    BY <1>1, HavingStep
  <1>3. k..k = {k}
    OBVIOUS
  <1>4. Source(by, kept).ops = [m \in kept |-> Operation(doc[by].ops[m], by, m)]
    BY DEF Source
  <1>5. DOMAIN Source(by, kept).ops = {m \in Methods : Having(doc, T, m) \cap k..k # {}}
    BY <1>3, <1>4
  <1>6. ASSUME NEW m \in kept PROVE Says(doc, T, m, k, k, Source(by, kept).ops[m].content)
    <2>1. Source(by, kept).ops[m].content = [f \in doc[by].ops[m].writes |-> by]
      BY <1>4 DEF Operation
    <2>2. k \in Having(doc, T, m)
      OBVIOUS
    <2>3. \A f : Writing(doc, T, m, f) \cap k..k = IF f \in doc[by].ops[m].writes THEN {k} ELSE {}
      BY <1>3, <2>2 DEF Writing
    <2>4. ASSUME NEW f PROVE FirstOf(T, Writing(doc, T, m, f) \cap k..k, f,
                                     Source(by, kept).ops[m].content)
      <3>1. k <= k
        OBVIOUS
      <3>2. CASE f \in doc[by].ops[m].writes
        <4>1. Writing(doc, T, m, f) \cap k..k = {k}
          BY <2>3, <3>2
        <4>2. /\ f \in DOMAIN Source(by, kept).ops[m].content
              /\ Source(by, kept).ops[m].content[f] = T[k]
          BY <2>1, <3>2
        <4> QED BY <3>1, <4>1, <4>2 DEF FirstOf
      <3>3. CASE f \notin doc[by].ops[m].writes
        <4>1. Writing(doc, T, m, f) \cap k..k = {}
          BY <2>3, <3>3
        <4>2. f \notin DOMAIN Source(by, kept).ops[m].content
          BY <2>1, <3>3
        <4> QED BY <4>1, <4>2 DEF FirstOf
      <3> QED BY <3>2, <3>3
    <2> QED BY <2>4 DEF Says
  <1> QED BY <1>2, <1>4, <1>5, <1>6 DEF Stands

LEMMA UnderFacts ==
    ASSUME NEW target, NEW source
    PROVE  /\ DOMAIN Under(target, source) = DOMAIN target \cup DOMAIN source
           /\ \A f \in DOMAIN target : Under(target, source)[f] = target[f]
           /\ \A f \in DOMAIN source \ DOMAIN target : Under(target, source)[f] = source[f]
  BY DEF Under

LEMMA MergeFacts ==
    ASSUME NEW target \in SourceType, NEW source \in SourceType
    PROVE  LET M == DOMAIN target.ops  N == DOMAIN source.ops  new == Merge(target, source) IN
           /\ DOMAIN new.ops = M \cup N /\ new.is = target.is
           /\ \A m \in M :
                /\ new.ops[m].is = target.ops[m].is
                /\ new.ops[m].content = IF m \in N
                        THEN Under(target.ops[m].content, source.ops[m].content)
                        ELSE target.ops[m].content
           /\ \A m \in N \ M :
                new.ops[m].is = <<>> /\ new.ops[m].content = source.ops[m].content
  <1> DEFINE M == DOMAIN target.ops  N == DOMAIN source.ops
             ops == [m \in M \cup N |->
                        IF m \notin M THEN Contributed(source.ops[m])
                        ELSE IF m \notin N THEN target.ops[m]
                        ELSE MergeMethod(target.ops[m], source.ops[m])]
  <1>1. Merge(target, source).ops = ops /\ Merge(target, source).is = target.is
    BY DEF Merge, SourceType
  <1>2. /\ \A m \in M : target.ops[m] \in OperationType(m)
        /\ \A m \in N : source.ops[m] \in OperationType(m)
    BY OpsTyped DEF SourceType
  <1>3. ASSUME NEW m \in N
        PROVE  /\ Contributed(source.ops[m]).is = <<>>
               /\ Contributed(source.ops[m]).content = source.ops[m].content
    BY <1>2 DEF Contributed, OperationType
  <1>4. ASSUME NEW m \in M \cap N
        PROVE  /\ MergeMethod(target.ops[m], source.ops[m]).is = target.ops[m].is
               /\ MergeMethod(target.ops[m], source.ops[m]).content =
                        Under(target.ops[m].content, source.ops[m].content)
    BY <1>2 DEF MergeMethod, OperationType
  <1> QED BY <1>1, <1>3, <1>4

LEMMA FirstJoined ==
    ASSUME NEW T, NEW V, NEW U, NEW f, \A i \in V, j \in U : i <= j,
           NEW c, FirstOf(T, V, f, c), NEW d, FirstOf(T, U, f, d)
    PROVE  FirstOf(T, V \cup U, f, Under(c, d))
  <1> DEFINE u == Under(c, d)
  <1>0. /\ DOMAIN u = DOMAIN c \cup DOMAIN d /\ \A x \in DOMAIN c : u[x] = c[x]
        /\ \A x \in DOMAIN d \ DOMAIN c : u[x] = d[x]
    BY UnderFacts
  <1> SUFFICES FirstOf(T, V \cup U, f, u)
    OBVIOUS
  <1> HIDE DEF u
  <1>1. /\ f \in DOMAIN u <=> f \in DOMAIN c \/ f \in DOMAIN d
        /\ f \in DOMAIN c => u[f] = c[f]
        /\ f \in DOMAIN d /\ f \notin DOMAIN c => u[f] = d[f]
    BY <1>0
  <1>2. CASE f \in DOMAIN c
    <2>1. PICK i \in V : c[f] = T[i] /\ \A j \in V : i <= j
      BY <1>2 DEF FirstOf
    <2>2. \A j \in V \cup U : i <= j
      BY <2>1
    <2> QED BY <1>1, <1>2, <2>1, <2>2 DEF FirstOf
  <1>3. CASE f \notin DOMAIN c
    <2>1. V \cup U = U
      BY <1>3 DEF FirstOf
    <2> QED BY <1>1, <1>3, <2>1 DEF FirstOf
  <1> QED BY <1>2, <1>3

LEMMA MergeStands ==
    ASSUME NEW D, NEW T, NEW k \in Nat \ {0}, NEW e \in Nat, k < e,
           NEW target \in SourceType, Stands(D, T, k, k, target),
           NEW source \in SourceType, Stands(D, T, k + 1, e, source)
    PROVE  Stands(D, T, k, e, Merge(target, source))
  <1> DEFINE M == DOMAIN target.ops  N == DOMAIN source.ops  new == Merge(target, source)
  <1>1. k..e = k..k \cup (k + 1)..e /\ k..k = {k}
    OBVIOUS
  <1>2. M = {m \in Methods : Having(D, T, m) \cap k..k # {}}
        /\ N = {m \in Methods : Having(D, T, m) \cap (k + 1)..e # {}}
    BY DEF Stands
  <1>3. DOMAIN new.ops = M \cup N
    BY MergeFacts
  <1>4. DOMAIN new.ops = {m \in Methods : Having(D, T, m) \cap k..e # {}}
    BY <1>1, <1>2, <1>3
  <1>5. ASSUME NEW m \in DOMAIN new.ops PROVE Says(D, T, m, k, e, new.ops[m].content)
    <2>1. ASSUME NEW f \in Facets
          PROVE  FirstOf(T, Writing(D, T, m, f) \cap k..e, f, new.ops[m].content)
      <3> DEFINE V == Writing(D, T, m, f) \cap k..k
                 U == Writing(D, T, m, f) \cap (k + 1)..e
      <3>1. Writing(D, T, m, f) \cap k..e = V \cup U /\ \A i \in V, j \in U : i <= j
        BY <1>1
      <3>2. m \in M => FirstOf(T, V, f, target.ops[m].content)
        BY DEF Stands, Says
      <3>3. m \in N => FirstOf(T, U, f, source.ops[m].content)
        BY DEF Stands, Says
      <3>4. m \in Methods /\ (m \notin M => V = {}) /\ (m \notin N => U = {})
        BY <1>2, <1>4 DEF Writing
      <3> HIDE DEF U, V
      <3>6. CASE m \in M /\ m \in N
        <4>1. new.ops[m].content = Under(target.ops[m].content, source.ops[m].content)
          BY <3>6, MergeFacts
        <4>2. FirstOf(T, V \cup U, f, Under(target.ops[m].content, source.ops[m].content))
          BY <3>1, <3>2, <3>3, <3>6, FirstJoined
        <4> QED BY <3>1, <4>1, <4>2
      <3>7. CASE m \in M /\ m \notin N
        <4>1. new.ops[m].content = target.ops[m].content /\ V \cup U = V
          BY <3>4, <3>7, MergeFacts
        <4> QED BY <3>1, <3>2, <3>7, <4>1
      <3>8. CASE m \notin M
        <4>1. new.ops[m].content = source.ops[m].content /\ V \cup U = U /\ m \in N
          BY <1>3, <3>4, <3>8, MergeFacts
        <4> QED BY <3>1, <3>3, <4>1
      <3> QED BY <3>6, <3>7, <3>8
    <2> QED BY <2>1 DEF Says
  <1> QED BY <1>4, <1>5 DEF Stands

(* A type that joins the chain.                                            *)
LEMMA LayersCompiled ==
    ASSUME doc \in Corpus, NEW r \in Resources, NEW b \in Seq(Types), NEW t \in Types,
           NEW c \in Seq(SourceType), Len(c) = Len(b), NEW s \in SourceType,
           Layers(doc, <<r>> \o b, c, s)
    PROVE  LET target == IF c = <<>> THEN s ELSE Last(c) IN
           Layers(doc, <<r>> \o Append(b, t),
                  Append(c, Source(t, Kept(t, DOMAIN target.ops))), s)
  <1> DEFINE T == <<r>> \o b  U == <<r>> \o Append(b, t)  n == Len(c)
             target == IF c = <<>> THEN s ELSE Last(c)
             kept == Kept(t, DOMAIN target.ops)  d == Append(c, Source(t, kept))
  <1>1. /\ T \in Seq(Resources \cup Types) /\ U \in Seq(Resources \cup Types)
        /\ Len(T) = n + 1 /\ n \in Nat /\ Len(U) = n + 2
        /\ U[n + 2] = t /\ \A i \in 1..(n + 1) : U[i] = T[i]
    <2>1. \A k \in Nat : (k + 1) + 1 = k + 2
      OBVIOUS
    <2> QED BY PartAdded, <2>1
  <1>2. Layers(doc, T, c, s)
    OBVIOUS
  <1> HIDE DEF T, U
  <1>3. target = IF n = 0 THEN s ELSE c[n]
    BY EmptySeq DEF Last
  <1>4. ASSUME NEW k \in 0..n
        PROVE  Stands(doc, T, k + 1, k + 1, IF k = 0 THEN s ELSE c[k])
    BY <1>1, <1>2 DEF Layers
  <1>5. DOMAIN target.ops = {m \in Methods : n + 1 \in Having(doc, T, m)}
    <2>1. n \in 0..n /\ (n + 1)..(n + 1) = {n + 1}
      BY <1>1
    <2>2. Stands(doc, T, n + 1, n + 1, target)
      BY <1>3, <1>4, <2>1
    <2> QED BY <2>1, <2>2 DEF Stands
  <1> HIDE DEF target
  <1>6. kept = {m \in Methods : n + 2 \in Having(doc, U, m)}
    <2> DEFINE k == n + 1
    <2>1. k # 0 /\ k \in Nat /\ k = Len(T) /\ Len(U) = k + 1 /\ U[k + 1] = t
          /\ (\A i \in 1..k : U[i] = T[i]) /\ n + 2 = k + 1
      BY <1>1, EmptySeq
    <2>2. T \in Seq(Resources \cup Types) /\ U \in Seq(Resources \cup Types)
      BY <1>1
    <2> DEFINE existing == DOMAIN target.ops
    <2>3. \A m \in Methods : m \in existing <=> k \in Having(doc, T, m)
      BY <1>5
    <2> HIDE DEF k, existing
    <2>4. k + 1 \in 1..Len(U) /\ k + 1 # 1 /\ (k + 1) - 1 = k /\ Len(U) \in Nat
          /\ k \in 1..k /\ k <= Len(T) /\ k <= Len(U)
      BY <2>1
    <2>5. ASSUME NEW m
          PROVE  k + 1 \in Having(doc, U, m) <=> m \in DOMAIN doc[t].ops
                     /\ (m \in doc[t].optional => k \in Having(doc, T, m))
      <3>1. k + 1 \in Having(doc, U, m) <=> m \in DOMAIN doc[t].ops
                     /\ (m \in doc[t].optional => k \in Having(doc, U, m))
        BY <2>1, <2>4, HavingStep
      <3>2. k \in Having(doc, T, m) <=> k \in Having(doc, U, m)
        BY <2>1, <2>2, <2>4, HavingLocal
      <3> QED BY <3>1, <3>2
    <2>6. DOMAIN doc[t].ops \subseteq Methods
      BY CorpusAssumption DEF IsDeclaration
    <2>7. Kept(t, existing) = {m \in Methods : k + 1 \in Having(doc, U, m)}
      BY <2>3, <2>5, <2>6 DEF Kept
    <2> QED BY <2>1, <2>7 DEF existing
  <1> HIDE DEF kept
  <1>7. kept \subseteq DOMAIN doc[t].ops /\ Stands(doc, U, n + 2, n + 2, Source(t, kept))
    <2>1. n + 2 \in 1..Len(U) /\ U[n + 2] = t
      BY <1>1
    <2> QED BY <1>1, <1>6, <2>1, SourceStands
  <1>8. Source(t, kept) \in SourceType
    BY <1>7, SourceTyped
  <1>9. Len(d) = n + 1 /\ d[n + 1] = Source(t, kept) /\ \A k \in 1..n : d[k] = c[k]
    BY <1>8, AppendProperties
  <1> HIDE DEF d
  <1>10. ASSUME NEW k \in 0..n
         PROVE  Stands(doc, U, k + 1, k + 1, IF k = 0 THEN s ELSE c[k])
    <2>1. /\ k + 1 \in Nat \ {0} /\ k + 1 <= Len(T) /\ k + 1 <= Len(U)
          /\ \A i \in 1..(k + 1) : i \in 1..(n + 1)
      BY <1>1
    <2> DEFINE e == k + 1  x == IF k = 0 THEN s ELSE c[k]
    <2>2. Stands(doc, T, e, e, x) /\ e \in Nat \ {0} /\ e <= Len(T) /\ e <= Len(U)
          /\ \A i \in 1..e : T[i] = U[i]
      BY <1>1, <1>4, <2>1
    <2> HIDE DEF e, x
    <2>3. Stands(doc, U, e, e, x)
      BY <1>1, <2>2, StandsLocal
    <2> QED BY <2>3 DEF e, x
  <1>11. ASSUME NEW k \in 0..Len(d)
         PROVE  Stands(doc, U, k + 1, IF k = Len(d) THEN Len(U) ELSE k + 1,
                       IF k = 0 THEN s ELSE d[k])
    <2>1. CASE k = Len(d)
      <3>1. k = n + 1 /\ k + 1 = n + 2 /\ k # 0
        BY <1>1, <1>9, <2>1
      <3> QED BY <1>1, <1>7, <1>9, <2>1, <3>1
    <2>2. CASE k # Len(d)
      <3>1. k \in 0..n /\ (k # 0 => d[k] = c[k])
        BY <1>1, <1>9, <2>2
      <3> QED BY <1>10, <2>2, <3>1
    <2> QED BY <2>1, <2>2
  <1>12. Layers(doc, U, d, s)
    BY <1>11 DEF Layers
  <1> QED BY <1>12 DEF U, d, kept, target

(* The last type of a chain merged into the one before it.                 *)
LEMMA LayersMerged ==
    ASSUME NEW D, NEW T, NEW c \in Seq(SourceType), NEW s, Layers(D, T, c, s),
           Len(T) \in Nat, Len(c) < Len(T), Len(c) # 0, Len(c) # 1
    PROVE  Layers(D, T, PairAs(c, Merge(c[Len(c) - 1], c[Len(c)])), s)
  <1> DEFINE n == Len(c)
  <1>1. n \in Nat /\ n # 0 /\ n # 1 /\ n < Len(T)
    BY LenProperties
  <1>0. \A k \in 0..n : Stands(D, T, k + 1, IF k = n THEN Len(T) ELSE k + 1,
                               IF k = 0 THEN s ELSE c[k])
    BY DEF Layers
  <1> SUFFICES Layers(D, T, PairAs(c, Merge(c[n - 1], c[n])), s)
    OBVIOUS
  <1>8. \A i \in 1..n : c[i] \in SourceType
    BY ElementOfSeq
  <1>9. \A x \in SourceType :
            /\ Len(PairAs(c, x)) = n - 1
            /\ \A i \in 1..(n - 1) : PairAs(c, x)[i] = IF i = n - 1 THEN x ELSE c[i]
    BY PairReplaced
  <1> HIDE DEF n
  <1> DEFINE k == n - 1  e == Merge(c[k], c[n])  d == PairAs(c, e)
  <1>2. k \in Nat /\ k # 0 /\ k \in 1..n /\ n \in 1..n /\ k + 1 = n /\ n + 1 <= Len(T)
        /\ k \in 0..n /\ n \in 0..n /\ k # n /\ n # 0
    BY <1>1
  <1>3. c[k] \in SourceType /\ c[n] \in SourceType
    BY <1>8, <1>2
  <1>4. Len(d) = k /\ \A i \in 1..k : d[i] = IF i = k THEN e ELSE c[i]
    <2>1. e \in SourceType
      BY <1>3, MergeTyped
    <2> HIDE DEF e
    <2> QED BY <1>9, <2>1
  <1>5. Stands(D, T, n, Len(T), e)
    <2>1. Stands(D, T, n, n, c[k]) /\ Stands(D, T, n + 1, Len(T), c[n])
      BY <1>0, <1>2
    <2>2. n \in Nat \ {0} /\ n < Len(T)
      BY <1>1
    <2> HIDE DEF k
    <2> QED BY <1>3, <2>1, <2>2, MergeStands
  <1> HIDE DEF e, d
  <1>6. ASSUME NEW i \in 0..k
        PROVE  Stands(D, T, i + 1, IF i = k THEN Len(T) ELSE i + 1, IF i = 0 THEN s ELSE d[i])
    <2>1. CASE i = k
      <3>1. i \in 1..k /\ i # 0 /\ i + 1 = n
        BY <1>2, <2>1
      <3> QED BY <1>4, <1>5, <2>1, <3>1
    <2>2. CASE i # k
      <3>1. i \in 0..n /\ i # n /\ (i # 0 => i \in 1..k)
        BY <1>2, <2>2
      <3>2. Stands(D, T, i + 1, i + 1, IF i = 0 THEN s ELSE c[i])
        BY <1>0, <3>1
      <3> QED BY <1>4, <2>2, <3>1, <3>2
    <2> QED BY <2>1, <2>2
  <1>7. Layers(D, T, d, s)
    BY <1>4, <1>6 DEF Layers
  <1> QED BY <1>7 DEF d, e

(* All of them merged, and the resource with all.                          *)
LEMMA LayersEnded ==
    ASSUME NEW D, NEW T, NEW c \in Seq(SourceType), NEW s \in SourceType,
           Layers(D, T, c, s), Len(T) \in Nat, Len(c) = 1, 1 < Len(T)
    PROVE  c[1] \in SourceType /\ Stands(D, T, 1, Len(T), Merge(s, c[1]))
  <1>1. c[1] \in SourceType
    BY ElementOfSeq, 1 \in 1..1
  <1>2. Stands(D, T, 0 + 1, 0 + 1, s) /\ Stands(D, T, 1 + 1, Len(T), c[1])
    <2>1. 0 \in 0..1 /\ 1 \in 0..1 /\ 0 # 1
      OBVIOUS
    <2> QED BY <2>1 DEF Layers
  <1>3. 0 + 1 = 1 /\ 1 \in Nat \ {0}
    OBVIOUS
  <1> QED BY <1>1, <1>2, <1>3, MergeStands

(* The next of the queue is dealt with: its name has been taken.           *)
LEMMA DirectStep ==
    ASSUME NEW S, NEW direct \in Seq(S), NEW q \in Seq(S), q # <<>>, NEW d \in Nat,
           NEW taken, DirectFirst(direct, taken, d, q),
           NEW now, taken \subseteq now, now \subseteq taken \cup {Head(q)},
           \E y \in now : y.name = Head(q).name
    PROVE  DirectFirst(direct, now, d, Tail(q))
  <1> DEFINE l == Len(direct)  k == Len(q)  t == Tail(q)
  <1>1. /\ l \in Nat /\ k \in Nat \ {0} /\ Head(q) = q[1] /\ t \in Seq(S) /\ Len(t) = k - 1
        /\ \A i \in 1..(k - 1) : t[i] = q[i + 1]
    BY LenProperties, HeadTailProperties, EmptySeq
  <1>2. CASE d # 0
    <2>1. \A i \in 1..l : \E j \in 1..i : direct[j] \in now /\ direct[j].name = direct[i].name
      BY <1>2 DEF DirectFirst
    <2> QED BY <1>2, <2>1 DEF DirectFirst
  <1>3. CASE d = 0
    <2> DEFINE off == l - k
    <2>1. /\ k <= l /\ \A i \in 1..k : q[i] = direct[off + i]
          /\ \A x \in taken : \E j \in 1..off : x = direct[j]
          /\ \A i \in 1..l : \/ \E j \in 1..i : direct[j] \in taken
                                                /\ direct[j].name = direct[i].name
                             \/ i > off
      BY <1>3 DEF DirectFirst
    <2> HIDE DEF l, k, t
    <2>2. off \in Nat /\ off + 1 \in 1..l /\ q[1] = direct[off + 1] /\ l - Len(t) = off + 1
          /\ Len(t) <= l /\ Len(t) \in Nat
      BY <1>1, <2>1
    <2>3. \A i \in 1..Len(t) : t[i] = direct[(l - Len(t)) + i]
      <3>1. ASSUME NEW i \in 1..Len(t) PROVE t[i] = direct[(l - Len(t)) + i]
        <4>1. i \in 1..(k - 1) /\ i + 1 \in 1..k /\ off + (i + 1) = (l - Len(t)) + i
          <5>1. i \in 1..(k - 1) /\ k \in Nat /\ l \in Nat
            BY <1>1
          <5>2. i + 1 \in 1..k /\ off + (i + 1) = (l - (k - 1)) + i
            BY <5>1
          <5> QED BY <1>1, <5>1, <5>2
        <4> QED BY <1>1, <2>1, <4>1
      <3> QED BY <3>1
    <2>4. \A x \in now : \E j \in 1..(off + 1) : x = direct[j]
      <3>1. off + 1 \in 1..(off + 1) /\ 1..off \subseteq 1..(off + 1)
        BY <2>2
      <3> QED BY <1>1, <2>1, <2>2, <3>1
    <2>5. ASSUME NEW i \in 1..l, ~(i > off + 1)
          PROVE  \E j \in 1..i : direct[j] \in now /\ direct[j].name = direct[i].name
      <3>1. CASE i = off + 1
        <4>1. PICK y \in now : y.name = direct[i].name
          BY <1>1, <2>2, <3>1
        <4>2. PICK j \in 1..(off + 1) : y = direct[j]
          BY <2>4
        <4> QED BY <3>1, <4>1, <4>2
      <3>2. CASE i # off + 1
        <4>1. ~(i > off)
          BY <2>2, <2>5, <3>2
        <4> QED BY <2>1, <4>1
      <3> QED BY <3>1, <3>2
    <2>6. DirectFirst(direct, now, d, t)
      BY <1>3, <2>2, <2>3, <2>4, <2>5 DEF DirectFirst, l
    <2> QED BY <2>6 DEF t
  <1> QED BY <1>2, <1>3

(* No trait has been applied yet.                                          *)
LEMMA OrderBegins ==
    ASSUME NEW D, NEW T, Len(T) \in Nat, NEW m, NEW S, NEW direct \in Seq(S), NEW content,
           Says(D, T, m, 1, Len(T), content)
    PROVE  InOrder(D, T, m, direct, {}, content, <<>>, 0, direct, <<>>)
  <1>1. Len(direct) \in Nat /\ Len(direct) - Len(direct) = 0
    BY LenProperties
  <1>2. DirectFirst(direct, {}, 0, direct)
    <2> DEFINE l == Len(direct)
    <2>1. l \in Nat /\ l - l = 0 /\ l = Len(direct)
      BY <1>1
    <2> HIDE DEF l
    <2>2. (\A i \in 1..l : i > l - l) /\ l <= l /\ \A k \in 1..l : (l - l) + k = k
      BY <2>1
    <2> QED BY <2>1, <2>2 DEF DirectFirst
  <1>3. Can(D, {}) = {} /\ ToSet(<<>>) = {}
    BY DEF Can, ToSet
  <1>4. Distances(D, m, direct, {}, <<>>, 0, direct, <<>>)
    BY <1>3 DEF Distances
  <1>5. Adds(D, T, m, {}, <<>>, content)
    <2> SUFFICES ASSUME NEW f \in Facets, Writing(D, T, m, f) = {}
                 PROVE  f \notin DOMAIN content
      BY <1>3 DEF Adds, From
    <2>1. FirstOf(T, Writing(D, T, m, f) \cap 1..Len(T), f, content)
      BY DEF Says
    <2> QED BY <2>1 DEF FirstOf
  <1> QED BY <1>2, <1>4, <1>5 DEF InOrder

LEMMA OrderNext ==
    ASSUME NEW D, NEW T, NEW m, NEW S, NEW direct \in Seq(S), NEW n \in Seq(S),
           NEW taken, NEW content, NEW L, NEW d \in Nat,
           InOrder(D, T, m, direct, taken, content, L, d, <<>>, n)
    PROVE  InOrder(D, T, m, direct, taken, content, L, d + 1, n, <<>>)
  <1>1. ToSet(<<>>) = {} /\ d + 1 # 0 /\ d + 1 \in Nat /\ 0..d \subseteq 0..(d + 1)
    BY DEF ToSet
  <1>2. DirectFirst(direct, taken, d + 1, n)
    <2>1. Len(direct) \in Nat /\ \A i \in 1..Len(direct) : ~(i > Len(direct) - 0)
      BY LenProperties
    <2>2. Len(<<>>) = 0
      OBVIOUS
    <2>3. DirectFirst(direct, taken, d, <<>>)
      BY DEF InOrder
    <2>4. \A i \in 1..Len(direct) : \E j \in 1..i :
            direct[j] \in taken /\ direct[j].name = direct[i].name
      BY <2>1, <2>2, <2>3 DEF DirectFirst
    <2> QED BY <1>1, <2>4 DEF DirectFirst
  <1>3. Distances(D, m, direct, taken, L, d + 1, n, <<>>)
    <2> DEFINE able == Can(D, taken)
    <2>1. Distances(D, m, direct, taken, L, d, <<>>, n)
      BY DEF InOrder
    <2>2. L \in [able -> 0..d] /\ \A z \in ToSet(n) : \E y \in able :
                L[y] = d /\ z \in NestedIn(D, y, m)
      BY <2>1 DEF Distances
    <2>3. ASSUME NEW x \in able
          PROVE  /\ L[x] = 0 <=> x \in ToSet(direct)
                 /\ L[x] # 0 => \E y \in able : L[y] + 1 = L[x] /\ x \in NestedIn(D, y, m)
                 /\ \A z \in NestedIn(D, x, m) : z.name \in Named(taken) \/ (L[x] = d /\ z \in ToSet(n))
                 /\ \A z \in NestedIn(D, x, m) \cap able : L[z] <= L[x] + 1
      BY <1>1, <2>1 DEF Distances
    <2>4. L \in [able -> 0..(d + 1)]
      BY <1>1, <2>2
    <2>5. \A z \in ToSet(n) : \E y \in able : L[y] + 1 = d + 1 /\ z \in NestedIn(D, y, m)
      BY <2>2
    <2>6. ASSUME NEW x \in able, NEW z \in NestedIn(D, x, m)
          PROVE  z.name \in Named(taken) \/ (L[x] + 1 = d + 1 /\ z \in ToSet(n))
      BY <2>3
    <2> HIDE DEF able
    <2> QED BY <1>1, <2>3, <2>4, <2>5, <2>6 DEF Distances, able
  <1> QED BY <1>2, <1>3 DEF InOrder

LEMMA OrderSkips ==
    ASSUME NEW D, NEW T, NEW m, NEW S, NEW direct \in Seq(S), NEW q \in Seq(S), q # <<>>,
           NEW n \in Seq(S), NEW taken, NEW content, NEW L, NEW d \in Nat,
           InOrder(D, T, m, direct, taken, content, L, d, q, n), Head(q).name \in Named(taken)
    PROVE  InOrder(D, T, m, direct, taken, content, L, d, Tail(q), n)
  <1>1. DirectFirst(direct, taken, d, Tail(q))
    <2>1. \E y \in taken : y.name = Head(q).name
      BY DEF Named
    <2> QED BY <2>1, DirectStep DEF InOrder
  <1>2. ToSet(q) = {Head(q)} \cup ToSet(Tail(q))
    BY TailSet
  <1>3. Distances(D, m, direct, taken, L, d, Tail(q), n)
    <2>1. Distances(D, m, direct, taken, L, d, q, n)
      BY DEF InOrder
    <2>2. \A z \in ToSet(q) : z.name \in Named(taken) \/ z \in ToSet(Tail(q))
      BY <1>2
    <2> QED BY <1>2, <2>1, <2>2 DEF Distances
  <1> QED BY <1>1, <1>3 DEF InOrder

(* One that cannot be applied is taken, and adds nothing.                  *)
LEMMA OrderFails ==
    ASSUME NEW D, NEW T, NEW m, NEW S, NEW direct \in Seq(S), NEW q \in Seq(S), q # <<>>,
           NEW n \in Seq(S), NEW taken, NEW content, NEW L, NEW d \in Nat,
           InOrder(D, T, m, direct, taken, content, L, d, q, n),
           Head(q).name \notin Named(taken),
           ~(Found(Head(q)) # None /\ Accepts(D[Found(Head(q))].vars, {}, Head(q)))
    PROVE  InOrder(D, T, m, direct, taken \cup {Head(q)}, content, L, d, Tail(q), n)
  <1> DEFINE ref == Head(q)  now == taken \cup {ref}
  <1>1. DirectFirst(direct, now, d, Tail(q))
    <2>1. DirectFirst(direct, taken, d, q) /\ taken \subseteq now
          /\ now \subseteq taken \cup {Head(q)} /\ \E y \in now : y.name = Head(q).name
      BY DEF InOrder
    <2> HIDE DEF now
    <2> QED BY <2>1, DirectStep
  <1>2. ToSet(q) = {ref} \cup ToSet(Tail(q))
    BY TailSet
  <1>3. Can(D, now) = Can(D, taken)
    BY DEF Can
  <1>4. Named(now) = Named(taken) \cup {ref.name} /\ \A x \in taken : x.name # ref.name
    BY DEF Named
  <1>5. \A x, y \in now : x.name = y.name => x = y
    BY <1>4 DEF InOrder
  <1> HIDE DEF now, ref
  <1>6. Distances(D, m, direct, now, L, d, Tail(q), n)
    <2>1. Distances(D, m, direct, taken, L, d, q, n)
      BY DEF InOrder
    <2>2. \A z \in ToSet(q) : z.name \in Named(now) \/ z \in ToSet(Tail(q))
      BY <1>2, <1>4
    <2>3. Named(taken) \subseteq Named(now)
      BY <1>4
    <2> QED BY <1>2, <1>3, <2>1, <2>2, <2>3 DEF Distances
  <1>7. Adds(D, T, m, now, L, content)
    <2>1. \A f : From(D, now, f) = From(D, taken, f)
      BY <1>3 DEF From
    <2> QED BY <2>1 DEF Adds, InOrder
  <1>8. InOrder(D, T, m, direct, now, content, L, d, Tail(q), n)
    BY <1>1, <1>5, <1>6, <1>7 DEF InOrder
  <1> QED BY <1>8 DEF now, ref

(* One that can be is at the present distance.                             *)
LEMMA OrderApplies ==
    ASSUME NEW D, NEW T, NEW m, NEW S, NEW direct \in Seq(S), NEW q \in Seq(S), q # <<>>,
           NEW n \in Seq(S), NEW taken, NEW content, NEW L, NEW d \in Nat,
           InOrder(D, T, m, direct, taken, content, L, d, q, n),
           Head(q).name \notin Named(taken),
           NEW t, t = Found(Head(q)), t # None, Accepts(D[t].vars, {}, Head(q)),
           Refs(D[t], t, m) \in Seq(S)
    PROVE  \E M : InOrder(D, T, m, direct, taken \cup {Head(q)},
                          Under(content, [f \in D[t].writes |-> t]), M, d, Tail(q),
                          n \o Refs(D[t], t, m))
  <1> DEFINE ref == Head(q)  now == taken \cup {ref}  able == Can(D, taken)
             more == able \cup {ref}  below == Refs(D[t], t, m)  o == n \o below
             M == [x \in more |-> IF x = ref THEN d ELSE L[x]]
             adds == [f \in D[t].writes |-> t]  new == Under(content, adds)
  <1>1. DirectFirst(direct, now, d, Tail(q))
    <2>1. DirectFirst(direct, taken, d, q) /\ taken \subseteq now
          /\ now \subseteq taken \cup {Head(q)} /\ \E y \in now : y.name = Head(q).name
      BY DEF InOrder
    <2> HIDE DEF now
    <2> QED BY <2>1, DirectStep
  <1>2. /\ ToSet(q) = {ref} \cup ToSet(Tail(q)) /\ ref \in ToSet(q)
        /\ ToSet(o) = ToSet(n) \cup ToSet(below)
    BY TailSet, ConcatSet
  <1>3. Can(D, now) = more
    BY DEF Can
  <1>4. Named(now) = Named(taken) \cup {ref.name} /\ (\A x \in taken : x.name # ref.name)
        /\ ref \notin able /\ able \subseteq taken /\ ref.name \notin Named(taken)
    BY DEF Named, Can
  <1>5. \A x, y \in now : x.name = y.name => x = y
    BY <1>4 DEF InOrder
  <1>6. Found(ref) = t /\ NestedIn(D, ref, m) = ToSet(below)
    BY DEF NestedIn
  <1>7. ref \in ToSet(direct) <=> d = 0
    <2>1. DirectFirst(direct, taken, d, q)
      BY DEF InOrder
    <2>2. ASSUME d = 0 PROVE ref \in ToSet(direct)
      <3>1. Len(q) \in Nat \ {0} /\ Len(direct) \in Nat /\ ref = q[1]
        BY LenProperties, EmptySeq, HeadTailProperties
      <3>2. Len(q) <= Len(direct) /\ \A k \in 1..Len(q) : q[k] = direct[Len(direct) - Len(q) + k]
        BY <2>1, <2>2 DEF DirectFirst
      <3>3. ref = direct[Len(direct) - Len(q) + 1]
        BY <3>1, <3>2
      <3>4. \A a \in Nat \ {0}, b \in Nat : a <= b => b - a + 1 \in 1..b
        OBVIOUS
      <3>5. Len(direct) - Len(q) + 1 \in 1..Len(direct)
        BY <3>1, <3>2, <3>4
      <3> QED BY <3>3, <3>5 DEF ToSet
    <2>3. ASSUME ref \in ToSet(direct), d # 0 PROVE FALSE
      <3>1. PICK i \in 1..Len(direct) : ref = direct[i]
        BY <2>3, LenProperties DEF ToSet
      <3>2. PICK j \in 1..i : direct[j] \in taken /\ direct[j].name = direct[i].name
        BY <2>1, <2>3 DEF DirectFirst
      <3> QED BY <1>4, <3>1, <3>2
    <2> QED BY <2>2, <2>3
  <1>8. Distances(D, m, direct, taken, L, d, q, n)
    BY DEF InOrder
  <1>9. L \in [able -> 0..d] /\ \A x \in able : L[x] \in Nat /\ L[x] <= d
    BY <1>8 DEF Distances
  <1>10. /\ M \in [more -> 0..d] /\ M[ref] = d /\ \A x \in able : M[x] = L[x] /\ x # ref
         /\ \A x \in more : x \in able \/ x = ref
    BY <1>4, <1>9
  <1> HIDE DEF ref, now, able, more, below, o, M
  <1>11. ASSUME NEW x \in able
         PROVE  /\ M[x] = 0 <=> x \in ToSet(direct)
                /\ M[x] # 0 => \E y \in more : M[y] + 1 = M[x] /\ x \in NestedIn(D, y, m)
                /\ \A z \in NestedIn(D, x, m) :
                     \/ z.name \in Named(now)
                     \/ M[x] = d /\ z \in ToSet(o)
                     \/ M[x] + 1 = d /\ z \in ToSet(Tail(q))
                /\ \A z \in NestedIn(D, x, m) \cap more : M[z] <= M[x] + 1
    <2>1. /\ L[x] = 0 <=> x \in ToSet(direct)
          /\ L[x] # 0 => \E y \in able : L[y] + 1 = L[x] /\ x \in NestedIn(D, y, m)
          /\ \A z \in NestedIn(D, x, m) :
               \/ z.name \in Named(taken)
               \/ L[x] = d /\ z \in ToSet(n)
               \/ L[x] + 1 = d /\ z \in ToSet(q)
          /\ \A z \in NestedIn(D, x, m) \cap able : L[z] <= L[x] + 1
      BY <1>8 DEF Distances, able
    <2>2. able \subseteq more
      BY DEF more
    <2>3. M[x] # 0 => \E y \in more : M[y] + 1 = M[x] /\ x \in NestedIn(D, y, m)
      BY <1>10, <2>1, <2>2
    <2>4. ASSUME NEW z \in NestedIn(D, x, m)
          PROVE  \/ z.name \in Named(now)
                 \/ M[x] = d /\ z \in ToSet(o)
                 \/ M[x] + 1 = d /\ z \in ToSet(Tail(q))
      BY <1>2, <1>4, <1>10, <2>1
    <2>5. ASSUME NEW z \in NestedIn(D, x, m) \cap more PROVE M[z] <= M[x] + 1
      <3>1. CASE z = ref
        <4>1. L[x] = d \/ L[x] + 1 = d
          BY <1>4, <2>1, <3>1
        <4> QED BY <1>9, <1>10, <3>1, <4>1
      <3>2. CASE z # ref
        BY <1>10, <2>1, <3>2
      <3> QED BY <3>1, <3>2
    <2> QED BY <1>10, <2>1, <2>3, <2>4, <2>5
  <1>12. /\ M[ref] = 0 <=> ref \in ToSet(direct)
         /\ M[ref] # 0 => \E y \in more : M[y] + 1 = M[ref] /\ ref \in NestedIn(D, y, m)
         /\ \A z \in NestedIn(D, ref, m) : M[ref] = d /\ z \in ToSet(o)
         /\ \A z \in NestedIn(D, ref, m) \cap more : M[z] <= M[ref] + 1
    <2>1. d # 0 => \E y \in able : L[y] + 1 = d /\ ref \in NestedIn(D, y, m)
      BY <1>2, <1>8 DEF Distances, able
    <2>2. able \subseteq more
      BY DEF more
    <2>3. \A z \in more : M[z] \in Nat /\ M[z] <= d
      BY <1>9, <1>10
    <2>4. \A z \in more : M[z] <= M[ref] + 1
      BY <1>10, <2>3
    <2> QED BY <1>2, <1>6, <1>7, <1>10, <2>1, <2>2, <2>4
  <1>13. d # 0 => \A z \in ToSet(Tail(q)) : \E y \in more : M[y] + 1 = d /\ z \in NestedIn(D, y, m)
    <2>1. d # 0 => \A z \in ToSet(q) : \E y \in able : L[y] + 1 = d /\ z \in NestedIn(D, y, m)
      BY <1>8 DEF Distances, able
    <2> QED BY <1>2, <1>10, <2>1 DEF more
  <1>14. \A z \in ToSet(o) : \E y \in more : M[y] = d /\ z \in NestedIn(D, y, m)
    <2>1. \A z \in ToSet(n) : \E y \in able : L[y] = d /\ z \in NestedIn(D, y, m)
      BY <1>8 DEF Distances, able
    <2>2. able \subseteq more /\ ref \in more
      BY DEF more
    <2> QED BY <1>2, <1>6, <1>10, <2>1, <2>2
  <1>15. Distances(D, m, direct, now, M, d, Tail(q), o)
    BY <1>3, <1>10, <1>11, <1>12, <1>13, <1>14 DEF Distances
  <1>16. Adds(D, T, m, now, M, new)
    <2> SUFFICES ASSUME NEW f \in Facets, Writing(D, T, m, f) = {}
                 PROVE  IF f \in DOMAIN new
                        THEN \E x \in From(D, now, f) :
                                new[f] = Found(x) /\ \A y \in From(D, now, f) : M[x] <= M[y]
                        ELSE From(D, now, f) = {}
      BY DEF Adds
    <2>1. From(D, now, f) = From(D, taken, f) \cup (IF f \in D[t].writes THEN {ref} ELSE {})
      BY <1>3, <1>6 DEF From, able, more
    <2>2. From(D, taken, f) \subseteq able
      BY DEF From, able
    <2>3. IF f \in DOMAIN content
          THEN \E x \in From(D, taken, f) :
                  content[f] = Found(x) /\ \A y \in From(D, taken, f) : L[x] <= L[y]
          ELSE From(D, taken, f) = {}
      BY DEF InOrder, Adds
    <2>4. /\ DOMAIN new = DOMAIN content \cup D[t].writes
          /\ f \in DOMAIN content => new[f] = content[f]
          /\ f \in D[t].writes /\ f \notin DOMAIN content => new[f] = t
      <3>1. DOMAIN adds = D[t].writes /\ \A g \in D[t].writes : adds[g] = t
        OBVIOUS
      <3> HIDE DEF adds
      <3>2. /\ DOMAIN new = DOMAIN content \cup DOMAIN adds
            /\ \A g \in DOMAIN content : new[g] = content[g]
            /\ \A g \in DOMAIN adds \ DOMAIN content : new[g] = adds[g]
        BY UnderFacts
      <3> HIDE DEF new
      <3> QED BY <3>1, <3>2
    <2> HIDE DEF new
    <2>5. CASE f \in DOMAIN content
      <3>1. PICK x \in From(D, taken, f) :
                content[f] = Found(x) /\ \A y \in From(D, taken, f) : L[x] <= L[y]
        BY <2>3, <2>5
      <3>2. ASSUME NEW y \in From(D, now, f) PROVE M[x] <= M[y]
        <4>1. x \in able /\ M[x] = L[x] /\ M[x] <= d
          BY <1>9, <1>10, <2>2
        <4>2. CASE y = ref
          BY <1>10, <4>1, <4>2
        <4>3. CASE y # ref
          <5>1. y \in From(D, taken, f)
            BY <2>1, <4>3
          <5> QED BY <1>10, <2>2, <3>1, <4>1, <5>1
        <4> QED BY <4>2, <4>3
      <3> QED BY <2>1, <2>4, <2>5, <3>1, <3>2
    <2>6. CASE f \notin DOMAIN content
      <3>1. From(D, now, f) = IF f \in D[t].writes THEN {ref} ELSE {}
        BY <2>1, <2>3, <2>6
      <3>2. M[ref] <= M[ref]
        BY <1>10
      <3> QED BY <1>6, <2>4, <2>6, <3>1, <3>2
    <2> QED BY <2>5, <2>6
  <1>17. InOrder(D, T, m, direct, now, new, M, d, Tail(q), o)
    BY <1>1, <1>5, <1>15, <1>16 DEF InOrder
  <1> QED BY <1>17 DEF now, ref, o, below

-----------------------------------------------------------------------------
LEMMA DeclaredStands ==
    ASSUME doc \in Corpus, NEW r \in Resources, NEW b \in Seq(Types)
    PROVE  /\ Stands(doc, <<r>> \o b, 1, 1, Source(r, DOMAIN doc[r].ops))
           /\ Source(r, DOMAIN doc[r].ops).is = Refs(doc[r].own, r, None)
           /\ \A m \in DOMAIN doc[r].ops :
                Source(r, DOMAIN doc[r].ops).ops[m].is = Refs(doc[r].ops[m], r, m)
  <1> DEFINE T == <<r>> \o b  kept == DOMAIN doc[r].ops
  <1>1. T \in Seq(Resources \cup Types) /\ Len(T) \in Nat /\ 1 \in 1..Len(T) /\ T[1] = r
    <2>1. T \in Seq(Resources \cup Types) /\ Len(b) \in Nat /\ Len(T) = Len(b) + 1 /\ T[1] = r
      BY PartsFacts
    <2> HIDE DEF T
    <2> QED BY <2>1
  <1>2. doc[r].optional = {} /\ kept \subseteq Methods
    BY CorpusAssumption DEF IsDeclaration
  <1> HIDE DEF T
  <1>3. \A m : 1 \in Having(doc, T, m) <=> m \in kept
    BY <1>1, <1>2, HavingStep
  <1>4. kept = {m \in Methods : 1 \in Having(doc, T, m)}
    BY <1>2, <1>3
  <1> HIDE DEF kept
  <1>5. Stands(doc, T, 1, 1, Source(T[1], kept))
    BY <1>1, <1>4, SourceStands
  <1>6. /\ Source(r, kept).is = Refs(doc[r].own, r, None)
        /\ \A m \in kept : Source(r, kept).ops[m].is = Refs(doc[r].ops[m], r, m)
    BY DEF Source, Operation
  <1> QED BY <1>1, <1>5, <1>6 DEF T, kept

LEMMA AloneStands ==
    ASSUME NEW D, NEW T, Len(T) = 1, NEW s, Stands(D, T, 1, 1, s)
    PROVE  Layers(D, T, <<>>, s)
  <1>1. Len(<<>>) = 0 /\ 0..0 = {0} /\ 0 + 1 = 1
    OBVIOUS
  <1> QED BY <1>1 DEF Layers

LEMMA ClosestInitially == Init => ClosestInv
  <1> SUFFICES ASSUME Init PROVE ClosestInv
    OBVIOUS
  <1>1. /\ doc \in Corpus /\ path = <<Root>> /\ done = {} /\ phase = "type" /\ chain = <<>>
        /\ applied = {} /\ Root \in Resources
        /\ res = [r \in Resources |-> Source(r, DOMAIN doc[r].ops)]
        /\ merged = [r \in Resources |-> <<>>]
    BY TreeAssumption DEF Init
  <1>2. OnPath = {Root} /\ Here = Root
    <2>1. OnPath = {Root}
      BY <1>1, SingleSet DEF OnPath
    <2>2. path \in Seq(Resources) /\ path # <<>>
      BY <1>1
    <2>3. Here \in OnPath
      BY <2>2, PathEnds
    <2> QED BY <2>1, <2>3
  <1>3. ASSUME NEW r \in Resources
        PROVE  /\ Stands(doc, Parts(r), 1, 1, res[r]) /\ Len(Parts(r)) = 1
               /\ res[r].is = Refs(doc[r].own, r, None)
               /\ DOMAIN res[r].ops = DOMAIN doc[r].ops
               /\ \A m \in DOMAIN doc[r].ops : res[r].ops[m].is = Refs(doc[r].ops[m], r, m)
    <2> DEFINE b == merged[r]
    <2>1. b = <<>> /\ b \in Seq(Types) /\ Len(b) = 0 /\ res[r] = Source(r, DOMAIN doc[r].ops)
      BY <1>1
    <2>2. DOMAIN Source(r, DOMAIN doc[r].ops).ops = DOMAIN doc[r].ops
      BY <1>1, SourceTyped
    <2> HIDE DEF b
    <2>3. Len(<<r>> \o b) = 0 + 1
      BY <2>1, PartsFacts
    <2>4. /\ Stands(doc, <<r>> \o b, 1, 1, Source(r, DOMAIN doc[r].ops))
          /\ Source(r, DOMAIN doc[r].ops).is = Refs(doc[r].own, r, None)
          /\ \A m \in DOMAIN doc[r].ops :
                Source(r, DOMAIN doc[r].ops).ops[m].is = Refs(doc[r].ops[m], r, m)
      BY <1>1, <2>1, DeclaredStands
    <2>5. Parts(r) = <<r>> \o b
      BY DEF Parts, b
    <2> QED BY <2>1, <2>2, <2>3, <2>4, <2>5
  <1>4. OwnRefs
    BY <1>3 DEF OwnRefs
  <1>5. Waiting
    BY <1>3 DEF Waiting
  <1>6. Layers(doc, Parts(Here), <<>>, res[Here])
    <2> DEFINE T == Parts(Here)  s == res[Here]
    <2>1. Len(T) = 1 /\ Stands(doc, T, 1, 1, s)
      BY <1>1, <1>2, <1>3
    <2> HIDE DEF T, s
    <2>2. Layers(doc, T, <<>>, s)
      BY <2>1, AloneStands
    <2> QED BY <2>2 DEF T, s
  <1> QED BY <1>1, <1>2, <1>4, <1>5, <1>6 DEF ClosestInv, Layered, Begun, Ended, Past

(* What says of a method what the parts write leaves it so.                *)
LEMMA SaidStays ==
    ASSUME NEW D, NEW T, NEW m, NEW content, Says(D, T, m, 1, Len(T), content)
    PROVE  Stays(D, T, m, content)
  <1> SUFFICES ASSUME NEW f \in Facets, Writing(D, T, m, f) # {}
               PROVE  /\ f \in DOMAIN content
                      /\ \E i \in Writing(D, T, m, f) :
                            content[f] = T[i] /\ \A j \in Writing(D, T, m, f) : i <= j
    BY DEF Stays
  <1>1. Writing(D, T, m, f) \cap 1..Len(T) = Writing(D, T, m, f)
    BY DEF Writing, Having
  <1>2. FirstOf(T, Writing(D, T, m, f), f, content)
    BY <1>1 DEF Says
  <1> QED BY <1>2 DEF FirstOf

(* What is settled of a resource does not depend on any other.             *)
LEMMA EndedKept ==
    ASSUME Ended, NEW r \in Resources, Past(r), doc' = doc, merged'[r] = merged[r],
           res'[r].is = res[r].is, res'[r].rtIs = res[r].rtIs, res'[r].ops = res[r].ops
    PROVE  \A m \in DOMAIN res'[r].ops :
            /\ Stays(doc', Parts(r)', m, res'[r].ops[m].content)
            /\ Through(r, m, <<>>, <<>>)'
  <1> SUFFICES ASSUME NEW m \in DOMAIN res[r].ops
               PROVE  /\ Stays(doc', Parts(r)', m, res'[r].ops[m].content)
                      /\ Through(r, m, <<>>, <<>>)'
    OBVIOUS
  <1>1. Stays(doc, Parts(r), m, res[r].ops[m].content) /\ Through(r, m, <<>>, <<>>)
    BY DEF Ended
  <1>2. Parts(r)' = Parts(r) /\ InPriorityOrder(r, m)' = InPriorityOrder(r, m)
    BY DEF Parts, InPriorityOrder
  <1> QED BY <1>1, <1>2 DEF Through

(* The steps at one resource leave the others.                             *)
LEMMA OthersKept ==
    ASSUME TypedInv, ClosestInv, path # <<>>, path' = path, done' = done, doc' = doc,
           phase # "children", phase' # "children",
           \A q \in Resources \ {Here} : res'[q] = res[q] /\ merged'[q] = merged[q],
           res'[Here].is = res[Here].is,
           \A m \in DOMAIN res'[Here].ops :
                res'[Here].ops[m].is =
                    IF m \in DOMAIN doc[Here].ops THEN Refs(doc[Here].ops[m], Here, m) ELSE <<>>
    PROVE  OwnRefs' /\ Waiting' /\ Ended'
  <1>1. Here \in OnPath /\ OnPath' = OnPath /\ Here' = Here /\ Here \in Resources
    BY PathEnds DEF TypedInv, Typed, OnPath, Here
  <1>2. OwnRefs'
    BY <1>1 DEF ClosestInv, OwnRefs
  <1>3. Waiting'
    BY <1>1 DEF ClosestInv, Waiting, Parts
  <1>4. ASSUME NEW r \in Resources, Past(r)'
        PROVE  \A m \in DOMAIN res'[r].ops :
                /\ Stays(doc', Parts(r)', m, res'[r].ops[m].content)
                /\ Through(r, m, <<>>, <<>>)'
    <2>1. Past(r) /\ r # Here
      BY <1>1, <1>4 DEF Past
    <2> QED BY <2>1, EndedKept DEF ClosestInv
  <1>5. Ended'
    BY <1>4 DEF Ended
  <1> QED BY <1>2, <1>3, <1>5

(* With the types merged, or none, the traits begin.                       *)
LEMMA TraitsBegin ==
    ASSUME TypedInv, Begun, phase \in {"type", "merge"}, phase' = "traits",
           path # <<>>, path' = path, doc' = doc, applied' = applied, method' = method,
           NEW s \in SourceType, s = res'[Here], Untouched(s),
           NEW b \in Seq(Types), merged'[Here] = b,
           Stands(doc, <<Here>> \o b, 1, Len(<<Here>> \o b), s)
    PROVE  Begun'
  <1>1. Here' = Here /\ applied' = {}
    BY DEF Here, Begun
  <1> DEFINE T == <<Here>> \o b
  <1>2. ASSUME NEW m \in DOMAIN s.ops
        PROVE  /\ s.ops[m].taken = {} /\ Says(doc, T, m, 1, Len(T), s.ops[m].content)
               /\ Stays(doc, T, m, s.ops[m].content)
    <2>1. Says(doc, T, m, 1, Len(T), s.ops[m].content)
      BY DEF Stands
    <2> HIDE DEF T
    <2> QED BY <2>1, SaidStays DEF Untouched
  <1>3. method' = None
    BY DEF TypedInv, InPhase
  <1>4. <<Here'>> \o merged'[Here'] = T /\ res'[Here'] = s
    BY <1>1
  <1> HIDE DEF T
  <1>5. None \notin applied' /\ \A m \in DOMAIN s.ops : m \notin applied'
    BY <1>1
  <1>6. ASSUME NEW m \in DOMAIN res'[Here'].ops
        PROVE  /\ Stays(doc', <<Here'>> \o merged'[Here'], m, res'[Here'].ops[m].content)
               /\ res'[Here'].ops[m].taken = {} /\ m \notin applied' /\ m # method'
               /\ Says(doc', <<Here'>> \o merged'[Here'], m, 1,
                       Len(<<Here'>> \o merged'[Here']), res'[Here'].ops[m].content)
    <2>1. m # None
      <3>1. DOMAIN s.ops \subseteq Methods
        BY OpsTyped DEF SourceType
      <3> QED BY <1>4, <3>1, NoneAssumption
    <2> QED BY <1>2, <1>3, <1>4, <1>5, <2>1
  <1> QED BY <1>3, <1>5, <1>6 DEF Begun, Parts

LEMMA ClosestCompile ==
    ASSUME TypedInv, MethodsInv, ClosestInv, CompileType PROVE ClosestInv'
  <1>1. /\ path # <<>> /\ Here \in Resources /\ phase = "type" /\ phase' = phase
        /\ res' = res /\ path' = path /\ done' = done /\ doc' = doc /\ doc \in Corpus
        /\ applied' = applied /\ applied = {} /\ res[Here] \in SourceType
        /\ chain \in Seq(SourceType) /\ merged \in [Resources -> Seq(Types)]
    BY InnermostTyped DEF CompileType, Chained, TypedInv, InPhase, Typed, ClosestInv, Begun
  <1>2. PICK t \in Types : t = Found(Target.type[1])
    BY <1>1, TargetTyped DEF CompileType, Chained
  <1>3. /\ chain' = Append(chain, Source(t, Kept(t, DOMAIN Target.ops)))
        /\ merged' = [merged EXCEPT ![Here] = Append(merged[Here], t)]
    BY <1>2 DEF CompileType
  <1>4. OwnRefs' /\ Waiting' /\ Ended'
    <2>1. /\ \A q \in Resources \ {Here} : res'[q] = res[q] /\ merged'[q] = merged[q]
          /\ \A m \in DOMAIN res[Here].ops : res[Here].ops[m].is =
                IF m \in DOMAIN doc[Here].ops THEN Refs(doc[Here].ops[m], Here, m) ELSE <<>>
      BY <1>1, <1>3 DEF ClosestInv, OwnRefs
    <2> QED BY <1>1, <2>1, OthersKept
  <1>5. Layered'
    <2> DEFINE r == Here  b == merged[r]  s == res[r]
               d == Append(chain, Source(t, Kept(t, DOMAIN Target.ops)))
    <2>1. b \in Seq(Types) /\ Len(chain) = Len(b)
      BY <1>1 DEF MethodsInv, ChainBrings, TypesOf
    <2>2. Layers(doc, <<r>> \o b, chain, s)
      BY <1>1 DEF ClosestInv, Layered, Parts
    <2>3. Target = IF chain = <<>> THEN s ELSE Last(chain)
      BY DEF Target
    <2>4. r \in Resources /\ s \in SourceType
      BY <1>1
    <2>5. <<r>> \o merged'[r] = <<r>> \o Append(b, t) /\ Here' = r
      BY <1>1, <1>3 DEF Here
    <2> HIDE DEF r, b, s
    <2>6. Layers(doc, <<r>> \o Append(b, t), d, s)
      BY <1>1, <2>1, <2>2, <2>3, <2>4, LayersCompiled
    <2> HIDE DEF d
    <2>7. Layers(doc', <<Here'>> \o merged'[Here'], chain', res'[Here'])
      BY <1>1, <1>3, <2>5, <2>6 DEF d, s, r
    <2> QED BY <2>7 DEF Layered, Parts
  <1>6. Begun'
    BY <1>1 DEF Begun
  <1> QED BY <1>4, <1>5, <1>6 DEF ClosestInv

LEMMA ClosestFail ==
    ASSUME TypedInv, MethodsInv, ClosestInv, FailType PROVE ClosestInv'
  <1>1. /\ path # <<>> /\ Here \in Resources /\ phase = "type" /\ phase' = "traits"
        /\ path' = path /\ done' = done /\ doc' = doc /\ method' = method
        /\ applied' = applied /\ res[Here] \in SourceType /\ chain \in Seq(SourceType)
        /\ res \in [Resources -> SourceType] /\ merged \in [Resources -> Seq(Types)]
    BY InnermostTyped DEF FailType, Chained, TypedInv, InPhase, Typed
  <1>2. merged' = [merged EXCEPT ![Here] = <<>>]
    BY DEF FailType
  <1>3. PICK failure : res' = Note(Here, {failure})
    BY DEF FailType
  <1>4. TypedInv' /\ Here' = Here /\ Untouched(res'[Here])
    BY TypesTyped, TypeStepStays DEF TypeStep
  <1> DEFINE source == [res[Here] EXCEPT !.failed = @ \cup {failure}]  old == res[Here]
  <1>5. res' = [res EXCEPT ![Here] = source]
    BY <1>3 DEF Note
  <1>6. source.ops = res[Here].ops /\ source.is = res[Here].is
    BY <1>1 DEF SourceType
  <1> HIDE DEF source
  <1>7. res'[Here] = source /\ \A q \in Resources \ {Here} : res'[q] = res[q]
    BY <1>1, <1>5
  <1>8. OwnRefs' /\ Waiting' /\ Ended'
    <2>1. \A m \in DOMAIN res[Here].ops : res[Here].ops[m].is =
                IF m \in DOMAIN doc[Here].ops THEN Refs(doc[Here].ops[m], Here, m) ELSE <<>>
      BY <1>1 DEF ClosestInv, OwnRefs
    <2>2. \A q \in Resources \ {Here} : merged'[q] = merged[q]
      BY <1>1, <1>2
    <2> QED BY <1>1, <1>6, <1>7, <2>1, <2>2, OthersKept
  <1>9. Begun'
    <2> DEFINE r == Here  b == merged[r]  T == <<r>> \o b  U == <<r>> \o <<>>  n == Len(chain)
    <2>1. b \in Seq(Types) /\ Len(chain) = Len(b) /\ n \in Nat /\ <<>> \in Seq(Types)
      BY <1>1, LenProperties DEF MethodsInv, ChainBrings, TypesOf
    <2>2. Layers(doc, T, chain, res[Here])
      BY <1>1 DEF ClosestInv, Layered, Parts
    <2> DEFINE e == <<>>
    <2>3. /\ T \in Seq(Resources \cup Types) /\ Len(T) = Len(b) + 1 /\ T[1] = r
          /\ U \in Seq(Resources \cup Types) /\ Len(U) = 1 /\ U[1] = r
      <3>1. T \in Seq(Resources \cup Types) /\ Len(T) = Len(b) + 1 /\ T[1] = r
        BY <1>1, <2>1, PartsFacts
      <3> DEFINE c == <<>>
      <3>2. c \in Seq(Types) /\ Len(c) + 1 = 1
        BY <2>1
      <3> HIDE DEF c
      <3>3. <<r>> \o c \in Seq(Resources \cup Types) /\ Len(<<r>> \o c) = Len(c) + 1
            /\ (<<r>> \o c)[1] = r
        BY <1>1, <3>2, PartsFacts
      <3> QED BY <3>1, <3>2, <3>3 DEF c
    <2> HIDE DEF T, U
    <2>4. Stands(doc, T, 1, 1, res[Here])
      <3>1. Stands(doc, T, 0 + 1, IF 0 = n THEN Len(T) ELSE 0 + 1, res[Here])
        <4>1. 0 \in 0..n
          BY <2>1
        <4> QED BY <2>2, <4>1 DEF Layers
      <3>2. (IF 0 = n THEN Len(T) ELSE 0 + 1) = 1 /\ 0 + 1 = 1
        BY <2>1, <2>3
      <3> QED BY <3>1, <3>2
    <2>5. Stands(doc, U, 1, 1, res[Here])
      <3>1. 1 \in Nat \ {0} /\ 1 <= Len(T) /\ 1 <= Len(U) /\ \A i \in 1..1 : T[i] = U[i]
        BY <2>1, <2>3
      <3> QED BY <2>3, <2>4, <3>1, StandsLocal
    <2>6. Stands(doc, U, 1, Len(U), source)
      BY <1>6, <2>3, <2>5 DEF Stands
    <2>7. merged'[Here] = <<>> /\ source \in SourceType
      BY <1>1, <1>2, <1>4, <1>7 DEF TypedInv, Typed
    <2>8. Stands(doc, <<Here>> \o <<>>, 1, Len(<<Here>> \o <<>>), res'[Here])
      BY <1>7, <2>6 DEF U
    <2>9. Begun
      BY DEF ClosestInv
    <2> HIDE DEF r
    <2> DEFINE s == res'[Here]
    <2>10. s \in SourceType /\ Untouched(s) /\ s = res'[Here]
      BY <1>4, <1>7, <2>7
    <2> QED BY <1>1, <1>4, <2>1, <2>7, <2>8, <2>9, <2>10, TraitsBegin
  <1>10. Layered'
    BY <1>1 DEF Layered
  <1> QED BY <1>8, <1>9, <1>10 DEF ClosestInv

LEMMA ClosestEndChain ==
    ASSUME TypedInv, MethodsInv, ClosestInv, EndChain PROVE ClosestInv'
  <1>1. /\ path # <<>> /\ Here \in Resources /\ phase = "type"
        /\ phase' = IF chain = <<>> THEN "traits" ELSE "merge"
        /\ path' = path /\ done' = done /\ doc' = doc /\ res' = res /\ merged' = merged
        /\ applied' = applied /\ method' = method /\ applied = {}
        /\ chain' = chain /\ chain \in Seq(SourceType) /\ merged \in [Resources -> Seq(Types)]
        /\ res[Here] \in SourceType /\ Here' = Here /\ Untouched(res[Here])
    BY InnermostTyped, TypeStepStays
    DEF EndChain, TypedInv, InPhase, Typed, ClosestInv, Begun, TypeStep
  <1>2. OwnRefs' /\ Waiting' /\ Ended'
    <2>1. \A m \in DOMAIN res[Here].ops : res[Here].ops[m].is =
                IF m \in DOMAIN doc[Here].ops THEN Refs(doc[Here].ops[m], Here, m) ELSE <<>>
      BY <1>1 DEF ClosestInv, OwnRefs
    <2> QED BY <1>1, <2>1, OthersKept
  <1>3. Layers(doc, Parts(Here), chain, res[Here])
    BY <1>1 DEF ClosestInv, Layered
  <1>4. Layered'
    BY <1>1, <1>3 DEF Layered, Parts
  <1>5. Begun'
    <2>1. CASE chain # <<>>
      BY <1>1, <2>1 DEF Begun
    <2>2. CASE chain = <<>>
      <3>1. Stands(doc, Parts(Here), 1, Len(Parts(Here)), res[Here])
        <4> DEFINE T == Parts(Here)  s == res[Here]
        <4>1. Layers(doc, T, chain, s) /\ Len(chain) = 0 /\ 0 \in 0..0 /\ 0 + 1 = 1
          BY <1>3, <2>2
        <4> HIDE DEF T, s
        <4>2. Stands(doc, T, 1, Len(T), s)
          BY <4>1 DEF Layers
        <4> QED BY <4>2 DEF T, s
      <3>2. Begun /\ phase' = "traits" /\ merged[Here] \in Seq(Types)
        BY <1>1, <2>2 DEF ClosestInv
      <3> DEFINE s == res[Here]  b == merged[Here]
      <3>3. Stands(doc, <<Here>> \o b, 1, Len(<<Here>> \o b), s)
        BY <3>1 DEF Parts
      <3>4. s = res'[Here] /\ merged'[Here] = b /\ s \in SourceType /\ b \in Seq(Types)
            /\ Untouched(s)
        BY <1>1, <3>2
      <3> HIDE DEF s, b
      <3> QED BY <1>1, <3>2, <3>3, <3>4, TraitsBegin
    <2> QED BY <2>1, <2>2
  <1> QED BY <1>2, <1>4, <1>5 DEF ClosestInv

LEMMA ClosestMerge ==
    ASSUME TypedInv, MethodsInv, ClosestInv, MergeType PROVE ClosestInv'
  <1>1. /\ path # <<>> /\ Here \in Resources /\ phase = "merge" /\ Here \in OnPath
        /\ path' = path /\ done' = done /\ doc' = doc /\ merged' = merged
        /\ applied' = applied /\ method' = method /\ applied = {}
        /\ res \in [Resources -> SourceType] /\ res[Here] \in SourceType
        /\ chain \in Seq(SourceType) /\ merged \in [Resources -> Seq(Types)]
    BY InnermostTyped, PathEnds
    DEF MergeType, TypedInv, InPhase, Typed, ClosestInv, Begun
  <1>2. Here' = Here /\ Untouched(res'[Here])
    BY TypeStepStays DEF TypeStep
  <1> DEFINE r == Here  b == merged[r]  T == <<r>> \o b  s == res[r]  n == Len(chain)
  <1>3. /\ b \in Seq(Types) /\ chain # <<>> /\ n <= Len(b) /\ n \in Nat /\ Len(b) \in Nat
        /\ n # 0
    BY <1>1, LenProperties, EmptySeq DEF MethodsInv, ChainBrings, TypesOf
  <1>4. T \in Seq(Resources \cup Types) /\ Len(T) = Len(b) + 1 /\ Len(T) \in Nat
        /\ n < Len(T)
    <2>1. T \in Seq(Resources \cup Types) /\ Len(T) = Len(b) + 1
      BY <1>1, <1>3, PartsFacts
    <2> HIDE DEF T, b, n
    <2> QED BY <1>3, <2>1
  <1>5. Layers(doc, T, chain, s)
    BY <1>1 DEF ClosestInv, Layered, Parts
  <1>6. DOMAIN s.ops = DOMAIN doc[r].ops
    <2>1. ~Compiled(Here)
      BY <1>1 DEF Compiled
    <2> QED BY <1>1, <2>1 DEF MethodsInv, AsDeclared
  <1>7. \A m \in DOMAIN s.ops : s.ops[m].is = Refs(doc[r].ops[m], r, m)
    BY <1>1, <1>6 DEF ClosestInv, OwnRefs
  <1>8. CASE n = 1
    <2> DEFINE new == Merge(s, chain[1])
    <2>1. res' = [res EXCEPT ![r] = new] /\ phase' = "traits"
      BY <1>8 DEF MergeType
    <2>2. chain[1] \in SourceType /\ Stands(doc, T, 1, Len(T), new)
      <3>1. 1 < Len(T) /\ s \in SourceType /\ Len(T) \in Nat /\ Len(chain) = 1
        BY <1>1, <1>4, <1>8
      <3> HIDE DEF T, s
      <3> QED BY <1>1, <1>5, <3>1, LayersEnded
    <2>3. /\ DOMAIN new.ops = DOMAIN s.ops \cup DOMAIN chain[1].ops /\ new.is = s.is
          /\ \A m \in DOMAIN s.ops : new.ops[m].is = s.ops[m].is
          /\ \A m \in DOMAIN chain[1].ops \ DOMAIN s.ops : new.ops[m].is = <<>>
      <3>1. s \in SourceType
        BY <1>1
      <3> HIDE DEF s
      <3> QED BY <2>2, <3>1, MergeFacts
    <2>4. new \in SourceType
      BY <1>1, <2>2, MergeTyped
    <2> HIDE DEF new
    <2>5. res'[r] = new /\ \A q \in Resources \ {r} : res'[q] = res[q]
      BY <1>1, <2>1
    <2>6. OwnRefs' /\ Waiting' /\ Ended'
      <3>1. \A m \in DOMAIN new.ops : new.ops[m].is =
                IF m \in DOMAIN doc[Here].ops THEN Refs(doc[Here].ops[m], Here, m) ELSE <<>>
        BY <1>6, <1>7, <2>3
      <3> QED BY <1>1, <2>1, <2>3, <2>5, <3>1, OthersKept
    <2>7. Begun'
      <3>1. Begun /\ merged'[Here] = b
        BY <1>1 DEF ClosestInv
      <3>2. new = res'[Here] /\ Untouched(new) /\ b \in Seq(Types) /\ phase \in {"type", "merge"}
            /\ Stands(doc, <<Here>> \o b, 1, Len(<<Here>> \o b), new)
        BY <1>1, <1>2, <1>3, <2>2, <2>5
      <3> HIDE DEF b
      <3> QED BY <1>1, <2>1, <2>4, <3>1, <3>2, TraitsBegin
    <2>8. Layered'
      BY <2>1 DEF Layered
    <2> QED BY <2>6, <2>7, <2>8 DEF ClosestInv
  <1>9. CASE n # 1
    <2> DEFINE e == Merge(chain[n - 1], chain[n])
    <2>1. chain' = PairAs(chain, e) /\ res' = res /\ phase' = phase
      <3> DEFINE shorter == SubSeq(chain, 1, n - 1)
      <3>1. /\ chain' = [shorter EXCEPT ![n - 1] = Merge(shorter[n - 1], chain[n])]
            /\ res' = res /\ phase' = phase
        BY <1>9 DEF MergeType
      <3>2. n - 1 \in 1..(n - 1)
        <4>1. \A k \in Nat : k # 0 /\ k # 1 => k - 1 \in 1..(k - 1)
          OBVIOUS
        <4> QED BY <1>3, <1>9, <4>1
      <3>3. shorter[n - 1] = chain[n - 1]
        BY <1>1, <1>3, <3>2, LastReplaced DEF Front
      <3> QED BY <3>1, <3>3 DEF PairAs
    <2>2. OwnRefs' /\ Waiting' /\ Ended'
      <3>1. \A m \in DOMAIN s.ops : s.ops[m].is =
                IF m \in DOMAIN doc[Here].ops THEN Refs(doc[Here].ops[m], Here, m) ELSE <<>>
        BY <1>6, <1>7
      <3> QED BY <1>1, <2>1, <3>1, OthersKept
    <2>3. Layers(doc, T, PairAs(chain, e), s)
      <3> HIDE DEF T, s
      <3> QED BY <1>1, <1>3, <1>4, <1>5, <1>9, LayersMerged
    <2> HIDE DEF e
    <2>4. Layered'
      <3>1. Layers(doc', <<Here'>> \o merged'[Here'], chain', res'[Here'])
        BY <1>1, <1>2, <2>1, <2>3
      <3> QED BY <3>1 DEF Layered, Parts
    <2>5. Begun'
      BY <1>1, <2>1 DEF Begun
    <2> QED BY <2>2, <2>4, <2>5 DEF ClosestInv
  <1> QED BY <1>8, <1>9

(* A step of apply_traits at the method w.                                 *)
LEMMA BegunSteps ==
    ASSUME TypedInv, Begun, phase = "traits", phase' = "traits", Here' = Here,
           Here \in Resources, doc' = doc, merged' = merged,
           res'[Here].is = res[Here].is, res'[Here].rtIs = res[Here].rtIs,
           DOMAIN res'[Here].ops = DOMAIN res[Here].ops,
           NEW w \in DOMAIN res[Here].ops, method \in {w, None}, method' \in {w, None},
           applied \subseteq applied', applied' \subseteq applied \cup {w},
           method' \notin applied', w \in applied' \/ w = method',
           \A m \in DOMAIN res[Here].ops \ {w} : res'[Here].ops[m] = res[Here].ops[m],
           res'[Here].ops[w].is = res[Here].ops[w].is,
           res'[Here].ops[w].rtIs = res[Here].ops[w].rtIs,
           Stays(doc, Parts(Here), w, res'[Here].ops[w].content),
           NEW q, w = method' => q = <<queue', nested'>>, w # method' => q = <<<<>>, <<>>>>,
           Reached(doc, Parts(Here), w, InPriorityOrder(Here, w),
                   res'[Here].ops[w].taken, res'[Here].ops[w].content, q[1], q[2])
    PROVE  Begun'
  <1>1. None \notin DOMAIN res[Here].ops
    <2>1. res[Here] \in SourceType
      BY DEF TypedInv, Typed
    <2> QED BY <2>1, OpsTyped, NoneAssumption DEF SourceType
  <1> DEFINE T == <<Here'>> \o merged'[Here']
             direct(m) == res'[Here'].ops[m].is \o res'[Here'].is \o res'[Here'].ops[m].rtIs
                             \o res'[Here'].rtIs
             content(m) == res'[Here'].ops[m].content
             taken(m) == res'[Here'].ops[m].taken
  <1>2. T = Parts(Here) /\ \A m \in DOMAIN res[Here].ops : direct(m) = InPriorityOrder(Here, m)
    BY DEF Parts, InPriorityOrder
  <1>3. ASSUME NEW m \in DOMAIN res[Here].ops, m # w
        PROVE  /\ Stays(doc, T, m, content(m))
               /\ m \in applied' => Reached(doc, T, m, direct(m), taken(m), content(m), <<>>, <<>>)
               /\ m # method'
               /\ m \notin applied' => taken(m) = {} /\ Says(doc, T, m, 1, Len(T), content(m))
    <2>1. m # method /\ m # method' /\ (m \in applied' <=> m \in applied)
      BY <1>1, <1>3
    <2>2. content(m) = res[Here].ops[m].content /\ taken(m) = res[Here].ops[m].taken
      BY <1>3
    <2>3. /\ Stays(doc, Parts(Here), m, res[Here].ops[m].content)
          /\ m \in applied => Through(Here, m, <<>>, <<>>)
          /\ m \notin applied =>
                /\ res[Here].ops[m].taken = {}
                /\ Says(doc, Parts(Here), m, 1, Len(Parts(Here)), res[Here].ops[m].content)
      BY <2>1 DEF Begun
    <2> HIDE DEF T, direct, content, taken
    <2> QED BY <1>2, <2>1, <2>2, <2>3 DEF Through
  <1>4. /\ Stays(doc, T, w, content(w))
        /\ w \in applied' => Reached(doc, T, w, direct(w), taken(w), content(w), <<>>, <<>>)
        /\ w = method' => Reached(doc, T, w, direct(w), taken(w), content(w), queue', nested')
    <2>1. /\ w \in applied' => q[1] = <<>> /\ q[2] = <<>>
          /\ w = method' => q[1] = queue' /\ q[2] = nested'
      OBVIOUS
    <2>2. taken(w) = res'[Here].ops[w].taken /\ content(w) = res'[Here].ops[w].content
      OBVIOUS
    <2> HIDE DEF T, direct, content, taken
    <2> QED BY <1>2, <2>1, <2>2
  <1>5. ASSUME NEW m \in DOMAIN res'[Here'].ops
        PROVE  /\ Stays(doc', T, m, content(m))
               /\ m \in applied' => Reached(doc', T, m, direct(m), taken(m), content(m), <<>>, <<>>)
               /\ m \notin applied' /\ m = method' =>
                    Reached(doc', T, m, direct(m), taken(m), content(m), queue', nested')
               /\ m \notin applied' /\ m # method' =>
                    taken(m) = {} /\ Says(doc', T, m, 1, Len(T), content(m))
    <2>1. m \in DOMAIN res[Here].ops
      OBVIOUS
    <2> HIDE DEF T, direct, content, taken
    <2> QED BY <1>3, <1>4, <2>1
  <1> QED BY <1>5 DEF Begun, Through, Parts, InPriorityOrder

LEMMA TraitsKeep ==
    ASSUME TypedInv, ClosestInv, TraitStep, ~BindUnapplied, Begun',
           \A m \in DOMAIN res[Here].ops : res'[Here].ops[m].is = res[Here].ops[m].is
    PROVE  ClosestInv'
  <1>1. /\ path # <<>> /\ Here \in Resources /\ Here' = Here /\ phase = "traits"
        /\ path' = path /\ done' = done /\ doc' = doc /\ merged' = merged
        /\ \A q \in Resources \ {Here} : res'[q] = res[q]
        /\ DOMAIN res'[Here].ops = DOMAIN res[Here].ops /\ res'[Here].is = res[Here].is
    BY TraitStepStays
  <1>2. phase' = "traits"
    BY <1>1, TraitStepTakes
  <1>3. \A m \in DOMAIN res[Here].ops : res[Here].ops[m].is =
                IF m \in DOMAIN doc[Here].ops THEN Refs(doc[Here].ops[m], Here, m) ELSE <<>>
    BY <1>1 DEF ClosestInv, OwnRefs
  <1>4. OwnRefs' /\ Waiting' /\ Ended'
    BY <1>1, <1>2, <1>3, OthersKept
  <1>5. Layered'
    BY <1>2 DEF Layered
  <1> QED BY <1>4, <1>5 DEF ClosestInv

(* The operation being worked on, replaced.                                *)
LEMMA OperationChanged ==
    ASSUME TypedInv, path # <<>>, NEW m \in DOMAIN res[Here].ops, NEW o,
           res' = With(Here, m, o)
    PROVE  \A k \in DOMAIN res[Here].ops :
                res'[Here].ops[k] = IF k = m THEN o ELSE res[Here].ops[k]
  <1> DEFINE ops == res[Here].ops  changed == [ops EXCEPT ![m] = o]
             source == [res[Here] EXCEPT !.ops = changed]
  <1>1. Here \in Resources /\ res[Here] \in SourceType /\ res \in [Resources -> SourceType]
    BY InnermostTyped DEF TypedInv, Typed
  <1>2. \A k \in DOMAIN ops : changed[k] = IF k = m THEN o ELSE ops[k]
    <2>1. ops = [k \in DOMAIN ops |-> ops[k]]
      BY <1>1, OpsTyped DEF SourceType
    <2> QED BY <2>1
  <1>3. res' = [res EXCEPT ![Here] = source]
    BY DEF With
  <1> HIDE DEF changed
  <1>4. source.ops = changed
    BY <1>1 DEF SourceType
  <1> HIDE DEF source
  <1>5. res'[Here] = source
    BY <1>1, <1>3
  <1> QED BY <1>2, <1>4, <1>5

LEMMA ClosestStart ==
    ASSUME TypedInv, ClosestInv, StartMethod PROVE ClosestInv'
  <1>1. TraitStep /\ ~BindUnapplied /\ phase' = phase /\ res' = res
    <2>1. method' # None
      <3>1. PICK m \in DOMAIN res[Here].ops : method' = m
        BY DEF StartMethod
      <3>2. phase = "traits" /\ path # <<>>
        BY DEF StartMethod, TypedInv, InPhase
      <3>3. DOMAIN res[Here].ops \subseteq Methods
        BY <3>2, InnermostTyped, OpsTyped DEF SourceType
      <3> QED BY <3>1, <3>3, NoneAssumption
    <2>2. TraitStep /\ phase' = phase /\ res' = res
      BY DEF StartMethod, TraitStep
    <2> QED BY <2>1, <2>2 DEF BindUnapplied, StartMethod
  <1>2. /\ path # <<>> /\ Here \in Resources /\ Here' = Here /\ phase = "traits"
        /\ doc' = doc /\ merged' = merged /\ applied' = applied /\ method = None
        /\ nested = <<>> /\ nested' = <<>> /\ res \in [Resources -> SourceType]
        /\ merged \in [Resources -> Seq(Types)]
    BY <1>1, TraitStepStays DEF StartMethod, TypedInv, InPhase, Typed
  <1>3. PICK w \in DOMAIN res[Here].ops :
            w \notin applied /\ method' = w /\ queue' = InPriorityOrder(Here, w)
    BY DEF StartMethod
  <1>4. w # None
    BY <1>1, <1>2, <1>3, OpsTyped, NoneAssumption DEF SourceType
  <1> DEFINE T == Parts(Here)  direct == InPriorityOrder(Here, w)
             content == res[Here].ops[w].content  taken == res[Here].ops[w].taken
  <1>5. Stays(doc, T, w, content) /\ taken = {} /\ Says(doc, T, w, 1, Len(T), content)
    BY <1>2, <1>3, <1>4 DEF ClosestInv, Begun
  <1>6. Len(T) \in Nat /\ direct \in Seq(Reaching(w))
    <2>1. direct \in Seq(Reaching(w))
      BY <1>2, QueueTyped
    <2> DEFINE b == merged[Here]
    <2>2. b \in Seq(Types) /\ T = <<Here>> \o b
      BY <1>2 DEF Parts
    <2> HIDE DEF b, T
    <2>3. Len(T) = Len(b) + 1 /\ Len(b) \in Nat
      BY <1>2, <2>2, PartsFacts
    <2> QED BY <2>1, <2>3
  <1> HIDE DEF T, direct, content, taken
  <1>7. Reached(doc, T, w, direct, taken, content, direct, <<>>)
    <2>1. InOrder(doc, T, w, direct, {}, content, <<>>, 0, direct, <<>>)
      BY <1>5, <1>6, OrderBegins
    <2>2. 0 \in Nat
      OBVIOUS
    <2> QED BY <1>5, <2>1, <2>2 DEF Reached
  <1>8. Begun'
    <2> DEFINE q == <<direct, <<>>>>
    <2>1. q[1] = direct /\ q[2] = <<>> /\ q = <<queue', nested'>>
      BY <1>2, <1>3 DEF direct
    <2>2. /\ Reached(doc, Parts(Here), w, InPriorityOrder(Here, w),
                     res'[Here].ops[w].taken, res'[Here].ops[w].content, q[1], q[2])
          /\ Stays(doc, Parts(Here), w, res'[Here].ops[w].content)
      BY <1>1, <1>5, <1>7, <2>1 DEF T, direct, content, taken
    <2> HIDE DEF q
    <2>3. Begun
      BY DEF ClosestInv
    <2> QED BY <1>1, <1>2, <1>3, <2>1, <2>2, <2>3, BegunSteps
  <1> QED BY <1>1, <1>8, TraitsKeep

(* A step that deals with the reference at the head of the queue, or ends  *)
(* a distance.                                                             *)
LEMMA MethodStep ==
    ASSUME TypedInv, ClosestInv, phase = "traits", method # None
    PROVE  /\ path # <<>> /\ Here \in Resources /\ method \in DOMAIN res[Here].ops
           /\ method \notin applied /\ Op \in OperationType(method)
           /\ InPriorityOrder(Here, method) \in Seq(Reaching(method))
           /\ queue \in Seq(Reaching(method)) /\ nested \in Seq(Reaching(method))
           /\ Stays(doc, Parts(Here), method, Op.content)
           /\ \E d \in Nat : \E L :
                InOrder(doc, Parts(Here), method, InPriorityOrder(Here, method), Op.taken,
                        Op.content, L, d, queue, nested)
  <1>1. /\ path # <<>> /\ Here \in Resources /\ method \in DOMAIN res[Here].ops
        /\ queue \in Seq(Reaching(method)) /\ nested \in Seq(TraitRef(method))
        /\ res[Here] \in SourceType /\ res \in [Resources -> SourceType]
    BY InnermostTyped DEF TypedInv, InPhase, Typed
  <1>2. method \notin applied /\ Stays(doc, Parts(Here), method, Op.content)
        /\ Through(Here, method, queue, nested)
    BY <1>1 DEF ClosestInv, Begun, Op
  <1>3. InPriorityOrder(Here, method) \in Seq(Reaching(method))
    BY <1>1, QueueTyped
  <1>4. Op \in OperationType(method)
    BY <1>1, OpsTyped DEF SourceType, Op
  <1>5. nested \in Seq(Reaching(method))
    BY <1>1, SeqsGrow DEF Reaching
  <1> QED BY <1>1, <1>2, <1>3, <1>4, <1>5 DEF Through, Reached, Op

LEMMA MethodKept ==
    ASSUME TypedInv, ClosestInv, phase = "traits", method # None, TraitStep, ~BindUnapplied,
           applied' = applied, method' = method,
           NEW o, \A k \in DOMAIN res[Here].ops :
                    res'[Here].ops[k] = IF k = method THEN o ELSE res[Here].ops[k],
           o.is = Op.is, o.rtIs = Op.rtIs,
           Stays(doc, Parts(Here), method, o.content),
           NEW d \in Nat, NEW L,
           InOrder(doc, Parts(Here), method, InPriorityOrder(Here, method), o.taken,
                   o.content, L, d, queue', nested')
    PROVE  ClosestInv'
  <1>1. /\ path # <<>> /\ Here \in Resources /\ Here' = Here
        /\ doc' = doc /\ merged' = merged
        /\ DOMAIN res'[Here].ops = DOMAIN res[Here].ops /\ res'[Here].is = res[Here].is
        /\ res'[Here].rtIs = res[Here].rtIs
    BY TraitStepStays
  <1>2. phase' = "traits"
    BY TraitStepTakes
  <1>3. method \in DOMAIN res[Here].ops /\ method \notin applied
    BY MethodStep
  <1>4. Reached(doc, Parts(Here), method, InPriorityOrder(Here, method), o.taken,
                o.content, queue', nested')
    BY DEF Reached
  <1>5. res'[Here].ops[method] = o /\ res[Here].ops[method] = Op
    BY <1>3 DEF Op
  <1>6. Begun'
    <2> DEFINE q == <<queue', nested'>>  w == method
    <2>1. q[1] = queue' /\ q[2] = nested' /\ q = <<queue', nested'>>
      OBVIOUS
    <2>2. /\ Reached(doc, Parts(Here), w, InPriorityOrder(Here, w),
                     res'[Here].ops[w].taken, res'[Here].ops[w].content, q[1], q[2])
          /\ Stays(doc, Parts(Here), w, res'[Here].ops[w].content)
      BY <1>4, <1>5, <2>1
    <2>3. Begun
      BY DEF ClosestInv
    <2>4. /\ w \in DOMAIN res[Here].ops /\ w = method /\ w \notin applied
          /\ \A m \in DOMAIN res[Here].ops \ {w} : res'[Here].ops[m] = res[Here].ops[m]
          /\ res'[Here].ops[w].is = res[Here].ops[w].is
          /\ res'[Here].ops[w].rtIs = res[Here].ops[w].rtIs
          /\ method' = w
      BY <1>3, <1>5
    <2> HIDE DEF q, w
    <2> QED BY <1>1, <1>2, <2>1, <2>2, <2>3, <2>4, BegunSteps
  <1>7. \A m \in DOMAIN res[Here].ops : res'[Here].ops[m].is = res[Here].ops[m].is
    BY <1>5
  <1> QED BY <1>6, <1>7, TraitsKeep

LEMMA ClosestSkip == ASSUME TypedInv, ClosestInv, SkipTrait PROVE ClosestInv'
  <1>1. /\ phase = "traits" /\ method # None /\ queue # <<>> /\ queue' = Tail(queue)
        /\ Head(queue).name \in Seen(Here, method) /\ nested' = nested /\ res' = res
        /\ applied' = applied /\ method' = method /\ phase' = phase
    BY DEF SkipTrait, Taking
  <1>2. TraitStep /\ ~BindUnapplied
    BY <1>1 DEF TraitStep, BindUnapplied
  <1> DEFINE T == Parts(Here)  direct == InPriorityOrder(Here, method)
  <1>3. /\ direct \in Seq(Reaching(method)) /\ queue \in Seq(Reaching(method))
        /\ nested \in Seq(Reaching(method)) /\ Stays(doc, T, method, Op.content)
        /\ method \in DOMAIN res[Here].ops
    BY <1>1, MethodStep
  <1>4. PICK d \in Nat : \E L :
            InOrder(doc, T, method, direct, Op.taken, Op.content, L, d, queue, nested)
    BY <1>1, MethodStep
  <1>5. PICK L :
            InOrder(doc, T, method, direct, Op.taken, Op.content, L, d, queue, nested)
    BY <1>4
  <1>6. Head(queue).name \in Named(Op.taken)
    BY <1>1 DEF Seen, Named, Op
  <1>7. InOrder(doc, T, method, direct, Op.taken, Op.content, L, d, queue', nested')
    <2> HIDE DEF T, direct
    <2>1. InOrder(doc, T, method, direct, Op.taken, Op.content, L, d, Tail(queue), nested)
      BY <1>1, <1>3, <1>5, <1>6, OrderSkips
    <2> QED BY <1>1, <2>1
  <1> DEFINE o == Op
  <1>8. \A k \in DOMAIN res[Here].ops :
            res'[Here].ops[k] = IF k = method THEN o ELSE res[Here].ops[k]
    BY <1>1 DEF Op
  <1>9. /\ o.is = Op.is /\ o.rtIs = Op.rtIs /\ Stays(doc, T, method, o.content)
        /\ InOrder(doc, T, method, direct, o.taken, o.content, L, d, queue', nested')
    BY <1>3, <1>7
  <1> HIDE DEF o
  <1> QED BY <1>1, <1>2, <1>8, <1>9, MethodKept

LEMMA ClosestFails == ASSUME TypedInv, ClosestInv, FailTrait PROVE ClosestInv'
  <1> DEFINE ref == Head(queue)  failure == Failure(Here, ref)
             o == [Op EXCEPT !.taken = Op.taken \cup {ref}, !.failed = Op.failed \cup {failure}]
  <1>1. /\ phase = "traits" /\ method # None /\ queue # <<>> /\ queue' = Tail(queue)
        /\ ref.name \notin Seen(Here, method) /\ nested' = nested
        /\ applied' = applied /\ method' = method /\ phase' = phase
        /\ res' = With(Here, method, o)
        /\ ~(Found(ref) # None /\ TraitAccepts(Found(ref), ref))
    BY DEF FailTrait, Taking, With
  <1>2. TraitStep /\ ~BindUnapplied
    BY <1>1 DEF TraitStep, BindUnapplied
  <1> DEFINE T == Parts(Here)  direct == InPriorityOrder(Here, method)
  <1>3. /\ direct \in Seq(Reaching(method)) /\ queue \in Seq(Reaching(method))
        /\ nested \in Seq(Reaching(method)) /\ Stays(doc, T, method, Op.content)
        /\ method \in DOMAIN res[Here].ops /\ Op \in OperationType(method)
        /\ path # <<>>
    BY <1>1, MethodStep
  <1>4. PICK d \in Nat : \E L :
            InOrder(doc, T, method, direct, Op.taken, Op.content, L, d, queue, nested)
    BY <1>1, MethodStep
  <1>5. PICK L :
            InOrder(doc, T, method, direct, Op.taken, Op.content, L, d, queue, nested)
    BY <1>4
  <1>6. ref.name \notin Named(Op.taken)
    BY <1>1 DEF Seen, Named, Op
  <1>7. o.is = Op.is /\ o.rtIs = Op.rtIs /\ o.content = Op.content
        /\ o.taken = Op.taken \cup {ref}
    <2> HIDE DEF ref, failure
    <2> QED BY <1>3 DEF OperationType
  <1> HIDE DEF o
  <1>8. InOrder(doc, T, method, direct, o.taken, o.content, L, d, queue', nested')
    <2>1. ~(Found(Head(queue)) # None /\ Accepts(doc[Found(Head(queue))].vars, {}, Head(queue)))
      BY <1>1 DEF TraitAccepts
    <2> HIDE DEF T, direct
    <2>2. InOrder(doc, T, method, direct, Op.taken \cup {Head(queue)}, Op.content, L, d,
                  Tail(queue), nested)
      BY <1>1, <1>3, <1>5, <1>6, <2>1, OrderFails
    <2> QED BY <1>1, <1>7, <2>2
  <1>9. \A k \in DOMAIN res[Here].ops :
            res'[Here].ops[k] = IF k = method THEN o ELSE res[Here].ops[k]
    BY <1>1, <1>3, OperationChanged
  <1>10. Stays(doc, T, method, o.content)
    BY <1>3, <1>7
  <1> QED BY <1>1, <1>2, <1>7, <1>8, <1>9, <1>10, MethodKept

LEMMA ClosestNext == ASSUME TypedInv, ClosestInv, NextDistance PROVE ClosestInv'
  <1> DEFINE o == [Op EXCEPT !.nested = Op.nested \cup ToSet(nested)]
  <1>1. /\ phase = "traits" /\ method # None /\ queue = <<>> /\ queue' = nested
        /\ nested' = <<>> /\ applied' = applied /\ method' = method /\ phase' = phase
        /\ nested # <<>> /\ res' = With(Here, method, o)
    BY DEF NextDistance, With
  <1>2. TraitStep /\ ~BindUnapplied
    BY <1>1 DEF TraitStep, BindUnapplied
  <1> DEFINE T == Parts(Here)  direct == InPriorityOrder(Here, method)
  <1>3. /\ direct \in Seq(Reaching(method)) /\ nested \in Seq(Reaching(method))
        /\ Stays(doc, T, method, Op.content)
        /\ method \in DOMAIN res[Here].ops /\ Op \in OperationType(method)
        /\ path # <<>>
    BY <1>1, MethodStep
  <1>4. PICK d \in Nat : \E L :
            InOrder(doc, T, method, direct, Op.taken, Op.content, L, d, <<>>, nested)
    BY <1>1, MethodStep
  <1>5. PICK L :
            InOrder(doc, T, method, direct, Op.taken, Op.content, L, d, <<>>, nested)
    BY <1>4
  <1>6. o.is = Op.is /\ o.rtIs = Op.rtIs /\ o.content = Op.content /\ o.taken = Op.taken
    BY <1>3 DEF OperationType
  <1> HIDE DEF o
  <1> DEFINE e == d + 1
  <1>7. e \in Nat /\ InOrder(doc, T, method, direct, o.taken, o.content, L, e, queue', nested')
    <2> HIDE DEF T, direct
    <2>1. InOrder(doc, T, method, direct, Op.taken, Op.content, L, d + 1, nested, <<>>)
      BY <1>3, <1>5, OrderNext
    <2> QED BY <1>1, <1>6, <2>1
  <1>8. \A k \in DOMAIN res[Here].ops :
            res'[Here].ops[k] = IF k = method THEN o ELSE res[Here].ops[k]
    BY <1>1, <1>3, OperationChanged
  <1>9. Stays(doc, T, method, o.content)
    BY <1>3, <1>6
  <1> HIDE DEF e
  <1> QED BY <1>1, <1>2, <1>6, <1>7, <1>8, <1>9, MethodKept

LEMMA ClosestApplies == ASSUME TypedInv, ClosestInv, ApplyTrait PROVE ClosestInv'
  <1> DEFINE ref == Head(queue)  t == Found(ref)  adds == [f \in doc[t].writes |-> t]
             content == Under(Op.content, adds)
             o == [Op EXCEPT !.taken = Op.taken \cup {ref}, !.content = content]
  <1>1. /\ phase = "traits" /\ method # None /\ queue # <<>> /\ queue' = Tail(queue)
        /\ ref.name \notin Seen(Here, method)
        /\ nested' = nested \o Refs(doc[t], t, method)
        /\ applied' = applied /\ method' = method /\ phase' = phase
        /\ res' = With(Here, method, o)
        /\ t # None /\ TraitAccepts(t, ref)
    BY DEF ApplyTrait, Taking, With
  <1>2. TraitStep /\ ~BindUnapplied
    BY <1>1 DEF TraitStep, BindUnapplied
  <1> DEFINE T == Parts(Here)  direct == InPriorityOrder(Here, method)
  <1>3. /\ direct \in Seq(Reaching(method)) /\ queue \in Seq(Reaching(method))
        /\ nested \in Seq(Reaching(method)) /\ Stays(doc, T, method, Op.content)
        /\ method \in DOMAIN res[Here].ops /\ Op \in OperationType(method)
        /\ path # <<>>
    BY <1>1, MethodStep
  <1>4. PICK d \in Nat : \E L :
            InOrder(doc, T, method, direct, Op.taken, Op.content, L, d, queue, nested)
    BY <1>1, MethodStep
  <1>5. PICK L :
            InOrder(doc, T, method, direct, Op.taken, Op.content, L, d, queue, nested)
    BY <1>4
  <1>6. ref.name \notin Named(Op.taken)
    BY <1>1 DEF Seen, Named, Op
  <1>7. Refs(doc[t], t, method) \in Seq(Reaching(method))
    <2>1. t \in Traits
      BY <1>1, <1>3, TailSet DEF Reaching, TraitRef
    <2>2. doc \in Corpus /\ method \in Methods
      BY <1>1 DEF TypedInv, Typed
    <2>3. IsPart(doc[t], t) /\ t \in Writers
      BY <2>1, <2>2, CorpusAssumption DEF Writers
    <2> HIDE DEF t
    <2>4. Refs(doc[t], t, method) \in Seq(TraitRef(method))
      BY <2>2, <2>3, RefsTyped
    <2> QED BY <2>4, SeqsGrow DEF Reaching
  <1>8. Stays(doc, T, method, content)
    <2>1. /\ \A f \in DOMAIN Op.content : f \in DOMAIN content /\ content[f] = Op.content[f]
      <3> HIDE DEF adds
      <3>1. /\ DOMAIN content = DOMAIN Op.content \cup DOMAIN adds
            /\ \A f \in DOMAIN Op.content : content[f] = Op.content[f]
        BY UnderFacts
      <3> HIDE DEF content
      <3> QED BY <3>1
    <2> HIDE DEF content
    <2> QED BY <1>3, <2>1 DEF Stays
  <1>9. \E M : InOrder(doc, T, method, direct, Op.taken \cup {ref}, content, M, d,
                       queue', nested')
    <2>1. t = Found(Head(queue)) /\ Accepts(doc[t].vars, {}, Head(queue))
      BY <1>1 DEF TraitAccepts
    <2> DEFINE u == t
    <2>2. /\ u = Found(Head(queue)) /\ u # None /\ Accepts(doc[u].vars, {}, Head(queue))
          /\ Refs(doc[u], u, method) \in Seq(Reaching(method)) /\ u = t
      BY <1>1, <1>7, <2>1
    <2> HIDE DEF T, direct, u
    <2>3. \E M : InOrder(doc, T, method, direct, Op.taken \cup {Head(queue)},
                         Under(Op.content, [f \in doc[u].writes |-> u]), M, d, Tail(queue),
                         nested \o Refs(doc[u], u, method))
      BY <1>1, <1>3, <1>5, <1>6, <2>2, OrderApplies
    <2> QED BY <1>1, <2>2, <2>3
  <1>10. PICK M : InOrder(doc, T, method, direct, Op.taken \cup {ref}, content, M, d,
                          queue', nested')
    BY <1>9
  <1>11. o.is = Op.is /\ o.rtIs = Op.rtIs /\ o.content = content
         /\ o.taken = Op.taken \cup {ref}
    <2> HIDE DEF ref, content
    <2> QED BY <1>3 DEF OperationType
  <1>12. \A k \in DOMAIN res[Here].ops :
            res'[Here].ops[k] = IF k = method THEN o ELSE res[Here].ops[k]
    <2> HIDE DEF o
    <2> QED BY <1>1, <1>3, OperationChanged
  <1>13. /\ Stays(doc, T, method, o.content)
         /\ InOrder(doc, T, method, direct, o.taken, o.content, M, d, queue', nested')
    <2> HIDE DEF o
    <2> QED BY <1>8, <1>10, <1>11
  <1> HIDE DEF o
  <1> QED BY <1>1, <1>2, <1>11, <1>12, <1>13, MethodKept

LEMMA ClosestEndMethod == ASSUME TypedInv, ClosestInv, EndMethod PROVE ClosestInv'
  <1>1. /\ phase = "traits" /\ method # None /\ queue = <<>> /\ nested = <<>>
        /\ applied' = applied \cup {method} /\ method' = None /\ phase' = phase
        /\ res' = res
    BY DEF EndMethod
  <1>2. TraitStep /\ ~BindUnapplied
    BY <1>1 DEF TraitStep, BindUnapplied, EndMethod
  <1>3. /\ Here \in Resources /\ Here' = Here /\ doc' = doc /\ merged' = merged
        /\ DOMAIN res'[Here].ops = DOMAIN res[Here].ops
    BY <1>2, TraitStepStays
  <1>4. /\ method \in DOMAIN res[Here].ops /\ Stays(doc, Parts(Here), method, Op.content)
        /\ Reached(doc, Parts(Here), method, InPriorityOrder(Here, method), Op.taken,
                   Op.content, <<>>, <<>>)
    BY <1>1, MethodStep DEF Reached
  <1>5. None \notin applied
    BY NoneAssumption DEF TypedInv, Typed
  <1>6. Begun'
    <2> DEFINE q == <<<<>>, <<>>>>  w == method
    <2>1. q[1] = <<>> /\ q[2] = <<>> /\ q = <<<<>>, <<>>>> /\ w # method' /\ method' = None
      BY <1>1
    <2>2. /\ Reached(doc, Parts(Here), w, InPriorityOrder(Here, w),
                     res'[Here].ops[w].taken, res'[Here].ops[w].content, q[1], q[2])
          /\ Stays(doc, Parts(Here), w, res'[Here].ops[w].content)
      BY <1>1, <1>4, <2>1 DEF Op
    <2>3. Begun
      BY DEF ClosestInv
    <2>4. /\ w \in DOMAIN res[Here].ops /\ w = method /\ applied' = applied \cup {w}
          /\ method' \notin applied' /\ w \in applied'
          /\ \A m \in DOMAIN res[Here].ops \ {w} : res'[Here].ops[m] = res[Here].ops[m]
          /\ res'[Here].ops[w].is = res[Here].ops[w].is
          /\ res'[Here].ops[w].rtIs = res[Here].ops[w].rtIs
      BY <1>1, <1>4, <1>5
    <2> HIDE DEF q, w
    <2> QED BY <1>1, <1>3, <2>1, <2>2, <2>3, <2>4, BegunSteps
  <1> QED BY <1>1, <1>2, <1>6, TraitsKeep

(* With every method done, all of them are as apply_traits leaves them.    *)
LEMMA ClosestBind == ASSUME TypedInv, ClosestInv, BindUnapplied PROVE ClosestInv'
  <1>1. /\ path # <<>> /\ Here \in Resources /\ Here' = Here /\ phase = "traits"
        /\ path' = path /\ done' = done /\ doc' = doc /\ merged' = merged
        /\ \A q \in Resources \ {Here} : res'[q] = res[q]
    BY TraitStepStays DEF TraitStep
  <1>2. phase' = "children" /\ DOMAIN res[Here].ops \subseteq applied
    BY DEF BindUnapplied
  <1>3. /\ DOMAIN res'[Here].ops = DOMAIN res[Here].ops /\ res'[Here].is = res[Here].is
        /\ res'[Here].rtIs = res[Here].rtIs
        /\ \A m \in DOMAIN res[Here].ops :
            /\ res'[Here].ops[m].is = res[Here].ops[m].is
            /\ res'[Here].ops[m].rtIs = res[Here].ops[m].rtIs
            /\ res'[Here].ops[m].taken = res[Here].ops[m].taken
            /\ res'[Here].ops[m].content = res[Here].ops[m].content
    BY <1>1, UnappliedBound
  <1>4. Here \in OnPath /\ OnPath' = OnPath
    BY <1>1, PathEnds DEF TypedInv, Typed, OnPath
  <1>5. OwnRefs'
    BY <1>1, <1>3 DEF ClosestInv, OwnRefs
  <1>6. Waiting'
    BY <1>1, <1>4 DEF ClosestInv, Waiting, Parts
  <1>7. Layered' /\ Begun'
    BY <1>2 DEF Layered, Begun
  <1>8. ASSUME NEW r \in Resources, Past(r)'
        PROVE  \A m \in DOMAIN res'[r].ops :
                /\ Stays(doc', Parts(r)', m, res'[r].ops[m].content)
                /\ Through(r, m, <<>>, <<>>)'
    <2>1. CASE r # Here
      <3>1. Past(r) /\ res'[r] = res[r] /\ merged'[r] = merged[r]
        BY <1>1, <1>4, <1>8, <2>1 DEF Past
      <3> QED BY <1>1, <3>1, EndedKept DEF ClosestInv
    <2>2. CASE r = Here
      <3> SUFFICES ASSUME NEW m \in DOMAIN res[r].ops
                   PROVE  /\ Stays(doc', Parts(r)', m, res'[r].ops[m].content)
                          /\ Through(r, m, <<>>, <<>>)'
        BY <1>3, <2>2
      <3>1. Stays(doc, Parts(r), m, res[r].ops[m].content) /\ Through(r, m, <<>>, <<>>)
        BY <1>1, <1>2, <2>2 DEF ClosestInv, Begun
      <3>2. Parts(r)' = Parts(r) /\ InPriorityOrder(r, m)' = InPriorityOrder(r, m)
        BY <1>1, <1>3, <2>2 DEF Parts, InPriorityOrder
      <3> QED BY <1>1, <1>3, <2>2, <3>1, <3>2 DEF Through
    <2> QED BY <2>1, <2>2
  <1>9. Ended'
    BY <1>8 DEF Ended
  <1> QED BY <1>5, <1>6, <1>7, <1>9 DEF ClosestInv

LEMMA ClosestDown ==
    ASSUME TypedInv, Branch, MethodsInv, ClosestInv, Descend PROVE ClosestInv'
  <1>1. PICK c \in ToSet(Children[Here]) :
            /\ c \in Resources /\ c \notin OnPath \cup done /\ path' # <<>> /\ Here' = c
            /\ OnPath' = OnPath \cup {c} /\ Begin(path')
    BY StepDown
  <1>2. /\ res' = res /\ done' = done /\ doc' = doc /\ merged' = merged
        /\ phase = "children" /\ phase' = "type" /\ chain' = <<>> /\ applied' = {}
        /\ merged \in [Resources -> Seq(Types)]
    BY <1>1 DEF Descend, Begin, TypedInv, Typed
  <1>3. OwnRefs'
    BY <1>2 DEF ClosestInv, OwnRefs
  <1>4. Waiting'
    BY <1>1, <1>2 DEF ClosestInv, Waiting, Parts
  <1>5. Layered'
    <2> DEFINE b == merged[c]  T == <<c>> \o b  s == res[c]
    <2>1. merged[c] = <<>>
      BY <1>1 DEF MethodsInv, AsDeclared, Compiled
    <2>2. b = <<>> /\ b \in Seq(Types) /\ Len(b) = 0
      BY <1>1, <1>2, <2>1
    <2>3. Len(T) = 1
      <3> HIDE DEF b
      <3>1. Len(T) = 0 + 1
        BY <1>1, <2>2, PartsFacts
      <3> QED BY <3>1
    <2>4. Stands(doc, T, 1, 1, s)
      BY <1>1 DEF ClosestInv, Waiting, Parts
    <2>5. Layers(doc, T, <<>>, s)
      <3> HIDE DEF T, s
      <3> QED BY <2>3, <2>4, AloneStands
    <2>6. Layers(doc', <<Here'>> \o merged'[Here'], chain', res'[Here'])
      BY <1>1, <1>2, <2>5
    <2> QED BY <2>6 DEF Layered, Parts
  <1>6. Begun'
    BY <1>2 DEF Begun
  <1>7. ASSUME NEW r \in Resources, Past(r)'
        PROVE  \A m \in DOMAIN res'[r].ops :
                /\ Stays(doc', Parts(r)', m, res'[r].ops[m].content)
                /\ Through(r, m, <<>>, <<>>)'
    <2>1. Past(r)
      BY <1>1, <1>2, <1>7 DEF Past
    <2> QED BY <1>2, <2>1, EndedKept DEF ClosestInv
  <1>8. Ended'
    BY <1>7 DEF Ended
  <1> QED BY <1>3, <1>4, <1>5, <1>6, <1>8 DEF ClosestInv

LEMMA ClosestUp == ASSUME TypedInv, Branch, ClosestInv, Return PROVE ClosestInv'
  <1>1. /\ Here \in OnPath /\ done' = done \cup {Here} /\ OnPath' = OnPath \ {Here}
        /\ phase = "children" /\ phase' = phase
    BY StepUp
  <1>2. doc' = doc /\ merged' = merged
    BY DEF Return
  <1>3. \A q \in Resources :
            res'[q].is = res[q].is /\ res'[q].rtIs = res[q].rtIs /\ res'[q].ops = res[q].ops
    BY FailuresHanded
  <1>4. OwnRefs'
    BY <1>2, <1>3 DEF ClosestInv, OwnRefs
  <1>5. Waiting'
    BY <1>1, <1>2, <1>3 DEF ClosestInv, Waiting, Parts, Stands
  <1>6. Layered' /\ Begun'
    BY <1>1 DEF Layered, Begun
  <1>7. ASSUME NEW r \in Resources, Past(r)'
        PROVE  \A m \in DOMAIN res'[r].ops :
                /\ Stays(doc', Parts(r)', m, res'[r].ops[m].content)
                /\ Through(r, m, <<>>, <<>>)'
    <2>1. Past(r)
      BY <1>1, <1>7 DEF Past
    <2> QED BY <1>2, <1>3, <2>1, EndedKept DEF ClosestInv
  <1>8. Ended'
    BY <1>7 DEF Ended
  <1> QED BY <1>4, <1>5, <1>6, <1>8 DEF ClosestInv

LEMMA ClosestStill == ASSUME ClosestInv, UNCHANGED vars PROVE ClosestInv'
  <1>1. /\ doc' = doc /\ res' = res /\ path' = path /\ phase' = phase /\ chain' = chain
        /\ method' = method /\ queue' = queue /\ nested' = nested /\ applied' = applied
        /\ done' = done /\ merged' = merged
    BY DEF vars
  <1>2. OnPath' = OnPath /\ Here' = Here
    BY <1>1 DEF OnPath, Here
  <1>3. OwnRefs' /\ Waiting'
    BY <1>1, <1>2 DEF ClosestInv, OwnRefs, Waiting, Parts
  <1>4. Layered'
    BY <1>1, <1>2 DEF ClosestInv, Layered, Parts
  <1>5. Begun'
    BY <1>1, <1>2 DEF ClosestInv, Begun, Through, Parts, InPriorityOrder
  <1>6. Ended'
    BY <1>1, <1>2 DEF ClosestInv, Ended, Past, Through, Parts, InPriorityOrder
  <1> QED BY <1>3, <1>4, <1>5, <1>6 DEF ClosestInv

(* While types are merged each part of the chain stands for what is merged *)
(* into it; while traits are applied, and ever after, what a method says   *)
(* beside its parts comes from the nearest traits applied.                 *)
THEOREM ClosestInductive == Spec => []ClosestInv
  <1>1. TypedInv /\ Branch /\ MethodsInv /\ ClosestInv /\ [Next]_vars => ClosestInv'
    BY ClosestCompile, ClosestFail, ClosestEndChain, ClosestMerge, ClosestStart, ClosestSkip,
       ClosestApplies, ClosestFails, ClosestNext, ClosestEndMethod, ClosestBind, ClosestDown,
       ClosestUp, ClosestStill
    DEF Next, End
  <1> QED BY <1>1, ClosestInitially, TypedInductive, BranchInductive, MethodsInductive,
             PTL DEF Spec

-----------------------------------------------------------------------------
(* What the recursive functions of the property compute.                   *)
Has(D, T, m) ==
    LET has[i \in DOMAIN T] ==
            /\ m \in DOMAIN D[T[i]].ops
            /\ m \in D[T[i]].optional => has[i - 1]
    IN has

LEMMA HasIsHaving ==
    ASSUME NEW D, NEW T, Len(T) \in Nat, DOMAIN T = 1..Len(T), NEW m,
           1 \in 1..Len(T) => m \notin D[T[1]].optional
    PROVE  \A i \in 1..Len(T) : Has(D, T, m)[i] <=> i \in Having(D, T, m)
  <1> DEFINE has == Has(D, T, m)
  <1>0. has = CHOOSE h : h = [i \in DOMAIN T |->
                                /\ m \in DOMAIN D[T[i]].ops
                                /\ m \in D[T[i]].optional => h[i - 1]]
    BY DEF Has
  <1> HIDE DEF has
  <1> DEFINE n == Len(T)
             step(h, i) == m \in DOMAIN D[T[i]].ops /\ (m \in D[T[i]].optional => h[i - 1])
             g == [i \in 1..n |-> i \in Having(D, T, m)]
  <1>1. \A i \in 1..n : i # 1 => i - 1 \in 1..n
    OBVIOUS
  <1>2. ASSUME NEW i \in 1..n
        PROVE  i \in Having(D, T, m) <=>
                    /\ m \in DOMAIN D[T[i]].ops
                    /\ m \in D[T[i]].optional => i # 1 /\ i - 1 \in Having(D, T, m)
    BY HavingStep
  <1>3. \A i \in 1..n : m \in D[T[i]].optional => i # 1
    OBVIOUS
  <1>4. ASSUME NEW i \in 1..n PROVE g[i] = step(g, i)
    <2>1. CASE m \in D[T[i]].optional
      <3>1. g[i - 1] = (i - 1 \in Having(D, T, m)) /\ g[i] = (i \in Having(D, T, m))
        BY <1>1, <1>3, <2>1
      <3>2. i \in Having(D, T, m) <=> m \in DOMAIN D[T[i]].ops /\ i - 1 \in Having(D, T, m)
        BY <1>2, <1>3, <2>1
      <3>3. (i - 1 \in Having(D, T, m)) <=> (m \in D[T[i]].optional => g[i - 1])
        <4> HIDE DEF g
        <4> QED BY <2>1, <3>1, Zenon
      <3>4. (i \in Having(D, T, m)) <=> step(g, i)
        <4> HIDE DEF g
        <4> QED BY <3>2, <3>3, Zenon
      <3>5. CASE i \in Having(D, T, m)
        <4>1. g[i] = TRUE
          BY <3>5
        <4>2. step(g, i) = TRUE
          <5> HIDE DEF g
          <5> QED BY <3>4, <3>5
        <4> HIDE DEF g, step
        <4> QED BY <4>1, <4>2
      <3>6. CASE i \notin Having(D, T, m)
        <4>1. g[i] = FALSE
          <5>1. g[i] \in BOOLEAN
            OBVIOUS
          <5>2. ~g[i]
            BY <3>6
          <5> HIDE DEF g
          <5> QED BY <5>1, <5>2
        <4>2. step(g, i) = FALSE
          <5> HIDE DEF g
          <5> QED BY <3>4, <3>6
        <4> HIDE DEF g, step
        <4> QED BY <4>1, <4>2
      <3> HIDE DEF g, step
      <3> QED BY <3>5, <3>6
    <2>2. CASE m \notin D[T[i]].optional
      BY <1>2, <2>2
    <2> QED BY <2>1, <2>2
  <1>5. g = [i \in DOMAIN T |-> step(g, i)]
    <2>1. g = [i \in DOMAIN T |-> g[i]]
      OBVIOUS
    <2> HIDE DEF g, step
    <2> QED BY <1>4, <2>1
  <1>6. has = [i \in DOMAIN T |-> step(has, i)]
    <2>1. has = CHOOSE h : h = [i \in DOMAIN T |-> step(h, i)]
      BY <1>0
    <2>2. \E h : h = [i \in DOMAIN T |-> step(h, i)]
      <3> HIDE DEF g, step
      <3> QED BY <1>5
    <2> HIDE DEF g, step
    <2> QED BY <2>1, <2>2
  <1>7. \A i \in 1..n : has[i] = step(has, i)
    <2> HIDE DEF g, step
    <2> QED BY <1>6
  <1> DEFINE S == {i \in 1..n : ~(has[i] <=> i \in Having(D, T, m))}
  <1>8. ASSUME NEW x \in S PROVE \E y \in S : ~(x <= y)
    <2>1. x \in 1..n /\ ~(has[x] <=> x \in Having(D, T, m))
      OBVIOUS
    <2>2. has[x] <=> step(has, x)
      BY <1>7, <2>1
    <2>3. m \in D[T[x]].optional /\ ~(has[x - 1] <=> x - 1 \in Having(D, T, m))
      BY <1>2, <1>3, <2>1, <2>2
    <2>4. x - 1 \in 1..n /\ ~(x <= x - 1)
      BY <1>1, <1>3, <2>1, <2>3
    <2> QED BY <2>3, <2>4
  <1>9. S \in SUBSET Nat
    OBVIOUS
  <1>10. S = {}
    <2> HIDE DEF S
    <2> QED BY <1>8, <1>9, LeastNumber
  <1> QED BY <1>10 DEF has

LEMMA WithinDistances ==
    ASSUME NEW r, NEW m, NEW direct, direct = InPriorityOrder(r, m),
           NEW taken, taken = res[r].ops[m].taken, NEW L, NEW d \in Nat,
           Distances(doc, m, direct, taken, L, d, <<>>, <<>>)
    PROVE  /\ Applied(r, m) = Can(doc, taken)
           /\ DOMAIN Within(r, m) = 0..Cardinality(Traits)
           /\ \A n \in 0..Cardinality(Traits) :
                \A x : x \in Within(r, m)[n] <=> x \in Can(doc, taken) /\ L[x] <= n
  <1> DEFINE N == Cardinality(Traits)  able == Can(doc, taken)
             next(S) == S \cup (able \cap UNION {NestedIn(doc, x, m) : x \in S})
             step(h, n) == IF n = 0 THEN able \cap ToSet(direct) ELSE next(h[n - 1])
             at(n) == {x \in able : L[x] <= n}
             g == [n \in 0..N |-> at(n)]
             near == Within(r, m)
  <1>1. Applied(r, m) = able
    BY DEF Applied, Can, TraitAccepts
  <1>2. N \in Nat /\ \A n \in 0..N : n \in Nat /\ (n # 0 => n - 1 \in 0..N /\ n - 1 \in Nat)
    BY TraitsAssumption, FS_CardinalityType
  <1>3. near = CHOOSE h : h = [n \in 0..N |-> step(h, n)]
    BY <1>1 DEF Within, NestedIn
  <1>4. /\ \A x \in able : L[x] \in Nat /\ (L[x] = 0 <=> x \in ToSet(direct))
        /\ \A x \in able : L[x] # 0 => \E y \in able : L[y] + 1 = L[x] /\ x \in NestedIn(doc, y, m)
        /\ \A x \in able : \A z \in NestedIn(doc, x, m) \cap able : L[z] <= L[x] + 1
    BY DEF Distances
  <1>5. at(0) = able \cap ToSet(direct)
    BY <1>4
  <1>6. ASSUME NEW n \in Nat, n # 0, n - 1 \in Nat PROVE at(n) = next(at(n - 1))
    <2>1. ASSUME NEW z \in at(n) PROVE z \in next(at(n - 1))
      <3>1. z \in able /\ L[z] <= n /\ L[z] \in Nat
        BY <1>4
      <3>2. CASE L[z] <= n - 1
        BY <3>1, <3>2
      <3>3. CASE ~(L[z] <= n - 1)
        <4>1. L[z] = n
          BY <3>1, <3>3
        <4>2. PICK y \in able : L[y] + 1 = L[z] /\ z \in NestedIn(doc, y, m)
          BY <1>4, <1>6, <3>1, <4>1
        <4>3. y \in at(n - 1)
          BY <1>4, <4>1, <4>2
        <4> QED BY <3>1, <4>2, <4>3
      <3> QED BY <3>2, <3>3
    <2>2. ASSUME NEW z \in next(at(n - 1)) PROVE z \in at(n)
      <3>1. CASE z \in at(n - 1)
        BY <1>4, <1>6, <3>1
      <3>2. CASE z \notin at(n - 1)
        <4>1. z \in able /\ \E x \in at(n - 1) : z \in NestedIn(doc, x, m)
          BY <3>2
        <4>2. PICK x \in able : L[x] <= n - 1 /\ z \in NestedIn(doc, x, m)
          BY <4>1
        <4>3. L[z] <= L[x] + 1 /\ L[z] \in Nat /\ L[x] \in Nat
          BY <1>4, <4>1, <4>2
        <4>4. L[z] <= n
          BY <1>6, <4>2, <4>3
        <4> QED BY <4>1, <4>4
      <3> QED BY <3>1, <3>2
    <2> HIDE DEF at, next
    <2> QED BY <2>1, <2>2
  <1> HIDE DEF at, next, able
  <1>7. ASSUME NEW n \in 0..N PROVE g[n] = step(g, n)
    <2>1. g[n] = at(n) /\ (n # 0 => g[n - 1] = at(n - 1))
      BY <1>2
    <2> HIDE DEF g
    <2> QED BY <1>2, <1>5, <1>6, <2>1
  <1>8. g = [n \in 0..N |-> step(g, n)]
    <2>1. g = [n \in 0..N |-> g[n]]
      OBVIOUS
    <2> HIDE DEF g, step
    <2> QED BY <1>7, <2>1
  <1>9. near = [n \in 0..N |-> step(near, n)]
    <2>1. \E h : h = [n \in 0..N |-> step(h, n)]
      <3> HIDE DEF g, step
      <3> QED BY <1>8
    <2> HIDE DEF g, step, near
    <2> QED BY <1>3, <2>1
  <1> HIDE DEF g, near
  <1>10. DOMAIN near = 0..N /\ \A n \in 0..N : near[n] = step(near, n)
    <2> HIDE DEF step
    <2> QED BY <1>9
  <1> DEFINE S == {n \in 0..N : near[n] # at(n)}
  <1>11. ASSUME NEW x \in S PROVE \E y \in S : ~(x <= y)
    <2>1. x \in 0..N /\ near[x] # at(x) /\ near[x] = step(near, x)
      BY <1>10
    <2>2. x # 0
      BY <1>5, <2>1
    <2>3. x - 1 \in 0..N /\ x \in Nat /\ x - 1 \in Nat /\ near[x] = next(near[x - 1])
      BY <1>2, <2>1, <2>2
    <2>4. near[x - 1] # at(x - 1)
      BY <1>6, <2>1, <2>2, <2>3
    <2>5. ~(x <= x - 1)
      BY <2>3
    <2> QED BY <2>3, <2>4, <2>5
  <1>12. S \in SUBSET Nat
    BY <1>2
  <1>13. S = {}
    <2> HIDE DEF S
    <2> QED BY <1>11, <1>12, LeastNumber
  <1>14. \A n \in 0..N : near[n] = at(n)
    BY <1>13
  <1> QED BY <1>1, <1>10, <1>14 DEF near, at, able

LEMMA ClosestOfMethod ==
    ASSUME TypedInv, ClosestInv, NEW r \in Resources, Past(r), NEW m \in DOMAIN res[r].ops
    PROVE  \E d \in Nat : \E L :
            InOrder(doc, Parts(r), m, InPriorityOrder(r, m), res[r].ops[m].taken,
                    res[r].ops[m].content, L, d, <<>>, <<>>)
  BY DEF ClosestInv, Ended, Through, Reached

LEMMA DirectIsInOrder ==
    ASSUME OwnRefs, NEW r \in Resources, NEW m \in DOMAIN res[r].ops
    PROVE  Direct(r, m) = InPriorityOrder(r, m)
  BY DEF OwnRefs, Direct, InPriorityOrder

LEMMA ReferenceTaken ==
    ASSUME TypedInv, ClosestInv, NEW r \in Resources, Past(r), NEW m \in DOMAIN res[r].ops,
           NEW direct, direct = InPriorityOrder(r, m),
           NEW taken, taken = res[r].ops[m].taken, NEW i \in DOMAIN direct
    PROVE  \E ref \in taken :
                /\ {x \in taken : x.name = direct[i].name} = {ref}
                /\ \E j \in 1..i : direct[j] = ref
  <1> DEFINE found(L, d) ==
        InOrder(doc, Parts(r), m, direct, taken, res[r].ops[m].content, L, d, <<>>, <<>>)
  <1>1. PICK d \in Nat : \E L : found(L, d)
    BY ClosestOfMethod
  <1>2. PICK L : found(L, d)
    BY <1>1
  <1>3. i \in 1..Len(direct) /\ Len(direct) \in Nat /\ Len(<<>>) = 0
    BY QueueTyped, LenProperties
  <1>4. DirectFirst(direct, taken, d, <<>>) /\ \A x, y \in taken : x.name = y.name => x = y
    BY <1>2 DEF InOrder
  <1>5. \E j \in 1..i : direct[j] \in taken /\ direct[j].name = direct[i].name
    BY <1>3, <1>4 DEF DirectFirst
  <1> QED BY <1>4, <1>5

LEMMA DeclarationWins ==
    ASSUME TypedInv, ClosestInv, NEW r \in Resources, Past(r), NEW m \in DOMAIN res[r].ops,
           NEW f \in Facets, NEW parts, parts = Parts(r), NEW has,
           \A i \in 1..Len(parts) : has[i] <=> i \in Having(doc, parts, m),
           DOMAIN parts = 1..Len(parts), NEW near, near = Within(r, m)
    PROVE  LET writing == {i \in DOMAIN parts :
                                has[i] /\ f \in doc[parts[i]].ops[m].writes}
               at(n) == {Found(ref) : ref \in near[n]}
               from(n) == {t \in at(n) : f \in doc[t].writes}
               content == res[r].ops[m].content IN
           IF writing # {}
           THEN content[f] = parts[CHOOSE i \in writing : \A j \in writing : i <= j]
           ELSE \A n \in DOMAIN near :
                    from(n) # {} => f \in DOMAIN content /\ content[f] \in from(n)
  <1> DEFINE writing == {i \in DOMAIN parts : has[i] /\ f \in doc[parts[i]].ops[m].writes}
             at(n) == {Found(ref) : ref \in near[n]}
             from(n) == {t \in at(n) : f \in doc[t].writes}
             content == res[r].ops[m].content
             taken == res[r].ops[m].taken
             direct == InPriorityOrder(r, m)
  <1>1. writing = Writing(doc, parts, m, f) /\ writing \subseteq Nat
    BY DEF Writing, Having
  <1>2. Stays(doc, parts, m, content)
    BY DEF ClosestInv, Ended
  <1> DEFINE found(L, d) ==
                InOrder(doc, parts, m, direct, taken, content, L, d, <<>>, <<>>)
  <1>3. PICK d \in Nat : \E L : found(L, d)
    BY ClosestOfMethod
  <1>4. PICK L : found(L, d)
    BY <1>3
  <1>5. /\ Distances(doc, m, direct, taken, L, d, <<>>, <<>>)
        /\ Adds(doc, parts, m, taken, L, content)
    BY <1>4 DEF InOrder
  <1>6. /\ L \in [Can(doc, taken) -> 0..d]
        /\ \A n \in DOMAIN near :
            \A x : x \in near[n] <=> x \in Can(doc, taken) /\ L[x] <= n
        /\ DOMAIN near \subseteq Nat
    <2>1. /\ DOMAIN near = 0..Cardinality(Traits)
          /\ \A n \in 0..Cardinality(Traits) :
                \A x : x \in near[n] <=> x \in Can(doc, taken) /\ L[x] <= n
      <3>1. direct = InPriorityOrder(r, m) /\ taken = res[r].ops[m].taken
        OBVIOUS
      <3> HIDE DEF writing, at, from, content, taken, direct
      <3> QED BY <1>5, <3>1, WithinDistances
    <2>2. Cardinality(Traits) \in Nat
      BY TraitsAssumption, FS_CardinalityType
    <2>3. L \in [Can(doc, taken) -> 0..d]
      BY <1>5 DEF Distances
    <2> QED BY <2>1, <2>2, <2>3
  <1> HIDE DEF writing, content, taken
  <1>7. CASE writing # {}
    <2>1. PICK i \in writing : content[f] = parts[i] /\ \A j \in writing : i <= j
      BY <1>1, <1>2, <1>7 DEF Stays
    <2>2. \A k \in writing : (\A j \in writing : k <= j) => k = i
      BY <1>1, <2>1
    <2>3. (CHOOSE k \in writing : \A j \in writing : k <= j) = i
      BY <2>1, <2>2
    <2> QED BY <1>7, <2>1, <2>3 DEF writing, content
  <1>8. CASE writing = {}
    <2>1. ASSUME NEW n \in DOMAIN near, from(n) # {}
          PROVE  f \in DOMAIN content /\ content[f] \in from(n)
      <3>1. PICK ref \in near[n] : f \in doc[Found(ref)].writes
        BY <2>1
      <3>2. ref \in From(doc, taken, f) /\ L[ref] <= n /\ ref \in Can(doc, taken)
        BY <1>6, <3>1 DEF From
      <3>3. /\ f \in DOMAIN content
            /\ \E x \in From(doc, taken, f) :
                content[f] = Found(x) /\ \A y \in From(doc, taken, f) : L[x] <= L[y]
        BY <1>1, <1>5, <1>8, <3>2 DEF Adds
      <3>4. PICK x \in From(doc, taken, f) : content[f] = Found(x) /\ L[x] <= L[ref]
        BY <3>2, <3>3
      <3>5. x \in Can(doc, taken) /\ f \in doc[Found(x)].writes
        BY DEF From
      <3>6. L[x] <= n
        <4>1. L[x] \in Nat /\ L[ref] \in Nat /\ n \in Nat
          BY <1>6, <3>2, <3>5
        <4> QED BY <3>2, <3>4, <4>1
      <3>7. x \in near[n]
        BY <1>6, <3>5, <3>6
      <3> QED BY <3>3, <3>4, <3>5, <3>7
    <2> QED BY <1>8, <2>1 DEF writing, content
  <1> QED BY <1>7, <1>8

(* Between several writers and several references the closest is taken,    *)
(* however long the chain of resource types, however the traits nest and   *)
(* in whatever order the methods are dealt with: of a facet the nearest    *)
(* part that writes it, or else a nearest trait; of the references that    *)
(* name one trait the closest (merge_resource_type_into, apply_traits).    *)
THEOREM SpecClosestWins == Spec => []ClosestWins
  <1>1. TypedInv /\ Branch /\ ClosestInv => ClosestReferenceTaken
    <2> SUFFICES ASSUME TypedInv, Branch, ClosestInv, NEW r \in Resources, r \in done,
                        NEW m \in DOMAIN res[r].ops, NEW i \in DOMAIN Direct(r, m)
                 PROVE  \E ref \in res[r].ops[m].taken :
                            /\ {x \in res[r].ops[m].taken : x.name = Direct(r, m)[i].name} = {ref}
                            /\ \E j \in 1..i : Direct(r, m)[j] = ref
      BY DEF ClosestReferenceTaken, Settled
    <2>1. Direct(r, m) = InPriorityOrder(r, m)
      BY DirectIsInOrder DEF ClosestInv
    <2>2. Past(r)
      BY DoneIsPast
    <2> QED BY <2>1, <2>2, ReferenceTaken
  <1>2. TypedInv /\ Branch /\ ClosestInv => ClosestDeclarationWins
    <2> SUFFICES ASSUME TypedInv, Branch, ClosestInv, NEW r \in Resources, r \in done,
                        NEW m \in DOMAIN res[r].ops, NEW f \in Facets
                 PROVE  LET parts == Parts(r)
                            has[i \in DOMAIN parts] ==
                                /\ m \in DOMAIN doc[parts[i]].ops
                                /\ m \in doc[parts[i]].optional => has[i - 1]
                            writing == {i \in DOMAIN parts :
                                            has[i] /\ f \in doc[parts[i]].ops[m].writes}
                            near == Within(r, m)
                            at(n) == {Found(ref) : ref \in near[n]}
                            from(n) == {t \in at(n) : f \in doc[t].writes}
                            content == res[r].ops[m].content IN
                        IF writing # {}
                        THEN content[f] =
                                parts[CHOOSE i \in writing : \A j \in writing : i <= j]
                        ELSE \A n \in DOMAIN near :
                                from(n) # {} => f \in DOMAIN content /\ content[f] \in from(n)
      BY DEF ClosestDeclarationWins, Settled, Parts
    <2> DEFINE parts == Parts(r)
               has == Has(doc, parts, m)
               near == Within(r, m)
    <2>1. Past(r)
      BY DoneIsPast
    <2>2. merged[r] \in Seq(Types) /\ doc \in Corpus
      BY DEF TypedInv, Typed
    <2>3. /\ Len(parts) \in Nat /\ DOMAIN parts = 1..Len(parts) /\ parts[1] = r
      BY <2>2, PartsFacts, LenProperties DEF Parts
    <2>4. 1 \in 1..Len(parts) => m \notin doc[parts[1]].optional
      BY <2>2, <2>3, CorpusAssumption
    <2> HIDE DEF parts, near, has
    <2>5. \A i \in 1..Len(parts) : has[i] <=> i \in Having(doc, parts, m)
      BY <2>3, <2>4, HasIsHaving DEF has
    <2>6. parts = Parts(r) /\ near = Within(r, m)
      BY DEF parts, near
    <2>7. LET writing == {i \in DOMAIN parts :
                                has[i] /\ f \in doc[parts[i]].ops[m].writes}
              at(n) == {Found(ref) : ref \in near[n]}
              from(n) == {t \in at(n) : f \in doc[t].writes}
              content == res[r].ops[m].content IN
          IF writing # {}
          THEN content[f] = parts[CHOOSE i \in writing : \A j \in writing : i <= j]
          ELSE \A n \in DOMAIN near :
                   from(n) # {} => f \in DOMAIN content /\ content[f] \in from(n)
      BY <2>1, <2>3, <2>5, <2>6, DeclarationWins
    <2> QED BY <2>7 DEF parts, has, near, Has
  <1> QED BY <1>1, <1>2, TypedInductive, BranchInductive, ClosestInductive, PTL DEF ClosestWins
=============================================================================
