---------------------------- MODULE Unwrap_proofs ----------------------------
(***************************************************************************)
(* For any declarations and any models: a shape flagged unwrapped is whole *)
(* and a failure is reported once; outside cycles it is flattened by       *)
(* definition; a walk down what is contained ends, and a marker is inside  *)
(* the shape it names.                                                     *)
(*                                                                         *)
(* A shape may finish while what it holds is still to be walked, in the    *)
(* container of a shape further out.  What is followed of a shape is what  *)
(* it names as declared (Leads), and no shape ever gets anything from      *)
(* outside what it leads to.  So it suffices that the flagged shapes are   *)
(* closed under Leads in the end, which _fail_what_reached_a_failure sees  *)
(* to.                                                                     *)
(***************************************************************************)
EXTENDS Unwrap, SequenceSets, TLAPS

Entries == [shape : Shapes, recursive : BOOLEAN]
Calls == [shape : Shapes, left : Seq(Shapes)]
Reached == unwrapped \cup DOMAIN failed

TypeOK ==
    /\ model \in Corpus
    /\ DOMAIN entries = Shapes
    /\ container \in [Shapes -> Shapes \cup {None}]
    /\ parents \in [Shapes -> Seq(Shapes)]
    /\ unwrapped \subseteq Shapes /\ done \subseteq Shapes
    /\ DOMAIN failed \subseteq Shapes
    /\ reported \in Seq(Shapes)
    /\ phase \in {"unwrap", "carry", "finish", "end"}
    /\ next \in Nat \ {0}

(* Every failure was reported, and where it started it is its own.         *)
FailuresReported ==
    /\ \A s \in DOMAIN failed : failed[s] \in ToSet(reported)
    /\ \A s \in ToSet(reported) : s \in DOMAIN failed /\ failed[s] = s
    /\ IsInjective(reported)

(* The calls of _unwrap are on shapes flagged and not finished, each once; *)
(* what such a shape leads to was reached, or is still to be followed.     *)
CallsOpen ==
    phase = "unwrap" =>
        /\ stack \in Seq(Calls)
        /\ \A i \in 1..Len(stack) :
            /\ stack[i].shape \in unwrapped \ done
            /\ Leads(stack[i].shape) \subseteq Reached \cup ToSet(stack[i].left)
        /\ \A i, j \in 1..Len(stack) : stack[i].shape = stack[j].shape => i = j
        /\ \A s \in unwrapped \ done : \E i \in 1..Len(stack) : stack[i].shape = s

(* Until the cycles are marked, a shape that is no alias has at least what *)
(* it was declared with.                                                   *)
DeclaredKept ==
    /\ entries \in [Shapes -> Seq(Entries)]
    /\ \A s \in Shapes :
        /\ \A part \in ToSet(model.properties[s]) : Holding(part) \in ToSet(entries[s])
        /\ model.properties[s] # <<>> => container[s] = s
        /\ model.alias[s] = None => parents[s] = model.inherits[s]

DoneReached ==
    \A s \in done :
        s \in Reached /\ s \notin model.rejected /\ Leads(s) \subseteq Reached

(* A set of shapes that leads nowhere else has all it holds in itself.     *)
Closed(X) == \A s \in X : Leads(s) \subseteq X
NestedIn(c) == {e.shape : e \in {f \in ToSet(entries[c]) : ~f.recursive}}
Contained ==
    \A X \in SUBSET Shapes : Closed(X) =>
        \A s \in X :
            /\ container[s] \in X \cup {None}
            /\ ToSet(parents[s]) \subseteq X
            /\ NestedIn(s) \subseteq X

IInv ==
    /\ TypeOK /\ FailuresReported /\ unwrapped \cap DOMAIN failed = {}
    /\ CallsOpen /\ Contained
    /\ phase \in {"unwrap", "carry"} => DeclaredKept /\ DoneReached
    /\ phase = "carry" => unwrapped \subseteq done
    /\ Unwrapped => Closed(unwrapped) /\ unwrapped \cap model.rejected = {}
-----------------------------------------------------------------------------
(* Entries, calls and models.                                              *)

(* The calls on the stack once the one on top is another, or has ended.    *)
LEMMA StackFacts ==
    ASSUME stack \in Seq(Calls), stack # <<>>, NEW f \in Calls
    PROVE  /\ Len(stack) \in Nat \ {0} /\ Top = stack[Len(stack)] /\ Top \in Calls
           /\ Front(stack) \in Seq(Calls) /\ Len(Front(stack)) = Len(stack) - 1
           /\ \A i \in 1..(Len(stack) - 1) : Front(stack)[i] = stack[i]
           /\ AfterTop(f) \in Seq(Calls) /\ Len(AfterTop(f)) = Len(stack)
           /\ \A i \in 1..Len(stack) :
                AfterTop(f)[i] = IF i = Len(stack) THEN f ELSE stack[i]
  BY LastReplaced DEF Top, AfterTop

LEMMA HoldingSeq ==
    ASSUME NEW part \in Seq(Shapes)
    PROVE  LET made == [i \in DOMAIN part |-> Holding(part[i])]
           IN  made \in Seq(Entries) /\ ToSet(made) = {Holding(x) : x \in ToSet(part)}
  <1> DEFINE made == [i \in DOMAIN part |-> Holding(part[i])]
  <1>1. DOMAIN part = 1..Len(part) /\ Len(part) \in Nat /\ \A i \in 1..Len(part) : part[i] \in Shapes
    BY LenProperties, ElementOfSeq
  <1>2. made \in [1..Len(part) -> Entries]
    BY <1>1 DEF Holding, Entries
  <1>3. made \in Seq(Entries)
    BY <1>1, <1>2
  <1>4. ToSet(made) = {Holding(x) : x \in ToSet(part)}
    BY <1>1 DEF ToSet
  <1> QED BY <1>3, <1>4

LEMMA ShapesSeq ==
    ASSUME NEW made \in Seq(Entries)
    PROVE  LET part == [i \in DOMAIN made |-> made[i].shape]
           IN  part \in Seq(Shapes) /\ ToSet(part) = {e.shape : e \in ToSet(made)}
  <1> DEFINE part == [i \in DOMAIN made |-> made[i].shape]
  <1>1. DOMAIN made = 1..Len(made) /\ Len(made) \in Nat /\ \A i \in 1..Len(made) : made[i] \in Entries
    BY LenProperties, ElementOfSeq
  <1>2. part \in [1..Len(made) -> Shapes]
    BY <1>1 DEF Entries
  <1>3. part \in Seq(Shapes)
    BY <1>1, <1>2
  <1>4. ToSet(part) = {e.shape : e \in ToSet(made)}
    BY <1>1 DEF ToSet
  <1> QED BY <1>3, <1>4

(* What every model of the corpus is.                                      *)
LEMMA ModelFacts ==
    ASSUME model \in Corpus
    PROVE  /\ None \notin Shapes /\ Declared \in Seq(Shapes)
           /\ model.alias \in [Shapes -> Shapes \cup {None}]
           /\ model.inherits \in [Shapes -> Seq(Shapes)]
           /\ model.properties \in [Shapes -> Seq(Shapes)]
           /\ \A s \in Shapes :
                /\ Len(model.inherits[s]) <= 1
                /\ model.alias[s] # None =>
                        model.inherits[s] = <<>> /\ model.properties[s] = <<>>
                /\ Leads(s) \subseteq Shapes
                /\ model.inherits[s] # <<>> => model.inherits[s][1] \in Leads(s)
  <1>1. model \in Models
    BY CorpusAssumption
  <1>2. ASSUME NEW s \in Shapes
        PROVE  /\ Leads(s) \subseteq Shapes
               /\ model.inherits[s] # <<>> => model.inherits[s][1] \in Leads(s)
    <2>1. model.inherits[s] \in Seq(Shapes) /\ model.properties[s] \in Seq(Shapes)
          /\ model.alias[s] \in Shapes \cup {None}
      BY <1>1 DEF Models
    <2>2. ToSet(model.inherits[s]) \subseteq Shapes /\ ToSet(model.properties[s]) \subseteq Shapes
      BY <2>1, LenProperties, ElementOfSeq DEF ToSet
    <2>3. model.inherits[s] # <<>> => 1 \in DOMAIN model.inherits[s]
      BY <2>1, LenProperties, EmptySeq
    <2> QED BY <2>1, <2>2, <2>3 DEF Leads, Named, ToSet
  <1> QED BY <1>1, <1>2, CorpusAssumption DEF Models
-----------------------------------------------------------------------------
(* The steps.                                                              *)

LEMMA InitIInv == Init => IInv
  <1> SUFFICES ASSUME Init PROVE IInv
    OBVIOUS
  <1>1. model \in Corpus
    BY DEF Init
  <1>2. \A s \in Shapes : /\ entries[s] \in Seq(Entries)
                          /\ ToSet(entries[s]) = {Holding(x) : x \in ToSet(model.properties[s])}
    BY <1>1, ModelFacts, HoldingSeq DEF Init
  <1>3. DOMAIN entries = Shapes /\ entries \in [Shapes -> Seq(Entries)]
    BY <1>2 DEF Init
  <1>4. TypeOK
    BY <1>1, <1>3, ModelFacts DEF Init, TypeOK
  <1>5. FailuresReported
    BY DEF Init, FailuresReported, ToSet, IsInjective
  <1>6. CallsOpen
    BY DEF Init, CallsOpen
  <1>7. \A s \in Shapes : NestedIn(s) = ToSet(model.properties[s])
    <2> SUFFICES ASSUME NEW s \in Shapes PROVE NestedIn(s) = ToSet(model.properties[s])
      OBVIOUS
    <2>1. ASSUME NEW x \in ToSet(model.properties[s]) PROVE x \in NestedIn(s)
      <3>1. Holding(x) \in ToSet(entries[s]) /\ ~Holding(x).recursive /\ Holding(x).shape = x
        BY <1>2, <2>1 DEF Holding
      <3> QED BY <3>1 DEF NestedIn
    <2>2. ASSUME NEW e \in ToSet(entries[s]) PROVE e.shape \in ToSet(model.properties[s])
      BY <1>2, <2>2 DEF Holding
    <2> QED BY <2>1, <2>2 DEF NestedIn
  <1>8. Contained
    <2> SUFFICES ASSUME NEW X \in SUBSET Shapes, Closed(X), NEW s \in X
                 PROVE  /\ container[s] \in X \cup {None}
                        /\ ToSet(parents[s]) \subseteq X
                        /\ NestedIn(s) \subseteq X
      BY DEF Contained
    <2>1. ToSet(model.inherits[s]) \subseteq X /\ ToSet(model.properties[s]) \subseteq X
      BY DEF Closed, Leads
    <2> QED BY <1>7, <2>1 DEF Init
  <1>9. DeclaredKept
    BY <1>2, <1>3 DEF DeclaredKept, Init
  <1> QED BY <1>4, <1>5, <1>6, <1>8, <1>9 DEF IInv, Init, DoneReached, Unwrapped

(* What a call follows includes all that its shape leads to.               *)
LEMMA CallFacts ==
    ASSUME IInv, phase = "unwrap", NEW s \in Shapes
    PROVE  /\ Call(s) \in Calls /\ Call(s).shape = s
           /\ Leads(s) \subseteq ToSet(Call(s).left)
  <1>1. model \in Corpus /\ DeclaredKept /\ container[s] \in Shapes \cup {None}
    BY DEF IInv, TypeOK
  <1>2. Held(s) \in Seq(Entries)
    BY <1>1 DEF Held, DeclaredKept
  <1> DEFINE held == [i \in DOMAIN Held(s) |-> Held(s)[i].shape]
  <1>3. held \in Seq(Shapes) /\ ToSet(held) = {e.shape : e \in ToSet(Held(s))}
    BY <1>2, ShapesSeq
  <1>4. ToSet(model.properties[s]) \subseteq ToSet(held)
    <2>1. CASE model.properties[s] = <<>>
      BY <2>1 DEF ToSet
    <2>2. CASE model.properties[s] # <<>>
      <3>1. Held(s) = entries[s]
        BY <1>1, <2>2, ModelFacts DEF DeclaredKept, Held
      <3>2. \A part \in ToSet(model.properties[s]) :
                Holding(part) \in ToSet(Held(s)) /\ Holding(part).shape = part
        BY <1>1, <3>1 DEF DeclaredKept, Holding
      <3> QED BY <1>3, <3>2
    <2> QED BY <2>1, <2>2
  <1>5. model.inherits[s] \in Seq(Shapes) /\ model.alias[s] \in Shapes \cup {None}
    BY <1>1, ModelFacts
  <1>6. model.inherits[s] \o held \in Seq(Shapes)
        /\ ToSet(model.inherits[s] \o held) = ToSet(model.inherits[s]) \cup ToSet(held)
    BY <1>3, <1>5, ConcatSet, ConcatProperties
  <1>7. CASE model.alias[s] # None
    <2>1. Call(s) = [shape |-> s, left |-> <<model.alias[s]>>]
      BY <1>7 DEF Call
    <2>2. model.alias[s] \in Shapes
      BY <1>5, <1>7
    <2>3. <<model.alias[s]>> \in Seq(Shapes) /\ ToSet(<<model.alias[s]>>) = {model.alias[s]}
      BY <2>2, SingleSet
    <2>4. Leads(s) = {model.alias[s]}
      BY <1>1, <1>7, ModelFacts DEF Leads, Named, ToSet
    <2> QED BY <2>1, <2>3, <2>4 DEF Calls
  <1>8. CASE model.alias[s] = None
    <2>1. Call(s) = [shape |-> s, left |-> model.inherits[s] \o held]
      BY <1>8 DEF Call
    <2>2. Leads(s) = ToSet(model.inherits[s]) \cup ToSet(model.properties[s])
      BY <1>8 DEF Leads, Named
    <2> HIDE DEF held
    <2> QED BY <1>4, <1>6, <2>1, <2>2 DEF Calls
  <1> QED BY <1>7, <1>8

(* A shape is opened over calls whose shapes lead to it, or to what was    *)
(* reached, or to what is still to be followed.                            *)
LEMMA OpenStep ==
    ASSUME IInv, phase = "unwrap", NEW s \in Shapes, Open(s),
           NEW base \in Seq(Calls), stack' = Append(base, Call(s)),
           \A i \in 1..Len(base) :
                /\ base[i].shape \in unwrapped \ done
                /\ Leads(base[i].shape) \subseteq Reached \cup {s} \cup ToSet(base[i].left),
           \A i, j \in 1..Len(base) : base[i].shape = base[j].shape => i = j,
           \A t \in unwrapped \ done : \E i \in 1..Len(base) : base[i].shape = t,
           next' \in Nat \ {0}
    PROVE  IInv'
  <1>1. /\ UNCHANGED <<model, entries, container, parents, done, failed, reported, phase>>
        /\ unwrapped' = unwrapped \cup {s} /\ s \notin unwrapped /\ s \notin DOMAIN failed
    BY DEF Open, Unfailed
  <1>2. Reached' = Reached \cup {s}
    BY <1>1 DEF Reached
  <1>3. s \notin done
    BY <1>1 DEF IInv, DoneReached, Reached
  <1>4. TypeOK'
    BY <1>1 DEF IInv, TypeOK
  <1>5. FailuresReported'
    BY <1>1 DEF IInv, FailuresReported
  <1>6. /\ Call(s) \in Calls /\ Call(s).shape = s
        /\ Leads(s) \subseteq ToSet(Call(s).left)
    BY CallFacts
  <1>7. /\ stack' \in Seq(Calls) /\ Len(stack') = Len(base) + 1 /\ Len(base) \in Nat
        /\ \A i \in 1..Len(base) : stack'[i] = base[i]
        /\ stack'[Len(base) + 1] = Call(s)
    BY <1>6, AppendProperties, LenProperties
  <1>8. \A t : Leads(t)' = Leads(t)
    BY <1>1 DEF Leads, Named
  <1>9. CallsOpen'
    <2>1. ASSUME NEW i \in 1..Len(stack')
          PROVE  /\ stack'[i].shape \in unwrapped' \ done'
                 /\ Leads(stack'[i].shape) \subseteq Reached' \cup ToSet(stack'[i].left)
      <3>1. CASE i \in 1..Len(base)
        BY <1>1, <1>2, <1>7, <1>8, <3>1
      <3>2. CASE i = Len(base) + 1
        BY <1>1, <1>2, <1>3, <1>6, <1>7, <1>8, <3>2
      <3> QED BY <1>7, <3>1, <3>2
    <2>2. ASSUME NEW i \in 1..Len(stack'), NEW j \in 1..Len(stack'),
                 stack'[i].shape = stack'[j].shape
          PROVE  i = j
      BY <1>1, <1>6, <1>7, <2>2
    <2>3. ASSUME NEW t \in unwrapped' \ done' PROVE \E i \in 1..Len(stack') : stack'[i].shape = t
      <3>1. CASE t = s
        <4>1. Len(base) + 1 \in 1..Len(stack')
          BY <1>7
        <4> QED BY <1>6, <1>7, <3>1, <4>1
      <3>2. CASE t # s
        <4>1. PICK i \in 1..Len(base) : base[i].shape = t
          BY <1>1, <2>3, <3>2
        <4> QED BY <1>7, <4>1
      <3> QED BY <3>1, <3>2
    <2> QED BY <1>1, <1>7, <2>1, <2>2, <2>3 DEF CallsOpen, Leads, Named
  <1>10. Contained'
    BY <1>1, <1>8 DEF IInv, Contained, Closed, NestedIn
  <1>11. DeclaredKept'
    BY <1>1 DEF IInv, DeclaredKept
  <1>12. DoneReached'
    BY <1>1, <1>2, <1>8 DEF IInv, DoneReached
  <1> QED BY <1>1, <1>4, <1>5, <1>9, <1>10, <1>11, <1>12 DEF IInv, Unwrapped

(* The calls once the one on top has taken its next part.                  *)
LEMMA AdvancedFacts ==
    ASSUME IInv, phase = "unwrap", stack # <<>>, Top.left # <<>>
    PROVE  /\ Head(Top.left) \in Shapes /\ AfterTop(Advanced) \in Seq(Calls)
           /\ Len(AfterTop(Advanced)) = Len(stack)
           /\ \A i \in 1..Len(stack) :
                /\ AfterTop(Advanced)[i].shape = stack[i].shape
                /\ Leads(stack[i].shape) \subseteq
                        Reached \cup {Head(Top.left)} \cup ToSet(AfterTop(Advanced)[i].left)
  <1>1. stack \in Seq(Calls)
    BY DEF IInv, CallsOpen
  <1>2. Top \in Calls /\ Top = stack[Len(stack)] /\ Len(stack) \in Nat \ {0}
    <2>1. \E f : f \in Calls
      BY <1>1, ElementOfSeq, EmptySeq
    <2> QED BY <1>1, <2>1, StackFacts
  <1>3. Top.left \in Seq(Shapes) /\ Top.shape \in Shapes
    BY <1>2 DEF Calls
  <1>4. /\ Head(Top.left) \in Shapes /\ Tail(Top.left) \in Seq(Shapes)
        /\ ToSet(Top.left) = {Head(Top.left)} \cup ToSet(Tail(Top.left))
    BY <1>3, TailSet
  <1>5. Advanced \in Calls /\ Advanced.shape = Top.shape /\ Advanced.left = Tail(Top.left)
    BY <1>2, <1>4 DEF Advanced, Calls
  <1>6. /\ AfterTop(Advanced) \in Seq(Calls) /\ Len(AfterTop(Advanced)) = Len(stack)
        /\ \A i \in 1..Len(stack) :
                AfterTop(Advanced)[i] = IF i = Len(stack) THEN Advanced ELSE stack[i]
    BY <1>1, <1>5, StackFacts
  <1>7. ASSUME NEW i \in 1..Len(stack)
        PROVE  /\ AfterTop(Advanced)[i].shape = stack[i].shape
               /\ Leads(stack[i].shape) \subseteq
                        Reached \cup {Head(Top.left)} \cup ToSet(AfterTop(Advanced)[i].left)
    <2>1. Leads(stack[i].shape) \subseteq Reached \cup ToSet(stack[i].left)
      BY DEF IInv, CallsOpen
    <2>2. CASE i = Len(stack)
      BY <1>2, <1>4, <1>5, <1>6, <2>1, <2>2
    <2>3. CASE i # Len(stack)
      BY <1>6, <2>1, <2>3
    <2> QED BY <2>2, <2>3
  <1> QED BY <1>4, <1>6, <1>7

(* An error that leaves the stack: reported now or before.                 *)
LEMMA UnwindStep ==
    ASSUME IInv, phase = "unwrap", NEW error \in Shapes, Unwind(error),
           \/ error \in ToSet(reported) /\ reported' = reported
           \/ /\ error \in {stack[i].shape : i \in DOMAIN stack}
              /\ reported' = Append(reported, error)
    PROVE  IInv'
  <1> DEFINE passed == {stack[i].shape : i \in DOMAIN stack}
  <1>1. /\ UNCHANGED <<model, entries, container, parents, done, phase, next>>
        /\ failed' = Failing(passed, error)
        /\ unwrapped' = unwrapped \ passed /\ stack' = <<>>
    BY DEF Unwind
  <1>2. stack \in Seq(Calls) /\ DOMAIN stack = 1..Len(stack)
    BY LenProperties DEF IInv, CallsOpen
  <1>3. passed \subseteq unwrapped \ done /\ unwrapped \ done \subseteq passed
    BY <1>2 DEF IInv, CallsOpen
  <1>4. passed \cap DOMAIN failed = {} /\ passed \subseteq Shapes
    BY <1>3 DEF IInv, TypeOK
  <1> HIDE DEF passed
  <1>5. /\ DOMAIN failed' = passed \cup DOMAIN failed
        /\ \A s \in passed : failed'[s] = error
        /\ \A s \in DOMAIN failed : failed'[s] = failed[s]
    BY <1>1, <1>4 DEF Failing
  <1>6. Reached' = Reached
    BY <1>1, <1>3, <1>5 DEF Reached
  <1>7. \A t : Leads(t)' = Leads(t)
    BY <1>1 DEF Leads, Named
  <1>8. reported \in Seq(Shapes) /\ reported' \in Seq(Shapes)
        /\ ToSet(reported') = ToSet(reported) \cup {error}
    <2>1. reported \in Seq(Shapes)
      BY DEF IInv, TypeOK
    <2>2. CASE error \in ToSet(reported) /\ reported' = reported
      BY <2>1, <2>2
    <2>3. CASE reported' = Append(reported, error)
      BY <2>1, <2>3, AppendSet
    <2> QED BY <2>1, <2>2, <2>3
  <1>9. TypeOK'
    BY <1>1, <1>4, <1>5, <1>8 DEF IInv, TypeOK
  <1>10. FailuresReported'
    <2>1. \A s \in DOMAIN failed' : failed'[s] \in ToSet(reported')
      BY <1>5, <1>8 DEF IInv, FailuresReported
    <2>2. \A s \in ToSet(reported') : s \in DOMAIN failed' /\ failed'[s] = s
      <3>1. \A s \in ToSet(reported) : s \in DOMAIN failed /\ failed[s] = s
        BY DEF IInv, FailuresReported
      <3>2. error \in ToSet(reported) \/ error \in passed
        BY DEF passed
      <3> QED BY <1>5, <1>8, <3>1, <3>2
    <2>3. IsInjective(reported')
      <3>1. CASE reported' = reported
        BY <3>1 DEF IInv, FailuresReported
      <3>2. CASE reported' = Append(reported, error) /\ error \in passed
        <4>1. error \notin ToSet(reported)
          BY <1>4, <3>2 DEF IInv, FailuresReported
        <4>2. IsInjective(reported)
          BY DEF IInv, FailuresReported
        <4> QED BY <1>8, <3>2, <4>1, <4>2, AppendNew
      <3> QED BY <3>1, <3>2 DEF passed
    <2> QED BY <2>1, <2>2, <2>3 DEF FailuresReported
  <1>11. CallsOpen'
    <2>1. unwrapped' \ done' = {}
      BY <1>1, <1>3
    <2> QED BY <1>1, <2>1 DEF CallsOpen
  <1>12. Contained'
    BY <1>1, <1>7 DEF IInv, Contained, Closed, NestedIn
  <1>13. DeclaredKept'
    BY <1>1 DEF IInv, DeclaredKept
  <1>14. DoneReached'
    BY <1>1, <1>6, <1>7 DEF IInv, DoneReached
  <1>15. unwrapped' \cap DOMAIN failed' = {}
    BY <1>1, <1>5 DEF IInv
  <1> QED BY <1>1, <1>9, <1>10, <1>11, <1>12, <1>13, <1>14, <1>15 DEF IInv, Unwrapped

(* What a shape holds is in any closed set it is in.                       *)
LEMMA HeldInside ==
    ASSUME IInv, NEW X \in SUBSET Shapes, Closed(X), NEW s \in X
    PROVE  /\ container[s] \in X \cup {None} /\ ToSet(parents[s]) \subseteq X
           /\ Nested(s) \subseteq X
           /\ container[s] # None => Held(s) = entries[container[s]]
  <1>1. container[s] \in X \cup {None} /\ ToSet(parents[s]) \subseteq X
    BY DEF IInv, Contained
  <1>2. CASE container[s] = None
    BY <1>1, <1>2 DEF Nested, Held, ToSet
  <1>3. CASE container[s] # None
    <2>1. NestedIn(container[s]) \subseteq X
      BY <1>1, <1>3 DEF IInv, Contained
    <2> QED BY <1>1, <1>3, <2>1 DEF Nested, Held, NestedIn
  <1> QED BY <1>2, <1>3

(* A merge, by alias_to or by inherit: what it adds was the referent's.    *)
LEMMA MergeStep ==
    ASSUME IInv, Merge
    PROVE  IInv'
  <1> DEFINE s == Top.shape
  <1>1. /\ phase = "unwrap" /\ stack # <<>> /\ Top.left = <<>> /\ s \notin model.rejected
        /\ done' = done \cup {s} /\ stack' = Front(stack)
        /\ \/ model.alias[s] # None /\ AliasTo(s, model.alias[s])
           \/ model.alias[s] = None /\ Inherit(s)
        /\ UNCHANGED <<model, unwrapped, failed, reported, phase, next>>
    BY DEF Merge, Merging
  <1>2. stack \in Seq(Calls)
    BY <1>1 DEF IInv, CallsOpen
  <1>3. /\ Len(stack) \in Nat \ {0} /\ Top = stack[Len(stack)] /\ Top \in Calls
        /\ stack' \in Seq(Calls) /\ Len(stack') = Len(stack) - 1
        /\ \A i \in 1..(Len(stack) - 1) : stack'[i] = stack[i]
    <2>1. \E f : f \in Calls
      BY <1>1, <1>2, ElementOfSeq, EmptySeq
    <2> QED BY <1>1, <1>2, <2>1, StackFacts
  <1>4. s \in Shapes /\ s \in unwrapped \ done /\ Leads(s) \subseteq Reached
    <2>1. Leads(s) \subseteq Reached \cup ToSet(Top.left)
      BY <1>1, <1>3 DEF IInv, CallsOpen
    <2>2. ToSet(Top.left) = {}
      BY <1>1 DEF ToSet
    <2> QED BY <1>1, <1>3, <2>1, <2>2 DEF IInv, CallsOpen, Calls
  <1> HIDE DEF s
  <1>5. model \in Corpus /\ DeclaredKept /\ model.alias[s] \in Shapes \cup {None}
        /\ model.inherits[s] \in Seq(Shapes)
    BY <1>1, <1>4, ModelFacts DEF IInv, TypeOK
  <1>6. \A t : Leads(t)' = Leads(t)
    BY <1>1 DEF Leads, Named
  <1>7. Reached' = Reached
    BY <1>1 DEF Reached
  <1>8. Inherited(s) \in Seq(Entries)
    <2>1. CASE model.inherits[s] = <<>>
      BY <2>1 DEF Inherited
    <2>2. CASE model.inherits[s] # <<>>
      <3>1. model.inherits[s][1] \in Shapes
        BY <1>4, <1>5, <2>2, ModelFacts
      <3>2. container[model.inherits[s][1]] \in Shapes \cup {None}
        BY <3>1 DEF IInv, TypeOK
      <3> QED BY <1>5, <2>2, <3>1, <3>2 DEF Inherited, Held, DeclaredKept
    <2> QED BY <2>1, <2>2
  <1>9. ASSUME NEW X \in SUBSET Shapes, Closed(X), s \in X
        PROVE  {e.shape : e \in {f \in ToSet(Inherited(s)) : ~f.recursive}} \subseteq X
    <2>1. CASE model.inherits[s] = <<>>
      BY <2>1 DEF Inherited, ToSet
    <2>2. CASE model.inherits[s] # <<>>
      <3>1. model.inherits[s][1] \in X
        BY <1>4, <1>5, <1>9, <2>2, ModelFacts DEF Closed
      <3>2. Nested(model.inherits[s][1]) \subseteq X
        BY <1>9, <3>1, HeldInside
      <3> QED BY <2>2, <3>2 DEF Inherited, Nested
    <2> QED BY <2>1, <2>2
  <1>10. /\ container' \in [Shapes -> Shapes \cup {None}]
         /\ parents' \in [Shapes -> Seq(Shapes)] /\ entries' \in [Shapes -> Seq(Entries)]
         /\ \A t \in Shapes : t # s =>
                container'[t] = container[t] /\ parents'[t] = parents[t] /\ entries'[t] = entries[t]
         /\ \/ /\ model.alias[s] \in Shapes
               /\ container'[s] = container[model.alias[s]]
               /\ parents'[s] = parents[model.alias[s]]
               /\ entries'[s] = entries[s]
            \/ /\ model.alias[s] = None
               /\ container'[s] = s \/ container'[s] = container[s]
               /\ parents'[s] = parents[s]
               /\ entries'[s] = entries[s] \o Inherited(s)
    <2>1. /\ container \in [Shapes -> Shapes \cup {None}] /\ parents \in [Shapes -> Seq(Shapes)]
          /\ entries \in [Shapes -> Seq(Entries)]
      BY <1>5 DEF IInv, TypeOK, DeclaredKept
    <2>2. CASE model.alias[s] # None /\ AliasTo(s, model.alias[s])
      BY <1>4, <1>5, <2>1, <2>2 DEF AliasTo
    <2>3. CASE model.alias[s] = None /\ Inherit(s)
      <3>1. entries[s] \o Inherited(s) \in Seq(Entries)
        BY <1>4, <1>8, <2>1, ConcatProperties
      <3> DEFINE more == entries[s] \o Inherited(s)
      <3>2. /\ entries' = [entries EXCEPT ![s] = more] /\ parents' = parents
            /\ container' = container \/ container' = [container EXCEPT ![s] = s]
        BY <2>3 DEF Inherit
      <3> HIDE DEF more
      <3>3. more \in Seq(Entries)
        BY <3>1 DEF more
      <3>4. /\ entries' \in [Shapes -> Seq(Entries)] /\ entries'[s] = more
            /\ \A t \in Shapes : t # s => entries'[t] = entries[t]
        BY <1>4, <2>1, <3>2, <3>3
      <3>5. /\ container' \in [Shapes -> Shapes \cup {None}]
            /\ container'[s] = s \/ container'[s] = container[s]
            /\ \A t \in Shapes : t # s => container'[t] = container[t]
        BY <1>4, <2>1, <3>2
      <3> QED BY <2>1, <2>3, <3>2, <3>4, <3>5 DEF more
    <2> QED BY <1>1, <2>2, <2>3
  <1>11. \A t \in Shapes :
            ToSet(entries'[t]) = IF t = s /\ model.alias[s] = None
                                 THEN ToSet(entries[s]) \cup ToSet(Inherited(s))
                                 ELSE ToSet(entries[t])
    <2>1. entries[s] \in Seq(Entries)
      BY <1>4, <1>5 DEF DeclaredKept
    <2>2. ToSet(entries[s] \o Inherited(s)) = ToSet(entries[s]) \cup ToSet(Inherited(s))
      BY <1>8, <2>1, ConcatSet
    <2>3. None \notin Shapes
      BY <1>5, ModelFacts
    <2> QED BY <1>10, <2>2, <2>3
  <1>12. TypeOK'
    BY <1>1, <1>4, <1>10 DEF IInv, TypeOK
  <1>13. FailuresReported'
    BY <1>1 DEF IInv, FailuresReported
  <1>14. CallsOpen'
    <2>1. ASSUME NEW i \in 1..Len(stack')
          PROVE  /\ stack'[i].shape \in unwrapped' \ done'
                 /\ Leads(stack'[i].shape) \subseteq Reached' \cup ToSet(stack'[i].left)
      <3>1. i \in 1..Len(stack) /\ i # Len(stack) /\ Len(stack) \in 1..Len(stack)
            /\ stack'[i] = stack[i]
        BY <1>3
      <3>2. stack[i].shape # s
        BY <1>1, <1>3, <3>1 DEF IInv, CallsOpen, s
      <3>3. /\ stack[i].shape \in unwrapped \ done
            /\ Leads(stack[i].shape) \subseteq Reached \cup ToSet(stack[i].left)
        BY <1>1, <3>1 DEF IInv, CallsOpen
      <3> QED BY <1>1, <1>7, <3>1, <3>2, <3>3
    <2>2. ASSUME NEW i \in 1..Len(stack'), NEW j \in 1..Len(stack'),
                 stack'[i].shape = stack'[j].shape
          PROVE  i = j
      <3>1. i \in 1..Len(stack) /\ j \in 1..Len(stack)
            /\ stack'[i] = stack[i] /\ stack'[j] = stack[j]
        BY <1>3
      <3> QED BY <1>1, <2>2, <3>1 DEF IInv, CallsOpen
    <2>3. ASSUME NEW t \in unwrapped' \ done' PROVE \E i \in 1..Len(stack') : stack'[i].shape = t
      <3>1. t \in unwrapped \ done /\ t # s
        BY <1>1, <2>3
      <3>2. PICK i \in 1..Len(stack) : stack[i].shape = t
        BY <1>1, <3>1 DEF IInv, CallsOpen
      <3>3. i # Len(stack)
        BY <1>3, <3>1, <3>2 DEF s
      <3>4. i \in 1..Len(stack') /\ stack'[i].shape = t
        BY <1>3, <3>2, <3>3
      <3> QED BY <3>4
    <2> QED BY <1>1, <1>3, <2>1, <2>2, <2>3 DEF CallsOpen, Leads, Named
  <1>15. Contained'
    <2> SUFFICES ASSUME NEW X \in SUBSET Shapes, Closed(X)', NEW t \in X
                 PROVE  /\ container'[t] \in X \cup {None}
                        /\ ToSet(parents'[t]) \subseteq X
                        /\ NestedIn(t)' \subseteq X
      BY DEF Contained
    <2>1. Closed(X)
      BY <1>6 DEF Closed
    <2>2. \A u \in X : /\ container[u] \in X \cup {None} /\ ToSet(parents[u]) \subseteq X
                      /\ NestedIn(u) \subseteq X
      BY <2>1 DEF IInv, Contained
    <2>3. CASE t # s
      <3>1. NestedIn(t)' = NestedIn(t)
        BY <1>11, <2>3 DEF NestedIn
      <3> QED BY <1>10, <2>2, <2>3, <3>1
    <2>4. CASE t = s /\ model.alias[s] # None
      <3>1. model.alias[s] \in X
        BY <2>1, <2>4 DEF Closed, Leads, Named
      <3>2. NestedIn(t)' = NestedIn(t)
        BY <1>11, <2>4 DEF NestedIn
      <3> QED BY <1>10, <2>2, <2>4, <3>1, <3>2
    <2>5. CASE t = s /\ model.alias[s] = None
      <3>1. None \notin Shapes
        BY <1>5, ModelFacts
      <3>2. ToSet(entries'[t]) = ToSet(entries[s]) \cup ToSet(Inherited(s))
        BY <1>11, <2>5
      <3>3. NestedIn(t)' \subseteq
                NestedIn(s) \cup {e.shape : e \in {f \in ToSet(Inherited(s)) : ~f.recursive}}
        BY <3>2 DEF NestedIn
      <3>4. {e.shape : e \in {f \in ToSet(Inherited(s)) : ~f.recursive}} \subseteq X
        BY <1>9, <2>1, <2>5
      <3> QED BY <1>10, <2>2, <2>5, <3>1, <3>3, <3>4
    <2> QED BY <2>3, <2>4, <2>5
  <1>16. DeclaredKept'
    <2> SUFFICES ASSUME NEW t \in Shapes
                 PROVE  /\ \A part \in ToSet(model.properties[t]) : Holding(part) \in ToSet(entries'[t])
                        /\ model.properties[t] # <<>> => container'[t] = t
                        /\ model.alias[t] = None => parents'[t] = model.inherits[t]
      BY <1>1, <1>10 DEF DeclaredKept, Holding
    <2>1. /\ \A part \in ToSet(model.properties[t]) : Holding(part) \in ToSet(entries[t])
          /\ model.properties[t] # <<>> => container[t] = t
          /\ model.alias[t] = None => parents[t] = model.inherits[t]
      BY <1>5 DEF DeclaredKept
    <2>2. model.alias[t] # None => model.properties[t] = <<>>
      BY <1>5, ModelFacts
    <2>3. None \notin Shapes
      BY <1>5, ModelFacts
    <2>4. \A part \in ToSet(model.properties[t]) : Holding(part) \in ToSet(entries'[t])
      BY <1>11, <2>1
    <2> QED BY <1>10, <2>1, <2>2, <2>3, <2>4
  <1>17. DoneReached'
    BY <1>1, <1>4, <1>6, <1>7 DEF IInv, DoneReached, Reached
  <1> QED BY <1>1, <1>12, <1>13, <1>14, <1>15, <1>16, <1>17 DEF IInv, Unwrapped

(* A failure carried to a shape that was finished.                         *)
LEMMA CarryStep ==
    ASSUME IInv, Carry
    PROVE  IInv'
  <1>1. /\ phase = "carry" /\ UNCHANGED <<model, entries, container, parents, done, reported,
                                         phase, next, stack>>
    BY DEF Carry
  <1>2. PICK s \in ToCarry : \E source \in Sources(s) \cap DOMAIN failed :
            failed' = Failing({s}, failed[source]) /\ unwrapped' = unwrapped \ {s}
    BY DEF Carry
  <1>3. PICK source \in DOMAIN failed :
            failed' = Failing({s}, failed[source]) /\ unwrapped' = unwrapped \ {s}
    BY <1>2
  <1>4. s \in done /\ s \notin DOMAIN failed
    BY <1>2 DEF ToCarry
  <1>5. s \in unwrapped /\ s \in Shapes
    BY <1>1, <1>4 DEF IInv, DoneReached, Reached, TypeOK
  <1>6. /\ DOMAIN failed' = {s} \cup DOMAIN failed /\ failed'[s] = failed[source]
        /\ \A t \in DOMAIN failed : failed'[t] = failed[t]
    BY <1>3, <1>4 DEF Failing
  <1>7. Reached' = Reached
    BY <1>3, <1>5, <1>6 DEF Reached
  <1>8. \A t : Leads(t)' = Leads(t)
    BY <1>1 DEF Leads, Named
  <1>9. TypeOK'
    BY <1>1, <1>3, <1>5, <1>6 DEF IInv, TypeOK
  <1>10. FailuresReported'
    BY <1>1, <1>4, <1>6 DEF IInv, FailuresReported
  <1>11. CallsOpen'
    BY <1>1 DEF CallsOpen
  <1>12. Contained'
    BY <1>1, <1>8 DEF IInv, Contained, Closed, NestedIn
  <1>13. DeclaredKept' /\ DoneReached'
    BY <1>1, <1>7, <1>8 DEF IInv, DeclaredKept, DoneReached
  <1>14. unwrapped' \cap DOMAIN failed' = {} /\ unwrapped' \subseteq done'
    BY <1>1, <1>3, <1>6 DEF IInv
  <1> QED BY <1>1, <1>9, <1>10, <1>11, <1>12, <1>13, <1>14 DEF IInv, Unwrapped

(* Once nothing is left to carry, the flagged shapes lead to flagged ones. *)
LEMMA CarryEndsStep ==
    ASSUME IInv, CarryEnds
    PROVE  IInv'
  <1>1. /\ phase = "carry" /\ ToCarry = {} /\ phase' = "finish" /\ next' = 1
        /\ UNCHANGED <<model, entries, container, parents, unwrapped, done, failed, reported>>
    BY DEF CarryEnds, flattening
  <1>2. ASSUME NEW s \in unwrapped
        PROVE  s \notin model.rejected /\ Leads(s) \subseteq unwrapped
    <2>1. /\ s \in done /\ s \notin DOMAIN failed /\ s \in Shapes
          /\ s \notin model.rejected /\ Leads(s) \subseteq Reached
      BY <1>1, <1>2 DEF IInv, DoneReached, TypeOK
    <2>2. Sources(s) \cap DOMAIN failed = {}
      BY <1>1, <2>1 DEF ToCarry
    <2>3. Leads(s) \subseteq Sources(s)
      <3>1. model \in Corpus /\ DeclaredKept
        BY <1>1 DEF IInv, TypeOK
      <3>2. ToSet(model.inherits[s]) \subseteq ToSet(parents[s])
        <4>1. CASE model.alias[s] = None
          BY <2>1, <3>1, <4>1 DEF DeclaredKept
        <4>2. CASE model.alias[s] # None
          BY <2>1, <3>1, <4>2, ModelFacts DEF ToSet
        <4> QED BY <4>1, <4>2
      <3>3. ToSet(model.properties[s]) \subseteq Nested(s)
        <4> SUFFICES ASSUME NEW part \in ToSet(model.properties[s]) PROVE part \in Nested(s)
          OBVIOUS
        <4>1. model.properties[s] # <<>>
          BY DEF ToSet
        <4>2. Held(s) = entries[s]
          BY <2>1, <3>1, <4>1, ModelFacts DEF DeclaredKept, Held
        <4>3. Holding(part) \in ToSet(Held(s)) /\ ~Holding(part).recursive /\ Holding(part).shape = part
          BY <2>1, <3>1, <4>2 DEF DeclaredKept, Holding
        <4> QED BY <4>3 DEF Nested
      <3> QED BY <3>2, <3>3 DEF Leads, Sources
    <2> QED BY <2>1, <2>2, <2>3 DEF Reached
  <1>3. \A t : Leads(t)' = Leads(t)
    BY <1>1 DEF Leads, Named
  <1>4. Closed(unwrapped)' /\ unwrapped' \cap model'.rejected = {}
    BY <1>1, <1>2, <1>3 DEF Closed
  <1>5. TypeOK' /\ FailuresReported' /\ CallsOpen'
    BY <1>1 DEF IInv, TypeOK, FailuresReported, CallsOpen
  <1>6. Contained'
    BY <1>1, <1>3 DEF IInv, Contained, Closed, NestedIn
  <1> QED BY <1>1, <1>4, <1>5, <1>6 DEF IInv

(* Marking the cycles, which only takes shapes out of containers.          *)
LEMMA FinishStep ==
    ASSUME IInv, Unwrapped, phase' \in {"finish", "end"}, next' \in Nat \ {0},
           UNCHANGED <<model, flattening>>, DOMAIN entries' = Shapes,
           \A c \in Shapes : NestedIn(c)' \subseteq NestedIn(c)
    PROVE  IInv'
  <1>1. UNCHANGED <<model, container, parents, unwrapped, done, failed, reported>>
    BY DEF flattening
  <1>2. \A t : Leads(t)' = Leads(t)
    BY <1>1 DEF Leads, Named
  <1>3. TypeOK' /\ FailuresReported' /\ CallsOpen'
    BY <1>1 DEF IInv, TypeOK, FailuresReported, CallsOpen
  <1>4. Contained'
    <2> SUFFICES ASSUME NEW X \in SUBSET Shapes, Closed(X)', NEW s \in X
                 PROVE  /\ container'[s] \in X \cup {None}
                        /\ ToSet(parents'[s]) \subseteq X
                        /\ NestedIn(s)' \subseteq X
      BY DEF Contained
    <2>1. Closed(X)
      BY <1>2 DEF Closed
    <2> QED BY <1>1, <2>1 DEF IInv, Contained
  <1>5. Closed(unwrapped)' /\ unwrapped' \cap model'.rejected = {}
    BY <1>1, <1>2 DEF IInv, Closed
  <1> QED BY <1>1, <1>3, <1>4, <1>5 DEF IInv, Unwrapped

LEMMA MarkTakesOut ==
    ASSUME IInv, Mark, NEW c \in Shapes
    PROVE  DOMAIN entries' = Shapes /\ NestedIn(c)' \subseteq NestedIn(c)
  <1>0. PICK head \in Heads :
            entries' = [entries EXCEPT ![container[Top.shape]][Top.at] = Marker(head)]
    BY DEF Mark
  <1> DEFINE at == Top.at
             k == container[Top.shape]
             m == Marker(head)
  <1>1. entries' = [entries EXCEPT ![k][at] = m] /\ DOMAIN entries = Shapes
    BY <1>0 DEF IInv, TypeOK
  <1>2. m.recursive = TRUE
    BY DEF Marker
  <1> HIDE DEF k, at, m
  <1>3. DOMAIN entries' = Shapes
    BY <1>1
  <1>4. ASSUME NEW e \in ToSet(entries'[c]), ~e.recursive PROVE e \in ToSet(entries[c])
    <2>1. CASE c # k
      BY <1>1, <1>4, <2>1
    <2>2. CASE c = k
      <3>1. entries'[c] = [entries[c] EXCEPT ![at] = m]
        BY <1>1, <2>2
      <3>2. PICK i \in DOMAIN entries[c] : e = entries'[c][i]
        BY <1>4, <3>1 DEF ToSet
      <3>3. i # at
        BY <1>2, <1>4, <3>1, <3>2
      <3> QED BY <3>1, <3>2, <3>3 DEF ToSet
    <2> QED BY <2>1, <2>2
  <1> QED BY <1>3, <1>4 DEF NestedIn

(* Steps that leave everything but the walk of the cycles.                 *)
LEMMA SameStep ==
    ASSUME IInv, UNCHANGED <<model, entries, flattening, phase, stack>>, next' \in Nat \ {0}
    PROVE  IInv'
  <1>1. UNCHANGED <<model, entries, container, parents, unwrapped, done, failed, reported,
                    phase, stack>>
    BY DEF flattening
  <1>2. \A t : Leads(t)' = Leads(t)
    BY <1>1 DEF Leads, Named
  <1>3. Reached' = Reached
    BY <1>1 DEF Reached
  <1>4. TypeOK' /\ FailuresReported'
    BY <1>1 DEF IInv, TypeOK, FailuresReported
  <1>5. CallsOpen'
    BY <1>1, <1>3 DEF IInv, CallsOpen, Leads, Named
  <1>6. Contained'
    BY <1>1, <1>2 DEF IInv, Contained, Closed, NestedIn
  <1>7. phase \in {"unwrap", "carry"} => DeclaredKept' /\ DoneReached'
    BY <1>1, <1>2, <1>3 DEF IInv, DeclaredKept, DoneReached
  <1> QED BY <1>1, <1>2, <1>4, <1>5, <1>6, <1>7 DEF IInv, Unwrapped, Closed

LEMMA DeclareStep ==
    ASSUME IInv, Declare
    PROVE  IInv'
  <1>1. /\ phase = "unwrap" /\ stack = <<>> /\ next <= Len(Declared) /\ next' = next + 1
        /\ \/ Open(Declared[next]) /\ stack' = <<Call(Declared[next])>>
           \/ UNCHANGED <<model, entries, flattening, phase, stack, visiting>>
    BY DEF Declare
  <1>2. next \in Nat \ {0} /\ Declared \in Seq(Shapes) /\ Len(Declared) \in Nat
    BY CorpusAssumption DEF IInv, TypeOK
  <1>3. Declared[next] \in Shapes
    <2>1. next \in 1..Len(Declared)
      BY <1>1, <1>2
    <2> QED BY <1>2, <2>1, ElementOfSeq
  <1> DEFINE s == Declared[next]
  <1>4. CASE Open(s) /\ stack' = <<Call(s)>>
    <2> DEFINE base == <<>>
    <2>1. base \in Seq(Calls) /\ Len(base) = 0
      OBVIOUS
    <2>2. stack' = Append(base, Call(s))
      BY <1>4
    <2>3. unwrapped \ done = {}
      BY <1>1 DEF IInv, CallsOpen
    <2> HIDE DEF base, s
    <2>4. s \in Shapes /\ next' \in Nat \ {0}
      BY <1>1, <1>2, <1>3 DEF s
    <2>5. 1..Len(base) = {}
      BY <2>1
    <2>6. /\ \A i \in 1..Len(base) :
                /\ base[i].shape \in unwrapped \ done
                /\ Leads(base[i].shape) \subseteq Reached \cup {s} \cup ToSet(base[i].left)
          /\ \A i, j \in 1..Len(base) : base[i].shape = base[j].shape => i = j
          /\ \A t \in unwrapped \ done : \E i \in 1..Len(base) : base[i].shape = t
      BY <2>3, <2>5
    <2> QED BY <1>1, <1>4, <2>1, <2>2, <2>4, <2>6, OpenStep
  <1>5. CASE UNCHANGED <<model, entries, flattening, phase, stack, visiting>>
    BY <1>1, <1>2, <1>5, SameStep
  <1> QED BY <1>1, <1>4, <1>5

LEMMA FollowStep ==
    ASSUME IInv, Follow
    PROVE  IInv'
  <1> DEFINE s == Head(Top.left)
             base == AfterTop(Advanced)
  <1>1. /\ phase = "unwrap" /\ stack # <<>> /\ Top.left # <<>> /\ next' = next
        /\ \/ Open(s) /\ stack' = Append(base, Call(s))
           \/ /\ s \in unwrapped /\ stack' = base
              /\ UNCHANGED <<model, entries, flattening, phase, visiting>>
    BY DEF Follow
  <1>2. /\ s \in Shapes /\ base \in Seq(Calls) /\ Len(base) = Len(stack)
        /\ \A i \in 1..Len(stack) :
                /\ base[i].shape = stack[i].shape
                /\ Leads(stack[i].shape) \subseteq Reached \cup {s} \cup ToSet(base[i].left)
    BY <1>1, AdvancedFacts
  <1> HIDE DEF s, base
  <1>3. /\ \A i \in 1..Len(base) :
            /\ base[i].shape \in unwrapped \ done
            /\ Leads(base[i].shape) \subseteq Reached \cup {s} \cup ToSet(base[i].left)
        /\ \A i, j \in 1..Len(base) : base[i].shape = base[j].shape => i = j
        /\ \A t \in unwrapped \ done : \E i \in 1..Len(base) : base[i].shape = t
    <2>1. /\ \A i \in 1..Len(stack) : stack[i].shape \in unwrapped \ done
          /\ \A i, j \in 1..Len(stack) : stack[i].shape = stack[j].shape => i = j
          /\ \A t \in unwrapped \ done : \E i \in 1..Len(stack) : stack[i].shape = t
      BY <1>1 DEF IInv, CallsOpen
    <2>2. \A t \in unwrapped \ done : \E i \in 1..Len(base) : base[i].shape = t
      BY <1>2, <2>1
    <2> QED BY <1>2, <2>1, <2>2
  <1>4. next' \in Nat \ {0}
    BY <1>1 DEF IInv, TypeOK
  <1>5. CASE Open(s) /\ stack' = Append(base, Call(s))
    BY <1>1, <1>2, <1>3, <1>4, <1>5, OpenStep
  <1>6. CASE /\ s \in unwrapped /\ stack' = base
             /\ UNCHANGED <<model, entries, flattening, phase, visiting>>
    <2>1. UNCHANGED <<model, entries, container, parents, unwrapped, done, failed, reported,
                      phase>>
      BY <1>6 DEF flattening
    <2>2. Reached' = Reached /\ Reached \cup {s} = Reached
      BY <1>6, <2>1 DEF Reached
    <2>3. \A t : Leads(t)' = Leads(t)
      BY <2>1 DEF Leads, Named
    <2>4. CallsOpen'
      BY <1>2, <1>3, <1>6, <2>1, <2>2 DEF CallsOpen, Leads, Named
    <2>5. TypeOK' /\ FailuresReported'
      BY <1>4, <2>1 DEF IInv, TypeOK, FailuresReported
    <2>6. Contained'
      BY <2>1, <2>3 DEF IInv, Contained, Closed, NestedIn
    <2>7. DeclaredKept' /\ DoneReached'
      BY <1>1, <2>1, <2>2, <2>3 DEF IInv, DeclaredKept, DoneReached
    <2> QED BY <1>1, <2>1, <2>4, <2>5, <2>6, <2>7 DEF IInv, Unwrapped
  <1> QED BY <1>1, <1>5, <1>6

LEMMA FailStep ==
    ASSUME IInv, FollowFailed \/ Reject
    PROVE  IInv'
  <1>1. CASE FollowFailed
    <2> DEFINE error == failed[Head(Top.left)]
    <2>1. /\ phase = "unwrap" /\ Head(Top.left) \in DOMAIN failed /\ Unwind(error)
          /\ reported' = reported
      BY <1>1 DEF FollowFailed
    <2>2. error \in ToSet(reported)
      BY <2>1 DEF IInv, FailuresReported
    <2>3. error \in Shapes
      BY <2>2 DEF IInv, TypeOK, ToSet
    <2> HIDE DEF error
    <2> QED BY <2>1, <2>2, <2>3, UnwindStep
  <1>2. CASE Reject
    <2> DEFINE error == Top.shape
    <2>1. /\ phase = "unwrap" /\ stack # <<>> /\ Unwind(error)
          /\ reported' = Append(reported, error)
      BY <1>2 DEF Reject, Merging
    <2>2. stack \in Seq(Calls)
      BY <2>1 DEF IInv, CallsOpen
    <2>3. Len(stack) \in DOMAIN stack /\ stack[Len(stack)] \in Calls
      BY <2>1, <2>2, LenProperties, EmptySeq, ElementOfSeq
    <2>4. error \in Shapes /\ error \in {stack[i].shape : i \in DOMAIN stack}
      BY <2>3 DEF Top, Last, Calls
    <2> HIDE DEF error
    <2> QED BY <2>1, <2>4, UnwindStep
  <1> QED BY <1>1, <1>2

LEMMA UnwrapEndsStep ==
    ASSUME IInv, UnwrapEnds
    PROVE  IInv'
  <1>1. /\ phase = "unwrap" /\ stack = <<>> /\ phase' = "carry" /\ next' = next
        /\ UNCHANGED <<model, entries, container, parents, unwrapped, done, failed, reported>>
    BY DEF UnwrapEnds, flattening
  <1>2. unwrapped \subseteq done
    BY <1>1 DEF IInv, CallsOpen
  <1>3. \A t : Leads(t)' = Leads(t)
    BY <1>1 DEF Leads, Named
  <1>4. TypeOK' /\ FailuresReported' /\ CallsOpen'
    BY <1>1 DEF IInv, TypeOK, FailuresReported, CallsOpen
  <1>5. Contained'
    BY <1>1, <1>3 DEF IInv, Contained, Closed, NestedIn
  <1>6. DeclaredKept' /\ DoneReached'
    BY <1>1, <1>3 DEF IInv, DeclaredKept, DoneReached, Reached
  <1> QED BY <1>1, <1>2, <1>4, <1>5, <1>6 DEF IInv, Unwrapped

LEMMA MarkingStep ==
    ASSUME IInv, FinishDeclared \/ Mark \/ PassMarker \/ Descend \/ Leave \/ FinishEnds
    PROVE  IInv'
  <1>1. /\ phase = "finish" /\ phase' \in {"finish", "end"} /\ UNCHANGED <<model, flattening>>
        /\ next' = next \/ next' = next + 1
        /\ entries' = entries \/ Mark
    BY DEF FinishDeclared, Mark, PassMarker, Descend, Leave, FinishEnds, Enter, InSlot, Leaving
  <1>2. next' \in Nat \ {0}
    BY <1>1 DEF IInv, TypeOK
  <1>3. DOMAIN entries' = Shapes /\ \A c \in Shapes : NestedIn(c)' \subseteq NestedIn(c)
    <2>1. CASE entries' = entries
      BY <2>1 DEF IInv, TypeOK, NestedIn
    <2>2. CASE Mark /\ Shapes # {}
      BY <2>2, MarkTakesOut
    <2>3. CASE Mark /\ Shapes = {}
      BY <2>3 DEF Mark, IInv, TypeOK
    <2> QED BY <1>1, <2>1, <2>2, <2>3
  <1> QED BY <1>1, <1>2, <1>3, FinishStep DEF Unwrapped

LEMMA NextIInv == IInv /\ [Next]_vars => IInv'
  <1> SUFFICES ASSUME IInv, [Next]_vars PROVE IInv'
    OBVIOUS
  <1>1. CASE Declare
    BY <1>1, DeclareStep
  <1>2. CASE Follow
    BY <1>2, FollowStep
  <1>3. CASE FollowFailed \/ Reject
    BY <1>3, FailStep
  <1>4. CASE Merge
    BY <1>4, MergeStep
  <1>5. CASE UnwrapEnds
    BY <1>5, UnwrapEndsStep
  <1>6. CASE Carry
    BY <1>6, CarryStep
  <1>7. CASE CarryEnds
    BY <1>7, CarryEndsStep
  <1>8. CASE FinishDeclared \/ Mark \/ PassMarker \/ Descend \/ Leave \/ FinishEnds
    BY <1>8, MarkingStep
  <1>9. CASE UNCHANGED vars
    <2>1. next \in Nat \ {0}
      BY DEF IInv, TypeOK
    <2> QED BY <1>9, <2>1, SameStep DEF vars
  <1> QED BY <1>1, <1>2, <1>3, <1>4, <1>5, <1>6, <1>7, <1>8, <1>9 DEF Next

(* What is reached when the walk is over leads to nothing that is not; and *)
(* no container or list of parents has anything else in it.                *)
THEOREM UnwrapInvariant == Spec => []IInv
  BY InitIInv, NextIInv, PTL DEF Spec
-----------------------------------------------------------------------------
(* A shape flagged unwrapped is whole, whatever the declarations and       *)
(* however their cycles and failures lie (docs/07 section 6).              *)
THEOREM SpecFlaggedAreWhole == Spec => []FlaggedAreWhole
  <1>1. ASSUME IInv PROVE FlaggedAreWhole
    <2> SUFFICES ASSUME Unwrapped, NEW s \in unwrapped
                 PROVE  s \notin model.rejected /\ Sources(s) \subseteq unwrapped
      BY DEF FlaggedAreWhole
    <2>1. Closed(unwrapped) /\ unwrapped \in SUBSET Shapes /\ s \notin model.rejected
      BY <1>1 DEF IInv, TypeOK
    <2>2. ToSet(parents[s]) \subseteq unwrapped /\ Nested(s) \subseteq unwrapped
      BY <1>1, <2>1, HeldInside
    <2>3. Named(s) \subseteq unwrapped
      BY <2>1 DEF Closed, Leads
    <2> QED BY <2>1, <2>2, <2>3 DEF Sources
  <1> QED BY <1>1, UnwrapInvariant, PTL

(* A failure is reported once, by whichever route it is met, and no shape  *)
(* is marked with one that was not (_Failed).                              *)
THEOREM SpecReportedOnce == Spec => []ReportedOnce
  <1>1. ASSUME IInv PROVE ReportedOnce
    <2>1. reported \in Seq(Shapes) /\ DOMAIN reported = 1..Len(reported)
      BY <1>1, LenProperties DEF IInv, TypeOK
    <2>2. \A i, j \in DOMAIN reported : reported[i] = reported[j] => i = j
      BY <1>1 DEF IInv, FailuresReported, IsInjective
    <2>3. {failed[s] : s \in DOMAIN failed} = ToSet(reported)
      BY <1>1 DEF IInv, FailuresReported
    <2> QED BY <2>2, <2>3 DEF ReportedOnce
  <1> QED BY <1>1, UnwrapInvariant, PTL
-----------------------------------------------------------------------------
(* Walks that end.                                                         *)

LEMMA EndingHasNext ==
    ASSUME NEW to, NEW s \in Ending(to), to[s] \subseteq Shapes
    PROVE  to[s] \subseteq Ending(to)
  <1> DEFINE E == Ending(to)
             S == {x \in E : to[x] \subseteq E}
  <1>1. ASSUME NEW x \in Shapes, to[x] \subseteq S PROVE x \in S
    <2>1. to[x] \subseteq E
      BY <1>1
    <2>2. ASSUME NEW T \in SUBSET Shapes, \A y \in Shapes : to[y] \subseteq T => y \in T
          PROVE  x \in T
      BY <2>1, <2>2 DEF Ending
    <2> QED BY <2>1, <2>2 DEF Ending
  <1>2. S \in SUBSET Shapes
    BY DEF Ending
  <1> HIDE DEF S
  <1>3. s \in S
    BY <1>1, <1>2 DEF Ending
  <1> QED BY <1>3 DEF S

LEMMA EndingFromNext ==
    ASSUME NEW to, NEW s \in Shapes, to[s] \subseteq Ending(to)
    PROVE  s \in Ending(to)
  BY DEF Ending

LEMMA EndingGrows ==
    ASSUME NEW to, NEW less, \A s \in Shapes : less[s] \subseteq to[s]
    PROVE  Ending(to) \subseteq Ending(less)
  BY DEF Ending

(* Of shapes that each go to another of them, no walk ends.                *)
LEMMA NoEndAmong ==
    ASSUME NEW to, NEW C \in SUBSET Shapes, \A s \in C : to[s] \cap C # {}
    PROVE  Ending(to) \cap C = {}
  <1> DEFINE S == Shapes \ C
  <1>1. \A x \in Shapes : to[x] \subseteq S => x \in S
    OBVIOUS
  <1> QED BY <1>1 DEF Ending

-----------------------------------------------------------------------------
(* Flattening.                                                             *)

LeadsTo == [s \in Shapes |-> Leads(s)]
AsDeclared(s) == [i \in DOMAIN model.properties[s] |-> Holding(model.properties[s][i])]

(* The calls of _unwrap are a path of what is named, of which nothing has  *)
(* failed so far.                                                          *)
Walking ==
    \A k \in 1..Len(stack) :
        /\ ToSet(stack[k].left) \subseteq Leads(stack[k].shape)
        /\ Leads(stack[k].shape) \subseteq unwrapped \cup ToSet(stack[k].left)
        /\ k < Len(stack) => stack[k + 1].shape \in Leads(stack[k].shape)

(* A shape not merged is as it was declared; one that was, outside cycles, *)
(* is flattened for good.                                                  *)
Fresh ==
    \A s \in Shapes \ done :
        /\ entries[s] = AsDeclared(s)
        /\ container[s] = IF model.properties[s] = <<>> THEN None ELSE s
SettledFlat ==
    \A s \in done \cap Ending(LeadsTo) :
        /\ Named(s) \cup ToSet(model.inherits[s]) \subseteq done
        /\ container[s] \in done \cup {None}
        /\ Holds(s) = Flattened(s)

FlatInv ==
    /\ phase = "unwrap" => Walking
    /\ phase \in {"unwrap", "carry"} => Fresh /\ SettledFlat
    /\ phase = "carry" => stack = <<>>
    /\ phase = "finish" /\ next = 1 =>
            stack = <<>> /\ SettledFlat /\ unwrapped \subseteq done
(* The shapes that entries hold, a sequence.                               *)
Shaped(held) == [i \in DOMAIN held |-> held[i].shape]

LEMMA ShapedConcat ==
    ASSUME NEW a \in Seq(Entries), NEW b \in Seq(Entries)
    PROVE  Shaped(a \o b) = Shaped(a) \o Shaped(b)
  <1>1. a \o b \in Seq(Entries) /\ Len(a \o b) = Len(a) + Len(b)
        /\ Len(a) \in Nat /\ Len(b) \in Nat
        /\ \A i \in 1..(Len(a) + Len(b)) :
                (a \o b)[i] = IF i <= Len(a) THEN a[i] ELSE b[i - Len(a)]
    BY ConcatProperties, LenProperties
  <1>2. /\ Shaped(a) \in Seq(Shapes) /\ Shaped(b) \in Seq(Shapes)
        /\ Shaped(a \o b) \in Seq(Shapes)
    BY <1>1, ShapesSeq DEF Shaped
  <1>3. /\ DOMAIN a = 1..Len(a) /\ DOMAIN b = 1..Len(b)
        /\ DOMAIN (a \o b) = 1..(Len(a) + Len(b))
    BY <1>1, LenProperties
  <1>4. /\ Len(Shaped(a)) = Len(a) /\ Len(Shaped(b)) = Len(b)
        /\ Len(Shaped(a \o b)) = Len(a) + Len(b)
    BY <1>1, <1>2, <1>3 DEF Shaped
  <1>5. /\ Shaped(a) \o Shaped(b) \in Seq(Shapes)
        /\ Len(Shaped(a) \o Shaped(b)) = Len(a) + Len(b)
        /\ \A i \in 1..(Len(a) + Len(b)) : (Shaped(a) \o Shaped(b))[i] =
                IF i <= Len(a) THEN Shaped(a)[i] ELSE Shaped(b)[i - Len(a)]
    BY <1>2, <1>4, ConcatProperties
  <1>6. ASSUME NEW i \in 1..(Len(a) + Len(b))
        PROVE  Shaped(a \o b)[i] = (Shaped(a) \o Shaped(b))[i]
    <2>1. CASE i <= Len(a)
      BY <1>1, <1>3, <1>5, <2>1 DEF Shaped
    <2>2. CASE ~(i <= Len(a))
      <3>1. i - Len(a) \in 1..Len(b)
        BY <1>1, <2>2
      <3> QED BY <1>1, <1>3, <1>5, <2>2, <3>1 DEF Shaped
    <2> QED BY <2>1, <2>2
  <1> QED BY <1>2, <1>4, <1>5, <1>6, SeqEqual

LEMMA DeclaredShaped ==
    ASSUME model \in Corpus, NEW s \in Shapes
    PROVE  AsDeclared(s) \in Seq(Entries) /\ Shaped(AsDeclared(s)) = model.properties[s]
  <1>1. model.properties[s] \in Seq(Shapes)
    BY ModelFacts
  <1> DEFINE part == model.properties[s]
  <1>2. part \in Seq(Shapes) /\ DOMAIN part = 1..Len(part)
    BY <1>1, LenProperties
  <1>3. AsDeclared(s) \in Seq(Entries)
    BY <1>2, HoldingSeq DEF AsDeclared
  <1>4. DOMAIN AsDeclared(s) = DOMAIN part /\ \A i \in DOMAIN part : AsDeclared(s)[i].shape = part[i]
    BY DEF AsDeclared, Holding
  <1>5. Shaped(AsDeclared(s)) = [i \in DOMAIN part |-> part[i]]
    BY <1>4 DEF Shaped
  <1>6. part = [i \in DOMAIN part |-> part[i]]
    BY <1>2
  <1> QED BY <1>3, <1>5, <1>6

LEMMA FreshHolds ==
    ASSUME model \in Corpus, Fresh, NEW s \in Shapes \ done
    PROVE  Holds(s) = model.properties[s]
  <1>1. Holds(s) = Shaped(Held(s)) /\ None \notin Shapes /\ model.properties[s] \in Seq(Shapes)
    BY ModelFacts DEF Holds, Shaped
  <1>2. CASE model.properties[s] = <<>>
    BY <1>1, <1>2 DEF Fresh, Held, Shaped
  <1>3. CASE model.properties[s] # <<>>
    BY <1>1, <1>3, DeclaredShaped DEF Fresh, Held
  <1> QED BY <1>2, <1>3

(* A call on a shape not yet merged follows only what that leads to.       *)
LEMMA CallInside ==
    ASSUME model \in Corpus, Fresh, NEW s \in Shapes \ done
    PROVE  ToSet(Call(s).left) \subseteq Leads(s)
  <1>1. model.inherits[s] \in Seq(Shapes) /\ model.properties[s] \in Seq(Shapes)
        /\ model.alias[s] \in Shapes \cup {None}
    BY ModelFacts
  <1>2. CASE model.alias[s] # None
    <2>1. ToSet(<<model.alias[s]>>) = {model.alias[s]}
      BY <1>1, <1>2, SingleSet
    <2> QED BY <1>2, <2>1 DEF Call, Leads, Named
  <1>3. CASE model.alias[s] = None
    <2>1. Call(s).left = model.inherits[s] \o Holds(s)
      BY <1>3 DEF Call, Holds
    <2>2. Call(s).left = model.inherits[s] \o model.properties[s]
      BY <2>1, FreshHolds
    <2> QED BY <1>1, <2>2, ConcatSet DEF Leads
  <1> QED BY <1>2, <1>3

LEMMA FlatKept ==
    ASSUME UNCHANGED <<model, entries, container, done>>
    PROVE  /\ \A s : Leads(s)' = Leads(s) /\ LeadsTo' = LeadsTo
           /\ Fresh => Fresh'
           /\ SettledFlat => SettledFlat'
  <1>1. (\A s : Leads(s)' = Leads(s)) /\ LeadsTo' = LeadsTo
    BY DEF Leads, Named, LeadsTo
  <1>2. Fresh => Fresh'
    BY DEF Fresh, AsDeclared
  <1>3. Ending(LeadsTo)' = Ending(LeadsTo)
    BY <1>1 DEF Ending
  <1>4. \A s : Held(s)' = Held(s) /\ Holds(s)' = Holds(s) /\ Flattened(s)' = Flattened(s)
    BY DEF Held, Holds, Flattened
  <1>5. SettledFlat => SettledFlat'
    BY <1>3, <1>4 DEF SettledFlat, Named
  <1> QED BY <1>1, <1>2, <1>5

LEMMA OpenWalking ==
    ASSUME IInv, FlatInv, phase = "unwrap", NEW s \in Shapes, Open(s),
           NEW base \in Seq(Calls), stack' = Append(base, Call(s)),
           \A k \in 1..Len(base) :
                /\ ToSet(base[k].left) \subseteq Leads(base[k].shape)
                /\ Leads(base[k].shape) \subseteq unwrapped \cup {s} \cup ToSet(base[k].left)
                /\ k < Len(base) => base[k + 1].shape \in Leads(base[k].shape),
           base # <<>> => s \in Leads(base[Len(base)].shape)
    PROVE  FlatInv'
  <1>1. /\ UNCHANGED <<model, entries, container, done, phase>>
        /\ unwrapped' = unwrapped \cup {s} /\ s \notin unwrapped /\ s \notin DOMAIN failed
    BY DEF Open, Unfailed
  <1>2. s \in Shapes \ done /\ model \in Corpus /\ Fresh
    BY <1>1 DEF IInv, DoneReached, Reached, TypeOK, FlatInv
  <1>3. /\ Call(s) \in Calls /\ Call(s).shape = s
        /\ Leads(s) \subseteq ToSet(Call(s).left) /\ ToSet(Call(s).left) \subseteq Leads(s)
    BY <1>2, CallFacts, CallInside
  <1>4. /\ Len(stack') = Len(base) + 1 /\ Len(base) \in Nat
        /\ \A i \in 1..Len(base) : stack'[i] = base[i]
        /\ stack'[Len(base) + 1] = Call(s)
    BY <1>3, AppendProperties, LenProperties
  <1>5. /\ \A t : Leads(t)' = Leads(t)
        /\ Fresh' /\ SettledFlat'
    BY <1>1, FlatKept DEF FlatInv
  <1>6. ASSUME NEW k \in 1..Len(stack')
        PROVE  /\ ToSet(stack'[k].left) \subseteq Leads(stack'[k].shape)
               /\ Leads(stack'[k].shape) \subseteq unwrapped' \cup ToSet(stack'[k].left)
               /\ k < Len(stack') => stack'[k + 1].shape \in Leads(stack'[k].shape)
    <2>1. CASE k = Len(base) + 1
      BY <1>3, <1>4, <2>1
    <2>2. CASE k \in 1..Len(base)
      <3>1. /\ stack'[k] = base[k] /\ ToSet(base[k].left) \subseteq Leads(base[k].shape)
            /\ Leads(base[k].shape) \subseteq unwrapped' \cup ToSet(base[k].left)
        BY <1>1, <1>4, <2>2
      <3>2. CASE k < Len(base)
        <4>1. k + 1 \in 1..Len(base)
          BY <1>4, <2>2, <3>2
        <4> QED BY <1>4, <2>2, <3>1, <3>2, <4>1
      <3>3. CASE k = Len(base)
        <4>1. base # <<>>
          BY <1>4, <2>2, EmptySeq
        <4>2. stack'[k + 1].shape = s
          BY <1>3, <1>4, <3>3
        <4> QED BY <3>1, <3>3, <4>1, <4>2
      <3> QED BY <1>4, <2>2, <3>1, <3>2, <3>3
    <2> QED BY <1>4, <2>1, <2>2
  <1>7. Walking'
    BY <1>5, <1>6 DEF Walking
  <1> QED BY <1>1, <1>5, <1>7 DEF FlatInv

LEMMA AdvancedWalking ==
    ASSUME IInv, FlatInv, phase = "unwrap", stack # <<>>, Top.left # <<>>
    PROVE  LET base == AfterTop(Advanced) IN
           /\ base \in Seq(Calls) /\ Head(Top.left) \in Shapes /\ base # <<>>
           /\ \A k \in 1..Len(base) :
                /\ ToSet(base[k].left) \subseteq Leads(base[k].shape)
                /\ Leads(base[k].shape) \subseteq
                        unwrapped \cup {Head(Top.left)} \cup ToSet(base[k].left)
                /\ k < Len(base) => base[k + 1].shape \in Leads(base[k].shape)
           /\ Head(Top.left) \in Leads(base[Len(base)].shape)
  <1> DEFINE base == AfterTop(Advanced)
             s == Head(Top.left)
  <1>1. /\ s \in Shapes /\ base \in Seq(Calls) /\ Len(base) = Len(stack)
        /\ \A i \in 1..Len(stack) : base[i].shape = stack[i].shape
    BY AdvancedFacts
  <1>2. stack \in Seq(Calls) /\ Walking
    BY DEF IInv, CallsOpen, FlatInv
  <1>3. Top \in Calls /\ Top = stack[Len(stack)] /\ Len(stack) \in Nat \ {0}
    <2>1. \E f : f \in Calls
      BY <1>2, ElementOfSeq, EmptySeq
    <2> QED BY <1>2, <2>1, StackFacts
  <1>4. /\ Tail(Top.left) \in Seq(Shapes)
        /\ ToSet(Top.left) = {s} \cup ToSet(Tail(Top.left))
    <2>1. Top.left \in Seq(Shapes)
      BY <1>3 DEF Calls
    <2> QED BY <2>1, TailSet
  <1>5. Advanced \in Calls /\ Advanced.left = Tail(Top.left)
    BY <1>3, <1>4 DEF Advanced, Calls
  <1>6. \A i \in 1..Len(stack) : base[i] = IF i = Len(stack) THEN Advanced ELSE stack[i]
    BY <1>2, <1>5, StackFacts
  <1> HIDE DEF base, s
  <1>7. ASSUME NEW k \in 1..Len(base)
        PROVE  /\ ToSet(base[k].left) \subseteq Leads(base[k].shape)
               /\ Leads(base[k].shape) \subseteq unwrapped \cup {s} \cup ToSet(base[k].left)
               /\ k < Len(base) => base[k + 1].shape \in Leads(base[k].shape)
    <2>1. /\ ToSet(stack[k].left) \subseteq Leads(stack[k].shape)
          /\ Leads(stack[k].shape) \subseteq unwrapped \cup ToSet(stack[k].left)
          /\ k < Len(stack) => stack[k + 1].shape \in Leads(stack[k].shape)
      BY <1>1, <1>2 DEF Walking
    <2>2. k < Len(base) => base[k + 1].shape \in Leads(base[k].shape)
      <3>1. k < Len(base) => k + 1 \in 1..Len(stack)
        BY <1>1, <1>3
      <3> QED BY <1>1, <2>1, <3>1
    <2>3. ToSet(base[k].left) \subseteq ToSet(stack[k].left)
          /\ ToSet(stack[k].left) \subseteq {s} \cup ToSet(base[k].left)
      BY <1>1, <1>3, <1>4, <1>5, <1>6
    <2> QED BY <1>1, <2>1, <2>2, <2>3
  <1>8. Len(base) \in 1..Len(base) /\ base # <<>>
    BY <1>1, <1>3, EmptySeq
  <1>9. s \in Leads(base[Len(base)].shape)
    <2>1. ToSet(Top.left) \subseteq Leads(Top.shape)
      BY <1>1, <1>2, <1>3, <1>8 DEF Walking
    <2> QED BY <1>1, <1>3, <1>4, <1>8, <2>1
  <1> QED BY <1>1, <1>7, <1>8, <1>9 DEF base, s

(* What is merged, outside cycles, leads to what was merged before: what   *)
(* is still on the stack leads to it.                                      *)
LEMMA MergedLast ==
    ASSUME IInv, FlatInv, phase = "unwrap", stack # <<>>, Top.left = <<>>,
           Top.shape \in Ending(LeadsTo), NEW p \in Leads(Top.shape)
    PROVE  p \in done
  <1> DEFINE s == Top.shape
             n == Len(stack)
  <1>1. stack \in Seq(Calls) /\ Walking /\ model \in Corpus
    BY DEF IInv, CallsOpen, FlatInv, TypeOK
  <1>2. Top \in Calls /\ Top = stack[n] /\ n \in Nat \ {0} /\ n \in 1..n
    <2>1. \E f : f \in Calls
      BY <1>1, ElementOfSeq, EmptySeq
    <2> QED BY <1>1, <2>1, StackFacts
  <1>3. s \in Shapes /\ \A i \in 1..Len(stack) : stack[i].shape \in Shapes
    <2>1. \A i \in 1..Len(stack) : stack[i] \in Calls
      BY <1>1, ElementOfSeq
    <2> QED BY <1>2, <2>1 DEF Calls
  <1>4. p \in unwrapped
    <2>1. Leads(s) \subseteq unwrapped \cup ToSet(Top.left)
      BY <1>1, <1>2 DEF Walking
    <2> QED BY <2>1 DEF ToSet
  <1> SUFFICES ASSUME p \notin done PROVE FALSE
    OBVIOUS
  <1>5. PICK i \in 1..n : stack[i].shape = p
    BY <1>4 DEF IInv, CallsOpen
  <1> DEFINE C == {stack[k].shape : k \in i..n}
  <1>6. C \in SUBSET Shapes /\ s \in C /\ p \in C
    BY <1>2, <1>3, <1>5
  <1>7. ASSUME NEW t \in C PROVE LeadsTo[t] \cap C # {}
    <2>1. PICK k \in i..n : t = stack[k].shape
      OBVIOUS
    <2>2. k \in 1..n /\ LeadsTo[t] = Leads(t)
      BY <1>2, <1>6, <2>1 DEF LeadsTo
    <2>3. CASE k = n
      BY <1>2, <1>6, <2>1, <2>2, <2>3
    <2>4. CASE k # n
      <3>1. k < n /\ k + 1 \in i..n
        BY <1>2, <2>1, <2>4
      <3>2. stack[k + 1].shape \in Leads(t)
        BY <1>1, <2>1, <2>2, <3>1 DEF Walking
      <3> QED BY <2>2, <3>1, <3>2
    <2> QED BY <2>3, <2>4
  <1> HIDE DEF C
  <1> QED BY <1>6, <1>7, NoEndAmong

LEMMA MergeFlat ==
    ASSUME IInv, FlatInv, Merge
    PROVE  FlatInv'
  <1> SUFFICES ASSUME NEW s \in Shapes, s = Top.shape PROVE FlatInv'
    <2>1. \E f : f \in Calls
      BY ElementOfSeq, EmptySeq DEF IInv, CallsOpen, Merge, Merging
    <2>2. Top \in Calls
      BY <2>1, StackFacts DEF IInv, CallsOpen, Merge, Merging
    <2> QED BY <2>2 DEF Calls
  <1>1. /\ phase = "unwrap" /\ stack # <<>> /\ Top.left = <<>>
        /\ done' = done \cup {s} /\ stack' = Front(stack)
        /\ \/ model.alias[s] # None /\ AliasTo(s, model.alias[s])
           \/ model.alias[s] = None /\ Inherit(s)
        /\ UNCHANGED <<model, unwrapped, phase>>
    BY DEF Merge, Merging
  <1>2. stack \in Seq(Calls) /\ model \in Corpus /\ Walking /\ Fresh /\ SettledFlat
    BY <1>1 DEF IInv, CallsOpen, TypeOK, FlatInv
  <1>3. /\ Len(stack) \in Nat \ {0} /\ Top = stack[Len(stack)] /\ Top \in Calls
        /\ Len(stack') = Len(stack) - 1
        /\ \A i \in 1..(Len(stack) - 1) : stack'[i] = stack[i]
    <2>1. \E f : f \in Calls
      BY <1>1, <1>2, ElementOfSeq, EmptySeq
    <2> QED BY <1>1, <1>2, <2>1, StackFacts
  <1>4. s \in Shapes \ done
    BY <1>1, <1>3 DEF IInv, CallsOpen, Calls
  <1>5. \A p \in Leads(s) : s \in Ending(LeadsTo) => p \in done
    BY <1>1, MergedLast
  <1>6. /\ entries \in [Shapes -> Seq(Entries)] /\ container \in [Shapes -> Shapes \cup {None}]
        /\ None \notin Shapes /\ model.alias[s] \in Shapes \cup {None}
        /\ model.inherits[s] \in Seq(Shapes) /\ Len(model.inherits[s]) <= 1
    BY <1>1, <1>2, <1>4, ModelFacts DEF IInv, TypeOK, DeclaredKept
  <1>7. /\ \A t : Leads(t)' = Leads(t)
        /\ LeadsTo' = LeadsTo /\ Ending(LeadsTo)' = Ending(LeadsTo)
    BY <1>1 DEF Leads, Named, LeadsTo, Ending
  <1>8. \A t \in Shapes : t # s => entries'[t] = entries[t] /\ container'[t] = container[t]
    BY <1>1, <1>4, <1>6 DEF AliasTo, Inherit
  <1>9. Walking'
    <2> SUFFICES ASSUME NEW k \in 1..Len(stack')
                 PROVE  /\ ToSet(stack'[k].left) \subseteq Leads(stack'[k].shape)
                        /\ Leads(stack'[k].shape) \subseteq unwrapped' \cup ToSet(stack'[k].left)
                        /\ k < Len(stack') => stack'[k + 1].shape \in Leads(stack'[k].shape)
      BY <1>7 DEF Walking
    <2>1. /\ k \in 1..Len(stack) /\ stack'[k] = stack[k]
          /\ k < Len(stack') => k < Len(stack) /\ stack'[k + 1] = stack[k + 1]
      BY <1>3
    <2> QED BY <1>1, <1>2, <2>1 DEF Walking
  <1>10. Fresh'
    <2> SUFFICES ASSUME NEW t \in Shapes \ done'
                 PROVE  /\ entries'[t] = AsDeclared(t)'
                        /\ container'[t] = IF model'.properties[t] = <<>> THEN None ELSE t
      BY DEF Fresh
    <2>1. t \in Shapes \ done /\ t # s
      BY <1>1
    <2> QED BY <1>1, <1>2, <1>8, <2>1 DEF Fresh, AsDeclared
  <1> DEFINE Flat == done \cap Ending(LeadsTo)
  <1>11. ASSUME NEW t \in Flat
         PROVE  t \in Shapes /\ t # s /\ Held(t)' = Held(t) /\ Holds(t)' = Holds(t)
    <2>1. t \in Shapes /\ t # s /\ container[t] \in done \cup {None}
      BY <1>2, <1>4 DEF SettledFlat, Ending
    <2>2. container[t] # s
      BY <1>4, <1>6, <2>1
    <2>3. container'[t] = container[t] /\ container[t] \in Shapes \cup {None}
      BY <1>6, <1>8, <2>1
    <2>4. Held(t)' = Held(t)
      BY <1>8, <2>2, <2>3 DEF Held
    <2> QED BY <2>1, <2>4 DEF Holds
  <1> HIDE DEF Flat
  <1>12. SettledFlat'
    <2> SUFFICES ASSUME NEW t \in done', t \in Ending(LeadsTo)
                 PROVE  /\ Named(t)' \cup ToSet(model'.inherits[t]) \subseteq done'
                        /\ container'[t] \in done' \cup {None}
                        /\ Holds(t)' = Flattened(t)'
      BY <1>7 DEF SettledFlat
    <2>1. t \in Shapes /\ Leads(t) \subseteq Ending(LeadsTo)
      <3>1. t \in Shapes
        BY DEF Ending
      <3>2. LeadsTo[t] = Leads(t) /\ Leads(t) \subseteq Shapes
        BY <1>2, <3>1, ModelFacts DEF LeadsTo
      <3> QED BY <3>1, <3>2, EndingHasNext
    <2>2. Named(t)' = Named(t)
      BY <1>1 DEF Named
    <2>3. /\ model.inherits[t] # <<>> =>
                model.inherits[t][1] \in Leads(t) /\ model.inherits[t][1] \in ToSet(model.inherits[t])
          /\ model.alias[t] # None => model.alias[t] \in Leads(t) /\ model.alias[t] \in Named(t)
      <3>1. model.inherits[t] \in Seq(Shapes)
        BY <1>2, <2>1, ModelFacts
      <3>2. model.inherits[t] # <<>> => 1 \in DOMAIN model.inherits[t]
        BY <3>1, LenProperties, EmptySeq
      <3> QED BY <3>2 DEF Leads, Named, ToSet
    <2>4. CASE t # s
      <3>1. t \in Flat
        BY <1>1, <2>4 DEF Flat
      <3>2. /\ Named(t) \cup ToSet(model.inherits[t]) \subseteq done
            /\ container[t] \in done \cup {None}
            /\ Holds(t) = Flattened(t)
        BY <1>2, <3>1 DEF SettledFlat, Flat
      <3>3. Flattened(t)' = Flattened(t)
        <4>1. model.inherits[t] # <<>> => model.inherits[t][1] \in Flat
          BY <2>1, <2>3, <3>2 DEF Flat
        <4>2. model.alias[t] # None => model.alias[t] \in Flat
          BY <2>1, <2>3, <3>2 DEF Flat
        <4> QED BY <1>1, <1>11, <4>1, <4>2 DEF Flattened
      <3> QED BY <1>1, <1>8, <1>11, <2>1, <2>2, <2>4, <3>1, <3>2, <3>3
    <2>5. CASE t = s
      <3>1. Leads(s) \subseteq Flat /\ Leads(s) \subseteq done
        BY <1>5, <2>1, <2>5 DEF Flat
      <3>2. Named(s) \cup ToSet(model.inherits[s]) \subseteq done'
        BY <1>1, <3>1 DEF Leads
      <3>3. CASE model.alias[s] # None
        <4>1. PICK r \in Flat : r = model.alias[s] /\ AliasTo(s, r)
          BY <1>1, <2>3, <2>5, <3>1, <3>3
        <4>2. container'[s] = container[r] /\ container[r] = container'[r]
          BY <1>4, <1>6, <1>8, <1>11, <4>1 DEF AliasTo
        <4>3. container[r] \in done \cup {None}
          BY <1>2, <4>1 DEF SettledFlat, Flat
        <4>4. Holds(s)' = Holds(r)'
          BY <4>2 DEF Holds, Held
        <4>5. Flattened(s)' = Holds(r)'
          BY <1>1, <3>3, <4>1 DEF Flattened
        <4> QED BY <1>1, <2>2, <2>5, <3>2, <4>2, <4>3, <4>4, <4>5
      <3>4. CASE model.alias[s] = None
        <4>1. Inherit(s)
          BY <1>1, <3>4
        <4>2. Inherited(s) \in Seq(Entries) /\ Shaped(Inherited(s)) =
                IF model.inherits[s] = <<>> THEN <<>> ELSE Holds(model.inherits[s][1])'
          <5>1. CASE model.inherits[s] = <<>>
            BY <5>1 DEF Inherited, Shaped
          <5>2. CASE model.inherits[s] # <<>>
            <6>1. PICK p \in Flat : p = model.inherits[s][1] /\ p \in Shapes
              BY <1>11, <2>3, <2>5, <3>1, <5>2
            <6>2. Holds(p)' = Holds(p) /\ Inherited(s) = Held(p)
              BY <1>11, <5>2, <6>1 DEF Inherited
            <6>3. Held(p) \in Seq(Entries)
              BY <1>6, <6>1 DEF Held
            <6>4. Shaped(Held(p)) = Holds(p) /\ Holds(p)' = Holds(model.inherits[s][1])'
              BY <1>1, <6>1 DEF Holds, Shaped
            <6> QED BY <5>2, <6>2, <6>3, <6>4
          <5> QED BY <5>1, <5>2
        <4>3. entries[s] \in Seq(Entries) /\ Shaped(entries[s]) = model.properties[s]
          BY <1>2, <1>4, DeclaredShaped DEF Fresh
        <4>4. entries'[s] = entries[s] \o Inherited(s)
          BY <1>4, <1>6, <4>1 DEF Inherit
        <4>5. Shaped(entries'[s]) = model.properties[s] \o Shaped(Inherited(s))
          BY <4>2, <4>3, <4>4, ShapedConcat
        <4>6. Flattened(s)' = model.properties[s] \o Shaped(Inherited(s))
          BY <1>1, <3>4, <4>2 DEF Flattened
        <4>7. CASE container'[s] = s
          <5>1. Held(s)' = entries'[s]
            BY <1>4, <1>6, <4>7 DEF Held
          <5>2. Holds(s)' = Shaped(entries'[s])
            BY <5>1 DEF Holds, Shaped
          <5> QED BY <1>1, <2>2, <2>5, <3>2, <4>5, <4>6, <4>7, <5>2
        <4>8. CASE container'[s] # s
          <5>1. /\ Inherited(s) = <<>> /\ container'[s] = container[s]
                /\ container[s] = None /\ model.properties[s] = <<>>
            BY <1>2, <1>4, <1>6, <4>1, <4>8 DEF Inherit, Fresh
          <5>2. Holds(s)' = <<>>
            BY <5>1 DEF Holds, Held
          <5>3. Flattened(s)' = <<>>
            BY <4>6, <5>1 DEF Shaped
          <5> QED BY <1>1, <2>2, <2>5, <3>2, <5>1, <5>2, <5>3
        <4> QED BY <4>7, <4>8
      <3> QED BY <3>3, <3>4
    <2> QED BY <2>4, <2>5
  <1> QED BY <1>1, <1>9, <1>10, <1>12 DEF FlatInv

LEMMA InitFlat == Init => FlatInv
  <1> SUFFICES ASSUME Init PROVE FlatInv
    OBVIOUS
  <1>1. stack = <<>> /\ done = {} /\ phase = "unwrap"
    BY DEF Init
  <1>2. Walking
    BY <1>1, EmptySeq DEF Walking
  <1>3. Fresh /\ SettledFlat
    BY <1>1 DEF Init, Fresh, SettledFlat, AsDeclared
  <1> QED BY <1>1, <1>2, <1>3 DEF FlatInv

LEMMA NextFlat == IInv /\ FlatInv /\ [Next]_vars => FlatInv'
  <1> SUFFICES ASSUME IInv, FlatInv, [Next]_vars PROVE FlatInv'
    OBVIOUS
  <1> USE DEF flattening
  <1>1. CASE Declare
    <2>1. PICK s \in Shapes : s = Declared[next]
      <3>1. Declared \in Seq(Shapes) /\ next \in 1..Len(Declared)
        BY <1>1, CorpusAssumption, LenProperties DEF Declare, IInv, TypeOK
      <3> QED BY <3>1, ElementOfSeq
    <2>2. CASE Open(s) /\ stack' = <<Call(s)>>
      <3>1. phase = "unwrap" /\ Call(s) \in Calls
        BY <1>1, CallFacts DEF Declare
      <3>2. <<>> \in Seq(Calls) /\ Len(<<>>) = 0 /\ Append(<<>>, Call(s)) = <<Call(s)>>
        BY EmptySeq
      <3> DEFINE base == <<>>
      <3>3. /\ base \in Seq(Calls) /\ stack' = Append(base, Call(s))
            /\ \A k \in 1..Len(base) :
                /\ ToSet(base[k].left) \subseteq Leads(base[k].shape)
                /\ Leads(base[k].shape) \subseteq unwrapped \cup {s} \cup ToSet(base[k].left)
                /\ k < Len(base) => base[k + 1].shape \in Leads(base[k].shape)
            /\ base # <<>> => s \in Leads(base[Len(base)].shape)
        BY <2>2, <3>2
      <3> HIDE DEF base
      <3> QED BY <2>2, <3>1, <3>3, OpenWalking
    <2>3. CASE UNCHANGED <<model, entries, flattening, phase, stack, visiting>>
      <3>1. phase = "unwrap" /\ Walking'
        BY <1>1, <2>3 DEF Declare, FlatInv, Walking, Leads, Named
      <3> QED BY <2>3, <3>1, FlatKept DEF FlatInv
    <2> QED BY <1>1, <2>1, <2>2, <2>3 DEF Declare
  <1>2. CASE Follow
    <2> DEFINE base == AfterTop(Advanced)
    <2>1. phase = "unwrap" /\ stack # <<>> /\ Top.left # <<>>
      BY <1>2 DEF Follow
    <2>2. /\ base \in Seq(Calls) /\ Head(Top.left) \in Shapes /\ base # <<>>
          /\ \A k \in 1..Len(base) :
                /\ ToSet(base[k].left) \subseteq Leads(base[k].shape)
                /\ Leads(base[k].shape) \subseteq
                        unwrapped \cup {Head(Top.left)} \cup ToSet(base[k].left)
                /\ k < Len(base) => base[k + 1].shape \in Leads(base[k].shape)
          /\ Head(Top.left) \in Leads(base[Len(base)].shape)
      BY <2>1, AdvancedWalking
    <2>3. PICK s \in Shapes : s = Head(Top.left)
      BY <2>2
    <2>4. CASE Open(s) /\ stack' = Append(base, Call(s))
      <3> HIDE DEF base
      <3> QED BY <2>1, <2>2, <2>3, <2>4, OpenWalking
    <2>5. CASE s \in unwrapped /\ stack' = base
               /\ UNCHANGED <<model, entries, flattening, phase, visiting>>
      <3>1. unwrapped' = unwrapped /\ \A t : Leads(t)' = Leads(t)
        BY <2>5, FlatKept
      <3> HIDE DEF base
      <3>2. Walking'
        BY <2>2, <2>3, <2>5, <3>1 DEF Walking
      <3> QED BY <2>1, <2>5, <3>2, FlatKept DEF FlatInv
    <2> QED BY <1>2, <2>3, <2>4, <2>5 DEF Follow
  <1>3. CASE FollowFailed \/ Reject
    <2>1. /\ stack' = <<>> /\ phase = "unwrap" /\ phase' = phase
          /\ UNCHANGED <<model, entries, container, done>>
      BY <1>3 DEF FollowFailed, Reject, Merging, Unwind
    <2>2. Walking'
      BY <2>1, EmptySeq DEF Walking
    <2> QED BY <2>1, <2>2, FlatKept DEF FlatInv
  <1>4. CASE Merge
    BY <1>4, MergeFlat
  <1>5. CASE UnwrapEnds
    BY <1>5, FlatKept DEF UnwrapEnds, FlatInv
  <1>6. CASE Carry
    <2>1. UNCHANGED <<model, entries, container, done, phase, stack>> /\ phase = "carry"
      BY <1>6 DEF Carry
    <2> QED BY <2>1, FlatKept DEF FlatInv
  <1>7. CASE CarryEnds
    <2>1. UNCHANGED <<model, entries, container, done, unwrapped, stack>> /\ phase = "carry"
          /\ phase' = "finish"
      BY <1>7 DEF CarryEnds
    <2>2. unwrapped \subseteq done
      BY <2>1 DEF IInv
    <2> QED BY <2>1, <2>2, FlatKept DEF FlatInv
  <1>8. CASE FinishDeclared
    BY <1>8 DEF FinishDeclared, Enter, FlatInv, IInv, TypeOK
  <1>9. CASE Mark \/ PassMarker \/ Descend \/ Leave
    <2>1. phase = "finish" /\ phase' = phase /\ next' = next /\ stack # <<>>
      BY <1>9 DEF Mark, PassMarker, Descend, Leave, InSlot, Leaving, Enter
    <2> QED BY <2>1 DEF FlatInv
  <1>10. CASE FinishEnds
    BY <1>10 DEF FinishEnds, FlatInv
  <1>11. CASE UNCHANGED vars
    <2>1. UNCHANGED <<model, entries, container, done, unwrapped, stack, phase, next>>
      BY <1>11 DEF vars
    <2>2. Walking => Walking'
      BY <2>1, FlatKept DEF Walking
    <2> QED BY <2>1, <2>2, FlatKept DEF FlatInv
  <1> QED BY <1>1, <1>2, <1>3, <1>4, <1>5, <1>6, <1>7, <1>8, <1>9, <1>10, <1>11 DEF Next

(* Outside type cycles, the flattening of docs/07 sections 3 and 4 is the  *)
(* one laid down, whichever declaration the walk of _unwrap begins from    *)
(* and however much it shares.                                             *)
THEOREM SpecFlattenedOutsideCycles == Spec => []FlattenedOutsideCycles
  <1>1. Init => IInv /\ FlatInv
    BY InitIInv, InitFlat
  <1>2. IInv /\ FlatInv /\ [Next]_vars => (IInv /\ FlatInv)'
    BY NextIInv, NextFlat
  <1>3. IInv /\ FlatInv => FlattenedOutsideCycles
    BY DEF FlatInv, SettledFlat, LeadsTo, FlattenedOutsideCycles
  <1> QED BY <1>1, <1>2, <1>3, PTL DEF Spec
-----------------------------------------------------------------------------
(* Containers.                                                             *)

(* Whose container a shape has: its own, or that of what it is an alias of *)
(* whenever that has one.                                                  *)
Sharing ==
    \A s \in Shapes :
        /\ container[s] # None =>
            /\ container[container[s]] = container[s] /\ model.alias[container[s]] = None
            /\ model.alias[s] # None => container[model.alias[s]] = container[s]
        /\ model.properties[s] # <<>> => container[s] = s
        /\ model.alias[s] = None /\ model.inherits[s] = <<>> /\ model.properties[s] = <<>>
            => container[s] = None

(* What is declared keeps its place, a marker in place of an alias being   *)
(* possibly one of what that is an alias of.                               *)
InPlace ==
    \A s \in Shapes : \A i \in DOMAIN model.properties[s] :
        /\ i \in DOMAIN entries[s]
        /\ model.alias[model.properties[s][i]] = None =>
                entries[s][i].shape = model.properties[s][i]

Unmarked == \A s \in Shapes : \A e \in ToSet(entries[s]) : ~e.recursive

SharedInv ==
    /\ entries \in [Shapes -> Seq(Entries)]
    /\ Sharing /\ InPlace
    /\ phase \in {"unwrap", "carry"} => Unmarked /\ visiting = {}

LEMMA InitShared == Init => SharedInv
  <1> SUFFICES ASSUME Init PROVE SharedInv
    OBVIOUS
  <1>1. model \in Corpus /\ entries \in [Shapes -> Seq(Entries)]
    BY InitIInv DEF IInv, TypeOK, DeclaredKept, Init
  <1>2. Sharing
    BY <1>1, ModelFacts DEF Init, Sharing
  <1>3. \A s \in Shapes : /\ DOMAIN entries[s] = DOMAIN model.properties[s]
                          /\ \A i \in DOMAIN entries[s] :
                                entries[s][i] = Holding(model.properties[s][i])
    BY DEF Init
  <1>4. InPlace
    <2> SUFFICES ASSUME NEW s \in Shapes, NEW i \in DOMAIN model.properties[s]
                 PROVE  /\ i \in DOMAIN entries[s]
                        /\ entries[s][i].shape = model.properties[s][i]
      BY DEF InPlace
    <2>1. i \in DOMAIN entries[s] /\ entries[s][i] = Holding(model.properties[s][i])
      BY <1>3
    <2> QED BY <2>1 DEF Holding
  <1>5. Unmarked
    <2> SUFFICES ASSUME NEW s \in Shapes, NEW i \in DOMAIN entries[s]
                 PROVE  ~entries[s][i].recursive
      BY DEF Unmarked, ToSet
    <2>1. entries[s][i] = Holding(model.properties[s][i])
      BY <1>3
    <2> QED BY <2>1 DEF Holding
  <1> QED BY <1>1, <1>2, <1>4, <1>5 DEF SharedInv, Init

LEMMA SharedKept ==
    ASSUME SharedInv, UNCHANGED <<model, entries, container>>,
           phase' \in {"unwrap", "carry"} => phase \in {"unwrap", "carry"} /\ visiting' = visiting
    PROVE  SharedInv'
  BY DEF SharedInv, Sharing, InPlace, Unmarked

LEMMA MergeShared ==
    ASSUME IInv, FlatInv, SharedInv, Merge
    PROVE  SharedInv'
  <1> SUFFICES ASSUME NEW s \in Shapes, s = Top.shape PROVE SharedInv'
    <2>1. \E f : f \in Calls
      BY ElementOfSeq, EmptySeq DEF IInv, CallsOpen, Merge, Merging
    <2>2. Top \in Calls
      BY <2>1, StackFacts DEF IInv, CallsOpen, Merge, Merging
    <2> QED BY <2>2 DEF Calls
  <1>1. /\ phase = "unwrap" /\ stack # <<>> /\ s \notin done
        /\ \/ model.alias[s] # None /\ AliasTo(s, model.alias[s])
           \/ model.alias[s] = None /\ Inherit(s)
        /\ UNCHANGED <<model, phase, visiting>>
    <2>1. stack # <<>> /\ phase = "unwrap"
      BY DEF Merge, Merging
    <2>2. Top = stack[Len(stack)] /\ Len(stack) \in 1..Len(stack)
      <3>1. stack \in Seq(Calls)
        BY <2>1 DEF IInv, CallsOpen
      <3>2. \E f : f \in Calls
        BY <2>1, <3>1, ElementOfSeq, EmptySeq
      <3> QED BY <2>1, <3>1, <3>2, StackFacts
    <2> QED BY <2>1, <2>2 DEF Merge, IInv, CallsOpen
  <1>2. /\ model \in Corpus /\ Fresh /\ Sharing /\ InPlace /\ Unmarked
        /\ entries \in [Shapes -> Seq(Entries)] /\ container \in [Shapes -> Shapes \cup {None}]
    BY <1>1 DEF IInv, TypeOK, FlatInv, SharedInv
  <1>3. /\ container[s] = IF model.properties[s] = <<>> THEN None ELSE s
        /\ None \notin Shapes /\ model.alias[s] \in Shapes \cup {None}
        /\ model.alias[s] # None => model.properties[s] = <<>> /\ model.inherits[s] = <<>>
        /\ model.inherits[s] \in Seq(Shapes)
    BY <1>1, <1>2, ModelFacts DEF Fresh
  <1>4. CASE model.alias[s] # None /\ AliasTo(s, model.alias[s])
    <2>1. PICK r \in Shapes : r = model.alias[s]
      BY <1>3, <1>4
    <2>2. /\ container' = [container EXCEPT ![s] = container[r]] /\ container[s] = None
          /\ entries' = entries
      BY <1>3, <1>4, <2>1 DEF AliasTo
    <2>3. ASSUME NEW x \in Shapes, container'[x] # None
          PROVE  /\ container'[container'[x]] = container'[x]
                 /\ model'.alias[container'[x]] = None
                 /\ model'.alias[x] # None => container'[model'.alias[x]] = container'[x]
      <3>1. CASE x # s
        <4>1. container'[x] = container[x] /\ container[x] \in Shapes
          BY <1>2, <2>2, <2>3, <3>1
        <4>2. /\ container[container[x]] = container[x] /\ model.alias[container[x]] = None
              /\ model.alias[x] # None => container[model.alias[x]] = container[x]
          BY <1>2, <2>3, <4>1 DEF Sharing
        <4>3. container[x] # s /\ model.alias[x] # s /\ model.alias[x] \in Shapes \cup {None}
          BY <1>2, <1>4, <2>2, <2>3, <4>1, <4>2, ModelFacts
        <4> QED BY <1>1, <1>2, <2>2, <4>1, <4>2, <4>3
      <3>2. CASE x = s
        <4>1. container'[s] = container[r] /\ container[r] # None /\ r # s
          BY <1>2, <2>2, <2>3, <3>2
        <4>2. container[r] \in Shapes /\ container[container[r]] = container[r]
              /\ model.alias[container[r]] = None
          BY <1>2, <4>1 DEF Sharing
        <4>3. container[r] # s
          BY <1>4, <4>2
        <4> QED BY <1>1, <1>2, <2>1, <2>2, <3>2, <4>1, <4>2, <4>3
      <3> QED BY <3>1, <3>2
    <2>4. ASSUME NEW x \in Shapes
          PROVE  /\ model'.properties[x] # <<>> => container'[x] = x
                 /\ model'.alias[x] = None /\ model'.inherits[x] = <<>>
                    /\ model'.properties[x] = <<>> => container'[x] = None
      BY <1>1, <1>2, <1>3, <1>4, <2>2 DEF Sharing
    <2>5. Sharing'
      BY <2>3, <2>4 DEF Sharing
    <2>6. InPlace' /\ Unmarked'
      BY <1>1, <1>2, <2>2 DEF InPlace, Unmarked
    <2> QED BY <1>1, <1>2, <2>2, <2>5, <2>6 DEF SharedInv
  <1>5. CASE model.alias[s] = None /\ Inherit(s)
    <2>1. PICK more \in Seq(Entries) :
            /\ more = Inherited(s) /\ \A e \in ToSet(more) : ~e.recursive
            /\ model.inherits[s] = <<>> => more = <<>>
      <3>1. CASE model.inherits[s] = <<>>
        <4>1. Inherited(s) = <<>> /\ <<>> \in Seq(Entries) /\ ToSet(<<>>) = {}
          BY <3>1 DEF Inherited, ToSet
        <4> QED BY <3>1, <4>1
      <3>2. CASE model.inherits[s] # <<>>
        <4>1. Inherited(s) = Held(model.inherits[s][1]) /\ model.inherits[s][1] \in Shapes
          BY <1>2, <3>2, ModelFacts DEF Inherited
        <4>2. container[model.inherits[s][1]] \in Shapes \cup {None}
          BY <1>2, <4>1
        <4>3. Held(model.inherits[s][1]) \in Seq(Entries)
          BY <1>2, <4>2 DEF Held
        <4>4. \A e \in ToSet(Held(model.inherits[s][1])) : ~e.recursive
          <5>1. CASE container[model.inherits[s][1]] = None
            BY <5>1 DEF Held, ToSet
          <5>2. CASE container[model.inherits[s][1]] # None
            BY <1>2, <4>2, <5>2 DEF Held, Unmarked
          <5> QED BY <5>1, <5>2
        <4> QED BY <3>2, <4>1, <4>3, <4>4
      <3> QED BY <3>1, <3>2
    <2>2. /\ entries' = [entries EXCEPT ![s] = entries[s] \o more]
          /\ container' = IF more = <<>> THEN container ELSE [container EXCEPT ![s] = s]
      BY <1>5, <2>1 DEF Inherit
    <2>3. entries[s] \in Seq(Entries)
      BY <1>2
    <2>4. /\ entries[s] \o more \in Seq(Entries)
          /\ ToSet(entries[s] \o more) = ToSet(entries[s]) \cup ToSet(more)
          /\ \A i \in DOMAIN entries[s] :
                i \in DOMAIN (entries[s] \o more) /\ (entries[s] \o more)[i] = entries[s][i]
      <3>1. /\ DOMAIN entries[s] = 1..Len(entries[s]) /\ Len(entries[s]) \in Nat
            /\ Len(more) \in Nat
        BY <2>3, LenProperties
      <3>2. /\ entries[s] \o more \in Seq(Entries)
            /\ DOMAIN (entries[s] \o more) = 1..(Len(entries[s]) + Len(more))
            /\ \A i \in 1..Len(entries[s]) : (entries[s] \o more)[i] = entries[s][i]
        BY <2>3, <3>1, ConcatProperties, LenProperties
      <3>3. ToSet(entries[s] \o more) = ToSet(entries[s]) \cup ToSet(more)
        BY <2>3, ConcatSet
      <3> QED BY <3>1, <3>2, <3>3
    <2>5. entries' \in [Shapes -> Seq(Entries)] /\ entries'[s] = entries[s] \o more
          /\ \A t \in Shapes : t # s => entries'[t] = entries[t]
      BY <1>2, <2>2, <2>4
    <2>6. Unmarked'
      BY <1>2, <2>1, <2>4, <2>5 DEF Unmarked
    <2>7. InPlace'
      <3> SUFFICES ASSUME NEW x \in Shapes, NEW i \in DOMAIN model.properties[x]
                   PROVE  /\ i \in DOMAIN entries'[x]
                          /\ model.alias[model.properties[x][i]] = None =>
                                entries'[x][i].shape = model.properties[x][i]
        BY <1>1 DEF InPlace
      <3>1. /\ i \in DOMAIN entries[x]
            /\ model.alias[model.properties[x][i]] = None =>
                    entries[x][i].shape = model.properties[x][i]
        BY <1>2 DEF InPlace
      <3>2. i \in DOMAIN entries'[x] /\ entries'[x][i] = entries[x][i]
        BY <2>4, <2>5, <3>1
      <3> QED BY <3>1, <3>2
    <2>8. /\ \A x \in Shapes : x # s => container'[x] = container[x]
          /\ container'[s] = container[s] \/ container'[s] = s
          /\ container[s] = None \/ container[s] = s
      BY <1>2, <1>3, <2>2
    <2>9. ASSUME NEW x \in Shapes, container'[x] # None
          PROVE  /\ container'[container'[x]] = container'[x]
                 /\ model.alias[container'[x]] = None
                 /\ model.alias[x] # None => container'[model.alias[x]] = container'[x]
      <3>1. CASE x = s
        BY <1>2, <1>5, <2>2, <2>8, <2>9, <3>1
      <3>2. CASE x # s
        <4>1. container'[x] = container[x] /\ container[x] \in Shapes
          BY <1>2, <2>8, <2>9, <3>2
        <4>2. /\ container[container[x]] = container[x] /\ model.alias[container[x]] = None
              /\ model.alias[x] # None => container[model.alias[x]] = container[x]
          BY <1>2, <2>9, <4>1 DEF Sharing
        <4>3. model.alias[x] \in Shapes \cup {None}
          BY <1>2, ModelFacts
        <4>4. container[s] # None => container'[s] = container[s]
          BY <2>8
        <4>5. container'[container[x]] = container[x]
          BY <1>3, <2>8, <4>1, <4>2, <4>4
        <4>6. model.alias[x] # None => container'[model.alias[x]] = container[x]
          BY <1>3, <2>8, <4>1, <4>2, <4>3, <4>4
        <4> QED BY <4>1, <4>2, <4>5, <4>6
      <3> QED BY <3>1, <3>2
    <2>10. ASSUME NEW x \in Shapes
           PROVE  /\ model.properties[x] # <<>> => container'[x] = x
                  /\ model.alias[x] = None /\ model.inherits[x] = <<>>
                     /\ model.properties[x] = <<>> => container'[x] = None
      BY <1>2, <2>1, <2>2, <2>8 DEF Sharing
    <2>11. Sharing'
      BY <1>1, <2>9, <2>10 DEF Sharing
    <2> QED BY <1>1, <1>2, <2>5, <2>6, <2>7, <2>11 DEF SharedInv
  <1> QED BY <1>1, <1>4, <1>5
-----------------------------------------------------------------------------
(* The walk of the cycles.                                                 *)

Visits == [shape : Shapes, at : Nat \ {0}]
Walks == [s \in Shapes |-> Nested(s)]
Ends == Ending(Walks)
Attended == Ends \cup visiting

(* The calls of _finish: each on another shape, and what they have passed  *)
(* ends, or is the next one.                                               *)
Visiting ==
    /\ stack \in Seq(Visits)
    /\ visiting = {stack[i].shape : i \in 1..Len(stack)}
    /\ \A i, j \in 1..Len(stack) : stack[i].shape = stack[j].shape => i = j
Passed ==
    \A i \in 1..Len(stack) : \A j \in 1..(stack[i].at - 1) :
        LET held == Held(stack[i].shape) IN
        /\ j \in DOMAIN held
        /\ ~held[j].recursive =>
            \/ held[j].shape \in Ends
            \/ i < Len(stack) /\ held[j].shape = stack[i + 1].shape
Met ==
    /\ \A s \in Shapes : \A e \in ToSet(entries[s]) : e.recursive => e.shape \in Attended
    /\ \A i \in 1..Len(Declared) : i < next => Declared[i] \in Attended

(* Whatever is being walked is inside all it was reached from.             *)
Enclosed ==
    /\ \A s \in Shapes : \A e \in ToSet(entries[s]) : e.recursive => Inside(s, e.shape)
    /\ \A i, j \in 1..Len(stack) :
        i <= j /\ container[stack[j].shape] # None =>
            Inside(container[stack[j].shape], stack[i].shape)

FinishInv ==
    Unwrapped =>
        /\ Visiting /\ Passed /\ Met /\ Enclosed
        /\ phase = "end" => stack = <<>> /\ next > Len(Declared)

LEMMA VisitFacts ==
    ASSUME Visiting, stack # <<>>, NEW f \in Visits
    PROVE  /\ Len(stack) \in Nat \ {0} /\ Top = stack[Len(stack)] /\ Top \in Visits
           /\ Front(stack) \in Seq(Visits) /\ Len(Front(stack)) = Len(stack) - 1
           /\ \A i \in 1..(Len(stack) - 1) : Front(stack)[i] = stack[i]
           /\ AfterTop(f) \in Seq(Visits) /\ Len(AfterTop(f)) = Len(stack)
           /\ \A i \in 1..Len(stack) :
                AfterTop(f)[i] = IF i = Len(stack) THEN f ELSE stack[i]
  BY LastReplaced DEF Visiting, Top, AfterTop

(* The call on top goes on to its next entry.                              *)
LEMMA OnwardFacts ==
    ASSUME Visiting, stack # <<>>
    PROVE  /\ Len(stack) \in Nat \ {0} /\ Top = stack[Len(stack)] /\ Top \in Visits
           /\ Onward \in Seq(Visits) /\ Len(Onward) = Len(stack)
           /\ \A i \in 1..Len(stack) :
                /\ Onward[i].shape = stack[i].shape
                /\ Onward[i].at = IF i = Len(stack) THEN stack[i].at + 1 ELSE stack[i].at
  <1>1. \E f : f \in Visits
    BY ElementOfSeq, EmptySeq DEF Visiting
  <1>2. Top \in Visits /\ Top = stack[Len(stack)]
    BY <1>1, VisitFacts
  <1> DEFINE f == [Top EXCEPT !.at = Top.at + 1]
  <1>3. f \in Visits /\ f.shape = Top.shape /\ f.at = Top.at + 1 /\ Onward = AfterTop(f)
    BY <1>2 DEF Visits, Onward
  <1> HIDE DEF f
  <1> QED BY <1>2, <1>3, VisitFacts

LEMMA VisitingOnward ==
    ASSUME Visiting, stack # <<>>, stack' = Onward, visiting' = visiting
    PROVE  Visiting'
  <1>1. /\ Len(stack) \in Nat \ {0} /\ stack' \in Seq(Visits) /\ Len(stack') = Len(stack)
        /\ \A i \in 1..Len(stack) : stack'[i].shape = stack[i].shape
    BY OnwardFacts
  <1>2. {stack'[i].shape : i \in 1..Len(stack')} = {stack[i].shape : i \in 1..Len(stack)}
    BY <1>1
  <1>3. visiting' = {stack'[i].shape : i \in 1..Len(stack')}
    BY <1>2 DEF Visiting
  <1>4. \A i, j \in 1..Len(stack') : stack'[i].shape = stack'[j].shape => i = j
    BY <1>1 DEF Visiting
  <1> QED BY <1>1, <1>3, <1>4 DEF Visiting

(* The slot on top, of a container that has that many.                     *)
LEMMA SlotFacts ==
    ASSUME IInv, SharedInv, FinishInv, InSlot
    PROVE  /\ Visiting /\ Top \in Visits /\ Top.at \in 1..Len(Slot)
           /\ container[Top.shape] \in Shapes /\ Slot = entries[container[Top.shape]]
           /\ Slot \in Seq(Entries) /\ Slot[Top.at] \in Entries /\ Top.at \in DOMAIN Slot
  <1>1. Visiting /\ stack # <<>> /\ Top.at <= Len(Slot)
    BY DEF InSlot, FinishInv, Unwrapped
  <1>2. Top \in Visits
    BY <1>1, OnwardFacts
  <1>3. container[Top.shape] \in Shapes \cup {None} /\ entries \in [Shapes -> Seq(Entries)]
    BY <1>2 DEF IInv, TypeOK, SharedInv, Visits
  <1>4. container[Top.shape] # None
    BY <1>1, <1>2 DEF Visits, Slot, Held
  <1>5. Slot = entries[container[Top.shape]] /\ Slot \in Seq(Entries)
    BY <1>3, <1>4 DEF Slot, Held
  <1>6. Top.at \in 1..Len(Slot)
    BY <1>1, <1>2, <1>5, LenProperties DEF Visits
  <1> QED BY <1>1, <1>2, <1>3, <1>4, <1>5, <1>6, ElementOfSeq, LenProperties

(* Calls that have passed no more than was passed, or what ends.           *)
LEMMA HeldKept ==
    ASSUME UNCHANGED <<entries, container>>
    PROVE  /\ \A s : Held(s)' = Held(s) /\ Nested(s)' = Nested(s)
           /\ Walks' = Walks /\ Ends' = Ends
           /\ \A c, head : Inside(c, head)' <=> Inside(c, head)
  <1>1. \A s : Held(s)' = Held(s) /\ Nested(s)' = Nested(s)
    BY DEF Held, Nested
  <1>2. Walks' = Walks
    BY <1>1 DEF Walks
  <1> QED BY <1>1, <1>2 DEF Ends, Ending, Inside

LEMMA DeclaredFinish ==
    ASSUME IInv, SharedInv, FinishInv, FinishDeclared
    PROVE  FinishInv'
  <1>1. PICK s \in Shapes : s = Declared[next]
    <2>1. Declared \in Seq(Shapes) /\ next \in 1..Len(Declared)
      BY CorpusAssumption, LenProperties DEF FinishDeclared, IInv, TypeOK
    <2> QED BY <2>1, ElementOfSeq
  <1>2. /\ phase = "finish" /\ stack = <<>> /\ next' = next + 1
        /\ visiting' = visiting \cup {s} /\ stack' = <<Visit(s)>>
        /\ UNCHANGED <<entries, container, phase>>
    BY <1>1 DEF FinishDeclared, Enter, flattening
  <1>3. Visiting /\ Met /\ Enclosed
    BY <1>2 DEF FinishInv, Unwrapped
  <1>4. Visit(s) \in Visits /\ Visit(s).shape = s /\ Visit(s).at = 1
    BY DEF Visit, Visits
  <1>5. /\ stack' \in Seq(Visits) /\ Len(stack') = 1 /\ stack'[1] = Visit(s)
        /\ visiting = {}
    BY <1>2, <1>3, <1>4, SingleSet, EmptySeq DEF Visiting
  <1>6. Visiting'
    BY <1>2, <1>4, <1>5 DEF Visiting
  <1>7. Passed'
    BY <1>4, <1>5 DEF Passed
  <1>8. Met'
    <2>1. Attended \subseteq Attended' /\ s \in Attended'
      BY <1>2, HeldKept DEF Attended
    <2>2. \A i \in 1..Len(Declared) : i < next + 1 => i < next \/ i = next
      BY CorpusAssumption DEF IInv, TypeOK
    <2> QED BY <1>1, <1>2, <1>3, <2>1, <2>2 DEF Met
  <1>9. Enclosed'
    <2>1. container[s] # None => Inside(container[s], s)
      BY DEF Inside
    <2>2. ASSUME NEW x \in Shapes, NEW e \in ToSet(entries'[x]), e.recursive
          PROVE  Inside(x, e.shape)'
      BY <1>2, <1>3, <2>2, HeldKept DEF Enclosed
    <2>3. ASSUME NEW i \in 1..Len(stack'), NEW j \in 1..Len(stack')
          PROVE  stack'[i].shape = s /\ stack'[j].shape = s
      BY <1>4, <1>5
    <2>4. PICK c : c = container[s]
      OBVIOUS
    <2>5. c # None => Inside(c, s)'
      BY <2>1, <2>4, HeldKept, <1>2
    <2> QED BY <1>2, <2>2, <2>3, <2>4, <2>5 DEF Enclosed
  <1> QED BY <1>2, <1>6, <1>7, <1>8, <1>9 DEF FinishInv

LEMMA PassMarkerFinish ==
    ASSUME IInv, SharedInv, FinishInv, PassMarker
    PROVE  FinishInv'
  <1>1. /\ phase = "finish" /\ stack # <<>> /\ stack' = Onward /\ Slot[Top.at].recursive
        /\ UNCHANGED <<entries, container, phase, next, visiting>> /\ InSlot
    BY DEF PassMarker, InSlot, flattening
  <1>2. Visiting /\ Passed /\ Met /\ Enclosed
    BY <1>1 DEF FinishInv, Unwrapped
  <1>3. /\ Len(stack) \in Nat \ {0} /\ Top = stack[Len(stack)] /\ Top \in Visits
        /\ stack' \in Seq(Visits) /\ Len(stack') = Len(stack)
        /\ \A i \in 1..Len(stack) :
            /\ stack'[i].shape = stack[i].shape
            /\ stack'[i].at = IF i = Len(stack) THEN stack[i].at + 1 ELSE stack[i].at
    BY <1>1, <1>2, OnwardFacts
  <1>4. Top.at \in DOMAIN Slot
    BY <1>1, SlotFacts
  <1>5. Visiting'
    BY <1>1, <1>2, VisitingOnward
  <1>6. Passed'
    <2> SUFFICES ASSUME NEW i \in 1..Len(stack), NEW j \in 1..(stack'[i].at - 1)
                 PROVE  LET held == Held(stack[i].shape) IN
                        /\ j \in DOMAIN held
                        /\ ~held[j].recursive =>
                            \/ held[j].shape \in Ends
                            \/ i < Len(stack) /\ held[j].shape = stack[i + 1].shape
      <3>1. Ends' = Ends
        BY <1>1, HeldKept
      <3> QED BY <1>1, <1>3, <3>1 DEF Passed, Held
    <2>1. CASE j \in 1..(stack[i].at - 1)
      BY <1>2, <2>1 DEF Passed
    <2>2. CASE j \notin 1..(stack[i].at - 1)
      <3>1. stack[i] \in Visits
        BY <1>2, ElementOfSeq DEF Visiting
      <3>2. i = Len(stack) /\ j = Top.at
        BY <1>3, <2>2, <3>1 DEF Visits
      <3> QED BY <1>1, <1>3, <1>4, <3>2 DEF Slot
    <2> QED BY <2>1, <2>2
  <1>7. Met'
    BY <1>1, <1>2, HeldKept DEF Met, Attended
  <1>8. Enclosed'
    BY <1>1, <1>2, <1>3, HeldKept DEF Enclosed
  <1> QED BY <1>1, <1>5, <1>6, <1>7, <1>8 DEF FinishInv

(* What a marker takes the place of, and whose container its head has.     *)
MarkOf(c, at, s, head) ==
    /\ c = container[Top.shape] /\ at = Top.at /\ s = Slot[at].shape
    /\ c \in Shapes /\ at \in DOMAIN entries[c] /\ s \in Shapes
    /\ entries[c][at] = Slot[at]
    /\ head \in visiting /\ head \in Shapes
    /\ container[s] = None \/ container[head] = container[s]
    /\ model.alias[s] = None => head = s
    /\ entries' = [entries EXCEPT ![c] = [entries[c] EXCEPT ![at] = Marker(head)]]

LEMMA MarkFacts ==
    ASSUME IInv, SharedInv, FinishInv, Mark
    PROVE  \E c \in Shapes, at \in Nat, s \in Shapes, head \in Shapes : MarkOf(c, at, s, head)
  <1>1. /\ InSlot /\ phase = "finish"
        /\ \E head \in Heads :
            entries' = [entries EXCEPT ![container[Top.shape]][Top.at] = Marker(head)]
    BY DEF Mark, InSlot
  <1>2. /\ Visiting /\ Top \in Visits /\ Top.at \in DOMAIN Slot
        /\ container[Top.shape] \in Shapes /\ Slot = entries[container[Top.shape]]
        /\ Slot[Top.at] \in Entries
    BY <1>1, SlotFacts
  <1>3. PICK c \in Shapes, at \in Nat, s \in Shapes :
            c = container[Top.shape] /\ at = Top.at /\ s = Slot[at].shape
    BY <1>2 DEF Entries, Visits
  <1>4. PICK head \in Heads :
            entries' = [entries EXCEPT ![container[Top.shape]][Top.at] = Marker(head)]
    BY <1>1
  <1>5. /\ head \in visiting
        /\ \A S \in SUBSET Shapes :
            s \in S /\ (\A x \in S \ visiting : Named(x) \subseteq S) => head \in S
    BY <1>3, <1>4 DEF Heads
  <1>6. visiting \subseteq Shapes
    <2>1. \A i \in 1..Len(stack) : stack[i] \in Visits
      BY <1>2, ElementOfSeq DEF Visiting
    <2> QED BY <1>2, <2>1 DEF Visiting, Visits
  <1>7. model.alias[s] = None => head = s
    <2> SUFFICES ASSUME model.alias[s] = None PROVE head \in {s}
      OBVIOUS
    <2>1. {s} \in SUBSET Shapes /\ Named(s) = {}
      BY DEF Named
    <2> QED BY <1>5, <2>1
  <1>8. ASSUME container[s] # None PROVE container[head] = container[s]
    <2> DEFINE S == {x \in Shapes : container[x] = container[s]}
    <2>1. ASSUME NEW x \in S PROVE Named(x) \subseteq S
      <3>1. /\ x \in Shapes /\ container[x] # None
            /\ model.alias[x] # None => container[model.alias[x]] = container[x]
        BY <1>8 DEF SharedInv, Sharing
      <3>2. model.alias[x] \in Shapes \cup {None}
        BY <3>1, ModelFacts DEF IInv, TypeOK
      <3> QED BY <3>1, <3>2 DEF Named
    <2>2. S \in SUBSET Shapes /\ s \in S
      OBVIOUS
    <2> HIDE DEF S
    <2>3. head \in S
      BY <1>5, <2>1, <2>2
    <2> QED BY <2>3 DEF S
  <1>9. entries' = [entries EXCEPT ![c] = [entries[c] EXCEPT ![at] = Marker(head)]]
    BY <1>3, <1>4
  <1>10. MarkOf(c, at, s, head)
    BY <1>2, <1>3, <1>5, <1>6, <1>7, <1>8, <1>9 DEF MarkOf
  <1> QED BY <1>6, <1>5, <1>10

(* One entry changes, and that to a marker.                                *)
LEMMA MarkedEntries ==
    ASSUME SharedInv, NEW c, NEW at, NEW s, NEW head, MarkOf(c, at, s, head)
    PROVE  /\ entries' \in [Shapes -> Seq(Entries)]
           /\ \A x \in Shapes : x # c => entries'[x] = entries[x]
           /\ DOMAIN entries'[c] = DOMAIN entries[c]
           /\ entries'[c][at] = Marker(head)
           /\ \A i \in DOMAIN entries[c] : i # at => entries'[c][i] = entries[c][i]
  <1>1. c \in Shapes /\ at \in DOMAIN entries[c] /\ entries[c] \in Seq(Entries)
        /\ Marker(head) \in Entries /\ entries \in [Shapes -> Seq(Entries)]
    BY DEF MarkOf, SharedInv, Marker, Entries
  <1>2. entries' = [entries EXCEPT ![c] = [entries[c] EXCEPT ![at] = Marker(head)]]
    BY DEF MarkOf
  <1>3. [entries[c] EXCEPT ![at] = Marker(head)] \in Seq(Entries)
    BY <1>1
  <1> QED BY <1>1, <1>2, <1>3

LEMMA MarkShared ==
    ASSUME IInv, SharedInv, FinishInv, Mark
    PROVE  SharedInv'
  <1>1. PICK c \in Shapes, at \in Nat, s \in Shapes, head \in Shapes : MarkOf(c, at, s, head)
    BY MarkFacts
  <1>2. /\ entries' \in [Shapes -> Seq(Entries)]
        /\ \A x \in Shapes : x # c => entries'[x] = entries[x]
        /\ DOMAIN entries'[c] = DOMAIN entries[c]
        /\ entries'[c][at] = Marker(head)
        /\ \A i \in DOMAIN entries[c] : i # at => entries'[c][i] = entries[c][i]
    BY <1>1, MarkedEntries
  <1>3. UNCHANGED <<model, container, phase>> /\ phase = "finish"
    BY DEF Mark, InSlot, flattening
  <1>4. Sharing'
    BY <1>3 DEF SharedInv, Sharing
  <1>5. InPlace'
    <2> SUFFICES ASSUME NEW x \in Shapes, NEW i \in DOMAIN model.properties[x]
                 PROVE  /\ i \in DOMAIN entries'[x]
                        /\ model.alias[model.properties[x][i]] = None =>
                                entries'[x][i].shape = model.properties[x][i]
      BY <1>3 DEF InPlace
    <2>1. /\ i \in DOMAIN entries[x]
          /\ model.alias[model.properties[x][i]] = None =>
                entries[x][i].shape = model.properties[x][i]
      BY DEF SharedInv, InPlace
    <2>2. CASE x = c /\ i = at
      <3>1. entries[c][at].shape = s /\ (model.alias[s] = None => head = s)
        BY <1>1 DEF MarkOf
      <3> QED BY <1>2, <2>1, <2>2, <3>1 DEF Marker
    <2>3. CASE ~(x = c /\ i = at)
      BY <1>2, <2>1, <2>3
    <2> QED BY <2>2, <2>3
  <1> QED BY <1>2, <1>3, <1>4, <1>5 DEF SharedInv

(* What is inside another stays so once a cycle is marked: the head of a   *)
(* marker has the container of the shape the marker took the place of.     *)
LEMMA InsideKept ==
    ASSUME IInv, SharedInv, FinishInv, Mark, NEW x \in Shapes, NEW h \in Shapes, Inside(x, h)
    PROVE  Inside(x, h)'
  <1>1. PICK c \in Shapes, at \in Nat, s \in Shapes, head \in Shapes : MarkOf(c, at, s, head)
    BY MarkFacts
  <1>2. /\ \A y \in Shapes : y # c => entries'[y] = entries[y]
        /\ DOMAIN entries'[c] = DOMAIN entries[c]
        /\ entries'[c][at] = Marker(head)
        /\ \A i \in DOMAIN entries[c] : i # at => entries'[c][i] = entries[c][i]
    BY <1>1, MarkedEntries
  <1>3. container' = container /\ container \in [Shapes -> Shapes \cup {None}]
        /\ None \notin Shapes
    BY ModelFacts DEF Mark, flattening, IInv, TypeOK
  <1> SUFFICES ASSUME NEW S \in SUBSET Shapes, h \in S,
                      \A t \in S : {e.shape : e \in ToSet(Held(t)')} \subseteq S
               PROVE  \E t \in S : container[t] = x
    BY <1>3 DEF Inside
  <1> DEFINE T == {y \in Shapes :
                    container[y] = None \/ \E t \in S : container[t] = container[y]}
  <1>4. T \in SUBSET Shapes /\ h \in T
    OBVIOUS
  <1>5. ASSUME NEW y \in T, NEW e \in ToSet(Held(y)) PROVE e.shape \in T
    <2>1. container[y] # None
      BY <1>5 DEF Held, ToSet
    <2>2. PICK t \in S : container[t] = container[y]
      BY <2>1
    <2>3. PICK k \in Shapes : k = container[y]
      BY <1>3, <2>1
    <2>4. Held(y) = entries[k] /\ Held(t)' = entries'[k]
      BY <1>3, <2>1, <2>2, <2>3 DEF Held
    <2>5. PICK i \in DOMAIN entries[k] : e = entries[k][i]
      BY <1>5, <2>4 DEF ToSet
    <2>6. CASE k = c /\ i = at
      <3>1. Marker(head) \in ToSet(Held(t)') /\ Marker(head).shape = head
        BY <1>2, <2>4, <2>5, <2>6 DEF ToSet, Marker
      <3>2. head \in S
        BY <3>1
      <3>3. e.shape = s /\ (container[s] = None \/ container[head] = container[s])
        BY <1>1, <2>5, <2>6 DEF MarkOf
      <3> QED BY <3>2, <3>3
    <2>7. CASE ~(k = c /\ i = at)
      <3>1. e \in ToSet(Held(t)')
        BY <1>2, <2>4, <2>5, <2>7 DEF ToSet
      <3>2. e.shape \in S
        BY <3>1
      <3> QED BY <3>2
    <2> QED BY <2>6, <2>7
  <1> HIDE DEF T
  <1>6. \A y \in T : {e.shape : e \in ToSet(Held(y))} \subseteq T
    BY <1>5
  <1>7. PICK y \in T : container[y] = x
    BY <1>4, <1>6 DEF Inside
  <1> QED BY <1>3, <1>7 DEF T

LEMMA MarkFinish ==
    ASSUME IInv, SharedInv, FinishInv, Mark
    PROVE  FinishInv'
  <1>1. /\ phase = "finish" /\ stack # <<>> /\ stack' = Onward /\ InSlot
        /\ UNCHANGED <<container, phase, next, visiting>>
    BY DEF Mark, InSlot, flattening
  <1>2. Visiting /\ Passed /\ Met /\ Enclosed
    BY <1>1 DEF FinishInv, Unwrapped
  <1>3. /\ Len(stack) \in Nat \ {0} /\ Top = stack[Len(stack)] /\ Top \in Visits
        /\ stack' \in Seq(Visits) /\ Len(stack') = Len(stack)
        /\ \A i \in 1..Len(stack) :
            /\ stack'[i].shape = stack[i].shape
            /\ stack'[i].at = IF i = Len(stack) THEN stack[i].at + 1 ELSE stack[i].at
    BY <1>1, <1>2, OnwardFacts
  <1>4. PICK c \in Shapes, at \in Nat, s \in Shapes, head \in Shapes : MarkOf(c, at, s, head)
    BY MarkFacts
  <1>5. /\ \A x \in Shapes : x # c => entries'[x] = entries[x]
        /\ DOMAIN entries'[c] = DOMAIN entries[c]
        /\ entries'[c][at] = Marker(head)
        /\ \A i \in DOMAIN entries[c] : i # at => entries'[c][i] = entries[c][i]
        /\ at \in DOMAIN entries[c]
    BY <1>4, MarkedEntries DEF MarkOf
  <1>6. /\ container \in [Shapes -> Shapes \cup {None}] /\ None \notin Shapes
        /\ c = container[Top.shape] /\ at = Top.at /\ head \in visiting
    BY <1>4, ModelFacts DEF IInv, TypeOK, MarkOf
  <1>7. Marker(head).recursive = TRUE /\ Marker(head).shape = head
    BY DEF Marker
  <1>8. \A i \in 1..Len(stack) : stack[i] \in Visits /\ stack[i].shape \in Shapes
    <2>1. \A i \in 1..Len(stack) : stack[i] \in Visits
      BY <1>2, ElementOfSeq DEF Visiting
    <2> QED BY <2>1 DEF Visits
  <1>9. Visiting'
    BY <1>1, <1>2, VisitingOnward
  <1>10. ASSUME NEW x \in Shapes PROVE Nested(x)' \subseteq Nested(x)
    <2> SUFFICES ASSUME NEW e \in ToSet(Held(x)'), ~e.recursive PROVE e.shape \in Nested(x)
      BY DEF Nested
    <2>1. container[x] # None
      BY <1>1 DEF Held, ToSet
    <2>2. PICK k \in Shapes : k = container[x] /\ Held(x)' = entries'[k] /\ Held(x) = entries[k]
      BY <1>1, <1>6, <2>1 DEF Held
    <2>3. PICK i \in DOMAIN entries'[k] : e = entries'[k][i]
      BY <2>2 DEF ToSet
    <2>4. ~(k = c /\ i = at)
      BY <1>5, <1>7, <2>3
    <2>5. e \in ToSet(Held(x))
      BY <1>5, <2>2, <2>3, <2>4 DEF ToSet
    <2> QED BY <2>5 DEF Nested
  <1>11. Ends \subseteq Ends'
    <2>1. PICK before : before = Walks
      OBVIOUS
    <2>2. PICK after : after = Walks'
      OBVIOUS
    <2>3. \A x \in Shapes : after[x] \subseteq before[x]
      BY <1>10, <2>1, <2>2 DEF Walks
    <2>4. Ending(before) \subseteq Ending(after)
      BY <2>3, EndingGrows
    <2>5. Ends = Ending(before) /\ Ends' = Ending(after)
      BY <2>1, <2>2 DEF Ends, Ending
    <2> QED BY <2>4, <2>5
  <1>12. Passed'
    <2> SUFFICES ASSUME NEW i \in 1..Len(stack), NEW j \in 1..(stack'[i].at - 1),
                        NEW x \in Shapes, x = stack[i].shape
                 PROVE  /\ j \in DOMAIN Held(x)'
                        /\ ~Held(x)'[j].recursive =>
                            \/ Held(x)'[j].shape \in Ends
                            \/ i < Len(stack) /\ Held(x)'[j].shape = stack[i + 1].shape
      <3> SUFFICES ASSUME NEW i \in 1..Len(stack), NEW j \in 1..(stack'[i].at - 1)
                   PROVE  LET held == IF container[stack[i].shape] = None THEN <<>>
                                      ELSE entries'[container[stack[i].shape]] IN
                          /\ j \in DOMAIN held
                          /\ ~held[j].recursive =>
                                \/ held[j].shape \in Ends
                                \/ i < Len(stack) /\ held[j].shape = stack[i + 1].shape
        BY <1>1, <1>3, <1>11 DEF Passed, Held
      <3>1. PICK x \in Shapes : x = stack[i].shape
        BY <1>8
      <3> QED BY <1>1, <3>1 DEF Held
    <2>1. CASE j \in 1..(stack[i].at - 1)
      <3>1. /\ j \in DOMAIN Held(x)
            /\ ~Held(x)[j].recursive =>
                \/ Held(x)[j].shape \in Ends
                \/ i < Len(stack) /\ Held(x)[j].shape = stack[i + 1].shape
        BY <1>2, <2>1 DEF Passed
      <3>2. container[x] # None
        BY <3>1 DEF Held
      <3>3. PICK k \in Shapes : k = container[x] /\ Held(x)' = entries'[k] /\ Held(x) = entries[k]
        BY <1>1, <1>6, <3>2 DEF Held
      <3>4. CASE k = c /\ j = at
        BY <1>5, <1>7, <3>3, <3>4
      <3>5. CASE ~(k = c /\ j = at)
        <4>1. j \in DOMAIN entries'[k] /\ entries'[k][j] = entries[k][j]
          BY <1>5, <3>1, <3>3, <3>5
        <4> QED BY <3>1, <3>3, <4>1
      <3> QED BY <3>4, <3>5
    <2>2. CASE j \notin 1..(stack[i].at - 1)
      <3>1. i = Len(stack) /\ j = at /\ container[x] = c
        BY <1>3, <1>6, <1>8, <2>2 DEF Visits
      <3>2. Held(x)' = entries'[c]
        BY <1>1, <1>6, <3>1 DEF Held
      <3> QED BY <1>5, <1>7, <3>1, <3>2
    <2> QED BY <2>1, <2>2
  <1>13. ASSUME NEW x \in Shapes, NEW e \in ToSet(entries'[x]), e.recursive
         PROVE  e \in ToSet(entries[x]) \/ (x = c /\ e = Marker(head))
    <2>1. PICK i \in DOMAIN entries'[x] : e = entries'[x][i]
      BY <1>13 DEF ToSet
    <2>2. CASE x = c /\ i = at
      BY <1>5, <2>1, <2>2
    <2>3. CASE ~(x = c /\ i = at)
      <3>1. i \in DOMAIN entries[x] /\ e = entries[x][i]
        BY <1>5, <2>1, <2>3
      <3> QED BY <3>1 DEF ToSet
    <2> QED BY <2>2, <2>3
  <1>14. Met'
    <2>1. Attended \subseteq Attended'
      BY <1>1, <1>11 DEF Attended
    <2>2. head \in Attended
      BY <1>6 DEF Attended
    <2>3. ASSUME NEW x \in Shapes, NEW e \in ToSet(entries'[x]), e.recursive
          PROVE  e.shape \in Attended
      BY <1>2, <1>7, <1>13, <2>2, <2>3 DEF Met
    <2> QED BY <1>1, <1>2, <2>1, <2>3 DEF Met
  <1>15. Enclosed'
    <2>1. ASSUME NEW x \in Shapes, NEW e \in ToSet(entries'[x]), e.recursive
          PROVE  Inside(x, e.shape)'
      <3>1. CASE e \in ToSet(entries[x])
        <4>1. e.shape \in Shapes
          <5>1. entries[x] \in Seq(Entries)
            BY DEF SharedInv
          <5>2. \A i \in DOMAIN entries[x] : entries[x][i] \in Entries
            BY <5>1, ElementOfSeq, LenProperties
          <5> QED BY <3>1, <5>2 DEF ToSet, Entries
        <4>2. Inside(x, e.shape)
          BY <1>2, <2>1, <3>1 DEF Enclosed
        <4> QED BY <4>1, <4>2, InsideKept
      <3>2. CASE x = c /\ e = Marker(head)
        <4>1. PICK i \in 1..Len(stack) : stack[i].shape = head
          BY <1>2, <1>6 DEF Visiting
        <4>2. Len(stack) \in 1..Len(stack) /\ i <= Len(stack) /\ container[Top.shape] # None
          BY <1>3, <1>6
        <4>3. Inside(c, head)
          BY <1>2, <1>3, <1>6, <4>1, <4>2 DEF Enclosed
        <4> QED BY <1>7, <3>2, <4>3, InsideKept
      <3> QED BY <1>13, <2>1, <3>1, <3>2
    <2>2. ASSUME NEW i \in 1..Len(stack'), NEW j \in 1..Len(stack'),
                 NEW k \in Shapes, NEW h \in Shapes,
                 i <= j, k = container'[stack'[j].shape], h = stack'[i].shape
          PROVE  Inside(k, h)'
      <3>1. Inside(k, h)
        BY <1>1, <1>2, <1>3, <1>6, <2>2 DEF Enclosed
      <3> QED BY <3>1, InsideKept
    <2>3. \A i \in 1..Len(stack') :
            stack'[i].shape \in Shapes /\ container'[stack'[i].shape] \in Shapes \cup {None}
      BY <1>1, <1>3, <1>6, <1>8
    <2> QED BY <2>1, <2>2, <2>3 DEF Enclosed
  <1> QED BY <1>1, <1>9, <1>12, <1>14, <1>15 DEF FinishInv

LEMMA DescendFinish ==
    ASSUME IInv, SharedInv, FinishInv, Descend
    PROVE  FinishInv'
  <1>1. /\ phase = "finish" /\ stack # <<>> /\ InSlot /\ Heads = {} /\ ~Slot[Top.at].recursive
        /\ UNCHANGED <<entries, container, phase, next>>
    BY DEF Descend, Enter, InSlot, flattening
  <1>2. Visiting /\ Passed /\ Met /\ Enclosed
    BY <1>1 DEF FinishInv, Unwrapped
  <1>3. /\ Len(stack) \in Nat \ {0} /\ Top = stack[Len(stack)] /\ Top \in Visits
        /\ Onward \in Seq(Visits) /\ Len(Onward) = Len(stack)
        /\ \A i \in 1..Len(stack) :
            /\ Onward[i].shape = stack[i].shape
            /\ Onward[i].at = IF i = Len(stack) THEN stack[i].at + 1 ELSE stack[i].at
    BY <1>1, <1>2, OnwardFacts
  <1>4. /\ container[Top.shape] \in Shapes /\ Slot = entries[container[Top.shape]]
        /\ Slot[Top.at] \in Entries /\ Top.at \in DOMAIN Slot
    BY <1>1, SlotFacts
  <1>5. PICK s \in Shapes : s = Slot[Top.at].shape
    BY <1>4 DEF Entries
  <1>6. stack' = Append(Onward, Visit(s)) /\ visiting' = visiting \cup {s}
    BY <1>5 DEF Descend, Enter
  <1>7. Visit(s) \in Visits /\ Visit(s).shape = s /\ Visit(s).at = 1
    BY DEF Visit, Visits
  <1>8. /\ stack' \in Seq(Visits) /\ Len(stack') = Len(stack) + 1
        /\ stack'[Len(stack) + 1].shape = s /\ stack'[Len(stack) + 1].at = 1
        /\ \A i \in 1..Len(stack) :
            /\ stack'[i].shape = stack[i].shape
            /\ stack'[i].at = IF i = Len(stack) THEN stack[i].at + 1 ELSE stack[i].at
    <2>1. /\ stack' \in Seq(Visits) /\ Len(stack') = Len(stack) + 1
          /\ stack'[Len(stack) + 1] = Visit(s)
          /\ \A i \in 1..Len(stack) : stack'[i] = Onward[i]
      BY <1>3, <1>6, <1>7, AppendProperties
    <2> QED BY <1>3, <1>7, <2>1
  <1>9. s \notin visiting
    BY <1>1, <1>5 DEF Heads
  <1>10. Visiting'
    <2>1. {stack'[i].shape : i \in 1..Len(stack')}
            = {stack[i].shape : i \in 1..Len(stack)} \cup {s}
      <3>1. ASSUME NEW i \in 1..Len(stack')
            PROVE  stack'[i].shape = s \/ (i \in 1..Len(stack) /\ stack'[i].shape = stack[i].shape)
        BY <1>3, <1>8
      <3>2. \A i \in 1..Len(stack) : i \in 1..Len(stack') /\ stack'[i].shape = stack[i].shape
        BY <1>3, <1>8
      <3>3. Len(stack) + 1 \in 1..Len(stack')
        BY <1>3, <1>8
      <3> QED BY <1>8, <3>1, <3>2, <3>3
    <2>2. visiting' = {stack'[i].shape : i \in 1..Len(stack')}
      BY <1>2, <1>6, <2>1 DEF Visiting
    <2>3. \A i \in 1..Len(stack) : stack[i].shape # s
      BY <1>2, <1>9 DEF Visiting
    <2>4. ASSUME NEW i \in 1..Len(stack'), NEW j \in 1..Len(stack'),
                 stack'[i].shape = stack'[j].shape
          PROVE  i = j
      <3>1. CASE i \in 1..Len(stack) /\ j \in 1..Len(stack)
        <4>1. stack[i].shape = stack[j].shape
          BY <1>8, <2>4, <3>1
        <4> QED BY <1>2, <3>1, <4>1 DEF Visiting
      <3>2. CASE i = Len(stack) + 1 \/ j = Len(stack) + 1
        BY <1>3, <1>8, <2>3, <2>4, <3>2
      <3> QED BY <1>3, <1>8, <3>1, <3>2
    <2> QED BY <1>8, <2>2, <2>4 DEF Visiting
  <1>11. Passed'
    <2>1. Ends' = Ends
      BY <1>1, HeldKept
    <2> SUFFICES ASSUME NEW i \in 1..Len(stack'), NEW j \in 1..(stack'[i].at - 1)
                 PROVE  LET held == IF container[stack'[i].shape] = None THEN <<>>
                                    ELSE entries[container[stack'[i].shape]] IN
                        /\ j \in DOMAIN held
                        /\ ~held[j].recursive =>
                            \/ held[j].shape \in Ends
                            \/ i < Len(stack') /\ held[j].shape = stack'[i + 1].shape
      BY <1>1, <2>1 DEF Passed, Held
    <2>2. i \in 1..Len(stack)
      BY <1>3, <1>8
    <2>3. stack'[i + 1].shape = IF i < Len(stack) THEN stack[i + 1].shape ELSE s
      BY <1>3, <1>8, <2>2
    <2>4. CASE j \in 1..(stack[i].at - 1)
      <3>1. LET held == IF container[stack[i].shape] = None THEN <<>>
                        ELSE entries[container[stack[i].shape]] IN
            /\ j \in DOMAIN held
            /\ ~held[j].recursive =>
                \/ held[j].shape \in Ends
                \/ i < Len(stack) /\ held[j].shape = stack[i + 1].shape
        BY <1>2, <2>2, <2>4 DEF Passed, Held
      <3> QED BY <1>3, <1>8, <2>2, <2>3, <3>1
    <2>5. CASE j \notin 1..(stack[i].at - 1)
      <3>1. stack[i] \in Visits
        BY <1>2, <2>2, ElementOfSeq DEF Visiting
      <3>2. i = Len(stack) /\ j = Top.at
        <4>1. stack[i].at \in Nat \ {0}
              /\ stack'[i].at = IF i = Len(stack) THEN stack[i].at + 1 ELSE stack[i].at
          BY <1>8, <2>2, <3>1 DEF Visits
        <4>2. i = Len(stack) /\ j = stack[i].at
          BY <2>5, <4>1
        <4> QED BY <1>3, <4>2
      <3>3. container[stack'[i].shape] = container[Top.shape] /\ container[Top.shape] # None
        BY <1>3, <1>4, <1>8, <3>2, ModelFacts DEF IInv, TypeOK
      <3> QED BY <1>3, <1>4, <1>5, <1>8, <2>2, <2>3, <3>2, <3>3
    <2> QED BY <2>4, <2>5
  <1>12. Met'
    <2>1. Attended \subseteq Attended'
      BY <1>1, <1>6, HeldKept DEF Attended
    <2> QED BY <1>1, <1>2, <2>1 DEF Met
  <1>13. Enclosed'
    <2>1. ASSUME NEW x \in Shapes, NEW e \in ToSet(entries'[x]), e.recursive
          PROVE  Inside(x, e.shape)'
      BY <1>1, <1>2, <2>1, HeldKept DEF Enclosed
    <2>2. ASSUME NEW i \in 1..Len(stack'), NEW j \in 1..Len(stack'), i <= j,
                 NEW k \in Shapes, k = container[stack'[j].shape],
                 NEW h \in Shapes, h = stack'[i].shape
          PROVE  Inside(k, h)
      <3>1. None \notin Shapes
        BY ModelFacts DEF IInv, TypeOK
      <3>2. CASE j \in 1..Len(stack)
        <4>1. i \in 1..Len(stack)
          BY <1>3, <1>8, <2>2, <3>2
        <4> QED BY <1>2, <1>8, <2>2, <3>1, <3>2, <4>1 DEF Enclosed
      <3>3. CASE j = Len(stack) + 1 /\ i = j
        BY <1>8, <2>2, <3>3 DEF Inside
      <3>4. CASE j = Len(stack) + 1 /\ i \in 1..Len(stack)
        <4>1. PICK c \in Shapes : c = container[Top.shape]
          BY <1>4
        <4>2. Inside(c, h)
          <5>1. Len(stack) \in 1..Len(stack) /\ i <= Len(stack) /\ stack[i].shape = h
            BY <1>3, <1>8, <2>2, <3>4
          <5> QED BY <1>2, <1>3, <3>1, <3>4, <4>1, <5>1 DEF Enclosed
        <4> SUFFICES ASSUME NEW S \in SUBSET Shapes, h \in S,
                            \A t \in S : {e.shape : e \in ToSet(Held(t))} \subseteq S
                     PROVE  \E t \in S : container[t] = k
          BY DEF Inside
        <4>3. PICK t \in S : container[t] = c
          BY <4>2 DEF Inside
        <4>4. Held(t) = Slot
          BY <1>4, <3>1, <4>1, <4>3 DEF Held
        <4>5. Slot[Top.at] \in ToSet(Held(t))
          BY <1>4, <4>4 DEF ToSet
        <4>6. s \in S
          BY <1>5, <4>5
        <4> QED BY <1>8, <2>2, <3>4, <4>6
      <3> QED BY <1>3, <1>8, <3>2, <3>3, <3>4
    <2>3. \A i \in 1..Len(stack') :
            stack'[i].shape \in Shapes /\ container[stack'[i].shape] \in Shapes \cup {None}
      <3>1. \A i \in 1..Len(stack') : stack'[i] \in Visits
        BY <1>8, ElementOfSeq
      <3> QED BY <3>1 DEF Visits, IInv, TypeOK
    <2> QED BY <1>1, <2>1, <2>2, <2>3, HeldKept DEF Enclosed
  <1> QED BY <1>1, <1>10, <1>11, <1>12, <1>13 DEF FinishInv

(* A call ends when all its shape holds ends.                              *)
LEMMA LeaveFinish ==
    ASSUME IInv, SharedInv, FinishInv, Leave
    PROVE  FinishInv'
  <1>1. /\ phase = "finish" /\ stack # <<>> /\ stack' = Front(stack) /\ Leaving
        /\ visiting' = visiting \ {Top.shape}
        /\ UNCHANGED <<entries, container, phase, next>>
    BY DEF Leave, Leaving, flattening
  <1>2. Visiting /\ Passed /\ Met /\ Enclosed
    BY <1>1 DEF FinishInv, Unwrapped
  <1>3. /\ Len(stack) \in Nat \ {0} /\ Top = stack[Len(stack)] /\ Top \in Visits
        /\ stack' \in Seq(Visits) /\ Len(stack') = Len(stack) - 1
        /\ \A i \in 1..(Len(stack) - 1) : stack'[i] = stack[i]
    <2>1. \E f : f \in Visits
      BY <1>1, <1>2, ElementOfSeq, EmptySeq DEF Visiting
    <2> QED BY <1>1, <1>2, <2>1, VisitFacts
  <1>4. PICK s \in Shapes : s = Top.shape
    BY <1>3 DEF Visits
  <1>5. s \in Ends
    <2>1. Held(s) \in Seq(Entries) /\ Slot = Held(s)
      BY <1>4 DEF IInv, TypeOK, SharedInv, Held, Slot
    <2>2. ASSUME NEW e \in ToSet(Held(s)), ~e.recursive PROVE e.shape \in Ends
      <3>1. PICK j \in 1..Len(Held(s)) : e = Held(s)[j]
        BY <2>1, LenProperties DEF ToSet
      <3>2. Len(stack) \in 1..Len(stack) /\ j \in 1..(stack[Len(stack)].at - 1)
        BY <1>1, <1>3, <2>1, LenProperties DEF Leaving, Visits
      <3> QED BY <1>2, <1>3, <1>4, <2>2, <3>1, <3>2 DEF Passed
    <2>3. Nested(s) \subseteq Ends
      BY <2>2 DEF Nested
    <2> QED BY <2>3, EndingFromNext DEF Ends, Walks
  <1>6. Visiting'
    <2>1. {stack'[i].shape : i \in 1..Len(stack')} = visiting \ {s}
      <3>1. ASSUME NEW i \in 1..Len(stack')
            PROVE  stack'[i].shape \in visiting \ {s}
        <4>1. i \in 1..Len(stack) /\ i # Len(stack) /\ Len(stack) \in 1..Len(stack)
              /\ stack'[i] = stack[i]
          BY <1>3
        <4> QED BY <1>2, <1>3, <1>4, <4>1 DEF Visiting
      <3>2. ASSUME NEW x \in visiting \ {s}
            PROVE  \E i \in 1..Len(stack') : stack'[i].shape = x
        <4>1. PICK i \in 1..Len(stack) : stack[i].shape = x
          BY <1>2 DEF Visiting
        <4>2. i # Len(stack)
          BY <1>3, <1>4, <4>1
        <4>3. i \in 1..Len(stack') /\ stack'[i] = stack[i]
          BY <1>3, <4>1, <4>2
        <4> QED BY <4>1, <4>3
      <3> QED BY <3>1, <3>2
    <2>2. \A i, j \in 1..Len(stack') : stack'[i].shape = stack'[j].shape => i = j
      BY <1>2, <1>3 DEF Visiting
    <2> QED BY <1>1, <1>3, <1>4, <2>1, <2>2 DEF Visiting
  <1>7. Passed'
    <2>1. Ends' = Ends
      BY <1>1, HeldKept
    <2> SUFFICES ASSUME NEW i \in 1..Len(stack'), NEW j \in 1..(stack'[i].at - 1)
                 PROVE  LET held == IF container[stack'[i].shape] = None THEN <<>>
                                    ELSE entries[container[stack'[i].shape]] IN
                        /\ j \in DOMAIN held
                        /\ ~held[j].recursive =>
                            \/ held[j].shape \in Ends
                            \/ i < Len(stack') /\ held[j].shape = stack'[i + 1].shape
      BY <1>1, <2>1 DEF Passed, Held
    <2>2. i \in 1..Len(stack) /\ stack'[i] = stack[i]
      BY <1>3
    <2>3. LET held == IF container[stack[i].shape] = None THEN <<>>
                      ELSE entries[container[stack[i].shape]] IN
          /\ j \in DOMAIN held
          /\ ~held[j].recursive =>
                \/ held[j].shape \in Ends
                \/ i < Len(stack) /\ held[j].shape = stack[i + 1].shape
      BY <1>2, <2>2 DEF Passed, Held
    <2>4. stack[i + 1].shape = IF i < Len(stack') THEN stack'[i + 1].shape ELSE s
      BY <1>3, <1>4, <2>2
    <2> QED BY <1>5, <2>2, <2>3, <2>4
  <1>8. Met'
    <2>1. Attended \subseteq Attended'
      BY <1>1, <1>4, <1>5, HeldKept DEF Attended
    <2> QED BY <1>1, <1>2, <2>1 DEF Met
  <1>9. Enclosed'
    <2>1. \A i \in 1..Len(stack') : i \in 1..Len(stack) /\ stack'[i] = stack[i]
      BY <1>3
    <2> QED BY <1>1, <1>2, <2>1, HeldKept DEF Enclosed
  <1> QED BY <1>1, <1>6, <1>7, <1>8, <1>9 DEF FinishInv

LEMMA NextShared == IInv /\ FlatInv /\ SharedInv /\ FinishInv /\ [Next]_vars => SharedInv'
  <1> SUFFICES ASSUME IInv, FlatInv, SharedInv, FinishInv, [Next]_vars PROVE SharedInv'
    OBVIOUS
  <1> USE DEF flattening
  <1>1. CASE Declare
    <2>1. UNCHANGED <<model, entries, container, phase, visiting>>
      BY <1>1 DEF Declare, Open
    <2> QED BY <2>1, SharedKept
  <1>2. CASE Follow
    <2>1. UNCHANGED <<model, entries, container, phase, visiting>>
      BY <1>2 DEF Follow, Open
    <2> QED BY <2>1, SharedKept
  <1>3. CASE FollowFailed \/ Reject
    <2>1. UNCHANGED <<model, entries, container, phase, visiting>>
      BY <1>3 DEF FollowFailed, Reject, Unwind
    <2> QED BY <2>1, SharedKept
  <1>4. CASE Merge
    BY <1>4, MergeShared
  <1>5. CASE UnwrapEnds \/ Carry \/ CarryEnds
    <2>1. UNCHANGED <<model, entries, container, visiting>> /\ phase \in {"unwrap", "carry"}
      BY <1>5 DEF UnwrapEnds, Carry, CarryEnds
    <2> QED BY <2>1, SharedKept
  <1>6. CASE FinishDeclared \/ PassMarker \/ Descend \/ Leave \/ FinishEnds
    <2>1. UNCHANGED <<model, entries, container>> /\ phase' \in {"finish", "end"}
      BY <1>6 DEF FinishDeclared, PassMarker, Descend, Leave, FinishEnds, Enter, InSlot, Leaving
    <2> QED BY <2>1, SharedKept
  <1>7. CASE Mark
    BY <1>7, MarkShared
  <1>8. CASE UNCHANGED vars
    BY <1>8, SharedKept DEF vars
  <1> QED BY <1>1, <1>2, <1>3, <1>4, <1>5, <1>6, <1>7, <1>8 DEF Next

LEMMA NextFinish == IInv /\ FlatInv /\ SharedInv /\ FinishInv /\ [Next]_vars => FinishInv'
  <1> SUFFICES ASSUME IInv, FlatInv, SharedInv, FinishInv, [Next]_vars PROVE FinishInv'
    OBVIOUS
  <1> USE DEF flattening
  <1>1. CASE Declare \/ Follow \/ FollowFailed \/ Reject \/ Merge
    <2>1. phase' = "unwrap"
      BY <1>1 DEF Declare, Follow, FollowFailed, Reject, Merge, Merging, Open, Unwind
    <2> QED BY <2>1 DEF FinishInv, Unwrapped
  <1>2. CASE UnwrapEnds \/ Carry
    <2>1. phase' = "carry"
      BY <1>2 DEF UnwrapEnds, Carry
    <2> QED BY <2>1 DEF FinishInv, Unwrapped
  <1>3. CASE CarryEnds
    <2>1. /\ phase = "carry" /\ phase' = "finish" /\ next' = 1
          /\ UNCHANGED <<entries, container, stack, visiting>>
      BY <1>3 DEF CarryEnds
    <2>2. stack' = <<>> /\ visiting' = {} /\ Unmarked'
      BY <2>1 DEF FlatInv, SharedInv, Unmarked
    <2>3. stack' \in Seq(Visits) /\ 1..Len(stack') = {}
      BY <2>2
    <2>4. Visiting'
      BY <2>2, <2>3 DEF Visiting
    <2>5. Passed' /\ Enclosed'
      BY <2>2, <2>3 DEF Passed, Enclosed, Unmarked
    <2>6. Met'
      BY <2>1, <2>2 DEF Met, Unmarked
    <2> QED BY <2>1, <2>4, <2>5, <2>6 DEF FinishInv
  <1>4. CASE FinishDeclared
    BY <1>4, DeclaredFinish
  <1>5. CASE Mark
    BY <1>5, MarkFinish
  <1>6. CASE PassMarker
    BY <1>6, PassMarkerFinish
  <1>7. CASE Descend
    BY <1>7, DescendFinish
  <1>8. CASE Leave
    BY <1>8, LeaveFinish
  <1>9. CASE FinishEnds \/ UNCHANGED vars
    <2>1. UNCHANGED <<entries, container, next, stack, visiting>>
      BY <1>9 DEF FinishEnds, vars
    <2>2. /\ Unwrapped' => Unwrapped
          /\ phase' = "end" => phase = "end" \/ (stack = <<>> /\ next > Len(Declared))
      BY <1>9 DEF FinishEnds, vars, Unwrapped
    <2>3. Visiting => Visiting'
      BY <2>1 DEF Visiting
    <2>4. Passed => Passed'
      BY <2>1, HeldKept DEF Passed, Held
    <2>5. Met => Met'
      BY <2>1, HeldKept DEF Met, Attended
    <2>6. Enclosed => Enclosed'
      BY <2>1, HeldKept DEF Enclosed
    <2> QED BY <2>1, <2>2, <2>3, <2>4, <2>5, <2>6 DEF FinishInv
  <1> QED BY <1>1, <1>2, <1>3, <1>4, <1>5, <1>6, <1>7, <1>8, <1>9 DEF Next

LEMMA FinishInvariant == Spec => [](SharedInv /\ FinishInv)
  <1>1. Init => IInv /\ FlatInv /\ SharedInv /\ FinishInv
    BY InitIInv, InitFlat, InitShared DEF Init, FinishInv, Unwrapped
  <1>2. IInv /\ FlatInv /\ SharedInv /\ FinishInv /\ [Next]_vars
        => (IInv /\ FlatInv /\ SharedInv /\ FinishInv)'
    BY NextIInv, NextFlat, NextShared, NextFinish
  <1> QED BY <1>1, <1>2, PTL DEF Spec

LEMMA NestedEnds ==
    ASSUME IInv, SharedInv, NEW s \in Ends
    PROVE  Nested(s) \subseteq Ends
  <1>1. s \in Shapes
    BY DEF Ends, Ending
  <1>2. container[s] \in Shapes \cup {None}
    BY <1>1 DEF IInv, TypeOK
  <1>3. Held(s) \in Seq(Entries)
    BY <1>2 DEF SharedInv, Held
  <1>4. \A i \in DOMAIN Held(s) : Held(s)[i] \in Entries
    BY <1>3, ElementOfSeq, LenProperties
  <1>5. Nested(s) \subseteq Shapes
    BY <1>4 DEF Nested, ToSet, Entries
  <1>6. Walks[s] = Nested(s)
    BY <1>1 DEF Walks
  <1> QED BY <1>5, <1>6, EndingHasNext DEF Ends

(* What is written is an alias, or was gone down to its end.               *)
LEMMA WrittenEnds ==
    ASSUME IInv, SharedInv, FinishInv, phase = "end", NEW s \in Written(model),
           model.alias[s] = None
    PROVE  s \in Ends
  <1>1. /\ model \in Corpus /\ Visiting /\ Met /\ stack = <<>> /\ next > Len(Declared)
        /\ next \in Nat /\ Sharing /\ InPlace
    BY DEF IInv, TypeOK, FinishInv, SharedInv, Unwrapped
  <1>2. Attended = Ends
    BY <1>1, EmptySeq DEF Attended, Visiting
  <1> DEFINE S == {x \in Shapes : model.alias[x] # None \/ x \in Ends}
  <1>3. ToSet(Declared) \subseteq S
    <2>1. Declared \in Seq(Shapes)
      BY CorpusAssumption
    <2> SUFFICES ASSUME NEW i \in 1..Len(Declared) PROVE Declared[i] \in S
      BY <2>1, LenProperties DEF ToSet
    <2>2. Declared[i] \in Shapes /\ i < next
      BY <1>1, <2>1, ElementOfSeq, LenProperties
    <2> QED BY <1>1, <1>2, <2>2 DEF Met
  <1>4. ASSUME NEW x \in S PROVE ToSet(model.properties[x]) \subseteq S
    <2> SUFFICES ASSUME NEW i \in DOMAIN model.properties[x],
                        model.alias[model.properties[x][i]] = None
                 PROVE  model.properties[x][i] \in S
      <3>1. \A i \in DOMAIN model.properties[x] : model.properties[x][i] \in Shapes
        BY <1>1, ModelFacts, ElementOfSeq, LenProperties
      <3> QED BY <3>1 DEF ToSet
    <2>1. model.properties[x] \in Seq(Shapes) /\ None \notin Shapes
      BY <1>1, ModelFacts
    <2>2. model.properties[x] # <<>> /\ model.properties[x][i] \in Shapes
      BY <2>1, ElementOfSeq, LenProperties, EmptySeq
    <2>3. x \in Ends /\ container[x] = x
      BY <1>1, <2>2, ModelFacts DEF Sharing
    <2>4. /\ i \in DOMAIN entries[x] /\ entries[x][i].shape = model.properties[x][i]
          /\ entries[x][i] \in ToSet(entries[x]) /\ Held(x) = entries[x]
      BY <1>1, <2>1, <2>3 DEF InPlace, ToSet, Held
    <2>5. CASE entries[x][i].recursive
      BY <1>1, <1>2, <2>2, <2>4, <2>5 DEF Met
    <2>6. CASE ~entries[x][i].recursive
      <3>1. model.properties[x][i] \in Nested(x)
        BY <2>4, <2>6 DEF Nested
      <3>2. Nested(x) \subseteq Ends
        BY <2>3, NestedEnds
      <3> QED BY <2>2, <3>1, <3>2
    <2> QED BY <2>5, <2>6
  <1>5. S \in SUBSET Shapes
    OBVIOUS
  <1> HIDE DEF S
  <1>6. s \in S
    BY <1>3, <1>4, <1>5 DEF Written
  <1> QED BY <1>6 DEF S

(* However the types refer to themselves and to one another, and whatever  *)
(* failed to unwrap, once P9 is over a walk down what any shape contains   *)
(* comes to an end: _finish has marked an edge of every cycle.             *)
THEOREM SpecWalkEnds == Spec => []WalkEnds
  <1>1. ASSUME IInv, SharedInv, FinishInv, phase = "end", NEW s \in Shapes PROVE s \in Ends
    <2>1. model \in Corpus /\ Sharing /\ container[s] \in Shapes \cup {None}
          /\ None \notin Shapes
      BY <1>1, ModelFacts DEF IInv, TypeOK, SharedInv
    <2>2. ASSUME NEW x \in Shapes, container[x] = None PROVE x \in Ends
      <3>1. Nested(x) = {}
        BY <2>2 DEF Nested, Held, ToSet
      <3> QED BY <3>1, EndingFromNext DEF Ends, Walks
    <2>3. ASSUME NEW x \in Shapes, model.alias[x] = None PROVE x \in Ends
      <3>1. CASE x \in Written(model)
        BY <1>1, <2>3, <3>1, WrittenEnds
      <3>2. CASE x \notin Written(model)
        <4>1. container[x] = None
          BY <2>1, <2>3, <3>2, WrittenAssumption DEF Sharing
        <4> QED BY <2>2, <4>1
      <3> QED BY <3>1, <3>2
    <2>4. CASE container[s] # None
      <3>1. PICK c \in Shapes : c = container[s] /\ container[c] = c /\ model.alias[c] = None
        BY <2>1, <2>4 DEF Sharing
      <3>2. Nested(s) = Nested(c)
        BY <2>1, <3>1 DEF Nested, Held
      <3>3. Nested(c) \subseteq Ends
        BY <1>1, <2>3, <3>1, NestedEnds
      <3> QED BY <3>2, <3>3, EndingFromNext DEF Ends, Walks
    <2> QED BY <2>2, <2>4
  <1>2. Ends \subseteq Shapes
    BY DEF Ends, Ending
  <1>3. IInv /\ SharedInv /\ FinishInv => WalkEnds
    BY <1>1, <1>2 DEF WalkEnds, Ends, Walks
  <1> QED BY <1>3, UnwrapInvariant, FinishInvariant, PTL

(* And only edges of cycles are marked: a marker in the properties of a    *)
(* shape, its own or shared, is inside the shape that the marker names.    *)
THEOREM SpecMarkersCloseCycles == Spec => []MarkersCloseCycles
  <1>1. FinishInv => MarkersCloseCycles
    BY DEF FinishInv, Enclosed, MarkersCloseCycles, Unwrapped
  <1> QED BY <1>1, FinishInvariant, PTL
=============================================================================
