------------------------- MODULE FragmentCache_proofs -------------------------
(***************************************************************************)
(* One parse, for every set of files and every document set, in three      *)
(* layers of invariants: each document is decoded at most once; a link     *)
(* ends up marked exactly when nothing answers it or what answers it       *)
(* failed; the problems reported are those there are, each one once.       *)
(***************************************************************************)
EXTENDS FragmentCache, SequenceSets

(* The cache is what has been decoded, each document once.                 *)
Cached ==
    /\ decodes \in Seq(Files)
    /\ fragments = ToSet(decodes)
    /\ IsInjective(decodes)
-----------------------------------------------------------------------------
(* The inductive invariant.                                                *)

(* The links written in the documents of the parse.                        *)
Written == UNION {LinksOf(f) : f \in Files}

FrameType ==
    [file : Files, phase : {"include", "uses"}, at : Nat \ {0},
     errors : Seq(Files \cup Written)]

Typed ==
    /\ doc \in Corpus
    /\ stack \in Seq(FrameType)
    /\ waiting \in [Files -> SUBSET Written]
    /\ linked \subseteq Written /\ marked \subseteq Written

(* Who waits, waits for a document that is being decoded and has not       *)
(* failed yet.                                                             *)
Waits == \A f \in Files : waiting[f] # {} => f \in Decoding \ failure

(* A frame that is not on top is at the link the next one was opened for.  *)
LinkAt(frame) == Link(frame.file, frame.phase, frame.at)
Suspended == \A i \in 1..(Len(stack) - 1) : LinkAt(stack[i]) \in Written

IInv ==
    /\ Typed /\ Cached /\ Waits /\ Suspended
    /\ Decoding \subseteq fragments /\ failure \subseteq fragments

(* The facts about the frame on top that every step uses.                  *)
LEMMA TopFrame ==
    ASSUME Typed, stack # <<>>
    PROVE  /\ Len(stack) \in Nat \ {0}
           /\ Top \in FrameType /\ Top.file \in Decoding /\ Top.file \in Files
  <1>1. Len(stack) \in Nat \ {0} /\ Len(stack) \in 1..Len(stack)
    BY EmptySeq, LenProperties DEF Typed
  <1>2. Top \in FrameType
    BY <1>1, ElementOfSeq DEF Typed, Top
  <1> QED BY <1>1, <1>2 DEF Top, Decoding, FrameType

(* The link a frame is at is written in its document, and leads to a file. *)
LEMMA CurrentLink ==
    ASSUME Typed, Pending
    PROVE  /\ stack # <<>> /\ Current \in Written
           /\ Target(Current) \in Files
  <1>1. stack # <<>> /\ Top.at <= Len(Targets(Top.file, Top.phase))
    BY DEF Pending
  <1>2. Top \in FrameType /\ Top.file \in Files
    BY <1>1, TopFrame
  <1>3. Top.phase \in {"include", "uses"} /\ Top.at \in Nat \ {0}
    BY <1>2 DEF FrameType
  <1>4. /\ doc[Top.file].include \in Seq(Files) /\ doc[Top.file].uses \in Seq(Files)
        /\ doc[Top.file].state # "unreadable"
    <2>1. doc[Top.file].include \in Seq(Files) /\ doc[Top.file].uses \in Seq(Files)
      BY <1>2, CorpusAssumption DEF Typed
    <2>2. ASSUME doc[Top.file].state = "unreadable" PROVE FALSE
      <3>1. Targets(Top.file, Top.phase) = <<>>
        BY <2>2 DEF Targets
      <3>2. Len(Targets(Top.file, Top.phase)) = 0
        BY <3>1
      <3> QED BY <1>1, <1>3, <3>2
    <2> QED BY <2>1, <2>2
  <1>5. Targets(Top.file, Top.phase) = doc[Top.file][Top.phase]
    BY <1>4 DEF Targets
  <1>6. doc[Top.file][Top.phase] \in Seq(Files)
    BY <1>3, <1>4
  <1>7. Top.at \in DOMAIN Targets(Top.file, Top.phase)
    BY <1>1, <1>3, <1>5, <1>6, LenProperties
  <1>8. Current \in LinksOf(Top.file)
    BY <1>3, <1>7 DEF Current, LinksOf
  <1>9. /\ Current.from = Top.file /\ Current.phase = Top.phase
        /\ Current.at = Top.at
    BY DEF Current, Link
  <1>10. Target(Current) \in Files
    <2>1. Top.at \in 1..Len(doc[Top.file][Top.phase])
      BY <1>5, <1>6, <1>7, LenProperties
    <2> QED BY <1>6, <1>9, <2>1, ElementOfSeq DEF Target
  <1> QED BY <1>1, <1>2, <1>8, <1>10 DEF Written

(* Moving past a link changes no document of the stack.                    *)
LEMMA AdvanceFrames ==
    ASSUME NEW s \in Seq(FrameType), s # <<>>, NEW e \in Seq(Files \cup Written)
    PROVE  /\ Advance(s, e) \in Seq(FrameType)
           /\ Len(Advance(s, e)) = Len(s)
           /\ \A i \in 1..Len(s) : Advance(s, e)[i].file = s[i].file
           /\ \A i \in 1..(Len(s) - 1) : Advance(s, e)[i] = s[i]
  <1>1. Len(s) \in Nat \ {0} /\ Len(s) \in 1..Len(s) /\ DOMAIN s = 1..Len(s)
    BY EmptySeq, LenProperties
  <1> DEFINE last == s[Len(s)]
             moved == [last EXCEPT !.at = @ + 1, !.errors = @ \o e]
  <1>2. last \in FrameType
    BY <1>1, ElementOfSeq
  <1>3. last.errors \o e \in Seq(Files \cup Written) /\ last.at + 1 \in Nat \ {0}
    BY <1>2, ConcatProperties DEF FrameType
  <1>4. moved \in FrameType /\ moved.file = last.file
    BY <1>2, <1>3 DEF FrameType
  <1>5. Advance(s, e) = [s EXCEPT ![Len(s)] = moved]
    BY <1>1, <1>2 DEF Advance, FrameType
  <1> HIDE DEF moved, last
  <1>6. /\ Advance(s, e) \in Seq(FrameType) /\ Len(Advance(s, e)) = Len(s)
        /\ \A j \in 1..Len(s) : Advance(s, e)[j] = IF j = Len(s) THEN moved ELSE s[j]
    BY <1>1, <1>4, <1>5, ExceptSeq
  <1>7. \A i \in 1..Len(s) : Advance(s, e)[i].file = s[i].file
    BY <1>4, <1>6 DEF last
  <1>8. \A n \in Nat \ {0} : \A i \in 1..(n - 1) : i \in 1..n /\ i # n
    OBVIOUS
  <1>9. \A i \in 1..(Len(s) - 1) : i \in 1..Len(s) /\ i # Len(s)
    <2> DEFINE n == Len(s)
    <2>1. n \in Nat \ {0}
      BY <1>1
    <2> HIDE DEF n
    <2>2. \A i \in 1..(n - 1) : i \in 1..n /\ i # n
      BY <1>8, <2>1
    <2> QED BY <2>2 DEF n
  <1> QED BY <1>6, <1>7, <1>9

(* The end of a body moves its frame on to `uses:`.                        *)
LEMMA UsesFrame ==
    ASSUME NEW frame \in FrameType, NEW e \in Seq(Files \cup Written)
    PROVE  LET moved == [frame EXCEPT !.phase = "uses", !.at = 1, !.errors = e]
           IN  moved \in FrameType /\ moved.file = frame.file
  <1> DEFINE one == [frame EXCEPT !.phase = "uses"]
             two == [one EXCEPT !.at = 1]
             three == [two EXCEPT !.errors = e]
  <1>1. one \in FrameType /\ one.file = frame.file
    BY DEF FrameType
  <1>2. two \in FrameType /\ two.file = one.file
    <2> HIDE DEF one
    <2> QED BY <1>1 DEF FrameType
  <1>3. three \in FrameType /\ three.file = two.file
    <2> HIDE DEF two
    <2> QED BY <1>2 DEF FrameType
  <1> QED BY <1>1, <1>2, <1>3

LEMMA AdvanceDecoding ==
    ASSUME Typed, stack # <<>>, NEW e \in Seq(Files \cup Written),
           stack' = Advance(stack, e)
    PROVE  /\ stack' \in Seq(FrameType) /\ Decoding' = Decoding
           /\ Len(stack') = Len(stack)
           /\ \A i \in 1..(Len(stack) - 1) : stack'[i] = stack[i]
  <1>1. /\ stack' \in Seq(FrameType) /\ Len(stack') = Len(stack)
        /\ \A i \in 1..Len(stack) : stack'[i].file = stack[i].file
        /\ \A i \in 1..(Len(stack) - 1) : stack'[i] = stack[i]
    BY AdvanceFrames DEF Typed
  <1> QED BY <1>1 DEF Decoding

LEMMA InitIInv == Init => IInv
  <1> SUFFICES ASSUME Init PROVE IInv
    OBVIOUS
  <1>1. Entry \in Files
    BY EntryAssumption
  <1>2. Frame(Entry) \in FrameType
    <2>1. <<>> \in Seq(Files \cup Written)
      OBVIOUS
    <2> QED BY <1>1, <2>1 DEF Frame, FrameType
  <1>3. Typed
    BY <1>2 DEF Init, Typed
  <1>4. Cached
    <2>1. decodes \in Seq(Files) /\ DOMAIN decodes = {1} /\ decodes[1] = Entry
      BY <1>1 DEF Init
    <2>2. fragments = ToSet(decodes)
      BY <2>1 DEF Init, ToSet
    <2>3. IsInjective(decodes)
      BY <2>1 DEF IsInjective
    <2> QED BY <2>1, <2>2, <2>3 DEF Cached
  <1>5. Decoding \subseteq fragments
    BY DEF Init, Decoding, Frame
  <1>6. Suspended
    BY DEF Init, Suspended
  <1> QED BY <1>3, <1>4, <1>5, <1>6 DEF Init, Waits, IInv

(* A fragment in the cache: it may be waited for, if it has not failed.    *)
LEMMA FollowCachedStep ==
    ASSUME IInv, FollowCached
    PROVE  IInv'
  <1>1. /\ stack # <<>> /\ Current \in Written /\ Target(Current) \in Files
        /\ <<>> \in Seq(Files \cup Written)
    BY CurrentLink DEF IInv, FollowCached
  <1>2. /\ stack' \in Seq(FrameType) /\ Decoding' = Decoding
        /\ Len(stack') = Len(stack)
        /\ \A i \in 1..(Len(stack) - 1) : stack'[i] = stack[i]
    BY <1>1, AdvanceDecoding DEF IInv, FollowCached
  <1>3. Written' = Written /\ FrameType' = FrameType
    BY DEF FollowCached, Written, LinksOf, Targets, FrameType
  <1>4. /\ waiting' \in [Files -> SUBSET Written] /\ marked' \subseteq Written
        /\ linked' \subseteq Written
    BY <1>1 DEF FollowCached, Refer, IInv, Typed, Given
  <1>5. Typed'
    BY <1>2, <1>3, <1>4 DEF Typed, IInv, FollowCached
  <1>6. \A f \in Files : waiting'[f] # {} => f \in Decoding' \ failure'
    BY <1>1, <1>2 DEF FollowCached, Refer, IInv, Typed, Waits
  <1>7. Cached'
    BY DEF FollowCached, IInv, Cached
  <1>8. Suspended'
    BY <1>2, <1>3 DEF IInv, Suspended
  <1> QED BY <1>2, <1>5, <1>6, <1>7, <1>8 DEF IInv, Waits, FollowCached

LEMMA FollowRefusedStep ==
    ASSUME IInv, FollowRefused
    PROVE  IInv'
  <1>1. /\ stack # <<>> /\ Current \in Written
        /\ <<Current>> \in Seq(Files \cup Written)
    BY CurrentLink DEF IInv, FollowRefused
  <1>2. /\ stack' \in Seq(FrameType) /\ Decoding' = Decoding
        /\ Len(stack') = Len(stack)
        /\ \A i \in 1..(Len(stack) - 1) : stack'[i] = stack[i]
    BY <1>1, AdvanceDecoding DEF IInv, FollowRefused
  <1>3. Written' = Written /\ FrameType' = FrameType
    BY DEF FollowRefused, Written, LinksOf, Targets, FrameType
  <1>4. Typed'
    BY <1>1, <1>2, <1>3 DEF Typed, IInv, FollowRefused
  <1>5. Waits'
    BY <1>2 DEF Waits, IInv, FollowRefused
  <1>6. Cached'
    BY DEF FollowRefused, IInv, Cached
  <1>7. Suspended'
    BY <1>2, <1>3 DEF IInv, Suspended
  <1> QED BY <1>2, <1>4, <1>5, <1>6, <1>7 DEF IInv, FollowRefused

(* A document outside the cache has not been decoded: Register adds it to  *)
(* both.                                                                   *)
LEMMA FollowNewStep ==
    ASSUME IInv, FollowNew
    PROVE  IInv'
  <1> DEFINE f == Target(Current)
  <1>1. stack # <<>> /\ f \in Files /\ f \notin fragments
    BY CurrentLink DEF IInv, FollowNew
  <1>2. /\ fragments' = fragments \cup {f} /\ decodes' = Append(decodes, f)
        /\ stack' = Append(stack, Frame(f))
    BY DEF FollowNew, Register
  <1> HIDE DEF f
  <1>3. Cached'
    <2>1. decodes' \in Seq(Files) /\ IsInjective(decodes')
          /\ ToSet(decodes') = ToSet(decodes) \cup {f}
      BY <1>1, <1>2, AppendSet, AppendNew DEF IInv, Cached
    <2> QED BY <1>2, <2>1 DEF IInv, Cached
  <1>4. Written' = Written /\ FrameType' = FrameType
    BY DEF FollowNew, Written, LinksOf, Targets, FrameType
  <1>5. Frame(f) \in FrameType /\ Frame(f).file = f
    <2>1. <<>> \in Seq(Files \cup Written)
      OBVIOUS
    <2> QED BY <1>1, <2>1 DEF Frame, FrameType
  <1>6. /\ stack' \in Seq(FrameType) /\ Len(stack') = Len(stack) + 1
        /\ Len(stack) \in Nat /\ stack'[Len(stack) + 1] = Frame(f)
        /\ \A i \in 1..Len(stack) : stack'[i] = stack[i]
    BY <1>2, <1>5, AppendProperties, LenProperties DEF IInv, Typed
  <1>7. Decoding' = Decoding \cup {f}
    <2>1. \A i \in 1..Len(stack') : i \in 1..Len(stack) \/ i = Len(stack) + 1
      BY <1>6
    <2>2. Len(stack) + 1 \in 1..Len(stack')
          /\ \A i \in 1..Len(stack) : i \in 1..Len(stack')
      BY <1>6
    <2>3. Decoding' \subseteq Decoding \cup {f}
      BY <1>5, <1>6, <2>1 DEF Decoding
    <2>4. Decoding \cup {f} \subseteq Decoding'
      BY <1>5, <1>6, <2>2 DEF Decoding
    <2> QED BY <2>3, <2>4
  <1>8. Typed'
    BY <1>4, <1>6 DEF Typed, IInv, FollowNew
  <1>9. Waits'
    BY <1>7 DEF Waits, IInv, FollowNew
  <1>10. Suspended'
    <2>1. LinkAt(Top) \in Written
      BY CurrentLink DEF IInv, FollowNew, LinkAt, Current
    <2>2. ASSUME NEW i \in 1..(Len(stack') - 1) PROVE LinkAt(stack'[i]) \in Written
      <3>1. i \in 1..Len(stack) /\ stack'[i] = stack[i]
        BY <1>6
      <3>2. CASE i = Len(stack)
        BY <2>1, <3>1, <3>2 DEF Top
      <3>3. CASE i # Len(stack)
        BY <1>6, <3>1, <3>3 DEF IInv, Suspended
      <3> QED BY <3>2, <3>3
    <2> QED BY <1>4, <2>2 DEF Suspended
  <1> QED BY <1>2, <1>3, <1>7, <1>8, <1>9, <1>10 DEF IInv, FollowNew

(* The body is over: whoever waits is told if it failed, and waits on      *)
(* otherwise.                                                              *)
LEMMA EndBodyStep ==
    ASSUME IInv, EndBody
    PROVE  IInv'
  <1>1. /\ stack # <<>> /\ Len(stack) \in Nat \ {0} /\ Top \in FrameType
        /\ Top.file \in Decoding /\ Top.file \in Files
    BY TopFrame DEF IInv, EndBody
  <1> DEFINE f == Top.file
             own == IF doc[f].state = "ok" THEN <<>> ELSE <<f>>
             errors == Top.errors \o own
             moved == [Top EXCEPT !.phase = "uses", !.at = 1, !.errors = errors]
  <1>2. errors \in Seq(Files \cup Written)
    <2>1. Top.errors \in Seq(Files \cup Written)
      BY <1>1 DEF FrameType
    <2>2. <<>> \in Seq(Files \cup Written) /\ <<f>> \in Seq(Files \cup Written)
      <3> HIDE DEF f
      <3> QED BY <1>1 DEF f
    <2>3. own \in Seq(Files \cup Written)
      BY <2>2
    <2> HIDE DEF own
    <2> QED BY <2>1, <2>3, ConcatProperties
  <1>3. /\ Settle(f, errors)
        /\ marked' = IF errors = <<>> THEN marked ELSE marked \cup waiting[f]
        /\ stack' = [stack EXCEPT ![Len(stack)] = moved]
        /\ UNCHANGED <<doc, fragments, linked, reported, decodes>>
    BY DEF EndBody, Top
  <1> HIDE DEF errors
  <1>4. moved \in FrameType /\ moved.file = f
    BY <1>1, <1>2, UsesFrame
  <1> HIDE DEF moved
  <1>5. /\ stack' \in Seq(FrameType) /\ Len(stack') = Len(stack)
        /\ \A i \in 1..Len(stack) : stack'[i].file = stack[i].file
        /\ \A i \in 1..(Len(stack) - 1) : stack'[i] = stack[i]
    <2>1. Len(stack) \in 1..Len(stack)
      BY <1>1
    <2>2. /\ stack' \in Seq(FrameType) /\ Len(stack') = Len(stack)
          /\ \A j \in 1..Len(stack) :
                 stack'[j] = IF j = Len(stack) THEN moved ELSE stack[j]
      BY <1>3, <1>4, <2>1, ExceptSeq DEF IInv, Typed
    <2> QED BY <1>1, <1>4, <2>2 DEF Top
  <1>6. Decoding' = Decoding
    BY <1>5 DEF Decoding
  <1>7. Written' = Written /\ FrameType' = FrameType
    BY <1>3 DEF Written, LinksOf, Targets, FrameType
  <1>8. Typed'
    <2>1. waiting' \in [Files -> SUBSET Written] /\ marked' \subseteq Written
      BY <1>1, <1>3 DEF Settle, IInv, Typed
    <2> QED BY <1>3, <1>5, <1>7, <2>1 DEF IInv, Typed
  <1>9. Waits'
    BY <1>1, <1>3, <1>6 DEF Settle, IInv, Typed, Waits
  <1>10. Cached'
    BY <1>3 DEF IInv, Cached
  <1>11. failure' \subseteq fragments'
    BY <1>1, <1>3 DEF Settle, IInv
  <1>12. Suspended'
    BY <1>5, <1>7 DEF IInv, Suspended
  <1> QED BY <1>3, <1>6, <1>8, <1>9, <1>10, <1>11, <1>12 DEF IInv

(* The decode is over: nobody waits for it any more.                       *)
LEMMA ReturnStep ==
    ASSUME IInv, Return
    PROVE  IInv'
  <1>1. /\ stack # <<>> /\ Len(stack) \in Nat \ {0} /\ Top \in FrameType
        /\ Top.file \in Decoding /\ Top.file \in Files
    BY TopFrame DEF IInv, Return
  <1> DEFINE f == Top.file
             outer == Front(stack)
  <1>2. Top.errors \in Seq(Files \cup Written)
    BY <1>1 DEF FrameType
  <1>3. /\ outer \in Seq(FrameType) /\ Len(outer) = Len(stack) - 1
        /\ \A i \in 1..Len(outer) : outer[i] = stack[i]
    <2>1. \A i \in 1..(Len(stack) - 1) : stack[i] \in FrameType
      BY <1>1, ElementOfSeq DEF IInv, Typed
    <2>2. /\ SubSeq(stack, 1, Len(stack) - 1) \in Seq(FrameType)
          /\ Len(SubSeq(stack, 1, Len(stack) - 1)) = Len(stack) - 1
          /\ \A i \in 1..(Len(stack) - 1) :
                 SubSeq(stack, 1, Len(stack) - 1)[i] = stack[i]
      <3> DEFINE n == Len(stack) - 1
      <3>1. n \in Int /\ 1 \in Int /\ n >= 0 /\ n - 1 + 1 = n
        BY <1>1
      <3>2. \A i \in 1..n : stack[i] \in FrameType
        BY <2>1
      <3>3. /\ SubSeq(stack, 1, n) \in Seq(FrameType)
            /\ Len(SubSeq(stack, 1, n)) = IF 1 <= n THEN n - 1 + 1 ELSE 0
            /\ \A i \in 1..(n - 1 + 1) : SubSeq(stack, 1, n)[i] = stack[1 + i - 1]
        <4> HIDE DEF n
        <4> QED BY <3>1, <3>2, SubSeqProperties
      <3>4. \A i \in 1..n : 1 + i - 1 = i
        BY <3>1
      <3>5. (IF 1 <= n THEN n - 1 + 1 ELSE 0) = n
        BY <3>1
      <3> QED BY <3>1, <3>3, <3>4, <3>5
    <2> QED BY <2>2 DEF Front
  <1>4. /\ failure' = IF Top.errors = <<>> THEN failure \ {f} ELSE failure \cup {f}
        /\ waiting' = [waiting EXCEPT ![f] = {}]
        /\ UNCHANGED <<doc, fragments, decodes>>
    BY DEF Return
  <1>5. CASE outer = <<>>
    <2>1. /\ stack' = <<>> /\ linked' = linked
          /\ marked' = marked \cup (IF Top.errors = <<>> THEN {} ELSE waiting[f])
      BY <1>5 DEF Return
    <2>2. Len(outer) = 0 /\ Len(stack) = 1
      BY <1>1, <1>3, <1>5
    <2>3. Decoding = {f}
      BY <2>2 DEF Decoding, Top
    <2>4. Written' = Written /\ FrameType' = FrameType
      BY <1>4 DEF Written, LinksOf, Targets, FrameType
    <2>5. Typed'
      BY <1>1, <1>4, <2>1, <2>4 DEF IInv, Typed
    <2>6. Waits'
      BY <1>1, <1>4, <2>3 DEF IInv, Typed, Waits
    <2>7. Cached' /\ Decoding' \subseteq fragments' /\ failure' \subseteq fragments'
      BY <1>1, <1>4, <2>1 DEF IInv, Cached, Decoding
    <2>8. Suspended'
      BY <2>1 DEF Suspended
    <2> QED BY <2>5, <2>6, <2>7, <2>8 DEF IInv
  <1>6. CASE outer # <<>>
    <2> DEFINE l == Link(Last(outer).file, Last(outer).phase, Last(outer).at)
    <2>1. /\ stack' = Advance(outer, Top.errors) /\ linked' = linked \cup Given(l)
          /\ marked' = marked \cup (IF Top.errors = <<>> THEN {} ELSE waiting[f])
                              \cup (IF Top.errors = <<>> THEN {} ELSE {l})
      BY <1>6 DEF Return
    <2>2. /\ stack' \in Seq(FrameType) /\ Len(stack') = Len(outer)
          /\ \A i \in 1..Len(outer) : stack'[i].file = outer[i].file
      BY <1>2, <1>3, <1>6, <2>1, AdvanceFrames
    <2>3. \A g \in Decoding : g = f \/ g \in Decoding'
      <3> SUFFICES ASSUME NEW i \in 1..Len(stack), stack[i].file # f
                   PROVE  stack[i].file \in Decoding'
        BY DEF Decoding
      <3>1. i \in 1..Len(outer)
        BY <1>1, <1>3 DEF Top
      <3> QED BY <1>3, <2>2, <3>1 DEF Decoding
    <2>4. Decoding' \subseteq Decoding
      <3> SUFFICES ASSUME NEW i \in 1..Len(outer)
                   PROVE  stack'[i].file \in Decoding
        BY <2>2 DEF Decoding
      <3>1. i \in 1..Len(stack) /\ stack'[i].file = stack[i].file
        BY <1>1, <1>3, <2>2
      <3> QED BY <3>1 DEF Decoding
    <2>5. l \in Written
      <3>1. Len(outer) \in 1..(Len(stack) - 1)
        BY <1>1, <1>3, <1>6, EmptySeq
      <3>2. LinkAt(stack[Len(outer)]) \in Written
        BY <3>1 DEF IInv, Suspended
      <3>3. Last(outer) = stack[Len(outer)]
        BY <1>1, <1>3, <3>1 DEF Last
      <3> QED BY <3>2, <3>3 DEF LinkAt
    <2>6. Written' = Written /\ FrameType' = FrameType
      BY <1>4 DEF Written, LinksOf, Targets, FrameType
    <2>7. Typed'
      <3>1. /\ waiting' \in [Files -> SUBSET Written] /\ linked' \subseteq Written
            /\ marked' \subseteq Written
        BY <1>1, <1>4, <2>1, <2>5 DEF IInv, Typed, Given
      <3> QED BY <1>4, <2>2, <2>6, <3>1 DEF IInv, Typed
    <2>8. Waits'
      <3> SUFFICES ASSUME NEW g \in Files, waiting'[g] # {}
                   PROVE  g \in Decoding' \ failure'
        BY DEF Waits
      <3>1. g # f /\ waiting'[g] = waiting[g]
        BY <1>1, <1>4 DEF IInv, Typed
      <3>2. g \in Decoding \ failure
        BY <3>1 DEF IInv, Waits
      <3> QED BY <1>4, <2>3, <3>1, <3>2
    <2>9. Cached' /\ Decoding' \subseteq fragments' /\ failure' \subseteq fragments'
      BY <1>1, <1>4, <2>4 DEF IInv, Cached
    <2>10. Suspended'
      <3> SUFFICES ASSUME NEW i \in 1..(Len(stack') - 1)
                   PROVE  LinkAt(stack'[i]) \in Written
        BY <2>6 DEF Suspended
      <3>1. i \in 1..(Len(outer) - 1) /\ i \in 1..(Len(stack) - 1)
        BY <1>1, <1>3, <2>2
      <3>2. stack'[i] = outer[i] /\ outer[i] = stack[i]
        BY <1>1, <1>2, <1>3, <1>6, <2>1, <3>1, AdvanceFrames
      <3> QED BY <3>1, <3>2 DEF IInv, Suspended
    <2> QED BY <2>7, <2>8, <2>9, <2>10 DEF IInv
  <1> QED BY <1>5, <1>6
-----------------------------------------------------------------------------
(* The theorems about the cache.                                           *)

(* The invariant that relates the cache, what has been decoded, the frames *)
(* and who waits holds in every reachable state.                           *)
THEOREM CacheInductive == Spec => []IInv
  <1>1. Init => IInv
    BY InitIInv
  <1>2. IInv /\ [Next]_vars => IInv'
    <2> SUFFICES ASSUME IInv, [Next]_vars PROVE IInv'
      OBVIOUS
    <2>1. CASE UNCHANGED vars
      BY <2>1 DEF vars, IInv, Typed, Cached, Waits, Suspended, Decoding, Written,
                  LinksOf, Targets, FrameType
    <2> QED BY <2>1, FollowCachedStep, FollowRefusedStep, FollowNewStep,
               EndBodyStep, ReturnStep DEF Next, Over
  <1> QED BY <1>1, <1>2, PTL DEF Spec

(* The cache, the marks and the waiting lists keep their types, and only a *)
(* document still being decoded, and not failed, is waited for (_settle).  *)
THEOREM CacheTypeCorrect == Spec => []TypeOK
  <1>1. IInv => TypeOK
    <2> SUFFICES ASSUME IInv PROVE TypeOK
      OBVIOUS
    <2>1. fragments \subseteq Files
      BY DEF IInv, Cached, ToSet
    <2>2. \A l \in Written : l \in LinksOf(l.from)
      BY DEF Written, LinksOf, Link
    <2> QED BY <2>1, <2>2 DEF IInv, Typed, Cached, Waits, TypeOK
  <1> QED BY <1>1, CacheInductive, PTL

(* No document is decoded twice, however the documents reach one another   *)
(* (decode_fragment registers a fragment before it looks into it).         *)
THEOREM DecodedOnceHolds == Spec => []DecodedOnce
  <1>1. IInv => DecodedOnce
    BY DEF IInv, Cached, DecodedOnce
  <1> QED BY <1>1, CacheInductive, PTL
-----------------------------------------------------------------------------
(* The links.  When a parse is over, a link is marked exactly when nothing *)
(* answers it or what answers it failed, and linked exactly when something *)
(* answers it and there is something in it to link.  The argument is about *)
(* the links already followed: each is right as far as its fragment's      *)
(* failure is known, and waits for it while it is not.                     *)

(* A frame has moved past a link of its document.                          *)
Passed(frame, l) ==
    \/ l.phase = frame.phase /\ l.at < frame.at
    \/ l.phase = "include" /\ frame.phase = "uses"

(* The links that have been followed to their end.                         *)
Followed ==
    {l \in Written :
        /\ l.from \in fragments
        /\ \A i \in 1..Len(stack) : stack[i].file = l.from => Passed(stack[i], l)}

(* No document is decoded inside itself.                                   *)
Apart == \A i, j \in 1..Len(stack) : stack[i].file = stack[j].file => i = j

(* A frame is the decode of the link the one below it is at.               *)
Opened ==
    \A i \in 1..(Len(stack) - 1) :
        /\ Target(LinkAt(stack[i])) = stack[i + 1].file
        /\ ~Refused(LinkAt(stack[i]))

(* A document that has failed and is still being decoded failed in its     *)
(* body, and keeps the errors it failed with.                              *)
Failing ==
    \A i \in 1..Len(stack) : stack[i].file \in failure =>
        stack[i].phase = "uses" /\ stack[i].errors # <<>>

(* What is known of a followed link.                                       *)
Known(l) == ~Refused(l) => Target(l) \in fragments
Marked(l) == l \in marked <=> Refused(l) \/ Target(l) \in failure
Linked(l) == l \in linked <=> ~Refused(l) /\ ~Empty(l)
Told(l) ==
    ~Refused(l) /\ Target(l) \in Decoding \ failure => l \in waiting[Target(l)]
Right == \A l \in Followed : Known(l) /\ Marked(l) /\ Linked(l) /\ Told(l)

(* Nothing is marked, linked or waited for by a link not yet followed.     *)
OnlyFollowed ==
    /\ marked \subseteq Followed /\ linked \subseteq Followed
    /\ \A f \in Files : \A l \in waiting[f] :
           l \in Followed /\ Target(l) = f /\ ~Refused(l)

MarkInv == Apart /\ Opened /\ Failing /\ Right /\ OnlyFollowed
-----------------------------------------------------------------------------
(* Links and frames.                                                       *)

(* A written link is the link its fields say.                              *)
LEMMA WrittenLink ==
    ASSUME Typed, NEW l \in Written
    PROVE  /\ l = Link(l.from, l.phase, l.at)
           /\ l.from \in Files /\ l.phase \in {"include", "uses"}
           /\ l.at \in Nat \ {0} /\ l.at <= Len(Targets(l.from, l.phase))
           /\ l \in LinksOf(l.from)
  <1>1. PICK f \in Files : l \in LinksOf(f)
    BY DEF Written
  <1>2. PICK phase \in {"include", "uses"} :
            l \in {Link(f, phase, i) : i \in DOMAIN Targets(f, phase)}
    BY <1>1 DEF LinksOf
  <1>3. PICK i \in DOMAIN Targets(f, phase) : l = Link(f, phase, i)
    BY <1>2
  <1>4. l.from = f /\ l.phase = phase /\ l.at = i
    BY <1>3 DEF Link
  <1>5. Targets(f, phase) \in Seq(Files)
    <2>1. doc[f].include \in Seq(Files) /\ doc[f].uses \in Seq(Files)
      BY CorpusAssumption DEF Typed
    <2>2. <<>> \in Seq(Files)
      OBVIOUS
    <2> QED BY <2>1, <2>2 DEF Targets
  <1>6. i \in 1..Len(Targets(f, phase)) /\ Len(Targets(f, phase)) \in Nat
    BY <1>5, LenProperties
  <1> QED BY <1>1, <1>3, <1>4, <1>6

(* Moving past a link: the frame has passed it, and no other.              *)
LEMMA AdvanceTop ==
    ASSUME Typed, NEW s \in Seq(FrameType), s # <<>>,
           NEW e \in Seq(Files \cup Written)
    PROVE  LET old == s[Len(s)]  new == Advance(s, e)[Len(s)] IN
           /\ new.phase = old.phase /\ new.errors = old.errors \o e
           /\ \A l \in Written : l.from = old.file =>
                  (Passed(new, l) <=> Passed(old, l) \/ l = LinkAt(old))
           /\ ~Passed(old, LinkAt(old))
  <1> DEFINE old == s[Len(s)]
             new == [old EXCEPT !.at = @ + 1, !.errors = @ \o e]
  <1>1. Len(s) \in Nat \ {0} /\ Len(s) \in 1..Len(s) /\ DOMAIN s = 1..Len(s)
    BY EmptySeq, LenProperties
  <1>2. old \in FrameType
    BY <1>1, ElementOfSeq
  <1>3. Advance(s, e)[Len(s)] = new
    BY <1>1, <1>2 DEF Advance, FrameType
  <1> HIDE DEF old
  <1>4. /\ new.phase = old.phase /\ new.errors = old.errors \o e
        /\ new.at = old.at + 1
    BY <1>2 DEF FrameType
  <1>5. old.at \in Nat \ {0} /\ old.phase \in {"include", "uses"}
    BY <1>2 DEF FrameType
  <1> HIDE DEF new
  <1>6. ASSUME NEW l \in Written, l.from = old.file
        PROVE  Passed(new, l) <=> Passed(old, l) \/ l = LinkAt(old)
    <2>1. l = Link(l.from, l.phase, l.at) /\ l.at \in Nat \ {0}
      BY WrittenLink
    <2>2. l = LinkAt(old) <=> l.phase = old.phase /\ l.at = old.at
      BY <1>6, <2>1 DEF LinkAt, Link
    <2> QED BY <1>4, <1>5, <2>1, <2>2 DEF Passed
  <1>7. ~Passed(old, LinkAt(old))
    BY <1>5 DEF Passed, LinkAt, Link
  <1> QED BY <1>3, <1>4, <1>6, <1>7 DEF old

(* The frame on top passes the link it is at: that link is followed, and   *)
(* nothing else changes but what the link's outcome does.                  *)
LEMMA MoveOn ==
    ASSUME IInv, MarkInv, Pending, NEW e \in Seq(Files \cup Written),
           stack' = Advance(stack, e), UNCHANGED <<doc, fragments, failure>>
    PROVE  /\ Current \in Written /\ Current \notin Followed
           /\ Target(Current) \in Files
           /\ Followed' = Followed \cup {Current} /\ Decoding' = Decoding
           /\ Apart' /\ Opened' /\ Failing'
  <1>1. stack # <<>> /\ Current \in Written /\ Target(Current) \in Files
    BY CurrentLink DEF IInv
  <1>2. /\ Len(stack) \in Nat \ {0} /\ Top \in FrameType /\ Top.file \in Decoding
        /\ Top.file \in Files
    BY <1>1, TopFrame DEF IInv
  <1>3. /\ stack' \in Seq(FrameType) /\ Decoding' = Decoding
        /\ Len(stack') = Len(stack)
        /\ \A i \in 1..Len(stack) : stack'[i].file = stack[i].file
        /\ \A i \in 1..(Len(stack) - 1) : stack'[i] = stack[i]
    BY <1>1, AdvanceDecoding, AdvanceFrames DEF IInv, Typed
  <1> DEFINE n == Len(stack)
  <1>4. n \in 1..n /\ Top = stack[n] /\ LinkAt(stack[n]) = Current
    BY <1>2 DEF Top, LinkAt, Current
  <1>5. /\ stack'[n].phase = stack[n].phase /\ stack'[n].errors = stack[n].errors \o e
        /\ \A l \in Written : l.from = stack[n].file =>
               (Passed(stack'[n], l) <=> Passed(stack[n], l) \/ l = Current)
        /\ ~Passed(stack[n], Current)
    BY <1>1, <1>4, AdvanceTop DEF IInv, Typed
  <1>6. \A i \in 1..n : i # n => i \in 1..(n - 1)
    BY <1>2
  <1>7. \A i \in 1..n : stack[i].file = stack[n].file => i = n
    BY <1>4 DEF MarkInv, Apart
  <1>8. Current.from = stack[n].file /\ stack[n].file \in fragments
    BY <1>2, <1>4 DEF Current, Link, IInv
  <1>9. Written' = Written
    BY DEF Written, LinksOf, Targets
  <1> HIDE DEF n
  <1>10. Current \notin Followed
    BY <1>4, <1>5, <1>8 DEF Followed, n
  <1>11. ASSUME NEW l \in Written
         PROVE  l \in Followed' <=> l \in Followed \/ l = Current
    <2>1. CASE l.from = stack[n].file
      <3>1. \A i \in 1..n : stack[i].file = l.from <=> i = n
        BY <1>4, <1>7, <2>1
      <3>2. l \in Followed <=> Passed(stack[n], l)
        BY <1>4, <1>8, <2>1, <3>1 DEF Followed, n
      <3>3. l \in Followed' <=> Passed(stack'[n], l)
        BY <1>3, <1>4, <1>8, <1>9, <2>1, <3>1 DEF Followed, n
      <3> QED BY <1>5, <2>1, <3>2, <3>3
    <2>2. CASE l.from # stack[n].file
      <3>1. \A i \in 1..n : stack[i].file = l.from => stack'[i] = stack[i]
        BY <1>3, <1>6, <2>2 DEF n
      <3>2. l # Current
        BY <1>8, <2>2
      <3> QED BY <1>3, <1>9, <3>1, <3>2 DEF Followed, n
    <2> QED BY <2>1, <2>2
  <1>12. Followed' = Followed \cup {Current}
    BY <1>1, <1>9, <1>11 DEF Followed
  <1>13. Apart'
    BY <1>3 DEF MarkInv, Apart
  <1>14. Opened'
    <2> SUFFICES ASSUME NEW i \in 1..(n - 1)
                 PROVE  /\ Target(LinkAt(stack'[i])) = stack'[i + 1].file
                        /\ ~Refused(LinkAt(stack'[i]))
      BY <1>3 DEF Opened, Target, Refused, Required, n
    <2>1. i \in 1..n /\ i + 1 \in 1..n
      BY <1>2 DEF n
    <2>2. stack'[i] = stack[i] /\ stack'[i + 1].file = stack[i + 1].file
      BY <1>3, <2>1 DEF n
    <2>3. Target(LinkAt(stack[i])) = stack[i + 1].file /\ ~Refused(LinkAt(stack[i]))
      BY DEF MarkInv, Opened, n
    <2> QED BY <2>2, <2>3 DEF LinkAt
  <1>15. Failing'
    <2> SUFFICES ASSUME NEW i \in 1..n, stack'[i].file \in failure
                 PROVE  stack'[i].phase = "uses" /\ stack'[i].errors # <<>>
      BY <1>3 DEF Failing, n
    <2>1. stack[i].phase = "uses" /\ stack[i].errors # <<>>
      BY <1>3 DEF MarkInv, Failing, n
    <2>2. CASE i = n
      <3>1. stack[n].errors \in Seq(Files \cup Written)
        BY <1>2, <1>4 DEF FrameType
      <3>2. stack[n].errors \o e # <<>>
        BY <2>1, <2>2, <3>1, ConcatEmptySeq
      <3> QED BY <1>5, <2>1, <2>2, <3>2
    <2>3. CASE i # n
      BY <1>3, <1>6, <2>1, <2>3 DEF n
    <2> QED BY <2>2, <2>3
  <1> QED BY <1>1, <1>3, <1>10, <1>12, <1>13, <1>14, <1>15
-----------------------------------------------------------------------------
(* What each step does to the links followed.                              *)

LEMMA InitMarks == Init => MarkInv
  <1> SUFFICES ASSUME Init PROVE MarkInv
    OBVIOUS
  <1>1. /\ stack = <<Frame(Entry)>> /\ Len(stack) = 1 /\ stack[1] = Frame(Entry)
        /\ fragments = {Entry} /\ marked = {} /\ linked = {} /\ failure = {}
        /\ waiting = [f \in Files |-> {}] /\ Typed
    BY InitIInv DEF Init, IInv
  <1>2. Followed = {}
    <2> SUFFICES ASSUME NEW l \in Written, l.from = Entry
                 PROVE  ~Passed(stack[1], l)
      BY <1>1 DEF Followed, Frame
    <2> QED BY <1>1, WrittenLink DEF Passed, Frame
  <1>3. Apart /\ Opened /\ Failing
    BY <1>1 DEF Apart, Opened, Failing
  <1> QED BY <1>1, <1>2, <1>3 DEF MarkInv, Right, OnlyFollowed

(* The link's fragment is in the cache: what is known of it is noted, and  *)
(* what is not yet known is waited for.                                    *)
LEMMA FollowCachedMarks ==
    ASSUME IInv, MarkInv, FollowCached
    PROVE  MarkInv' /\ Followed' = Followed \cup {Current}
  <1> DEFINE f == Target(Current)
  <1>1. /\ Pending /\ f \in fragments /\ ~Refused(Current)
        /\ linked' = linked \cup Given(Current) /\ stack' = Advance(stack, <<>>)
        /\ UNCHANGED <<doc, fragments, failure>>
        /\ marked' = IF f \in failure THEN marked \cup {Current} ELSE marked
        /\ waiting' = IF f \notin failure /\ f \in Decoding
                      THEN [waiting EXCEPT ![f] = @ \cup {Current}] ELSE waiting
        /\ <<>> \in Seq(Files \cup Written)
    BY DEF FollowCached, Refer
  <1>2. /\ Current \in Written /\ Current \notin Followed /\ f \in Files
        /\ Followed' = Followed \cup {Current} /\ Decoding' = Decoding
        /\ Apart' /\ Opened' /\ Failing'
    BY <1>1, MoveOn
  <1>3. \A l : Target(l)' = Target(l) /\ Refused(l)' = Refused(l) /\ Empty(l)' = Empty(l)
    BY <1>1 DEF Target, Refused, Required, Empty
  <1>4. waiting \in [Files -> SUBSET Written]
    BY DEF IInv, Typed
  <1>5. \A g \in Files : waiting'[g] = IF g = f /\ f \notin failure /\ f \in Decoding
                                      THEN waiting[g] \cup {Current} ELSE waiting[g]
    BY <1>1, <1>2, <1>4
  <1>6. marked \subseteq Followed /\ linked \subseteq Followed
    BY DEF MarkInv, OnlyFollowed
  <1>7. ASSUME NEW l \in Followed
        PROVE  Known(l)' /\ Marked(l)' /\ Linked(l)' /\ Told(l)'
    <2>1. Known(l) /\ Marked(l) /\ Linked(l) /\ Told(l) /\ l # Current
      BY <1>2, <1>7 DEF MarkInv, Right
    <2>2. Known(l)' /\ Marked(l)' /\ Linked(l)'
      BY <1>1, <1>3, <2>1 DEF Known, Marked, Linked, Given
    <2>3. Told(l)'
      <3> SUFFICES ASSUME ~Refused(l), Target(l) \in Decoding \ failure
                   PROVE  l \in waiting'[Target(l)]
        BY <1>1, <1>2, <1>3 DEF Told
      <3>1. l \in waiting[Target(l)]
        BY <2>1 DEF Told
      <3>2. Target(l) \in Files
        BY DEF IInv, Cached, ToSet
      <3> QED BY <1>5, <3>1, <3>2
    <2> QED BY <2>2, <2>3
  <1>8. ASSUME NEW l, l = Current
        PROVE  Known(l)' /\ Marked(l)' /\ Linked(l)' /\ Told(l)'
    <2>1. l \notin marked /\ l \notin linked
      BY <1>2, <1>6, <1>8
    <2>2. Target(l) = f /\ ~Refused(l) /\ (l \in linked' <=> ~Empty(l)) /\ (l \in marked' <=> f \in failure)
      BY <1>1, <1>8, <2>1 DEF Given
    <2>3. f \in Decoding \ failure => l \in waiting'[f]
      BY <1>2, <1>5, <1>8
    <2> HIDE DEF f
    <2> QED BY <1>1, <1>2, <1>3, <2>2, <2>3 DEF Known, Marked, Linked, Told
  <1>9. Right'
    BY <1>2, <1>7, <1>8 DEF Right
  <1>10. OnlyFollowed'
    <2>1. marked' \subseteq Followed' /\ linked' \subseteq Followed'
      BY <1>1, <1>2, <1>6 DEF Given
    <2>2. ASSUME NEW g \in Files, NEW l \in waiting'[g]
          PROVE  l \in Followed' /\ Target(l) = g /\ ~Refused(l)
      BY <1>1, <1>2, <1>5, <2>2 DEF MarkInv, OnlyFollowed
    <2> QED BY <1>3, <2>1, <2>2 DEF OnlyFollowed
  <1> QED BY <1>2, <1>9, <1>10 DEF MarkInv

LEMMA FollowRefusedMarks ==
    ASSUME IInv, MarkInv, FollowRefused
    PROVE  /\ MarkInv'
           /\ Current \in Written /\ Current \notin Followed
           /\ Followed' = Followed \cup {Current}
  <1>1. /\ Pending /\ Refused(Current) /\ marked' = marked \cup {Current}
        /\ stack' = Advance(stack, <<Current>>)
        /\ UNCHANGED <<doc, fragments, failure, waiting, linked>>
    BY DEF FollowRefused
  <1>2. <<Current>> \in Seq(Files \cup Written)
    BY <1>1, CurrentLink DEF IInv
  <1>3. /\ Current \in Written /\ Current \notin Followed
        /\ Followed' = Followed \cup {Current} /\ Decoding' = Decoding
        /\ Apart' /\ Opened' /\ Failing'
    BY <1>1, <1>2, MoveOn
  <1>4. \A l : Target(l)' = Target(l) /\ Refused(l)' = Refused(l) /\ Empty(l)' = Empty(l)
    BY <1>1 DEF Target, Refused, Required, Empty
  <1>5. marked \subseteq Followed /\ linked \subseteq Followed
    BY DEF MarkInv, OnlyFollowed
  <1>6. ASSUME NEW l \in Followed
        PROVE  Known(l)' /\ Marked(l)' /\ Linked(l)' /\ Told(l)'
    <2>1. Known(l) /\ Marked(l) /\ Linked(l) /\ Told(l) /\ l # Current
      BY <1>3, <1>6 DEF MarkInv, Right
    <2> QED BY <1>1, <1>3, <1>4, <2>1 DEF Known, Marked, Linked, Told
  <1>7. ASSUME NEW l, l = Current
        PROVE  Known(l)' /\ Marked(l)' /\ Linked(l)' /\ Told(l)'
    <2>1. Refused(l) /\ l \in marked' /\ l \notin linked'
      BY <1>1, <1>3, <1>5, <1>7
    <2> QED BY <1>4, <2>1 DEF Known, Marked, Linked, Told
  <1>8. Right'
    BY <1>3, <1>6, <1>7 DEF Right
  <1>9. OnlyFollowed'
    <2>1. marked' \subseteq Followed' /\ linked' \subseteq Followed'
      BY <1>1, <1>3, <1>5
    <2>2. ASSUME NEW g \in Files, NEW l \in waiting'[g]
          PROVE  l \in Followed' /\ Target(l) = g /\ ~Refused(l)
      BY <1>1, <1>3, <2>2 DEF MarkInv, OnlyFollowed
    <2> QED BY <1>4, <2>1, <2>2 DEF OnlyFollowed
  <1> QED BY <1>3, <1>8, <1>9 DEF MarkInv

(* A decode begins: no link of the new document is followed yet, and no    *)
(* followed link leads to it, for it was not in the cache.                 *)
LEMMA FollowNewMarks ==
    ASSUME IInv, MarkInv, FollowNew
    PROVE  MarkInv' /\ Followed' = Followed
  <1> DEFINE f == Target(Current)  n == Len(stack)
  <1>1. /\ stack # <<>> /\ f \in Files /\ f \notin fragments /\ ~Refused(Current)
        /\ fragments' = fragments \cup {f} /\ stack' = Append(stack, Frame(f))
        /\ UNCHANGED <<doc, failure, waiting, linked, marked>>
    BY CurrentLink DEF IInv, FollowNew, Register
  <1>2. n \in Nat \ {0} /\ n \in 1..n /\ LinkAt(stack[n]) = Current
    BY <1>1, TopFrame DEF IInv, Top, LinkAt, Current
  <1>3. Frame(f) \in FrameType
    <2>1. <<>> \in Seq(Files \cup Written)
      OBVIOUS
    <2> QED BY <1>1, <2>1 DEF Frame, FrameType
  <1>4. /\ Len(stack') = n + 1 /\ stack'[n + 1] = Frame(f)
        /\ \A i \in 1..n : stack'[i] = stack[i]
    BY <1>1, <1>3, AppendProperties DEF IInv, Typed
  <1>5. Frame(f).file = f /\ Frame(f).phase = "include" /\ Frame(f).at = 1
    BY DEF Frame
  <1>6. \A i \in 1..n : stack[i].file \in fragments /\ stack[i].file # f
    BY <1>1 DEF IInv, Decoding
  <1>7. \A i \in 1..(n + 1) : i \in 1..n \/ i = n + 1
    BY <1>2
  <1>8. \A i \in 1..n : i \in 1..(n + 1)
    BY <1>2
  <1>9. n + 1 \in 1..(n + 1)
    BY <1>2
  <1>10. Decoding' = Decoding \cup {f}
    <2> HIDE DEF f, n
    <2>1. Decoding' = {stack'[i].file : i \in 1..(n + 1)}
      BY <1>4 DEF Decoding
    <2>2. Decoding = {stack[i].file : i \in 1..n}
      BY DEF Decoding, n
    <2> QED BY <1>4, <1>5, <1>7, <1>8, <1>9, <2>1, <2>2
  <1>11. Written' = Written
    BY <1>1 DEF Written, LinksOf, Targets
  <1>12. ASSUME NEW l \in Written
         PROVE  l \in Followed' <=> l \in Followed
    <2>1. l.at \in Nat \ {0}
      BY WrittenLink DEF IInv
    <2>2. CASE l.from = f
      <3>1. ~Passed(stack'[n + 1], l)
        BY <1>4, <1>5, <2>1 DEF Passed
      <3>2. l \notin Followed' /\ l \notin Followed
        BY <1>1, <1>4, <1>5, <1>9, <2>2, <3>1 DEF Followed
      <3> QED BY <3>2
    <2>3. CASE l.from # f
      <3> HIDE DEF f, n
      <3>1. (\A i \in 1..(n + 1) : stack'[i].file = l.from => Passed(stack'[i], l))
              <=> (\A i \in 1..n : stack[i].file = l.from => Passed(stack[i], l))
        BY <1>4, <1>5, <1>7, <1>8, <2>3
      <3>2. l.from \in fragments' <=> l.from \in fragments
        BY <1>1, <2>3
      <3> QED BY <1>4, <1>11, <3>1, <3>2 DEF Followed, n
    <2> QED BY <2>2, <2>3
  <1>13. Followed' = Followed
    BY <1>11, <1>12 DEF Followed
  <1>14. \A l : Target(l)' = Target(l) /\ Refused(l)' = Refused(l) /\ Empty(l)' = Empty(l)
    BY <1>1 DEF Target, Refused, Required, Empty
  <1>15. Apart'
    <2> HIDE DEF f, n
    <2> SUFFICES ASSUME NEW i \in 1..(n + 1), NEW j \in 1..(n + 1),
                        stack'[i].file = stack'[j].file
                 PROVE  i = j
      BY <1>4 DEF Apart
    <2>1. CASE i \in 1..n /\ j \in 1..n
      BY <1>4, <2>1 DEF MarkInv, Apart, n
    <2>2. CASE i = n + 1 \/ j = n + 1
      BY <1>4, <1>5, <1>6, <1>7, <2>2
    <2> QED BY <1>7, <2>1, <2>2
  <1>16. Opened'
    <2>1. Len(stack') - 1 = n
      BY <1>2, <1>4
    <2> HIDE DEF f, n
    <2> SUFFICES ASSUME NEW i \in 1..n
                 PROVE  /\ Target(LinkAt(stack'[i])) = stack'[i + 1].file
                        /\ ~Refused(LinkAt(stack'[i]))
      BY <1>1, <2>1 DEF Opened, Target, Refused, Required
    <2>2. CASE i = n
      BY <1>1, <1>2, <1>4, <1>5, <2>2 DEF f
    <2>3. CASE i # n
      <3>1. i \in 1..(n - 1) /\ i + 1 \in 1..n
        BY <1>2, <2>3
      <3>2. Target(LinkAt(stack[i])) = stack[i + 1].file /\ ~Refused(LinkAt(stack[i]))
        BY <3>1 DEF MarkInv, Opened, n
      <3> QED BY <1>4, <3>1, <3>2
    <2> QED BY <2>2, <2>3
  <1>17. Failing'
    <2>1. f \notin failure
      BY <1>1 DEF IInv
    <2> HIDE DEF f, n
    <2> SUFFICES ASSUME NEW i \in 1..(n + 1), stack'[i].file \in failure
                 PROVE  stack'[i].phase = "uses" /\ stack'[i].errors # <<>>
      BY <1>1, <1>4 DEF Failing
    <2>2. i \in 1..n /\ stack'[i] = stack[i]
      BY <1>4, <1>5, <1>7, <2>1
    <2> QED BY <2>2 DEF MarkInv, Failing, n
  <1>18. Right'
    <2> SUFFICES ASSUME NEW l \in Followed
                 PROVE  Known(l)' /\ Marked(l)' /\ Linked(l)' /\ Told(l)'
      BY <1>13 DEF Right
    <2>1. Known(l) /\ Marked(l) /\ Linked(l) /\ Told(l)
      BY DEF MarkInv, Right
    <2>2. ~Refused(l) => Target(l) # f
      BY <1>1, <2>1 DEF Known
    <2> HIDE DEF f
    <2> QED BY <1>1, <1>10, <1>14, <2>1, <2>2 DEF Known, Marked, Linked, Told
  <1>19. OnlyFollowed'
    BY <1>1, <1>13, <1>14 DEF MarkInv, OnlyFollowed
  <1> QED BY <1>13, <1>15, <1>16, <1>17, <1>18, <1>19 DEF MarkInv

(* The frames under the one on top.                                        *)
LEMMA FrontFrames ==
    ASSUME Typed, stack # <<>>
    PROVE  /\ Front(stack) \in Seq(FrameType) /\ Len(Front(stack)) = Len(stack) - 1
           /\ \A i \in 1..(Len(stack) - 1) :
                  Front(stack)[i] = stack[i] /\ stack[i] \in FrameType
  <1> DEFINE n == Len(stack) - 1
  <1>1. n \in Nat /\ 1..n \subseteq 1..Len(stack)
    BY TopFrame
  <1>2. \A i \in 1..n : stack[i] \in FrameType
    BY <1>1, ElementOfSeq DEF Typed
  <1>3. Front(stack) = SubSeq(stack, 1, n)
    BY DEF Front
  <1> HIDE DEF n
  <1>4. /\ SubSeq(stack, 1, n) \in Seq(FrameType)
        /\ Len(SubSeq(stack, 1, n)) = IF 1 <= n THEN n - 1 + 1 ELSE 0
        /\ \A i \in 1..(n - 1 + 1) : SubSeq(stack, 1, n)[i] = stack[1 + i - 1]
    BY <1>1, <1>2, SubSeqProperties
  <1>5. n - 1 + 1 = n /\ (\A i \in 1..n : 1 + i - 1 = i)
        /\ (IF 1 <= n THEN n - 1 + 1 ELSE 0) = n
    BY <1>1
  <1> QED BY <1>2, <1>3, <1>4, <1>5 DEF n

(* A document settles: the failure that is now known reaches the links     *)
(* that met it before, which are those that wait.                          *)
LEMMA SettleMarks ==
    ASSUME MarkInv, Waits, NEW f \in Files, NEW l \in Followed, NEW fails \in BOOLEAN,
           f \in Decoding, ~fails => f \notin failure,
           failure' = IF fails THEN failure \cup {f} ELSE failure \ {f},
           NEW M, M = marked \cup (IF fails THEN waiting[f] ELSE {})
    PROVE  l \in M <=> Refused(l) \/ Target(l) \in failure'
  <1>1. Known(l) /\ Marked(l) /\ Linked(l) /\ Told(l)
    BY DEF MarkInv, Right
  <1>2. CASE ~fails
    BY <1>1, <1>2 DEF Marked
  <1>3. CASE fails
    <2>1. l \in waiting[f] => Target(l) = f
      BY DEF MarkInv, OnlyFollowed
    <2>2. ~Refused(l) /\ Target(l) = f /\ f \notin failure => l \in waiting[f]
      BY <1>1 DEF Told
    <2> QED BY <1>1, <1>3, <2>1, <2>2 DEF Marked
  <1> QED BY <1>2, <1>3

LEMMA EndBodyMarks ==
    ASSUME IInv, MarkInv, EndBody
    PROVE  MarkInv' /\ Followed' = Followed
  <1> DEFINE n == Len(stack)
             f == Top.file
             own == IF doc[f].state = "ok" THEN <<>> ELSE <<f>>
             errors == Top.errors \o own
             moved == [Top EXCEPT !.phase = "uses", !.at = 1, !.errors = errors]
  <1>1. /\ stack # <<>> /\ n \in Nat \ {0} /\ n \in 1..n /\ Top \in FrameType
        /\ Top = stack[n] /\ f \in Decoding /\ f \in Files /\ f \in fragments
        /\ Top.phase = "include" /\ ~(Top.at <= Len(Targets(f, "include")))
    BY TopFrame DEF IInv, EndBody, Pending, Top
  <1>2. /\ Settle(f, errors)
        /\ marked' = IF errors = <<>> THEN marked ELSE marked \cup waiting[f]
        /\ stack' = [stack EXCEPT ![n] = moved]
        /\ UNCHANGED <<doc, fragments, linked, reported, decodes>>
    BY DEF EndBody, Top
  <1>3. errors \in Seq(Files \cup Written)
    <2>1. Top.errors \in Seq(Files \cup Written)
      BY <1>1 DEF FrameType
    <2>2. <<>> \in Seq(Files \cup Written) /\ <<f>> \in Seq(Files \cup Written)
      <3> HIDE DEF f
      <3> QED BY <1>1
    <2>3. own \in Seq(Files \cup Written)
      BY <2>2
    <2> HIDE DEF own
    <2> QED BY <2>1, <2>3, ConcatProperties
  <1> HIDE DEF errors
  <1>4. moved \in FrameType /\ moved.file = f
    BY <1>1, <1>3, UsesFrame
  <1>5. moved.phase = "uses" /\ moved.at = 1 /\ moved.errors = errors
    BY <1>1 DEF FrameType
  <1> HIDE DEF moved
  <1>6. /\ Len(stack') = n /\ stack'[n] = moved
        /\ \A i \in 1..n : i # n => stack'[i] = stack[i]
    BY <1>1, <1>2, <1>4, ExceptSeq DEF IInv, Typed
  <1>7. \A i \in 1..n : stack'[i].file = stack[i].file
    BY <1>1, <1>4, <1>6
  <1>8. Decoding' = Decoding /\ Written' = Written
    <2>1. Decoding' = {stack'[i].file : i \in 1..n}
      BY <1>6 DEF Decoding
    <2>2. Decoding = {stack[i].file : i \in 1..n}
      BY DEF Decoding
    <2>3. Written' = Written
      BY <1>2 DEF Written, LinksOf, Targets
    <2> HIDE DEF n
    <2> QED BY <1>7, <2>1, <2>2, <2>3
  <1>9. \A i \in 1..n : stack[i].file = f => i = n
    BY <1>1 DEF MarkInv, Apart
  <1>10. f \notin failure
    BY <1>1 DEF MarkInv, Failing
  <1> HIDE DEF f, n
  <1>11. ASSUME NEW l \in Written
         PROVE  l \in Followed' <=> l \in Followed
    <2>1. /\ l.phase \in {"include", "uses"} /\ l.at \in Nat \ {0}
          /\ l.at <= Len(Targets(l.from, l.phase))
      BY WrittenLink DEF IInv
    <2>2. CASE l.from = f
      <3>1. Passed(stack[n], l) <=> l.phase = "include"
        <4>1. Top.at \in Nat \ {0}
          BY <1>1 DEF FrameType
        <4>2. Targets(f, "include") \in Seq(Files)
          <5>1. doc[f].include \in Seq(Files)
            BY <1>1, CorpusAssumption DEF IInv, Typed
          <5>2. <<>> \in Seq(Files)
            OBVIOUS
          <5> QED BY <5>1, <5>2 DEF Targets
        <4>3. Len(Targets(f, "include")) \in Nat
          BY <4>2, LenProperties
        <4> QED BY <1>1, <2>1, <2>2, <4>1, <4>3 DEF Passed
      <3>2. Passed(stack'[n], l) <=> l.phase = "include"
        BY <1>5, <1>6, <2>1 DEF Passed
      <3>3. \A i \in 1..n : stack[i].file = f <=> i = n
        BY <1>1, <1>9 DEF f
      <3> QED BY <1>1, <1>2, <1>6, <1>7, <1>8, <2>2, <3>1, <3>2, <3>3 DEF Followed, n
    <2>3. CASE l.from # f
      <3>1. \A i \in 1..n : stack[i].file = l.from => stack'[i] = stack[i]
        BY <1>1, <1>6, <2>3 DEF f
      <3> QED BY <1>2, <1>6, <1>7, <1>8, <3>1 DEF Followed, n
    <2> QED BY <2>2, <2>3
  <1>12. Followed' = Followed
    BY <1>8, <1>11 DEF Followed
  <1>13. \A l : Target(l)' = Target(l) /\ Refused(l)' = Refused(l) /\ Empty(l)' = Empty(l)
    BY <1>2 DEF Target, Refused, Required, Empty
  <1>14. Apart'
    BY <1>6, <1>7 DEF MarkInv, Apart, n
  <1>15. Opened'
    <2> SUFFICES ASSUME NEW i \in 1..(n - 1)
                 PROVE  /\ Target(LinkAt(stack'[i])) = stack'[i + 1].file
                        /\ ~Refused(LinkAt(stack'[i]))
      BY <1>2, <1>6 DEF Opened, Target, Refused, Required
    <2>1. i \in 1..n /\ i # n /\ i + 1 \in 1..n
      BY <1>1
    <2> QED BY <1>6, <1>7, <2>1 DEF MarkInv, Opened, n
  <1>16. failure' = IF errors # <<>> THEN failure \cup {f} ELSE failure \ {f}
    BY <1>2 DEF Settle
  <1>17. Failing'
    <2> SUFFICES ASSUME NEW i \in 1..n, stack'[i].file \in failure'
                 PROVE  stack'[i].phase = "uses" /\ stack'[i].errors # <<>>
      BY <1>6 DEF Failing
    <2>1. CASE i = n
      BY <1>4, <1>5, <1>6, <1>10, <1>16, <2>1
    <2>2. CASE i # n
      <3>1. stack'[i] = stack[i] /\ stack[i].file # f
        BY <1>6, <1>9, <2>2
      <3> QED BY <1>16, <3>1 DEF MarkInv, Failing, n
    <2> QED BY <2>1, <2>2
  <1>18. waiting' = IF errors = <<>> THEN waiting ELSE [waiting EXCEPT ![f] = {}]
    BY <1>2 DEF Settle
  <1>19. \A g \in Files : waiting'[g] = IF g = f /\ errors # <<>> THEN {} ELSE waiting[g]
    BY <1>18 DEF IInv, Typed
  <1>20. Right'
    <2> SUFFICES ASSUME NEW l \in Followed
                 PROVE  Known(l)' /\ Marked(l)' /\ Linked(l)' /\ Told(l)'
      BY <1>12 DEF Right
    <2>1. Known(l) /\ Linked(l) /\ Told(l)
      BY DEF MarkInv, Right
    <2>2. Marked(l)'
      <3> DEFINE fails == errors # <<>>
      <3>1. marked' = marked \cup (IF fails THEN waiting[f] ELSE {})
        BY <1>2
      <3>2. failure' = IF fails THEN failure \cup {f} ELSE failure \ {f}
        BY <1>16
      <3>3. fails \in BOOLEAN /\ Waits
        BY DEF IInv
      <3> HIDE DEF fails
      <3>4. l \in marked' <=> Refused(l) \/ Target(l) \in failure'
        BY <1>1, <1>10, <3>1, <3>2, <3>3, SettleMarks DEF f
      <3> QED BY <1>13, <3>4 DEF Marked
    <2>3. Told(l)'
      <3> SUFFICES ASSUME ~Refused(l), Target(l) \in Decoding \ failure'
                   PROVE  l \in waiting'[Target(l)]
        BY <1>8, <1>13 DEF Told
      <3>1. Target(l) \in Files
        BY DEF IInv, Cached, ToSet
      <3> QED BY <1>10, <1>16, <1>19, <2>1, <3>1 DEF Told
    <2> QED BY <1>2, <1>13, <2>1, <2>2, <2>3 DEF Known, Linked
  <1>21. OnlyFollowed'
    <2>1. marked' \subseteq Followed /\ linked' \subseteq Followed
      BY <1>1, <1>2 DEF MarkInv, OnlyFollowed, f
    <2>2. ASSUME NEW g \in Files, NEW l \in waiting'[g]
          PROVE  l \in Followed /\ Target(l) = g /\ ~Refused(l)
      BY <1>19, <2>2 DEF MarkInv, OnlyFollowed
    <2> QED BY <1>12, <1>13, <2>1, <2>2 DEF OnlyFollowed
  <1> QED BY <1>12, <1>14, <1>15, <1>17, <1>20, <1>21 DEF MarkInv

(* A decode is over: its document is followed as a whole, and the link it  *)
(* was opened for is followed by it.                                       *)
LEMMA ReturnMarks ==
    ASSUME IInv, MarkInv, Return
    PROVE  /\ MarkInv'
           /\ Followed \subseteq Followed' /\ \A l \in Followed' \ Followed : ~Refused(l)
  <1> DEFINE n == Len(stack)
             f == Top.file
             errors == Top.errors
             outer == Front(stack)
             told == IF errors # <<>> THEN waiting[f] ELSE {}
  <1>1. /\ stack # <<>> /\ n \in Nat \ {0} /\ n \in 1..n /\ Top \in FrameType
        /\ Top = stack[n] /\ f \in Decoding /\ f \in Files /\ f \in fragments
        /\ Top.phase = "uses" /\ ~(Top.at <= Len(Targets(f, "uses")))
        /\ errors \in Seq(Files \cup Written)
    BY TopFrame DEF IInv, Return, Pending, Top, FrameType
  <1>2. /\ failure' = IF errors # <<>> THEN failure \cup {f} ELSE failure \ {f}
        /\ waiting' = [waiting EXCEPT ![f] = {}]
        /\ UNCHANGED <<doc, fragments>>
    BY DEF Return
  <1>3. errors = <<>> => f \notin failure
    BY <1>1 DEF MarkInv, Failing
  <1>4. \A i \in 1..n : stack[i].file = f <=> i = n
    BY <1>1 DEF MarkInv, Apart
  <1>5. /\ outer \in Seq(FrameType) /\ Len(outer) = n - 1
        /\ \A i \in 1..(n - 1) : outer[i] = stack[i] /\ stack[i] \in FrameType
    BY <1>1, FrontFrames DEF IInv
  <1>6. Written' = Written
    BY <1>2 DEF Written, LinksOf, Targets
  <1>7. \A l : Target(l)' = Target(l) /\ Refused(l)' = Refused(l) /\ Empty(l)' = Empty(l)
    BY <1>2 DEF Target, Refused, Required, Empty
  <1>8. \A g \in Files : waiting'[g] = IF g = f THEN {} ELSE waiting[g]
    BY <1>2 DEF IInv, Typed
  (* Every link of the document has been passed.                           *)
  <1>9. ASSUME NEW l \in Written, l.from = f
        PROVE  Passed(stack[n], l) /\ l \in Followed
    <2>1. /\ l.phase \in {"include", "uses"} /\ l.at \in Nat \ {0}
          /\ l.at <= Len(Targets(f, l.phase))
      BY <1>9, WrittenLink DEF IInv
    <2>2. Top.at \in Nat \ {0}
      BY <1>1 DEF FrameType
    <2>3. Len(Targets(f, "uses")) \in Nat
      <3>1. doc[f].uses \in Seq(Files) /\ <<>> \in Seq(Files)
        BY <1>1, CorpusAssumption DEF IInv, Typed
      <3>2. Targets(f, "uses") \in Seq(Files)
        BY <3>1 DEF Targets
      <3> QED BY <3>2, LenProperties
    <2>4. Passed(Top, l)
      <3> HIDE DEF f
      <3> QED BY <1>1, <2>1, <2>2, <2>3 DEF Passed
    <2> QED BY <1>1, <1>4, <1>9, <2>4 DEF Followed
  <1> HIDE DEF outer, errors
  <1>10. CASE outer = <<>>
    <2>1. stack' = <<>> /\ linked' = linked /\ marked' = marked \cup told
      BY <1>10 DEF Return, outer, errors
    <2>2. n = 1 /\ Decoding = {f}
      <3>1. n = 1
        BY <1>1, <1>5, <1>10, EmptySeq
      <3> QED BY <1>1, <3>1 DEF Decoding
    <2>3. Followed' = Followed
      <3> SUFFICES ASSUME NEW l \in Written
                   PROVE  l \in Followed' <=> l \in Followed
        BY <1>6 DEF Followed
      <3>1. l \in Followed' <=> l.from \in fragments
        BY <1>2, <1>6, <2>1 DEF Followed
      <3>2. l.from # f => (l \in Followed <=> l.from \in fragments)
        BY <1>1, <1>4, <2>2 DEF Followed
      <3>3. l.from = f => l \in Followed /\ l.from \in fragments
        BY <1>1, <1>9
      <3> QED BY <3>1, <3>2, <3>3
    <2>4. Decoding' = {}
      BY <2>1 DEF Decoding
    <2> HIDE DEF n, f
    <2>5. ASSUME NEW l \in Followed
          PROVE  Known(l)' /\ Marked(l)' /\ Linked(l)' /\ Told(l)'
      <3>1. Known(l) /\ Linked(l)
        BY DEF MarkInv, Right
      <3>2. Marked(l)'
        <4> DEFINE fails == errors # <<>>
        <4>1. marked' = marked \cup (IF fails THEN waiting[f] ELSE {})
          BY <2>1
        <4>2. failure' = IF fails THEN failure \cup {f} ELSE failure \ {f}
          BY <1>2
        <4>3. fails \in BOOLEAN /\ Waits /\ (~fails => f \notin failure)
          BY <1>3 DEF IInv
        <4> HIDE DEF fails
        <4>4. l \in marked' <=> Refused(l) \/ Target(l) \in failure'
          BY <1>1, <4>1, <4>2, <4>3, SettleMarks DEF f
        <4> QED BY <1>7, <4>4 DEF Marked
      <3> QED BY <1>2, <1>7, <2>1, <2>4, <3>1, <3>2 DEF Known, Linked, Told
    <2>6. Right'
      BY <2>3, <2>5 DEF Right
    <2>7. OnlyFollowed'
      <3>1. marked' \subseteq Followed /\ linked' \subseteq Followed
        BY <1>1, <2>1 DEF MarkInv, OnlyFollowed, f
      <3>2. ASSUME NEW g \in Files, NEW l \in waiting'[g]
            PROVE  l \in Followed /\ Target(l) = g /\ ~Refused(l)
        BY <1>8, <3>2 DEF MarkInv, OnlyFollowed
      <3> QED BY <1>7, <2>3, <3>1, <3>2 DEF OnlyFollowed
    <2>8. Apart' /\ Opened' /\ Failing'
      BY <2>1 DEF Apart, Opened, Failing
    <2> QED BY <2>3, <2>6, <2>7, <2>8 DEF MarkInv
  <1>11. CASE outer # <<>>
    <2> DEFINE m == Len(outer)
               c == LinkAt(outer[m])
    <2>1. /\ stack' = Advance(outer, errors) /\ linked' = linked \cup Given(c)
          /\ marked' = marked \cup told \cup (IF errors = <<>> THEN {} ELSE {c})
      BY <1>11 DEF Return, outer, errors, Last, LinkAt
    <2>2. /\ m = n - 1 /\ m \in Nat \ {0} /\ m \in 1..m /\ m \in 1..n /\ m # n
          /\ \A i \in 1..n : i # n => i \in 1..m
          /\ \A i \in 1..m : i \in 1..n /\ i # n /\ i \in 1..(n - 1)
          /\ \A i \in 1..m : i # m => i \in 1..(m - 1)
      BY <1>1, <1>5, <1>11, EmptySeq
    <2>3. /\ Len(stack') = m
          /\ \A i \in 1..m : stack'[i].file = stack[i].file
          /\ \A i \in 1..(m - 1) : stack'[i] = stack[i]
      <3>1. /\ Len(stack') = m
            /\ \A i \in 1..m : stack'[i].file = outer[i].file
            /\ \A i \in 1..(m - 1) : stack'[i] = outer[i]
        BY <1>1, <1>5, <1>11, <2>1, AdvanceFrames
      <3>2. \A i \in 1..(m - 1) : i \in 1..m
        BY <2>2
      <3> QED BY <1>5, <2>2, <3>1, <3>2
    <2>4. outer[m] = stack[m]
      BY <1>5, <2>2
    <2>5. /\ stack'[m].phase = stack[m].phase /\ stack'[m].errors = stack[m].errors \o errors
          /\ \A l \in Written : l.from = stack[m].file =>
                 (Passed(stack'[m], l) <=> Passed(stack[m], l) \/ l = c)
          /\ ~Passed(stack[m], c)
      BY <1>1, <1>5, <1>11, <2>1, <2>4, AdvanceTop DEF IInv
    <2>6. Target(c) = f /\ ~Refused(c) /\ c \in Written
      BY <1>1, <2>2, <2>4 DEF MarkInv, Opened, IInv, Suspended
    <2>7. c.from = stack[m].file /\ c.from # f
      BY <1>4, <2>2, <2>4 DEF LinkAt, Link
    <2> HIDE DEF c, m
    <2>8. \A i \in 1..n : stack[i].file = stack[m].file => i = m
      BY <2>2 DEF MarkInv, Apart
    <2>9. \A i \in 1..n : stack[i].file \in fragments
      BY DEF IInv, Decoding
    <2> HIDE DEF n
    <2>10. Decoding' = Decoding \ {f}
      <3>1. Decoding' = {stack'[i].file : i \in 1..m}
        BY <2>3 DEF Decoding
      <3>2. Decoding = {stack[i].file : i \in 1..n}
        BY DEF Decoding, n
      <3> HIDE DEF f
      <3> QED BY <1>4, <2>2, <2>3, <3>1, <3>2
    <2>11. c \notin Followed
      BY <2>2, <2>5, <2>7 DEF Followed, n
    <2>12. ASSUME NEW l \in Written
           PROVE  l \in Followed' <=> l \in Followed \/ l = c
      <3>1. CASE l.from = f
        <4>1. l \in Followed /\ l # c
          BY <1>9, <2>7, <3>1
        <4>2. \A i \in 1..m : stack'[i].file # l.from
          BY <1>4, <2>2, <2>3, <3>1
        <4> QED BY <1>1, <1>2, <1>6, <2>3, <3>1, <4>1, <4>2 DEF Followed
      <3>2. CASE l.from = stack[m].file
        <4>1. l \in Followed <=> Passed(stack[m], l)
          BY <2>2, <2>8, <2>9, <3>2 DEF Followed, n
        <4>2. l \in Followed' <=> Passed(stack'[m], l)
          BY <1>2, <1>6, <2>2, <2>3, <2>8, <2>9, <3>2 DEF Followed
        <4> QED BY <2>5, <3>2, <4>1, <4>2
      <3>3. CASE l.from # f /\ l.from # stack[m].file
        <4>1. (\A i \in 1..n : stack[i].file = l.from => Passed(stack[i], l))
                <=> (\A i \in 1..m : stack'[i].file = l.from => Passed(stack'[i], l))
          BY <1>4, <2>2, <2>3, <3>3
        <4>2. l # c
          BY <2>7, <3>3
        <4> QED BY <1>2, <1>6, <2>3, <4>1, <4>2 DEF Followed, n
      <3> QED BY <3>1, <3>2, <3>3
    <2>13. Followed' = Followed \cup {c}
      BY <1>6, <2>6, <2>12 DEF Followed
    <2>14. Apart'
      <3>1. \A i, j \in 1..n : stack[i].file = stack[j].file => i = j
        BY DEF MarkInv, Apart, n
      <3>2. \A i \in 1..m : i \in 1..n
        BY <2>2
      <3>3. \A i, j \in 1..m : stack'[i].file = stack'[j].file => i = j
        BY <2>3, <3>1, <3>2
      <3> QED BY <2>3, <3>3 DEF Apart
    <2>15. Opened'
      <3> SUFFICES ASSUME NEW i \in 1..(m - 1)
                   PROVE  /\ Target(LinkAt(stack'[i])) = stack'[i + 1].file
                          /\ ~Refused(LinkAt(stack'[i]))
        BY <1>2, <2>3 DEF Opened, Target, Refused, Required
      <3>1. i \in 1..(n - 1) /\ i + 1 \in 1..m
        BY <2>2
      <3> QED BY <2>3, <3>1 DEF MarkInv, Opened, n
    <2>16. Failing'
      <3> SUFFICES ASSUME NEW i \in 1..m, stack'[i].file \in failure'
                   PROVE  stack'[i].phase = "uses" /\ stack'[i].errors # <<>>
        BY <2>3 DEF Failing
      <3>1. i \in 1..n /\ stack[i].file \in failure
        BY <1>2, <1>4, <2>2, <2>3
      <3>2. stack[i].phase = "uses" /\ stack[i].errors # <<>>
        BY <3>1 DEF MarkInv, Failing, n
      <3>3. CASE i = m
        <4>1. stack[m].errors \in Seq(Files \cup Written)
          BY <1>5, <2>2 DEF FrameType
        <4>2. stack[m].errors \o errors # <<>>
          BY <1>1, <3>2, <3>3, <4>1, ConcatEmptySeq
        <4> QED BY <2>5, <3>2, <3>3, <4>2
      <3>4. CASE i # m
        BY <2>2, <2>3, <3>2, <3>4
      <3> QED BY <3>3, <3>4
    <2> HIDE DEF f
    <2>17. ASSUME NEW l \in Followed
           PROVE  Known(l)' /\ Marked(l)' /\ Linked(l)' /\ Told(l)'
      <3>1. Known(l) /\ Linked(l) /\ Told(l) /\ l # c
        BY <2>11, <2>17 DEF MarkInv, Right
      <3>2. Marked(l)'
        <4> DEFINE fails == errors # <<>>
        <4>1. l \in marked' <=> l \in marked \cup (IF fails THEN waiting[f] ELSE {})
          BY <2>1, <3>1
        <4>2. failure' = IF fails THEN failure \cup {f} ELSE failure \ {f}
          BY <1>2
        <4>3. fails \in BOOLEAN /\ Waits /\ (~fails => f \notin failure)
          BY <1>3 DEF IInv
        <4> HIDE DEF fails
        <4>4. l \in marked' <=> Refused(l) \/ Target(l) \in failure'
          BY <1>1, <4>1, <4>2, <4>3, SettleMarks DEF f
        <4> QED BY <1>7, <4>4 DEF Marked
      <3>3. Told(l)'
        <4> SUFFICES ASSUME ~Refused(l), Target(l) \in Decoding \ {f},
                            Target(l) \notin failure'
                     PROVE  l \in waiting'[Target(l)]
          BY <1>7, <2>10 DEF Told
        <4>1. Target(l) \in Files /\ Target(l) \notin failure
          BY <1>2 DEF IInv, Cached, ToSet
        <4> QED BY <1>8, <3>1, <4>1 DEF Told
      <3>4. Known(l)' /\ Linked(l)'
        BY <1>2, <1>7, <2>1, <3>1 DEF Known, Linked, Given
      <3> QED BY <3>2, <3>3, <3>4
    <2>18. ASSUME NEW l, l = c
           PROVE  Known(l)' /\ Marked(l)' /\ Linked(l)' /\ Told(l)'
      <3>1. l \notin marked /\ l \notin waiting[f] /\ Target(l) = f /\ ~Refused(l)
        BY <1>1, <2>6, <2>11, <2>18 DEF MarkInv, OnlyFollowed, f
      <3>2. l \in marked' <=> errors # <<>>
        BY <2>1, <2>18, <3>1
      <3>3. f \in failure' <=> errors # <<>>
        BY <1>2
      <3>4. (l \in linked' <=> ~Empty(l)) /\ f \in fragments' /\ f \notin Decoding'
        BY <1>1, <1>2, <2>1, <2>10, <2>11, <2>18 DEF f, Given, MarkInv, OnlyFollowed
      <3> QED BY <1>7, <3>1, <3>2, <3>3, <3>4 DEF Known, Marked, Linked, Told
    <2>19. Right'
      BY <2>13, <2>17, <2>18 DEF Right
    <2>20. OnlyFollowed'
      <3>0. Given(c) \subseteq {c}
        BY DEF Given
      <3>1. marked' \subseteq Followed' /\ linked' \subseteq Followed'
        <4>1. told \subseteq Followed
          BY <1>1 DEF MarkInv, OnlyFollowed, f
        <4> QED BY <2>1, <2>13, <3>0, <4>1 DEF MarkInv, OnlyFollowed
      <3>2. ASSUME NEW g \in Files, NEW l \in waiting'[g]
            PROVE  l \in Followed' /\ Target(l) = g /\ ~Refused(l)
        BY <1>8, <2>13, <3>2 DEF MarkInv, OnlyFollowed
      <3> QED BY <1>7, <3>1, <3>2 DEF OnlyFollowed
    <2> QED BY <2>6, <2>13, <2>14, <2>15, <2>16, <2>19, <2>20 DEF MarkInv
  <1> QED BY <1>10, <1>11
-----------------------------------------------------------------------------
(* The theorems about the links.                                           *)

(* Each link followed is right as far as its fragment is known, in every   *)
(* reachable state.                                                        *)
THEOREM MarksInductive == Spec => []MarkInv
  <1>1. Init => MarkInv
    BY InitMarks
  <1>2. IInv /\ MarkInv /\ [Next]_vars => MarkInv'
    <2> SUFFICES ASSUME IInv, MarkInv, [Next]_vars PROVE MarkInv'
      OBVIOUS
    <2>1. CASE UNCHANGED vars
      <3>1. UNCHANGED <<doc, fragments, failure, waiting, linked, marked, stack>>
        BY <2>1 DEF vars
      <3>2. Decoding' = Decoding /\ Written' = Written
        BY <3>1 DEF Decoding, Written, LinksOf, Targets
      <3>3. Followed' = Followed
        BY <3>1, <3>2 DEF Followed
      <3>4. \A l : Target(l)' = Target(l) /\ Refused(l)' = Refused(l) /\ Empty(l)' = Empty(l)
        BY <3>1 DEF Target, Refused, Required, Empty
      <3>5. Right'
        BY <3>1, <3>2, <3>3, <3>4 DEF MarkInv, Right, Known, Marked, Linked, Told
      <3>6. OnlyFollowed'
        BY <3>1, <3>3, <3>4 DEF MarkInv, OnlyFollowed
      <3>7. Apart' /\ Opened' /\ Failing'
        BY <3>1 DEF MarkInv, Apart, Opened, Failing, Target, Refused, Required
      <3> QED BY <3>5, <3>6, <3>7 DEF MarkInv
    <2> QED BY <2>1, FollowCachedMarks, FollowRefusedMarks, FollowNewMarks,
               EndBodyMarks, ReturnMarks DEF Next, Over
  <1> QED BY <1>1, <1>2, CacheInductive, PTL DEF Spec

(* When the parse is over every link of every document has been followed.  *)
LEMMA AllFollowed ==
    ASSUME IInv, Finished, NEW f \in fragments, NEW l \in LinksOf(f)
    PROVE  l \in Followed
  <1>1. f \in Files
    BY DEF IInv, Cached, ToSet
  <1>2. l \in Written /\ l.from = f
    BY <1>1 DEF Written, LinksOf, Link
  <1> QED BY <1>2 DEF Finished, Followed

(* When the parse is over, a link is marked exactly when nothing answers   *)
(* it or its fragment failed, in whatever order the failure and the link   *)
(* were met (refer, _settle; docs/04 section 6).                           *)
THEOREM MarkedIffFailedHolds == Spec => []MarkedIffFailed
  <1>1. IInv /\ MarkInv => MarkedIffFailed
    BY AllFollowed DEF MarkInv, Right, Marked, MarkedIffFailed
  <1> QED BY <1>1, CacheInductive, MarksInductive, PTL

(* And every link is followed and linked to what there is, whatever failed *)
(* beside it (resolve_uses, _one_definition).                              *)
THEOREM LinkedAsItStandsHolds == Spec => []LinkedAsItStands
  <1>1. ASSUME IInv, MarkInv, Finished, NEW f \in fragments, NEW l \in LinksOf(f)
        PROVE  l \in linked <=>
                 ~Refused(l) /\ (l.phase = "uses" \/ doc[Target(l)].state # "unreadable")
    <2>1. l \in linked <=> ~Refused(l) /\ ~Empty(l)
      BY <1>1, AllFollowed DEF MarkInv, Right, Linked
    <2>2. l.phase \in {"include", "uses"}
      BY <1>1 DEF LinksOf, Link
    <2> QED BY <2>1, <2>2 DEF Empty
  <1>2. IInv /\ MarkInv => LinkedAsItStands
    BY <1>1 DEF LinkedAsItStands
  <1> QED BY <1>2, CacheInductive, MarksInductive, PTL
-----------------------------------------------------------------------------
(* The problems.  Each is reported once, and they are those there are.     *)

(* What has been found so far: the links followed that nothing answers and *)
(* the mistaken documents whose body is over.                              *)
BodyOver(f) ==
    \A i \in 1..Len(stack) : stack[i].file = f => stack[i].phase = "uses"
Found ==
    {l \in Followed : Refused(l)}
        \cup {f \in fragments : doc[f].state # "ok" /\ BodyOver(f)}

(* Where it is held: by one of the decodes in progress, or in the report.  *)
Held ==
    ToSet(reported) \cup (UNION {ToSet(stack[i].errors) : i \in 1..Len(stack)})
HeldOnce ==
    /\ IsInjective(reported) /\ (stack # <<>> => reported = <<>>)
    /\ \A i \in 1..Len(stack) : IsInjective(stack[i].errors)
    /\ \A i, j \in 1..Len(stack) :
           i # j => ToSet(stack[i].errors) \cap ToSet(stack[j].errors) = {}

ProblemInv ==
    /\ HeldOnce /\ Held = Found
    /\ Entry \in fragments /\ fragments \subseteq Reachable

LEMMA NoErrors == IsInjective(<<>>) /\ ToSet(<<>>) = {}
  BY DEF IsInjective, ToSet

LEMMA OneError ==
    ASSUME NEW S, NEW e \in S
    PROVE  <<e>> \in Seq(S) /\ IsInjective(<<e>>) /\ ToSet(<<e>>) = {e}
  <1>1. <<e>> \in Seq(S) /\ DOMAIN <<e>> = {1}
    OBVIOUS
  <1> QED BY <1>1, SingleSet DEF IsInjective

(* Who moves past a link keeps every frame but the errors on top.          *)
LEMMA AdvanceKeeps ==
    ASSUME Typed, NEW s \in Seq(FrameType), s # <<>>, NEW e \in Seq(Files \cup Written)
    PROVE  LET t == Advance(s, e) IN
           /\ Len(t) = Len(s) /\ t[Len(s)].errors = s[Len(s)].errors \o e
           /\ \A i \in 1..Len(s) : t[i].file = s[i].file /\ t[i].phase = s[i].phase
           /\ \A i \in 1..(Len(s) - 1) : t[i] = s[i]
  <1> DEFINE t == Advance(s, e)
  <1>1. /\ Len(t) = Len(s) /\ \A i \in 1..Len(s) : t[i].file = s[i].file
        /\ \A i \in 1..(Len(s) - 1) : t[i] = s[i]
    BY AdvanceFrames
  <1>2. t[Len(s)].phase = s[Len(s)].phase /\ t[Len(s)].errors = s[Len(s)].errors \o e
    BY AdvanceTop
  <1>3. Len(s) \in Nat
    BY LenProperties
  <1> HIDE DEF t
  <1>4. \A i \in 1..Len(s) : i = Len(s) \/ i \in 1..(Len(s) - 1)
    BY <1>3
  <1>5. \A i \in 1..Len(s) : t[i].phase = s[i].phase
    BY <1>1, <1>2, <1>4
  <1> QED BY <1>1, <1>2, <1>5 DEF t

(* The document on top has new errors: they are held once as well.         *)
LEMMA TopGains ==
    ASSUME Typed, HeldOnce, stack # <<>>, NEW e \in Seq(Files \cup Written),
           IsInjective(e), ToSet(e) \cap Held = {},
           Len(stack') = Len(stack), reported' = reported,
           stack'[Len(stack)].errors = stack[Len(stack)].errors \o e,
           \A i \in 1..(Len(stack) - 1) : stack'[i].errors = stack[i].errors
    PROVE  HeldOnce' /\ Held' = Held \cup ToSet(e)
  <1> DEFINE n == Len(stack)
  <1>1. n \in Nat \ {0} /\ n \in 1..n /\ stack[n].errors \in Seq(Files \cup Written)
    BY TopFrame DEF Top, FrameType
  <1>2. IsInjective(stack[n].errors) /\ ToSet(stack[n].errors) \cap ToSet(e) = {}
    BY <1>1 DEF HeldOnce, Held
  <1>3. /\ IsInjective(stack'[n].errors)
        /\ ToSet(stack'[n].errors) = ToSet(stack[n].errors) \cup ToSet(e)
    BY <1>1, <1>2, ConcatNew, ConcatSet
  <1>4. \A i \in 1..n : i # n => i \in 1..(n - 1)
    BY <1>1
  <1>5. \A i \in 1..n : i # n => stack'[i].errors = stack[i].errors
    BY <1>4
  <1>6. \A i \in 1..n : ToSet(stack[i].errors) \cap ToSet(e) = {}
    BY DEF Held
  <1>7. /\ \A i \in 1..n : IsInjective(stack[i].errors)
        /\ \A i, j \in 1..n :
               i # j => ToSet(stack[i].errors) \cap ToSet(stack[j].errors) = {}
        /\ IsInjective(reported) /\ reported = <<>>
    BY DEF HeldOnce
  <1>8. stack' # <<>>
    BY <1>1
  <1> HIDE DEF n
  <1>9. \A i \in 1..n : IsInjective(stack'[i].errors)
    BY <1>3, <1>5, <1>7
  <1>10. \A i, j \in 1..n :
             i # j => ToSet(stack'[i].errors) \cap ToSet(stack'[j].errors) = {}
    BY <1>3, <1>5, <1>6, <1>7
  <1>11. HeldOnce'
    BY <1>7, <1>9, <1>10 DEF HeldOnce, n
  <1>12. UNION {ToSet(stack'[i].errors) : i \in 1..n}
           = (UNION {ToSet(stack[i].errors) : i \in 1..n}) \cup ToSet(e)
    BY <1>1, <1>3, <1>5
  <1> QED BY <1>11, <1>12 DEF Held, n

(* The frames keep their documents and phases: the same bodies are over.   *)
LEMMA SameBodies ==
    ASSUME Len(stack') = Len(stack),
           \A i \in 1..Len(stack) : /\ stack'[i].file = stack[i].file
                                    /\ stack'[i].phase = stack[i].phase
    PROVE  \A f : BodyOver(f)' <=> BodyOver(f)
  BY DEF BodyOver

LEMMA ReachableKept ==
    ASSUME doc' = doc
    PROVE  Reachable' = Reachable
  BY DEF Reachable, Closed, LinksOf, Targets, Refused, Required, Target
-----------------------------------------------------------------------------
(* What each step does to the problems found.                              *)

LEMMA InitProblems == Init => ProblemInv
  <1> SUFFICES ASSUME Init PROVE ProblemInv
    OBVIOUS
  <1>1. /\ Len(stack) = 1 /\ stack[1] = Frame(Entry) /\ reported = <<>>
        /\ fragments = {Entry} /\ stack[1].errors = <<>>
        /\ stack[1].file = Entry /\ stack[1].phase = "include" /\ Typed
    BY InitIInv DEF Init, IInv, Frame
  <1>2. HeldOnce /\ Held = {}
    BY <1>1, NoErrors DEF HeldOnce, Held
  <1>3. Found = {}
    <2>1. Followed = {}
      <3> SUFFICES ASSUME NEW l \in Written, l.from = Entry
                   PROVE  ~Passed(stack[1], l)
        BY <1>1 DEF Followed
      <3> QED BY <1>1, WrittenLink DEF Passed, Frame
    <2>2. ~BodyOver(Entry)
      BY <1>1 DEF BodyOver
    <2> QED BY <1>1, <2>1, <2>2 DEF Found
  <1>4. fragments \subseteq Reachable
    BY <1>1, EntryAssumption DEF Reachable
  <1> QED BY <1>1, <1>2, <1>3, <1>4 DEF ProblemInv

LEMMA FollowCachedProblems ==
    ASSUME IInv, MarkInv, ProblemInv, FollowCached
    PROVE  ProblemInv'
  <1>1. /\ stack # <<>> /\ stack' = Advance(stack, <<>>) /\ ~Refused(Current)
        /\ UNCHANGED <<doc, fragments, reported>> /\ <<>> \in Seq(Files \cup Written)
    BY DEF FollowCached, Pending
  <1>2. /\ Len(stack') = Len(stack)
        /\ stack'[Len(stack)].errors = stack[Len(stack)].errors \o <<>>
        /\ \A i \in 1..Len(stack) : /\ stack'[i].file = stack[i].file
                                    /\ stack'[i].phase = stack[i].phase
        /\ \A i \in 1..(Len(stack) - 1) : stack'[i] = stack[i]
    BY <1>1, AdvanceKeeps DEF IInv, Typed
  <1>3. HeldOnce' /\ Held' = Held \cup ToSet(<<>>)
    BY <1>1, <1>2, NoErrors, TopGains DEF IInv, ProblemInv
  <1>4. Followed' = Followed \cup {Current}
    BY FollowCachedMarks
  <1>5. \A l : Refused(l)' = Refused(l)
    BY <1>1 DEF Target, Refused, Required
  <1>6. Found' = Found
    BY <1>1, <1>2, <1>4, <1>5, SameBodies DEF Found
  <1> QED BY <1>1, <1>3, <1>6, NoErrors, ReachableKept DEF ProblemInv

LEMMA FollowRefusedProblems ==
    ASSUME IInv, MarkInv, ProblemInv, FollowRefused
    PROVE  ProblemInv'
  <1>1. /\ Current \in Written /\ Current \notin Followed
        /\ Followed' = Followed \cup {Current}
    BY FollowRefusedMarks
  <1>2. /\ stack # <<>> /\ stack' = Advance(stack, <<Current>>) /\ Refused(Current)
        /\ UNCHANGED <<doc, fragments, reported>>
    BY DEF FollowRefused, Pending
  <1>3. /\ <<Current>> \in Seq(Files \cup Written) /\ IsInjective(<<Current>>)
        /\ ToSet(<<Current>>) = {Current}
    BY <1>1, OneError
  <1>4. /\ Len(stack') = Len(stack)
        /\ stack'[Len(stack)].errors = stack[Len(stack)].errors \o <<Current>>
        /\ \A i \in 1..Len(stack) : /\ stack'[i].file = stack[i].file
                                    /\ stack'[i].phase = stack[i].phase
        /\ \A i \in 1..(Len(stack) - 1) : stack'[i] = stack[i]
    BY <1>2, <1>3, AdvanceKeeps DEF IInv, Typed
  (* The link is a new problem: it was not followed, and is no document.   *)
  <1>5. Current \notin Files
    <2>1. Current \in [from : Files, phase : {"include", "uses"}, at : Nat]
      BY <1>1, WrittenLink DEF IInv, Link
    <2> QED BY <2>1, FilesAssumption
  <1>6. Current \notin Held
    <2>1. fragments \subseteq Files
      BY DEF IInv, Cached, ToSet
    <2> QED BY <1>1, <1>5, <2>1 DEF ProblemInv, Found
  <1>7. HeldOnce' /\ Held' = Held \cup {Current}
    BY <1>2, <1>3, <1>4, <1>6, TopGains DEF IInv, ProblemInv
  <1>8. \A l : Refused(l)' = Refused(l)
    BY <1>2 DEF Target, Refused, Required
  <1>9. Found' = Found \cup {Current}
    BY <1>1, <1>2, <1>4, <1>8, SameBodies DEF Found
  <1> QED BY <1>2, <1>7, <1>9, ReachableKept DEF ProblemInv

(* The new document is reached by a link of one that is, and its own       *)
(* mistake is not yet found.                                               *)
LEMMA FollowNewProblems ==
    ASSUME IInv, MarkInv, ProblemInv, FollowNew
    PROVE  ProblemInv'
  <1> DEFINE f == Target(Current)  n == Len(stack)
  <1>1. /\ stack # <<>> /\ f \in Files /\ f \notin fragments /\ ~Refused(Current)
        /\ Current \in Written
        /\ fragments' = fragments \cup {f} /\ stack' = Append(stack, Frame(f))
        /\ UNCHANGED <<doc, reported>>
    BY CurrentLink DEF IInv, FollowNew, Register
  <1>2. n \in Nat \ {0}
    BY <1>1, TopFrame DEF IInv
  <1>3. Frame(f) \in FrameType
    <2>1. <<>> \in Seq(Files \cup Written)
      OBVIOUS
    <2> QED BY <1>1, <2>1 DEF Frame, FrameType
  <1>4. /\ Len(stack') = n + 1 /\ stack'[n + 1] = Frame(f)
        /\ \A i \in 1..n : stack'[i] = stack[i]
    BY <1>1, <1>3, AppendProperties DEF IInv, Typed
  <1>5. Frame(f).file = f /\ Frame(f).phase = "include" /\ Frame(f).errors = <<>>
    BY DEF Frame
  <1>6. /\ \A i \in 1..(n + 1) : i \in 1..n \/ i = n + 1
        /\ \A i \in 1..n : i \in 1..(n + 1) /\ i # n + 1
        /\ n + 1 \in 1..(n + 1)
    BY <1>2
  <1>7. f \in Reachable
    <2>1. Current.from \in Reachable /\ Current \in LinksOf(Current.from)
      <3>1. Current.from \in fragments
        BY <1>1, TopFrame DEF IInv, Current, Link
      <3> QED BY <1>1, <3>1, WrittenLink DEF ProblemInv, IInv
    <2> HIDE DEF f
    <2>2. ASSUME NEW S \in SUBSET Files, Entry \in S, Closed(S)
          PROVE  Target(Current) \in S
      <3>1. Current.from \in S
        BY <2>1, <2>2 DEF Reachable
      <3> QED BY <1>1, <2>1, <2>2, <3>1 DEF Closed
    <2> QED BY <1>1, <2>2 DEF Reachable, f
  <1> HIDE DEF f, n
  <1>8. Followed' = Followed
    BY FollowNewMarks
  <1>9. \A l : Refused(l)' = Refused(l)
    BY <1>1 DEF Target, Refused, Required
  <1>10. \A g : g # f => (BodyOver(g)' <=> BodyOver(g))
    <2> TAKE g
    <2> HAVE g # f
    <2>1. BodyOver(g)' <=> \A i \in 1..(n + 1) : stack'[i].file = g => stack'[i].phase = "uses"
      BY <1>4 DEF BodyOver
    <2>2. BodyOver(g) <=> \A i \in 1..n : stack[i].file = g => stack[i].phase = "uses"
      BY DEF BodyOver, n
    <2> QED BY <1>4, <1>5, <1>6, <2>1, <2>2
  <1>11. \A g : g = f => ~BodyOver(g)'
    BY <1>4, <1>5, <1>6 DEF BodyOver
  <1>12. Found' = Found
    BY <1>1, <1>8, <1>9, <1>10, <1>11 DEF Found
  <1>13. /\ \A i \in 1..n : ToSet(stack'[i].errors) = ToSet(stack[i].errors)
         /\ ToSet(stack'[n + 1].errors) = {}
    BY <1>4, <1>5, NoErrors
  <1>14. Held' = Held
    <2>1. UNION {ToSet(stack'[i].errors) : i \in 1..(n + 1)}
            = UNION {ToSet(stack[i].errors) : i \in 1..n}
      BY <1>6, <1>13
    <2> QED BY <1>1, <1>4, <2>1 DEF Held, n
  <1>15. HeldOnce'
    <2>1. /\ \A i \in 1..n : IsInjective(stack[i].errors)
          /\ \A i, j \in 1..n :
                 i # j => ToSet(stack[i].errors) \cap ToSet(stack[j].errors) = {}
          /\ IsInjective(reported) /\ reported = <<>>
      BY <1>1 DEF ProblemInv, HeldOnce, n
    <2>2. \A i \in 1..(n + 1) : IsInjective(stack'[i].errors)
      BY <1>4, <1>5, <1>6, <2>1, NoErrors
    <2>3. \A i, j \in 1..(n + 1) :
              i # j => ToSet(stack'[i].errors) \cap ToSet(stack'[j].errors) = {}
      BY <1>6, <1>13, <2>1
    <2> QED BY <1>1, <1>4, <2>1, <2>2, <2>3 DEF HeldOnce
  <1> QED BY <1>1, <1>7, <1>12, <1>14, <1>15, ReachableKept DEF ProblemInv

(* The end of a body finds the document's own mistake, once.               *)
LEMMA EndBodyProblems ==
    ASSUME IInv, MarkInv, ProblemInv, EndBody
    PROVE  ProblemInv'
  <1> DEFINE n == Len(stack)
             f == Top.file
             own == IF doc[f].state = "ok" THEN <<>> ELSE <<f>>
             moved == [Top EXCEPT !.phase = "uses", !.at = 1, !.errors = Top.errors \o own]
  <1>1. /\ stack # <<>> /\ n \in Nat \ {0} /\ n \in 1..n /\ Top \in FrameType
        /\ Top = stack[n] /\ f \in Files /\ f \in fragments /\ Top.phase = "include"
        /\ stack' = [stack EXCEPT ![n] = moved]
        /\ UNCHANGED <<doc, fragments, reported>>
    BY TopFrame DEF IInv, EndBody, Top
  <1>2. /\ own \in Seq(Files \cup Written) /\ IsInjective(own)
        /\ ToSet(own) = IF doc[f].state = "ok" THEN {} ELSE {f}
    <2>1. /\ <<f>> \in Seq(Files \cup Written) /\ IsInjective(<<f>>) /\ ToSet(<<f>>) = {f}
      BY <1>1, OneError
    <2>2. <<>> \in Seq(Files \cup Written)
      OBVIOUS
    <2> QED BY <2>1, <2>2, NoErrors
  <1> HIDE DEF own
  <1>3. Top.errors \o own \in Seq(Files \cup Written)
    BY <1>1, <1>2, ConcatProperties DEF FrameType
  <1>4. /\ moved \in FrameType /\ moved.file = f /\ moved.phase = "uses"
        /\ moved.errors = stack[n].errors \o own
    <2>1. moved \in FrameType /\ moved.file = f
      BY <1>1, <1>3, UsesFrame
    <2>2. moved.phase = "uses" /\ moved.errors = stack[n].errors \o own
      BY <1>1 DEF FrameType
    <2> QED BY <2>1, <2>2
  <1> HIDE DEF moved
  <1>5. /\ Len(stack') = n /\ stack'[n] = moved
        /\ \A i \in 1..n : i # n => stack'[i] = stack[i]
    BY <1>1, <1>4, ExceptSeq DEF IInv, Typed
  <1>6. \A i \in 1..(n - 1) : i \in 1..n /\ i # n
    BY <1>1
  <1>7. \A i \in 1..n : stack[i].file = f <=> i = n
    BY <1>1 DEF MarkInv, Apart
  <1> HIDE DEF f, n
  <1>8. f \notin Held
    <2>1. f \notin Followed
      <3>1. f \notin Written
        <4> SUFFICES ASSUME NEW l \in Written, l \in Files PROVE FALSE
          BY <1>1
        <4>1. l \in [from : Files, phase : {"include", "uses"}, at : Nat]
          BY WrittenLink DEF IInv, Link
        <4> QED BY <4>1, FilesAssumption
      <3> QED BY <3>1 DEF Followed
    <2>2. ~BodyOver(f)
      BY <1>1, <1>7 DEF BodyOver, n
    <2> QED BY <2>1, <2>2 DEF ProblemInv, Found
  <1>9. HeldOnce' /\ Held' = Held \cup ToSet(own)
    <2>1. ToSet(own) \cap Held = {}
      BY <1>2, <1>8
    <2>2. stack'[Len(stack)].errors = stack[Len(stack)].errors \o own
      BY <1>4, <1>5 DEF n
    <2>3. \A i \in 1..(Len(stack) - 1) : stack'[i].errors = stack[i].errors
      BY <1>5, <1>6 DEF n
    <2>4. Len(stack') = Len(stack)
      BY <1>5 DEF n
    <2> QED BY <1>1, <1>2, <2>1, <2>2, <2>3, <2>4, TopGains DEF IInv, ProblemInv
  <1>10. \A g : BodyOver(g)' <=> BodyOver(g) \/ g = f
    <2> TAKE g
    <2>1. BodyOver(g)' <=> \A i \in 1..n : stack'[i].file = g => stack'[i].phase = "uses"
      BY <1>5 DEF BodyOver
    <2>2. BodyOver(g) <=> \A i \in 1..n : stack[i].file = g => stack[i].phase = "uses"
      BY DEF BodyOver, n
    <2>3. \A i \in 1..n : stack'[i].file = stack[i].file
      BY <1>4, <1>5, <1>7
    <2> QED BY <1>4, <1>5, <1>7, <2>1, <2>2, <2>3
  <1>11. Followed' = Followed /\ \A l : Refused(l)' = Refused(l)
    BY <1>1, EndBodyMarks DEF Target, Refused, Required
  <1>12. Found' = Found \cup ToSet(own)
    BY <1>1, <1>2, <1>10, <1>11 DEF Found
  <1> QED BY <1>1, <1>9, <1>12, ReachableKept DEF ProblemInv

(* What a decode has found goes to the document it was opened for, or into *)
(* the report.                                                             *)
LEMMA ReturnProblems ==
    ASSUME IInv, MarkInv, ProblemInv, Return
    PROVE  ProblemInv'
  <1> DEFINE n == Len(stack)
             errors == Top.errors
             outer == Front(stack)
  <1>1. /\ stack # <<>> /\ n \in Nat \ {0} /\ n \in 1..n /\ Top = stack[n]
        /\ Top.phase = "uses" /\ errors \in Seq(Files \cup Written)
        /\ UNCHANGED <<doc, fragments>>
    BY TopFrame DEF IInv, Return, Top, FrameType
  <1>2. /\ outer \in Seq(FrameType) /\ Len(outer) = n - 1
        /\ \A i \in 1..(n - 1) : outer[i] = stack[i] /\ stack[i] \in FrameType
    BY <1>1, FrontFrames DEF IInv
  <1>3. /\ Followed \subseteq Followed' /\ \A l \in Followed' \ Followed : ~Refused(l)
        /\ \A l : Refused(l)' = Refused(l)
    BY <1>1, ReturnMarks DEF Target, Refused, Required
  <1>4. /\ \A i \in 1..n : IsInjective(stack[i].errors)
        /\ \A i, j \in 1..n :
               i # j => ToSet(stack[i].errors) \cap ToSet(stack[j].errors) = {}
        /\ IsInjective(reported) /\ reported = <<>> /\ ToSet(reported) = {}
    BY <1>1, NoErrors DEF ProblemInv, HeldOnce
  <1> HIDE DEF outer
  <1>5. CASE outer = <<>>
    <2>1. stack' = <<>> /\ reported' = errors
      BY <1>5 DEF Return, outer
    <2>2. n = 1
      BY <1>1, <1>2, <1>5, EmptySeq
    <2>3. HeldOnce'
      BY <1>1, <1>4, <2>1 DEF HeldOnce
    <2>4. Held' = ToSet(errors)
      BY <2>1 DEF Held
    <2>5. Held = ToSet(errors)
      BY <1>1, <1>4, <2>2 DEF Held
    <2>6. \A g : BodyOver(g)' <=> BodyOver(g)
      BY <1>1, <2>1, <2>2 DEF BodyOver
    <2>7. Found' = Found
      BY <1>1, <1>3, <2>6 DEF Found
    <2> QED BY <1>1, <2>3, <2>4, <2>5, <2>7, ReachableKept DEF ProblemInv
  <1>6. CASE outer # <<>>
    <2> DEFINE m == Len(outer)
    <2>1. stack' = Advance(outer, errors) /\ reported' = reported
      BY <1>6 DEF Return, outer
    <2>2. /\ m = n - 1 /\ m \in Nat \ {0} /\ m \in 1..m
          /\ \A i \in 1..n : i = n \/ i \in 1..m
          /\ \A i \in 1..m : i \in 1..n /\ i # n
          /\ \A i \in 1..m : i = m \/ i \in 1..(m - 1)
          /\ \A i \in 1..(m - 1) : i \in 1..m /\ i # m
      BY <1>1, <1>2, <1>6, EmptySeq
    <2>3. /\ Len(stack') = m /\ stack'[m].errors = outer[m].errors \o errors
          /\ \A i \in 1..m : stack'[i].file = outer[i].file /\ stack'[i].phase = outer[i].phase
          /\ \A i \in 1..(m - 1) : stack'[i] = outer[i]
      BY <1>1, <1>2, <1>6, <2>1, AdvanceKeeps DEF IInv
    <2>4. /\ stack'[m].errors = stack[m].errors \o stack[n].errors
          /\ \A i \in 1..m : stack'[i].file = stack[i].file /\ stack'[i].phase = stack[i].phase
          /\ \A i \in 1..m : i # m => stack'[i].errors = stack[i].errors
      BY <1>1, <1>2, <2>2, <2>3
    <2>5. /\ stack[m].errors \in Seq(Files \cup Written)
          /\ stack[n].errors \in Seq(Files \cup Written)
      BY <1>1, <1>2, <2>2 DEF FrameType
    <2> HIDE DEF n, m
    <2>6. /\ IsInjective(stack'[m].errors)
          /\ ToSet(stack'[m].errors) = ToSet(stack[m].errors) \cup ToSet(stack[n].errors)
      <3>1. ToSet(stack[m].errors) \cap ToSet(stack[n].errors) = {}
        BY <1>1, <1>4, <2>2
      <3>2. IsInjective(stack[m].errors) /\ IsInjective(stack[n].errors)
        BY <1>1, <1>4, <2>2
      <3> QED BY <2>4, <2>5, <3>1, <3>2, ConcatNew, ConcatSet
    <2>7. \A i \in 1..m : IsInjective(stack'[i].errors)
      BY <1>4, <2>2, <2>4, <2>6
    <2>8. \A i, j \in 1..m :
              i # j => ToSet(stack'[i].errors) \cap ToSet(stack'[j].errors) = {}
      <3>1. ASSUME NEW i \in 1..m, i # m
            PROVE  /\ ToSet(stack'[i].errors) = ToSet(stack[i].errors)
                   /\ ToSet(stack'[i].errors) \cap ToSet(stack'[m].errors) = {}
        <4>1. ToSet(stack'[i].errors) = ToSet(stack[i].errors)
          BY <2>4, <3>1
        <4>2. /\ ToSet(stack[i].errors) \cap ToSet(stack[m].errors) = {}
              /\ ToSet(stack[i].errors) \cap ToSet(stack[n].errors) = {}
          BY <1>1, <1>4, <2>2, <3>1
        <4> QED BY <2>6, <4>1, <4>2
      <3>2. ASSUME NEW i \in 1..m, NEW j \in 1..m, i # j, i # m, j # m
            PROVE  ToSet(stack'[i].errors) \cap ToSet(stack'[j].errors) = {}
        <4>1. ToSet(stack[i].errors) \cap ToSet(stack[j].errors) = {}
          BY <1>4, <2>2, <3>2
        <4> QED BY <3>1, <3>2, <4>1
      <3> QED BY <3>1, <3>2
    <2>9. HeldOnce'
      BY <1>4, <2>1, <2>3, <2>7, <2>8 DEF HeldOnce
    <2>10. UNION {ToSet(stack'[i].errors) : i \in 1..m}
             = UNION {ToSet(stack[i].errors) : i \in 1..n}
      <3>1. \A i \in 1..m : i # m => ToSet(stack'[i].errors) = ToSet(stack[i].errors)
        BY <2>4
      <3>2. /\ \A i \in 1..m : i \in 1..n
            /\ \A i \in 1..n : i = n \/ i \in 1..m
            /\ m \in 1..m /\ n \in 1..n
        BY <1>1, <2>2
      <3> QED BY <2>6, <3>1, <3>2
    <2>11. Held' = Held
      BY <2>1, <2>3, <2>10 DEF Held, n
    <2>12. \A g : BodyOver(g)' <=> BodyOver(g)
      <3> TAKE g
      <3>1. BodyOver(g)' <=> \A i \in 1..m : stack'[i].file = g => stack'[i].phase = "uses"
        BY <2>3 DEF BodyOver
      <3>2. BodyOver(g) <=> \A i \in 1..n : stack[i].file = g => stack[i].phase = "uses"
        BY DEF BodyOver, n
      <3> QED BY <1>1, <2>2, <2>4, <3>1, <3>2
    <2>13. Found' = Found
      BY <1>1, <1>3, <2>12 DEF Found
    <2> QED BY <1>1, <2>9, <2>11, <2>13, ReachableKept DEF ProblemInv
  <1> QED BY <1>5, <1>6
-----------------------------------------------------------------------------
(* The theorems about the problems.                                        *)

(* What the decodes in progress and the report hold is what has been found *)
(* so far, each once, in every reachable state.                            *)
THEOREM ProblemsInductive == Spec => []ProblemInv
  <1>1. Init => ProblemInv
    BY InitProblems
  <1>2. IInv /\ MarkInv /\ ProblemInv /\ [Next]_vars => ProblemInv'
    <2> SUFFICES ASSUME IInv, MarkInv, ProblemInv, [Next]_vars PROVE ProblemInv'
      OBVIOUS
    <2>1. CASE UNCHANGED vars
      <3>1. UNCHANGED <<doc, fragments, stack, reported>>
        BY <2>1 DEF vars
      <3>2. HeldOnce' /\ Held' = Held
        BY <3>1 DEF ProblemInv, HeldOnce, Held
      <3>3. Found' = Found
        <4>1. Written' = Written /\ \A l : Refused(l)' = Refused(l)
          BY <3>1 DEF Written, LinksOf, Targets, Target, Refused, Required
        <4>2. Followed' = Followed
          BY <3>1, <4>1 DEF Followed
        <4>3. \A g : BodyOver(g)' <=> BodyOver(g)
          BY <3>1 DEF BodyOver
        <4> QED BY <3>1, <4>1, <4>2, <4>3 DEF Found
      <3> QED BY <3>1, <3>2, <3>3, ReachableKept DEF ProblemInv
    <2> QED BY <2>1, FollowCachedProblems, FollowRefusedProblems, FollowNewProblems,
               EndBodyProblems, ReturnProblems DEF Next, Over
  <1> QED BY <1>1, <1>2, CacheInductive, MarksInductive, PTL DEF Spec

(* The parse reports every mistake of what it reaches, however documents   *)
(* reach one another, and each once (resolve_uses).                        *)
THEOREM EveryProblemReportedOnceHolds == Spec => []EveryProblemReportedOnce
  <1>1. IInv /\ MarkInv /\ ProblemInv => EveryProblemReportedOnce
    <2> SUFFICES ASSUME IInv, MarkInv, ProblemInv, Finished
                 PROVE  IsInjective(reported) /\ ToSet(reported) = Problems
      BY DEF EveryProblemReportedOnce
    <2>1. fragments \subseteq Files
      BY DEF IInv, Cached, ToSet
    (* What has been decoded is closed, so that it is all there is to reach. *)
    <2>2. Closed(fragments)
      BY AllFollowed DEF MarkInv, Right, Known, Closed
    <2>3. fragments = Reachable
      BY <2>1, <2>2 DEF ProblemInv, Reachable
    <2>4. stack = <<>> /\ Held = ToSet(reported)
      BY DEF Finished, Held
    <2>5. ASSUME NEW l
          PROVE  l \in Followed <=> \E f \in fragments : l \in LinksOf(f)
      <3>1. ASSUME l \in Followed PROVE \E f \in fragments : l \in LinksOf(f)
        BY <3>1, WrittenLink DEF Followed, IInv
      <3>2. ASSUME NEW f \in fragments, l \in LinksOf(f) PROVE l \in Followed
        BY <3>2, AllFollowed
      <3> QED BY <3>1, <3>2
    <2>6. \A f : BodyOver(f)
      BY <2>4 DEF BodyOver
    <2>7. Found = Problems
      BY <2>3, <2>5, <2>6 DEF Found, Problems
    <2> QED BY <2>4, <2>7 DEF ProblemInv, HeldOnce
  <1> QED BY <1>1, CacheInductive, MarksInductive, ProblemsInductive, PTL
=============================================================================
