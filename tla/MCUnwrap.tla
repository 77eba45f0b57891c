------------------------------ MODULE MCUnwrap ------------------------------
(* Two declarations and up to three shapes written in place, each in a     *)
(* declaration or in an earlier one of the three, with every way for them  *)
(* to name the declarations that resolution accepts and at most one merge  *)
(* rejected; and three declarations that name one another in every way     *)
(* resolution accepts, in every order, with up to two properties.          *)
EXTENDS Unwrap

CONSTANTS A, B, C, p, q, r, none

MCDeclared == <<A, B, C>>
MCAnonymous == <<p, q, r>>
MCShapes == {A, B, C, p, q, r}

(* What a shape names: nothing, a declaration as its alias or as parent.   *)
Links(targets) ==
    {[alias |-> none, inherits |-> <<>>]}
        \cup {[alias |-> d, inherits |-> <<>>] : d \in targets}
        \cup {[alias |-> none, inherits |-> <<d>>] : d \in targets}
Plain == [alias |-> none, inherits |-> <<>>]

(* The links of two declarations, and of three: naming one another in a    *)
(* cycle is what resolution rejects.                                       *)
DeclaredLinks ==
    {l \in [{A, B} -> Links({A, B})] :
        /\ \A d \in {A, B} : l[d].alias # d /\ l[d].inherits # <<d>>
        /\ l[A] = Plain \/ l[B] = Plain}
Naming(l) == {<<d, e>> \in {A, B, C} \X {A, B, C} : e = l[d].alias \/ l[d].inherits = <<e>>}
ThreeLinks ==
    {l \in [{A, B, C} -> Links({A, B, C})] :
        \E before \in SetToSeqs({A, B, C}) :
            \A d, e \in {A, B, C} : <<d, e>> \in Naming(l) =>
                \E i, j \in 1..3 : i < j /\ before[i] = e /\ before[j] = d}

(* Where each shape written in place is; none is a shape that is not used. *)
Owners ==
    {w \in [{p, q, r} -> {A, B, p, q, none}] :
        /\ w[p] \in {A, none} \cup {B} /\ w[q] \in {A, B, p, none}
        /\ w[p] = none => w[q] = none
        /\ w[q] = none => w[r] = none
        /\ w[p] = B => w[q] # A /\ w[r] # A}
HeldBy(w, o) == SelectSeq(MCAnonymous, LAMBDA s : w[s] = o)

AllLinks ==
    {(C :> Plain) @@ d @@ a : d \in DeclaredLinks, a \in [{p, q, r} -> Links({A, B})]}
        \cup {[s \in {p, q, r} |-> Plain] @@ l : l \in ThreeLinks}
AllOwners == Owners \cup {(r :> none) @@ w : w \in [{p, q} -> {A, B, C, none}]}

(* An alias holds nothing of its own, and a shape not used names nothing.  *)
Placed ==
    {o \in AllLinks \X AllOwners :
        /\ \A s \in MCShapes : o[1][s].alias # none => HeldBy(o[2], s) = <<>>
        /\ \A s \in {p, q, r} : o[2][s] = none => o[1][s] = Plain}

Model(o, x) ==
    [alias |-> [s \in MCShapes |-> o[1][s].alias],
     inherits |-> [s \in MCShapes |-> o[1][s].inherits],
     properties |-> [s \in MCShapes |-> HeldBy(o[2], s)],
     rejected |-> x]
UsesThree(m) ==
    \/ m.alias[C] # none \/ m.inherits[C] # <<>> \/ m.properties[C] # <<>>
    \/ \E s \in MCShapes : C = m.alias[s] \/ <<C>> = m.inherits[s]
MCModels ==
    {m \in {Model(o, x) : o \in Placed, x \in {{}} \cup {{s} : s \in MCShapes \ {C}}} :
        /\ \A s \in m.rejected : s \in {A, B} \/ \E o \in MCShapes : s \in ToSet(m.properties[o])
        /\ UsesThree(m) => m.rejected = {}}
=============================================================================
