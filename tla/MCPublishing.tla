---------------------------- MODULE MCPublishing ----------------------------
(* Two APIs.  One may come to use the library the other uses, and stop;    *)
(* the other may stop including a trait, which may also be missing.        *)
EXTENDS Publishing

CONSTANTS a, b, lib, t

MCFiles == {a, b, lib, t}

Text(kind, uses, includes, sound, clean) ==
    [kind |-> kind, uses |-> uses, includes |-> includes, extends |-> {},
     sound |-> sound, clean |-> clean]
Api(uses, includes, sound) == Text("api", uses, includes, sound, TRUE)
Library(sound, clean) == Text("library", {}, {}, sound, clean)
Trait(clean) == Text("trait", {}, {}, TRUE, clean)

MCWritten ==
    (a :> {Api({}, {}, TRUE)}) @@ (b :> {Api({lib}, {t}, TRUE)})
        @@ (lib :> {Library(TRUE, TRUE)})
        @@ (t :> {Trait(TRUE), Trait(FALSE)})
MCTyped ==
    (a :> {Api({lib}, {}, TRUE), Api({}, {}, TRUE)}) @@ (b :> {Api({lib}, {}, FALSE)})
        @@ (lib :> {Library(TRUE, FALSE), Library(FALSE, TRUE)})
        @@ (t :> {})
=============================================================================
