----------------------------- MODULE MCWorkspace -----------------------------
(* An API and the library it uses (or, wrongly, includes), an overlay of   *)
(* the API that folders do not list, and a file outside every folder.      *)
EXTENDS Workspace, TLC

CONSTANTS api, lib, over, out

MCFiles == {api, lib, over, out}
MCInside == {api, lib, over}
MCPath == (api :> 1) @@ (lib :> 2) @@ (out :> 3) @@ (over :> 4)

Text(kind, uses, includes, extends, sound) ==
    [kind |-> kind, uses |-> uses, includes |-> includes, extends |-> extends,
     sound |-> sound, clean |-> TRUE]
Uses == Text("api", {lib}, {}, {}, TRUE)
Includes == Text("api", {}, {lib}, {}, TRUE)
Library == Text("library", {}, {}, {}, TRUE)
Plain == Text("data", {}, {}, {}, TRUE)
Overlay == Text("overlay", {}, {}, {api}, TRUE)

MCWritten ==
    (api :> {Uses}) @@ (lib :> {Library, Plain}) @@ (over :> {Overlay}) @@ (out :> {})
MCTyped ==
    (api :> {Includes, Plain}) @@ (lib :> {Library, Plain}) @@ (over :> {Overlay})
        @@ (out :> {})
=============================================================================
