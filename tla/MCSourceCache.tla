--------------------------- MODULE MCSourceCache ---------------------------
(* A library, and an API that uses it; one text needs more depth than the  *)
(* other.                                                                  *)
EXTENDS SourceCache, TLC

CONSTANTS api, lib, flat, deep

MCReads == (api :> {api, lib})
MCWritten == (api :> {flat}) @@ (lib :> {flat, deep})
MCFits == {<<flat, 1>>, <<flat, 2>>, <<deep, 2>>}
=============================================================================
