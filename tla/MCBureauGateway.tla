--------------------------- MODULE MCBureauGateway ---------------------------
(***************************************************************************)
(* Small instances of the gateway for TLC.                                 *)
(***************************************************************************)
EXTENDS BureauGateway, TLC

\* Requests are interchangeable: nothing in the gateway tells them apart.
Interchangeable == Permutations(Requests)
=============================================================================
