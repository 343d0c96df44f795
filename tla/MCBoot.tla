------------------------------- MODULE MCBoot -------------------------------
(***************************************************************************)
(* A small instance of Boot for TLC: a release, a branch whose migrations  *)
(* are a part of it, and an image in which an applied file was edited.     *)
(***************************************************************************)
EXTENDS Boot, TLC

CONSTANTS Release, Branch, Edited \* the instances of each image

ImageOf ==
    [i \in Instances |->
        CASE i \in Release -> 1 :> "a" @@ 2 :> "b" @@ 3 :> "c"
          [] i \in Branch  -> 1 :> "a" @@ 3 :> "c"
          [] i \in Edited  -> 1 :> "a" @@ 2 :> "x"]
=============================================================================
