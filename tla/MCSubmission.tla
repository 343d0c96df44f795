---------------------------- MODULE MCSubmission ----------------------------
(***************************************************************************)
(* Small instances of Submission for TLC.                                  *)
(***************************************************************************)
EXTENDS Submission, TLC

CONSTANT OtherBody \* the requests that carry another body under the same key

TwoBodies == [r \in Requests |-> IF r \in OtherBody THEN "other" ELSE "body"]

\* Only the body tells two requests apart.
Interchangeable == Permutations(OtherBody) \cup Permutations(Requests \ OtherBody)
=============================================================================
