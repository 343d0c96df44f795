----------------------------- MODULE LogicalPull -----------------------------
(***************************************************************************)
(* What one logical pull promises its caller and the person it is about:   *)
(* it asks, the bureau marks the file once at most, and one ending is told *)
(* and never taken back.  The mark may come late, even after the ending.   *)
(***************************************************************************)
CONSTANTS
    Endings,  \* what may be told
    Enquiries \* request ids: a bureau takes a repeated one for the same enquiry

VARIABLES
    asked, \* whether the bureau was called at all
    marks, \* the enquiries on the file
    told   \* the ending, or "none"

vars == <<asked, marks, told>>

Init ==
    /\ asked = FALSE
    /\ marks = {}
    /\ told = "none"

Ask ==
    /\ ~asked
    /\ asked' = TRUE
    /\ UNCHANGED <<marks, told>>

Mark ==
    /\ asked /\ marks = {}
    /\ \E e \in Enquiries : marks' = {e}
    /\ UNCHANGED <<asked, told>>

\* A report, or the statement that there is no file, comes from a marked file;
\* a failure may be told of a pull that left a mark or of one that did not.
Tell ==
    /\ asked /\ told = "none"
    /\ told' \in Endings
    /\ told' \in {"FOUND", "NO_HIT"} => marks # {}
    /\ UNCHANGED <<asked, marks>>

Next == Ask \/ Mark \/ Tell

Spec == Init /\ [][Next]_vars
=============================================================================
