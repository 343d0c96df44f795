----------------------------- MODULE OneEnquiry -----------------------------
(***************************************************************************)
(* What the service promises the person whose credit file it reads: an     *)
(* enquiry starts only while none is under way and no report about them is *)
(* still valid.  Nothing here says how; BureauGateway does.                *)
(***************************************************************************)
CONSTANT Requests

VARIABLES
    underWay, \* the requests whose enquiry is under way
    placed,   \* the requests that ever placed one
    usable    \* the requests whose stored report is still valid

vars == <<underWay, placed, usable>>

Init ==
    /\ underWay = {}
    /\ placed = {}
    /\ usable = {}

\* An enquiry starts: nobody else is asking, and nothing valid is on file.
Begin(r) ==
    /\ underWay = {}
    /\ usable = {}
    /\ r \notin placed
    /\ underWay' = {r}
    /\ placed' = placed \cup {r}
    /\ UNCHANGED usable

\* It ends, with a report that is valid for a while or with nothing.
End(r) ==
    /\ underWay = {r}
    /\ underWay' = {}
    /\ usable' \in {usable, usable \cup {r}}
    /\ UNCHANGED placed

\* Reports stop being valid as time passes.
Expire ==
    /\ usable' \subseteq usable
    /\ UNCHANGED <<underWay, placed>>

Next == Expire \/ \E r \in Requests : Begin(r) \/ End(r)

Spec == Init /\ [][Next]_vars
=============================================================================
