--------------------------- MODULE LatestDocument ---------------------------
(***************************************************************************)
(* What the projection service promises an account: it has one document at *)
(* most, and only the upload that was initiated last may become that       *)
(* document.  An earlier upload that finishes late never comes back.       *)
(* Implemented by ProjectionLedger.                                        *)
(***************************************************************************)

CONSTANTS Accounts, Uploads

VARIABLES
    latest,   \* the upload of an account that was initiated last, or {}
    current   \* the document of an account, or {}

vars == <<latest, current>>

Init ==
    /\ latest = [a \in Accounts |-> {}]
    /\ current = [a \in Accounts |-> {}]

Initiate(a, u) ==
    /\ latest' = [latest EXCEPT ![a] = {u}]
    /\ u \notin latest[a]
    /\ UNCHANGED current

Publish(a) ==
    /\ latest[a] # {}
    /\ current' = [current EXCEPT ![a] = latest[a]]
    /\ UNCHANGED latest

\* The account closes its document, uploads again, or stays away.
Retire(a) ==
    /\ current' = [current EXCEPT ![a] = {}]
    /\ UNCHANGED latest

Next ==
    \E a \in Accounts :
        \/ \E u \in Uploads : Initiate(a, u)
        \/ Publish(a)
        \/ Retire(a)

Spec == Init /\ [][Next]_vars

=============================================================================
