--------------------------- MODULE BilledDelivery ---------------------------
(***************************************************************************)
(* What a billed conversion promises its customer, without saying how: a   *)
(* usage is held while the conversion runs, it is counted before the       *)
(* result becomes visible, and a usage that is given back is not paid for  *)
(* by a visible result.  README.md, "finalizing" paragraph of the source   *)
(* repository; implemented by ConversionJob.                               *)
(***************************************************************************)

VARIABLES
    visible,    \* TRUE once the result may be downloaded
    usage       \* the customer's usage: "none", "held", "counted", "returned"

vars == <<visible, usage>>

Init ==
    /\ visible = FALSE
    /\ usage = "none"

(* The quota service reserves a usage for the request.  A request that was *)
(* given its usage back may be authorised again.                           *)
Hold ==
    /\ ~visible
    /\ usage \in {"none", "returned"}
    /\ usage' = "held"
    /\ UNCHANGED visible

(* The usage is counted against the customer. *)
Count ==
    /\ ~visible
    /\ usage = "held"
    /\ usage' = "counted"
    /\ UNCHANGED visible

(* The usage goes back to the customer, who never sees the result. *)
GiveBack ==
    /\ ~visible
    /\ usage \in {"held", "counted"}
    /\ usage' = "returned"
    /\ UNCHANGED visible

(* The result becomes visible: only once, and only when it is paid for. *)
Deliver ==
    /\ ~visible
    /\ usage = "counted"
    /\ visible' = TRUE
    /\ UNCHANGED usage

Next == Hold \/ Count \/ GiveBack \/ Deliver

Spec == Init /\ [][Next]_vars

=============================================================================
