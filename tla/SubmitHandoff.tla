--------------------------- MODULE SubmitHandoff ---------------------------
(***************************************************************************)
(* What the submit host promises about one queue file, with no producer    *)
(* process in sight.  Postfix holds a set of deliveries; a recipient is    *)
(* "handed" when a job in the processing queue leads to documents that     *)
(* name it.  While a delivery is held the hand-over may be reworked        *)
(* freely, which is what a retry does; a delivery is released as sent only *)
(* when every recipient the jilter did not reject is served: handed, or    *)
(* handed under another address of the same user where mail is split by    *)
(* user.  From then on what is handed of it no longer moves.               *)
(***************************************************************************)
CONSTANTS
    Delivery,
    rcptsOf,
    standIns    \* standIns[d][r]: the recipients of d that may stand for r

VARIABLES
    status,     \* status[d]: what Postfix did with delivery d
    rejected,   \* the recipients the jilter rejected, fixed for the queue file
    handed      \* the recipients that are handed over

vars == <<status, rejected, handed>>

Recipients == UNION {rcptsOf[d] : d \in Delivery}

Required(d) == rcptsOf[d] \ rejected

Served(d, r) == standIns[d][r] \cap handed # {}

Init ==
    /\ status = [d \in Delivery |-> "queued"]
    /\ rejected \subseteq Recipients
    /\ handed = {}

\* One step of an attempt on d: it may add to what is handed of d, or, when a
\* retry groups the recipients differently, take a recipient back for a while.
Rework(d) ==
    /\ status[d] = "queued"
    /\ handed' \subseteq Recipients
    /\ handed' \ rcptsOf[d] = handed \ rcptsOf[d]
    /\ UNCHANGED <<status, rejected>>

\* The producer exited 0: Postfix drops d from its queue.
Release(d) ==
    /\ status[d] = "queued"
    /\ \A r \in Required(d) : Served(d, r)
    /\ status' = [status EXCEPT ![d] = "sent"]
    /\ UNCHANGED <<rejected, handed>>

\* Postfix returns d to its sender instead.
GiveBack(d) ==
    /\ status[d] = "queued"
    /\ \E s \in {"bounced", "expired"} : status' = [status EXCEPT ![d] = s]
    /\ UNCHANGED <<rejected, handed>>

Next == \E d \in Delivery : Rework(d) \/ Release(d) \/ GiveBack(d)

Spec == Init /\ [][Next]_vars
=============================================================================
