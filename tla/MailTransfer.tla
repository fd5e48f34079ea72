---------------------------- MODULE MailTransfer ----------------------------
(***************************************************************************)
(* At-least-once transfer of messages from a queue into a mail server, as  *)
(* a delivery host promises it: a message may be injected any number of    *)
(* times, it leaves the queue for good only after it was injected, or      *)
(* because the queue gave up on it.                                        *)
(***************************************************************************)
CONSTANT Msg

VARIABLES
    place,     \* place[m]: "queued", "done" or "dead"
    injected   \* the messages the mail server accepted for some recipient

vars == <<place, injected>>

Init ==
    /\ place = [m \in Msg |-> "queued"]
    /\ injected = {}

\* Also after m left the queue: a second consumer may still be working on it.
Inject(m) ==
    /\ injected' = injected \cup {m}
    /\ UNCHANGED place

Remove(m) ==
    /\ place[m] = "queued" /\ m \in injected
    /\ place' = [place EXCEPT ![m] = "done"]
    /\ UNCHANGED injected

GiveUp(m) ==
    /\ place[m] = "queued"
    /\ place' = [place EXCEPT ![m] = "dead"]
    /\ UNCHANGED injected

Next == \E m \in Msg : Inject(m) \/ Remove(m) \/ GiveUp(m)

Spec == Init /\ [][Next]_vars
=============================================================================
