------------------------- MODULE MCSubmitProducer -------------------------
(***************************************************************************)
(* Small instances of SubmitProducer for TLC.                              *)
(***************************************************************************)
EXTENDS SubmitProducer, TLC

CONSTANTS d1, d2, r1, r2, r3, o1, o2, p1, p2

\* Inbound: two nexthop domains, the first with two recipients.
TwoDomains == (d1 :> {r1, r2}) @@ (d2 :> {r3})

\* Outbound: the content filter passes all recipients to one process.
OneDelivery == d1 :> {r1, r2, r3}

\* One envelope recipient: the jilter's context file is deleted at the end.
SingleRecipient == d1 :> {r1}

OwnersAlias == (r1 :> o1) @@ (r2 :> o1) @@ (r3 :> o2)
OwnerSingle == r1 :> o1

Context(events, withPolicy) == [events |-> events, policy |-> withPolicy]
NoFile == Context({}, {})

\* The jilter wrote accepted events for every recipient or for some; the
\* recipient with a policy has one.
InboundContexts == {Context(Recipient, {r1}), Context({r1, r3}, {r1})}

\* No file, or an accepted event for the sender.
OutboundContexts == {NoFile, Context({Sender}, {r1})}

\* The file is missing, whole, or has a policy and no accepted event.
SingleContexts == {NoFile, Context({r1}, {r1}), Context({}, {r1})}

NoFileOnly == {NoFile}

NoneOrR1 == {{}, {r1}}
NoneOrR2 == {{}, {r2}}
=============================================================================
