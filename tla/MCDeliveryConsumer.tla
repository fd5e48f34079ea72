------------------------- MODULE MCDeliveryConsumer -------------------------
(***************************************************************************)
(* Small instances of DeliveryConsumer for TLC.                            *)
(***************************************************************************)
EXTENDS DeliveryConsumer, TLC

CONSTANTS m1, m2

\* A good job beside one of each kind.
Kinds2 ==
    {(m1 :> "good") @@ (m2 :> k) : k \in Kind}
=============================================================================
