-------------------------- MODULE MCSubscriptionScan --------------------------
(* Instances of SubscriptionScan for TLC.                                   *)
EXTENDS SubscriptionScan

(* A channel that may come to list everything.                              *)
Whole == [s \in Subs |-> Videos]

AllOne == [s \in Subs |-> 1]
=============================================================================
