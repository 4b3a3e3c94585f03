---------------------------- MODULE RuleDelivery ----------------------------
(***************************************************************************)
(* What incremental rule synchronisation promises a device.  A device      *)
(* remembers one number, the version it is up to date with.  What is on    *)
(* offer to it is a set of items, each offered at a version.  The promise  *)
(* is that a device holds every item still on offer at a version it has    *)
(* passed: otherwise it would never ask for that item again.               *)
(***************************************************************************)
EXTENDS Naturals

CONSTANTS Devices, Items

VARIABLES
    offered,    \* device -> set of [item, version]
    have,       \* device -> set of items it holds
    upto        \* device -> version it is up to date with

deliveryVars == <<offered, have, upto>>

Offer == [item : Items, version : Nat \ {0}]

\* Nothing new is offered at a version the device has already passed.
Publish(d) ==
    /\ \A o \in offered'[d] \ offered[d] : o.version > upto[d]
    /\ have'[d] = have[d]
    /\ upto'[d] = upto[d]

\* The device stores items; it never drops one.
Receive(d) ==
    /\ have[d] \subseteq have'[d]
    /\ offered'[d] = offered[d]
    /\ upto'[d] = upto[d]

\* The device moves to a version only with everything offered up to it.
Advance(d) ==
    /\ \A o \in offered[d] : o.version <= upto'[d] => o.item \in have[d]
    /\ offered'[d] = offered[d]
    /\ have'[d] = have[d]

Init ==
    /\ offered = [d \in Devices |-> {}]
    /\ have = [d \in Devices |-> {}]
    /\ upto = [d \in Devices |-> 0]

Next == \A d \in Devices : Publish(d) \/ Receive(d) \/ Advance(d)

Spec == Init /\ [][Next]_deliveryVars

\* The promise.
Delivered ==
    \A d \in Devices : \A o \in offered[d] :
        o.version <= upto[d] => o.item \in have[d]
=============================================================================
