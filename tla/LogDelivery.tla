---------------------------- MODULE LogDelivery -----------------------------
(***************************************************************************)
(* What the upload of intercept logs promises: a log that has been queued  *)
(* on the device stays there until the server has stored it at least once. *)
(***************************************************************************)
EXTENDS Naturals

CONSTANT Calls

VARIABLES
    waiting,    \* set of calls queued on the device
    stored      \* call -> number of rows the server has for it

deliveryVars == <<waiting, stored>>

Queue == /\ waiting \subseteq waiting'
         /\ stored' = stored

\* The server stores calls that wait, one more row for each.
Store == /\ waiting' = waiting
         /\ \E s \in SUBSET waiting :
              stored' = [c \in Calls |-> IF c \in s THEN stored[c] + 1 ELSE stored[c]]

\* The device forgets only what the server has.
Forget == /\ waiting' \subseteq waiting
          /\ \A c \in waiting \ waiting' : stored[c] > 0
          /\ stored' = stored

Init == waiting = {} /\ stored = [c \in Calls |-> 0]

Next == Queue \/ Store \/ Forget

Spec == Init /\ [][Next]_deliveryVars
=============================================================================
