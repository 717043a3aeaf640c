------------------------------ MODULE Delivery ------------------------------
(***************************************************************************)
(* What the notification outbox promises about one mail or many: a queued  *)
(* mail is handed to the mail server at least once before it counts as     *)
(* sent, never afterwards, and it is dropped only when its tries are used  *)
(* up.  Outbox.tla implements this with rows, leases and workers that      *)
(* crash.                                                                  *)
(***************************************************************************)
EXTENDS Naturals

CONSTANTS Mails, MaxRetry

VARIABLES
    state,   \* "new", "queued", "sent" or "dropped"
    tries,   \* how often somebody set out to send the mail
    copies   \* how often the server took it

deliveryVars == <<state, tries, copies>>

DeliveryInit ==
    /\ state = [m \in Mails |-> "new"]
    /\ tries = [m \in Mails |-> 0]
    /\ copies = [m \in Mails |-> 0]

Become(m, s) == state' = [state EXCEPT ![m] = s] /\ UNCHANGED <<tries, copies>>

Queue(m) == state[m] = "new" /\ Become(m, "queued")

Try(m) ==
    /\ state[m] = "queued"
    /\ tries' = [tries EXCEPT ![m] = @ + 1]
    /\ UNCHANGED <<state, copies>>

HandOver(m) ==
    /\ state[m] = "queued" /\ copies[m] < tries[m]
    /\ copies' = [copies EXCEPT ![m] = @ + 1]
    /\ UNCHANGED <<state, tries>>

Finish(m) == state[m] = "queued" /\ copies[m] > 0 /\ Become(m, "sent")

Drop(m) == state[m] = "queued" /\ tries[m] >= MaxRetry /\ Become(m, "dropped")

DeliveryNext ==
    \E m \in Mails : Queue(m) \/ Try(m) \/ HandOver(m) \/ Finish(m) \/ Drop(m)

DeliverySpec == DeliveryInit /\ [][DeliveryNext]_deliveryVars
=============================================================================
