------------------------------ MODULE Delivery ------------------------------
(***************************************************************************)
(* What becomes of a log entry, seen from outside the pipeline: it is      *)
(* admitted, it waits, it is handed to the transport once, and it ends     *)
(* delivered, failed or dropped, for good.  LogService is shown to         *)
(* implement this.                                                         *)
(***************************************************************************)
EXTENDS Naturals

CONSTANT Entries   \* entries by number, in the order of their admission

VARIABLE fate      \* Entries -> one of the words below

Final == {"delivered", "failed", "dropped"}
Sent  == {"sending", "delivered", "failed"}
Fates == Final \union {"absent", "waiting", "sending"}

(* Only an entry that is not with the transport can be dropped, and only   *)
(* one that was with the transport can be delivered or failed.             *)
Becomes(old, new) ==
  \/ new = old
  \/ old = "absent"  /\ new \in {"waiting", "dropped"}
  \/ old = "waiting" /\ new \in {"sending", "dropped"}
  \/ old = "sending" /\ new \in {"delivered", "failed"}

DeliveryInit == fate = [i \in Entries |-> "absent"]

(* A step moves any number of entries; those it hands to the transport are *)
(* younger than all that were handed over before.                          *)
DeliveryNext ==
  /\ \A i \in Entries : Becomes(fate[i], fate'[i])
  /\ \A i, j \in Entries :
       fate[i] \notin Sent /\ fate'[i] \in Sent /\ fate[j] \in Sent => j < i

DeliverySpec == DeliveryInit /\ [][DeliveryNext]_fate
=============================================================================
