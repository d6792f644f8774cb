-------------------------- MODULE MCOutboxDelivery --------------------------
(* Small instances of OutboxDelivery. *)
EXTENDS OutboxDelivery, TLC

CONSTANTS t1, q1

SingleRequires == (t1 :> {})
SingleTicketOf == (q1 :> t1)

Interchangeable == Permutations(Worker) \cup Permutations(Slot)

=============================================================================
