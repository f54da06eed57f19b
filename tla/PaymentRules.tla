---------------------------- MODULE PaymentRules ----------------------------
(***************************************************************************)
(* What a session promises about payments, as the status types of the      *)
(* domain layer lay it down: each participant's payment and the session    *)
(* itself move along fixed transitions and stop in terminal states; the    *)
(* host may also force a payment to "paid".  One atomic step per decision, *)
(* with no requests, snapshots or proofs.                                  *)
(***************************************************************************)
CONSTANT People

VARIABLES
  payment,  \* payment status of a participant; "absent" or "removed" without a row
  session   \* session status

vars == <<payment, session>>

PaymentStatus == {"pending", "submitted", "paid", "rejected"}
SessionStatus == {"active", "completed", "cancelled"}

CanTransitionTo(from, to) ==
  \/ from = "pending" /\ to \in {"submitted", "rejected"}
  \/ from = "submitted" /\ to \in {"paid", "rejected"}

SessionCanTransitionTo(from, to) == from = "active" /\ to \in {"completed", "cancelled"}

Init == payment = [p \in People |-> "absent"] /\ session = "active"

Move(p, to) == payment' = [payment EXCEPT ![p] = to] /\ UNCHANGED session

Join(p)  == payment[p] = "absent" /\ Move(p, "pending")
Leave(p) == payment[p] \in PaymentStatus /\ Move(p, "removed")

UpdatePaymentStatus(p) ==
  \E to \in PaymentStatus : CanTransitionTo(payment[p], to) /\ Move(p, to)

MarkPaidManually(p) == payment[p] \in PaymentStatus \ {"paid"} /\ Move(p, "paid")

Complete ==
  /\ SessionCanTransitionTo(session, "completed")
  /\ \A p \in People : payment[p] \notin PaymentStatus \ {"paid"}
  /\ session' = "completed"
  /\ UNCHANGED payment

Cancel ==
  /\ SessionCanTransitionTo(session, "cancelled")
  /\ session' = "cancelled"
  /\ UNCHANGED payment

Next ==
  \/ \E p \in People : Join(p) \/ Leave(p) \/ UpdatePaymentStatus(p) \/ MarkPaidManually(p)
  \/ Complete
  \/ Cancel

Spec == Init /\ [][Next]_vars

=============================================================================
