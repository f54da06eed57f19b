---------------------------- MODULE DeliveryRules ----------------------------
(***************************************************************************)
(* What the outbox promises of one notification, without workers, batches, *)
(* locks, attempts or message ids: it waits, is in one pair of hands, and  *)
(* is told to the participant once.  Three things excuse a repetition: the *)
(* gateway's answer was lost, a send looked stuck, or the gateway reported *)
(* that the message failed.                                                *)
(***************************************************************************)
EXTENDS Naturals

CONSTANT Logs

VARIABLES
  phase,    \* where a notification is; "excused" once anything excuses a repetition
  received, \* messages the gateway accepted for it
  excuses   \* what excuses a repetition of it, counted

vars == <<phase, received, excuses>>

Init ==
  /\ phase = [l \in Logs |-> "new"]
  /\ received = [l \in Logs |-> 0]
  /\ excuses = [l \in Logs |-> 0]

In(from) == {l \in Logs : phase[l] \in from}
Move(S, to) == phase' = [l \in Logs |-> IF l \in S THEN to ELSE phase[l]]
Excuse(S) == excuses' = [l \in Logs |-> IF l \in S THEN excuses[l] + 1 ELSE excuses[l]]

\* Queued, or over at once: there is no number to send it to.
Enqueue(l) ==
  /\ l \in In({"new"})
  /\ Move({l}, "waiting") \/ Move({l}, "over")
  /\ UNCHANGED <<received, excuses>>

\* Rows leave the queue in batches.
Claim(S) == S \subseteq In({"waiting"}) /\ Move(S, "inHand") /\ UNCHANGED <<received, excuses>>

\* The gateway accepts the message, and its answer is heard or lost.  What is told
\* or over is not sent, and what is excused at most once per excuse.
Deliver(l) ==
  /\ l \in In({"new", "inHand", "excused"})
  /\ received[l] <= excuses[l]
  /\ received' = [received EXCEPT ![l] = @ + 1]
  /\ \/ Move({l}, IF phase[l] = "excused" THEN "excused" ELSE "told") /\ UNCHANGED excuses
     \/ Move({l}, "excused") /\ Excuse({l})

\* The gateway refuses; later the refusal is written, for a retry or for good.
Refuse(l) == l \in In({"inHand"}) /\ Move({l}, "refused") /\ UNCHANGED <<received, excuses>>
Retry(l) == l \in In({"refused"}) /\ Move({l}, "waiting") /\ UNCHANGED <<received, excuses>>

\* Dead-lettered, or deleted with its participant.
GiveUp(l) ==
  l \in In({"waiting", "refused"}) /\ Move({l}, "over") /\ UNCHANGED <<received, excuses>>

\* A crash or a panic leaves rows in nobody's hands.
Drop(S) ==
  S \subseteq In({"inHand", "refused"}) /\ Move(S, "over") /\ UNCHANGED <<received, excuses>>

\* Rows that look stuck return to the queue, sent or not, and so does a message the
\* gateway reports as failed; nothing still waiting or not yet enqueued is asked for
\* again.
Reopen(S) ==
  /\ S \subseteq In({"inHand", "refused", "over", "told", "excused"})
  /\ Move(S, "excused") /\ Excuse(S) /\ UNCHANGED received

Next ==
  \/ \E l \in Logs : Enqueue(l) \/ Deliver(l) \/ Refuse(l) \/ Retry(l) \/ GiveUp(l)
  \/ \E S \in SUBSET Logs : Claim(S) \/ Drop(S) \/ Reopen(S)

Spec == Init /\ [][Next]_vars

=============================================================================
