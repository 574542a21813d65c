---------------------------- MODULE CallbackOutbox ----------------------------
(***************************************************************************)
(* What the schema and CONTEXT.md promise of callback_deliveries: the      *)
(* status goes from pending to delivered or dead, to delivered only when   *)
(* the platform took the callback, to dead only after it was tried and     *)
(* with an alert to the administrators, and back to pending only from      *)
(* dead, by hand; the platform hears of pending callbacks only.            *)
(***************************************************************************)
CONSTANT Deliveries

VARIABLES
  status,    \* [Deliveries -> {"absent", "pending", "delivered", "dead"}]
  accepted,  \* the callbacks the platform has taken
  tried,     \* the callbacks sent since they were committed or redelivered
  alerted    \* the callbacks the administrators were alerted about

vars == <<status, accepted, tried, alerted>>

Init ==
  /\ status = [d \in Deliveries |-> "absent"]
  /\ accepted = {} /\ tried = {} /\ alerted = {}

Move(d, from, to) == status[d] = from /\ status' = [status EXCEPT ![d] = to]

Committed(d) == Move(d, "absent", "pending") /\ UNCHANGED <<accepted, tried, alerted>>

Sent(d) ==
  /\ status[d] = "pending"
  /\ tried' = tried \union {d}
  /\ accepted' \in {accepted, accepted \union {d}}
  /\ UNCHANGED <<status, alerted>>

Delivered(d) ==
  /\ d \in accepted
  /\ Move(d, "pending", "delivered")
  /\ UNCHANGED <<accepted, tried, alerted>>

GivenUp(d) ==
  /\ d \in tried
  /\ Move(d, "pending", "dead")
  /\ alerted' = alerted \union {d}
  /\ UNCHANGED <<accepted, tried>>

Redelivered(d) ==
  /\ Move(d, "dead", "pending")
  /\ tried' = tried \ {d}
  /\ UNCHANGED <<accepted, alerted>>

Next ==
  \E d \in Deliveries :
    \/ Committed(d)
    \/ Sent(d)
    \/ Delivered(d)
    \/ GivenUp(d)
    \/ Redelivered(d)

Spec == Init /\ [][Next]_vars
=============================================================================
