------------------------------ MODULE Delivery ------------------------------
(***************************************************************************)
(* What the notification path promises to the rest of the program, without *)
(* queue, workers, attempts or stalls: a message has a status, requests    *)
(* place orders for it, an order hands the customer a bounded number of    *)
(* copies, and the status reports what was handed over.  It promises no    *)
(* order between messages and no end.                                      *)
(***************************************************************************)
EXTENDS Naturals

CONSTANTS
  Messages,
  Orders,
  None,
  Limit         \* copies one order may hand over

VARIABLES
  status,       \* of each message, None before it exists
  orderOf,      \* the message of each order, None before it is placed
  copies        \* copies each order has handed over

vars == <<status, orderOf, copies>>

Init ==
  /\ status = [m \in Messages |-> None]
  /\ orderOf = [o \in Orders |-> None]
  /\ copies = [o \in Orders |-> 0]

\* A message is written down, or is to be sent once more.
Request(m) ==
  /\ status' = [status EXCEPT ![m] = "PENDING"]
  /\ UNCHANGED <<orderOf, copies>>

Place(o, m) ==
  /\ status[m] # None
  /\ orderOf[o] = None
  /\ orderOf' = [orderOf EXCEPT ![o] = m]
  /\ UNCHANGED <<status, copies>>

HandOver(o) ==
  /\ orderOf[o] # None
  /\ copies[o] < Limit
  /\ copies' = [copies EXCEPT ![o] = @ + 1]
  /\ UNCHANGED <<status, orderOf>>

\* SENT only if an order of the message has handed over a copy.
ReportSent(m) ==
  /\ \E o \in Orders : orderOf[o] = m /\ copies[o] > 0
  /\ status' = [status EXCEPT ![m] = "SENT"]
  /\ UNCHANGED <<orderOf, copies>>

\* FAILED only if there was an order to fail.
ReportFailed(m) ==
  /\ \E o \in Orders : orderOf[o] = m
  /\ status' = [status EXCEPT ![m] = "FAILED"]
  /\ UNCHANGED <<orderOf, copies>>

Next ==
  \/ \E m \in Messages : Request(m) \/ ReportSent(m) \/ ReportFailed(m)
  \/ \E o \in Orders, m \in Messages : Place(o, m)
  \/ \E o \in Orders : HandOver(o)

Spec == Init /\ [][Next]_vars
=============================================================================
