----------------------------- MODULE BoundedSink -----------------------------
(* What both telemetry sinks promise of their account: an accepted event is *)
(* pending until it is delivered or lost, and a Close that returned has     *)
(* settled the account for good.                                            *)

EXTENDS Naturals

CONSTANT Capacity    \* bound on the events in flight

VARIABLES accepted, delivered, undelivered, pending,
          settled    \* Close has drawn the line

vars == <<accepted, delivered, undelivered, pending, settled>>

Init ==
  /\ accepted = 0 /\ delivered = 0 /\ undelivered = 0 /\ pending = 0
  /\ settled = FALSE

Accept ==
  /\ ~settled /\ pending < Capacity
  /\ accepted' = accepted + 1
  /\ pending' = pending + 1
  /\ UNCHANGED <<delivered, undelivered, settled>>

\* A batch of n events is delivered, or lost as a whole.
Deliver(n) ==
  /\ ~settled
  /\ pending' = pending - n
  /\ delivered' = delivered + n
  /\ UNCHANGED <<accepted, undelivered, settled>>

Lose(n) ==
  /\ ~settled
  /\ pending' = pending - n
  /\ undelivered' = undelivered + n
  /\ UNCHANGED <<accepted, delivered, settled>>

\* Close gives up on what is pending.
Settle ==
  /\ ~settled
  /\ settled' = TRUE
  /\ undelivered' = undelivered + pending
  /\ pending' = 0
  /\ UNCHANGED <<accepted, delivered>>

Next ==
  \/ Accept
  \/ \E n \in 1..pending : Deliver(n) \/ Lose(n)
  \/ Settle

Spec == Init /\ [][Next]_vars

=============================================================================
