-------------------------------- MODULE Relay --------------------------------
(***************************************************************************)
(* What the server promises about a reading it has accepted: at-most-once  *)
(* delivery.  A reading waits in a buffer, leaves it with everything else  *)
(* that waits there, and is then delivered or dropped, never sent again.   *)
(* Readings are numbered in the order of acceptance.  Only an exit of the  *)
(* process drops a reading that still waits in the buffer.                 *)
(***************************************************************************)
EXTENDS Naturals

VARIABLES count, buffered, inflight, delivered, dropped

vars == <<count, buffered, inflight, delivered, dropped>>

Init ==
  /\ count = 0
  /\ buffered = {} /\ inflight = {} /\ delivered = {} /\ dropped = {}

Accept ==
  /\ count' = count + 1
  /\ buffered' = buffered \cup {count + 1}
  /\ UNCHANGED <<inflight, delivered, dropped>>

Dispatch ==
  /\ inflight' = inflight \cup buffered
  /\ buffered' = {}
  /\ UNCHANGED <<count, delivered, dropped>>

\* The reading that fills the buffer leaves with it.
AcceptAndDispatch ==
  /\ count' = count + 1
  /\ inflight' = inflight \cup buffered \cup {count + 1}
  /\ buffered' = {}
  /\ UNCHANGED <<delivered, dropped>>

Deliver(S) ==
  /\ inflight' = inflight \ S
  /\ delivered' = delivered \cup S
  /\ UNCHANGED <<count, buffered, dropped>>

Drop(S) ==
  /\ inflight' = inflight \ S
  /\ dropped' = dropped \cup S
  /\ UNCHANGED <<count, buffered, delivered>>

Exit(S) ==
  /\ buffered' = {} /\ inflight' = {}
  /\ delivered' = delivered \cup S
  /\ dropped' = dropped \cup buffered \cup (inflight \ S)
  /\ UNCHANGED count

Next ==
  \/ Accept
  \/ Dispatch
  \/ AcceptAndDispatch
  \/ \E S \in SUBSET inflight : Deliver(S) \/ Drop(S) \/ Exit(S)

Spec == Init /\ [][Next]_vars
=============================================================================
