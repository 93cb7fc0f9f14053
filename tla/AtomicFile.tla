------------------------------ MODULE AtomicFile ------------------------------
(***************************************************************************)
(* What save_state and load_state promise together: the state file is at   *)
(* every moment absent, unreadable as it was found, or one complete state  *)
(* that the core really had; a save replaces it in one step; a power loss  *)
(* may only bring back the file that was there before.                     *)
(***************************************************************************)
EXTENDS Integers

CONSTANTS Absent, Unreadable

VARIABLES
  live,      \* the state of the core: how many edits it has seen
  file,      \* what the state file holds
  durable,   \* what the state file holds after a power loss
  inflight   \* the states that saves in progress have captured

vars == <<live, file, durable, inflight>>

Init ==
  /\ live = 0
  /\ file \in Nat \cup {Absent, Unreadable}
  /\ durable = file
  /\ inflight = {}

Edit == live' = live + 1 /\ UNCHANGED <<file, durable, inflight>>

Capture == inflight' = inflight \cup {live} /\ UNCHANGED <<live, file, durable>>

GiveUp == inflight' \in SUBSET inflight /\ UNCHANGED <<live, file, durable>>

Install ==
  /\ \E state \in inflight : file' = state
  /\ inflight' \in SUBSET inflight
  /\ UNCHANGED <<live, durable>>

Settle == durable' = file /\ UNCHANGED <<live, file, inflight>>

Stop ==
  /\ live' = 0
  /\ file' \in {file, durable}
  /\ inflight' = {}
  /\ UNCHANGED durable

\* A start finds the state, or sets aside what it cannot read.
Restore ==
  \/ live' = file /\ UNCHANGED <<file, durable, inflight>>
  \/ file' = Absent /\ UNCHANGED <<live, durable, inflight>>

Next == Edit \/ Capture \/ GiveUp \/ Install \/ Settle \/ Stop \/ Restore

Spec == Init /\ [][Next]_vars

=============================================================================
