---------------------------- MODULE MessageRelay ----------------------------
(***************************************************************************)
(* What the bridge promises for the messages it relays: each one is posted *)
(* at most once, and in the order of arrival, but for those whose posting  *)
(* was given up when it was their turn: they may arrive at any later time. *)
(* Messages are numbered 1, 2, 3, ... as they arrive.                      *)
(***************************************************************************)
EXTENDS Naturals, Sequences

VARIABLES
  received,  \* number of messages that have arrived
  dropped,   \* the messages that are not to be posted
  posted,    \* the messages posted, in posting order
  late       \* the messages given up

vars == <<received, dropped, posted, late>>

Init == received = 0 /\ dropped = {} /\ posted = <<>> /\ late = {}

IsPosted(m) == \E i \in 1 .. Len(posted) : posted[i] = m

Passed(m) == m \in dropped \cup late \/ IsPosted(m)

(* A message has its turn when every earlier one has had it. *)
HasTurn(m) == m \in 1 .. received /\ \A j \in 1 .. m - 1 : Passed(j)

Receive ==
  /\ received' = received + 1
  /\ dropped' \in {dropped, dropped \cup {received + 1}}
  /\ UNCHANGED <<posted, late>>

Post(m) ==
  /\ HasTurn(m) /\ ~ Passed(m)
  /\ posted' = Append(posted, m)
  /\ UNCHANGED <<received, dropped, late>>

Drop(m) ==
  /\ HasTurn(m) /\ ~ Passed(m)
  /\ dropped' = dropped \cup {m}
  /\ UNCHANGED <<received, posted, late>>

GiveUp(m) ==
  /\ HasTurn(m)
  /\ late' = late \cup {m}
  /\ UNCHANGED <<received, dropped, posted>>

Arrive(m) ==
  /\ m \in late /\ ~ IsPosted(m)
  /\ posted' = Append(posted, m)
  /\ UNCHANGED <<received, dropped, late>>

Next ==
  \/ Receive
  \/ \E m \in 1 .. received : Post(m) \/ Drop(m) \/ GiveUp(m) \/ Arrive(m)

Spec == Init /\ [][Next]_vars
=============================================================================
