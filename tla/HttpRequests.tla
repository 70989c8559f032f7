---------------------------- MODULE HttpRequests ----------------------------
(***************************************************************************)
(* How one message gets to the homeserver: send_message's transaction id,  *)
(* client_attempt's repetitions and its backoff (matrix/matrix_client.py,  *)
(* matrix/client_common.py, common.py), for messages of one puppet to one  *)
(* room, sent by tasks of their own.                                       *)
(*                                                                         *)
(* The homeserver is external: it takes two requests of a puppet with the  *)
(* same transaction id for one, and answers the second like the first.     *)
(* The network may drop a request, lose its answer, or keep the request    *)
(* and hand it over when the client has long given that attempt up.        *)
(***************************************************************************)
EXTENDS Naturals, Sequences

CONSTANTS
  Messages,    \* each is sent once
  MaxClock,    \* bound: readings of time.time() are 0 .. MaxClock
  MaxFaults    \* bound: so many attempts fail before the network is sound

ASSUME ConstantsAssumption ==
  MaxClock \in Nat /\ MaxFaults \in Nat

(* The seconds of backoff_iter, the last of which never ends *)
schedule == <<1, 1, 1, 1, 2, 2, 4, 8>>

VARIABLES
  clock,    \* time.time()
  call,     \* each send_message: where it is, its txn_id, its pauses so far
  late,     \* messages of which the network keeps a request
  known,    \* the transaction ids the homeserver has seen
  posted,   \* how often each message is in the room
  faults,   \* attempts that failed so far
  broken    \* history: messages an attempt of which failed for good

vars == <<clock, call, late, known, posted, faults, broken>>

PC == {"idle", "attempt", "sleep", "ok", "raised"}

TypeOK ==
  /\ clock \in 0 .. MaxClock
  /\ call \in [Messages -> [pc : PC, txn_id : 0 .. MaxClock, pauses : 0 .. MaxFaults]]
  /\ late \subseteq Messages
  /\ known \subseteq 0 .. MaxClock
  /\ posted \in [Messages -> Nat]
  /\ faults \in 0 .. MaxFaults
  /\ broken \subseteq Messages

Init ==
  /\ clock \in 0 .. MaxClock
  /\ call = [m \in Messages |-> [pc |-> "idle", txn_id |-> 0, pauses |-> 0]]
  /\ late = {} /\ known = {}
  /\ posted = [m \in Messages |-> 0]
  /\ faults = 0 /\ broken = {}

(* The clock's resolution is finite, and it may be set back. *)
Tick ==
  /\ clock' \in 0 .. MaxClock
  /\ UNCHANGED <<call, late, known, posted, faults, broken>>

-----------------------------------------------------------------------------
(* The homeserver and the network (external) *)

Take(m) ==
  LET id == call[m].txn_id
  IN IF id \in known THEN UNCHANGED <<known, posted>>
                     ELSE /\ known' = known \cup {id}
                          /\ posted' = [posted EXCEPT ![m] = @ + 1]

TakeLate(m) ==
  /\ m \in late /\ late' = late \ {m}
  /\ Take(m)
  /\ UNCHANGED <<clock, call, faults, broken>>

(* An attempt fails before, after or long before the homeserver acts. *)
Fault(m) ==
  /\ faults < MaxFaults /\ faults' = faults + 1
  /\ \/ UNCHANGED <<late, known, posted>>
     \/ Take(m) /\ UNCHANGED late
     \/ late' = late \cup {m} /\ UNCHANGED <<known, posted>>

-----------------------------------------------------------------------------
(* send_message and client_attempt.  (StampEachAttempt and its like are    *)
(* mutants: plausible slips, used only to confirm that a property notices  *)
(* them.)                                                                  *)

Goto(m, pc) == call' = [call EXCEPT ![m].pc = pc]

Stamp == clock

(* The transaction id is chosen once, before the first attempt. *)
SendMessage(m) ==
  /\ call[m].pc = "idle"
  /\ call' = [call EXCEPT ![m].pc = "attempt", ![m].txn_id = Stamp]
  /\ UNCHANGED <<clock, late, known, posted, faults, broken>>

Answered200(m) ==
  /\ call[m].pc = "attempt"
  /\ Take(m)
  /\ Goto(m, "ok")
  /\ UNCHANGED <<clock, late, faults, broken>>

PauseWhileScheduled(m) ==
  IF call[m].pauses < Len(schedule)
    THEN call' = [call EXCEPT ![m].pc = "sleep", ![m].pauses = @ + 1]
    ELSE Goto(m, "raised")

GiveUpQuietly(m) == Goto(m, "ok")

(* next(backoff) has a pause for every attempt. *)
Pause(m) == call' = [call EXCEPT ![m].pc = "sleep", ![m].pauses = @ + 1]

(* No connection, or a 502, 503 or 504 whose body is no JSON *)
Repeatable(m) ==
  /\ call[m].pc = "attempt"
  /\ Fault(m)
  /\ Pause(m)
  /\ UNCHANGED <<clock, broken>>

(* A time-out, an error in JSON (MatrixAPIError) or a body that is none *)
Raises(m) ==
  /\ call[m].pc = "attempt"
  /\ Fault(m)
  /\ Goto(m, "raised")
  /\ broken' = broken \cup {m}
  /\ UNCHANGED clock

StampEachAttempt(m) ==
  /\ call[m].pc = "sleep"
  /\ call' = [call EXCEPT ![m].pc = "attempt", ![m].txn_id = clock]
  /\ UNCHANGED <<clock, late, known, posted, faults, broken>>

Repeat(m) ==
  /\ call[m].pc = "sleep"
  /\ Goto(m, "attempt")
  /\ UNCHANGED <<clock, late, known, posted, faults, broken>>

-----------------------------------------------------------------------------
Go(m) == Answered200(m) \/ Repeatable(m) \/ Raises(m) \/ Repeat(m)

Next ==
  \/ \E m \in Messages : SendMessage(m) \/ Go(m) \/ TakeLate(m)
  \/ Tick

Spec == Init /\ [][Next]_vars

(* Pauses end, and every attempt is answered or fails. *)
FairSpec == Spec /\ \A m \in Messages : WF_vars(Go(m))

-----------------------------------------------------------------------------
(* However often a message is repeated, and however late the network hands *)
(* over a request given up, it is in the room at most once.                *)
AtMostOnce == \A m \in Messages : posted[m] <= 1

(* A message send_message returned for is in the room, unless another one  *)
(* was stamped with the same reading of the clock: the homeserver takes    *)
(* the two for one, and the second is gone without an error.               *)
LostToTwinOnly ==
  \A m \in Messages :
    call[m].pc = "ok" =>
      \/ posted[m] = 1
      \/ \E n \in Messages \ {m} : posted[n] = 1 /\ call[n].txn_id = call[m].txn_id

(* The bridge outlasts any outage: send_message returns once the network   *)
(* is sound, be it after more pauses than backoff_iter has a schedule for, *)
(* unless an attempt failed in a way that is not repeated.                 *)
OutlastsOutages ==
  \A m \in Messages : call[m].pc = "attempt" ~> call[m].pc = "ok" \/ m \in broken
=============================================================================
