---------------------------- MODULE RoomMessages ----------------------------
(***************************************************************************)
(* How the messages of the rooms get to the radio: the transactions the    *)
(* homeserver pushes, MatrixChatterManager's handling of their events and  *)
(* the room handlers of RadioChatter (matrix/app.py, mcorechat.py).        *)
(*                                                                         *)
(* The homeserver (external) pushes them as Transactions says: a message   *)
(* is the event of its number.                                             *)
(***************************************************************************)
EXTENDS Transactions, Sequences, SequencesExt

CONSTANTS
  MaxMessages,      \* bound: messages in the rooms
  MaxPushes,        \* bound: how often a transaction is pushed
  Kinds,            \* what messages there are, see AllKinds
  dev_enable_send   \* Config.dev_enable_send

(* "own": a message of the identity user in a room of room_manager, short  *)
(* enough to send; "long": one that is not; "foreign": of somebody else,   *)
(* the bridge's puppets included, or in another room; "broken": an event   *)
(* whose handling always raises, an own message without a body (KeyError), *)
(* as a redacted one is, or a member event whose membership is not in      *)
(* RoomMembership (ValueError), such as a ban or a knock.                  *)
AllKinds == {"own", "long", "foreign", "broken"}

ASSUME ConstantsAssumption ==
  /\ MaxMessages \in Nat /\ MaxPushes \in Nat
  /\ Kinds \subseteq AllKinds
  /\ dev_enable_send \in BOOLEAN

VARIABLES
  log,      \* the kinds of the messages in the rooms, in order
  sent,     \* the messages put on air, in the order of their first time
  reported, \* the messages answered by a notice in their room
  pushes    \* history: how often each message was pushed

vars == <<log, delivery, sent, reported, pushes>>

Numbers == 1 .. MaxMessages

TypeOK ==
  /\ log \in Seq(Kinds) /\ Len(log) <= MaxMessages
  /\ acked \in 0 .. Len(log) /\ txn \in 0 .. Len(log)
  /\ asked \in Handlers \cup {None}
  /\ run \in [Handlers -> [pc : {"idle", "handle", "radio", "report"},
                           at : 1 .. MaxMessages + 1, end : 0 .. MaxMessages]]
  /\ sent \in Seq(Numbers) /\ reported \subseteq Numbers
  /\ pushes \in [Numbers -> Nat]

Init ==
  /\ log = <<>> /\ DeliveryInit
  /\ sent = <<>> /\ reported = {}
  /\ pushes = [k \in Numbers |-> 0]

-----------------------------------------------------------------------------
(* The homeserver (external)                                               *)

UserPosts(kind) ==
  /\ Len(log) < MaxMessages
  /\ log' = Append(log, kind)
  /\ UNCHANGED <<delivery, sent, reported, pushes>>

Push ==
  /\ PushUpTo(Len(log))
  /\ pushes[acked + 1] < MaxPushes
  /\ pushes' = [k \in Numbers |-> IF k \in acked + 1 .. txn' THEN pushes[k] + 1 ELSE pushes[k]]
  /\ UNCHANGED <<log, sent, reported>>

GiveUp == StopWaiting /\ UNCHANGED <<log, sent, reported, pushes>>

-----------------------------------------------------------------------------
(* handle_room_message.  (TransmitZeroBased and its like are mutants:      *)
(* plausible slips, used only to confirm that a property notices them.)    *)

IsSent(kind) == kind = "own"

HandleMessage(h) ==
  LET kind == log[run[h].at]
  IN /\ HasNext(h)
     /\ \/ kind = "broken" /\ Abort(h)
        \/ /\ kind # "broken"
           /\ IF IsSent(kind) THEN Goto(h, "radio")
              ELSE IF kind = "long" THEN Goto(h, "report")
              ELSE NextEvent(h)
           /\ UNCHANGED <<asked, acked, txn>>
     /\ UNCHANGED <<log, sent, reported, pushes>>

OnAir == ToSet(sent)

(* channel_callback, direct_callback: the radio command, which may have    *)
(* its effect and fail all the same *)
TransmitZeroBased(h) == sent' = Append(sent, run[h].at - 1)

Transmit(h) ==
  sent' = IF dev_enable_send /\ run[h].at \notin OnAir THEN Append(sent, run[h].at) ELSE sent

SendSwallowsError(h) ==
  /\ run[h].pc = "radio"
  /\ Transmit(h) \/ UNCHANGED sent
  /\ NextEvent(h)
  /\ UNCHANGED <<log, acked, txn, asked, reported, pushes>>

Send(h) ==
  /\ run[h].pc = "radio"
  /\ \/ Transmit(h) /\ NextEvent(h)
     \/ (Transmit(h) \/ UNCHANGED sent) /\ Goto(h, "report")
  /\ UNCHANGED <<log, acked, txn, asked, reported, pushes>>

(* send_error: a notice in the room, where it is one of the "foreign"      *)
(* messages that follow.  Failing to post it fails the transaction.        *)
Report(h) ==
  /\ run[h].pc = "report"
  /\ \/ /\ reported' = reported \cup {run[h].at}
        /\ NextEvent(h)
        /\ UNCHANGED <<asked, acked, txn>>
     \/ Abort(h) /\ UNCHANGED reported
  /\ UNCHANGED <<log, sent, pushes>>

Answer(h) == Finish(h) /\ UNCHANGED <<log, sent, reported, pushes>>

(* the bridge is started anew *)
Restart == ForgetRuns /\ UNCHANGED <<log, sent, reported, pushes>>

Step(h) == HandleMessage(h) \/ Send(h) \/ Report(h) \/ Answer(h)

Next ==
  \/ \E kind \in Kinds : UserPosts(kind)
  \/ Push \/ GiveUp \/ Restart
  \/ \E h \in Handlers : Step(h)

Spec == Init /\ [][Next]_vars

-----------------------------------------------------------------------------
Own(k) == log[k] \in {"own", "long"}

Settled(k) == k \in OnAir \cup reported

(* What the identity user writes is put on air or answered by a notice     *)
(* before the homeserver may forget it, whatever fails, times out or       *)
(* restarts; not so with dev_soft_fail.                                    *)
NoneLost ==
  dev_enable_send /\ ~ dev_soft_fail => \A k \in 1 .. acked : Own(k) => Settled(k)

(* A message goes on air only after every earlier one was settled: repeats *)
(* and overlapping requests do not let a later message overtake.           *)
NoneOvertakes ==
  dev_soft_fail \/ \A k \in OnAir : \A j \in 1 .. k - 1 : Own(j) => Settled(j)

(* An event whose handling always raises is pushed again and again, and    *)
(* nothing at or behind it is ever acknowledged; not so with dev_soft_fail. *)
BrokenBlocks ==
  [][\A k \in acked + 1 .. Len(log) :
       log[k] = "broken" /\ ~ dev_soft_fail => acked' < k]_vars

(* What is not for the radio is dropped as it comes; what was answered by  *)
(* a notice was given up, and may go on air when it is pushed again.       *)
Relay ==
  INSTANCE MessageRelay WITH received <- Len(log), dropped <- {k \in 1 .. Len(log) : ~ Own(k)},
                             posted <- sent, late <- reported

(* The rooms' messages go to the radio as MessageRelay promises, each for  *)
(* the first time in its turn or after a notice said in its turn that it   *)
(* had failed, whatever fails, is pushed again or is handled twice at once. *)
RelaySpec == Relay!Spec
=============================================================================
