---------------------------- MODULE RoomMembers ----------------------------
(***************************************************************************)
(* How a puppet gets into a channel's room: MatrixChatter's                *)
(* ensure_room_member, MatrixChatterManager's room_members cache and the   *)
(* member events the homeserver pushes (matrix/app.py), for one room and   *)
(* one puppet, the key of the cache.                                       *)
(*                                                                         *)
(* A request is one action, the moment the homeserver acts on it; only for *)
(* reading a membership the answer is an action of its own, because what   *)
(* happens in between makes it old.  The homeserver is external: it keeps  *)
(* the membership, numbers the changes and pushes them as Transactions     *)
(* says.  A request it has given up may come to an old event late.         *)
(***************************************************************************)
EXTENDS Transactions, Sequences

CONSTANTS
  Callers,        \* send_channel calls of this puppet that may be in flight
  MaxChanges,     \* bound: after so many changes nobody else touches the room
  MaxFails        \* bound: requests that fail or are given up, and restarts

ASSUME ConstantsAssumption == MaxChanges \in Nat /\ MaxFails \in Nat

Membership == {"invite", "join", "leave"}

VARIABLES
  member,      \* the puppet's membership, "absent" before the first
  events,      \* every change of it so far
  registered,  \* the puppet's user exists
  named,       \* and has its display name
  cached,      \* room_members[key], "unknown" if not there
  call,        \* where each call is, what it read, whether it invited the
               \* puppet; history: an event was handled since it looked
  outrun,      \* history: the cache was written last by an answer that an
               \* event had outrun, or by an event that later ones had
  fails        \* failures and restarts so far

homeserver == <<member, events, registered, named>>
vars       == <<homeserver, delivery, cached, call, outrun, fails>>

PC == {"idle", "read", "answer", "invite", "join", "register", "name", "rejoin", "send"}

Idle == [pc |-> "idle", seen |-> "absent", invited |-> FALSE, old |-> FALSE]

TypeOK ==
  /\ member \in Membership \cup {"absent"}
  /\ events \in Seq(Membership)
  /\ registered \in BOOLEAN /\ named \in BOOLEAN
  /\ acked \in 0 .. Len(events) /\ txn \in 0 .. Len(events)
  /\ asked \in Handlers \cup {None}
  /\ run \in [Handlers -> [pc : {"idle", "handle", "join"}, at : Nat \ {0}, end : Nat]]
  /\ cached \in Membership \cup {"unknown"}
  /\ call \in [Callers -> [pc : PC, seen : Membership \cup {"absent"},
                           invited : BOOLEAN, old : BOOLEAN]]
  /\ outrun \in BOOLEAN /\ fails \in 0 .. MaxFails

Init ==
  /\ member = "absent" /\ events = <<>> /\ registered = FALSE /\ named = FALSE
  /\ DeliveryInit
  /\ cached = "unknown"
  /\ call = [c \in Callers |-> Idle]
  /\ outrun = FALSE /\ fails = 0

(* Something goes wrong. *)
Fail == fails < MaxFails /\ fails' = fails + 1

NoFail == UNCHANGED fails

-----------------------------------------------------------------------------
(* The homeserver (external)                                               *)

Becomes(m) == member' = m /\ events' = Append(events, m)

SameMember == UNCHANGED <<member, events>>

(* an invitation is refused (403) to one who is in or invited *)
ServeInvite == IF member \in {"invite", "join"} THEN SameMember ELSE Becomes("invite")

(* channel rooms are public; joining twice is no change *)
ServeJoin == IF member = "join" THEN SameMember ELSE Becomes("join")

(* somebody else kicks or invites the puppet *)
Others ==
  /\ Len(events) < MaxChanges
  /\ \/ member \in {"invite", "join"} /\ Becomes("leave")
     \/ member = "leave" /\ Becomes("invite")
  /\ UNCHANGED <<registered, named, delivery, cached, call, outrun, fails>>

-----------------------------------------------------------------------------
(* ensure_room_member.  (TakeForJoined and its like are mutants: plausible *)
(* slips, used only to confirm that a property notices them.)              *)

Proceed(c, pc) == call' = [call EXCEPT ![c].pc = pc]

EndCall(c) == call' = [call EXCEPT ![c] = Idle]

(* What the call does with the membership it was given.  Having joined it  *)
(* only asserts that there is one.                                         *)
TakeForJoined(c, m) ==
  Proceed(c, IF m = "absent" /\ ~ call[c].invited THEN "invite" ELSE "send")

Decide(c, m) ==
  IF call[c].invited THEN call' = [call EXCEPT ![c].pc = "send", ![c].old = FALSE]
  ELSE call' = [call EXCEPT ![c] =
         [Idle EXCEPT !.pc = CASE m = "absent" -> "invite"
                               [] m = "invite" -> "join"
                               [] m = "join"   -> "send"
                               [] m = "leave"  -> "idle"]]  \* Unexpected membership

(* get_room_member answers from the cache or asks the homeserver *)
LookUp(c) == IF cached = "unknown" THEN Proceed(c, "read") ELSE Decide(c, cached)

Call(c) ==
  /\ call[c].pc = "idle"
  /\ LookUp(c)
  /\ UNCHANGED <<homeserver, delivery, cached, outrun, fails>>

ReadMember(c) ==
  /\ call[c].pc = "read"
  /\ call' = [call EXCEPT ![c].pc = "answer", ![c].seen = member, ![c].old = FALSE]
  /\ UNCHANGED <<homeserver, delivery, cached, outrun, fails>>

CacheNone(c) == cached' = call[c].seen /\ UNCHANGED outrun

CacheAnswer(c) ==
  LET m == call[c].seen
  IN IF m = "absent" THEN UNCHANGED <<cached, outrun>>
                     ELSE cached' = m /\ outrun' = (outrun \/ call[c].old)

GotMember(c) ==
  /\ call[c].pc = "answer"
  /\ CacheAnswer(c)
  /\ Decide(c, call[c].seen)
  /\ UNCHANGED <<homeserver, delivery, fails>>

(* invite_user goes on after any 403, deserved or not *)
InviteUser(c) ==
  /\ call[c].pc = "invite"
  /\ (ServeInvite /\ NoFail) \/ (Fail /\ SameMember)
  /\ call' = [call EXCEPT ![c].pc = "join", ![c].invited = TRUE]
  /\ UNCHANGED <<registered, named, delivery, cached, outrun>>

(* Joined: the call that was invited here looks its membership up again *)
Joined(c) == IF call[c].invited THEN LookUp(c) ELSE Proceed(c, "send")

(* A user that does not exist gets M_FORBIDDEN and is registered first. *)
JoinRoom(c) ==
  /\ call[c].pc \in {"join", "rejoin"}
  /\ IF registered
       THEN ServeJoin /\ Joined(c)
       ELSE Proceed(c, "register") /\ SameMember
  /\ UNCHANGED <<registered, named, delivery, cached, outrun, fails>>

RegisterAndName(c) ==
  /\ call[c].pc = "register"
  /\ registered' = TRUE
  /\ (Proceed(c, "name") /\ NoFail) \/ (UNCHANGED call /\ Fail)
  /\ UNCHANGED <<member, events, named, delivery, cached, outrun>>

(* M_USER_IN_USE skips the display name, also when it is the answer to a   *)
(* repetition of the request that registered the user (client_attempt).    *)
RegisterUser(c) ==
  /\ call[c].pc = "register"
  /\ registered' = TRUE
  /\ \/ Proceed(c, IF registered THEN "rejoin" ELSE "name") /\ NoFail
     \/ UNCHANGED call /\ Fail
  /\ UNCHANGED <<member, events, named, delivery, cached, outrun>>

NamedIsJoined(c) ==
  /\ call[c].pc = "name"
  /\ named' = TRUE
  /\ Joined(c)
  /\ UNCHANGED <<member, events, registered, delivery, cached, outrun, fails>>

SetDisplayName(c) ==
  /\ call[c].pc = "name"
  /\ named' = TRUE
  /\ Proceed(c, "rejoin")
  /\ UNCHANGED <<member, events, registered, delivery, cached, outrun, fails>>

(* send_message, refused to a puppet that is not in the room *)
SendMessage(c) ==
  /\ call[c].pc = "send"
  /\ EndCall(c)
  /\ UNCHANGED <<homeserver, delivery, cached, outrun, fails>>

(* Any request may be answered with an error, which ends the call. *)
CallFails(c) ==
  /\ call[c].pc \notin {"idle", "answer"} /\ Fail
  /\ EndCall(c)
  /\ UNCHANGED <<homeserver, delivery, cached, outrun>>

-----------------------------------------------------------------------------
(* transactions and handle_room_member *)

Push == PushUpTo(Len(events)) /\ UNCHANGED <<homeserver, cached, call, outrun, fails>>

GiveUp == Fail /\ StopWaiting /\ UNCHANGED <<homeserver, cached, call, outrun>>

(* Events up to Done have had their turn, in vain if the cache is now told *)
(* of one before it.                                                       *)
CacheEvent(h) ==
  /\ cached' = events[run[h].at]
  /\ outrun' = (run[h].at < Done)
  /\ call' = [c \in Callers |-> [call[c] EXCEPT !.old = call[c].pc # "idle"]]

(* The cache is told before the puppet joins: a handler at "join" works on *)
(* the event before its next one.                                          *)
HandleRoomMember(h) ==
  /\ HasNext(h)
  /\ CacheEvent(h)
  /\ run' = [run EXCEPT ![h].pc = IF events[run[h].at] = "invite" THEN "join" ELSE "handle",
                        ![h].at = @ + 1]
  /\ UNCHANGED <<homeserver, acked, txn, asked, fails>>

JoinInvited(h) ==
  /\ run[h].pc = "join"
  /\ \/ registered /\ ServeJoin /\ NoFail /\ Goto(h, "handle") /\ UNCHANGED <<acked, txn, asked>>
     \/ ((~ registered /\ NoFail) \/ Fail) /\ SameMember /\ Abort(h)
  /\ UNCHANGED <<registered, named, cached, call, outrun>>

Answer(h) == Finish(h) /\ UNCHANGED <<homeserver, cached, call, outrun, fails>>

-----------------------------------------------------------------------------
Restart ==
  /\ Fail
  /\ ForgetRuns
  /\ cached' = "unknown" /\ outrun' = FALSE
  /\ call' = [c \in Callers |-> Idle]
  /\ UNCHANGED homeserver

Step(c) ==
  \/ ReadMember(c) \/ GotMember(c)
  \/ InviteUser(c) \/ JoinRoom(c) \/ RegisterUser(c) \/ SetDisplayName(c)
  \/ SendMessage(c) \/ CallFails(c)

Handle(h) == HandleRoomMember(h) \/ JoinInvited(h) \/ Answer(h)

Next ==
  \/ \E c \in Callers : Call(c) \/ Step(c)
  \/ Push \/ GiveUp
  \/ \E h \in Handlers : Handle(h)
  \/ Others \/ Restart

Spec == Init /\ [][Next]_vars

(* Requests are answered and the homeserver keeps pushing. *)
FairSpec ==
  /\ Spec /\ WF_vars(Push)
  /\ \A h \in Handlers : WF_vars(Handle(h))
  /\ \A c \in Callers : WF_vars(Step(c))

-----------------------------------------------------------------------------
(* Once every change has been acknowledged the cache is right, whatever    *)
(* handlers raise, transactions repeat and restarts forget; unless what    *)
(* wrote it last was an answer read before a change whose event came       *)
(* first, or a request the homeserver had given up, which went on to an    *)
(* event after later ones had been handled.  With dev_soft_fail an error   *)
(* drops the rest of a transaction, and this does not hold.                *)
CacheCatchesUp ==
  acked = Len(events) /\ asked = None /\ cached # "unknown" /\ ~ outrun
    => cached = member

(* `assert room_member is not None` in ensure_room_member never fails: a   *)
(* puppet that has just joined is found.                                   *)
AssertHolds ==
  \A c \in Callers :
    call[c].pc = "answer" /\ call[c].invited => call[c].seen # "absent"

(* A puppet is in the room when its message is sent there, also when it    *)
(* was the cache that said so, unless the event of a kick is not yet       *)
(* acknowledged or was handled since the call looked, or the cache was     *)
(* written last by something outrun, or the call, having joined, saw that  *)
(* the puppet was kicked: the assertion lets it go on.                     *)
MembersPost ==
  \A c \in Callers :
    call[c].pc = "send" =>
      \/ member = "join" \/ outrun \/ call[c].old
      \/ call[c].seen \in {"invite", "leave"}
      \/ \E k \in acked + 1 .. Len(events) : events[k] = "leave"

(* A puppet registered but not named, because of a failure in between, is  *)
(* left so: no later call of send_channel names it.                        *)
NamelessStays ==
  [][registered /\ ~ named /\ (\A c \in Callers : call[c].pc # "name")
       => ~ named' /\ \A c \in Callers : call'[c].pc # "name"]_vars

(* The event of the bridge's own invitation makes it join a puppet that    *)
(* may not be registered yet, which is refused: for that time, and after a *)
(* failure before the registration until the puppet speaks again, the      *)
(* homeserver's queue stands still, whatever else waits in it.             *)
UnregisteredBlocks ==
  [][\A k \in acked + 1 .. Len(events) :
       events[k] = "invite" /\ ~ registered => acked' < k]_vars

(* Nothing else holds it up: it is emptied again and again. *)
EventsAcked == []<>(acked = Len(events)) \/ <>[](~ registered)
=============================================================================
