----------------------------- MODULE DirectRooms -----------------------------
(***************************************************************************)
(* Direct messages with one contact of the radio: MatrixChatter.send_direct *)
(* and what MatrixChatterManager.handle_room_member does when somebody     *)
(* opens a direct chat with the contact's puppet (matrix/app.py).          *)
(*                                                                         *)
(* The contact has one private room, made by its puppet at startup.  Its   *)
(* messages are posted there, after inviting the identity user if need be. *)
(* A room somebody else makes for a direct chat with the puppet is joined, *)
(* tombstoned in favour of the contact's room, and its maker is invited    *)
(* there: three requests, each of which may fail, which fails the          *)
(* transaction, which the homeserver then repeats.                         *)
(*                                                                         *)
(* The homeserver is external: it keeps the memberships, numbers their     *)
(* changes and pushes them as Transactions says.  A request is one action, *)
(* only for reading a membership the answer is an action of its own.       *)
(***************************************************************************)
EXTENDS Transactions, Sequences

CONSTANTS
  Chats,              \* the rooms users may make for a chat with the puppet
  Home,               \* the contact's own room (ContactInfo.room_id)
  Puppet,             \* the contact's user (ContactInfo.user_id)
  identity_user_id,   \* the user the radio belongs to
  app_user_id,        \* the bridge's own user
  Guests,             \* other users who may make a chat
  MaxDeeds,           \* bound: what users do
  MaxFails            \* bound: requests that fail or are given up, restarts

ASSUME ConstantsAssumption ==
  /\ Home \notin Chats
  /\ Puppet # identity_user_id /\ app_user_id \notin Guests \cup {Puppet, identity_user_id}
  /\ {Puppet, identity_user_id} \cap Guests = {}
  /\ MaxDeeds \in Nat /\ MaxFails \in Nat

Rooms == Chats \cup {Home}

People == Guests \cup {identity_user_id}

Users == People \cup {Puppet, app_user_id}

Membership == {"invite", "join", "leave"}

(* direct: an invitation marked is_direct, of a puppet that is in           *)
(* contact_manager                                                         *)
Event == [room : Rooms, user : Users, is : Membership, sender : Users, direct : BOOLEAN]

VARIABLES
  member,       \* the memberships, "absent" before the first
  open,         \* the chats that let the puppet change their state
  tombstoned,   \* the chats that point to Home
  events,       \* every change of a membership
  cached,       \* room_members[Home, identity_user_id]
  call,         \* send_direct: where, what it read; history: it is excused
  outrun,       \* history: the cache was written last by an answer that an
                \* event had outrun, or by an event that later ones had
  deeds, fails  \* what users did, what failed

homeserver == <<member, open, tombstoned, events>>
bridge     == <<cached, call, outrun>>
vars       == <<homeserver, delivery, bridge, deeds, fails>>

Idle == [pc |-> "idle", seen |-> "absent", old |-> FALSE]

TypeOK ==
  /\ member \in [Rooms -> [Users -> Membership \cup {"absent"}]]
  /\ open \subseteq Chats /\ tombstoned \subseteq Chats
  /\ events \in Seq(Event)
  /\ acked \in 0 .. Len(events) /\ txn \in 0 .. Len(events)
  /\ asked \in Handlers \cup {None}
  /\ run \in [Handlers -> [pc : {"idle", "handle", "join", "tombstone", "invite"},
                           at : Nat \ {0}, end : Nat]]
  /\ cached \in Membership \cup {"unknown"}
  /\ call \in [pc : {"idle", "read", "answer", "invite", "send"},
               seen : Membership \cup {"absent"}, old : BOOLEAN]
  /\ outrun \in BOOLEAN
  /\ deeds \in 0 .. MaxDeeds /\ fails \in 0 .. MaxFails

Init ==
  /\ member = [r \in Rooms |-> [u \in Users |->
                 IF r = Home /\ u = Puppet THEN "join" ELSE "absent"]]
  /\ open = {} /\ tombstoned = {} /\ events = <<>>
  /\ DeliveryInit
  /\ cached = "unknown" /\ call = Idle /\ outrun = FALSE
  /\ deeds = 0 /\ fails = 0

-----------------------------------------------------------------------------
(* The homeserver and its users (external)                                 *)

Happens(e) ==
  /\ member' = [member EXCEPT ![e.room][e.user] = e.is]
  /\ events' = Append(events, e)

Becomes(r, u, m, by) ==
  Happens([room |-> r, user |-> u, is |-> m, sender |-> by, direct |-> FALSE])

SameMembers == UNCHANGED <<member, events>>

Do == deeds < MaxDeeds /\ deeds' = deeds + 1

InvitePuppet(d, u) ==
  \E direct \in BOOLEAN :
    Happens([room |-> d, user |-> Puppet, is |-> "invite", sender |-> u, direct |-> direct])

MakeChat(d, u) ==
  /\ Do /\ member[d][Puppet] = "absent"
  /\ InvitePuppet(d, u)
  /\ open' \in {open, open \cup {d}}
  /\ UNCHANGED <<tombstoned, delivery, bridge, fails>>

(* an invitation taken back, or the puppet sent away *)
SendAway(d, u) ==
  /\ Do /\ member[d][Puppet] \in {"invite", "join"}
  /\ Becomes(d, Puppet, "leave", u)
  /\ UNCHANGED <<open, tombstoned, delivery, bridge, fails>>

InviteAgain(d, u) ==
  /\ Do /\ member[d][Puppet] = "leave"
  /\ InvitePuppet(d, u)
  /\ UNCHANGED <<open, tombstoned, delivery, bridge, fails>>

(* the puppet is given power in the chat, or loses it *)
ChangePower(d) ==
  /\ Do /\ member[d][Puppet] # "absent"
  /\ open' = IF d \in open THEN open \ {d} ELSE open \cup {d}
  /\ UNCHANGED <<member, events, tombstoned, delivery, bridge, fails>>

Accept(u) ==
  /\ Do /\ member[Home][u] = "invite"
  /\ Becomes(Home, u, "join", u)
  /\ UNCHANGED <<open, tombstoned, delivery, bridge, fails>>

Leave(u) ==
  /\ Do /\ member[Home][u] \in {"invite", "join"}
  /\ Becomes(Home, u, "leave", u)
  /\ UNCHANGED <<open, tombstoned, delivery, bridge, fails>>

(* The puppet's invitation into the contact's room is refused (403) for    *)
(* one who is in or invited.                                               *)
ServeInvite(u) ==
  IF member[Home][u] \in {"invite", "join"} THEN SameMembers
                                            ELSE Becomes(Home, u, "invite", Puppet)

Fail == fails < MaxFails /\ fails' = fails + 1

NoFail == UNCHANGED fails

-----------------------------------------------------------------------------
(* send_direct, called by the drain for one message after the other.       *)
(* (NeedsInviteOnce and its like are mutants: plausible slips, used only   *)
(* to confirm that a property notices them.)                               *)

NeedsInviteOnce(m) == m = "absent"

NeedsInvite(m) == m \notin {"invite", "join"}

Decide(m) == call' = [Idle EXCEPT !.pc = IF NeedsInvite(m) THEN "invite" ELSE "send"]

SendDirect ==
  /\ call.pc = "idle"
  /\ IF cached = "unknown" THEN call' = [Idle EXCEPT !.pc = "read"] ELSE Decide(cached)
  /\ UNCHANGED <<homeserver, delivery, cached, outrun, deeds, fails>>

ReadMember ==
  /\ call.pc = "read"
  /\ call' = [pc |-> "answer", seen |-> member[Home][identity_user_id], old |-> FALSE]
  /\ UNCHANGED <<homeserver, delivery, cached, outrun, deeds, fails>>

CacheNone == cached' = call.seen /\ UNCHANGED outrun

CacheAnswer ==
  IF call.seen = "absent" THEN UNCHANGED <<cached, outrun>>
                          ELSE cached' = call.seen /\ outrun' = (outrun \/ call.old)

GotMember ==
  /\ call.pc = "answer"
  /\ CacheAnswer
  /\ Decide(call.seen)
  /\ UNCHANGED <<homeserver, delivery, deeds, fails>>

InviteIdentity ==
  /\ call.pc = "invite"
  /\ ServeInvite(identity_user_id)
  /\ call' = [Idle EXCEPT !.pc = "send"]
  /\ UNCHANGED <<open, tombstoned, delivery, cached, outrun, deeds, fails>>

SendMessage ==
  /\ call.pc = "send"
  /\ call' = Idle
  /\ UNCHANGED <<homeserver, delivery, cached, outrun, deeds, fails>>

(* A request fails, the call raises and the message is gone. *)
SendFails ==
  /\ call.pc \notin {"idle", "answer"} /\ Fail
  /\ call' = Idle
  /\ UNCHANGED <<homeserver, delivery, cached, outrun, deeds>>

Send == ReadMember \/ GotMember \/ InviteIdentity \/ SendMessage \/ SendFails

-----------------------------------------------------------------------------
(* transactions, handle_room_member *)

Push == PushUpTo(Len(events)) /\ UNCHANGED <<homeserver, bridge, deeds, fails>>

GiveUp == Fail /\ StopWaiting /\ UNCHANGED <<homeserver, bridge, deeds>>

IsDirect(e) == e.user = Puppet /\ e.is = "invite" /\ e.direct

IsIdentity(e) == e.room = Home /\ e.user = identity_user_id

(* The event is told in vain if a later one of the same key had its turn. *)
CacheEvent(h) ==
  LET k == run[h].at
  IN IF IsIdentity(events[k])
       THEN /\ cached' = events[k].is
            /\ outrun' = \E j \in k + 1 .. Done : IsIdentity(events[j])
            /\ call' = [call EXCEPT !.old = call.pc # "idle"]
       ELSE UNCHANGED bridge

HandleRoomMember(h) ==
  /\ HasNext(h)
  /\ CacheEvent(h)
  /\ IF IsDirect(events[run[h].at]) THEN Goto(h, "join") ELSE NextEvent(h)
  /\ UNCHANGED <<homeserver, acked, txn, asked, deeds, fails>>

(* Only one who is invited or in may join a private room. *)
JoinChat(h) ==
  LET d == events[run[h].at].room
  IN /\ run[h].pc = "join"
     /\ IF member[d][Puppet] = "invite" THEN Becomes(d, Puppet, "join", Puppet)
                                        ELSE SameMembers
     /\ IF member'[d][Puppet] = "join" THEN Goto(h, "tombstone") /\ UNCHANGED <<acked, txn, asked>>
                                       ELSE Abort(h)
     /\ UNCHANGED <<open, tombstoned, bridge, deeds, fails>>

MayTombstone(d) == d \in open /\ member[d][Puppet] = "join"

TombstoneIsLast(h) ==
  LET d == events[run[h].at].room
  IN /\ run[h].pc = "tombstone"
     /\ \/ /\ MayTombstone(d) /\ tombstoned' = tombstoned \cup {d}
           /\ NextEvent(h) /\ UNCHANGED <<acked, txn, asked>>
        \/ ~ MayTombstone(d) /\ Abort(h) /\ UNCHANGED tombstoned
     /\ UNCHANGED <<member, open, events, bridge, deeds, fails>>

TombstoneRoom(h) ==
  LET d == events[run[h].at].room
  IN /\ run[h].pc = "tombstone"
     /\ \/ /\ MayTombstone(d) /\ tombstoned' = tombstoned \cup {d}
           /\ Goto(h, "invite") /\ UNCHANGED <<acked, txn, asked>>
        \/ ~ MayTombstone(d) /\ Abort(h) /\ UNCHANGED tombstoned
     /\ UNCHANGED <<member, open, events, bridge, deeds, fails>>

InviteSender(h) ==
  /\ run[h].pc = "invite"
  /\ ServeInvite(events[run[h].at].sender)
  /\ NextEvent(h)
  /\ UNCHANGED <<open, tombstoned, acked, txn, asked, bridge, deeds, fails>>

(* A request fails; the last one may have had its effect.  (If another     *)
(* had, it is as if the next failed.)                                      *)
RequestFails(h) ==
  /\ run[h].pc \in {"join", "tombstone", "invite"} /\ Fail
  /\ SameMembers \/ (run[h].pc = "invite" /\ ServeInvite(events[run[h].at].sender))
  /\ Abort(h)
  /\ UNCHANGED <<open, tombstoned, bridge, deeds>>

Answer(h) == Finish(h) /\ UNCHANGED <<homeserver, bridge, deeds, fails>>

Handle(h) ==
  \/ HandleRoomMember(h)
  \/ JoinChat(h) \/ TombstoneRoom(h) \/ InviteSender(h) \/ RequestFails(h)
  \/ Answer(h)

-----------------------------------------------------------------------------
Restart ==
  /\ Fail
  /\ ForgetRuns
  /\ cached' = "unknown" /\ call' = Idle /\ outrun' = FALSE
  /\ UNCHANGED <<homeserver, deeds>>

UserActs ==
  \/ \E d \in Chats, u \in People : MakeChat(d, u) \/ SendAway(d, u) \/ InviteAgain(d, u)
  \/ \E d \in Chats : ChangePower(d)
  \/ \E u \in People : Accept(u) \/ Leave(u)

Next ==
  \/ UserActs \/ SendDirect \/ Send
  \/ Push \/ GiveUp \/ (\E h \in Handlers : Handle(h))
  \/ Restart

Spec == Init /\ [][Next]_vars

(* Requests are answered and the homeserver keeps pushing. *)
FairSpec ==
  Spec /\ WF_vars(Push) /\ (\A h \in Handlers : WF_vars(Handle(h))) /\ WF_vars(Send)

-----------------------------------------------------------------------------
(* An invitation into a direct chat that is acknowledged was served whole: *)
(* the chat points to the contact's room and its maker was invited there,  *)
(* whichever request failed and however often the event was handled.       *)
(* Not so with dev_soft_fail.                                              *)
InvitationServed ==
  \A k \in 1 .. acked :
    IsDirect(events[k]) =>
      events[k].room \in tombstoned /\ member[Home][events[k].sender] # "absent"

(* A direct message is posted where the identity user is or is invited,    *)
(* also if it was the cache that said so, unless the event of their having *)
(* left is not acknowledged yet, or was handled after the call had looked, *)
(* or the cache was written last by an answer older than it, or by a given *)
(* up request that came to an earlier event after it.                      *)
MessageFindsUser ==
  call.pc = "send" =>
    \/ member[Home][identity_user_id] \in {"invite", "join"}
    \/ outrun \/ call.old
    \/ \E k \in acked + 1 .. Len(events) : IsIdentity(events[k]) /\ events[k].is = "leave"

(* The puppet was sent away or cannot tombstone the chat: joining or       *)
(* tombstoning it is refused.                                              *)
Hopeless(d) == d \notin open \/ member[d][Puppet] = "leave"

Stuck(k) ==
  /\ acked < k /\ IsDirect(events[k]) /\ Hopeless(events[k].room)
  /\ asked # None =>
       run[asked].at < k \/ (run[asked].at = k /\ run[asked].pc # "invite")

(* An invitation that is taken back, or whose chat gives the puppet no     *)
(* power, before it was served is stuck: the handler raises whenever the   *)
(* event is pushed, so neither it nor anything behind it in the            *)
(* homeserver's queue is acknowledged.  Only users can undo that, by       *)
(* inviting the puppet again or giving it power; nothing the bridge does,  *)
(* no restart and no request that was given up can.                        *)
OnlyUsersUnblock ==
  [][~ dev_soft_fail => \A k \in 1 .. Len(events) :
       Stuck(k) => Stuck(k)' \/ (deeds' > deeds /\ ~ Hopeless(events[k].room)')]_vars

(* Nothing else holds the queue up: it is emptied again and again. *)
EventsFlow ==
  []<>(acked = Len(events)) \/ <>[](\E k \in 1 .. Len(events) : Stuck(k))

(* A comment in handle_room_member says that the app user is added too for *)
(* management.  Then it would be in or invited to the chat or the          *)
(* contact's room once the invitation is acknowledged.                     *)
AppUserManages ==
  \A k \in 1 .. acked :
    IsDirect(events[k]) =>
      \E r \in {events[k].room, Home} : member[r][app_user_id] # "absent"
=============================================================================
