-------------------------- MODULE DirectRoomsProofs --------------------------
(***************************************************************************)
(* Proofs about DirectRooms: for any number of chats, users, requests,     *)
(* events and failures an acknowledged invitation was served whole, a      *)
(* direct message finds the user or one of the named races happened, and   *)
(* only users can undo what blocks the queue.                              *)
(***************************************************************************)
EXTENDS DirectRooms, TLAPS

Calls == [pc : {"idle", "read", "answer", "invite", "send"},
          seen : Membership \cup {"absent"}, old : BOOLEAN]

Memberships == [Rooms -> [Users -> Membership \cup {"absent"}]]

Runs == [pc : {"idle", "handle", "join", "tombstone", "invite"}, at : Nat \ {0}, end : Nat]

AtWork(h) == run[h].pc # "idle"

(* Everybody an event is about has a membership since, and direct chats    *)
(* are never the contact's own room.                                       *)
EventsLeaveTraces ==
  \A k \in 1 .. Len(events) :
    /\ member[events[k].room][events[k].user] # "absent"
    /\ events[k].direct => events[k].room \in Chats

(* The identity user's membership of the contact's room is what the last   *)
(* event of it says.                                                       *)
MineIsLast ==
  IF member[Home][identity_user_id] = "absent"
    THEN \A k \in 1 .. Len(events) : ~ IsIdentity(events[k])
    ELSE \E j \in 1 .. Len(events) :
           /\ IsIdentity(events[j]) /\ events[j].is = member[Home][identity_user_id]
           /\ \A k \in 1 .. Len(events) : IsIdentity(events[k]) => k <= j

(* A request at work is inside its transaction, and at which request of    *)
(* its own for which kind of event.                                        *)
RunOK(h) ==
  AtWork(h) =>
    /\ run[h].end <= Len(events) /\ run[h].at <= run[h].end + 1
    /\ run[h].pc # "handle" => run[h].at <= run[h].end /\ IsDirect(events[run[h].at])
    /\ run[h].pc = "invite" => events[run[h].at].room \in tombstoned

(* The request that is waited for is of the transaction being pushed. *)
QueueOK ==
  /\ \A h \in Handlers : RunOK(h)
  /\ txn # 0 => acked < txn
  /\ asked # None =>
       AtWork(asked) /\ run[asked].end = txn /\ acked < txn /\ acked < run[asked].at

(* What InvitationServed says of acknowledged invitations holds of all     *)
(* that were got over.                                                     *)
Served(k) ==
  IsDirect(events[k]) =>
    events[k].room \in tombstoned /\ member[Home][events[k].sender] # "absent"

DoneServed == \A k \in 1 .. Len(events) : k <= Done => Served(k)

(* No event of the identity user that was got over is later than m. *)
AsOf(m) ==
  \E j \in 1 .. Len(events) :
    /\ IsIdentity(events[j]) /\ events[j].is = m
    /\ \A k \in 1 .. Len(events) : IsIdentity(events[k]) /\ k <= Done => k <= j

LeaveToCome ==
  \E k \in 1 .. Len(events) : Done < k /\ IsIdentity(events[k]) /\ events[k].is = "leave"

CacheFresh == cached # "unknown" /\ ~ outrun => AsOf(cached)

AnswerFresh ==
  call.pc = "answer" /\ ~ call.old /\ call.seen # "absent" => AsOf(call.seen)

SenderFinds ==
  call.pc = "send" =>
    \/ member[Home][identity_user_id] \in {"invite", "join"}
    \/ outrun \/ call.old
    \/ LeaveToCome

Fresh == CacheFresh /\ AnswerFresh /\ SenderFinds

IInv ==
  /\ TypeOK /\ EventsLeaveTraces /\ MineIsLast /\ QueueOK
  /\ ~ dev_soft_fail => DoneServed /\ Fresh
-----------------------------------------------------------------------------
(* The initial state satisfies the invariant: nothing has happened. *)
LEMMA InitInv == Init => IInv
<1> SUFFICES ASSUME Init PROVE IInv
  OBVIOUS
<1>1. Len(events) = 0 /\ events \in Seq(Event)
  BY DEF Init
<1>2. member \in Memberships /\ member[Home][identity_user_id] = "absent"
  <2>1. Puppet \in Users /\ identity_user_id \in Users /\ Home \in Rooms
    BY DEF Users, People, Rooms
  <2> QED BY <2>1, ConstantsAssumption DEF Init, Memberships, Membership
<1>3. /\ acked = 0 /\ txn = 0 /\ asked = None /\ run \in [Handlers -> Runs]
      /\ \A h \in Handlers : ~ AtWork(h)
  BY DEF Init, DeliveryInit, AtRest, Runs, AtWork
<1>4. TypeOK
  <2>1. 0 \in 0 .. Len(events) /\ deeds \in 0 .. MaxDeeds /\ fails \in 0 .. MaxFails
    BY <1>1, ConstantsAssumption DEF Init
  <2> QED BY <1>1, <1>2, <1>3, <2>1 DEF Init, TypeOK, Idle, Memberships, Runs
<1>5. EventsLeaveTraces /\ MineIsLast /\ QueueOK
  BY <1>1, <1>2, <1>3 DEF EventsLeaveTraces, MineIsLast, QueueOK, RunOK
<1>6. DoneServed /\ Fresh
  BY <1>1 DEF Init, DoneServed, Fresh, CacheFresh, AnswerFresh, SenderFinds, Idle
<1> QED BY <1>4, <1>5, <1>6 DEF IInv

-----------------------------------------------------------------------------
(* The homeserver *)

LEMMA HappensFacts ==
  ASSUME TypeOK, NEW e \in Event, Happens(e)
  PROVE  /\ member' \in Memberships
         /\ member'[e.room][e.user] = e.is
         /\ \A q \in Rooms, v \in Users :
              q # e.room \/ v # e.user => member'[q][v] = member[q][v]
         /\ events' \in Seq(Event) /\ Len(events') = Len(events) + 1
         /\ \A k \in 1 .. Len(events) : events'[k] = events[k]
         /\ events'[Len(events) + 1] = e
<1>1. e.room \in Rooms /\ e.user \in Users /\ e.is \in Membership
  BY DEF Event
<1>2. events' = Append(events, e)
  BY DEF Happens
<1>3. /\ member' = [member EXCEPT ![e.room][e.user] = e.is]
      /\ member \in Memberships /\ events \in Seq(Event)
  BY DEF Happens, TypeOK, Memberships
<1>4. /\ events' \in Seq(Event) /\ Len(events') = Len(events) + 1
      /\ \A k \in 1 .. Len(events) : events'[k] = events[k]
      /\ events'[Len(events) + 1] = e
  BY <1>2, <1>3
<1>5. /\ member' \in Memberships
      /\ member'[e.room][e.user] = e.is
      /\ \A q \in Rooms, v \in Users :
           q # e.room \/ v # e.user => member'[q][v] = member[q][v]
  BY <1>1, <1>3 DEF Memberships
<1> QED BY <1>4, <1>5

(* What may happen there: one membership at most changes, and what points  *)
(* to the contact's room goes on doing so.                                 *)
HomeStep ==
  /\ SameMembers \/ \E e \in Event : Happens(e) /\ (e.direct => e.room \in Chats)
  /\ open' \subseteq Chats
  /\ tombstoned \subseteq tombstoned' /\ tombstoned' \subseteq Chats

LEMMA BecomesFacts ==
  ASSUME TypeOK, NEW r \in Rooms, NEW u \in Users, NEW m \in Membership, NEW by \in Users,
         Becomes(r, u, m, by)
  PROVE  /\ \E e \in Event : Happens(e) /\ (e.direct => e.room \in Chats)
         /\ member'[r][u] = m
         /\ \A q \in Rooms, v \in Users : q # r \/ v # u => member'[q][v] = member[q][v]
<1> DEFINE e == [room |-> r, user |-> u, is |-> m, sender |-> by, direct |-> FALSE]
<1>1. e \in Event /\ e.room = r /\ e.user = u /\ e.is = m /\ e.direct = FALSE
  BY DEF Event
<1>2. Happens(e)
  BY DEF Becomes
<1> HIDE DEF e
<1> QED BY <1>1, <1>2, HappensFacts

LEMMA HomeFacts ==
  ASSUME TypeOK, EventsLeaveTraces, MineIsLast, HomeStep
  PROVE  /\ member' \in Memberships
         /\ events' \in Seq(Event)
         /\ Len(events) \in Nat /\ Len(events') \in Nat /\ Len(events) <= Len(events')
         /\ \A k \in 1 .. Len(events) : events'[k] = events[k]
         /\ EventsLeaveTraces' /\ MineIsLast'
         /\ \A q \in Rooms, v \in Users : member[q][v] # "absent" => member'[q][v] # "absent"
         /\ member[Home][identity_user_id] \in {"invite", "join"} =>
              \/ member'[Home][identity_user_id] \in {"invite", "join"}
              \/ /\ Len(events') = Len(events) + 1
                 /\ IsIdentity(events'[Len(events')])
                 /\ events'[Len(events')].is = "leave"
<1>t. /\ member \in Memberships
      /\ events \in Seq(Event) /\ Len(events) \in Nat
      /\ \A k \in 1 .. Len(events) : events[k].room \in Rooms /\ events[k].user \in Users
      /\ Home \in Rooms /\ identity_user_id \in Users /\ "absent" \notin Membership
      /\ \A q \in Rooms, v \in Users : member[q][v] \in Membership \cup {"absent"}
  <2>1. member \in Memberships /\ events \in Seq(Event) /\ Len(events) \in Nat
    BY DEF TypeOK, Memberships
  <2>2. \A k \in 1 .. Len(events) : events[k] \in Event
    BY <2>1
  <2>3. \A k \in 1 .. Len(events) : events[k].room \in Rooms /\ events[k].user \in Users
    BY <2>2 DEF Event
  <2>4. \A q \in Rooms, v \in Users : member[q][v] \in Membership \cup {"absent"}
    BY <2>1 DEF Memberships
  <2>5. Home \in Rooms /\ identity_user_id \in Users /\ "absent" \notin Membership
    BY DEF Rooms, Users, People, Membership
  <2> QED BY <2>1, <2>3, <2>4, <2>5
<1>1. CASE SameMembers
  <2>1. member' = member /\ events' = events
    BY <1>1 DEF SameMembers
  <2> QED BY <1>t, <2>1 DEF EventsLeaveTraces, MineIsLast, IsIdentity
<1>2. CASE ~ SameMembers
  <2>1. PICK e \in Event : Happens(e) /\ (e.direct => e.room \in Chats)
    BY <1>2 DEF HomeStep
  <2>2. /\ member' \in Memberships
        /\ member'[e.room][e.user] = e.is
        /\ \A q \in Rooms, v \in Users :
             q # e.room \/ v # e.user => member'[q][v] = member[q][v]
        /\ events' \in Seq(Event) /\ Len(events') = Len(events) + 1
        /\ \A k \in 1 .. Len(events) : events'[k] = events[k]
        /\ events'[Len(events) + 1] = e
    BY <2>1, HappensFacts
  <2>e. e.room \in Rooms /\ e.user \in Users /\ e.is \in Membership
    BY DEF Event
  <2>3. ASSUME NEW q \in Rooms, NEW v \in Users, member[q][v] # "absent"
        PROVE  member'[q][v] # "absent"
    BY <1>t, <2>2, <2>3, <2>e
  <2>4. EventsLeaveTraces'
    <3> SUFFICES ASSUME NEW k \in 1 .. Len(events')
                 PROVE  /\ member'[events'[k].room][events'[k].user] # "absent"
                        /\ events'[k].direct => events'[k].room \in Chats
      BY DEF EventsLeaveTraces
    <3>1. CASE k = Len(events) + 1
      BY <1>t, <2>1, <2>2, <2>e, <3>1
    <3>2. CASE k # Len(events) + 1
      <4>1. k \in 1 .. Len(events) /\ events'[k] = events[k]
        BY <1>t, <2>2, <3>2
      <4>2. /\ member[events[k].room][events[k].user] # "absent"
            /\ events[k].direct => events[k].room \in Chats
        BY <4>1 DEF EventsLeaveTraces
      <4> QED BY <1>t, <2>3, <4>1, <4>2
    <3> QED BY <3>1, <3>2
  <2>5. MineIsLast'
    <3>1. CASE IsIdentity(e)
      <4>1. /\ member'[Home][identity_user_id] = e.is /\ e.is # "absent"
            /\ Len(events) + 1 \in 1 .. Len(events')
            /\ \A k \in 1 .. Len(events') : k <= Len(events) + 1
        BY <1>t, <2>2, <2>e, <3>1 DEF IsIdentity
      <4> QED BY <2>2, <3>1, <4>1 DEF MineIsLast, IsIdentity
    <3>2. CASE ~ IsIdentity(e)
      <4>1. member'[Home][identity_user_id] = member[Home][identity_user_id]
        BY <1>t, <2>2, <3>2 DEF IsIdentity
      <4>2. \A k \in 1 .. Len(events') :
              IsIdentity(events'[k]) <=> k \in 1 .. Len(events) /\ IsIdentity(events[k])
        BY <1>t, <2>2, <3>2
      <4>3. \A k \in 1 .. Len(events) : k \in 1 .. Len(events')
        BY <1>t, <2>2
      <4> QED BY <2>2, <4>1, <4>2, <4>3 DEF MineIsLast, IsIdentity
    <3> QED BY <3>1, <3>2
  <2>6. member[Home][identity_user_id] \in {"invite", "join"} =>
          \/ member'[Home][identity_user_id] \in {"invite", "join"}
          \/ IsIdentity(e) /\ e.is = "leave"
    BY <1>t, <2>2, <2>e DEF Membership, IsIdentity
  <2> QED BY <1>t, <2>2, <2>3, <2>4, <2>5, <2>6
<1> QED BY <1>1, <1>2

(* The puppet's invitation into the contact's room is served. *)
LEMMA ServeFacts ==
  ASSUME TypeOK, NEW u \in Users, ServeInvite(u), UNCHANGED <<open, tombstoned>>
  PROVE  /\ HomeStep /\ member'[Home][u] \in {"invite", "join"}
         /\ \A d \in Chats, v \in Users : member'[d][v] = member[d][v]
<1>t. /\ Home \in Rooms /\ Puppet \in Users /\ open \subseteq Chats /\ tombstoned \subseteq Chats
      /\ Home \notin Chats /\ Chats \subseteq Rooms
  BY ConstantsAssumption DEF TypeOK, Rooms, Users
<1>1. CASE member[Home][u] \in {"invite", "join"}
  BY <1>t, <1>1 DEF ServeInvite, SameMembers, HomeStep
<1>2. CASE member[Home][u] \notin {"invite", "join"}
  <2>1. Becomes(Home, u, "invite", Puppet) /\ "invite" \in Membership
    BY <1>2 DEF ServeInvite, Membership
  <2>2. /\ \E e \in Event : Happens(e) /\ (e.direct => e.room \in Chats)
        /\ member'[Home][u] = "invite"
        /\ \A q \in Rooms, v \in Users : q # Home \/ v # u => member'[q][v] = member[q][v]
    BY <1>t, <2>1, BecomesFacts
  <2> QED BY <1>t, <2>2 DEF HomeStep
<1> QED BY <1>1, <1>2

-----------------------------------------------------------------------------
(* What a step leaves as it was *)

LEMMA DoneFacts ==
  ASSUME TypeOK, QueueOK
  PROVE  Done \in 0 .. Len(events) /\ acked <= Done /\ Len(events) \in Nat
<1>1. CASE asked = None
  BY <1>1 DEF TypeOK, Done
<1>2. CASE asked # None
  <2>1. asked \in Handlers /\ run[asked] \in Runs /\ RunOK(asked)
    BY <1>2 DEF TypeOK, QueueOK, Runs
  <2> QED BY <1>2, <2>1 DEF TypeOK, QueueOK, RunOK, Done, Runs
<1> QED BY <1>1, <1>2

(* As long as no event of the user is got over, what is fresh stays so. *)
LEMMA FreshKeeps ==
  ASSUME IInv, HomeStep, Done' \in 0 .. Len(events),
         \A k \in 1 .. Len(events) : k <= Done' => k <= Done \/ ~ IsIdentity(events[k])
  PROVE  /\ \A m :
              (\E j \in 1 .. Len(events) :
                 /\ IsIdentity(events[j]) /\ events[j].is = m
                 /\ \A k \in 1 .. Len(events) : IsIdentity(events[k]) /\ k <= Done => k <= j)
              => \E j \in 1 .. Len(events') :
                   /\ IsIdentity(events'[j]) /\ events'[j].is = m
                   /\ \A k \in 1 .. Len(events') :
                        IsIdentity(events'[k]) /\ k <= Done' => k <= j
         /\ member[Home][identity_user_id] \in {"invite", "join"} \/ LeaveToCome
            => member'[Home][identity_user_id] \in {"invite", "join"} \/ LeaveToCome'
<1>1. /\ Len(events) \in Nat /\ Len(events') \in Nat /\ Len(events) <= Len(events')
      /\ \A k \in 1 .. Len(events) : events'[k] = events[k]
      /\ member[Home][identity_user_id] \in {"invite", "join"} =>
              \/ member'[Home][identity_user_id] \in {"invite", "join"}
              \/ /\ Len(events') = Len(events) + 1
                 /\ IsIdentity(events'[Len(events')])
                 /\ events'[Len(events')].is = "leave"
  BY HomeFacts DEF IInv
<1>2. Done \in 0 .. Len(events)
  BY DoneFacts DEF IInv
<1>3. ASSUME NEW m, NEW j \in 1 .. Len(events), IsIdentity(events[j]), events[j].is = m,
             \A k \in 1 .. Len(events) : IsIdentity(events[k]) /\ k <= Done => k <= j
      PROVE  /\ j \in 1 .. Len(events') /\ events'[j] = events[j]
             /\ \A k \in 1 .. Len(events') : IsIdentity(events'[k]) /\ k <= Done' => k <= j
  <2> SUFFICES ASSUME NEW k \in 1 .. Len(events'), k <= Done', IsIdentity(events'[k])
               PROVE  k <= j
    BY <1>1
  <2>1. k \in 1 .. Len(events)
    BY <1>1
  <2> QED BY <1>1, <1>3, <2>1
<1>4. ASSUME LeaveToCome PROVE LeaveToCome'
  <2>1. PICK k \in 1 .. Len(events) :
          Done < k /\ IsIdentity(events[k]) /\ events[k].is = "leave"
    BY <1>4 DEF LeaveToCome
  <2>2. k \in 1 .. Len(events') /\ events'[k] = events[k] /\ Done' < k
    BY <1>1, <1>2, <2>1
  <2> QED BY <2>1, <2>2 DEF LeaveToCome, IsIdentity
<1>5. ASSUME member[Home][identity_user_id] \in {"invite", "join"},
             member'[Home][identity_user_id] \notin {"invite", "join"}
      PROVE  LeaveToCome'
  <2>1. Len(events') \in 1 .. Len(events') /\ Done' < Len(events')
    BY <1>1, <1>5
  <2> QED BY <1>1, <1>5, <2>1 DEF LeaveToCome, IsIdentity
<1> QED BY <1>3, <1>4, <1>5

(* What was served stays served. *)
LEMMA ServedKeeps ==
  ASSUME IInv, HomeStep, NEW k \in 1 .. Len(events), Served(k)
  PROVE  Served(k)'
<1>1. events'[k] = events[k] /\ tombstoned \subseteq tombstoned'
  BY HomeFacts DEF IInv, HomeStep
<1>2. events[k].sender \in Users /\ Home \in Rooms
  <2>1. events[k] \in Event
    BY DEF IInv, TypeOK
  <2> QED BY <2>1 DEF Event, Rooms
<1>3. \A q \in Rooms, v \in Users : member[q][v] # "absent" => member'[q][v] # "absent"
  BY HomeFacts DEF IInv
<1> QED BY <1>1, <1>2, <1>3 DEF Served, IsDirect

(* A request that does not move stays inside its transaction. *)
LEMMA RunKeeps ==
  ASSUME IInv, HomeStep, NEW h \in Handlers, run'[h] = run[h]
  PROVE  RunOK(h)' /\ AtWork(h)' = AtWork(h)
<1>1. /\ Len(events) \in Nat /\ Len(events') \in Nat /\ Len(events) <= Len(events')
      /\ \A k \in 1 .. Len(events) : events'[k] = events[k]
  BY HomeFacts DEF IInv
<1>2. run[h] \in Runs /\ RunOK(h) /\ tombstoned \subseteq tombstoned'
  BY DEF IInv, TypeOK, QueueOK, Runs, HomeStep
<1>3. CASE ~ AtWork(h)
  BY <1>3 DEF RunOK, AtWork
<1>4. CASE AtWork(h)
  <2>1. /\ run[h].end <= Len(events') /\ run[h].at <= run[h].end + 1
        /\ run[h].pc # "handle" => run[h].at <= run[h].end /\ IsDirect(events[run[h].at])
        /\ run[h].pc = "invite" => events[run[h].at].room \in tombstoned
    BY <1>1, <1>2, <1>4 DEF RunOK, Runs
  <2>2. run[h].pc # "handle" => events'[run[h].at] = events[run[h].at]
    BY <1>1, <1>2, <1>4, <2>1 DEF RunOK, Runs
  <2> QED BY <1>2, <1>4, <2>1, <2>2 DEF RunOK, AtWork, IsDirect
<1> QED BY <1>3, <1>4

LEMMA QueueKeeps ==
  ASSUME IInv, HomeStep, UNCHANGED delivery
  PROVE  QueueOK' /\ Done' = Done /\ Done' \in 0 .. Len(events)
         /\ acked' \in 0 .. Len(events) /\ txn' \in 0 .. Len(events)
         /\ asked' \in Handlers \cup {None} /\ run' \in [Handlers -> Runs]
<1>1. UNCHANGED <<acked, txn, asked, run>>
  BY DEF delivery
<1>2. Done' = Done /\ Done \in 0 .. Len(events)
  BY <1>1, DoneFacts DEF IInv, Done
<1>3. /\ acked \in 0 .. Len(events) /\ txn \in 0 .. Len(events) /\ QueueOK
      /\ asked \in Handlers \cup {None} /\ run \in [Handlers -> Runs]
  BY DEF IInv, TypeOK, Runs
<1>4. \A h \in Handlers : RunOK(h)'
  BY <1>1, RunKeeps
<1>5. asked # None => AtWork(asked)'
  BY <1>1, <1>3 DEF QueueOK, AtWork
<1>6. QueueOK'
  BY <1>1, <1>3, <1>4, <1>5 DEF QueueOK
<1> QED BY <1>1, <1>2, <1>3, <1>6

(* What there is to show of a step: its types, its transactions and,       *)
(* unless dev_soft_fail is set, who was served and what is fresh.          *)
LEMMA StepInv ==
  ASSUME IInv, HomeStep, QueueOK',
         acked' \in 0 .. Len(events), txn' \in 0 .. Len(events),
         asked' \in Handlers \cup {None}, run' \in [Handlers -> Runs],
         cached' \in Membership \cup {"unknown"}, call' \in Calls, outrun' \in BOOLEAN,
         deeds' \in 0 .. MaxDeeds, fails' \in 0 .. MaxFails,
         ~ dev_soft_fail => DoneServed' /\ Fresh'
  PROVE  IInv'
<1>1. /\ member' \in Memberships /\ events' \in Seq(Event)
      /\ Len(events) \in Nat /\ Len(events') \in Nat /\ Len(events) <= Len(events')
      /\ EventsLeaveTraces' /\ MineIsLast'
  BY HomeFacts DEF IInv
<1>2. acked' \in 0 .. Len(events') /\ txn' \in 0 .. Len(events')
  BY <1>1
<1>3. open' \subseteq Chats /\ tombstoned' \subseteq Chats
  BY DEF HomeStep
<1>4. TypeOK'
  BY <1>1, <1>2, <1>3 DEF TypeOK, Memberships, Calls, Runs
<1> QED BY <1>1, <1>4 DEF IInv

(* A step of send_direct serves nobody. *)
LEMMA SendStep ==
  ASSUME IInv, HomeStep, UNCHANGED delivery,
         cached' \in Membership \cup {"unknown"}, call' \in Calls, outrun' \in BOOLEAN,
         deeds' = deeds, fails' \in 0 .. MaxFails, ~ dev_soft_fail => Fresh'
  PROVE  IInv'
<1>1. /\ QueueOK' /\ Done' = Done /\ acked' \in 0 .. Len(events) /\ txn' \in 0 .. Len(events)
      /\ asked' \in Handlers \cup {None} /\ run' \in [Handlers -> Runs]
      /\ deeds' \in 0 .. MaxDeeds /\ Done \in 0 .. Len(events) /\ Len(events) \in Nat
  BY QueueKeeps, DoneFacts DEF IInv, TypeOK
<1>2. ASSUME ~ dev_soft_fail PROVE DoneServed'
  <2> SUFFICES ASSUME NEW k \in 1 .. Len(events'), k <= Done' PROVE Served(k)'
    BY DEF DoneServed
  <2>1. k \in 1 .. Len(events) /\ k <= Done /\ Len(events') \in Nat
    BY <1>1, HomeFacts DEF IInv
  <2> QED BY <1>2, <2>1, ServedKeeps DEF IInv, DoneServed
<1> QED BY <1>1, <1>2, StepInv

(* A step of others gets over nothing about the identity user, and over no *)
(* direct chat that was not served.                                        *)
LEMMA OtherStep ==
  ASSUME IInv, HomeStep, UNCHANGED bridge, QueueOK',
         acked' \in 0 .. Len(events), txn' \in 0 .. Len(events),
         asked' \in Handlers \cup {None}, run' \in [Handlers -> Runs],
         deeds' \in 0 .. MaxDeeds, fails' \in 0 .. MaxFails,
         ~ dev_soft_fail =>
           /\ Done' \in 0 .. Len(events)
           /\ \A k \in 1 .. Len(events) :
                k <= Done' => k <= Done \/ (Served(k)' /\ ~ IsIdentity(events[k]))
  PROVE  IInv'
<1>1. /\ cached' = cached /\ call' = call /\ outrun' = outrun
      /\ cached' \in Membership \cup {"unknown"} /\ call' \in Calls /\ outrun' \in BOOLEAN
      /\ Len(events) \in Nat
  BY DEF bridge, IInv, TypeOK, Calls
<1>2. ASSUME ~ dev_soft_fail PROVE DoneServed' /\ Fresh'
  <2>1. DoneServed /\ CacheFresh /\ AnswerFresh /\ SenderFinds
    BY <1>2 DEF IInv, Fresh
  <2>2. DoneServed'
    <3> SUFFICES ASSUME NEW k \in 1 .. Len(events'), k <= Done' PROVE Served(k)'
      BY DEF DoneServed
    <3>1. k \in 1 .. Len(events)
      BY <1>1, <1>2, HomeFacts DEF IInv
    <3>2. CASE k <= Done
      BY <2>1, <3>1, <3>2, ServedKeeps DEF DoneServed
    <3> QED BY <1>2, <3>1, <3>2
  <2>3. Done' \in 0 .. Len(events)
        /\ \A k \in 1 .. Len(events) : k <= Done' => k <= Done \/ ~ IsIdentity(events[k])
    BY <1>2
  <2>4. CacheFresh' /\ AnswerFresh' /\ SenderFinds'
    BY <1>1, <2>1, <2>3, FreshKeeps
       DEF CacheFresh, AnswerFresh, SenderFinds, AsOf, IsIdentity
  <2> QED BY <2>2, <2>4 DEF Fresh
<1> QED BY <1>1, <1>2, StepInv

-----------------------------------------------------------------------------
(* send_direct *)

(* A membership the cache was told last is that of now, or the event of    *)
(* the user's leaving is to come.                                          *)
LEMMA InsideLately ==
  ASSUME IInv, NEW m \in {"invite", "join"}, AsOf(m)
  PROVE  member[Home][identity_user_id] \in {"invite", "join"} \/ LeaveToCome
<1>1. PICK j \in 1 .. Len(events) :
        /\ IsIdentity(events[j]) /\ events[j].is = m
        /\ \A k \in 1 .. Len(events) : IsIdentity(events[k]) /\ k <= Done => k <= j
  BY DEF AsOf
<1>2. member[Home][identity_user_id] # "absent"
  BY <1>1 DEF IInv, MineIsLast
<1>3. PICK l \in 1 .. Len(events) :
        /\ IsIdentity(events[l]) /\ events[l].is = member[Home][identity_user_id]
        /\ \A k \in 1 .. Len(events) : IsIdentity(events[k]) => k <= l
  BY <1>2 DEF IInv, MineIsLast
<1>4. events[l].is \in Membership
  <2>1. events[l] \in Event
    BY DEF IInv, TypeOK
  <2> QED BY <2>1 DEF Event
<1>5. Done \in Nat /\ Len(events) \in Nat
  BY DoneFacts DEF IInv
<1>6. CASE events[l].is = "leave"
  <2>1. j # l /\ j <= l
    BY <1>1, <1>3, <1>6
  <2>2. Done < l
    BY <1>1, <1>3, <1>5, <2>1
  <2> QED BY <1>3, <1>6, <2>2 DEF LeaveToCome
<1>7. CASE events[l].is # "leave"
  BY <1>3, <1>4, <1>7 DEF Membership
<1> QED BY <1>6, <1>7

(* send_direct then sends, or invites first. *)
LEMMA DecideFacts ==
  ASSUME NEW m \in Membership \cup {"absent"}, Decide(m)
  PROVE  /\ call' \in Calls /\ call'.pc \in {"invite", "send"}
         /\ call'.pc = "send" => m \in {"invite", "join"}
BY DEF Decide, NeedsInvite, Idle, Calls

LEMMA SendSteps ==
  ASSUME IInv, SendDirect \/ Send
  PROVE  IInv' /\ HomeStep
<1>t. /\ TypeOK /\ call \in Calls /\ outrun \in BOOLEAN
      /\ cached \in Membership \cup {"unknown"} /\ fails \in 0 .. MaxFails
      /\ member[Home][identity_user_id] \in Membership \cup {"absent"}
      /\ open \subseteq Chats /\ tombstoned \subseteq Chats
      /\ Home \in Rooms /\ identity_user_id \in Users
  <2>1. Home \in Rooms /\ identity_user_id \in Users
    BY DEF Rooms, Users, People
  <2> QED BY <2>1 DEF IInv, TypeOK, Calls
<1>s. SameMembers /\ UNCHANGED <<open, tombstoned>> => HomeStep
  BY <1>t DEF HomeStep
<1>k. ASSUME HomeStep, UNCHANGED delivery
      PROVE  /\ Done' \in 0 .. Len(events)
             /\ \A k \in 1 .. Len(events) : k <= Done' => k <= Done \/ ~ IsIdentity(events[k])
  BY <1>k, QueueKeeps
<1>c. ASSUME HomeStep, UNCHANGED <<delivery, cached, outrun>>, ~ dev_soft_fail
      PROVE  CacheFresh'
  BY <1>c, <1>k, FreshKeeps DEF IInv, Fresh, CacheFresh, AsOf, IsIdentity
<1>1. CASE SendDirect
  <2>1. /\ HomeStep /\ UNCHANGED <<homeserver, delivery, cached, outrun, deeds, fails>>
        /\ cached = "unknown" => call' = [Idle EXCEPT !.pc = "read"]
        /\ cached # "unknown" => Decide(cached)
    BY <1>1, <1>s DEF SendDirect, homeserver, SameMembers
  <2>2. CASE cached = "unknown"
    <3>1. call' \in Calls /\ call'.pc = "read"
      BY <2>1, <2>2 DEF Idle, Calls
    <3>2. ~ dev_soft_fail => Fresh'
      BY <1>c, <2>1, <3>1 DEF Fresh, AnswerFresh, SenderFinds
    <3> QED BY <1>t, <2>1, <3>1, <3>2, SendStep
  <2>3. CASE cached # "unknown"
    <3>1. PICK m \in Membership \cup {"absent"} : m = cached /\ Decide(m)
      BY <1>t, <2>1, <2>3
    <3>2. /\ call' \in Calls /\ call'.pc \in {"invite", "send"}
          /\ call'.pc = "send" => m \in {"invite", "join"}
      BY <3>1, DecideFacts
    <3>3. ASSUME ~ dev_soft_fail, call'.pc = "send", ~ outrun
          PROVE  member'[Home][identity_user_id] \in {"invite", "join"} \/ LeaveToCome'
      <4>1. AsOf(m)
        BY <2>3, <3>1, <3>3 DEF IInv, Fresh, CacheFresh
      <4> QED BY <1>k, <2>1, <3>2, <3>3, <4>1, InsideLately, FreshKeeps
    <3>4. ~ dev_soft_fail => Fresh'
      BY <1>c, <2>1, <3>2, <3>3 DEF Fresh, AnswerFresh, SenderFinds
    <3> QED BY <1>t, <2>1, <3>2, <3>4, SendStep
  <2> QED BY <2>2, <2>3
<1>2. CASE ReadMember
  <2>1. /\ HomeStep /\ UNCHANGED <<homeserver, delivery, cached, outrun, deeds, fails>>
    BY <1>2, <1>s DEF ReadMember, homeserver, SameMembers
  <2>2. call' \in Calls /\ call'.pc = "answer" /\ call'.seen = member[Home][identity_user_id]
    BY <1>2, <1>t DEF ReadMember, Calls
  <2>3. AnswerFresh'
    <3> SUFFICES ASSUME member[Home][identity_user_id] # "absent"
                 PROVE  \E j \in 1 .. Len(events) :
                          /\ IsIdentity(events[j]) /\ events[j].is = member[Home][identity_user_id]
                          /\ \A k \in 1 .. Len(events) : IsIdentity(events[k]) /\ k <= Done => k <= j
      <4>1. events' = events /\ Done' = Done
        BY <2>1, QueueKeeps DEF homeserver
      <4> QED BY <2>2, <4>1 DEF AnswerFresh, AsOf, IsIdentity
    <3> QED BY DEF IInv, MineIsLast
  <2>4. ~ dev_soft_fail => Fresh'
    BY <1>c, <2>1, <2>2, <2>3 DEF Fresh, SenderFinds
  <2> QED BY <1>t, <2>1, <2>2, <2>4, SendStep
<1>3. CASE GotMember
  <2>1. /\ HomeStep /\ UNCHANGED <<homeserver, delivery, deeds, fails>>
        /\ call.pc = "answer" /\ CacheAnswer
    BY <1>3, <1>s DEF GotMember, homeserver, SameMembers
  <2>2. PICK m \in Membership \cup {"absent"} : m = call.seen /\ Decide(m)
    BY <1>3, <1>t DEF GotMember, Calls
  <2>3. /\ call' \in Calls /\ call'.pc \in {"invite", "send"}
        /\ call'.pc = "send" => m \in {"invite", "join"}
    BY <2>2, DecideFacts
  <2>4. /\ m = "absent" => cached' = cached /\ outrun' = outrun
        /\ m # "absent" => cached' = m /\ outrun' = (outrun \/ call.old)
    BY <2>1, <2>2 DEF CacheAnswer
  <2>5. outrun' \in BOOLEAN /\ cached' \in Membership \cup {"unknown"}
    BY <1>t, <2>2, <2>4 DEF Calls
  <2>6. events' = events /\ Done' = Done /\ member' = member
    BY <2>1, QueueKeeps DEF homeserver
  <2>7. ASSUME ~ dev_soft_fail, m # "absent", ~ outrun' PROVE AsOf(m)
    <3>1. ~ call.old
      BY <1>t, <2>4, <2>7 DEF Calls
    <3> QED BY <2>1, <2>2, <2>7, <3>1 DEF IInv, Fresh, AnswerFresh
  <2>8. ASSUME ~ dev_soft_fail PROVE CacheFresh'
    <3>1. CASE m = "absent"
      BY <2>4, <2>6, <2>8, <3>1 DEF IInv, Fresh, CacheFresh, AsOf, IsIdentity
    <3>2. CASE m # "absent"
      BY <2>4, <2>6, <2>7, <2>8, <3>2 DEF CacheFresh, AsOf, IsIdentity
    <3> QED BY <3>1, <3>2
  <2>9. ASSUME ~ dev_soft_fail, call'.pc = "send", ~ outrun'
        PROVE  member'[Home][identity_user_id] \in {"invite", "join"} \/ LeaveToCome'
    <3>1. AsOf(m) /\ m \in {"invite", "join"}
      BY <2>3, <2>7, <2>9
    <3> QED BY <1>k, <2>1, <3>1, InsideLately, FreshKeeps
  <2>10. ~ dev_soft_fail => Fresh'
    BY <2>3, <2>8, <2>9 DEF Fresh, AnswerFresh, SenderFinds
  <2> QED BY <1>t, <2>1, <2>3, <2>5, <2>10, SendStep
<1>4. CASE InviteIdentity
  <2>1. /\ ServeInvite(identity_user_id) /\ call' = [Idle EXCEPT !.pc = "send"]
        /\ UNCHANGED <<open, tombstoned, delivery, cached, outrun, deeds, fails>>
    BY <1>4 DEF InviteIdentity
  <2>2. HomeStep /\ member'[Home][identity_user_id] \in {"invite", "join"}
    BY <1>t, <2>1, ServeFacts
  <2>3. call' \in Calls /\ call'.pc = "send"
    BY <2>1 DEF Calls, Idle
  <2>4. ~ dev_soft_fail => Fresh'
    BY <1>c, <2>1, <2>2, <2>3 DEF Fresh, AnswerFresh, SenderFinds
  <2> QED BY <1>t, <2>1, <2>2, <2>3, <2>4, SendStep
<1>5. CASE SendMessage \/ SendFails
  <2>1. /\ HomeStep /\ UNCHANGED <<homeserver, delivery, cached, outrun, deeds>>
        /\ call' = Idle /\ fails' \in 0 .. MaxFails
    BY <1>5, <1>s, <1>t, ConstantsAssumption
       DEF SendMessage, SendFails, Fail, homeserver, SameMembers
  <2>2. call' \in Calls /\ call'.pc = "idle"
    BY <2>1 DEF Calls, Idle
  <2>3. ~ dev_soft_fail => Fresh'
    BY <1>c, <2>1, <2>2 DEF Fresh, AnswerFresh, SenderFinds
  <2> QED BY <1>t, <2>1, <2>2, <2>3, SendStep
<1> QED BY <1>1, <1>2, <1>3, <1>4, <1>5 DEF Send

-----------------------------------------------------------------------------
(* The users of the homeserver *)

LEMMA UserSteps ==
  ASSUME IInv, UserActs
  PROVE  IInv' /\ HomeStep /\ UNCHANGED <<delivery, bridge, fails>> /\ deeds' > deeds
<1>t. /\ TypeOK /\ open \subseteq Chats /\ tombstoned \subseteq Chats
      /\ deeds \in 0 .. MaxDeeds /\ fails \in 0 .. MaxFails
      /\ Home \in Rooms /\ Chats \subseteq Rooms /\ Puppet \in Users /\ People \subseteq Users
      /\ Membership = {"invite", "join", "leave"}
  BY DEF IInv, TypeOK, Rooms, Users, People, Membership
<1>1. ASSUME HomeStep, Do, UNCHANGED <<delivery, bridge, fails>>
      PROVE  IInv' /\ deeds' > deeds
  <2>1. deeds' \in 0 .. MaxDeeds /\ deeds' > deeds
    BY <1>1, <1>t, ConstantsAssumption DEF Do
  <2>2. /\ QueueOK' /\ Done' = Done /\ Done' \in 0 .. Len(events)
        /\ acked' \in 0 .. Len(events) /\ txn' \in 0 .. Len(events)
        /\ asked' \in Handlers \cup {None} /\ run' \in [Handlers -> Runs]
    BY <1>1, QueueKeeps
  <2> QED BY <1>1, <1>t, <2>1, <2>2, OtherStep
<1>2. ASSUME NEW d \in Chats, NEW u \in People, InvitePuppet(d, u),
             open' \subseteq Chats, tombstoned' = tombstoned
      PROVE  HomeStep
  <2>1. PICK direct \in BOOLEAN :
          Happens([room |-> d, user |-> Puppet, is |-> "invite", sender |-> u,
                   direct |-> direct])
    BY <1>2 DEF InvitePuppet
  <2> DEFINE e == [room |-> d, user |-> Puppet, is |-> "invite", sender |-> u,
                   direct |-> direct]
  <2>2. e \in Event /\ e.room \in Chats /\ Happens(e)
    BY <1>t, <2>1 DEF Event
  <2> HIDE DEF e
  <2> QED BY <1>2, <1>t, <2>2 DEF HomeStep
<1>3. ASSUME NEW d \in Chats, NEW u \in People,
             MakeChat(d, u) \/ SendAway(d, u) \/ InviteAgain(d, u)
      PROVE  HomeStep /\ Do /\ UNCHANGED <<delivery, bridge, fails>>
  <2>1. CASE MakeChat(d, u)
    BY <1>2, <1>t, <2>1 DEF MakeChat
  <2>2. CASE SendAway(d, u)
    <3>1. Becomes(d, Puppet, "leave", u) /\ "leave" \in Membership /\ d \in Rooms /\ u \in Users
      BY <1>t, <2>2 DEF SendAway
    <3>2. \E e \in Event : Happens(e) /\ (e.direct => e.room \in Chats)
      BY <1>t, <3>1, BecomesFacts
    <3> QED BY <1>t, <2>2, <3>2 DEF SendAway, HomeStep
  <2>3. CASE InviteAgain(d, u)
    BY <1>2, <1>t, <2>3 DEF InviteAgain
  <2> QED BY <1>3, <2>1, <2>2, <2>3
<1>4. ASSUME NEW d \in Chats, ChangePower(d)
      PROVE  HomeStep /\ Do /\ UNCHANGED <<delivery, bridge, fails>>
  BY <1>4, <1>t DEF ChangePower, HomeStep, SameMembers
<1>5. ASSUME NEW u \in People, Accept(u) \/ Leave(u)
      PROVE  HomeStep /\ Do /\ UNCHANGED <<delivery, bridge, fails>>
  <2>1. PICK m \in {"join", "leave"} : Becomes(Home, u, m, u)
    BY <1>5 DEF Accept, Leave
  <2>2. \E e \in Event : Happens(e) /\ (e.direct => e.room \in Chats)
    BY <1>t, <2>1, BecomesFacts
  <2> QED BY <1>5, <1>t, <2>2 DEF HomeStep, Accept, Leave
<1> QED BY <1>1, <1>3, <1>4, <1>5 DEF UserActs

-----------------------------------------------------------------------------
(* transactions and handle_room_member *)

(* The request goes on to the next one of its own, for the same event. *)
LEMMA GoStep ==
  ASSUME IInv, HomeStep, UNCHANGED <<acked, txn, asked, bridge, deeds, fails>>,
         NEW h \in Handlers, AtWork(h), run[h].at <= run[h].end,
         IsDirect(events[run[h].at]),
         NEW pc \in {"join", "tombstone", "invite"}, Goto(h, pc),
         pc = "invite" => events[run[h].at].room \in tombstoned'
  PROVE  IInv'
<1>t. /\ acked \in 0 .. Len(events) /\ txn \in 0 .. Len(events) /\ Len(events) \in Nat
      /\ asked \in Handlers \cup {None} /\ run \in [Handlers -> Runs] /\ QueueOK
      /\ deeds \in 0 .. MaxDeeds /\ fails \in 0 .. MaxFails /\ Done \in 0 .. Len(events)
  BY DoneFacts DEF IInv, TypeOK, Runs
<1> DEFINE moved == [run[h] EXCEPT !.pc = pc]
<1>1. moved \in Runs /\ moved.pc = pc /\ moved.at = run[h].at /\ moved.end = run[h].end
  BY <1>t DEF Runs
<1>2. run' = [run EXCEPT ![h] = moved]
  BY DEF Goto
<1> HIDE DEF moved
<1>3. /\ run' \in [Handlers -> Runs] /\ run'[h] = moved
      /\ \A g \in Handlers \ {h} : run'[g] = run[g]
  BY <1>t, <1>1, <1>2
<1>4. RunOK(h)'
  <2>1. run[h].at \in 1 .. Len(events) /\ run[h].end <= Len(events) /\ run[h].end \in Nat
    BY <1>t DEF QueueOK, RunOK, Runs
  <2>2. events'[run[h].at] = events[run[h].at] /\ run[h].end <= Len(events')
    BY <2>1, HomeFacts DEF IInv
  <2> QED BY <1>1, <1>3, <2>1, <2>2 DEF RunOK, IsDirect
<1>5. \A g \in Handlers : RunOK(g)'
  BY <1>3, <1>4, RunKeeps
<1>6. QueueOK'
  <2>1. asked # None => run'[asked].pc # "idle" /\ run'[asked].at = run[asked].at
                        /\ run'[asked].end = run[asked].end
    BY <1>t, <1>1, <1>3 DEF QueueOK, AtWork
  <2> QED BY <1>t, <1>5, <2>1 DEF QueueOK, AtWork
<1>7. Done' = Done
  BY <1>t, <1>1, <1>3 DEF Done
<1> QED BY <1>t, <1>3, <1>6, <1>7, OtherStep

(* The event is got over: what changes of the transactions. *)
LEMMA NextFacts ==
  ASSUME IInv, HomeStep, UNCHANGED <<acked, txn, asked>>, NEW h \in Handlers, AtWork(h),
         run[h].at <= run[h].end, NextEvent(h)
  PROVE  /\ QueueOK' /\ acked' \in 0 .. Len(events) /\ txn' \in 0 .. Len(events)
         /\ asked' \in Handlers \cup {None} /\ run' \in [Handlers -> Runs]
         /\ run[h].at \in 1 .. Len(events) /\ Done' \in 0 .. Len(events)
         /\ asked = h => Done = run[h].at - 1 /\ Done' = run[h].at
         /\ asked # h => Done' = Done
<1>t. /\ acked \in 0 .. Len(events) /\ txn \in 0 .. Len(events) /\ Len(events) \in Nat
      /\ asked \in Handlers \cup {None} /\ run \in [Handlers -> Runs] /\ QueueOK
      /\ Done \in 0 .. Len(events)
  BY DoneFacts DEF IInv, TypeOK, Runs
<1> DEFINE moved == [run[h] EXCEPT !.pc = "handle", !.at = @ + 1]
<1>1. moved \in Runs /\ moved.pc = "handle" /\ moved.at = run[h].at + 1
      /\ moved.end = run[h].end
  <2>1. run[h] \in Runs /\ run[h].at + 1 \in Nat \ {0}
    BY <1>t DEF Runs
  <2> QED BY <2>1 DEF Runs
<1>2. run' = [run EXCEPT ![h] = moved]
  BY <1>t DEF NextEvent
<1> HIDE DEF moved
<1>3. /\ run' \in [Handlers -> Runs] /\ run'[h] = moved
      /\ \A g \in Handlers \ {h} : run'[g] = run[g]
  BY <1>t, <1>1, <1>2
<1>4. run[h].at \in 1 .. Len(events) /\ run[h].end <= Len(events) /\ run[h].end \in Nat
  BY <1>t DEF QueueOK, RunOK, Runs
<1>5. RunOK(h)'
  <2>1. run[h].end <= Len(events')
    BY <1>4, HomeFacts DEF IInv
  <2> QED BY <1>1, <1>3, <1>4, <2>1 DEF RunOK
<1>6. \A g \in Handlers : RunOK(g)'
  BY <1>3, <1>5, RunKeeps
<1>7. QueueOK'
  <2>1. asked # None => run'[asked].pc # "idle" /\ acked < run'[asked].at
                        /\ run'[asked].end = run[asked].end
    BY <1>t, <1>1, <1>3, <1>4 DEF QueueOK, AtWork
  <2> QED BY <1>t, <1>6, <2>1 DEF QueueOK, AtWork
<1>8. /\ asked = h => Done = run[h].at - 1 /\ Done' = run[h].at
      /\ asked # h => Done' = Done
  BY <1>t, <1>1, <1>3, <1>4, TransactionsAssumption DEF Done
<1> QED BY <1>t, <1>3, <1>4, <1>7, <1>8

(* An event that is not about the identity user was served. *)
LEMMA NextStep ==
  ASSUME IInv, HomeStep, UNCHANGED <<acked, txn, asked, bridge, deeds, fails>>,
         NEW h \in Handlers, AtWork(h), run[h].at <= run[h].end, NextEvent(h),
         \A k \in 1 .. Len(events) : k = run[h].at => Served(k)' /\ ~ IsIdentity(events[k])
  PROVE  IInv'
<1>1. /\ QueueOK' /\ acked' \in 0 .. Len(events) /\ txn' \in 0 .. Len(events)
      /\ asked' \in Handlers \cup {None} /\ run' \in [Handlers -> Runs]
      /\ run[h].at \in 1 .. Len(events) /\ Done' \in 0 .. Len(events)
      /\ asked = h => Done = run[h].at - 1 /\ Done' = run[h].at
      /\ asked # h => Done' = Done
  BY NextFacts
<1>2. deeds' \in 0 .. MaxDeeds /\ fails' \in 0 .. MaxFails /\ Len(events) \in Nat
  BY DEF IInv, TypeOK
<1>3. \A k \in 1 .. Len(events) : k <= Done' => k <= Done \/ k = run[h].at
  BY <1>1, <1>2
<1> QED BY <1>1, <1>2, <1>3, OtherStep

(* A request ends.  Its answer acknowledges the transaction only if it is  *)
(* waited for, and then only if it got to the end or errors are excused.   *)
LEMMA EndStep ==
  ASSUME IInv, HomeStep, UNCHANGED bridge, NEW h \in Handlers, AtWork(h),
         NEW ok \in BOOLEAN,
         run' = [run EXCEPT ![h] = AtRest], Acknowledge(h, ok),
         ok => dev_soft_fail \/ (run[h].pc = "handle" /\ run[h].at = run[h].end + 1),
         deeds' \in 0 .. MaxDeeds, fails' \in 0 .. MaxFails
  PROVE  IInv'
<1>t. /\ QueueOK /\ Len(events) \in Nat /\ acked \in 0 .. Len(events)
      /\ txn \in 0 .. Len(events) /\ asked \in Handlers \cup {None}
      /\ run \in [Handlers -> Runs] /\ Done \in 0 .. Len(events) /\ acked <= Done
  BY DoneFacts DEF IInv, TypeOK, Runs
<1>1. /\ run' \in [Handlers -> Runs] /\ run'[h].pc = "idle"
      /\ \A g \in Handlers \ {h} : run'[g] = run[g] /\ AtWork(g)' = AtWork(g)
  BY <1>t DEF AtRest, Runs, AtWork
<1>r. \A g \in Handlers : RunOK(g)'
  <2>1. RunOK(h)'
    BY <1>1 DEF RunOK, AtWork
  <2> QED BY <1>1, <2>1, RunKeeps
<1>2. CASE asked = h /\ ok
  <2>1. asked' = None /\ acked' = txn /\ txn' = 0 /\ run[h].end = txn
    BY <1>t, <1>2, TransactionsAssumption DEF Acknowledge, QueueOK
  <2>2. QueueOK'
    BY <1>r, <2>1 DEF QueueOK
  <2>3. ~ dev_soft_fail => Done' = Done
    BY <1>t, <1>2, <2>1, TransactionsAssumption DEF Done
  <2> QED BY <1>t, <1>1, <2>1, <2>2, <2>3, OtherStep
<1>3. CASE ~ (asked = h /\ ok)
  <2>1. acked' = acked /\ txn' = txn /\ asked' \in {asked, None} /\ asked' # h
    BY <1>3, TransactionsAssumption DEF Acknowledge
  <2>2. QueueOK'
    <3>1. asked' # None => asked' \in Handlers \ {h} /\ asked' = asked
      BY <1>t, <2>1
    <3> QED BY <1>t, <1>1, <1>r, <2>1, <3>1 DEF QueueOK
  <2>3. Done' \in {Done, acked}
    BY <1>t, <1>1, <2>1 DEF Done
  <2>4. Done' \in 0 .. Len(events) /\ Done' <= Done
    BY <1>t, <2>3
  <2>5. \A k \in 1 .. Len(events) : k <= Done' => k <= Done
    BY <1>t, <2>4
  <2> QED BY <1>t, <1>1, <2>1, <2>2, <2>4, <2>5, OtherStep
<1> QED BY <1>2, <1>3

(* What an event of the identity user does to what is fresh. *)
LEMMA CacheFacts ==
  ASSUME IInv, SameMembers, NEW h \in Handlers, NEW k \in 1 .. Len(events), k = run[h].at,
         IsIdentity(events[k]), CacheEvent(h), Done' \in 0 .. Len(events),
         asked = h => Done = k - 1 /\ Done' = k, asked # h => Done' = Done
  PROVE  Fresh' /\ cached' \in Membership /\ call' \in Calls /\ outrun' \in BOOLEAN
<1>1. /\ cached' = events[k].is /\ outrun' = (\E j \in k + 1 .. Done : IsIdentity(events[j]))
      /\ call' = [call EXCEPT !.old = call.pc # "idle"] /\ events' = events
  BY DEF CacheEvent, SameMembers
<1>2. events[k] \in Event /\ Len(events) \in Nat /\ Done \in 0 .. Len(events) /\ call \in Calls
  BY DoneFacts DEF IInv, TypeOK, Calls
<1>3. /\ call' \in Calls /\ call'.pc = call.pc /\ call'.old = (call.pc # "idle")
      /\ call'.seen = call.seen
  BY <1>1, <1>2 DEF Calls
<1>4. events[k].is \in Membership
  BY <1>2 DEF Event
<1>5. outrun' \in BOOLEAN
  BY <1>1, Zenon
<1>6. CacheFresh'
  <2> SUFFICES ASSUME ~ outrun', NEW j \in 1 .. Len(events), IsIdentity(events[j]), j <= Done'
               PROVE  j <= k
    BY <1>1 DEF CacheFresh, AsOf, IsIdentity
  <2>1. \A i \in k + 1 .. Done : ~ IsIdentity(events[i])
    BY <1>1, Zenon
  <2>2. j \notin k + 1 .. Done
    BY <2>1
  <2> QED BY <1>2, <2>2
<1>7. AnswerFresh' /\ SenderFinds'
  BY <1>3 DEF AnswerFresh, SenderFinds
<1> QED BY <1>1, <1>3, <1>4, <1>5, <1>6, <1>7 DEF Fresh

(* What a request does keeps the invariant, whether it is waited for, was  *)
(* given up or repeated.                                                   *)
LEMMA HandleSteps ==
  ASSUME IInv, NEW h \in Handlers, Handle(h)
  PROVE  IInv' /\ HomeStep
<1> DEFINE k == run[h].at
           e == events[k]
<1>t. /\ TypeOK /\ QueueOK /\ events \in Seq(Event) /\ Len(events) \in Nat
      /\ run \in [Handlers -> Runs]
      /\ deeds \in 0 .. MaxDeeds /\ fails \in 0 .. MaxFails
      /\ open \subseteq Chats /\ tombstoned \subseteq Chats
      /\ Home \in Rooms /\ Home \notin Chats /\ Chats \subseteq Rooms /\ Puppet \in Users
  <2>1. Home \in Rooms /\ Home \notin Chats /\ Chats \subseteq Rooms /\ Puppet \in Users
    BY ConstantsAssumption DEF Rooms, Users
  <2> QED BY <2>1 DEF IInv, TypeOK, Runs
<1>s. SameMembers /\ UNCHANGED <<open, tombstoned>> => HomeStep
  BY <1>t DEF HomeStep
<1>f. Fail => fails' \in 0 .. MaxFails
  BY <1>t, ConstantsAssumption DEF Fail
<1>d. AtWork(h) /\ run[h].pc # "handle" =>
        /\ k <= run[h].end /\ k \in 1 .. Len(events)
        /\ IsDirect(e) /\ e.room \in Chats /\ e.user = Puppet /\ e.sender \in Users
        /\ member[e.room][Puppet] \in Membership
  <2> SUFFICES ASSUME AtWork(h), run[h].pc # "handle"
               PROVE  /\ k <= run[h].end /\ k \in 1 .. Len(events)
                      /\ IsDirect(e) /\ e.room \in Chats /\ e.user = Puppet /\ e.sender \in Users
                      /\ member[e.room][Puppet] \in Membership
    OBVIOUS
  <2>1. k <= run[h].end /\ k \in 1 .. Len(events) /\ IsDirect(e)
    BY <1>t DEF QueueOK, RunOK, Runs
  <2>2. e \in Event /\ e.user = Puppet /\ e.direct
    BY <1>t, <2>1 DEF IsDirect
  <2>3. e.room \in Chats /\ member[e.room][e.user] # "absent"
    BY <2>1, <2>2 DEF IInv, EventsLeaveTraces
  <2>4. member[e.room][Puppet] \in Membership
    BY <1>t, <2>2, <2>3 DEF TypeOK
  <2> QED BY <2>1, <2>2, <2>3, <2>4 DEF Event
<1>a. ASSUME Abort(h), AtWork(h), HomeStep, UNCHANGED bridge, deeds' = deeds,
             fails' \in 0 .. MaxFails
      PROVE  IInv'
  <2>1. ErrorIsOk \in BOOLEAN /\ (ErrorIsOk => dev_soft_fail) /\ deeds' \in 0 .. MaxDeeds
    BY <1>a, <1>t, TransactionsAssumption DEF ErrorIsOk
  <2>2. run' = [run EXCEPT ![h] = AtRest] /\ Acknowledge(h, ErrorIsOk)
    BY <1>a DEF Abort
  <2> QED BY <1>a, <2>1, <2>2, EndStep
<1>1. CASE HandleRoomMember(h)
  <2>1. /\ AtWork(h) /\ run[h].pc = "handle" /\ k <= run[h].end /\ CacheEvent(h)
        /\ IF IsDirect(e) THEN Goto(h, "join") ELSE NextEvent(h)
        /\ SameMembers /\ HomeStep
        /\ UNCHANGED <<homeserver, acked, txn, asked, deeds, fails>>
    BY <1>1, <1>s DEF HandleRoomMember, HasNext, homeserver, SameMembers, AtWork
  <2>2. k \in 1 .. Len(events)
    BY <1>t, <2>1 DEF QueueOK, RunOK, Runs
  <2>3. CASE IsDirect(e)
    <3>1. UNCHANGED bridge
      BY <2>1, <2>3, ConstantsAssumption DEF CacheEvent, IsDirect, IsIdentity
    <3>2. Goto(h, "join")
      BY <2>1, <2>3
    <3> QED BY <2>1, <2>3, <3>1, <3>2, GoStep
  <2>4. CASE ~ IsDirect(e) /\ ~ IsIdentity(e)
    <3>1. UNCHANGED bridge /\ NextEvent(h)
      BY <2>1, <2>4 DEF CacheEvent
    <3>2. ASSUME NEW i \in 1 .. Len(events), i = k PROVE Served(i)' /\ ~ IsIdentity(events[i])
      <4>1. events' = events
        BY <2>1 DEF SameMembers
      <4> QED BY <2>4, <3>2, <4>1 DEF Served, IsDirect
    <3> QED BY <2>1, <3>1, <3>2, NextStep
  <2>5. CASE ~ IsDirect(e) /\ IsIdentity(e)
    <3>1. NextEvent(h)
      BY <2>1, <2>5
    <3>2. /\ QueueOK' /\ acked' \in 0 .. Len(events) /\ txn' \in 0 .. Len(events)
          /\ asked' \in Handlers \cup {None} /\ run' \in [Handlers -> Runs]
          /\ Done' \in 0 .. Len(events)
          /\ asked = h => Done = k - 1 /\ Done' = k
          /\ asked # h => Done' = Done
      BY <2>1, <3>1, NextFacts
    <3>3. PICK i \in 1 .. Len(events) : i = k
      BY <2>2
    <3>4. Fresh' /\ cached' \in Membership /\ call' \in Calls /\ outrun' \in BOOLEAN
      BY <2>1, <2>5, <3>2, <3>3, CacheFacts
    <3>5. ASSUME ~ dev_soft_fail PROVE DoneServed'
      <4> SUFFICES ASSUME NEW j \in 1 .. Len(events), j <= Done' PROVE Served(j)'
        BY <2>1 DEF DoneServed, SameMembers
      <4>1. CASE j <= Done
        BY <2>1, <3>5, <4>1, ServedKeeps DEF IInv, DoneServed
      <4>2. CASE j > Done
        <5>1. j = k
          BY <1>t, <2>2, <3>2, <4>2, DoneFacts
        <5>2. events' = events
          BY <2>1 DEF SameMembers
        <5> QED BY <2>5, <5>1, <5>2 DEF Served, IsDirect
      <4>3. Done \in Nat
        BY <1>t, DoneFacts
      <4> QED BY <4>1, <4>2, <4>3
    <3> QED BY <1>t, <2>1, <3>2, <3>4, <3>5, StepInv
  <2> QED BY <2>1, <2>3, <2>4, <2>5
<1>2. CASE JoinChat(h)
  <2>1. /\ run[h].pc = "join" /\ AtWork(h)
        /\ UNCHANGED <<open, tombstoned, bridge, deeds, fails>>
        /\ \/ Becomes(e.room, Puppet, "join", Puppet)
           \/ SameMembers
        /\ \/ Goto(h, "tombstone") /\ UNCHANGED <<acked, txn, asked>>
           \/ Abort(h)
    BY <1>2 DEF JoinChat, AtWork
  <2>2. HomeStep
    <3>1. CASE Becomes(e.room, Puppet, "join", Puppet)
      <4>1. e.room \in Rooms /\ "join" \in Membership
        BY <1>d, <1>t, <2>1 DEF Membership
      <4>2. \E x \in Event : Happens(x) /\ (x.direct => x.room \in Chats)
        BY <1>t, <3>1, <4>1, BecomesFacts
      <4> QED BY <1>t, <2>1, <4>2 DEF HomeStep
    <3> QED BY <1>s, <2>1, <3>1
  <2>3. CASE Goto(h, "tombstone") /\ UNCHANGED <<acked, txn, asked>>
    BY <1>d, <2>1, <2>2, <2>3, GoStep
  <2>4. CASE Abort(h)
    BY <1>a, <1>t, <2>1, <2>2, <2>4
  <2> QED BY <2>1, <2>2, <2>3, <2>4
<1>3. CASE TombstoneRoom(h)
  <2>1. /\ run[h].pc = "tombstone" /\ AtWork(h) /\ SameMembers
        /\ UNCHANGED <<open, bridge, deeds, fails>>
        /\ \/ /\ tombstoned' = tombstoned \cup {e.room}
              /\ Goto(h, "invite") /\ UNCHANGED <<acked, txn, asked>>
           \/ Abort(h) /\ UNCHANGED tombstoned
    BY <1>3 DEF TombstoneRoom, AtWork, SameMembers
  <2>2. HomeStep
    BY <1>d, <1>t, <2>1 DEF HomeStep
  <2>3. CASE /\ tombstoned' = tombstoned \cup {e.room}
             /\ Goto(h, "invite") /\ UNCHANGED <<acked, txn, asked>>
    BY <1>d, <2>1, <2>2, <2>3, GoStep
  <2>4. CASE Abort(h)
    BY <1>a, <1>t, <2>1, <2>2, <2>4
  <2> QED BY <2>1, <2>2, <2>3, <2>4
<1>4. CASE InviteSender(h)
  <2>1. /\ run[h].pc = "invite" /\ AtWork(h) /\ ServeInvite(e.sender) /\ NextEvent(h)
        /\ UNCHANGED <<open, tombstoned, acked, txn, asked, bridge, deeds, fails>>
    BY <1>4 DEF InviteSender, AtWork
  <2>2. HomeStep /\ member'[Home][e.sender] # "absent"
    BY <1>d, <1>t, <2>1, ServeFacts
  <2>3. ASSUME NEW i \in 1 .. Len(events), i = k PROVE Served(i)' /\ ~ IsIdentity(events[i])
    <3>1. events'[i] = events[i]
      BY <2>2, HomeFacts DEF IInv
    <3>2. e.room \in tombstoned /\ e.room # Home
      BY <1>d, <1>t, <2>1 DEF QueueOK, RunOK
    <3> QED BY <2>1, <2>2, <2>3, <3>1, <3>2 DEF Served, IsIdentity
  <2> QED BY <1>d, <2>1, <2>2, <2>3, NextStep
<1>5. CASE RequestFails(h)
  <2>1. /\ run[h].pc \in {"join", "tombstone", "invite"} /\ AtWork(h) /\ Abort(h)
        /\ SameMembers \/ ServeInvite(e.sender)
        /\ fails' \in 0 .. MaxFails
        /\ UNCHANGED <<open, tombstoned, bridge, deeds>>
    BY <1>5, <1>f DEF RequestFails, AtWork
  <2>2. HomeStep
    BY <1>d, <1>s, <1>t, <2>1, ServeFacts
  <2> QED BY <1>a, <2>1, <2>2
<1>6. CASE Answer(h)
  <2>1. /\ AtWork(h) /\ run[h].pc = "handle" /\ run[h].at > run[h].end
        /\ run' = [run EXCEPT ![h] = AtRest] /\ Acknowledge(h, TRUE) /\ HomeStep
        /\ UNCHANGED <<bridge, deeds, fails>>
    BY <1>6, <1>s DEF Answer, Finish, homeserver, SameMembers, AtWork
  <2>2. run[h].at = run[h].end + 1
    BY <1>t, <2>1 DEF QueueOK, RunOK, Runs
  <2> QED BY <1>t, <2>1, <2>2, EndStep
<1> QED BY <1>1, <1>2, <1>3, <1>4, <1>5, <1>6 DEF Handle

(* One step of a user, of the bridge or of the homeserver's queue. *)
LEMMA InvStep == IInv /\ [Next]_vars => IInv' /\ HomeStep
<1> SUFFICES ASSUME IInv, [Next]_vars PROVE IInv' /\ HomeStep
  OBVIOUS
<1>t. /\ TypeOK /\ QueueOK /\ Len(events) \in Nat /\ Done \in 0 .. Len(events)
      /\ acked \in 0 .. Len(events) /\ txn \in 0 .. Len(events) /\ acked <= Done
      /\ asked \in Handlers \cup {None} /\ run \in [Handlers -> Runs]
      /\ deeds \in 0 .. MaxDeeds /\ fails \in 0 .. MaxFails
      /\ open \subseteq Chats /\ tombstoned \subseteq Chats
  BY DoneFacts DEF IInv, TypeOK, Runs
<1>s. SameMembers /\ UNCHANGED <<open, tombstoned>> => HomeStep
  BY <1>t DEF HomeStep
<1>f. Fail => fails' \in 0 .. MaxFails
  BY <1>t, ConstantsAssumption DEF Fail
<1>1. CASE UNCHANGED vars
  <2>1. HomeStep /\ UNCHANGED <<delivery, bridge, deeds, fails>>
    BY <1>1, <1>s DEF vars, homeserver, SameMembers
  <2> QED BY <1>t, <2>1, QueueKeeps, OtherStep
<1>2. CASE Push
  <2>1. PICK h \in Handlers :
          /\ run[h].pc = "idle" /\ asked' = h
          /\ run' = [run EXCEPT ![h] = [pc |-> "handle", at |-> acked + 1, end |-> txn']]
    BY <1>2 DEF Push, PushUpTo
  <2>2. /\ asked = None /\ acked < Len(events) /\ txn' \in acked + 1 .. Len(events)
        /\ acked' = acked /\ HomeStep /\ UNCHANGED <<bridge, deeds, fails>>
    BY <1>2, <1>s, <1>t DEF Push, PushUpTo, QueueOK, homeserver, SameMembers
  <2> DEFINE new == [pc |-> "handle", at |-> acked + 1, end |-> txn']
  <2>3. new \in Runs /\ new.pc = "handle" /\ new.at = acked + 1 /\ new.end = txn'
    BY <1>t, <2>2 DEF Runs
  <2> HIDE DEF new
  <2>4. /\ run' \in [Handlers -> Runs] /\ run'[h] = new
        /\ \A g \in Handlers \ {h} : run'[g] = run[g]
    BY <1>t, <2>1, <2>3 DEF new
  <2>5. RunOK(h)'
    <3>1. Len(events) <= Len(events') /\ Len(events') \in Nat
      BY <2>2, HomeFacts DEF IInv
    <3> QED BY <1>t, <2>2, <2>3, <2>4, <3>1 DEF RunOK
  <2>6. QueueOK'
    <3>1. \A g \in Handlers : RunOK(g)'
      BY <2>2, <2>4, <2>5, RunKeeps
    <3>2. /\ AtWork(h)' /\ acked' < txn' /\ run'[h].end = txn' /\ acked' < run'[h].at
      BY <1>t, <2>2, <2>3, <2>4 DEF AtWork
    <3>3. asked' = h
      BY <2>1
    <3> QED BY <3>1, <3>2, <3>3 DEF QueueOK
  <2>7. Done' = Done
    BY <1>t, <2>1, <2>2, <2>3, <2>4, TransactionsAssumption DEF Done
  <2>8. acked' \in 0 .. Len(events) /\ txn' \in 0 .. Len(events)
        /\ asked' \in Handlers \cup {None}
    BY <1>t, <2>1, <2>2
  <2> QED BY <1>t, <2>2, <2>4, <2>6, <2>7, <2>8, OtherStep
<1>3. CASE GiveUp
  <2>1. /\ asked' = None /\ acked' = acked /\ txn' = txn /\ run' = run /\ HomeStep
        /\ UNCHANGED <<bridge, deeds>> /\ fails' \in 0 .. MaxFails
    BY <1>3, <1>f, <1>s DEF GiveUp, StopWaiting, homeserver, SameMembers
  <2>2. \A h \in Handlers : RunOK(h)'
    BY <2>1, RunKeeps
  <2>3. QueueOK' /\ Done' = acked
    BY <1>t, <2>1, <2>2 DEF QueueOK, Done
  <2>4. \A k \in 1 .. Len(events) : k <= Done' => k <= Done
    BY <1>t, <2>3
  <2> QED BY <1>t, <2>1, <2>3, <2>4, OtherStep
<1>4. CASE Restart
  <2>1. /\ HomeStep /\ asked' = None /\ acked' = acked /\ txn' = txn
        /\ run' = [h \in Handlers |-> AtRest] /\ deeds' = deeds
        /\ cached' = "unknown" /\ call' = Idle /\ outrun' = FALSE /\ fails' \in 0 .. MaxFails
    BY <1>4, <1>f, <1>s DEF Restart, ForgetRuns, homeserver, SameMembers
  <2>2. call' \in Calls /\ call'.pc = "idle"
    BY <2>1 DEF Calls, Idle
  <2>3. run' \in [Handlers -> Runs] /\ \A h \in Handlers : ~ AtWork(h)'
    BY <2>1 DEF Runs, AtRest, AtWork
  <2>4. QueueOK' /\ Fresh'
    BY <1>t, <2>1, <2>2, <2>3
       DEF QueueOK, RunOK, Fresh, CacheFresh, AnswerFresh, SenderFinds
  <2>5. ASSUME ~ dev_soft_fail PROVE DoneServed'
    <3> SUFFICES ASSUME NEW k \in 1 .. Len(events'), k <= Done' PROVE Served(k)'
      BY DEF DoneServed
    <3>1. k \in 1 .. Len(events) /\ k <= Done
      <4>1. Done' = acked /\ Len(events') \in Nat
        BY <2>1, HomeFacts DEF IInv, Done
      <4> QED BY <1>t, <4>1
    <3> QED BY <2>1, <2>5, <3>1, ServedKeeps DEF IInv, DoneServed
  <2> QED BY <1>t, <2>1, <2>2, <2>3, <2>4, <2>5, StepInv
<1> QED BY <1>1, <1>2, <1>3, <1>4, UserSteps, SendSteps, HandleSteps DEF Next

(* Every reachable state satisfies IInv. *)
THEOREM InductiveInvariant == Spec => []IInv
<1>1. IInv /\ [Next]_vars => IInv'
  BY InvStep
<1> QED BY <1>1, InitInv, PTL DEF Spec

-----------------------------------------------------------------------------
(* The variables keep their types: no handler runs past the events that    *)
(* were pushed.                                                            *)
THEOREM TypeCorrect == Spec => []TypeOK
<1>1. IInv => TypeOK
  BY DEF IInv
<1> QED BY <1>1, InductiveInvariant, PTL

(* Without dev_soft_fail an acknowledged invitation into a direct chat was *)
(* served whole, whichever of its requests failed, was given up or         *)
(* repeated.                                                               *)
THEOREM InvitationsServed == ~ dev_soft_fail => (Spec => []InvitationServed)
<1> SUFFICES ASSUME ~ dev_soft_fail PROVE Spec => []InvitationServed
  OBVIOUS
<1>1. ASSUME IInv PROVE InvitationServed
  <2> SUFFICES ASSUME NEW k \in 1 .. acked PROVE Served(k)
    BY DEF InvitationServed, Served
  <2>1. k \in 1 .. Len(events) /\ k <= Done
    BY <1>1, DoneFacts DEF IInv, TypeOK
  <2> QED BY <1>1, <2>1 DEF IInv, DoneServed
<1> QED BY <1>1, InductiveInvariant, PTL

(* Without dev_soft_fail a direct message finds the user in the contact's  *)
(* room or invited there, or one of the races MessageFindsUser names has   *)
(* happened.                                                               *)
THEOREM MessagesFindUser == ~ dev_soft_fail => (Spec => []MessageFindsUser)
<1> SUFFICES ASSUME ~ dev_soft_fail PROVE Spec => []MessageFindsUser
  OBVIOUS
<1>1. ASSUME IInv, LeaveToCome
      PROVE  \E k \in acked + 1 .. Len(events) :
               IsIdentity(events[k]) /\ events[k].is = "leave"
  <2>1. PICK k \in 1 .. Len(events) :
          Done < k /\ IsIdentity(events[k]) /\ events[k].is = "leave"
    BY <1>1 DEF LeaveToCome
  <2>2. acked <= Done /\ acked \in Nat /\ Done \in Nat
    BY <1>1, DoneFacts DEF IInv, TypeOK
  <2> QED BY <2>1, <2>2
<1>2. IInv => MessageFindsUser
  BY <1>1 DEF IInv, Fresh, SenderFinds, MessageFindsUser
<1> QED BY <1>2, InductiveInvariant, PTL

(* Nothing but the users makes a chat that is hopeless fit to be served:   *)
(* the bridge joins only where the puppet is invited, and gets no power.   *)
LEMMA HopelessStays ==
  ASSUME IInv, [Next]_vars, ~ UserActs, NEW d \in Chats, Hopeless(d)
  PROVE  Hopeless(d)'
<1>t. /\ TypeOK /\ d \in Rooms /\ Puppet \in Users /\ Home \in Rooms /\ d # Home
      /\ Chats \subseteq Rooms /\ identity_user_id \in Users
      /\ Membership = {"invite", "join", "leave"}
  BY ConstantsAssumption DEF IInv, Rooms, Users, People, Membership
<1>o. open' = open
  BY DEF Next, SendDirect, Send, ReadMember, GotMember, InviteIdentity, SendMessage,
         SendFails, Push, GiveUp, Handle, HandleRoomMember, JoinChat, TombstoneRoom,
         InviteSender, RequestFails, Answer, Restart, vars, homeserver
<1>1. SUFFICES ASSUME member[d][Puppet] = "leave" PROVE member'[d][Puppet] = "leave"
  BY <1>o DEF Hopeless
<1>2. ASSUME NEW u \in Users, ServeInvite(u) PROVE member'[d][Puppet] = "leave"
  <2>1. CASE SameMembers
    BY <1>1, <2>1 DEF SameMembers
  <2>2. CASE Becomes(Home, u, "invite", Puppet)
    BY <1>1, <1>t, <2>2, BecomesFacts
  <2> QED BY <1>2, <2>1, <2>2 DEF ServeInvite
<1>3. ASSUME member' = member PROVE member'[d][Puppet] = "leave"
  BY <1>1, <1>3
<1>4. CASE SendDirect \/ Send
  BY <1>2, <1>3, <1>4, <1>t
     DEF Send, SendDirect, ReadMember, GotMember, InviteIdentity, SendMessage, SendFails,
         homeserver
<1>5. ASSUME NEW h \in Handlers, Handle(h) PROVE member'[d][Puppet] = "leave"
  <2> DEFINE c == events[run[h].at].room
  <2>1. run[h].pc \in {"join", "tombstone", "invite"} =>
          /\ c \in Rooms /\ events[run[h].at].sender \in Users
          /\ run[h].at \in 1 .. Len(events)
    <3>1. run \in [Handlers -> Runs] /\ RunOK(h) /\ events \in Seq(Event)
      BY DEF IInv, TypeOK, QueueOK, Runs
    <3>2. run[h].pc \in {"join", "tombstone", "invite"} => run[h].at \in 1 .. Len(events)
      BY <3>1 DEF RunOK, AtWork, Runs
    <3>3. run[h].pc \in {"join", "tombstone", "invite"} => events[run[h].at] \in Event
      BY <3>1, <3>2
    <3> QED BY <3>2, <3>3 DEF Event
  <2>2. CASE JoinChat(h)
    <3>1. CASE member[c][Puppet] = "invite"
      <4>1. Becomes(c, Puppet, "join", Puppet) /\ c \in Rooms /\ c # d
        BY <1>1, <2>1, <2>2, <3>1 DEF JoinChat
      <4> QED BY <1>1, <1>t, <4>1, BecomesFacts
    <3>2. CASE member[c][Puppet] # "invite"
      BY <1>3, <2>2, <3>2 DEF JoinChat, SameMembers
    <3> QED BY <3>1, <3>2
  <2>3. CASE InviteSender(h) \/ RequestFails(h)
    BY <1>2, <1>3, <2>1, <2>3 DEF InviteSender, RequestFails, SameMembers
  <2>4. CASE HandleRoomMember(h) \/ TombstoneRoom(h) \/ Answer(h)
    BY <1>3, <2>4 DEF HandleRoomMember, TombstoneRoom, Answer, homeserver
  <2> QED BY <1>5, <2>2, <2>3, <2>4 DEF Handle
<1>6. CASE Push \/ GiveUp \/ Restart \/ UNCHANGED vars
  BY <1>3, <1>6 DEF Push, GiveUp, Restart, vars, homeserver
<1> QED BY <1>4, <1>5, <1>6 DEF Next

(* A request that comes to a hopeless chat ends there: it does not get     *)
(* past its event, nor is the event acknowledged.                          *)
LEMMA StuckInQueue ==
  ASSUME IInv, [Next]_vars, ~ dev_soft_fail, NEW k \in 1 .. Len(events), Stuck(k)
  PROVE  /\ acked' < k
         /\ asked' # None =>
              run'[asked'].at < k \/ (run'[asked'].at = k /\ run'[asked'].pc # "invite")
<1>t. /\ QueueOK /\ run \in [Handlers -> Runs] /\ k \in Nat
      /\ acked \in Nat /\ txn \in Nat /\ asked \in Handlers \cup {None}
      /\ acked < k /\ IsDirect(events[k]) /\ Hopeless(events[k].room)
      /\ asked # None =>
           run[asked].at < k \/ (run[asked].at = k /\ run[asked].pc # "invite")
  BY DEF IInv, TypeOK, Stuck, Runs
<1>1. CASE UNCHANGED <<acked, asked, run>>
  BY <1>t, <1>1
<1>2. CASE Push
  <2>1. PICK h \in Handlers :
          /\ asked' = h
          /\ run' = [run EXCEPT ![h] = [pc |-> "handle", at |-> acked + 1, end |-> txn']]
    BY <1>2 DEF Push, PushUpTo
  <2>2. acked' = acked /\ run'[h].at = acked + 1 /\ run'[h].pc = "handle"
    BY <1>2, <1>t, <2>1 DEF Push, PushUpTo
  <2> QED BY <1>t, <2>1, <2>2
<1>3. CASE GiveUp \/ Restart
  BY <1>3, <1>t DEF GiveUp, StopWaiting, Restart, ForgetRuns
<1>4. ASSUME NEW h \in Handlers, Handle(h)
      PROVE  /\ acked' < k
             /\ asked' # None =>
                  run'[asked'].at < k \/ (run'[asked'].at = k /\ run'[asked'].pc # "invite")
  <2>1. CASE Abort(h)
    <3>1. acked' = acked /\ (asked = h => asked' = None) /\ (asked # h => asked' = asked)
      BY <2>1 DEF Abort, Acknowledge, ErrorIsOk
    <3>2. asked # h /\ asked # None => run'[asked] = run[asked]
      BY <1>t, <2>1 DEF Abort
    <3> QED BY <1>t, <3>1, <3>2
  <2>2. CASE Answer(h)
    <3>1. CASE asked = h
      <4>1. acked' = txn /\ asked' = None /\ run[h].at > run[h].end /\ run[h].end = txn
        BY <1>t, <2>2, <3>1, TransactionsAssumption DEF Answer, Finish, Acknowledge, QueueOK
      <4>2. run[h].at \in Nat /\ run[h].at <= k
        BY <1>t, <3>1, TransactionsAssumption DEF Runs
      <4> QED BY <1>t, <4>1, <4>2
    <3>2. CASE asked # h
      <4>1. acked' = acked /\ asked' = asked /\ (asked # None => run'[asked] = run[asked])
        BY <1>t, <2>2, <3>2 DEF Answer, Finish, Acknowledge
      <4> QED BY <1>t, <4>1
    <3> QED BY <3>1, <3>2
  <2>3. CASE ~ Abort(h) /\ ~ Answer(h)
    <3>1. /\ acked' = acked /\ asked' = asked
          /\ \/ HasNext(h) /\ ~ IsDirect(events[run[h].at]) /\ NextEvent(h)
             \/ HasNext(h) /\ Goto(h, "join")
             \/ run[h].pc = "join" /\ Goto(h, "tombstone")
             \/ /\ run[h].pc = "tombstone" /\ Goto(h, "invite")
                /\ MayTombstone(events[run[h].at].room)
             \/ run[h].pc = "invite" /\ NextEvent(h)
      BY <1>4, <2>3
         DEF Handle, HandleRoomMember, JoinChat, TombstoneRoom, InviteSender, RequestFails
    <3>2. CASE asked # h
      <4>1. asked # None => run'[asked] = run[asked]
        BY <1>t, <3>1, <3>2 DEF Goto, NextEvent
      <4> QED BY <1>t, <3>1, <4>1
    <3>3. CASE asked = h
      <4>1. /\ run[h].at \in Nat /\ run[h] \in Runs /\ asked # None
            /\ run[h].at < k \/ (run[h].at = k /\ run[h].pc # "invite")
        BY <1>t, <3>3, TransactionsAssumption DEF Runs
      <4>2. CASE NextEvent(h)
        <5>1. run'[h].at = run[h].at + 1 /\ run'[h].pc = "handle"
          BY <1>t, <4>1, <4>2 DEF NextEvent, Runs
        <5>2. run[h].at # k
          BY <1>t, <3>1, <4>1, <4>2, <5>1 DEF Goto, Runs
        <5> QED BY <1>t, <3>1, <3>3, <4>1, <5>1, <5>2
      <4>3. CASE HasNext(h) /\ Goto(h, "join")
        <5>1. run'[h].at = run[h].at /\ run'[h].pc = "join"
          BY <1>t, <4>1, <4>3 DEF Goto, Runs
        <5> QED BY <1>t, <3>1, <3>3, <4>1, <5>1
      <4>4. CASE run[h].pc = "join" /\ Goto(h, "tombstone")
        <5>1. run'[h].at = run[h].at /\ run'[h].pc = "tombstone"
          BY <1>t, <4>1, <4>4 DEF Goto, Runs
        <5> QED BY <1>t, <3>1, <3>3, <4>1, <5>1
      <4>5. CASE Goto(h, "invite") /\ MayTombstone(events[run[h].at].room)
        <5>1. run'[h].at = run[h].at
          BY <1>t, <4>1, <4>5 DEF Goto, Runs
        <5>2. run[h].at # k
          BY <1>t, <4>5 DEF MayTombstone, Hopeless
        <5> QED BY <1>t, <3>1, <3>3, <4>1, <5>1, <5>2
      <4> QED BY <3>1, <4>2, <4>3, <4>4, <4>5
    <3> QED BY <3>2, <3>3
  <2> QED BY <2>1, <2>2, <2>3
<1>5. UserActs \/ SendDirect \/ Send \/ UNCHANGED vars => UNCHANGED <<acked, asked, run>>
  <2>1. UserActs => UNCHANGED <<acked, asked, run>>
    BY UserSteps DEF delivery
  <2>2. SendDirect \/ Send \/ UNCHANGED vars => UNCHANGED <<acked, asked, run>>
    BY DEF Send, SendDirect, ReadMember, GotMember, InviteIdentity, SendMessage, SendFails,
           vars, delivery
  <2> QED BY <2>1, <2>2
<1> QED BY <1>1, <1>2, <1>3, <1>4, <1>5 DEF Next

(* Without dev_soft_fail only users can undo what blocks the queue: as     *)
(* long as none invites the puppet again or gives it power, an invitation  *)
(* that cannot be served is not got over, nor is anything behind it.       *)
THEOREM UsersUnblock == Spec => OnlyUsersUnblock
<1>1. ASSUME IInv, [Next]_vars, ~ dev_soft_fail, NEW k \in 1 .. Len(events), Stuck(k)
      PROVE  Stuck(k)' \/ (deeds' > deeds /\ ~ Hopeless(events[k].room)')
  <2>1. HomeStep
    BY <1>1, InvStep
  <2>2. /\ events'[k] = events[k] /\ IsDirect(events[k]) /\ Hopeless(events[k].room)
        /\ k \in Nat
    BY <1>1, <2>1, HomeFacts DEF IInv, Stuck
  <2>3. /\ acked' < k
        /\ asked' # None =>
             run'[asked'].at < k \/ (run'[asked'].at = k /\ run'[asked'].pc # "invite")
    BY <1>1, StuckInQueue
  <2>4. CASE Hopeless(events[k].room)'
    BY <2>2, <2>3, <2>4 DEF Stuck, IsDirect
  <2>5. CASE UserActs
    BY <1>1, <2>4, <2>5, UserSteps
  <2>6. CASE ~ UserActs
    <3>1. PICK d \in Chats : d = events[k].room
      BY <1>1, <2>2 DEF IsDirect, IInv, EventsLeaveTraces
    <3>2. Hopeless(d)'
      BY <1>1, <2>2, <2>6, <3>1, HopelessStays
    <3> QED BY <2>2, <2>4, <3>1, <3>2 DEF Hopeless
  <2> QED BY <2>5, <2>6
<1>2. IInv /\ [Next]_vars =>
        [~ dev_soft_fail => \A k \in 1 .. Len(events) :
           Stuck(k) => Stuck(k)' \/ (deeds' > deeds /\ ~ Hopeless(events[k].room)')]_vars
  BY <1>1
<1> QED BY <1>2, InductiveInvariant, PTL DEF Spec, OnlyUsersUnblock
=============================================================================
