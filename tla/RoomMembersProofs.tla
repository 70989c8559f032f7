-------------------------- MODULE RoomMembersProofs --------------------------
(***************************************************************************)
(* Proofs about RoomMembers: for any number of calls, changes and failures *)
(* the cache catches up, a puppet is in the room when it posts or one of   *)
(* the named races happened, and what is said of registration holds.       *)
(***************************************************************************)
EXTENDS RoomMembers, TLAPS

Calls == [pc : PC, seen : Membership \cup {"absent"}, invited : BOOLEAN, old : BOOLEAN]

(* The homeserver.  The membership is what the last event says, and one    *)
(* who has joined cannot be invited: only a leave follows a join.          *)
MemberIsLast ==
  IF Len(events) = 0 THEN member = "absent" ELSE member = events[Len(events)]

JoinThenLeave ==
  \A k \in 1 .. Len(events) - 1 : events[k] = "join" => events[k + 1] = "leave"

Runs == [pc : {"idle", "handle", "join"}, at : Nat \ {0}, end : Nat]

AtWork(h) == run[h].pc # "idle"

(* A request at work is inside its transaction.  The one that is waited    *)
(* for is of the transaction being pushed, and has got over no invitation  *)
(* without the puppet's user.                                              *)
QueueOK ==
  /\ \A h \in Handlers : AtWork(h) => run[h].end <= Len(events) /\ run[h].at <= run[h].end + 1
  /\ txn # 0 => acked < txn
  /\ asked # None =>
       /\ AtWork(asked) /\ run[asked].end = txn /\ acked < txn /\ acked < run[asked].at
       /\ ~ registered => \A k \in acked + 1 .. run[asked].at - 1 :
             events[k] = "invite" => run[asked].pc = "join" /\ k = run[asked].at - 1

(* m is not older than what the cache has been told by those that count. *)
AsOf(m) == \E j \in 1 .. Len(events) : Done <= j /\ events[j] = m

LeaveToCome == \E k \in 1 .. Len(events) : Done < k /\ events[k] = "leave"

CacheFresh == cached # "unknown" /\ ~ outrun => AsOf(cached)

(* A call invites once, from idle on, and having joined finds a member. *)
CallOK(c) ==
  /\ call[c].pc = "idle" => ~ call[c].invited
  /\ call[c].pc = "read" /\ call[c].invited => member # "absent"
  /\ call[c].pc = "answer" /\ call[c].invited => call[c].seen # "absent"

(* An answer is as fresh as the cache unless an event overtook it, and who *)
(* is about to send is in the room, or a leave is on its way.              *)
CallFresh(c) ==
  /\ call[c].pc = "answer" /\ ~ call[c].old /\ call[c].seen # "absent" => AsOf(call[c].seen)
  /\ call[c].pc = "send" =>
       \/ member = "join" \/ outrun \/ call[c].old
       \/ call[c].seen \in {"invite", "leave"}
       \/ LeaveToCome

IInv ==
  /\ TypeOK /\ MemberIsLast /\ JoinThenLeave /\ QueueOK
  /\ \A c \in Callers : CallOK(c)
  /\ ~ dev_soft_fail => CacheFresh /\ \A c \in Callers : CallFresh(c)

-----------------------------------------------------------------------------
(* What the homeserver may do to the room: nothing, or append a change     *)
(* that takes nobody from join to anything but leave.                      *)
HomeStep ==
  \/ SameMember
  \/ \E m \in Membership : Becomes(m) /\ (member = "join" => m = "leave")

LEMMA HomeFacts ==
  ASSUME TypeOK, MemberIsLast, JoinThenLeave, HomeStep
  PROVE  /\ member' \in Membership \cup {"absent"} /\ events' \in Seq(Membership)
         /\ Len(events) \in Nat /\ Len(events') \in Nat /\ Len(events) <= Len(events')
         /\ \A k \in 1 .. Len(events) : events'[k] = events[k]
         /\ MemberIsLast' /\ JoinThenLeave'
         /\ member # "absent" => member' # "absent"
         /\ member = "join" /\ member' # "join" =>
              Len(events') = Len(events) + 1 /\ events'[Len(events')] = "leave"
<1>t. member \in Membership \cup {"absent"} /\ events \in Seq(Membership) /\ Len(events) \in Nat
  BY DEF TypeOK
<1>1. CASE SameMember
  BY <1>t, <1>1 DEF SameMember, MemberIsLast, JoinThenLeave
<1>2. ASSUME NEW m \in Membership, Becomes(m), member = "join" => m = "leave"
      PROVE  /\ member' \in Membership \cup {"absent"} /\ events' \in Seq(Membership)
             /\ Len(events') = Len(events) + 1 /\ events'[Len(events) + 1] = m /\ member' = m
             /\ \A k \in 1 .. Len(events) : events'[k] = events[k]
             /\ MemberIsLast' /\ JoinThenLeave'
  <2>1. /\ events' \in Seq(Membership) /\ member' = m
        /\ Len(events') = Len(events) + 1 /\ events'[Len(events) + 1] = m
        /\ \A k \in 1 .. Len(events) : events'[k] = events[k]
    BY <1>t, <1>2 DEF Becomes
  <2>2. MemberIsLast'
    BY <1>t, <2>1 DEF MemberIsLast
  <2>3. ASSUME NEW k \in 1 .. Len(events') - 1, events'[k] = "join"
        PROVE  events'[k + 1] = "leave"
    <3>1. CASE k = Len(events)
      <4>1. member = "join"
        BY <1>t, <2>1, <2>3, <3>1 DEF MemberIsLast
      <4> QED BY <1>2, <2>1, <3>1, <4>1
    <3>2. CASE k # Len(events)
      BY <1>t, <2>1, <2>3, <3>2 DEF JoinThenLeave
    <3> QED BY <3>1, <3>2
  <2> QED BY <2>1, <2>2, <2>3 DEF JoinThenLeave
<1>3. "absent" \notin Membership
  BY DEF Membership
<1>4. CASE ~ SameMember
  <2>1. PICK m \in Membership : Becomes(m) /\ (member = "join" => m = "leave")
    BY <1>4 DEF HomeStep
  <2>2. /\ member' \in Membership \cup {"absent"} /\ events' \in Seq(Membership)
        /\ Len(events') = Len(events) + 1 /\ events'[Len(events) + 1] = m /\ member' = m
        /\ \A k \in 1 .. Len(events) : events'[k] = events[k]
        /\ MemberIsLast' /\ JoinThenLeave'
    BY <1>2, <2>1
  <2> QED BY <1>t, <1>3, <2>1, <2>2
<1> QED BY <1>1, <1>4

(* The requests that reach it do no more. *)
LEMMA ServeFacts ==
  ASSUME TypeOK
  PROVE  /\ ServeInvite => HomeStep /\ member' # "absent"
         /\ ServeJoin => HomeStep /\ member' = "join"
BY DEF TypeOK, ServeInvite, ServeJoin, HomeStep, SameMember, Becomes, Membership

(* The cache has been told no more than happened, and what it was told of  *)
(* the transaction at hand is behind the acknowledged ones.                *)
LEMMA DoneFacts ==
  ASSUME TypeOK, QueueOK
  PROVE  Done \in 0 .. Len(events) /\ acked <= Done /\ Len(events) \in Nat
<1>1. CASE asked = None
  BY <1>1 DEF TypeOK, Done
<1>2. CASE asked # None
  <2>1. asked \in Handlers /\ run[asked] \in Runs
    BY <1>2 DEF TypeOK, Runs
  <2> QED BY <1>2, <2>1 DEF TypeOK, QueueOK, Done, Runs
<1> QED BY <1>1, <1>2

(* One who was in the room at a time the cache has not been told beyond is *)
(* there still, or a leave is to come.                                     *)
LEMMA JoinedLately ==
  ASSUME TypeOK, MemberIsLast, JoinThenLeave, QueueOK, AsOf("join")
  PROVE  member = "join" \/ LeaveToCome
<1>1. PICK j \in 1 .. Len(events) : Done <= j /\ events[j] = "join"
  BY DEF AsOf
<1>2. Done \in Nat /\ Len(events) \in Nat
  BY DoneFacts
<1>3. CASE j = Len(events)
  BY <1>1, <1>2, <1>3 DEF MemberIsLast
<1>4. CASE j # Len(events)
  <2>1. events[j + 1] = "leave" /\ j + 1 \in 1 .. Len(events) /\ Done < j + 1
    BY <1>1, <1>2, <1>4 DEF JoinThenLeave
  <2> QED BY <2>1 DEF LeaveToCome
<1> QED BY <1>3, <1>4

(* As long as the cache is told nothing, what is fresh stays so, ...       *)
LEMMA FreshKeeps ==
  ASSUME IInv, HomeStep, Done' \in Nat, Done' <= Done
  PROVE  /\ \A m : (\E j \in 1 .. Len(events) : Done <= j /\ events[j] = m)
                   => \E j \in 1 .. Len(events') : Done' <= j /\ events'[j] = m
         /\ member = "join" \/ LeaveToCome => member' = "join" \/ LeaveToCome'
<1>1. Done \in 0 .. Len(events) /\ TypeOK /\ MemberIsLast /\ JoinThenLeave
  BY DoneFacts DEF IInv
<1>2. /\ Len(events) \in Nat /\ Len(events') \in Nat /\ Len(events) <= Len(events')
      /\ \A k \in 1 .. Len(events) : events'[k] = events[k]
      /\ member = "join" /\ member' # "join" =>
           Len(events') = Len(events) + 1 /\ events'[Len(events')] = "leave"
  BY <1>1, HomeFacts
<1>3. ASSUME NEW m, NEW j \in 1 .. Len(events), Done <= j, events[j] = m
      PROVE  j \in 1 .. Len(events') /\ Done' <= j /\ events'[j] = m
  BY <1>1, <1>2, <1>3
<1>4. LeaveToCome => LeaveToCome'
  BY <1>1, <1>2 DEF LeaveToCome
<1>5. ASSUME member = "join", member' # "join" PROVE LeaveToCome'
  BY <1>1, <1>2, <1>5 DEF LeaveToCome
<1> QED BY <1>3, <1>4, <1>5

(* ... and so is all that holds of a call that does not move.              *)
LEMMA CallKeeps ==
  ASSUME IInv, HomeStep, Done' \in Nat, Done' <= Done, outrun => outrun',
         NEW c \in Callers, call'[c] = call[c]
  PROVE  CallOK(c)' /\ (~ dev_soft_fail => CallFresh(c)')
<1>1. CallOK(c)'
  BY HomeFacts DEF IInv, CallOK
<1>2. ASSUME ~ dev_soft_fail PROVE CallFresh(c)'
  <2>1. CallFresh(c)
    BY <1>2 DEF IInv
  <2> QED BY <2>1, FreshKeeps DEF CallFresh, AsOf
<1> QED BY <1>1, <1>2

LEMMA CacheKeeps ==
  ASSUME IInv, HomeStep, Done' \in Nat, Done' <= Done, outrun => outrun',
         cached' = cached, ~ dev_soft_fail
  PROVE  CacheFresh'
BY FreshKeeps DEF IInv, CacheFresh, AsOf
-----------------------------------------------------------------------------
(* Where a call may go *)

LEMMA ProceedFacts ==
  ASSUME call \in [Callers -> Calls], NEW c \in Callers, NEW pc \in PC, Proceed(c, pc)
  PROVE  /\ call' \in [Callers -> Calls] /\ \A d \in Callers \ {c} : call'[d] = call[d]
         /\ call'[c].pc = pc /\ call'[c].invited = call[c].invited
         /\ call'[c].seen = call[c].seen /\ call'[c].old = call[c].old
<1> DEFINE moved == [call[c] EXCEPT !.pc = pc]
<1>1. /\ moved \in Calls /\ moved.pc = pc /\ moved.invited = call[c].invited
      /\ moved.seen = call[c].seen /\ moved.old = call[c].old
  BY DEF Calls
<1>2. call' = [call EXCEPT ![c] = moved]
  BY DEF Proceed
<1> HIDE DEF moved
<1> QED BY <1>1, <1>2

(* ensure_room_member sends for one who has joined, and after having       *)
(* joined itself for anybody.                                              *)
LEMMA DecideFacts ==
  ASSUME call \in [Callers -> Calls], NEW c \in Callers,
         NEW m \in Membership \cup {"absent"}, Decide(c, m)
  PROVE  /\ call' \in [Callers -> Calls] /\ \A d \in Callers \ {c} : call'[d] = call[d]
         /\ call'[c].invited = call[c].invited
         /\ call[c].invited => call'[c].pc = "send" /\ call'[c].seen = call[c].seen
         /\ ~ call[c].invited =>
              /\ call'[c].pc \in {"idle", "invite", "join", "send"}
              /\ call'[c].pc = "send" => m = "join"
<1>1. CASE call[c].invited
  <2> DEFINE moved == [call[c] EXCEPT !.pc = "send", !.old = FALSE]
  <2>1. /\ moved \in Calls /\ moved.pc = "send" /\ moved.invited = call[c].invited
        /\ moved.seen = call[c].seen
    BY DEF Calls, PC
  <2>2. call' = [call EXCEPT ![c] = moved]
    BY <1>1 DEF Decide
  <2> HIDE DEF moved
  <2> QED BY <1>1, <2>1, <2>2
<1>2. CASE ~ call[c].invited
  <2> DEFINE pc == CASE m = "absent" -> "invite" [] m = "invite" -> "join"
                     [] m = "join" -> "send" [] m = "leave" -> "idle"
             moved == [Idle EXCEPT !.pc = pc]
  <2>1. pc \in {"idle", "invite", "join", "send"} /\ (pc = "send" => m = "join")
    BY DEF Membership
  <2>2. call' = [call EXCEPT ![c] = moved]
    BY <1>2 DEF Decide
  <2> HIDE DEF pc
  <2>3. moved \in Calls /\ moved.pc = pc /\ moved.invited = FALSE
    BY <2>1 DEF Calls, PC, Idle
  <2>4. call[c].invited = FALSE
    BY <1>2 DEF Calls
  <2> HIDE DEF moved
  <2> QED BY <1>2, <2>1, <2>2, <2>3, <2>4
<1> QED BY <1>1, <1>2

LEMMA LookUpFacts ==
  ASSUME TypeOK, NEW c \in Callers, LookUp(c)
  PROVE  /\ call' \in [Callers -> Calls] /\ \A d \in Callers \ {c} : call'[d] = call[d]
         /\ call'[c].invited = call[c].invited
         /\ call[c].invited => call'[c].pc \in {"read", "send"}
         /\ ~ call[c].invited =>
              /\ call'[c].pc \in {"read", "idle", "invite", "join", "send"}
              /\ call'[c].pc = "send" => cached = "join"
<1>t. call \in [Callers -> Calls]
  BY DEF TypeOK, Calls
<1>1. CASE cached = "unknown"
  <2>1. Proceed(c, "read") /\ "read" \in PC
    BY <1>1 DEF LookUp, PC
  <2> QED BY <1>t, <2>1, ProceedFacts
<1>2. CASE cached # "unknown"
  <2>1. PICK m \in Membership \cup {"absent"} : m = cached /\ Decide(c, m)
    BY <1>2 DEF LookUp, TypeOK
  <2> QED BY <1>t, <2>1, DecideFacts
<1> QED BY <1>1, <1>2

(* Nothing of the transactions is disturbed by what happens elsewhere. *)
LEMMA QueueKeeps ==
  ASSUME IInv, HomeStep, UNCHANGED delivery,
         registered' \in BOOLEAN, registered => registered'
  PROVE  /\ QueueOK' /\ Done' = Done /\ Done' \in Nat /\ Done' <= Done
         /\ acked' \in 0 .. Len(events') /\ txn' \in 0 .. Len(events')
         /\ asked' \in Handlers \cup {None} /\ run' \in [Handlers -> Runs]
<1>1. /\ Len(events) \in Nat /\ Len(events') \in Nat /\ Len(events) <= Len(events')
      /\ \A k \in 1 .. Len(events) : events'[k] = events[k]
  BY HomeFacts DEF IInv
<1>2. UNCHANGED <<acked, txn, asked, run>>
  BY DEF delivery
<1>3. /\ acked \in 0 .. Len(events) /\ txn \in 0 .. Len(events) /\ QueueOK
      /\ asked \in Handlers \cup {None} /\ run \in [Handlers -> Runs]
  BY DEF IInv, TypeOK, Runs
<1>4. Done' = Done
  BY <1>2 DEF Done
<1>5. Done \in 0 .. Len(events)
  BY DoneFacts DEF IInv
<1>6. \A h \in Handlers : AtWork(h)' = AtWork(h)
  BY <1>2 DEF AtWork
<1>7. asked # None => \A k \in acked + 1 .. run[asked].at - 1 : events'[k] = events[k]
  BY <1>1, <1>3, <1>5 DEF Done
<1>8. QueueOK'
  <2>1. \A h \in Handlers : AtWork(h)' =>
          run'[h].end <= Len(events') /\ run'[h].at <= run'[h].end + 1
    BY <1>1, <1>2, <1>3, <1>6 DEF QueueOK, Runs
  <2>2. asked # None => AtWork(asked)'
    BY <1>2, <1>3 DEF QueueOK, AtWork
  <2> QED BY <1>2, <1>3, <1>7, <2>1, <2>2 DEF QueueOK
<1> QED BY <1>1, <1>2, <1>3, <1>4, <1>5, <1>8

(* A step of one call: what is to be shown is about that call only. *)
LEMMA CallerStep ==
  ASSUME IInv, HomeStep, UNCHANGED delivery, NEW c \in Callers,
         call' \in [Callers -> Calls], \A d \in Callers \ {c} : call'[d] = call[d],
         registered' \in BOOLEAN, registered => registered', named' \in BOOLEAN,
         fails' \in 0 .. MaxFails, outrun' \in BOOLEAN, outrun => outrun',
         cached' \in Membership \cup {"unknown"},
         cached' = cached \/ (~ dev_soft_fail => CacheFresh'),
         CallOK(c)', ~ dev_soft_fail => CallFresh(c)'
  PROVE  IInv'
<1>1. /\ member' \in Membership \cup {"absent"} /\ events' \in Seq(Membership)
      /\ MemberIsLast' /\ JoinThenLeave'
  BY HomeFacts DEF IInv
<1>2. /\ QueueOK' /\ Done' = Done /\ Done' \in Nat /\ Done' <= Done
      /\ acked' \in 0 .. Len(events') /\ txn' \in 0 .. Len(events')
      /\ asked' \in Handlers \cup {None} /\ run' \in [Handlers -> Runs]
  BY QueueKeeps
<1>3. TypeOK'
  BY <1>1, <1>2 DEF TypeOK, Calls, Runs
<1>4. ASSUME NEW d \in Callers PROVE CallOK(d)' /\ (~ dev_soft_fail => CallFresh(d)')
  BY <1>2, CallKeeps
<1>5. ~ dev_soft_fail => CacheFresh'
  BY <1>2, CacheKeeps
<1> QED BY <1>1, <1>2, <1>3, <1>4, <1>5 DEF IInv

(* A call that only goes on, neither to an answer nor to the message. *)
LEMMA GoesOn ==
  ASSUME IInv, HomeStep, UNCHANGED <<delivery, cached, outrun>>, NEW c \in Callers,
         call' \in [Callers -> Calls], \A d \in Callers \ {c} : call'[d] = call[d],
         registered' \in BOOLEAN, registered => registered', named' \in BOOLEAN,
         fails' \in 0 .. MaxFails,
         call'[c].pc \notin {"answer", "send"},
         call'[c].pc = "read" /\ call'[c].invited => member' # "absent",
         call'[c].pc = "idle" => ~ call'[c].invited
  PROVE  IInv'
<1>1. outrun' \in BOOLEAN /\ cached' = cached /\ cached' \in Membership \cup {"unknown"}
      /\ (outrun => outrun') /\ UNCHANGED delivery
  BY DEF IInv, TypeOK
<1>2. CallOK(c)' /\ CallFresh(c)'
  BY DEF CallOK, CallFresh
<1> QED BY <1>1, <1>2, CallerStep
-----------------------------------------------------------------------------
(* The initial state satisfies the invariant: nothing has happened. *)
LEMMA InitInv == Init => IInv
<1> SUFFICES ASSUME Init PROVE IInv
  OBVIOUS
<1>1. Len(events) = 0 /\ events \in Seq(Membership)
  BY DEF Init
<1>2. /\ acked = 0 /\ txn = 0 /\ asked = None /\ run \in [Handlers -> Runs]
      /\ \A h \in Handlers : ~ AtWork(h)
  BY DEF Init, DeliveryInit, AtRest, Runs, AtWork
<1>3. TypeOK
  <2>1. call \in [Callers -> Calls]
    BY DEF Init, Calls, PC, Idle
  <2>2. 0 \in 0 .. Len(events) /\ 0 \in 0 .. MaxFails
    BY <1>1, ConstantsAssumption
  <2> QED BY <1>1, <1>2, <2>1, <2>2 DEF Init, TypeOK, Calls, Runs
<1>4. MemberIsLast /\ JoinThenLeave /\ QueueOK /\ CacheFresh
  BY <1>2 DEF Init, MemberIsLast, JoinThenLeave, QueueOK, CacheFresh
<1>5. \A c \in Callers : CallOK(c) /\ CallFresh(c)
  BY DEF Init, CallOK, CallFresh, Idle
<1> QED BY <1>3, <1>4, <1>5 DEF IInv

(* Each step of a call keeps it. *)
LEMMA CallSteps ==
  ASSUME IInv, NEW c \in Callers, Call(c) \/ Step(c)
  PROVE  IInv'
<1>t. /\ TypeOK /\ call \in [Callers -> Calls] /\ CallOK(c)
      /\ MemberIsLast /\ JoinThenLeave /\ QueueOK
      /\ registered \in BOOLEAN /\ named \in BOOLEAN /\ fails \in 0 .. MaxFails
      /\ outrun \in BOOLEAN /\ cached \in Membership \cup {"unknown"}
      /\ call[c] \in Calls /\ member \in Membership \cup {"absent"}
  BY DEF IInv, TypeOK, Calls
<1>f. ASSUME NoFail \/ Fail PROVE fails' \in 0 .. MaxFails
  BY <1>t, <1>f, ConstantsAssumption DEF NoFail, Fail
<1>j. ~ dev_soft_fail /\ cached = "join" => member = "join" \/ outrun \/ LeaveToCome
  BY <1>t, JoinedLately DEF IInv, CacheFresh
<1>k. HomeStep => \A d \in Callers : call'[d].pc = "send"
                    /\ (member = "join" \/ LeaveToCome) /\ UNCHANGED delivery
                    /\ UNCHANGED registered => member' = "join" \/ LeaveToCome'
  BY <1>t, QueueKeeps, FreshKeeps
<1>s. SameMember => HomeStep
  BY DEF HomeStep
<1>1. CASE Call(c)
  <2>1. /\ call[c].pc = "idle" /\ LookUp(c) /\ HomeStep
        /\ UNCHANGED <<homeserver, delivery, cached, outrun, fails>>
    BY <1>1, <1>s DEF Call, homeserver, SameMember
  <2>2. ~ call[c].invited
    BY <1>t, <2>1 DEF CallOK
  <2>3. /\ call' \in [Callers -> Calls] /\ \A d \in Callers \ {c} : call'[d] = call[d]
        /\ call'[c].invited = call[c].invited
        /\ call'[c].pc \in {"read", "idle", "invite", "join", "send"}
        /\ call'[c].pc = "send" => cached = "join"
    BY <1>t, <2>1, <2>2, LookUpFacts
  <2>4. CallOK(c)'
    BY <2>2, <2>3 DEF CallOK
  <2>5. ASSUME ~ dev_soft_fail PROVE CallFresh(c)'
    BY <1>j, <1>k, <2>1, <2>3, <2>5 DEF CallFresh, homeserver
  <2> QED BY <1>t, <2>1, <2>3, <2>4, <2>5, CallerStep DEF homeserver
<1>2. CASE ReadMember(c)
  <2> DEFINE moved == [call[c] EXCEPT !.pc = "answer", !.seen = member, !.old = FALSE]
  <2>1. /\ call[c].pc = "read" /\ HomeStep /\ call' = [call EXCEPT ![c] = moved]
        /\ UNCHANGED <<homeserver, delivery, cached, outrun, fails>>
    BY <1>2, <1>s DEF ReadMember, homeserver, SameMember
  <2>2. /\ moved \in Calls /\ moved.pc = "answer" /\ moved.seen = member
        /\ moved.invited = call[c].invited
    BY <1>t DEF Calls, PC
  <2> HIDE DEF moved
  <2>3. /\ call' \in [Callers -> Calls] /\ call'[c] = moved
        /\ \A d \in Callers \ {c} : call'[d] = call[d]
    BY <1>t, <2>1, <2>2
  <2>4. CallOK(c)'
    BY <1>t, <2>1, <2>2, <2>3 DEF CallOK
  <2>5. CallFresh(c)'
    <3>1. Len(events) \in Nat /\ Done \in 0 .. Len(events)
      BY <1>t, DoneFacts
    <3>2. Done' = Done /\ events' = events
      BY <2>1 DEF Done, delivery, homeserver
    <3>3. member # "absent" => Len(events) \in 1 .. Len(events) /\ events[Len(events)] = member
      BY <1>t, <3>1 DEF MemberIsLast
    <3> QED BY <2>2, <2>3, <3>1, <3>2, <3>3 DEF CallFresh, AsOf
  <2> QED BY <1>t, <2>1, <2>3, <2>4, <2>5, CallerStep DEF homeserver
<1>3. CASE GotMember(c)
  <2>1. /\ call[c].pc = "answer" /\ CacheAnswer(c) /\ Decide(c, call[c].seen) /\ HomeStep
        /\ UNCHANGED <<homeserver, delivery, fails>>
    BY <1>3, <1>s DEF GotMember, homeserver, SameMember
  <2>2. PICK m \in Membership \cup {"absent"} : m = call[c].seen /\ Decide(c, m)
    BY <1>t, <2>1 DEF Calls
  <2>3. /\ call' \in [Callers -> Calls] /\ \A d \in Callers \ {c} : call'[d] = call[d]
        /\ call'[c].invited = call[c].invited
        /\ call[c].invited => call'[c].pc = "send" /\ call'[c].seen = m
        /\ ~ call[c].invited =>
             /\ call'[c].pc \in {"idle", "invite", "join", "send"}
             /\ call'[c].pc = "send" => m = "join"
    BY <1>t, <2>2, DecideFacts
  <2>4. /\ m = "absent" => cached' = cached /\ outrun' = outrun
        /\ m # "absent" => cached' = m /\ outrun' = (outrun \/ call[c].old)
    BY <2>1, <2>2 DEF CacheAnswer
  <2>5. /\ outrun' \in BOOLEAN /\ (outrun => outrun')
        /\ cached' \in Membership \cup {"unknown"}
    BY <1>t, <2>2, <2>4 DEF Calls
  <2>6. Done' = Done /\ events' = events /\ member' = member
        /\ (LeaveToCome <=> LeaveToCome')
    BY <2>1 DEF Done, LeaveToCome, delivery, homeserver
  <2>7. ASSUME ~ dev_soft_fail, m # "absent", ~ outrun' PROVE AsOf(m)
    <3>1. ~ call[c].old /\ CallFresh(c)
      BY <1>t, <2>4, <2>7 DEF IInv, Calls
    <3> QED BY <2>1, <2>2, <2>7, <3>1 DEF CallFresh, AsOf
  <2>8. ~ dev_soft_fail => CacheFresh'
    <3>1. ASSUME ~ dev_soft_fail, m # "absent" PROVE CacheFresh'
      BY <2>4, <2>6, <2>7, <3>1 DEF CacheFresh, AsOf
    <3>2. ASSUME ~ dev_soft_fail, m = "absent" PROVE CacheFresh'
      BY <2>4, <2>6, <3>2 DEF IInv, CacheFresh, AsOf
    <3> QED BY <3>1, <3>2
  <2>9. CallOK(c)'
    BY <1>t, <2>1, <2>2, <2>3 DEF CallOK
  <2>10. ASSUME ~ dev_soft_fail PROVE CallFresh(c)'
    <3>1. CASE m = "join"
      <4>1. outrun' \/ member = "join" \/ LeaveToCome
        BY <1>t, <2>7, <2>10, <3>1, JoinedLately
      <4> QED BY <2>3, <2>6, <4>1 DEF CallFresh
    <3>2. CASE m # "join"
      <4>1. call[c].invited => m \in {"invite", "leave"}
        BY <1>t, <2>1, <2>2, <3>2 DEF CallOK, Membership
      <4> QED BY <2>3, <3>2, <4>1 DEF CallFresh
    <3> QED BY <3>1, <3>2
  <2> QED BY <1>t, <2>1, <2>3, <2>5, <2>8, <2>9, <2>10, CallerStep DEF homeserver
<1>4. CASE InviteUser(c)
  <2> DEFINE moved == [call[c] EXCEPT !.pc = "join", !.invited = TRUE]
  <2>1. /\ ServeInvite \/ SameMember
        /\ NoFail \/ Fail
        /\ call' = [call EXCEPT ![c] = moved]
        /\ UNCHANGED <<registered, named, delivery, cached, outrun>>
    BY <1>4 DEF InviteUser
  <2>2. HomeStep
    BY <1>s, <1>t, <2>1, ServeFacts
  <2>3. moved \in Calls /\ moved.pc = "join"
    BY <1>t DEF Calls, PC
  <2> HIDE DEF moved
  <2>4. /\ call' \in [Callers -> Calls] /\ call'[c].pc = "join"
        /\ \A d \in Callers \ {c} : call'[d] = call[d]
    BY <1>t, <2>1, <2>3
  <2> QED BY <1>t, <1>f, <2>1, <2>2, <2>4, GoesOn
<1>5. CASE JoinRoom(c)
  <2>1. UNCHANGED <<registered, named, delivery, cached, outrun, fails>>
    BY <1>5 DEF JoinRoom
  <2>2. CASE ~ registered
    <3>1. Proceed(c, "register") /\ SameMember /\ "register" \in PC
      BY <1>5, <2>2 DEF JoinRoom, PC
    <3>2. /\ call' \in [Callers -> Calls] /\ call'[c].pc = "register"
          /\ \A d \in Callers \ {c} : call'[d] = call[d]
      BY <1>t, <3>1, ProceedFacts
    <3> QED BY <1>s, <1>t, <2>1, <3>1, <3>2, GoesOn
  <2>3. CASE registered
    <3>1. ServeJoin /\ Joined(c)
      BY <1>5, <2>3 DEF JoinRoom
    <3>2. HomeStep /\ member' = "join"
      BY <1>t, <3>1, ServeFacts
    <3>3. /\ call' \in [Callers -> Calls] /\ \A d \in Callers \ {c} : call'[d] = call[d]
          /\ call'[c].pc \in {"read", "send"}
          /\ call'[c].invited = call[c].invited
      <4>1. CASE call[c].invited
        BY <1>t, <3>1, <4>1, LookUpFacts DEF Joined
      <4>2. CASE ~ call[c].invited
        <5>1. Proceed(c, "send") /\ "send" \in PC
          BY <3>1, <4>2 DEF Joined, PC
        <5> QED BY <1>t, <5>1, ProceedFacts
      <4> QED BY <4>1, <4>2
    <3>4. CallOK(c)' /\ CallFresh(c)'
      BY <3>2, <3>3 DEF CallOK, CallFresh
    <3> QED BY <1>t, <2>1, <3>2, <3>3, <3>4, CallerStep
  <2> QED BY <2>2, <2>3
<1>6. CASE RegisterUser(c)
  <2>1. /\ call[c].pc = "register" /\ registered' = TRUE
        /\ NoFail \/ Fail
        /\ SameMember /\ UNCHANGED <<named, delivery, cached, outrun>>
    BY <1>6 DEF RegisterUser, SameMember
  <2>2. /\ call' \in [Callers -> Calls] /\ \A d \in Callers \ {c} : call'[d] = call[d]
        /\ call'[c].pc \in {"rejoin", "name", "register"}
    <3>1. CASE UNCHANGED call
      BY <1>t, <2>1, <3>1
    <3>2. CASE ~ UNCHANGED call
      <4>1. PICK pc \in {"rejoin", "name"} : Proceed(c, pc)
        BY <1>6, <3>2 DEF RegisterUser
      <4> QED BY <1>t, <4>1, ProceedFacts DEF PC
    <3> QED BY <3>1, <3>2
  <2> QED BY <1>s, <1>t, <1>f, <2>1, <2>2, GoesOn
<1>7. CASE SetDisplayName(c)
  <2>1. /\ named' = TRUE /\ Proceed(c, "rejoin") /\ SameMember /\ "rejoin" \in PC
        /\ UNCHANGED <<registered, delivery, cached, outrun, fails>>
    BY <1>7 DEF SetDisplayName, SameMember, PC
  <2>2. /\ call' \in [Callers -> Calls] /\ call'[c].pc = "rejoin"
        /\ \A d \in Callers \ {c} : call'[d] = call[d]
    BY <1>t, <2>1, ProceedFacts
  <2> QED BY <1>s, <1>t, <2>1, <2>2, GoesOn
<1>8. CASE SendMessage(c) \/ CallFails(c)
  <2>1. /\ EndCall(c) /\ SameMember /\ fails' \in 0 .. MaxFails
        /\ UNCHANGED <<homeserver, delivery, cached, outrun>>
    BY <1>8, <1>f DEF SendMessage, CallFails, SameMember, homeserver, NoFail
  <2>2. Idle \in Calls /\ Idle.pc = "idle" /\ Idle.invited = FALSE
    BY DEF Idle, Calls, PC
  <2>3. /\ call' \in [Callers -> Calls] /\ call'[c] = Idle
        /\ \A d \in Callers \ {c} : call'[d] = call[d]
    BY <1>t, <2>1, <2>2 DEF EndCall
  <2> QED BY <1>s, <1>t, <2>1, <2>2, <2>3, GoesOn DEF homeserver
<1> QED BY <1>1, <1>2, <1>3, <1>4, <1>5, <1>6, <1>7, <1>8 DEF Step

-----------------------------------------------------------------------------
(* The transactions *)

(* What a step of the transactions has to keep of the types. *)
LEMMA DeliveryTypes ==
  ASSUME TypeOK, SameMember, UNCHANGED <<registered, named>>,
         acked' \in 0 .. Len(events), txn' \in 0 .. Len(events),
         asked' \in Handlers \cup {None}, run' \in [Handlers -> Runs],
         fails' \in 0 .. MaxFails, call' \in [Callers -> Calls],
         outrun' \in BOOLEAN, cached' \in Membership \cup {"unknown"}
  PROVE  TypeOK'
<1>1. Len(events') = Len(events) /\ events' = events /\ member' = member
  BY DEF SameMember
<1>2. events' \in Seq(Membership) /\ member' \in Membership \cup {"absent"}
      /\ registered' \in BOOLEAN /\ named' \in BOOLEAN
  BY <1>1 DEF TypeOK
<1> QED BY <1>1, <1>2 DEF TypeOK, Calls, Runs

(* A step that tells the cache nothing and leaves the calls where they are *)
(* has only its own state to answer for.                                   *)
LEMMA ElsewhereStep ==
  ASSUME IInv, HomeStep, TypeOK', QueueOK',
         ~ dev_soft_fail => Done' \in Nat /\ Done' <= Done,
         UNCHANGED <<cached, call, outrun>>
  PROVE  IInv'
<1>1. MemberIsLast' /\ JoinThenLeave' /\ (member # "absent" => member' # "absent")
  BY HomeFacts DEF IInv
<1>2. \A c \in Callers : CallOK(c)'
  BY <1>1 DEF IInv, CallOK
<1>3. ASSUME ~ dev_soft_fail PROVE CacheFresh' /\ \A c \in Callers : CallFresh(c)'
  BY <1>3, CacheKeeps, CallKeeps
<1> QED BY <1>1, <1>2, <1>3 DEF IInv

(* A request ends.  Its answer acknowledges the transaction only if it is  *)
(* waited for, and then only if it got to the end or errors are excused.   *)
LEMMA EndStep ==
  ASSUME IInv, NEW h \in Handlers, AtWork(h), NEW ok \in BOOLEAN,
         run' = [run EXCEPT ![h] = AtRest], Acknowledge(h, ok),
         ok => dev_soft_fail \/ (run[h].pc = "handle" /\ run[h].at = run[h].end + 1),
         SameMember, UNCHANGED <<registered, named, cached, call, outrun>>,
         fails' \in 0 .. MaxFails
  PROVE  /\ IInv'
         /\ ~ dev_soft_fail => \A k \in acked + 1 .. Len(events) :
                                 events[k] = "invite" /\ ~ registered => acked' < k
<1>t. /\ TypeOK /\ QueueOK /\ Len(events) \in Nat /\ acked \in 0 .. Len(events)
      /\ txn \in 0 .. Len(events) /\ asked \in Handlers \cup {None}
      /\ run \in [Handlers -> Runs] /\ Done \in 0 .. Len(events) /\ acked <= Done
      /\ call \in [Callers -> Calls] /\ outrun \in BOOLEAN
      /\ cached \in Membership \cup {"unknown"} /\ HomeStep
  BY DoneFacts DEF IInv, TypeOK, Calls, Runs, HomeStep
<1>1. /\ run' \in [Handlers -> Runs] /\ ~ AtWork(h)' /\ events' = events
      /\ \A g \in Handlers \ {h} : run'[g] = run[g] /\ AtWork(g)' = AtWork(g)
  BY <1>t DEF AtRest, Runs, AtWork, SameMember
<1>2. CASE asked = h /\ ok
  <2>1. asked' = None /\ acked' = txn /\ txn' = 0 /\ acked < txn /\ run[h].end = txn
    BY <1>t, <1>2, TransactionsAssumption DEF Acknowledge, QueueOK
  <2>2. QueueOK'
    BY <1>t, <1>1, <2>1 DEF QueueOK
  <2>3. TypeOK'
    BY <1>t, <1>1, <2>1, DeliveryTypes
  <2>4. ASSUME ~ dev_soft_fail PROVE Done' = Done
    BY <1>t, <1>2, <2>1, <2>4, TransactionsAssumption DEF Done
  <2>5. ASSUME ~ dev_soft_fail, ~ registered, NEW k \in acked + 1 .. Len(events),
               events[k] = "invite"
        PROVE  acked' < k
    BY <1>t, <1>2, <2>1, <2>5, TransactionsAssumption DEF QueueOK
  <2> QED BY <1>t, <2>2, <2>3, <2>4, <2>5, ElsewhereStep
<1>3. CASE ~ (asked = h /\ ok)
  <2>1. acked' = acked /\ txn' = txn /\ asked' \in {asked, None} /\ asked' # h
    BY <1>3, TransactionsAssumption DEF Acknowledge
  <2>2. QueueOK'
    <3>1. asked' # None => asked' \in Handlers \ {h} /\ asked' = asked
      BY <1>t, <2>1
    <3> QED BY <1>t, <1>1, <2>1, <3>1 DEF QueueOK
  <2>3. TypeOK'
    BY <1>t, <1>1, <2>1, DeliveryTypes
  <2>4. Done' \in {Done, acked}
    BY <1>t, <1>1, <2>1 DEF Done
  <2> QED BY <1>t, <2>1, <2>2, <2>3, <2>4, ElsewhereStep
<1> QED BY <1>2, <1>3

(* What the homeserver's transactions do keeps it too. *)
LEMMA DeliverSteps ==
  ASSUME IInv, Push \/ GiveUp \/ \E h \in Handlers : Handle(h)
  PROVE  /\ IInv'
         /\ ~ dev_soft_fail => \A k \in acked + 1 .. Len(events) :
                                 events[k] = "invite" /\ ~ registered => acked' < k
<1> DEFINE Blocked == ~ dev_soft_fail => \A k \in acked + 1 .. Len(events) :
                                 events[k] = "invite" /\ ~ registered => acked' < k
<1>t. /\ TypeOK /\ QueueOK /\ events \in Seq(Membership) /\ Len(events) \in Nat
      /\ member \in Membership \cup {"absent"}
      /\ acked \in 0 .. Len(events) /\ txn \in 0 .. Len(events)
      /\ asked \in Handlers \cup {None} /\ run \in [Handlers -> Runs]
      /\ fails \in 0 .. MaxFails /\ Done \in 0 .. Len(events) /\ acked <= Done
      /\ call \in [Callers -> Calls] /\ outrun \in BOOLEAN
      /\ cached \in Membership \cup {"unknown"}
  BY DoneFacts DEF IInv, TypeOK, Calls, Runs
<1>b. acked' = acked => Blocked
  BY <1>t
<1>f. ASSUME NoFail \/ Fail PROVE fails' \in 0 .. MaxFails
  BY <1>t, <1>f, ConstantsAssumption DEF NoFail, Fail
<1>s. SameMember => HomeStep
  BY DEF HomeStep
<1>w. ASSUME NEW h \in Handlers, AtWork(h)
      PROVE  /\ run[h].at \in 1 .. Len(events) + 1 /\ run[h].end <= Len(events)
             /\ run[h].at <= run[h].end + 1 /\ run[h].at \in Nat /\ run[h].end \in Nat
  BY <1>t, <1>w DEF QueueOK, Runs
<1> HIDE DEF Blocked
<1>1. CASE Push
  <2>1. PICK h \in Handlers :
          /\ run[h].pc = "idle" /\ asked' = h
          /\ run' = [run EXCEPT ![h] = [pc |-> "handle", at |-> acked + 1, end |-> txn']]
    BY <1>1 DEF Push, PushUpTo
  <2>2. /\ asked = None /\ acked < Len(events) /\ txn' \in acked + 1 .. Len(events)
        /\ acked' = acked /\ SameMember
        /\ UNCHANGED <<homeserver, cached, call, outrun, fails>>
    BY <1>1, <1>t DEF Push, PushUpTo, QueueOK, homeserver, SameMember
  <2> DEFINE new == [pc |-> "handle", at |-> acked + 1, end |-> txn']
  <2>3. new \in Runs /\ new.pc = "handle" /\ new.at = acked + 1 /\ new.end = txn'
    BY <1>t, <2>2 DEF Runs
  <2> HIDE DEF new
  <2>4. /\ run' \in [Handlers -> Runs] /\ run'[h] = new
        /\ \A g \in Handlers \ {h} : run'[g] = run[g]
    BY <1>t, <2>1, <2>3 DEF new
  <2>5. QueueOK'
    <3>1. \A g \in Handlers : AtWork(g)' =>
            run'[g].end <= Len(events') /\ run'[g].at <= run'[g].end + 1
      BY <1>t, <2>2, <2>3, <2>4 DEF QueueOK, AtWork, homeserver
    <3>2. /\ AtWork(h)' /\ acked' < txn' /\ run'[h].end = txn' /\ acked' < run'[h].at
          /\ acked' + 1 .. run'[h].at - 1 = {}
      BY <1>t, <2>2, <2>3, <2>4 DEF AtWork
    <3>3. asked' = h
      BY <2>1
    <3> QED BY <3>1, <3>2, <3>3 DEF QueueOK
  <2>6. Done' = Done
    BY <1>t, <2>1, <2>2, <2>3, <2>4, TransactionsAssumption DEF Done
  <2>7. TypeOK'
    BY <1>t, <2>1, <2>2, <2>4, DeliveryTypes DEF homeserver
  <2> QED BY <1>b, <1>s, <1>t, <2>2, <2>5, <2>6, <2>7, ElsewhereStep
<1>2. CASE GiveUp
  <2>1. /\ asked' = None /\ acked' = acked /\ txn' = txn /\ run' = run /\ SameMember
        /\ UNCHANGED <<homeserver, cached, call, outrun>> /\ fails' \in 0 .. MaxFails
    BY <1>2, <1>f DEF GiveUp, StopWaiting, homeserver, SameMember
  <2>2. QueueOK' /\ Done' = acked
    BY <1>t, <2>1 DEF QueueOK, Done, AtWork, homeserver
  <2>3. TypeOK'
    BY <1>t, <2>1, DeliveryTypes DEF homeserver
  <2> QED BY <1>b, <1>s, <1>t, <2>1, <2>2, <2>3, ElsewhereStep DEF homeserver
<1>3. ASSUME NEW h \in Handlers, HandleRoomMember(h) PROVE IInv' /\ Blocked
  <2> DEFINE k == run[h].at
             moved == [run[h] EXCEPT !.pc = IF events[k] = "invite" THEN "join" ELSE "handle",
                                     !.at = k + 1]
  <2>1. /\ AtWork(h) /\ run[h].pc = "handle" /\ k <= run[h].end /\ SameMember /\ HomeStep
        /\ cached' = events[k] /\ outrun' = (k < Done) /\ run' = [run EXCEPT ![h] = moved]
        /\ call' = [c \in Callers |-> [call[c] EXCEPT !.old = call[c].pc # "idle"]]
        /\ UNCHANGED <<homeserver, acked, txn, asked, fails>>
    BY <1>3, <1>s, <1>t
       DEF HandleRoomMember, HasNext, CacheEvent, homeserver, SameMember, AtWork, Runs
  <2>2. k \in 1 .. Len(events) /\ k + 1 \in Nat \ {0} /\ events[k] \in Membership
    BY <1>t, <1>w, <2>1
  <2>3. /\ moved \in Runs /\ moved.at = k + 1 /\ moved.end = run[h].end
        /\ moved.pc = (IF events[k] = "invite" THEN "join" ELSE "handle")
    BY <1>t, <2>2 DEF Runs
  <2> HIDE DEF moved
  <2>4. /\ run' \in [Handlers -> Runs] /\ run'[h] = moved
        /\ \A g \in Handlers \ {h} : run'[g] = run[g]
    BY <1>t, <2>1, <2>3
  <2>5. Done' \in {Done, k} /\ (Done' = k => k >= Done \/ asked # h)
        /\ (asked = h => Done' = k /\ Done = k - 1)
        /\ (asked # h => Done' = Done)
    BY <1>t, <2>1, <2>2, <2>3, <2>4, TransactionsAssumption DEF Done
  <2>6. QueueOK'
    <3>1. \A g \in Handlers : AtWork(g)' =>
            run'[g].end <= Len(events') /\ run'[g].at <= run'[g].end + 1
      BY <1>t, <1>w, <2>1, <2>3, <2>4 DEF QueueOK, AtWork, homeserver
    <3>2. CASE asked = h
      <4>1. AtWork(h)' /\ run'[h].end = txn' /\ acked' < run'[h].at
        BY <1>t, <2>1, <2>2, <2>3, <2>4, <3>2, TransactionsAssumption DEF QueueOK, AtWork
      <4>2. ASSUME ~ registered, NEW j \in acked + 1 .. run'[h].at - 1, events[j] = "invite"
            PROVE  run'[h].pc = "join" /\ j = run'[h].at - 1
        <5>1. \A i \in acked + 1 .. k - 1 : events[i] # "invite"
          BY <1>t, <2>1, <3>2, <4>2, TransactionsAssumption DEF QueueOK
        <5>2. j = k
          BY <1>t, <2>2, <2>3, <2>4, <4>2, <5>1
        <5> QED BY <2>2, <2>3, <2>4, <4>2, <5>2
      <4> QED BY <1>t, <2>1, <3>1, <3>2, <4>1, <4>2 DEF QueueOK, homeserver
    <3>3. CASE asked # h
      <4>1. asked # None => run'[asked] = run[asked]
        BY <1>t, <2>4, <3>3
      <4> QED BY <1>t, <2>1, <3>1, <4>1 DEF QueueOK, AtWork, homeserver
    <3> QED BY <3>2, <3>3
  <2>7. ASSUME NEW c \in Callers
        PROVE  call'[c] \in Calls /\ call'[c].old = (call[c].pc # "idle")
               /\ call'[c].pc = call[c].pc /\ call'[c].seen = call[c].seen
               /\ call'[c].invited = call[c].invited
    BY <1>t, <2>1 DEF Calls
  <2>8. call' \in [Callers -> Calls]
    BY <2>1, <2>7
  <2>9. TypeOK'
    <3>1. /\ acked' \in 0 .. Len(events) /\ txn' \in 0 .. Len(events)
          /\ asked' \in Handlers \cup {None} /\ fails' \in 0 .. MaxFails
          /\ outrun' \in BOOLEAN /\ cached' \in Membership \cup {"unknown"}
      BY <1>t, <2>1, <2>2
    <3> QED BY <1>t, <2>1, <2>4, <2>8, <3>1, DeliveryTypes DEF homeserver
  <2>10. ASSUME NEW c \in Callers PROVE CallOK(c)' /\ CallFresh(c)'
    <3>1. CallOK(c)
      BY DEF IInv
    <3> QED BY <2>1, <2>7, <3>1 DEF CallOK, CallFresh, homeserver
  <2>11. CacheFresh'
    <3>1. ~ outrun' => ~ (k < Done)
      BY <2>1, Zenon
    <3>2. ~ outrun' => Done' <= k
      BY <1>t, <2>2, <2>5, <3>1
    <3> QED BY <2>1, <2>2, <3>2 DEF CacheFresh, AsOf, homeserver
  <2>12. MemberIsLast' /\ JoinThenLeave'
    BY HomeFacts, <2>1 DEF IInv
  <2> QED BY <1>b, <2>1, <2>6, <2>9, <2>10, <2>11, <2>12 DEF IInv
<1>4. ASSUME NEW h \in Handlers, JoinInvited(h) PROVE IInv' /\ Blocked
  <2>1. AtWork(h) /\ run[h].pc = "join" /\ fails' \in 0 .. MaxFails
        /\ UNCHANGED <<registered, named, cached, call, outrun>>
    BY <1>4, <1>f DEF JoinInvited, AtWork
  <2>2. CASE registered /\ ServeJoin /\ Goto(h, "handle") /\ UNCHANGED <<acked, txn, asked>>
    <3>1. HomeStep
      BY <1>t, <2>2, ServeFacts
    <3>2. /\ Len(events') \in Nat /\ Len(events) <= Len(events')
          /\ member' \in Membership \cup {"absent"} /\ events' \in Seq(Membership)
      BY <3>1, HomeFacts DEF IInv
    <3> DEFINE moved == [run[h] EXCEPT !.pc = "handle"]
    <3>3. moved \in Runs /\ moved.pc = "handle" /\ moved.at = run[h].at /\ moved.end = run[h].end
          /\ run' = [run EXCEPT ![h] = moved]
      BY <1>t, <2>2 DEF Runs, Goto
    <3> HIDE DEF moved
    <3>4. /\ run' \in [Handlers -> Runs]
          /\ \A g \in Handlers : run'[g].at = run[g].at /\ run'[g].end = run[g].end
                               /\ AtWork(g)' = AtWork(g)
      BY <1>t, <2>1, <3>3 DEF AtWork
    <3>5. Done' = Done
      BY <1>t, <2>2, <3>4 DEF Done
    <3>6. QueueOK'
      <4>1. \A g \in Handlers : AtWork(g)' =>
              run'[g].end <= Len(events') /\ run'[g].at <= run'[g].end + 1
        BY <1>t, <1>w, <3>2, <3>4
      <4>2. /\ asked' = asked /\ acked' = acked /\ txn' = txn
            /\ asked # None => /\ run'[asked].pc # "idle" /\ run'[asked].end = txn
                               /\ acked < run'[asked].at /\ acked < txn
        BY <1>t, <2>2, <3>4 DEF QueueOK, AtWork
      <4>3. registered' /\ registered
        BY <2>1, <2>2
      <4> QED BY <1>t, <4>1, <4>2, <4>3 DEF QueueOK, AtWork
    <3>7. TypeOK'
      <4>1. /\ acked' \in 0 .. Len(events') /\ txn' \in 0 .. Len(events')
            /\ asked' \in Handlers \cup {None}
        BY <1>t, <2>2, <3>2
      <4>2. registered' \in BOOLEAN /\ named' \in BOOLEAN
        BY <2>1 DEF IInv, TypeOK
      <4> QED BY <1>t, <2>1, <3>2, <3>4, <4>1, <4>2 DEF TypeOK, Calls, Runs
    <3> QED BY <1>b, <1>t, <2>1, <2>2, <3>1, <3>5, <3>6, <3>7, ElsewhereStep
  <2>3. CASE SameMember /\ Abort(h)
    BY <2>1, <2>3, EndStep, TransactionsAssumption DEF Abort, ErrorIsOk, Blocked
  <2> QED BY <1>4, <2>2, <2>3 DEF JoinInvited
<1>5. ASSUME NEW h \in Handlers, Answer(h) PROVE IInv' /\ Blocked
  <2>1. /\ AtWork(h) /\ run[h].pc = "handle" /\ run[h].at > run[h].end
        /\ run' = [run EXCEPT ![h] = AtRest] /\ Acknowledge(h, TRUE) /\ SameMember
        /\ fails' \in 0 .. MaxFails /\ UNCHANGED <<registered, named, cached, call, outrun>>
    BY <1>5, <1>t DEF Answer, Finish, homeserver, SameMember, AtWork
  <2>2. run[h].at = run[h].end + 1
    BY <1>w, <2>1
  <2> QED BY <2>1, <2>2, EndStep DEF Blocked
<1> QED BY <1>1, <1>2, <1>3, <1>4, <1>5 DEF Handle, Blocked

(* One step of the bridge, the homeserver or somebody else. *)
LEMMA InvStep == IInv /\ [Next]_vars => IInv'
<1> SUFFICES ASSUME IInv, [Next]_vars PROVE IInv'
  OBVIOUS
<1>t. /\ TypeOK /\ QueueOK /\ Len(events) \in Nat /\ Done \in 0 .. Len(events)
      /\ acked \in 0 .. Len(events) /\ txn \in 0 .. Len(events)
      /\ fails \in 0 .. MaxFails /\ acked <= Done
      /\ registered \in BOOLEAN /\ named \in BOOLEAN
      /\ outrun \in BOOLEAN /\ cached \in Membership \cup {"unknown"}
      /\ call \in [Callers -> Calls]
  BY DoneFacts DEF IInv, TypeOK, Calls
<1>1. CASE Others \/ UNCHANGED vars
  <2>1. /\ HomeStep /\ UNCHANGED <<registered, named, delivery, cached, call, outrun, fails>>
    BY <1>1, <1>t
       DEF Others, vars, homeserver, HomeStep, SameMember, Becomes, Membership
  <2>2. /\ QueueOK' /\ Done' = Done
        /\ acked' \in 0 .. Len(events') /\ txn' \in 0 .. Len(events')
        /\ asked' \in Handlers \cup {None} /\ run' \in [Handlers -> Runs]
    BY <1>t, <2>1, QueueKeeps
  <2>3. TypeOK'
    <3>1. member' \in Membership \cup {"absent"} /\ events' \in Seq(Membership)
      BY <2>1, HomeFacts DEF IInv
    <3> QED BY <1>t, <2>1, <2>2, <3>1 DEF TypeOK, Calls, Runs
  <2> QED BY <1>t, <2>1, <2>2, <2>3, ElsewhereStep
<1>2. CASE Restart
  <2>1. /\ SameMember /\ HomeStep /\ asked' = None /\ cached' = "unknown"
        /\ outrun' = FALSE /\ call' = [c \in Callers |-> Idle]
        /\ run' = [h \in Handlers |-> AtRest] /\ fails' \in 0 .. MaxFails
        /\ UNCHANGED <<homeserver, acked, txn>>
    BY <1>2, <1>t, ConstantsAssumption
       DEF Restart, ForgetRuns, Fail, HomeStep, SameMember, homeserver
  <2>2. call' \in [Callers -> Calls]
    BY <2>1 DEF Calls, PC, Idle
  <2>3. MemberIsLast' /\ JoinThenLeave'
    BY <2>1, HomeFacts DEF IInv
  <2>4. run' \in [Handlers -> Runs] /\ \A h \in Handlers : ~ AtWork(h)'
    BY <2>1 DEF Runs, AtRest, AtWork
  <2>5. TypeOK'
    BY <1>t, <2>1, <2>2, <2>4, DeliveryTypes DEF homeserver
  <2>6. QueueOK' /\ CacheFresh'
    BY <1>t, <2>1, <2>4 DEF QueueOK, CacheFresh
  <2>7. \A c \in Callers : CallOK(c)' /\ CallFresh(c)'
    BY <2>1 DEF CallOK, CallFresh, Idle
  <2> QED BY <2>3, <2>5, <2>6, <2>7 DEF IInv
<1> QED BY <1>1, <1>2, CallSteps, DeliverSteps DEF Next

(* Every reachable state satisfies IInv. *)
THEOREM InductiveInvariant == Spec => []IInv
BY InitInv, InvStep, PTL DEF Spec

-----------------------------------------------------------------------------
(* The variables keep their types: no handler runs past the events that    *)
(* were pushed.                                                            *)
THEOREM TypeCorrect == Spec => []TypeOK
<1>1. IInv => TypeOK
  BY DEF IInv
<1> QED BY <1>1, InductiveInvariant, PTL

(* ensure_room_member's assertion that there is a membership never fails,  *)
(* whatever becomes of the cache, the requests and the puppet.             *)
THEOREM AssertionHolds == Spec => []AssertHolds
<1>1. IInv => AssertHolds
  BY DEF IInv, AssertHolds, CallOK
<1> QED BY <1>1, InductiveInvariant, PTL

(* Without dev_soft_fail the cache is right once everything was pushed,    *)
(* unless an old answer overtook an event.                                 *)
THEOREM CacheRight == ~ dev_soft_fail => (Spec => []CacheCatchesUp)
<1> SUFFICES ASSUME ~ dev_soft_fail PROVE Spec => []CacheCatchesUp
  OBVIOUS
<1>1. ASSUME IInv, acked = Len(events), asked = None, cached # "unknown", ~ outrun
      PROVE  cached = member
  <2>1. PICK j \in 1 .. Len(events) : Done <= j /\ events[j] = cached
    BY <1>1 DEF IInv, CacheFresh, AsOf
  <2>2. Done = Len(events) /\ Len(events) \in Nat
    BY <1>1 DEF IInv, TypeOK, Done
  <2>3. j = Len(events) /\ MemberIsLast
    BY <1>1, <2>1, <2>2 DEF IInv
  <2> QED BY <2>1, <2>2, <2>3 DEF MemberIsLast
<1>2. IInv => CacheCatchesUp
  BY <1>1 DEF CacheCatchesUp
<1> QED BY <1>2, InductiveInvariant, PTL

(* Without dev_soft_fail a puppet is in the room when it posts, or one of  *)
(* the races MembersPost names has happened.                               *)
THEOREM PostersAreMembers == ~ dev_soft_fail => (Spec => []MembersPost)
<1> SUFFICES ASSUME ~ dev_soft_fail PROVE Spec => []MembersPost
  OBVIOUS
<1>1. ASSUME IInv, LeaveToCome PROVE \E k \in acked + 1 .. Len(events) : events[k] = "leave"
  <2>1. PICK k \in 1 .. Len(events) : Done < k /\ events[k] = "leave"
    BY <1>1 DEF LeaveToCome
  <2>2. acked <= Done /\ acked \in Nat /\ Done \in Nat
    BY <1>1, DoneFacts DEF IInv, TypeOK
  <2> QED BY <2>1, <2>2
<1>2. IInv => MembersPost
  BY <1>1 DEF IInv, MembersPost, CallFresh
<1> QED BY <1>2, InductiveInvariant, PTL

(* A puppet that was registered but not named stays nameless: no step of   *)
(* any call but the one that registered it sets the display name.          *)
THEOREM NamelessForGood == Spec => NamelessStays
<1> DEFINE Stays == registered /\ ~ named /\ (\A c \in Callers : call[c].pc # "name")
                      => ~ named' /\ \A c \in Callers : call'[c].pc # "name"
<1>1. ASSUME IInv, [Next]_vars PROVE [Stays]_vars
  <2> SUFFICES ASSUME registered, ~ named, \A c \in Callers : call[c].pc # "name"
               PROVE  ~ named' /\ \A c \in Callers : call'[c].pc # "name"
    OBVIOUS
  <2>t. TypeOK /\ call \in [Callers -> Calls]
    BY <1>1 DEF IInv, TypeOK, Calls
  <2>1. ASSUME NEW c \in Callers, call' \in [Callers -> Calls], call'[c].pc # "name",
               \A d \in Callers \ {c} : call'[d] = call[d]
        PROVE  \A d \in Callers : call'[d].pc # "name"
    BY <2>1
  <2>2. ASSUME NEW c \in Callers, LookUp(c) PROVE \A d \in Callers : call'[d].pc # "name"
    BY <2>t, <2>1, <2>2, LookUpFacts
  <2>3. ASSUME NEW c \in Callers, NEW pc \in PC \ {"name"}, Proceed(c, pc)
        PROVE  \A d \in Callers : call'[d].pc # "name"
    BY <2>t, <2>1, <2>3, ProceedFacts
  <2>4. ASSUME NEW c \in Callers, Call(c) PROVE Stays
    BY <2>2, <2>4 DEF Call, homeserver
  <2>5. ASSUME NEW c \in Callers, ReadMember(c) PROVE Stays
    BY <2>t, <2>5 DEF ReadMember, homeserver, Calls
  <2>6. ASSUME NEW c \in Callers, GotMember(c) PROVE Stays
    <3>1. PICK m \in Membership \cup {"absent"} : Decide(c, m)
      BY <2>t, <2>6 DEF GotMember, Calls
    <3>2. call'[c].pc # "name"
      BY <2>t, <3>1, DecideFacts
    <3> QED BY <2>t, <2>1, <2>6, <3>1, <3>2, DecideFacts DEF GotMember, homeserver
  <2>7. ASSUME NEW c \in Callers, InviteUser(c) PROVE Stays
    BY <2>t, <2>7 DEF InviteUser, Calls
  <2>8. ASSUME NEW c \in Callers, JoinRoom(c) PROVE Stays
    BY <2>2, <2>3, <2>8 DEF JoinRoom, Joined, PC
  <2>9. ASSUME NEW c \in Callers, RegisterUser(c) PROVE Stays
    BY <2>3, <2>9 DEF RegisterUser, PC
  <2>10. ASSUME NEW c \in Callers, SetDisplayName(c) PROVE FALSE
    BY <2>10 DEF SetDisplayName
  <2>11. ASSUME NEW c \in Callers, SendMessage(c) \/ CallFails(c) PROVE Stays
    <3>1. call' = [call EXCEPT ![c] = Idle] /\ Idle \in Calls /\ Idle.pc # "name"
      BY <2>11 DEF SendMessage, CallFails, EndCall, Idle, Calls, PC
    <3>2. named' = named
      BY <2>11 DEF SendMessage, CallFails, homeserver
    <3> QED BY <2>t, <2>1, <3>1, <3>2
  <2>12. CASE Push \/ GiveUp \/ \E h \in Handlers : Handle(h)
    <3>1. UNCHANGED named /\ (UNCHANGED call \/ \E h \in Handlers : CacheEvent(h))
      BY <2>12 DEF Push, GiveUp, Handle, HandleRoomMember, JoinInvited, Answer, homeserver
    <3> QED BY <2>t, <3>1 DEF CacheEvent, Calls
  <2>13. CASE Others \/ Restart \/ UNCHANGED vars
    <3>1. CASE Restart
      <4>1. named' = named /\ call' = [c \in Callers |-> Idle]
        BY <3>1 DEF Restart, homeserver
      <4>2. Idle.pc # "name"
        BY DEF Idle
      <4> QED BY <4>1, <4>2
    <3>2. CASE Others \/ UNCHANGED vars
      <4>1. named' = named /\ call' = call
        BY <3>2 DEF Others, vars, homeserver
      <4> QED BY <4>1
    <3> QED BY <2>13, <3>1, <3>2
  <2> QED BY <1>1, <2>4, <2>5, <2>6, <2>7, <2>8, <2>9, <2>10, <2>11, <2>12, <2>13
          DEF Next, Step
<1> QED BY <1>1, InductiveInvariant, PTL DEF Spec, NamelessStays

(* Without dev_soft_fail no invitation is acknowledged before the puppet's *)
(* user exists, nor is anything behind it.                                 *)
THEOREM InvitationsBlock == ~ dev_soft_fail => (Spec => UnregisteredBlocks)
<1> SUFFICES ASSUME ~ dev_soft_fail PROVE Spec => UnregisteredBlocks
  OBVIOUS
<1> DEFINE Blocking == \A k \in acked + 1 .. Len(events) :
                         events[k] = "invite" /\ ~ registered => acked' < k
<1>1. ASSUME IInv, [Next]_vars PROVE Blocking
  <2>1. CASE UNCHANGED acked
    <3>1. acked \in Nat /\ Len(events) \in Nat
      BY <1>1 DEF IInv, TypeOK
    <3> QED BY <2>1, <3>1
  <2>2. CASE Push \/ GiveUp \/ \E h \in Handlers : Handle(h)
    BY <1>1, <2>2, DeliverSteps
  <2>3. UNCHANGED acked \/ Push \/ GiveUp \/ \E h \in Handlers : Handle(h)
    BY <1>1 DEF Next, Others, Restart, ForgetRuns, Call, Step, ReadMember, GotMember,
                InviteUser, JoinRoom, RegisterUser, SetDisplayName, SendMessage, CallFails,
                delivery, vars
  <2> QED BY <2>1, <2>2, <2>3
<1>2. IInv /\ [Next]_vars => [Blocking]_vars
  BY <1>1
<1> QED BY <1>2, InductiveInvariant, PTL DEF Spec, UnregisteredBlocks
=============================================================================
