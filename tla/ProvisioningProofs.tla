-------------------------- MODULE ProvisioningProofs --------------------------
(***************************************************************************)
(* Proofs about Provisioning: for any contacts, names and channels, any    *)
(* number of startups cut short and any changes on the radio meanwhile, a  *)
(* bridge that is up has finished the work of them all; and what no        *)
(* startup ever repairs.                                                   *)
(***************************************************************************)
EXTENDS Provisioning, TLAPS

(* The steps of a startup before it makes anything on the space, those of  *)
(* making a contact a member, and those of making a room.                  *)
Early == {"down", "space", "user", "contacts", "channels", "members", "prune"}

MemberSteps == {"invite", "join", "register", "name", "rejoin", "label"}

RoomSteps == {"room", "attach"}

(* The contact or channel under way, not yet routed. *)
Working == IF pc \in MemberSteps \cup RoomSteps THEN {at} ELSE {}

(* What the startup has to bring up, as far as it has got. *)
Wanted == ListedContacts \cup heard \cup (IF own THEN Own ELSE {})

(* Nothing of an earlier startup is left in memory, and the space is       *)
(* shared once the user was asked in.                                      *)
CleanStart ==
  /\ pc \in Early => at = None /\ routed = {} /\ ~ own
  /\ pc \in {"next", "up"} => at = None
  /\ pc \notin {"down", "space", "user"} => space = "shared"

(* From the moment the members are read, what the cache says of a listed   *)
(* contact is true or was overtaken by a join; and who is on the space but *)
(* not listed is still to be made to leave.                                *)
MembersRead ==
  pc \in {"prune"} \cup (PC \ Early) =>
    /\ \A c \in ListedContacts :
         /\ cache[c] = "join" => member[c] = "join"
         /\ cache[c] = "invite" => member[c] \in {"invite", "join"}
    /\ \A c \in Contacts \ ListedContacts :
         member[c] = "join" => pc = "prune" /\ c \in todo
    /\ pc = "prune" => todo \subseteq Contacts \ ListedContacts

(* All that is wanted is to do, under way or routed, no contact twice; the *)
(* own channels come last, and one of them the radio has too is never done. *)
Ledger ==
  pc \notin Early =>
    /\ todo \cup Working \cup routed = Wanted
    /\ \A c \in Contacts \cap routed : c \notin todo \cup Working
    /\ \A c \in Contacts \cap todo : c \notin Working
    /\ own => /\ ListedContacts \cup heard \subseteq routed
              /\ heard \cap Own \subseteq todo \cup Working
    /\ pc = "up" => todo = {} /\ own

(* How far the contact or the channel under way has got. *)
UnderWay ==
  /\ pc \in MemberSteps =>
       /\ at \in Contacts
       /\ seen \in Labels => profile[at] = seen
  /\ pc = "invite" => member[at] = "absent"
  /\ pc \in {"join", "register", "name", "rejoin"} => member[at] \in {"invite", "join"}
  /\ pc \in {"register", "name"} => seen \notin Labels
  /\ pc = "label" => member[at] = "join"
  /\ pc \in RoomSteps /\ at \in Contacts => member[at] = "join" /\ profile[at] = listed[at]
  /\ pc = "attach" => room[at] = NameOf(at)
  /\ pc = "ask" => at \in routed \cap Names

(* What is routed is done, but for the invitation just under way. *)
RoutedDone ==
  /\ \A c \in Contacts \cap routed :
       member[c] = "join" /\ profile[c] = listed[c] /\ room[c] = listed[c]
  /\ \A r \in routed : room[r] # None
  /\ \A n \in Names \cap routed : n \in asked \/ (pc = "ask" /\ at = n)

(* The inductive invariant.  That a bridge which is up is complete says    *)
(* nothing of the steps before: the rest is the ledger of the startup.     *)
IInv ==
  TypeOK /\ CleanStart /\ MembersRead /\ Ledger /\ UnderWay /\ RoutedDone

-----------------------------------------------------------------------------
(* Types.                                                                  *)

(* The variables of the radio, the homeserver and the process, one by one. *)
LEMMA TypesOfAll ==
  ASSUME book' \in [Contacts -> Labels \cup {None}], channels' \subseteq Names,
         space' \in {"absent", "made", "shared"},
         member' \in [Contacts -> Membership],
         profile' \in [Contacts -> Labels \cup {None, Nameless}],
         room' \in [Rooms -> Labels \cup Names \cup {None}],
         attached' \subseteq Rooms, asked' \subseteq Names,
         pc' \in PC, at' \in Rooms \cup {None},
         seen' \in Labels \cup {None, Nameless}, invited' \in BOOLEAN,
         listed' \in [Contacts -> Labels \cup {None}], heard' \subseteq Names,
         todo' \subseteq Rooms, own' \in BOOLEAN,
         cache' \in [Contacts -> Membership], routed' \subseteq Rooms,
         stops' \in 0 .. MaxStops
  PROVE  TypeOK'
BY DEF TypeOK

(* A process that ends has the memory of one that has not started. *)
LEMMA ForgetType ==
  ASSUME Forget
  PROVE  /\ at' = None /\ seen' = None /\ invited' = FALSE
         /\ listed' \in [Contacts -> Labels \cup {None}] /\ heard' = {} /\ todo' = {}
         /\ own' = FALSE /\ cache' \in [Contacts -> Membership] /\ routed' = {}
BY DEF Forget, Membership

(* What the homeserver or the radio does by itself keeps the types. *)
LEMMA OutsideType ==
  ASSUME TypeOK, RadioChanges \/ \E c \in Contacts : UserInvites(c)
  PROVE  TypeOK'
<1>1. CASE RadioChanges
  BY <1>1 DEF TypeOK, RadioChanges, homeserver, process, step, lists, PC
<1>2. ASSUME NEW c \in Contacts, UserInvites(c) PROVE TypeOK'
  BY <1>2 DEF TypeOK, UserInvites, radio, process, step, lists, PC, Membership
<1> QED BY <1>1, <1>2

(* So do the steps up to the list of what is to do. *)
LEMMA ListType ==
  ASSUME TypeOK, Start \/ AddSpace \/ ReadRadio \/ PruneContacts \/ Up
  PROVE  TypeOK'
<1>1. CASE Start \/ AddSpace \/ Up
  BY <1>1 DEF TypeOK, Start, AddSpace, EnsureSpace, InviteUser, Up, radio, homeserver, step,
              lists, PC
<1>2. CASE ListContacts \/ ListChannels
  BY <1>2 DEF TypeOK, ListContacts, ListChannels, radio, homeserver, step, PC
<1>3. CASE GetMembers
  BY <1>3 DEF TypeOK, GetMembers, ToPrune, Insiders, ListedContacts, Rooms, radio, homeserver,
              step, PC
<1>4. ASSUME NEW c \in Contacts, LeaveSpace(c) PROVE TypeOK'
  <2>1. CASE profile[c] = None
    BY <1>4, <2>1, ForgetType DEF LeaveSpace, End, TypeOK, PC, radio
  <2>2. CASE profile[c] # None
    BY <1>4, <2>2 DEF TypeOK, LeaveSpace, radio, step, Membership
  <2> QED BY <2>1, <2>2
<1>5. CASE Pruned
  BY <1>5 DEF TypeOK, Pruned, ListedContacts, Rooms, radio, homeserver, step, PC
<1> QED BY <1>1, <1>2, <1>3, <1>4, <1>5 DEF ReadRadio, PruneContacts

(* So do those of ensure_room_member. *)
LEMMA MemberType ==
  ASSUME TypeOK, UnderWay, EnsureMember PROVE TypeOK'
<1>1. ASSUME NEW c \in Contacts, AddContact(c) PROVE TypeOK'
  <2> DEFINE m == IF cache[c] = "absent" THEN member[c] ELSE cache[c]
  <2>1. m \in Membership /\ ByMembership(m) /\ UNCHANGED <<radio, homeserver, stops>>
    BY <1>1 DEF AddContact, TypeOK
  <2>2. pc' \in {"invite", "join", "label", "down"}
    BY <2>1 DEF ByMembership, Membership
  <2>3. UNCHANGED <<book, channels, space, member, profile, room, attached, asked, stops>>
    BY <2>1 DEF radio, homeserver
  <2>4. CASE pc' = "down"
    <3>1. Forget
      BY <1>1, <2>4 DEF AddContact
    <3> QED BY <2>3, <2>4, <3>1, ForgetType DEF TypeOK, PC
  <2>5. CASE pc' # "down"
    <3>1. /\ at' = c /\ seen' = Card(c) /\ invited' = FALSE /\ todo' = todo \ {c}
          /\ cache' = [cache EXCEPT ![c] = m] /\ UNCHANGED <<listed, heard, own, routed>>
      BY <1>1, <2>5 DEF AddContact
    <3>2. Card(c) \in Labels \cup {None, Nameless}
      BY DEF Card, TypeOK
    <3> QED BY <2>1, <2>2, <2>3, <3>1, <3>2 DEF TypeOK, PC, Rooms
  <2> QED BY <2>4, <2>5
<1>2. CASE InviteContact
  BY <1>2 DEF TypeOK, InviteContact, radio, lists, Membership, PC
<1>3. CASE JoinSpace
  <2>1. at \in Contacts /\ UNCHANGED <<radio, space, profile, room, attached, asked, at,
                                        invited, lists, routed, stops>>
    BY <1>3 DEF JoinSpace, UnderWay, MemberSteps
  <2>2. Card(at) \in Labels \cup {None, Nameless}
    BY <2>1 DEF Card, TypeOK
  <2>3. seen' \in Labels \cup {None, Nameless} /\ pc' \in PC
    BY <1>3, <2>2 DEF JoinSpace, TypeOK, PC
  <2>4. member' \in [Contacts -> Membership] /\ cache' \in [Contacts -> Membership]
    BY <1>3, <2>1 DEF JoinSpace, TypeOK, Membership
  <2> QED BY <2>1, <2>3, <2>4 DEF TypeOK, radio, lists
<1>4. CASE RegisterUser
  BY <1>4 DEF TypeOK, RegisterUser, radio, step, lists, PC
<1>5. CASE NameRegistered \/ SetDisplayName
  BY <1>5 DEF TypeOK, NameRegistered, SetDisplayName, SetName, IsCurrent, radio, step, lists, PC
<1> QED BY <1>1, <1>2, <1>3, <1>4, <1>5 DEF EnsureMember

(* RoomManager.add takes a room once, and the user's invitation follows or *)
(* the next contact or channel; or else the process ends.                  *)
LEMMA EnlistEffect ==
  ASSUME Enlist
  PROVE  \/ at \in routed /\ pc' = "down" /\ Forget
         \/ /\ at \notin routed /\ routed' = routed \cup {at}
            /\ UNCHANGED <<seen, invited, listed, heard, todo, own, cache>>
            /\ \/ at \in Names \ asked /\ pc' = "ask" /\ at' = at
               \/ at \notin Names \ asked /\ pc' = "next" /\ at' = None
BY DEF Enlist, End, lists

(* The steps of ensure_room and RoomManager.add keep the types, too.       *)
LEMMA RoomType ==
  ASSUME TypeOK, EnsureRoom, pc \in RoomSteps \cup {"ask"} => at \in Rooms,
         pc = "ask" => at \in Names
  PROVE  TypeOK'
<1>1. CASE OwnChannels
  BY <1>1, ConstantsAssumption DEF TypeOK, OwnChannels, Rooms, radio, homeserver, step
<1>2. ASSUME NEW n \in Names, AddChannel(n) PROVE TypeOK'
  BY <1>2 DEF TypeOK, AddChannel, Rooms, radio, homeserver, PC
<1>3. ASSUME room' = [room EXCEPT ![at] = NameOf(at)], at \in Rooms
      PROVE  room' \in [Rooms -> Labels \cup Names \cup {None}]
  <2>1. NameOf(at) \in Labels \cup Names \cup {None}
    BY <1>3 DEF NameOf, TypeOK, Rooms
  <2> QED BY <1>3, <2>1 DEF TypeOK
<1>4. ASSUME Enlist, at \in Rooms
      PROVE  /\ pc' \in PC /\ at' \in Rooms \cup {None}
             /\ seen' \in Labels \cup {None, Nameless} /\ invited' \in BOOLEAN
             /\ listed' \in [Contacts -> Labels \cup {None}] /\ heard' \subseteq Names
             /\ todo' \subseteq Rooms /\ own' \in BOOLEAN
             /\ cache' \in [Contacts -> Membership] /\ routed' \subseteq Rooms
  <2>1. CASE pc' = "down" /\ Forget
    BY <2>1, ForgetType DEF PC
  <2>2. CASE /\ routed' = routed \cup {at} /\ pc' \in {"ask", "next"} /\ at' \in {at, None}
             /\ UNCHANGED <<seen, invited, listed, heard, todo, own, cache>>
    BY <1>4, <2>2 DEF TypeOK, PC
  <2> QED BY <1>4, <2>1, <2>2, EnlistEffect
<1>5. CASE ReuseRoom
  <2>1. /\ at \in Rooms /\ Enlist /\ room' = [room EXCEPT ![at] = NameOf(at)]
        /\ UNCHANGED <<book, channels, space, member, profile, attached, asked, stops>>
    BY <1>5 DEF ReuseRoom, RoomSteps, radio
  <2> QED BY <1>3, <1>4, <2>1, TypesOfAll DEF TypeOK
<1>6. CASE CreateRoom
  <2>1. at \in Rooms
    BY <1>6 DEF CreateRoom, RoomSteps
  <2>2. room' \in [Rooms -> Labels \cup Names \cup {None}]
    BY <1>6, <1>3, <2>1 DEF CreateRoom
  <2> QED BY <1>6, <2>2 DEF CreateRoom, TypeOK, radio, step, lists, PC
<1>7. CASE AttachChild
  <2>1. /\ at \in Rooms /\ Enlist /\ attached' = attached \cup {at}
        /\ UNCHANGED <<book, channels, space, member, profile, room, asked, stops>>
    BY <1>7 DEF AttachChild, RoomSteps, radio
  <2> QED BY <1>4, <2>1, TypesOfAll DEF TypeOK
<1>8. CASE SendRoomInvite
  BY <1>8 DEF SendRoomInvite, TypeOK, radio, lists, PC
<1> QED BY <1>1, <1>2, <1>5, <1>6, <1>7, <1>8 DEF EnsureRoom

(* A stop keeps the types, and so does the announcement of a contact.      *)
LEMMA StopType ==
  ASSUME TypeOK, Stop \/ \E c \in Contacts : NewContact(c)
  PROVE  TypeOK'
<1>1. CASE Stop
  <2>1. stops' \in 0 .. MaxStops
    BY <1>1, ConstantsAssumption DEF Stop, TypeOK
  <2> QED BY <1>1, <2>1, ForgetType DEF Stop, End, TypeOK, PC, radio, homeserver
<1>2. ASSUME NEW c \in Contacts, NewContact(c) PROVE TypeOK'
  BY <1>2 DEF NewContact, TypeOK, Rooms, PC, radio, homeserver, step
<1> QED BY <1>1, <1>2

-----------------------------------------------------------------------------
(* The inductive step, action by action; its parts without the types.      *)

Parts == CleanStart /\ MembersRead /\ Ledger /\ UnderWay /\ RoutedDone

(* A startup that ends leaves nothing to say of it. *)
LEMMA DownParts == ASSUME pc' = "down", Forget PROVE Parts'
<1>1. CleanStart'
  BY DEF CleanStart, Forget
<1>2. MembersRead' /\ Ledger'
  BY DEF MembersRead, Ledger, Early
<1>3. UnderWay' /\ RoutedDone'
  BY DEF UnderWay, RoutedDone, MemberSteps, RoomSteps, Forget
<1> QED BY <1>1, <1>2, <1>3 DEF Parts

(* Up to the list of the members nothing is claimed. *)
LEMMA EarlyParts ==
  ASSUME CleanStart, pc \in Early, pc' \in Early \ {"prune"}, UNCHANGED <<at, routed, own>>,
         pc' \in {"contacts", "channels", "members"} => space' = "shared"
  PROVE  Parts'
<1>1. CleanStart'
  BY DEF CleanStart, Early
<1>2. MembersRead' /\ Ledger'
  BY DEF MembersRead, Ledger, Early
<1>3. UnderWay' /\ RoutedDone'
  BY DEF CleanStart, UnderWay, RoutedDone, MemberSteps, RoomSteps, Early
<1> QED BY <1>1, <1>2, <1>3 DEF Parts

(* What happens outside disturbs none of it: a contact that a user lets in *)
(* again had left, so it is neither routed nor under way.                  *)
LEMMA OutsideParts ==
  ASSUME TypeOK, Parts, RadioChanges \/ \E c \in Contacts : UserInvites(c)
  PROVE  Parts'
<1>1. UNCHANGED <<space, profile, room, asked, pc, at, seen, listed, heard, todo, own,
                  cache, routed>>
  BY DEF RadioChanges, UserInvites, homeserver, process, step, lists
<1>2. \A c \in Contacts : member'[c] = member[c] \/ (member[c] = "leave" /\ member'[c] = "invite")
  BY DEF RadioChanges, UserInvites, homeserver, TypeOK
<1>3. ListedContacts' = ListedContacts /\ Working' = Working /\ Wanted' = Wanted
  BY <1>1 DEF ListedContacts, Working, Wanted
<1>4. CleanStart' /\ Ledger'
  BY <1>1, <1>3 DEF Parts, CleanStart, Ledger
<1>5. MembersRead'
  BY <1>1, <1>2, <1>3 DEF Parts, MembersRead, ListedContacts
<1>6. UnderWay'
  BY <1>1, <1>2 DEF Parts, UnderWay, MemberSteps, RoomSteps, NameOf
<1>7. RoutedDone'
  BY <1>1, <1>2 DEF Parts, RoutedDone
<1> QED BY <1>4, <1>5, <1>6, <1>7 DEF Parts

(* The contacts that are to leave are those on the space and not listed.   *)
LEMMA PruneParts ==
  ASSUME TypeOK, Parts, GetMembers \/ PruneContacts PROVE Parts'
<1> DEFINE Leaves(c) == LeaveSpace(c) /\ profile[c] # None
<1>r. CASE \E c \in Contacts : LeaveSpace(c) /\ profile[c] = None
  <2>1. pc' = "down" /\ Forget
    BY <1>r DEF LeaveSpace, End
  <2> QED BY <2>1, DownParts
<1>n. SUFFICES ASSUME GetMembers \/ Pruned \/ \E c \in Contacts : Leaves(c) PROVE Parts'
  BY <1>r DEF PruneContacts
<1>1. /\ pc \in {"members", "prune"} /\ pc' \in {"prune", "next"}
      /\ UNCHANGED <<space, profile, room, asked, at, seen, listed, heard, own, routed>>
  BY <1>n DEF GetMembers, LeaveSpace, Pruned, homeserver, step
<1>2. at = None /\ routed = {} /\ ~ own /\ space = "shared"
  BY <1>1 DEF Parts, CleanStart, Early
<1>3. CleanStart' /\ UnderWay' /\ RoutedDone'
  BY <1>1, <1>2 DEF CleanStart, UnderWay, RoutedDone, MemberSteps, RoomSteps, Early
<1>4. ListedContacts' = ListedContacts
  BY <1>1 DEF ListedContacts
<1>5. MembersRead' /\ Ledger'
  <2>1. CASE GetMembers
    <3>1. pc' = "prune" /\ cache' = member /\ member' = member /\ todo' = ToPrune
      BY <2>1 DEF GetMembers, homeserver
    <3> QED BY <1>4, <3>1 DEF MembersRead, Ledger, Early, ToPrune, Insiders
  <2>2. ASSUME NEW c \in Contacts, Leaves(c) PROVE MembersRead' /\ Ledger'
    <3>1. /\ pc = "prune" /\ pc' = "prune" /\ c \in todo /\ cache' = cache
          /\ member' = [member EXCEPT ![c] = "leave"] /\ todo' = todo \ {c}
      BY <2>2 DEF LeaveSpace
    <3> QED BY <1>4, <3>1 DEF Parts, MembersRead, Ledger, Early, TypeOK
  <2>3. CASE Pruned
    <3>1. /\ pc = "prune" /\ pc' = "next" /\ todo = {} /\ todo' = ListedContacts \cup heard
          /\ member' = member /\ cache' = cache
      BY <2>3 DEF Pruned, homeserver
    <3>2. MembersRead'
      BY <1>4, <3>1 DEF Parts, MembersRead, PC, Early
    <3>3. Working' = {} /\ Wanted' = todo'
      BY <1>1, <1>2, <1>4, <3>1 DEF Working, Wanted, MemberSteps, RoomSteps
    <3> QED BY <1>1, <1>2, <3>1, <3>2, <3>3 DEF Ledger
  <2> QED BY <1>n, <2>1, <2>2, <2>3
<1> QED BY <1>3, <1>5 DEF Parts

(* The first steps of a startup, and the last. *)
LEMMA StartParts ==
  ASSUME TypeOK, Parts, Start \/ AddSpace \/ ListContacts \/ ListChannels PROVE Parts'
<1>1. /\ pc \in Early /\ pc' \in Early \ {"prune"} /\ UNCHANGED <<at, routed, own>>
      /\ pc' \in {"contacts", "channels", "members"} => space' = "shared"
  BY DEF Parts, CleanStart, Start, AddSpace, EnsureSpace, InviteUser, ListContacts, ListChannels,
         homeserver, step, lists, Early
<1> QED BY <1>1, EarlyParts DEF Parts

(* A contact is begun: it is looked up, and the process ends if it has     *)
(* left the space.                                                         *)
LEMMA AddContactParts ==
  ASSUME TypeOK, Parts, NEW c \in Contacts, AddContact(c) PROVE Parts'
<1> DEFINE m == IF cache[c] = "absent" THEN member[c] ELSE cache[c]
<1>1. /\ pc = "next" /\ c \in todo /\ ByMembership(m) /\ m \in Membership
      /\ UNCHANGED <<space, member, profile, room, asked>>
  BY DEF AddContact, homeserver, TypeOK
<1>2. CASE pc' = "down"
  BY <1>2, DownParts DEF AddContact
<1>3. CASE pc' # "down"
  <2>1. /\ at' = c /\ seen' = Card(c) /\ todo' = todo \ {c}
        /\ cache' = [cache EXCEPT ![c] = m] /\ UNCHANGED <<listed, heard, own, routed>>
    BY <1>3 DEF AddContact
  <2>2. \/ m = "absent" /\ pc' = "invite"
        \/ m = "invite" /\ pc' = "join"
        \/ m = "join" /\ pc' = "label"
    BY <1>1, <1>3 DEF ByMembership, Membership
  <2>3. /\ space = "shared" /\ Working = {} /\ c \in Wanted
        /\ c \notin routed /\ todo \cup routed = Wanted
    BY <1>1 DEF Parts, CleanStart, Ledger, Working, MemberSteps, RoomSteps, Early
  <2>4. c \in ListedContacts
    BY <2>3, ConstantsAssumption DEF Wanted, TypeOK
  <2>5. /\ cache[c] = "join" => member[c] = "join"
        /\ cache[c] = "invite" => member[c] \in {"invite", "join"}
    BY <1>1, <2>4 DEF Parts, MembersRead, PC, Early
  <2>6. /\ m = "absent" => member[c] = "absent"
        /\ m = "invite" => member[c] \in {"invite", "join"}
        /\ m = "join" => member[c] = "join"
    BY <2>5
  <2>7. pc' \in MemberSteps
    BY <2>2 DEF MemberSteps
  <2>8. Working' = {c} /\ Wanted' = Wanted /\ ListedContacts' = ListedContacts
    BY <2>1, <2>7 DEF Working, Wanted, ListedContacts
  <2>9. CleanStart'
    BY <2>2, <2>3, <1>1 DEF CleanStart, Early
  <2>10. MembersRead'
    <3>1. \A d \in Contacts : cache'[d] = IF d = c THEN m ELSE cache[d]
      BY <2>1 DEF TypeOK
    <3>2. /\ \A d \in ListedContacts :
               /\ cache[d] = "join" => member[d] = "join"
               /\ cache[d] = "invite" => member[d] \in {"invite", "join"}
          /\ \A d \in Contacts \ ListedContacts : member[d] # "join"
      BY <1>1 DEF Parts, MembersRead, PC, Early
    <3>3. member' = member /\ pc' # "prune"
      BY <1>1, <2>2
    <3> HIDE DEF m
    <3>4. \A d \in ListedContacts :
             /\ cache'[d] = "join" => member[d] = "join"
             /\ cache'[d] = "invite" => member[d] \in {"invite", "join"}
      BY <2>2, <2>6, <3>1, <3>2 DEF ListedContacts
    <3> QED BY <2>8, <3>2, <3>3, <3>4 DEF MembersRead
  <2>11. Ledger'
    <3>1. own => ListedContacts \subseteq routed
      BY <1>1 DEF Parts, Ledger, Early
    <3>2. ~ own
      BY <2>3, <2>4, <3>1
    <3> QED BY <1>1, <2>1, <2>2, <2>3, <2>8, <3>2 DEF Parts, Ledger, Early
  <2>12. UnderWay'
    <3>1. seen' \in Labels => profile[c] = seen'
      BY <2>1, ConstantsAssumption DEF Card
    <3> QED BY <1>1, <2>1, <2>2, <2>6, <3>1 DEF UnderWay, MemberSteps, RoomSteps
  <2>13. RoutedDone'
    BY <1>1, <2>1, <2>2 DEF Parts, RoutedDone
  <2> QED BY <2>9, <2>10, <2>11, <2>12, <2>13 DEF Parts
<1> QED BY <1>2, <1>3

(* While a contact is made a member, the rest of the startup stands still: *)
(* it is listed and not routed yet, so what becomes of its membership and  *)
(* its name disturbs nothing that is done.                                 *)
LEMMA MemberFrame ==
  ASSUME TypeOK, Parts, pc \in MemberSteps, pc' \in MemberSteps \cup {"room"},
         UNCHANGED <<space, room, asked, at, listed, heard, todo, own, routed>>,
         \A c \in Contacts \ {at} :
           member'[c] = member[c] /\ profile'[c] = profile[c] /\ cache'[c] = cache[c],
         member'[at] = member[at] \/ member'[at] = "join"
           \/ (member[at] = "absent" /\ member'[at] = "invite" /\ cache'[at] = cache[at]),
         cache'[at] = cache[at] \/ member'[at] = "join"
  PROVE  CleanStart' /\ MembersRead' /\ Ledger' /\ RoutedDone'
<1>1. /\ at \in Contacts /\ at \in Working /\ Working' = Working
      /\ space = "shared" /\ pc \notin Early /\ pc' \notin Early /\ pc # "up" /\ pc' # "up"
      /\ pc # "ask" /\ pc # "prune"
  BY DEF Parts, UnderWay, Working, CleanStart, MemberSteps, RoomSteps, Early
<1>2. ListedContacts' = ListedContacts /\ Wanted' = Wanted
  BY DEF ListedContacts, Wanted
<1>3. at \in ListedContacts /\ at \notin routed
  <2>1. at \in Wanted /\ at \notin routed
    BY <1>1 DEF Parts, Ledger
  <2> QED BY <1>1, <2>1, ConstantsAssumption DEF Wanted, TypeOK
<1>4. CleanStart'
  BY <1>1 DEF CleanStart, MemberSteps, Early
<1>5. MembersRead'
  <2>1. pc \in PC \ Early
    BY <1>1 DEF TypeOK
  <2>2. /\ \A c \in ListedContacts :
             /\ cache[c] = "join" => member[c] = "join"
             /\ cache[c] = "invite" => member[c] \in {"invite", "join"}
        /\ \A c \in Contacts \ ListedContacts : member[c] # "join"
    BY <1>1, <2>1 DEF Parts, MembersRead
  <2>3. pc' # "prune"
    BY DEF MemberSteps
  <2>4. ASSUME NEW c \in ListedContacts
        PROVE  /\ cache'[c] = "join" => member'[c] = "join"
               /\ cache'[c] = "invite" => member'[c] \in {"invite", "join"}
    <3>1. CASE c # at
      BY <2>2, <2>4, <3>1 DEF ListedContacts
    <3>2. CASE c = at
      BY <2>2, <2>4, <3>2
    <3> QED BY <3>1, <3>2
  <2>5. \A c \in Contacts \ ListedContacts : member'[c] # "join"
    BY <1>3, <2>2
  <2> QED BY <1>2, <2>3, <2>4, <2>5 DEF MembersRead
<1>6. Ledger'
  BY <1>1, <1>2 DEF Parts, Ledger
<1>7. RoutedDone'
  BY <1>1, <1>3 DEF Parts, RoutedDone
<1> QED BY <1>4, <1>5, <1>6, <1>7

(* The steps of ensure_room_member after that. *)
LEMMA MemberParts ==
  ASSUME TypeOK, Parts,
         InviteContact \/ JoinSpace \/ RegisterUser \/ NameRegistered \/ SetDisplayName
  PROVE  Parts'
<1>1. /\ pc \in MemberSteps /\ at \in Contacts /\ at' = at
      /\ seen \in Labels => profile[at] = seen
      /\ UNCHANGED <<space, room, asked, listed, heard, todo, own, routed>>
  BY DEF InviteContact, JoinSpace, RegisterUser, NameRegistered, SetDisplayName, MemberSteps,
         Parts, UnderWay, step, lists
<1>2. CASE InviteContact
  <2>1. /\ pc = "invite" /\ pc' = "join" /\ member[at] = "absent"
        /\ member' = [member EXCEPT ![at] = IF @ \in {"invite", "join"} THEN @ ELSE "invite"]
        /\ UNCHANGED <<profile, seen, cache>>
    BY <1>2 DEF InviteContact, Parts, UnderWay, lists
  <2>2. member'[at] = "invite" /\ \A c \in Contacts \ {at} : member'[c] = member[c]
    BY <1>1, <2>1 DEF TypeOK
  <2>3. UnderWay'
    BY <1>1, <2>1, <2>2 DEF UnderWay, MemberSteps, RoomSteps
  <2>4. pc' \in MemberSteps
    BY <2>1 DEF MemberSteps
  <2> QED BY <1>1, <2>1, <2>2, <2>3, <2>4, MemberFrame DEF Parts
<1>3. CASE JoinSpace /\ profile[at] = None
  <2>1. pc' = "register" /\ UNCHANGED <<member, profile, cache, seen>> /\ pc \in {"join", "rejoin"}
    BY <1>3 DEF JoinSpace
  <2>2. seen \notin Labels /\ member[at] \in {"invite", "join"}
    BY <1>1, <1>3, <2>1, ConstantsAssumption DEF Parts, UnderWay
  <2>3. UnderWay'
    BY <1>1, <2>1, <2>2 DEF UnderWay, MemberSteps, RoomSteps
  <2>4. pc' \in MemberSteps
    BY <2>1 DEF MemberSteps
  <2> QED BY <1>1, <2>1, <2>3, <2>4, MemberFrame DEF Parts
<1>4. CASE JoinSpace /\ profile[at] # None
  <2>1. /\ pc' = "label" /\ member' = [member EXCEPT ![at] = "join"] /\ UNCHANGED profile
        /\ seen' \in {seen, Card(at)}
        /\ cache' = cache \/ cache' = [cache EXCEPT ![at] = "join"]
    BY <1>4 DEF JoinSpace
  <2>2. /\ member'[at] = "join" /\ \A c \in Contacts \ {at} : member'[c] = member[c]
        /\ \A c \in Contacts \ {at} : cache'[c] = cache[c]
    BY <1>1, <2>1 DEF TypeOK
  <2>3. seen' \in Labels => profile[at] = seen'
    BY <1>1, <1>4, <2>1 DEF Card
  <2>4. UnderWay'
    BY <1>1, <2>1, <2>2, <2>3 DEF UnderWay, MemberSteps, RoomSteps
  <2>5. pc' \in MemberSteps
    BY <2>1 DEF MemberSteps
  <2> QED BY <1>1, <2>1, <2>2, <2>4, <2>5, MemberFrame DEF Parts
<1>5. CASE RegisterUser \/ NameRegistered
  <2>1. /\ pc \in {"register", "name"} /\ pc' \in {"name", "rejoin"}
        /\ \E p : profile' = [profile EXCEPT ![at] = p]
        /\ UNCHANGED <<member, cache, seen>>
    BY <1>5 DEF RegisterUser, NameRegistered, SetName, step, lists
  <2>2. \A c \in Contacts \ {at} : profile'[c] = profile[c]
    BY <2>1 DEF TypeOK
  <2>3. seen \notin Labels /\ member[at] \in {"invite", "join"}
    BY <2>1 DEF Parts, UnderWay
  <2>4. UnderWay'
    BY <1>1, <2>1, <2>3 DEF UnderWay, MemberSteps, RoomSteps
  <2>5. pc' \in MemberSteps
    BY <2>1 DEF MemberSteps
  <2> QED BY <1>1, <2>1, <2>2, <2>4, <2>5, MemberFrame DEF Parts
<1>6. CASE SetDisplayName
  <2>1. /\ pc = "label" /\ pc' = "room" /\ UNCHANGED <<member, cache>>
        /\ IF seen = listed[at] THEN UNCHANGED profile
                                ELSE profile' = [profile EXCEPT ![at] = listed[at]]
    BY <1>6 DEF SetDisplayName, SetName, IsCurrent, lists
  <2>2. at \in ListedContacts
    <3>1. at \in Wanted
      BY <1>1, <2>1 DEF Parts, Ledger, Working, MemberSteps, RoomSteps, Early
    <3> QED BY <1>1, <3>1, ConstantsAssumption DEF Wanted, TypeOK
  <2>3. listed[at] \in Labels
    BY <2>2 DEF ListedContacts, TypeOK
  <2>4. profile'[at] = listed[at] /\ \A c \in Contacts \ {at} : profile'[c] = profile[c]
    BY <1>1, <2>1, <2>3 DEF TypeOK
  <2>5. UnderWay'
    BY <1>1, <2>1, <2>4 DEF Parts, UnderWay, MemberSteps, RoomSteps
  <2> QED BY <1>1, <2>1, <2>4, <2>5, MemberFrame DEF Parts
<1> QED BY <1>2, <1>3, <1>4, <1>5, <1>6

(* A channel is begun, or the own channels are put on the list.            *)
LEMMA ChannelParts ==
  ASSUME TypeOK, Parts, OwnChannels \/ \E n \in Names : AddChannel(n) PROVE Parts'
<1>1. /\ pc = "next" /\ space = "shared" /\ Working = {} /\ todo \cup routed = Wanted
      /\ UNCHANGED <<space, member, profile, room, asked, seen, listed, heard, cache, routed>>
      /\ ListedContacts' = ListedContacts
  BY DEF OwnChannels, AddChannel, Parts, CleanStart, Ledger, Working, MemberSteps, RoomSteps,
         Early, homeserver, step, ListedContacts
<1>2. /\ \A d \in ListedContacts :
           /\ cache[d] = "join" => member[d] = "join"
           /\ cache[d] = "invite" => member[d] \in {"invite", "join"}
      /\ \A d \in Contacts \ ListedContacts : member[d] # "join"
  BY <1>1 DEF Parts, MembersRead, PC, Early
<1>3. CASE OwnChannels
  <2>1. /\ ~ own /\ own' = TRUE /\ todo = {} /\ todo' = Own /\ pc' = pc /\ at' = at
    BY <1>3 DEF OwnChannels, step
  <2>2. Working' = {} /\ Wanted = ListedContacts \cup heard /\ Wanted' = Wanted \cup Own
    BY <1>1, <2>1 DEF Working, Wanted, MemberSteps, RoomSteps
  <2>3. CleanStart' /\ MembersRead' /\ UnderWay' /\ RoutedDone'
    BY <1>1, <1>2, <2>1
       DEF Parts, CleanStart, MembersRead, UnderWay, RoutedDone, MemberSteps, RoomSteps, Early
  <2>4. Ledger'
    BY <1>1, <2>1, <2>2, ConstantsAssumption DEF Ledger
  <2> QED BY <2>3, <2>4 DEF Parts
<1>4. ASSUME NEW n \in Names, AddChannel(n) PROVE Parts'
  <2>1. n \in todo /\ pc' = "room" /\ at' = n /\ todo' = todo \ {n} /\ UNCHANGED own
    BY <1>4 DEF AddChannel
  <2>2. Working' = {n} /\ Wanted' = Wanted /\ n \notin Contacts
    BY <1>1, <2>1, ConstantsAssumption DEF Working, Wanted, MemberSteps, RoomSteps
  <2>3. CleanStart' /\ MembersRead'
    BY <1>1, <1>2, <2>1 DEF CleanStart, MembersRead, Early
  <2>4. UnderWay' /\ RoutedDone'
    BY <1>1, <2>1, <2>2 DEF Parts, UnderWay, RoutedDone, MemberSteps, RoomSteps
  <2>5. Ledger'
    BY <1>1, <2>1, <2>2 DEF Parts, Ledger, Early
  <2> QED BY <2>3, <2>4, <2>5 DEF Parts
<1> QED BY <1>3, <1>4

(* A contact or channel under way has a name, and the name is that of its  *)
(* room from then on.                                                      *)
LEMMA NameOfWorking ==
  ASSUME TypeOK, Parts, pc \in MemberSteps \cup RoomSteps
  PROVE  at \in Rooms /\ NameOf(at) # None /\ at \in Wanted /\ (at \in Contacts => at \notin routed)
<1>1. at \in Wanted /\ (at \in Contacts => at \notin routed)
  BY DEF Parts, Ledger, Working, MemberSteps, RoomSteps, Early
<1>2. at \in ListedContacts \/ at \in Names
  BY <1>1, ConstantsAssumption DEF Wanted, TypeOK
<1>3. at \in Rooms /\ NameOf(at) # None
  BY <1>2, ConstantsAssumption DEF NameOf, ListedContacts, Rooms
<1> QED BY <1>1, <1>3

(* A room is made or found, or put on the space, and routed: what was      *)
(* under way is done.                                                      *)
LEMMA RoutedParts ==
  ASSUME TypeOK, Parts, ReuseRoom \/ AttachChild PROVE Parts'
<1>1. pc \in RoomSteps /\ Enlist /\ UNCHANGED <<space, member, profile, asked>>
  BY DEF ReuseRoom, AttachChild, RoomSteps
<1>2. at \in Rooms /\ NameOf(at) # None /\ at \in Wanted /\ (at \in Contacts => at \notin routed)
  BY <1>1, NameOfWorking
<1>3. room'[at] = NameOf(at) /\ \A r \in Rooms \ {at} : room'[r] = room[r]
  BY <1>2 DEF ReuseRoom, AttachChild, TypeOK, Parts, UnderWay
<1>4. CASE pc' = "down" /\ Forget
  BY <1>4, DownParts
<1>5. CASE /\ at \notin routed /\ routed' = routed \cup {at}
           /\ UNCHANGED <<seen, listed, heard, todo, own, cache>>
           /\ \/ at \in Names \ asked /\ pc' = "ask" /\ at' = at
              \/ at \notin Names \ asked /\ pc' = "next" /\ at' = None
  <2>1. /\ pc \notin Early /\ pc \in PC /\ pc # "ask" /\ pc # "prune" /\ pc' \notin Early /\ pc' \in PC
        /\ pc' # "prune" /\ pc' # "up" /\ Working = {at} /\ Working' = {}
    BY <1>1, <1>5 DEF TypeOK, PC, Early, Working, MemberSteps, RoomSteps
  <2>2. Wanted' = Wanted /\ ListedContacts' = ListedContacts /\ todo \cup {at} \cup routed = Wanted
    BY <1>5, <2>1 DEF Wanted, ListedContacts, Parts, Ledger
  <2>3. CleanStart'
    BY <1>1, <1>5, <2>1 DEF Parts, CleanStart, RoomSteps
  <2>4. MembersRead'
    <3>1. /\ \A d \in ListedContacts :
               /\ cache[d] = "join" => member[d] = "join"
               /\ cache[d] = "invite" => member[d] \in {"invite", "join"}
          /\ \A d \in Contacts \ ListedContacts : member[d] # "join"
      BY <2>1 DEF Parts, MembersRead
    <3> QED BY <1>1, <1>5, <2>1, <2>2, <3>1 DEF MembersRead
  <2>5. Ledger'
    <3>1. \A c \in Contacts \cap routed : c \notin todo \cup {at}
      BY <2>1 DEF Parts, Ledger
    <3>2. own => /\ ListedContacts \cup heard \subseteq routed
                 /\ heard \cap Own \subseteq todo \cup {at}
      BY <2>1 DEF Parts, Ledger
    <3>3. at \in Contacts => at \notin todo
      BY <2>1 DEF Parts, Ledger
    <3> QED BY <1>5, <2>1, <2>2, <3>1, <3>2, <3>3 DEF Ledger
  <2>6. UnderWay'
    BY <1>5 DEF UnderWay, MemberSteps, RoomSteps
  <2>7. RoutedDone'
    <3>1. at \in Contacts => member[at] = "join" /\ profile[at] = listed[at] /\ room'[at] = listed[at]
      BY <1>1, <1>3 DEF Parts, UnderWay, NameOf
    <3>2. \A r \in routed : r \in Rooms \ {at} /\ room'[r] = room[r]
      BY <1>3, <1>5 DEF TypeOK
    <3>3. \A c \in Contacts \cap routed' :
            member'[c] = "join" /\ profile'[c] = listed'[c] /\ room'[c] = listed'[c]
      BY <1>1, <1>5, <3>1, <3>2 DEF Parts, RoutedDone
    <3>4. \A r \in routed' : room'[r] # None
      BY <1>2, <1>3, <1>5, <3>2 DEF Parts, RoutedDone
    <3>5. \A n \in Names \cap routed' : n \in asked' \/ (pc' = "ask" /\ at' = n)
      BY <1>1, <1>5, <2>1 DEF Parts, RoutedDone
    <3> QED BY <3>3, <3>4, <3>5 DEF RoutedDone
  <2> QED BY <2>3, <2>4, <2>5, <2>6, <2>7 DEF Parts
<1> QED BY <1>1, <1>4, <1>5, EnlistEffect

(* A room just made is to be put on the space; an invitation that was sent *)
(* ends the work on a channel; and with nothing left to do the bridge is   *)
(* up.  What is done, and what is wanted, stays as it was.                 *)
LEMMA OtherParts ==
  ASSUME TypeOK, Parts, CreateRoom \/ SendRoomInvite \/ Up PROVE Parts'
<1>1. /\ pc \notin Early /\ pc' \notin Early /\ space = "shared" /\ pc' \notin MemberSteps \cup {"ask"}
      /\ pc # "prune" /\ pc' # "prune"
      /\ UNCHANGED <<space, member, profile, listed, heard, todo, own, cache, routed>>
  BY DEF CreateRoom, SendRoomInvite, Up, Parts, CleanStart, Early, MemberSteps, homeserver,
         step, lists
<1>2. ListedContacts' = ListedContacts /\ Wanted' = Wanted
  BY <1>1 DEF ListedContacts, Wanted
<1>3. MembersRead'
  <2>1. /\ \A d \in ListedContacts :
             /\ cache[d] = "join" => member[d] = "join"
             /\ cache[d] = "invite" => member[d] \in {"invite", "join"}
        /\ \A d \in Contacts \ ListedContacts : member[d] # "join"
    BY <1>1 DEF TypeOK, Parts, MembersRead
  <2> QED BY <1>1, <1>2, <2>1 DEF MembersRead
<1>4. CASE CreateRoom
  <2>1. /\ pc = "room" /\ pc' = "attach" /\ at' = at /\ UNCHANGED <<asked, seen>>
        /\ room[at] = None /\ room' = [room EXCEPT ![at] = NameOf(at)]
    BY <1>4 DEF CreateRoom, Exists, step
  <2>2. at \in Rooms /\ (at \in Contacts => at \notin routed) /\ NameOf(at) # None
    BY <2>1, NameOfWorking DEF RoomSteps
  <2>3. room'[at] = NameOf(at) /\ \A r \in Rooms \ {at} : room'[r] = room[r]
    BY <2>1, <2>2 DEF TypeOK
  <2>4. Working' = Working /\ CleanStart'
    BY <1>1, <2>1 DEF Working, MemberSteps, RoomSteps, CleanStart, Early
  <2>5. Ledger'
    BY <1>1, <1>2, <2>1, <2>4 DEF Parts, Ledger
  <2>6. NameOf(at)' = NameOf(at)
    BY <1>1, <2>1 DEF NameOf
  <2>7. UnderWay'
    BY <1>1, <2>1, <2>3, <2>6 DEF Parts, UnderWay, MemberSteps, RoomSteps
  <2>8. RoutedDone'
    <3>1. \A r \in routed : r # at
      BY <2>1 DEF Parts, RoutedDone
    <3>2. \A r \in routed : room'[r] = room[r]
      BY <2>3, <3>1 DEF TypeOK
    <3> QED BY <1>1, <2>1, <3>2 DEF Parts, RoutedDone
  <2> QED BY <1>3, <2>4, <2>5, <2>7, <2>8 DEF Parts
<1>5. CASE SendRoomInvite
  <2>1. /\ pc = "ask" /\ pc' = "next" /\ at' = None /\ UNCHANGED room
        /\ asked' = asked \cup {at}
    BY <1>5 DEF SendRoomInvite
  <2>2. Working = {} /\ Working' = {} /\ CleanStart' /\ UnderWay'
    BY <1>1, <2>1 DEF Working, MemberSteps, RoomSteps, CleanStart, Early, UnderWay
  <2>3. Ledger' /\ RoutedDone'
    BY <1>1, <1>2, <2>1, <2>2 DEF Parts, Ledger, RoutedDone
  <2> QED BY <1>3, <2>2, <2>3 DEF Parts
<1>6. CASE Up
  <2>1. pc = "next" /\ pc' = "up" /\ todo = {} /\ own /\ UNCHANGED <<at, seen, room, asked>>
    BY <1>6 DEF Up, homeserver, step
  <2>2. Working = {} /\ Working' = {} /\ CleanStart' /\ UnderWay'
    BY <1>1, <2>1 DEF Working, MemberSteps, RoomSteps, CleanStart, Early, UnderWay, Parts
  <2>3. Ledger' /\ RoutedDone'
    BY <1>1, <1>2, <2>1, <2>2 DEF Parts, Ledger, RoutedDone
  <2> QED BY <1>3, <2>2, <2>3 DEF Parts
<1> QED BY <1>4, <1>5, <1>6

(* A bridge that is up has routed every contact in its contact cache, so   *)
(* the announcement of one changes nothing.                                *)
LEMMA NothingNew ==
  ASSUME TypeOK, Parts, NEW c \in Contacts, NewContact(c) PROVE UNCHANGED vars
<1>1. /\ pc = "up"
      /\ UNCHANGED <<radio, homeserver, step, listed, heard, own, cache, routed, stops>>
  BY DEF NewContact
<1>2. ListedContacts \subseteq routed
  BY <1>1 DEF Parts, Ledger, Early
<1>3. UNCHANGED <<pc, todo>>
  BY <1>2 DEF NewContact, GetContact, ListedContacts
<1> QED BY <1>1, <1>3 DEF vars, process, lists

(* One step keeps the invariant. *)
LEMMA InvStep == IInv /\ [Next]_vars => IInv'
<1> SUFFICES ASSUME TypeOK, Parts, [Next]_vars PROVE TypeOK' /\ Parts'
  BY DEF IInv, Parts
<1>1. CASE RadioChanges \/ \E c \in Contacts : UserInvites(c)
  BY <1>1, OutsideType, OutsideParts
<1>2. CASE Start \/ AddSpace \/ ReadRadio \/ PruneContacts \/ Up
  BY <1>2, ListType, StartParts, PruneParts, OtherParts DEF ReadRadio
<1>3. CASE EnsureMember
  BY <1>3, MemberType, AddContactParts, MemberParts DEF EnsureMember, Parts
<1>4. CASE EnsureRoom
  <2>1. /\ pc \in RoomSteps \cup {"ask"} => at \in Rooms
        /\ pc = "ask" => at \in Names
    BY NameOfWorking DEF Parts, UnderWay, Rooms, RoomSteps
  <2> QED BY <1>4, <2>1, RoomType, ChannelParts, RoutedParts, OtherParts DEF EnsureRoom
<1>5. CASE Stop
  BY <1>5, StopType, DownParts DEF Stop, End
<1>6. CASE UNCHANGED vars
  <2>1. UNCHANGED <<book, channels, homeserver, space, member, profile, room, attached, asked,
                    pc, at, seen, invited, listed, heard, todo, own, cache, routed, stops>>
    BY <1>6 DEF vars, radio, homeserver, process, step, lists
  <2>2. ListedContacts' = ListedContacts /\ Working' = Working /\ Wanted' = Wanted
    BY <2>1 DEF ListedContacts, Working, Wanted
  <2>3. TypeOK' /\ CleanStart' /\ MembersRead'
    BY <2>1, <2>2 DEF Parts, TypeOK, CleanStart, MembersRead
  <2>4. Ledger'
    BY <2>1, <2>2 DEF Parts, Ledger
  <2>5. UnderWay' /\ RoutedDone'
    BY <2>1 DEF Parts, UnderWay, NameOf, RoutedDone
  <2> QED BY <2>3, <2>4, <2>5 DEF Parts
<1>7. ASSUME NEW c \in Contacts, NewContact(c) PROVE TypeOK' /\ Parts'
  BY <1>6, <1>7, NothingNew
<1> QED BY <1>1, <1>2, <1>3, <1>4, <1>5, <1>6, <1>7 DEF Next, StartUp

(* Nothing runs and nothing is made yet. *)
LEMMA InitInv == Init => IInv
<1> SUFFICES ASSUME Init PROVE IInv
  OBVIOUS
<1>1. TypeOK
  <2>1. /\ member \in [Contacts -> Membership] /\ cache \in [Contacts -> Membership]
        /\ profile \in [Contacts -> Labels \cup {None, Nameless}]
        /\ listed \in [Contacts -> Labels \cup {None}]
        /\ room \in [Rooms -> Labels \cup Names \cup {None}]
    BY DEF Init, Membership
  <2>2. stops \in 0 .. MaxStops
    BY ConstantsAssumption DEF Init
  <2> QED BY <2>1, <2>2 DEF Init, TypeOK, PC
<1>2. CleanStart /\ MembersRead /\ Ledger
  BY DEF Init, CleanStart, MembersRead, Ledger, Early
<1>3. UnderWay /\ RoutedDone
  BY DEF Init, UnderWay, RoutedDone, MemberSteps, RoomSteps
<1> QED BY <1>1, <1>2, <1>3 DEF IInv

(* Every reachable state of every startup satisfies IInv. *)
THEOREM InductiveInvariant == Spec => []IInv
BY InitInv, InvStep, PTL DEF Spec

-----------------------------------------------------------------------------
(* The variables keep their types.                                         *)
THEOREM TypeCorrect == Spec => []TypeOK
<1>1. IInv => TypeOK
  BY DEF IInv
<1> QED BY <1>1, InductiveInvariant, PTL

(* Whatever the startups before it left undone, a bridge that is up has    *)
(* made the space that of its radio, with a routed room for every contact  *)
(* and channel; for any contacts, channels, stops and changes between.     *)
THEOREM StartupsComplete == Spec => []UpIsComplete
<1>1. IInv => UpIsComplete
  <2> SUFFICES ASSUME IInv, pc = "up" PROVE SpaceMirrorsRadio /\ EveryRoomReady
    BY DEF UpIsComplete
  <2>1. /\ todo = {} /\ own /\ Working = {} /\ routed = Wanted /\ space = "shared"
        /\ heard \cap Own = {}
    BY DEF IInv, Ledger, Early, Working, MemberSteps, RoomSteps, CleanStart
  <2>2. routed = ListedContacts \cup heard \cup Own
    BY <2>1 DEF Wanted
  <2>3. SpaceMirrorsRadio
    <3>1. \A c \in Contacts \ ListedContacts : member[c] # "join"
      BY DEF IInv, MembersRead, PC, Early
    <3>2. \A c \in ListedContacts : member[c] = "join" /\ profile[c] = listed[c] /\ room[c] = listed[c]
      BY <2>2 DEF IInv, RoutedDone, ListedContacts
    <3> QED BY <3>1, <3>2 DEF SpaceMirrorsRadio, ListedContacts
  <2>4. heard \cup Own \subseteq asked
    BY <2>2, ConstantsAssumption DEF IInv, RoutedDone, TypeOK
  <2> QED BY <2>1, <2>2, <2>3, <2>4 DEF EveryRoomReady, IInv, RoutedDone
<1> QED BY <1>1, InductiveInvariant, PTL

(* Nobody but a user lets a contact that has left the space in again: a    *)
(* startup invites only contacts that were never there, and joins only     *)
(* those that are invited.                                                 *)
THEOREM NoReadmission == Spec => OnlyUsersReadmit
<1>1. ASSUME IInv, [Next]_vars
      PROVE  [pc' # pc => \A c \in Contacts : member[c] = "leave" => member'[c] = "leave"]_vars
  <2> SUFFICES ASSUME Next, pc' # pc, NEW c \in Contacts, member[c] = "leave"
               PROVE  member'[c] = "leave"
    BY <1>1
  <2>1. CASE InviteContact \/ JoinSpace
    <3>1. pc \in {"invite", "join", "rejoin"} /\ \E m : member' = [member EXCEPT ![at] = m]
          \/ member' = member
      BY <2>1 DEF InviteContact, JoinSpace
    <3>2. pc \in {"invite", "join", "rejoin"}
      BY <2>1 DEF InviteContact, JoinSpace
    <3>3. c # at
      BY <1>1, <3>2 DEF IInv, UnderWay
    <3> QED BY <1>1, <3>1, <3>3 DEF IInv, TypeOK
  <2>2. CASE ~ (InviteContact \/ JoinSpace)
    <3>1. UNCHANGED member \/ \E d \in Contacts : LeaveSpace(d) \/ UserInvites(d)
      BY <2>2 DEF Next, StartUp, Start, AddSpace, EnsureSpace, InviteUser, ReadRadio, ListContacts,
             ListChannels, GetMembers, PruneContacts, Pruned, EnsureMember, AddContact,
             RegisterUser, NameRegistered, SetDisplayName, EnsureRoom, OwnChannels, AddChannel,
             CreateRoom, ReuseRoom, AttachChild, SendRoomInvite, Up, Stop, RadioChanges,
             NewContact, homeserver
    <3> QED BY <3>1 DEF LeaveSpace, UserInvites, process
  <2> QED BY <2>1, <2>2
<1> QED BY <1>1, InductiveInvariant, PTL DEF Spec, OnlyUsersReadmit

(* A contact that has no room once the own channels are reached, because   *)
(* the radio did not know it when it was asked, gets none in this run of   *)
(* the bridge.                                                             *)
THEOREM LateContactsWait == Spec => NewContactsWait
<1>1. ASSUME IInv, [Next]_vars
      PROVE  [own /\ own' => \A c \in Contacts : c \notin routed => c \notin routed' /\ at' # c]_vars
  <2> SUFFICES ASSUME Next, own, own', NEW c \in Contacts, c \notin routed
               PROVE  c \notin routed' /\ at' # c
    BY <1>1
  <2>1. pc \notin Early
    BY <1>1 DEF IInv, CleanStart
  <2>2. ListedContacts \subseteq routed /\ todo \cup Working \cup routed = Wanted
    BY <1>1, <2>1 DEF IInv, Ledger
  <2>3. heard \subseteq Names /\ c \notin todo \cup Working
    <3>1. heard \subseteq Names
      BY <1>1 DEF IInv, TypeOK
    <3>2. c \notin todo \cup Working \/ c \in ListedContacts
      BY <2>2, <3>1, ConstantsAssumption DEF Wanted
    <3> QED BY <2>2, <3>1, <3>2
  <2>4. at # c
    <3>1. CASE pc \in MemberSteps \cup RoomSteps
      BY <2>3, <3>1 DEF Working
    <3>2. CASE pc \in {"next", "up"}
      BY <1>1, <3>2, ConstantsAssumption DEF IInv, CleanStart
    <3>3. CASE pc = "ask"
      BY <1>1, <3>3, ConstantsAssumption DEF IInv, UnderWay
    <3> QED BY <1>1, <2>1, <3>1, <3>2, <3>3 DEF IInv, TypeOK, PC, MemberSteps, RoomSteps, Early
  <2>5. CASE \E d \in Contacts : AddContact(d)
    <3>1. PICK d \in Contacts : AddContact(d)
      BY <2>5
    <3>2. d \in todo /\ (pc' = "down" => Forget)
      BY <3>1 DEF AddContact
    <3>3. d \in ListedContacts
      BY <2>2, <2>3, <3>2, ConstantsAssumption DEF Wanted
    <3>4. FALSE
      BY <1>1, <2>1, <2>2, <3>2, <3>3 DEF IInv, Ledger
    <3> QED BY <3>4
  <2>6. CASE ReuseRoom \/ AttachChild
    <3>1. Enlist /\ own
      BY <2>6 DEF ReuseRoom, AttachChild
    <3> QED BY <2>4, <3>1, EnlistEffect, ConstantsAssumption DEF Forget
  <2>7. CASE \E n \in Names : AddChannel(n)
    BY <2>7, ConstantsAssumption DEF AddChannel
  <2>8. CASE SendRoomInvite
    BY <2>8, ConstantsAssumption DEF SendRoomInvite
  <2>9. CASE Stop
    BY <2>9, ConstantsAssumption DEF Stop, End, Forget
  <2>l. CASE \E d \in Contacts : LeaveSpace(d)
    BY <1>1, <2>1, <2>l DEF LeaveSpace, Early
  <2>10. ASSUME ~ \E d \in Contacts : AddContact(d), ~ ReuseRoom, ~ AttachChild,
               ~ \E n \in Names : AddChannel(n), ~ SendRoomInvite, ~ Stop,
               ~ \E d \in Contacts : LeaveSpace(d)
         PROVE  UNCHANGED <<at, routed>>
    BY <2>10 DEF Next, StartUp, Start, AddSpace, EnsureSpace, InviteUser, ReadRadio,
       ListContacts, ListChannels, GetMembers, PruneContacts, Pruned, EnsureMember,
       InviteContact, JoinSpace, RegisterUser, NameRegistered, SetDisplayName, EnsureRoom,
       OwnChannels, CreateRoom, Up, RadioChanges, UserInvites, NewContact, process, step
  <2> QED BY <2>4, <2>5, <2>6, <2>7, <2>8, <2>9, <2>10, <2>l
<1> QED BY <1>1, InductiveInvariant, PTL DEF Spec, NewContactsWait

(* A room that was made by a startup cut short before it was put on the    *)
(* space is found again by every later one, and never put there; and no    *)
(* room is left out in any other way.                                      *)
THEOREM DetachedForGood == Spec => DetachedStay
<1>1. ASSUME IInv, [Next]_vars
      PROVE  [\A r \in Rooms : /\ Detached(r) => Detached(r)'
                               /\ Detached(r)' => Detached(r) \/ stops' > stops]_vars
  <2> SUFFICES ASSUME Next, NEW r \in Rooms
               PROVE  /\ Detached(r) => Detached(r)'
                      /\ Detached(r)' => Detached(r) \/ stops' > stops
    BY <1>1
  <2>t. TypeOK /\ Parts
    BY <1>1 DEF IInv, Parts
  <2>1. CASE CreateRoom
    <3>1. /\ pc = "room" /\ room[at] = None /\ room' = [room EXCEPT ![at] = NameOf(at)]
          /\ pc' = "attach" /\ at' = at /\ UNCHANGED attached
      BY <2>1 DEF CreateRoom, Exists, step
    <3> QED BY <2>t, <3>1 DEF Detached, TypeOK
  <2>2. CASE ReuseRoom
    <3>1. /\ pc = "room" /\ room[at] # None /\ room' = [room EXCEPT ![at] = NameOf(at)]
          /\ UNCHANGED attached /\ Enlist
      BY <2>2 DEF ReuseRoom, Exists
    <3>2. NameOf(at) # None /\ pc' # "attach"
      BY <2>t, <3>1, NameOfWorking, EnlistEffect DEF RoomSteps
    <3> QED BY <2>t, <3>1, <3>2 DEF Detached, TypeOK
  <2>3. CASE AttachChild
    <3>1. /\ pc = "attach" /\ UNCHANGED room /\ attached' = attached \cup {at} /\ Enlist
      BY <2>3 DEF AttachChild
    <3>2. pc' # "attach"
      BY <3>1, EnlistEffect
    <3> QED BY <3>1, <3>2 DEF Detached
  <2>4. CASE Stop
    <3>1. pc' = "down" /\ stops' = stops + 1 /\ UNCHANGED <<room, attached>> /\ stops \in Nat
      BY <2>t, <2>4, ConstantsAssumption DEF Stop, End, homeserver, TypeOK
    <3> QED BY <3>1 DEF Detached
  <2>5. ASSUME ~ CreateRoom, ~ ReuseRoom, ~ AttachChild, ~ Stop
        PROVE  /\ UNCHANGED <<room, attached>>
               /\ UNCHANGED <<pc, at>> \/ (pc # "attach" /\ pc' # "attach")
    <3>1. CASE EnsureMember
      <4>1. ASSUME NEW c \in Contacts, AddContact(c)
            PROVE  UNCHANGED <<room, attached>> /\ pc # "attach" /\ pc' # "attach"
        <5> DEFINE m == IF cache[c] = "absent" THEN member[c] ELSE cache[c]
        <5>1. m \in Membership /\ ByMembership(m)
          BY <2>t, <4>1 DEF AddContact, TypeOK
        <5> QED BY <4>1, <5>1 DEF AddContact, ByMembership, Membership, homeserver
      <4> QED BY <3>1, <4>1 DEF EnsureMember, InviteContact, JoinSpace, RegisterUser,
                                NameRegistered, SetDisplayName
    <3>2. CASE RadioChanges \/ \E c \in Contacts : UserInvites(c) \/ NewContact(c)
      BY <3>2 DEF RadioChanges, UserInvites, NewContact, homeserver, process, step
    <3>3. CASE Start \/ AddSpace \/ ReadRadio \/ PruneContacts \/ Up
      BY <3>3 DEF Start, AddSpace, EnsureSpace, InviteUser, ReadRadio, ListContacts, ListChannels,
                  GetMembers, PruneContacts, Pruned, LeaveSpace, End, Up, homeserver, step
    <3>4. CASE OwnChannels \/ SendRoomInvite \/ \E n \in Names : AddChannel(n)
      BY <3>4 DEF OwnChannels, SendRoomInvite, AddChannel, homeserver, step
    <3> QED BY <2>5, <3>1, <3>2, <3>3, <3>4 DEF Next, StartUp, EnsureRoom
  <2>6. CASE UNCHANGED <<room, attached>> /\ (UNCHANGED <<pc, at>> \/ (pc # "attach" /\ pc' # "attach"))
    BY <2>6 DEF Detached
  <2> QED BY <2>1, <2>2, <2>3, <2>4, <2>5, <2>6
<1> QED BY <1>1, InductiveInvariant, PTL DEF Spec, DetachedStay
=============================================================================
