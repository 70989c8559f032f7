---------------------------- MODULE Provisioning ----------------------------
(***************************************************************************)
(* Bringing up one radio: MatrixChatterManager.add_chatter and             *)
(* RadioChatter.init, which list the radio's contacts and channels, make   *)
(* the contacts left on the space those of the radio and give every        *)
(* contact and channel its room (mcorechat.py, matrix/app.py).             *)
(*                                                                         *)
(* One task sends one request after the other; the server for the          *)
(* homeserver's events starts only afterwards.  A request is one action.   *)
(* Any request may fail and the process may be stopped between any two,    *)
(* also after the homeserver has acted on one and before its answer: each  *)
(* ends the process, which somebody starts again.  What the homeserver and *)
(* the radio hold survives.  Nobody else kicks a contact (see RoomMembers). *)
(***************************************************************************)
EXTENDS Naturals, FiniteSets

CONSTANTS
  Contacts,   \* the clients a radio may know
  Labels,     \* the names a contact may have
  Names,      \* the names a channel of the radio may have
  Own,        \* the names of advertisements_channel and command_channel
  None,       \* no name: not on the radio, no user, no room, no item
  Nameless,   \* a registered user without a display name
  MaxStops    \* bound: so many startups are cut short by a failure or a stop

ASSUME ConstantsAssumption ==
  /\ Own \subseteq Names
  /\ Contacts \cap Names = {} /\ Labels \cap Names = {}
  /\ {None, Nameless} \cap (Contacts \cup Labels \cup Names) = {} /\ None # Nameless
  /\ MaxStops \in Nat

Rooms == Contacts \cup Names

VARIABLES
  book, channels,             \* the radio's contacts, by name, and channels
  space,                      \* the homeserver: how far the space is
  member, profile,            \* contacts on the space, their display names
  room, attached, asked,      \* rooms by name; on the space; user invited
  pc, at, seen, invited,      \* the startup: where, for whom, what it read
  listed, heard, todo,        \* contacts and channels it read; those to do
  own,                        \* the channels of the radio are done
  cache, routed,              \* room_members of the space, RoomManager
  stops                       \* history: startups cut short

radio      == <<book, channels>>
homeserver == <<space, member, profile, room, attached, asked>>
step       == <<at, seen, invited>>
lists      == <<listed, heard, todo, own>>
process    == <<pc, step, lists, cache, routed>>
vars       == <<radio, homeserver, process, stops>>

Membership == {"absent", "invite", "join", "leave"}

PC == {"down", "space", "user", "contacts", "channels", "members", "prune", "next",
       "invite", "join", "register", "name", "rejoin", "label", "room", "attach", "ask", "up"}

TypeOK ==
  /\ book \in [Contacts -> Labels \cup {None}] /\ channels \subseteq Names
  /\ space \in {"absent", "made", "shared"}
  /\ member \in [Contacts -> Membership]
  /\ profile \in [Contacts -> Labels \cup {None, Nameless}]
  /\ room \in [Rooms -> Labels \cup Names \cup {None}]
  /\ attached \subseteq Rooms /\ asked \subseteq Names
  /\ pc \in PC /\ at \in Rooms \cup {None}
  /\ seen \in Labels \cup {None, Nameless} /\ invited \in BOOLEAN
  /\ listed \in [Contacts -> Labels \cup {None}] /\ heard \subseteq Names
  /\ todo \subseteq Rooms /\ own \in BOOLEAN
  /\ cache \in [Contacts -> Membership] /\ routed \subseteq Rooms
  /\ stops \in 0 .. MaxStops

Init ==
  /\ book \in [Contacts -> Labels \cup {None}] /\ channels \in SUBSET Names
  /\ space = "absent"
  /\ member = [c \in Contacts |-> "absent"] /\ profile = [c \in Contacts |-> None]
  /\ room = [r \in Rooms |-> None] /\ attached = {} /\ asked = {}
  /\ pc = "down" /\ at = None /\ seen = None /\ invited = FALSE
  /\ listed = [c \in Contacts |-> None] /\ heard = {} /\ todo = {} /\ own = FALSE
  /\ cache = [c \in Contacts |-> "absent"] /\ routed = {}
  /\ stops = 0

(* The process ends, and its memory with it. *)
Forget ==
  /\ at' = None /\ seen' = None /\ invited' = FALSE
  /\ listed' = [c \in Contacts |-> None] /\ heard' = {} /\ todo' = {} /\ own' = FALSE
  /\ cache' = [c \in Contacts |-> "absent"] /\ routed' = {}

End == pc' = "down" /\ Forget

-----------------------------------------------------------------------------
(* Those the bridge does not control (external): the radio's contacts are  *)
(* added, renamed and removed, its channels too, and a user lets a contact *)
(* that has left the space in again.                                       *)

RadioChanges ==
  /\ \/ /\ \E c \in Contacts, l \in Labels \cup {None} : book' = [book EXCEPT ![c] = l]
        /\ UNCHANGED channels
     \/ /\ \E n \in Names : channels' \in {channels \cup {n}, channels \ {n}}
        /\ UNCHANGED book
  /\ UNCHANGED <<homeserver, process, stops>>

UserInvites(c) ==
  /\ member[c] = "leave"
  /\ member' = [member EXCEPT ![c] = "invite"]
  /\ UNCHANGED <<radio, space, profile, room, attached, asked, process, stops>>

-----------------------------------------------------------------------------
(* add_chatter: the space, and the user it is for *)

Start ==
  /\ pc = "down" /\ pc' = "space"
  /\ UNCHANGED <<radio, homeserver, step, lists, cache, routed, stops>>

EnsureSpace ==
  /\ pc = "space" /\ pc' = "user"
  /\ space' = IF space = "absent" THEN "made" ELSE space
  /\ UNCHANGED <<radio, member, profile, room, attached, asked, step, lists, cache,
                 routed, stops>>

InviteUser ==
  /\ pc = "user" /\ pc' = "contacts"
  /\ space' = "shared"
  /\ UNCHANGED <<radio, member, profile, room, attached, asked, step, lists, cache,
                 routed, stops>>

-----------------------------------------------------------------------------
(* init: what is on the radio, and prune_contacts.  (ToPruneAnyone and its  *)
(* like are mutants: plausible slips, used only to confirm that a property *)
(* notices them.)                                                          *)

ListContacts ==
  /\ pc = "contacts" /\ pc' = "channels"
  /\ listed' = book
  /\ UNCHANGED <<radio, homeserver, step, heard, todo, own, cache, routed, stops>>

ListChannels ==
  /\ pc = "channels" /\ pc' = "members"
  /\ heard' = channels
  /\ UNCHANGED <<radio, homeserver, step, listed, todo, own, cache, routed, stops>>

ListedContacts == {c \in Contacts : listed[c] # None}

Insiders == {c \in Contacts : member[c] \in {"join", "invite"}}

ToPruneAnyone == (Insiders \cup {"app_user"}) \ ListedContacts

(* the users of the bridge that are none of its contacts any more, but not *)
(* the bridge's own user *)
ToPrune == Insiders \ ListedContacts

(* get_room_members also fills the cache. *)
GetMembers ==
  /\ pc = "members" /\ pc' = "prune"
  /\ cache' = member
  /\ todo' = ToPrune
  /\ UNCHANGED <<radio, homeserver, step, listed, heard, own, routed, stops>>

(* A user that is not registered cannot leave, though invited: the         *)
(* exception ends the process.                                             *)
LeaveSpace(c) ==
  /\ pc = "prune" /\ c \in todo
  /\ IF profile[c] = None
       THEN End /\ UNCHANGED member
       ELSE /\ member' = [member EXCEPT ![c] = "leave"]
            /\ todo' = todo \ {c}
            /\ UNCHANGED <<pc, step, listed, heard, own, cache, routed>>
  /\ UNCHANGED <<radio, space, profile, room, attached, asked, stops>>

Pruned ==
  /\ pc = "prune" /\ todo = {} /\ pc' = "next"
  /\ todo' = ListedContacts \cup heard
  /\ UNCHANGED <<radio, homeserver, step, listed, heard, own, cache, routed, stops>>

-----------------------------------------------------------------------------
(* add_contact: first ensure_room_member for the space (in RoomMembers it  *)
(* is seen in more detail), its memberships read from the cache or else    *)
(* from the homeserver, each with the display name of then                 *)

Card(c) == IF profile[c] = None THEN Nameless ELSE profile[c]

JoinedOrAbsent(m) ==
  CASE m = "absent" -> pc' = "invite"
    [] m = "join"   -> pc' = "label"
    [] m = "invite" \/ m = "leave" -> pc' = "down"

InviteAgain(m) ==
  CASE m \in {"absent", "leave"} -> pc' = "invite"
    [] m = "invite" -> pc' = "join"
    [] m = "join"   -> pc' = "label"

ByMembership(m) ==
  CASE m = "absent" -> pc' = "invite"
    [] m = "invite" -> pc' = "join"
    [] m = "join"   -> pc' = "label"
    [] m = "leave"  -> pc' = "down"  \* Unexpected membership

AddContact(c) ==
  LET m == IF cache[c] = "absent" THEN member[c] ELSE cache[c]
  IN /\ pc = "next" /\ c \in todo
     /\ ByMembership(m)
     /\ IF pc' = "down"
          THEN Forget
          ELSE /\ at' = c /\ seen' = Card(c) /\ invited' = FALSE
               /\ todo' = todo \ {c}
               /\ cache' = [cache EXCEPT ![c] = m]
               /\ UNCHANGED <<listed, heard, own, routed>>
     /\ UNCHANGED <<radio, homeserver, stops>>

(* a 403, to a user that is in or invited, is ignored *)
InviteContact ==
  /\ pc = "invite" /\ pc' = "join"
  /\ member' = [member EXCEPT ![at] = IF @ \in {"invite", "join"} THEN @ ELSE "invite"]
  /\ invited' = TRUE
  /\ UNCHANGED <<radio, space, profile, room, attached, asked, at, seen, lists, cache,
                 routed, stops>>

(* Having been invited here, the contact is looked up again. *)
JoinSpace ==
  /\ pc \in {"join", "rejoin"}
  /\ IF profile[at] = None
       THEN pc' = "register" /\ UNCHANGED <<member, cache, seen>>
       ELSE /\ pc' = "label"
            /\ member' = [member EXCEPT ![at] = "join"]
            /\ IF invited THEN /\ seen' = Card(at)
                               /\ cache' = [cache EXCEPT ![at] = "join"]
                          ELSE UNCHANGED <<seen, cache>>
  /\ UNCHANGED <<radio, space, profile, room, attached, asked, at, invited, lists,
                 routed, stops>>

(* M_USER_IN_USE, the answer to a repetition, skips the display name. *)
RegisterUser ==
  /\ pc = "register" /\ pc' \in {"name", "rejoin"}
  /\ profile' = [profile EXCEPT ![at] = Nameless]
  /\ UNCHANGED <<radio, space, member, room, attached, asked, step, lists, cache,
                 routed, stops>>

NamedBefore == seen # Nameless

IsCurrent == seen = listed[at]

SetName == profile' = [profile EXCEPT ![at] = listed[at]]

NameRegistered ==
  /\ pc = "name" /\ pc' = "rejoin"
  /\ SetName
  /\ UNCHANGED <<radio, space, member, room, attached, asked, step, lists, cache,
                 routed, stops>>

SetDisplayName ==
  /\ pc = "label" /\ pc' = "room"
  /\ IF IsCurrent THEN UNCHANGED profile ELSE SetName
  /\ seen' = None /\ invited' = FALSE
  /\ UNCHANGED <<radio, space, member, room, attached, asked, at, lists, cache,
                 routed, stops>>

-----------------------------------------------------------------------------
(* ensure_room and RoomManager.add, for contacts and channels; the own     *)
(* channels come last, also if the radio has one of that name              *)

AddChannel(n) ==
  /\ pc = "next" /\ todo \cap Contacts = {} /\ n \in todo
  /\ pc' = "room" /\ at' = n /\ todo' = todo \ {n}
  /\ UNCHANGED <<radio, homeserver, seen, invited, listed, heard, own, cache, routed, stops>>

OwnChannels ==
  /\ pc = "next" /\ todo = {} /\ ~ own
  /\ own' = TRUE /\ todo' = Own
  /\ UNCHANGED <<radio, homeserver, pc, step, listed, heard, cache, routed, stops>>

NameOf(x) == IF x \in Contacts THEN listed[x] ELSE x

Exists(x) == room[x] # None

(* RoomManager.add raises for a room it has.  The user is invited into     *)
(* channels only, and only one who was never there.                        *)
Enlist ==
  IF at \in routed
    THEN End
    ELSE /\ routed' = routed \cup {at}
         /\ IF at \in Names \ asked THEN pc' = "ask" /\ UNCHANGED at
                                    ELSE pc' = "next" /\ at' = None
         /\ UNCHANGED <<seen, invited, lists, cache>>

(* A room found by its alias is renamed if need be. *)
ReuseRoom ==
  /\ pc = "room" /\ Exists(at)
  /\ room' = [room EXCEPT ![at] = NameOf(at)]
  /\ Enlist
  /\ UNCHANGED <<radio, space, member, profile, attached, asked, stops>>

CreateOnly ==
  /\ pc = "room" /\ ~ Exists(at)
  /\ room' = [room EXCEPT ![at] = NameOf(at)]
  /\ Enlist
  /\ UNCHANGED <<radio, space, member, profile, attached, asked, stops>>

CreateRoom ==
  /\ pc = "room" /\ ~ Exists(at)
  /\ room' = [room EXCEPT ![at] = NameOf(at)]
  /\ pc' = "attach"
  /\ UNCHANGED <<radio, space, member, profile, attached, asked, step, lists, cache,
                 routed, stops>>

AttachChild ==
  /\ pc = "attach"
  /\ attached' = attached \cup {at}
  /\ Enlist
  /\ UNCHANGED <<radio, space, member, profile, room, asked, stops>>

SendRoomInvite ==
  /\ pc = "ask" /\ pc' = "next"
  /\ asked' = asked \cup {at} /\ at' = None
  /\ UNCHANGED <<radio, space, member, profile, room, attached, seen, invited, lists,
                 cache, routed, stops>>

Up ==
  /\ pc = "next" /\ todo = {} /\ own
  /\ pc' = "up"
  /\ UNCHANGED <<radio, homeserver, step, lists, cache, routed, stops>>

-----------------------------------------------------------------------------
(* Once up, the radio announces a contact that is new to it, and           *)
(* handle_new_contact adds the client that get_contact finds, by the way   *)
(* init adds one.  But get_contact answers from contact_cache, which init  *)
(* has filled and nothing refreshes.                                       *)

AskRadio(c) == book[c] # None

GetContact(c) == listed[c] # None

NewContact(c) ==
  /\ pc = "up" /\ book[c] # None
  /\ IF GetContact(c) /\ c \notin routed  \* not in added_public_keys
       THEN pc' = "next" /\ todo' = {c}
       ELSE UNCHANGED <<pc, todo>>
  /\ UNCHANGED <<radio, homeserver, step, listed, heard, own, cache, routed, stops>>

-----------------------------------------------------------------------------
(* A failed request, a lost connection to the radio, a signal, a crash *)
Stop ==
  /\ pc # "down" /\ stops < MaxStops
  /\ stops' = stops + 1
  /\ End
  /\ UNCHANGED <<radio, homeserver>>

AddSpace == EnsureSpace \/ InviteUser

ReadRadio == ListContacts \/ ListChannels \/ GetMembers

PruneContacts == Pruned \/ \E c \in Contacts : LeaveSpace(c)

EnsureMember ==
  \/ \E c \in Contacts : AddContact(c)
  \/ InviteContact \/ JoinSpace \/ RegisterUser \/ NameRegistered \/ SetDisplayName

EnsureRoom ==
  \/ OwnChannels \/ \E n \in Names : AddChannel(n)
  \/ CreateRoom \/ ReuseRoom \/ AttachChild \/ SendRoomInvite

StartUp ==
  Start \/ AddSpace \/ ReadRadio \/ PruneContacts \/ EnsureMember \/ EnsureRoom \/ Up

Next ==
  \/ StartUp \/ Stop
  \/ RadioChanges \/ \E c \in Contacts : UserInvites(c) \/ NewContact(c)

Spec == Init /\ [][Next]_vars

(* Requests are answered, and whoever runs the bridge starts it again. *)
FairSpec == Spec /\ WF_vars(StartUp)

-----------------------------------------------------------------------------
(* Once init is over the contacts on the space are those it listed, each   *)
(* under its present name, which is also that of its room, whatever        *)
(* earlier startups left undone and however the radio changed since.       *)
SpaceMirrorsRadio ==
  \A c \in Contacts :
    IF listed[c] = None THEN member[c] # "join"
    ELSE member[c] = "join" /\ profile[c] = listed[c] /\ room[c] = listed[c]

(* Then every contact, every channel and the own channels have a room that *)
(* is routed, and the user was invited into the channels and the space; so *)
(* a bridge whose radio had a channel with an own name never came up.      *)
EveryRoomReady ==
  /\ routed = ListedContacts \cup heard \cup Own
  /\ \A r \in routed : room[r] # None
  /\ heard \cup Own \subseteq asked /\ space = "shared"
  /\ heard \cap Own = {}

(* A bridge that is up has finished the work of all startups before it. *)
UpIsComplete == pc = "up" => SpaceMirrorsRadio /\ EveryRoomReady

(* A contact that turns up on the radio while the bridge runs gets no room *)
(* and is not let into the space until the bridge is started again,        *)
(* although NEW_CONTACT announces it: it is not in contact_cache.  (This   *)
(* also keeps the JOIN that stays in the member cache for a contact which  *)
(* prune_contacts made leave from ever being believed.)                    *)
NewContactsWait ==
  [][own /\ own' => \A c \in Contacts : c \notin routed => c \notin routed' /\ at' # c]_vars

(* A room the space does not show, nor is about to *)
Detached(r) == room[r] # None /\ r \notin attached /\ ~ (pc = "attach" /\ at = r)

(* A room is missing from the space only if a startup was cut short        *)
(* between two requests, and it is then missing for ever: the next startup *)
(* finds the room by its alias, and only a room just created is attached.  *)
DetachedStay ==
  [][\A r \in Rooms : /\ Detached(r) => Detached(r)'
                      /\ Detached(r)' => Detached(r) \/ stops' > stops]_vars

(* The startup cannot succeed on its own: a contact that was pruned is on  *)
(* the radio again, one that is no more was invited but never registered,  *)
(* or the radio has a channel named like an own one.                       *)
Blocked ==
  \/ \E c \in Contacts : book[c] # None /\ member[c] = "leave"
  \/ \E c \in Contacts : book[c] = None /\ member[c] = "invite" /\ profile[c] = None
  \/ channels \cap Own # {}

(* The bridge comes up in the end after any number of cuts, at any point,  *)
(* unless it is blocked.                                                   *)
ComesUp == pc = "down" ~> pc = "up" \/ Blocked

(* And for good: whatever the startups, only a user's invitation lets a    *)
(* contact that has left in again.                                         *)
OnlyUsersReadmit ==
  [][pc' # pc => \A c \in Contacts : member[c] = "leave" => member'[c] = "leave"]_vars
=============================================================================
