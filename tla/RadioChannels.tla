--------------------------- MODULE RadioChannels ---------------------------
(***************************************************************************)
(* The channels of one radio: RadioChatter's channel commands, its list of *)
(* added channels, MeshCorePlus' channel cache and the rooms RoomManager   *)
(* routes to this radio (mcorechat.py, matrix/app.py).                     *)
(*                                                                         *)
(* The program is asyncio code: a task runs alone until it awaits a reply  *)
(* of the radio or of the homeserver, or a lock another task holds.  One   *)
(* action is one such run.  Initially RadioChatter.init has just finished. *)
(***************************************************************************)
EXTENDS Naturals

CONSTANTS
  MaxChannels,   \* number of channel slots scanned on the radio (MAX_CHANNELS)
  Names,         \* names a command may give a channel
  Own,           \* the names of advertisements_channel and command_channel
  Tasks,         \* command handlers that may be in flight together
  None,          \* no channel, no room, no holder
  Handler        \* what an own room is bound to: a function, not a radio slot

Slots == 0 .. MaxChannels - 1

ASSUME ConstantsAssumption ==
  /\ MaxChannels \in Nat \ {0}
  /\ Own \subseteq Names
  /\ None \notin Names \cup Tasks \cup Slots \cup {Handler}
  /\ Handler \notin Slots

VARIABLES
  device,              \* the name in each slot of the radio, None if empty
  channel_cache,       \* MeshCorePlus.channel_cache
  added_channel_names, \* RadioChatter.added_channel_names
  routes,              \* RoomManager: the slot each room's handler sends to
  lock,                \* the task holding RadioChatter.lock
  task                 \* where each command handler is, and its locals

vars == <<device, channel_cache, added_channel_names, routes, lock, task>>

PC == {"idle", "remove", "write", "add", "room", "invite", "scan"}

Contents == [Slots -> Names \cup {None}]

Idle == [pc |-> "idle", current |-> None, new |-> None, idx |-> 0,
         seen |-> [s \in Slots |-> None]]

TypeOK ==
  /\ device \in Contents
  /\ channel_cache \in Contents
  /\ added_channel_names \subseteq Names
  /\ routes \in [Names -> Slots \cup {None, Handler}]
  /\ lock \in Tasks \cup {None}
  /\ task \in [Tasks -> [pc : PC, current : Names \cup {None},
                         new : Names \cup {None}, idx : Slots, seen : Contents]]

Finish(t) == task' = [task EXCEPT ![t] = Idle]

Goto(t, pc) == task' = [task EXCEPT ![t].pc = pc]

-----------------------------------------------------------------------------
(* RadioChatter.init: every channel name on the radio gets a room bound to *)
(* the first slot that has it.  A radio channel with an own name makes     *)
(* init fail, so a running bridge did not start on one.                    *)

FirstSlot(n) ==
  CHOOSE s \in Slots : device[s] = n /\ \A r \in Slots : device[r] = n => s <= r

Init ==
  /\ device \in [Slots -> (Names \ Own) \cup {None}]
  /\ channel_cache = device
  /\ added_channel_names = {device[s] : s \in Slots} \ {None}
  /\ routes = [n \in Names |-> IF n \in Own THEN Handler
                               ELSE IF n \in added_channel_names THEN FirstSlot(n)
                               ELSE None]
  /\ lock = None
  /\ task = [t \in Tasks |-> Idle]

-----------------------------------------------------------------------------
(* remove_channel, with the lock free: nothing in it awaits.               *)
(* (UnbindUnchecked and its like are mutants: plausible slips, used only   *)
(* to confirm that a property notices them.)                               *)

LockFree == lock = None

IsAdded(n) == n \in added_channel_names

UnbindUnchecked(n) ==
  /\ added_channel_names' = added_channel_names \ {n}
  /\ routes' = [routes EXCEPT ![n] = None]

UnbindListOnly(n) ==
  /\ added_channel_names' = added_channel_names \ {n}
  /\ UNCHANGED routes

UnbindRoomOnly(n) ==
  IF IsAdded(n) THEN routes' = [routes EXCEPT ![n] = None] /\ UNCHANGED added_channel_names
                ELSE UNCHANGED <<added_channel_names, routes>>

Unbind(n) ==
  IF IsAdded(n)
    THEN /\ added_channel_names' = added_channel_names \ {n}
         /\ routes' = [routes EXCEPT ![n] = None]
    ELSE UNCHANGED <<added_channel_names, routes>>

(* set-channel and clear-channel up to the radio command: drop the room of *)
(* the channel the cache knows, at once unless another task holds the lock *)
BeginChange(t, current, new, s) ==
  LET waits == current # None /\ ~ LockFree
  IN /\ task[t].pc = "idle"
     /\ task' = [task EXCEPT ![t] =
                   [Idle EXCEPT !.pc = IF waits THEN "remove" ELSE "write",
                                !.current = current, !.new = new, !.idx = s]]
     /\ IF current = None \/ waits
          THEN UNCHANGED <<added_channel_names, routes>>
          ELSE Unbind(current)
     /\ UNCHANGED <<device, channel_cache, lock>>

Known(n) == \E s \in Slots : channel_cache[s] = n

SetAddedChannel(t, n, s) ==
  BeginChange(t, IF Known(n) \/ IsAdded(n) THEN n ELSE None, n, s)

SetChannel(t, n, s) == BeginChange(t, IF Known(n) THEN n ELSE None, n, s)

ClearChannel(t, s) == BeginChange(t, channel_cache[s], None, s)

RemoveChannel(t) ==
  /\ task[t].pc = "remove" /\ LockFree
  /\ Unbind(task[t].current)
  /\ Goto(t, "write")
  /\ UNCHANGED <<device, channel_cache, lock>>

(* The radio takes the write or answers with an error; either way the      *)
(* result is only quoted in the reply, and set-channel goes on.            *)
WriteSlot(t) ==
  /\ task[t].pc = "write"
  /\ \/ device' = [device EXCEPT ![task[t].idx] = task[t].new]
     \/ UNCHANGED device
  /\ IF task[t].new = None THEN Finish(t) ELSE Goto(t, "add")
  /\ UNCHANGED <<channel_cache, added_channel_names, routes, lock>>

-----------------------------------------------------------------------------
(* add_channel holds the lock while the homeserver is asked for the room   *)
(* and to invite the user.  An exception leaves through `async with`.      *)

Release == lock' = None

AddChannel(t) ==
  /\ task[t].pc = "add" /\ LockFree
  /\ IF IsAdded(task[t].new) THEN Finish(t) /\ UNCHANGED lock
                             ELSE Goto(t, "room") /\ lock' = t
  /\ UNCHANGED <<device, channel_cache, added_channel_names, routes>>

EnsureRoomFails(t) ==
  /\ task[t].pc = "room"
  /\ Finish(t) /\ Release
  /\ UNCHANGED <<device, channel_cache, added_channel_names, routes>>

(* RoomManager.add refuses a room it already has *)
NeverHasRoom(n) == FALSE

HasRoom(n) == routes[n] # None

RetryRoom(t) ==
  LET n == task[t].new
  IN /\ task[t].pc = "room"
     /\ IF HasRoom(n)
          THEN Goto(t, "add") /\ Release /\ UNCHANGED routes
          ELSE /\ routes' = [routes EXCEPT ![n] = task[t].idx]
               /\ Goto(t, "invite")
               /\ UNCHANGED lock
     /\ UNCHANGED <<device, channel_cache, added_channel_names>>

EnsureRoom(t) ==
  LET n == task[t].new
  IN /\ task[t].pc = "room"
     /\ IF HasRoom(n)
          THEN Finish(t) /\ Release /\ UNCHANGED routes
          ELSE /\ routes' = [routes EXCEPT ![n] = task[t].idx]
               /\ Goto(t, "invite")
               /\ UNCHANGED lock
     /\ UNCHANGED <<device, channel_cache, added_channel_names>>

InviteUser(t) ==
  /\ task[t].pc = "invite"
  /\ added_channel_names' = added_channel_names \cup {task[t].new}
  /\ Finish(t) /\ Release
  /\ UNCHANGED <<device, channel_cache, routes>>

InviteFails(t) ==
  /\ task[t].pc = "invite"
  /\ Finish(t) /\ Release
  /\ UNCHANGED <<device, channel_cache, added_channel_names, routes>>

-----------------------------------------------------------------------------
(* list-channels re-reads the radio slot by slot and replaces the cache    *)
(* with what it saw; an error abandons the scan.                           *)

ListChannels(t) ==
  /\ task[t].pc = "idle"
  /\ task' = [task EXCEPT ![t] = [Idle EXCEPT !.pc = "scan"]]
  /\ UNCHANGED <<device, channel_cache, added_channel_names, routes, lock>>

IsPastLast(s) == s = MaxChannels

IsLast(s) == s = MaxChannels - 1

ScanSlot(t) ==
  LET s    == task[t].idx
      seen == [task[t].seen EXCEPT ![s] = device[s]]
  IN /\ task[t].pc = "scan"
     /\ IF IsLast(s)
          THEN channel_cache' = seen /\ Finish(t)
          ELSE /\ task' = [task EXCEPT ![t].idx = s + 1, ![t].seen = seen]
               /\ UNCHANGED channel_cache
     /\ UNCHANGED <<device, added_channel_names, routes, lock>>

ScanFails(t) ==
  /\ task[t].pc = "scan"
  /\ Finish(t)
  /\ UNCHANGED <<device, channel_cache, added_channel_names, routes, lock>>

-----------------------------------------------------------------------------
Command(t) ==
  \/ \E s \in Slots : ClearChannel(t, s) \/ \E n \in Names : SetChannel(t, n, s)
  \/ ListChannels(t)

TakeLock(t) == RemoveChannel(t) \/ AddChannel(t)

Reply(t) ==
  \/ WriteSlot(t)
  \/ EnsureRoom(t) \/ EnsureRoomFails(t)
  \/ InviteUser(t) \/ InviteFails(t)
  \/ ScanSlot(t)   \/ ScanFails(t)

Next == \E t \in Tasks : Command(t) \/ TakeLock(t) \/ Reply(t)

Spec == Init /\ [][Next]_vars

(* Every request is answered in the end, and asyncio.Lock serves its       *)
(* waiters in order of arrival.                                            *)
Fairness == \A t \in Tasks : WF_vars(Reply(t)) /\ SF_vars(TakeLock(t))

FairSpec == Spec /\ Fairness
-----------------------------------------------------------------------------
Binding(n) == \E t \in Tasks : task[t].pc = "invite" /\ task[t].new = n

(* The lock is held exactly by the task inside Chatter.add_channel. *)
LockHeldByAdder ==
  \A t \in Tasks : lock = t <=> task[t].pc \in {"room", "invite"}

(* The two registries agree: a name RadioChatter counts as added has a     *)
(* room bound to a radio slot, so the RoomManager.remove that              *)
(* remove_channel makes never raises UnknownChannelException, whatever     *)
(* commands overlap and whatever they fail at.                             *)
AddedAreBound == \A n \in added_channel_names : routes[n] \in Slots

(* No command, in any order and with any cache, unbinds or rebinds the     *)
(* command room or the advertisements room: not even set-channel or        *)
(* clear-channel on a radio channel that has taken the same name.          *)
OwnRoomsKept == \A n \in Own : routes[n] = Handler

(* A room whose invitation failed is bound but not counted as added.       *)
Orphan(n) == routes[n] \in Slots /\ ~ IsAdded(n) /\ ~ Binding(n)

(* An orphan is beyond repair by commands: remove_channel returns early on *)
(* it and add_channel raises ChannelAlreadyAddedException, so it keeps     *)
(* sending to the slot of the failed command until the bridge restarts.    *)
OrphansStay ==
  [][\A n \in Names : Orphan(n) => Orphan(n)' /\ routes'[n] = routes[n]]_vars

NotDropping(n) == \A t \in Tasks : ~ (task[t].pc = "remove" /\ task[t].current = n)

(* A room the cache does not know of: its channel was set since the last   *)
(* scan, or was no longer on the radio at that scan.                       *)
Forgotten(n) == IsAdded(n) /\ ~ Known(n) /\ NotDropping(n)

(* A forgotten room is left alone until a scan finds its channel: until    *)
(* then every set-channel of its name, to whatever slot, and every         *)
(* clear-channel of its slot passes it by, and it goes on sending to the   *)
(* slot it was first bound to.                                             *)
ForgottenRoomsStay ==
  [][\A n \in Names : Forgotten(n) =>
       routes'[n] = routes[n] /\ (Forgotten(n)' \/ (IsAdded(n) /\ Known(n))')]_vars

(* No command is left waiting for ever for the lock of another, whatever   *)
(* fails: each one ends if the radio and the homeserver answer.            *)
CommandsFinish == \A t \in Tasks : task[t].pc # "idle" ~> task[t].pc = "idle"
=============================================================================
