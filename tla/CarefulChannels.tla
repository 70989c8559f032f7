-------------------------- MODULE CarefulChannels --------------------------
(***************************************************************************)
(* What the operator of the command room has to do for the rooms to match  *)
(* the radio.  command_callback checks none of this: it overwrites a slot  *)
(* another room sends to, it binds a room although the radio refused the   *)
(* channel, and it looks channels up in a cache that set-channel and       *)
(* clear-channel never refresh.  A careful operator                        *)
(*   - changes a channel only when no other command is under way,          *)
(*   - sets a channel only in an empty slot, under a name that is neither  *)
(*     on the radio nor the name of an own room,                           *)
(*   - runs list-channels after every change, before the next one,         *)
(* and meets a radio and a homeserver that report no error to a change.    *)
(* Leaving out any one of these breaks an invariant below or one of        *)
(* ChannelTraffic, where the channels' messages are added.                 *)
(***************************************************************************)
EXTENDS RadioChannels

Quiet == \A t \in Tasks : task[t].pc = "idle"

CacheIsFresh == channel_cache = device

OnRadio(n) == \E s \in Slots : device[s] = n

NoTwins == \A r, s \in Slots : device[r] = device[s] /\ device[r] # None => r = s

CarefulInit == Init /\ NoTwins

CarefulSet(t, n, s) ==
  /\ Quiet /\ CacheIsFresh
  /\ n \notin Own /\ ~ OnRadio(n) /\ device[s] = None
  /\ SetChannel(t, n, s)

CarefulClear(t, s) == Quiet /\ CacheIsFresh /\ ClearChannel(t, s)

WriteSucceeds(t) ==
  WriteSlot(t) /\ device' = [device EXCEPT ![task[t].idx] = task[t].new]

CarefulNext ==
  \E t \in Tasks :
    \/ \E s \in Slots : CarefulClear(t, s) \/ \E n \in Names : CarefulSet(t, n, s)
    \/ ListChannels(t) \/ TakeLock(t)
    \/ WriteSucceeds(t) \/ EnsureRoom(t) \/ InviteUser(t)
    \/ ScanSlot(t) \/ ScanFails(t)

CarefulSpec == CarefulInit /\ [][CarefulNext]_vars

-----------------------------------------------------------------------------
(* A message typed in a channel's room goes out on a slot that holds this  *)
(* very channel, at any moment, also while a command is under way.         *)
NeverMisroutes ==
  \A n \in Names, s \in Slots : routes[n] = s => device[s] = n

(* Between commands every channel on the radio has its room. *)
EveryChannelHasARoom ==
  Quiet => \A s \in Slots : device[s] # None => routes[device[s]] = s
=============================================================================
