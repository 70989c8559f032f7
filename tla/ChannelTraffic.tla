--------------------------- MODULE ChannelTraffic ---------------------------
(***************************************************************************)
(* The messages of the channels while channels change: the commands of a   *)
(* careful operator (CarefulChannels) composed with what RadioChatter      *)
(* sends and receives meanwhile (mcorechat.py).                            *)
(*                                                                         *)
(* A message from a room carries the slot its room's handler was made for, *)
(* and waits on the link for the radio to act on it.  A message from the   *)
(* air waits on the radio with the slot it was heard on, and is given a    *)
(* channel when it is fetched, by the cache of then.  Between the two ends *)
(* of either way a command may change the slot.                            *)
(*                                                                         *)
(* For the second way care with the commands is not enough: what was heard *)
(* on a slot before it was cleared and set to another channel is looked up *)
(* as that channel's.  Neither the program nor the radio tells whether     *)
(* such a message waits, so each one keeps a note of it, a history that no *)
(* action reads.                                                           *)
(***************************************************************************)
EXTENDS CarefulChannels, Sequences

CONSTANTS
  MaxLink,    \* bound: commands and messages on the link to the radio
  MaxInbox    \* bound: messages waiting on the radio

ASSUME TrafficAssumption == MaxLink \in Nat /\ MaxInbox \in Nat

VARIABLES
  link,    \* commands and messages the radio has yet to act on, in order
  inbox,   \* messages waiting on the radio: the slot, the channel it held,
           \* and whether the slot has been given to another channel since
  post     \* the message run() is posting: its room, and where it is from

traffic == <<link, inbox, post>>
allVars == <<vars, traffic>>

Nothing == [room |-> None, from |-> None, moved |-> FALSE]

TrafficTypeOK ==
  /\ TypeOK
  /\ link \in Seq([task : Tasks \cup {None}, room : Names \cup {None}, slot : Slots])
  /\ inbox \in Seq([slot : Slots, from : Names, moved : BOOLEAN])
  /\ post \in [room : Names \cup {None}, from : Names \cup {None}, moved : BOOLEAN]

TrafficInit == CarefulInit /\ link = <<>> /\ inbox = <<>> /\ post = Nothing

-----------------------------------------------------------------------------
(* The commands.  A task that waits for the answer to set_channel has put  *)
(* it on the link, and gets the answer when the radio has come to it.      *)

OnLink == {t \in Tasks : task[t].pc = "write"}

IsMessage(x) == x.task = None

(* Its slot now belongs to another channel than it was heard on. *)
Reset(m) == device'[m.slot] \notin {None, m.from}

NoteMoved(m) == [slot |-> m.slot, from |-> m.from, moved |-> m.moved \/ Reset(m)]

Change ==
  /\ CarefulNext
  /\ \/ /\ OnLink' = OnLink
        /\ UNCHANGED link
     \/ \E t \in OnLink' \ OnLink :
          /\ Len(link) < MaxLink
          /\ link' = Append(link, [task |-> t, room |-> None, slot |-> task'[t].idx])
     \/ \E t \in OnLink \ OnLink' :
          Head(link).task = t /\ link' = Tail(link)
  /\ inbox' = [i \in DOMAIN inbox |-> NoteMoved(inbox[i])]
  /\ UNCHANGED post

-----------------------------------------------------------------------------
(* From the rooms: handle_room_message finds the room and its handler,     *)
(* channel_callback puts the message on the link for the handler's slot.   *)

Route(n) == routes[n]

SendChannelMessage(n) ==
  /\ Route(n) \in Slots /\ Len(link) < MaxLink
  /\ link' = Append(link, [task |-> None, room |-> n, slot |-> Route(n)])
  /\ UNCHANGED <<vars, inbox, post>>

(* The radio transmits it on the channel that is in the slot now. *)
Transmit ==
  /\ link # <<>> /\ IsMessage(Head(link))
  /\ link' = Tail(link)
  /\ UNCHANGED <<vars, inbox, post>>

-----------------------------------------------------------------------------
(* To the rooms: the radio (external) hears a message, the drain fetches   *)
(* it and looks its slot up, and posts it if there is a room.              *)

Hear(s) ==
  /\ device[s] # None /\ Len(inbox) < MaxInbox
  /\ inbox' = Append(inbox, [slot |-> s, from |-> device[s], moved |-> FALSE])
  /\ UNCHANGED <<vars, link, post>>

(* (ChannelInNextSlot is a mutant: a plausible slip, used only to confirm  *)
(* that a property notices it.)                                            *)
ChannelInNextSlot(s) == channel_cache[(s + 1) % MaxChannels]

GetChannel(s) == channel_cache[s]

(* One of an unknown channel is skipped; one whose channel is cached but   *)
(* has no room makes the drain raise.  Either is gone.                     *)
GetMessage ==
  LET m == Head(inbox)
      n == GetChannel(m.slot)
  IN /\ inbox # <<>> /\ post = Nothing
     /\ inbox' = Tail(inbox)
     /\ post' = IF n # None /\ HasRoom(n)
                  THEN [room |-> n, from |-> m.from, moved |-> m.moved]
                  ELSE Nothing
     /\ UNCHANGED <<vars, link>>

Post ==
  /\ post # Nothing /\ post' = Nothing
  /\ UNCHANGED <<vars, link, inbox>>

-----------------------------------------------------------------------------
TrafficNext ==
  \/ Change
  \/ \E n \in Names : SendChannelMessage(n)
  \/ Transmit
  \/ \E s \in Slots : Hear(s)
  \/ GetMessage \/ Post

TrafficSpec == TrafficInit /\ [][TrafficNext]_allVars

-----------------------------------------------------------------------------
(* A message goes on air on the channel of the room it was written in,     *)
(* although its slot was chosen before and commands came in between.       *)
SentWhereWritten ==
  link # <<>> /\ IsMessage(Head(link)) => device[Head(link).slot] = Head(link).room

(* A message from the air is posted in the room of the channel it was      *)
(* heard on, although the room is looked up later in a cache that the      *)
(* commands leave behind; unless it waited on the radio until its slot was *)
(* given to another channel, which no care of the operator rules out.      *)
MisplacedOnlyIfReset == post.room = post.from \/ post.moved
=============================================================================
