----------------------------- MODULE RadioInbox -----------------------------
(***************************************************************************)
(* RadioChatter.run: how the messages stored on a radio get to the rooms.  *)
(*                                                                         *)
(* The radio (external) stores what it hears and announces it with a       *)
(* MESSAGES_WAITING event; the meshcore library runs a handler task for    *)
(* each event.  A handler empties the radio one get_msg at a time, posting *)
(* each message before it asks for the next, under one lock.  get_msg      *)
(* removes the message from the radio, so what a handler holds when it     *)
(* raises or when the process stops is gone.                               *)
(***************************************************************************)
EXTENDS Naturals, Sequences

CONSTANTS
  Handlers,             \* bound: handler tasks alive at once
  Main,                 \* the task of run() itself, which drains at startup
  None,                 \* nobody holds the lock
  MaxMessages,          \* bound: messages the radio ever hears
  dev_enable_receive    \* Config.dev_enable_receive

ASSUME ConstantsAssumption ==
  /\ Main \notin Handlers
  /\ None \notin Handlers \cup {Main}
  /\ MaxMessages \in Nat
  /\ dev_enable_receive \in BOOLEAN

Tasks == Handlers \cup {Main}

(* "routable": a room and a puppet are found for it; "unknown": no such    *)
(* channel or contact, logged and skipped; "refused": handling it raises,  *)
(* as a channel text without ":" (ValueError), a sender in contact_cache   *)
(* that is no client (UnknownContactException) and a cached channel whose  *)
(* room is gone (UnknownChannelException) do.                              *)
Kinds == {"routable", "unknown", "refused"}

VARIABLES
  up,       \* the process is past startup, its events are subscribed
  inbox,    \* the kinds of all messages the radio has heard, in order
  taken,    \* messages 1 .. taken have been removed from the radio
  pc,       \* where each task is
  held,     \* the message each task is posting
  lock,     \* handle_messages_waiting_l
  posted,   \* the messages that reached a room, in order
  late,     \* those whose posting was given up with a request on its way
  missed,   \* an announcement was lost with the link; CONNECTED is to come
  gave_up   \* the last drain raised

vars == <<up, inbox, taken, pc, held, lock, posted, late, missed, gave_up>>

TypeOK ==
  /\ up \in BOOLEAN
  /\ inbox \in Seq(Kinds)
  /\ taken \in 0 .. Len(inbox)
  /\ pc \in [Tasks -> {"idle", "wait", "fetch", "post"}]
  /\ held \in [Tasks -> Nat]
  /\ lock \in Tasks \cup {None}
  /\ posted \in Seq(Nat) /\ late \subseteq Nat
  /\ missed \in BOOLEAN
  /\ gave_up \in BOOLEAN

Init ==
  /\ up = FALSE
  /\ inbox = <<>> /\ taken = 0
  /\ pc = [t \in Tasks |-> "idle"] /\ held = [t \in Tasks |-> 0]
  /\ lock = None
  /\ posted = <<>> /\ late = {}
  /\ missed = FALSE /\ gave_up = FALSE

-----------------------------------------------------------------------------
(* handle_messages_waiting up to its lock, on task t *)
Wake(t) ==
  /\ pc[t] = "idle"
  /\ pc' = IF dev_enable_receive THEN [pc EXCEPT ![t] = "wait"] ELSE pc

(* External: the radio hears a message.  It announces it, unless nobody is *)
(* listening yet or the link is down.                                      *)
Receive(kind) ==
  /\ Len(inbox) < MaxMessages
  /\ inbox' = Append(inbox, kind)
  /\ \/ up /\ (\E t \in Handlers : Wake(t)) /\ UNCHANGED missed
     \/ missed' = up /\ UNCHANGED pc
  /\ UNCHANGED <<up, taken, held, lock, posted, late, gave_up>>

(* External: the library reconnects and CONNECTED runs the same handler.   *)
(* It need not happen: a comment in get_meshcore finds that it never does, *)
(* and has disconnect_cb end the process instead (Stop).                   *)
Reconnect ==
  /\ up /\ missed
  /\ \E t \in Handlers : Wake(t)
  /\ missed' = FALSE
  /\ UNCHANGED <<up, inbox, taken, held, lock, posted, late, gave_up>>

(* (KeepLock and its like are mutants: plausible slips, used only to       *)
(* confirm that a property notices them.)                                  *)
LockFree == lock = None

KeepLock == UNCHANGED lock

Release == lock' = None

TakeLock(t) ==
  /\ pc[t] = "wait" /\ LockFree
  /\ pc' = [pc EXCEPT ![t] = "fetch"]
  /\ lock' = t
  /\ gave_up' = FALSE
  /\ UNCHANGED <<up, inbox, taken, held, posted, late, missed>>

(* The task ends with an exception: for the startup drain that ends run(), *)
(* its TaskGroup and the process; for a handler only the task.             *)
Raise(t) ==
  /\ pc' = IF t = Main THEN [u \in Tasks |-> "idle"] ELSE [pc EXCEPT ![t] = "idle"]
  /\ up' = (t # Main)
  /\ missed' = (missed /\ t # Main)
  /\ Release
  /\ gave_up' = TRUE

-----------------------------------------------------------------------------
(* The answers to get_msg *)

IsEmpty == taken = Len(inbox)

AnyTime == TRUE

HasMore == taken < Len(inbox)

NoMoreMessages(t) ==
  /\ pc[t] = "fetch" /\ IsEmpty
  /\ pc' = [pc EXCEPT ![t] = "idle"]
  /\ Release
  /\ UNCHANGED <<up, inbox, taken, held, posted, late, missed, gave_up>>

GetMessage(t) ==
  LET m == taken + 1
  IN /\ pc[t] = "fetch" /\ ~ IsEmpty
     /\ taken' = m
     /\ \/ /\ inbox[m] = "routable"
           /\ pc' = [pc EXCEPT ![t] = "post"]
           /\ held' = [held EXCEPT ![t] = m]
           /\ UNCHANGED <<up, lock, missed, gave_up>>
        \/ /\ inbox[m] = "unknown"
           /\ UNCHANGED <<up, pc, held, lock, missed, gave_up>>
        \/ inbox[m] = "refused" /\ Raise(t) /\ UNCHANGED held
     /\ UNCHANGED <<inbox, posted, late>>

(* An ERROR event, or none in time.  The radio may have let go of the      *)
(* message all the same.                                                   *)
GetFails(t) ==
  /\ pc[t] = "fetch"
  /\ \/ UNCHANGED taken
     \/ HasMore /\ taken' = taken + 1
  /\ Raise(t)
  /\ UNCHANGED <<inbox, held, posted, late>>

(* send_channel, send_direct: the puppet joins if need be and posts *)
Post(t) ==
  /\ pc[t] = "post"
  /\ posted' = Append(posted, held[t])
  /\ pc' = [pc EXCEPT ![t] = "fetch"]
  /\ UNCHANGED <<up, inbox, taken, held, lock, late, missed, gave_up>>

PostRetries(t) ==
  /\ pc[t] = "post"
  /\ posted' \in {posted, Append(posted, held[t])}
  /\ UNCHANGED <<up, inbox, taken, pc, held, lock, late, missed, gave_up>>

(* A posting that ends without an answer: the message never gets to the    *)
(* room, is in it, or gets there later, as HttpRequests has it.            *)
Fate(m) ==
  \/ UNCHANGED <<posted, late>>
  \/ posted' = Append(posted, m) /\ UNCHANGED late
  \/ late' = late \cup {m} /\ UNCHANGED posted

(* The homeserver refuses, or its answer does not come. *)
PostFails(t) ==
  /\ pc[t] = "post"
  /\ Fate(held[t])
  /\ Raise(t)
  /\ UNCHANGED <<inbox, taken, held>>

IsPosted(m) == \E i \in 1 .. Len(posted) : posted[i] = m

(* External: the network delivers a request nobody waits for any more; the *)
(* homeserver takes it once.                                               *)
TakeLate(m) ==
  /\ m \in late /\ ~ IsPosted(m)
  /\ posted' = Append(posted, m)
  /\ UNCHANGED <<up, inbox, taken, pc, held, lock, late, missed, gave_up>>

-----------------------------------------------------------------------------
(* The process ends at any moment: a signal, disconnect_cb, an unhandled   *)
(* exception.  Starting it runs run(), which subscribes and then drains.   *)

Posting == \E t \in Tasks : pc[t] = "post"

Stop ==
  /\ up /\ up' = FALSE
  /\ IF Posting THEN Fate(taken) ELSE UNCHANGED <<posted, late>>
  /\ pc' = [t \in Tasks |-> "idle"]
  /\ lock' = None
  /\ missed' = FALSE /\ gave_up' = FALSE
  /\ UNCHANGED <<inbox, taken, held>>

StartWithoutDrain ==
  /\ ~ up /\ up' = TRUE
  /\ gave_up' = FALSE
  /\ UNCHANGED <<inbox, taken, pc, held, lock, posted, late, missed>>

Start ==
  /\ ~ up /\ up' = TRUE
  /\ Wake(Main)
  /\ gave_up' = FALSE
  /\ UNCHANGED <<inbox, taken, held, lock, posted, late, missed>>

Step(t) ==
  \/ TakeLock(t)
  \/ NoMoreMessages(t) \/ GetMessage(t) \/ GetFails(t)
  \/ Post(t) \/ PostFails(t)

Next ==
  \/ \E kind \in Kinds : Receive(kind)
  \/ Reconnect
  \/ \E t \in Tasks : Step(t)
  \/ \E m \in late : TakeLate(m)
  \/ Stop \/ Start

Spec == Init /\ [][Next]_vars

(* The event loop keeps running its tasks, and requests are answered or    *)
(* time out.  Nobody promises a restart, or that a lost link comes back.   *)
FairSpec == Spec /\ WF_vars(\E t \in Tasks : Step(t))

-----------------------------------------------------------------------------
Draining(t) == pc[t] \in {"fetch", "post"}

(* Only one task at a time is between taking a message off the radio and   *)
(* having posted it.                                                       *)
OneDrains == \A t \in Tasks : lock = t <=> Draining(t)

(* No message is posted twice, and none comes behind a later one but those *)
(* whose posting was given up with a request still on its way, however     *)
(* handlers, failures, late requests, stops and restarts fall.             *)
PostedInOrder ==
  \A i, j \in 1 .. Len(posted) :
    i < j => posted[i] # posted[j] /\ (posted[j] \notin late => posted[i] < posted[j])

(* A message is left on the radio with nobody to fetch it only because the *)
(* drain before raised: an announcement is never slept through, also when  *)
(* it comes while a drain is just ending or before run() subscribes.       *)
NoneForgotten ==
  dev_enable_receive /\ up /\ ~ IsEmpty /\ (\A t \in Tasks : pc[t] = "idle")
    => missed \/ gave_up

(* No handler waits for ever for the lock, and every message heard leaves  *)
(* the radio, unless a drain raises, the process stops or the link stays   *)
(* down.                                                                   *)
Drained ==
  /\ \A t \in Tasks : pc[t] = "wait" ~> pc[t] # "wait"
  /\ \A k \in 1 .. MaxMessages :
       (up /\ Len(inbox) >= k) ~> (taken >= k \/ gave_up \/ ~ up \/ []missed)

(* A message taken off the radio is settled when its posting is over. *)
Settled == IF Posting THEN taken - 1 ELSE taken

Dropped == {m \in 1 .. Settled : m \notin late /\ ~ IsPosted(m)}

Relay == INSTANCE MessageRelay WITH received <- Len(inbox), dropped <- Dropped

(* The drain implements the promise of MessageRelay. *)
RelaySpec == Relay!Spec
=============================================================================
