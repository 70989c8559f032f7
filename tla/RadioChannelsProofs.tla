------------------------ MODULE RadioChannelsProofs ------------------------
(***************************************************************************)
(* Proofs about RadioChannels: for any number of slots, names and commands *)
(* in flight the lock is where it should be, the two registries agree, the *)
(* own rooms stay bound, and an orphan room stays an orphan.               *)
(*                                                                         *)
(* And about its two specialisations: with the operator of CarefulChannels *)
(* the rooms match the radio, and the messages of ChannelTraffic go where  *)
(* they were meant to, on their way to the radio and on that to a room.    *)
(***************************************************************************)
EXTENDS ChannelTraffic, WellFoundedInduction, TLAPS

(* What a handler knows at its program counter.  A name that is about to   *)
(* be counted as added is bound already, and is no own name.               *)
LocalsOK ==
  \A t \in Tasks :
    /\ task[t].pc \in {"add", "room", "invite"} => task[t].new \in Names
    /\ task[t].pc = "remove" => task[t].current \in Names
    /\ task[t].pc = "invite" => routes[task[t].new] \in Slots

OwnNotAdded == added_channel_names \cap Own = {}

IInv ==
  /\ TypeOK /\ LockHeldByAdder
  /\ LocalsOK /\ AddedAreBound /\ OwnRoomsKept /\ OwnNotAdded

Locals == [pc : PC, current : Names \cup {None}, new : Names \cup {None},
           idx : Slots, seen : Contents]

-----------------------------------------------------------------------------
(* Types.  The updates of a handler's locals are typed once.               *)

(* A handler that has nothing to do has the locals of a handler.           *)
LEMMA IdleType == Idle \in Locals
<1>1. 0 \in Slots /\ [s \in Slots |-> None] \in Contents
  BY ConstantsAssumption DEF Slots, Contents
<1> QED BY <1>1 DEF Idle, Locals, PC

(* Moving a handler to another program counter touches nothing else. *)
LEMMA GotoType ==
  ASSUME TypeOK, NEW t \in Tasks, NEW pc \in PC, Goto(t, pc)
  PROVE  /\ task' \in [Tasks -> Locals]
         /\ task'[t].pc = pc /\ task'[t].new = task[t].new
         /\ task'[t].idx = task[t].idx /\ task'[t].seen = task[t].seen
         /\ \A u \in Tasks \ {t} : task'[u] = task[u]
<1>1. task[t] \in Locals
  BY DEF TypeOK, Locals
<1>2. /\ [task[t] EXCEPT !.pc = pc] \in Locals
      /\ [task[t] EXCEPT !.pc = pc].pc = pc /\ [task[t] EXCEPT !.pc = pc].new = task[t].new
      /\ [task[t] EXCEPT !.pc = pc].idx = task[t].idx
      /\ [task[t] EXCEPT !.pc = pc].seen = task[t].seen
  BY <1>1 DEF Locals
<1>3. task' = [task EXCEPT ![t] = [task[t] EXCEPT !.pc = pc]]
  BY DEF Goto
<1> QED BY <1>2, <1>3 DEF TypeOK, Locals

(* A handler that ends is idle again, and the others go on. *)
LEMMA FinishType ==
  ASSUME TypeOK, NEW t \in Tasks, Finish(t)
  PROVE  /\ task' \in [Tasks -> Locals]
         /\ task'[t] = Idle
         /\ \A u \in Tasks \ {t} : task'[u] = task[u]
BY IdleType DEF TypeOK, Finish, Locals

(* remove_channel keeps the types of both registries. *)
LEMMA UnbindType ==
  ASSUME TypeOK, NEW n \in Names, Unbind(n)
  PROVE  /\ added_channel_names' \subseteq Names
         /\ routes' \in [Names -> Slots \cup {None, Handler}]
BY DEF TypeOK, Unbind

(* What every set-channel or clear-channel does before its radio command.  *)
LEMMA BeginType ==
  ASSUME TypeOK, NEW t \in Tasks, NEW s \in Slots,
         NEW current \in Names \cup {None}, NEW new \in Names \cup {None},
         BeginChange(t, current, new, s)
  PROVE  /\ TypeOK'
         /\ task'[t].pc \in {"remove", "write"} /\ task'[t].current = current
         /\ task'[t].pc = "remove" => current # None
         /\ \A u \in Tasks \ {t} : task'[u] = task[u]
         /\ task[t].pc = "idle"
         /\ lock' = lock
         /\ \/ UNCHANGED <<added_channel_names, routes>>
            \/ current # None /\ LockFree /\ Unbind(current)
<1> DEFINE waits == current # None /\ ~ LockFree
           mine  == [Idle EXCEPT !.pc = IF waits THEN "remove" ELSE "write",
                                 !.current = current, !.new = new, !.idx = s]
<1>1. mine \in Locals /\ mine.pc = (IF waits THEN "remove" ELSE "write")
      /\ mine.current = current
  BY IdleType DEF Locals, PC, Idle
<1>2. task[t].pc = "idle" /\ task' = [task EXCEPT ![t] = mine]
      /\ UNCHANGED <<device, channel_cache, lock>>
  BY DEF BeginChange
<1> HIDE DEF mine
<1>3. task' \in [Tasks -> Locals] /\ task'[t] = mine
      /\ \A u \in Tasks \ {t} : task'[u] = task[u]
  BY <1>1, <1>2 DEF TypeOK, Locals
<1>4. \/ UNCHANGED <<added_channel_names, routes>>
      \/ current # None /\ LockFree /\ Unbind(current)
  BY DEF BeginChange
<1>5. /\ added_channel_names' \subseteq Names
      /\ routes' \in [Names -> Slots \cup {None, Handler}]
  BY <1>4, UnbindType DEF TypeOK
<1>6. TypeOK'
  BY <1>2, <1>3, <1>5 DEF TypeOK, Locals
<1> QED BY <1>1, <1>2, <1>3, <1>4, <1>6

(* set-channel and clear-channel are changes of that form. *)
LEMMA CommandIsChange ==
  ASSUME TypeOK, NEW t \in Tasks, NEW s \in Slots,
         ClearChannel(t, s) \/ \E n \in Names : SetChannel(t, n, s)
  PROVE  \E current, new \in Names \cup {None} : BeginChange(t, current, new, s)
<1>1. channel_cache[s] \in Names \cup {None}
  BY DEF TypeOK, Contents
<1>2. CASE ClearChannel(t, s)
  BY <1>1, <1>2 DEF ClearChannel
<1>3. CASE \E n \in Names : SetChannel(t, n, s)
  <2>1. PICK n \in Names : SetChannel(t, n, s)
    BY <1>3
  <2>2. (IF Known(n) THEN n ELSE None) \in Names \cup {None}
    OBVIOUS
  <2> QED BY <2>1, <2>2 DEF SetChannel
<1> QED BY <1>2, <1>3

-----------------------------------------------------------------------------
(* The inductive step.                                                     *)

(* Dropping a channel's room while the lock is free: no handler is between *)
(* binding and adding then, so the registries still agree.                 *)
LEMMA UnbindKeeps ==
  ASSUME IInv, LockFree, NEW n \in Names, Unbind(n)
  PROVE  /\ AddedAreBound' /\ OwnRoomsKept' /\ OwnNotAdded'
         /\ \A t \in Tasks : task[t].pc \notin {"room", "invite"}
<1>1. \A t \in Tasks : task[t].pc \notin {"room", "invite"}
  BY ConstantsAssumption DEF IInv, LockHeldByAdder, LockFree
<1>2. CASE IsAdded(n)
  <2>1. n \notin Own /\ added_channel_names' = added_channel_names \ {n}
        /\ routes' = [routes EXCEPT ![n] = None]
    BY <1>2 DEF IsAdded, Unbind, IInv, OwnNotAdded
  <2> QED BY <1>1, <2>1, ConstantsAssumption
          DEF IInv, TypeOK, AddedAreBound, OwnRoomsKept, OwnNotAdded
<1>3. CASE ~ IsAdded(n)
  BY <1>1, <1>3 DEF Unbind, IInv, AddedAreBound, OwnRoomsKept, OwnNotAdded
<1> QED BY <1>2, <1>3

(* set-channel and clear-channel, up to the radio command. *)
LEMMA BeginStep ==
  ASSUME IInv, NEW t \in Tasks, NEW s \in Slots,
         NEW current \in Names \cup {None}, NEW new \in Names \cup {None},
         BeginChange(t, current, new, s)
  PROVE  IInv'
<1>1. TypeOK' /\ task'[t].pc \in {"remove", "write"} /\ task'[t].current = current
      /\ (task'[t].pc = "remove" => current # None) /\ task[t].pc = "idle"
      /\ (\A u \in Tasks \ {t} : task'[u] = task[u]) /\ lock' = lock
      /\ \/ UNCHANGED <<added_channel_names, routes>>
         \/ current # None /\ LockFree /\ Unbind(current)
  BY BeginType DEF IInv
<1>2. LockHeldByAdder'
  BY <1>1 DEF IInv, LockHeldByAdder
<1>3. LocalsOK' /\ AddedAreBound' /\ OwnRoomsKept' /\ OwnNotAdded'
  <2>1. CASE UNCHANGED <<added_channel_names, routes>>
    BY <1>1, <2>1 DEF IInv, LocalsOK, AddedAreBound, OwnRoomsKept, OwnNotAdded
  <2>2. CASE current \in Names /\ LockFree /\ Unbind(current)
    BY <1>1, <2>2, UnbindKeeps DEF IInv, LocalsOK
  <2> QED BY <1>1, <2>1, <2>2
<1> QED BY <1>1, <1>2, <1>3 DEF IInv

(* One step of the bridge keeps the invariant, action by action. *)
LEMMA InvStep == IInv /\ [Next]_vars => IInv'
<1> SUFFICES ASSUME IInv, [Next]_vars PROVE IInv'
  OBVIOUS
<1>t. TypeOK
  BY DEF IInv
<1> DEFINE Only(t) == \A u \in Tasks \ {t} : task'[u] = task[u]
<1>1. ASSUME NEW t \in Tasks, NEW s \in Slots,
             ClearChannel(t, s) \/ \E n \in Names : SetChannel(t, n, s)
      PROVE  IInv'
  BY <1>1, <1>t, CommandIsChange, BeginStep
<1>2. ASSUME NEW t \in Tasks, task[t].pc \notin {"room", "invite"},
             task'[t].pc \notin {"add", "room", "invite", "remove"}, Only(t),
             task' \in [Tasks -> Locals], device' \in Contents, channel_cache' \in Contents,
             UNCHANGED <<added_channel_names, routes, lock>>
      PROVE  IInv'
  BY <1>2 DEF IInv, TypeOK, Locals, LockHeldByAdder, LocalsOK, AddedAreBound,
              OwnRoomsKept, OwnNotAdded
<1>3. ASSUME NEW t \in Tasks, ListChannels(t) PROVE IInv'
  <2>1. [Idle EXCEPT !.pc = "scan"] \in Locals /\ [Idle EXCEPT !.pc = "scan"].pc = "scan"
    BY IdleType DEF Locals, PC, Idle
  <2>2. /\ task' = [task EXCEPT ![t] = [Idle EXCEPT !.pc = "scan"]] /\ task[t].pc = "idle"
        /\ UNCHANGED <<device, channel_cache, added_channel_names, routes, lock>>
    BY <1>3 DEF ListChannels
  <2>3. /\ task' \in [Tasks -> Locals] /\ task'[t].pc = "scan" /\ Only(t)
    BY <1>t, <2>1, <2>2 DEF TypeOK, Locals
  <2> QED BY <1>2, <1>t, <2>2, <2>3 DEF TypeOK
<1>4. ASSUME NEW t \in Tasks, RemoveChannel(t) PROVE IInv'
  <2>1. /\ task[t].pc = "remove" /\ task[t].current \in Names /\ LockFree
        /\ Unbind(task[t].current) /\ Goto(t, "write")
        /\ UNCHANGED <<device, channel_cache, lock>>
    BY <1>4 DEF RemoveChannel, IInv, LocalsOK
  <2>2. task' \in [Tasks -> Locals] /\ task'[t].pc = "write" /\ Only(t)
    BY <1>t, <2>1, GotoType DEF PC
  <2>3. TypeOK'
    BY <1>t, <2>1, <2>2, UnbindType DEF TypeOK, Locals
  <2>4. AddedAreBound' /\ OwnRoomsKept' /\ OwnNotAdded'
        /\ \A u \in Tasks : task[u].pc \notin {"room", "invite"}
    BY <2>1, UnbindKeeps
  <2>5. LockHeldByAdder' /\ LocalsOK'
    BY <2>1, <2>2, <2>4 DEF IInv, LockHeldByAdder, LocalsOK
  <2> QED BY <2>3, <2>4, <2>5 DEF IInv
<1>5. ASSUME NEW t \in Tasks, task[t].pc \notin {"room", "invite"}, Finish(t),
             device' \in Contents, channel_cache' \in Contents,
             UNCHANGED <<added_channel_names, routes, lock>>
      PROVE  IInv'
  <2>1. task' \in [Tasks -> Locals] /\ task'[t].pc = "idle" /\ Only(t)
    BY <1>t, <1>5, FinishType DEF Idle
  <2> QED BY <1>2, <1>5, <2>1
<1>6. ASSUME NEW t \in Tasks, WriteSlot(t) PROVE IInv'
  <2>1. /\ task[t].pc = "write" /\ device' \in Contents
        /\ UNCHANGED <<channel_cache, added_channel_names, routes, lock>>
    BY <1>6, <1>t DEF WriteSlot, TypeOK, Contents
  <2>2. CASE Finish(t)
    BY <1>5, <1>t, <2>1, <2>2 DEF TypeOK
  <2>3. CASE Goto(t, "add") /\ task[t].new # None
    <3>1. /\ task' \in [Tasks -> Locals] /\ task'[t].pc = "add" /\ Only(t)
          /\ task'[t].new \in Names
      BY <1>t, <2>3, GotoType DEF PC, TypeOK
    <3> QED BY <2>1, <3>1 DEF IInv, TypeOK, Locals, LockHeldByAdder, LocalsOK,
                              AddedAreBound, OwnRoomsKept, OwnNotAdded
  <2> QED BY <1>6, <2>2, <2>3 DEF WriteSlot
<1>7. ASSUME NEW t \in Tasks, AddChannel(t) PROVE IInv'
  <2>1. /\ task[t].pc = "add" /\ LockFree /\ task[t].new \in Names
        /\ UNCHANGED <<device, channel_cache, added_channel_names, routes>>
    BY <1>7 DEF AddChannel, IInv, LocalsOK
  <2>2. CASE Finish(t) /\ UNCHANGED lock
    BY <1>5, <1>t, <2>1, <2>2 DEF TypeOK
  <2>3. CASE Goto(t, "room") /\ lock' = t
    <3>1. /\ task' \in [Tasks -> Locals] /\ task'[t].pc = "room" /\ Only(t)
          /\ task'[t].new = task[t].new
      BY <1>t, <2>3, GotoType DEF PC
    <3>2. LockHeldByAdder'
      BY <2>1, <2>3, <3>1, ConstantsAssumption DEF IInv, LockHeldByAdder, LockFree
    <3> QED BY <2>1, <2>3, <3>1, <3>2
               DEF IInv, TypeOK, Locals, LocalsOK, AddedAreBound, OwnRoomsKept, OwnNotAdded
  <2> QED BY <1>7, <2>2, <2>3 DEF AddChannel
<1>8. ASSUME NEW t \in Tasks, task[t].pc \in {"room", "invite"}, Finish(t), Release,
             UNCHANGED <<device, channel_cache, routes>>,
             added_channel_names' \subseteq Names \ Own,
             \A n \in added_channel_names' : routes[n] \in Slots
      PROVE  IInv'
  <2>1. task' \in [Tasks -> Locals] /\ task'[t].pc = "idle" /\ Only(t)
    BY <1>t, <1>8, FinishType DEF Idle
  <2>2. lock = t /\ lock' = None
    BY <1>8 DEF IInv, LockHeldByAdder, Release
  <2>3. LockHeldByAdder'
    BY <2>1, <2>2, ConstantsAssumption DEF IInv, LockHeldByAdder
  <2> QED BY <1>8, <2>1, <2>2, <2>3
             DEF IInv, TypeOK, Locals, LocalsOK, AddedAreBound, OwnRoomsKept, OwnNotAdded
<1>9. added_channel_names \subseteq Names \ Own /\ \A n \in added_channel_names : routes[n] \in Slots
  BY DEF IInv, TypeOK, OwnNotAdded, AddedAreBound
<1>10. ASSUME NEW t \in Tasks, EnsureRoomFails(t) \/ InviteFails(t) PROVE IInv'
  BY <1>8, <1>9, <1>10 DEF EnsureRoomFails, InviteFails
<1>11. ASSUME NEW t \in Tasks, EnsureRoom(t) PROVE IInv'
  <2>1. /\ task[t].pc = "room" /\ task[t].new \in Names /\ task[t].idx \in Slots
        /\ UNCHANGED <<device, channel_cache, added_channel_names>>
    BY <1>11 DEF EnsureRoom, IInv, LocalsOK, TypeOK
  <2>2. CASE Finish(t) /\ Release /\ UNCHANGED routes
    BY <1>8, <1>9, <2>1, <2>2
  <2>3. CASE /\ ~ HasRoom(task[t].new) /\ Goto(t, "invite") /\ UNCHANGED lock
             /\ routes' = [routes EXCEPT ![task[t].new] = task[t].idx]
    <3>1. /\ task' \in [Tasks -> Locals] /\ task'[t].pc = "invite" /\ Only(t)
          /\ task'[t].new = task[t].new
      BY <1>t, <2>3, GotoType DEF PC
    <3>2. task[t].new \notin Own /\ routes' \in [Names -> Slots \cup {None, Handler}]
      BY <1>t, <2>1, <2>3, ConstantsAssumption DEF HasRoom, IInv, OwnRoomsKept, TypeOK
    <3>3. LockHeldByAdder' /\ AddedAreBound' /\ OwnRoomsKept' /\ OwnNotAdded'
      BY <1>t, <2>1, <2>3, <3>1, <3>2, ConstantsAssumption
         DEF IInv, TypeOK, LockHeldByAdder, AddedAreBound, OwnRoomsKept, OwnNotAdded
    <3>4. LocalsOK'
      BY <1>t, <2>1, <2>3, <3>1, <3>2 DEF IInv, TypeOK, LocalsOK, LockHeldByAdder
    <3> QED BY <2>1, <2>3, <3>1, <3>2, <3>3, <3>4 DEF IInv, TypeOK, Locals
  <2> QED BY <1>11, <2>2, <2>3 DEF EnsureRoom
<1>12. ASSUME NEW t \in Tasks, InviteUser(t) PROVE IInv'
  <2>1. task[t].new \in Names /\ routes[task[t].new] \in Slots
    BY <1>12 DEF InviteUser, IInv, LocalsOK
  <2>2. task[t].new \notin Own
    BY <2>1, ConstantsAssumption DEF IInv, OwnRoomsKept
  <2> QED BY <1>8, <1>9, <1>12, <2>1, <2>2 DEF InviteUser
<1>13. ASSUME NEW t \in Tasks, ScanFails(t) PROVE IInv'
  BY <1>5, <1>13, <1>t DEF ScanFails, TypeOK
<1>14. ASSUME NEW t \in Tasks, ScanSlot(t) PROVE IInv'
  <2> DEFINE s == task[t].idx
             seen == [task[t].seen EXCEPT ![s] = device[s]]
  <2>1. /\ task[t].pc = "scan" /\ s \in Slots /\ seen \in Contents
        /\ UNCHANGED <<device, added_channel_names, routes, lock>>
    BY <1>14, <1>t DEF ScanSlot, TypeOK, Contents
  <2>2. CASE channel_cache' = seen /\ Finish(t)
    BY <1>5, <1>t, <2>1, <2>2 DEF TypeOK
  <2>3. CASE /\ ~ IsLast(s) /\ UNCHANGED channel_cache
             /\ task' = [task EXCEPT ![t].idx = s + 1, ![t].seen = seen]
    <3>1. s + 1 \in Slots
      BY <2>1, <2>3, ConstantsAssumption DEF Slots, IsLast
    <3>2. /\ [task[t] EXCEPT !.idx = s + 1, !.seen = seen] \in Locals
          /\ [task[t] EXCEPT !.idx = s + 1, !.seen = seen].pc = "scan"
      BY <1>t, <2>1, <3>1 DEF TypeOK, Locals
    <3>3. task' = [task EXCEPT ![t] = [task[t] EXCEPT !.idx = s + 1, !.seen = seen]]
      BY <1>t, <2>3 DEF TypeOK
    <3> HIDE DEF s, seen
    <3>4. task' \in [Tasks -> Locals] /\ task'[t].pc = "scan" /\ Only(t)
      BY <1>t, <3>2, <3>3 DEF TypeOK, Locals
    <3> QED BY <1>2, <1>t, <2>1, <2>3, <3>4 DEF TypeOK
  <2> QED BY <1>14, <2>2, <2>3 DEF ScanSlot
<1>15. CASE UNCHANGED vars
  BY <1>15 DEF vars, IInv, TypeOK, LockHeldByAdder, LocalsOK, AddedAreBound,
               OwnRoomsKept, OwnNotAdded
<1> QED
  BY <1>1, <1>3, <1>4, <1>6, <1>7, <1>10, <1>11, <1>12, <1>13, <1>14, <1>15
     DEF Next, Command, TakeLock, Reply

-----------------------------------------------------------------------------
(* RadioChatter.init leaves a state that satisfies the invariant.          *)

(* A channel found on the radio at startup has a first slot.               *)
LEMMA FirstSlotExists ==
  ASSUME NEW n, NEW r \in Slots, device[r] = n
  PROVE  FirstSlot(n) \in Slots /\ device[FirstSlot(n)] = n
<1> DEFINE Having == {s \in Slots : device[s] = n}
<1>1. Having \subseteq Nat /\ Having # {}
  BY ConstantsAssumption DEF Slots
<1>2. PICK s \in Having : \A q \in Having : ~ (<<q, s>> \in OpToRel(<, Nat))
  BY <1>1, NatLessThanWellFounded, WFMin
<1>3. \A q \in Having : s <= q
  <2>1. \A p, q \in Nat : p < q => <<p, q>> \in OpToRel(<, Nat)
    BY DEF OpToRel
  <2>2. \A q \in Having : q \in Nat /\ s \in Nat /\ ~ (q < s)
    BY <1>1, <1>2, <2>1
  <2> QED BY <2>2
<1>4. s \in Slots /\ device[s] = n /\ \A q \in Slots : device[q] = n => s <= q
  BY <1>3
<1> QED BY <1>4 DEF FirstSlot

(* The startup state satisfies IInv: every channel on the radio is added   *)
(* and bound, and no own name is among them.                               *)
LEMMA InitInv == Init => IInv
<1> SUFFICES ASSUME Init PROVE IInv
  OBVIOUS
<1>1. /\ device \in Contents /\ channel_cache \in Contents
      /\ added_channel_names \subseteq Names \ Own
  BY DEF Init, Contents
<1>2. \A n \in added_channel_names : FirstSlot(n) \in Slots
  BY FirstSlotExists DEF Init
<1>3. /\ routes \in [Names -> Slots \cup {None, Handler}]
      /\ AddedAreBound /\ OwnRoomsKept /\ OwnNotAdded
  <2>1. routes = [n \in Names |-> IF n \in Own THEN Handler
                                  ELSE IF n \in added_channel_names THEN FirstSlot(n)
                                  ELSE None]
    BY DEF Init
  <2>2. routes \in [Names -> Slots \cup {None, Handler}]
    BY <1>2, <2>1
  <2>3. AddedAreBound /\ OwnRoomsKept /\ OwnNotAdded
    BY <1>1, <1>2, <2>1, ConstantsAssumption DEF AddedAreBound, OwnRoomsKept, OwnNotAdded
  <2> QED BY <2>2, <2>3
<1>4. task \in [Tasks -> Locals] /\ lock = None /\ \A t \in Tasks : task[t].pc = "idle"
  BY IdleType DEF Init, Idle
<1>5. TypeOK
  BY <1>1, <1>3, <1>4 DEF TypeOK, Locals
<1>6. LockHeldByAdder /\ LocalsOK
  BY <1>4, ConstantsAssumption DEF LockHeldByAdder, LocalsOK
<1> QED BY <1>3, <1>5, <1>6 DEF IInv

(* Every reachable state of the bridge satisfies IInv. *)
THEOREM InductiveInvariant == Spec => []IInv
BY InitInv, InvStep, PTL DEF Spec

-----------------------------------------------------------------------------
(* The variables keep their types, so no handler ever removes or adds a    *)
(* channel without a name.                                                 *)
THEOREM TypeCorrect == Spec => []TypeOK
<1>1. IInv => TypeOK
  BY DEF IInv
<1> QED BY <1>1, InductiveInvariant, PTL

(* RadioChatter.lock is held exactly while a channel is being added, and   *)
(* is given back whatever the homeserver answers.                          *)
THEOREM LockHeldByAdderAlways == Spec => []LockHeldByAdder
<1>1. IInv => LockHeldByAdder
  BY DEF IInv
<1> QED BY <1>1, InductiveInvariant, PTL

(* RadioChatter's and RoomManager's registries agree: remove_channel never *)
(* raises UnknownChannelException, for any commands that overlap.          *)
THEOREM RegistriesAgree == Spec => []AddedAreBound
<1>1. IInv => AddedAreBound
  BY DEF IInv
<1> QED BY <1>1, InductiveInvariant, PTL

(* No command touches the binding of the command or advertisements room. *)
THEOREM OwnRoomsStay == Spec => []OwnRoomsKept
<1>1. IInv => OwnRoomsKept
  BY DEF IInv
<1> QED BY <1>1, InductiveInvariant, PTL

-----------------------------------------------------------------------------
(* Orphan rooms and forgotten ones.                                        *)

(* A step keeps n's room an orphan if it leaves n's registrations alone    *)
(* and lets no handler reach the invitation for n.                         *)
LEMMA OrphanFrame ==
  ASSUME NEW n \in Names, Orphan(n), routes'[n] = routes[n],
         n \notin added_channel_names', ~ Binding(n)'
  PROVE  Orphan(n)' /\ routes'[n] = routes[n]
BY DEF Orphan, IsAdded

(* Nothing a handler does to an orphan undoes it, action by action. *)
LEMMA OrphanStep ==
  ASSUME IInv, [Next]_vars, NEW n \in Names, Orphan(n)
  PROVE  Orphan(n)' /\ routes'[n] = routes[n]
<1> DEFINE Kept == routes'[n] = routes[n] /\ n \notin added_channel_names' /\ ~ Binding(n)'
<1> SUFFICES Kept
  BY OrphanFrame
<1>t. TypeOK /\ routes[n] \in Slots /\ n \notin added_channel_names /\ ~ Binding(n)
  BY DEF IInv, Orphan, IsAdded
<1>1. ASSUME NEW t \in Tasks, task'[t].pc # "invite",
             \A u \in Tasks \ {t} : task'[u] = task[u]
      PROVE  ~ Binding(n)'
  BY <1>1, <1>t DEF Binding
<1>2. ASSUME NEW c \in Names, Unbind(c)
      PROVE  routes'[n] = routes[n] /\ n \notin added_channel_names'
  BY <1>2, <1>t DEF Unbind, IsAdded, TypeOK
<1>3. ASSUME NEW t \in Tasks, NEW s \in Slots,
             ClearChannel(t, s) \/ \E c \in Names : SetChannel(t, c, s)
      PROVE  Kept
  <2>1. PICK current, new \in Names \cup {None} : BeginChange(t, current, new, s)
    BY <1>3, <1>t, CommandIsChange
  <2>2. /\ task'[t].pc # "invite" /\ \A u \in Tasks \ {t} : task'[u] = task[u]
        /\ UNCHANGED <<added_channel_names, routes>> \/ (current \in Names /\ Unbind(current))
    BY <1>t, <2>1, BeginType
  <2> QED BY <1>1, <1>2, <1>t, <2>2
<1>4. ASSUME NEW t \in Tasks, Finish(t), routes'[n] = routes[n], n \notin added_channel_names'
      PROVE  Kept
  BY <1>1, <1>4, <1>t, FinishType DEF Idle
<1>5. ASSUME NEW t \in Tasks, NEW pc \in PC \ {"invite"}, Goto(t, pc),
             routes'[n] = routes[n], n \notin added_channel_names'
      PROVE  Kept
  <2>1. task'[t].pc = pc /\ \A u \in Tasks \ {t} : task'[u] = task[u]
    BY <1>5, <1>t, GotoType
  <2> QED BY <1>1, <1>5, <2>1
<1>6. ASSUME NEW t \in Tasks, ListChannels(t) PROVE Kept
  <2>1. task'[t].pc = "scan" /\ \A u \in Tasks \ {t} : task'[u] = task[u]
    BY <1>6, <1>t DEF ListChannels, TypeOK, Idle
  <2> QED BY <1>1, <1>6, <1>t, <2>1 DEF ListChannels
<1>7. ASSUME NEW t \in Tasks, RemoveChannel(t) PROVE Kept
  BY <1>2, <1>5, <1>7 DEF RemoveChannel, IInv, LocalsOK, PC
<1>8. ASSUME NEW t \in Tasks, WriteSlot(t) PROVE Kept
  BY <1>4, <1>5, <1>8, <1>t DEF WriteSlot, PC
<1>9. ASSUME NEW t \in Tasks, AddChannel(t) PROVE Kept
  BY <1>4, <1>5, <1>9, <1>t DEF AddChannel, PC
<1>10. ASSUME NEW t \in Tasks, EnsureRoomFails(t) \/ InviteFails(t) \/ ScanFails(t) PROVE Kept
  BY <1>4, <1>10, <1>t DEF EnsureRoomFails, InviteFails, ScanFails
<1>11. ASSUME NEW t \in Tasks, EnsureRoom(t) PROVE Kept
  <2>1. CASE HasRoom(task[t].new)
    BY <1>4, <1>11, <1>t, <2>1 DEF EnsureRoom
  <2>2. CASE ~ HasRoom(task[t].new)
    <3>1. /\ Goto(t, "invite") /\ UNCHANGED added_channel_names
          /\ routes' = [routes EXCEPT ![task[t].new] = task[t].idx]
      BY <1>11, <2>2 DEF EnsureRoom
    <3>2. task[t].new # n
      BY <1>t, <2>2, ConstantsAssumption DEF HasRoom
    <3>3. task'[t].new # n /\ \A u \in Tasks \ {t} : task'[u] = task[u]
      BY <1>t, <3>1, <3>2, GotoType DEF PC
    <3>4. ~ Binding(n)'
      BY <1>t, <3>3 DEF Binding
    <3> QED BY <1>t, <3>1, <3>2, <3>4 DEF TypeOK
  <2> QED BY <2>1, <2>2
<1>12. ASSUME NEW t \in Tasks, InviteUser(t) PROVE Kept
  BY <1>4, <1>12, <1>t DEF InviteUser, Binding
<1>13. ASSUME NEW t \in Tasks, ScanSlot(t) PROVE Kept
  <2>1. task[t].pc = "scan" /\ UNCHANGED <<added_channel_names, routes>>
    BY <1>13 DEF ScanSlot
  <2>2. CASE Finish(t)
    BY <1>4, <1>t, <2>1, <2>2
  <2>3. CASE \E i, c : task' = [task EXCEPT ![t].idx = i, ![t].seen = c]
    <3>1. task'[t].pc = "scan" /\ \A u \in Tasks \ {t} : task'[u] = task[u]
      BY <1>t, <2>1, <2>3 DEF TypeOK
    <3> QED BY <1>1, <1>t, <2>1, <3>1
  <2> QED BY <1>13, <2>2, <2>3 DEF ScanSlot
<1>14. CASE UNCHANGED vars
  BY <1>14, <1>t DEF vars, Binding
<1> QED
  BY <1>3, <1>6, <1>7, <1>8, <1>9, <1>10, <1>11, <1>12, <1>13, <1>14
     DEF Next, Command, TakeLock, Reply

(* A room whose invitation failed stays bound to the slot of the failed    *)
(* command, whatever commands follow.                                      *)
THEOREM OrphansStayForEver == Spec => OrphansStay
<1>1. IInv /\ [Next]_vars =>
        [\A n \in Names : Orphan(n) => Orphan(n)' /\ routes'[n] = routes[n]]_vars
  BY OrphanStep
<1> QED BY <1>1, InductiveInvariant, PTL DEF Spec, OrphansStay

(* Nothing a handler does to a forgotten room undoes it, action by action. *)
LEMMA ForgottenStep ==
  ASSUME IInv, [Next]_vars, NEW n \in Names, Forgotten(n)
  PROVE  routes'[n] = routes[n] /\ (Forgotten(n)' \/ (IsAdded(n) /\ Known(n))')
<1> DEFINE Kept == routes'[n] = routes[n] /\ n \in added_channel_names' /\ NotDropping(n)'
<1> SUFFICES Kept
  BY DEF Forgotten, NotDropping, IsAdded
<1>t. TypeOK /\ routes[n] \in Slots /\ n \in added_channel_names /\ NotDropping(n)
      /\ \A s \in Slots : channel_cache[s] # n
  BY DEF IInv, AddedAreBound, Forgotten, NotDropping, IsAdded, Known
<1>1. ASSUME NEW t \in Tasks, task'[t].pc # "remove" \/ task'[t].current # n,
             \A u \in Tasks \ {t} : task'[u] = task[u]
      PROVE  NotDropping(n)'
  BY <1>1, <1>t DEF NotDropping
<1>2. ASSUME NEW c \in Names \ {n}, Unbind(c)
      PROVE  routes'[n] = routes[n] /\ n \in added_channel_names'
  BY <1>2, <1>t DEF Unbind, IsAdded, TypeOK
<1>3. ASSUME NEW t \in Tasks, NEW s \in Slots,
             ClearChannel(t, s) \/ \E c \in Names : SetChannel(t, c, s)
      PROVE  Kept
  <2>1. PICK current \in (Names \cup {None}) \ {n}, new \in Names \cup {None} :
          BeginChange(t, current, new, s)
    <3>1. channel_cache[s] \in (Names \cup {None}) \ {n} /\ None # n
      BY <1>t, ConstantsAssumption DEF TypeOK, Contents
    <3>2. \A c \in Names : (IF Known(c) THEN c ELSE None) \in (Names \cup {None}) \ {n}
      BY <1>t, <3>1 DEF Known
    <3> QED BY <1>3, <3>1, <3>2 DEF ClearChannel, SetChannel
  <2>2. /\ task'[t].current = current /\ \A u \in Tasks \ {t} : task'[u] = task[u]
        /\ UNCHANGED <<added_channel_names, routes>>
           \/ (current \in Names \ {n} /\ Unbind(current))
    BY <1>t, <2>1, BeginType
  <2>3. NotDropping(n)'
    BY <1>1, <2>2
  <2> QED BY <1>2, <1>t, <2>2, <2>3
<1>4. ASSUME NEW t \in Tasks, Finish(t), routes'[n] = routes[n], n \in added_channel_names'
      PROVE  Kept
  BY <1>1, <1>4, <1>t, FinishType DEF Idle
<1>5. ASSUME NEW t \in Tasks, NEW pc \in PC \ {"remove"}, Goto(t, pc),
             routes'[n] = routes[n], n \in added_channel_names'
      PROVE  Kept
  <2>1. task'[t].pc = pc /\ \A u \in Tasks \ {t} : task'[u] = task[u]
    BY <1>5, <1>t, GotoType
  <2> QED BY <1>1, <1>5, <2>1
<1>6. ASSUME NEW t \in Tasks, ListChannels(t) PROVE Kept
  <2>1. task'[t].pc = "scan" /\ \A u \in Tasks \ {t} : task'[u] = task[u]
    BY <1>6, <1>t DEF ListChannels, TypeOK, Idle
  <2> QED BY <1>1, <1>6, <1>t, <2>1 DEF ListChannels
<1>7. ASSUME NEW t \in Tasks, RemoveChannel(t) PROVE Kept
  <2>1. /\ task[t].pc = "remove" /\ task[t].current \in Names /\ task[t].current # n
        /\ Unbind(task[t].current) /\ Goto(t, "write")
    BY <1>7, <1>t DEF RemoveChannel, IInv, LocalsOK, NotDropping
  <2> QED BY <1>2, <1>5, <2>1 DEF PC
<1>8. ASSUME NEW t \in Tasks, WriteSlot(t) PROVE Kept
  BY <1>4, <1>5, <1>8, <1>t DEF WriteSlot, PC
<1>9. ASSUME NEW t \in Tasks, AddChannel(t) PROVE Kept
  BY <1>4, <1>5, <1>9, <1>t DEF AddChannel, PC
<1>10. ASSUME NEW t \in Tasks, EnsureRoomFails(t) \/ InviteFails(t) \/ ScanFails(t) PROVE Kept
  BY <1>4, <1>10, <1>t DEF EnsureRoomFails, InviteFails, ScanFails
<1>11. ASSUME NEW t \in Tasks, EnsureRoom(t) PROVE Kept
  <2>1. CASE HasRoom(task[t].new)
    BY <1>4, <1>11, <1>t, <2>1 DEF EnsureRoom
  <2>2. CASE ~ HasRoom(task[t].new)
    <3>1. /\ Goto(t, "invite") /\ UNCHANGED added_channel_names
          /\ routes' = [routes EXCEPT ![task[t].new] = task[t].idx]
      BY <1>11, <2>2 DEF EnsureRoom
    <3>2. task[t].new # n
      BY <1>t, <2>2, ConstantsAssumption DEF HasRoom
    <3>3. routes'[n] = routes[n]
      BY <1>t, <3>1, <3>2 DEF TypeOK
    <3> QED BY <1>5, <1>t, <3>1, <3>3 DEF PC
  <2> QED BY <2>1, <2>2
<1>12. ASSUME NEW t \in Tasks, InviteUser(t) PROVE Kept
  BY <1>4, <1>12, <1>t DEF InviteUser
<1>13. ASSUME NEW t \in Tasks, ScanSlot(t) PROVE Kept
  <2>1. task[t].pc = "scan" /\ UNCHANGED <<added_channel_names, routes>>
    BY <1>13 DEF ScanSlot
  <2>2. CASE Finish(t)
    BY <1>4, <1>t, <2>1, <2>2
  <2>3. CASE \E i, c : task' = [task EXCEPT ![t].idx = i, ![t].seen = c]
    <3>1. task'[t].pc = "scan" /\ \A u \in Tasks \ {t} : task'[u] = task[u]
      BY <1>t, <2>1, <2>3 DEF TypeOK
    <3> QED BY <1>1, <1>t, <2>1, <3>1
  <2> QED BY <1>13, <2>2, <2>3 DEF ScanSlot
<1>14. CASE UNCHANGED vars
  BY <1>14, <1>t DEF vars, NotDropping
<1> QED
  BY <1>3, <1>6, <1>7, <1>8, <1>9, <1>10, <1>11, <1>12, <1>13, <1>14
     DEF Next, Command, TakeLock, Reply

(* A room whose channel the cache does not know is left bound as it is by  *)
(* every command until a scan finds the channel.                           *)
THEOREM ForgottenRoomsStayForEver == Spec => ForgottenRoomsStay
<1>1. IInv /\ [Next]_vars =>
        [\A n \in Names : Forgotten(n) =>
           routes'[n] = routes[n] /\ (Forgotten(n)' \/ (IsAdded(n) /\ Known(n))')]_vars
  BY ForgottenStep
<1> QED BY <1>1, InductiveInvariant, PTL DEF Spec, ForgottenRoomsStay

-----------------------------------------------------------------------------
(* The careful operator.  At most one command changes a channel at a time, *)
(* and none has to wait for the lock before it drops a room.               *)

Changing(t) == task[t].pc \in {"write", "add", "room", "invite"}

OneChange ==
  /\ \A t \in Tasks : task[t].pc # "remove"
  /\ \A t, u \in Tasks : Changing(t) /\ Changing(u) => t = u

(* Names stay unique and apart from the own ones, and only an own room has *)
(* a handler that is no slot.                                              *)
NamesApart ==
  /\ NoTwins
  /\ \A s \in Slots : device[s] \notin Own
  /\ \A n \in Names : routes[n] = Handler => n \in Own

(* What is true of the slot and the name of a change under way: a slot to  *)
(* be set is empty and its name unknown, a slot to be cleared is nobody's, *)
(* and a channel that was set gets its room before it is counted as added. *)
ChangeOK(t) ==
  LET s == task[t].idx
      n == task[t].new
  IN /\ task[t].pc = "write" /\ n # None =>
          n \notin Own /\ ~ OnRadio(n) /\ device[s] = None /\ routes[n] = None
     /\ task[t].pc = "write" /\ n = None => \A m \in Names : routes[m] # s
     /\ task[t].pc \in {"add", "room"} => device[s] = n /\ n \notin Own /\ routes[n] = None
     /\ task[t].pc = "invite" => device[s] = n

(* A channel on the radio is an added one, unless it is just being changed. *)
Accounted ==
  \A s \in Slots : device[s] # None =>
    IsAdded(device[s]) \/ \E t \in Tasks : Changing(t) /\ task[t].idx = s

CarefulInv ==
  /\ IInv /\ OneChange /\ NamesApart /\ NeverMisroutes /\ Accounted
  /\ \A t \in Tasks : ChangeOK(t)

(* Only a scan has seen anything. *)
OnlyScansSee ==
  \A t \in Tasks : task[t].pc # "scan" => \A s \in Slots : task[t].seen[s] = None

(* What is remembered of slot s: the radio holds n there, or the cache or  *)
(* a scan says so, or a message waits that was heard when it did and whose *)
(* slot has gone to no other channel since.                                *)
Remembered(s, n) ==
  device[s] = n \/ channel_cache[s] = n \/ \E t \in Tasks : task[t].seen[s] = n

Trace(s, n) ==
  /\ n # None
  /\ \/ Remembered(s, n)
     \/ \E i \in 1 .. Len(inbox) : inbox[i].slot = s /\ inbox[i].from = n /\ ~ inbox[i].moved

(* All that remembers a slot remembers the same name, and nothing but a    *)
(* waiting message remembers a slot that is about to be set.               *)
OneTrace == \A s \in Slots : \A m, n \in Names : Trace(s, m) /\ Trace(s, n) => m = n

FreshWhenSet ==
  \A t \in Tasks : task[t].pc = "write" /\ task[t].new # None =>
    \A n \in Names : ~ Remembered(task[t].idx, n)

(* The link holds the command of every task that waits for the radio, and  *)
(* only those, once; no message for its slot was written after it; and     *)
(* every message still fits what its slot holds.                           *)
LinkOK ==
  /\ \A t \in OnLink : \E i \in 1 .. Len(link) : link[i].task = t
  /\ \A i \in 1 .. Len(link) :
       IF IsMessage(link[i])
         THEN /\ device[link[i].slot] = link[i].room
              /\ \A j \in 1 .. i - 1 : ~ IsMessage(link[j]) => link[j].slot # link[i].slot
         ELSE /\ link[i].task \in OnLink /\ link[i].slot = task[link[i].task].idx
              /\ \A j \in 1 .. i - 1 : IsMessage(link[j])

TrafficInv ==
  /\ TrafficTypeOK /\ OnlyScansSee /\ OneTrace /\ FreshWhenSet /\ LinkOK
  /\ MisplacedOnlyIfReset

Only(t) == \A u \in Tasks \ {t} : task'[u] = task[u]

-----------------------------------------------------------------------------
(* What the steps of a careful operator do.                                *)

(* With no command under way nobody holds the lock. *)
LEMMA QuietLock == ASSUME IInv, Quiet PROVE lock = None
BY DEF IInv, TypeOK, LockHeldByAdder, Quiet

(* A change that starts then goes to the radio at once. *)
LEMMA QuietBegin ==
  ASSUME IInv, Quiet, NEW t \in Tasks, NEW s \in Slots,
         NEW current \in Names \cup {None}, NEW new \in Names \cup {None},
         BeginChange(t, current, new, s)
  PROVE  /\ task'[t].pc = "write" /\ task'[t].new = new /\ task'[t].idx = s
         /\ \A r \in Slots : task'[t].seen[r] = None
         /\ Only(t) /\ UNCHANGED <<device, channel_cache, lock>>
         /\ IF current = None THEN UNCHANGED <<added_channel_names, routes>>
                              ELSE Unbind(current)
<1> DEFINE mine == [Idle EXCEPT !.pc = "write", !.current = current, !.new = new, !.idx = s]
<1>1. LockFree
  BY QuietLock DEF LockFree
<1>2. /\ task' = [task EXCEPT ![t] = mine] /\ UNCHANGED <<device, channel_cache, lock>>
      /\ IF current = None THEN UNCHANGED <<added_channel_names, routes>>
                           ELSE Unbind(current)
  BY <1>1 DEF BeginChange
<1>3. /\ mine.pc = "write" /\ mine.new = new /\ mine.idx = s
      /\ \A r \in Slots : mine.seen[r] = None
  BY DEF Idle
<1> HIDE DEF mine
<1>4. task'[t] = mine /\ Only(t)
  BY <1>2 DEF IInv, TypeOK, Only
<1> QED BY <1>2, <1>3, <1>4

(* set-channel drops no room: its name is new, in the cache too. *)
LEMMA SetEffect ==
  ASSUME CarefulInv, NEW t \in Tasks, NEW n \in Names, NEW s \in Slots, CarefulSet(t, n, s)
  PROVE  /\ Quiet /\ CacheIsFresh /\ n \notin Own /\ ~ OnRadio(n) /\ device[s] = None
         /\ task'[t].pc = "write" /\ task'[t].new = n /\ task'[t].idx = s
         /\ \A r \in Slots : task'[t].seen[r] = None
         /\ Only(t) /\ UNCHANGED <<device, channel_cache, lock, added_channel_names, routes>>
<1>1. Quiet /\ CacheIsFresh /\ n \notin Own /\ ~ OnRadio(n) /\ device[s] = None
      /\ SetChannel(t, n, s)
  BY DEF CarefulSet
<1>2. ~ Known(n)
  BY <1>1 DEF Known, OnRadio, CacheIsFresh
<1>3. BeginChange(t, None, n, s)
  BY <1>1, <1>2 DEF SetChannel
<1>4. IInv
  BY DEF CarefulInv
<1> QED BY <1>1, <1>3, <1>4, QuietBegin

(* clear-channel drops the room of the channel in the slot, and after it   *)
(* no room sends there.                                                    *)
LEMMA ClearEffect ==
  ASSUME CarefulInv, NEW t \in Tasks, NEW s \in Slots, CarefulClear(t, s)
  PROVE  /\ Quiet /\ CacheIsFresh
         /\ task'[t].pc = "write" /\ task'[t].new = None /\ task'[t].idx = s
         /\ \A r \in Slots : task'[t].seen[r] = None
         /\ Only(t) /\ UNCHANGED <<device, channel_cache, lock>>
         /\ IF device[s] = None
              THEN UNCHANGED <<added_channel_names, routes>>
              ELSE /\ added_channel_names' = added_channel_names \ {device[s]}
                   /\ routes' = [routes EXCEPT ![device[s]] = None]
         /\ \A m \in Names : routes'[m] # s
<1> DEFINE n == device[s]
<1>1. Quiet /\ CacheIsFresh /\ BeginChange(t, n, None, s) /\ n \in Names \cup {None}
  BY DEF CarefulClear, ClearChannel, CacheIsFresh, CarefulInv, IInv, TypeOK, Contents
<1>2. IInv
  BY DEF CarefulInv
<1>3. /\ task'[t].pc = "write" /\ task'[t].new = None /\ task'[t].idx = s
      /\ \A r \in Slots : task'[t].seen[r] = None
      /\ Only(t) /\ UNCHANGED <<device, channel_cache, lock>>
      /\ IF n = None THEN UNCHANGED <<added_channel_names, routes>> ELSE Unbind(n)
  BY <1>1, <1>2, QuietBegin
<1>4. n # None => IsAdded(n)
  BY <1>1 DEF CarefulInv, Accounted, Quiet, Changing
<1>5. IF n = None
        THEN UNCHANGED <<added_channel_names, routes>>
        ELSE /\ added_channel_names' = added_channel_names \ {n}
             /\ routes' = [routes EXCEPT ![n] = None]
  BY <1>3, <1>4 DEF Unbind
<1>6. \A m \in Names : routes[m] = s => n = m
  BY DEF CarefulInv, NeverMisroutes
<1>7. \A m \in Names : routes'[m] # s
  BY <1>1, <1>2, <1>5, <1>6, ConstantsAssumption DEF IInv, TypeOK
<1> QED BY <1>1, <1>3, <1>5, <1>7

(* The radio takes the change; set-channel then goes on to the room. *)
LEMMA WriteEffect ==
  ASSUME CarefulInv, NEW t \in Tasks, WriteSucceeds(t)
  PROVE  /\ task[t].pc = "write"
         /\ device' = [device EXCEPT ![task[t].idx] = task[t].new]
         /\ UNCHANGED <<channel_cache, added_channel_names, routes, lock>>
         /\ IF task[t].new = None
              THEN task'[t].pc = "idle"
              ELSE task'[t].pc = "add" /\ task'[t].new = task[t].new
                   /\ task'[t].idx = task[t].idx
         /\ Only(t)
         /\ \/ \A r \in Slots : task'[t].seen[r] = None
            \/ task'[t].seen = task[t].seen
<1>t. TypeOK
  BY DEF CarefulInv, IInv
<1>1. /\ task[t].pc = "write"
      /\ device' = [device EXCEPT ![task[t].idx] = task[t].new]
      /\ UNCHANGED <<channel_cache, added_channel_names, routes, lock>>
      /\ IF task[t].new = None THEN Finish(t) ELSE Goto(t, "add")
  BY DEF WriteSucceeds, WriteSlot
<1>2. CASE task[t].new = None
  <2>1. task'[t] = Idle /\ Only(t)
    BY <1>t, <1>1, <1>2, FinishType DEF Only
  <2>2. task'[t].pc = "idle" /\ \A r \in Slots : task'[t].seen[r] = None
    BY <2>1 DEF Idle
  <2> QED BY <1>1, <1>2, <2>1, <2>2
<1>3. CASE task[t].new # None
  <2>1. /\ task'[t].pc = "add" /\ task'[t].new = task[t].new /\ task'[t].idx = task[t].idx
        /\ task'[t].seen = task[t].seen /\ Only(t)
    BY <1>t, <1>1, <1>3, GotoType DEF PC, Only
  <2> QED BY <1>1, <1>3, <2>1
<1> QED BY <1>2, <1>3

(* The channel set is not counted as added yet, so it is added. *)
LEMMA AddEffect ==
  ASSUME CarefulInv, NEW t \in Tasks, TakeLock(t)
  PROVE  /\ task[t].pc = "add" /\ task'[t].pc = "room"
         /\ task'[t].new = task[t].new /\ task'[t].idx = task[t].idx
         /\ task'[t].seen = task[t].seen /\ Only(t)
         /\ UNCHANGED <<device, channel_cache, added_channel_names, routes>>
<1>t. TypeOK
  BY DEF CarefulInv, IInv
<1>1. ~ RemoveChannel(t)
  BY DEF RemoveChannel, CarefulInv, OneChange
<1>2. /\ task[t].pc = "add"
      /\ IF IsAdded(task[t].new) THEN Finish(t) /\ UNCHANGED lock
                                 ELSE Goto(t, "room") /\ lock' = t
      /\ UNCHANGED <<device, channel_cache, added_channel_names, routes>>
  BY <1>1 DEF TakeLock, AddChannel
<1>3. routes[task[t].new] = None
  BY <1>2 DEF CarefulInv, ChangeOK
<1>4. ~ IsAdded(task[t].new)
  BY <1>3, ConstantsAssumption DEF CarefulInv, IInv, AddedAreBound, IsAdded
<1> QED BY <1>t, <1>2, <1>4, GotoType DEF PC, Only

(* It has no room yet, and gets one bound to the slot it was put in. *)
LEMMA RoomEffect ==
  ASSUME CarefulInv, NEW t \in Tasks, EnsureRoom(t)
  PROVE  /\ task[t].pc = "room" /\ task'[t].pc = "invite"
         /\ task'[t].new = task[t].new /\ task'[t].idx = task[t].idx
         /\ task'[t].seen = task[t].seen /\ Only(t)
         /\ routes' = [routes EXCEPT ![task[t].new] = task[t].idx]
         /\ UNCHANGED <<device, channel_cache, added_channel_names>>
<1>t. TypeOK
  BY DEF CarefulInv, IInv
<1>1. task[t].pc = "room"
  BY DEF EnsureRoom
<1>2. ~ HasRoom(task[t].new)
  BY <1>1 DEF CarefulInv, ChangeOK, HasRoom
<1>3. /\ Goto(t, "invite") /\ routes' = [routes EXCEPT ![task[t].new] = task[t].idx]
      /\ UNCHANGED <<device, channel_cache, added_channel_names>>
  BY <1>2 DEF EnsureRoom
<1> QED BY <1>t, <1>1, <1>3, GotoType DEF PC, Only

(* Then it is counted as added, and the command ends. *)
LEMMA InviteEffect ==
  ASSUME CarefulInv, NEW t \in Tasks, InviteUser(t)
  PROVE  /\ task[t].pc = "invite" /\ task'[t].pc = "idle"
         /\ \A r \in Slots : task'[t].seen[r] = None
         /\ Only(t)
         /\ added_channel_names' = added_channel_names \cup {task[t].new}
         /\ UNCHANGED <<device, channel_cache, routes>>
<1>t. TypeOK
  BY DEF CarefulInv, IInv
<1>1. /\ task[t].pc = "invite" /\ Finish(t)
      /\ added_channel_names' = added_channel_names \cup {task[t].new}
      /\ UNCHANGED <<device, channel_cache, routes>>
  BY DEF InviteUser
<1>2. task'[t] = Idle /\ Only(t)
  BY <1>t, <1>1, FinishType DEF Only
<1>3. task'[t].pc = "idle" /\ \A r \in Slots : task'[t].seen[r] = None
  BY <1>2 DEF Idle
<1> QED BY <1>1, <1>2, <1>3

(* list-channels changes nothing but what it has seen, and the cache when  *)
(* it ends: to what it saw, the last slot of which it sees now.            *)
LEMMA ScanEffect ==
  ASSUME CarefulInv, NEW t \in Tasks, ListChannels(t) \/ ScanSlot(t) \/ ScanFails(t)
  PROVE  /\ task[t].pc \in {"idle", "scan"} /\ task'[t].pc \in {"idle", "scan"}
         /\ task'[t].pc = "idle" => \A r \in Slots : task'[t].seen[r] = None
         /\ \A r \in Slots : task'[t].seen[r] \in {None, task[t].seen[r], device[r]}
         /\ \A r \in Slots : channel_cache'[r] \in {channel_cache[r], task[t].seen[r], device[r]}
         /\ Only(t)
         /\ UNCHANGED <<device, added_channel_names, routes>>
<1>t. TypeOK /\ task[t] \in Locals
  BY DEF CarefulInv, IInv, TypeOK, Locals
<1>1. CASE ListChannels(t)
  <2> DEFINE mine == [Idle EXCEPT !.pc = "scan"]
  <2>1. mine.pc = "scan" /\ \A r \in Slots : mine.seen[r] = None
    BY DEF Idle
  <2>2. task[t].pc = "idle" /\ task' = [task EXCEPT ![t] = mine]
        /\ UNCHANGED <<device, channel_cache, added_channel_names, routes>>
    BY <1>1 DEF ListChannels
  <2> HIDE DEF mine
  <2>3. task'[t] = mine /\ Only(t)
    BY <1>t, <2>2 DEF TypeOK, Only
  <2> QED BY <2>1, <2>2, <2>3
<1>2. CASE ScanFails(t)
  <2>1. task[t].pc = "scan" /\ Finish(t)
        /\ UNCHANGED <<device, channel_cache, added_channel_names, routes>>
    BY <1>2 DEF ScanFails
  <2>2. task'[t] = Idle /\ Only(t)
    BY <1>t, <2>1, FinishType DEF Only
  <2>3. task'[t].pc = "idle" /\ \A r \in Slots : task'[t].seen[r] = None
    BY <2>2 DEF Idle
  <2> QED BY <2>1, <2>2, <2>3
<1>3. CASE ScanSlot(t)
  <2> DEFINE s    == task[t].idx
             seen == [task[t].seen EXCEPT ![s] = device[s]]
             mine == [task[t] EXCEPT !.idx = s + 1, !.seen = seen]
  <2>1. \A r \in Slots : seen[r] \in {task[t].seen[r], device[r]}
    BY <1>t DEF Locals, Contents
  <2>2. task[t].pc = "scan" /\ UNCHANGED <<device, added_channel_names, routes>>
    BY <1>3 DEF ScanSlot
  <2>3. CASE IsLast(s)
    <3>1. channel_cache' = seen /\ Finish(t)
      BY <1>3, <2>3 DEF ScanSlot
    <3>2. task'[t] = Idle /\ Only(t)
      BY <1>t, <3>1, FinishType DEF Only
    <3>3. task'[t].pc = "idle" /\ \A r \in Slots : task'[t].seen[r] = None
      BY <3>2 DEF Idle
    <3> QED BY <2>1, <2>2, <3>1, <3>2, <3>3
  <2>4. CASE ~ IsLast(s)
    <3>1. task' = [task EXCEPT ![t] = mine] /\ UNCHANGED channel_cache
      BY <1>3, <1>t, <2>4 DEF ScanSlot, TypeOK
    <3>2. mine.pc = "scan" /\ mine.seen = seen
      BY <1>t, <2>2 DEF Locals
    <3> HIDE DEF mine, seen
    <3>3. task'[t] = mine /\ Only(t)
      BY <1>t, <3>1 DEF TypeOK, Only
    <3> QED BY <2>1, <2>2, <3>1, <3>2, <3>3
  <2> QED BY <2>3, <2>4
<1> QED BY <1>1, <1>2, <1>3

-----------------------------------------------------------------------------
(* The careful operator keeps CarefulInv.                                  *)

(* A careful step is a step of the bridge. *)
LEMMA CarefulIsNext == [CarefulNext]_vars => [Next]_vars
BY DEF CarefulNext, CarefulSet, CarefulClear, WriteSucceeds, Next, Command, Reply

(* By construction, what holds of every command holds of these.            *)
LEMMA CarefulIsSpec == CarefulSpec => Spec
<1>1. CarefulInit => Init
  BY DEF CarefulInit
<1> QED BY <1>1, CarefulIsNext, PTL DEF CarefulSpec, Spec

(* A step of a task that changes no channel, before it and after it. *)
LEMMA NoChangeKeeps ==
  ASSUME CarefulInv, IInv', NEW t \in Tasks, Only(t),
         ~ Changing(t), task'[t].pc \in {"idle", "scan"},
         UNCHANGED <<device, added_channel_names, routes>>
  PROVE  CarefulInv'
<1>1. OneChange'
  BY DEF CarefulInv, OneChange, Changing, Only
<1>2. NamesApart' /\ NeverMisroutes'
  BY DEF CarefulInv, NamesApart, NoTwins, NeverMisroutes
<1>3. Accounted'
  BY DEF CarefulInv, Accounted, IsAdded, Changing, Only
<1>4. \A u \in Tasks : ChangeOK(u)'
  BY DEF CarefulInv, ChangeOK, OnRadio, Only
<1> QED BY <1>1, <1>2, <1>3, <1>4 DEF CarefulInv

(* One step of the careful operator's commands keeps the invariant. *)
LEMMA CarefulStep == CarefulInv /\ [CarefulNext]_vars => CarefulInv'
<1> SUFFICES ASSUME CarefulInv, [CarefulNext]_vars PROVE CarefulInv'
  OBVIOUS
<1>i. IInv /\ IInv'
  BY CarefulIsNext, InvStep DEF CarefulInv
<1>t. TypeOK /\ TypeOK'
  BY <1>i DEF IInv
<1>1. ASSUME NEW t \in Tasks, NEW s \in Slots, NEW n \in Names, CarefulSet(t, n, s)
      PROVE  CarefulInv'
  <2>1. /\ Quiet /\ n \notin Own /\ ~ OnRadio(n) /\ device[s] = None
        /\ task'[t].pc = "write" /\ task'[t].new = n /\ task'[t].idx = s
        /\ Only(t) /\ UNCHANGED <<device, added_channel_names, routes>>
    BY <1>1, SetEffect
  <2>2. OneChange'
    BY <2>1 DEF OneChange, Changing, Quiet, Only
  <2>3. NamesApart' /\ NeverMisroutes'
    BY <2>1 DEF CarefulInv, NamesApart, NoTwins, NeverMisroutes
  <2>4. Accounted'
    BY <2>1 DEF CarefulInv, Accounted, IsAdded, Changing, Only, Quiet
  <2>5. routes[n] = None
    BY <1>t, <2>1 DEF CarefulInv, NamesApart, NeverMisroutes, OnRadio, TypeOK
  <2>6. ChangeOK(t)'
    BY <1>i, <2>1, <2>5, ConstantsAssumption DEF ChangeOK, OnRadio
  <2>7. \A u \in Tasks \ {t} : ChangeOK(u)'
    BY <2>1 DEF ChangeOK, Quiet, Only
  <2> QED BY <1>i, <2>2, <2>3, <2>4, <2>6, <2>7 DEF CarefulInv
<1>2. ASSUME NEW t \in Tasks, NEW s \in Slots, CarefulClear(t, s)
      PROVE  CarefulInv'
  <2> DEFINE n == device[s]
  <2>1. /\ Quiet
        /\ task'[t].pc = "write" /\ task'[t].new = None /\ task'[t].idx = s
        /\ Only(t) /\ UNCHANGED device
        /\ IF n = None THEN UNCHANGED <<added_channel_names, routes>>
           ELSE added_channel_names' = added_channel_names \ {n}
                /\ routes' = [routes EXCEPT ![n] = None]
        /\ \A m \in Names : routes'[m] # s
    BY <1>2, ClearEffect
  <2>2. OneChange'
    BY <2>1 DEF OneChange, Changing, Quiet, Only
  <2>3. \A m \in Names : routes'[m] \in {routes[m], None}
    BY <1>t, <2>1 DEF TypeOK
  <2>4. NamesApart' /\ NeverMisroutes'
    BY <2>1, <2>3, ConstantsAssumption DEF CarefulInv, NamesApart, NoTwins, NeverMisroutes
  <2>5. Accounted'
    <3>1. ASSUME NEW r \in Slots, device[r] # None, r # s PROVE IsAdded(device[r])'
      <4>1. IsAdded(device[r])
        BY <2>1, <3>1 DEF CarefulInv, Accounted, Changing, Quiet
      <4>2. device[r] # n
        BY <3>1 DEF CarefulInv, NamesApart, NoTwins
      <4> QED BY <2>1, <4>1, <4>2 DEF IsAdded
    <3> QED BY <2>1, <3>1 DEF Accounted, Changing, IsAdded
  <2>6. ChangeOK(t)'
    BY <2>1 DEF ChangeOK
  <2>7. \A u \in Tasks \ {t} : ChangeOK(u)'
    BY <2>1 DEF ChangeOK, Quiet, Only
  <2> QED BY <1>i, <2>2, <2>4, <2>5, <2>6, <2>7 DEF CarefulInv
<1>3. ASSUME NEW t \in Tasks, ListChannels(t) \/ ScanSlot(t) \/ ScanFails(t)
      PROVE  CarefulInv'
  BY <1>3, <1>i, ScanEffect, NoChangeKeeps DEF Changing
<1>4. ASSUME NEW t \in Tasks, TakeLock(t) PROVE CarefulInv'
  <2>1. /\ task[t].pc = "add" /\ task'[t].pc = "room"
        /\ task'[t].new = task[t].new /\ task'[t].idx = task[t].idx /\ Only(t)
        /\ UNCHANGED <<device, channel_cache, added_channel_names, routes>>
    BY <1>4, AddEffect
  <2>2. OneChange' /\ Accounted'
    BY <2>1 DEF CarefulInv, OneChange, Accounted, IsAdded, Changing, Only
  <2>3. NamesApart' /\ NeverMisroutes'
    BY <2>1 DEF CarefulInv, NamesApart, NoTwins, NeverMisroutes
  <2>4. \A u \in Tasks : ChangeOK(u)'
    BY <2>1 DEF CarefulInv, ChangeOK, OnRadio, Only
  <2> QED BY <1>i, <2>2, <2>3, <2>4 DEF CarefulInv
<1>5. ASSUME NEW t \in Tasks, WriteSucceeds(t) PROVE CarefulInv'
  <2> DEFINE s == task[t].idx
             n == task[t].new
  <2>1. /\ task[t].pc = "write" /\ device' = [device EXCEPT ![s] = n]
        /\ UNCHANGED <<added_channel_names, routes>>
        /\ IF n = None THEN task'[t].pc = "idle"
           ELSE task'[t].pc = "add" /\ task'[t].new = n /\ task'[t].idx = s
        /\ Only(t)
    BY <1>5, WriteEffect
  <2>2. s \in Slots /\ n \in Names \cup {None}
    BY <1>t DEF TypeOK
  <2>3. device'[s] = n /\ \A r \in Slots \ {s} : device'[r] = device[r]
    BY <1>t, <2>1, <2>2 DEF TypeOK, Contents
  <2>4. /\ n # None => /\ n \notin Own /\ ~ OnRadio(n) /\ device[s] = None /\ routes[n] = None
        /\ n = None => \A m \in Names : routes[m] # s
    BY <2>1 DEF CarefulInv, ChangeOK
  <2>5. \A u \in Tasks \ {t} : ~ Changing(u) /\ ~ Changing(u)' /\ task'[u] = task[u]
    BY <2>1 DEF CarefulInv, OneChange, Changing, Only
  <2>6. OneChange'
    BY <2>1, <2>5 DEF CarefulInv, OneChange, Changing
  <2>7. NamesApart'
    BY <2>1, <2>3, <2>4, ConstantsAssumption DEF CarefulInv, NamesApart, NoTwins, OnRadio
  <2>8. NeverMisroutes'
    BY <2>1, <2>2, <2>3, <2>4, ConstantsAssumption DEF CarefulInv, NeverMisroutes
  <2>9. Accounted'
    <3>1. \A r \in Slots \ {s} : device[r] # None => IsAdded(device[r])
      BY <2>1, <2>5 DEF CarefulInv, Accounted, Changing
    <3> QED BY <2>1, <2>3, <3>1 DEF Accounted, IsAdded, Changing
  <2>10. ChangeOK(t)'
    BY <2>1, <2>3, <2>4 DEF ChangeOK
  <2>11. \A u \in Tasks \ {t} : ChangeOK(u)'
    BY <2>5 DEF ChangeOK, Changing
  <2> QED BY <1>i, <2>6, <2>7, <2>8, <2>9, <2>10, <2>11 DEF CarefulInv
<1>6. ASSUME NEW t \in Tasks, EnsureRoom(t) PROVE CarefulInv'
  <2> DEFINE s == task[t].idx
             n == task[t].new
  <2>1. /\ task[t].pc = "room" /\ task'[t].pc = "invite"
        /\ task'[t].new = n /\ task'[t].idx = s /\ Only(t)
        /\ routes' = [routes EXCEPT ![n] = s]
        /\ UNCHANGED <<device, added_channel_names>>
    BY <1>6, RoomEffect
  <2>2. device[s] = n /\ n \notin Own /\ s \in Slots /\ n \in Names
    BY <1>i, <1>t, <2>1 DEF CarefulInv, ChangeOK, TypeOK, IInv, LocalsOK
  <2>3. OneChange' /\ Accounted'
    BY <2>1 DEF CarefulInv, OneChange, Accounted, IsAdded, Changing, Only
  <2>4. routes'[n] = s /\ \A m \in Names \ {n} : routes'[m] = routes[m]
    BY <1>t, <2>1, <2>2 DEF TypeOK
  <2>5. NamesApart' /\ NeverMisroutes'
    BY <2>1, <2>2, <2>4, ConstantsAssumption DEF CarefulInv, NamesApart, NoTwins, NeverMisroutes
  <2>6. ChangeOK(t)'
    BY <2>1, <2>2 DEF ChangeOK
  <2>7. \A u \in Tasks \ {t} : ChangeOK(u)'
    <3>1. \A u \in Tasks \ {t} : ~ Changing(u) /\ task'[u] = task[u]
      BY <2>1 DEF CarefulInv, OneChange, Changing, Only
    <3> QED BY <3>1 DEF ChangeOK, Changing
  <2> QED BY <1>i, <2>3, <2>5, <2>6, <2>7 DEF CarefulInv
<1>7. ASSUME NEW t \in Tasks, InviteUser(t) PROVE CarefulInv'
  <2> DEFINE n == task[t].new
  <2>1. /\ task[t].pc = "invite" /\ task'[t].pc = "idle" /\ Only(t)
        /\ added_channel_names' = added_channel_names \cup {n}
        /\ UNCHANGED <<device, routes>>
    BY <1>7, InviteEffect
  <2>2. device[task[t].idx] = n
    BY <2>1 DEF CarefulInv, ChangeOK
  <2>3. \A u \in Tasks \ {t} : ~ Changing(u) /\ ~ Changing(u)' /\ task'[u] = task[u]
    BY <2>1 DEF CarefulInv, OneChange, Changing, Only
  <2>4. OneChange'
    BY <2>1, <2>3 DEF CarefulInv, OneChange, Changing
  <2>5. NamesApart' /\ NeverMisroutes'
    BY <2>1 DEF CarefulInv, NamesApart, NoTwins, NeverMisroutes
  <2>6. Accounted'
    BY <2>1, <2>2, <2>3 DEF CarefulInv, Accounted, IsAdded, Changing
  <2>7. \A u \in Tasks : ChangeOK(u)'
    BY <2>1, <2>3 DEF ChangeOK, Changing
  <2> QED BY <1>i, <2>4, <2>5, <2>6, <2>7 DEF CarefulInv
<1>8. CASE UNCHANGED vars
  <2>1. UNCHANGED <<device, routes, added_channel_names, task>>
    BY <1>8 DEF vars
  <2>2. OneChange' /\ NamesApart' /\ NeverMisroutes' /\ Accounted'
    BY <2>1 DEF CarefulInv, OneChange, NamesApart, NoTwins, NeverMisroutes, Accounted,
                IsAdded, Changing
  <2>3. \A u \in Tasks : ChangeOK(u)'
    BY <2>1 DEF CarefulInv, ChangeOK, OnRadio
  <2> QED BY <1>i, <2>2, <2>3 DEF CarefulInv
<1> QED
  BY <1>1, <1>2, <1>3, <1>4, <1>5, <1>6, <1>7, <1>8 DEF CarefulNext

(* A slot is bound to the first channel found on it, and every channel on  *)
(* the radio is added.                                                     *)
LEMMA CarefulStart == CarefulInit => CarefulInv
<1> SUFFICES ASSUME CarefulInit PROVE CarefulInv
  OBVIOUS
<1>1. IInv /\ NoTwins /\ Init
  BY InitInv DEF CarefulInit
<1>2. \A t \in Tasks : task[t].pc = "idle"
  BY <1>1 DEF Init, Idle
<1>3. OneChange /\ \A t \in Tasks : ChangeOK(t)
  BY <1>2 DEF OneChange, Changing, ChangeOK
<1>4. \A s \in Slots : device[s] \notin Own
  BY <1>1, ConstantsAssumption DEF Init
<1>5. Accounted
  BY <1>1 DEF Accounted, Init, IsAdded
<1>6. ASSUME NEW n \in Names
      PROVE  /\ routes[n] = Handler => n \in Own
             /\ \A s \in Slots : routes[n] = s => device[s] = n
  <2>1. routes[n] = IF n \in Own THEN Handler
                    ELSE IF n \in added_channel_names THEN FirstSlot(n) ELSE None
    BY <1>1 DEF Init
  <2>2. ASSUME n \in added_channel_names
        PROVE  FirstSlot(n) \in Slots /\ device[FirstSlot(n)] = n
    BY <1>1, <2>2, FirstSlotExists DEF Init
  <2> QED BY <2>1, <2>2, ConstantsAssumption
<1> QED BY <1>1, <1>3, <1>4, <1>5, <1>6 DEF CarefulInv, NamesApart, NeverMisroutes

(* Every reachable state of a careful operator's bridge satisfies          *)
(* CarefulInv.                                                             *)
THEOREM CarefulInvariant == CarefulSpec => []CarefulInv
BY CarefulStart, CarefulStep, PTL DEF CarefulSpec

(* Between commands every channel on the radio is added, so it has a room, *)
(* and no other slot has its name for the room to be bound to.             *)
LEMMA CarefulRooms == CarefulInv => NeverMisroutes /\ EveryChannelHasARoom
<1> SUFFICES ASSUME CarefulInv, Quiet, NEW s \in Slots, device[s] # None
             PROVE  routes[device[s]] = s
  BY DEF CarefulInv, EveryChannelHasARoom
<1>1. device[s] \in added_channel_names /\ device[s] \in Names
  BY DEF CarefulInv, Accounted, Quiet, Changing, IsAdded, IInv, TypeOK, Contents
<1>2. routes[device[s]] \in Slots
  BY <1>1 DEF CarefulInv, IInv, AddedAreBound
<1>3. device[routes[device[s]]] = device[s]
  BY <1>1, <1>2 DEF CarefulInv, NeverMisroutes
<1> QED BY <1>2, <1>3 DEF CarefulInv, NamesApart, NoTwins

(* With a careful operator, for any number of slots, names and handlers: a *)
(* room never sends to a slot that holds another channel, and between      *)
(* commands no channel is without its room.                                *)
THEOREM RoomsMatchRadio == CarefulSpec => []NeverMisroutes /\ []EveryChannelHasARoom
BY CarefulInvariant, CarefulRooms, PTL

-----------------------------------------------------------------------------
(* The channels' messages.                                                 *)

(* By construction, the commands among messages are a careful operator's.  *)
LEMMA TrafficIsCareful == TrafficSpec => CarefulSpec
<1>1. TrafficInit => CarefulInit
  BY DEF TrafficInit
<1>2. [TrafficNext]_allVars => [CarefulNext]_vars
  BY DEF TrafficNext, Change, SendChannelMessage, Transmit, Hear, GetMessage, Post, allVars
<1> QED BY <1>1, <1>2, PTL DEF TrafficSpec, CarefulSpec

NothingNew ==
  \A s \in Slots, n \in Names :
    (Remembered(s, n)' => Remembered(s, n)) /\ (Trace(s, n)' => Trace(s, n))

(* OneTrace and FreshWhenSet survive a step that leaves no new trace and   *)
(* does not bring a task to setting a slot.                                *)
LEMMA NoNewTrace ==
  ASSUME TrafficInv,
         NothingNew,
         \A t \in Tasks : task'[t].pc = "write" /\ task'[t].new # None => task'[t] = task[t],
         \A t \in Tasks : task[t].idx \in Slots
  PROVE  OneTrace' /\ FreshWhenSet'
<1>1. OneTrace'
  BY DEF TrafficInv, OneTrace, NothingNew
<1>2. FreshWhenSet'
  <2> SUFFICES ASSUME NEW t \in Tasks, task'[t].pc = "write", task'[t].new # None,
                      NEW n \in Names, Remembered(task[t].idx, n)'
               PROVE  FALSE
    BY DEF FreshWhenSet
  <2>1. PICK s \in Slots : s = task[t].idx
    OBVIOUS
  <2> QED BY <2>1 DEF TrafficInv, FreshWhenSet, NothingNew
<1> QED BY <1>1, <1>2

(* A command leaves the messages on the radio where they are; those not    *)
(* moved by it were not moved before, and fit what their slot holds now.   *)
LEMMA InboxKept ==
  ASSUME TrafficTypeOK, Change
  PROVE  /\ inbox' \in Seq([slot : Slots, from : Names, moved : BOOLEAN])
         /\ \A i \in 1 .. Len(inbox') :
              /\ i \in 1 .. Len(inbox)
              /\ inbox'[i].slot = inbox[i].slot /\ inbox'[i].from = inbox[i].from
              /\ ~ inbox'[i].moved =>
                   ~ inbox[i].moved /\ device'[inbox[i].slot] \in {None, inbox[i].from}
<1> DEFINE Heard == [slot : Slots, from : Names, moved : BOOLEAN]
<1>1. /\ inbox \in Seq(Heard) /\ Len(inbox) \in Nat
      /\ inbox' = [i \in DOMAIN inbox |-> NoteMoved(inbox[i])]
  BY DEF TrafficTypeOK, Change
<1>2. \A m \in Heard : NoteMoved(m) \in Heard
  BY DEF NoteMoved
<1>3. \A m : /\ NoteMoved(m).slot = m.slot /\ NoteMoved(m).from = m.from
             /\ ~ NoteMoved(m).moved => ~ m.moved /\ device'[m.slot] \in {None, m.from}
  BY DEF NoteMoved, Reset
<1> HIDE DEF Heard
<1>4. /\ DOMAIN inbox = 1 .. Len(inbox)
      /\ \A i \in 1 .. Len(inbox) : inbox[i] \in Heard
  BY <1>1
<1>5. inbox' \in [1 .. Len(inbox) -> Heard]
  BY <1>1, <1>2, <1>4
<1>6. inbox' \in Seq(Heard) /\ Len(inbox') = Len(inbox)
  BY <1>1, <1>5
<1>7. \A i \in 1 .. Len(inbox) : inbox'[i] = NoteMoved(inbox[i])
  BY <1>1, <1>4
<1> QED BY <1>3, <1>6, <1>7 DEF Heard

(* So it leaves no trace but by what the program and the radio remember.   *)
LEMMA ChangeTrace ==
  ASSUME TrafficTypeOK, Change
  PROVE  \A s \in Slots, n \in Names : Trace(s, n)' => Remembered(s, n)' \/ Trace(s, n)
BY InboxKept DEF Trace

(* A step that leaves the link and its slots alone keeps what is on it.    *)
LEMMA LinkFrame ==
  ASSUME LinkOK, UNCHANGED <<link, device>>, OnLink' = OnLink,
         \A t \in OnLink : task'[t] = task[t]
  PROVE  LinkOK'
BY DEF LinkOK, IsMessage

(* A message or a command is put on the link: a message to the slot that   *)
(* holds its channel and has no command before it, a command of a task     *)
(* that waits for it while no other does.                                  *)
LEMMA LinkAppend ==
  ASSUME TrafficTypeOK, LinkOK, UNCHANGED device,
         NEW x \in [task : Tasks \cup {None}, room : Names \cup {None}, slot : Slots],
         link' = Append(link, x),
         \A t \in OnLink : task'[t] = task[t],
         IF IsMessage(x)
           THEN /\ OnLink' = OnLink /\ device[x.slot] = x.room
                /\ \A t \in OnLink : task[t].idx # x.slot
           ELSE /\ OnLink = {} /\ OnLink' = {x.task} /\ x.slot = task'[x.task].idx
  PROVE  LinkOK' /\ link' \in Seq([task : Tasks \cup {None}, room : Names \cup {None}, slot : Slots])
<1> DEFINE k == Len(link) + 1
<1>1. /\ link' \in Seq([task : Tasks \cup {None}, room : Names \cup {None}, slot : Slots])
      /\ Len(link) \in Nat /\ Len(link') = k /\ link'[k] = x
      /\ \A i \in 1 .. Len(link) : link'[i] = link[i]
  BY DEF TrafficTypeOK
<1>2. \A i \in 1 .. Len(link') : i = k \/ i \in 1 .. Len(link)
  BY <1>1
<1>3. \A t \in OnLink' : \E i \in 1 .. Len(link') : link'[i].task = t
  <2>1. \A t \in OnLink : \E i \in 1 .. Len(link') : link'[i].task = t
    BY <1>1 DEF LinkOK
  <2>2. k \in 1 .. Len(link')
    BY <1>1
  <2> QED BY <1>1, <2>1, <2>2
<1>4. ASSUME NEW i \in 1 .. Len(link')
      PROVE  IF IsMessage(link'[i])
               THEN /\ device[link'[i].slot] = link'[i].room
                    /\ \A j \in 1 .. i - 1 : ~ IsMessage(link'[j]) => link'[j].slot # link'[i].slot
               ELSE /\ link'[i].task \in OnLink' /\ link'[i].slot = task'[link'[i].task].idx
                    /\ \A j \in 1 .. i - 1 : IsMessage(link'[j])
  <2>1. CASE i \in 1 .. Len(link)
    <3>1. link'[i] = link[i] /\ \A j \in 1 .. i - 1 : link'[j] = link[j] /\ j \in 1 .. Len(link)
      BY <1>1, <2>1
    <3>2. link[i].task \in OnLink => link[i].task \in OnLink' /\ task'[link[i].task] = task[link[i].task]
      OBVIOUS
    <3> QED BY <2>1, <3>1, <3>2 DEF LinkOK
  <2>2. CASE i = k
    <3>1. link'[i] = x /\ \A j \in 1 .. i - 1 : link'[j] = link[j] /\ j \in 1 .. Len(link)
      BY <1>1, <2>2
    <3>2. \A j \in 1 .. i - 1 : ~ IsMessage(link'[j]) =>
            link'[j].task \in OnLink /\ link'[j].slot = task[link'[j].task].idx
      BY <3>1 DEF LinkOK
    <3> QED BY <3>1, <3>2
  <2> QED BY <1>2, <2>1, <2>2
<1> QED BY <1>1, <1>3, <1>4 DEF LinkOK, IsMessage

(* The radio takes what is first on the link: a message, or the command of *)
(* the only task that waits, which changes one slot.                       *)
LEMMA LinkTail ==
  ASSUME TrafficTypeOK, LinkOK, link # <<>>, link' = Tail(link),
         IF IsMessage(Head(link))
           THEN /\ UNCHANGED device /\ OnLink' = OnLink
                /\ \A t \in OnLink : task'[t] = task[t]
           ELSE /\ OnLink' = {} /\ OnLink = {Head(link).task}
                /\ \A s \in Slots \ {Head(link).slot} : device'[s] = device[s]
  PROVE  LinkOK' /\ link' \in Seq([task : Tasks \cup {None}, room : Names \cup {None}, slot : Slots])
<1>1. /\ link' \in Seq([task : Tasks \cup {None}, room : Names \cup {None}, slot : Slots])
      /\ Len(link) \in Nat /\ Len(link) > 0 /\ Len(link') = Len(link) - 1
      /\ Head(link) = link[1]
      /\ \A i \in 1 .. Len(link') : link'[i] = link[i + 1] /\ i + 1 \in 1 .. Len(link)
  BY DEF TrafficTypeOK
<1>2. ASSUME NEW t \in OnLink' PROVE \E i \in 1 .. Len(link') : link'[i].task = t
  <2>1. t \in OnLink /\ IsMessage(link[1]) /\ t # None
    BY <1>1, ConstantsAssumption DEF OnLink
  <2>2. PICK i \in 1 .. Len(link) : link[i].task = t
    BY <2>1 DEF LinkOK
  <2>3. i # 1
    BY <2>1, <2>2 DEF IsMessage
  <2>4. i - 1 \in 1 .. Len(link') /\ (i - 1) + 1 = i
    BY <1>1, <2>3
  <2>5. link'[i - 1] = link[i]
    BY <1>1, <2>4
  <2> QED BY <2>2, <2>4, <2>5
<1>3. ASSUME NEW i \in 1 .. Len(link')
      PROVE  IF IsMessage(link'[i])
               THEN /\ device'[link'[i].slot] = link'[i].room
                    /\ \A j \in 1 .. i - 1 : ~ IsMessage(link'[j]) => link'[j].slot # link'[i].slot
               ELSE /\ link'[i].task \in OnLink' /\ link'[i].slot = task'[link'[i].task].idx
                    /\ \A j \in 1 .. i - 1 : IsMessage(link'[j])
  <2>1. link'[i] = link[i + 1] /\ i + 1 \in 1 .. Len(link) /\ i \in Nat /\ 1 \in 1 .. (i + 1) - 1
    BY <1>1
  <2>2. \A j \in 1 .. i - 1 : link'[j] = link[j + 1] /\ j + 1 \in 1 .. (i + 1) - 1
    BY <1>1
  <2>3. IF IsMessage(link[i + 1])
          THEN /\ device[link[i + 1].slot] = link[i + 1].room
               /\ \A j \in 1 .. (i + 1) - 1 :
                    ~ IsMessage(link[j]) => link[j].slot # link[i + 1].slot
          ELSE /\ link[i + 1].task \in OnLink /\ link[i + 1].slot = task[link[i + 1].task].idx
               /\ \A j \in 1 .. (i + 1) - 1 : IsMessage(link[j])
    BY <2>1 DEF LinkOK
  <2>4. link[i + 1].slot \in Slots
    <3> DEFINE Items == [task : Tasks \cup {None}, room : Names \cup {None}, slot : Slots]
    <3>1. link \in Seq(Items)
      BY DEF TrafficTypeOK
    <3> SUFFICES ASSUME NEW x \in Items, x = link[i + 1] PROVE x.slot \in Slots
      <4> HIDE DEF Items
      <4> QED BY <2>1, <3>1
    <3> QED OBVIOUS
  <2>5. IsMessage(link[i + 1]) => device'[link[i + 1].slot] = link[i + 1].room
    BY <1>1, <2>1, <2>3, <2>4
  <2>6. ~ IsMessage(link[i + 1]) =>
          link[i + 1].task \in OnLink' /\ link[i + 1].slot = task'[link[i + 1].task].idx
    BY <1>1, <2>1, <2>3
  <2> QED BY <2>1, <2>2, <2>3, <2>5, <2>6
<1> QED BY <1>1, <1>2, <1>3 DEF LinkOK, IsMessage

(* A command's step: the trace it leaves and what it does to the link.     *)
LEMMA ChangeStep ==
  ASSUME CarefulInv, CarefulInv', TrafficInv, Change PROVE TrafficInv'
<1>t. TypeOK /\ TypeOK' /\ TrafficTypeOK /\ LinkOK /\ UNCHANGED post
  BY DEF CarefulInv, IInv, TrafficInv, Change
<1>x. \A t \in Tasks : task[t].idx \in Slots
  BY <1>t DEF TypeOK
<1>p. MisplacedOnlyIfReset' /\ inbox' \in Seq([slot : Slots, from : Names, moved : BOOLEAN])
      /\ post' \in [room : Names \cup {None}, from : Names \cup {None}, moved : BOOLEAN]
  BY <1>t, InboxKept DEF TrafficInv, MisplacedOnlyIfReset, TrafficTypeOK
<1>n. (\A s \in Slots, n \in Names : Remembered(s, n)' => Remembered(s, n)) => NothingNew
  <2>1. \A s \in Slots, n \in Names : Trace(s, n)' => n # None
    BY DEF Trace
  <2>2. \A s \in Slots, n \in Names : n # None /\ Remembered(s, n) => Trace(s, n)
    BY DEF Trace
  <2> QED BY <1>t, <2>1, <2>2, ChangeTrace DEF NothingNew
<1>l. \/ /\ OnLink' = OnLink /\ UNCHANGED link
      \/ \E t \in OnLink' \ OnLink :
           link' = Append(link, [task |-> t, room |-> None, slot |-> task'[t].idx])
      \/ \E t \in OnLink \ OnLink' :
           Head(link).task = t /\ link' = Tail(link)
  BY DEF Change
<1>1. ASSUME NEW t \in Tasks, NEW s \in Slots, Quiet, Only(t),
             task'[t].pc = "write", task'[t].idx = s,
             \A r \in Slots : task'[t].seen[r] = None,
             UNCHANGED <<device, channel_cache>>
      PROVE  LinkOK' /\ TrafficTypeOK' /\ OnlyScansSee' /\ NothingNew
  <2>1. OnLink = {} /\ OnLink' = {t}
    BY <1>1 DEF OnLink, Quiet, Only
  <2> DEFINE x == [task |-> t, room |-> None, slot |-> s]
  <2>2. link' = Append(link, x)
    BY <1>l, <1>1, <2>1
  <2>3. /\ x \in [task : Tasks \cup {None}, room : Names \cup {None}, slot : Slots]
        /\ x.task = t /\ x.slot = s
    OBVIOUS
  <2>4. ~ IsMessage(x)
    BY <2>3, ConstantsAssumption DEF IsMessage
  <2> HIDE DEF x
  <2>5. /\ LinkOK'
        /\ link' \in Seq([task : Tasks \cup {None}, room : Names \cup {None}, slot : Slots])
    BY <1>t, <1>1, <2>1, <2>2, <2>3, <2>4, LinkAppend
  <2>6. OnlyScansSee'
    BY <1>1 DEF TrafficInv, OnlyScansSee, Only
  <2>7. NothingNew
    <3>1. \A r \in Slots, n \in Names : Remembered(r, n)' => Remembered(r, n)
      BY <1>t, <1>1, ConstantsAssumption DEF Remembered, Only
    <3> QED BY <1>n, <3>1
  <2> QED BY <1>t, <1>p, <2>2, <2>5, <2>6, <2>7 DEF TrafficTypeOK
<1>2. ASSUME NEW t \in Tasks, NEW s \in Slots, NEW n \in Names, CarefulSet(t, n, s)
      PROVE  TrafficInv'
  <2>1. /\ Quiet /\ CacheIsFresh /\ device[s] = None
        /\ task'[t].pc = "write" /\ task'[t].new = n /\ task'[t].idx = s
        /\ \A r \in Slots : task'[t].seen[r] = None
        /\ Only(t) /\ UNCHANGED <<device, channel_cache>>
    BY <1>2, SetEffect
  <2>2. /\ LinkOK' /\ TrafficTypeOK' /\ OnlyScansSee' /\ NothingNew
    BY <1>1, <2>1, ConstantsAssumption
  <2>3. \A u \in Tasks : task[u].seen[s] = None
    BY <2>1 DEF TrafficInv, OnlyScansSee, Quiet
  <2>4. \A m \in Names : ~ Remembered(s, m)
    BY <2>1, <2>3, ConstantsAssumption DEF Remembered, CacheIsFresh
  <2>5. OneTrace'
    BY <2>2 DEF TrafficInv, OneTrace, NothingNew
  <2>6. FreshWhenSet'
    <3>1. \A u \in Tasks \ {t} : task'[u].pc # "write"
      BY <2>1 DEF Quiet, Only
    <3>2. \A m \in Names : ~ Remembered(s, m)'
      BY <2>2, <2>4 DEF NothingNew
    <3> SUFFICES ASSUME NEW m \in Names, NEW r \in Slots, r = s, Remembered(r, m)' PROVE FALSE
      BY <2>1, <3>1 DEF FreshWhenSet
    <3> QED BY <3>2
  <2> QED BY <1>p, <2>2, <2>5, <2>6 DEF TrafficInv
<1>3. ASSUME NEW t \in Tasks, NEW s \in Slots, CarefulClear(t, s)
      PROVE  TrafficInv'
  <2>1. /\ Quiet
        /\ task'[t].pc = "write" /\ task'[t].new = None /\ task'[t].idx = s
        /\ \A r \in Slots : task'[t].seen[r] = None
        /\ Only(t) /\ UNCHANGED <<device, channel_cache>>
    BY <1>3, ClearEffect
  <2>2. /\ LinkOK' /\ TrafficTypeOK' /\ OnlyScansSee' /\ NothingNew
    BY <1>1, <2>1
  <2>3. \A u \in Tasks : task'[u].pc = "write" /\ task'[u].new # None => task'[u] = task[u]
    BY <2>1 DEF Only
  <2> QED BY <1>x, <1>p, <2>2, <2>3, NoNewTrace DEF TrafficInv
<1>4. ASSUME NEW t \in Tasks, Only(t), task[t].pc # "write", task'[t].pc # "write",
             UNCHANGED device, OnlyScansSee', NothingNew
      PROVE  TrafficInv'
  <2>1. OnLink' = OnLink
    BY <1>4 DEF OnLink, Only
  <2>2. UNCHANGED link
    BY <1>l, <2>1
  <2>3. \A u \in OnLink : task'[u] = task[u]
    BY <1>4 DEF OnLink, Only
  <2>4. LinkOK'
    BY <1>t, <1>4, <2>1, <2>2, <2>3, LinkFrame
  <2>5. \A u \in Tasks : task'[u].pc = "write" /\ task'[u].new # None => task'[u] = task[u]
    BY <1>4 DEF Only
  <2>6. OneTrace' /\ FreshWhenSet'
    BY <1>x, <1>4, <2>5, NoNewTrace
  <2>7. TrafficTypeOK'
    BY <1>t, <1>p, <2>2 DEF TrafficTypeOK
  <2> QED BY <1>p, <1>4, <2>4, <2>6, <2>7 DEF TrafficInv
<1>5. ASSUME NEW t \in Tasks, ListChannels(t) \/ ScanSlot(t) \/ ScanFails(t)
      PROVE  TrafficInv'
  <2>1. /\ task[t].pc \in {"idle", "scan"} /\ task'[t].pc \in {"idle", "scan"}
        /\ task'[t].pc = "idle" => \A r \in Slots : task'[t].seen[r] = None
        /\ \A r \in Slots : task'[t].seen[r] \in {None, task[t].seen[r], device[r]}
        /\ \A r \in Slots : channel_cache'[r] \in {channel_cache[r], task[t].seen[r], device[r]}
        /\ Only(t) /\ UNCHANGED device
    BY <1>5, ScanEffect
  <2>2. NothingNew
    <3>1. \A r \in Slots, n \in Names : Remembered(r, n)' => Remembered(r, n)
      BY <1>t, <2>1, ConstantsAssumption DEF Remembered, Only
    <3> QED BY <1>n, <3>1
  <2>3. OnlyScansSee'
    BY <2>1 DEF TrafficInv, OnlyScansSee, Only
  <2> QED BY <1>4, <2>1, <2>2, <2>3
<1>6. ASSUME NEW t \in Tasks, TakeLock(t) \/ EnsureRoom(t) \/ InviteUser(t)
      PROVE  TrafficInv'
  <2>1. /\ task[t].pc \in {"add", "room", "invite"} /\ task'[t].pc \in {"room", "invite", "idle"}
        /\ task'[t].seen = task[t].seen \/ \A r \in Slots : task'[t].seen[r] = None
        /\ Only(t) /\ UNCHANGED <<device, channel_cache>>
    BY <1>6, AddEffect, RoomEffect, InviteEffect
  <2>2. OnlyScansSee'
    BY <2>1 DEF TrafficInv, OnlyScansSee, Only
  <2>3. \A r \in Slots : task'[t].seen[r] = None
    BY <2>1, <2>2 DEF OnlyScansSee
  <2>4. NothingNew
    <3>1. \A r \in Slots, n \in Names : Remembered(r, n)' => Remembered(r, n)
      BY <1>t, <2>1, <2>3, ConstantsAssumption DEF Remembered, Only
    <3> QED BY <1>n, <3>1
  <2> QED BY <1>4, <2>1, <2>2, <2>4
<1>7. ASSUME NEW t \in Tasks, WriteSucceeds(t) PROVE TrafficInv'
  <2> DEFINE s == task[t].idx
             n == task[t].new
  <2>1. /\ task[t].pc = "write" /\ device' = [device EXCEPT ![s] = n] /\ UNCHANGED channel_cache
        /\ task'[t].pc \in {"idle", "add"} /\ Only(t)
        /\ \/ \A r \in Slots : task'[t].seen[r] = None
           \/ task'[t].seen = task[t].seen
    BY <1>7, WriteEffect
  <2>2. s \in Slots /\ n \in Names \cup {None} /\ device'[s] = n
        /\ \A r \in Slots \ {s} : device'[r] = device[r]
    BY <1>t, <1>x, <2>1 DEF TypeOK, Contents
  <2>3. OnlyScansSee'
    BY <2>1 DEF TrafficInv, OnlyScansSee, Only
  <2>4. \A u \in Tasks \ {t} : task[u].pc # "write" /\ task'[u] = task[u]
    BY <2>1 DEF CarefulInv, OneChange, Changing, Only
  <2>5. OnLink = {t} /\ OnLink' = {}
    BY <2>1, <2>4 DEF OnLink
  <2>6. Head(link).task = t /\ link' = Tail(link)
    BY <1>l, <2>5
  <2>7. link # <<>> /\ Head(link) = link[1] /\ 1 \in 1 .. Len(link)
    <3>1. PICK i \in 1 .. Len(link) : link[i].task = t
      BY <1>t, <2>5 DEF LinkOK
    <3> QED BY <1>t, <3>1 DEF TrafficTypeOK
  <2>8. ~ IsMessage(Head(link)) /\ Head(link).slot = s
    <3>1. ~ IsMessage(Head(link))
      BY <2>6, ConstantsAssumption DEF IsMessage
    <3>2. Head(link).slot = task[Head(link).task].idx
      BY <1>t, <2>7, <3>1 DEF LinkOK
    <3> QED BY <2>6, <3>1, <3>2
  <2>9. /\ LinkOK'
        /\ link' \in Seq([task : Tasks \cup {None}, room : Names \cup {None}, slot : Slots])
    BY <1>t, <2>2, <2>5, <2>6, <2>7, <2>8, LinkTail
  <2>10. \A u \in Tasks : \A r \in Slots : task'[u].seen[r] \in {None, task[u].seen[r]}
    BY <2>1, <2>4
  <2>11. \A r \in Slots, m \in Names :
           Remembered(r, m)' => Remembered(r, m) \/ (r = s /\ m = n)
    BY <1>t, <2>1, <2>2, <2>10, ConstantsAssumption DEF Remembered
  <2>12. OneTrace'
    <3>1. n # None => \A m \in Names : ~ Remembered(s, m)
      BY <2>1 DEF TrafficInv, FreshWhenSet
    <3>2. \A r \in Slots, m \in Names : Trace(r, m)' => Trace(r, m) \/ (r = s /\ m = n)
      BY <1>t, <2>11, ChangeTrace, ConstantsAssumption DEF Trace
    <3>3. ASSUME n # None, NEW r \in Slots, r = s, NEW m \in Names, Trace(r, m)' PROVE m = n
      <4>1. ASSUME ~ Remembered(r, m)' PROVE m = n
        <5>1. PICK i \in 1 .. Len(inbox') :
                inbox'[i].slot = r /\ inbox'[i].from = m /\ ~ inbox'[i].moved
          BY <3>3, <4>1 DEF Trace
        <5>2. device'[r] \in {None, m}
          BY <1>t, <5>1, InboxKept
        <5> QED BY <2>2, <3>3, <5>2
      <4> QED BY <2>11, <3>1, <3>3, <4>1
    <3> QED BY <3>2, <3>3, ConstantsAssumption DEF TrafficInv, OneTrace
  <2>13. FreshWhenSet'
    BY <2>1, <2>4 DEF FreshWhenSet
  <2> QED BY <1>t, <1>p, <2>3, <2>9, <2>12, <2>13 DEF TrafficInv, TrafficTypeOK
<1> QED
  BY <1>2, <1>3, <1>5, <1>6, <1>7 DEF Change, CarefulNext

(* What holds for each message on the radio holds of one just heard.       *)
LEMMA HearStep ==
  ASSUME CarefulInv, TrafficInv, NEW s \in Slots, Hear(s) PROVE TrafficInv'
<1> DEFINE x == [slot |-> s, from |-> device[s], moved |-> FALSE]
<1>1. /\ device[s] # None /\ inbox' = Append(inbox, x)
      /\ UNCHANGED <<vars, link, post>>
  BY DEF Hear
<1>2. x \in [slot : Slots, from : Names, moved : BOOLEAN] /\ x.slot = s /\ x.from = device[s]
  BY <1>1 DEF CarefulInv, IInv, TypeOK, Contents
<1> HIDE DEF x
<1>3. /\ inbox' \in Seq([slot : Slots, from : Names, moved : BOOLEAN])
      /\ \A i \in 1 .. Len(inbox') : inbox'[i] = x \/ (i \in 1 .. Len(inbox) /\ inbox'[i] = inbox[i])
  BY <1>1, <1>2 DEF TrafficInv, TrafficTypeOK
<1>4. UNCHANGED <<device, channel_cache, task, OnLink>>
  BY <1>1 DEF vars, OnLink
<1>5. NothingNew
  <2>1. \A r \in Slots, n \in Names : Remembered(r, n)' => Remembered(r, n)
    BY <1>4 DEF Remembered
  <2>2. \A r \in Slots, n \in Names : Trace(r, n)' => Trace(r, n)
    BY <1>2, <1>3, <2>1 DEF Trace, Remembered
  <2> QED BY <2>1, <2>2 DEF NothingNew
<1>6. \A t \in Tasks : task[t].idx \in Slots
  BY DEF CarefulInv, IInv, TypeOK
<1>7. OneTrace' /\ FreshWhenSet'
  BY <1>4, <1>5, <1>6, NoNewTrace
<1>8. LinkOK'
  BY <1>1, <1>4, LinkFrame DEF TrafficInv
<1>9. OnlyScansSee' /\ MisplacedOnlyIfReset' /\ TrafficTypeOK'
  BY <1>1, <1>3 DEF TrafficInv, OnlyScansSee, MisplacedOnlyIfReset, TrafficTypeOK, TypeOK, vars
<1> QED BY <1>7, <1>8, <1>9 DEF TrafficInv

(* A message that is fetched is given the name its slot is remembered by,  *)
(* which is that of the channel it was heard on.                           *)
LEMMA GetStep ==
  ASSUME CarefulInv, TrafficInv, GetMessage PROVE TrafficInv'
<1> DEFINE m == inbox[1]
           n == GetChannel(m.slot)
           Heard == [slot : Slots, from : Names, moved : BOOLEAN]
<1>1. inbox \in Seq(Heard) /\ inbox # <<>>
  BY DEF GetMessage, TrafficInv, TrafficTypeOK
<1>2. /\ inbox' \in Seq(Heard) /\ inbox' = Tail(inbox) /\ 1 \in 1 .. Len(inbox) /\ m = Head(inbox)
      /\ \A i \in 1 .. Len(inbox') : i + 1 \in 1 .. Len(inbox) /\ inbox'[i] = inbox[i + 1]
  <2> HIDE DEF Heard
  <2> QED BY <1>1 DEF GetMessage
<1>3. post' = (IF n # None /\ HasRoom(n) THEN [room |-> n, from |-> m.from, moved |-> m.moved] ELSE Nothing)
      /\ UNCHANGED <<vars, link>>
  BY <1>2 DEF GetMessage
<1>4. m.slot \in Slots /\ m.from \in Names /\ m.moved \in BOOLEAN
  <2>1. m \in Heard
    <3> HIDE DEF Heard
    <3> QED BY <1>1, <1>2
  <2> QED BY <2>1
<1>5. n \in Names \cup {None}
  BY <1>4 DEF GetChannel, CarefulInv, IInv, TypeOK, Contents
<1>6. n # None => n = m.from \/ m.moved
  <2> SUFFICES ASSUME n # None, ~ m.moved PROVE n = m.from
    OBVIOUS
  <2>1. Trace(m.slot, n) /\ Trace(m.slot, m.from)
    BY <1>2, <1>4, ConstantsAssumption DEF Trace, Remembered, GetChannel
  <2> QED BY <1>4, <1>5, <2>1 DEF TrafficInv, OneTrace
<1> HIDE DEF m, n, Heard
<1>7. /\ post' \in [room : Names \cup {None}, from : Names \cup {None}, moved : BOOLEAN]
      /\ post'.room = post'.from \/ post'.moved
  BY <1>3, <1>4, <1>5, <1>6 DEF Nothing
<1>8. UNCHANGED <<device, channel_cache, task, OnLink>>
  BY <1>3 DEF vars, OnLink
<1>9. NothingNew
  <2>1. \A r \in Slots, k \in Names : Remembered(r, k)' => Remembered(r, k)
    BY <1>8 DEF Remembered
  <2>2. \A r \in Slots, k \in Names : Trace(r, k)' => Trace(r, k)
    BY <1>2, <2>1 DEF Trace
  <2> QED BY <2>1, <2>2 DEF NothingNew
<1>10. \A t \in Tasks : task[t].idx \in Slots
  BY DEF CarefulInv, IInv, TypeOK
<1>11. OneTrace' /\ FreshWhenSet'
  BY <1>8, <1>9, <1>10, NoNewTrace
<1>12. LinkOK'
  BY <1>3, <1>8, LinkFrame DEF TrafficInv
<1>13. OnlyScansSee' /\ MisplacedOnlyIfReset'
  BY <1>7, <1>8 DEF TrafficInv, OnlyScansSee, MisplacedOnlyIfReset
<1>14. TrafficTypeOK'
  BY <1>2, <1>3, <1>7 DEF TrafficInv, TrafficTypeOK, TypeOK, vars, Heard
<1> QED BY <1>11, <1>12, <1>13, <1>14 DEF TrafficInv

(* A step that touches only what is on the link, or what is being posted.  *)
LEMMA ElsewhereKeeps ==
  ASSUME CarefulInv, TrafficInv, UNCHANGED <<vars, inbox>>, LinkOK',
         link' \in Seq([task : Tasks \cup {None}, room : Names \cup {None}, slot : Slots]),
         post' \in {post, Nothing}
  PROVE  TrafficInv'
<1>1. UNCHANGED <<device, channel_cache, task>>
  BY DEF vars
<1>2. OnlyScansSee' /\ OneTrace' /\ FreshWhenSet'
  BY <1>1 DEF TrafficInv, OnlyScansSee, OneTrace, FreshWhenSet, Trace, Remembered
<1>3. /\ Nothing \in [room : Names \cup {None}, from : Names \cup {None}, moved : BOOLEAN]
      /\ Nothing.room = Nothing.from
  BY DEF Nothing
<1>4. MisplacedOnlyIfReset' /\ TrafficTypeOK'
  BY <1>3 DEF TrafficInv, MisplacedOnlyIfReset, TrafficTypeOK, TypeOK, vars
<1> QED BY <1>2, <1>4 DEF TrafficInv

(* One step of the commands or of the messages keeps the invariant.        *)
LEMMA TrafficStep ==
  CarefulInv /\ CarefulInv' /\ TrafficInv /\ [TrafficNext]_allVars => TrafficInv'
<1> SUFFICES ASSUME CarefulInv, CarefulInv', TrafficInv, [TrafficNext]_allVars
             PROVE  TrafficInv'
  OBVIOUS
<1>t. TrafficTypeOK /\ TypeOK /\ LinkOK
  BY DEF TrafficInv, CarefulInv, IInv
<1>l. link \in Seq([task : Tasks \cup {None}, room : Names \cup {None}, slot : Slots])
  BY <1>t DEF TrafficTypeOK
<1>1. ASSUME NEW n \in Names, SendChannelMessage(n) PROVE TrafficInv'
  <2> DEFINE x == [task |-> None, room |-> n, slot |-> Route(n)]
  <2>1. Route(n) \in Slots /\ link' = Append(link, x) /\ UNCHANGED <<vars, inbox, post>>
    BY <1>1 DEF SendChannelMessage
  <2>2. /\ x \in [task : Tasks \cup {None}, room : Names \cup {None}, slot : Slots]
        /\ IsMessage(x) /\ x.room = n /\ x.slot = routes[n]
    BY <2>1 DEF IsMessage, Route
  <2> HIDE DEF x
  <2>3. device[x.slot] = x.room /\ UNCHANGED <<device, task, OnLink>>
    BY <2>1, <2>2 DEF CarefulInv, NeverMisroutes, Route, vars, OnLink
  <2>4. ASSUME NEW t \in OnLink PROVE task[t].idx # x.slot
    <3>1. /\ task[t].new # None => device[task[t].idx] = None
          /\ task[t].new = None => routes[n] # task[t].idx
      BY DEF OnLink, CarefulInv, ChangeOK
    <3> QED BY <2>2, <2>3, <3>1, ConstantsAssumption
  <2>5. /\ LinkOK'
        /\ link' \in Seq([task : Tasks \cup {None}, room : Names \cup {None}, slot : Slots])
    BY <1>t, <2>1, <2>2, <2>3, <2>4, LinkAppend
  <2> QED BY <2>1, <2>5, ElsewhereKeeps
<1>2. CASE Transmit
  <2>1. /\ link # <<>> /\ IsMessage(Head(link)) /\ link' = Tail(link)
        /\ UNCHANGED <<vars, inbox, post>>
    BY <1>2 DEF Transmit
  <2>2. UNCHANGED <<device, task, OnLink>>
    BY <2>1 DEF vars, OnLink
  <2>3. /\ LinkOK'
        /\ link' \in Seq([task : Tasks \cup {None}, room : Names \cup {None}, slot : Slots])
    BY <1>t, <2>1, <2>2, LinkTail
  <2> QED BY <2>1, <2>3, ElsewhereKeeps
<1>3. CASE Post \/ UNCHANGED allVars
  <2>1. UNCHANGED <<vars, inbox, link>> /\ post' \in {post, Nothing}
    BY <1>3 DEF Post, allVars, traffic
  <2>2. UNCHANGED <<device, task, OnLink>>
    BY <2>1 DEF vars, OnLink
  <2>3. LinkOK'
    BY <1>t, <2>1, <2>2, LinkFrame
  <2> QED BY <1>l, <2>1, <2>3, ElsewhereKeeps
<1> QED BY <1>1, <1>2, <1>3, ChangeStep, HearStep, GetStep DEF TrafficNext

(* Nothing is on the link or on the radio at first. *)
LEMMA TrafficStart == TrafficInit => TrafficInv
<1> SUFFICES ASSUME TrafficInit PROVE TrafficInv
  OBVIOUS
<1>1. CarefulInv /\ Init /\ link = <<>> /\ inbox = <<>> /\ post = Nothing
  BY CarefulStart DEF TrafficInit, CarefulInit
<1>2. \A t \in Tasks : task[t].pc = "idle" /\ \A s \in Slots : task[t].seen[s] = None
  BY <1>1 DEF Init, Idle
<1>3. TrafficTypeOK
  BY <1>1 DEF TrafficTypeOK, Nothing, CarefulInv, IInv
<1>4. OnlyScansSee /\ FreshWhenSet
  BY <1>2 DEF OnlyScansSee, FreshWhenSet
<1>5. OneTrace
  BY <1>1, <1>2 DEF OneTrace, Trace, Remembered, Init
<1>6. LinkOK /\ MisplacedOnlyIfReset
  BY <1>1, <1>2 DEF LinkOK, OnLink, MisplacedOnlyIfReset, Nothing
<1> QED BY <1>3, <1>4, <1>5, <1>6 DEF TrafficInv

(* Every state reachable with messages under way satisfies both invariants. *)
THEOREM TrafficInvariant == TrafficSpec => [](CarefulInv /\ TrafficInv)
<1>1. CarefulInv /\ TrafficInv /\ [TrafficNext]_allVars => (CarefulInv /\ TrafficInv)'
  <2>1. [TrafficNext]_allVars => [CarefulNext]_vars
    BY DEF TrafficNext, Change, SendChannelMessage, Transmit, Hear, GetMessage, Post, allVars
  <2> QED BY <2>1, CarefulStep, TrafficStep
<1>2. TrafficInit => CarefulInv /\ TrafficInv
  BY CarefulStart, TrafficStart DEF TrafficInit
<1> QED BY <1>1, <1>2, PTL DEF TrafficSpec

(* With a careful operator a message written in a channel's room goes on   *)
(* air on that channel, whatever commands run while it waits for the radio. *)
THEOREM SentRight == TrafficSpec => []SentWhereWritten
<1>1. TrafficInv => SentWhereWritten
  BY DEF TrafficInv, TrafficTypeOK, LinkOK, SentWhereWritten
<1> QED BY <1>1, TrafficInvariant, PTL

(* And a message from the air is posted in the room of the channel it was  *)
(* heard on, whatever commands run while it waits on the radio, unless one *)
(* of them gave its slot to another channel meanwhile.                     *)
THEOREM PostedRight == TrafficSpec => []MisplacedOnlyIfReset
<1>1. TrafficInv => MisplacedOnlyIfReset
  BY DEF TrafficInv
<1> QED BY <1>1, TrafficInvariant, PTL

(* Between commands every channel on the radio has its room, also with the *)
(* messages.                                                               *)
THEOREM ChannelsHaveRooms == TrafficSpec => []EveryChannelHasARoom
BY RoomsMatchRadio, TrafficIsCareful, PTL
=============================================================================
