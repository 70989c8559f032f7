-------------------------- MODULE RadioInboxProofs --------------------------
(***************************************************************************)
(* Proofs about RadioInbox: messages are posted at most once and in order  *)
(* but for late requests, no announcement is slept through, and the drain  *)
(* implements MessageRelay, for any set of handlers and any number of      *)
(* messages.                                                               *)
(***************************************************************************)
EXTENDS RadioInbox, TLAPS

(* What the steps preserve.  The lock serialises the drains, so the        *)
(* message a task is posting is the last one taken, and everything posted  *)
(* before has a smaller number.                                            *)
HoldsLast == \A t \in Tasks : pc[t] = "post" => held[t] = taken /\ taken > 0

PostedAreTaken ==
  \A i \in 1 .. Len(posted) :
    /\ posted[i] <= taken
    /\ \A t \in Tasks : pc[t] = "post" => posted[i] < taken

LateAreTaken ==
  \A m \in late :
    /\ m \in 1 .. taken
    /\ \A t \in Tasks : pc[t] = "post" => m < taken

DownIsIdle == ~ up => \A t \in Tasks : pc[t] = "idle"

IInv ==
  /\ TypeOK /\ OneDrains /\ HoldsLast /\ DownIsIdle
  /\ PostedAreTaken /\ LateAreTaken /\ PostedInOrder

-----------------------------------------------------------------------------
(* RadioInbox keeps its variables in their types: a get_msg that fails     *)
(* never counts a message as gone that was not there.                      *)
LEMMA TypeStep == TypeOK /\ [Next]_vars => TypeOK'
<1> SUFFICES ASSUME TypeOK, [Next]_vars PROVE TypeOK'
  OBVIOUS
<1> USE ConstantsAssumption DEF TypeOK, Tasks
<1>1. ASSUME NEW kind \in Kinds, Receive(kind) PROVE TypeOK'
  <2>1. inbox' \in Seq(Kinds) /\ Len(inbox') = Len(inbox) + 1
    BY <1>1 DEF Receive
  <2>2. pc' \in [Tasks -> {"idle", "wait", "fetch", "post"}] /\ missed' \in BOOLEAN
    BY <1>1 DEF Receive, Wake
  <2> QED BY <1>1, <2>1, <2>2 DEF Receive
<1>2. ASSUME Reconnect PROVE TypeOK'
  BY <1>2 DEF Reconnect, Wake
<1>3. ASSUME NEW t \in Tasks, TakeLock(t) PROVE TypeOK'
  BY <1>3 DEF TakeLock
<1>4. ASSUME NEW t \in Tasks, NoMoreMessages(t) PROVE TypeOK'
  BY <1>4 DEF NoMoreMessages, Release
<1>5. ASSUME NEW t \in Tasks, Raise(t), UNCHANGED <<inbox, held>>,
             taken' \in 0 .. Len(inbox), posted' \in Seq(Nat), late' \subseteq Nat
      PROVE  TypeOK'
  BY <1>5 DEF Raise, Release
<1>6. ASSUME NEW t \in Tasks, GetMessage(t) PROVE TypeOK'
  <2>1. taken' \in 0 .. Len(inbox) /\ taken + 1 \in Nat
    BY <1>6 DEF GetMessage, IsEmpty
  <2>2. CASE Raise(t) /\ UNCHANGED held
    BY <1>5, <1>6, <2>1, <2>2 DEF GetMessage
  <2>3. CASE pc' = [pc EXCEPT ![t] = "post"] /\ held' = [held EXCEPT ![t] = taken + 1]
             /\ UNCHANGED <<up, lock, missed, gave_up>>
    BY <1>6, <2>1, <2>3 DEF GetMessage
  <2>4. CASE UNCHANGED <<up, pc, held, lock, missed, gave_up>>
    BY <1>6, <2>1, <2>4 DEF GetMessage
  <2> QED BY <1>6, <2>2, <2>3, <2>4 DEF GetMessage
<1>7. ASSUME NEW t \in Tasks, GetFails(t) PROVE TypeOK'
  <2>1. taken' \in 0 .. Len(inbox)
    BY <1>7 DEF GetFails, HasMore
  <2> QED BY <1>5, <1>7, <2>1 DEF GetFails
<1>8. ASSUME NEW t \in Tasks, Post(t) PROVE TypeOK'
  BY <1>8 DEF Post
<1>13. ASSUME NEW m \in Nat, Fate(m) PROVE posted' \in Seq(Nat) /\ late' \subseteq Nat
  <2>1. Append(posted, m) \in Seq(Nat)
    OBVIOUS
  <2> QED BY <1>13, <2>1 DEF Fate
<1>9. ASSUME NEW t \in Tasks, PostFails(t) PROVE TypeOK'
  <2>1. held[t] \in Nat /\ Fate(held[t])
    BY <1>9 DEF PostFails
  <2>2. posted' \in Seq(Nat) /\ late' \subseteq Nat
    BY <1>13, <2>1
  <2> QED BY <1>5, <1>9, <2>2 DEF PostFails
<1>10. CASE Stop
  <2>1. taken \in Nat
    OBVIOUS
  <2>2. posted' \in Seq(Nat) /\ late' \subseteq Nat
    BY <1>10, <1>13, <2>1 DEF Stop
  <2> QED BY <1>10, <2>2 DEF Stop
<1>14. ASSUME NEW m \in late, TakeLate(m) PROVE TypeOK'
  <2>1. m \in Nat /\ Append(posted, m) \in Seq(Nat)
    OBVIOUS
  <2> QED BY <1>14, <2>1 DEF TakeLate
<1>11. CASE Start
  BY <1>11 DEF Start, Wake
<1>12. CASE UNCHANGED vars
  BY <1>12 DEF vars
<1> QED
  BY <1>1, <1>2, <1>3, <1>4, <1>6, <1>7, <1>8, <1>9, <1>10, <1>11, <1>12, <1>14
     DEF Next, Step
-----------------------------------------------------------------------------
(* A task that raises lets go of the lock: nobody drains after it. *)
LEMMA RaiseStep ==
  ASSUME TypeOK, OneDrains, DownIsIdle, NEW t \in Tasks, Draining(t), Raise(t)
  PROVE  OneDrains' /\ DownIsIdle' /\ (\A u \in Tasks : ~ Draining(u)')
<1> USE ConstantsAssumption DEF TypeOK, OneDrains, DownIsIdle, Draining, Tasks
<1>1. \A u \in Tasks : u # t => ~ Draining(u)
  OBVIOUS
<1>2. \A u \in Tasks : ~ Draining(u)'
  BY <1>1 DEF Raise
<1> QED BY <1>2 DEF Raise, Release

(* What becomes of the last message taken, when its posting is over, keeps *)
(* what was posted apart and in order.                                     *)
LEMMA FateStep ==
  ASSUME TypeOK, TypeOK', PostedInOrder, LateAreTaken, taken > 0,
         \A i \in 1 .. Len(posted) : posted[i] < taken,
         \A m \in late : m < taken,
         Fate(taken) \/ (posted' = Append(posted, taken) /\ UNCHANGED late), taken' = taken
  PROVE  /\ PostedInOrder'
         /\ \A i \in 1 .. Len(posted') : posted'[i] <= taken
         /\ \A m \in late' : m \in 1 .. taken
<1> USE DEF TypeOK
<1>1. taken \in Nat /\ taken \in 1 .. taken /\ posted \in Seq(Nat) /\ late \subseteq Nat
  OBVIOUS
<1>2. CASE posted' = Append(posted, taken) /\ UNCHANGED late
  <2>1. Len(posted') = Len(posted) + 1 /\ posted'[Len(posted) + 1] = taken
    BY <1>1, <1>2
  <2>2. \A i \in 1 .. Len(posted) : posted'[i] = posted[i] /\ posted[i] \in Nat
    BY <1>1, <1>2
  <2> QED BY <1>1, <1>2, <2>1, <2>2 DEF PostedInOrder, LateAreTaken
<1>3. CASE UNCHANGED <<posted, late>>
  BY <1>1, <1>3 DEF PostedInOrder, LateAreTaken
<1>4. CASE late' = late \cup {taken} /\ UNCHANGED posted
  BY <1>1, <1>4 DEF PostedInOrder, LateAreTaken
<1> QED BY <1>2, <1>3, <1>4 DEF Fate

(* A late request brings a message that was not posted, and that may come  *)
(* behind others.                                                          *)
LEMMA LateStep ==
  ASSUME IInv, NEW m \in late, TakeLate(m)
  PROVE  PostedInOrder' /\ PostedAreTaken'
<1> USE DEF IInv, TypeOK
<1>1. m \in Nat /\ posted \in Seq(Nat)
  OBVIOUS
<1>2. Len(posted') = Len(posted) + 1 /\ posted'[Len(posted) + 1] = m
  BY <1>1 DEF TakeLate
<1>6. posted' = Append(posted, m) /\ \A i \in 1 .. Len(posted) : posted[i] # m
  BY DEF TakeLate, IsPosted
<1>7. \A i \in 1 .. Len(posted) : posted'[i] = posted[i] /\ posted[i] \in Nat
  BY <1>1, <1>6
<1>3. \A i \in 1 .. Len(posted) : posted'[i] = posted[i] /\ posted[i] # m /\ posted[i] \in Nat
  BY <1>6, <1>7
<1>8. late' = late
  BY DEF TakeLate
<1>4. PostedInOrder'
  <2> SUFFICES ASSUME NEW i \in 1 .. Len(posted'), NEW j \in 1 .. Len(posted'), i < j
               PROVE  /\ posted'[i] # posted'[j]
                      /\ posted'[j] \notin late => posted'[i] < posted'[j]
    BY <1>8 DEF PostedInOrder
  <2>0. /\ Len(posted) \in Nat /\ i \in 1 .. Len(posted)
        /\ posted'[i] = posted[i] /\ posted[i] # m /\ posted[i] \in Nat
        /\ j = Len(posted) + 1 \/ j \in 1 .. Len(posted)
    <3>1. Len(posted) \in Nat
      BY <1>1
    <3>2. i \in 1 .. Len(posted) /\ (j = Len(posted) + 1 \/ j \in 1 .. Len(posted))
      BY <1>2, <3>1
    <3> QED BY <1>3, <3>1, <3>2
  <2>1. CASE j = Len(posted) + 1
    <3>1. posted'[j] = m /\ m \in late
      BY <1>2, <2>1
    <3> QED BY <2>0, <3>1
  <2>2. CASE j \in 1 .. Len(posted)
    <3>1. posted'[j] = posted[j]
      BY <1>3, <2>2
    <3>2. posted[i] # posted[j] /\ (posted[j] \notin late => posted[i] < posted[j])
      BY <2>0, <2>2 DEF PostedInOrder
    <3> QED BY <2>0, <3>1, <3>2
  <2> QED BY <2>0, <2>1, <2>2
<1>5. PostedAreTaken'
  BY <1>1, <1>2, <1>3 DEF PostedAreTaken, LateAreTaken, TakeLate
<1> QED BY <1>4, <1>5

(* The inductive step of IInv, action by action. *)
LEMMA InvStep == IInv /\ [Next]_vars => IInv'
<1> SUFFICES ASSUME IInv, [Next]_vars PROVE IInv'
  OBVIOUS
<1>0. TypeOK'
  BY TypeStep DEF IInv
<1> DEFINE Rest == /\ OneDrains' /\ HoldsLast' /\ PostedAreTaken' /\ LateAreTaken'
                   /\ PostedInOrder' /\ DownIsIdle'
<1> SUFFICES Rest
  BY <1>0 DEF IInv
<1>14. ASSUME UNCHANGED <<taken, held, lock, posted, late>>,
              \A u \in Tasks : Draining(u)' <=> Draining(u),
              \A u \in Tasks : pc'[u] = "post" => pc[u] = "post"
       PROVE  OneDrains' /\ HoldsLast' /\ PostedAreTaken' /\ LateAreTaken' /\ PostedInOrder'
  BY <1>14 DEF IInv, OneDrains, HoldsLast, PostedAreTaken, LateAreTaken, PostedInOrder
<1>1. ASSUME NEW kind \in Kinds, Receive(kind) PROVE Rest
  <2>1. /\ DownIsIdle' /\ \A u \in Tasks : Draining(u)' <=> Draining(u)
        /\ \A u \in Tasks : pc'[u] = "post" => pc[u] = "post"
    BY <1>1, ConstantsAssumption DEF Receive, Wake, IInv, TypeOK, Tasks, Draining, DownIsIdle
  <2> QED BY <1>1, <1>14, <2>1 DEF Receive
<1>2. CASE Reconnect
  <2>1. /\ DownIsIdle' /\ \A u \in Tasks : Draining(u)' <=> Draining(u)
        /\ \A u \in Tasks : pc'[u] = "post" => pc[u] = "post"
    BY <1>2, ConstantsAssumption DEF Reconnect, Wake, IInv, TypeOK, Tasks, Draining, DownIsIdle
  <2> QED BY <1>2, <1>14, <2>1 DEF Reconnect
<1>3. ASSUME NEW t \in Tasks, TakeLock(t) PROVE Rest
  BY <1>3, ConstantsAssumption
     DEF TakeLock, LockFree, IInv, TypeOK, Tasks, OneDrains, Draining, HoldsLast,
         PostedAreTaken, LateAreTaken, PostedInOrder, DownIsIdle
<1>4. ASSUME NEW t \in Tasks, NoMoreMessages(t) PROVE Rest
  BY <1>4, ConstantsAssumption
     DEF NoMoreMessages, Release, IInv, TypeOK, Tasks, OneDrains, Draining,
         HoldsLast, PostedAreTaken, LateAreTaken, PostedInOrder, DownIsIdle
<1>5. ASSUME NEW t \in Tasks, GetMessage(t) PROVE Rest
  <2>1. /\ pc[t] = "fetch" /\ taken' = taken + 1 /\ UNCHANGED <<posted, late>>
        /\ taken \in Nat
    BY <1>5 DEF GetMessage, IInv, TypeOK
  <2>2. \A u \in Tasks : pc[u] # "post"
    BY <2>1 DEF IInv, OneDrains, Draining, TypeOK
  <2>3. CASE Raise(t)
    <3>1. OneDrains' /\ DownIsIdle' /\ \A u \in Tasks : ~ Draining(u)'
      BY <2>1, <2>3, RaiseStep DEF IInv, Draining
    <3>2. HoldsLast'
      BY <3>1 DEF Draining, HoldsLast
    <3>3. PostedInOrder'
      BY <2>1 DEF IInv, PostedInOrder
    <3>4. \A u \in Tasks : pc'[u] # "post"
      BY <3>1 DEF Draining
    <3>5. PostedAreTaken'
      <4>1. \A i \in 1 .. Len(posted) : posted[i] \in Nat
        BY DEF IInv, TypeOK
      <4> QED BY <2>1, <3>4, <4>1 DEF IInv, PostedAreTaken
    <3>6. LateAreTaken'
      BY <2>1, <3>4 DEF IInv, LateAreTaken
    <3> QED BY <3>1, <3>2, <3>3, <3>5, <3>6
  <2>4. CASE pc' = [pc EXCEPT ![t] = "post"] /\ held' = [held EXCEPT ![t] = taken + 1]
             /\ UNCHANGED <<up, lock, missed, gave_up>>
    BY <2>1, <2>2, <2>4
       DEF IInv, TypeOK, OneDrains, Draining, HoldsLast, PostedAreTaken,
           LateAreTaken, PostedInOrder, DownIsIdle
  <2>5. CASE UNCHANGED <<up, pc, held, lock, missed, gave_up>>
    BY <2>1, <2>2, <2>5
       DEF IInv, TypeOK, OneDrains, Draining, HoldsLast, PostedAreTaken,
           LateAreTaken, PostedInOrder, DownIsIdle
  <2> QED BY <1>5, <2>3, <2>4, <2>5 DEF GetMessage
<1>6. ASSUME NEW t \in Tasks, GetFails(t) PROVE Rest
  <2>1. OneDrains' /\ DownIsIdle' /\ \A u \in Tasks : ~ Draining(u)'
    BY <1>6, RaiseStep DEF GetFails, IInv, Draining
  <2> QED BY <1>6, <2>1 DEF GetFails, IInv, TypeOK, Draining, HoldsLast,
                            PostedAreTaken, LateAreTaken, PostedInOrder
<1>12. ASSUME NEW t \in Tasks, pc[t] = "post"
       PROVE  /\ held[t] = taken /\ taken > 0
              /\ \A i \in 1 .. Len(posted) : posted[i] < taken
              /\ \A m \in late : m < taken
  BY <1>12 DEF IInv, HoldsLast, PostedAreTaken, LateAreTaken
<1>7. ASSUME NEW t \in Tasks, Post(t) PROVE Rest
  <2>1. pc[t] = "post" /\ pc' = [pc EXCEPT ![t] = "fetch"] /\ UNCHANGED <<up, lock, held, taken>>
    BY <1>7 DEF Post
  <2>2. /\ PostedInOrder' /\ (\A i \in 1 .. Len(posted') : posted'[i] <= taken)
        /\ \A m \in late' : m \in 1 .. taken
    BY <1>0, <1>7, <1>12, <2>1, FateStep DEF Post, IInv
  <2>3. OneDrains' /\ DownIsIdle'
    BY <2>1 DEF IInv, TypeOK, OneDrains, Draining, DownIsIdle
  <2>4. \A u \in Tasks : pc'[u] # "post"
    BY <2>1 DEF IInv, TypeOK, OneDrains, Draining
  <2> QED BY <2>1, <2>2, <2>3, <2>4 DEF HoldsLast, PostedAreTaken, LateAreTaken
<1>8. ASSUME NEW t \in Tasks, PostFails(t) PROVE Rest
  <2>1. OneDrains' /\ DownIsIdle' /\ \A u \in Tasks : ~ Draining(u)'
    BY <1>8, RaiseStep DEF PostFails, IInv, Draining
  <2>2. /\ PostedInOrder' /\ (\A i \in 1 .. Len(posted') : posted'[i] <= taken)
        /\ \A m \in late' : m \in 1 .. taken
    BY <1>0, <1>8, <1>12, FateStep DEF PostFails, IInv
  <2> QED BY <1>8, <2>1, <2>2 DEF PostFails, Draining, HoldsLast, PostedAreTaken, LateAreTaken
<1>9. CASE Stop
  <2>1. (\A t \in Tasks : pc'[t] = "idle") /\ lock' = None /\ up' = FALSE /\ taken' = taken
    BY <1>9 DEF Stop
  <2>2. OneDrains' /\ DownIsIdle' /\ HoldsLast'
    BY <2>1, ConstantsAssumption DEF OneDrains, Draining, DownIsIdle, HoldsLast, Tasks
  <2>3. CASE Posting
    <3>1. /\ PostedInOrder' /\ (\A i \in 1 .. Len(posted') : posted'[i] <= taken)
          /\ \A m \in late' : m \in 1 .. taken
      BY <1>0, <1>9, <1>12, <2>3, FateStep DEF Stop, Posting, IInv
    <3> QED BY <2>1, <2>2, <3>1 DEF PostedAreTaken, LateAreTaken
  <2>4. CASE ~ Posting
    BY <1>9, <2>1, <2>2, <2>4
       DEF Stop, IInv, PostedAreTaken, LateAreTaken, PostedInOrder
  <2> QED BY <2>3, <2>4
<1>13. ASSUME NEW m \in late, TakeLate(m) PROVE Rest
  BY <1>13, LateStep
     DEF TakeLate, IInv, OneDrains, Draining, HoldsLast, LateAreTaken, DownIsIdle
<1>10. CASE Start
  BY <1>10, ConstantsAssumption
     DEF Start, Wake, IInv, TypeOK, Tasks, OneDrains, Draining, HoldsLast,
         PostedAreTaken, LateAreTaken, PostedInOrder, DownIsIdle
<1>11. CASE UNCHANGED vars
  BY <1>11 DEF vars, IInv, TypeOK, OneDrains, Draining, HoldsLast,
               PostedAreTaken, LateAreTaken, PostedInOrder, DownIsIdle
<1> QED
  BY <1>1, <1>2, <1>3, <1>4, <1>5, <1>6, <1>7, <1>8, <1>9, <1>10, <1>11, <1>13
     DEF Next, Step

(* The first moment of the very first process satisfies IInv. *)
LEMMA InitInv == Init => IInv
<1> SUFFICES ASSUME Init PROVE IInv
  OBVIOUS
<1>1. inbox \in Seq(Kinds) /\ posted \in Seq(Nat) /\ Len(inbox) = 0 /\ Len(posted) = 0
  BY DEF Init
<1>2. /\ taken \in 0 .. Len(inbox) /\ held \in [Tasks -> Nat] /\ lock \in Tasks \cup {None}
      /\ pc \in [Tasks -> {"idle", "wait", "fetch", "post"}]
  BY <1>1 DEF Init
<1>3. TypeOK
  BY <1>1, <1>2 DEF TypeOK, Init
<1>4. OneDrains /\ HoldsLast /\ DownIsIdle
  BY ConstantsAssumption DEF Init, OneDrains, Draining, HoldsLast, DownIsIdle, Tasks
<1>5. PostedAreTaken /\ LateAreTaken /\ PostedInOrder
  BY <1>1 DEF Init, PostedAreTaken, LateAreTaken, PostedInOrder
<1> QED BY <1>3, <1>4, <1>5 DEF IInv

(* Every reachable state satisfies IInv. *)
THEOREM InductiveInvariant == Spec => []IInv
BY InitInv, InvStep, PTL DEF Spec

(* Every variable of the drain keeps its type; in particular it never      *)
(* counts more messages taken than the radio has heard.                    *)
THEOREM TypeCorrect == Spec => []TypeOK
<1>1. IInv => TypeOK
  BY DEF IInv
<1> QED BY <1>1, InductiveInvariant, PTL

(* handle_messages_waiting_l does its work: one task at most is between    *)
(* get_msg and the end of the posting.                                     *)
THEOREM SingleDrain == Spec => []OneDrains
<1>1. IInv => OneDrains
  BY DEF IInv
<1> QED BY <1>1, InductiveInvariant, PTL

(* At most once, and in order but for late requests, across failures,      *)
(* stops and restarts.                                                     *)
THEOREM InOrder == Spec => []PostedInOrder
<1>1. IInv => PostedInOrder
  BY DEF IInv
<1> QED BY <1>1, InductiveInvariant, PTL

-----------------------------------------------------------------------------
(* No announcement is slept through.  The invariant needed beside IInv is  *)
(* NoneForgotten itself: a drain ends well only on an empty radio.         *)
LEMMA AwakeAfterWake ==
  ASSUME TypeOK, NEW t \in Tasks, Wake(t), dev_enable_receive
  PROVE  ~ \A u \in Tasks : pc'[u] = "idle"
BY DEF TypeOK, Wake

LEMMA NoneForgottenStep ==
  IInv /\ NoneForgotten /\ [Next]_vars => NoneForgotten'
<1> SUFFICES ASSUME IInv, NoneForgotten, [Next]_vars, dev_enable_receive, up',
                    ~ IsEmpty', \A u \in Tasks : pc'[u] = "idle"
             PROVE  missed' \/ gave_up'
  BY DEF NoneForgotten
<1> USE DEF IInv
<1>1. ASSUME NEW kind \in Kinds, Receive(kind) PROVE missed'
  BY <1>1, AwakeAfterWake DEF Receive, Tasks
<1>2. CASE Reconnect
  BY <1>2, AwakeAfterWake DEF Reconnect, Tasks
<1>3. ASSUME NEW t \in Tasks, TakeLock(t) PROVE FALSE
  BY <1>3 DEF TakeLock, TypeOK
<1>4. ASSUME NEW t \in Tasks, NoMoreMessages(t) PROVE FALSE
  BY <1>4 DEF NoMoreMessages, IsEmpty
<1>5. ASSUME NEW t \in Tasks, GetMessage(t) PROVE gave_up'
  BY <1>5 DEF GetMessage, Raise, TypeOK
<1>6. ASSUME NEW t \in Tasks, GetFails(t) PROVE gave_up'
  BY <1>6 DEF GetFails, Raise
<1>7. ASSUME NEW t \in Tasks, Post(t) PROVE FALSE
  BY <1>7 DEF Post, TypeOK
<1>8. ASSUME NEW t \in Tasks, PostFails(t) PROVE gave_up'
  BY <1>8 DEF PostFails, Raise
<1>9. CASE Stop
  BY <1>9 DEF Stop
<1>12. ASSUME NEW m \in late, TakeLate(m) PROVE missed' \/ gave_up'
  BY <1>12 DEF TakeLate, NoneForgotten, IsEmpty
<1>10. CASE Start
  BY <1>10, AwakeAfterWake DEF Start, Tasks
<1>11. CASE UNCHANGED vars
  BY <1>11 DEF vars, NoneForgotten, IsEmpty
<1> QED
  BY <1>1, <1>2, <1>3, <1>4, <1>5, <1>6, <1>7, <1>8, <1>9, <1>10, <1>11, <1>12
     DEF Next, Step

(* A message waits on the radio with no handler awake only after a drain   *)
(* that raised, or while the event of a reconnection is still to come.     *)
THEOREM NothingSleptThrough == Spec => []NoneForgotten
<1>1. Init => NoneForgotten
  BY DEF Init, NoneForgotten
<1> QED BY <1>1, NoneForgottenStep, InductiveInvariant, PTL DEF Spec
-----------------------------------------------------------------------------
(* The drain implements MessageRelay: taking a message off the radio is    *)
(* a stutter until it is posted, skipped or lost.                          *)

(* A drain that ends, well or not, leaves nobody posting. *)
LEMMA OnlyPoster ==
  ASSUME IInv, NEW t \in Tasks, Draining(t), NEW u \in Tasks, pc[u] = "post"
  PROVE  u = t
BY DEF IInv, OneDrains, Draining

(* What is posted once one more message is. *)
LEMMA PostedAppend ==
  ASSUME posted \in Seq(Nat), NEW m \in Nat, posted' = Append(posted, m)
  PROVE  \A k : IsPosted(k)' <=> IsPosted(k) \/ k = m
<1>1. Len(posted') = Len(posted) + 1 /\ posted'[Len(posted) + 1] = m
      /\ \A i \in 1 .. Len(posted) : posted'[i] = posted[i]
  OBVIOUS
<1>2. Len(posted) \in Nat
  OBVIOUS
<1> QED BY <1>1, <1>2 DEF IsPosted

(* Nothing is posted or given up before it is settled. *)
LEMMA SettledBounds ==
  ASSUME IInv
  PROVE  /\ Settled \in Nat /\ Settled <= taken /\ late \subseteq 1 .. Settled
         /\ \A m : IsPosted(m) => m \in Nat /\ m <= Settled
<1>1. taken \in Nat /\ posted \in Seq(Nat)
  BY DEF IInv, TypeOK
<1>2. CASE Posting
  <2>1. PICK t \in Tasks : pc[t] = "post"
    BY <1>2 DEF Posting
  <2>2. taken > 0 /\ Settled = taken - 1
    BY <1>2, <2>1 DEF IInv, HoldsLast, Settled
  <2> QED BY <1>1, <2>1, <2>2 DEF IInv, LateAreTaken, PostedAreTaken, IsPosted
<1>3. CASE ~ Posting
  BY <1>1, <1>3 DEF IInv, LateAreTaken, PostedAreTaken, Settled, IsPosted
<1> QED BY <1>2, <1>3

(* Each step of the drain is a step of the relay or none. *)
LEMMA RelayStep == IInv /\ [Next]_vars => [Relay!Next]_(Relay!vars)
<1> SUFFICES ASSUME IInv, [Next]_vars PROVE [Relay!Next]_(Relay!vars)
  OBVIOUS
<1>a. TypeOK /\ TypeOK' /\ IInv'
  BY InvStep, TypeStep DEF IInv
<1>b. taken \in Nat /\ Len(inbox) \in Nat /\ taken' \in Nat /\ taken <= Len(inbox)
  BY <1>a DEF TypeOK
<1> DEFINE Stutter == UNCHANGED <<inbox, Settled, posted, late>>
           Moves   == /\ Settled < Len(inbox) /\ Settled' = Settled + 1
                      /\ UNCHANGED inbox
           Drops   == Moves /\ UNCHANGED <<posted, late>>
           Posts   == Moves /\ posted' = Append(posted, Settled + 1) /\ UNCHANGED late
           Strays  == Moves /\ late' = late \cup {Settled + 1} /\ UNCHANGED posted
<1>h. /\ Settled \in Nat /\ late \subseteq 1 .. Settled
      /\ \A m : IsPosted(m) => m \in Nat /\ m <= Settled
      /\ \A m : Relay!IsPosted(m) <=> IsPosted(m)
  BY SettledBounds DEF Relay!IsPosted, IsPosted
<1>i. \A m \in 1 .. Settled : Relay!Passed(m)
  BY <1>h DEF Relay!Passed, Dropped
<1>j. Settled < Len(inbox) =>
        /\ Settled + 1 \in 1 .. Len(inbox)
        /\ Relay!HasTurn(Settled + 1) /\ ~ Relay!Passed(Settled + 1)
  BY <1>b, <1>h, <1>i DEF Relay!HasTurn, Relay!Passed, Dropped
<1>c. Stutter => UNCHANGED Relay!vars
  BY DEF Relay!vars, Dropped, IsPosted
<1>d. Drops => Relay!Next
  <2> SUFFICES ASSUME Drops PROVE Relay!Next
    OBVIOUS
  <2>1. \A m : IsPosted(m)' <=> IsPosted(m)
    BY DEF IsPosted
  <2>2. Dropped' = Dropped \cup {Settled + 1}
    BY <1>b, <1>h, <2>1 DEF Dropped
  <2>3. Relay!Drop(Settled + 1)
    BY <1>j, <2>2 DEF Relay!Drop
  <2> QED BY <1>j, <2>3 DEF Relay!Next
<1>e. Posts => Relay!Next
  <2> SUFFICES ASSUME Posts PROVE Relay!Next
    OBVIOUS
  <2>1. \A m : IsPosted(m)' <=> IsPosted(m) \/ m = Settled + 1
    BY <1>a, <1>h, PostedAppend DEF TypeOK
  <2>2. Dropped' = Dropped
    BY <1>b, <1>h, <2>1 DEF Dropped
  <2>3. Relay!Post(Settled + 1)
    BY <1>j, <2>2 DEF Relay!Post
  <2> QED BY <1>j, <2>3 DEF Relay!Next
<1>f. Strays => Relay!Next
  <2> SUFFICES ASSUME Strays PROVE Relay!Next
    OBVIOUS
  <2>1. \A m : IsPosted(m)' <=> IsPosted(m)
    BY DEF IsPosted
  <2>2. Dropped' = Dropped
    BY <1>b, <1>h, <2>1 DEF Dropped
  <2>3. Relay!GiveUp(Settled + 1)
    BY <1>j, <2>2 DEF Relay!GiveUp
  <2> QED BY <1>j, <2>3 DEF Relay!Next
<1>g. ASSUME Moves, Fate(Settled + 1) PROVE Relay!Next
  BY <1>d, <1>e, <1>f, <1>g DEF Fate
<1> HIDE DEF Stutter, Moves, Drops, Posts, Strays
<1>1. ASSUME NEW kind \in Kinds, Receive(kind) PROVE Relay!Next
  <2>1. Len(inbox') = Len(inbox) + 1
    BY <1>1, <1>a DEF Receive, TypeOK
  <2>2. UNCHANGED <<Settled, posted, late>>
    BY <1>1, <1>a DEF Receive, Wake, Settled, Posting, TypeOK
  <2>3. Dropped' = Dropped
    BY <2>2 DEF Dropped, IsPosted
  <2> QED BY <2>1, <2>2, <2>3 DEF Relay!Next, Relay!Receive
<1>2. CASE Reconnect
  BY <1>2, <1>a, <1>c DEF Reconnect, Wake, Settled, Posting, TypeOK, Stutter
<1>3. ASSUME NEW t \in Tasks, TakeLock(t) PROVE Stutter
  BY <1>3, <1>a DEF TakeLock, Settled, Posting, TypeOK, Stutter
<1>4. ASSUME NEW t \in Tasks, NoMoreMessages(t) PROVE Stutter
  BY <1>4, <1>a DEF NoMoreMessages, Settled, Posting, TypeOK, Stutter
<1>5. ASSUME NEW t \in Tasks, Raise(t), Draining(t), UNCHANGED inbox
      PROVE  Settled' = taken'
  <2>1. ~ Posting'
    BY <1>5, <1>a, RaiseStep DEF IInv, Posting, Draining
  <2> QED BY <2>1 DEF Settled, Posting
<1>6. ASSUME NEW t \in Tasks, pc[t] = "fetch" PROVE Settled = taken
  <2>1. ~ Posting
    BY <1>6, OnlyPoster DEF Draining, Posting
  <2> QED BY <2>1 DEF Settled, Posting
<1>7. ASSUME NEW t \in Tasks, pc[t] = "post"
      PROVE  Settled = taken - 1 /\ held[t] = Settled + 1 /\ Settled < Len(inbox)
  <2>1. Settled = taken - 1
    BY <1>7 DEF Settled, Posting
  <2> QED BY <1>7, <1>b, <2>1 DEF IInv, HoldsLast
<1>8. ASSUME NEW t \in Tasks, GetMessage(t) PROVE Stutter \/ Drops
  <2>1. Settled = taken /\ taken' = taken + 1 /\ taken < Len(inbox) /\ UNCHANGED <<inbox, posted, late>>
    BY <1>6, <1>8, <1>b DEF GetMessage, IsEmpty
  <2>2. CASE pc' = [pc EXCEPT ![t] = "post"]
    <3>1. pc'[t] = "post"
      BY <2>2, <1>a DEF TypeOK
    <3>2. Settled' = taken' - 1
      BY <3>1 DEF Settled, Posting
    <3> QED BY <2>1, <3>2, <1>b DEF Stutter
  <2>3. CASE UNCHANGED pc
    <3>1. Settled' = taken'
      BY <2>3, <1>8, OnlyPoster DEF Settled, Posting, GetMessage, Draining
    <3> QED BY <2>1, <3>1 DEF Drops, Moves
  <2>4. CASE Raise(t)
    BY <1>5, <1>8, <2>1, <2>4 DEF GetMessage, Draining, Drops, Moves
  <2> QED BY <1>8, <2>2, <2>3, <2>4 DEF GetMessage
<1>9. ASSUME NEW t \in Tasks, GetFails(t) PROVE Stutter \/ Drops
  BY <1>5, <1>6, <1>9, <1>b DEF GetFails, HasMore, Draining, Drops, Moves, Stutter
<1>10. ASSUME NEW t \in Tasks, Post(t) PROVE Posts
  <2>1. ~ Posting'
    BY <1>10, <1>a, OnlyPoster DEF Post, Posting, Draining, TypeOK
  <2> QED BY <1>7, <1>10, <1>b, <2>1 DEF Post, Settled, Posting, Posts, Moves
<1>11. ASSUME NEW t \in Tasks, PostFails(t) PROVE Relay!Next
  <2>1. Moves /\ Fate(Settled + 1)
    BY <1>5, <1>7, <1>11, <1>b DEF PostFails, Draining, Moves
  <2> QED BY <1>g, <2>1
<1>12. CASE Stop
  <2>1. Settled' = taken' /\ UNCHANGED <<inbox, taken>>
    BY <1>12 DEF Stop, Settled, Posting
  <2>2. CASE Posting
    <3>1. PICK t \in Tasks : pc[t] = "post"
      BY <2>2 DEF Posting
    <3>2. Moves /\ Fate(Settled + 1)
      BY <1>7, <1>12, <1>b, <2>1, <2>2, <3>1 DEF Stop, Moves
    <3> QED BY <1>g, <3>2
  <2>3. CASE ~ Posting
    BY <1>12, <1>c, <2>1, <2>3 DEF Stop, Settled, Stutter
  <2> QED BY <2>2, <2>3
<1>15. ASSUME NEW m \in late, TakeLate(m) PROVE Relay!Next
  <2>1. UNCHANGED <<inbox, Settled, late>> /\ posted' = Append(posted, m) /\ ~ IsPosted(m)
    BY <1>15 DEF TakeLate, Settled, Posting
  <2>2. m \in 1 .. Len(inbox)
    BY <1>b, SettledBounds
  <2>3. \A k : IsPosted(k)' <=> IsPosted(k) \/ k = m
    BY <1>a, <2>1, <2>2, PostedAppend DEF TypeOK
  <2>4. Dropped' = Dropped
    BY <2>1, <2>3 DEF Dropped
  <2>5. Relay!Arrive(m)
    BY <1>h, <2>1, <2>4 DEF Relay!Arrive
  <2> QED BY <2>2, <2>5 DEF Relay!Next
<1>13. CASE Start
  BY <1>13, <1>a, <1>c DEF Start, Wake, Settled, Posting, TypeOK, Stutter
<1>14. CASE UNCHANGED vars
  BY <1>14, <1>c DEF vars, Settled, Posting, Stutter
<1> QED
  BY <1>c, <1>d, <1>e, <1>1, <1>2, <1>3, <1>4, <1>8, <1>9, <1>10, <1>11,
     <1>12, <1>13, <1>14, <1>15
     DEF Next, Step

(* RadioChatter.run keeps the promise of MessageRelay: at most once and in *)
(* the order of arrival, each message settled before the next one is, and  *)
(* only what was given up with a request on its way may come later.        *)
THEOREM DrainImplementsRelay == Spec => RelaySpec
<1>1. Init => Relay!Init
  BY DEF Init, Relay!Init, Dropped, Settled, Posting
<1> QED BY <1>1, RelayStep, InductiveInvariant, PTL DEF Spec, RelaySpec, Relay!Spec
=============================================================================
