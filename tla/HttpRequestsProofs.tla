------------------------- MODULE HttpRequestsProofs -------------------------
(***************************************************************************)
(* Proofs about HttpRequests: for any number of messages, readings of the  *)
(* clock and faults a message is in the room at most once, and one that    *)
(* send_message returned for is there unless another one bore its txn_id.  *)
(***************************************************************************)
EXTENDS HttpRequests, TLAPS

(* What the txn_id is worth.  It is fixed before the first attempt, so     *)
(* whatever the homeserver has of a message is known under it, ...         *)
PostedIsKnown ==
  \A m \in Messages :
    /\ posted[m] > 0 => call[m].pc # "idle" /\ call[m].txn_id \in known
    /\ m \in late => call[m].pc # "idle"

(* ... the homeserver knows an id only for a message it has posted, ...    *)
KnownIsPosted ==
  \A id \in known :
    \E m \in Messages : posted[m] = 1 /\ call[m].pc # "idle" /\ call[m].txn_id = id

(* ... and answers 200 to nothing it does not know.                        *)
OkIsKnown == \A m \in Messages : call[m].pc = "ok" => call[m].txn_id \in known

(* A call has not paused more often than the network has failed. *)
PausesAreFaults == \A m \in Messages : call[m].pauses <= faults

IInv ==
  /\ TypeOK /\ PausesAreFaults
  /\ AtMostOnce /\ PostedIsKnown /\ KnownIsPosted /\ OkIsKnown

Calls == [pc : PC, txn_id : 0 .. MaxClock, pauses : 0 .. MaxFaults]

-----------------------------------------------------------------------------
(* The initial state satisfies the invariant: nothing is sent or known. *)
LEMMA InitInv == Init => IInv
BY ConstantsAssumption
   DEF Init, IInv, TypeOK, PausesAreFaults, AtMostOnce, PostedIsKnown, KnownIsPosted,
       OkIsKnown, PC

(* Where the homeserver takes a request, first or repeated, of a message   *)
(* that is under way: it posts it once, and knows its id from then on.     *)
LEMMA TakeKeeps ==
  ASSUME IInv, NEW m \in Messages, call[m].pc # "idle", Take(m)
  PROVE  /\ known' \subseteq 0 .. MaxClock /\ known \subseteq known'
         /\ call[m].txn_id \in known'
         /\ posted' \in [Messages -> Nat]
         /\ \A n \in Messages :
              /\ posted'[n] <= 1 /\ posted[n] <= posted'[n]
              /\ posted'[n] > 0 => call[n].pc # "idle" /\ call[n].txn_id \in known'
         /\ \A id \in known' : \E n \in Messages :
              posted'[n] = 1 /\ call[n].pc # "idle" /\ call[n].txn_id = id
<1> DEFINE id == call[m].txn_id
<1>t. /\ TypeOK /\ AtMostOnce /\ PostedIsKnown /\ KnownIsPosted
      /\ posted \in [Messages -> Nat] /\ id \in 0 .. MaxClock /\ known \subseteq 0 .. MaxClock
  BY DEF IInv, TypeOK
<1>1. CASE id \in known
  <2>1. known' = known /\ posted' = posted
    BY <1>1 DEF Take
  <2> QED BY <1>t, <1>1, <2>1 DEF AtMostOnce, PostedIsKnown, KnownIsPosted
<1>2. CASE id \notin known
  <2>1. known' = known \cup {id} /\ posted' = [posted EXCEPT ![m] = @ + 1]
    BY <1>2 DEF Take
  <2>2. posted[m] = 0
    BY <1>t, <1>2 DEF PostedIsKnown
  <2>3. posted' \in [Messages -> Nat] /\ posted'[m] = 1
        /\ \A n \in Messages \ {m} : posted'[n] = posted[n]
    BY <1>t, <2>1, <2>2
  <2>4. \A n \in Messages :
          /\ posted'[n] <= 1 /\ posted[n] <= posted'[n]
          /\ posted'[n] > 0 => call[n].pc # "idle" /\ call[n].txn_id \in known'
    BY <1>t, <2>1, <2>2, <2>3 DEF AtMostOnce, PostedIsKnown
  <2>5. ASSUME NEW k \in known
        PROVE  \E n \in Messages :
                 posted'[n] = 1 /\ call[n].pc # "idle" /\ call[n].txn_id = k
    <3>1. PICK n \in Messages : posted[n] = 1 /\ call[n].pc # "idle" /\ call[n].txn_id = k
      BY <1>t DEF KnownIsPosted
    <3> QED BY <2>2, <2>3, <3>1
  <2> QED BY <1>t, <2>1, <2>3, <2>4, <2>5
<1> QED BY <1>1, <1>2

(* A call that goes on keeps its txn_id and does not become idle again, so *)
(* all that is said of the homeserver stays true of it.                    *)
LEMMA CallStep ==
  ASSUME IInv, NEW m \in Messages, call[m].pc # "idle",
         \/ Take(m)
         \/ UNCHANGED <<known, posted>>,
         NEW pc \in PC \ {"idle"}, NEW p \in 0 .. MaxFaults,
         call' = [call EXCEPT ![m].pc = pc, ![m].pauses = p],
         p <= faults', faults <= faults', faults' \in 0 .. MaxFaults,
         late' \subseteq late \cup {m}, clock' \in 0 .. MaxClock,
         broken' \subseteq broken \cup {m},
         pc = "ok" => Take(m)
  PROVE  IInv'
<1>t. TypeOK /\ call \in [Messages -> Calls]
  BY DEF IInv, TypeOK, Calls
<1>1. [call[m] EXCEPT !.pc = pc, !.pauses = p] \in Calls
      /\ [call[m] EXCEPT !.pc = pc, !.pauses = p].pc = pc
      /\ [call[m] EXCEPT !.pc = pc, !.pauses = p].pauses = p
      /\ [call[m] EXCEPT !.pc = pc, !.pauses = p].txn_id = call[m].txn_id
  BY <1>t DEF Calls
<1>2. call' = [call EXCEPT ![m] = [call[m] EXCEPT !.pc = pc, !.pauses = p]]
  BY <1>t
<1>3. call' \in [Messages -> Calls] /\ call'[m].pc = pc /\ call'[m].pauses = p
      /\ call'[m].txn_id = call[m].txn_id /\ \A n \in Messages \ {m} : call'[n] = call[n]
  BY <1>t, <1>1, <1>2
<1>4. /\ known' \subseteq 0 .. MaxClock /\ known \subseteq known'
      /\ posted' \in [Messages -> Nat]
      /\ \A n \in Messages :
           /\ posted'[n] <= 1
           /\ posted'[n] > 0 => call[n].pc # "idle" /\ call[n].txn_id \in known'
      /\ \A id \in known' : \E n \in Messages :
           posted'[n] = 1 /\ call[n].pc # "idle" /\ call[n].txn_id = id
  <2>1. CASE Take(m)
    BY <2>1, TakeKeeps
  <2>2. CASE UNCHANGED <<known, posted>>
    BY <2>2 DEF IInv, TypeOK, AtMostOnce, PostedIsKnown, KnownIsPosted
  <2> QED BY <2>1, <2>2
<1>5. TypeOK'
  BY <1>t, <1>3, <1>4 DEF TypeOK, Calls
<1>6. PausesAreFaults'
  BY <1>t, <1>3, ConstantsAssumption DEF IInv, PausesAreFaults, TypeOK
<1>7. AtMostOnce' /\ PostedIsKnown' /\ KnownIsPosted'
  BY <1>3, <1>4 DEF IInv, AtMostOnce, PostedIsKnown, KnownIsPosted
<1>8. OkIsKnown'
  BY <1>3, <1>4, TakeKeeps DEF IInv, OkIsKnown
<1> QED BY <1>5, <1>6, <1>7, <1>8 DEF IInv

(* A failed attempt is such a step, whenever the homeserver acts on it. *)
LEMMA FaultStep ==
  ASSUME IInv, NEW m \in Messages, call[m].pc = "attempt", Fault(m),
         NEW pc \in {"sleep", "raised"}, NEW p \in 0 .. MaxFaults,
         p \in {call[m].pauses, call[m].pauses + 1},
         call' = [call EXCEPT ![m].pc = pc, ![m].pauses = p],
         clock' = clock, broken' \subseteq broken \cup {m}
  PROVE  IInv'
<1>1. /\ faults' = faults + 1 /\ faults' \in 0 .. MaxFaults /\ faults \in 0 .. MaxFaults
      /\ Take(m) \/ UNCHANGED <<known, posted>>
      /\ late' \subseteq late \cup {m}
      /\ clock \in 0 .. MaxClock
  BY ConstantsAssumption DEF Fault, IInv, TypeOK
<1>2. call[m].pauses <= faults /\ call[m].pauses \in Nat
  BY DEF IInv, PausesAreFaults, TypeOK
<1>3. p <= faults' /\ faults <= faults'
  BY <1>1, <1>2
<1> QED BY <1>1, <1>3, CallStep DEF PC

(* One step of the calls, the network and the homeserver. *)
LEMMA InvStep == IInv /\ [Next]_vars => IInv'
<1> SUFFICES ASSUME IInv, [Next]_vars PROVE IInv'
  OBVIOUS
<1>t. TypeOK /\ call \in [Messages -> Calls] /\ PausesAreFaults
  BY DEF IInv, TypeOK, Calls
<1>1. ASSUME NEW m \in Messages, SendMessage(m) PROVE IInv'
  <2> DEFINE begun == [call[m] EXCEPT !.pc = "attempt", !.txn_id = clock]
  <2>1. begun \in Calls /\ begun.pc = "attempt" /\ begun.pauses = call[m].pauses
    BY <1>t DEF Calls, PC, TypeOK
  <2>2. call[m].pc = "idle" /\ call' = [call EXCEPT ![m] = begun]
        /\ UNCHANGED <<clock, late, known, posted, faults, broken>>
    BY <1>1, <1>t DEF SendMessage, Stamp
  <2> HIDE DEF begun
  <2>3. call' \in [Messages -> Calls] /\ call'[m] = begun
        /\ \A n \in Messages \ {m} : call'[n] = call[n]
    BY <1>t, <2>1, <2>2
  <2>4. posted[m] = 0
    BY <2>2, <1>t DEF IInv, PostedIsKnown, TypeOK
  <2>5. TypeOK'
    BY <1>t, <2>2, <2>3 DEF TypeOK, Calls
  <2>6. PausesAreFaults' /\ AtMostOnce' /\ PostedIsKnown' /\ OkIsKnown'
    BY <2>1, <2>2, <2>3, <2>4
       DEF IInv, PausesAreFaults, AtMostOnce, PostedIsKnown, OkIsKnown
  <2>7. KnownIsPosted'
    BY <2>2, <2>3, <2>4 DEF IInv, KnownIsPosted
  <2> QED BY <2>5, <2>6, <2>7 DEF IInv
<1>p. \A m \in Messages : call[m].pauses \in 0 .. MaxFaults /\ call[m].pauses <= faults
  BY <1>t DEF Calls, PausesAreFaults
<1>f. faults \in 0 .. MaxFaults /\ faults <= faults /\ clock \in 0 .. MaxClock
  BY <1>t, ConstantsAssumption DEF TypeOK
<1>2. ASSUME NEW m \in Messages, Answered200(m) PROVE IInv'
  <2>1. call' = [call EXCEPT ![m].pc = "ok", ![m].pauses = call[m].pauses]
    BY <1>2, <1>t DEF Answered200, Goto, Calls
  <2>2. call[m].pc # "idle" /\ Take(m) /\ UNCHANGED <<clock, late, faults, broken>>
    BY <1>2 DEF Answered200
  <2> QED BY <1>p, <1>f, <2>1, <2>2, CallStep DEF PC
<1>3. ASSUME NEW m \in Messages, Repeatable(m) PROVE IInv'
  <2>1. call' = [call EXCEPT ![m].pc = "sleep", ![m].pauses = call[m].pauses + 1]
    BY <1>3, <1>t DEF Repeatable, Pause, Calls
  <2>2. call[m].pauses + 1 \in 0 .. MaxFaults
    BY <1>3, <1>t, ConstantsAssumption DEF Repeatable, Fault, PausesAreFaults, TypeOK
  <2> QED BY <1>3, <2>1, <2>2, FaultStep DEF Repeatable
<1>4. ASSUME NEW m \in Messages, Raises(m) PROVE IInv'
  <2>1. call' = [call EXCEPT ![m].pc = "raised", ![m].pauses = call[m].pauses]
    BY <1>4, <1>t DEF Raises, Goto, Calls
  <2> QED BY <1>4, <1>t, <2>1, FaultStep DEF Raises, Calls
<1>5. ASSUME NEW m \in Messages, Repeat(m) PROVE IInv'
  <2>1. call' = [call EXCEPT ![m].pc = "attempt", ![m].pauses = call[m].pauses]
    BY <1>5, <1>t DEF Repeat, Goto, Calls
  <2>2. call[m].pc # "idle" /\ UNCHANGED <<clock, late, known, posted, faults, broken>>
    BY <1>5 DEF Repeat
  <2>3. UNCHANGED <<known, posted>> /\ late' \subseteq late \cup {m}
        /\ faults' = faults /\ clock' = clock /\ broken' \subseteq broken \cup {m}
        /\ "attempt" \in PC \ {"idle"} /\ "attempt" # "ok"
    BY <2>2 DEF PC
  <2> QED BY <1>p, <1>f, <2>1, <2>2, <2>3, CallStep
<1>6. ASSUME NEW m \in Messages, TakeLate(m) PROVE IInv'
  <2>1. call[m].pc # "idle" /\ Take(m)
    BY <1>6 DEF TakeLate, IInv, PostedIsKnown
  <2>2. /\ known' \subseteq 0 .. MaxClock /\ known \subseteq known'
        /\ posted' \in [Messages -> Nat]
        /\ \A n \in Messages :
             /\ posted'[n] <= 1
             /\ posted'[n] > 0 => call[n].pc # "idle" /\ call[n].txn_id \in known'
        /\ \A id \in known' : \E n \in Messages :
             posted'[n] = 1 /\ call[n].pc # "idle" /\ call[n].txn_id = id
    BY <2>1, TakeKeeps
  <2>3. late' \subseteq late /\ UNCHANGED <<clock, call, faults, broken>>
    BY <1>6 DEF TakeLate
  <2> QED BY <2>2, <2>3
          DEF IInv, TypeOK, PausesAreFaults, AtMostOnce, PostedIsKnown, KnownIsPosted, OkIsKnown
<1>7. CASE Tick
  BY <1>7 DEF Tick, IInv, TypeOK, PausesAreFaults, AtMostOnce, PostedIsKnown,
              KnownIsPosted, OkIsKnown
<1>8. CASE UNCHANGED vars
  BY <1>8 DEF vars, IInv, TypeOK, PausesAreFaults, AtMostOnce, PostedIsKnown,
              KnownIsPosted, OkIsKnown
<1> QED BY <1>1, <1>2, <1>3, <1>4, <1>5, <1>6, <1>7, <1>8 DEF Next, Go

(* Every reachable state satisfies IInv. *)
THEOREM InductiveInvariant == Spec => []IInv
BY InitInv, InvStep, PTL DEF Spec

-----------------------------------------------------------------------------
(* The calls keep their types: no call pauses more often than attempts can *)
(* fail.                                                                   *)
THEOREM TypeCorrect == Spec => []TypeOK
<1>1. IInv => TypeOK
  BY DEF IInv
<1> QED BY <1>1, InductiveInvariant, PTL

(* client_attempt may repeat a send_message as often as it likes: the      *)
(* message is never in the room twice.                                     *)
THEOREM NeverTwice == Spec => []AtMostOnce
<1>1. IInv => AtMostOnce
  BY DEF IInv
<1> QED BY <1>1, InductiveInvariant, PTL

(* A message is lost behind a send_message that returned only to one that  *)
(* was stamped at the same reading of the clock.                           *)
THEOREM OnlyTwinsLose == Spec => []LostToTwinOnly
<1>1. IInv => LostToTwinOnly
  <2> SUFFICES ASSUME IInv, NEW m \in Messages, call[m].pc = "ok", posted[m] # 1
               PROVE  \E n \in Messages \ {m} :
                        posted[n] = 1 /\ call[n].txn_id = call[m].txn_id
    BY DEF LostToTwinOnly
  <2>1. PICK n \in Messages : posted[n] = 1 /\ call[n].txn_id = call[m].txn_id
    BY DEF IInv, OkIsKnown, KnownIsPosted
  <2> QED BY <2>1
<1> QED BY <1>1, InductiveInvariant, PTL
=============================================================================
