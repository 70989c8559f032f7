------------------------- MODULE RoomMessagesProofs -------------------------
(***************************************************************************)
(* Proofs about RoomMessages: for any number of messages, pushes and       *)
(* requests at work nothing the identity user writes is lost or overtaken, *)
(* whatever fails, a message that cannot be handled blocks the queue, and  *)
(* the bridge implements MessageRelay.                                     *)
(***************************************************************************)
EXTENDS RoomMessages, TLAPS

Runs == [pc : {"idle", "handle", "radio", "report"},
         at : 1 .. MaxMessages + 1, end : 0 .. MaxMessages]

AtWork(h) == run[h].pc # "idle"

(* A request at work is inside its transaction, which is in the log, and   *)
(* on a message of the identity user once it is at the radio.              *)
RunsInside ==
  \A h \in Handlers : AtWork(h) =>
    /\ run[h].end <= Len(log) /\ run[h].at <= run[h].end + 1
    /\ run[h].pc \in {"radio", "report"} =>
         run[h].at <= run[h].end /\ Own(run[h].at)

(* The transaction being pushed is not acknowledged, and the request that  *)
(* is waited for is one of it and has met no broken message.               *)
AskedIsCurrent ==
  /\ txn # 0 => acked < txn
  /\ asked # None =>
       /\ AtWork(asked) /\ run[asked].end = txn /\ acked < txn
       /\ \A k \in acked + 1 .. run[asked].at - 1 : log[k] # "broken"

Strict == dev_enable_send /\ ~ dev_soft_fail

(* Behind every request, waited for or given up, all is settled. *)
SettledBehind ==
  Strict => \A h \in Handlers : AtWork(h) =>
              \A k \in 1 .. run[h].at - 1 : Own(k) => Settled(k)

OnAirIsWritten == \A k \in OnAir : k \in 1 .. Len(log)

SilentIfDisabled == ~ dev_enable_send => sent = <<>>

IInv ==
  /\ TypeOK /\ RunsInside /\ AskedIsCurrent
  /\ SettledBehind /\ NoneLost
  /\ OnAirIsWritten /\ SilentIfDisabled /\ NoneOvertakes

-----------------------------------------------------------------------------
(* What is on air once one more message is. *)
LEMMA OnAirAppend ==
  ASSUME sent \in Seq(Numbers), NEW k \in Numbers, sent' = Append(sent, k)
  PROVE  sent' \in Seq(Numbers) /\ OnAir' = OnAir \cup {k}
<1>1. Len(sent') = Len(sent) + 1 /\ sent'[Len(sent) + 1] = k
      /\ \A i \in 1 .. Len(sent) : sent'[i] = sent[i]
  OBVIOUS
<1>2. /\ sent' \in Seq(Numbers)
      /\ DOMAIN sent = 1 .. Len(sent) /\ DOMAIN sent' = 1 .. Len(sent')
  OBVIOUS
<1> QED BY <1>1, <1>2 DEF OnAir, ToSet

(* A request that moves inside its transaction leaves the others alone. *)
LEMMA MoveType ==
  ASSUME TypeOK, NEW h \in Handlers,
         NEW pc \in {"idle", "handle", "radio", "report"}, NEW a \in 1 .. MaxMessages + 1,
         run' = [run EXCEPT ![h].pc = pc, ![h].at = a]
  PROVE  /\ run' \in [Handlers -> Runs]
         /\ run'[h].pc = pc /\ run'[h].at = a /\ run'[h].end = run[h].end
         /\ \A g \in Handlers \ {h} : run'[g] = run[g]
<1> DEFINE moved == [run[h] EXCEPT !.pc = pc, !.at = a]
<1>1. run \in [Handlers -> Runs] /\ run[h] \in Runs
  BY DEF TypeOK, Runs
<1>2. moved \in Runs /\ moved.pc = pc /\ moved.at = a /\ moved.end = run[h].end
  BY <1>1 DEF Runs
<1>3. run' = [run EXCEPT ![h] = moved]
  BY <1>1
<1> HIDE DEF moved
<1> QED BY <1>1, <1>2, <1>3

(* Initially nothing is written and nobody at work. *)
LEMMA InitInv == Init => IInv
<1> SUFFICES ASSUME Init PROVE IInv
  OBVIOUS
<1>1. /\ log = <<>> /\ Len(log) = 0 /\ log \in Seq(Kinds)
      /\ sent = <<>> /\ sent \in Seq(Numbers) /\ OnAir = {}
      /\ acked = 0 /\ txn = 0 /\ asked = None /\ reported = {}
  BY DEF Init, DeliveryInit, OnAir, ToSet
<1>2. AtRest \in Runs /\ run \in [Handlers -> Runs] /\ \A h \in Handlers : ~ AtWork(h)
  BY ConstantsAssumption, TransactionsAssumption DEF Init, DeliveryInit, Runs, AtRest, AtWork
<1>3. TypeOK
  BY <1>1, <1>2, ConstantsAssumption, TransactionsAssumption DEF Init, DeliveryInit, TypeOK, Runs
<1>4. RunsInside /\ AskedIsCurrent /\ SettledBehind
      /\ OnAirIsWritten /\ SilentIfDisabled /\ NoneOvertakes
  BY <1>1, <1>2
     DEF RunsInside, AskedIsCurrent, SettledBehind, OnAirIsWritten, SilentIfDisabled,
         NoneOvertakes
<1>5. NoneLost
  BY <1>1 DEF NoneLost
<1> QED BY <1>3, <1>4, <1>5 DEF IInv

-----------------------------------------------------------------------------
(* The inductive step.                                                     *)

(* A request goes on: to the next message, when the one it is on could be  *)
(* handled and is settled, or to another await of the same.                *)
LEMMA MoveStep ==
  ASSUME IInv, NEW h \in Handlers, AtWork(h),
         NEW pc \in {"handle", "radio", "report"}, NEW a \in {run[h].at, run[h].at + 1},
         run' = [run EXCEPT ![h].pc = pc, ![h].at = a],
         run[h].at <= run[h].end, log[run[h].at] # "broken",
         pc # "handle" => a = run[h].at /\ Own(a),
         NEW m, m = run[h].at, Strict /\ a = m + 1 /\ Own(m) => Settled(m)',
         OnAir \subseteq OnAir', reported \subseteq reported',
         UNCHANGED <<log, acked, txn, asked>>
  PROVE  /\ run' \in [Handlers -> Runs]
         /\ RunsInside' /\ AskedIsCurrent' /\ SettledBehind' /\ NoneLost'
<1>t. /\ TypeOK /\ acked \in Nat /\ txn \in Nat /\ Len(log) \in Nat
      /\ run[h].at \in Nat /\ run[h].end \in Nat /\ MaxMessages \in Nat
      /\ run[h].end <= Len(log) /\ Len(log) <= MaxMessages
  BY ConstantsAssumption, TransactionsAssumption DEF IInv, TypeOK, RunsInside
<1>1. a \in 1 .. MaxMessages + 1
  BY <1>t DEF TypeOK
<1>2. /\ run' \in [Handlers -> Runs]
      /\ run'[h].pc = pc /\ run'[h].at = a /\ run'[h].end = run[h].end
      /\ \A g \in Handlers \ {h} : run'[g] = run[g]
  <2>1. pc \in {"idle", "handle", "radio", "report"}
    OBVIOUS
  <2> QED BY <1>t, <1>1, <2>1, MoveType
<1>3. \A k : Settled(k) => Settled(k)'
  BY DEF Settled
<1>4. \A k : Own(k)' = Own(k)
  BY DEF Own
<1>5. RunsInside'
  BY <1>t, <1>2, <1>4 DEF IInv, RunsInside, AtWork
<1>6. AskedIsCurrent'
  <2>1. CASE asked = h
    BY <1>t, <1>2, <2>1 DEF IInv, AskedIsCurrent, AtWork
  <2>2. CASE asked # h
    BY <1>t, <1>2, <2>2 DEF IInv, AskedIsCurrent, AtWork, TypeOK
  <2> QED BY <2>1, <2>2
<1>7. SettledBehind'
  <2> SUFFICES ASSUME Strict, NEW g \in Handlers, AtWork(g)', NEW k \in 1 .. run'[g].at - 1,
                      Own(k)'
               PROVE  Settled(k)'
    BY DEF SettledBehind
  <2>1. CASE g # h
    BY <1>2, <1>3, <1>4, <2>1 DEF IInv, SettledBehind, AtWork
  <2>2. CASE g = h /\ k < run[h].at
    BY <1>t, <1>3, <1>4, <2>2 DEF IInv, SettledBehind
  <2>3. CASE g = h /\ ~ (k < run[h].at)
    <3>1. k = run[h].at /\ a = run[h].at + 1
      BY <1>t, <1>2, <2>3
    <3>2. k = m /\ Own(m)
      BY <1>4, <3>1
    <3> QED BY <3>1, <3>2
  <2> QED BY <2>1, <2>2, <2>3
<1>8. NoneLost'
  BY <1>3, <1>4 DEF IInv, NoneLost
<1> QED BY <1>2, <1>5, <1>6, <1>7, <1>8

(* A request ends.  Its answer acknowledges the transaction only if it is  *)
(* waited for, and then only if it got to the end or errors are excused.   *)
LEMMA EndStep ==
  ASSUME IInv, NEW h \in Handlers, AtWork(h), NEW ok \in BOOLEAN,
         run' = [run EXCEPT ![h] = AtRest], Acknowledge(h, ok),
         ok => dev_soft_fail \/ run[h].at = run[h].end + 1,
         UNCHANGED <<log, sent, reported, pushes>>
  PROVE  /\ IInv'
         /\ ~ dev_soft_fail => \A k \in acked + 1 .. Len(log) : log[k] = "broken" => acked' < k
<1>t. TypeOK /\ acked \in Nat /\ txn \in Nat /\ Len(log) \in Nat /\ txn <= Len(log)
      /\ run \in [Handlers -> Runs]
  BY DEF IInv, TypeOK, Runs
<1>1. AtRest \in Runs /\ AtRest.pc = "idle"
  BY ConstantsAssumption, TransactionsAssumption DEF AtRest, Runs
<1>2. /\ run' \in [Handlers -> Runs] /\ ~ AtWork(h)'
      /\ \A g \in Handlers \ {h} : run'[g] = run[g]
  BY <1>t, <1>1 DEF AtWork
<1>3. \A k : Own(k)' = Own(k) /\ Settled(k)' = Settled(k)
  BY DEF Own, Settled, OnAir
<1>4. RunsInside' /\ SettledBehind'
      /\ OnAirIsWritten' /\ SilentIfDisabled' /\ NoneOvertakes'
  BY <1>2, <1>3
     DEF IInv, RunsInside, SettledBehind, OnAirIsWritten, SilentIfDisabled, NoneOvertakes,
         AtWork, OnAir
<1>5. CASE asked = h /\ ok
  <2>1. asked' = None /\ acked' = txn /\ txn' = 0 /\ acked < txn /\ run[h].end = txn
    BY <1>5, ConstantsAssumption, TransactionsAssumption DEF Acknowledge, IInv, AskedIsCurrent
  <2>2. TypeOK'
    BY <1>t, <1>2, <2>1 DEF TypeOK, Runs
  <2>3. AskedIsCurrent'
    BY <2>1 DEF AskedIsCurrent
  <2>4. NoneLost'
    BY <1>t, <1>3, <1>5, <2>1 DEF IInv, NoneLost, SettledBehind, Strict
  <2>5. ASSUME ~ dev_soft_fail, NEW k \in acked + 1 .. Len(log), log[k] = "broken"
        PROVE  acked' < k
    BY <1>t, <1>5, <2>1, <2>5, ConstantsAssumption, TransactionsAssumption DEF IInv, AskedIsCurrent
  <2> QED BY <1>4, <2>2, <2>3, <2>4, <2>5 DEF IInv
<1>6. CASE ~ (asked = h /\ ok)
  <2>1. acked' = acked /\ txn' = txn /\ asked' \in {asked, None} /\ asked' # h
    BY <1>6, ConstantsAssumption, TransactionsAssumption DEF Acknowledge
  <2>2. TypeOK'
    BY <1>t, <1>2, <2>1 DEF TypeOK, Runs
  <2>3. AskedIsCurrent'
    BY <1>2, <2>1 DEF IInv, AskedIsCurrent, TypeOK, AtWork
  <2>4. NoneLost'
    BY <1>3, <2>1 DEF IInv, NoneLost
  <2> QED BY <1>t, <1>4, <2>1, <2>2, <2>3, <2>4 DEF IInv
<1> QED BY <1>5, <1>6

(* One step of the homeserver, the bridge or the radio. *)
LEMMA InvStep ==
  IInv /\ [Next]_vars =>
    /\ IInv'
    /\ ~ dev_soft_fail => \A k \in acked + 1 .. Len(log) : log[k] = "broken" => acked' < k
<1> DEFINE Blocked == ~ dev_soft_fail =>
                        \A k \in acked + 1 .. Len(log) : log[k] = "broken" => acked' < k
<1> SUFFICES ASSUME IInv, [Next]_vars PROVE IInv' /\ Blocked
  OBVIOUS
<1>t. /\ TypeOK /\ acked \in Nat /\ txn \in Nat /\ Len(log) \in Nat /\ MaxMessages \in Nat
      /\ run \in [Handlers -> Runs]
  BY ConstantsAssumption, TransactionsAssumption DEF IInv, TypeOK, Runs
<1>b. acked' = acked => Blocked
  BY <1>t
<1>i. AtRest \in Runs /\ AtRest.pc = "idle"
  BY ConstantsAssumption, TransactionsAssumption DEF AtRest, Runs
<1> HIDE DEF Blocked
<1>1. ASSUME NEW kind \in Kinds, UserPosts(kind) PROVE IInv' /\ Blocked
  <2>1. /\ log' \in Seq(Kinds) /\ Len(log') = Len(log) + 1 /\ Len(log') <= MaxMessages
        /\ \A k \in 1 .. Len(log) : log'[k] = log[k]
        /\ UNCHANGED <<acked, txn, asked, run, sent, reported, pushes>>
    BY <1>1, <1>t DEF UserPosts, delivery, TypeOK
  <2>2. TypeOK'
    BY <1>t, <2>1 DEF TypeOK
  <2>3. /\ \A k \in 1 .. Len(log) : Own(k)' = Own(k)
        /\ \A k : Settled(k)' = Settled(k)
        /\ OnAir' = OnAir /\ \A h \in Handlers : AtWork(h)' = AtWork(h)
    BY <2>1 DEF Own, Settled, OnAir, AtWork
  <2>4. RunsInside' /\ SilentIfDisabled'
    BY <1>t, <2>1, <2>3 DEF IInv, RunsInside, SilentIfDisabled, AtWork, Runs
  <2>5. AskedIsCurrent'
    <3>1. CASE asked # None
      <4>1. asked \in Handlers /\ AtWork(asked)
            /\ run[asked].at \in Nat /\ run[asked].at - 1 <= Len(log)
        BY <1>t, <3>1 DEF IInv, AskedIsCurrent, RunsInside, TypeOK, Runs
      <4>2. \A k \in acked + 1 .. run[asked].at - 1 : k \in 1 .. Len(log) /\ log[k] # "broken"
        BY <1>t, <3>1, <4>1 DEF IInv, AskedIsCurrent
      <4> QED BY <2>1, <2>3, <3>1, <4>1, <4>2 DEF IInv, AskedIsCurrent, AtWork
    <3>2. CASE asked = None
      BY <2>1, <3>2 DEF IInv, AskedIsCurrent
    <3> QED BY <3>1, <3>2
  <2>6. SettledBehind'
    <3> SUFFICES ASSUME Strict, NEW h \in Handlers, AtWork(h), NEW k \in 1 .. run[h].at - 1,
                        Own(k)'
                 PROVE  Settled(k)
      BY <2>1, <2>3 DEF SettledBehind
    <3>1. k \in 1 .. Len(log)
      BY <1>t DEF IInv, RunsInside, Runs
    <3> QED BY <2>3, <3>1 DEF IInv, SettledBehind
  <2>7. NoneLost'
    <3>1. acked' = acked /\ \A k \in 1 .. acked : k \in 1 .. Len(log)
      BY <1>t, <2>1 DEF TypeOK
    <3>2. \A k \in 1 .. acked : Own(k)' = Own(k) /\ Settled(k)' = Settled(k)
      BY <2>3, <3>1
    <3> QED BY <3>1, <3>2 DEF IInv, NoneLost
  <2>8. NoneOvertakes'
    <3>1. \A k \in OnAir : \A j \in 1 .. k - 1 : j \in 1 .. Len(log)
      BY <1>t DEF IInv, OnAirIsWritten
    <3>2. \A k \in OnAir : \A j \in 1 .. k - 1 :
            Own(j)' = Own(j) /\ Settled(j)' = Settled(j)
      BY <2>3, <3>1
    <3> QED BY <2>3, <3>2 DEF IInv, NoneOvertakes
  <2>9. OnAirIsWritten'
    BY <1>t, <2>1, <2>3 DEF IInv, OnAirIsWritten
  <2> QED BY <1>b, <2>1, <2>2, <2>4, <2>5, <2>6, <2>7, <2>8, <2>9 DEF IInv
<1>2. CASE Push
  <2>1. PICK h \in Handlers :
          /\ run[h].pc = "idle" /\ asked' = h
          /\ run' = [run EXCEPT ![h] = [pc |-> "handle", at |-> acked + 1, end |-> txn']]
    BY <1>2 DEF Push, PushUpTo
  <2>2. /\ txn' \in acked + 1 .. Len(log) /\ acked < Len(log) /\ Len(log) <= MaxMessages
        /\ txn # 0 => txn' = txn
        /\ asked = None /\ UNCHANGED <<log, acked, sent, reported>>
    BY <1>2, <1>t DEF Push, PushUpTo, IInv, AskedIsCurrent, TypeOK
  <2> DEFINE new == [pc |-> "handle", at |-> acked + 1, end |-> txn']
  <2>3. new \in Runs
    BY <1>t, <2>2 DEF Runs
  <2>4. /\ run' \in [Handlers -> Runs] /\ run'[h].pc = "handle" /\ run'[h].at = acked + 1
        /\ run'[h].end = txn' /\ \A g \in Handlers \ {h} : run'[g] = run[g]
    BY <1>t, <2>1, <2>3
  <2>5. pushes' \in [Numbers -> Nat]
    BY <1>2, <1>t DEF Push, PushUpTo, TypeOK
  <2>6. TypeOK'
    BY <1>t, <2>1, <2>2, <2>4, <2>5 DEF TypeOK, Runs
  <2>9. /\ \A k : Own(k)' = Own(k) /\ Settled(k)' = Settled(k)
        /\ OnAir' = OnAir
    BY <2>2 DEF Own, Settled, OnAir
  <2>7. RunsInside'
    BY <1>t, <2>2, <2>4, <2>9 DEF IInv, RunsInside, AtWork
  <2>8. AskedIsCurrent'
    BY <1>t, <2>1, <2>2, <2>4 DEF AskedIsCurrent, AtWork
  <2>10. SettledBehind'
    BY <1>t, <2>2, <2>4, <2>9 DEF IInv, SettledBehind, NoneLost, Strict, AtWork
  <2>11. NoneLost' /\ NoneOvertakes' /\ OnAirIsWritten' /\ SilentIfDisabled'
    BY <2>2, <2>9 DEF IInv, NoneLost, NoneOvertakes, OnAirIsWritten, SilentIfDisabled
  <2> QED BY <1>b, <2>2, <2>6, <2>7, <2>8, <2>10, <2>11 DEF IInv
<1>3. CASE GiveUp \/ Restart
  <2>1. /\ asked' = None /\ UNCHANGED <<log, acked, txn, sent, reported, pushes>>
        /\ run' = run \/ run' = [h \in Handlers |-> AtRest]
    BY <1>3 DEF GiveUp, Restart, StopWaiting, ForgetRuns
  <2>2. /\ run' \in [Handlers -> Runs]
        /\ \A h \in Handlers : AtWork(h)' => AtWork(h) /\ run'[h] = run[h]
    BY <1>t, <1>i, <2>1 DEF AtWork
  <2>3. TypeOK'
    BY <1>t, <2>1, <2>2 DEF TypeOK, Runs
  <2>4. /\ \A k : Own(k)' = Own(k) /\ Settled(k)' = Settled(k)
        /\ OnAir' = OnAir
    BY <2>1 DEF Own, Settled, OnAir
  <2>5. RunsInside' /\ AskedIsCurrent' /\ SilentIfDisabled'
    BY <2>1, <2>2, <2>4 DEF IInv, RunsInside, AskedIsCurrent, SilentIfDisabled
  <2>6. SettledBehind' /\ NoneLost' /\ NoneOvertakes' /\ OnAirIsWritten'
    BY <2>1, <2>2, <2>4 DEF IInv, SettledBehind, NoneLost, NoneOvertakes, OnAirIsWritten
  <2> QED BY <1>b, <2>1, <2>3, <2>5, <2>6 DEF IInv
<1>4. ASSUME NEW h \in Handlers, HandleMessage(h) PROVE IInv' /\ Blocked
  <2>1. AtWork(h) /\ run[h].at \in Nat /\ run[h].at <= run[h].end
        /\ UNCHANGED <<log, sent, reported, pushes>>
    BY <1>4, <1>t DEF HandleMessage, HasNext, AtWork, Runs
  <2>2. CASE Abort(h)
    BY <2>1, <2>2, EndStep, ConstantsAssumption, TransactionsAssumption DEF Abort, ErrorIsOk, Blocked
  <2>3. CASE ~ Abort(h)
    <3> DEFINE m == run[h].at
    <3>1. /\ log[m] # "broken" /\ UNCHANGED <<asked, acked, txn>>
          /\ \/ Own(m) /\ (Goto(h, "radio") \/ Goto(h, "report"))
             \/ ~ Own(m) /\ NextEvent(h)
      BY <1>4, <2>3 DEF HandleMessage, HasNext, IsSent, Own
    <3>2. PICK pc \in {"handle", "radio", "report"}, a \in {m, m + 1} :
            /\ run' = [run EXCEPT ![h].pc = pc, ![h].at = a]
            /\ pc # "handle" => a = m /\ Own(m)
            /\ a = m + 1 => ~ Own(m)
      <4>1. CASE NextEvent(h) /\ ~ Own(m)
        BY <1>t, <4>1 DEF NextEvent
      <4>2. ASSUME NEW pc \in {"radio", "report"}, Goto(h, pc)
            PROVE  run' = [run EXCEPT ![h].pc = pc, ![h].at = m]
        BY <1>t, <4>2 DEF Goto, Runs
      <4> QED BY <2>1, <3>1, <4>1, <4>2
    <3>3. OnAir' = OnAir
      BY <2>1 DEF OnAir
    <3>4. /\ run' \in [Handlers -> Runs]
          /\ RunsInside' /\ AskedIsCurrent' /\ SettledBehind' /\ NoneLost'
      BY <2>1, <3>1, <3>2, <3>3, MoveStep
    <3>5. TypeOK' /\ SilentIfDisabled' /\ OnAirIsWritten'
      BY <1>t, <2>1, <3>1, <3>3, <3>4 DEF IInv, TypeOK, Runs, SilentIfDisabled, OnAirIsWritten
    <3>6. NoneOvertakes'
      BY <2>1, <3>3 DEF IInv, NoneOvertakes, Own, Settled
    <3> QED BY <1>b, <3>1, <3>4, <3>5, <3>6 DEF IInv
  <2> QED BY <2>2, <2>3
<1>5. ASSUME NEW h \in Handlers, Send(h) PROVE IInv' /\ Blocked
  <2> DEFINE m == run[h].at
  <2>1. /\ AtWork(h) /\ m <= run[h].end /\ log[m] # "broken" /\ m \in Numbers /\ Own(m)
        /\ run[h].pc = "radio" /\ UNCHANGED <<log, acked, txn, asked, reported, pushes>>
    BY <1>5, <1>t DEF Send, AtWork, IInv, RunsInside, Own, Runs, Numbers, TypeOK
  <2>2. PICK pc \in {"handle", "report"}, a \in {m, m + 1} :
          /\ run' = [run EXCEPT ![h].pc = pc, ![h].at = a]
          /\ pc # "handle" => a = m
          /\ a = m + 1 => Transmit(h)
          /\ Transmit(h) \/ UNCHANGED sent
    <3>1. CASE NextEvent(h) /\ Transmit(h)
      BY <1>t, <3>1 DEF NextEvent
    <3>2. CASE Goto(h, "report") /\ (Transmit(h) \/ UNCHANGED sent)
      <4>1. run' = [run EXCEPT ![h].pc = "report", ![h].at = m]
        BY <1>t, <3>2 DEF Goto, Runs
      <4>2. m # m + 1
        BY <2>1 DEF Numbers
      <4> QED BY <3>2, <4>1, <4>2
    <3> QED BY <1>5, <3>1, <3>2 DEF Send
  <2>3. /\ sent' \in Seq(Numbers) /\ OnAir \subseteq OnAir' /\ OnAir' \subseteq OnAir \cup {m}
        /\ Transmit(h) /\ dev_enable_send => m \in OnAir'
        /\ ~ dev_enable_send => sent' = sent
    <3>1. CASE sent' = Append(sent, m) /\ dev_enable_send
      BY <1>t, <2>1, <3>1, OnAirAppend DEF TypeOK
    <3>2. CASE sent' = sent /\ ~ (Transmit(h) /\ dev_enable_send)
      BY <1>t, <3>2 DEF OnAir, TypeOK
    <3>3. CASE sent' = sent /\ Transmit(h) /\ dev_enable_send
      BY <1>t, <3>1, <3>3 DEF Transmit, OnAir, TypeOK
    <3> QED BY <2>2, <3>1, <3>2, <3>3 DEF Transmit
  <2>4. ASSUME Strict, a = m + 1 PROVE \A k : k = m => Settled(k)'
    BY <2>2, <2>3, <2>4 DEF Strict, Settled
  <2>5. /\ run' \in [Handlers -> Runs]
        /\ RunsInside' /\ AskedIsCurrent' /\ SettledBehind' /\ NoneLost'
    BY <2>1, <2>2, <2>3, <2>4, MoveStep
  <2>6. TypeOK' /\ SilentIfDisabled'
    BY <1>t, <2>1, <2>3, <2>5 DEF IInv, TypeOK, Runs, SilentIfDisabled
  <2>8. OnAirIsWritten'
    BY <1>t, <2>1, <2>3 DEF IInv, OnAirIsWritten, RunsInside, Runs, Numbers
  <2>7. NoneOvertakes'
    <3> SUFFICES ASSUME ~ dev_soft_fail, NEW k \in OnAir', NEW j \in 1 .. k - 1, Own(j)'
                 PROVE  Settled(j)'
      BY DEF NoneOvertakes
    <3>1. Own(j) /\ (Settled(j) => Settled(j)')
      BY <2>1, <2>3 DEF Own, Settled
    <3>2. CASE k \in OnAir
      BY <3>1, <3>2 DEF IInv, NoneOvertakes
    <3>3. CASE k \notin OnAir
      <4>1. k = m /\ dev_enable_send
        BY <2>3, <3>3 DEF OnAir
      <4> QED BY <2>1, <3>1, <4>1 DEF IInv, SettledBehind, Strict
    <3> QED BY <3>2, <3>3
  <2> QED BY <1>b, <2>1, <2>5, <2>6, <2>7, <2>8 DEF IInv
<1>6. ASSUME NEW h \in Handlers, Report(h) PROVE IInv' /\ Blocked
  <2> DEFINE m == run[h].at
  <2>1. /\ AtWork(h) /\ m <= run[h].end /\ log[m] # "broken" /\ m \in Numbers
        /\ UNCHANGED <<log, sent, pushes>>
    <3>1. run[h].pc = "report" /\ UNCHANGED <<log, sent, pushes>>
      BY <1>6 DEF Report
    <3>2. AtWork(h) /\ m <= run[h].end /\ Own(m)
      BY <3>1 DEF AtWork, IInv, RunsInside
    <3>3. m \in Numbers
      BY <1>t, <3>2 DEF AtWork, IInv, RunsInside, Runs, Numbers, TypeOK
    <3> QED BY <3>1, <3>2, <3>3 DEF Own
  <2>2. CASE Abort(h) /\ UNCHANGED reported
    BY <2>1, <2>2, EndStep, ConstantsAssumption, TransactionsAssumption DEF Abort, ErrorIsOk, Blocked
  <2>3. CASE /\ reported' = reported \cup {m} /\ NextEvent(h)
             /\ UNCHANGED <<asked, acked, txn>>
    <3>1. run' = [run EXCEPT ![h].pc = "handle", ![h].at = m + 1]
      BY <1>t, <2>3 DEF NextEvent
    <3>2. OnAir' = OnAir /\ \A k : (Settled(k) => Settled(k)') /\ (k = m => Settled(k)')
      BY <2>1, <2>3 DEF OnAir, Settled
    <3>3. /\ run' \in [Handlers -> Runs]
          /\ RunsInside' /\ AskedIsCurrent' /\ SettledBehind' /\ NoneLost'
      BY <2>1, <2>3, <3>1, <3>2, MoveStep
    <3>4. TypeOK' /\ SilentIfDisabled' /\ OnAirIsWritten'
      BY <1>t, <2>1, <2>3, <3>2, <3>3 DEF IInv, TypeOK, Runs, SilentIfDisabled, OnAirIsWritten
    <3>5. NoneOvertakes'
      BY <2>1, <3>2 DEF IInv, NoneOvertakes, Own
    <3> QED BY <1>b, <2>3, <3>3, <3>4, <3>5 DEF IInv
  <2> QED BY <1>6, <2>2, <2>3 DEF Report
<1>7. ASSUME NEW h \in Handlers, Answer(h) PROVE IInv' /\ Blocked
  <2>1. AtWork(h) /\ run[h].at = run[h].end + 1
    BY <1>7, <1>t DEF Answer, Finish, AtWork, IInv, RunsInside, Runs
  <2> QED BY <1>7, <2>1, EndStep DEF Answer, Finish, Blocked
<1>8. CASE UNCHANGED vars
  <2>1. \A k : Own(k)' = Own(k) /\ Settled(k)' = Settled(k)
    BY <1>8 DEF vars, delivery, Own, Settled, OnAir
  <2>2. TypeOK' /\ RunsInside' /\ AskedIsCurrent' /\ SilentIfDisabled'
    BY <1>8, <2>1 DEF vars, delivery, IInv, TypeOK, RunsInside, AskedIsCurrent, SilentIfDisabled, AtWork
  <2>3. SettledBehind' /\ NoneLost' /\ NoneOvertakes' /\ OnAirIsWritten'
    BY <1>8, <2>1
       DEF vars, delivery, IInv, SettledBehind, NoneLost, NoneOvertakes, OnAirIsWritten, OnAir, AtWork
  <2> QED BY <1>8, <1>b, <2>2, <2>3 DEF vars, delivery, IInv
<1> QED BY <1>1, <1>2, <1>3, <1>4, <1>5, <1>6, <1>7, <1>8 DEF Next, Step

(* Every reachable state satisfies IInv. *)
THEOREM InductiveInvariant == Spec => []IInv
BY InitInv, InvStep, PTL DEF Spec

-----------------------------------------------------------------------------
(* The variables keep their types: no request leaves its transaction, and  *)
(* none is longer than the log.                                            *)
THEOREM TypeCorrect == Spec => []TypeOK
<1>1. IInv => TypeOK
  BY DEF IInv
<1> QED BY <1>1, InductiveInvariant, PTL

(* An acknowledged message of the identity user was put on air or answered *)
(* by a notice, whatever failed, timed out or was restarted.               *)
THEOREM NothingLost == Spec => []NoneLost
<1>1. IInv => NoneLost
  BY DEF IInv
<1> QED BY <1>1, InductiveInvariant, PTL

(* However requests of one transaction overlap, none puts a message on air *)
(* before the earlier ones are settled.                                    *)
THEOREM NothingOvertakes == Spec => []NoneOvertakes
<1>1. IInv => NoneOvertakes
  BY DEF IInv
<1> QED BY <1>1, InductiveInvariant, PTL

(* An event whose handler always raises is never acknowledged, nor          *)
(* is any behind it.                                                       *)
THEOREM BrokenMessagesBlock == Spec => BrokenBlocks
<1> DEFINE Blocking == \A k \in acked + 1 .. Len(log) :
                      log[k] = "broken" /\ ~ dev_soft_fail => acked' < k
<1>1. IInv /\ [Next]_vars => [Blocking]_vars
  BY InvStep
<1> QED BY <1>1, InductiveInvariant, PTL DEF Spec, BrokenBlocks

-----------------------------------------------------------------------------
(* The refinement.                                                         *)

(* The steps that put nothing new on air and report nothing. *)
LEMMA QuietStep ==
  ASSUME UNCHANGED <<log, sent, reported>>
  PROVE  UNCHANGED Relay!vars
<1>1. \A k : Own(k)' = Own(k)
  BY DEF Own
<1> QED BY <1>1 DEF Relay!vars

(* When a request is at the radio, or about to report, it is the turn of   *)
(* its message: the earlier ones are on air, reported, or not for it.      *)
LEMMA WorkerHasTurn ==
  ASSUME Strict, IInv, NEW h \in Handlers, run[h].pc \in {"radio", "report"}
  PROVE  run[h].at \in 1 .. Len(log) /\ Relay!HasTurn(run[h].at)
<1>1. AtWork(h) /\ run[h].at \in 1 .. Len(log)
  BY DEF IInv, TypeOK, RunsInside, AtWork
<1>2. ASSUME NEW k \in 1 .. run[h].at - 1 PROVE Relay!Passed(k)
  <2>1. k \in 1 .. Len(log) /\ (Own(k) => Settled(k))
    BY <1>1, <1>2 DEF IInv, SettledBehind, TypeOK
  <2>2. k \in OnAir => Relay!IsPosted(k)
    BY DEF OnAir, ToSet, IInv, TypeOK, Relay!IsPosted
  <2> QED BY <2>1, <2>2 DEF Settled, Relay!Passed
<1> QED BY <1>1, <1>2 DEF Relay!HasTurn

(* Each step is a step of the relay or none. *)
LEMMA RelayStep ==
  ASSUME Strict, IInv, [Next]_vars
  PROVE  [Relay!Next]_(Relay!vars)
<1>t. log \in Seq(Kinds) /\ Len(log) \in Nat /\ sent \in Seq(Numbers)
  BY DEF IInv, TypeOK
<1>p. \A k : Relay!IsPosted(k) <=> k \in OnAir
  BY <1>t DEF OnAir, ToSet, Relay!IsPosted
<1>1. ASSUME NEW kind \in Kinds, UserPosts(kind) PROVE Relay!Next
  <2>1. log' = Append(log, kind) /\ UNCHANGED <<sent, reported>>
    BY <1>1 DEF UserPosts
  <2>2. /\ Len(log') = Len(log) + 1 /\ log'[Len(log) + 1] = kind
        /\ \A k \in 1 .. Len(log) : log'[k] = log[k]
    BY <1>t, <2>1
  <2> DEFINE foreign == {k \in 1 .. Len(log) : ~ Own(k)}
  <2>3. \A k \in 1 .. Len(log) : Own(k)' = Own(k)
    BY <2>2 DEF Own
  <2>4. 1 .. Len(log') = 1 .. Len(log) \cup {Len(log) + 1}
    BY <1>t, <2>2
  <2>5. foreign' \in {foreign, foreign \cup {Len(log) + 1}}
    <3>1. CASE Own(Len(log) + 1)'
      BY <2>3, <2>4, <3>1
    <3>2. CASE ~ Own(Len(log) + 1)'
      BY <2>3, <2>4, <3>2
    <3> QED BY <3>1, <3>2
  <2>6. Relay!Receive
    BY <2>1, <2>2, <2>5 DEF Relay!Receive
  <2> QED BY <2>6 DEF Relay!Next
<1>2. CASE Push \/ GiveUp \/ Restart
  BY <1>2, QuietStep DEF Push, GiveUp, Restart
<1>3. ASSUME NEW h \in Handlers, HandleMessage(h) \/ Answer(h) PROVE UNCHANGED Relay!vars
  BY <1>3, QuietStep DEF HandleMessage, Answer
<1>4. ASSUME NEW h \in Handlers, Send(h) PROVE Relay!Next \/ UNCHANGED Relay!vars
  <2> DEFINE m == run[h].at
  <2>1. m \in 1 .. Len(log) /\ Relay!HasTurn(m)
    BY <1>4, WorkerHasTurn DEF Send
  <2>2. UNCHANGED <<log, reported>> /\ (sent' = sent \/ (m \notin OnAir /\ sent' = Append(sent, m)))
    BY <1>4 DEF Send, Transmit
  <2>3. UNCHANGED {k \in 1 .. Len(log) : ~ Own(k)}
    BY <2>2 DEF Own
  <2>4. CASE sent' = sent
    BY <2>2, <2>4, QuietStep
  <2>5. CASE m \notin OnAir /\ sent' = Append(sent, m) /\ m \in reported
    <3>1. Relay!Arrive(m)
      BY <1>p, <2>2, <2>3, <2>5 DEF Relay!Arrive
    <3> QED BY <2>1, <3>1 DEF Relay!Next
  <2>6. CASE m \notin OnAir /\ sent' = Append(sent, m) /\ m \notin reported
    <3>1. Own(m)
      BY <1>4 DEF Send, IInv, RunsInside, AtWork
    <3>2. Relay!Post(m)
      BY <1>p, <2>1, <2>2, <2>3, <2>6, <3>1 DEF Relay!Post, Relay!Passed
    <3> QED BY <2>1, <3>2 DEF Relay!Next
  <2> QED BY <2>2, <2>4, <2>5, <2>6
<1>5. ASSUME NEW h \in Handlers, Report(h) PROVE Relay!Next \/ UNCHANGED Relay!vars
  <2> DEFINE m == run[h].at
  <2>1. m \in 1 .. Len(log) /\ Relay!HasTurn(m)
    BY <1>5, WorkerHasTurn DEF Report
  <2>2. UNCHANGED <<log, sent>> /\ reported' \in {reported, reported \cup {m}}
    BY <1>5 DEF Report
  <2>3. UNCHANGED {k \in 1 .. Len(log) : ~ Own(k)}
    BY <2>2 DEF Own
  <2>4. CASE reported' = reported
    BY <2>2, <2>4, QuietStep
  <2>5. CASE reported' = reported \cup {m}
    <3>1. Relay!GiveUp(m)
      BY <2>1, <2>2, <2>3, <2>5 DEF Relay!GiveUp
    <3> QED BY <2>1, <3>1 DEF Relay!Next
  <2> QED BY <2>2, <2>4, <2>5
<1>6. CASE UNCHANGED vars
  BY <1>6, QuietStep DEF vars
<1> QED BY <1>1, <1>2, <1>3, <1>4, <1>5, <1>6 DEF Next, Step

(* The rooms' messages go to the radio as MessageRelay promises, each for  *)
(* the first time in its turn or after a notice said in its turn that it   *)
(* had failed: for any number of messages, repetitions and requests at     *)
(* work, whatever fails, if sending is enabled and errors are not excused. *)
THEOREM RoomsImplementRelay == Strict => (Spec => RelaySpec)
<1> SUFFICES ASSUME Strict PROVE Spec => RelaySpec
  OBVIOUS
<1>1. Init => Relay!Init
  BY DEF Init, Relay!Init
<1>2. IInv /\ [Next]_vars => [Relay!Next]_(Relay!vars)
  BY RelayStep
<1> QED BY <1>1, <1>2, InductiveInvariant, PTL DEF Spec, RelaySpec, Relay!Spec
=============================================================================
