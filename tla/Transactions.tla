---------------------------- MODULE Transactions ----------------------------
(***************************************************************************)
(* How the homeserver (external) pushes numbered events to the bridge and  *)
(* how MatrixChatterManager takes them (matrix/app.py, transactions and    *)
(* transactions_).  One transaction is pushed at a time, and repeated      *)
(* until a 200 comes.  A request the homeserver has given up is handled to *)
(* its end all the same, so several may be at work on the same or, later,  *)
(* on different transactions: nothing looks at the txn_id.                 *)
(*                                                                         *)
(* What the handler of an event does is said by the module that extends    *)
(* this one, in terms of run[h].at.                                        *)
(***************************************************************************)
EXTENDS Naturals

CONSTANTS
  Handlers,       \* bound: requests handled at once
  None,           \* no request is waited for
  dev_soft_fail   \* Config.dev_soft_fail: an error in a handler is answered 200

ASSUME TransactionsAssumption == None \notin Handlers /\ dev_soft_fail \in BOOLEAN

VARIABLES
  acked,   \* events 1 .. acked were pushed and answered with 200
  txn,     \* the last event of the transaction being pushed, 0 if none
  asked,   \* the request whose answer the homeserver waits for
  run      \* where each request is, its next event and its last one

delivery == <<acked, txn, asked, run>>

AtRest == [pc |-> "idle", at |-> 1, end |-> 0]

DeliveryInit ==
  acked = 0 /\ txn = 0 /\ asked = None /\ run = [h \in Handlers |-> AtRest]

-----------------------------------------------------------------------------
(* The homeserver                                                          *)

(* a transaction of the next events, or the one before once more *)
PushUpTo(last) ==
  /\ asked = None /\ acked < last
  /\ txn' \in IF txn = 0 THEN acked + 1 .. last ELSE {txn}
  /\ \E h \in Handlers :
       /\ run[h].pc = "idle"
       /\ run' = [run EXCEPT ![h] = [pc |-> "handle", at |-> acked + 1, end |-> txn']]
       /\ asked' = h
  /\ UNCHANGED acked

(* no answer in time, or the answer is lost *)
StopWaiting == asked # None /\ asked' = None /\ UNCHANGED <<acked, txn, run>>

(* a 200 to the one who still waits for it *)
Acknowledge(h, ok) ==
  IF asked = h
    THEN /\ asked' = None
         /\ IF ok THEN acked' = txn /\ txn' = 0 ELSE UNCHANGED <<acked, txn>>
    ELSE UNCHANGED <<asked, acked, txn>>

-----------------------------------------------------------------------------
(* The bridge.  (AlwaysOk and its like are mutants: plausible slips, used  *)
(* only to confirm that a property notices them.)                          *)

HasNext(h) == run[h].pc = "handle" /\ run[h].at <= run[h].end

Goto(h, pc) == run' = [run EXCEPT ![h].pc = pc]

NextEvent(h) == run' = [run EXCEPT ![h].pc = "handle", ![h].at = @ + 1]

AlwaysOk == TRUE

ErrorIsOk == dev_soft_fail

(* an exception: the rest of the transaction is not handled *)
Abort(h) == run' = [run EXCEPT ![h] = AtRest] /\ Acknowledge(h, ErrorIsOk)

FinishAs500(h) ==
  /\ run[h].pc = "handle" /\ run[h].at > run[h].end
  /\ run' = [run EXCEPT ![h] = AtRest]
  /\ Acknowledge(h, FALSE)

Finish(h) ==
  /\ run[h].pc = "handle" /\ run[h].at > run[h].end
  /\ run' = [run EXCEPT ![h] = AtRest]
  /\ Acknowledge(h, TRUE)

(* the bridge is started anew *)
ForgetRuns ==
  run' = [h \in Handlers |-> AtRest] /\ asked' = None /\ UNCHANGED <<acked, txn>>

-----------------------------------------------------------------------------
(* Events 1 .. Done were acknowledged or handled by the request that the   *)
(* homeserver waits for.                                                   *)
Done == IF asked = None THEN acked ELSE run[asked].at - 1
=============================================================================
