------------------------------ MODULE CopyLedger ------------------------------
(***************************************************************************)
(* The child orders of LiveCopy and what its tables tell of them.  The     *)
(* orders of a dispatch go out before anything about them is committed:    *)
(* the database alone does not show which orders it has lost.  Two history *)
(* variables keep apart the two ways to lose one, so that it can be said   *)
(* that there is no third.                                                 *)
(***************************************************************************)
EXTENDS LiveCopy

VARIABLES
  unheard,   \* attempts whose answer the listener did not get
  rolledBack \* attempts whose dispatch ended without its commit

ledgerVars == <<vars, unheard, rolledBack>>

\* Attempts that broker-router has answered as carried out.
Answered == placed \cup declined

\* The same, and requests on their way.
Out == wire \cup Answered

\* The transaction of a dispatch is gone: its listener was cancelled, crashed
\* or died with the API, or the commit failed.
Rollback(s) ==
  /\ work[s].phase = "dispatch"
  /\ work'[s].phase # "dispatch"
  /\ ~Commit(s)

\* The part of its dispatch that an account has gone through since its send.
SentBy(s) == {a \in Accounts : work[s].outcome[a] \in {"sent", "PLACED", "FAILED"}}

LedgerInit == Init /\ unheard = {} /\ rolledBack = {}

LedgerNext ==
  /\ Next
  /\ unheard' =
       {w \in Out' : w \in unheard \/ \E s \in Sessions, a \in Accounts :
                                         w = Attempt(s, a) /\ AnswerLost(s, a)}
  /\ rolledBack' =
       {w \in Out' : w \in rolledBack \/ \E s \in Sessions : \E a \in SentBy(s) :
                                            w = Attempt(s, a) /\ Rollback(s)}

LedgerSpec == LedgerInit /\ [][LedgerNext]_ledgerVars

-----------------------------------------------------------------------------
\* The dispatch of this attempt has not ended.
UnderWay(p) ==
  /\ work[p.session].phase = "dispatch"
  /\ work[p.session].ack = p.ack
  /\ work[p.session].outcome[p.account] \in {"sent", "PLACED"}

RecordedPlaced(p) ==
  \E o \in orders : /\ o.session = p.session
                    /\ o.ack = p.ack
                    /\ o.account = p.account
                    /\ o.status = "PLACED"

\* The attempt a row of copied_trade_orders is about.
RowAttempt(o) == [session |-> o.session, ack |-> o.ack, account |-> o.account]

(***************************************************************************)
(* A copied order tells what its listener heard: PLACED, that an answer    *)
(* came and was a success (the broker may still have declined the order in *)
(* its body); FAILED, that no such answer came, so that an order that is   *)
(* out all the same is one whose answer was lost; SKIPPED, that nothing    *)
(* was ever sent.  Cancelled, crashed and repeated dispatches included.    *)
(***************************************************************************)
RowsTellWhatWasHeard ==
  \A o \in orders :
    /\ o.status = "PLACED" => RowAttempt(o) \in Answered \ unheard
    /\ o.status = "FAILED" => RowAttempt(o) \notin Out \ unheard
    /\ o.status = "SKIPPED" => RowAttempt(o) \notin Out

(***************************************************************************)
(* An order the broker accepted has its PLACED row as soon as its dispatch *)
(* is over, except when its answer was lost or its transaction rolled back *)
(* and unless its session or its account was deleted since.                *)
(***************************************************************************)
AcceptedIsRecorded ==
  \A p \in placed \ (unheard \cup rolledBack) :
    \/ RecordedPlaced(p)
    \/ UnderWay(p)
    \/ status[p.session] = "DELETED"
    \/ p.account \notin copiers

(***************************************************************************)
(* A master order is copied twice to an account of a session only after a  *)
(* rollback: lost answers, repeated acks, pauses, resumes, restarts and    *)
(* the deletion of accounts or sessions alone never do it.                 *)
(***************************************************************************)
DoublesOnlyAfterRollback ==
  \A p, q \in placed \ rolledBack :
    /\ p.session = q.session
    /\ p.account = q.account
    /\ KeyOf[p.ack] = KeyOf[q.ack]
    => p = q
=============================================================================
