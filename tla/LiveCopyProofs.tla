--------------------------- MODULE LiveCopyProofs ---------------------------
(***************************************************************************)
(* Proofs about LiveCopy, for any number of masters, sessions, overlapping *)
(* requests, acks and copy accounts: the promises about sessions hold of   *)
(* the copying listeners, stopped sessions are quiet, and what the         *)
(* database says about copied orders is what was heard of them.            *)
(***************************************************************************)
EXTENDS CopyLedger, CopySessionsProofs, SequenceTheorems

-----------------------------------------------------------------------------
(* LiveCopy implements SessionSpec.                                        *)

LEMMA LifeCycleStep == Next => [SessionNext]_sessionVars
<1> SUFFICES ASSUME Next PROVE [SessionNext]_sessionVars
  OBVIOUS
<1>1. CASE (\E ack \in Acks : Publish(ack)) \/ Broker
  BY <1>1 DEF Publish, Broker, BrokerAccepts, BrokerDeclines, BrokerRefuses
<1>2. ASSUME NEW s \in Sessions, Copy(s) \/ QuietPoll(s)
      PROVE  [SessionNext]_sessionVars
  <2>1. UNCHANGED sessionVars \/ ListenerFault(s) \/ ListenerFinish(s)
    BY <1>2 DEF Copy, QuietPoll, Receive, Prepare, PrepareFails, Commit, CommitFails,
                Raise, Place, Send, Answer, AnswerLost
  <2> QED
    BY <2>1 DEF SessionNext, ListenerStep
<1>3. CASE Control
  <2>1. \/ \E r \in Requests : HandlerProgress(r)
        \/ \E r \in Requests, s \in Sessions : HandlerEntry(r, s)
        \/ \E r \in Requests, m \in Masters : PurgeCancel(r, m)
        \/ \E s \in Sessions : ListenerStep(s)
        \/ ProcessStep
    BY <1>3 DEF Control, LifeCycle, Progress, HandlerProgress, MarkError, ListenerStep
  <2> QED
    BY <2>1 DEF SessionNext, HandlerStep
<1>4. CASE \E r \in Requests : Delete(r)
  BY <1>4 DEF Delete, SessionNext, HandlerStep, HandlerProgress
<1>5. CASE \E a \in Accounts : RemoveCopier(a)
  BY <1>5 DEF RemoveCopier
<1> QED
  BY <1>1, <1>2, <1>3, <1>4, <1>5 DEF Next

(***************************************************************************)
(* Each step of LiveCopy conjoins an action of CopySessions or leaves its  *)
(* variables alone, so all that is proved of SessionSpec holds of LiveCopy *)
(* too.                                                                    *)
(***************************************************************************)
LEMMA ImplementsSessions == Spec => SessionSpec
<1>1. Init => SessionInit
  BY DEF Init
<1>2. [Next]_vars => [SessionNext]_sessionVars
  BY LifeCycleStep DEF vars
<1> QED
  BY <1>1, <1>2, PTL DEF Spec, SessionSpec

-----------------------------------------------------------------------------
(* Types.                                                                  *)

Works == [ack : Acks \cup {NoAck},
          phase : {"idle", "looked_up", "dispatch"},
          outcome : [Accounts -> Outcome]]

\* The variables of this module, without the life cycle's.
CopyTypes ==
  /\ published \in SUBSET Acks
  /\ inbox \in [Sessions -> Seq(Acks)]
  /\ work \in [Sessions -> Works]
  /\ events \in SUBSET EventRows
  /\ orders \in SUBSET OrderRows
  /\ copiers \in SUBSET Accounts
  /\ wire \in SUBSET Attempts
  /\ placed \in SUBSET Attempts
  /\ declined \in SUBSET Attempts

\* What a listener has in hand while it is busy is an ack.
BusyHasAck == \A s \in Sessions : Busy(s) => work[s].ack \in Acks

LEMMA NoWorkTyped == NoWork \in Works /\ NoWork.phase = "idle"
  BY DEF NoWork, Work, Works, Outcome

LEMMA InitCopyTyped == Init => CopyTypes /\ BusyHasAck
  BY NoWorkTyped, EmptySeq DEF Init, CopyTypes, BusyHasAck, Busy

\* A task that goes on keeps its work, any other has none.
LEMMA DropTyped ==
  ASSUME CopyTypes, BusyHasAck, DropAbandoned
  PROVE  /\ inbox' \in [Sessions -> Seq(Acks)]
         /\ work' \in [Sessions -> Works]
         /\ BusyHasAck'
         /\ \A s \in Sessions : work'[s] \in {work[s], NoWork}
<1>1. \A s \in Sessions : work'[s] \in {work[s], NoWork}
  BY DEF DropAbandoned
<1>2. work' \in [Sessions -> Works]
  BY NoWorkTyped DEF DropAbandoned, CopyTypes
<1>3. BusyHasAck'
  BY <1>1, NoWorkTyped DEF BusyHasAck, Busy
<1>4. inbox' \in [Sessions -> Seq(Acks)]
  BY EmptySeq DEF DropAbandoned, CopyTypes
<1> QED
  BY <1>1, <1>2, <1>3, <1>4

\* Replacing the work of one listener.
LEMMA WorkTyped ==
  ASSUME CopyTypes, BusyHasAck, NEW s \in Sessions, NEW w \in Works,
         w.phase # "idle" => w.ack \in Acks,
         work' = [work EXCEPT ![s] = w]
  PROVE  work' \in [Sessions -> Works] /\ BusyHasAck'
  BY DEF CopyTypes, BusyHasAck, Busy

LEMMA StatusesTyped ==
  ASSUME NEW outcome
  PROVE  EventStatus(outcome) \in OrderStatus \cup {"PARTIAL"}
  BY DEF EventStatus, OrderStatus

\* An exception leaves no work behind.
LEMMA RaiseTyped ==
  ASSUME CopyTypes, BusyHasAck, NEW s \in Sessions, Raise(s)
  PROVE  CopyTypes' /\ BusyHasAck'
<1>1. work' \in [Sessions -> Works] /\ BusyHasAck'
  BY NoWorkTyped, WorkTyped DEF Raise
<1>2. inbox' \in [Sessions -> Seq(Acks)]
  BY EmptySeq DEF Raise, CopyTypes
<1> QED
  BY <1>1, <1>2 DEF Raise, CopyTypes

\* The steps of a listener, action by action.
LEMMA CopyStepTyped ==
  ASSUME CopyTypes, BusyHasAck, NEW s \in Sessions, Copy(s)
  PROVE  CopyTypes' /\ BusyHasAck'
<1>0. work[s] \in Works /\ inbox[s] \in Seq(Acks)
  BY DEF CopyTypes
<1>1. CASE Receive(s)
  <2> DEFINE ack == Head(inbox[s])
             w   == Work(ack, "looked_up")
  <2>1. ack \in Acks /\ Tail(inbox[s]) \in Seq(Acks)
    BY <1>0, <1>1, HeadTailProperties DEF Receive
  <2>2. w \in Works /\ w.ack \in Acks
    BY <2>1 DEF Work, Works, Outcome
  <2>3. \E v \in {w, NoWork} : work' = [work EXCEPT ![s] = v]
    BY <1>1 DEF Receive
  <2>4. work' \in [Sessions -> Works] /\ BusyHasAck'
    <3> HIDE DEF w
    <3> QED
      BY <2>2, <2>3, NoWorkTyped, WorkTyped
  <2> QED
    BY <1>1, <2>1, <2>4 DEF Receive, CopyTypes
<1>2. CASE Prepare(s)
  <2>1. PICK outcome \in [Accounts -> {"none", "SKIPPED", "ready"}] :
          work' = [work EXCEPT ![s] =
                     [ack |-> @.ack, phase |-> "dispatch", outcome |-> outcome]]
    BY <1>2 DEF Prepare
  <2> DEFINE w == [ack |-> work[s].ack, phase |-> "dispatch", outcome |-> outcome]
  <2>2. work' = [work EXCEPT ![s] = w]
    BY <1>0, <2>1 DEF CopyTypes, Works
  <2>3. w \in Works
    BY <1>0 DEF Works, Outcome, OrderStatus
  <2>4. w.ack \in Acks
    BY <1>2 DEF Prepare, BusyHasAck, Busy
  <2>5. work' \in [Sessions -> Works] /\ BusyHasAck'
    BY <2>2, <2>3, <2>4, WorkTyped
  <2> QED
    BY <1>2, <2>5 DEF Prepare, CopyTypes
<1>3. CASE PrepareFails(s) \/ CommitFails(s)
  BY <1>3, RaiseTyped DEF PrepareFails, CommitFails
<1>4. CASE Commit(s)
  <2>1. work' \in [Sessions -> Works] /\ BusyHasAck'
    BY <1>4, NoWorkTyped, WorkTyped DEF Commit
  <2>2. work[s].ack \in Acks
    BY <1>4 DEF Commit, AllAnswered, BusyHasAck, Busy
  <2>3. events' \in SUBSET EventRows
    BY <1>4, <2>2, StatusesTyped DEF Commit, CopyTypes, EventRows
  <2>4. \A a \in Accounts : work[s].outcome[a] # "none" => work[s].outcome[a] \in OrderStatus
    BY <1>0, <1>4 DEF Commit, AllAnswered, Works, Outcome
  <2>5. orders' \in SUBSET OrderRows
    BY <1>4, <2>2, <2>4 DEF Commit, Targets, CopyTypes, OrderRows
  <2> QED
    BY <1>4, <2>1, <2>3, <2>5 DEF Commit, CopyTypes
<1>5. ASSUME NEW a \in Accounts, Place(s, a)
      PROVE  CopyTypes' /\ BusyHasAck'
  <2>1. work[s].phase = "dispatch" /\ work[s].ack \in Acks
    BY <1>5 DEF Place, Send, Answer, AnswerLost, Awaits, BusyHasAck, Busy
  <2>2. PICK value \in Outcome : work' = [work EXCEPT ![s].outcome[a] = value]
    BY <1>5 DEF Place, Send, Answer, AnswerLost, Outcome, OrderStatus
  <2> DEFINE w == [work[s] EXCEPT !.outcome = [work[s].outcome EXCEPT ![a] = value]]
  <2>3. work' = [work EXCEPT ![s] = w]
    BY <2>2
  <2>4. w = [ack |-> work[s].ack, phase |-> work[s].phase,
             outcome |-> [work[s].outcome EXCEPT ![a] = value]]
    BY <1>0 DEF Works
  <2>5. w \in Works /\ w.ack \in Acks
    BY <1>0, <2>1, <2>4 DEF Works
  <2>6. work' \in [Sessions -> Works] /\ BusyHasAck'
    <3> HIDE DEF w
    <3> QED
      BY <2>3, <2>5, WorkTyped
  <2>7. wire' \in SUBSET Attempts
    BY <1>5, <2>1 DEF Place, Send, Answer, AnswerLost, Attempt, Attempts, CopyTypes
  <2>8. UNCHANGED <<published, inbox, events, orders, copiers, placed, declined>>
    BY <1>5 DEF Place, Send, Answer, AnswerLost
  <2> QED
    BY <2>6, <2>7, <2>8 DEF CopyTypes
<1> QED
  BY <1>1, <1>2, <1>3, <1>4, <1>5 DEF Copy

LEMMA NextCopyTyped ==
  CopyTypes /\ BusyHasAck /\ [Next]_vars => CopyTypes' /\ BusyHasAck'
<1> SUFFICES ASSUME CopyTypes, BusyHasAck, [Next]_vars
             PROVE  CopyTypes' /\ BusyHasAck'
  OBVIOUS
<1>1. ASSUME NEW ack \in Acks, Publish(ack)
      PROVE  CopyTypes' /\ BusyHasAck'
  <2>1. inbox' \in [Sessions -> Seq(Acks)]
    BY <1>1, AppendProperties DEF Publish, CopyTypes
  <2> QED
    BY <1>1, <2>1 DEF Publish, CopyTypes, BusyHasAck, Busy
<1>2. ASSUME NEW s \in Sessions, Copy(s) \/ QuietPoll(s)
      PROVE  CopyTypes' /\ BusyHasAck'
  BY <1>2, CopyStepTyped DEF QuietPoll, copyVars, CopyTypes, BusyHasAck, Busy
<1>3. CASE Broker
  BY <1>3 DEF Broker, BrokerAccepts, BrokerDeclines, BrokerRefuses, CopyTypes,
       BusyHasAck, Busy
<1>4. CASE Control
  <2>1. DropAbandoned /\ UNCHANGED <<published, events, orders, copiers, wire, placed, declined>>
    BY <1>4 DEF Control, LifeCycle
  <2> QED
    BY <2>1, DropTyped DEF CopyTypes
<1>5. CASE \E r \in Requests : Delete(r)
  BY <1>5 DEF Delete, Cascade, CopyTypes, BusyHasAck, Busy
<1>6. CASE UNCHANGED vars
  BY <1>6 DEF vars, copyVars, CopyTypes, BusyHasAck, Busy
<1>7. CASE \E a \in Accounts : RemoveCopier(a)
  BY <1>7 DEF RemoveCopier, CopyTypes, BusyHasAck, Busy
<1> QED
  BY <1>1, <1>2, <1>3, <1>4, <1>5, <1>6, <1>7 DEF Next

(***************************************************************************)
(* Type correctness of the whole copying path.                             *)
(***************************************************************************)
THEOREM CopyTypeCorrect == Spec => []CopyTypeOK
<1>1. Init => CopyTypes /\ BusyHasAck
  BY InitCopyTyped
<1>2. CopyTypes /\ BusyHasAck /\ [Next]_vars => CopyTypes' /\ BusyHasAck'
  BY NextCopyTyped
<1>3. Spec => []TypeOK
  BY ImplementsSessions, TypeCorrect, PTL
<1>4. TypeOK /\ CopyTypes => CopyTypeOK
  BY DEF CopyTypes, CopyTypeOK, Works
<1> QED
  BY <1>1, <1>2, <1>3, <1>4, PTL DEF Spec

-----------------------------------------------------------------------------
(***************************************************************************)
(* What the tables say.  RowsAgree speaks of committed rows only; to       *)
(* survive a commit it needs to know that the ack the committing listener  *)
(* has in hand is not recorded, so that its rows are the only ones of this *)
(* session and ack.  This also gives SendsOnlyUnrecorded: between lookup   *)
(* and commit nobody else records an ack of this session, because each     *)
(* session has one listener.                                               *)
(***************************************************************************)
UnrecordedWork == \A s \in Sessions : Busy(s) => ~Recorded(s, work[s].ack)

TableInv ==
  /\ CopyTypes
  /\ BusyHasAck
  /\ UnrecordedWork
  /\ RowsAgree

LEMMA InitTables == Init => TableInv
<1> SUFFICES ASSUME Init PROVE TableInv
  OBVIOUS
<1>1. CopyTypes /\ BusyHasAck
  BY InitCopyTyped
<1>2. UnrecordedWork
  BY NoWorkTyped DEF Init, UnrecordedWork, Busy
<1>3. RowsAgree
  BY DEF Init, RowsAgree
<1> QED
  BY <1>1, <1>2, <1>3 DEF TableInv

\* Work that is kept or dropped stays unrecorded, as long as no event appears.
LEMMA WorkKept ==
  ASSUME UnrecordedWork, events' \subseteq events,
         \A s \in Sessions : work'[s] \in {work[s], NoWork}
  PROVE  UnrecordedWork'
  BY NoWorkTyped DEF UnrecordedWork, Busy, Recorded

LEMMA RowsKept ==
  ASSUME RowsAgree, UNCHANGED <<events, orders, copiers>>
  PROVE  RowsAgree'
  BY DEF RowsAgree, RowsOf, AllPlaced

\* The aggregate is PLACED iff there are targets and all of them were placed.
LEMMA PlacedStatus ==
  ASSUME NEW outcome
  PROVE  EventStatus(outcome) = "PLACED" <=>
           /\ \E a \in Accounts : outcome[a] # "none"
           /\ \A a \in Accounts : outcome[a] \in {"none", "PLACED"}
<1> DEFINE statuses == {outcome[a] : a \in Accounts} \ {"none"}
<1>1. EventStatus(outcome) = "PLACED" <=> statuses = {"PLACED"}
  BY DEF EventStatus
<1>2. statuses = {"PLACED"} <=>
        /\ \E a \in Accounts : outcome[a] # "none"
        /\ \A a \in Accounts : outcome[a] \in {"none", "PLACED"}
  OBVIOUS
<1> QED
  BY <1>1, <1>2

\* The commit of one event and its orders.
LEMMA CommitTables ==
  ASSUME TableInv, NEW s \in Sessions, Commit(s)
  PROVE  UnrecordedWork' /\ RowsAgree'
<1> DEFINE ack == work[s].ack
           outcome == work[s].outcome
           event == [session |-> s, ack |-> ack, copied |-> EventStatus(outcome)]
           row(a) == [session |-> s, ack |-> ack, account |-> a, status |-> outcome[a]]
           targets == {a \in Accounts : outcome[a] # "none"}
           rows(e) == {o \in orders' : o.session = e.session /\ o.ack = e.ack}
<1> USE DEF TableInv
<1>1. /\ events' = events \cup {event}
      /\ orders' = orders \cup {row(a) : a \in targets}
      /\ work' = [work EXCEPT ![s] = NoWork]
      /\ UNCHANGED copiers
  BY DEF Commit, Targets
<1>2. Busy(s)
  BY DEF Commit, AllAnswered, Busy
<1>3. \A e \in events : ~(e.session = s /\ e.ack = ack)
  BY <1>2 DEF UnrecordedWork, Recorded
<1>4. \A o \in orders : ~(o.session = s /\ o.ack = ack)
  BY <1>3 DEF RowsAgree
<1>5. \A t \in Sessions : work'[t] = IF t = s THEN NoWork ELSE work[t]
  BY <1>1 DEF CopyTypes
<1>6. UnrecordedWork'
  <2> SUFFICES ASSUME NEW t \in Sessions, Busy(t)', NEW e \in events'
               PROVE  ~(e.session = t /\ KeyOf[e.ack] = KeyOf[work'[t].ack])
    BY DEF UnrecordedWork, Recorded
  <2>1. t # s /\ work'[t] = work[t] /\ Busy(t)
    BY <1>5, NoWorkTyped DEF Busy
  <2>2. CASE e = event
    BY <2>1, <2>2
  <2>3. CASE e \in events
    BY <2>1, <2>3 DEF UnrecordedWork, Recorded
  <2> QED
    BY <1>1, <2>2, <2>3
<1>9. \A o \in orders' : \E e \in events' : e.session = o.session /\ e.ack = o.ack
  <2> SUFFICES ASSUME NEW o \in orders'
               PROVE  \E e \in events' : e.session = o.session /\ e.ack = o.ack
    OBVIOUS
  <2>1. CASE o \in orders
    BY <1>1, <2>1 DEF RowsAgree
  <2>2. CASE \E a \in targets : o = row(a)
    <3>1. o.session = event.session /\ o.ack = event.ack /\ event \in events'
      BY <1>1, <2>2
    <3> QED
      BY <3>1
  <2> QED
    BY <1>1, <2>1, <2>2
<1>10. event.copied = "PLACED" <=>
         rows(event) # {} /\ \A o \in rows(event) : o.status = "PLACED"
  <2>1. rows(event) = {row(a) : a \in targets}
    BY <1>1, <1>4
  <2>2. rows(event) # {} <=> \E a \in Accounts : outcome[a] # "none"
    BY <2>1
  <2>3. (\A o \in rows(event) : o.status = "PLACED") <=>
          \A a \in targets : row(a).status = "PLACED"
    BY <2>1
  <2>4. \A a : row(a).status = outcome[a]
    OBVIOUS
  <2>5. (\A o \in rows(event) : o.status = "PLACED") <=>
          \A a \in Accounts : outcome[a] \in {"none", "PLACED"}
    BY <2>3, <2>4
  <2>6. event.copied = EventStatus(outcome)
    OBVIOUS
  <2> QED
    BY <2>2, <2>5, <2>6, PlacedStatus
<1>11. \A e \in events : rows(e) = RowsOf(e)
  BY <1>1, <1>3 DEF RowsOf
<1>12. RowsAgree'
  <2>1. \A e \in events' : e.copied = "PLACED" => \A o \in rows(e) : o.status = "PLACED"
    BY <1>1, <1>10, <1>11 DEF RowsAgree, AllPlaced
  <2>2. copiers' = Accounts =>
          \A e \in events' :
            e.copied = "PLACED" <=>
              rows(e) # {} /\ \A o \in rows(e) : o.status = "PLACED"
    BY <1>1, <1>10, <1>11 DEF RowsAgree, AllPlaced
  <2> QED
    BY <1>9, <2>1, <2>2 DEF RowsAgree, RowsOf, AllPlaced
<1> QED
  BY <1>6, <1>12

\* The other steps of a listener.
LEMMA CopyTables ==
  ASSUME TableInv, NEW s \in Sessions, Copy(s)
  PROVE  UnrecordedWork' /\ RowsAgree'
<1> USE DEF TableInv
<1>1. CASE Receive(s)
  <2> DEFINE ack == Head(inbox[s])
  <2>1. UNCHANGED <<events, orders, copiers>>
    BY <1>1 DEF Receive
  <2>2. \/ \A t \in Sessions : work'[t] \in {work[t], NoWork}
        \/ /\ ~Recorded(s, ack)
           /\ \A t \in Sessions :
                work'[t] = IF t = s THEN Work(ack, "looked_up") ELSE work[t]
    BY <1>1 DEF Receive, CopyTypes
  <2>3. CASE \A t \in Sessions : work'[t] \in {work[t], NoWork}
    BY <2>1, <2>3, WorkKept, RowsKept
  <2>4. CASE /\ ~Recorded(s, ack)
             /\ \A t \in Sessions :
                  work'[t] = IF t = s THEN Work(ack, "looked_up") ELSE work[t]
    <3>1. UnrecordedWork'
      BY <2>1, <2>4 DEF UnrecordedWork, Recorded, Busy, Work
    <3> QED
      BY <2>1, <3>1, RowsKept
  <2> QED
    BY <2>2, <2>3, <2>4
<1>2. CASE Prepare(s)
  <2>1. UNCHANGED <<events, orders, copiers>>
    BY <1>2 DEF Prepare
  <2>2. PICK outcome \in [Accounts -> {"none", "SKIPPED", "ready"}] :
          \A t \in Sessions :
            work'[t] = IF t = s
                         THEN [ack |-> work[s].ack, phase |-> "dispatch", outcome |-> outcome]
                         ELSE work[t]
    BY <1>2 DEF Prepare, CopyTypes
  <2>3. Busy(s)
    BY <1>2 DEF Prepare, Busy
  <2>4. UnrecordedWork'
    BY <2>1, <2>2, <2>3 DEF UnrecordedWork, Recorded, Busy
  <2> QED
    BY <2>1, <2>4, RowsKept
<1>3. CASE PrepareFails(s) \/ CommitFails(s)
  BY <1>3, WorkKept, RowsKept DEF PrepareFails, CommitFails, Raise, CopyTypes
<1>4. CASE Commit(s)
  BY <1>4, CommitTables
<1>5. ASSUME NEW a \in Accounts, Place(s, a)
      PROVE  UnrecordedWork' /\ RowsAgree'
  <2>1. UNCHANGED <<events, orders, copiers>>
    BY <1>5 DEF Place, Send, Answer, AnswerLost
  <2>2. PICK value \in Outcome : work' = [work EXCEPT ![s].outcome[a] = value]
    BY <1>5 DEF Place, Send, Answer, AnswerLost, Outcome, OrderStatus
  <2>3. \A t \in Sessions : work'[t].ack = work[t].ack /\ work'[t].phase = work[t].phase
    BY <2>2 DEF CopyTypes, Works
  <2>4. UnrecordedWork'
    BY <2>1, <2>3 DEF UnrecordedWork, Recorded, Busy
  <2> QED
    BY <2>1, <2>4, RowsKept
<1> QED
  BY <1>1, <1>2, <1>3, <1>4, <1>5 DEF Copy

LEMMA StepTables == TableInv /\ [Next]_vars => TableInv'
<1> SUFFICES ASSUME TableInv, [Next]_vars PROVE TableInv'
  OBVIOUS
<1> DEFINE Rest == UnrecordedWork' /\ RowsAgree'
<1> USE DEF TableInv
<1>1. CopyTypes' /\ BusyHasAck'
  BY NextCopyTyped
<1>2. ASSUME NEW ack \in Acks, Publish(ack) PROVE Rest
  BY <1>2, WorkKept, RowsKept DEF Publish
<1>3. ASSUME NEW s \in Sessions, Copy(s) PROVE Rest
  BY <1>3, CopyTables
<1>4. ASSUME NEW s \in Sessions, QuietPoll(s) PROVE Rest
  BY <1>4, WorkKept, RowsKept DEF QuietPoll, copyVars
<1>5. CASE Broker
  <2>1. UNCHANGED <<work, events, orders, copiers>>
    BY <1>5 DEF Broker, BrokerAccepts, BrokerDeclines, BrokerRefuses
  <2>2. Rest
    BY <2>1, WorkKept, RowsKept
  <2> QED
    BY <1>1, <2>2
<1>6. CASE Control
  <2>1. /\ UNCHANGED <<events, orders, copiers>>
        /\ \A s \in Sessions : work'[s] \in {work[s], NoWork}
    BY <1>6, DropTyped DEF Control, LifeCycle
  <2>2. Rest
    BY <2>1, WorkKept, RowsKept
  <2> QED
    BY <1>1, <2>2
<1>7. ASSUME NEW r \in Requests, Delete(r) PROVE Rest
  <2>1. PICK sessions : Cascade(sessions)
    BY <1>7 DEF Delete
  <2>2. /\ events' = {e \in events : e.session \notin sessions}
        /\ orders' = {o \in orders : o.session \notin sessions}
        /\ UNCHANGED <<work, copiers>>
    BY <2>1 DEF Cascade
  <2>3. UnrecordedWork'
    BY <2>2, WorkKept
  <2>5. \A o \in orders' : \E e \in events' : e.session = o.session /\ e.ack = o.ack
    BY <2>2 DEF RowsAgree
  <2>6. \A e \in events' : {o \in orders' : o.session = e.session /\ o.ack = e.ack}
                             = {o \in orders : o.session = e.session /\ o.ack = e.ack}
    BY <2>2
  <2>7. RowsAgree'
    BY <2>2, <2>5, <2>6 DEF RowsAgree, RowsOf, AllPlaced
  <2> QED
    BY <2>3, <2>7
<1>8. CASE UNCHANGED vars
  <2>1. Rest
    BY <1>8, WorkKept, RowsKept DEF vars, copyVars
  <2> QED
    BY <1>1, <2>1
<1>9. ASSUME NEW a \in Accounts, RemoveCopier(a) PROVE Rest
  <2>1. /\ orders' \subseteq orders
        /\ copiers' # Accounts
        /\ UNCHANGED <<work, events>>
    BY <1>9 DEF RemoveCopier
  <2>2. UnrecordedWork'
    BY <2>1, WorkKept
  <2>3. RowsAgree'
    BY <2>1 DEF RowsAgree, RowsOf, AllPlaced
  <2> QED
    BY <2>2, <2>3
<1> QED
  BY <1>1, <1>2, <1>3, <1>4, <1>5, <1>6, <1>7, <1>8, <1>9 DEF Next

LEMMA TablesHold == Spec => []TableInv
<1>1. Init => TableInv
  BY InitTables
<1>2. TableInv /\ [Next]_vars => TableInv'
  BY StepTables
<1> QED
  BY <1>1, <1>2, PTL DEF Spec

(***************************************************************************)
(* The two tables agree: no order without its event, no event that says    *)
(* PLACED over an order that does not, and, until a copy account goes, it  *)
(* says so exactly when it has orders and all of them do.                  *)
(***************************************************************************)
THEOREM TablesAgree == Spec => []RowsAgree
<1>1. TableInv => RowsAgree
  BY DEF TableInv
<1> QED
  BY <1>1, TablesHold, PTL

(***************************************************************************)
(* No child order is sent for an ack that its session has recorded.        *)
(***************************************************************************)
THEOREM SendsUnrecorded == Spec => SendsOnlyUnrecorded
<1>1. TableInv /\ [Next]_vars =>
        [\A w \in wire' \ wire : ~Recorded(w.session, w.ack)]_vars
  <2> SUFFICES ASSUME TableInv, Next, NEW w \in wire' \ wire
               PROVE  ~Recorded(w.session, w.ack)
    OBVIOUS
  <2>1. PICK s \in Sessions, a \in Accounts : Send(s, a)
    BY DEF Next, Publish, Copy, QuietPoll, copyVars, Receive, Prepare, PrepareFails,
         Commit, CommitFails, Raise, Place, Answer, AnswerLost, Broker, BrokerAccepts,
         BrokerDeclines, BrokerRefuses, Control, LifeCycle, Delete, Cascade,
         RemoveCopier
  <2>2. Busy(s) /\ w = Attempt(s, a)
    BY <2>1 DEF Send, Busy
  <2>3. ~Recorded(s, work[s].ack)
    BY <2>2 DEF TableInv, UnrecordedWork
  <2> QED
    BY <2>2, <2>3 DEF Attempt
<1> QED
  BY <1>1, TablesHold, PTL DEF Spec, SendsOnlyUnrecorded

-----------------------------------------------------------------------------
(***************************************************************************)
(* A stopped session is quiet.  Once types are known a step shows it: work *)
(* begins only in a session that is RUNNING, STOPPED is written only by a  *)
(* stop request that goes on to cancel the listener, cancelling drops the  *)
(* work, and only a failing database keeps the request from cancelling.    *)
(***************************************************************************)
Stopping(r, s) ==
  req[r].op = "stop" /\ req[r].pc \in {"refresh", "cancel"} /\ req[r].session = s

StopGivesUp(r, s) == req[r].op = "stop" /\ req[r].session = s /\ DatabaseFails(r)

\* Of the steps of requests only the commit of a stop request makes a session
\* STOPPED, and that request is then Stopping.
LEMMA StopsItself ==
  ASSUME TypeOK, NEW r \in Requests, HandlerProgress(r),
         NEW s \in Sessions, status[s] # "STOPPED", status'[s] = "STOPPED"
  PROVE  Stopping(r, s)'
<1>1. StopCommit(r)
  BY DEF HandlerProgress, StartCommit, PauseCommit, ResumeCommit, Refresh, Connect,
       ConnectRefused, ConnectUnreachable, ConnectRefusedUnmarked, DatabaseFails,
       StartTask, CancelListener, Disconnect, DisconnectRefused, DisconnectUnreachable,
       DeleteCommit, PurgeCommit, PurgeConflict, PurgeDisconnect, CommitStatus, TypeOK
<1>2. req[r].op = "stop" /\ req[r].op \in Ops
  BY <1>1 DEF StopCommit, At, Ops
<1>3. req[r] \in SessionRequest
  BY <1>2, InFlight
<1>4. status' = [status EXCEPT ![req[r].session] = "STOPPED"] /\ Goto(r, "refresh")
  BY <1>1 DEF StopCommit, CommitStatus
<1>5. req[r].session = s
  BY <1>4 DEF TypeOK
<1> QED
  BY <1>2, <1>3, <1>4, <1>5 DEF Goto, Stopping, TypeOK, SessionRequest

\* A Stopping request stays so until it cancels the listener of its session,
\* or the database fails it.
LEMMA StopsOn ==
  ASSUME TypeOK, NEW r \in Requests, HandlerProgress(r),
         NEW q \in Requests, NEW s \in Sessions, Stopping(q, s), status[s] = "STOPPED"
  PROVE  Stopping(q, s)' \/ StopGivesUp(q, s) \/ listener'[s] = "none"
<1>1. CASE q # r
  <2>1. req'[q] = req[q]
    BY <1>1 DEF HandlerProgress, StartCommit, PauseCommit, ResumeCommit, Refresh,
         Connect, ConnectRefused, ConnectUnreachable, ConnectRefusedUnmarked,
         DatabaseFails, StartTask, StopCommit, CancelListener, Disconnect,
         DisconnectRefused, DisconnectUnreachable, DeleteCommit, PurgeCommit,
         PurgeConflict, PurgeDisconnect, CommitStatus, AfterDisconnect, Goto, Return,
         TypeOK
  <2> QED
    BY <2>1 DEF Stopping
<1>2. CASE q = r
  <2>1. Refresh(r) \/ DatabaseFails(r) \/ CancelListener(r)
    BY <1>2 DEF Stopping, HandlerProgress, StartCommit, PauseCommit, ResumeCommit,
         Connect, ConnectRefused, ConnectUnreachable, ConnectRefusedUnmarked,
         StartTask, StopCommit, Disconnect, DisconnectRefused,
         DisconnectUnreachable, DeleteCommit, PurgeCommit, PurgeConflict,
         PurgeDisconnect, Connecting, Disconnecting, At
  <2>2. CASE Refresh(r)
    <3>1. Goto(r, "cancel")
      BY <1>2, <2>2 DEF Refresh, Stopping, Stored, Gone
    <3>2. req[r] \in SessionRequest
      BY <1>2, InFlight DEF Stopping, Ops
    <3> QED
      BY <1>2, <3>1, <3>2 DEF Goto, Stopping, TypeOK, SessionRequest
  <2>3. CASE CancelListener(r)
    BY <1>2, <2>3 DEF CancelListener, Stopping, TypeOK
  <2> QED
    BY <1>2, <2>1, <2>2, <2>3 DEF StopGivesUp, Stopping
<1> QED
  BY <1>1, <1>2

\* An arriving request leaves the requests in flight alone.
LEMMA EntryLeavesOthers ==
  ASSUME TypeOK, NEW r \in Requests, NEW t \in Sessions, HandlerEntry(r, t),
         NEW q \in Requests, NEW s \in Sessions, Stopping(q, s)
  PROVE  Stopping(q, s)'
<1>1. q # r
  BY DEF Stopping, HandlerEntry, StartCheck, PauseRead, ResumeRead, StopRead, DeleteRead,
         Enter, Idle
<1>2. req'[q] = req[q]
  BY <1>1 DEF HandlerEntry, StartCheck, PauseRead, ResumeRead, StopRead, DeleteRead,
         Enter, TypeOK
<1> QED
  BY <1>2 DEF Stopping

\* So does the deletion of a master account.
LEMMA PurgeLeavesOthers ==
  ASSUME TypeOK, NEW r \in Requests, NEW m \in Masters, PurgeCancel(r, m),
         NEW q \in Requests, NEW s \in Sessions, Stopping(q, s)
  PROVE  Stopping(q, s)'
<1>1. q # r
  BY DEF Stopping, PurgeCancel, Idle
<1>2. req'[q] = req[q]
  BY <1>1 DEF PurgeCancel, TypeOK
<1> QED
  BY <1>2 DEF Stopping

LEMMA QuietStep ==
  ASSUME TypeOK, CopyTypes, BusyHasAck, [Next]_vars,
         NEW s \in Sessions, ~Unquiet(s), status'[s] = "STOPPED", Busy(s)'
  PROVE  \E r \in Requests : Stopping(r, s)' \/ StopGivesUp(r, s)
<1>1. ASSUME status[s] = "STOPPED", Busy(s)
      PROVE  \E r \in Requests : Stopping(r, s)
  BY <1>1 DEF Unquiet, Stopping
<1>2. CASE UNCHANGED <<status, req>> /\ Busy(s)
  BY <1>1, <1>2 DEF Stopping
<1>3. ASSUME NEW t \in Sessions, Copy(t)
      PROVE  \E r \in Requests : Stopping(r, s)' \/ StopGivesUp(r, s)
  <2>1. UNCHANGED <<status, req>>
    BY <1>3 DEF Copy, Receive, Prepare, PrepareFails, CommitFails, Raise, ListenerFault,
                Commit, Place, Send, Answer, AnswerLost, sessionVars
  <2>2. Busy(s)
    <3>1. CASE Receive(t)
      BY <2>1, <3>1, NoWorkTyped DEF Receive, Busy, CopyTypes
    <3>2. CASE Prepare(t) \/ PrepareFails(t) \/ Commit(t) \/ CommitFails(t)
      BY <3>2, NoWorkTyped
         DEF Prepare, PrepareFails, Commit, CommitFails, Raise, Busy, CopyTypes
    <3>3. ASSUME NEW a \in Accounts, Place(t, a) PROVE Busy(s)
      <4>1. work[t].phase = "dispatch"
        BY <3>3 DEF Place, Send, Answer, AnswerLost, Awaits
      <4>2. s # t => work'[s] = work[s]
        BY <3>3 DEF Place, Send, Answer, AnswerLost, CopyTypes
      <4> QED
        BY <4>1, <4>2 DEF Busy
    <3> QED
      BY <1>3, <3>1, <3>2, <3>3 DEF Copy
  <2> QED
    BY <1>2, <2>1, <2>2
<1>4. CASE Control
  <2>1. DropAbandoned
    BY <1>4 DEF Control, LifeCycle
  <2>2. Busy(s) /\ listener'[s] = "polling"
    BY <2>1, NoWorkTyped DEF DropAbandoned, Busy
  <2>3. ASSUME NEW r \in Requests, HandlerProgress(r)
        PROVE  \E q \in Requests : Stopping(q, s)' \/ StopGivesUp(q, s)
    <3>1. CASE status[s] = "STOPPED"
      BY <1>1, <2>2, <2>3, <3>1, StopsOn
    <3>2. CASE status[s] # "STOPPED"
      BY <2>3, <3>2, StopsItself
    <3> QED
      BY <3>1, <3>2
  <2>4. ASSUME NEW r \in Requests, NEW t \in Sessions, HandlerEntry(r, t)
        PROVE  \E q \in Requests : Stopping(q, s)' \/ StopGivesUp(q, s)
    <3>1. status' = status
      BY <2>4 DEF HandlerEntry, StartCheck, PauseRead, ResumeRead, StopRead, DeleteRead
    <3> QED
      BY <1>1, <2>2, <2>4, <3>1, EntryLeavesOthers
  <2>5. CASE (\E t \in Sessions : ListenerStep(t)) \/ ProcessStep
    <3>1. status[s] = "STOPPED"
      BY <2>5, Unattended
    <3>2. CASE req' = req
      BY <1>1, <2>2, <3>1, <3>2 DEF Stopping
    <3>3. CASE req' # req
      <4>1. ApiDown
        BY <2>5, <3>3 DEF ListenerStep, ListenerFinish, ListenerFault, ListenerMarkError,
             ListenerMarkFails, ListenerClosed, ProcessStep, ApiStart, BootConnect,
             BootConnectFails, BootCommit, RouterRestart
      <4> QED
        BY <2>2, <4>1 DEF ApiDown
    <3> QED
      BY <3>2, <3>3
  <2>6. ASSUME NEW r \in Requests, NEW m \in Masters, PurgeCancel(r, m)
        PROVE  \E q \in Requests : Stopping(q, s)' \/ StopGivesUp(q, s)
    <3>1. status' = status
      BY <2>6 DEF PurgeCancel
    <3> QED
      BY <1>1, <2>2, <2>6, <3>1, PurgeLeavesOthers
  <2>7. ASSUME NEW r \in Requests, DatabaseFails(r) PROVE HandlerProgress(r)
    BY <2>7 DEF HandlerProgress
  <2> QED
    BY <1>4, <2>3, <2>4, <2>5, <2>6, <2>7
       DEF Control, LifeCycle, Progress, MarkError, ListenerStep
<1>5. ASSUME NEW r \in Requests, Delete(r)
      PROVE  \E q \in Requests : Stopping(q, s)' \/ StopGivesUp(q, s)
  <2>1. /\ DeleteCommit(r) \/ PurgeCommit(r)
        /\ work' = work
    BY <1>5 DEF Delete, Cascade
  <2>2. Busy(s)
    BY <2>1 DEF Busy
  <2>3. status[s] = "STOPPED"
    BY <2>1 DEF DeleteCommit, PurgeCommit, TypeOK
  <2>4. PICK q \in Requests : Stopping(q, s)
    BY <1>1, <2>2, <2>3
  <2>5. q # r
    BY <2>1, <2>4 DEF DeleteCommit, PurgeCommit, At, Stopping
  <2>6. req'[q] = req[q]
    BY <2>1, <2>5 DEF DeleteCommit, PurgeCommit, Return, Goto, TypeOK
  <2> QED
    BY <2>4, <2>6 DEF Stopping
<1>6. ASSUME \/ \E ack \in Acks : Publish(ack)
             \/ \E t \in Sessions : QuietPoll(t)
             \/ Broker
             \/ \E a \in Accounts : RemoveCopier(a)
             \/ UNCHANGED vars
      PROVE  \E q \in Requests : Stopping(q, s)' \/ StopGivesUp(q, s)
  <2>1. UNCHANGED <<status, req, work>>
    BY <1>6 DEF Publish, QuietPoll, ListenerFinish, copyVars, sessionVars, vars, Broker,
         BrokerAccepts, BrokerDeclines, BrokerRefuses, RemoveCopier
  <2> QED
    BY <1>2, <2>1 DEF Busy
<1> QED
  BY <1>3, <1>4, <1>5, <1>6 DEF Next

(***************************************************************************)
(* However requests overlap and whatever fails: a STOPPED session has no   *)
(* dispatch under way, but for the one its stop request is about to        *)
(* cancel, or has failed to cancel because the database let it down.       *)
(***************************************************************************)
THEOREM StopIsQuiet == Spec => StoppedMeansQuiet
<1>1. TypeOK /\ TableInv /\ [Next]_vars =>
        [\A s \in Sessions :
           ~Unquiet(s) /\ Unquiet(s)' =>
             \E r \in Requests :
               req[r].op = "stop" /\ req[r].session = s /\ DatabaseFails(r)
        ]_vars
  <2> SUFFICES ASSUME TypeOK, TableInv, [Next]_vars,
                      NEW s \in Sessions, ~Unquiet(s), Unquiet(s)'
               PROVE  \E r \in Requests : StopGivesUp(r, s)
    BY DEF StopGivesUp
  <2>1. status'[s] = "STOPPED" /\ Busy(s)' /\ ~\E r \in Requests : Stopping(r, s)'
    BY DEF Unquiet, Stopping
  <2> QED
    BY <2>1, QuietStep DEF TableInv
<1>2. Spec => []TypeOK
  BY ImplementsSessions, TypeCorrect, PTL
<1> QED
  BY <1>1, <1>2, TablesHold, PTL DEF Spec, StoppedMeansQuiet

(***************************************************************************)
(* What is proved of the life cycle holds of the copying system, because   *)
(* it implements CopySessions: acks, broker answers and deletions of copy  *)
(* accounts break none of the promises about sessions.                     *)
(***************************************************************************)
THEOREM CopyKeepsSessions ==
  Spec => /\ []ActivationsApart => []OneActivePerMaster
          /\ []StopsApart => StoppedStaysStopped
          /\ []ActivationsApart /\ []DeletesApart => DeleteSparesOthers
          /\ DeletedStaysDeleted
  BY ImplementsSessions, ApartOneActive, ApartStoppedStays, ApartDeleteSpares, DeletedForGood, PTL

-----------------------------------------------------------------------------
(***************************************************************************)
(* The ledger.  An attempt that was sent and not rolled back is in the     *)
(* dispatch of its ack or has its event, so that the duplicate lookup of   *)
(* the next ack of that order sees it or is not reached: this is what the  *)
(* single attempts rest on.  Both survive the deletion of the session only *)
(* because its DELETE waits for the dispatch and a deleted session never   *)
(* comes back.                                                             *)
(***************************************************************************)
InDispatch(p) ==
  /\ work[p.session].phase = "dispatch"
  /\ work[p.session].ack = p.ack
  /\ p.account \in SentBy(p.session)

HasEvent(p) == \E e \in events : e.session = p.session /\ e.ack = p.ack

DispatchStored == \A s \in Sessions : work[s].phase = "dispatch" => Stored(s)

OutKnown == \A p \in Out : status[p.session] # "NONE"

OutTraced ==
  \A p \in Out \ rolledBack :
    InDispatch(p) \/ HasEvent(p) \/ status[p.session] = "DELETED"

OutTold ==
  \A p \in Out \ (unheard \cup rolledBack) :
    \/ RecordedPlaced(p)
    \/ UnderWay(p)
    \/ status[p.session] = "DELETED"
    \/ p.account \notin copiers

OutSingle ==
  \A p, q \in Out \ rolledBack :
    /\ p.session = q.session
    /\ p.account = q.account
    /\ KeyOf[p.ack] = KeyOf[q.ack]
    => p = q

LedgerInv ==
  /\ TableInv
  /\ FreshInv
  /\ DispatchStored
  /\ OutKnown
  /\ OutTraced
  /\ OutTold
  /\ OutSingle

LEMMA InitLedger == LedgerInit => LedgerInv
<1> SUFFICES ASSUME LedgerInit PROVE LedgerInv
  OBVIOUS
<1>1. Init /\ SessionInit /\ Out = {}
  BY DEF LedgerInit, Init, Out, Answered
<1>2. DispatchStored
  BY NoWorkTyped DEF LedgerInit, Init, DispatchStored
<1> QED
  BY <1>1, <1>2, InitTables, InitFresh
  DEF LedgerInv, OutKnown, OutTraced, OutTold, OutSingle

\* What the history variables keep and add.
LEMMA HistoryGrows ==
  ASSUME LedgerNext, NEW p \in Out'
  PROVE  /\ p \in unheard => p \in unheard'
         /\ p \in rolledBack => p \in rolledBack'
         /\ \A s \in Sessions, a \in Accounts :
              p = Attempt(s, a) /\ AnswerLost(s, a) => p \in unheard'
         /\ \A s \in Sessions : \A a \in SentBy(s) :
              p = Attempt(s, a) /\ Rollback(s) => p \in rolledBack'
  BY DEF LedgerNext

\* An attempt of the ack in hand, taken apart and put together.
LEMMA AttemptOf ==
  ASSUME CopyTypes, NEW p \in Out
  PROVE  /\ p \in Attempts /\ p.session \in Sessions /\ p.account \in Accounts
         /\ work[p.session].ack = p.ack => p = Attempt(p.session, p.account)
  BY DEF CopyTypes, Out, Answered, Attempts, Attempt

\* A commit stores an event of an ack that had none.
LEMMA CommitStoresEvent ==
  ASSUME BusyHasAck, UnrecordedWork, events' \subseteq events, NEW s \in Sessions
  PROVE  ~Commit(s)
<1> SUFFICES ASSUME Commit(s) PROVE FALSE
  OBVIOUS
<1> DEFINE e == [session |-> s, ack |-> work[s].ack, copied |-> EventStatus(work[s].outcome)]
<1>1. e \in events /\ Busy(s)
  BY DEF Commit, AllAnswered, Busy
<1>2. e.session = s /\ e.ack = work[s].ack
  OBVIOUS
<1> QED
  BY <1>1, <1>2 DEF UnrecordedWork, Recorded

-----------------------------------------------------------------------------
\* A request that goes on removes no row, but for the two that delete.
LEMMA ProgressKeepsRows ==
  ASSUME TypeOK, NEW r \in Requests, Progress(r), NEW s \in Sessions, Stored(s)
  PROVE  Stored(s)'
<1>1. \/ UNCHANGED status
      \/ \E value \in {"RUNNING", "PAUSED", "ERROR", "STOPPED"} :
           status' = [status EXCEPT ![req[r].session] = value]
  BY DEF Progress, HandlerProgress, StartCommit, PauseCommit, ResumeCommit, Refresh,
       Connect, ConnectRefused, ConnectUnreachable, ConnectRefusedUnmarked,
       DatabaseFails, StartTask, StopCommit, CancelListener, Disconnect,
       DisconnectRefused, DisconnectUnreachable, DeleteCommit, PurgeConflict,
       PurgeDisconnect, CommitStatus
<1> QED
  BY <1>1 DEF Stored, Gone, TypeOK

\* What becomes of a row while its session is being copied, and after.
LEMMA RowsStay ==
  ASSUME FreshInv, Next, NEW s \in Sessions
  PROVE  /\ status[s] = "DELETED" => status'[s] = "DELETED"
         /\ status[s] # "NONE" => status'[s] # "NONE"
         /\ Stored(s) /\ work[s].phase = "dispatch" => Stored(s)'
<1>1. TypeOK /\ [SessionNext]_sessionVars
  BY LifeCycleStep DEF FreshInv
<1>2. status[s] = "DELETED" => status'[s] = "DELETED"
  BY <1>1, DeletedKept
<1>3. ASSUME NEW r \in Requests, Delete(r)
      PROVE  /\ status'[s] \in {status[s], "DELETED"}
             /\ work[s].phase = "dispatch" => status'[s] = status[s]
  <2>1. CASE DeleteCommit(r) /\ Cascade({req[r].session})
    BY <1>1, <2>1 DEF DeleteCommit, Cascade, TypeOK
  <2>2. CASE PurgeCommit(r) /\ Cascade({t \in Sessions : MasterOf[t] = req[r].master})
    BY <1>1, <2>2 DEF PurgeCommit, Cascade, TypeOK
  <2> QED
    BY <1>3, <2>1, <2>2 DEF Delete
<1>4. CASE ~\E r \in Requests : Delete(r)
  <2>1. ASSUME Stored(s), Control PROVE Stored(s)'
    <3>1. ASSUME NEW r \in Requests, Progress(r) PROVE Stored(s)'
      BY <1>1, <2>1, <3>1, ProgressKeepsRows
    <3>2. ASSUME NEW r \in Requests, NEW t \in Sessions, HandlerEntry(r, t) PROVE Stored(s)'
      BY <2>1, <3>2 DEF HandlerEntry, StartCheck, PauseRead, ResumeRead, StopRead,
                        DeleteRead, Stored
    <3>3. ASSUME NEW r \in Requests, NEW m \in Masters, PurgeCancel(r, m) PROVE Stored(s)'
      BY <2>1, <3>3 DEF PurgeCancel, Stored
    <3>4. CASE (\E t \in Sessions : ListenerStep(t)) \/ ProcessStep
      BY <2>1, <3>4, UnattendedWrites DEF Stored, Gone
    <3>5. ASSUME NEW r \in Requests, DatabaseFails(r) PROVE Stored(s)'
      BY <2>1, <3>5 DEF DatabaseFails, Stored
    <3> QED
      BY <2>1, <3>1, <3>2, <3>3, <3>4, <3>5 DEF Control, LifeCycle, MarkError, ListenerStep
  <2>2. ASSUME ~Control PROVE UNCHANGED status
    BY <1>4, <2>2 DEF Next, Publish, Copy, QuietPoll, ListenerFinish, Receive, Prepare,
         PrepareFails, Commit, CommitFails, Raise, ListenerFault, Place, Send, Answer,
         AnswerLost, Broker, BrokerAccepts, BrokerDeclines, BrokerRefuses, RemoveCopier,
         sessionVars
  <2> QED
    BY <1>2, <2>1, <2>2 DEF Stored, Gone
<1> QED
  BY <1>2, <1>3, <1>4 DEF Stored, Gone

\* A dispatch begins with a flushed event, which needs the session's row.
LEMMA DispatchBegins ==
  ASSUME CopyTypes, BusyHasAck, Next, NEW s \in Sessions, work'[s].phase = "dispatch"
  PROVE  work[s].phase = "dispatch" \/ (Stored(s) /\ UNCHANGED status)
<1>1. ASSUME NEW t \in Sessions, Copy(t)
      PROVE  work[s].phase = "dispatch" \/ (Stored(s) /\ UNCHANGED status)
  <2>1. CASE Receive(t)
    BY <2>1, NoWorkTyped DEF Receive, CopyTypes, Work
  <2>2. CASE Prepare(t)
    BY <2>2 DEF Prepare, CopyTypes, sessionVars
  <2>3. CASE PrepareFails(t) \/ Commit(t) \/ CommitFails(t)
    BY <2>3, NoWorkTyped DEF PrepareFails, Commit, CommitFails, Raise, CopyTypes
  <2>4. ASSUME NEW a \in Accounts, Place(t, a)
        PROVE  work[s].phase = "dispatch"
    <3>1. work[t].phase = "dispatch"
      BY <2>4 DEF Place, Send, Answer, AnswerLost, Awaits
    <3>2. s # t => work'[s] = work[s]
      BY <2>4 DEF Place, Send, Answer, AnswerLost, CopyTypes
    <3> QED
      BY <3>1, <3>2
  <2> QED
    BY <1>1, <2>1, <2>2, <2>3, <2>4 DEF Copy
<1>2. CASE Control
  BY <1>2, DropTyped, NoWorkTyped DEF Control, LifeCycle
<1>3. CASE ~Control /\ ~\E t \in Sessions : Copy(t)
  BY <1>3 DEF Next, Publish, QuietPoll, copyVars, Broker, BrokerAccepts, BrokerDeclines,
       BrokerRefuses, Delete, Cascade, RemoveCopier
<1> QED
  BY <1>1, <1>2, <1>3

\* Only a dispatch sends.
LEMMA OutGrows ==
  ASSUME Next, NEW p \in Out', p \notin Out
  PROVE  \E s \in Sessions, a \in Accounts : Send(s, a) /\ p = Attempt(s, a)
<1>1. CASE \E s \in Sessions, a \in Accounts : Send(s, a)
  BY <1>1 DEF Send, Out, Answered
<1>2. CASE ~\E s \in Sessions, a \in Accounts : Send(s, a)
  BY <1>2 DEF Next, Publish, Copy, QuietPoll, copyVars, Receive, Prepare, PrepareFails,
       Commit, CommitFails, Raise, Place, Answer, AnswerLost, Broker, BrokerAccepts,
       BrokerDeclines, BrokerRefuses, Control, LifeCycle, Delete, Cascade, RemoveCopier,
       Out, Answered
<1> QED
  BY <1>1, <1>2

\* A dispatch that is not committed goes on, or what it sent is rolled back.
LEMMA DispatchGoesOn ==
  ASSUME CopyTypes, BusyHasAck, UnrecordedWork, LedgerNext, events' \subseteq events,
         NEW p \in Out, p \in Out' \ rolledBack', InDispatch(p),
         work'[p.session] = work[p.session] \/ work'[p.session].phase # "dispatch"
  PROVE  work'[p.session] = work[p.session]
<1> SUFFICES ASSUME work'[p.session].phase # "dispatch" PROVE FALSE
  OBVIOUS
<1>1. p.session \in Sessions /\ p = Attempt(p.session, p.account)
  BY AttemptOf DEF InDispatch
<1>2. Rollback(p.session)
  BY <1>1, CommitStoresEvent DEF Rollback, InDispatch
<1> QED
  BY <1>1, <1>2, HistoryGrows DEF InDispatch

\* Steps that commit nothing and send nothing.
LEMMA AbandonLedger ==
  ASSUME LedgerInv, LedgerNext, Out' \subseteq Out,
         UNCHANGED <<events, orders, copiers>>,
         \A s \in Sessions : work[s].phase = "dispatch" =>
           work'[s] = work[s] \/ work'[s].phase # "dispatch"
  PROVE  OutTraced' /\ OutTold' /\ OutSingle'
<1>1. CopyTypes /\ BusyHasAck /\ UnrecordedWork /\ FreshInv /\ Next
  BY DEF LedgerInv, TableInv, LedgerNext
<1>2. ASSUME NEW p \in Out' \ rolledBack'
      PROVE  /\ p \in Out \ rolledBack /\ p.session \in Sessions
             /\ status[p.session] = "DELETED" => status'[p.session] = "DELETED"
             /\ InDispatch(p) => work'[p.session] = work[p.session]
  <2>1. p \in Out \ rolledBack /\ p.session \in Sessions
    BY <1>1, <1>2, HistoryGrows, AttemptOf
  <2> QED
    BY <1>1, <1>2, <2>1, RowsStay, DispatchGoesOn DEF InDispatch
<1>3. OutTraced'
  BY <1>2 DEF LedgerInv, OutTraced, InDispatch, HasEvent, SentBy
<1>4. OutTold'
  <2> SUFFICES ASSUME NEW p \in Out' \ (unheard' \cup rolledBack')
               PROVE  \/ RecordedPlaced(p)'
                      \/ UnderWay(p)'
                      \/ status'[p.session] = "DELETED"
                      \/ p.account \notin copiers'
    BY DEF OutTold
  <2>1. p \in Out \ (unheard \cup rolledBack)
    BY <1>2, HistoryGrows
  <2>2. UnderWay(p) => InDispatch(p)
    BY <1>1, <2>1, AttemptOf DEF UnderWay, InDispatch, SentBy
  <2> QED
    BY <1>2, <2>1, <2>2 DEF LedgerInv, OutTold, RecordedPlaced, UnderWay
<1>5. OutSingle'
  BY <1>2 DEF LedgerInv, OutSingle
<1> QED
  BY <1>3, <1>4, <1>5

\* One more order goes out: of an ack without event in a session that is there.
LEMMA SendLedger ==
  ASSUME LedgerInv, LedgerNext, NEW s \in Sessions, NEW a \in Accounts, Send(s, a)
  PROVE  OutTraced' /\ OutTold' /\ OutSingle'
<1>0. PICK w : w = Attempt(s, a)
  OBVIOUS
<1>1. CopyTypes /\ UnrecordedWork
  BY DEF LedgerInv, TableInv
<1>2. Out' = Out \cup {w} /\ UNCHANGED <<status, events, orders, copiers>>
  BY <1>0 DEF Send, Out, Answered, sessionVars
<1>3. /\ \A t \in Sessions : work'[t].ack = work[t].ack /\ work'[t].phase = work[t].phase
      /\ \A t \in Sessions, b \in Accounts :
           work'[t].outcome[b] = IF t = s /\ b = a THEN "sent" ELSE work[t].outcome[b]
  BY <1>1 DEF Send, CopyTypes, Works
<1>4. /\ w.session = s /\ w.account = a /\ w.ack = work[s].ack
      /\ work[s].phase = "dispatch" /\ work[s].outcome[a] = "ready"
  BY <1>0 DEF Send, Attempt
<1>5. ASSUME NEW p \in Out' \ rolledBack', p # w
      PROVE  /\ p \in Out \ rolledBack /\ p.session \in Sessions /\ p.account \in Accounts
             /\ p \notin unheard' => p \notin unheard
  BY <1>1, <1>2, <1>5, HistoryGrows, AttemptOf
<1>6. OutTraced'
  <2>1. InDispatch(w)'
    BY <1>3, <1>4 DEF InDispatch, SentBy
  <2>2. ASSUME NEW p \in Out' \ rolledBack', p # w
        PROVE  (InDispatch(p) \/ HasEvent(p) \/ status[p.session] = "DELETED")'
    BY <1>2, <1>3, <1>4, <1>5, <2>2 DEF LedgerInv, OutTraced, InDispatch, HasEvent, SentBy
  <2> QED
    BY <2>1, <2>2 DEF OutTraced
<1>7. OutTold'
  <2>1. UnderWay(w)'
    BY <1>3, <1>4 DEF UnderWay
  <2>2. ASSUME NEW p \in Out' \ (unheard' \cup rolledBack'), p # w
        PROVE  \/ RecordedPlaced(p)'
               \/ UnderWay(p)'
               \/ status'[p.session] = "DELETED"
               \/ p.account \notin copiers'
    BY <1>2, <1>3, <1>4, <1>5, <2>2 DEF LedgerInv, OutTold, RecordedPlaced, UnderWay
  <2> QED
    BY <2>1, <2>2 DEF OutTold
<1>8. OutSingle'
  <2>1. ASSUME NEW q \in Out \ rolledBack, q.session = s, q.account = a,
               KeyOf[q.ack] = KeyOf[w.ack]
        PROVE  q = w
    <3>1. ~HasEvent(q)
      BY <1>1, <1>4, <2>1 DEF UnrecordedWork, Recorded, Busy, HasEvent
    <3>2. status[s] # "DELETED"
      BY <1>4 DEF LedgerInv, DispatchStored, Stored, Gone
    <3>3. InDispatch(q)
      BY <2>1, <3>1, <3>2 DEF LedgerInv, OutTraced
    <3> QED
      BY <1>0, <1>1, <2>1, <3>3, AttemptOf DEF InDispatch
  <2> SUFFICES ASSUME NEW p \in Out' \ rolledBack', NEW q \in Out' \ rolledBack',
                      p.session = q.session, p.account = q.account,
                      KeyOf[p.ack] = KeyOf[q.ack]
               PROVE  p = q
    BY DEF OutSingle
  <2>2. CASE p # w /\ q # w
    BY <1>5, <2>2 DEF LedgerInv, OutSingle
  <2>3. CASE p = w \/ q = w
    BY <1>4, <1>5, <2>1, <2>3
  <2> QED
    BY <2>2, <2>3
<1> QED
  BY <1>6, <1>7, <1>8

\* An answer, or that there will be none.
LEMMA AnswerLedger ==
  ASSUME LedgerInv, LedgerNext, NEW s \in Sessions, NEW a \in Accounts,
         Answer(s, a) \/ AnswerLost(s, a)
  PROVE  OutTraced' /\ OutTold' /\ OutSingle'
<1>1. CopyTypes
  BY DEF LedgerInv, TableInv
<1>2. Out' = Out /\ UNCHANGED <<status, events, orders, copiers>>
  BY DEF Answer, AnswerLost, Out, Answered, sessionVars
<1>3. PICK value \in {"PLACED", "FAILED"} : work' = [work EXCEPT ![s].outcome[a] = value]
  BY DEF Answer, AnswerLost
<1>4. /\ \A t \in Sessions : work'[t].ack = work[t].ack /\ work'[t].phase = work[t].phase
      /\ \A t \in Sessions, b \in Accounts :
           work'[t].outcome[b] = IF t = s /\ b = a THEN value ELSE work[t].outcome[b]
  BY <1>1, <1>3 DEF CopyTypes, Works
<1>5. work[s].outcome[a] = "sent"
  BY DEF Answer, AnswerLost, Awaits
<1>6. ASSUME NEW p \in Out' \ rolledBack'
      PROVE  /\ p \in Out \ rolledBack /\ p.session \in Sessions /\ p.account \in Accounts
             /\ p \notin unheard' => p \notin unheard
  BY <1>1, <1>2, HistoryGrows, AttemptOf
<1>7. OutTraced'
  BY <1>2, <1>4, <1>5, <1>6 DEF LedgerInv, OutTraced, InDispatch, HasEvent, SentBy
<1>8. OutTold'
  <2> SUFFICES ASSUME NEW p \in Out' \ (unheard' \cup rolledBack')
               PROVE  \/ RecordedPlaced(p)'
                      \/ UnderWay(p)'
                      \/ status'[p.session] = "DELETED"
                      \/ p.account \notin copiers'
    BY DEF OutTold
  <2>1. CASE UnderWay(p) /\ p.session = s /\ p.account = a
    <3>1. p = Attempt(s, a)
      BY <1>1, <1>6, <2>1, AttemptOf DEF UnderWay
    <3>2. ~AnswerLost(s, a)
      BY <3>1, HistoryGrows
    <3>3. Answer(s, a) /\ p \in placed \cup declined
      BY <1>6, <3>1, <3>2 DEF Answer, Out, Answered
    <3>4. work'[s].outcome[a] = "PLACED"
      BY <1>1, <3>1, <3>3 DEF Answer, CopyTypes, Works
    <3> QED
      BY <1>4, <1>6, <2>1, <3>4 DEF UnderWay
  <2>2. CASE ~(UnderWay(p) /\ p.session = s /\ p.account = a)
    BY <1>2, <1>4, <1>6, <2>2 DEF LedgerInv, OutTold, RecordedPlaced, UnderWay
  <2> QED
    BY <2>1, <2>2
<1>9. OutSingle'
  BY <1>6 DEF LedgerInv, OutSingle
<1> QED
  BY <1>7, <1>8, <1>9

\* A dispatch whose orders all have a result gets its event and its rows.
LEMMA CommitLedger ==
  ASSUME LedgerInv, LedgerNext, NEW s \in Sessions, Commit(s)
  PROVE  OutTraced' /\ OutTold' /\ OutSingle'
<1> DEFINE ack == work[s].ack
<1>1. CopyTypes /\ BusyHasAck
  BY DEF LedgerInv, TableInv
<1>2. /\ Out' = Out /\ UNCHANGED <<status, copiers>>
      /\ events \subseteq events' /\ orders \subseteq orders'
  BY DEF Commit, Out, Answered, sessionVars
<1>3. \A t \in Sessions : t # s => work'[t] = work[t]
  BY <1>1 DEF Commit, CopyTypes
<1>4. \E e \in events' : e.session = s /\ e.ack = ack
  <2> DEFINE e == [session |-> s, ack |-> ack, copied |-> EventStatus(work[s].outcome)]
  <2>1. e \in events'
    BY DEF Commit
  <2>2. e.session = s /\ e.ack = ack
    OBVIOUS
  <2> QED
    BY <2>1, <2>2
<1>5. ASSUME NEW a \in Accounts, work[s].outcome[a] \in {"sent", "PLACED"}
      PROVE  \E o \in orders' : /\ o.session = s /\ o.ack = ack
                                /\ o.account = a /\ o.status = "PLACED"
  <2> DEFINE o == [session |-> s, ack |-> ack, account |-> a, status |-> work[s].outcome[a]]
  <2>1. work[s].outcome[a] = "PLACED"
    BY <1>5 DEF Commit, AllAnswered
  <2>2. o \in orders'
    BY <2>1 DEF Commit, Targets
  <2> QED
    BY <2>1, <2>2
<1>6. ASSUME NEW p \in Out' \ rolledBack'
      PROVE  /\ p \in Out \ rolledBack /\ p.session \in Sessions /\ p.account \in Accounts
             /\ p \notin unheard' => p \notin unheard
  BY <1>1, <1>2, HistoryGrows, AttemptOf
<1>7. OutTraced'
  <2> SUFFICES ASSUME NEW p \in Out' \ rolledBack'
               PROVE  InDispatch(p)' \/ HasEvent(p)' \/ status'[p.session] = "DELETED"
    BY DEF OutTraced
  <2>1. CASE InDispatch(p) /\ p.session = s
    BY <1>4, <2>1 DEF InDispatch, HasEvent
  <2>2. CASE InDispatch(p) /\ p.session # s
    BY <1>3, <1>6, <2>2 DEF InDispatch, SentBy
  <2>3. CASE HasEvent(p) \/ status[p.session] = "DELETED"
    BY <1>2, <2>3 DEF HasEvent
  <2> QED
    BY <1>6, <2>1, <2>2, <2>3 DEF LedgerInv, OutTraced
<1>8. OutTold'
  <2> SUFFICES ASSUME NEW p \in Out' \ (unheard' \cup rolledBack')
               PROVE  \/ RecordedPlaced(p)'
                      \/ UnderWay(p)'
                      \/ status'[p.session] = "DELETED"
                      \/ p.account \notin copiers'
    BY DEF OutTold
  <2>1. CASE UnderWay(p) /\ p.session = s
    BY <1>5, <1>6, <2>1 DEF UnderWay, RecordedPlaced
  <2>2. CASE UnderWay(p) /\ p.session # s
    BY <1>3, <1>6, <2>2 DEF UnderWay
  <2>3. CASE RecordedPlaced(p) \/ status[p.session] = "DELETED" \/ p.account \notin copiers
    BY <1>2, <2>3 DEF RecordedPlaced
  <2> QED
    BY <1>6, <2>1, <2>2, <2>3 DEF LedgerInv, OutTold
<1>9. OutSingle'
  BY <1>6 DEF LedgerInv, OutSingle
<1> QED
  BY <1>7, <1>8, <1>9

\* A deletion takes a session's events and orders, and the session with them.
LEMMA DeleteLedger ==
  ASSUME LedgerInv, LedgerNext, NEW r \in Requests, Delete(r)
  PROVE  OutTraced' /\ OutTold' /\ OutSingle'
<1>1. CopyTypes /\ TypeOK /\ FreshInv /\ Next
  BY DEF LedgerInv, TableInv, FreshInv, LedgerNext
<1>2. PICK sessions :
        /\ Cascade(sessions)
        /\ \A s \in Sessions : s \in sessions /\ status[s] # "NONE" => status'[s] = "DELETED"
  <2>1. CASE DeleteCommit(r) /\ Cascade({req[r].session})
    BY <1>1, <2>1 DEF DeleteCommit, TypeOK
  <2>2. CASE PurgeCommit(r) /\ Cascade({s \in Sessions : MasterOf[s] = req[r].master})
    BY <1>1, <2>2 DEF PurgeCommit, TypeOK, Stored, Gone
  <2> QED
    BY <2>1, <2>2 DEF Delete
<1>3. /\ Out' = Out /\ UNCHANGED <<work, copiers>>
      /\ events' = {e \in events : e.session \notin sessions}
      /\ orders' = {o \in orders : o.session \notin sessions}
  BY <1>2 DEF Cascade, Out, Answered
<1>4. ASSUME NEW p \in Out' \ rolledBack'
      PROVE  /\ p \in Out \ rolledBack
             /\ p \notin unheard' => p \notin unheard
             /\ status[p.session] = "DELETED" => status'[p.session] = "DELETED"
             /\ p.session \in sessions => status'[p.session] = "DELETED"
  <2>1. /\ p \in Out \ rolledBack /\ p.session \in Sessions
        /\ p \notin unheard' => p \notin unheard
    BY <1>1, <1>3, HistoryGrows, AttemptOf
  <2>2. status[p.session] # "NONE"
    BY <2>1 DEF LedgerInv, OutKnown
  <2> QED
    BY <1>1, <1>2, <2>1, <2>2, RowsStay
<1>5. OutTraced'
  BY <1>3, <1>4 DEF LedgerInv, OutTraced, InDispatch, HasEvent, SentBy
<1>6. OutTold'
  BY <1>3, <1>4 DEF LedgerInv, OutTold, RecordedPlaced, UnderWay
<1>7. OutSingle'
  BY <1>4 DEF LedgerInv, OutSingle
<1> QED
  BY <1>5, <1>6, <1>7

\* The orders of a copy account go with it; its events stay.
LEMMA RemoveLedger ==
  ASSUME LedgerInv, LedgerNext, NEW a \in Accounts, RemoveCopier(a)
  PROVE  OutTraced' /\ OutTold' /\ OutSingle'
<1>1. /\ Out' = Out /\ UNCHANGED <<status, work, events>>
      /\ copiers' = copiers \ {a}
      /\ orders' = {o \in orders : o.account # a}
  BY DEF RemoveCopier, Out, Answered, sessionVars
<1>2. ASSUME NEW p \in Out' \ rolledBack'
      PROVE  /\ p \in Out \ rolledBack
             /\ p \notin unheard' => p \notin unheard
  BY <1>1, HistoryGrows
<1>3. OutTraced'
  BY <1>1, <1>2 DEF LedgerInv, OutTraced, InDispatch, HasEvent, SentBy
<1>4. OutTold'
  BY <1>1, <1>2 DEF LedgerInv, OutTold, RecordedPlaced, UnderWay
<1>5. OutSingle'
  BY <1>2 DEF LedgerInv, OutSingle
<1> QED
  BY <1>3, <1>4, <1>5

LEMMA StepLedger == LedgerInv /\ [LedgerNext]_ledgerVars => LedgerInv'
<1> SUFFICES ASSUME LedgerInv, [LedgerNext]_ledgerVars PROVE LedgerInv'
  OBVIOUS
<1> DEFINE Ledger == OutTraced' /\ OutTold' /\ OutSingle'
<1>1. CopyTypes /\ BusyHasAck /\ FreshInv /\ TableInv
  BY DEF LedgerInv, TableInv
<1>2. CASE UNCHANGED ledgerVars
  <2>1. UNCHANGED <<status, work, events, orders, copiers, wire, placed,
                  declined, unheard, rolledBack>>
        /\ UNCHANGED vars
    BY <1>2 DEF ledgerVars, vars, copyVars, sessionVars
  <2>2. DispatchStored' /\ OutKnown' /\ Ledger
    BY <2>1 DEF LedgerInv, DispatchStored, OutKnown, OutTraced, OutTold, OutSingle, Out, Answered,
                Stored, InDispatch, HasEvent, SentBy, RecordedPlaced, UnderWay
  <2>3. TableInv' /\ FreshInv'
    BY <1>1, <2>1, StepTables, StepFresh DEF vars
  <2> QED
    BY <2>2, <2>3 DEF LedgerInv
<1>3. CASE LedgerNext
  <2>1. Next
    BY <1>3 DEF LedgerNext
  <2>2. TableInv' /\ FreshInv'
    BY <1>1, <2>1, StepTables, LifeCycleStep, StepFresh
  <2>3. DispatchStored'
    BY <1>1, <2>1, DispatchBegins, RowsStay DEF LedgerInv, DispatchStored, Stored
  <2>4. OutKnown'
    <3> SUFFICES ASSUME NEW p \in Out' PROVE status'[p.session] # "NONE"
      BY DEF OutKnown
    <3>1. CASE p \in Out
      BY <1>1, <2>1, <3>1, RowsStay, AttemptOf DEF LedgerInv, OutKnown
    <3>2. CASE p \notin Out
      <4>1. PICK s \in Sessions, a \in Accounts : Send(s, a) /\ p = Attempt(s, a)
        BY <2>1, <3>2, OutGrows
      <4>2. p.session = s /\ Stored(s) /\ UNCHANGED status
        BY <4>1 DEF Send, Attempt, LedgerInv, DispatchStored, sessionVars
      <4> QED
        BY <4>2 DEF Stored, Gone
    <3> QED
      BY <3>1, <3>2
  <2>5. Ledger
    <3>1. ASSUME Out' \subseteq Out, UNCHANGED <<events, orders, copiers>>,
                 \A s \in Sessions : work[s].phase = "dispatch" =>
                   work'[s] = work[s] \/ work'[s].phase # "dispatch"
          PROVE  Ledger
      BY <1>3, <3>1, AbandonLedger
    <3>2. CASE \/ \E ack \in Acks : Publish(ack)
               \/ \E s \in Sessions : QuietPoll(s)
               \/ Broker
      <4>1. Out' \subseteq Out /\ UNCHANGED <<work, events, orders, copiers>>
        BY <3>2 DEF Publish, QuietPoll, copyVars, Broker, BrokerAccepts, BrokerDeclines,
             BrokerRefuses, Out, Answered
      <4> QED
        BY <3>1, <4>1
    <3>3. ASSUME NEW s \in Sessions, Copy(s) PROVE Ledger
      <4>1. CASE Receive(s) \/ Prepare(s)
        <5>1. UNCHANGED <<events, orders, copiers, wire, placed, declined>>
          BY <4>1 DEF Receive, Prepare
        <5>2. \A t \in Sessions : work[t].phase = "dispatch" => work'[t] = work[t]
          BY <1>1, <4>1 DEF Receive, Prepare, CopyTypes, Busy
        <5> QED
          BY <3>1, <5>1, <5>2 DEF Out, Answered
      <4>2. CASE PrepareFails(s) \/ CommitFails(s)
        <5>1. UNCHANGED <<events, orders, copiers, wire, placed, declined>>
          BY <4>2 DEF PrepareFails, CommitFails, Raise
        <5>2. \A t \in Sessions : work'[t] \in {work[t], NoWork}
          BY <1>1, <4>2 DEF PrepareFails, CommitFails, Raise, CopyTypes
        <5> QED
          BY <3>1, <5>1, <5>2, NoWorkTyped DEF Out, Answered
      <4>3. CASE Commit(s)
        BY <1>3, <4>3, CommitLedger
      <4>4. ASSUME NEW a \in Accounts, Place(s, a) PROVE Ledger
        BY <1>3, <4>4, SendLedger, AnswerLedger DEF Place
      <4> QED
        BY <3>3, <4>1, <4>2, <4>3, <4>4 DEF Copy
    <3>4. CASE Control
      <4>1. /\ UNCHANGED <<events, orders, copiers, wire, placed, declined>>
            /\ \A s \in Sessions : work'[s] \in {work[s], NoWork}
        BY <1>1, <3>4, DropTyped DEF Control, LifeCycle
      <4> QED
        BY <3>1, <4>1, NoWorkTyped DEF Out, Answered
    <3>5. ASSUME NEW r \in Requests, Delete(r) PROVE Ledger
      BY <1>3, <3>5, DeleteLedger
    <3>6. ASSUME NEW a \in Accounts, RemoveCopier(a) PROVE Ledger
      BY <1>3, <3>6, RemoveLedger
    <3> QED
      BY <2>1, <3>2, <3>3, <3>4, <3>5, <3>6 DEF Next
  <2> QED
    BY <2>2, <2>3, <2>4, <2>5 DEF LedgerInv
<1> QED
  BY <1>2, <1>3

LEMMA LedgerHolds == LedgerSpec => []LedgerInv
  BY InitLedger, StepLedger, PTL DEF LedgerSpec

(***************************************************************************)
(* An order the broker accepted is told of by a PLACED row when its        *)
(* dispatch is over, whatever failed around it: only a lost answer or a    *)
(* rollback can hide it, and only a deletion can take the row away.        *)
(***************************************************************************)
THEOREM AcceptedOrdersRecorded == LedgerSpec => []AcceptedIsRecorded
<1>1. LedgerInv => AcceptedIsRecorded
  BY DEF LedgerInv, OutTold, AcceptedIsRecorded, Out, Answered
<1> QED
  BY <1>1, LedgerHolds, PTL

(***************************************************************************)
(* Rollbacks are the only way to copy a master order twice to an account   *)
(* of a session: of the orders that were not rolled back there is one.     *)
(***************************************************************************)
THEOREM DoublesNeedRollback == LedgerSpec => []DoublesOnlyAfterRollback
<1>1. LedgerInv => DoublesOnlyAfterRollback
  BY DEF LedgerInv, OutSingle, DoublesOnlyAfterRollback, Out, Answered
<1> QED
  BY <1>1, LedgerHolds, PTL

-----------------------------------------------------------------------------
(***************************************************************************)
(* What was heard.  A row tells what its listener heard of an attempt, and *)
(* to survive the next attempt it needs that there is none: every ack is   *)
(* published once, so that a subscription holds it once and no session     *)
(* works on it a second time, not even after a rollback.                   *)
(***************************************************************************)
Told(p, said) ==
  /\ said = "PLACED" => p \in Answered \ unheard
  /\ said = "FAILED" => p \notin Out \ unheard
  /\ said \in {"SKIPPED", "none", "ready"} => p \notin Out
  /\ said = "sent" => p \notin unheard

\* Each ack a session has in its subscription, in hand or out is there once.
Once(s) ==
  /\ \A i, j \in 1 .. Len(inbox[s]) : inbox[s][i] = inbox[s][j] => i = j
  /\ \A i \in 1 .. Len(inbox[s]) :
       /\ inbox[s][i] \in published
       /\ Busy(s) => work[s].ack # inbox[s][i]
       /\ \A p \in Out : p.session = s => p.ack # inbox[s][i]
  /\ Busy(s) => work[s].ack \in published

OutPublished == \A p \in Out : p.ack \in published

\* A listener that has not come to its dispatch has sent nothing of this ack,
\* and a dispatch knows of each account what was heard.
WorkTold ==
  \A s \in Sessions, a \in Accounts :
    /\ work[s].phase = "looked_up" => Attempt(s, a) \notin Out
    /\ work[s].phase = "dispatch" => Told(Attempt(s, a), work[s].outcome[a])

RowsTold == \A o \in orders : Told(RowAttempt(o), o.status)

HeardInv ==
  /\ unheard \subseteq Out
  /\ \A s \in Sessions : Once(s)
  /\ OutPublished
  /\ WorkTold
  /\ RowsTold

LEMMA InitHeard == LedgerInit => HeardInv
<1> SUFFICES ASSUME LedgerInit PROVE HeardInv
  OBVIOUS
<1>1. Out = {} /\ unheard = {} /\ orders = {} /\ \A s \in Sessions : work[s] = NoWork /\ inbox[s] = <<>>
  BY DEF LedgerInit, Init, Out, Answered
<1> QED
  BY <1>1, NoWorkTyped
  DEF HeardInv, Once, OutPublished, WorkTold, RowsTold, Busy

\* Where the work in hand comes from.
LEMMA WorkStep ==
  ASSUME CopyTypes, BusyHasAck, Next, NEW s \in Sessions, Busy(s)'
  PROVE  \/ Receive(s) /\ work'[s] = Work(Head(inbox[s]), "looked_up")
         \/ Prepare(s)
         \/ \E a \in Accounts : Place(s, a)
         \/ work'[s] = work[s]
<1>1. ASSUME NEW t \in Sessions, Copy(t), t # s PROVE work'[s] = work[s]
  BY <1>1 DEF Copy, Receive, Prepare, PrepareFails, Commit, CommitFails, Raise, Place,
       Send, Answer, AnswerLost, CopyTypes
<1>2. CASE Copy(s)
  <2>1. CASE Receive(s)
    BY <2>1, NoWorkTyped DEF Receive, CopyTypes, Busy
  <2>2. CASE PrepareFails(s) \/ Commit(s) \/ CommitFails(s)
    BY <2>2, NoWorkTyped DEF PrepareFails, Commit, CommitFails, Raise, CopyTypes, Busy
  <2> QED
    BY <1>2, <2>1, <2>2 DEF Copy
<1>3. CASE Control
  BY <1>3, DropTyped, NoWorkTyped DEF Control, LifeCycle, Busy
<1>4. CASE ~Control /\ ~\E t \in Sessions : Copy(t)
  BY <1>4 DEF Next, Publish, QuietPoll, copyVars, Broker, BrokerAccepts, BrokerDeclines,
       BrokerRefuses, Delete, Cascade, RemoveCopier
<1> QED
  BY <1>1, <1>2, <1>3, <1>4

\* What becomes of a subscription.
LEMMA InboxStep ==
  ASSUME CopyTypes, Next, NEW s \in Sessions
  PROVE  \/ inbox'[s] \in {inbox[s], <<>>}
         \/ \E ack \in Acks : Publish(ack)
         \/ Receive(s)
<1>1. ASSUME NEW t \in Sessions, Copy(t)
      PROVE  inbox'[s] \in {inbox[s], <<>>} \/ Receive(s)
  BY <1>1 DEF Copy, Receive, Prepare, PrepareFails, Commit, CommitFails, Raise, Place,
       Send, Answer, AnswerLost, CopyTypes
<1>2. CASE Control
  BY <1>2 DEF Control, LifeCycle, DropAbandoned
<1>3. CASE ~Control /\ (~\E t \in Sessions : Copy(t)) /\ ~\E ack \in Acks : Publish(ack)
  BY <1>3 DEF Next, QuietPoll, copyVars, Broker, BrokerAccepts, BrokerDeclines,
       BrokerRefuses, Delete, Cascade, RemoveCopier
<1> QED
  BY <1>1, <1>2, <1>3

\* An answer stays an answer, and an ack stays published.
LEMMA AnswersStay ==
  ASSUME Next
  PROVE  Answered \subseteq Answered' /\ published \subseteq published'
  BY DEF Next, Publish, Copy, QuietPoll, copyVars, Receive, Prepare, PrepareFails,
       Commit, CommitFails, Raise, Place, Send, Answer, AnswerLost, Broker,
       BrokerAccepts, BrokerDeclines, BrokerRefuses, Control, LifeCycle, Delete,
       Cascade, RemoveCopier, Answered

\* An attempt goes unheard when its dispatch gives up on it.
LEMMA UnheardGrows ==
  ASSUME CopyTypes, LedgerNext, NEW p \in unheard', p \notin unheard
  PROVE  \E s \in Sessions, a \in Accounts :
           /\ p = Attempt(s, a) /\ AnswerLost(s, a)
           /\ work[s].phase = "dispatch" /\ work'[s].phase = "dispatch"
           /\ work'[s].outcome[a] = "FAILED" /\ work[s].outcome[a] = "sent"
<1>1. PICK s \in Sessions, a \in Accounts : p = Attempt(s, a) /\ AnswerLost(s, a)
  BY DEF LedgerNext
<1>2. /\ work'[s].outcome[a] = "FAILED" /\ work[s].outcome[a] = "sent"
      /\ work[s].phase = "dispatch" /\ work'[s].phase = "dispatch"
  BY <1>1 DEF AnswerLost, Awaits, CopyTypes, Works
<1> QED
  BY <1>1, <1>2

\* What was told stays true of an attempt that is neither sent nor given up.
LEMMA ToldKept ==
  ASSUME LedgerNext, NEW p, NEW said, Told(p, said),
         p \in Out' => p \in Out, p \in unheard' => p \in unheard
  PROVE  Told(p, said)'
<1>1. p \in Answered => p \in Answered'
  BY AnswersStay DEF LedgerNext
<1>2. p \in Out' /\ p \in unheard => p \in unheard'
  BY HistoryGrows
<1> QED
  BY <1>1, <1>2 DEF Told

\* The attempts of an ack that is recorded are over.
LEMMA RecordedIsOver ==
  ASSUME LedgerInv, LedgerNext, NEW p, Recorded(p.session, p.ack)
  PROVE  (p \in Out' => p \in Out) /\ (p \in unheard' => p \in unheard)
<1>1. CopyTypes /\ UnrecordedWork /\ Next
  BY DEF LedgerInv, TableInv, LedgerNext
<1>2. ASSUME NEW s \in Sessions, NEW a \in Accounts, p = Attempt(s, a) PROVE ~Busy(s)
  BY <1>1, <1>2 DEF UnrecordedWork, Attempt
<1>3. p \in Out' => p \in Out
  BY <1>1, <1>2, OutGrows DEF Send, Busy
<1>4. p \in unheard' => p \in unheard
  BY <1>1, <1>2, UnheardGrows DEF Busy
<1> QED
  BY <1>3, <1>4

-----------------------------------------------------------------------------
LEMMA StepOnce ==
  ASSUME LedgerInv, HeardInv, Next, NEW s \in Sessions
  PROVE  Once(s)'
<1>1. CopyTypes /\ BusyHasAck /\ Once(s) /\ OutPublished
  BY DEF LedgerInv, TableInv, HeardInv
<1>2. inbox[s] \in Seq(Acks) /\ inbox'[s] \in Seq(Acks)
  BY <1>1, NextCopyTyped DEF CopyTypes
<1>3. ASSUME NEW ack \in Acks, Publish(ack) PROVE Once(s)'
  <2>1. /\ ack \notin published /\ published' = published \cup {ack}
        /\ inbox'[s] \in {inbox[s], Append(inbox[s], ack)}
        /\ work' = work /\ Out' = Out
    BY <1>1, <1>3 DEF Publish, Out, Answered, CopyTypes
  <2>2. CASE inbox'[s] = inbox[s]
    BY <1>1, <2>1, <2>2 DEF Once, Busy
  <2>3. CASE inbox'[s] = Append(inbox[s], ack)
    <3>1. /\ Len(inbox'[s]) = Len(inbox[s]) + 1 /\ Len(inbox[s]) \in Nat
          /\ \A i \in 1 .. Len(inbox[s]) : inbox'[s][i] = inbox[s][i]
          /\ inbox'[s][Len(inbox[s]) + 1] = ack
      BY <1>2, <2>3
    <3>2. \A i \in 1 .. Len(inbox'[s]) : i \in 1 .. Len(inbox[s]) \/ i = Len(inbox[s]) + 1
      BY <3>1
    <3>3. \A p \in Out : p.ack # ack
      BY <1>1, <2>1 DEF OutPublished
    <3> QED
      BY <1>1, <2>1, <3>1, <3>2, <3>3 DEF Once, Busy
  <2> QED
    BY <2>1, <2>2, <2>3
<1>4. CASE Receive(s)
  <2>1. /\ inbox[s] # <<>> /\ inbox'[s] = Tail(inbox[s])
        /\ published' = published /\ Out' = Out
        /\ Busy(s)' => work'[s].ack = Head(inbox[s])
    BY <1>1, <1>4, NoWorkTyped DEF Receive, Out, Answered, CopyTypes, Busy, Work
  <2>2. /\ Len(inbox'[s]) = Len(inbox[s]) - 1 /\ Len(inbox[s]) \in Nat \ {0}
        /\ \A i \in 1 .. Len(inbox'[s]) : inbox'[s][i] = inbox[s][i + 1]
        /\ Head(inbox[s]) = inbox[s][1]
    BY <1>2, <2>1
  <2>3. \A i \in 1 .. Len(inbox'[s]) : i + 1 \in 1 .. Len(inbox[s]) /\ i + 1 # 1
    BY <2>2
  <2>4. 1 \in 1 .. Len(inbox[s])
    BY <2>2
  <2> QED
    BY <1>1, <2>1, <2>2, <2>3, <2>4 DEF Once
<1>5. CASE ~Receive(s) /\ ~\E ack \in Acks : Publish(ack)
  <2>1. inbox'[s] = inbox[s] \/ Len(inbox'[s]) = 0
    BY <1>1, <1>5, InboxStep
  <2>2. Busy(s)' => Busy(s) /\ work'[s].ack = work[s].ack
    BY <1>1, <1>5, WorkStep
    DEF Prepare, Place, Send, Answer, AnswerLost, Awaits, Busy, CopyTypes, Works
  <2>3. published \subseteq published'
    BY AnswersStay
  <2>4. \A p \in Out' : p \in Out \/ p.session # s \/ (Busy(s) /\ p.ack = work[s].ack)
    BY OutGrows DEF Send, Attempt, Busy
  <2> QED
    BY <1>1, <2>1, <2>2, <2>3, <2>4 DEF Once
<1> QED
  BY <1>3, <1>4, <1>5

LEMMA StepOutPublished ==
  ASSUME LedgerInv, HeardInv, Next
  PROVE  OutPublished'
<1> SUFFICES ASSUME NEW p \in Out' PROVE p.ack \in published'
  BY DEF OutPublished
<1>1. CASE p \in Out
  BY <1>1, AnswersStay DEF HeardInv, OutPublished
<1>2. CASE p \notin Out
  <2>1. PICK s \in Sessions, a \in Accounts : Send(s, a) /\ p = Attempt(s, a)
    BY <1>2, OutGrows
  <2>2. p.ack = work[s].ack /\ Busy(s)
    BY <2>1 DEF Send, Attempt, Busy
  <2> QED
    BY <2>2, AnswersStay DEF HeardInv, Once
<1> QED
  BY <1>1, <1>2

\* A row of a recorded ack stays as it is, whatever else goes on.
LEMMA RowToldOn ==
  ASSUME LedgerInv, HeardInv, LedgerNext, NEW o \in orders
  PROVE  Told(RowAttempt(o), o.status)'
<1>1. PICK p : p = RowAttempt(o)
  OBVIOUS
<1>2. Recorded(p.session, p.ack)
  BY <1>1 DEF LedgerInv, TableInv, RowsAgree, Recorded, RowAttempt
<1>3. Told(p, o.status)
  BY <1>1 DEF HeardInv, RowsTold
<1>4. Told(p, o.status)'
  BY <1>2, <1>3, RecordedIsOver, ToldKept
<1> QED
  BY <1>1, <1>4 DEF RowAttempt

LEMMA StepRowsTold ==
  ASSUME LedgerInv, HeardInv, LedgerNext
  PROVE  RowsTold'
<1>1. CopyTypes /\ Next
  BY DEF LedgerInv, TableInv, LedgerNext
<1>2. ASSUME NEW s \in Sessions, Commit(s) PROVE RowsTold'
  <2> SUFFICES ASSUME NEW o \in orders' PROVE Told(RowAttempt(o), o.status)'
    BY DEF RowsTold
  <2>1. CASE o \in orders
    BY <2>1, RowToldOn
  <2>2. ASSUME NEW a \in Targets(s),
               o = [session |-> s, ack |-> work[s].ack, account |-> a,
                    status |-> work[s].outcome[a]]
        PROVE  Told(RowAttempt(o), o.status)'
    <3>1. PICK p : p = Attempt(s, a)
      OBVIOUS
    <3>2. Told(p, o.status) /\ a \in Accounts
      BY <1>2, <2>2, <3>1 DEF HeardInv, WorkTold, Commit, AllAnswered, Targets
    <3>3. Out' = Out
      BY <1>2 DEF Commit, Out, Answered
    <3>4. p \in unheard' => p \in unheard
      <4> SUFFICES ASSUME p \in unheard', p \notin unheard PROVE FALSE
        OBVIOUS
      <4>1. PICK t \in Sessions, b \in Accounts :
              p = Attempt(t, b) /\ work'[t].phase = "dispatch"
        BY <1>1, UnheardGrows
      <4>2. t = s
        BY <3>1, <4>1 DEF Attempt
      <4>3. work'[s].phase = "idle"
        BY <1>1, <1>2, NoWorkTyped DEF Commit, CopyTypes
      <4> QED
        BY <4>1, <4>2, <4>3
    <3>5. Told(p, o.status)'
      BY <3>2, <3>3, <3>4, ToldKept
    <3>6. p = [session |-> o.session, ack |-> o.ack, account |-> o.account]
      BY <2>2, <3>1 DEF Attempt
    <3> QED
      BY <3>5, <3>6 DEF RowAttempt
  <2> QED
    BY <1>2, <2>1, <2>2 DEF Commit
<1>3. CASE ~\E s \in Sessions : Commit(s)
  <2>1. orders' \subseteq orders
    BY <1>1, <1>3 DEF Next, Publish, Copy, QuietPoll, copyVars, Receive, Prepare,
         PrepareFails, CommitFails, Raise, Place, Send, Answer, AnswerLost, Broker,
         BrokerAccepts, BrokerDeclines, BrokerRefuses, Control, LifeCycle, Delete,
         Cascade, RemoveCopier
  <2> QED
    BY <2>1, RowToldOn DEF RowsTold
<1> QED
  BY <1>2, <1>3

\* What a listener knows of an account, when it neither sends for it nor
\* hears of it.
LEMMA AccountKept ==
  ASSUME CopyTypes, LedgerNext, NEW s \in Sessions, NEW a \in Accounts, NEW p,
         p = Attempt(s, a), ~Place(s, a)
  PROVE  (p \in Out' => p \in Out) /\ (p \in unheard' => p \in unheard)
<1>1. \A t \in Sessions, b \in Accounts : p = Attempt(t, b) => t = s /\ b = a
  BY DEF Attempt
<1>2. p \in Out' => p \in Out
  BY <1>1, OutGrows DEF LedgerNext, Place
<1>3. p \in unheard' => p \in unheard
  BY <1>1, UnheardGrows DEF Place
<1> QED
  BY <1>2, <1>3

LEMMA StepWorkTold ==
  ASSUME LedgerInv, HeardInv, LedgerNext
  PROVE  WorkTold'
<1>1. CopyTypes /\ BusyHasAck /\ Next
  BY DEF LedgerInv, TableInv, LedgerNext
<1> SUFFICES ASSUME NEW s \in Sessions, NEW a \in Accounts, Busy(s)',
                    NEW p, p = Attempt(s, a)', NEW said, said = work'[s].outcome[a]
             PROVE  /\ work'[s].phase = "looked_up" => p \notin Out'
                    /\ work'[s].phase = "dispatch" => Told(p, said)'
  BY DEF WorkTold, Busy
<1>2. CASE Receive(s) /\ work'[s] = Work(Head(inbox[s]), "looked_up")
  <2>1. inbox[s] # <<>> /\ inbox[s] \in Seq(Acks) /\ Out' = Out
    BY <1>1, <1>2 DEF Receive, Out, Answered, CopyTypes
  <2>2. p.session = s /\ p.ack = inbox[s][1] /\ 1 \in 1 .. Len(inbox[s])
    BY <1>2, <2>1 DEF Work, Attempt
  <2>3. p \notin Out
    BY <2>2 DEF HeardInv, Once
  <2> QED
    BY <1>2, <2>1, <2>3 DEF Work
<1>3. CASE Prepare(s)
  <2>1. /\ work'[s].ack = work[s].ack /\ work'[s].phase = "dispatch"
        /\ said \in {"none", "SKIPPED", "ready"}
        /\ work[s].phase = "looked_up" /\ Out' = Out
    BY <1>1, <1>3 DEF Prepare, CopyTypes, Out, Answered
  <2>2. p = Attempt(s, a)
    BY <2>1 DEF Attempt
  <2>3. p \notin Out'
    BY <2>1, <2>2 DEF HeardInv, WorkTold
  <2> QED
    BY <2>1, <2>3 DEF Told
<1>4. ASSUME NEW b \in Accounts, Place(s, b)
      PROVE  work'[s].phase = "dispatch" /\ Told(p, said)'
  <2>1. /\ work'[s].ack = work[s].ack /\ work'[s].phase = "dispatch"
        /\ work[s].phase = "dispatch"
        /\ a # b => said = work[s].outcome[a]
    BY <1>1, <1>4
    DEF Place, Send, Answer, AnswerLost, Awaits, CopyTypes, Works
  <2>2. p = Attempt(s, a) /\ Told(p, work[s].outcome[a])
    BY <2>1 DEF Attempt, HeardInv, WorkTold
  <2>3. CASE Send(s, a)
    <3>1. said = "sent" /\ work[s].outcome[a] = "ready"
      BY <1>1, <2>3 DEF Send, CopyTypes, Works
    <3>2. p \notin unheard
      BY <2>2, <3>1 DEF Told, HeardInv
    <3>3. p \notin unheard'
      <4> SUFFICES ASSUME p \in unheard' PROVE FALSE
        OBVIOUS
      <4>1. PICK t \in Sessions, c \in Accounts :
              p = Attempt(t, c) /\ work[t].outcome[c] = "sent"
        BY <1>1, <3>2, UnheardGrows
      <4>2. t = s /\ c = a
        BY <2>2, <4>1 DEF Attempt
      <4> QED
        BY <3>1, <4>1, <4>2
    <3> QED
      BY <2>1, <3>1, <3>3 DEF Told
  <2>4. CASE Answer(s, a) \/ AnswerLost(s, a)
    <3>1. /\ work[s].outcome[a] = "sent" /\ Out' = Out /\ Answered' = Answered
          /\ said \in {"PLACED", "FAILED"}
      BY <1>1, <2>4 DEF Answer, AnswerLost, Awaits, Out, Answered, CopyTypes, Works
    <3>2. p \notin unheard
      BY <2>2, <3>1 DEF Told
    <3>3. CASE AnswerLost(s, a)
      <4>1. said = "FAILED"
        BY <1>1, <3>3 DEF AnswerLost, CopyTypes, Works
      <4>2. p \in Out' => p \in unheard'
        BY <2>2, <3>3, HistoryGrows
      <4> QED
        BY <2>1, <4>1, <4>2 DEF Told
    <3>4. CASE Answer(s, a) /\ ~AnswerLost(s, a)
      <4>1. said = IF p \in Answered THEN "PLACED" ELSE "FAILED"
        BY <1>1, <2>2, <3>4 DEF Answer, Answered, CopyTypes, Works
      <4>2. p \notin wire
        BY <2>2, <3>4 DEF Answer
      <4>3. p \notin unheard'
        <5> SUFFICES ASSUME p \in unheard' PROVE FALSE
          OBVIOUS
        <5>1. PICK t \in Sessions, c \in Accounts : p = Attempt(t, c) /\ AnswerLost(t, c)
          BY <1>1, <3>2, UnheardGrows
        <5>2. t = s /\ c = a
          BY <2>2, <5>1 DEF Attempt
        <5> QED
          BY <3>4, <5>1, <5>2
      <4> QED
        BY <2>1, <3>1, <4>1, <4>2, <4>3 DEF Told, Out
    <3> QED
      BY <2>4, <3>3, <3>4
  <2>5. CASE ~Place(s, a)
    <3>1. a # b
      BY <1>4, <2>5
    <3>2. Told(p, said)
      BY <2>1, <2>2, <3>1
    <3> QED
      BY <1>1, <2>1, <2>2, <2>5, <3>2, AccountKept, ToldKept
  <2> QED
    BY <2>3, <2>4, <2>5 DEF Place
<1>5. CASE work'[s] = work[s] /\ ~\E b \in Accounts : Place(s, b)
  <2>1. p = Attempt(s, a) /\ said = work[s].outcome[a]
    BY <1>5 DEF Attempt
  <2>2. (p \in Out' => p \in Out) /\ (p \in unheard' => p \in unheard)
    BY <1>1, <1>5, <2>1, AccountKept
  <2>3. work[s].phase = "dispatch" => Told(p, said)
    BY <2>1 DEF HeardInv, WorkTold
  <2>4. work[s].phase = "dispatch" => Told(p, said)'
    BY <2>2, <2>3, ToldKept
  <2> QED
    BY <1>5, <2>1, <2>2, <2>4 DEF HeardInv, WorkTold
<1> QED
  BY <1>1, <1>2, <1>3, <1>4, <1>5, WorkStep

LEMMA StepHeard == LedgerInv /\ HeardInv /\ [LedgerNext]_ledgerVars => HeardInv'
<1> SUFFICES ASSUME LedgerInv, HeardInv, [LedgerNext]_ledgerVars PROVE HeardInv'
  OBVIOUS
<1>1. CASE LedgerNext
  <2>1. unheard' \subseteq Out' /\ Next
    BY <1>1 DEF LedgerNext
  <2> QED
    BY <1>1, <2>1, StepOnce, StepOutPublished, StepWorkTold, StepRowsTold DEF HeardInv
<1>2. CASE UNCHANGED ledgerVars
  <2>1. UNCHANGED <<published, inbox, work, orders, wire, placed, declined, unheard>>
    BY <1>2 DEF ledgerVars, vars, copyVars
  <2> QED
    BY <2>1 DEF HeardInv, Once, OutPublished, WorkTold, RowsTold, Told, Busy, Attempt,
                Out, Answered
<1> QED
  BY <1>1, <1>2

(***************************************************************************)
(* The copied orders tell what was heard: PLACED of an answered request,   *)
(* FAILED of none that was heard to be answered, SKIPPED of none at all.   *)
(***************************************************************************)
THEOREM RowsAreHeard == LedgerSpec => []RowsTellWhatWasHeard
<1>1. HeardInv => RowsTellWhatWasHeard
  BY DEF HeardInv, RowsTold, Told, RowsTellWhatWasHeard
<1>2. LedgerSpec => []HeardInv
  BY InitHeard, StepHeard, LedgerHolds, PTL DEF LedgerSpec
<1> QED
  BY <1>1, <1>2, PTL

-----------------------------------------------------------------------------
(***************************************************************************)
(* Who waits for whom.  A DELETE waits for the uncommitted event row of a  *)
(* session, the messages of a subscription wait for their listener, and a  *)
(* listener waits for nobody but the broker.  So what is left behind by a  *)
(* listener that is gone would be waited for in vain.                      *)
(***************************************************************************)
WorkAttended ==
  \A s \in Sessions : Busy(s) \/ inbox[s] # <<>> => listener[s] = "polling"

LEMMA AttendedStep ==
  ASSUME CopyTypes, listener \in [Sessions -> ListenerState], WorkAttended, [Next]_vars
  PROVE  WorkAttended'
<1>1. \A s \in Sessions : Busy(s) \/ inbox[s] # <<>> => listener[s] = "polling"
  BY DEF WorkAttended
<1>2. ASSUME UNCHANGED <<listener, work, inbox>> PROVE WorkAttended'
  BY <1>1, <1>2 DEF WorkAttended, Busy
<1>3. ASSUME NEW ack \in Acks, Publish(ack) PROVE WorkAttended'
  <2>1. UNCHANGED <<listener, work>>
        /\ \A s \in Sessions : inbox'[s] # inbox[s] => listener[s] = "polling"
    BY <1>3 DEF Publish, sessionVars, CopyTypes
  <2> QED
    BY <1>1, <2>1 DEF WorkAttended, Busy
<1>4. ASSUME NEW s \in Sessions, Copy(s) PROVE WorkAttended'
  <2>1. \A t \in Sessions \ {s} :
          work'[t] = work[t] /\ inbox'[t] = inbox[t] /\ listener'[t] = listener[t]
    BY <1>4 DEF Copy, Receive, Prepare, PrepareFails, CommitFails, Raise, ListenerFault,
         Commit, Place, Send, Answer, AnswerLost, sessionVars, CopyTypes
  <2>2. Busy(s)' \/ inbox'[s] # <<>> => listener'[s] = "polling"
    <3>1. CASE PrepareFails(s) \/ CommitFails(s)
      <4>1. work'[s] = NoWork /\ inbox'[s] = <<>>
        BY <3>1 DEF PrepareFails, CommitFails, Raise, CopyTypes
      <4> QED
        BY <4>1, NoWorkTyped DEF Busy
    <3>2. CASE ~(PrepareFails(s) \/ CommitFails(s))
      <4>1. listener' = listener
        BY <1>4, <3>2 DEF Copy, Receive, Prepare, Commit, Place, Send, Answer, AnswerLost,
             sessionVars
      <4>2. listener[s] = "polling"
        BY <1>1, <1>4, <3>2 DEF Copy, Receive, Prepare, Commit, AllAnswered, Place, Send, Answer,
             AnswerLost, Awaits, Busy
      <4> QED
        BY <4>1, <4>2
    <3> QED
      BY <3>1, <3>2
  <2> QED
    BY <1>1, <2>1, <2>2 DEF WorkAttended, Busy
<1>5. ASSUME NEW s \in Sessions, QuietPoll(s) PROVE WorkAttended'
  <2>1. /\ ~Busy(s) /\ inbox[s] = <<>> /\ UNCHANGED <<work, inbox>>
        /\ \A t \in Sessions \ {s} : listener'[t] = listener[t]
    BY <1>5 DEF QuietPoll, ListenerFinish, copyVars
  <2> QED
    BY <1>1, <2>1 DEF WorkAttended, Busy
<1>6. CASE Control
  <2>1. DropAbandoned
    BY <1>6 DEF Control, LifeCycle
  <2> QED
    BY <2>1, NoWorkTyped DEF DropAbandoned, WorkAttended, Busy
<1>7. ASSUME \/ Broker
             \/ \E r \in Requests : Delete(r)
             \/ \E a \in Accounts : RemoveCopier(a)
             \/ UNCHANGED vars
      PROVE  WorkAttended'
  <2>1. UNCHANGED <<listener, work, inbox>>
    BY <1>7 DEF Broker, BrokerAccepts, BrokerDeclines, BrokerRefuses, Delete,
         DeleteCommit, PurgeCommit, Cascade, RemoveCopier, sessionVars, copyVars, vars
  <2> QED
    BY <1>2, <2>1
<1> QED
  BY <1>3, <1>4, <1>5, <1>6, <1>7 DEF Next

(***************************************************************************)
(* The safety half of InboxDrains and RequestsReturn: a request is at a    *)
(* place its handler goes on from, and a transaction or a message that     *)
(* others wait for has a listener that goes on with it, whatever is        *)
(* cancelled, fails or restarts in between.                                *)
(***************************************************************************)
THEOREM NothingWaitsInVain == Spec => [](RequestsPlaced /\ WorkAttended)
<1>1. Init => WorkAttended
  BY NoWorkTyped DEF Init, WorkAttended, Busy
<1>2. TableInv => CopyTypes
  BY DEF TableInv
<1>3. TypeOK => listener \in [Sessions -> ListenerState]
  BY DEF TypeOK
<1>4. Spec => []TypeOK
  BY ImplementsSessions, TypeCorrect, PTL
<1>5. Spec => []RequestsPlaced
  BY ImplementsSessions, RequestsGoOn, PTL
<1>6. Spec => []WorkAttended
  BY <1>1, <1>2, <1>3, <1>4, AttendedStep, TablesHold, PTL DEF Spec
<1> QED
  BY <1>5, <1>6, PTL
=============================================================================
