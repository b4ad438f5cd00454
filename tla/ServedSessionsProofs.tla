------------------------ MODULE ServedSessionsProofs ------------------------
(***************************************************************************)
(* The proof that, however requests overlap and whatever fails, a session  *)
(* that says RUNNING is listened for unless one of the eight places of     *)
(* ServedSessions gave up on it.                                           *)
(***************************************************************************)
EXTENDS ServedSessions, CopySessionsProofs

-----------------------------------------------------------------------------
(***************************************************************************)
(* The inductive invariant.  A RUNNING session without a listener is one   *)
(* that a request in flight, or the startup code, has still to attend to.  *)
(* A request discharges what it owes in every way it can go on: it starts  *)
(* the listener, makes the session anything but RUNNING, or gives up on it *)
(* at one of the eight places.                                             *)
(***************************************************************************)
Heard(s) == listener[s] \in {"polling", "failing"}

\* start and resume are about to start the listener; the deletion of the
\* session or of its master has cancelled it and is about to remove the row.
OwedBy(r, s) ==
  \/ /\ req[r].session = s
     /\ \/ req[r].op \in {"start", "resume"} /\ req[r].pc \in {"refresh", "connect", "task"}
        \/ req[r].op = "delete" /\ req[r].pc \in {"disconnect", "commit"}
  \/ PurgePending(r, s)

Owed(s) == \E r \in Requests : OwedBy(r, s)

\* resume_running_sessions will come to it.
AwaitsBoot(s) ==
  \/ api = "down"
  \/ api = "booting" /\ s \in boot.todo \cup boot.failed

Attended(s) == Heard(s) \/ Owed(s) \/ AwaitsBoot(s)

ServedInv ==
  \A s \in Sessions \ abandoned : status[s] = "RUNNING" => Attended(s)

Inv == TypeOK /\ ServedInv

\* What one step owes to one session.
StepOwes(s) ==
  status'[s] = "RUNNING" => Heard(s)' \/ Owed(s)' \/ AwaitsBoot(s)' \/ LeftBehind(s)

-----------------------------------------------------------------------------
\* The history variable forgets a session only where the invariant covers it.
LEMMA HistoryStep ==
  ASSUME ServedNext, \A s \in Sessions \ abandoned : StepOwes(s)
  PROVE  ServedInv'
<1> SUFFICES ASSUME NEW s \in Sessions, s \notin abandoned', status'[s] = "RUNNING", ~Heard(s)'
             PROVE  Owed(s)' \/ AwaitsBoot(s)'
  BY DEF ServedInv, Attended
<1>1. listener'[s] # "polling"  BY DEF Heard
<1>2. s \notin abandoned /\ ~LeftBehind(s)  BY <1>1 DEF ServedNext
<1> QED  BY <1>2 DEF StepOwes

\* Moving on and returning, in the slot of the request.
LEMMA SlotMoves ==
  ASSUME TypeOK, NEW r \in Requests
  PROVE  /\ Return(r) => req'[r] = Idle
         /\ \A pc \in Pcs : Goto(r, pc) /\ req[r].op \in Ops =>
              req'[r].op = req[r].op /\ req'[r].pc = pc /\ req'[r].session = req[r].session
         /\ \A pc \in Pcs : Goto(r, pc) /\ req[r].op = "purge" =>
              req'[r].op = "purge" /\ req'[r].pc = pc /\ req'[r].session = NoSession
<1>1. Return(r) => req'[r] = Idle  BY DEF TypeOK, Return
<1>2. ASSUME NEW pc \in Pcs, Goto(r, pc)  PROVE req'[r] = [req[r] EXCEPT !.pc = pc]
  BY <1>2 DEF TypeOK, Goto
<1>3. req[r].op \in Ops => req[r] \in SessionRequest  BY InFlight
<1>4. req[r].op = "purge" => req[r] \in PurgeRequest  BY PurgeInFlight
<1> QED  BY <1>1, <1>2, <1>3, <1>4 DEF SessionRequest, PurgeRequest

\* A step of a request that neither owes the session anything nor wakes or
\* silences it: whoever attends to the session still does.
LEMMA Bystander ==
  ASSUME Inv, NEW r \in Requests, HandlerStep(r), api = "up",
         NEW s \in Sessions \ abandoned, ~OwedBy(r, s),
         status'[s] = "RUNNING" => status[s] = "RUNNING", Heard(s) => Heard(s)'
  PROVE  StepOwes(s)
<1> SUFFICES ASSUME status[s] = "RUNNING", ~Heard(s)
             PROVE  Owed(s)'
  BY DEF StepOwes
<1>1. Owed(s)
  BY DEF Inv, ServedInv, Attended, AwaitsBoot
<1>2. PICK q \in Requests : OwedBy(q, s)
  BY <1>1 DEF Owed
<1>3. q # r
  BY <1>2
<1>4. req'[q] = req[q]
  BY <1>3, OtherSlots DEF Inv
<1>5. OwedBy(q, s)'
  BY <1>2, <1>4 DEF OwedBy, PurgePending
<1> QED
  BY <1>5 DEF Owed

\* An arriving request changes no row and no listener.
LEMMA EntryServes ==
  ASSUME Inv, NEW r \in Requests, NEW t \in Sessions, HandlerEntry(r, t),
         NEW s \in Sessions \ abandoned
  PROVE  StepOwes(s)
<1>1. UNCHANGED <<status, listener>> /\ api = "up" /\ req[r] = Idle
  BY DEF HandlerEntry, StartCheck, PauseRead, ResumeRead, StopRead, DeleteRead, Enter
<1>2. ~OwedBy(r, s)
  BY <1>1 DEF OwedBy, PurgePending, Idle
<1>3. HandlerStep(r)
  BY DEF HandlerStep
<1> QED  BY <1>1, <1>2, <1>3, Bystander DEF Heard

\* The commit of a status by a request: the row has it, or is gone.
LEMMA CommitIs ==
  ASSUME TypeOK, NEW r \in Requests, req[r].op \in Ops, NEW value, NEW pc \in Pcs \cup {"idle"},
         CommitStatus(r, value, pc)
  PROVE  /\ \A s \in Sessions : s # req[r].session => status'[s] = status[s]
         /\ status'[req[r].session] = value \/ status'[req[r].session] \in Gone
         /\ \/ req'[r] = Idle
            \/ /\ pc # "idle" /\ req'[r].op = req[r].op /\ req'[r].pc = pc
               /\ req'[r].session = req[r].session
<1>1. req[r].session \in Sessions  BY InFlight
<1>2. status \in [Sessions -> Status]  BY DEF TypeOK
<1> QED  BY <1>1, <1>2, SlotMoves DEF CommitStatus, Stored

\* start, pause and resume: the session they made RUNNING is theirs until the
\* listener runs, or it is left behind.
LEMMA StartServes ==
  ASSUME Inv, NEW r \in Requests,
         \/ StartCommit(r) \/ PauseCommit(r) \/ ResumeCommit(r) \/ Connect(r)
         \/ ConnectRefused(r) \/ ConnectUnreachable(r) \/ StartTask(r),
         NEW s \in Sessions \ abandoned
  PROVE  StepOwes(s)
<1>1. TypeOK /\ HandlerStep(r)  BY DEF Inv, HandlerStep, HandlerProgress
<1>2. req[r].op \in {"start", "pause", "resume"} /\ req[r].op \in Ops /\ api = "up"
  BY DEF StartCommit, PauseCommit, ResumeCommit, Connect, Connecting, ConnectRefused,
         ConnectUnreachable, StartTask, At, Ops
<1>3. PICK t \in Sessions : t = req[r].session  BY <1>1, <1>2, InFlight
<1>4. s # t => ~OwedBy(r, s)
  BY <1>2, <1>3 DEF OwedBy, PurgePending
<1>5. status \in [Sessions -> Status] /\ listener \in [Sessions -> ListenerState]
  BY <1>1 DEF TypeOK
<1>6. ASSUME s # t, status'[s] = status[s], listener'[s] = listener[s]
      PROVE  StepOwes(s)
  BY <1>1, <1>2, <1>4, <1>6, Bystander DEF Heard
<1>7. CASE StartCommit(r) \/ ResumeCommit(r)
  <2>1. UNCHANGED listener /\ req[r].op \in {"start", "resume"} /\ req[r].pc = "commit"
    BY <1>7 DEF StartCommit, ResumeCommit, At
  <2>2. /\ s # t => status'[s] = status[s]
        /\ \/ req'[r] = Idle /\ (status'[t] \in Gone \/ status'[t] = status[t])
           \/ req'[r].op = req[r].op /\ req'[r].pc = "refresh" /\ req'[r].session = t
    BY <1>1, <1>2, <1>3, <1>5, <1>7, CommitIs, SlotMoves
    DEF StartCommit, ResumeCommit, Pcs, CommitStatus, Stored
  <2>3. ASSUME s = t, req'[r].op = req[r].op, req'[r].pc = "refresh", req'[r].session = t
        PROVE  StepOwes(s)
    <3>1. OwedBy(r, s)'  BY <2>1, <2>3 DEF OwedBy
    <3> QED  BY <3>1 DEF StepOwes, Owed
  <2>4. ASSUME s = t, status'[t] \in Gone \/ status'[t] = status[t]
        PROVE  StepOwes(s)
    <3>1. ~OwedBy(r, s)  BY <1>2, <2>1 DEF OwedBy, PurgePending
    <3>2. status'[s] = "RUNNING" => status[s] = "RUNNING"  BY <2>4 DEF Gone
    <3> QED  BY <1>1, <1>2, <2>1, <3>1, <3>2, Bystander DEF Heard
  <2> QED  BY <1>6, <2>1, <2>2, <2>3, <2>4
<1>8. CASE PauseCommit(r) \/ ConnectRefused(r)
  <2>1. UNCHANGED listener  BY <1>8 DEF PauseCommit, ConnectRefused
  <2>2. (s # t => status'[s] = status[s]) /\ status'[t] # "RUNNING"
    BY <1>1, <1>2, <1>3, <1>8, CommitIs DEF PauseCommit, ConnectRefused, Gone
  <2> QED  BY <1>6, <2>1, <2>2 DEF StepOwes
<1>9. CASE Connect(r)
  <2>1. UNCHANGED <<status, listener>> /\ req[r].op \in {"start", "resume"}
    BY <1>9 DEF Connect, Connecting, At
  <2>2. req'[r].op = req[r].op /\ req'[r].pc = "task" /\ req'[r].session = t
    BY <1>1, <1>2, <1>3, <1>9, SlotMoves DEF Connect, Pcs
  <2>3. OwedBy(r, t)'  BY <2>1, <2>2 DEF OwedBy
  <2> QED  BY <1>6, <2>1, <2>3 DEF StepOwes, Owed
<1>10. CASE ConnectUnreachable(r)
  <2>1. UNCHANGED <<status, listener>>  BY <1>10 DEF ConnectUnreachable
  <2>2. ConnectGaveUp(t)  BY <1>3, <1>10 DEF ConnectGaveUp
  <2> QED  BY <1>6, <2>1, <2>2 DEF StepOwes, LeftBehind
<1>11. CASE StartTask(r)
  <2>1. /\ listener'[t] = IF listener[t] \in {"none", "raised"} THEN "polling" ELSE listener[t]
        /\ s # t => listener'[s] = listener[s]
        /\ UNCHANGED status
    BY <1>3, <1>5, <1>11 DEF StartTask
  <2>2. listener[t] \in {"closing", "raising"} => OldTaskInTheWay(t)
    BY <1>3, <1>11 DEF OldTaskInTheWay
  <2>3. Heard(t)' \/ LeftBehind(t)
    BY <1>5, <2>1, <2>2 DEF LeftBehind, Heard, ListenerState
  <2> QED  BY <1>6, <2>1, <2>3 DEF StepOwes
<1> QED  BY <1>7, <1>8, <1>9, <1>10, <1>11

\* Stop and deletion, and the refresh they share with the others: the
\* listener goes with a session that is not RUNNING, will be DELETED or is
\* left behind.
LEMMA StopServes ==
  ASSUME Inv, NEW r \in Requests,
         \/ Refresh(r) \/ StopCommit(r) \/ CancelListener(r) \/ Disconnect(r)
         \/ DisconnectRefused(r) \/ DisconnectUnreachable(r) \/ DeleteCommit(r),
         NEW s \in Sessions \ abandoned
  PROVE  StepOwes(s)
<1>1. TypeOK /\ HandlerStep(r)  BY DEF Inv, HandlerStep, HandlerProgress
<1>2. req[r].op \in {"start", "resume", "stop", "delete"} /\ req[r].op \in Ops /\ api = "up"
  BY DEF Refresh, StopCommit, CancelListener, Disconnect, Disconnecting, DisconnectRefused,
         DisconnectUnreachable, DeleteCommit, At, Ops
<1>3. PICK t \in Sessions : t = req[r].session  BY <1>1, <1>2, InFlight
<1>4. s # t \/ req[r].op = "stop" => ~OwedBy(r, s)
  BY <1>2, <1>3 DEF OwedBy, PurgePending
<1>5. status \in [Sessions -> Status] /\ listener \in [Sessions -> ListenerState]
  BY <1>1 DEF TypeOK
<1>6. ASSUME s # t \/ req[r].op = "stop", status'[s] = status[s], listener'[s] = listener[s]
      PROVE  StepOwes(s)
  BY <1>1, <1>2, <1>4, <1>6, Bystander DEF Heard
<1>7. CASE Refresh(r)
  <2>1. UNCHANGED <<status, listener>> /\ req[r].op \in {"start", "resume", "stop"}
    BY <1>7 DEF Refresh, At
  <2>2. \/ status[t] \in Gone
        \/ req[r].op = "stop"
        \/ req'[r].op = req[r].op /\ req'[r].session = t /\ req'[r].pc = "connect"
    BY <1>1, <1>2, <1>3, <1>7, SlotMoves DEF Refresh, Pcs, Stored
  <2>3. ASSUME req[r].op # "stop", req'[r].op = req[r].op, req'[r].session = t,
               req'[r].pc = "connect"
        PROVE  Owed(t)'
    <3>1. OwedBy(r, t)'  BY <2>1, <2>3 DEF OwedBy
    <3> QED  BY <3>1 DEF Owed
  <2>4. status[t] \in Gone => status'[t] # "RUNNING"  BY <2>1 DEF Gone
  <2> QED  BY <1>6, <2>1, <2>2, <2>3, <2>4 DEF StepOwes
<1>8. CASE StopCommit(r)
  <2>1. UNCHANGED listener  BY <1>8 DEF StopCommit
  <2>2. (s # t => status'[s] = status[s]) /\ status'[t] # "RUNNING"
    BY <1>1, <1>2, <1>3, <1>8, CommitIs DEF StopCommit, Gone, Pcs
  <2> QED  BY <1>6, <2>1, <2>2 DEF StepOwes
<1>9. CASE CancelListener(r)
  <2>1. UNCHANGED status /\ req[r].op \in {"stop", "delete"} /\ req[r].pc = "cancel"
    BY <1>9 DEF CancelListener, At
  <2>2. /\ s # t => listener'[s] = listener[s]
        /\ \/ listener[t] = "raised"
           \/ req'[r].op = req[r].op /\ req'[r].pc = "disconnect" /\ req'[r].session = t
    BY <1>1, <1>2, <1>3, <1>5, <1>9, SlotMoves DEF CancelListener, Pcs
  <2>3. CASE s # t
    BY <1>6, <2>1, <2>2, <2>3
  <2>4. CASE s = t /\ req[r].op = "stop"
    <3>1. status[t] = "RUNNING" => StopOverwritten(t)
      BY <1>3, <1>9, <2>4 DEF StopOverwritten
    <3> QED  BY <2>1, <2>4, <3>1 DEF StepOwes, LeftBehind
  <2>5. CASE s = t /\ listener[t] = "raised"
    <3>1. ~Heard(s) /\ ~OwedBy(r, s)
      BY <2>1, <2>5 DEF Heard, OwedBy, PurgePending
    <3> QED  BY <1>1, <1>2, <2>1, <3>1, Bystander
  <2>6. CASE s = t /\ req[r].op = "delete" /\ req'[r].op = req[r].op
             /\ req'[r].pc = "disconnect" /\ req'[r].session = t
    <3>1. OwedBy(r, s)'  BY <2>6 DEF OwedBy
    <3> QED  BY <3>1 DEF StepOwes, Owed
  <2> QED  BY <2>1, <2>2, <2>3, <2>4, <2>5, <2>6
<1>10. CASE Disconnect(r) \/ DisconnectRefused(r)
  <2>1. UNCHANGED <<status, listener>> /\ req[r].op \in {"stop", "delete"}
    BY <1>10 DEF Disconnect, DisconnectRefused, Disconnecting, At
  <2>2. req[r].op = "delete" =>
          req'[r].op = "delete" /\ req'[r].pc = "commit" /\ req'[r].session = t
    BY <1>1, <1>2, <1>3, <1>10, SlotMoves DEF Disconnect, DisconnectRefused, AfterDisconnect, Pcs
  <2>3. req[r].op = "delete" => OwedBy(r, t)'  BY <2>2 DEF OwedBy
  <2> QED  BY <1>6, <2>1, <2>3 DEF StepOwes, Owed
<1>11. CASE DisconnectUnreachable(r)
  <2>1. UNCHANGED <<status, listener>> /\ req[r].op \in {"stop", "delete"}
    BY <1>11 DEF DisconnectUnreachable, Disconnecting, At
  <2>2. req[r].op = "delete" => DeletionGaveUp(t)
    BY <1>3, <1>11 DEF DeletionGaveUp
  <2> QED  BY <1>6, <2>1, <2>2 DEF StepOwes, LeftBehind
<1>12. CASE DeleteCommit(r)
  <2>1. /\ UNCHANGED listener /\ status'[t] = "DELETED"
        /\ s # t => status'[s] = status[s]
    BY <1>3, <1>5, <1>12 DEF DeleteCommit
  <2> QED  BY <1>6, <2>1 DEF StepOwes
<1> QED  BY <1>7, <1>8, <1>9, <1>10, <1>11, <1>12

\* A request that a database error ends leaves behind what it owed.
LEMMA FailureServes ==
  ASSUME Inv, NEW r \in Requests, DatabaseFails(r) \/ ConnectRefusedUnmarked(r),
         NEW s \in Sessions \ abandoned
  PROVE  StepOwes(s)
<1>1. HandlerStep(r)  BY DEF HandlerStep, HandlerProgress
<1>2. UNCHANGED <<status, listener>> /\ req[r].op \in Ops /\ api = "up"
  BY DEF DatabaseFails, ConnectRefusedUnmarked, Connecting, At, Ops
<1>3. CASE ~OwedBy(r, s)
  BY <1>1, <1>2, <1>3, Bystander DEF Heard
<1>4. CASE OwedBy(r, s)
  <2>1. req[r].session = s
    BY <1>2, <1>4 DEF OwedBy, PurgePending, Ops
  <2>2. CASE DatabaseFails(r)
    <3>1. req[r].pc \in {"commit", "refresh"}
      BY <2>2 DEF DatabaseFails, At
    <3>2. \/ req[r].op = "delete"
          \/ req[r].op \in {"start", "resume"} /\ req[r].pc = "refresh"
      BY <1>2, <1>4, <3>1 DEF OwedBy, PurgePending, Ops
    <3> QED  BY <2>1, <2>2, <3>2 DEF DeletionGaveUp, ReadBackGaveUp, LeftBehind, StepOwes
  <2>3. CASE ConnectRefusedUnmarked(r)
    BY <2>1, <2>3 DEF RefusalUnrecorded, LeftBehind, StepOwes
  <2> QED  BY <2>2, <2>3
<1> QED  BY <1>3, <1>4

\* The deletion of a master cancels the listeners of its active sessions and
\* owes them until the rows are gone, or leaves them all behind.
LEMMA PurgeServes ==
  ASSUME Inv, NEW r \in Requests,
         \/ \E m \in Masters : PurgeCancel(r, m)
         \/ PurgeCommit(r) \/ PurgeConflict(r) \/ PurgeDisconnect(r),
         NEW s \in Sessions \ abandoned
  PROVE  StepOwes(s)
<1>1. TypeOK /\ HandlerStep(r)  BY DEF Inv, HandlerStep, HandlerProgress
<1>2. status \in [Sessions -> Status] /\ listener \in [Sessions -> ListenerState]
  BY <1>1 DEF TypeOK
<1>3. ASSUME NEW m \in Masters, PurgeCancel(r, m)
      PROVE  StepOwes(s)
  <2>1. UNCHANGED status /\ api = "up" /\ req[r] = Idle
    BY <1>3 DEF PurgeCancel
  <2>2. CASE s \notin ActiveOf(m)
    <3>1. listener'[s] = listener[s]
      BY <1>2, <1>3, <2>2 DEF PurgeCancel
    <3>2. ~OwedBy(r, s)
      BY <2>1 DEF OwedBy, PurgePending, Idle
    <3> QED  BY <1>1, <2>1, <3>1, <3>2, Bystander DEF Heard
  <2>3. CASE s \in ActiveOf(m) /\ UNCHANGED req
    <3>1. PurgeGaveUp(s)  BY <1>3, <2>3 DEF PurgeGaveUp, ActiveOf
    <3> QED  BY <3>1 DEF LeftBehind, StepOwes
  <2>4. CASE s \in ActiveOf(m) /\ ~UNCHANGED req
    <3>1. req'[r].op = "purge" /\ req'[r].pc = "commit" /\ req'[r].master = m
      BY <1>1, <1>3, <2>4 DEF PurgeCancel, TypeOK
    <3>2. OwedBy(r, s)'  BY <2>4, <3>1 DEF OwedBy, PurgePending, ActiveOf
    <3> QED  BY <3>2 DEF StepOwes, Owed
  <2> QED  BY <2>2, <2>3, <2>4
<1>4. ASSUME req[r].op = "purge", ~PurgePending(r, s)
      PROVE  ~OwedBy(r, s)
  BY <1>4 DEF OwedBy
<1>5. CASE PurgeCommit(r)
  <2>1. UNCHANGED listener /\ req[r].op = "purge" /\ api = "up"
    BY <1>5 DEF PurgeCommit, At
  <2>2. /\ MasterOf[s] = req[r].master => status'[s] # "RUNNING"
        /\ status'[s] = "RUNNING" => status[s] = "RUNNING"
    BY <1>2, <1>5 DEF PurgeCommit, Stored, Gone
  <2>3. CASE MasterOf[s] = req[r].master
    BY <2>2, <2>3 DEF StepOwes
  <2>4. CASE MasterOf[s] # req[r].master
    <3>1. ~OwedBy(r, s)  BY <1>4, <2>1, <2>4 DEF PurgePending
    <3> QED  BY <1>1, <2>1, <2>2, <3>1, Bystander DEF Heard
  <2> QED  BY <2>3, <2>4
<1>6. CASE PurgeConflict(r)
  <2>1. UNCHANGED <<status, listener>> /\ req[r].op = "purge" /\ api = "up"
    BY <1>6 DEF PurgeConflict, At
  <2>2. CASE MasterOf[s] = req[r].master
    <3>1. PurgeGaveUp(s)  BY <1>6, <2>1, <2>2 DEF PurgeGaveUp
    <3> QED  BY <3>1 DEF StepOwes, LeftBehind
  <2>3. CASE MasterOf[s] # req[r].master
    <3>1. ~OwedBy(r, s)  BY <1>4, <2>1, <2>3 DEF PurgePending
    <3> QED  BY <1>1, <2>1, <3>1, Bystander DEF Heard
  <2> QED  BY <2>2, <2>3
<1>7. CASE PurgeDisconnect(r)
  <2>1. /\ UNCHANGED <<status, listener>> /\ req[r].op = "purge" /\ api = "up"
        /\ req[r].pc = "disconnect"
    BY <1>7 DEF PurgeDisconnect, At
  <2>2. ~OwedBy(r, s)  BY <1>4, <2>1 DEF PurgePending
  <2> QED  BY <1>1, <2>1, <2>2, Bystander DEF Heard
<1> QED  BY <1>3, <1>5, <1>6, <1>7

\* A listener ends by itself only for a session that is not active, or after
\* the ERROR is written, or is left behind.
LEMMA ListenerServes ==
  ASSUME Inv, NEW t \in Sessions, ListenerStep(t), NEW s \in Sessions \ abandoned
  PROVE  StepOwes(s)
<1>1. status \in [Sessions -> Status] /\ listener \in [Sessions -> ListenerState]
  BY DEF Inv, TypeOK
<1>2. /\ UNCHANGED <<req, api, boot>>
      /\ s # t => status'[s] = status[s] /\ listener'[s] = listener[s]
      /\ status'[t] = "RUNNING" => status[t] = "RUNNING"
  BY <1>1 DEF ListenerStep, ListenerFinish, ListenerFault, ListenerMarkError,
       ListenerMarkFails, ListenerClosed
<1>3. \/ status'[t] # "RUNNING"
      \/ Heard(t)'
      \/ LeftBehind(t)
      \/ ~Heard(t)
  BY <1>1 DEF ListenerStep, ListenerFinish, ListenerFault, ListenerMarkError,
       ListenerMarkFails, ListenerClosed, Heard, Gone, LeftBehind, CrashUnrecorded, Stored
<1>4. (Owed(s)' <=> Owed(s)) /\ (AwaitsBoot(s)' <=> AwaitsBoot(s))
  BY <1>2 DEF Owed, OwedBy, PurgePending, AwaitsBoot
<1>5. status[s] = "RUNNING" => Attended(s)  BY DEF Inv, ServedInv
<1>6. CASE s # t
  BY <1>2, <1>4, <1>5, <1>6 DEF StepOwes, Attended, Heard
<1>7. CASE s = t
  BY <1>2, <1>3, <1>4, <1>5, <1>7 DEF StepOwes, Attended
<1> QED  BY <1>6, <1>7

\* After a restart every RUNNING session is on the list of the startup code,
\* which ends with a listener or with ERROR.
LEMMA ProcessServes ==
  ASSUME Inv, ProcessStep, NEW s \in Sessions \ abandoned
  PROVE  StepOwes(s)
<1>1. status \in [Sessions -> Status] /\ listener \in [Sessions -> ListenerState]
  BY DEF Inv, TypeOK
<1>2. status[s] = "RUNNING" => Attended(s)
  BY DEF Inv, ServedInv
<1> USE DEF StepOwes, Attended, Heard, Owed, OwedBy, PurgePending, AwaitsBoot
<1>3. CASE ApiDown
  BY <1>3 DEF ApiDown
<1>4. CASE ApiStart
  BY <1>4 DEF ApiStart
<1>5. CASE BootCommit
  BY <1>2, <1>5 DEF BootCommit
<1>6. CASE RouterRestart
  BY <1>2, <1>6 DEF RouterRestart
<1>7. ASSUME NEW t \in Sessions, BootConnect(t)
      PROVE  StepOwes(s)
  <2>1. /\ UNCHANGED <<status, req, api>>
        /\ listener' = [listener EXCEPT ![t] = "polling"]
        /\ boot'.todo = boot.todo \ {t} /\ boot'.failed = boot.failed
    BY <1>7 DEF BootConnect, Inv, TypeOK
  <2> QED  BY <1>1, <1>2, <2>1
<1>8. ASSUME NEW t \in Sessions, BootConnectFails(t)
      PROVE  StepOwes(s)
  <2>1. /\ UNCHANGED <<status, listener, req, api>>
        /\ boot'.todo = boot.todo \ {t} /\ boot'.failed = boot.failed \cup {t}
    BY <1>8 DEF BootConnectFails
  <2> QED  BY <1>2, <2>1
<1> QED  BY <1>3, <1>4, <1>5, <1>6, <1>7, <1>8 DEF ProcessStep

\* One step keeps the invariant.
LEMMA ServedStep == Inv /\ [ServedNext]_servedVars => Inv'
<1> SUFFICES ASSUME Inv, [ServedNext]_servedVars PROVE Inv'
  OBVIOUS
<1>1. TypeOK'
  BY StepTyped DEF Inv, ServedNext, servedVars, sessionVars
<1>2. CASE ServedNext
  <2>1. SessionNext  BY <1>2 DEF ServedNext
  <2>2. ASSUME NEW s \in Sessions \ abandoned
        PROVE  StepOwes(s)
    <3>1. ASSUME NEW r \in Requests, HandlerProgress(r)
          PROVE  StepOwes(s)
      BY <3>1, StartServes, StopServes, FailureServes, PurgeServes DEF HandlerProgress
    <3> QED
      BY <2>1, <3>1, EntryServes, PurgeServes, ListenerServes, ProcessServes
      DEF SessionNext, HandlerStep
  <2>3. ServedInv'  BY <1>2, <2>2, HistoryStep
  <2> QED  BY <1>1, <2>3 DEF Inv
<1>3. CASE UNCHANGED servedVars
  <2>1. UNCHANGED <<status, listener, req, api, boot, abandoned>>
    BY <1>3 DEF servedVars, sessionVars
  <2>2. ServedInv'
    BY <2>1 DEF ServedInv, Inv, Attended, Heard, Owed, OwedBy, PurgePending, AwaitsBoot
  <2> QED  BY <1>1, <2>2 DEF Inv
<1> QED  BY <1>2, <1>3

(***************************************************************************)
(* A session that says RUNNING has its listener when no request about it   *)
(* is in flight, for any number of masters and sessions, however requests  *)
(* overlap and whatever fails: refused connections, crashed listeners and  *)
(* restarts are all made good or written down as ERROR, but for the eight  *)
(* places where the code gives up on a session.                            *)
(***************************************************************************)
THEOREM RunningIsListened == ServedSpec => []RunningHasListener
<1>1. ServedInit => Inv
  BY InitTyped DEF ServedInit, SessionInit, Inv, ServedInv
<1>2. Inv /\ [ServedNext]_servedVars => Inv'
  BY ServedStep
<1>3. Inv => RunningHasListener
  <2> SUFFICES ASSUME Inv, NEW s \in Sessions \ abandoned, AtRest(s), status[s] = "RUNNING"
               PROVE  Heard(s)
    BY DEF RunningHasListener, Heard
  <2>1. ~Owed(s) /\ ~AwaitsBoot(s)  BY DEF AtRest, Owed, OwedBy, AwaitsBoot
  <2> QED  BY <2>1 DEF Inv, ServedInv, Attended
<1> QED
  BY <1>1, <1>2, <1>3, PTL DEF ServedSpec
=============================================================================
