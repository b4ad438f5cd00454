------------------------- MODULE CopySessionsProofs -------------------------
(***************************************************************************)
(* Proofs about CopySessions, for any number of masters, sessions and      *)
(* overlapping requests: type correctness, and the promises of the start,  *)
(* resume, stop and delete handlers, each from the condition on            *)
(* overlapping handlers that it needs and no other.                        *)
(***************************************************************************)
EXTENDS CopySessions, TLAPS

\* The initial state is well typed.
LEMMA InitTyped == SessionInit => TypeOK
  BY NoSessionAssumption
     DEF SessionInit, TypeOK, Status, Active, Gone, ListenerState, Idle, NoBoot

\* What a request slot can hold.
Slot == SessionRequest \cup PurgeRequest \cup {Idle}

\* A request that runs one of the five handlers of a session.
LEMMA InFlight ==
  ASSUME TypeOK, NEW r \in Requests, req[r].op \in Ops
  PROVE  /\ req[r] \in SessionRequest
         /\ req[r].session \in Sessions
  BY DEF TypeOK, Idle, SessionRequest, PurgeRequest, Ops

\* A request that deletes a master account.
LEMMA PurgeInFlight ==
  ASSUME TypeOK, NEW r \in Requests, req[r].op = "purge"
  PROVE  /\ req[r] \in PurgeRequest
         /\ req[r].master \in Masters
  BY DEF TypeOK, Idle, SessionRequest, PurgeRequest, Ops

\* Entering, moving on and returning keep the table of requests well typed.
LEMMA RequestsTyped ==
  ASSUME TypeOK, NEW r \in Requests,
         \/ \E op \in Ops, s \in Sessions, pc \in Pcs : Enter(r, op, s, pc)
         \/ req[r].op \in Ops \cup {"purge"} /\ \E pc \in Pcs : Goto(r, pc)
         \/ Return(r)
  PROVE  req' \in [Requests -> Slot]
<1>1. CASE \E op \in Ops, s \in Sessions, pc \in Pcs : Enter(r, op, s, pc)
  BY <1>1 DEF TypeOK, Enter, Slot, SessionRequest
<1>2. CASE req[r].op \in Ops \cup {"purge"} /\ \E pc \in Pcs : Goto(r, pc)
  <2>1. CASE req[r].op \in Ops
    <3>1. \A pc \in Pcs : [req[r] EXCEPT !.pc = pc] \in SessionRequest
      BY <2>1, InFlight DEF SessionRequest
    <3> QED
      BY <1>2, <3>1 DEF TypeOK, Goto, Slot
  <2>2. CASE req[r].op = "purge"
    <3>1. \A pc \in Pcs : [req[r] EXCEPT !.pc = pc] \in PurgeRequest
      BY <2>2, PurgeInFlight DEF PurgeRequest
    <3> QED
      BY <1>2, <3>1 DEF TypeOK, Goto, Slot
  <2> QED
    BY <1>2, <2>1, <2>2
<1>3. CASE Return(r)
  BY <1>3 DEF TypeOK, Return, Slot
<1> QED
  BY <1>1, <1>2, <1>3

\* A commit of the handler's own status value keeps rows and requests typed.
LEMMA CommitTyped ==
  ASSUME TypeOK, NEW r \in Requests, req[r].op \in Ops,
         NEW value \in Status, NEW pc \in Pcs \cup {"idle"},
         CommitStatus(r, value, pc)
  PROVE  /\ status' \in [Sessions -> Status]
         /\ req' \in [Requests -> Slot]
<1>1. status' \in [Sessions -> Status]
  BY DEF CommitStatus, TypeOK
<1>2. Return(r) \/ \E p \in Pcs : Goto(r, p)
  BY DEF CommitStatus
<1> QED
  BY <1>1, <1>2, RequestsTyped

\* Arriving requests.
LEMMA EntryTyped ==
  ASSUME TypeOK, NEW r \in Requests, NEW s \in Sessions, HandlerEntry(r, s)
  PROVE  TypeOK'
<1>1. \E op \in Ops, pc \in Pcs : Enter(r, op, s, pc)
  BY DEF HandlerEntry, StartCheck, PauseRead, ResumeRead, StopRead, DeleteRead, Ops, Pcs
<1>2. UNCHANGED <<masters, status, listener, stream, api, boot>>
  BY DEF HandlerEntry, StartCheck, PauseRead, ResumeRead, StopRead, DeleteRead
<1>3. req' \in [Requests -> Slot]
  BY <1>1, RequestsTyped
<1> QED
  BY <1>2, <1>3 DEF TypeOK, Slot

\* Requests in flight, action by action.
LEMMA ProgressTyped ==
  ASSUME TypeOK, NEW r \in Requests, HandlerProgress(r)
  PROVE  TypeOK'
<1> DEFINE Table == [Requests -> Slot]
<1> USE DEF At, Ops, Slot
<1>1. CASE StartCommit(r)
  <2>1. (Return(r) \/ Goto(r, "refresh")) /\ req[r].op \in Ops /\ "refresh" \in Pcs
    BY <1>1 DEF StartCommit, Pcs
  <2>2. req' \in Table
    BY <2>1, RequestsTyped
  <2> QED
    BY <1>1, <2>2 DEF StartCommit, TypeOK, Status, Active
<1>2. CASE PauseCommit(r)
  <2>1. CommitStatus(r, "PAUSED", "idle") /\ req[r].op \in Ops /\ "PAUSED" \in Status
    BY <1>2 DEF PauseCommit, Status, Active
  <2>2. req' \in Table /\ status' \in [Sessions -> Status]
    BY <2>1, CommitTyped
  <2> QED
    BY <1>2, <2>2 DEF PauseCommit, TypeOK
<1>3. CASE ResumeCommit(r)
  <2>1. CommitStatus(r, "RUNNING", "refresh") /\ req[r].op \in Ops
        /\ "RUNNING" \in Status /\ "refresh" \in Pcs
    BY <1>3 DEF ResumeCommit, Status, Active, Pcs
  <2>2. req' \in Table /\ status' \in [Sessions -> Status]
    BY <2>1, CommitTyped
  <2> QED
    BY <1>3, <2>2 DEF ResumeCommit, TypeOK
<1>4. CASE Refresh(r)
  <2>1. req[r].op \in Ops /\ (Return(r) \/ \E pc \in Pcs : Goto(r, pc))
    BY <1>4 DEF Refresh, Pcs
  <2>2. req' \in Table
    BY <2>1, RequestsTyped
  <2> QED
    BY <1>4, <2>2 DEF Refresh, TypeOK
<1>5. CASE Connect(r)
  <2>1. req[r].op \in Ops /\ Goto(r, "task") /\ "task" \in Pcs
    BY <1>5 DEF Connect, Connecting, Pcs
  <2>2. req' \in Table
    BY <2>1, RequestsTyped
  <2>3. stream' \in SUBSET Masters
    BY <1>5, <2>1, InFlight, MasterOfAssumption DEF Connect, TypeOK
  <2> QED
    BY <1>5, <2>2, <2>3 DEF Connect, TypeOK
<1>6. CASE ConnectRefused(r)
  <2>1. CommitStatus(r, "ERROR", "idle") /\ req[r].op \in Ops /\ "ERROR" \in Status
    BY <1>6 DEF ConnectRefused, Connecting, Status
  <2>2. req' \in Table /\ status' \in [Sessions -> Status]
    BY <2>1, CommitTyped
  <2> QED
    BY <1>6, <2>2 DEF ConnectRefused, TypeOK
<1>7. CASE ConnectUnreachable(r)
  <2>1. req[r].op \in Ops /\ Return(r)
    BY <1>7 DEF ConnectUnreachable, ConnectRefusedUnmarked, DatabaseFails, Connecting
  <2>2. req' \in Table
    BY <2>1, RequestsTyped
  <2>3. stream' \in SUBSET Masters
    BY <1>7, <2>1, InFlight, MasterOfAssumption DEF ConnectUnreachable,
         ConnectRefusedUnmarked, DatabaseFails, TypeOK
  <2> QED
    BY <1>7, <2>2, <2>3 DEF ConnectUnreachable, ConnectRefusedUnmarked, DatabaseFails,
         TypeOK
<1>8. CASE StartTask(r)
  <2>1. req' \in Table
    BY <1>8, RequestsTyped DEF StartTask
  <2>2. listener' \in [Sessions -> ListenerState]
    BY <1>8 DEF StartTask, TypeOK, ListenerState
  <2> QED
    BY <1>8, <2>1, <2>2 DEF StartTask, TypeOK
<1>9. CASE StopCommit(r)
  <2>1. CommitStatus(r, "STOPPED", "refresh") /\ req[r].op \in Ops
        /\ "STOPPED" \in Status /\ "refresh" \in Pcs
    BY <1>9 DEF StopCommit, Status, Pcs
  <2>2. req' \in Table /\ status' \in [Sessions -> Status]
    BY <2>1, CommitTyped
  <2> QED
    BY <1>9, <2>2 DEF StopCommit, TypeOK
<1>10. CASE CancelListener(r)
  <2>1. /\ req[r].op \in Ops /\ "disconnect" \in Pcs
        /\ Return(r) \/ Goto(r, "disconnect")
    BY <1>10 DEF CancelListener, At, Pcs
  <2>2. req' \in Table
    BY <2>1, RequestsTyped
  <2>3. listener' \in [Sessions -> ListenerState]
    BY <1>10 DEF CancelListener, TypeOK, ListenerState
  <2> QED
    BY <1>10, <2>2, <2>3 DEF CancelListener, TypeOK
<1>11. CASE Disconnect(r) \/ DisconnectRefused(r) \/ DisconnectUnreachable(r)
  <2>1. req[r].op \in Ops /\ (Return(r) \/ \E pc \in Pcs : Goto(r, pc))
    BY <1>11 DEF Disconnect, DisconnectRefused, DisconnectUnreachable,
                 Disconnecting, AfterDisconnect, Pcs
  <2>2. req' \in Table
    BY <2>1, RequestsTyped
  <2>3. stream' \in SUBSET Masters
    BY <1>11 DEF Disconnect, DisconnectRefused, DisconnectUnreachable, TypeOK
  <2>4. UNCHANGED <<masters, status, listener, api, boot>>
    BY <1>11 DEF Disconnect, DisconnectRefused, DisconnectUnreachable
  <2> QED
    BY <2>2, <2>3, <2>4 DEF TypeOK
<1>12. CASE DeleteCommit(r)
  <2>1. req' \in Table
    BY <1>12, RequestsTyped DEF DeleteCommit
  <2>2. status' \in [Sessions -> Status]
    BY <1>12 DEF DeleteCommit, TypeOK, Status, Gone
  <2> QED
    BY <1>12, <2>1, <2>2 DEF DeleteCommit, TypeOK
<1>13. CASE PurgeCommit(r)
  <2>1. Goto(r, "disconnect") /\ req[r].op = "purge" /\ "disconnect" \in Pcs
    BY <1>13 DEF PurgeCommit, Pcs
  <2>2. req' \in Table
    BY <2>1, RequestsTyped
  <2>3. status' \in [Sessions -> Status] /\ masters' \in SUBSET Masters
    BY <1>13 DEF PurgeCommit, TypeOK, Status, Gone
  <2> QED
    BY <1>13, <2>2, <2>3 DEF PurgeCommit, TypeOK
<1>14. CASE PurgeConflict(r) \/ PurgeDisconnect(r)
  <2>1. req' \in Table
    BY <1>14, RequestsTyped DEF PurgeConflict, PurgeDisconnect
  <2>2. stream' \in SUBSET Masters
    BY <1>14 DEF PurgeConflict, PurgeDisconnect, TypeOK
  <2> QED
    BY <1>14, <2>1, <2>2 DEF PurgeConflict, PurgeDisconnect, TypeOK
<1>15. CASE DatabaseFails(r) \/ ConnectRefusedUnmarked(r)
  BY <1>15, RequestsTyped DEF DatabaseFails, ConnectRefusedUnmarked, TypeOK
<1> QED
  BY <1>1, <1>2, <1>3, <1>4, <1>5, <1>6, <1>7, <1>8, <1>9, <1>10, <1>11, <1>12,
     <1>13, <1>14, <1>15 DEF HandlerProgress

\* The deletion of a master account begins.
LEMMA PurgeTyped ==
  ASSUME TypeOK, NEW r \in Requests, NEW m \in Masters, PurgeCancel(r, m)
  PROVE  TypeOK'
<1> DEFINE Begun == [op |-> "purge", pc |-> "commit", session |-> NoSession, master |-> m]
<1>1. Begun \in PurgeRequest
  BY DEF PurgeRequest, Pcs
<1>2. req' = [req EXCEPT ![r] = Begun] \/ req' = req
  BY DEF PurgeCancel
<1> HIDE DEF Begun
<1>3. req' \in [Requests -> Slot]
  BY <1>1, <1>2 DEF TypeOK, Slot
<1>4. listener' \in [Sessions -> ListenerState]
  BY DEF PurgeCancel, TypeOK, ListenerState
<1> QED
  BY <1>3, <1>4 DEF PurgeCancel, TypeOK, Slot

\* Listener tasks.
LEMMA ListenerTyped ==
  ASSUME TypeOK, NEW s \in Sessions, ListenerStep(s)
  PROVE  TypeOK'
<1>1. listener' \in [Sessions -> ListenerState]
  BY DEF ListenerStep, ListenerFinish, ListenerFault, ListenerMarkError,
         ListenerMarkFails, ListenerClosed, TypeOK, ListenerState
<1>2. status' \in [Sessions -> Status]
  BY DEF ListenerStep, ListenerFinish, ListenerFault, ListenerMarkError,
         ListenerMarkFails, ListenerClosed, TypeOK, Status
<1>3. UNCHANGED <<masters, stream, req, api, boot>>
  BY DEF ListenerStep, ListenerFinish, ListenerFault, ListenerMarkError,
         ListenerMarkFails, ListenerClosed
<1> QED
  BY <1>1, <1>2, <1>3 DEF TypeOK

\* Crashes, restarts and the resumption of sessions at startup.
LEMMA ProcessTyped ==
  ASSUME TypeOK, ProcessStep
  PROVE  TypeOK'
<1>1. CASE ApiDown
  BY <1>1 DEF ApiDown, TypeOK, ListenerState, NoBoot
<1>2. CASE ApiStart
  BY <1>2 DEF ApiStart, TypeOK
<1>3. CASE BootCommit
  BY <1>3 DEF BootCommit, TypeOK, Status, NoBoot
<1>4. CASE RouterRestart
  BY <1>4 DEF RouterRestart, TypeOK
<1>5. ASSUME NEW s \in Sessions, BootConnect(s)
      PROVE  TypeOK'
  BY <1>5, MasterOfAssumption DEF BootConnect, TypeOK, ListenerState
<1>6. ASSUME NEW s \in Sessions, BootConnectFails(s)
      PROVE  TypeOK'
  BY <1>6, MasterOfAssumption DEF BootConnectFails, TypeOK
<1> QED
  BY <1>1, <1>2, <1>3, <1>4, <1>5, <1>6 DEF ProcessStep

LEMMA StepTyped == TypeOK /\ [SessionNext]_sessionVars => TypeOK'
<1> SUFFICES ASSUME TypeOK, [SessionNext]_sessionVars
             PROVE  TypeOK'
  OBVIOUS
<1>1. CASE SessionNext
  BY <1>1, EntryTyped, ProgressTyped, PurgeTyped, ListenerTyped, ProcessTyped
     DEF SessionNext, HandlerStep
<1>2. CASE UNCHANGED sessionVars
  BY <1>2 DEF sessionVars, TypeOK
<1> QED
  BY <1>1, <1>2

(***************************************************************************)
(* Every row, task, connection and request of the API is in one of the     *)
(* states the code knows, however many handlers overlap and whatever       *)
(* fails.                                                                  *)
(***************************************************************************)
THEOREM TypeCorrect == SessionSpec => []TypeOK
<1>1. SessionInit => TypeOK
  BY InitTyped
<1>2. TypeOK /\ [SessionNext]_sessionVars => TypeOK'
  BY StepTyped
<1> QED
  BY <1>1, <1>2, PTL DEF SessionSpec

-----------------------------------------------------------------------------
(***************************************************************************)
(* What the steps do to rows and requests.                                 *)
(***************************************************************************)

\* What every step but the three activating commits does to the rows.
NoActivation ==
  \A s \in Sessions : status'[s] \in Active => status[s] \in Active

\* A request touches no other request's slot.
LEMMA OtherSlots ==
  ASSUME TypeOK, NEW r \in Requests, HandlerStep(r), NEW q \in Requests, q # r
  PROVE  req'[q] = req[q]
<1> USE DEF TypeOK, Goto, Return
<1>1. ASSUME NEW s \in Sessions, HandlerEntry(r, s)
      PROVE  req'[q] = req[q]
  BY <1>1 DEF HandlerEntry, StartCheck, PauseRead, ResumeRead, StopRead, DeleteRead, Enter
<1>2. ASSUME HandlerProgress(r)
      PROVE  req'[q] = req[q]
  BY <1>2 DEF HandlerProgress, StartCommit, PauseCommit, ResumeCommit, Refresh, Connect,
       ConnectRefused, ConnectUnreachable, ConnectRefusedUnmarked, DatabaseFails,
       StartTask, StopCommit, CancelListener, Disconnect, DisconnectRefused,
       DisconnectUnreachable, DeleteCommit, CommitStatus, AfterDisconnect, PurgeCommit,
       PurgeConflict, PurgeDisconnect
<1>3. ASSUME NEW m \in Masters, PurgeCancel(r, m)
      PROVE  req'[q] = req[q]
  BY <1>3 DEF PurgeCancel
<1> QED
  BY <1>1, <1>2, <1>3 DEF HandlerStep

\* An arriving request changes no row, and what it is about to do rests on what
\* it read.
LEMMA EntryReads ==
  ASSUME TypeOK, NEW r \in Requests, NEW s \in Sessions, HandlerEntry(r, s)
  PROVE  /\ UNCHANGED status
         /\ req'[r].session = s
         /\ Activating(r)' =>
              /\ status[s] # "STOPPED"
              /\ \/ status[s] \in Active
                 \/ \A t \in Sessions : MasterOf[t] = MasterOf[s] => status[t] \notin Active
         /\ Deleting(r)' => status[s] \in Active
<1>1. UNCHANGED status
  BY DEF HandlerEntry, StartCheck, PauseRead, ResumeRead, StopRead, DeleteRead
<1>2. \E op \in Ops, pc \in Pcs : req' = [req EXCEPT ![r] = [op |-> op, pc |-> pc, session |-> s]]
  BY DEF HandlerEntry, StartCheck, PauseRead, ResumeRead, StopRead, DeleteRead, Enter, Ops, Pcs
<1>3. req'[r].session = s
  BY <1>2 DEF TypeOK
<1>4. CASE StartCheck(r, s)
  <2>1. /\ req'[r].op = "start" /\ status[s] = "NONE"
        /\ \A t \in Sessions : MasterOf[t] = MasterOf[s] => status[t] \notin Active
    BY <1>4 DEF StartCheck, Enter, TypeOK
  <2> QED
    BY <1>1, <1>3, <2>1 DEF Deleting
<1>5. CASE PauseRead(r, s) \/ ResumeRead(r, s)
  <2>1. req'[r].op \in {"pause", "resume"} /\ status[s] \in Active /\ status[s] # "STOPPED"
    BY <1>5 DEF PauseRead, ResumeRead, Enter, TypeOK, Active
  <2> QED
    BY <1>1, <1>3, <2>1 DEF Deleting
<1>6. CASE StopRead(r, s)
  <2>1. req'[r].op = "stop"
    BY <1>6 DEF StopRead, Enter, TypeOK
  <2> QED
    BY <1>1, <1>3, <2>1 DEF Activating, Deleting
<1>7. CASE DeleteRead(r, s)
  <2>1. req'[r].op = "delete" /\ (req'[r].pc # "commit" => status[s] \in Active)
    BY <1>7 DEF DeleteRead, Enter, TypeOK
  <2> QED
    BY <1>1, <1>3, <2>1 DEF Activating, Deleting
<1> QED
  BY <1>4, <1>5, <1>6, <1>7 DEF HandlerEntry

\* A request in flight leaves no activation pending behind its next write.
LEMMA ProgressLeavesNothingPending ==
  ASSUME TypeOK, NEW r \in Requests, HandlerProgress(r)
  PROVE  ~Activating(r)'
<1>1. \/ Return(r)
      \/ \E pc \in Pcs \ {"commit"} : Goto(r, pc)
      \/ req[r].op = "delete" /\ Goto(r, "commit")
  BY DEF HandlerProgress, PurgeCommit, PurgeConflict, PurgeDisconnect, StartCommit,
       PauseCommit, ResumeCommit, Refresh, Connect, ConnectRefused, ConnectUnreachable,
       ConnectRefusedUnmarked, DatabaseFails, StartTask, StopCommit, CancelListener,
       Disconnect, DisconnectRefused, DisconnectUnreachable, DeleteCommit, CommitStatus,
       AfterDisconnect, At, Pcs
<1>2. CASE Return(r)
  BY <1>2 DEF Return, Idle, Activating, TypeOK
<1>3. CASE \E pc \in Pcs \ {"commit"} : Goto(r, pc)
  BY <1>3 DEF Goto, Idle, Activating, TypeOK, SessionRequest, PurgeRequest
<1>4. CASE req[r].op = "delete" /\ Goto(r, "commit")
  BY <1>4 DEF Goto, Idle, Activating, TypeOK, SessionRequest, PurgeRequest
<1> QED
  BY <1>1, <1>2, <1>3, <1>4

\* The commits that make a session RUNNING or PAUSED.
LEMMA ActivatingCommit ==
  ASSUME TypeOK, NEW r \in Requests,
         StartCommit(r) \/ PauseCommit(r) \/ ResumeCommit(r)
  PROVE  /\ Activating(r)
         /\ req[r].session \in Sessions
         /\ \A s \in Sessions \ {req[r].session} : status'[s] = status[s]
<1>1. Activating(r) /\ req[r].op \in Ops
  BY DEF StartCommit, PauseCommit, ResumeCommit, At, Activating, Ops
<1>2. req[r].session \in Sessions
  BY <1>1, InFlight
<1>3. \A s \in Sessions \ {req[r].session} : status'[s] = status[s]
  BY <1>2 DEF StartCommit, PauseCommit, ResumeCommit, CommitStatus, TypeOK
<1> QED
  BY <1>1, <1>2, <1>3

\* Every other action of a handler in flight activates nothing.
LEMMA OtherProgress ==
  ASSUME TypeOK, NEW r \in Requests, HandlerProgress(r),
         ~(StartCommit(r) \/ PauseCommit(r) \/ ResumeCommit(r))
  PROVE  NoActivation
<1> USE DEF NoActivation, Active
<1>1. CASE UNCHANGED status
  BY <1>1
<1>2. CASE \E value \in {"ERROR", "STOPPED", "DELETED"} :
             status' = [status EXCEPT ![req[r].session] = value]
  BY <1>2 DEF TypeOK
<1>3. CASE PurgeCommit(r)
  BY <1>3 DEF PurgeCommit
<1>4. \/ PurgeCommit(r)
      \/ UNCHANGED status
      \/ \E value \in {"ERROR", "STOPPED", "DELETED"} :
           status' = [status EXCEPT ![req[r].session] = value]
  BY DEF HandlerProgress, Refresh, Connect, ConnectRefused, ConnectUnreachable,
       ConnectRefusedUnmarked, DatabaseFails, StartTask, StopCommit, CancelListener,
       Disconnect, DisconnectRefused, DisconnectUnreachable, DeleteCommit,
       PurgeConflict, PurgeDisconnect, CommitStatus
<1> QED
  BY <1>1, <1>2, <1>3, <1>4

\* Listeners and processes write ERROR or nothing, and keep or drop requests.
LEMMA Unattended ==
  ASSUME TypeOK, (\E s \in Sessions : ListenerStep(s)) \/ ProcessStep
  PROVE  /\ NoActivation
         /\ \A s \in Sessions : status'[s] = "STOPPED" => status[s] = "STOPPED"
         /\ req' = req \/ req' = [r \in Requests |-> Idle]
<1>1. CASE \E s \in Sessions : ListenerStep(s)
  BY <1>1 DEF ListenerStep, ListenerFinish, ListenerFault, ListenerMarkError,
       ListenerMarkFails, ListenerClosed, NoActivation, Active, TypeOK
<1>2. CASE ProcessStep
  BY <1>2 DEF ProcessStep, ApiDown, ApiStart, BootConnect, BootConnectFails,
       BootCommit, RouterRestart, NoActivation, Active, TypeOK
<1> QED
  BY <1>1, <1>2

\* The deletion of a master account begins: no row is touched and nothing of a
\* session is decided.
LEMMA PurgeDecidesNothing ==
  ASSUME TypeOK, NEW r \in Requests, NEW m \in Masters, PurgeCancel(r, m)
  PROVE  UNCHANGED status /\ ~Activating(r)' /\ ~Deleting(r)'
<1>1. req[r] = Idle /\ UNCHANGED status
  BY DEF PurgeCancel
<1>2. req'[r].op \in {"purge", "none"}
  BY <1>1 DEF PurgeCancel, TypeOK, Idle
<1> QED
  BY <1>1, <1>2 DEF Activating, Deleting

\* Only a stop writes STOPPED.
LEMMA StoppedByStop ==
  ASSUME TypeOK, NEW r \in Requests, HandlerProgress(r),
         NEW s \in Sessions, status'[s] = "STOPPED", status[s] # "STOPPED"
  PROVE  req[r].op = "stop" /\ req[r].pc = "commit" /\ req[r].session = s
<1>1. StopCommit(r)
  BY DEF HandlerProgress, StartCommit, PauseCommit, ResumeCommit, Refresh, Connect,
       ConnectRefused, ConnectUnreachable, ConnectRefusedUnmarked, DatabaseFails,
       StartTask, CancelListener, Disconnect, DisconnectRefused, DisconnectUnreachable,
       DeleteCommit, CommitStatus, PurgeCommit, PurgeConflict, PurgeDisconnect, TypeOK
<1> QED
  BY <1>1 DEF StopCommit, CommitStatus, At, TypeOK

\* An activation or a deletion in flight is about a session.
LEMMA AboutSession ==
  ASSUME TypeOK, NEW r \in Requests, Activating(r) \/ Deleting(r)
  PROVE  req[r].session \in Sessions
  BY InFlight DEF Activating, Deleting, Ops

-----------------------------------------------------------------------------
(***************************************************************************)
(* One active session per master.  OneActivePerMaster is not inductive:    *)
(* nothing in it says that the session a handler is about to commit as     *)
(* RUNNING or PAUSED may still become so.  OthersInactive does: what the   *)
(* handler read (no active session of this master, or this session RUNNING *)
(* or PAUSED) still excludes every other session when it commits, because  *)
(* in between only another activation of that master could change it.      *)
(* Listeners and the startup code write nothing but ERROR.                 *)
(***************************************************************************)
OnlyActive(s) ==
  \A t \in Sessions : MasterOf[t] = MasterOf[s] /\ status[t] \in Active => t = s

OthersInactive == \A r \in Requests : Activating(r) => OnlyActive(req[r].session)

CheckedInv == TypeOK /\ OneActivePerMaster /\ OthersInactive

\* A step that activates nothing keeps both parts for the requests it leaves.
LEMMA HarmlessStep ==
  ASSUME CheckedInv, NoActivation, TypeOK',
         \A r \in Requests : Activating(r)' => Activating(r) /\ req'[r] = req[r]
  PROVE  CheckedInv'
<1>1. OneActivePerMaster'
  BY DEF CheckedInv, OneActivePerMaster, NoActivation
<1>2. ASSUME NEW r \in Requests, Activating(r)'
      PROVE  OnlyActive(req[r].session)'
  BY <1>2 DEF CheckedInv, OthersInactive, OnlyActive, NoActivation
<1> QED
  BY <1>1, <1>2 DEF CheckedInv, OthersInactive

LEMMA StepChecked ==
  CheckedInv /\ ActivationsApart /\ [SessionNext]_sessionVars => CheckedInv'
<1> SUFFICES ASSUME CheckedInv, ActivationsApart, [SessionNext]_sessionVars
             PROVE  CheckedInv'
  OBVIOUS
<1>1. TypeOK /\ OneActivePerMaster /\ OthersInactive
  BY DEF CheckedInv
<1>2. TypeOK'
  BY <1>1, StepTyped
<1>3. ASSUME NEW r \in Requests, HandlerStep(r), NEW q \in Requests, q # r
      PROVE  req'[q] = req[q] /\ (Activating(q)' <=> Activating(q))
  BY <1>1, <1>3, OtherSlots DEF Activating
<1>4. ASSUME NEW r \in Requests, NEW s \in Sessions, HandlerEntry(r, s)
      PROVE  CheckedInv'
  <2>1. HandlerStep(r)
    BY <1>4 DEF HandlerStep
  <2>2. UNCHANGED status /\ req'[r].session = s
    BY <1>1, <1>4, EntryReads
  <2>3. Activating(r)' => OnlyActive(s)
    BY <1>1, <1>4, EntryReads DEF OnlyActive, OneActivePerMaster
  <2>4. OneActivePerMaster'
    BY <1>1, <2>2 DEF OneActivePerMaster
  <2>5. ASSUME NEW q \in Requests, Activating(q)'
        PROVE  OnlyActive(req[q].session)'
    <3>1. OnlyActive(req'[q].session)
      BY <1>1, <1>3, <2>1, <2>2, <2>3, <2>5 DEF OthersInactive
    <3> QED
      BY <2>2, <3>1 DEF OnlyActive
  <2> QED
    BY <1>2, <2>4, <2>5 DEF CheckedInv, OthersInactive
<1>5. ASSUME NEW r \in Requests, HandlerProgress(r)
      PROVE  CheckedInv'
  <2>1. HandlerStep(r) /\ ~Activating(r)'
    BY <1>1, <1>5, ProgressLeavesNothingPending DEF HandlerStep
  <2>2. \A q \in Requests : Activating(q)' => q # r /\ Activating(q) /\ req'[q] = req[q]
    BY <1>3, <2>1
  <2>3. CASE StartCommit(r) \/ PauseCommit(r) \/ ResumeCommit(r)
    <3>1. /\ Activating(r) /\ req[r].session \in Sessions
          /\ \A s \in Sessions \ {req[r].session} : status'[s] = status[s]
      BY <1>1, <2>3, ActivatingCommit
    <3>2. OnlyActive(req[r].session)
      BY <1>1, <3>1 DEF OthersInactive
    <3>3. OneActivePerMaster'
      BY <1>1, <3>1, <3>2 DEF OneActivePerMaster, OnlyActive
    <3>4. ASSUME NEW q \in Requests, Activating(q)'
          PROVE  OnlyActive(req[q].session)'
      <4>1. Activating(q) /\ req'[q] = req[q] /\ OnlyActive(req[q].session)
        BY <1>1, <2>2, <3>4 DEF OthersInactive
      <4>2. MasterOf[req[q].session] = MasterOf[req[r].session]
              => req[q].session = req[r].session
        BY <3>1, <4>1 DEF ActivationsApart, SameMaster
      <4> QED
        BY <3>1, <4>1, <4>2 DEF OnlyActive
    <3> QED
      BY <1>2, <3>3, <3>4 DEF CheckedInv, OthersInactive
  <2>4. CASE ~(StartCommit(r) \/ PauseCommit(r) \/ ResumeCommit(r))
    BY <1>1, <1>2, <1>5, <2>2, <2>4, OtherProgress, HarmlessStep
  <2> QED
    BY <2>3, <2>4
<1>6. ASSUME NEW r \in Requests, NEW m \in Masters, PurgeCancel(r, m)
      PROVE  CheckedInv'
  <2>1. HandlerStep(r) /\ NoActivation /\ ~Activating(r)'
    BY <1>1, <1>6, PurgeDecidesNothing DEF HandlerStep, NoActivation
  <2> QED
    BY <1>2, <1>3, <2>1, HarmlessStep
<1>7. CASE (\E s \in Sessions : ListenerStep(s)) \/ ProcessStep
  <2>1. NoActivation /\ (req' = req \/ req' = [r \in Requests |-> Idle])
    BY <1>1, <1>7, Unattended
  <2>2. \A r \in Requests : Activating(r)' => Activating(r) /\ req'[r] = req[r]
    BY <2>1 DEF Activating, Idle
  <2> QED
    BY <1>2, <2>1, <2>2, HarmlessStep
<1>8. CASE UNCHANGED sessionVars
  <2>1. NoActivation /\ req' = req
    BY <1>8 DEF sessionVars, NoActivation
  <2> QED
    BY <1>2, <2>1, HarmlessStep DEF Activating
<1> QED
  BY <1>4, <1>5, <1>6, <1>7, <1>8 DEF SessionNext, HandlerStep

LEMMA InitChecked == SessionInit => CheckedInv
<1> SUFFICES ASSUME SessionInit PROVE CheckedInv
  OBVIOUS
<1>1. OneActivePerMaster
  BY DEF SessionInit, OneActivePerMaster, Active
<1>2. OthersInactive
  BY DEF SessionInit, OthersInactive, Activating, Idle
<1> QED
  BY <1>1, <1>2, InitTyped DEF CheckedInv

(***************************************************************************)
(* As long as no two sessions of a master are activated side by side, a    *)
(* master never has two RUNNING or PAUSED sessions, across all other       *)
(* overlaps of requests, listener crashes, failed connections and          *)
(* restarts: the check in start_copy_session fails only in a race of two   *)
(* handlers between their read and their write.                            *)
(***************************************************************************)
THEOREM ApartOneActive ==
  SessionSpec /\ []ActivationsApart => []OneActivePerMaster
<1>1. CheckedInv => OneActivePerMaster
  BY DEF CheckedInv
<1> QED
  BY <1>1, InitChecked, StepChecked, PTL DEF SessionSpec

-----------------------------------------------------------------------------
(***************************************************************************)
(* Stopped sessions.  What a handler that is about to activate a session   *)
(* read (it was not STOPPED) stays true until it commits.                  *)
(***************************************************************************)
NotStopped == \A r \in Requests : Activating(r) => status[req[r].session] # "STOPPED"

LEMMA StepNotStopped ==
  TypeOK /\ NotStopped /\ StopsApart /\ [SessionNext]_sessionVars => NotStopped'
<1> SUFFICES ASSUME TypeOK, NotStopped, StopsApart, [SessionNext]_sessionVars
             PROVE  NotStopped'
  OBVIOUS
<1>1. \A r \in Requests : Activating(r) =>
        req[r].session \in Sessions /\ status[req[r].session] # "STOPPED"
  BY AboutSession DEF NotStopped
<1>2. ASSUME NEW r \in Requests, HandlerStep(r), NEW q \in Requests, q # r
      PROVE  req'[q] = req[q] /\ (Activating(q)' <=> Activating(q))
  BY <1>2, OtherSlots DEF Activating
<1>3. ASSUME NEW r \in Requests, NEW s \in Sessions, HandlerEntry(r, s)
      PROVE  NotStopped'
  <2>1. UNCHANGED status /\ req'[r].session = s /\ (Activating(r)' => status[s] # "STOPPED")
    BY <1>3, EntryReads
  <2>2. HandlerStep(r)
    BY <1>3 DEF HandlerStep
  <2> QED
    BY <1>2, <2>1, <2>2 DEF NotStopped
<1>4. ASSUME NEW r \in Requests, HandlerProgress(r)
      PROVE  NotStopped'
  <2>1. HandlerStep(r) /\ ~Activating(r)'
    BY <1>4, ProgressLeavesNothingPending DEF HandlerStep
  <2>2. ASSUME NEW q \in Requests, Activating(q)'
        PROVE  status'[req'[q].session] # "STOPPED"
    <3>1. Activating(q) /\ req'[q] = req[q]
      BY <1>2, <2>1, <2>2
    <3>2. req[q].session \in Sessions /\ status[req[q].session] # "STOPPED"
      BY <1>1, <3>1
    <3>3. ~(req[r].op = "stop" /\ req[r].pc = "commit" /\ req[r].session = req[q].session)
      BY <3>1 DEF StopsApart
    <3> QED
      BY <1>4, <3>1, <3>2, <3>3, StoppedByStop
  <2> QED
    BY <2>2 DEF NotStopped
<1>5. ASSUME NEW r \in Requests, NEW m \in Masters, PurgeCancel(r, m)
      PROVE  NotStopped'
  <2>1. HandlerStep(r) /\ UNCHANGED status /\ ~Activating(r)'
    BY <1>5, PurgeDecidesNothing DEF HandlerStep
  <2> QED
    BY <1>2, <2>1 DEF NotStopped
<1>6. CASE (\E s \in Sessions : ListenerStep(s)) \/ ProcessStep
  <2>1. /\ \A s \in Sessions : status'[s] = "STOPPED" => status[s] = "STOPPED"
        /\ req' = req \/ req' = [r \in Requests |-> Idle]
    BY <1>6, Unattended
  <2> QED
    BY <1>1, <2>1 DEF NotStopped, Activating, Idle
<1>7. CASE UNCHANGED sessionVars
  BY <1>7 DEF sessionVars, NotStopped, Activating
<1> QED
  BY <1>3, <1>4, <1>5, <1>6, <1>7 DEF SessionNext, HandlerStep

\* The step behind StoppedStaysStopped.
LEMMA StoppedStep ==
  ASSUME TypeOK, NotStopped, [SessionNext]_sessionVars,
         NEW s \in Sessions, status[s] = "STOPPED"
  PROVE  status'[s] \notin Active
<1>1. status[s] \notin Active
  BY DEF Active
<1>2. ASSUME NEW r \in Requests, NEW t \in Sessions, HandlerEntry(r, t)
      PROVE  status'[s] \notin Active
  BY <1>1, <1>2, EntryReads
<1>3. ASSUME NEW r \in Requests, HandlerProgress(r)
      PROVE  status'[s] \notin Active
  <2>1. CASE StartCommit(r) \/ PauseCommit(r) \/ ResumeCommit(r)
    <3>1. /\ Activating(r)
          /\ \A t \in Sessions \ {req[r].session} : status'[t] = status[t]
      BY <2>1, ActivatingCommit
    <3>2. s # req[r].session
      BY <3>1 DEF NotStopped
    <3> QED
      BY <1>1, <3>1, <3>2
  <2>2. CASE ~(StartCommit(r) \/ PauseCommit(r) \/ ResumeCommit(r))
    BY <1>1, <1>3, <2>2, OtherProgress DEF NoActivation
  <2> QED
    BY <2>1, <2>2
<1>4. CASE (\E t \in Sessions : ListenerStep(t)) \/ ProcessStep
  BY <1>1, <1>4, Unattended DEF NoActivation
<1>5. CASE UNCHANGED sessionVars
  BY <1>1, <1>5 DEF sessionVars
<1>6. ASSUME NEW r \in Requests, NEW m \in Masters, PurgeCancel(r, m)
      PROVE  status'[s] \notin Active
  BY <1>1, <1>6 DEF PurgeCancel
<1> QED
  BY <1>2, <1>3, <1>4, <1>5, <1>6 DEF SessionNext, HandlerStep

(***************************************************************************)
(* As long as no stop commits while a start, pause or resume of the same   *)
(* session is between its read and its write, a stopped session is never   *)
(* RUNNING or PAUSED again, whatever else overlaps, fails or restarts.     *)
(***************************************************************************)
THEOREM ApartStoppedStays ==
  SessionSpec /\ []StopsApart => StoppedStaysStopped
<1>1. SessionInit => TypeOK /\ NotStopped
  BY InitTyped DEF SessionInit, NotStopped, Activating, Idle
<1>2. TypeOK /\ NotStopped /\ StopsApart /\ [SessionNext]_sessionVars => TypeOK' /\ NotStopped'
  BY StepTyped, StepNotStopped
<1>3. TypeOK /\ NotStopped /\ [SessionNext]_sessionVars =>
        [\A s \in Sessions : status[s] = "STOPPED" => status'[s] \notin Active]_sessionVars
  BY StoppedStep
<1> QED
  BY <1>1, <1>2, <1>3, PTL DEF SessionSpec, StoppedStaysStopped

-----------------------------------------------------------------------------
(***************************************************************************)
(* Deletions.  What a deletion read when it found its session active: the  *)
(* master has no other active session, and none appears before the         *)
(* disconnection.                                                          *)
(***************************************************************************)
DeleteAlone == \A r \in Requests : Deleting(r) => OnlyActive(req[r].session)

\* A deletion in flight keeps its session until it returns.
LEMMA DeletionGoesOn ==
  ASSUME TypeOK, NEW r \in Requests, HandlerProgress(r), Deleting(r)'
  PROVE  Deleting(r) /\ req'[r].session = req[r].session /\ UNCHANGED status
<1>1. CASE CancelListener(r) \/ Disconnect(r) \/ DisconnectRefused(r)
           \/ DisconnectUnreachable(r)
  <2>1. UNCHANGED status
    BY <1>1 DEF CancelListener, Disconnect, DisconnectRefused, DisconnectUnreachable
  <2>2. \/ req' = [req EXCEPT ![r] = Idle]
        \/ \E pc \in Pcs : req' = [req EXCEPT ![r].pc = pc]
    BY <1>1 DEF CancelListener, Disconnect, DisconnectRefused, DisconnectUnreachable,
                Disconnecting, AfterDisconnect, Return, Goto, Pcs
  <2>3. req[r].op \in {"stop", "delete"} /\ req[r].pc \in {"cancel", "disconnect"}
    BY <1>1 DEF CancelListener, Disconnect, DisconnectRefused, DisconnectUnreachable,
                Disconnecting, At
  <2>4. req[r] \in SessionRequest
    BY <2>3, InFlight DEF Ops
  <2>5. Deleting(r)' => Deleting(r) /\ req'[r].session = req[r].session
    BY <2>2, <2>3, <2>4 DEF Deleting, TypeOK, Idle, SessionRequest
  <2> QED
    BY <2>1, <2>5
<1>2. CASE ~(CancelListener(r) \/ Disconnect(r) \/ DisconnectRefused(r)
             \/ DisconnectUnreachable(r))
  <2>1. \/ Return(r)
        \/ req[r].op # "delete" /\ \E pc \in Pcs : Goto(r, pc)
    BY <1>2 DEF HandlerProgress, PurgeCommit, PurgeConflict, PurgeDisconnect,
         StartCommit, PauseCommit, ResumeCommit, Refresh, Connect, ConnectRefused,
         ConnectUnreachable, ConnectRefusedUnmarked, DatabaseFails, StartTask,
         StopCommit, DeleteCommit, CommitStatus, Connecting, At, Pcs
  <2>2. CASE Return(r)
    BY <2>2 DEF Return, Idle, TypeOK, Deleting
  <2>3. CASE req[r].op # "delete" /\ \E pc \in Pcs : Goto(r, pc)
    <3>1. req'[r].op # "delete"
      BY <2>3 DEF Goto, TypeOK, SessionRequest, PurgeRequest, Idle
    <3> QED
      BY <3>1 DEF Deleting
  <2> QED
    BY <2>1, <2>2, <2>3
<1> QED
  BY <1>1, <1>2

LEMMA StepDeleteAlone ==
  CheckedInv /\ DeleteAlone /\ DeletesApart /\ [SessionNext]_sessionVars => DeleteAlone'
<1> SUFFICES ASSUME CheckedInv, DeleteAlone, DeletesApart, [SessionNext]_sessionVars
             PROVE  DeleteAlone'
  OBVIOUS
<1>1. TypeOK /\ OneActivePerMaster
  BY DEF CheckedInv
<1>2. ASSUME NEW r \in Requests, HandlerStep(r), NEW q \in Requests, q # r
      PROVE  req'[q] = req[q] /\ (Deleting(q)' <=> Deleting(q))
  BY <1>1, <1>2, OtherSlots DEF Deleting
<1>3. ASSUME NoActivation,
             \A r \in Requests :
               Deleting(r)' => Deleting(r) /\ req'[r].session = req[r].session
      PROVE  DeleteAlone'
  BY <1>3 DEF DeleteAlone, OnlyActive, NoActivation
<1>4. ASSUME NEW r \in Requests, NEW s \in Sessions, HandlerEntry(r, s)
      PROVE  DeleteAlone'
  <2>1. HandlerStep(r)
    BY <1>4 DEF HandlerStep
  <2>2. UNCHANGED status /\ req'[r].session = s
    BY <1>1, <1>4, EntryReads
  <2>3. Deleting(r)' => OnlyActive(s)
    BY <1>1, <1>4, EntryReads DEF OnlyActive, OneActivePerMaster
  <2>4. ASSUME NEW q \in Requests, Deleting(q)'
        PROVE  OnlyActive(req[q].session)'
    <3>1. OnlyActive(req'[q].session)
      BY <1>2, <2>1, <2>2, <2>3, <2>4 DEF DeleteAlone
    <3> QED
      BY <2>2, <3>1 DEF OnlyActive
  <2> QED
    BY <2>4 DEF DeleteAlone
<1>5. ASSUME NEW r \in Requests, HandlerProgress(r)
      PROVE  DeleteAlone'
  <2>1. HandlerStep(r)
    BY <1>5 DEF HandlerStep
  <2>2. \A q \in Requests :
          Deleting(q)' => Deleting(q) /\ req'[q].session = req[q].session
    BY <1>1, <1>2, <1>5, <2>1, DeletionGoesOn
  <2>3. CASE StartCommit(r) \/ PauseCommit(r) \/ ResumeCommit(r)
    <3>1. /\ Activating(r)
          /\ \A s \in Sessions \ {req[r].session} : status'[s] = status[s]
      BY <1>1, <2>3, ActivatingCommit
    <3>2. ASSUME NEW q \in Requests, Deleting(q)'
          PROVE  OnlyActive(req[q].session)'
      <4>1. Deleting(q) /\ req'[q].session = req[q].session /\ OnlyActive(req[q].session)
        BY <2>2, <3>2 DEF DeleteAlone
      <4>2. MasterOf[req[r].session] = MasterOf[req[q].session]
              => req[r].session = req[q].session
        BY <3>1, <4>1 DEF DeletesApart, SameMaster
      <4> QED
        BY <3>1, <4>1, <4>2 DEF OnlyActive
    <3> QED
      BY <3>2 DEF DeleteAlone
  <2>4. CASE ~(StartCommit(r) \/ PauseCommit(r) \/ ResumeCommit(r))
    BY <1>1, <1>3, <1>5, <2>2, <2>4, OtherProgress
  <2> QED
    BY <2>3, <2>4
<1>6. ASSUME NEW r \in Requests, NEW m \in Masters, PurgeCancel(r, m)
      PROVE  DeleteAlone'
  <2>1. HandlerStep(r) /\ NoActivation /\ ~Deleting(r)'
    BY <1>1, <1>6, PurgeDecidesNothing DEF HandlerStep, NoActivation
  <2> QED
    BY <1>2, <1>3, <2>1
<1>7. CASE (\E s \in Sessions : ListenerStep(s)) \/ ProcessStep
  <2>1. NoActivation /\ (req' = req \/ req' = [r \in Requests |-> Idle])
    BY <1>1, <1>7, Unattended
  <2> QED
    BY <1>3, <2>1 DEF Deleting, Idle
<1>8. CASE UNCHANGED sessionVars
  <2>1. NoActivation /\ req' = req
    BY <1>8 DEF sessionVars, NoActivation
  <2> QED
    BY <1>3, <2>1 DEF Deleting
<1> QED
  BY <1>4, <1>5, <1>6, <1>7, <1>8 DEF SessionNext, HandlerStep

(***************************************************************************)
(* As long as no session is activated beside the activation or the         *)
(* deletion of another session of its master, deleting a session never     *)
(* unplugs a master another RUNNING session listens to, whatever else      *)
(* overlaps or fails.                                                      *)
(***************************************************************************)
THEOREM ApartDeleteSpares ==
  SessionSpec /\ []ActivationsApart /\ []DeletesApart => DeleteSparesOthers
<1>1. SessionInit => CheckedInv /\ DeleteAlone
  BY InitChecked DEF SessionInit, DeleteAlone, Deleting, Idle
<1>2. CheckedInv /\ DeleteAlone /\ ActivationsApart /\ DeletesApart /\ [SessionNext]_sessionVars
        => CheckedInv' /\ DeleteAlone'
  BY StepChecked, StepDeleteAlone
<1>3. CheckedInv /\ DeleteAlone /\ [SessionNext]_sessionVars =>
        [\A r \in Requests :
           /\ At(r, "delete", "disconnect")
           /\ MasterOf[req[r].session] \in stream \ stream'
           => \A s \in Sessions \ {req[r].session} :
                MasterOf[s] = MasterOf[req[r].session] => status[s] # "RUNNING"
        ]_sessionVars
  BY DEF DeleteAlone, OnlyActive, Deleting, At, Active
<1> QED
  BY <1>1, <1>2, <1>3, PTL DEF SessionSpec, DeleteSparesOthers

-----------------------------------------------------------------------------
(***************************************************************************)
(* Deleted sessions.  The insert of a start and the startup code write the *)
(* row without looking at it again; no other handler knows of the first,   *)
(* and none runs beside the second.                                        *)
(***************************************************************************)
Starting(r) == req[r].op = "start" /\ req[r].pc = "commit"

\* The row a start is about to insert is new, and nobody else's.
StartsFresh ==
  \A r \in Requests : Starting(r) =>
    /\ status[req[r].session] = "NONE"
    /\ \A q \in Requests : Starting(q) /\ req[q].session = req[r].session => q = r

\* The other handlers found a row.
FoundRows ==
  \A r \in Requests :
    req[r].op \in {"pause", "resume", "stop", "delete"} => status[req[r].session] # "NONE"

\* The startup reconnects sessions that are there, and no request is served.
BootRows ==
  \A s \in boot.todo \cup boot.failed : api = "booting" /\ Stored(s)

FreshInv == TypeOK /\ StartsFresh /\ FoundRows /\ BootRows

\* What a handler in flight writes.
LEMMA ProgressWrites ==
  ASSUME TypeOK, NEW r \in Requests, HandlerProgress(r)
  PROVE  \/ UNCHANGED status
         \/ Starting(r) /\ status' = [status EXCEPT ![req[r].session] = "RUNNING"]
         \/ /\ Stored(req[r].session)
            /\ \E value \in {"RUNNING", "PAUSED", "ERROR", "STOPPED"} :
                 status' = [status EXCEPT ![req[r].session] = value]
         \/ /\ req[r].op = "delete"
            /\ status' = [status EXCEPT ![req[r].session] = "DELETED"]
         \/ status' \in [Sessions -> Status]
            /\ \A s \in Sessions : status'[s] # status[s] => Stored(s) /\ status'[s] = "DELETED"
<1>1. CASE PurgeCommit(r)
  BY <1>1 DEF PurgeCommit, TypeOK, Status, Gone
<1>2. CASE ~PurgeCommit(r)
  BY <1>2 DEF HandlerProgress, StartCommit, PauseCommit, ResumeCommit, Refresh, Connect,
       ConnectRefused, ConnectUnreachable, ConnectRefusedUnmarked, DatabaseFails,
       StartTask, StopCommit, CancelListener, Disconnect, DisconnectRefused,
       DisconnectUnreachable, DeleteCommit, PurgeConflict, PurgeDisconnect,
       CommitStatus, At, Starting
<1> QED
  BY <1>1, <1>2

\* It serves requests, and goes on with its own session or ends.
LEMMA ProgressGoesOn ==
  ASSUME TypeOK, NEW r \in Requests, HandlerProgress(r)
  PROVE  /\ api = "up" /\ UNCHANGED <<api, boot>>
         /\ req'[r].op \in {"pause", "resume", "stop", "delete"} =>
              req'[r].op = req[r].op /\ req'[r].session = req[r].session
<1>1. api = "up" /\ UNCHANGED <<api, boot>>
  BY DEF HandlerProgress, StartCommit, PauseCommit, ResumeCommit, Refresh, Connect,
       ConnectRefused, ConnectUnreachable, ConnectRefusedUnmarked, DatabaseFails,
       StartTask, StopCommit, CancelListener, Disconnect, DisconnectRefused,
       DisconnectUnreachable, DeleteCommit, PurgeCommit, PurgeConflict, PurgeDisconnect,
       Connecting, Disconnecting, At
<1>2. Return(r) \/ \E pc \in Pcs : Goto(r, pc)
  BY DEF HandlerProgress, StartCommit, PauseCommit, ResumeCommit, Refresh, Connect,
       ConnectRefused, ConnectUnreachable, ConnectRefusedUnmarked, DatabaseFails,
       StartTask, StopCommit, CancelListener, Disconnect, DisconnectRefused,
       DisconnectUnreachable, DeleteCommit, PurgeCommit, PurgeConflict, PurgeDisconnect,
       CommitStatus, AfterDisconnect, Pcs
<1>3. CASE Return(r)
  BY <1>1, <1>3 DEF Return, Idle, TypeOK
<1>4. ASSUME NEW pc \in Pcs, Goto(r, pc)
      PROVE  req'[r] = [req[r] EXCEPT !.pc = pc]
  BY <1>4 DEF Goto, TypeOK
<1>5. ASSUME req[r] # Idle
      PROVE  \A pc : /\ [req[r] EXCEPT !.pc = pc].op = req[r].op
                     /\ [req[r] EXCEPT !.pc = pc].session = req[r].session
  BY <1>5 DEF TypeOK, SessionRequest, PurgeRequest
<1>6. \A pc : [Idle EXCEPT !.pc = pc].op = "none"
  BY DEF Idle
<1> QED
  BY <1>1, <1>2, <1>3, <1>4, <1>5, <1>6

LEMMA InitFresh == SessionInit => FreshInv
<1> SUFFICES ASSUME SessionInit PROVE FreshInv
  OBVIOUS
<1>1. StartsFresh /\ FoundRows /\ BootRows
  BY DEF SessionInit, StartsFresh, Starting, FoundRows, BootRows, Idle, NoBoot
<1> QED
  BY <1>1, InitTyped DEF FreshInv

LEMMA EntryFresh ==
  ASSUME FreshInv, NEW r \in Requests, NEW s \in Sessions, HandlerEntry(r, s)
  PROVE  StartsFresh' /\ FoundRows' /\ BootRows'
<1>1. /\ UNCHANGED <<status, api, boot>>
      /\ \E op \in Ops, pc \in Pcs : req' = [req EXCEPT ![r] = [op |-> op, pc |-> pc, session |-> s]]
  BY DEF HandlerEntry, StartCheck, PauseRead, ResumeRead, StopRead, DeleteRead, Enter, Ops, Pcs
<1>2. req'[r].session = s /\ \A q \in Requests : q # r => req'[q] = req[q]
  BY <1>1 DEF FreshInv, TypeOK
<1>3. CASE StartCheck(r, s)
  <2>1. /\ req'[r].op = "start" /\ status[s] = "NONE"
        /\ \A q \in Requests : req[q].session # s
    BY <1>3 DEF StartCheck, Enter, FreshInv, TypeOK
  <2> QED
    BY <1>1, <1>2, <2>1 DEF FreshInv, StartsFresh, Starting, FoundRows, BootRows, Stored
<1>4. CASE ~StartCheck(r, s)
  <2>1. req'[r].op # "start" /\ status[s] # "NONE"
    BY <1>4 DEF HandlerEntry, PauseRead, ResumeRead, StopRead, DeleteRead, Enter,
                FreshInv, TypeOK, Stored, Gone
  <2> QED
    BY <1>1, <1>2, <2>1 DEF FreshInv, StartsFresh, Starting, FoundRows, BootRows, Stored
<1> QED
  BY <1>3, <1>4

LEMMA ProgressFresh ==
  ASSUME FreshInv, NEW r \in Requests, HandlerProgress(r)
  PROVE  StartsFresh' /\ FoundRows' /\ BootRows'
<1>1. TypeOK /\ HandlerStep(r)
  BY DEF FreshInv, HandlerStep
<1>2. ~Starting(r)'
  BY <1>1, ProgressLeavesNothingPending DEF Starting, Activating
<1>3. \A q \in Requests : q # r => req'[q] = req[q]
  BY <1>1, OtherSlots
<1>4. /\ api = "up" /\ UNCHANGED <<api, boot>>
      /\ req'[r].op \in {"pause", "resume", "stop", "delete"} =>
           req'[r].op = req[r].op /\ req'[r].session = req[r].session
  BY <1>1, ProgressGoesOn
<1>5. \A s \in Sessions :
        /\ status'[s] = "NONE" => status[s] = "NONE"
        /\ status[s] = "NONE" /\ status'[s] # "NONE" => Starting(r) /\ s = req[r].session
  <2> DEFINE own == req[r].session
  <2>1. CASE UNCHANGED status
    BY <2>1
  <2>2. ASSUME NEW value \in Status \ {"NONE"}, status' = [status EXCEPT ![own] = value],
               Starting(r) \/ status[own] # "NONE"
        PROVE  \A s \in Sessions :
                 /\ status'[s] = "NONE" => status[s] = "NONE"
                 /\ status[s] = "NONE" /\ status'[s] # "NONE" => Starting(r) /\ s = own
    BY <1>1, <2>2 DEF TypeOK
  <2>3. CASE Stored(own) /\ \E value \in {"RUNNING", "PAUSED", "ERROR", "STOPPED"} :
               status' = [status EXCEPT ![own] = value]
    BY <2>2, <2>3 DEF Stored, Gone, Status, Active
  <2>4. CASE Starting(r) /\ status' = [status EXCEPT ![own] = "RUNNING"]
    BY <2>2, <2>4 DEF Status, Active
  <2>5. CASE req[r].op = "delete" /\ status' = [status EXCEPT ![own] = "DELETED"]
    <3>1. status[own] # "NONE"
      BY <2>5 DEF FreshInv, FoundRows
    <3> QED
      BY <2>2, <2>5, <3>1 DEF Status, Gone
  <2>6. CASE /\ status' \in [Sessions -> Status]
             /\ \A s \in Sessions : status'[s] # status[s] => Stored(s) /\ status'[s] = "DELETED"
    BY <2>6 DEF Stored, Gone
  <2> QED
    BY <1>1, <2>1, <2>3, <2>4, <2>5, <2>6, ProgressWrites
<1>6. StartsFresh'
  <2> SUFFICES ASSUME NEW q \in Requests, Starting(q)'
               PROVE  /\ status'[req'[q].session] = "NONE"
                      /\ \A p \in Requests : Starting(p)' /\ req'[p].session = req'[q].session => p = q
    BY DEF StartsFresh
  <2>1. q # r /\ req'[q] = req[q] /\ Starting(q)
    BY <1>2, <1>3 DEF Starting
  <2>2. req[q].session \in Sessions
    BY <1>1, <2>1, InFlight DEF Starting, Ops
  <2>3. status'[req[q].session] = "NONE"
    BY <1>5, <2>1, <2>2 DEF FreshInv, StartsFresh
  <2> QED
    BY <1>2, <1>3, <2>1, <2>3 DEF FreshInv, StartsFresh, Starting
<1>7. FoundRows'
  <2> SUFFICES ASSUME NEW q \in Requests, req'[q].op \in {"pause", "resume", "stop", "delete"}
               PROVE  status'[req'[q].session] # "NONE"
    BY DEF FoundRows
  <2>1. req'[q].op = req[q].op /\ req'[q].session = req[q].session
    BY <1>3, <1>4
  <2>2. status[req[q].session] # "NONE" /\ req[q].session \in Sessions
    BY <1>1, <2>1, InFlight DEF FreshInv, FoundRows, Ops
  <2> QED
    BY <1>5, <2>1, <2>2
<1>8. BootRows'
  BY <1>4 DEF FreshInv, BootRows
<1> QED
  BY <1>6, <1>7, <1>8

\* Listeners and processes rewrite stored rows only.
LEMMA UnattendedWrites ==
  ASSUME FreshInv, (\E s \in Sessions : ListenerStep(s)) \/ ProcessStep
  PROVE  /\ \A s \in Sessions : status'[s] = status[s] \/ (Stored(s) /\ status'[s] = "ERROR")
         /\ BootRows'
<1>1. ASSUME NEW s \in Sessions, ListenerStep(s)
      PROVE  /\ \A t \in Sessions : status'[t] = status[t] \/ (Stored(t) /\ status'[t] = "ERROR")
             /\ UNCHANGED <<boot, api>>
  BY <1>1 DEF FreshInv, ListenerStep, ListenerFinish, ListenerFault, ListenerMarkError,
       ListenerMarkFails, ListenerClosed, TypeOK
<1>2. ASSUME NEW s \in Sessions, ListenerStep(s)
      PROVE  BootRows'
  <2>1. boot.todo \cup boot.failed \subseteq Sessions
    BY DEF FreshInv, TypeOK
  <2> QED
    BY <1>1, <1>2, <2>1 DEF FreshInv, BootRows, Stored, Gone
<1>3. CASE ProcessStep
  <2>1. CASE ApiDown
    BY <2>1 DEF ApiDown, BootRows, NoBoot
  <2>2. CASE ApiStart
    BY <2>2 DEF ApiStart, BootRows, Stored, Gone
  <2>3. CASE BootCommit
    BY <2>3 DEF BootCommit, BootRows, NoBoot, FreshInv, TypeOK
  <2>4. CASE RouterRestart
    BY <2>4 DEF RouterRestart, BootRows, FreshInv, Stored
  <2>5. ASSUME NEW s \in Sessions, BootConnect(s) \/ BootConnectFails(s)
        PROVE  UNCHANGED status /\ BootRows'
    <3>1. UNCHANGED <<status, api>> /\ s \in boot.todo
      BY <2>5 DEF BootConnect, BootConnectFails
    <3>2. boot'.todo \cup boot'.failed \subseteq boot.todo \cup boot.failed
      BY <2>5 DEF BootConnect, BootConnectFails, FreshInv, TypeOK
    <3> QED
      BY <3>1, <3>2 DEF BootRows, FreshInv, Stored
  <2> QED
    BY <1>3, <2>1, <2>2, <2>3, <2>4, <2>5
    DEF ProcessStep, ApiDown, ApiStart, BootCommit, RouterRestart
<1> QED
  BY <1>1, <1>2, <1>3

LEMMA StepFresh == FreshInv /\ [SessionNext]_sessionVars => FreshInv'
<1> SUFFICES ASSUME FreshInv, [SessionNext]_sessionVars
             PROVE  StartsFresh' /\ FoundRows' /\ BootRows'
  BY StepTyped DEF FreshInv
<1>1. ASSUME NEW r \in Requests, NEW m \in Masters, PurgeCancel(r, m)
      PROVE  StartsFresh' /\ FoundRows' /\ BootRows'
  <2>1. UNCHANGED <<status, api, boot>>
    BY <1>1 DEF PurgeCancel
  <2>2. \A q \in Requests : req'[q] = req[q] \/ req'[q].op = "purge"
    BY <1>1 DEF PurgeCancel, FreshInv, TypeOK
  <2> QED
    BY <2>1, <2>2 DEF FreshInv, StartsFresh, Starting, FoundRows, BootRows, Stored
<1>2. CASE (\E s \in Sessions : ListenerStep(s)) \/ ProcessStep
  <2>1. /\ \A s \in Sessions : status'[s] = status[s] \/ (Stored(s) /\ status'[s] = "ERROR")
        /\ BootRows'
    BY <1>2, UnattendedWrites
  <2>2. req' = req \/ req' = [r \in Requests |-> Idle]
    BY <1>2, Unattended DEF FreshInv
  <2>3. \A s \in Sessions : status'[s] = "NONE" <=> status[s] = "NONE"
    BY <2>1 DEF Stored, Gone
  <2>4. \A r \in Requests :
          req[r].op \in {"start", "pause", "resume", "stop", "delete"} => req[r].session \in Sessions
    BY InFlight DEF FreshInv, Ops
  <2>5. CASE req' = req
    BY <2>1, <2>3, <2>4, <2>5 DEF FreshInv, StartsFresh, Starting, FoundRows
  <2>6. CASE req' = [r \in Requests |-> Idle]
    BY <2>1, <2>6 DEF StartsFresh, Starting, FoundRows, Idle
  <2> QED
    BY <2>2, <2>5, <2>6
<1>3. CASE UNCHANGED sessionVars
  BY <1>3 DEF sessionVars, FreshInv, StartsFresh, Starting, FoundRows, BootRows, Stored
<1> QED
  BY <1>1, <1>2, <1>3, EntryFresh, ProgressFresh DEF SessionNext, HandlerStep

LEMMA DeletedKept ==
  ASSUME FreshInv, [SessionNext]_sessionVars, NEW s \in Sessions, status[s] = "DELETED"
  PROVE  status'[s] = "DELETED"
<1>1. ASSUME NEW r \in Requests, HandlerProgress(r)
      PROVE  status'[s] = "DELETED"
  <2>1. Starting(r) => s # req[r].session
    BY DEF FreshInv, StartsFresh
  <2> QED
    BY <1>1, <2>1, ProgressWrites DEF FreshInv, TypeOK, Stored, Gone
<1>2. ASSUME NEW r \in Requests, NEW t \in Sessions, HandlerEntry(r, t)
      PROVE  status' = status
  BY <1>2 DEF HandlerEntry, StartCheck, PauseRead, ResumeRead, StopRead, DeleteRead
<1>3. ASSUME NEW r \in Requests, NEW m \in Masters, PurgeCancel(r, m)
      PROVE  status' = status
  BY <1>3 DEF PurgeCancel
<1>4. CASE (\E t \in Sessions : ListenerStep(t)) \/ ProcessStep
  BY <1>4, UnattendedWrites DEF Stored, Gone
<1>5. CASE UNCHANGED sessionVars
  BY <1>5 DEF sessionVars
<1> QED
  BY <1>1, <1>2, <1>3, <1>4, <1>5 DEF SessionNext, HandlerStep

LEMMA FreshAlways == SessionSpec => []FreshInv
  BY InitFresh, StepFresh, PTL DEF SessionSpec

(***************************************************************************)
(* However requests overlap, listeners crash and the API restarts, a       *)
(* deleted session stays deleted.                                          *)
(***************************************************************************)
THEOREM DeletedForGood == SessionSpec => DeletedStaysDeleted
<1>1. FreshInv /\ [SessionNext]_sessionVars =>
        [\A s \in Sessions : status[s] = "DELETED" => status'[s] = "DELETED"]_sessionVars
  BY DeletedKept
<1> QED
  BY <1>1, FreshAlways, PTL DEF SessionSpec, DeletedStaysDeleted

-----------------------------------------------------------------------------
(***************************************************************************)
(* The places at which a handler can be between two awaits.  Each has an   *)
(* action whose guard asks for nothing else: the commits and the refresh   *)
(* end the handler when the row is gone, the connect call is answered or   *)
(* refused, and the rest is unconditional.                                 *)
(***************************************************************************)
AtPlace(k) ==
  \/ k.op \in {"start", "resume"} /\ k.pc \in {"commit", "refresh", "connect", "task"}
  \/ k.op = "pause" /\ k.pc = "commit"
  \/ k.op = "stop" /\ k.pc \in {"commit", "refresh", "cancel", "disconnect"}
  \/ k.op = "delete" /\ k.pc \in {"cancel", "disconnect", "commit"}
  \/ k.op = "purge" /\ k.pc \in {"commit", "disconnect"}

(***************************************************************************)
(* A request in flight is served by an API that runs, and is at such a     *)
(* place: no handler is lost in a state from which it cannot go on, and a  *)
(* restart leaves none behind.                                             *)
(***************************************************************************)
RequestsPlaced ==
  \A r \in Requests : req[r] # Idle => api = "up" /\ AtPlace(req[r])

LEMMA GotoPlace ==
  ASSUME TypeOK, NEW r \in Requests, req[r] # Idle, NEW pc, Goto(r, pc)
  PROVE  req'[r].op = req[r].op /\ req'[r].pc = pc
<1>1. req[r] \in SessionRequest \cup PurgeRequest
  BY DEF TypeOK
<1> QED
  BY <1>1 DEF TypeOK, Goto, SessionRequest, PurgeRequest

\* Where a handler goes on to, from each of its places.
LEMMA ProgressPlaced ==
  ASSUME TypeOK, NEW r \in Requests, HandlerProgress(r)
  PROVE  /\ req'[r] = Idle \/ AtPlace(req'[r])
         /\ \A q \in Requests \ {r} : req'[q] = req[q]
         /\ api = "up" /\ api' = "up"
<1>1. req[r] # Idle /\ api = "up" /\ api' = "up"
  BY DEF HandlerProgress, StartCommit, PauseCommit, ResumeCommit, Refresh, Connecting,
       Connect, ConnectRefused, ConnectUnreachable, ConnectRefusedUnmarked,
       DatabaseFails, StartTask, StopCommit, CancelListener, Disconnecting, Disconnect,
       DisconnectRefused, DisconnectUnreachable, DeleteCommit, PurgeCommit,
       PurgeConflict, PurgeDisconnect, At, Idle
<1>2. Return(r) \/ \E pc \in Pcs : Goto(r, pc)
  BY DEF HandlerProgress, StartCommit, PauseCommit, ResumeCommit, Refresh, Connect,
       ConnectRefused, ConnectUnreachable, ConnectRefusedUnmarked, DatabaseFails,
       StartTask, StopCommit, CancelListener, CommitStatus, Disconnect,
       DisconnectRefused, DisconnectUnreachable, DeleteCommit, PurgeCommit,
       PurgeConflict, PurgeDisconnect, AfterDisconnect, Pcs
<1>3. \A q \in Requests \ {r} : req'[q] = req[q]
  BY <1>2 DEF Return, Goto, TypeOK
<1>4. CASE Return(r)
  BY <1>1, <1>3, <1>4 DEF Return, TypeOK
<1>5. CASE ~Return(r)
  <2>1. \/ req[r].op \in {"start", "resume", "stop"} /\ Goto(r, "refresh")
        \/ req[r].op = "stop" /\ Goto(r, "cancel")
        \/ req[r].op \in {"start", "resume"} /\ Goto(r, "connect")
        \/ req[r].op \in {"start", "resume"} /\ Goto(r, "task")
        \/ req[r].op \in {"stop", "delete"} /\ Goto(r, "disconnect")
        \/ req[r].op = "delete" /\ Goto(r, "commit")
        \/ req[r].op = "purge" /\ Goto(r, "disconnect")
    BY <1>5 DEF HandlerProgress, StartCommit, PauseCommit, ResumeCommit, Refresh,
         Connecting, Connect, ConnectRefused, ConnectUnreachable,
         ConnectRefusedUnmarked, DatabaseFails, StartTask, StopCommit, CancelListener,
         CommitStatus, Disconnecting, Disconnect, DisconnectRefused,
         DisconnectUnreachable, DeleteCommit, PurgeCommit, PurgeConflict,
         PurgeDisconnect, AfterDisconnect, At
  <2>2. AtPlace(req'[r])
    BY <1>1, <2>1, GotoPlace DEF AtPlace
  <2> QED
    BY <1>1, <1>3, <2>2
<1> QED
  BY <1>4, <1>5

\* Where a request starts.
LEMMA EntryPlaced ==
  ASSUME TypeOK, NEW r \in Requests,
         \/ \E s \in Sessions : HandlerEntry(r, s)
         \/ \E m \in Masters : PurgeCancel(r, m)
  PROVE  /\ req'[r] = req[r] \/ AtPlace(req'[r])
         /\ \A q \in Requests \ {r} : req'[q] = req[q]
         /\ api = "up" /\ api' = "up"
<1>1. ASSUME NEW s \in Sessions, HandlerEntry(r, s)
      PROVE  /\ AtPlace(req'[r])
             /\ \A q \in Requests \ {r} : req'[q] = req[q]
             /\ api = "up" /\ api' = "up"
  <2>1. /\ api = "up" /\ api' = "up"
        /\ \/ \E op \in {"start", "pause", "resume", "stop", "delete"} : Enter(r, op, s, "commit")
           \/ \E op \in {"stop", "delete"} : Enter(r, op, s, "cancel")
    BY <1>1 DEF HandlerEntry, StartCheck, PauseRead, ResumeRead, StopRead, DeleteRead, Enter
  <2> QED
    BY <2>1 DEF Enter, AtPlace, TypeOK
<1>2. ASSUME NEW m \in Masters, PurgeCancel(r, m)
      PROVE  /\ req'[r] = req[r] \/ AtPlace(req'[r])
             /\ \A q \in Requests \ {r} : req'[q] = req[q]
             /\ api = "up" /\ api' = "up"
  <2>1. /\ api = "up" /\ api' = "up"
        /\ \/ req' = [req EXCEPT ![r] = [op |-> "purge", pc |-> "commit",
                                         session |-> NoSession, master |-> m]]
           \/ req' = req
    BY <1>2 DEF PurgeCancel
  <2> QED
    BY <2>1 DEF AtPlace, TypeOK
<1> QED
  BY <1>1, <1>2

LEMMA StepPlaced == TypeOK /\ RequestsPlaced /\ [SessionNext]_sessionVars => RequestsPlaced'
<1> SUFFICES ASSUME TypeOK, RequestsPlaced, [SessionNext]_sessionVars PROVE RequestsPlaced'
  OBVIOUS
<1>1. ASSUME NEW r \in Requests, HandlerStep(r) PROVE RequestsPlaced'
  <2>1. /\ req'[r] = Idle \/ req'[r] = req[r] \/ AtPlace(req'[r])
        /\ \A q \in Requests \ {r} : req'[q] = req[q]
        /\ api' = "up"
    BY <1>1, ProgressPlaced, EntryPlaced DEF HandlerStep
  <2> QED
    BY <2>1 DEF RequestsPlaced
<1>2. ASSUME NEW s \in Sessions, ListenerStep(s) PROVE RequestsPlaced'
  BY <1>2 DEF ListenerStep, ListenerFinish, ListenerFault, ListenerMarkError, ListenerMarkFails,
       ListenerClosed, RequestsPlaced
<1>3. CASE ApiDown
  BY <1>3 DEF ApiDown, RequestsPlaced
<1>4. CASE ProcessStep /\ ~ApiDown
  <2>1. req' = req /\ (api = "up" => api' = "up")
    BY <1>4 DEF ProcessStep, ApiStart, BootCommit, RouterRestart, BootConnect, BootConnectFails
  <2> QED
    BY <2>1 DEF RequestsPlaced
<1>5. CASE UNCHANGED sessionVars
  BY <1>5 DEF sessionVars, RequestsPlaced
<1> QED
  BY <1>1, <1>2, <1>3, <1>4, <1>5 DEF SessionNext, ProcessStep

(***************************************************************************)
(* However requests overlap, fail and are cut off by a restart, each one   *)
(* in flight is at a place its handler goes on from.                       *)
(***************************************************************************)
THEOREM RequestsGoOn == SessionSpec => []RequestsPlaced
<1>1. SessionInit => RequestsPlaced
  BY DEF SessionInit, RequestsPlaced
<1> QED
  BY <1>1, StepPlaced, TypeCorrect, PTL DEF SessionSpec
=============================================================================
