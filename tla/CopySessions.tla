---------------------------- MODULE CopySessions ----------------------------
(***************************************************************************)
(* The life cycle of live-copy sessions in the main API.                   *)
(*                                                                         *)
(* A session is a row of copy_sessions plus, while it is served, an        *)
(* asyncio task of the LiveCopyManager that listens to the master's        *)
(* stream.  Five HTTP handlers (start, pause, resume, stop, delete) move   *)
(* it, and the deletion of its master's account takes it along (purge      *)
(* below).  Each handler awaits the database and the broker-router several     *)
(* times, and the event loop runs other handlers and the listeners at      *)
(* every await: an action here is the code between two awaits, and         *)
(* req[r].pc says where handler r is.  No handler locks the row it read.   *)
(***************************************************************************)
EXTENDS FiniteSets

CONSTANTS
  Masters,   \* master broker accounts
  Sessions,  \* session ids (uuids) the start handler can draw
  Requests,  \* HTTP requests the API can have in flight together
  MasterOf,  \* the master each session id is started for
  NoSession, \* what a request without a session holds
  Purgeable, \* masters whose account may be deleted
  Faults     \* the faults this instance meets, see FaultKinds

(***************************************************************************)
(* http: broker-router answers with an error status.  network: no answer   *)
(* at all (httpx raises), although the call may have taken effect.         *)
(* db: a commit, or the reads that follow it, raise.  listener: the        *)
(* listener task raises.  api, router: the process dies and is restarted.  *)
(***************************************************************************)
FaultKinds == {"http", "network", "db", "listener", "api", "router"}

ASSUME MasterOfAssumption == MasterOf \in [Sessions -> Masters]
ASSUME NoSessionAssumption == NoSession \notin Sessions
ASSUME PurgeableAssumption == Purgeable \subseteq Masters
ASSUME FaultsAssumption == Faults \subseteq FaultKinds

VARIABLES
  masters,  \* master accounts that exist
  status,   \* status column of each session row; NONE: id not drawn yet
  listener, \* the task of each session: the manager's entry and its progress
  stream,   \* masters with a live connection in the broker-router
  req,      \* the handler each in-flight request runs
  api,      \* the API process
  boot      \* progress of resume_running_sessions

sessionVars == <<masters, status, listener, stream, req, api, boot>>

Active == {"RUNNING", "PAUSED"}
Gone   == {"NONE", "DELETED"}
Status == Active \cup Gone \cup {"STOPPED", "ERROR"}

(***************************************************************************)
(* none: no entry in _tasks, or one that is done().  polling: in the       *)
(* get_message loop or in process_redis_message.  failing: an exception    *)
(* was caught, the ERROR status is being written.  closing: in the finally *)
(* block; the task is not done() yet.  raising: the same, with an          *)
(* exception on its way out.  raised: done(), and the entry left in _tasks *)
(* holds that exception.                                                   *)
(***************************************************************************)
ListenerState == {"none", "polling", "failing", "closing", "raising", "raised"}

Ops  == {"start", "pause", "resume", "stop", "delete"}
Pcs  == {"commit", "refresh", "connect", "task", "cancel", "disconnect"}
Idle == [op |-> "none", pc |-> "idle", session |-> NoSession]

\* Requests for one session, and the deletion of a master account.
SessionRequest == [op : Ops, pc : Pcs, session : Sessions]
PurgeRequest == [op : {"purge"}, pc : Pcs, session : {NoSession}, master : Masters]

NoBoot == [todo |-> {}, failed |-> {}]

TypeOK ==
  /\ masters \in SUBSET Masters
  /\ status \in [Sessions -> Status]
  /\ listener \in [Sessions -> ListenerState]
  /\ stream \in SUBSET Masters
  /\ req \in [Requests -> SessionRequest \cup PurgeRequest \cup {Idle}]
  /\ api \in {"up", "down", "booting"}
  /\ boot \in [todo : SUBSET Sessions, failed : SUBSET Sessions]

SessionInit ==
  /\ masters = Masters
  /\ status = [s \in Sessions |-> "NONE"]
  /\ listener = [s \in Sessions |-> "none"]
  /\ stream = {}
  /\ req = [r \in Requests |-> Idle]
  /\ api = "up"
  /\ boot = NoBoot

-----------------------------------------------------------------------------
(* Request plumbing.                                                       *)

Stored(s) == status[s] \notin Gone

At(r, op, pc) == api = "up" /\ req[r].op = op /\ req[r].pc = pc

Goto(r, pc) == req' = [req EXCEPT ![r].pc = pc]

Return(r) == req' = [req EXCEPT ![r] = Idle]

\* A request enters handler op for session s and stops at its first write.
Enter(r, op, s, pc) ==
  /\ api = "up"
  /\ req[r] = Idle
  /\ req' = [req EXCEPT ![r] = [op |-> op, pc |-> pc, session |-> s]]

\* Mutation: a handler whose row is gone never ends.
CommitStatusOrWait(r, value, pc) ==
  /\ Stored(req[r].session)
  /\ status' = [status EXCEPT ![req[r].session] = value]
  /\ IF pc = "idle" THEN Return(r) ELSE Goto(r, pc)

\* Mutation: the status is merged as a new row when the old one is gone.
CommitStatusUpsert(r, value, pc) ==
  /\ status' = [status EXCEPT ![req[r].session] = value]
  /\ IF pc = "idle" THEN Return(r) ELSE Goto(r, pc)

\* COMMIT of a status the handler decided on from its own, earlier read.  The
\* UPDATE names the row by id only; when the row is gone it matches nothing,
\* SQLAlchemy raises and the handler ends with an error.
CommitStatus(r, value, pc) ==
  \/ /\ Stored(req[r].session)
     /\ status' = [status EXCEPT ![req[r].session] = value]
     /\ IF pc = "idle" THEN Return(r) ELSE Goto(r, pc)
  \/ /\ ~Stored(req[r].session)
     /\ Return(r)
     /\ UNCHANGED status

\* db.refresh and, for start and resume, preload_session_targets after that
\* commit: the handler ends if the row is gone by now.
Refresh(r) ==
  /\ \E op \in {"start", "resume", "stop"} : At(r, op, "refresh")
  /\ IF Stored(req[r].session)
       THEN Goto(r, IF req[r].op = "stop" THEN "cancel" ELSE "connect")
       ELSE Return(r)
  /\ UNCHANGED <<masters, status, listener, stream, api, boot>>

\* Those database calls raise: nobody catches it, and what was committed stays.
DatabaseFails(r) ==
  /\ "db" \in Faults
  /\ \E op \in Ops : At(r, op, "commit") \/ At(r, op, "refresh")
  /\ Return(r)
  /\ UNCHANGED <<masters, status, listener, stream, api, boot>>

-----------------------------------------------------------------------------
(* POST /copy-sessions/start                                               *)

\* Mutation: PAUSED sessions of the master are overlooked.
StartCheckRunningOnly(r, s) ==
  /\ MasterOf[s] \in masters
  /\ status[s] = "NONE"
  /\ \A q \in Requests : req[q].session # s
  /\ \A t \in Sessions : MasterOf[t] = MasterOf[s] => status[t] # "RUNNING"
  /\ Enter(r, "start", s, "commit")
  /\ UNCHANGED <<masters, status, listener, stream, api, boot>>

\* The validation finds no RUNNING or PAUSED session of this master.
StartCheck(r, s) ==
  /\ MasterOf[s] \in masters
  /\ status[s] = "NONE"
  /\ \A q \in Requests : req[q].session # s
  /\ \A t \in Sessions : MasterOf[t] = MasterOf[s] => status[t] \notin Active
  /\ Enter(r, "start", s, "commit")
  /\ UNCHANGED <<masters, status, listener, stream, api, boot>>

\* The row references its master: without that account the insert fails.
StartCommit(r) ==
  /\ At(r, "start", "commit")
  /\ IF MasterOf[req[r].session] \in masters
       THEN /\ status' = [status EXCEPT ![req[r].session] = "RUNNING"]
            /\ Goto(r, "refresh")
       ELSE Return(r) /\ UNCHANGED status
  /\ UNCHANGED <<masters, listener, stream, api, boot>>

(* POST /copy-sessions/{id}/pause and /resume                              *)

PauseRead(r, s) ==
  /\ status[s] = "RUNNING"
  /\ Enter(r, "pause", s, "commit")
  /\ UNCHANGED <<masters, status, listener, stream, api, boot>>

PauseCommit(r) ==
  /\ At(r, "pause", "commit")
  /\ CommitStatus(r, "PAUSED", "idle")
  /\ UNCHANGED <<masters, listener, stream, api, boot>>

\* Mutation: a stopped session can be resumed as well.
ResumeReadStopped(r, s) ==
  /\ status[s] \in {"PAUSED", "STOPPED"}
  /\ Enter(r, "resume", s, "commit")
  /\ UNCHANGED <<masters, status, listener, stream, api, boot>>

ResumeRead(r, s) ==
  /\ status[s] = "PAUSED"
  /\ Enter(r, "resume", s, "commit")
  /\ UNCHANGED <<masters, status, listener, stream, api, boot>>

ResumeCommit(r) ==
  /\ At(r, "resume", "commit")
  /\ CommitStatus(r, "RUNNING", "refresh")
  /\ UNCHANGED <<masters, listener, stream, api, boot>>

(* What start and resume have in common: connect the stream, start the     *)
(* listener.                                                               *)

Connecting(r) == \E op \in {"start", "resume"} : At(r, op, "connect")

\* broker-router reads the account first.
Connect(r) ==
  /\ Connecting(r)
  /\ MasterOf[req[r].session] \in masters
  /\ stream' = stream \cup {MasterOf[req[r].session]}
  /\ Goto(r, "task")
  /\ UNCHANGED <<masters, status, listener, api, boot>>

\* An error status of broker-router becomes an HTTPException: the session is
\* committed as ERROR, whatever another handler has written meanwhile.
ConnectRefused(r) ==
  /\ Connecting(r)
  /\ "http" \in Faults \/ MasterOf[req[r].session] \notin masters
  /\ CommitStatus(r, "ERROR", "idle")
  /\ UNCHANGED <<masters, listener, stream, api, boot>>

\* That commit raises instead: the session keeps the status it had.
ConnectRefusedUnmarked(r) ==
  /\ "db" \in Faults
  /\ Connecting(r)
  /\ "http" \in Faults \/ MasterOf[req[r].session] \notin masters
  /\ Return(r)
  /\ UNCHANGED <<masters, status, listener, stream, api, boot>>

\* An httpx error is not an HTTPException: nothing marks the session.
ConnectUnreachable(r) ==
  /\ "network" \in Faults
  /\ Connecting(r)
  /\ stream' \in {stream, stream \cup ({MasterOf[req[r].session]} \cap masters)}
  /\ Return(r)
  /\ UNCHANGED <<masters, status, listener, api, boot>>

\* Mutation: any listed task is left alone, also one that is done().
StartTaskUnlessListed(r) ==
  /\ \E op \in {"start", "resume"} : At(r, op, "task")
  /\ listener' = [listener EXCEPT ![req[r].session] =
                    IF @ = "none" THEN "polling" ELSE @]
  /\ Return(r)
  /\ UNCHANGED <<masters, status, stream, api, boot>>

\* start_session_task leaves a task alone that is not done().
StartTask(r) ==
  /\ \E op \in {"start", "resume"} : At(r, op, "task")
  /\ listener' = [listener EXCEPT ![req[r].session] =
                    IF @ \in {"none", "raised"} THEN "polling" ELSE @]
  /\ Return(r)
  /\ UNCHANGED <<masters, status, stream, api, boot>>

-----------------------------------------------------------------------------
(* POST /copy-sessions/{id}/stop and DELETE /copy-sessions/{id}            *)

StopRead(r, s) ==
  /\ Stored(s)
  /\ Enter(r, "stop", s, IF status[s] = "STOPPED" THEN "cancel" ELSE "commit")
  /\ UNCHANGED <<masters, status, listener, stream, api, boot>>

StopCommit(r) ==
  /\ At(r, "stop", "commit")
  /\ CommitStatus(r, "STOPPED", "refresh")
  /\ UNCHANGED <<masters, listener, stream, api, boot>>

\* Mutation: the stream is disconnected whatever the session's status.
DeleteReadUnchecked(r, s) ==
  /\ Stored(s)
  /\ Enter(r, "delete", s, "cancel")
  /\ UNCHANGED <<masters, status, listener, stream, api, boot>>

DeleteRead(r, s) ==
  /\ Stored(s)
  /\ Enter(r, "delete", s, IF status[s] \in Active THEN "cancel" ELSE "commit")
  /\ UNCHANGED <<masters, status, listener, stream, api, boot>>

\* stop_session_task: the entry is popped and the task cancelled, whatever it
\* was awaiting; then the task is awaited.  The exception of a task that had
\* ended with one comes out of that await and ends the handler.
CancelListener(r) ==
  /\ \E op \in {"stop", "delete"} : At(r, op, "cancel")
  /\ listener' = [listener EXCEPT ![req[r].session] = "none"]
  /\ IF listener[req[r].session] = "raised" THEN Return(r) ELSE Goto(r, "disconnect")
  /\ UNCHANGED <<masters, status, stream, api, boot>>

\* A stop ends here, a deletion goes on to its commit.
AfterDisconnect(r) ==
  IF req[r].op = "delete" THEN Goto(r, "commit") ELSE Return(r)

Disconnecting(r) == \E op \in {"stop", "delete"} : At(r, op, "disconnect")

Disconnect(r) ==
  /\ Disconnecting(r)
  /\ stream' = stream \ {MasterOf[req[r].session]}
  /\ AfterDisconnect(r)
  /\ UNCHANGED <<masters, status, listener, api, boot>>

DisconnectRefused(r) ==
  /\ "http" \in Faults
  /\ Disconnecting(r)
  /\ AfterDisconnect(r)
  /\ UNCHANGED <<masters, status, listener, stream, api, boot>>

DisconnectUnreachable(r) ==
  /\ "network" \in Faults
  /\ Disconnecting(r)
  /\ stream' \in {stream, stream \ {MasterOf[req[r].session]}}
  /\ Return(r)
  /\ UNCHANGED <<masters, status, listener, api, boot>>

DeleteCommit(r) ==
  /\ At(r, "delete", "commit")
  /\ status' = [status EXCEPT ![req[r].session] = "DELETED"]
  /\ Return(r)
  /\ UNCHANGED <<masters, listener, stream, api, boot>>

-----------------------------------------------------------------------------
(* DELETE /accounts/{id} of a master account                               *)

ActiveOf(m) == {s \in Sessions : MasterOf[s] = m /\ status[s] \in Active}

\* The listeners of the master's active sessions are cancelled one after the
\* other; one that had ended with an exception ends the handler there.
PurgeCancel(r, m) ==
  /\ api = "up"
  /\ req[r] = Idle
  /\ m \in masters \cap Purgeable
  /\ \E done \in SUBSET ActiveOf(m) :
       LET raised == {s \in done : listener[s] = "raised"}
       IN  /\ listener' = [s \in Sessions |-> IF s \in done THEN "none" ELSE listener[s]]
           /\ \/ /\ done = ActiveOf(m)
                 /\ raised = {}
                 /\ req' = [req EXCEPT ![r] = [op |-> "purge", pc |-> "commit",
                                              session |-> NoSession, master |-> m]]
              \/ Cardinality(raised) = 1 /\ UNCHANGED req
  /\ UNCHANGED <<masters, status, stream, api, boot>>

\* The account goes, and with it all its sessions.
PurgeCommit(r) ==
  /\ At(r, "purge", "commit")
  /\ masters' = masters \ {req[r].master}
  /\ status' = [s \in Sessions |->
                  IF MasterOf[s] = req[r].master /\ Stored(s) THEN "DELETED" ELSE status[s]]
  /\ Goto(r, "disconnect")
  /\ UNCHANGED <<listener, stream, api, boot>>

\* Other records still need the account: 409, and the sessions go on without
\* their listeners.
PurgeConflict(r) ==
  /\ "db" \in Faults
  /\ At(r, "purge", "commit")
  /\ Return(r)
  /\ UNCHANGED <<masters, status, listener, stream, api, boot>>

\* A background task, whose errors are dropped.
PurgeDisconnect(r) ==
  /\ At(r, "purge", "disconnect")
  /\ \/ stream' = stream \ {req[r].master}
     \/ Faults \cap {"http", "network"} # {} /\ UNCHANGED stream
  /\ Return(r)
  /\ UNCHANGED <<masters, status, listener, api, boot>>

-----------------------------------------------------------------------------
(* The listener task, as far as the session's life cycle goes.             *)

\* Mutation: only a deleted session ends its listener.
ListenerFinishDeletedOnly(s) ==
  /\ listener[s] = "polling"
  /\ status[s] \in Gone
  /\ listener' = [listener EXCEPT ![s] = "closing"]
  /\ UNCHANGED <<masters, status, stream, req, api, boot>>

\* A quiet second passed and _session_finished reads a finished session.
ListenerFinish(s) ==
  /\ listener[s] = "polling"
  /\ status[s] \in Gone \cup {"STOPPED", "ERROR"}
  /\ listener' = [listener EXCEPT ![s] = "closing"]
  /\ UNCHANGED <<masters, status, stream, req, api, boot>>

ListenerFault(s) ==
  /\ "listener" \in Faults
  /\ listener[s] = "polling"
  /\ listener' = [listener EXCEPT ![s] = "failing"]
  /\ UNCHANGED <<masters, status, stream, req, api, boot>>

\* ERROR overwrites whatever status the row has.
ListenerMarkError(s) ==
  /\ listener[s] = "failing"
  /\ status' = [status EXCEPT ![s] = IF Stored(s) THEN "ERROR" ELSE @]
  /\ listener' = [listener EXCEPT ![s] = "closing"]
  /\ UNCHANGED <<masters, stream, req, api, boot>>

ListenerMarkFails(s) ==
  /\ "db" \in Faults
  /\ listener[s] = "failing"
  /\ listener' = [listener EXCEPT ![s] = "raising"]
  /\ UNCHANGED <<masters, status, stream, req, api, boot>>

ListenerClosed(s) ==
  /\ listener[s] \in {"closing", "raising"}
  /\ listener' = [listener EXCEPT ![s] = IF @ = "closing" THEN "none" ELSE "raised"]
  /\ UNCHANGED <<masters, status, stream, req, api, boot>>

-----------------------------------------------------------------------------
(* The API and broker-router processes.                                    *)

\* A crash, shutdown(), or a startup whose queries or commit raise: every task
\* and every handler is gone.
ApiDown ==
  /\ "api" \in Faults
  /\ api # "down"
  /\ api' = "down"
  /\ listener' = [s \in Sessions |-> "none"]
  /\ req' = [r \in Requests |-> Idle]
  /\ boot' = NoBoot
  /\ UNCHANGED <<masters, status, stream>>

ApiStart ==
  /\ api = "down"
  /\ api' = "booting"
  /\ boot' = [todo |-> {s \in Sessions : status[s] = "RUNNING"}, failed |-> {}]
  /\ UNCHANGED <<masters, status, listener, stream, req>>

BootConnect(s) ==
  /\ s \in boot.todo
  /\ stream' = stream \cup {MasterOf[s]}
  /\ listener' = [listener EXCEPT ![s] = "polling"]
  /\ boot' = [boot EXCEPT !.todo = @ \ {s}]
  /\ UNCHANGED <<masters, status, req, api>>

BootConnectFails(s) ==
  /\ s \in boot.todo
  /\ boot' = [todo |-> boot.todo \ {s}, failed |-> boot.failed \cup {s}]
  /\ \/ "http" \in Faults /\ UNCHANGED stream
     \/ "network" \in Faults /\ stream' \in {stream, stream \cup {MasterOf[s]}}
  /\ UNCHANGED <<masters, status, listener, req, api>>

\* One commit at the end for all sessions that could not be reconnected; only
\* then does the API serve requests.
BootCommit ==
  /\ api = "booting"
  /\ boot.todo = {}
  /\ status' = [s \in Sessions |->
                  IF s \in boot.failed THEN "ERROR" ELSE status[s]]
  /\ api' = "up"
  /\ boot' = NoBoot
  /\ UNCHANGED <<masters, listener, stream, req>>

\* broker-router keeps its connections in memory and nobody reconnects them.
RouterRestart ==
  /\ "router" \in Faults
  /\ stream # {}
  /\ stream' = {}
  /\ UNCHANGED <<masters, status, listener, req, api, boot>>

-----------------------------------------------------------------------------
\* A request arrives and runs to its first write.
HandlerEntry(r, s) ==
  \/ StartCheck(r, s)
  \/ PauseRead(r, s)
  \/ ResumeRead(r, s)
  \/ StopRead(r, s)
  \/ DeleteRead(r, s)

\* A request in flight goes on.
HandlerProgress(r) ==
  \/ StartCommit(r)
  \/ PauseCommit(r)
  \/ ResumeCommit(r)
  \/ Refresh(r)
  \/ DatabaseFails(r)
  \/ Connect(r)
  \/ ConnectRefused(r)
  \/ ConnectRefusedUnmarked(r)
  \/ ConnectUnreachable(r)
  \/ StartTask(r)
  \/ StopCommit(r)
  \/ CancelListener(r)
  \/ Disconnect(r)
  \/ DisconnectRefused(r)
  \/ DisconnectUnreachable(r)
  \/ DeleteCommit(r)
  \/ PurgeCommit(r)
  \/ PurgeConflict(r)
  \/ PurgeDisconnect(r)

HandlerStep(r) ==
  \/ HandlerProgress(r)
  \/ \E s \in Sessions : HandlerEntry(r, s)
  \/ \E m \in Masters : PurgeCancel(r, m)

ListenerStep(s) ==
  \/ ListenerFinish(s)
  \/ ListenerFault(s)
  \/ ListenerMarkError(s)
  \/ ListenerMarkFails(s)
  \/ ListenerClosed(s)

ProcessStep ==
  \/ ApiDown
  \/ ApiStart
  \/ BootCommit
  \/ RouterRestart
  \/ \E s \in Sessions : BootConnect(s) \/ BootConnectFails(s)

SessionNext ==
  \/ \E r \in Requests : HandlerStep(r)
  \/ \E s \in Sessions : ListenerStep(s)
  \/ ProcessStep

SessionSpec == SessionInit /\ [][SessionNext]_sessionVars

-----------------------------------------------------------------------------
(* Properties.                                                             *)

(***************************************************************************)
(* What overlapping handlers must not do to each other.  The handlers hold *)
(* no lock between the read they decide on and the write, so the           *)
(* properties below are promises only while the conditions here hold:      *)
(* each is a condition on the handlers in flight at one moment.            *)
(***************************************************************************)

\* Between its read and the write that makes its session RUNNING or PAUSED.
Activating(r) == req[r].op \in {"start", "pause", "resume"} /\ req[r].pc = "commit"

\* Past its read that the session is active, and about to unplug the stream.
Deleting(r) == req[r].op = "delete" /\ req[r].pc \in {"cancel", "disconnect"}

SameMaster(q, r) == MasterOf[req[q].session] = MasterOf[req[r].session]

\* Two sessions of a master are not activated side by side.
ActivationsApart ==
  \A q, r \in Requests :
    Activating(q) /\ Activating(r) /\ SameMaster(q, r)
      => req[q].session = req[r].session

\* A session is not stopped beside its activation.
StopsApart ==
  \A q, r \in Requests :
    Activating(q) /\ req[r].op = "stop" /\ req[r].pc = "commit"
      => req[q].session # req[r].session

\* A session is not activated beside the deletion of another of its master.
DeletesApart ==
  \A q, r \in Requests :
    Activating(q) /\ Deleting(r) /\ SameMaster(q, r)
      => req[q].session = req[r].session

(***************************************************************************)
(* A master has at most one RUNNING or PAUSED session: what the check in   *)
(* start_copy_session is for.  It is a check followed by an insert with    *)
(* awaits in between and no constraint in the database, so it holds while  *)
(* ActivationsApart does.                                                  *)
(***************************************************************************)
OneActivePerMaster ==
  \A s, t \in Sessions :
    /\ MasterOf[s] = MasterOf[t]
    /\ status[s] \in Active
    /\ status[t] \in Active
    => s = t

(***************************************************************************)
(* A session the operator stopped is never RUNNING or PAUSED again: resume *)
(* only accepts PAUSED sessions, and the restart of the API only RUNNING   *)
(* ones.  It holds while StopsApart does.  (A crashing listener may still  *)
(* turn STOPPED into ERROR.)                                               *)
(***************************************************************************)
StoppedStaysStopped ==
  [][\A s \in Sessions :
       status[s] = "STOPPED" => status'[s] \notin Active]_sessionVars

(***************************************************************************)
(* No overlap of requests, no listener and no restart brings a deleted     *)
(* session back: handlers and listeners that read the row before it went   *)
(* go on to write it by its id, and find no row.                           *)
(***************************************************************************)
DeletedStaysDeleted ==
  [][\A s \in Sessions : status[s] = "DELETED" => status'[s] = "DELETED"]_sessionVars

(***************************************************************************)
(* Deleting a session unplugs the master's stream only if no other session *)
(* of that master is RUNNING: delete_copy_session disconnects for active   *)
(* sessions alone.  It holds while ActivationsApart and DeletesApart do.   *)
(***************************************************************************)
DeleteSparesOthers ==
  [][\A r \in Requests :
       /\ At(r, "delete", "disconnect")
       /\ MasterOf[req[r].session] \in stream \ stream'
       => \A s \in Sessions \ {req[r].session} :
            MasterOf[s] = MasterOf[req[r].session] => status[s] # "RUNNING"
    ]_sessionVars

(***************************************************************************)
(* A session that is stopped or deleted for good ends up without a         *)
(* listener task, in whatever order overlapping start, resume, stop and    *)
(* delete requests finish, its master's deletion included.                 *)
(***************************************************************************)
StoppedSessionIsLetGo ==
  \A s \in Sessions :
    <>[](status[s] \in {"STOPPED", "DELETED"}) => <>[](listener[s] \in {"none", "raised"})
=============================================================================
