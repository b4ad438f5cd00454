--------------------------- MODULE ServedSessions ---------------------------
(***************************************************************************)
(* Which sessions of CopySessions are without a listener, and through      *)
(* whose fault.  The tables do not say: a session whose listener was lost  *)
(* still reads RUNNING.  The history variable names the sessions that one  *)
(* of the eight places has left behind where the code gives up on them.    *)
(***************************************************************************)
EXTENDS CopySessions

VARIABLE
  abandoned \* sessions left without a listener by one of those places

servedVars == <<sessionVars, abandoned>>

(***************************************************************************)
(* The eight places.                                                       *)
(***************************************************************************)

\* start and resume after an httpx error of the connect call.
ConnectGaveUp(s) ==
  \E r \in Requests : req[r].session = s /\ ConnectUnreachable(r)

\* broker-router refused the connect call, and that could not be recorded.
RefusalUnrecorded(s) ==
  \E r \in Requests : req[r].session = s /\ ConnectRefusedUnmarked(r)

\* start and resume after RUNNING was committed and the session could not be
\* read back, or its targets not loaded.
ReadBackGaveUp(s) ==
  \E r \in Requests :
    /\ req[r].session = s
    /\ req[r].op \in {"start", "resume"}
    /\ req[r].pc = "refresh"
    /\ DatabaseFails(r)

\* start_session_task found the old task in its finally block: not done() yet,
\* so it starts no other one.
OldTaskInTheWay(s) ==
  /\ listener[s] \in {"closing", "raising"}
  /\ \E r \in Requests : req[r].session = s /\ StartTask(r)

\* The listener crashed and its ERROR could not be written.
CrashUnrecorded(s) == ListenerMarkFails(s)

\* A deletion cancelled the listener, then the disconnect or the commit raised.
DeletionGaveUp(s) ==
  \E r \in Requests :
    /\ req[r].op = "delete"
    /\ req[r].session = s
    /\ DisconnectUnreachable(r) \/ DatabaseFails(r)

\* A stop cancels the listener of a session that another handler has made
\* RUNNING again after the stop committed STOPPED.
StopOverwritten(s) ==
  /\ status[s] = "RUNNING"
  /\ \E r \in Requests :
       req[r].op = "stop" /\ req[r].session = s /\ CancelListener(r)

\* The deletion of the master cancelled the listener and then failed: one of
\* the cancelled tasks had ended with an exception, or the commit conflicted.
PurgeGaveUp(s) ==
  \/ /\ \E r \in Requests : PurgeCancel(r, MasterOf[s]) /\ UNCHANGED req
     /\ s \in ActiveOf(MasterOf[s])
  \/ \E r \in Requests :
       req[r].op = "purge" /\ req[r].master = MasterOf[s] /\ PurgeConflict(r)

LeftBehind(s) ==
  \/ ConnectGaveUp(s)
  \/ RefusalUnrecorded(s)
  \/ ReadBackGaveUp(s)
  \/ OldTaskInTheWay(s)
  \/ CrashUnrecorded(s)
  \/ DeletionGaveUp(s)
  \/ StopOverwritten(s)
  \/ PurgeGaveUp(s)

\* A session is no longer abandoned once it has a listener again or does not
\* say RUNNING any more: pausing and resuming it must be enough.
ServedInit == SessionInit /\ abandoned = {}

ServedNext ==
  /\ SessionNext
  /\ abandoned' = {s \in Sessions : /\ status'[s] = "RUNNING"
                                    /\ listener'[s] # "polling"
                                    /\ s \in abandoned \/ LeftBehind(s)}

ServedSpec == ServedInit /\ [][ServedNext]_servedVars

-----------------------------------------------------------------------------
\* The deletion of the session's master has cancelled its listeners and not
\* yet removed the rows.
PurgePending(r, s) ==
  req[r].op = "purge" /\ req[r].pc = "commit" /\ req[r].master = MasterOf[s]

\* No request in flight is about this session.
AtRest(s) ==
  /\ api = "up"
  /\ \A r \in Requests : req[r].session # s /\ ~PurgePending(r, s)

(***************************************************************************)
(* A session that says RUNNING and that no request in flight is about is   *)
(* listened for, across refused connections, crashes, deletions, restarts  *)
(* of the API, database errors and requests that overlap, except where one *)
(* of the eight places gave up on it and until it is resumed.              *)
(***************************************************************************)
RunningHasListener ==
  \A s \in Sessions \ abandoned :
    AtRest(s) /\ status[s] = "RUNNING" => listener[s] \in {"polling", "failing"}
=============================================================================
