---------------------------- MODULE ScriptMaster ----------------------------
(***************************************************************************)
(* The script master of one exchange (services/script_master.py): the      *)
(* instruments stored in the database, the cache in memory that lookups    *)
(* are answered from, and the three tasks that fill it: the preload after  *)
(* a login, the manual refresh, and the lookup of a live session for an    *)
(* order ack without a scripCode.                                          *)
(*                                                                         *)
(* A lock per exchange covers the download.  It is released before the     *)
(* task's transaction is committed, and the cache in memory is replaced    *)
(* before that too.                                                        *)
(***************************************************************************)
EXTENDS ScriptMatch

CONSTANTS
  Home,       \* the exchange
  Answers,    \* the lists that Sharekhan may answer
  Events,     \* what acks say about their instruments
  Tasks,
  None,
  TTL,        \* script_master_cache_ttl_hours
  MaxNow      \* bound: hours that pass

\* Sharekhan's rows name no exchange or the one they were asked for.
ASSUME AnswerAssumption ==
  /\ Home \in Exchanges
  /\ Answers \subseteq Seq({raw \in RawRows : raw.exchange \in {Home, Missing}})
  /\ Events \subseteq Lookups
  /\ TTL \in Nat \ {0} /\ MaxNow \in Nat

VARIABLES
  table,   \* the committed rows of script_master_instruments, and refreshed_at
  cache,   \* _exchange_cache: None until it is loaded
  queue,   \* _exchange_lock: the holder, then the tasks that wait for it
  task,    \* what each task is doing
  writer,  \* the task whose rows are flushed and not committed, or None
  now,
  split,   \* history: the cache was filled without the table, see MemoryMatchesTable
  result   \* the answer that a lookup gets in this step

scriptVars == <<table, cache, queue, task, writer, now, split, result>>

Lists == {Normalised(answer, Home) : answer \in Answers} \ {{}}

\* Lists of one exchange overlap: the unique constraint on exchange and code
\* refuses the second of two downloads that do not see each other.
ASSUME OverlapAssumption ==
  \A A, B \in Lists : \E r \in A, q \in B : SameKey(r, q)

Stored(S, at) == [rows |-> S, at |-> at]

NeverRefreshed == Stored({}, None)

Contents == [rows : Lists \cup {{}}, at : 0..MaxNow \cup {None}]

ASSUME NoneAssumption == None \notin Contents \cup [task : Tasks, got : Contents]

Idle == [pc |-> "idle"]

Asking ==
  [pc : {"wait", "load", "fetch", "store", "blocked", "conflict", "commit", "dispatch"},
   op : {"preload", "refresh", "lookup"},
   event : Events \cup {None}, got : Contents]

Results == [event : Events, outcome : Outcomes]

TypeOK ==
  /\ table \in Contents
  /\ cache \in Contents \cup {None}
  /\ queue \in Seq(Tasks)
  /\ task \in [Tasks -> Asking \cup {Idle}]
  /\ writer \in [task : Tasks, got : Contents] \cup {None}
  /\ now \in 0..MaxNow
  /\ split \in BOOLEAN
  /\ result \in Results \cup {None}

\* A table that was filled before, or never.
Init ==
  /\ table \in {NeverRefreshed} \cup {Stored(S, 0) : S \in Lists}
  /\ cache = None
  /\ queue = <<>>
  /\ task = [t \in Tasks |-> Idle]
  /\ writer = None
  /\ now = 0
  /\ split = FALSE
  /\ result = None

At(t, pc) == task[t].pc = pc

Goto(t, pc) == task' = [task EXCEPT ![t].pc = pc]

Holds(t) == queue # <<>> /\ Head(queue) = t

Release == queue' = Tail(queue)

Lookup(t) == task[t].op = "lookup"

\* The answer is taken from the cache as the lock is released.
Answered(t, c) ==
  result' = IF Lookup(t)
            THEN [event |-> task[t].event, outcome |-> Resolve(c.rows, task[t].event)]
            ELSE None

\* A task that goes on without rows of its own: a lookup's transaction is the
\* dispatch's, the others have nothing to commit.
Finish(t) ==
  /\ Release
  /\ IF Lookup(t) THEN Goto(t, "dispatch") ELSE task' = [task EXCEPT ![t] = Idle]

-----------------------------------------------------------------------------
Begin(t) ==
  /\ task[t] = Idle
  /\ \E op \in {"preload", "refresh", "lookup"} :
       \E e \in IF op = "lookup" THEN Events ELSE {None} :
         task' = [task EXCEPT ![t] = [pc |-> "wait", op |-> op, event |-> e,
                                      got |-> NeverRefreshed]]
  /\ queue' = Append(queue, t)
  /\ result' = None
  /\ UNCHANGED <<table, cache, writer, now, split>>

\* _cache_is_usable; a lookup passes refresh_stale=False.
Usable(t, c) == c.at # None /\ (Lookup(t) \/ c.at + TTL > now)

Decide(t, c) ==
  IF Usable(t, c)
  THEN Finish(t) /\ Answered(t, c)
  ELSE Goto(t, "fetch") /\ result' = None /\ UNCHANGED queue

\* With the lock: a refresh downloads whatever the cache holds.
Acquire(t) ==
  /\ At(t, "wait") /\ Holds(t)
  /\ IF task[t].op = "refresh" THEN Goto(t, "fetch") /\ result' = None /\ UNCHANGED queue
     ELSE IF cache = None THEN Goto(t, "load") /\ result' = None /\ UNCHANGED queue
     ELSE Decide(t, cache)
  /\ UNCHANGED <<table, cache, writer, now, split>>

Load(t) ==
  /\ At(t, "load")
  /\ cache' = table
  /\ Decide(t, table)
  /\ UNCHANGED <<table, writer, now, split>>

-----------------------------------------------------------------------------
(* broker-router's answer to GET /master/{exchange}                        *)

\* Mutation: a download that fails leaves the exchange locked.
FetchFailsLocked(t) ==
  /\ At(t, "fetch")
  /\ task' = [task EXCEPT ![t] = Idle]
  /\ result' = None
  /\ UNCHANGED <<table, cache, queue, writer, now, split>>

\* A lookup and a preload go on with a cache that has rows; without one the
\* lookup is told that the cache is empty, and the other two give up.
FetchFails(t) ==
  /\ At(t, "fetch")
  /\ Finish(t)
  /\ Answered(t, cache)
  /\ UNCHANGED <<table, cache, writer, now, split>>

\* Mutation: an empty answer replaces what the cache holds.
FetchEmptyReplaces(t, answer) ==
  /\ At(t, "fetch")
  /\ Normalised(answer, Home) = {}
  /\ cache' = Stored({}, now)
  /\ split' = (split \/ (cache = None /\ table.rows # {}))
  /\ Finish(t)
  /\ Answered(t, Stored({}, now))
  /\ UNCHANGED <<table, writer, now>>

\* An answer without a usable row counts as an empty exchange only if nothing
\* is cached.
FetchEmpty(t, answer) ==
  /\ At(t, "fetch")
  /\ Normalised(answer, Home) = {}
  /\ IF cache = None \/ cache.rows = {}
     THEN /\ cache' = Stored({}, now)
          /\ split' = (split \/ (cache = None /\ table.rows # {}))
     ELSE UNCHANGED <<cache, split>>
  /\ Finish(t)
  /\ Answered(t, cache')
  /\ UNCHANGED <<table, writer, now>>

\* The list arrives; its rows are stamped with the time.
FetchRows(t, answer) ==
  /\ At(t, "fetch")
  /\ LET S == Normalised(answer, Home) IN
       /\ S # {}
       /\ task' = [task EXCEPT ![t].pc = "store", ![t].got = Stored(S, now)]
  /\ result' = None
  /\ UNCHANGED <<table, cache, queue, writer, now, split>>

-----------------------------------------------------------------------------
(* The rows of the exchange are deleted and inserted in the task's         *)
(* transaction, flushed, and the cache is replaced.                        *)

Store(t) ==
  /\ At(t, "store")
  /\ writer = None
  /\ writer' = [task |-> t, got |-> task[t].got]
  /\ cache' = task[t].got
  /\ Answered(t, task[t].got)
  /\ Release
  /\ Goto(t, IF Lookup(t) THEN "dispatch" ELSE "commit")
  /\ UNCHANGED <<table, now, split>>

\* The delete or the insert waits for the rows of another transaction.
Block(t) ==
  /\ At(t, "store")
  /\ writer # None
  /\ Goto(t, "blocked")
  /\ result' = None
  /\ UNCHANGED <<table, cache, queue, writer, now, split>>

\* IntegrityError.  The cache is not touched; a lookup may be answered from
\* it, but its transaction is aborted and nothing is dispatched.
Conflict(t) ==
  /\ At(t, "conflict")
  /\ task' = [task EXCEPT ![t] = Idle]
  /\ Release
  /\ result' = None
  /\ UNCHANGED <<table, cache, writer, now, split>>

\* The task ends; one that waited for its rows goes on with pc.
End(t, pc) ==
  task' = [u \in Tasks |-> IF u = t THEN Idle
                           ELSE IF At(u, "blocked") THEN [task[u] EXCEPT !.pc = pc]
                           ELSE task[u]]

Ending(t) == At(t, "commit") \/ At(t, "dispatch")

Commit(t) ==
  /\ Ending(t)
  /\ IF writer # None /\ writer.task = t
     THEN /\ table' = writer.got
          /\ writer' = None
          /\ split' = FALSE
          /\ End(t, "conflict")
     ELSE /\ task' = [task EXCEPT ![t] = Idle]
          /\ UNCHANGED <<table, writer, split>>
  /\ result' = None
  /\ UNCHANGED <<cache, queue, now>>

\* Rolled back: the commit fails, the dispatch raises or is cancelled.
Rollback(t) ==
  /\ IF writer # None /\ writer.task = t
     THEN writer' = None /\ split' = TRUE /\ End(t, "store")
     ELSE task' = [task EXCEPT ![t] = Idle] /\ UNCHANGED <<writer, split>>
  /\ result' = None
  /\ UNCHANGED <<table, cache, now>>

CommitFails(t) == Ending(t) /\ Rollback(t) /\ UNCHANGED queue

Without(q, i) == [j \in 1..(Len(q) - 1) |-> IF j < i THEN q[j] ELSE q[j + 1]]

\* The session's listener is cancelled, in the middle of a lookup or waiting
\* for the lock.
Cancel(t) ==
  /\ task[t] # Idle
  /\ Lookup(t)
  /\ Rollback(t)
  /\ IF \E i \in 1..Len(queue) : queue[i] = t
     THEN queue' = Without(queue, CHOOSE i \in 1..Len(queue) : queue[i] = t)
     ELSE UNCHANGED queue

Crash ==
  /\ cache' = None
  /\ queue' = <<>>
  /\ task' = [t \in Tasks |-> Idle]
  /\ writer' = None
  /\ split' = FALSE
  /\ result' = None
  /\ UNCHANGED <<table, now>>

Tick ==
  /\ now < MaxNow
  /\ now' = now + 1
  /\ result' = None
  /\ UNCHANGED <<table, cache, queue, task, writer, split>>

-----------------------------------------------------------------------------
Fetch(t) ==
  \/ FetchFails(t)
  \/ \E answer \in Answers : FetchEmpty(t, answer) \/ FetchRows(t, answer)

TaskStep(t) ==
  \/ Acquire(t) \/ Load(t) \/ Fetch(t)
  \/ Store(t) \/ Block(t) \/ Conflict(t) \/ Commit(t)

Next ==
  \/ \E t \in Tasks : Begin(t) \/ TaskStep(t) \/ CommitFails(t) \/ Cancel(t)
  \/ Crash
  \/ Tick

Spec == Init /\ [][Next]_scriptVars

\* Every task is scheduled, the database answers, and the download of the list
\* has a timeout.
FairSpec == Spec /\ \A t \in Tasks : WF_scriptVars(TaskStep(t))

-----------------------------------------------------------------------------
\* The rows that the table has, or will have once they are committed.
Listed == IF writer = None THEN table.rows ELSE writer.got.rows

(***************************************************************************)
(* The cache in memory holds the instruments of the table, or those a task *)
(* is about to commit, although it is replaced before the commit.  Two     *)
(* ways remain to a difference, until the next refresh or restart: rows    *)
(* rolled back after the cache took them, and an empty answer to a refresh *)
(* before the cache was loaded.                                            *)
(***************************************************************************)
MemoryMatchesTable ==
  cache # None /\ ~split => cache.rows = Listed

(***************************************************************************)
(* A lookup is resolved to an instrument of the exchange's list that the   *)
(* ack describes and that no other instrument competes with, whatever      *)
(* refreshes, rollbacks and restarts the lookup overlaps with.             *)
(***************************************************************************)
ResolvedIsExact ==
  result # None /\ ~split => Exact(Listed, result.event, result.outcome)

(***************************************************************************)
(* Every task gets its turn at the exchange and ends: the lock is not held *)
(* by a task that waits for rows whose transaction waits for the lock, and *)
(* a download that fails gives it back.                                    *)
(***************************************************************************)
TasksReturn == \A t \in Tasks : task[t] # Idle ~> task[t] = Idle
=============================================================================
