------------------------------ MODULE LiveCopy ------------------------------
(***************************************************************************)
(* Copying the master's order acks: the listeners of CopySessions at work. *)
(*                                                                         *)
(* broker-router publishes every ack of a connected master on a Redis      *)
(* channel.  The listener of each session takes the messages one by one,   *)
(* looks the ack up by its duplicate hash, inserts a master trade event,   *)
(* places the child orders of all copy accounts concurrently, inserts      *)
(* their rows and commits: everything the database learns of an ack is one *)
(* transaction that is committed only after the orders went out.  A        *)
(* listener can be cancelled, crash or die with the API at every await;    *)
(* its transaction is then rolled back and its orders are not.             *)
(***************************************************************************)
EXTENDS CopySessions, Sequences

CONSTANTS
  Acks,     \* order acks of the masters that normalize_sharekhan_ack accepts
  AckMaster,\* the account each ack is published for
  KeyOf,    \* duplicate_hash: equal for the acks of one order
  TradeOf,  \* external_trade_id, or NoTrade when the ack carries none
  Accounts, \* copy accounts, each in a copy group
  Removable,\* those that may be deleted, by themselves or with their group
  DryRun,   \* session.dry_run or one of the two global switches
  NoTrade, NoAck

ASSUME AckAssumption ==
  /\ AckMaster \in [Acks -> Masters]
  /\ NoAck \notin Acks

ASSUME RemovableAssumption == Removable \subseteq Accounts

ASSUME ListenersMayFail == "listener" \in Faults

ASSUME DryRunAssumption == DryRun \in BOOLEAN

VARIABLES
  published, \* acks broker-router has published so far
  inbox,     \* messages waiting in each listener's subscription
  work,      \* the ack each listener is copying
  events,    \* committed rows of master_trade_events
  orders,    \* committed rows of copied_trade_orders
  copiers,   \* copy accounts that exist
  wire,      \* order requests on their way to the broker
  placed,    \* child orders the broker has accepted
  declined   \* those it refused inside an answer that counts as a success

copyVars == <<published, inbox, work, events, orders, copiers, wire, placed, declined>>
vars == <<sessionVars, copyVars>>

(***************************************************************************)
(* What became of one copy account in the dispatch under way.  none: not a *)
(* target.  ready: payload prepared.  sent: place_order awaits its answer. *)
(***************************************************************************)
OrderStatus == {"PLACED", "FAILED", "SKIPPED"}
Outcome == OrderStatus \cup {"none", "ready", "sent"}

Work(ack, phase) ==
  [ack |-> ack, phase |-> phase, outcome |-> [a \in Accounts |-> "none"]]

NoWork == Work(NoAck, "idle")

\* The identity of one attempt to place a child order.
Attempts == [session : Sessions, ack : Acks, account : Accounts]

EventRows == [session : Sessions, ack : Acks, copied : OrderStatus \cup {"PARTIAL"}]

OrderRows == [session : Sessions, ack : Acks, account : Accounts, status : OrderStatus]

CopyTypeOK ==
  /\ TypeOK
  /\ published \in SUBSET Acks
  /\ inbox \in [Sessions -> Seq(Acks)]
  /\ work \in [Sessions -> [ack : Acks \cup {NoAck},
                            phase : {"idle", "looked_up", "dispatch"},
                            outcome : [Accounts -> Outcome]]]
  /\ events \in SUBSET EventRows
  /\ orders \in SUBSET OrderRows
  /\ copiers \in SUBSET Accounts
  /\ wire \in SUBSET Attempts
  /\ placed \in SUBSET Attempts
  /\ declined \in SUBSET Attempts

Init ==
  /\ SessionInit
  /\ published = {}
  /\ inbox = [s \in Sessions |-> <<>>]
  /\ work = [s \in Sessions |-> NoWork]
  /\ events = {}
  /\ orders = {}
  /\ copiers = Accounts
  /\ wire = {}
  /\ placed = {}
  /\ declined = {}

-----------------------------------------------------------------------------
Busy(s) == work[s].phase # "idle"

Attempt(s, a) == [session |-> s, ack |-> work[s].ack, account |-> a]

Awaits(s, a) == work[s].phase = "dispatch" /\ work[s].outcome[a] = "sent"

\* Mutation: an event that is not PLACED does not keep a repeated ack out.
RecordedIfPlaced(s, ack) ==
  \E e \in events :
    e.session = s /\ KeyOf[e.ack] = KeyOf[ack] /\ e.copied = "PLACED"

\* A committed event of this session has the duplicate hash of the ack.
Recorded(s, ack) ==
  \E e \in events : e.session = s /\ KeyOf[e.ack] = KeyOf[ack]

\* The unique constraints of master_trade_events: trade id (nulls are
\* distinct) and duplicate hash, each within the session.
Collides(s, ack) ==
  \/ Recorded(s, ack)
  \/ /\ TradeOf[ack] # NoTrade
     /\ \E e \in events : e.session = s /\ TradeOf[e.ack] = TradeOf[ack]

\* Mutation: one placed target makes the whole event PLACED.
EventStatusAnyPlaced(outcome) ==
  LET statuses == {outcome[a] : a \in Accounts} \ {"none"}
  IN  IF "PLACED" \in statuses THEN "PLACED"
      ELSE IF "FAILED" \in statuses THEN "FAILED"
      ELSE "SKIPPED"

\* _event_status: the aggregate over the statuses of the targets.
EventStatus(outcome) ==
  LET statuses == {outcome[a] : a \in Accounts} \ {"none"}
  IN  IF statuses = {"PLACED"} THEN "PLACED"
      ELSE IF "PLACED" \in statuses THEN "PARTIAL"
      ELSE IF "FAILED" \in statuses THEN "FAILED"
      ELSE "SKIPPED"

-----------------------------------------------------------------------------
(* The stream.                                                             *)

\* Redis delivers to the listeners subscribed at that moment, at most once; a
\* listener that has only just started may not be subscribed yet.
Publish(ack) ==
  /\ ack \notin published
  /\ AckMaster[ack] \in stream
  /\ published' = published \cup {ack}
  /\ \E delivered \in SUBSET {s \in Sessions : listener[s] = "polling"} :
       inbox' = [s \in Sessions |->
                   IF s \in delivered THEN Append(inbox[s], ack) ELSE inbox[s]]
  /\ UNCHANGED <<sessionVars, work, events, orders, copiers, wire, placed, declined>>

-----------------------------------------------------------------------------
(* The listener's handling of one message.                                 *)

\* Mutation: messages of a session that is not RUNNING are left unread.
ReceiveWhenRunning(s) ==
  /\ listener[s] = "polling"
  /\ ~Busy(s)
  /\ inbox[s] # <<>>
  /\ status[s] = "RUNNING"
  /\ LET ack == Head(inbox[s])
     IN  work' = [work EXCEPT ![s] =
                    IF AckMaster[ack] = MasterOf[s] /\ ~Recorded(s, ack)
                    THEN Work(ack, "looked_up")
                    ELSE NoWork]
  /\ inbox' = [inbox EXCEPT ![s] = Tail(@)]
  /\ UNCHANGED <<sessionVars, published, events, orders, copiers, wire, placed, declined>>

\* process_redis_message up to the duplicate lookup.
Receive(s) ==
  /\ listener[s] = "polling"
  /\ ~Busy(s)
  /\ inbox[s] # <<>>
  /\ LET ack == Head(inbox[s])
     IN  work' = [work EXCEPT ![s] =
                    IF /\ status[s] = "RUNNING"
                       /\ AckMaster[ack] = MasterOf[s]
                       /\ ~Recorded(s, ack)
                    THEN Work(ack, "looked_up")
                    ELSE NoWork]
  /\ inbox' = [inbox EXCEPT ![s] = Tail(@)]
  /\ UNCHANGED <<sessionVars, published, events, orders, copiers, wire, placed, declined>>

\* The event row is flushed, then the targets are loaded and checked: each
\* account is no target, is skipped, or gets a prepared payload.  The targets
\* may come from a cache and name an account that was deleted meanwhile.  In a
\* dry run nothing is prepared for sending.
Prepare(s) ==
  /\ work[s].phase = "looked_up"
  /\ Stored(s)
  /\ ~Collides(s, work[s].ack)
  /\ \E outcome \in [Accounts -> {"none", "SKIPPED", "ready"}] :
       /\ DryRun => \A a \in Accounts : outcome[a] # "ready"
       /\ work' = [work EXCEPT ![s] =
                     [ack |-> @.ack, phase |-> "dispatch", outcome |-> outcome]]
  /\ UNCHANGED <<sessionVars, published, inbox, events, orders, copiers, wire, placed, declined>>

\* An exception leaves process_redis_message: its transaction is rolled back.
Raise(s) ==
  /\ ListenerFault(s)
  /\ work' = [work EXCEPT ![s] = NoWork]
  /\ inbox' = [inbox EXCEPT ![s] = <<>>]
  /\ UNCHANGED <<published, events, orders, copiers, wire, placed, declined>>

\* The flush raises: a unique constraint, or the session row is gone.
PrepareFails(s) ==
  /\ work[s].phase = "looked_up"
  /\ Collides(s, work[s].ack) \/ ~Stored(s)
  /\ Raise(s)

\* gather() starts the placements concurrently.
Send(s, a) ==
  /\ work[s].phase = "dispatch"
  /\ work[s].outcome[a] = "ready"
  /\ work' = [work EXCEPT ![s].outcome[a] = "sent"]
  /\ wire' = wire \cup {Attempt(s, a)}
  /\ UNCHANGED <<sessionVars, published, inbox, events, orders, copiers, placed, declined>>

\* broker-router carries a request out whether or not its caller still waits.
BrokerAccepts(w) ==
  /\ w \in wire
  /\ wire' = wire \ {w}
  /\ placed' = placed \cup {w}
  /\ UNCHANGED <<sessionVars, published, inbox, work, events, orders, copiers, declined>>

\* The broker says no in the body of a 2xx reply: broker-router wraps it as
\* ok, and nobody looks at the body.
BrokerDeclines(w) ==
  /\ w \in wire
  /\ wire' = wire \ {w}
  /\ declined' = declined \cup {w}
  /\ UNCHANGED <<sessionVars, published, inbox, work, events, orders, copiers, placed>>

\* The broker, or broker-router before it, answers with an error status.
BrokerRefuses(w) ==
  /\ w \in wire
  /\ wire' = wire \ {w}
  /\ UNCHANGED <<sessionVars, published, inbox, work, events, orders, copiers, placed, declined>>

\* The answer reaches the listener: PLACED for any 2xx reply.
Answer(s, a) ==
  /\ Awaits(s, a)
  /\ Attempt(s, a) \notin wire
  /\ work' = [work EXCEPT ![s].outcome[a] =
                IF Attempt(s, a) \in placed \cup declined THEN "PLACED" ELSE "FAILED"]
  /\ UNCHANGED <<sessionVars, published, inbox, events, orders, copiers, wire, placed, declined>>

\* Mutation: an order whose answer is missing is taken for placed.
AnswerLostIsPlaced(s, a) ==
  /\ "network" \in Faults
  /\ Awaits(s, a)
  /\ work' = [work EXCEPT ![s].outcome[a] = "PLACED"]
  /\ UNCHANGED <<sessionVars, published, inbox, events, orders, copiers, wire, placed, declined>>

\* The HTTP call times out or breaks: FAILED, wherever the order is by then.
AnswerLost(s, a) ==
  /\ "network" \in Faults
  /\ Awaits(s, a)
  /\ work' = [work EXCEPT ![s].outcome[a] = "FAILED"]
  /\ UNCHANGED <<sessionVars, published, inbox, events, orders, copiers, wire, placed, declined>>

\* Mutation: the event is committed while placements are still to be sent.
CommitEarly(s) ==
  /\ work[s].phase = "dispatch"
  /\ events' = events \cup {[session |-> s, ack |-> work[s].ack,
                             copied |-> EventStatus(work[s].outcome)]}
  /\ UNCHANGED <<sessionVars, published, inbox, work, orders, copiers, wire, placed, declined>>

\* Mutation: accounts that are no targets get a row, too.
CommitAllAccounts(s) ==
  /\ work[s].phase = "dispatch"
  /\ \A a \in Accounts : work[s].outcome[a] \notin {"ready", "sent"}
  /\ events' = events \cup {[session |-> s, ack |-> work[s].ack,
                             copied |-> EventStatus(work[s].outcome)]}
  /\ orders' = orders \cup
       {[session |-> s, ack |-> work[s].ack, account |-> a,
         status |-> work[s].outcome[a]] : a \in Accounts}
  /\ work' = [work EXCEPT ![s] = NoWork]
  /\ UNCHANGED <<sessionVars, published, inbox, copiers, wire, placed, declined>>

Targets(s) == {a \in Accounts : work[s].outcome[a] # "none"}

\* Mutation: the first failure ends the wait for all placements.
AllAnsweredOrFailed(s) ==
  /\ work[s].phase = "dispatch"
  /\ \/ \E a \in Accounts : work[s].outcome[a] = "FAILED"
     \/ \A a \in Accounts : work[s].outcome[a] \notin {"ready", "sent"}

AllAnswered(s) ==
  /\ work[s].phase = "dispatch"
  /\ \A a \in Accounts : work[s].outcome[a] \notin {"ready", "sent"}

\* All placements have a result: their rows and the event's are committed.
Commit(s) ==
  /\ AllAnswered(s)
  /\ Targets(s) \subseteq copiers
  /\ events' = events \cup {[session |-> s, ack |-> work[s].ack,
                             copied |-> EventStatus(work[s].outcome)]}
  /\ orders' = orders \cup
       {[session |-> s, ack |-> work[s].ack, account |-> a,
         status |-> work[s].outcome[a]] : a \in Targets(s)}
  /\ work' = [work EXCEPT ![s] = NoWork]
  /\ UNCHANGED <<sessionVars, published, inbox, copiers, wire, placed, declined>>

\* A row of an account that is gone violates its foreign key, and the rows of
\* all accounts are lost.
CommitFails(s) ==
  /\ AllAnswered(s)
  /\ ~(Targets(s) \subseteq copiers)
  /\ Raise(s)

-----------------------------------------------------------------------------
(* The life cycle of CopySessions, and what it does to the work in hand.   *)

\* Mutation: a cancelled listener goes on with the work it has.
DropMessagesOnly ==
  /\ work' = work
  /\ inbox' = [s \in Sessions |->
                IF listener'[s] = "polling" THEN inbox[s] ELSE <<>>]

\* A task that no longer polls leaves its messages and its transaction.
DropAbandoned ==
  /\ work' = [s \in Sessions |->
                IF listener'[s] = "polling" THEN work[s] ELSE NoWork]
  /\ inbox' = [s \in Sessions |->
                IF listener'[s] = "polling" THEN inbox[s] ELSE <<>>]

LifeCycle(step) ==
  /\ step
  /\ DropAbandoned
  /\ UNCHANGED <<published, events, orders, copiers, wire, placed, declined>>

Progress(r) ==
  HandlerProgress(r) /\ ~At(r, "delete", "commit") /\ ~PurgeCommit(r)

MarkError(s) == ListenerMarkError(s) \/ ListenerMarkFails(s)

Control ==
  \/ \E r \in Requests : LifeCycle(Progress(r)) \/ LifeCycle(DatabaseFails(r))
  \/ \E r \in Requests, s \in Sessions : LifeCycle(HandlerEntry(r, s))
  \/ \E r \in Requests, m \in Masters : LifeCycle(PurgeCancel(r, m))
  \/ \E s \in Sessions : \/ LifeCycle(ListenerFault(s))
                         \/ LifeCycle(MarkError(s))
                         \/ LifeCycle(ListenerClosed(s))
  \/ LifeCycle(ProcessStep)

\* The poll comes back empty only between messages.
QuietPoll(s) ==
  /\ ~Busy(s)
  /\ inbox[s] = <<>>
  /\ ListenerFinish(s)
  /\ UNCHANGED copyVars

\* A session's row can go once no uncommitted event row holds a key lock on
\* it; its events and orders go along.
Cascade(sessions) ==
  /\ \A s \in sessions : work[s].phase # "dispatch"
  /\ events' = {e \in events : e.session \notin sessions}
  /\ orders' = {o \in orders : o.session \notin sessions}
  /\ UNCHANGED <<published, inbox, work, copiers, wire, placed, declined>>

Delete(r) ==
  \/ DeleteCommit(r) /\ Cascade({req[r].session})
  \/ PurgeCommit(r) /\ Cascade({s \in Sessions : MasterOf[s] = req[r].master})

\* A copy account, or its group, is deleted, and its orders go along.
RemoveCopier(a) ==
  /\ a \in copiers \cap Removable
  /\ copiers' = copiers \ {a}
  /\ orders' = {o \in orders : o.account # a}
  /\ UNCHANGED <<sessionVars, published, inbox, work, events, wire, placed, declined>>

-----------------------------------------------------------------------------
Place(s, a) == Send(s, a) \/ Answer(s, a) \/ AnswerLost(s, a)

Copy(s) ==
  \/ Receive(s)
  \/ Prepare(s)
  \/ PrepareFails(s)
  \/ Commit(s)
  \/ CommitFails(s)
  \/ \E a \in Accounts : Place(s, a)

Broker == \E w \in wire : BrokerAccepts(w) \/ BrokerDeclines(w) \/ BrokerRefuses(w)

Next ==
  \/ \E ack \in Acks : Publish(ack)
  \/ \E s \in Sessions : Copy(s) \/ QuietPoll(s)
  \/ Broker
  \/ Control
  \/ \E r \in Requests : Delete(r)
  \/ \E a \in Accounts : RemoveCopier(a)

Spec == Init /\ [][Next]_vars

(***************************************************************************)
(* Fairness.  The event loop resumes a handler or a listener whose await   *)
(* has completed, and every await does: the HTTP client gives up after 30  *)
(* seconds, broker-router finishes or refuses what it was sent, Postgres   *)
(* grants a lock that becomes free, and a listener's one-second poll comes *)
(* back empty at the latest when the market closes.  Arrivals of requests, *)
(* acks and faults are not fair.                                           *)
(***************************************************************************)
Fairness ==
  /\ \A s \in Sessions :
       /\ WF_vars(Copy(s))
       /\ WF_vars(QuietPoll(s))
       /\ WF_vars(LifeCycle(MarkError(s)))
       /\ WF_vars(LifeCycle(ListenerClosed(s)))
  /\ WF_vars(Broker)
  /\ \A r \in Requests :
       /\ WF_vars(LifeCycle(Progress(r)))
       /\ WF_vars(Delete(r))

FairSpec == Spec /\ Fairness

-----------------------------------------------------------------------------
(* Properties.                                                             *)

\* A STOPPED session has a dispatch under way that no stop request in flight
\* is about to cancel.
Unquiet(s) ==
  /\ status[s] = "STOPPED"
  /\ Busy(s)
  /\ ~\E r \in Requests :
       /\ req[r].op = "stop"
       /\ req[r].pc \in {"refresh", "cancel"}
       /\ req[r].session = s

(***************************************************************************)
(* A stop ends the copying: a STOPPED session has no dispatch under way,   *)
(* but for the time between the commit of STOPPED and the cancellation in  *)
(* the same handler, and no overlapping resume or start begins new work in *)
(* it.  The one exception is a stop whose database reads after that commit *)
(* raise: it returns without the cancellation, and the dispatch goes on.   *)
(***************************************************************************)
StoppedMeansQuiet ==
  [][\A s \in Sessions :
       ~Unquiet(s) /\ Unquiet(s)' =>
         \E r \in Requests :
           req[r].op = "stop" /\ req[r].session = s /\ DatabaseFails(r)
    ]_vars

(***************************************************************************)
(* Within a session no child order is sent for an ack whose duplicate hash *)
(* the database already holds: repeated frames of a recorded order place   *)
(* nothing, although lookup and insert are separate statements.            *)
(***************************************************************************)
SendsOnlyUnrecorded ==
  [][\A w \in wire' \ wire : ~Recorded(w.session, w.ack)]_vars

(***************************************************************************)
(* Events and orders are committed together: every order row has its       *)
(* event, an event that says PLACED has no row that says otherwise, and    *)
(* while no copy account was deleted it says so exactly when it has rows   *)
(* and all of them do.  A reader of the two tables never sees one without  *)
(* the other, and deleting the session leaves neither.                     *)
(***************************************************************************)
RowsOf(e) == {o \in orders : o.session = e.session /\ o.ack = e.ack}

AllPlaced(e) == \A o \in RowsOf(e) : o.status = "PLACED"

RowsAgree ==
  /\ \A o \in orders :
       \E e \in events : e.session = o.session /\ e.ack = o.ack
  /\ \A e \in events : e.copied = "PLACED" => AllPlaced(e)
  /\ copiers = Accounts =>
       \A e \in events : e.copied = "PLACED" <=> RowsOf(e) # {} /\ AllPlaced(e)

(***************************************************************************)
(* One child order per master order, session and copy account: what the    *)
(* duplicate hash and the unique constraints are for.                      *)
(***************************************************************************)
NoDoubleSubmit ==
  \A p, q \in placed :
    /\ p.session = q.session
    /\ p.account = q.account
    /\ KeyOf[p.ack] = KeyOf[q.ack]
    => p = q

(***************************************************************************)
(* Every message a listener holds is worked off: no answer of the broker,  *)
(* no failing insert and no cancellation leaves a listener stuck.          *)
(***************************************************************************)
InboxDrains ==
  \A s \in Sessions : (inbox[s] # <<>>) ~> (inbox[s] = <<>> /\ ~Busy(s))

(***************************************************************************)
(* Every request returns; a DELETE that waits for an uncommitted event of  *)
(* its session gets its turn.                                              *)
(***************************************************************************)
RequestsReturn ==
  \A r \in Requests : (req[r] # Idle) ~> (req[r] = Idle)
=============================================================================
