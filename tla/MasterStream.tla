---------------------------- MODULE MasterStream ----------------------------
(***************************************************************************)
(* The websocket broker-router keeps for one account (accounts share       *)
(* nothing but the dictionary they are keys of).                           *)
(*                                                                         *)
(* connect creates a StreamConnection and an asyncio task that opens the   *)
(* socket, subscribes to the modules, waits ten seconds for the module     *)
(* ack, subscribes to order acks and feeds, and then publishes what        *)
(* arrives; when anything fails it resets the connection's flags, sleeps   *)
(* five seconds and starts over.  Request handlers read and write the same *)
(* flags and send on the same socket: an action is the code between two    *)
(* awaits, and a send may stay suspended while the socket's buffer is full.*)
(***************************************************************************)
EXTENDS Naturals, FiniteSets

CONSTANTS
  Conns,    \* StreamConnection objects; one that nobody holds is used again
  Handlers, \* connect requests that can be in flight together
  Symbols,  \* feed values
  NoConn

ASSUME NoConnAssumption == NoConn \notin Conns

VARIABLES
  current,  \* connections.get(account_id)
  conn,     \* the StreamConnection objects
  handler,  \* the connection on whose socket a connect request is sending
  customer  \* the account row holds a customer id

vars == <<current, conn, handler, customer>>

(***************************************************************************)
(* Where the task of a connection is.  none: not created.  modules: socket *)
(* open, module subscription on its way.  waiting: for the module ack.     *)
(* subscribing, acking, feeding: sending the ack and feed subscriptions.   *)
(* listening: async for message in ws.  late, lateacking: the same, with a *)
(* module ack that came after the wait.  failing: in the except block.     *)
(* cancelled: cancel() was called.  dead: done().                          *)
(***************************************************************************)
OnSocket == {"modules", "waiting", "subscribing", "acking", "feeding",
             "listening", "late", "lateacking"}
TaskState == OnSocket \cup {"none", "opening", "failing", "sleeping", "cancelled", "dead"}

(***************************************************************************)
(* ws is none when connection.ws is None, which is when is_connected is    *)
(* False; a socket the broker has closed stays in ws until the task        *)
(* notices.  ready is module_ready and remembers whether the module ack    *)
(* came within the wait.  acks and fed are what the broker has received on *)
(* this socket.                                                            *)
(***************************************************************************)
Connection == [task : TaskState, ws : {"none", "open", "closed"},
               ready : {"no", "on_time", "late"}, acked : BOOLEAN,
               customer : BOOLEAN, subs : SUBSET Symbols,
               acks : Nat, fed : SUBSET Symbols]

\* Mutation: the subscriptions start with a placeholder.
FreshWithPlaceholder(task, known) ==
  [task |-> task, ws |-> "none", ready |-> "no", acked |-> FALSE,
   customer |-> known, subs |-> {NoConn}, acks |-> 0, fed |-> {}]

Fresh(task, known) ==
  [task |-> task, ws |-> "none", ready |-> "no", acked |-> FALSE,
   customer |-> known, subs |-> {}, acks |-> 0, fed |-> {}]

TypeOK ==
  /\ current \in Conns \cup {NoConn}
  /\ conn \in [Conns -> Connection]
  /\ handler \in [Handlers -> Conns \cup {NoConn}]
  /\ customer \in BOOLEAN

Init ==
  /\ current = NoConn
  /\ conn = [c \in Conns |-> Fresh("none", FALSE)]
  /\ handler = [h \in Handlers |-> NoConn]
  /\ customer \in BOOLEAN

-----------------------------------------------------------------------------
Task(c, task) == conn[c].task = task

Put(c, k) == conn' = [conn EXCEPT ![c] = k]

Goto(c, task) == Put(c, [conn[c] EXCEPT !.task = task])

\* Mutation: ack_subscription_sent is not reset.
ResetKeepsAck(c, task) ==
  Put(c, [conn[c] EXCEPT !.task = task, !.ws = "none", !.ready = "no",
                         !.acks = 0, !.fed = {}])

\* The finally block of _run: flags down, socket let go.
Reset(c, task) ==
  Put(c, [conn[c] EXCEPT !.task = task, !.ws = "none", !.ready = "no",
                         !.acked = FALSE, !.acks = 0, !.fed = {}])

\* A frame with the ack subscription leaves, and the flag goes up.
SendAck(c, task) ==
  Put(c, [conn[c] EXCEPT !.task = task, !.acked = TRUE, !.acks = @ + 1])

-----------------------------------------------------------------------------
(* The task.                                                               *)

Open(c) ==
  /\ Task(c, "opening")
  /\ Put(c, [conn[c] EXCEPT !.task = "modules", !.ws = "open"])
  /\ UNCHANGED <<current, handler, customer>>

OpenFails(c) ==
  /\ Task(c, "opening")
  /\ Goto(c, "failing")
  /\ UNCHANGED <<current, handler, customer>>

ModuleSubscribe(c) ==
  /\ Task(c, "modules")
  /\ Goto(c, "waiting")
  /\ UNCHANGED <<current, handler, customer>>

\* Feed and ack are confirmed within the wait.
ModuleAck(c) ==
  /\ Task(c, "waiting")
  /\ conn[c].ws = "open"
  /\ Put(c, [conn[c] EXCEPT !.task = "subscribing", !.ready = "on_time"])
  /\ UNCHANGED <<current, handler, customer>>

\* Ten seconds pass, or the answer confirms something else.
NoModuleAck(c) ==
  /\ Task(c, "waiting")
  /\ Goto(c, "subscribing")
  /\ UNCHANGED <<current, handler, customer>>

\* Mutation: ack_subscription_sent is not looked at.
MaySendAckAgain(k) == k.ready # "no" /\ k.customer

MaySendAck(k) == k.ready # "no" /\ k.customer /\ ~k.acked

\* _send_ack_subscription up to its send, from the start of a stream or from
\* a late module ack.
AckCheck(c) ==
  /\ \/ Task(c, "subscribing") /\ Goto(c, IF MaySendAck(conn[c]) THEN "acking" ELSE "feeding")
     \/ Task(c, "late") /\ Goto(c, IF MaySendAck(conn[c]) THEN "lateacking" ELSE "listening")
  /\ UNCHANGED <<current, handler, customer>>

AckSend(c) ==
  /\ conn[c].ws = "open"
  /\ \/ Task(c, "acking") /\ SendAck(c, "feeding")
     \/ Task(c, "lateacking") /\ SendAck(c, "listening")
  /\ UNCHANGED <<current, handler, customer>>

FeedSend(c) ==
  /\ Task(c, "feeding")
  /\ conn[c].ws = "open"
  /\ Put(c, [conn[c] EXCEPT !.task = "listening",
                             !.fed = IF conn[c].ready = "no" THEN @ ELSE @ \cup conn[c].subs])
  /\ UNCHANGED <<current, handler, customer>>

\* A module ack arrives among the messages: the ack subscription follows if it
\* was not sent, the feed subscriptions do not.
LateModuleAck(c) ==
  /\ Task(c, "listening")
  /\ conn[c].ws = "open"
  /\ Put(c, [conn[c] EXCEPT !.task = "late", !.ready = IF @ = "no" THEN "late" ELSE @])
  /\ UNCHANGED <<current, handler, customer>>

\* The socket closes under the task.
SocketDrops(c) ==
  /\ conn[c].ws = "open"
  /\ Put(c, [conn[c] EXCEPT !.ws = "closed"])
  /\ UNCHANGED <<current, handler, customer>>

\* The task runs into the closed socket, or Redis refuses a publish and the
\* task closes the socket; the flags stay up during the except block.
Fails(c) ==
  /\ conn[c].task \in OnSocket
  /\ Put(c, [conn[c] EXCEPT !.task = "failing", !.ws = "closed"])
  /\ UNCHANGED <<current, handler, customer>>

\* The broker closed the socket in good order: no exception.
Closes(c) ==
  /\ Task(c, "listening")
  /\ conn[c].ws = "closed"
  /\ Reset(c, "sleeping")
  /\ UNCHANGED <<current, handler, customer>>

\* The except block publishes the error; if Redis refuses that, too, the
\* exception ends the task for good.
Failed(c) ==
  /\ Task(c, "failing")
  /\ \/ Reset(c, "sleeping")
     \/ Reset(c, "dead")
  /\ UNCHANGED <<current, handler, customer>>

\* Five seconds later every send on the old socket has raised.
Wake(c) ==
  /\ Task(c, "sleeping")
  /\ \A h \in Handlers : handler[h] # c
  /\ Goto(c, "opening")
  /\ UNCHANGED <<current, handler, customer>>

Cancelled(c) ==
  /\ Task(c, "cancelled")
  /\ Reset(c, "dead")
  /\ UNCHANGED <<current, handler, customer>>

-----------------------------------------------------------------------------
(* The request handlers.                                                   *)

\* A token exchange stores the customer id of the account.
StoreCustomer ==
  /\ ~customer
  /\ customer' = TRUE
  /\ UNCHANGED <<current, conn, handler>>

Alive == current # NoConn /\ ~Task(current, "dead")

\* Mutation: connect tells that the stream exists and leaves it at that.
ConnectExistingQuietly(h) ==
  /\ handler[h] = NoConn
  /\ Alive
  /\ Put(current, [conn[current] EXCEPT !.customer = @ \/ customer])
  /\ UNCHANGED <<current, handler, customer>>

\* connect on a stream that exists: the customer id is refreshed, and the ack
\* subscription is sent from here if nothing but the id was missing.
ConnectExisting(h) ==
  /\ handler[h] = NoConn
  /\ Alive
  /\ LET refreshed == [conn[current] EXCEPT !.customer = @ \/ customer]
     IN  /\ Put(current, refreshed)
         /\ handler' = IF refreshed.ws # "none" /\ MaySendAck(refreshed)
                         THEN [handler EXCEPT ![h] = current] ELSE handler
  /\ UNCHANGED <<current, customer>>

\* Mutation: a stream that sleeps between two sockets is not seen as alive.
ConnectNewWhenOff(h, c) ==
  /\ handler[h] = NoConn
  /\ ~(Alive /\ ~Task(current, "sleeping"))
  /\ conn[c].task \in {"none", "dead"}
  /\ \A g \in Handlers : handler[g] # c
  /\ Put(c, Fresh("opening", customer))
  /\ current' = c
  /\ UNCHANGED <<handler, customer>>

ConnectNew(h, c) ==
  /\ handler[h] = NoConn
  /\ ~Alive
  /\ conn[c].task \in {"none", "dead"}
  /\ \A g \in Handlers : handler[g] # c
  /\ Put(c, Fresh("opening", customer))
  /\ current' = c
  /\ UNCHANGED <<handler, customer>>

\* The send of a connect request goes through, or raises with its socket.
ConnectSends(h) ==
  /\ handler[h] # NoConn
  /\ IF conn[handler[h]].ws = "open"
       THEN SendAck(handler[h], conn[handler[h]].task)
       ELSE UNCHANGED conn
  /\ handler' = [handler EXCEPT ![h] = NoConn]
  /\ UNCHANGED <<current, customer>>

\* Mutation: the symbols are kept for the next socket and not sent on this one.
SubscribeQuietly(symbols) ==
  /\ current # NoConn
  /\ Put(current, [conn[current] EXCEPT !.subs = @ \cup symbols])
  /\ UNCHANGED <<current, handler, customer>>

Subscribe(symbols) ==
  /\ current # NoConn
  /\ LET known == conn[current].subs \cup symbols
         sends == conn[current].ready # "no" /\ conn[current].ws = "open"
     IN  Put(current, [conn[current] EXCEPT !.subs = known,
                                            !.fed = IF sends THEN @ \cup known ELSE @])
  /\ UNCHANGED <<current, handler, customer>>

\* Nothing is sent: the frame for it is not known.
Unsubscribe(symbols) ==
  /\ current # NoConn
  /\ Put(current, [conn[current] EXCEPT !.subs = @ \ symbols])
  /\ UNCHANGED <<current, handler, customer>>

\* The entry goes at once; the task learns of it when it is next resumed.
Disconnect ==
  /\ current # NoConn
  /\ Goto(current, IF Task(current, "dead") THEN "dead" ELSE "cancelled")
  /\ current' = NoConn
  /\ UNCHANGED <<handler, customer>>

-----------------------------------------------------------------------------
TaskStep(c) ==
  \/ Open(c)
  \/ OpenFails(c)
  \/ ModuleSubscribe(c)
  \/ ModuleAck(c)
  \/ NoModuleAck(c)
  \/ AckCheck(c)
  \/ AckSend(c)
  \/ FeedSend(c)
  \/ Closes(c)
  \/ Failed(c)
  \/ Wake(c)
  \/ Cancelled(c)

Next ==
  \/ \E c \in Conns : TaskStep(c) \/ LateModuleAck(c) \/ SocketDrops(c) \/ Fails(c)
  \/ \E h \in Handlers : ConnectExisting(h) \/ ConnectSends(h)
  \/ \E h \in Handlers, c \in Conns : ConnectNew(h, c)
  \/ \E symbols \in SUBSET Symbols : Subscribe(symbols) \/ Unsubscribe(symbols)
  \/ StoreCustomer
  \/ Disconnect

Spec == Init /\ [][Next]_vars

\* Every await of a task and of a request ends: sockets open or fail, waits
\* time out, sends go through or raise with their socket.
FairSpec ==
  /\ Spec
  /\ \A c \in Conns : WF_vars(TaskStep(c)) /\ WF_vars(conn[c].ws = "closed" /\ Fails(c))
  /\ \A h \in Handlers : WF_vars(ConnectSends(h))

-----------------------------------------------------------------------------
(* Properties.                                                             *)

(***************************************************************************)
(* "ack_subscription_sent: broker-router sent the exact ack subscription   *)
(* frame": the flag is only up when the frame was sent on the socket in    *)
(* use, not on one before it, whoever sent it.                             *)
(***************************************************************************)
AckFlagHonest ==
  \A c \in Conns : conn[c].acked => conn[c].acks > 0

(***************************************************************************)
(* No stream runs on after it left the dictionary: a disconnect, a new     *)
(* connect or the death of a task never leave a second socket publishing   *)
(* the same acks.                                                          *)
(***************************************************************************)
NoOrphanStream ==
  \A c \in Conns :
    conn[c].task \notin {"none", "cancelled", "dead"} => c = current

(***************************************************************************)
(* A socket gets at most one ack subscription from its task and one from   *)
(* each connect request that was in flight with it; a repeated connect     *)
(* does not subscribe again.                                               *)
(***************************************************************************)
AckFramesBounded ==
  \A c \in Conns : conn[c].acks <= 1 + Cardinality(Handlers)

(***************************************************************************)
(* "Replay feed subscriptions after reconnect": a stream whose module ack  *)
(* came in time has asked for every subscribed symbol on this socket.      *)
(* After a late module ack the code does not catch up.                     *)
(***************************************************************************)
FeedsReplayed ==
  \A c \in Conns :
    /\ conn[c].task \in {"listening", "late", "lateacking"}
    /\ conn[c].ws = "open"
    /\ conn[c].ready = "on_time"
    => conn[c].subs \subseteq conn[c].fed

(***************************************************************************)
(* A ready stream of an account with a customer id gets its ack            *)
(* subscription, in whatever order the module ack, the customer id and the *)
(* connect requests arrive: a session is not left without order acks.      *)
(***************************************************************************)
AcksSubscribed ==
  \A c \in Conns :
    (conn[c].ws = "open" /\ conn[c].ready # "no" /\ conn[c].customer)
      ~> (conn[c].acked \/ conn[c].ws # "open" \/ Task(c, "cancelled"))
=============================================================================
