-------------------------- MODULE MasterStreamProofs --------------------------
(***************************************************************************)
(* Proofs about MasterStream, for any number of connection objects,        *)
(* concurrent connect requests and symbols.  Three of the properties are   *)
(* inductive together with TypeOK; the bound on the ack frames needs the   *)
(* sends under way counted with the frames received.                       *)
(***************************************************************************)
EXTENDS MasterStream, FiniteSetTheorems, TLAPS

\* Replacing one connection object by a well-typed one keeps them typed.
LEMMA PutTyped ==
  ASSUME NEW c \in Conns, NEW k \in Connection, conn \in [Conns -> Connection], Put(c, k)
  PROVE  conn' \in [Conns -> Connection]
  BY DEF Put

\* Neither does the ack subscription, from whoever sends it.
LEMMA SendAckPuts ==
  ASSUME NEW c \in Conns, conn[c] \in Connection, NEW task \in TaskState, SendAck(c, task)
  PROVE  \E k \in Connection : Put(c, k)
<1> DEFINE k == [conn[c] EXCEPT !.task = task, !.acked = TRUE, !.acks = conn[c].acks + 1]
<1>1. conn[c].acks + 1 \in Nat
  <2>1. conn[c].acks \in Nat
    BY DEF Connection
  <2> QED
    BY <2>1
<1>2. k \in Connection
  <2> DEFINE n == conn[c].acks + 1
  <2> HIDE DEF n
  <2>1. n \in Nat
    BY <1>1 DEF n
  <2>2. [conn[c] EXCEPT !.task = task, !.acked = TRUE, !.acks = n] \in Connection
    BY <2>1 DEF Connection
  <2> QED
    BY <2>2 DEF n
<1> QED
  BY <1>2 DEF SendAck

\* A step of the task of c, or of its socket, replaces c by a typed object.
LEMMA TaskPuts ==
  ASSUME TypeOK, NEW c \in Conns,
         TaskStep(c) \/ LateModuleAck(c) \/ SocketDrops(c) \/ Fails(c)
  PROVE  \E k \in Connection : Put(c, k)
<1>1. conn[c] \in Connection
  BY DEF TypeOK
<1> USE DEF Connection, TaskState, OnSocket
<1>2. CASE Open(c)
  BY <1>1, <1>2 DEF Open
<1>3. CASE OpenFails(c)
  BY <1>1, <1>3 DEF OpenFails, Goto
<1>4. CASE ModuleSubscribe(c)
  BY <1>1, <1>4 DEF ModuleSubscribe, Goto
<1>5. CASE ModuleAck(c)
  BY <1>1, <1>5 DEF ModuleAck
<1>6. CASE NoModuleAck(c)
  BY <1>1, <1>6 DEF NoModuleAck, Goto
<1>7. CASE AckCheck(c)
  BY <1>1, <1>7 DEF AckCheck, Goto
<1>8. CASE AckSend(c)
  BY <1>1, <1>8, SendAckPuts DEF AckSend
<1>9. CASE FeedSend(c)
  BY <1>1, <1>9 DEF FeedSend
<1>10. CASE Closes(c)
  BY <1>1, <1>10 DEF Closes, Reset
<1>11. CASE Failed(c)
  BY <1>1, <1>11 DEF Failed, Reset
<1>12. CASE Wake(c)
  BY <1>1, <1>12 DEF Wake, Goto
<1>13. CASE Cancelled(c)
  BY <1>1, <1>13 DEF Cancelled, Reset
<1>14. CASE LateModuleAck(c)
  BY <1>1, <1>14 DEF LateModuleAck
<1>15. CASE SocketDrops(c)
  BY <1>1, <1>15 DEF SocketDrops
<1>16. CASE Fails(c)
  BY <1>1, <1>16 DEF Fails
<1> QED
  BY <1>2, <1>3, <1>4, <1>5, <1>6, <1>7, <1>8, <1>9, <1>10, <1>11, <1>12, <1>13, <1>14, <1>15, <1>16 DEF TaskStep

\* Every step keeps the state typed.
LEMMA TypeStep ==
  ASSUME TypeOK, [Next]_vars
  PROVE  TypeOK'
<1>1. ASSUME NEW c \in Conns,
             TaskStep(c) \/ LateModuleAck(c) \/ SocketDrops(c) \/ Fails(c)
      PROVE  TypeOK'
  <2>1. conn' \in [Conns -> Connection]
    BY <1>1, TaskPuts, PutTyped DEF TypeOK
  <2>2. UNCHANGED <<current, handler, customer>>
    BY <1>1 DEF TaskStep, Open, OpenFails, ModuleSubscribe, ModuleAck, NoModuleAck, AckCheck,
         AckSend, FeedSend, Closes, Failed, Wake, Cancelled, LateModuleAck, SocketDrops, Fails
  <2> QED
    BY <2>1, <2>2 DEF TypeOK
<1>2. ASSUME NEW h \in Handlers, ConnectExisting(h) PROVE TypeOK'
  <2>1. current \in Conns /\ conn[current] \in Connection
    BY <1>2 DEF ConnectExisting, Alive, TypeOK
  <2>2. [conn[current] EXCEPT !.customer = @ \/ customer] \in Connection
    BY <2>1 DEF TypeOK, Connection
  <2>3. conn' \in [Conns -> Connection]
    BY <1>2, <2>1, <2>2, PutTyped DEF ConnectExisting, TypeOK
  <2>4. handler' \in [Handlers -> Conns \cup {NoConn}]
    BY <1>2, <2>1 DEF ConnectExisting, TypeOK
  <2> QED
    BY <1>2, <2>3, <2>4 DEF ConnectExisting, TypeOK
<1>3. ASSUME NEW h \in Handlers, ConnectSends(h) PROVE TypeOK'
  <2>1. handler[h] \in Conns /\ conn[handler[h]] \in Connection
    BY <1>3 DEF ConnectSends, TypeOK
  <2>2. conn[handler[h]].task \in TaskState
    BY <2>1 DEF Connection
  <2>3. (\E k \in Connection : Put(handler[h], k)) \/ UNCHANGED conn
    BY <1>3, <2>1, <2>2, SendAckPuts DEF ConnectSends
  <2>4. conn' \in [Conns -> Connection]
    BY <2>1, <2>3, PutTyped DEF TypeOK
  <2>5. handler' \in [Handlers -> Conns \cup {NoConn}]
    BY <1>3 DEF ConnectSends, TypeOK
  <2> QED
    BY <1>3, <2>4, <2>5 DEF ConnectSends, TypeOK
<1>4. ASSUME NEW h \in Handlers, NEW c \in Conns, ConnectNew(h, c) PROVE TypeOK'
  <2>1. Fresh("opening", customer) \in Connection
    BY DEF Fresh, Connection, TaskState, TypeOK
  <2> QED
    BY <1>4, <2>1, PutTyped DEF ConnectNew, TypeOK
<1>5. ASSUME NEW symbols \in SUBSET Symbols, Subscribe(symbols) PROVE TypeOK'
  <2>1. current \in Conns /\ conn[current] \in Connection
    BY <1>5 DEF Subscribe, TypeOK
  <2>2. \E k \in Connection : Put(current, k)
    BY <1>5, <2>1 DEF Subscribe, Connection
  <2> QED
    BY <1>5, <2>1, <2>2, PutTyped DEF Subscribe, TypeOK
<1>6. ASSUME NEW symbols \in SUBSET Symbols, Unsubscribe(symbols) PROVE TypeOK'
  <2>1. current \in Conns /\ conn[current] \in Connection
    BY <1>6 DEF Unsubscribe, TypeOK
  <2>2. \E k \in Connection : Put(current, k)
    BY <1>6, <2>1 DEF Unsubscribe, Connection
  <2> QED
    BY <1>6, <2>1, <2>2, PutTyped DEF Unsubscribe, TypeOK
<1>7. CASE StoreCustomer
  BY <1>7 DEF StoreCustomer, TypeOK
<1>8. CASE Disconnect
  <2>1. current \in Conns /\ conn[current] \in Connection
    BY <1>8 DEF Disconnect, TypeOK
  <2>2. \E k \in Connection : Put(current, k)
    BY <1>8, <2>1 DEF Disconnect, Goto, Connection, TaskState
  <2> QED
    BY <1>8, <2>1, <2>2, PutTyped DEF Disconnect, TypeOK
<1>9. CASE UNCHANGED vars
  BY <1>9 DEF vars, TypeOK
<1> QED
  BY <1>1, <1>2, <1>3, <1>4, <1>5, <1>6, <1>7, <1>8, <1>9 DEF Next

LEMMA TypeInit == Init => TypeOK
  BY DEF Init, TypeOK, Connection, Fresh, TaskState, OnSocket

(***************************************************************************)
(* Every reachable state is well typed.                                    *)
(***************************************************************************)
THEOREM StreamTypeCorrect == Spec => []TypeOK
<1>1. TypeOK /\ [Next]_vars => TypeOK'
  BY TypeStep
<1> QED
  BY TypeInit, <1>1, PTL DEF Spec

\* What the ack subscription changes, and what it leaves alone.
LEMMA SendAckEffect ==
  ASSUME conn \in [Conns -> Connection], NEW c \in Conns, NEW task, SendAck(c, task)
  PROVE  /\ \A d \in Conns \ {c} : conn'[d] = conn[d]
         /\ conn'[c].task = task
         /\ conn'[c].acks > 0
         /\ conn'[c].ws = conn[c].ws
         /\ conn'[c].ready = conn[c].ready
         /\ conn'[c].subs = conn[c].subs
         /\ conn'[c].fed = conn[c].fed
<1> DEFINE n == conn[c].acks + 1
<1>1. n > 0
  <2>1. conn[c].acks \in Nat
    BY DEF Connection
  <2> QED
    BY <2>1
<1>2. conn' = [conn EXCEPT ![c] = [conn[c] EXCEPT !.task = task, !.acked = TRUE, !.acks = n]]
  BY DEF SendAck, Put
<1> HIDE DEF n
<1>3. conn[c] \in Connection
  OBVIOUS
<1>4. conn'[c] = [conn[c] EXCEPT !.task = task, !.acked = TRUE, !.acks = n]
  BY <1>2
<1>5. \A d \in Conns \ {c} : conn'[d] = conn[d]
  BY <1>2
<1> QED
  BY <1>1, <1>3, <1>4, <1>5 DEF Connection

\* The end of a socket takes its flags along.
LEMMA ResetEffect ==
  ASSUME conn \in [Conns -> Connection], NEW c \in Conns, NEW task, Reset(c, task)
  PROVE  /\ \A d \in Conns \ {c} : conn'[d] = conn[d]
         /\ conn'[c].task = task
         /\ conn'[c].ws = "none"
         /\ conn'[c].acked = FALSE
  BY DEF Reset, Put, Connection

\* Only SendAck raises the flag, and it counts the frame.
LEMMA HonestStep ==
  ASSUME TypeOK, AckFlagHonest, [Next]_vars
  PROVE  AckFlagHonest'
<1>0. /\ conn \in [Conns -> Connection]
      /\ current \in Conns \cup {NoConn}
      /\ handler \in [Handlers -> Conns \cup {NoConn}]
  BY DEF TypeOK
<1> USE NoConnAssumption DEF AckFlagHonest, Connection, Put, Task
<1>1. ASSUME NEW c \in Conns,
             TaskStep(c) \/ LateModuleAck(c) \/ SocketDrops(c) \/ Fails(c)
      PROVE  AckFlagHonest'
  <2>1. CASE Open(c)
    BY <1>0, <2>1 DEF Open
  <2>2. CASE OpenFails(c)
    BY <1>0, <2>2 DEF OpenFails, Goto
  <2>3. CASE ModuleSubscribe(c)
    BY <1>0, <2>3 DEF ModuleSubscribe, Goto
  <2>4. CASE ModuleAck(c)
    BY <1>0, <2>4 DEF ModuleAck
  <2>5. CASE NoModuleAck(c)
    BY <1>0, <2>5 DEF NoModuleAck, Goto
  <2>6. CASE AckCheck(c)
    BY <1>0, <2>6 DEF AckCheck, Goto
  <2>7. CASE AckSend(c)
    BY <1>0, <2>7, SendAckEffect DEF AckSend, TaskState, OnSocket
  <2>8. CASE FeedSend(c)
    BY <1>0, <2>8 DEF FeedSend
  <2>9. CASE Closes(c)
    BY <1>0, <2>9 DEF Closes, Reset
  <2>10. CASE Failed(c)
    BY <1>0, <2>10, ResetEffect DEF Failed
  <2>11. CASE Wake(c)
    BY <1>0, <2>11 DEF Wake, Goto
  <2>12. CASE Cancelled(c)
    BY <1>0, <2>12 DEF Cancelled, Reset
  <2>13. CASE LateModuleAck(c)
    BY <1>0, <2>13 DEF LateModuleAck
  <2>14. CASE SocketDrops(c)
    BY <1>0, <2>14 DEF SocketDrops
  <2>15. CASE Fails(c)
    BY <1>0, <2>15 DEF Fails, OnSocket
  <2> QED
    BY <1>1, <2>1, <2>2, <2>3, <2>4, <2>5, <2>6, <2>7, <2>8, <2>9, <2>10, <2>11, <2>12, <2>13, <2>14, <2>15 DEF TaskStep
<1>2. ASSUME NEW h \in Handlers, ConnectExisting(h) PROVE AckFlagHonest'
  BY <1>0, <1>2 DEF ConnectExisting, Alive
<1>3. ASSUME NEW h \in Handlers, ConnectSends(h) PROVE AckFlagHonest'
  BY <1>0, <1>3, SendAckEffect DEF ConnectSends
<1>4. ASSUME NEW h \in Handlers, NEW c \in Conns, ConnectNew(h, c) PROVE AckFlagHonest'
  BY <1>0, <1>4 DEF ConnectNew, Alive, Fresh
<1>5. ASSUME NEW symbols \in SUBSET Symbols, Subscribe(symbols) PROVE AckFlagHonest'
  BY <1>0, <1>5 DEF Subscribe
<1>6. ASSUME NEW symbols \in SUBSET Symbols, Unsubscribe(symbols) PROVE AckFlagHonest'
  BY <1>0, <1>6 DEF Unsubscribe
<1>7. CASE StoreCustomer
  BY <1>0, <1>7 DEF StoreCustomer
<1>8. CASE Disconnect
  BY <1>0, <1>8 DEF Disconnect, Goto
<1>9. CASE UNCHANGED vars
  BY <1>0, <1>9 DEF vars
<1> QED
  BY <1>1, <1>2, <1>3, <1>4, <1>5, <1>6, <1>7, <1>8, <1>9 DEF Next

(***************************************************************************)
(* The ack flag is never up on a socket that has not had the frame, however *)
(* many connect requests race the task.                                    *)
(***************************************************************************)
THEOREM AckFlagAlwaysHonest == Spec => []AckFlagHonest
<1>1. Init => TypeOK /\ AckFlagHonest
  BY TypeInit DEF Init, AckFlagHonest, Fresh
<1>2. TypeOK /\ AckFlagHonest /\ [Next]_vars => (TypeOK /\ AckFlagHonest)'
  BY TypeStep, HonestStep
<1> QED
  BY <1>1, <1>2, PTL DEF Spec

\* A stream becomes current when it starts, and is cancelled or dead before another does.
LEMMA OrphanStep ==
  ASSUME TypeOK, NoOrphanStream, [Next]_vars
  PROVE  NoOrphanStream'
<1>0. /\ conn \in [Conns -> Connection]
      /\ current \in Conns \cup {NoConn}
      /\ handler \in [Handlers -> Conns \cup {NoConn}]
  BY DEF TypeOK
<1> USE NoConnAssumption DEF NoOrphanStream, Put, Task
<1>1. ASSUME NEW c \in Conns,
             TaskStep(c) \/ LateModuleAck(c) \/ SocketDrops(c) \/ Fails(c)
      PROVE  NoOrphanStream'
  <2>1. CASE Open(c)
    BY <1>0, <2>1 DEF Open
  <2>2. CASE OpenFails(c)
    BY <1>0, <2>2 DEF OpenFails, Goto
  <2>3. CASE ModuleSubscribe(c)
    BY <1>0, <2>3 DEF ModuleSubscribe, Goto
  <2>4. CASE ModuleAck(c)
    BY <1>0, <2>4 DEF ModuleAck
  <2>5. CASE NoModuleAck(c)
    BY <1>0, <2>5 DEF NoModuleAck, Goto
  <2>6. CASE AckCheck(c)
    BY <1>0, <2>6 DEF AckCheck, Goto
  <2>7. CASE AckSend(c)
    BY <1>0, <2>7, SendAckEffect DEF AckSend, TaskState, OnSocket
  <2>8. CASE FeedSend(c)
    BY <1>0, <2>8 DEF FeedSend
  <2>9. CASE Closes(c)
    BY <1>0, <2>9 DEF Closes, Reset
  <2>10. CASE Failed(c)
    BY <1>0, <2>10, ResetEffect DEF Failed
  <2>11. CASE Wake(c)
    BY <1>0, <2>11 DEF Wake, Goto
  <2>12. CASE Cancelled(c)
    BY <1>0, <2>12 DEF Cancelled, Reset
  <2>13. CASE LateModuleAck(c)
    BY <1>0, <2>13 DEF LateModuleAck
  <2>14. CASE SocketDrops(c)
    BY <1>0, <2>14 DEF SocketDrops
  <2>15. CASE Fails(c)
    BY <1>0, <2>15 DEF Fails, OnSocket
  <2> QED
    BY <1>1, <2>1, <2>2, <2>3, <2>4, <2>5, <2>6, <2>7, <2>8, <2>9, <2>10, <2>11, <2>12, <2>13, <2>14, <2>15 DEF TaskStep
<1>2. ASSUME NEW h \in Handlers, ConnectExisting(h) PROVE NoOrphanStream'
  BY <1>0, <1>2 DEF ConnectExisting, Alive
<1>3. ASSUME NEW h \in Handlers, ConnectSends(h) PROVE NoOrphanStream'
  BY <1>0, <1>3, SendAckEffect DEF ConnectSends
<1>4. ASSUME NEW h \in Handlers, NEW c \in Conns, ConnectNew(h, c) PROVE NoOrphanStream'
  BY <1>0, <1>4 DEF ConnectNew, Alive, Fresh
<1>5. ASSUME NEW symbols \in SUBSET Symbols, Subscribe(symbols) PROVE NoOrphanStream'
  BY <1>0, <1>5 DEF Subscribe
<1>6. ASSUME NEW symbols \in SUBSET Symbols, Unsubscribe(symbols) PROVE NoOrphanStream'
  BY <1>0, <1>6 DEF Unsubscribe
<1>7. CASE StoreCustomer
  BY <1>0, <1>7 DEF StoreCustomer
<1>8. CASE Disconnect
  BY <1>0, <1>8 DEF Disconnect, Goto
<1>9. CASE UNCHANGED vars
  BY <1>0, <1>9 DEF vars
<1> QED
  BY <1>1, <1>2, <1>3, <1>4, <1>5, <1>6, <1>7, <1>8, <1>9 DEF Next

(***************************************************************************)
(* A stream that is not current is cancelled, dead or was never started.   *)
(***************************************************************************)
THEOREM NeverOrphaned == Spec => []NoOrphanStream
<1>1. Init => TypeOK /\ NoOrphanStream
  BY TypeInit DEF Init, NoOrphanStream, Fresh
<1>2. TypeOK /\ NoOrphanStream /\ [Next]_vars => (TypeOK /\ NoOrphanStream)'
  BY TypeStep, OrphanStep
<1> QED
  BY <1>1, <1>2, PTL DEF Spec

\* A stream starts to listen by sending its feeds, and later symbols are sent at once.
LEMMA FeedsStep ==
  ASSUME TypeOK, FeedsReplayed, [Next]_vars
  PROVE  FeedsReplayed'
<1>0. /\ conn \in [Conns -> Connection]
      /\ current \in Conns \cup {NoConn}
      /\ handler \in [Handlers -> Conns \cup {NoConn}]
  BY DEF TypeOK
<1> USE NoConnAssumption DEF FeedsReplayed, Connection, Put, Task
<1>1. ASSUME NEW c \in Conns,
             TaskStep(c) \/ LateModuleAck(c) \/ SocketDrops(c) \/ Fails(c)
      PROVE  FeedsReplayed'
  <2>1. CASE Open(c)
    BY <1>0, <2>1 DEF Open
  <2>2. CASE OpenFails(c)
    BY <1>0, <2>2 DEF OpenFails, Goto
  <2>3. CASE ModuleSubscribe(c)
    BY <1>0, <2>3 DEF ModuleSubscribe, Goto
  <2>4. CASE ModuleAck(c)
    BY <1>0, <2>4 DEF ModuleAck
  <2>5. CASE NoModuleAck(c)
    BY <1>0, <2>5 DEF NoModuleAck, Goto
  <2>6. CASE AckCheck(c)
    BY <1>0, <2>6 DEF AckCheck, Goto
  <2>7. CASE AckSend(c)
    BY <1>0, <2>7, SendAckEffect DEF AckSend, TaskState, OnSocket
  <2>8. CASE FeedSend(c)
    BY <1>0, <2>8 DEF FeedSend
  <2>9. CASE Closes(c)
    BY <1>0, <2>9 DEF Closes, Reset
  <2>10. CASE Failed(c)
    BY <1>0, <2>10, ResetEffect DEF Failed
  <2>11. CASE Wake(c)
    BY <1>0, <2>11 DEF Wake, Goto
  <2>12. CASE Cancelled(c)
    BY <1>0, <2>12 DEF Cancelled, Reset
  <2>13. CASE LateModuleAck(c)
    BY <1>0, <2>13 DEF LateModuleAck
  <2>14. CASE SocketDrops(c)
    BY <1>0, <2>14 DEF SocketDrops
  <2>15. CASE Fails(c)
    BY <1>0, <2>15 DEF Fails, OnSocket
  <2> QED
    BY <1>1, <2>1, <2>2, <2>3, <2>4, <2>5, <2>6, <2>7, <2>8, <2>9, <2>10, <2>11, <2>12, <2>13, <2>14, <2>15 DEF TaskStep
<1>2. ASSUME NEW h \in Handlers, ConnectExisting(h) PROVE FeedsReplayed'
  BY <1>0, <1>2 DEF ConnectExisting, Alive
<1>3. ASSUME NEW h \in Handlers, ConnectSends(h) PROVE FeedsReplayed'
  BY <1>0, <1>3, SendAckEffect DEF ConnectSends
<1>4. ASSUME NEW h \in Handlers, NEW c \in Conns, ConnectNew(h, c) PROVE FeedsReplayed'
  BY <1>0, <1>4 DEF ConnectNew, Alive, Fresh
<1>5. ASSUME NEW symbols \in SUBSET Symbols, Subscribe(symbols) PROVE FeedsReplayed'
  BY <1>0, <1>5 DEF Subscribe
<1>6. ASSUME NEW symbols \in SUBSET Symbols, Unsubscribe(symbols) PROVE FeedsReplayed'
  BY <1>0, <1>6 DEF Unsubscribe
<1>7. CASE StoreCustomer
  BY <1>0, <1>7 DEF StoreCustomer
<1>8. CASE Disconnect
  BY <1>0, <1>8 DEF Disconnect, Goto
<1>9. CASE UNCHANGED vars
  BY <1>0, <1>9 DEF vars
<1> QED
  BY <1>1, <1>2, <1>3, <1>4, <1>5, <1>6, <1>7, <1>8, <1>9 DEF Next

(***************************************************************************)
(* A stream whose module ack came in time has every subscribed feed.       *)
(***************************************************************************)
THEOREM FeedsAlwaysReplayed == Spec => []FeedsReplayed
<1>1. Init => TypeOK /\ FeedsReplayed
  BY TypeInit DEF Init, FeedsReplayed, Fresh
<1>2. TypeOK /\ FeedsReplayed /\ [Next]_vars => (TypeOK /\ FeedsReplayed)'
  BY TypeStep, FeedsStep
<1> QED
  BY <1>1, <1>2, PTL DEF Spec

-----------------------------------------------------------------------------
(***************************************************************************)
(* The bound on the ack subscriptions of a socket.                         *)
(***************************************************************************)
\* The task has passed the check and is about to send.
TaskOwes(c) == IF conn[c].task \in {"acking", "lateacking"} THEN 1 ELSE 0

\* The connect requests that have passed the check and are about to send.
Holders(c) == {h \in Handlers : handler[h] = c}

\* Everybody who sends has seen the flag down, and then there was no frame yet.
FramesOK ==
  \A c \in Conns :
    /\ ~conn[c].acked => conn[c].acks = 0
    /\ conn[c].acks + TaskOwes(c) + Cardinality(Holders(c)) <= 1 + Cardinality(Handlers)

\* What a step may do to the frames of c and to those who owe one.
FrameMove(c) ==
  /\ ~conn'[c].acked => conn'[c].acks = 0
  /\ \/ conn'[c].acks = 0
     \/ /\ conn'[c].acks = conn[c].acks
        /\ TaskOwes(c)' <= TaskOwes(c)
        /\ Holders(c)' \subseteq Holders(c)
     \/ /\ conn'[c].acks = conn[c].acks + 1
        /\ TaskOwes(c) = 1 /\ TaskOwes(c)' = 0
        /\ Holders(c)' = Holders(c)
     \/ /\ conn'[c].acks = conn[c].acks + 1
        /\ TaskOwes(c)' = TaskOwes(c)
        /\ \E h \in Holders(c) : Holders(c)' = Holders(c) \ {h}

\* The sum of frames and debts stays within the bound.
LEMMA FrameSum ==
  ASSUME IsFiniteSet(Handlers), TypeOK, TypeOK', FramesOK, NEW c \in Conns, FrameMove(c)
  PROVE  conn'[c].acks + TaskOwes(c)' + Cardinality(Holders(c)') <= 1 + Cardinality(Handlers)
<1>1. /\ IsFiniteSet(Holders(c)) /\ Cardinality(Holders(c)) \in Nat
      /\ IsFiniteSet(Holders(c)') /\ Cardinality(Holders(c)') \in Nat
      /\ Cardinality(Holders(c)') <= Cardinality(Handlers)
      /\ Cardinality(Handlers) \in Nat
  <2>1. Holders(c) \in SUBSET Handlers /\ Holders(c)' \in SUBSET Handlers
    BY DEF Holders
  <2> QED  BY <2>1, FS_Subset, FS_CardinalityType
<1>2. conn[c].acks \in Nat /\ conn'[c].acks \in Nat
  BY DEF TypeOK, Connection
<1>3. TaskOwes(c) \in {0, 1} /\ TaskOwes(c)' \in {0, 1}
  BY DEF TaskOwes
<1>4. conn[c].acks + TaskOwes(c) + Cardinality(Holders(c)) <= 1 + Cardinality(Handlers)
  BY DEF FramesOK
<1>5. CASE conn'[c].acks = 0
  BY <1>1, <1>3, <1>5
<1>6. CASE /\ conn'[c].acks = conn[c].acks
           /\ TaskOwes(c)' <= TaskOwes(c)
           /\ Holders(c)' \subseteq Holders(c)
  <2>1. Cardinality(Holders(c)') <= Cardinality(Holders(c))
    BY <1>1, <1>6, FS_Subset
  <2> QED  BY <1>1, <1>2, <1>3, <1>4, <1>6, <2>1
<1>7. CASE /\ conn'[c].acks = conn[c].acks + 1
           /\ TaskOwes(c) = 1 /\ TaskOwes(c)' = 0
           /\ Holders(c)' = Holders(c)
  BY <1>1, <1>2, <1>4, <1>7
<1>8. ASSUME conn'[c].acks = conn[c].acks + 1, TaskOwes(c)' = TaskOwes(c),
             NEW h \in Holders(c), Holders(c)' = Holders(c) \ {h}
      PROVE  conn'[c].acks + TaskOwes(c)' + Cardinality(Holders(c)') <= 1 + Cardinality(Handlers)
  <2>1. Cardinality(Holders(c)') = Cardinality(Holders(c)) - 1
    BY <1>1, <1>8, FS_RemoveElement
  <2> QED  BY <1>1, <1>2, <1>3, <1>4, <1>8, <2>1
<1> QED  BY <1>5, <1>6, <1>7, <1>8 DEF FrameMove

\* A step that leaves the other objects and the requests alone, at the others.
LEMMA OthersMove ==
  ASSUME FramesOK, NEW c \in Conns, \A d \in Conns \ {c} : conn'[d] = conn[d],
         \A d \in Conns \ {c} : Holders(d)' = Holders(d)
  PROVE  \A d \in Conns \ {c} : FrameMove(d)
<1>1. \A d \in Conns : TaskOwes(d) \in {0, 1}  BY DEF TaskOwes
<1>2. \A d \in Conns \ {c} : TaskOwes(d)' = TaskOwes(d)  BY DEF TaskOwes
<1> QED  BY <1>1, <1>2 DEF FrameMove, FramesOK

\* A new state of c in which neither frames nor the check have changed.
LEMMA QuietMove ==
  ASSUME TypeOK, FramesOK, NEW c \in Conns, NEW k, Put(c, k), UNCHANGED handler,
         \/ k.acks = conn[c].acks /\ k.acked = conn[c].acked
         \/ k.acks = 0,
         \/ k.task \notin {"acking", "lateacking"}
         \/ k.task = conn[c].task
         \/ k.acks = 0
  PROVE  \A d \in Conns : FrameMove(d)
<1>1. conn'[c] = k /\ \A d \in Conns \ {c} : conn'[d] = conn[d]
  BY DEF TypeOK, Put
<1>2. \A d \in Conns : Holders(d)' = Holders(d)  BY DEF Holders
<1>3. FrameMove(c)
  <2>1. CASE k.acks = 0  BY <1>1, <2>1 DEF FrameMove
  <2>2. CASE /\ k.acks = conn[c].acks /\ k.acked = conn[c].acked
             /\ k.task \notin {"acking", "lateacking"} \/ k.task = conn[c].task
    <3>1. TaskOwes(c)' <= TaskOwes(c)  BY <1>1, <2>2 DEF TaskOwes
    <3> QED  BY <1>1, <1>2, <2>2, <3>1 DEF FrameMove, FramesOK
  <2> QED  BY <2>1, <2>2
<1> QED  BY <1>1, <1>2, <1>3, OthersMove

\* The frame that leaves counts once, and the flag is up from then on.
LEMMA SendAckCounts ==
  ASSUME conn \in [Conns -> Connection], NEW c \in Conns, NEW task, SendAck(c, task)
  PROVE  /\ \A d \in Conns \ {c} : conn'[d] = conn[d]
         /\ conn'[c].task = task
         /\ conn'[c].acks = conn[c].acks + 1
         /\ conn'[c].acked = TRUE
<1> DEFINE n == conn[c].acks + 1
<1>1. n = conn[c].acks + 1
  OBVIOUS
<1>2. conn' = [conn EXCEPT ![c] = [conn[c] EXCEPT !.task = task, !.acked = TRUE, !.acks = n]]
  BY DEF SendAck, Put
<1> HIDE DEF n
<1>3. conn[c] \in Connection
  OBVIOUS
<1>4. conn'[c] = [conn[c] EXCEPT !.task = task, !.acked = TRUE, !.acks = n]
  BY <1>2
<1>5. \A d \in Conns \ {c} : conn'[d] = conn[d]
  BY <1>2
<1> QED
  BY <1>1, <1>3, <1>4, <1>5 DEF Connection

\* Every step of the model is such a move for every connection.
LEMMA StepMoves ==
  ASSUME TypeOK, FramesOK, [Next]_vars
  PROVE  \A d \in Conns : FrameMove(d)
<1>0. /\ conn \in [Conns -> Connection]
      /\ current \in Conns \cup {NoConn}
      /\ handler \in [Handlers -> Conns \cup {NoConn}]
      /\ \A c \in Conns : conn[c].acks \in Nat /\ conn[c].acked \in BOOLEAN
  BY DEF TypeOK, Connection
<1>1. ASSUME NEW c \in Conns,
             TaskStep(c) \/ LateModuleAck(c) \/ SocketDrops(c) \/ Fails(c)
      PROVE  \A d \in Conns : FrameMove(d)
  <2> USE DEF Connection, Task, Goto
  <2>0. conn[c] \in Connection  BY <1>0
  <2>1. CASE Open(c)  BY <2>0, <2>1, QuietMove DEF Open
  <2>2. CASE OpenFails(c)  BY <2>0, <2>2, QuietMove DEF OpenFails
  <2>3. CASE ModuleSubscribe(c)  BY <2>0, <2>3, QuietMove DEF ModuleSubscribe
  <2>4. CASE ModuleAck(c)  BY <2>0, <2>4, QuietMove DEF ModuleAck
  <2>5. CASE NoModuleAck(c)  BY <2>0, <2>5, QuietMove DEF NoModuleAck
  <2>6. CASE AckCheck(c)
    <3> DEFINE task == IF Task(c, "subscribing")
                         THEN IF MaySendAck(conn[c]) THEN "acking" ELSE "feeding"
                         ELSE IF MaySendAck(conn[c]) THEN "lateacking" ELSE "listening"
               k == [conn[c] EXCEPT !.task = task]
    <3>1. Put(c, k) /\ UNCHANGED handler  BY <2>6 DEF AckCheck
    <3>2. /\ k.acks = conn[c].acks /\ k.acked = conn[c].acked
          /\ k.task \notin {"acking", "lateacking"} \/ k.acks = 0
      BY <1>0, <2>0 DEF MaySendAck, FramesOK
    <3> HIDE DEF k
    <3> QED  BY <3>1, <3>2, QuietMove
  <2>7. CASE AckSend(c)
    <3>1. /\ \A d \in Conns \ {c} : conn'[d] = conn[d]
          /\ conn'[c].acks = conn[c].acks + 1 /\ conn'[c].acked = TRUE
          /\ conn[c].task \in {"acking", "lateacking"}
          /\ conn'[c].task \in {"feeding", "listening"}
          /\ UNCHANGED handler
      BY <1>0, <2>7, SendAckCounts DEF AckSend
    <3>2. \A d \in Conns : Holders(d)' = Holders(d)  BY <3>1 DEF Holders
    <3>3. TaskOwes(c) = 1 /\ TaskOwes(c)' = 0  BY <3>1 DEF TaskOwes
    <3> QED  BY <3>1, <3>2, <3>3, OthersMove DEF FrameMove
  <2>8. CASE FeedSend(c)  BY <2>0, <2>8, QuietMove DEF FeedSend
  <2>9. CASE Closes(c)  BY <2>0, <2>9, QuietMove DEF Closes, Reset
  <2>10. CASE Failed(c)  BY <2>0, <2>10, QuietMove DEF Failed, Reset
  <2>11. CASE Wake(c)  BY <2>0, <2>11, QuietMove DEF Wake
  <2>12. CASE Cancelled(c)  BY <2>0, <2>12, QuietMove DEF Cancelled, Reset
  <2>13. CASE LateModuleAck(c)  BY <2>0, <2>13, QuietMove DEF LateModuleAck
  <2>14. CASE SocketDrops(c)  BY <2>0, <2>14, QuietMove DEF SocketDrops
  <2>15. CASE Fails(c)  BY <2>0, <2>15, QuietMove DEF Fails
  <2> QED
    BY <1>1, <2>1, <2>2, <2>3, <2>4, <2>5, <2>6, <2>7, <2>8, <2>9, <2>10, <2>11, <2>12, <2>13, <2>14, <2>15 DEF TaskStep
<1>2. ASSUME NEW h \in Handlers, ConnectExisting(h) PROVE \A d \in Conns : FrameMove(d)
  <2> DEFINE k == [conn[current] EXCEPT !.customer = @ \/ customer]
  <2>1. current \in Conns  BY <1>0, <1>2 DEF ConnectExisting, Alive
  <2>2. conn[current] \in Connection  BY <1>0, <2>1
  <2>3. /\ k.acks = conn[current].acks /\ k.acked = conn[current].acked
        /\ k.task = conn[current].task
    BY <2>2 DEF Connection
  <2>4. /\ Put(current, k) /\ handler[h] = NoConn
        /\ handler' = IF k.ws # "none" /\ MaySendAck(k)
                        THEN [handler EXCEPT ![h] = current] ELSE handler
    BY <1>2 DEF ConnectExisting
  <2> HIDE DEF k
  <2>5. CASE handler' = handler
    BY <2>1, <2>3, <2>4, <2>5, QuietMove
  <2>6. CASE MaySendAck(k) /\ handler' = [handler EXCEPT ![h] = current]
    <3>1. conn'[current] = k /\ \A d \in Conns \ {current} : conn'[d] = conn[d]
      BY <1>0, <2>1, <2>4 DEF Put
    <3>2. FrameMove(current)
      BY <1>0, <2>1, <2>3, <2>6, <3>1 DEF FrameMove, MaySendAck, FramesOK
    <3>3. \A d \in Conns \ {current} : Holders(d)' = Holders(d)
      BY <1>0, <2>1, <2>4, <2>6, NoConnAssumption DEF Holders
    <3> QED  BY <2>1, <3>1, <3>2, <3>3, OthersMove
  <2> QED  BY <2>4, <2>5, <2>6
<1>3. ASSUME NEW h \in Handlers, ConnectSends(h) PROVE \A d \in Conns : FrameMove(d)
  <2>1. PICK c \in Conns : c = handler[h] /\ h \in Holders(c)
    BY <1>0, <1>3 DEF ConnectSends, Holders
  <2>2. handler' = [handler EXCEPT ![h] = NoConn]
    BY <1>3 DEF ConnectSends
  <2>3. /\ Holders(c)' = Holders(c) \ {h}
        /\ \A d \in Conns \ {c} : Holders(d)' = Holders(d)
    BY <1>0, <2>1, <2>2, NoConnAssumption DEF Holders
  <2>4. CASE conn' = conn
    <3>1. TaskOwes(c)' = TaskOwes(c) /\ TaskOwes(c) \in {0, 1}  BY <2>4 DEF TaskOwes
    <3>2. FrameMove(c)  BY <2>1, <2>3, <2>4, <3>1 DEF FrameMove, FramesOK
    <3> QED  BY <2>1, <2>3, <2>4, <3>2, OthersMove
  <2>5. CASE SendAck(c, conn[c].task)
    <3>1. /\ \A d \in Conns \ {c} : conn'[d] = conn[d]
          /\ conn'[c].task = conn[c].task
          /\ conn'[c].acks = conn[c].acks + 1 /\ conn'[c].acked = TRUE
      BY <1>0, <2>1, <2>5, SendAckCounts
    <3>2. TaskOwes(c)' = TaskOwes(c)  BY <3>1 DEF TaskOwes
    <3>3. FrameMove(c)  BY <2>1, <2>3, <3>1, <3>2 DEF FrameMove
    <3> QED  BY <2>1, <2>3, <3>1, <3>3, OthersMove
  <2> QED  BY <1>3, <2>1, <2>4, <2>5 DEF ConnectSends
<1>4. ASSUME NEW h \in Handlers, NEW c \in Conns, ConnectNew(h, c)
      PROVE  \A d \in Conns : FrameMove(d)
  BY <1>4, QuietMove DEF ConnectNew, Fresh
<1>5. ASSUME NEW symbols \in SUBSET Symbols, Subscribe(symbols) \/ Unsubscribe(symbols)
      PROVE  \A d \in Conns : FrameMove(d)
  <2>1. current \in Conns  BY <1>0, <1>5 DEF Subscribe, Unsubscribe
  <2>2. conn[current] \in Connection  BY <1>0, <2>1
  <2>3. CASE Subscribe(symbols)  BY <2>1, <2>2, <2>3, QuietMove DEF Subscribe, Connection
  <2>4. CASE Unsubscribe(symbols)  BY <2>1, <2>2, <2>4, QuietMove DEF Unsubscribe, Connection
  <2> QED  BY <1>5, <2>3, <2>4
<1>6. CASE Disconnect
  <2>1. current \in Conns  BY <1>0, <1>6 DEF Disconnect
  <2>2. conn[current] \in Connection  BY <1>0, <2>1
  <2> QED  BY <1>6, <2>1, <2>2, QuietMove DEF Disconnect, Goto, Connection
<1>7. CASE UNCHANGED conn /\ UNCHANGED handler
  <2>1. \A d \in Conns : /\ Holders(d)' = Holders(d) /\ TaskOwes(d)' = TaskOwes(d)
                         /\ TaskOwes(d) \in {0, 1}
    BY <1>7 DEF Holders, TaskOwes
  <2> QED  BY <1>7, <2>1 DEF FrameMove, FramesOK
<1> QED
  BY <1>1, <1>2, <1>3, <1>4, <1>5, <1>6, <1>7 DEF Next, StoreCustomer, vars

(***************************************************************************)
(* A socket never gets more ack subscriptions than one from its task and   *)
(* one from each connect request that can be in flight, if these are       *)
(* finitely many.                                                          *)
(***************************************************************************)
THEOREM AckFramesAlwaysBounded ==
  ASSUME IsFiniteSet(Handlers)  PROVE Spec => []AckFramesBounded
<1>1. Init => TypeOK /\ FramesOK
  <2> SUFFICES ASSUME Init PROVE FramesOK  BY TypeInit
  <2>1. \A c \in Conns : conn[c].acks = 0 /\ conn[c].task = "none"
    BY DEF Init, Fresh
  <2>2. \A c \in Conns : TaskOwes(c) = 0  BY <2>1 DEF TaskOwes
  <2>3. \A c \in Conns : Holders(c) = {}
    BY NoConnAssumption DEF Init, Holders
  <2>4. Cardinality({}) = 0 /\ Cardinality(Handlers) \in Nat
    BY FS_EmptySet, FS_CardinalityType
  <2> QED  BY <2>1, <2>2, <2>3, <2>4 DEF FramesOK
<1>2. TypeOK /\ FramesOK /\ [Next]_vars => (TypeOK /\ FramesOK)'
  <2> SUFFICES ASSUME TypeOK, FramesOK, [Next]_vars PROVE TypeOK' /\ FramesOK'
    OBVIOUS
  <2>1. TypeOK'  BY TypeStep
  <2>2. \A c \in Conns : FrameMove(c)  BY StepMoves
  <2>3. \A c \in Conns :
          conn'[c].acks + TaskOwes(c)' + Cardinality(Holders(c)') <= 1 + Cardinality(Handlers)
    BY <2>1, <2>2, FrameSum
  <2> QED  BY <2>1, <2>2, <2>3 DEF FrameMove, FramesOK
<1>3. TypeOK /\ FramesOK => AckFramesBounded
  <2> SUFFICES ASSUME TypeOK, FramesOK, NEW c \in Conns
               PROVE  conn[c].acks <= 1 + Cardinality(Handlers)
    BY DEF AckFramesBounded
  <2>1. Cardinality(Holders(c)) \in Nat
    BY FS_Subset, FS_CardinalityType, Holders(c) \in SUBSET Handlers DEF Holders
  <2>2. TaskOwes(c) \in {0, 1} /\ conn[c].acks \in Nat /\ Cardinality(Handlers) \in Nat
    BY FS_CardinalityType DEF TaskOwes, TypeOK, Connection
  <2> QED  BY <2>1, <2>2 DEF FramesOK
<1> QED
  BY <1>1, <1>2, <1>3, PTL DEF Spec
-----------------------------------------------------------------------------
(* The ack subscription nobody forgets.                                     *)

(***************************************************************************)
(* A stream that neither waits for its socket nor for the module ack has   *)
(* taken module_ready down, and its socket is not open.                    *)
(***************************************************************************)
QuietStream(k) ==
  /\ k.task \in {"none", "opening", "modules", "waiting", "sleeping", "dead"} => k.ready = "no"
  /\ k.task \in {"none", "opening", "sleeping", "dead", "failing"} => k.ws # "open"

OwesAck(k) == k.ws = "open" /\ k.ready # "no" /\ k.customer /\ ~k.acked

\* Where a task is still to look at the flag or to send, or is about to end.
TaskSees(k) == k.task \in {"subscribing", "acking", "late", "lateacking", "cancelled"}

(***************************************************************************)
(* The order acks of a ready account hang on one frame, which the task and *)
(* any connect request may send: as long as it is owed somebody is still   *)
(* on the way to it, so no order of module ack, customer id and connect    *)
(* leaves a socket open that nobody will subscribe.                        *)
(***************************************************************************)
NoAckForgotten ==
  \A c \in Conns :
    OwesAck(conn[c]) => TaskSees(conn[c]) \/ \E h \in Handlers : handler[h] = c

AckInv == NoAckForgotten /\ \A c \in Conns : QuietStream(conn[c])

\* A step that moves one object, and no request, is good when the object is.
LEMMA AckPut ==
  ASSUME AckInv, conn \in [Conns -> Connection], NEW c \in Conns, NEW k, Put(c, k),
         QuietStream(k), OwesAck(k) => TaskSees(k) \/ \E h \in Handlers : handler[h] = c,
         UNCHANGED handler
  PROVE  AckInv'
<1>1. \A d \in Conns : conn'[d] = IF d = c THEN k ELSE conn[d]
  BY DEF Put
<1>2. \A d \in Conns : QuietStream(conn'[d])
  BY <1>1 DEF AckInv
<1>3. ASSUME NEW d \in Conns, OwesAck(conn'[d])
      PROVE  TaskSees(conn'[d]) \/ \E h \in Handlers : handler[h] = d
  BY <1>1, <1>3 DEF AckInv, NoAckForgotten
<1> QED
  BY <1>2, <1>3 DEF AckInv, NoAckForgotten

\* A step of the task, or of the socket under it.
LEMMA AckTaskStep ==
  ASSUME TypeOK, AckInv, NEW c \in Conns,
         TaskStep(c) \/ LateModuleAck(c) \/ SocketDrops(c) \/ Fails(c)
  PROVE  AckInv'
<1>0. conn \in [Conns -> Connection] /\ conn[c] \in Connection
  BY DEF TypeOK
<1>1. QuietStream(conn[c])
      /\ (OwesAck(conn[c]) => TaskSees(conn[c]) \/ \E h \in Handlers : handler[h] = c)
  BY DEF AckInv, NoAckForgotten
<1>2. UNCHANGED handler
  BY DEF TaskStep, Open, OpenFails, ModuleSubscribe, ModuleAck, NoModuleAck, AckCheck,
       AckSend, FeedSend, Closes, Failed, Wake, Cancelled, LateModuleAck, SocketDrops, Fails
<1> DEFINE Good(k) == /\ Put(c, k)
                      /\ QuietStream(k)
                      /\ OwesAck(k) => TaskSees(k) \/ \E h \in Handlers : handler[h] = c
<1>3. ASSUME NEW k, Good(k) PROVE AckInv'
  BY <1>0, <1>2, <1>3, AckPut
<1> USE DEF QuietStream, OwesAck, TaskSees, Task
<1>4. CASE Open(c)
  <2>1. Good([conn[c] EXCEPT !.task = "modules", !.ws = "open"])
    BY <1>0, <1>1, <1>4 DEF Open, Connection
  <2> QED  BY <2>1, <1>3
<1>5. CASE OpenFails(c)
  <2>1. Good([conn[c] EXCEPT !.task = "failing"])
    BY <1>0, <1>1, <1>5 DEF OpenFails, Goto, Connection
  <2> QED  BY <2>1, <1>3
<1>6. CASE ModuleSubscribe(c)
  <2>1. Good([conn[c] EXCEPT !.task = "waiting"])
    BY <1>0, <1>1, <1>6 DEF ModuleSubscribe, Goto, Connection
  <2> QED  BY <2>1, <1>3
<1>7. CASE ModuleAck(c)
  <2>1. Good([conn[c] EXCEPT !.task = "subscribing", !.ready = "on_time"])
    BY <1>0, <1>1, <1>7 DEF ModuleAck, Connection
  <2> QED  BY <2>1, <1>3
<1>8. CASE NoModuleAck(c)
  <2>1. Good([conn[c] EXCEPT !.task = "subscribing"])
    BY <1>0, <1>1, <1>8 DEF NoModuleAck, Goto, Connection
  <2> QED  BY <2>1, <1>3
<1>9. CASE AckCheck(c)
  <2>1. CASE Task(c, "subscribing")
    <3> DEFINE k == [conn[c] EXCEPT !.task = IF MaySendAck(conn[c]) THEN "acking" ELSE "feeding"]
    <3>1. Put(c, k)
      BY <1>9, <2>1 DEF AckCheck, Goto
    <3>2. Good(k)
      BY <1>0, <1>1, <3>1 DEF MaySendAck, Connection
    <3> QED  BY <3>2, <1>3
  <2>2. CASE Task(c, "late")
    <3> DEFINE k == [conn[c] EXCEPT !.task = IF MaySendAck(conn[c]) THEN "lateacking" ELSE "listening"]
    <3>1. Put(c, k)
      BY <1>9, <2>2 DEF AckCheck, Goto
    <3>2. Good(k)
      BY <1>0, <1>1, <3>1 DEF MaySendAck, Connection
    <3> QED  BY <3>2, <1>3
  <2> QED  BY <1>9, <2>1, <2>2 DEF AckCheck
<1>10. CASE AckSend(c)
  <2> DEFINE Sent(task) == [conn[c] EXCEPT !.task = task, !.acked = TRUE, !.acks = conn[c].acks + 1]
  <2>1. PICK task \in {"feeding", "listening"} : Put(c, Sent(task))
    BY <1>10 DEF AckSend, SendAck
  <2> DEFINE n == conn[c].acks + 1
  <2> HIDE DEF n
  <2>2. Good([conn[c] EXCEPT !.task = task, !.acked = TRUE, !.acks = n])
    BY <1>0, <2>1 DEF Connection, n
  <2> QED  BY <2>2, <1>3
<1>11. CASE FeedSend(c)
  <2>1. PICK fed : Put(c, [conn[c] EXCEPT !.task = "listening", !.fed = fed])
    BY <1>11 DEF FeedSend
  <2>2. Good([conn[c] EXCEPT !.task = "listening", !.fed = fed])
    BY <1>0, <1>1, <1>11, <2>1 DEF FeedSend, Connection
  <2> QED  BY <2>2, <1>3
<1>12. ASSUME NEW task \in {"sleeping", "dead"}, Reset(c, task) PROVE AckInv'
  <2>1. Good([conn[c] EXCEPT !.task = task, !.ws = "none", !.ready = "no",
                             !.acked = FALSE, !.acks = 0, !.fed = {}])
    BY <1>0, <1>12 DEF Reset, Connection
  <2> QED  BY <2>1, <1>3
<1>13. CASE Closes(c) \/ Failed(c) \/ Cancelled(c)
  BY <1>12, <1>13 DEF Closes, Failed, Cancelled
<1>14. CASE Wake(c)
  <2>1. Good([conn[c] EXCEPT !.task = "opening"])
    BY <1>0, <1>1, <1>14 DEF Wake, Goto, Connection
  <2> QED  BY <2>1, <1>3
<1>15. CASE LateModuleAck(c)
  <2>1. PICK ready : Put(c, [conn[c] EXCEPT !.task = "late", !.ready = ready])
    BY <1>15 DEF LateModuleAck
  <2>2. Good([conn[c] EXCEPT !.task = "late", !.ready = ready])
    BY <1>0, <2>1 DEF Connection
  <2> QED  BY <2>2, <1>3
<1>16. CASE SocketDrops(c)
  <2>1. Good([conn[c] EXCEPT !.ws = "closed"])
    BY <1>0, <1>1, <1>16 DEF SocketDrops, Connection
  <2> QED  BY <2>1, <1>3
<1>17. CASE Fails(c)
  <2>1. Good([conn[c] EXCEPT !.task = "failing", !.ws = "closed"])
    BY <1>0, <1>17 DEF Fails, Connection
  <2> QED  BY <2>1, <1>3
<1> QED
  BY <1>4, <1>5, <1>6, <1>7, <1>8, <1>9, <1>10, <1>11, <1>13, <1>14, <1>15, <1>16, <1>17 DEF TaskStep

\* Whoever sends the ack subscription raises the flag.
LEMMA SendAckRaises ==
  ASSUME conn \in [Conns -> Connection], NEW c \in Conns, NEW task, SendAck(c, task)
  PROVE  conn'[c].acked = TRUE
<1> DEFINE n == conn[c].acks + 1
<1>1. conn' = [conn EXCEPT ![c] = [conn[c] EXCEPT !.task = task, !.acked = TRUE, !.acks = n]]
  BY DEF SendAck, Put
<1> HIDE DEF n
<1> QED
  BY <1>1 DEF Connection

\* A step of a request: the one that learns of the customer id sends, or another does.
LEMMA AckStep ==
  ASSUME TypeOK, AckInv, [Next]_vars
  PROVE  AckInv'
<1>0. /\ conn \in [Conns -> Connection]
      /\ current \in Conns \cup {NoConn}
      /\ handler \in [Handlers -> Conns \cup {NoConn}]
  BY DEF TypeOK
<1> USE NoConnAssumption
<1>1. \A c \in Conns :
        /\ QuietStream(conn[c])
        /\ OwesAck(conn[c]) => TaskSees(conn[c]) \/ \E h \in Handlers : handler[h] = c
  BY DEF AckInv, NoAckForgotten
<1>2. ASSUME NEW h \in Handlers, ConnectExisting(h) PROVE AckInv'
  <2>1. current \in Conns /\ conn[current] \in Connection /\ handler[h] = NoConn
    BY <1>0, <1>2 DEF ConnectExisting, Alive
  <2> DEFINE k == [conn[current] EXCEPT !.customer = conn[current].customer \/ customer]
  <2>2. /\ conn' = [conn EXCEPT ![current] = k]
        /\ handler' = IF k.ws # "none" /\ MaySendAck(k)
                        THEN [handler EXCEPT ![h] = current] ELSE handler
    BY <1>2 DEF ConnectExisting, Put
  <2>3. \A d \in Conns : conn'[d] = IF d = current THEN k ELSE conn[d]
    BY <1>0, <2>2
  <2>4. \A g \in Handlers : handler[g] # NoConn => handler'[g] = handler[g]
    BY <1>0, <2>1, <2>2
  <2>5. QuietStream(k)
    BY <1>1, <2>1 DEF QuietStream, Connection
  <2>6. OwesAck(k) => handler'[h] = current
    BY <1>0, <2>1, <2>2 DEF OwesAck, MaySendAck, Connection
  <2> HIDE DEF k
  <2>7. ASSUME NEW d \in Conns, d # current, OwesAck(conn'[d])
        PROVE  TaskSees(conn'[d]) \/ \E g \in Handlers : handler'[g] = d
    BY <1>1, <2>3, <2>4, <2>7
  <2>8. \A d \in Conns : QuietStream(conn'[d])
    BY <1>1, <2>3, <2>5
  <2> QED  BY <2>3, <2>6, <2>7, <2>8 DEF AckInv, NoAckForgotten
<1>3. ASSUME NEW h \in Handlers, ConnectSends(h) PROVE AckInv'
  <2> DEFINE c == handler[h]
  <2>1. c \in Conns /\ conn[c] \in Connection /\ conn[c].task \in TaskState
    BY <1>0, <1>3 DEF ConnectSends, Connection
  <2>2. \A g \in Handlers : handler'[g] = IF g = h THEN NoConn ELSE handler[g]
    BY <1>0, <1>3 DEF ConnectSends
  <2>3. CASE conn[c].ws = "open"
    <3>1. SendAck(c, conn[c].task)
      BY <1>3, <2>3 DEF ConnectSends
    <3>2. /\ \A d \in Conns \ {c} : conn'[d] = conn[d]
          /\ conn'[c].acked = TRUE
          /\ conn'[c].task = conn[c].task
          /\ conn'[c].ws = conn[c].ws
          /\ conn'[c].ready = conn[c].ready
      BY <1>0, <2>1, <3>1, SendAckEffect, SendAckRaises
    <3>3. ASSUME NEW d \in Conns, OwesAck(conn'[d])
          PROVE  TaskSees(conn'[d]) \/ \E g \in Handlers : handler'[g] = d
      <4>1. d # c
        BY <3>2, <3>3 DEF OwesAck
      <4>2. conn'[d] = conn[d]
        BY <3>2, <4>1
      <4> QED  BY <1>1, <2>2, <3>3, <4>1, <4>2
    <3>4. \A d \in Conns : QuietStream(conn'[d])
      BY <1>1, <2>1, <3>2 DEF QuietStream
    <3> QED  BY <3>3, <3>4 DEF AckInv, NoAckForgotten
  <2>4. CASE conn[c].ws # "open"
    <3>1. conn' = conn
      BY <1>3, <2>4 DEF ConnectSends
    <3>2. ASSUME NEW d \in Conns, OwesAck(conn'[d])
          PROVE  TaskSees(conn'[d]) \/ \E g \in Handlers : handler'[g] = d
      <4>1. d # c
        BY <2>4, <3>1, <3>2 DEF OwesAck
      <4> QED  BY <1>1, <2>2, <3>1, <3>2, <4>1
    <3> QED  BY <1>1, <3>1, <3>2 DEF AckInv, NoAckForgotten
  <2> QED  BY <2>3, <2>4
<1>4. ASSUME NEW h \in Handlers, NEW c \in Conns, ConnectNew(h, c) PROVE AckInv'
  <2>1. Put(c, Fresh("opening", customer)) /\ UNCHANGED handler
    BY <1>4 DEF ConnectNew
  <2>2. QuietStream(Fresh("opening", customer)) /\ ~OwesAck(Fresh("opening", customer))
    BY DEF QuietStream, OwesAck, Fresh
  <2> QED  BY <1>0, <2>1, <2>2, AckPut
<1>5. ASSUME NEW symbols \in SUBSET Symbols, Subscribe(symbols) \/ Unsubscribe(symbols)
      PROVE  AckInv'
  <2>1. current \in Conns /\ conn[current] \in Connection /\ UNCHANGED handler
    BY <1>0, <1>5 DEF Subscribe, Unsubscribe
  <2>2. PICK subs, fed : Put(current, [conn[current] EXCEPT !.subs = subs, !.fed = fed])
    <3>1. CASE Subscribe(symbols)
      BY <3>1 DEF Subscribe
    <3>2. CASE Unsubscribe(symbols)
      <4>1. conn[current] = [conn[current] EXCEPT !.fed = conn[current].fed]
        BY <2>1 DEF Connection
      <4>2. Put(current, [conn[current] EXCEPT !.subs = conn[current].subs \ symbols,
                                               !.fed = conn[current].fed])
        BY <2>1, <3>2, <4>1 DEF Unsubscribe, Connection
      <4> QED  BY <4>2
    <3> QED  BY <1>5, <3>1, <3>2
  <2> DEFINE k == [conn[current] EXCEPT !.subs = subs, !.fed = fed]
  <2>3. k.task = conn[current].task /\ k.ws = conn[current].ws /\ k.ready = conn[current].ready
        /\ k.customer = conn[current].customer /\ k.acked = conn[current].acked
    BY <2>1 DEF Connection
  <2> HIDE DEF k
  <2>4. QuietStream(k)
        /\ (OwesAck(k) => TaskSees(k) \/ \E h \in Handlers : handler[h] = current)
    BY <1>1, <2>1, <2>3 DEF QuietStream, OwesAck, TaskSees
  <2>5. Put(current, k)
    BY <2>2 DEF k
  <2> QED  BY <1>0, <2>1, <2>4, <2>5, AckPut
<1>6. CASE Disconnect
  <2>1. current \in Conns /\ conn[current] \in Connection /\ UNCHANGED handler
    BY <1>0, <1>6 DEF Disconnect
  <2> DEFINE k == [conn[current] EXCEPT !.task = IF Task(current, "dead") THEN "dead" ELSE "cancelled"]
  <2>2. Put(current, k)
    BY <1>6 DEF Disconnect, Goto
  <2>3. QuietStream(k) /\ (OwesAck(k) => TaskSees(k))
    BY <1>1, <2>1 DEF QuietStream, OwesAck, TaskSees, Task, Connection
  <2> QED  BY <1>0, <2>1, <2>2, <2>3, AckPut
<1>7. CASE UNCHANGED <<conn, handler>>
  BY <1>7 DEF AckInv, NoAckForgotten
<1> QED
  BY <1>2, <1>3, <1>4, <1>5, <1>6, <1>7, AckTaskStep DEF Next, StoreCustomer, vars

(***************************************************************************)
(* The safety half of AcksSubscribed, for any number of connection objects *)
(* and concurrent connect requests: while the ack subscription of a ready  *)
(* account is owed, its task or a connect request is on its way to send it.*)
(***************************************************************************)
THEOREM AckNeverForgotten == Spec => []NoAckForgotten
<1>1. Init => TypeOK /\ AckInv
  BY TypeInit DEF Init, AckInv, NoAckForgotten, QuietStream, OwesAck, Fresh
<1>2. TypeOK /\ AckInv /\ [Next]_vars => (TypeOK /\ AckInv)'
  BY TypeStep, AckStep
<1>3. AckInv => NoAckForgotten
  BY DEF AckInv
<1> QED
  BY <1>1, <1>2, <1>3, PTL DEF Spec
=============================================================================
