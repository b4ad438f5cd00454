----------------------------- MODULE CopyWorker -----------------------------
(***************************************************************************)
(* The copy worker: it pops jobs (a master order and its target accounts)  *)
(* from a Redis list, goes through the targets one by one, looks the       *)
(* idempotency key of each up in copy_orders, checks the risk rules, sends *)
(* the child order with retries and inserts a row with the result.  Lookup *)
(* and insert are separate transactions with the broker in between.  BRPOP *)
(* removes the job before it is handled; a process that dies, of a crash   *)
(* or of an exception, takes the rest of its job with it and is restarted  *)
(* by its supervisor.                                                      *)
(***************************************************************************)
EXTENDS Integers, Sequences, FiniteSets

CONSTANTS
  Workers,    \* worker processes on the queue
  Jobs,       \* messages the (external) producer puts on the queue
  Orders,     \* master orders, each with its request type
  OrderOf,    \* the master order of each job
  Accounts,   \* copy accounts
  TargetsOf,  \* the accounts each job lists
  MaxRetries, \* max_copy_retries
  Faults,     \* network: calls to broker-router time out; exit: workers die
  NoJob

ASSUME JobsAssumption ==
  /\ OrderOf \in [Jobs -> Orders]
  /\ TargetsOf \in [Jobs -> Seq(Accounts)]
  /\ NoJob \notin Jobs
ASSUME RetriesAssumption == MaxRetries \in Nat
ASSUME FaultsAssumption == Faults \subseteq {"network", "exit"}

VARIABLES
  enqueued, \* jobs the producer has pushed
  queue,    \* the Redis list, next job first
  run,      \* what each worker is doing
  rows,     \* copy_orders
  wire,     \* attempts on their way to the broker
  answered, \* attempts broker-router has answered as carried out
  lost      \* history: attempts whose answer never reached a row

vars == <<enqueued, queue, run, rows, wire, answered, lost>>

Results  == {"SKIPPED", "SUCCESS", "FAILED"}
Attempts == [job : Jobs, account : Accounts, attempt : 0 .. MaxRetries]
Rows     == [order : Orders, account : Accounts, status : Results, retries : 0 .. MaxRetries]

IdleRun == [job |-> NoJob, todo |-> <<>>, pc |-> "idle", attempt |-> 0, result |-> "none"]

TypeOK ==
  /\ enqueued \subseteq Jobs
  /\ queue \in Seq(Jobs)
  /\ run \in [Workers -> [job : Jobs \cup {NoJob},
                          todo : Seq(Accounts),
                          pc : {"idle", "lookup", "risk", "send", "answer", "save"},
                          attempt : 0 .. MaxRetries,
                          result : Results \cup {"none"}]]
  /\ rows \subseteq Rows
  /\ wire \subseteq Attempts
  /\ answered \subseteq Attempts
  /\ lost \subseteq Attempts

Init ==
  /\ enqueued = {}
  /\ queue = <<>>
  /\ run = [w \in Workers |-> IdleRun]
  /\ rows = {}
  /\ wire = {}
  /\ answered = {}
  /\ lost = {}

-----------------------------------------------------------------------------
Account(w) == Head(run[w].todo)

\* The attempt worker w is at: it tells the requests of all retries apart.
Current(w) == [job |-> run[w].job, account |-> Account(w), attempt |-> run[w].attempt]

\* Some row has the idempotency key of this order, account and request type.
KeyExists(order, account) ==
  \E row \in rows : row.order = order /\ row.account = account

At(w, pc) == run[w].pc = pc

Goto(w, pc) == run' = [run EXCEPT ![w].pc = pc]

Finish(w, result, retries) ==
  run' = [run EXCEPT ![w].pc = "save", ![w].result = result, ![w].attempt = retries]

\* The next target of a job, or the end of handle_job.
Target(job, todo) ==
  IF todo = <<>> THEN IdleRun
  ELSE [job |-> job, todo |-> todo, pc |-> "lookup", attempt |-> 0, result |-> "none"]

-----------------------------------------------------------------------------
\* The producer is not part of the repository; it may push a master order
\* again under another message.
Enqueue(job) ==
  /\ job \notin enqueued
  /\ enqueued' = enqueued \cup {job}
  /\ queue' = Append(queue, job)
  /\ UNCHANGED <<run, rows, wire, answered, lost>>

Pop(w) ==
  /\ At(w, "idle")
  /\ queue # <<>>
  /\ queue' = Tail(queue)
  /\ run' = [run EXCEPT ![w] = Target(Head(queue), TargetsOf[Head(queue)])]
  /\ UNCHANGED <<enqueued, rows, wire, answered, lost>>

\* order_exists: a known key makes the result SKIPPED without a send.
Lookup(w) ==
  /\ At(w, "lookup")
  /\ IF KeyExists(OrderOf[run[w].job], Account(w))
       THEN Finish(w, "SKIPPED", 0)
       ELSE Goto(w, "risk")
  /\ UNCHANGED <<enqueued, queue, rows, wire, answered, lost>>

\* validate_risk rejects the target, or copy_order_payload prepares the order.
RiskCheck(w) ==
  /\ At(w, "risk")
  /\ \/ Finish(w, "SKIPPED", 0)
     \/ Goto(w, "send")
  /\ UNCHANGED <<enqueued, queue, rows, wire, answered, lost>>

Send(w) ==
  /\ At(w, "send")
  /\ wire' = wire \cup {Current(w)}
  /\ Goto(w, "answer")
  /\ UNCHANGED <<enqueued, queue, rows, answered, lost>>

\* broker-router carries out a request even when its caller has given up.  Any
\* 2xx reply of the broker is answered with ok: one whose body declines the
\* order looks the same to everybody.
BrokerAnswers(order) ==
  /\ order \in wire
  /\ wire' = wire \ {order}
  /\ answered' = answered \cup {order}
  /\ UNCHANGED <<enqueued, queue, run, rows, lost>>

\* An error status of the broker, or of broker-router before it.
BrokerRefuses(order) ==
  /\ order \in wire
  /\ wire' = wire \ {order}
  /\ UNCHANGED <<enqueued, queue, run, rows, answered, lost>>

\* Any exception: again after a pause, or FAILED after the last attempt.
RetryOrFail(w) ==
  \/ /\ run[w].attempt < MaxRetries
     /\ run' = [run EXCEPT ![w].pc = "send", ![w].attempt = @ + 1]
  \/ /\ run[w].attempt >= MaxRetries
     /\ Finish(w, "FAILED", MaxRetries)

AnswerSuccess(w) ==
  /\ At(w, "answer")
  /\ Current(w) \in answered
  /\ Finish(w, "SUCCESS", run[w].attempt)
  /\ UNCHANGED <<enqueued, queue, rows, wire, answered, lost>>

AnswerError(w) ==
  /\ At(w, "answer")
  /\ Current(w) \notin wire \cup answered
  /\ RetryOrFail(w)
  /\ UNCHANGED <<enqueued, queue, rows, wire, answered, lost>>

\* Mutation: a call that times out counts as carried out.
AnswerLostIsSuccess(w) ==
  /\ "network" \in Faults
  /\ At(w, "answer")
  /\ Finish(w, "SUCCESS", run[w].attempt)
  /\ lost' = lost \cup {Current(w)}
  /\ UNCHANGED <<enqueued, queue, rows, wire, answered>>

AnswerLost(w) ==
  /\ "network" \in Faults
  /\ At(w, "answer")
  /\ RetryOrFail(w)
  /\ lost' = lost \cup {Current(w)}
  /\ UNCHANGED <<enqueued, queue, rows, wire, answered>>

\* Mutation: copy_orders without its unique key.
SaveUnchecked(w) ==
  /\ At(w, "save")
  /\ rows' = rows \cup {[order |-> OrderOf[run[w].job], account |-> Account(w),
                         status |-> run[w].result, retries |-> run[w].attempt]}
  /\ run' = [run EXCEPT ![w] = Target(run[w].job, Tail(run[w].todo))]
  /\ UNCHANGED <<enqueued, queue, wire, answered, lost>>

\* The insert of the result; idempotency_key is unique.
Save(w) ==
  /\ At(w, "save")
  /\ ~KeyExists(OrderOf[run[w].job], Account(w))
  /\ rows' = rows \cup {[order |-> OrderOf[run[w].job], account |-> Account(w),
                         status |-> run[w].result, retries |-> run[w].attempt]}
  /\ run' = [run EXCEPT ![w] = Target(run[w].job, Tail(run[w].todo))]
  /\ UNCHANGED <<enqueued, queue, wire, answered, lost>>

\* What a dying worker knew of its current attempt is lost.
Die(w) ==
  /\ run' = [run EXCEPT ![w] = IdleRun]
  /\ lost' = IF At(w, "answer") \/ (At(w, "save") /\ run[w].result # "SKIPPED")
             THEN lost \cup {Current(w)} ELSE lost

\* Mutation: the insert that violates the key is tried for ever.
SaveConflictRetried(w) ==
  /\ At(w, "save")
  /\ KeyExists(OrderOf[run[w].job], Account(w))
  /\ UNCHANGED vars

\* The insert violates the unique key: the IntegrityError leaves run_forever.
SaveConflict(w) ==
  /\ At(w, "save")
  /\ KeyExists(OrderOf[run[w].job], Account(w))
  /\ Die(w)
  /\ UNCHANGED <<enqueued, queue, rows, wire, answered>>

\* A crash, or any other exception (a malformed job, a broken database).
Exit(w) ==
  /\ "exit" \in Faults
  /\ ~At(w, "idle")
  /\ Die(w)
  /\ UNCHANGED <<enqueued, queue, rows, wire, answered>>

-----------------------------------------------------------------------------
Work(w) ==
  \/ Pop(w)
  \/ Lookup(w)
  \/ RiskCheck(w)
  \/ Send(w)
  \/ AnswerSuccess(w)
  \/ AnswerError(w)
  \/ AnswerLost(w)
  \/ Save(w)
  \/ SaveConflict(w)

Broker == \E order \in wire : BrokerAnswers(order) \/ BrokerRefuses(order)

Next ==
  \/ \E job \in Jobs : Enqueue(job)
  \/ \E w \in Workers : Work(w) \/ Exit(w)
  \/ Broker

Spec == Init /\ [][Next]_vars

\* A supervised worker goes on with whatever its await returned (its HTTP
\* client gives up after 30 seconds), and broker-router ends every request.
FairSpec == Spec /\ (\A w \in Workers : WF_vars(Work(w))) /\ WF_vars(Broker)

-----------------------------------------------------------------------------
(* Properties.                                                             *)

\* The (master order, request type, account) an attempt is for.
Key(order) == <<OrderOf[order.job], order.account>>

\* A worker waits for the answer of the attempt, or has it and has not stored
\* the row.
InHand(order) ==
  \E w \in Workers :
    /\ At(w, "answer") \/ (At(w, "save") /\ run[w].result = "SUCCESS")
    /\ order = Current(w)

\* Past the lookup of a key that has no row yet.
Claiming(w) ==
  /\ run[w].pc \in {"risk", "send", "answer", "save"}
  /\ ~KeyExists(OrderOf[run[w].job], Account(w))

\* No two workers claim the same key: what neither the lookup nor the unique
\* constraint ensures, as lookup and insert are apart.
KeysApart ==
  \A v, w \in Workers :
    /\ Claiming(v) /\ Claiming(w)
    /\ OrderOf[run[v].job] = OrderOf[run[w].job]
    /\ Account(v) = Account(w)
    => v = w

(***************************************************************************)
(* Two requests for a child order are carried out only if no row tells of  *)
(* one of them: the worker never learnt of it (a timed-out call that it    *)
(* retries, its own death before the row is stored and the job's           *)
(* repetition), or a second worker has it in hand and will die of the      *)
(* duplicate key.  Repeated queue messages alone never double an order.    *)
(***************************************************************************)
OnlyLostAnswersDouble ==
  \A p, q \in answered :
    Key(p) = Key(q) /\ p # q => \E o \in {p, q} : o \in lost \/ InHand(o)

(***************************************************************************)
(* A row tells what was heard.  SUCCESS names an attempt whose answer came *)
(* and was a success (the broker may still have declined the order in the  *)
(* body of its answer); over any other row every attempt of the key that   *)
(* was carried out is one nobody heard of, or one that a second worker has *)
(* in hand.                                                                *)
(***************************************************************************)
RowsTellWhatWasHeard ==
  \A row \in rows :
    LET ofKey == {p \in answered : Key(p) = <<row.order, row.account>>}
    IN  IF row.status = "SUCCESS"
          THEN \E p \in ofKey : p.attempt = row.retries /\ p \notin lost
          ELSE \A p \in ofKey : p \in lost \/ InHand(p)

(***************************************************************************)
(* While no two workers claim a key, a lookup is as good as a lock: of the *)
(* requests carried out at most one was ever heard of, and it is the one   *)
(* its row tells of.                                                       *)
(***************************************************************************)
HeardOnce ==
  /\ \A p, q \in answered \ lost : Key(p) = Key(q) => p = q
  /\ \A row \in rows, p \in answered \ lost :
       Key(p) = <<row.order, row.account>> => row.status = "SUCCESS" /\ p.attempt = row.retries

(***************************************************************************)
(* Every job is worked off or abandoned, and the worker goes back to the   *)
(* queue: retries end, and neither a duplicate key nor a lost answer       *)
(* leaves it stuck.                                                        *)
(***************************************************************************)
QueueDrains ==
  (queue # <<>>) ~> (queue = <<>> /\ \A w \in Workers : At(w, "idle"))

(***************************************************************************)
(* "If copy_orders already contains this key ... a SKIPPED copy order is   *)
(* saved": whatever the result, leaving the save step stores a row.        *)
(***************************************************************************)
EveryResultStored ==
  [][\A w \in Workers : At(w, "save") /\ run'[w] # run[w] => rows' # rows]_vars
=============================================================================
