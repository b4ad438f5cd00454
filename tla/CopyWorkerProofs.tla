-------------------------- MODULE CopyWorkerProofs --------------------------
(***************************************************************************)
(* Proofs about CopyWorker, for any number of workers and any jobs,        *)
(* targets, retries and faults: the types, what a doubled order and a      *)
(* stored row mean, and what more holds while no two workers claim a key.  *)
(***************************************************************************)
EXTENDS CopyWorker, TLAPS

-----------------------------------------------------------------------------
(***************************************************************************)
(* The inductive invariant.                                                *)
(***************************************************************************)
Runs ==
  [job : Jobs \cup {NoJob}, todo : Seq(Accounts),
   pc : {"idle", "lookup", "risk", "send", "answer", "save"},
   attempt : 0 .. MaxRetries, result : Results \cup {"none"}]

Busy(w) == run[w].pc # "idle"

\* A worker that is not idle has a job and a target, and a result to save.
BusyOK ==
  \A w \in Workers :
    /\ Busy(w) => run[w].job \in Jobs /\ run[w].todo # <<>>
    /\ run[w].pc = "save" => run[w].result \in Results

TypeInv == TypeOK /\ BusyOK

Sent == wire \cup answered \cup lost

IsCurrent(p, w) ==
  /\ p.job = run[w].job /\ p.account = Head(run[w].todo)
  /\ p.attempt = run[w].attempt

Keyed(p) == \E row \in rows : row.order = OrderOf[p.job] /\ row.account = p.account

\* A job is in the queue, with one worker, or done with; never two of these.
QueueOK ==
  /\ \A i, j \in 1..Len(queue) : queue[i] = queue[j] => i = j
  /\ \A i \in 1..Len(queue) : queue[i] \in enqueued
  /\ \A w \in Workers : Busy(w) =>
       run[w].job \in enqueued /\ \A i \in 1..Len(queue) : queue[i] # run[w].job
  /\ \A v, w \in Workers : Busy(v) /\ Busy(w) /\ run[v].job = run[w].job => v = w
  /\ \A p \in Sent : p.job \in enqueued /\ \A i \in 1..Len(queue) : queue[i] # p.job

\* Past a lookup that found no row, and until the result is stored.
Unkeyed(w) ==
  \/ run[w].pc \in {"risk", "send", "answer"}
  \/ run[w].pc = "save" /\ run[w].result # "SKIPPED"

\* The worker is past the lookup for the target that p was sent to.
Repeats(w, p) == Unkeyed(w) /\ p.job = run[w].job /\ p.account = Head(run[w].todo)

\* What was sent for the worker's job: targets it is through with, and the
\* earlier attempts of the present one.
SentFor(w, p) ==
  \/ Keyed(p) /\ ~Repeats(w, p)
  \/ /\ p.account = Head(run[w].todo)
     /\ run[w].pc \in {"send", "answer", "save"}
     /\ p.attempt <= run[w].attempt
     /\ run[w].pc = "send" => p.attempt < run[w].attempt

SentOK ==
  \A w \in Workers, p \in Sent : Busy(w) /\ p.job = run[w].job => SentFor(w, p)

\* A worker waits for the attempt, or for the chance to store its success.
Awaits(w, p) == run[w].pc = "answer" /\ IsCurrent(p, w)
Reports(w, p) == run[w].pc = "save" /\ run[w].result = "SUCCESS" /\ IsCurrent(p, w)

\* A SUCCESS row has the attempt's key.
Succeeded(p) ==
  \E row \in rows :
    row.order = OrderOf[p.job] /\ row.account = p.account /\ row.status = "SUCCESS"

\* An attempt that is not lost is a worker's, or has a SUCCESS row.
HeardOK ==
  \A p \in (wire \cup answered) \ lost :
    \/ \E w \in Workers : Awaits(w, p)
    \/ p \in answered /\ ((\E w \in Workers : Reports(w, p)) \/ Succeeded(p))

\* A worker waits for an attempt that is not lost, and reports a success of
\* one that was carried out.
KnownOK ==
  \A w \in Workers :
    /\ \A p \in lost : ~Awaits(w, p)
    /\ run[w].pc = "save" /\ run[w].result = "SUCCESS" =>
         \E p \in answered \ lost : IsCurrent(p, w)

\* The attempt a SUCCESS row tells of: no worker will send it again.
Tells(row, p) ==
  /\ row.order = OrderOf[p.job] /\ row.account = p.account
  /\ p.attempt = row.retries
  /\ \A w \in Workers : ~Repeats(w, p)

SuccessOK ==
  \A row \in rows : row.status = "SUCCESS" => \E p \in answered \ lost : Tells(row, p)

\* The two properties, with what is in hand named by its worker.
Held(p) == \E w \in Workers : Awaits(w, p) \/ Reports(w, p)

DoubleOK ==
  \A p, q \in answered :
    Key(p) = Key(q) /\ p # q => \E o \in {p, q} : o \in lost \/ Held(o)

FailedOK ==
  \A row \in rows, p \in answered :
    row.status # "SUCCESS" /\ row.order = OrderOf[p.job] /\ row.account = p.account
      => p \in lost \/ Held(p)

Truth == SentOK /\ HeardOK /\ KnownOK /\ SuccessOK /\ DoubleOK /\ FailedOK

IInv == TypeInv /\ QueueOK /\ Truth

-----------------------------------------------------------------------------
(***************************************************************************)
(* Types, for any number of workers.                                       *)
(***************************************************************************)
\* What a change of one worker's record leaves in place.
LEMMA RunUpdate ==
  ASSUME TypeOK, NEW w \in Workers, NEW r \in Runs,
         r.pc # "idle" => r.job \in Jobs /\ r.todo # <<>>,
         r.pc = "save" => r.result \in Results, BusyOK,
         run' = [run EXCEPT ![w] = r]
  PROVE  run' \in [Workers -> Runs] /\ BusyOK'
<1>1. run \in [Workers -> Runs]  BY DEF TypeOK, Runs
<1>2. run' \in [Workers -> Runs]  BY <1>1
<1>3. \A u \in Workers : run'[u] = IF u = w THEN r ELSE run[u]  BY <1>1
<1> QED  BY <1>2, <1>3 DEF BusyOK, Busy

\* Goto and Finish change the named fields and no others.
LEMMA GotoIs ==
  ASSUME TypeOK, NEW w \in Workers, NEW pc \in {"idle", "lookup", "risk", "send", "answer", "save"},
         Goto(w, pc)
  PROVE  \E r \in Runs :
           /\ run' = [run EXCEPT ![w] = r]
           /\ r.job = run[w].job /\ r.todo = run[w].todo /\ r.pc = pc
           /\ r.attempt = run[w].attempt /\ r.result = run[w].result
<1> DEFINE r == [run[w] EXCEPT !.pc = pc]
<1>1. run \in [Workers -> Runs]  BY DEF TypeOK, Runs
<1>2. r \in Runs  BY <1>1 DEF Runs
<1>3. run' = [run EXCEPT ![w] = r]  BY DEF Goto
<1>4. /\ r.job = run[w].job /\ r.todo = run[w].todo /\ r.pc = pc
      /\ r.attempt = run[w].attempt /\ r.result = run[w].result
  BY <1>1 DEF Runs
<1> HIDE DEF r
<1> QED  BY <1>2, <1>3, <1>4, Zenon

LEMMA FinishIs ==
  ASSUME TypeOK, NEW w \in Workers, NEW result \in Results, NEW n \in 0 .. MaxRetries,
         Finish(w, result, n)
  PROVE  \E r \in Runs :
           /\ run' = [run EXCEPT ![w] = r]
           /\ r.job = run[w].job /\ r.todo = run[w].todo /\ r.pc = "save"
           /\ r.attempt = n /\ r.result = result
<1> DEFINE r == [run[w] EXCEPT !.pc = "save", !.result = result, !.attempt = n]
<1>1. run \in [Workers -> Runs]  BY DEF TypeOK, Runs
<1>2. r \in Runs  BY <1>1 DEF Runs
<1>3. run' = [run EXCEPT ![w] = r]  BY DEF Finish
<1>4. /\ r.job = run[w].job /\ r.todo = run[w].todo /\ r.pc = "save"
      /\ r.attempt = n /\ r.result = result
  BY <1>1 DEF Runs
<1> HIDE DEF r
<1> QED  BY <1>2, <1>3, <1>4, Zenon

\* A failed attempt is followed by the next one or by the FAILED result.
LEMMA RetryIs ==
  ASSUME TypeOK, NEW w \in Workers, RetryOrFail(w)
  PROVE  \E r \in Runs :
           /\ run' = [run EXCEPT ![w] = r]
           /\ r.job = run[w].job /\ r.todo = run[w].todo
           /\ \/ r.pc = "send" /\ r.attempt = run[w].attempt + 1
              \/ r.pc = "save" /\ r.result = "FAILED" /\ r.attempt = MaxRetries
<1>1. run \in [Workers -> Runs]  BY DEF TypeOK, Runs
<1>2. CASE run[w].attempt < MaxRetries
  <2> DEFINE n == run[w].attempt + 1
             r == [run[w] EXCEPT !.pc = "send", !.attempt = n]
  <2>1. n \in 0 .. MaxRetries /\ n = run[w].attempt + 1
    BY <1>1, <1>2, RetriesAssumption DEF Runs
  <2>2. run' = [run EXCEPT ![w] = [run[w] EXCEPT !.pc = "send", !.attempt = n]]
    BY <1>1, <1>2, RetriesAssumption DEF RetryOrFail, Runs
  <2> HIDE DEF n
  <2>3. r \in Runs  BY <1>1, <2>1 DEF Runs
  <2>4. /\ r.job = run[w].job /\ r.todo = run[w].todo /\ r.pc = "send"
        /\ r.attempt = run[w].attempt + 1
    BY <1>1, <2>1 DEF Runs
  <2> HIDE DEF r
  <2>5. run' = [run EXCEPT ![w] = r]  BY <2>2 DEF r
  <2> WITNESS r \in Runs
  <2> QED  BY <2>4, <2>5, Zenon
<1>3. CASE ~(run[w].attempt < MaxRetries)
  <2>1. Finish(w, "FAILED", MaxRetries)
    BY <1>1, <1>3, RetriesAssumption DEF RetryOrFail, Runs
  <2>2. MaxRetries \in 0 .. MaxRetries /\ "FAILED" \in Results
    BY RetriesAssumption DEF Results
  <2>3. PICK r \in Runs :
          /\ run' = [run EXCEPT ![w] = r]
          /\ r.job = run[w].job /\ r.todo = run[w].todo /\ r.pc = "save"
          /\ r.attempt = MaxRetries /\ r.result = "FAILED"
    BY <2>1, <2>2, FinishIs
  <2> WITNESS r \in Runs
  <2> QED  BY <2>3, Zenon
<1> QED  BY <1>2, <1>3

\* The record of a worker that goes on to the next target.
LEMMA TargetIs ==
  ASSUME NEW job \in Jobs, NEW todo \in Seq(Accounts)
  PROVE  /\ Target(job, todo) \in Runs
         /\ Target(job, todo).pc = IF todo = <<>> THEN "idle" ELSE "lookup"
         /\ Target(job, todo).pc # "idle" =>
              /\ Target(job, todo).job = job
              /\ Target(job, todo).todo = todo
BY RetriesAssumption DEF Target, Runs, IdleRun

\* The next attempts a worker's step may add to wire, or to lost.
LEMMA CurrentTyped ==
  ASSUME TypeInv, NEW w \in Workers, Busy(w)
  PROVE  Current(w) \in Attempts
<1>1. /\ run[w] \in Runs /\ run[w].job \in Jobs /\ run[w].todo # <<>>
  BY DEF TypeInv, TypeOK, BusyOK, Runs
<1>2. Head(run[w].todo) \in Accounts  BY <1>1 DEF Runs
<1> QED  BY <1>1, <1>2 DEF Current, Account, Attempts, Runs

\* The worker's record after a step of its own, and what the step left alone.
Moves(w, r) ==
  /\ run' = [run EXCEPT ![w] = r]
  /\ r \in Runs
  /\ r.pc # "idle" => r.job \in Jobs /\ r.todo # <<>>
  /\ r.pc = "save" => r.result \in Results

LEMMA MovesIs ==
  ASSUME TypeInv, NEW w \in Workers, NEW r, Moves(w, r)
  PROVE  /\ run'[w] = r
         /\ \A u \in Workers : u # w => run'[u] = run[u]
         /\ run' \in [Workers -> Runs] /\ BusyOK'
<1>1. run \in [Workers -> Runs]  BY DEF TypeInv, TypeOK, Runs
<1>2. run' \in [Workers -> Runs] /\ BusyOK'
  BY RunUpdate DEF Moves, TypeInv
<1> QED  BY <1>1, <1>2 DEF Moves

\* Each step of a worker, its record after it and the rest of the state.
LEMMA PopIs ==
  ASSUME TypeInv, NEW w \in Workers, Pop(w)
  PROVE  \E r : /\ Moves(w, r)
                /\ r.pc \in {"idle", "lookup"}
                /\ r.pc # "idle" => r.job = queue[1]
<1> DEFINE job == Head(queue)
           r == Target(job, TargetsOf[job])
<1>1. job \in Jobs /\ job = queue[1]  BY DEF Pop, TypeInv, TypeOK
<1>2. TargetsOf[job] \in Seq(Accounts)  BY <1>1, JobsAssumption
<1>3. /\ r \in Runs
      /\ r.pc = IF TargetsOf[job] = <<>> THEN "idle" ELSE "lookup"
      /\ r.pc # "idle" => r.job = job /\ r.todo = TargetsOf[job]
  BY <1>1, <1>2, TargetIs
<1>4. run' = [run EXCEPT ![w] = r]  BY DEF Pop
<1> HIDE DEF r, job
<1>5. Moves(w, r)  BY <1>1, <1>3, <1>4 DEF Moves
<1>6. r.pc \in {"idle", "lookup"} /\ (r.pc # "idle" => r.job = queue[1])
  BY <1>1, <1>3
<1> QED  BY <1>5, <1>6

LEMMA LookupIs ==
  ASSUME TypeInv, NEW w \in Workers, Lookup(w)
  PROVE  \E r : /\ Moves(w, r)
                /\ r.job = run[w].job /\ r.todo = run[w].todo
                /\ \/ r.pc = "risk" /\ ~KeyExists(OrderOf[run[w].job], Account(w))
                   \/ r.pc = "save" /\ r.result = "SKIPPED"
<1>1. run[w].job \in Jobs /\ run[w].todo # <<>>
  BY DEF Lookup, At, TypeInv, BusyOK, Busy
<1>2. CASE KeyExists(OrderOf[run[w].job], Account(w))
  <2>1. Finish(w, "SKIPPED", 0)  BY <1>2 DEF Lookup
  <2>2. "SKIPPED" \in Results /\ 0 \in 0 .. MaxRetries
    BY RetriesAssumption DEF Results
  <2> QED  BY <1>1, <2>1, <2>2, FinishIs DEF Moves, TypeInv
<1>3. CASE ~KeyExists(OrderOf[run[w].job], Account(w))
  <2>1. Goto(w, "risk")  BY <1>3 DEF Lookup
  <2> QED  BY <1>1, <1>3, <2>1, GotoIs DEF Moves, TypeInv
<1> QED  BY <1>2, <1>3

LEMMA RiskCheckIs ==
  ASSUME TypeInv, NEW w \in Workers, RiskCheck(w)
  PROVE  \E r : /\ Moves(w, r)
                /\ r.job = run[w].job /\ r.todo = run[w].todo
                /\ \/ r.pc = "send"
                   \/ r.pc = "save" /\ r.result = "SKIPPED"
<1>1. run[w].job \in Jobs /\ run[w].todo # <<>>
  BY DEF RiskCheck, At, TypeInv, BusyOK, Busy
<1>2. CASE Finish(w, "SKIPPED", 0)
  <2>1. "SKIPPED" \in Results /\ 0 \in 0 .. MaxRetries
    BY RetriesAssumption DEF Results
  <2> QED  BY <1>1, <1>2, <2>1, FinishIs DEF Moves, TypeInv
<1>3. CASE Goto(w, "send")
  BY <1>1, <1>3, GotoIs DEF Moves, TypeInv
<1> QED  BY <1>2, <1>3 DEF RiskCheck

LEMMA SendIs ==
  ASSUME TypeInv, NEW w \in Workers, Send(w)
  PROVE  \E r : /\ Moves(w, r)
                /\ r.job = run[w].job /\ r.todo = run[w].todo
                /\ r.pc = "answer" /\ r.attempt = run[w].attempt
<1>1. run[w].job \in Jobs /\ run[w].todo # <<>>
  BY DEF Send, At, TypeInv, BusyOK, Busy
<1>2. Goto(w, "answer")  BY DEF Send
<1> QED  BY <1>1, <1>2, GotoIs DEF Moves, TypeInv

LEMMA AnswerSuccessIs ==
  ASSUME TypeInv, NEW w \in Workers, AnswerSuccess(w)
  PROVE  \E r : /\ Moves(w, r)
                /\ r.job = run[w].job /\ r.todo = run[w].todo
                /\ r.pc = "save" /\ r.result = "SUCCESS"
                /\ r.attempt = run[w].attempt
<1>1. run[w].job \in Jobs /\ run[w].todo # <<>>
  BY DEF AnswerSuccess, At, TypeInv, BusyOK, Busy
<1>2. "SUCCESS" \in Results /\ run[w].attempt \in 0 .. MaxRetries
  BY DEF Results, TypeInv, TypeOK
<1>3. Finish(w, "SUCCESS", run[w].attempt)  BY DEF AnswerSuccess
<1> QED  BY <1>1, <1>2, <1>3, FinishIs DEF Moves, TypeInv

LEMMA RetryMoves ==
  ASSUME TypeInv, NEW w \in Workers, At(w, "answer"), RetryOrFail(w)
  PROVE  \E r : /\ Moves(w, r)
                /\ r.job = run[w].job /\ r.todo = run[w].todo
                /\ \/ r.pc = "send" /\ r.attempt = run[w].attempt + 1
                   \/ r.pc = "save" /\ r.result = "FAILED" /\ r.attempt = MaxRetries
<1>1. run[w].job \in Jobs /\ run[w].todo # <<>>
  BY DEF At, TypeInv, BusyOK, Busy
<1> QED  BY <1>1, RetryIs DEF Moves, TypeInv, Results

LEMMA SaveIs ==
  ASSUME TypeInv, NEW w \in Workers, Save(w)
  PROVE  \E r : /\ Moves(w, r)
                /\ r.pc \in {"idle", "lookup"}
                /\ r.pc # "idle" => r.job = run[w].job
<1> DEFINE job == run[w].job
           todo == Tail(run[w].todo)
           r == Target(job, todo)
<1>1. run[w].job \in Jobs /\ run[w].todo # <<>> /\ run[w].todo \in Seq(Accounts)
  BY DEF Save, At, TypeInv, TypeOK, BusyOK, Busy
<1>2. todo \in Seq(Accounts)  BY <1>1
<1>3. run' = [run EXCEPT ![w] = r]  BY DEF Save
<1> HIDE DEF todo
<1>4. /\ r \in Runs
      /\ r.pc = IF todo = <<>> THEN "idle" ELSE "lookup"
      /\ r.pc # "idle" => r.job = job /\ r.todo = todo
  BY <1>1, <1>2, TargetIs
<1> HIDE DEF r
<1>5. Moves(w, r)  BY <1>1, <1>3, <1>4 DEF Moves
<1>6. r.pc \in {"idle", "lookup"} /\ (r.pc # "idle" => r.job = run[w].job)
  BY <1>4
<1> QED  BY <1>5, <1>6

LEMMA DieIs ==
  ASSUME TypeInv, NEW w \in Workers, Die(w)
  PROVE  \E r : Moves(w, r) /\ r.pc = "idle"
<1>1. IdleRun \in Runs /\ IdleRun.pc = "idle"
  BY RetriesAssumption DEF IdleRun, Runs
<1> QED  BY <1>1 DEF Die, Moves

\* The initial state has the types.
LEMMA TypeInit == Init => TypeInv
<1> SUFFICES ASSUME Init PROVE TypeInv  OBVIOUS
<1>1. IdleRun \in Runs /\ IdleRun.pc = "idle"
  BY RetriesAssumption DEF IdleRun, Runs
<1> QED  BY <1>1 DEF Init, TypeInv, TypeOK, BusyOK, Busy, Runs

\* Every step keeps the types.
LEMMA TypeStep == TypeInv /\ [Next]_vars => TypeInv'
<1> SUFFICES ASSUME TypeInv, [Next]_vars PROVE TypeInv'  OBVIOUS
<1> USE DEF Runs
<1>1. ASSUME NEW job \in Jobs, Enqueue(job) PROVE TypeInv'
  <2>1. queue' \in Seq(Jobs)  BY <1>1 DEF Enqueue, TypeInv, TypeOK
  <2> QED  BY <1>1, <2>1 DEF Enqueue, TypeInv, TypeOK, BusyOK, Busy
<1>2. ASSUME NEW w \in Workers, Pop(w) PROVE TypeInv'
  <2>1. queue' \in Seq(Jobs)  BY <1>2 DEF Pop, TypeInv, TypeOK
  <2>2. run' \in [Workers -> Runs] /\ BusyOK'  BY <1>2, PopIs, MovesIs
  <2> QED  BY <1>2, <2>1, <2>2 DEF Pop, TypeInv, TypeOK
<1>3. ASSUME NEW w \in Workers, Lookup(w) PROVE TypeInv'
  <2>1. run' \in [Workers -> Runs] /\ BusyOK'  BY <1>3, LookupIs, MovesIs
  <2> QED  BY <1>3, <2>1 DEF Lookup, TypeInv, TypeOK
<1>4. ASSUME NEW w \in Workers, RiskCheck(w) PROVE TypeInv'
  <2>1. run' \in [Workers -> Runs] /\ BusyOK'  BY <1>4, RiskCheckIs, MovesIs
  <2> QED  BY <1>4, <2>1 DEF RiskCheck, TypeInv, TypeOK
<1>5. ASSUME NEW w \in Workers, Send(w) PROVE TypeInv'
  <2>1. run' \in [Workers -> Runs] /\ BusyOK'  BY <1>5, SendIs, MovesIs
  <2>2. Current(w) \in Attempts  BY <1>5, CurrentTyped DEF Send, At, Busy
  <2> QED  BY <1>5, <2>1, <2>2 DEF Send, TypeInv, TypeOK
<1>6. ASSUME NEW w \in Workers, AnswerSuccess(w) PROVE TypeInv'
  <2>1. run' \in [Workers -> Runs] /\ BusyOK'  BY <1>6, AnswerSuccessIs, MovesIs
  <2> QED  BY <1>6, <2>1 DEF AnswerSuccess, TypeInv, TypeOK
<1>7. ASSUME NEW w \in Workers, AnswerError(w) PROVE TypeInv'
  <2>1. run' \in [Workers -> Runs] /\ BusyOK'
    BY <1>7, RetryMoves, MovesIs DEF AnswerError
  <2> QED  BY <1>7, <2>1 DEF AnswerError, TypeInv, TypeOK
<1>8. ASSUME NEW w \in Workers, AnswerLost(w) PROVE TypeInv'
  <2>1. run' \in [Workers -> Runs] /\ BusyOK'
    BY <1>8, RetryMoves, MovesIs DEF AnswerLost
  <2>2. Current(w) \in Attempts  BY <1>8, CurrentTyped DEF AnswerLost, At, Busy
  <2> QED  BY <1>8, <2>1, <2>2 DEF AnswerLost, TypeInv, TypeOK
<1>9. ASSUME NEW w \in Workers, Save(w) PROVE TypeInv'
  <2>1. run' \in [Workers -> Runs] /\ BusyOK'  BY <1>9, SaveIs, MovesIs
  <2>2. run[w] \in Runs /\ run[w].job \in Jobs /\ run[w].todo # <<>>
        /\ run[w].result \in Results \cup {"none"}
    BY <1>9 DEF Save, At, TypeInv, TypeOK, BusyOK, Busy
  <2>3. rows' \subseteq Rows
    <3>1. OrderOf[run[w].job] \in Orders  BY <2>2, JobsAssumption
    <3>2. Account(w) \in Accounts  BY <2>2 DEF Account
    <3>3. run[w].result \in Results
      BY <1>9 DEF Save, At, TypeInv, BusyOK
    <3>4. [order |-> OrderOf[run[w].job], account |-> Account(w),
           status |-> run[w].result, retries |-> run[w].attempt] \in Rows
      BY <2>2, <3>1, <3>2, <3>3 DEF Rows
    <3> QED  BY <1>9, <3>4 DEF Save, TypeInv, TypeOK
  <2> QED  BY <1>9, <2>1, <2>3 DEF Save, TypeInv, TypeOK
<1>10. ASSUME NEW w \in Workers, Busy(w), Die(w),
              UNCHANGED <<enqueued, queue, rows, wire, answered>>
       PROVE  TypeInv'
  <2>1. run' \in [Workers -> Runs] /\ BusyOK'  BY <1>10, DieIs, MovesIs
  <2>2. Current(w) \in Attempts  BY <1>10, CurrentTyped
  <2>3. lost' \subseteq Attempts  BY <1>10, <2>2 DEF Die, TypeInv, TypeOK
  <2> QED  BY <1>10, <2>1, <2>3 DEF TypeInv, TypeOK
<1>11. ASSUME NEW w \in Workers, SaveConflict(w) PROVE TypeInv'
  BY <1>10, <1>11 DEF SaveConflict, At, Busy
<1>12. ASSUME NEW w \in Workers, Exit(w) PROVE TypeInv'
  BY <1>10, <1>12 DEF Exit, At, Busy
<1>13. ASSUME NEW order \in wire, BrokerAnswers(order) \/ BrokerRefuses(order)
       PROVE  TypeInv'
  BY <1>13 DEF BrokerAnswers, BrokerRefuses, TypeInv, TypeOK, BusyOK, Busy
<1>14. CASE UNCHANGED vars
  BY <1>14 DEF vars, TypeInv, TypeOK, BusyOK, Busy
<1> QED
  BY <1>1, <1>2, <1>3, <1>4, <1>5, <1>6, <1>7, <1>8, <1>9, <1>11, <1>12, <1>13, <1>14
  DEF Next, Work, Broker

(***************************************************************************)
(* TypeOK for every set of workers, jobs and targets: no step stores an    *)
(* unfinished result, retries past max_copy_retries or asks for the head   *)
(* of an empty target list.                                                *)
(***************************************************************************)
THEOREM TypeCorrect == Spec => []TypeOK
<1>1. TypeInv => TypeOK  BY DEF TypeInv
<1> QED  BY TypeInit, TypeStep, <1>1, PTL DEF Spec

-----------------------------------------------------------------------------
(***************************************************************************)
(* The queue and the jobs of what was sent.                                *)
(***************************************************************************)
\* A worker's step that takes nothing off the queue and sends only for its job.
LEMMA QueueKept ==
  ASSUME TypeInv, QueueOK, NEW w \in Workers, Busy(w), NEW r, Moves(w, r),
         r.pc # "idle" => r.job = run[w].job,
         \A p \in Sent' : p \in Sent \/ p.job = run[w].job,
         UNCHANGED <<enqueued, queue>>
  PROVE  QueueOK'
<1>1. /\ run'[w] = r
      /\ \A u \in Workers : u # w => run'[u] = run[u]
  BY MovesIs
<1>2. /\ run[w].job \in enqueued
      /\ \A i \in 1..Len(queue) : queue[i] # run[w].job
  BY DEF QueueOK
<1>3. /\ \A i, j \in 1..Len(queue)' : queue'[i] = queue'[j] => i = j
      /\ \A i \in 1..Len(queue)' : queue'[i] \in enqueued'
  BY DEF QueueOK
<1>4. \A u \in Workers : Busy(u)' =>
        run'[u].job \in enqueued' /\ \A i \in 1..Len(queue)' : queue'[i] # run'[u].job
  BY <1>1, <1>2 DEF QueueOK, Busy
<1>5. \A p \in Sent' : p.job \in enqueued' /\ \A i \in 1..Len(queue)' : queue'[i] # p.job
  BY <1>2 DEF QueueOK
<1>6. \A u, v \in Workers : Busy(u)' /\ Busy(v)' /\ run'[u].job = run'[v].job => u = v
  BY <1>1 DEF QueueOK, Busy
<1> QED  BY <1>3, <1>4, <1>5, <1>6 DEF QueueOK

LEMMA QueueStep == TypeInv /\ QueueOK /\ [Next]_vars => QueueOK'
<1> SUFFICES ASSUME TypeInv, QueueOK, [Next]_vars PROVE QueueOK'  OBVIOUS
<1>1. ASSUME NEW job \in Jobs, Enqueue(job) PROVE QueueOK'
  <2>1. /\ Len(queue') = Len(queue) + 1 /\ Len(queue) \in Nat
        /\ \A i \in 1..Len(queue) : queue'[i] = queue[i]
        /\ queue'[Len(queue) + 1] = job
    BY <1>1 DEF Enqueue, TypeInv, TypeOK
  <2> QED  BY <1>1, <2>1 DEF Enqueue, QueueOK, Busy, Sent
<1>2. ASSUME NEW w \in Workers, Pop(w) PROVE QueueOK'
  <2>1. /\ Len(queue) \in Nat \ {0} /\ Len(queue') = Len(queue) - 1
        /\ \A i \in 1..Len(queue') : queue'[i] = queue[i + 1]
    BY <1>2 DEF Pop, TypeInv, TypeOK
  <2>2. PICK r : Moves(w, r) /\ (r.pc # "idle" => r.job = queue[1])
    BY <1>2, PopIs
  <2>3. run'[w] = r /\ \A u \in Workers : u # w => run'[u] = run[u]
    BY <2>2, MovesIs
  <2>4. \A i \in 1..Len(queue') : i + 1 \in 1..Len(queue) /\ i + 1 # 1
    BY <2>1
  <2>5. 1 \in 1..Len(queue)  BY <2>1
  <2> QED  BY <1>2, <2>1, <2>2, <2>3, <2>4, <2>5 DEF Pop, QueueOK, Busy, Sent
<1>3. ASSUME NEW w \in Workers, Lookup(w) PROVE QueueOK'
  BY <1>3, LookupIs, QueueKept DEF Lookup, Sent, At, Busy
<1>4. ASSUME NEW w \in Workers, RiskCheck(w) PROVE QueueOK'
  BY <1>4, RiskCheckIs, QueueKept DEF RiskCheck, Sent, At, Busy
<1>5. ASSUME NEW w \in Workers, Send(w) PROVE QueueOK'
  <2>1. \A p \in Sent' : p \in Sent \/ p.job = run[w].job
    BY <1>5 DEF Send, Sent, Current
  <2> QED  BY <1>5, <2>1, SendIs, QueueKept DEF Send, At, Busy
<1>6. ASSUME NEW w \in Workers, AnswerSuccess(w) PROVE QueueOK'
  BY <1>6, AnswerSuccessIs, QueueKept DEF AnswerSuccess, Sent, At, Busy
<1>7. ASSUME NEW w \in Workers, AnswerError(w) PROVE QueueOK'
  BY <1>7, RetryMoves, QueueKept DEF AnswerError, Sent, At, Busy
<1>8. ASSUME NEW w \in Workers, AnswerLost(w) PROVE QueueOK'
  <2>1. \A p \in Sent' : p \in Sent \/ p.job = run[w].job
    BY <1>8 DEF AnswerLost, Sent, Current
  <2> QED  BY <1>8, <2>1, RetryMoves, QueueKept DEF AnswerLost, At, Busy
<1>9. ASSUME NEW w \in Workers, Save(w) PROVE QueueOK'
  BY <1>9, SaveIs, QueueKept DEF Save, Sent, At, Busy
<1>10. ASSUME NEW w \in Workers, Busy(w), Die(w),
              UNCHANGED <<enqueued, queue, rows, wire, answered>>
       PROVE  QueueOK'
  <2>1. \A p \in Sent' : p \in Sent \/ p.job = run[w].job
    BY <1>10 DEF Die, Sent, Current
  <2> QED  BY <1>10, <2>1, DieIs, QueueKept
<1>11. ASSUME NEW w \in Workers, SaveConflict(w) PROVE QueueOK'
  BY <1>10, <1>11 DEF SaveConflict, At, Busy
<1>12. ASSUME NEW w \in Workers, Exit(w) PROVE QueueOK'
  BY <1>10, <1>12 DEF Exit, At, Busy
<1>13. ASSUME NEW order \in wire, BrokerAnswers(order) \/ BrokerRefuses(order)
       PROVE  QueueOK'
  BY <1>13 DEF BrokerAnswers, BrokerRefuses, QueueOK, Busy, Sent
<1>14. CASE UNCHANGED vars
  BY <1>14 DEF vars, QueueOK, Busy, Sent
<1> QED
  BY <1>1, <1>2, <1>3, <1>4, <1>5, <1>6, <1>7, <1>8, <1>9, <1>11, <1>12, <1>13, <1>14
  DEF Next, Work, Broker

-----------------------------------------------------------------------------
(***************************************************************************)
(* What the steps of a worker and of the broker do to rows and attempts.   *)
(***************************************************************************)
\* The attempt is known by its job, account and number.
LEMMA CurrentIs ==
  ASSUME TypeInv, NEW w \in Workers, Busy(w)
  PROVE  /\ IsCurrent(Current(w), w)
         /\ \A p \in wire \cup answered \cup lost : IsCurrent(p, w) => p = Current(w)
<1>1. IsCurrent(Current(w), w)  BY DEF Current, Account, IsCurrent
<1>2. ASSUME NEW p \in wire \cup answered \cup lost, IsCurrent(p, w) PROVE p = Current(w)
  <2>1. p \in Attempts  BY DEF TypeInv, TypeOK
  <2>2. p = [job |-> p.job, account |-> p.account, attempt |-> p.attempt]
    BY <2>1 DEF Attempts
  <2> QED  BY <1>2, <2>2, Zenon DEF IsCurrent, Current, Account
<1> QED  BY <1>1, <1>2

\* A step of one worker leaves what the others wait for and report.
LEMMA Bystanders ==
  ASSUME TypeInv, NEW w \in Workers, NEW r, Moves(w, r)
  PROVE  \A u \in Workers : u # w =>
           /\ Busy(u)' <=> Busy(u)
           /\ \A p : /\ Awaits(u, p)' <=> Awaits(u, p)
                     /\ Reports(u, p)' <=> Reports(u, p)
                     /\ Repeats(u, p)' <=> Repeats(u, p)
BY MovesIs DEF Busy, Awaits, Reports, Repeats, Unkeyed, IsCurrent

\* What the worker knows of the attempts of its target, and nobody else does.
LEMMA SoleHolder ==
  ASSUME IInv, NEW u \in Workers, NEW w \in Workers, NEW p,
         Awaits(u, p) \/ Reports(u, p), Busy(w), p.job = run[w].job
  PROVE  u = w
BY DEF IInv, QueueOK, Awaits, Reports, IsCurrent, Busy

\* What was sent for the other workers' jobs is sent as before.
LEMMA SentKept ==
  ASSUME IInv, NEW w \in Workers, NEW r, Moves(w, r), rows \subseteq rows',
         \A p \in Sent' : p \in Sent \/ (Busy(w) /\ p.job = run[w].job),
         \A p \in Sent' : Busy(w)' /\ p.job = run'[w].job => SentFor(w, p)'
  PROVE  SentOK'
<1> SUFFICES ASSUME NEW u \in Workers, NEW p \in Sent', Busy(u)', p.job = run'[u].job, u # w
             PROVE  SentFor(u, p)'
  BY DEF SentOK
<1>1. run'[u] = run[u]  BY MovesIs DEF IInv
<1>2. p \in Sent
  BY <1>1 DEF IInv, QueueOK, Busy
<1>3. SentFor(u, p)  BY <1>1, <1>2 DEF IInv, Truth, SentOK, Busy
<1> QED  BY <1>1, <1>3 DEF SentFor, Keyed, Repeats, Unkeyed

\* The others' attempts are lost and answered as before.
LEMMA KnownKept ==
  ASSUME IInv, NEW w \in Workers, NEW r, Moves(w, r), answered' = answered,
         lost' = lost \/ (Busy(w) /\ lost' = lost \cup {Current(w)}),
         \A p \in lost' : ~Awaits(w, p)',
         run'[w].pc = "save" /\ run'[w].result = "SUCCESS" =>
           \E p \in answered \ lost' : IsCurrent(p, w)'
  PROVE  KnownOK'
<1> SUFFICES ASSUME NEW u \in Workers, u # w
             PROVE  /\ \A p \in lost' : ~Awaits(u, p)'
                    /\ run'[u].pc = "save" /\ run'[u].result = "SUCCESS" =>
                         \E p \in answered \ lost' : IsCurrent(p, u)'
  BY DEF KnownOK
<1>1. run'[u] = run[u]  BY MovesIs DEF IInv
<1>2. \A p \in lost' : ~Awaits(u, p)'
  <2> SUFFICES ASSUME NEW p \in lost', Awaits(u, p) PROVE FALSE
    BY <1>1 DEF Awaits, IsCurrent
  <2>1. p = Current(w) /\ Busy(w)  BY DEF IInv, Truth, KnownOK
  <2> QED  BY <2>1, CurrentIs, SoleHolder DEF IInv, IsCurrent
<1>3. ASSUME run[u].pc = "save", run[u].result = "SUCCESS"
      PROVE  \E p \in answered \ lost' : IsCurrent(p, u)'
  <2>1. PICK p \in answered \ lost : IsCurrent(p, u)
    BY <1>3 DEF IInv, Truth, KnownOK
  <2>2. p \notin lost'
    <3> SUFFICES ASSUME p = Current(w), Busy(w) PROVE FALSE
      BY <2>1
    <3> QED  BY <1>3, <2>1, CurrentIs, SoleHolder DEF IInv, IsCurrent, Reports
  <2> QED  BY <1>1, <2>1, <2>2 DEF IsCurrent
<1> QED  BY <1>1, <1>2, <1>3

\* A step of a worker on its target.  It stores no row; it keeps what it waits
\* for or reports, or that is lost; and it passes no lookup of a stored key.
LEMMA StepTruth ==
  ASSUME IInv, NEW w \in Workers, Busy(w), NEW r, Moves(w, r),
         r.pc # "idle" => r.job = run[w].job /\ r.todo = run[w].todo,
         UNCHANGED <<rows, answered>>, SentOK', KnownOK',
         Unkeyed(w)' => Unkeyed(w) \/ ~KeyExists(OrderOf[run[w].job], Account(w)),
         lost' \in {lost, lost \cup {Current(w)}}, lost' = lost \/ Unkeyed(w),
         \A p \in wire' : p \in wire \/ Awaits(w, p)',
         \A p \in (wire \cup answered) \ lost' :
           Awaits(w, p) \/ Reports(w, p) => Awaits(w, p)' \/ (p \in answered /\ Reports(w, p)')
  PROVE  Truth'
<1>1. run'[w] = r  BY MovesIs DEF IInv
<1>2. \A u \in Workers : u # w =>
        \A p : /\ Awaits(u, p)' <=> Awaits(u, p)
               /\ Reports(u, p)' <=> Reports(u, p)
               /\ Repeats(u, p)' <=> Repeats(u, p)
  BY Bystanders DEF IInv
<1>3. ASSUME NEW p \in answered, Held(p), p \notin lost' PROVE Held(p)'
  BY <1>2, <1>3 DEF Held
<1>4. HeardOK'
  <2> SUFFICES ASSUME NEW p \in (wire \cup answered) \ lost', ~Awaits(w, p)'
               PROVE  \/ \E u \in Workers : Awaits(u, p)'
                      \/ p \in answered /\ ((\E u \in Workers : Reports(u, p)') \/ Succeeded(p)')
    BY DEF HeardOK
  <2>1. p \notin lost  OBVIOUS
  <2>2. CASE \E u \in Workers : Awaits(u, p)
    BY <1>2, <2>2
  <2>3. CASE p \in answered /\ \E u \in Workers : Reports(u, p)
    BY <1>2, <2>3
  <2>4. CASE p \in answered /\ Succeeded(p)
    BY <2>4 DEF Succeeded
  <2> QED  BY <2>1, <2>2, <2>3, <2>4 DEF IInv, Truth, HeardOK
<1>5. SuccessOK'
  <2> SUFFICES ASSUME NEW row \in rows, row.status = "SUCCESS"
               PROVE  \E p \in answered \ lost' : Tells(row, p)'
    BY DEF SuccessOK
  <2>1. PICK p \in answered \ lost : Tells(row, p)
    BY DEF IInv, Truth, SuccessOK
  <2>2. p \notin lost'
    <3> SUFFICES ASSUME p = Current(w), Unkeyed(w) PROVE FALSE
      BY <2>1
    <3> QED  BY <2>1, CurrentIs DEF IInv, Tells, Repeats, IsCurrent
  <2>3. ~Repeats(w, p)'
    <3> SUFFICES ASSUME Repeats(w, p)' PROVE FALSE  OBVIOUS
    <3>1. Unkeyed(w)' /\ p.job = run[w].job /\ p.account = Head(run[w].todo)
      BY <1>1 DEF Repeats, Unkeyed
    <3>2. KeyExists(OrderOf[run[w].job], Account(w))
      BY <2>1, <3>1 DEF Tells, KeyExists, Account
    <3> QED  BY <2>1, <3>1, <3>2 DEF Tells, Repeats
  <2>4. Tells(row, p)'
    BY <1>2, <2>1, <2>3 DEF Tells
  <2> QED  BY <2>1, <2>2, <2>4
<1>6. DoubleOK'
  <2> SUFFICES ASSUME NEW p \in answered, NEW q \in answered, Key(p) = Key(q), p # q
               PROVE  \E o \in {p, q} : o \in lost' \/ Held(o)'
    BY DEF DoubleOK, Key
  <2>1. PICK o \in {p, q} : o \in lost \/ Held(o)
    BY DEF IInv, Truth, DoubleOK
  <2> QED  BY <1>3, <2>1
<1>7. FailedOK'
  BY <1>3 DEF IInv, Truth, FailedOK
<1> QED  BY <1>4, <1>5, <1>6, <1>7 DEF Truth

\* Nothing of this invariant depends on the queue.
LEMMA EnqueueTruth ==
  ASSUME Truth, NEW job \in Jobs, Enqueue(job)  PROVE Truth'
<1>1. SentOK' /\ HeardOK' /\ KnownOK' /\ SuccessOK'
  BY DEF Enqueue, Truth, SentOK, HeardOK, KnownOK, SuccessOK, Sent, Keyed, Unkeyed, IsCurrent,
         Busy, SentFor, Repeats, Awaits, Reports, Succeeded, Tells
<1>2. DoubleOK' /\ FailedOK'
  BY DEF Enqueue, Truth, DoubleOK, FailedOK, Held, Awaits, Reports, IsCurrent, Key
<1> QED  BY <1>1, <1>2 DEF Truth

\* A new job has nothing sent, and an idle or looking-up worker owes nothing.
LEMMA PopTruth ==
  ASSUME IInv, NEW w \in Workers, Pop(w)  PROVE Truth'
<1>1. PICK r : /\ Moves(w, r) /\ r.pc \in {"idle", "lookup"}
               /\ r.pc # "idle" => r.job = queue[1]
  BY PopIs DEF IInv
<1>2. run'[w] = r  BY <1>1, MovesIs DEF IInv
<1>3. UNCHANGED <<rows, wire, answered, lost>> /\ run[w].pc = "idle"
  BY DEF Pop, At
<1>4. \A p \in Sent : p.job # queue[1]
  <2>1. 1 \in 1..Len(queue)  BY DEF Pop, IInv, TypeInv, TypeOK
  <2> QED  BY <2>1 DEF IInv, QueueOK
<1>5. \A p : \A u \in Workers :
        /\ Awaits(u, p)' <=> Awaits(u, p)
        /\ Reports(u, p)' <=> Reports(u, p)
        /\ Repeats(u, p)' <=> Repeats(u, p)
  <2>1. \A p : ~Awaits(w, p) /\ ~Reports(w, p) /\ ~Repeats(w, p)
    BY <1>3 DEF Awaits, Reports, Repeats, Unkeyed
  <2>2. \A p : ~Awaits(w, p)' /\ ~Reports(w, p)' /\ ~Repeats(w, p)'
    BY <1>1, <1>2 DEF Awaits, Reports, Repeats, Unkeyed
  <2> QED  BY <1>1, <2>1, <2>2, Bystanders DEF IInv
<1>6. SentOK'
  <2>1. \A p \in Sent' : ~(Busy(w)' /\ p.job = run'[w].job)
    BY <1>1, <1>2, <1>3, <1>4 DEF Sent, Busy
  <2> QED  BY <1>1, <1>3, <2>1, SentKept DEF Sent
<1>7. HeardOK' /\ KnownOK' /\ SuccessOK'
  <2>1. HeardOK'  BY <1>3, <1>5 DEF IInv, Truth, HeardOK, Succeeded
  <2>2. KnownOK'
    <3>1. \A p \in lost', u \in Workers : ~Awaits(u, p)'
      BY <1>3, <1>5 DEF IInv, Truth, KnownOK
    <3>2. \A u \in Workers : run'[u].pc = "save" => run'[u] = run[u]
      BY <1>1, <1>2, MovesIs DEF IInv
    <3> QED  BY <1>3, <3>1, <3>2 DEF IInv, Truth, KnownOK, IsCurrent
  <2>3. SuccessOK'  BY <1>3, <1>5 DEF IInv, Truth, SuccessOK, Tells
  <2> QED  BY <2>1, <2>2, <2>3
<1>8. DoubleOK' /\ FailedOK'
  BY <1>3, <1>5 DEF IInv, Truth, DoubleOK, FailedOK, Held, Key
<1> QED  BY <1>6, <1>7, <1>8 DEF Truth

\* The lookup finds the key of every SUCCESS row.
LEMMA LookupTruth ==
  ASSUME IInv, NEW w \in Workers, Lookup(w)  PROVE Truth'
<1>1. PICK r : /\ Moves(w, r) /\ r.job = run[w].job /\ r.todo = run[w].todo
               /\ \/ r.pc = "risk" /\ ~KeyExists(OrderOf[run[w].job], Account(w))
                  \/ r.pc = "save" /\ r.result = "SKIPPED"
  BY LookupIs DEF IInv
<1>2. run'[w] = r  BY <1>1, MovesIs DEF IInv
<1>3. UNCHANGED <<rows, wire, answered, lost>> /\ run[w].pc = "lookup"
  BY DEF Lookup, At
<1>4. SentOK'
  <2>1. ASSUME NEW p \in Sent, p.job = run[w].job PROVE SentFor(w, p)'
    <3>1. Keyed(p)  BY <1>3, <2>1 DEF IInv, Truth, SentOK, SentFor, Busy
    <3>2. ~Repeats(w, p)'
      BY <1>1, <1>2, <3>1 DEF Repeats, Unkeyed, Keyed, KeyExists, Account
    <3> QED  BY <1>3, <3>1, <3>2 DEF SentFor, Keyed
  <2> QED  BY <1>1, <1>2, <1>3, <2>1, SentKept DEF Sent
<1>5. KnownOK'
  BY <1>1, <1>2, <1>3, KnownKept DEF Awaits
<1>6. Unkeyed(w)' => ~KeyExists(OrderOf[run[w].job], Account(w))
  BY <1>1, <1>2 DEF Unkeyed
<1>7. \A p : ~Awaits(w, p) /\ ~Reports(w, p)
  BY <1>3 DEF Awaits, Reports
<1>8. Busy(w)  BY <1>3 DEF Busy
<1> QED  BY <1>1, <1>3, <1>4, <1>5, <1>6, <1>7, <1>8, StepTruth

LEMMA RiskCheckTruth ==
  ASSUME IInv, NEW w \in Workers, RiskCheck(w)  PROVE Truth'
<1>1. PICK r : /\ Moves(w, r) /\ r.job = run[w].job /\ r.todo = run[w].todo
               /\ \/ r.pc = "send"
                  \/ r.pc = "save" /\ r.result = "SKIPPED"
  BY RiskCheckIs DEF IInv
<1>2. run'[w] = r  BY <1>1, MovesIs DEF IInv
<1>3. UNCHANGED <<rows, wire, answered, lost>> /\ run[w].pc = "risk"
  BY DEF RiskCheck, At
<1>4. SentOK'
  <2>1. ASSUME NEW p \in Sent, p.job = run[w].job PROVE SentFor(w, p)'
    <3>1. Keyed(p) /\ ~Repeats(w, p)
      BY <1>3, <2>1 DEF IInv, Truth, SentOK, SentFor, Busy
    <3>2. ~Repeats(w, p)'
      BY <1>1, <1>2, <1>3, <3>1 DEF Repeats, Unkeyed
    <3> QED  BY <1>3, <3>1, <3>2 DEF SentFor, Keyed
  <2> QED  BY <1>1, <1>2, <1>3, <2>1, SentKept DEF Sent
<1>5. KnownOK'
  BY <1>1, <1>2, <1>3, KnownKept DEF Awaits
<1>6. Unkeyed(w) /\ Busy(w)  BY <1>3 DEF Unkeyed, Busy
<1>7. \A p : ~Awaits(w, p) /\ ~Reports(w, p)
  BY <1>3 DEF Awaits, Reports
<1> QED  BY <1>1, <1>3, <1>4, <1>5, <1>6, <1>7, StepTruth

\* The attempt sent is a new one: an earlier one has another target, which the
\* worker is through with, or a lower number.
LEMMA SendTruth ==
  ASSUME IInv, NEW w \in Workers, Send(w)  PROVE Truth'
<1>1. PICK r : /\ Moves(w, r) /\ r.job = run[w].job /\ r.todo = run[w].todo
               /\ r.pc = "answer" /\ r.attempt = run[w].attempt
  BY SendIs DEF IInv
<1>2. run'[w] = r  BY <1>1, MovesIs DEF IInv
<1>c. PICK c : c = Current(w)  OBVIOUS
<1>3. /\ UNCHANGED <<rows, answered, lost>> /\ run[w].pc = "send"
      /\ wire' = wire \cup {c}
  BY <1>c DEF Send, At
<1>4. /\ run[w].attempt \in Int
      /\ \A p \in Sent : p.attempt \in Int
  BY DEF IInv, TypeInv, TypeOK, Attempts, Sent
<1>5. IsCurrent(c, w)
  BY <1>3, <1>c, CurrentIs DEF IInv, Busy
<1>6. SentOK'
  <2>1. ASSUME NEW p \in Sent, p.job = run[w].job PROVE SentFor(w, p)'
    <3>1. SentFor(w, p)  BY <1>3, <2>1 DEF IInv, Truth, SentOK, Busy
    <3>2. CASE Keyed(p) /\ ~Repeats(w, p)
      BY <1>1, <1>2, <1>3, <3>2 DEF SentFor, Keyed, Repeats, Unkeyed
    <3>3. CASE p.account = Head(run[w].todo) /\ p.attempt < run[w].attempt
      BY <1>1, <1>2, <1>4, <3>3 DEF SentFor
    <3> QED  BY <1>3, <3>1, <3>2, <3>3 DEF SentFor
  <2>2. SentFor(w, c)'
    BY <1>1, <1>2, <1>4, <1>5 DEF SentFor, IsCurrent
  <2>3. c.job = run[w].job  BY <1>5 DEF IsCurrent
  <2>5. \A p \in Sent' : p \in Sent \/ p = c
    BY <1>3 DEF Sent
  <2>6. \A p \in Sent' : p.job = run[w].job => SentFor(w, p)'
    BY <2>1, <2>2, <2>5
  <2> QED  BY <1>1, <1>2, <1>3, <2>3, <2>5, <2>6, SentKept DEF Busy
<1>7. \A p \in lost : ~IsCurrent(p, w)
  BY <1>3, <1>4 DEF IInv, Truth, SentOK, SentFor, Repeats, Unkeyed, Sent, Busy, IsCurrent
<1>8. KnownOK'
  <2>1. \A p \in lost : ~Awaits(w, p)'
    BY <1>1, <1>2, <1>7 DEF Awaits, IsCurrent
  <2> QED  BY <1>1, <1>2, <1>3, <2>1, KnownKept
<1>9. Awaits(w, c)'
  BY <1>1, <1>2, <1>5 DEF Awaits, IsCurrent
<1>10. Unkeyed(w) /\ Busy(w)  BY <1>3 DEF Unkeyed, Busy
<1>11. \A p : ~Awaits(w, p) /\ ~Reports(w, p)
  BY <1>3 DEF Awaits, Reports
<1>12. \A p \in wire' : p \in wire \/ Awaits(w, p)'
  BY <1>3, <1>9
<1> QED  BY <1>1, <1>3, <1>6, <1>8, <1>10, <1>11, <1>12, StepTruth

\* An attempt that is carried out is in hand, or lost, or was so before.
LEMMA BrokerAnswersTruth ==
  ASSUME IInv, NEW order \in wire, BrokerAnswers(order)  PROVE Truth'
<1>1. /\ UNCHANGED <<run, rows, lost>> /\ answered' = answered \cup {order}
      /\ wire' = wire \ {order}
  BY DEF BrokerAnswers
<1>2. \A p : \A u \in Workers :
        /\ Awaits(u, p)' <=> Awaits(u, p)
        /\ Reports(u, p)' <=> Reports(u, p)
        /\ Repeats(u, p)' <=> Repeats(u, p)
  BY <1>1 DEF Awaits, Reports, Repeats, Unkeyed, IsCurrent
<1>3. SentOK'
  BY <1>1, <1>2 DEF IInv, Truth, SentOK, SentFor, Sent, Busy, Keyed
<1>4. HeardOK'
  BY <1>1, <1>2 DEF IInv, Truth, HeardOK, Succeeded
<1>5. KnownOK'
  BY <1>1, <1>2 DEF IInv, Truth, KnownOK, IsCurrent
<1>6. SuccessOK'
  BY <1>1, <1>2 DEF IInv, Truth, SuccessOK, Tells
<1>7. order \in lost \/ order \in answered \/ Held(order)
  BY DEF IInv, Truth, HeardOK, Held
<1>8. \A p : Held(p)' <=> Held(p)
  BY <1>2 DEF Held
<1>9. DoubleOK'
  BY <1>1, <1>7, <1>8 DEF IInv, Truth, DoubleOK, Key
<1>10. FailedOK'
  BY <1>1, <1>7, <1>8 DEF IInv, Truth, FailedOK
<1> QED  BY <1>3, <1>4, <1>5, <1>6, <1>9, <1>10 DEF Truth

LEMMA BrokerRefusesTruth ==
  ASSUME IInv, NEW order \in wire, BrokerRefuses(order)  PROVE Truth'
<1>1. UNCHANGED <<run, rows, lost, answered>> /\ wire' = wire \ {order}
  BY DEF BrokerRefuses
<1>2. \A p : \A u \in Workers :
        /\ Awaits(u, p)' <=> Awaits(u, p)
        /\ Reports(u, p)' <=> Reports(u, p)
        /\ Repeats(u, p)' <=> Repeats(u, p)
  BY <1>1 DEF Awaits, Reports, Repeats, Unkeyed, IsCurrent
<1>3. SentOK' /\ HeardOK'
  BY <1>1, <1>2 DEF IInv, Truth, SentOK, SentFor, HeardOK, Sent, Busy, Keyed, Succeeded
<1>4. KnownOK' /\ SuccessOK'
  BY <1>1, <1>2 DEF IInv, Truth, KnownOK, SuccessOK, Tells, IsCurrent
<1>5. DoubleOK' /\ FailedOK'
  BY <1>1, <1>2 DEF IInv, Truth, DoubleOK, FailedOK, Held, Key
<1> QED  BY <1>3, <1>4, <1>5 DEF Truth

\* The answer of an attempt that was carried out is what the worker reports.
LEMMA AnswerSuccessTruth ==
  ASSUME IInv, NEW w \in Workers, AnswerSuccess(w)  PROVE Truth'
<1>1. PICK r : /\ Moves(w, r) /\ r.job = run[w].job /\ r.todo = run[w].todo
               /\ r.pc = "save" /\ r.result = "SUCCESS" /\ r.attempt = run[w].attempt
  BY AnswerSuccessIs DEF IInv
<1>2. run'[w] = r  BY <1>1, MovesIs DEF IInv
<1>c. PICK c : c = Current(w)  OBVIOUS
<1>3. /\ UNCHANGED <<rows, wire, answered, lost>> /\ run[w].pc = "answer"
      /\ c \in answered
  BY <1>c DEF AnswerSuccess, At
<1>4. /\ IsCurrent(c, w)
      /\ \A p \in wire \cup answered \cup lost : IsCurrent(p, w) => p = c
  BY <1>3, <1>c, CurrentIs DEF IInv, Busy
<1>5. SentOK'
  <2>1. ASSUME NEW p \in Sent, p.job = run[w].job PROVE SentFor(w, p)'
    <3>1. SentFor(w, p)  BY <1>3, <2>1 DEF IInv, Truth, SentOK, Busy
    <3> QED  BY <1>1, <1>2, <1>3, <3>1 DEF SentFor, Keyed, Repeats, Unkeyed
  <2> QED  BY <1>1, <1>2, <1>3, <2>1, SentKept DEF Sent
<1>6. c \in answered \ lost /\ IsCurrent(c, w)'
  BY <1>1, <1>2, <1>3, <1>4 DEF IInv, Truth, KnownOK, Awaits, IsCurrent
<1>7. KnownOK'
  BY <1>1, <1>2, <1>3, <1>6, KnownKept DEF Awaits
<1>8. Unkeyed(w) /\ Busy(w)  BY <1>3 DEF Unkeyed, Busy
<1>9. \A p \in wire \cup answered : Awaits(w, p) \/ Reports(w, p) => p \in answered /\ Reports(w, p)'
  BY <1>1, <1>2, <1>3, <1>4, <1>6 DEF Awaits, Reports
<1> QED  BY <1>1, <1>3, <1>5, <1>7, <1>8, <1>9, StepTruth

\* A failed attempt was refused, or is lost from now on.
LEMMA RetryTruth ==
  ASSUME IInv, NEW w \in Workers, At(w, "answer"), RetryOrFail(w),
         UNCHANGED <<rows, wire, answered>>,
         \/ lost' = lost /\ Current(w) \notin wire \cup answered
         \/ lost' = lost \cup {Current(w)}
  PROVE  Truth'
<1>1. PICK r : /\ Moves(w, r) /\ r.job = run[w].job /\ r.todo = run[w].todo
               /\ \/ r.pc = "send" /\ r.attempt = run[w].attempt + 1
                  \/ r.pc = "save" /\ r.result = "FAILED" /\ r.attempt = MaxRetries
  BY RetryMoves DEF IInv
<1>2. run'[w] = r  BY <1>1, MovesIs DEF IInv
<1>c. PICK c : c = Current(w)  OBVIOUS
<1>3. run[w].pc = "answer"  BY DEF At
<1>4. /\ IsCurrent(c, w)
      /\ \A p \in wire \cup answered \cup lost : IsCurrent(p, w) => p = c
  BY <1>3, <1>c, CurrentIs DEF IInv, Busy
<1>5. /\ run[w].attempt \in Int /\ run[w].attempt <= MaxRetries
      /\ \A p \in Sent : p.attempt \in Int /\ p.attempt <= MaxRetries
  BY RetriesAssumption DEF IInv, TypeInv, TypeOK, Attempts, Sent
<1>6. \A p \in Sent' : p \in Sent \/ p = c
  BY <1>c DEF Sent
<1>7. SentOK'
  <2>1. ASSUME NEW p \in Sent, p.job = run[w].job PROVE SentFor(w, p)'
    <3>1. SentFor(w, p)  BY <1>3, <2>1 DEF IInv, Truth, SentOK, Busy
    <3>2. CASE Keyed(p) /\ ~Repeats(w, p)
      BY <1>1, <1>2, <1>3, <3>2 DEF SentFor, Keyed, Repeats, Unkeyed
    <3>3. CASE p.account = Head(run[w].todo) /\ p.attempt <= run[w].attempt
      BY <1>1, <1>2, <1>5, <3>3, RetriesAssumption DEF SentFor
    <3> QED  BY <3>1, <3>2, <3>3 DEF SentFor
  <2>2. SentFor(w, c)'
    BY <1>1, <1>2, <1>4, <1>5, RetriesAssumption DEF SentFor, IsCurrent
  <2>3. Busy(w) /\ c.job = run[w].job  BY <1>3, <1>4 DEF IsCurrent, Busy
  <2> QED  BY <1>1, <1>2, <1>6, <2>1, <2>2, <2>3, SentKept
<1>8. KnownOK'
  BY <1>1, <1>2, <1>3, KnownKept DEF Awaits, Busy
<1>9. Unkeyed(w) /\ Busy(w)  BY <1>3 DEF Unkeyed, Busy
<1>10. \A p \in (wire \cup answered) \ lost' : ~Awaits(w, p) /\ ~Reports(w, p)
  BY <1>3, <1>4, <1>c DEF Awaits, Reports
<1> QED  BY <1>1, <1>7, <1>8, <1>9, <1>10, StepTruth

\* What dies with the worker is lost; a skipped target had nothing to lose.
LEMMA DieTruth ==
  ASSUME IInv, NEW w \in Workers, Busy(w), Die(w),
         UNCHANGED <<enqueued, queue, rows, wire, answered>>
  PROVE  Truth'
<1>1. PICK r : Moves(w, r) /\ r.pc = "idle"
  BY DieIs DEF IInv
<1>2. run'[w] = r  BY <1>1, MovesIs DEF IInv
<1>c. PICK c : c = Current(w)  OBVIOUS
<1>3. /\ IsCurrent(c, w)
      /\ \A p \in wire \cup answered \cup lost : IsCurrent(p, w) => p = c
  BY <1>c, CurrentIs DEF IInv
<1>4. lost' = IF run[w].pc = "answer" \/ (run[w].pc = "save" /\ run[w].result # "SKIPPED")
              THEN lost \cup {c} ELSE lost
  BY <1>c DEF Die, At
<1>5. \A p \in Sent' : p \in Sent \/ (Busy(w) /\ p.job = run[w].job)
  BY <1>3, <1>4 DEF Sent, IsCurrent
<1>6. SentOK'
  BY <1>1, <1>2, <1>5, SentKept DEF Busy
<1>7. lost' = lost \/ (lost' = lost \cup {c} /\ Unkeyed(w))
  BY <1>4 DEF Unkeyed
<1>8. KnownOK'
  BY <1>1, <1>2, <1>7, <1>c, KnownKept DEF Awaits
<1>9. ~Unkeyed(w)'  BY <1>1, <1>2 DEF Unkeyed
<1>10. \A p \in (wire \cup answered) \ lost' : ~Awaits(w, p) /\ ~Reports(w, p)
  BY <1>3, <1>4 DEF Awaits, Reports
<1> QED  BY <1>1, <1>6, <1>7, <1>8, <1>9, <1>10, <1>c, StepTruth

\* The unique key gives the row to one worker.  What it stores is what it knows
\* of the attempts; no other row tells of one that was heard of, or else the
\* insert fails.
LEMMA SaveTruth ==
  ASSUME IInv, NEW w \in Workers, Save(w)  PROVE Truth'
<1>1. PICK r : /\ Moves(w, r) /\ r.pc \in {"idle", "lookup"}
               /\ r.pc # "idle" => r.job = run[w].job
  BY SaveIs DEF IInv
<1>2. run'[w] = r  BY <1>1, MovesIs DEF IInv
<1>c. PICK c : c = Current(w)  OBVIOUS
<1> DEFINE record == [order |-> OrderOf[run[w].job], account |-> Account(w),
                      status |-> run[w].result, retries |-> run[w].attempt]
<1>r. PICK row : row = record  OBVIOUS
<1>3. /\ UNCHANGED <<wire, answered, lost>> /\ run[w].pc = "save"
      /\ rows' = rows \cup {row}
      /\ \A old \in rows : ~(old.order = OrderOf[run[w].job] /\ old.account = Head(run[w].todo))
  BY <1>r DEF Save, At, KeyExists, Account
<1>4. /\ row.order = OrderOf[run[w].job] /\ row.account = Head(run[w].todo)
      /\ row.status = run[w].result /\ row.retries = run[w].attempt
  BY <1>r DEF Account
<1> HIDE DEF record
<1>5. /\ IsCurrent(c, w)
      /\ \A p \in wire \cup answered \cup lost : IsCurrent(p, w) => p = c
  BY <1>3, <1>c, CurrentIs DEF IInv, Busy
<1>6. \A u \in Workers : u # w =>
        \A p : /\ Awaits(u, p)' <=> Awaits(u, p)
               /\ Reports(u, p)' <=> Reports(u, p)
               /\ Repeats(u, p)' <=> Repeats(u, p)
  BY <1>1, Bystanders DEF IInv
<1>7. \A p : ~Repeats(w, p)' /\ ~Awaits(w, p)
  BY <1>1, <1>2, <1>3 DEF Repeats, Unkeyed, Awaits
<1>8. \A p \in answered : Reports(w, p) => p = c
  BY <1>5 DEF Reports
\* An attempt of this key that was heard of is in a worker's hand.
<1>9. ASSUME NEW p \in answered \ lost, OrderOf[p.job] = row.order, p.account = row.account
      PROVE  Held(p)
  <2>1. ~Succeeded(p)  BY <1>3, <1>4, <1>9 DEF Succeeded
  <2> QED  BY <2>1 DEF IInv, Truth, HeardOK, Held
<1>10. SentOK'
  <2>1. ASSUME NEW p \in Sent, p.job = run[w].job PROVE SentFor(w, p)'
    <3>1. SentFor(w, p)  BY <1>3, <2>1 DEF IInv, Truth, SentOK, Busy
    <3>2. Keyed(p)'
      BY <1>3, <1>4, <2>1, <3>1 DEF SentFor, Keyed
    <3> QED  BY <1>7, <3>2 DEF SentFor
  <2> QED  BY <1>1, <1>2, <1>3, <2>1, SentKept DEF Sent, Busy
<1>11. KnownOK'
  BY <1>1, <1>2, <1>3, KnownKept DEF Awaits
<1>12. HeardOK'
  <2> SUFFICES ASSUME NEW p \in (wire \cup answered) \ lost
               PROVE  \/ \E u \in Workers : Awaits(u, p)'
                      \/ p \in answered /\ ((\E u \in Workers : Reports(u, p)') \/ Succeeded(p)')
    BY <1>3 DEF HeardOK
  <2>1. CASE \E u \in Workers : Awaits(u, p)
    BY <1>6, <1>7, <2>1
  <2>2. CASE p \in answered /\ \E u \in Workers : u # w /\ Reports(u, p)
    BY <1>6, <2>2
  <2>3. CASE p \in answered /\ Reports(w, p)
    <3>1. Succeeded(p)'
      BY <1>3, <1>4, <2>3 DEF Succeeded, Reports, IsCurrent
    <3> QED  BY <2>3, <3>1
  <2>4. CASE p \in answered /\ Succeeded(p)
    BY <1>3, <2>4 DEF Succeeded
  <2> QED  BY <2>1, <2>2, <2>3, <2>4 DEF IInv, Truth, HeardOK
<1>13. SuccessOK'
  <2>1. ASSUME NEW old \in rows, old.status = "SUCCESS" PROVE \E p \in answered \ lost : Tells(old, p)'
    <3>1. PICK p \in answered \ lost : Tells(old, p)
      BY <2>1 DEF IInv, Truth, SuccessOK
    <3> QED  BY <1>6, <1>7, <3>1 DEF Tells
  <2>2. ASSUME row.status = "SUCCESS" PROVE \E p \in answered \ lost : Tells(row, p)'
    <3>1. c \in answered \ lost
      BY <1>3, <1>4, <1>5, <2>2 DEF IInv, Truth, KnownOK
    <3>2. ASSUME NEW u \in Workers, u # w PROVE ~Repeats(u, c)'
      <4>1. Busy(w) /\ c.job = run[w].job
        BY <1>3, <1>5 DEF IsCurrent, Busy
      <4>2. ~Repeats(u, c)
        BY <3>2, <4>1 DEF IInv, QueueOK, Repeats, Unkeyed, Busy
      <4> QED  BY <1>6, <3>2, <4>2
    <3>3. Tells(row, c)'
      BY <1>4, <1>5, <1>7, <3>2 DEF Tells, IsCurrent
    <3> QED  BY <3>1, <3>3
  <2> QED  BY <1>3, <2>1, <2>2 DEF SuccessOK
<1>14. ASSUME NEW p \in answered, Held(p), ~Reports(w, p) PROVE Held(p)'
  BY <1>6, <1>7, <1>14 DEF Held
<1>15. DoubleOK'
  <2> SUFFICES ASSUME NEW p \in answered, NEW q \in answered, Key(p) = Key(q), p # q,
                      p \notin lost, q \notin lost
               PROVE  Held(p)' \/ Held(q)'
    BY <1>3 DEF DoubleOK, Key
  <2>1. Held(p) \/ Held(q)
    BY DEF IInv, Truth, DoubleOK
  <2>2. OrderOf[p.job] = OrderOf[q.job] /\ p.account = q.account
    BY DEF Key
  <2>3. CASE Reports(w, p)
    <3>1. OrderOf[q.job] = row.order /\ q.account = row.account
      BY <1>4, <2>2, <2>3 DEF Reports, IsCurrent
    <3>2. Held(q) /\ ~Reports(w, q)  BY <1>8, <1>9, <2>3, <3>1
    <3> QED  BY <1>14, <3>2
  <2>4. CASE Reports(w, q)
    <3>1. OrderOf[p.job] = row.order /\ p.account = row.account
      BY <1>4, <2>2, <2>4 DEF Reports, IsCurrent
    <3>2. Held(p) /\ ~Reports(w, p)  BY <1>8, <1>9, <2>4, <3>1
    <3> QED  BY <1>14, <3>2
  <2> QED  BY <1>14, <2>1, <2>3, <2>4
<1>16. FailedOK'
  <2> SUFFICES ASSUME NEW any \in rows \cup {row}, NEW p \in answered, any.status # "SUCCESS",
                      any.order = OrderOf[p.job], any.account = p.account, p \notin lost
               PROVE  Held(p)'
    BY <1>3 DEF FailedOK
  <2>1. Held(p)
    BY <1>9 DEF IInv, Truth, FailedOK
  <2>2. ~Reports(w, p)
    BY <1>3, <1>4 DEF Reports, IsCurrent
  <2> QED  BY <1>14, <2>1, <2>2
<1> QED  BY <1>10, <1>11, <1>12, <1>13, <1>15, <1>16 DEF Truth

-----------------------------------------------------------------------------
(***************************************************************************)
(* Together.                                                               *)
(***************************************************************************)
LEMMA TruthInit == Init => IInv
<1> SUFFICES ASSUME Init PROVE IInv  OBVIOUS
<1>1. TypeInv  BY TypeInit
<1>2. /\ queue = <<>> /\ rows = {} /\ Sent = {} /\ answered = {} /\ wire = {} /\ lost = {}
      /\ \A w \in Workers : run[w].pc = "idle"
  BY DEF Init, IdleRun, Sent
<1>3. QueueOK  BY <1>2 DEF QueueOK, Busy
<1>4. Truth
  BY <1>2 DEF Truth, SentOK, HeardOK, KnownOK, SuccessOK, DoubleOK, FailedOK
<1> QED  BY <1>1, <1>3, <1>4 DEF IInv

LEMMA TruthStep == IInv /\ [Next]_vars => IInv'
<1> SUFFICES ASSUME IInv, [Next]_vars PROVE Truth'
  BY TypeStep, QueueStep DEF IInv
<1>1. ASSUME NEW job \in Jobs, Enqueue(job) PROVE Truth'
  BY <1>1, EnqueueTruth DEF IInv
<1>2. ASSUME NEW w \in Workers, Work(w) PROVE Truth'
  <2>1. CASE Pop(w)  BY <2>1, PopTruth
  <2>2. CASE Lookup(w)  BY <2>2, LookupTruth
  <2>3. CASE RiskCheck(w)  BY <2>3, RiskCheckTruth
  <2>4. CASE Send(w)  BY <2>4, SendTruth
  <2>5. CASE AnswerSuccess(w)  BY <2>5, AnswerSuccessTruth
  <2>6. CASE AnswerError(w)  BY <2>6, RetryTruth DEF AnswerError
  <2>7. CASE AnswerLost(w)  BY <2>7, RetryTruth DEF AnswerLost
  <2>8. CASE Save(w)  BY <2>8, SaveTruth
  <2>9. CASE SaveConflict(w)  BY <2>9, DieTruth DEF SaveConflict, At, Busy
  <2> QED  BY <1>2, <2>1, <2>2, <2>3, <2>4, <2>5, <2>6, <2>7, <2>8, <2>9 DEF Work
<1>3. ASSUME NEW w \in Workers, Exit(w) PROVE Truth'
  BY <1>3, DieTruth DEF Exit, At, Busy
<1>4. ASSUME Broker PROVE Truth'
  BY <1>4, BrokerAnswersTruth, BrokerRefusesTruth DEF Broker
<1>5. CASE UNCHANGED vars
  <2>1. \A p : \A u \in Workers :
          /\ Awaits(u, p)' <=> Awaits(u, p)
          /\ Reports(u, p)' <=> Reports(u, p)
          /\ Repeats(u, p)' <=> Repeats(u, p)
    BY <1>5 DEF vars, Awaits, Reports, Repeats, Unkeyed, IsCurrent
  <2>2. SentOK' /\ HeardOK' /\ KnownOK' /\ SuccessOK'
    BY <1>5, <2>1 DEF vars, IInv, Truth, SentOK, SentFor, HeardOK, KnownOK, SuccessOK, Sent,
                      Keyed, Succeeded, Tells, IsCurrent, Busy
  <2>3. DoubleOK' /\ FailedOK'
    BY <1>5, <2>1 DEF vars, IInv, Truth, DoubleOK, FailedOK, Held, Key
  <2> QED  BY <2>2, <2>3 DEF Truth
<1> QED  BY <1>1, <1>2, <1>3, <1>4, <1>5 DEF Next

\* Held is the properties' InHand.
LEMMA HeldInHand == ASSUME TypeInv PROVE \A p \in answered : Held(p) => InHand(p)
BY CurrentIs DEF Held, Awaits, Reports, InHand, At, Busy

LEMMA TruthDoubles == IInv => OnlyLostAnswersDouble
BY HeldInHand DEF IInv, Truth, DoubleOK, OnlyLostAnswersDouble

LEMMA TruthRows == IInv => RowsTellWhatWasHeard
<1> SUFFICES ASSUME IInv, NEW row \in rows
             PROVE  LET ofKey == {p \in answered : Key(p) = <<row.order, row.account>>}
                    IN  IF row.status = "SUCCESS"
                          THEN \E p \in ofKey : p.attempt = row.retries /\ p \notin lost
                          ELSE \A p \in ofKey : p \in lost \/ InHand(p)
  BY DEF RowsTellWhatWasHeard
<1>1. \A p : Key(p) = <<row.order, row.account>>
               <=> row.order = OrderOf[p.job] /\ row.account = p.account
  BY DEF Key
<1>2. CASE row.status = "SUCCESS"
  BY <1>1, <1>2 DEF IInv, Truth, SuccessOK, Tells
<1>3. CASE row.status # "SUCCESS"
  BY <1>1, <1>3, HeldInHand DEF IInv, Truth, FailedOK
<1> QED  BY <1>2, <1>3

(***************************************************************************)
(* However many workers share the queue and whatever jobs repeat an order, *)
(* calls time out or deaths interrupt them: of two requests for a child    *)
(* order that were carried out one is lost, or a worker still has it.      *)
(***************************************************************************)
THEOREM HeardOrdersPlacedOnce == Spec => []OnlyLostAnswersDouble
BY TruthInit, TruthStep, TruthDoubles, PTL DEF Spec

(***************************************************************************)
(* The rows any number of workers store agree with the answers they heard, *)
(* and with what was carried out as far as it was heard of.                *)
(***************************************************************************)
THEOREM StoredRowsHeard == Spec => []RowsTellWhatWasHeard
BY TruthInit, TruthStep, TruthRows, PTL DEF Spec

-----------------------------------------------------------------------------
(***************************************************************************)
(* While no two workers claim a key.                                       *)
(***************************************************************************)
\* What a worker found no row of stays without one until it stores its own.
UnkeyedOK ==
  \A w \in Workers : Unkeyed(w) => ~KeyExists(OrderOf[run[w].job], Account(w))

LEMMA UnkeyedInit == Init => UnkeyedOK
BY DEF Init, UnkeyedOK, Unkeyed, IdleRun

LEMMA UnkeyedKept ==
  ASSUME TypeInv, UnkeyedOK, NEW w \in Workers, NEW r, Moves(w, r), rows' = rows,
         Unkeyed(w)' => /\ run'[w].job = run[w].job /\ run'[w].todo = run[w].todo
                        /\ Unkeyed(w) \/ ~KeyExists(OrderOf[run[w].job], Account(w))
  PROVE  UnkeyedOK'
BY MovesIs DEF UnkeyedOK, Unkeyed, KeyExists, Account

LEMMA UnkeyedStep == IInv /\ UnkeyedOK /\ KeysApart /\ [Next]_vars => UnkeyedOK'
<1> SUFFICES ASSUME TypeInv, UnkeyedOK, KeysApart, [Next]_vars PROVE UnkeyedOK'
  BY DEF IInv
<1>1. ASSUME NEW w \in Workers, Work(w) PROVE UnkeyedOK'
  <2>1. CASE Pop(w)
    BY <2>1, PopIs, MovesIs, UnkeyedKept DEF Pop, Unkeyed
  <2>2. CASE Lookup(w)
    BY <2>2, LookupIs, MovesIs, UnkeyedKept DEF Lookup, Unkeyed
  <2>3. CASE RiskCheck(w)
    BY <2>3, RiskCheckIs, MovesIs, UnkeyedKept DEF RiskCheck, Unkeyed, At
  <2>4. CASE Send(w)
    BY <2>4, SendIs, MovesIs, UnkeyedKept DEF Send, Unkeyed, At
  <2>5. CASE AnswerSuccess(w)
    BY <2>5, AnswerSuccessIs, MovesIs, UnkeyedKept DEF AnswerSuccess, Unkeyed, At
  <2>6. CASE AnswerError(w)
    BY <2>6, RetryMoves, MovesIs, UnkeyedKept DEF AnswerError, Unkeyed, At
  <2>7. CASE AnswerLost(w)
    BY <2>7, RetryMoves, MovesIs, UnkeyedKept DEF AnswerLost, Unkeyed, At
  <2>8. CASE Save(w)
    <3>1. PICK r : Moves(w, r) /\ r.pc \in {"idle", "lookup"}
      BY <2>8, SaveIs
    <3>2. run'[w] = r /\ \A u \in Workers : u # w => run'[u] = run[u]
      BY <3>1, MovesIs
    <3>3. Claiming(w)
      BY <2>8 DEF Save, At, Claiming
    <3>4. ASSUME NEW u \in Workers, Unkeyed(u)'
          PROVE  ~KeyExists(OrderOf[run[u].job], Account(u))'
      <4>1. u # w /\ run'[u] = run[u] /\ Unkeyed(u)
        BY <3>1, <3>2, <3>4 DEF Unkeyed
      <4>2. ~KeyExists(OrderOf[run[u].job], Account(u)) /\ Claiming(u)
        BY <4>1 DEF UnkeyedOK, Claiming, Unkeyed
      <4>3. ~(OrderOf[run[u].job] = OrderOf[run[w].job] /\ Account(u) = Account(w))
        BY <3>3, <4>1, <4>2 DEF KeysApart
      <4> QED  BY <2>8, <4>1, <4>2, <4>3 DEF Save, KeyExists, Account
    <3> QED  BY <3>4 DEF UnkeyedOK
  <2>9. CASE SaveConflict(w)
    BY <2>9, DieIs, MovesIs, UnkeyedKept DEF SaveConflict, Unkeyed
  <2> QED  BY <1>1, <2>1, <2>2, <2>3, <2>4, <2>5, <2>6, <2>7, <2>8, <2>9 DEF Work
<1>2. ASSUME NEW w \in Workers, Exit(w) PROVE UnkeyedOK'
  BY <1>2, DieIs, MovesIs, UnkeyedKept DEF Exit, Unkeyed
<1>3. ASSUME UNCHANGED <<run, rows>> PROVE UnkeyedOK'
  BY <1>3 DEF UnkeyedOK, Unkeyed, KeyExists, Account
<1> QED
  BY <1>1, <1>2, <1>3 DEF Next, Enqueue, Broker, BrokerAnswers, BrokerRefuses, vars

\* Two attempts of a key that were heard of: each in a hand, or with a SUCCESS
\* row, and none of these together.
LEMMA HeardOnceState == IInv /\ UnkeyedOK /\ KeysApart => HeardOnce
<1> SUFFICES ASSUME IInv, UnkeyedOK, KeysApart PROVE HeardOnce  OBVIOUS
<1>1. ASSUME NEW w \in Workers, NEW p, Awaits(w, p) \/ Reports(w, p)
      PROVE  /\ Claiming(w) /\ ~Keyed(p)
             /\ OrderOf[run[w].job] = OrderOf[p.job] /\ Account(w) = p.account
  BY <1>1 DEF UnkeyedOK, Unkeyed, Claiming, Awaits, Reports, IsCurrent, Account, KeyExists, Keyed
<1>2. ASSUME NEW p \in answered \ lost, Keyed(p) PROVE ~Held(p)
  BY <1>1, <1>2 DEF Held
<1>3. ASSUME NEW p \in answered \ lost, ~Held(p) PROVE Keyed(p)
  BY <1>3 DEF IInv, Truth, HeardOK, Held, Succeeded, Keyed
<1>4. ASSUME NEW p \in answered \ lost, NEW q \in answered \ lost, Key(p) = Key(q) PROVE p = q
  <2>1. /\ OrderOf[p.job] = OrderOf[q.job] /\ p.account = q.account
        /\ Keyed(p) <=> Keyed(q)
    BY <1>4 DEF Key, Keyed
  <2>2. CASE ~Keyed(p)
    <3>1. Held(p) /\ Held(q)  BY <1>3, <2>1, <2>2
    <3>2. PICK v \in Workers, w \in Workers :
            (Awaits(v, p) \/ Reports(v, p)) /\ (Awaits(w, q) \/ Reports(w, q))
      BY <3>1 DEF Held
    <3>3. v = w  BY <1>1, <2>1, <3>2 DEF KeysApart
    <3>4. Busy(w) /\ IsCurrent(p, w) /\ IsCurrent(q, w)
      BY <3>2, <3>3 DEF Awaits, Reports, Busy
    <3> QED  BY <3>4, CurrentIs DEF IInv
  <2>3. CASE Keyed(p)
    BY <1>2, <1>4, <2>1, <2>3 DEF IInv, Truth, DoubleOK
  <2> QED  BY <2>2, <2>3
<1>5. ASSUME NEW row \in rows, NEW p \in answered \ lost, Key(p) = <<row.order, row.account>>
      PROVE  row.status = "SUCCESS" /\ p.attempt = row.retries
  <2>1. row.order = OrderOf[p.job] /\ row.account = p.account  BY <1>5 DEF Key
  <2>2. ~Held(p)  BY <1>2, <2>1 DEF Keyed
  <2>3. row.status = "SUCCESS"  BY <2>1, <2>2 DEF IInv, Truth, FailedOK
  <2>4. PICK q \in answered \ lost : Tells(row, q)
    BY <2>3 DEF IInv, Truth, SuccessOK
  <2>5. q = p  BY <1>4, <1>5, <2>4 DEF Tells, Key
  <2> QED  BY <2>3, <2>4, <2>5 DEF Tells
<1> QED  BY <1>4, <1>5 DEF HeardOnce

(***************************************************************************)
(* Lookup and insert in two transactions are enough as long as no second   *)
(* worker claims the key in between: then no two placements of an order    *)
(* were heard of, and its row tells of the one that was.                   *)
(***************************************************************************)
THEOREM ApartHeardOnce == Spec /\ []KeysApart => []HeardOnce
<1>1. Init => IInv /\ UnkeyedOK  BY TruthInit, UnkeyedInit
<1>2. (IInv /\ UnkeyedOK) /\ KeysApart /\ [Next]_vars => (IInv /\ UnkeyedOK)'
  BY TruthStep, UnkeyedStep
<1>3. (IInv /\ UnkeyedOK) /\ KeysApart => HeardOnce  BY HeardOnceState
<1> QED  BY <1>1, <1>2, <1>3, PTL DEF Spec

(***************************************************************************)
(* The deployment with one worker process: nothing has to be assumed.      *)
(***************************************************************************)
THEOREM OneWorkerHeardOnce ==
  ASSUME \A v, w \in Workers : v = w  PROVE Spec => []HeardOnce
<1>1. KeysApart  BY DEF KeysApart
<1> QED  BY <1>1, ApartHeardOnce, PTL
=============================================================================
