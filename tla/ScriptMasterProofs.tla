------------------------- MODULE ScriptMasterProofs -------------------------
(***************************************************************************)
(* Proofs about ScriptMaster and the match rules, for any lists, events    *)
(* and tasks.                                                              *)
(***************************************************************************)
EXTENDS ScriptMaster, TLAPS

-----------------------------------------------------------------------------
(* The match rules.                                                        *)

\* What a narrowing step drops differs from what it keeps in what it looks at.
LEMMA LotNarrows ==
  ASSUME NEW S, NEW l, NEW r \in ByLot(S, l)
  PROVE  /\ r \in S
         /\ \A q \in S : q \in ByLot(S, l) \/ (l.lot # Missing /\ r.lot = l.lot /\ q.lot # l.lot)
  BY DEF ByLot, Part

LEMMA IsinNarrows ==
  ASSUME NEW S, NEW l, NEW r \in ByIsin(S, l)
  PROVE  /\ r \in S
         /\ \A q \in S : q \in ByIsin(S, l) \/ (l.isin # Missing /\ r.isin = l.isin /\ q.isin # l.isin)
  BY DEF ByIsin, Part

LEMMA EquitiesNarrow ==
  ASSUME NEW S, NEW r \in Equities(S)
  PROVE  /\ r \in S
         /\ \A q \in S : q \in Equities(S) \/ (~Derivative(r) /\ Derivative(q))
  BY DEF Equities

\* A resolution has the one numeric code of the candidates.
LEMMA ResolutionIsUnique ==
  ASSUME NEW S, Resolution(S).status = "RESOLVED"
  PROVE  /\ Resolution(S).code \in Codes
         /\ \E r \in S : r.code = Resolution(S).code
         /\ \A q \in S : q.code \in Codes => q.code = Resolution(S).code
<1> DEFINE codes == {r.code : r \in S} \cap Codes
<1>1. codes # {} /\ \E c \in codes : codes = {c}
  BY DEF Resolution, Outcome
<1>2. PICK c \in codes : codes = {c}
  BY <1>1
<1>3. (CHOOSE d \in codes : TRUE) = c
  BY <1>2
<1>4. Resolution(S).code = c
  BY <1>1, <1>3 DEF Resolution
<1> QED
  BY <1>2, <1>4

LEMMA ResolutionTyped ==
  ASSUME NEW S
  PROVE  Resolution(S) \in Outcomes
<1> DEFINE codes == {r.code : r \in S} \cap Codes
<1>1. CASE codes # {} /\ \E c \in codes : codes = {c}
  <2>1. Resolution(S) = [status |-> "RESOLVED", code |-> CHOOSE c \in codes : TRUE]
    BY <1>1 DEF Resolution
  <2>2. (CHOOSE c \in codes : TRUE) \in Codes
    BY <1>1
  <2> QED
    BY <2>1, <2>2 DEF Outcomes, Statuses, Or
<1>2. CASE ~(codes # {} /\ \E c \in codes : codes = {c})
  <2>1. Resolution(S) \in {Outcome("UNRESOLVED"), Outcome("AMBIGUOUS")}
    BY <1>2 DEF Resolution
  <2> QED
    BY <2>1 DEF Outcomes, Statuses, Or, Outcome
<1> QED
  BY <1>1, <1>2

LEMMA ResolveTyped ==
  ASSUME NEW rows, NEW l
  PROVE  Resolve(rows, l) \in Outcomes
<1>1. \A s \in Statuses : Outcome(s) \in Outcomes
  BY DEF Outcomes, Outcome, Or
<1> QED
  BY <1>1, ResolutionTyped DEF Resolve, Match, Statuses

\* The index misses nothing that fits.
LEMMA IndexComplete ==
  ASSUME NEW rows \in SUBSET Records, NEW l \in Lookups, l.symbol # Missing,
         NEW q \in rows, Fits(q, l)
  PROVE  q \in Indexed(rows, l)
  BY DEF Indexed, Fits, SameIdentity

\* Whatever fits and is no candidate differs from every candidate in one of
\* the things the event tells apart.
LEMMA CandidatesFit ==
  ASSUME NEW rows, NEW l, NEW r \in Candidates(rows, l)
  PROVE  /\ r \in rows /\ Fits(r, l)
         /\ Derivative(l) => SameContract(r, l)
         /\ \A q \in rows :
              /\ Fits(q, l)
              /\ Derivative(l) => SameContract(q, l)
              /\ q \notin Candidates(rows, l)
              => Distinguishes(l, r, q)
<1> DEFINE fitting == {q \in rows : Fits(q, l)}
           contract == {q \in fitting : SameContract(q, l)}
<1>1. CASE Derivative(l)
  <2>1. Candidates(rows, l) = ByLot(contract, l)
    BY <1>1 DEF Candidates
  <2> HIDE DEF contract
  <2>2. r \in contract
    BY <2>1, LotNarrows
  <2>3. \A q \in contract : q \in Candidates(rows, l) \/ Distinguishes(l, r, q)
    BY <2>1, LotNarrows DEF Distinguishes
  <2> QED
    BY <1>1, <2>2, <2>3 DEF contract
<1>2. CASE ~Derivative(l)
  <2> DEFINE isin == ByIsin(fitting, l)
             cash == Equities(isin)
  <2>1. Candidates(rows, l) = ByLot(cash, l)
    BY <1>2 DEF Candidates
  <2> HIDE DEF fitting, isin, cash
  <2>2. r \in cash /\ \A q \in cash : q \in Candidates(rows, l) \/ Distinguishes(l, r, q)
    BY <2>1, LotNarrows DEF Distinguishes
  <2>3. r \in isin /\ \A q \in isin : q \in cash \/ Distinguishes(l, r, q)
    <3>1. r \in Equities(isin)
      BY <2>2 DEF cash
    <3> QED
      BY <1>2, <3>1, EquitiesNarrow DEF Distinguishes, cash
  <2>4. r \in fitting /\ \A q \in fitting : q \in isin \/ Distinguishes(l, r, q)
    <3>1. r \in ByIsin(fitting, l)
      BY <2>3 DEF isin
    <3> QED
      BY <1>2, <3>1, IsinNarrows DEF Distinguishes, isin
  <2> QED
    BY <1>2, <2>2, <2>3, <2>4 DEF fitting
<1> QED
  BY <1>1, <1>2

(***************************************************************************)
(* A lookup is resolved only to an instrument of the list that the ack     *)
(* describes, and no other one that it describes has another code unless   *)
(* the ack tells them apart: for any list and any event.                   *)
(***************************************************************************)
THEOREM ResolveExact ==
  ASSUME NEW rows \in SUBSET Records, NEW l \in Lookups
  PROVE  Exact(rows, l, Resolve(rows, l))
<1> DEFINE found == Indexed(rows, l)
           S == Candidates(found, l)
           o == Resolve(rows, l)
<1> SUFFICES ASSUME o.status = "RESOLVED"
             PROVE  Exact(rows, l, o)
  BY DEF Exact
<1>1. /\ l.symbol # Missing
      /\ Derivative(l) => Missing \notin {l.expiry, l.strike, l.option}
      /\ o = Resolution(S)
  BY DEF Resolve, Match, Outcome
<1>2. o.code \in Codes /\ \A q \in S : q.code \in Codes => q.code = o.code
  BY <1>1, ResolutionIsUnique
<1>3. PICK r \in S : r.code = o.code
  BY <1>1, ResolutionIsUnique
<1> HIDE DEF S, o
<1>4. r \in found /\ Fits(r, l) /\ (Derivative(l) => SameContract(r, l))
  BY <1>3, CandidatesFit DEF S
<1>5. r \in rows
  BY <1>4 DEF Indexed
<1>6. Derivative(l) => Missing \notin {r.expiry, r.strike, r.option}
  BY <1>1, <1>4 DEF SameContract
<1>7. ASSUME NEW q \in rows, Fits(q, l), Derivative(l) => SameContract(q, l),
             q.code \in Codes \ {o.code}
      PROVE  Distinguishes(l, r, q)
  <2>1. q \in found
    BY <1>1, <1>7, IndexComplete
  <2>2. q \notin S
    BY <1>2, <1>7
  <2> HIDE DEF found
  <2> QED
    BY <1>3, <1>7, <2>1, <2>2, CandidatesFit DEF S
<1> QED
  BY <1>2, <1>3, <1>4, <1>5, <1>6, <1>7 DEF Exact

\* A narrowing step never leaves nothing of something.
LEMMA NarrowingKeeps ==
  ASSUME NEW S, NEW l, S # {}
  PROVE  ByLot(S, l) # {} /\ ByIsin(S, l) # {} /\ Equities(S) # {}
  BY DEF ByLot, ByIsin, Part, Equities

\* What the event describes, whether or not something else competes with it.
Described(r, l) == Fits(r, l) /\ (Derivative(l) => SameContract(r, l))

LEMMA CandidatesRemain ==
  ASSUME NEW rows, NEW l, NEW r \in rows, Described(r, l)
  PROVE  Candidates(rows, l) # {}
<1> DEFINE fitting == {q \in rows : Fits(q, l)}
<1>1. r \in fitting
  BY DEF Described
<1>2. CASE Derivative(l)
  <2>1. r \in {q \in fitting : SameContract(q, l)}
    BY <1>1, <1>2 DEF Described
  <2> HIDE DEF fitting
  <2> QED
    BY <1>2, <2>1, NarrowingKeeps DEF Candidates, fitting
<1>3. CASE ~Derivative(l)
  <2>1. Candidates(rows, l) = ByLot(Equities(ByIsin(fitting, l)), l)
    BY <1>3 DEF Candidates
  <2> HIDE DEF fitting
  <2>2. ByIsin(fitting, l) # {}
    BY <1>1, NarrowingKeeps
  <2>3. Equities(ByIsin(fitting, l)) # {}
    BY <2>2, NarrowingKeeps
  <2> QED
    BY <2>1, <2>3, NarrowingKeeps
<1> QED
  BY <1>2, <1>3

(***************************************************************************)
(* The converse: an ack that names its symbol and exchange, and a          *)
(* derivative its contract, is resolved whenever the instruments of the    *)
(* list that it describes agree on one numeric code.  The keys of the      *)
(* index and the narrowing steps lose no order that could be copied.       *)
(***************************************************************************)
THEOREM ResolveComplete ==
  ASSUME NEW rows \in SUBSET Records, NEW l \in Lookups,
         l.symbol # Missing, l.exchange # Missing,
         Derivative(l) => Missing \notin {l.expiry, l.strike, l.option},
         NEW r \in rows, Described(r, l), r.code \in Codes,
         \A q \in rows : Described(q, l) => q.code = r.code
  PROVE  Resolve(rows, l) = [status |-> "RESOLVED", code |-> r.code]
<1> DEFINE found == Indexed(rows, l)
           S == Candidates(found, l)
           codes == {q.code : q \in S} \cap Codes
<1>1. r \in found
  BY IndexComplete DEF Described
<1>2. S # {}
  <2> HIDE DEF found
  <2> QED
    BY <1>1, CandidatesRemain
<1>3. \A q \in S : q.code = r.code
  <2> SUFFICES ASSUME NEW q \in S PROVE q.code = r.code
    OBVIOUS
  <2> HIDE DEF found
  <2>1. q \in found /\ Described(q, l)
    BY CandidatesFit DEF Described
  <2> QED
    BY <2>1 DEF found, Indexed
<1>4. found # {} /\ Resolve(rows, l) = Resolution(S)
  BY <1>1 DEF Resolve, Match
<1> HIDE DEF S
<1>5. codes = {r.code}
  BY <1>2, <1>3
<1>6. codes # {} /\ \E c \in codes : codes = {c}
  BY <1>5
<1>7. Resolution(S) = [status |-> "RESOLVED", code |-> CHOOSE c \in codes : TRUE]
  BY <1>6 DEF Resolution
<1>8. (CHOOSE c \in codes : TRUE) = r.code
  BY <1>5
<1> QED
  BY <1>4, <1>7, <1>8

\* What is read from an answer is a set of instruments.
LEMMA NormalisedTyped ==
  ASSUME NEW answer \in Answers
  PROVE  Normalised(answer, Home) \in SUBSET Records
<1> SUFFICES ASSUME NEW i \in 1..Len(answer), Complete(answer[i])
             PROVE  Normal(answer[i], Home) \in Records
  BY DEF Normalised
<1> DEFINE own == {raw \in RawRows : raw.exchange \in {Home, Missing}}
<1>1. answer \in Seq(own)
  BY AnswerAssumption
<1> HIDE DEF own
<1>2. answer[i] \in own
  BY <1>1
<1> DEFINE raw == answer[i]
<1> HIDE DEF raw
<1>3. raw \in RawRows /\ Missing \notin {raw.code, raw.symbol}
  BY <1>2 DEF Complete, raw, own
<1>4. Normal(raw, Home) \in Records
  BY <1>3, AnswerAssumption DEF RawRows, Records, Normal, Or
<1> QED
  BY <1>4 DEF raw

LEMMA ListsTyped == \A S \in Lists : S \in SUBSET Records /\ S # {}
  BY NormalisedTyped DEF Lists
-----------------------------------------------------------------------------
(***************************************************************************)
(* The inductive invariant.  A task past the waiting holds the lock, so    *)
(* only one is there; what it goes on with is what its step put there;     *)
(* rows that are flushed are the rows in memory; and an answer was made    *)
(* from the rows in memory.                                                *)
(***************************************************************************)
LockSteps == {"load", "fetch", "store", "blocked", "conflict"}

Locked ==
  \A t \in Tasks :
    /\ task[t] # Idle /\ Lookup(t) => task[t].event \in Events
    /\ task[t].pc \in LockSteps => Holds(t)
    /\ At(t, "load") => cache = None
    /\ At(t, "fetch") /\ Lookup(t) => cache # None
    /\ task[t].pc \in {"store", "blocked"} => task[t].got.rows \in Lists

FlushedInMemory ==
  writer # None => cache = writer.got /\ writer.got.rows \in Lists

AnsweredFromMemory ==
  result # None =>
    cache # None /\ result.outcome = Resolve(cache.rows, result.event)

IInv ==
  TypeOK /\ Locked /\ FlushedInMemory /\ MemoryMatchesTable /\ AnsweredFromMemory

LEMMA ContentsTyped ==
  /\ \A S \in Lists : \A n \in 0..MaxNow : Stored(S, n) \in Contents
  /\ \A n \in 0..MaxNow : Stored({}, n) \in Contents
  /\ NeverRefreshed \in Contents
  BY DEF Contents, Stored, NeverRefreshed

LEMMA NoneApart ==
  /\ \A c \in Contents : c # None
  /\ \A t \in Tasks : \A c \in Contents : [task |-> t, got |-> c] # None
  BY NoneAssumption

\* A task that is doing something.
LEMMA AskingTask ==
  ASSUME TypeOK, NEW t \in Tasks, task[t] # Idle
  PROVE  task[t] \in Asking
  BY DEF TypeOK

Pcs == {"wait", "load", "fetch", "store", "blocked", "conflict", "commit", "dispatch"}

LEMMA GotoTyped ==
  ASSUME TypeOK, NEW t \in Tasks, task[t] # Idle, NEW pc \in Pcs, Goto(t, pc)
  PROVE  /\ task' \in [Tasks -> Asking \cup {Idle}]
         /\ task'[t] = [task[t] EXCEPT !.pc = pc]
         /\ task'[t] # Idle
         /\ \A u \in Tasks \ {t} : task'[u] = task[u]
<1>1. task[t] \in Asking
  BY AskingTask
<1>2. [task[t] EXCEPT !.pc = pc] \in Asking
  BY <1>1 DEF Asking, Pcs
<1>3. [task[t] EXCEPT !.pc = pc].pc # "idle"
  BY <1>1 DEF Asking, Pcs
<1> QED
  BY <1>2, <1>3 DEF TypeOK, Goto, Idle

LEMMA IdledTyped ==
  ASSUME TypeOK, NEW t \in Tasks, task' = [task EXCEPT ![t] = Idle]
  PROVE  /\ task' \in [Tasks -> Asking \cup {Idle}]
         /\ task'[t] = Idle
         /\ \A u \in Tasks \ {t} : task'[u] = task[u]
  BY DEF TypeOK

\* Every step that takes the lock from a task leaves the invariant of the
\* others alone: none of them was past the waiting.
LEMMA OthersWait ==
  ASSUME Locked, NEW t \in Tasks, Holds(t), NEW u \in Tasks \ {t}
  PROVE  task[u].pc \notin LockSteps
  BY DEF Locked, Holds

LEMMA ReleaseTyped ==
  ASSUME TypeOK, NEW t \in Tasks, Holds(t), Release
  PROVE  queue' \in Seq(Tasks)
  BY DEF TypeOK, Holds, Release

\* What Locked says of one task.
LockedTask(t) ==
  /\ task[t] # Idle /\ Lookup(t) => task[t].event \in Events
  /\ task[t].pc \in LockSteps => Holds(t)
  /\ At(t, "load") => cache = None
  /\ At(t, "fetch") /\ Lookup(t) => cache # None
  /\ task[t].pc \in {"store", "blocked"} => task[t].got.rows \in Lists

LEMMA HolderSteps ==
  ASSUME Locked, NEW t \in Tasks, Holds(t), LockedTask(t)',
         \A u \in Tasks \ {t} : task'[u] = task[u]
  PROVE  Locked'
<1> SUFFICES ASSUME NEW u \in Tasks \ {t} PROVE LockedTask(u)'
  BY DEF Locked, LockedTask
<1>1. task'[u] = task[u] /\ task[u].pc \notin LockSteps
  BY OthersWait
<1> QED
  BY <1>1 DEF Locked, LockedTask, Lookup, At, LockSteps

\* The answer, when there is one, comes from c, which is the cache then.
LEMMA AnsweredTyped ==
  ASSUME TypeOK, Locked, NEW t \in Tasks, task[t] # Idle, NEW c, Answered(t, c)
  PROVE  /\ result' \in Results \cup {None}
         /\ result' # None => /\ result'.outcome = Resolve(c.rows, result'.event)
                              /\ Lookup(t)
<1>1. CASE Lookup(t)
  <2>1. task[t].event \in Events
    BY <1>1 DEF Locked
  <2>2. Resolve(c.rows, task[t].event) \in Outcomes
    BY ResolveTyped
  <2> QED
    BY <1>1, <2>1, <2>2 DEF Answered, Results
<1>2. CASE ~Lookup(t)
  BY <1>2 DEF Answered
<1> QED
  BY <1>1, <1>2

LEMMA FinishTyped ==
  ASSUME TypeOK, Locked, NEW t \in Tasks, task[t] # Idle, Holds(t), Finish(t)
  PROVE  /\ task' \in [Tasks -> Asking \cup {Idle}]
         /\ queue' \in Seq(Tasks)
         /\ Locked'
<1>1. CASE Lookup(t)
  <2>1. Goto(t, "dispatch") /\ Release
    BY <1>1 DEF Finish
  <2>2. /\ task' \in [Tasks -> Asking \cup {Idle}]
        /\ task'[t] = [task[t] EXCEPT !.pc = "dispatch"]
        /\ \A u \in Tasks \ {t} : task'[u] = task[u]
    BY <2>1, GotoTyped DEF Pcs
  <2>3. task'[t].pc = "dispatch" /\ task'[t].event = task[t].event
    BY <2>2, AskingTask DEF Asking
  <2>4. LockedTask(t)'
    BY <1>1, <2>3 DEF Locked, LockedTask, LockSteps, At
  <2> QED
    BY <2>1, <2>2, <2>4, HolderSteps, ReleaseTyped
<1>2. CASE ~Lookup(t)
  <2>1. task' = [task EXCEPT ![t] = Idle] /\ Release
    BY <1>2 DEF Finish
  <2>2. /\ task' \in [Tasks -> Asking \cup {Idle}]
        /\ task'[t] = Idle
        /\ \A u \in Tasks \ {t} : task'[u] = task[u]
    BY <2>1, IdledTyped
  <2>3. LockedTask(t)'
    BY <2>2 DEF LockedTask, LockSteps, At, Idle
  <2> QED
    BY <2>1, <2>2, <2>3, HolderSteps, ReleaseTyped
<1> QED
  BY <1>1, <1>2

LEMMA InitIInv == Init => IInv
<1> SUFFICES ASSUME Init PROVE IInv
  OBVIOUS
<1>1. 0 \in 0..MaxNow
  BY AnswerAssumption
<1>2. table \in Contents
  BY <1>1, ContentsTyped DEF Init
<1>3. task \in [Tasks -> Asking \cup {Idle}]
  BY DEF Init
<1>4. TypeOK
  <2>1. queue \in Seq(Tasks)
    BY DEF Init
  <2>2. now \in 0..MaxNow /\ split \in BOOLEAN
    BY <1>1 DEF Init
  <2>3. cache = None /\ writer = None /\ result = None
    BY DEF Init
  <2> QED
    BY <1>2, <1>3, <2>1, <2>2, <2>3 DEF TypeOK
<1>5. Locked
  BY DEF Init, Locked, LockSteps, At, Idle
<1> QED
  BY <1>4, <1>5 DEF Init, IInv, FlushedInMemory, MemoryMatchesTable, AnsweredFromMemory

\* Decide, with the rows that are in memory after the step.
LEMMA DecideStep ==
  ASSUME IInv, NEW t \in Tasks, task[t] # Idle, Holds(t), NEW c \in Contents,
         Decide(t, c), cache' = c, UNCHANGED <<table, writer, now, split>>
  PROVE  TypeOK' /\ Locked' /\ AnsweredFromMemory'
<1>0. TypeOK /\ Locked /\ cache' # None
  BY NoneApart DEF IInv
<1>1. CASE Usable(t, c)
  <2>1. Finish(t) /\ Answered(t, c)
    BY <1>1 DEF Decide
  <2>2. /\ task' \in [Tasks -> Asking \cup {Idle}]
        /\ queue' \in Seq(Tasks)
        /\ Locked'
    BY <1>0, <2>1, FinishTyped
  <2>3. /\ result' \in Results \cup {None}
        /\ result' # None => result'.outcome = Resolve(c.rows, result'.event)
    BY <1>0, <2>1, AnsweredTyped
  <2> QED
    BY <1>0, <2>2, <2>3 DEF TypeOK, AnsweredFromMemory
<1>2. CASE ~Usable(t, c)
  <2>1. Goto(t, "fetch") /\ result' = None /\ queue' = queue
    BY <1>2 DEF Decide
  <2>2. /\ task' \in [Tasks -> Asking \cup {Idle}]
        /\ task'[t] = [task[t] EXCEPT !.pc = "fetch"]
        /\ \A u \in Tasks \ {t} : task'[u] = task[u]
    BY <1>0, <2>1, GotoTyped DEF Pcs
  <2>3. task'[t].pc = "fetch" /\ task'[t].event = task[t].event /\ task'[t].op = task[t].op
    BY <1>0, <2>2, AskingTask DEF Asking
  <2>4. LockedTask(t)'
    BY <1>0, <2>1, <2>3 DEF Locked, LockedTask, LockSteps, At, Lookup, Holds
  <2>5. Locked'
    BY <1>0, <2>2, <2>4, HolderSteps
  <2> QED
    BY <1>0, <2>1, <2>2, <2>5 DEF TypeOK, AnsweredFromMemory
<1> QED
  BY <1>1, <1>2

\* The three other parts, when neither the rows nor their writer change.
LEMMA MemoryUntouched ==
  ASSUME IInv, UNCHANGED <<table, cache, writer, split>>
  PROVE  FlushedInMemory' /\ MemoryMatchesTable'
  BY DEF IInv, FlushedInMemory, MemoryMatchesTable, Listed

LEMMA BeginStep ==
  ASSUME IInv, NEW t \in Tasks, Begin(t)
  PROVE  IInv'
<1>0. TypeOK /\ Locked
  BY DEF IInv
<1>1. PICK op \in {"preload", "refresh", "lookup"} :
        \E e \in IF op = "lookup" THEN Events ELSE {None} :
          task' = [task EXCEPT ![t] = [pc |-> "wait", op |-> op, event |-> e,
                                       got |-> NeverRefreshed]]
  BY DEF Begin
<1>2. PICK e \in IF op = "lookup" THEN Events ELSE {None} :
          task' = [task EXCEPT ![t] = [pc |-> "wait", op |-> op, event |-> e,
                                       got |-> NeverRefreshed]]
  BY <1>1
<1> DEFINE new == [pc |-> "wait", op |-> op, event |-> e, got |-> NeverRefreshed]
<1>3. new \in Asking
  <2>1. e \in Events \cup {None}
    BY <1>2
  <2> QED
    BY <2>1, ContentsTyped DEF Asking
<1>4. /\ task' \in [Tasks -> Asking \cup {Idle}]
      /\ task'[t] = new
      /\ \A u \in Tasks \ {t} : task'[u] = task[u]
  BY <1>0, <1>2, <1>3 DEF TypeOK
<1>5. /\ queue' \in Seq(Tasks)
      /\ \A u \in Tasks : Holds(u) => Holds(u)'
  BY <1>0 DEF TypeOK, Begin, Holds
<1>6. new.pc = "wait" /\ (new.op = "lookup" => new.event \in Events)
  BY <1>2
<1> HIDE DEF new
<1>7. LockedTask(t)'
  BY <1>4, <1>6 DEF LockedTask, LockSteps, At, Lookup
<1>8. \A u \in Tasks \ {t} : LockedTask(u)'
  BY <1>0, <1>4, <1>5 DEF Locked, LockedTask, LockSteps, At, Lookup, Begin
<1>9. Locked'
  BY <1>7, <1>8 DEF Locked, LockedTask
<1>10. TypeOK' /\ AnsweredFromMemory'
  BY <1>0, <1>4, <1>5 DEF Begin, TypeOK, AnsweredFromMemory
<1> QED
  BY <1>9, <1>10, MemoryUntouched DEF Begin, IInv

\* A holder goes on to a step, and gives no answer.
LEMMA GoOn ==
  ASSUME IInv, NEW t \in Tasks, task[t] # Idle, Holds(t), NEW pc \in Pcs,
         Goto(t, pc), result' = None, UNCHANGED <<table, cache, queue, writer, now, split>>,
         pc = "load" => cache = None,
         pc = "fetch" => task[t].op = "refresh" \/ cache # None,
         pc \in {"store", "blocked"} => task[t].got.rows \in Lists
  PROVE  IInv'
<1>0. TypeOK /\ Locked
  BY DEF IInv
<1>1. /\ task' \in [Tasks -> Asking \cup {Idle}]
      /\ task'[t] = [task[t] EXCEPT !.pc = pc]
      /\ \A u \in Tasks \ {t} : task'[u] = task[u]
  BY <1>0, GotoTyped
<1>2. /\ task'[t].pc = pc /\ task'[t].event = task[t].event
      /\ task'[t].op = task[t].op /\ task'[t].got = task[t].got
  BY <1>0, <1>1, AskingTask DEF Asking
<1>3. LockedTask(t)'
  BY <1>0, <1>2 DEF Locked, LockedTask, LockSteps, At, Lookup, Holds
<1>4. Locked'
  BY <1>0, <1>1, <1>3, HolderSteps
<1>5. TypeOK' /\ AnsweredFromMemory'
  BY <1>0, <1>1 DEF TypeOK, AnsweredFromMemory
<1> QED
  BY <1>4, <1>5, MemoryUntouched DEF IInv

LEMMA AcquireStep ==
  ASSUME IInv, NEW t \in Tasks, Acquire(t)
  PROVE  IInv'
<1>0. TypeOK /\ Locked /\ Holds(t) /\ task[t] # Idle
  BY DEF IInv, Acquire, At, Idle
<1>1. CASE task[t].op = "refresh"
  <2>1. Goto(t, "fetch") /\ result' = None /\ UNCHANGED <<table, cache, queue, writer, now, split>>
    BY <1>1 DEF Acquire
  <2> QED
    BY <1>0, <1>1, <2>1, GoOn DEF Pcs
<1>2. CASE task[t].op # "refresh" /\ cache = None
  <2>1. Goto(t, "load") /\ result' = None /\ UNCHANGED <<table, cache, queue, writer, now, split>>
    BY <1>2 DEF Acquire
  <2> QED
    BY <1>0, <1>2, <2>1, GoOn DEF Pcs
<1>3. CASE task[t].op # "refresh" /\ cache # None
  <2>1. Decide(t, cache) /\ UNCHANGED <<table, cache, writer, now, split>>
    BY <1>3 DEF Acquire
  <2>2. cache \in Contents
    BY <1>0, <1>3 DEF TypeOK
  <2>3. TypeOK' /\ Locked' /\ AnsweredFromMemory'
    BY <1>0, <2>1, <2>2, DecideStep
  <2> QED
    BY <2>1, <2>3, MemoryUntouched DEF IInv
<1> QED
  BY <1>1, <1>2, <1>3

LEMMA LoadStep ==
  ASSUME IInv, NEW t \in Tasks, Load(t)
  PROVE  IInv'
<1>0. TypeOK /\ Locked /\ task[t] # Idle
  BY DEF IInv, Load, At, Idle
<1>1. Holds(t) /\ cache = None
  BY <1>0 DEF Locked, Load, At, LockSteps
<1>2. table \in Contents
  BY <1>0 DEF TypeOK
<1>3. Decide(t, table) /\ cache' = table /\ UNCHANGED <<table, writer, now, split>>
  BY DEF Load
<1>4. TypeOK' /\ Locked' /\ AnsweredFromMemory'
  BY <1>0, <1>1, <1>2, <1>3, DecideStep
<1>5. writer = None
  BY <1>1, NoneApart, <1>0 DEF IInv, FlushedInMemory, TypeOK
<1>6. FlushedInMemory' /\ MemoryMatchesTable'
  BY <1>3, <1>5 DEF FlushedInMemory, MemoryMatchesTable, Listed
<1> QED
  BY <1>4, <1>6 DEF IInv

LEMMA FetchFailsStep ==
  ASSUME IInv, NEW t \in Tasks, FetchFails(t)
  PROVE  IInv'
<1>0. TypeOK /\ Locked /\ task[t] # Idle
  BY DEF IInv, FetchFails, At, Idle
<1>1. Holds(t) /\ (Lookup(t) => cache # None)
  BY <1>0 DEF Locked, FetchFails, At, LockSteps
<1>2. task' \in [Tasks -> Asking \cup {Idle}] /\ queue' \in Seq(Tasks) /\ Locked'
  BY <1>0, <1>1, FinishTyped DEF FetchFails
<1>3. /\ result' \in Results \cup {None}
      /\ result' # None => /\ result'.outcome = Resolve(cache.rows, result'.event)
                           /\ Lookup(t)
  BY <1>0, AnsweredTyped DEF FetchFails
<1>4. UNCHANGED <<table, cache, writer, now, split>>
  BY DEF FetchFails
<1>5. TypeOK' /\ AnsweredFromMemory'
  BY <1>0, <1>1, <1>2, <1>3, <1>4 DEF TypeOK, AnsweredFromMemory
<1> QED
  BY <1>2, <1>4, <1>5, MemoryUntouched DEF IInv

LEMMA FetchEmptyStep ==
  ASSUME IInv, NEW t \in Tasks, NEW answer \in Answers, FetchEmpty(t, answer)
  PROVE  IInv'
<1>0. TypeOK /\ Locked /\ task[t] # Idle
  BY DEF IInv, FetchEmpty, At, Idle
<1>1. Holds(t) /\ (Lookup(t) => cache # None)
  BY <1>0 DEF Locked, FetchEmpty, At, LockSteps
<1>2. task' \in [Tasks -> Asking \cup {Idle}] /\ queue' \in Seq(Tasks) /\ Locked'
  BY <1>0, <1>1, FinishTyped DEF FetchEmpty
<1>3. Answered(t, cache')
  BY DEF FetchEmpty
<1>4. /\ result' \in Results \cup {None}
      /\ result' # None => /\ result'.outcome = Resolve(cache'.rows, result'.event)
                           /\ Lookup(t)
  BY <1>0, <1>3, AnsweredTyped
<1>5. UNCHANGED <<table, writer, now>>
  BY DEF FetchEmpty
<1>6. CASE cache = None \/ cache.rows = {}
  <2>1. /\ cache' = Stored({}, now)
        /\ split' = (split \/ (cache = None /\ table.rows # {}))
    BY <1>6 DEF FetchEmpty
  <2>2. cache' \in Contents /\ cache' # None
    BY <1>0, <2>1, ContentsTyped, NoneApart DEF TypeOK
  <2>3. split' \in BOOLEAN
    BY <1>0, <2>1 DEF TypeOK
  <2>4. TypeOK' /\ AnsweredFromMemory'
    BY <1>0, <1>2, <1>4, <1>5, <2>2, <2>3 DEF TypeOK, AnsweredFromMemory
  <2>5. writer = None
    <3>1. \A S \in Lists : S # {}
      BY ListsTyped
    <3> QED
      BY <1>0, <1>6, <3>1, NoneApart DEF IInv, FlushedInMemory, TypeOK
  <2>6. cache'.rows = {}
    BY <2>1 DEF Stored
  <2>7. FlushedInMemory' /\ MemoryMatchesTable'
    BY <1>5, <1>6, <2>1, <2>5, <2>6 DEF IInv, FlushedInMemory, MemoryMatchesTable, Listed
  <2> QED
    BY <1>2, <2>4, <2>7 DEF IInv
<1>7. CASE ~(cache = None \/ cache.rows = {})
  <2>1. UNCHANGED <<cache, split>>
    BY <1>7 DEF FetchEmpty
  <2>2. TypeOK' /\ AnsweredFromMemory'
    BY <1>0, <1>2, <1>4, <1>5, <1>7, <2>1 DEF TypeOK, AnsweredFromMemory
  <2> QED
    BY <1>2, <1>5, <2>1, <2>2, MemoryUntouched DEF IInv
<1> QED
  BY <1>6, <1>7

LEMMA FetchRowsStep ==
  ASSUME IInv, NEW t \in Tasks, NEW answer \in Answers, FetchRows(t, answer)
  PROVE  IInv'
<1> DEFINE S == Normalised(answer, Home)
<1>0. TypeOK /\ Locked /\ task[t] # Idle
  BY DEF IInv, FetchRows, At, Idle
<1>1. Holds(t)
  BY <1>0 DEF Locked, FetchRows, At, LockSteps
<1>2. S \in Lists
  BY DEF FetchRows, Lists
<1>3. task' = [task EXCEPT ![t].pc = "store", ![t].got = Stored(S, now)]
      /\ result' = None /\ UNCHANGED <<table, cache, queue, writer, now, split>>
  BY DEF FetchRows
<1> HIDE DEF S
<1>4. Stored(S, now) \in Contents /\ Stored(S, now).rows = S
  BY <1>0, <1>2, ContentsTyped DEF TypeOK, Stored
<1> DEFINE new == [[task[t] EXCEPT !.pc = "store"] EXCEPT !.got = Stored(S, now)]
<1>5. task[t] \in Asking
  BY <1>0, AskingTask
<1>6. /\ new \in Asking
      /\ new.pc = "store" /\ new.got = Stored(S, now)
      /\ new.event = task[t].event /\ new.op = task[t].op
  BY <1>4, <1>5 DEF Asking
<1>7. task' = [task EXCEPT ![t] = new]
  BY <1>3, <1>5 DEF Asking
<1> HIDE DEF new
<1>8. /\ task' \in [Tasks -> Asking \cup {Idle}]
      /\ task'[t] = new
      /\ \A u \in Tasks \ {t} : task'[u] = task[u]
  BY <1>0, <1>6, <1>7 DEF TypeOK
<1>9. LockedTask(t)'
  BY <1>0, <1>1, <1>2, <1>3, <1>4, <1>6, <1>8 DEF Locked, LockedTask, LockSteps, At, Lookup, Holds
<1>10. Locked'
  BY <1>0, <1>1, <1>8, <1>9, HolderSteps
<1>11. TypeOK' /\ AnsweredFromMemory'
  BY <1>0, <1>3, <1>8 DEF TypeOK, AnsweredFromMemory
<1> QED
  BY <1>3, <1>10, <1>11, MemoryUntouched DEF IInv

LEMMA StoreStep ==
  ASSUME IInv, NEW t \in Tasks, Store(t)
  PROVE  IInv'
<1> DEFINE pc == IF Lookup(t) THEN "dispatch" ELSE "commit"
<1>0. TypeOK /\ Locked /\ task[t] # Idle /\ pc \in Pcs \ LockSteps
  BY DEF IInv, Store, At, Idle, Pcs, LockSteps
<1>1. Holds(t) /\ task[t].got.rows \in Lists
  BY <1>0 DEF Locked, Store, At, LockSteps
<1>2. task[t].got \in Contents
  BY <1>0, AskingTask DEF Asking
<1>3. Goto(t, pc) /\ Release
  BY DEF Store
<1> HIDE DEF pc
<1>4. /\ task' \in [Tasks -> Asking \cup {Idle}]
      /\ task'[t] = [task[t] EXCEPT !.pc = pc]
      /\ \A u \in Tasks \ {t} : task'[u] = task[u]
  BY <1>0, <1>3, GotoTyped
<1>5. task'[t].pc = pc /\ task'[t].event = task[t].event /\ task'[t].op = task[t].op
  BY <1>0, <1>4, AskingTask DEF Asking
<1>6. LockedTask(t)'
  BY <1>0, <1>5 DEF Locked, LockedTask, LockSteps, At, Lookup
<1>7. Locked' /\ queue' \in Seq(Tasks)
  BY <1>0, <1>1, <1>3, <1>4, <1>6, HolderSteps, ReleaseTyped
<1>8. /\ result' \in Results \cup {None}
      /\ result' # None => result'.outcome = Resolve(task[t].got.rows, result'.event)
  <2>1. Answered(t, task[t].got)
    BY DEF Store
  <2> QED
    BY <1>0, <2>1, AnsweredTyped
<1>9. /\ writer' = [task |-> t, got |-> task[t].got]
      /\ cache' = task[t].got
      /\ UNCHANGED <<table, now, split>>
  BY DEF Store
<1>10. cache' # None /\ writer' # None
  BY <1>2, <1>9, NoneApart
<1>11. TypeOK' /\ AnsweredFromMemory'
  BY <1>0, <1>2, <1>4, <1>7, <1>8, <1>9, <1>10 DEF TypeOK, AnsweredFromMemory
<1>12. FlushedInMemory' /\ MemoryMatchesTable'
  BY <1>1, <1>9, <1>10 DEF FlushedInMemory, MemoryMatchesTable, Listed
<1> QED
  BY <1>7, <1>11, <1>12 DEF IInv

LEMMA BlockStep ==
  ASSUME IInv, NEW t \in Tasks, Block(t)
  PROVE  IInv'
<1>0. TypeOK /\ Locked /\ task[t] # Idle
  BY DEF IInv, Block, At, Idle
<1>1. Holds(t) /\ task[t].got.rows \in Lists
  BY <1>0 DEF Locked, Block, At, LockSteps
<1>2. Goto(t, "blocked") /\ result' = None /\ UNCHANGED <<table, cache, queue, writer, now, split>>
  BY DEF Block
<1> QED
  BY <1>0, <1>1, <1>2, GoOn DEF Pcs

\* A task leaves, and the others keep their places.
LEMMA LeaveTyped ==
  ASSUME IInv, NEW t \in Tasks, NEW pc \in {"conflict", "store"},
         \/ task' = [task EXCEPT ![t] = Idle]
         \/ End(t, pc),
         cache' = cache,
         \A u \in Tasks \ {t} : task[u].pc \in LockSteps => Holds(u)'
  PROVE  task' \in [Tasks -> Asking \cup {Idle}] /\ Locked'
<1>0. TypeOK /\ Locked
  BY DEF IInv
<1>1. CASE task' = [task EXCEPT ![t] = Idle]
  <2>1. /\ task' \in [Tasks -> Asking \cup {Idle}]
        /\ task'[t] = Idle
        /\ \A u \in Tasks \ {t} : task'[u] = task[u]
    BY <1>0, <1>1, IdledTyped
  <2>2. LockedTask(t)'
    BY <2>1 DEF LockedTask, LockSteps, At, Idle
  <2>3. \A u \in Tasks \ {t} : LockedTask(u)'
    BY <1>0, <2>1 DEF Locked, LockedTask, LockSteps, At, Lookup
  <2> QED
    BY <2>1, <2>2, <2>3 DEF Locked, LockedTask
<1>2. CASE End(t, pc)
  <2>1. ASSUME NEW u \in Tasks
        PROVE  task'[u] \in Asking \cup {Idle} /\ LockedTask(u)'
    <3>1. CASE u = t
      <4>1. task'[u] = Idle
        BY <1>2, <3>1 DEF End
      <4> QED
        BY <4>1 DEF LockedTask, LockSteps, At, Idle
    <3>2. CASE u # t /\ At(u, "blocked")
      <4>1. task'[u] = [task[u] EXCEPT !.pc = pc]
        BY <1>2, <3>2 DEF End
      <4>2. task[u] \in Asking
        BY <1>0, <3>2, AskingTask DEF At, Idle
      <4>3. /\ task'[u] \in Asking
            /\ task'[u].pc = pc /\ task'[u].event = task[u].event
            /\ task'[u].op = task[u].op /\ task'[u].got = task[u].got
        BY <4>1, <4>2 DEF Asking
      <4>4. task[u] # Idle /\ Holds(u)' /\ task[u].got.rows \in Lists
        BY <1>0, <3>2 DEF Locked, At, LockSteps, Idle
      <4>5. Lookup(u) => task[u].event \in Events
        BY <1>0, <4>4 DEF Locked
      <4> QED
        BY <4>3, <4>4, <4>5 DEF LockedTask, At, Lookup
    <3>3. CASE u # t /\ ~At(u, "blocked")
      <4>1. task'[u] = task[u]
        BY <1>2, <3>3 DEF End
      <4> QED
        BY <1>0, <3>3, <4>1 DEF TypeOK, Locked, LockedTask, LockSteps, At, Lookup
    <3> QED
      BY <3>1, <3>2, <3>3
  <2> QED
    BY <1>2, <2>1 DEF End, Locked, LockedTask
<1> QED
  BY <1>1, <1>2

LEMMA ConflictStep ==
  ASSUME IInv, NEW t \in Tasks, Conflict(t)
  PROVE  IInv'
<1>0. TypeOK /\ Locked /\ task[t] # Idle
  BY DEF IInv, Conflict, At, Idle
<1>1. Holds(t)
  BY <1>0 DEF Locked, Conflict, At, LockSteps
<1>2. task' = [task EXCEPT ![t] = Idle] /\ Release /\ result' = None
      /\ UNCHANGED <<table, cache, writer, now, split>>
  BY DEF Conflict
<1>3. queue' \in Seq(Tasks)
  BY <1>0, <1>1, <1>2, ReleaseTyped
<1>4. task' \in [Tasks -> Asking \cup {Idle}] /\ Locked'
  BY <1>0, <1>1, <1>2, OthersWait, LeaveTyped
<1>5. TypeOK' /\ AnsweredFromMemory'
  BY <1>0, <1>2, <1>3, <1>4 DEF TypeOK, AnsweredFromMemory
<1> QED
  BY <1>2, <1>4, <1>5, MemoryUntouched DEF IInv

LEMMA CommitStep ==
  ASSUME IInv, NEW t \in Tasks, Commit(t)
  PROVE  IInv'
<1>0. TypeOK /\ Locked /\ UNCHANGED <<cache, queue, now>> /\ result' = None
  BY DEF IInv, Commit
<1>1. \A u \in Tasks : task[u].pc \in LockSteps => Holds(u)'
  BY <1>0 DEF Locked, Holds
<1>2. CASE writer # None /\ writer.task = t
  <2>1. table' = writer.got /\ writer' = None /\ split' = FALSE /\ End(t, "conflict")
    BY <1>2 DEF Commit
  <2>2. task' \in [Tasks -> Asking \cup {Idle}] /\ Locked'
    BY <1>0, <1>1, <2>1, LeaveTyped
  <2>3. writer.got \in Contents /\ cache = writer.got
    BY <1>0, <1>2 DEF TypeOK, IInv, FlushedInMemory
  <2>4. TypeOK' /\ AnsweredFromMemory'
    BY <1>0, <2>1, <2>2, <2>3 DEF TypeOK, AnsweredFromMemory
  <2>5. FlushedInMemory' /\ MemoryMatchesTable'
    BY <1>0, <2>1, <2>3 DEF FlushedInMemory, MemoryMatchesTable, Listed
  <2> QED
    BY <2>2, <2>4, <2>5 DEF IInv
<1>3. CASE ~(writer # None /\ writer.task = t)
  <2>1. task' = [task EXCEPT ![t] = Idle] /\ UNCHANGED <<table, writer, split>>
    BY <1>3 DEF Commit
  <2>2. task' \in [Tasks -> Asking \cup {Idle}] /\ Locked'
    BY <1>0, <1>1, <2>1, LeaveTyped
  <2>3. TypeOK' /\ AnsweredFromMemory'
    BY <1>0, <2>1, <2>2 DEF TypeOK, AnsweredFromMemory
  <2> QED
    BY <1>0, <2>1, <2>2, <2>3, MemoryUntouched DEF IInv
<1> QED
  BY <1>2, <1>3

LEMMA RollbackStep ==
  ASSUME IInv, NEW t \in Tasks, Rollback(t), queue' \in Seq(Tasks),
         \A u \in Tasks \ {t} : task[u].pc \in LockSteps => Holds(u)'
  PROVE  IInv'
<1>0. TypeOK /\ UNCHANGED <<table, cache, now>> /\ result' = None
  BY DEF IInv, Rollback
<1>1. CASE writer # None /\ writer.task = t
  <2>1. writer' = None /\ split' = TRUE /\ End(t, "store")
    BY <1>1 DEF Rollback
  <2>2. task' \in [Tasks -> Asking \cup {Idle}] /\ Locked'
    BY <1>0, <2>1, LeaveTyped
  <2> QED
    BY <1>0, <2>1, <2>2
    DEF IInv, TypeOK, FlushedInMemory, MemoryMatchesTable, AnsweredFromMemory
<1>2. CASE ~(writer # None /\ writer.task = t)
  <2>1. task' = [task EXCEPT ![t] = Idle] /\ UNCHANGED <<writer, split>>
    BY <1>2 DEF Rollback
  <2>2. task' \in [Tasks -> Asking \cup {Idle}] /\ Locked'
    BY <1>0, <2>1, LeaveTyped
  <2>3. TypeOK' /\ AnsweredFromMemory'
    BY <1>0, <2>1, <2>2 DEF TypeOK, AnsweredFromMemory
  <2> QED
    BY <1>0, <2>1, <2>2, <2>3, MemoryUntouched DEF IInv
<1> QED
  BY <1>1, <1>2

LEMMA CommitFailsStep ==
  ASSUME IInv, NEW t \in Tasks, CommitFails(t)
  PROVE  IInv'
<1>1. Rollback(t) /\ queue' = queue
  BY DEF CommitFails
<1>2. queue' \in Seq(Tasks) /\ \A u \in Tasks : task[u].pc \in LockSteps => Holds(u)'
  BY <1>1 DEF IInv, TypeOK, Locked, Holds
<1> QED
  BY <1>1, <1>2, RollbackStep

\* A waiting task that leaves the queue does not move its head.
LEMMA WithoutKeepsHead ==
  ASSUME NEW q \in Seq(Tasks), NEW i \in 1..Len(q)
  PROVE  /\ Without(q, i) \in Seq(Tasks)
         /\ q[i] # Head(q) => Without(q, i) # <<>> /\ Head(Without(q, i)) = Head(q)
<1>1. Len(q) - 1 \in Nat
  OBVIOUS
<1>2. \A j \in 1..(Len(q) - 1) : (IF j < i THEN q[j] ELSE q[j + 1]) \in Tasks
  OBVIOUS
<1>3. Without(q, i) \in Seq(Tasks) /\ Len(Without(q, i)) = Len(q) - 1
  BY <1>1, <1>2 DEF Without
<1>4. ASSUME q[i] # Head(q)
      PROVE  Without(q, i) # <<>> /\ Head(Without(q, i)) = Head(q)
  <2>1. i > 1 /\ 1 \in 1..(Len(q) - 1)
    BY <1>4
  <2>2. Without(q, i)[1] = q[1]
    BY <2>1 DEF Without
  <2> QED
    BY <1>3, <2>1, <2>2
<1> QED
  BY <1>3, <1>4

LEMMA CancelStep ==
  ASSUME IInv, NEW t \in Tasks, Cancel(t)
  PROVE  IInv'
<1>0. TypeOK /\ Locked /\ Rollback(t)
  BY DEF IInv, Cancel
<1>1. queue' \in Seq(Tasks) /\ \A u \in Tasks \ {t} : Holds(u) => Holds(u)'
  <2>1. CASE \E i \in 1..Len(queue) : queue[i] = t
    <3>1. PICK i \in 1..Len(queue) : queue[i] = t /\ queue' = Without(queue, i)
      BY <2>1 DEF Cancel
    <3> QED
      BY <1>0, <3>1, WithoutKeepsHead DEF TypeOK, Holds
  <2>2. CASE ~(\E i \in 1..Len(queue) : queue[i] = t)
    BY <1>0, <2>2 DEF Cancel, TypeOK, Holds
  <2> QED
    BY <2>1, <2>2
<1> QED
  BY <1>0, <1>1, RollbackStep DEF Locked

LEMMA CrashStep ==
  ASSUME IInv, Crash
  PROVE  IInv'
<1>1. /\ task' = [t \in Tasks |-> Idle]
      /\ queue' = <<>> /\ cache' = None /\ writer' = None
      /\ split' = FALSE /\ result' = None
      /\ UNCHANGED <<table, now>>
  BY DEF Crash
<1>2. task' \in [Tasks -> Asking \cup {Idle}] /\ queue' \in Seq(Tasks)
  BY <1>1
<1>3. Locked'
  BY <1>1 DEF Locked, LockSteps, At, Idle
<1> QED
  BY <1>1, <1>2, <1>3
  DEF IInv, TypeOK, FlushedInMemory, MemoryMatchesTable, AnsweredFromMemory

LEMMA TickStep ==
  ASSUME IInv, Tick
  PROVE  IInv'
<1>1. now' \in 0..MaxNow /\ result' = None
      /\ UNCHANGED <<table, cache, queue, task, writer, split>>
  BY AnswerAssumption DEF IInv, TypeOK, Tick
<1>2. Locked'
  BY <1>1 DEF IInv, Locked, LockSteps, At, Lookup, Holds
<1>3. TypeOK' /\ AnsweredFromMemory'
  BY <1>1 DEF IInv, TypeOK, AnsweredFromMemory
<1> QED
  BY <1>1, <1>2, <1>3, MemoryUntouched DEF IInv

LEMMA NextIInv == IInv /\ [Next]_scriptVars => IInv'
<1> SUFFICES ASSUME IInv, [Next]_scriptVars PROVE IInv'
  OBVIOUS
<1>1. CASE UNCHANGED scriptVars
  <2>1. UNCHANGED <<table, cache, queue, task, writer, now, split, result>>
    BY <1>1 DEF scriptVars
  <2>2. Locked'
    BY <2>1 DEF IInv, Locked, LockSteps, At, Lookup, Holds
  <2>3. TypeOK' /\ AnsweredFromMemory'
    BY <2>1 DEF IInv, TypeOK, AnsweredFromMemory
  <2> QED
    BY <2>1, <2>2, <2>3, MemoryUntouched DEF IInv
<1>2. ASSUME NEW t \in Tasks, TaskStep(t) PROVE IInv'
  <2>1. ASSUME Fetch(t) PROVE IInv'
    BY <2>1, FetchFailsStep, FetchEmptyStep, FetchRowsStep DEF Fetch
  <2> QED
    BY <1>2, <2>1, AcquireStep, LoadStep, StoreStep, BlockStep, ConflictStep, CommitStep
    DEF TaskStep
<1> QED
  BY <1>1, <1>2, BeginStep, CommitFailsStep, CancelStep, CrashStep, TickStep DEF Next

LEMMA Inductive == Spec => []IInv
  BY InitIInv, NextIInv, PTL DEF Spec

-----------------------------------------------------------------------------
(***************************************************************************)
(* Every variable keeps its type, for any lists, events and tasks: a       *)
(* lookup asks about an event and is given an outcome.                     *)
(***************************************************************************)
THEOREM TypeCorrect == Spec => []TypeOK
<1>1. IInv => TypeOK
  BY DEF IInv
<1> QED
  BY <1>1, Inductive, PTL

(***************************************************************************)
(* The instruments in memory are those of the table, or those about to be  *)
(* committed, unless a rollback or an empty answer has split them.         *)
(***************************************************************************)
THEOREM MemoryFollowsTable == Spec => []MemoryMatchesTable
<1>1. IInv => MemoryMatchesTable
  BY DEF IInv
<1> QED
  BY <1>1, Inductive, PTL

(***************************************************************************)
(* A lookup is resolved to an instrument of the exchange's list that the   *)
(* ack describes and nothing competes with, however it overlaps with       *)
(* preloads, refreshes, failed commits, cancellations and restarts.        *)
(***************************************************************************)
THEOREM LookupsExact == Spec => []ResolvedIsExact
<1>1. ASSUME IInv PROVE ResolvedIsExact
  <2> SUFFICES ASSUME result # None, ~split
               PROVE  Exact(Listed, result.event, result.outcome)
    BY DEF ResolvedIsExact
  <2>1. /\ cache # None
        /\ result.outcome = Resolve(cache.rows, result.event)
        /\ cache.rows = Listed
    BY <1>1 DEF IInv, AnsweredFromMemory, MemoryMatchesTable
  <2>2. result.event \in Lookups
    BY <1>1, AnswerAssumption DEF IInv, TypeOK, Results
  <2>3. cache.rows \in SUBSET Records
    BY <1>1, <2>1, ListsTyped DEF IInv, TypeOK, Contents
  <2> QED
    BY <2>1, <2>2, <2>3, ResolveExact
<1> QED
  BY <1>1, Inductive, PTL
-----------------------------------------------------------------------------
(***************************************************************************)
(* Nobody waits for himself.  The line at the lock is exactly the tasks    *)
(* that need it, each once; rows that are flushed belong to a task whose   *)
(* next step ends its transaction, and which needs the lock no more.       *)
(***************************************************************************)
InLine(q, t) == \E i \in 1..Len(q) : q[i] = t

OnceInLine(q) == \A i, j \in 1..Len(q) : q[i] = q[j] => i = j

NeedsLock(t) == task[t].pc \in LockSteps \cup {"wait"}

QueueInv ==
  /\ OnceInLine(queue)
  /\ \A t \in Tasks : InLine(queue, t) <=> NeedsLock(t)

WriterInv ==
  /\ writer # None => Ending(writer.task)
  /\ \A t \in Tasks : At(t, "blocked") => writer # None

\* The states in which a step of the task's own is possible.
CanGo(t) ==
  \/ task[t].pc \in {"load", "fetch", "store", "conflict", "commit", "dispatch"}
  \/ At(t, "wait") /\ Holds(t)

\* It can go, or it waits for rows of a task that can.
Proceeds(t) ==
  CanGo(t) \/ (At(t, "blocked") /\ writer # None /\ CanGo(writer.task))

(***************************************************************************)
(* No circular wait: a task that cannot go waits for the lock, where it is *)
(* in line behind a holder that proceeds, or for rows whose transaction    *)
(* does not need the lock.                                                 *)
(***************************************************************************)
NoStandstill ==
  \A t \in Tasks :
    task[t] # Idle =>
      \/ Proceeds(t)
      \/ At(t, "wait") /\ InLine(queue, t) /\ Proceeds(Head(queue))

\* What joining, leaving at the head and leaving do to a line.
LEMMA AppendLine ==
  ASSUME NEW q \in Seq(Tasks), NEW t \in Tasks, ~InLine(q, t), OnceInLine(q)
  PROVE  /\ OnceInLine(Append(q, t))
         /\ \A u \in Tasks : InLine(Append(q, t), u) <=> InLine(q, u) \/ u = t
<1> DEFINE p == Append(q, t)
<1>1. Len(q) \in Nat /\ Len(p) = Len(q) + 1
  OBVIOUS
<1>2. \A i \in 1..Len(p) : p[i] = IF i = Len(q) + 1 THEN t ELSE q[i]
  OBVIOUS
<1>3. \A i \in 1..Len(p) : i = Len(q) + 1 \/ i \in 1..Len(q)
  BY <1>1
<1>4. \A i \in 1..Len(q) : i \in 1..Len(p) /\ i # Len(q) + 1
  BY <1>1
<1>5. Len(q) + 1 \in 1..Len(p)
  BY <1>1
<1> HIDE DEF p
<1>6. OnceInLine(p)
  BY <1>2, <1>3, <1>4 DEF OnceInLine, InLine
<1>7. \A u \in Tasks : InLine(p, u) <=> InLine(q, u) \/ u = t
  BY <1>2, <1>3, <1>4, <1>5 DEF InLine
<1> QED
  BY <1>6, <1>7 DEF p

LEMMA WithoutLine ==
  ASSUME NEW q \in Seq(Tasks), OnceInLine(q), NEW i \in 1..Len(q)
  PROVE  /\ OnceInLine(Without(q, i))
         /\ \A u \in Tasks : InLine(Without(q, i), u) <=> InLine(q, u) /\ u # q[i]
<1> DEFINE p == Without(q, i)
           Old(j) == IF j < i THEN j ELSE j + 1
<1>1. Len(q) \in Nat /\ Len(q) - 1 \in Nat
  OBVIOUS
<1>2. \A j \in 1..(Len(q) - 1) : (IF j < i THEN q[j] ELSE q[j + 1]) \in Tasks
  OBVIOUS
<1>3. Len(p) = Len(q) - 1
  BY <1>1, <1>2 DEF Without
<1>4. \A j \in 1..Len(p) : /\ Old(j) \in 1..Len(q)
                           /\ Old(j) # i
                           /\ p[j] = q[Old(j)]
  BY <1>1, <1>3 DEF Without
<1>5. \A j, k \in 1..Len(p) : Old(j) = Old(k) => j = k
  BY <1>3
<1>6. \A k \in 1..Len(q) : k # i => \E j \in 1..Len(p) : Old(j) = k
  <2> SUFFICES ASSUME NEW k \in 1..Len(q), k # i PROVE \E j \in 1..Len(p) : Old(j) = k
    OBVIOUS
  <2>1. CASE k < i
    BY <1>1, <1>3, <2>1
  <2>2. CASE k > i
    <3>1. k - 1 \in 1..Len(p) /\ Old(k - 1) = k
      BY <1>1, <1>3, <2>2
    <3> QED  BY <3>1
  <2> QED  BY <2>1, <2>2
<1> HIDE DEF p, Old
<1>7. OnceInLine(p)
  BY <1>4, <1>5 DEF OnceInLine
<1>8. \A u \in Tasks : InLine(p, u) <=> InLine(q, u) /\ u # q[i]
  BY <1>4, <1>6 DEF OnceInLine, InLine
<1> QED
  BY <1>7, <1>8 DEF p

LEMMA TailLine ==
  ASSUME NEW q \in Seq(Tasks), OnceInLine(q), q # <<>>
  PROVE  /\ OnceInLine(Tail(q))
         /\ \A u \in Tasks : InLine(Tail(q), u) <=> InLine(q, u) /\ u # Head(q)
<1> DEFINE p == Tail(q)
<1>1. Len(q) \in Nat /\ Len(p) = Len(q) - 1
  OBVIOUS
<1>2. \A j \in 1..Len(p) : j + 1 \in 1..Len(q) /\ p[j] = q[j + 1]
  OBVIOUS
<1>3. \A k \in 1..Len(q) : k # 1 => k - 1 \in 1..Len(p) /\ (k - 1) + 1 = k
  BY <1>1
<1>4. 1 \in 1..Len(q) /\ Head(q) = q[1]
  BY <1>1
<1>5. \A j, k \in 1..Len(p) : j + 1 = k + 1 => j = k
  OBVIOUS
<1>6. \A j \in 1..Len(p) : j + 1 # 1
  BY <1>1
<1> HIDE DEF p
<1>7. OnceInLine(p)
  BY <1>2, <1>5 DEF OnceInLine
<1>8. \A u \in Tasks : InLine(p, u) <=> InLine(q, u) /\ u # Head(q)
  <2> SUFFICES ASSUME NEW u \in Tasks
               PROVE  InLine(p, u) <=> InLine(q, u) /\ u # q[1]
    BY <1>4
  <2>1. ASSUME NEW j \in 1..Len(p), p[j] = u PROVE InLine(q, u) /\ u # q[1]
    BY <1>2, <1>4, <1>6, <2>1 DEF InLine, OnceInLine
  <2>2. ASSUME NEW k \in 1..Len(q), q[k] = u, u # q[1] PROVE InLine(p, u)
    <3>1. k - 1 \in 1..Len(p) /\ (k - 1) + 1 = k
      BY <1>3, <2>2
    <3>2. p[k - 1] = u
      BY <1>2, <2>2, <3>1
    <3> QED  BY <3>1, <3>2 DEF InLine
  <2> QED  BY <2>1, <2>2 DEF InLine
<1> QED
  BY <1>7, <1>8 DEF p

\* The three ways a step leaves the line: as it was, or without one task.
LEMMA SameLine ==
  ASSUME QueueInv, queue' = queue, \A u \in Tasks : NeedsLock(u)' <=> NeedsLock(u)
  PROVE  QueueInv'
  BY DEF QueueInv

LEMMA LineWithout ==
  ASSUME QueueInv, NEW t \in Tasks, OnceInLine(queue'),
         \A u \in Tasks : InLine(queue', u) <=> InLine(queue, u) /\ u # t,
         ~NeedsLock(t)', \A u \in Tasks \ {t} : NeedsLock(u)' <=> NeedsLock(u)
  PROVE  QueueInv'
  BY DEF QueueInv

LEMMA ReleasedLine ==
  ASSUME TypeOK, QueueInv, NEW t \in Tasks, Holds(t), Release, ~NeedsLock(t)',
         \A u \in Tasks \ {t} : NeedsLock(u)' <=> NeedsLock(u)
  PROVE  QueueInv'
<1>1. queue \in Seq(Tasks) /\ queue # <<>> /\ Head(queue) = t /\ queue' = Tail(queue)
  BY DEF TypeOK, Holds, Release
<1>2. OnceInLine(queue') /\ \A u \in Tasks : InLine(queue', u) <=> InLine(queue, u) /\ u # t
  BY <1>1, TailLine DEF QueueInv
<1> QED
  BY <1>2, LineWithout

\* A step of a task that has no rows of its own, and finds those of another
\* when it blocks.
LEMMA SameWriter ==
  ASSUME TypeOK, WriterInv, NEW t \in Tasks, ~Ending(t), writer' = writer,
         \A u \in Tasks \ {t} : task'[u] = task[u],
         task'[t].pc = "blocked" => writer # None
  PROVE  WriterInv'
<1>1. writer # None => writer.task \in Tasks \ {t} /\ writer'.task = writer.task
  BY DEF TypeOK, WriterInv
<1> QED
  BY <1>1 DEF WriterInv, Ending, At

StandInv == QueueInv /\ WriterInv

\* The holder goes on and keeps the lock.
LEMMA HolderGoesOn ==
  ASSUME IInv, StandInv, NEW t \in Tasks, task[t].pc \in LockSteps \cup {"wait"},
         NEW pc \in LockSteps, Goto(t, pc), UNCHANGED <<queue, writer>>,
         pc = "blocked" => writer # None
  PROVE  StandInv'
<1>1. TypeOK /\ task[t] # Idle /\ pc \in Pcs
  BY DEF IInv, LockSteps, Idle, Pcs
<1>2. /\ task'[t] = [task[t] EXCEPT !.pc = pc]
      /\ \A u \in Tasks \ {t} : task'[u] = task[u]
  BY <1>1, GotoTyped
<1>3. task'[t].pc = pc
  BY <1>1, <1>2, AskingTask DEF Asking
<1>4. QueueInv'
  BY <1>2, <1>3, SameLine DEF NeedsLock, StandInv
<1>5. ~Ending(t)
  BY DEF Ending, At, LockSteps
<1> QED
  BY <1>1, <1>2, <1>3, <1>4, <1>5, SameWriter DEF StandInv

\* The holder gives the lock back, and needs it no more.
LEMMA HolderLeaves ==
  ASSUME IInv, StandInv, NEW t \in Tasks, task[t].pc \in LockSteps \cup {"wait"}, Holds(t),
         Finish(t) \/ (Release /\ task' = [task EXCEPT ![t] = Idle]), writer' = writer
  PROVE  StandInv'
<1>1. TypeOK /\ task[t] # Idle /\ ~Ending(t)
  BY DEF IInv, LockSteps, Idle, Ending, At
<1>2. Release /\ task'[t].pc \in {"dispatch", "idle"} /\ \A u \in Tasks \ {t} : task'[u] = task[u]
  <2>1. CASE Goto(t, "dispatch") /\ Release
    BY <1>1, <2>1, GotoTyped, AskingTask DEF Pcs, Asking
  <2>2. CASE Release /\ task' = [task EXCEPT ![t] = Idle]
    BY <1>1, <2>2, IdledTyped DEF Idle
  <2> QED
    BY <2>1, <2>2 DEF Finish
<1>3. QueueInv'
  BY <1>1, <1>2, ReleasedLine DEF NeedsLock, LockSteps, StandInv
<1> QED
  BY <1>1, <1>2, <1>3, SameWriter DEF StandInv

\* A task ends outside the lock or leaves the line; those that waited for its
\* rows go on with them gone.
LEMMA RowsLetGo ==
  ASSUME IInv, StandInv, NEW t \in Tasks, NEW pc \in {"conflict", "store"},
         IF writer # None /\ writer.task = t
           THEN writer' = None /\ End(t, pc)
           ELSE writer' = writer /\ task' = [task EXCEPT ![t] = Idle],
         OnceInLine(queue'),
         \A u \in Tasks : InLine(queue', u) <=> InLine(queue, u) /\ u # t
  PROVE  StandInv'
<1>0. TypeOK
  BY DEF IInv
<1>1. CASE writer # None /\ writer.task = t
  <2>1. /\ writer' = None
        /\ task' = [u \in Tasks |-> IF u = t THEN Idle
                                    ELSE IF At(u, "blocked") THEN [task[u] EXCEPT !.pc = pc]
                                    ELSE task[u]]
    BY <1>1 DEF End
  <2>2. task'[t] = Idle
    BY <2>1
  <2>3. ASSUME NEW u \in Tasks \ {t}
        PROVE  task'[u].pc = IF At(u, "blocked") THEN pc ELSE task[u].pc
    <3>1. CASE At(u, "blocked")
      <4>1. task'[u] = [task[u] EXCEPT !.pc = pc]
        BY <2>1, <3>1
      <4>2. task[u] \in Asking
        BY <1>0, <3>1, AskingTask DEF At, Idle
      <4> QED
        BY <3>1, <4>1, <4>2 DEF Asking
    <3>2. CASE ~At(u, "blocked")
      BY <2>1, <3>2
    <3> QED
      BY <3>1, <3>2
  <2>4. ~NeedsLock(t)' /\ \A u \in Tasks \ {t} : NeedsLock(u)' <=> NeedsLock(u)
    BY <2>2, <2>3 DEF NeedsLock, LockSteps, At, Idle
  <2>5. \A u \in Tasks : task'[u].pc # "blocked"
    BY <2>2, <2>3 DEF At, Idle
  <2> QED
    BY <2>1, <2>4, <2>5, LineWithout DEF StandInv, WriterInv, At
<1>2. CASE ~(writer # None /\ writer.task = t)
  <2>1. writer' = writer /\ task' = [task EXCEPT ![t] = Idle]
    BY <1>2
  <2>2. task'[t] = Idle /\ \A u \in Tasks \ {t} : task'[u] = task[u]
    BY <1>0, <2>1, IdledTyped
  <2>3. QueueInv'
    BY <2>2, LineWithout DEF NeedsLock, LockSteps, Idle, StandInv
  <2>4. writer # None => writer.task \in Tasks \ {t} /\ writer'.task = writer.task
    BY <1>0, <1>2, <2>1 DEF TypeOK
  <2> QED
    BY <2>1, <2>2, <2>3, <2>4 DEF StandInv, WriterInv, Ending, At, Idle
<1> QED
  BY <1>1, <1>2

\* The steps, one by one.
LEMMA StandTaskStep ==
  ASSUME IInv, StandInv, NEW t \in Tasks, TaskStep(t)
  PROVE  StandInv'
<1>0. TypeOK /\ Locked
  BY DEF IInv
<1>1. task[t].pc \in LockSteps => Holds(t)
  BY <1>0 DEF Locked
<1>2. ASSUME NEW c, Decide(t, c), task[t].pc \in LockSteps \cup {"wait"}, Holds(t),
             writer' = writer
      PROVE  StandInv'
  <2>1. CASE Usable(t, c)
    BY <1>2, <2>1, HolderLeaves DEF Decide
  <2>2. CASE ~Usable(t, c)
    BY <1>2, <2>2, HolderGoesOn DEF Decide, LockSteps
  <2> QED
    BY <2>1, <2>2
<1>3. CASE Acquire(t)
  <2>1. At(t, "wait") /\ Holds(t) /\ writer' = writer
    BY <1>3 DEF Acquire
  <2>2. CASE task[t].op = "refresh"
    BY <1>3, <2>1, <2>2, HolderGoesOn DEF Acquire, At, LockSteps
  <2>3. CASE task[t].op # "refresh" /\ cache = None
    BY <1>3, <2>1, <2>3, HolderGoesOn DEF Acquire, At, LockSteps
  <2>4. CASE task[t].op # "refresh" /\ cache # None
    BY <1>2, <1>3, <2>1, <2>4 DEF Acquire, At
  <2> QED
    BY <2>2, <2>3, <2>4
<1>4. CASE Load(t)
  BY <1>1, <1>2, <1>4 DEF Load, At, LockSteps
<1>5. CASE Fetch(t)
  <2>1. CASE FetchFails(t)
    BY <1>1, <2>1, HolderLeaves DEF FetchFails, At, LockSteps
  <2>2. ASSUME NEW answer \in Answers, FetchEmpty(t, answer) PROVE StandInv'
    BY <1>1, <2>2, HolderLeaves DEF FetchEmpty, At, LockSteps
  <2>3. ASSUME NEW answer \in Answers, FetchRows(t, answer) PROVE StandInv'
    <3>1. task[t] # Idle /\ task[t].pc = "fetch"
      BY <2>3 DEF FetchRows, At, Idle
    <3>2. task[t] \in Asking
      BY <1>0, <3>1, AskingTask
    <3> DEFINE got == Stored(Normalised(answer, Home), now)
    <3>3. task' = [task EXCEPT ![t].pc = "store", ![t].got = got]
      BY <2>3 DEF FetchRows
    <3> HIDE DEF got
    <3>4. task'[t].pc = "store" /\ \A u \in Tasks \ {t} : task'[u] = task[u]
      BY <1>0, <3>2, <3>3 DEF TypeOK, Asking
    <3>5. UNCHANGED <<queue, writer>>
      BY <2>3 DEF FetchRows
    <3>6. QueueInv'
      BY <3>1, <3>4, <3>5, SameLine DEF NeedsLock, LockSteps, StandInv
    <3> QED
      BY <1>0, <3>1, <3>4, <3>5, <3>6, SameWriter DEF StandInv, Ending, At
  <2> QED
    BY <1>5, <2>1, <2>2, <2>3 DEF Fetch
<1>6. CASE Store(t)
  <2> DEFINE pc == IF Lookup(t) THEN "dispatch" ELSE "commit"
  <2>1. /\ task[t].pc = "store" /\ writer = None /\ writer' = [task |-> t, got |-> task[t].got]
        /\ Release /\ Goto(t, pc) /\ Holds(t)
    BY <1>1, <1>6 DEF Store, At, LockSteps
  <2>2. pc \in {"dispatch", "commit"} /\ pc \in Pcs
    BY DEF Pcs
  <2> HIDE DEF pc
  <2>3. task[t] # Idle
    BY <2>1 DEF Idle
  <2>4. /\ task'[t] = [task[t] EXCEPT !.pc = pc]
        /\ \A u \in Tasks \ {t} : task'[u] = task[u]
    BY <1>0, <2>1, <2>2, <2>3, GotoTyped
  <2>5. task'[t].pc = pc
    BY <1>0, <2>3, <2>4, AskingTask DEF Asking
  <2>6. QueueInv'
    BY <1>0, <2>1, <2>2, <2>4, <2>5, ReleasedLine DEF NeedsLock, LockSteps, StandInv
  <2>7. writer' # None
    BY <1>0, <2>1, <2>3, AskingTask, NoneApart DEF Asking
  <2>8. writer'.task = t
    BY <2>1
  <2> QED
    BY <2>2, <2>5, <2>6, <2>7, <2>8 DEF StandInv, WriterInv, Ending, At
<1>7. CASE Block(t)
  BY <1>7, HolderGoesOn DEF Block, At, LockSteps
<1>8. CASE Conflict(t)
  BY <1>1, <1>8, HolderLeaves DEF Conflict, At, LockSteps
<1>9. CASE Commit(t)
  <2>1. queue' = queue /\ ~NeedsLock(t)
    BY <1>9 DEF Commit, Ending, At, NeedsLock, LockSteps
  <2>2. OnceInLine(queue') /\ \A u \in Tasks : InLine(queue', u) <=> InLine(queue, u) /\ u # t
    BY <2>1 DEF StandInv, QueueInv
  <2>3. IF writer # None /\ writer.task = t
          THEN writer' = None /\ End(t, "conflict")
          ELSE writer' = writer /\ task' = [task EXCEPT ![t] = Idle]
    BY <1>9 DEF Commit
  <2> QED
    BY <2>2, <2>3, RowsLetGo
<1> QED
  BY <1>3, <1>4, <1>5, <1>6, <1>7, <1>8, <1>9 DEF TaskStep

LEMMA StandRollback ==
  ASSUME IInv, StandInv, NEW t \in Tasks, CommitFails(t) \/ Cancel(t)
  PROVE  StandInv'
<1>0. queue \in Seq(Tasks) /\ OnceInLine(queue)
  BY DEF IInv, TypeOK, StandInv, QueueInv
<1>1. IF writer # None /\ writer.task = t
        THEN writer' = None /\ End(t, "store")
        ELSE writer' = writer /\ task' = [task EXCEPT ![t] = Idle]
  BY DEF CommitFails, Cancel, Rollback
<1>2. OnceInLine(queue') /\ \A u \in Tasks : InLine(queue', u) <=> InLine(queue, u) /\ u # t
  <2>1. CASE queue' = queue /\ ~InLine(queue, t)
    BY <1>0, <2>1
  <2>2. CASE CommitFails(t)
    <3>1. queue' = queue /\ ~NeedsLock(t)
      BY <2>2 DEF CommitFails, Ending, At, NeedsLock, LockSteps
    <3> QED
      BY <2>1, <3>1 DEF StandInv, QueueInv
  <2>3. CASE Cancel(t) /\ InLine(queue, t)
    <3>1. PICK i \in 1..Len(queue) : queue[i] = t /\ queue' = Without(queue, i)
      BY <2>3 DEF Cancel, InLine
    <3> QED
      BY <1>0, <3>1, WithoutLine
  <2>4. CASE Cancel(t) /\ ~InLine(queue, t)
    BY <2>1, <2>4 DEF Cancel, InLine
  <2> QED
    BY <2>2, <2>3, <2>4
<1> QED
  BY <1>1, <1>2, RowsLetGo

LEMMA StandBegin ==
  ASSUME IInv, StandInv, NEW t \in Tasks, Begin(t)
  PROVE  StandInv'
<1>0. TypeOK /\ task[t] = Idle /\ queue' = Append(queue, t) /\ writer' = writer
  BY DEF IInv, Begin
<1>1. PICK new : task' = [task EXCEPT ![t] = new] /\ new.pc = "wait"
  <2>1. PICK op \in {"preload", "refresh", "lookup"} :
          \E e \in IF op = "lookup" THEN Events ELSE {None} :
            task' = [task EXCEPT ![t] = [pc |-> "wait", op |-> op, event |-> e,
                                         got |-> NeverRefreshed]]
    BY DEF Begin
  <2>2. PICK e : task' = [task EXCEPT ![t] = [pc |-> "wait", op |-> op, event |-> e,
                                              got |-> NeverRefreshed]]
    BY <2>1
  <2> DEFINE asked == [pc |-> "wait", op |-> op, event |-> e, got |-> NeverRefreshed]
  <2>3. asked.pc = "wait" /\ task' = [task EXCEPT ![t] = asked]
    BY <2>2
  <2> HIDE DEF asked
  <2> QED
    BY <2>3
<1>2. task'[t].pc = "wait" /\ \A u \in Tasks \ {t} : task'[u] = task[u]
  BY <1>0, <1>1 DEF TypeOK
<1>3. ~InLine(queue, t)
  BY <1>0 DEF StandInv, QueueInv, NeedsLock, LockSteps, Idle
<1>4. /\ OnceInLine(queue')
      /\ \A u \in Tasks : InLine(queue', u) <=> InLine(queue, u) \/ u = t
  BY <1>0, <1>3, AppendLine DEF TypeOK, StandInv, QueueInv
<1>5. QueueInv'
  BY <1>2, <1>4 DEF QueueInv, NeedsLock, StandInv
<1>6. ~Ending(t)
  BY <1>0 DEF Ending, At, Idle
<1> QED
  BY <1>0, <1>2, <1>5, <1>6, SameWriter DEF StandInv

LEMMA StandStep ==
  ASSUME IInv, StandInv, [Next]_scriptVars
  PROVE  StandInv'
<1>1. CASE Crash
  <2>1. queue' = <<>> /\ writer' = None /\ \A t \in Tasks : task'[t].pc = "idle"
    BY <1>1 DEF Crash, Idle
  <2> QED
    BY <2>1 DEF StandInv, QueueInv, WriterInv, OnceInLine, InLine, NeedsLock, LockSteps, At
<1>2. CASE Tick \/ UNCHANGED scriptVars
  <2>1. UNCHANGED <<queue, writer, task>>
    BY <1>2 DEF Tick, scriptVars
  <2> QED
    BY <2>1 DEF StandInv, QueueInv, WriterInv, NeedsLock, Ending, At
<1> QED
  BY <1>1, <1>2, StandTaskStep, StandRollback, StandBegin DEF Next

(***************************************************************************)
(* The lock of an exchange and the rows of its list never make tasks wait  *)
(* for each other in a circle, although the lock is released before the    *)
(* rows are committed: the safety half of TasksReturn, for any number of   *)
(* preloads, refreshes and lookups.                                        *)
(***************************************************************************)
THEOREM TasksNeverStandStill == Spec => []NoStandstill
<1>1. Init => StandInv
  BY DEF Init, StandInv, QueueInv, WriterInv, OnceInLine, InLine, NeedsLock, LockSteps, At, Idle
<1>2. IInv /\ StandInv /\ [Next]_scriptVars => StandInv'
  BY StandStep
<1>3. IInv /\ StandInv => NoStandstill
  <2> SUFFICES ASSUME IInv, StandInv, NEW t \in Tasks, task[t] # Idle
               PROVE  \/ Proceeds(t)
                      \/ At(t, "wait") /\ InLine(queue, t) /\ Proceeds(Head(queue))
    BY DEF NoStandstill
  <2>1. ASSUME NEW u \in Tasks, task[u].pc \in LockSteps \/ (At(u, "wait") /\ Holds(u))
        PROVE  Proceeds(u)
    BY <2>1 DEF Proceeds, CanGo, LockSteps, StandInv, WriterInv, Ending, At
  <2>2. task[t].pc \in Pcs
    BY AskingTask DEF IInv, Asking, Pcs
  <2>3. CASE At(t, "wait")
    <3>1. InLine(queue, t)
      BY <2>3 DEF StandInv, QueueInv, NeedsLock, At
    <3>2. queue \in Seq(Tasks) /\ queue # <<>>
      BY <3>1 DEF IInv, TypeOK, InLine
    <3>3. Head(queue) \in Tasks /\ InLine(queue, Head(queue)) /\ Holds(Head(queue))
      BY <3>2 DEF InLine, Holds
    <3>4. NeedsLock(Head(queue))
      BY <3>3 DEF StandInv, QueueInv
    <3>5. Proceeds(Head(queue))
      BY <2>1, <3>3, <3>4 DEF NeedsLock, At
    <3> QED
      BY <2>3, <3>1, <3>5
  <2>4. CASE task[t].pc \in LockSteps
    BY <2>1, <2>4
  <2>5. CASE task[t].pc \in {"commit", "dispatch"}
    BY <2>5 DEF Proceeds, CanGo
  <2> QED
    BY <2>2, <2>3, <2>4, <2>5 DEF Pcs, LockSteps, At
<1> QED
  BY <1>1, <1>2, <1>3, Inductive, PTL DEF Spec
=============================================================================
