-------------------------- MODULE CopyTargetsProofs --------------------------
(***************************************************************************)
(* Proofs about AccountTokens and CopyTargets, for any accounts, groups,   *)
(* settings, requests and loaders.                                         *)
(***************************************************************************)
EXTENDS CopyTargets, WellFoundedInduction, TLAPS

-----------------------------------------------------------------------------
(* The accounts.                                                           *)

LEMMA ColumnTyped ==
  ASSUME NEW S, NEW wanted \in S, NEW loaded, NEW present \in S
  PROVE  Column(wanted, loaded, present) \in {wanted, present}
  BY DEF Column

\* A row with some columns rewritten.
LEMMA RowsUpdate ==
  ASSUME NEW row \in Rows
  PROVE  /\ \A v \in States \cup {NoState} :
              [row EXCEPT !.state = v] \in Rows /\ [row EXCEPT !.state = v].life = row.life
         /\ \A v \in Tokens \cup {NoToken} : [row EXCEPT !.access = v] \in Rows
         /\ \A v \in Nat : [row EXCEPT !.creds = v] \in Rows
         /\ \A v \in BOOLEAN : [row EXCEPT !.active = v] \in Rows
  BY DEF Rows

LEMMA CreateTyped ==
  ASSUME TokenTypeOK, NEW r \in Requests, NEW a \in Accounts, Create(r, a)
  PROVE  TokenTypeOK'
  BY TokenAssumption DEF Create, NewRow, Rows, TokenTypeOK

LEMMA EnterTyped ==
  ASSUME TokenTypeOK, NEW r \in Requests, NEW record \in Calls, Enter(r, record)
  PROVE  call' \in [Requests -> Calls] /\ calls' \in 0..MaxCalls
  BY TokenAssumption DEF Enter, TokenTypeOK

LEMMA GotoTyped ==
  ASSUME TokenTypeOK, NEW r \in Requests, NEW record \in Calls, Goto(r, record)
  PROVE  call' \in [Requests -> Calls] /\ calls' \in 0..MaxCalls
  BY DEF Goto, TokenTypeOK

LEMMA ReturnTyped ==
  ASSUME TokenTypeOK, NEW r \in Requests, Return(r)
  PROVE  call' \in [Requests -> Calls] /\ calls' \in 0..MaxCalls
<1>1. Idle \in Calls
  BY DEF Calls
<1> QED
  BY <1>1, GotoTyped DEF Return

LEMMA LoginReadTyped ==
  ASSUME TokenTypeOK, NEW r \in Requests, NEW a \in Accounts, LoginRead(r, a)
  PROVE  TokenTypeOK'
<1>1. PICK n \in States : Enter(r, [op |-> "login", pc |-> "url", account |-> a, state |-> n,
                                   creds |-> 0])
  BY DEF LoginRead
<1>2. [op |-> "login", pc |-> "url", account |-> a, state |-> n, creds |-> 0] \in Calls
  BY DEF Calls
<1>3. call' \in [Requests -> Calls] /\ calls' \in 0..MaxCalls
  BY <1>1, <1>2, EnterTyped
<1> QED
  BY <1>3 DEF LoginRead, TokenTypeOK

\* What a request at some step is.
LEMMA CallRecords ==
  ASSUME TokenTypeOK, NEW r \in Requests
  PROVE  /\ call[r].op = "login" =>
              call[r] \in [op : {"login"}, pc : {"url", "commit"}, account : Accounts,
                           state : States, creds : Nat]
         /\ call[r].op = "callback" =>
              call[r] \in [op : {"callback"}, pc : {"commit"}, account : Accounts,
                           state : States \cup {NoState}, token : Tokens, loaded : Rows]
         /\ call[r].op = "exchange" =>
              call[r] \in [op : {"exchange"}, pc : {"load", "sharekhan"}, account : Accounts,
                           token : Tokens]
         /\ call[r].op \in {"credentials", "activate"} =>
              call[r] \in [op : {"credentials", "activate"}, pc : {"commit"},
                           account : Accounts, loaded : Rows]
         /\ call[r].op = "delete" =>
              call[r] \in [op : {"delete"}, pc : {"commit", "forget"}, account : Accounts,
                           masters : SUBSET Masters]
<1>1. call[r] \in Calls
  BY DEF TokenTypeOK
<1> QED
  BY <1>1 DEF Calls, Idle

LEMMA LoginUrlTyped ==
  ASSUME TokenTypeOK, NEW r \in Requests, LoginUrl(r)
  PROVE  TokenTypeOK'
<1> DEFINE a == call[r].account
           next == [call[r] EXCEPT !.pc = "commit", !.creds = account[a].creds]
<1>1. call[r] \in [op : {"login"}, pc : {"url", "commit"}, account : Accounts,
                   state : States, creds : Nat]
  BY CallRecords DEF LoginUrl, At
<1>2. account[a].creds \in Nat
  BY <1>1 DEF TokenTypeOK, Rows
<1>3. next \in [op : {"login"}, pc : {"url", "commit"}, account : Accounts,
                state : States, creds : Nat]
  BY <1>1, <1>2
<1>4. next \in Calls
  BY <1>3 DEF Calls
<1>5. Goto(r, next) \/ Return(r)
  BY DEF LoginUrl
<1>6. call' \in [Requests -> Calls] /\ calls' \in 0..MaxCalls
  BY <1>4, <1>5, GotoTyped, ReturnTyped
<1> QED
  BY <1>6 DEF LoginUrl, TokenTypeOK

LEMMA LoginCommitTyped ==
  ASSUME TokenTypeOK, NEW r \in Requests, LoginCommit(r)
  PROVE  TokenTypeOK'
<1> DEFINE c == call[r]
<1>1. c \in [op : {"login"}, pc : {"url", "commit"}, account : Accounts,
             state : States, creds : Nat]
  BY CallRecords DEF LoginCommit, At
<1>2. call' \in [Requests -> Calls] /\ calls' \in 0..MaxCalls
  BY ReturnTyped DEF LoginCommit
<1>3. CASE Stored(c.account) /\ ~Taken(c.account, c.state)
  <2>1. /\ account' = [account EXCEPT ![c.account].state = c.state]
        /\ pages' = pages \cup
             {[token |-> [account |-> c.account, creds |-> c.creds], state |-> c.state]}
    BY <1>3 DEF LoginCommit
  <2>2. account' \in [Accounts -> Rows]
    BY <1>1, <2>1, RowsUpdate DEF TokenTypeOK
  <2>3. pages' \subseteq Pages
    BY <1>1, <2>1 DEF TokenTypeOK, Pages, Tokens
  <2> QED
    BY <1>2, <2>2, <2>3 DEF LoginCommit, TokenTypeOK
<1>4. CASE ~(Stored(c.account) /\ ~Taken(c.account, c.state))
  BY <1>2, <1>4 DEF LoginCommit, TokenTypeOK
<1> QED
  BY <1>3, <1>4

LEMMA CallbackReadTyped ==
  ASSUME TokenTypeOK, NEW r \in Requests, NEW p \in pages, NEW a \in Accounts,
         CallbackRead(r, p, a)
  PROVE  TokenTypeOK'
<1>1. p \in Pages /\ account[a] \in Rows
  BY DEF TokenTypeOK
<1>2. PICK n \in {p.state, NoState} :
        Enter(r, [op |-> "callback", pc |-> "commit", account |-> a, state |-> n,
                  token |-> p.token, loaded |-> account[a]])
  BY DEF CallbackRead
<1>3. [op |-> "callback", pc |-> "commit", account |-> a, state |-> n,
       token |-> p.token, loaded |-> account[a]] \in Calls
  BY <1>1 DEF Calls, Pages
<1>4. call' \in [Requests -> Calls] /\ calls' \in 0..MaxCalls
  BY <1>2, <1>3, EnterTyped
<1> QED
  BY <1>4 DEF CallbackRead, TokenTypeOK

LEMMA ExchangeTyped ==
  ASSUME NEW a \in Accounts, NEW token \in Tokens
  PROVE  Exchange(a, token) \in Calls
  BY DEF Exchange, Calls

LEMMA CallbackCommitTyped ==
  ASSUME TokenTypeOK, NEW r \in Requests, CallbackCommit(r)
  PROVE  TokenTypeOK'
<1> DEFINE c == call[r]
           a == c.account
           ok == Stored(a) /\ (c.state \in {NoState, c.loaded.state} \/ ~Taken(a, c.state))
<1>1. c \in [op : {"callback"}, pc : {"commit"}, account : Accounts,
             state : States \cup {NoState}, token : Tokens, loaded : Rows]
  BY CallRecords DEF CallbackCommit, At
<1>2. Exchange(a, c.token) \in Calls
  BY <1>1, ExchangeTyped
<1>3. Goto(r, Exchange(a, c.token)) \/ Return(r)
  BY DEF CallbackCommit
<1>4. call' \in [Requests -> Calls] /\ calls' \in 0..MaxCalls
  BY <1>2, <1>3, GotoTyped, ReturnTyped
<1>5. CASE ok
  <2> DEFINE state == IF c.state = NoState THEN account[a].state
                      ELSE Column(c.state, c.loaded.state, account[a].state)
             access == Column(NoToken, c.loaded.access, account[a].access)
             row == [[account[a] EXCEPT !.state = state] EXCEPT !.access = access]
  <2>1. account[a] \in Rows
    BY <1>1 DEF TokenTypeOK
  <2>2. account' = [account EXCEPT ![a] = row]
    BY <1>5, <2>1 DEF CallbackCommit, Rows
  <2>3. state \in States \cup {NoState} /\ access \in Tokens \cup {NoToken}
    BY <1>1, <2>1 DEF Column, Rows
  <2> HIDE DEF state, access
  <2>4. row \in Rows
    BY <2>1, <2>3, RowsUpdate
  <2> HIDE DEF row
  <2>5. account' \in [Accounts -> Rows]
    BY <1>1, <2>2, <2>4 DEF TokenTypeOK
  <2> QED
    BY <1>4, <2>5 DEF CallbackCommit, TokenTypeOK
<1>6. CASE ~ok
  <2>1. account' = account
    BY <1>6 DEF CallbackCommit
  <2> QED
    BY <1>4, <2>1 DEF CallbackCommit, TokenTypeOK
<1> QED
  BY <1>5, <1>6

LEMMA TokenReadTyped ==
  ASSUME TokenTypeOK, NEW r \in Requests, NEW p \in pages, NEW a \in Accounts,
         TokenRead(r, p, a)
  PROVE  TokenTypeOK'
<1>1. p.token \in Tokens
  BY DEF TokenTypeOK, Pages
<1>2. call' \in [Requests -> Calls] /\ calls' \in 0..MaxCalls
  BY <1>1, ExchangeTyped, EnterTyped DEF TokenRead
<1> QED
  BY <1>2 DEF TokenRead, TokenTypeOK

LEMMA ExchangeLoadTyped ==
  ASSUME TokenTypeOK, NEW r \in Requests, ExchangeLoad(r)
  PROVE  TokenTypeOK'
<1> DEFINE next == [call[r] EXCEPT !.pc = "sharekhan"]
<1>1. next \in [op : {"exchange"}, pc : {"load", "sharekhan"}, account : Accounts,
                token : Tokens]
  BY CallRecords DEF ExchangeLoad, At
<1>2. next \in Calls
  BY <1>1 DEF Calls
<1>3. Goto(r, next) \/ Return(r)
  BY DEF ExchangeLoad
<1>4. call' \in [Requests -> Calls] /\ calls' \in 0..MaxCalls
  BY <1>2, <1>3, GotoTyped, ReturnTyped
<1> QED
  BY <1>4 DEF ExchangeLoad, TokenTypeOK

LEMMA ExchangeStoreTyped ==
  ASSUME TokenTypeOK, NEW r \in Requests, ExchangeStore(r)
  PROVE  TokenTypeOK'
<1> DEFINE a == call[r].account
           row == [[account[a] EXCEPT !.state = NoState] EXCEPT !.access = call[r].token]
<1>1. a \in Accounts /\ call[r].token \in Tokens
  BY CallRecords DEF ExchangeStore, At
<1>2. account[a] \in Rows
  BY <1>1 DEF TokenTypeOK
<1>3. row \in Rows
  BY <1>1, <1>2, RowsUpdate
<1>4. account' \in {account, [account EXCEPT ![a] = row]}
  BY <1>2 DEF ExchangeStore, Rows
<1> HIDE DEF row
<1>5. account' \in [Accounts -> Rows]
  BY <1>1, <1>3, <1>4 DEF TokenTypeOK
<1>6. call' \in [Requests -> Calls] /\ calls' \in 0..MaxCalls
  BY ReturnTyped DEF ExchangeStore
<1> QED
  BY <1>5, <1>6 DEF ExchangeStore, TokenTypeOK

LEMMA ExchangeFailsTyped ==
  ASSUME TokenTypeOK, NEW r \in Requests, ExchangeFails(r)
  PROVE  TokenTypeOK'
<1>1. call' \in [Requests -> Calls] /\ calls' \in 0..MaxCalls
  BY ReturnTyped DEF ExchangeFails
<1> QED
  BY <1>1 DEF ExchangeFails, TokenTypeOK

LEMMA UpdateReadTyped ==
  ASSUME TokenTypeOK, NEW r \in Requests, NEW a \in Accounts, UpdateRead(r, a)
  PROVE  TokenTypeOK'
<1>1. PICK op \in {"credentials", "activate"} :
        Enter(r, [op |-> op, pc |-> "commit", account |-> a, loaded |-> account[a]])
  BY DEF UpdateRead
<1>2. [op |-> op, pc |-> "commit", account |-> a, loaded |-> account[a]] \in Calls
  BY DEF TokenTypeOK, Calls
<1>3. call' \in [Requests -> Calls] /\ calls' \in 0..MaxCalls
  BY <1>1, <1>2, EnterTyped
<1> QED
  BY <1>3 DEF UpdateRead, TokenTypeOK

\* The row that a change of keys leaves.
LEMMA CredentialsRow ==
  ASSUME TokenTypeOK, NEW r \in Requests, CredentialsCommit(r), Stored(call[r].account)
  PROVE  LET a == call[r].account
             access == Column(NoToken, call[r].loaded.access, account[a].access)
         IN /\ a \in Accounts
            /\ account' \in [Accounts -> Rows]
            /\ account'[a].creds = account[a].creds + 1
            /\ account'[a].access = access
            /\ account'[a].life = "stored"
            /\ \A b \in Accounts \ {a} : account'[b] = account[b]
<1> DEFINE a == call[r].account
           loaded == call[r].loaded
           state == Column(NoState, loaded.state, account[a].state)
           access == Column(NoToken, loaded.access, account[a].access)
           row == [[[account[a] EXCEPT !.creds = account[a].creds + 1]
                      EXCEPT !.state = state] EXCEPT !.access = access]
<1>1. call[r] \in [op : {"credentials", "activate"}, pc : {"commit"}, account : Accounts,
                   loaded : Rows]
  BY CallRecords DEF CredentialsCommit, At
<1>2. account[a] \in Rows
  BY <1>1 DEF TokenTypeOK
<1>3. account' = [account EXCEPT ![a] = row]
  BY <1>2 DEF CredentialsCommit, Rows
<1>4. state \in States \cup {NoState} /\ access \in Tokens \cup {NoToken}
  BY <1>1, <1>2 DEF Column, Rows
<1>5. account[a].creds + 1 \in Nat
  BY <1>2 DEF Rows
<1> DEFINE creds == account[a].creds + 1
<1> HIDE DEF state, access, creds
<1>6. /\ row \in Rows
      /\ row.creds = creds /\ row.access = access /\ row.life = account[a].life
  BY <1>2, <1>4, <1>5 DEF Rows, creds
<1> HIDE DEF row
<1>7. account' \in [Accounts -> Rows] /\ account'[a] = row
      /\ \A b \in Accounts \ {a} : account'[b] = account[b]
  BY <1>1, <1>3, <1>6 DEF TokenTypeOK
<1> QED
  BY <1>1, <1>6, <1>7 DEF Stored, creds, access

LEMMA CredentialsCommitTyped ==
  ASSUME TokenTypeOK, NEW r \in Requests, CredentialsCommit(r)
  PROVE  TokenTypeOK'
<1> DEFINE a == call[r].account
<1>1. call' \in [Requests -> Calls] /\ calls' \in 0..MaxCalls
  BY ReturnTyped DEF CredentialsCommit
<1>2. account' \in [Accounts -> Rows] /\ overtaken' \subseteq Accounts
  <2>1. CASE Stored(a)
    <3>1. a \in Accounts /\ account' \in [Accounts -> Rows]
      BY <2>1, CredentialsRow
    <3>2. overtaken' \in {overtaken \cup {a}, overtaken \ {a}}
      BY <2>1 DEF CredentialsCommit
    <3> QED
      BY <3>1, <3>2 DEF TokenTypeOK
  <2>2. CASE ~Stored(a)
    BY <2>2 DEF CredentialsCommit, TokenTypeOK
  <2> QED
    BY <2>1, <2>2
<1> QED
  BY <1>1, <1>2 DEF CredentialsCommit, TokenTypeOK

LEMMA ActivateCommitTyped ==
  ASSUME TokenTypeOK, NEW r \in Requests, ActivateCommit(r)
  PROVE  TokenTypeOK'
<1> DEFINE a == call[r].account
           active == ~call[r].loaded.active
<1>1. call[r] \in [op : {"credentials", "activate"}, pc : {"commit"}, account : Accounts,
                   loaded : Rows]
  BY CallRecords DEF ActivateCommit, At
<1>2. call' \in [Requests -> Calls] /\ calls' \in 0..MaxCalls
  BY ReturnTyped DEF ActivateCommit
<1>3. account' \in {account, [account EXCEPT ![a].active = active]}
  BY DEF ActivateCommit
<1>4. active \in BOOLEAN
  BY Zenon
<1> HIDE DEF active
<1>5. account' \in [Accounts -> Rows]
  BY <1>1, <1>3, <1>4, RowsUpdate DEF TokenTypeOK
<1> QED
  BY <1>2, <1>5 DEF ActivateCommit, TokenTypeOK

LEMMA DeleteReadTyped ==
  ASSUME TokenTypeOK, NEW r \in Requests, NEW a \in Accounts, NEW ms \in SUBSET Masters,
         DeleteRead(r, a, ms)
  PROVE  TokenTypeOK'
<1> DEFINE record == [op |-> "delete", pc |-> "commit", account |-> a, masters |-> ms]
<1>1. record \in Calls
  BY DEF Calls
<1>2. Enter(r, record)
  BY DEF DeleteRead
<1>3. call' \in [Requests -> Calls] /\ calls' \in 0..MaxCalls
  BY <1>1, <1>2, EnterTyped
<1> QED
  BY <1>3 DEF DeleteRead, TokenTypeOK

LEMMA DeleteCommitTyped ==
  ASSUME TokenTypeOK, NEW r \in Requests, DeleteCommit(r)
  PROVE  TokenTypeOK'
<1> DEFINE next == [call[r] EXCEPT !.pc = "forget"]
           row == [NewRow EXCEPT !.life = "deleted"]
<1>1. /\ call[r].account \in Accounts
      /\ next \in [op : {"delete"}, pc : {"commit", "forget"}, account : Accounts,
                   masters : SUBSET Masters]
  BY CallRecords DEF DeleteCommit, At
<1>2. next \in Calls
  BY <1>1 DEF Calls
<1>3. call' \in [Requests -> Calls] /\ calls' \in 0..MaxCalls
  BY <1>2, GotoTyped DEF DeleteCommit
<1>4. row \in Rows
  BY DEF NewRow, Rows
<1> HIDE DEF row
<1>5. account' \in [Accounts -> Rows]
  <2>1. account' = [account EXCEPT ![call[r].account] = row]
    BY DEF DeleteCommit, row
  <2> QED
    BY <1>1, <1>4, <2>1 DEF TokenTypeOK
<1> QED
  BY <1>3, <1>5 DEF DeleteCommit, TokenTypeOK

LEMMA DeleteForgetTyped ==
  ASSUME TokenTypeOK, NEW r \in Requests, DeleteForget(r)
  PROVE  TokenTypeOK'
<1>1. call' \in [Requests -> Calls] /\ calls' \in 0..MaxCalls
  BY ReturnTyped DEF DeleteForget
<1> QED
  BY <1>1 DEF DeleteForget, TokenTypeOK

LEMMA TokenStepTyped ==
  ASSUME TokenTypeOK, NEW r \in Requests, TokenStep(r)
  PROVE  TokenTypeOK'
<1>1. ASSUME LoginStep(r) PROVE TokenTypeOK'
  BY <1>1, LoginReadTyped, LoginUrlTyped, LoginCommitTyped DEF LoginStep
<1>2. ASSUME ExchangeStep(r) PROVE TokenTypeOK'
  BY <1>2, CallbackReadTyped, TokenReadTyped, CallbackCommitTyped, ExchangeLoadTyped,
     ExchangeStoreTyped, ExchangeFailsTyped DEF ExchangeStep
<1>3. ASSUME UpdateStep(r) PROVE TokenTypeOK'
  BY <1>3, CreateTyped, UpdateReadTyped, CredentialsCommitTyped, ActivateCommitTyped
  DEF UpdateStep
<1> QED
  BY <1>1, <1>2, <1>3 DEF TokenStep

(***************************************************************************)
(* Why tokens fit: a token on its way to a row is one that fitted the row  *)
(* when the exchange began, and the keys have not changed since.           *)
(***************************************************************************)
ExchangesFit ==
  \A r \in Requests, a \in Accounts :
    At(r, "exchange", "sharekhan") /\ call[r].account = a /\ a \notin overtaken =>
      /\ account[a].life # "none"
      /\ Stored(a) => call[r].token = [account |-> a, creds |-> account[a].creds]

TokenInv == TokenTypeOK /\ TokensFit /\ ExchangesFit

\* A step that puts no token into a row, and whose request is in no exchange.
LEMMA FitKept ==
  ASSUME TokenInv, NEW r \in Requests, NEW record,
         call' = [call EXCEPT ![r] = record],
         ~(record.op = "exchange" /\ record.pc = "sharekhan"),
         overtaken' = overtaken,
         \A a \in Accounts : /\ account'[a].life = account[a].life
                             /\ account'[a].creds = account[a].creds
                             /\ account'[a].access \in {account[a].access, NoToken}
  PROVE  TokensFit' /\ ExchangesFit'
<1>1. TokensFit'
  BY DEF TokenInv, TokensFit
<1>2. ASSUME NEW s \in Requests, At(s, "exchange", "sharekhan")'
      PROVE  s # r /\ call'[s] = call[s] /\ At(s, "exchange", "sharekhan")
             /\ call[s].account \in Accounts
  <2>1. s # r /\ call'[s] = call[s] /\ At(s, "exchange", "sharekhan")
    BY <1>2 DEF TokenInv, TokenTypeOK, At
  <2> QED
    BY <2>1, CallRecords DEF TokenInv, At
<1>3. ExchangesFit'
  BY <1>2 DEF TokenInv, ExchangesFit, Stored
<1> QED
  BY <1>1, <1>3

LEMMA TokenInitInv == TokenInit => TokenInv
<1> SUFFICES ASSUME TokenInit PROVE TokenInv
  OBVIOUS
<1>1. PICK in \in SUBSET FirstAccounts, opened \in SUBSET FirstAccounts, n \in States :
        /\ account = [a \in Accounts |->
                      [life   |-> IF a \in FirstAccounts THEN "stored" ELSE "none",
                       creds  |-> 0,
                       state  |-> IF a \in opened THEN n ELSE NoState,
                       access |-> IF a \in in THEN [account |-> a, creds |-> 0] ELSE NoToken,
                       active |-> TRUE]]
        /\ pages = {[token |-> [account |-> a, creds |-> 0], state |-> n] : a \in opened}
  BY DEF TokenInit
<1>2. account \in [Accounts -> Rows]
  BY <1>1 DEF Rows, Tokens
<1>3. pages \subseteq Pages
  BY <1>1, TokenAssumption DEF Pages, Tokens
<1>4. call \in [Requests -> Calls] /\ calls \in 0..MaxCalls /\ overtaken \subseteq Accounts
  BY TokenAssumption DEF TokenInit, Calls
<1>5. TokensFit
  BY <1>1 DEF TokensFit
<1>6. ExchangesFit
  BY DEF TokenInit, ExchangesFit, At, Idle
<1> QED
  BY <1>2, <1>3, <1>4, <1>5, <1>6 DEF TokenInv, TokenTypeOK

\* The steps of a request that leave the rows as they are.
LEMMA ReturnFits ==
  ASSUME TokenInv, NEW r \in Requests, Return(r), UNCHANGED <<account, overtaken>>
  PROVE  TokensFit' /\ ExchangesFit'
  BY FitKept DEF Return, Goto, Idle

LEMMA EnterFits ==
  ASSUME TokenInv, NEW r \in Requests, NEW record, Enter(r, record),
         ~(record.op = "exchange" /\ record.pc = "sharekhan"),
         UNCHANGED <<account, overtaken>>
  PROVE  TokensFit' /\ ExchangesFit'
  BY FitKept DEF Enter

LEMMA LoginFits ==
  ASSUME TokenInv, NEW r \in Requests, LoginStep(r)
  PROVE  TokensFit' /\ ExchangesFit'
<1>1. ASSUME NEW a \in Accounts, LoginRead(r, a) PROVE TokensFit' /\ ExchangesFit'
  BY <1>1, EnterFits DEF LoginRead
<1>2. ASSUME LoginUrl(r) PROVE TokensFit' /\ ExchangesFit'
  <2> DEFINE next == [call[r] EXCEPT !.pc = "commit", !.creds = account[call[r].account].creds]
  <2>1. call[r].op = "login"
    BY <1>2 DEF LoginUrl, At
  <2>2. next.op = "login"
    BY <2>1, CallRecords DEF TokenInv
  <2>3. Goto(r, next) \/ Return(r)
    BY <1>2 DEF LoginUrl
  <2> HIDE DEF next
  <2> QED
    BY <1>2, <2>2, <2>3, ReturnFits, FitKept DEF LoginUrl, Goto
<1>3. ASSUME LoginCommit(r) PROVE TokensFit' /\ ExchangesFit'
  <2> DEFINE c == call[r]
  <2>1. c.account \in Accounts /\ c.state \in States
    BY <1>3, CallRecords DEF LoginCommit, At, TokenInv
  <2>2. account' \in {account, [account EXCEPT ![c.account].state = c.state]}
    BY <1>3 DEF LoginCommit
  <2>3. \A a \in Accounts : /\ account'[a].life = account[a].life
                            /\ account'[a].creds = account[a].creds
                            /\ account'[a].access = account[a].access
    BY <2>1, <2>2 DEF TokenInv, TokenTypeOK, Rows
  <2> QED
    BY <1>3, <2>3, FitKept DEF LoginCommit, Return, Goto, Idle
<1> QED
  BY <1>1, <1>2, <1>3 DEF LoginStep

LEMMA ExchangeFits ==
  ASSUME TokenInv, NEW r \in Requests, ExchangeStep(r)
  PROVE  TokensFit' /\ ExchangesFit'
<1>1. ASSUME NEW p \in pages, NEW a \in Accounts, CallbackRead(r, p, a)
      PROVE  TokensFit' /\ ExchangesFit'
  BY <1>1, EnterFits DEF CallbackRead
<1>2. ASSUME NEW p \in pages, NEW a \in Accounts, TokenRead(r, p, a)
      PROVE  TokensFit' /\ ExchangesFit'
  <2>1. Exchange(a, p.token).pc = "load"
    BY DEF Exchange
  <2> QED
    BY <1>2, <2>1, EnterFits DEF TokenRead
<1>3. ASSUME CallbackCommit(r) PROVE TokensFit' /\ ExchangesFit'
  <2> DEFINE c == call[r]
             a == c.account
             ok == Stored(a) /\ (c.state \in {NoState, c.loaded.state} \/ ~Taken(a, c.state))
  <2>1. a \in Accounts /\ account[a] \in Rows
    BY <1>3, CallRecords DEF CallbackCommit, At, TokenInv, TokenTypeOK
  <2>2. CASE ok
    <3> DEFINE state == IF c.state = NoState THEN account[a].state
                        ELSE Column(c.state, c.loaded.state, account[a].state)
               access == Column(NoToken, c.loaded.access, account[a].access)
               row == [[account[a] EXCEPT !.state = state] EXCEPT !.access = access]
    <3>1. account' = [account EXCEPT ![a] = row] /\ Goto(r, Exchange(a, c.token))
      BY <1>3, <2>1, <2>2 DEF CallbackCommit, Rows
    <3>2. access \in {account[a].access, NoToken}
      BY DEF Column
    <3> HIDE DEF state, access
    <3>3. row.life = account[a].life /\ row.creds = account[a].creds /\ row.access = access
      BY <2>1 DEF Rows
    <3> HIDE DEF row
    <3>4. \A b \in Accounts : /\ account'[b].life = account[b].life
                              /\ account'[b].creds = account[b].creds
                              /\ account'[b].access \in {account[b].access, NoToken}
      BY <2>1, <3>1, <3>2, <3>3 DEF TokenInv, TokenTypeOK
    <3>5. Exchange(a, c.token).pc = "load"
      BY DEF Exchange
    <3>6. call' = [call EXCEPT ![r] = Exchange(a, c.token)] /\ overtaken' = overtaken
      BY <1>3, <3>1 DEF Goto, CallbackCommit
    <3> QED
      BY <3>4, <3>5, <3>6, FitKept
  <2>3. CASE ~ok
    BY <1>3, <2>3, ReturnFits DEF CallbackCommit
  <2> QED
    BY <2>2, <2>3
<1>4. ASSUME ExchangeLoad(r) PROVE TokensFit' /\ ExchangesFit'
  <2> DEFINE a == call[r].account
             next == [call[r] EXCEPT !.pc = "sharekhan"]
  <2>1. CASE Stored(a) /\ call[r].token = [account |-> a, creds |-> account[a].creds]
    <3>1. call' = [call EXCEPT ![r] = next] /\ UNCHANGED <<account, overtaken>>
      BY <1>4, <2>1 DEF ExchangeLoad, Goto
    <3>2. next.account = a /\ next.token = call[r].token
      BY <1>4, CallRecords DEF ExchangeLoad, At, TokenInv
    <3> HIDE DEF next
    <3>3. call'[r] = next /\ \A s \in Requests \ {r} : call'[s] = call[s]
      BY <3>1 DEF TokenInv, TokenTypeOK
    <3>4. account'[a].life = "stored" /\ next.token = [account |-> a, creds |-> account'[a].creds]
      BY <2>1, <3>1, <3>2 DEF Stored
    <3>5. ExchangesFit'
      BY <3>1, <3>2, <3>3, <3>4 DEF TokenInv, ExchangesFit, Stored, At
    <3>6. TokensFit'
      BY <3>1 DEF TokenInv, TokensFit
    <3> QED
      BY <3>5, <3>6
  <2>2. CASE ~(Stored(a) /\ call[r].token = [account |-> a, creds |-> account[a].creds])
    BY <1>4, <2>2, ReturnFits DEF ExchangeLoad
  <2> QED
    BY <2>1, <2>2
<1>5. ASSUME ExchangeStore(r) PROVE TokensFit' /\ ExchangesFit'
  <2> DEFINE a == call[r].account
             row == [[account[a] EXCEPT !.state = NoState] EXCEPT !.access = call[r].token]
  <2>1. a \in Accounts /\ account[a] \in Rows
    BY <1>5, CallRecords DEF ExchangeStore, At, TokenInv, TokenTypeOK
  <2>2. CASE Stored(a)
    <3>1. account' = [account EXCEPT ![a] = row] /\ Return(r) /\ overtaken' = overtaken
      BY <1>5, <2>1, <2>2 DEF ExchangeStore, Rows
    <3>2. row.life = account[a].life /\ row.creds = account[a].creds
          /\ row.access = call[r].token
      BY <2>1 DEF Rows
    <3> HIDE DEF row
    <3>3. account'[a] = row /\ \A b \in Accounts \ {a} : account'[b] = account[b]
      BY <2>1, <3>1 DEF TokenInv, TokenTypeOK
    <3>4. a \notin overtaken => call[r].token = [account |-> a, creds |-> account[a].creds]
      BY <1>5, <2>1, <2>2 DEF TokenInv, ExchangesFit, ExchangeStore
    <3>5. TokensFit'
      BY <3>1, <3>2, <3>3, <3>4 DEF TokenInv, TokensFit
    <3>6. call'[r] = Idle /\ \A s \in Requests \ {r} : call'[s] = call[s]
      BY <3>1 DEF TokenInv, TokenTypeOK, Return, Goto
    <3>7. \A b \in Accounts : account'[b].life = account[b].life
                              /\ account'[b].creds = account[b].creds
      BY <3>2, <3>3
    <3>8. \A s \in Requests : At(s, "exchange", "sharekhan")' =>
             s # r /\ At(s, "exchange", "sharekhan") /\ call[s].account \in Accounts
      BY <3>6, CallRecords DEF At, Idle, TokenInv
    <3>9. ExchangesFit'
      BY <3>1, <3>6, <3>7, <3>8 DEF TokenInv, ExchangesFit, Stored
    <3> QED
      BY <3>5, <3>9
  <2>3. CASE ~Stored(a)
    BY <1>5, <2>3, ReturnFits DEF ExchangeStore
  <2> QED
    BY <2>2, <2>3
<1>6. ASSUME ExchangeFails(r) PROVE TokensFit' /\ ExchangesFit'
  BY <1>6, ReturnFits DEF ExchangeFails
<1> QED
  BY <1>1, <1>2, <1>3, <1>4, <1>5, <1>6 DEF ExchangeStep

LEMMA UpdateFits ==
  ASSUME TokenInv, NEW r \in Requests, UpdateStep(r)
  PROVE  TokensFit' /\ ExchangesFit'
<1>1. ASSUME NEW a \in Accounts, Create(r, a) PROVE TokensFit' /\ ExchangesFit'
  <2>1. /\ account' = [account EXCEPT ![a] = NewRow]
        /\ account[a].life = "none"
        /\ UNCHANGED <<call, overtaken>>
    BY <1>1 DEF Create
  <2>2. account'[a] = NewRow /\ \A b \in Accounts \ {a} : account'[b] = account[b]
    BY <2>1 DEF TokenInv, TokenTypeOK
  <2>3. NewRow.access = NoToken
    BY DEF NewRow
  <2>4. TokensFit'
    BY <2>1, <2>2, <2>3 DEF TokenInv, TokensFit
  <2>5. ExchangesFit'
    BY <2>1, <2>2 DEF TokenInv, ExchangesFit, At, Stored
  <2> QED
    BY <2>4, <2>5
<1>2. ASSUME NEW a \in Accounts, UpdateRead(r, a) PROVE TokensFit' /\ ExchangesFit'
  BY <1>2, EnterFits DEF UpdateRead
<1>3. ASSUME CredentialsCommit(r) PROVE TokensFit' /\ ExchangesFit'
  <2> DEFINE a == call[r].account
             loaded == call[r].loaded
             access == Column(NoToken, loaded.access, account[a].access)
  <2>1. CASE Stored(a)
    <3>1. /\ a \in Accounts
          /\ account'[a].access = access
          /\ account'[a].life = "stored"
          /\ \A b \in Accounts \ {a} : account'[b] = account[b]
      BY <1>3, <2>1, CredentialsRow DEF TokenInv
    <3>2. /\ overtaken' = IF Exchanging(a) \/ account[a].access # loaded.access
                          THEN overtaken \cup {a} ELSE overtaken \ {a}
          /\ Return(r)
      BY <1>3, <2>1 DEF CredentialsCommit
    <3>3. a \notin overtaken' => access = NoToken /\ ~Exchanging(a)
      BY <3>2 DEF Column
    <3> HIDE DEF access
    <3>4. TokensFit'
      BY <3>1, <3>2, <3>3 DEF TokenInv, TokensFit
    <3>5. call'[r] = Idle /\ \A s \in Requests \ {r} : call'[s] = call[s]
      BY <3>2 DEF TokenInv, TokenTypeOK, Return, Goto
    <3>6. \A s \in Requests, b \in Accounts :
             /\ At(s, "exchange", "sharekhan")' /\ call'[s].account = b /\ b \notin overtaken'
             => /\ b # a /\ b \notin overtaken
                /\ At(s, "exchange", "sharekhan") /\ call[s].account = b
      BY <3>2, <3>3, <3>5 DEF At, Idle, Exchanging
    <3>7. ExchangesFit'
      BY <3>1, <3>5, <3>6 DEF TokenInv, ExchangesFit, Stored, At, Idle
    <3> QED
      BY <3>4, <3>7
  <2>2. CASE ~Stored(a)
    BY <1>3, <2>2, ReturnFits DEF CredentialsCommit
  <2> QED
    BY <2>1, <2>2
<1>4. ASSUME ActivateCommit(r) PROVE TokensFit' /\ ExchangesFit'
  <2> DEFINE active == ~call[r].loaded.active
             a == call[r].account
  <2>1. a \in Accounts
    BY <1>4, CallRecords DEF ActivateCommit, At, TokenInv
  <2>2. account' \in {account, [account EXCEPT ![a].active = active]}
    BY <1>4 DEF ActivateCommit
  <2> HIDE DEF active
  <2>3. \A b \in Accounts : /\ account'[b].life = account[b].life
                            /\ account'[b].creds = account[b].creds
                            /\ account'[b].access = account[b].access
    BY <2>1, <2>2 DEF TokenInv, TokenTypeOK, Rows
  <2> QED
    BY <1>4, <2>3, FitKept DEF ActivateCommit, Return, Goto, Idle
<1> QED
  BY <1>1, <1>2, <1>3, <1>4 DEF UpdateStep

LEMMA DeleteFits ==
  ASSUME TokenInv, NEW r \in Requests,
         \/ \E a \in Accounts, ms \in SUBSET Masters : DeleteRead(r, a, ms)
         \/ DeleteCommit(r)
         \/ DeleteForget(r)
  PROVE  TokensFit' /\ ExchangesFit'
<1>1. ASSUME NEW a \in Accounts, NEW ms \in SUBSET Masters, DeleteRead(r, a, ms)
      PROVE  TokensFit' /\ ExchangesFit'
  BY <1>1, EnterFits DEF DeleteRead
<1>2. ASSUME DeleteCommit(r) PROVE TokensFit' /\ ExchangesFit'
  <2> DEFINE a == call[r].account
             row == [NewRow EXCEPT !.life = "deleted"]
             next == [call[r] EXCEPT !.pc = "forget"]
  <2>1. a \in Accounts /\ next.op = "delete"
    BY <1>2, CallRecords DEF DeleteCommit, At, TokenInv
  <2>2. row.life = "deleted" /\ row.access = NoToken
    BY DEF NewRow
  <2>3. account' = [account EXCEPT ![a] = row] /\ call' = [call EXCEPT ![r] = next]
        /\ overtaken' = overtaken
    BY <1>2 DEF DeleteCommit, Goto
  <2> HIDE DEF row, next
  <2>4. /\ account'[a] = row /\ \A b \in Accounts \ {a} : account'[b] = account[b]
        /\ call'[r] = next /\ \A s \in Requests \ {r} : call'[s] = call[s]
    BY <2>1, <2>3 DEF TokenInv, TokenTypeOK
  <2>5. TokensFit'
    BY <2>2, <2>3, <2>4 DEF TokenInv, TokensFit
  <2>6. ExchangesFit'
    BY <2>1, <2>2, <2>3, <2>4 DEF TokenInv, ExchangesFit, At, Stored
  <2> QED
    BY <2>5, <2>6
<1>3. ASSUME DeleteForget(r) PROVE TokensFit' /\ ExchangesFit'
  BY <1>3, ReturnFits DEF DeleteForget
<1> QED
  BY <1>1, <1>2, <1>3

LEMMA TokenStepInv ==
  ASSUME TokenInv, NEW r \in Requests, TokenStep(r)
  PROVE  TokenInv'
  BY TokenStepTyped, LoginFits, ExchangeFits, UpdateFits DEF TokenStep, TokenInv

LEMMA DeleteInv ==
  ASSUME TokenInv, NEW r \in Requests,
         \/ \E a \in Accounts, ms \in SUBSET Masters : DeleteRead(r, a, ms)
         \/ DeleteCommit(r)
         \/ DeleteForget(r)
  PROVE  TokenInv'
  BY DeleteFits, DeleteReadTyped, DeleteCommitTyped, DeleteForgetTyped DEF TokenInv

LEMMA TokensUntouched ==
  ASSUME TokenInv, UNCHANGED tokenVars
  PROVE  TokenInv'
  BY DEF TokenInv, tokenVars, TokenTypeOK, TokensFit, ExchangesFit, At, Stored

-----------------------------------------------------------------------------
(* Groups, members and settings.                                           *)

EditTypeOK ==
  /\ group \in [Groups -> Masters \cup {None}]
  /\ member \in [Pairs -> Members \cup {None}]
  /\ setting \in [Pairs -> SettingRows \cup {None}]
  /\ edit \in [Editors -> Edits]

MemberEdits ==
  [op : {"add"}, id : 1..MaxCalls, group : Groups, account : Accounts,
   master : Masters, member : {None}, setting : SettingRows \cup {None}]
  \cup [op : {"update", "remove", "patch"}, id : 1..MaxCalls, group : Groups,
        account : Accounts, master : Masters, member : Members,
        setting : SettingRows \cup {None}]

\* What an edit at some step is.
LEMMA EditRecords ==
  ASSUME EditTypeOK, NEW r \in Editors
  PROVE  /\ edit[r].op \in {"move", "drop"} =>
              edit[r] \in [op : {"move", "drop"}, group : Groups, master : Masters]
         /\ edit[r].op \in {"add", "update", "remove", "patch"} => edit[r] \in MemberEdits
         /\ edit[r].op \in {"update", "remove", "patch"} => edit[r].member \in Members
         /\ edit[r].op = "forget" => edit[r].master \in Masters
<1>1. edit[r] \in Edits
  BY DEF EditTypeOK
<1> QED
  BY <1>1 DEF Edits, Idle, MemberEdits

LEMMA EditEnterTyped ==
  ASSUME TokenTypeOK, EditTypeOK, NEW r \in Editors, NEW record \in Edits,
         EditEnter(r, record)
  PROVE  edit' \in [Editors -> Edits] /\ calls' \in 0..MaxCalls
  BY TokenAssumption DEF EditEnter, EditTypeOK, TokenTypeOK

LEMMA EditReturnTyped ==
  ASSUME TokenTypeOK, EditTypeOK, NEW r \in Editors, EditReturn(r)
  PROVE  edit' \in [Editors -> Edits] /\ calls' \in 0..MaxCalls
<1>1. Idle \in Edits
  BY DEF Edits
<1> QED
  BY <1>1 DEF EditReturn, EditGoto, EditTypeOK, TokenTypeOK

LEMMA CommittedTyped ==
  ASSUME TokenTypeOK, EditTypeOK, NEW r \in Editors, edit[r].master \in Masters,
         Committed(r)
  PROVE  edit' \in [Editors -> Edits] /\ calls' \in 0..MaxCalls
<1>1. [op |-> "forget", master |-> edit[r].master] \in Edits
  BY DEF Edits
<1> QED
  BY <1>1 DEF Committed, EditGoto, EditTypeOK, TokenTypeOK

\* Steps of edits leave the accounts alone.
LEMMA AccountsUntouched ==
  ASSUME TokenInv, UNCHANGED accountVars, calls' \in 0..MaxCalls
  PROVE  TokenInv'
  BY DEF TokenInv, accountVars, TokenTypeOK, TokensFit, ExchangesFit, At, Stored

LEMMA GroupReadTyped ==
  ASSUME TokenTypeOK, EditTypeOK, NEW r \in Editors, NEW g \in Groups, GroupRead(r, g)
  PROVE  EditTypeOK' /\ calls' \in 0..MaxCalls
<1>1. group[g] \in Masters
  BY DEF GroupRead, EditTypeOK
<1>2. PICK op \in {"move", "drop"} :
        EditEnter(r, [op |-> op, group |-> g, master |-> group[g]])
  BY DEF GroupRead
<1>3. [op |-> op, group |-> g, master |-> group[g]] \in Edits
  BY <1>1 DEF Edits
<1>4. edit' \in [Editors -> Edits] /\ calls' \in 0..MaxCalls
  BY <1>2, <1>3, EditEnterTyped
<1> QED
  BY <1>4 DEF GroupRead, EditTypeOK

LEMMA GroupMoveTyped ==
  ASSUME TokenTypeOK, EditTypeOK, NEW r \in Editors, GroupMove(r)
  PROVE  EditTypeOK' /\ calls' \in 0..MaxCalls
<1> DEFINE g == edit[r].group
<1>1. g \in Groups
  BY EditRecords DEF GroupMove
<1>2. group' = group \/ \E m \in Masters : group' = [group EXCEPT ![g] = m]
  BY DEF GroupMove
<1>3. group' \in [Groups -> Masters \cup {None}]
  BY <1>1, <1>2 DEF EditTypeOK
<1>4. edit' \in [Editors -> Edits] /\ calls' \in 0..MaxCalls
  BY EditReturnTyped DEF GroupMove
<1> QED
  BY <1>3, <1>4 DEF GroupMove, EditTypeOK

LEMMA GroupDropTyped ==
  ASSUME TokenTypeOK, EditTypeOK, NEW r \in Editors, GroupDrop(r)
  PROVE  EditTypeOK' /\ calls' \in 0..MaxCalls
<1>1. edit' \in [Editors -> Edits] /\ calls' \in 0..MaxCalls
  BY EditReturnTyped DEF GroupDrop
<1>2. edit[r].group \in Groups
  BY EditRecords DEF GroupDrop
<1>3. /\ group' \in [Groups -> Masters \cup {None}]
      /\ member' \in [Pairs -> Members \cup {None}]
      /\ setting' \in [Pairs -> SettingRows \cup {None}]
  BY <1>2 DEF GroupDrop, EditTypeOK
<1> QED
  BY <1>1, <1>3 DEF EditTypeOK

LEMMA OpenedTyped ==
  ASSUME TokenTypeOK, EditTypeOK, NEW g \in Groups, NEW a \in Accounts, group[g] # None,
         calls < MaxCalls, NEW op,
         \/ op = "add" /\ member[<<g, a>>] = None
         \/ op \in {"update", "remove", "patch"} /\ member[<<g, a>>] # None
  PROVE  Opened(op, g, a) \in Edits
<1>1. /\ calls + 1 \in 1..MaxCalls
      /\ group[g] \in Masters
  BY TokenAssumption DEF TokenTypeOK, EditTypeOK
<1>2. <<g, a>> \in Pairs
  BY DEF Pairs
<1>3. member[<<g, a>>] \in Members \cup {None} /\ setting[<<g, a>>] \in SettingRows \cup {None}
  BY <1>2 DEF EditTypeOK
<1> DEFINE id == calls + 1
<1> HIDE DEF id
<1>4. id \in 1..MaxCalls
  BY <1>1 DEF id
<1>5. Opened(op, g, a) = [op |-> op, id |-> id, group |-> g, account |-> a,
        master |-> group[g], member |-> member[<<g, a>>], setting |-> setting[<<g, a>>]]
  BY DEF Opened, id
<1> QED
  BY <1>1, <1>3, <1>4, <1>5 DEF Edits

LEMMA MemberReadTyped ==
  ASSUME TokenTypeOK, EditTypeOK, NEW r \in Editors, NEW g \in Groups, NEW a \in Accounts,
         MemberRead(r, g, a)
  PROVE  EditTypeOK' /\ calls' \in 0..MaxCalls
<1>1. PICK op :
        /\ EditEnter(r, Opened(op, g, a))
        /\ \/ op = "add" /\ member[<<g, a>>] = None
           \/ op \in {"update", "remove", "patch"} /\ member[<<g, a>>] # None
  BY DEF MemberRead
<1>2. Opened(op, g, a) \in Edits
  BY <1>1, OpenedTyped DEF MemberRead, EditEnter
<1>3. edit' \in [Editors -> Edits] /\ calls' \in 0..MaxCalls
  BY <1>1, <1>2, EditEnterTyped
<1> QED
  BY <1>3 DEF MemberRead, EditTypeOK

\* A commit that fails, or one that leaves rows of the right type.
LEMMA CommitTyped ==
  ASSUME TokenTypeOK, EditTypeOK, NEW r \in Editors,
         edit[r].op \in {"add", "update", "remove", "patch"},
         \/ CommitFails(r)
         \/ /\ CommitDone(r)
            /\ member' \in [Pairs -> Members \cup {None}]
            /\ setting' \in [Pairs -> SettingRows \cup {None}]
  PROVE  EditTypeOK' /\ calls' \in 0..MaxCalls
<1>1. CASE CommitFails(r)
  BY <1>1, EditReturnTyped DEF CommitFails, EditTypeOK
<1>2. CASE CommitDone(r) /\ member' \in [Pairs -> Members \cup {None}]
           /\ setting' \in [Pairs -> SettingRows \cup {None}]
  <2>1. edit[r].master \in Masters
    BY EditRecords DEF MemberEdits
  <2>2. edit' \in [Editors -> Edits] /\ calls' \in 0..MaxCalls
    BY <1>2, <2>1, CommittedTyped DEF CommitDone
  <2> QED
    BY <1>2, <2>2 DEF CommitDone, EditTypeOK
<1> QED
  BY <1>1, <1>2

LEMMA MemberAddTyped ==
  ASSUME TokenTypeOK, EditTypeOK, NEW r \in Editors, MemberAdd(r)
  PROVE  EditTypeOK' /\ calls' \in 0..MaxCalls
<1> DEFINE e == edit[r]
           p == <<e.group, e.account>>
           ok == /\ group[e.group] # None /\ Stored(e.account)
                 /\ member[p] = None /\ setting[p] = None
<1>1. e \in MemberEdits
  BY EditRecords DEF MemberAdd
<1>2. p \in Pairs /\ e.id \in 0..MaxCalls
  BY <1>1, TokenAssumption DEF MemberEdits, Pairs
<1>3. CASE ok
  <2>1. PICK on \in BOOLEAN, v \in Settings :
          /\ member' = [member EXCEPT ![p] = [id |-> e.id, enabled |-> on]]
          /\ setting' = [setting EXCEPT ![p] = [id |-> e.id, value |-> v]]
          /\ CommitDone(r)
    BY <1>3 DEF MemberAdd
  <2>2. [id |-> e.id, enabled |-> on] \in Members /\ [id |-> e.id, value |-> v] \in SettingRows
    BY <1>2 DEF Members, SettingRows
  <2>3. /\ member' \in [Pairs -> Members \cup {None}]
        /\ setting' \in [Pairs -> SettingRows \cup {None}]
    BY <1>2, <2>1, <2>2 DEF EditTypeOK
  <2> QED
    BY <2>1, <2>3, CommitTyped DEF MemberAdd
<1>4. CASE ~ok
  <2>1. CommitFails(r)
    BY <1>4 DEF MemberAdd
  <2> QED
    BY <2>1, CommitTyped DEF MemberAdd
<1> QED
  BY <1>3, <1>4

LEMMA SavedTyped ==
  ASSUME EditTypeOK, NEW e \in MemberEdits, NEW v \in Settings \cup {None}
  PROVE  Saved(e, v) \in [Pairs -> SettingRows \cup {None}]
<1> DEFINE p == <<e.group, e.account>>
<1>1. p \in Pairs /\ e.id \in 0..MaxCalls
  BY TokenAssumption DEF MemberEdits, Pairs
<1>2. CASE v = None \/ (e.setting # None /\ v = e.setting.value)
  BY <1>2 DEF Saved, EditTypeOK
<1>3. CASE v # None /\ e.setting = None
  <2>1. Saved(e, v) = [setting EXCEPT ![p] = [id |-> e.id, value |-> v]]
    BY <1>3 DEF Saved
  <2>2. [id |-> e.id, value |-> v] \in SettingRows
    BY <1>1, <1>3 DEF SettingRows
  <2> QED
    BY <1>1, <2>1, <2>2 DEF EditTypeOK
<1>4. CASE v # None /\ e.setting # None /\ v # e.setting.value
  <2>1. Saved(e, v) = [setting EXCEPT ![p] = [id |-> e.setting.id, value |-> v]]
    BY <1>4 DEF Saved
  <2>2. [id |-> e.setting.id, value |-> v] \in SettingRows
    BY <1>4 DEF SettingRows, MemberEdits
  <2> QED
    BY <1>1, <2>1, <2>2 DEF EditTypeOK
<1> QED
  BY <1>2, <1>3, <1>4

LEMMA MemberUpdateTyped ==
  ASSUME TokenTypeOK, EditTypeOK, NEW r \in Editors, MemberUpdate(r)
  PROVE  EditTypeOK' /\ calls' \in 0..MaxCalls
<1> DEFINE e == edit[r]
           p == <<e.group, e.account>>
           new == [id |-> e.member.id, enabled |-> ~e.member.enabled]
<1>1. e \in MemberEdits /\ e.member \in Members
  BY EditRecords DEF MemberUpdate
<1>2. p \in Pairs
  BY <1>1 DEF MemberEdits, Pairs
<1>3. new \in Members
  <2>1. PICK b \in BOOLEAN : (~e.member.enabled) = b
    BY Zenon
  <2> QED
    BY <1>1, <2>1 DEF Members
<1> HIDE DEF new
<1>4. PICK flip \in BOOLEAN, v \in Settings \cup {None} :
        \/ CommitFails(r)
        \/ /\ member' \in {member, [member EXCEPT ![p] = new]}
           /\ setting' = Saved(e, v)
           /\ CommitDone(r)
  BY DEF MemberUpdate, new
<1>5. [member EXCEPT ![p] = new] \in [Pairs -> Members \cup {None}]
  BY <1>2, <1>3 DEF EditTypeOK
<1>6. Saved(e, v) \in [Pairs -> SettingRows \cup {None}]
  BY <1>1, SavedTyped
<1>7. e.op \in {"add", "update", "remove", "patch"}
  BY DEF MemberUpdate
<1>8. member \in [Pairs -> Members \cup {None}]
  BY DEF EditTypeOK
<1> QED
  BY <1>4, <1>5, <1>6, <1>7, <1>8, CommitTyped

LEMMA SettingPatchTyped ==
  ASSUME TokenTypeOK, EditTypeOK, NEW r \in Editors, SettingPatch(r)
  PROVE  EditTypeOK' /\ calls' \in 0..MaxCalls
<1>1. edit[r] \in MemberEdits /\ edit[r].op \in {"add", "update", "remove", "patch"}
  BY EditRecords DEF SettingPatch
<1>2. PICK v \in Settings \cup {None} :
        \/ CommitFails(r)
        \/ setting' = Saved(edit[r], v) /\ UNCHANGED member /\ CommitDone(r)
  BY DEF SettingPatch
<1>3. Saved(edit[r], v) \in [Pairs -> SettingRows \cup {None}]
  BY <1>1, SavedTyped
<1>4. member \in [Pairs -> Members \cup {None}]
  BY DEF EditTypeOK
<1> QED
  BY <1>1, <1>2, <1>3, <1>4, CommitTyped

LEMMA MemberRemoveTyped ==
  ASSUME TokenTypeOK, EditTypeOK, NEW r \in Editors, MemberRemove(r)
  PROVE  EditTypeOK' /\ calls' \in 0..MaxCalls
<1> DEFINE p == <<edit[r].group, edit[r].account>>
<1>1. edit[r] \in MemberEdits /\ edit[r].op \in {"add", "update", "remove", "patch"}
  BY EditRecords DEF MemberRemove
<1>2. p \in Pairs
  BY <1>1 DEF MemberEdits, Pairs
<1>3. /\ member' \in [Pairs -> Members \cup {None}]
      /\ setting' \in [Pairs -> SettingRows \cup {None}]
  BY <1>2 DEF MemberRemove, Without, EditTypeOK
<1> QED
  BY <1>1, <1>3, CommitTyped DEF MemberRemove

LEMMA ForgetTyped ==
  ASSUME TokenTypeOK, EditTypeOK, NEW r \in Editors, Forget(r)
  PROVE  EditTypeOK' /\ calls' \in 0..MaxCalls
<1>1. edit' \in [Editors -> Edits] /\ calls' \in 0..MaxCalls
  BY EditReturnTyped DEF Forget
<1> QED
  BY <1>1 DEF Forget, EditTypeOK

LEMMA EditStepTyped ==
  ASSUME TokenInv, EditTypeOK, NEW r \in Editors, EditStep(r)
  PROVE  TokenInv' /\ EditTypeOK'
<1>1. TokenTypeOK
  BY DEF TokenInv
<1>2. EditTypeOK' /\ calls' \in 0..MaxCalls
  BY <1>1, GroupReadTyped, GroupMoveTyped, GroupDropTyped, MemberReadTyped, MemberAddTyped,
     MemberUpdateTyped, SettingPatchTyped, MemberRemoveTyped, ForgetTyped DEF EditStep
<1>3. UNCHANGED accountVars
  BY DEF EditStep, GroupRead, GroupMove, GroupDrop, MemberRead, MemberAdd, MemberUpdate,
         SettingPatch, MemberRemove, Forget, CommitFails, CommitDone
<1> QED
  BY <1>2, <1>3, AccountsUntouched

-----------------------------------------------------------------------------
(* The result of the query.                                                *)

LEMMA OldestGroup ==
  ASSUME NEW S \in SUBSET Groups, S # {}
  PROVE  \E g \in S : \A h \in S : Rank[g] <= Rank[h]
<1> DEFINE T == {Rank[g] : g \in S}
           R == OpToRel(<, Nat)
<1>1. T \in SUBSET Nat /\ T # {}
  BY TargetAssumption
<1>2. IsWellFoundedOn(R, Nat)
  BY NatLessThanWellFounded
<1> HIDE DEF T, R
<1>3. PICK x \in T : \A y \in T : ~(<<y, x>> \in R)
  BY <1>1, <1>2, WFMin
<1>4. PICK g \in S : x = Rank[g]
  BY <1>3 DEF T
<1>5. \A h \in S : Rank[h] \in Nat /\ Rank[g] \in Nat /\ ~(Rank[h] < Rank[g])
  BY <1>1, <1>3, <1>4, TargetAssumption DEF T, R, OpToRel
<1> QED
  BY <1>5

LEMMA PlanTyped ==
  ASSUME TokenTypeOK, EditTypeOK, NEW g \in Groups, NEW a \in Accounts
  PROVE  Plan(g, a) \in Plans
<1>1. <<g, a>> \in Pairs
  BY DEF Pairs
<1>2. setting[<<g, a>>] \in SettingRows \cup {None}
  BY <1>1 DEF EditTypeOK
<1>3. Ready(a) \in BOOLEAN
  BY Zenon DEF Ready
<1> DEFINE ready == Ready(a)
           value == IF setting[<<g, a>>] = None THEN DefaultSetting ELSE setting[<<g, a>>].value
<1>4. value \in Settings
  BY <1>2, TargetAssumption DEF SettingRows
<1>5. Plan(g, a) = [group |-> g, setting |-> value, ready |-> ready]
  BY DEF Plan
<1> HIDE DEF ready, value
<1>6. ready \in BOOLEAN
  BY <1>3 DEF ready
<1> QED
  BY <1>4, <1>5, <1>6 DEF Plans

LEMMA ContentTyped ==
  ASSUME TokenTypeOK, EditTypeOK
  PROVE  Content \in Targets
<1>1. ASSUME NEW a \in Accounts, Listing(a) # {}
      PROVE  Plan(CHOOSE g \in Listing(a) : \A h \in Listing(a) : Rank[g] <= Rank[h], a) \in Plans
  <2> DEFINE listed == Listing(a)
             oldest == CHOOSE g \in listed : \A h \in listed : Rank[g] <= Rank[h]
  <2>1. listed \in SUBSET Groups
    BY DEF Listing
  <2> HIDE DEF listed
  <2>2. \E g \in listed : \A h \in listed : Rank[g] <= Rank[h]
    BY <1>1, <2>1, OldestGroup DEF listed
  <2>3. oldest \in listed
    BY <2>2
  <2>4. oldest \in Groups
    BY <2>1, <2>3
  <2> HIDE DEF oldest
  <2>5. Plan(oldest, a) \in Plans
    BY <2>4, PlanTyped
  <2> QED
    BY <2>5 DEF oldest, listed
<1> DEFINE F(a) == IF Listing(a) = {} THEN None
                   ELSE Plan(CHOOSE g \in Listing(a) : \A h \in Listing(a) : Rank[g] <= Rank[h], a)
<1>2. \A a \in Accounts : F(a) \in Plans \cup {None}
  BY <1>1
<1>3. Content = [a \in Accounts |-> F(a)]
  BY DEF Content
<1> HIDE DEF F
<1> QED
  BY <1>2, <1>3 DEF Targets

LEMMA ContentUntouched ==
  ASSUME UNCHANGED <<account, group, member, setting>>
  PROVE  Content' = Content
  BY DEF Content, Listing, Plan, Ready, Stored

-----------------------------------------------------------------------------
(***************************************************************************)
(* The inductive invariant of the cache.  Traced: what a load or the cache *)
(* holds is present, or was, no longer ago than the copy is old.  Fresh:   *)
(* a copy that no invalidation has missed is present unless one is due.    *)
(***************************************************************************)
CacheTypeOK ==
  /\ load \in [Loaders -> Loads]
  /\ cache \in [targets : Targets, age : 0..(TTL + 1)] \cup {None}
  /\ answer \in Targets \cup {None}
  /\ past \subseteq [value : Targets, age : 0..(TTL + Lag)]
  /\ missed \subseteq {"cache"} \cup Loaders

LoadsTraced ==
  \A l \in Loaders : load[l].pc = "answered" =>
    \/ load[l].targets = Content
    \/ \E q \in past : q.value = load[l].targets /\ q.age <= load[l].age

CacheTraced ==
  cache # None /\ cache.age <= TTL =>
    \/ cache.targets = Content
    \/ \E q \in past : q.value = cache.targets /\ q.age <= cache.age + Lag

LoadsFresh ==
  \A l \in Loaders : load[l].pc = "answered" /\ l \notin missed /\ ~Pending =>
    load[l].targets = Content

CacheInv == CacheTypeOK /\ LoadsTraced /\ CacheTraced /\ LoadsFresh /\ FreshUnlessMissed

\* A step of the abstract specification, or none.
ReadStep == Reads!Next \/ UNCHANGED <<Content, past, answer>>

\* What a load is.
LEMMA LoadRecords ==
  ASSUME CacheTypeOK, NEW l \in Loaders
  PROVE  /\ load[l] \in Loads
         /\ load[l].pc = "answered" => load[l].targets \in Targets /\ load[l].age \in 0..Lag
         /\ load[l].pc \in {"idle", "asked", "answered"}
<1>1. load[l] \in Loads
  BY DEF CacheTypeOK
<1> QED
  BY <1>1 DEF Loads, IdleLoad, AskedLoad

\* A write: what the copies hold becomes a former result, and each of them is
\* either missed or still to be invalidated.
LEMMA WriteStep ==
  ASSUME CacheInv, Content \in Targets, Content' \in Targets, Pending => Pending',
         answer' = None, UNCHANGED <<load, cache>>,
         Content' = Content => UNCHANGED <<past, missed>>,
         Content' # Content =>
           /\ past' = past \cup {[value |-> Content, age |-> 0]}
           /\ \/ missed' = missed /\ Pending'
              \/ missed' = missed \cup {h \in Holders : Holds(h)}
  PROVE  CacheInv' /\ ReadStep
<1>1. CASE Content' = Content
  <2>1. ReadStep
    BY <1>1 DEF ReadStep, Reads!Next, Reads!Taken
  <2>2. CacheTypeOK'
    BY <1>1 DEF CacheInv, CacheTypeOK
  <2>3. LoadsTraced' /\ CacheTraced'
    BY <1>1 DEF CacheInv, LoadsTraced, CacheTraced
  <2>4. LoadsFresh' /\ FreshUnlessMissed'
    BY <1>1 DEF CacheInv, LoadsFresh, FreshUnlessMissed
  <2> QED
    BY <2>1, <2>2, <2>3, <2>4 DEF CacheInv
<1>2. CASE Content' # Content
  <2> DEFINE old == [value |-> Content, age |-> 0]
  <2>1. old \in [value : Targets, age : 0..(TTL + Lag)] /\ old.value = Content /\ old.age = 0
    BY TargetAssumption
  <2>2. past' = past \cup {old}
    BY <1>2
  <2> HIDE DEF old
  <2>3. ReadStep
    BY <1>2 DEF ReadStep, Reads!Next, Reads!Change
  <2>4. CacheTypeOK'
    <3>1. missed' \subseteq {"cache"} \cup Loaders
      BY <1>2 DEF CacheInv, CacheTypeOK, Holders
    <3> QED
      BY <2>1, <2>2, <3>1 DEF CacheInv, CacheTypeOK
  <2>5. LoadsTraced'
    <3> SUFFICES ASSUME NEW l \in Loaders, load[l].pc = "answered", load[l].targets # Content'
                 PROVE  \E q \in past' : q.value = load[l].targets /\ q.age <= load[l].age
      BY DEF LoadsTraced
    <3>1. load[l].age \in 0..Lag
      BY LoadRecords DEF CacheInv
    <3>2. CASE load[l].targets = Content
      BY <2>1, <2>2, <3>1, <3>2, TargetAssumption
    <3>3. CASE load[l].targets # Content
      BY <2>2, <3>3 DEF CacheInv, LoadsTraced
    <3> QED
      BY <3>2, <3>3
  <2>6. CacheTraced'
    <3> SUFFICES ASSUME cache # None, cache.age <= TTL, cache.targets # Content'
                 PROVE  \E q \in past' : q.value = cache.targets /\ q.age <= cache.age + Lag
      BY DEF CacheTraced
    <3>1. cache.age \in Nat
      BY TargetAssumption DEF CacheInv, CacheTypeOK
    <3>2. CASE cache.targets = Content
      BY <2>1, <2>2, <3>1, <3>2, TargetAssumption
    <3>3. CASE cache.targets # Content
      BY <2>2, <3>3 DEF CacheInv, CacheTraced
    <3> QED
      BY <3>2, <3>3
  <2>7. LoadsFresh'
    BY <1>2, TargetAssumption DEF CacheInv, LoadsFresh, Holders, Holds
  <2>8. FreshUnlessMissed'
    BY <1>2 DEF CacheInv, FreshUnlessMissed, Holders, Holds
  <2> QED
    BY <2>3, <2>4, <2>5, <2>6, <2>7, <2>8 DEF CacheInv
<1> QED
  BY <1>1, <1>2

LEMMA SilentStep ==
  ASSUME CacheInv, Silent, UNCHANGED <<account, group, member, setting>>, Pending => Pending'
  PROVE  CacheInv' /\ ReadStep
<1>1. Content' = Content
  BY ContentUntouched
<1>2. ReadStep
  BY <1>1 DEF Silent, ReadStep, Reads!Next, Reads!Taken
<1>3. CacheTypeOK'
  BY DEF Silent, CacheInv, CacheTypeOK
<1>4. LoadsTraced' /\ CacheTraced'
  BY <1>1 DEF Silent, CacheInv, LoadsTraced, CacheTraced
<1>5. LoadsFresh' /\ FreshUnlessMissed'
  BY <1>1 DEF Silent, CacheInv, LoadsFresh, FreshUnlessMissed
<1> QED
  BY <1>2, <1>3, <1>4, <1>5 DEF CacheInv

\* After an invalidation a copy is present, or missed: whatever is pending.
LEMMA InvalidateStep ==
  ASSUME CacheInv, NEW masters, Invalidate(masters),
         UNCHANGED <<account, group, member, setting>>,
         SessionMaster \notin masters => (Pending => Pending')
  PROVE  CacheInv' /\ ReadStep
<1>1. Content' = Content
  BY ContentUntouched
<1>2. UNCHANGED <<load, past>> /\ answer' = None
  BY DEF Invalidate
<1>3. ReadStep
  BY <1>1, <1>2 DEF ReadStep, Reads!Next, Reads!Taken
<1>4. LoadsTraced'
  BY <1>1, <1>2 DEF CacheInv, LoadsTraced
<1>5. CASE SessionMaster \in masters
  <2>1. cache' = None
        /\ missed' = (missed \ {"cache"}) \cup
             {l \in Loaders : load[l].pc = "answered" /\ load[l].targets # Content}
    BY <1>5 DEF Invalidate
  <2>2. CacheTypeOK'
    BY <1>2, <2>1 DEF CacheInv, CacheTypeOK
  <2>3. CacheTraced' /\ FreshUnlessMissed'
    BY <2>1 DEF CacheTraced, FreshUnlessMissed
  <2>4. LoadsFresh'
    <3> SUFFICES ASSUME NEW l \in Loaders, load[l].pc = "answered", l \notin missed'
                 PROVE  load[l].targets = Content'
      BY <1>2 DEF LoadsFresh
    <3> QED
      BY <1>1, <2>1
  <2> QED
    BY <1>3, <1>4, <2>2, <2>3, <2>4 DEF CacheInv
<1>6. CASE SessionMaster \notin masters
  <2>1. UNCHANGED <<cache, missed>>
    BY <1>6 DEF Invalidate
  <2>2. CacheTypeOK' /\ CacheTraced'
    BY <1>1, <1>2, <2>1 DEF CacheInv, CacheTypeOK, CacheTraced
  <2>3. LoadsFresh' /\ FreshUnlessMissed'
    BY <1>1, <1>2, <1>6, <2>1 DEF CacheInv, LoadsFresh, FreshUnlessMissed
  <2> QED
    BY <1>3, <1>4, <2>2, <2>3 DEF CacheInv
<1> QED
  BY <1>5, <1>6

LEMMA LoadStepInv ==
  ASSUME CacheInv, Content \in Targets, NEW l \in Loaders, LoadStep(l)
  PROVE  CacheInv' /\ ReadStep
<1>0. UNCHANGED <<account, group, member, setting, call, edit>>
  BY DEF LoadStep, LoadHit, LoadAsk, LoadQuery, LoadStore, LoadCancelled, tokenVars, editVars
<1>1. Content' = Content /\ Pending' = Pending
  <2>1. Content' = Content
    BY <1>0, ContentUntouched
  <2>2. Pending' = Pending
    BY <1>0 DEF Pending, Served, At
  <2> QED
    BY <2>1, <2>2
<1>2. CASE LoadHit(l)
  <2>1. UNCHANGED <<load, cache, past, missed>> /\ answer' = cache.targets /\ Fresh
    BY <1>2 DEF LoadHit
  <2>2. cache.targets \in Targets
    BY <2>1 DEF Fresh, CacheInv, CacheTypeOK
  <2>3. answer' \in {Content} \cup {p.value : p \in past}
    BY <2>1 DEF Fresh, CacheInv, CacheTraced
  <2>4. ReadStep
    BY <1>1, <2>1, <2>3 DEF ReadStep, Reads!Next, Reads!Read
  <2>5. CacheTypeOK'
    BY <2>1, <2>2 DEF CacheInv, CacheTypeOK
  <2>6. LoadsTraced' /\ CacheTraced'
    BY <1>1, <2>1 DEF CacheInv, LoadsTraced, CacheTraced
  <2>7. LoadsFresh' /\ FreshUnlessMissed'
    BY <1>1, <2>1 DEF CacheInv, LoadsFresh, FreshUnlessMissed
  <2> QED
    BY <2>4, <2>5, <2>6, <2>7 DEF CacheInv
<1>3. CASE LoadAsk(l) \/ LoadQuery(l)
  <2> DEFINE new == IF LoadAsk(l) THEN AskedLoad
                    ELSE [pc |-> "answered", targets |-> Content, age |-> 0]
  <2>1. UNCHANGED <<cache, past, missed>> /\ answer' = None /\ load' = [load EXCEPT ![l] = new]
    BY <1>3 DEF LoadAsk, LoadQuery
  <2>2. /\ new \in Loads
        /\ new.pc = "answered" => new.targets = Content
    BY TargetAssumption DEF Loads, AskedLoad
  <2> HIDE DEF new
  <2>3. /\ load' \in [Loaders -> Loads]
        /\ load'[l] = new /\ \A k \in Loaders \ {l} : load'[k] = load[k]
    BY <2>1, <2>2 DEF CacheInv, CacheTypeOK
  <2>4. ReadStep
    BY <1>1, <2>1 DEF ReadStep, Reads!Next, Reads!Taken
  <2>5. CacheTypeOK'
    BY <2>1, <2>3 DEF CacheInv, CacheTypeOK
  <2>6. LoadsTraced' /\ CacheTraced'
    BY <1>1, <2>1, <2>2, <2>3 DEF CacheInv, LoadsTraced, CacheTraced
  <2>7. LoadsFresh' /\ FreshUnlessMissed'
    BY <1>1, <2>1, <2>2, <2>3 DEF CacheInv, LoadsFresh, FreshUnlessMissed
  <2> QED
    BY <2>4, <2>5, <2>6, <2>7 DEF CacheInv
<1>4. IdleLoad \in Loads /\ IdleLoad.pc = "idle"
  BY DEF Loads, IdleLoad
<1>5. CASE LoadStore(l)
  <2> DEFINE targets == load[l].targets
             entry == [targets |-> targets, age |-> 0]
  <2>1. /\ load[l].pc = "answered"
        /\ cache' = entry /\ answer' = targets
        /\ load' = [load EXCEPT ![l] = IdleLoad]
        /\ missed' = IF l \in missed THEN (missed \ {l}) \cup {"cache"} ELSE missed \ {"cache"}
        /\ past' = past
    BY <1>5 DEF LoadStore
  <2>2. targets \in Targets /\ load[l].age \in 0..Lag
    BY <2>1, LoadRecords DEF CacheInv
  <2>3. /\ load' \in [Loaders -> Loads]
        /\ load'[l] = IdleLoad /\ \A k \in Loaders \ {l} : load'[k] = load[k]
    BY <1>4, <2>1 DEF CacheInv, CacheTypeOK
  <2>4. targets = Content \/ \E q \in past : q.value = targets /\ q.age <= load[l].age
    BY <2>1 DEF CacheInv, LoadsTraced
  <2>5. entry \in [targets : Targets, age : 0..(TTL + 1)]
        /\ entry.targets = targets /\ entry.age = 0
    BY <2>2, TargetAssumption
  <2>6. l \notin missed /\ ~Pending => targets = Content
    BY <2>1 DEF CacheInv, LoadsFresh
  <2> HIDE DEF targets, entry
  <2>7. ReadStep
    BY <1>1, <2>1, <2>4 DEF ReadStep, Reads!Next, Reads!Read
  <2>8. CacheTypeOK'
    <3>1. missed' \subseteq {"cache"} \cup Loaders
      BY <2>1 DEF CacheInv, CacheTypeOK
    <3> QED
      BY <2>1, <2>2, <2>3, <2>5, <3>1 DEF CacheInv, CacheTypeOK
  <2>9. LoadsTraced'
    BY <1>1, <1>4, <2>1, <2>3 DEF CacheInv, LoadsTraced
  <2>10. CacheTraced'
    <3>1. \A q \in past : q.age <= load[l].age => q.age <= 0 + Lag
      BY <2>2, TargetAssumption DEF CacheInv, CacheTypeOK
    <3> QED
      BY <1>1, <2>1, <2>4, <2>5, <3>1 DEF CacheTraced
  <2>11. LoadsFresh'
    <3>1. \A k \in Loaders \ {l} : k \notin missed' => k \notin missed
      BY <2>1, TargetAssumption
    <3> QED
      BY <1>1, <1>4, <2>3, <3>1 DEF CacheInv, LoadsFresh
  <2>12. FreshUnlessMissed'
    <3>1. "cache" \notin missed' => l \notin missed
      BY <2>1
    <3> QED
      BY <1>1, <2>1, <2>5, <2>6, <3>1 DEF FreshUnlessMissed
  <2> QED
    BY <2>7, <2>8, <2>9, <2>10, <2>11, <2>12 DEF CacheInv
<1>6. CASE LoadCancelled(l)
  <2>1. /\ load' = [load EXCEPT ![l] = IdleLoad]
        /\ missed' = missed \ {l} /\ answer' = None
        /\ UNCHANGED <<cache, past>>
    BY <1>6 DEF LoadCancelled
  <2>2. /\ load' \in [Loaders -> Loads]
        /\ load'[l] = IdleLoad /\ \A k \in Loaders \ {l} : load'[k] = load[k]
    BY <1>4, <2>1 DEF CacheInv, CacheTypeOK
  <2>3. ReadStep
    BY <1>1, <2>1 DEF ReadStep, Reads!Next, Reads!Taken
  <2>4. CacheTypeOK'
    <3>1. missed' \subseteq {"cache"} \cup Loaders
      BY <2>1 DEF CacheInv, CacheTypeOK
    <3> QED
      BY <2>1, <2>2, <3>1 DEF CacheInv, CacheTypeOK
  <2>5. LoadsTraced' /\ CacheTraced'
    BY <1>1, <1>4, <2>1, <2>2 DEF CacheInv, LoadsTraced, CacheTraced
  <2>6. LoadsFresh' /\ FreshUnlessMissed'
    <3>1. "cache" \notin missed' => "cache" \notin missed
      BY <2>1, TargetAssumption
    <3> QED
      BY <1>1, <1>4, <2>1, <2>2, <3>1 DEF CacheInv, LoadsFresh, FreshUnlessMissed
  <2> QED
    BY <2>3, <2>4, <2>5, <2>6 DEF CacheInv
<1> QED
  BY <1>2, <1>3, <1>5, <1>6 DEF LoadStep

LEMMA SessionForgetInv ==
  ASSUME CacheInv, SessionForget
  PROVE  CacheInv' /\ ReadStep
<1>1. UNCHANGED <<account, group, member, setting, call, edit, load, past>>
      /\ cache' = None /\ answer' = None /\ missed' = missed \ {"cache"}
  BY DEF SessionForget, tokenVars, editVars
<1>2. Content' = Content
  BY <1>1, ContentUntouched
<1>3. Pending' = Pending
  BY <1>1 DEF Pending, Served, At
<1>4. ReadStep
  BY <1>1, <1>2 DEF ReadStep, Reads!Next, Reads!Taken
<1>5. CacheTypeOK'
  <2>1. missed' \subseteq {"cache"} \cup Loaders
    BY <1>1 DEF CacheInv, CacheTypeOK
  <2> QED
    BY <1>1, <2>1 DEF CacheInv, CacheTypeOK
<1>6. LoadsTraced' /\ CacheTraced'
  BY <1>1, <1>2 DEF CacheInv, LoadsTraced, CacheTraced
<1>7. LoadsFresh' /\ FreshUnlessMissed'
  <2>1. \A l \in Loaders : l \notin missed' => l \notin missed
    BY <1>1, TargetAssumption
  <2> QED
    BY <1>1, <1>2, <1>3, <2>1 DEF CacheInv, LoadsFresh, FreshUnlessMissed
<1> QED
  BY <1>4, <1>5, <1>6, <1>7 DEF CacheInv

LEMMA TickInv ==
  ASSUME CacheInv, Tick
  PROVE  CacheInv' /\ ReadStep
<1>0. UNCHANGED <<account, group, member, setting, call, edit, missed>> /\ answer' = None
  BY DEF Tick, tokenVars, editVars
<1>1. Content' = Content
  BY <1>0, ContentUntouched
<1>2. Pending' = Pending
  BY <1>0 DEF Pending, Served, At
<1>3. past' = {[value |-> q.value, age |-> q.age + 1] : q \in {p \in past : p.age < TTL + Lag}}
  BY DEF Tick
<1>4. ReadStep
  BY <1>0, <1>1, <1>3 DEF ReadStep, Reads!Next, Reads!Pass
<1>5. past' \subseteq [value : Targets, age : 0..(TTL + Lag)]
  BY <1>3, TargetAssumption DEF CacheInv, CacheTypeOK
\* What is young enough stays, one tick older.
<1>6. \A q \in past : q.age < TTL + Lag =>
        \E p \in past' : p.value = q.value /\ p.age = q.age + 1
  <2> SUFFICES ASSUME NEW q \in past, q.age < TTL + Lag
               PROVE  \E p \in past' : p.value = q.value /\ p.age = q.age + 1
    OBVIOUS
  <2> DEFINE p == [value |-> q.value, age |-> q.age + 1]
  <2>1. p \in past'
    BY <1>3
  <2>2. p.value = q.value /\ p.age = q.age + 1
    OBVIOUS
  <2> HIDE DEF p
  <2> QED
    BY <2>1, <2>2
<1>7. ASSUME NEW l \in Loaders
      PROVE  /\ load'[l] \in Loads
             /\ load'[l].pc = load[l].pc
             /\ load[l].pc = "answered" =>
                  /\ load'[l].targets = load[l].targets
                  /\ load'[l].age = load[l].age + 1
                  /\ load[l].age < Lag /\ load[l].age \in Nat
  <2>1. CASE load[l].pc = "answered"
    <3> DEFINE next == load[l].age + 1
    <3>1. load'[l] = [load[l] EXCEPT !.age = next] /\ load[l].age < Lag
      BY <2>1 DEF Tick
    <3>2. load[l] \in [pc : {"answered"}, targets : Targets, age : 0..Lag]
      BY <2>1, LoadRecords DEF CacheInv, Loads, IdleLoad, AskedLoad
    <3>3. next \in 0..Lag
      BY <3>1, <3>2, TargetAssumption
    <3>4. next = load[l].age + 1 /\ load[l].age \in Nat
      BY <3>2, TargetAssumption
    <3> HIDE DEF next
    <3>5. [load[l] EXCEPT !.age = next] \in [pc : {"answered"}, targets : Targets, age : 0..Lag]
      BY <3>2, <3>3
    <3> QED
      BY <2>1, <3>1, <3>2, <3>4, <3>5 DEF Loads
  <2>2. CASE load[l].pc # "answered"
    BY <2>2, LoadRecords DEF Tick, CacheInv
  <2> QED
    BY <2>1, <2>2
<1>8. /\ cache' # None => cache # None
      /\ cache' \in [targets : Targets, age : 0..(TTL + 1)] \cup {None}
      /\ cache # None /\ cache.age <= TTL =>
           cache'.targets = cache.targets /\ cache'.age = cache.age + 1
      /\ cache # None /\ ~(cache.age <= TTL) => cache' = cache
  <2>1. CASE cache # None /\ cache.age <= TTL
    <3> DEFINE next == cache.age + 1
    <3>1. cache' = [cache EXCEPT !.age = next]
      BY <2>1 DEF Tick
    <3>2. cache \in [targets : Targets, age : 0..(TTL + 1)]
      BY <2>1 DEF CacheInv, CacheTypeOK
    <3>3. next \in 0..(TTL + 1) /\ next = cache.age + 1
      BY <2>1, <3>2, TargetAssumption
    <3> HIDE DEF next
    <3> QED
      BY <2>1, <3>1, <3>2, <3>3
  <2>2. CASE ~(cache # None /\ cache.age <= TTL)
    BY <2>2 DEF Tick, CacheInv, CacheTypeOK
  <2> QED
    BY <2>1, <2>2
<1>9. CacheTypeOK'
  <2>1. load' \in [Loaders -> Loads]
    BY <1>7 DEF Tick
  <2> QED
    BY <1>0, <1>5, <1>8, <2>1 DEF CacheInv, CacheTypeOK
<1>10. LoadsTraced'
  <2> SUFFICES ASSUME NEW l \in Loaders, load'[l].pc = "answered", load'[l].targets # Content'
               PROVE  \E q \in past' : q.value = load'[l].targets /\ q.age <= load'[l].age
    BY DEF LoadsTraced
  <2>1. PICK q \in past : q.value = load[l].targets /\ q.age <= load[l].age
    BY <1>1, <1>7 DEF CacheInv, LoadsTraced
  <2>2. q.age \in Nat
    BY TargetAssumption DEF CacheInv, CacheTypeOK
  <2>3. q.age < TTL + Lag
    BY <1>7, <2>1, <2>2, TargetAssumption
  <2> QED
    BY <1>6, <1>7, <2>1, <2>2, <2>3
<1>11. CacheTraced'
  <2> SUFFICES ASSUME cache' # None, cache'.age <= TTL, cache'.targets # Content'
               PROVE  \E q \in past' : q.value = cache'.targets /\ q.age <= cache'.age + Lag
    BY DEF CacheTraced
  <2>1. cache # None /\ cache.age <= TTL /\ cache.age \in Nat
        /\ cache'.targets = cache.targets /\ cache'.age = cache.age + 1
    BY <1>8, TargetAssumption DEF CacheInv, CacheTypeOK
  <2>2. PICK q \in past : q.value = cache.targets /\ q.age <= cache.age + Lag
    BY <1>1, <2>1 DEF CacheInv, CacheTraced
  <2>3. q.age \in Nat
    BY TargetAssumption DEF CacheInv, CacheTypeOK
  <2>4. q.age < TTL + Lag
    BY <2>1, <2>2, <2>3, TargetAssumption
  <2> QED
    BY <1>6, <2>1, <2>2, <2>3, <2>4, TargetAssumption
<1>12. LoadsFresh'
  BY <1>0, <1>1, <1>2, <1>7 DEF CacheInv, LoadsFresh
<1>13. FreshUnlessMissed'
  <2> SUFFICES ASSUME cache' # None, ~Pending, "cache" \notin missed
               PROVE  cache'.targets = Content
    BY <1>0, <1>1, <1>2 DEF FreshUnlessMissed
  <2> QED
    BY <1>8 DEF CacheInv, FreshUnlessMissed
<1> QED
  BY <1>4, <1>9, <1>10, <1>11, <1>12, <1>13 DEF CacheInv

-----------------------------------------------------------------------------
(* The steps together.                                                     *)

IInv == TokenInv /\ EditTypeOK /\ CacheInv

LEMMA TypesTogether ==
  TokenTypeOK /\ EditTypeOK /\ CacheTypeOK <=> TypeOK
  BY DEF TypeOK, EditTypeOK, CacheTypeOK

LEMMA TargetInitInv == TargetInit => IInv /\ Reads!Init
<1> SUFFICES ASSUME TargetInit PROVE IInv /\ Reads!Init
  OBVIOUS
<1>1. TokenInv
  BY TokenInitInv DEF TargetInit
<1>2. EditTypeOK
  <2>1. group \in [Groups -> Masters \cup {None}] /\ edit \in [Editors -> Edits]
    BY TargetAssumption DEF TargetInit, Edits
  <2>2. 0 \in 0..MaxCalls
    BY TokenAssumption
  <2>3. member \in [Pairs -> Members \cup {None}]
    BY <2>2 DEF TargetInit, Members
  <2>4. setting \in [Pairs -> SettingRows \cup {None}]
    BY <2>2, TargetAssumption DEF TargetInit, SettingRows
  <2> QED
    BY <2>1, <2>3, <2>4 DEF EditTypeOK
<1>3. CacheInv
  <2>1. load \in [Loaders -> Loads] /\ \A l \in Loaders : load[l].pc = "idle"
    BY DEF TargetInit, Loads, IdleLoad
  <2>2. CacheTypeOK
    BY <2>1 DEF TargetInit, CacheTypeOK
  <2> QED
    BY <2>1, <2>2
    DEF TargetInit, CacheInv, LoadsTraced, CacheTraced, LoadsFresh, FreshUnlessMissed
<1>4. Reads!Init
  BY <1>1, <1>2, ContentTyped DEF TokenInv, TargetInit, Reads!Init
<1> QED
  BY <1>1, <1>2, <1>3, <1>4 DEF IInv

\* No edit and no request of another kind takes a due invalidation away.
LEMMA EditPending ==
  ASSUME EditTypeOK, UNCHANGED call, NEW r \in Editors, edit[r].op # "forget",
         NEW record, edit' = [edit EXCEPT ![r] = record], Pending
  PROVE  Pending'
  BY DEF Pending, Served, At, EditTypeOK

LEMMA CallPending ==
  ASSUME TokenTypeOK, UNCHANGED edit, NEW r \in Requests, ~At(r, "delete", "forget"),
         NEW record, call' = [call EXCEPT ![r] = record], Pending
  PROVE  Pending'
  BY DEF Pending, Served, At, TokenTypeOK

LEMMA CommitStep ==
  ASSUME IInv, NEW r \in Editors, edit[r].op \in {"add", "update", "remove", "patch"},
         CommitFails(r) \/ CommitDone(r), Content \in Targets, Content' \in Targets
  PROVE  CacheInv' /\ ReadStep
<1>0. EditTypeOK /\ CacheInv /\ call' = call
  BY DEF IInv, CommitFails, CommitDone, accountVars
<1>1. CASE CommitFails(r)
  <2>1. Pending => Pending'
    BY <1>0, <1>1, EditPending DEF CommitFails, EditReturn, EditGoto
  <2> QED
    BY <1>0, <1>1, <2>1, SilentStep DEF CommitFails, accountVars
<1>2. CASE CommitDone(r)
  <2> DEFINE record == [op |-> "forget", master |-> edit[r].master]
  <2>1. edit' = [edit EXCEPT ![r] = record] /\ Written(Served(r))
    BY <1>2 DEF CommitDone, Committed, EditGoto
  <2>2. Pending => Pending'
    BY <1>0, <2>1, EditPending
  <2>3. edit'[r] = record
    BY <1>0, <2>1 DEF EditTypeOK
  <2>4. Served(r) => Pending'
    BY <2>3 DEF Pending, Served
  <2>5. /\ answer' = None /\ UNCHANGED <<load, cache>>
        /\ Content' = Content => UNCHANGED <<past, missed>>
        /\ Content' # Content =>
             /\ past' = past \cup {[value |-> Content, age |-> 0]}
             /\ missed' = IF Served(r) THEN missed
                          ELSE missed \cup {h \in Holders : Holds(h)}
    BY <2>1, Zenon DEF Written
  <2>6. Content' # Content =>
           \/ missed' = missed /\ Pending'
           \/ missed' = missed \cup {h \in Holders : Holds(h)}
    BY <2>4, <2>5
  <2> QED
    BY <1>0, <2>2, <2>5, <2>6, WriteStep
<1> QED
  BY <1>1, <1>2

\* A write that no invalidation follows.
LEMMA UnservedStep ==
  ASSUME CacheInv, Content \in Targets, Content' \in Targets, Pending => Pending',
         Written(FALSE)
  PROVE  CacheInv' /\ ReadStep
<1>1. /\ answer' = None /\ UNCHANGED <<load, cache>>
      /\ Content' = Content => UNCHANGED <<past, missed>>
      /\ Content' # Content =>
           /\ past' = past \cup {[value |-> Content, age |-> 0]}
           /\ missed' = missed \cup {h \in Holders : Holds(h)}
  BY Zenon DEF Written
<1> QED
  BY <1>1, WriteStep

LEMMA ContentTypedNow ==
  TokenInv /\ EditTypeOK => Content \in Targets
  BY ContentTyped DEF TokenInv

LEMMA ContentTypedNext ==
  TokenInv' /\ EditTypeOK' => (Content \in Targets)'
  BY ContentTypedNow, PTL

LEMMA EditStepInv ==
  ASSUME IInv, NEW r \in Editors, EditStep(r)
  PROVE  IInv' /\ ReadStep
<1>0. EditTypeOK /\ TokenInv /\ CacheInv
  BY DEF IInv
<1>1. TokenInv' /\ EditTypeOK'
  BY <1>0, EditStepTyped
<1>2. Content \in Targets /\ Content' \in Targets
  BY <1>0, <1>1, ContentTypedNow, ContentTypedNext
<1>3. UNCHANGED accountVars
  BY DEF EditStep, GroupRead, GroupMove, GroupDrop, MemberRead, MemberAdd, MemberUpdate,
         SettingPatch, MemberRemove, Forget, CommitFails, CommitDone
<1>4. UNCHANGED <<account, call>>
  BY <1>3 DEF accountVars
<1>5. ASSUME NEW g \in Groups, GroupRead(r, g) PROVE CacheInv' /\ ReadStep
  <2>1. PICK op \in {"move", "drop"} :
          EditEnter(r, [op |-> op, group |-> g, master |-> group[g]])
    BY <1>5 DEF GroupRead
  <2> DEFINE record == [op |-> op, group |-> g, master |-> group[g]]
  <2>2. Pending => Pending'
    <3>1. edit[r].op # "forget" /\ edit' = [edit EXCEPT ![r] = record]
      BY <2>1 DEF EditEnter, Idle
    <3> HIDE DEF record
    <3> QED
      BY <1>0, <1>4, <3>1, EditPending
  <2> QED
    BY <1>0, <1>4, <1>5, <2>2, SilentStep DEF GroupRead
<1>6. ASSUME GroupMove(r) \/ GroupDrop(r) PROVE CacheInv' /\ ReadStep
  <2>1. Pending => Pending'
    BY <1>0, <1>4, <1>6, EditPending DEF GroupMove, GroupDrop, EditReturn, EditGoto
  <2>2. Written(FALSE)
    BY <1>6 DEF GroupMove, GroupDrop
  <2> QED
    BY <1>0, <1>2, <2>1, <2>2, UnservedStep
<1>7. ASSUME NEW g \in Groups, NEW a \in Accounts, MemberRead(r, g, a)
      PROVE  CacheInv' /\ ReadStep
  <2>1. PICK op : EditEnter(r, Opened(op, g, a))
    BY <1>7 DEF MemberRead
  <2> DEFINE record == Opened(op, g, a)
  <2>2. Pending => Pending'
    <3>1. edit[r].op # "forget" /\ edit' = [edit EXCEPT ![r] = record]
      BY <2>1 DEF EditEnter, Idle
    <3> HIDE DEF record
    <3> QED
      BY <1>0, <1>4, <3>1, EditPending
  <2> QED
    BY <1>0, <1>4, <1>7, <2>2, SilentStep DEF MemberRead
<1>8. ASSUME MemberAdd(r) \/ MemberUpdate(r) \/ SettingPatch(r) \/ MemberRemove(r)
      PROVE  CacheInv' /\ ReadStep
  <2>1. CommitFails(r) \/ CommitDone(r)
    BY <1>8 DEF MemberAdd, MemberUpdate, SettingPatch, MemberRemove
  <2>2. edit[r].op \in {"add", "update", "remove", "patch"}
    BY <1>8 DEF MemberAdd, MemberUpdate, SettingPatch, MemberRemove
  <2> QED
    BY <1>2, <2>1, <2>2, CommitStep
<1>9. ASSUME Forget(r) PROVE CacheInv' /\ ReadStep
  <2> DEFINE masters == {edit[r].master}
  <2>1. Invalidate(masters) /\ EditReturn(r) /\ UNCHANGED <<group, member, setting>>
    BY <1>9 DEF Forget
  <2>2. edit' = [edit EXCEPT ![r] = Idle]
    BY <2>1 DEF EditReturn, EditGoto
  <2>3. SessionMaster \notin masters => (Pending => Pending')
    BY <1>0, <1>4, <2>2 DEF Pending, Served, At, EditTypeOK
  <2> HIDE DEF masters
  <2> QED
    BY <1>0, <1>4, <2>1, <2>3, InvalidateStep
<1> QED
  BY <1>1, <1>5, <1>6, <1>7, <1>8, <1>9 DEF EditStep, IInv

\* Which requests a step of AccountTokens leaves alone, and what the one it
\* moves was not doing.
LEMMA TokenStepMoves ==
  ASSUME TokenTypeOK, NEW r \in Requests, TokenStep(r)
  PROVE  /\ ~At(r, "delete", "forget")
         /\ call' = call \/ \E record : call' = [call EXCEPT ![r] = record]
<1>1. ASSUME LoginStep(r)
      PROVE  ~At(r, "delete", "forget") /\ \E record : call' = [call EXCEPT ![r] = record]
  <2>1. ASSUME NEW a \in Accounts, LoginRead(r, a)
        PROVE  ~At(r, "delete", "forget") /\ \E record : call' = [call EXCEPT ![r] = record]
    <3>1. PICK n \in States :
            Enter(r, [op |-> "login", pc |-> "url", account |-> a, state |-> n, creds |-> 0])
      BY <2>1 DEF LoginRead
    <3> DEFINE record == [op |-> "login", pc |-> "url", account |-> a, state |-> n, creds |-> 0]
    <3>2. call[r] = Idle /\ call' = [call EXCEPT ![r] = record]
      BY <3>1 DEF Enter
    <3>3. ~At(r, "delete", "forget")
      BY <3>2 DEF At, Idle
    <3> QED
      BY <3>2, <3>3, Zenon
  <2>2. ASSUME LoginUrl(r)
        PROVE  ~At(r, "delete", "forget") /\ \E record : call' = [call EXCEPT ![r] = record]
    <3> DEFINE next == [call[r] EXCEPT !.pc = "commit",
                                       !.creds = account[call[r].account].creds]
    <3>1. call' = [call EXCEPT ![r] = next] \/ call' = [call EXCEPT ![r] = Idle]
      BY <2>2 DEF LoginUrl, Goto, Return
    <3> HIDE DEF next
    <3> QED
      BY <2>2, <3>1 DEF LoginUrl, At
  <2>3. ASSUME LoginCommit(r)
        PROVE  ~At(r, "delete", "forget") /\ \E record : call' = [call EXCEPT ![r] = record]
    BY <2>3 DEF LoginCommit, Return, Goto, At
  <2> QED
    BY <1>1, <2>1, <2>2, <2>3 DEF LoginStep
<1>2. ASSUME ExchangeStep(r)
      PROVE  ~At(r, "delete", "forget") /\ \E record : call' = [call EXCEPT ![r] = record]
  BY <1>2 DEF ExchangeStep, CallbackRead, TokenRead, CallbackCommit, ExchangeLoad,
              ExchangeStore, ExchangeFails, Enter, Return, Goto, At, Idle
<1>3. ASSUME UpdateStep(r)
      PROVE  ~At(r, "delete", "forget")
             /\ (call' = call \/ \E record : call' = [call EXCEPT ![r] = record])
  BY <1>3 DEF UpdateStep, Create, UpdateRead, CredentialsCommit, ActivateCommit,
              Enter, Return, Goto, At, Idle
<1> QED
  BY <1>1, <1>2, <1>3 DEF TokenStep

LEMMA AccountStepInv ==
  ASSUME IInv, NEW r \in Requests,
         \/ AccountStep(r)
         \/ \E a \in Accounts : AccountDeleteRead(r, a)
         \/ AccountDelete(r)
         \/ AccountForget(r)
  PROVE  IInv' /\ ReadStep
<1>0. TokenInv /\ TokenTypeOK /\ EditTypeOK /\ CacheInv
  BY DEF IInv, TokenInv
<1>1. ASSUME AccountStep(r) PROVE IInv' /\ ReadStep
  <2>1. TokenInv'
    BY <1>0, <1>1, TokenStepInv DEF AccountStep
  <2>2. UNCHANGED <<group, member, setting, edit>> /\ Written(FALSE)
    BY <1>1 DEF AccountStep, editVars
  <2>3. EditTypeOK'
    BY <1>0, <2>2 DEF EditTypeOK
  <2>4. Content \in Targets /\ Content' \in Targets
    BY <1>0, <2>1, <2>3, ContentTypedNow, ContentTypedNext
  <2>5. Pending => Pending'
    <3>1. /\ ~At(r, "delete", "forget")
          /\ call' = call \/ \E record : call' = [call EXCEPT ![r] = record]
      BY <1>0, <1>1, TokenStepMoves DEF AccountStep
    <3>2. CASE call' = call
      BY <2>2, <3>2 DEF Pending, Served, At
    <3>3. CASE \E record : call' = [call EXCEPT ![r] = record]
      BY <1>0, <2>2, <3>1, <3>3, CallPending
    <3> QED
      BY <3>1, <3>2, <3>3
  <2> QED
    BY <1>0, <2>1, <2>2, <2>3, <2>4, <2>5, UnservedStep DEF IInv
<1>2. ASSUME NEW a \in Accounts, AccountDeleteRead(r, a) PROVE IInv' /\ ReadStep
  <2> DEFINE joined == {g \in Groups : group[g] # None /\ member[<<g, a>>] # None}
             ms == {group[g] : g \in joined}
             record == [op |-> "delete", pc |-> "commit", account |-> a, masters |-> ms]
  <2>1. ms \in SUBSET Masters
    BY <1>0 DEF EditTypeOK
  <2>2. DeleteRead(r, a, ms)
    BY <1>2 DEF AccountDeleteRead
  <2>3. UNCHANGED <<group, member, setting, edit>> /\ Silent
    BY <1>2 DEF AccountDeleteRead, editVars
  <2>4. call[r] = Idle /\ call' = [call EXCEPT ![r] = record] /\ account' = account
    BY <2>2 DEF DeleteRead, Enter
  <2> HIDE DEF ms, record
  <2>5. TokenInv'
    BY <1>0, <2>1, <2>2, DeleteInv
  <2>6. EditTypeOK'
    BY <1>0, <2>3 DEF EditTypeOK
  <2>7. Pending => Pending'
    <3>1. ~At(r, "delete", "forget")
      BY <2>4 DEF At, Idle
    <3> QED
      BY <1>0, <2>3, <2>4, <3>1, CallPending
  <2>8. CacheInv' /\ ReadStep
    BY <1>0, <2>3, <2>4, <2>7, SilentStep
  <2> QED
    BY <2>5, <2>6, <2>8 DEF IInv
<1>3. ASSUME AccountDelete(r) PROVE IInv' /\ ReadStep
  <2> DEFINE next == [call[r] EXCEPT !.pc = "forget"]
             b == SessionMaster \in call[r].masters
  <2>1. TokenInv'
    BY <1>0, <1>3, DeleteInv DEF AccountDelete
  <2>2. EditTypeOK'
    <3>1. call[r].account \in Accounts
      BY <1>0, <1>3, CallRecords DEF AccountDelete, DeleteCommit, At
    <3>2. /\ member' \in [Pairs -> Members \cup {None}]
          /\ setting' \in [Pairs -> SettingRows \cup {None}]
      BY <1>0, <1>3 DEF AccountDelete, EditTypeOK
    <3> QED
      BY <1>0, <1>3, <3>2 DEF AccountDelete, EditTypeOK
  <2>3. Content \in Targets /\ Content' \in Targets
    BY <1>0, <2>1, <2>2, ContentTypedNow, ContentTypedNext
  <2>4. /\ At(r, "delete", "commit") /\ call' = [call EXCEPT ![r] = next] /\ edit' = edit
        /\ Written(b)
    BY <1>3 DEF AccountDelete, DeleteCommit, Goto
  <2>5. call'[r] = next /\ next.op = "delete" /\ next.pc = "forget"
        /\ next.masters = call[r].masters
    BY <1>0, <2>4, CallRecords DEF TokenTypeOK, At
  <2> HIDE DEF next
  <2>6. Pending => Pending'
    BY <1>0, <2>4, CallPending DEF At
  <2>7. b => Pending'
    BY <2>5 DEF Pending, At
  <2>8. /\ answer' = None /\ UNCHANGED <<load, cache>>
        /\ Content' = Content => UNCHANGED <<past, missed>>
        /\ Content' # Content =>
             /\ past' = past \cup {[value |-> Content, age |-> 0]}
             /\ missed' = IF b THEN missed
                          ELSE missed \cup {h \in Holders : Holds(h)}
    BY <2>4, Zenon DEF Written
  <2>9. Content' # Content =>
           \/ missed' = missed /\ Pending'
           \/ missed' = missed \cup {h \in Holders : Holds(h)}
    BY <2>7, <2>8
  <2>10. CacheInv' /\ ReadStep
    BY <1>0, <2>3, <2>6, <2>8, <2>9, WriteStep
  <2> QED
    BY <2>1, <2>2, <2>10 DEF IInv
<1>4. ASSUME AccountForget(r) PROVE IInv' /\ ReadStep
  <2> DEFINE masters == call[r].masters
  <2>1. /\ call' = [call EXCEPT ![r] = Idle] /\ account' = account
        /\ UNCHANGED <<group, member, setting, edit>> /\ Invalidate(masters)
    BY <1>4 DEF AccountForget, DeleteForget, Return, Goto, editVars
  <2>2. TokenInv'
    BY <1>0, <1>4, DeleteInv DEF AccountForget
  <2>3. EditTypeOK'
    BY <1>0, <2>1 DEF EditTypeOK
  <2>4. SessionMaster \notin masters => (Pending => Pending')
    BY <1>0, <2>1 DEF Pending, Served, At, TokenTypeOK
  <2> HIDE DEF masters
  <2>5. CacheInv' /\ ReadStep
    BY <1>0, <2>1, <2>4, InvalidateStep
  <2> QED
    BY <2>2, <2>3, <2>5 DEF IInv
<1> QED
  BY <1>1, <1>2, <1>3, <1>4

LEMMA NextInv == IInv /\ [Next]_targetVars => IInv' /\ ReadStep
<1> SUFFICES ASSUME IInv, [Next]_targetVars PROVE IInv' /\ ReadStep
  OBVIOUS
<1>0. TokenInv /\ EditTypeOK /\ CacheInv
  BY DEF IInv
<1>1. ASSUME UNCHANGED targetVars PROVE IInv' /\ ReadStep
  <2>1. UNCHANGED <<account, pages, call, calls, overtaken, group, member, setting, edit,
                    load, cache, answer, past, missed>>
    BY <1>1 DEF targetVars, tokenVars, editVars
  <2>2. Content' = Content
    BY <2>1, ContentUntouched
  <2>3. Pending' = Pending
    BY <2>1 DEF Pending, Served, At
  <2>4. TokenInv'
    BY <1>0, <2>1, TokensUntouched DEF tokenVars
  <2>5. EditTypeOK'
    BY <1>0, <2>1 DEF EditTypeOK
  <2>6. CacheTypeOK'
    BY <1>0, <2>1 DEF CacheInv, CacheTypeOK
  <2>7. LoadsTraced' /\ CacheTraced' /\ LoadsFresh' /\ FreshUnlessMissed'
    BY <1>0, <2>1, <2>2, <2>3
    DEF CacheInv, LoadsTraced, CacheTraced, LoadsFresh, FreshUnlessMissed
  <2> QED
    BY <2>1, <2>2, <2>4, <2>5, <2>6, <2>7 DEF IInv, CacheInv, ReadStep
<1>2. ASSUME NEW l \in Loaders, LoadStep(l) PROVE IInv' /\ ReadStep
  <2>1. UNCHANGED tokenVars /\ UNCHANGED editVars
    BY <1>2 DEF LoadStep, LoadHit, LoadAsk, LoadQuery, LoadStore, LoadCancelled
  <2>2. TokenInv' /\ EditTypeOK'
    BY <1>0, <2>1, TokensUntouched DEF EditTypeOK, editVars
  <2> QED
    BY <1>0, <1>2, <2>2, ContentTypedNow, LoadStepInv DEF IInv
<1>3. ASSUME SessionForget \/ Tick PROVE IInv' /\ ReadStep
  <2>1. UNCHANGED tokenVars /\ UNCHANGED editVars
    BY <1>3 DEF SessionForget, Tick
  <2>2. TokenInv' /\ EditTypeOK'
    BY <1>0, <2>1, TokensUntouched DEF EditTypeOK, editVars
  <2> QED
    BY <1>0, <1>3, <2>2, SessionForgetInv, TickInv DEF IInv
<1> QED
  BY <1>1, <1>2, <1>3, AccountStepInv, EditStepInv DEF Next

LEMMA Inductive == Spec => []IInv
<1>1. TargetInit => IInv
  BY TargetInitInv
<1>2. IInv /\ [Next]_targetVars => IInv'
  BY NextInv
<1> QED
  BY <1>1, <1>2, PTL DEF Spec

-----------------------------------------------------------------------------
(***************************************************************************)
(* Every variable keeps its type, for any accounts, groups, settings and   *)
(* requests: the plans of the query are well formed, an edit finds the     *)
(* rows that it needs, and no copy of a result grows older than the bound. *)
(***************************************************************************)
THEOREM TypeCorrect == Spec => []TypeOK
<1>1. IInv => TypeOK
  BY TypesTogether DEF IInv, TokenInv, CacheInv
<1> QED
  BY <1>1, Inductive, PTL

(***************************************************************************)
(* Access tokens fit the accounts that hold them, however many logins,     *)
(* callbacks, key changes and deletions overlap.                           *)
(***************************************************************************)
THEOREM TokensAlwaysFit == Spec => []TokensFit
<1>1. IInv => TokensFit
  BY DEF IInv, TokenInv
<1> QED
  BY <1>1, Inductive, PTL

(***************************************************************************)
(* With no invalidation due, the cache holds the present targets, except   *)
(* for what was missed: for any number of editors, requests and loaders.   *)
(***************************************************************************)
THEOREM FreshWhenServed == Spec => []FreshUnlessMissed
<1>1. IInv => FreshUnlessMissed
  BY DEF IInv, CacheInv
<1> QED
  BY <1>1, Inductive, PTL

(***************************************************************************)
(* The target cache implements StaleReads: every dispatch gets targets     *)
(* that are present, or were in force TTL + Lag ticks ago or later.        *)
(***************************************************************************)
THEOREM CacheImplementsStaleReads == Spec => BoundedStaleness
<1>1. TargetInit => Reads!Init
  BY TargetInitInv
<1>2. IInv /\ [Next]_targetVars => [Reads!Next]_(Reads!readVars)
  BY NextInv DEF ReadStep, Reads!readVars
<1> QED
  BY <1>1, <1>2, Inductive, PTL DEF Spec, BoundedStaleness, Reads!Spec
=============================================================================
