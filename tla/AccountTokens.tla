---------------------------- MODULE AccountTokens ----------------------------
(***************************************************************************)
(* The broker_accounts rows and the Sharekhan login that fills them        *)
(* (routers/accounts.py, broker-router's token exchange and its db.py).    *)
(* A login leaves the system with a state, comes back through a browser    *)
(* with a request token, and ends when broker-router has exchanged that    *)
(* token and written the access token into the row, by id and without      *)
(* looking at what the row holds by then.                                  *)
(*                                                                         *)
(* A handler loads the row, changes the object and commits: the UPDATE     *)
(* names only the columns that differ from what was loaded.                *)
(***************************************************************************)
EXTENDS Naturals, FiniteSets

CONSTANTS
  Accounts,
  FirstAccounts, \* those that exist at the start
  Masters,    \* master accounts, as owners of copy groups
  States,     \* values of sharekhan_login_state
  NoState,
  NoToken,
  Requests,   \* requests the API handles at the same time
  MaxCalls    \* bound: requests ever made

ASSUME TokenAssumption ==
  /\ FirstAccounts \subseteq Accounts
  /\ NoState \notin States
  /\ NoToken \notin [account : Accounts, creds : Nat]
  /\ MaxCalls \in Nat

VARIABLES
  account,    \* the rows of broker_accounts
  pages,      \* Sharekhan login pages handed to browsers
  call,       \* what each request is doing
  calls,      \* how many requests there have been
  overtaken   \* accounts whose keys were replaced during an exchange

tokenVars == <<account, pages, call, calls, overtaken>>

\* Both tokens are told apart by whose keys they were made with.
Tokens == [account : Accounts, creds : Nat]

Rows ==
  [life   : {"none", "stored", "deleted"},
   creds  : Nat,                \* api_key, secret_key, vendor_key
   state  : States \cup {NoState},
   access : Tokens \cup {NoToken},
   active : BOOLEAN]

NewRow == [life |-> "stored", creds |-> 0, state |-> NoState,
           access |-> NoToken, active |-> TRUE]

Pages == [token : Tokens, state : States]

Idle == [op |-> "none"]

Calls ==
  {Idle}
  \cup [op : {"login"}, pc : {"url", "commit"}, account : Accounts,
        state : States, creds : Nat]
  \cup [op : {"callback"}, pc : {"commit"}, account : Accounts,
        state : States \cup {NoState}, token : Tokens, loaded : Rows]
  \cup [op : {"exchange"}, pc : {"load", "sharekhan"}, account : Accounts,
        token : Tokens]
  \cup [op : {"credentials", "activate"}, pc : {"commit"}, account : Accounts,
        loaded : Rows]
  \cup [op : {"delete"}, pc : {"commit", "forget"}, account : Accounts,
        masters : SUBSET Masters]

TokenTypeOK ==
  /\ account \in [Accounts -> Rows]
  /\ pages \subseteq Pages
  /\ call \in [Requests -> Calls]
  /\ calls \in 0..MaxCalls
  /\ overtaken \subseteq Accounts

Stored(a) == account[a].life = "stored"

\* At the start accounts may be logged in and one may have a login page open.
TokenInit ==
  /\ \E in \in SUBSET FirstAccounts, opened \in SUBSET FirstAccounts, n \in States :
       /\ Cardinality(opened) <= 1
       /\ account = [a \in Accounts |->
                      [life   |-> IF a \in FirstAccounts THEN "stored" ELSE "none",
                       creds  |-> 0,
                       state  |-> IF a \in opened THEN n ELSE NoState,
                       access |-> IF a \in in THEN [account |-> a, creds |-> 0] ELSE NoToken,
                       active |-> TRUE]]
       /\ pages = {[token |-> [account |-> a, creds |-> 0], state |-> n] : a \in opened}
  /\ call = [r \in Requests |-> Idle]
  /\ calls = 0
  /\ overtaken = {}

At(r, op, pc) == call[r].op = op /\ call[r].pc = pc

Enter(r, record) ==
  /\ call[r] = Idle
  /\ calls < MaxCalls
  /\ calls' = calls + 1
  /\ call' = [call EXCEPT ![r] = record]

Goto(r, record) == call' = [call EXCEPT ![r] = record] /\ UNCHANGED calls

Return(r) == Goto(r, Idle)

\* sharekhan_login_state is unique: the second row's commit fails.
Taken(a, n) == \E b \in Accounts \ {a} : account[b].state = n

\* The column in the UPDATE: written if it differs from what was loaded.
Column(wanted, loaded, present) == IF wanted # loaded THEN wanted ELSE present

-----------------------------------------------------------------------------
(* POST /accounts                                                          *)

Create(r, a) ==
  /\ call[r] = Idle /\ calls < MaxCalls
  /\ account[a].life = "none"
  /\ account' = [account EXCEPT ![a] = NewRow]
  /\ calls' = calls + 1
  /\ UNCHANGED <<pages, call, overtaken>>

-----------------------------------------------------------------------------
(* POST /accounts/{id}/sharekhan/login-url                                 *)

\* create_sharekhan_state draws a state that no row has.
LoginRead(r, a) ==
  /\ Stored(a)
  /\ \E n \in States :
       /\ \A b \in Accounts : account[b].state # n
       /\ Enter(r, [op |-> "login", pc |-> "url", account |-> a, state |-> n,
                    creds |-> 0])
  /\ UNCHANGED <<account, pages, overtaken>>

\* broker-router builds the URL with the keys of the row as it is now.
LoginUrl(r) ==
  /\ At(r, "login", "url")
  /\ LET a == call[r].account IN
       IF Stored(a)
       THEN Goto(r, [call[r] EXCEPT !.pc = "commit", !.creds = account[a].creds])
       ELSE Return(r)
  /\ UNCHANGED <<account, pages, overtaken>>

\* The browser gets the page when the state is committed.
LoginCommit(r) ==
  /\ At(r, "login", "commit")
  /\ LET c == call[r] IN
       IF Stored(c.account) /\ ~Taken(c.account, c.state)
       THEN /\ account' = [account EXCEPT ![c.account].state = c.state]
            /\ pages' = pages \cup
                 {[token |-> [account |-> c.account, creds |-> c.creds],
                   state |-> c.state]}
       ELSE UNCHANGED <<account, pages>>
  /\ Return(r)
  /\ UNCHANGED overtaken

-----------------------------------------------------------------------------
(* POST /accounts/sharekhan/callback and POST /accounts/{id}/.../token     *)

\* The row with the state of the callback; otherwise the account the browser
\* remembers, whichever that is.
Addressed(a, n) ==
  IF \E b \in Accounts : n # NoState /\ account[b].state = n
  THEN account[a].state = n
  ELSE Stored(a)

\* A page may come back more than once, and without its state.
CallbackRead(r, p, a) ==
  /\ \E n \in {p.state, NoState} :
       /\ Addressed(a, n)
       /\ Enter(r, [op |-> "callback", pc |-> "commit", account |-> a, state |-> n,
                    token |-> p.token, loaded |-> account[a]])
  /\ UNCHANGED <<account, pages, overtaken>>

Exchange(a, token) ==
  [op |-> "exchange", pc |-> "load", account |-> a, token |-> token]

\* The request token is stored and the tokens of the last login are cleared.
\* A row that is gone, or a state that another row has got, ends the request.
CallbackCommit(r) ==
  /\ At(r, "callback", "commit")
  /\ LET c == call[r]
         a == c.account
     IN IF Stored(a) /\ (c.state \in {NoState, c.loaded.state} \/ ~Taken(a, c.state))
        THEN /\ account' = [account EXCEPT
                  ![a].state = IF c.state = NoState THEN @
                               ELSE Column(c.state, c.loaded.state, @),
                  ![a].access = Column(NoToken, c.loaded.access, @)]
             /\ Goto(r, Exchange(a, c.token))
        ELSE Return(r) /\ UNCHANGED account
  /\ UNCHANGED <<pages, overtaken>>

TokenRead(r, p, a) ==
  /\ Stored(a)
  /\ Enter(r, Exchange(a, p.token))
  /\ UNCHANGED <<account, pages, overtaken>>

\* broker-router loads the row; a request token that was made with other keys
\* cannot be decrypted with the secret key of this row.
ExchangeLoad(r) ==
  /\ At(r, "exchange", "load")
  /\ LET a == call[r].account IN
       IF Stored(a) /\ call[r].token = [account |-> a, creds |-> account[a].creds]
       THEN Goto(r, [call[r] EXCEPT !.pc = "sharekhan"])
       ELSE Return(r)
  /\ UNCHANGED <<account, pages, overtaken>>

\* Sharekhan answers with an access token: store_tokens writes it by id.
ExchangeStore(r) ==
  /\ At(r, "exchange", "sharekhan")
  /\ LET a == call[r].account IN
       account' = IF Stored(a)
                  THEN [account EXCEPT ![a].state = NoState, ![a].access = call[r].token]
                  ELSE account
  /\ Return(r)
  /\ UNCHANGED <<pages, overtaken>>

\* Sharekhan refuses, does not answer, or answers without a token.
ExchangeFails(r) ==
  /\ At(r, "exchange", "sharekhan")
  /\ Return(r)
  /\ UNCHANGED <<account, pages, overtaken>>

-----------------------------------------------------------------------------
(* PATCH /accounts/{id}                                                    *)

UpdateRead(r, a) ==
  /\ Stored(a)
  /\ \E op \in {"credentials", "activate"} :
       Enter(r, [op |-> op, pc |-> "commit", account |-> a, loaded |-> account[a]])
  /\ UNCHANGED <<account, pages, overtaken>>

Exchanging(a) ==
  \E r \in Requests : At(r, "exchange", "sharekhan") /\ call[r].account = a

\* Mutation: new keys leave the access token of the old ones.
CredentialsCommitKeepsToken(r) ==
  /\ At(r, "credentials", "commit")
  /\ LET a == call[r].account
         loaded == call[r].loaded
     IN IF Stored(a)
        THEN /\ account' = [account EXCEPT
                  ![a].creds = @ + 1,
                  ![a].state = Column(NoState, loaded.state, @)]
             /\ overtaken' = IF Exchanging(a) \/ account[a].access # loaded.access
                             THEN overtaken \cup {a} ELSE overtaken \ {a}
        ELSE UNCHANGED <<account, overtaken>>
  /\ Return(r)
  /\ UNCHANGED pages

\* New keys clear the state and the tokens, so far as the loaded row had them.
CredentialsCommit(r) ==
  /\ At(r, "credentials", "commit")
  /\ LET a == call[r].account
         loaded == call[r].loaded
     IN IF Stored(a)
        THEN /\ account' = [account EXCEPT
                  ![a].creds = @ + 1,
                  ![a].state = Column(NoState, loaded.state, @),
                  ![a].access = Column(NoToken, loaded.access, @)]
             /\ overtaken' = IF Exchanging(a) \/ account[a].access # loaded.access
                             THEN overtaken \cup {a} ELSE overtaken \ {a}
        ELSE UNCHANGED <<account, overtaken>>
  /\ Return(r)
  /\ UNCHANGED pages

ActivateCommit(r) ==
  /\ At(r, "activate", "commit")
  /\ LET a == call[r].account IN
       account' = IF Stored(a) THEN [account EXCEPT ![a].active = ~call[r].loaded.active]
                  ELSE account
  /\ Return(r)
  /\ UNCHANGED <<pages, overtaken>>

-----------------------------------------------------------------------------
(* DELETE /accounts/{id} of a copy account                                 *)

\* ms: the masters of the groups the account is a member of, read first.
DeleteRead(r, a, ms) ==
  /\ Stored(a)
  /\ Enter(r, [op |-> "delete", pc |-> "commit", account |-> a, masters |-> ms])
  /\ UNCHANGED <<account, pages, overtaken>>

DeleteCommit(r) ==
  /\ At(r, "delete", "commit")
  /\ account' = [account EXCEPT ![call[r].account] =
                   [NewRow EXCEPT !.life = "deleted"]]
  /\ Goto(r, [call[r] EXCEPT !.pc = "forget"])
  /\ UNCHANGED <<pages, overtaken>>

\* The targets of the masters are invalidated here, by the composing module.
DeleteForget(r) ==
  /\ At(r, "delete", "forget")
  /\ Return(r)
  /\ UNCHANGED <<account, pages, overtaken>>

-----------------------------------------------------------------------------
\* The steps that need nothing from outside.
LoginStep(r) ==
  \/ \E a \in Accounts : LoginRead(r, a)
  \/ LoginUrl(r)
  \/ LoginCommit(r)

ExchangeStep(r) ==
  \/ \E p \in pages, a \in Accounts : CallbackRead(r, p, a) \/ TokenRead(r, p, a)
  \/ CallbackCommit(r)
  \/ ExchangeLoad(r)
  \/ ExchangeStore(r)
  \/ ExchangeFails(r)

UpdateStep(r) ==
  \/ \E a \in Accounts : Create(r, a) \/ UpdateRead(r, a)
  \/ CredentialsCommit(r)
  \/ ActivateCommit(r)

TokenStep(r) == LoginStep(r) \/ ExchangeStep(r) \/ UpdateStep(r)

-----------------------------------------------------------------------------
(***************************************************************************)
(* The access token in a row was made for this account and with the keys   *)
(* the row has now, whatever logins, callbacks for other accounts and key  *)
(* changes overlap: except when the keys were replaced while an exchange   *)
(* was under way, which nothing in the code can tell.                      *)
(***************************************************************************)
TokensFit ==
  \A a \in Accounts \ overtaken :
    account[a].access # NoToken =>
      account[a].access = [account |-> a, creds |-> account[a].creds]
=============================================================================
