----------------------------- MODULE CopyTargets -----------------------------
(***************************************************************************)
(* Whom a live session copies to: the groups, members and settings that    *)
(* the routers edit (routers/copy_groups.py, copy_settings.py), the        *)
(* accounts of AccountTokens, and the session's entry in the target cache  *)
(* of LiveCopyManager (services/live_copy.py), which is filled from a      *)
(* query, kept for 15 seconds and dropped by some of the edits.            *)
(*                                                                         *)
(* An edit commits and drops the entry in two steps; a load queries and    *)
(* stores in two steps.  What the cache holds therefore depends on how     *)
(* they interleave, and on the edits that drop nothing.                    *)
(***************************************************************************)
EXTENDS AccountTokens

CONSTANTS
  Groups,        \* the session's active_group_ids
  FirstMembers,  \* pairs of group and account that are members at the start
  Rank,          \* their order of creation
  SessionMaster, \* the session's master account
  Settings,      \* copy settings an operator may choose
  DefaultSetting,\* the setting of a member without a row
  None,
  Loaders,       \* tasks that load targets: the listener, a preload
  Editors,       \* requests that edit groups at the same time
  TTL,           \* lifetime of a cache entry, in ticks
  Lag            \* assumed: ticks from a query's snapshot to its result's storing

ASSUME TargetAssumption ==
  /\ SessionMaster \in Masters
  /\ FirstMembers \subseteq Groups \X FirstAccounts
  /\ Rank \in [Groups -> Nat]
  /\ DefaultSetting \in Settings
  /\ None \notin Settings
  /\ "cache" \notin Loaders
  /\ TTL \in Nat /\ Lag \in Nat

VARIABLES
  group,    \* copy_groups: None or the group's master
  member,   \* copy_group_members by group and account
  setting,  \* copy_settings by group and account
  edit,     \* what each editing request is doing
  load,     \* what each loader is doing
  cache,    \* the session's entry in _target_cache
  answer,   \* the targets a loader gets in this step
  past,     \* history: former results of the query, with their age
  missed    \* history: which copies of a result no invalidation will reach

accountVars == <<account, pages, call, overtaken>> \* tokenVars without calls
editVars   == <<group, member, setting, edit>>
targetVars == <<tokenVars, editVars, load, cache, answer, past, missed>>

Members     == [id : 0..MaxCalls, enabled : BOOLEAN]
SettingRows == [id : 0..MaxCalls, value : Settings]
Pairs       == Groups \X Accounts

\* What the dispatch reads of a CopyTargetPlan.
Plans   == [group : Groups, setting : Settings, ready : BOOLEAN]
Targets == [Accounts -> Plans \cup {None}]

Edits ==
  {Idle}
  \cup [op : {"move", "drop"}, group : Groups, master : Masters]
  \cup [op : {"add"}, id : 1..MaxCalls, group : Groups, account : Accounts,
        master : Masters, member : {None}, setting : SettingRows \cup {None}]
  \cup [op : {"update", "remove", "patch"}, id : 1..MaxCalls, group : Groups,
        account : Accounts, master : Masters, member : Members,
        setting : SettingRows \cup {None}]
  \cup [op : {"forget"}, master : Masters]

IdleLoad  == [pc |-> "idle"]
AskedLoad == [pc |-> "asked"]
Loads ==
  {IdleLoad, AskedLoad} \cup [pc : {"answered"}, targets : Targets, age : 0..Lag]

TypeOK ==
  /\ TokenTypeOK
  /\ group \in [Groups -> Masters \cup {None}]
  /\ member \in [Pairs -> Members \cup {None}]
  /\ setting \in [Pairs -> SettingRows \cup {None}]
  /\ edit \in [Editors -> Edits]
  /\ load \in [Loaders -> Loads]
  /\ cache \in [targets : Targets, age : 0..(TTL + 1)] \cup {None}
  /\ answer \in Targets \cup {None}
  /\ past \subseteq [value : Targets, age : 0..(TTL + Lag)]
  /\ missed \subseteq {"cache"} \cup Loaders

-----------------------------------------------------------------------------
(***************************************************************************)
(* The query of _load_copy_targets and its loop: enabled members of the    *)
(* session's groups, oldest group first, one plan for each account.        *)
(***************************************************************************)
Listing(a) ==
  {g \in Groups : /\ group[g] = SessionMaster
                  /\ Stored(a)
                  /\ member[<<g, a>>] # None
                  /\ member[<<g, a>>].enabled}

\* build_sharekhan_copy_order_payload skips an account that is not ready.
Ready(a) == account[a].active /\ account[a].access # NoToken

\* Mutation: no default stands in for a missing setting.
PlanWithoutDefault(g, a) ==
  [group   |-> g,
   setting |-> IF setting[<<g, a>>] = None THEN None ELSE setting[<<g, a>>].value,
   ready   |-> Ready(a)]

Plan(g, a) ==
  [group   |-> g,
   setting |-> IF setting[<<g, a>>] = None THEN DefaultSetting ELSE setting[<<g, a>>].value,
   ready   |-> Ready(a)]

Content ==
  [a \in Accounts |->
     LET listed == Listing(a) IN
       IF listed = {} THEN None
       ELSE Plan(CHOOSE g \in listed : \A h \in listed : Rank[g] <= Rank[h], a)]

\* Accounts of groups made before settings had a row are members without one.
TargetInit ==
  /\ TokenInit
  /\ group = [g \in Groups |-> SessionMaster]
  /\ member = [p \in Pairs |->
                 IF p \in FirstMembers THEN [id |-> 0, enabled |-> TRUE] ELSE None]
  /\ \E rows \in {{}, FirstMembers} :
       setting = [p \in Pairs |->
                    IF p \in rows THEN [id |-> 0, value |-> DefaultSetting] ELSE None]
  /\ edit = [r \in Editors |-> Idle]
  /\ load = [l \in Loaders |-> IdleLoad]
  /\ cache = None
  /\ answer = None
  /\ past = {}
  /\ missed = {}

-----------------------------------------------------------------------------
(***************************************************************************)
(* What every write to the tables means for the copies of earlier results. *)
(* Served: an invalidation for the session's master follows the write.     *)
(***************************************************************************)
Holders == {"cache"} \cup Loaders

Holds(h) == IF h = "cache" THEN cache # None ELSE load[h].pc = "answered"

Written(served) ==
  /\ LET before == Content
         after == Content'
     IN IF after = before
        THEN UNCHANGED <<past, missed>>
        ELSE /\ past' = past \cup {[value |-> before, age |-> 0]}
             /\ missed' = IF served THEN missed
                          ELSE missed \cup {h \in Holders : Holds(h)}
  /\ answer' = None
  /\ UNCHANGED <<load, cache>>

\* A step that touches neither the tables nor the cache.
Silent == answer' = None /\ UNCHANGED <<load, cache, past, missed>>

\* Mutation: the cached targets of the master are not dropped.
InvalidateNothing(masters) ==
  /\ answer' = None
  /\ UNCHANGED <<load, cache, past, missed>>

\* invalidate_master_targets: results on their way to the cache are not there.
Invalidate(masters) ==
  /\ IF SessionMaster \in masters
     THEN /\ cache' = None
          /\ missed' = (missed \ {"cache"}) \cup
               {l \in Loaders : load[l].pc = "answered" /\ load[l].targets # Content}
     ELSE UNCHANGED <<cache, missed>>
  /\ answer' = None
  /\ UNCHANGED <<load, past>>

EditEnter(r, record) ==
  /\ edit[r] = Idle
  /\ calls < MaxCalls
  /\ calls' = calls + 1
  /\ edit' = [edit EXCEPT ![r] = record]

EditGoto(r, record) == edit' = [edit EXCEPT ![r] = record] /\ UNCHANGED calls

EditReturn(r) == EditGoto(r, Idle)

\* The rows a handler loads before it edits: the group with its master, the
\* member and the member's setting.
Opened(op, g, a) ==
  [op |-> op, id |-> calls + 1, group |-> g, account |-> a,
   master |-> group[g], member |-> member[<<g, a>>], setting |-> setting[<<g, a>>]]

\* After the commit: on to the invalidation.
Committed(r) == EditGoto(r, [op |-> "forget", master |-> edit[r].master])

Served(r) == edit[r].master = SessionMaster

-----------------------------------------------------------------------------
(* PATCH and DELETE /copy-groups/{id}: neither touches the cache           *)

GroupRead(r, g) ==
  /\ group[g] # None
  /\ \E op \in {"move", "drop"} :
       EditEnter(r, [op |-> op, group |-> g, master |-> group[g]])
  /\ UNCHANGED <<accountVars, group, member, setting>>
  /\ Silent

\* A changed master_account_id; the commit fails when the row is gone.
GroupMove(r) ==
  /\ edit[r].op = "move"
  /\ LET g == edit[r].group IN
       group' \in IF group[g] = None THEN {group}
                  ELSE {[group EXCEPT ![g] = m] : m \in Masters \ {edit[r].master}}
  /\ EditReturn(r)
  /\ UNCHANGED <<accountVars, member, setting>>
  /\ Written(FALSE)

\* The members and the settings go with the group.
GroupDrop(r) ==
  /\ edit[r].op = "drop"
  /\ LET g == edit[r].group IN
       /\ group' = [group EXCEPT ![g] = None]
       /\ member' = [p \in Pairs |-> IF p[1] = g THEN None ELSE member[p]]
       /\ setting' = [p \in Pairs |-> IF p[1] = g THEN None ELSE setting[p]]
  /\ EditReturn(r)
  /\ UNCHANGED accountVars
  /\ Written(FALSE)

-----------------------------------------------------------------------------
(***************************************************************************)
(* Members and settings: a handler opens the rows, commits, and drops the  *)
(* targets of the master it has loaded with the group.                     *)
(***************************************************************************)
MemberRead(r, g, a) ==
  /\ group[g] # None
  /\ \/ member[<<g, a>>] = None /\ Stored(a) /\ EditEnter(r, Opened("add", g, a))
     \/ /\ member[<<g, a>>] # None
        /\ \E op \in {"update", "remove", "patch"} : EditEnter(r, Opened(op, g, a))
  /\ UNCHANGED <<accountVars, group, member, setting>>
  /\ Silent

\* A commit that fails: a unique key, a foreign key or an UPDATE without a row.
CommitFails(r) ==
  /\ EditReturn(r)
  /\ UNCHANGED <<accountVars, group, member, setting>>
  /\ Silent

CommitDone(r) ==
  /\ Committed(r)
  /\ UNCHANGED <<accountVars, group>>
  /\ Written(Served(r))

\* add_member inserts the member and its setting, which must both be new.
MemberAdd(r) ==
  /\ edit[r].op = "add"
  /\ LET e == edit[r]
         p == <<e.group, e.account>>
     IN IF group[e.group] # None /\ Stored(e.account) /\ member[p] = None /\ setting[p] = None
        THEN \E on \in BOOLEAN, v \in Settings :
               /\ member' = [member EXCEPT ![p] = [id |-> e.id, enabled |-> on]]
               /\ setting' = [setting EXCEPT ![p] = [id |-> e.id, value |-> v]]
               /\ CommitDone(r)
        ELSE CommitFails(r)

\* What saving value v, None for no value, makes of the setting of e: an
\* INSERT if none was loaded, an UPDATE of the loaded row if v differs.
SaveFails(e, v) ==
  LET p == <<e.group, e.account>> IN
  IF e.setting = None
  THEN v # None /\ ~(group[e.group] # None /\ Stored(e.account) /\ setting[p] = None)
  ELSE /\ v \notin {None, e.setting.value}
       /\ setting[p] = None \/ setting[p].id # e.setting.id

Saved(e, v) ==
  LET p == <<e.group, e.account>> IN
  IF v = None THEN setting
  ELSE IF e.setting = None
  THEN [setting EXCEPT ![p] = [id |-> e.id, value |-> v]]
  ELSE IF v = e.setting.value THEN setting
  ELSE [setting EXCEPT ![p] = [id |-> e.setting.id, value |-> v]]

\* update_member flips is_enabled, saves a setting, or both.
MemberUpdate(r) ==
  /\ edit[r].op = "update"
  /\ \E flip \in BOOLEAN, v \in Settings \cup {None} :
       LET e == edit[r]
           p == <<e.group, e.account>>
       IN IF \/ SaveFails(e, v)
             \/ flip /\ (member[p] = None \/ member[p].id # e.member.id)
          THEN CommitFails(r)
          ELSE /\ member' = IF flip THEN [member EXCEPT ![p] =
                                   [id |-> e.member.id, enabled |-> ~e.member.enabled]]
                            ELSE member
               /\ setting' = Saved(e, v)
               /\ CommitDone(r)

\* patch_copy_setting.
SettingPatch(r) ==
  /\ edit[r].op = "patch"
  /\ \E v \in Settings \cup {None} :
       IF SaveFails(edit[r], v)
       THEN CommitFails(r)
       ELSE setting' = Saved(edit[r], v) /\ UNCHANGED member /\ CommitDone(r)

\* remove_member deletes the rows it has loaded; rows already gone do not matter.
Without(rows, p, loaded) ==
  IF loaded # None /\ rows[p] # None /\ rows[p].id = loaded.id
  THEN [rows EXCEPT ![p] = None]
  ELSE rows

MemberRemove(r) ==
  /\ edit[r].op = "remove"
  /\ LET p == <<edit[r].group, edit[r].account>> IN
       /\ member' = Without(member, p, edit[r].member)
       /\ setting' = Without(setting, p, edit[r].setting)
  /\ CommitDone(r)

Forget(r) ==
  /\ edit[r].op = "forget"
  /\ EditReturn(r)
  /\ UNCHANGED <<accountVars, group, member, setting>>
  /\ Invalidate({edit[r].master})

EditStep(r) ==
  \/ \E g \in Groups : GroupRead(r, g)
  \/ GroupMove(r)
  \/ GroupDrop(r)
  \/ \E g \in Groups, a \in Accounts : MemberRead(r, g, a)
  \/ MemberAdd(r)
  \/ MemberUpdate(r)
  \/ SettingPatch(r)
  \/ MemberRemove(r)
  \/ Forget(r)

-----------------------------------------------------------------------------
(***************************************************************************)
(* Accounts: only a deletion drops targets.                                *)
(***************************************************************************)
AccountStep(r) ==
  /\ TokenStep(r)
  /\ UNCHANGED editVars
  /\ Written(FALSE)

AccountDeleteRead(r, a) ==
  /\ LET joined == {g \in Groups : group[g] # None /\ member[<<g, a>>] # None} IN
       DeleteRead(r, a, {group[g] : g \in joined})
  /\ UNCHANGED editVars
  /\ Silent

\* The members and the settings go with the account.
AccountDelete(r) ==
  /\ DeleteCommit(r)
  /\ LET a == call[r].account IN
       /\ member' = [p \in Pairs |-> IF p[2] = a THEN None ELSE member[p]]
       /\ setting' = [p \in Pairs |-> IF p[2] = a THEN None ELSE setting[p]]
  /\ UNCHANGED <<group, edit>>
  /\ Written(SessionMaster \in call[r].masters)

AccountForget(r) ==
  /\ DeleteForget(r)
  /\ UNCHANGED editVars
  /\ Invalidate(call[r].masters)

-----------------------------------------------------------------------------
(***************************************************************************)
(* _load_copy_targets.                                                     *)
(***************************************************************************)
\* Mutation: an entry is used whatever its age.
FreshForever == cache # None

Fresh == cache # None /\ cache.age <= TTL

LoadHit(l) ==
  /\ load[l] = IdleLoad
  /\ Fresh
  /\ answer' = cache.targets
  /\ UNCHANGED <<tokenVars, editVars, load, cache, past, missed>>

LoadAsk(l) ==
  /\ load[l] = IdleLoad
  /\ ~Fresh
  /\ load' = [load EXCEPT ![l] = AskedLoad]
  /\ answer' = None
  /\ UNCHANGED <<tokenVars, editVars, cache, past, missed>>

LoadQuery(l) ==
  /\ load[l] = AskedLoad
  /\ load' = [load EXCEPT ![l] = [pc |-> "answered", targets |-> Content, age |-> 0]]
  /\ answer' = None
  /\ UNCHANGED <<tokenVars, editVars, cache, past, missed>>

LoadStore(l) ==
  /\ load[l].pc = "answered"
  /\ cache' = [targets |-> load[l].targets, age |-> 0]
  /\ answer' = load[l].targets
  /\ load' = [load EXCEPT ![l] = IdleLoad]
  /\ missed' = IF l \in missed THEN (missed \ {l}) \cup {"cache"} ELSE missed \ {"cache"}
  /\ UNCHANGED <<tokenVars, editVars, past>>

\* The listener or the handler that was loading is cancelled.
LoadCancelled(l) ==
  /\ load[l] # IdleLoad
  /\ load' = [load EXCEPT ![l] = IdleLoad]
  /\ missed' = missed \ {l}
  /\ answer' = None
  /\ UNCHANGED <<tokenVars, editVars, cache, past>>

\* invalidate_session_targets: a pause, a stop or a crash of the session.
SessionForget ==
  /\ cache # None
  /\ cache' = None
  /\ missed' = missed \ {"cache"}
  /\ answer' = None
  /\ UNCHANGED <<tokenVars, editVars, load, past>>

LoadStep(l) == LoadHit(l) \/ LoadAsk(l) \/ LoadQuery(l) \/ LoadStore(l) \/ LoadCancelled(l)

\* A query whose result is Lag ticks old has been stored: an assumption on
\* the database and the event loop, not a fact of the code.
Tick ==
  /\ \A l \in Loaders : load[l].pc = "answered" => load[l].age < Lag
  /\ load' = [l \in Loaders |->
                IF load[l].pc = "answered" THEN [load[l] EXCEPT !.age = @ + 1] ELSE load[l]]
  /\ cache' = IF cache # None /\ cache.age <= TTL THEN [cache EXCEPT !.age = @ + 1] ELSE cache
  /\ past' = {[value |-> q.value, age |-> q.age + 1] : q \in {p \in past : p.age < TTL + Lag}}
  /\ answer' = None
  /\ UNCHANGED <<tokenVars, editVars, missed>>

Next ==
  \/ \E r \in Requests :
       \/ AccountStep(r)
       \/ \E a \in Accounts : AccountDeleteRead(r, a)
       \/ AccountDelete(r)
       \/ AccountForget(r)
  \/ \E r \in Editors : EditStep(r)
  \/ \E l \in Loaders : LoadStep(l)
  \/ SessionForget
  \/ Tick

Spec == TargetInit /\ [][Next]_targetVars

-----------------------------------------------------------------------------
(***************************************************************************)
(* Whatever edits, loads, invalidations and expiries overlap, targets that *)
(* a dispatch gets are the present ones, or were TTL + Lag ticks ago or    *)
(* later: the cache keeps what StaleReads promises.                        *)
(***************************************************************************)
Reads == INSTANCE StaleReads
  WITH Values <- Targets, NoAnswer <- None, Window <- TTL + Lag, value <- Content

BoundedStaleness == Reads!Spec

(***************************************************************************)
(* A finished edit of a member or a setting, and a finished deletion of an *)
(* account, are in effect at once: when no handler is between its commit   *)
(* and its invalidation, the cache holds the present targets, except for   *)
(* writes that invalidate nothing and for results that were on their way   *)
(* from the database when the invalidation came.                           *)
(***************************************************************************)
Pending ==
  \/ \E r \in Editors :
       edit[r].op = "forget" /\ Served(r)
  \/ \E r \in Requests : At(r, "delete", "forget") /\ SessionMaster \in call[r].masters

FreshUnlessMissed ==
  cache # None /\ ~Pending /\ "cache" \notin missed => cache.targets = Content
=============================================================================
