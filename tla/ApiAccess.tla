----------------------------- MODULE ApiAccess -----------------------------
(***************************************************************************)
(* API keys, the catalogue of fake models with its groups, and the LLM        *)
(* configurations: which models a key reaches, and which rows can be deleted  *)
(* while others refer to them.  The operations run on the threads and         *)
(* sessions of Accounts, a read step and a write step each.                  *)
(*                                                                         *)
(* The engine switches the foreign keys of SQLite on, so a DELETE of a row    *)
(* that another row refers to without CASCADE or SET NULL fails.  No endpoint *)
(* catches it: the transaction is rolled back and the answer is a 500.        *)
(*                                                                         *)
(* The update of a configuration is a coroutine of the event loop: it writes  *)
(* first, awaits the connectivity test with the write lock of the database    *)
(* held, and commits or rolls back after it.  Every other writer waits for    *)
(* the lock, five seconds at most.                                         *)
(***************************************************************************)
EXTENDS Accounts

CONSTANTS
  Models,     \* fake_models rows
  Groups,     \* model_groups rows
  Keys,       \* api_keys rows
  Configs,    \* llm_configs rows
  Endpoints,  \* what a configuration connects to: address, model, secret
  NameOf      \* model -> its model_id; a private model shadows a system one

(* The columns of fake_models, model_groups with model_group_items, api_keys  *)
(* with api_key_fake_models, and llm_configs.                               *)
ModelRows == [exists : BOOLEAN, owner : Users \cup {None}, enabled : BOOLEAN]

GroupRows ==
  [exists : BOOLEAN, owner : Users \cup {None}, public : BOOLEAN, items : SUBSET Models]

ApiKeyRows ==
  [exists : BOOLEAN, owner : Users \cup {None}, enabled : BOOLEAN,
   group : Groups \cup {None}, picks : SUBSET Models, config : Configs \cup {None},
   tasks : BOOLEAN]

ConfigRows ==
  [exists : BOOLEAN, owner : Users \cup {None}, enabled : BOOLEAN,
   endpoint : Endpoints \cup {None}, cited : BOOLEAN]

(* Every reference is to a row there is, from a row there is.                *)
References(models, groups, keys, configs) ==
  /\ \A g \in Groups : \A m \in groups[g].items : models[m].exists
  /\ \A k \in Keys :
       /\ \A m \in keys[k].picks : models[m].exists
       /\ keys[k].group # None => keys[k].exists /\ groups[keys[k].group].exists
       /\ keys[k].config # None => keys[k].exists /\ configs[keys[k].config].exists

DatabaseOK(models, groups, keys, configs) ==
  /\ models \in [Models -> ModelRows] /\ groups \in [Groups -> GroupRows]
  /\ keys \in [Keys -> ApiKeyRows] /\ configs \in [Configs -> ConfigRows]
  /\ References(models, groups, keys, configs)

ASSUME ScenariosAreDatabases ==
  \A s \in Scenarios :
    /\ DatabaseOK(s.model, s.group, s.key, s.config)
    /\ \A x \in Configs : s.config[x].enabled => s.config[x].endpoint # None

VARIABLES
  model,   \* fake_models: model -> row
  group,   \* model_groups with their model_group_items: group -> row
  key,     \* api_keys with their api_key_fake_models: key -> row
  config,  \* llm_configs: config -> row
  lock,    \* the thread that holds the write lock across an await, or None
  chosen,  \* history: key -> the models it was last restricted to, {} for none
  proven,  \* history: endpoints a connectivity test has passed
  broken   \* history: deletes the service accepted and the database refused

accessVars == <<model, group, key, config, lock, chosen, proven, broken>>
vars == <<accountVars, accessVars>>

NoModel == [exists |-> FALSE, owner |-> None, enabled |-> FALSE]
NoGroup == [exists |-> FALSE, owner |-> None, public |-> FALSE, items |-> {}]
NoKey == [exists |-> FALSE, owner |-> None, enabled |-> FALSE, group |-> None,
          picks |-> {}, config |-> None, tasks |-> FALSE]
NoConfig == [exists |-> FALSE, owner |-> None, enabled |-> FALSE, endpoint |-> None,
             cited |-> FALSE]

(* A scenario is a database and the operations to explore in it.             *)
Init ==
  /\ AccountsInit
  /\ \E s \in Scenarios :
       /\ ops = s.ops /\ left = s.requests /\ user = s.user /\ session = s.session
       /\ code = s.code /\ model = s.model /\ group = s.group /\ key = s.key
       /\ config = s.config
  /\ lock = None /\ broken = {}
  /\ chosen = [k \in Keys |-> key[k].picks]
  /\ proven = {config[x].endpoint : x \in {y \in Configs : config[y].enabled}}

----------------------------------------------------------------------------
(* Which models a key reaches.                                             *)

(* FakeModelRepository.visible_models: the enabled system models and the      *)
(* enabled private ones of the owner, which shadow those of the same name.    *)
VisibleTo(owner) ==
  LET mine == {m \in Models : /\ model[m].exists /\ model[m].enabled
                              /\ model[m].owner \in {None, owner}}
  IN {m \in mine : model[m].owner = None =>
                     \A n \in mine : model[n].owner = owner => NameOf[n] # NameOf[m]}

(* _validate_selected_models and effective_models narrow it the same way.     *)
Candidates(owner, g) ==
  VisibleTo(owner) \cap (IF g = None THEN Models ELSE group[g].items)

(* No selected row means every candidate.                                  *)
Effective(k) ==
  LET all == Candidates(key[k].owner, key[k].group) IN
  IF key[k].picks = {} THEN all ELSE all \cap key[k].picks

MayUseGroup(owner, g) ==
  g # None => group[g].exists /\ (group[g].owner = owner \/ group[g].public)

MayUseConfig(owner, x) ==
  x # None => config[x].exists /\ config[x].owner = owner /\ config[x].enabled

----------------------------------------------------------------------------
(* Refusals of the database.                                               *)

\* mutant: api_key_fake_models lose their rows with the model (CASCADE)
MutModelReferred(m) == \E g \in Groups : m \in group[g].items

(* What refers to a row: a RESTRICT, or no rule at all, refuses its delete.   *)
ModelReferred(m) ==
  \/ \E g \in Groups : m \in group[g].items
  \/ \E k \in Keys : m \in key[k].picks

\* mutant: a group goes as soon as the check of its service allows
MutGroupReferred(g) == \E k \in Keys : key[k].enabled /\ key[k].group = g

GroupReferred(g) == \E k \in Keys : key[k].exists /\ key[k].group = g

KeyReferred(k) == key[k].tasks

KeysUse(x) == \E k \in Keys : key[k].exists /\ key[k].config = x

(* Sessions of the assistant and connections refer to a configuration too.    *)
ConfigReferred(x) == KeysUse(x) \/ config[x].cited

Answered(t) == Done(t) /\ UNCHANGED <<ops, left, user, session, code, failures, captcha, passed>>

(* The write of a delete the service let through.                            *)
Refuse(t) == broken' = broken \cup {request[t].op}

----------------------------------------------------------------------------
(* The reads.  get_owned: a row is its owner's or an administrator's.        *)

Governs(caller, owner) == user[caller].admin \/ owner = caller

MayAssign(caller, g) ==
  group[g].exists /\ (user[caller].admin \/ group[g].public \/ group[g].owner = caller)

BeginModel(t, s, op, m) ==
  LET caller == session[s].user IN
  /\ IF op = "addModel" THEN ~model[m].exists
     ELSE model[m].exists /\ Governs(caller, model[m].owner)
  /\ \/ op = "dropModel" /\ Begin(t, op, s, m, model[m], None)
     \/ /\ op # "dropModel"
        /\ \E gs \in SUBSET Groups, on \in BOOLEAN :
             /\ \A g \in gs : MayAssign(caller, g)
             /\ Begin(t, op, s, m, model[m], [groups |-> gs, enabled |-> on])

(* replace_members is for administrators and takes any model there is.        *)
BeginGroup(t, s, op, g) ==
  LET caller == session[s].user IN
  /\ IF op = "addGroup" THEN ~group[g].exists
     ELSE group[g].exists /\ Governs(caller, group[g].owner)
  /\ op = "fillGroup" => user[caller].admin
  /\ op = "dropGroup" => \A k \in Keys : ~(key[k].enabled /\ key[k].group = g)
  /\ \E ms \in IF op = "fillGroup" THEN SUBSET {m \in Models : model[m].exists} ELSE {{}} :
       Begin(t, op, s, g, group[g], ms)

Untouched == None  \* fake_model_ids is not among the submitted fields

(* A key is its owner's; an administrator may only switch it or delete it.    *)
BeginKey(t, s, op, k) ==
  LET caller == session[s].user IN
  /\ IF op = "addKey" THEN ~key[k].exists /\ ~user[caller].admin
     ELSE key[k].exists /\ Governs(caller, key[k].owner)
  /\ \/ op = "dropKey" /\ Begin(t, op, s, k, key[k], None)
     \/ op = "switchKey" /\ Begin(t, op, s, k, key[k], ~key[k].enabled)
     \/ /\ op \in {"addKey", "editKey"} /\ ~user[caller].admin
        /\ \E g \in Groups \cup {None}, x \in Configs \cup {None} :
             /\ MayUseGroup(caller, g) /\ MayUseConfig(caller, x)
             /\ \E picks \in (SUBSET Candidates(caller, g)) \cup
                            (IF op = "editKey" THEN {Untouched} ELSE {}) :
                  Begin(t, op, s, k, key[k], [group |-> g, config |-> x, picks |-> picks])

(* A user's delete counts the keys that use the configuration first, and the  *)
(* active tasks, which only refuses more; an administrator's does not look.   *)
BeginDropConfig(t, s, x) ==
  LET caller == session[s].user IN
  /\ config[x].exists /\ Governs(caller, config[x].owner)
  /\ user[caller].admin \/ ~KeysUse(x)
  /\ Begin(t, "dropConfig", s, x, config[x], None)

(* POST /llm-configs tests first, with nothing written.                      *)
BeginAddConfig(t, s, x, e, on) ==
  /\ ~config[x].exists /\ ~user[session[s].user].admin
  /\ Begin(t, "addConfig", s, x, config[x], [endpoint |-> e, enabled |-> on])

----------------------------------------------------------------------------
(* The writes.                                                             *)

AssignGroups(m, gs) ==
  [g \in Groups |-> [group[g] EXCEPT !.items = IF g \in gs THEN @ \cup {m} ELSE @ \ {m}]]

AllExist(gs) == \A g \in gs : group[g].exists

CreateModel(t) ==
  LET m == request[t].arg  caller == Caller(t)  gs == request[t].note.groups IN
  /\ At(t, "write", "addModel") /\ Answered(t)
  /\ IF ~model[m].exists /\ AllExist(gs)
     THEN /\ model' = [model EXCEPT ![m] =
                         [exists |-> TRUE, enabled |-> request[t].note.enabled,
                          owner |-> IF user[caller].admin THEN None ELSE caller]]
          /\ group' = AssignGroups(m, gs)
     ELSE UNCHANGED <<model, group>>
  /\ UNCHANGED <<key, config, lock, chosen, proven, broken>>

UpdateModel(t) ==
  LET m == request[t].arg  gs == request[t].note.groups IN
  /\ At(t, "write", "editModel") /\ Answered(t)
  /\ IF model[m].exists /\ AllExist(gs)
     THEN /\ model' = [model EXCEPT ![m].enabled = request[t].note.enabled]
          /\ group' = AssignGroups(m, gs)
     ELSE UNCHANGED <<model, group>>
  /\ UNCHANGED <<key, config, lock, chosen, proven, broken>>

DeleteModel(t) ==
  LET m == request[t].arg IN
  /\ At(t, "write", "dropModel") /\ Answered(t)
  /\ IF ModelReferred(m) THEN Refuse(t) /\ UNCHANGED <<model, key>>
     ELSE /\ model' = [model EXCEPT ![m] = NoModel]
          /\ key' = [k \in Keys |-> [key[k] EXCEPT !.picks = @ \ {m}]]
          /\ UNCHANGED broken
  /\ UNCHANGED <<group, config, lock, chosen, proven>>

CreateGroup(t) ==
  LET g == request[t].arg  caller == Caller(t) IN
  /\ At(t, "write", "addGroup") /\ Answered(t)
  /\ group' = IF group[g].exists THEN group
              ELSE [group EXCEPT ![g] = [exists |-> TRUE, owner |-> caller, items |-> {},
                                         public |-> user[caller].admin]]
  /\ UNCHANGED <<model, key, config, lock, chosen, proven, broken>>

ReplaceMembers(t) ==
  LET g == request[t].arg  ms == request[t].note IN
  /\ At(t, "write", "fillGroup") /\ Answered(t)
  /\ group' = IF group[g].exists /\ \A m \in ms : model[m].exists
              THEN [group EXCEPT ![g].items = ms] ELSE group
  /\ UNCHANGED <<model, key, config, lock, chosen, proven, broken>>

DeleteGroup(t) ==
  LET g == request[t].arg IN
  /\ At(t, "write", "dropGroup") /\ Answered(t)
  /\ IF GroupReferred(g) THEN Refuse(t) /\ UNCHANGED group
     ELSE group' = [group EXCEPT ![g] = NoGroup] /\ UNCHANGED broken
  /\ UNCHANGED <<model, key, config, lock, chosen, proven>>

(* The references of a key row are checked by the database once more.        *)
Storable(note) ==
  /\ note.group # None => group[note.group].exists
  /\ note.config # None => config[note.config].exists
  /\ note.picks # Untouched => \A m \in note.picks : model[m].exists

(* create validates the selection after its INSERT, that is with the lock.    *)
CreateKey(t) ==
  LET k == request[t].arg  caller == Caller(t)  note == request[t].note IN
  /\ At(t, "write", "addKey") /\ Answered(t)
  /\ IF ~key[k].exists /\ Storable(note) /\ note.picks \subseteq Candidates(caller, note.group)
     THEN /\ key' = [key EXCEPT ![k] = [exists |-> TRUE, owner |-> caller, enabled |-> TRUE,
                                        group |-> note.group, picks |-> note.picks,
                                        config |-> note.config, tasks |-> FALSE]]
          /\ chosen' = [chosen EXCEPT ![k] = note.picks]
     ELSE UNCHANGED <<key, chosen>>
  /\ UNCHANGED <<model, group, config, lock, proven, broken>>

UpdateKey(t) ==
  LET k == request[t].arg  note == request[t].note
      picks == IF note.picks = Untouched THEN key[k].picks ELSE note.picks IN
  /\ At(t, "write", "editKey") /\ Answered(t)
  /\ IF key[k].exists /\ Storable(note)
     THEN /\ key' = [key EXCEPT ![k].group = note.group, ![k].picks = picks,
                                ![k].config = note.config]
          /\ chosen' = IF note.picks = Untouched THEN chosen ELSE [chosen EXCEPT ![k] = picks]
     ELSE UNCHANGED <<key, chosen>>
  /\ UNCHANGED <<model, group, config, lock, proven, broken>>

SwitchKey(t) ==
  LET k == request[t].arg IN
  /\ At(t, "write", "switchKey") /\ Answered(t)
  /\ key' = IF key[k].exists THEN [key EXCEPT ![k].enabled = request[t].note] ELSE key
  /\ UNCHANGED <<model, group, config, lock, chosen, proven, broken>>

DeleteKey(t) ==
  LET k == request[t].arg IN
  /\ At(t, "write", "dropKey") /\ Answered(t)
  /\ IF KeyReferred(k) THEN Refuse(t) /\ UNCHANGED key
     ELSE key' = [key EXCEPT ![k] = NoKey] /\ UNCHANGED broken
  /\ UNCHANGED <<model, group, config, lock, chosen, proven>>

(* A task is admitted through an enabled key of an active owner for one of    *)
(* its effective models; the row refers to the key for as long as it exists.  *)
AdmitTask(k) ==
  /\ "admit" \in ops /\ key[k].exists /\ key[k].enabled /\ ~key[k].tasks
  /\ user[key[k].owner].active /\ Effective(k) # {}
  /\ key' = [key EXCEPT ![k].tasks = TRUE]
  /\ UNCHANGED <<accountVars, model, group, config, lock, chosen, proven, broken>>

(* An owner starts a session of the assistant with a configuration, or has a  *)
(* connection summarise with it, and ends the last that does.                *)
CiteConfig(x) ==
  /\ "cite" \in ops /\ config[x].exists /\ user[config[x].owner].active
  /\ config' = [config EXCEPT ![x].cited = ~config[x].cited]
  /\ UNCHANGED <<accountVars, model, group, key, lock, chosen, proven, broken>>

DeleteConfig(t) ==
  LET x == request[t].arg IN
  /\ At(t, "write", "dropConfig") /\ Answered(t)
  /\ IF ConfigReferred(x) THEN Refuse(t) /\ UNCHANGED config
     ELSE config' = [config EXCEPT ![x] = NoConfig] /\ UNCHANGED broken
  /\ UNCHANGED <<model, group, key, lock, chosen, proven>>

(* What a test can come to, with any protocol: a real request for a reply,    *)
(* and only a reply that is not empty counts.                              *)
TestOutcomes ==
  {"blocked", "timeout", "network_error", "upstream_error", "bad_response", "empty_reply", "ok"}

Tested(e, outcome) == proven' = IF outcome = "ok" THEN proven \cup {e} ELSE proven

(* An enabled configuration is inserted when its test has passed, a disabled  *)
(* one without a test.                                                     *)
CreateConfig(t, outcome) ==
  LET x == request[t].arg  note == request[t].note IN
  /\ At(t, "write", "addConfig") /\ Answered(t)
  /\ config' = IF ~config[x].exists /\ (note.enabled => outcome = "ok")
               THEN [config EXCEPT ![x] = [exists |-> TRUE, owner |-> Caller(t),
                                           enabled |-> note.enabled,
                                           endpoint |-> note.endpoint,
                                           cited |-> FALSE]]
               ELSE config
  /\ IF note.enabled THEN Tested(note.endpoint, outcome) ELSE UNCHANGED proven
  /\ UNCHANGED <<model, group, key, lock, chosen, broken>>

\* mutant: a configuration that was enabled is not tested again
MutNeedsTest(row, e, on) == on /\ ~row.enabled

NeedsTest(row, e, on) == on /\ (e # row.endpoint \/ ~row.enabled)

(* PATCH /llm-configs loads the row and flushes the UPDATE without a pause:   *)
(* no other coroutine runs in between, and a delete by a worker thread makes  *)
(* the UPDATE fail.  A save that needs no test commits at once; the other     *)
(* awaits the test with the lock held.                                     *)
UpdateConfig(t, s, x, e, on) ==
  LET row == config[x] IN
  /\ request[t].pc = "idle" /\ left > 0 /\ "editConfig" \in ops
  /\ Authorized(s, "editConfig")
  /\ row.exists /\ row.owner = session[s].user /\ ~user[row.owner].admin
  /\ left' = left - 1
  /\ IF NeedsTest(row, e, on)
     THEN /\ request' = [request EXCEPT ![t] = [pc |-> "testing", op |-> "editConfig",
                                                by |-> s, arg |-> x, seen |-> row,
                                                note |-> [endpoint |-> e, enabled |-> on]]]
          /\ lock' = t
          /\ UNCHANGED config
     ELSE /\ config' = [config EXCEPT ![x].endpoint = e, ![x].enabled = on]
          /\ UNCHANGED <<request, lock>>
  /\ UNCHANGED <<ops, user, session, code, failures, captcha, passed,
                 model, group, key, chosen, proven, broken>>

(* A test that fails rolls the update back.                                 *)
FinishUpdate(t, outcome) ==
  LET x == request[t].arg  note == request[t].note IN
  /\ At(t, "testing", "editConfig") /\ Answered(t)
  /\ config' = IF outcome = "ok"
               THEN [config EXCEPT ![x].endpoint = note.endpoint,
                                   ![x].enabled = note.enabled]
               ELSE config
  /\ Tested(note.endpoint, outcome)
  /\ lock' = None
  /\ UNCHANGED <<model, group, key, chosen, broken>>

(* busy_timeout: a writer that finds the lock taken gives up.                *)
DatabaseIsLocked(t) ==
  /\ lock # None /\ request[t].pc \in {"credentials", "session", "write"}
  /\ Answered(t) /\ UNCHANGED accessVars

----------------------------------------------------------------------------

DisableKeysOf(u) ==
  [k \in Keys |-> IF key[k].owner = u THEN [key[k] EXCEPT !.enabled = FALSE] ELSE key[k]]

DisableUserAndKeys(t) ==
  /\ DisableUser(t)
  /\ key' = DisableKeysOf(request[t].arg)
  /\ UNCHANGED <<model, group, config, lock, chosen, proven, broken>>

AccessRead(t) ==
  \E s \in LiveSessions :
    \/ \E m \in Models, op \in {"addModel", "editModel", "dropModel"} : BeginModel(t, s, op, m)
    \/ \E g \in Groups, op \in {"addGroup", "fillGroup", "dropGroup"} : BeginGroup(t, s, op, g)
    \/ \E k \in Keys, op \in {"addKey", "editKey", "switchKey", "dropKey"} :
         BeginKey(t, s, op, k)
    \/ \E x \in Configs : BeginDropConfig(t, s, x)
    \/ \E x \in Configs, e \in Endpoints, on \in BOOLEAN : BeginAddConfig(t, s, x, e, on)

AccessWrite(t) ==
  \/ CreateModel(t) \/ UpdateModel(t) \/ DeleteModel(t)
  \/ CreateGroup(t) \/ ReplaceMembers(t) \/ DeleteGroup(t)
  \/ CreateKey(t) \/ UpdateKey(t) \/ SwitchKey(t) \/ DeleteKey(t)
  \/ DeleteConfig(t) \/ \E outcome \in TestOutcomes : CreateConfig(t, outcome)
  \/ \E s \in LiveSessions, x \in Configs, e \in Endpoints, on \in BOOLEAN :
       UpdateConfig(t, s, x, e, on)

Next ==
  \/ \E t \in Threads :
       \/ (AttemptStep(t) \/ AccountRead(t)) /\ UNCHANGED accessVars
       \/ AccessRead(t) /\ UNCHANGED accessVars
       \/ lock = None /\ AccountWrite(t) /\ UNCHANGED accessVars
       \/ lock = None /\ (DisableUserAndKeys(t) \/ AccessWrite(t))
       \/ \E outcome \in TestOutcomes : FinishUpdate(t, outcome)
       \/ DatabaseIsLocked(t)
  \/ TimePasses /\ UNCHANGED accessVars
  \/ lock = None /\ \E k \in Keys : AdmitTask(k)
  \/ lock = None /\ \E x \in Configs : CiteConfig(x)

Spec == Init /\ [][Next]_vars

----------------------------------------------------------------------------
(* What must hold.                                                         *)

(* Rows have their types and refer to rows that exist: no interleaving of     *)
(* validations and deletes leaves a key, a group or a selection dangling, and *)
(* who holds the write lock across an await is testing a configuration.       *)
AccessTypeOK ==
  /\ DatabaseOK(model, group, key, config)
  /\ lock \in Threads \cup {None} /\ proven \subseteq Endpoints
  /\ lock # None => request[lock].pc = "testing"

(* A key restricted to some models never reaches another one.  No selected    *)
(* row means no restriction, so a delete that took the last selected model    *)
(* along would open the key to everything; the RESTRICT of                   *)
(* api_key_fake_models is what stops it.                                    *)
RestrictionHolds == \A k \in Keys : key[k].exists /\ chosen[k] # {} => Effective(k) \subseteq chosen[k]

(* An enabled configuration connects to an endpoint that passed its test,     *)
(* whatever updates, tests and rollbacks overlap: the row is flushed before   *)
(* the await and the write lock held until the commit.                      *)
EnabledWasTested == \A x \in Configs : config[x].enabled => config[x].endpoint \in proven

(* A delete the service accepts is carried out: the checks of the services    *)
(* foresee every reference that the database enforces.                      *)
DeletesAreCarriedOut == broken = {}
============================================================================
