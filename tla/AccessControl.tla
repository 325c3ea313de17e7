---------------------------- MODULE AccessControl ----------------------------
(***************************************************************************)
(* Who may do what (crates/server/src): API keys and the copies of them in *)
(* memory (api_keys.rs), users and their tokens (users.rs, auth.rs),       *)
(* permissions (permissions.rs), credentials of LLM providers, the         *)
(* handlers that use and change them, their audit entries (AuditTrail),    *)
(* and the start and the shutdown of the server.                           *)
(*                                                                         *)
(* SQLite is behind a mutex: a statement is a step.  So is an access to    *)
(* one of the two global tables of keys.  Between two such steps other     *)
(* requests run.  A key stands for its hash and for the id of its row (an  *)
(* id is never used again).                                                *)
(*                                                                         *)
(* call[r].at is the step request r is about to take:                      *)
(*   meta, fetch, fill      get_meta_global: cache, database, cache        *)
(*   handle                 the handler, admitted                          *)
(*   hash, cache            create_key past the database                   *)
(*   unhash, uncache        delete_key past the database                   *)
(*   role                   login past the password                        *)
(*   upstream               the provider's answer is awaited               *)
(*   log                    done, but for the entry and the answer         *)
(***************************************************************************)
EXTENDS AuditTrail

CONSTANTS
    Keys, Bootstrap,  \* Bootstrap: the keys of the configuration
    Namespaces,
    Users, Root,
    Grants,           \* lists of permissions a user may be given
    Collections,
    Requests,
    Missing,          \* no row, no entry
    Env,              \* is the provider's key in the environment?
    Workloads         \* what requests ask and how many there are, how often the
                      \* server goes down, and whether the audit writer runs

Roles == {"viewer", "editor", "admin"}
AtLeast(role, least) ==
    role = "admin" \/ role = least \/ (role = "editor" /\ least = "viewer")

\* The versions of a database: MIGRATIONS_USERS.
Latest == 3

\* A list of namespaces; the empty one is no restriction, as in a row.
Lists == SUBSET Namespaces
NoGrants == <<>>
Actions == {"read", "write", "create", "delete", "admin"}

\* A row of the table users.
Accounts == [role : Roles, perms : Grants \cup {NoGrants}, pass : {0, 1}]

ASSUME AccessControlAssumption ==
    /\ Bootstrap \subseteq Keys /\ Root \in Users
    /\ Env \in BOOLEAN
    /\ \A w \in Workloads : {w.calls, w.restarts} \subseteq Nat /\ w.writes \in BOOLEAN
    /\ \A perms \in Grants : perms \in Seq(ToSet(perms))
    /\ \A k \in Keys : k # Missing
    /\ \A list \in Lists : list # Missing
    /\ \A account \in Accounts : account # Missing

VARIABLES
    rows,      \* the table api_keys
    hashes,    \* KEY_HASHES
    cache,     \* KEY_META_CACHE
    issued,    \* ghost: keys that were in the table at some time
    told,      \* ghost: keys whose creation was answered
    retired,   \* ghost: those among them whose deletion was answered
    stale,     \* ghost: keys updated since the server started
    users,     \* the table users
    tokens,    \* the tokens that have not expired
    stored,    \* is a provider's key in the table llm_credentials?
    schema,    \* the migrations in effect, and those recorded
    call,      \* of each request
    stage,
    workload,  \* one of Workloads, for good
    calls, restarts

keyVars == <<rows, hashes, cache, issued, told, retired, stale>>
userVars == <<users, tokens>>
vars == <<keyVars, userVars, stored, schema, call, stage, workload, calls, restarts, auditVars>>

-----------------------------------------------------------------------------
(* permissions.rs *)

(* A permission: the collection it is on or "all", actions, restriction. *)
First(perms, on, action) ==
    {i \in DOMAIN perms : /\ perms[i].on = on /\ action \in perms[i].actions
                          /\ \A j \in 1..(i - 1) : ~(perms[j].on = on /\ action \in perms[j].actions)}

(* Mutant of CheckPermission: the first match, exact or not. *)
CheckPermissionFirst(perms, collection, action) ==
    LET match == {i \in DOMAIN perms : perms[i].on \in {collection, "all"} /\ action \in perms[i].actions}
    IN  IF match = {} THEN "denied"
        ELSE perms[CHOOSE i \in match : \A j \in match : i <= j].only

CheckPermission(perms, collection, action) ==
    LET exact == First(perms, collection, action)
        any == First(perms, "all", action)
        match == IF exact # {} THEN exact ELSE any
    IN  IF match = {} THEN "denied" ELSE perms[CHOOSE i \in match : TRUE].only

(* check_user_permission *)
Decision(role, perms, collection, action) ==
    LET legacy == CASE role = "editor" -> {"read", "write", "create"}
                    [] role = "viewer" -> {"read"}
                    [] OTHER -> Actions
    IN  IF role # "admin" /\ perms # NoGrants THEN CheckPermission(perms, collection, action)
        ELSE IF action \in legacy THEN "all" ELSE "denied"

(* NamespaceAllowance::allows: a request that names no namespace passes. *)
Allows(list, namespace) == list = {} \/ namespace = Missing \/ namespace \in list

-----------------------------------------------------------------------------
(* The stores: what their statements do to the tables *)

Row(k, list) == rows' = [rows EXCEPT ![k] = list]
InsertRow(k, list) == k \notin issued /\ Row(k, list) /\ issued' = issued \cup {k}
DeleteRow(k) == Row(k, Missing)

(* UPDATE changes nothing if there is no row. *)
UpdateRow(k, list) == IF rows[k] = Missing THEN UNCHANGED rows ELSE Row(k, list)

InsertBootstrap ==
    /\ rows' = [k \in Keys |-> IF k \in Bootstrap /\ rows[k] = Missing THEN {} ELSE rows[k]]
    /\ issued' = issued \cup Bootstrap
ReloadHashes == hashes' = {k \in Keys : rows'[k] # Missing} /\ cache' = rows'

(* get_meta: a missing row is no restriction. *)
GetMeta(k) == IF rows[k] = Missing THEN {} ELSE rows[k]

Exists(u) == users[u] # Missing
Validate(u, pass) == Exists(u) /\ users[u].pass = pass
RoleOf(u) == IF Exists(u) THEN users[u].role ELSE "viewer"
GetPermissions(u) == IF Exists(u) THEN users[u].perms ELSE NoGrants
InsertUser(u, role, perms) ==
    users' = [users EXCEPT ![u] = [role |-> role, perms |-> perms, pass |-> 0]]
DeleteById(u) == users' = [users EXCEPT ![u] = Missing]
UpdatePassword(u) == users' = IF Exists(u) THEN [users EXCEPT ![u].pass = 1] ELSE users
UpdatePermissions(u, perms) ==
    users' = IF Exists(u) THEN [users EXCEPT ![u].perms = perms] ELSE users

(* The provider's key: from the environment first, then the table. *)
Configured == Env \/ stored

-----------------------------------------------------------------------------
Idle == [at |-> "idle"]
Goto(r, step) == call' = [call EXCEPT ![r].at = step]
End(r) == call' = [call EXCEPT ![r] = Idle]
Serving == stage = "serving"
Runs(r, step) == stage \in {"serving", "closing"} /\ call[r].at = step
Handles(r, op) == Runs(r, "handle") /\ call[r].op = op

Init ==
    /\ rows = [k \in Keys |-> Missing] /\ hashes = {} /\ cache = [k \in Keys |-> Missing]
    /\ issued = {} /\ told = {} /\ retired = {} /\ stale = {}
    /\ users = [u \in Users |-> Missing] /\ tokens = {}
    /\ stored = FALSE
    \* a new database, one that an older binary left, or one without records
    /\ schema \in {[has |-> 1..v, recorded |-> 1..v] : v \in 0..Latest}
                  \cup {[has |-> 1..Latest, recorded |-> {}]}
    /\ call = [r \in Requests |-> Idle]
    /\ workload \in Workloads
    /\ stage = "migrate" /\ calls = 0 /\ restarts = 0
    /\ AuditInit

-----------------------------------------------------------------------------
(* The start (bootstrap_state) *)

Apply(next) ==
    /\ next \notin schema.has
    /\ schema' = [has |-> schema.has \cup {next}, recorded |-> schema.recorded \cup {next}]
    /\ UNCHANGED stage

(* Mutant of Migrate: the last migration recorded is run again. *)
MigrateAgain ==
    LET version == Cardinality(schema.recorded) IN
    /\ stage = "migrate"
    /\ IF version = Latest THEN stage' = "keys" /\ UNCHANGED schema
       ELSE Apply(IF version = 0 THEN 1 ELSE version)
    /\ UNCHANGED <<keyVars, userVars, stored, call, workload, calls, restarts, auditVars>>

(* run_migrations.  Tables without a record are taken to be up to date;    *)
(* each migration is in a transaction with its record, and cannot be run   *)
(* twice.                                                                  *)
Migrate ==
    LET version == Cardinality(schema.recorded) IN
    /\ stage = "migrate"
    /\ IF version = 0 /\ schema.has # {}
       THEN schema' = [schema EXCEPT !.recorded = 1..Latest] /\ UNCHANGED stage
       ELSE IF version = Latest THEN stage' = "keys" /\ UNCHANGED schema
       ELSE Apply(version + 1)
    /\ UNCHANGED <<keyVars, userVars, stored, call, workload, calls, restarts, auditVars>>

(* init: the keys of the configuration are inserted unless they have a     *)
(* row, then both tables are loaded.                                       *)
LoadKeys ==
    /\ stage = "keys" /\ stage' = "users"
    /\ InsertBootstrap /\ ReloadHashes
    /\ stale' = {}
    /\ UNCHANGED <<told, retired, userVars, stored, schema, call, workload, calls, restarts, auditVars>>

(* UserStore::new, then ensure_default_user. *)
PromoteRoot ==
    /\ stage = "users" /\ stage' = "default"
    /\ users' = IF Exists(Root) THEN [users EXCEPT ![Root].role = "admin"] ELSE users
    /\ UNCHANGED <<keyVars, tokens, stored, schema, call, workload, calls, restarts, auditVars>>

EnsureRoot ==
    /\ stage = "default" /\ stage' = "serving"
    /\ IF Exists(Root) THEN UNCHANGED users ELSE InsertUser(Root, "admin", NoGrants)
    /\ UNCHANGED <<keyVars, tokens, stored, schema, call, workload, calls, restarts, auditVars>>

Down ==
    /\ stage' = "migrate"
    /\ restarts' = restarts + 1
    /\ hashes' = {} /\ cache' = [k \in Keys |-> Missing] /\ stale' = {}
    /\ call' = [r \in Requests |-> Idle]
    /\ AuditRestart
    /\ UNCHANGED <<rows, issued, told, retired, userVars, stored, schema, workload, calls>>

Crash == restarts < workload.restarts /\ Down

(* main: the requests in flight are given 30 s, then the log is closed and *)
(* its writer waited for.                                                  *)
Shutdown ==
    /\ Serving /\ restarts < workload.restarts
    /\ stage' = "closing"
    /\ CloseChannel
    /\ UNCHANGED <<keyVars, userVars, stored, schema, call, workload, calls, restarts>>

Exit == stage = "closing" /\ writer = "ended" /\ restarts < workload.restarts /\ Down

-----------------------------------------------------------------------------
(* Admission *)

Arrive(r, op) ==
    /\ Serving /\ call[r].at = "idle" /\ calls < workload.calls /\ op \in workload.ops
    /\ calls' = calls + 1
    /\ UNCHANGED <<keyVars, userVars, stored, schema, stage, workload, restarts, auditVars>>

(* A key is accepted if it is in KEY_HASHES, or in the configuration.      *)
Registered(k) == k \in hashes
Legacy(k) == k \in Bootstrap
Accepted(k) == Registered(k) \/ Legacy(k)

ArriveWithKey(r, op, about, k) ==
    /\ Arrive(r, op)
    /\ Accepted(k)
    /\ call' = [call EXCEPT ![r] =
          [at |-> "meta", op |-> op, about |-> about, key |-> k,
           role |-> "admin", perms |-> NoGrants, list |-> {}, late |-> k \in retired,
           known |-> FALSE, seen |-> Missing]]

(* The permissions are those of the table, at each request; an admin's are *)
(* not looked at.                                                          *)
PermissionsOf(token) == IF token.role = "admin" THEN NoGrants ELSE GetPermissions(token.sub)

(* A token: its role is that of the login.                                 *)
ArriveWithToken(r, op, about, token) ==
    /\ Arrive(r, op)
    /\ token \in tokens
    /\ call' = [call EXCEPT ![r] =
          [at |-> "handle", op |-> op, about |-> about, key |-> Missing,
           role |-> token.role, perms |-> PermissionsOf(token), list |-> {}, late |-> FALSE,
           known |-> FALSE, seen |-> Missing]]

ArriveToLogin(r, u, pass) ==
    /\ Arrive(r, "login")
    /\ call' = [call EXCEPT ![r] =
          [at |-> "handle", op |-> "login", about |-> [user |-> u, pass |-> pass],
           key |-> Missing, role |-> "viewer", perms |-> NoGrants, list |-> {}, late |-> FALSE,
           known |-> FALSE, seen |-> Missing]]

Unmoved == UNCHANGED <<keyVars, userVars, stored, schema, stage, workload, calls, restarts, auditVars>>

(* get_meta_global *)
LookUp(r) ==
    LET k == call[r].key IN
    /\ Runs(r, "meta")
    /\ call' = [call EXCEPT ![r] = IF cache[k] = Missing THEN [@ EXCEPT !.at = "fetch"]
                                   ELSE [@ EXCEPT !.at = "handle", !.list = cache[k]]]
    /\ Unmoved

Fetch(r) ==
    /\ Runs(r, "fetch")
    /\ call' = [call EXCEPT ![r].at = "fill", ![r].list = GetMeta(call[r].key)]
    /\ Unmoved

Fill(r) ==
    /\ Runs(r, "fill")
    /\ cache' = [cache EXCEPT ![call[r].key] = call[r].list]
    /\ Goto(r, "handle")
    /\ UNCHANGED <<rows, hashes, issued, told, retired, stale, userVars, stored, schema, stage, workload,
                   calls, restarts, auditVars>>

-----------------------------------------------------------------------------
(* Handlers *)

(* A request for points: check_namespace_access ends it, a permission that *)
(* denies it is logged like one that lets it pass.                         *)
Use(r) ==
    LET about == call[r].about
        seen == Decision(call[r].role, call[r].perms, about.collection, about.action)
    IN
    /\ Handles(r, "use")
    /\ call' = [call EXCEPT ![r] =
                   IF Allows(@.list, about.namespace) THEN [@ EXCEPT !.at = "log", !.seen = seen]
                   ELSE Idle]
    /\ Unmoved

Refuse(r, op, least) ==
    /\ Handles(r, op)
    /\ ~AtLeast(call[r].role, least)
    /\ End(r)
    /\ Unmoved

(* create_key: database, hashes, cache.  The key is new. *)
CreateKey(r) ==
    LET k == call[r].about.key IN
    /\ Handles(r, "createKey") /\ AtLeast(call[r].role, "editor")
    /\ InsertRow(k, call[r].about.list)
    /\ Goto(r, "hash")
    /\ UNCHANGED <<hashes, cache, told, retired, stale, userVars, stored, schema, stage, workload, calls,
                   restarts, auditVars>>

InsertHash(r) ==
    /\ Runs(r, "hash")
    /\ hashes' = hashes \cup {call[r].about.key}
    /\ Goto(r, "cache")
    /\ UNCHANGED <<rows, cache, issued, told, retired, stale, userVars, stored, schema, stage, workload,
                   calls, restarts, auditVars>>

(* Mutant of InsertMeta: the list of the key is not put in the cache, an   *)
(* empty one is.                                                           *)
InsertMetaEmpty(r) ==
    /\ Runs(r, "cache")
    /\ cache' = [cache EXCEPT ![call[r].about.key] = {}]
    /\ Goto(r, "log")
    /\ UNCHANGED <<rows, hashes, issued, told, retired, stale, userVars, stored, schema, stage, workload,
                   calls, restarts, auditVars>>

InsertMeta(r) ==
    /\ Runs(r, "cache")
    /\ cache' = [cache EXCEPT ![call[r].about.key] = call[r].about.list]
    /\ Goto(r, "log")
    /\ UNCHANGED <<rows, hashes, issued, told, retired, stale, userVars, stored, schema, stage, workload,
                   calls, restarts, auditVars>>

(* delete_key: an error if there is no such row. *)
DeleteKey(r) ==
    LET k == call[r].about.key IN
    /\ Handles(r, "deleteKey") /\ AtLeast(call[r].role, "editor")
    /\ DeleteRow(k)
    /\ call' = [call EXCEPT ![r] = IF rows[k] = Missing THEN Idle
                                   ELSE [@ EXCEPT !.at = "unhash", !.known = k \in told]]
    /\ UNCHANGED <<hashes, cache, issued, told, retired, stale, userVars, stored, schema, stage, workload,
                   calls, restarts, auditVars>>

(* Mutant of RemoveHash: the cache is all that is cleared. *)
RemoveHashNot(r) ==
    /\ Runs(r, "unhash")
    /\ Goto(r, "uncache")
    /\ Unmoved

RemoveHash(r) ==
    /\ Runs(r, "unhash")
    /\ hashes' = hashes \ {call[r].about.key}
    /\ Goto(r, "uncache")
    /\ UNCHANGED <<rows, cache, issued, told, retired, stale, userVars, stored, schema, stage, workload,
                   calls, restarts, auditVars>>

RemoveMeta(r) ==
    /\ Runs(r, "uncache")
    /\ cache' = [cache EXCEPT ![call[r].about.key] = Missing]
    /\ Goto(r, "log")
    /\ UNCHANGED <<rows, hashes, issued, told, retired, stale, userVars, stored, schema, stage, workload,
                   calls, restarts, auditVars>>

(* update_key_namespaces: the database, and not the cache. *)
UpdateKey(r) ==
    LET k == call[r].about.key IN
    /\ Handles(r, "updateKey") /\ AtLeast(call[r].role, "editor")
    /\ UpdateRow(k, call[r].about.list)
    /\ stale' = stale \cup {k}
    /\ Goto(r, "log")
    /\ UNCHANGED <<hashes, cache, issued, told, retired, userVars, stored, schema, stage, workload, calls,
                   restarts, auditVars>>

UserHandler(r, op) ==
    /\ Handles(r, op) /\ AtLeast(call[r].role, "admin")
    /\ UNCHANGED <<keyVars, tokens, stored, schema, stage, workload, calls, restarts, auditVars>>

(* A name that exists is an error: no entry. *)
CreateUser(r) ==
    LET about == call[r].about IN
    /\ UserHandler(r, "createUser")
    /\ IF Exists(about.user) THEN End(r) /\ UNCHANGED users
       ELSE InsertUser(about.user, about.role, about.perms) /\ Goto(r, "log")

(* It removes whoever has the id, the last admin too. *)
DeleteUser(r) ==
    UserHandler(r, "deleteUser") /\ DeleteById(call[r].about.user) /\ Goto(r, "log")

SetPassword(r) ==
    UserHandler(r, "setPassword") /\ UpdatePassword(call[r].about.user) /\ Goto(r, "log")

SetPermissions(r) ==
    LET about == call[r].about IN
    UserHandler(r, "setPermissions") /\ UpdatePermissions(about.user, about.perms) /\ Goto(r, "log")

(* login: the password, and then the role, of whoever has the name. *)
CheckPassword(r) ==
    LET about == call[r].about IN
    /\ Handles(r, "login")
    /\ Goto(r, IF Validate(about.user, about.pass) THEN "role" ELSE "log")
    /\ Unmoved

IssueToken(r) ==
    LET u == call[r].about.user IN
    /\ Runs(r, "role")
    /\ tokens' = tokens \cup {[sub |-> u, role |-> RoleOf(u)]}
    /\ Goto(r, "log")
    /\ UNCHANGED <<keyVars, users, stored, schema, stage, workload, calls, restarts, auditVars>>

TokenExpires ==
    /\ \E token \in tokens : tokens' = tokens \ {token}
    /\ UNCHANGED <<keyVars, users, stored, schema, call, stage, workload, calls, restarts, auditVars>>

Credential(r, op) ==
    /\ Handles(r, op) /\ AtLeast(call[r].role, "admin")
    /\ Goto(r, "log")
    /\ UNCHANGED <<keyVars, userVars, schema, stage, workload, calls, restarts, auditVars>>

PutCredential(r) == Credential(r, "putCredential") /\ stored' = TRUE
DeleteCredential(r) == Credential(r, "deleteCredential") /\ stored' = FALSE

(* llm complete *)
Resolve(r) ==
    /\ Handles(r, "complete") /\ AtLeast(call[r].role, "editor")
    /\ IF Configured THEN Goto(r, "upstream") ELSE End(r)
    /\ Unmoved

(* The provider answers or fails, or 60 s pass: one entry whatever it is. *)
ProviderAnswers(r) ==
    /\ Runs(r, "upstream")
    /\ Goto(r, "log")
    /\ Unmoved

(* The client goes: the handler is dropped where it awaits. *)
ClientGoes(r) ==
    /\ Runs(r, "upstream")
    /\ End(r)
    /\ Unmoved

(* The entry, and the answer. *)
Answer(r) ==
    LET op == call[r].op
        k == call[r].about.key
    IN
    /\ Runs(r, "log")
    /\ Log
    /\ told' = IF op = "createKey" THEN told \cup {k} ELSE told
    /\ retired' = IF op = "deleteKey" /\ call[r].known THEN retired \cup {k} ELSE retired
    /\ End(r)
    /\ UNCHANGED <<rows, hashes, cache, issued, stale, userVars, stored, schema, stage, workload, calls,
                   restarts>>
-----------------------------------------------------------------------------
Needs == [createKey |-> "editor", deleteKey |-> "editor", updateKey |-> "editor",
          createUser |-> "admin", deleteUser |-> "admin", setPassword |-> "admin",
          setPermissions |-> "admin", putCredential |-> "admin", deleteCredential |-> "admin",
          complete |-> "editor"]

Questions(op) ==
    CASE op \in {"createKey", "updateKey"} -> [key : Keys \ Bootstrap, list : Lists]
      [] op = "deleteKey" -> [key : Keys]
      [] op = "createUser" -> [user : Users, role : Roles, perms : Grants \cup {NoGrants}]
      [] op \in {"deleteUser", "setPassword"} -> [user : Users]
      [] op = "setPermissions" -> [user : Users, perms : Grants]
      [] op = "use" -> [collection : Collections, action : {"read", "write"},
                        namespace : Namespaces \cup {Missing}]
      [] OTHER -> {Missing}

Arrival(r) ==
    \/ \E op \in workload.ops \ {"login"} : \E about \in Questions(op) :
          \/ \E k \in Keys : ArriveWithKey(r, op, about, k)
          \/ \E token \in tokens : ArriveWithToken(r, op, about, token)
    \/ \E u \in Users, pass \in {0, 1} : ArriveToLogin(r, u, pass)

Handler(r) ==
    \/ LookUp(r) \/ Fetch(r) \/ Fill(r)
    \/ Use(r) \/ \E op \in DOMAIN Needs : Refuse(r, op, Needs[op])
    \/ CreateKey(r) \/ InsertHash(r) \/ InsertMeta(r)
    \/ DeleteKey(r) \/ RemoveHash(r) \/ RemoveMeta(r) \/ UpdateKey(r)
    \/ CreateUser(r) \/ DeleteUser(r) \/ SetPassword(r) \/ SetPermissions(r)
    \/ CheckPassword(r) \/ IssueToken(r)
    \/ PutCredential(r) \/ DeleteCredential(r)
    \/ Resolve(r) \/ ProviderAnswers(r) \/ ClientGoes(r)
    \/ Answer(r)

Start == Migrate \/ LoadKeys \/ PromoteRoot \/ EnsureRoot

Running == stage \in {"serving", "closing"}

Audit ==
    /\ Running /\ workload.writes
    /\ WriterStep \/ Midnight
    /\ UNCHANGED <<keyVars, userVars, stored, schema, call, stage, workload, calls, restarts>>

Next ==
    \/ Start \/ Crash \/ Shutdown \/ Exit
    \/ \E r \in Requests : Arrival(r) \/ Handler(r)
    \/ TokenExpires
    \/ Audit

Spec == Init /\ [][Next]_vars

(* A start goes on, and so does the writer of the audit log. *)
Fairness == WF_vars(Start) /\ WF_vars(Running /\ WriterStep /\ UNCHANGED <<keyVars, userVars,
                stored, schema, call, stage, workload, calls, restarts>>)

FairSpec == Spec /\ Fairness

-----------------------------------------------------------------------------
(***************************************************************************)
(* Properties                                                              *)
(***************************************************************************)

(* A key is admitted from the answer to its creation until its deletion    *)
(* begins, whatever restarts; and a request that comes after the answer to *)
(* its deletion is not (create_key, delete_key, init).  Keys of the        *)
(* configuration are admitted always; a deletion that came before the      *)
(* creation was answered does not count.                                   *)
KeysHonoured ==
    /\ Serving => \A k \in told : rows[k] # Missing => Accepted(k)
    /\ \A r \in Requests : call[r].at # "idle" /\ call[r].late => call[r].key \in Bootstrap

(* A request made with a key gets the namespaces of the key's row, though  *)
(* it finds them in a cache that others fill and clear, unless the row was *)
(* updated since the server started or deleted meanwhile (get_meta_global, *)
(* create_key, reload_hashes).                                             *)
GrantedAsStored ==
    \A r \in Requests :
       /\ call[r].at \notin {"idle", "meta", "fetch"}
       /\ call[r].key # Missing
       /\ call[r].key \notin stale
       /\ rows[call[r].key] # Missing
       => call[r].list = rows[call[r].key]

(* What a user with permissions may do: what an entry for the collection   *)
(* or for all of them allows, under the restriction of the entry for the   *)
(* collection if there is one (check_user_permission, check_permission).   *)
AsPermitted ==
    \A r \in Requests :
       call[r].at = "log" /\ call[r].op = "use" /\ call[r].role # "admin"
       /\ call[r].perms # NoGrants =>
       LET about == call[r].about
           granting == {e \in ToSet(call[r].perms) :
                          about.action \in e.actions /\ e.on \in {about.collection, "all"}}
           exact == {e \in granting : e.on = about.collection}
       IN  IF granting = {} THEN call[r].seen = "denied"
           ELSE \E e \in granting : /\ call[r].seen = e.only
                                    /\ exact # {} => e \in exact

(* A server that has started has an administrator named root, whatever was *)
(* done to that name before (UserStore::new, ensure_default_user).         *)
StartsWithAdmin ==
    [][stage = "default" /\ Serving' => users'[Root] # Missing /\ users'[Root].role = "admin"]_stage

(* A server starts from any database an earlier binary, or an earlier      *)
(* start that crashed, has left (run_migrations).                          *)
Starts == stage = "migrate" ~> Serving

(* It starts, and with an administrator (main).                            *)
Started == StartsWithAdmin /\ Starts
=============================================================================
