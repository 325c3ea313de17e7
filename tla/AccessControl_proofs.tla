------------------------- MODULE AccessControl_proofs -------------------------
(* Proofs about AccessControl, for any keys, users, grants and requests.   *)
EXTENDS AccessControl, Integers, WellFoundedInduction, FiniteSetTheorems, SequenceTheorems, TLAPS

-----------------------------------------------------------------------------
(* Natural numbers *)

(* A nonempty set of natural numbers has a least element.                  *)
LEMMA LeastNatural ==
    ASSUME NEW T \in SUBSET Nat, T # {}
    PROVE  \E x \in T : \A y \in T : x <= y
<1>1. \E x \in T : \A y \in T : ~(<<y, x>> \in OpToRel(<, Nat))
  BY NatLessThanWellFounded, WFMin
<1>2. \A x, y \in T : ~(<<y, x>> \in OpToRel(<, Nat)) => ~(y < x)
  BY DEF OpToRel
<1>3. \A x, y \in T : ~(y < x) => x <= y
  OBVIOUS
<1> QED
  BY <1>1, <1>2, <1>3

(* What holds of 0 and goes on from each number to the next, always holds: *)
(* what does not would have a least exception.                             *)
LEMMA Induction ==
    ASSUME NEW T \in SUBSET Nat, 0 \in T, \A n \in T : n + 1 \in T
    PROVE  T = Nat
<1> SUFFICES ASSUME Nat \ T # {} PROVE FALSE
  OBVIOUS
<1>1. PICK n \in Nat \ T : \A m \in Nat \ T : n <= m
  BY LeastNatural
<1>2. n - 1 \in T
  BY <1>1
<1> QED
  BY <1>1, <1>2

-----------------------------------------------------------------------------
USE AccessControlAssumption

(***************************************************************************)
(* The inductive invariant                                                 *)
(***************************************************************************)
Whole(req) ==
    req = [at |-> req.at, op |-> req.op, about |-> req.about, key |-> req.key, role |-> req.role,
         perms |-> req.perms, list |-> req.list, late |-> req.late, known |-> req.known, seen |-> req.seen]

Typed ==
    /\ rows \in [Keys -> Lists \cup {Missing}] /\ cache \in [Keys -> Lists \cup {Missing}]
    /\ hashes \subseteq issued /\ retired \subseteq told /\ told \subseteq issued
    /\ issued \subseteq Keys
    /\ users \in [Users -> Accounts \cup {Missing}]
    /\ tokens \subseteq [sub : Users, role : Roles]
    /\ call = [r \in Requests |-> call[r]]
    /\ stage \in {"migrate", "keys", "users", "default", "serving", "closing"}

(* What the tables say of one key.  A row that is gone stays away, but     *)
(* that a start inserts those of the configuration again.                  *)
Loaded == stage \notin {"migrate", "keys"}
Kept(k) ==
    /\ rows[k] # Missing \/ cache[k] # Missing => k \in issued
    /\ k \in Bootstrap /\ Loaded => k \in issued
    /\ k \in retired \ Bootstrap => rows[k] = Missing /\ k \notin hashes
    /\ Loaded /\ k \in told /\ rows[k] # Missing => Accepted(k)
    /\ cache[k] # Missing /\ rows[k] # Missing /\ k \notin stale => cache[k] = rows[k]

(* What a request says of itself, and of the key that admitted it. *)
Asks(req) ==
    /\ Whole(req)
    /\ req.key \in Keys \cup {Missing}
    /\ req.list \in Lists
    /\ req.role \in Roles /\ req.perms \in Grants \cup {NoGrants}
    /\ req.op \in {"createKey", "updateKey"} => req.about.key \in Keys \ Bootstrap /\ req.about.list \in Lists
    /\ req.op = "deleteKey" => req.about.key \in Keys
    /\ req.op = "login" => req.about.user \in Users
    /\ req.op = "createUser" => req.about \in [user : Users, role : Roles, perms : Grants \cup {NoGrants}]
    /\ req.op = "setPermissions" => req.about \in [user : Users, perms : Grants]
    /\ req.at \in {"hash", "cache"} => req.op = "createKey"
    /\ req.at \in {"unhash", "uncache"} => req.op = "deleteKey"
    /\ req.at = "role" => req.op = "login"
    /\ req.at = "upstream" => req.op = "complete"
    /\ req.at \in {"meta", "fetch", "fill"} => req.key # Missing

Admitted(req) ==
    /\ req.key # Missing => req.key \in issued
    /\ req.late => req.key \in Bootstrap
    /\ req.key # Missing /\ req.at \notin {"meta", "fetch"} /\ rows[req.key] # Missing /\ req.key \notin stale
       => req.list = rows[req.key]

(* A creation past the database, and a deletion past it. *)
Creating(req) == req.op = "createKey" /\ req.at \in {"hash", "cache", "log"}
Creates(req) ==
    Creating(req) =>
    /\ req.about.key \in issued \ told
    /\ rows[req.about.key] # Missing /\ req.at # "hash" => req.about.key \in hashes
    /\ rows[req.about.key] # Missing /\ req.at # "log" /\ req.about.key \notin stale
       => rows[req.about.key] = req.about.list

Deletes(req) ==
    req.op = "deleteKey" /\ req.at \in {"unhash", "uncache", "log"} =>
    /\ req.about.key \in issued
    /\ req.about.key \notin Bootstrap => rows[req.about.key] = Missing
    /\ req.known => req.about.key \in told
    /\ req.known /\ req.at # "unhash" /\ req.about.key \notin Bootstrap => req.about.key \notin hashes

Decided(req) ==
    req.op = "use" /\ req.at = "log"
    => req.seen = Decision(req.role, req.perms, req.about.collection, req.about.action)

Well(req) ==
    req # Idle =>
    /\ req.at # "idle"
    /\ stage \in {"serving", "closing"}
    /\ Asks(req) /\ Admitted(req) /\ Creates(req) /\ Deletes(req) /\ Decided(req)

(* No key is created twice. *)
OneCreator ==
    \A r, q \in Requests :
        r # q /\ call[r] # Idle /\ call[q] # Idle /\ Creating(call[r]) /\ Creating(call[q])
        => call[r].about.key # call[q].about.key

Rooted == stage = "default" => ~Exists(Root) \/ users[Root].role = "admin"

IInv ==
    /\ Typed
    /\ \A k \in Keys : Kept(k)
    /\ \A r \in Requests : Well(call[r])
    /\ OneCreator
    /\ Rooted

-----------------------------------------------------------------------------
(***************************************************************************)
(* What a step of one request changes                                      *)
(***************************************************************************)
(* How far the tables may change without any matter to the other requests. *)
Steady(k) ==
    /\ k \in issued => /\ k \in issued'
                       /\ rows'[k] # Missing => rows[k] # Missing
                       /\ rows'[k] # Missing /\ k \notin stale' => rows'[k] = rows[k] /\ k \notin stale
    /\ k \in told => k \in told'
    /\ k \in hashes \ Bootstrap /\ rows'[k] # Missing => k \in hashes'
    /\ k \in told \ Bootstrap /\ k \in hashes' => k \in hashes

LEMMA Moved ==
    ASSUME NEW req, Whole(req), NEW s
    PROVE  LET d == [req EXCEPT !.at = s] IN
           /\ Whole(d) /\ d.at = s /\ d.op = req.op /\ d.about = req.about /\ d.key = req.key
           /\ d.role = req.role /\ d.perms = req.perms /\ d.list = req.list /\ d.late = req.late
           /\ d.known = req.known /\ d.seen = req.seen
BY DEF Whole

LEMMA IsIdle == Idle.at = "idle"
BY DEF Idle

LEMMA OtherCalls ==
    ASSUME IInv, NEW r \in Requests, NEW d, call' = [call EXCEPT ![r] = d]
    PROVE  /\ call' = [q \in Requests |-> call'[q]]
           /\ call'[r] = d
           /\ \A q \in Requests \ {r} : call'[q] = call[q]
BY DEF IInv, Typed

LEMMA Active ==
    ASSUME IInv, NEW r \in Requests, NEW s, Runs(r, s), s # "idle"
    PROVE  /\ call[r] # Idle /\ call[r].at = s
           /\ stage \in {"serving", "closing"} /\ Loaded
           /\ Asks(call[r]) /\ Admitted(call[r]) /\ Creates(call[r]) /\ Deletes(call[r])
           /\ Decided(call[r])
BY IsIdle DEF IInv, Well, Runs, Loaded

LEMMA AdmittedStays ==
    ASSUME NEW req, Admitted(req), issued \subseteq Keys, \A k \in Keys : Steady(k)
    PROVE  Admitted(req)'
BY DEF Admitted, Steady

LEMMA Stays ==
    ASSUME NEW req, Well(req), req # Idle, stage' \in {"serving", "closing"},
           \A k \in Keys : Steady(k), issued \subseteq Keys, Creating(req) => req.about.key \notin told'
    PROVE  Well(req)'
<1>1. req.at # "idle" /\ Asks(req) /\ Admitted(req) /\ Creates(req) /\ Deletes(req) /\ Decided(req)
  BY DEF Well
<1>2. Asks(req)'
  BY <1>1 DEF Asks, Whole
<1>3. Admitted(req)'
  BY <1>1, AdmittedStays
<1>4. Creates(req)'
  BY <1>1 DEF Creates, Creating, Steady, Asks
<1>5. Deletes(req)'
  BY <1>1 DEF Deletes, Steady
<1>6. Decided(req)'
  BY <1>1 DEF Decided
<1> QED
  BY <1>1, <1>2, <1>3, <1>4, <1>5, <1>6 DEF Well

(* A step of r: the tables stay as they should, and so do the others.      *)
LEMMA StepKeeps ==
    ASSUME IInv, NEW r \in Requests, NEW d, call' = [call EXCEPT ![r] = d],
           stage' \in {"serving", "closing"}, Typed',
           \A k \in Keys : Steady(k) /\ Kept(k)',
           Well(d)',
           \A q \in Requests \ {r} : call[q] # Idle /\ Creating(call[q]) =>
               /\ call[q].about.key \notin told'
               /\ d # Idle /\ Creating(d) => call[q].about.key # d.about.key
    PROVE  IInv'
<1>1. call'[r] = d /\ \A q \in Requests \ {r} : call'[q] = call[q]
  BY OtherCalls
<1>2. ASSUME NEW q \in Requests PROVE Well(call[q])'
  <2>1. CASE q = r
    BY <1>1, <2>1 DEF Well, Asks, Whole, Admitted, Creates, Creating, Deletes, Decided
  <2>2. CASE q # r /\ call[q] = Idle
    BY <1>1, <2>2 DEF Well, Idle
  <2>3. CASE q # r /\ call[q] # Idle
    <3>1. Well(call[q]) /\ issued \subseteq Keys
      BY DEF IInv, Typed
    <3> DEFINE x == call[q]
    <3>2. Creating(x) => x.about.key \notin told'
      BY <2>3
    <3>3. call'[q] = call[q]
      BY <1>1, <2>3
    <3> QED
      BY <2>3, <3>1, <3>2, <3>3, Stays DEF Well, Asks, Whole, Admitted, Creates, Creating, Deletes, Decided
  <2> QED
    BY <2>1, <2>2, <2>3
<1>3. OneCreator'
  BY <1>1 DEF IInv, OneCreator, Creating, Idle
<1>4. Rooted'
  BY DEF Rooted
<1> QED
  BY <1>2, <1>3, <1>4 DEF IInv


(* A step of r that leaves the keys alone.                                 *)
LEMMA QuietStep ==
    ASSUME IInv, NEW r \in Requests, NEW d, call' = [call EXCEPT ![r] = d],
           stage \in {"serving", "closing"}, UNCHANGED <<keyVars, stage>>,
           users' \in [Users -> Accounts \cup {Missing}], tokens' \subseteq [sub : Users, role : Roles],
           d # Idle => /\ d.at # "idle"
                       /\ Asks(d) /\ Admitted(d) /\ Creates(d) /\ Deletes(d) /\ Decided(d),
           d # Idle /\ Creating(d) =>
               call[r] # Idle /\ Creating(call[r]) /\ d.about.key = call[r].about.key
    PROVE  IInv'
<1>1. Typed'
  BY OtherCalls DEF IInv, Typed, keyVars
<1>2. \A k \in Keys : Steady(k) /\ Kept(k)'
  BY DEF IInv, Kept, Steady, keyVars, Loaded, Accepted, Registered, Legacy
<1>3. Well(d)'
  BY DEF Well, Asks, Whole, Admitted, Creates, Creating, Deletes, Decided, keyVars
<1>4. ASSUME NEW q \in Requests \ {r}, call[q] # Idle, Creating(call[q])
      PROVE  /\ call[q].about.key \notin told'
             /\ d # Idle /\ Creating(d) => call[q].about.key # d.about.key
  <2>1. call[q].about.key \notin told
    BY <1>4 DEF IInv, Well, Creates
  <2> QED
    BY <1>4, <2>1 DEF IInv, OneCreator, keyVars
<1> QED
  BY <1>1, <1>2, <1>3, <1>4, StepKeeps

LEMMA EndKeeps ==
    ASSUME IInv, NEW r \in Requests, stage \in {"serving", "closing"}, End(r),
           UNCHANGED <<keyVars, userVars, stage>>
    PROVE  IInv'
<1>1. call' = [call EXCEPT ![r] = Idle]
  BY DEF End
<1>2. users' \in [Users -> Accounts \cup {Missing}] /\ tokens' \subseteq [sub : Users, role : Roles]
  BY DEF IInv, Typed, userVars
<1> QED
  BY <1>1, <1>2, QuietStep

(* The request goes on, or comes to its entry, past what it asked for.     *)
LEMMA GotoKeeps ==
    ASSUME IInv, NEW r \in Requests, NEW s, Goto(r, s), UNCHANGED <<keyVars, stage>>,
           stage \in {"serving", "closing"}, call[r] # Idle,
           s \in {"log", "role", "upstream"}, call[r].at \notin {"meta", "fetch"},
           call[r].op \notin {"createKey", "deleteKey", "use"},
           s = "role" => call[r].op = "login", s = "upstream" => call[r].op = "complete",
           users' \in [Users -> Accounts \cup {Missing}], tokens' \subseteq [sub : Users, role : Roles]
    PROVE  IInv'
<1> DEFINE d == [call[r] EXCEPT !.at = s]
<1>1. Asks(call[r]) /\ Admitted(call[r])
  BY DEF IInv, Well
<1>2. call' = [call EXCEPT ![r] = d]
  BY DEF Goto
<1>3. /\ Whole(d) /\ d.at = s /\ d.op = call[r].op /\ d.about = call[r].about /\ d.key = call[r].key
      /\ d.role = call[r].role /\ d.perms = call[r].perms /\ d.list = call[r].list
      /\ d.late = call[r].late
  <2>1. Whole(call[r])
    BY <1>1 DEF Asks
  <2> QED
    BY <2>1, Moved
<1> HIDE DEF d
<1>4. Asks(d) /\ Admitted(d)
  BY <1>1, <1>3 DEF Asks, Admitted
<1>5. ~Creating(d) /\ Creates(d) /\ Deletes(d) /\ Decided(d) /\ d.at # "idle"
  BY <1>3 DEF Creating, Creates, Deletes, Decided
<1> QED
  BY <1>2, <1>4, <1>5, QuietStep

-----------------------------------------------------------------------------
(***************************************************************************)
(* Admission                                                               *)
(***************************************************************************)
LEMMA ArrivalKeeps == ASSUME IInv, NEW r \in Requests, Arrival(r) PROVE IInv'
<1>1. \A op, about : \A k \in Keys :
         op # "login" /\ about \in Questions(op) /\ ArriveWithKey(r, op, about, k) => IInv'
  <2> SUFFICES ASSUME NEW op, NEW about, NEW k \in Keys, op # "login", about \in Questions(op),
                      ArriveWithKey(r, op, about, k)
               PROVE  IInv'
    OBVIOUS
  <2> DEFINE d == [at |-> "meta", op |-> op, about |-> about, key |-> k,
                   role |-> "admin", perms |-> NoGrants, list |-> {}, late |-> k \in retired,
                   known |-> FALSE, seen |-> Missing]
  <2>1. /\ call' = [call EXCEPT ![r] = d] /\ UNCHANGED <<keyVars, userVars, stage>>
        /\ stage = "serving" /\ Accepted(k)
    BY DEF ArriveWithKey, Arrive, Serving
  <2>2. Asks(d)
    BY DEF Asks, Whole, Questions, Lists, Roles
  <2>3. Kept(k) /\ hashes \subseteq issued
    BY DEF IInv, Typed
  <2>4. k \in issued /\ (k \in retired => k \in Bootstrap)
    BY <2>1, <2>3 DEF Kept, Accepted, Registered, Legacy, Loaded
  <2>5. Admitted(d) /\ Creates(d) /\ Deletes(d) /\ Decided(d) /\ ~Creating(d) /\ d.at # "idle"
    BY <2>4 DEF Admitted, Creates, Creating, Deletes, Decided
  <2>6. users' \in [Users -> Accounts \cup {Missing}] /\ tokens' \subseteq [sub : Users, role : Roles]
    BY <2>1 DEF IInv, Typed, userVars
  <2> HIDE DEF d
  <2> QED
    BY <2>1, <2>2, <2>5, <2>6, QuietStep
<1>2. \A op, about : \A token \in tokens :
         op # "login" /\ about \in Questions(op) /\ ArriveWithToken(r, op, about, token) => IInv'
  <2> SUFFICES ASSUME NEW op, NEW about, NEW token \in tokens, op # "login", about \in Questions(op),
                      ArriveWithToken(r, op, about, token)
               PROVE  IInv'
    OBVIOUS
  <2> DEFINE d == [at |-> "handle", op |-> op, about |-> about, key |-> Missing,
                   role |-> token.role, perms |-> PermissionsOf(token), list |-> {}, late |-> FALSE,
                   known |-> FALSE, seen |-> Missing]
  <2>1. /\ call' = [call EXCEPT ![r] = d] /\ UNCHANGED <<keyVars, userVars, stage>>
        /\ stage = "serving"
    BY DEF ArriveWithToken, Arrive, Serving
  <2>2. token.role \in Roles /\ PermissionsOf(token) \in Grants \cup {NoGrants}
    BY DEF IInv, Typed, PermissionsOf, GetPermissions, Exists, Accounts
  <2>3. Asks(d)
    BY <2>2 DEF Asks, Whole, Questions, Lists
  <2>4. Admitted(d) /\ Creates(d) /\ Deletes(d) /\ Decided(d) /\ ~Creating(d) /\ d.at # "idle"
    BY DEF Admitted, Creates, Creating, Deletes, Decided
  <2>5. users' \in [Users -> Accounts \cup {Missing}] /\ tokens' \subseteq [sub : Users, role : Roles]
    BY <2>1 DEF IInv, Typed, userVars
  <2> HIDE DEF d
  <2> QED
    BY <2>1, <2>3, <2>4, <2>5, QuietStep
<1>3. ASSUME NEW u \in Users, NEW pass \in {0, 1}, ArriveToLogin(r, u, pass) PROVE IInv'
  <2> DEFINE d == [at |-> "handle", op |-> "login", about |-> [user |-> u, pass |-> pass],
                   key |-> Missing, role |-> "viewer", perms |-> NoGrants, list |-> {}, late |-> FALSE,
                   known |-> FALSE, seen |-> Missing]
  <2>1. /\ call' = [call EXCEPT ![r] = d] /\ UNCHANGED <<keyVars, userVars, stage>>
        /\ stage = "serving"
    BY <1>3 DEF ArriveToLogin, Arrive, Serving
  <2>2. Asks(d)
    BY DEF Asks, Whole, Lists, Roles
  <2>3. Admitted(d) /\ Creates(d) /\ Deletes(d) /\ Decided(d) /\ ~Creating(d) /\ d.at # "idle"
    BY DEF Admitted, Creates, Creating, Deletes, Decided
  <2>4. users' \in [Users -> Accounts \cup {Missing}] /\ tokens' \subseteq [sub : Users, role : Roles]
    BY <2>1 DEF IInv, Typed, userVars
  <2> HIDE DEF d
  <2> QED
    BY <2>1, <2>2, <2>3, <2>4, QuietStep
<1> QED
  BY <1>1, <1>2, <1>3 DEF Arrival

LEMMA Listed ==
    ASSUME NEW req, Whole(req), NEW list
    PROVE  LET d == [req EXCEPT !.list = list] IN
           /\ Whole(d) /\ d.at = req.at /\ d.op = req.op /\ d.about = req.about /\ d.key = req.key
           /\ d.role = req.role /\ d.perms = req.perms /\ d.list = list /\ d.late = req.late
BY DEF Whole

LEMMA LookUpKeeps == ASSUME IInv, NEW r \in Requests, LookUp(r) PROVE IInv'
<1> DEFINE k == call[r].key
           d == IF cache[k] = Missing THEN [call[r] EXCEPT !.at = "fetch"]
                ELSE [call[r] EXCEPT !.at = "handle", !.list = cache[k]]
<1>1. /\ stage \in {"serving", "closing"} /\ Asks(call[r]) /\ Admitted(call[r]) /\ call[r].at = "meta"
  BY Active DEF LookUp
<1>2. call' = [call EXCEPT ![r] = d] /\ UNCHANGED <<keyVars, userVars, stage>>
  BY DEF LookUp, Unmoved
<1>3. k \in Keys /\ Kept(k) /\ cache[k] \in Lists \cup {Missing} /\ Whole(call[r])
  BY <1>1 DEF Asks, IInv, Typed
<1>4. /\ Whole(d) /\ d.at \in {"fetch", "handle"} /\ d.op = call[r].op /\ d.about = call[r].about
      /\ d.key = k /\ d.role = call[r].role /\ d.perms = call[r].perms /\ d.late = call[r].late
      /\ d.list = IF cache[k] = Missing THEN call[r].list ELSE cache[k]
      /\ d.at = "handle" => cache[k] # Missing
  <2> DEFINE e == [call[r] EXCEPT !.at = "fetch"]
             f == [call[r] EXCEPT !.at = "handle", !.list = cache[k]]
  <2>1. /\ Whole(e) /\ e.at = "fetch" /\ e.op = call[r].op /\ e.about = call[r].about
        /\ e.key = k /\ e.role = call[r].role /\ e.perms = call[r].perms /\ e.late = call[r].late
        /\ e.list = call[r].list
    BY <1>3, Moved
  <2>2. /\ Whole(f) /\ f.at = "handle" /\ f.op = call[r].op /\ f.about = call[r].about
        /\ f.key = k /\ f.role = call[r].role /\ f.perms = call[r].perms /\ f.late = call[r].late
        /\ f.list = cache[k]
    <3> DEFINE g == [call[r] EXCEPT !.at = "handle"]
    <3>1. f = [g EXCEPT !.list = cache[k]]
      OBVIOUS
    <3>2. /\ Whole(g) /\ g.at = "handle" /\ g.op = call[r].op /\ g.about = call[r].about
          /\ g.key = k /\ g.role = call[r].role /\ g.perms = call[r].perms /\ g.late = call[r].late
      BY <1>3, Moved
    <3> HIDE DEF g
    <3>3. LET h == [g EXCEPT !.list = cache[k]] IN
          /\ Whole(h) /\ h.at = g.at /\ h.op = g.op /\ h.about = g.about /\ h.key = g.key
          /\ h.role = g.role /\ h.perms = g.perms /\ h.list = cache[k] /\ h.late = g.late
      BY <3>2, Listed
    <3> HIDE DEF f
    <3> QED
      BY <3>1, <3>2, <3>3
  <2>3. d = IF cache[k] = Missing THEN e ELSE f
    OBVIOUS
  <2> HIDE DEF d, e, f
  <2> QED
    BY <2>1, <2>2, <2>3
<1> HIDE DEF d
<1>5. Asks(d) /\ Admitted(d)
  BY <1>1, <1>3, <1>4 DEF Asks, Admitted, Kept
<1>6. ~Creating(d) /\ Creates(d) /\ Deletes(d) /\ Decided(d) /\ d.at # "idle"
  BY <1>4 DEF Creating, Creates, Deletes, Decided
<1>7. users' \in [Users -> Accounts \cup {Missing}] /\ tokens' \subseteq [sub : Users, role : Roles]
  BY <1>2 DEF IInv, Typed, userVars
<1> QED
  BY <1>1, <1>2, <1>5, <1>6, <1>7, QuietStep

LEMMA FetchKeeps == ASSUME IInv, NEW r \in Requests, Fetch(r) PROVE IInv'
<1> DEFINE k == call[r].key
           d == [call[r] EXCEPT !.at = "fill", !.list = GetMeta(k)]
<1>1. /\ stage \in {"serving", "closing"} /\ Asks(call[r]) /\ Admitted(call[r]) /\ call[r].at = "fetch"
  BY Active DEF Fetch
<1>2. call' = [call EXCEPT ![r] = d] /\ UNCHANGED <<keyVars, userVars, stage>>
  BY DEF Fetch, Unmoved, IInv, Typed
<1>3. k \in Keys /\ GetMeta(k) \in Lists /\ (rows[k] # Missing => GetMeta(k) = rows[k]) /\ Whole(call[r])
  BY <1>1 DEF Asks, IInv, Typed, GetMeta, Lists
<1>4. /\ Whole(d) /\ d.at = "fill" /\ d.op = call[r].op /\ d.about = call[r].about
      /\ d.key = k /\ d.role = call[r].role /\ d.perms = call[r].perms /\ d.late = call[r].late
      /\ d.list = GetMeta(k)
  <2> DEFINE g == [call[r] EXCEPT !.at = "fill"]
  <2>1. d = [g EXCEPT !.list = GetMeta(k)]
    OBVIOUS
  <2>2. /\ Whole(g) /\ g.at = "fill" /\ g.op = call[r].op /\ g.about = call[r].about
        /\ g.key = k /\ g.role = call[r].role /\ g.perms = call[r].perms /\ g.late = call[r].late
    BY <1>3, Moved
  <2> HIDE DEF g
  <2>3. LET e == [g EXCEPT !.list = GetMeta(k)] IN
        /\ Whole(e) /\ e.at = g.at /\ e.op = g.op /\ e.about = g.about /\ e.key = g.key
        /\ e.role = g.role /\ e.perms = g.perms /\ e.list = GetMeta(k) /\ e.late = g.late
    BY <2>2, Listed
  <2> HIDE DEF d
  <2> QED
    BY <2>1, <2>2, <2>3
<1> HIDE DEF d
<1>5. Asks(d) /\ Admitted(d)
  BY <1>1, <1>3, <1>4 DEF Asks, Admitted
<1>6. ~Creating(d) /\ Creates(d) /\ Deletes(d) /\ Decided(d) /\ d.at # "idle"
  BY <1>4 DEF Creating, Creates, Deletes, Decided
<1>7. users' \in [Users -> Accounts \cup {Missing}] /\ tokens' \subseteq [sub : Users, role : Roles]
  BY <1>2 DEF IInv, Typed, userVars
<1> QED
  BY <1>1, <1>2, <1>5, <1>6, <1>7, QuietStep

(* What the steps on the tables of keys have in common: the request goes   *)
(* on to step s, and its admission stays what it was.                      *)
LEMMA TableStep ==
    ASSUME IInv, NEW r \in Requests, NEW s, Goto(r, s), UNCHANGED <<userVars, stage>>,
           stage \in {"serving", "closing"}, call[r] # Idle,
           s \notin {"idle", "meta", "fetch", "fill", "role", "upstream"},
           call[r].at \notin {"meta", "fetch"}, call[r].op # "use",
           s \in {"hash", "cache"} => call[r].op = "createKey",
           s \in {"unhash", "uncache"} => call[r].op = "deleteKey",
           /\ rows' \in [Keys -> Lists \cup {Missing}] /\ cache' \in [Keys -> Lists \cup {Missing}]
           /\ hashes' \subseteq issued' /\ retired' \subseteq told' /\ told' \subseteq issued'
           /\ issued' \subseteq Keys,
           \A k \in Keys : Steady(k) /\ Kept(k)',
           \A d : /\ d.at = s /\ d.op = call[r].op /\ d.about = call[r].about /\ d.known = call[r].known
                  => Creates(d)' /\ Deletes(d)',
           \A q \in Requests \ {r} : call[q] # Idle /\ Creating(call[q]) =>
               /\ call[q].about.key \notin told'
               /\ call[r].op = "createKey" => call[q].about.key # call[r].about.key
    PROVE  IInv'
<1>0. PICK d : d = [call[r] EXCEPT !.at = s]
  OBVIOUS
<1>1. Asks(call[r]) /\ Admitted(call[r])
  BY DEF IInv, Well
<1>2. call' = [call EXCEPT ![r] = d]
  BY <1>0 DEF Goto
<1>3. /\ Whole(d) /\ d.at = s /\ d.op = call[r].op /\ d.about = call[r].about /\ d.key = call[r].key
      /\ d.role = call[r].role /\ d.perms = call[r].perms /\ d.list = call[r].list
      /\ d.late = call[r].late /\ d.known = call[r].known
  <2> DEFINE e == [call[r] EXCEPT !.at = s]
  <2>1. Whole(call[r])
    BY <1>1 DEF Asks
  <2>2. /\ Whole(e) /\ e.at = s /\ e.op = call[r].op /\ e.about = call[r].about /\ e.key = call[r].key
        /\ e.role = call[r].role /\ e.perms = call[r].perms /\ e.list = call[r].list
        /\ e.late = call[r].late /\ e.known = call[r].known
    BY <2>1, Moved
  <2> QED
    BY <1>0, <2>2
<1>4. Asks(d) /\ Admitted(d)
  BY <1>1, <1>3 DEF Asks, Admitted
<1>5. Asks(d)' /\ Admitted(d)'
  <2>1. issued \subseteq Keys
    BY DEF IInv, Typed
  <2>2. Admitted(d)'
    BY <1>4, <2>1, AdmittedStays
  <2>3. Asks(d)'
    BY <1>4 DEF Asks, Whole
  <2> QED
    BY <2>2, <2>3
<1>6. Creates(d)' /\ Deletes(d)' /\ Decided(d)'
  BY <1>3 DEF Decided
<1>7. Well(d)'
  BY <1>3, <1>5, <1>6 DEF Well
<1>8. Typed'
  <2>1. call' = [q \in Requests |-> call'[q]]
    BY <1>2, OtherCalls
  <2> QED
    BY <2>1 DEF IInv, Typed, userVars
<1>9. ASSUME NEW q \in Requests \ {r}, call[q] # Idle, Creating(call[q])
      PROVE  /\ call[q].about.key \notin told'
             /\ d # Idle /\ Creating(d) => call[q].about.key # d.about.key
  BY <1>3, <1>9 DEF Creating
<1> QED
  BY <1>2, <1>7, <1>8, <1>9, StepKeeps

-----------------------------------------------------------------------------
(***************************************************************************)
(* Keys                                                                    *)
(***************************************************************************)
LEMMA FillKeeps == ASSUME IInv, NEW r \in Requests, Fill(r) PROVE IInv'
<1> DEFINE k == call[r].key
<1>0. PICK d : d = [call[r] EXCEPT !.at = "handle"]
  OBVIOUS
<1>1. /\ stage \in {"serving", "closing"} /\ call[r] # Idle /\ call[r].at = "fill"
      /\ Asks(call[r]) /\ Admitted(call[r])
  BY Active DEF Fill
<1>2. /\ call' = [call EXCEPT ![r] = d] /\ cache' = [cache EXCEPT ![k] = call[r].list]
      /\ UNCHANGED <<rows, hashes, issued, told, retired, stale, userVars, stage>>
  BY <1>0 DEF Fill, Goto
<1>3. /\ Whole(d) /\ d.at = "handle" /\ d.op = call[r].op /\ d.about = call[r].about /\ d.key = k
      /\ d.role = call[r].role /\ d.perms = call[r].perms /\ d.list = call[r].list
      /\ d.late = call[r].late
  <2> DEFINE e == [call[r] EXCEPT !.at = "handle"]
  <2>1. Whole(call[r])
    BY <1>1 DEF Asks
  <2>2. /\ Whole(e) /\ e.at = "handle" /\ e.op = call[r].op /\ e.about = call[r].about /\ e.key = call[r].key
        /\ e.role = call[r].role /\ e.perms = call[r].perms /\ e.list = call[r].list
        /\ e.late = call[r].late
    BY <2>1, Moved
  <2> QED
    BY <1>0, <2>2
<1>4. k \in issued /\ k \in Keys /\ call[r].list \in Lists
  BY <1>1 DEF Asks, Admitted, IInv, Typed
<1>5. rows[k] # Missing /\ k \notin stale => call[r].list = rows[k]
  BY <1>1 DEF Asks, Admitted
<1>6. Typed'
  <2>1. call' = [q \in Requests |-> call'[q]]
    BY <1>2, OtherCalls
  <2> QED
    BY <1>2, <1>4, <2>1 DEF IInv, Typed, userVars
<1>7. ASSUME NEW j \in Keys PROVE Steady(j) /\ Kept(j)'
  <2>1. Kept(j) /\ cache'[j] = IF j = k THEN call[r].list ELSE cache[j]
    BY <1>2, <1>4 DEF IInv, Typed
  <2> QED
    BY <1>2, <1>4, <1>5, <2>1 DEF Kept, Steady, Loaded, Accepted, Registered, Legacy
<1>8. Well(d)'
  <2>1. Asks(d) /\ Admitted(d)
    BY <1>1, <1>3 DEF Asks, Admitted
  <2>2. Asks(d)' /\ Admitted(d)'
    BY <1>2, <2>1 DEF Asks, Whole, Admitted
  <2>3. Creates(d)' /\ Deletes(d)' /\ Decided(d)'
    BY <1>3 DEF Creates, Creating, Deletes, Decided
  <2> QED
    BY <1>1, <1>2, <1>3, <2>2, <2>3 DEF Well
<1>9. ASSUME NEW q \in Requests \ {r}, call[q] # Idle, Creating(call[q])
      PROVE  /\ call[q].about.key \notin told'
             /\ d # Idle /\ Creating(d) => call[q].about.key # d.about.key
  <2>1. Well(call[q])
    BY DEF IInv
  <2> QED
    BY <1>2, <1>3, <1>9, <2>1 DEF Well, Creates, Creating
<1> QED
  BY <1>1, <1>2, <1>6, <1>7, <1>8, <1>9, StepKeeps

(* The keys that other requests create are not told, and not that of r.    *)
LEMMA OtherCreations ==
    ASSUME IInv, NEW r \in Requests, NEW q \in Requests \ {r}, call[q] # Idle, Creating(call[q])
    PROVE  /\ call[q].about.key \in issued \ told
           /\ call[r] # Idle /\ Creating(call[r]) => call[q].about.key # call[r].about.key
<1>1. Well(call[q])
  BY DEF IInv
<1> QED
  BY <1>1 DEF IInv, OneCreator, Well, Creates

LEMMA CreateKeyKeeps == ASSUME IInv, NEW r \in Requests, CreateKey(r) PROVE IInv'
<1> DEFINE k == call[r].about.key
<1>1. /\ stage \in {"serving", "closing"} /\ call[r] # Idle /\ call[r].at = "handle"
      /\ call[r].op = "createKey" /\ k \in Keys \ Bootstrap /\ call[r].about.list \in Lists
  BY Active DEF CreateKey, Handles, Asks
<1>2. /\ k \notin issued /\ rows' = [rows EXCEPT ![k] = call[r].about.list]
      /\ issued' = issued \cup {k} /\ Goto(r, "hash")
      /\ UNCHANGED <<hashes, cache, told, retired, stale, userVars, stage>>
  BY DEF CreateKey, InsertRow, Row
<1>3. /\ rows' \in [Keys -> Lists \cup {Missing}] /\ cache' \in [Keys -> Lists \cup {Missing}]
      /\ hashes' \subseteq issued' /\ retired' \subseteq told' /\ told' \subseteq issued'
      /\ issued' \subseteq Keys
  BY <1>1, <1>2 DEF IInv, Typed
<1>4. ASSUME NEW j \in Keys PROVE Steady(j) /\ Kept(j)'
  <2>1. /\ Kept(j) /\ rows'[j] = IF j = k THEN call[r].about.list ELSE rows[j]
        /\ hashes \subseteq issued /\ retired \subseteq told /\ told \subseteq issued
    BY <1>1, <1>2 DEF IInv, Typed
  <2> QED
    BY <1>1, <1>2, <2>1 DEF Kept, Steady, Loaded, Accepted, Registered, Legacy
<1>5. ASSUME NEW d, d.at = "hash", d.op = call[r].op, d.about = call[r].about
      PROVE  Creates(d)' /\ Deletes(d)'
  <2>1. rows'[k] = call[r].about.list /\ k \notin told
    BY <1>1, <1>2 DEF IInv, Typed
  <2> QED
    BY <1>1, <1>2, <1>5, <2>1 DEF Creates, Creating, Deletes
<1>6. ASSUME NEW q \in Requests \ {r}, call[q] # Idle, Creating(call[q])
      PROVE  call[q].about.key \notin told' /\ call[q].about.key # k
  BY <1>2, <1>6, OtherCreations
<1> QED
  BY <1>1, <1>2, <1>3, <1>4, <1>5, <1>6, TableStep

LEMMA InsertHashKeeps == ASSUME IInv, NEW r \in Requests, InsertHash(r) PROVE IInv'
<1> DEFINE k == call[r].about.key
<1>1. /\ stage \in {"serving", "closing"} /\ call[r] # Idle /\ call[r].at = "hash"
      /\ call[r].op = "createKey" /\ Creates(call[r])
  BY Active DEF InsertHash, Asks
<1>2. /\ k \in issued \ told /\ (rows[k] # Missing /\ k \notin stale => rows[k] = call[r].about.list)
      /\ Creating(call[r])
  BY <1>1 DEF Creates, Creating
<1>3. /\ hashes' = hashes \cup {k} /\ Goto(r, "cache")
      /\ UNCHANGED <<rows, cache, issued, told, retired, stale, userVars, stage>>
  BY DEF InsertHash
<1>4. /\ rows' \in [Keys -> Lists \cup {Missing}] /\ cache' \in [Keys -> Lists \cup {Missing}]
      /\ hashes' \subseteq issued' /\ retired' \subseteq told' /\ told' \subseteq issued'
      /\ issued' \subseteq Keys
  BY <1>2, <1>3 DEF IInv, Typed
<1>5. ASSUME NEW j \in Keys PROVE Steady(j) /\ Kept(j)'
  <2>1. Kept(j) /\ retired \subseteq told
    BY DEF IInv, Typed
  <2> QED
    BY <1>2, <1>3, <2>1 DEF Kept, Steady, Loaded, Accepted, Registered, Legacy
<1>6. ASSUME NEW d, d.at = "cache", d.op = call[r].op, d.about = call[r].about
      PROVE  Creates(d)' /\ Deletes(d)'
  BY <1>1, <1>2, <1>3, <1>6 DEF Creates, Creating, Deletes
<1>7. ASSUME NEW q \in Requests \ {r}, call[q] # Idle, Creating(call[q])
      PROVE  call[q].about.key \notin told' /\ call[q].about.key # k
  BY <1>1, <1>2, <1>3, <1>7, OtherCreations
<1> QED
  BY <1>1, <1>3, <1>4, <1>5, <1>6, <1>7, TableStep

LEMMA InsertMetaKeeps == ASSUME IInv, NEW r \in Requests, InsertMeta(r) PROVE IInv'
<1> DEFINE k == call[r].about.key
<1>1. /\ stage \in {"serving", "closing"} /\ call[r] # Idle /\ call[r].at = "cache"
      /\ call[r].op = "createKey" /\ Creates(call[r]) /\ call[r].about.list \in Lists
  BY Active DEF InsertMeta, Asks
<1>2. /\ k \in issued \ told /\ (rows[k] # Missing /\ k \notin stale => rows[k] = call[r].about.list)
      /\ (rows[k] # Missing => k \in hashes) /\ Creating(call[r])
  BY <1>1 DEF Creates, Creating
<1>3. /\ cache' = [cache EXCEPT ![k] = call[r].about.list] /\ Goto(r, "log")
      /\ UNCHANGED <<rows, hashes, issued, told, retired, stale, userVars, stage>>
  BY DEF InsertMeta
<1>4. /\ rows' \in [Keys -> Lists \cup {Missing}] /\ cache' \in [Keys -> Lists \cup {Missing}]
      /\ hashes' \subseteq issued' /\ retired' \subseteq told' /\ told' \subseteq issued'
      /\ issued' \subseteq Keys
  BY <1>1, <1>3 DEF IInv, Typed
<1>5. ASSUME NEW j \in Keys PROVE Steady(j) /\ Kept(j)'
  <2>1. Kept(j) /\ cache'[j] = IF j = k THEN call[r].about.list ELSE cache[j]
    BY <1>2, <1>3 DEF IInv, Typed
  <2> QED
    BY <1>1, <1>2, <1>3, <2>1 DEF Kept, Steady, Loaded, Accepted, Registered, Legacy
<1>6. ASSUME NEW d, d.at = "log", d.op = call[r].op, d.about = call[r].about
      PROVE  Creates(d)' /\ Deletes(d)'
  BY <1>1, <1>2, <1>3, <1>6 DEF Creates, Creating, Deletes
<1>7. ASSUME NEW q \in Requests \ {r}, call[q] # Idle, Creating(call[q])
      PROVE  call[q].about.key \notin told' /\ call[q].about.key # k
  BY <1>1, <1>2, <1>3, <1>7, OtherCreations
<1> QED
  BY <1>1, <1>3, <1>4, <1>5, <1>6, <1>7, TableStep

LEMMA DeleteKeyKeeps == ASSUME IInv, NEW r \in Requests, DeleteKey(r) PROVE IInv'
<1> DEFINE k == call[r].about.key
<1>0. PICK d : d = IF rows[k] = Missing THEN Idle
                   ELSE [call[r] EXCEPT !.at = "unhash", !.known = k \in told]
  OBVIOUS
<1>1. /\ stage \in {"serving", "closing"} /\ call[r] # Idle /\ call[r].at = "handle"
      /\ call[r].op = "deleteKey" /\ Asks(call[r]) /\ Admitted(call[r]) /\ k \in Keys
  BY Active DEF DeleteKey, Handles, Asks
<1>2. /\ rows' = [rows EXCEPT ![k] = Missing] /\ call' = [call EXCEPT ![r] = d]
      /\ UNCHANGED <<hashes, cache, issued, told, retired, stale, userVars, stage>>
  BY <1>0 DEF DeleteKey, DeleteRow, Row
<1>3. d # Idle => /\ Whole(d) /\ d.at = "unhash" /\ d.op = call[r].op /\ d.about = call[r].about
                  /\ d.key = call[r].key /\ d.role = call[r].role /\ d.perms = call[r].perms
                  /\ d.list = call[r].list /\ d.late = call[r].late
                  /\ rows[k] # Missing /\ (d.known => k \in told)
  <2> DEFINE e == [call[r] EXCEPT !.at = "unhash"]
             f == [call[r] EXCEPT !.at = "unhash", !.known = k \in told]
  <2>1. f = [e EXCEPT !.known = k \in told]
    OBVIOUS
  <2>2. Whole(call[r])
    BY <1>1 DEF Asks
  <2>3. /\ Whole(e) /\ e.at = "unhash" /\ e.op = call[r].op /\ e.about = call[r].about
        /\ e.key = call[r].key /\ e.role = call[r].role /\ e.perms = call[r].perms
        /\ e.list = call[r].list /\ e.late = call[r].late
    BY <2>2 DEF Whole
  <2>4. d # Idle => rows[k] # Missing /\ d = f
    BY <1>0
  <2> HIDE DEF e, f
  <2>5. /\ Whole(f) /\ f.at = e.at /\ f.op = e.op /\ f.about = e.about /\ f.key = e.key
        /\ f.role = e.role /\ f.perms = e.perms /\ f.list = e.list /\ f.late = e.late
        /\ f.known = (k \in told)
    BY <2>1, <2>3 DEF Whole
  <2> QED
    BY <2>3, <2>4, <2>5
<1>4. Typed'
  <2>1. call' = [q \in Requests |-> call'[q]]
    BY <1>2, OtherCalls
  <2> QED
    BY <1>1, <1>2, <2>1 DEF IInv, Typed, userVars
<1>5. ASSUME NEW j \in Keys PROVE Steady(j) /\ Kept(j)'
  <2>1. Kept(j) /\ rows'[j] = IF j = k THEN Missing ELSE rows[j]
    BY <1>1, <1>2 DEF IInv, Typed
  <2> QED
    BY <1>1, <1>2, <2>1 DEF Kept, Steady, Loaded, Accepted, Registered, Legacy
<1>6. Well(d)'
  <2> SUFFICES ASSUME d # Idle PROVE Well(d)'
    BY DEF Well
  <2>1. Asks(d) /\ Admitted(d)
    BY <1>1, <1>3 DEF Asks, Admitted
  <2>2. Asks(d)' /\ Admitted(d)'
    <3>1. issued \subseteq Keys
      BY DEF IInv, Typed
    <3>2. Admitted(d)'
      BY <1>5, <2>1, <3>1, AdmittedStays
    <3>3. Asks(d)'
      BY <2>1 DEF Asks, Whole
    <3> QED
      BY <3>2, <3>3
  <2>3. k \in issued /\ rows'[k] = Missing
    BY <1>1, <1>2, <1>3 DEF IInv, Typed, Kept
  <2>4. Creates(d)' /\ Deletes(d)' /\ Decided(d)'
    BY <1>1, <1>2, <1>3, <2>3 DEF Creates, Creating, Deletes, Decided
  <2> QED
    BY <1>1, <1>2, <1>3, <2>2, <2>4 DEF Well
<1>7. ASSUME NEW q \in Requests \ {r}, call[q] # Idle, Creating(call[q])
      PROVE  /\ call[q].about.key \notin told'
             /\ d # Idle /\ Creating(d) => call[q].about.key # d.about.key
  BY <1>1, <1>2, <1>3, <1>7, OtherCreations DEF Creating
<1> QED
  BY <1>1, <1>2, <1>4, <1>5, <1>6, <1>7, StepKeeps

LEMMA RemoveHashKeeps == ASSUME IInv, NEW r \in Requests, RemoveHash(r) PROVE IInv'
<1> DEFINE k == call[r].about.key
<1>1. /\ stage \in {"serving", "closing"} /\ call[r] # Idle /\ call[r].at = "unhash"
      /\ call[r].op = "deleteKey" /\ Deletes(call[r])
  BY Active DEF RemoveHash, Asks
<1>2. /\ k \in issued /\ (k \notin Bootstrap => rows[k] = Missing)
      /\ (call[r].known => k \in told)
  BY <1>1 DEF Deletes
<1>3. /\ hashes' = hashes \ {k} /\ Goto(r, "uncache")
      /\ UNCHANGED <<rows, cache, issued, told, retired, stale, userVars, stage>>
  BY DEF RemoveHash
<1>4. /\ rows' \in [Keys -> Lists \cup {Missing}] /\ cache' \in [Keys -> Lists \cup {Missing}]
      /\ hashes' \subseteq issued' /\ retired' \subseteq told' /\ told' \subseteq issued'
      /\ issued' \subseteq Keys
  BY <1>3 DEF IInv, Typed
<1>5. ASSUME NEW j \in Keys PROVE Steady(j) /\ Kept(j)'
  <2>1. Kept(j)
    BY DEF IInv
  <2> QED
    BY <1>2, <1>3, <2>1 DEF Kept, Steady, Loaded, Accepted, Registered, Legacy
<1>6. ASSUME NEW d, d.at = "uncache", d.op = call[r].op, d.about = call[r].about, d.known = call[r].known
      PROVE  Creates(d)' /\ Deletes(d)'
  BY <1>1, <1>2, <1>3, <1>6 DEF Creates, Creating, Deletes
<1>7. ASSUME NEW q \in Requests \ {r}, call[q] # Idle, Creating(call[q])
      PROVE  call[q].about.key \notin told'
  BY <1>3, <1>7, OtherCreations
<1> QED
  BY <1>1, <1>3, <1>4, <1>5, <1>6, <1>7, TableStep

LEMMA RemoveMetaKeeps == ASSUME IInv, NEW r \in Requests, RemoveMeta(r) PROVE IInv'
<1> DEFINE k == call[r].about.key
<1>1. /\ stage \in {"serving", "closing"} /\ call[r] # Idle /\ call[r].at = "uncache"
      /\ call[r].op = "deleteKey" /\ Deletes(call[r])
  BY Active DEF RemoveMeta, Asks
<1>2. /\ cache' = [cache EXCEPT ![k] = Missing] /\ Goto(r, "log")
      /\ UNCHANGED <<rows, hashes, issued, told, retired, stale, userVars, stage>>
  BY DEF RemoveMeta
<1>3. /\ rows' \in [Keys -> Lists \cup {Missing}] /\ cache' \in [Keys -> Lists \cup {Missing}]
      /\ hashes' \subseteq issued' /\ retired' \subseteq told' /\ told' \subseteq issued'
      /\ issued' \subseteq Keys
  BY <1>2 DEF IInv, Typed
<1>4. ASSUME NEW j \in Keys PROVE Steady(j) /\ Kept(j)'
  <2>1. Kept(j) /\ cache'[j] \in {cache[j], Missing}
    BY <1>2 DEF IInv, Typed
  <2> QED
    BY <1>2, <2>1 DEF Kept, Steady, Loaded, Accepted, Registered, Legacy
<1>5. ASSUME NEW d, d.at = "log", d.op = call[r].op, d.about = call[r].about, d.known = call[r].known
      PROVE  Creates(d)' /\ Deletes(d)'
  BY <1>1, <1>2, <1>5 DEF Creates, Creating, Deletes
<1>6. ASSUME NEW q \in Requests \ {r}, call[q] # Idle, Creating(call[q])
      PROVE  call[q].about.key \notin told'
  BY <1>2, <1>6, OtherCreations
<1> QED
  BY <1>1, <1>2, <1>3, <1>4, <1>5, <1>6, TableStep

LEMMA UpdateKeyKeeps == ASSUME IInv, NEW r \in Requests, UpdateKey(r) PROVE IInv'
<1> DEFINE k == call[r].about.key
<1>1. /\ stage \in {"serving", "closing"} /\ call[r] # Idle /\ call[r].at = "handle"
      /\ call[r].op = "updateKey" /\ k \in Keys /\ call[r].about.list \in Lists
  BY Active DEF UpdateKey, Handles, Asks
<1>2. /\ rows' = IF rows[k] = Missing THEN rows ELSE [rows EXCEPT ![k] = call[r].about.list]
      /\ stale' = stale \cup {k} /\ Goto(r, "log")
      /\ UNCHANGED <<hashes, cache, issued, told, retired, userVars, stage>>
  BY DEF UpdateKey, UpdateRow, Row
<1>3. /\ rows' \in [Keys -> Lists \cup {Missing}] /\ cache' \in [Keys -> Lists \cup {Missing}]
      /\ hashes' \subseteq issued' /\ retired' \subseteq told' /\ told' \subseteq issued'
      /\ issued' \subseteq Keys
  BY <1>1, <1>2 DEF IInv, Typed
<1>4. ASSUME NEW j \in Keys PROVE Steady(j) /\ Kept(j)'
  <2>1. /\ Kept(j) /\ (j # k => rows'[j] = rows[j]) /\ (rows'[j] # Missing => rows[j] # Missing)
        /\ (rows[j] = Missing => rows'[j] = Missing)
    BY <1>1, <1>2 DEF IInv, Typed
  <2> QED
    BY <1>2, <2>1 DEF Kept, Steady, Loaded, Accepted, Registered, Legacy
<1>5. ASSUME NEW d, d.at = "log", d.op = call[r].op
      PROVE  Creates(d)' /\ Deletes(d)'
  BY <1>1, <1>5 DEF Creates, Creating, Deletes
<1>6. ASSUME NEW q \in Requests \ {r}, call[q] # Idle, Creating(call[q])
      PROVE  call[q].about.key \notin told'
  BY <1>2, <1>6, OtherCreations
<1> QED
  BY <1>1, <1>2, <1>3, <1>4, <1>5, <1>6, TableStep

LEMMA AnswerKeeps == ASSUME IInv, NEW r \in Requests, Answer(r) PROVE IInv'
<1> DEFINE k == call[r].about.key
           op == call[r].op
<1>1. /\ stage \in {"serving", "closing"} /\ call[r] # Idle /\ call[r].at = "log" /\ Loaded
      /\ Creates(call[r]) /\ Deletes(call[r])
  BY Active DEF Answer
<1>2. op = "createKey" => /\ k \in issued \ told /\ (rows[k] # Missing => k \in hashes)
                          /\ Creating(call[r])
  BY <1>1 DEF Creates, Creating
<1>3. op = "deleteKey" /\ call[r].known
      => k \in told /\ (k \notin Bootstrap => rows[k] = Missing /\ k \notin hashes)
  BY <1>1 DEF Deletes
<1>4. /\ told' = IF op = "createKey" THEN told \cup {k} ELSE told
      /\ retired' = IF op = "deleteKey" /\ call[r].known THEN retired \cup {k} ELSE retired
      /\ call' = [call EXCEPT ![r] = Idle]
      /\ UNCHANGED <<rows, hashes, cache, issued, stale, userVars, stage>>
  BY DEF Answer, End
<1>5. Typed'
  <2>1. call' = [q \in Requests |-> call'[q]]
    BY <1>4, OtherCalls
  <2>2. retired' \subseteq told' /\ told' \subseteq issued'
    BY <1>2, <1>3, <1>4 DEF IInv, Typed
  <2> QED
    BY <1>4, <2>1, <2>2 DEF IInv, Typed, userVars
<1>6. ASSUME NEW j \in Keys PROVE Steady(j) /\ Kept(j)'
  <2>1. Kept(j)
    BY DEF IInv
  <2>2. /\ j \in told' /\ j \notin told => j = k /\ op = "createKey"
        /\ j \in retired' /\ j \notin retired => j = k /\ op = "deleteKey" /\ call[r].known
        /\ told \subseteq told'
    BY <1>4
  <2> HIDE DEF k, op
  <2> QED
    BY <1>2, <1>3, <1>4, <2>1, <2>2 DEF Kept, Steady, Loaded, Accepted, Registered, Legacy
<1>7. Well(Idle)'
  BY DEF Well
<1>8. ASSUME NEW q \in Requests \ {r}, call[q] # Idle, Creating(call[q])
      PROVE  call[q].about.key \notin told'
  BY <1>1, <1>2, <1>4, <1>8, OtherCreations
<1> QED
  BY <1>1, <1>4, <1>5, <1>6, <1>7, <1>8, StepKeeps

-----------------------------------------------------------------------------
(***************************************************************************)
(* The other handlers                                                      *)
(***************************************************************************)
LEMMA UseKeeps == ASSUME IInv, NEW r \in Requests, Use(r) PROVE IInv'
<1> DEFINE about == call[r].about
           seen == Decision(call[r].role, call[r].perms, about.collection, about.action)
<1>0. PICK d : d = IF Allows(call[r].list, about.namespace)
                   THEN [call[r] EXCEPT !.at = "log", !.seen = seen] ELSE Idle
  OBVIOUS
<1>1. /\ stage \in {"serving", "closing"} /\ call[r].at = "handle" /\ call[r].op = "use"
      /\ Asks(call[r]) /\ Admitted(call[r])
  BY Active DEF Use, Handles
<1>2. call' = [call EXCEPT ![r] = d] /\ UNCHANGED <<keyVars, userVars, stage>>
  BY <1>0 DEF Use, Unmoved
<1>3. d # Idle => /\ Whole(d) /\ d.at = "log" /\ d.op = "use" /\ d.about = about
                  /\ d.key = call[r].key /\ d.role = call[r].role /\ d.perms = call[r].perms
                  /\ d.list = call[r].list /\ d.late = call[r].late /\ d.seen = seen
  <2> DEFINE e == [call[r] EXCEPT !.at = "log"]
             f == [call[r] EXCEPT !.at = "log", !.seen = seen]
  <2>1. f = [e EXCEPT !.seen = seen]
    OBVIOUS
  <2>2. Whole(call[r])
    BY <1>1 DEF Asks
  <2>3. /\ Whole(e) /\ e.at = "log" /\ e.op = call[r].op /\ e.about = call[r].about
        /\ e.key = call[r].key /\ e.role = call[r].role /\ e.perms = call[r].perms
        /\ e.list = call[r].list /\ e.late = call[r].late
    BY <2>2, Moved
  <2>4. d # Idle => d = f
    BY <1>0
  <2> HIDE DEF e, f, seen
  <2>5. /\ Whole(f) /\ f.at = e.at /\ f.op = e.op /\ f.about = e.about /\ f.key = e.key
        /\ f.role = e.role /\ f.perms = e.perms /\ f.list = e.list /\ f.late = e.late
        /\ f.seen = seen
    BY <2>1, <2>3 DEF Whole
  <2> QED
    BY <1>1, <2>3, <2>4, <2>5
<1>4. d # Idle => /\ d.at # "idle" /\ ~Creating(d)
                  /\ Asks(d) /\ Admitted(d) /\ Creates(d) /\ Deletes(d) /\ Decided(d)
  <2> SUFFICES ASSUME d # Idle
               PROVE  /\ d.at # "idle" /\ ~Creating(d)
                      /\ Asks(d) /\ Admitted(d) /\ Creates(d) /\ Deletes(d) /\ Decided(d)
    OBVIOUS
  <2>1. Decided(d)
    BY <1>3 DEF Decided
  <2>2. Creates(d) /\ Deletes(d) /\ ~Creating(d) /\ d.at # "idle"
    BY <1>3 DEF Creates, Creating, Deletes
  <2>3. Asks(d) /\ Admitted(d)
    BY <1>1, <1>3 DEF Asks, Admitted
  <2> QED
    BY <2>1, <2>2, <2>3
<1>5. users' \in [Users -> Accounts \cup {Missing}] /\ tokens' \subseteq [sub : Users, role : Roles]
  BY <1>2 DEF IInv, Typed, userVars
<1> QED
  BY <1>1, <1>2, <1>4, <1>5, QuietStep

LEMMA RefuseKeeps ==
    ASSUME IInv, NEW r \in Requests, NEW op, NEW least, Refuse(r, op, least) PROVE IInv'
BY EndKeeps DEF Refuse, Handles, Runs, Unmoved

(* Whatever happens to an account leaves one, or none.                     *)
LEMMA UsersKeep ==
    ASSUME IInv
    PROVE  /\ UNCHANGED users => users' \in [Users -> Accounts \cup {Missing}]
           /\ \A u \in Users, role \in Roles, perms \in Grants \cup {NoGrants} :
                InsertUser(u, role, perms) => users' \in [Users -> Accounts \cup {Missing}]
           /\ \A u : DeleteById(u) => users' \in [Users -> Accounts \cup {Missing}]
           /\ \A u : UpdatePassword(u) => users' \in [Users -> Accounts \cup {Missing}]
           /\ \A u, perms : perms \in Grants /\ UpdatePermissions(u, perms)
                            => users' \in [Users -> Accounts \cup {Missing}]
<1>1. users \in [Users -> Accounts \cup {Missing}]
  BY DEF IInv, Typed
<1>2. \A u \in Users : Exists(u) => users[u] \in Accounts
  BY <1>1 DEF Exists
<1>3. \A u, perms : perms \in Grants /\ UpdatePermissions(u, perms)
                    => users' \in [Users -> Accounts \cup {Missing}]
  <2> SUFFICES ASSUME NEW u, NEW perms \in Grants, UpdatePermissions(u, perms)
               PROVE  users' \in [Users -> Accounts \cup {Missing}]
    OBVIOUS
  <2>1. CASE ~Exists(u)
    BY <1>1, <2>1 DEF UpdatePermissions
  <2>2. CASE Exists(u) /\ u \in Users
    <3>1. [users[u] EXCEPT !.perms = perms] \in Accounts
      BY <1>2, <2>2 DEF Accounts
    <3> QED
      BY <1>1, <2>2, <3>1 DEF UpdatePermissions
  <2>3. CASE u \notin Users
    BY <1>1, <2>3 DEF UpdatePermissions
  <2> QED
    BY <2>1, <2>2, <2>3
<1>4. \A u : UpdatePassword(u) => users' \in [Users -> Accounts \cup {Missing}]
  <2> SUFFICES ASSUME NEW u, UpdatePassword(u) PROVE users' \in [Users -> Accounts \cup {Missing}]
    OBVIOUS
  <2>1. CASE ~Exists(u)
    BY <1>1, <2>1 DEF UpdatePassword
  <2>2. CASE Exists(u) /\ u \in Users
    <3>1. [users[u] EXCEPT !.pass = 1] \in Accounts
      BY <1>2, <2>2 DEF Accounts
    <3> QED
      BY <1>1, <2>2, <3>1 DEF UpdatePassword
  <2>3. CASE u \notin Users
    BY <1>1, <2>3 DEF UpdatePassword
  <2> QED
    BY <2>1, <2>2, <2>3
<1>5. \A u : DeleteById(u) => users' \in [Users -> Accounts \cup {Missing}]
  BY <1>1 DEF DeleteById
<1>6. \A u \in Users, role \in Roles, perms \in Grants \cup {NoGrants} :
         InsertUser(u, role, perms) => users' \in [Users -> Accounts \cup {Missing}]
  BY <1>1 DEF InsertUser, Accounts
<1> QED
  BY <1>1, <1>3, <1>4, <1>5, <1>6

LEMMA UserHandlersKeep ==
    ASSUME IInv, NEW r \in Requests,
           CreateUser(r) \/ DeleteUser(r) \/ SetPassword(r) \/ SetPermissions(r)
    PROVE  IInv'
<1> DEFINE about == call[r].about
<1>1. PICK op \in {"createUser", "deleteUser", "setPassword", "setPermissions"} : UserHandler(r, op)
  BY DEF CreateUser, DeleteUser, SetPassword, SetPermissions
<1>2. /\ stage \in {"serving", "closing"} /\ call[r] # Idle /\ call[r].at = "handle"
      /\ Asks(call[r]) /\ UNCHANGED <<keyVars, tokens, stage>>
      /\ call[r].op \in {"createUser", "deleteUser", "setPassword", "setPermissions"}
  BY <1>1, Active DEF UserHandler, Handles
<1>3. tokens' \subseteq [sub : Users, role : Roles]
  BY <1>2 DEF IInv, Typed
<1>4. ASSUME CreateUser(r), Exists(about.user) PROVE IInv'
  BY <1>2, <1>4, EndKeeps DEF CreateUser, userVars
<1>5. ASSUME CreateUser(r), ~Exists(about.user) PROVE IInv'
  <2>1. call[r].op = "createUser" /\ InsertUser(about.user, about.role, about.perms) /\ Goto(r, "log")
    BY <1>5 DEF CreateUser, UserHandler, Handles
  <2>2. about.user \in Users /\ about.role \in Roles /\ about.perms \in Grants \cup {NoGrants}
    BY <1>2, <2>1 DEF Asks
  <2> QED
    BY <1>2, <1>3, <2>1, <2>2, UsersKeep, GotoKeeps
<1>6. ASSUME DeleteUser(r) PROVE IInv'
  BY <1>2, <1>3, <1>6, UsersKeep, GotoKeeps DEF DeleteUser
<1>7. ASSUME SetPassword(r) PROVE IInv'
  BY <1>2, <1>3, <1>7, UsersKeep, GotoKeeps DEF SetPassword
<1>8. ASSUME SetPermissions(r) PROVE IInv'
  <2>1. /\ call[r].op = "setPermissions" /\ UpdatePermissions(about.user, about.perms)
        /\ Goto(r, "log")
    BY <1>8 DEF SetPermissions, UserHandler, Handles
  <2>2. about.perms \in Grants
    BY <1>2, <2>1 DEF Asks
  <2> QED
    BY <1>2, <1>3, <2>1, <2>2, UsersKeep, GotoKeeps
<1> QED
  BY <1>4, <1>5, <1>6, <1>7, <1>8

LEMMA LoginKeeps ==
    ASSUME IInv, NEW r \in Requests, CheckPassword(r) \/ IssueToken(r) PROVE IInv'
<1>1. ASSUME CheckPassword(r) PROVE IInv'
  <2>1. /\ stage \in {"serving", "closing"} /\ call[r] # Idle /\ call[r].at = "handle"
        /\ call[r].op = "login"
    BY <1>1, Active DEF CheckPassword, Handles
  <2>2. PICK s \in {"role", "log"} : Goto(r, s)
    BY <1>1 DEF CheckPassword
  <2>3. UNCHANGED <<keyVars, userVars, stage>>
    BY <1>1 DEF CheckPassword, Unmoved
  <2>4. users' \in [Users -> Accounts \cup {Missing}] /\ tokens' \subseteq [sub : Users, role : Roles]
    BY <2>3 DEF IInv, Typed, userVars
  <2> QED
    BY <2>1, <2>2, <2>3, <2>4, GotoKeeps
<1>2. ASSUME IssueToken(r) PROVE IInv'
  <2>1. /\ stage \in {"serving", "closing"} /\ call[r] # Idle /\ call[r].at = "role"
        /\ call[r].op = "login" /\ call[r].about.user \in Users
    BY <1>2, Active DEF IssueToken, Asks
  <2>2. /\ Goto(r, "log") /\ UNCHANGED <<keyVars, users, stage>>
        /\ tokens' = tokens \cup {[sub |-> call[r].about.user, role |-> RoleOf(call[r].about.user)]}
    BY <1>2 DEF IssueToken
  <2>3. RoleOf(call[r].about.user) \in Roles
    BY <2>1 DEF RoleOf, Exists, Roles, Accounts, IInv, Typed
  <2>4. users' \in [Users -> Accounts \cup {Missing}] /\ tokens' \subseteq [sub : Users, role : Roles]
    BY <2>1, <2>2, <2>3 DEF IInv, Typed
  <2> QED
    BY <2>1, <2>2, <2>4, GotoKeeps
<1> QED
  BY <1>1, <1>2

LEMMA ProxyKeeps ==
    ASSUME IInv, NEW r \in Requests,
           \/ PutCredential(r) \/ DeleteCredential(r)
           \/ Resolve(r) \/ ProviderAnswers(r) \/ ClientGoes(r)
    PROVE  IInv'
<1>1. UNCHANGED <<keyVars, userVars, stage>>
  BY DEF PutCredential, DeleteCredential, Credential, Resolve, ProviderAnswers, ClientGoes, Unmoved
<1>2. users' \in [Users -> Accounts \cup {Missing}] /\ tokens' \subseteq [sub : Users, role : Roles]
  BY <1>1 DEF IInv, Typed, userVars
<1>3. PICK s \in {"handle", "upstream"} : Runs(r, s)
  BY DEF PutCredential, DeleteCredential, Credential, Resolve, ProviderAnswers, ClientGoes, Handles
<1>4. /\ stage \in {"serving", "closing"} /\ call[r] # Idle /\ call[r].at \in {"handle", "upstream"}
      /\ Asks(call[r])
  BY <1>3, Active
<1>5. CASE End(r)
  BY <1>1, <1>4, <1>5, EndKeeps
<1>6. CASE Goto(r, "upstream") /\ call[r].op = "complete"
  BY <1>1, <1>2, <1>4, <1>6, GotoKeeps
<1>7. CASE Goto(r, "log") /\ call[r].op \in {"putCredential", "deleteCredential", "complete"}
  BY <1>1, <1>2, <1>4, <1>7, GotoKeeps
<1>8. call[r].at = "upstream" => call[r].op = "complete"
  BY <1>4 DEF Asks
<1> QED
  BY <1>5, <1>6, <1>7, <1>8
  DEF PutCredential, DeleteCredential, Credential, Resolve, ProviderAnswers, ClientGoes, Handles, Runs

LEMMA HandlerKeeps == ASSUME IInv, NEW r \in Requests, Handler(r) PROVE IInv'
BY LookUpKeeps, FetchKeeps, FillKeeps, UseKeeps, RefuseKeeps, CreateKeyKeeps, InsertHashKeeps,
   InsertMetaKeeps, DeleteKeyKeeps, RemoveHashKeeps, RemoveMetaKeeps, UpdateKeyKeeps,
   UserHandlersKeep, LoginKeeps, ProxyKeeps, AnswerKeeps
DEF Handler

-----------------------------------------------------------------------------
(***************************************************************************)
(* The server                                                              *)
(***************************************************************************)
LEMMA NoRequests == IInv /\ stage \notin {"serving", "closing"} => \A r \in Requests : call[r] = Idle
BY DEF IInv, Well

LEMMA WellIdle ==
    ASSUME \A r \in Requests : call'[r] = Idle
    PROVE  (\A r \in Requests : Well(call[r])') /\ OneCreator'
BY DEF Well, OneCreator

(* A step of the server that leaves the keys and the requests alone.       *)
LEMMA ServerStep ==
    ASSUME IInv, UNCHANGED <<keyVars, call>>,
           stage' \in {"migrate", "keys", "users", "default", "serving", "closing"},
           Loaded' => Loaded, stage' \in {"serving", "closing"} \/ stage \notin {"serving", "closing"},
           users' \in [Users -> Accounts \cup {Missing}], tokens' \subseteq [sub : Users, role : Roles],
           Rooted'
    PROVE  IInv'
<1>1. Typed'
  BY DEF IInv, Typed, keyVars
<1>2. \A k \in Keys : Kept(k)'
  BY DEF IInv, Kept, keyVars, Accepted, Registered, Legacy
<1>3. ASSUME NEW r \in Requests PROVE Well(call[r])'
  <2>1. Well(call[r])
    BY DEF IInv
  <2>2. CASE call[r] = Idle
    BY <2>2 DEF Well
  <2>3. CASE call[r] # Idle
    BY <2>1, <2>3 DEF Well, Asks, Whole, Admitted, Creates, Creating, Deletes, Decided, keyVars
  <2> QED
    BY <2>2, <2>3
<1>4. OneCreator'
  BY DEF IInv, OneCreator, Creating
<1> QED
  BY <1>1, <1>2, <1>3, <1>4 DEF IInv

LEMMA LoadKeysKeeps == ASSUME IInv, LoadKeys PROVE IInv'
<1>1. /\ rows' = [k \in Keys |-> IF k \in Bootstrap /\ rows[k] = Missing THEN {} ELSE rows[k]]
      /\ issued' = issued \cup Bootstrap /\ hashes' = {k \in Keys : rows'[k] # Missing}
      /\ cache' = rows' /\ stage = "keys" /\ stage' = "users" /\ stale' = {}
      /\ UNCHANGED <<told, retired, users, tokens, call>>
  BY DEF LoadKeys, InsertBootstrap, ReloadHashes, userVars
<1>2. \A k \in Keys : Kept(k)
  BY DEF IInv
<1>3. Typed'
  BY <1>1, <1>2 DEF IInv, Typed, Kept, Lists
<1>4. ASSUME NEW k \in Keys PROVE Kept(k)'
  BY <1>1, <1>2 DEF Kept, Loaded, Accepted, Registered, Legacy
<1>5. Rooted'
  BY <1>1 DEF Rooted
<1>6. (\A r \in Requests : Well(call[r])') /\ OneCreator'
  BY <1>1, NoRequests, WellIdle
<1> QED
  BY <1>3, <1>4, <1>5, <1>6 DEF IInv

LEMMA StartKeeps == ASSUME IInv, Start PROVE IInv'
<1>1. ASSUME Migrate PROVE IInv'
  <2>1. /\ stage = "migrate" /\ stage' \in {"migrate", "keys"}
        /\ UNCHANGED <<keyVars, call, users, tokens>>
    BY <1>1 DEF Migrate, Apply, userVars
  <2>2. Rooted'
    BY <2>1 DEF Rooted
  <2>3. users' \in [Users -> Accounts \cup {Missing}] /\ tokens' \subseteq [sub : Users, role : Roles]
    BY <2>1 DEF IInv, Typed
  <2> QED
    BY <2>1, <2>2, <2>3, ServerStep DEF Loaded
<1>2. ASSUME PromoteRoot PROVE IInv'
  <2>1. /\ stage = "users" /\ stage' = "default" /\ UNCHANGED <<keyVars, call, tokens>>
        /\ users' = IF Exists(Root) THEN [users EXCEPT ![Root].role = "admin"] ELSE users
    BY <1>2 DEF PromoteRoot
  <2>2. users \in [Users -> Accounts \cup {Missing}] /\ tokens' \subseteq [sub : Users, role : Roles]
    BY <2>1 DEF IInv, Typed
  <2>3. Exists(Root) => /\ [users[Root] EXCEPT !.role = "admin"] \in Accounts
                        /\ [users[Root] EXCEPT !.role = "admin"].role = "admin"
    BY <2>2 DEF Exists, Accounts, Roles
  <2>4. users' \in [Users -> Accounts \cup {Missing}] /\ Rooted'
    BY <2>1, <2>2, <2>3 DEF Rooted, Exists
  <2> QED
    BY <2>1, <2>2, <2>4, ServerStep DEF Loaded
<1>3. ASSUME EnsureRoot PROVE IInv'
  <2>1. /\ stage = "default" /\ stage' = "serving" /\ UNCHANGED <<keyVars, call, tokens>>
        /\ UNCHANGED users \/ InsertUser(Root, "admin", NoGrants)
    BY <1>3 DEF EnsureRoot
  <2>2. users' \in [Users -> Accounts \cup {Missing}] /\ tokens' \subseteq [sub : Users, role : Roles]
    BY <2>1, UsersKeep DEF IInv, Typed, Roles
  <2>3. Rooted'
    BY <2>1 DEF Rooted
  <2> QED
    BY <2>1, <2>2, <2>3, ServerStep DEF Loaded
<1> QED
  BY <1>1, <1>2, <1>3, LoadKeysKeeps DEF Start

LEMMA DownKeeps == ASSUME IInv, Down PROVE IInv'
<1>1. /\ stage' = "migrate" /\ hashes' = {} /\ cache' = [k \in Keys |-> Missing]
      /\ call' = [r \in Requests |-> Idle] /\ stale' = {}
      /\ UNCHANGED <<rows, issued, told, retired, users, tokens>>
  BY DEF Down, userVars
<1>2. Typed'
  BY <1>1 DEF IInv, Typed
<1>3. \A k \in Keys : Kept(k)'
  BY <1>1 DEF IInv, Kept, Loaded, Accepted, Registered
<1>4. (\A r \in Requests : Well(call[r])') /\ OneCreator'
  BY <1>1, WellIdle
<1>5. Rooted'
  BY <1>1 DEF Rooted
<1> QED
  BY <1>2, <1>3, <1>4, <1>5 DEF IInv

LEMMA InitHolds == Init => IInv
<1> SUFFICES ASSUME Init PROVE IInv
  OBVIOUS
<1>1. Typed
  BY DEF Init, Typed
<1>2. \A k \in Keys : Kept(k)
  BY DEF Init, Kept, Loaded
<1>3. (\A r \in Requests : Well(call[r])) /\ OneCreator /\ Rooted
  BY DEF Init, Well, OneCreator, Rooted
<1> QED
  BY <1>1, <1>2, <1>3 DEF IInv

LEMMA NextKeeps == IInv /\ [Next]_vars => IInv'
<1> SUFFICES ASSUME IInv, [Next]_vars PROVE IInv'
  OBVIOUS
<1>1. ASSUME UNCHANGED <<keyVars, users, call, stage>>, tokens' \subseteq [sub : Users, role : Roles]
      PROVE  IInv'
  <2>1. users' \in [Users -> Accounts \cup {Missing}] /\ Rooted' /\ (Loaded' => Loaded)
    BY <1>1 DEF IInv, Typed, Rooted, Exists, Loaded
  <2>2. /\ stage' \in {"migrate", "keys", "users", "default", "serving", "closing"}
        /\ stage' \in {"serving", "closing"} \/ stage \notin {"serving", "closing"}
    BY <1>1 DEF IInv, Typed
  <2> QED
    BY <1>1, <2>1, <2>2, ServerStep
<1>2. CASE UNCHANGED vars
  BY <1>1, <1>2 DEF vars, userVars, IInv, Typed
<1>3. CASE Shutdown
  <2>1. stage = "serving" /\ stage' = "closing" /\ UNCHANGED <<keyVars, users, tokens, call>>
    BY <1>3 DEF Shutdown, Serving, userVars
  <2>2. users' \in [Users -> Accounts \cup {Missing}] /\ tokens' \subseteq [sub : Users, role : Roles]
    BY <2>1 DEF IInv, Typed
  <2> QED
    BY <2>1, <2>2, ServerStep DEF Loaded, Rooted
<1>4. CASE Crash \/ Exit
  BY <1>4, DownKeeps DEF Crash, Exit
<1>5. CASE TokenExpires \/ Audit
  BY <1>1, <1>5 DEF TokenExpires, Audit, userVars, IInv, Typed
<1> QED
  BY <1>2, <1>3, <1>4, <1>5, StartKeeps, ArrivalKeeps, HandlerKeeps DEF Next

(* The inductive invariant holds in every reachable state, for any keys,   *)
(* users, requests and workloads.                                          *)
THEOREM Invariance == Spec => []IInv
BY InitHolds, NextKeeps, PTL DEF Spec

-----------------------------------------------------------------------------
(***************************************************************************)
(* Keys, namespaces, permissions, administrators                           *)
(***************************************************************************)
(* A key is admitted from the answer to its creation to its deletion, and  *)
(* a request that comes after the answer to that one is not, however the   *)
(* steps of both meet others and restarts (create_key, delete_key, init).  *)
THEOREM KeysAreHonoured == Spec => []KeysHonoured
<1>1. IInv => KeysHonoured
  <2> SUFFICES ASSUME IInv PROVE KeysHonoured
    OBVIOUS
  <2>1. ASSUME Serving, NEW k \in told, rows[k] # Missing PROVE Accepted(k)
    BY <2>1 DEF IInv, Typed, Kept, Serving, Loaded
  <2>2. ASSUME NEW r \in Requests, call[r].at # "idle", call[r].late PROVE call[r].key \in Bootstrap
    BY <2>2, IsIdle DEF IInv, Well, Admitted
  <2> QED
    BY <2>1, <2>2 DEF KeysHonoured
<1> QED
  BY <1>1, Invariance, PTL

(* A request gets the namespaces in the row of its key, wherever it found  *)
(* them, unless the row was changed or went meanwhile (get_meta_global).   *)
THEOREM ListsAreGranted == Spec => []GrantedAsStored
<1>1. IInv => GrantedAsStored
  BY IsIdle DEF IInv, Well, Admitted, GrantedAsStored
<1> QED
  BY <1>1, Invariance, PTL

Matching(perms, on, action) == {i \in DOMAIN perms : perms[i].on = on /\ action \in perms[i].actions}

LEMMA FirstIsMatch ==
    ASSUME NEW S, NEW perms \in Seq(S), NEW on, NEW action
    PROVE  /\ First(perms, on, action) \subseteq Matching(perms, on, action)
           /\ Matching(perms, on, action) # {} => First(perms, on, action) # {}
<1>1. First(perms, on, action) \subseteq Matching(perms, on, action)
  BY DEF First, Matching
<1>2. ASSUME Matching(perms, on, action) # {} PROVE First(perms, on, action) # {}
  <2>1. Len(perms) \in Nat /\ DOMAIN perms = 1..Len(perms)
    OBVIOUS
  <2>2. Matching(perms, on, action) \subseteq Nat
    BY <2>1 DEF Matching
  <2>3. PICK i \in Matching(perms, on, action) : \A j \in Matching(perms, on, action) : i <= j
    BY <1>2, <2>2, LeastNatural
  <2>4. i \in DOMAIN perms /\ perms[i].on = on /\ action \in perms[i].actions
    BY <2>3 DEF Matching
  <2>5. ASSUME NEW j \in 1..(i - 1) PROVE ~(perms[j].on = on /\ action \in perms[j].actions)
    <3>1. j \in DOMAIN perms /\ ~(i <= j)
      BY <2>1, <2>4
    <3> QED
      BY <2>3, <3>1 DEF Matching
  <2> QED
    BY <2>4, <2>5 DEF First
<1> QED
  BY <1>1, <1>2

(* The verdict is that of an entry that grants it, one for the collection  *)
(* itself if there is any.                                                 *)
LEMMA CheckIsAsPermitted ==
    ASSUME NEW perms \in Grants, NEW collection, NEW action
    PROVE  LET granting == {e \in ToSet(perms) : action \in e.actions /\ e.on \in {collection, "all"}}
               exact == {e \in granting : e.on = collection}
           IN  IF granting = {} THEN CheckPermission(perms, collection, action) = "denied"
               ELSE \E e \in granting : /\ CheckPermission(perms, collection, action) = e.only
                                        /\ exact # {} => e \in exact
<1> DEFINE granting == {e \in ToSet(perms) : action \in e.actions /\ e.on \in {collection, "all"}}
           exact == {e \in granting : e.on = collection}
           own == First(perms, collection, action)
           any == First(perms, "all", action)
           match == IF own # {} THEN own ELSE any
<1>1. perms \in Seq(ToSet(perms))
  OBVIOUS
<1>2. /\ own \subseteq Matching(perms, collection, action)
      /\ Matching(perms, collection, action) # {} => own # {}
      /\ any \subseteq Matching(perms, "all", action)
      /\ Matching(perms, "all", action) # {} => any # {}
  BY <1>1, FirstIsMatch
<1>3. \A e \in granting : /\ e \in exact => Matching(perms, collection, action) # {}
                          /\ e \notin exact => Matching(perms, "all", action) # {}
  BY DEF ToSet, Matching
<1>4. \A i \in Matching(perms, collection, action) : perms[i] \in exact /\ perms[i] \in granting
  BY DEF ToSet, Matching
<1>5. \A i \in Matching(perms, "all", action) : perms[i] \in granting
  BY DEF ToSet, Matching
<1>6. CheckPermission(perms, collection, action)
      = IF match = {} THEN "denied" ELSE perms[CHOOSE i \in match : TRUE].only
  BY DEF CheckPermission
<1>7. exact \subseteq granting
  OBVIOUS
<1> HIDE DEF own, any, granting, exact
<1>8. IF granting = {} THEN CheckPermission(perms, collection, action) = "denied"
      ELSE \E e \in granting : /\ CheckPermission(perms, collection, action) = e.only
                               /\ exact # {} => e \in exact
  <2>1. CASE match = {}
    <3>1. granting = {}
      BY <1>2, <1>3, <2>1
    <3> QED
      BY <1>6, <2>1, <3>1
  <2>2. CASE match # {}
    <3>1. PICK i : i \in match /\ CheckPermission(perms, collection, action) = perms[i].only
      <4>1. (CHOOSE i \in match : TRUE) \in match
        BY <2>2
      <4> QED
        BY <1>6, <2>2, <4>1
    <3>2. perms[i] \in granting
      BY <1>2, <1>4, <1>5, <3>1
    <3>3. ASSUME exact # {} PROVE perms[i] \in exact
      <4>1. own # {}
        BY <1>2, <1>3, <1>7, <3>3
      <4> QED
        BY <1>2, <1>4, <3>1, <4>1
    <3> QED
      BY <3>1, <3>2, <3>3
  <2> QED
    BY <2>1, <2>2
<1> QED
  BY <1>8 DEF granting, exact

(* A user with permissions may do what they say, whatever their order:     *)
(* under the restriction of an entry for the collection if one grants it   *)
(* (check_user_permission, check_permission).                              *)
THEOREM PermissionsDecide == Spec => []AsPermitted
<1>1. IInv => AsPermitted
  <2> SUFFICES ASSUME IInv, NEW r \in Requests,
                      call[r].at = "log", call[r].op = "use", call[r].role # "admin",
                      call[r].perms # NoGrants
               PROVE  LET about == call[r].about
                          granting == {e \in ToSet(call[r].perms) :
                                         about.action \in e.actions /\ e.on \in {about.collection, "all"}}
                          exact == {e \in granting : e.on = about.collection}
                      IN  IF granting = {} THEN call[r].seen = "denied"
                          ELSE \E e \in granting : /\ call[r].seen = e.only
                                                   /\ exact # {} => e \in exact
    BY DEF AsPermitted
  <2>1. Asks(call[r]) /\ Decided(call[r])
    BY IsIdle DEF IInv, Well
  <2>2. /\ call[r].perms \in Grants
        /\ call[r].seen = CheckPermission(call[r].perms, call[r].about.collection, call[r].about.action)
    BY <2>1 DEF Asks, Decided, Decision
  <2> QED
    BY <2>2, CheckIsAsPermitted
<1> QED
  BY <1>1, Invariance, PTL

(* A server that has started has an administrator named root, whatever     *)
(* became of that name before (UserStore::new, ensure_default_user).       *)
THEOREM RootIsAdmin == Spec => StartsWithAdmin
<1>1. IInv /\ [Next]_vars =>
      [stage = "default" /\ Serving' => users'[Root] # Missing /\ users'[Root].role = "admin"]_stage
  <2> SUFFICES ASSUME IInv, [Next]_vars, stage = "default", stage' = "serving"
               PROVE  users'[Root] # Missing /\ users'[Root].role = "admin"
    BY DEF Serving
  <2>1. \A r \in Requests : ~Arrival(r) /\ ~Handler(r)
    BY DEF Arrival, ArriveWithKey, ArriveWithToken, ArriveToLogin, Arrive, Serving, Handler,
       LookUp, Fetch, Fill, Use, Refuse, CreateKey, InsertHash, InsertMeta, DeleteKey, RemoveHash,
       RemoveMeta, UpdateKey, CreateUser, DeleteUser, SetPassword, SetPermissions, UserHandler,
       CheckPassword, IssueToken, PutCredential, DeleteCredential, Credential, Resolve,
       ProviderAnswers, ClientGoes, Answer, Handles, Runs
  <2>2. EnsureRoot
    BY <2>1 DEF Next, Start, Migrate, Apply, LoadKeys, PromoteRoot, Crash, Down, Shutdown, Serving, Exit,
       TokenExpires, Audit, vars
  <2>3. users \in [Users -> Accounts \cup {Missing}] /\ Rooted
    BY DEF IInv, Typed
  <2>4. CASE Exists(Root)
    BY <2>2, <2>3, <2>4 DEF EnsureRoot, Rooted, Exists
  <2>5. CASE ~Exists(Root)
    <3>1. users'[Root] = [role |-> "admin", perms |-> NoGrants, pass |-> 0]
      BY <2>2, <2>3, <2>5 DEF EnsureRoot, InsertUser
    <3>2. [role |-> "admin", perms |-> NoGrants, pass |-> 0] \in Accounts
      BY DEF Accounts, Roles
    <3> QED
      BY <3>1, <3>2
  <2> QED
    BY <2>4, <2>5
<1> QED
  BY <1>1, Invariance, PTL DEF Spec, StartsWithAdmin

HIDE AccessControlAssumption
USE AuditTrailAssumption

-----------------------------------------------------------------------------
(***************************************************************************)
(* The audit trail                                                         *)
(***************************************************************************)
Lines == Nat \cup {Junk}
Sorted(lines) ==
    \A i, j \in DOMAIN lines : i < j /\ lines[i] # Junk /\ lines[j] # Junk => lines[i] < lines[j]
Before(first, second) == \A m \in Entries(first), n \in Entries(second) : m < n

AuditTyped ==
    /\ day \in Days /\ logged \in Seq(Days)
    /\ accepted \subseteq Nat
    /\ queue \in Seq(Lines) /\ buffer \in Seq(Lines)
    /\ sender \in BOOLEAN
    /\ writer \in {"loop", "open", "write", "ended"}
    /\ current \in Days \cup {Never}
    /\ files \in [Days -> Seq(Lines)]
    /\ ragged \subseteq Days
    /\ failures \in Nat

(* In the order they were logged: the files, the buffer, the channel.      *)
InOrder ==
    /\ Sorted(buffer) /\ Sorted(queue) /\ Before(buffer, queue)
    /\ \A n \in Entries(buffer) \cup Entries(queue) : n \in 1..Len(logged)
    /\ \A d \in Days :
          /\ Sorted(files[d]) /\ Before(files[d], buffer) /\ Before(files[d], queue)
          /\ Entries(files[d]) \subseteq 1..Len(logged)
          /\ \A e \in Days : d < e => Before(files[d], files[e])

(* A file has no entry of a later day, and none is written before its day. *)
InTheirDays ==
    /\ \A n \in DOMAIN logged : logged[n] <= day
    /\ \A d \in Days : (\A n \in Entries(files[d]) : logged[n] <= d) /\ (d > day => files[d] = <<>>)
    /\ writer = "write" =>
          /\ current \in Days /\ current <= day
          /\ \A n \in Entries(buffer) : logged[n] <= current
          /\ \A d \in Days : d > current => files[d] = <<>>

OnFile == UNION {Entries(files[d]) : d \in Days}

Lost ==
    /\ failures = 0 => ragged = {} /\ accepted = OnFile \cup Entries(buffer) \cup Entries(queue)
    /\ writer = "ended" => buffer = <<>> /\ queue = <<>> /\ ~sender
    /\ \A d \in ragged : files[d] # <<>>

AuditInv == AuditTyped /\ InOrder /\ InTheirDays /\ Lost

-----------------------------------------------------------------------------
(* Sequences of lines. *)
LEMMA EntriesAt ==
    ASSUME NEW s \in Seq(Lines)
    PROVE  /\ \A x : x \in Entries(s) <=> x # Junk /\ \E i \in 1..Len(s) : s[i] = x
           /\ Entries(s) \subseteq Nat
           /\ Len(s) \in Nat /\ DOMAIN s = 1..Len(s)
           /\ \A i \in 1..Len(s) : s[i] \in Lines
<1>1. Len(s) \in Nat /\ DOMAIN s = 1..Len(s) /\ \A i \in 1..Len(s) : s[i] \in Lines
  OBVIOUS
<1>2. \A x : x \in Entries(s) <=> x # Junk /\ \E i \in 1..Len(s) : s[i] = x
  BY <1>1 DEF Entries, ToSet
<1> QED
  BY <1>1, <1>2 DEF Lines

LEMMA SmallSequences ==
    /\ <<>> \in Seq(Lines) /\ Entries(<<>>) = {} /\ Sorted(<<>>)
    /\ \A x \in Lines : <<x>> \in Seq(Lines) /\ Entries(<<x>>) = {x} \ {Junk} /\ Sorted(<<x>>)
BY DEF Entries, ToSet, Sorted

LEMMA Concat ==
    ASSUME NEW s \in Seq(Lines), NEW t \in Seq(Lines)
    PROVE  /\ s \o t \in Seq(Lines)
           /\ Entries(s \o t) = Entries(s) \cup Entries(t)
           /\ Sorted(s) /\ Sorted(t) /\ Before(s, t) => Sorted(s \o t)
<1> DEFINE u == s \o t
<1>1. /\ u \in Seq(Lines) /\ Len(u) = Len(s) + Len(t)
      /\ \A i \in 1..Len(u) : u[i] = IF i <= Len(s) THEN s[i] ELSE t[i - Len(s)]
  OBVIOUS
<1> HIDE DEF u
<1>2. Entries(u) = Entries(s) \cup Entries(t)
  <2>1. ASSUME NEW x \in Entries(u) PROVE x \in Entries(s) \cup Entries(t)
    <3>1. PICK i \in 1..Len(u) : u[i] = x /\ x # Junk
      BY <1>1, EntriesAt
    <3>2. CASE i <= Len(s)
      <4>1. i \in 1..Len(s) /\ s[i] = x
        BY <1>1, <3>1, <3>2
      <4> QED
        BY <3>1, <4>1, EntriesAt
    <3>3. CASE i > Len(s)
      <4>1. i - Len(s) \in 1..Len(t) /\ t[i - Len(s)] = x
        BY <1>1, <3>1, <3>3, EntriesAt
      <4> QED
        BY <3>1, <4>1, EntriesAt
    <3> QED
      BY <3>2, <3>3, <1>1, EntriesAt
  <2>2. ASSUME NEW x \in Entries(s) PROVE x \in Entries(u)
    <3>1. PICK i \in 1..Len(s) : s[i] = x /\ x # Junk
      BY EntriesAt
    <3>2. i \in 1..Len(u) /\ u[i] = x
      BY <1>1, <3>1, EntriesAt
    <3> QED
      BY <1>1, <3>1, <3>2, EntriesAt
  <2>3. ASSUME NEW x \in Entries(t) PROVE x \in Entries(u)
    <3>1. PICK i \in 1..Len(t) : t[i] = x /\ x # Junk
      BY EntriesAt
    <3>2. i + Len(s) \in 1..Len(u) /\ ~(i + Len(s) <= Len(s)) /\ (i + Len(s)) - Len(s) = i
      BY <1>1, EntriesAt
    <3>3. u[i + Len(s)] = x
      BY <1>1, <3>1, <3>2
    <3> QED
      BY <1>1, <3>1, <3>2, <3>3, EntriesAt
  <2> QED
    BY <2>1, <2>2, <2>3
<1>3. ASSUME Sorted(s), Sorted(t), Before(s, t) PROVE Sorted(u)
  <2> SUFFICES ASSUME NEW i \in 1..Len(u), NEW j \in 1..Len(u), i < j, u[i] # Junk, u[j] # Junk
               PROVE  u[i] < u[j]
    BY <1>1, EntriesAt DEF Sorted
  <2>1. CASE j <= Len(s)
    <3>1. i \in DOMAIN s /\ j \in DOMAIN s /\ u[i] = s[i] /\ u[j] = s[j]
      BY <1>1, <2>1, EntriesAt
    <3> QED
      BY <1>3, <3>1 DEF Sorted
  <2>2. CASE i > Len(s)
    <3>1. /\ i - Len(s) \in DOMAIN t /\ j - Len(s) \in DOMAIN t /\ i - Len(s) < j - Len(s)
          /\ u[i] = t[i - Len(s)] /\ u[j] = t[j - Len(s)]
      BY <1>1, <2>2, EntriesAt
    <3> QED
      BY <1>3, <3>1 DEF Sorted
  <2>3. CASE i <= Len(s) /\ j > Len(s)
    <3>1. i \in 1..Len(s) /\ u[i] = s[i] /\ j - Len(s) \in 1..Len(t) /\ u[j] = t[j - Len(s)]
      BY <1>1, <2>3, EntriesAt
    <3>2. u[i] \in Entries(s) /\ u[j] \in Entries(t)
      BY <3>1, EntriesAt
    <3> QED
      BY <1>3, <3>2 DEF Before
  <2> QED
    BY <1>1, <2>1, <2>2, <2>3, EntriesAt
<1> QED
  BY <1>1, <1>2, <1>3 DEF u

LEMMA Taken ==
    ASSUME NEW s \in Seq(Lines), NEW k \in 0..Len(s)
    PROVE  LET u == SubSeq(s, 1, k) IN
           /\ u \in Seq(Lines) /\ Entries(u) \subseteq Entries(s) /\ (Sorted(s) => Sorted(u))
           /\ \A n \in Entries(u) : \E i \in 1..k : s[i] = n
<1> DEFINE u == SubSeq(s, 1, k)
<1>1. k \in Nat /\ \A i \in 1..k : i \in 1..Len(s) /\ s[i] \in Lines
  BY EntriesAt
<1>2. u \in Seq(Lines) /\ Len(u) = k /\ \A i \in 1..k : u[i] = s[i]
  BY <1>1, SubSeqProperties
<1> HIDE DEF u
<1>3. \A n \in Entries(u) : n # Junk /\ \E i \in 1..k : s[i] = n
  BY <1>2, EntriesAt
<1>4. Entries(u) \subseteq Entries(s)
  BY <1>1, <1>3, EntriesAt
<1>5. Sorted(s) => Sorted(u)
  BY <1>1, <1>2, EntriesAt DEF Sorted
<1> QED
  BY <1>2, <1>3, <1>4, <1>5 DEF u

LEMMA Rest ==
    ASSUME NEW s \in Seq(Lines), s # <<>>
    PROVE  /\ Tail(s) \in Seq(Lines) /\ Head(s) \in Lines
           /\ Entries(s) = ({Head(s)} \ {Junk}) \cup Entries(Tail(s))
           /\ Sorted(s) => Sorted(Tail(s)) /\ (Head(s) # Junk => \A n \in Entries(Tail(s)) : Head(s) < n)
<1> DEFINE u == Tail(s)
<1>1. /\ Len(s) \in Nat \ {0} /\ Head(s) = s[1]
      /\ u \in Seq(Lines) /\ Len(u) = Len(s) - 1 /\ \A i \in 1..Len(u) : u[i] = s[i + 1]
  OBVIOUS
<1> HIDE DEF u
<1>2. s[1] \in Lines /\ 1 \in 1..Len(s)
  BY <1>1, EntriesAt
<1>3. \A n \in Entries(u) : n # Junk /\ \E i \in 2..Len(s) : s[i] = n
  <2> SUFFICES ASSUME NEW n \in Entries(u) PROVE n # Junk /\ \E i \in 2..Len(s) : s[i] = n
    OBVIOUS
  <2>1. PICK i \in 1..Len(u) : u[i] = n /\ n # Junk
    BY <1>1, EntriesAt
  <2>2. i + 1 \in 2..Len(s) /\ s[i + 1] = n
    BY <1>1, <2>1
  <2> QED
    BY <2>1, <2>2
<1>4. Entries(s) = ({s[1]} \ {Junk}) \cup Entries(u)
  <2>1. ASSUME NEW n \in Entries(s), n # s[1] PROVE n \in Entries(u)
    <3>1. PICK i \in 1..Len(s) : s[i] = n /\ n # Junk
      BY EntriesAt
    <3>2. i - 1 \in 1..Len(u) /\ (i - 1) + 1 = i
      BY <1>1, <2>1, <3>1
    <3>3. u[i - 1] = n
      BY <1>1, <3>1, <3>2
    <3> QED
      BY <1>1, <3>1, <3>2, <3>3, EntriesAt
  <2>2. \A n \in Entries(u) : n \in Entries(s)
    BY <1>1, <1>3, EntriesAt
  <2> QED
    BY <1>2, <2>1, <2>2, EntriesAt
<1>5. ASSUME Sorted(s) PROVE Sorted(u) /\ (s[1] # Junk => \A n \in Entries(u) : s[1] < n)
  <2>1. Sorted(u)
    <3> SUFFICES ASSUME NEW i \in 1..Len(u), NEW j \in 1..Len(u), i < j, u[i] # Junk, u[j] # Junk
                 PROVE  u[i] < u[j]
      BY <1>1, EntriesAt DEF Sorted
    <3>1. i + 1 \in DOMAIN s /\ j + 1 \in DOMAIN s /\ i + 1 < j + 1 /\ u[i] = s[i + 1] /\ u[j] = s[j + 1]
      BY <1>1, EntriesAt
    <3> QED
      BY <1>5, <3>1 DEF Sorted
  <2>2. ASSUME NEW n \in Entries(u), s[1] # Junk PROVE s[1] < n
    <3>1. PICK i \in 2..Len(s) : s[i] = n /\ n # Junk
      BY <1>3
    <3>2. 1 \in DOMAIN s /\ i \in DOMAIN s /\ 1 < i
      BY <1>1, EntriesAt
    <3> QED
      BY <1>5, <2>2, <3>1, <3>2 DEF Sorted
  <2> QED
    BY <2>1, <2>2
<1> QED
  BY <1>1, <1>2, <1>4, <1>5 DEF u

(* What appending a text to a file does to its entries. *)
LEMMA AppendedFacts ==
    ASSUME NEW s \in Seq(Lines), NEW t \in Seq(Lines), NEW unended \in BOOLEAN,
           Sorted(s), Sorted(t), Before(s, t), unended => s # <<>>
    PROVE  LET u == Appended(s, unended, t) IN
           /\ u \in Seq(Lines) /\ Sorted(u)
           /\ Entries(u) \subseteq Entries(s) \cup Entries(t)
           /\ ~unended => Entries(u) = Entries(s) \cup Entries(t)
           /\ s # <<>> \/ t # <<>> => u # <<>>
<1>1. CASE unended /\ t # <<>>
  <2> DEFINE f == Front(s)
  <2>0. PICK j : j = <<Junk>>
    OBVIOUS
  <2> DEFINE g == f \o j
  <2>1. f = SubSeq(s, 1, Len(s) - 1) /\ Len(s) - 1 \in 0..Len(s)
    BY <1>1, EntriesAt DEF Front
  <2>2. f \in Seq(Lines) /\ Entries(f) \subseteq Entries(s) /\ Sorted(f)
    BY <2>1, Taken
  <2>3. Junk \in Lines
    BY DEF Lines
  <2> HIDE DEF f
  <2>4. j \in Seq(Lines) /\ Entries(j) = {} /\ Sorted(j) /\ Len(j) = 1
    BY <2>0, <2>3, SmallSequences
  <2>5. Before(f, j)
    BY <2>4 DEF Before
  <2>6. g \in Seq(Lines) /\ Entries(g) \subseteq Entries(s) /\ Sorted(g) /\ Len(g) >= 1
    <3>1. Len(g) = Len(f) + 1 /\ Len(f) \in Nat
      <4>1. Len(j) \in Nat /\ Len(f) \in Nat
        BY <2>2, <2>4
      <4>2. Len(f \o j) = Len(f) + Len(j)
        BY <2>2, <2>4, ConcatProperties
      <4> QED
        BY <2>4, <4>1, <4>2
    <3> QED
      BY <2>2, <2>4, <2>5, <3>1, Concat
  <2> HIDE DEF g
  <2>7. PICK h : h = Tail(t)
    OBVIOUS
  <2>8. h \in Seq(Lines) /\ Entries(h) \subseteq Entries(t) /\ Sorted(h)
    BY <1>1, <2>7, Rest
  <2>9. Before(g, h)
    BY <2>6, <2>8 DEF Before
  <2>10. Appended(s, unended, t) = g \o h
    BY <1>1, <2>0, <2>7 DEF Appended, f, g
  <2>11. g \o h # <<>>
    BY <2>6, <2>8
  <2>12. g \o h \in Seq(Lines) /\ Sorted(g \o h) /\ Entries(g \o h) = Entries(g) \cup Entries(h)
    BY <2>6, <2>8, <2>9, Concat
  <2> QED
    BY <1>1, <2>6, <2>8, <2>10, <2>11, <2>12
<1>2. CASE ~(unended /\ t # <<>>)
  <2>1. Appended(s, unended, t) = s \o t
    BY <1>2 DEF Appended
  <2>2. s # <<>> \/ t # <<>> => s \o t # <<>>
    OBVIOUS
  <2> QED
    BY <2>1, <2>2, Concat
<1> QED
  BY <1>1, <1>2

LEMMA AppendedOne ==
    ASSUME NEW s \in Seq(Lines), NEW x \in Lines
    PROVE  /\ Append(s, x) \in Seq(Lines)
           /\ Entries(Append(s, x)) = Entries(s) \cup ({x} \ {Junk})
           /\ Sorted(s) /\ (x # Junk => \A n \in Entries(s) : n < x) => Sorted(Append(s, x))
<1>1. PICK t : t = <<x>>
  OBVIOUS
<1>2. t \in Seq(Lines) /\ Entries(t) = {x} \ {Junk} /\ Sorted(t)
  BY <1>1, SmallSequences
<1>3. Append(s, x) = s \o t
  BY <1>1, AppendIsConcat
<1>4. (x # Junk => \A n \in Entries(s) : n < x) => Before(s, t)
  BY <1>2 DEF Before
<1> QED
  BY <1>2, <1>3, <1>4, Concat

-----------------------------------------------------------------------------
(* Each step of the writer, and of those that log. *)
LEMMA AuditInitHolds == AuditInit => AuditInv
<1> SUFFICES ASSUME AuditInit PROVE AuditInv
  OBVIOUS
<1>1. PICK e : e = <<>>
  OBVIOUS
<1>2. e \in Seq(Lines) /\ Entries(e) = {} /\ Sorted(e)
  BY <1>1, SmallSequences
<1>3. /\ day = 0 /\ logged = <<>> /\ accepted = {} /\ queue = e /\ sender = TRUE
      /\ buffer = e /\ writer = "loop" /\ current = Never
      /\ files = [d \in Days |-> e] /\ ragged = {} /\ failures = 0
  BY <1>1 DEF AuditInit
<1>4. logged \in Seq(Days) /\ DOMAIN logged = {}
  BY <1>3
<1>5. 0 \in Days
  BY DEF Days
<1>6. AuditTyped
  BY <1>2, <1>3, <1>4, <1>5 DEF AuditTyped
<1>7. InOrder
  BY <1>2, <1>3 DEF InOrder, Before
<1>8. InTheirDays
  BY <1>1, <1>2, <1>3, <1>4 DEF InTheirDays
<1>9. Lost
  BY <1>2, <1>3 DEF Lost, OnFile
<1> QED
  BY <1>6, <1>7, <1>8, <1>9 DEF AuditInv

LEMMA LogKeeps == ASSUME AuditInv, Log PROVE AuditInv'
<1>1. PICK n : n = Len(logged) + 1
  OBVIOUS
<1>2. /\ logged' = Append(logged, day)
      /\ \/ queue' = Append(queue, n) /\ accepted' = accepted \cup {n} /\ sender
         \/ queue' = queue /\ accepted' = accepted
      /\ UNCHANGED <<day, sender, buffer, writer, current, files, ragged, failures>>
  BY <1>1 DEF Log, onDisk
<1>3. AuditTyped /\ InOrder /\ InTheirDays /\ Lost
  BY DEF AuditInv
<1>4. /\ Len(logged) \in Nat /\ n \in Nat /\ n \in Lines /\ n # Junk
      /\ logged' \in Seq(Days) /\ Len(logged') = n /\ DOMAIN logged' = 1..n
      /\ \A i \in 1..Len(logged) : i \in 1..n /\ i < n /\ i \in DOMAIN logged /\ logged'[i] = logged[i]
      /\ \A i \in 1..n : i \notin 1..Len(logged) => i = n
      /\ logged'[n] = day
  BY <1>1, <1>2, <1>3 DEF AuditTyped, Lines
<1>5. \A i \in Entries(buffer) \cup Entries(queue) : i \in 1..Len(logged)
  BY <1>3 DEF InOrder
<1>6. /\ queue' \in Seq(Lines) /\ Sorted(queue')
      /\ \/ Entries(queue') = Entries(queue) \cup {n} /\ accepted' = accepted \cup {n} /\ sender
         \/ queue' = queue /\ accepted' = accepted
  <2>1. queue \in Seq(Lines) /\ Sorted(queue)
    BY <1>3 DEF AuditTyped, InOrder
  <2>2. \A i \in Entries(queue) : i < n
    BY <1>4, <1>5
  <2>3. CASE queue' = Append(queue, n) /\ accepted' = accepted \cup {n} /\ sender
    <3>1. /\ Append(queue, n) \in Seq(Lines) /\ Sorted(Append(queue, n))
          /\ Entries(Append(queue, n)) = Entries(queue) \cup ({n} \ {Junk})
      BY <1>4, <2>1, <2>2, AppendedOne
    <3>2. {n} \ {Junk} = {n}
      BY <1>4
    <3> QED
      BY <2>3, <3>1, <3>2
  <2>4. CASE queue' = queue /\ accepted' = accepted
    BY <2>1, <2>4
  <2> QED
    BY <1>2, <2>3, <2>4
<1>7. AuditTyped'
  BY <1>2, <1>3, <1>4, <1>6 DEF AuditTyped
<1>8. /\ \A i \in Entries(queue') : i \in 1..n /\ (i \in Entries(queue) \/ i = n)
      /\ \A i \in 1..Len(logged) : i \in 1..n /\ i < n
  <2>1. \A i \in Entries(queue') : i \in Entries(queue) \/ i = n
    BY <1>6
  <2>2. n \in 1..n
    BY <1>1, <1>4
  <2> QED
    BY <1>4, <1>5, <2>1, <2>2
<1>9. InOrder'
  <2>1. Sorted(buffer') /\ Sorted(queue') /\ Before(buffer', queue')
    BY <1>2, <1>3, <1>4, <1>5, <1>6, <1>8 DEF InOrder, Before
  <2>2. \A i \in Entries(buffer') \cup Entries(queue') : i \in 1..Len(logged')
    BY <1>2, <1>4, <1>5, <1>8
  <2>3. ASSUME NEW d \in Days
        PROVE  /\ Sorted(files'[d]) /\ Before(files'[d], buffer') /\ Before(files'[d], queue')
               /\ Entries(files'[d]) \subseteq 1..Len(logged')
               /\ \A e \in Days : d < e => Before(files'[d], files'[e])
    <3>1. /\ Sorted(files[d]) /\ Before(files[d], buffer) /\ Before(files[d], queue)
          /\ Entries(files[d]) \subseteq 1..Len(logged)
          /\ \A e \in Days : d < e => Before(files[d], files[e])
      BY <1>3 DEF InOrder
    <3>2. Before(files[d], queue')
      BY <1>4, <1>8, <3>1 DEF Before
    <3> QED
      BY <1>2, <1>4, <3>1, <3>2
  <2> QED
    BY <2>1, <2>2, <2>3 DEF InOrder
<1>10. InTheirDays'
  <2>1. \A i \in DOMAIN logged' : logged'[i] <= day'
    <3>1. day \in Nat
      BY <1>3 DEF AuditTyped, Days
    <3> QED
      BY <1>2, <1>3, <1>4, <3>1 DEF InTheirDays
  <2>2. \A d \in Days : \A i \in Entries(files[d]) : logged'[i] <= d
    <3>1. \A d \in Days : \A i \in Entries(files[d]) : logged'[i] = logged[i]
      BY <1>3, <1>4 DEF InOrder
    <3> QED
      BY <1>3, <3>1 DEF InTheirDays
  <2>3. writer = "write" => \A i \in Entries(buffer) : logged'[i] <= current
    BY <1>3, <1>4, <1>5 DEF InTheirDays
  <2> QED
    BY <1>2, <1>3, <2>1, <2>2, <2>3 DEF InTheirDays
<1>11. Lost'
  <2>1. OnFile' = OnFile
    BY <1>2 DEF OnFile
  <2>2. ASSUME failures = 0 PROVE accepted' = OnFile \cup Entries(buffer) \cup Entries(queue')
    BY <1>3, <1>6, <2>2 DEF Lost
  <2>3. writer = "ended" => buffer = <<>> /\ queue' = <<>> /\ ~sender
    BY <1>3, <1>6 DEF Lost
  <2> QED
    BY <1>2, <1>3, <2>1, <2>2, <2>3 DEF Lost
<1> QED
  BY <1>7, <1>9, <1>10, <1>11 DEF AuditInv

LEMMA ReceiveKeeps == ASSUME AuditInv, Receive PROVE AuditInv'
<1>1. PICK h : h = Head(queue)
  OBVIOUS
<1>2. /\ writer = "loop" /\ queue # <<>>
      /\ buffer' = Append(buffer, h) /\ queue' = Tail(queue)
      /\ writer' \in {"open", "loop"}
      /\ UNCHANGED <<day, logged, accepted, sender, current, files, ragged, failures>>
  BY <1>1 DEF Receive, onDisk
<1>3. AuditTyped /\ InOrder /\ InTheirDays /\ Lost
  BY DEF AuditInv
<1>4. /\ queue' \in Seq(Lines) /\ h \in Lines /\ Sorted(queue')
      /\ Entries(queue) = ({h} \ {Junk}) \cup Entries(queue')
      /\ h # Junk => \A n \in Entries(queue') : h < n
  BY <1>1, <1>2, <1>3, Rest DEF AuditTyped, InOrder
<1>5. h # Junk => \A n \in Entries(buffer) : n < h
  BY <1>3, <1>4 DEF InOrder, Before
<1>6. /\ buffer' \in Seq(Lines) /\ Sorted(buffer')
      /\ Entries(buffer') = Entries(buffer) \cup ({h} \ {Junk})
  BY <1>2, <1>3, <1>4, <1>5, AppendedOne DEF AuditTyped, InOrder
<1>7. Entries(buffer') \cup Entries(queue') = Entries(buffer) \cup Entries(queue)
  BY <1>4, <1>6
<1>8. AuditTyped'
  BY <1>2, <1>3, <1>4, <1>6 DEF AuditTyped
<1>9. InOrder'
  <2>1. Before(buffer', queue')
    BY <1>3, <1>4, <1>6 DEF InOrder, Before
  <2>2. \A d \in Days : Before(files[d], buffer') /\ Before(files[d], queue')
    BY <1>3, <1>4, <1>6 DEF InOrder, Before
  <2>3. \A n \in Entries(buffer') \cup Entries(queue') : n \in 1..Len(logged)
    BY <1>3, <1>7 DEF InOrder
  <2> QED
    BY <1>2, <1>3, <1>4, <1>6, <2>1, <2>2, <2>3 DEF InOrder
<1>10. InTheirDays'
  BY <1>2, <1>3 DEF InTheirDays
<1>11. Lost'
  <2>1. OnFile' = OnFile
    BY <1>2 DEF OnFile
  <2> QED
    BY <1>2, <1>3, <1>7, <2>1 DEF Lost
<1> QED
  BY <1>8, <1>9, <1>10, <1>11 DEF AuditInv

(* What does nothing to the entries. *)
LEMMA WriterMoves == ASSUME AuditInv, TimerTicks \/ SenderGone \/ CloseChannel PROVE AuditInv'
<1>1. /\ writer' # "write" \/ writer' = writer
      /\ writer' \in {"loop", "open", "write", "ended"} /\ sender' \in BOOLEAN
      /\ writer' = "ended" => buffer = <<>> /\ queue = <<>> /\ ~sender'
      /\ UNCHANGED <<day, channel, buffer, current, onDisk, failures>>
  <2>1. /\ writer \in {"loop", "open", "write", "ended"} /\ sender \in BOOLEAN
        /\ writer = "ended" => buffer = <<>> /\ queue = <<>> /\ ~sender
    BY DEF AuditInv, AuditTyped, Lost
  <2>2. CASE TimerTicks
    BY <2>1, <2>2 DEF TimerTicks
  <2>3. CASE SenderGone
    BY <2>1, <2>3 DEF SenderGone
  <2>4. CASE CloseChannel
    BY <2>1, <2>4 DEF CloseChannel
  <2> QED
    BY <2>2, <2>3, <2>4
<1>2. UNCHANGED <<day, logged, accepted, queue, buffer, current, files, ragged, failures>>
  BY <1>1 DEF channel, onDisk
<1> QED
  BY <1>1, <1>2 DEF AuditInv, AuditTyped, InOrder, InTheirDays, Lost, OnFile

LEMMA OpenFileKeeps == ASSUME AuditInv, OpenFile PROVE AuditInv'
<1>1. /\ writer' = "write" /\ current' = day
      /\ UNCHANGED <<day, logged, accepted, queue, sender, buffer, files, ragged, failures>>
  BY DEF OpenFile, channel, onDisk
<1>2. AuditTyped /\ InOrder /\ InTheirDays /\ Lost
  BY DEF AuditInv
<1>3. day \in Nat /\ Len(logged) \in Nat /\ DOMAIN logged = 1..Len(logged)
  BY <1>2 DEF AuditTyped, Days
<1>4. \A n \in Entries(buffer) : logged[n] <= day
  BY <1>2, <1>3 DEF InOrder, InTheirDays
<1>5. InTheirDays'
  BY <1>1, <1>2, <1>3, <1>4 DEF InTheirDays, AuditTyped
<1> QED
  BY <1>1, <1>2, <1>5 DEF AuditInv, AuditTyped, InOrder, Lost, OnFile

LEMMA MidnightKeeps == ASSUME AuditInv, Midnight PROVE AuditInv'
<1>1. /\ day < LastDay /\ day' = day + 1
      /\ UNCHANGED <<logged, accepted, queue, sender, buffer, writer, current, files, ragged, failures>>
  BY DEF Midnight, channel, onDisk
<1>2. AuditTyped /\ InOrder /\ InTheirDays /\ Lost
  BY DEF AuditInv
<1>3. day \in Days /\ day \in Nat /\ day' \in Days /\ Days \subseteq Nat /\ LastDay \in Nat
  BY <1>1, <1>2 DEF AuditTyped, Days
<1>4. DOMAIN logged = 1..Len(logged) /\ \A n \in DOMAIN logged : logged[n] \in Days
  BY <1>2 DEF AuditTyped
<1>5. InTheirDays'
  <2>1. \A n \in DOMAIN logged : logged[n] <= day'
    <3>1. \A n \in DOMAIN logged : logged[n] <= day
      BY <1>2 DEF InTheirDays
    <3> QED
      <4> SUFFICES ASSUME NEW n \in DOMAIN logged PROVE logged[n] <= day + 1
        BY <1>1
      <4>1. logged[n] \in Nat /\ logged[n] <= day
        BY <1>3, <1>4, <3>1
      <4> QED
        BY <1>3, <4>1
  <2>2. \A d \in Days : d > day' => d > day
    BY <1>1, <1>3
  <2>3. \A d \in Days : d <= day => d <= day'
    BY <1>1, <1>3
  <2> QED
    BY <1>1, <1>2, <2>1, <2>2, <2>3 DEF InTheirDays
<1>6. AuditTyped'
  BY <1>1, <1>2, <1>3 DEF AuditTyped
<1> QED
  BY <1>1, <1>2, <1>5, <1>6 DEF AuditInv, InOrder, Lost, OnFile

(* The files as they are, and the buffer empty. *)
LEMMA Emptied ==
    ASSUME AuditInv, buffer' = <<>>, queue' \in {queue, <<>>},
           writer' = "loop", sender' \in BOOLEAN, current' \in Days \cup {Never}, failures' \in Nat,
           UNCHANGED <<day, logged, files, ragged>>,
           accepted' \subseteq Nat,
           failures' = 0 => failures = 0 /\ accepted' = OnFile \cup Entries(queue')
    PROVE  AuditInv'
<1>1. PICK e : e = <<>>
  OBVIOUS
<1>2. e \in Seq(Lines) /\ Entries(e) = {} /\ Sorted(e)
  BY <1>1, SmallSequences
<1>3. AuditTyped /\ InOrder /\ InTheirDays /\ Lost
  BY DEF AuditInv
<1>4. buffer' = e /\ (queue' = queue \/ queue' = e)
  BY <1>1
<1>5. AuditTyped'
  BY <1>2, <1>3, <1>4 DEF AuditTyped
<1>6. InOrder'
  BY <1>2, <1>3, <1>4 DEF InOrder, Before
<1>7. InTheirDays'
  BY <1>3 DEF InTheirDays
<1>8. Lost'
  <2>1. OnFile' = OnFile
    BY DEF OnFile
  <2> QED
    BY <1>2, <1>3, <1>4, <2>1 DEF Lost
<1> QED
  BY <1>5, <1>6, <1>7, <1>8 DEF AuditInv

LEMMA OpenFailsKeeps == ASSUME AuditInv, OpenFails PROVE AuditInv'
<1>1. /\ failures' = failures + 1 /\ writer' = "loop" /\ buffer' = <<>>
      /\ UNCHANGED <<day, logged, accepted, queue, sender, current, files, ragged>>
  BY DEF OpenFails, Flushed, channel, onDisk
<1>2. AuditTyped
  BY DEF AuditInv
<1>3. failures' \in Nat /\ failures' # 0
  BY <1>1, <1>2 DEF AuditTyped
<1> QED
  BY <1>1, <1>2, <1>3, Emptied DEF AuditTyped

LEMMA AuditRestartKeeps == ASSUME AuditInv, AuditRestart PROVE AuditInv'
<1>1. /\ queue' = <<>> /\ sender' = TRUE /\ buffer' = <<>> /\ writer' = "loop" /\ current' = Never
      /\ accepted' = accepted \ (ToSet(queue) \cup ToSet(buffer))
      /\ UNCHANGED <<day, logged, files, ragged, failures>>
  BY DEF AuditRestart, onDisk
<1>2. AuditTyped /\ InOrder /\ Lost
  BY DEF AuditInv
<1>3. accepted' \subseteq Nat /\ failures' \in Nat
  BY <1>1, <1>2 DEF AuditTyped
<1>4. Entries(queue') = {}
  BY <1>1, SmallSequences
<1>5. ASSUME failures = 0 PROVE accepted' = OnFile
  <2>1. accepted = OnFile \cup Entries(buffer) \cup Entries(queue)
    BY <1>2, <1>5 DEF Lost
  <2>2. ASSUME NEW n \in OnFile PROVE n \notin ToSet(queue) \cup ToSet(buffer)
    <3>0. PICK d \in Days : n \in Entries(files[d])
      BY DEF OnFile
    <3>1. n \in Nat /\ n # Junk
      BY <1>2, <3>0, EntriesAt DEF AuditTyped
    <3>2. n \notin Entries(queue) /\ n \notin Entries(buffer)
      <4>1. Before(files[d], buffer) /\ Before(files[d], queue) /\ ~(n < n)
        BY <1>2, <3>1 DEF InOrder
      <4> QED
        BY <3>0, <4>1 DEF Before
    <3> QED
      BY <3>1, <3>2 DEF Entries
  <2>3. ASSUME NEW n \in accepted' PROVE n \in OnFile
    <3>1. n \in accepted /\ n \notin Entries(queue) /\ n \notin Entries(buffer)
      BY <1>1 DEF Entries
    <3> QED
      BY <2>1, <3>1
  <2> QED
    BY <1>1, <2>1, <2>2, <2>3
<1> QED
  BY <1>1, <1>3, <1>4, <1>5, Emptied

(* A part of the batch is in the file, maybe with its last line torn.      *)
LEMMA Written ==
    ASSUME AuditInv, writer = "write", NEW text \in Seq(Lines), Sorted(text),
           Entries(text) \subseteq Entries(buffer),
           files' = [files EXCEPT ![current] = Appended(@, current \in ragged, text)],
           buffer' = <<>>, writer' = "loop", failures' \in Nat,
           ragged' \subseteq ragged \cup {current}, current \in ragged' => current \in ragged \/ text # <<>>,
           UNCHANGED <<day, logged, accepted, queue, sender, current>>,
           failures' = 0 => failures = 0 /\ Entries(text) = Entries(buffer) /\ ragged' = {}
    PROVE  AuditInv'
<1> DEFINE old == files[current]  new == Appended(old, current \in ragged, text)
<1>1. AuditTyped /\ InOrder /\ InTheirDays /\ Lost
  BY DEF AuditInv
<1>2. PICK e : e = <<>>
  OBVIOUS
<1>3. e \in Seq(Lines) /\ Entries(e) = {} /\ Sorted(e)
  BY <1>2, SmallSequences
<1>4. current \in Days /\ current <= day /\ Days \subseteq Nat
  BY <1>1 DEF InTheirDays, Days
<1>5. /\ old \in Seq(Lines) /\ Sorted(old) /\ Before(old, buffer) /\ Before(old, queue)
      /\ Entries(old) \subseteq 1..Len(logged)
      /\ current \in ragged => old # <<>>
  BY <1>1, <1>4 DEF AuditTyped, InOrder, Lost
<1>6. Before(old, text)
  BY <1>5 DEF Before
<1>7. /\ new \in Seq(Lines) /\ Sorted(new)
      /\ Entries(new) \subseteq Entries(old) \cup Entries(text)
      /\ current \notin ragged => Entries(new) = Entries(old) \cup Entries(text)
      /\ old # <<>> \/ text # <<>> => new # <<>>
  <2>1. PICK u \in BOOLEAN : u = (current \in ragged)
    <3>1. CASE current \in ragged
      <4>1. TRUE = (current \in ragged) /\ TRUE \in BOOLEAN
        BY <3>1
      <4> QED
        BY <4>1
    <3>2. CASE current \notin ragged
      <4>1. FALSE = (current \in ragged) /\ FALSE \in BOOLEAN
        BY <3>2
      <4> QED
        BY <4>1
    <3> QED
      BY <3>1, <3>2
  <2>2. Sorted(text) /\ (u => old # <<>>)
    BY <1>5, <2>1
  <2> HIDE DEF old
  <2>3. LET n == Appended(old, u, text) IN
        /\ n \in Seq(Lines) /\ Sorted(n)
        /\ Entries(n) \subseteq Entries(old) \cup Entries(text)
        /\ ~u => Entries(n) = Entries(old) \cup Entries(text)
        /\ old # <<>> \/ text # <<>> => n # <<>>
    BY <1>5, <1>6, <2>2, AppendedFacts
  <2> QED
    BY <2>1, <2>3
<1>8. /\ files' \in [Days -> Seq(Lines)] /\ files'[current] = new
      /\ \A d \in Days \ {current} : files'[d] = files[d]
  BY <1>1, <1>4, <1>7 DEF AuditTyped
<1> HIDE DEF old, new
<1>9. AuditTyped'
  BY <1>1, <1>3, <1>2, <1>4, <1>8 DEF AuditTyped
<1>10. Entries(new) \subseteq Entries(old) \cup Entries(buffer)
  BY <1>7
<1>11. Before(new, queue)
  BY <1>1, <1>5, <1>10 DEF Before, InOrder
<1>12. InOrder'
  <2>1. \A n \in Entries(new) : n \in 1..Len(logged)
    BY <1>1, <1>5, <1>10 DEF InOrder
  <2>2. ASSUME NEW d \in Days
        PROVE  /\ Sorted(files'[d]) /\ Before(files'[d], e) /\ Before(files'[d], queue)
               /\ Entries(files'[d]) \subseteq 1..Len(logged)
    BY <1>1, <1>3, <1>7, <1>8, <1>11, <2>1 DEF InOrder, Before
  <2>3. ASSUME NEW d \in Days, NEW f \in Days, d < f PROVE Before(files'[d], files'[f])
    <3>1. Before(files[d], files[f]) /\ Before(files[d], buffer)
      BY <1>1, <2>3 DEF InOrder
    <3>2. CASE d = current
      <4>1. f # current /\ f > current
        BY <1>4, <2>3, <3>2
      <4>2. files'[f] = e
        BY <1>1, <1>2, <1>8, <4>1 DEF InTheirDays
      <4> QED
        BY <1>3, <4>2 DEF Before
    <3>3. CASE d # current /\ f = current
      <4>1. files'[d] = files[d] /\ files'[f] = new /\ files[f] = old
        BY <1>8, <3>3 DEF old
      <4> QED
        BY <1>10, <3>1, <4>1 DEF Before
    <3>4. CASE d # current /\ f # current
      BY <1>8, <3>1, <3>4
    <3> QED
      BY <3>2, <3>3, <3>4
  <2>4. Before(e, queue)
    BY <1>3 DEF Before
  <2> QED
    BY <1>1, <1>2, <1>3, <2>2, <2>3, <2>4 DEF InOrder
<1>13. InTheirDays'
  <2>1. \A d \in Days : \A n \in Entries(files'[d]) : logged[n] <= d
    <3>1. \A n \in Entries(new) : logged[n] <= current
      BY <1>1, <1>4, <1>10 DEF InTheirDays, old
    <3> QED
      BY <1>1, <1>8, <3>1 DEF InTheirDays
  <2>2. \A d \in Days : d > day => files'[d] = <<>>
    <3>1. \A d \in Days : d > day => d # current
      BY <1>1, <1>4 DEF AuditTyped
    <3> QED
      BY <1>1, <1>8, <3>1 DEF InTheirDays
  <2> QED
    BY <1>1, <2>1, <2>2 DEF InTheirDays
<1>14. Lost'
  <2>1. ASSUME failures' = 0 PROVE ragged' = {} /\ accepted' = OnFile' \cup Entries(e) \cup Entries(queue')
    <3>1. ragged = {} /\ accepted = OnFile \cup Entries(buffer) \cup Entries(queue)
      BY <1>1, <2>1 DEF Lost
    <3>2. Entries(new) = Entries(old) \cup Entries(buffer)
      BY <1>7, <2>1, <3>1
    <3>3. ASSUME NEW n \in OnFile' PROVE n \in OnFile \cup Entries(buffer)
      <4>1. PICK d \in Days : n \in Entries(files'[d])
        BY DEF OnFile
      <4>2. n \in Entries(files[d]) \/ n \in Entries(buffer)
        BY <1>8, <3>2, <4>1 DEF old
      <4> QED
        BY <4>2 DEF OnFile
    <3>4. ASSUME NEW n \in OnFile \cup Entries(buffer) PROVE n \in OnFile'
      <4>1. CASE n \in Entries(new)
        BY <1>4, <1>8, <4>1 DEF OnFile
      <4>2. CASE n \notin Entries(new)
        <5>1. PICK d \in Days : n \in Entries(files[d])
          BY <3>2, <4>2 DEF OnFile
        <5>2. d # current
          BY <3>2, <4>2, <5>1 DEF old
        <5> QED
          BY <1>8, <5>1, <5>2 DEF OnFile
      <4> QED
        BY <4>1, <4>2
    <3>5. OnFile' = OnFile \cup Entries(buffer)
      BY <3>3, <3>4
    <3> QED
      BY <1>3, <2>1, <3>1, <3>5
  <2>2. ASSUME NEW d \in ragged' PROVE files'[d] # <<>>
    BY <1>1, <1>4, <1>5, <1>7, <1>8 DEF Lost, AuditTyped, old
  <2> QED
    BY <1>2, <2>1, <2>2 DEF Lost
<1> QED
  BY <1>9, <1>12, <1>13, <1>14 DEF AuditInv

LEMMA WriteBatchKeeps == ASSUME AuditInv, WriteBatch PROVE AuditInv'
<1>1. /\ writer = "write" /\ writer' = "loop" /\ buffer' = <<>>
      /\ files' = [files EXCEPT ![current] = Appended(@, current \in ragged, buffer)]
      /\ ragged' = ragged \ {current}
      /\ UNCHANGED <<day, logged, accepted, queue, sender, current, failures>>
  BY DEF WriteBatch, Flushed, channel
<1>2. buffer \in Seq(Lines) /\ Sorted(buffer) /\ failures \in Nat
  BY DEF AuditInv, AuditTyped, InOrder
<1>3. failures = 0 => ragged = {}
  BY DEF AuditInv, Lost
<1> QED
  BY <1>1, <1>2, <1>3, Written

LEMMA WriteFailsKeeps == ASSUME AuditInv, WriteFails PROVE AuditInv'
<1>1. /\ writer = "write" /\ writer' = "loop" /\ buffer' = <<>> /\ failures' = failures + 1
      /\ UNCHANGED <<day, logged, accepted, queue, sender, current>>
  BY DEF WriteFails, Flushed, channel
<1>2. buffer \in Seq(Lines) /\ Sorted(buffer) /\ failures \in Nat
  BY DEF AuditInv, AuditTyped, InOrder
<1>3. PICK k \in 0..(Len(buffer) - 1) : \E rest \in {<<>>, <<Junk>>, <<buffer[k + 1]>>} :
         LET text == SubSeq(buffer, 1, k) \o rest IN
         /\ files' = [files EXCEPT ![current] = Appended(@, current \in ragged, text)]
         /\ ragged' = IF rest # <<>> THEN ragged \cup {current}
                      ELSE IF k = 0 THEN ragged ELSE ragged \ {current}
  BY DEF WriteFails
<1>4. PICK rest \in {<<>>, <<Junk>>, <<buffer[k + 1]>>} :
         LET text == SubSeq(buffer, 1, k) \o rest IN
         /\ files' = [files EXCEPT ![current] = Appended(@, current \in ragged, text)]
         /\ ragged' = IF rest # <<>> THEN ragged \cup {current}
                      ELSE IF k = 0 THEN ragged ELSE ragged \ {current}
  BY <1>3
<1>5. PICK b : b = SubSeq(buffer, 1, k)
  OBVIOUS
<1>6. k \in 0..Len(buffer) /\ k + 1 \in 1..Len(buffer)
  BY <1>2, <1>3
<1>7. /\ b \in Seq(Lines) /\ Entries(b) \subseteq Entries(buffer) /\ Sorted(b)
      /\ \A n \in Entries(b) : \E i \in 1..k : buffer[i] = n
  BY <1>2, <1>5, <1>6, Taken
<1>8. /\ rest \in Seq(Lines) /\ Entries(rest) \subseteq {buffer[k + 1]} \ {Junk} /\ Sorted(rest)
      /\ Entries(rest) \subseteq Entries(buffer)
  <2>1. Junk \in Lines /\ buffer[k + 1] \in Lines
    BY <1>2, <1>6, EntriesAt DEF Lines
  <2>2. {buffer[k + 1]} \ {Junk} \subseteq Entries(buffer)
    BY <1>2, <1>6, EntriesAt
  <2>3. CASE rest = <<>>
    BY <2>3, SmallSequences
  <2>4. CASE rest = <<Junk>>
    BY <2>1, <2>4, SmallSequences
  <2>5. CASE rest = <<buffer[k + 1]>>
    BY <2>1, <2>2, <2>5, SmallSequences
  <2> QED
    BY <2>3, <2>4, <2>5
<1>9. Before(b, rest)
  <2> SUFFICES ASSUME NEW m \in Entries(b), NEW n \in Entries(rest) PROVE m < n
    BY DEF Before
  <2>1. PICK i \in 1..k : buffer[i] = m
    BY <1>7
  <2>2. n = buffer[k + 1] /\ n # Junk /\ m # Junk
    BY <1>8 DEF Entries
  <2>3. i < k + 1 /\ i \in DOMAIN buffer /\ k + 1 \in DOMAIN buffer
    BY <1>2, <1>6
  <2> QED
    BY <1>2, <2>1, <2>2, <2>3 DEF Sorted
<1>10. PICK text : text = b \o rest
  OBVIOUS
<1>11. text \in Seq(Lines) /\ Sorted(text) /\ Entries(text) \subseteq Entries(buffer)
  BY <1>7, <1>8, <1>9, <1>10, Concat
<1>12. rest # <<>> => text # <<>>
  BY <1>7, <1>8, <1>10
<1>13. ragged' \subseteq ragged \cup {current} /\ (current \in ragged' => current \in ragged \/ text # <<>>)
  BY <1>4, <1>12
<1>14. files' = [files EXCEPT ![current] = Appended(@, current \in ragged, text)]
  BY <1>4, <1>5, <1>10
<1>15. failures' \in Nat /\ failures' # 0
  BY <1>1, <1>2
<1> QED
  BY <1>1, <1>11, <1>13, <1>14, <1>15, Written

AuditStep ==
    \/ Log \/ Receive \/ TimerTicks \/ SenderGone \/ OpenFile \/ OpenFails \/ WriteBatch \/ WriteFails
    \/ Midnight \/ CloseChannel \/ AuditRestart
    \/ UNCHANGED auditVars

LEMMA AuditStepKeeps == AuditInv /\ AuditStep => AuditInv'
<1> SUFFICES ASSUME AuditInv, AuditStep PROVE AuditInv'
  OBVIOUS
<1>1. CASE UNCHANGED auditVars
  BY <1>1 DEF auditVars, channel, onDisk, AuditInv, AuditTyped, InOrder, InTheirDays, Lost, OnFile
<1> QED
  BY <1>1, LogKeeps, ReceiveKeeps, WriterMoves, OpenFileKeeps, OpenFailsKeeps, WriteBatchKeeps,
     WriteFailsKeeps, MidnightKeeps, AuditRestartKeeps DEF AuditStep

LEMMA NextIsAuditStep == [Next]_vars => AuditStep
<1> SUFFICES ASSUME [Next]_vars PROVE AuditStep
  OBVIOUS
<1>1. CASE UNCHANGED vars
  BY <1>1 DEF vars, AuditStep
<1>2. CASE Start
  BY <1>2 DEF Start, Migrate, LoadKeys, PromoteRoot, EnsureRoot, AuditStep
<1>3. CASE Crash \/ Exit
  BY <1>3 DEF Crash, Exit, Down, AuditStep
<1>4. CASE Shutdown
  BY <1>4 DEF Shutdown, AuditStep
<1>5. ASSUME NEW r \in Requests, Arrival(r) PROVE AuditStep
  <2>1. \A op : Arrive(r, op) => UNCHANGED auditVars
    BY DEF Arrive
  <2> QED
    BY <1>5, <2>1 DEF Arrival, ArriveWithKey, ArriveWithToken, ArriveToLogin, AuditStep
<1>6. ASSUME NEW r \in Requests, Handler(r) PROVE AuditStep
  <2>1. LookUp(r) \/ Fetch(r) \/ Fill(r) => UNCHANGED auditVars
    BY DEF LookUp, Fetch, Fill, Unmoved
  <2>2. Use(r) \/ (\E op \in DOMAIN Needs : Refuse(r, op, Needs[op])) => UNCHANGED auditVars
    BY DEF Use, Refuse, Unmoved
  <2>3. CreateKey(r) \/ InsertHash(r) \/ InsertMeta(r) => UNCHANGED auditVars
    BY DEF CreateKey, InsertHash, InsertMeta
  <2>4. DeleteKey(r) \/ RemoveHash(r) \/ RemoveMeta(r) \/ UpdateKey(r) => UNCHANGED auditVars
    BY DEF DeleteKey, RemoveHash, RemoveMeta, UpdateKey
  <2>5. CreateUser(r) \/ DeleteUser(r) \/ SetPassword(r) \/ SetPermissions(r) => UNCHANGED auditVars
    BY DEF CreateUser, DeleteUser, SetPassword, SetPermissions, UserHandler
  <2>6. CheckPassword(r) \/ IssueToken(r) => UNCHANGED auditVars
    BY DEF CheckPassword, IssueToken, Unmoved
  <2>7. PutCredential(r) \/ DeleteCredential(r) => UNCHANGED auditVars
    BY DEF PutCredential, DeleteCredential, Credential
  <2>8. Resolve(r) \/ ProviderAnswers(r) \/ ClientGoes(r) => UNCHANGED auditVars
    BY DEF Resolve, ProviderAnswers, ClientGoes, Unmoved
  <2>9. Answer(r) => Log
    BY DEF Answer
  <2> QED
    BY <1>6, <2>1, <2>2, <2>3, <2>4, <2>5, <2>6, <2>7, <2>8, <2>9 DEF Handler, AuditStep
<1>7. CASE TokenExpires
  BY <1>7 DEF TokenExpires, AuditStep
<1>8. CASE Audit
  BY <1>8 DEF Audit, WriterStep, AuditStep
<1> QED
  BY <1>1, <1>2, <1>3, <1>4, <1>5, <1>6, <1>7, <1>8 DEF Next

(* The files, the buffer and the channel are in order, whatever happens.   *)
THEOREM AuditInvariance == Spec => []AuditInv
<1>1. Init => AuditInv
  BY AuditInitHolds DEF Init
<1>2. AuditInv /\ [Next]_vars => AuditInv'
  BY AuditStepKeeps, NextIsAuditStep
<1> QED
  BY <1>1, <1>2, PTL DEF Spec

-----------------------------------------------------------------------------
(* What the invariant says of the trail and of its queries. *)
LEMMA InOrderHolds == AuditInv => InOrderAndComplete
<1> SUFFICES ASSUME AuditInv PROVE InOrderAndComplete
  OBVIOUS
<1>1. AuditTyped /\ InOrder /\ Lost /\ LastDay \in Nat
  BY DEF AuditInv
<1>2. PICK last : last = LastDay + 1
  OBVIOUS
<1>3. /\ Parts = Days \cup {last} /\ last \notin Days /\ Days \subseteq Nat /\ last \in Nat
      /\ \A d \in Days : d < last
  BY <1>1, <1>2 DEF Parts, Days
<1>4. PICK e : e = <<>>
  OBVIOUS
<1>5. e \in Seq(Lines) /\ Entries(e) = {} /\ Sorted(e)
  BY <1>4, SmallSequences
<1>6. writer = "ended" => buffer \o queue = e
  <2>1. writer = "ended" => buffer = e /\ queue = e
    BY <1>1, <1>4 DEF Lost
  <2>2. e \o e = e
    BY <1>5, ConcatEmptySeq, <1>4
  <2> QED
    BY <2>1, <2>2
<1>7. Part(last) = buffer \o queue /\ \A d \in Days : Part(d) = files[d]
  BY <1>3, <1>4, <1>6 DEF Part
<1>8. /\ buffer \o queue \in Seq(Lines) /\ Sorted(buffer \o queue)
      /\ Entries(buffer \o queue) = Entries(buffer) \cup Entries(queue)
  BY <1>1, Concat DEF AuditTyped, InOrder
<1>9. \A p \in Parts : Part(p) \in Seq(Lines) /\ Sorted(Part(p))
  BY <1>1, <1>3, <1>7, <1>8 DEF AuditTyped, InOrder
<1>10. \A p, q \in Parts : p < q => Before(Part(p), Part(q))
  <2> SUFFICES ASSUME NEW p \in Parts, NEW q \in Parts, p < q PROVE Before(Part(p), Part(q))
    OBVIOUS
  <2>1. p \in Days
    BY <1>3
  <2>2. CASE q \in Days
    BY <1>1, <1>7, <2>1, <2>2 DEF InOrder
  <2>3. CASE q = last
    BY <1>1, <1>7, <1>8, <2>1, <2>3 DEF InOrder, Before
  <2> QED
    BY <1>3, <2>2, <2>3
<1>11. ASSUME NEW p \in Parts, NEW q \in Parts, NEW i \in DOMAIN Part(p), NEW j \in DOMAIN Part(q),
              p < q \/ (p = q /\ i < j), Part(p)[i] # Junk, Part(q)[j] # Junk
       PROVE  Part(p)[i] < Part(q)[j]
  <2>1. CASE p < q
    <3>1. Part(p)[i] \in Entries(Part(p)) /\ Part(q)[j] \in Entries(Part(q))
      BY <1>11 DEF Entries, ToSet
    <3> QED
      BY <1>10, <2>1, <3>1 DEF Before
  <2>2. CASE p = q /\ i < j
    BY <1>9, <1>11, <2>2 DEF Sorted
  <2> QED
    BY <1>11, <2>1, <2>2
<1>12. ASSUME failures = 0 PROVE UNION {Entries(Part(p)) : p \in Parts} = accepted
  <2>1. accepted = OnFile \cup Entries(Part(last))
    BY <1>1, <1>7, <1>8, <1>12 DEF Lost
  <2>2. ASSUME NEW n \in UNION {Entries(Part(p)) : p \in Parts} PROVE n \in accepted
    <3>1. PICK p \in Parts : n \in Entries(Part(p))
      BY <2>2
    <3>2. CASE p \in Days
      BY <1>7, <2>1, <3>1, <3>2 DEF OnFile
    <3> QED
      BY <1>3, <2>1, <3>1, <3>2
  <2>3. ASSUME NEW n \in accepted PROVE n \in UNION {Entries(Part(p)) : p \in Parts}
    <3>1. CASE n \in Entries(Part(last))
      BY <1>3, <3>1
    <3>2. CASE n \in OnFile
      <4>1. PICK d \in Days : n \in Entries(files[d])
        BY <3>2 DEF OnFile
      <4> QED
        BY <1>3, <1>7, <4>1
    <3> QED
      BY <2>1, <3>1, <3>2
  <2> QED
    BY <2>2, <2>3
<1> QED
  BY <1>11, <1>12 DEF InOrderAndComplete

(* Any finite set of numbers can be listed from its greatest down.         *)
Descends(s) == \A i, j \in DOMAIN s : i < j => s[i] > s[j]

LEMMA Descending ==
    ASSUME NEW S \in SUBSET Nat, IsFiniteSet(S)
    PROVE  \E s \in SetToSeqs(S) : Descends(s)
<1> DEFINE T == {k \in Nat : \A R \in SUBSET Nat : IsFiniteSet(R) /\ Cardinality(R) = k =>
                               \E s \in SetToSeqs(R) : Descends(s)}
<1>1. 0 \in T
  <2> SUFFICES ASSUME NEW R \in SUBSET Nat, IsFiniteSet(R), Cardinality(R) = 0
               PROVE  \E s \in SetToSeqs(R) : Descends(s)
    OBVIOUS
  <2>1. PICK s : s = [i \in 1..0 |-> 0]
    OBVIOUS
  <2>2. DOMAIN s = {} /\ s \in [1..0 -> R]
    BY <2>1
  <2>3. s \in SetToSeqs(R)
    BY <2>2 DEF SetToSeqs
  <2> QED
    BY <2>2, <2>3 DEF Descends
<1>2. ASSUME NEW k \in T PROVE k + 1 \in T
  <2> SUFFICES ASSUME NEW R \in SUBSET Nat, IsFiniteSet(R), Cardinality(R) = k + 1
               PROVE  \E s \in SetToSeqs(R) : Descends(s)
    OBVIOUS
  <2>1. R # {}
    BY FS_EmptySet
  <2>2. PICK x \in R : \A y \in R : x <= y
    BY <2>1, LeastNatural
  <2>3. PICK Q \in SUBSET Nat : Q = R \ {x}
    OBVIOUS
  <2>4. IsFiniteSet(Q) /\ Cardinality(Q) = k
    <3>1. Cardinality(R \ {x}) = Cardinality(R) - 1 /\ IsFiniteSet(R \ {x}) /\ k \in Nat
      BY <2>2, FS_RemoveElement
    <3> QED
      BY <2>3, <3>1
  <2>5. PICK s \in SetToSeqs(Q) : Descends(s)
    BY <2>4
  <2>6. s \in [1..k -> Q] /\ \A i, j \in 1..k : i # j => s[i] # s[j]
    BY <2>4 DEF SetToSeqs
  <2>7. PICK t : t = [i \in 1..(k + 1) |-> IF i = k + 1 THEN x ELSE s[i]]
    OBVIOUS
  <2>8. /\ DOMAIN t = 1..(k + 1) /\ t[k + 1] = x
        /\ \A i \in 1..k : i \in 1..(k + 1) /\ t[i] = s[i] /\ t[i] \in Q /\ i < k + 1
        /\ \A i \in 1..(k + 1) : i \in 1..k \/ i = k + 1
    BY <2>6, <2>7
  <2>9. t \in [1..(k + 1) -> R]
    BY <2>3, <2>6, <2>7, <2>8
  <2>10. \A y \in Q : y > x
    BY <2>2, <2>3
  <2>11. \A i, j \in 1..(k + 1) : i < j => t[i] > t[j]
    <3> SUFFICES ASSUME NEW i \in 1..(k + 1), NEW j \in 1..(k + 1), i < j PROVE t[i] > t[j]
      OBVIOUS
    <3>1. i \in 1..k
      BY <2>8
    <3>2. CASE j = k + 1
      BY <2>8, <2>10, <3>1, <3>2
    <3>3. CASE j \in 1..k
      BY <2>5, <2>6, <2>8, <3>1, <3>3 DEF Descends
    <3> QED
      BY <2>8, <3>2, <3>3
  <2>12. t \in SetToSeqs(R)
    <3>1. \A i, j \in 1..(k + 1) : i # j => t[i] # t[j]
      <4> SUFFICES ASSUME NEW i \in 1..(k + 1), NEW j \in 1..(k + 1), i # j PROVE t[i] # t[j]
        OBVIOUS
      <4>1. t[i] \in Nat /\ t[j] \in Nat /\ (i < j \/ j < i)
        <5>1. t[i] \in R /\ t[j] \in R /\ i \in Int /\ j \in Int
          BY <2>9
        <5>2. i < j \/ j < i
          BY <5>1
        <5>3. \A y \in R : y \in Nat
          OBVIOUS
        <5> QED
          BY <5>1, <5>2, <5>3
      <4>2. t[i] > t[j] \/ t[j] > t[i]
        BY <2>11, <4>1
      <4> QED
        BY <4>1, <4>2
    <3> QED
      BY <2>9, <3>1 DEF SetToSeqs
  <2> QED
    BY <2>8, <2>11, <2>12 DEF Descends
<1>3. T = Nat
  <2> HIDE DEF T
  <2>1. T \subseteq Nat
    BY DEF T
  <2> QED
    BY <1>1, <1>2, <2>1, Induction
<1>4. Cardinality(S) \in T
  BY <1>3, FS_CardinalityType
<1> QED
  BY <1>4

LEMMA Listing ==
    ASSUME NEW S, IsFiniteSet(S), NEW s \in SetToSeqs(S)
    PROVE  s \in Seq(S) /\ Len(s) \in Nat /\ DOMAIN s = 1..Len(s) /\ ToSet(s) = S
<1> DEFINE k == Cardinality(S)
<1>1. k \in Nat
  BY FS_CardinalityType
<1>2. s \in [1..k -> S] /\ \A i, j \in 1..k : i # j => s[i] # s[j]
  BY DEF SetToSeqs
<1>3. s \in Surjection(1..k, S)
  <2>1. s \in Injection(1..k, S)
    BY <1>2 DEF Injection, IsInjective
  <2>2. Cardinality(1..k) = k
    BY <1>1, FS_Interval
  <2> QED
    BY <2>1, <2>2, FS_Injection
<1>4. s \in Seq(S) /\ Len(s) = k /\ DOMAIN s = 1..k
  BY <1>1, <1>2, SeqDef
<1> HIDE DEF k
<1>5. ToSet(s) = S
  BY <1>2, <1>3, <1>4 DEF ToSet, Surjection
<1> QED
  BY <1>1, <1>4, <1>5

LEMMA QueryHolds == AuditInv => QueryFinds
<1> SUFFICES ASSUME AuditInv PROVE QueryFinds
  OBVIOUS
<1>1. /\ AuditTyped /\ InTheirDays /\ MaxAnswer \in Nat \ {0} /\ Days \subseteq Nat
      /\ Len(logged) \in Nat /\ DOMAIN logged = 1..Len(logged) /\ \A n \in DOMAIN logged : logged[n] \in Nat
  BY DEF AuditInv, AuditTyped, Days
<1> SUFFICES ASSUME NEW from \in Days, NEW to \in Days, NEW limit \in 1..(MaxAnswer + 1)
             PROVE  LET answer == GetAudit(from, to, limit) IN
                    /\ \A i, j \in DOMAIN answer : i < j => answer[i] > answer[j]
                    /\ \A n \in DOMAIN logged :
                          /\ logged[n] \in from..to
                          /\ \E d \in Days : d <= to /\ InFile(n, d)
                          /\ n \notin ToSet(answer)
                          => Len(answer) \in {limit, MaxAnswer} /\ \A i \in DOMAIN answer : answer[i] > n
  BY DEF QueryFinds
<1>2. PICK most : most = IF limit < MaxAnswer THEN limit ELSE MaxAnswer
  OBVIOUS
<1>3. most \in Nat \ {0} /\ most \in {limit, MaxAnswer}
  BY <1>1, <1>2
<1>4. PICK found : found = {n \in DOMAIN logged : logged[n] \in from..to /\ \E d \in from..to : InFile(n, d)}
  OBVIOUS
<1>5. IsFiniteSet(found) /\ found \in SUBSET Nat
  <2>1. IsFiniteSet(1..Len(logged))
    BY <1>1, FS_Interval
  <2>2. found \subseteq 1..Len(logged)
    BY <1>1, <1>4
  <2> QED
    <3>1. IsFiniteSet(found)
      BY <2>1, <2>2, FS_Subset
    <3>2. \A n \in 1..Len(logged) : n \in Nat
      BY <1>1
    <3> QED
      BY <2>2, <3>1, <3>2
<1>6. PICK s : s = NewestFirst(found)
  OBVIOUS
<1>7. s \in SetToSeqs(found) /\ Descends(s)
  <2>1. \E x \in SetToSeqs(found) : \A i, j \in DOMAIN x : i < j => x[i] > x[j]
    BY <1>5, Descending DEF Descends
  <2> QED
    BY <1>6, <2>1 DEF NewestFirst, Descends
<1>8. s \in Seq(found) /\ Len(s) \in Nat /\ DOMAIN s = 1..Len(s) /\ ToSet(s) = found
  BY <1>5, <1>7, Listing
<1>9. PICK m : m = IF Len(s) < most THEN Len(s) ELSE most
  OBVIOUS
<1>10. PICK answer : answer = SubSeq(s, 1, m)
  OBVIOUS
<1>11. GetAudit(from, to, limit) = answer
  BY <1>2, <1>4, <1>6, <1>9, <1>10 DEF GetAudit, Query
<1>12. m \in 0..Len(s) /\ m \in Nat /\ (m < Len(s) => m = most)
  BY <1>3, <1>8, <1>9
<1>13. /\ Len(answer) = m /\ DOMAIN answer = 1..m
       /\ \A i \in 1..m : i \in DOMAIN s /\ answer[i] = s[i]
  <2>1. \A i \in 1..m : i \in DOMAIN s /\ s[i] \in found
    BY <1>8, <1>12
  <2>2. answer \in Seq(found) /\ Len(answer) = m /\ \A i \in 1..m : answer[i] = s[i]
    BY <1>10, <1>12, <2>1, SubSeqProperties
  <2> QED
    BY <2>1, <2>2, LenProperties
<1>14. \A i, j \in DOMAIN answer : i < j => answer[i] > answer[j]
  BY <1>7, <1>13 DEF Descends
<1>15. ASSUME NEW n \in DOMAIN logged, logged[n] \in from..to, n \notin ToSet(answer),
              NEW d \in Days, d <= to, InFile(n, d)
       PROVE  Len(answer) \in {limit, MaxAnswer} /\ \A i \in DOMAIN answer : answer[i] > n
  <2>1. logged[n] <= d
    BY <1>1, <1>15 DEF InFile, InTheirDays
  <2>2. d \in from..to
    BY <1>1, <1>15, <2>1
  <2>3. n \in found
    BY <1>4, <1>15, <2>2
  <2>4. PICK j \in 1..Len(s) : s[j] = n
    BY <1>8, <2>3 DEF ToSet
  <2>5. j \notin 1..m
    BY <1>13, <1>15, <2>4 DEF ToSet
  <2>6. m < j /\ m < Len(s)
    BY <1>8, <1>12, <2>5
  <2>7. \A i \in 1..m : i < j
    BY <1>12, <2>6
  <2>8. \A i \in DOMAIN answer : answer[i] > n
    BY <1>7, <1>8, <1>13, <2>4, <2>7 DEF Descends
  <2> QED
    BY <1>3, <1>12, <1>13, <2>6, <2>8
<1> QED
  BY <1>11, <1>14, <1>15

(* The trail has what was logged, in its order, and a query finds it.      *)
THEOREM TrailIsWhole == Spec => []Audited
<1>1. AuditInv => Audited
  BY InOrderHolds, QueryHolds DEF Audited
<1> QED
  BY <1>1, AuditInvariance, PTL
=============================================================================
