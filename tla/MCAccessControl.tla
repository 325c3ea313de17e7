--------------------------- MODULE MCAccessControl ---------------------------
(* An instance of AccessControl for TLC. *)
EXTENDS AccessControl

CONSTANTS c, tenant

Entry(on, actions, only) == [on |-> on, actions |-> actions, only |-> only]

(* Lists of permissions: of a collection under a restriction and of all    *)
(* without one, in either order, and of one action only.                   *)
MCGrants ==
    {<<Entry("all", {"read"}, "all"), Entry(c, {"read"}, tenant)>>,
     <<Entry(c, {"write"}, tenant), Entry("all", {"read"}, "all")>>}

MCWorkloads ==
    {[ops |-> {"createKey", "deleteKey", "updateKey", "use"},
      calls |-> 3, restarts |-> 1, writes |-> FALSE],
     [ops |-> {"createUser", "deleteUser", "login", "use"},
      calls |-> 3, restarts |-> 1, writes |-> FALSE],
     [ops |-> {"setPassword", "setPermissions", "login"},
      calls |-> 3, restarts |-> 0, writes |-> FALSE],
     [ops |-> {"putCredential", "deleteCredential", "complete"}, calls |-> 3, restarts |-> 1, writes |-> TRUE]}
=============================================================================
