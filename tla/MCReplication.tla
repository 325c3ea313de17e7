---------------------------- MODULE MCReplication ----------------------------
(* An instance of Replication for TLC. *)
EXTENDS Replication

MCIds == {<<"-", "a">>, <<"n", "a">>}

Options(kinds) ==
    {[binary |-> "binary" \in k, isolated |-> "isolated" \in k, compress |-> "compress" \in k] :
     k \in kinds}

Workload(calls, kinds, n, seconds, runs) ==
    [calls |-> calls, options |-> Options(kinds), ops |-> n, seconds |-> seconds, starts |-> runs]

MCWorkloads ==
    {Workload({"write"}, {{}}, 4, 3, 3),
     Workload({"write", "restore"}, {{}, {"binary", "compress"}}, 3, 3, 2),
     Workload({"create", "write", "refused"}, {{"isolated"}, {"binary", "isolated"}}, 4, 1, 2),
     Workload({"grpcCreate", "upsert", "stream", "delete", "drop"}, {{}, {"isolated"}}, 4, 1, 2),
     Workload({"grpcCreate", "backup", "mcp", "delete"}, {{}, {"isolated"}}, 4, 1, 1),
     Workload({"patch", "write", "drop", "restore"}, {{}}, 3, 2, 2),
     Workload({"write", "refused", "follow", "replicaWrite"}, {{"compress"}}, 4, 1, 3)}
=============================================================================
