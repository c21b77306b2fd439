--------------------------- MODULE MCReplication ------------------------------
(* Instances of Replication: scenarios of two and three servers.           *)
EXTENDS Replication

CONSTANTS sa, sb, sc

Star  == [s \in Server |-> IF s = sa THEN None ELSE sa]
Chain == [s \in Server |-> IF s = sa THEN None ELSE IF s = sb THEN sa ELSE sb]

Scenario(h, o, d, w, n, f, r) ==
    [hosts |-> h, ops |-> o, diskless |-> d, writes |-> w, nops |-> n,
     faults |-> f, restarts |-> r]

(* Changes of role among a primary and two replicas, with disk-based and   *)
(* diskless snapshots, in a star and in a chain, and a failover.           *)
MCRoles ==
    {Scenario(Star, {"noone", "replicaof"}, FALSE, 2, 2, 0, 0),
     Scenario(Chain, {"noone", "replicaof"}, TRUE, 2, 1, 1, 0),
     Scenario(Star, {"failover"}, FALSE, 2, 1, 1, 0)}

(* Restarts, failed snapshots and failed loads, and failovers between two  *)
(* servers.                                                                *)
MCRestarts ==
    {Scenario(Star, {"save", "noone", "replicaof", "freebacklog"},
              FALSE, 2, 2, 0, 1),
     Scenario(Star, {"noone", "replicaof"}, TRUE, 2, 2, 1, 1),
     Scenario(Star, {"failover", "abort"}, FALSE, 2, 2, 1, 0)}
===============================================================================
