------------------------- MODULE MCClusterFailover -------------------------
(***************************************************************************)
(* ClusterFailover for TLC: the nodes are model values, ids are ordered    *)
(* p < r1 < r2, and the voters are interchangeable.                        *)
(***************************************************************************)
EXTENDS ClusterFailover, TLC

CONSTANTS p, r1, r2, v1, v2

MCName   == [n \in Shard |-> CASE n = p -> 1 [] n = r1 -> 2 [] n = r2 -> 3]
Symmetry == Permutations(Voter)

\* Nothing happens but what a scenario adds.
Quiet == [down |-> {}, failed |-> {}, canfail |-> {}, manual |-> {},
          elections |-> 0, takeovers |-> 0, pings |-> 0, crashes |-> 0]

\* The primary is dead and its two replicas compete.
Dead == [Quiet EXCEPT !.down = {p}, !.failed = {p}]

\* Each may try again, so votes for one election arrive in the next.
Retries == {[Dead EXCEPT !.elections = 3]}

\* Each asks once; a replica and the voters restart.
Restarts == {[Dead EXCEPT !.elections = 2, !.crashes = 2]}

\* The primary is up and votes; one voter is away.  The replica takes over and
\* gives back; both replicas are told to; a failure that comes and goes gives the
\* other replica an election of its own, or the same replica a second one.
OneAway(v) == [Quiet EXCEPT !.down = {v}, !.elections = 2]
Manual ==
  UNION {{[OneAway(v) EXCEPT !.down = {r2, v}, !.manual = {p, r1}, !.elections = 3, !.pings = 1],
          [OneAway(v) EXCEPT !.manual = {r1, r2}],
          [OneAway(v) EXCEPT !.manual = {r1}, !.canfail = {p}],
          [OneAway(v) EXCEPT !.down = {r2, v}, !.manual = {r1}, !.canfail = {p}, !.elections = 3]}
           : v \in Voter}

Elections == Retries \cup Restarts \cup Manual

\* Takeovers by both replicas of a dead primary, and a restart.
Takeovers == {[Quiet EXCEPT !.down = {p}, !.takeovers = 3, !.pings = 1, !.crashes = 1]}
=============================================================================
