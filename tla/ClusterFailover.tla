--------------------------- MODULE ClusterFailover ---------------------------
(***************************************************************************)
(* Failover in a cluster (src/cluster_legacy.c): the elections in which    *)
(* primaries vote for a replica of a failed primary, the configuration     *)
(* epochs elections hand out, and the way a claim to a set of hash slots   *)
(* travels in packet headers and UPDATE messages until every node's table  *)
(* agrees.                                                                 *)
(*                                                                         *)
(* One shard is followed in full: its nodes compete for one set of slots,  *)
(* which always moves as a whole (resharding is a matter of another        *)
(* module).  The primaries of the other shards appear as voters; they keep *)
(* their own slots, and their configuration epochs, distinct from those of *)
(* the shard, do not change.                                               *)
(***************************************************************************)
EXTENDS Integers, FiniteSets

CONSTANTS
  Shard,       \* the nodes of the shard that fails over
  Voter,       \* the primaries of the other shards
  First,       \* the primary of the shard at the start
  Name,        \* node ids as numbers: memcmp() order of clusterNode.name
  None,        \* "not a replica"
  Crashable,   \* nodes that may crash and restart
  EarlyWrite,  \* nodes whose links may be written between a handler and clusterBeforeSleep
  Modes,       \* the scenarios
  MaxEpoch     \* bound: the largest epoch

Node == Shard \cup Voter

\* A scenario.
ModeType ==
  [down      : SUBSET Node,   \* nodes that are down throughout: nobody has a link to them
   failed    : SUBSET Shard,  \* nodes every other node sees as failing at the start
   canfail   : SUBSET Shard,  \* bound: nodes that may come to be seen as failing
   manual    : SUBSET Shard,  \* nodes users may send CLUSTER FAILOVER [FORCE] to
   elections : Nat,           \* bound: the largest epoch of an election
   takeovers : Nat,           \* bound: the largest epoch a CLUSTER FAILOVER TAKEOVER may assign
   pings     : Nat,           \* bound: PING and PONG packets in flight
   crashes   : Nat]           \* bound: crashes

ASSUME NodeAssumption ==
  /\ First \in Shard /\ None \notin Node /\ Shard \cap Voter = {}
  /\ IsFiniteSet(Voter)
  /\ Name \in [Shard -> Nat]
ASSUME BoundAssumption ==
  /\ MaxEpoch \in Nat \ {0}
  /\ Crashable \subseteq Node /\ EarlyWrite \subseteq Crashable
  /\ Modes \subseteq ModeType

VARIABLES
  mode,      \* the scenario of this behaviour
  node,      \* clusterState of each node
  disk,      \* nodes.conf of each node that may crash
  unsaved,   \* nodes with CLUSTER_TODO_SAVE_CONFIG pending
  net,       \* packets in flight
  crashes,   \* crashes so far
  granted,   \* history: every vote granted
  wins       \* history: every election won

vars == <<mode, node, disk, unsaved, net, crashes, granted, wins>>

Up == Node \ mode.down

-----------------------------------------------------------------------------
(* A node's state.  `of`, `conf`, `fail` are clusterNode.replicaof,        *)
(* configEpoch and the FAIL flag in this node's table; `owner` is          *)
(* server.cluster->slots[] for the shard's slots and `quiet` their bits of *)
(* owner_not_claiming_slot.  `auth` is "none" when failover_auth_time is   *)
(* 0, "wait" when an election is scheduled and "sent" when votes were      *)
(* asked for.  `mf` is "none" when mf_end is 0, "asked" while a manual      *)
(* failover waits for its primary to stop and "can" when mf_can_start.     *)
(* `late` is history: the votes in `count` include one that was counted    *)
(* while the election was only scheduled, so it was given for an earlier   *)
(* one.                                                                    *)

Epoch == 0..MaxEpoch

NodeState ==
  [cur : Epoch, vote : Epoch, of : [Shard -> Shard \cup {None}],
   conf : [Shard -> Epoch], fail : SUBSET Shard, owner : Shard, quiet : BOOLEAN,
   auth : {"none", "wait", "sent"}, aepoch : Epoch, count : Nat,
   late : BOOLEAN, mf : {"none", "asked", "can"}]

InitialNode(n) ==
  [cur |-> 1, vote |-> 0,
   of |-> [x \in Shard |-> IF x = First THEN None ELSE First],
   conf |-> [x \in Shard |-> IF x = First THEN 1 ELSE 0],
   fail |-> mode.failed \ {n}, owner |-> First, quiet |-> FALSE,
   auth |-> "none", aepoch |-> 0, count |-> 0, late |-> FALSE, mf |-> "none"]

\* Mutant of Image: lastVoteEpoch is not written.
ImageWithoutVote(s) == [cur |-> s.cur, vote |-> 0, of |-> s.of, conf |-> s.conf,
                        fail |-> s.fail, owner |-> s.owner]

\* What clusterSaveConfig writes.
Image(s) == [cur |-> s.cur, vote |-> s.vote, of |-> s.of, conf |-> s.conf,
             fail |-> s.fail, owner |-> s.owner]

\* clusterGetMaxEpoch
GetMaxEpoch(s) ==
  LET epochs == {s.cur} \cup {s.conf[x] : x \in Shard}
  IN  CHOOSE e \in epochs : \A f \in epochs : f <= e

\* clusterLoadConfig, on a clusterState fresh from clusterInit.
Load(d) ==
  [cur |-> GetMaxEpoch(d), vote |-> d.vote, of |-> d.of, conf |-> d.conf, fail |-> d.fail,
   owner |-> d.owner, quiet |-> FALSE,
   auth |-> "none", aepoch |-> 0, count |-> 0, late |-> FALSE, mf |-> "none"]

Init ==
  /\ mode \in Modes
  /\ node = [n \in Node |-> InitialNode(n)]
  /\ disk = [n \in Crashable |-> Image(InitialNode(n))]
  /\ unsaved = {} /\ net = {} /\ crashes = 0
  /\ granted = {} /\ wins = {}

IsPrimary(s, x)   == x \in Voter \/ s.of[x] = None
IsVoting(s, x)    == x \in Voter \/ (s.of[x] = None /\ s.owner = x)
CurPrimary(s, n)  == IF s.of[n] = None THEN n ELSE s.of[n]
NodeEpoch(s, x)   == s.conf[CurPrimary(s, x)]
Later(d, e)       == IF d > e THEN d ELSE e

\* server.cluster->size of clusterUpdateState, and the majority of it.
Size(s)   == Cardinality(Voter) + (IF s.of[s.owner] = None THEN 1 ELSE 0)
\* Mutant of Quorum: half is enough.
HalfQuorum(s) == Size(s) \div 2

Quorum(s) == Size(s) \div 2 + 1

-----------------------------------------------------------------------------
(* Packets.                                                                *)

\* clusterBuildMessageHdr: a replica announces its primary's epoch and slots.
Header(n, s) ==
  IF n \in Voter
    THEN [src |-> n, cur |-> s.cur, of |-> None, epoch |-> 0, claims |-> FALSE]
    ELSE [src |-> n, cur |-> s.cur, of |-> s.of[n], epoch |-> NodeEpoch(s, n),
          claims |-> s.owner = CurPrimary(s, n)]

HeaderType == [src : Node, cur : Epoch, of : Shard \cup {None},
               epoch : Epoch, claims : BOOLEAN]

PacketType == {"ping", "request", "force_request", "ack", "update"}

\* about, epoch and claims are the payload of an UPDATE.
Packet == [type : PacketType, to : Node, h : HeaderType,
           about : Shard, epoch : Epoch, claims : BOOLEAN]

Plain(type, to, h) == [type |-> type, to |-> to, h |-> h,
                       about |-> First, epoch |-> 0, claims |-> FALSE]

\* clusterSendUpdate about the owner of the slots.
Update(to, h, s) == [type |-> "update", to |-> to, h |-> h, about |-> s.owner,
                     epoch |-> s.conf[s.owner], claims |-> ~s.quiet]

-----------------------------------------------------------------------------
(* Handlers, as functions from the state of the node that runs them.       *)

\* Mutant of Preamble: the sender's currentEpoch is not adopted.
PreambleKeepsEpoch(s, h) ==
  [s EXCEPT !.conf = IF h.src \in Shard /\ h.of = None /\ h.epoch > s.conf[h.src]
                       THEN [@ EXCEPT ![h.src] = h.epoch] ELSE @]

\* The part of clusterProcessPacket run for every packet of a known sender.
\* A primary that claims an epoch at least as new as the one of a running
\* election ends the election.
Preamble(s, h) ==
  LET newer == h.src \in Shard /\ h.of = None /\ h.epoch > s.conf[h.src]
  IN  [s EXCEPT
         !.cur  = Later(@, h.cur),
         !.conf = IF newer THEN [@ EXCEPT ![h.src] = h.epoch] ELSE @,
         !.auth = IF newer /\ @ = "sent" /\ h.epoch >= s.aepoch THEN "none" ELSE @]

\* clusterDelSlot and clusterAddSlot for the whole set of slots.
Bind(s, x) == [s EXCEPT !.owner = x, !.quiet = FALSE]

\* clusterSetPrimary: n becomes a replica of x.
SetPrimary(s, n, x) ==
  [s EXCEPT !.of = [@ EXCEPT ![n] = x], !.mf = "none", !.auth = "none"]

\* clusterSetNodeAsPrimary
SetNodeAsPrimary(s, x) == [s EXCEPT !.of = [@ EXCEPT ![x] = None]]

\* Mutant of UpdateSlotsConfigWith: a claim with an equal epoch is accepted.
RebindOnTie(s, n, x, e, claims) ==
  IF claims /\ x # n /\ s.owner # x /\ s.conf[s.owner] <= e
    THEN IF n \in Shard THEN SetPrimary(Bind(s, x), n, x) ELSE Bind(s, x)
    ELSE s

\* clusterUpdateSlotsConfigWith: x claims (or does not claim) the slots with
\* configuration epoch e.  A node whose shard lost its slots to x, or that has
\* none and sees a newer x that has none either, becomes a replica of x.
UpdateSlotsConfigWith(s, n, x, e, claims) ==
  LET rebind == claims /\ s.owner # x /\ (s.quiet \/ s.conf[s.owner] < e)
      t == IF rebind           THEN Bind(s, x)
           ELSE IF s.owner = x THEN [s EXCEPT !.quiet = ~claims]
           ELSE s
      lost  == rebind /\ s.owner = CurPrimary(s, n)
      adopt == /\ s.of[n] # x /\ ~claims /\ t.owner # n
               /\ NodeEpoch(t, n) < e
  IN  IF x = n THEN s
      ELSE IF n \in Shard /\ (lost \/ adopt) /\ t.owner # CurPrimary(s, n)
        THEN SetPrimary(t, n, x)
      ELSE t

\* A PING whose sender says it is a primary.
FromPrimary(s, n, h) ==
  LET s1 == SetNodeAsPrimary(Preamble(s, h), h.src)
  IN  IF s.of[h.src] # None \/ (s.owner = h.src) # h.claims
        THEN UpdateSlotsConfigWith(s1, n, h.src, h.epoch, h.claims)
        ELSE s1

\* The sender claims slots this node knows to have a newer owner.
Outdated(s, n, h) ==
  LET t == FromPrimary(s, n, h)
  IN  /\ s.of[h.src] # None \/ (s.owner = h.src) # h.claims
      /\ h.claims /\ t.owner # h.src /\ ~t.quiet /\ t.conf[t.owner] > h.epoch

\* clusterHandleConfigEpochCollision
Collides(s, n, h) ==
  /\ n \in Shard /\ s.of[n] = None /\ s.of[h.src] = None
  /\ h.epoch = s.conf[n] /\ s.conf[h.src] = s.conf[n]
  /\ Name[h.src] > Name[n]

\* Mutant of HandleConfigEpochCollision: collisions are left alone.
IgnoreCollision(s, n, h) == s

HandleConfigEpochCollision(s, n, h) ==
  IF Collides(s, n, h)
    THEN [s EXCEPT !.cur = @ + 1, !.conf = [@ EXCEPT ![n] = s.cur + 1]]
    ELSE s

\* The sub-replica safeguard: my primary follows another node, so do I.
FollowChain(s, n) ==
  LET up == IF n \in Shard THEN s.of[n] ELSE None
  IN  IF up # None /\ s.of[up] \notin {None, n} THEN SetPrimary(s, n, s.of[up]) ELSE s

\* A PING whose sender says it replicates h.of.  A sender this node takes for a
\* primary has lost its slots to h.of, unless the packet is older than what is
\* known of h.of.
FromReplica(s, n, h) ==
  LET s1      == Preamble(s, h)
      demoted == s1.of[h.src] = None
      s2 == IF demoted /\ s1.of[h.of] # None
              THEN [SetNodeAsPrimary(IF s1.owner = h.src THEN Bind(s1, h.of) ELSE s1, h.of)
                      EXCEPT !.conf = [@ EXCEPT ![h.of] = h.epoch]]
              ELSE s1
  IN  IF demoted /\ NodeEpoch(s1, h.of) > h.epoch THEN s1
      ELSE IF s2.of[h.src] = h.of THEN s2
      ELSE FollowChain([s2 EXCEPT !.of = [@ EXCEPT ![h.src] = h.of]], n)

\* clusterProcessPacket for PING and PONG.
ProcessPing(s, n, h) ==
  IF h.src \in Voter   THEN Preamble(s, h)
  ELSE IF h.of = None  THEN HandleConfigEpochCollision(FromPrimary(s, n, h), n, h)
  ELSE FromReplica(s, n, h)

\* clusterProcessPacket for UPDATE.
ProcessUpdate(s, n, m) ==
  LET s1 == Preamble(s, m.h)
      s2 == [SetNodeAsPrimary(s1, m.about)
               EXCEPT !.conf = [@ EXCEPT ![m.about] = m.epoch]]
  IN  IF s1.conf[m.about] >= m.epoch THEN s1
      ELSE UpdateSlotsConfigWith(s2, n, m.about, m.epoch, m.claims)

\* Mutant of MayVote: lastVoteEpoch is not consulted.
MayVoteAgain(s, n, m) ==
  /\ IsVoting(s, n) /\ m.h.cur >= s.cur /\ ~IsPrimary(s, m.h.src)
  /\ s.of[m.h.src] \in s.fail \/ m.type = "force_request"

\* The checks of clusterSendFailoverAuthIfNeeded.  safe_to_join, false for a
\* while after a restart, only delays the answer, as the network may.
MayVote(s, n, m) ==
  /\ IsVoting(s, n)
  /\ m.h.cur >= s.cur
  /\ s.vote # s.cur
  /\ ~IsPrimary(s, m.h.src)
  /\ s.of[m.h.src] \in s.fail \/ m.type = "force_request"

SlotsNewer(s, m) == m.h.claims /\ ~s.quiet /\ s.conf[s.owner] > m.h.epoch

-----------------------------------------------------------------------------
(* The event loop runs a handler, then clusterBeforeSleep, which saves what *)
(* the handler changed, then polls and writes the links.  For EarlyWrite   *)
(* what the handler sent may leave before the save: the link was already   *)
(* waiting to be written, or the handler was itself called by              *)
(* clusterBeforeSleep, whose save then waits for the next iteration.       *)

Saved(s, t) == [Image(s) EXCEPT !.cur = 0] # [Image(t) EXCEPT !.cur = 0]

Step(n, t, save) ==
  /\ n \notin unsaved
  /\ t.cur <= MaxEpoch
  /\ node' = [node EXCEPT ![n] = t]
  /\ IF save /\ n \in Crashable
       THEN IF n \in EarlyWrite
              THEN unsaved' = unsaved \cup {n} /\ UNCHANGED disk
              ELSE disk' = [disk EXCEPT ![n] = Image(t)] /\ UNCHANGED unsaved
       ELSE UNCHANGED <<disk, unsaved>>
  /\ UNCHANGED <<mode, crashes>>

BeforeSleep(n) ==
  /\ n \in unsaved
  /\ disk' = [disk EXCEPT ![n] = Image(node[n])]
  /\ unsaved' = unsaved \ {n}
  /\ UNCHANGED <<mode, node, net, crashes, granted, wins>>

-----------------------------------------------------------------------------
(* Cluster bus.  A packet that is lost is one that is never received.  The *)
(* broadcasts of PONG that handlers schedule for clusterBeforeSleep are    *)
(* instances of SendPing, which the cron may take at any moment anyway.    *)

SendPing(n, to) ==
  /\ n # to /\ {n, to} \subseteq Up
  /\ Cardinality({m \in net : m.type = "ping"}) < mode.pings
  /\ net' = net \cup {Plain("ping", to, Header(n, node[n]))}
  /\ UNCHANGED <<mode, node, disk, unsaved, crashes, granted, wins>>

ReceivePing(n, m) ==
  LET s == node[n]
      t == ProcessPing(s, n, m.h)
  IN  /\ m.type = "ping"
      /\ Step(n, t, Saved(s, t))
      /\ net' = (net \ {m}) \cup
                (IF m.h.src \in Shard /\ m.h.of = None /\ Outdated(s, n, m.h)
                   THEN {Update(m.h.src, Header(n, t), t)} ELSE {})
      /\ UNCHANGED <<granted, wins>>

ReceiveUpdate(n, m) ==
  LET t == ProcessUpdate(node[n], n, m)
  IN  /\ m.type = "update"
      /\ Step(n, t, Saved(node[n], t))
      /\ net' = net \ {m}
      /\ UNCHANGED <<granted, wins>>

\* FAILOVER_AUTH_REQUEST: clusterSendFailoverAuthIfNeeded.
ReceiveRequest(n, m) ==
  LET s    == Preamble(node[n], m.h)
      vote == MayVote(s, n, m) /\ ~SlotsNewer(s, m)
      t    == IF vote THEN [s EXCEPT !.vote = s.cur] ELSE s
  IN  /\ m.type \in {"request", "force_request"}
      /\ Step(n, t, vote)
      /\ net' = (net \ {m}) \cup
                (IF vote THEN {Plain("ack", m.h.src, Header(n, t))}
                 ELSE IF MayVote(s, n, m) THEN {Update(m.h.src, Header(n, t), t)}
                 ELSE {})
      /\ granted' = IF vote THEN granted \cup {<<n, t.cur, m.h.src>>} ELSE granted
      /\ UNCHANGED wins

\* FAILOVER_AUTH_ACK.
ReceiveAck(n, m) ==
  LET s     == Preamble(node[n], m.h)
      valid == IsVoting(s, m.h.src) /\ m.h.cur >= s.aepoch
      t     == IF valid THEN [s EXCEPT !.count = @ + 1, !.late = @ \/ s.auth = "wait"] ELSE s
  IN  /\ m.type = "ack"
      /\ Step(n, t, Saved(node[n], t))
      /\ net' = net \ {m}
      /\ UNCHANGED <<granted, wins>>

-----------------------------------------------------------------------------
(* Failure detection, as its outcome: any node may come to hold enough     *)
(* failure reports about a node it cannot reach, or receive a FAIL packet; *)
(* and it forgets the failure when it reaches the node again.              *)

MarkNodeAsFailing(n, x) ==
  LET t == [node[n] EXCEPT !.fail = @ \cup {x}]
  IN  /\ x # n /\ x \notin node[n].fail
      /\ Step(n, t, TRUE)
      /\ UNCHANGED <<net, granted, wins>>

ClearNodeFailure(n, x) ==
  LET t == [node[n] EXCEPT !.fail = @ \ {x}]
  IN  /\ x \in node[n].fail
      /\ Step(n, t, TRUE)
      /\ UNCHANGED <<net, granted, wins>>

-----------------------------------------------------------------------------
(* clusterHandleReplicaFailover, one action per stage.  Time is abstract:  *)
(* a scheduled election may start, and an election may be given up and     *)
(* scheduled again, at any moment.                                         *)

MayFailover(s, n) == s.of[n] # None /\ (s.of[n] \in s.fail \/ s.mf = "can")

Setup(s) == [s EXCEPT !.auth = "wait", !.count = 0, !.late = FALSE]

\* Mutants of Begin: the epoch of the election is the current one, or is one
\* too far.
BeginSameEpoch(s) == [s EXCEPT !.auth = "sent", !.aepoch = s.cur]
BeginTooFar(s)    == [s EXCEPT !.auth = "sent", !.cur = @ + 1, !.aepoch = s.cur + 2]

Begin(s) == [s EXCEPT !.auth = "sent", !.cur = @ + 1, !.aepoch = s.cur + 1]

\* clusterRequestFailoverAuth
Requests(n, s) ==
  {Plain(IF s.mf # "none" THEN "force_request" ELSE "request", x, Header(n, s)) : x \in Up \ {n}}

ScheduleElection(n) ==
  /\ MayFailover(node[n], n) /\ node[n].mf = "none"
  /\ Step(n, Setup(node[n]), FALSE)
  /\ UNCHANGED <<net, granted, wins>>

StartElection(n) ==
  LET t == Begin(node[n])
  IN  /\ MayFailover(node[n], n) /\ node[n].auth = "wait"
      /\ t.cur <= mode.elections
      /\ Step(n, t, TRUE)
      /\ net' = net \cup Requests(n, t)
      /\ UNCHANGED <<granted, wins>>

\* A manual failover does not wait between the two.
StartManualElection(n) ==
  LET t == Begin(Setup(node[n]))
  IN  /\ MayFailover(node[n], n) /\ node[n].mf # "none"
      /\ t.cur <= mode.elections
      /\ Step(n, t, TRUE)
      /\ net' = net \cup Requests(n, t)
      /\ UNCHANGED <<granted, wins>>

\* Mutant of ReplaceYourPrimary: the slots are claimed, the role is not.
ReplaceKeepsRole(s, n) == IF s.owner = s.of[n] THEN Bind(s, n) ELSE s

\* clusterFailoverReplaceYourPrimary
ReplaceYourPrimary(s, n) ==
  LET t == [SetNodeAsPrimary(s, n) EXCEPT !.mf = "none", !.auth = "none"]
  IN  IF s.owner = s.of[n] THEN Bind(t, n) ELSE t

WinElection(n) ==
  LET s == node[n]
      t == ReplaceYourPrimary(
             [s EXCEPT !.conf = [@ EXCEPT ![n] = Later(s.conf[n], s.aepoch)]], n)
  IN  /\ MayFailover(s, n) /\ s.auth = "sent"
      /\ s.count >= Quorum(s)
      /\ Step(n, t, TRUE)
      /\ wins' = wins \cup {[epoch |-> s.aepoch, cand |-> n, size |-> Size(s), late |-> s.late]}
      /\ UNCHANGED <<net, granted>>

-----------------------------------------------------------------------------
(* CLUSTER FAILOVER.                                                       *)

\* Without options: the primary is asked to stop its clients (MFSTART).
AskFailover(n) ==
  LET s == node[n]
      t == [s EXCEPT !.mf = "asked"]
  IN  /\ n \in mode.manual /\ s.of[n] # None /\ s.of[n] \in Up \ s.fail
      /\ s.mf # "asked"
      /\ Step(n, t, FALSE)
      /\ UNCHANGED <<net, granted, wins>>

\* manualFailoverCanStart, with FORCE (from any state: the command first resets
\* the manual failover) or once the paused primary's offset was reached.
StartFailover(n) ==
  LET s == node[n]
      t == [s EXCEPT !.mf = "can", !.auth = "none"]
  IN  /\ n \in mode.manual /\ s.of[n] # None
      /\ s # t
      /\ Step(n, t, FALSE)
      /\ UNCHANGED <<net, granted, wins>>

\* manualFailoverCheckTimeout
ManualFailoverTimeout(n) ==
  LET t == [node[n] EXCEPT !.mf = "none"]
  IN  /\ node[n].mf # "none"
      /\ Step(n, t, FALSE)
      /\ UNCHANGED <<net, granted, wins>>

\* clusterBumpConfigEpochWithoutConsensus
BumpConfigEpoch(s, n) ==
  IF s.conf[n] = 0 \/ s.conf[n] # GetMaxEpoch(s)
    THEN [s EXCEPT !.cur = @ + 1, !.conf = [@ EXCEPT ![n] = s.cur + 1]] ELSE s

Takeover(n) ==
  LET s == node[n]
      t == ReplaceYourPrimary(BumpConfigEpoch(s, n), n)
  IN  /\ s.of[n] # None /\ t.cur <= mode.takeovers
      /\ Step(n, t, TRUE)
      /\ UNCHANGED <<net, granted, wins>>

-----------------------------------------------------------------------------
\* A crash loses memory and the packets on the way to the node.
Crash(n) ==
  /\ crashes < mode.crashes
  /\ crashes' = crashes + 1
  /\ node' = [node EXCEPT ![n] = Load(disk[n])]
  /\ unsaved' = unsaved \ {n}
  /\ net' = {m \in net : m.to # n}
  /\ UNCHANGED <<mode, disk, granted, wins>>

Receive(m) ==
  \/ ReceivePing(m.to, m) \/ ReceiveUpdate(m.to, m)
  \/ ReceiveRequest(m.to, m) \/ ReceiveAck(m.to, m)

Next ==
  \/ \E n, x \in Node : SendPing(n, x)
  \/ \E m \in net : Receive(m)
  \/ \E n \in Up, x \in mode.canfail : MarkNodeAsFailing(n, x) \/ ClearNodeFailure(n, x)
  \/ \E n \in Shard \cap Up :
       \/ ScheduleElection(n) \/ StartElection(n) \/ StartManualElection(n)
       \/ WinElection(n)
       \/ AskFailover(n) \/ StartFailover(n) \/ ManualFailoverTimeout(n)
       \/ Takeover(n)
  \/ \E n \in Crashable \cap Up : BeforeSleep(n) \/ Crash(n)

Spec == Init /\ [][Next]_vars

\* The cron pings every node again and again, a node processes what arrives,
\* and its event loop comes to clusterBeforeSleep.
AlwaysUp == Node \ UNION {m.down : m \in Modes}

Fairness ==
  \A n \in AlwaysUp :
    /\ \A x \in AlwaysUp \ {n} : SF_vars(SendPing(n, x))
    /\ WF_vars(\E m \in net : m.to = n /\ ReceivePing(n, m))
    /\ WF_vars(\E m \in net : m.to = n /\ ReceiveUpdate(n, m))
    /\ n \in EarlyWrite => WF_vars(BeforeSleep(n))

FairSpec == Spec /\ Fairness

-----------------------------------------------------------------------------
(* Properties.                                                             *)

\* Every field stays within its type, and no epoch outruns its bound.
TypeOK ==
  /\ mode \in Modes
  /\ node \in [Node -> NodeState]
  /\ disk \in [Crashable -> [cur : Epoch, vote : Epoch, of : [Shard -> Shard \cup {None}],
                             conf : [Shard -> Epoch], fail : SUBSET Shard, owner : Shard]]
  /\ unsaved \subseteq Crashable
  /\ net \subseteq Packet
  /\ crashes \in 0..mode.crashes
  /\ granted \subseteq Node \X Epoch \X Node
  /\ wins \subseteq [epoch : Epoch, cand : Shard, size : Nat, late : BOOLEAN]

\* "I already voted for this epoch? Return ASAP.": no node votes for two
\* candidates in one epoch, the votes of before a restart included.
OneVotePerEpoch ==
  \A v1, v2 \in granted : v1[1] = v2[1] /\ v1[2] = v2[2] => v1[3] = v2[3]

\* The votes a winner counted were granted, for that epoch, by different primaries
\* that are a majority of those it knows of, unless it counted a vote before it
\* had asked for one: failover_auth_count is reset when an election is scheduled
\* and failover_auth_epoch moves when it starts.
WinnerHasMajority ==
  \A w \in wins : ~w.late =>
    2 * Cardinality({v \in granted : v[2] = w.epoch /\ v[3] = w.cand}) > w.size

\* Two replicas do not win one epoch, restarts and repeated elections included,
\* unless one of them counted a vote before it had asked for one.
ElectionSafety ==
  \A w1, w2 \in wins :
    w1.epoch = w2.epoch /\ ~w1.late /\ ~w2.late => w1.cand = w2.cand

\* "It is not possible that different replicas get the same config epoch during
\* a failover election, because the replicas need to get voted by a majority."
OneWinnerPerEpoch ==
  \A w1, w2 \in wins : w1.epoch = w2.epoch => w1.cand = w2.cand

\* Without takeovers, and unless a winner counted a late vote, two nodes that both
\* believe they own the slots can always be told apart by their configuration
\* epochs, so claims are totally ordered.
OwnersHaveDistinctEpochs ==
  (\A w \in wins : ~w.late) =>
    \A n, x \in Shard :
      n # x /\ node[n].owner = n /\ node[x].owner = x => node[n].conf[n] # node[x].conf[x]

\* clusterLoadConfig: "Something that should never happen: currentEpoch smaller
\* than the max epoch found in the nodes configuration."  It holds of the memory
\* of every node and of what it saved, in whatever order epochs arrive.
CurrentEpochIsMax ==
  /\ \A n \in Node, x \in Shard : node[n].conf[x] <= node[n].cur
  /\ \A n \in Crashable, x \in Shard : disk[n].conf[x] <= disk[n].cur

\* serverAssert(myself->numslots == 0) in clusterSetPrimary: a node that
\* follows another one has no slots of its own when its primary changes.
NoSlotsToGiveUp ==
  \A n \in Shard : node[n].of[n] # None => node[n].owner # n

\* While a node runs, the slots of its table only move to owners with a greater
\* configuration epoch, whichever packets arrive late.
SlotsGoForward ==
  [][\A n \in Node :
       node'[n].owner # node[n].owner /\ crashes' = crashes =>
         node'[n].conf[node'[n].owner] > node[n].conf[node[n].owner]]_vars

\* "nothing is worse than a split-brain condition": once nobody interferes any
\* more, pings and UPDATE packets bring every reachable node to the same owner
\* of the slots, and the other nodes of the shard to be its replicas.
Agreed ==
  \E x \in Shard : \A n \in Up :
     /\ node[n].owner = x
     /\ \A y \in Shard \cap Up : node[n].of[y] = IF y = x THEN None ELSE x

Converges == <>[]Agreed
=============================================================================
