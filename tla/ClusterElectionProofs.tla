------------------------ MODULE ClusterElectionProofs ------------------------
(***************************************************************************)
(* Theorems about ClusterFailover that rest on the types and the votes of  *)
(* ClusterFailoverProofs: an election whose votes were all counted after   *)
(* they were asked for is won with the votes of a majority, and a replica  *)
(* owns no slots.                                                          *)
(***************************************************************************)
EXTENDS ClusterFailoverProofs

-----------------------------------------------------------------------------
(* What the handlers leave of a running election.                          *)

\* The election of s goes on in t, with the same epoch and count, or has ended.
Campaign(t, s) ==
  /\ t.aepoch = s.aepoch /\ t.count = s.count /\ t.late = s.late
  /\ t.auth = s.auth \/ t.auth = "none"

\* A handler that gives no vote, counts none and starts no election.
Kept(t, s) == After(t, s) /\ Campaign(t, s)

\* One handler after another.
LEMMA KeptTransitive ==
  ASSUME NEW s, NEW t, NEW u, Good(s), Kept(t, s), Kept(u, t)
  PROVE  Kept(u, s)
  BY AfterTransitive DEF Kept, Campaign

\* No handler at all.
LEMMA KeptReflexive ==
  ASSUME NEW s, Good(s)
  PROVE  Kept(s, s)
  BY DEF Kept, Campaign, After, Good, Fields

\* The part of clusterProcessPacket common to all packets: a newer claim may end
\* the election.
LEMMA PreambleKept ==
  ASSUME NEW s, Good(s), NEW h, GoodHeader(h)
  PROVE  Kept(Preamble(s, h), s)
<1> DEFINE newer == h.src \in Shard /\ h.of = None /\ h.epoch > s.conf[h.src]
           cf    == IF newer THEN [s.conf EXCEPT ![h.src] = h.epoch] ELSE s.conf
           au    == IF newer /\ s.auth = "sent" /\ h.epoch >= s.aepoch
                      THEN "none" ELSE s.auth
           top   == Later(s.cur, h.cur)
<1>1. Preamble(s, h) = [s EXCEPT !.cur = top, !.conf = cf, !.auth = au]
  BY DEF Preamble, Good, Fields
<1>2. au = s.auth \/ au = "none"
  OBVIOUS
<1> HIDE DEF cf, au, top
<1>3. Campaign(Preamble(s, h), s)
  BY <1>1, <1>2 DEF Campaign, Good, Fields
<1> QED BY <1>3, PreambleGood DEF Kept

\* Slots, roles and epochs of the table.
LEMMA BindKept ==
  ASSUME NEW s, Good(s), NEW x \in Shard
  PROVE  Kept(Bind(s, x), s)
  BY BindGood DEF Kept, Campaign, Bind, Good, Fields

\* clusterSetPrimary ends the election.
LEMMA SetPrimaryKept ==
  ASSUME NEW s, Good(s), NEW n \in Shard, NEW x \in Shard
  PROVE  Kept(SetPrimary(s, n, x), s)
<1>1. Campaign(SetPrimary(s, n, x), s)
  BY DEF Campaign, SetPrimary, Good, Fields
<1> QED BY <1>1, SetPrimaryGood DEF Kept

\* clusterSetNodeAsPrimary.
LEMMA SetNodeAsPrimaryKept ==
  ASSUME NEW s, Good(s), NEW x \in Shard
  PROVE  Kept(SetNodeAsPrimary(s, x), s)
<1>1. Campaign(SetNodeAsPrimary(s, x), s)
  BY DEF Campaign, SetNodeAsPrimary, Good, Fields
<1> QED BY <1>1, SetNodeAsPrimaryGood DEF Kept

\* A configuration epoch is recorded.
LEMMA SetConfKept ==
  ASSUME NEW s, Good(s), NEW x \in Shard, NEW e \in Nat, e <= s.cur
  PROVE  Kept([s EXCEPT !.conf = [@ EXCEPT ![x] = e]], s)
<1>1. Campaign([s EXCEPT !.conf = [@ EXCEPT ![x] = e]], s)
  BY DEF Campaign, Good, Fields
<1> QED BY <1>1, SetConfGood DEF Kept

\* owner_not_claiming_slot and replicaof.
LEMMA QuietKept ==
  ASSUME NEW s, Good(s), NEW b \in BOOLEAN
  PROVE  Kept([s EXCEPT !.quiet = b], s)
<1>1. Campaign([s EXCEPT !.quiet = b], s)
  BY DEF Campaign, Good, Fields
<1> QED BY <1>1, QuietGood DEF Kept

\* replicaof of another node.
LEMMA RetargetKept ==
  ASSUME NEW s, Good(s), NEW x \in Shard, NEW y \in Shard \cup {None}
  PROVE  Kept([s EXCEPT !.of = [@ EXCEPT ![x] = y]], s)
<1>1. Campaign([s EXCEPT !.of = [@ EXCEPT ![x] = y]], s)
  BY DEF Campaign, Good, Fields
<1> QED BY <1>1, RetargetGood DEF Kept

\* clusterUpdateSlotsConfigWith.
LEMMA UpdateSlotsConfigWithKept ==
  ASSUME NEW s, Good(s), NEW n \in Node, NEW x \in Shard,
         NEW e, NEW claims \in BOOLEAN
  PROVE  Kept(UpdateSlotsConfigWith(s, n, x, e, claims), s)
<1> DEFINE rebind == claims /\ s.owner # x /\ (s.quiet \/ s.conf[s.owner] < e)
           t == IF rebind           THEN Bind(s, x)
                ELSE IF s.owner = x THEN [s EXCEPT !.quiet = ~claims]
                ELSE s
<1>1. Kept(t, s)
  BY BindKept, QuietKept, KeptReflexive
<1>2. \/ UpdateSlotsConfigWith(s, n, x, e, claims) = s
      \/ UpdateSlotsConfigWith(s, n, x, e, claims) = t
      \/ n \in Shard /\ UpdateSlotsConfigWith(s, n, x, e, claims) = SetPrimary(t, n, x)
  BY Zenon DEF UpdateSlotsConfigWith
<1> HIDE DEF t
<1>3. n \in Shard => Kept(SetPrimary(t, n, x), s)
  BY <1>1, SetPrimaryKept, KeptTransitive DEF Kept, After
<1> QED BY <1>1, <1>2, <1>3, KeptReflexive

\* A PING of a primary.
LEMMA FromPrimaryKept ==
  ASSUME NEW s, Good(s), NEW n \in Node, NEW h, GoodHeader(h), h.src \in Shard
  PROVE  Kept(FromPrimary(s, n, h), s)
<1> DEFINE s1 == SetNodeAsPrimary(Preamble(s, h), h.src)
<1>1. Kept(Preamble(s, h), s)
  BY PreambleKept
<1>2. Kept(s1, s)
  BY <1>1, SetNodeAsPrimaryKept, KeptTransitive DEF Kept, After
<1>3. h.claims \in BOOLEAN
  BY DEF GoodHeader, HeaderType
<1>4. \/ FromPrimary(s, n, h) = s1
      \/ FromPrimary(s, n, h) = UpdateSlotsConfigWith(s1, n, h.src, h.epoch, h.claims)
  BY Zenon DEF FromPrimary
<1> HIDE DEF s1
<1>5. Kept(UpdateSlotsConfigWith(s1, n, h.src, h.epoch, h.claims), s1)
  BY <1>2, <1>3, UpdateSlotsConfigWithKept DEF Kept, After
<1> QED BY <1>2, <1>4, <1>5, KeptTransitive

\* clusterHandleConfigEpochCollision.
LEMMA CollisionKept ==
  ASSUME NEW s, Good(s), NEW n \in Node, NEW h
  PROVE  Kept(HandleConfigEpochCollision(s, n, h), s)
<1>1. Campaign(HandleConfigEpochCollision(s, n, h), s)
  BY DEF Campaign, HandleConfigEpochCollision, Good, Fields
<1> QED BY <1>1, CollisionGood DEF Kept

\* The sub-replica safeguard.
LEMMA FollowChainKept ==
  ASSUME NEW s, Good(s), NEW n \in Node
  PROVE  Kept(FollowChain(s, n), s)
<1> DEFINE up == IF n \in Shard THEN s.of[n] ELSE None
<1>1. CASE up # None /\ s.of[up] \notin {None, n}
  <2>1. n \in Shard /\ up \in Shard /\ s.of[up] \in Shard
    BY <1>1 DEF Good, Fields
  <2>2. FollowChain(s, n) = SetPrimary(s, n, s.of[up])
    BY <1>1 DEF FollowChain
  <2> QED BY <2>1, <2>2, SetPrimaryKept
<1>2. CASE ~(up # None /\ s.of[up] \notin {None, n})
  <2>1. FollowChain(s, n) = s
    BY <1>2 DEF FollowChain
  <2> QED BY <2>1, KeptReflexive
<1> QED BY <1>1, <1>2

\* A PING of a replica.
LEMMA FromReplicaKept ==
  ASSUME NEW s, Good(s), NEW n \in Node, NEW h, GoodHeader(h),
         h.src \in Shard, h.of # None
  PROVE  Kept(FromReplica(s, n, h), s)
<1> DEFINE s1      == Preamble(s, h)
           bound   == IF s1.owner = h.src THEN Bind(s1, h.of) ELSE s1
           raised  == SetNodeAsPrimary(bound, h.of)
           crowned == [raised EXCEPT !.conf = [@ EXCEPT ![h.of] = h.epoch]]
           demoted == s1.of[h.src] = None
           s2 == IF demoted /\ s1.of[h.of] # None THEN crowned ELSE s1
           s3 == [s2 EXCEPT !.of = [@ EXCEPT ![h.src] = h.of]]
<1>1. h.of \in Shard /\ h.epoch \in Nat /\ h.cur \in Nat /\ h.epoch <= h.cur
  BY DEF GoodHeader, HeaderType, Epoch
<1>2. Kept(s1, s) /\ h.cur <= s1.cur
  BY PreambleGood, PreambleKept
<1>3. FromReplica(s, n, h) \in {s1, s2, FollowChain(s3, n)}
  BY Zenon DEF FromReplica
<1> HIDE DEF s1
<1>4. Kept(bound, s1)
  BY <1>1, <1>2, BindKept, KeptReflexive DEF Kept, After
<1> HIDE DEF bound
<1>5. Kept(raised, bound)
  BY <1>1, <1>4, SetNodeAsPrimaryKept DEF Kept, After
<1> HIDE DEF raised
<1>6. h.epoch <= raised.cur
  BY <1>1, <1>2, <1>4, <1>5 DEF Kept, After, Good, Fields
<1>7. Kept(crowned, raised)
  BY <1>1, <1>5, <1>6, SetConfKept DEF Kept, After
<1> HIDE DEF crowned
<1>8. Kept(crowned, s)
  BY <1>2, <1>4, <1>5, <1>7, KeptTransitive DEF Kept, After
<1>9. Kept(s2, s)
  BY <1>2, <1>8
<1> HIDE DEF s2
<1>10. Kept(s3, s2)
  BY <1>1, <1>9, RetargetKept DEF Kept, After
<1> HIDE DEF s3
<1>11. Kept(FollowChain(s3, n), s3)
  BY <1>10, FollowChainKept DEF Kept, After
<1>12. Kept(FollowChain(s3, n), s)
  BY <1>9, <1>10, <1>11, KeptTransitive DEF Kept, After
<1> QED BY <1>2, <1>3, <1>9, <1>12

\* clusterProcessPacket for PING and PONG.
LEMMA ProcessPingKept ==
  ASSUME NEW s, Good(s), NEW n \in Node, NEW h, GoodHeader(h)
  PROVE  Kept(ProcessPing(s, n, h), s)
<1>1. CASE h.src \in Voter
  BY <1>1, PreambleKept DEF ProcessPing
<1>2. CASE h.src \notin Voter
  <2>1. h.src \in Shard
    BY <1>2 DEF GoodHeader, HeaderType, Node
  <2>2. CASE h.of = None
    <3>1. Kept(FromPrimary(s, n, h), s)
      BY <2>1, FromPrimaryKept
    <3>2. Kept(HandleConfigEpochCollision(FromPrimary(s, n, h), n, h), FromPrimary(s, n, h))
      BY <3>1, CollisionKept DEF Kept, After
    <3> QED BY <1>2, <2>2, <3>1, <3>2, KeptTransitive DEF ProcessPing
  <2>3. CASE h.of # None
    BY <1>2, <2>1, <2>3, FromReplicaKept DEF ProcessPing
  <2> QED BY <2>2, <2>3
<1> QED BY <1>1, <1>2

\* clusterProcessPacket for UPDATE.
LEMMA ProcessUpdateKept ==
  ASSUME NEW s, Good(s), NEW n \in Node, NEW m, GoodPacket(m)
  PROVE  Kept(ProcessUpdate(s, n, m), s)
<1> DEFINE s1 == Preamble(s, m.h)
           sp == SetNodeAsPrimary(s1, m.about)
           s2 == [sp EXCEPT !.conf = [@ EXCEPT ![m.about] = m.epoch]]
           u  == UpdateSlotsConfigWith(s2, n, m.about, m.epoch, m.claims)
<1>1. m.about \in Shard /\ m.epoch \in Nat /\ m.claims \in BOOLEAN /\ m.h.cur \in Nat
  BY DEF GoodPacket, Packet, HeaderType, GoodHeader, Epoch
<1>2. Kept(s1, s) /\ m.h.cur <= s1.cur
  BY PreambleGood, PreambleKept DEF GoodPacket
<1>3. ProcessUpdate(s, n, m) \in {s1, u}
  BY Zenon DEF ProcessUpdate
<1> HIDE DEF s1
<1>4. Kept(sp, s1)
  BY <1>1, <1>2, SetNodeAsPrimaryKept DEF Kept, After
<1> HIDE DEF sp
<1>5. m.epoch <= sp.cur
  BY <1>1, <1>2, <1>4 DEF Kept, After, Good, Fields, GoodPacket
<1>6. Kept(s2, sp)
  BY <1>1, <1>4, <1>5, SetConfKept DEF Kept, After
<1> HIDE DEF s2
<1>7. Kept(u, s2)
  BY <1>1, <1>6, UpdateSlotsConfigWithKept DEF Kept, After
<1> HIDE DEF u
<1>8. Kept(u, s)
  BY <1>2, <1>4, <1>6, <1>7, KeptTransitive DEF Kept, After
<1> QED BY <1>2, <1>3, <1>8

\* clusterFailoverReplaceYourPrimary ends the election.
LEMMA ReplaceYourPrimaryCampaign ==
  ASSUME NEW s, Good(s), NEW n \in Shard
  PROVE  Campaign(ReplaceYourPrimary(s, n), s) /\ ReplaceYourPrimary(s, n).auth = "none"
<1> DEFINE t == [SetNodeAsPrimary(s, n) EXCEPT !.mf = "none", !.auth = "none"]
<1>1. /\ t.aepoch = s.aepoch /\ t.count = s.count /\ t.late = s.late
      /\ t.auth = "none" /\ t \in Fields
  BY DEF SetNodeAsPrimary, Good, Fields
<1>2. ReplaceYourPrimary(s, n) \in {t, Bind(t, n)}
  BY DEF ReplaceYourPrimary
<1> HIDE DEF t
<1> QED BY <1>1, <1>2 DEF Campaign, Bind, Fields

-----------------------------------------------------------------------------
(* The count of an election.  An epoch is used for one election of a node  *)
(* only: everything asked for or granted earlier is of an older epoch,     *)
(* restarts included, because a node saves the epoch it begins.  So, once  *)
(* an election runs, only votes for its epoch are counted, each of them    *)
(* once: the counted ones and the ones in flight are different.  Votes of  *)
(* earlier elections are counted only while an election is scheduled, and  *)
(* `late` remembers that they were.                                        *)

\* The epochs of the elections of n up to now are not above e.
Reached(n, e) ==
  /\ e <= node[n].cur
  /\ n \in Crashable => e <= disk[n].cur
  /\ node[n].auth = "sent" => e <= node[n].aepoch

SameVote(m, k) == m.to = k.to /\ m.h.src = k.h.src /\ m.h.cur = k.h.cur

BallotsOK ==
  /\ \A m \in net : m.type \in {"request", "force_request"} => Reached(m.h.src, m.h.cur)
  /\ \A v \in granted : Reached(v[3], v[2])
  /\ \A m \in net : m.type = "ack" => <<m.h.src, m.h.cur, m.to>> \in granted
  /\ \A m, k \in net :
       (m.type = "ack" /\ k.type = "ack" /\ SameVote(m, k)) => m = k

\* The votes n may count, and the tally of a scheduled and of a running election.
VotesFor(n, e) == {v \in granted : v[2] = e /\ v[3] = n}

Waits(n) == node[n].auth = "wait" /\ ~node[n].late => node[n].count = 0

Counts(n) ==
  node[n].auth = "sent" /\ ~node[n].late =>
    \E C \in SUBSET VotesFor(n, node[n].aepoch) :
      /\ Cardinality(C) = node[n].count
      /\ \A m \in net : m.type = "ack" /\ m.to = n => <<m.h.src, m.h.cur, n>> \notin C

CountInv ==
  /\ IsFiniteSet(granted) /\ BallotsOK
  /\ \A n \in Node : Waits(n) /\ Counts(n)

\* A step of a node lowers none of its epochs and begins an election, if it
\* does, with an epoch of its own.
Onward(t, s) ==
  /\ s.cur <= t.cur
  /\ t.auth = "sent" =>
       \/ s.auth = "sent" /\ t.aepoch = s.aepoch
       \/ t.aepoch = t.cur

\* Epochs reached stay reached.
LEMMA ReachedKept ==
  ASSUME NodesInv, NodesInv', NEW n \in Node, Moves(n), Onward(node'[n], node[n]),
         NEW x \in Node, NEW e \in Nat, Reached(x, e)
  PROVE  Reached(x, e)'
<1>1. node[x].cur \in Nat /\ node'[n].cur \in Nat /\ node'[n].aepoch \in Nat
  BY DEF NodesInv, NodeState, Epoch
<1>2. x = n \/ node'[x] = node[x]
  BY DEF Moves, NodesInv
<1>3. e <= node'[x].cur /\ (node'[x].auth = "sent" => e <= node'[x].aepoch)
  BY <1>1, <1>2 DEF Onward, Reached
<1>4. x \in Crashable => e <= disk'[x].cur
  <2> SUFFICES ASSUME x \in Crashable PROVE e <= disk'[x].cur
    OBVIOUS
  <2>1. disk'[x] = disk[x] \/ (x = n /\ disk'[x] = Image(node'[n]))
    BY DEF Moves, NodesInv
  <2>2. Image(node'[n]).cur = node'[n].cur
    BY DEF Image
  <2> QED BY <1>3, <2>1, <2>2 DEF Reached
<1> QED BY <1>3, <1>4 DEF Reached

\* A step that neither counts a vote nor sends one again keeps a tally.
LEMMA CountsKept ==
  ASSUME NEW x \in Node, Counts(x), granted \subseteq granted',
         node'[x].auth = "sent" /\ ~node'[x].late =>
           /\ node[x].auth = "sent" /\ ~node[x].late
           /\ node'[x].aepoch = node[x].aepoch /\ node'[x].count = node[x].count,
         \A m \in net' : m.type = "ack" =>
           m \in net \/ <<m.h.src, m.h.cur, m.to>> \notin granted
  PROVE  Counts(x)'
<1> SUFFICES ASSUME node'[x].auth = "sent", ~node'[x].late
             PROVE  \E C \in SUBSET VotesFor(x, node[x].aepoch)' :
                      /\ Cardinality(C) = node'[x].count
                      /\ \A m \in net' : m.type = "ack" /\ m.to = x =>
                                           <<m.h.src, m.h.cur, x>> \notin C
  BY DEF Counts, VotesFor
<1>1. PICK C \in SUBSET VotesFor(x, node[x].aepoch) :
        /\ Cardinality(C) = node[x].count
        /\ \A m \in net : m.type = "ack" /\ m.to = x => <<m.h.src, m.h.cur, x>> \notin C
  BY DEF Counts
<1>2. C \subseteq granted /\ C \subseteq {v \in granted' : v[2] = node[x].aepoch /\ v[3] = x}
  BY <1>1 DEF VotesFor
<1>3. \A m \in net' : m.type = "ack" /\ m.to = x => <<m.h.src, m.h.cur, x>> \notin C
  BY <1>1, <1>2
<1> QED BY <1>1, <1>2, <1>3 DEF VotesFor

\* A step that grants no vote, counts none, and starts no election.
LEMMA QuietCount ==
  ASSUME FailoverInv, NodesInv', CountInv, NEW n \in Node, Moves(n),
         Onward(node'[n], node[n]), Campaign(node'[n], node[n]), granted' = granted,
         \A m \in net' : m \in net \/ m.type \in {"ping", "update"}
  PROVE  CountInv'
<1>1. \A x \in Node : x = n \/ node'[x] = node[x]
  BY DEF Moves, FailoverInv, NodesInv
<1>2. \A m \in net : m.h.src \in Node /\ m.h.cur \in Nat
  BY DEF FailoverInv, NetInv, GoodPacket, GoodHeader, HeaderType, Epoch
<1>3. \A v \in granted : v[3] \in Node /\ v[2] \in Nat
  BY DEF FailoverInv, HistoryType, Epoch
<1>4. \A x \in Node, e \in Nat : Reached(x, e) => Reached(x, e)'
  BY ReachedKept DEF FailoverInv
<1>5. \A m \in net' : m.type \in {"request", "force_request"} => Reached(m.h.src, m.h.cur)'
  BY <1>2, <1>4 DEF CountInv, BallotsOK
<1>6. \A v \in granted' : Reached(v[3], v[2])'
  BY <1>3, <1>4 DEF CountInv, BallotsOK
<1>7. BallotsOK'
  BY <1>5, <1>6 DEF CountInv, BallotsOK
<1>8. ASSUME NEW x \in Node PROVE Waits(x)' /\ Counts(x)'
  <2>1. /\ node'[x].aepoch = node[x].aepoch /\ node'[x].count = node[x].count
        /\ node'[x].late = node[x].late
        /\ node'[x].auth = node[x].auth \/ node'[x].auth = "none"
    BY <1>1 DEF Campaign
  <2>2. Waits(x)'
    BY <2>1 DEF CountInv, Waits
  <2>3. Counts(x)'
    BY <2>1, CountsKept DEF CountInv
  <2> QED BY <2>2, <2>3
<1> QED BY <1>7, <1>8 DEF CountInv

\* A handler that keeps the campaign goes onward.
LEMMA KeptOnward ==
  ASSUME NEW t, NEW s, Kept(t, s)
  PROVE  Onward(t, s) /\ Campaign(t, s)
  BY DEF Kept, After, Onward, Campaign

\* The effect of a handler that keeps the campaign.
LEMMA KeptStep ==
  ASSUME FailoverInv, CountInv, NEW n \in Node, NEW t, Kept(t, node[n]), Effect(n, t),
         granted' = granted, \A m \in net' : m \in net \/ m.type \in {"ping", "update"}
  PROVE  CountInv'
<1>1. NodesInv'
  BY EffectKeepsNodes DEF FailoverInv, Kept, After
<1>2. node'[n] = t /\ Moves(n)
  BY EffectMoves DEF FailoverInv
<1>3. Onward(node'[n], node[n]) /\ Campaign(node'[n], node[n])
  BY <1>2, KeptOnward
<1> QED BY <1>1, <1>2, <1>3, QuietCount

-----------------------------------------------------------------------------
(* One lemma per action.                                                   *)

\* Packets sent and received that are no ballots.
LEMMA PacketCount ==
  ASSUME FailoverInv, FailoverInv', CountInv,
         \/ \E n, to \in Node : SendPing(n, to)
         \/ \E m \in net : ReceivePing(m.to, m) \/ ReceiveUpdate(m.to, m)
  PROVE  CountInv'
<1>1. ASSUME NEW n \in Node, NEW to \in Node, SendPing(n, to) PROVE CountInv'
  <2>1. Moves(n) /\ node' = node /\ granted' = granted
    BY <1>1 DEF SendPing, Moves, FailoverInv, NodesInv
  <2>2. \A m \in net' : m \in net \/ m.type \in {"ping", "update"}
    BY <1>1 DEF SendPing, Plain
  <2>3. Kept(node'[n], node[n])
    BY <2>1, NodeGood, KeptReflexive DEF FailoverInv
  <2> QED BY <2>1, <2>2, <2>3, KeptOnward, QuietCount DEF FailoverInv
<1>2. ASSUME NEW m \in net, ReceivePing(m.to, m) PROVE CountInv'
  <2> DEFINE n == m.to
             t == ProcessPing(node[n], n, m.h)
  <2>1. n \in Node /\ GoodHeader(m.h)
    BY DEF FailoverInv, NetInv, GoodPacket, Packet
  <2>2. Kept(t, node[n])
    BY <2>1, NodeGood, ProcessPingKept DEF FailoverInv
  <2>3. Effect(n, t) /\ granted' = granted
    BY <1>2 DEF ReceivePing, Step, Effect, FailoverInv, NodesInv
  <2>4. \A k \in net' : k \in net \/ k.type \in {"ping", "update"}
    <3>1. net' \subseteq net \cup {Update(m.h.src, Header(n, t), t)}
      BY <1>2 DEF ReceivePing
    <3>2. Update(m.h.src, Header(n, t), t).type = "update"
      BY DEF Update
    <3> QED BY <3>1, <3>2
  <2> HIDE DEF n, t
  <2> QED BY <2>1, <2>2, <2>3, <2>4, KeptStep
<1>3. ASSUME NEW m \in net, ReceiveUpdate(m.to, m) PROVE CountInv'
  <2> DEFINE n == m.to
             t == ProcessUpdate(node[n], n, m)
  <2>1. n \in Node /\ GoodPacket(m)
    BY DEF FailoverInv, NetInv, GoodPacket, Packet
  <2>2. Kept(t, node[n])
    BY <2>1, NodeGood, ProcessUpdateKept DEF FailoverInv
  <2>3. Effect(n, t) /\ granted' = granted
    BY <1>3 DEF ReceiveUpdate, Step, Effect, FailoverInv, NodesInv
  <2>4. \A k \in net' : k \in net \/ k.type \in {"ping", "update"}
    BY <1>3 DEF ReceiveUpdate
  <2> HIDE DEF n, t
  <2> QED BY <2>1, <2>2, <2>3, <2>4, KeptStep
<1> QED BY <1>1, <1>2, <1>3

\* The FAIL flags and the flags of a manual failover.
LEMMA FlagKept ==
  ASSUME NEW s, Good(s), NEW F \in SUBSET Shard, NEW f \in {"none", "asked", "can"}
  PROVE  /\ Kept([s EXCEPT !.fail = F], s)
         /\ Kept([s EXCEPT !.mf = f], s)
         /\ Kept([s EXCEPT !.mf = f, !.auth = "none"], s)
<1>1. Campaign([s EXCEPT !.fail = F], s)
  BY DEF Campaign, Good, Fields
<1>2. Campaign([s EXCEPT !.mf = f], s)
  BY DEF Campaign, Good, Fields
<1>3. Campaign([s EXCEPT !.mf = f, !.auth = "none"], s)
  BY DEF Campaign, Good, Fields
<1> QED BY <1>1, <1>2, <1>3, FailGood, ManualGood DEF Kept

\* Failure detection and CLUSTER FAILOVER.
LEMMA FlagCount ==
  ASSUME FailoverInv, CountInv, NEW n \in Node, NEW x \in Shard,
         \/ MarkNodeAsFailing(n, x) \/ ClearNodeFailure(n, x)
         \/ AskFailover(n) \/ StartFailover(n) \/ ManualFailoverTimeout(n)
  PROVE  CountInv'
<1> DEFINE s == node[n]
<1>1. Good(s) /\ s.fail \subseteq Shard
  BY NodeGood DEF FailoverInv, Good, Fields
<1>2. \/ Effect(n, [s EXCEPT !.fail = s.fail \cup {x}])
      \/ Effect(n, [s EXCEPT !.fail = s.fail \ {x}])
      \/ Effect(n, [s EXCEPT !.mf = "asked"])
      \/ Effect(n, [s EXCEPT !.mf = "can", !.auth = "none"])
      \/ Effect(n, [s EXCEPT !.mf = "none"])
  BY DEF MarkNodeAsFailing, ClearNodeFailure, AskFailover, StartFailover,
         ManualFailoverTimeout, Step, Effect, FailoverInv, NodesInv
<1>3. net' = net /\ granted' = granted
  BY DEF MarkNodeAsFailing, ClearNodeFailure, AskFailover, StartFailover,
         ManualFailoverTimeout
<1> HIDE DEF s
<1>4. PICK t : Effect(n, t) /\ Kept(t, s)
  BY <1>1, <1>2, FlagKept
<1> QED BY <1>3, <1>4, KeptStep DEF s

\* CLUSTER FAILOVER TAKEOVER: no votes, and an election that runs ends.
LEMMA BumpConfigEpochKept ==
  ASSUME NEW s, Good(s), NEW n \in Shard
  PROVE  Kept(BumpConfigEpoch(s, n), s)
<1>1. Campaign(BumpConfigEpoch(s, n), s)
  BY DEF Campaign, BumpConfigEpoch, Good, Fields
<1> QED BY <1>1, BumpConfigEpochGood DEF Kept

\* clusterFailoverReplaceYourPrimary.
LEMMA ReplaceYourPrimaryKept ==
  ASSUME NEW s, Good(s), NEW n \in Shard
  PROVE  Kept(ReplaceYourPrimary(s, n), s)
  BY ReplaceYourPrimaryGood, ReplaceYourPrimaryCampaign DEF Kept

\* A takeover, and the end of an election that is won.
LEMMA PromotionCount ==
  ASSUME FailoverInv, CountInv, NEW n \in Shard, WinElection(n) \/ Takeover(n)
  PROVE  CountInv'
<1> DEFINE s == node[n]
           w == [s EXCEPT !.conf = [@ EXCEPT ![n] = Later(s.conf[n], s.aepoch)]]
           b == BumpConfigEpoch(s, n)
<1>1. n \in Node
  BY DEF Node
<1>2. Good(s)
  BY <1>1, NodeGood DEF FailoverInv
<1>3. Kept(w, s)
  <2>1. Campaign(w, s)
    BY <1>2 DEF Campaign, Good, Fields
  <2> QED BY <1>2, <2>1, WonGood DEF Kept
<1>4. Kept(b, s)
  BY <1>2, BumpConfigEpochKept
<1>5. /\ Effect(n, ReplaceYourPrimary(w, n)) \/ Effect(n, ReplaceYourPrimary(b, n))
      /\ net' = net /\ granted' = granted
  BY DEF WinElection, Takeover, Step, Effect, FailoverInv, NodesInv
<1> HIDE DEF s, w, b
<1>6. Kept(ReplaceYourPrimary(w, n), s) /\ Kept(ReplaceYourPrimary(b, n), s)
  BY <1>2, <1>3, <1>4, ReplaceYourPrimaryKept, KeptTransitive DEF Kept, After
<1> QED BY <1>1, <1>5, <1>6, KeptStep DEF s

\* A save of what is in memory.
LEMMA BeforeSleepCount ==
  ASSUME FailoverInv, FailoverInv', CountInv, NEW n \in Crashable, BeforeSleep(n)
  PROVE  CountInv'
<1>1. n \in Node
  BY BoundAssumption
<1>2. Moves(n) /\ node' = node /\ granted' = granted /\ net' = net
  BY <1>1 DEF BeforeSleep, Moves, FailoverInv, NodesInv
<1>3. Kept(node'[n], node[n])
  BY <1>1, <1>2, NodeGood, KeptReflexive DEF FailoverInv
<1> QED BY <1>1, <1>2, <1>3, KeptOnward, QuietCount DEF FailoverInv

\* A header names its node.
LEMMA HeaderOf ==
  ASSUME NEW n, NEW s
  PROVE  Header(n, s).src = n /\ Header(n, s).cur = s.cur
  BY DEF Header

\* FAILOVER_AUTH_REQUEST that is answered with a vote: the epoch of the vote is
\* the one of the request, and the vote was not granted before.
LEMMA VoteCount ==
  ASSUME VotesInv, FailoverInv', CountInv, NEW m \in net, ReceiveRequest(m.to, m),
         MayVote(Preamble(node[m.to], m.h), m.to, m),
         ~SlotsNewer(Preamble(node[m.to], m.h), m)
  PROVE  CountInv'
<1> DEFINE n == m.to
           c == m.h.src
           s == Preamble(node[n], m.h)
           u == [s EXCEPT !.vote = s.cur]
           a == Plain("ack", c, Header(n, u))
           e == m.h.cur
           v == <<n, e, c>>
<1>0. FailoverInv
  BY DEF VotesInv
<1>1. n \in Node /\ GoodHeader(m.h) /\ c \in Node /\ m.h.cur \in Nat
  BY <1>0 DEF FailoverInv, NetInv, GoodPacket, Packet, GoodHeader, HeaderType, Epoch
<1>2. Kept(s, node[n]) /\ Good(node[n]) /\ m.h.cur <= s.cur
  BY <1>0, <1>1, NodeGood, PreambleKept, PreambleGood DEF FailoverInv
<1>3. Step(n, u, TRUE) /\ m.type \in {"request", "force_request"}
  BY DEF ReceiveRequest
<1>4. Effect(n, u)
  BY <1>0, <1>3 DEF Step, Effect, FailoverInv, NodesInv
<1>5. net' \subseteq net \cup {a} /\ granted' = granted \cup {<<n, u.cur, c>>}
  BY DEF ReceiveRequest
<1>6. s.vote # s.cur /\ m.h.cur >= s.cur
  BY DEF MayVote
<1>7. a.type = "ack" /\ a.to = c /\ a.h.src = n /\ a.h.cur = u.cur
  BY HeaderOf DEF Plain
<1> HIDE DEF n, c, s, a
<1>8. Good(u) /\ u.vote = s.cur /\ u.cur = s.cur /\ Campaign(u, s)
  BY <1>2, VoteGood DEF Kept, After, Campaign, Good, Fields
<1> HIDE DEF u
<1>9. node'[n] = u /\ Moves(n)
  BY <1>0, <1>1, <1>4, EffectMoves DEF FailoverInv
<1>10. Campaign(u, node[n]) /\ Onward(u, node[n])
  BY <1>2, <1>8 DEF Kept, After, Campaign, Onward
<1>11. u.cur = e /\ e \in Nat /\ node[n].vote < e /\ granted' = granted \cup {v}
  <2>1. After(s, node[n]) /\ s.cur \in Nat /\ s.vote \in Nat /\ node[n].vote \in Nat
    BY <1>2 DEF Kept, After, Good, Fields
  <2>2. s.vote = node[n].vote /\ s.vote <= s.cur
    BY <2>1 DEF After, Good, InOrder
  <2>3. u.cur = e /\ e \in Nat
    BY <1>1, <1>2, <1>6, <1>8, <2>1
  <2>4. node[n].vote < e
    BY <1>6, <1>8, <2>1, <2>2, <2>3
  <2> QED BY <1>5, <2>3, <2>4
<1>12. v \notin granted
  BY <1>1, <1>11 DEF VotesInv, Remembered, FailoverInv, NodesInv, NodeState, Epoch
<1>13. \A x \in Node, ep \in Nat : Reached(x, ep) => Reached(x, ep)'
  BY <1>0, <1>1, <1>9, <1>10, ReachedKept DEF FailoverInv
<1>14. \A k \in net : k.h.src \in Node /\ k.h.cur \in Nat
  BY <1>0 DEF FailoverInv, NetInv, GoodPacket, GoodHeader, HeaderType, Epoch
<1>15. \A w \in granted : w[3] \in Node /\ w[2] \in Nat
  BY <1>0 DEF FailoverInv, HistoryType, Epoch
<1>16. BallotsOK'
  <2>1. Reached(c, e)
    BY <1>3 DEF CountInv, BallotsOK, c
  <2>2. Reached(c, e)'
    BY <1>1, <1>11, <1>13, <2>1
  <2>3. \A k \in net' : k.type \in {"request", "force_request"} => Reached(k.h.src, k.h.cur)'
    BY <1>5, <1>7, <1>13, <1>14 DEF CountInv, BallotsOK
  <2>4. \A w \in granted : Reached(w[3], w[2])'
    BY <1>13, <1>15 DEF CountInv, BallotsOK
  <2>5. v[3] = c /\ v[2] = e
    OBVIOUS
  <2>6. \A k \in net' : k.type = "ack" => <<k.h.src, k.h.cur, k.to>> \in granted'
    BY <1>5, <1>7, <1>11 DEF CountInv, BallotsOK
  <2>7. \A k \in net : k.type = "ack" => ~SameVote(k, a) /\ ~SameVote(a, k)
    BY <1>7, <1>11, <1>12 DEF CountInv, BallotsOK, SameVote
  <2>8. \A k, l \in net' : (k.type = "ack" /\ l.type = "ack" /\ SameVote(k, l)) => k = l
    BY <1>5, <2>7 DEF CountInv, BallotsOK
  <2>9. Reached(v[3], v[2])'
    BY <2>2, <2>5
  <2> HIDE DEF v
  <2>10. \A w \in granted' : Reached(w[3], w[2])'
    BY <1>11, <2>4, <2>9
  <2> QED BY <2>3, <2>6, <2>8, <2>10 DEF BallotsOK
<1>17. \A x \in Node : x = n \/ node'[x] = node[x]
  BY <1>0, <1>9 DEF Moves, FailoverInv, NodesInv
<1>18. ASSUME NEW x \in Node PROVE Waits(x)' /\ Counts(x)'
  <2>1. /\ node'[x].aepoch = node[x].aepoch /\ node'[x].count = node[x].count
        /\ node'[x].late = node[x].late
        /\ node'[x].auth = node[x].auth \/ node'[x].auth = "none"
    BY <1>9, <1>10, <1>17 DEF Campaign
  <2>3. Waits(x)'
    BY <2>1 DEF CountInv, Waits
  <2>4. \A k \in net' : k.type = "ack" => k \in net \/ <<k.h.src, k.h.cur, k.to>> \notin granted
    BY <1>5, <1>7, <1>11, <1>12
  <2>5. Counts(x)'
    BY <1>11, <2>1, <2>4, CountsKept DEF CountInv
  <2> QED BY <2>3, <2>5
<1>19. IsFiniteSet(granted')
  BY <1>11, FS_AddElement DEF CountInv
<1> QED BY <1>16, <1>18, <1>19 DEF CountInv

\* Any FAILOVER_AUTH_REQUEST.
LEMMA RequestCount ==
  ASSUME VotesInv, FailoverInv', CountInv, NEW m \in net, ReceiveRequest(m.to, m)
  PROVE  CountInv'
<1> DEFINE n == m.to
           s == Preamble(node[n], m.h)
           vote == MayVote(s, n, m) /\ ~SlotsNewer(s, m)
<1>1. CASE vote
  BY <1>1, VoteCount
<1>2. CASE ~vote
  <2>1. n \in Node /\ GoodHeader(m.h)
    BY DEF VotesInv, FailoverInv, NetInv, GoodPacket, Packet
  <2>2. Effect(n, s) /\ granted' = granted
    BY <1>2 DEF ReceiveRequest, Step, Effect, VotesInv, FailoverInv, NodesInv
  <2>3. net' \subseteq net \cup {Update(m.h.src, Header(n, s), s)}
    BY <1>2 DEF ReceiveRequest
  <2>4. Update(m.h.src, Header(n, s), s).type = "update"
    BY DEF Update
  <2>5. Kept(s, node[n])
    BY <2>1, NodeGood, PreambleKept DEF VotesInv, FailoverInv
  <2>6. \A k \in net' : k \in net \/ k.type \in {"ping", "update"}
    BY <2>3, <2>4
  <2> HIDE DEF n, s
  <2> QED BY <2>1, <2>2, <2>5, <2>6, KeptStep DEF VotesInv
<1> QED BY <1>1, <1>2

\* FAILOVER_AUTH_ACK that is counted: while an election runs, a vote for its epoch
\* that was in flight, hence not counted before; otherwise a late one.
LEMMA AckCounted ==
  ASSUME FailoverInv, FailoverInv', CountInv, NEW m \in net, ReceiveAck(m.to, m),
         IsVoting(Preamble(node[m.to], m.h), m.h.src),
         m.h.cur >= Preamble(node[m.to], m.h).aepoch
  PROVE  CountInv'
<1> DEFINE n == m.to
           s == Preamble(node[n], m.h)
           b == s.late \/ s.auth = "wait"
           t == [s EXCEPT !.count = s.count + 1, !.late = b]
           v == <<m.h.src, m.h.cur, n>>
<1>1. n \in Node /\ GoodHeader(m.h) /\ m.h.cur \in Nat
  BY DEF FailoverInv, NetInv, GoodPacket, Packet, GoodHeader, HeaderType, Epoch
<1>2. Kept(s, node[n]) /\ Good(node[n])
  BY <1>1, NodeGood, PreambleKept DEF FailoverInv
<1>3. Effect(n, t) /\ m.type = "ack" /\ net' = net \ {m} /\ granted' = granted
  BY DEF ReceiveAck, Step, Effect, FailoverInv, NodesInv
<1>4. m.h.cur >= s.aepoch
  OBVIOUS
<1> HIDE DEF n, s
<1>5. /\ t.cur = s.cur /\ t.auth = s.auth /\ t.aepoch = s.aepoch /\ t.count = s.count + 1
      /\ ~t.late => ~s.late /\ s.auth # "wait"
  <2> HIDE DEF b
  <2>1. t.cur = s.cur /\ t.auth = s.auth /\ t.aepoch = s.aepoch /\ t.count = s.count + 1
    BY <1>2 DEF Kept, After, Good, Fields
  <2>2. t.late = b
    BY <1>2 DEF Kept, After, Good, Fields
  <2> QED BY <2>1, <2>2, Zenon DEF b
<1> HIDE DEF t, b
<1>6. node'[n] = t /\ Moves(n)
  BY <1>1, <1>3, EffectMoves DEF FailoverInv
<1>7. Onward(t, node[n])
  BY <1>2, <1>5 DEF Kept, After, Campaign, Onward
<1>8. \A x \in Node, e \in Nat : Reached(x, e) => Reached(x, e)'
  BY <1>1, <1>6, <1>7, ReachedKept DEF FailoverInv
<1>9. \A k \in net : k.h.src \in Node /\ k.h.cur \in Nat
  BY DEF FailoverInv, NetInv, GoodPacket, GoodHeader, HeaderType, Epoch
<1>10. \A w \in granted : w[3] \in Node /\ w[2] \in Nat
  BY DEF FailoverInv, HistoryType, Epoch
<1>11. BallotsOK'
  <2>1. \A k \in net' : k.type \in {"request", "force_request"} => Reached(k.h.src, k.h.cur)'
    BY <1>3, <1>8, <1>9 DEF CountInv, BallotsOK
  <2>2. \A w \in granted' : Reached(w[3], w[2])'
    BY <1>3, <1>8, <1>10 DEF CountInv, BallotsOK
  <2> QED BY <1>3, <2>1, <2>2 DEF CountInv, BallotsOK
<1>12. v \in granted /\ v[2] = m.h.cur /\ v[3] = n /\ Reached(n, m.h.cur)
  BY <1>3 DEF CountInv, BallotsOK, n
<1>14. ASSUME NEW x \in Node, x # n PROVE Waits(x)' /\ Counts(x)'
  <2>1. node'[x] = node[x]
    BY <1>6, <1>14 DEF Moves, FailoverInv, NodesInv
  <2>2. Waits(x)'
    BY <2>1 DEF CountInv, Waits
  <2>3. Counts(x)'
    BY <1>3, <2>1, CountsKept DEF CountInv
  <2> QED BY <2>2, <2>3
<1>15. Waits(n)'
  BY <1>5, <1>6 DEF Waits
<1>16. Counts(n)'
  <2> SUFFICES ASSUME node'[n].auth = "sent", ~node'[n].late PROVE Counts(n)'
    BY DEF Counts
  <2>1. /\ node[n].auth = "sent" /\ ~node[n].late /\ t.aepoch = node[n].aepoch
        /\ t.count = node[n].count + 1
    BY <1>2, <1>5, <1>6 DEF Kept, Campaign
  <2>2. m.h.cur = node[n].aepoch
    BY <1>1, <1>2, <1>4, <1>5, <1>12, <2>1 DEF Reached, Good, Fields
  <2>3. PICK C \in SUBSET VotesFor(n, node[n].aepoch) :
          /\ Cardinality(C) = node[n].count
          /\ \A k \in net : k.type = "ack" /\ k.to = n => <<k.h.src, k.h.cur, n>> \notin C
    BY <1>1, <2>1 DEF CountInv, Counts
  <2>4. v \notin C
    BY <1>3, <2>3 DEF n
  <2>5. IsFiniteSet(C)
    BY <2>3, FS_Subset DEF CountInv, VotesFor
  <2>6. Cardinality(C \cup {v}) = node[n].count + 1
    BY <2>3, <2>4, <2>5, FS_AddElement
  <2>7. C \cup {v} \in SUBSET {w \in granted' : w[2] = node'[n].aepoch /\ w[3] = n}
    BY <1>3, <1>6, <1>12, <2>1, <2>2, <2>3 DEF VotesFor
  <2>8. \A k \in net' : k.type = "ack" /\ k.to = n => <<k.h.src, k.h.cur, n>> \notin C \cup {v}
    <3> SUFFICES ASSUME NEW k \in net', k.type = "ack", k.to = n,
                        <<k.h.src, k.h.cur, n>> \in C \cup {v}
                 PROVE  FALSE
      OBVIOUS
    <3>1. k \in net /\ k # m
      BY <1>3
    <3>2. <<k.h.src, k.h.cur, n>> = v
      BY <2>3, <3>1
    <3>3. SameVote(k, m)
      BY <3>2 DEF SameVote, n
    <3> QED BY <1>3, <3>1, <3>3 DEF CountInv, BallotsOK
  <2> HIDE DEF v
  <2> QED BY <1>6, <2>1, <2>6, <2>7, <2>8 DEF Counts, VotesFor
<1>17. \A x \in Node : Waits(x)' /\ Counts(x)'
  BY <1>14, <1>15, <1>16
<1> QED BY <1>3, <1>11, <1>17 DEF CountInv

\* Any FAILOVER_AUTH_ACK.
LEMMA AckCount ==
  ASSUME FailoverInv, FailoverInv', CountInv, NEW m \in net, ReceiveAck(m.to, m)
  PROVE  CountInv'
<1> DEFINE n == m.to
           s == Preamble(node[n], m.h)
           valid == IsVoting(s, m.h.src) /\ m.h.cur >= s.aepoch
<1>1. CASE valid
  BY <1>1, AckCounted
<1>2. CASE ~valid
  <2>1. n \in Node /\ GoodHeader(m.h)
    BY DEF FailoverInv, NetInv, GoodPacket, Packet
  <2>2. Effect(n, s) /\ granted' = granted /\ net' = net \ {m}
    BY <1>2 DEF ReceiveAck, Step, Effect, FailoverInv, NodesInv
  <2>3. Kept(s, node[n])
    BY <2>1, NodeGood, PreambleKept DEF FailoverInv
  <2> HIDE DEF n, s
  <2> QED BY <2>1, <2>2, <2>3, KeptStep
<1> QED BY <1>1, <1>2

\* An election is scheduled; the votes of an earlier one may still be in flight.
LEMMA ScheduleCount ==
  ASSUME FailoverInv, FailoverInv', CountInv, NEW n \in Node, ScheduleElection(n)
  PROVE  CountInv'
<1> DEFINE t == Setup(node[n])
<1>1. Effect(n, t) /\ granted' = granted /\ net' = net
  BY DEF ScheduleElection, Step, Effect, FailoverInv, NodesInv
<1>2. t.cur = node[n].cur /\ t.auth = "wait" /\ t.count = 0
  BY NodeGood DEF FailoverInv, Setup, Good, Fields
<1> HIDE DEF t
<1>3. node'[n] = t /\ Moves(n)
  BY <1>1, EffectMoves DEF FailoverInv
<1>4. Onward(t, node[n])
  BY <1>2, NodeGood DEF Onward, FailoverInv, Good, Fields
<1>5. \A x \in Node, e \in Nat : Reached(x, e) => Reached(x, e)'
  BY <1>3, <1>4, ReachedKept DEF FailoverInv
<1>6. \A k \in net : k.h.src \in Node /\ k.h.cur \in Nat
  BY DEF FailoverInv, NetInv, GoodPacket, GoodHeader, HeaderType, Epoch
<1>7. \A w \in granted : w[3] \in Node /\ w[2] \in Nat
  BY DEF FailoverInv, HistoryType, Epoch
<1>8. BallotsOK'
  <2>1. \A k \in net' : k.type \in {"request", "force_request"} => Reached(k.h.src, k.h.cur)'
    BY <1>1, <1>5, <1>6 DEF CountInv, BallotsOK
  <2>2. \A w \in granted' : Reached(w[3], w[2])'
    BY <1>1, <1>5, <1>7 DEF CountInv, BallotsOK
  <2> QED BY <1>1, <2>1, <2>2 DEF CountInv, BallotsOK
<1>9. ASSUME NEW x \in Node PROVE Waits(x)' /\ Counts(x)'
  <2>1. x = n \/ node'[x] = node[x]
    BY <1>3 DEF Moves, FailoverInv, NodesInv
  <2>2. Waits(x)'
    BY <1>2, <1>3, <2>1 DEF CountInv, Waits
  <2>3. Counts(x)'
    BY <1>1, <1>2, <1>3, <2>1, CountsKept DEF CountInv
  <2> QED BY <2>2, <2>3
<1> QED BY <1>1, <1>8, <1>9 DEF CountInv

\* An election starts, with no votes unless they came late, an epoch above all
\* earlier ones and that epoch saved.
LEMMA StartCount ==
  ASSUME EarlyWrite = {}, FailoverInv, FailoverInv', CountInv, NEW n \in Node,
         StartElection(n) \/ StartManualElection(n)
  PROVE  CountInv'
<1>0. Good(node[n])
  BY NodeGood DEF FailoverInv
<1>1. PICK s \in {node[n], Setup(node[n])} :
        /\ Step(n, Begin(s), TRUE) /\ granted' = granted
        /\ net' = net \cup Requests(n, Begin(s))
        /\ s = node[n] => node[n].auth = "wait"
  <2>1. CASE StartElection(n)
    BY <2>1 DEF StartElection
  <2>2. CASE StartManualElection(n)
    <3>1. Setup(node[n]).auth = "wait"
      BY <1>0 DEF Setup, Good, Fields
    <3> QED BY <2>2, <3>1 DEF StartManualElection
  <2> QED BY <2>1, <2>2
<1> DEFINE t == Begin(s)
           e == t.cur
<1>2. (~s.late => s.count = 0) /\ s.cur = node[n].cur /\ Good(s)
  <2>1. CASE s = node[n]
    BY <1>0, <1>1, <2>1 DEF CountInv, Waits
  <2>2. CASE s = Setup(node[n])
    <3>1. Setup(node[n]).count = 0 /\ Setup(node[n]).cur = node[n].cur
      BY <1>0 DEF Setup, Good, Fields
    <3> QED BY <1>0, <2>2, <3>1, SetupGood DEF After
  <2> QED BY <2>1, <2>2
<1>3. /\ t.auth = "sent" /\ t.cur = node[n].cur + 1 /\ t.aepoch = t.cur
      /\ ~t.late => t.count = 0
  <2>1. /\ t.auth = "sent" /\ t.cur = node[n].cur + 1 /\ t.aepoch = t.cur
        /\ t.late = s.late /\ t.count = s.count
    BY <1>2 DEF Begin, Good, Fields
  <2> QED BY <1>2, <2>1
<1>4. node[n].cur \in Nat /\ node[n].cur < t.cur /\ t.cur \in Nat
  BY <1>0, <1>3 DEF Good, Fields
<1>5. Effect(n, t)
  BY <1>1 DEF Step, Effect, FailoverInv, NodesInv
<1>6. n \in Crashable => disk' = [disk EXCEPT ![n] = Image(t)]
  BY <1>1 DEF Step
<1>7. \A m \in Requests(n, t) : /\ m.type \in {"request", "force_request"}
                                /\ m.h.src = n /\ m.h.cur = t.cur
  BY HeaderOf DEF Requests, Plain
<1>8. net' = net \cup Requests(n, t) /\ granted' = granted
  BY <1>1
<1> HIDE DEF t
<1>9. node'[n] = t /\ Moves(n)
  BY <1>5, EffectMoves DEF FailoverInv
<1>10. Onward(t, node[n])
  BY <1>3, <1>4 DEF Onward
<1>11. \A x \in Node, f \in Nat : Reached(x, f) => Reached(x, f)'
  BY <1>9, <1>10, ReachedKept DEF FailoverInv
<1>12. \A k \in net : k.h.src \in Node /\ k.h.cur \in Nat
  BY DEF FailoverInv, NetInv, GoodPacket, GoodHeader, HeaderType, Epoch
<1>13. \A w \in granted : w[3] \in Node /\ w[2] \in Nat
  BY DEF FailoverInv, HistoryType, Epoch
<1>14. ASSUME NEW m \in Requests(n, t) PROVE Reached(m.h.src, m.h.cur)'
  <2>1. Image(t).cur = t.cur
    BY DEF Image
  <2>2. n \in Crashable => disk'[n].cur = t.cur
    BY <1>6, <2>1 DEF FailoverInv, NodesInv
  <2>3. m.h.src = n /\ m.h.cur = t.cur /\ t.cur <= t.cur
    BY <1>4, <1>7
  <2> QED BY <1>3, <1>9, <2>2, <2>3 DEF Reached
<1>15. BallotsOK'
  <2>1. \A k \in net' : k.type \in {"request", "force_request"} => Reached(k.h.src, k.h.cur)'
    BY <1>8, <1>11, <1>12, <1>14 DEF CountInv, BallotsOK
  <2>2. \A w \in granted' : Reached(w[3], w[2])'
    BY <1>8, <1>11, <1>13 DEF CountInv, BallotsOK
  <2>3. \A k \in net' : k.type = "ack" => k \in net
    BY <1>7, <1>8
  <2> QED BY <1>8, <2>1, <2>2, <2>3 DEF CountInv, BallotsOK
<1>16. ASSUME NEW x \in Node, x # n PROVE Waits(x)' /\ Counts(x)'
  <2>1. node'[x] = node[x]
    BY <1>9, <1>16 DEF Moves, FailoverInv, NodesInv
  <2>2. Waits(x)'
    BY <2>1 DEF CountInv, Waits
  <2>3. Counts(x)'
    BY <1>7, <1>8, <2>1, CountsKept DEF CountInv
  <2> QED BY <2>2, <2>3
<1>17. Waits(n)'
  BY <1>3, <1>9 DEF Waits
<1>18. Counts(n)'
  <2> SUFFICES ASSUME ~node'[n].late PROVE Counts(n)'
    BY DEF Counts
  <2>1. Cardinality({}) = 0
    BY FS_EmptySet
  <2>2. Cardinality({}) = node'[n].count /\ {} \in SUBSET VotesFor(n, node[n].aepoch)'
    BY <1>3, <1>9, <2>1
  <2> QED BY <2>2 DEF Counts
<1>19. \A x \in Node : Waits(x)' /\ Counts(x)'
  BY <1>16, <1>17, <1>18
<1> QED BY <1>8, <1>15, <1>19 DEF CountInv

\* clusterLoadConfig brings back the saved currentEpoch.
LEMMA LoadEpoch ==
  ASSUME NEW d \in DiskState, DiskInOrder(d)
  PROVE  Load(d).cur = d.cur /\ Load(d).auth = "none"
<1> DEFINE epochs == {d.cur} \cup {d.conf[x] : x \in Shard}
<1>1. d.cur \in epochs /\ \A f \in epochs : f <= d.cur /\ f \in Nat
  BY DEF DiskState, DiskInOrder, Epoch
<1>2. GetMaxEpoch(d) = CHOOSE e \in epochs : \A f \in epochs : f <= e
  BY DEF GetMaxEpoch
<1> HIDE DEF epochs
<1>3. GetMaxEpoch(d) \in epochs /\ \A f \in epochs : f <= GetMaxEpoch(d)
  BY <1>1, <1>2
<1> QED BY <1>1, <1>3 DEF Load

\* A restart ends the election; the epochs it used are on disk.
LEMMA CrashCount ==
  ASSUME FailoverInv, FailoverInv', CountInv, NEW n \in Crashable, Crash(n)
  PROVE  CountInv'
<1>1. n \in Node
  BY BoundAssumption
<1>2. Load(disk[n]).cur = disk[n].cur /\ Load(disk[n]).auth = "none"
  BY LoadEpoch DEF FailoverInv, NodesInv
<1>3. /\ node'[n] = Load(disk[n]) /\ \A x \in Node : x = n \/ node'[x] = node[x]
      /\ disk' = disk /\ granted' = granted /\ net' \subseteq net
  BY <1>1 DEF Crash, FailoverInv, NodesInv
<1>4. ASSUME NEW x \in Node, NEW e, Reached(x, e) PROVE Reached(x, e)'
  BY <1>2, <1>3, <1>4 DEF Reached
<1>5. \A m \in net : m.h.src \in Node
  BY DEF FailoverInv, NetInv, GoodPacket, GoodHeader, HeaderType
<1>6. \A v \in granted : v[3] \in Node
  BY DEF FailoverInv, HistoryType
<1>7. BallotsOK'
  <2>1. \A k \in net' : k.type \in {"request", "force_request"} => Reached(k.h.src, k.h.cur)'
    BY <1>3, <1>4, <1>5 DEF CountInv, BallotsOK
  <2>2. \A v \in granted' : Reached(v[3], v[2])'
    BY <1>3, <1>4, <1>6 DEF CountInv, BallotsOK
  <2> QED BY <1>3, <2>1, <2>2 DEF CountInv, BallotsOK
<1>8. ASSUME NEW x \in Node PROVE Waits(x)' /\ Counts(x)'
  <2>1. Waits(x)'
    BY <1>2, <1>3 DEF CountInv, Waits
  <2>2. Counts(x)'
    BY <1>2, <1>3, CountsKept DEF CountInv
  <2> QED BY <2>1, <2>2
<1> QED BY <1>3, <1>7, <1>8 DEF CountInv

-----------------------------------------------------------------------------
(* The winners.                                                            *)

\* The invariant of all elections: votes are remembered, counted once, and every
\* election that was won without late votes had a majority.
ElectionInv == VotesInv /\ CountInv /\ WinnerHasMajority

\* Every step keeps the count.
LEMMA NextCount ==
  ASSUME EarlyWrite = {}, VotesInv, FailoverInv', CountInv, Next
  PROVE  CountInv'
<1>0. /\ Up \subseteq Node /\ Shard \subseteq Node /\ mode.canfail \subseteq Shard
      /\ First \in Shard /\ FailoverInv
  BY NodeAssumption, BoundAssumption DEF Up, Node, VotesInv, FailoverInv, NodesInv, ModeType
<1>1. CASE \E n, x \in Node : SendPing(n, x)
  BY <1>0, <1>1, PacketCount
<1>2. CASE \E m \in net : Receive(m)
  BY <1>0, <1>2, PacketCount, RequestCount, AckCount DEF Receive
<1>3. CASE \E n \in Up, x \in mode.canfail : MarkNodeAsFailing(n, x) \/ ClearNodeFailure(n, x)
  BY <1>0, <1>3, FlagCount
<1>4. CASE \E n \in Shard \cap Up :
             AskFailover(n) \/ StartFailover(n) \/ ManualFailoverTimeout(n)
  BY <1>0, <1>4, FlagCount
<1>5. CASE \E n \in Shard \cap Up :
             \/ ScheduleElection(n) \/ StartElection(n) \/ StartManualElection(n)
             \/ WinElection(n) \/ Takeover(n)
  BY <1>0, <1>5, ScheduleCount, StartCount, PromotionCount
<1>6. CASE \E n \in Crashable \cap Up : BeforeSleep(n) \/ Crash(n)
  BY <1>0, <1>6, BeforeSleepCount, CrashCount
<1> QED BY <1>1, <1>2, <1>3, <1>4, <1>5, <1>6 DEF Next

\* Who wins without late votes has counted a majority of the votes it knows of.
LEMMA WinCounted ==
  ASSUME FailoverInv, CountInv, NEW n \in Shard, WinElection(n), ~node[n].late
  PROVE  2 * Cardinality(VotesFor(n, node[n].aepoch)) > Size(node[n])
<1>1. n \in Node /\ node[n].auth = "sent" /\ node[n].count >= Quorum(node[n])
  BY DEF WinElection, Node
<1>2. PICK C \in SUBSET VotesFor(n, node[n].aepoch) : Cardinality(C) = node[n].count
  BY <1>1 DEF CountInv, Counts
<1>3. IsFiniteSet(VotesFor(n, node[n].aepoch))
  BY FS_Subset DEF CountInv, VotesFor
<1>4. /\ Cardinality(C) <= Cardinality(VotesFor(n, node[n].aepoch))
      /\ Cardinality(VotesFor(n, node[n].aepoch)) \in Nat
  BY <1>2, <1>3, FS_Subset, FS_CardinalityType
<1>5. Size(node[n]) \in Nat /\ node[n].count \in Nat
  BY <1>1, NodeGood, SizeType DEF FailoverInv, NodeState
<1> QED BY <1>1, <1>2, <1>4, <1>5 DEF Quorum

\* An election that was won keeps its majority, and only WinElection adds one.
LEMMA NextMajority ==
  ASSUME FailoverInv, CountInv, CountInv', WinnerHasMajority, [Next]_vars
  PROVE  WinnerHasMajority'
<1>1. granted \subseteq granted'
  BY DEF Next, Receive, SendPing, ReceivePing, ReceiveUpdate, ReceiveRequest, ReceiveAck,
         MarkNodeAsFailing, ClearNodeFailure, ScheduleElection, StartElection,
         StartManualElection, WinElection, AskFailover, StartFailover,
         ManualFailoverTimeout, Takeover, BeforeSleep, Crash, vars
<1>2. wins' = wins \/ \E n \in Shard :
        /\ WinElection(n)
        /\ wins' = wins \cup {[epoch |-> node[n].aepoch, cand |-> n, size |-> Size(node[n]),
                               late |-> node[n].late]}
  BY DEF Next, Receive, SendPing, ReceivePing, ReceiveUpdate, ReceiveRequest, ReceiveAck,
         MarkNodeAsFailing, ClearNodeFailure, ScheduleElection, StartElection,
         StartManualElection, WinElection, AskFailover, StartFailover,
         ManualFailoverTimeout, Takeover, BeforeSleep, Crash, vars
<1>3. ASSUME NEW c, NEW e, NEW k \in Nat, 2 * Cardinality(VotesFor(c, e)) > k
      PROVE  2 * Cardinality({v \in granted' : v[2] = e /\ v[3] = c}) > k
  <2> DEFINE F == {v \in granted' : v[2] = e /\ v[3] = c}
  <2>1. IsFiniteSet(F) /\ VotesFor(c, e) \subseteq F
    BY <1>1, FS_Subset DEF CountInv, VotesFor
  <2> HIDE DEF F
  <2>2. /\ Cardinality(VotesFor(c, e)) <= Cardinality(F)
        /\ Cardinality(F) \in Nat /\ Cardinality(VotesFor(c, e)) \in Nat
    BY <2>1, FS_Subset, FS_CardinalityType
  <2>3. 2 * Cardinality(F) > k
    BY <1>3, <2>2
  <2> QED BY <2>3 DEF F
<1>4. \A w \in wins : w.size \in Nat /\ (~w.late => 2 * Cardinality(VotesFor(w.cand, w.epoch)) > w.size)
  BY DEF WinnerHasMajority, VotesFor, FailoverInv, HistoryType
<1>5. \A w \in wins' : w.size \in Nat /\ (~w.late => 2 * Cardinality(VotesFor(w.cand, w.epoch)) > w.size)
  BY <1>2, <1>4, WinCounted, SizeType
<1> QED BY <1>3, <1>5 DEF WinnerHasMajority

\* Every step keeps the invariant of all elections.
LEMMA NextElection ==
  ASSUME EarlyWrite = {}, ElectionInv, [Next]_vars
  PROVE  ElectionInv'
<1>1. CASE Next
  BY <1>1, NextInv, VotesKept, NextCount, NextMajority DEF ElectionInv, VotesInv
<1>2. CASE UNCHANGED vars
  <2>1. VotesInv'
    BY <1>2, StutterInv DEF ElectionInv, VotesInv, Remembered, OneVotePerEpoch, vars
  <2>2. CountInv'
    BY <1>2 DEF ElectionInv, CountInv, BallotsOK, Reached, Waits, Counts, VotesFor, vars
  <2> QED BY <1>2, <2>1, <2>2 DEF ElectionInv, WinnerHasMajority, vars
<1> QED BY <1>1, <1>2

\* The first state.
LEMMA InitElection ==
  Init => ElectionInv
<1> SUFFICES ASSUME Init PROVE ElectionInv
  OBVIOUS
<1>1. VotesInv
  BY InitInv DEF Init, VotesInv, Remembered, OneVotePerEpoch
<1>2. \A n \in Node : node[n].auth = "none"
  BY DEF Init, InitialNode
<1>3. CountInv
  BY <1>2, FS_EmptySet DEF Init, CountInv, BallotsOK, Waits, Counts
<1> QED BY <1>1, <1>3 DEF ElectionInv, WinnerHasMajority, Init

\* clusterHandleReplicaFailover promotes a replica only when a majority of the
\* voting primaries it knows of granted their votes for the epoch of this very
\* election, whatever is lost, delayed, repeated after a restart or left over from
\* earlier elections: the one exception is a replica that counted a vote between
\* the reset of failover_auth_count and the change of failover_auth_epoch.  Votes
\* and epochs are taken to be saved before they leave.
THEOREM WinnersHaveMajorities ==
  ASSUME EarlyWrite = {}
  PROVE  Spec => []WinnerHasMajority
<1>1. ElectionInv /\ [Next]_vars => ElectionInv'
  BY NextElection
<1>2. ElectionInv => WinnerHasMajority
  BY DEF ElectionInv
<1> QED BY InitElection, <1>1, <1>2, PTL DEF Spec

-----------------------------------------------------------------------------
(* Slots of replicas.  A node never takes a packet for its own, so what it *)
(* learns from others makes it the owner of the slots only together with   *)
(* making it a primary; and it follows another node only when it has none. *)

Landless(s, n) == (n \in Shard /\ s.of[n] # None) => s.owner # n

LandlessInv ==
  /\ FailoverInv
  /\ \A n \in Node : Landless(node[n], n)
  /\ \A n \in Crashable : Landless(disk[n], n)
  /\ \A m \in net : m.h.src # m.to

\* What is not about slots or roles.
LEMMA SameLand ==
  ASSUME NEW s, NEW t, NEW n, Landless(s, n), t.of = s.of, t.owner = s.owner
  PROVE  Landless(t, n)
  BY DEF Landless

\* The part of clusterProcessPacket common to all packets.
LEMMA PreambleLand ==
  ASSUME NEW s, Good(s), NEW h, NEW n
  PROVE  Preamble(s, h).of = s.of /\ Preamble(s, h).owner = s.owner
  BY DEF Preamble, Good, Fields

\* clusterUpdateSlotsConfigWith: the shard of n lost its slots, or had none.
LEMMA UpdateSlotsConfigWithLand ==
  ASSUME NEW s, Good(s), NEW n \in Node, NEW x \in Shard,
         NEW e, NEW claims \in BOOLEAN, Landless(s, n)
  PROVE  Landless(UpdateSlotsConfigWith(s, n, x, e, claims), n)
<1> DEFINE rebind == claims /\ s.owner # x /\ (s.quiet \/ s.conf[s.owner] < e)
           t == IF rebind           THEN Bind(s, x)
                ELSE IF s.owner = x THEN [s EXCEPT !.quiet = ~claims]
                ELSE s
           lost  == rebind /\ s.owner = CurPrimary(s, n)
           adopt == /\ s.of[n] # x /\ ~claims /\ t.owner # n
                    /\ NodeEpoch(t, n) < e
<1>1. CASE x = n
  BY <1>1 DEF UpdateSlotsConfigWith
<1>2. CASE x # n
  <2>1. \/ UpdateSlotsConfigWith(s, n, x, e, claims) = t
        \/ /\ n \in Shard /\ (lost \/ adopt)
           /\ UpdateSlotsConfigWith(s, n, x, e, claims) = SetPrimary(t, n, x)
    BY <1>2, Zenon DEF UpdateSlotsConfigWith
  <2>2. t \in Fields /\ t.of = s.of /\ (rebind => t.owner = x) /\ (~rebind => t.owner = s.owner)
    <3>1. CASE rebind
      BY <3>1 DEF Bind, Good, Fields
    <3>2. CASE ~rebind /\ s.owner = x
      BY <3>2 DEF Good, Fields
    <3>3. CASE ~rebind /\ s.owner # x
      BY <3>3 DEF Good, Fields
    <3> QED BY <3>1, <3>2, <3>3
  <2>3. (lost \/ adopt) => t.owner # n
    BY <1>2, <2>2
  <2>4. Landless(t, n)
    BY <1>2, <2>2 DEF Landless
  <2> HIDE DEF t, lost, adopt
  <2>5. SetPrimary(t, n, x).owner = t.owner
    BY <2>2 DEF SetPrimary, Fields
  <2> QED BY <2>1, <2>3, <2>4, <2>5 DEF Landless
<1> QED BY <1>1, <1>2

\* clusterSetNodeAsPrimary.
LEMMA SetNodeAsPrimaryLand ==
  ASSUME NEW s, Good(s), NEW x \in Shard, NEW n \in Node, Landless(s, n)
  PROVE  Landless(SetNodeAsPrimary(s, x), n)
  BY DEF SetNodeAsPrimary, Landless, Good, Fields

\* A PING of a primary.
LEMMA FromPrimaryLand ==
  ASSUME NEW s, Good(s), NEW n \in Node, NEW h, GoodHeader(h), h.src \in Shard,
         Landless(s, n)
  PROVE  Landless(FromPrimary(s, n, h), n)
<1> DEFINE s0 == Preamble(s, h)
           s1 == SetNodeAsPrimary(s0, h.src)
<1>1. Good(s0) /\ Landless(s0, n)
  BY PreambleGood, PreambleLand, SameLand DEF After
<1>2. h.claims \in BOOLEAN
  BY DEF GoodHeader, HeaderType
<1>3. \/ FromPrimary(s, n, h) = s1
      \/ FromPrimary(s, n, h) = UpdateSlotsConfigWith(s1, n, h.src, h.epoch, h.claims)
  BY Zenon DEF FromPrimary
<1> HIDE DEF s0
<1>4. Good(s1) /\ Landless(s1, n)
  BY <1>1, SetNodeAsPrimaryGood, SetNodeAsPrimaryLand DEF After
<1> HIDE DEF s1
<1> QED BY <1>2, <1>3, <1>4, UpdateSlotsConfigWithLand

\* clusterHandleConfigEpochCollision.
LEMMA CollisionLand ==
  ASSUME NEW s, Good(s), NEW n, NEW h
  PROVE  /\ HandleConfigEpochCollision(s, n, h).of = s.of
         /\ HandleConfigEpochCollision(s, n, h).owner = s.owner
  BY DEF HandleConfigEpochCollision, Good, Fields

\* The sub-replica safeguard changes the primary of a replica.
LEMMA FollowChainLand ==
  ASSUME NEW s, Good(s), NEW n \in Node, Landless(s, n)
  PROVE  Landless(FollowChain(s, n), n)
<1> DEFINE up == IF n \in Shard THEN s.of[n] ELSE None
<1>1. CASE up # None /\ s.of[up] \notin {None, n}
  <2>1. n \in Shard /\ s.of[n] # None
    BY <1>1
  <2>2. FollowChain(s, n) = SetPrimary(s, n, s.of[up])
    BY <1>1 DEF FollowChain
  <2>3. SetPrimary(s, n, s.of[up]).owner = s.owner
    BY DEF SetPrimary, Good, Fields
  <2> QED BY <2>1, <2>2, <2>3 DEF Landless
<1>2. CASE ~(up # None /\ s.of[up] \notin {None, n})
  <2>1. FollowChain(s, n) = s
    BY <1>2 DEF FollowChain
  <2> QED BY <2>1
<1> QED BY <1>1, <1>2

\* A PING of a replica: slots that move to n move together with its role.
LEMMA FromReplicaLand ==
  ASSUME NEW s, Good(s), NEW n \in Node, NEW h, GoodHeader(h),
         h.src \in Shard, h.of # None, h.src # n, Landless(s, n)
  PROVE  Landless(FromReplica(s, n, h), n)
<1> DEFINE s1      == Preamble(s, h)
           bound   == IF s1.owner = h.src THEN Bind(s1, h.of) ELSE s1
           raised  == SetNodeAsPrimary(bound, h.of)
           crowned == [raised EXCEPT !.conf = [@ EXCEPT ![h.of] = h.epoch]]
           demoted == s1.of[h.src] = None
           s2 == IF demoted /\ s1.of[h.of] # None THEN crowned ELSE s1
           s3 == [s2 EXCEPT !.of = [@ EXCEPT ![h.src] = h.of]]
<1>1. h.of \in Shard /\ h.epoch \in Nat /\ h.cur \in Nat /\ h.epoch <= h.cur
  BY DEF GoodHeader, HeaderType, Epoch
<1>2. Good(s1) /\ h.cur <= s1.cur /\ Landless(s1, n)
  BY PreambleGood, PreambleLand, SameLand DEF After
<1>3. FromReplica(s, n, h) \in {s1, s2, FollowChain(s3, n)}
  BY Zenon DEF FromReplica
<1> HIDE DEF s1
<1>4. Good(bound) /\ bound.of = s1.of /\ s1.cur <= bound.cur /\ bound.owner \in {s1.owner, h.of}
  <2>1. After(bound, s1)
    BY <1>1, <1>2, BindKept, KeptReflexive DEF Kept
  <2>2. Bind(s1, h.of).of = s1.of /\ Bind(s1, h.of).owner = h.of
    BY <1>2 DEF Bind, Good, Fields
  <2> QED BY <2>1, <2>2 DEF After
<1> HIDE DEF bound
<1>5. After(raised, bound) /\ Landless(raised, n)
  <2>1. After(raised, bound)
    BY <1>1, <1>4, SetNodeAsPrimaryGood
  <2>2. raised.owner = bound.owner /\ raised.of = [bound.of EXCEPT ![h.of] = None]
    BY <1>4 DEF SetNodeAsPrimary, Good, Fields
  <2>3. Landless(raised, n)
    BY <1>1, <1>2, <1>4, <2>2 DEF Landless, Good, Fields
  <2> QED BY <2>1, <2>3
<1> HIDE DEF raised
<1>6. h.epoch <= raised.cur
  BY <1>1, <1>2, <1>4, <1>5 DEF After, Good, Fields
<1>7. Good(crowned) /\ crowned.of = raised.of /\ crowned.owner = raised.owner
  BY <1>1, <1>5, <1>6, SetConfGood DEF After, Good, Fields
<1> HIDE DEF crowned
<1>8. Good(s2) /\ Landless(s2, n)
  BY <1>2, <1>5, <1>7, SameLand
<1> HIDE DEF s2
<1>9. Good(s3) /\ s3.owner = s2.owner /\ s3.of = [s2.of EXCEPT ![h.src] = h.of]
  BY <1>1, <1>8, RetargetGood DEF After, Good, Fields
<1> HIDE DEF s3
<1>10. Landless(s3, n)
  BY <1>8, <1>9 DEF Landless, Good, Fields
<1>11. Landless(FollowChain(s3, n), n)
  BY <1>9, <1>10, FollowChainLand
<1> QED BY <1>2, <1>3, <1>8, <1>11

\* clusterProcessPacket for PING and PONG.
LEMMA ProcessPingLand ==
  ASSUME NEW s, Good(s), NEW n \in Node, NEW h, GoodHeader(h), h.src # n, Landless(s, n)
  PROVE  Landless(ProcessPing(s, n, h), n)
<1>1. CASE h.src \in Voter
  BY <1>1, PreambleLand, SameLand DEF ProcessPing
<1>2. CASE h.src \notin Voter
  <2>1. h.src \in Shard
    BY <1>2 DEF GoodHeader, HeaderType, Node
  <2>2. CASE h.of = None
    <3>1. Good(FromPrimary(s, n, h)) /\ Landless(FromPrimary(s, n, h), n)
      BY <2>1, FromPrimaryGood, FromPrimaryLand DEF After
    <3> QED BY <1>2, <2>2, <3>1, CollisionLand, SameLand DEF ProcessPing
  <2>3. CASE h.of # None
    BY <1>2, <2>1, <2>3, FromReplicaLand DEF ProcessPing
  <2> QED BY <2>2, <2>3
<1> QED BY <1>1, <1>2

\* clusterProcessPacket for UPDATE.
LEMMA ProcessUpdateLand ==
  ASSUME NEW s, Good(s), NEW n \in Node, NEW m, GoodPacket(m), Landless(s, n)
  PROVE  Landless(ProcessUpdate(s, n, m), n)
<1> DEFINE s1 == Preamble(s, m.h)
           sp == SetNodeAsPrimary(s1, m.about)
           s2 == [sp EXCEPT !.conf = [@ EXCEPT ![m.about] = m.epoch]]
           u  == UpdateSlotsConfigWith(s2, n, m.about, m.epoch, m.claims)
<1>1. m.about \in Shard /\ m.epoch \in Nat /\ m.claims \in BOOLEAN /\ m.h.cur \in Nat
  BY DEF GoodPacket, Packet, HeaderType, GoodHeader, Epoch
<1>2. Good(s1) /\ m.h.cur <= s1.cur /\ Landless(s1, n)
  BY PreambleGood, PreambleLand, SameLand DEF GoodPacket, After
<1>3. ProcessUpdate(s, n, m) \in {s1, u}
  BY Zenon DEF ProcessUpdate
<1> HIDE DEF s1
<1>4. After(sp, s1) /\ Landless(sp, n)
  BY <1>1, <1>2, SetNodeAsPrimaryGood, SetNodeAsPrimaryLand
<1> HIDE DEF sp
<1>5. m.epoch <= sp.cur
  BY <1>1, <1>2, <1>4 DEF After, Good, Fields, GoodPacket
<1>6. Good(s2) /\ s2.of = sp.of /\ s2.owner = sp.owner
  BY <1>1, <1>4, <1>5, SetConfGood DEF After, Good, Fields
<1> HIDE DEF s2
<1>7. Landless(u, n)
  BY <1>1, <1>4, <1>6, SameLand, UpdateSlotsConfigWithLand
<1> QED BY <1>2, <1>3, <1>7

\* clusterFailoverReplaceYourPrimary makes n a primary.
LEMMA ReplaceYourPrimaryLand ==
  ASSUME NEW s, Good(s), NEW n \in Shard
  PROVE  Landless(ReplaceYourPrimary(s, n), n)
<1> DEFINE t == [SetNodeAsPrimary(s, n) EXCEPT !.mf = "none", !.auth = "none"]
<1>1. t \in Fields /\ t.of[n] = None
  BY DEF SetNodeAsPrimary, Good, Fields
<1>2. ReplaceYourPrimary(s, n) \in {t, Bind(t, n)}
  BY DEF ReplaceYourPrimary
<1> HIDE DEF t
<1>3. Bind(t, n).of = t.of
  BY <1>1 DEF Bind, Fields
<1> QED BY <1>1, <1>2, <1>3 DEF Landless

\* A node that computed t, and saved it or not.
LEMMA LandStep ==
  ASSUME LandlessInv, FailoverInv', NEW n \in Node, NEW t, Landless(t, n), Effect(n, t),
         \A m \in net' : m \in net \/ m.h.src # m.to
  PROVE  LandlessInv'
<1>1. \A x \in Node : Landless(node'[x], x)
  BY DEF LandlessInv, FailoverInv, NodesInv, Effect
<1>2. Landless(Image(t), n)
  BY DEF Landless, Image
<1>3. \A x \in Crashable : Landless(disk'[x], x)
  BY <1>2 DEF LandlessInv, FailoverInv, NodesInv, Effect
<1> QED BY <1>1, <1>3 DEF LandlessInv

\* Every packet.
LEMMA PacketLand ==
  ASSUME LandlessInv, FailoverInv', NEW m \in net, Receive(m)
  PROVE  LandlessInv'
<1> DEFINE n == m.to
           s == node[n]
           p == Preamble(s, m.h)
<1>0. FailoverInv /\ m.h.src # n
  BY DEF LandlessInv
<1>1. n \in Node /\ GoodPacket(m) /\ GoodHeader(m.h)
  BY <1>0 DEF FailoverInv, NetInv, GoodPacket, Packet
<1>2. Good(s) /\ Landless(s, n)
  BY <1>0, <1>1, NodeGood DEF FailoverInv, LandlessInv
<1>3. Good(p) /\ Landless(p, n)
  BY <1>1, <1>2, PreambleGood, PreambleLand, SameLand DEF After
<1>4. ASSUME ReceivePing(n, m) PROVE LandlessInv'
  <2> DEFINE t == ProcessPing(s, n, m.h)
             k == Update(m.h.src, Header(n, t), t)
  <2>1. Effect(n, t)
    BY <1>0, <1>4 DEF ReceivePing, Step, Effect, FailoverInv, NodesInv
  <2>2. net' \subseteq net \cup {k}
    BY <1>4 DEF ReceivePing
  <2>3. k.h.src = n /\ k.to = m.h.src
    BY HeaderOf DEF Update
  <2>4. Landless(t, n)
    BY <1>0, <1>1, <1>2, ProcessPingLand
  <2> HIDE DEF k, t, n
  <2> QED BY <1>0, <1>1, <2>1, <2>2, <2>3, <2>4, LandStep
<1>5. ASSUME ReceiveUpdate(n, m) PROVE LandlessInv'
  <2> DEFINE t == ProcessUpdate(s, n, m)
  <2>1. Effect(n, t) /\ net' \subseteq net
    BY <1>0, <1>5 DEF ReceiveUpdate, Step, Effect, FailoverInv, NodesInv
  <2>2. Landless(t, n)
    BY <1>1, <1>2, ProcessUpdateLand
  <2> HIDE DEF t, n
  <2> QED BY <1>1, <2>1, <2>2, LandStep
<1>6. ASSUME ReceiveRequest(n, m) PROVE LandlessInv'
  <2>1. PICK t \in {p, [p EXCEPT !.vote = p.cur]} :
          /\ Effect(n, t)
          /\ net' \subseteq net \cup {Plain("ack", m.h.src, Header(n, t)),
                                      Update(m.h.src, Header(n, t), t)}
    BY <1>0, <1>6 DEF ReceiveRequest, Step, Effect, FailoverInv, NodesInv
  <2> DEFINE a == Plain("ack", m.h.src, Header(n, t))
             k == Update(m.h.src, Header(n, t), t)
  <2>2. a.h.src = n /\ a.to = m.h.src /\ k.h.src = n /\ k.to = m.h.src
    BY HeaderOf DEF Plain, Update
  <2>3. net' \subseteq net \cup {a, k}
    BY <2>1
  <2> HIDE DEF a, k, n, p
  <2>4. t.of = p.of /\ t.owner = p.owner
    BY <1>3, <2>1 DEF Good, Fields
  <2>5. Landless(t, n)
    BY <1>3, <2>4, SameLand
  <2> QED BY <1>0, <1>1, <2>1, <2>2, <2>3, <2>5, LandStep
<1>7. ASSUME ReceiveAck(n, m) PROVE LandlessInv'
  <2>1. PICK t \in {p, [p EXCEPT !.count = p.count + 1, !.late = p.late \/ p.auth = "wait"]} :
          Effect(n, t) /\ net' \subseteq net
    BY <1>0, <1>7 DEF ReceiveAck, Step, Effect, FailoverInv, NodesInv
  <2> HIDE DEF n, p
  <2>2. t.of = p.of /\ t.owner = p.owner
    BY <1>3, <2>1 DEF Good, Fields
  <2>3. Landless(t, n)
    BY <1>3, <2>2, SameLand
  <2> QED BY <1>1, <2>1, <2>3, LandStep
<1> QED BY <1>4, <1>5, <1>6, <1>7 DEF Receive

\* Every other step of a node: flags, elections, promotions.
LEMMA LocalLand ==
  ASSUME LandlessInv, FailoverInv', NEW n \in Node, NEW x \in Shard,
         \/ MarkNodeAsFailing(n, x) \/ ClearNodeFailure(n, x)
         \/ AskFailover(n) \/ StartFailover(n) \/ ManualFailoverTimeout(n)
         \/ ScheduleElection(n) \/ StartElection(n) \/ StartManualElection(n)
         \/ n \in Shard /\ (WinElection(n) \/ Takeover(n))
  PROVE  LandlessInv'
<1> DEFINE s == node[n]
           w == [s EXCEPT !.conf = [@ EXCEPT ![n] = Later(s.conf[n], s.aepoch)]]
           b == BumpConfigEpoch(s, n)
<1>0. Good(s) /\ Landless(s, n) /\ FailoverInv
  BY NodeGood DEF LandlessInv, FailoverInv
<1>1. ASSUME \/ MarkNodeAsFailing(n, x) \/ ClearNodeFailure(n, x)
             \/ AskFailover(n) \/ StartFailover(n) \/ ManualFailoverTimeout(n)
      PROVE  LandlessInv'
  <2>1. /\ \/ Effect(n, [s EXCEPT !.fail = s.fail \cup {x}])
           \/ Effect(n, [s EXCEPT !.fail = s.fail \ {x}])
           \/ Effect(n, [s EXCEPT !.mf = "asked"])
           \/ Effect(n, [s EXCEPT !.mf = "can", !.auth = "none"])
           \/ Effect(n, [s EXCEPT !.mf = "none"])
        /\ net' = net
    BY <1>0, <1>1 DEF MarkNodeAsFailing, ClearNodeFailure, AskFailover, StartFailover,
           ManualFailoverTimeout, Step, Effect, FailoverInv, NodesInv
  <2> HIDE DEF s
  <2>2. PICK t : Effect(n, t) /\ t.of = s.of /\ t.owner = s.owner
    <3> DEFINE Same(u) == u.of = s.of /\ u.owner = s.owner
    <3>1. \A F : Same([s EXCEPT !.fail = F])
      BY <1>0 DEF Good, Fields
    <3>2. \A f : Same([s EXCEPT !.mf = f]) /\ Same([s EXCEPT !.mf = f, !.auth = "none"])
      BY <1>0 DEF Good, Fields
    <3> HIDE DEF Same
    <3>3. \E t : Effect(n, t) /\ Same(t)
      BY <2>1, <3>1, <3>2
    <3> QED BY <3>3 DEF Same
  <2> QED BY <1>0, <2>1, <2>2, SameLand, LandStep
<1>2. ASSUME ScheduleElection(n) \/ StartElection(n) \/ StartManualElection(n)
      PROVE  LandlessInv'
  <2>1. PICK t \in {Setup(s), Begin(s), Begin(Setup(s))} :
          Effect(n, t) /\ net' \subseteq net \cup Requests(n, t)
    BY <1>0, <1>2 DEF ScheduleElection, StartElection, StartManualElection,
           Step, Effect, FailoverInv, NodesInv
  <2>2. \A m \in Requests(n, t) : m.h.src # m.to
    BY HeaderOf DEF Requests, Plain
  <2> HIDE DEF s
  <2>3. t.of = s.of /\ t.owner = s.owner
    <3>1. \A r : Good(r) => Begin(r).of = r.of /\ Begin(r).owner = r.owner
      BY DEF Begin, Good, Fields
    <3>2. Good(Setup(s)) /\ Setup(s).of = s.of /\ Setup(s).owner = s.owner
      BY <1>0, SetupGood DEF Setup, After, Good, Fields
    <3> QED BY <1>0, <2>1, <3>1, <3>2
  <2> QED BY <1>0, <2>1, <2>2, <2>3, SameLand, LandStep
<1>3. ASSUME n \in Shard, WinElection(n) \/ Takeover(n) PROVE LandlessInv'
  <2>1. /\ Effect(n, ReplaceYourPrimary(w, n)) \/ Effect(n, ReplaceYourPrimary(b, n))
        /\ net' = net
    BY <1>0, <1>3 DEF WinElection, Takeover, Step, Effect, FailoverInv, NodesInv
  <2>2. Good(w) /\ Good(b)
    BY <1>0, <1>3, WonGood, BumpConfigEpochGood DEF After
  <2> HIDE DEF w, b, s
  <2> QED BY <1>3, <2>1, <2>2, ReplaceYourPrimaryLand, LandStep
<1> QED BY <1>1, <1>2, <1>3

\* Every step.
LEMMA NextLand ==
  ASSUME LandlessInv, [Next]_vars
  PROVE  LandlessInv'
<1>0. /\ Up \subseteq Node /\ Shard \subseteq Node /\ mode.canfail \subseteq Shard
      /\ First \in Shard /\ Crashable \subseteq Node
  BY NodeAssumption, BoundAssumption DEF Up, Node, LandlessInv, FailoverInv, NodesInv, ModeType
<1>1. FailoverInv /\ FailoverInv'
  BY NextInv, StutterInv DEF LandlessInv
<1>2. CASE \E n, x \in Node : SendPing(n, x)
  <2>1. PICK n, x \in Node : SendPing(n, x)
    BY <1>2
  <2>2. node' = node /\ disk' = disk
    BY <2>1 DEF SendPing
  <2>3. \A m \in net' : m.h.src # m.to
    BY <2>1, HeaderOf DEF SendPing, Plain, LandlessInv
  <2> QED BY <1>1, <2>2, <2>3 DEF LandlessInv
<1>3. CASE \E m \in net : Receive(m)
  BY <1>1, <1>3, PacketLand
<1>4. CASE \E n \in Up, x \in mode.canfail : MarkNodeAsFailing(n, x) \/ ClearNodeFailure(n, x)
  BY <1>0, <1>1, <1>4, LocalLand
<1>5. CASE \E n \in Shard \cap Up :
             \/ ScheduleElection(n) \/ StartElection(n) \/ StartManualElection(n)
             \/ WinElection(n) \/ Takeover(n)
             \/ AskFailover(n) \/ StartFailover(n) \/ ManualFailoverTimeout(n)
  BY <1>0, <1>1, <1>5, LocalLand
<1>6. CASE \E n \in Crashable \cap Up : BeforeSleep(n)
  <2>1. PICK n \in Crashable : BeforeSleep(n)
    BY <1>6
  <2>2. Landless(Image(node[n]), n)
    BY <1>0 DEF LandlessInv, Landless, Image
  <2>3. \A x \in Crashable : Landless(disk'[x], x)
    BY <1>1, <2>1, <2>2 DEF BeforeSleep, LandlessInv, FailoverInv, NodesInv
  <2> QED BY <1>1, <2>1, <2>3 DEF BeforeSleep, LandlessInv
<1>7. CASE \E n \in Crashable \cap Up : Crash(n)
  <2>1. PICK n \in Crashable : Crash(n)
    BY <1>7
  <2>2. Landless(Load(disk[n]), n)
    BY DEF LandlessInv, Landless, Load
  <2>3. \A x \in Node : Landless(node'[x], x)
    BY <1>0, <1>1, <2>1, <2>2 DEF Crash, LandlessInv, FailoverInv, NodesInv
  <2> QED BY <1>1, <2>1, <2>3 DEF Crash, LandlessInv
<1>8. CASE UNCHANGED vars
  BY <1>1, <1>8 DEF LandlessInv, vars
<1> QED BY <1>2, <1>3, <1>4, <1>5, <1>6, <1>7, <1>8 DEF Next

\* serverAssert(myself->numslots == 0) in clusterSetPrimary never fails: a node
\* that replicates another one owns none of the slots, in any cluster, with
\* takeovers, late votes, crashes and saves that come too late.
THEOREM ReplicasOwnNoSlots == Spec => []NoSlotsToGiveUp
<1>1. Init => LandlessInv
  <2> SUFFICES ASSUME Init PROVE LandlessInv
    OBVIOUS
  <2>1. \A n \in Node : Landless(InitialNode(n), n) /\ Landless(Image(InitialNode(n)), n)
    BY NodeAssumption DEF Landless, InitialNode, Image
  <2> QED BY <2>1, InitInv, BoundAssumption DEF Init, LandlessInv
<1>2. LandlessInv /\ [Next]_vars => LandlessInv'
  BY NextLand
<1>3. LandlessInv => NoSlotsToGiveUp
  BY DEF LandlessInv, NoSlotsToGiveUp, Landless, Node
<1> QED BY <1>1, <1>2, <1>3, PTL DEF Spec
=============================================================================
