------------------------ MODULE ClusterFailoverProofs ------------------------
(***************************************************************************)
(* Theorems about ClusterFailover, for every cluster and every bound:      *)
(* type correctness, that no node's table holds an epoch above its         *)
(* currentEpoch, and that no primary votes twice in an epoch.              *)
(***************************************************************************)
EXTENDS ClusterFailover, FiniteSetTheorems, TLAPS

-----------------------------------------------------------------------------
(* A clusterState whose epochs are in order.  Handlers compute it without  *)
(* looking at the bound on epochs, which is a guard of Step.               *)

Fields ==
  [cur : Nat, vote : Nat, of : [Shard -> Shard \cup {None}],
   conf : [Shard -> Nat], fail : SUBSET Shard, owner : Shard, quiet : BOOLEAN,
   auth : {"none", "wait", "sent"}, aepoch : Nat, count : Nat,
   late : BOOLEAN, mf : {"none", "asked", "can"}]

InOrder(s) ==
  /\ s.vote <= s.cur /\ s.aepoch <= s.cur
  /\ \A x \in Shard : s.conf[x] <= s.cur

Good(s) == s \in Fields /\ InOrder(s)

\* t is a good state that keeps the vote of s and is not behind s.
After(t, s) == Good(t) /\ t.vote = s.vote /\ s.cur <= t.cur

GoodHeader(h) == h \in HeaderType /\ h.epoch <= h.cur

\* One handler after another.
LEMMA AfterTransitive ==
  ASSUME NEW s, NEW t, NEW u, Good(s), After(t, s), After(u, t)
  PROVE  After(u, s)
  BY DEF After, Good, Fields

\* The bound on currentEpoch, the guard of Step, bounds all the epochs.
LEMMA BoundedIsTyped ==
  ASSUME NEW s, Good(s), s.cur <= MaxEpoch
  PROVE  s \in NodeState
<1>1. s.cur \in Epoch /\ s.vote \in Epoch /\ s.aepoch \in Epoch
  BY BoundAssumption DEF Good, Fields, InOrder, Epoch
<1>2. s.conf \in [Shard -> Epoch]
  BY BoundAssumption DEF Good, Fields, InOrder, Epoch
<1>3. QED
  BY <1>1, <1>2 DEF Good, Fields, NodeState

\* The part of clusterProcessPacket common to all packets.
LEMMA PreambleGood ==
  ASSUME NEW s, Good(s), NEW h, GoodHeader(h)
  PROVE  After(Preamble(s, h), s) /\ h.cur <= Preamble(s, h).cur
<1> DEFINE newer == h.src \in Shard /\ h.of = None /\ h.epoch > s.conf[h.src]
           cf    == IF newer THEN [s.conf EXCEPT ![h.src] = h.epoch] ELSE s.conf
           au    == IF newer /\ s.auth = "sent" /\ h.epoch >= s.aepoch
                      THEN "none" ELSE s.auth
<1>1. Preamble(s, h) = [s EXCEPT !.cur = Later(s.cur, h.cur), !.conf = cf, !.auth = au]
  BY DEF Preamble, Good, Fields
<1>2. /\ Later(s.cur, h.cur) \in Nat
      /\ s.cur <= Later(s.cur, h.cur) /\ h.cur <= Later(s.cur, h.cur)
  BY DEF Good, Fields, GoodHeader, HeaderType, Epoch, Later
<1>3. cf \in [Shard -> Nat] /\ \A x \in Shard : cf[x] <= Later(s.cur, h.cur)
  BY <1>2 DEF Good, Fields, InOrder, GoodHeader, HeaderType, Epoch
<1>4. au \in {"none", "wait", "sent"}
  BY DEF Good, Fields
<1> HIDE DEF cf, au
<1> DEFINE top == Later(s.cur, h.cur)
           t   == [s EXCEPT !.cur = top, !.conf = cf, !.auth = au]
<1> HIDE DEF top
<1>5. t \in Fields
  BY <1>2, <1>3, <1>4 DEF Good, Fields, top
<1>6. /\ t.vote = s.vote /\ t.aepoch = s.aepoch /\ t.cur = top /\ t.conf = cf
  BY DEF Good, Fields
<1>7. s.vote <= top /\ s.aepoch <= top
  BY <1>2 DEF Good, Fields, InOrder, top
<1> HIDE DEF t
<1>8. InOrder(t)
  BY <1>3, <1>6, <1>7 DEF InOrder, top
<1>9. QED
  BY <1>1, <1>2, <1>5, <1>6, <1>8 DEF After, Good, t, top

\* clusterDelSlot and clusterAddSlot.
LEMMA BindGood ==
  ASSUME NEW s, Good(s), NEW x \in Shard
  PROVE  After(Bind(s, x), s)
<1> DEFINE t == Bind(s, x)
<1>1. t \in Fields
  BY DEF Good, Fields, Bind
<1>2. t.cur = s.cur /\ t.vote = s.vote /\ t.aepoch = s.aepoch /\ t.conf = s.conf
  BY DEF Good, Fields, Bind
<1> HIDE DEF t
<1>3. QED
  BY <1>1, <1>2 DEF Good, Fields, InOrder, After, t

\* clusterSetPrimary.
LEMMA SetPrimaryGood ==
  ASSUME NEW s, Good(s), NEW n \in Shard, NEW x \in Shard
  PROVE  After(SetPrimary(s, n, x), s)
<1> DEFINE t == SetPrimary(s, n, x)
<1>1. t \in Fields
  BY DEF Good, Fields, SetPrimary
<1>2. t.cur = s.cur /\ t.vote = s.vote /\ t.aepoch = s.aepoch /\ t.conf = s.conf
  BY DEF Good, Fields, SetPrimary
<1> HIDE DEF t
<1>3. QED
  BY <1>1, <1>2 DEF Good, Fields, InOrder, After, t

\* clusterSetNodeAsPrimary.
LEMMA SetNodeAsPrimaryGood ==
  ASSUME NEW s, Good(s), NEW x \in Shard
  PROVE  After(SetNodeAsPrimary(s, x), s)
  BY DEF Good, Fields, InOrder, SetNodeAsPrimary, After

\* A configuration epoch that is not above currentEpoch may be recorded.
LEMMA SetConfGood ==
  ASSUME NEW s, Good(s), NEW x \in Shard, NEW e \in Nat, e <= s.cur
  PROVE  After([s EXCEPT !.conf = [@ EXCEPT ![x] = e]], s)
  BY DEF Good, Fields, InOrder, After

\* owner_not_claiming_slot plays no part in epochs.
LEMMA QuietGood ==
  ASSUME NEW s, Good(s), NEW b \in BOOLEAN
  PROVE  After([s EXCEPT !.quiet = b], s)
  BY DEF Good, Fields, InOrder, After

\* Neither does replicaof.
LEMMA RetargetGood ==
  ASSUME NEW s, Good(s), NEW x \in Shard, NEW y \in Shard \cup {None}
  PROVE  After([s EXCEPT !.of = [@ EXCEPT ![x] = y]], s)
  BY DEF Good, Fields, InOrder, After

\* clusterUpdateSlotsConfigWith moves slots and roles, never epochs.
LEMMA UpdateSlotsConfigWithGood ==
  ASSUME NEW s, Good(s), NEW n \in Node, NEW x \in Shard,
         NEW e, NEW claims \in BOOLEAN
  PROVE  After(UpdateSlotsConfigWith(s, n, x, e, claims), s)
<1> DEFINE rebind == claims /\ s.owner # x /\ (s.quiet \/ s.conf[s.owner] < e)
           t == IF rebind           THEN Bind(s, x)
                ELSE IF s.owner = x THEN [s EXCEPT !.quiet = ~claims]
                ELSE s
<1>1. After(t, s)
  <2>1. CASE rebind
    BY <2>1, BindGood
  <2>2. CASE ~rebind /\ s.owner = x
    BY <2>2, QuietGood
  <2>3. CASE ~rebind /\ s.owner # x
    BY <2>3 DEF After, Good, Fields
  <2>4. QED
    BY <2>1, <2>2, <2>3
<1>2. \/ UpdateSlotsConfigWith(s, n, x, e, claims) = s
      \/ UpdateSlotsConfigWith(s, n, x, e, claims) = t
      \/ n \in Shard /\ UpdateSlotsConfigWith(s, n, x, e, claims) = SetPrimary(t, n, x)
  BY Zenon DEF UpdateSlotsConfigWith
<1> HIDE DEF t
<1>3. n \in Shard => After(SetPrimary(t, n, x), s)
  BY <1>1, SetPrimaryGood, AfterTransitive DEF After
<1>4. After(s, s)
  BY DEF After, Good, Fields
<1>5. QED
  BY <1>1, <1>2, <1>3, <1>4

\* A PING of a primary.
LEMMA FromPrimaryGood ==
  ASSUME NEW s, Good(s), NEW n \in Node, NEW h, GoodHeader(h), h.src \in Shard
  PROVE  After(FromPrimary(s, n, h), s)
<1> DEFINE s1 == SetNodeAsPrimary(Preamble(s, h), h.src)
<1>1. After(Preamble(s, h), s)
  BY PreambleGood
<1>2. After(s1, s)
  BY <1>1, SetNodeAsPrimaryGood, AfterTransitive DEF After
<1>3. h.claims \in BOOLEAN
  BY DEF GoodHeader, HeaderType
<1>4. \/ FromPrimary(s, n, h) = s1
      \/ FromPrimary(s, n, h) = UpdateSlotsConfigWith(s1, n, h.src, h.epoch, h.claims)
  BY Zenon DEF FromPrimary
<1> HIDE DEF s1
<1>5. After(UpdateSlotsConfigWith(s1, n, h.src, h.epoch, h.claims), s1)
  BY <1>2, <1>3, UpdateSlotsConfigWithGood DEF After
<1>6. QED
  BY <1>2, <1>4, <1>5, AfterTransitive

\* clusterHandleConfigEpochCollision raises currentEpoch with configEpoch.
LEMMA CollisionGood ==
  ASSUME NEW s, Good(s), NEW n \in Node, NEW h
  PROVE  After(HandleConfigEpochCollision(s, n, h), s)
<1> DEFINE k  == s.cur + 1
           cf == [s.conf EXCEPT ![n] = k]
           t  == [s EXCEPT !.cur = k, !.conf = cf]
<1>1. ASSUME n \in Shard PROVE After(t, s)
  <2>0. k \in Nat /\ s.cur < k
    BY DEF Good, Fields
  <2> HIDE DEF k
  <2>1. cf \in [Shard -> Nat] /\ \A x \in Shard : cf[x] <= k
    BY <1>1, <2>0 DEF Good, Fields, InOrder
  <2> HIDE DEF cf
  <2>2. t \in Fields
    BY <2>0, <2>1 DEF Good, Fields
  <2>3. t.cur = k /\ t.vote = s.vote /\ t.aepoch = s.aepoch /\ t.conf = cf
    BY DEF Good, Fields
  <2> HIDE DEF t
  <2>4. QED
    BY <2>0, <2>1, <2>2, <2>3 DEF Good, Fields, InOrder, After
<1>2. After(s, s)
  BY DEF After, Good, Fields
<1>3. \/ HandleConfigEpochCollision(s, n, h) = s
      \/ n \in Shard /\ HandleConfigEpochCollision(s, n, h) = t
  BY DEF HandleConfigEpochCollision, Collides, Good, Fields
<1> HIDE DEF t
<1>4. QED
  BY <1>1, <1>2, <1>3

\* The sub-replica safeguard.
LEMMA FollowChainGood ==
  ASSUME NEW s, Good(s), NEW n \in Node
  PROVE  After(FollowChain(s, n), s)
<1> DEFINE p == IF n \in Shard THEN s.of[n] ELSE None
<1>1. CASE p # None /\ s.of[p] \notin {None, n}
  <2>1. n \in Shard /\ p \in Shard /\ s.of[p] \in Shard
    BY <1>1 DEF Good, Fields
  <2>2. FollowChain(s, n) = SetPrimary(s, n, s.of[p])
    BY <1>1 DEF FollowChain
  <2>3. QED
    BY <2>1, <2>2, SetPrimaryGood
<1>2. CASE ~(p # None /\ s.of[p] \notin {None, n})
  <2>1. FollowChain(s, n) = s
    BY <1>2 DEF FollowChain
  <2>2. QED
    BY <2>1 DEF After, Good, Fields
<1>3. QED
  BY <1>1, <1>2

\* A PING of a replica may record an epoch for the primary it names, which is
\* not above the currentEpoch the same header announced.
LEMMA FromReplicaGood ==
  ASSUME NEW s, Good(s), NEW n \in Node, NEW h, GoodHeader(h),
         h.src \in Shard, h.of # None
  PROVE  After(FromReplica(s, n, h), s)
<1> DEFINE s1      == Preamble(s, h)
           moved   == IF s1.owner = h.src THEN Bind(s1, h.of) ELSE s1
           raised  == SetNodeAsPrimary(moved, h.of)
           crowned == [raised EXCEPT !.conf = [@ EXCEPT ![h.of] = h.epoch]]
           demoted == s1.of[h.src] = None
           s2 == IF demoted /\ s1.of[h.of] # None THEN crowned ELSE s1
           s3 == [s2 EXCEPT !.of = [@ EXCEPT ![h.src] = h.of]]
<1>1. h.of \in Shard /\ h.epoch \in Nat /\ h.cur \in Nat /\ h.epoch <= h.cur
  BY DEF GoodHeader, HeaderType, Epoch
<1>2. After(s1, s) /\ h.cur <= s1.cur
  BY PreambleGood
<1>3. FromReplica(s, n, h) \in {s1, s2, FollowChain(s3, n)}
  BY Zenon DEF FromReplica
<1> HIDE DEF s1
<1>4. After(moved, s1)
  BY <1>1, <1>2, BindGood DEF After, Good, Fields
<1> HIDE DEF moved
<1>5. After(raised, moved)
  BY <1>1, <1>4, SetNodeAsPrimaryGood DEF After
<1> HIDE DEF raised
<1>6. h.epoch <= raised.cur
  BY <1>1, <1>2, <1>4, <1>5 DEF After, Good, Fields
<1>7. After(crowned, raised)
  BY <1>1, <1>5, <1>6, SetConfGood DEF After
<1> HIDE DEF crowned
<1>8. After(crowned, s)
  BY <1>2, <1>4, <1>5, <1>7, AfterTransitive DEF After
<1>9. After(s2, s)
  BY <1>2, <1>8
<1> HIDE DEF s2
<1>10. After(s3, s2)
  BY <1>1, <1>9, RetargetGood DEF After
<1> HIDE DEF s3
<1>11. After(FollowChain(s3, n), s3)
  BY <1>10, FollowChainGood DEF After
<1>12. After(FollowChain(s3, n), s)
  BY <1>9, <1>10, <1>11, AfterTransitive DEF After
<1>13. QED
  BY <1>2, <1>3, <1>9, <1>12

\* clusterProcessPacket for PING and PONG.
LEMMA ProcessPingGood ==
  ASSUME NEW s, Good(s), NEW n \in Node, NEW h, GoodHeader(h)
  PROVE  After(ProcessPing(s, n, h), s)
<1>1. CASE h.src \in Voter
  BY <1>1, PreambleGood DEF ProcessPing
<1>2. CASE h.src \notin Voter
  <2>1. h.src \in Shard
    BY <1>2 DEF GoodHeader, HeaderType, Node
  <2>2. CASE h.of = None
    <3>1. After(FromPrimary(s, n, h), s)
      BY <2>1, FromPrimaryGood
    <3>2. After(HandleConfigEpochCollision(FromPrimary(s, n, h), n, h), FromPrimary(s, n, h))
      BY <3>1, CollisionGood DEF After
    <3>3. QED
      BY <1>2, <2>2, <3>1, <3>2, AfterTransitive DEF ProcessPing
  <2>3. CASE h.of # None
    BY <1>2, <2>1, <2>3, FromReplicaGood DEF ProcessPing
  <2>4. QED
    BY <2>2, <2>3
<1>3. QED
  BY <1>1, <1>2

GoodPacket(m) == m \in Packet /\ GoodHeader(m.h) /\ m.epoch <= m.h.cur

\* clusterProcessPacket for UPDATE.
LEMMA ProcessUpdateGood ==
  ASSUME NEW s, Good(s), NEW n \in Node, NEW m, GoodPacket(m)
  PROVE  After(ProcessUpdate(s, n, m), s)
<1> DEFINE s1 == Preamble(s, m.h)
           sp == SetNodeAsPrimary(s1, m.about)
           s2 == [sp EXCEPT !.conf = [@ EXCEPT ![m.about] = m.epoch]]
           u  == UpdateSlotsConfigWith(s2, n, m.about, m.epoch, m.claims)
<1>1. m.about \in Shard /\ m.epoch \in Nat /\ m.claims \in BOOLEAN /\ m.h.cur \in Nat
  BY DEF GoodPacket, Packet, HeaderType, GoodHeader, Epoch
<1>2. After(s1, s) /\ m.h.cur <= s1.cur
  BY PreambleGood DEF GoodPacket
<1>3. ProcessUpdate(s, n, m) \in {s1, u}
  BY Zenon DEF ProcessUpdate
<1> HIDE DEF s1
<1>4. After(sp, s1)
  BY <1>1, <1>2, SetNodeAsPrimaryGood DEF After
<1> HIDE DEF sp
<1>5. m.epoch <= sp.cur
  BY <1>1, <1>2, <1>4 DEF After, Good, Fields, GoodPacket
<1>6. After(s2, sp)
  BY <1>1, <1>4, <1>5, SetConfGood DEF After
<1> HIDE DEF s2
<1>7. After(u, s2)
  BY <1>1, <1>6, UpdateSlotsConfigWithGood DEF After
<1> HIDE DEF u
<1>8. After(u, s)
  BY <1>2, <1>4, <1>6, <1>7, AfterTransitive DEF After
<1>9. QED
  BY <1>2, <1>3, <1>8

\* What matters of a state is its epochs.
LEMMA SameEpochs ==
  ASSUME NEW s, Good(s), NEW t \in Fields,
         t.cur = s.cur, t.vote = s.vote, t.aepoch = s.aepoch, t.conf = s.conf
  PROVE  After(t, s)
  BY DEF Good, Fields, InOrder, After

\* Scheduling an election.
LEMMA SetupGood ==
  ASSUME NEW s, Good(s)
  PROVE  After(Setup(s), s)
<1> DEFINE t == Setup(s)
<1>1. t \in Fields
  BY DEF Good, Fields, Setup
<1>2. t.cur = s.cur /\ t.vote = s.vote /\ t.aepoch = s.aepoch /\ t.conf = s.conf
  BY DEF Good, Fields, Setup
<1> HIDE DEF t
<1>3. QED
  BY <1>1, <1>2, SameEpochs DEF t

\* Starting it.
LEMMA BeginGood ==
  ASSUME NEW s, Good(s)
  PROVE  After(Begin(s), s)
<1> DEFINE k == s.cur + 1
           t == [s EXCEPT !.auth = "sent", !.cur = k, !.aepoch = k]
<1>1. k \in Nat /\ s.cur < k
  BY DEF Good, Fields
<1>2. Begin(s) = t
  BY DEF Begin, Good, Fields
<1> HIDE DEF k
<1>3. t \in Fields
  BY <1>1 DEF Good, Fields
<1>4. t.cur = k /\ t.vote = s.vote /\ t.aepoch = k /\ t.conf = s.conf
  BY DEF Good, Fields
<1> HIDE DEF t
<1>5. QED
  BY <1>1, <1>2, <1>3, <1>4 DEF Good, Fields, InOrder, After

\* clusterFailoverReplaceYourPrimary.
LEMMA ReplaceYourPrimaryGood ==
  ASSUME NEW s, Good(s), NEW n \in Shard
  PROVE  After(ReplaceYourPrimary(s, n), s)
<1> DEFINE u == SetNodeAsPrimary(s, n)
           t == [u EXCEPT !.mf = "none", !.auth = "none"]
<1>1. ReplaceYourPrimary(s, n) \in {t, Bind(t, n)}
  BY DEF ReplaceYourPrimary
<1>2. After(u, s)
  BY SetNodeAsPrimaryGood
<1> HIDE DEF u
<1>3. After(t, u)
  <2>1. t \in Fields
    BY <1>2 DEF After, Good, Fields
  <2>2. t.cur = u.cur /\ t.vote = u.vote /\ t.aepoch = u.aepoch /\ t.conf = u.conf
    BY <1>2 DEF After, Good, Fields
  <2> HIDE DEF t
  <2>3. QED
    BY <1>2, <2>1, <2>2, SameEpochs DEF After
<1> HIDE DEF t
<1>4. After(t, s)
  BY <1>2, <1>3, AfterTransitive
<1>5. After(Bind(t, n), s)
  BY <1>4, BindGood, AfterTransitive DEF After
<1>6. QED
  BY <1>1, <1>4, <1>5

\* The winner's configEpoch is the epoch of the election, not above currentEpoch.
LEMMA WonGood ==
  ASSUME NEW s, Good(s), NEW n \in Shard
  PROVE  After([s EXCEPT !.conf = [@ EXCEPT ![n] = Later(s.conf[n], s.aepoch)]], s)
<1> DEFINE e == Later(s.conf[n], s.aepoch)
<1>1. e \in Nat /\ e <= s.cur
  BY DEF Later, Good, Fields, InOrder
<1>2. QED
  BY <1>1, SetConfGood

\* clusterBumpConfigEpochWithoutConsensus.
LEMMA BumpConfigEpochGood ==
  ASSUME NEW s, Good(s), NEW n \in Shard
  PROVE  After(BumpConfigEpoch(s, n), s)
<1> DEFINE k  == s.cur + 1
           cf == [s.conf EXCEPT ![n] = k]
           t  == [s EXCEPT !.cur = k, !.conf = cf]
<1>1. k \in Nat /\ s.cur < k
  BY DEF Good, Fields
<1>2. BumpConfigEpoch(s, n) \in {s, t}
  BY DEF BumpConfigEpoch, Good, Fields
<1> HIDE DEF k
<1>3. cf \in [Shard -> Nat] /\ \A x \in Shard : cf[x] <= k
  BY <1>1 DEF Good, Fields, InOrder
<1> HIDE DEF cf
<1>4. t \in Fields
  BY <1>1, <1>3 DEF Good, Fields
<1>5. t.cur = k /\ t.vote = s.vote /\ t.aepoch = s.aepoch /\ t.conf = cf
  BY DEF Good, Fields
<1> HIDE DEF t
<1>6. After(t, s)
  BY <1>1, <1>3, <1>4, <1>5 DEF Good, Fields, InOrder, After
<1>7. After(s, s)
  BY DEF After, Good, Fields
<1>8. QED
  BY <1>2, <1>6, <1>7

\* Granting a vote, counting one, and the flags of failures and manual failovers.
LEMMA VoteGood ==
  ASSUME NEW s, Good(s)
  PROVE  LET t == [s EXCEPT !.vote = s.cur]
         IN  Good(t) /\ t.vote = s.cur /\ t.cur = s.cur
  BY DEF Good, Fields, InOrder

\* failover_auth_count.
LEMMA CountGood ==
  ASSUME NEW s, Good(s), NEW b \in BOOLEAN
  PROVE  After([s EXCEPT !.count = @ + 1, !.late = b], s)
<1> DEFINE u == [s EXCEPT !.count = @ + 1]
           t == [s EXCEPT !.count = @ + 1, !.late = b]
<1>1. u \in Fields /\ u.cur = s.cur /\ u.vote = s.vote /\ u.aepoch = s.aepoch /\ u.conf = s.conf
  BY DEF Good, Fields
<1>2. t = [u EXCEPT !.late = b]
  BY DEF Good, Fields
<1> HIDE DEF u, t
<1>3. [u EXCEPT !.late = TRUE] \in Fields
  BY <1>1 DEF Fields
<1>4. [u EXCEPT !.late = FALSE] \in Fields
  BY <1>1 DEF Fields
<1>5. t \in Fields
  <2>1. b = TRUE \/ b = FALSE
    OBVIOUS
  <2>2. QED
    BY <1>2, <1>3, <1>4, <2>1, Zenon
<1>6. t.cur = s.cur /\ t.vote = s.vote /\ t.aepoch = s.aepoch /\ t.conf = s.conf
  BY <1>1, <1>2 DEF Fields
<1>7. QED
  BY <1>5, <1>6, SameEpochs DEF t

\* The FAIL flags.
LEMMA FailGood ==
  ASSUME NEW s, Good(s), NEW F \in SUBSET Shard
  PROVE  After([s EXCEPT !.fail = F], s)
  BY DEF Good, Fields, InOrder, After

\* The flags of a manual failover.
LEMMA ManualGood ==
  ASSUME NEW s, Good(s), NEW f \in {"none", "asked", "can"}
  PROVE  /\ After([s EXCEPT !.mf = f], s)
         /\ After([s EXCEPT !.mf = f, !.auth = "none"], s)
<1> DEFINE t == [s EXCEPT !.mf = f, !.auth = "none"]
<1>1. t \in Fields
  BY DEF Good, Fields
<1>2. t.cur = s.cur /\ t.vote = s.vote /\ t.aepoch = s.aepoch /\ t.conf = s.conf
  BY DEF Good, Fields
<1> HIDE DEF t
<1>3. After(t, s)
  BY <1>1, <1>2, SameEpochs
<1>4. After([s EXCEPT !.mf = f], s)
  BY DEF Good, Fields, InOrder, After
<1>5. QED
  BY <1>3, <1>4 DEF t

-----------------------------------------------------------------------------
(* Packets carry no epoch above their sender's.                            *)

\* A typed state whose epochs are in order is good.
LEMMA TypedIsGood ==
  ASSUME NEW s \in NodeState, InOrder(s)
  PROVE  Good(s)
  BY DEF Good, Fields, NodeState, Epoch

\* clusterBuildMessageHdr.
LEMMA HeaderGood ==
  ASSUME NEW n \in Node, NEW s \in NodeState, InOrder(s)
  PROVE  GoodHeader(Header(n, s)) /\ Header(n, s).cur = s.cur
<1>1. CASE n \in Voter
  BY <1>1, BoundAssumption DEF Header, GoodHeader, HeaderType, NodeState, Epoch
<1>2. CASE n \notin Voter
  <2> DEFINE c == CurPrimary(s, n)
             b == s.owner = c
  <2>1. n \in Shard
    BY <1>2 DEF Node
  <2>2. c \in Shard /\ s.of[n] \in Shard \cup {None}
    BY <2>1 DEF CurPrimary, NodeState
  <2>3. Header(n, s) = [src |-> n, cur |-> s.cur, of |-> s.of[n], epoch |-> s.conf[c],
                        claims |-> b]
    BY <1>2 DEF Header, NodeEpoch
  <2>4. b \in BOOLEAN
    OBVIOUS
  <2>5. s.conf[c] \in Epoch /\ s.conf[c] <= s.cur /\ s.cur \in Epoch
    BY <2>2 DEF NodeState, InOrder
  <2> HIDE DEF b, c
  <2>6. QED
    BY <2>2, <2>3, <2>4, <2>5 DEF GoodHeader, HeaderType
<1>3. QED
  BY <1>1, <1>2

\* Packets without a payload.
LEMMA PlainGood ==
  ASSUME NEW type \in PacketType, NEW to \in Node, NEW h, GoodHeader(h)
  PROVE  GoodPacket(Plain(type, to, h))
  BY NodeAssumption, BoundAssumption
     DEF GoodPacket, Plain, Packet, GoodHeader, HeaderType, Epoch

\* clusterSendUpdate.
LEMMA UpdateGood ==
  ASSUME NEW n \in Node, NEW to \in Node, NEW s \in NodeState, InOrder(s)
  PROVE  GoodPacket(Update(to, Header(n, s), s))
<1> DEFINE h == Header(n, s)
           b == ~s.quiet
<1>1. GoodHeader(h) /\ h.cur = s.cur
  BY HeaderGood
<1>2. Update(to, h, s) = [type |-> "update", to |-> to, h |-> h, about |-> s.owner,
                          epoch |-> s.conf[s.owner], claims |-> b]
  BY DEF Update
<1>3. b \in BOOLEAN
  OBVIOUS
<1>4. s.owner \in Shard /\ s.conf[s.owner] \in Epoch /\ s.conf[s.owner] <= s.cur
  BY DEF NodeState, InOrder
<1> HIDE DEF h, b
<1>5. GoodPacket([type |-> "update", to |-> to, h |-> h, about |-> s.owner,
                  epoch |-> s.conf[s.owner], claims |-> b])
  BY <1>1, <1>3, <1>4 DEF GoodPacket, Packet, PacketType, GoodHeader
<1>6. QED
  BY <1>2, <1>5 DEF h

-----------------------------------------------------------------------------
(* The inductive invariant of everything but the history of votes.         *)

DiskState ==
  [cur : Epoch, vote : Epoch, of : [Shard -> Shard \cup {None}],
   conf : [Shard -> Epoch], fail : SUBSET Shard, owner : Shard]

DiskInOrder(d) == d.vote <= d.cur /\ \A x \in Shard : d.conf[x] <= d.cur

NodesInv ==
  /\ node \in [Node -> NodeState] /\ \A n \in Node : InOrder(node[n])
  /\ disk \in [Crashable -> DiskState] /\ \A n \in Crashable : DiskInOrder(disk[n])
  /\ unsaved \subseteq Crashable
  /\ mode \in Modes /\ crashes \in 0..mode.crashes

NetInv == \A m \in net : GoodPacket(m)

HistoryType ==
  /\ granted \subseteq Node \X Epoch \X Node
  /\ wins \subseteq [epoch : Epoch, cand : Shard, size : Nat, late : BOOLEAN]

FailoverInv == NodesInv /\ NetInv /\ HistoryType

\* clusterSaveConfig.
LEMMA ImageGood ==
  ASSUME NEW s \in NodeState, InOrder(s)
  PROVE  Image(s) \in DiskState /\ DiskInOrder(Image(s)) /\ Image(s).vote = s.vote
  BY DEF Image, DiskState, NodeState, DiskInOrder, InOrder

\* clusterLoadConfig: the repair of currentEpoch changes nothing.
LEMMA LoadGood ==
  ASSUME NEW d \in DiskState, DiskInOrder(d)
  PROVE  Load(d) \in NodeState /\ InOrder(Load(d)) /\ Load(d).vote = d.vote
<1> DEFINE epochs == {d.cur} \cup {d.conf[x] : x \in Shard}
<1>1. d.cur \in epochs /\ \A f \in epochs : f <= d.cur /\ f \in Nat
  BY DEF DiskState, DiskInOrder, Epoch
<1>2. GetMaxEpoch(d) = CHOOSE e \in epochs : \A f \in epochs : f <= e
  BY DEF GetMaxEpoch
<1> HIDE DEF epochs
<1>3. GetMaxEpoch(d) \in epochs /\ \A f \in epochs : f <= GetMaxEpoch(d)
  BY <1>1, <1>2
<1>4. GetMaxEpoch(d) = d.cur
  BY <1>1, <1>3
<1>5. QED
  BY <1>4, BoundAssumption DEF Load, DiskState, DiskInOrder, NodeState, InOrder, Epoch

-----------------------------------------------------------------------------
(* Steps of one node.  What Step does, whether or not it saves; a step that *)
(* grants no vote; and a step that does.                                   *)

Effect(n, t) ==
  /\ t.cur <= MaxEpoch
  /\ node' = [node EXCEPT ![n] = t] /\ mode' = mode /\ crashes' = crashes
  /\ \/ disk' = disk /\ unsaved' \subseteq Crashable
     \/ n \in Crashable /\ disk' = [disk EXCEPT ![n] = Image(t)] /\ unsaved' = unsaved

Moves(n) ==
  /\ node' = [node EXCEPT ![n] = node'[n]]
  /\ \/ disk' = disk
     \/ n \in Crashable /\ disk' = [disk EXCEPT ![n] = Image(node'[n])]

NoVote ==
  granted' = granted /\ \E n \in Node : Moves(n) /\ node'[n].vote = node[n].vote

Vote ==
  \E n \in Node, c \in Node :
    /\ granted' = granted \cup {<<n, node'[n].vote, c>>}
    /\ Moves(n) /\ node[n].vote < node'[n].vote
    /\ EarlyWrite = {} /\ n \in Crashable => disk' = [disk EXCEPT ![n] = Image(node'[n])]

\* Whatever a handler computes, saving it or not keeps the invariant.
LEMMA EffectKeepsNodes ==
  ASSUME NodesInv, NEW n \in Node, NEW t, Good(t), Effect(n, t)
  PROVE  NodesInv'
<1>1. t \in NodeState /\ InOrder(t)
  BY BoundedIsTyped DEF Effect, Good
<1>2. Image(t) \in DiskState /\ DiskInOrder(Image(t))
  BY <1>1, ImageGood
<1>3. node' \in [Node -> NodeState] /\ \A x \in Node : InOrder(node'[x])
  BY <1>1 DEF NodesInv, Effect
<1>4. disk' \in [Crashable -> DiskState] /\ \A x \in Crashable : DiskInOrder(disk'[x])
  BY <1>2 DEF NodesInv, Effect
<1>5. QED
  BY <1>3, <1>4 DEF NodesInv, Effect

\* The effect of a step on memory and disk.
LEMMA EffectMoves ==
  ASSUME NodesInv, NEW n \in Node, NEW t, Effect(n, t)
  PROVE  node'[n] = t /\ Moves(n)
  BY DEF NodesInv, Effect, Moves

\* A step that grants no vote and wins no election.
LEMMA OrdinaryStep ==
  ASSUME FailoverInv, NEW n \in Node, NEW t, After(t, node[n]), Effect(n, t),
         NetInv', granted' = granted, wins' = wins
  PROVE  FailoverInv' /\ NoVote
<1>1. NodesInv'
  BY EffectKeepsNodes DEF FailoverInv, After
<1>2. node'[n] = t /\ Moves(n)
  BY EffectMoves DEF FailoverInv
<1>3. HistoryType'
  BY DEF FailoverInv, HistoryType
<1>4. NoVote
  BY <1>2 DEF NoVote, After
<1>5. QED
  BY <1>1, <1>3, <1>4 DEF FailoverInv

\* The invariant, for one node.
LEMMA NodeGood ==
  ASSUME NodesInv, NEW n \in Node
  PROVE  Good(node[n]) /\ node[n] \in NodeState /\ InOrder(node[n])
  BY TypedIsGood DEF NodesInv

\* The result of a handler within the bound is typed.
LEMMA AfterTyped ==
  ASSUME NEW t, NEW s, After(t, s), t.cur <= MaxEpoch
  PROVE  t \in NodeState /\ InOrder(t)
  BY BoundedIsTyped DEF After, Good

-----------------------------------------------------------------------------
(* One lemma per action.                                                   *)

\* clusterSendPing.
LEMMA SendPingStep ==
  ASSUME FailoverInv, NEW n \in Node, NEW to \in Node, SendPing(n, to)
  PROVE  FailoverInv' /\ NoVote
<1>1. GoodPacket(Plain("ping", to, Header(n, node[n])))
  BY NodeGood, HeaderGood, PlainGood DEF FailoverInv, PacketType
<1>2. NetInv'
  BY <1>1 DEF SendPing, FailoverInv, NetInv
<1>3. NodesInv' /\ HistoryType'
  BY DEF SendPing, FailoverInv, NodesInv, HistoryType
<1>4. Moves(n)
  BY DEF SendPing, Moves, FailoverInv, NodesInv
<1>5. NoVote
  BY <1>4 DEF SendPing, NoVote
<1>6. QED
  BY <1>2, <1>3, <1>5 DEF FailoverInv

\* PING and PONG, and the UPDATE they may cause.
LEMMA ReceivePingStep ==
  ASSUME FailoverInv, NEW m \in net, ReceivePing(m.to, m)
  PROVE  FailoverInv' /\ NoVote
<1> DEFINE n == m.to
           s == node[n]
           t == ProcessPing(s, n, m.h)
<1>1. n \in Node /\ GoodPacket(m) /\ GoodHeader(m.h) /\ m.h.src \in Node
  BY DEF FailoverInv, NetInv, GoodPacket, Packet, GoodHeader, HeaderType
<1>2. After(t, s)
  BY <1>1, NodeGood, ProcessPingGood DEF FailoverInv
<1>3. Effect(n, t)
  BY DEF ReceivePing, Step, Effect, FailoverInv, NodesInv
<1>4. net' \subseteq net \cup {Update(m.h.src, Header(n, t), t)}
  BY DEF ReceivePing
<1>5. granted' = granted /\ wins' = wins
  BY DEF ReceivePing
<1> HIDE DEF n, s, t
<1>6. GoodPacket(Update(m.h.src, Header(n, t), t))
  BY <1>1, <1>2, <1>3, AfterTyped, UpdateGood DEF Effect
<1>7. NetInv'
  BY <1>4, <1>6 DEF FailoverInv, NetInv
<1>8. QED
  BY <1>1, <1>2, <1>3, <1>5, <1>7, OrdinaryStep DEF s

\* UPDATE.
LEMMA ReceiveUpdateStep ==
  ASSUME FailoverInv, NEW m \in net, ReceiveUpdate(m.to, m)
  PROVE  FailoverInv' /\ NoVote
<1> DEFINE n == m.to
           t == ProcessUpdate(node[n], n, m)
<1>1. n \in Node /\ GoodPacket(m)
  BY DEF FailoverInv, NetInv, GoodPacket, Packet
<1>2. After(t, node[n])
  BY <1>1, NodeGood, ProcessUpdateGood DEF FailoverInv
<1>3. Effect(n, t)
  BY DEF ReceiveUpdate, Step, Effect, FailoverInv, NodesInv
<1>4. granted' = granted /\ wins' = wins
  BY DEF ReceiveUpdate
<1>5. NetInv'
  BY DEF ReceiveUpdate, FailoverInv, NetInv
<1> HIDE DEF n, t
<1>6. QED
  BY <1>1, <1>2, <1>3, <1>4, <1>5, OrdinaryStep

\* FAILOVER_AUTH_ACK.
LEMMA ReceiveAckStep ==
  ASSUME FailoverInv, NEW m \in net, ReceiveAck(m.to, m)
  PROVE  FailoverInv' /\ NoVote
<1> DEFINE n == m.to
           s == Preamble(node[n], m.h)
           valid == IsVoting(s, m.h.src) /\ m.h.cur >= s.aepoch
           b == s.late \/ s.auth = "wait"
           t == IF valid THEN [s EXCEPT !.count = @ + 1, !.late = b] ELSE s
<1>1. n \in Node /\ GoodHeader(m.h)
  BY DEF FailoverInv, NetInv, GoodPacket, Packet
<1>2. After(s, node[n]) /\ Good(node[n])
  BY <1>1, NodeGood, PreambleGood DEF FailoverInv
<1>3. Effect(n, t)
  BY DEF ReceiveAck, Step, Effect, FailoverInv, NodesInv
<1>4. granted' = granted /\ wins' = wins
  BY DEF ReceiveAck
<1>5. NetInv'
  BY DEF ReceiveAck, FailoverInv, NetInv
<1>0. b \in BOOLEAN
  OBVIOUS
<1> HIDE DEF s, valid, b
<1>6. After([s EXCEPT !.count = @ + 1, !.late = b], s)
  BY <1>0, <1>2, CountGood DEF After
<1>7. After(t, node[n])
  BY <1>2, <1>6, AfterTransitive
<1> HIDE DEF n, t
<1>8. QED
  BY <1>1, <1>3, <1>4, <1>5, <1>7, OrdinaryStep

\* The step the theorem on votes is about: a vote is granted in an epoch above
\* that of every vote before.
LEMMA ReceiveRequestStep ==
  ASSUME FailoverInv, NEW m \in net, ReceiveRequest(m.to, m)
  PROVE  FailoverInv' /\ (NoVote \/ Vote)
<1> DEFINE n == m.to
           s == Preamble(node[n], m.h)
           u == [s EXCEPT !.vote = s.cur]
           vote == MayVote(s, n, m) /\ ~SlotsNewer(s, m)
<1>1. n \in Node /\ GoodHeader(m.h) /\ m.h.src \in Node
  BY DEF FailoverInv, NetInv, GoodPacket, Packet, GoodHeader, HeaderType
<1>2. After(s, node[n]) /\ Good(node[n])
  BY <1>1, NodeGood, PreambleGood DEF FailoverInv
<1>3. CASE vote
  <2>1. Step(n, u, TRUE)
    BY <1>3 DEF ReceiveRequest
  <2>2. Effect(n, u)
    BY <2>1 DEF Step, Effect, FailoverInv, NodesInv
  <2>3. net' \subseteq net \cup {Plain("ack", m.h.src, Header(n, u))}
    BY <1>3 DEF ReceiveRequest
  <2>4. granted' = granted \cup {<<n, u.cur, m.h.src>>} /\ wins' = wins
    BY <1>3 DEF ReceiveRequest
  <2>5. s.vote # s.cur
    BY <1>3 DEF MayVote
  <2>6. EarlyWrite = {} /\ n \in Crashable => disk' = [disk EXCEPT ![n] = Image(u)]
    BY <2>1 DEF Step
  <2> HIDE DEF n, s
  <2>7. Good(u) /\ u.vote = s.cur /\ u.cur = s.cur
    BY <1>2, VoteGood DEF After
  <2> HIDE DEF u
  <2>8. NodesInv'
    BY <1>1, <2>2, <2>7, EffectKeepsNodes DEF FailoverInv
  <2>9. u \in NodeState /\ InOrder(u)
    BY <2>2, <2>7, BoundedIsTyped DEF Effect, Good
  <2>10. GoodPacket(Plain("ack", m.h.src, Header(n, u)))
    BY <1>1, <2>9, HeaderGood, PlainGood DEF PacketType
  <2>11. NetInv'
    BY <2>3, <2>10 DEF FailoverInv, NetInv
  <2>12. HistoryType'
    BY <1>1, <2>4, <2>9 DEF FailoverInv, HistoryType, NodeState
  <2>13. node'[n] = u /\ Moves(n)
    BY <1>1, <2>2, EffectMoves DEF FailoverInv
  <2>14. node[n].vote < u.vote
    BY <1>2, <2>5, <2>7 DEF After, Good, Fields, InOrder
  <2>15. Vote
    BY <1>1, <2>4, <2>6, <2>7, <2>13, <2>14 DEF Vote
  <2>16. QED
    BY <2>8, <2>11, <2>12, <2>15 DEF FailoverInv
<1>4. CASE ~vote
  <2>1. Effect(n, s)
    BY <1>4 DEF ReceiveRequest, Step, Effect, FailoverInv, NodesInv
  <2>2. net' \subseteq net \cup {Update(m.h.src, Header(n, s), s)}
    BY <1>4 DEF ReceiveRequest
  <2>3. granted' = granted /\ wins' = wins
    BY <1>4 DEF ReceiveRequest
  <2> HIDE DEF s
  <2>4. GoodPacket(Update(m.h.src, Header(n, s), s))
    BY <1>1, <1>2, <2>1, AfterTyped, UpdateGood DEF Effect
  <2>5. NetInv'
    BY <2>2, <2>4 DEF FailoverInv, NetInv
  <2> HIDE DEF n
  <2>6. QED
    BY <1>1, <1>2, <2>1, <2>3, <2>5, OrdinaryStep
<1>5. QED
  BY <1>3, <1>4

\* Steps that only change flags and send nothing.
LEMMA FlagStep ==
  ASSUME FailoverInv, NEW n \in Node, NEW x \in Shard,
         \/ MarkNodeAsFailing(n, x) \/ ClearNodeFailure(n, x)
         \/ AskFailover(n) \/ StartFailover(n) \/ ManualFailoverTimeout(n)
  PROVE  FailoverInv' /\ NoVote
<1>1. Good(node[n]) /\ node[n].fail \subseteq Shard
  BY NodeGood DEF FailoverInv, Good, Fields
<1>2. net' = net => NetInv'
  BY DEF FailoverInv, NetInv
<1>3. CASE MarkNodeAsFailing(n, x)
  <2> DEFINE t == [node[n] EXCEPT !.fail = node[n].fail \cup {x}]
  <2>1. Effect(n, t) /\ net' = net /\ granted' = granted /\ wins' = wins
    BY <1>3 DEF MarkNodeAsFailing, Step, Effect, FailoverInv, NodesInv
  <2>2. After(t, node[n])
    BY <1>1, FailGood
  <2> HIDE DEF t
  <2>3. QED
    BY <1>2, <2>1, <2>2, OrdinaryStep
<1>4. CASE ClearNodeFailure(n, x)
  <2> DEFINE t == [node[n] EXCEPT !.fail = node[n].fail \ {x}]
  <2>1. Effect(n, t) /\ net' = net /\ granted' = granted /\ wins' = wins
    BY <1>4 DEF ClearNodeFailure, Step, Effect, FailoverInv, NodesInv
  <2>2. After(t, node[n])
    BY <1>1, FailGood
  <2> HIDE DEF t
  <2>3. QED
    BY <1>2, <2>1, <2>2, OrdinaryStep
<1>5. CASE AskFailover(n)
  <2> DEFINE t == [node[n] EXCEPT !.mf = "asked"]
  <2>1. Effect(n, t) /\ net' = net /\ granted' = granted /\ wins' = wins
    BY <1>5 DEF AskFailover, Step, Effect, FailoverInv, NodesInv
  <2>2. After(t, node[n])
    BY <1>1, ManualGood
  <2> HIDE DEF t
  <2>3. QED
    BY <1>2, <2>1, <2>2, OrdinaryStep
<1>6. CASE StartFailover(n)
  <2> DEFINE t == [node[n] EXCEPT !.mf = "can", !.auth = "none"]
  <2>1. Effect(n, t) /\ net' = net /\ granted' = granted /\ wins' = wins
    BY <1>6 DEF StartFailover, Step, Effect, FailoverInv, NodesInv
  <2>2. After(t, node[n])
    BY <1>1, ManualGood
  <2> HIDE DEF t
  <2>3. QED
    BY <1>2, <2>1, <2>2, OrdinaryStep
<1>7. CASE ManualFailoverTimeout(n)
  <2> DEFINE t == [node[n] EXCEPT !.mf = "none"]
  <2>1. Effect(n, t) /\ net' = net /\ granted' = granted /\ wins' = wins
    BY <1>7 DEF ManualFailoverTimeout, Step, Effect, FailoverInv, NodesInv
  <2>2. After(t, node[n])
    BY <1>1, ManualGood
  <2> HIDE DEF t
  <2>3. QED
    BY <1>2, <2>1, <2>2, OrdinaryStep
<1>8. QED
  BY <1>3, <1>4, <1>5, <1>6, <1>7

\* clusterRequestFailoverAuth.
LEMMA RequestsGood ==
  ASSUME NEW n \in Node, NEW s \in NodeState, InOrder(s)
  PROVE  \A m \in Requests(n, s) : GoodPacket(m)
<1> SUFFICES ASSUME NEW x \in Up \ {n}
             PROVE  GoodPacket(Plain(IF s.mf # "none" THEN "force_request" ELSE "request",
                                     x, Header(n, s)))
  BY DEF Requests
<1>1. QED
  BY HeaderGood, PlainGood DEF PacketType, Up

\* An election is scheduled.
LEMMA ScheduleElectionStep ==
  ASSUME FailoverInv, NEW n \in Node, ScheduleElection(n)
  PROVE  FailoverInv' /\ NoVote
<1> DEFINE t == Setup(node[n])
<1>1. Effect(n, t) /\ granted' = granted /\ wins' = wins
  BY DEF ScheduleElection, Step, Effect, FailoverInv, NodesInv
<1>2. NetInv'
  BY DEF ScheduleElection, FailoverInv, NetInv
<1>3. After(t, node[n])
  BY NodeGood, SetupGood DEF FailoverInv
<1> HIDE DEF t
<1>4. QED
  BY <1>1, <1>2, <1>3, OrdinaryStep

\* An election starts.
LEMMA StartElectionStep ==
  ASSUME FailoverInv, NEW n \in Node, StartElection(n) \/ StartManualElection(n)
  PROVE  FailoverInv' /\ NoVote
<1>1. PICK s \in {node[n], Setup(node[n])} :
        /\ Effect(n, Begin(s)) /\ granted' = granted /\ wins' = wins
        /\ net' = net \cup Requests(n, Begin(s))
  BY DEF StartElection, StartManualElection, Step, Effect, FailoverInv, NodesInv
<1>2. Good(node[n])
  BY NodeGood DEF FailoverInv
<1>3. After(s, node[n])
  BY <1>1, <1>2, SetupGood DEF After, Good, Fields
<1>4. After(Begin(s), node[n])
  BY <1>2, <1>3, BeginGood, AfterTransitive DEF After
<1>5. NetInv'
  BY <1>1, <1>4, AfterTyped, RequestsGood DEF Effect, FailoverInv, NetInv
<1>6. QED
  BY <1>1, <1>4, <1>5, OrdinaryStep

\* The size of the cluster.
LEMMA SizeType ==
  ASSUME NEW s
  PROVE  Size(s) \in Nat
  BY NodeAssumption, FS_CardinalityType DEF Size

\* An election is won.
LEMMA WinElectionStep ==
  ASSUME FailoverInv, NEW n \in Shard, WinElection(n)
  PROVE  FailoverInv' /\ NoVote
<1> DEFINE s == node[n]
           w == [s EXCEPT !.conf = [@ EXCEPT ![n] = Later(s.conf[n], s.aepoch)]]
           t == ReplaceYourPrimary(w, n)
<1>1. n \in Node
  BY DEF Node
<1>2. Effect(n, t) /\ granted' = granted /\ net' = net
  BY DEF WinElection, Step, Effect, FailoverInv, NodesInv
<1>3. wins' = wins \cup {[epoch |-> s.aepoch, cand |-> n, size |-> Size(s), late |-> s.late]}
  BY DEF WinElection
<1>4. Good(s) /\ s \in NodeState
  BY <1>1, NodeGood DEF FailoverInv
<1>5. After(t, s)
  <2>1. After(w, s)
    BY <1>4, WonGood
  <2> HIDE DEF w, s
  <2>2. QED
    BY <1>4, <2>1, ReplaceYourPrimaryGood, AfterTransitive DEF After
<1> HIDE DEF t
<1>6. NodesInv'
  BY <1>1, <1>2, <1>5, EffectKeepsNodes DEF FailoverInv, After
<1>7. HistoryType'
  BY <1>2, <1>3, <1>4, SizeType DEF FailoverInv, HistoryType, NodeState
<1>8. NetInv'
  BY <1>2 DEF FailoverInv, NetInv
<1>9. node'[n] = t /\ Moves(n)
  BY <1>1, <1>2, EffectMoves DEF FailoverInv
<1>10. NoVote
  BY <1>1, <1>2, <1>5, <1>9 DEF NoVote, After
<1>11. QED
  BY <1>6, <1>7, <1>8, <1>10 DEF FailoverInv

\* CLUSTER FAILOVER TAKEOVER.
LEMMA TakeoverStep ==
  ASSUME FailoverInv, NEW n \in Shard, Takeover(n)
  PROVE  FailoverInv' /\ NoVote
<1> DEFINE s == node[n]
           t == ReplaceYourPrimary(BumpConfigEpoch(s, n), n)
<1>1. n \in Node
  BY DEF Node
<1>2. Effect(n, t) /\ granted' = granted /\ wins' = wins /\ net' = net
  BY DEF Takeover, Step, Effect, FailoverInv, NodesInv
<1>3. Good(s)
  BY <1>1, NodeGood DEF FailoverInv
<1>4. After(t, s)
  BY SMTT(30), <1>3, BumpConfigEpochGood, ReplaceYourPrimaryGood, AfterTransitive DEF After
<1>5. NetInv'
  BY <1>2 DEF FailoverInv, NetInv
<1> HIDE DEF t
<1>6. QED
  BY <1>1, <1>2, <1>4, <1>5, OrdinaryStep

\* A save.
LEMMA BeforeSleepStep ==
  ASSUME FailoverInv, NEW n \in Crashable, BeforeSleep(n)
  PROVE  FailoverInv' /\ NoVote
<1>1. n \in Node
  BY BoundAssumption
<1>2. Image(node[n]) \in DiskState /\ DiskInOrder(Image(node[n]))
  BY <1>1, NodeGood, ImageGood DEF FailoverInv
<1>3. NodesInv'
  BY <1>2 DEF BeforeSleep, FailoverInv, NodesInv
<1>4. NetInv' /\ HistoryType'
  BY DEF BeforeSleep, FailoverInv, NetInv, HistoryType
<1>5. Moves(n) /\ node'[n].vote = node[n].vote /\ granted' = granted
  BY <1>1 DEF BeforeSleep, Moves, FailoverInv, NodesInv
<1>6. QED
  BY <1>1, <1>3, <1>4, <1>5 DEF FailoverInv, NoVote

\* A restart brings back what was saved.
LEMMA CrashStep ==
  ASSUME FailoverInv, NEW n \in Crashable, Crash(n)
  PROVE  /\ FailoverInv'
         /\ node' = [node EXCEPT ![n] = Load(disk[n])] /\ Load(disk[n]).vote = disk[n].vote
<1>1. n \in Node
  BY BoundAssumption
<1>2. Load(disk[n]) \in NodeState /\ InOrder(Load(disk[n])) /\ Load(disk[n]).vote = disk[n].vote
  BY LoadGood DEF FailoverInv, NodesInv
<1>3. NodesInv'
  <2>1. mode \in Modes /\ mode.crashes \in Nat
    BY BoundAssumption DEF FailoverInv, NodesInv, ModeType
  <2>2. crashes' \in 0..mode.crashes /\ mode' = mode
    BY <2>1 DEF Crash, FailoverInv, NodesInv
  <2>3. QED
    BY <1>1, <1>2, <2>1, <2>2 DEF Crash, FailoverInv, NodesInv
<1>4. NetInv' /\ HistoryType'
  BY DEF Crash, FailoverInv, NetInv, HistoryType
<1>5. QED
  BY <1>2, <1>3, <1>4 DEF FailoverInv, Crash

-----------------------------------------------------------------------------
(* The theorems.                                                           *)

\* The initial states satisfy the invariant.
LEMMA InitInv ==
  Init => FailoverInv
<1> SUFFICES ASSUME Init PROVE FailoverInv
  OBVIOUS
<1>0. mode \in Modes /\ mode.failed \subseteq Shard /\ mode.crashes \in Nat
  BY BoundAssumption DEF Init, ModeType
<1>1. \A n \in Node : InitialNode(n) \in NodeState /\ InOrder(InitialNode(n))
  BY <1>0, NodeAssumption, BoundAssumption DEF InitialNode, NodeState, InOrder, Epoch
<1>2. NodesInv
  <2>1. node \in [Node -> NodeState] /\ \A n \in Node : InOrder(node[n])
    BY <1>1 DEF Init
  <2>2. \A n \in Crashable : Image(InitialNode(n)) \in DiskState
                            /\ DiskInOrder(Image(InitialNode(n)))
    BY <1>1, ImageGood, BoundAssumption
  <2>3. disk \in [Crashable -> DiskState] /\ \A n \in Crashable : DiskInOrder(disk[n])
    BY <2>2 DEF Init
  <2>4. QED
    BY <1>0, <2>1, <2>3, BoundAssumption DEF Init, NodesInv
<1>3. QED
  BY <1>2 DEF Init, FailoverInv, NetInv, HistoryType

\* Every step keeps the invariant and is of one of three kinds.
LEMMA NextInv ==
  ASSUME FailoverInv, Next
  PROVE  FailoverInv' /\ (NoVote \/ Vote \/ \E n \in Crashable : Crash(n))
<1>0. Up \subseteq Node /\ Shard \subseteq Node /\ mode.canfail \subseteq Shard /\ First \in Shard
  BY NodeAssumption, BoundAssumption DEF Up, Node, FailoverInv, NodesInv, ModeType
<1>1. CASE \E n, x \in Node : SendPing(n, x)
  BY <1>0, <1>1, SendPingStep
<1>2. CASE \E m \in net : Receive(m)
  BY <1>2, ReceivePingStep, ReceiveUpdateStep, ReceiveRequestStep, ReceiveAckStep DEF Receive
<1>3. CASE \E n \in Up, x \in mode.canfail : MarkNodeAsFailing(n, x) \/ ClearNodeFailure(n, x)
  BY <1>0, <1>3, FlagStep
<1>4. CASE \E n \in Shard \cap Up :
             AskFailover(n) \/ StartFailover(n) \/ ManualFailoverTimeout(n)
  BY <1>0, <1>4, FlagStep
<1>5. CASE \E n \in Shard \cap Up :
             \/ ScheduleElection(n) \/ StartElection(n) \/ StartManualElection(n)
             \/ WinElection(n) \/ Takeover(n)
  BY <1>0, <1>5, ScheduleElectionStep, StartElectionStep, WinElectionStep, TakeoverStep
<1>6. CASE \E n \in Crashable \cap Up : BeforeSleep(n) \/ Crash(n)
  BY <1>6, BeforeSleepStep, CrashStep
<1>7. QED
  BY <1>1, <1>2, <1>3, <1>4, <1>5, <1>6 DEF Next

\* So does a step that changes nothing.
LEMMA StutterInv ==
  ASSUME FailoverInv, UNCHANGED vars
  PROVE  FailoverInv'
  BY DEF FailoverInv, NodesInv, NetInv, HistoryType, vars

\* The invariant implies the two properties.
LEMMA InvImplies ==
  FailoverInv => TypeOK /\ CurrentEpochIsMax
<1> SUFFICES ASSUME FailoverInv PROVE TypeOK /\ CurrentEpochIsMax
  OBVIOUS
<1>1. net \subseteq Packet
  BY DEF FailoverInv, NetInv, GoodPacket
<1>2. TypeOK
  BY <1>1 DEF FailoverInv, NodesInv, HistoryType, TypeOK, DiskState
<1>3. CurrentEpochIsMax
  BY DEF FailoverInv, NodesInv, InOrder, DiskInOrder, CurrentEpochIsMax
<1>4. QED
  BY <1>2, <1>3

\* The state of every node, the packets and nodes.conf stay well typed, and no
\* handler lets an epoch outrun currentEpoch.
THEOREM TypeCorrect == Spec => []TypeOK
<1>1. FailoverInv /\ [Next]_vars => FailoverInv'
  BY NextInv, StutterInv
<1>2. QED
  BY InitInv, <1>1, InvImplies, PTL DEF Spec

\* "currentEpoch smaller than the max epoch found in the nodes configuration"
\* (clusterLoadConfig) never happens, in memory or in nodes.conf, whatever is
\* lost, reordered or cut short by a crash.
THEOREM EpochsInOrder == Spec => []CurrentEpochIsMax
<1>1. FailoverInv /\ [Next]_vars => FailoverInv'
  BY NextInv, StutterInv
<1>2. QED
  BY InitInv, <1>1, InvImplies, PTL DEF Spec

-----------------------------------------------------------------------------
(* Votes.  lastVoteEpoch is at least the epoch of every vote the node      *)
(* granted, in memory and, when votes are saved before they leave, on disk; *)
(* a vote needs lastVoteEpoch # currentEpoch, hence lastVoteEpoch <        *)
(* currentEpoch, which becomes the new lastVoteEpoch.                      *)

Remembered ==
  \A v \in granted :
    /\ v[2] <= node[v[1]].vote
    /\ v[1] \in Crashable => v[2] <= disk[v[1]].vote

VotesInv == FailoverInv /\ Remembered /\ OneVotePerEpoch

\* The three kinds of steps keep every vote remembered and unique.
LEMMA VotesKept ==
  ASSUME EarlyWrite = {}, VotesInv, FailoverInv', NoVote \/ Vote \/ \E n \in Crashable : Crash(n)
  PROVE  VotesInv'
<1>1. \A v \in granted : v[1] \in Node /\ v[2] \in Nat
  BY DEF VotesInv, FailoverInv, HistoryType, Epoch
<1>2. \A n \in Node : node[n].vote \in Nat /\ Image(node'[n]).vote = node'[n].vote
                    /\ node'[n].vote \in Nat
  BY DEF VotesInv, FailoverInv, NodesInv, NodeState, Epoch, Image
<1>3. node \in [Node -> NodeState] /\ disk \in [Crashable -> DiskState] /\ Crashable \subseteq Node
  BY BoundAssumption DEF VotesInv, FailoverInv, NodesInv
<1>4. CASE NoVote
  <2>1. PICK n \in Node : Moves(n) /\ node'[n].vote = node[n].vote
    BY <1>4 DEF NoVote
  <2>2. \A v \in granted : v[2] <= node'[v[1]].vote
    BY <1>1, <1>3, <2>1 DEF Moves, VotesInv, Remembered
  <2>3. \A v \in granted : v[1] \in Crashable => v[2] <= disk'[v[1]].vote
    BY <1>1, <1>2, <1>3, <2>1 DEF Moves, VotesInv, Remembered
  <2>4. QED
    BY <1>4, <2>2, <2>3 DEF NoVote, VotesInv, Remembered, OneVotePerEpoch
<1>5. CASE Vote
  <2>1. PICK n \in Node, c \in Node :
          /\ granted' = granted \cup {<<n, node'[n].vote, c>>}
          /\ Moves(n) /\ node[n].vote < node'[n].vote
          /\ n \in Crashable => disk' = [disk EXCEPT ![n] = Image(node'[n])]
    BY <1>5 DEF Vote
  <2> DEFINE k == node'[n].vote
             w == <<n, k, c>>
  <2>2. \A v \in granted : v[2] <= node'[v[1]].vote
    BY <1>1, <1>2, <1>3, <2>1 DEF Moves, VotesInv, Remembered
  <2>3. \A v \in granted : v[1] \in Crashable => v[2] <= disk'[v[1]].vote
    BY <1>1, <1>2, <1>3, <2>1, <2>2 DEF Moves, VotesInv, Remembered
  <2>4. n \in Crashable => disk'[n].vote = k
    BY <1>2, <1>3, <2>1
  <2>5. k \in Nat /\ k <= k
    BY <1>2
  <2>6. Remembered'
    BY <2>1, <2>2, <2>3, <2>4, <2>5 DEF Remembered
  <2>7. \A v \in granted : v[1] = n => v[2] # k
    BY <1>1, <1>2, <2>1 DEF VotesInv, Remembered
  <2>8. OneVotePerEpoch'
    BY <2>1, <2>7 DEF VotesInv, OneVotePerEpoch
  <2>9. QED
    BY <2>6, <2>8 DEF VotesInv
<1>6. CASE \E n \in Crashable : Crash(n)
  <2>1. PICK n \in Crashable : Crash(n)
    BY <1>6
  <2>2. node' = [node EXCEPT ![n] = Load(disk[n])] /\ Load(disk[n]).vote = disk[n].vote
    BY <2>1, CrashStep DEF VotesInv
  <2>3. disk' = disk /\ granted' = granted
    BY <2>1 DEF Crash
  <2>4. Remembered'
    BY <1>1, <1>3, <2>2, <2>3 DEF VotesInv, Remembered
  <2>5. QED
    BY <2>3, <2>4 DEF VotesInv, OneVotePerEpoch
<1>7. QED
  BY <1>4, <1>5, <1>6

\* No primary votes for two candidates in one epoch (clusterSendFailoverAuthIfNeeded),
\* restarts included, provided a vote is saved before it leaves.
THEOREM VotesAreUnique ==
  ASSUME EarlyWrite = {}
  PROVE  Spec => []OneVotePerEpoch
<1>1. Init => VotesInv
  BY InitInv DEF Init, VotesInv, Remembered, OneVotePerEpoch
<1>2. VotesInv /\ [Next]_vars => VotesInv'
  <2> SUFFICES ASSUME VotesInv, [Next]_vars PROVE VotesInv'
    OBVIOUS
  <2>1. CASE Next
    BY <2>1, NextInv, VotesKept DEF VotesInv
  <2>2. CASE UNCHANGED vars
    BY <2>2, StutterInv DEF VotesInv, Remembered, OneVotePerEpoch, vars
  <2>3. QED
    BY <2>1, <2>2
<1>3. VotesInv => OneVotePerEpoch
  BY DEF VotesInv
<1>4. QED
  BY <1>1, <1>2, <1>3, PTL DEF Spec
=============================================================================
