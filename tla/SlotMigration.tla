---------------------------- MODULE SlotMigration -----------------------------
(***************************************************************************)
(* The atomic slot migration of cluster_migrateslots.c between primaries   *)
(* of a cluster: the export job of the source and the import job of the    *)
(* target, the connection and the child process that carry the snapshot    *)
(* and the stream of writes, the pause of the writes, the takeover of the  *)
(* slots by the target, and the gossip that tells the source about it.     *)
(*                                                                         *)
(* The data of a slot is the sequence of the writes it results from.  A    *)
(* migration job exp[j], imp[j], link[j] is the export job on the source,  *)
(* the import job on the target, and the connection between them.  A node  *)
(* is a number: the order of the numbers is the order of the node names.   *)
(* Every node has other slots too, appendfsync is always, the cluster      *)
(* configuration is saved with the step that changes it.                   *)
(***************************************************************************)
EXTENDS Integers, Sequences, FiniteSets, FiniteSetsExt

CONSTANTS
    Node,
    Slot,
    Job,       \* the migrations that may be asked for
    Modes,     \* scenarios: see ModeType
    None

VARIABLES
    mode,      \* the scenario of this behaviour
    node,      \* the memory and the configuration file of every node
    exp, imp,  \* the export and the import side of every job
    link,      \* the connection of every job
    bus,       \* the PONG in flight between two nodes, or None
    acked,     \* the writes to each slot that were acknowledged
    risk,      \* slots given up by a source that had granted the failover
    asserts,   \* assertions that failed
    writes, ops  \* how much of each bound is used

vars == <<mode, node, exp, imp, link, bus, acked, risk, asserts, writes, ops>>

OpName == {"cancel", "flushall", "bump", "restart", "fork", "child", "cut",
           "timeout", "oom", "connect"}

(* A migration names at least one slot (parseSlotRangesOrReply).           *)
ModeType == [jobs   : [Job -> [src : Node, dst : Node,
                               slots : (SUBSET Slot) \ {{}}]],
             owner  : [Slot -> Node],
             epoch  : [Node -> Nat],
             ops    : SUBSET (OpName \X Node),
             nops   : Nat,
             writes : Nat]

(* CLUSTER MIGRATESLOTS refuses a migration to the node itself.  None is   *)
(* no job, no node and no child with the keys of its slots.                *)
ASSUME NodeAssumption   == Node \subseteq Nat /\ IsFiniteSet(Node)
ASSUME ModesAssumption  == Modes \subseteq ModeType
ASSUME TargetAssumption == \A m \in Modes, j \in Job : m.jobs[j].src # m.jobs[j].dst
ASSUME NoneAssumption   ==
    /\ None \notin Job /\ None \notin Node
    /\ \A S \in SUBSET Slot :
          None \notin [job : Job, st : {"writing"}, v : [S -> Seq(Nat)]]

Src(j)   == mode.jobs[j].src
Dst(j)   == mode.jobs[j].dst
Slots(j) == mode.jobs[j].slots

Exports(n) == {j \in Job : Src(j) = n}
Imports(n) == {j \in Job : Dst(j) = n}

(* What the operator asks for and what fails is bounded by mode.nops.      *)
Op(o, n) == <<o, n>> \in mode.ops /\ ops < mode.nops /\ ops' = ops + 1

-------------------------------------------------------------------------------
(* The states of a job.  "gone": the process that had the job has died.    *)

Finished        == {"success", "failed", "cancelled", "gone"}
ExportInProgress == {"connecting", "establish", "wait_snapshot",
                     "snapshotting", "streaming", "wait_pause", "paused",
                     "granted"}
ImportInProgress == {"wait_ack", "snapshot", "wait_paused", "requested",
                     "granted"}

NoExport == [st |-> "none", mf |-> "none", out |-> <<>>, pend |-> FALSE]
NoLink   == [src |-> FALSE, dst |-> FALSE, cut |-> FALSE, tot |-> <<>>,
             tos |-> <<>>]

(* A step carries the state it changes along.                              *)
State == [node |-> node, exp |-> exp, imp |-> imp, link |-> link,
          risk |-> risk, asserts |-> asserts]

Apply(T) ==
    /\ node' = T.node /\ exp' = T.exp /\ imp' = T.imp /\ link' = T.link
    /\ risk' = T.risk /\ asserts' = T.asserts

IsSlotExporting(T, n, s) ==
    \E j \in Exports(n) : s \in Slots(j) /\ T.exp[j].st \in ExportInProgress

IsSlotImporting(T, n, s) ==
    \E j \in Imports(n) : /\ s \in Slots(j)
                          /\ T.imp[j] \in ImportInProgress \cup {"cleaning"}

SlotFailoverGranted(T, n, s) ==
    \E j \in Exports(n) : s \in Slots(j) /\ T.exp[j].st = "granted"

-------------------------------------------------------------------------------
(* The connection of a job.  `src` and `dst` tell which ends are open;     *)
(* `tot` and `tos` are the bytes on their way to the target and to the     *)
(* source.  What was sent before an end was closed may still be read.      *)

ToTarget(l, ms) == IF l.cut \/ ~l.dst THEN l ELSE [l EXCEPT !.tot = @ \o ms]
ToSource(l, m)  == IF l.cut \/ ~l.src THEN l
                   ELSE [l EXCEPT !.tos = Append(@, m)]

CloseSource(l) == [l EXCEPT !.src = FALSE, !.tos = <<>>]
CloseTarget(l) == [l EXCEPT !.dst = FALSE, !.tot = <<>>]

Msg(k)       == [k |-> k]
DataMsg(s, w) == [k |-> "data", s |-> s, w |-> w]
SnapMsg(v)   == [k |-> "snap", v |-> v]

(* addReply to the client of an export: it is queued for writing unless it *)
(* has output already or the child is writing to its socket.               *)
Say(e, m) == [e EXCEPT !.out  = Append(@, m),
                       !.pend = @ \/ (e.out = <<>> /\ e.st # "snapshotting")]

-------------------------------------------------------------------------------
(* The pause of the writes, and the end of a job.                          *)

(* Mutant: the first job to finish ends the pause of all.                  *)
UnpauseAlways(T, n) == [T EXCEPT !.node[n].paused = FALSE]

SlotExportTryUnpause(T, n) ==
    IF \E j \in Exports(n) : T.exp[j].mf # "none" THEN T
    ELSE [T EXCEPT !.node[n].paused = FALSE]

(* The job's deadline has passed or the node is not paused any more.       *)
PauseTimedOut(T, j) ==
    T.exp[j].mf # "armed" \/ ~T.node[Src(j)].paused

KillChild(c, J) == IF c # None /\ c.job \in J THEN [c EXCEPT !.st = "killed"]
                   ELSE c

(* finishSlotMigrationJob for exports of n.                                *)
FinishExports(T, n, J, st) ==
    LET A == [T EXCEPT
                !.exp  = [j \in Job |-> IF j \in J
                            THEN [NoExport EXCEPT !.st = st] ELSE @[j]],
                !.link = [j \in Job |-> IF j \in J THEN CloseSource(@[j])
                                                  ELSE @[j]],
                !.risk = @ \cup UNION {Slots(j) : j \in
                            {i \in J : T.exp[i].st = "granted"
                                       /\ st # "success"}},
                !.node[n].child = KillChild(@, J)]
    IN SlotExportTryUnpause(A, n)

FinishExport(T, j, st) == FinishExports(T, Src(j), {j}, st)

(* Mutant: a failed import leaves its keys behind.                         *)
ForgetImports(T, J) ==
    [T EXCEPT !.imp  = [j \in Job |-> IF j \in J THEN "failed"
                                      ELSE @[j]],
              !.link = [j \in Job |-> IF j \in J THEN CloseTarget(@[j])
                                      ELSE @[j]]]

(* finishSlotMigrationJob for imports that have not succeeded: their keys  *)
(* are deleted later.                                                      *)
FailImports(T, J) ==
    [T EXCEPT !.imp  = [j \in Job |-> IF j \in J THEN "cleaning"
                                      ELSE @[j]],
              !.link = [j \in Job |-> IF j \in J THEN CloseTarget(@[j])
                                      ELSE @[j]]]

DelKeysNotOwned(nd, n, S) ==
    [nd EXCEPT !.val = [s \in Slot |-> IF s \in S /\ nd.owner[s] # n
                                       THEN <<>> ELSE @[s]]]

(* The process dies and starts again: exports and the pause are forgotten, *)
(* an import found in the AOF is failed, keys of other nodes' slots are    *)
(* deleted.                                                                *)
Died(T, n) ==
    LET lost == {j \in Exports(n) : T.exp[j].st \in ExportInProgress}
        left == {j \in Imports(n) : T.imp[j] \in ImportInProgress}
        A    == FailImports(FinishExports(T, n, lost, "gone"), left)
    IN [A EXCEPT
          !.node[n] = [DelKeysNotOwned(@, n, Slot) EXCEPT
                         !.paused = FALSE, !.child = None, !.pipe = FALSE],
          !.link = [j \in Job |-> IF j \in Imports(n) THEN CloseTarget(@[j])
                                  ELSE @[j]]]

(* The end of finishSlotMigrationJob for an import, T, in a step from B:   *)
(* SYNCSLOTS FINISH is propagated, which must not happen in a pause.       *)
PropagateSyncSlotsFinish(B, T, n) ==
    IF T.node[n].paused
    THEN Died([B EXCEPT !.asserts = @ \cup {"propagate"}], n)
    ELSE T

FinishImport(B, T, j, st) ==
    PropagateSyncSlotsFinish(B,
        [T EXCEPT !.imp[j] = st, !.link[j] = CloseTarget(@)], Dst(j))

-------------------------------------------------------------------------------
(* The source: from CLUSTER MIGRATESLOTS to the snapshot.                  *)

MigrateSlots(j) ==
    /\ exp[j].st = "none"
    /\ \A s \in Slots(j) : /\ node[Src(j)].owner[s] = Src(j)
                           /\ ~IsSlotExporting(State, Src(j), s)
    /\ exp' = [exp EXCEPT ![j].st = "connecting"]
    /\ UNCHANGED <<mode, node, imp, link, bus, acked, risk, asserts, writes,
                   ops>>

(* The connection is made and ESTABLISH is queued; AUTH is left out.       *)
Connect(j) ==
    /\ exp[j].st = "connecting"
    /\ link' = [link EXCEPT ![j] = [NoLink EXCEPT !.src = TRUE, !.dst = TRUE]]
    /\ exp' = [exp EXCEPT ![j] = Say([@ EXCEPT !.st = "establish"],
                                     Msg("establish"))]
    /\ UNCHANGED <<mode, node, imp, bus, acked, risk, asserts, writes, ops>>

ConnectFails(j) ==
    /\ exp[j].st = "connecting"
    /\ Op("connect", Src(j))
    /\ Apply(FinishExport(State, j, "failed"))
    /\ UNCHANGED <<mode, bus, acked, writes>>

(* handleClientsWithPendingWrites: all the output of the client.           *)
WriteToClient(j) ==
    /\ exp[j].pend
    /\ link' = [link EXCEPT ![j] = ToTarget(@, exp[j].out)]
    /\ exp' = [exp EXCEPT ![j].out = <<>>, ![j].pend = FALSE]
    /\ UNCHANGED <<mode, node, imp, bus, acked, risk, asserts, writes, ops>>

Received(j, k) == link[j].src /\ link[j].tos # <<>> /\ Head(link[j].tos) = k

(* The state after the source has read one message.                        *)
Read(j) == [State EXCEPT !.link[j].tos = Tail(@)]

ReadEstablishResponse(j) ==
    /\ exp[j].st = "establish"
    /\ \/ /\ Received(j, "error")
          /\ Apply(FinishExport(Read(j), j, "failed"))
       \/ /\ Received(j, "ok")
          /\ Apply([Read(j) EXCEPT
                !.exp[j] = Say([@ EXCEPT !.st = "wait_snapshot"],
                               Msg("ack"))])
    /\ UNCHANGED <<mode, bus, acked, writes, ops>>

(* Mutant: a queued ACK does not delay the snapshot.                       *)
NoChildOnly(j) == exp[j].st = "wait_snapshot" /\ node[Src(j)].child = None

MaySnapshot(j) ==
    exp[j].st = "wait_snapshot" /\ node[Src(j)].child = None /\ ~exp[j].pend

(* slotExportJobBeginSnapshotToTargetSocket.  The pipe of a fork that      *)
(* failed is still there: then the assertion on it fails.                  *)
BeginSnapshot(j) ==
    LET n == Src(j)
        child == [job |-> j, st |-> "writing",
                  v |-> [s \in Slots(j) |-> node[n].val[s]]]
    IN /\ MaySnapshot(j)
       /\ Apply(IF node[n].pipe
                THEN Died([State EXCEPT !.asserts = @ \cup {"pipe"}], n)
                ELSE [State EXCEPT !.node[n].child = child,
                                   !.exp[j].st = "snapshotting"])
       /\ UNCHANGED <<mode, bus, acked, writes, ops>>

ForkFails(j) ==
    /\ MaySnapshot(j) /\ ~node[Src(j)].pipe
    /\ Op("fork", Src(j))
    /\ Apply(FinishExport([State EXCEPT !.node[Src(j)].pipe = TRUE], j,
                          "failed"))
    /\ UNCHANGED <<mode, bus, acked, writes>>

(* What the child writes goes to the socket: the data and SNAPSHOT-EOF.    *)
ChildWrites(n) ==
    LET c == node[n].child IN
    /\ c # None /\ c.st = "writing"
    /\ node' = [node EXCEPT ![n].child = [@ EXCEPT !.st = "done"]]
    /\ link' = [link EXCEPT ![c.job] =
                    ToTarget(@, <<SnapMsg(c.v), Msg("eof")>>)]
    /\ UNCHANGED <<mode, exp, imp, bus, acked, risk, asserts, writes, ops>>

(* The child ends early; some of the data may have been sent.              *)
ChildFails(n) ==
    LET c == node[n].child IN
    /\ c # None /\ c.st = "writing"
    /\ Op("child", n)
    /\ node' = [node EXCEPT ![n].child = [@ EXCEPT !.st = "failed"]]
    /\ link' = [link EXCEPT ![c.job] = ToTarget(@, <<SnapMsg(c.v)>>)]
    /\ UNCHANGED <<mode, exp, imp, bus, acked, risk, asserts, writes>>

BeginStreaming(T, J) ==
    [T EXCEPT !.exp = [j \in Job |-> IF j \in J
                THEN [@[j] EXCEPT !.st = "streaming", !.pend = TRUE]
                ELSE @[j]]]

BackgroundSlotMigrationDone(n) ==
    LET c == node[n].child
        J == {j \in Exports(n) : exp[j].st = "snapshotting"}
        A == [State EXCEPT !.node[n].child = None, !.node[n].pipe = FALSE]
    IN /\ c # None /\ c.st # "writing"
       /\ Apply(IF c.st = "done" THEN BeginStreaming(A, J)
                ELSE FinishExports(A, n, J, "failed"))
       /\ UNCHANGED <<mode, bus, acked, writes, ops>>

-------------------------------------------------------------------------------
(* The source: the stream, the pause and the failover.                     *)

(* The exports that are fed with a write.                                  *)
Fed(e) == e.st \in {"snapshotting", "streaming", "wait_pause", "paused",
                    "granted"}

(* A write of a client, acknowledged, propagated and fed to the exports.   *)
Write(n, s) ==
    LET w == writes + 1
        J == {j \in Exports(n) : s \in Slots(j) /\ link[j].src /\ Fed(exp[j])}
    IN /\ node[n].owner[s] = n /\ ~node[n].paused
       /\ writes < mode.writes
       /\ writes' = w
       /\ node' = [node EXCEPT ![n].val[s] = Append(@, w)]
       /\ acked' = [acked EXCEPT ![s] = Append(@, w)]
       /\ exp' = [j \in Job |-> IF j \in J THEN Say(exp[j], DataMsg(s, w))
                                ELSE exp[j]]
       /\ UNCHANGED <<mode, imp, link, bus, risk, asserts, ops>>

Paused(T, j) ==
    [T EXCEPT !.node[Src(j)].paused = TRUE,
              !.exp[j] = Say([@ EXCEPT !.st = "paused", !.mf = "armed"],
                             Msg("paused"))]

(* slotExportTryDoPause.  Output in the static buffer does not count, and  *)
(* the limit may be lifted: with output queued both results are possible.  *)
TryDoPause(T, j) ==
    \/ Apply(Paused(T, j))
    \/ /\ T.exp[j].out # <<>>
       /\ Apply([T EXCEPT !.exp[j].st = "wait_pause"])

RequestPause(j) ==
    /\ Received(j, "request_pause")
    /\ CASE exp[j].st = "streaming"    -> TryDoPause(Read(j), j)
         [] exp[j].st = "snapshotting" ->
                TryDoPause(BeginStreaming(Read(j), {j}), j)
         [] OTHER -> Apply(FinishExport(Read(j), j, "failed"))
    /\ UNCHANGED <<mode, bus, acked, writes, ops>>

WaitingToPause(j) ==
    /\ exp[j].st = "wait_pause"
    /\ TryDoPause(State, j)
    /\ UNCHANGED <<mode, bus, acked, writes, ops>>

(* Mutant: a pause that has timed out is not noticed.                      *)
MayAlwaysGrant(j) == exp[j].st = "paused"

MayGrant(j) == exp[j].st = "paused" /\ ~PauseTimedOut(State, j)

RequestFailover(j) ==
    /\ Received(j, "request_failover")
    /\ Apply(IF MayGrant(j)
             THEN [Read(j) EXCEPT
                    !.exp[j] = Say([@ EXCEPT !.st = "granted"],
                                   Msg("granted"))]
             ELSE FinishExport(Read(j), j, "failed"))
    /\ UNCHANGED <<mode, bus, acked, writes, ops>>

(* Time passes: mf_end of a job is over, then the pause that was to last   *)
(* until the end of every job.                                             *)
DeadlinePasses(j) ==
    /\ exp[j].mf = "armed"
    /\ exp' = [exp EXCEPT ![j].mf = "late"]
    /\ UNCHANGED <<mode, node, imp, link, bus, acked, risk, asserts, writes,
                   ops>>

PauseExpires(n) ==
    /\ node[n].paused
    /\ \A j \in Exports(n) : exp[j].mf # "armed"
    /\ node' = [node EXCEPT ![n].paused = FALSE]
    /\ risk' = risk \cup {s \in Slot : SlotFailoverGranted(State, n, s)}
    /\ UNCHANGED <<mode, exp, imp, link, bus, acked, asserts, writes, ops>>

(* Mutant: a job waits for the takeover without a limit.                   *)
TimeoutBeforeGrant(j) ==
    /\ exp[j].st = "paused"
    /\ PauseTimedOut(State, j)
    /\ Apply(FinishExport(State, j, "failed"))
    /\ UNCHANGED <<mode, bus, acked, writes, ops>>

(* proceedWithSlotMigration for a job whose pause is over.                 *)
PauseTimeout(j) ==
    /\ exp[j].st \in {"paused", "granted"}
    /\ PauseTimedOut(State, j)
    /\ Apply(FinishExport(State, j, "failed"))
    /\ UNCHANGED <<mode, bus, acked, writes, ops>>

-------------------------------------------------------------------------------
(* The target.  While it is paused for an export of its own, the commands  *)
(* of every import are postponed.                                          *)

(* The next command of the import of j is a k.                             *)
Arrives(j, k) ==
    /\ link[j].dst /\ link[j].tot # <<>> /\ Head(link[j].tot).k = k
    /\ ~node[Dst(j)].paused

Executed(j) == [State EXCEPT !.link[j].tot = Tail(@)]

SyncSlotsEstablish(j) ==
    LET n == Dst(j)
        valid == \A s \in Slots(j) : /\ node[n].owner[s] = Src(j)
                                     /\ ~IsSlotImporting(State, n, s)
        T == Executed(j)
    IN /\ Arrives(j, "establish")
       /\ Apply(IF valid
                THEN [T EXCEPT !.imp[j] = "wait_ack",
                               !.link[j] = ToSource(@, "ok")]
                ELSE [T EXCEPT !.link[j] = ToSource(@, "error")])
       /\ UNCHANGED <<mode, bus, acked, writes, ops>>

SyncSlotsAck(j) ==
    /\ Arrives(j, "ack")
    /\ Apply([Executed(j) EXCEPT
                !.imp[j] = IF @ = "wait_ack" THEN "snapshot" ELSE @])
    /\ UNCHANGED <<mode, bus, acked, writes, ops>>

(* The keys of the snapshot are added to the ones that are there.          *)
LoadSnapshot(j) ==
    /\ Arrives(j, "snap")
    /\ LET v == Head(link[j].tot).v IN
        Apply([Executed(j) EXCEPT
                !.node[Dst(j)].val = [s \in Slot |->
                    IF s \in Slots(j) THEN @[s] \o v[s] ELSE @[s]]])
    /\ UNCHANGED <<mode, bus, acked, writes, ops>>

ApplyWrite(j) ==
    /\ Arrives(j, "data")
    /\ LET m == Head(link[j].tot) IN
        Apply([Executed(j) EXCEPT !.node[Dst(j)].val[m.s] = Append(@, m.w)])
    /\ UNCHANGED <<mode, bus, acked, writes, ops>>

(* A command of the import is refused: out of memory, or an error reply.   *)
ImportFails(j) ==
    /\ Arrives(j, "snap") \/ Arrives(j, "data")
    /\ Op("oom", Dst(j))
    /\ Apply(FailImports(Executed(j), {j}))
    /\ UNCHANGED <<mode, bus, acked, writes>>

(* A marker is expected in one state only, and answered.                   *)
Marker(j, k, from, answer, to) ==
    /\ Arrives(j, k)
    /\ Apply(IF imp[j] = from
             THEN [Executed(j) EXCEPT !.imp[j] = to,
                                      !.link[j] = ToSource(@, answer)]
             ELSE FailImports(Executed(j), {j}))
    /\ UNCHANGED <<mode, bus, acked, writes, ops>>

SyncSlotsSnapshotEof(j) ==
    Marker(j, "eof", "snapshot", "request_pause", "wait_paused")

SyncSlotsPaused(j) ==
    Marker(j, "paused", "wait_paused", "request_failover", "requested")

SyncSlotsFailoverGranted(j) ==
    /\ Arrives(j, "granted")
    /\ Apply(IF imp[j] = "requested"
             THEN [Executed(j) EXCEPT !.imp[j] = "granted"]
             ELSE FailImports(Executed(j), {j}))
    /\ UNCHANGED <<mode, bus, acked, writes, ops>>

(* clusterBumpConfigEpochWithoutConsensus.                                 *)
Bumped(nd, n) ==
    IF nd.conf[n] # 0 /\ nd.conf[n] = Max({nd.cur} \cup {nd.conf[m] : m \in Node})
    THEN nd
    ELSE [nd EXCEPT !.cur = @ + 1, !.conf[n] = nd.cur + 1]

(* Mutant: the slots are taken under the old epoch.                        *)
ClaimNoBump(nd, n, S) ==
    [nd EXCEPT !.owner = [s \in Slot |-> IF s \in S THEN n ELSE @[s]]]

Claim(nd, n, S) ==
    [Bumped(nd, n) EXCEPT
        !.owner = [s \in Slot |-> IF s \in S THEN n ELSE @[s]]]

PerformSlotImportJobFailover(j) ==
    /\ imp[j] = "granted"
    /\ Apply(FinishImport(State,
                [State EXCEPT !.node[Dst(j)] = Claim(@, Dst(j), Slots(j))],
                j, "success"))
    /\ UNCHANGED <<mode, bus, acked, writes, ops>>

CleanUp(j) ==
    /\ imp[j] = "cleaning"
    /\ Apply(FinishImport(State,
                [State EXCEPT !.node[Dst(j)] =
                    DelKeysNotOwned(@, Dst(j), Slots(j))],
                j, "failed"))
    /\ UNCHANGED <<mode, bus, acked, writes, ops>>

-------------------------------------------------------------------------------
(* Connections and timeouts.                                               *)

(* clusterHandleSlotMigrationClientClose: an export that was granted keeps *)
(* waiting for the takeover.                                               *)
SourceSeesClose(j) ==
    /\ link[j].src /\ (link[j].cut \/ ~link[j].dst)
    /\ Apply(IF exp[j].st = "granted"
             THEN [State EXCEPT !.link[j] = CloseSource(@),
                                !.exp[j].out = <<>>, !.exp[j].pend = FALSE,
                                !.node[Src(j)].child = KillChild(@, {j})]
             ELSE FinishExport(State, j, "failed"))
    /\ UNCHANGED <<mode, bus, acked, writes, ops>>

TargetSeesClose(j) ==
    /\ link[j].dst /\ (link[j].cut \/ ~link[j].src)
    /\ Apply(IF imp[j] \in ImportInProgress THEN FailImports(State, {j})
             ELSE [State EXCEPT !.link[j] = CloseTarget(@)])
    /\ UNCHANGED <<mode, bus, acked, writes, ops>>

LinkBreaks(j) ==
    /\ link[j].src /\ link[j].dst /\ ~link[j].cut
    /\ Op("cut", Src(j))
    /\ link' = [link EXCEPT ![j].cut = TRUE, ![j].tot = <<>>, ![j].tos = <<>>]
    /\ UNCHANGED <<mode, node, exp, imp, bus, acked, risk, asserts, writes>>

(* clusterSlotMigrationCron: nothing was heard for repl-timeout.           *)
ExportTimesOut(j) ==
    /\ exp[j].st \in ExportInProgress \ {"granted"}
    /\ Op("timeout", Src(j))
    /\ Apply(FinishExport(State, j, "failed"))
    /\ UNCHANGED <<mode, bus, acked, writes>>

ImportTimesOut(j) ==
    /\ imp[j] \in ImportInProgress
    /\ Op("timeout", Dst(j))
    /\ Apply(FailImports(State, {j}))
    /\ UNCHANGED <<mode, bus, acked, writes>>

-------------------------------------------------------------------------------
(* Commands of the operator, and the death of a node.                      *)

CancelSlotMigrations(n) ==
    LET J == {j \in Exports(n) : exp[j].st \in ExportInProgress} IN
    /\ J # {}
    /\ Op("cancel", n)
    /\ Apply(FinishExports(State, n, J, "cancelled"))
    /\ UNCHANGED <<mode, bus, acked, writes>>

(* FLUSHALL: every job in progress fails.                                  *)
FlushAll(n) ==
    LET J == {j \in Exports(n) : exp[j].st \in ExportInProgress}
        I == {j \in Imports(n) : imp[j] \in ImportInProgress}
        A == FailImports(FinishExports(State, n, J, "failed"), I)
    IN /\ ~node[n].paused
       /\ Op("flushall", n)
       /\ Apply([A EXCEPT !.node[n].val = [s \in Slot |-> <<>>]])
       /\ acked' = [s \in Slot |-> IF node[n].owner[s] = n THEN <<>>
                                   ELSE acked[s]]
       /\ UNCHANGED <<mode, bus, writes>>

(* CLUSTER BUMPEPOCH, or an import from a node that is not modelled.       *)
BumpEpoch(n) ==
    /\ Op("bump", n)
    /\ node' = [node EXCEPT ![n] = Bumped(@, n)]
    /\ UNCHANGED <<mode, exp, imp, link, bus, acked, risk, asserts, writes>>

Restart(n) ==
    /\ Op("restart", n)
    /\ Apply(Died(State, n))
    /\ UNCHANGED <<mode, bus, acked, writes>>

-------------------------------------------------------------------------------
(* Gossip.                                                                 *)

SendPong(n, m) ==
    /\ n # m /\ bus[<<n, m>>] = None
    /\ bus' = [bus EXCEPT ![<<n, m>>] =
                [cur |-> node[n].cur, conf |-> node[n].conf[n],
                 slots |-> {s \in Slot : node[n].owner[s] = n}]]
    /\ UNCHANGED <<mode, node, exp, imp, link, acked, risk, asserts, writes,
                   ops>>

HigherOf(a, b) == IF a >= b THEN a ELSE b

(* The epochs in the header of a packet from m.                            *)
Learned(nd, m, p) ==
    [nd EXCEPT !.cur = HigherOf(@, p.cur), !.conf[m] = HigherOf(@, p.conf)]

(* The slots that n gives to m.                                            *)
Rebinds(T, n, m, p) ==
    {s \in p.slots :
        /\ T.node[n].owner[s] # m
        /\ \/ T.node[n].conf[T.node[n].owner[s]] < p.conf
           \/ SlotFailoverGranted(T, n, s)}

OwnerOf(T, n, j) ==
    LET O == {T.node[n].owner[s] : s \in Slots(j)}
    IN IF Cardinality(O) = 1 THEN CHOOSE o \in O : TRUE ELSE None

UpdateSlotExports(T, n) ==
    LET J    == {j \in Exports(n) : T.exp[j].st \in ExportInProgress}
        done == {j \in J : OwnerOf(T, n, j) = Dst(j)}
        lost == {j \in J \ done : OwnerOf(T, n, j) # n}
    IN FinishExports(FinishExports(T, n, done, "success"), n, lost, "failed")

UpdateSlotImports(T, n) ==
    FailImports(T, {j \in Imports(n) : /\ T.imp[j] \in ImportInProgress
                                       /\ OwnerOf(T, n, j) # Src(j)})

(* clusterUpdateSlotsConfigWith.                                           *)
UpdateSlotsConfig(T, n, m, p) ==
    LET R == Rebinds(T, n, m, p)
        dirty == {s \in R : T.node[n].owner[s] = n}
        A == [T EXCEPT !.node[n].owner =
                [s \in Slot |-> IF s \in R THEN m ELSE @[s]]]
        B == IF \E s \in R : IsSlotExporting(T, n, s)
             THEN UpdateSlotExports(A, n) ELSE A
        C == IF \E s \in R : IsSlotImporting(T, n, s)
             THEN UpdateSlotImports(B, n) ELSE B
    IN [C EXCEPT !.node[n] = DelKeysNotOwned(@, n, dirty)]

Collided(nd, n, m, p) ==
    IF p.conf = nd.conf[n] /\ m > n
    THEN [nd EXCEPT !.cur = @ + 1, !.conf[n] = nd.cur + 1] ELSE nd

ReceivePong(m, n) ==
    LET p == bus[<<m, n>>]
        A == [State EXCEPT !.node[n] = Learned(@, m, p)]
        B == UpdateSlotsConfig(A, n, m, p)
    IN /\ p # None
       /\ bus' = [bus EXCEPT ![<<m, n>>] = None]
       /\ Apply([B EXCEPT !.node[n] = Collided(@, n, m, p)])
       /\ UNCHANGED <<mode, acked, writes, ops>>

-------------------------------------------------------------------------------
Init ==
    /\ mode \in Modes
    /\ node = [n \in Node |->
                [owner |-> mode.owner, conf |-> mode.epoch,
                 cur |-> Max({mode.epoch[m] : m \in Node}),
                 val |-> [s \in Slot |-> <<>>], paused |-> FALSE,
                 child |-> None, pipe |-> FALSE]]
    /\ exp = [j \in Job |-> NoExport]
    /\ imp = [j \in Job |-> "none"]
    /\ link = [j \in Job |-> NoLink]
    /\ bus = [e \in Node \X Node |-> None]
    /\ acked = [s \in Slot |-> <<>>]
    /\ risk = {} /\ asserts = {} /\ writes = 0 /\ ops = 0

(* What the event loop of a node does: sockets, cron, child and time.      *)
JobStep(j) ==
    \/ Connect(j) \/ WriteToClient(j) \/ ReadEstablishResponse(j)
    \/ BeginSnapshot(j) \/ RequestPause(j) \/ WaitingToPause(j)
    \/ RequestFailover(j) \/ DeadlinePasses(j) \/ PauseTimeout(j)
    \/ SyncSlotsEstablish(j) \/ SyncSlotsAck(j) \/ LoadSnapshot(j)
    \/ ApplyWrite(j) \/ SyncSlotsSnapshotEof(j) \/ SyncSlotsPaused(j)
    \/ SyncSlotsFailoverGranted(j) \/ PerformSlotImportJobFailover(j)
    \/ CleanUp(j) \/ SourceSeesClose(j) \/ TargetSeesClose(j)

NodeStep(n) ==
    \/ ChildWrites(n) \/ BackgroundSlotMigrationDone(n) \/ PauseExpires(n)

JobFault(j) ==
    \/ ConnectFails(j) \/ ForkFails(j) \/ ImportFails(j) \/ LinkBreaks(j)
    \/ ExportTimesOut(j) \/ ImportTimesOut(j)

NodeCommand(n) ==
    \/ ChildFails(n) \/ CancelSlotMigrations(n) \/ FlushAll(n)
    \/ BumpEpoch(n) \/ Restart(n)

Progress == (\E j \in Job : JobStep(j)) \/ (\E n \in Node : NodeStep(n))

Gossip(n, m) == SendPong(n, m) \/ ReceivePong(n, m)

Next ==
    \/ Progress
    \/ \E j \in Job : MigrateSlots(j) \/ JobFault(j)
    \/ \E n \in Node : NodeCommand(n)
    \/ \E n \in Node, s \in Slot : Write(n, s)
    \/ \E n, m \in Node : Gossip(n, m)

Spec == Init /\ [][Next]_vars

-------------------------------------------------------------------------------
(* Every part of the state is of the type the code gives it; a job is on   *)
(* each side in a state of that side.                                      *)
TypeOK ==
    /\ mode \in Modes
    /\ \A n \in Node :
        /\ node[n].owner \in [Slot -> Node] /\ node[n].conf \in [Node -> Nat]
        /\ node[n].val \in [Slot -> Seq(Nat)] /\ node[n].paused \in BOOLEAN
        /\ node[n].child # None => node[n].child.job \in Exports(n)
    /\ \A j \in Job :
        /\ exp[j].st \in ExportInProgress \cup Finished \cup {"none"}
        /\ exp[j].mf \in {"none", "armed", "late"}
        /\ imp[j] \in ImportInProgress \cup {"none", "cleaning", "success",
                                             "failed"}

(* A node that owns a slot, and has not granted its failover, has every    *)
(* write to it that was acknowledged, in order, and nothing else.  The     *)
(* snapshot of the child, the writes buffered while it ran and the stream  *)
(* (clusterFeedSlotExportJobs, putClientInPendingWriteQueue) add up, on a  *)
(* target with nothing left of an earlier attempt.  Excepted is a slot     *)
(* whose source stopped waiting for the takeover it had granted ("Write    *)
(* loss risk!").                                                           *)
OwnerHasAll ==
    \A n \in Node, s \in Slot :
        /\ node[n].owner[s] = n
        /\ s \notin risk /\ ~SlotFailoverGranted(State, n, s)
        => node[n].val[s] = acked[s]

(* Two nodes never both accept writes to a slot: from the takeover until   *)
(* the gossip about it the source stays paused, whatever its other jobs    *)
(* do (slotExportTryUnpause).                                              *)
OneWriter ==
    \A s \in Slot \ risk :
        Cardinality({n \in Node : node[n].owner[s] = n /\ ~node[n].paused}) <= 1

(* Some node holds itself for the owner of each slot: the source gives it  *)
(* away for a claim of the target that the target keeps, under the epoch   *)
(* of performSlotImportJobFailover.                                        *)
SlotHasOwner ==
    risk = {} => \A s \in Slot : \E n \in Node : node[n].owner[s] = n

(* A node has keys only in slots it owns or in those of an import that     *)
(* will delete them if it fails (SLOT_IMPORT_FINISHED_CLEANING_UP).        *)
NoDirtyKeys ==
    \A n \in Node, s \in Slot :
        node[n].val[s] # <<>> =>
            node[n].owner[s] = n \/ IsSlotImporting(State, n, s)

(* A source that has granted the failover is paused until it has heard of  *)
(* the takeover or given up: REQUEST-FAILOVER is denied once the pause has *)
(* ended "in the background".                                              *)
GrantedIsPaused ==
    \A j \in Job : exp[j].st = "granted" /\ Slots(j) \cap risk = {} =>
        node[Src(j)].paused

(* When no node has anything left to do for the jobs, every job has ended  *)
(* on both sides and no node is paused: imports that are postponed by the  *)
(* pause of their own node, lost connections, killed children and dead     *)
(* peers leave nobody waiting for good.                                    *)
JobsNeverStuck ==
    ~ENABLED Progress =>
        /\ \A j \in Job : /\ exp[j].st \in Finished \cup {"none"}
                          /\ imp[j] \in Finished \cup {"none"}
        /\ \A n \in Node : ~node[n].paused

(* The assertion of propagateNow: nothing is propagated in a pause, which  *)
(* "needs to be unreachable since the dataset should be fixed during       *)
(* replica pause" (server.c).                                              *)
DatasetFixedWhilePaused == "propagate" \notin asserts
===============================================================================
