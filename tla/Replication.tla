----------------------------- MODULE Replication ------------------------------
(***************************************************************************)
(* The replication of replication.c between any number of servers: the     *)
(* stream a primary feeds to its replicas and its backlog, partial         *)
(* resynchronization by replication ID and offset, full resynchronization  *)
(* with a snapshot, chains of replicas, REPLICAOF, the coordinated         *)
(* FAILOVER command, and the restart of a server from the RDB file and the *)
(* replication state saved with it.                                        *)
(*                                                                         *)
(* A command of the stream is a number and counts for one byte of offset;  *)
(* a dataset is the sequence of the commands it results from.  AOF is off. *)
(* srv[s] is the memory of server s, conn[s] its connection to the server  *)
(* it replicates from with both ends' state, disk[s] its RDB file.         *)
(***************************************************************************)
EXTENDS Integers, Sequences, FiniteSets, SequencesExt

CONSTANTS
    Server,
    Modes,         \* scenarios: see ModeType
    BacklogSize,   \* server.repl_backlog_size, in commands
    None

VARIABLES
    mode,          \* the scenario of this behaviour
    srv,           \* the memory of every server
    conn,          \* the connection of every server to its primary, or None
    disk,          \* the RDB file of every server
    nid,           \* replication IDs generated so far
    writes, ops, faults, restarts  \* how much of each bound is used

vars   == <<mode, srv, conn, disk, nid, writes, ops, faults, restarts>>
bounds == <<writes, ops, faults, restarts>>

OpSet    == {"replicaof", "noone", "failover", "abort", "save",
             "freebacklog"}
ModeType == [hosts : [Server -> Server \cup {None}], ops : SUBSET OpSet,
             diskless : BOOLEAN, writes : Nat, nops : Nat, faults : Nat,
             restarts : Nat]

ASSUME ModesAssumption   == Modes \subseteq ModeType
ASSUME BacklogAssumption == BacklogSize \in Nat \ {0}
ASSUME ServerAssumption  == IsFiniteSet(Server)

(* A position in a history; an RDB file; what is sent to a replica; the    *)
(* request of a replica; its connection.                                   *)
Position == [id : Nat, off : Nat]
File     == [data : Seq(Nat), info : Position \cup {None}]
Message  == [k : {"command"}, e : Nat] \cup [k : {"continue"}, id : Nat]
            \cup [k : {"fullresync"}, id : Nat, off : Nat]
            \cup [k : {"rdb"}, file : File] \cup [k : {"error"}]
Request  == [id : Nat \cup {None}, off : Int, failover : BOOLEAN]
Link     == [to : Server, st : {"psync", "start", "end", "online", "closed"},
             req : Request \cup {None}, out : Seq(Message), pend : Seq(Nat),
             initial : Nat]

(* None is none of the values it stands for the absence of.                *)
ASSUME NoneAssumption ==
    /\ None \notin Server /\ None \notin Nat /\ None \notin Seq(Nat)
    /\ None \notin Position /\ None \notin File /\ None \notin Link

Op(o) == o \in mode.ops /\ ops < mode.nops /\ ops' = ops + 1
Fault == faults < mode.faults /\ faults' = faults + 1
NoOp    == UNCHANGED ops
NoFault == UNCHANGED faults

Pos(i, o) == [id |-> i, off |-> o]

NoFailover == [st |-> "none", tgt |-> None, kind |-> "none"]

(* A server that has just been started, with nothing to restore.           *)
InitServerConfig(i, h) ==
    [data |-> <<>>, id |-> i, off |-> 0, id2 |-> None, second |-> -1,
     backlog |-> None, host |-> h,
     state |-> IF h = None THEN "none" ELSE "connect",
     primary |-> None, cached |-> None, initial |-> None,
     failover |-> NoFailover, child |-> None]

-------------------------------------------------------------------------------
(* Connections.  The side of the replica is srv[s].state; the side of the  *)
(* primary is the field st: "psync" until it has answered the request,     *)
(* "start" and "end" while a full resynchronization waits for a BGSAVE to  *)
(* start or to end, "online", and "closed" when it has freed the client.   *)

Connection(p, st, out) ==
    [to |-> p, st |-> st, req |-> None, out |-> out, pend |-> <<>>,
     initial |-> 0]

LinkedTo(C, p) == {s \in Server : C[s] # None /\ C[s].to = p}

(* server.replicas of p.                                                   *)
Replicas(C, p) ==
    {s \in LinkedTo(C, p) : C[s].st \in {"start", "end", "online"}}

(* What is in the socket may still be read before the end of file is seen. *)
FreeClients(C, S) ==
    [s \in Server |-> IF s \in S THEN Connection(C[s].to, "closed", C[s].out)
                                 ELSE C[s]]

DisconnectReplicas(C, p) == FreeClients(C, Replicas(C, p))

CommandMsg(e)        == [k |-> "command", e |-> e]
ContinueMsg(i)       == [k |-> "continue", id |-> i]
FullResyncMsg(i, o)  == [k |-> "fullresync", id |-> i, off |-> o]
RdbMsg(f)            == [k |-> "rdb", file |-> f]
ErrorMsg             == [k |-> "error"]

Commands(b) == [i \in DOMAIN b |-> CommandMsg(b[i])]

-------------------------------------------------------------------------------
(* Replication IDs and the backlog.                                        *)

ClearReplicationId2(r)    == [r EXCEPT !.id2 = None, !.second = -1]
ChangeReplicationId(r, i) == [r EXCEPT !.id = i]

(* Mutant: one command too many is accepted under the secondary ID.        *)
ShiftOffByOne(r, i) ==
    [r EXCEPT !.id2 = r.id, !.second = r.off + 2, !.id = i]

ShiftReplicationId(r, i) ==
    [r EXCEPT !.id2 = r.id, !.second = r.off + 1, !.id = i]

CreateReplicationBacklog(r) == [r EXCEPT !.backlog = <<>>]
FreeReplicationBacklog(r)   == [r EXCEPT !.backlog = None]

(* The offset of the first command in the backlog.                         *)
BacklogOffset(r) == r.off - Len(r.backlog) + 1

Trimmed(b) == IF Len(b) > BacklogSize THEN Tail(b) ELSE b

(* One more command in the stream of a server.                             *)
FeedReplicationBuffer(r, e) ==
    IF r.backlog = None THEN r
    ELSE [r EXCEPT !.off = @ + 1, !.backlog = Trimmed(Append(@, e))]

FeedReplicas(C, p, e) ==
    [s \in Server |->
        IF s \notin Replicas(C, p) THEN C[s]
        ELSE CASE C[s].st = "online" ->
                    [C[s] EXCEPT !.out = Append(@, CommandMsg(e))]
               [] C[s].st = "end"    -> [C[s] EXCEPT !.pend = Append(@, e)]
               [] OTHER              -> C[s]]

(* A write of a client of a primary; a failover pauses them.  Without a    *)
(* backlog the offset does not move.                                       *)
Write(p) ==
    /\ srv[p].host = None /\ srv[p].failover.st = "none"
    /\ writes < mode.writes
    /\ writes' = writes + 1
    /\ LET r == [srv[p] EXCEPT !.data = Append(@, writes + 1)] IN
        srv' = [srv EXCEPT ![p] = FeedReplicationBuffer(r, writes + 1)]
    /\ conn' = FeedReplicas(conn, p, writes + 1)
    /\ UNCHANGED <<mode, disk, nid, ops, faults, restarts>>

-------------------------------------------------------------------------------
(* Changes of role.                                                        *)

(* The link of s to its primary goes: the primary is cached, so that a     *)
(* partial resynchronization may be asked for.                             *)
ReplicationCachePrimary(r) ==
    [r EXCEPT !.cached = IF r.primary # None THEN r.primary ELSE @,
              !.primary = None, !.initial = None]

ReplicationCachePrimaryUsingMyself(r) == [r EXCEPT !.cached = Pos(r.id, r.off)]

ReplicationSetPrimary(r, h) ==
    LET q == IF r.host = None THEN ReplicationCachePrimaryUsingMyself(r)
                              ELSE ReplicationCachePrimary(r)
    IN  [q EXCEPT !.host = h, !.state = "connect"]

(* Mutant: the state of the link is not reset.                             *)
UnsetKeepsState(r, i) ==
    ShiftReplicationId([r EXCEPT !.host = None, !.primary = None,
                                 !.cached = None, !.initial = None], i)

ReplicationUnsetPrimary(r, i) ==
    ShiftReplicationId([r EXCEPT !.host = None, !.primary = None,
                                 !.cached = None, !.initial = None,
                                 !.state = "none"], i)

(* The connections after server s has stopped replicating, with and        *)
(* without the disconnection of its own replicas.                          *)
WithoutLink(C, s) == [C EXCEPT ![s] = None]
Promoted(C, s)    == DisconnectReplicas(WithoutLink(C, s), s)

ReplicaOf(s, h) ==
    /\ Op("replicaof")
    /\ srv[s].failover.st = "none"
    /\ h # s /\ srv[s].host # h
    /\ srv' = [srv EXCEPT ![s] = ReplicationSetPrimary(@, h)]
    /\ conn' = WithoutLink(conn, s)
    /\ UNCHANGED <<mode, disk, nid, writes, faults, restarts>>

ReplicaOfNoOne(s) ==
    /\ Op("noone")
    /\ srv[s].failover.st = "none"
    /\ srv[s].host # None
    /\ nid' = nid + 1
    /\ srv' = [srv EXCEPT ![s] = ReplicationUnsetPrimary(@, nid + 1)]
    /\ conn' = Promoted(conn, s)
    /\ UNCHANGED <<mode, disk, writes, faults, restarts>>

-------------------------------------------------------------------------------
(* The RDB file: the dataset with the replication ID and offset it has, if *)
(* they may be relied on.                                                  *)
RdbPopulateSaveInfo(r) ==
    IF (r.host = None /\ r.backlog # None) \/ r.primary # None \/ r.cached # None
    THEN Pos(r.id, r.off) ELSE None

RdbFile(r) == [data |-> r.data, info |-> RdbPopulateSaveInfo(r)]
NoFile     == [data |-> <<>>, info |-> None]

Save(s) ==
    /\ Op("save") /\ srv[s].child = None
    /\ disk' = [disk EXCEPT ![s] = RdbFile(srv[s])]
    /\ UNCHANGED <<mode, srv, conn, nid, writes, faults, restarts>>

(* Mutant: a primary goes on under the ID of the file.                     *)
RestartKeepsId(f, i, h) ==
    LET r == [InitServerConfig(i, h) EXCEPT !.data = f.data]
    IN  IF f.info = None THEN r
        ELSE CreateReplicationBacklog(ReplicationCachePrimaryUsingMyself(
                [r EXCEPT !.id = f.info.id, !.off = f.info.off]))

(* Mutant: one command too many is accepted under the ID of the file.      *)
RestartOffByOne(f, i, h) ==
    LET r == [InitServerConfig(i, h) EXCEPT !.data = f.data]
    IN  IF f.info = None THEN r
        ELSE CreateReplicationBacklog(
                [r EXCEPT !.id2 = f.info.id, !.second = f.info.off + 2,
                          !.off = f.info.off])

(* A server starts: a replica continues the history of the file, a primary *)
(* starts a new one and remembers the history of the file as secondary.    *)
LoadDataFromDisk(f, i, h) ==
    LET r == [InitServerConfig(i, h) EXCEPT !.data = f.data]
    IN  CASE f.info = None -> r
          [] f.info # None /\ h # None ->
                ReplicationCachePrimaryUsingMyself(
                    [r EXCEPT !.id = f.info.id, !.off = f.info.off])
          [] f.info # None /\ h = None ->
                CreateReplicationBacklog(
                    [r EXCEPT !.id2 = f.info.id, !.second = f.info.off + 1,
                              !.off = f.info.off])

(* The process dies and starts again, with the role it has or, if that was *)
(* not written to the configuration file, the one it started with.         *)
Restart(s) ==
    /\ restarts < mode.restarts
    /\ restarts' = restarts + 1
    /\ nid' = nid + 1
    /\ \E h \in {srv[s].host, mode.hosts[s]} :
        srv' = [srv EXCEPT ![s] = LoadDataFromDisk(disk[s], nid + 1, h)]
    /\ LET C == WithoutLink(conn, s) IN conn' = FreeClients(C, LinkedTo(C, s))
    /\ UNCHANGED <<mode, disk, writes, ops, faults>>

-------------------------------------------------------------------------------
(* The side of the primary.                                                *)

(* May this request continue from the backlog?                             *)
PrimaryTryPartialResynchronization(r, q) ==
    /\ \/ q.id = r.id
       \/ q.id = r.id2 /\ q.off <= r.second
    /\ r.backlog # None
    /\ q.off >= BacklogOffset(r)
    /\ q.off <= BacklogOffset(r) + Len(r.backlog)

AddReplyReplicationBacklog(r, o) ==
    Commands(SubSeq(r.backlog, o - BacklogOffset(r) + 1, Len(r.backlog)))

(* Every replica that waits for a BGSAVE to start is told where the        *)
(* snapshot of this one stands.                                            *)
SetupReplicasForFullResync(C, p, r) ==
    [s \in Server |->
        IF s \in Replicas(C, p) /\ C[s].st = "start"
        THEN [C[s] EXCEPT !.st = "end", !.initial = r.off,
                          !.out = <<FullResyncMsg(r.id, r.off)>>]
        ELSE C[s]]

StartBgsave(r) == [r EXCEPT !.child = RdbFile(r)]

(* The first replica of a server without a backlog starts a new history.   *)
WithBacklog(r, i) ==
    IF r.backlog # None THEN r
    ELSE CreateReplicationBacklog(ClearReplicationId2(ChangeReplicationId(r, i)))

(* The replicas of p whose snapshot another replica can share.             *)
Registering(C, p) == {t \in Replicas(C, p) : C[t].st = "end"}

(* p, in state r and with connections C, answers the request of s; k       *)
(* replication IDs have been generated.                                    *)
AnswerSync(p, s, r, C, k) ==
    LET q == conn[s].req
        refuse == \/ r.failover.st # "none"
                  \/ r.host # None /\ r.state # "connected"
        partial == PrimaryTryPartialResynchronization(r, q)
        w == WithBacklog(r, k + 1)
        waiting == [C EXCEPT ![s] = Connection(p, "start", <<>>)]
    IN  \/ /\ refuse
           /\ srv' = [srv EXCEPT ![p] = r]
           /\ conn' = [C EXCEPT ![s] = Connection(p, "closed", <<ErrorMsg>>)]
           /\ nid' = k
        \/ /\ ~refuse /\ partial
           /\ srv' = [srv EXCEPT ![p] = r]
           /\ conn' = [C EXCEPT ![s] = Connection(p, "online",
                        <<ContinueMsg(r.id)>>
                            \o AddReplyReplicationBacklog(r, q.off))]
           /\ nid' = k
        \/ /\ ~refuse /\ ~partial
           /\ nid' = IF r.backlog = None THEN k + 1 ELSE k
           /\ \/ /\ w.child # None /\ ~mode.diskless
                 /\ \E t \in Registering(C, p) :
                     conn' = [C EXCEPT ![s] =
                        [C[t] EXCEPT !.out =
                            <<FullResyncMsg(w.id, C[t].initial)>>]]
                 /\ srv' = [srv EXCEPT ![p] = w]
              \/ /\ w.child # None
                 /\ mode.diskless \/ Registering(C, p) = {}
                 /\ srv' = [srv EXCEPT ![p] = w]
                 /\ conn' = waiting
              \/ /\ w.child = None /\ ~mode.diskless
                 /\ srv' = [srv EXCEPT ![p] = StartBgsave(w)]
                 /\ conn' = SetupReplicasForFullResync(waiting, p, w)
              \/ /\ w.child = None /\ mode.diskless
                 /\ srv' = [srv EXCEPT ![p] = w]
                 /\ conn' = waiting

(* A PSYNC request reaches p.  One of a failover promotes p first, if p is *)
(* a replica with the same history.                                        *)
SyncCommand(p, s) ==
    /\ s \in LinkedTo(conn, p) /\ conn[s].st = "psync"
    /\ LET q == conn[s].req
           accept == srv[p].host # None /\ q.id = srv[p].id
       IN  \/ ~q.failover /\ AnswerSync(p, s, srv[p], conn, nid)
           \/ /\ q.failover /\ accept
              /\ AnswerSync(p, s, ReplicationUnsetPrimary(srv[p], nid + 1),
                            Promoted(conn, p), nid + 1)
           \/ /\ q.failover /\ ~accept
              /\ conn' = [conn EXCEPT ![s] =
                            Connection(p, "closed", <<ErrorMsg>>)]
              /\ UNCHANGED <<srv, nid>>
    /\ UNCHANGED <<mode, disk, bounds>>

ReplicationStartPendingFork(p) ==
    /\ srv[p].child = None
    /\ \E s \in Replicas(conn, p) : conn[s].st = "start"
    /\ srv' = [srv EXCEPT ![p] = StartBgsave(@)]
    /\ conn' = SetupReplicasForFullResync(conn, p, srv[p])
    /\ UNCHANGED <<mode, disk, nid, bounds>>

(* The child has written the snapshot, to the RDB file or to the replicas. *)
BgsaveDone(p) ==
    /\ srv[p].child # None
    /\ disk' = IF mode.diskless THEN disk
               ELSE [disk EXCEPT ![p] = srv[p].child]
    /\ srv' = [srv EXCEPT ![p].child = None]
    /\ conn' = [s \in Server |->
        IF s \notin Registering(conn, p) THEN conn[s]
        ELSE Connection(p, "online", conn[s].out \o <<RdbMsg(srv[p].child)>>
                                                 \o Commands(conn[s].pend))]
    /\ UNCHANGED <<mode, nid, bounds>>

(* Mutant: the replicas that wait for the snapshot are left waiting.       *)
BgsaveFailsSilently(p) ==
    /\ Fault
    /\ srv[p].child # None
    /\ srv' = [srv EXCEPT ![p].child = None]
    /\ UNCHANGED <<mode, conn, disk, nid, writes, ops, restarts>>

BgsaveFails(p) ==
    /\ Fault
    /\ srv[p].child # None
    /\ srv' = [srv EXCEPT ![p].child = None]
    /\ conn' = FreeClients(conn, Registering(conn, p))
    /\ UNCHANGED <<mode, disk, nid, writes, ops, restarts>>

(* Mutant: the backlog is freed although there are replicas.               *)
FreeBacklogInUse(p) ==
    /\ Op("freebacklog")
    /\ srv[p].host = None /\ srv[p].backlog # None
    /\ nid' = nid + 1
    /\ srv' = [srv EXCEPT ![p] = FreeReplicationBacklog(
                ClearReplicationId2(ChangeReplicationId(@, nid + 1)))]
    /\ UNCHANGED <<mode, conn, disk, writes, faults, restarts>>

(* A primary that has had no replicas for a while.                         *)
ReplicationCronFreeBacklog(p) ==
    /\ Op("freebacklog")
    /\ srv[p].host = None /\ srv[p].backlog # None
    /\ Replicas(conn, p) = {}
    /\ nid' = nid + 1
    /\ srv' = [srv EXCEPT ![p] = FreeReplicationBacklog(
                ClearReplicationId2(ChangeReplicationId(@, nid + 1)))]
    /\ UNCHANGED <<mode, conn, disk, writes, faults, restarts>>

-------------------------------------------------------------------------------
(* The side of the replica.                                                *)

(* A connection is made and a PSYNC is sent.                               *)
ReplicaSendPsyncCommand(s) ==
    /\ srv[s].state = "connect"
    /\ LET r == srv[s]
           q == IF r.cached = None THEN Pos(None, -1)
                ELSE Pos(r.cached.id, r.cached.off + 1)
       IN  conn' = [conn EXCEPT ![s] =
             [Connection(r.host, "psync", <<>>) EXCEPT !.req =
                [id |-> q.id, off |-> q.off,
                 failover |-> r.failover.st = "progress"]]]
    /\ srv' = [srv EXCEPT ![s].state = "psync"]
    /\ UNCHANGED <<mode, disk, nid, bounds>>

ClearFailoverState(r) == [r EXCEPT !.failover = NoFailover]

(* Mutant: the pause is not lifted.                                        *)
AbortWithoutClear(s) ==
    IF srv[s].failover.st = "progress"
    THEN /\ nid' = nid + 1
         /\ srv' = [srv EXCEPT ![s] = ReplicationUnsetPrimary(@, nid + 1)]
         /\ conn' = Promoted(conn, s)
    ELSE UNCHANGED <<srv, conn, nid>>

(* The failover of s is given up; once it is in progress s is a replica.   *)
AbortFailover(s) ==
    IF srv[s].failover.st = "progress"
    THEN /\ nid' = nid + 1
         /\ srv' = [srv EXCEPT ![s] = ClearFailoverState(
                        ReplicationUnsetPrimary(@, nid + 1))]
         /\ conn' = Promoted(conn, s)
    ELSE /\ srv' = [srv EXCEPT ![s] = ClearFailoverState(@)]
         /\ UNCHANGED <<conn, nid>>

(* The server at the other end is the same as before, or continues its     *)
(* history under a new ID.                                                 *)
ContinueWith(r, i) ==
    LET q == IF i = r.cached.id THEN r
             ELSE [r EXCEPT !.id2 = r.cached.id, !.second = r.off + 1,
                            !.id = i, !.cached.id = i]
        b == IF q.backlog = None THEN CreateReplicationBacklog(q) ELSE q
    IN  [b EXCEPT !.primary = q.cached, !.cached = None, !.state = "connected"]

ContinueConns(s, i) ==
    LET C == [conn EXCEPT ![s].out = Tail(@)]
    IN  IF i = srv[s].cached.id THEN C ELSE DisconnectReplicas(C, s)

(* The answer to a PSYNC.                                                  *)
ReplicaProcessPsyncReply(s) ==
    /\ srv[s].state = "psync" /\ conn[s].out # <<>>
    /\ LET m == Head(conn[s].out)
           r == ClearFailoverState(srv[s])
       IN  \/ /\ m.k = "fullresync"
              /\ srv' = [srv EXCEPT ![s] = [r EXCEPT
                            !.state = "transfer", !.initial = Pos(m.id, m.off)]]
              /\ conn' = [conn EXCEPT ![s].out = Tail(@)]
              /\ nid' = nid
           \/ /\ m.k = "continue"
              /\ srv' = [srv EXCEPT ![s] = ContinueWith(r, m.id)]
              /\ conn' = ContinueConns(s, m.id)
              /\ nid' = nid
           \/ /\ m.k = "error" /\ srv[s].failover.st = "progress"
              /\ AbortFailover(s)
           \/ /\ m.k = "error" /\ srv[s].failover.st # "progress"
              /\ srv' = [srv EXCEPT ![s].state = "connect"]
              /\ conn' = WithoutLink(conn, s)
              /\ nid' = nid
    /\ UNCHANGED <<mode, disk, bounds>>

(* The old dataset is about to be lost: nothing may be resumed from it.    *)
ReplicationAttachToNewPrimary(r) ==
    FreeReplicationBacklog([r EXCEPT !.cached = None, !.child = None])

ReplicaAfterLoadPrimaryRDB(r, f) ==
    CreateReplicationBacklog(ClearReplicationId2(
        [r EXCEPT !.data = f.data, !.state = "connected",
                  !.primary = r.initial, !.initial = None,
                  !.id = r.initial.id, !.off = r.initial.off]))

(* The snapshot has been received and is loaded.                           *)
ReplicaLoadPrimaryRDB(s) ==
    /\ srv[s].state = "transfer" /\ conn[s].out # <<>>
    /\ LET f == Head(conn[s].out).file
       IN  /\ srv' = [srv EXCEPT ![s] = ReplicaAfterLoadPrimaryRDB(
                            ReplicationAttachToNewPrimary(@), f)]
           /\ disk' = IF mode.diskless THEN disk ELSE [disk EXCEPT ![s] = f]
    /\ conn' = DisconnectReplicas([conn EXCEPT ![s].out = Tail(@)], s)
    /\ UNCHANGED <<mode, nid, bounds>>

(* The load fails half way: the dataset is emptied and the link closed.    *)
ReplicaLoadFails(s) ==
    /\ Fault
    /\ srv[s].state = "transfer" /\ conn[s].out # <<>>
    /\ srv' = [srv EXCEPT ![s] = [ReplicationAttachToNewPrimary(@) EXCEPT
                !.data = <<>>, !.initial = None, !.state = "connect"]]
    /\ disk' = IF mode.diskless THEN disk
               ELSE [disk EXCEPT ![s] = Head(conn[s].out).file]
    /\ conn' = Promoted(conn, s)
    /\ UNCHANGED <<mode, nid, writes, ops, restarts>>

(* A command of the stream is applied and passed on.                       *)
CommandProcessed(s) ==
    /\ srv[s].state = "connected" /\ conn[s].out # <<>>
    /\ LET e == Head(conn[s].out).e
           r == [srv[s] EXCEPT !.data = Append(@, e), !.primary.off = @ + 1]
       IN  /\ srv' = [srv EXCEPT ![s] = FeedReplicationBuffer(r, e)]
           /\ conn' = FeedReplicas([conn EXCEPT ![s].out = Tail(@)], s, e)
    /\ UNCHANGED <<mode, disk, nid, bounds>>

(* The connection of s breaks: its primary frees the client.               *)
LinkFails(s) ==
    /\ Fault
    /\ conn[s] # None /\ conn[s].st # "closed"
    /\ conn' = FreeClients(conn, {s})
    /\ UNCHANGED <<mode, srv, disk, nid, writes, ops, restarts>>

(* s finds its connection closed, or times out; what it has not read is    *)
(* lost.  A failover that gets no answer is aborted; if it is the timer of *)
(* the handshake that expires first, the request is sent again.            *)
ReplicationHandlePrimaryDisconnection(s) ==
    /\ conn[s] # None /\ conn[s].st = "closed"
    /\ \/ /\ srv[s].state = "psync" /\ srv[s].failover.st = "progress"
          /\ AbortFailover(s)
       \/ /\ srv[s].failover.st = "progress" => conn[s].out = <<>>
          /\ srv' = [srv EXCEPT ![s] =
                        [ReplicationCachePrimary(@) EXCEPT !.state = "connect"]]
          /\ conn' = WithoutLink(conn, s)
          /\ nid' = nid
    /\ UNCHANGED <<mode, disk, bounds>>

-------------------------------------------------------------------------------
(* The coordinated failover: to any replica without a time limit, to a     *)
(* given one with a limit, or forced to it when the limit has passed.      *)
FailoverCommand(p, kind, t) ==
    /\ Op("failover")
    /\ srv[p].failover.st = "none" /\ srv[p].host = None
    /\ Replicas(conn, p) # {}
    /\ IF kind = "any" THEN t = None
       ELSE t \in Replicas(conn, p) /\ conn[t].st = "online"
    /\ srv' = [srv EXCEPT ![p].failover =
                    [st |-> "wait", tgt |-> t, kind |-> kind]]
    /\ UNCHANGED <<mode, conn, disk, nid, writes, faults, restarts>>

FailoverAbort(p) ==
    /\ Op("abort")
    /\ srv[p].failover.st # "none"
    /\ AbortFailover(p)
    /\ UNCHANGED <<mode, disk, writes, faults, restarts>>

(* Mutant: a replica that is online is taken for one that has everything.  *)
OnlineIsCaughtUp(p, s) == conn[s].st = "online"

(* The last offset s acknowledged to p is the offset of p.                 *)
CaughtUp(p, s) ==
    \/ srv[p].off = 0
    \/ /\ conn[s].st = "online" /\ srv[s].state = "connected"
       /\ srv[s].primary.off = srv[p].off

FailoverTo(p, t) ==
    /\ srv' = [srv EXCEPT ![p] =
                [ReplicationSetPrimary(@, t) EXCEPT
                    !.failover.st = "progress", !.failover.tgt = t]]
    /\ UNCHANGED <<mode, conn, disk, nid, bounds>>

UpdateFailoverStatus(p) ==
    /\ srv[p].failover.st = "wait"
    /\ \E t \in Replicas(conn, p) :
        /\ srv[p].failover.tgt \in {None, t}
        /\ CaughtUp(p, t)
        /\ FailoverTo(p, t)

FailoverTimesOut(p) ==
    /\ srv[p].failover.st = "wait"
    /\ \/ srv[p].failover.kind = "force" /\ FailoverTo(p, srv[p].failover.tgt)
       \/ /\ srv[p].failover.kind = "to"
          /\ AbortFailover(p)
          /\ UNCHANGED <<mode, disk, bounds>>

-------------------------------------------------------------------------------
Init ==
    /\ mode \in Modes
    /\ LET ids == CHOOSE f \in [Server -> 1 .. Cardinality(Server)] :
                        IsInjective(f)
       IN  srv = [s \in Server |-> InitServerConfig(ids[s], mode.hosts[s])]
    /\ conn = [s \in Server |-> None]
    /\ disk = [s \in Server |-> NoFile]
    /\ nid = Cardinality(Server)
    /\ writes = 0 /\ ops = 0 /\ faults = 0 /\ restarts = 0

Next ==
    \E s \in Server :
        \/ Write(s) \/ Save(s) \/ Restart(s)
        \/ \E h \in Server : ReplicaOf(s, h) \/ SyncCommand(h, s)
        \/ ReplicaOfNoOne(s)
        \/ ReplicationStartPendingFork(s) \/ BgsaveDone(s) \/ BgsaveFails(s)
        \/ ReplicationCronFreeBacklog(s)
        \/ ReplicaSendPsyncCommand(s) \/ ReplicaProcessPsyncReply(s)
        \/ ReplicaLoadPrimaryRDB(s) \/ ReplicaLoadFails(s)
        \/ CommandProcessed(s) \/ LinkFails(s)
        \/ ReplicationHandlePrimaryDisconnection(s)
        \/ \E t \in Server \cup {None}, k \in {"any", "to", "force"} :
                FailoverCommand(s, k, t)
        \/ FailoverAbort(s) \/ UpdateFailoverStatus(s) \/ FailoverTimesOut(s)

Spec == Init /\ [][Next]_vars

(* A server that can act does: sockets and timers are served by the event  *)
(* loop, a child process ends.  Commands of clients and faults need not    *)
(* happen.                                                                 *)
Fairness ==
    \A s \in Server :
        /\ WF_vars(ReplicaSendPsyncCommand(s))
        /\ WF_vars(ReplicaProcessPsyncReply(s))
        /\ WF_vars(ReplicaLoadPrimaryRDB(s))
        /\ WF_vars(CommandProcessed(s))
        /\ WF_vars(ReplicationHandlePrimaryDisconnection(s))
        /\ WF_vars(ReplicationStartPendingFork(s))
        /\ WF_vars(BgsaveDone(s))
        /\ WF_vars(UpdateFailoverStatus(s))
        /\ WF_vars(FailoverTimesOut(s))
        /\ \A p \in Server : WF_vars(SyncCommand(p, s))

FairSpec == Spec /\ Fairness

-------------------------------------------------------------------------------
Ids      == 1 .. nid
Datasets == Seq(1 .. writes)
PosType  == [id : Ids, off : Nat] \cup {None}
FileType == [data : Datasets, info : PosType]

(* Types of the state, and where a server may be in its handshake with     *)
(* respect to the connection it has.                                       *)
TypeOK ==
    /\ mode \in Modes /\ nid \in Nat
    /\ writes \in 0 .. mode.writes /\ ops \in 0 .. mode.nops
    /\ faults \in 0 .. mode.faults /\ restarts \in 0 .. mode.restarts
    /\ \A s \in Server :
        LET r == srv[s] c == conn[s] IN
        /\ r.data \in Datasets /\ r.id \in Ids /\ r.off \in Nat
        /\ r.id2 \in Ids \cup {None} /\ r.second \in Nat \cup {-1}
        /\ r.backlog = None \/ r.backlog \in Datasets
        /\ r.host \in Server \cup {None}
        /\ {r.primary, r.cached, r.initial} \subseteq PosType
        /\ disk[s] \in FileType
        /\ r.child = None \/ r.child \in FileType
        /\ r.host = None <=> r.state = "none"
        /\ r.state \in {"none", "connect"} <=> c = None
        /\ r.state = "connected" <=> r.primary # None
        /\ r.state = "transfer" <=> r.initial # None
        /\ c # None =>
            /\ c.to = r.host
            /\ c.st \in {"psync", "start", "end", "online", "closed"}
            /\ c.pend \in Datasets

(* The commands in a part of a connection.                                 *)
Stream(out) == [i \in DOMAIN out |-> out[i].e]
After(out, k) == SubSeq(out, k + 1, Len(out))

(* The dataset that s will have when it has read all of its connection.    *)
Outcome(s) ==
    LET out == conn[s].out
        rdb == {i \in DOMAIN out : out[i].k = "rdb"}
    IN  CASE srv[s].state = "connected" -> srv[s].data \o Stream(out)
          [] rdb # {} -> LET i == CHOOSE i \in rdb : TRUE
                         IN  out[i].file.data \o Stream(After(out, i))
          [] OTHER -> srv[s].data \o Stream(Tail(out))

(* A replica that its primary feeds will have exactly the dataset of its   *)
(* primary once it has read what is under way, however it was attached: by *)
(* a partial resynchronization under the first or the second ID, with a    *)
(* snapshot of its own or one shared with another replica, in a chain,     *)
(* after any changes of role and restarts of both.                         *)
ReplicaFollows ==
    \A s \in Server :
        conn[s] # None =>
            LET p == conn[s].to IN
            /\ conn[s].st = "online" => Outcome(s) = srv[p].data
            /\ conn[s].st = "end" =>
                    srv[p].child.data \o conn[s].pend = srv[p].data

(* The datasets that a replication ID and an offset stand for somewhere:   *)
(* in a server that would save or use them, and in an RDB file.            *)
Positions ==
    {[at |-> Pos(srv[s].id, srv[s].off), data |-> srv[s].data] :
        s \in {t \in Server : RdbPopulateSaveInfo(srv[t]) # None}}
    \cup {[at |-> disk[s].info, data |-> disk[s].data] :
        s \in {t \in Server : disk[t].info # None}}

(* A replication ID names one history: of two datasets known under the     *)
(* same ID the one with the smaller offset is a prefix of the other.       *)
OneHistoryPerId ==
    \A a, b \in Positions :
        a.at.id = b.at.id /\ a.at.off <= b.at.off => IsPrefix(a.data, b.data)

(* What the assertions of feedReplicationBuffer, of the proxied stream and *)
(* of freeReplicationBacklog rely on: no replicas without a backlog.       *)
BacklogForReplicas ==
    \A p \in Server : Replicas(conn, p) # {} => srv[p].backlog # None

(* A failover that was not forced loses no write: when the target takes    *)
(* over it has everything the old primary has.                             *)
FailoverLosesNothing ==
    [][\A p, t \in Server :
        /\ conn[p] # None /\ conn[p].to = t /\ conn[p].st = "psync"
        /\ conn[p].req.failover /\ srv[p].failover.kind # "force"
        /\ srv[t].host # None /\ srv'[t].host = None
        /\ conn'[p] # None /\ conn'[p].st # "psync"
        => IsPrefix(srv[p].data, srv'[t].data)]_vars

(* A replica of a primary that is not failing over ends up with its        *)
(* dataset, when commands and faults stop.                                 *)
ReplicasConverge ==
    \A s, p \in Server :
        <>[](/\ srv[s].host = p /\ srv[p].host = None
             /\ srv[p].failover.st = "none")
            => <>[](srv[s].state = "connected" /\ srv[s].data = srv[p].data)

(* A failover with a time limit ends, and writes are accepted again.       *)
FailoverEnds ==
    \A p \in Server :
        srv[p].failover.kind \in {"to", "force"} ~> srv[p].failover.st = "none"
====
