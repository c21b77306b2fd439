---------------------------- MODULE AppendOnlyFile ----------------------------
(***************************************************************************)
(* The append only file of aof.c: the buffer and its flush before every    *)
(* sleep of the event loop, the background fsync worker of bio.c, the      *)
(* rewrite by a forked child, the manifest that names the base and the     *)
(* incremental files, turning the AOF on and off at run time, and the      *)
(* start of the server from what a failure left on disk.                   *)
(*                                                                         *)
(* The main thread is one process; `pc' is the system call it is about to  *)
(* make, so that a failure may fall between any two of them.  A write is a *)
(* number and the dataset is the sequence of the writes executed; its      *)
(* length stands for server.primary_repl_offset.                           *)
(***************************************************************************)
EXTENDS Integers, Sequences, FiniteSets, SequencesExt

CONSTANTS
    Modes,         \* scenarios: [policy, failure, ops, faults], see ModeType
    Inodes,        \* files the disk can hold, a bound: no step fills it
    MaxWrites, MaxOps, MaxFaults, MaxCrashes, \* bounds of a behaviour
    None

VARIABLES
    mode,          \* the scenario of this behaviour
    data,          \* the dataset, as the sequence of its writes
    buf,           \* server.aof_buf
    st,            \* server.aof_state: "on", "wait" or "off"
    fd,            \* the file behind server.aof_fd, None for -1
    am,            \* server.aof_manifest
    tm,            \* temp_am, the manifest a handler is preparing
    dirs,          \* the states of the directory since it was last synced
    cont, synced,  \* the contents of every file, how much of it is on disk
    bio,           \* the queue of the AOF worker of bio.c
    child,         \* the rewriting child: None or [st, snap]
    pc, ret,       \* next step of the main thread, what follows a flush
    fsoff,         \* server.aof_last_incr_fsync_offset
    pending,       \* server.fsynced_reploff_pending
    fsynced,       \* server.fsynced_reploff
    sched,         \* server.aof_rewrite_scheduled
    errs,          \* which of the two disk error states is set
    safe,          \* history: how many writes must survive a failure
    n, ops, faults, crashes      \* how much of each bound is used

file   == <<dirs, cont, synced>>
offs   == <<fsoff, pending, fsynced>>
bounds == <<ops, faults, crashes>>
vars   == <<mode, data, buf, st, fd, am, tm, dirs, cont, synced, bio, child,
            pc, ret, fsoff, pending, fsynced, sched, errs, safe, n, ops,
            faults, crashes>>

Temp    == <<"temp", 0>>
Base(k) == <<"base", k>>
Incr(k) == <<"incr", k>>

Policies == {"always", "everysec", "no"}
FaultSet == {"write", "fsync", "open", "manifest", "dirsync", "rename",
             "fork", "child"}
OpSet    == {"rewrite", "offrewrite", "toggle", "shutdown"}
ModeType == [policy : Policies, failure : {"process", "power"},
             ops : SUBSET OpSet, faults : SUBSET FaultSet]

ASSUME ModesAssumption == Modes \subseteq ModeType
ASSUME BoundsAssumption ==
    /\ MaxWrites \in Nat /\ MaxOps \in Nat
    /\ MaxFaults \in Nat /\ MaxCrashes \in Nat

ChildType == [st : {"run", "ok", "failed"}, snap : Seq(1 .. MaxWrites)]

ASSUME NoneAssumption == None \notin Inodes /\ None \notin ChildType

(* The scenarios in which the AOF keeps its promise.  The four others are  *)
(* the observations of the README: a rewrite while the AOF is off, a       *)
(* failing sync of the directory, a failing write before a fork, and a     *)
(* loss of power under a policy that does not wait for fsync.              *)
IsSturdy(m) ==
    /\ "dirsync" \notin m.faults
    /\ "offrewrite" \notin m.ops
    /\ m.failure = "power" => m.policy = "always"
    /\ "write" \in m.faults => "rewrite" \notin m.ops

Sturdy == \A m \in Modes : IsSturdy(m)

NoManifest == [base |-> 0, incr |-> <<>>, hist |-> {}]

-------------------------------------------------------------------------------
(* Files and the directory.  A file is created, renamed or unlinked in the *)
(* directory the process sees, Dir; these changes reach the disk in order, *)
(* and all of them have when the directory is synced.                      *)

Dir     == Last(dirs)
Size(f) == IF f = None THEN 0 ELSE Len(cont[f])
Used    == {fd} \cup {bio[i].ino : i \in DOMAIN bio}
                \cup UNION {Range(dirs[i].ent) : i \in DOMAIN dirs}
Free     == Inodes \ Used
NewInode == CHOOSE i \in Free : TRUE

Link(e, f, i) == [x \in DOMAIN e \cup {f} |-> IF x = f THEN i ELSE e[x]]
Unlink(e, S)  == [x \in DOMAIN e \ S |-> e[x]]

Change(e) == dirs' = Append(dirs, [Dir EXCEPT !.ent = e])

(* A file with these contents, all of them on disk, or none.               *)
Create(i, c, s) ==
    /\ cont' = [cont EXCEPT ![i] = c]
    /\ synced' = [synced EXCEPT ![i] = s]

OnDisk(m) == [base |-> m.base, incr |-> m.incr, hist |-> m.hist]

(* Mutant: the directory is not synced after the rename.                   *)
PersistWithoutDirSync(m) == dirs' = Append(dirs, [Dir EXCEPT !.m = OnDisk(m)])

(* The manifest is written to a temporary file, renamed over the old one,  *)
(* and the directory is synced.                                            *)
PersistAofManifest(m) == dirs' = <<[Dir EXCEPT !.m = OnDisk(m)]>>

(* The manifest is in place and the directory could not be synced.         *)
PersistUnsynced(m) == dirs' = Append(dirs, [Dir EXCEPT !.m = OnDisk(m)])

Fault(f) == f \in mode.faults /\ faults < MaxFaults /\ faults' = faults + 1
NoFault  == UNCHANGED faults

-------------------------------------------------------------------------------
(* Manifests.                                                              *)

GetNewIncrAofName(m) ==
    [m EXCEPT !.incr = Append(@, m.iseq + 1), !.iseq = @ + 1]

GetNewBaseFileNameAndMarkPreAsHistory(m) ==
    [m EXCEPT !.base = @ + 1,
              !.hist = @ \cup (IF m.base = 0 THEN {} ELSE {Base(m.base)})]

(* Mutant: the file being written becomes history too.                     *)
MarkEveryIncrAsHistory(m) ==
    [m EXCEPT !.incr = <<>>, !.hist = @ \cup {Incr(k) : k \in Range(m.incr)}]

(* Every incremental file but the one being written becomes history.       *)
MarkRewrittenIncrAofAsHistory(m) ==
    LET keep == IF fd # None /\ m.incr # <<>> THEN <<Last(m.incr)>> ELSE <<>>
    IN  [m EXCEPT !.incr = keep,
                  !.hist = @ \cup {Incr(k) : k \in Range(m.incr) \ Range(keep)}]

AofLoadManifestFromDisk(m) ==
    [base |-> m.base, incr |-> m.incr, hist |-> m.hist,
     iseq |-> IF m.incr = <<>> THEN 0 ELSE Last(m.incr)]

-------------------------------------------------------------------------------
(* A write command: buffered while the AOF is on, and while the first      *)
(* rewrite of an AOF being turned on runs; refused after a disk error      *)
(* unless the AOF is off.                                                  *)
FeedAppendOnlyFile ==
    /\ pc = "loop" /\ n < MaxWrites /\ (st = "off" \/ errs = {})
    /\ n' = n + 1
    /\ data' = Append(data, n + 1)
    /\ buf' = IF st = "on" \/ (st = "wait" /\ child # None)
              THEN Append(buf, n + 1) ELSE buf
    /\ UNCHANGED <<mode, st, fd, am, tm, file, bio, child, pc, ret, offs,
                   sched, errs, safe, bounds>>

(* beforeSleep() flushes, then sends the replies.                          *)
BeforeSleep ==
    /\ pc = "loop"
    /\ pc' = IF st = "off" THEN "reply" ELSE "flush"
    /\ ret' = "reply"
    /\ UNCHANGED <<mode, data, buf, st, fd, am, tm, file, bio, child, offs,
                   sched, errs, safe, n, bounds>>

AofFsyncInProgress == \E i \in DOMAIN bio : bio[i].type = "fsync"

(* flushAppendOnlyFile() with nothing to write: fsync what was written     *)
(* before, or else take everything to be synced.  `late' is whether a      *)
(* second has passed since the last fsync.                                 *)
FlushEmpty(late) ==
    LET due   == fsoff # Size(fd)
        fsync == \/ mode.policy = "always" /\ due
                 \/ mode.policy = "everysec" /\ due /\ late /\ ~AofFsyncInProgress
        busy  == mode.policy = "everysec" /\ due /\ late /\ AofFsyncInProgress
    IN  /\ pc = "flush" /\ buf = <<>>
        /\ pc' = IF fsync THEN "sync" ELSE ret
        /\ pending' = IF fsync \/ busy \/ mode.policy = "no"
                      THEN pending ELSE Len(data)
        /\ UNCHANGED <<mode, data, buf, st, fd, am, tm, file, bio, child, ret,
                       fsoff, fsynced, sched, errs, safe, n, bounds>>

(* Mutant: the error state outlives the error.                             *)
FlushWriteKeepsError ==
    /\ pc = "flush" /\ buf # <<>>
    /\ cont' = [cont EXCEPT ![fd] = @ \o buf]
    /\ buf' = <<>>
    /\ pc' = "sync"
    /\ safe' = IF st = "on" /\ mode.policy # "always" THEN Len(data) ELSE safe
    /\ UNCHANGED <<mode, data, st, fd, am, tm, dirs, synced, bio, child, ret,
                   offs, sched, errs, n, bounds>>

(* The write is put off while a background fsync runs, unless forced.      *)
FlushPostpone ==
    /\ pc = "flush" /\ buf # <<>> /\ ret = "reply"
    /\ mode.policy = "everysec" /\ AofFsyncInProgress
    /\ pc' = ret
    /\ UNCHANGED <<mode, data, buf, st, fd, am, tm, file, bio, child, ret,
                   offs, sched, errs, safe, n, bounds>>

FlushWrite ==
    /\ pc = "flush" /\ buf # <<>>
    /\ cont' = [cont EXCEPT ![fd] = @ \o buf]
    /\ buf' = <<>>
    /\ errs' = errs \ {"write"}
    /\ pc' = "sync"
    /\ safe' = IF st = "on" /\ mode.policy # "always" THEN Len(data) ELSE safe
    /\ UNCHANGED <<mode, data, st, fd, am, tm, dirs, synced, bio, child, ret,
                   offs, sched, n, bounds>>

(* A failing write leaves the buffer and stops the writes; with the policy *)
(* always the server exits.                                                *)
FlushError ==
    /\ pc = "flush" /\ buf # <<>> /\ mode.policy # "always"
    /\ Fault("write")
    /\ errs' = errs \cup {"write"}
    /\ pc' = ret
    /\ UNCHANGED <<mode, data, buf, st, fd, am, tm, file, bio, child, ret,
                   offs, sched, safe, n, ops, crashes>>

(* try_fsync.                                                              *)
FsyncAlways ==
    /\ pc = "sync" /\ mode.policy = "always"
    /\ synced' = [synced EXCEPT ![fd] = Len(cont[fd])]
    /\ fsoff' = Size(fd)
    /\ pending' = Len(data)
    /\ pc' = ret
    /\ UNCHANGED <<mode, data, buf, st, fd, am, tm, dirs, cont, bio, child,
                   ret, fsynced, sched, errs, safe, n, bounds>>

FsyncInBackground(late) ==
    /\ pc = "sync" /\ mode.policy # "always"
    /\ pc' = ret
    /\ IF mode.policy = "everysec" /\ late /\ ~AofFsyncInProgress
       THEN /\ bio' = Append(bio, [type |-> "fsync", ino |-> fd, off |-> Len(data)])
            /\ fsoff' = Size(fd)
       ELSE UNCHANGED <<bio, fsoff>>
    /\ UNCHANGED <<mode, data, buf, st, fd, am, tm, file, child, ret, pending,
                   fsynced, sched, errs, safe, n, bounds>>

(* handleClientsWithPendingWrites(), and the offset WAITAOF may report.    *)
Reply ==
    /\ pc = "reply"
    /\ pc' = "loop"
    /\ fsynced' = IF st = "on" /\ fsynced # -1 THEN pending ELSE fsynced
    /\ safe' = IF st = "on" /\ mode.policy = "always" THEN Len(data) ELSE safe
    /\ UNCHANGED <<mode, data, buf, st, fd, am, tm, file, bio, child, ret,
                   fsoff, pending, sched, errs, n, bounds>>

(* One job of the AOF worker: fsync, then publish the job's offset.        *)
BioProcessBackgroundJob ==
    /\ bio # <<>> /\ pc \notin {"down", "refused"}
    /\ bio' = Tail(bio)
    /\ \/ /\ NoFault
          /\ synced' = [synced EXCEPT ![Head(bio).ino] = Len(cont[Head(bio).ino])]
          /\ pending' = Head(bio).off
          /\ errs' = errs \ {"fsync"}
       \/ /\ Fault("fsync")
          /\ errs' = errs \cup {"fsync"}
          /\ UNCHANGED <<synced, pending>>
    /\ UNCHANGED <<mode, data, buf, st, fd, am, tm, dirs, cont, child, pc, ret,
                   fsoff, fsynced, sched, safe, n, ops, crashes>>

-------------------------------------------------------------------------------
(* Starting a rewrite.  rewriteAppendOnlyFileBackground() flushes, opens a *)
(* new incremental file and forks.                                         *)

(* BGREWRITEAOF, or the growth test of serverCron(); while another child   *)
(* runs (an RDB child is not modelled: `busy') it is only scheduled.       *)
BgrewriteaofCommand(busy) ==
    /\ pc = "loop" /\ child = None /\ ops < MaxOps
    /\ IF st = "off" THEN "offrewrite" \in mode.ops ELSE "rewrite" \in mode.ops
    /\ ops' = ops + 1
    /\ IF busy THEN sched' = TRUE /\ UNCHANGED <<pc, ret>>
               ELSE pc' = "flush" /\ ret' = "open" /\ UNCHANGED sched
    /\ UNCHANGED <<mode, data, buf, st, fd, am, tm, file, bio, child, offs,
                   errs, safe, n, faults, crashes>>

ScheduledRewrite ==
    /\ pc = "loop" /\ child = None /\ sched
    /\ pc' = "flush" /\ ret' = "open"
    /\ UNCHANGED <<mode, data, buf, st, fd, am, tm, file, bio, child, offs,
                   sched, errs, safe, n, bounds>>

(* The rewrite did not start; if startAppendOnly() asked for it, the AOF   *)
(* stays off.                                                              *)
RewriteRefused ==
    /\ pc' = "loop" /\ ret' = "reply" /\ tm' = None
    /\ st' = IF ret = "start" THEN "off" ELSE st

(* The new file takes the place of the old one, which the AOF worker syncs *)
(* and closes.                                                             *)
SwapAofFd(new) ==
    /\ fd' = new
    /\ fsoff' = 0
    /\ bio' = IF fd = None THEN bio
              ELSE Append(bio, [type |-> "close", ino |-> fd, off |-> Len(data)])

(* openNewIncrAofForAppend(): nothing when the AOF is off; a temporary     *)
(* file, not in the manifest, while it waits for its first rewrite; and    *)
(* otherwise the next incremental file.                                    *)
OpenNewIncrAofForAppend ==
    /\ pc \in {"open", "start"}
    /\ \/ /\ st = "off" /\ pc' = "fork" /\ NoFault
          /\ UNCHANGED <<st, fd, ret, tm, file, bio, fsoff>>
       \/ /\ st = "wait" /\ pc' = "drain" /\ NoFault /\ Free # {}
          /\ Change(Link(Dir.ent, Temp, NewInode))
          /\ Create(NewInode, <<>>, 0)
          /\ SwapAofFd(NewInode)
          /\ UNCHANGED <<st, ret, tm>>
       \/ /\ st = "on" /\ pc' = "openp" /\ NoFault /\ Free # {}
          /\ tm' = GetNewIncrAofName(am)
          /\ Change(Link(Dir.ent, Incr(tm'.iseq), NewInode))
          /\ Create(NewInode, <<>>, 0)
          /\ UNCHANGED <<st, fd, ret, bio, fsoff>>
       \/ /\ st # "off" /\ Fault("open")
          /\ RewriteRefused
          /\ UNCHANGED <<fd, file, bio, fsoff>>
    /\ UNCHANGED <<mode, data, buf, am, child, pending, fsynced, sched, errs,
                   safe, n, ops, crashes>>

(* The manifest with the new file is persisted before the file is used.    *)
PersistNewIncr ==
    /\ pc = "openp"
    /\ \/ /\ NoFault /\ PersistAofManifest(tm)
          /\ SwapAofFd(Dir.ent[Incr(tm.iseq)])
          /\ am' = tm /\ tm' = None
          /\ pc' = "fork" /\ UNCHANGED <<st, ret>>
       \/ /\ Fault("manifest") /\ RewriteRefused
          /\ UNCHANGED <<dirs, fd, bio, fsoff, am>>
       \/ /\ Fault("dirsync") /\ PersistUnsynced(tm) /\ RewriteRefused
          /\ UNCHANGED <<fd, bio, fsoff, am>>
    /\ UNCHANGED <<mode, data, buf, cont, synced, child, pending, fsynced,
                   sched, errs, safe, n, ops, crashes>>

(* An AOF being turned on waits for the fsync jobs of the previous one and *)
(* restarts the offsets.                                                   *)
DrainBioFsync ==
    /\ pc = "drain" /\ ~AofFsyncInProgress
    /\ pending' = Len(data) /\ fsynced' = 0
    /\ pc' = "fork"
    /\ UNCHANGED <<mode, data, buf, st, fd, am, tm, file, bio, child, ret,
                   fsoff, sched, errs, safe, n, bounds>>

(* The child's snapshot is the dataset at the fork.                        *)
Fork ==
    /\ pc = "fork"
    /\ \/ /\ NoFault
          /\ child' = [st |-> "run", snap |-> data]
          /\ sched' = FALSE
          /\ errs' = IF ret = "start" THEN {} ELSE errs
          /\ pc' = "loop" /\ ret' = "reply" /\ UNCHANGED <<st, tm>>
       \/ /\ Fault("fork") /\ RewriteRefused
          /\ UNCHANGED <<child, sched, errs>>
    /\ UNCHANGED <<mode, data, buf, fd, am, file, bio, offs, safe, n, ops,
                   crashes>>

-------------------------------------------------------------------------------
(* The end of a rewrite: backgroundRewriteDoneHandler().                   *)

ChildExits ==
    /\ child # None /\ child.st = "run" /\ pc \notin {"down", "refused"}
    /\ \/ NoFault /\ child' = [child EXCEPT !.st = "ok"]
       \/ Fault("child") /\ child' = [child EXCEPT !.st = "failed"]
    /\ UNCHANGED <<mode, data, buf, st, fd, am, tm, file, bio, pc, ret, offs,
                   sched, errs, safe, n, ops, crashes>>

(* Mutant: no other rewrite is scheduled.                                  *)
CleanupWithoutRetry(S) ==
    /\ pc' = "loop" /\ tm' = None
    /\ child' = None
    /\ UNCHANGED sched
    /\ IF st = "wait"
       THEN buf' = <<>> /\ Change(Unlink(Dir.ent, S \cup {Temp}))
       ELSE /\ UNCHANGED buf
            /\ IF S = {} THEN UNCHANGED dirs ELSE Change(Unlink(Dir.ent, S))

(* The cleanup label: an AOF still waiting for its first rewrite forgets   *)
(* what it buffered and schedules another one.  `S' are files the handler  *)
(* unlinks first.                                                          *)
Cleanup(S) ==
    /\ pc' = "loop" /\ tm' = None
    /\ child' = None
    /\ IF st = "wait"
       THEN buf' = <<>> /\ sched' = TRUE /\ Change(Unlink(Dir.ent, S \cup {Temp}))
       ELSE /\ UNCHANGED <<buf, sched>>
            /\ IF S = {} THEN UNCHANGED dirs ELSE Change(Unlink(Dir.ent, S))

(* Mutant: the old base file goes before the manifest is persisted.        *)
RenameBaseOverOld ==
    /\ pc = "rename"
    /\ NoFault
    /\ tm' = GetNewBaseFileNameAndMarkPreAsHistory(am)
    /\ Change(Link(Unlink(Dir.ent, {Base(am.base)}), Base(tm'.base), NewInode))
    /\ Create(NewInode, child.snap, Len(child.snap))
    /\ pc' = IF st = "wait" THEN "rename2" ELSE "persist"
    /\ UNCHANGED <<mode, data, buf, st, fd, am, bio, child, ret, offs, sched,
                   errs, safe, n, ops, crashes>>

ReapChild ==
    /\ pc = "loop" /\ child # None /\ child.st # "run"
    /\ IF child.st = "ok"
       THEN pc' = "rename" /\ UNCHANGED <<buf, tm, dirs, child, sched>>
       ELSE Cleanup({})
    /\ UNCHANGED <<mode, data, st, fd, am, cont, synced, bio, ret, offs,
                   errs, safe, n, bounds>>

RenameBase ==
    /\ pc = "rename"
    /\ \/ /\ NoFault /\ Free # {}
          /\ tm' = GetNewBaseFileNameAndMarkPreAsHistory(am)
          /\ Change(Link(Dir.ent, Base(tm'.base), NewInode))
          /\ Create(NewInode, child.snap, Len(child.snap))
          /\ pc' = IF st = "wait" THEN "rename2" ELSE "persist"
          /\ UNCHANGED <<buf, child, sched>>
       \/ /\ Fault("rename") /\ Cleanup({})
          /\ UNCHANGED <<cont, synced>>
    /\ UNCHANGED <<mode, data, st, fd, am, bio, ret, offs, errs, safe, n, ops,
                   crashes>>

(* The temporary incremental file gets its name.                           *)
RenameIncr ==
    /\ pc = "rename2"
    /\ \/ /\ NoFault
          /\ tm' = GetNewIncrAofName(tm)
          /\ Change(Link(Unlink(Dir.ent, {Temp}), Incr(tm'.iseq), Dir.ent[Temp]))
          /\ pc' = "persist"
          /\ UNCHANGED <<buf, child, sched>>
       \/ /\ Fault("rename") /\ Cleanup({Base(tm.base)})
    /\ UNCHANGED <<mode, data, st, fd, am, cont, synced, bio, ret, offs, errs,
                   safe, n, ops, crashes>>

(* When the manifest cannot be persisted the new files are unlinked.       *)
NewFiles == {Base(tm.base)} \cup (IF st = "wait" THEN {Incr(tm.iseq)} ELSE {})

PersistRewrite ==
    /\ pc = "persist"
    /\ LET m == MarkRewrittenIncrAofAsHistory(tm)
       IN  \/ /\ NoFault /\ PersistAofManifest(m)
              /\ am' = m /\ tm' = None
              /\ pc' = "hist"
              /\ UNCHANGED <<buf, child, sched>>
           \/ /\ Fault("manifest") /\ Cleanup(NewFiles)
              /\ UNCHANGED am
           \/ /\ Fault("dirsync")
              /\ pc' = "loop" /\ child' = None /\ tm' = None
              /\ dirs' = dirs \o
                    <<[Dir EXCEPT !.m = OnDisk(m)],
                      [Dir EXCEPT !.m = OnDisk(m), !.ent = Unlink(@, NewFiles)]>>
              /\ buf' = IF st = "wait" THEN <<>> ELSE buf
              /\ sched' = (sched \/ st = "wait")
              /\ UNCHANGED am
    /\ UNCHANGED <<mode, data, st, fd, cont, synced, bio, ret, offs, errs, safe,
                   n, ops, crashes>>

(* aofDelHistoryFiles(): the files are unlinked, then the manifest is      *)
(* persisted without them.                                                 *)
DelHistoryFiles ==
    /\ pc = "hist"
    /\ pc' = "histp"
    /\ IF am.hist = {} THEN UNCHANGED <<dirs, am>>
       ELSE Change(Unlink(Dir.ent, am.hist)) /\ am' = [am EXCEPT !.hist = {}]
    /\ UNCHANGED <<mode, data, buf, st, fd, tm, cont, synced, bio, child, ret,
                   offs, sched, errs, safe, n, bounds>>

(* The outcome is ignored.  An AOF waiting for this rewrite is now on.     *)
RewriteDone ==
    /\ pc = "histp"
    /\ \/ NoFault /\ IF Dir.m = OnDisk(am) THEN UNCHANGED dirs
                                           ELSE PersistAofManifest(am)
       \/ Fault("manifest") /\ UNCHANGED dirs
    /\ pc' = "loop" /\ child' = None
    /\ IF st = "wait"
       THEN st' = "on" /\ fsynced' = pending /\ safe' = Len(data) - Len(buf)
       ELSE UNCHANGED <<st, fsynced, safe>>
    /\ UNCHANGED <<mode, data, buf, fd, am, tm, cont, synced, bio, ret, fsoff,
                   pending, sched, errs, n, ops, crashes>>

-------------------------------------------------------------------------------
(* CONFIG SET appendonly.                                                  *)

(* A running rewrite is killed.  While another child runs (`busy') the     *)
(* first rewrite is only scheduled.                                        *)
StartAppendOnly(busy) ==
    /\ pc = "loop" /\ st = "off" /\ ops < MaxOps /\ "toggle" \in mode.ops
    /\ busy => child = None
    /\ ops' = ops + 1
    /\ st' = "wait"
    /\ child' = None
    /\ IF busy THEN sched' = TRUE /\ errs' = {} /\ UNCHANGED <<pc, ret>>
       ELSE pc' = "flush" /\ ret' = "start" /\ UNCHANGED <<sched, errs>>
    /\ UNCHANGED <<mode, data, buf, fd, am, tm, file, bio, offs, safe, n,
                   faults, crashes>>

(* What stopAppendOnly() and the exit do to the file after the flush.      *)
FsyncAndClose ==
    synced' = IF fd = None THEN synced ELSE [synced EXCEPT ![fd] = Len(cont[fd])]

StopAppendOnly ==
    /\ pc = "loop" /\ st # "off" /\ ops < MaxOps /\ "toggle" \in mode.ops
    /\ ops' = ops + 1
    /\ pc' = IF fd = None THEN "stop" ELSE "flush"
    /\ ret' = "stop"
    /\ UNCHANGED <<mode, data, buf, st, fd, am, tm, file, bio, child, offs,
                   sched, errs, safe, n, faults, crashes>>

AppendOnlyStopped ==
    /\ pc = "stop"
    /\ FsyncAndClose
    /\ fd' = None /\ st' = "off" /\ sched' = FALSE
    /\ fsoff' = 0 /\ fsynced' = -1 /\ pending' = 0
    /\ child' = None /\ buf' = <<>>
    /\ safe' = 0
    /\ pc' = "loop" /\ ret' = "reply"
    /\ UNCHANGED <<mode, data, am, tm, dirs, cont, bio, errs, n, bounds>>

-------------------------------------------------------------------------------
(* Exit, failure and restart.                                              *)

(* SHUTDOWN is refused while the first rewrite runs, and kills any other.  *)
PrepareForShutdown ==
    /\ pc = "loop" /\ ops < MaxOps /\ "shutdown" \in mode.ops
    /\ ~(st = "wait" /\ child # None)
    /\ ops' = ops + 1
    /\ child' = None
    /\ pc' = IF st = "off" THEN "exit" ELSE "flush"
    /\ ret' = "exit"
    /\ UNCHANGED <<mode, data, buf, st, fd, am, tm, file, bio, offs, sched,
                   errs, safe, n, faults, crashes>>

(* Everything in memory is gone.                                           *)
Terminate ==
    /\ pc' = "down"
    /\ buf' = <<>> /\ bio' = <<>> /\ child' = None /\ fd' = None
    /\ errs' = {} /\ sched' = FALSE
    /\ pending' = 0 /\ fsoff' = 0 /\ tm' = None /\ ret' = "reply"

Exit ==
    /\ pc = "exit"
    /\ FsyncAndClose
    /\ safe' = IF st = "on" /\ buf = <<>> THEN Len(data) ELSE safe
    /\ Terminate
    /\ UNCHANGED <<mode, data, st, am, dirs, cont, fsynced, n, bounds>>

Torn == 0
Cut(c, k, torn) == SubSeq(c, 1, k) \o (IF torn THEN <<Torn>> ELSE <<>>)

(* What a power failure may leave of a file: all that was synced, and any  *)
(* part of the rest, the last write of it perhaps cut short.               *)
Survivals(i) ==
    {Cut(cont[i], k, FALSE) : k \in synced[i] .. Len(cont[i])}
    \cup {Cut(cont[i], k, TRUE) : k \in synced[i] .. Len(cont[i]) - 1}

(* The process dies and what it wrote remains, or the machine loses power. *)
Crash ==
    /\ pc \notin {"down", "refused"} /\ crashes < MaxCrashes
    /\ crashes' = crashes + 1
    /\ Terminate
    /\ IF mode.failure = "process"
       THEN dirs' = <<Dir>> /\ UNCHANGED <<cont, synced>>
       ELSE \E d \in Range(dirs) :
            \E left \in [Range(d.ent) -> UNION {Survivals(i) : i \in Range(d.ent)}] :
               /\ \A i \in Range(d.ent) : left[i] \in Survivals(i)
               /\ dirs' = <<d>>
               /\ cont' = [i \in Inodes |-> IF i \in Range(d.ent) THEN left[i] ELSE <<>>]
               /\ synced' = [i \in Inodes |-> Len(cont'[i])]
    /\ UNCHANGED <<mode, data, st, am, fsynced, safe, n, ops, faults>>

(* The files of a manifest in the order they are loaded.                   *)
LoadOrder(m) ==
    (IF m.base = 0 THEN <<>> ELSE <<Base(m.base)>>)
    \o [i \in DOMAIN m.incr |-> Incr(m.incr[i])]

IsTorn(c) == c # <<>> /\ Last(c) = Torn
Whole(c)  == IF IsTorn(c) THEN Front(c) ELSE c

(* loadAppendOnlyFiles(): a file that is missing, or cut short and not the *)
(* last, is fatal; the last one is truncated to its whole commands.        *)
Loadable(d, c) ==
    LET fs == LoadOrder(d.m)
    IN  /\ Range(fs) \subseteq DOMAIN d.ent
        /\ \A k \in 1 .. Len(fs) - 1 : ~IsTorn(c[d.ent[fs[k]]])

Loaded(d, c) ==
    LET fs == LoadOrder(d.m)
    IN  FlattenSeq([k \in DOMAIN fs |-> Whole(c[d.ent[fs[k]]])])

LoadAppendOnlyFiles ==
    /\ pc = "down"
    /\ IF Loadable(Dir, cont)
       THEN /\ data' = Loaded(Dir, cont)
            /\ am' = AofLoadManifestFromDisk(Dir.m)
            /\ cont' = [i \in Inodes |-> Whole(cont[i])]
            /\ synced' = [i \in Inodes |-> IF Whole(cont[i]) = cont[i]
                                           THEN synced[i] ELSE Len(cont'[i])]
            /\ st' = "on" /\ fsynced' = 0
            /\ pc' = "boot"
       ELSE pc' = "refused" /\ UNCHANGED <<data, am, cont, synced, st, fsynced>>
    /\ UNCHANGED <<mode, buf, fd, tm, dirs, bio, child, ret, fsoff, pending,
                   sched, errs, safe, n, bounds>>

(* aofOpenIfNeededOnServerStart(): the first start creates a base file;    *)
(* the last incremental file is opened for append, or a new one created.   *)
OpenOnServerStart ==
    /\ pc = "boot"
    /\ LET first == am.base = 0 /\ am.incr = <<>>
           m1    == IF first THEN GetNewBaseFileNameAndMarkPreAsHistory(am) ELSE am
           m2    == IF m1.incr = <<>> THEN GetNewIncrAofName(m1) ELSE m1
           name  == Incr(Last(m2.incr))
           ib    == NewInode
           ii    == IF name \in DOMAIN Dir.ent THEN Dir.ent[name]
                    ELSE CHOOSE i \in Free \ {ib} : TRUE
           e1    == IF first THEN Link(Dir.ent, Base(m1.base), ib) ELSE Dir.ent
       IN  /\ Free # {} /\ Free # {ib}
           /\ am' = m2
           /\ fd' = ii
           /\ Change(Link(e1, name, ii))
           /\ cont' = [i \in Inodes |-> IF first /\ i = ib THEN data
                         ELSE IF i = ii /\ name \notin DOMAIN Dir.ent THEN <<>>
                         ELSE cont[i]]
           /\ synced' = [i \in Inodes |-> IF i = ib /\ first THEN Len(data)
                           ELSE IF i = ii /\ name \notin DOMAIN Dir.ent THEN 0
                           ELSE synced[i]]
           /\ fsoff' = Len(cont'[ii])
    /\ pc' = "bootp"
    /\ UNCHANGED <<mode, data, buf, st, tm, bio, child, ret, pending, fsynced,
                   sched, errs, safe, n, bounds>>

(* The manifest is persisted if it changed, then history is deleted.       *)
PersistOnServerStart ==
    /\ pc = "bootp"
    /\ pc' = "hist"
    /\ IF Dir.m = OnDisk(am) THEN UNCHANGED dirs ELSE PersistAofManifest(am)
    /\ UNCHANGED <<mode, data, buf, st, fd, am, tm, cont, synced, bio, child,
                   ret, offs, sched, errs, safe, n, bounds>>

-------------------------------------------------------------------------------
Init ==
    /\ mode \in Modes
    /\ data = <<>> /\ buf = <<>> /\ st = "on" /\ fd = None
    /\ am = AofLoadManifestFromDisk(NoManifest) /\ tm = None
    /\ dirs = <<[ent |-> <<>>, m |-> NoManifest]>>
    /\ cont = [i \in Inodes |-> <<>>] /\ synced = [i \in Inodes |-> 0]
    /\ bio = <<>> /\ child = None
    /\ pc = "down" /\ ret = "reply"
    /\ fsoff = 0 /\ pending = 0 /\ fsynced = 0
    /\ sched = FALSE /\ errs = {} /\ safe = 0
    /\ n = 0 /\ ops = 0 /\ faults = 0 /\ crashes = 0

Flush ==
    \/ \E late \in BOOLEAN : FlushEmpty(late) \/ FsyncInBackground(late)
    \/ FlushPostpone \/ FlushWrite \/ FlushError \/ FsyncAlways

Rewrite ==
    \/ OpenNewIncrAofForAppend \/ PersistNewIncr \/ DrainBioFsync \/ Fork
    \/ RenameBase \/ RenameIncr \/ PersistRewrite \/ DelHistoryFiles
    \/ RewriteDone

Restart == LoadAppendOnlyFiles \/ OpenOnServerStart \/ PersistOnServerStart

Next ==
    \/ FeedAppendOnlyFile \/ BeforeSleep \/ Flush \/ Reply
    \/ \E busy \in BOOLEAN : BgrewriteaofCommand(busy) \/ StartAppendOnly(busy)
    \/ ScheduledRewrite \/ Rewrite \/ ChildExits \/ ReapChild
    \/ StopAppendOnly \/ AppendOnlyStopped
    \/ PrepareForShutdown \/ Exit
    \/ BioProcessBackgroundJob
    \/ Crash \/ Restart

Spec == Init /\ [][Next]_vars

(* The main thread takes its next step, the event loop comes around and    *)
(* runs serverCron(), the child ends and the worker works.                 *)
Fairness ==
    /\ WF_vars(Flush) /\ WF_vars(Reply) /\ WF_vars(Rewrite) /\ WF_vars(Restart)
    /\ WF_vars(AppendOnlyStopped) /\ WF_vars(Exit)
    /\ WF_vars(BeforeSleep)
    /\ WF_vars(ChildExits) /\ WF_vars(BioProcessBackgroundJob)
    /\ SF_vars(ScheduledRewrite) /\ SF_vars(ReapChild)

FairSpec == Spec /\ Fairness

-------------------------------------------------------------------------------
PCs == {"loop", "flush", "sync", "reply", "open", "start", "openp", "drain",
        "fork", "rename", "rename2", "persist", "hist", "histp", "stop",
        "exit", "down", "refused", "boot", "bootp"}

TypeOK ==
    /\ mode \in Modes
    /\ data \in Seq(1 .. MaxWrites) /\ buf \in Seq(1 .. MaxWrites)
    /\ st \in {"on", "wait", "off"} /\ fd \in Inodes \cup {None}
    /\ cont \in [Inodes -> Seq(0 .. MaxWrites)]
    /\ synced \in [Inodes -> 0 .. MaxWrites]
    /\ \A i \in Inodes : synced[i] <= Len(cont[i])
    /\ \A i \in DOMAIN dirs : Range(dirs[i].ent) \subseteq Inodes
    /\ \A i \in DOMAIN bio :
          bio[i] \in [type : {"fsync", "close"}, ino : Inodes, off : 0 .. MaxWrites]
    /\ child # None => child \in ChildType
    /\ pc \in PCs /\ ret \in {"reply", "open", "start", "stop", "exit"}
    /\ fsoff \in 0 .. Size(fd) /\ pending \in 0 .. MaxWrites
    /\ fsynced \in -1 .. MaxWrites
    /\ sched \in BOOLEAN /\ errs \subseteq {"write", "fsync"}
    /\ safe \in 0 .. Len(data)

(* The server can always start from what a failure left on disk.           *)
NeverRefusesToStart == pc # "refused"

(* fsynced_reploff, which WAITAOF and the replicas' acknowledgements       *)
(* report, counts only writes that the failure considered cannot take back *)
(* whenever it happens.                                                    *)
FsyncedIsDurable ==
    st = "on" /\ pc \notin {"down", "refused"} =>
       \A i \in DOMAIN dirs :
          /\ Loadable(dirs[i], cont)
          /\ LET kept == [j \in Inodes |-> IF mode.failure = "process" THEN cont[j]
                                           ELSE SubSeq(cont[j], 1, synced[j])]
             IN  IsPrefix(SubSeq(data, 1, fsynced), Loaded(dirs[i], kept))

(* The AOF keeps the promise of DurableLog: replies (policy always) and    *)
(* write(2)s (everysec, no) are not taken back by the failure considered,  *)
(* and what is loaded is always a prefix of what was executed.             *)
Promise == INSTANCE DurableLog
              WITH Writes <- 1 .. MaxWrites, log <- data, safe <- safe,
                   on <- (st = "on")
ImplementsDurableLog == Promise!Spec

(* An AOF being turned on gets there, or is turned off again: a failed     *)
(* first rewrite is tried again.                                           *)
WaitEnds == (st = "wait") ~> (st # "wait")

(* A write error is noticed to have gone away: writes are accepted again.  *)
WritesResume == ("write" \in errs) ~> ("write" \notin errs)
===============================================================================
