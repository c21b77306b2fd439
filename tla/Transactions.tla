---------------------------- MODULE Transactions ----------------------------
(***************************************************************************)
(* MULTI / EXEC / DISCARD / WATCH / UNWATCH (src/multi.c) on one server,   *)
(* with the part of the keyspace (src/db.c, src/expire.c) that decides     *)
(* which watchers a command touches: physical presence, expiry times, lazy *)
(* and active expiry, overwriting, FLUSHDB, FLUSHALL, SWAPDB and the       *)
(* database swap at the end of a diskless full sync.                       *)
(*                                                                         *)
(* A key's value is a stamp: every command that writes the key stores a    *)
(* stamp never used before, so "the value changed" is visible as an        *)
(* inequality whatever the value's type.                                   *)
(***************************************************************************)
EXTENDS Integers, Sequences, FiniteSets

CONSTANTS
  Client,     \* connections of ordinary users
  Key,        \* key names
  DB,         \* database ids
  Role,       \* "primary", or "replica" (read-only, fed by its primary)
  MaxTime,    \* bound: last millisecond of the clock
  MaxStamp,   \* bound: number of writes
  MaxQueue,   \* bound: commands queued in one MULTI
  Commands,   \* the commands clients (and the primary link) may send
  LoadModes,  \* how a full sync replaces the dataset: "swap" and/or "reload"
  None        \* "no client is inside EXEC"

Op == {"set", "setpx", "expire", "persist", "del", "get",
       "flushdb", "flushall", "swapdb", "select", "unwatch"}

CommandType == [op : Op, key : Key, db : DB, when : 0..MaxTime]

ASSUME RoleAssumption     == Role \in {"primary", "replica"}
ASSUME BoundsAssumption   == MaxTime \in Nat /\ MaxStamp \in Nat /\ MaxQueue \in Nat
ASSUME CommandsAssumption == Commands \subseteq CommandType
ASSUME NoneAssumption     == None \notin Client
ASSUME DBAssumption       == 0 \in DB

Slot == DB \X Key                    \* a key name in a database
WriteOp == Op \ {"get", "select", "unwatch"}

VARIABLES
  now,        \* commandTimeSnapshot()
  dbs,        \* server.db[]: the entry physically stored for each name
  stamp,      \* stamps used so far
  cl,         \* the transaction state of each client
  in_exec,    \* the client whose EXEC is running, or None
  exec_pos,   \* commands of that EXEC already called
  moved,      \* history: a key this client watches changed since WATCH
  acked       \* history: commands this client was told are QUEUED

vars == <<now, dbs, stamp, cl, in_exec, exec_pos, moved, acked>>

-----------------------------------------------------------------------------
(* Entries of the keyspace.                                                *)

NoExpire == -1
NoEntry  == [stamp |-> 0, expire |-> NoExpire]
Entry    == {NoEntry} \cup [stamp : 1..MaxStamp, expire : NoExpire..MaxTime]

Present(e) == e.stamp # 0

\* timestampIsExpired, keyIsExpired
IsExpired(e, t) == e.expire # NoExpire /\ t > e.expire

\* What a reader of the key is entitled to see.
Logical(e, t) == IF IsExpired(e, t) THEN NoEntry ELSE e

-----------------------------------------------------------------------------
(* Client state.  `watched` is client->mstate->watched_keys; a name in     *)
(* `stale` has its watchedKey.expired flag set; `ahead[w]` holds the       *)
(* clients linked before this one in db->watched_keys[w].                  *)

ClientState == [multi : BOOLEAN, dirty_cas : BOOLEAN, dirty_exec : BOOLEAN,
                queue : Seq(Commands), db : DB,
                watched : SUBSET Slot, stale : SUBSET Slot,
                ahead : [Slot -> SUBSET Client]]

\* A new connection, and one after RESET, is on database 0.
InitialClient ==
  [multi |-> FALSE, dirty_cas |-> FALSE, dirty_exec |-> FALSE,
   queue |-> <<>>, db |-> 0, watched |-> {}, stale |-> {},
   ahead |-> [w \in Slot |-> {}]]

\* unwatchAllKeys for every client of D: the watchedKeys leave both lists.
UnwatchAll(s, D) ==
  [c \in Client |->
     IF c \in D
       THEN [s[c] EXCEPT !.watched = {}, !.stale = {},
                         !.ahead = [w \in Slot |-> {}]]
       ELSE [s[c] EXCEPT !.ahead = [w \in Slot |-> s[c].ahead[w] \ D]]]

Watchers(s, w) == {c \in Client : w \in s[c].watched}

\* touchWatchedKey(db, key), called after the change.  The walk over the list
\* stops at the first watcher whose name was stale when it was watched and is
\* physically present now: neither it nor the ones linked after it are flagged.
Reached(s, w, present) ==
  {c \in Watchers(s, w) :
     present => \A b \in s[c].ahead[w] \cup {c} : w \notin s[b].stale}

\* Mutant of TouchWatchedKey: the expired flag is not consulted.
TouchEveryWatcher(s, w, present) ==
  UnwatchAll([c \in Client |->
                IF w \in s[c].watched
                  THEN [s[c] EXCEPT !.dirty_cas = TRUE, !.queue = <<>>] ELSE s[c]],
             Watchers(s, w))

TouchWatchedKey(s, w, present) ==
  LET reached == Reached(s, w, present)
      dirtied == {c \in reached : w \notin s[c].stale}
      flagged == [c \in Client |->
                    IF c \in dirtied
                      THEN [s[c] EXCEPT !.dirty_cas = TRUE, !.queue = <<>>]
                    ELSE IF c \in reached
                      THEN [s[c] EXCEPT !.stale = @ \ {w}]
                    ELSE s[c]]
  IN  UnwatchAll(flagged, dirtied)

\* Mutants of TouchAllInDbs: only the names about to disappear are looked at,
\* or every watcher of the database is flagged.
DirtyIf(s, C) ==
  [c \in Client |-> IF c \in C THEN [s[c] EXCEPT !.dirty_cas = TRUE, !.queue = <<>>]
                                ELSE s[c]]

TouchOldNames(s, D, old, new, t) ==
  DirtyIf(s, {c \in Client : \E w \in s[c].watched \ s[c].stale :
                                  w[1] \in D /\ Present(old[w[1]][w[2]])})

\* touchAllWatchedKeysInDb for every database of D, which goes from the
\* contents old[d] to the contents new[d] (all NoEntry for a flush).  A name
\* stale when watched may stay stale or be cleaned up; a name that did not
\* exist may become stale; any other watched name that exists before or after
\* makes its watcher dirty, without unlinking it.
TouchAllInDbs(s, D, old, new, t) ==
  LET Before(w)  == old[w[1]][w[2]]
      After(w)   == new[w[1]][w[2]]
      Hit(c)     == {w \in s[c].watched :
                       w[1] \in D /\ (Present(Before(w)) \/ Present(After(w)))}
      Cleared(c) == {w \in Hit(c) : w \in s[c].stale /\ ~Present(After(w))}
      Stale(c)   == {w \in Hit(c) : /\ w \in s[c].stale \/ ~Present(Before(w))
                                    /\ IsExpired(After(w), t)}
      Dirty(c)   == Hit(c) \ (Cleared(c) \cup Stale(c)) # {}
  IN  [c \in Client |->
         [s[c] EXCEPT !.stale     = (@ \ Cleared(c)) \cup Stale(c),
                      !.dirty_cas = @ \/ Dirty(c),
                      !.queue     = IF Dirty(c) THEN <<>> ELSE @]]

-----------------------------------------------------------------------------
(* The keyspace operations a command is made of.  `st` carries the         *)
(* databases, the client states and the stamp counter through one command. *)

State == [dbs |-> dbs, cl |-> cl, stamp |-> stamp]

At(st, w) == st.dbs[w[1]][w[2]]

Put(st, w, e) ==
  [st EXCEPT !.dbs[w[1]][w[2]] = e,
             !.cl = TouchWatchedKey(st.cl, w, Present(e))]

\* expireIfNeeded.  `link` is TRUE for the client of our own primary, for which
\* keys never expire; on a replica other clients leave expired keys in place.
Deletes(link) == Role = "primary" /\ ~link

ExpireIfNeeded(st, w, link) ==
  IF Deletes(link) /\ IsExpired(At(st, w), now) THEN Put(st, w, NoEntry) ELSE st

\* lookupKey: the entry a command works on.
Lookup(st, w, link) ==
  IF link THEN At(st, w) ELSE Logical(At(st, w), now)

\* checkAlreadyExpired
AlreadyExpired(when) == Role = "primary" /\ when <= now

Write(st, w, expire) ==
  [Put(st, w, [stamp |-> st.stamp + 1, expire |-> expire])
     EXCEPT !.stamp = st.stamp + 1]

SetCommand(st0, w, link) == Write(ExpireIfNeeded(st0, w, link), w, NoExpire)

\* Mutant of SetPxCommand: an absolute time is taken for a relative one.
SetPxRelative(st0, w, when, link) ==
  Write(ExpireIfNeeded(st0, w, link), w, now + when)

SetPxCommand(st0, w, when, link) ==
  LET st == ExpireIfNeeded(st0, w, link)
  IN  IF ~AlreadyExpired(when) THEN Write(st, w, when)
      ELSE IF Present(Lookup(st, w, link)) THEN Put(st, w, NoEntry)
      ELSE st

ExpireCommand(st0, w, when, link) ==
  LET st == ExpireIfNeeded(st0, w, link)
  IN  IF ~Present(Lookup(st, w, link)) THEN st
      ELSE IF AlreadyExpired(when) THEN Put(st, w, NoEntry)
      ELSE Write(st, w, when)

PersistCommand(st0, w, link) ==
  LET st == ExpireIfNeeded(st0, w, link)
      e  == Lookup(st, w, link)
  IN  IF Present(e) /\ e.expire # NoExpire THEN Write(st, w, NoExpire) ELSE st

\* delGenericCommand: a key expireIfNeeded deletes is not deleted twice.
DelCommand(st, w, link) ==
  IF Deletes(link) /\ IsExpired(At(st, w), now) THEN ExpireIfNeeded(st, w, link)
  ELSE IF Present(At(st, w)) THEN Put(st, w, NoEntry)
  ELSE st

\* Mutant of Replace: the watchers are signalled after the exchange.
ReplaceThenTouch(st, D, new) ==
  [st EXCEPT !.cl = TouchAllInDbs(st.cl, D, new, new, now), !.dbs = new]

\* emptyData and dbSwapDatabases signal the watchers while the old contents
\* are still in place.
Replace(st, D, new) ==
  [st EXCEPT !.cl = TouchAllInDbs(st.cl, D, st.dbs, new, now), !.dbs = new]

Emptied(st, D) ==
  [d \in DB |-> IF d \in D THEN [k \in Key |-> NoEntry] ELSE st.dbs[d]]

FlushCommand(st, D) == Replace(st, D, Emptied(st, D))

SwapDbCommand(st, d1, d2) ==
  IF d1 = d2 THEN st
  ELSE Replace(st, {d1, d2}, [st.dbs EXCEPT ![d1] = st.dbs[d2], ![d2] = st.dbs[d1]])

\* The effect of a data command sent on database d.
CallData(st, d, cmd, link) ==
  LET w == <<d, cmd.key>>
  IN  CASE cmd.op = "set"      -> SetCommand(st, w, link)
        [] cmd.op = "setpx"    -> SetPxCommand(st, w, cmd.when, link)
        [] cmd.op = "expire"   -> ExpireCommand(st, w, cmd.when, link)
        [] cmd.op = "persist"  -> PersistCommand(st, w, link)
        [] cmd.op = "del"      -> DelCommand(st, w, link)
        [] cmd.op = "get"      -> ExpireIfNeeded(st, w, link)
        [] cmd.op = "flushdb"  -> FlushCommand(st, {d})
        [] cmd.op = "flushall" -> FlushCommand(st, DB)
        [] cmd.op = "swapdb"   -> SwapDbCommand(st, d, cmd.db)

\* A command of client c, top level or from its transaction.
Call(st, c, cmd) ==
  CASE cmd.op = "select"  -> [st EXCEPT !.cl[c].db = cmd.db]
    [] cmd.op = "unwatch" -> [st EXCEPT !.cl = [UnwatchAll(st.cl, {c})
                                                  EXCEPT ![c].dirty_cas = FALSE]]
    [] OTHER              -> CallData(st, st.cl[c].db, cmd, FALSE)

-----------------------------------------------------------------------------
Init ==
  /\ now = 0
  /\ dbs = [d \in DB |-> [k \in Key |-> NoEntry]]
  /\ stamp = 0
  /\ cl = [c \in Client |-> InitialClient]
  /\ in_exec = None
  /\ exec_pos = 0
  /\ moved = [c \in Client |-> FALSE]
  /\ acked = [c \in Client |-> 0]

\* Names whose logical contents the step changes.
Changed == {w \in Slot : Logical(dbs[w[1]][w[2]], now) # Logical(dbs'[w[1]][w[2]], now')}

\* The history variable `moved`: R are the clients that give up their watches.
Observe(R) ==
  moved' = [c \in Client |->
              c \notin R /\ (moved[c] \/ cl[c].watched \cap Changed # {})]

Apply(st) == dbs' = st.dbs /\ cl' = st.cl /\ stamp' = st.stamp

Idle == in_exec = None

\* discardTransaction
DiscardTransaction(c) ==
  [UnwatchAll(cl, {c}) EXCEPT
     ![c].multi = FALSE, ![c].dirty_cas = FALSE, ![c].dirty_exec = FALSE,
     ![c].queue = <<>>]

Discarded(c) ==
  /\ cl' = DiscardTransaction(c)
  /\ acked' = [acked EXCEPT ![c] = 0]
  /\ UNCHANGED <<now, dbs, stamp>>
  /\ Observe({c})

MultiCommand(c) ==
  /\ Idle
  /\ ~cl[c].multi
  /\ cl' = [cl EXCEPT ![c].multi = TRUE]
  /\ UNCHANGED <<now, dbs, stamp, in_exec, exec_pos, moved, acked>>

\* A command refused before it is queued: MULTI or WATCH inside MULTI, a write
\* on a replica, an ACL, arity or memory error.  flagTransaction.
RejectCommand(c) ==
  /\ Idle
  /\ cl[c].multi
  /\ cl' = [cl EXCEPT ![c].dirty_exec = TRUE, ![c].queue = <<>>]
  /\ UNCHANGED <<now, dbs, stamp, in_exec, exec_pos, moved, acked>>

\* Mutant of WatchCommand: a name that does not exist counts as expired.
WatchAbsentAsExpired(c, K) ==
  /\ Idle /\ ~cl[c].multi /\ ~cl[c].dirty_cas
  /\ LET new == {cl[c].db} \X K
     IN  cl' = [cl EXCEPT
                  ![c].watched = @ \cup new,
                  ![c].stale   = @ \cup {w \in new :
                                     ~Present(Logical(dbs[w[1]][w[2]], now))}]
  /\ UNCHANGED <<now, dbs, stamp, in_exec, exec_pos, moved, acked>>

\* watchCommand, watchForKey for each name not watched already.
WatchCommand(c, K) ==
  /\ Idle
  /\ ~cl[c].multi
  /\ ~cl[c].dirty_cas
  /\ LET new == ({cl[c].db} \X K) \ cl[c].watched
     IN  cl' = [cl EXCEPT
                  ![c].watched = @ \cup new,
                  ![c].stale   = @ \cup {w \in new : IsExpired(dbs[w[1]][w[2]], now)},
                  ![c].ahead   = [w \in Slot |-> IF w \in new THEN Watchers(cl, w)
                                                              ELSE @[w]]]
  /\ UNCHANGED <<now, dbs, stamp, in_exec, exec_pos, moved, acked>>

Allowed(cmd) == Role = "primary" \/ cmd.op \notin WriteOp

\* queueMultiCommand: an already dirty transaction answers QUEUED and forgets.
QueueCommand(c, cmd) ==
  /\ Idle
  /\ cl[c].multi
  /\ acked[c] < MaxQueue
  /\ Allowed(cmd)
  /\ cl' = IF cl[c].dirty_cas \/ cl[c].dirty_exec THEN cl
           ELSE [cl EXCEPT ![c].queue = Append(@, cmd)]
  /\ acked' = [acked EXCEPT ![c] = @ + 1]
  /\ UNCHANGED <<now, dbs, stamp, in_exec, exec_pos, moved>>

CanWrite(st) == st.stamp <= MaxStamp

GivesUp(c, cmd) == IF cmd.op = "unwatch" THEN {c} ELSE {}

DirectCommand(c, cmd) ==
  /\ Idle
  /\ ~cl[c].multi
  /\ Allowed(cmd)
  /\ LET st == Call(State, c, cmd)
     IN  CanWrite(st) /\ Apply(st)
  /\ UNCHANGED <<now, in_exec, exec_pos, acked>>
  /\ Observe(GivesUp(c, cmd))

DiscardCommand(c) ==
  /\ Idle
  /\ cl[c].multi
  /\ Discarded(c)
  /\ UNCHANGED <<in_exec, exec_pos>>

\* isWatchedKeyExpired: names stale since WATCH are ignored.
IsWatchedKeyExpired(c) ==
  \E w \in cl[c].watched \ cl[c].stale : IsExpired(dbs[w[1]][w[2]], now)

\* execCommand that answers nil or EXECABORT.
ExecAborted(c) ==
  /\ Idle
  /\ cl[c].multi
  /\ cl[c].dirty_cas \/ cl[c].dirty_exec \/ IsWatchedKeyExpired(c)
  /\ Discarded(c)
  /\ UNCHANGED <<in_exec, exec_pos>>

\* An EXEC refused by processCommand (out of memory, redirection, a role
\* change): execCommandAbort.
ExecRejected(c) ==
  /\ Idle
  /\ cl[c].multi
  /\ Discarded(c)
  /\ UNCHANGED <<in_exec, exec_pos>>

\* Mutant of ExecStart: a transaction with a refused command still runs.
ExecStartUnchecked(c) ==
  /\ Idle /\ cl[c].multi /\ ~cl[c].dirty_cas /\ ~IsWatchedKeyExpired(c)
  /\ cl' = UnwatchAll(cl, {c})
  /\ in_exec' = c
  /\ exec_pos' = 0
  /\ UNCHANGED <<now, dbs, stamp, acked>>
  /\ Observe({c})

\* execCommand that runs the queue; no other client is served until ExecEnd.
ExecStart(c) ==
  /\ Idle
  /\ cl[c].multi
  /\ ~cl[c].dirty_cas /\ ~cl[c].dirty_exec /\ ~IsWatchedKeyExpired(c)
  /\ cl' = UnwatchAll(cl, {c})
  /\ in_exec' = c
  /\ exec_pos' = 0
  /\ UNCHANGED <<now, dbs, stamp, acked>>
  /\ Observe({c})

\* One iteration of the loop: ACLs may refuse the command at this point.
ExecStep(c) ==
  /\ in_exec = c
  /\ exec_pos < Len(cl[c].queue)
  /\ exec_pos' = exec_pos + 1
  /\ UNCHANGED <<now, in_exec, acked>>
  /\ LET cmd == cl[c].queue[exec_pos + 1]
         st  == Call(State, c, cmd)
     IN  /\ \/ CanWrite(st) /\ Apply(st)
            \/ UNCHANGED <<dbs, cl, stamp>>
         /\ Observe(GivesUp(c, cmd))

ExecEnd(c) ==
  /\ in_exec = c
  /\ exec_pos = Len(cl[c].queue)
  /\ in_exec' = None
  /\ exec_pos' = 0
  /\ Discarded(c)

\* RESET, or the connection is freed and its place taken by a new client.
Disconnect(c) ==
  /\ Idle
  /\ cl' = [UnwatchAll(cl, {c}) EXCEPT ![c] = InitialClient]
  /\ acked' = [acked EXCEPT ![c] = 0]
  /\ UNCHANGED <<now, dbs, stamp, in_exec, exec_pos>>
  /\ Observe({c})

\* activeExpireCycle deletes one expired key.
ActiveExpire(w) ==
  /\ Idle
  /\ Role = "primary"
  /\ IsExpired(dbs[w[1]][w[2]], now)
  /\ Apply(Put(State, w, NoEntry))
  /\ UNCHANGED <<now, in_exec, exec_pos, acked>>
  /\ Observe({})

\* A replica applies a write of the replication stream on database d.
PrimaryCommand(d, cmd) ==
  /\ Idle
  /\ Role = "replica"
  /\ cmd.op \in WriteOp
  /\ LET st == CallData(State, d, cmd, TRUE)
     IN  CanWrite(st) /\ Apply(st)
  /\ UNCHANGED <<now, in_exec, exec_pos, acked>>
  /\ Observe({})

\* The end of a full sync: val gives the stamp of each name, all of them new, or 0
\* for a name that does not exist; the keys have one expiry time.  With "swap"
\* swapMainDbWithTempDb compares the two datasets; with "reload" emptyData signals
\* the old keys and the keys of the RDB file are then added without a signal.
FullSync(val, last, expire, mode) ==
  /\ Idle
  /\ Role = "replica"
  /\ stamp < last
  /\ \A w \in Slot : val[w] # 0 => /\ val[w] \in (stamp + 1) .. last
                                  /\ \A v \in Slot : val[v] = val[w] => v = w
  /\ LET new == [d \in DB |-> [k \in Key |->
                   IF val[<<d, k>>] # 0 THEN [stamp |-> val[<<d, k>>], expire |-> expire]
                                        ELSE NoEntry]]
         st  == IF mode = "swap" THEN Replace(State, DB, new)
                                 ELSE [FlushCommand(State, DB) EXCEPT !.dbs = new]
     IN  Apply([st EXCEPT !.stamp = last])
  /\ UNCHANGED <<now, in_exec, exec_pos, acked>>
  /\ Observe({})

\* The clock only advances between commands.
Tick ==
  /\ Idle
  /\ now < MaxTime
  /\ now' = now + 1
  /\ UNCHANGED <<dbs, stamp, cl, in_exec, exec_pos, acked>>
  /\ Observe({})

ClientStep(c) ==
  \/ MultiCommand(c)
  \/ RejectCommand(c)
  \/ \E K \in SUBSET Key \ {{}} : WatchCommand(c, K)
  \/ \E cmd \in Commands : QueueCommand(c, cmd)
  \/ \E cmd \in Commands : DirectCommand(c, cmd)
  \/ DiscardCommand(c)
  \/ ExecAborted(c)
  \/ ExecRejected(c)
  \/ ExecStart(c)
  \/ ExecStep(c)
  \/ ExecEnd(c)
  \/ Disconnect(c)

ServerStep ==
  \/ \E w \in Slot : ActiveExpire(w)
  \/ \E d \in DB, cmd \in Commands : PrimaryCommand(d, cmd)
  \/ \E val \in [Slot -> 0..MaxStamp], last \in 1..MaxStamp,
        e \in NoExpire..MaxTime, m \in LoadModes : FullSync(val, last, e, m)
  \/ Tick

Next == (\E c \in Client : ClientStep(c)) \/ ServerStep

Spec == Init /\ [][Next]_vars

-----------------------------------------------------------------------------
(* Properties.                                                             *)

\* Every variable stays in its domain: the flags, queue and watches of each
\* client, the keyspace, and the position inside a running EXEC.
TypeOK ==
  /\ now \in 0..MaxTime
  /\ dbs \in [DB -> [Key -> Entry]]
  /\ stamp \in 0..MaxStamp
  /\ cl \in [Client -> ClientState]
  /\ in_exec \in Client \cup {None}
  /\ exec_pos \in Nat
  /\ moved \in [Client -> BOOLEAN]
  /\ acked \in [Client -> Nat]

\* EXEC (execCommand) runs the queue only if no name its client watches has
\* logically changed since it was watched: not by a write, an expiry, a flush, a
\* swap or a full sync, whoever made the change and whatever came in between.
WatchedChangeAborts ==
  [][\A c \in Client : in_exec # c /\ in_exec' = c => ~moved[c]]_vars

\* The transaction that runs is the one the client was told is QUEUED, command
\* for command: a queue dropped by a touched watch or a rejected command
\* (resetClientMultiState) is never run in part.
QueuedIsRun == \A c \in Client : in_exec = c => Len(cl[c].queue) = acked[c]

\* The counterpart of WatchedChangeAborts: touchWatchedKey and
\* touchAllWatchedKeysInDb mark a client dirty only when a name it watches has
\* logically changed.  Deleting a key that was already expired when it was
\* watched is not a change.
NoSpuriousAbort == \A c \in Client : cl[c].dirty_cas => moved[c]

\* Why WatchedChangeAborts holds on a primary whose clients do not use SWAPDB (the
\* inductive invariant of TransactionsProofs).  A watchedKey flagged expired is still expired, so the
\* walk of touchWatchedKey is never cut short; and a change the client must not
\* miss has either set dirty_cas or is an expiry that isWatchedKeyExpired will see.
StaleIsExpired ==
  \A c \in Client : \A w \in cl[c].stale :
     w \in cl[c].watched /\ IsExpired(dbs[w[1]][w[2]], now)

ChangeIsPending ==
  \A c \in Client : moved[c] =>
     \/ cl[c].dirty_cas
     \/ \E w \in cl[c].watched \ cl[c].stale : IsExpired(dbs[w[1]][w[2]], now)

Plain == Role = "primary" /\ \A cmd \in Commands : cmd.op # "swapdb"

PrimaryInv == Plain => StaleIsExpired /\ ChangeIsPending
=============================================================================
