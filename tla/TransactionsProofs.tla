------------------------- MODULE TransactionsProofs -------------------------
(***************************************************************************)
(* Proofs about Transactions, for every set of clients, keys, databases    *)
(* and commands and every bound.                                           *)
(***************************************************************************)
EXTENDS Transactions, TLAPS

Clients == [Client -> ClientState]

\* The type of the record threaded through one command.
StType == [dbs : [DB -> [Key -> Entry]], cl : Clients, stamp : 0..MaxStamp]

-----------------------------------------------------------------------------
(* Types of the operators.                                                 *)

\* unwatchAllKeys keeps client states well typed.
LEMMA UnwatchAllType ==
  ASSUME NEW s \in Clients, NEW D
  PROVE  UnwatchAll(s, D) \in Clients
<1> SUFFICES ASSUME NEW c \in Client
             PROVE  UnwatchAll(s, D)[c] \in ClientState
  BY DEF UnwatchAll, Clients
<1>1. s[c] \in ClientState  BY DEF Clients
<1>2. [w \in Slot |-> s[c].ahead[w] \ D] \in [Slot -> SUBSET Client]
  BY <1>1 DEF ClientState
<1>3. [w \in Slot |-> {}] \in [Slot -> SUBSET Client]
  OBVIOUS
<1> QED BY <1>1, <1>2, <1>3 DEF UnwatchAll, ClientState

\* touchWatchedKey keeps client states well typed.
LEMMA TouchWatchedKeyType ==
  ASSUME NEW s \in Clients, NEW w \in Slot, NEW present \in BOOLEAN
  PROVE  TouchWatchedKey(s, w, present) \in Clients
<1> DEFINE reached == Reached(s, w, present)
           dirtied == {c \in reached : w \notin s[c].stale}
           flagged == [c \in Client |->
                    IF c \in dirtied
                      THEN [s[c] EXCEPT !.dirty_cas = TRUE, !.queue = <<>>]
                    ELSE IF c \in reached
                      THEN [s[c] EXCEPT !.stale = @ \ {w}]
                    ELSE s[c]]
<1>1. <<>> \in Seq(Commands)
  OBVIOUS
<1>2. flagged \in Clients
  <2> SUFFICES ASSUME NEW c \in Client PROVE flagged[c] \in ClientState
    BY DEF Clients
  <2>1. s[c] \in ClientState  BY DEF Clients
  <2> QED BY <1>1, <2>1 DEF ClientState
<1> HIDE DEF flagged, dirtied
<1>3. TouchWatchedKey(s, w, present) = UnwatchAll(flagged, dirtied)
  BY DEF TouchWatchedKey, flagged, dirtied
<1> QED BY <1>2, <1>3, UnwatchAllType

\* touchAllWatchedKeysInDb keeps client states well typed.
LEMMA TouchAllInDbsType ==
  ASSUME NEW s \in Clients, NEW D, NEW old, NEW new, NEW t
  PROVE  TouchAllInDbs(s, D, old, new, t) \in Clients
<1>1. <<>> \in Seq(Commands)
  OBVIOUS
<1> SUFFICES ASSUME NEW c \in Client
             PROVE  TouchAllInDbs(s, D, old, new, t)[c] \in ClientState
  BY DEF TouchAllInDbs, Clients
<1> DEFINE Before(w)  == old[w[1]][w[2]]
           After(w)   == new[w[1]][w[2]]
           Hit     == {w \in s[c].watched :
                         w[1] \in D /\ (Present(Before(w)) \/ Present(After(w)))}
           Cleared == {w \in Hit : w \in s[c].stale /\ ~Present(After(w))}
           Stale   == {w \in Hit : /\ w \in s[c].stale \/ ~Present(Before(w))
                                  /\ IsExpired(After(w), t)}
           Dirty   == Hit \ (Cleared \cup Stale) # {}
<1>2. TouchAllInDbs(s, D, old, new, t)[c]
        = [s[c] EXCEPT !.stale     = (@ \ Cleared) \cup Stale,
                       !.dirty_cas = @ \/ Dirty,
                       !.queue     = IF Dirty THEN <<>> ELSE @]
  BY DEF TouchAllInDbs
<1>3. s[c] \in ClientState  BY DEF Clients
<1>4. Stale \subseteq s[c].watched  OBVIOUS
<1> HIDE DEF Hit, Cleared, Stale, Dirty
<1>5. Dirty \in BOOLEAN  BY DEF Dirty
<1> QED BY ZenonT(60), <1>1, <1>2, <1>3, <1>4, <1>5 DEF ClientState

\* Storing or deleting an entry and touching its watchers.
LEMMA PutType ==
  ASSUME NEW st \in StType, NEW w \in Slot, NEW e \in Entry
  PROVE  Put(st, w, e) \in StType
<1>1. st.cl \in Clients  BY DEF StType
<1>2. TouchWatchedKey(st.cl, w, Present(e)) \in Clients
  BY <1>1, TouchWatchedKeyType DEF Present
<1> QED BY <1>2 DEF Put, StType, Slot

\* An absent key is an entry.
LEMMA NoEntryType == NoEntry \in Entry
BY DEF Entry

\* deleteExpiredKeyAndPropagate, or nothing, keeps the state well typed.
LEMMA ExpireIfNeededType ==
  ASSUME NEW st \in StType, NEW w \in Slot, NEW link
  PROVE  ExpireIfNeeded(st, w, link) \in StType
BY PutType, NoEntryType DEF ExpireIfNeeded

\* A write that stays within the bound on stamps.
LEMMA WriteType ==
  ASSUME NEW st \in StType, NEW w \in Slot, NEW expire \in NoExpire..MaxTime,
         CanWrite(Write(st, w, expire))
  PROVE  Write(st, w, expire) \in StType
<1> DEFINE e == [stamp |-> st.stamp + 1, expire |-> expire]
           p == Put(st, w, e)
<1>1. st.stamp + 1 <= MaxStamp
  BY DEF Write, CanWrite, Put, StType
<1>2. e \in Entry
  BY <1>1, BoundsAssumption DEF Entry, StType
<1>3. p \in StType  BY <1>2, PutType
<1> HIDE DEF p
<1>4. [p EXCEPT !.stamp = st.stamp + 1] \in StType
  BY <1>1, <1>3, BoundsAssumption DEF StType
<1> QED BY <1>4 DEF Write, p

\* FLUSHDB, FLUSHALL and SWAPDB keep the state well typed.
LEMMA ReplaceType ==
  ASSUME NEW st \in StType, NEW D, NEW new \in [DB -> [Key -> Entry]]
  PROVE  Replace(st, D, new) \in StType
BY TouchAllInDbsType DEF Replace, StType

\* FLUSHDB and FLUSHALL keep the state well typed.
LEMMA FlushType ==
  ASSUME NEW st \in StType, NEW D
  PROVE  FlushCommand(st, D) \in StType
<1>1. Emptied(st, D) \in [DB -> [Key -> Entry]]
  BY NoEntryType DEF Emptied, StType
<1> QED BY <1>1, ReplaceType DEF FlushCommand

\* SWAPDB keeps the state well typed.
LEMMA SwapType ==
  ASSUME NEW st \in StType, NEW d1 \in DB, NEW d2 \in DB
  PROVE  SwapDbCommand(st, d1, d2) \in StType
<1>1. [st.dbs EXCEPT ![d1] = st.dbs[d2], ![d2] = st.dbs[d1]] \in [DB -> [Key -> Entry]]
  BY DEF StType
<1> QED BY <1>1, ReplaceType DEF SwapDbCommand

\* Every data command that stays within the bound on stamps.
LEMMA CallDataType ==
  ASSUME NEW st \in StType, NEW d \in DB, NEW cmd \in Commands, NEW link,
         cmd.op \notin {"select", "unwatch"}, CanWrite(CallData(st, d, cmd, link))
  PROVE  CallData(st, d, cmd, link) \in StType
<1> DEFINE w   == <<d, cmd.key>>
           st1 == ExpireIfNeeded(st, w, link)
           res == CallData(st, d, cmd, link)
<1>1. /\ w \in Slot /\ cmd.db \in DB /\ cmd.op \in Op
      /\ cmd.when \in NoExpire..MaxTime /\ NoExpire \in NoExpire..MaxTime
  BY CommandsAssumption, BoundsAssumption DEF CommandType, Slot, NoExpire
<1>2. st1 \in StType  BY <1>1, ExpireIfNeededType
<1>3. Put(st, w, NoEntry) \in StType /\ Put(st1, w, NoEntry) \in StType
  BY <1>1, <1>2, PutType, NoEntryType
<1>4. ASSUME NEW x \in NoExpire..MaxTime, CanWrite(Write(st1, w, x))
      PROVE  Write(st1, w, x) \in StType
  BY <1>1, <1>2, <1>4, WriteType
<1> HIDE DEF w, st1
<1>5. CASE cmd.op = "set"
  <2>1. res = Write(st1, w, NoExpire)  BY <1>5 DEF CallData, SetCommand, st1, w
  <2> QED BY <1>1, <1>4, <2>1
<1>6. CASE cmd.op = "setpx"
  <2>1. res = SetPxCommand(st, w, cmd.when, link)  BY <1>6 DEF CallData, w
  <2>2. res \in {Write(st1, w, cmd.when), Put(st1, w, NoEntry), st1}
    BY <2>1 DEF SetPxCommand, st1
  <2> QED BY <1>1, <1>2, <1>3, <1>4, <2>2
<1>7. CASE cmd.op = "expire"
  <2>1. res = ExpireCommand(st, w, cmd.when, link)  BY <1>7 DEF CallData, w
  <2>2. res \in {Write(st1, w, cmd.when), Put(st1, w, NoEntry), st1}
    BY <2>1 DEF ExpireCommand, st1
  <2> QED BY <1>1, <1>2, <1>3, <1>4, <2>2
<1>8. CASE cmd.op = "persist"
  <2>1. res = PersistCommand(st, w, link)  BY <1>8 DEF CallData, w
  <2>2. res \in {Write(st1, w, NoExpire), st1}
    BY <2>1 DEF PersistCommand, st1
  <2> QED BY <1>1, <1>2, <1>4, <2>2
<1>9. CASE cmd.op = "del"
  <2>1. res = DelCommand(st, w, link)  BY <1>9 DEF CallData, w
  <2>2. res \in {st1, Put(st, w, NoEntry), st}
    BY <2>1 DEF DelCommand, st1
  <2> QED BY <1>2, <1>3, <2>2
<1>10. CASE cmd.op = "get"
  BY <1>2, <1>10 DEF CallData, st1, w
<1>11. CASE cmd.op = "flushdb"
  BY <1>11, FlushType DEF CallData
<1>12. CASE cmd.op = "flushall"
  BY <1>12, FlushType DEF CallData
<1>13. CASE cmd.op = "swapdb"
  BY <1>1, <1>13, SwapType DEF CallData
<1> QED
  BY <1>1, <1>5, <1>6, <1>7, <1>8, <1>9, <1>10, <1>11, <1>12, <1>13 DEF Op

\* call() of any command that stays within the bound on stamps.
LEMMA CallType ==
  ASSUME NEW st \in StType, NEW c \in Client, NEW cmd \in Commands,
         CanWrite(Call(st, c, cmd))
  PROVE  Call(st, c, cmd) \in StType
<1>1. st.cl \in Clients /\ st.cl[c] \in ClientState /\ st.cl[c].db \in DB
  BY DEF StType, Clients, ClientState
<1>2. CASE cmd.op = "select"
  <2>1. cmd.db \in DB  BY CommandsAssumption DEF CommandType
  <2>2. [st.cl[c] EXCEPT !.db = cmd.db] \in ClientState
    BY <1>1, <2>1 DEF ClientState
  <2>3. [st.cl EXCEPT ![c].db = cmd.db] \in Clients
    BY <1>1, <2>2 DEF Clients
  <2>4. Call(st, c, cmd) = [st EXCEPT !.cl = [st.cl EXCEPT ![c].db = cmd.db]]
    BY <1>2 DEF Call, StType
  <2> QED BY <2>3, <2>4 DEF StType
<1>3. CASE cmd.op = "unwatch"
  <2>1. UnwatchAll(st.cl, {c}) \in Clients  BY <1>1, UnwatchAllType
  <2>2. [UnwatchAll(st.cl, {c}) EXCEPT ![c].dirty_cas = FALSE] \in Clients
    BY <2>1 DEF Clients, ClientState
  <2> QED BY <1>3, <2>2 DEF Call, StType
<1>4. CASE cmd.op \notin {"select", "unwatch"}
  <2>1. Call(st, c, cmd) = CallData(st, st.cl[c].db, cmd, FALSE)
    BY <1>4 DEF Call
  <2> QED BY <1>1, <1>4, <2>1, CallDataType
<1> QED BY <1>2, <1>3, <1>4

-----------------------------------------------------------------------------
\* The variables a command works on, as one record.
LEMMA StateType == TypeOK => State \in StType
BY DEF TypeOK, State, StType, Clients

\* What a command leaves is what the variables become.
LEMMA ApplyType ==
  ASSUME NEW st \in StType, Apply(st)
  PROVE  dbs' \in [DB -> [Key -> Entry]] /\ cl' \in Clients /\ stamp' \in 0..MaxStamp
BY DEF Apply, StType

\* The history of changes stays a set of flags.
LEMMA ObserveType ==
  ASSUME NEW R, Observe(R)
  PROVE  moved' \in [Client -> BOOLEAN]
BY DEF Observe

\* discardTransaction keeps client states well typed.
LEMMA DiscardType ==
  ASSUME cl \in Clients, NEW c \in Client
  PROVE  DiscardTransaction(c) \in Clients
<1>1. UnwatchAll(cl, {c}) \in Clients  BY UnwatchAllType
<1>2. <<>> \in Seq(Commands)  OBVIOUS
<1> DEFINE u == UnwatchAll(cl, {c})
           x == [u[c] EXCEPT !.multi = FALSE, !.dirty_cas = FALSE,
                             !.dirty_exec = FALSE, !.queue = <<>>]
<1>3. u[c] \in ClientState  BY <1>1 DEF Clients
<1> HIDE DEF u
<1>4. x \in ClientState  BY <1>2, <1>3 DEF ClientState
<1>5. DiscardTransaction(c) = [u EXCEPT ![c] = x]
  BY DEF DiscardTransaction, u
<1> HIDE DEF x
<1> QED BY <1>1, <1>4, <1>5 DEF Clients, u

\* initClientMultiState gives a well typed client.
LEMMA InitialClientType == InitialClient \in ClientState
<1>1. <<>> \in Seq(Commands)  OBVIOUS
<1>2. [w \in Slot |-> {}] \in [Slot -> SUBSET Client]  OBVIOUS
<1> QED BY <1>1, <1>2, DBAssumption DEF InitialClient, ClientState

\* TypeOK is inductive.
LEMMA TypeStep == TypeOK /\ [Next]_vars => TypeOK'
<1> SUFFICES ASSUME TypeOK, [Next]_vars PROVE TypeOK'
  OBVIOUS
<1> USE DEF TypeOK
<1>0. /\ cl \in Clients
      /\ \A c \in Client : cl[c] \in ClientState
      /\ State \in StType
  BY StateType DEF Clients
<1>1. ASSUME NEW c \in Client, ClientStep(c) PROVE TypeOK'
  <2>1. CASE MultiCommand(c)
    BY ZenonT(60), <1>0, <2>1 DEF MultiCommand, ClientState
  <2>2. CASE RejectCommand(c)
    <3>1. <<>> \in Seq(Commands)  OBVIOUS
    <3> DEFINE x == [cl[c] EXCEPT !.dirty_exec = TRUE, !.queue = <<>>]
    <3>2. x \in ClientState  BY <1>0, <3>1 DEF ClientState
    <3>3. cl' = [cl EXCEPT ![c] = x]  BY <2>2 DEF RejectCommand
    <3> HIDE DEF x
    <3>4. cl' \in Clients  BY <1>0, <3>2, <3>3 DEF Clients
    <3> QED BY <2>2, <3>4 DEF RejectCommand, Clients
  <2>3. ASSUME NEW K \in SUBSET Key, WatchCommand(c, K) PROVE TypeOK'
    <3> DEFINE new  == ({cl[c].db} \X K) \ cl[c].watched
               link == [w \in Slot |-> IF w \in new THEN Watchers(cl, w)
                                                    ELSE cl[c].ahead[w]]
               x    == [cl[c] EXCEPT
                          !.watched = @ \cup new,
                          !.stale   = @ \cup {w \in new : IsExpired(dbs[w[1]][w[2]], now)},
                          !.ahead   = link]
    <3>1. new \in SUBSET Slot  BY <1>0 DEF Slot, ClientState
    <3>2. link \in [Slot -> SUBSET Client]
      BY <1>0 DEF Watchers, ClientState
    <3> HIDE DEF new, link
    <3>3. x \in ClientState  BY <1>0, <3>1, <3>2 DEF ClientState
    <3>4. cl' = [cl EXCEPT ![c] = x]
      BY <2>3 DEF WatchCommand, new, link
    <3> HIDE DEF x
    <3>5. cl' \in Clients  BY <1>0, <3>3, <3>4 DEF Clients
    <3> QED BY <2>3, <3>5 DEF WatchCommand, Clients
  <2>4. ASSUME NEW cmd \in Commands, QueueCommand(c, cmd) PROVE TypeOK'
    <3>1. Append(cl[c].queue, cmd) \in Seq(Commands)  BY <1>0 DEF ClientState
    <3>2. [cl[c] EXCEPT !.queue = Append(@, cmd)] \in ClientState
      BY <1>0, <3>1 DEF ClientState
    <3>3. cl' \in Clients
      BY <1>0, <2>4, <3>2 DEF QueueCommand, Clients
    <3> QED BY <2>4, <3>3 DEF QueueCommand, Clients
  <2>5. ASSUME NEW cmd \in Commands, DirectCommand(c, cmd) PROVE TypeOK'
    BY <1>0, <2>5, CallType, ApplyType, ObserveType DEF DirectCommand, Clients
  <2>6. CASE DiscardCommand(c)
    BY <1>0, <2>6, DiscardType, ObserveType DEF DiscardCommand, Discarded, Clients
  <2>7. CASE ExecAborted(c)
    BY <1>0, <2>7, DiscardType, ObserveType DEF ExecAborted, Discarded, Clients
  <2>8. CASE ExecRejected(c)
    BY <1>0, <2>8, DiscardType, ObserveType DEF ExecRejected, Discarded, Clients
  <2>9. CASE ExecStart(c)
    BY <1>0, <2>9, UnwatchAllType, ObserveType DEF ExecStart, Clients
  <2>10. CASE ExecStep(c)
    <3>1. cl[c].queue[exec_pos + 1] \in Commands
      BY <1>0, <2>10 DEF ExecStep, ClientState
    <3>2. dbs' \in [DB -> [Key -> Entry]] /\ cl' \in Clients /\ stamp' \in 0..MaxStamp
      BY <1>0, <2>10, <3>1, CallType, ApplyType DEF ExecStep
    <3> QED BY <2>10, <3>2, ObserveType DEF ExecStep, Clients
  <2>11. CASE ExecEnd(c)
    BY <1>0, <2>11, DiscardType, ObserveType DEF ExecEnd, Discarded, Clients
  <2>12. CASE Disconnect(c)
    <3>1. cl' \in Clients
      BY <1>0, <2>12, UnwatchAllType, InitialClientType DEF Disconnect, Clients
    <3> QED BY <2>12, <3>1, ObserveType DEF Disconnect, Clients
  <2> QED BY <1>1, <2>1, <2>2, <2>3, <2>4, <2>5, <2>6, <2>7, <2>8, <2>9, <2>10,
             <2>11, <2>12 DEF ClientStep
<1>2. ASSUME NEW w \in Slot, ActiveExpire(w) PROVE TypeOK'
  BY <1>0, <1>2, PutType, NoEntryType, ApplyType, ObserveType DEF ActiveExpire, Clients
<1>3. ASSUME NEW d \in DB, NEW cmd \in Commands, PrimaryCommand(d, cmd) PROVE TypeOK'
  <2>1. cmd.op \notin {"select", "unwatch"}  BY <1>3 DEF PrimaryCommand, WriteOp
  <2> QED BY <1>0, <1>3, <2>1, CallDataType, ApplyType, ObserveType
          DEF PrimaryCommand, Clients
<1>4. ASSUME NEW val \in [Slot -> 0..MaxStamp], NEW last \in 1..MaxStamp,
             NEW e \in NoExpire..MaxTime, NEW m \in LoadModes,
             FullSync(val, last, e, m)
      PROVE  TypeOK'
  <2> DEFINE new == [d \in DB |-> [k \in Key |->
                       IF val[<<d, k>>] # 0 THEN [stamp |-> val[<<d, k>>], expire |-> e]
                                            ELSE NoEntry]]
             st  == IF m = "swap" THEN Replace(State, DB, new)
                                  ELSE [FlushCommand(State, DB) EXCEPT !.dbs = new]
  <2>1. ASSUME NEW d \in DB, NEW k \in Key, val[<<d, k>>] # 0
        PROVE  val[<<d, k>>] \in 1..MaxStamp
    BY <2>1, BoundsAssumption DEF Slot
  <2>2. new \in [DB -> [Key -> Entry]]  BY <2>1 DEF Entry
  <2> HIDE DEF new
  <2>3. Replace(State, DB, new) \in StType /\ FlushCommand(State, DB) \in StType
    BY <1>0, <2>2, ReplaceType, FlushType
  <2>4. st \in StType  BY <2>2, <2>3 DEF StType
  <2> HIDE DEF st
  <2>5. [st EXCEPT !.stamp = last] \in StType
    BY <2>4, BoundsAssumption DEF StType
  <2>6. Apply([st EXCEPT !.stamp = last])
    BY <1>4 DEF FullSync, st, new
  <2> QED BY <1>4, <2>5, <2>6, ApplyType, ObserveType DEF FullSync, Clients
<1>5. CASE Tick
  BY <1>5, ObserveType, BoundsAssumption DEF Tick
<1>6. CASE UNCHANGED vars
  BY <1>6 DEF vars
<1> QED BY <1>1, <1>2, <1>3, <1>4, <1>5, <1>6 DEF Next, ServerStep

\* Every reachable state is well typed (initServer, multi.c and db.c): the
\* client states, the watch lists and the keyspace stay in their domains.
THEOREM TypeCorrect == Spec => []TypeOK
<1>1. Init => TypeOK
  BY InitialClientType, NoEntryType, BoundsAssumption DEF Init, TypeOK
<1> QED BY <1>1, TypeStep, PTL DEF Spec

-----------------------------------------------------------------------------
(* WATCH on a primary without SWAPDB.                                      *)

\* What holds of the record `st` while one command changes it: stale names are
\* expired, a client not yet dirty still watches what it watched, and if a name
\* it watched before the command has changed by now, the change is pending.
StaleOK(st, c) ==
  \A w \in st.cl[c].stale : w \in st.cl[c].watched /\ IsExpired(At(st, w), now)

Pending(st, c) ==
  \/ st.cl[c].dirty_cas
  \/ \E w \in st.cl[c].watched \ st.cl[c].stale : IsExpired(At(st, w), now)

Differs(st, c) ==
  moved[c] \/ \E w \in cl[c].watched : Logical(At(State, w), now) # Logical(At(st, w), now)

Covered(st) ==
  \A c \in Client :
    /\ StaleOK(st, c)
    /\ st.cl[c].dirty_cas \/ st.cl[c].watched = cl[c].watched
    /\ Differs(st, c) => Pending(st, c)

\* A watcher c of w is either made dirty and unlinked, or had w stale and now has
\* it clean; everyone else is left alone.
Touched(s, t, w, c) ==
  /\ w \in s[c].watched \ s[c].stale =>
       t[c].dirty_cas /\ t[c].watched = {} /\ t[c].stale = {}
  /\ w \notin s[c].watched \ s[c].stale =>
       /\ t[c].dirty_cas = s[c].dirty_cas
       /\ t[c].watched = s[c].watched
       /\ t[c].stale = IF w \in s[c].watched THEN s[c].stale \ {w} ELSE s[c].stale

\* touchWatchedKey when its walk is not cut short: every watcher is either made
\* dirty and unlinked, or had the name stale and now has it clean.
LEMMA TouchReachesAll ==
  ASSUME NEW s \in Clients, NEW w \in Slot, NEW e,
         Present(e) => \A b \in Client : w \notin s[b].stale,
         NEW c \in Client
  PROVE  Touched(s, TouchWatchedKey(s, w, Present(e)), w, c)
<1> DEFINE reached == Reached(s, w, Present(e))
           dirtied == {b \in reached : w \notin s[b].stale}
           flagged == [b \in Client |->
                    IF b \in dirtied
                      THEN [s[b] EXCEPT !.dirty_cas = TRUE, !.queue = <<>>]
                    ELSE IF b \in reached
                      THEN [s[b] EXCEPT !.stale = @ \ {w}]
                    ELSE s[b]]
<1>1. \A b \in Client : s[b] \in ClientState  BY DEF Clients
<1>2. reached = Watchers(s, w)
  BY <1>1 DEF Reached, Watchers, ClientState
<1>3. c \in reached <=> w \in s[c].watched
  BY <1>2 DEF Watchers
<1>4. c \in dirtied <=> w \in s[c].watched \ s[c].stale
  BY <1>3
<1> HIDE DEF reached
<1>5. /\ c \in dirtied => flagged[c].dirty_cas
      /\ c \notin dirtied => /\ flagged[c].dirty_cas = s[c].dirty_cas
                             /\ flagged[c].watched = s[c].watched
                             /\ flagged[c].stale = IF w \in s[c].watched
                                                     THEN s[c].stale \ {w} ELSE s[c].stale
      /\ flagged[c] \in ClientState
  <2>1. <<>> \in Seq(Commands)  OBVIOUS
  <2> QED BY <1>1, <1>3, <2>1 DEF ClientState
<1>6. TouchWatchedKey(s, w, Present(e)) = UnwatchAll(flagged, dirtied)
  BY DEF TouchWatchedKey, reached
<1> HIDE DEF flagged, dirtied
<1>7. /\ UnwatchAll(flagged, dirtied)[c].dirty_cas = flagged[c].dirty_cas
      /\ c \in dirtied => /\ UnwatchAll(flagged, dirtied)[c].watched = {}
                          /\ UnwatchAll(flagged, dirtied)[c].stale = {}
      /\ c \notin dirtied => /\ UnwatchAll(flagged, dirtied)[c].watched = flagged[c].watched
                             /\ UnwatchAll(flagged, dirtied)[c].stale = flagged[c].stale
  BY <1>5 DEF UnwatchAll, ClientState
<1> QED BY <1>4, <1>5, <1>6, <1>7 DEF Touched

\* An absent name has no expiry, an expired one reads as absent.
LEMMA LogicalFacts ==
  ASSUME NEW e \in Entry, NEW t
  PROVE  /\ IsExpired(e, t) => Logical(e, t) = NoEntry
         /\ ~IsExpired(NoEntry, t) /\ Logical(NoEntry, t) = NoEntry
         /\ IsExpired(e, t) => Present(e)
         /\ ~Present(e) <=> e = NoEntry
BY DEF Logical, IsExpired, NoEntry, Entry, Present, NoExpire

\* What is stored under a name is an entry.
LEMMA AtType ==
  ASSUME NEW st \in StType, NEW w \in Slot
  PROVE  At(st, w) \in Entry
BY DEF At, StType, Slot

\* Storing under one name leaves every other name alone.
LEMMA AtPut ==
  ASSUME NEW st \in StType, NEW w \in Slot, NEW e, NEW v \in Slot
  PROVE  At(Put(st, w, e), v) = IF v = w THEN e ELSE At(st, v)
BY DEF At, Put, StType, Slot

\* A deletion, or a write over a name that is not expired, keeps every change
\* pending for every client that watches the name.
LEMMA PutCovered ==
  ASSUME NEW st \in StType, NEW w \in Slot, NEW e \in Entry,
         Covered(st), cl \in Clients,
         e = NoEntry \/ ~IsExpired(At(st, w), now)
  PROVE  Covered(Put(st, w, e))
<1> DEFINE p == Put(st, w, e)
<1> SUFFICES ASSUME NEW c \in Client
             PROVE  /\ StaleOK(p, c)
                    /\ p.cl[c].dirty_cas \/ p.cl[c].watched = cl[c].watched
                    /\ Differs(p, c) => Pending(p, c)
  BY DEF Covered
<1>0. /\ st.cl \in Clients /\ p \in StType
      /\ \A b \in Client : st.cl[b] \in ClientState
      /\ cl[c].watched \subseteq Slot
      /\ st.cl[c].watched \subseteq Slot /\ st.cl[c].stale \subseteq Slot
  BY PutType DEF StType, Clients, ClientState
<1>1. /\ StaleOK(st, c) /\ (Differs(st, c) => Pending(st, c))
      /\ st.cl[c].dirty_cas \/ st.cl[c].watched = cl[c].watched
      /\ \A b \in Client : StaleOK(st, b)
  BY DEF Covered
<1>2. Present(e) => \A b \in Client : w \notin st.cl[b].stale
  <2>1. Present(e) => ~IsExpired(At(st, w), now)
    BY LogicalFacts, AtType
  <2> QED BY <1>1, <2>1 DEF StaleOK
<1>3. p.cl = TouchWatchedKey(st.cl, w, Present(e))
  BY DEF Put, StType
<1>4. Touched(st.cl, p.cl, w, c)
  BY <1>0, <1>2, <1>3, TouchReachesAll
<1>5. \A v \in Slot : At(p, v) = IF v = w THEN e ELSE At(st, v)
  BY AtPut
<1> HIDE DEF p
<1>6. CASE w \in st.cl[c].watched \ st.cl[c].stale
  BY <1>4, <1>6 DEF StaleOK, Pending, Touched
<1>7. CASE w \notin st.cl[c].watched
  <2>1. w \notin st.cl[c].stale  BY <1>1, <1>7 DEF StaleOK
  <2>2. StaleOK(p, c)  BY <1>0, <1>1, <1>4, <1>5, <1>7, <2>1 DEF StaleOK, Touched
  <2>3. Pending(st, c) => Pending(p, c)
    BY <1>0, <1>4, <1>5, <1>7 DEF Pending, Touched
  <2>4. Differs(p, c) => Differs(st, c) \/ st.cl[c].dirty_cas
    BY <1>0, <1>1, <1>5, <1>7 DEF Differs
  <2> QED BY <1>1, <1>4, <1>7, <2>2, <2>3, <2>4 DEF Pending, Touched
<1>8. CASE w \in st.cl[c].watched /\ w \in st.cl[c].stale
  <2>1. e = NoEntry /\ IsExpired(At(st, w), now)  BY <1>1, <1>8 DEF StaleOK
  <2>2. StaleOK(p, c)  BY <1>0, <1>1, <1>4, <1>5, <1>8 DEF StaleOK, Touched
  <2>3. Pending(st, c) => Pending(p, c)
    BY <1>0, <1>4, <1>5, <1>8 DEF Pending, Touched
  <2>4. Logical(At(p, w), now) = Logical(At(st, w), now)
    BY <1>5, <2>1, LogicalFacts, AtType
  <2>5. Differs(p, c) => Differs(st, c)
    BY <1>0, <1>5, <2>4 DEF Differs
  <2> QED BY <1>1, <1>4, <1>8, <2>2, <2>3, <2>5 DEF Touched
<1> QED BY <1>6, <1>7, <1>8

\* expireIfNeeded on a primary: afterwards the name is not expired.
LEMMA ExpireCovered ==
  ASSUME NEW st \in StType, NEW w \in Slot, Covered(st), cl \in Clients,
         Role = "primary"
  PROVE  /\ Covered(ExpireIfNeeded(st, w, FALSE))
         /\ ~IsExpired(At(ExpireIfNeeded(st, w, FALSE), w), now)
BY PutCovered, AtPut, LogicalFacts, NoEntryType DEF ExpireIfNeeded, Deletes

\* Storing a new value where nothing expired is stored.
LEMMA WriteCovered ==
  ASSUME NEW st \in StType, NEW w \in Slot, NEW expire \in NoExpire..MaxTime,
         CanWrite(Write(st, w, expire)), Covered(st), cl \in Clients,
         ~IsExpired(At(st, w), now)
  PROVE  Covered(Write(st, w, expire))
<1> DEFINE e == [stamp |-> st.stamp + 1, expire |-> expire]
           p == Put(st, w, e)
<1>1. e \in Entry
  BY BoundsAssumption DEF Write, CanWrite, Put, StType, Entry
<1>2. Covered(p) /\ p \in StType  BY <1>1, PutCovered, PutType
<1>3. Write(st, w, expire) = [p EXCEPT !.stamp = st.stamp + 1]
  BY DEF Write
<1> HIDE DEF p
<1>4. Write(st, w, expire).cl = p.cl /\ Write(st, w, expire).dbs = p.dbs
  BY <1>2, <1>3 DEF StType
<1> QED BY <1>2, <1>4 DEF Covered, StaleOK, Pending, Differs, At

\* FLUSHDB and FLUSHALL: emptyData touches while the old keys are in place.
LEMMA FlushCovered ==
  ASSUME NEW st \in StType, NEW D \in SUBSET DB, Covered(st), cl \in Clients
  PROVE  Covered(FlushCommand(st, D))
<1> DEFINE f   == FlushCommand(st, D)
           new == Emptied(st, D)
<1> SUFFICES ASSUME NEW c \in Client
             PROVE  /\ StaleOK(f, c)
                    /\ f.cl[c].dirty_cas \/ f.cl[c].watched = cl[c].watched
                    /\ Differs(f, c) => Pending(f, c)
  BY DEF Covered
<1> DEFINE Hit == {w \in st.cl[c].watched : w[1] \in D /\ Present(At(st, w))}
<1>0. /\ st.cl[c] \in ClientState
      /\ st.cl[c].watched \subseteq Slot /\ st.cl[c].stale \subseteq Slot
      /\ cl[c].watched \subseteq Slot
  BY DEF StType, Clients, ClientState
<1>1. /\ StaleOK(st, c) /\ (Differs(st, c) => Pending(st, c))
      /\ st.cl[c].dirty_cas \/ st.cl[c].watched = cl[c].watched
  BY DEF Covered
<1>2. \A w \in Slot : At(f, w) = IF w[1] \in D THEN NoEntry ELSE At(st, w)
  BY DEF At, FlushCommand, Replace, Emptied, StType, Slot
<1>3. f.cl[c] = TouchAllInDbs(st.cl, D, st.dbs, new, now)[c]
  BY DEF FlushCommand, Replace, StType
<1>4. \A w \in Slot : w[1] \in D => new[w[1]][w[2]] = NoEntry
  BY DEF Emptied, Slot
<1>5. ~Present(NoEntry) /\ ~IsExpired(NoEntry, now)
  BY LogicalFacts, NoEntryType
<1>6. /\ f.cl[c].stale = st.cl[c].stale \ (Hit \cap st.cl[c].stale)
      /\ f.cl[c].dirty_cas = (st.cl[c].dirty_cas \/ Hit \ st.cl[c].stale # {})
      /\ f.cl[c].watched = st.cl[c].watched
  <2> DEFINE Before(w)  == st.dbs[w[1]][w[2]]
             After(w)   == new[w[1]][w[2]]
             HitT  == {w \in st.cl[c].watched :
                          w[1] \in D /\ (Present(Before(w)) \/ Present(After(w)))}
             Cleared == {w \in HitT : w \in st.cl[c].stale /\ ~Present(After(w))}
             Stale   == {w \in HitT : /\ w \in st.cl[c].stale \/ ~Present(Before(w))
                                     /\ IsExpired(After(w), now)}
             Dirty   == HitT \ (Cleared \cup Stale) # {}
  <2>1. HitT = Hit  BY <1>0, <1>4, <1>5 DEF At
  <2>2. Cleared = Hit \cap st.cl[c].stale /\ Stale = {}
    BY <1>0, <1>4, <1>5, <2>1
  <2>3. TouchAllInDbs(st.cl, D, st.dbs, new, now)[c]
          = [st.cl[c] EXCEPT !.stale     = (@ \ Cleared) \cup Stale,
                             !.dirty_cas = @ \/ Dirty,
                             !.queue     = IF Dirty THEN <<>> ELSE @]
    BY DEF TouchAllInDbs
  <2> HIDE DEF HitT, Cleared, Stale, Hit
  <2>4. Dirty = (Hit \ st.cl[c].stale # {})  BY <2>1, <2>2
  <2> QED BY <1>0, <1>3, <2>2, <2>3, <2>4 DEF ClientState
<1> HIDE DEF f
<1>7. StaleOK(f, c)
  <2> SUFFICES ASSUME NEW w \in f.cl[c].stale
               PROVE  w \in f.cl[c].watched /\ IsExpired(At(f, w), now)
    BY DEF StaleOK
  <2>1. w \in st.cl[c].stale /\ w \notin Hit /\ w \in Slot  BY <1>0, <1>6
  <2>2. w \in st.cl[c].watched /\ IsExpired(At(st, w), now)  BY <1>1, <2>1 DEF StaleOK
  <2>3. Present(At(st, w))  BY <2>1, <2>2, LogicalFacts, AtType
  <2> QED BY <1>2, <1>6, <2>1, <2>2, <2>3
<1>8. Pending(st, c) => Pending(f, c)
  <2> SUFFICES ASSUME Pending(st, c), ~f.cl[c].dirty_cas PROVE Pending(f, c)
    BY DEF Pending
  <2>1. ~st.cl[c].dirty_cas /\ Hit \subseteq st.cl[c].stale  BY <1>6
  <2>2. PICK w \in st.cl[c].watched \ st.cl[c].stale : IsExpired(At(st, w), now)
    BY <2>1 DEF Pending
  <2>3. w \in Slot /\ w[1] \notin D
    BY <1>0, <2>1, <2>2, LogicalFacts, AtType
  <2> QED BY <1>2, <1>6, <2>2, <2>3 DEF Pending
<1>9. Differs(f, c) => Differs(st, c) \/ f.cl[c].dirty_cas
  <2> SUFFICES ASSUME NEW w \in cl[c].watched, ~f.cl[c].dirty_cas,
                      Logical(At(State, w), now) # Logical(At(f, w), now)
               PROVE  Logical(At(State, w), now) # Logical(At(st, w), now)
    BY DEF Differs
  <2>1. ~st.cl[c].dirty_cas /\ Hit \subseteq st.cl[c].stale /\ w \in Slot
    BY <1>0, <1>6
  <2>2. w \in st.cl[c].watched  BY <1>1, <2>1
  <2>3. CASE w[1] \notin D  BY <1>2, <2>1, <2>3
  <2>4. CASE w[1] \in D /\ ~Present(At(st, w))
    BY <1>2, <2>1, <2>4, LogicalFacts, AtType
  <2>5. CASE w[1] \in D /\ Present(At(st, w))
    <3>1. w \in st.cl[c].stale  BY <2>1, <2>2, <2>5
    <3>2. IsExpired(At(st, w), now)  BY <1>1, <3>1 DEF StaleOK
    <3>3. Logical(At(st, w), now) = NoEntry /\ Logical(At(f, w), now) = NoEntry
      BY <1>2, <2>1, <2>5, <3>2, LogicalFacts, AtType
    <3> QED BY <3>3
  <2> QED BY <2>3, <2>4, <2>5
<1> QED BY <1>1, <1>6, <1>7, <1>8, <1>9 DEF Pending

\* Every data command of a client of a primary, SWAPDB excepted.
LEMMA CallDataCovered ==
  ASSUME NEW st \in StType, NEW d \in DB, NEW cmd \in Commands, Role = "primary",
         cmd.op \notin {"select", "unwatch", "swapdb"},
         CanWrite(CallData(st, d, cmd, FALSE)), Covered(st), cl \in Clients
  PROVE  Covered(CallData(st, d, cmd, FALSE))
<1> DEFINE w   == <<d, cmd.key>>
           st1 == ExpireIfNeeded(st, w, FALSE)
           res == CallData(st, d, cmd, FALSE)
<1>1. /\ w \in Slot /\ cmd.op \in Op
      /\ cmd.when \in NoExpire..MaxTime /\ NoExpire \in NoExpire..MaxTime
  BY CommandsAssumption, BoundsAssumption DEF CommandType, Slot, NoExpire
<1>2. st1 \in StType /\ Covered(st1) /\ ~IsExpired(At(st1, w), now)
  BY <1>1, ExpireIfNeededType, ExpireCovered
<1>3. Covered(Put(st, w, NoEntry)) /\ Covered(Put(st1, w, NoEntry))
  BY <1>1, <1>2, PutCovered, NoEntryType
<1>4. ASSUME NEW x \in NoExpire..MaxTime, CanWrite(Write(st1, w, x))
      PROVE  Covered(Write(st1, w, x))
  BY <1>1, <1>2, <1>4, WriteCovered
<1> HIDE DEF w, st1
<1>5. CASE cmd.op = "set"
  <2>1. res = Write(st1, w, NoExpire)  BY <1>5 DEF CallData, SetCommand, st1, w
  <2> QED BY <1>1, <1>4, <2>1
<1>6. CASE cmd.op = "setpx"
  <2>1. res = SetPxCommand(st, w, cmd.when, FALSE)  BY <1>6 DEF CallData, w
  <2>2. res \in {Write(st1, w, cmd.when), Put(st1, w, NoEntry), st1}
    BY <2>1 DEF SetPxCommand, st1
  <2> QED BY <1>1, <1>2, <1>3, <1>4, <2>2
<1>7. CASE cmd.op = "expire"
  <2>1. res = ExpireCommand(st, w, cmd.when, FALSE)  BY <1>7 DEF CallData, w
  <2>2. res \in {Write(st1, w, cmd.when), Put(st1, w, NoEntry), st1}
    BY <2>1 DEF ExpireCommand, st1
  <2> QED BY <1>1, <1>2, <1>3, <1>4, <2>2
<1>8. CASE cmd.op = "persist"
  <2>1. res = PersistCommand(st, w, FALSE)  BY <1>8 DEF CallData, w
  <2>2. res \in {Write(st1, w, NoExpire), st1}
    BY <2>1 DEF PersistCommand, st1
  <2> QED BY <1>1, <1>2, <1>4, <2>2
<1>9. CASE cmd.op = "del"
  <2>1. res = DelCommand(st, w, FALSE)  BY <1>9 DEF CallData, w
  <2>2. res \in {st1, Put(st, w, NoEntry), st}
    BY <2>1 DEF DelCommand, st1
  <2> QED BY <1>2, <1>3, <2>2
<1>10. CASE cmd.op = "get"
  BY <1>2, <1>10 DEF CallData, st1, w
<1>11. CASE cmd.op = "flushdb"
  BY <1>11, FlushCovered DEF CallData
<1>12. CASE cmd.op = "flushall"
  BY <1>12, FlushCovered DEF CallData
<1> QED
  BY <1>1, <1>5, <1>6, <1>7, <1>8, <1>9, <1>10, <1>11, <1>12 DEF Op

\* The invariant of the state the command starts from.
LEMMA StateCovered ==
  ASSUME TypeOK, StaleIsExpired, ChangeIsPending
  PROVE  Covered(State)
BY DEF Covered, StaleOK, Pending, Differs, State, At, StaleIsExpired, ChangeIsPending

\* The end of the command: what is covered is pending in the next state.
LEMMA CoveredStep ==
  ASSUME TypeOK, NEW st \in StType, Covered(st), Apply(st), now' = now,
         Observe({})
  PROVE  StaleIsExpired' /\ ChangeIsPending'
<1>1. cl' = st.cl /\ \A w \in Slot : At(st, w) = dbs'[w[1]][w[2]]
  BY DEF Apply, At
<1>2. \A c \in Client : cl[c].watched \subseteq Slot /\ st.cl[c].watched \subseteq Slot
  BY DEF TypeOK, StType, Clients, ClientState
<1>3. ASSUME NEW c \in Client, moved'[c] PROVE Differs(st, c)
  BY <1>1, <1>2, <1>3 DEF Observe, Changed, Differs, State, At
<1>4. StaleIsExpired'
  BY <1>1, <1>2 DEF Covered, StaleOK, StaleIsExpired
<1>5. ChangeIsPending'
  <2> SUFFICES ASSUME NEW c \in Client, moved'[c]
               PROVE  \/ cl'[c].dirty_cas
                      \/ \E w \in cl'[c].watched \ cl'[c].stale :
                           IsExpired(dbs'[w[1]][w[2]], now')
    BY DEF ChangeIsPending
  <2>1. Pending(st, c)  BY <1>3 DEF Covered
  <2> QED BY <1>1, <1>2, <2>1 DEF Pending
<1> QED BY <1>4, <1>5

\* A client that gives up its watches, the keyspace unchanged, disturbs nobody.
LEMMA UnwatchStep ==
  ASSUME TypeOK, StaleIsExpired, ChangeIsPending, NEW c \in Client,
         UNCHANGED <<now, dbs>>, Observe({c}),
         cl'[c].stale = {},
         \A b \in Client \ {c} : /\ cl'[b].watched = cl[b].watched
                                 /\ cl'[b].stale = cl[b].stale
                                 /\ cl'[b].dirty_cas = cl[b].dirty_cas
  PROVE  StaleIsExpired' /\ ChangeIsPending'
<1>1. Changed = {}  BY DEF Changed
<1>2. \A b \in Client : moved'[b] => b # c /\ moved[b]
  BY <1>1 DEF Observe
<1> QED BY <1>2 DEF StaleIsExpired, ChangeIsPending

\* One command of client c, top level or inside EXEC.
LEMMA CallStep ==
  ASSUME TypeOK, Plain, StaleIsExpired, ChangeIsPending,
         NEW c \in Client, NEW cmd \in Commands, now' = now,
         CanWrite(Call(State, c, cmd)), Apply(Call(State, c, cmd)),
         Observe(GivesUp(c, cmd))
  PROVE  StaleIsExpired' /\ ChangeIsPending'
<1>0. /\ State \in StType /\ Covered(State) /\ cl \in Clients
      /\ \A b \in Client : cl[b] \in ClientState
      /\ cl[c].db \in DB
      /\ State.cl = cl /\ State.dbs = dbs
  BY StateType, StateCovered DEF TypeOK, Clients, ClientState, State
<1>1. CASE cmd.op = "select"
  <2>1. Observe({})  BY <1>1 DEF GivesUp
  <2> DEFINE st == Call(State, c, cmd)
  <2>2. st \in StType  BY <1>0, CallType
  <2>3. /\ st.dbs = dbs
        /\ \A b \in Client : /\ st.cl[b].watched = cl[b].watched
                             /\ st.cl[b].stale = cl[b].stale
                             /\ st.cl[b].dirty_cas = cl[b].dirty_cas
    BY <1>0, <1>1 DEF Call, State, ClientState, Clients
  <2> HIDE DEF st
  <2>4. Covered(st)
    BY <1>0, <2>3 DEF Covered, StaleOK, Pending, Differs, At
  <2> QED BY <2>1, <2>2, <2>4, CoveredStep DEF st
<1>2. CASE cmd.op = "unwatch"
  <2>1. Observe({c})  BY <1>2 DEF GivesUp
  <2>2. /\ dbs' = dbs
        /\ cl' = [UnwatchAll(cl, {c}) EXCEPT ![c].dirty_cas = FALSE]
    BY <1>2 DEF Call, State, Apply
  <2>3. /\ cl'[c].stale = {}
        /\ \A b \in Client \ {c} : /\ cl'[b].watched = cl[b].watched
                                   /\ cl'[b].stale = cl[b].stale
                                   /\ cl'[b].dirty_cas = cl[b].dirty_cas
    BY <1>0, <2>2 DEF UnwatchAll, ClientState
  <2> QED BY <2>1, <2>2, <2>3, UnwatchStep
<1>3. CASE cmd.op \notin {"select", "unwatch"}
  <2>1. Observe({})  BY <1>3 DEF GivesUp
  <2>2. Call(State, c, cmd) = CallData(State, cl[c].db, cmd, FALSE)
    BY <1>0, <1>3 DEF Call
  <2>3. Call(State, c, cmd) \in StType  BY <1>0, CallType
  <2>4. Covered(Call(State, c, cmd))
    BY <1>0, <1>3, <2>2, CallDataCovered DEF Plain
  <2> QED BY <2>1, <2>3, <2>4, CoveredStep
<1> QED BY <1>1, <1>2, <1>3

\* DISCARD, a failed EXEC and the end of EXEC.
LEMMA DiscardStep ==
  ASSUME TypeOK, StaleIsExpired, ChangeIsPending, NEW c \in Client, Discarded(c)
  PROVE  StaleIsExpired' /\ ChangeIsPending'
<1>1. \A b \in Client : cl[b] \in ClientState  BY DEF TypeOK
<1>2. /\ cl'[c].stale = {}
      /\ \A b \in Client \ {c} : /\ cl'[b].watched = cl[b].watched
                                 /\ cl'[b].stale = cl[b].stale
                                 /\ cl'[b].dirty_cas = cl[b].dirty_cas
  BY <1>1 DEF Discarded, DiscardTransaction, UnwatchAll, ClientState
<1> QED BY <1>2, UnwatchStep DEF Discarded

\* The clock: a watched name that expires now is not stale.
LEMMA TickStep ==
  ASSUME TypeOK, StaleIsExpired, ChangeIsPending, Tick
  PROVE  StaleIsExpired' /\ ChangeIsPending'
<1>1. now \in Nat /\ now' = now + 1 /\ cl' = cl /\ dbs' = dbs
  BY DEF TypeOK, Tick
<1>2. \A c \in Client : cl[c].watched \subseteq Slot /\ cl[c].stale \subseteq Slot
  BY DEF TypeOK, ClientState
<1>3. ASSUME NEW w \in Slot, IsExpired(dbs[w[1]][w[2]], now)
      PROVE  IsExpired(dbs[w[1]][w[2]], now')
  <2>1. dbs[w[1]][w[2]] \in Entry  BY DEF TypeOK, Slot
  <2>2. dbs[w[1]][w[2]].expire \in NoExpire..MaxTime
    BY <2>1, BoundsAssumption DEF Entry, NoEntry, NoExpire
  <2> QED BY <1>1, <1>3, <2>2, BoundsAssumption DEF IsExpired, NoExpire
<1>4. StaleIsExpired'
  BY <1>1, <1>2, <1>3 DEF StaleIsExpired
<1>5. ChangeIsPending'
  <2> SUFFICES ASSUME NEW c \in Client, moved'[c]
               PROVE  \/ cl[c].dirty_cas
                      \/ \E w \in cl[c].watched \ cl[c].stale :
                           IsExpired(dbs[w[1]][w[2]], now')
    BY <1>1 DEF ChangeIsPending
  <2>1. moved[c] \/ cl[c].watched \cap Changed # {}
    BY DEF Tick, Observe
  <2>2. CASE moved[c]  BY <1>2, <1>3, <2>2 DEF ChangeIsPending
  <2>3. CASE cl[c].watched \cap Changed # {}
    <3>1. PICK w \in cl[c].watched : w \in Changed  BY <2>3
    <3>2. Logical(dbs[w[1]][w[2]], now) # Logical(dbs[w[1]][w[2]], now')
      BY <1>1, <3>1 DEF Changed
    <3>3. w \in Slot /\ ~IsExpired(dbs[w[1]][w[2]], now) /\ IsExpired(dbs[w[1]][w[2]], now')
      BY <1>2, <1>3, <3>1, <3>2 DEF Logical
    <3>4. w \notin cl[c].stale  BY <3>3 DEF StaleIsExpired
    <3> QED BY <3>1, <3>3, <3>4
  <2> QED BY <2>1, <2>2, <2>3
<1> QED BY <1>4, <1>5

\* PrimaryInv is inductive, given types.
LEMMA PrimaryStep == TypeOK /\ PrimaryInv /\ [Next]_vars => PrimaryInv'
<1> SUFFICES ASSUME TypeOK, Plain, StaleIsExpired, ChangeIsPending, [Next]_vars
             PROVE  StaleIsExpired' /\ ChangeIsPending'
  BY DEF PrimaryInv, Plain
<1>0. /\ State \in StType /\ Covered(State) /\ cl \in Clients
      /\ \A b \in Client : cl[b] \in ClientState
  BY StateType, StateCovered DEF TypeOK, Clients
<1>1. ASSUME NEW c \in Client, ClientStep(c) PROVE StaleIsExpired' /\ ChangeIsPending'
  <2>1. CASE MultiCommand(c)
    <3>1. /\ UNCHANGED <<now, dbs, moved>>
          /\ \A b \in Client : /\ cl'[b].watched = cl[b].watched
                               /\ cl'[b].stale = cl[b].stale
                               /\ cl'[b].dirty_cas = cl[b].dirty_cas
      BY <1>0, <2>1 DEF MultiCommand, ClientState
    <3> QED BY <3>1 DEF StaleIsExpired, ChangeIsPending
  <2>2. CASE RejectCommand(c)
    <3> DEFINE x == [cl[c] EXCEPT !.dirty_exec = TRUE, !.queue = <<>>]
    <3>a. cl' = [cl EXCEPT ![c] = x] /\ UNCHANGED <<now, dbs, moved>>
      BY <2>2 DEF RejectCommand
    <3>b. /\ x.watched = cl[c].watched /\ x.stale = cl[c].stale
          /\ x.dirty_cas = cl[c].dirty_cas
      BY <1>0 DEF ClientState
    <3> HIDE DEF x
    <3>1. /\ UNCHANGED <<now, dbs, moved>>
          /\ \A b \in Client : /\ cl'[b].watched = cl[b].watched
                               /\ cl'[b].stale = cl[b].stale
                               /\ cl'[b].dirty_cas = cl[b].dirty_cas
      BY <1>0, <3>a, <3>b DEF Clients
    <3> QED BY <3>1 DEF StaleIsExpired, ChangeIsPending
  <2>3. ASSUME NEW K \in SUBSET Key, WatchCommand(c, K)
        PROVE  StaleIsExpired' /\ ChangeIsPending'
    <3> DEFINE new == ({cl[c].db} \X K) \ cl[c].watched
               exp == {w \in new : IsExpired(dbs[w[1]][w[2]], now)}
               x   == [cl[c] EXCEPT !.watched = @ \cup new, !.stale = @ \cup exp,
                          !.ahead = [w \in Slot |-> IF w \in new THEN Watchers(cl, w)
                                                                ELSE @[w]]]
    <3>a. cl' = [cl EXCEPT ![c] = x] /\ UNCHANGED <<now, dbs, moved>>
      BY <2>3 DEF WatchCommand
    <3>b. /\ x.watched = cl[c].watched \cup new /\ x.stale = cl[c].stale \cup exp
          /\ x.dirty_cas = cl[c].dirty_cas
      BY <1>0 DEF ClientState
    <3> HIDE DEF x
    <3>1. /\ UNCHANGED <<now, dbs, moved>>
          /\ cl'[c].watched = cl[c].watched \cup new
          /\ cl'[c].stale = cl[c].stale \cup exp
          /\ cl'[c].dirty_cas = cl[c].dirty_cas
          /\ \A b \in Client \ {c} : cl'[b] = cl[b]
      BY <1>0, <3>a, <3>b DEF Clients
    <3>2. StaleIsExpired'  BY <3>1 DEF StaleIsExpired
    <3>3. cl[c].watched \ cl[c].stale \subseteq cl'[c].watched \ cl'[c].stale
      BY <3>1
    <3>4. ChangeIsPending'  BY <3>1, <3>3 DEF ChangeIsPending
    <3> QED BY <3>2, <3>4
  <2>4. ASSUME NEW cmd \in Commands, QueueCommand(c, cmd)
        PROVE  StaleIsExpired' /\ ChangeIsPending'
    <3>1. /\ UNCHANGED <<now, dbs, moved>>
          /\ \A b \in Client : /\ cl'[b].watched = cl[b].watched
                               /\ cl'[b].stale = cl[b].stale
                               /\ cl'[b].dirty_cas = cl[b].dirty_cas
      BY <1>0, <2>4 DEF QueueCommand, ClientState
    <3> QED BY <3>1 DEF StaleIsExpired, ChangeIsPending
  <2>5. ASSUME NEW cmd \in Commands, DirectCommand(c, cmd)
        PROVE  StaleIsExpired' /\ ChangeIsPending'
    BY <2>5, CallStep DEF DirectCommand
  <2>6. CASE DiscardCommand(c)  BY <2>6, DiscardStep DEF DiscardCommand
  <2>7. CASE ExecAborted(c)  BY <2>7, DiscardStep DEF ExecAborted
  <2>8. CASE ExecRejected(c)  BY <2>8, DiscardStep DEF ExecRejected
  <2>9. CASE ExecStart(c)
    <3>1. /\ cl'[c].stale = {}
          /\ \A b \in Client \ {c} : /\ cl'[b].watched = cl[b].watched
                                     /\ cl'[b].stale = cl[b].stale
                                     /\ cl'[b].dirty_cas = cl[b].dirty_cas
      BY <1>0, <2>9 DEF ExecStart, UnwatchAll, ClientState
    <3> QED BY <2>9, <3>1, UnwatchStep DEF ExecStart
  <2>10. CASE ExecStep(c)
    <3> DEFINE cmd == cl[c].queue[exec_pos + 1]
    <3>1. cmd \in Commands
      BY <1>0, <2>10 DEF ExecStep, ClientState, TypeOK
    <3>2. now' = now /\ Observe(GivesUp(c, cmd))  BY <2>10 DEF ExecStep
    <3>3. \/ CanWrite(Call(State, c, cmd)) /\ Apply(Call(State, c, cmd))
          \/ UNCHANGED <<dbs, cl, stamp>>
      BY <2>10 DEF ExecStep
    <3> HIDE DEF cmd
    <3>4. CASE CanWrite(Call(State, c, cmd)) /\ Apply(Call(State, c, cmd))
      BY <3>1, <3>2, <3>4, CallStep
    <3>5. CASE UNCHANGED <<dbs, cl, stamp>>
      <4>1. Changed = {}  BY <3>2, <3>5 DEF Changed
      <4>2. \A b \in Client : moved'[b] => moved[b]
        BY <3>2, <4>1 DEF Observe
      <4> QED BY <3>2, <3>5, <4>2 DEF StaleIsExpired, ChangeIsPending
    <3> QED BY <3>3, <3>4, <3>5
  <2>11. CASE ExecEnd(c)  BY <2>11, DiscardStep DEF ExecEnd
  <2>12. CASE Disconnect(c)
    <3>1. /\ cl'[c].stale = {}
          /\ \A b \in Client \ {c} : /\ cl'[b].watched = cl[b].watched
                                     /\ cl'[b].stale = cl[b].stale
                                     /\ cl'[b].dirty_cas = cl[b].dirty_cas
      BY <1>0, <2>12 DEF Disconnect, UnwatchAll, InitialClient, ClientState
    <3> QED BY <2>12, <3>1, UnwatchStep DEF Disconnect
  <2> QED BY <1>1, <2>1, <2>2, <2>3, <2>4, <2>5, <2>6, <2>7, <2>8, <2>9, <2>10,
             <2>11, <2>12 DEF ClientStep
<1>2. ASSUME NEW w \in Slot, ActiveExpire(w) PROVE StaleIsExpired' /\ ChangeIsPending'
  BY <1>0, <1>2, PutType, PutCovered, NoEntryType, CoveredStep DEF ActiveExpire
<1>3. ASSUME NEW d \in DB, NEW cmd \in Commands, PrimaryCommand(d, cmd) PROVE FALSE
  BY <1>3 DEF PrimaryCommand, Plain
<1>4. ASSUME NEW val, NEW last, NEW e, NEW m, FullSync(val, last, e, m) PROVE FALSE
  BY <1>4 DEF FullSync, Plain
<1>5. CASE Tick  BY <1>5, TickStep
<1>6. CASE UNCHANGED vars
  BY <1>6 DEF vars, StaleIsExpired, ChangeIsPending
<1> QED BY <1>1, <1>2, <1>3, <1>4, <1>5, <1>6 DEF Next, ServerStep

\* On a primary whose clients do not use SWAPDB, touchWatchedKey never stops
\* early and every change of a watched name is either recorded in dirty_cas or
\* visible to isWatchedKeyExpired.
THEOREM WatchInvariant == Spec => []PrimaryInv
<1>1. Init => TypeOK /\ PrimaryInv
  <2>1. Init => TypeOK
    BY InitialClientType, NoEntryType, BoundsAssumption DEF Init, TypeOK
  <2>2. Init => PrimaryInv
    BY DEF Init, PrimaryInv, StaleIsExpired, ChangeIsPending, InitialClient
  <2> QED BY <2>1, <2>2
<1> QED BY <1>1, TypeStep, PrimaryStep, PTL DEF Spec

\* The guarantee of WATCH (multi.c, execCommand): on such a primary no EXEC runs
\* after a watched name has changed, whoever changed it and however.
THEOREM WatchIsSafe ==
  ASSUME Plain
  PROVE  Spec => WatchedChangeAborts
<1>1. TypeOK /\ PrimaryInv /\ [Next]_vars
        => [\A c \in Client : in_exec # c /\ in_exec' = c => ~moved[c]]_vars
  <2> SUFFICES ASSUME TypeOK, PrimaryInv, Next,
                      NEW c \in Client, in_exec # c, in_exec' = c
               PROVE  ~moved[c]
    BY DEF vars
  <2>1. ExecStart(c)
    BY NoneAssumption DEF Next, ClientStep, ServerStep, MultiCommand, RejectCommand,
       WatchCommand, QueueCommand, DirectCommand, DiscardCommand, ExecAborted,
       ExecRejected, ExecStart, ExecStep, ExecEnd, Disconnect, ActiveExpire,
       PrimaryCommand, FullSync, Tick, Discarded
  <2>2. ~cl[c].dirty_cas /\ ~IsWatchedKeyExpired(c)  BY <2>1 DEF ExecStart
  <2> QED BY <2>2 DEF PrimaryInv, ChangeIsPending, IsWatchedKeyExpired
<1> QED BY <1>1, TypeCorrect, WatchInvariant, PTL DEF Spec, WatchedChangeAborts

-----------------------------------------------------------------------------
(* What holds on a primary and on a replica: the queue EXEC runs is the    *)
(* one the client was told about, and a client is made dirty only by a     *)
(* change it can see.                                                      *)

-----------------------------------------------------------------------------
(* The queue.                                                              *)

\* What one command may do to the transaction of a client c that is not the one
\* sending it: nothing, or the queue is dropped and dirty_cas set, which takes a
\* watched name.
Keeps(s, t, c) ==
  /\ t[c].multi = s[c].multi
  /\ t[c].dirty_exec = s[c].dirty_exec
  /\ t[c].watched \subseteq s[c].watched
  /\ \/ t[c].dirty_cas = s[c].dirty_cas /\ t[c].queue = s[c].queue
     \/ s[c].watched # {} /\ t[c].dirty_cas /\ t[c].queue = <<>>

\* Several changes in a row are one change.
LEMMA KeepsTransitive ==
  ASSUME NEW s, NEW t, NEW u, NEW c, Keeps(s, t, c), Keeps(t, u, c)
  PROVE  Keeps(s, u, c)
BY DEF Keeps

\* unwatchAllKeys of the clients of D touches no queue.
LEMMA UnwatchAllKeeps ==
  ASSUME NEW s \in Clients, NEW D, NEW c \in Client
  PROVE  /\ UnwatchAll(s, D)[c].multi = s[c].multi
         /\ UnwatchAll(s, D)[c].dirty_cas = s[c].dirty_cas
         /\ UnwatchAll(s, D)[c].dirty_exec = s[c].dirty_exec
         /\ UnwatchAll(s, D)[c].queue = s[c].queue
         /\ UnwatchAll(s, D)[c].watched = IF c \in D THEN {} ELSE s[c].watched
         /\ UnwatchAll(s, D)[c].stale = IF c \in D THEN {} ELSE s[c].stale
<1>1. s[c] \in ClientState  BY DEF Clients
<1> QED BY <1>1 DEF UnwatchAll, ClientState

\* What touchWatchedKey does to client c: made dirty and unlinked, or a stale name
\* cleaned, or nothing.
TouchOutcome(s, t, w, c) ==
  \/ /\ w \in s[c].watched \ s[c].stale
     /\ t[c].dirty_cas /\ t[c].queue = <<>> /\ t[c].watched = {} /\ t[c].stale = {}
  \/ /\ t[c].dirty_cas = s[c].dirty_cas /\ t[c].queue = s[c].queue
     /\ t[c].watched = s[c].watched
     /\ t[c].stale \in {s[c].stale, s[c].stale \ {w}}

\* touchWatchedKey, whether or not its walk is cut short.
LEMMA TouchCases ==
  ASSUME NEW s \in Clients, NEW w \in Slot, NEW present \in BOOLEAN, NEW c \in Client
  PROVE  LET t == TouchWatchedKey(s, w, present)
         IN  /\ t[c].multi = s[c].multi /\ t[c].dirty_exec = s[c].dirty_exec
             /\ TouchOutcome(s, t, w, c)
             /\ ~present /\ w \in s[c].stale /\ w \in s[c].watched
                  => t[c].stale = s[c].stale \ {w}
             /\ present /\ w \in s[c].stale => t[c].stale = s[c].stale
<1> DEFINE reached == Reached(s, w, present)
           dirtied == {b \in reached : w \notin s[b].stale}
           flagged == [b \in Client |->
                    IF b \in dirtied
                      THEN [s[b] EXCEPT !.dirty_cas = TRUE, !.queue = <<>>]
                    ELSE IF b \in reached
                      THEN [s[b] EXCEPT !.stale = @ \ {w}]
                    ELSE s[b]]
           t == TouchWatchedKey(s, w, present)
<1>1. s[c] \in ClientState /\ <<>> \in Seq(Commands)  BY DEF Clients
<1>2. c \in dirtied => w \in s[c].watched \ s[c].stale
  BY DEF Reached, Watchers
<1>3. /\ ~present /\ w \in s[c].watched => c \in reached
      /\ present /\ w \in s[c].stale => c \notin reached
  BY DEF Reached, Watchers
<1> HIDE DEF reached
<1>4. flagged \in Clients
  <2> SUFFICES ASSUME NEW b \in Client PROVE flagged[b] \in ClientState
    BY DEF Clients
  <2>1. s[b] \in ClientState  BY DEF Clients
  <2> QED BY <1>1, <2>1 DEF ClientState
<1>5. /\ flagged[c].multi = s[c].multi /\ flagged[c].dirty_exec = s[c].dirty_exec
      /\ flagged[c].watched = s[c].watched
      /\ c \in dirtied => flagged[c].dirty_cas /\ flagged[c].queue = <<>>
      /\ c \notin dirtied => /\ flagged[c].dirty_cas = s[c].dirty_cas
                             /\ flagged[c].queue = s[c].queue
                             /\ flagged[c].stale = IF c \in reached THEN s[c].stale \ {w}
                                                                    ELSE s[c].stale
  BY <1>1 DEF ClientState
<1>6. w \in s[c].stale => c \notin dirtied
  OBVIOUS
<1>7. t = UnwatchAll(flagged, dirtied)
  BY DEF TouchWatchedKey, reached
<1> HIDE DEF flagged, dirtied, t
<1>8. /\ t[c].multi = flagged[c].multi /\ t[c].dirty_exec = flagged[c].dirty_exec
      /\ t[c].dirty_cas = flagged[c].dirty_cas /\ t[c].queue = flagged[c].queue
      /\ t[c].watched = IF c \in dirtied THEN {} ELSE flagged[c].watched
      /\ t[c].stale = IF c \in dirtied THEN {} ELSE flagged[c].stale
  BY <1>4, <1>7, UnwatchAllKeeps
<1> QED BY <1>2, <1>3, <1>5, <1>6, <1>8 DEF TouchOutcome, t

\* touchAllWatchedKeysInDb: what it does to client c.
LEMMA TouchAllCases ==
  ASSUME NEW s \in Clients, NEW D, NEW old, NEW new, NEW time, NEW c \in Client
  PROVE  LET t       == TouchAllInDbs(s, D, old, new, time)
             Before(w) == old[w[1]][w[2]]
             After(w)  == new[w[1]][w[2]]
             Hit     == {w \in s[c].watched :
                           w[1] \in D /\ (Present(Before(w)) \/ Present(After(w)))}
             Cleared == {w \in Hit : w \in s[c].stale /\ ~Present(After(w))}
             Stale   == {w \in Hit : /\ w \in s[c].stale \/ ~Present(Before(w))
                                     /\ IsExpired(After(w), time)}
             Dirty   == Hit \ (Cleared \cup Stale) # {}
         IN  /\ t[c].multi = s[c].multi /\ t[c].dirty_exec = s[c].dirty_exec
             /\ t[c].watched = s[c].watched
             /\ t[c].stale = (s[c].stale \ Cleared) \cup Stale
             /\ t[c].dirty_cas = (s[c].dirty_cas \/ Dirty)
             /\ t[c].queue = IF Dirty THEN <<>> ELSE s[c].queue
<1>1. s[c] \in ClientState  BY DEF Clients
<1> QED BY <1>1 DEF TouchAllInDbs, ClientState

\* Storing or deleting one name.
LEMMA PutKeeps ==
  ASSUME NEW st \in StType, NEW w \in Slot, NEW e \in Entry, NEW c \in Client
  PROVE  Keeps(st.cl, Put(st, w, e).cl, c)
<1>1. st.cl \in Clients /\ Put(st, w, e).cl = TouchWatchedKey(st.cl, w, Present(e))
  BY DEF StType, Put
<1>2. Present(e) \in BOOLEAN  BY DEF Present
<1>3. /\ Put(st, w, e).cl[c].multi = st.cl[c].multi
      /\ Put(st, w, e).cl[c].dirty_exec = st.cl[c].dirty_exec
      /\ TouchOutcome(st.cl, Put(st, w, e).cl, w, c)
  BY <1>1, <1>2, TouchCases
<1> QED BY <1>3 DEF Keeps, TouchOutcome

\* Storing a new value.
LEMMA WriteKeeps ==
  ASSUME NEW st \in StType, NEW w \in Slot, NEW expire \in NoExpire..MaxTime,
         CanWrite(Write(st, w, expire)), NEW c \in Client
  PROVE  Keeps(st.cl, Write(st, w, expire).cl, c)
<1> DEFINE e == [stamp |-> st.stamp + 1, expire |-> expire]
<1>1. e \in Entry
  BY BoundsAssumption DEF Write, CanWrite, Put, StType, Entry
<1>2. Write(st, w, expire).cl = Put(st, w, e).cl
  BY DEF Write, Put
<1> QED BY <1>1, <1>2, PutKeeps

\* Exchanging the contents of databases.
LEMMA ReplaceKeeps ==
  ASSUME NEW st \in StType, NEW D, NEW new, NEW c \in Client
  PROVE  Keeps(st.cl, Replace(st, D, new).cl, c)
<1> DEFINE t == TouchAllInDbs(st.cl, D, st.dbs, new, now)
<1>1. st.cl \in Clients /\ Replace(st, D, new).cl = t
  BY DEF StType, Replace
<1>2. st.cl[c] \in ClientState  BY <1>1 DEF Clients
<1>3. /\ t[c].multi = st.cl[c].multi /\ t[c].dirty_exec = st.cl[c].dirty_exec
      /\ t[c].watched = st.cl[c].watched
      /\ \/ t[c].dirty_cas = st.cl[c].dirty_cas /\ t[c].queue = st.cl[c].queue
         \/ st.cl[c].watched # {} /\ t[c].dirty_cas /\ t[c].queue = <<>>
  <2> DEFINE Hit == {w \in st.cl[c].watched :
                       w[1] \in D /\ (Present(st.dbs[w[1]][w[2]]) \/ Present(new[w[1]][w[2]]))}
             Cleared == {w \in Hit : w \in st.cl[c].stale /\ ~Present(new[w[1]][w[2]])}
             Stale   == {w \in Hit : /\ w \in st.cl[c].stale \/ ~Present(st.dbs[w[1]][w[2]])
                                     /\ IsExpired(new[w[1]][w[2]], now)}
             Dirty   == Hit \ (Cleared \cup Stale) # {}
  <2>1. /\ t[c].multi = st.cl[c].multi /\ t[c].dirty_exec = st.cl[c].dirty_exec
        /\ t[c].watched = st.cl[c].watched
        /\ t[c].dirty_cas = (st.cl[c].dirty_cas \/ Dirty)
        /\ t[c].queue = IF Dirty THEN <<>> ELSE st.cl[c].queue
    BY <1>1, TouchAllCases
  <2>2. Dirty => st.cl[c].watched # {}  OBVIOUS
  <2>3. st.cl[c].dirty_cas \in BOOLEAN  BY <1>2 DEF ClientState
  <2> HIDE DEF Dirty, t
  <2> QED BY <2>1, <2>2, <2>3
<1> QED BY <1>1, <1>3 DEF Keeps

\* A data command, of a client or of the replication stream: at most one expiry,
\* then at most one write, deletion or exchange.
LEMMA CallDataKeeps ==
  ASSUME NEW st \in StType, NEW d \in DB, NEW cmd \in Commands, NEW link,
         cmd.op \notin {"select", "unwatch"}, CanWrite(CallData(st, d, cmd, link)),
         NEW c \in Client
  PROVE  Keeps(st.cl, CallData(st, d, cmd, link).cl, c)
<1> DEFINE w   == <<d, cmd.key>>
           st1 == ExpireIfNeeded(st, w, link)
           res == CallData(st, d, cmd, link)
<1>1. /\ w \in Slot /\ cmd.db \in DB /\ cmd.op \in Op
      /\ cmd.when \in NoExpire..MaxTime /\ NoExpire \in NoExpire..MaxTime
  BY CommandsAssumption, BoundsAssumption DEF CommandType, Slot, NoExpire
<1>2. st1 \in StType  BY <1>1, ExpireIfNeededType
<1>3. Keeps(st.cl, st.cl, c)  BY DEF Keeps
<1>4. Keeps(st.cl, Put(st, w, NoEntry).cl, c)  BY <1>1, PutKeeps, NoEntryType
<1>5. Keeps(st.cl, st1.cl, c)  BY <1>3, <1>4 DEF ExpireIfNeeded
<1>6. Keeps(st.cl, Put(st1, w, NoEntry).cl, c)
  BY <1>1, <1>2, <1>5, PutKeeps, NoEntryType, KeepsTransitive
<1>7. ASSUME NEW x \in NoExpire..MaxTime, CanWrite(Write(st1, w, x))
      PROVE  Keeps(st.cl, Write(st1, w, x).cl, c)
  BY <1>1, <1>2, <1>5, <1>7, WriteKeeps, KeepsTransitive
<1> HIDE DEF w, st1
<1>8. CASE cmd.op = "set"
  <2>1. res = Write(st1, w, NoExpire)  BY <1>8 DEF CallData, SetCommand, st1, w
  <2> QED BY <1>1, <1>7, <2>1
<1>9. CASE cmd.op = "setpx"
  <2>1. res = SetPxCommand(st, w, cmd.when, link)  BY <1>9 DEF CallData, w
  <2>2. res \in {Write(st1, w, cmd.when), Put(st1, w, NoEntry), st1}
    BY <2>1 DEF SetPxCommand, st1
  <2> QED BY <1>1, <1>5, <1>6, <1>7, <2>2
<1>10. CASE cmd.op = "expire"
  <2>1. res = ExpireCommand(st, w, cmd.when, link)  BY <1>10 DEF CallData, w
  <2>2. res \in {Write(st1, w, cmd.when), Put(st1, w, NoEntry), st1}
    BY <2>1 DEF ExpireCommand, st1
  <2> QED BY <1>1, <1>5, <1>6, <1>7, <2>2
<1>11. CASE cmd.op = "persist"
  <2>1. res = PersistCommand(st, w, link)  BY <1>11 DEF CallData, w
  <2>2. res \in {Write(st1, w, NoExpire), st1}
    BY <2>1 DEF PersistCommand, st1
  <2> QED BY <1>1, <1>5, <1>7, <2>2
<1>12. CASE cmd.op = "del"
  <2>1. res = DelCommand(st, w, link)  BY <1>12 DEF CallData, w
  <2>2. res \in {st1, Put(st, w, NoEntry), st}
    BY <2>1 DEF DelCommand, st1
  <2> QED BY <1>3, <1>4, <1>5, <2>2
<1>13. CASE cmd.op = "get"
  BY <1>5, <1>13 DEF CallData, st1, w
<1>14. CASE cmd.op \in {"flushdb", "flushall"}
  BY <1>14, ReplaceKeeps DEF CallData, FlushCommand
<1>15. CASE cmd.op = "swapdb"
  BY <1>3, <1>15, ReplaceKeeps DEF CallData, SwapDbCommand
<1> QED
  BY <1>1, <1>8, <1>9, <1>10, <1>11, <1>12, <1>13, <1>14, <1>15 DEF Op

\* Why QueuedIsRun holds.  Outside MULTI nothing is queued or acknowledged; a
\* transaction that is not dirty holds every command acknowledged; and the client
\* inside EXEC watches nothing, so that nothing it calls can drop its own queue.
QueueOK(c) ==
  /\ ~cl[c].multi => cl[c].queue = <<>> /\ acked[c] = 0
  /\ ~cl[c].dirty_cas /\ ~cl[c].dirty_exec => Len(cl[c].queue) = acked[c]
  /\ in_exec = c => /\ cl[c].multi /\ ~cl[c].dirty_cas /\ ~cl[c].dirty_exec
                    /\ cl[c].watched = {}

QueueInv == \A c \in Client : QueueOK(c)

\* A client whose transaction is left alone, or loses its queue to a watch.
LEMMA KeepsQueueOK ==
  ASSUME NEW c \in Client, QueueOK(c), Keeps(cl, cl', c), acked'[c] = acked[c],
         in_exec' = c => in_exec = c
  PROVE  QueueOK(c)'
BY DEF QueueOK, Keeps

\* One command of client c.
LEMMA CallQueue ==
  ASSUME TypeOK, QueueInv, NEW c \in Client, NEW cmd \in Commands,
         CanWrite(Call(State, c, cmd)), Apply(Call(State, c, cmd)),
         UNCHANGED <<in_exec, acked>>, cl[c].multi => in_exec = c
  PROVE  QueueInv'
<1>0. /\ State \in StType /\ State.cl = cl /\ cl \in Clients
      /\ \A b \in Client : cl[b] \in ClientState
      /\ cl[c].db \in DB
  BY StateType DEF TypeOK, Clients, ClientState, State
<1>1. CASE cmd.op = "select"
  <2>1. cl' = [cl EXCEPT ![c].db = cmd.db]
    BY <1>1 DEF Call, Apply, State
  <2>2. \A b \in Client : Keeps(cl, cl', b)
    BY <1>0, <2>1 DEF Keeps, ClientState
  <2> QED BY <2>2, KeepsQueueOK DEF QueueInv
<1>2. CASE cmd.op = "unwatch"
  <2> DEFINE u == UnwatchAll(cl, {c})
  <2>1. cl' = [u EXCEPT ![c].dirty_cas = FALSE]
    BY <1>2 DEF Call, Apply, State
  <2>2. u \in Clients  BY <1>0, UnwatchAllType
  <2>3. \A b \in Client : /\ u[b].multi = cl[b].multi
                          /\ u[b].dirty_cas = cl[b].dirty_cas
                          /\ u[b].dirty_exec = cl[b].dirty_exec
                          /\ u[b].queue = cl[b].queue
                          /\ u[b].watched = IF b = c THEN {} ELSE cl[b].watched
    BY <1>0, UnwatchAllKeeps
  <2> HIDE DEF u
  <2>4. /\ cl'[c].multi = cl[c].multi /\ cl'[c].dirty_exec = cl[c].dirty_exec
        /\ cl'[c].queue = cl[c].queue /\ cl'[c].watched = {}
        /\ ~cl'[c].dirty_cas
        /\ \A b \in Client \ {c} : cl'[b] = u[b]
    BY <2>1, <2>2, <2>3 DEF Clients, ClientState
  <2>5. ASSUME NEW b \in Client \ {c} PROVE QueueOK(b)'
    BY <2>3, <2>4, KeepsQueueOK DEF QueueInv, Keeps
  <2>6. QueueOK(c)'
    <3>1. QueueOK(c)  BY DEF QueueInv
    <3>2. ~cl[c].multi => Len(cl[c].queue) = 0
      BY <3>1 DEF QueueOK
    <3> QED BY <2>4, <3>1, <3>2 DEF QueueOK
  <2> QED BY <2>5, <2>6 DEF QueueInv
<1>3. CASE cmd.op \notin {"select", "unwatch"}
  <2>1. Call(State, c, cmd) = CallData(State, cl[c].db, cmd, FALSE)
    BY <1>0, <1>3 DEF Call
  <2>2. \A b \in Client : Keeps(cl, cl', b)
    BY <1>0, <1>3, <2>1, CallDataKeeps DEF Apply
  <2> QED BY <2>2, KeepsQueueOK DEF QueueInv
<1> QED BY <1>1, <1>2, <1>3

\* DISCARD, a failed EXEC and the end of EXEC: discardTransaction leaves nothing
\* queued, and nobody else's queue is touched.
LEMMA DiscardQueue ==
  ASSUME TypeOK, QueueInv, NEW c \in Client, Discarded(c),
         in_exec' \in {in_exec, None}, in_exec' # c
  PROVE  QueueInv'
<1> DEFINE u == UnwatchAll(cl, {c})
           x == [u[c] EXCEPT !.multi = FALSE, !.dirty_cas = FALSE,
                             !.dirty_exec = FALSE, !.queue = <<>>]
<1>1. cl \in Clients /\ u \in Clients  BY UnwatchAllType DEF TypeOK, Clients
<1>2. u[c] \in ClientState  BY <1>1 DEF Clients
<1>3. \A b \in Client \ {c} : Keeps(cl, u, b)
  BY <1>1, UnwatchAllKeeps DEF Keeps
<1> HIDE DEF u
<1>4. ~x.multi /\ x.queue = <<>> /\ ~x.dirty_cas
  BY <1>2 DEF ClientState
<1>5. cl' = [u EXCEPT ![c] = x]
  BY DEF Discarded, DiscardTransaction, u
<1> HIDE DEF x
<1>6. cl'[c] = x /\ \A b \in Client \ {c} : cl'[b] = u[b]
  BY <1>1, <1>5 DEF Clients
<1>7. acked'[c] = 0 /\ \A b \in Client \ {c} : acked'[b] = acked[b]
  BY DEF Discarded, TypeOK
<1>8. QueueOK(c)'
  <2>1. Len(<<>>) = 0  OBVIOUS
  <2> QED BY <1>4, <1>6, <1>7, <2>1 DEF QueueOK
<1>9. ASSUME NEW b \in Client \ {c} PROVE QueueOK(b)'
  <2>1. Keeps(cl, cl', b)  BY <1>3, <1>6 DEF Keeps
  <2> QED BY <1>7, <2>1, KeepsQueueOK, NoneAssumption DEF QueueInv
<1> QED BY <1>8, <1>9 DEF QueueInv

\* QueueInv is inductive, given types.
LEMMA QueueStep == TypeOK /\ QueueInv /\ [Next]_vars => QueueInv'
<1> SUFFICES ASSUME TypeOK, QueueInv, [Next]_vars PROVE QueueInv'
  OBVIOUS
<1>0. /\ State \in StType /\ State.cl = cl /\ cl \in Clients
      /\ \A b \in Client : cl[b] \in ClientState
      /\ acked \in [Client -> Nat]
  BY StateType DEF TypeOK, Clients, State
<1>1. ASSUME NEW c \in Client, ClientStep(c) PROVE QueueInv'
  <2>0. QueueOK(c)  BY DEF QueueInv
  <2>a. ASSUME NEW x, cl' = [cl EXCEPT ![c] = x], UNCHANGED in_exec,
               \A b \in Client \ {c} : acked'[b] = acked[b], QueueOK(c)'
        PROVE  QueueInv'
    <3>1. \A b \in Client \ {c} : Keeps(cl, cl', b)
      BY <1>0, <2>a DEF Clients, Keeps
    <3> QED BY <2>a, <3>1, KeepsQueueOK DEF QueueInv
  <2>1. CASE MultiCommand(c)
    <3> DEFINE x == [cl[c] EXCEPT !.multi = TRUE]
    <3>1. cl' = [cl EXCEPT ![c] = x] /\ UNCHANGED <<in_exec, acked>> /\ ~cl[c].multi
          /\ in_exec = None
      BY <2>1 DEF MultiCommand, Idle
    <3>2. x.queue = cl[c].queue /\ x.multi  BY <1>0 DEF ClientState
    <3>3. cl'[c] = x  BY <1>0, <3>1 DEF Clients
    <3> HIDE DEF x
    <3>4. Len(cl[c].queue) = 0 /\ acked[c] = 0  BY <2>0, <3>1 DEF QueueOK
    <3>5. QueueOK(c)'  BY <3>1, <3>2, <3>3, <3>4, NoneAssumption DEF QueueOK
    <3> QED BY <2>a, <3>1, <3>5
  <2>2. CASE RejectCommand(c)
    <3> DEFINE x == [cl[c] EXCEPT !.dirty_exec = TRUE, !.queue = <<>>]
    <3>1. cl' = [cl EXCEPT ![c] = x] /\ UNCHANGED <<in_exec, acked>> /\ cl[c].multi
          /\ in_exec = None
      BY <2>2 DEF RejectCommand, Idle
    <3>2. x.multi = cl[c].multi /\ x.dirty_exec  BY <1>0 DEF ClientState
    <3>3. cl'[c] = x  BY <1>0, <3>1 DEF Clients
    <3> HIDE DEF x
    <3>4. QueueOK(c)'  BY <3>1, <3>2, <3>3, NoneAssumption DEF QueueOK
    <3> QED BY <2>a, <3>1, <3>4
  <2>3. ASSUME NEW K \in SUBSET Key, WatchCommand(c, K) PROVE QueueInv'
    <3> DEFINE new == ({cl[c].db} \X K) \ cl[c].watched
               x   == [cl[c] EXCEPT
                         !.watched = @ \cup new,
                         !.stale   = @ \cup {w \in new : IsExpired(dbs[w[1]][w[2]], now)},
                         !.ahead   = [w \in Slot |-> IF w \in new THEN Watchers(cl, w)
                                                                  ELSE @[w]]]
    <3>1. cl' = [cl EXCEPT ![c] = x] /\ UNCHANGED <<in_exec, acked>> /\ in_exec = None
      BY <2>3 DEF WatchCommand, Idle
    <3>2. /\ x.multi = cl[c].multi /\ x.queue = cl[c].queue
          /\ x.dirty_cas = cl[c].dirty_cas /\ x.dirty_exec = cl[c].dirty_exec
      BY <1>0 DEF ClientState
    <3>3. cl'[c] = x  BY <1>0, <3>1 DEF Clients
    <3> HIDE DEF x
    <3>4. QueueOK(c)'  BY <2>0, <3>1, <3>2, <3>3, NoneAssumption DEF QueueOK
    <3> QED BY <2>a, <3>1, <3>4
  <2>4. ASSUME NEW cmd \in Commands, QueueCommand(c, cmd) PROVE QueueInv'
    <3> DEFINE dirty == cl[c].dirty_cas \/ cl[c].dirty_exec
               x     == IF dirty THEN cl[c] ELSE [cl[c] EXCEPT !.queue = Append(@, cmd)]
    <3>1. /\ cl' = [cl EXCEPT ![c] = x] /\ in_exec = None /\ in_exec' = None /\ cl[c].multi
          /\ acked' = [acked EXCEPT ![c] = @ + 1]
      BY <1>0, <2>4 DEF QueueCommand, Idle, Clients
    <3>2. cl[c].queue \in Seq(Commands)  BY <1>0 DEF ClientState
    <3>3. Len(Append(cl[c].queue, cmd)) = Len(cl[c].queue) + 1  BY <3>2
    <3>4. /\ x.multi = cl[c].multi
          /\ x.dirty_cas = cl[c].dirty_cas /\ x.dirty_exec = cl[c].dirty_exec
          /\ ~dirty => x.queue = Append(cl[c].queue, cmd)
      BY <1>0 DEF ClientState
    <3>5. /\ cl'[c] = x /\ acked'[c] = acked[c] + 1
          /\ \A b \in Client \ {c} : acked'[b] = acked[b]
      BY <1>0, <3>1 DEF Clients
    <3> HIDE DEF x
    <3>6. QueueOK(c)'
      BY <2>0, <3>1, <3>3, <3>4, <3>5, NoneAssumption DEF QueueOK
    <3> QED BY <2>a, <3>1, <3>5, <3>6
  <2>5. ASSUME NEW cmd \in Commands, DirectCommand(c, cmd) PROVE QueueInv'
    BY <2>5, CallQueue DEF DirectCommand
  <2>6. CASE DiscardCommand(c)
    BY <2>6, DiscardQueue, NoneAssumption DEF DiscardCommand, Idle
  <2>7. CASE ExecAborted(c)
    BY <2>7, DiscardQueue, NoneAssumption DEF ExecAborted, Idle
  <2>8. CASE ExecRejected(c)
    BY <2>8, DiscardQueue, NoneAssumption DEF ExecRejected, Idle
  <2>9. CASE ExecStart(c)
    <3>1. /\ cl' = UnwatchAll(cl, {c}) /\ in_exec' = c /\ UNCHANGED acked /\ cl[c].multi
          /\ ~cl[c].dirty_cas /\ ~cl[c].dirty_exec
      BY <2>9 DEF ExecStart
    <3>2. \A b \in Client : /\ Keeps(cl, cl', b)
                            /\ cl'[b].dirty_cas = cl[b].dirty_cas
                            /\ cl'[b].queue = cl[b].queue
                            /\ b = c => cl'[b].watched = {}
      BY <1>0, <3>1, UnwatchAllKeeps DEF Keeps
    <3>3. \A b \in Client \ {c} : QueueOK(b)'
      BY <3>1, <3>2, KeepsQueueOK DEF QueueInv
    <3>4. QueueOK(c)'  BY <2>0, <3>1, <3>2 DEF QueueOK, Keeps
    <3> QED BY <3>3, <3>4 DEF QueueInv
  <2>10. CASE ExecStep(c)
    <3> DEFINE cmd == cl[c].queue[exec_pos + 1]
    <3>1. cmd \in Commands
      BY <1>0, <2>10 DEF ExecStep, ClientState, TypeOK
    <3>2. UNCHANGED <<in_exec, acked>> /\ in_exec = c  BY <2>10 DEF ExecStep
    <3>3. \/ CanWrite(Call(State, c, cmd)) /\ Apply(Call(State, c, cmd))
          \/ UNCHANGED cl
      BY <2>10 DEF ExecStep
    <3> HIDE DEF cmd
    <3> QED BY <3>1, <3>2, <3>3, CallQueue DEF QueueInv, QueueOK
  <2>11. CASE ExecEnd(c)
    BY <2>11, DiscardQueue, NoneAssumption DEF ExecEnd
  <2>12. CASE Disconnect(c)
    <3>1. cl' = [UnwatchAll(cl, {c}) EXCEPT ![c] = InitialClient] /\ UNCHANGED in_exec
          /\ acked' = [acked EXCEPT ![c] = 0] /\ in_exec = None
      BY <2>12 DEF Disconnect, Idle
    <3>2. UnwatchAll(cl, {c}) \in Clients  BY <1>0, UnwatchAllType
    <3>3. cl'[c] = InitialClient /\ \A b \in Client \ {c} : cl'[b] = UnwatchAll(cl, {c})[b]
      BY <3>1, <3>2 DEF Clients
    <3>4. \A b \in Client \ {c} : Keeps(cl, cl', b)
      BY <1>0, <3>3, UnwatchAllKeeps DEF Keeps
    <3>5. QueueOK(c)'
      <4>1. Len(<<>>) = 0  OBVIOUS
      <4>2. ~cl'[c].multi /\ cl'[c].queue = <<>>  BY <3>3 DEF InitialClient
      <4>3. acked'[c] = 0 /\ in_exec' # c  BY <1>0, <3>1, NoneAssumption
      <4> QED BY <4>1, <4>2, <4>3 DEF QueueOK
    <3>6. \A b \in Client \ {c} : acked'[b] = acked[b]
      BY <1>0, <3>1
    <3> QED BY <3>1, <3>4, <3>5, <3>6, KeepsQueueOK DEF QueueInv
  <2> QED BY <1>1, <2>1, <2>2, <2>3, <2>4, <2>5, <2>6, <2>7, <2>8, <2>9, <2>10,
             <2>11, <2>12 DEF ClientStep
<1>2. ASSUME NEW w \in Slot, ActiveExpire(w) PROVE QueueInv'
  <2>1. \A b \in Client : Keeps(cl, cl', b)
    BY <1>0, <1>2, PutKeeps, NoEntryType DEF ActiveExpire, Apply
  <2> QED BY <1>2, <2>1, KeepsQueueOK DEF QueueInv, ActiveExpire
<1>3. ASSUME NEW d \in DB, NEW cmd \in Commands, PrimaryCommand(d, cmd) PROVE QueueInv'
  <2>1. cmd.op \notin {"select", "unwatch"}  BY <1>3 DEF PrimaryCommand, WriteOp
  <2>2. \A b \in Client : Keeps(cl, cl', b)
    BY <1>0, <1>3, <2>1, CallDataKeeps DEF PrimaryCommand, Apply
  <2> QED BY <1>3, <2>2, KeepsQueueOK DEF QueueInv, PrimaryCommand
<1>4. ASSUME NEW val, NEW last, NEW e, NEW m, FullSync(val, last, e, m)
      PROVE  QueueInv'
  <2> DEFINE new == [d \in DB |-> [k \in Key |->
                       IF val[<<d, k>>] # 0 THEN [stamp |-> val[<<d, k>>], expire |-> e]
                                            ELSE NoEntry]]
  <2>1. cl' \in {Replace(State, DB, new).cl, FlushCommand(State, DB).cl}
    BY <1>4 DEF FullSync, Apply, Replace, FlushCommand
  <2>2. \A b \in Client : Keeps(cl, cl', b)
    BY <1>0, <2>1, ReplaceKeeps DEF FlushCommand
  <2> QED BY <1>4, <2>2, KeepsQueueOK DEF QueueInv, FullSync
<1>5. CASE Tick
  BY <1>5 DEF Tick, QueueInv, QueueOK
<1>6. CASE UNCHANGED vars
  BY <1>6 DEF vars, QueueInv, QueueOK
<1> QED BY <1>1, <1>2, <1>3, <1>4, <1>5, <1>6 DEF Next, ServerStep

\* A queue is run whole or not at all (multi.c, queueMultiCommand, flagTransaction,
\* resetClientMultiState), on a primary and on a replica.
THEOREM QueueIsRunWhole == Spec => []QueuedIsRun
<1>1. Init => QueueInv
  <2>1. Len(<<>>) = 0  OBVIOUS
  <2> QED BY <2>1, NoneAssumption DEF Init, QueueInv, QueueOK, InitialClient
<1>2. QueueInv => QueuedIsRun  BY DEF QueueInv, QueueOK, QueuedIsRun
<1> QED BY <1>1, <1>2, TypeCorrect, QueueStep, PTL DEF Spec

-----------------------------------------------------------------------------
(* No spurious abort.                                                      *)

\* On a replica the watchers are signalled blindly in two cases: SET with an expiry
\* time already past, which a primary would not store, and a dataset loaded without
\* a comparison.  Everywhere else a signal means a change.
Signals ==
  \/ Role = "primary"
  \/ LoadModes \subseteq {"swap"} /\ \A cmd \in Commands : cmd.op # "setpx"

\* The stamps of the keyspace: none from the future, none under two names.
StampsOK(st) ==
  /\ \A w \in Slot : At(st, w).stamp <= st.stamp
  /\ \A w, v \in Slot : At(st, w).stamp = At(st, v).stamp /\ w # v
                          => ~Present(At(st, w))

\* What holds of client c while a command changes `st`, if P is what would justify
\* an abort: a stale name is physically present; a watched name that expired after
\* it was watched, and dirty_cas, are justified.
Sound(st, c, P) ==
  /\ \A w \in st.cl[c].stale : w \in st.cl[c].watched /\ Present(At(st, w))
  /\ \A w \in st.cl[c].watched \ st.cl[c].stale : IsExpired(At(st, w), now) => P
  /\ st.cl[c].dirty_cas => P
  /\ st.cl[c].watched \subseteq cl[c].watched

\* Before its one change the command has altered no logical value, so that only an
\* earlier change justifies an abort; after it, that change does too.
Quiet(st) ==
  /\ \A w \in Slot : Logical(At(State, w), now) = Logical(At(st, w), now)
  /\ \A c \in Client : Sound(st, c, moved[c])
  /\ StampsOK(st)

Done(st) ==
  /\ \A c \in Client : Sound(st, c, Differs(st, c))
  /\ StampsOK(st)

\* A command that changes nothing more is done.
LEMMA QuietDone ==
  ASSUME NEW st, Quiet(st)
  PROVE  Done(st)
BY DEF Quiet, Done, Sound, Differs

\* Storing e under w once the command is about to make its change: an expired name
\* is deleted, a present one deleted or overwritten, or a value that is not expired
\* is stored.
LEMMA PutSound ==
  ASSUME NEW st \in StType, NEW w \in Slot, NEW e \in Entry, Quiet(st), cl \in Clients,
         e.stamp = 0 \/ e.stamp = st.stamp + 1,
         Present(At(st, w)) \/ (Present(e) /\ ~IsExpired(e, now)),
         NEW c \in Client
  PROVE  LET p == Put(st, w, e)
         IN  /\ Sound(p, c, Differs(p, c))
             /\ IsExpired(At(st, w), now) /\ e = NoEntry => Sound(p, c, moved[c])
<1> DEFINE p == Put(st, w, e)
<1>a. At(st, w) \in Entry /\ Present(e) \in BOOLEAN  BY AtType DEF Present
<1>0. /\ st.cl \in Clients /\ st.stamp \in Nat
      /\ cl[c].watched \subseteq Slot
      /\ st.cl[c].watched \subseteq Slot /\ st.cl[c].stale \subseteq Slot
      /\ At(st, w) \in Entry
  BY <1>a, BoundsAssumption DEF StType, Clients, ClientState
<1>1. Sound(st, c, moved[c])  BY DEF Quiet
<1>2. p.cl = TouchWatchedKey(st.cl, w, Present(e))
  BY DEF Put, StType
<1>3. /\ TouchOutcome(st.cl, p.cl, w, c)
      /\ ~Present(e) /\ w \in st.cl[c].stale /\ w \in st.cl[c].watched
           => p.cl[c].stale = st.cl[c].stale \ {w}
      /\ Present(e) /\ w \in st.cl[c].stale => p.cl[c].stale = st.cl[c].stale
  BY <1>0, <1>a, <1>2, TouchCases
<1>4. \A v \in Slot : At(p, v) = IF v = w THEN e ELSE At(st, v)
  BY AtPut
<1> HIDE DEF p
<1>5. ~IsExpired(At(st, w), now) => Logical(At(st, w), now) # Logical(e, now)
  <2> SUFFICES ASSUME ~IsExpired(At(st, w), now)
               PROVE  At(st, w) # Logical(e, now)
    BY DEF Logical
  <2>1. At(st, w).stamp <= st.stamp  BY DEF Quiet, StampsOK
  <2>2. At(st, w).stamp \in Nat
    BY <1>0, BoundsAssumption DEF Entry, NoEntry
  <2>3. CASE Present(At(st, w))
    <3>1. At(st, w).stamp # 0 /\ At(st, w).stamp # st.stamp + 1 /\ NoEntry.stamp = 0
      BY <1>0, <2>1, <2>2, <2>3 DEF Present, NoEntry
    <3> QED BY <3>1 DEF Logical
  <2>4. CASE ~Present(At(st, w)) /\ Present(e) /\ ~IsExpired(e, now)
    BY <2>4 DEF Logical
  <2> QED BY <2>3, <2>4
<1>6. w \in st.cl[c].watched \ st.cl[c].stale => Differs(p, c)
  <2> SUFFICES ASSUME w \in st.cl[c].watched \ st.cl[c].stale PROVE Differs(p, c)
    OBVIOUS
  <2>1. CASE IsExpired(At(st, w), now)  BY <1>1, <2>1 DEF Sound, Differs
  <2>2. CASE ~IsExpired(At(st, w), now)
    <3>1. Logical(At(State, w), now) # Logical(At(p, w), now)
      BY <1>4, <1>5, <2>2 DEF Quiet
    <3> QED BY <1>1, <3>1 DEF Sound, Differs
  <2> QED BY <2>1, <2>2
<1>7. ASSUME NEW P, moved[c] => P, w \in st.cl[c].watched \ st.cl[c].stale => P
      PROVE  Sound(p, c, P)
  <2>1. p.cl[c].watched \subseteq st.cl[c].watched
    BY <1>3 DEF TouchOutcome
  <2>2. p.cl[c].dirty_cas => P
    BY <1>1, <1>3, <1>7 DEF TouchOutcome, Sound
  <2>3. ASSUME NEW v \in p.cl[c].stale
        PROVE  v \in p.cl[c].watched /\ Present(At(p, v))
    <3>1. v \in st.cl[c].stale /\ p.cl[c].watched = st.cl[c].watched
      BY <1>3, <2>3 DEF TouchOutcome
    <3>2. v \in Slot /\ v \in st.cl[c].watched /\ Present(At(st, v))
      BY <1>0, <1>1, <3>1 DEF Sound
    <3>3. v = w => Present(e)  BY <1>3, <2>3, <3>1, <3>2
    <3> QED BY <1>4, <3>1, <3>2, <3>3
  <2>4. ASSUME NEW v \in p.cl[c].watched \ p.cl[c].stale, IsExpired(At(p, v), now)
        PROVE  P
    <3>1. /\ v \in st.cl[c].watched /\ v \in Slot
          /\ p.cl[c].stale \in {st.cl[c].stale, st.cl[c].stale \ {w}}
      BY <1>0, <1>3, <2>1, <2>4 DEF TouchOutcome
    <3>2. CASE v # w
      <4>1. v \notin st.cl[c].stale /\ IsExpired(At(st, v), now)
        BY <1>4, <2>4, <3>1, <3>2
      <4> QED BY <1>1, <1>7, <3>1, <4>1 DEF Sound
    <3>3. CASE v = w
      <4>1. IsExpired(e, now) /\ Present(e)
        BY <1>4, <2>4, <3>3, LogicalFacts
      <4>2. w \notin st.cl[c].stale
        BY <1>3, <2>4, <3>1, <3>3, <4>1
      <4> QED BY <1>7, <3>1, <3>3, <4>2
    <3> QED BY <3>2, <3>3
  <2> QED BY <1>1, <2>1, <2>2, <2>3, <2>4 DEF Sound
<1>8. Sound(p, c, Differs(p, c))
  <2>1. moved[c] => Differs(p, c)  BY DEF Differs
  <2> QED BY <1>6, <1>7, <2>1
<1>9. IsExpired(At(st, w), now) /\ e = NoEntry => Sound(p, c, moved[c])
  BY <1>1, <1>7 DEF Sound
<1> QED BY <1>8, <1>9 DEF p

\* Deleting a name, or storing a stamp never used, keeps stamps apart.
LEMMA PutStamps ==
  ASSUME NEW st \in StType, NEW w \in Slot, NEW e \in Entry, StampsOK(st),
         NEW n \in Nat, st.stamp <= n, e.stamp = 0 \/ (st.stamp < e.stamp /\ e.stamp <= n)
  PROVE  StampsOK([Put(st, w, e) EXCEPT !.stamp = n])
<1> DEFINE p == Put(st, w, e)
           q == [p EXCEPT !.stamp = n]
<1>1. \A v \in Slot : At(p, v) = IF v = w THEN e ELSE At(st, v)
  BY AtPut
<1>2. p \in StType  BY PutType
<1> HIDE DEF p
<1>3. q.dbs = p.dbs /\ q.stamp = n  BY <1>2 DEF StType
<1>4. \A v \in Slot : At(q, v) = IF v = w THEN e ELSE At(st, v)
  BY <1>1, <1>3 DEF At
<1> HIDE DEF q
<1>5. \A v \in Slot : At(st, v).stamp \in Nat /\ At(st, v).stamp <= st.stamp
  BY AtType, BoundsAssumption DEF StampsOK, Entry, NoEntry
<1>6. st.stamp \in Nat /\ e.stamp \in Nat
  BY BoundsAssumption DEF StType, Entry, NoEntry
<1>7. \A v \in Slot : At(q, v).stamp <= q.stamp
  BY <1>3, <1>4, <1>5, <1>6
<1>8. ASSUME NEW u \in Slot, NEW v \in Slot, At(q, u).stamp = At(q, v).stamp, u # v
      PROVE  ~Present(At(q, u))
  BY <1>4, <1>5, <1>6, <1>8 DEF StampsOK, Present
<1> QED BY <1>7, <1>8 DEF StampsOK, q, p

\* expireIfNeeded, if it deletes, deletes what no reader could see.
LEMMA ExpireQuiet ==
  ASSUME NEW st \in StType, NEW w \in Slot, NEW link, Quiet(st), cl \in Clients
  PROVE  Quiet(ExpireIfNeeded(st, w, link))
<1> SUFFICES ASSUME IsExpired(At(st, w), now) PROVE Quiet(Put(st, w, NoEntry))
  BY DEF ExpireIfNeeded
<1> DEFINE p == Put(st, w, NoEntry)
<1>1. At(st, w) \in Entry /\ NoEntry \in Entry /\ NoEntry.stamp = 0
  BY AtType, NoEntryType DEF NoEntry
<1>2. Present(At(st, w))  BY <1>1, LogicalFacts
<1>3. \A c \in Client : Sound(p, c, moved[c])
  BY <1>1, <1>2, PutSound
<1>4. \A v \in Slot : At(p, v) = IF v = w THEN NoEntry ELSE At(st, v)
  BY AtPut
<1>5. \A v \in Slot : Logical(At(p, v), now) = Logical(At(st, v), now)
  BY <1>1, <1>4, LogicalFacts
<1>6. StampsOK(p)
  <2>1. st.stamp \in Nat /\ StampsOK(st)  BY BoundsAssumption DEF StType, Quiet
  <2>2. StampsOK([p EXCEPT !.stamp = st.stamp])  BY <1>1, <2>1, PutStamps
  <2>3. [p EXCEPT !.stamp = st.stamp] = p
    BY DEF Put, StType
  <2> QED BY <2>2, <2>3
<1> HIDE DEF p
<1> QED BY <1>3, <1>5, <1>6 DEF Quiet, p

\* The one deletion of a command.
LEMMA DeleteDone ==
  ASSUME NEW st \in StType, NEW w \in Slot, Quiet(st), cl \in Clients,
         Present(At(st, w))
  PROVE  Done(Put(st, w, NoEntry))
<1> DEFINE p == Put(st, w, NoEntry)
<1>1. NoEntry \in Entry /\ NoEntry.stamp = 0
  BY NoEntryType DEF NoEntry
<1>2. \A c \in Client : Sound(p, c, Differs(p, c))
  BY <1>1, PutSound
<1>3. StampsOK(p)
  <2>1. st.stamp \in Nat /\ StampsOK(st)  BY BoundsAssumption DEF StType, Quiet
  <2>2. StampsOK([p EXCEPT !.stamp = st.stamp])  BY <1>1, <2>1, PutStamps
  <2>3. [p EXCEPT !.stamp = st.stamp] = p
    BY DEF Put, StType
  <2> QED BY <2>2, <2>3
<1> QED BY <1>2, <1>3 DEF Done

\* The one write of a command: what it stores is not expired, or overwrites a key.
LEMMA WriteDone ==
  ASSUME NEW st \in StType, NEW w \in Slot, NEW expire \in NoExpire..MaxTime,
         CanWrite(Write(st, w, expire)), Quiet(st), cl \in Clients,
         \/ Present(At(st, w))
         \/ expire = NoExpire \/ now <= expire,
         now \in Nat
  PROVE  Done(Write(st, w, expire))
<1> DEFINE e == [stamp |-> st.stamp + 1, expire |-> expire]
           p == Put(st, w, e)
           q == Write(st, w, expire)
<1>1. st.stamp \in Nat /\ StampsOK(st)  BY BoundsAssumption DEF StType, Quiet
<1>2. e \in Entry
  BY BoundsAssumption DEF Write, CanWrite, Put, StType, Entry
<1>3. e.stamp = st.stamp + 1 /\ Present(e) /\ (expire = NoExpire \/ now <= expire => ~IsExpired(e, now))
  BY <1>1, BoundsAssumption DEF Present, IsExpired, NoExpire
<1>4. p \in StType  BY <1>2, PutType
<1>5. \A c \in Client : Sound(p, c, Differs(p, c))
  BY <1>2, <1>3, PutSound
<1>6. q = [p EXCEPT !.stamp = st.stamp + 1]  BY DEF Write
<1>7. StampsOK(q)
  BY SMTT(30), <1>1, <1>2, <1>3, <1>6, PutStamps
<1> HIDE DEF p, e
<1>8. q.cl = p.cl /\ q.dbs = p.dbs  BY <1>4, <1>6 DEF StType
<1> HIDE DEF q
<1>9. \A c \in Client : Sound(q, c, Differs(q, c))
  BY <1>5, <1>8 DEF Sound, Differs, At
<1> QED BY <1>7, <1>9 DEF Done, q

\* The one exchange of a command: the databases of D get other contents, in which no
\* name keeps the stamp it had.
LEMMA ReplaceSound ==
  ASSUME NEW st \in StType, NEW D \in SUBSET DB, NEW new \in [DB -> [Key -> Entry]],
         Quiet(st), cl \in Clients,
         \A w \in Slot : /\ w[1] \in D /\ Present(At(st, w))
                              => new[w[1]][w[2]].stamp # At(st, w).stamp
                         /\ w[1] \notin D => new[w[1]][w[2]] = At(st, w),
         NEW c \in Client
  PROVE  Sound(Replace(st, D, new), c, Differs(Replace(st, D, new), c))
<1> DEFINE p        == Replace(st, D, new)
           After(w) == new[w[1]][w[2]]
           Hit      == {w \in st.cl[c].watched :
                          w[1] \in D /\ (Present(At(st, w)) \/ Present(After(w)))}
           Cleared  == {w \in Hit : w \in st.cl[c].stale /\ ~Present(After(w))}
           Stale    == {w \in Hit : /\ w \in st.cl[c].stale \/ ~Present(At(st, w))
                                   /\ IsExpired(After(w), now)}
           Dirty    == Hit \ (Cleared \cup Stale) # {}
<1>0. /\ st.cl \in Clients
      /\ cl[c].watched \subseteq Slot
      /\ st.cl[c].watched \subseteq Slot /\ st.cl[c].stale \subseteq Slot
  BY DEF StType, Clients, ClientState
<1>1. Sound(st, c, moved[c])  BY DEF Quiet
<1>2. \A w \in Slot : At(p, w) = After(w) /\ After(w) \in Entry /\ At(st, w) \in Entry
  BY AtType DEF Replace, At, StType, Slot
<1>3. /\ p.cl[c].watched = st.cl[c].watched
      /\ p.cl[c].stale = (st.cl[c].stale \ Cleared) \cup Stale
      /\ p.cl[c].dirty_cas = (st.cl[c].dirty_cas \/ Dirty)
  <2>1. p.cl = TouchAllInDbs(st.cl, D, st.dbs, new, now)
    BY DEF Replace, StType
  <2> QED BY <1>0, <2>1, TouchAllCases DEF At
<1>4. ASSUME NEW w \in st.cl[c].watched,
             Logical(At(st, w), now) # Logical(After(w), now)
      PROVE  Differs(p, c)
  <2>1. w \in Slot /\ w \in cl[c].watched  BY <1>0, <1>1 DEF Sound
  <2>2. Logical(At(State, w), now) # Logical(At(p, w), now)
    BY <1>2, <1>4, <2>1 DEF Quiet
  <2> QED BY <2>1, <2>2 DEF Differs
<1>5. moved[c] => Differs(p, c)  BY DEF Differs
<1> HIDE DEF p
\* A key that could be seen is gone or has another stamp.
<1>6. ASSUME NEW w \in Slot, w[1] \in D, Present(At(st, w)), ~IsExpired(At(st, w), now)
      PROVE  Logical(At(st, w), now) # Logical(After(w), now)
  <2>1. After(w).stamp # At(st, w).stamp  BY <1>6
  <2>2. NoEntry.stamp # At(st, w).stamp  BY <1>6 DEF NoEntry, Present
  <2> QED BY <1>6, <2>1, <2>2 DEF Logical
<1>7. ASSUME NEW w \in Hit, w \notin Cleared \cup Stale
      PROVE  Differs(p, c)
  <2>1. w \in Slot /\ w[1] \in D /\ w \in st.cl[c].watched  BY <1>0
  <2>2. CASE w \in st.cl[c].stale
    <3>1. Present(At(st, w)) /\ Present(After(w)) /\ ~IsExpired(After(w), now)
      BY <1>1, <1>7, <2>2 DEF Sound
    <3>2. IsExpired(At(st, w), now) => Logical(At(st, w), now) # Logical(After(w), now)
      BY <3>1 DEF Logical, Present, NoEntry
    <3> QED BY <1>4, <1>6, <2>1, <3>1, <3>2
  <2>3. CASE w \notin st.cl[c].stale /\ Present(At(st, w))
    <3>1. IsExpired(At(st, w), now) => moved[c]  BY <1>1, <2>1, <2>3 DEF Sound
    <3> QED BY <1>4, <1>5, <1>6, <2>1, <2>3, <3>1
  <2>4. CASE w \notin st.cl[c].stale /\ ~Present(At(st, w))
    <3>1. Present(After(w)) /\ ~IsExpired(After(w), now)  BY <1>7, <2>4
    <3>2. At(st, w) = NoEntry /\ ~IsExpired(NoEntry, now)
      BY <1>2, <2>1, <2>4, LogicalFacts
    <3>3. Logical(At(st, w), now) # Logical(After(w), now)
      BY <3>1, <3>2 DEF Logical, Present, NoEntry
    <3> QED BY <1>4, <2>1, <3>3
  <2> QED BY <2>2, <2>3, <2>4
<1>8. p.cl[c].dirty_cas => Differs(p, c)
  BY <1>1, <1>3, <1>5, <1>7 DEF Sound
<1>9. ASSUME NEW w \in p.cl[c].stale
      PROVE  w \in p.cl[c].watched /\ Present(At(p, w))
  <2>1. w \in st.cl[c].watched /\ w \in Slot /\ (w \in st.cl[c].stale => Present(At(st, w)))
    BY <1>0, <1>1, <1>3, <1>9 DEF Sound
  <2>2. CASE w \in Stale  BY <1>2, <1>3, <2>1, <2>2, LogicalFacts
  <2>3. CASE w \in st.cl[c].stale \ Cleared
    <3>1. w[1] \in D => Present(After(w))  BY <2>1, <2>3
    <3>2. w[1] \notin D => After(w) = At(st, w)  BY <2>1
    <3> QED BY <1>2, <1>3, <2>1, <2>3, <3>1, <3>2
  <2> QED BY <1>3, <1>9, <2>2, <2>3
<1>10. ASSUME NEW w \in p.cl[c].watched \ p.cl[c].stale, IsExpired(At(p, w), now)
       PROVE  Differs(p, c)
  <2>1. /\ w \in st.cl[c].watched /\ w \in Slot /\ IsExpired(After(w), now)
        /\ w \notin Stale /\ (w \in st.cl[c].stale => w \in Cleared)
    BY <1>0, <1>2, <1>3, <1>10
  <2>2. Present(After(w))  BY <1>2, <2>1, LogicalFacts
  <2>3. w \notin st.cl[c].stale  BY <2>1, <2>2
  <2>4. CASE w[1] \in D
    <3>1. w \in Hit  BY <2>1, <2>2, <2>4
    <3> QED BY <1>7, <2>1, <2>3, <3>1
  <2>5. CASE w[1] \notin D
    <3>1. IsExpired(At(st, w), now)  BY <2>1, <2>5
    <3> QED BY <1>1, <1>5, <2>1, <2>3, <3>1 DEF Sound
  <2> QED BY <2>4, <2>5
<1>11. p.cl[c].watched \subseteq cl[c].watched  BY <1>1, <1>3 DEF Sound
<1> QED BY <1>8, <1>9, <1>10, <1>11 DEF Sound, p

\* FLUSHDB and FLUSHALL.
LEMMA FlushDone ==
  ASSUME NEW st \in StType, NEW D \in SUBSET DB, Quiet(st), cl \in Clients
  PROVE  Done(FlushCommand(st, D))
<1> DEFINE new == Emptied(st, D)
           p   == Replace(st, D, new)
<1>1. new \in [DB -> [Key -> Entry]]
  BY NoEntryType DEF Emptied, StType
<1>2. \A w \in Slot : new[w[1]][w[2]] = IF w[1] \in D THEN NoEntry ELSE At(st, w)
  BY DEF Emptied, Slot, At
<1> HIDE DEF new
<1>3. ~Present(NoEntry) /\ NoEntry.stamp = 0  BY DEF Present, NoEntry
<1>4. \A c \in Client : Sound(p, c, Differs(p, c))
  BY <1>1, <1>2, <1>3, ReplaceSound DEF Present
<1>5. p.stamp = st.stamp /\ \A w \in Slot : At(p, w) = new[w[1]][w[2]]
  BY DEF Replace, At, StType
<1>6. StampsOK(p)
  <2>1. st.stamp \in Nat /\ StampsOK(st)  BY BoundsAssumption DEF StType, Quiet
  <2> HIDE DEF p
  <2> QED BY <1>2, <1>3, <1>5, <2>1 DEF StampsOK, Present
<1> QED BY <1>4, <1>6 DEF Done, FlushCommand, new

\* SWAPDB: a name gets an entry that was stored under another name.
LEMMA SwapDone ==
  ASSUME NEW st \in StType, NEW d1 \in DB, NEW d2 \in DB, Quiet(st), cl \in Clients
  PROVE  Done(SwapDbCommand(st, d1, d2))
<1> SUFFICES ASSUME d1 # d2 PROVE Done(SwapDbCommand(st, d1, d2))
  BY QuietDone DEF SwapDbCommand
<1> DEFINE D   == {d1, d2}
           new == [st.dbs EXCEPT ![d1] = st.dbs[d2], ![d2] = st.dbs[d1]]
           p   == Replace(st, D, new)
           Other(w) == <<IF w[1] = d1 THEN d2 ELSE IF w[1] = d2 THEN d1 ELSE w[1], w[2]>>
<1>1. new \in [DB -> [Key -> Entry]]  BY DEF StType
<1>2. \A w \in Slot : Other(w) \in Slot /\ new[w[1]][w[2]] = At(st, Other(w))
  BY DEF At, Slot, StType
<1>3. \A w \in Slot : /\ w[1] \in D => Other(w) # w
                      /\ w[1] \notin D => Other(w) = w
  BY DEF Slot
<1>4. \A w, v \in Slot : Other(w) = Other(v) => w = v
  BY DEF Slot
<1> HIDE DEF new, Other
<1>5. StampsOK(st)  BY DEF Quiet
<1>6. \A c \in Client : Sound(p, c, Differs(p, c))
  <2>1. ASSUME NEW w \in Slot
        PROVE  /\ w[1] \in D /\ Present(At(st, w))
                     => new[w[1]][w[2]].stamp # At(st, w).stamp
               /\ w[1] \notin D => new[w[1]][w[2]] = At(st, w)
    BY <1>2, <1>3, <1>5 DEF StampsOK
  <2> HIDE DEF p, D
  <2> QED BY <1>1, <2>1, ReplaceSound DEF p, D
<1>7. p.stamp = st.stamp /\ \A w \in Slot : At(p, w) = At(st, Other(w))
  BY <1>2 DEF Replace, At, StType
<1> HIDE DEF p
<1>8. StampsOK(p)
  BY <1>2, <1>4, <1>5, <1>7 DEF StampsOK
<1> QED BY <1>6, <1>8 DEF Done, SwapDbCommand, p, D, new

\* Every data command, of a client or of the replication stream.
LEMMA CallDataDone ==
  ASSUME NEW st \in StType, NEW d \in DB, NEW cmd \in Commands, NEW link,
         Signals, cmd.op \notin {"select", "unwatch"}, now \in Nat,
         CanWrite(CallData(st, d, cmd, link)), Quiet(st), cl \in Clients
  PROVE  Done(CallData(st, d, cmd, link))
<1> DEFINE w   == <<d, cmd.key>>
           st1 == ExpireIfNeeded(st, w, link)
           res == CallData(st, d, cmd, link)
<1>1. /\ w \in Slot /\ cmd.db \in DB /\ cmd.op \in Op
      /\ cmd.when \in NoExpire..MaxTime /\ NoExpire \in NoExpire..MaxTime
      /\ cmd.when \in Nat
  BY CommandsAssumption, BoundsAssumption DEF CommandType, Slot, NoExpire
<1>2. st1 \in StType /\ Quiet(st1)  BY <1>1, ExpireIfNeededType, ExpireQuiet
<1>3. Done(st) /\ Done(st1)  BY <1>2, QuietDone
<1>4. Present(Lookup(st1, w, link)) => Present(At(st1, w))
  BY DEF Lookup, Logical, Present, NoEntry
<1>5. Present(At(st1, w)) => Done(Put(st1, w, NoEntry))
  BY <1>1, <1>2, DeleteDone
<1>6. ASSUME NEW x \in NoExpire..MaxTime, CanWrite(Write(st1, w, x)),
             Present(At(st1, w)) \/ x = NoExpire \/ now <= x
      PROVE  Done(Write(st1, w, x))
  BY <1>1, <1>2, <1>6, WriteDone
<1>7. Present(At(st, w)) => Done(Put(st, w, NoEntry))
  BY <1>1, DeleteDone
<1> HIDE DEF w, st1
<1>8. CASE cmd.op = "set"
  <2>1. res = Write(st1, w, NoExpire)  BY <1>8 DEF CallData, SetCommand, st1, w
  <2> QED BY <1>1, <1>6, <2>1
<1>9. CASE cmd.op = "setpx"
  <2>1. res = SetPxCommand(st, w, cmd.when, link)  BY <1>9 DEF CallData, w
  <2>2. Role = "primary"  BY <1>9 DEF Signals
  <2>3. \/ res = Write(st1, w, cmd.when) /\ ~AlreadyExpired(cmd.when)
        \/ res = Put(st1, w, NoEntry) /\ Present(Lookup(st1, w, link))
        \/ res = st1
    BY <2>1 DEF SetPxCommand, st1
  <2>4. ~AlreadyExpired(cmd.when) => now <= cmd.when
    BY <1>1, <2>2 DEF AlreadyExpired
  <2> QED BY <1>1, <1>3, <1>4, <1>5, <1>6, <2>3, <2>4
<1>10. CASE cmd.op = "expire"
  <2>1. res = ExpireCommand(st, w, cmd.when, link)  BY <1>10 DEF CallData, w
  <2>2. \/ res = st1
        \/ /\ Present(Lookup(st1, w, link))
           /\ res \in {Write(st1, w, cmd.when), Put(st1, w, NoEntry)}
    BY <2>1 DEF ExpireCommand, st1
  <2> QED BY <1>1, <1>3, <1>4, <1>5, <1>6, <2>2
<1>11. CASE cmd.op = "persist"
  <2>1. res = PersistCommand(st, w, link)  BY <1>11 DEF CallData, w
  <2>2. res \in {Write(st1, w, NoExpire), st1}
    BY <2>1 DEF PersistCommand, st1
  <2> QED BY <1>1, <1>3, <1>6, <2>2
<1>12. CASE cmd.op = "del"
  <2>1. res = DelCommand(st, w, link)  BY <1>12 DEF CallData, w
  <2>2. \/ res \in {st1, st}
        \/ res = Put(st, w, NoEntry) /\ Present(At(st, w))
    BY <2>1 DEF DelCommand, st1
  <2> QED BY <1>3, <1>7, <2>2
<1>13. CASE cmd.op = "get"
  BY <1>3, <1>13 DEF CallData, st1, w
<1>14. CASE cmd.op = "flushdb"
  BY <1>14, FlushDone DEF CallData
<1>15. CASE cmd.op = "flushall"
  BY <1>15, FlushDone DEF CallData
<1>16. CASE cmd.op = "swapdb"
  BY <1>1, <1>16, SwapDone DEF CallData
<1> QED
  BY <1>1, <1>8, <1>9, <1>10, <1>11, <1>12, <1>13, <1>14, <1>15, <1>16 DEF Op

\* Why NoSpuriousAbort holds: between commands, stale names are present, stamps are
\* distinct, and both dirty_cas and an expiry EXEC would notice are justified.
AbortInv == Signals => Quiet(State)

\* AbortInv spelled out for the next state, the keyspace entry by entry.
LEMMA QuietNext ==
  ASSUME \A c \in Client :
           /\ \A w \in cl'[c].stale : w \in cl'[c].watched /\ Present(dbs'[w[1]][w[2]])
           /\ \A w \in cl'[c].watched \ cl'[c].stale :
                 IsExpired(dbs'[w[1]][w[2]], now') => moved'[c]
           /\ cl'[c].dirty_cas => moved'[c],
         \A w \in Slot : dbs'[w[1]][w[2]].stamp <= stamp',
         \A w, v \in Slot : dbs'[w[1]][w[2]].stamp = dbs'[v[1]][v[2]].stamp /\ w # v
                               => ~Present(dbs'[w[1]][w[2]])
  PROVE  Quiet(State)'
<1>1. \A w : At(State, w)' = dbs'[w[1]][w[2]]  BY DEF At, State
<1>2. State'.cl = cl' /\ State'.stamp = stamp'  BY DEF State
<1>3. StampsOK(State)'  BY <1>1, <1>2 DEF StampsOK, State
<1>4. ASSUME NEW c \in Client PROVE Sound(State, c, moved[c])'
  BY <1>1, <1>2 DEF Sound
<1> QED BY <1>3, <1>4 DEF Quiet

\* The same facts of the current state.
LEMMA QuietNow ==
  ASSUME Quiet(State)
  PROVE  /\ \A c \in Client :
              /\ \A w \in cl[c].stale : w \in cl[c].watched /\ Present(dbs[w[1]][w[2]])
              /\ \A w \in cl[c].watched \ cl[c].stale :
                    IsExpired(dbs[w[1]][w[2]], now) => moved[c]
              /\ cl[c].dirty_cas => moved[c]
         /\ \A w \in Slot : dbs[w[1]][w[2]].stamp <= stamp
         /\ \A w, v \in Slot : dbs[w[1]][w[2]].stamp = dbs[v[1]][v[2]].stamp /\ w # v
                               => ~Present(dbs[w[1]][w[2]])
BY DEF Quiet, Sound, StampsOK, State, At

\* The end of a command: what it made different is what the history records.
LEMMA DoneStep ==
  ASSUME TypeOK, NEW st \in StType, Done(st), Apply(st), now' = now, Observe({})
  PROVE  Quiet(State)'
<1>1. /\ cl' = st.cl /\ stamp' = st.stamp
      /\ \A w : At(st, w) = dbs'[w[1]][w[2]]
  BY DEF Apply, At
<1>2. \A c \in Client : cl[c].watched \subseteq Slot
  BY DEF TypeOK, ClientState
<1>3. ASSUME NEW c \in Client, Differs(st, c) PROVE moved'[c]
  BY <1>1, <1>2, <1>3 DEF Observe, Changed, Differs, State, At
<1>4. \A c \in Client :
        /\ \A w \in cl'[c].stale : w \in cl'[c].watched /\ Present(dbs'[w[1]][w[2]])
        /\ \A w \in cl'[c].watched \ cl'[c].stale :
              IsExpired(dbs'[w[1]][w[2]], now') => moved'[c]
        /\ cl'[c].dirty_cas => moved'[c]
  BY <1>1, <1>3 DEF Done, Sound
<1>5. /\ \A w \in Slot : dbs'[w[1]][w[2]].stamp <= stamp'
      /\ \A w, v \in Slot : dbs'[w[1]][w[2]].stamp = dbs'[v[1]][v[2]].stamp /\ w # v
                              => ~Present(dbs'[w[1]][w[2]])
  BY <1>1 DEF Done, StampsOK
<1> QED BY <1>4, <1>5, QuietNext

\* Client c gives up its watches, the keyspace unchanged.
LEMMA GiveUpQuiet ==
  ASSUME Quiet(State), NEW c \in Client, UNCHANGED <<now, dbs, stamp>>,
         moved' = [b \in Client |-> b # c /\ moved[b]],
         cl'[c].stale = {}, cl'[c].watched = {}, ~cl'[c].dirty_cas,
         \A b \in Client \ {c} : /\ cl'[b].watched = cl[b].watched
                                 /\ cl'[b].stale = cl[b].stale
                                 /\ cl'[b].dirty_cas = cl[b].dirty_cas
  PROVE  Quiet(State)'
BY QuietNow, QuietNext

\* No change of the keyspace, no change for a watcher.
LEMMA ObserveNothing ==
  ASSUME TypeOK, NEW R, UNCHANGED <<now, dbs>>, Observe(R)
  PROVE  moved' = [b \in Client |-> b \notin R /\ moved[b]]
<1>1. Changed = {}  BY DEF Changed
<1>2. moved' = [b \in Client |-> b \notin R /\ (moved[b] \/ cl[b].watched \cap Changed # {})]
  BY DEF Observe
<1>3. \A b \in Client : moved[b] \in BOOLEAN  BY DEF TypeOK
<1>4. \A b \in Client : (moved[b] \/ cl[b].watched \cap Changed # {}) = moved[b]
  BY <1>1, <1>3
<1> QED BY <1>2, <1>4

\* DISCARD, a failed EXEC and the end of EXEC.
LEMMA DiscardQuiet ==
  ASSUME TypeOK, Quiet(State), NEW c \in Client, Discarded(c)
  PROVE  Quiet(State)'
<1>1. /\ UNCHANGED <<now, dbs, stamp>>
      /\ moved' = [b \in Client |-> b \notin {c} /\ moved[b]]
  BY ObserveNothing DEF Discarded
<1>2. moved' = [b \in Client |-> b # c /\ moved[b]]
  BY <1>1
<1> DEFINE u == UnwatchAll(cl, {c})
           x == [u[c] EXCEPT !.multi = FALSE, !.dirty_cas = FALSE,
                             !.dirty_exec = FALSE, !.queue = <<>>]
<1>3. cl \in Clients /\ u \in Clients  BY UnwatchAllType DEF TypeOK, Clients
<1>4. \A b \in Client : /\ u[b].watched = IF b = c THEN {} ELSE cl[b].watched
                        /\ u[b].stale = IF b = c THEN {} ELSE cl[b].stale
                        /\ u[b].dirty_cas = cl[b].dirty_cas
  BY <1>3, UnwatchAllKeeps
<1> HIDE DEF u
<1>5. ~x.dirty_cas /\ x.watched = {} /\ x.stale = {}
  BY <1>3, <1>4 DEF Clients, ClientState
<1>6. cl' = [u EXCEPT ![c] = x]
  BY DEF Discarded, DiscardTransaction, u
<1> HIDE DEF x
<1>7. cl'[c] = x /\ \A b \in Client \ {c} : cl'[b] = u[b]
  BY <1>3, <1>6 DEF Clients
<1> QED BY <1>1, <1>2, <1>4, <1>5, <1>7, GiveUpQuiet

\* One command of client c, top level or inside EXEC.
LEMMA CallQuiet ==
  ASSUME TypeOK, Signals, Quiet(State), NEW c \in Client, NEW cmd \in Commands,
         CanWrite(Call(State, c, cmd)), Apply(Call(State, c, cmd)), now' = now,
         Observe(GivesUp(c, cmd))
  PROVE  Quiet(State)'
<1>0. /\ State \in StType /\ State.cl = cl /\ cl \in Clients
      /\ \A b \in Client : cl[b] \in ClientState
      /\ cl[c].db \in DB
      /\ now \in Nat
  BY StateType, BoundsAssumption DEF TypeOK, Clients, ClientState, State
<1>1. CASE cmd.op = "select"
  <2>1. cl' = [cl EXCEPT ![c].db = cmd.db] /\ UNCHANGED <<dbs, stamp>>
    BY <1>1 DEF Call, Apply, State
  <2>2. moved' = [b \in Client |-> b \notin {} /\ moved[b]]
    BY <1>1, <2>1, ObserveNothing DEF GivesUp
  <2>3. \A b \in Client : /\ cl'[b].watched = cl[b].watched
                          /\ cl'[b].stale = cl[b].stale
                          /\ cl'[b].dirty_cas = cl[b].dirty_cas
    BY <1>0, <2>1 DEF ClientState
  <2>4. \A b \in Client : moved[b] => moved'[b]  BY <2>2
  <2> QED BY <2>1, <2>3, <2>4, QuietNow, QuietNext
<1>2. CASE cmd.op = "unwatch"
  <2> DEFINE u == UnwatchAll(cl, {c})
  <2>1. cl' = [u EXCEPT ![c].dirty_cas = FALSE] /\ UNCHANGED <<dbs, stamp>>
    BY <1>2 DEF Call, Apply, State
  <2>2. u \in Clients  BY <1>0, UnwatchAllType
  <2>3. \A b \in Client : /\ u[b].watched = IF b = c THEN {} ELSE cl[b].watched
                          /\ u[b].stale = IF b = c THEN {} ELSE cl[b].stale
                          /\ u[b].dirty_cas = cl[b].dirty_cas
    BY <1>0, UnwatchAllKeeps
  <2> HIDE DEF u
  <2>4. /\ ~cl'[c].dirty_cas /\ cl'[c].watched = {} /\ cl'[c].stale = {}
        /\ \A b \in Client \ {c} : cl'[b] = u[b]
    BY <2>1, <2>2, <2>3 DEF Clients, ClientState
  <2>5. moved' = [b \in Client |-> b \notin {c} /\ moved[b]]
    BY <1>2, <2>1, ObserveNothing DEF GivesUp
  <2>6. moved' = [b \in Client |-> b # c /\ moved[b]]  BY <2>5
  <2> QED BY ZenonT(60), <2>1, <2>3, <2>4, <2>6, GiveUpQuiet
<1>3. CASE cmd.op \notin {"select", "unwatch"}
  <2>1. Call(State, c, cmd) = CallData(State, cl[c].db, cmd, FALSE)
    BY <1>0, <1>3 DEF Call
  <2>2. Call(State, c, cmd) \in StType  BY <1>0, CallType
  <2>3. Done(Call(State, c, cmd))  BY <1>0, <1>3, <2>1, CallDataDone
  <2>4. Observe({})  BY <1>3 DEF GivesUp
  <2> QED BY <2>2, <2>3, <2>4, DoneStep
<1> QED BY <1>1, <1>2, <1>3

\* The clock: a watched name that expires now has changed.
LEMMA TickQuiet ==
  ASSUME TypeOK, Quiet(State), Tick
  PROVE  Quiet(State)'
<1>1. now' = now + 1 /\ UNCHANGED <<dbs, stamp, cl>>  BY DEF Tick
<1>2. \A c \in Client : cl[c].watched \subseteq Slot
  BY DEF TypeOK, ClientState
<1>3. ASSUME NEW c \in Client, NEW w \in cl[c].watched \ cl[c].stale,
             IsExpired(dbs[w[1]][w[2]], now')
      PROVE  moved'[c]
  <2>1. moved'[c] = (c \notin {} /\ (moved[c] \/ cl[c].watched \cap Changed # {}))
    BY DEF Tick, Observe
  <2>2. CASE IsExpired(dbs[w[1]][w[2]], now)  BY <2>1, <2>2, QuietNow
  <2>3. CASE ~IsExpired(dbs[w[1]][w[2]], now)
    <3>1. w \in Slot /\ dbs[w[1]][w[2]] \in Entry
      BY <1>2 DEF TypeOK, Slot
    <3>2. Present(dbs[w[1]][w[2]])  BY <1>3, <3>1, LogicalFacts
    <3>3. Logical(dbs[w[1]][w[2]], now) # Logical(dbs[w[1]][w[2]], now')
      BY <1>3, <2>3, <3>2 DEF Logical, Present, NoEntry
    <3>4. w \in Changed  BY <1>1, <3>1, <3>3 DEF Changed
    <3> QED BY <2>1, <3>4
  <2> QED BY <2>2, <2>3
<1>4. \A c \in Client : moved[c] => moved'[c]
  BY DEF Tick, Observe
<1> QED BY <1>1, <1>3, <1>4, QuietNow, QuietNext

\* A replica ends a full sync with swapMainDbWithTempDb: every key of the new dataset
\* has a stamp of its own.
LEMMA FullSyncQuiet ==
  ASSUME TypeOK, Signals, Quiet(State), NEW val \in [Slot -> 0..MaxStamp],
         NEW last \in 1..MaxStamp, NEW e \in NoExpire..MaxTime, NEW m \in LoadModes,
         FullSync(val, last, e, m)
  PROVE  Quiet(State)'
<1> DEFINE new == [d \in DB |-> [k \in Key |->
                     IF val[<<d, k>>] # 0 THEN [stamp |-> val[<<d, k>>], expire |-> e]
                                          ELSE NoEntry]]
           p   == Replace(State, DB, new)
           q   == [p EXCEPT !.stamp = last]
<1>0. /\ State \in StType /\ State.stamp = stamp /\ cl \in Clients
      /\ stamp \in Nat /\ last \in Nat /\ stamp < last
      /\ \A w \in Slot : val[w] \in Nat
  BY StateType, BoundsAssumption DEF TypeOK, Clients, State, FullSync
<1>1. \A w \in Slot : val[w] # 0 => /\ val[w] \in (stamp + 1) .. last
                                    /\ \A v \in Slot : val[v] = val[w] => v = w
  BY DEF FullSync
<1>2. Apply(q)
  <2>1. m = "swap"  BY DEF Signals, FullSync
  <2> QED BY <2>1 DEF FullSync
<1>3. new \in [DB -> [Key -> Entry]]
  <2>1. ASSUME NEW d \in DB, NEW k \in Key, val[<<d, k>>] # 0
        PROVE  val[<<d, k>>] \in 1..MaxStamp
    BY <2>1, BoundsAssumption DEF Slot
  <2> QED BY <2>1 DEF Entry
<1>4. \A w \in Slot : new[w[1]][w[2]].stamp = val[w]
  BY DEF Slot, NoEntry
<1> HIDE DEF new
<1>5. p \in StType  BY <1>0, <1>3, ReplaceType
<1>6. \A w \in Slot : At(State, w).stamp <= stamp /\ At(State, w).stamp \in Nat
  BY <1>0, AtType, BoundsAssumption DEF Quiet, StampsOK, Entry, NoEntry
<1>7. \A w \in Slot : /\ w[1] \in DB
                      /\ Present(At(State, w)) => new[w[1]][w[2]].stamp # At(State, w).stamp
  BY <1>0, <1>1, <1>4, <1>6 DEF Slot, Present
<1>8. \A c \in Client : Sound(p, c, Differs(p, c))
  BY <1>0, <1>3, <1>7, ReplaceSound
<1>9. p.dbs = new  BY DEF Replace, State
<1> HIDE DEF p
<1>10. q.cl = p.cl /\ q.dbs = p.dbs /\ q.stamp = last /\ q \in StType
  BY <1>5, BoundsAssumption DEF StType
<1> HIDE DEF q
<1>11. \A c \in Client : Sound(q, c, Differs(q, c))
  BY <1>8, <1>10 DEF Sound, Differs, At
<1>12. \A w \in Slot : At(q, w).stamp = val[w]
  BY <1>4, <1>9, <1>10 DEF At
<1>13. StampsOK(q)
  BY <1>0, <1>1, <1>10, <1>12 DEF StampsOK, Present
<1>14. Done(q)  BY <1>11, <1>13 DEF Done
<1> QED BY <1>2, <1>10, <1>14, DoneStep DEF FullSync

\* AbortInv is inductive, given types and QueueInv (a refused UNWATCH inside EXEC).
LEMMA AbortStep == TypeOK /\ QueueInv /\ AbortInv /\ [Next]_vars => AbortInv'
<1> SUFFICES ASSUME TypeOK, QueueInv, Signals, Quiet(State), [Next]_vars
             PROVE  Quiet(State)'
  BY DEF AbortInv, Signals
<1>0. /\ State \in StType /\ State.cl = cl /\ cl \in Clients
      /\ \A b \in Client : cl[b] \in ClientState
      /\ now \in Nat
  BY StateType, BoundsAssumption DEF TypeOK, Clients, State
<1>a. ASSUME UNCHANGED <<now, dbs, stamp, moved>>,
             \A b \in Client : /\ cl'[b].watched = cl[b].watched
                               /\ cl'[b].stale = cl[b].stale
                               /\ cl'[b].dirty_cas = cl[b].dirty_cas
      PROVE  Quiet(State)'
  BY <1>a, QuietNow, QuietNext
<1>1. ASSUME NEW c \in Client, ClientStep(c) PROVE Quiet(State)'
  <2>1. CASE MultiCommand(c)
    BY <1>0, <1>a, <2>1 DEF MultiCommand, ClientState
  <2>2. CASE RejectCommand(c)
    <3> DEFINE x == [cl[c] EXCEPT !.dirty_exec = TRUE, !.queue = <<>>]
    <3>1. cl' = [cl EXCEPT ![c] = x] /\ UNCHANGED <<now, dbs, stamp, moved>>
      BY <2>2 DEF RejectCommand
    <3>2. /\ x.watched = cl[c].watched /\ x.stale = cl[c].stale
          /\ x.dirty_cas = cl[c].dirty_cas
      BY <1>0 DEF ClientState
    <3> HIDE DEF x
    <3> QED BY <1>0, <1>a, <3>1, <3>2 DEF Clients
  <2>3. ASSUME NEW K \in SUBSET Key, WatchCommand(c, K) PROVE Quiet(State)'
    <3> DEFINE new == ({cl[c].db} \X K) \ cl[c].watched
               exp == {w \in new : IsExpired(dbs[w[1]][w[2]], now)}
               x   == [cl[c] EXCEPT !.watched = @ \cup new, !.stale = @ \cup exp,
                          !.ahead = [w \in Slot |-> IF w \in new THEN Watchers(cl, w)
                                                                ELSE @[w]]]
    <3>1. cl' = [cl EXCEPT ![c] = x] /\ UNCHANGED <<now, dbs, stamp, moved>>
      BY <2>3 DEF WatchCommand
    <3>2. /\ x.watched = cl[c].watched \cup new /\ x.stale = cl[c].stale \cup exp
          /\ x.dirty_cas = cl[c].dirty_cas
      BY <1>0 DEF ClientState
    <3> HIDE DEF x
    <3>3. /\ cl'[c].watched = cl[c].watched \cup new
          /\ cl'[c].stale = cl[c].stale \cup exp
          /\ cl'[c].dirty_cas = cl[c].dirty_cas
          /\ \A b \in Client \ {c} : cl'[b] = cl[b]
      BY <1>0, <3>1, <3>2 DEF Clients
    <3>4. new \subseteq Slot  BY <1>0 DEF Slot, ClientState
    <3>5. \A w \in exp : Present(dbs[w[1]][w[2]])
      BY <3>4, LogicalFacts DEF TypeOK, Slot
    <3> QED BY <3>1, <3>3, <3>5, QuietNow, QuietNext
  <2>4. ASSUME NEW cmd \in Commands, QueueCommand(c, cmd) PROVE Quiet(State)'
    BY <1>0, <1>a, <2>4 DEF QueueCommand, ClientState
  <2>5. ASSUME NEW cmd \in Commands, DirectCommand(c, cmd) PROVE Quiet(State)'
    BY <2>5, CallQuiet DEF DirectCommand
  <2>6. CASE DiscardCommand(c)  BY <2>6, DiscardQuiet DEF DiscardCommand
  <2>7. CASE ExecAborted(c)  BY <2>7, DiscardQuiet DEF ExecAborted
  <2>8. CASE ExecRejected(c)  BY <2>8, DiscardQuiet DEF ExecRejected
  <2>9. CASE ExecStart(c)
    <3>1. /\ cl' = UnwatchAll(cl, {c}) /\ UNCHANGED <<now, dbs, stamp>>
          /\ ~cl[c].dirty_cas /\ Observe({c})
      BY <2>9 DEF ExecStart
    <3>2. moved' = [b \in Client |-> b \notin {c} /\ moved[b]]
      BY <3>1, ObserveNothing
    <3>3. moved' = [b \in Client |-> b # c /\ moved[b]]  BY <3>2
    <3> QED BY <1>0, <3>1, <3>3, UnwatchAllKeeps, GiveUpQuiet
  <2>10. CASE ExecStep(c)
    <3> DEFINE cmd == cl[c].queue[exec_pos + 1]
    <3>1. cmd \in Commands
      BY <1>0, <2>10 DEF ExecStep, ClientState, TypeOK
    <3>2. in_exec = c /\ now' = now /\ Observe(GivesUp(c, cmd))  BY <2>10 DEF ExecStep
    <3>3. \/ CanWrite(Call(State, c, cmd)) /\ Apply(Call(State, c, cmd))
          \/ UNCHANGED <<dbs, cl, stamp>>
      BY <2>10 DEF ExecStep
    <3> HIDE DEF cmd
    <3>4. CASE CanWrite(Call(State, c, cmd)) /\ Apply(Call(State, c, cmd))
      BY <3>1, <3>2, <3>4, CallQuiet
    <3>5. CASE UNCHANGED <<dbs, cl, stamp>>
      <4>1. moved' = [b \in Client |-> b \notin GivesUp(c, cmd) /\ moved[b]]
        BY <3>2, <3>5, ObserveNothing
      <4>2. GivesUp(c, cmd) \subseteq {c}  BY DEF GivesUp
      <4>3. ~cl[c].dirty_cas /\ cl[c].watched = {}
        BY <3>2 DEF QueueInv, QueueOK
      <4>4. \A b \in Client : b = c \/ moved'[b] = moved[b]
        BY <4>1, <4>2 DEF TypeOK
      <4> QED BY <3>2, <3>5, <4>3, <4>4, QuietNow, QuietNext
    <3> QED BY <3>3, <3>4, <3>5
  <2>11. CASE ExecEnd(c)  BY <2>11, DiscardQuiet DEF ExecEnd
  <2>12. CASE Disconnect(c)
    <3>1. /\ cl' = [UnwatchAll(cl, {c}) EXCEPT ![c] = InitialClient]
          /\ UNCHANGED <<now, dbs, stamp>> /\ Observe({c})
      BY <2>12 DEF Disconnect
    <3>2. UnwatchAll(cl, {c}) \in Clients  BY <1>0, UnwatchAllType
    <3>3. cl'[c] = InitialClient /\ \A b \in Client \ {c} : cl'[b] = UnwatchAll(cl, {c})[b]
      BY <3>1, <3>2 DEF Clients
    <3>4. moved' = [b \in Client |-> b \notin {c} /\ moved[b]]
      BY <3>1, ObserveNothing
    <3>5. moved' = [b \in Client |-> b # c /\ moved[b]]  BY <3>4
    <3>6. \A b \in Client \ {c} : /\ cl'[b].watched = cl[b].watched
                                  /\ cl'[b].stale = cl[b].stale
                                  /\ cl'[b].dirty_cas = cl[b].dirty_cas
      BY <1>0, <3>3, UnwatchAllKeeps
    <3>7. ~cl'[c].dirty_cas /\ cl'[c].watched = {} /\ cl'[c].stale = {}
      BY <3>3 DEF InitialClient
    <3> QED BY <3>1, <3>5, <3>6, <3>7, GiveUpQuiet
  <2> QED BY <1>1, <2>1, <2>2, <2>3, <2>4, <2>5, <2>6, <2>7, <2>8, <2>9, <2>10,
             <2>11, <2>12 DEF ClientStep
<1>2. ASSUME NEW w \in Slot, ActiveExpire(w) PROVE Quiet(State)'
  <2>1. Present(At(State, w))
    BY <1>0, <1>2, LogicalFacts, AtType DEF ActiveExpire, At, State
  <2>2. Done(Put(State, w, NoEntry)) /\ Put(State, w, NoEntry) \in StType
    BY <1>0, <2>1, DeleteDone, PutType, NoEntryType
  <2> QED BY <1>2, <2>2, DoneStep DEF ActiveExpire
<1>3. ASSUME NEW d \in DB, NEW cmd \in Commands, PrimaryCommand(d, cmd)
      PROVE  Quiet(State)'
  <2>1. cmd.op \notin {"select", "unwatch"}  BY <1>3 DEF PrimaryCommand, WriteOp
  <2> DEFINE st == CallData(State, d, cmd, TRUE)
  <2>2. CanWrite(st) /\ Apply(st) /\ now' = now /\ Observe({})
    BY <1>3 DEF PrimaryCommand
  <2>3. st \in StType  BY <1>0, <2>1, <2>2, CallDataType
  <2>4. Done(st)  BY <1>0, <2>1, <2>2, CallDataDone
  <2> QED BY <2>2, <2>3, <2>4, DoneStep
<1>4. ASSUME NEW val \in [Slot -> 0..MaxStamp], NEW last \in 1..MaxStamp,
             NEW e \in NoExpire..MaxTime, NEW m \in LoadModes,
             FullSync(val, last, e, m)
      PROVE  Quiet(State)'
  BY <1>4, FullSyncQuiet
<1>5. CASE Tick  BY <1>5, TickQuiet
<1>6. CASE UNCHANGED vars
  BY <1>a, <1>6 DEF vars
<1> QED BY <1>1, <1>2, <1>3, <1>4, <1>5, <1>6 DEF Next, ServerStep

\* A client is made dirty only by a change of a name it watches (touchWatchedKey,
\* touchAllWatchedKeysInDb): on every primary, SWAPDB included, and on a replica that
\* is sent no expiry time already past and swaps in the datasets it loads.
THEOREM AbortsAreJustified ==
  ASSUME Signals
  PROVE  Spec => []NoSpuriousAbort
<1>1. Init => QueueInv
  <2>1. Len(<<>>) = 0  OBVIOUS
  <2> QED BY <2>1, NoneAssumption DEF Init, QueueInv, QueueOK, InitialClient
<1>2. Init => AbortInv
  <2> SUFFICES ASSUME Init PROVE Quiet(State)
    BY DEF AbortInv
  <2>1. \A w \in Slot : At(State, w) = NoEntry
    BY DEF Init, At, State, Slot
  <2>2. NoEntry.stamp = 0 /\ ~Present(NoEntry) /\ State.stamp = 0
    BY DEF NoEntry, Present, State, Init
  <2>3. \A c \in Client : Sound(State, c, moved[c])
    BY DEF Init, Sound, State, InitialClient
  <2>4. StampsOK(State)
    BY <2>1, <2>2 DEF StampsOK
  <2> QED BY <2>3, <2>4 DEF Quiet
<1>3. AbortInv => NoSpuriousAbort
  BY QuietNow DEF AbortInv, NoSpuriousAbort
<1> QED BY <1>1, <1>2, <1>3, TypeCorrect, QueueStep, AbortStep, PTL DEF Spec
=============================================================================
