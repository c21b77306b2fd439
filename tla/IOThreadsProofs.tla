--------------------------- MODULE IOThreadsProofs ---------------------------
(***************************************************************************)
(* Proofs about IOThreads: the rings are sound, the jobs in them are       *)
(* exactly the pending reads and writes of the clients, one client is with *)
(* one thread at a time, no job waits at a parked thread, and a reply in a *)
(* client's buffer is scheduled to be written.                             *)
(*                                                                         *)
(* One inductive invariant, IOInv, carries all but the last, for which     *)
(* ReplyInv is added to it.  They are stated over values, not over the     *)
(* variables, so that the intermediate states of a step of the main thread *)
(* can be described by them as well: st is a record of clients and rings,  *)
(* th the state of the threads and a the number of active ones.            *)
(***************************************************************************)
EXTENDS IOThreads, FiniteSetTheorems, TLAPS

-----------------------------------------------------------------------------
(* The invariant.                                                          *)

Ring   == [buf : [Index -> Job], head : Index, tail : Index]
ThrRec == [pc : {"off", "top", "lock", "handle", "remove"}, left : 0 .. (QueueSize - 1)]

\* Slot i is between the tail and the head.
InUse(jq, i) ==
  IF jq.tail <= jq.head THEN jq.tail <= i /\ i < jq.head ELSE jq.tail <= i \/ i < jq.head

\* The slots that hold a job are the ones from the tail to the head.
GoodRing(jq) == jq \in Ring /\ \A i \in Index : InUse(jq, i) <=> jq.buf[i] # NoJob

\* A thread has no more jobs to process than its ring holds, one at least while
\* it handles or removes one, and no jobs at all unless it is active.
GoodThread(jq, s, t, a) ==
  /\ GoodRing(jq)
  /\ s.left <= AvailableJobs(jq)
  /\ s.pc \in {"handle", "remove"} => s.left >= 1
  /\ ~IsEmpty(jq) => t < a

\* Unfinished, of any rings and threads.
Where(jb, th, c, K) ==
  {x \in Thread \X Index :
     LET jq == jb[x[1]]
     IN  /\ jq.buf[x[2]].c = c /\ jq.buf[x[2]].kind \in K
         /\ ~(x[2] = jq.tail /\ th[x[1]].pc = "remove")}

Exactly(W, b) == IF b THEN \E x : W = {x} ELSE W = {}

Reading == {"read", "accept"}
Writing == {"write"}

\* What holds of the fields of a client.
GoodFields(x) ==
  /\ x \in ClientState
  /\ x.last <= x.out
  /\ x.conn # "open" => x.out = 0 /\ x.write = "idle"

\* Its jobs are the pending ones, on the thread it is with; an accept, whose thread
\* is not recorded, is the only job of a client that is being accepted.
GoodJobs(x, jb, th, c) ==
  /\ Exactly(Where(jb, th, c, Reading), x.read = "pending")
  /\ Exactly(Where(jb, th, c, Writing), x.write = "pending")
  /\ \A y \in Where(jb, th, c, {"read", "write"}) : y[1] = x.cur_tid
  /\ Where(jb, th, c, {"accept"}) # {} => x.conn = "accepting"

GoodRings(jb, th, a) ==
  jb \in [Thread -> Ring] /\ \A t \in Thread : GoodThread(jb[t], th[t], t, a)

GoodClients(cs, jb, th) ==
  \A c \in Client : GoodFields(cs[c]) /\ GoodJobs(cs[c], jb, th, c)

StateRec == [cl : [Client -> ClientState], jobs : [Thread -> Ring]]

Good(st, th, a) ==
  /\ st \in StateRec
  /\ GoodRings(st.jobs, th, a)
  /\ GoodClients(st.cl, st.jobs, th)

Resizing == {"drain", "lock", "unblock", "shutdown", "join", "done"}

\* Where the main thread is: the rings are empty from the end of the drain on, an
\* active thread is parked only in the middle of LockActive, there is a thread to
\* stop, and the client that resizes has nothing in flight.
MainOK(m, st, a, n, mu, last) ==
  /\ m \in MainType
  /\ m.sub \in {"lock", "unblock", "shutdown", "join"} => \A t \in Thread : IsEmpty(st.jobs[t])
  /\ \A t \in Thread : t < a /\ mu[t] = "main" => m.sub = "lock" /\ t < m.target
  /\ m.sub \in {"unblock", "shutdown"} => last + 1 > n
  /\ m.sub \in Resizing =>
       /\ m.phase \in {"reads", "reads2", "events"}
       /\ m.who \in Client
       /\ st.cl[m.who].out < MaxOut
       /\ st.cl[m.who].read = "idle" /\ st.cl[m.who].write = "idle"

Scalars ==
  /\ active \in 1..MaxThreads /\ num \in 1..MaxThreads
  /\ thr \in [Thread -> ThrRec]
  /\ mutex \in [Thread -> {"free", "main"}]
  /\ poll \in {"none", "poll", "done"}

\* The inductive invariant.
IOInv ==
  /\ Scalars
  /\ Good(State, thr, active)
  /\ MainOK(main, State, active, num, mutex, Last)

-----------------------------------------------------------------------------
(* The rings.                                                              *)

\* The index after i.
After1(i) == IF i + 1 = QueueSize THEN 0 ELSE i + 1

\* The indices wrap around.
LEMMA NextIndex ==
  ASSUME NEW i \in Index
  PROVE  (i + 1) % QueueSize = After1(i) /\ After1(i) \in Index
<1>1. CASE i + 1 = QueueSize
  <2>1. QueueSize % QueueSize = 0
    BY QueueAssumption
  <2> QED BY <1>1, <2>1, QueueAssumption DEF Index, After1
<1>2. CASE i + 1 # QueueSize
  <2>1. i + 1 \in 0 .. (QueueSize - 1)
    BY <1>2, QueueAssumption DEF Index
  <2>2. (i + 1) % QueueSize = i + 1
    BY <2>1, QueueAssumption
  <2> QED BY <1>2, <2>1, <2>2 DEF Index, After1
<1> QED BY <1>1, <1>2

\* What NoJob is not.
LEMMA JobKinds ==
  /\ NoJob \in Job
  /\ \A j \in Job : j # NoJob <=> j.kind # "none"
  /\ \A c \in Client : /\ [kind |-> "read", c |-> c] \in Job
                       /\ [kind |-> "write", c |-> c] \in Job
                       /\ [kind |-> "accept", c |-> c] \in Job
  /\ [kind |-> "free", c |-> 0] \in Job /\ [kind |-> "poll", c |-> 0] \in Job
BY DEF NoJob, Job

\* IOJobQueue_push fills the slot at the head, which was free.
LEMMA PushRing ==
  ASSUME NEW jq, GoodRing(jq), ~IsFull(jq), NEW j \in Job, j # NoJob
  PROVE  /\ GoodRing(Push(jq, j))
         /\ Push(jq, j).buf = [jq.buf EXCEPT ![jq.head] = j]
         /\ Push(jq, j).tail = jq.tail
         /\ jq.head \in Index
         /\ jq.buf[jq.head] = NoJob
         /\ ~IsEmpty(Push(jq, j))
         /\ AvailableJobs(Push(jq, j)) = AvailableJobs(jq) + 1
<1> DEFINE h == jq.head
           r == Push(jq, j)
<1>1. jq \in Ring /\ h \in Index /\ jq.tail \in Index /\ jq.buf \in [Index -> Job]
  BY DEF GoodRing, Ring
<1>2. (h + 1) % QueueSize = After1(h) /\ After1(h) \in Index
  BY <1>1, NextIndex
<1>3. /\ r \in Ring /\ r.buf = [jq.buf EXCEPT ![h] = j]
      /\ r.tail = jq.tail /\ r.head = After1(h)
  BY <1>1, <1>2 DEF Push, Ring
<1>4. After1(h) # jq.tail
  BY <1>2 DEF IsFull
<1>5. jq.buf[h] = NoJob
  BY <1>1, QueueAssumption DEF GoodRing, InUse, Index
<1>6. ASSUME NEW i \in Index PROVE InUse(r, i) <=> (InUse(jq, i) \/ i = h)
  BY <1>1, <1>3, <1>4, QueueAssumption DEF InUse, Index, After1
<1>7. \A i \in Index : InUse(r, i) <=> r.buf[i] # NoJob
  BY <1>1, <1>3, <1>5, <1>6 DEF GoodRing
<1>8. ~IsEmpty(r)
  BY <1>3, <1>4 DEF IsEmpty
<1>9. AvailableJobs(r) = AvailableJobs(jq) + 1
  <2>1. /\ h \in Int /\ jq.tail \in Int /\ QueueSize \in Int
        /\ 0 <= h /\ h < QueueSize /\ 0 <= jq.tail /\ jq.tail < QueueSize
    BY <1>1, QueueAssumption DEF Index
  <2>2. r.head = (IF h + 1 = QueueSize THEN 0 ELSE h + 1) /\ r.head # r.tail /\ r.tail = jq.tail
    BY <1>3, <1>4 DEF After1
  <2> HIDE DEF r
  <2>3. CASE h + 1 = QueueSize
    BY <2>1, <2>2, <2>3 DEF AvailableJobs
  <2>4. CASE h + 1 # QueueSize
    BY <2>1, <2>2, <2>4 DEF AvailableJobs
  <2> QED BY <2>3, <2>4
<1> QED BY <1>1, <1>3, <1>5, <1>7, <1>8, <1>9 DEF GoodRing

\* IOJobQueue_removeJob empties the slot at the tail.
LEMMA RemoveRing ==
  ASSUME NEW jq, GoodRing(jq), ~IsEmpty(jq)
  PROVE  /\ GoodRing(RemoveJob(jq))
         /\ RemoveJob(jq).buf = [jq.buf EXCEPT ![jq.tail] = NoJob]
         /\ jq.tail \in Index
         /\ jq.buf[jq.tail] # NoJob
         /\ AvailableJobs(RemoveJob(jq)) = AvailableJobs(jq) - 1
<1> DEFINE l == jq.tail
           r == RemoveJob(jq)
<1>1. jq \in Ring /\ jq.head \in Index /\ l \in Index /\ jq.buf \in [Index -> Job]
  BY DEF GoodRing, Ring
<1>2. (l + 1) % QueueSize = After1(l) /\ After1(l) \in Index
  BY <1>1, NextIndex
<1>3. /\ r \in Ring /\ r.buf = [jq.buf EXCEPT ![l] = NoJob]
      /\ r.head = jq.head /\ r.tail = After1(l)
  BY <1>1, <1>2, JobKinds DEF RemoveJob, Ring
<1>4. jq.head # l
  BY DEF IsEmpty
<1>5. jq.buf[l] # NoJob
  BY <1>1, <1>4, QueueAssumption DEF GoodRing, InUse, Index
<1>6. ASSUME NEW i \in Index PROVE InUse(r, i) <=> (InUse(jq, i) /\ i # l)
  BY <1>1, <1>3, <1>4, QueueAssumption DEF InUse, Index, After1
<1>7. \A i \in Index : InUse(r, i) <=> r.buf[i] # NoJob
  BY <1>1, <1>3, <1>5, <1>6 DEF GoodRing
<1>8. AvailableJobs(r) = AvailableJobs(jq) - 1
  BY <1>1, <1>3, <1>4, QueueAssumption DEF AvailableJobs, Index, After1
<1> QED BY <1>1, <1>3, <1>5, <1>7, <1>8 DEF GoodRing

\* How many jobs there are, and that an empty ring holds none.
LEMMA RingBounds ==
  ASSUME NEW jq, GoodRing(jq)
  PROVE  /\ AvailableJobs(jq) \in 0 .. (QueueSize - 1)
         /\ IsEmpty(jq) <=> AvailableJobs(jq) = 0
         /\ IsEmpty(jq) => \A i \in Index : jq.buf[i] = NoJob
         /\ jq.buf[jq.head] = NoJob
<1>1. jq.head \in Index /\ jq.tail \in Index
  BY DEF GoodRing, Ring
<1> QED BY <1>1, QueueAssumption DEF GoodRing, AvailableJobs, IsEmpty, InUse, Index

\* availableJobs counts the filled slots.
LEMMA RingCount ==
  ASSUME NEW jq, GoodRing(jq)
  PROVE  Cardinality({i \in Index : jq.buf[i] # NoJob}) = AvailableJobs(jq)
<1> DEFINE F == {i \in Index : jq.buf[i] # NoJob}
<1>1. /\ jq.head \in Int /\ jq.tail \in Int /\ QueueSize \in Int
      /\ jq.head - 1 \in Int /\ QueueSize - 1 \in Int /\ 0 \in Int
      /\ 0 <= jq.head /\ jq.head < QueueSize /\ 0 <= jq.tail /\ jq.tail < QueueSize
  BY QueueAssumption DEF GoodRing, Ring, Index
<1>2. F = {i \in Index : InUse(jq, i)}
  BY DEF GoodRing
<1>3. CASE jq.tail <= jq.head
  <2>1. F = jq.tail .. (jq.head - 1)
    BY <1>1, <1>2, <1>3 DEF InUse, Index
  <2>2. Cardinality(F) = IF jq.tail > jq.head - 1 THEN 0 ELSE jq.head - 1 - jq.tail + 1
    BY <1>1, <2>1, FS_Interval
  <2> QED BY <1>1, <1>3, <2>2 DEF AvailableJobs
<1>4. CASE ~(jq.tail <= jq.head)
  <2> DEFINE A == jq.tail .. (QueueSize - 1)
             B == 0 .. (jq.head - 1)
  <2>1. F = A \cup B
    BY <1>1, <1>2, <1>4 DEF InUse, Index
  <2>2. A \cap B = {}
    BY <1>1, <1>4
  <2>3. IsFiniteSet(A) /\ Cardinality(A) = QueueSize - jq.tail
    <3>1. /\ IsFiniteSet(A)
          /\ Cardinality(A) = IF jq.tail > QueueSize - 1 THEN 0 ELSE QueueSize - 1 - jq.tail + 1
      BY <1>1, FS_Interval
    <3> QED BY <1>1, <3>1
  <2>4. IsFiniteSet(B) /\ Cardinality(B) = jq.head
    <3>1. /\ IsFiniteSet(B)
          /\ Cardinality(B) = IF 0 > jq.head - 1 THEN 0 ELSE jq.head - 1 - 0 + 1
      BY <1>1, FS_Interval
    <3> QED BY <1>1, <3>1
  <2>5. Cardinality(A \cup B) = Cardinality(A) + Cardinality(B) - Cardinality(A \cap B)
    BY <2>3, <2>4, FS_Union
  <2>6. Cardinality(A \cap B) = 0
    BY <2>2, FS_EmptySet
  <2>7. Cardinality(F) = QueueSize - jq.tail + jq.head
    <3> HIDE DEF F, A, B
    <3> QED BY <1>1, <2>1, <2>3, <2>4, <2>5, <2>6
  <2> QED BY <1>1, <1>4, <2>7 DEF AvailableJobs
<1> QED BY <1>3, <1>4

-----------------------------------------------------------------------------
(* The unfinished jobs of a client.                                        *)

\* The kinds of jobs that are looked for.
KindSets == {Reading, Writing, {"read", "write"}, {"accept"}}

LEMMA WhereSplit ==
  ASSUME NEW jb, NEW th, NEW c
  PROVE  /\ Where(jb, th, c, {"accept"}) \subseteq Where(jb, th, c, Reading)
         /\ Where(jb, th, c, {"read", "write"})
              \subseteq Where(jb, th, c, Reading) \cup Where(jb, th, c, Writing)
         /\ Where(jb, th, c, Writing) \subseteq Where(jb, th, c, {"read", "write"})
         /\ Where(jb, th, c, Reading)
              \subseteq Where(jb, th, c, {"read", "write"}) \cup Where(jb, th, c, {"accept"})
         /\ \A K \in KindSets : Where(jb, th, c, K) \subseteq Thread \X Index
BY DEF Where, Reading, Writing

\* A job that is sent is one more unfinished job, of its client and kind only.
Added(jb, jb2, th, j, p) ==
  \A c \in Client : \A K \in KindSets :
    Where(jb2, th, c, K) =
      Where(jb, th, c, K) \cup (IF j.kind \in K /\ j.c = c THEN {p} ELSE {})

LEMMA PushWhere ==
  ASSUME NEW jb, NEW th, NEW a \in Int, GoodRings(jb, th, a), th \in [Thread -> ThrRec],
         NEW t \in Thread, t < a, ~IsFull(jb[t]), NEW j \in Job, j # NoJob
  PROVE  /\ GoodRings([jb EXCEPT ![t] = Push(@, j)], th, a)
         /\ Added(jb, [jb EXCEPT ![t] = Push(@, j)], th, j, <<t, jb[t].head>>)
<1> DEFINE jq  == jb[t]
           r   == Push(jq, j)
           jb2 == [jb EXCEPT ![t] = Push(@, j)]
           h   == jq.head
<1>1. jb \in [Thread -> Ring] /\ jq \in Ring /\ GoodThread(jq, th[t], t, a)
  BY DEF GoodRings
<1>2. GoodRing(jq)
  BY <1>1 DEF GoodThread
<1>3. /\ GoodRing(r) /\ r.buf = [jq.buf EXCEPT ![h] = j] /\ r.tail = jq.tail /\ h \in Index
      /\ jq.buf[h] = NoJob /\ ~IsEmpty(r) /\ AvailableJobs(r) = AvailableJobs(jq) + 1
  BY <1>2, PushRing
<1>4. r \in Ring
  BY <1>3 DEF GoodRing
<1>5. jb2 = [jb EXCEPT ![t] = r]
  OBVIOUS
<1>6. AvailableJobs(jq) \in 0 .. (QueueSize - 1) /\ (IsEmpty(jq) <=> AvailableJobs(jq) = 0)
  BY <1>2, RingBounds
<1>7. th[t] \in ThrRec /\ th[t].left \in Int
  BY QueueAssumption DEF ThrRec
<1>8. h = jq.tail => th[t].pc # "remove"
  BY <1>1, <1>6, <1>7, QueueAssumption DEF GoodThread, IsEmpty
<1> HIDE DEF r, jb2, jq, h
<1>9. GoodRings(jb2, th, a)
  <2>1. jb2 \in [Thread -> Ring] /\ jb2[t] = r /\ \A u \in Thread \ {t} : jb2[u] = jb[u]
    BY <1>1, <1>4, <1>5
  <2>2. GoodThread(r, th[t], t, a)
    BY <1>1, <1>3, <1>6, <1>7, QueueAssumption DEF GoodThread
  <2> QED BY <2>1, <2>2 DEF GoodRings
<1>10. Added(jb, jb2, th, j, <<t, h>>)
  <2> SUFFICES ASSUME NEW c \in Client, NEW K \in KindSets
               PROVE  Where(jb2, th, c, K) =
                        Where(jb, th, c, K) \cup (IF j.kind \in K /\ j.c = c THEN {<<t, h>>} ELSE {})
    BY DEF Added
  <2>1. "none" \notin K
    BY DEF KindSets, Reading, Writing
  <2>2. jb2 \in [Thread -> Ring] /\ jb2[t] = r /\ \A u \in Thread \ {t} : jb2[u] = jb[u]
    BY <1>1, <1>4, <1>5
  <2>3. r.buf[h] = j /\ \A i \in Index \ {h} : r.buf[i] = jq.buf[i]
    BY <1>1, <1>3 DEF Ring
  <2>4. jq.buf[h].kind = "none"
    BY <1>3 DEF NoJob
  <2>5. ASSUME NEW u \in Thread, NEW i \in Index
        PROVE  <<u, i>> \in Where(jb2, th, c, K) <=>
                 (<<u, i>> \in Where(jb, th, c, K) \/ (j.kind \in K /\ j.c = c /\ <<u, i>> = <<t, h>>))
    <3>1. CASE u # t
      BY <2>2, <3>1 DEF Where
    <3>2. CASE u = t /\ i # h
      BY <2>2, <2>3, <1>3, <3>2 DEF Where, jq
    <3>3. CASE u = t /\ i = h
      BY <2>1, <2>2, <2>3, <2>4, <1>3, <1>8, <3>3 DEF Where, jq
    <3> QED BY <3>1, <3>2, <3>3
  <2>6. Where(jb2, th, c, K) \subseteq Thread \X Index /\ Where(jb, th, c, K) \subseteq Thread \X Index
    BY DEF Where
  <2>7. <<t, h>> \in Thread \X Index
    BY <1>3
  <2> QED BY <2>5, <2>6, <2>7
<1> QED BY <1>9, <1>10 DEF jb2, jq, h

-----------------------------------------------------------------------------
(* What a change of a client, or a job sent for it, does to its jobs.      *)

\* x and y have the same I/O in flight.
SameFlight(x, y) ==
  /\ y.read = "pending" <=> x.read = "pending"
  /\ y.write = "pending" <=> x.write = "pending"
  /\ y.cur_tid = x.cur_tid \/ ~Busy(x)
  /\ y.conn = x.conn \/ x.read # "pending"

\* A client without I/O in flight has no jobs.
LEMMA NoFlight ==
  ASSUME NEW x, NEW jb, NEW th, NEW c, GoodJobs(x, jb, th, c)
  PROVE  /\ x.read # "pending" => /\ Where(jb, th, c, Reading) = {}
                                  /\ Where(jb, th, c, {"accept"}) = {}
                                  /\ Where(jb, th, c, {"read", "write"}) \subseteq Where(jb, th, c, Writing)
         /\ x.write # "pending" => Where(jb, th, c, Writing) = {}
BY WhereSplit DEF GoodJobs, Exactly

LEMMA KeepFlight ==
  ASSUME NEW x, NEW y, NEW jb, NEW th, NEW c, GoodJobs(x, jb, th, c), SameFlight(x, y)
  PROVE  GoodJobs(y, jb, th, c)
<1>1. /\ Exactly(Where(jb, th, c, Reading), y.read = "pending")
      /\ Exactly(Where(jb, th, c, Writing), y.write = "pending")
  BY DEF GoodJobs, SameFlight, Exactly
<1>2. \A z \in Where(jb, th, c, {"read", "write"}) : z[1] = y.cur_tid
  BY NoFlight DEF GoodJobs, SameFlight, Busy
<1>3. Where(jb, th, c, {"accept"}) # {} => y.conn = "accepting"
  BY NoFlight DEF GoodJobs, SameFlight
<1> QED BY <1>1, <1>2, <1>3 DEF GoodJobs

\* A job of another client, or of none.
LEMMA OtherJob ==
  ASSUME NEW x, NEW jb, NEW jb2, NEW th, NEW c \in Client, NEW j, NEW p, GoodJobs(x, jb, th, c),
         Added(jb, jb2, th, j, p),
         j.c # c \/ j.kind \in {"free", "poll"}
  PROVE  GoodJobs(x, jb2, th, c)
<1>1. \A K \in KindSets : ~(j.kind \in K /\ j.c = c)
  BY DEF KindSets, Reading, Writing
<1>2. ASSUME NEW K \in KindSets PROVE Where(jb2, th, c, K) = Where(jb, th, c, K)
  <2>1. Where(jb2, th, c, K) =
          Where(jb, th, c, K) \cup (IF j.kind \in K /\ j.c = c THEN {p} ELSE {})
    BY DEF Added
  <2>2. Where(jb2, th, c, K) = Where(jb, th, c, K) \cup {}
    BY <1>1, <2>1
  <2> QED BY <2>2
<1>3. /\ Reading \in KindSets /\ Writing \in KindSets
      /\ {"read", "write"} \in KindSets /\ {"accept"} \in KindSets
  BY DEF KindSets
<1> QED BY <1>2, <1>3 DEF GoodJobs

\* A read goes to the thread that is writing, if there is one.
LEMMA ReadJob ==
  ASSUME NEW x, NEW y, NEW jb, NEW jb2, NEW th, NEW c \in Client, NEW t, NEW i,
         GoodJobs(x, jb, th, c),
         Added(jb, jb2, th, [kind |-> "read", c |-> c], <<t, i>>),
         x.read # "pending", x.write = "pending" => t = x.cur_tid,
         y.read = "pending", y.write = x.write, y.cur_tid = t, y.conn = x.conn
  PROVE  GoodJobs(y, jb2, th, c)
<1>1. /\ Where(jb2, th, c, Reading) = Where(jb, th, c, Reading) \cup {<<t, i>>}
      /\ Where(jb2, th, c, Writing) = Where(jb, th, c, Writing)
      /\ Where(jb2, th, c, {"accept"}) = Where(jb, th, c, {"accept"})
      /\ Where(jb2, th, c, {"read", "write"}) = Where(jb, th, c, {"read", "write"}) \cup {<<t, i>>}
  BY ZenonT(60) DEF Added, KindSets, Reading, Writing
<1>2. /\ Where(jb, th, c, Reading) = {} /\ Where(jb, th, c, {"accept"}) = {}
      /\ Where(jb, th, c, {"read", "write"}) \subseteq Where(jb, th, c, Writing)
      /\ x.write # "pending" => Where(jb, th, c, Writing) = {}
  BY NoFlight
<1>3. \A z \in Where(jb2, th, c, {"read", "write"}) : z[1] = y.cur_tid
  BY <1>1, <1>2 DEF GoodJobs
<1>4. Exactly(Where(jb2, th, c, Reading), y.read = "pending")
  BY <1>1, <1>2 DEF Exactly
<1> QED BY <1>1, <1>2, <1>3, <1>4 DEF GoodJobs

\* So does a write to the thread that is reading.
LEMMA WriteJob ==
  ASSUME NEW x, NEW y, NEW jb, NEW jb2, NEW th, NEW c \in Client, NEW t, NEW i,
         GoodJobs(x, jb, th, c),
         Added(jb, jb2, th, [kind |-> "write", c |-> c], <<t, i>>),
         x.write # "pending", x.read = "pending" => t = x.cur_tid, x.conn = "open",
         y.read = x.read, y.write = "pending", y.cur_tid = t, y.conn = x.conn
  PROVE  GoodJobs(y, jb2, th, c)
<1>1. /\ Where(jb2, th, c, Reading) = Where(jb, th, c, Reading)
      /\ Where(jb2, th, c, Writing) = Where(jb, th, c, Writing) \cup {<<t, i>>}
      /\ Where(jb2, th, c, {"accept"}) = Where(jb, th, c, {"accept"})
      /\ Where(jb2, th, c, {"read", "write"}) = Where(jb, th, c, {"read", "write"}) \cup {<<t, i>>}
  BY DEF Added, KindSets, Reading, Writing
<1>2. /\ Where(jb, th, c, Writing) = {} /\ Where(jb, th, c, {"accept"}) = {}
      /\ Where(jb, th, c, {"read", "write"}) \subseteq Where(jb, th, c, Reading)
      /\ x.read # "pending" => Where(jb, th, c, Reading) = {}
  <2>1. x.conn # "accepting"
    OBVIOUS
  <2>2. Where(jb, th, c, {"accept"}) = {}
    BY <2>1 DEF GoodJobs
  <2>3. Where(jb, th, c, Writing) = {} /\ (x.read # "pending" => Where(jb, th, c, Reading) = {})
    BY NoFlight
  <2> QED BY <2>2, <2>3, WhereSplit
<1>3. \A z \in Where(jb2, th, c, {"read", "write"}) : z[1] = y.cur_tid
  BY <1>1, <1>2 DEF GoodJobs
<1>4. Exactly(Where(jb2, th, c, Writing), y.write = "pending")
  BY <1>1, <1>2 DEF Exactly
<1> QED BY <1>1, <1>2, <1>3, <1>4 DEF GoodJobs

\* An accept goes to any thread: there is no other job.
LEMMA AcceptJob ==
  ASSUME NEW x, NEW y, NEW jb, NEW jb2, NEW th, NEW c \in Client, NEW t, NEW i,
         GoodJobs(x, jb, th, c),
         Added(jb, jb2, th, [kind |-> "accept", c |-> c], <<t, i>>),
         x.read # "pending", x.write = "idle",
         y.read = "pending", y.write = "idle", y.conn = "accepting"
  PROVE  GoodJobs(y, jb2, th, c)
<1>1. /\ Where(jb2, th, c, Reading) = Where(jb, th, c, Reading) \cup {<<t, i>>}
      /\ Where(jb2, th, c, Writing) = Where(jb, th, c, Writing)
      /\ Where(jb2, th, c, {"read", "write"}) = Where(jb, th, c, {"read", "write"})
  BY DEF Added, KindSets, Reading, Writing
<1>2. /\ Where(jb, th, c, Reading) = {} /\ Where(jb, th, c, Writing) = {}
      /\ Where(jb, th, c, {"read", "write"}) = {}
  BY NoFlight
<1>3. /\ Exactly(Where(jb2, th, c, Reading), y.read = "pending")
      /\ Exactly(Where(jb2, th, c, Writing), y.write = "pending")
  BY <1>1, <1>2 DEF Exactly
<1> QED BY <1>1, <1>2, <1>3 DEF GoodJobs

-----------------------------------------------------------------------------
(* What the operations of the main thread on one client preserve.          *)

\* U differs from st in client c at most.
OnlyClient(st, U, c) ==
  /\ U \in StateRec
  /\ U.jobs = st.jobs
  /\ \A d \in Client : d # c => U.cl[d] = st.cl[d]

\* A client may change as long as its I/O in flight does not.
LEMMA ChangeClient ==
  ASSUME NEW st, NEW U, NEW th, NEW a, NEW c \in Client, Good(st, th, a), OnlyClient(st, U, c),
         GoodFields(U.cl[c]), SameFlight(st.cl[c], U.cl[c])
  PROVE  Good(U, th, a)
<1>1. GoodRings(U.jobs, th, a)
  BY DEF Good, OnlyClient
<1>2. ASSUME NEW d \in Client PROVE GoodFields(U.cl[d]) /\ GoodJobs(U.cl[d], U.jobs, th, d)
  <2>1. GoodFields(st.cl[d]) /\ GoodJobs(st.cl[d], st.jobs, th, d)
    BY DEF Good, GoodClients
  <2>2. CASE d = c
    BY <2>1, <2>2, KeepFlight DEF OnlyClient
  <2>3. CASE d # c
    BY <2>1, <2>3 DEF OnlyClient
  <2> QED BY <2>2, <2>3
<1> QED BY <1>1, <1>2 DEF Good, GoodClients, OnlyClient

\* The ring a client's home thread has, when there are I/O threads.
LEMMA HomeIsThread ==
  ASSUME NEW c \in Client, active \in 1..MaxThreads, active > 1
  PROVE  HomeThread(c) \in Thread /\ HomeThread(c) < active
<1>1. c \in Nat /\ active - 1 \in Nat /\ active - 1 > 0 /\ active \in Int
  BY ClientAssumption, ThreadsAssumption
<1>2. c % (active - 1) \in 0 .. ((active - 1) - 1)
  BY <1>1
<1>3. c % (active - 1) \in Int /\ 0 <= c % (active - 1) /\ c % (active - 1) <= active - 2
  BY <1>1, <1>2
<1> QED BY <1>1, <1>3, ThreadsAssumption DEF HomeThread, Thread

\* A client in flight is with an active thread.
LEMMA FlightThread ==
  ASSUME NEW st, NEW th, NEW a, Good(st, th, a), NEW c \in Client,
         \/ st.cl[c].write = "pending"
         \/ st.cl[c].read = "pending" /\ st.cl[c].conn # "accepting"
  PROVE  st.cl[c].cur_tid \in Thread /\ st.cl[c].cur_tid < a
<1> DEFINE x == st.cl[c]
           W == Where(st.jobs, th, c, {"read", "write"})
<1>1. GoodJobs(x, st.jobs, th, c)
  BY DEF Good, GoodClients
<1>2. W # {}
  <2>1. CASE x.write = "pending"
    <3>1. Where(st.jobs, th, c, Writing) # {}
      BY <1>1, <2>1 DEF GoodJobs, Exactly
    <3> QED BY <3>1, WhereSplit
  <2>2. CASE x.read = "pending" /\ x.conn # "accepting"
    <3>1. Where(st.jobs, th, c, Reading) # {}
      BY <1>1, <2>2 DEF GoodJobs, Exactly
    <3>2. Where(st.jobs, th, c, {"accept"}) = {}
      BY <1>1, <2>2 DEF GoodJobs
    <3> QED BY <3>1, <3>2, WhereSplit
  <2> QED BY <2>1, <2>2
<1>3. PICK p \in W : TRUE
  BY <1>2
<1>4. p \in Thread \X Index /\ st.jobs[p[1]].buf[p[2]].kind \in {"read", "write"}
  BY <1>3 DEF Where
<1>5. p[1] \in Thread /\ p[2] \in Index /\ p[1] = x.cur_tid
  BY <1>1, <1>3, <1>4 DEF GoodJobs
<1>6. st.jobs[p[1]].buf[p[2]] # NoJob
  BY <1>4 DEF NoJob
<1>7. GoodThread(st.jobs[p[1]], th[p[1]], p[1], a)
  BY <1>5 DEF Good, GoodRings
<1>8. ~IsEmpty(st.jobs[p[1]])
  BY <1>5, <1>6, <1>7, RingBounds DEF GoodThread
<1> QED BY <1>5, <1>7, <1>8 DEF GoodThread

LEMMA ThreadOfRead ==
  ASSUME NEW st, NEW th, Good(st, th, active), active \in 1..MaxThreads, active > 1, NEW c \in Client
  PROVE  ReadThread(st, c) \in Thread /\ ReadThread(st, c) < active
BY HomeIsThread, FlightThread DEF ReadThread

LEMMA ThreadOfWrite ==
  ASSUME NEW st, NEW th, Good(st, th, active), active \in 1..MaxThreads, active > 1, NEW c \in Client,
         st.cl[c].conn = "open"
  PROVE  WriteThread(st, c) \in Thread /\ WriteThread(st, c) < active
BY HomeIsThread, FlightThread DEF WriteThread

\* A job j is sent to thread t for client c, which becomes y.
Sent(st, U, c, t, j) ==
  /\ U \in StateRec
  /\ U.jobs = [st.jobs EXCEPT ![t] = Push(@, j)]
  /\ \A d \in Client : d # c => U.cl[d] = st.cl[d]

\* What remains to be shown of a step that sends a job: the client's own jobs.
LEMMA SendJob ==
  ASSUME NEW st, NEW U, NEW th \in [Thread -> ThrRec], NEW a \in Int, Good(st, th, a),
         NEW c \in Client, NEW t \in Thread, t < a, ~IsFull(st.jobs[t]),
         NEW j \in Job, j # NoJob, j.c = c \/ j.kind \in {"free", "poll"},
         Sent(st, U, c, t, j), GoodFields(U.cl[c]),
         Added(st.jobs, U.jobs, th, j, <<t, st.jobs[t].head>>) => GoodJobs(U.cl[c], U.jobs, th, c)
  PROVE  Good(U, th, a)
<1>1. GoodRings(st.jobs, th, a)
  BY DEF Good
<1>2. GoodRings(U.jobs, th, a) /\ Added(st.jobs, U.jobs, th, j, <<t, st.jobs[t].head>>)
  BY <1>1, PushWhere DEF Sent
<1>3. ASSUME NEW d \in Client PROVE GoodFields(U.cl[d]) /\ GoodJobs(U.cl[d], U.jobs, th, d)
  <2>1. GoodFields(st.cl[d]) /\ GoodJobs(st.cl[d], st.jobs, th, d)
    BY DEF Good, GoodClients
  <2>2. CASE d = c
    BY <1>2, <2>2
  <2>3. CASE d # c
    <3>1. j.c # d \/ j.kind \in {"free", "poll"}
      BY <2>3
    <3>2. GoodJobs(st.cl[d], U.jobs, th, d)
      BY <1>2, <2>1, <3>1, OtherJob
    <3> QED BY <2>1, <2>3, <3>2 DEF Sent
  <2> QED BY <2>2, <2>3
<1> QED BY <1>2, <1>3 DEF Good, GoodClients, Sent

\* What is kept through one step of the main thread.
OK(st) ==
  /\ active \in 1..MaxThreads
  /\ thr \in [Thread -> ThrRec]
  /\ Good(st, thr, active)

\* c has no I/O in flight and no result to be taken.
Settled(st, c) == st.cl[c].read = "idle" /\ st.cl[c].write = "idle"

LEMMA Parts ==
  ASSUME NEW st, OK(st), NEW c \in Client
  PROVE  /\ st \in StateRec /\ st.cl \in [Client -> ClientState] /\ st.jobs \in [Thread -> Ring]
         /\ st.cl[c] \in ClientState /\ GoodFields(st.cl[c])
         /\ st.cl[c].out \in 0..MaxOut /\ st.cl[c].last \in 0..MaxOut
         /\ MaxOut \in Nat /\ active \in Int
BY BoundAssumption, ThreadsAssumption DEF OK, Good, GoodClients, StateRec, ClientState

\* OnlyClient with the client's new value.
LEMMA Changed ==
  ASSUME NEW st, OK(st), NEW c \in Client, NEW U, OnlyClient(st, U, c), GoodFields(U.cl[c]),
         SameFlight(st.cl[c], U.cl[c])
  PROVE  OK(U)
BY ChangeClient DEF OK

LEMMA AddReplyOK ==
  ASSUME NEW st, OK(st), NEW c \in Client, st.cl[c].out < MaxOut
  PROVE  /\ OK(AddReply(st, c))
         /\ OnlyClient(st, AddReply(st, c), c)
         /\ AddReply(st, c).cl[c].read = st.cl[c].read
         /\ AddReply(st, c).cl[c].write = st.cl[c].write
         /\ AddReply(st, c).cl[c].conn = st.cl[c].conn
         /\ AddReply(st, c).cl[c].out <= st.cl[c].out + 1
<1> DEFINE x == st.cl[c]
           U == AddReply(st, c)
<1>0. /\ st \in StateRec /\ x \in ClientState /\ GoodFields(x)
      /\ x.out \in 0..MaxOut /\ x.last \in 0..MaxOut /\ MaxOut \in Nat
  BY Parts
<1>1. CASE x.close_asap \/ x.conn # "open"
  <2>1. U = st
    BY <1>1 DEF AddReply
  <2> QED BY <1>0, <2>1 DEF OnlyClient
<1>2. CASE ~(x.close_asap \/ x.conn # "open")
  <2> DEFINE l == x.listed \/ (x.out = 0 /\ x.write = "idle")
             y == [x EXCEPT !.out = x.out + 1, !.listed = l]
  <2>1. U = [st EXCEPT !.cl = [st.cl EXCEPT ![c] = y]]
    BY <1>0, <1>2 DEF AddReply, StateRec
  <2>2. l \in BOOLEAN
    BY <1>0 DEF ClientState
  <2>3. y \in ClientState
    <3>1. x.out + 1 \in 0..MaxOut
      BY <1>0
    <3> HIDE DEF l
    <3> QED BY <1>0, <2>2, <3>1 DEF ClientState
  <2>4. /\ y.out = x.out + 1 /\ y.last = x.last /\ y.conn = x.conn /\ y.read = x.read
        /\ y.write = x.write /\ y.cur_tid = x.cur_tid
    BY <1>0 DEF ClientState
  <2> HIDE DEF y
  <2>5. U \in StateRec /\ U.jobs = st.jobs /\ U.cl[c] = y /\ \A d \in Client : d # c => U.cl[d] = st.cl[d]
    BY <1>0, <2>1, <2>3 DEF StateRec
  <2> HIDE DEF U
  <2>6. OnlyClient(st, U, c)
    BY <2>5 DEF OnlyClient
  <2>7. GoodFields(y)
    BY <1>0, <1>2, <2>3, <2>4 DEF GoodFields
  <2>8. SameFlight(x, y)
    BY <2>4 DEF SameFlight
  <2>9. OK(U)
    BY <2>5, <2>6, <2>7, <2>8, Changed
  <2> QED BY <1>0, <2>4, <2>5, <2>6, <2>9 DEF U
<1> QED BY <1>1, <1>2

\* freeClient after waitForClientIO.
LEMMA FreeOK ==
  ASSUME NEW st, OK(st), NEW c \in Client, ~Busy(st.cl[c])
  PROVE  /\ OK(FreeClient(st, c))
         /\ OnlyClient(st, FreeClient(st, c), c)
         /\ FreeClient(st, c).cl[c] = NoClient
<1> DEFINE U == FreeClient(st, c)
<1>0. st \in StateRec /\ MaxOut \in Nat
  BY Parts
<1>1. NoClient \in ClientState
  BY <1>0, ThreadsAssumption DEF NoClient, ClientState, IOState
<1>2. U \in StateRec /\ U.jobs = st.jobs /\ U.cl[c] = NoClient /\ \A d \in Client : d # c => U.cl[d] = st.cl[d]
  BY <1>0, <1>1 DEF FreeClient, StateRec
<1> HIDE DEF U
<1>3. OnlyClient(st, U, c)
  BY <1>2 DEF OnlyClient
<1>4. GoodFields(U.cl[c])
  BY <1>1, <1>2 DEF GoodFields, NoClient
<1>5. SameFlight(st.cl[c], U.cl[c])
  BY <1>2 DEF SameFlight, NoClient, Busy
<1>6. OK(U)
  BY <1>3, <1>4, <1>5, Changed
<1> QED BY <1>2, <1>3, <1>6 DEF U

LEMMA AsyncOK ==
  ASSUME NEW st, OK(st), NEW c \in Client
  PROVE  /\ OK(FreeClientAsync(st, c))
         /\ OnlyClient(st, FreeClientAsync(st, c), c)
         /\ FreeClientAsync(st, c).cl[c].read = st.cl[c].read
         /\ FreeClientAsync(st, c).cl[c].write = st.cl[c].write
<1> DEFINE x == st.cl[c]
           U == FreeClientAsync(st, c)
           y == [x EXCEPT !.close_asap = TRUE]
<1>0. st \in StateRec /\ x \in ClientState /\ GoodFields(x)
  BY Parts
<1>1. U = [st EXCEPT !.cl = [st.cl EXCEPT ![c] = y]]
  BY <1>0 DEF FreeClientAsync, StateRec
<1>2. /\ y \in ClientState /\ y.out = x.out /\ y.last = x.last /\ y.conn = x.conn /\ y.read = x.read
      /\ y.write = x.write /\ y.cur_tid = x.cur_tid
  BY <1>0 DEF ClientState
<1> HIDE DEF y
<1>3. U \in StateRec /\ U.jobs = st.jobs /\ U.cl[c] = y /\ \A d \in Client : d # c => U.cl[d] = st.cl[d]
  BY <1>0, <1>1, <1>2 DEF StateRec
<1> HIDE DEF U
<1>4. OnlyClient(st, U, c)
  BY <1>3 DEF OnlyClient
<1>5. GoodFields(y)
  BY <1>0, <1>2 DEF GoodFields
<1>6. SameFlight(x, y)
  BY <1>2 DEF SameFlight
<1>7. OK(U)
  BY <1>3, <1>4, <1>5, <1>6, Changed
<1> QED BY <1>2, <1>3, <1>4, <1>7 DEF U

LEMMA SendReadOK ==
  ASSUME NEW st, OK(st), NEW c \in Client, st.cl[c].read # "pending", CanSendRead(st, c)
  PROVE  OK(SendRead(st, c))
<1> DEFINE x == st.cl[c]
           t == ReadThread(st, c)
           U == SendRead(st, c)
           j == [kind |-> "read", c |-> c]
           y == [x EXCEPT !.cur_tid = t, !.read = "pending"]
<1>0. st \in StateRec /\ x \in ClientState /\ GoodFields(x) /\ active \in Int /\ st.jobs \in [Thread -> Ring]
  BY Parts
<1>1. t \in Thread /\ t < active /\ ~IsFull(st.jobs[t])
  BY ThreadOfRead DEF OK, CanSendRead
<1>2. j \in Job /\ j # NoJob /\ j.c = c
  BY JobKinds
<1>3. x.write = "pending" => t = x.cur_tid
  BY DEF ReadThread
<1>4. U = [[st EXCEPT !.cl = [st.cl EXCEPT ![c] = y]] EXCEPT !.jobs = [st.jobs EXCEPT ![t] = Push(@, j)]]
  BY <1>0 DEF SendRead, StateRec
<1> HIDE DEF t, U
<1>5. /\ y \in ClientState /\ y.out = x.out /\ y.last = x.last /\ y.conn = x.conn /\ y.read = "pending"
      /\ y.write = x.write /\ y.cur_tid = t
  <2>1. t \in 0 .. (MaxThreads - 1) /\ "pending" \in IOState
    BY <1>1, ThreadsAssumption DEF Thread, IOState
  <2> QED BY <1>0, <2>1 DEF ClientState
<1> HIDE DEF y, j
<1>6. GoodRing(Push(st.jobs[t], j))
  <2>1. GoodRing(st.jobs[t])
    BY <1>1 DEF OK, Good, GoodRings, GoodThread
  <2> QED BY <1>1, <1>2, <2>1, PushRing
<1>7. Sent(st, U, c, t, j) /\ U.cl[c] = y
  <2>1. [st.jobs EXCEPT ![t] = Push(@, j)] \in [Thread -> Ring]
    BY <1>0, <1>1, <1>6 DEF GoodRing
  <2>2. [st.cl EXCEPT ![c] = y] \in [Client -> ClientState]
    BY <1>0, <1>5 DEF StateRec
  <2> QED BY <1>0, <1>4, <1>5, <2>1, <2>2 DEF Sent, StateRec
<1>8. GoodFields(y)
  BY <1>0, <1>5 DEF GoodFields
<1>9. GoodJobs(x, st.jobs, thr, c)
  BY DEF OK, Good, GoodClients
<1>10. ASSUME Added(st.jobs, U.jobs, thr, j, <<t, st.jobs[t].head>>)
       PROVE  GoodJobs(y, U.jobs, thr, c)
  BY <1>3, <1>5, <1>9, <1>10, ReadJob DEF j
<1>11. Good(U, thr, active)
  BY <1>0, <1>1, <1>2, <1>7, <1>8, <1>10, SendJob DEF OK
<1> QED BY <1>11 DEF OK, U

LEMMA SendWriteOK ==
  ASSUME NEW st, OK(st), NEW c \in Client, CanSendWrite(st, c)
  PROVE  OK(SendWrite(st, c))
<1> DEFINE x == st.cl[c]
           t == WriteThread(st, c)
           U == SendWrite(st, c)
           j == [kind |-> "write", c |-> c]
           y == [x EXCEPT !.cur_tid = t, !.write = "pending", !.listed = FALSE, !.last = x.out]
<1>0. /\ st \in StateRec /\ x \in ClientState /\ GoodFields(x) /\ active \in Int
      /\ st.jobs \in [Thread -> Ring] /\ x.out \in 0..MaxOut /\ MaxOut \in Nat
  BY Parts
<1>a. x.write = "idle" /\ x.out > 0 /\ x.conn = "open"
  BY <1>0 DEF CanSendWrite, GoodFields
<1>1. t \in Thread /\ t < active /\ ~IsFull(st.jobs[t])
  BY <1>a, ThreadOfWrite DEF OK, CanSendWrite
<1>2. j \in Job /\ j # NoJob /\ j.c = c
  BY JobKinds
<1>3. x.read = "pending" => t = x.cur_tid
  BY DEF WriteThread
<1>4. U = [[st EXCEPT !.cl = [st.cl EXCEPT ![c] = y]] EXCEPT !.jobs = [st.jobs EXCEPT ![t] = Push(@, j)]]
  BY ZenonT(60), <1>0 DEF SendWrite, StateRec
<1> HIDE DEF t, U
<1>5. /\ y \in ClientState /\ y.out = x.out /\ y.last = x.out /\ y.conn = x.conn /\ y.read = x.read
      /\ y.write = "pending" /\ y.cur_tid = t
  <2>1. t \in 0 .. (MaxThreads - 1) /\ "pending" \in IOState
    BY <1>1, ThreadsAssumption DEF Thread, IOState
  <2> QED BY <1>0, <2>1 DEF ClientState
<1> HIDE DEF y, j
<1>6. GoodRing(Push(st.jobs[t], j))
  <2>1. GoodRing(st.jobs[t])
    BY <1>1 DEF OK, Good, GoodRings, GoodThread
  <2> QED BY <1>1, <1>2, <2>1, PushRing
<1>7. Sent(st, U, c, t, j) /\ U.cl[c] = y
  <2>1. [st.jobs EXCEPT ![t] = Push(@, j)] \in [Thread -> Ring]
    BY <1>0, <1>1, <1>6 DEF GoodRing
  <2>2. [st.cl EXCEPT ![c] = y] \in [Client -> ClientState]
    BY <1>0, <1>5 DEF StateRec
  <2> QED BY <1>0, <1>4, <1>5, <2>1, <2>2 DEF Sent, StateRec
<1>8. GoodFields(y)
  BY <1>0, <1>a, <1>5 DEF GoodFields
<1>9. GoodJobs(x, st.jobs, thr, c)
  BY DEF OK, Good, GoodClients
<1>10. ASSUME Added(st.jobs, U.jobs, thr, j, <<t, st.jobs[t].head>>)
       PROVE  GoodJobs(y, U.jobs, thr, c)
  BY <1>3, <1>a, <1>5, <1>9, <1>10, WriteJob DEF j
<1>11. Good(U, thr, active)
  BY <1>0, <1>1, <1>2, <1>7, <1>8, <1>10, SendJob DEF OK
<1> QED BY <1>11 DEF OK, U

LEMMA BeforeNextOK ==
  ASSUME NEW st, OK(st), NEW c \in Client, Settled(st, c)
  PROVE  OK(BeforeNextClient(st, c))
<1>1. ~Busy(st.cl[c])
  BY DEF Settled, Busy
<1>2. OK(FreeClient(st, c))
  BY <1>1, FreeOK
<1>3. OK(TrySendWrite(st, c))
  BY SendWriteOK DEF TrySendWrite
<1> QED BY <1>2, <1>3 DEF BeforeNextClient

LEMMA PostWriteOK ==
  ASSUME NEW st, OK(st), NEW c \in Client, NEW n \in Nat, n <= st.cl[c].out, NEW r \in WriteResult(n)
  PROVE  /\ OK(PostWrite(st, c, r))
         /\ OnlyClient(st, PostWrite(st, c, r), c)
         /\ PostWrite(st, c, r).cl[c].read = st.cl[c].read
         /\ PostWrite(st, c, r).cl[c].write = st.cl[c].write
         /\ PostWrite(st, c, r).cl[c].conn = st.cl[c].conn
<1> DEFINE x == st.cl[c]
           U == PostWrite(st, c, r)
           left == x.out - r.n
           ha == x.handler /\ left > 0
           cs == x.close_asap \/ r.res = "errors"
           y == [x EXCEPT !.out = left, !.last = 0, !.handler = ha, !.close_asap = cs]
<1>0. /\ st \in StateRec /\ x \in ClientState /\ GoodFields(x)
      /\ x.out \in 0..MaxOut /\ MaxOut \in Nat
  BY Parts
<1>1. U = [st EXCEPT !.cl = [st.cl EXCEPT ![c] = y]]
  <2>1. ha = (x.handler /\ left > 0) /\ cs = (x.close_asap \/ r.res = "errors")
    OBVIOUS
  <2>2. left = x.out - r.n
    OBVIOUS
  <2> HIDE DEF ha, cs, left
  <2>3. U = [st EXCEPT !.cl[c].out = left, !.cl[c].last = 0, !.cl[c].handler = ha,
                       !.cl[c].close_asap = cs]
    BY <1>0, <2>1, <2>2 DEF PostWrite, StateRec, ClientState
  <2> HIDE DEF U
  <2> QED BY ZenonT(60), <1>0, <2>3 DEF StateRec, ClientState
<1>2. ha \in BOOLEAN /\ cs \in BOOLEAN
  BY <1>0 DEF ClientState
<1>3. r.n \in Nat /\ r.n <= n
  BY DEF WriteResult
<1>4. left \in 0..MaxOut /\ left <= x.out
  BY <1>0, <1>3
<1> HIDE DEF ha, cs, left
<1>5. /\ y \in ClientState /\ y.out = left /\ y.last = 0 /\ y.conn = x.conn /\ y.read = x.read
      /\ y.write = x.write /\ y.cur_tid = x.cur_tid
  <2>1. 0 \in 0..MaxOut
    BY <1>0
  <2> QED BY <1>0, <1>2, <1>4, <2>1 DEF ClientState
<1> HIDE DEF y
<1>6. U \in StateRec /\ U.jobs = st.jobs /\ U.cl[c] = y /\ \A d \in Client : d # c => U.cl[d] = st.cl[d]
  BY <1>0, <1>1, <1>5 DEF StateRec
<1> HIDE DEF U
<1>7. OnlyClient(st, U, c)
  BY <1>6 DEF OnlyClient
<1>8. GoodFields(y)
  BY <1>0, <1>4, <1>5 DEF GoodFields
<1>9. SameFlight(x, y)
  BY <1>5 DEF SameFlight
<1>10. OK(U)
  BY <1>6, <1>7, <1>8, <1>9, Changed
<1> QED BY <1>5, <1>6, <1>7, <1>10 DEF U

\* Client c becomes y.
Becomes(st, U, c, y) ==
  /\ U \in StateRec
  /\ U.jobs = st.jobs
  /\ U.cl[c] = y
  /\ \A d \in Client : d # c => U.cl[d] = st.cl[d]

LEMMA UpdateClient ==
  ASSUME NEW st, OK(st), NEW c \in Client, NEW y, GoodFields(y), SameFlight(st.cl[c], y),
         NEW U, Becomes(st, U, c, y)
  PROVE  OK(U) /\ OnlyClient(st, U, c) /\ U.cl[c] = y
BY Changed DEF OnlyClient, Becomes

\* One field of a client changes.
WithWrite(st, c, v)   == [st EXCEPT !.cl[c].write = v]
WithRead(st, c, v)    == [st EXCEPT !.cl[c].read = v]
WithListed(st, c, v)  == [st EXCEPT !.cl[c].listed = v]
WithHandler(st, c, v) == [st EXCEPT !.cl[c].handler = v]
WithConn(st, c, v)    == [st EXCEPT !.cl[c].conn = v]

LEMMA WriteIdle ==
  ASSUME NEW st, OK(st), NEW c \in Client, st.cl[c].write # "pending"
  PROVE  /\ OK(WithWrite(st, c, "idle"))
         /\ OnlyClient(st, WithWrite(st, c, "idle"), c)
         /\ WithWrite(st, c, "idle").cl[c] \in ClientState
         /\ WithWrite(st, c, "idle").cl[c].write = "idle"
         /\ WithWrite(st, c, "idle").cl[c].read = st.cl[c].read
         /\ WithWrite(st, c, "idle").cl[c].conn = st.cl[c].conn
         /\ WithWrite(st, c, "idle").cl[c].out = st.cl[c].out
         /\ WithWrite(st, c, "idle").cl[c].last = st.cl[c].last
         /\ WithWrite(st, c, "idle").cl[c].close_asap = st.cl[c].close_asap
<1> DEFINE x == st.cl[c]
           U == WithWrite(st, c, "idle")
           y == [x EXCEPT !.write = "idle"]
<1>0. st \in StateRec /\ x \in ClientState /\ GoodFields(x)
  BY Parts
<1>1. U = [st EXCEPT !.cl = [st.cl EXCEPT ![c] = y]]
  BY <1>0 DEF StateRec, WithWrite
<1> HIDE DEF U
<1>2. /\ y \in ClientState /\ y.out = x.out /\ y.last = x.last /\ y.conn = x.conn /\ y.read = x.read
      /\ y.write = "idle" /\ y.cur_tid = x.cur_tid /\ y.close_asap = x.close_asap
  BY <1>0 DEF ClientState, IOState
<1> HIDE DEF y
<1>3. GoodFields(y) /\ SameFlight(x, y)
  BY <1>0, <1>2 DEF GoodFields, SameFlight
<1>4. OK(U) /\ OnlyClient(st, U, c) /\ U.cl[c] = y
  <2>1. Becomes(st, U, c, y)
    BY <1>0, <1>1, <1>2 DEF Becomes, StateRec
  <2> QED BY <1>3, <2>1, UpdateClient
<1> QED BY <1>2, <1>4 DEF U

LEMMA ReadIdle ==
  ASSUME NEW st, OK(st), NEW c \in Client, st.cl[c].read # "pending"
  PROVE  /\ OK(WithRead(st, c, "idle"))
         /\ OnlyClient(st, WithRead(st, c, "idle"), c)
         /\ WithRead(st, c, "idle").cl[c].read = "idle"
         /\ WithRead(st, c, "idle").cl[c].write = st.cl[c].write
         /\ WithRead(st, c, "idle").cl[c].conn = st.cl[c].conn
<1> DEFINE x == st.cl[c]
           U == WithRead(st, c, "idle")
           y == [x EXCEPT !.read = "idle"]
<1>0. st \in StateRec /\ x \in ClientState /\ GoodFields(x)
  BY Parts
<1>1. U = [st EXCEPT !.cl = [st.cl EXCEPT ![c] = y]]
  BY <1>0 DEF StateRec, WithRead
<1> HIDE DEF U
<1>2. /\ y \in ClientState /\ y.out = x.out /\ y.last = x.last /\ y.conn = x.conn /\ y.read = "idle"
      /\ y.write = x.write /\ y.cur_tid = x.cur_tid
  BY <1>0 DEF ClientState, IOState
<1> HIDE DEF y
<1>3. GoodFields(y) /\ SameFlight(x, y)
  BY <1>0, <1>2 DEF GoodFields, SameFlight
<1>4. OK(U) /\ OnlyClient(st, U, c) /\ U.cl[c] = y
  <2>1. Becomes(st, U, c, y)
    BY <1>0, <1>1, <1>2 DEF Becomes, StateRec
  <2> QED BY <1>3, <2>1, UpdateClient
<1> QED BY <1>2, <1>4 DEF U

LEMMA ListedIs ==
  ASSUME NEW st, OK(st), NEW c \in Client, NEW b \in BOOLEAN
  PROVE  /\ OK(WithListed(st, c, b))
         /\ OnlyClient(st, WithListed(st, c, b), c)
         /\ WithListed(st, c, b).cl[c] \in ClientState
         /\ WithListed(st, c, b).cl[c].read = st.cl[c].read
         /\ WithListed(st, c, b).cl[c].write = st.cl[c].write
         /\ WithListed(st, c, b).cl[c].conn = st.cl[c].conn
         /\ WithListed(st, c, b).cl[c].out = st.cl[c].out
         /\ WithListed(st, c, b).cl[c].last = st.cl[c].last
<1> DEFINE x == st.cl[c]
           U == WithListed(st, c, b)
           y == [x EXCEPT !.listed = b]
<1>0. st \in StateRec /\ x \in ClientState /\ GoodFields(x)
  BY Parts
<1>1. U = [st EXCEPT !.cl = [st.cl EXCEPT ![c] = y]]
  BY <1>0 DEF StateRec, WithListed
<1> HIDE DEF U
<1>2. /\ y \in ClientState /\ y.out = x.out /\ y.last = x.last /\ y.conn = x.conn /\ y.read = x.read
      /\ y.write = x.write /\ y.cur_tid = x.cur_tid
  BY <1>0 DEF ClientState
<1> HIDE DEF y
<1>3. GoodFields(y) /\ SameFlight(x, y)
  BY <1>0, <1>2 DEF GoodFields, SameFlight
<1>4. OK(U) /\ OnlyClient(st, U, c) /\ U.cl[c] = y
  <2>1. Becomes(st, U, c, y)
    BY <1>0, <1>1, <1>2 DEF Becomes, StateRec
  <2> QED BY <1>3, <2>1, UpdateClient
<1> QED BY <1>2, <1>4 DEF U

LEMMA HandlerIs ==
  ASSUME NEW st, OK(st), NEW c \in Client, NEW b \in BOOLEAN
  PROVE  /\ OK(WithHandler(st, c, b))
         /\ OnlyClient(st, WithHandler(st, c, b), c)
         /\ WithHandler(st, c, b).cl[c].read = st.cl[c].read
         /\ WithHandler(st, c, b).cl[c].write = st.cl[c].write
         /\ WithHandler(st, c, b).cl[c].conn = st.cl[c].conn
<1> DEFINE x == st.cl[c]
           U == WithHandler(st, c, b)
           y == [x EXCEPT !.handler = b]
<1>0. st \in StateRec /\ x \in ClientState /\ GoodFields(x)
  BY Parts
<1>1. U = [st EXCEPT !.cl = [st.cl EXCEPT ![c] = y]]
  BY <1>0 DEF StateRec, WithHandler
<1> HIDE DEF U
<1>2. /\ y \in ClientState /\ y.out = x.out /\ y.last = x.last /\ y.conn = x.conn /\ y.read = x.read
      /\ y.write = x.write /\ y.cur_tid = x.cur_tid
  BY <1>0 DEF ClientState
<1> HIDE DEF y
<1>3. GoodFields(y) /\ SameFlight(x, y)
  BY <1>0, <1>2 DEF GoodFields, SameFlight
<1>4. OK(U) /\ OnlyClient(st, U, c) /\ U.cl[c] = y
  <2>1. Becomes(st, U, c, y)
    BY <1>0, <1>1, <1>2 DEF Becomes, StateRec
  <2> QED BY <1>3, <2>1, UpdateClient
<1> QED BY <1>2, <1>4 DEF U

\* The connection of a client that does not read changes, from closed to open.
LEMMA ConnIs ==
  ASSUME NEW st, OK(st), NEW c \in Client, st.cl[c].read # "pending", st.cl[c].conn # "open",
         NEW v \in {"accepting", "open"}
  PROVE  /\ OK(WithConn(st, c, v))
         /\ OnlyClient(st, WithConn(st, c, v), c)
         /\ WithConn(st, c, v).cl[c].read = st.cl[c].read
         /\ WithConn(st, c, v).cl[c].write = "idle"
         /\ WithConn(st, c, v).cl[c].conn = v
<1> DEFINE x == st.cl[c]
           U == WithConn(st, c, v)
           y == [x EXCEPT !.conn = v]
<1>0. st \in StateRec /\ x \in ClientState /\ GoodFields(x)
  BY Parts
<1>1. U = [st EXCEPT !.cl = [st.cl EXCEPT ![c] = y]]
  BY <1>0 DEF StateRec, WithConn
<1> HIDE DEF U
<1>2. /\ y \in ClientState /\ y.out = x.out /\ y.last = x.last /\ y.conn = v /\ y.read = x.read
      /\ y.write = x.write /\ y.cur_tid = x.cur_tid
  BY <1>0 DEF ClientState
<1> HIDE DEF y
<1>3. GoodFields(y) /\ SameFlight(x, y)
  BY <1>0, <1>2 DEF GoodFields, SameFlight
<1>4. y.write = "idle"
  BY <1>0, <1>2 DEF GoodFields
<1>5. OK(U) /\ OnlyClient(st, U, c) /\ U.cl[c] = y
  <2>1. Becomes(st, U, c, y)
    BY <1>0, <1>1, <1>2 DEF Becomes, StateRec
  <2> QED BY <1>3, <2>1, UpdateClient
<1> QED BY <1>2, <1>4, <1>5 DEF U

\* U is st with another value of client c, which reads and writes as before.
SameIO(st, U, c) ==
  /\ OK(U)
  /\ OnlyClient(st, U, c)
  /\ U.cl[c].read = st.cl[c].read
  /\ U.cl[c].write = st.cl[c].write
  /\ U.cl[c].conn = st.cl[c].conn

\* What processClientIOWriteDone leaves.
LEMMA WriteDoneOK ==
  ASSUME NEW st0, OK(st0), NEW c \in Client, st0.cl[c].write # "pending",
         NEW r \in WriteResult(st0.cl[c].last), NEW async
  PROVE  /\ OK(ProcessClientIOWriteDone(st0, c, r, async))
         /\ ~async => LET U == ProcessClientIOWriteDone(st0, c, r, async)
                      IN  /\ OnlyClient(st0, U, c)
                          /\ U.cl[c].read = st0.cl[c].read
                          /\ U.cl[c].write = "idle"
                          /\ U.cl[c].conn = st0.cl[c].conn
<1> DEFINE U == ProcessClientIOWriteDone(st0, c, r, async)
           st == WithWrite(st0, c, "idle")
           post == PostWrite(st, c, r)
           Rest(V) == /\ OnlyClient(st0, V, c) /\ V.cl[c].read = st0.cl[c].read
                      /\ V.cl[c].write = "idle" /\ V.cl[c].conn = st0.cl[c].conn
<1>1. \/ st.cl[c].close_asap /\ U = st
      \/ /\ ~st.cl[c].close_asap
         /\ \/ U = post
            \/ U = WithHandler(post, c, TRUE)
            \/ U = WithListed(post, c, TRUE)
            \/ async /\ CanSendWrite(post, c) /\ U = SendWrite(post, c)
  BY Zenon DEF ProcessClientIOWriteDone, WithWrite, WithHandler, WithListed
<1> HIDE DEF U
<1>2. /\ OK(st) /\ OnlyClient(st0, st, c) /\ st.cl[c].write = "idle" /\ st.cl[c].read = st0.cl[c].read
      /\ st.cl[c].conn = st0.cl[c].conn /\ st.cl[c].out = st0.cl[c].out
  BY WriteIdle
<1>3. /\ st0.cl[c].last \in 0..MaxOut /\ MaxOut \in Nat /\ GoodFields(st0.cl[c])
  BY Parts
<1>4. st0.cl[c].last \in Nat /\ st0.cl[c].last <= st.cl[c].out
  BY <1>2, <1>3 DEF GoodFields
<1> HIDE DEF st
<1>5. SameIO(st, post, c)
  BY <1>2, <1>4, PostWriteOK DEF SameIO
<1> HIDE DEF post
<1>6. SameIO(post, WithHandler(post, c, TRUE), c) /\ SameIO(post, WithListed(post, c, TRUE), c)
  BY ZenonT(60), <1>5, HandlerIs, ListedIs DEF SameIO
<1>7. CanSendWrite(post, c) => OK(SendWrite(post, c))
  BY <1>5, SendWriteOK DEF SameIO
<1>8. OK(U)
  BY <1>1, <1>2, <1>5, <1>6, <1>7 DEF SameIO
<1>9. Rest(st) /\ Rest(post)
  BY <1>2, <1>5 DEF SameIO, OnlyClient
<1>10. Rest(WithHandler(post, c, TRUE)) /\ Rest(WithListed(post, c, TRUE))
  BY <1>6, <1>9 DEF SameIO, OnlyClient
<1>11. ~async => Rest(U)
  BY <1>1, <1>9, <1>10
<1> QED BY <1>8, <1>11 DEF U

\* ReadTaken, whose client has been read and is not being written.
LEMMA ReadTakenOK ==
  ASSUME OK(State), NEW c \in Client, ReadIsDone(c), NEW r \in WriteResult(cl[c].last)
  PROVE  /\ OK(ReadTaken(c, r))
         /\ Settled(ReadTaken(c, r), c)
         /\ ReadTaken(c, r).cl[c].conn = cl[c].conn
         /\ OnlyClient(State, ReadTaken(c, r), c)
<1> DEFINE D == ProcessClientIOWriteDone(State, c, r, FALSE)
           S == State
           st == IF cl[c].write = "completed" THEN D ELSE S
<1>1. S.cl = cl /\ S.jobs = jobs
  BY DEF State
<1>2. cl[c] \in ClientState /\ S \in StateRec
  BY <1>1, Parts
<1>3. cl[c].write # "completed" => cl[c].write = "idle"
  BY <1>2 DEF ReadIsDone, ClientState, IOState
<1>4. /\ OK(D) /\ OnlyClient(S, D, c) /\ D.cl[c].read = cl[c].read /\ D.cl[c].write = "idle"
      /\ D.cl[c].conn = cl[c].conn
  BY <1>1, WriteDoneOK DEF ReadIsDone
<1> HIDE DEF D, S
<1>5. /\ OK(st) /\ OnlyClient(S, st, c) /\ st.cl[c].read = "completed" /\ st.cl[c].write = "idle"
      /\ st.cl[c].conn = cl[c].conn
  <2>1. CASE cl[c].write = "completed"
    BY <1>4, <2>1 DEF ReadIsDone
  <2>2. CASE cl[c].write # "completed"
    <3>1. OnlyClient(S, S, c)
      BY <1>2 DEF OnlyClient
    <3> QED BY <1>1, <1>3, <2>2, <3>1 DEF ReadIsDone, S
  <2> QED BY <2>1, <2>2
<1>6. ReadTaken(c, r) = WithRead(st, c, "idle")
  BY Zenon DEF ReadTaken, WithRead, D, S
<1> HIDE DEF st
<1>7. /\ OK(WithRead(st, c, "idle")) /\ OnlyClient(st, WithRead(st, c, "idle"), c)
      /\ WithRead(st, c, "idle").cl[c].read = "idle"
      /\ WithRead(st, c, "idle").cl[c].write = st.cl[c].write
      /\ WithRead(st, c, "idle").cl[c].conn = st.cl[c].conn
  BY <1>5, ReadIdle
<1>8. OnlyClient(S, WithRead(st, c, "idle"), c)
  BY <1>5, <1>7 DEF OnlyClient
<1> QED BY <1>5, <1>6, <1>7, <1>8 DEF Settled, S

LEMMA AcceptedOK ==
  ASSUME NEW st, OK(st), NEW c \in Client, st.cl[c].read = "idle", st.cl[c].conn # "open",
         NEW U \in Accepted(st, c)
  PROVE  OK(U)
<1>1. U = st \/ U = WithConn(st, c, "open") \/ U = FreeClientAsync(st, c)
  BY Zenon DEF Accepted, WithConn
<1>2. OK(WithConn(st, c, "open"))
  BY ConnIs
<1>3. OK(FreeClientAsync(st, c))
  BY AsyncOK
<1> QED BY <1>1, <1>2, <1>3

\* A job that belongs to no client.
LEMMA PushNobodys ==
  ASSUME NEW st, OK(st), NEW c \in Client, NEW t \in Thread, t < active, ~IsFull(st.jobs[t]),
         NEW j \in Job, j # NoJob, j.kind \in {"free", "poll"},
         NEW U, Sent(st, U, c, t, j), U.cl = st.cl
  PROVE  OK(U)
<1>1. GoodFields(U.cl[c]) /\ GoodJobs(U.cl[c], st.jobs, thr, c) /\ active \in Int
  BY Parts DEF OK, Good, GoodClients
<1>2. ASSUME Added(st.jobs, U.jobs, thr, j, <<t, st.jobs[t].head>>)
      PROVE  GoodJobs(U.cl[c], U.jobs, thr, c)
  BY <1>1, <1>2, OtherJob
<1>3. Good(U, thr, active)
  BY <1>1, <1>2, SendJob DEF OK
<1> QED BY <1>3 DEF OK

LEMMA OffloadFreeOK ==
  ASSUME NEW st, OK(st), NEW c \in Client
  PROVE  OK(OffloadFree(st, c)) /\ OffloadFree(st, c).cl = st.cl
<1> DEFINE t == HomeThread(c)
           j == [kind |-> "free", c |-> 0]
           U == [st EXCEPT !.jobs[t] = Push(@, j)]
<1>1. CASE ~(active > 1 /\ ~IsFull(st.jobs[t]))
  BY <1>1 DEF OffloadFree
<1>2. CASE active > 1 /\ ~IsFull(st.jobs[t])
  <2>1. OffloadFree(st, c) = U
    BY <1>2 DEF OffloadFree
  <2>2. t \in Thread /\ t < active
    BY <1>2, HomeIsThread DEF OK
  <2> HIDE DEF t
  <2>3. st \in StateRec /\ st.jobs \in [Thread -> Ring] /\ GoodRing(st.jobs[t])
    BY <2>2, Parts DEF OK, Good, GoodRings, GoodThread
  <2>4. j \in Job /\ j # NoJob /\ j.kind = "free"
    BY JobKinds
  <2>5. Push(st.jobs[t], j) \in Ring
    BY <1>2, <2>3, <2>4, PushRing DEF GoodRing
  <2> HIDE DEF j
  <2>6. [st.jobs EXCEPT ![t] = Push(@, j)] \in [Thread -> Ring]
    BY <2>2, <2>3, <2>5
  <2>7. /\ U \in StateRec /\ U.cl = st.cl /\ U.jobs = [st.jobs EXCEPT ![t] = Push(@, j)]
    BY <2>3, <2>6 DEF StateRec
  <2> HIDE DEF U
  <2>8. Sent(st, U, c, t, j)
    BY <2>7 DEF Sent
  <2>9. OK(U)
    BY <1>2, <2>2, <2>4, <2>7, <2>8, PushNobodys
  <2> QED BY <2>1, <2>7, <2>9
<1> QED BY <1>1, <1>2

LEMMA RunCommandOK ==
  ASSUME NEW st, OK(st), NEW c \in Client, Settled(st, c), NEW cmd \in Command, MayRun(st, c, cmd)
  PROVE  OK(RunCommand(st, c, cmd)) /\ Settled(RunCommand(st, c, cmd), c)
<1> DEFINE A == AddReply(st, c)
           d == cmd.d
<1>0. d \in Client /\ cmd.op \in {"reply", "publish", "kill", "free"}
  BY DEF Command
<1>1. /\ st.cl[c].out \in 0..MaxOut /\ st.cl[d].out \in 0..MaxOut /\ MaxOut \in Nat
      /\ st.cl[c].out < MaxOut
  BY <1>0, Parts DEF MayRun
<1>2. /\ OK(A) /\ OnlyClient(st, A, c) /\ Settled(A, c) /\ A.cl[c].out <= st.cl[c].out + 1
  BY <1>1, AddReplyOK DEF Settled
<1> HIDE DEF A
<1>3. CASE cmd.op = "reply"
  <2>1. RunCommand(st, c, cmd) = A
    BY <1>3 DEF RunCommand, A
  <2> QED BY <1>2, <2>1
<1>4. CASE cmd.op = "publish"
  <2>1. RunCommand(st, c, cmd) = AddReply(A, d)
    BY <1>4 DEF RunCommand, A
  <2>2. A.cl[d].out < MaxOut
    <3>1. A.cl[c].out \in 0..MaxOut
      BY <1>2, Parts
    <3>2. CASE d = c
      <4>1. st.cl[c].out < MaxOut - 1
        BY <1>4, <3>2 DEF MayRun
      <4> QED BY <1>1, <1>2, <3>1, <3>2, <4>1
    <3>3. CASE d # c
      <4>1. st.cl[d].out < MaxOut - 0
        BY <1>4, <3>3 DEF MayRun
      <4> QED BY <1>0, <1>1, <1>2, <3>3, <4>1 DEF OnlyClient
    <3> QED BY <3>2, <3>3
  <2> DEFINE B == AddReply(A, d)
  <2>3. OK(B) /\ OnlyClient(A, B, d) /\ B.cl[d].read = A.cl[d].read /\ B.cl[d].write = A.cl[d].write
    BY <1>0, <1>2, <2>2, AddReplyOK
  <2> HIDE DEF B
  <2>4. Settled(B, c)
    BY <1>2, <2>3 DEF Settled, OnlyClient
  <2> QED BY <2>1, <2>3, <2>4 DEF B
<1>5. CASE cmd.op = "free"
  <2>1. RunCommand(st, c, cmd) = OffloadFree(A, c)
    BY <1>5 DEF RunCommand, A
  <2> QED BY <1>2, <2>1, OffloadFreeOK DEF Settled
<1>6. CASE cmd.op = "kill"
  <2> DEFINE F == IF d = c THEN st ELSE FreeClient(st, d)
  <2>1. RunCommand(st, c, cmd) = AddReply(F, c)
    BY <1>6 DEF RunCommand
  <2>2. OK(F) /\ F.cl[c] = st.cl[c]
    <3>1. CASE d = c
      BY <3>1
    <3>2. CASE d # c
      <4>1. ~Busy(st.cl[d])
        BY <1>6 DEF MayRun, MayFree
      <4>2. OK(FreeClient(st, d)) /\ OnlyClient(st, FreeClient(st, d), d)
        BY <1>0, <4>1, FreeOK
      <4> QED BY <3>2, <4>2 DEF OnlyClient
    <3> QED BY <3>1, <3>2
  <2> HIDE DEF F
  <2>3. OK(AddReply(F, c)) /\ Settled(AddReply(F, c), c)
    BY <1>1, <2>2, AddReplyOK DEF Settled
  <2> QED BY <2>1, <2>3
<1> QED BY <1>0, <1>3, <1>4, <1>5, <1>6

LEMMA ServedOK ==
  ASSUME NEW st, OK(st), NEW c \in Client, Settled(st, c), NEW offloaded, NEW U \in Served(st, c, offloaded)
  PROVE  OK(U)
<1> DEFINE As == FreeClientAsync(st, c)
           Failed(s) == IF offloaded THEN s ELSE BeforeNextClient(s, c)
<1>1. \/ U = Failed(st) \/ U = BeforeNextClient(st, c) \/ U = Failed(As)
      \/ \E cmd \in Command : MayRun(st, c, cmd) /\ U = BeforeNextClient(RunCommand(st, c, cmd), c)
  BY Zenon DEF Served
<1>2. OK(As) /\ Settled(As, c)
  BY AsyncOK DEF Settled
<1> HIDE DEF As
<1>3. OK(BeforeNextClient(st, c)) /\ OK(BeforeNextClient(As, c))
  BY <1>2, BeforeNextOK
<1>4. OK(Failed(st)) /\ OK(Failed(As))
  BY <1>2, <1>3
<1>5. ASSUME NEW cmd \in Command, MayRun(st, c, cmd) PROVE OK(BeforeNextClient(RunCommand(st, c, cmd), c))
  BY <1>5, RunCommandOK, BeforeNextOK
<1> HIDE DEF Failed
<1> QED BY <1>1, <1>3, <1>4, <1>5

-----------------------------------------------------------------------------
(* The steps of the main thread.                                           *)

LEMMA InType ==
  ASSUME NEW p \in Phase, NEW todo \in SUBSET Client
  PROVE  In(p, todo) \in MainType /\ In(p, todo).sub = "none"
BY ThreadsAssumption DEF In, MainType, Sub

LEMMA AfterType ==
  ASSUME NEW st, NEW p \in {"reads", "writes", "reads2", "writedone", "free"}
  PROVE  After(p, st) \in MainType /\ After(p, st).sub = "none"
<1> DEFINE Fine(m) == m \in MainType /\ m.sub = "none"
<1>1. /\ Readers(st) \subseteq Client /\ Writers(st) \subseteq Client
      /\ Listed(st) \subseteq Client /\ Closing(st) \subseteq Client
  BY DEF Readers, Writers, Listed, Closing
<1>2. Fine(ToFree(st))
  BY <1>1, InType DEF ToFree, Phase
<1>3. Fine(ToWriteDone(st))
  BY <1>1, <1>2, InType DEF ToWriteDone, Phase
<1>4. Fine(ToReads2(st))
  BY <1>1, <1>3, InType DEF ToReads2, Phase
<1>5. Fine(ToAdjust(st))
  BY <1>1, <1>4, InType DEF ToAdjust, Phase
<1>6. Fine(In("sleep", {}))
  BY InType DEF Phase
<1>7. Fine(After(p, st))
  <2> HIDE DEF Fine
  <2> QED BY <1>2, <1>3, <1>4, <1>5, <1>6 DEF After
<1> QED BY <1>7

LEMMA ToWritesType ==
  ASSUME NEW st
  PROVE  /\ ToWrites(st) \in MainType /\ ToWrites(st).sub = "none"
         /\ ToAdjust(st) \in MainType /\ ToAdjust(st).sub = "none"
<1>1. /\ After("writes", st) \in MainType /\ After("writes", st).sub = "none"
      /\ After("reads", st) \in MainType /\ After("reads", st).sub = "none"
  BY AfterType
<1>2. After("writes", st) = ToReads2(st) /\ After("reads", st) = ToAdjust(st)
  BY DEF After
<1>3. Listed(st) \subseteq Client /\ "writes" \in Phase
  BY DEF Listed, Phase
<1> QED BY <1>1, <1>2, <1>3, InType DEF ToWrites

\* What the invariant says of the state before a step.
LEMMA Now ==
  ASSUME IOInv
  PROVE  /\ OK(State) /\ State.cl = cl /\ State.jobs = jobs
         /\ cl \in [Client -> ClientState] /\ jobs \in [Thread -> Ring]
         /\ main \in MainType /\ Scalars
         /\ active \in Int /\ num \in Int /\ MaxThreads \in Nat
BY ThreadsAssumption DEF IOInv, OK, Scalars, Good, StateRec, State, MainOK

\* A step of the main thread outside a resize: what is left to show is that it
\* leaves good clients and rings.
LEMMA MainStep ==
  ASSUME IOInv, main.sub # "lock", NEW st, OK(st), Apply(st),
         active' = active, num' = num, thr' = thr, mutex' = mutex, poll' \in {"none", "poll", "done"},
         main' \in MainType, main'.sub \in {"none", "adjust"}
  PROVE  IOInv'
<1>1. Scalars'
  BY Now DEF Scalars
<1>2. st \in StateRec /\ Good(st, thr, active)
  BY DEF OK, Good
<1>3. State' = st
  BY <1>2 DEF State, Apply, StateRec
<1>4. Good(State, thr, active)'
  BY <1>2, <1>3
<1>5. \A t \in Thread : ~(t < active /\ mutex[t] = "main")
  BY DEF IOInv, MainOK
<1>6. MainOK(main, State, active, num, mutex, Last)'
  BY <1>5 DEF MainOK, Resizing
<1> QED BY <1>1, <1>4, <1>6 DEF IOInv

\* A walk over a list.
LEMMA WalkOK ==
  ASSUME IOInv, main.sub = "none", main.phase \in {"reads", "writes", "reads2", "writedone", "free"},
         NEW st, OK(st), NEW todo \in SUBSET Client, Walk(st, todo),
         UNCHANGED <<active, num, thr, mutex, poll>>
  PROVE  IOInv'
<1>1. Apply(st) /\ main' = IF todo = {} THEN After(main.phase, st) ELSE [main EXCEPT !.todo = todo]
  BY DEF Walk
<1>2. main \in MainType /\ poll \in {"none", "poll", "done"}
  BY Now DEF Scalars
<1>3. [main EXCEPT !.todo = todo] \in MainType /\ [main EXCEPT !.todo = todo].sub = "none"
  BY <1>2 DEF MainType
<1>4. main' \in MainType /\ main'.sub = "none"
  BY <1>1, <1>3, AfterType
<1> QED BY <1>1, <1>2, <1>4, MainStep

LEMMA TodoType ==
  ASSUME IOInv, NEW c
  PROVE  main.todo \ {c} \in SUBSET Client
BY Now DEF MainType

LEMMA KeepSkipRead ==
  ASSUME IOInv, NEW c \in Client, SkipRead(c)
  PROVE  IOInv'
<1>1. main.sub = "none" /\ main.phase \in {"reads", "reads2"}
  BY DEF SkipRead, ReadPhase, At
<1> QED BY <1>1, Now, TodoType, WalkOK DEF SkipRead

LEMMA KeepReadDone ==
  ASSUME IOInv, NEW c \in Client, ReadDone(c)
  PROVE  IOInv'
<1>1. main.sub = "none" /\ main.phase \in {"reads", "reads2"} /\ ReadIsDone(c)
  BY DEF ReadDone, ReadPhase, At
<1>2. PICK r \in WriteResult(cl[c].last) :
        LET st   == ReadTaken(c, r)
            x    == st.cl[c]
            Done == IF x.close_asap THEN {st}
                    ELSE IF x.conn = "accepting" THEN Accepted(st, c)
                    ELSE Served(st, c, TRUE)
        IN  \E after \in Done :
              Walk(after, IF Readers(after) = Readers(st) THEN main.todo \ {c}
                                                          ELSE Readers(after))
  BY Zenon DEF ReadDone
<1> DEFINE st == ReadTaken(c, r)
           D  == IF st.cl[c].close_asap THEN {st}
                 ELSE IF st.cl[c].conn = "accepting" THEN Accepted(st, c)
                 ELSE Served(st, c, TRUE)
<1>3. PICK after \in D : Walk(after, IF Readers(after) = Readers(st) THEN main.todo \ {c}
                                                                      ELSE Readers(after))
  BY <1>2, Zenon
<1>4. OK(st) /\ Settled(st, c)
  BY <1>1, Now, ReadTakenOK
<1> HIDE DEF st
<1>5. OK(after)
  BY <1>3, <1>4, AcceptedOK, ServedOK DEF Settled
<1>6. PICK todo \in SUBSET Client : Walk(after, todo)
  <2>1. Readers(after) \in SUBSET Client /\ main.todo \ {c} \in SUBSET Client
    BY TodoType DEF Readers
  <2> QED BY <1>3, <2>1
<1>7. UNCHANGED <<active, num, thr, mutex, poll>>
  BY DEF ReadDone
<1> QED BY <1>1, <1>5, <1>6, <1>7, WalkOK

\* ReadResize and ReadableResize begin a resize for a client that is settled.
LEMMA BeginResize ==
  ASSUME IOInv, main.sub = "none", main.phase \in {"reads", "reads2", "events"},
         NEW c \in Client, NEW n \in 1..MaxThreads, NEW todo \in SUBSET Client,
         NEW st, OK(st), Apply(st), Settled(st, c), st.cl[c].out < MaxOut,
         num' = n, main' = [main EXCEPT !.sub = "drain", !.who = c, !.todo = todo],
         UNCHANGED <<active, thr, mutex, poll>>
  PROVE  IOInv'
<1>1. Scalars'
  BY Now DEF Scalars
<1>2. st \in StateRec /\ Good(st, thr, active)
  BY DEF OK, Good
<1>3. State' = st
  BY <1>2 DEF State, Apply, StateRec
<1>4. Good(State, thr, active)'
  BY <1>2, <1>3
<1>5. \A t \in Thread : ~(t < active /\ mutex[t] = "main")
  BY DEF IOInv, MainOK
<1>6. main' \in MainType /\ main'.sub = "drain" /\ main'.who = c /\ main'.phase = main.phase
  BY Now DEF MainType, Sub
<1>7. MainOK(main', st, active, num', mutex, Last')
  BY <1>5, <1>6 DEF MainOK, Settled
<1>8. MainOK(main, State, active, num, mutex, Last)'
  BY <1>3, <1>7
<1> QED BY <1>1, <1>4, <1>8 DEF IOInv

LEMMA KeepReadResize ==
  ASSUME IOInv, NEW c \in Client, NEW n \in 1..MaxThreads, ReadResize(c, n)
  PROVE  IOInv'
<1>1. main.sub = "none" /\ main.phase \in {"reads", "reads2"} /\ ReadIsDone(c)
  BY DEF ReadResize, ReadPhase, At
<1>2. PICK r \in WriteResult(cl[c].last) :
         /\ ReadTaken(c, r).cl[c].out < MaxOut
         /\ Apply(ReadTaken(c, r))
  BY Zenon DEF ReadResize
<1> DEFINE st == ReadTaken(c, r)
<1>3. OK(st) /\ Settled(st, c)
  BY <1>1, Now, ReadTakenOK
<1>4. main.todo \ {c} \in SUBSET Client
  BY TodoType
<1>5. /\ num' = n /\ UNCHANGED <<active, thr, mutex, poll>>
      /\ main' = [main EXCEPT !.sub = "drain", !.who = c, !.todo = main.todo \ {c}]
  BY Now DEF ReadResize, MainType
<1> HIDE DEF st
<1>6. Apply(st) /\ st.cl[c].out < MaxOut
  BY <1>2 DEF st
<1> QED BY <1>1, <1>3, <1>4, <1>5, <1>6, BeginResize

LEMMA KeepPendingWrite ==
  ASSUME IOInv, NEW c \in Client, PendingWrite(c)
  PROVE  IOInv'
<1>1. main.sub = "none" /\ main.phase = "writes" /\ UNCHANGED <<active, num, thr, mutex, poll>>
  BY DEF PendingWrite, At
<1> DEFINE st == WithListed(State, c, FALSE)
           x  == cl[c]
           Last1(r, b) == WithHandler(PostWrite(st, c, r), c, b)
<1>2. OK(st) /\ st.cl[c].out = x.out
  <2>1. OK(State) /\ State.cl[c] = x
    BY Now
  <2>2. OK(st) /\ st.cl[c].out = State.cl[c].out
    BY <2>1, ListedIs, Zenon
  <2> QED BY <2>1, <2>2
<1>3. \/ Walk(st, main.todo \ {c})
      \/ CanSendWrite(st, c) /\ Walk(SendWrite(st, c), main.todo \ {c})
      \/ \E r \in WriteResult(x.out) : \E b :
           /\ b = (PostWrite(st, c, r).cl[c].handler \/
                     (PostWrite(st, c, r).cl[c].out > 0 /\ ~PostWrite(st, c, r).cl[c].close_asap))
           /\ Walk(Last1(r, b), main.todo \ {c})
  BY Zenon DEF PendingWrite, WithListed, WithHandler
<1> HIDE DEF st
<1>4. CASE Walk(st, main.todo \ {c})
  BY <1>1, <1>2, <1>4, TodoType, WalkOK
<1>5. CASE CanSendWrite(st, c) /\ Walk(SendWrite(st, c), main.todo \ {c})
  BY <1>1, <1>2, <1>5, TodoType, SendWriteOK, WalkOK
<1>6. ASSUME NEW r \in WriteResult(x.out), NEW b,
             b = (PostWrite(st, c, r).cl[c].handler \/
                    (PostWrite(st, c, r).cl[c].out > 0 /\ ~PostWrite(st, c, r).cl[c].close_asap)),
             Walk(Last1(r, b), main.todo \ {c})
      PROVE  IOInv'
  <2> DEFINE post == PostWrite(st, c, r)
  <2>1. x.out \in Nat /\ x.out <= st.cl[c].out
    <3>1. x.out \in 0..MaxOut
      BY Now, Parts
    <3> QED BY <1>2, <3>1
  <2>2. OK(post)
    BY <1>2, <2>1, PostWriteOK
  <2>3. post.cl[c] \in ClientState
    BY <2>2, Parts
  <2>4. b \in BOOLEAN
    BY <1>6, <2>3 DEF ClientState
  <2> HIDE DEF post
  <2>5. OK(WithHandler(post, c, b))
    BY <2>2, <2>4, HandlerIs
  <2>6. OK(Last1(r, b))
    BY <2>5 DEF post
  <2> HIDE DEF Last1
  <2> QED BY <1>1, <1>6, <2>6, TodoType, WalkOK
<1> QED BY <1>3, <1>4, <1>5, <1>6

LEMMA KeepWriteDone ==
  ASSUME IOInv, NEW c \in Client, WriteDone(c)
  PROVE  IOInv'
<1>1. main.sub = "none" /\ main.phase = "writedone" /\ UNCHANGED <<active, num, thr, mutex, poll>>
  BY DEF WriteDone, At
<1>2. CASE Busy(cl[c])
  <2>1. Walk(State, main.todo \ {c})
    BY <1>2 DEF WriteDone
  <2> QED BY <1>1, <2>1, Now, TodoType, WalkOK
<1>3. CASE ~Busy(cl[c])
  <2>1. PICK r \in WriteResult(cl[c].last) :
          Walk(ProcessClientIOWriteDone(State, c, r, TRUE), main.todo \ {c})
    BY <1>3 DEF WriteDone
  <2> DEFINE U == ProcessClientIOWriteDone(State, c, r, TRUE)
  <2>2. OK(U)
    BY <1>3, Now, WriteDoneOK DEF Busy
  <2>3. Walk(U, main.todo \ {c})
    BY <2>1
  <2> HIDE DEF U
  <2> QED BY <1>1, <2>2, <2>3, TodoType, WalkOK
<1> QED BY <1>2, <1>3

LEMMA KeepFreeQueued ==
  ASSUME IOInv, NEW c \in Client, FreeQueued(c)
  PROVE  IOInv'
<1>1. /\ main.sub = "none" /\ main.phase = "free" /\ UNCHANGED <<active, num, thr, mutex, poll>>
      /\ ~Busy(cl[c]) /\ Walk(FreeClient(State, c), main.todo \ {c})
  BY DEF FreeQueued, At, MayFree
<1>2. OK(FreeClient(State, c))
  BY <1>1, Now, FreeOK
<1> QED BY <1>1, <1>2, TodoType, WalkOK

\* A step that leaves clients and rings alone.
LEMMA StillStep ==
  ASSUME IOInv, main.sub # "lock", UNCHANGED <<cl, jobs, active, num, thr, mutex>>,
         poll' \in {"none", "poll", "done"}, main' \in MainType, main'.sub \in {"none", "adjust"}
  PROVE  IOInv'
<1>1. OK(State) /\ Apply(State)
  BY Now DEF Apply
<1> QED BY <1>1, MainStep

LEMMA KeepAdjustForWrites ==
  ASSUME IOInv, NEW n \in 1..num, AdjustForWrites(n)
  PROVE  IOInv'
<1>1. main.sub = "none" /\ UNCHANGED <<cl, jobs, active, num, thr, mutex, poll>>
  BY DEF AdjustForWrites, At
<1>2. main \in MainType /\ n \in 1..MaxThreads /\ poll \in {"none", "poll", "done"}
  BY Now DEF Scalars
<1>3. [main EXCEPT !.sub = "adjust", !.target = n] \in MainType
  BY <1>2 DEF MainType, Sub
<1>4. [main EXCEPT !.sub = "adjust", !.target = n].sub = "adjust"
  BY <1>2 DEF MainType
<1>5. main' \in MainType /\ main'.sub \in {"none", "adjust"}
  BY <1>3, <1>4, ToWritesType DEF AdjustForWrites
<1> QED BY <1>1, <1>2, <1>5, StillStep

LEMMA KeepSleep ==
  ASSUME IOInv, NEW n \in 1..num, Sleep(n)
  PROVE  IOInv'
<1>1. main.sub = "none" /\ UNCHANGED <<cl, jobs, active, num, thr, mutex>>
  BY DEF Sleep, At
<1>2. main \in MainType /\ n \in 1..MaxThreads /\ poll' \in {"none", "poll", "done"}
  BY Now DEF Scalars, Sleep
<1>3. [main EXCEPT !.sub = "adjust", !.target = n] \in MainType
  BY <1>2 DEF MainType, Sub
<1>4. [main EXCEPT !.sub = "adjust", !.target = n].sub = "adjust"
  BY <1>2 DEF MainType
<1>5. main' \in MainType /\ main'.sub \in {"none", "adjust"}
  BY <1>3, <1>4, InType DEF Sleep, Phase
<1> QED BY <1>1, <1>2, <1>5, StillStep

LEMMA KeepAdjusted ==
  ASSUME IOInv, Adjusted
  PROVE  IOInv'
<1>1. main.sub = "adjust" /\ UNCHANGED <<cl, jobs, active, num, thr, mutex, poll>>
  BY DEF Adjusted
<1>2. poll \in {"none", "poll", "done"}
  BY Now DEF Scalars
<1>3. main' \in MainType /\ main'.sub = "none"
  BY ToWritesType, InType DEF Adjusted, Phase
<1> QED BY <1>1, <1>2, <1>3, StillStep

\* A thread with jobs keeps its number below that of the active ones.
LEMMA MoreActive ==
  ASSUME NEW st, NEW th, NEW a \in Int, NEW b \in Int, Good(st, th, a),
         \A t \in Thread : t < a /\ ~IsEmpty(st.jobs[t]) => t < b
  PROVE  Good(st, th, b)
<1>1. GoodRings(st.jobs, th, b)
  BY DEF Good, GoodRings, GoodThread
<1> QED BY <1>1 DEF Good

LEMMA KeepActivate ==
  ASSUME IOInv, Activate
  PROVE  IOInv'
<1>1. /\ main.sub = "adjust" /\ active < main.target /\ active' = active + 1
      /\ mutex' = [mutex EXCEPT ![active] = "free"] /\ UNCHANGED <<cl, jobs, num, thr, poll, main>>
  BY DEF Activate
<1>2. active \in 1..MaxThreads /\ main.target \in 1..MaxThreads /\ MaxThreads \in Nat /\ main \in MainType
  BY Now DEF Scalars, MainType
<1>3. active + 1 \in 1..MaxThreads /\ \A t \in Thread : t \in Int
  BY <1>1, <1>2 DEF Thread
<1>4. Scalars'
  BY <1>1, <1>3, Now DEF Scalars
<1>5. Good(State, thr, active + 1)
  BY <1>2, <1>3, MoreActive DEF IOInv
<1>6. Good(State, thr, active)'
  BY <1>1, <1>5 DEF State
<1>7. \A t \in Thread : ~(t < active + 1 /\ mutex'[t] = "main")
  <2>1. \A t \in Thread : ~(t < active /\ mutex[t] = "main")
    BY <1>1 DEF IOInv, MainOK
  <2>2. mutex \in [Thread -> {"free", "main"}]
    BY Now DEF Scalars
  <2> QED BY <1>1, <1>2, <1>3, <2>1, <2>2
<1>8. MainOK(main, State, active, num, mutex, Last)'
  BY <1>1, <1>2, <1>7 DEF MainOK, Resizing
<1> QED BY <1>4, <1>6, <1>8 DEF IOInv

LEMMA KeepDeactivate ==
  ASSUME IOInv, Deactivate
  PROVE  IOInv'
<1>1. /\ main.sub = "adjust" /\ active > main.target /\ active' = active - 1
      /\ IsEmpty(jobs[active - 1])
      /\ mutex' = [mutex EXCEPT ![active - 1] = "main"] /\ UNCHANGED <<cl, jobs, num, thr, poll, main>>
  BY DEF Deactivate, MayPark
<1>2. active \in 1..MaxThreads /\ main.target \in 1..MaxThreads /\ MaxThreads \in Nat /\ main \in MainType
  BY Now DEF Scalars, MainType
<1>3. active - 1 \in 1..MaxThreads /\ \A t \in Thread : t \in Int
  BY <1>1, <1>2 DEF Thread
<1>4. Scalars'
  BY <1>1, <1>3, Now DEF Scalars
<1>5. Good(State, thr, active - 1)
  <2>1. \A t \in Thread : t < active /\ ~IsEmpty(jobs[t]) => t < active - 1
    BY <1>1, <1>2, <1>3
  <2> QED BY <1>2, <1>3, <2>1, MoreActive, Now DEF IOInv
<1>6. Good(State, thr, active)'
  BY <1>1, <1>5 DEF State
<1>7. \A t \in Thread : ~(t < active - 1 /\ mutex'[t] = "main")
  <2>1. \A t \in Thread : ~(t < active /\ mutex[t] = "main")
    BY <1>1 DEF IOInv, MainOK
  <2>2. mutex \in [Thread -> {"free", "main"}]
    BY Now DEF Scalars
  <2> QED BY <1>1, <1>2, <1>3, <2>1, <2>2
<1>8. MainOK(main, State, active, num, mutex, Last)'
  BY <1>1, <1>2, <1>7 DEF MainOK, Resizing
<1> QED BY <1>4, <1>6, <1>8 DEF IOInv

LEMMA KeepBeforeSleep ==
  ASSUME IOInv, BeforeSleep
  PROVE  IOInv'
<1>1. /\ main.sub = "none" /\ UNCHANGED <<cl, active, num, thr, mutex>>
      /\ main' = IF Readers(State) = {} THEN ToAdjust(State) ELSE In("reads", Readers(State))
  BY DEF BeforeSleep, At
<1>2. main' \in MainType /\ main'.sub = "none"
  <2>1. Readers(State) \in SUBSET Client /\ "reads" \in Phase
    BY DEF Readers, Phase
  <2> QED BY <1>1, <2>1, ToWritesType, InType
<1>3. \/ UNCHANGED <<poll, jobs>>
      \/ /\ active > 1 /\ Readers(State) \cup Writers(State) # {} /\ ~IsFull(jobs[active - 1])
         /\ poll' = "poll"
         /\ jobs' = [jobs EXCEPT ![active - 1] = Push(@, [kind |-> "poll", c |-> 0])]
  BY Zenon DEF BeforeSleep
<1>4. CASE UNCHANGED <<poll, jobs>>
  <2>1. poll \in {"none", "poll", "done"}
    BY Now DEF Scalars
  <2> QED BY <1>1, <1>2, <1>4, <2>1, StillStep
<1>5. CASE /\ active > 1 /\ Readers(State) \cup Writers(State) # {} /\ ~IsFull(jobs[active - 1])
           /\ poll' = "poll"
           /\ jobs' = [jobs EXCEPT ![active - 1] = Push(@, [kind |-> "poll", c |-> 0])]
  <2> DEFINE t == active - 1
             j == [kind |-> "poll", c |-> 0]
             U == [cl |-> cl, jobs |-> [jobs EXCEPT ![t] = Push(@, j)]]
  <2>1. PICK c \in Client : TRUE
    BY <1>5 DEF Readers, Writers
  <2>2. t \in Thread /\ t < active /\ ~IsFull(jobs[t])
    BY <1>5, Now DEF Scalars, Thread
  <2> HIDE DEF t
  <2>3. j \in Job /\ j # NoJob /\ j.kind = "poll"
    BY JobKinds
  <2>4. OK(State) /\ State.cl = cl /\ State.jobs = jobs /\ jobs \in [Thread -> Ring] /\ cl \in [Client -> ClientState]
    BY Now
  <2>5. Push(jobs[t], j) \in Ring
    <3>1. GoodRing(jobs[t])
      BY <2>2, <2>4 DEF OK, Good, GoodRings, GoodThread
    <3> QED BY <2>2, <2>3, <3>1, PushRing DEF GoodRing
  <2> HIDE DEF j
  <2>6. U \in StateRec /\ U.cl = cl /\ U.jobs = [jobs EXCEPT ![t] = Push(@, j)]
    BY <2>2, <2>4, <2>5 DEF StateRec
  <2>7. Apply(U)
    BY <1>1, <1>5 DEF Apply, t, j
  <2> HIDE DEF U
  <2>8. Sent(State, U, c, t, j) /\ U.cl = State.cl
    BY <2>4, <2>6 DEF Sent
  <2>9. OK(U)
    BY <2>1, <2>2, <2>3, <2>4, <2>8, PushNobodys
  <2> QED BY <1>1, <1>2, <1>5, <2>7, <2>9, MainStep
<1> QED BY <1>3, <1>4, <1>5

\* An event is handled.
LEMMA EventStep ==
  ASSUME IOInv, At("events"), NEW st, OK(st), Apply(st), UNCHANGED <<active, num, thr, mutex, poll, main>>
  PROVE  IOInv'
<1>1. main \in MainType /\ poll \in {"none", "poll", "done"} /\ main.sub = "none"
  BY Now DEF Scalars, At
<1> QED BY <1>1, MainStep

LEMMA KeepAccept ==
  ASSUME IOInv, NEW c \in Client, Accept(c)
  PROVE  IOInv'
<1> DEFINE S  == State
           st == WithConn(S, c, "accepting")
           t  == HomeThread(c)
           j  == [kind |-> "accept", c |-> c]
           U  == [st EXCEPT !.cl[c].read = "pending", !.jobs[t] = Push(@, j)]
<1>1. /\ At("events") /\ cl[c].conn # "open" /\ cl[c].read = "idle"
      /\ UNCHANGED <<active, num, thr, mutex, poll, main>>
  BY DEF Accept
<1>2. OK(S) /\ S.cl = cl /\ S.jobs = jobs
  BY Now
<1>3. \/ Apply(WithConn(S, c, "open"))
      \/ active > 1 /\ ~IsFull(jobs[t]) /\ Apply(U)
      \/ \E after \in Accepted(st, c) : Apply(after)
  BY Zenon DEF Accept, WithConn
<1> HIDE DEF S
<1>4. OK(WithConn(S, c, "open"))
  BY <1>1, <1>2, ConnIs
<1>5. /\ OK(st) /\ OnlyClient(S, st, c) /\ st.cl[c].read = "idle"
      /\ st.cl[c].write = "idle" /\ st.cl[c].conn = "accepting"
  BY <1>1, <1>2, ConnIs
<1> HIDE DEF st
<1>6. ASSUME active > 1, ~IsFull(jobs[t]) PROVE OK(U)
  <2> DEFINE x == st.cl[c]
             y == [x EXCEPT !.read = "pending"]
  <2>1. /\ st \in StateRec /\ x \in ClientState /\ GoodFields(x) /\ st.jobs \in [Thread -> Ring]
        /\ active \in Int
    BY <1>5, Parts
  <2>2. t \in Thread /\ t < active
    BY <1>6, HomeIsThread, Now DEF Scalars
  <2>3. ~IsFull(st.jobs[t])
    BY <1>2, <1>5, <1>6 DEF OnlyClient
  <2>4. j \in Job /\ j # NoJob /\ j.c = c
    BY JobKinds
  <2> HIDE DEF t
  <2>5. U = [[st EXCEPT !.cl = [st.cl EXCEPT ![c] = y]] EXCEPT !.jobs = [st.jobs EXCEPT ![t] = Push(@, j)]]
    BY <2>1 DEF StateRec
  <2> HIDE DEF U
  <2>6. /\ y \in ClientState /\ y.out = x.out /\ y.last = x.last /\ y.conn = x.conn /\ y.read = "pending"
        /\ y.write = x.write
    BY <2>1 DEF ClientState, IOState
  <2> HIDE DEF y, j
  <2>7. Push(st.jobs[t], j) \in Ring
    <3>1. GoodRing(st.jobs[t])
      BY <1>5, <2>2 DEF OK, Good, GoodRings, GoodThread
    <3> QED BY <2>3, <2>4, <3>1, PushRing DEF GoodRing
  <2>8. Sent(st, U, c, t, j) /\ U.cl[c] = y
    <3>1. [st.jobs EXCEPT ![t] = Push(@, j)] \in [Thread -> Ring]
      BY <2>1, <2>2, <2>7
    <3>2. [st.cl EXCEPT ![c] = y] \in [Client -> ClientState]
      BY <2>1, <2>6 DEF StateRec
    <3> QED BY <2>1, <2>5, <2>6, <3>1, <3>2 DEF Sent, StateRec
  <2>9. GoodFields(y)
    BY <2>1, <2>6 DEF GoodFields
  <2>10. GoodJobs(x, st.jobs, thr, c)
    BY <1>5 DEF OK, Good, GoodClients
  <2>11. ASSUME Added(st.jobs, U.jobs, thr, j, <<t, st.jobs[t].head>>)
         PROVE  GoodJobs(y, U.jobs, thr, c)
    BY <1>5, <2>6, <2>10, <2>11, AcceptJob DEF j
  <2>12. Good(U, thr, active)
    BY <1>5, <2>1, <2>2, <2>3, <2>4, <2>8, <2>9, <2>11, SendJob DEF OK
  <2> QED BY <1>5, <2>12 DEF OK
<1>7. ASSUME NEW after \in Accepted(st, c) PROVE OK(after)
  BY <1>5, AcceptedOK
<1> HIDE DEF U
<1> QED BY <1>1, <1>3, <1>4, <1>6, <1>7, EventStep

LEMMA KeepReadable ==
  ASSUME IOInv, NEW c \in Client, Readable(c)
  PROVE  IOInv'
<1>1. At("events") /\ cl[c].read = "idle" /\ UNCHANGED <<active, num, thr, mutex, poll, main>>
  BY DEF Readable
<1>2. OK(State) /\ State.cl = cl
  BY Now
<1>3. \/ CanSendRead(State, c) /\ Apply(SendRead(State, c))
      \/ cl[c].write = "idle" /\ \E after \in Served(State, c, FALSE) : Apply(after)
  BY DEF Readable
<1>4. CanSendRead(State, c) => OK(SendRead(State, c))
  BY <1>1, <1>2, SendReadOK
<1>5. ASSUME cl[c].write = "idle", NEW after \in Served(State, c, FALSE) PROVE OK(after)
  <2>1. Settled(State, c)
    BY <1>1, <1>2, <1>5 DEF Settled
  <2> QED BY <1>2, <1>5, <2>1, ServedOK
<1> QED BY <1>1, <1>3, <1>4, <1>5, EventStep

LEMMA KeepReadableResize ==
  ASSUME IOInv, NEW c \in Client, NEW n \in 1..MaxThreads, ReadableResize(c, n)
  PROVE  IOInv'
<1>1. /\ main.sub = "none" /\ main.phase = "events" /\ cl[c].read = "idle" /\ cl[c].write = "idle"
      /\ cl[c].out < MaxOut /\ num' = n /\ UNCHANGED <<cl, jobs, active, thr, mutex, poll>>
      /\ main' = [main EXCEPT !.sub = "drain", !.who = c]
  BY DEF ReadableResize, At
<1>2. OK(State) /\ State.cl = cl /\ State.jobs = jobs /\ main \in MainType
  BY Now
<1>3. Apply(State) /\ Settled(State, c) /\ State.cl[c].out < MaxOut
  BY <1>1, <1>2 DEF Apply, Settled
<1>4. main.todo \in SUBSET Client /\ main' = [main EXCEPT !.sub = "drain", !.who = c, !.todo = main.todo]
  BY <1>1, <1>2 DEF MainType
<1> QED BY <1>1, <1>2, <1>3, <1>4, BeginResize

LEMMA KeepWritable ==
  ASSUME IOInv, NEW c \in Client, Writable(c)
  PROVE  IOInv'
<1>1. At("events") /\ UNCHANGED <<active, num, thr, mutex, poll, main>>
  BY DEF Writable
<1>2. OK(State) /\ State.cl = cl
  BY Now
<1>3. \/ CanSendWrite(State, c) /\ Apply(SendWrite(State, c))
      \/ \E r \in WriteResult(cl[c].out) : Apply(WriteToClient(State, c, r))
  BY DEF Writable
<1>4. CanSendWrite(State, c) => OK(SendWrite(State, c))
  BY <1>2, SendWriteOK
<1>5. ASSUME NEW r \in WriteResult(cl[c].out) PROVE OK(WriteToClient(State, c, r))
  <2>1. cl[c].out \in Nat /\ cl[c].out <= State.cl[c].out
    <3>1. cl[c].out \in 0..MaxOut
      BY <1>2, Parts
    <3> QED BY <1>2, <3>1
  <2>2. OK(PostWrite(State, c, r))
    BY <1>2, <2>1, PostWriteOK
  <2> QED BY <1>2, <2>2 DEF WriteToClient
<1> QED BY <1>1, <1>3, <1>4, <1>5, EventStep

LEMMA KeepCloseAsync ==
  ASSUME IOInv, NEW c \in Client, CloseAsync(c)
  PROVE  IOInv'
BY Now, AsyncOK, EventStep DEF CloseAsync

-----------------------------------------------------------------------------
(* The steps of a resize.                                                  *)

AllEmpty(jb) == \A t \in Thread : IsEmpty(jb[t])

\* The threads are numbered from 1, so there are fewer than MaxThreads.
LEMMA LastBound ==
  ASSUME MaxThreads \in Nat, MaxThreads >= 1
  PROVE  Last \in 0 .. (MaxThreads - 1)
<1>1. IsFiniteSet(Thread) /\ Cardinality(Thread) = MaxThreads - 1
  <2>1. 1 \in Int /\ MaxThreads - 1 \in Int
    OBVIOUS
  <2>2. /\ IsFiniteSet(1 .. (MaxThreads - 1))
        /\ Cardinality(1 .. (MaxThreads - 1)) =
             IF 1 > MaxThreads - 1 THEN 0 ELSE MaxThreads - 1 - 1 + 1
    BY <2>1, FS_Interval
  <2> QED BY <2>2 DEF Thread
<1>2. Started \in SUBSET Thread
  BY DEF Started
<1>3. IsFiniteSet(Started) /\ Cardinality(Started) <= MaxThreads - 1
  BY <1>1, <1>2, FS_Subset
<1>4. Cardinality(Started) \in Nat
  BY <1>3, FS_CardinalityType
<1> QED BY <1>3, <1>4 DEF Last

\* While the rings are empty no client has a job, whatever the threads do.
LEMMA EmptyGood ==
  ASSUME NEW st, NEW th, NEW a, NEW U, NEW th2, NEW b, Good(st, th, a), AllEmpty(st.jobs),
         U \in StateRec, U.cl = st.cl, AllEmpty(U.jobs), \A t \in Thread : GoodRing(U.jobs[t]),
         \A t \in Thread : th2[t].left = 0 /\ th2[t].pc \notin {"handle", "remove"}
  PROVE  Good(U, th2, b)
<1>1. ASSUME NEW jb, NEW tt, AllEmpty(jb), \A t \in Thread : GoodRing(jb[t]), NEW c \in Client, NEW K \in KindSets
      PROVE  Where(jb, tt, c, K) = {}
  <2>1. "none" \notin K
    BY DEF KindSets, Reading, Writing
  <2>2. \A t \in Thread : \A i \in Index : jb[t].buf[i] = NoJob
    BY <1>1, RingBounds DEF AllEmpty
  <2> QED BY <2>1, <2>2 DEF Where, NoJob
<1>2. \A t \in Thread : GoodRing(st.jobs[t])
  BY DEF Good, GoodRings, GoodThread
<1>3. GoodRings(U.jobs, th2, b)
  <2>1. ASSUME NEW t \in Thread PROVE GoodThread(U.jobs[t], th2[t], t, b)
    <3>1. GoodRing(U.jobs[t]) /\ IsEmpty(U.jobs[t])
      BY DEF AllEmpty
    <3>2. AvailableJobs(U.jobs[t]) = 0
      BY <3>1, RingBounds
    <3> QED BY <3>1, <3>2 DEF GoodThread
  <2> QED BY <2>1 DEF GoodRings, StateRec
<1>4. ASSUME NEW c \in Client PROVE GoodFields(U.cl[c]) /\ GoodJobs(U.cl[c], U.jobs, th2, c)
  <2>1. GoodFields(st.cl[c]) /\ GoodJobs(st.cl[c], st.jobs, th, c)
    BY DEF Good, GoodClients
  <2>2. /\ Reading \in KindSets /\ Writing \in KindSets
        /\ {"read", "write"} \in KindSets /\ {"accept"} \in KindSets
    BY DEF KindSets
  <2>3. \A K \in KindSets : Where(st.jobs, th, c, K) = {} /\ Where(U.jobs, th2, c, K) = {}
    BY <1>1, <1>2
  <2>4. GoodJobs(st.cl[c], U.jobs, th2, c)
    BY <2>1, <2>2, <2>3 DEF GoodJobs
  <2> QED BY <2>1, <2>4
<1> QED BY <1>3, <1>4 DEF Good, GoodClients

\* A thread without jobs does nothing.
LEMMA IdleThreads ==
  ASSUME IOInv, AllEmpty(jobs)
  PROVE  \A t \in Thread : thr[t] \in ThrRec /\ thr[t].left = 0 /\ thr[t].pc \notin {"handle", "remove"}
<1> SUFFICES ASSUME NEW t \in Thread
             PROVE  thr[t] \in ThrRec /\ thr[t].left = 0 /\ thr[t].pc \notin {"handle", "remove"}
  OBVIOUS
<1>1. GoodThread(jobs[t], thr[t], t, active) /\ thr[t] \in ThrRec
  BY Now DEF OK, Good, GoodRings
<1>2. GoodRing(jobs[t]) /\ IsEmpty(jobs[t])
  BY <1>1 DEF GoodThread, AllEmpty
<1>3. AvailableJobs(jobs[t]) = 0
  BY <1>2, RingBounds
<1>4. thr[t].left \in Int /\ thr[t].left >= 0
  BY <1>1, QueueAssumption DEF ThrRec
<1> QED BY <1>1, <1>3, <1>4 DEF GoodThread

\* The rest of a step of a resize: where the main thread is.
LEMMA ResizeStep ==
  ASSUME IOInv, main.sub \in Resizing, UNCHANGED <<cl, num, poll>>,
         Scalars', Good(State, thr, active)',
         main' \in MainType, main'.sub \in Resizing, main'.phase = main.phase, main'.who = main.who,
         main'.sub \in {"lock", "unblock", "shutdown", "join"} => AllEmpty(jobs'),
         \A t \in Thread : t < active' /\ mutex'[t] = "main" => main'.sub = "lock" /\ t < main'.target,
         main'.sub \in {"unblock", "shutdown"} => Last' + 1 > num
  PROVE  IOInv'
<1>1. State'.cl = cl /\ State'.jobs = jobs' /\ State.cl = cl
  BY DEF State
<1>2. /\ main.phase \in {"reads", "reads2", "events"} /\ main.who \in Client
      /\ cl[main.who].out < MaxOut
      /\ cl[main.who].read = "idle" /\ cl[main.who].write = "idle"
  BY <1>1 DEF IOInv, MainOK
<1>3. /\ main'.phase \in {"reads", "reads2", "events"} /\ main'.who \in Client
      /\ State'.cl[main'.who].out < MaxOut
      /\ State'.cl[main'.who].read = "idle" /\ State'.cl[main'.who].write = "idle"
  BY <1>1, <1>2
<1>4. main'.sub \in {"lock", "unblock", "shutdown", "join"} => \A t \in Thread : IsEmpty(State'.jobs[t])
  BY <1>1 DEF AllEmpty
<1>5. main'.sub \in {"unblock", "shutdown"} => Last' + 1 > num'
  OBVIOUS
<1>6. MainOK(main', State', active', num', mutex', Last')
  BY <1>3, <1>4, <1>5, Zenon DEF MainOK
<1> QED BY <1>6 DEF IOInv

\* Steps that leave clients, rings and threads alone.
LEMMA GoodStays ==
  ASSUME IOInv, UNCHANGED <<cl, jobs, thr>>, active' = active
  PROVE  Good(State, thr, active)'
<1>1. State' = State
  BY DEF State
<1> QED BY <1>1 DEF IOInv

LEMMA KeepResizeNothing ==
  ASSUME IOInv, ResizeNothing
  PROVE  IOInv'
<1>1. /\ main.sub = "drain" /\ main' = [main EXCEPT !.sub = "done"]
      /\ UNCHANGED <<cl, jobs, active, num, thr, mutex, poll>>
  BY DEF ResizeNothing
<1>2. main' \in MainType /\ main'.sub = "done" /\ main'.phase = main.phase /\ main'.who = main.who
  BY <1>1, Now DEF MainType, Sub
<1>3. Scalars' /\ Good(State, thr, active)'
  BY <1>1, Now, GoodStays DEF Scalars
<1>4. \A t \in Thread : ~(t < active' /\ mutex'[t] = "main")
  BY <1>1 DEF IOInv, MainOK
<1> QED BY <1>1, <1>2, <1>3, <1>4, ResizeStep DEF Resizing

LEMMA KeepDrained ==
  ASSUME IOInv, Drained
  PROVE  IOInv'
<1>1. /\ main.sub = "drain" /\ main' = [main EXCEPT !.sub = "lock", !.target = 1]
      /\ AllEmpty(jobs) /\ UNCHANGED <<cl, jobs, active, num, thr, mutex, poll>>
  BY DEF Drained, AllEmpty
<1>2. main' \in MainType /\ main'.sub = "lock" /\ main'.phase = main.phase /\ main'.who = main.who
  <2>1. 1 \in 1..MaxThreads /\ main \in MainType
    BY Now, ThreadsAssumption
  <2> QED BY <1>1, <2>1 DEF MainType, Sub
<1>3. Scalars' /\ Good(State, thr, active)'
  BY <1>1, Now, GoodStays DEF Scalars
<1>4. \A t \in Thread : ~(t < active' /\ mutex'[t] = "main")
  BY <1>1 DEF IOInv, MainOK
<1>5. AllEmpty(jobs')
  BY <1>1
<1> QED BY <1>1, <1>2, <1>3, <1>4, <1>5, ResizeStep DEF Resizing

\* The rings stay empty from the end of the drain on.
LEMMA EmptyNow ==
  ASSUME IOInv, main.sub \in {"lock", "unblock", "shutdown", "join"}
  PROVE  AllEmpty(jobs)
BY DEF IOInv, MainOK, AllEmpty, State

LEMMA KeepLockActive ==
  ASSUME IOInv, LockActive
  PROVE  IOInv'
<1>1. /\ main.sub = "lock" /\ main.target < active /\ main' = [main EXCEPT !.target = main.target + 1]
      /\ mutex' = [mutex EXCEPT ![main.target] = "main"]
      /\ UNCHANGED <<cl, jobs, active, num, thr, poll>>
  BY Now DEF LockActive, MainType
<1>2. main.target \in 1..MaxThreads /\ active \in 1..MaxThreads /\ MaxThreads \in Nat /\ main \in MainType
  BY Now DEF Scalars, MainType
<1>3. main.target + 1 \in 1..MaxThreads
  BY <1>1, <1>2
<1>4. /\ main' \in MainType /\ main'.sub = "lock" /\ main'.phase = main.phase /\ main'.who = main.who
      /\ main'.target = main.target + 1
  BY <1>1, <1>2, <1>3 DEF MainType
<1>5. Scalars' /\ Good(State, thr, active)'
  BY <1>1, Now, GoodStays DEF Scalars
<1>6. AllEmpty(jobs')
  BY <1>1, EmptyNow
<1>7. \A t \in Thread : t < active' /\ mutex'[t] = "main" => t < main'.target
  <2>1. \A t \in Thread : t < active /\ mutex[t] = "main" => t < main.target
    BY DEF IOInv, MainOK
  <2>2. mutex \in [Thread -> {"free", "main"}] /\ \A t \in Thread : t \in Int
    BY Now DEF Scalars, Thread
  <2> QED BY <1>1, <1>2, <1>4, <2>1, <2>2
<1> QED BY <1>1, <1>4, <1>5, <1>6, <1>7, ResizeStep DEF Resizing

LEMMA NoneBelowOne ==
  \A t \in Thread : ~(t < 1)
BY ThreadsAssumption DEF Thread

LEMMA KeepCreateThreads ==
  ASSUME IOInv, CreateThreads
  PROVE  IOInv'
<1> DEFINE new(t) == Last < t /\ t < num
<1>1. /\ main.sub = "lock" /\ active' = 1 /\ main' = [main EXCEPT !.sub = "done"]
      /\ thr' = [t \in Thread |-> IF new(t) THEN [pc |-> "top", left |-> 0] ELSE thr[t]]
      /\ mutex' = [t \in Thread |-> IF new(t) THEN "main" ELSE mutex[t]]
      /\ UNCHANGED <<cl, jobs, num, poll>>
  BY DEF CreateThreads
<1> HIDE DEF new
<1>2. main' \in MainType /\ main'.sub = "done" /\ main'.phase = main.phase /\ main'.who = main.who
  BY <1>1, Now DEF MainType, Sub
<1>3. AllEmpty(jobs) /\ jobs' = jobs
  BY <1>1, EmptyNow
<1>4. [pc |-> "top", left |-> 0] \in ThrRec
  BY QueueAssumption DEF ThrRec
<1>5. Scalars'
  BY <1>1, <1>4, Now, ThreadsAssumption DEF Scalars
<1>6. \A t \in Thread : thr'[t].left = 0 /\ thr'[t].pc \notin {"handle", "remove"}
  BY <1>1, <1>3, IdleThreads
<1>7. Good(State, thr', active')
  <2>1. \A t \in Thread : GoodRing(jobs[t])
    BY Now DEF OK, Good, GoodRings, GoodThread
  <2> QED BY <1>3, <1>6, <2>1, EmptyGood, Now DEF OK, Good
<1>8. Good(State, thr, active)'
  BY <1>1, <1>7 DEF State
<1>9. \A t \in Thread : ~(t < active' /\ mutex'[t] = "main")
  BY <1>1, NoneBelowOne
<1> QED BY <1>1, <1>2, <1>5, <1>8, <1>9, ResizeStep DEF Resizing

LEMMA KeepBeginShrink ==
  ASSUME IOInv, BeginShrink
  PROVE  IOInv'
<1>1. /\ main.sub = "lock" /\ active' = 1 /\ main' = [main EXCEPT !.sub = "unblock"]
      /\ Last + 1 > num /\ UNCHANGED <<cl, jobs, num, thr, mutex, poll>>
  BY DEF BeginShrink
<1>2. main' \in MainType /\ main'.sub = "unblock" /\ main'.phase = main.phase /\ main'.who = main.who
  BY <1>1, Now DEF MainType, Sub
<1>3. AllEmpty(jobs) /\ jobs' = jobs /\ Last' = Last
  BY <1>1, EmptyNow DEF Last, Started
<1>4. Scalars'
  BY <1>1, Now, ThreadsAssumption DEF Scalars
<1>5. Good(State, thr, active')
  <2>1. \A t \in Thread : GoodRing(jobs[t])
    BY Now DEF OK, Good, GoodRings, GoodThread
  <2> QED BY <1>3, <2>1, IdleThreads, EmptyGood, Now DEF OK, Good
<1>6. Good(State, thr, active)'
  BY <1>1, <1>5 DEF State
<1>7. \A t \in Thread : ~(t < active' /\ mutex'[t] = "main")
  BY <1>1, NoneBelowOne
<1> QED BY <1>1, <1>2, <1>3, <1>4, <1>6, <1>7, ResizeStep DEF Resizing

LEMMA KeepUnblock ==
  ASSUME IOInv, Unblock
  PROVE  IOInv'
<1>1. /\ main.sub = "unblock" /\ main' = [main EXCEPT !.sub = "shutdown"]
      /\ mutex' = [mutex EXCEPT ![Last] = "free"] /\ UNCHANGED <<cl, jobs, active, num, thr, poll>>
  BY DEF Unblock
<1>2. main' \in MainType /\ main'.sub = "shutdown" /\ main'.phase = main.phase /\ main'.who = main.who
  BY <1>1, Now DEF MainType, Sub
<1>3. AllEmpty(jobs') /\ Last' = Last /\ Last + 1 > num
  BY <1>1, EmptyNow DEF Last, Started, IOInv, MainOK
<1>4. Scalars' /\ Good(State, thr, active)'
  BY <1>1, Now, GoodStays DEF Scalars
<1>5. \A t \in Thread : ~(t < active' /\ mutex'[t] = "main")
  <2>1. \A t \in Thread : ~(t < active /\ mutex[t] = "main")
    BY <1>1 DEF IOInv, MainOK
  <2>2. mutex \in [Thread -> {"free", "main"}]
    BY Now DEF Scalars
  <2> QED BY <1>1, <2>1, <2>2
<1> QED BY <1>1, <1>2, <1>3, <1>4, <1>5, ResizeStep DEF Resizing

LEMMA KeepShutdown ==
  ASSUME IOInv, ShutdownIOThread
  PROVE  IOInv'
<1>1. /\ main.sub = "shutdown" /\ main' = [main EXCEPT !.sub = "join", !.target = Last]
      /\ mutex' = (IF Last >= active THEN [mutex EXCEPT ![Last] = "free"] ELSE mutex)
      /\ UNCHANGED <<cl, jobs, active, num, thr, poll>>
  BY DEF ShutdownIOThread
<1>2. Last \in 1..MaxThreads
  <2>1. Last + 1 > num
    BY <1>1 DEF IOInv, MainOK
  <2>2. Last \in 0 .. (MaxThreads - 1)
    BY LastBound, ThreadsAssumption
  <2>3. num \in 1..MaxThreads /\ MaxThreads \in Nat
    BY Now DEF Scalars
  <2> QED BY <2>1, <2>2, <2>3
<1>3. main' \in MainType /\ main'.sub = "join" /\ main'.phase = main.phase /\ main'.who = main.who
  BY <1>1, <1>2, Now DEF MainType, Sub
<1>4. AllEmpty(jobs')
  BY <1>1, EmptyNow
<1>5. Scalars' /\ Good(State, thr, active)'
  BY <1>1, Now, GoodStays DEF Scalars
<1>6. \A t \in Thread : ~(t < active' /\ mutex'[t] = "main")
  <2>1. \A t \in Thread : ~(t < active /\ mutex[t] = "main")
    BY <1>1 DEF IOInv, MainOK
  <2>2. mutex \in [Thread -> {"free", "main"}]
    BY Now DEF Scalars
  <2> QED BY <1>1, <2>1, <2>2
<1> QED BY <1>1, <1>3, <1>4, <1>5, <1>6, ResizeStep DEF Resizing

\* The ring of a thread that is created or cleaned up.
LEMMA EmptyRingOK == GoodRing(EmptyRing) /\ IsEmpty(EmptyRing)
<1>1. EmptyRing \in Ring /\ EmptyRing.head = 0 /\ EmptyRing.tail = 0 /\ \A i \in Index : EmptyRing.buf[i] = NoJob
  BY QueueAssumption, JobKinds DEF EmptyRing, Ring, Index
<1>2. \A i \in Index : ~InUse(EmptyRing, i)
  BY <1>1, QueueAssumption DEF InUse, Index
<1> QED BY <1>1, <1>2 DEF GoodRing, IsEmpty

LEMMA KeepJoined ==
  ASSUME IOInv, Joined
  PROVE  IOInv'
<1>1. /\ main.sub = "join" /\ main' = [main EXCEPT !.sub = IF Last + 1 > num THEN "unblock" ELSE "done"]
      /\ jobs' = [jobs EXCEPT ![main.target] = EmptyRing] /\ UNCHANGED <<cl, active, num, thr, mutex, poll>>
  BY DEF Joined
<1>2. /\ main' \in MainType /\ main'.phase = main.phase /\ main'.who = main.who
      /\ main'.sub = IF Last + 1 > num THEN "unblock" ELSE "done"
  BY <1>1, Now DEF MainType, Sub
<1>3. Last' = Last
  BY <1>1 DEF Last, Started
<1>4. AllEmpty(jobs) /\ jobs \in [Thread -> Ring] /\ \A t \in Thread : GoodRing(jobs[t])
  BY <1>1, EmptyNow, Now DEF OK, Good, GoodRings, GoodThread
<1>5. jobs' \in [Thread -> Ring] /\ \A t \in Thread : jobs'[t] = jobs[t] \/ jobs'[t] = EmptyRing
  BY <1>1, <1>4, EmptyRingOK DEF GoodRing
<1>6. AllEmpty(jobs') /\ \A t \in Thread : GoodRing(jobs'[t])
  BY <1>4, <1>5, EmptyRingOK DEF AllEmpty
<1>7. Scalars'
  BY <1>1, Now DEF Scalars
<1> DEFINE U == [cl |-> cl, jobs |-> jobs']
<1>8. U \in StateRec /\ U.cl = cl /\ U.jobs = jobs' /\ State' = U
  BY <1>1, <1>5, Now DEF State, StateRec
<1> HIDE DEF U
<1>9. Good(U, thr, active)
  BY <1>4, <1>6, <1>8, IdleThreads, EmptyGood, Now DEF OK
<1>10. Good(State, thr, active)'
  BY <1>1, <1>8, <1>9
<1>11. \A t \in Thread : ~(t < active' /\ mutex'[t] = "main")
  BY <1>1 DEF IOInv, MainOK
<1> QED BY <1>1, <1>2, <1>3, <1>6, <1>7, <1>10, <1>11, ResizeStep DEF Resizing

LEMMA KeepResized ==
  ASSUME IOInv, Resized
  PROVE  IOInv'
<1> DEFINE w == main.who
           A == AddReply(State, w)
           st == BeforeNextClient(A, w)
<1>1. /\ main.sub = "done" /\ Apply(st) /\ UNCHANGED <<active, num, thr, mutex, poll>>
      /\ main' = IF main.phase # "events" /\ main.todo = {} THEN After(main.phase, st)
                 ELSE In(main.phase, main.todo)
  BY DEF Resized
<1>2. OK(State) /\ State.cl = cl /\ main \in MainType /\ poll \in {"none", "poll", "done"}
  BY Now DEF Scalars
<1>3. /\ w \in Client /\ State.cl[w].out < MaxOut /\ Settled(State, w)
      /\ main.phase \in {"reads", "reads2", "events"}
  BY <1>1 DEF IOInv, MainOK, Resizing, Settled
<1> HIDE DEF w
<1>4. OK(A) /\ Settled(A, w)
  BY <1>2, <1>3, AddReplyOK DEF Settled
<1> HIDE DEF A
<1>5. OK(st)
  BY <1>3, <1>4, BeforeNextOK
<1> HIDE DEF st
<1>6. main' \in MainType /\ main'.sub = "none"
  <2>1. main.phase \in Phase /\ main.todo \in SUBSET Client
    BY <1>2 DEF MainType
  <2> QED BY <1>1, <1>3, <2>1, AfterType, InType
<1> QED BY <1>1, <1>2, <1>5, <1>6, MainStep

-----------------------------------------------------------------------------
(* The steps of an I/O thread.                                             *)

\* Which threads have finished a job and not removed it is all that Where uses.
LEMMA SameRemoving ==
  ASSUME NEW jb, NEW th, NEW th2, \A t \in Thread : th2[t].pc = "remove" <=> th[t].pc = "remove",
         NEW c, NEW K
  PROVE  Where(jb, th2, c, K) = Where(jb, th, c, K)
BY DEF Where

\* A step of thread t that leaves clients and rings alone.
LEMMA ThreadStep ==
  ASSUME IOInv, NEW t \in Thread, NEW s \in ThrRec, ThreadOnly(t, s),
         UNCHANGED <<cl, jobs, active, num, mutex, poll, main>>,
         thr[t].pc # "remove", s.pc # "remove", s.left <= AvailableJobs(jobs[t]),
         s.pc = "handle" => s.left >= 1,
         (s.pc # "off" /\ thr[t].pc # "off") \/ main.sub = "join"
  PROVE  IOInv'
<1>1. thr \in [Thread -> ThrRec] /\ thr' = [thr EXCEPT ![t] = s]
  BY Now DEF Scalars, ThreadOnly
<1>2. thr' \in [Thread -> ThrRec] /\ thr'[t] = s /\ \A u \in Thread : u # t => thr'[u] = thr[u]
  BY <1>1
<1>3. Scalars'
  BY <1>2, Now DEF Scalars
<1>4. \A u \in Thread : thr'[u].pc = "remove" <=> thr[u].pc = "remove"
  BY <1>2
<1>5. GoodRings(jobs, thr', active)
  <2>1. jobs \in [Thread -> Ring] /\ \A u \in Thread : GoodThread(jobs[u], thr[u], u, active)
    BY Now DEF OK, Good, GoodRings
  <2> QED BY <1>2, <2>1 DEF GoodRings, GoodThread
<1>6. GoodClients(cl, jobs, thr')
  <2>1. GoodClients(cl, jobs, thr)
    BY Now DEF OK, Good
  <2>2. ASSUME NEW c \in Client, GoodJobs(cl[c], jobs, thr, c) PROVE GoodJobs(cl[c], jobs, thr', c)
    <3>1. \A K : Where(jobs, thr', c, K) = Where(jobs, thr, c, K)
      BY <1>4, SameRemoving
    <3> QED BY <2>2, <3>1 DEF GoodJobs
  <2> QED BY <2>1, <2>2 DEF GoodClients
<1>7. Good(State, thr', active)
  BY <1>5, <1>6, Now DEF OK, Good
<1>8. Good(State, thr, active)'
  BY <1>7 DEF State
<1>9. main.sub = "join" \/ Last' = Last
  <2>1. CASE s.pc # "off" /\ thr[t].pc # "off"
    <3>1. Started' = Started
      BY <1>2, <2>1 DEF Started
    <3> QED BY <3>1 DEF Last
  <2> QED BY <2>1
<1>10. MainOK(main, State, active, num, mutex, Last)
  BY DEF IOInv
<1>11. MainOK(main, State, active, num, mutex, Last)'
  <2>1. State' = State
    BY DEF State
  <2>2. MainOK(main, State, active, num, mutex, Last')
    BY <1>9, <1>10 DEF MainOK
  <2> QED BY <2>1, <2>2
<1> QED BY <1>3, <1>8, <1>11 DEF IOInv

\* What the invariant says of thread t.
LEMMA ThreadNow ==
  ASSUME IOInv, NEW t \in Thread
  PROVE  /\ thr[t] \in ThrRec /\ thr[t].left \in Int /\ 0 <= thr[t].left
         /\ GoodThread(jobs[t], thr[t], t, active) /\ GoodRing(jobs[t])
         /\ AvailableJobs(jobs[t]) \in 0 .. (QueueSize - 1)
         /\ AvailableJobs(jobs[t]) \in Int /\ AvailableJobs(jobs[t]) >= 0
<1>1. thr[t] \in ThrRec /\ GoodThread(jobs[t], thr[t], t, active)
  BY Now DEF Scalars, OK, Good, GoodRings
<1>2. GoodRing(jobs[t])
  BY <1>1 DEF GoodThread
<1>3. AvailableJobs(jobs[t]) \in 0 .. (QueueSize - 1)
  BY <1>2, RingBounds
<1> QED BY <1>1, <1>2, <1>3, QueueAssumption DEF ThrRec

LEMMA KeepCancelled ==
  ASSUME IOInv, NEW t \in Thread, Cancelled(t)
  PROVE  IOInv'
<1>1. [pc |-> "off", left |-> 0] \in ThrRec
  BY QueueAssumption DEF ThrRec
<1> QED BY <1>1, ThreadNow, ThreadStep DEF Cancelled

LEMMA KeepTakeJobs ==
  ASSUME IOInv, NEW t \in Thread, TakeJobs(t)
  PROVE  IOInv'
<1> DEFINE s == [pc |-> "handle", left |-> AvailableJobs(jobs[t])]
<1>1. s \in ThrRec
  BY ThreadNow DEF ThrRec
<1>2. s.pc = "handle" /\ s.left = AvailableJobs(jobs[t])
  OBVIOUS
<1>3. s.left >= 1 /\ s.left <= AvailableJobs(jobs[t])
  BY ThreadNow DEF TakeJobs
<1>4. ThreadOnly(t, s) /\ UNCHANGED <<cl, jobs, active, num, mutex, poll, main>> /\ thr[t].pc = "top"
  BY DEF TakeJobs
<1> HIDE DEF s
<1> QED BY <1>1, <1>2, <1>3, <1>4, ThreadStep

LEMMA KeepGiveUp ==
  ASSUME IOInv, NEW t \in Thread, GiveUp(t)
  PROVE  IOInv'
<1>1. [pc |-> "lock", left |-> 0] \in ThrRec
  BY QueueAssumption DEF ThrRec
<1> QED BY <1>1, ThreadNow, ThreadStep DEF GiveUp

LEMMA KeepPass ==
  ASSUME IOInv, NEW t \in Thread, Pass(t)
  PROVE  IOInv'
<1>1. [pc |-> "top", left |-> 0] \in ThrRec
  BY QueueAssumption DEF ThrRec
<1> QED BY <1>1, ThreadNow, ThreadStep DEF Pass

\* A job that is finished is one unfinished job less.
Finished(jb, th, th2, p) ==
  \A c \in Client : \A K \in KindSets : Where(jb, th2, c, K) = Where(jb, th, c, K) \ {p}

LEMMA FinishWhere ==
  ASSUME IOInv, NEW t \in Thread, NEW th2, thr[t].pc = "handle", th2[t].pc = "remove",
         \A u \in Thread : u # t => th2[u] = thr[u]
  PROVE  /\ Finished(jobs, thr, th2, <<t, jobs[t].tail>>)
         /\ \A c \in Client : \A K \in KindSets :
              <<t, jobs[t].tail>> \in Where(jobs, thr, c, K) <=>
                Peek(jobs[t]).c = c /\ Peek(jobs[t]).kind \in K
<1> DEFINE l == jobs[t].tail
<1>1. l \in Index
  BY ThreadNow DEF GoodRing, Ring
<1>2. ASSUME NEW c \in Client, NEW K \in KindSets
      PROVE  Where(jobs, th2, c, K) = Where(jobs, thr, c, K) \ {<<t, l>>}
  <2>1. ASSUME NEW u \in Thread, NEW i \in Index
        PROVE  <<u, i>> \in Where(jobs, th2, c, K) <=>
                 (<<u, i>> \in Where(jobs, thr, c, K) /\ <<u, i>> # <<t, l>>)
    <3>1. CASE u # t
      BY <3>1 DEF Where
    <3>2. CASE u = t
      BY <3>2 DEF Where
    <3> QED BY <3>1, <3>2
  <2>2. Where(jobs, th2, c, K) \subseteq Thread \X Index /\ Where(jobs, thr, c, K) \subseteq Thread \X Index
    BY DEF Where
  <2> QED BY <2>1, <2>2
<1>3. ASSUME NEW c \in Client, NEW K \in KindSets
      PROVE  <<t, l>> \in Where(jobs, thr, c, K) <=> Peek(jobs[t]).c = c /\ Peek(jobs[t]).kind \in K
  BY <1>1 DEF Where, Peek
<1> QED BY <1>2, <1>3 DEF Finished

\* The client of a job that is not finished keeps its jobs.
LEMMA NotFinished ==
  ASSUME NEW x, NEW jb, NEW th, NEW th2, NEW p, NEW c \in Client, Finished(jb, th, th2, p),
         GoodJobs(x, jb, th, c), \A K \in KindSets : p \notin Where(jb, th, c, K)
  PROVE  GoodJobs(x, jb, th2, c)
<1>1. \A K \in KindSets : Where(jb, th2, c, K) = Where(jb, th, c, K)
  BY DEF Finished
<1>2. /\ Reading \in KindSets /\ Writing \in KindSets
      /\ {"read", "write"} \in KindSets /\ {"accept"} \in KindSets
  BY DEF KindSets
<1> QED BY <1>1, <1>2 DEF GoodJobs

LEMMA FinishRead ==
  ASSUME NEW x, NEW y, NEW jb, NEW th, NEW th2, NEW p, NEW c \in Client, Finished(jb, th, th2, p),
         GoodJobs(x, jb, th, c), p \in Where(jb, th, c, Reading), p \notin Where(jb, th, c, Writing),
         y.read # "pending", y.write = x.write, y.cur_tid = x.cur_tid, y.conn = x.conn
  PROVE  GoodJobs(y, jb, th2, c) /\ x.read = "pending"
<1>1. /\ Where(jb, th2, c, Reading) = Where(jb, th, c, Reading) \ {p}
      /\ Where(jb, th2, c, Writing) = Where(jb, th, c, Writing) \ {p}
      /\ Where(jb, th2, c, {"accept"}) = Where(jb, th, c, {"accept"}) \ {p}
      /\ Where(jb, th2, c, {"read", "write"}) = Where(jb, th, c, {"read", "write"}) \ {p}
  BY DEF Finished, KindSets
<1>2. x.read = "pending" /\ \E z : Where(jb, th, c, Reading) = {z}
  BY DEF GoodJobs, Exactly
<1>3. Where(jb, th2, c, Reading) = {} /\ Where(jb, th2, c, Writing) = Where(jb, th, c, Writing)
  BY <1>1, <1>2
<1>4. Where(jb, th2, c, {"accept"}) = {}
  BY <1>3, WhereSplit
<1>5. \A z \in Where(jb, th2, c, {"read", "write"}) : z[1] = y.cur_tid
  BY <1>1 DEF GoodJobs
<1>6. /\ Exactly(Where(jb, th2, c, Reading), y.read = "pending")
      /\ Exactly(Where(jb, th2, c, Writing), y.write = "pending")
  BY <1>3 DEF Exactly, GoodJobs
<1> QED BY <1>2, <1>4, <1>5, <1>6 DEF GoodJobs

LEMMA FinishWrite ==
  ASSUME NEW x, NEW y, NEW jb, NEW th, NEW th2, NEW p, NEW c \in Client, Finished(jb, th, th2, p),
         GoodJobs(x, jb, th, c), p \in Where(jb, th, c, Writing), p \notin Where(jb, th, c, Reading),
         y.write # "pending", y.read = x.read, y.cur_tid = x.cur_tid, y.conn = x.conn
  PROVE  GoodJobs(y, jb, th2, c) /\ x.write = "pending"
<1>1. /\ Where(jb, th2, c, Reading) = Where(jb, th, c, Reading) \ {p}
      /\ Where(jb, th2, c, Writing) = Where(jb, th, c, Writing) \ {p}
      /\ Where(jb, th2, c, {"accept"}) = Where(jb, th, c, {"accept"}) \ {p}
      /\ Where(jb, th2, c, {"read", "write"}) = Where(jb, th, c, {"read", "write"}) \ {p}
  BY DEF Finished, KindSets
<1>2. x.write = "pending" /\ \E z : Where(jb, th, c, Writing) = {z}
  BY DEF GoodJobs, Exactly
<1>3. Where(jb, th2, c, Writing) = {} /\ Where(jb, th2, c, Reading) = Where(jb, th, c, Reading)
  BY <1>1, <1>2
<1>4. Where(jb, th2, c, {"accept"}) # {} => y.conn = "accepting"
  BY <1>1 DEF GoodJobs
<1>5. \A z \in Where(jb, th2, c, {"read", "write"}) : z[1] = y.cur_tid
  BY <1>1 DEF GoodJobs
<1>6. /\ Exactly(Where(jb, th2, c, Reading), y.read = "pending")
      /\ Exactly(Where(jb, th2, c, Writing), y.write = "pending")
  BY <1>3 DEF Exactly, GoodJobs
<1> QED BY <1>2, <1>4, <1>5, <1>6 DEF GoodJobs

LEMMA KeepHandle ==
  ASSUME IOInv, NEW t \in Thread, Handle(t)
  PROVE  IOInv'
<1> DEFINE j == Peek(jobs[t])
           p == <<t, jobs[t].tail>>
           s == [thr[t] EXCEPT !.pc = "remove"]
<1>1. /\ thr[t].pc = "handle" /\ thr' = [thr EXCEPT ![t] = s]
      /\ poll' = IF j.kind = "poll" THEN "done" ELSE poll
      /\ UNCHANGED <<jobs, active, num, mutex, main>>
      /\ cl' = CASE j.kind \in {"read", "accept"} -> [cl EXCEPT ![j.c].read = "completed"]
                 [] j.kind = "write"              -> [cl EXCEPT ![j.c].write = "completed"]
                 [] OTHER                         -> cl
  BY DEF Handle, ThreadOnly
<1>2. /\ thr[t] \in ThrRec /\ thr[t].left >= 1 /\ thr[t].left \in Int /\ thr[t].left <= AvailableJobs(jobs[t])
      /\ GoodRing(jobs[t]) /\ AvailableJobs(jobs[t]) \in Int /\ GoodThread(jobs[t], thr[t], t, active)
  BY <1>1, ThreadNow DEF GoodThread
<1>3. ~IsEmpty(jobs[t])
  BY <1>2, RingBounds
<1>4. j \in Job /\ j.kind # "none"
  <2>1. jobs[t].tail \in Index /\ jobs[t].buf[jobs[t].tail] # NoJob /\ jobs[t].buf \in [Index -> Job]
    BY <1>2, <1>3, RemoveRing DEF GoodRing, Ring
  <2> QED BY <2>1, JobKinds DEF Peek
<1>5. s \in ThrRec /\ s.pc = "remove" /\ s.left = thr[t].left
  BY <1>2 DEF ThrRec
<1> HIDE DEF s
<1>6. thr \in [Thread -> ThrRec] /\ cl \in [Client -> ClientState] /\ jobs \in [Thread -> Ring]
  BY Now DEF Scalars
<1>7. thr' \in [Thread -> ThrRec] /\ thr'[t] = s /\ \A u \in Thread : u # t => thr'[u] = thr[u]
  BY <1>1, <1>5, <1>6
<1>8. /\ Finished(jobs, thr, thr', p)
      /\ \A c \in Client : \A K \in KindSets :
           p \in Where(jobs, thr, c, K) <=> j.c = c /\ j.kind \in K
  BY <1>1, <1>5, <1>7, FinishWhere
<1>9. Scalars'
  BY <1>1, <1>7, Now DEF Scalars
<1>10. GoodRings(jobs, thr', active)
  <2>1. \A u \in Thread : GoodThread(jobs[u], thr[u], u, active)
    BY Now DEF OK, Good, GoodRings
  <2>2. GoodThread(jobs[t], thr'[t], t, active)
    BY <1>2, <1>5, <1>7 DEF GoodThread
  <2> QED BY <1>6, <1>7, <2>1, <2>2 DEF GoodRings
<1> HIDE DEF j, p
<1>11. \A c \in Client : GoodFields(cl[c]) /\ GoodJobs(cl[c], jobs, thr, c) /\ cl[c] \in ClientState
  BY <1>6, Now DEF OK, Good, GoodClients
\* The clients afterwards, and that none that is settled has changed.
<1> DEFINE After2 == /\ cl' \in [Client -> ClientState]
                     /\ \A c \in Client : /\ GoodFields(cl'[c]) /\ GoodJobs(cl'[c], jobs, thr', c)
                                          /\ cl[c].read = "idle" /\ cl[c].write = "idle" => cl'[c] = cl[c]
<1>12. ASSUME NEW c \in Client, j.c # c \/ j.kind \in {"free", "poll"}
       PROVE  GoodJobs(cl[c], jobs, thr', c)
  <2>1. \A K \in KindSets : p \notin Where(jobs, thr, c, K)
    BY <1>8, <1>12 DEF KindSets, Reading, Writing
  <2> QED BY <1>8, <1>11, <2>1, NotFinished
<1>13. ASSUME j.kind \in {"read", "accept"} PROVE After2
  <2>1. j.c \in Client
    BY <1>4, <1>13 DEF Job, NoJob
  <2> DEFINE d == j.c
             x == cl[d]
             y == [x EXCEPT !.read = "completed"]
  <2>2. cl' = [cl EXCEPT ![d] = y]
    BY <1>1, <1>13
  <2>3. /\ y \in ClientState /\ y.out = x.out /\ y.last = x.last /\ y.conn = x.conn /\ y.read = "completed"
        /\ y.write = x.write /\ y.cur_tid = x.cur_tid
    BY <1>11, <2>1 DEF ClientState, IOState
  <2> HIDE DEF y
  <2>4. p \in Where(jobs, thr, d, Reading) /\ p \notin Where(jobs, thr, d, Writing)
    BY <1>8, <1>13, <2>1 DEF KindSets, Reading, Writing
  <2>5. GoodJobs(y, jobs, thr', d) /\ x.read = "pending"
    BY <1>8, <1>11, <2>1, <2>3, <2>4, FinishRead
  <2>6. GoodFields(y)
    BY <1>11, <2>1, <2>3 DEF GoodFields
  <2>7. cl'[d] = y /\ cl' \in [Client -> ClientState] /\ \A c \in Client : c # d => cl'[c] = cl[c]
    BY <1>6, <2>1, <2>2, <2>3
  <2> QED BY <1>11, <1>12, <2>5, <2>6, <2>7
<1>14. ASSUME j.kind = "write" PROVE After2
  <2>1. j.c \in Client
    BY <1>4, <1>14 DEF Job, NoJob
  <2> DEFINE d == j.c
             x == cl[d]
             y == [x EXCEPT !.write = "completed"]
  <2>2. cl' = [cl EXCEPT ![d] = y]
    BY <1>1, <1>14
  <2>3. /\ y \in ClientState /\ y.out = x.out /\ y.last = x.last /\ y.conn = x.conn /\ y.write = "completed"
        /\ y.read = x.read /\ y.cur_tid = x.cur_tid
    BY <1>11, <2>1 DEF ClientState, IOState
  <2> HIDE DEF y
  <2>4. p \in Where(jobs, thr, d, Writing) /\ p \notin Where(jobs, thr, d, Reading)
    BY <1>8, <1>14, <2>1 DEF KindSets, Reading, Writing
  <2>5. GoodJobs(y, jobs, thr', d) /\ x.write = "pending"
    BY <1>8, <1>11, <2>1, <2>3, <2>4, FinishWrite
  <2>6. GoodFields(y)
    BY <1>11, <2>1, <2>3, <2>5 DEF GoodFields
  <2>7. cl'[d] = y /\ cl' \in [Client -> ClientState] /\ \A c \in Client : c # d => cl'[c] = cl[c]
    BY <1>6, <2>1, <2>2, <2>3
  <2> QED BY <1>11, <1>12, <2>5, <2>6, <2>7
<1>15. ASSUME j.kind \notin {"read", "accept", "write"} PROVE After2
  <2>1. j.kind \in {"free", "poll"}
    BY <1>4, <1>15 DEF Job, NoJob
  <2>2. cl' = cl
    BY <1>1, <2>1
  <2> QED BY <1>6, <1>11, <1>12, <2>1, <2>2
<1>16. After2
  BY <1>13, <1>14, <1>15
<1>17. Good(State, thr, active)'
  <2>1. State' \in StateRec /\ State'.cl = cl' /\ State'.jobs = jobs'
    BY <1>1, <1>6, <1>16 DEF State, StateRec
  <2>2. GoodClients(cl', jobs, thr')
    BY <1>16 DEF GoodClients
  <2>3. GoodRings(jobs', thr', active') /\ GoodClients(cl', jobs', thr')
    BY <1>1, <1>10, <2>2
  <2> QED BY <2>1, <2>3 DEF Good
<1>18. Last' = Last
  <2>1. Started' = Started
    BY <1>1, <1>5, <1>7 DEF Started
  <2> QED BY <2>1 DEF Last
<1>19. MainOK(main, State, active, num, mutex, Last)'
  <2>1. MainOK(main, State, active, num, mutex, Last)
    BY DEF IOInv
  <2>2. State'.cl = cl' /\ State'.jobs = jobs /\ State.cl = cl /\ State.jobs = jobs
    BY <1>1 DEF State
  <2>3. MainOK(main, State', active, num, mutex, Last)
    BY <1>16, <2>1, <2>2 DEF MainOK
  <2> QED BY <1>1, <1>18, <2>3
<1> QED BY <1>9, <1>17, <1>19 DEF IOInv

LEMMA KeepRemove ==
  ASSUME IOInv, NEW t \in Thread, Remove(t)
  PROVE  IOInv'
<1> DEFINE jq == jobs[t]
           r  == RemoveJob(jq)
           s  == [pc |-> IF thr[t].left = 1 THEN "top" ELSE "handle", left |-> thr[t].left - 1]
<1>1. /\ thr[t].pc = "remove" /\ thr' = [thr EXCEPT ![t] = s] /\ jobs' = [jobs EXCEPT ![t] = r]
      /\ UNCHANGED <<cl, active, num, mutex, poll, main>>
  BY DEF Remove, ThreadOnly
<1>2. /\ thr[t] \in ThrRec /\ thr[t].left >= 1 /\ thr[t].left \in Int /\ thr[t].left <= AvailableJobs(jq)
      /\ GoodRing(jq) /\ AvailableJobs(jq) \in Int /\ GoodThread(jq, thr[t], t, active)
  BY <1>1, ThreadNow DEF GoodThread
<1>3. ~IsEmpty(jq)
  BY <1>2, RingBounds
<1>4. /\ GoodRing(r) /\ r.buf = [jq.buf EXCEPT ![jq.tail] = NoJob] /\ jq.tail \in Index
      /\ AvailableJobs(r) = AvailableJobs(jq) - 1 /\ jq.buf \in [Index -> Job] /\ r \in Ring
  BY <1>2, <1>3, RemoveRing DEF GoodRing, Ring
<1>5. /\ s \in ThrRec /\ s.pc \in {"top", "handle"} /\ s.left = thr[t].left - 1
      /\ s.pc = "handle" => thr[t].left # 1
  BY <1>2, QueueAssumption DEF ThrRec
<1> HIDE DEF r, s
<1>6. thr \in [Thread -> ThrRec] /\ cl \in [Client -> ClientState] /\ jobs \in [Thread -> Ring]
  BY Now DEF Scalars
<1>7. thr' \in [Thread -> ThrRec] /\ thr'[t] = s /\ \A u \in Thread : u # t => thr'[u] = thr[u]
  BY <1>1, <1>5, <1>6
<1>8. jobs' \in [Thread -> Ring] /\ jobs'[t] = r /\ \A u \in Thread : u # t => jobs'[u] = jobs[u]
  BY <1>1, <1>4, <1>6
<1>9. Scalars'
  BY <1>1, <1>7, Now DEF Scalars
<1>10. GoodRings(jobs', thr', active)
  <2>1. \A u \in Thread : GoodThread(jobs[u], thr[u], u, active)
    BY Now DEF OK, Good, GoodRings
  <2>2. GoodThread(r, s, t, active)
    BY <1>2, <1>3, <1>4, <1>5 DEF GoodThread
  <2> QED BY <1>7, <1>8, <2>1, <2>2 DEF GoodRings
<1>11. ASSUME NEW c \in Client, NEW K \in KindSets PROVE Where(jobs', thr', c, K) = Where(jobs, thr, c, K)
  <2>1. "none" \notin K /\ NoJob.kind = "none"
    BY DEF KindSets, Reading, Writing, NoJob
  <2>2. ASSUME NEW u \in Thread, NEW i \in Index
        PROVE  <<u, i>> \in Where(jobs', thr', c, K) <=> <<u, i>> \in Where(jobs, thr, c, K)
    <3>1. CASE u # t
      BY <1>7, <1>8, <3>1 DEF Where
    <3>2. CASE u = t /\ i # jq.tail
      BY <1>1, <1>4, <1>5, <1>7, <1>8, <3>2 DEF Where
    <3>3. CASE u = t /\ i = jq.tail
      BY <1>1, <1>4, <1>7, <1>8, <2>1, <3>3 DEF Where
    <3> QED BY <3>1, <3>2, <3>3
  <2>3. Where(jobs', thr', c, K) \subseteq Thread \X Index /\ Where(jobs, thr, c, K) \subseteq Thread \X Index
    BY DEF Where
  <2> QED BY <2>2, <2>3
<1>12. GoodClients(cl, jobs', thr')
  <2>1. GoodClients(cl, jobs, thr)
    BY Now DEF OK, Good
  <2>2. /\ Reading \in KindSets /\ Writing \in KindSets
        /\ {"read", "write"} \in KindSets /\ {"accept"} \in KindSets
    BY DEF KindSets
  <2>3. ASSUME NEW c \in Client, GoodJobs(cl[c], jobs, thr, c) PROVE GoodJobs(cl[c], jobs', thr', c)
    BY <1>11, <2>2, <2>3 DEF GoodJobs
  <2> QED BY <2>1, <2>3 DEF GoodClients
<1>13. Good(State, thr, active)'
  <2>1. State' \in StateRec /\ State'.cl = cl /\ State'.jobs = jobs'
    BY <1>1, <1>6, <1>8 DEF State, StateRec
  <2> QED BY <1>1, <1>10, <1>12, <2>1 DEF Good
<1>14. Last' = Last
  <2>1. Started' = Started
    BY <1>1, <1>5, <1>7 DEF Started
  <2> QED BY <2>1 DEF Last
<1>15. MainOK(main, State, active, num, mutex, Last)'
  <2>1. MainOK(main, State, active, num, mutex, Last)
    BY DEF IOInv
  <2>2. State'.cl = cl /\ State'.jobs = jobs' /\ State.cl = cl /\ State.jobs = jobs
    BY <1>1 DEF State
  <2>3. main.sub \notin {"lock", "unblock", "shutdown", "join"}
    BY <1>3, EmptyNow DEF AllEmpty
  <2>4. MainOK(main, State', active, num, mutex, Last)
    BY <2>1, <2>2, <2>3 DEF MainOK
  <2> QED BY <1>1, <1>14, <2>4
<1> QED BY <1>9, <1>13, <1>15 DEF IOInv

-----------------------------------------------------------------------------
(* The theorems.                                                           *)

LEMMA InitIO == Init => IOInv
<1> SUFFICES ASSUME Init PROVE IOInv
  OBVIOUS
<1>1. /\ cl = [c \in Client |-> NoClient] /\ jobs = [t \in Thread |-> EmptyRing]
      /\ active = 1 /\ num = InitNum /\ poll = "none" /\ main = In("events", {})
      /\ thr = [t \in Thread |-> [pc |-> IF t < InitNum THEN "top" ELSE "off", left |-> 0]]
      /\ mutex = [t \in Thread |-> IF t < InitNum THEN "main" ELSE "free"]
  BY DEF Init
<1>2. NoClient \in ClientState /\ GoodFields(NoClient)
  BY BoundAssumption, ThreadsAssumption DEF NoClient, ClientState, IOState, GoodFields
<1>3. /\ thr \in [Thread -> ThrRec]
      /\ \A t \in Thread : thr[t].left = 0 /\ thr[t].pc \notin {"handle", "remove"}
  BY <1>1, QueueAssumption DEF ThrRec
<1>4. Scalars
  BY <1>1, <1>3, ThreadsAssumption DEF Scalars
<1>5. /\ jobs \in [Thread -> Ring] /\ AllEmpty(jobs) /\ \A t \in Thread : GoodRing(jobs[t])
  BY <1>1, EmptyRingOK DEF AllEmpty, GoodRing
<1>6. State \in StateRec /\ State.cl = cl /\ State.jobs = jobs
  BY <1>1, <1>2, <1>5 DEF State, StateRec
<1>7. GoodRings(jobs, thr, active)
  <2>1. ASSUME NEW t \in Thread PROVE GoodThread(jobs[t], thr[t], t, active)
    <3>1. GoodRing(jobs[t]) /\ IsEmpty(jobs[t])
      BY <1>5 DEF AllEmpty
    <3>2. AvailableJobs(jobs[t]) = 0
      BY <3>1, RingBounds
    <3> QED BY <1>3, <3>1, <3>2 DEF GoodThread
  <2> QED BY <1>5, <2>1 DEF GoodRings
<1>8. ASSUME NEW c \in Client PROVE GoodFields(cl[c]) /\ GoodJobs(cl[c], jobs, thr, c)
  <2>1. cl[c] = NoClient
    BY <1>1
  <2>2. \A t \in Thread : \A i \in Index : jobs[t].buf[i].kind = "none"
    BY <1>1 DEF EmptyRing, NoJob
  <2>3. \A K \in KindSets : Where(jobs, thr, c, K) = {}
    BY <2>2 DEF Where, KindSets, Reading, Writing
  <2>4. /\ Reading \in KindSets /\ Writing \in KindSets
        /\ {"read", "write"} \in KindSets /\ {"accept"} \in KindSets
    BY DEF KindSets
  <2>5. NoClient.read = "idle" /\ NoClient.write = "idle"
    BY DEF NoClient
  <2> QED BY <1>2, <2>1, <2>3, <2>4, <2>5 DEF GoodJobs, Exactly
<1>9. Good(State, thr, active)
  BY <1>6, <1>7, <1>8 DEF Good, GoodClients
<1>10. main \in MainType /\ main.sub = "none"
  BY <1>1, InType DEF Phase
<1>11. MainOK(main, State, active, num, mutex, Last)
  BY <1>1, <1>10, NoneBelowOne DEF MainOK, Resizing
<1> QED BY <1>4, <1>9, <1>11 DEF IOInv

LEMMA NextIO == IOInv /\ [Next]_vars => IOInv'
<1> SUFFICES ASSUME IOInv, [Next]_vars PROVE IOInv'
  OBVIOUS
<1>1. ASSUME NEW c \in Client, ServeClient(c) PROVE IOInv'
  <2>1. ASSUME NEW n \in 1..MaxThreads, ReadResize(c, n) PROVE IOInv'
    BY <2>1, KeepReadResize
  <2> QED BY <1>1, <2>1, KeepSkipRead, KeepReadDone, KeepPendingWrite, KeepWriteDone, KeepFreeQueued
          DEF ServeClient
<1>2. ASSUME NEW c \in Client, Event(c) PROVE IOInv'
  <2>1. ASSUME NEW n \in 1..MaxThreads, ReadableResize(c, n) PROVE IOInv'
    BY <2>1, KeepReadableResize
  <2> QED BY <1>2, <2>1, KeepAccept, KeepReadable, KeepWritable, KeepCloseAsync DEF Event
<1>3. CASE Loop
  <2>1. ASSUME NEW n \in 1..num, AdjustForWrites(n) \/ Sleep(n) PROVE IOInv'
    BY <2>1, KeepAdjustForWrites, KeepSleep
  <2> QED BY <1>3, <2>1, KeepBeforeSleep, KeepActivate, KeepDeactivate, KeepAdjusted DEF Loop
<1>4. CASE Update
  BY <1>4, KeepResizeNothing, KeepDrained, KeepLockActive, KeepCreateThreads, KeepBeginShrink,
     KeepUnblock, KeepShutdown, KeepJoined, KeepResized DEF Update
<1>5. ASSUME NEW t \in Thread, IOThreadMain(t) PROVE IOInv'
  BY <1>5, KeepCancelled, KeepTakeJobs, KeepGiveUp, KeepPass, KeepHandle, KeepRemove DEF IOThreadMain
<1>6. CASE UNCHANGED vars
  <2>1. Scalars' /\ State' = State /\ Last' = Last
    BY <1>6, Now DEF vars, Scalars, State, Last, Started
  <2>2. Good(State', thr', active') /\ MainOK(main', State', active', num', mutex', Last')
    BY <1>6, <2>1 DEF IOInv, vars
  <2> QED BY <2>1, <2>2 DEF IOInv
<1> QED BY <1>1, <1>2, <1>3, <1>4, <1>5, <1>6 DEF Next, Main

\* IOInv is an invariant.
LEMMA AlwaysIO == Spec => []IOInv
BY InitIO, NextIO, PTL DEF Spec

\* Type correctness.
THEOREM TypesAreKept == Spec => []TypeOK
<1>1. IOInv => TypeOK
  BY Now DEF TypeOK, Scalars, ThrRec, Ring
<1> QED BY <1>1, AlwaysIO, PTL

\* The assertions of IOJobQueue_push hold: the slot at the head is free, availableJobs
\* counts the filled slots, and no thread goes through more jobs than there are.
THEOREM RingsAreSound == Spec => []RingOK
<1>1. ASSUME IOInv PROVE RingOK
  <2>1. ASSUME NEW t \in Thread
        PROVE  /\ jobs[t].buf[jobs[t].head] = NoJob
               /\ Cardinality({i \in Index : jobs[t].buf[i] # NoJob}) = AvailableJobs(jobs[t])
               /\ thr[t].left <= AvailableJobs(jobs[t])
    BY <1>1, ThreadNow, RingBounds, RingCount DEF GoodThread
  <2> QED BY <2>1 DEF RingOK
<1> QED BY <1>1, AlwaysIO, PTL

LEMMA UnfinishedIsWhere ==
  ASSUME NEW c, NEW K
  PROVE  Unfinished(c, K) = Where(jobs, thr, c, K)
BY Zenon DEF Unfinished, Where

\* A direction of a client is pending exactly while one job has still to finish: what
\* waitForClientIO waits for is every thread that may touch the client.
THEOREM JobsMatchClients == Spec => []JobMatchesState
<1>1. ASSUME IOInv PROVE JobMatchesState
  <2>1. ASSUME NEW W, NEW b, Exactly(W, b) PROVE Cardinality(W) = IF b THEN 1 ELSE 0
    BY <2>1, FS_EmptySet, FS_Singleton DEF Exactly
  <2>2. ASSUME NEW c \in Client
        PROVE  /\ Cardinality(Unfinished(c, {"read", "accept"})) = (IF cl[c].read = "pending" THEN 1 ELSE 0)
               /\ Cardinality(Unfinished(c, {"write"})) = (IF cl[c].write = "pending" THEN 1 ELSE 0)
    <3>1. GoodJobs(cl[c], jobs, thr, c)
      BY <1>1, Now DEF OK, Good, GoodClients
    <3>2. /\ Exactly(Unfinished(c, {"read", "accept"}), cl[c].read = "pending")
          /\ Exactly(Unfinished(c, {"write"}), cl[c].write = "pending")
      BY <3>1, UnfinishedIsWhere, Zenon DEF GoodJobs, Reading, Writing
    <3> QED BY <2>1, <3>2
  <2> QED BY <2>2 DEF JobMatchesState
<1> QED BY <1>1, AlwaysIO, PTL

\* The read and the write of one client are never on two threads.
THEOREM ClientsHaveOneThread == Spec => []OneThreadPerClient
<1>1. ASSUME IOInv PROVE OneThreadPerClient
  <2> SUFFICES ASSUME NEW c \in Client,
                      NEW a \in Unfinished(c, {"read", "write", "accept"}),
                      NEW b \in Unfinished(c, {"read", "write", "accept"})
               PROVE  a[1] = b[1]
    BY DEF OneThreadPerClient
  <2> DEFINE RW == Where(jobs, thr, c, {"read", "write"})
             A  == Where(jobs, thr, c, {"accept"})
  <2>1. GoodFields(cl[c]) /\ GoodJobs(cl[c], jobs, thr, c)
    BY <1>1, Now DEF OK, Good, GoodClients
  <2>2. a \in RW \cup A /\ b \in RW \cup A
    BY UnfinishedIsWhere DEF Where
  <2>3. CASE A = {}
    BY <2>1, <2>2, <2>3 DEF GoodJobs
  <2>4. CASE A # {}
    <3>1. cl[c].write # "pending"
      BY <2>1, <2>4 DEF GoodJobs, GoodFields
    <3>2. Where(jobs, thr, c, Writing) = {}
      BY <2>1, <3>1, NoFlight
    <3>3. a \in Where(jobs, thr, c, Reading) /\ b \in Where(jobs, thr, c, Reading)
      BY <2>2, <3>2, WhereSplit
    <3>4. a = b
      BY <2>1, <3>3 DEF GoodJobs, Exactly
    <3> QED BY <3>4
  <2> QED BY <2>3, <2>4
<1> QED BY <1>1, AlwaysIO, PTL

\* No job waits at a parked or inactive thread, and none is being handled when
\* updateIOThreads stops its thread.
THEOREM JobsAreAtActiveThreads == Spec => []JobsOnActiveThreads
<1>1. ASSUME IOInv PROVE JobsOnActiveThreads
  <2> SUFFICES ASSUME NEW t \in Thread
               PROVE  /\ ~IsEmpty(jobs[t]) => t < active /\ mutex[t] # "main"
                      /\ thr[t].pc \in {"handle", "remove"} =>
                           /\ ~IsEmpty(jobs[t])
                           /\ ~(main.sub \in {"unblock", "shutdown", "join"} /\ t >= num)
    BY DEF JobsOnActiveThreads
  <2>1. ~IsEmpty(jobs[t]) => main.sub \notin {"lock", "unblock", "shutdown", "join"}
    BY <1>1, EmptyNow DEF AllEmpty
  <2>2. ~IsEmpty(jobs[t]) => t < active
    BY <1>1, ThreadNow DEF GoodThread
  <2>3. t < active /\ mutex[t] = "main" => main.sub = "lock"
    BY <1>1 DEF IOInv, MainOK
  <2>4. thr[t].pc \in {"handle", "remove"} => ~IsEmpty(jobs[t])
    BY <1>1, ThreadNow, RingBounds DEF GoodThread
  <2> QED BY <2>1, <2>2, <2>3, <2>4
<1> QED BY <1>1, AlwaysIO, PTL

-----------------------------------------------------------------------------
(* Replies are scheduled.                                                  *)

\* A client with replies that is not being written is in clients_pending_write or
\* has its write handler, even while a thread reads for it.
Sched(x) == x.out > 0 /\ ~x.close_asap /\ x.write = "idle" => x.listed \/ x.handler

SchedAll(st) == \A c \in Client : Sched(st.cl[c])

\* The other clients keep their values.
Others(st, U, c) == \A d \in Client : d # c => U.cl[d] = st.cl[d]

\* Client c aside, all is well.
SchedBut(st, c) == \A d \in Client : d # c => Sched(st.cl[d])

LEMMA SchedStep ==
  ASSUME NEW st, NEW U, NEW c \in Client, SchedAll(st), Others(st, U, c), Sched(U.cl[c])
  PROVE  SchedAll(U)
BY DEF SchedAll, Others

\* prepareClientToWrite lists a client whose buffer was empty.
LEMMA SchedAddReply ==
  ASSUME NEW st, OK(st), NEW c \in Client, st.cl[c].out < MaxOut, SchedAll(st)
  PROVE  SchedAll(AddReply(st, c))
<1> DEFINE x == st.cl[c]
           U == AddReply(st, c)
<1>0. /\ st \in StateRec /\ x \in ClientState /\ x.out \in 0..MaxOut /\ MaxOut \in Nat /\ Sched(x)
  BY Parts DEF SchedAll
<1>1. CASE x.close_asap \/ x.conn # "open"
  BY <1>1 DEF AddReply
<1>2. CASE ~(x.close_asap \/ x.conn # "open")
  <2> DEFINE l == x.listed \/ (x.out = 0 /\ x.write = "idle")
             y == [x EXCEPT !.out = x.out + 1, !.listed = l]
  <2>1. U = [st EXCEPT !.cl = [st.cl EXCEPT ![c] = y]]
    BY <1>0, <1>2 DEF AddReply, StateRec
  <2>2. /\ y.out = x.out + 1 /\ y.write = x.write
    BY <1>0 DEF ClientState
  <2>3. (y.listed <=> l) /\ (y.handler <=> x.handler) /\ (y.close_asap <=> x.close_asap)
    BY <1>0 DEF ClientState
  <2> HIDE DEF y
  <2>4. Sched(y)
    BY <1>0, <1>2, <2>2, <2>3 DEF Sched
  <2>5. U.cl[c] = y /\ Others(st, U, c)
    BY <1>0, <2>1 DEF StateRec, Others
  <2> HIDE DEF U
  <2>6. SchedAll(U)
    BY <2>4, <2>5, SchedStep
  <2> QED BY <2>6 DEF U
<1> QED BY <1>1, <1>2

LEMMA SchedFree ==
  ASSUME NEW st, OK(st), NEW c \in Client, ~Busy(st.cl[c]), SchedAll(st)
  PROVE  SchedAll(FreeClient(st, c))
<1>1. OnlyClient(st, FreeClient(st, c), c) /\ FreeClient(st, c).cl[c] = NoClient
  BY FreeOK
<1>2. Sched(NoClient)
  BY DEF Sched, NoClient
<1>3. Others(st, FreeClient(st, c), c)
  BY <1>1 DEF OnlyClient, Others
<1> QED BY <1>1, <1>2, <1>3, SchedStep

LEMMA SchedAsync ==
  ASSUME NEW st, OK(st), NEW c \in Client, SchedAll(st)
  PROVE  SchedAll(FreeClientAsync(st, c))
<1>0. st \in StateRec /\ st.cl[c] \in ClientState
  BY Parts
<1>1. OnlyClient(st, FreeClientAsync(st, c), c)
  BY AsyncOK
<1>2. FreeClientAsync(st, c).cl[c].close_asap
  BY <1>0 DEF FreeClientAsync, StateRec, ClientState
<1>3. Others(st, FreeClientAsync(st, c), c) /\ Sched(FreeClientAsync(st, c).cl[c])
  BY <1>1, <1>2 DEF OnlyClient, Others, Sched
<1> QED BY <1>3, SchedStep

\* A client that is sent to a thread for writing is not idle.
LEMMA SchedSendWrite ==
  ASSUME NEW st, OK(st), NEW c \in Client, SchedBut(st, c)
  PROVE  SchedAll(SendWrite(st, c))
<1> DEFINE U == SendWrite(st, c)
<1>0. st \in StateRec /\ st.cl[c] \in ClientState
  BY Parts
<1>1. U.cl[c].write = "pending"
  BY <1>0 DEF SendWrite, StateRec, ClientState
<1>2. Others(st, U, c)
  BY <1>0 DEF SendWrite, StateRec, Others
<1> HIDE DEF U
<1>3. SchedAll(U)
  BY <1>1, <1>2 DEF SchedAll, Sched, Others, SchedBut
<1> QED BY <1>3 DEF U

LEMMA SchedSendRead ==
  ASSUME NEW st, OK(st), NEW c \in Client, SchedAll(st)
  PROVE  SchedAll(SendRead(st, c))
<1> DEFINE U == SendRead(st, c)
           x == st.cl[c]
           y == U.cl[c]
<1>0. st \in StateRec /\ x \in ClientState /\ Sched(x)
  BY Parts DEF SchedAll
<1>1. y.out = x.out /\ y.write = x.write
  BY <1>0 DEF SendRead, StateRec, ClientState
<1>2. (y.listed = x.listed) /\ (y.handler = x.handler) /\ (y.close_asap = x.close_asap)
  BY <1>0 DEF SendRead, StateRec, ClientState
<1>3. Others(st, U, c)
  BY <1>0 DEF SendRead, StateRec, Others
<1> HIDE DEF U
<1>4. Sched(y)
  BY <1>0, <1>1, <1>2 DEF Sched
<1>5. SchedAll(U)
  BY <1>3, <1>4, SchedStep
<1> QED BY <1>5 DEF U

LEMMA SchedBeforeNext ==
  ASSUME NEW st, OK(st), NEW c \in Client, Settled(st, c), SchedAll(st)
  PROVE  SchedAll(BeforeNextClient(st, c))
<1>1. ~Busy(st.cl[c])
  BY DEF Settled, Busy
<1>2. SchedAll(FreeClient(st, c))
  BY <1>1, SchedFree
<1>3. SchedAll(SendWrite(st, c))
  BY SchedSendWrite DEF SchedBut, SchedAll
<1> QED BY <1>2, <1>3 DEF BeforeNextClient, TrySendWrite

\* What postWriteToClient leaves of the fields of the client.
LEMMA PostWriteFields ==
  ASSUME NEW st, OK(st), NEW c \in Client, NEW n \in Nat, n <= st.cl[c].out, NEW r \in WriteResult(n)
  PROVE  LET x == st.cl[c]
             y == PostWrite(st, c, r).cl[c]
         IN  /\ y.out = x.out - r.n /\ y.out \in Nat
             /\ y.listed = x.listed
             /\ y.handler = (x.handler /\ y.out > 0)
             /\ y.close_asap = (x.close_asap \/ r.res = "errors")
<1> DEFINE x == st.cl[c]
           left == x.out - r.n
           ha == x.handler /\ left > 0
           cs == x.close_asap \/ r.res = "errors"
<1>0. st \in StateRec /\ x \in ClientState /\ x.out \in 0..MaxOut /\ MaxOut \in Nat
  BY Parts
<1>1. r.n \in Nat /\ r.n <= n
  BY DEF WriteResult
<1>2. left \in Nat
  BY <1>0, <1>1
<1>3. PostWrite(st, c, r) = [st EXCEPT !.cl[c].out = left, !.cl[c].last = 0, !.cl[c].handler = ha,
                                       !.cl[c].close_asap = cs]
  <2>1. ha = (x.handler /\ left > 0) /\ cs = (x.close_asap \/ r.res = "errors")
    OBVIOUS
  <2>2. left = x.out - r.n
    OBVIOUS
  <2> HIDE DEF ha, cs, left
  <2> QED BY <1>0, <2>1, <2>2 DEF PostWrite, StateRec, ClientState
<1> DEFINE y == PostWrite(st, c, r).cl[c]
<1>4. ha = (x.handler /\ left > 0) /\ cs = (x.close_asap \/ r.res = "errors") /\ left = x.out - r.n
  OBVIOUS
<1> HIDE DEF ha, cs, left
<1>5. y.out = left /\ y.listed = x.listed /\ y.handler = ha /\ y.close_asap = cs
  BY <1>0, <1>3 DEF StateRec, ClientState
<1> HIDE DEF y
<1> QED BY <1>2, <1>4, <1>5 DEF y

LEMMA SchedPostWrite ==
  ASSUME NEW st, OK(st), NEW c \in Client, NEW n \in Nat, n <= st.cl[c].out, NEW r \in WriteResult(n),
         SchedAll(st)
  PROVE  SchedAll(PostWrite(st, c, r))
<1> DEFINE U == PostWrite(st, c, r)
           x == st.cl[c]
           y == U.cl[c]
<1>1. OnlyClient(st, U, c) /\ y.write = x.write
  BY PostWriteOK
<1>2. /\ y.out = x.out - r.n /\ y.out \in Nat /\ y.listed = x.listed
      /\ y.handler = (x.handler /\ y.out > 0) /\ y.close_asap = (x.close_asap \/ r.res = "errors")
  BY PostWriteFields, Zenon
<1>3. x \in ClientState /\ Sched(x) /\ x.out \in 0..MaxOut /\ r.n \in Nat
  BY Parts DEF SchedAll, WriteResult
<1> HIDE DEF U
<1>4. y.out > 0 => x.out > 0
  BY <1>2, <1>3
<1>5. Sched(y)
  BY <1>1, <1>2, <1>3, <1>4 DEF Sched
<1>6. SchedAll(U)
  BY <1>1, <1>5, SchedStep DEF OnlyClient, Others
<1> QED BY <1>6 DEF U

\* c has replies and will have them.
HasReplies(st, c) == st.cl[c].out > 0 /\ ~st.cl[c].close_asap

LEMMA SchedHandler ==
  ASSUME NEW st, OK(st), NEW c \in Client, NEW b \in BOOLEAN, SchedBut(st, c), HasReplies(st, c) => b
  PROVE  SchedAll(WithHandler(st, c, b))
<1> DEFINE U == WithHandler(st, c, b)
           x == st.cl[c]
           y == U.cl[c]
<1>0. st \in StateRec /\ x \in ClientState
  BY Parts
<1>1. OnlyClient(st, U, c) /\ y.write = x.write
  BY HandlerIs
<1>2. y.handler = b /\ y.out = x.out /\ y.listed = x.listed /\ y.close_asap = x.close_asap
  BY <1>0 DEF WithHandler, StateRec, ClientState
<1> HIDE DEF U
<1>3. Sched(y)
  BY <1>0, <1>1, <1>2 DEF Sched, ClientState, HasReplies
<1>4. SchedAll(U)
  BY <1>1, <1>3 DEF SchedAll, SchedBut, OnlyClient
<1> QED BY <1>4 DEF U

LEMMA SchedListed ==
  ASSUME NEW st, OK(st), NEW c \in Client, SchedBut(st, c)
  PROVE  SchedAll(WithListed(st, c, TRUE))
<1> DEFINE b == TRUE
           U == WithListed(st, c, b)
           y == U.cl[c]
<1>0. st \in StateRec /\ st.cl[c] \in ClientState /\ b \in BOOLEAN
  BY Parts
<1>1. b
  OBVIOUS
<1> HIDE DEF b
<1>2. OnlyClient(st, U, c)
  BY <1>0, ListedIs
<1>3. y.listed = b
  BY <1>0 DEF WithListed, StateRec, ClientState
<1> HIDE DEF U
<1>4. Sched(y)
  BY <1>1, <1>3 DEF Sched
<1>5. SchedAll(U)
  BY <1>2, <1>4 DEF SchedAll, SchedBut, OnlyClient
<1> QED BY <1>5 DEF U, b

\* processClientIOWriteDone schedules what is left: the handler when the socket is
\* full, a new write or the pending list otherwise.
LEMMA SchedWriteDone ==
  ASSUME NEW st0, OK(st0), NEW c \in Client, st0.cl[c].write # "pending",
         NEW r \in WriteResult(st0.cl[c].last), NEW async, SchedAll(st0)
  PROVE  SchedAll(ProcessClientIOWriteDone(st0, c, r, async))
<1> DEFINE U == ProcessClientIOWriteDone(st0, c, r, async)
           st == WithWrite(st0, c, "idle")
           post == PostWrite(st, c, r)
<1>1. \/ st.cl[c].close_asap /\ U = st
      \/ (post.cl[c].close_asap \/ post.cl[c].out = 0) /\ U = post
      \/ U = WithHandler(post, c, TRUE)
      \/ U = WithListed(post, c, TRUE)
      \/ U = SendWrite(post, c)
  BY Zenon DEF ProcessClientIOWriteDone, WithWrite, WithHandler, WithListed
<1> HIDE DEF U
<1>2. /\ OK(st) /\ OnlyClient(st0, st, c) /\ st.cl[c].out = st0.cl[c].out
  BY WriteIdle
<1>3. /\ st0.cl[c].last \in 0..MaxOut /\ MaxOut \in Nat /\ GoodFields(st0.cl[c])
  BY Parts
<1>4. st0.cl[c].last \in Nat /\ st0.cl[c].last <= st.cl[c].out
  BY <1>2, <1>3 DEF GoodFields
<1> HIDE DEF st
<1>5. OK(post) /\ OnlyClient(st, post, c)
  BY <1>2, <1>4, PostWriteOK
<1> HIDE DEF post
<1>6. SchedBut(st, c) /\ SchedBut(post, c)
  BY <1>2, <1>5 DEF OnlyClient, SchedAll, SchedBut
<1>7. st.cl[c].close_asap => SchedAll(st)
  BY <1>6 DEF SchedAll, SchedBut, Sched
<1>8. post.cl[c].close_asap \/ post.cl[c].out = 0 => SchedAll(post)
  BY <1>6 DEF SchedAll, SchedBut, Sched
<1>9. SchedAll(WithHandler(post, c, TRUE))
  <2> DEFINE b == TRUE
  <2>1. b \in BOOLEAN /\ b
    OBVIOUS
  <2> HIDE DEF b
  <2>2. SchedAll(WithHandler(post, c, b))
    BY <1>5, <1>6, <2>1, SchedHandler
  <2> QED BY <2>2 DEF b
<1>10. SchedAll(WithListed(post, c, TRUE))
  BY <1>5, <1>6, SchedListed
<1>11. SchedAll(SendWrite(post, c))
  BY <1>5, <1>6, SchedSendWrite
<1>12. SchedAll(U)
  BY <1>1, <1>7, <1>8, <1>9, <1>10, <1>11
<1> QED BY <1>12 DEF U

LEMMA SchedReadIdle ==
  ASSUME NEW st, OK(st), NEW c \in Client, st.cl[c].read # "pending", SchedAll(st)
  PROVE  SchedAll(WithRead(st, c, "idle"))
<1> DEFINE U == WithRead(st, c, "idle")
           x == st.cl[c]
           y == U.cl[c]
<1>0. st \in StateRec /\ x \in ClientState /\ Sched(x)
  BY Parts DEF SchedAll
<1>1. OnlyClient(st, U, c) /\ y.write = x.write
  BY ReadIdle
<1>2. y.out = x.out /\ y.listed = x.listed /\ y.handler = x.handler /\ y.close_asap = x.close_asap
  BY <1>0 DEF WithRead, StateRec, ClientState
<1> HIDE DEF U
<1>3. Sched(y)
  BY <1>0, <1>1, <1>2 DEF Sched
<1>4. SchedAll(U)
  BY <1>1, <1>3, SchedStep DEF OnlyClient, Others
<1> QED BY <1>4 DEF U

LEMMA SchedReadTaken ==
  ASSUME OK(State), NEW c \in Client, ReadIsDone(c), NEW r \in WriteResult(cl[c].last), SchedAll(State)
  PROVE  SchedAll(ReadTaken(c, r))
<1> DEFINE D == ProcessClientIOWriteDone(State, c, r, FALSE)
           S == State
           st == IF cl[c].write = "completed" THEN D ELSE S
<1>1. S.cl = cl /\ S.jobs = jobs
  BY DEF State
<1>2. OK(D) /\ SchedAll(D) /\ D.cl[c].read = cl[c].read
  BY <1>1, WriteDoneOK, SchedWriteDone DEF ReadIsDone
<1> HIDE DEF D, S
<1>3. OK(st) /\ SchedAll(st) /\ st.cl[c].read # "pending"
  BY <1>1, <1>2 DEF ReadIsDone, S
<1>4. ReadTaken(c, r) = WithRead(st, c, "idle")
  BY Zenon DEF ReadTaken, WithRead, D, S
<1> HIDE DEF st
<1> QED BY <1>3, <1>4, SchedReadIdle

LEMMA SchedConn ==
  ASSUME NEW st, OK(st), NEW c \in Client, st.cl[c].read # "pending", st.cl[c].conn # "open",
         NEW v \in {"accepting", "open"}, SchedAll(st)
  PROVE  SchedAll(WithConn(st, c, v))
<1> DEFINE U == WithConn(st, c, v)
           x == st.cl[c]
           y == U.cl[c]
<1>0. st \in StateRec /\ x \in ClientState /\ GoodFields(x)
  BY Parts
<1>1. OnlyClient(st, U, c)
  BY ConnIs
<1>2. y.out = x.out /\ x.out = 0
  BY <1>0 DEF WithConn, StateRec, ClientState, GoodFields
<1> HIDE DEF U
<1>3. Sched(y)
  BY <1>2 DEF Sched
<1>4. SchedAll(U)
  BY <1>1, <1>3, SchedStep DEF OnlyClient, Others
<1> QED BY <1>4 DEF U

LEMMA SchedAccepted ==
  ASSUME NEW st, OK(st), NEW c \in Client, st.cl[c].read = "idle", st.cl[c].conn # "open",
         NEW U \in Accepted(st, c), SchedAll(st)
  PROVE  SchedAll(U)
<1>1. U = st \/ U = WithConn(st, c, "open") \/ U = FreeClientAsync(st, c)
  BY Zenon DEF Accepted, WithConn
<1>2. SchedAll(WithConn(st, c, "open"))
  BY SchedConn
<1>3. SchedAll(FreeClientAsync(st, c))
  BY SchedAsync
<1> QED BY <1>1, <1>2, <1>3

LEMMA SchedRunCommand ==
  ASSUME NEW st, OK(st), NEW c \in Client, Settled(st, c), NEW cmd \in Command, MayRun(st, c, cmd),
         SchedAll(st)
  PROVE  SchedAll(RunCommand(st, c, cmd))
<1> DEFINE A == AddReply(st, c)
           d == cmd.d
<1>0. d \in Client /\ cmd.op \in {"reply", "publish", "kill", "free"}
  BY DEF Command
<1>1. /\ st.cl[c].out \in 0..MaxOut /\ st.cl[d].out \in 0..MaxOut /\ MaxOut \in Nat
      /\ st.cl[c].out < MaxOut
  BY <1>0, Parts DEF MayRun
<1>2. OK(A) /\ OnlyClient(st, A, c) /\ A.cl[c].out <= st.cl[c].out + 1 /\ SchedAll(A)
  BY <1>1, AddReplyOK, SchedAddReply
<1> HIDE DEF A
<1>3. CASE cmd.op = "reply"
  BY <1>2, <1>3 DEF RunCommand, A
<1>4. CASE cmd.op = "publish"
  <2>1. RunCommand(st, c, cmd) = AddReply(A, d)
    BY <1>4 DEF RunCommand, A
  <2>2. A.cl[d].out < MaxOut
    <3>1. A.cl[c].out \in 0..MaxOut
      BY <1>2, Parts
    <3>2. CASE d = c
      <4>1. st.cl[c].out < MaxOut - 1
        BY <1>4, <3>2 DEF MayRun
      <4> QED BY <1>1, <1>2, <3>1, <3>2, <4>1
    <3>3. CASE d # c
      <4>1. st.cl[d].out < MaxOut - 0
        BY <1>4, <3>3 DEF MayRun
      <4> QED BY <1>0, <1>1, <1>2, <3>3, <4>1 DEF OnlyClient
    <3> QED BY <3>2, <3>3
  <2>3. SchedAll(AddReply(A, d))
    BY <1>0, <1>2, <2>2, SchedAddReply
  <2> QED BY <2>1, <2>3
<1>5. CASE cmd.op = "free"
  <2>1. RunCommand(st, c, cmd) = OffloadFree(A, c)
    BY <1>5 DEF RunCommand, A
  <2> QED BY <1>2, <2>1, OffloadFreeOK DEF SchedAll
<1>6. CASE cmd.op = "kill"
  <2> DEFINE F == IF d = c THEN st ELSE FreeClient(st, d)
  <2>1. RunCommand(st, c, cmd) = AddReply(F, c)
    BY <1>6 DEF RunCommand
  <2>2. ~Busy(st.cl[d])
    BY <1>6 DEF MayRun, MayFree
  <2>3. OK(FreeClient(st, d)) /\ OnlyClient(st, FreeClient(st, d), d) /\ SchedAll(FreeClient(st, d))
    BY <1>0, <2>2, FreeOK, SchedFree
  <2>4. OK(F) /\ F.cl[c] = st.cl[c] /\ SchedAll(F)
    BY <2>3 DEF OnlyClient
  <2> HIDE DEF F
  <2> QED BY <1>1, <2>1, <2>4, SchedAddReply
<1> QED BY <1>0, <1>3, <1>4, <1>5, <1>6

LEMMA SchedServed ==
  ASSUME NEW st, OK(st), NEW c \in Client, Settled(st, c), NEW offloaded, NEW U \in Served(st, c, offloaded),
         SchedAll(st)
  PROVE  SchedAll(U)
<1> DEFINE As == FreeClientAsync(st, c)
           Failed(s) == IF offloaded THEN s ELSE BeforeNextClient(s, c)
<1>1. \/ U = Failed(st) \/ U = BeforeNextClient(st, c) \/ U = Failed(As)
      \/ \E cmd \in Command : MayRun(st, c, cmd) /\ U = BeforeNextClient(RunCommand(st, c, cmd), c)
  BY Zenon DEF Served
<1>2. OK(As) /\ Settled(As, c) /\ SchedAll(As)
  BY AsyncOK, SchedAsync DEF Settled
<1> HIDE DEF As
<1>3. SchedAll(BeforeNextClient(st, c)) /\ SchedAll(BeforeNextClient(As, c))
  BY <1>2, SchedBeforeNext
<1>4. SchedAll(Failed(st)) /\ SchedAll(Failed(As))
  BY <1>2, <1>3
<1>5. ASSUME NEW cmd \in Command, MayRun(st, c, cmd)
      PROVE  SchedAll(BeforeNextClient(RunCommand(st, c, cmd), c))
  BY <1>5, RunCommandOK, SchedRunCommand, SchedBeforeNext
<1> HIDE DEF Failed
<1> QED BY <1>1, <1>3, <1>4, <1>5

\* No ring is full.
RoomInRings == \A t \in Thread : ~IsFull(jobs[t])

\* A client that is read while the main thread is about to write replies is read by
\* a thread, and threads are not parked before the writes are done.
ReadersOK(m, cs, a) ==
  /\ m.phase = "reads" => \A c \in Client : cs[c].read # "idle" /\ c \notin m.todo => a > 1
  /\ m.phase \in {"adjust", "writes"} => \A c \in Client : cs[c].read # "idle" => a > 1

\* The inductive invariant without CONFIG SET io-threads.
ReplyInv ==
  /\ SchedAll(State)
  /\ ReadersOK(main, cl, active)
  /\ main.sub \in {"none", "adjust"}

\* A job in a ring is in the ring of an active thread.
LEMMA WhereActive ==
  ASSUME NEW st, NEW th, NEW a \in Int, Good(st, th, a), NEW c, NEW K, "none" \notin K,
         Where(st.jobs, th, c, K) # {}
  PROVE  a > 1
<1>1. PICK p \in Where(st.jobs, th, c, K) : TRUE
  OBVIOUS
<1>2. p \in Thread \X Index /\ st.jobs[p[1]].buf[p[2]].kind \in K
  BY <1>1 DEF Where
<1>3. p[1] \in Thread /\ p[2] \in Index
  BY <1>2
<1>4. st.jobs[p[1]].buf[p[2]] # NoJob
  BY <1>2 DEF NoJob
<1>5. GoodThread(st.jobs[p[1]], th[p[1]], p[1], a)
  BY <1>3 DEF Good, GoodRings
<1>6. ~IsEmpty(st.jobs[p[1]])
  BY <1>3, <1>4, <1>5, RingBounds DEF GoodThread
<1>7. p[1] < a /\ p[1] \in Int /\ p[1] >= 1
  BY <1>3, <1>5, <1>6, ThreadsAssumption DEF GoodThread, Thread
<1> QED BY <1>7

LEMMA BusyActive ==
  ASSUME IOInv, NEW c \in Client, Busy(cl[c])
  PROVE  active > 1
<1>1. OK(State) /\ State.cl = cl /\ State.jobs = jobs /\ active \in Int
  BY Now
<1>2. GoodJobs(cl[c], jobs, thr, c) /\ Good(State, thr, active)
  BY <1>1 DEF OK, Good, GoodClients
<1>3. Where(jobs, thr, c, Reading) # {} \/ Where(jobs, thr, c, Writing) # {}
  BY <1>2 DEF GoodJobs, Exactly, Busy
<1>4. "none" \notin Reading /\ "none" \notin Writing
  BY DEF Reading, Writing
<1> QED BY <1>1, <1>2, <1>3, <1>4, WhereActive

\* Where beforeSleep goes after a walk.
LEMMA AfterPhase ==
  ASSUME NEW st, NEW p \in {"reads", "writes", "reads2", "writedone", "free"}
  PROVE  /\ After(p, st).sub = "none"
         /\ After(p, st).phase \in {"reads2", "writedone", "free", "sleep"} \cup
                                   (IF p = "reads" THEN {"adjust"} ELSE {})
<1> DEFINE Late(m) == m.phase \in {"reads2", "writedone", "free", "sleep"}
<1>1. Late(ToFree(st))
  BY DEF ToFree, In
<1>2. Late(ToWriteDone(st))
  BY <1>1 DEF ToWriteDone, In
<1>3. Late(ToReads2(st))
  BY <1>2 DEF ToReads2, In
<1>4. Late(ToAdjust(st)) \/ ToAdjust(st).phase = "adjust"
  BY <1>3 DEF ToAdjust, In
<1>5. Late(In("sleep", {}))
  BY DEF In
<1>6. Late(After(p, st)) \/ (p = "reads" /\ After(p, st).phase = "adjust")
  <2> HIDE DEF Late
  <2>1. /\ After("reads", st) = ToAdjust(st) /\ After("writes", st) = ToReads2(st)
        /\ After("reads2", st) = ToWriteDone(st) /\ After("writedone", st) = ToFree(st)
        /\ After("free", st) = In("sleep", {})
    BY DEF After
  <2> QED BY <1>1, <1>2, <1>3, <1>4, <1>5, <2>1
<1> QED BY <1>6, AfterType

LEMMA ToWritesPhase ==
  ASSUME NEW st
  PROVE  ToWrites(st).sub = "none" /\ ToWrites(st).phase # "reads"
<1>1. After("writes", st) = ToReads2(st)
  BY DEF After
<1>2. After("writes", st).phase \in {"reads2", "writedone", "free", "sleep"}
  BY AfterPhase
<1>3. ToWrites(st).phase # "reads"
  BY <1>1, <1>2 DEF ToWrites, In
<1> QED BY <1>3, ToWritesType

\* The clients of st that are read and not in todo have a thread.
HaveThreads(st, todo) == \A c \in Client : st.cl[c].read # "idle" /\ c \notin todo => active > 1

LEMMA ReplyWalk ==
  ASSUME IOInv, main.sub = "none", main.phase \in {"reads", "writes", "reads2", "writedone", "free"},
         NEW st, st \in StateRec, SchedAll(st), NEW todo \in SUBSET Client, Walk(st, todo),
         active' = active, main.phase = "reads" => HaveThreads(st, todo),
         main.phase = "writes" => HaveThreads(st, {})
  PROVE  ReplyInv'
<1>1. Apply(st) /\ main' = IF todo = {} THEN After(main.phase, st) ELSE [main EXCEPT !.todo = todo]
  BY DEF Walk
<1>2. State' = st /\ cl' = st.cl
  BY <1>1 DEF State, Apply, StateRec
<1>3. SchedAll(State)'
  BY <1>2
<1>4. CASE todo = {}
  <2>1. main'.sub = "none" /\ main'.phase \in {"reads2", "writedone", "free", "sleep"} \cup
                                     (IF main.phase = "reads" THEN {"adjust"} ELSE {})
    BY <1>1, <1>4, AfterPhase
  <2>2. main'.phase = "adjust" => HaveThreads(st, {})
    BY <1>4, <2>1
  <2>3. ReadersOK(main', cl', active')
    BY <1>2, <2>1, <2>2 DEF ReadersOK, HaveThreads
  <2> QED BY <1>3, <2>1, <2>3 DEF ReplyInv
<1>5. CASE todo # {}
  <2>1. main'.sub = "none" /\ main'.phase = main.phase /\ main'.todo = todo
    BY <1>1, <1>5, Now DEF MainType
  <2>2. ReadersOK(main', cl', active')
    BY <1>2, <2>1 DEF ReadersOK, HaveThreads
  <2> QED BY <1>3, <2>1, <2>2 DEF ReplyInv
<1> QED BY <1>4, <1>5

LEMMA ReplySkipRead ==
  ASSUME IOInv, ReplyInv, NEW c \in Client, SkipRead(c)
  PROVE  ReplyInv'
<1>1. /\ main.sub = "none" /\ main.phase \in {"reads", "reads2"} /\ active' = active
      /\ Walk(State, main.todo \ {c}) /\ Busy(cl[c])
  BY DEF SkipRead, ReadPhase, At
<1>2. OK(State) /\ State.cl = cl
  BY Now
<1>3. State \in StateRec /\ SchedAll(State)
  BY <1>2 DEF OK, Good, ReplyInv
<1>4. main.phase = "reads" => HaveThreads(State, main.todo \ {c})
  BY <1>1, <1>2, BusyActive DEF ReplyInv, ReadersOK, HaveThreads
<1> QED BY <1>1, <1>3, <1>4, TodoType, ReplyWalk

LEMMA ReplyReadDone ==
  ASSUME IOInv, ReplyInv, NEW c \in Client, ReadDone(c)
  PROVE  ReplyInv'
<1>1. main.sub = "none" /\ main.phase \in {"reads", "reads2"} /\ ReadIsDone(c) /\ active' = active
  BY DEF ReadDone, ReadPhase, At
<1>2. PICK r \in WriteResult(cl[c].last) :
        LET st   == ReadTaken(c, r)
            x    == st.cl[c]
            Done == IF x.close_asap THEN {st}
                    ELSE IF x.conn = "accepting" THEN Accepted(st, c)
                    ELSE Served(st, c, TRUE)
        IN  \E after \in Done :
              Walk(after, IF Readers(after) = Readers(st) THEN main.todo \ {c}
                                                          ELSE Readers(after))
  BY Zenon DEF ReadDone
<1> DEFINE st == ReadTaken(c, r)
           D  == IF st.cl[c].close_asap THEN {st}
                 ELSE IF st.cl[c].conn = "accepting" THEN Accepted(st, c)
                 ELSE Served(st, c, TRUE)
<1>3. PICK after \in D : Walk(after, IF Readers(after) = Readers(st) THEN main.todo \ {c}
                                                                      ELSE Readers(after))
  BY <1>2, Zenon
<1>4. OK(State) /\ State.cl = cl /\ SchedAll(State)
  BY Now DEF ReplyInv
<1>5. OK(st) /\ Settled(st, c) /\ OnlyClient(State, st, c) /\ SchedAll(st)
  BY <1>1, <1>4, ReadTakenOK, SchedReadTaken
<1> HIDE DEF st
<1>6. OK(after)
  BY <1>3, <1>5, AcceptedOK, ServedOK DEF Settled
<1>7. SchedAll(after)
  BY <1>3, <1>5, SchedAccepted, SchedServed DEF Settled
<1>8. after \in StateRec
  BY <1>6 DEF OK, Good
<1> DEFINE todo == IF Readers(after) = Readers(st) THEN main.todo \ {c} ELSE Readers(after)
<1>9. todo \in SUBSET Client /\ Walk(after, todo)
  BY <1>3, TodoType DEF Readers
<1>10. main.phase = "reads" => HaveThreads(after, todo)
  <2> SUFFICES ASSUME main.phase = "reads", NEW d \in Client, after.cl[d].read # "idle", d \notin todo
               PROVE  active > 1
    BY DEF HaveThreads
  <2>1. d \in Readers(after)
    BY DEF Readers
  <2>2. Readers(after) = Readers(st) /\ d \notin main.todo \ {c}
    BY <2>1
  <2>3. st.cl[d].read # "idle"
    BY <2>1, <2>2 DEF Readers
  <2>4. d # c
    BY <1>5, <2>3 DEF Settled
  <2>5. cl[d].read # "idle" /\ d \notin main.todo
    BY <1>4, <1>5, <2>2, <2>3, <2>4 DEF OnlyClient
  <2> QED BY <2>5 DEF ReplyInv, ReadersOK
<1> HIDE DEF todo
<1> QED BY <1>1, <1>7, <1>8, <1>9, <1>10, ReplyWalk

\* SendWrite does not read.
LEMMA SendWriteReads ==
  ASSUME NEW st, OK(st), NEW c \in Client, NEW d \in Client
  PROVE  SendWrite(st, c).cl[d].read = st.cl[d].read
<1>1. st \in StateRec /\ st.cl[d] \in ClientState /\ st.cl[c] \in ClientState
  BY Parts
<1> QED BY <1>1 DEF SendWrite, StateRec, ClientState

\* U reads as st does.
SameReads(st, U) == \A d \in Client : U.cl[d].read = st.cl[d].read

\* With room in the rings a client is taken off the list only when it is being
\* written or has its handler.
LEMMA ReplyPendingWrite ==
  ASSUME IOInv, ReplyInv, RoomInRings, NEW c \in Client, PendingWrite(c)
  PROVE  ReplyInv'
<1> DEFINE st == WithListed(State, c, FALSE)
           x  == cl[c]
           todo == main.todo \ {c}
           Post(r) == PostWrite(st, c, r)
           Hand(r) == Post(r).cl[c].handler \/ (Post(r).cl[c].out > 0 /\ ~Post(r).cl[c].close_asap)
<1>1. main.sub = "none" /\ main.phase = "writes" /\ active' = active /\ todo \in SUBSET Client
  BY TodoType DEF PendingWrite, At
<1>2. \/ (x.close_asap \/ x.out = 0 \/ AlreadyWriting(st, c)) /\ Walk(st, todo)
      \/ CanSendWrite(st, c) /\ Walk(SendWrite(st, c), todo)
      \/ /\ ~(x.close_asap \/ x.out = 0) /\ ~CanSendWrite(st, c) /\ (x.write # "idle" \/ x.read # "idle")
         /\ Walk(st, todo)
      \/ \E r \in WriteResult(x.out) : \E b : b = Hand(r) /\ Walk(WithHandler(Post(r), c, b), todo)
  BY Zenon DEF PendingWrite, WithListed, WithHandler
<1>3. OK(State) /\ State.cl = cl /\ SchedAll(State) /\ State.jobs = jobs /\ active \in Int
  BY Now DEF ReplyInv
<1>4. /\ OK(st) /\ OnlyClient(State, st, c) /\ st.cl[c].out = x.out /\ st.cl[c].read = x.read
      /\ st.cl[c].write = x.write /\ st.cl[c].conn = x.conn /\ st.cl[c] \in ClientState
  <2> DEFINE b == FALSE
             V == WithListed(State, c, b)
  <2>1. b \in BOOLEAN
    OBVIOUS
  <2> HIDE DEF b
  <2>2. /\ OK(V) /\ OnlyClient(State, V, c) /\ V.cl[c].out = State.cl[c].out
        /\ V.cl[c].read = State.cl[c].read /\ V.cl[c].write = State.cl[c].write
        /\ V.cl[c].conn = State.cl[c].conn /\ V.cl[c] \in ClientState
    BY <1>3, <2>1, ListedIs
  <2> HIDE DEF V
  <2>3. /\ OK(V) /\ OnlyClient(State, V, c) /\ V.cl[c].out = x.out /\ V.cl[c].read = x.read
        /\ V.cl[c].write = x.write /\ V.cl[c].conn = x.conn /\ V.cl[c] \in ClientState
    BY <1>3, <2>2
  <2> QED BY <2>3 DEF V, b
<1>5. st.cl[c].close_asap = x.close_asap
  <2>1. State \in StateRec /\ State.cl[c] \in ClientState
    BY <1>3, Parts
  <2> QED BY <1>3, <2>1 DEF WithListed, StateRec, ClientState
<1> HIDE DEF st
<1>6. SameReads(State, st) /\ SchedBut(st, c) /\ st \in StateRec
  BY <1>3, <1>4 DEF SameReads, SchedBut, SchedAll, OnlyClient
<1>7. ASSUME NEW U, SameReads(State, U) PROVE HaveThreads(U, {})
  BY <1>1, <1>3, <1>7 DEF SameReads, HaveThreads, ReplyInv, ReadersOK
<1>8. ASSUME NEW U, OK(U), SchedAll(U), SameReads(State, U), Walk(U, todo) PROVE ReplyInv'
  <2>1. U \in StateRec
    BY <1>8 DEF OK, Good
  <2> HIDE DEF todo
  <2> QED BY <1>1, <1>7, <1>8, <2>1, ReplyWalk
<1>9. CASE (x.close_asap \/ x.out = 0 \/ AlreadyWriting(st, c)) /\ Walk(st, todo)
  <2>1. Sched(st.cl[c])
    BY <1>4, <1>5, <1>9 DEF Sched, AlreadyWriting
  <2>2. SchedAll(st)
    BY <1>6, <2>1 DEF SchedAll, SchedBut
  <2> QED BY <1>4, <1>6, <1>8, <1>9, <2>2
<1>10. CASE CanSendWrite(st, c) /\ Walk(SendWrite(st, c), todo)
  <2>1. OK(SendWrite(st, c)) /\ SchedAll(SendWrite(st, c))
    BY <1>4, <1>6, <1>10, SendWriteOK, SchedSendWrite
  <2>2. SameReads(State, SendWrite(st, c))
    BY <1>4, <1>6, SendWriteReads DEF SameReads
  <2> QED BY <1>8, <1>10, <2>1, <2>2
<1>11. CASE ~(x.close_asap \/ x.out = 0) /\ ~CanSendWrite(st, c) /\ (x.write # "idle" \/ x.read # "idle")
            /\ Walk(st, todo)
  <2>1. CASE x.write # "idle"
    <3>1. SchedAll(st)
      BY <1>4, <1>6, <2>1 DEF SchedAll, SchedBut, Sched
    <3> QED BY <1>4, <1>6, <1>8, <1>11, <3>1
  <2>2. CASE x.write = "idle"
    <3>1. active > 1
      BY <1>1, <1>11, <2>2 DEF ReplyInv, ReadersOK
    <3>2. x.out \in 0..MaxOut /\ x.out > 0 /\ st.cl[c].conn = "open"
      <4>1. st.cl[c].out \in 0..MaxOut /\ GoodFields(st.cl[c]) /\ MaxOut \in Nat
        BY <1>4, Parts
      <4> QED BY <1>4, <1>11, <4>1 DEF GoodFields
    <3>3. WriteThread(st, c) \in Thread
      BY <1>4, <3>1, <3>2, ThreadOfWrite DEF OK
    <3>4. ~IsFull(st.jobs[WriteThread(st, c)])
      BY <1>3, <1>4, <3>3 DEF OnlyClient, RoomInRings
    <3> QED BY <1>4, <1>11, <2>2, <3>1, <3>2, <3>4 DEF CanSendWrite
  <2> QED BY <2>1, <2>2
<1>12. ASSUME NEW r \in WriteResult(x.out), NEW b, b = Hand(r), Walk(WithHandler(Post(r), c, b), todo)
       PROVE  ReplyInv'
  <2> DEFINE post == PostWrite(st, c, r)
             U == WithHandler(post, c, b)
  <2>1. x.out \in Nat /\ x.out <= st.cl[c].out
    <3>1. st.cl[c].out \in 0..MaxOut
      BY <1>4, Parts
    <3> QED BY <1>4, <3>1
  <2>2. OK(post) /\ OnlyClient(st, post, c) /\ post.cl[c].read = st.cl[c].read
    BY <1>4, <2>1, PostWriteOK
  <2>3. post.cl[c] \in ClientState
    BY <2>2, Parts
  <2>4. b \in BOOLEAN
    BY <1>12, <2>3 DEF ClientState
  <2>5. HasReplies(post, c) => b
    BY <1>12 DEF HasReplies
  <2> HIDE DEF post
  <2>6. SchedBut(post, c)
    BY <1>6, <2>2 DEF SchedBut, OnlyClient
  <2>7. OK(U) /\ OnlyClient(post, U, c) /\ U.cl[c].read = post.cl[c].read
    BY <2>2, <2>4, HandlerIs
  <2>8. SchedAll(U)
    BY <2>2, <2>4, <2>5, <2>6, SchedHandler
  <2>9. Walk(U, todo)
    BY <1>12 DEF post
  <2> HIDE DEF U
  <2>10. SameReads(State, U)
    BY <1>6, <2>2, <2>7 DEF SameReads, OnlyClient
  <2> QED BY <1>8, <2>7, <2>8, <2>9, <2>10
<1> QED BY <1>2, <1>9, <1>10, <1>11, <1>12

LEMMA ReplyWriteDone ==
  ASSUME IOInv, ReplyInv, NEW c \in Client, WriteDone(c)
  PROVE  ReplyInv'
<1>1. main.sub = "none" /\ main.phase = "writedone" /\ active' = active
  BY DEF WriteDone, At
<1>2. OK(State) /\ State.cl = cl /\ SchedAll(State) /\ State \in StateRec
  BY Now DEF ReplyInv, OK, Good
<1>3. CASE Busy(cl[c])
  <2>1. Walk(State, main.todo \ {c})
    BY <1>3 DEF WriteDone
  <2> QED BY <1>1, <1>2, <2>1, TodoType, ReplyWalk
<1>4. CASE ~Busy(cl[c])
  <2>1. PICK r \in WriteResult(cl[c].last) :
          Walk(ProcessClientIOWriteDone(State, c, r, TRUE), main.todo \ {c})
    BY <1>4 DEF WriteDone
  <2> DEFINE U == ProcessClientIOWriteDone(State, c, r, TRUE)
  <2>2. OK(U) /\ SchedAll(U)
    BY <1>2, <1>4, WriteDoneOK, SchedWriteDone DEF Busy
  <2>3. Walk(U, main.todo \ {c})
    BY <2>1
  <2> HIDE DEF U
  <2>4. U \in StateRec
    BY <2>2 DEF OK, Good
  <2> QED BY <1>1, <2>2, <2>3, <2>4, TodoType, ReplyWalk
<1> QED BY <1>3, <1>4

LEMMA ReplyFreeQueued ==
  ASSUME IOInv, ReplyInv, NEW c \in Client, FreeQueued(c)
  PROVE  ReplyInv'
<1>1. /\ main.sub = "none" /\ main.phase = "free" /\ active' = active
      /\ ~Busy(cl[c]) /\ Walk(FreeClient(State, c), main.todo \ {c})
  BY DEF FreeQueued, At, MayFree
<1>2. OK(State) /\ State.cl = cl /\ SchedAll(State)
  BY Now DEF ReplyInv
<1>3. OK(FreeClient(State, c)) /\ SchedAll(FreeClient(State, c))
  BY <1>1, <1>2, FreeOK, SchedFree
<1>4. FreeClient(State, c) \in StateRec
  BY <1>3 DEF OK, Good
<1> QED BY <1>1, <1>3, <1>4, TodoType, ReplyWalk

\* A step that leaves the clients alone and goes to a place where no client is read
\* without a thread.
LEMMA ReplyStill ==
  ASSUME IOInv, ReplyInv, cl' = cl, ReadersOK(main', cl, active'), main'.sub \in {"none", "adjust"}
  PROVE  ReplyInv'
<1>1. State'.cl = State.cl
  BY DEF State
<1>2. SchedAll(State)'
  BY <1>1 DEF ReplyInv, SchedAll
<1> QED BY <1>2 DEF ReplyInv

LEMMA ReplyAdjustForWrites ==
  ASSUME IOInv, ReplyInv, NEW n \in 1..num, AdjustForWrites(n)
  PROVE  ReplyInv'
<1>1. /\ main.phase = "adjust" /\ cl' = cl /\ active' = active
      /\ main' = IF n > active THEN [main EXCEPT !.sub = "adjust", !.target = n] ELSE ToWrites(State)
  BY DEF AdjustForWrites, At
<1>2. \A c \in Client : cl[c].read # "idle" => active > 1
  BY <1>1 DEF ReplyInv, ReadersOK
<1>3. CASE n > active
  <2>1. main'.phase = "adjust" /\ main'.sub = "adjust"
    BY <1>1, <1>3, Now DEF MainType
  <2> QED BY <1>1, <1>2, <2>1, ReplyStill DEF ReadersOK
<1>4. CASE ~(n > active)
  <2>1. main'.sub = "none" /\ main'.phase # "reads"
    BY <1>1, <1>4, ToWritesPhase
  <2> QED BY <1>1, <1>2, <2>1, ReplyStill DEF ReadersOK
<1> QED BY <1>3, <1>4

LEMMA ReplySleep ==
  ASSUME IOInv, ReplyInv, NEW n \in 1..num, Sleep(n)
  PROVE  ReplyInv'
<1>1. /\ main.phase = "sleep" /\ cl' = cl
      /\ main' = IF n = active THEN In("events", {}) ELSE [main EXCEPT !.sub = "adjust", !.target = n]
  BY DEF Sleep, At
<1>2. main'.phase \in {"events", "sleep"} /\ main'.sub \in {"none", "adjust"}
  BY <1>1, Now DEF MainType, In
<1> QED BY <1>1, <1>2, ReplyStill DEF ReadersOK

LEMMA ReplyActivate ==
  ASSUME IOInv, ReplyInv, Activate
  PROVE  ReplyInv'
<1>1. cl' = cl /\ main' = main /\ active' = active + 1
  BY DEF Activate
<1>2. active' > 1
  BY <1>1, Now DEF Scalars
<1> QED BY <1>1, <1>2, ReplyStill DEF ReadersOK, ReplyInv

LEMMA ReplyDeactivate ==
  ASSUME IOInv, ReplyInv, Deactivate
  PROVE  ReplyInv'
<1>1. cl' = cl /\ main' = main /\ main.phase = "sleep"
  BY DEF Deactivate
<1> QED BY <1>1, ReplyStill DEF ReadersOK, ReplyInv

LEMMA ReplyAdjusted ==
  ASSUME IOInv, ReplyInv, Adjusted
  PROVE  ReplyInv'
<1>1. /\ cl' = cl /\ active' = active
      /\ main' = IF main.phase = "adjust" THEN ToWrites(State) ELSE In("events", {})
  BY DEF Adjusted
<1>2. CASE main.phase = "adjust"
  <2>1. main'.sub = "none" /\ main'.phase # "reads"
    BY <1>1, <1>2, ToWritesPhase
  <2> QED BY <1>1, <1>2, <2>1, ReplyStill DEF ReadersOK, ReplyInv
<1>3. CASE main.phase # "adjust"
  <2>1. main'.sub = "none" /\ main'.phase = "events"
    BY <1>1, <1>3 DEF In
  <2> QED BY <1>1, <2>1, ReplyStill DEF ReadersOK
<1> QED BY <1>2, <1>3

LEMMA ReplyBeforeSleep ==
  ASSUME IOInv, ReplyInv, BeforeSleep
  PROVE  ReplyInv'
<1>1. /\ cl' = cl /\ active' = active
      /\ main' = IF Readers(State) = {} THEN ToAdjust(State) ELSE In("reads", Readers(State))
  BY DEF BeforeSleep
<1>2. State.cl = cl
  BY DEF State
<1>3. CASE Readers(State) = {}
  <2>1. main'.sub = "none"
    BY <1>1, <1>3, ToWritesType
  <2>2. \A c \in Client : cl[c].read = "idle"
    BY <1>2, <1>3 DEF Readers
  <2> QED BY <1>1, <2>1, <2>2, ReplyStill DEF ReadersOK
<1>4. CASE Readers(State) # {}
  <2>1. main'.sub = "none" /\ main'.phase = "reads" /\ main'.todo = Readers(State)
    BY <1>1, <1>4 DEF In
  <2>2. \A c \in Client : cl[c].read # "idle" => c \in main'.todo
    BY <1>2, <2>1 DEF Readers
  <2> QED BY <1>1, <2>1, <2>2, ReplyStill DEF ReadersOK
<1> QED BY <1>3, <1>4

\* An event.
LEMMA ReplyEvent ==
  ASSUME IOInv, ReplyInv, At("events"), NEW st, st \in StateRec, SchedAll(st), Apply(st), main' = main
  PROVE  ReplyInv'
<1>1. State' = st
  BY DEF State, Apply, StateRec
<1>2. SchedAll(State)'
  BY <1>1
<1> QED BY <1>2 DEF ReplyInv, ReadersOK, At

LEMMA ReplyAccept ==
  ASSUME IOInv, ReplyInv, NEW c \in Client, Accept(c)
  PROVE  ReplyInv'
<1> DEFINE S  == State
           st == WithConn(S, c, "accepting")
           t  == HomeThread(c)
           j  == [kind |-> "accept", c |-> c]
           U  == [st EXCEPT !.cl[c].read = "pending", !.jobs[t] = Push(@, j)]
<1>1. /\ At("events") /\ cl[c].conn # "open" /\ cl[c].read = "idle" /\ main' = main
  BY DEF Accept
<1>2. OK(S) /\ S.cl = cl /\ S.jobs = jobs /\ SchedAll(S)
  BY Now DEF ReplyInv
<1>3. \/ Apply(WithConn(S, c, "open"))
      \/ active > 1 /\ ~IsFull(jobs[t]) /\ Apply(U)
      \/ \E after \in Accepted(st, c) : Apply(after)
  BY Zenon DEF Accept, WithConn
<1> HIDE DEF S
<1>4. OK(WithConn(S, c, "open")) /\ SchedAll(WithConn(S, c, "open"))
  BY <1>1, <1>2, ConnIs, SchedConn
<1>5. /\ OK(st) /\ st.cl[c].read = "idle" /\ st.cl[c].conn = "accepting" /\ SchedAll(st)
  BY <1>1, <1>2, ConnIs, SchedConn
<1> HIDE DEF st
<1>6. SchedAll(U)
  <2> DEFINE x == st.cl[c]
             y == U.cl[c]
  <2>1. st \in StateRec /\ x \in ClientState /\ Sched(x)
    BY <1>5, Parts DEF SchedAll
  <2>2. y.out = x.out /\ y.write = x.write
    BY <2>1 DEF StateRec, ClientState
  <2>3. y.listed = x.listed /\ y.handler = x.handler /\ y.close_asap = x.close_asap
    BY <2>1 DEF StateRec, ClientState
  <2>4. Others(st, U, c)
    BY <2>1 DEF StateRec, Others
  <2> HIDE DEF U
  <2>5. Sched(y)
    BY <2>1, <2>2, <2>3 DEF Sched
  <2> QED BY <1>5, <2>4, <2>5, SchedStep
<1>7. ASSUME NEW after \in Accepted(st, c) PROVE OK(after) /\ SchedAll(after)
  BY <1>5, AcceptedOK, SchedAccepted
<1>8. CASE active > 1 /\ ~IsFull(jobs[t]) /\ Apply(U)
  <2>1. cl' = U.cl
    BY <1>8 DEF Apply
  <2>2. SchedAll(State)'
    BY <1>6, <2>1 DEF SchedAll, State
  <2> QED BY <1>1, <2>2 DEF ReplyInv, ReadersOK, At
<1>9. ASSUME NEW V, OK(V), SchedAll(V), Apply(V) PROVE ReplyInv'
  <2>1. V \in StateRec
    BY <1>9 DEF OK, Good
  <2> QED BY <1>1, <1>9, <2>1, ReplyEvent
<1> HIDE DEF U
<1> QED BY <1>3, <1>4, <1>7, <1>8, <1>9

LEMMA ReplyReadable ==
  ASSUME IOInv, ReplyInv, NEW c \in Client, Readable(c)
  PROVE  ReplyInv'
<1>1. At("events") /\ cl[c].read = "idle" /\ main' = main
  BY DEF Readable
<1>2. OK(State) /\ State.cl = cl /\ SchedAll(State)
  BY Now DEF ReplyInv
<1>3. \/ CanSendRead(State, c) /\ Apply(SendRead(State, c))
      \/ cl[c].write = "idle" /\ \E after \in Served(State, c, FALSE) : Apply(after)
  BY DEF Readable
<1>4. CanSendRead(State, c) => OK(SendRead(State, c)) /\ SchedAll(SendRead(State, c))
  BY <1>1, <1>2, SendReadOK, SchedSendRead
<1>5. ASSUME cl[c].write = "idle", NEW after \in Served(State, c, FALSE) PROVE OK(after) /\ SchedAll(after)
  <2>1. Settled(State, c)
    BY <1>1, <1>2, <1>5 DEF Settled
  <2> QED BY <1>2, <1>5, <2>1, ServedOK, SchedServed
<1>6. ASSUME NEW V, OK(V), SchedAll(V), Apply(V) PROVE ReplyInv'
  <2>1. V \in StateRec
    BY <1>6 DEF OK, Good
  <2> QED BY <1>1, <1>6, <2>1, ReplyEvent
<1> QED BY <1>3, <1>4, <1>5, <1>6

LEMMA ReplyWritable ==
  ASSUME IOInv, ReplyInv, NEW c \in Client, Writable(c)
  PROVE  ReplyInv'
<1>1. At("events") /\ main' = main
  BY DEF Writable
<1>2. OK(State) /\ State.cl = cl /\ SchedAll(State)
  BY Now DEF ReplyInv
<1>3. \/ CanSendWrite(State, c) /\ Apply(SendWrite(State, c))
      \/ \E r \in WriteResult(cl[c].out) : Apply(WriteToClient(State, c, r))
  BY DEF Writable
<1>4. CanSendWrite(State, c) => OK(SendWrite(State, c)) /\ SchedAll(SendWrite(State, c))
  BY <1>2, SendWriteOK, SchedSendWrite DEF SchedAll, SchedBut
<1>5. ASSUME NEW r \in WriteResult(cl[c].out)
      PROVE  OK(WriteToClient(State, c, r)) /\ SchedAll(WriteToClient(State, c, r))
  <2>1. cl[c].out \in Nat /\ cl[c].out <= State.cl[c].out
    <3>1. cl[c].out \in 0..MaxOut
      BY <1>2, Parts
    <3> QED BY <1>2, <3>1
  <2>2. OK(PostWrite(State, c, r)) /\ SchedAll(PostWrite(State, c, r))
    BY <1>2, <2>1, PostWriteOK, SchedPostWrite
  <2> QED BY <1>2, <2>2 DEF WriteToClient
<1>6. ASSUME NEW V, OK(V), SchedAll(V), Apply(V) PROVE ReplyInv'
  <2>1. V \in StateRec
    BY <1>6 DEF OK, Good
  <2> QED BY <1>1, <1>6, <2>1, ReplyEvent
<1> QED BY <1>3, <1>4, <1>5, <1>6

LEMMA ReplyCloseAsync ==
  ASSUME IOInv, ReplyInv, NEW c \in Client, CloseAsync(c)
  PROVE  ReplyInv'
<1>1. OK(State) /\ SchedAll(State) /\ At("events") /\ main' = main /\ Apply(FreeClientAsync(State, c))
  BY Now DEF ReplyInv, CloseAsync
<1>2. OK(FreeClientAsync(State, c)) /\ SchedAll(FreeClientAsync(State, c))
  BY <1>1, AsyncOK, SchedAsync
<1>3. FreeClientAsync(State, c) \in StateRec
  BY <1>2 DEF OK, Good
<1> QED BY <1>1, <1>2, <1>3, ReplyEvent

\* A thread that handles a job is active, and what it finishes was not idle.
LEMMA ReplyHandle ==
  ASSUME IOInv, ReplyInv, NEW t \in Thread, Handle(t)
  PROVE  ReplyInv'
<1> DEFINE j == Peek(jobs[t])
<1>1. /\ thr[t].pc = "handle" /\ UNCHANGED <<active, main>>
      /\ cl' = CASE j.kind \in {"read", "accept"} -> [cl EXCEPT ![j.c].read = "completed"]
                 [] j.kind = "write"              -> [cl EXCEPT ![j.c].write = "completed"]
                 [] OTHER                         -> cl
  BY DEF Handle
<1> HIDE DEF j
<1>2. ~IsEmpty(jobs[t])
  BY <1>1, ThreadNow, RingBounds DEF GoodThread
<1>3. t < active
  BY <1>2, ThreadNow DEF GoodThread
<1>4. active > 1
  BY <1>3, Now, ThreadsAssumption DEF Thread
<1>5. cl \in [Client -> ClientState] /\ State.cl = cl /\ State'.cl = cl'
  BY Now DEF State
<1>6. ASSUME NEW c \in Client PROVE Sched(cl'[c])
  <2>1. Sched(cl[c]) /\ cl[c] \in ClientState
    BY <1>5 DEF ReplyInv, SchedAll
  <2>2. CASE cl'[c] = cl[c]
    BY <2>1, <2>2
  <2>3. CASE cl'[c] = [cl[c] EXCEPT !.read = "completed"]
    BY <2>1, <2>3 DEF Sched, ClientState
  <2>4. CASE cl'[c] = [cl[c] EXCEPT !.write = "completed"]
    BY <2>1, <2>4 DEF Sched, ClientState
  <2>5. \/ cl'[c] = cl[c]
        \/ cl'[c] = [cl[c] EXCEPT !.read = "completed"]
        \/ cl'[c] = [cl[c] EXCEPT !.write = "completed"]
    BY <1>1, <1>5
  <2> QED BY <2>2, <2>3, <2>4, <2>5
<1>7. SchedAll(State)'
  BY <1>5, <1>6 DEF SchedAll
<1>8. ReadersOK(main', cl', active')
  BY <1>1, <1>4 DEF ReadersOK
<1> QED BY <1>1, <1>7, <1>8 DEF ReplyInv

LEMMA ReplyThread ==
  ASSUME IOInv, ReplyInv, NEW t \in Thread, IOThreadMain(t)
  PROVE  ReplyInv'
<1>1. ~Cancelled(t)
  BY DEF Cancelled, ReplyInv
<1>2. CASE TakeJobs(t) \/ GiveUp(t) \/ Pass(t) \/ Remove(t)
  <2>1. cl' = cl /\ main' = main /\ active' = active
    BY <1>2 DEF TakeJobs, GiveUp, Pass, Remove
  <2> QED BY <2>1, ReplyStill DEF ReplyInv
<1> QED BY <1>1, <1>2, ReplyHandle DEF IOThreadMain

LEMMA NextReply ==
  ASSUME "resize" \notin Features
  PROVE  IOInv /\ RoomInRings /\ ReplyInv /\ [Next]_vars => ReplyInv'
<1> SUFFICES ASSUME IOInv, RoomInRings, ReplyInv, [Next]_vars PROVE ReplyInv'
  OBVIOUS
<1>1. ASSUME NEW c \in Client, ServeClient(c) PROVE ReplyInv'
  <2>1. ASSUME NEW n \in 1..MaxThreads PROVE ~ReadResize(c, n)
    BY DEF ReadResize
  <2> QED BY <1>1, <2>1, ReplySkipRead, ReplyReadDone, ReplyPendingWrite, ReplyWriteDone, ReplyFreeQueued
          DEF ServeClient
<1>2. ASSUME NEW c \in Client, Event(c) PROVE ReplyInv'
  <2>1. ASSUME NEW n \in 1..MaxThreads PROVE ~ReadableResize(c, n)
    BY DEF ReadableResize
  <2> QED BY <1>2, <2>1, ReplyAccept, ReplyReadable, ReplyWritable, ReplyCloseAsync DEF Event
<1>3. CASE Loop
  <2>1. ASSUME NEW n \in 1..num, AdjustForWrites(n) \/ Sleep(n) PROVE ReplyInv'
    BY <2>1, ReplyAdjustForWrites, ReplySleep
  <2> QED BY <1>3, <2>1, ReplyBeforeSleep, ReplyActivate, ReplyDeactivate, ReplyAdjusted DEF Loop
<1>4. ~Update
  BY DEF ReplyInv, Update, ResizeNothing, Drained, LockActive, CreateThreads, BeginShrink, Unblock,
         ShutdownIOThread, Joined, Resized
<1>5. CASE UNCHANGED vars
  <2>1. cl' = cl /\ main' = main /\ active' = active
    BY <1>5 DEF vars
  <2> QED BY <2>1, ReplyStill DEF ReplyInv
<1> QED BY <1>1, <1>2, <1>3, <1>4, <1>5, ReplyThread DEF Next, Main

\* A reply that is in the buffer of a client without I/O in flight will be written:
\* the client is in clients_pending_write or has its write handler, as
\* prepareClientToWrite takes for granted, as long as no ring is full and the number
\* of threads is not reconfigured.
THEOREM RepliesAreScheduled ==
  ASSUME "resize" \notin Features
  PROVE  Spec /\ []RoomInRings => []ReplyIsScheduled
<1>1. Init => ReplyInv
  <2> SUFFICES ASSUME Init PROVE ReplyInv
    OBVIOUS
  <2>1. \A c \in Client : cl[c] = NoClient
    BY DEF Init
  <2>2. SchedAll(State)
    BY <2>1 DEF SchedAll, State, Sched, NoClient
  <2>3. main.phase = "events" /\ main.sub = "none"
    BY DEF Init, In
  <2> QED BY <2>2, <2>3 DEF ReplyInv, ReadersOK
<1>2. ReplyInv => ReplyIsScheduled
  BY DEF ReplyInv, SchedAll, State, Sched, ReplyIsScheduled
<1> QED BY <1>1, <1>2, AlwaysIO, NextReply, PTL DEF Spec
=============================================================================
