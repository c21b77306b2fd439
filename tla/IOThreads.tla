------------------------------ MODULE IOThreads ------------------------------
(***************************************************************************)
(* The I/O threads of src/io_threads.c and the main thread that feeds them *)
(* (src/networking.c, the order of beforeSleep and afterSleep in           *)
(* src/server.c): the ring of jobs of each thread, the hand-off of client  *)
(* reads, writes and TLS accepts, the parking of threads on a mutex, and   *)
(* CONFIG SET io-threads.                                                  *)
(*                                                                         *)
(* The main thread runs one client at a time, so what it does for one      *)
(* client is one step; the steps of the I/O threads interleave with it.    *)
(* A wait of the main thread (drainIOThreadsQueue, waitForClientIO,        *)
(* pthread_mutex_lock, pthread_join) is a step that is not enabled yet.    *)
(* Memory is sequentially consistent.                                      *)
(***************************************************************************)
EXTENDS Integers, FiniteSets

CONSTANTS
  Client,     \* client ids
  MaxThreads, \* bound: the largest io-threads (IO_THREADS_MAX_NUM)
  InitNum,    \* io-threads at start
  QueueSize,  \* IO_JOB_QUEUE_SIZE
  MaxOut,     \* bound: replies waiting in one client
  AofAlways,  \* appendfsync always: replies leave in beforeSleep only
  Features    \* bound: what happens besides requests and replies

Feature == {"publish", "kill", "free", "resize", "poll", "tls", "errors"}

ASSUME ClientAssumption  == Client \subseteq Nat
ASSUME ThreadsAssumption == MaxThreads \in Nat /\ InitNum \in 1..MaxThreads
ASSUME QueueAssumption   == QueueSize \in Nat /\ QueueSize > 1
ASSUME BoundAssumption   == MaxOut \in Nat /\ AofAlways \in BOOLEAN
ASSUME FeatureAssumption == Features \subseteq Feature

Thread == 1 .. (MaxThreads - 1)

VARIABLES
  cl,      \* the clients
  jobs,    \* io_jobs[]: the ring of each thread
  active,  \* server.active_io_threads_num (the main thread included)
  num,     \* server.io_threads_num
  thr,     \* where each thread is in IOThreadMain, and its jobs_to_process
  mutex,   \* io_threads_mutex[]: who holds each
  poll,    \* server.io_poll_state
  main     \* where the main thread is in its loop

vars == <<cl, jobs, active, num, thr, mutex, poll, main>>

-----------------------------------------------------------------------------
(* The job rings.                                                          *)

NoJob == [kind |-> "none", c |-> 0]
Job   == {NoJob} \cup [kind : {"read", "write", "accept"}, c : Client]
                 \cup [kind : {"free", "poll"}, c : {0}]
Index == 0 .. (QueueSize - 1)

EmptyRing == [buf |-> [i \in Index |-> NoJob], head |-> 0, tail |-> 0]

\* Mutant of IsFull: the last slot is used too.
NeverFull(jq) == FALSE

IsFull(jq)  == (jq.head + 1) % QueueSize = jq.tail
IsEmpty(jq) == jq.head = jq.tail

\* Mutant of AvailableJobs: one job too few is counted.
AvailableButOne(jq) ==
  IF jq.head = jq.tail THEN 0
  ELSE IF jq.head >= jq.tail THEN jq.head - jq.tail - 1
  ELSE QueueSize - (jq.tail - jq.head) - 1

AvailableJobs(jq) ==
  IF jq.head >= jq.tail THEN jq.head - jq.tail ELSE QueueSize - (jq.tail - jq.head)

Push(jq, j) == [jq EXCEPT !.buf[jq.head] = j, !.head = (@ + 1) % QueueSize]

Peek(jq) == jq.buf[jq.tail]

RemoveJob(jq) == [jq EXCEPT !.buf[jq.tail] = NoJob, !.tail = (@ + 1) % QueueSize]

-----------------------------------------------------------------------------
(* Clients.  `listed` is membership of clients_pending_write; a client is  *)
(* in clients_pending_io_read (or _write) exactly when its read (or write) *)
(* is not idle.  `out` counts the replies in the output buffer, `last` the *)
(* ones the thread may write (io_last_bufpos), `handler` tells that the    *)
(* write handler is installed.                                             *)

IOState == {"idle", "pending", "completed"}

ClientState == [conn : {"none", "accepting", "open"}, read : IOState, write : IOState,
                cur_tid : 0 .. (MaxThreads - 1), out : 0..MaxOut, last : 0..MaxOut,
                listed : BOOLEAN, handler : BOOLEAN, close_asap : BOOLEAN]

NoClient == [conn |-> "none", read |-> "idle", write |-> "idle", cur_tid |-> 0,
             out |-> 0, last |-> 0, listed |-> FALSE, handler |-> FALSE,
             close_asap |-> FALSE]

\* One step of the main thread carries clients and rings along.
State == [cl |-> cl, jobs |-> jobs]

Busy(x) == x.read = "pending" \/ x.write = "pending"

\* Mutant of MayFree: waitForClientIO waits for the read only.
MayFreeAfterRead(x) == x.read # "pending"

\* waitForClientIO, called by freeClient
MayFree(x) == ~Busy(x)

HomeThread(c) == (c % (active - 1)) + 1

\* Mutant of ReadThread: a pending write does not keep the client on its thread.
ReadThreadByLoad(st, c) == HomeThread(c)

ReadThread(st, c)  == IF st.cl[c].write = "pending" THEN st.cl[c].cur_tid ELSE HomeThread(c)
WriteThread(st, c) == IF st.cl[c].read  = "pending" THEN st.cl[c].cur_tid ELSE HomeThread(c)

\* trySendReadToIOThreads for a client whose read is idle
CanSendRead(st, c) ==
  /\ active > 1
  /\ ~st.cl[c].close_asap
  /\ ~IsFull(st.jobs[ReadThread(st, c)])

SendRead(st, c) ==
  LET t == ReadThread(st, c)
  IN  [st EXCEPT !.cl[c].cur_tid = t, !.cl[c].read = "pending",
                 !.jobs[t] = Push(@, [kind |-> "read", c |-> c])]

\* trySendWriteToIOThreads: a new job; a client already being written is left
\* to its thread.
CanSendWrite(st, c) ==
  /\ active > 1
  /\ st.cl[c].write = "idle"
  /\ st.cl[c].out > 0
  /\ ~IsFull(st.jobs[WriteThread(st, c)])

AlreadyWriting(st, c) == active > 1 /\ st.cl[c].write # "idle"

SendWrite(st, c) ==
  LET t == WriteThread(st, c)
  IN  [st EXCEPT !.cl[c].cur_tid = t, !.cl[c].write = "pending",
                 !.cl[c].listed = FALSE, !.cl[c].last = st.cl[c].out,
                 !.jobs[t] = Push(@, [kind |-> "write", c |-> c])]

TrySendWrite(st, c) == IF CanSendWrite(st, c) THEN SendWrite(st, c) ELSE st

\* prepareClientToWrite and putClientInPendingWriteQueue, then the reply itself
AddReply(st, c) ==
  LET x == st.cl[c]
  IN  IF x.close_asap \/ x.conn # "open" THEN st
      ELSE [st EXCEPT !.cl[c].out = @ + 1,
                      !.cl[c].listed = @ \/ (x.out = 0 /\ x.write = "idle")]

\* freeClient; what waits for it to be possible is a guard of its callers.
FreeClient(st, c) == [st EXCEPT !.cl[c] = NoClient]

FreeClientAsync(st, c) == [st EXCEPT !.cl[c].close_asap = TRUE]

BeforeNextClient(st, c) ==
  IF st.cl[c].close_asap THEN FreeClient(st, c)
  ELSE IF AofAlways THEN st
  ELSE TrySendWrite(st, c)

\* The outcomes of writing when `limit` replies may be written: a write that does
\* not fail and does not find the socket full makes progress.
WriteResult(limit) ==
  {r \in [n : 0..limit, res : {"ok", "again"} \cup (Features \cap {"errors"})] :
     r.res = "ok" /\ limit > 0 => r.n > 0}

\* postWriteToClient
PostWrite(st, c, r) ==
  LET left == st.cl[c].out - r.n
  IN  [st EXCEPT !.cl[c].out = left, !.cl[c].last = 0,
                 !.cl[c].handler = @ /\ left > 0,
                 !.cl[c].close_asap = @ \/ r.res = "errors"]

\* Mutant of ProcessClientIOWriteDone: replies that were added while the thread
\* wrote are not scheduled.
WriteDoneForgets(st0, c, r, async) ==
  LET st   == [st0 EXCEPT !.cl[c].write = "idle"]
      post == PostWrite(st, c, r)
  IN  IF st.cl[c].close_asap THEN st
      ELSE IF r.res = "again" /\ post.cl[c].out > 0 /\ ~post.cl[c].close_asap
        THEN [post EXCEPT !.cl[c].handler = TRUE]
      ELSE post

ProcessClientIOWriteDone(st0, c, r, async) ==
  LET st   == [st0 EXCEPT !.cl[c].write = "idle"]
      post == PostWrite(st, c, r)
  IN  IF st.cl[c].close_asap THEN st
      ELSE IF post.cl[c].close_asap \/ post.cl[c].out = 0 THEN post
      ELSE IF r.res = "again" THEN [post EXCEPT !.cl[c].handler = TRUE]
      ELSE IF async /\ CanSendWrite(post, c) THEN SendWrite(post, c)
      ELSE [post EXCEPT !.cl[c].listed = TRUE]

\* writeToClient by the main thread, which may not touch a client in flight
WriteToClient(st, c, r) ==
  IF st.cl[c].read = "idle" /\ st.cl[c].write = "idle" THEN PostWrite(st, c, r) ELSE st

-----------------------------------------------------------------------------
(* The main thread.  The event loop goes through `phase`: events, then the *)
(* walks of beforeSleep over its lists of clients, then the sleep; `todo`  *)
(* is the part of the list still to be walked.  `sub` is an unfinished     *)
(* adjustIOThreadsByEventLoad or updateIOThreads, `target` its goal and    *)
(* `who` the client whose CONFIG SET is running.                           *)

Phase == {"reads", "adjust", "writes", "reads2", "writedone", "free", "sleep", "events"}

Sub == {"none", "adjust", "drain", "lock", "unblock", "shutdown", "join", "done"}

MainType == [phase : Phase, todo : SUBSET Client, sub : Sub,
             target : 1..MaxThreads, who : Client \cup {0}]

In(p, todo) == [phase |-> p, todo |-> todo, sub |-> "none", target |-> 1, who |-> 0]

At(p) == main.phase = p /\ main.sub = "none"

Readers(st) == {c \in Client : st.cl[c].read # "idle"}
Writers(st) == {c \in Client : st.cl[c].write # "idle"}
Listed(st)  == {c \in Client : st.cl[c].listed}
Closing(st) == {c \in Client : st.cl[c].close_asap}

\* The order of beforeSleep, from each walk to the next one that has something to
\* do.  With appendfsync always finished reads are not looked at a second time.
ToFree(st)      == IF Closing(st) = {} THEN In("sleep", {}) ELSE In("free", Closing(st))
ToWriteDone(st) == IF Writers(st) = {} THEN ToFree(st) ELSE In("writedone", Writers(st))
ToReads2(st)    == IF AofAlways \/ Readers(st) = {} THEN ToWriteDone(st)
                   ELSE In("reads2", Readers(st))
ToWrites(st)    == IF Listed(st) = {} THEN ToReads2(st) ELSE In("writes", Listed(st))
ToAdjust(st)    == IF Listed(st) = {} THEN ToReads2(st) ELSE In("adjust", {})

After(p, st) == CASE p = "reads"     -> ToAdjust(st)
                  [] p = "writes"    -> ToReads2(st)
                  [] p = "reads2"    -> ToWriteDone(st)
                  [] p = "writedone" -> ToFree(st)
                  [] p = "free"      -> In("sleep", {})

Apply(st) == cl' = st.cl /\ jobs' = st.jobs

\* A step of the main thread that leaves st, with todo of its walk still to do.
Walk(st, todo) ==
  /\ Apply(st)
  /\ main' = IF todo = {} THEN After(main.phase, st) ELSE [main EXCEPT !.todo = todo]

\* The start of beforeSleep: trySendPollJobToIOThreads, then the finished reads.
BeforeSleep ==
  /\ At("events")
  /\ IF /\ "poll" \in Features
        /\ active > 1 /\ Readers(State) \cup Writers(State) # {} /\ poll = "none"
        /\ ~IsFull(jobs[active - 1])
     THEN /\ poll' = "poll"
          /\ jobs' = [jobs EXCEPT ![active - 1] = Push(@, [kind |-> "poll", c |-> 0])]
     ELSE UNCHANGED <<poll, jobs>>
  /\ main' = IF Readers(State) = {} THEN ToAdjust(State) ELSE In("reads", Readers(State))
  /\ UNCHANGED <<cl, active, num, thr, mutex>>

ReadPhase == At("reads") \/ At("reads2")

\* processIOThreadsReadDone meets a client whose I/O is not finished.
SkipRead(c) ==
  /\ ReadPhase
  /\ c \in main.todo
  /\ Busy(cl[c])
  /\ Walk(State, main.todo \ {c})
  /\ UNCHANGED <<active, num, thr, mutex, poll>>

\* What a request of client c does besides its reply.
Command == [op : {"reply"} \cup (Features \cap {"publish", "kill", "free"}), d : Client]

\* The arguments of the command are freed by an I/O thread if possible.
OffloadFree(st, c) ==
  IF active > 1 /\ ~IsFull(st.jobs[HomeThread(c)])
  THEN [st EXCEPT !.jobs[HomeThread(c)] = Push(@, [kind |-> "free", c |-> 0])]
  ELSE st

RunCommand(st, c, cmd) ==
  CASE cmd.op = "reply"   -> AddReply(st, c)
    [] cmd.op = "publish" -> AddReply(AddReply(st, c), cmd.d)
    [] cmd.op = "free"    -> OffloadFree(AddReply(st, c), c)
    [] cmd.op = "kill"    -> AddReply(IF cmd.d = c THEN st ELSE FreeClient(st, cmd.d), c)

\* MaxOut, and the wait of freeClient for a client that is killed.
MayRun(st, c, cmd) ==
  /\ st.cl[c].out < MaxOut
  /\ cmd.op = "publish" => st.cl[cmd.d].out < MaxOut - (IF cmd.d = c THEN 1 ELSE 0)
  /\ cmd.op = "kill" => MayFree(st.cl[cmd.d])

\* The states after the main thread served what was read from an open client:
\* nothing to read, a connection that is gone, an incomplete request, a request.
\* A failed read of an I/O thread ends the service of the client at once.
Served(st, c, offloaded) ==
  LET Failed(s) == IF offloaded THEN s ELSE BeforeNextClient(s, c)
  IN  {Failed(st), BeforeNextClient(st, c)}
        \cup {Failed(FreeClientAsync(s, c)) : s \in IF "errors" \in Features THEN {st} ELSE {}}
        \cup {BeforeNextClient(RunCommand(st, c, cmd), c) :
                cmd \in {cmd \in Command : MayRun(st, c, cmd)}}

\* connUpdateState for a connection that is being accepted
Accepted(st, c) ==
  {st, [st EXCEPT !.cl[c].conn = "open"]}
     \cup {FreeClientAsync(s, c) : s \in IF "errors" \in Features THEN {st} ELSE {}}

\* A finished read as processIOThreadsReadDone takes it, after the result of a
\* write that finished at the same time.
ReadTaken(c, r) ==
  LET st == IF cl[c].write = "completed" THEN ProcessClientIOWriteDone(State, c, r, FALSE)
                                         ELSE State
  IN  [st EXCEPT !.cl[c].read = "idle"]

ReadIsDone(c) == cl[c].read = "completed" /\ cl[c].write # "pending"

\* One client of processIOThreadsReadDone.  The walk starts again when a client
\* has left the list meanwhile.
ReadDone(c) ==
  /\ ReadPhase
  /\ c \in main.todo
  /\ ReadIsDone(c)
  /\ \E r \in WriteResult(cl[c].last) :
       LET st   == ReadTaken(c, r)
           x    == st.cl[c]
           Done == IF x.close_asap THEN {st}
                   ELSE IF x.conn = "accepting" THEN Accepted(st, c)
                   ELSE Served(st, c, TRUE)
       IN  \E after \in Done :
             Walk(after, IF Readers(after) = Readers(st) THEN main.todo \ {c}
                                                         ELSE Readers(after))
  /\ UNCHANGED <<active, num, thr, mutex, poll>>

\* The request is CONFIG SET io-threads n.
ReadResize(c, n) ==
  /\ ReadPhase
  /\ "resize" \in Features
  /\ c \in main.todo
  /\ ReadIsDone(c)
  /\ \E r \in WriteResult(cl[c].last) :
       LET st == ReadTaken(c, r)
       IN  /\ ~st.cl[c].close_asap /\ st.cl[c].conn = "open" /\ st.cl[c].out < MaxOut
           /\ Apply(st)
  /\ num' = n
  /\ main' = [main EXCEPT !.sub = "drain", !.who = c, !.todo = @ \ {c}]
  /\ UNCHANGED <<active, thr, mutex, poll>>

\* handleClientsWithPendingWrites starts with adjustIOThreadsByEventLoad, which
\* may only add threads here.
AdjustForWrites(n) ==
  /\ At("adjust")
  /\ main' = IF n > active THEN [main EXCEPT !.sub = "adjust", !.target = n]
             ELSE ToWrites(State)
  /\ UNCHANGED <<cl, jobs, active, num, thr, mutex, poll>>

\* One client of handleClientsWithPendingWrites.
PendingWrite(c) ==
  /\ At("writes")
  /\ c \in main.todo
  /\ LET st      == [State EXCEPT !.cl[c].listed = FALSE]
         x       == cl[c]
         Go(s)   == Walk(s, main.todo \ {c})
     IN  IF x.close_asap \/ x.out = 0 \/ AlreadyWriting(st, c) THEN Go(st)
         ELSE IF CanSendWrite(st, c) THEN Go(SendWrite(st, c))
         ELSE IF x.write # "idle" \/ x.read # "idle" THEN Go(st)
         ELSE \E r \in WriteResult(x.out) :
                LET post == PostWrite(st, c, r)
                IN  Go([post EXCEPT !.cl[c].handler =
                             @ \/ (post.cl[c].out > 0 /\ ~post.cl[c].close_asap)])
  /\ UNCHANGED <<active, num, thr, mutex, poll>>

\* One client of processIOThreadsWriteDone.
WriteDone(c) ==
  /\ At("writedone")
  /\ c \in main.todo
  /\ IF Busy(cl[c]) THEN Walk(State, main.todo \ {c})
     ELSE \E r \in WriteResult(cl[c].last) :
            Walk(ProcessClientIOWriteDone(State, c, r, TRUE), main.todo \ {c})
  /\ UNCHANGED <<active, num, thr, mutex, poll>>

\* freeClientsInAsyncFreeQueue
FreeQueued(c) ==
  /\ At("free")
  /\ c \in main.todo
  /\ MayFree(cl[c])
  /\ Walk(FreeClient(State, c), main.todo \ {c})
  /\ UNCHANGED <<active, num, thr, mutex, poll>>

\* aePoll, by getIOThreadPollResults if a poll job was sent, and afterSleep, which
\* adjusts the threads to n, any number the load may ask for.  A poll job still
\* running gives no event.
Sleep(n) ==
  /\ At("sleep")
  /\ poll = "poll" => n = 1
  /\ poll' = IF poll = "done" THEN "none" ELSE poll
  /\ main' = IF n = active THEN In("events", {})
             ELSE [main EXCEPT !.sub = "adjust", !.target = n]
  /\ UNCHANGED <<cl, jobs, active, num, thr, mutex>>

\* Mutant of MayPark: a thread is parked whatever its ring holds.
MayParkBusy(t) == mutex[t] = "free"

\* A thread without jobs is parked by taking its mutex.
MayPark(t) == IsEmpty(jobs[t]) /\ mutex[t] = "free"

\* One round of adjustIOThreadsByEventLoad.
Activate ==
  /\ main.sub = "adjust"
  /\ active < main.target
  /\ mutex' = [mutex EXCEPT ![active] = "free"]
  /\ active' = active + 1
  /\ UNCHANGED <<cl, jobs, num, thr, poll, main>>

Deactivate ==
  /\ main.sub = "adjust"
  /\ main.phase = "sleep"
  /\ active > main.target
  /\ MayPark(active - 1)
  /\ mutex' = [mutex EXCEPT ![active - 1] = "main"]
  /\ active' = active - 1
  /\ UNCHANGED <<cl, jobs, num, thr, poll, main>>

Adjusted ==
  /\ main.sub = "adjust"
  /\ \/ active = main.target
     \/ active > main.target /\ (main.phase = "adjust" \/ ~IsEmpty(jobs[active - 1]))
  /\ main' = IF main.phase = "adjust" THEN ToWrites(State) ELSE In("events", {})
  /\ UNCHANGED <<cl, jobs, active, num, thr, mutex, poll>>

-----------------------------------------------------------------------------
(* Events.                                                                 *)

\* acceptCommonHandler, and later events of a TLS handshake:
\* trySendAcceptToIOThreads.  The thread of the job is not recorded in cur_tid.
Accept(c) ==
  /\ At("events")
  /\ cl[c].conn # "open" /\ cl[c].read = "idle" /\ ~cl[c].close_asap
  /\ LET st == [State EXCEPT !.cl[c].conn = "accepting"]
         t  == HomeThread(c)
     IN  IF "tls" \notin Features THEN Apply([State EXCEPT !.cl[c].conn = "open"])
         ELSE IF num > 1 /\ active > 1 /\ ~IsFull(jobs[t])
         THEN Apply([st EXCEPT !.cl[c].read = "pending",
                               !.jobs[t] = Push(@, [kind |-> "accept", c |-> c])])
         ELSE \E after \in Accepted(st, c) : Apply(after)
  /\ UNCHANGED <<active, num, thr, mutex, poll, main>>

\* readQueryFromClient; a client in flight is left alone.
Readable(c) ==
  /\ At("events")
  /\ cl[c].conn = "open" /\ cl[c].read = "idle"
  /\ \/ CanSendRead(State, c) /\ Apply(SendRead(State, c))
     \/ /\ ~CanSendRead(State, c) /\ cl[c].write = "idle"
        /\ \E after \in Served(State, c, FALSE) : Apply(after)
  /\ UNCHANGED <<active, num, thr, mutex, poll, main>>

ReadableResize(c, n) ==
  /\ At("events")
  /\ "resize" \in Features
  /\ cl[c].conn = "open" /\ cl[c].read = "idle" /\ cl[c].write = "idle"
  /\ ~CanSendRead(State, c) /\ ~cl[c].close_asap /\ cl[c].out < MaxOut
  /\ num' = n
  /\ main' = [main EXCEPT !.sub = "drain", !.who = c]
  /\ UNCHANGED <<cl, jobs, active, thr, mutex, poll>>

\* sendReplyToClient
Writable(c) ==
  /\ At("events")
  /\ cl[c].handler /\ ~AlreadyWriting(State, c)
  /\ IF CanSendWrite(State, c) THEN Apply(SendWrite(State, c))
     ELSE \E r \in WriteResult(cl[c].out) : Apply(WriteToClient(State, c, r))
  /\ UNCHANGED <<active, num, thr, mutex, poll, main>>

\* A limit or a time out closes a client that may have I/O in flight.
CloseAsync(c) ==
  /\ At("events")
  /\ "errors" \in Features
  /\ cl[c].conn # "none"
  /\ Apply(FreeClientAsync(State, c))
  /\ UNCHANGED <<active, num, thr, mutex, poll, main>>

-----------------------------------------------------------------------------
(* updateIOThreads, step by step.                                          *)

Started == {t \in Thread : thr[t].pc # "off"}

Last == Cardinality(Started)      \* threads are numbered without gaps

ResizeNothing ==
  /\ main.sub = "drain"
  /\ Last + 1 = num
  /\ main' = [main EXCEPT !.sub = "done"]
  /\ UNCHANGED <<cl, jobs, active, num, thr, mutex, poll>>

\* drainIOThreadsQueue
Drained ==
  /\ main.sub = "drain"
  /\ Last + 1 # num
  /\ \A t \in Thread : IsEmpty(jobs[t])
  /\ main' = [main EXCEPT !.sub = "lock", !.target = 1]
  /\ UNCHANGED <<cl, jobs, active, num, thr, mutex, poll>>

\* Park the active threads in increasing order, target being the next one.
LockActive ==
  /\ main.sub = "lock"
  /\ main.target < active
  /\ mutex[main.target] = "free"
  /\ mutex' = [mutex EXCEPT ![main.target] = "main"]
  /\ main' = [main EXCEPT !.target = @ + 1]
  /\ UNCHANGED <<cl, jobs, active, num, thr, poll>>

\* createIOThread for every new thread
CreateThreads ==
  /\ main.sub = "lock"
  /\ main.target = active
  /\ Last + 1 < num
  /\ active' = 1
  /\ thr' = [t \in Thread |-> IF Last < t /\ t < num THEN [pc |-> "top", left |-> 0] ELSE thr[t]]
  /\ mutex' = [t \in Thread |-> IF Last < t /\ t < num THEN "main" ELSE mutex[t]]
  /\ main' = [main EXCEPT !.sub = "done"]
  /\ UNCHANGED <<cl, jobs, num, poll>>

BeginShrink ==
  /\ main.sub = "lock"
  /\ main.target = active
  /\ Last + 1 > num
  /\ active' = 1
  /\ main' = [main EXCEPT !.sub = "unblock"]
  /\ UNCHANGED <<cl, jobs, num, thr, mutex, poll>>

\* pthread_mutex_unlock of the last thread, by updateIOThreads
Unblock ==
  /\ main.sub = "unblock"
  /\ mutex' = [mutex EXCEPT ![Last] = "free"]
  /\ main' = [main EXCEPT !.sub = "shutdown"]
  /\ UNCHANGED <<cl, jobs, active, num, thr, poll>>

\* shutdownIOThread: the mutex of an inactive thread is unlocked, and the thread
\* is told to end.  After Unblock the main thread does not hold it any more; the
\* second unlock is taken to do nothing.
ShutdownIOThread ==
  /\ main.sub = "shutdown"
  /\ mutex' = IF Last >= active THEN [mutex EXCEPT ![Last] = "free"] ELSE mutex
  /\ main' = [main EXCEPT !.sub = "join", !.target = Last]
  /\ UNCHANGED <<cl, jobs, active, num, thr, poll>>

\* pthread_join returns and the ring is cleaned up.
Joined ==
  /\ main.sub = "join"
  /\ thr[main.target].pc = "off"
  /\ jobs' = [jobs EXCEPT ![main.target] = EmptyRing]
  /\ main' = [main EXCEPT !.sub = IF Last + 1 > num THEN "unblock" ELSE "done"]
  /\ UNCHANGED <<cl, active, num, thr, mutex, poll>>

\* The command ends: its reply and what follows every command.
Resized ==
  /\ main.sub = "done"
  /\ LET st == BeforeNextClient(AddReply(State, main.who), main.who)
     IN  /\ Apply(st)
         /\ main' = IF main.phase # "events" /\ main.todo = {} THEN After(main.phase, st)
                    ELSE In(main.phase, main.todo)
  /\ UNCHANGED <<active, num, thr, mutex, poll>>

-----------------------------------------------------------------------------
(* An I/O thread: IOThreadMain.                                            *)

ThreadOnly(t, s) == thr' = [thr EXCEPT ![t] = s]

\* pthread_testcancel
Cancelled(t) ==
  /\ thr[t].pc = "top"
  /\ main.sub = "join" /\ main.target = t
  /\ ThreadOnly(t, [pc |-> "off", left |-> 0])
  /\ UNCHANGED <<cl, jobs, active, num, mutex, poll, main>>

\* Jobs are there: as many as seen now are handled before the next look.
TakeJobs(t) ==
  /\ thr[t].pc = "top"
  /\ AvailableJobs(jobs[t]) > 0
  /\ ThreadOnly(t, [pc |-> "handle", left |-> AvailableJobs(jobs[t])])
  /\ UNCHANGED <<cl, jobs, active, num, mutex, poll, main>>

\* The wait for jobs is given up.
GiveUp(t) ==
  /\ thr[t].pc = "top"
  /\ AvailableJobs(jobs[t]) = 0
  /\ ThreadOnly(t, [pc |-> "lock", left |-> 0])
  /\ UNCHANGED <<cl, jobs, active, num, mutex, poll, main>>

\* The mutex is taken and released at once, if the main thread does not hold it.
Pass(t) ==
  /\ thr[t].pc = "lock"
  /\ mutex[t] = "free"
  /\ ThreadOnly(t, [pc |-> "top", left |-> 0])
  /\ UNCHANGED <<cl, jobs, active, num, mutex, poll, main>>

\* ioThreadReadQueryFromClient, ioThreadWriteToClient, ioThreadAccept, IOThreadPoll
\* and the freeing jobs run to their end.
Handle(t) ==
  /\ thr[t].pc = "handle"
  /\ LET j == Peek(jobs[t])
     IN  /\ cl' = CASE j.kind \in {"read", "accept"} -> [cl EXCEPT ![j.c].read = "completed"]
                    [] j.kind = "write"              -> [cl EXCEPT ![j.c].write = "completed"]
                    [] OTHER                         -> cl
         /\ poll' = IF j.kind = "poll" THEN "done" ELSE poll
  /\ ThreadOnly(t, [thr[t] EXCEPT !.pc = "remove"])
  /\ UNCHANGED <<jobs, active, num, mutex, main>>

Remove(t) ==
  /\ thr[t].pc = "remove"
  /\ jobs' = [jobs EXCEPT ![t] = RemoveJob(@)]
  /\ ThreadOnly(t, [pc |-> IF thr[t].left = 1 THEN "top" ELSE "handle", left |-> thr[t].left - 1])
  /\ UNCHANGED <<cl, active, num, mutex, poll, main>>

-----------------------------------------------------------------------------
\* initIOThreads: all threads exist and are parked.
Init ==
  /\ cl = [c \in Client |-> NoClient]
  /\ jobs = [t \in Thread |-> EmptyRing]
  /\ active = 1
  /\ num = InitNum
  /\ thr = [t \in Thread |-> [pc |-> IF t < InitNum THEN "top" ELSE "off", left |-> 0]]
  /\ mutex = [t \in Thread |-> IF t < InitNum THEN "main" ELSE "free"]
  /\ poll = "none"
  /\ main = In("events", {})

ServeClient(c) ==
  \/ SkipRead(c) \/ ReadDone(c) \/ PendingWrite(c) \/ WriteDone(c) \/ FreeQueued(c)
  \/ \E n \in 1..MaxThreads : ReadResize(c, n)

Event(c) ==
  \/ Accept(c) \/ Readable(c) \/ Writable(c) \/ CloseAsync(c)
  \/ \E n \in 1..MaxThreads : ReadableResize(c, n)

Loop ==
  \/ BeforeSleep
  \/ \E n \in 1..num : AdjustForWrites(n) \/ Sleep(n)
  \/ Activate \/ Deactivate \/ Adjusted

Update ==
  \/ ResizeNothing \/ Drained \/ LockActive \/ CreateThreads \/ BeginShrink
  \/ Unblock \/ ShutdownIOThread \/ Joined \/ Resized

Main == Loop \/ Update \/ \E c \in Client : ServeClient(c)

IOThreadMain(t) ==
  Cancelled(t) \/ TakeJobs(t) \/ GiveUp(t) \/ Pass(t) \/ Handle(t) \/ Remove(t)

Next ==
  \/ Main
  \/ \E c \in Client : Event(c)
  \/ \E t \in Thread : IOThreadMain(t)

Spec == Init /\ [][Next]_vars

\* The scheduler lets every thread that can go on go on; the main thread leaves
\* the events phase even if more events are ready (aeProcessEvents handles a
\* finite number).
FairSpec ==
  /\ Spec
  /\ WF_vars(Main)
  /\ \A t \in Thread : WF_vars(IOThreadMain(t))

-----------------------------------------------------------------------------
(* Properties.                                                             *)

\* Every variable stays in its domain.
TypeOK ==
  /\ cl \in [Client -> ClientState]
  /\ jobs \in [Thread -> [buf : [Index -> Job], head : Index, tail : Index]]
  /\ active \in 1..MaxThreads /\ num \in 1..MaxThreads
  /\ thr \in [Thread -> [pc : {"off", "top", "lock", "handle", "remove"},
                         left : 0 .. (QueueSize - 1)]]
  /\ mutex \in [Thread -> {"free", "main"}]
  /\ poll \in {"none", "poll", "done"}
  /\ main \in MainType

\* The assertions of IOJobQueue_push: the slot at the head is free whenever the
\* main thread may push, and availableJobs counts exactly the filled slots.
RingOK ==
  \A t \in Thread :
    LET jq     == jobs[t]
        filled == {i \in Index : jq.buf[i] # NoJob}
    IN  /\ jq.buf[jq.head] = NoJob
        /\ Cardinality(filled) = AvailableJobs(jq)
        /\ thr[t].left <= AvailableJobs(jq)

\* The jobs that are still going to touch client c, or are touching it.
Unfinished(c, kinds) ==
  {x \in Thread \X Index :
     LET jq == jobs[x[1]]
     IN  /\ jq.buf[x[2]].c = c /\ jq.buf[x[2]].kind \in kinds
         /\ ~(x[2] = jq.tail /\ thr[x[1]].pc = "remove")}

\* A client state is PENDING_IO exactly while one job of that direction has still
\* to finish, so that waitForClientIO waits for every thread that may touch the
\* client: none has a job for a client that is freed.
JobMatchesState ==
  \A c \in Client :
    /\ Cardinality(Unfinished(c, {"read", "accept"})) = (IF cl[c].read = "pending" THEN 1 ELSE 0)
    /\ Cardinality(Unfinished(c, {"write"})) = (IF cl[c].write = "pending" THEN 1 ELSE 0)

\* "The same thread handles the client's I/O operations" (trySendReadToIOThreads,
\* trySendWriteToIOThreads): the read and the write of one client are never on two
\* threads, whatever the number of active threads became in between.
OneThreadPerClient ==
  \A c \in Client : \A a, b \in Unfinished(c, {"read", "write", "accept"}) : a[1] = b[1]

\* "We can't lock the thread if it may have pending jobs": a thread with jobs is
\* active and not parked, or drainIOThreadsQueue and waitForClientIO would wait for ever.
\* "If the main thread checks and finds the queue empty, it can be certain that the
\* IO thread is not currently handling any job": a thread parked, or cancelled by
\* updateIOThreads, is not in the middle of a job.
JobsOnActiveThreads ==
  \A t \in Thread :
    /\ ~IsEmpty(jobs[t]) => t < active /\ mutex[t] # "main"
    /\ thr[t].pc \in {"handle", "remove"} =>
         /\ ~IsEmpty(jobs[t])
         /\ ~(main.sub \in {"unblock", "shutdown", "join"} /\ t >= num)

\* prepareClientToWrite schedules a client only when its buffer is empty, because
\* "it should already be setup to do so" otherwise: so a client with replies and no
\* I/O in flight is in clients_pending_write or has its write handler.
ReplyIsScheduled ==
  \A c \in Client :
    /\ cl[c].out > 0 /\ ~cl[c].close_asap
    /\ cl[c].read = "idle" /\ cl[c].write = "idle"
    /\ main.who # c
    => cl[c].listed \/ cl[c].handler

\* What was handed to a thread is done: no thread is parked, stopped or left
\* waiting for its mutex with the I/O of a client in its ring.
IOCompletes ==
  \A c \in Client :
    /\ cl[c].read = "pending" ~> cl[c].read # "pending"
    /\ cl[c].write = "pending" ~> cl[c].write # "pending"
=============================================================================
