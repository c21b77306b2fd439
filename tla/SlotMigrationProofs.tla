------------------------- MODULE SlotMigrationProofs --------------------------
(***************************************************************************)
(* Theorems about SlotMigration, for any number of nodes, slots and        *)
(* migrations and any scenario.                                            *)
(***************************************************************************)
EXTENDS SlotMigration, SequenceTheorems, FiniteSetTheorems, TLAPS

-------------------------------------------------------------------------------
(* A job.                                                                  *)

Control   == [k : {"establish", "ack", "eof", "paused", "granted"}]
Values(j) == [Slots(j) -> Seq(Nat)]

(* What travels from the source of j to its target, and back.              *)
MsgFor(j) ==
    Control \cup [k : {"snap"}, v : Values(j)]
            \cup [k : {"data"}, s : Slots(j), w : Nat]
Reply == {"ok", "error", "request_pause", "request_failover"}

ExportType(j) ==
    [st : ExportInProgress \cup Finished \cup {"none"},
     mf : {"none", "armed", "late"}, out : Seq(MsgFor(j)), pend : BOOLEAN]

LinkType(j) ==
    [src : BOOLEAN, dst : BOOLEAN, cut : BOOLEAN, tot : Seq(MsgFor(j)),
     tos : Seq(Reply)]

ImportType == ImportInProgress \cup {"none", "cleaning", "success", "failed"}
Importing  == ImportInProgress \cup {"cleaning"}

(* Before the target has accepted the job the source has no keys to send.  *)
Unopened(e, l) ==
    /\ ~Fed(e) /\ e.st # "wait_snapshot"
    /\ l.tos \in Seq(Reply \ {"ok"}) /\ l.tot \in Seq(Control)

(* Keys are queued for an export only while it is fed; they travel only    *)
(* after the target has begun the import, which is in progress as long as  *)
(* its end of the connection is open.                                      *)
JobOK(j, e, l, i) ==
    /\ e \in ExportType(j) /\ l \in LinkType(j) /\ i \in ImportType
    /\ ~Fed(e) => e.out \in Seq(Control)
    /\ l.dst /\ i \notin ImportInProgress => Unopened(e, l)

(* addReply of a control message.                                          *)
LEMMA SayOK ==
    ASSUME NEW j, NEW e \in ExportType(j), NEW m \in Control,
           ~Fed(e) => e.out \in Seq(Control)
    PROVE  /\ Say(e, m) \in ExportType(j)
           /\ Say(e, m).st = e.st /\ Say(e, m).mf = e.mf
           /\ ~Fed(e) => Say(e, m).out \in Seq(Control)
<1>1. m \in MsgFor(j)
  BY DEF MsgFor
<1>2. e.out \in Seq(MsgFor(j)) /\ e.pend \in BOOLEAN
  BY DEF ExportType
<1> DEFINE o == Append(e.out, m)
           p == e.pend \/ (e.out = <<>> /\ e.st # "snapshotting")
<1>3. o \in Seq(MsgFor(j)) /\ p \in BOOLEAN
  BY <1>1, <1>2, AppendProperties
<1>4. ~Fed(e) => o \in Seq(Control)
  BY AppendProperties
<1>5. Say(e, m) = [e EXCEPT !.out = o, !.pend = p]
  BY DEF Say
<1> HIDE DEF o, p
<1> QED BY <1>3, <1>4, <1>5 DEF ExportType

(* addReply of a write of a client.                                        *)
LEMMA SayDataOK ==
    ASSUME NEW j, NEW e \in ExportType(j), NEW m \in MsgFor(j)
    PROVE  /\ Say(e, m) \in ExportType(j)
           /\ Say(e, m).st = e.st /\ Say(e, m).mf = e.mf
<1>2. e.out \in Seq(MsgFor(j)) /\ e.pend \in BOOLEAN
  BY DEF ExportType
<1> DEFINE o == Append(e.out, m)
           p == e.pend \/ (e.out = <<>> /\ e.st # "snapshotting")
<1>3. o \in Seq(MsgFor(j)) /\ p \in BOOLEAN
  BY <1>2, AppendProperties
<1>5. Say(e, m) = [e EXCEPT !.out = o, !.pend = p]
  BY DEF Say
<1> HIDE DEF o, p
<1> QED BY <1>3, <1>5 DEF ExportType

(* An end of the connection is closed.                                     *)
LEMMA CloseSourceOK ==
    ASSUME NEW j, NEW l \in LinkType(j)
    PROVE  /\ CloseSource(l) \in LinkType(j) /\ CloseSource(l).dst = l.dst
           /\ CloseSource(l).tot = l.tot /\ CloseSource(l).tos = <<>>
<1>1. <<>> \in Seq(Reply)
  OBVIOUS
<1> QED BY <1>1 DEF CloseSource, LinkType

(* The other end.                                                          *)
LEMMA CloseTargetOK ==
    ASSUME NEW j, NEW l \in LinkType(j)
    PROVE  CloseTarget(l) \in LinkType(j) /\ CloseTarget(l).dst = FALSE
<1>1. <<>> \in Seq(MsgFor(j))
  OBVIOUS
<1> QED BY <1>1 DEF CloseTarget, LinkType

(* What a source writes to the connection.                                 *)
LEMMA ToTargetOK ==
    ASSUME NEW j, NEW l \in LinkType(j), NEW ms \in Seq(MsgFor(j))
    PROVE  /\ ToTarget(l, ms) \in LinkType(j)
           /\ ToTarget(l, ms).dst = l.dst /\ ToTarget(l, ms).tos = l.tos
           /\ ms \in Seq(Control) /\ l.tot \in Seq(Control)
                => ToTarget(l, ms).tot \in Seq(Control)
<1> DEFINE t == l.tot \o ms
<1>1. t \in Seq(MsgFor(j))
  BY ConcatProperties DEF LinkType
<1>2. ms \in Seq(Control) /\ l.tot \in Seq(Control) => t \in Seq(Control)
  BY ConcatProperties
<1>3. ToTarget(l, ms) = l \/ ToTarget(l, ms) = [l EXCEPT !.tot = t]
  BY DEF ToTarget
<1> HIDE DEF t
<1> QED BY <1>1, <1>2, <1>3 DEF LinkType

(* What a target answers.                                                  *)
LEMMA ToSourceOK ==
    ASSUME NEW j, NEW l \in LinkType(j), NEW m \in Reply
    PROVE  /\ ToSource(l, m) \in LinkType(j)
           /\ ToSource(l, m).dst = l.dst /\ ToSource(l, m).tot = l.tot
           /\ m # "ok" /\ l.tos \in Seq(Reply \ {"ok"})
                => ToSource(l, m).tos \in Seq(Reply \ {"ok"})
<1> DEFINE t == Append(l.tos, m)
<1>1. t \in Seq(Reply)
  BY AppendProperties DEF LinkType
<1>2. m # "ok" /\ l.tos \in Seq(Reply \ {"ok"}) => t \in Seq(Reply \ {"ok"})
  <2>1. ASSUME m # "ok", l.tos \in Seq(Reply \ {"ok"})
        PROVE  t \in Seq(Reply \ {"ok"})
    <3>1. m \in Reply \ {"ok"}
      BY <2>1
    <3> QED BY <2>1, <3>1, AppendProperties
  <2> QED BY <2>1
<1>3. ToSource(l, m) = l \/ ToSource(l, m) = [l EXCEPT !.tos = t]
  BY DEF ToSource
<1> HIDE DEF t
<1> QED BY <1>1, <1>2, <1>3 DEF LinkType

(* The first message is taken from the connection.                         *)
LEMMA TailOK ==
    ASSUME NEW S, NEW q \in Seq(S), q # <<>>
    PROVE  Tail(q) \in Seq(S) /\ Head(q) \in S
  BY HeadTailProperties


-------------------------------------------------------------------------------
(* The state a step carries along, and the invariant.  Epochs have no part *)
(* in it.                                                                  *)

ChildOK(n, c) ==
    c # None => /\ c \in [job : {c.job}, st : {c.st}, v : {c.v}]
                /\ c.job \in Exports(n) /\ c.v \in Values(c.job)

NodeOK(n, nd) ==
    /\ nd \in [owner : {nd.owner}, conf : {nd.conf}, cur : {nd.cur}, val : {nd.val},
               paused : BOOLEAN, child : {nd.child}, pipe : {nd.pipe}]
    /\ nd.owner \in [Slot -> Node] /\ nd.val \in [Slot -> Seq(Nat)]
    /\ ChildOK(n, nd.child)

IsState(T) ==
    /\ T \in [node : {T.node}, exp : {T.exp}, imp : {T.imp}, link : {T.link},
              risk : SUBSET Slot, asserts : {T.asserts}]
    /\ T.node = [n \in Node |-> T.node[n]] /\ T.exp = [j \in Job |-> T.exp[j]]
    /\ T.link = [j \in Job |-> T.link[j]] /\ T.imp = [j \in Job |-> T.imp[j]]

IsRecord(T) ==
    T \in [node : {T.node}, exp : {T.exp}, imp : {T.imp}, link : {T.link},
           risk : {T.risk}, asserts : {T.asserts}]

NodesOK(T) == \A n \in Node : NodeOK(n, T.node[n])
JobsOK(T)  == \A j \in Job : JobOK(j, T.exp[j], T.link[j], T.imp[j])

(* An export that was granted wants the pause, which is therefore not      *)
(* ended for another job; it runs out only at a deadline.                  *)
Firm(T) ==
    \A j \in Job : T.exp[j].st = "granted" /\ ~(Slots(j) \subseteq T.risk) =>
        T.exp[j].mf # "none" /\ T.node[Src(j)].paused

(* The child writes for an export that is fed.                             *)
ChildRuns(T) ==
    \A n \in Node : T.node[n].child # None /\ T.node[n].child.st = "writing" =>
        Fed(T.exp[T.node[n].child.job])

Good(T) ==
    mode \in Modes /\ IsState(T) /\ NodesOK(T) /\ JobsOK(T) /\ Firm(T) /\ ChildRuns(T)

(* Keys are in slots that are owned or imported, but for slots S of n.     *)
CleanBut(T, n, S) ==
    \A m \in Node, s \in Slot :
        T.node[m].val[s] # <<>> =>
            T.node[m].owner[s] = m \/ IsSlotImporting(T, m, s) \/ (m = n /\ s \in S)

(* What a step from T to U leaves alone.                                   *)
KeepsClean(T, U) == \A k, S : CleanBut(T, k, S) => CleanBut(U, k, S)

KeepsKeys(T, U) ==
    \A m \in Node : U.node[m].owner = T.node[m].owner /\ U.node[m].val = T.node[m].val

EndsJobs(T, U, J, st) ==
    /\ \A j \in J : U.exp[j].st = st
    /\ \A j \in Job \ J : U.exp[j] = T.exp[j] /\ U.link[j] = T.link[j]

(* Facts about the scenario.                                               *)
LEMMA ModeFacts ==
    ASSUME mode \in Modes
    PROVE  \A j \in Job : /\ Src(j) \in Node /\ Dst(j) \in Node
                          /\ Slots(j) \subseteq Slot /\ Slots(j) # {}
<1>1. mode \in ModeType
  BY ModesAssumption
<1>2. mode.jobs \in [Job -> [src : Node, dst : Node, slots : (SUBSET Slot) \ {{}}]]
  BY <1>1 DEF ModeType
<1> QED BY <1>2 DEF Src, Dst, Slots

WithJob(T, U, j, e, l, i) ==
    /\ IsRecord(U) /\ U.node = T.node /\ U.risk = T.risk
    /\ U.exp = [T.exp EXCEPT ![j] = e] /\ U.link = [T.link EXCEPT ![j] = l]
    /\ U.imp = [T.imp EXCEPT ![j] = i]

(* A job stays fed and importing, and is granted only in a pause it wants. *)
JobMoves(T, j, e, i) ==
    /\ Fed(T.exp[j]) => Fed(e)
    /\ T.imp[j] \in Importing => i \in Importing
    /\ e.st = "granted" =>
          \/ e.mf # "none" /\ T.node[Src(j)].paused
          \/ T.exp[j].st = "granted" /\ (T.exp[j].mf # "none" => e.mf # "none")

(* A step that leaves the nodes alone and changes one job.                 *)
LEMMA JobChanges ==
    ASSUME NEW T, Good(T), NEW j \in Job, NEW e, NEW l, NEW i, NEW U,
           WithJob(T, U, j, e, l, i),
           JobOK(j, e, l, i), JobMoves(T, j, e, i)
    PROVE  Good(U) /\ KeepsClean(T, U)
<1>1. /\ IsState(U) /\ U.node = T.node /\ U.risk = T.risk
      /\ U.exp = [T.exp EXCEPT ![j] = e] /\ U.link = [T.link EXCEPT ![j] = l]
      /\ U.imp = [T.imp EXCEPT ![j] = i]
  BY DEF Good, IsState, WithJob, IsRecord
<1>2. /\ U.exp[j] = e /\ U.link[j] = l /\ U.imp[j] = i
      /\ \A k \in Job \ {j} : /\ U.exp[k] = T.exp[k] /\ U.link[k] = T.link[k]
                              /\ U.imp[k] = T.imp[k]
  BY <1>1 DEF Good, IsState
<1>3. NodesOK(U)
  BY <1>1 DEF Good, NodesOK
<1>4. JobsOK(U)
  BY <1>2 DEF Good, JobsOK
<1>5. Firm(U)
  BY <1>1, <1>2 DEF Good, Firm, JobMoves
<1>6. ChildRuns(U)
  <2> SUFFICES ASSUME NEW n \in Node, U.node[n].child # None,
                      U.node[n].child.st = "writing"
               PROVE  Fed(U.exp[U.node[n].child.job])
    BY DEF ChildRuns
  <2>1. T.node[n].child # None /\ Fed(T.exp[T.node[n].child.job])
    BY <1>1 DEF Good, ChildRuns
  <2>2. T.node[n].child.job \in Job
    BY <2>1 DEF Good, NodesOK, NodeOK, ChildOK, Exports
  <2> QED BY <1>1, <1>2, <2>1, <2>2 DEF JobMoves
<1>7. ASSUME NEW m, NEW s, IsSlotImporting(T, m, s) PROVE IsSlotImporting(U, m, s)
  <2>1. PICK k \in Imports(m) : s \in Slots(k) /\ T.imp[k] \in Importing
    BY <1>7 DEF IsSlotImporting, Importing
  <2>2. k \in Job
    BY DEF Imports
  <2>3. U.imp[k] \in Importing
    BY <1>2, <2>1, <2>2 DEF JobMoves
  <2> QED BY <2>1, <2>3 DEF IsSlotImporting, Importing
<1>8. ASSUME NEW n, NEW S, CleanBut(T, n, S) PROVE CleanBut(U, n, S)
  BY <1>1, <1>7, <1>8 DEF CleanBut
<1>9. Good(U)
  BY <1>1, <1>3, <1>4, <1>5, <1>6 DEF Good
<1> QED BY <1>8, <1>9 DEF KeepsClean


-------------------------------------------------------------------------------
(* The end of jobs.                                                        *)

(* A node's pause ends only if no export that was granted wants it, or at  *)
(* its deadline.                                                           *)
PauseKept(T, n, nd) ==
    T.node[n].paused =>
        \/ nd.paused
        \/ \A j \in Exports(n) : T.exp[j].st = "granted" =>
                T.exp[j].mf = "none" \/ Slots(j) \subseteq T.risk

ChildFed(T, nd) ==
    nd.child # None /\ nd.child.st = "writing" => Fed(T.exp[nd.child.job])

WithNode(T, U, n, nd) ==
    /\ IsRecord(U) /\ U.node = [T.node EXCEPT ![n] = nd]
    /\ U.exp = T.exp /\ U.imp = T.imp /\ U.link = T.link /\ U.risk = T.risk

(* A step that changes one node.                                           *)
LEMMA NodeChanges ==
    ASSUME NEW T, Good(T), NEW n \in Node, NEW nd, NEW U,
           WithNode(T, U, n, nd),
           NodeOK(n, nd), PauseKept(T, n, nd), ChildFed(T, nd)
    PROVE  /\ Good(U) /\ U.exp = T.exp /\ U.imp = T.imp /\ U.link = T.link
           /\ U.risk = T.risk
           /\ U.node[n] = nd /\ \A m \in Node \ {n} : U.node[m] = T.node[m]
           /\ nd.owner = T.node[n].owner /\ nd.val = T.node[n].val =>
                KeepsClean(T, U) /\ KeepsKeys(T, U)
<1>1. /\ IsState(U) /\ U.node = [T.node EXCEPT ![n] = nd]
      /\ U.exp = T.exp /\ U.imp = T.imp /\ U.link = T.link /\ U.risk = T.risk
  BY DEF Good, IsState, WithNode, IsRecord
<1>2. U.node[n] = nd /\ \A m \in Node \ {n} : U.node[m] = T.node[m]
  BY <1>1 DEF Good, IsState
<1>3. NodesOK(U) /\ JobsOK(U)
  BY <1>1, <1>2 DEF Good, NodesOK, JobsOK
<1>4. Firm(U)
  <2> SUFFICES ASSUME NEW j \in Job, T.exp[j].st = "granted", ~(Slots(j) \subseteq T.risk)
               PROVE  T.exp[j].mf # "none" /\ U.node[Src(j)].paused
    BY <1>1 DEF Firm
  <2>1. T.exp[j].mf # "none" /\ T.node[Src(j)].paused
    BY DEF Good, Firm
  <2>2. CASE Src(j) = n
    BY <1>2, <2>1, <2>2 DEF Exports, PauseKept
  <2>3. CASE Src(j) # n
    <3>1. U.node[Src(j)] = T.node[Src(j)]
      BY <1>2, <2>3, ModeFacts DEF Good
    <3> QED BY <2>1, <3>1
  <2> QED BY <2>2, <2>3
<1>5. ChildRuns(U)
  BY <1>1, <1>2 DEF Good, ChildRuns, ChildFed
<1>6. ASSUME nd.owner = T.node[n].owner, nd.val = T.node[n].val,
             NEW k, NEW S, CleanBut(T, k, S)
      PROVE  CleanBut(U, k, S)
  BY <1>1, <1>2, <1>6 DEF CleanBut, IsSlotImporting
<1>7. Good(U)
  BY <1>1, <1>3, <1>4, <1>5 DEF Good
<1> QED BY <1>1, <1>2, <1>6, <1>7 DEF KeepsClean, KeepsKeys

(* slotExportTryUnpause: the pause of n ends, or some job still wants it.  *)
LEMMA Unpaused ==
    ASSUME NEW T, Good(T), NEW n \in Node, NEW U, U = SlotExportTryUnpause(T, n)
    PROVE  /\ Good(U) /\ U.exp = T.exp /\ U.imp = T.imp /\ U.link = T.link
           /\ KeepsKeys(T, U) /\ KeepsClean(T, U)
<1>1. CASE \E j \in Exports(n) : T.exp[j].mf # "none"
  BY <1>1 DEF SlotExportTryUnpause, KeepsKeys, KeepsClean
<1>2. CASE \A j \in Exports(n) : T.exp[j].mf = "none"
  <2> DEFINE nd == [T.node[n] EXCEPT !.paused = FALSE]
  <2>1. NodeOK(n, T.node[n])
    BY DEF Good, NodesOK
  <2>2. NodeOK(n, nd) /\ nd.owner = T.node[n].owner /\ nd.val = T.node[n].val
        /\ nd.child = T.node[n].child
    BY <2>1 DEF NodeOK
  <2>3. WithNode(T, U, n, nd)
    BY <1>2 DEF SlotExportTryUnpause, Good, IsState, WithNode, IsRecord
  <2>4. ChildFed(T, nd)
    BY <2>2 DEF Good, ChildRuns, ChildFed
  <2> HIDE DEF nd
  <2>6. PauseKept(T, n, nd)
    BY <1>2 DEF PauseKept
  <2>5. /\ Good(U) /\ U.exp = T.exp /\ U.imp = T.imp /\ U.link = T.link
        /\ KeepsKeys(T, U) /\ KeepsClean(T, U)
    BY <2>2, <2>3, <2>4, <2>6, NodeChanges
  <2> QED BY <2>2, <2>5
<1> QED BY <1>1, <1>2

(* An export that has ended.                                               *)
LEMMA EndedOK ==
    ASSUME NEW st \in Finished, NEW e, e = [NoExport EXCEPT !.st = st]
    PROVE  /\ e.st = st /\ e.mf = "none" /\ ~Fed(e)
           /\ \A j, l, l1, i : JobOK(j, l1, l, i) => JobOK(j, e, CloseSource(l), i)
<1>1. e.st = st /\ e.mf = "none" /\ e.out = <<>> /\ e.pend = FALSE
  BY DEF NoExport
<1>2. e \in [st : {st}, mf : {"none"}, out : {<<>>}, pend : {FALSE}]
  BY DEF NoExport
<1>3. ~Fed(e) /\ e.st # "wait_snapshot"
  BY <1>1 DEF Fed, Finished
<1>4. ASSUME NEW j, NEW l, NEW f, NEW i, JobOK(j, f, l, i)
      PROVE  JobOK(j, e, CloseSource(l), i)
  <2>1. <<>> \in Seq(MsgFor(j)) /\ <<>> \in Seq(Control) /\ <<>> \in Seq(Reply \ {"ok"})
    OBVIOUS
  <2>2. e \in ExportType(j) /\ e.out \in Seq(Control)
    BY <1>1, <1>2, <2>1 DEF ExportType
  <2>3. l \in LinkType(j) /\ i \in ImportType
    BY <1>4 DEF JobOK
  <2>4. /\ CloseSource(l) \in LinkType(j) /\ CloseSource(l).dst = l.dst
        /\ CloseSource(l).tot = l.tot /\ CloseSource(l).tos = <<>>
    BY <2>3, CloseSourceOK
  <2>5. CloseSource(l).dst /\ i \notin ImportInProgress => Unopened(e, CloseSource(l))
    BY <1>3, <1>4, <2>1, <2>4 DEF JobOK, Unopened
  <2> QED BY <2>2, <2>3, <2>4, <2>5 DEF JobOK
<1> QED BY <1>1, <1>3, <1>4


(* The child of n may be killed.                                           *)
LEMMA KilledOK ==
    ASSUME NEW n, NEW c, ChildOK(n, c), NEW J, NEW d, d = KillChild(c, J)
    PROVE  /\ ChildOK(n, d)
           /\ d # None /\ d.st = "writing" => d = c /\ c.job \notin J
<1>1. CASE c # None /\ c.job \in J
  <2>1. d = [c EXCEPT !.st = "killed"]
    BY <1>1 DEF KillChild
  <2>2. /\ c \in [job : {c.job}, st : {c.st}, v : {c.v}]
        /\ c.job \in Exports(n) /\ c.v \in Values(c.job)
    BY <1>1 DEF ChildOK
  <2>3. d \in [job : {c.job}, st : {"killed"}, v : {c.v}]
    BY <2>1, <2>2
  <2>4. d.job = c.job /\ d.st = "killed" /\ d.v = c.v
    BY <2>3
  <2> QED BY <2>2, <2>3, <2>4 DEF ChildOK
<1>2. CASE ~(c # None /\ c.job \in J)
  BY <1>2 DEF KillChild
<1> QED BY <1>1, <1>2

(* finishSlotMigrationJob for the exports J of n: no other job, no slot    *)
(* and no key changes, and a pause that was granted on stays.              *)
LEMMA FinishExportsOK ==
    ASSUME NEW T, Good(T), NEW n \in Node, NEW J, J \subseteq Exports(n),
           NEW st \in Finished, NEW U, U = FinishExports(T, n, J, st)
    PROVE  /\ Good(U) /\ U.imp = T.imp
           /\ KeepsKeys(T, U) /\ EndsJobs(T, U, J, st) /\ KeepsClean(T, U)
<1> DEFINE e == [NoExport EXCEPT !.st = st]
           E == [j \in Job |-> IF j \in J THEN e ELSE T.exp[j]]
           L == [j \in Job |-> IF j \in J THEN CloseSource(T.link[j]) ELSE T.link[j]]
           R == T.risk \cup UNION {Slots(j) : j \in
                    {i \in J : T.exp[i].st = "granted" /\ st # "success"}}
           c == KillChild(T.node[n].child, J)
           A == [T EXCEPT !.exp = E, !.link = L, !.risk = R, !.node[n].child = c]
<1>1. U = SlotExportTryUnpause(A, n)
  BY Zenon DEF FinishExports
<1>2. J \subseteq Job /\ T.risk \subseteq Slot
  BY DEF Exports, Good, IsState
<1>3. R \subseteq Slot /\ T.risk \subseteq R
  BY <1>2, ModeFacts DEF Good
<1>4. /\ e.st = st /\ e.mf = "none" /\ ~Fed(e)
      /\ \A j, f, l, i : JobOK(j, f, l, i) => JobOK(j, e, CloseSource(l), i)
  BY EndedOK
<1>5. ChildOK(n, c) /\ (c # None /\ c.st = "writing" => c = T.node[n].child /\ c.job \notin J)
  <2>1. ChildOK(n, T.node[n].child)
    BY DEF Good, NodesOK, NodeOK
  <2> QED BY <2>1, KilledOK
<1> HIDE DEF e, R, c
<1>6. /\ IsState(A) /\ A.exp = E /\ A.link = L /\ A.risk = R /\ A.imp = T.imp
      /\ A.node = [T.node EXCEPT ![n].child = c]
  <2>1. /\ T \in [node : {T.node}, exp : {T.exp}, imp : {T.imp}, link : {T.link},
                  risk : SUBSET Slot, asserts : {T.asserts}]
        /\ T.node = [m \in Node |-> T.node[m]] /\ T.imp = [j \in Job |-> T.imp[j]]
    BY DEF Good, IsState
  <2>2. /\ A.exp = E /\ A.link = L /\ A.risk = R /\ A.imp = T.imp
        /\ A.node = [T.node EXCEPT ![n].child = c] /\ A.asserts = T.asserts
        /\ A \in [node : {A.node}, exp : {A.exp}, imp : {A.imp}, link : {A.link},
                  risk : {R}, asserts : {A.asserts}]
    BY <2>1
  <2> QED BY <1>3, <2>1, <2>2 DEF IsState
<1>7. /\ \A m \in Node : /\ A.node[m].owner = T.node[m].owner
                         /\ A.node[m].val = T.node[m].val
                         /\ A.node[m].paused = T.node[m].paused
                         /\ NodeOK(m, A.node[m])
      /\ A.node[n].child = c /\ \A m \in Node \ {n} : A.node[m] = T.node[m]
  <2>1. \A m \in Node : NodeOK(m, T.node[m])
    BY DEF Good, NodesOK
  <2>2. A.node[n] = [T.node[n] EXCEPT !.child = c]
        /\ \A m \in Node \ {n} : A.node[m] = T.node[m]
    BY <1>6 DEF Good, IsState
  <2>3. NodeOK(n, A.node[n]) /\ A.node[n].child = c
        /\ A.node[n].owner = T.node[n].owner /\ A.node[n].val = T.node[n].val
    BY <1>5, <2>1, <2>2 DEF NodeOK
  <2>4. A.node[n].paused = T.node[n].paused
    BY <2>1, <2>2 DEF NodeOK
  <2> QED BY <2>1, <2>2, <2>3, <2>4
<1>8. /\ \A j \in J : A.exp[j] = e /\ A.link[j] = CloseSource(T.link[j])
      /\ \A j \in Job \ J : A.exp[j] = T.exp[j] /\ A.link[j] = T.link[j]
  BY <1>2, <1>6
<1> HIDE DEF A, E, L
<1>9. NodesOK(A) /\ JobsOK(A)
  <2>1. ASSUME NEW j \in Job PROVE JobOK(j, A.exp[j], A.link[j], A.imp[j])
    <3>1. JobOK(j, T.exp[j], T.link[j], T.imp[j])
      BY DEF Good, JobsOK
    <3>2. CASE j \in J
      BY <1>4, <1>6, <1>8, <3>1, <3>2
    <3>3. CASE j \notin J
      BY <1>6, <1>8, <3>1, <3>3
    <3> QED BY <3>2, <3>3
  <2> QED BY <1>7, <2>1 DEF NodesOK, JobsOK
<1>10. Firm(A)
  <2> SUFFICES ASSUME NEW j \in Job, A.exp[j].st = "granted", ~(Slots(j) \subseteq R)
               PROVE  A.exp[j].mf # "none" /\ A.node[Src(j)].paused
    BY <1>6 DEF Firm
  <2>1. j \notin J
    BY <1>4, <1>8 DEF Finished
  <2>2. T.exp[j].mf # "none" /\ T.node[Src(j)].paused
    BY <1>3, <1>8, <2>1 DEF Good, Firm
  <2>3. Src(j) \in Node
    BY ModeFacts DEF Good
  <2>4. A.exp[j].mf # "none"
    BY <1>8, <2>1, <2>2
  <2>5. A.node[Src(j)].paused
    BY <1>7, <2>2, <2>3
  <2> QED BY <2>4, <2>5
<1>11. ChildRuns(A)
  <2> SUFFICES ASSUME NEW m \in Node, A.node[m].child # None,
                      A.node[m].child.st = "writing"
               PROVE  Fed(A.exp[A.node[m].child.job])
    BY DEF ChildRuns
  <2>1. A.node[m].child = T.node[m].child /\ Fed(T.exp[T.node[m].child.job])
    BY <1>5, <1>7 DEF Good, ChildRuns
  <2>2. T.node[m].child.job \in Exports(m)
    BY <2>1 DEF Good, NodesOK, NodeOK, ChildOK
  <2>3. T.node[m].child.job \in Job \ J
    BY <1>5, <1>7, <2>1, <2>2 DEF Exports
  <2> QED BY <1>8, <2>1, <2>3
<1>12. Good(A)
  BY <1>6, <1>9, <1>10, <1>11 DEF Good
<1>13. ASSUME NEW k, NEW S, CleanBut(T, k, S) PROVE CleanBut(A, k, S)
  BY <1>6, <1>7, <1>13 DEF CleanBut, IsSlotImporting
<1>14. /\ Good(U) /\ U.exp = A.exp /\ U.imp = A.imp /\ U.link = A.link
       /\ KeepsKeys(A, U) /\ KeepsClean(A, U)
  BY <1>1, <1>12, Unpaused
<1>15. KeepsKeys(T, U)
  BY <1>7, <1>14 DEF KeepsKeys
<1>16. EndsJobs(T, U, J, st)
  BY <1>4, <1>8, <1>14 DEF EndsJobs
<1>17. KeepsClean(T, U)
  BY <1>13, <1>14 DEF KeepsClean
<1> QED BY <1>6, <1>14, <1>15, <1>16, <1>17

(* Imports that have not succeeded end, and their keys are to be deleted.  *)
LEMMA FailImportsOK ==
    ASSUME NEW T, Good(T), NEW I, I \subseteq Job,
           NEW U, U = FailImports(T, I)
    PROVE  /\ Good(U) /\ U.node = T.node /\ U.exp = T.exp /\ U.risk = T.risk
           /\ KeepsClean(T, U)
<1> DEFINE M == [j \in Job |-> IF j \in I THEN "cleaning" ELSE T.imp[j]]
           L == [j \in Job |-> IF j \in I THEN CloseTarget(T.link[j]) ELSE T.link[j]]
<1>1. U = [T EXCEPT !.imp = M, !.link = L]
  BY DEF FailImports
<1>2. /\ IsState(U) /\ U.node = T.node /\ U.exp = T.exp /\ U.risk = T.risk
      /\ U.imp = M /\ U.link = L
  BY <1>1 DEF Good, IsState
<1>3. /\ \A j \in I : U.imp[j] = "cleaning" /\ U.link[j] = CloseTarget(T.link[j])
      /\ \A j \in Job \ I : U.imp[j] = T.imp[j] /\ U.link[j] = T.link[j]
  BY <1>2
<1> HIDE DEF M, L
<1>4. JobsOK(U)
  <2> SUFFICES ASSUME NEW j \in Job PROVE JobOK(j, U.exp[j], U.link[j], U.imp[j])
    BY DEF JobsOK
  <2>1. JobOK(j, T.exp[j], T.link[j], T.imp[j])
    BY DEF Good, JobsOK
  <2>2. CASE j \in I
    <3>1. T.link[j] \in LinkType(j)
      BY <2>1 DEF JobOK
    <3>2. U.link[j] \in LinkType(j) /\ U.link[j].dst = FALSE /\ U.imp[j] \in ImportType
      BY <1>3, <2>2, <3>1, CloseTargetOK DEF ImportType
    <3> QED BY <1>2, <2>1, <3>2 DEF JobOK
  <2>3. CASE j \notin I
    BY <1>2, <1>3, <2>1, <2>3
  <2> QED BY <2>2, <2>3
<1>5. Good(U)
  BY <1>2, <1>4 DEF Good, NodesOK, Firm, ChildRuns
<1>6. ASSUME NEW m, NEW s, IsSlotImporting(T, m, s) PROVE IsSlotImporting(U, m, s)
  <2>1. PICK k \in Imports(m) : s \in Slots(k) /\ T.imp[k] \in Importing
    BY <1>6 DEF IsSlotImporting, Importing
  <2>2. k \in Job
    BY DEF Imports
  <2>3. U.imp[k] \in Importing
    BY <1>3, <2>1, <2>2 DEF Importing
  <2> QED BY <2>1, <2>3 DEF IsSlotImporting, Importing
<1>7. ASSUME NEW k, NEW S, CleanBut(T, k, S) PROVE CleanBut(U, k, S)
  BY <1>2, <1>6, <1>7 DEF CleanBut
<1> QED BY <1>2, <1>5, <1>7 DEF KeepsClean


(* The keys of one node change.                                            *)
LEMMA CleanNode ==
    ASSUME NEW T, IsState(T), NEW n \in Node, NEW nd, NEW U,
           WithNode(T, U, n, nd), NEW S, NEW R, CleanBut(T, n, S),
           \A s \in Slot : nd.val[s] # <<>> =>
              nd.owner[s] = n \/ IsSlotImporting(T, n, s) \/ s \in R
    PROVE  CleanBut(U, n, R)
<1>1. U.imp = T.imp /\ U.node[n] = nd /\ \A m \in Node \ {n} : U.node[m] = T.node[m]
  BY DEF IsState, WithNode
<1> QED BY <1>1 DEF CleanBut, IsSlotImporting

(* delKeysInSlot of the slots in S that n does not own.                    *)
LEMMA DelKeysOK ==
    ASSUME NEW n, NEW nd, NodeOK(n, nd), NEW S, NEW d, d = DelKeysNotOwned(nd, n, S)
    PROVE  /\ NodeOK(n, d) /\ d.owner = nd.owner /\ d.child = nd.child
           /\ d.paused = nd.paused
           /\ \A s \in Slot : /\ s \in S /\ nd.owner[s] # n => d.val[s] = <<>>
                              /\ ~(s \in S /\ nd.owner[s] # n) => d.val[s] = nd.val[s]
<1> DEFINE v == [s \in Slot |-> IF s \in S /\ nd.owner[s] # n THEN <<>> ELSE nd.val[s]]
<1>1. d = [nd EXCEPT !.val = v]
  BY DEF DelKeysNotOwned
<1>2. <<>> \in Seq(Nat) /\ nd.val \in [Slot -> Seq(Nat)]
  BY DEF NodeOK
<1>3. v \in [Slot -> Seq(Nat)]
  BY <1>2
<1>4. \A s \in Slot : /\ s \in S /\ nd.owner[s] # n => v[s] = <<>>
                      /\ ~(s \in S /\ nd.owner[s] # n) => v[s] = nd.val[s]
  OBVIOUS
<1> HIDE DEF v
<1>5. d.val = v /\ d.owner = nd.owner /\ d.child = nd.child
  BY <1>1 DEF NodeOK
<1>6. d.paused = nd.paused
  BY <1>1 DEF NodeOK
<1>7. NodeOK(n, d)
  BY <1>1, <1>3, <1>5 DEF NodeOK
<1> QED BY <1>4, <1>5, <1>6, <1>7

(* Failed assertions are only noted.                                       *)
LEMMA AssertsOK ==
    ASSUME NEW T, Good(T), NEW a, NEW U, U = [T EXCEPT !.asserts = a]
    PROVE  /\ Good(U) /\ U.node = T.node /\ U.exp = T.exp /\ U.imp = T.imp
           /\ KeepsClean(T, U)
<1>1. /\ IsState(U) /\ U.node = T.node /\ U.exp = T.exp /\ U.imp = T.imp
      /\ U.link = T.link /\ U.risk = T.risk
  BY DEF Good, IsState
<1> QED BY <1>1 DEF Good, NodesOK, JobsOK, Firm, ChildRuns, CleanBut,
                   IsSlotImporting, KeepsClean

(* The process of n dies and starts again.                                 *)
LEMMA DiedOK ==
    ASSUME NEW T, Good(T), NEW n \in Node, CleanBut(T, n, {}), NEW U, U = Died(T, n)
    PROVE  Good(U) /\ CleanBut(U, n, {})
<1> DEFINE lost == {j \in Exports(n) : T.exp[j].st \in ExportInProgress}
           left == {j \in Imports(n) : T.imp[j] \in ImportInProgress}
           F == FinishExports(T, n, lost, "gone")
           A == FailImports(F, left)
           L == [j \in Job |-> IF j \in Imports(n) THEN CloseTarget(A.link[j]) ELSE A.link[j]]
           d == DelKeysNotOwned(A.node[n], n, Slot)
           nd == [d EXCEPT !.paused = FALSE, !.child = None, !.pipe = FALSE]
           B == [A EXCEPT !.link = L]
<1>1. U = [A EXCEPT !.node[n] = nd, !.link = L]
  BY Zenon DEF Died
<1>2. lost \subseteq Exports(n) /\ left \subseteq Job /\ "gone" \in Finished
  BY DEF Imports, Finished
<1>3. Good(F) /\ EndsJobs(T, F, lost, "gone") /\ KeepsClean(T, F)
  <2> HIDE DEF lost
  <2> QED BY <1>2, FinishExportsOK
<1> HIDE DEF F
<1>4. Good(A) /\ A.exp = F.exp /\ KeepsClean(F, A)
  <2> HIDE DEF left
  <2> QED BY <1>2, <1>3, FailImportsOK
<1>5. \A j \in Exports(n) : A.exp[j].st # "granted"
  <2>1. \A j \in Exports(n) : j \in lost \/ T.exp[j].st \notin ExportInProgress
    OBVIOUS
  <2> HIDE DEF lost
  <2> QED BY <1>3, <1>4, <2>1 DEF Exports, ExportInProgress, EndsJobs
<1> HIDE DEF A
<1>6. /\ IsState(B) /\ B.node = A.node /\ B.exp = A.exp /\ B.imp = A.imp
      /\ B.risk = A.risk /\ B.link = L
  BY <1>4 DEF Good, IsState
<1>7. WithNode(B, U, n, nd)
  <2> HIDE DEF L, nd
  <2> QED BY <1>1, <1>4, <1>6 DEF WithNode, Good, IsState, IsRecord
<1> HIDE DEF B
<1>8. JobsOK(B)
  <2> SUFFICES ASSUME NEW j \in Job PROVE JobOK(j, B.exp[j], B.link[j], B.imp[j])
    BY DEF JobsOK
  <2>1. JobOK(j, A.exp[j], A.link[j], A.imp[j])
    BY <1>4 DEF Good, JobsOK
  <2>2. CASE B.link[j] = CloseTarget(A.link[j])
    <3>1. A.link[j] \in LinkType(j)
      BY <2>1 DEF JobOK
    <3>2. B.link[j] \in LinkType(j) /\ B.link[j].dst = FALSE
      BY <2>2, <3>1, CloseTargetOK
    <3> QED BY <1>6, <2>1, <3>2 DEF JobOK
  <2>3. CASE B.link[j] = A.link[j]
    BY <1>6, <2>1, <2>3
  <2> QED BY <1>6, <2>2, <2>3
<1>9. Good(B) /\ CleanBut(B, n, {})
  <2>1. CleanBut(A, n, {})
    BY <1>3, <1>4 DEF KeepsClean
  <2> QED BY <1>4, <1>6, <1>8, <2>1 DEF Good, NodesOK, Firm, ChildRuns, CleanBut, IsSlotImporting
<1>10. NodeOK(n, A.node[n])
  BY <1>4 DEF Good, NodesOK
<1>11. /\ NodeOK(n, d) /\ d.owner = A.node[n].owner
       /\ \A s \in Slot : d.owner[s] # n => d.val[s] = <<>>
  <2> HIDE DEF d
  <2> QED BY <1>10, DelKeysOK DEF d
<1> HIDE DEF d
<1>12. /\ NodeOK(n, nd) /\ nd.owner = d.owner /\ nd.val = d.val /\ nd.child = None
  BY <1>11 DEF NodeOK, ChildOK
<1> HIDE DEF nd
<1>13. PauseKept(B, n, nd) /\ ChildFed(B, nd)
  BY <1>5, <1>6, <1>12 DEF PauseKept, ChildFed
<1>14. Good(U)
  BY <1>7, <1>9, <1>12, <1>13, NodeChanges
<1>15. \A s \in Slot : nd.val[s] # <<>> =>
              nd.owner[s] = n \/ IsSlotImporting(B, n, s) \/ s \in {}
  BY <1>11, <1>12
<1>16. CleanBut(U, n, {})
  BY <1>7, <1>9, <1>15, CleanNode DEF Good
<1> QED BY <1>14, <1>16


-------------------------------------------------------------------------------
(* Steps.                                                                  *)

Clean(T) == \A n \in Node : CleanBut(T, n, {})

MigrationInv == writes \in Nat /\ Good(State) /\ Clean(State)

(* Without exceptions the node does not matter.                            *)
LEMMA CleanAny ==
    ASSUME NEW T, NEW n, CleanBut(T, n, {})
    PROVE  Clean(T)
  BY DEF CleanBut, Clean

(* A clean state stays clean.                                              *)
LEMMA StaysClean ==
    ASSUME NEW T, NEW U, Clean(T), KeepsClean(T, U)
    PROVE  Clean(U)
  BY DEF Clean, KeepsClean

(* The state of a step and the variables.                                  *)
LEMMA StateFacts ==
    /\ State.node = node /\ State.exp = exp /\ State.imp = imp
    /\ State.link = link /\ State.risk = risk /\ State.asserts = asserts
  BY DEF State

(* The parts of the invariant for the jobs and nodes.                      *)
LEMMA InvFacts ==
    ASSUME MigrationInv
    PROVE  /\ mode \in Modes /\ IsState(State) /\ risk \subseteq Slot
           /\ node = [n \in Node |-> node[n]] /\ exp = [j \in Job |-> exp[j]]
           /\ link = [j \in Job |-> link[j]] /\ imp = [j \in Job |-> imp[j]]
           /\ \A n \in Node : NodeOK(n, node[n])
           /\ \A j \in Job : JobOK(j, exp[j], link[j], imp[j])
  BY StateFacts DEF MigrationInv, Good, IsState, NodesOK, JobsOK

(* A step that applies a good state keeps the invariant.                   *)
LEMMA Applied ==
    ASSUME NEW T, Good(T), Clean(T), Apply(T), mode' = mode, writes' \in Nat
    PROVE  MigrationInv'
<1>1. /\ State'.node = T.node /\ State'.exp = T.exp /\ State'.imp = T.imp
      /\ State'.link = T.link /\ State'.risk = T.risk /\ State'.asserts = T.asserts
  BY DEF State, Apply
<1>2. /\ \A j : Src(j)' = Src(j) /\ Dst(j)' = Dst(j) /\ Slots(j)' = Slots(j)
      /\ \A n : Exports(n)' = Exports(n) /\ Imports(n)' = Imports(n)
  BY DEF Src, Dst, Slots, Exports, Imports
<1>3. IsState(State)'
  <2>1. State' \in [node : {node'}, exp : {exp'}, imp : {imp'}, link : {link'},
                    risk : {risk'}, asserts : {asserts'}]
    BY DEF State
  <2> QED BY <1>1, <2>1 DEF Good, IsState, Apply
<1>4. NodesOK(State)'
  BY <1>1, <1>2 DEF Good, NodesOK, NodeOK, ChildOK, Values
<1>5. JobsOK(State)'
  BY <1>1, <1>2 DEF Good, JobsOK, JobOK, ExportType, LinkType, MsgFor, Values
<1>6. Firm(State)' /\ ChildRuns(State)'
  BY <1>1, <1>2 DEF Good, Firm, ChildRuns
<1>7. Clean(State)'
  BY <1>1, <1>2 DEF Clean, CleanBut, IsSlotImporting
<1>8. (mode \in Modes)'
  BY DEF Good
<1> QED BY <1>3, <1>4, <1>5, <1>6, <1>7, <1>8 DEF MigrationInv, Good

(* A step of one job.                                                      *)
LEMMA JobSteps ==
    ASSUME MigrationInv, mode' = mode, writes' \in Nat, NEW j \in Job, NEW e, NEW l,
           NEW i, JobOK(j, e, l, i), JobMoves(State, j, e, i),
           node' = node, risk' = risk,
           exp' = [exp EXCEPT ![j] = e], link' = [link EXCEPT ![j] = l],
           imp' = [imp EXCEPT ![j] = i]
    PROVE  MigrationInv'
<1> DEFINE U == [node |-> node', exp |-> exp', imp |-> imp', link |-> link',
                 risk |-> risk', asserts |-> asserts']
<1>1. WithJob(State, U, j, e, l, i)
  BY StateFacts DEF WithJob, IsRecord
<1>2. Good(U) /\ KeepsClean(State, U)
  BY <1>1, JobChanges DEF MigrationInv
<1>3. Clean(U)
  BY <1>2, StaysClean DEF MigrationInv
<1>4. Apply(U)
  BY DEF Apply
<1> QED BY <1>2, <1>3, <1>4, Applied


(* The other components of a job do not change.                            *)
LEMMA SameJob ==
    ASSUME MigrationInv, NEW j \in Job
    PROVE  /\ exp = [exp EXCEPT ![j] = exp[j]] /\ link = [link EXCEPT ![j] = link[j]]
           /\ imp = [imp EXCEPT ![j] = imp[j]]
           /\ exp[j] \in ExportType(j) /\ link[j] \in LinkType(j) /\ imp[j] \in ImportType
           /\ ~Fed(exp[j]) => exp[j].out \in Seq(Control)
           /\ link[j].dst /\ imp[j] \notin ImportInProgress => Unopened(exp[j], link[j])
<1>1. /\ exp = [k \in Job |-> exp[k]] /\ link = [k \in Job |-> link[k]]
      /\ imp = [k \in Job |-> imp[k]] /\ JobOK(j, exp[j], link[j], imp[j])
  BY InvFacts
<1> QED BY <1>1 DEF JobOK

(* CLUSTER MIGRATESLOTS.                                                   *)
LEMMA MigrateSlotsKeeps ==
    ASSUME MigrationInv, NEW j \in Job, MigrateSlots(j)
    PROVE  MigrationInv'
<1> DEFINE e == [exp[j] EXCEPT !.st = "connecting"]
<1>1. exp' = [exp EXCEPT ![j] = e] /\ exp[j].st = "none"
  BY InvFacts DEF MigrateSlots
<1>2. /\ e \in ExportType(j) /\ ~Fed(e) /\ ~Fed(exp[j]) /\ e.out = exp[j].out
      /\ e.st = "connecting"
  BY <1>1, SameJob DEF ExportType, ExportInProgress, Fed
<1> HIDE DEF e
<1>3. JobOK(j, e, link[j], imp[j])
  BY <1>2, SameJob DEF JobOK, Unopened
<1>4. JobMoves(State, j, e, imp[j])
  BY <1>2, StateFacts DEF JobMoves
<1>5. /\ mode' = mode /\ writes' \in Nat /\ node' = node /\ risk' = risk
      /\ link' = [link EXCEPT ![j] = link[j]] /\ imp' = [imp EXCEPT ![j] = imp[j]]
  BY SameJob DEF MigrateSlots, MigrationInv
<1> QED BY <1>1, <1>3, <1>4, <1>5, JobSteps

(* The connection is made.                                                 *)
LEMMA ConnectKeeps ==
    ASSUME MigrationInv, NEW j \in Job, Connect(j)
    PROVE  MigrationInv'
<1> DEFINE f == [exp[j] EXCEPT !.st = "establish"]
           e == Say(f, Msg("establish"))
           l == [NoLink EXCEPT !.src = TRUE, !.dst = TRUE]
<1>1. exp' = [exp EXCEPT ![j] = e] /\ link' = [link EXCEPT ![j] = l]
      /\ exp[j].st = "connecting"
  BY InvFacts DEF Connect
<1>2. /\ f \in ExportType(j) /\ ~Fed(f) /\ ~Fed(exp[j]) /\ f.out = exp[j].out
      /\ f.st = "establish"
  BY <1>1, SameJob DEF ExportType, ExportInProgress, Fed
<1>3. f.out \in Seq(Control) /\ Msg("establish") \in Control
  BY <1>2, SameJob DEF Msg, Control
<1> HIDE DEF f
<1>4. e \in ExportType(j) /\ e.st = f.st /\ e.out \in Seq(Control)
  BY <1>2, <1>3, SayOK
<1>5. ~Fed(e)
  BY <1>2, <1>4 DEF Fed
<1>6. /\ <<>> \in Seq(MsgFor(j)) /\ <<>> \in Seq(Reply) /\ <<>> \in Seq(Reply \ {"ok"})
      /\ <<>> \in Seq(Control)
  OBVIOUS
<1>7. l \in LinkType(j) /\ l.tos = <<>> /\ l.tot = <<>>
  BY <1>6 DEF LinkType, NoLink
<1> HIDE DEF e, l
<1>8. JobOK(j, e, l, imp[j])
  BY <1>2, <1>4, <1>5, <1>6, <1>7, SameJob DEF JobOK, Unopened
<1>9. JobMoves(State, j, e, imp[j])
  BY <1>2, <1>4, StateFacts DEF JobMoves
<1>10. /\ mode' = mode /\ writes' \in Nat /\ node' = node /\ risk' = risk
       /\ imp' = [imp EXCEPT ![j] = imp[j]]
  BY SameJob DEF Connect, MigrationInv
<1> QED BY <1>1, <1>8, <1>9, <1>10, JobSteps

(* handleClientsWithPendingWrites.                                         *)
LEMMA WriteToClientKeeps ==
    ASSUME MigrationInv, NEW j \in Job, WriteToClient(j)
    PROVE  MigrationInv'
<1> DEFINE e == [exp[j] EXCEPT !.out = <<>>, !.pend = FALSE]
           l == ToTarget(link[j], exp[j].out)
<1>1. exp' = [exp EXCEPT ![j] = e] /\ link' = [link EXCEPT ![j] = l]
  BY InvFacts DEF WriteToClient
<1>2. <<>> \in Seq(MsgFor(j)) /\ <<>> \in Seq(Control)
  OBVIOUS
<1>3. e \in ExportType(j) /\ e.st = exp[j].st /\ e.mf = exp[j].mf /\ e.out = <<>>
  BY <1>2, SameJob DEF ExportType
<1>4. Fed(e) = Fed(exp[j])
  BY <1>3 DEF Fed
<1>5. exp[j].out \in Seq(MsgFor(j)) /\ link[j] \in LinkType(j)
  BY SameJob DEF ExportType
<1>6. /\ l \in LinkType(j) /\ l.dst = link[j].dst /\ l.tos = link[j].tos
      /\ exp[j].out \in Seq(Control) /\ link[j].tot \in Seq(Control) => l.tot \in Seq(Control)
  BY <1>5, ToTargetOK
<1> HIDE DEF e, l
<1>7. l.dst /\ imp[j] \notin ImportInProgress => Unopened(e, l)
  BY <1>3, <1>4, <1>6, SameJob DEF Unopened
<1>8. JobOK(j, e, l, imp[j])
  BY <1>2, <1>3, <1>6, <1>7, SameJob DEF JobOK
<1>9. JobMoves(State, j, e, imp[j])
  BY <1>3, <1>4, StateFacts DEF JobMoves
<1>10. /\ mode' = mode /\ writes' \in Nat /\ node' = node /\ risk' = risk
       /\ imp' = [imp EXCEPT ![j] = imp[j]]
  BY SameJob DEF WriteToClient, MigrationInv
<1> QED BY <1>1, <1>8, <1>9, <1>10, JobSteps

(* The source has read a message.                                          *)
LEMMA ReadFacts ==
    ASSUME MigrationInv, NEW j \in Job, NEW k, Received(j, k),
           NEW l, l = [link[j] EXCEPT !.tos = Tail(@)]
    PROVE  /\ l \in LinkType(j) /\ l.dst = link[j].dst /\ l.tot = link[j].tot
           /\ link[j].tos \in Seq(Reply \ {"ok"}) => l.tos \in Seq(Reply \ {"ok"}) /\ k # "ok"
           /\ WithJob(State, Read(j), j, exp[j], l, imp[j])
<1>1. link[j].tos # <<>> /\ Head(link[j].tos) = k
  BY DEF Received
<1>2. link[j] \in LinkType(j) /\ link[j].tos \in Seq(Reply)
  BY SameJob DEF LinkType
<1>3. Tail(link[j].tos) \in Seq(Reply)
  BY <1>1, <1>2, TailOK
<1>4. link[j].tos \in Seq(Reply \ {"ok"}) =>
        Tail(link[j].tos) \in Seq(Reply \ {"ok"}) /\ k \in Reply \ {"ok"}
  BY <1>1, TailOK
<1>5. l \in LinkType(j) /\ l.dst = link[j].dst /\ l.tot = link[j].tot
      /\ l.tos = Tail(link[j].tos)
  BY <1>2, <1>3 DEF LinkType
<1>6. WithJob(State, Read(j), j, exp[j], l, imp[j])
  BY InvFacts DEF Read, State, WithJob, IsRecord
<1> QED BY <1>4, <1>5, <1>6

(* Reading alone changes nothing the invariant speaks of.                  *)
LEMMA ReadOK ==
    ASSUME MigrationInv, NEW j \in Job, NEW k, Received(j, k)
    PROVE  /\ Good(Read(j)) /\ KeepsClean(State, Read(j)) /\ Read(j).exp = exp
           /\ Read(j).node = node
<1> DEFINE l == [link[j] EXCEPT !.tos = Tail(@)]
<1>1. /\ l \in LinkType(j) /\ l.dst = link[j].dst /\ l.tot = link[j].tot
      /\ link[j].tos \in Seq(Reply \ {"ok"}) => l.tos \in Seq(Reply \ {"ok"}) /\ k # "ok"
      /\ WithJob(State, Read(j), j, exp[j], l, imp[j])
  BY ReadFacts
<1> HIDE DEF l
<1>2. JobOK(j, exp[j], l, imp[j])
  BY <1>1, SameJob DEF JobOK, Unopened
<1>3. JobMoves(State, j, exp[j], imp[j])
  BY StateFacts DEF JobMoves
<1>4. Good(Read(j)) /\ KeepsClean(State, Read(j))
  BY <1>1, <1>2, <1>3, JobChanges DEF MigrationInv
<1>5. Read(j).exp = exp /\ Read(j).node = node
  BY InvFacts DEF Read, State
<1> QED BY <1>4, <1>5

(* A step that ends one export.                                            *)
LEMMA FinishExportApplied ==
    ASSUME NEW T, Good(T), Clean(T), NEW j \in Job, NEW st \in Finished,
           Apply(FinishExport(T, j, st)), mode' = mode, writes' \in Nat
    PROVE  MigrationInv'
<1> DEFINE U == FinishExports(T, Src(j), {j}, st)
<1>1. Src(j) \in Node /\ {j} \subseteq Exports(Src(j))
  BY ModeFacts DEF Good, Exports
<1>2. Good(U) /\ KeepsClean(T, U)
  BY <1>1, FinishExportsOK
<1>3. Clean(U) /\ Apply(U)
  BY <1>2, StaysClean DEF FinishExport
<1> HIDE DEF U
<1> QED BY <1>2, <1>3, Applied

(* The answer to ESTABLISH.                                                *)
LEMMA ReadEstablishKeeps ==
    ASSUME MigrationInv, NEW j \in Job, ReadEstablishResponse(j)
    PROVE  MigrationInv'
<1>0. mode' = mode /\ writes' \in Nat /\ exp[j].st = "establish"
  BY DEF ReadEstablishResponse, MigrationInv
<1>1. CASE Received(j, "error") /\ Apply(FinishExport(Read(j), j, "failed"))
  <2>1. Good(Read(j)) /\ Clean(Read(j)) /\ "failed" \in Finished
    BY <1>1, ReadOK, StaysClean DEF MigrationInv, Finished
  <2> QED BY <1>0, <1>1, <2>1, FinishExportApplied
<1>2. CASE /\ Received(j, "ok")
           /\ Apply([Read(j) EXCEPT
                !.exp[j] = Say([@ EXCEPT !.st = "wait_snapshot"], Msg("ack"))])
  <2> DEFINE f == [exp[j] EXCEPT !.st = "wait_snapshot"]
             e == Say(f, Msg("ack"))
             l == [link[j] EXCEPT !.tos = Tail(@)]
  <2>1. /\ exp' = [exp EXCEPT ![j] = e] /\ link' = [link EXCEPT ![j] = l]
        /\ imp' = imp /\ node' = node /\ risk' = risk
    BY <1>2, InvFacts DEF Apply, Read, State
  <2>2. /\ f \in ExportType(j) /\ ~Fed(f) /\ ~Fed(exp[j]) /\ f.out = exp[j].out
        /\ f.st = "wait_snapshot"
    BY <1>0, SameJob DEF ExportType, ExportInProgress, Fed
  <2>3. f.out \in Seq(Control) /\ Msg("ack") \in Control
    BY <2>2, SameJob DEF Msg, Control
  <2> HIDE DEF f
  <2>4. e \in ExportType(j) /\ e.st = f.st /\ e.out \in Seq(Control)
    BY <2>2, <2>3, SayOK
  <2>5. ~Fed(e)
    BY <2>2, <2>4 DEF Fed
  <2>6. l \in LinkType(j) /\ l.dst = link[j].dst /\ link[j].tos \notin Seq(Reply \ {"ok"})
    BY <1>2, ReadFacts
  <2> HIDE DEF e, l
  <2>7. JobOK(j, e, l, imp[j])
    BY <2>4, <2>6, SameJob DEF JobOK, Unopened
  <2>8. JobMoves(State, j, e, imp[j])
    BY <2>2, <2>4, StateFacts DEF JobMoves
  <2> QED BY <1>0, <2>1, <2>7, <2>8, SameJob, JobSteps
<1> QED BY <1>1, <1>2 DEF ReadEstablishResponse


(* The connection is refused.                                              *)
LEMMA ConnectFailsKeeps ==
    ASSUME MigrationInv, NEW j \in Job, ConnectFails(j)
    PROVE  MigrationInv'
<1>1. /\ Apply(FinishExport(State, j, "failed")) /\ mode' = mode /\ writes' \in Nat
      /\ "failed" \in Finished
  BY DEF ConnectFails, MigrationInv, Finished
<1> QED BY <1>1, FinishExportApplied DEF MigrationInv

(* The death of a node, in a step of its own or by an assertion.           *)
LEMMA DiedApplied ==
    ASSUME NEW T, Good(T), Clean(T), NEW n \in Node, Apply(Died(T, n)),
           mode' = mode, writes' \in Nat
    PROVE  MigrationInv'
<1> DEFINE U == Died(T, n)
<1>1. CleanBut(T, n, {})
  BY DEF Clean
<1>2. Good(U) /\ CleanBut(U, n, {})
  BY <1>1, DiedOK
<1>3. Clean(U) /\ Apply(U)
  BY <1>2, CleanAny
<1> HIDE DEF U
<1> QED BY <1>2, <1>3, Applied

(* The same after an assertion.                                            *)
LEMMA AssertApplied ==
    ASSUME MigrationInv, NEW n \in Node, NEW a,
           Apply(Died([State EXCEPT !.asserts = a], n)), mode' = mode, writes' \in Nat
    PROVE  MigrationInv'
<1> DEFINE T == [State EXCEPT !.asserts = a]
<1>1. Good(T) /\ KeepsClean(State, T)
  BY AssertsOK DEF MigrationInv
<1>2. Clean(T) /\ Apply(Died(T, n))
  BY <1>1, StaysClean DEF MigrationInv
<1> HIDE DEF T
<1> QED BY <1>1, <1>2, DiedApplied

(* A step of one node.                                                     *)
LEMMA NodeSteps ==
    ASSUME MigrationInv, mode' = mode, writes' \in Nat, NEW n \in Node, NEW nd,
           NodeOK(n, nd), PauseKept(State, n, nd), ChildFed(State, nd),
           node' = [node EXCEPT ![n] = nd], exp' = exp, imp' = imp, link' = link,
           risk' = risk,
           \A s \in Slot : nd.val[s] # <<>> =>
              nd.owner[s] = n \/ IsSlotImporting(State, n, s) \/ s \in {}
    PROVE  MigrationInv'
<1> DEFINE U == [node |-> node', exp |-> exp', imp |-> imp', link |-> link',
                 risk |-> risk', asserts |-> asserts']
<1>1. WithNode(State, U, n, nd)
  BY StateFacts DEF WithNode, IsRecord
<1> HIDE DEF U
<1>2. Good(U)
  BY <1>1, NodeChanges DEF MigrationInv
<1>3. CleanBut(State, n, {}) /\ IsState(State)
  BY DEF MigrationInv, Clean, Good
<1>4. CleanBut(U, n, {})
  BY <1>1, <1>3, CleanNode
<1>5. Clean(U)
  BY <1>4, CleanAny
<1>6. Apply(U)
  BY DEF Apply, U
<1> QED BY <1>2, <1>5, <1>6, Applied

ChildFedNext(nd) ==
    nd.child # None /\ nd.child.st = "writing" => Fed(exp'[nd.child.job])

MovesBoth(j, e, l, i, n, nd) ==
    /\ mode' = mode /\ writes' \in Nat /\ risk' = risk
    /\ exp' = [exp EXCEPT ![j] = e] /\ link' = [link EXCEPT ![j] = l]
    /\ imp' = [imp EXCEPT ![j] = i] /\ node' = [node EXCEPT ![n] = nd]
    /\ JobOK(j, e, l, i) /\ JobMoves(State, j, e, i)
    /\ NodeOK(n, nd) /\ nd.owner = node[n].owner /\ nd.val = node[n].val
    /\ nd.paused \/ ~node[n].paused
    /\ ChildFedNext(nd)

(* A step of one job and of one node that keeps its slots and keys.        *)
LEMMA JobAndNode ==
    ASSUME MigrationInv, NEW j \in Job, NEW e, NEW l, NEW i, NEW n \in Node, NEW nd,
           MovesBoth(j, e, l, i, n, nd)
    PROVE  MigrationInv'
<1>0. /\ mode' = mode /\ writes' \in Nat /\ risk' = risk
      /\ exp' = [exp EXCEPT ![j] = e] /\ link' = [link EXCEPT ![j] = l]
      /\ imp' = [imp EXCEPT ![j] = i] /\ node' = [node EXCEPT ![n] = nd]
      /\ JobOK(j, e, l, i) /\ JobMoves(State, j, e, i)
      /\ NodeOK(n, nd) /\ nd.owner = node[n].owner /\ nd.val = node[n].val
      /\ ChildFedNext(nd)
  BY DEF MovesBoth
<1>00. nd.paused \/ ~node[n].paused
  BY DEF MovesBoth
<1> DEFINE T == [node |-> node, exp |-> exp', imp |-> imp', link |-> link',
                 risk |-> risk', asserts |-> asserts']
           U == [node |-> node', exp |-> exp', imp |-> imp', link |-> link',
                 risk |-> risk', asserts |-> asserts']
<1>1. WithJob(State, T, j, e, l, i) /\ T.node = node /\ T.exp = exp'
  BY <1>0, StateFacts DEF WithJob, IsRecord
<1>2. WithNode(T, U, n, nd)
  BY <1>0 DEF WithNode, IsRecord
<1>3. Apply(U)
  BY DEF Apply
<1> HIDE DEF T, U
<1>4. Good(T) /\ KeepsClean(State, T)
  BY <1>0, <1>1, JobChanges DEF MigrationInv
<1>5. PauseKept(T, n, nd) /\ ChildFed(T, nd)
  BY <1>0, <1>00, <1>1 DEF PauseKept, ChildFed, ChildFedNext
<1>6. Good(U) /\ KeepsClean(T, U)
  BY <1>0, <1>1, <1>2, <1>4, <1>5, NodeChanges
<1>7. Clean(T)
  BY <1>4, StaysClean DEF MigrationInv
<1>8. Clean(U)
  BY <1>6, <1>7, StaysClean
<1> QED BY <1>0, <1>3, <1>6, <1>8, Applied

(* slotExportJobBeginSnapshotToTargetSocket.                               *)
LEMMA BeginSnapshotKeeps ==
    ASSUME MigrationInv, NEW j \in Job, BeginSnapshot(j)
    PROVE  MigrationInv'
<1> DEFINE n == Src(j)
           child == [job |-> j, st |-> "writing",
                     v |-> [s \in Slots(j) |-> node[n].val[s]]]
           e == [exp[j] EXCEPT !.st = "snapshotting"]
           nd == [node[n] EXCEPT !.child = child]
<1>0. mode' = mode /\ writes' \in Nat /\ exp[j].st = "wait_snapshot"
  BY DEF BeginSnapshot, MaySnapshot, MigrationInv
<1>1. n \in Node /\ NodeOK(n, node[n]) /\ Slots(j) \subseteq Slot
  BY InvFacts, ModeFacts
<1>2. CASE Apply(Died([State EXCEPT !.asserts = @ \cup {"pipe"}], n))
  <2> HIDE DEF n
  <2> QED BY <1>0, <1>1, <1>2, AssertApplied
<1>3. CASE Apply([State EXCEPT !.node[n].child = child, !.exp[j].st = "snapshotting"])
  <2>1. ChildOK(n, child)
    <3>1. child.v \in Values(j)
      BY <1>1 DEF Values, NodeOK
    <3> QED BY <3>1 DEF ChildOK, Exports
  <2>2. child.job = j
    OBVIOUS
  <2> HIDE DEF child
  <2>3. /\ exp' = [exp EXCEPT ![j] = e] /\ link' = link /\ imp' = imp
        /\ node' = [node EXCEPT ![n] = nd] /\ risk' = risk
    BY <1>3, InvFacts DEF Apply, State
  <2>4. /\ e \in ExportType(j) /\ Fed(e) /\ e.st = "snapshotting"
    BY <1>0, SameJob DEF ExportType, ExportInProgress, Fed
  <2>5. NodeOK(n, nd) /\ nd.owner = node[n].owner /\ nd.val = node[n].val
        /\ nd.child = child
    BY <1>1, <2>1 DEF NodeOK
  <2>6. nd.paused \/ ~node[n].paused
    BY <1>1 DEF NodeOK
  <2>7. exp'[j] = e
    BY <2>3, InvFacts
  <2> HIDE DEF n, e, nd
  <2>8. JobOK(j, e, link[j], imp[j])
    BY <1>0, <2>4, SameJob DEF JobOK, Unopened
  <2>9. JobMoves(State, j, e, imp[j])
    BY <2>4, StateFacts DEF JobMoves
  <2>10. ChildFedNext(nd)
    BY <2>2, <2>4, <2>5, <2>7 DEF ChildFedNext
  <2>11. MovesBoth(j, e, link[j], imp[j], n, nd)
    BY <1>0, <2>3, <2>5, <2>6, <2>8, <2>9, <2>10, SameJob DEF MovesBoth
  <2> QED BY <1>1, <2>11, JobAndNode
<1> QED BY <1>2, <1>3 DEF BeginSnapshot

(* The fork for the snapshot fails.                                        *)
LEMMA ForkFailsKeeps ==
    ASSUME MigrationInv, NEW j \in Job, ForkFails(j)
    PROVE  MigrationInv'
<1> DEFINE n == Src(j)
           T == [State EXCEPT !.node[n].pipe = TRUE]
           nd == [node[n] EXCEPT !.pipe = TRUE]
<1>0. /\ mode' = mode /\ writes' \in Nat /\ Apply(FinishExport(T, j, "failed"))
      /\ "failed" \in Finished
  BY DEF ForkFails, MigrationInv, Finished
<1>1. n \in Node /\ NodeOK(n, node[n])
  BY InvFacts, ModeFacts
<1>2. WithNode(State, T, n, nd)
  BY InvFacts DEF WithNode, IsRecord, State
<1>3. NodeOK(n, nd) /\ nd.owner = node[n].owner /\ nd.val = node[n].val
      /\ nd.child = node[n].child
  BY <1>1 DEF NodeOK
<1>4. nd.paused = node[n].paused
  BY <1>1 DEF NodeOK
<1> HIDE DEF T, nd, n
<1>5. PauseKept(State, n, nd) /\ ChildFed(State, nd)
  BY <1>1, <1>3, <1>4, StateFacts DEF PauseKept, ChildFed, MigrationInv, Good, ChildRuns
<1>6. Good(T) /\ KeepsClean(State, T)
  BY <1>1, <1>2, <1>3, <1>5, StateFacts, NodeChanges DEF MigrationInv
<1>7. Clean(T)
  BY <1>6, StaysClean DEF MigrationInv
<1> QED BY <1>0, <1>6, <1>7, FinishExportApplied


(* The child of n has ended; what it wrote, ms, is keys of its export.     *)
LEMMA ChildEnds ==
    ASSUME MigrationInv, NEW n \in Node, node[n].child # None,
           node[n].child.st = "writing", NEW st, st # "writing",
           NEW ms, ms \in Seq(MsgFor(node[n].child.job)),
           node' = [node EXCEPT ![n].child = [@ EXCEPT !.st = st]],
           link' = [link EXCEPT ![node[n].child.job] = ToTarget(@, ms)],
           exp' = exp, imp' = imp, risk' = risk, mode' = mode, writes' = writes
    PROVE  MigrationInv'
<1> DEFINE c == node[n].child
           j == c.job
           d == [c EXCEPT !.st = st]
           nd == [node[n] EXCEPT !.child = d]
           l == ToTarget(link[j], ms)
<1>1. NodeOK(n, node[n])
  BY InvFacts
<1>2. c \in [job : {c.job}, st : {c.st}, v : {c.v}] /\ j \in Exports(n) /\ c.v \in Values(j)
  BY <1>1 DEF NodeOK, ChildOK
<1>3. j \in Job /\ Fed(exp[j])
  BY <1>2, StateFacts DEF Exports, MigrationInv, Good, ChildRuns
<1>4. ChildOK(n, d) /\ d.st # "writing"
  <2>1. d \in [job : {c.job}, st : {st}, v : {c.v}]
    BY <1>2
  <2>2. d.job = c.job /\ d.st = st /\ d.v = c.v
    BY <2>1
  <2> QED BY <1>2, <2>1, <2>2 DEF ChildOK
<1>5. node' = [node EXCEPT ![n] = nd] /\ link' = [link EXCEPT ![j] = l]
  BY InvFacts, <1>3
<1> HIDE DEF d
<1>6. NodeOK(n, nd) /\ nd.owner = node[n].owner /\ nd.val = node[n].val /\ nd.child = d
  BY <1>1, <1>4 DEF NodeOK
<1>7. nd.paused \/ ~node[n].paused
  BY <1>1 DEF NodeOK
<1> HIDE DEF nd, c
<1>8. l \in LinkType(j) /\ l.dst = link[j].dst
  <2>1. link[j] \in LinkType(j) /\ ms \in Seq(MsgFor(j))
    BY <1>3, SameJob DEF c
  <2> QED BY <2>1, ToTargetOK
<1> HIDE DEF l, j
<1>9. JobOK(j, exp[j], l, imp[j])
  BY <1>3, <1>8, SameJob DEF JobOK, Unopened
<1>10. JobMoves(State, j, exp[j], imp[j])
  BY <1>3, StateFacts DEF JobMoves
<1>11. ChildFedNext(nd)
  BY <1>4, <1>6 DEF ChildFedNext
<1>12. exp' = [exp EXCEPT ![j] = exp[j]] /\ imp' = [imp EXCEPT ![j] = imp[j]] /\ writes' \in Nat
  BY <1>3, SameJob DEF MigrationInv
<1>13. MovesBoth(j, exp[j], l, imp[j], n, nd)
  BY <1>5, <1>6, <1>7, <1>9, <1>10, <1>11, <1>12 DEF MovesBoth
<1> QED BY <1>3, <1>13, JobAndNode

(* What a child sends.                                                     *)
LEMMA SnapMsgOK ==
    ASSUME NEW j, NEW v \in Values(j)
    PROVE  <<SnapMsg(v), Msg("eof")>> \in Seq(MsgFor(j)) /\ <<SnapMsg(v)>> \in Seq(MsgFor(j))
<1>1. SnapMsg(v) \in MsgFor(j)
  BY DEF SnapMsg, MsgFor
<1>2. Msg("eof") \in MsgFor(j)
  BY DEF Msg, MsgFor, Control
<1> QED BY <1>1, <1>2

(* The child has sent all of the snapshot.                                 *)
LEMMA ChildWritesKeeps ==
    ASSUME MigrationInv, NEW n \in Node, ChildWrites(n)
    PROVE  MigrationInv'
<1>1. node[n].child # None /\ node[n].child.st = "writing"
  BY DEF ChildWrites
<1>2. node[n].child.v \in Values(node[n].child.job)
  BY <1>1, InvFacts DEF NodeOK, ChildOK
<1>3. <<SnapMsg(node[n].child.v), Msg("eof")>> \in Seq(MsgFor(node[n].child.job))
  BY <1>2, SnapMsgOK
<1> QED BY <1>1, <1>3, ChildEnds DEF ChildWrites

(* The child has failed.                                                   *)
LEMMA ChildFailsKeeps ==
    ASSUME MigrationInv, NEW n \in Node, ChildFails(n)
    PROVE  MigrationInv'
<1>1. node[n].child # None /\ node[n].child.st = "writing"
  BY DEF ChildFails
<1>2. node[n].child.v \in Values(node[n].child.job)
  BY <1>1, InvFacts DEF NodeOK, ChildOK
<1>3. <<SnapMsg(node[n].child.v)>> \in Seq(MsgFor(node[n].child.job))
  BY <1>2, SnapMsgOK
<1> QED BY <1>1, <1>3, ChildEnds DEF ChildFails

(* Exports that were snapshotting begin to stream.                         *)
LEMMA BeginStreamingOK ==
    ASSUME NEW T, Good(T), NEW J, \A j \in J : j \in Job /\ T.exp[j].st = "snapshotting",
           NEW U, U = BeginStreaming(T, J)
    PROVE  Good(U) /\ KeepsClean(T, U)
<1> DEFINE E == [j \in Job |-> IF j \in J THEN [T.exp[j] EXCEPT !.st = "streaming", !.pend = TRUE]
                               ELSE T.exp[j]]
<1>1. U = [T EXCEPT !.exp = E]
  BY DEF BeginStreaming
<1>2. /\ IsState(U) /\ U.exp = E /\ U.node = T.node /\ U.imp = T.imp /\ U.link = T.link
      /\ U.risk = T.risk
  BY <1>1 DEF Good, IsState
<1>3. /\ \A j \in J : U.exp[j] = [T.exp[j] EXCEPT !.st = "streaming", !.pend = TRUE]
      /\ \A j \in Job \ J : U.exp[j] = T.exp[j]
  BY <1>2
<1> HIDE DEF E
<1>4. ASSUME NEW j \in J
      PROVE  /\ U.exp[j] \in ExportType(j) /\ Fed(U.exp[j]) /\ U.exp[j].st # "granted"
             /\ JobOK(j, U.exp[j], U.link[j], U.imp[j])
  <2>1. JobOK(j, T.exp[j], T.link[j], T.imp[j]) /\ T.exp[j].st = "snapshotting"
    BY DEF Good, JobsOK
  <2>2. U.exp[j] \in ExportType(j) /\ U.exp[j].st = "streaming"
    <3> DEFINE f == T.exp[j]
    <3>1. f \in ExportType(j)
      BY <2>1 DEF JobOK
    <3>2. U.exp[j] = [f EXCEPT !.st = "streaming", !.pend = TRUE]
      BY <1>3
    <3> HIDE DEF f
    <3> QED BY <3>1, <3>2 DEF ExportType, ExportInProgress
  <2>3. Fed(U.exp[j]) /\ Fed(T.exp[j])
    BY <2>1, <2>2 DEF Fed
  <2> QED BY <1>2, <2>1, <2>2, <2>3 DEF JobOK, Unopened
<1>5. JobsOK(U)
  BY <1>2, <1>3, <1>4 DEF Good, JobsOK
<1>6. Firm(U)
  <2> SUFFICES ASSUME NEW j \in Job, U.exp[j].st = "granted", ~(Slots(j) \subseteq T.risk)
               PROVE  U.exp[j].mf # "none" /\ T.node[Src(j)].paused
    BY <1>2 DEF Firm
  <2>1. U.exp[j] = T.exp[j]
    BY <1>3, <1>4
  <2> QED BY <2>1 DEF Good, Firm
<1>7. ChildRuns(U)
  <2> SUFFICES ASSUME NEW n \in Node, T.node[n].child # None,
                      T.node[n].child.st = "writing"
               PROVE  Fed(U.exp[T.node[n].child.job])
    BY <1>2 DEF ChildRuns
  <2>1. Fed(T.exp[T.node[n].child.job]) /\ T.node[n].child.job \in Job
    BY DEF Good, ChildRuns, NodesOK, NodeOK, ChildOK, Exports
  <2> QED BY <1>3, <1>4, <2>1
<1>8. Good(U)
  BY <1>2, <1>5, <1>6, <1>7 DEF Good, NodesOK
<1>9. KeepsClean(T, U)
  BY <1>2 DEF KeepsClean, CleanBut, IsSlotImporting
<1> QED BY <1>8, <1>9

(* The child is waited for: the snapshot is complete, or its export ends.  *)
LEMMA SnapshotDoneKeeps ==
    ASSUME MigrationInv, NEW n \in Node, BackgroundSlotMigrationDone(n)
    PROVE  MigrationInv'
<1> DEFINE J == {j \in Exports(n) : exp[j].st = "snapshotting"}
           A == [State EXCEPT !.node[n].child = None, !.node[n].pipe = FALSE]
           nd == [node[n] EXCEPT !.child = None, !.pipe = FALSE]
<1>0. /\ mode' = mode /\ writes' \in Nat /\ "failed" \in Finished /\ J \subseteq Exports(n)
      /\ \A j \in J : j \in Job /\ exp[j].st = "snapshotting"
  BY DEF BackgroundSlotMigrationDone, MigrationInv, Finished, Exports
<1>1. NodeOK(n, node[n])
  BY InvFacts
<1>2. WithNode(State, A, n, nd) /\ A.exp = exp
  BY InvFacts DEF WithNode, IsRecord, State
<1>3. NodeOK(n, nd) /\ nd.owner = node[n].owner /\ nd.val = node[n].val /\ nd.child = None
  BY <1>1 DEF NodeOK, ChildOK
<1>4. nd.paused = node[n].paused
  BY <1>1 DEF NodeOK
<1>5. Apply(BeginStreaming(A, J)) \/ Apply(FinishExports(A, n, J, "failed"))
  BY Zenon DEF BackgroundSlotMigrationDone
<1> HIDE DEF A, nd, J
<1>6. PauseKept(State, n, nd) /\ ChildFed(State, nd)
  BY <1>3, <1>4, StateFacts DEF PauseKept, ChildFed
<1>7. Good(A) /\ KeepsClean(State, A)
  BY <1>2, <1>3, <1>6, StateFacts, NodeChanges DEF MigrationInv
<1>8. Clean(A)
  BY <1>7, StaysClean DEF MigrationInv
<1>9. Good(BeginStreaming(A, J)) /\ KeepsClean(A, BeginStreaming(A, J))
  BY <1>0, <1>2, <1>7, BeginStreamingOK
<1>10. Good(FinishExports(A, n, J, "failed")) /\ KeepsClean(A, FinishExports(A, n, J, "failed"))
  BY <1>0, <1>7, FinishExportsOK
<1>11. Clean(BeginStreaming(A, J)) /\ Clean(FinishExports(A, n, J, "failed"))
  BY <1>8, <1>9, <1>10, StaysClean
<1> QED BY <1>0, <1>5, <1>9, <1>10, <1>11, Applied


-------------------------------------------------------------------------------
(* The stream, the pause and the failover.                                 *)

SameStates(T, U) ==
    /\ IsRecord(U) /\ U.node = T.node /\ U.imp = T.imp /\ U.link = T.link
    /\ U.risk = T.risk /\ U.exp = [j \in Job |-> U.exp[j]]
    /\ \A j \in Job : /\ JobOK(j, U.exp[j], T.link[j], T.imp[j])
                      /\ U.exp[j].st = T.exp[j].st /\ U.exp[j].mf = T.exp[j].mf

(* Only the output of exports changes.                                     *)
LEMMA OutputChanges ==
    ASSUME NEW T, Good(T), NEW U, SameStates(T, U)
    PROVE  Good(U) /\ KeepsClean(T, U)
<1>1. /\ IsRecord(U) /\ U.node = T.node /\ U.imp = T.imp /\ U.link = T.link
      /\ U.risk = T.risk /\ U.exp = [j \in Job |-> U.exp[j]]
  BY DEF SameStates
<1>2. \A j \in Job : /\ JobOK(j, U.exp[j], T.link[j], T.imp[j])
                     /\ U.exp[j].st = T.exp[j].st /\ U.exp[j].mf = T.exp[j].mf
  BY DEF SameStates
<1>3. IsState(U) /\ NodesOK(U) /\ JobsOK(U)
  BY <1>1, <1>2 DEF Good, IsState, IsRecord, NodesOK, JobsOK
<1>4. Firm(U)
  BY <1>1, <1>2 DEF Good, Firm
<1>5. ChildRuns(U)
  <2> SUFFICES ASSUME NEW n \in Node, T.node[n].child # None,
                      T.node[n].child.st = "writing"
               PROVE  Fed(U.exp[T.node[n].child.job])
    BY <1>1 DEF ChildRuns
  <2>1. Fed(T.exp[T.node[n].child.job]) /\ T.node[n].child.job \in Job
    BY DEF Good, ChildRuns, NodesOK, NodeOK, ChildOK, Exports
  <2> QED BY <1>2, <2>1 DEF Fed
<1>6. Good(U)
  BY <1>3, <1>4, <1>5 DEF Good
<1>7. KeepsClean(T, U)
  BY <1>1 DEF KeepsClean, CleanBut, IsSlotImporting
<1> QED BY <1>6, <1>7

(* A write of a client.                                                    *)
LEMMA WriteKeeps ==
    ASSUME MigrationInv, NEW n \in Node, NEW s \in Slot, Write(n, s)
    PROVE  MigrationInv'
<1> DEFINE w == writes + 1
           J == {j \in Exports(n) : s \in Slots(j) /\ link[j].src /\ Fed(exp[j])}
           E == [j \in Job |-> IF j \in J THEN Say(exp[j], DataMsg(s, w)) ELSE exp[j]]
           T == [State EXCEPT !.exp = E]
           U == [State EXCEPT !.exp = E, !.node = node']
           v == [node[n].val EXCEPT ![s] = Append(@, w)]
           nd == [node[n] EXCEPT !.val = v]
<1>0. mode' = mode /\ writes' \in Nat /\ w \in Nat /\ exp' = E /\ node[n].owner[s] = n
  BY DEF Write, MigrationInv
<1>1. NodeOK(n, node[n])
  BY InvFacts
<1>2. node' = [node EXCEPT ![n] = nd]
  BY InvFacts DEF Write
<1>3. v \in [Slot -> Seq(Nat)] /\ \A t \in Slot \ {s} : v[t] = node[n].val[t]
  <2>1. node[n].val \in [Slot -> Seq(Nat)]
    BY <1>1 DEF NodeOK
  <2>2. Append(node[n].val[s], w) \in Seq(Nat)
    BY <1>0, <2>1, AppendProperties
  <2> QED BY <2>1, <2>2
<1>4. \A j \in J : j \in Job /\ s \in Slots(j) /\ Fed(exp[j])
  BY DEF Exports
<1>5. ASSUME NEW j \in Job
      PROVE  JobOK(j, E[j], link[j], imp[j]) /\ E[j].st = exp[j].st /\ E[j].mf = exp[j].mf
  <2>1. CASE j \in J
    <3>1. DataMsg(s, w) \in MsgFor(j)
      BY <1>0, <1>4, <2>1 DEF DataMsg, MsgFor
    <3>2. E[j] = Say(exp[j], DataMsg(s, w)) /\ exp[j] \in ExportType(j)
      BY <2>1, SameJob
    <3>3. E[j] \in ExportType(j) /\ E[j].st = exp[j].st /\ E[j].mf = exp[j].mf
      BY <3>1, <3>2, SayDataOK
    <3>4. Fed(exp[j]) /\ Fed(E[j])
      BY <1>4, <2>1, <3>3 DEF Fed
    <3> QED BY <3>3, <3>4, SameJob DEF JobOK, Unopened
  <2>2. CASE j \notin J
    <3>1. E[j] = exp[j]
      BY <2>2
    <3> QED BY <3>1, InvFacts
  <2> QED BY <2>1, <2>2
<1>6. E = [j \in Job |-> E[j]]
  OBVIOUS
<1> HIDE DEF J, E, v
<1>7. SameStates(State, T) /\ T.imp = imp /\ T.node = node
  BY <1>5, <1>6, StateFacts DEF SameStates, IsRecord, State
<1>8. WithNode(T, U, n, nd)
  BY <1>2 DEF WithNode, IsRecord, State
<1>9. Apply(U)
  BY <1>0 DEF Apply, Write, State
<1>10. /\ NodeOK(n, nd) /\ nd.owner = node[n].owner /\ nd.val = v
       /\ nd.child = node[n].child
  BY <1>1, <1>3 DEF NodeOK
<1>11. nd.paused = node[n].paused
  BY <1>1 DEF NodeOK
<1> HIDE DEF T, U, nd
<1>12. Good(T) /\ KeepsClean(State, T)
  BY <1>7, OutputChanges DEF MigrationInv
<1>13. CleanBut(T, n, {}) /\ IsState(T)
  BY <1>12 DEF KeepsClean, MigrationInv, Clean, Good
<1>14. PauseKept(T, n, nd) /\ ChildFed(T, nd)
  BY <1>7, <1>10, <1>11, <1>12 DEF PauseKept, ChildFed, Good, ChildRuns
<1>15. Good(U)
  BY <1>8, <1>10, <1>12, <1>14, NodeChanges
<1>16. \A t \in Slot : nd.val[t] # <<>> =>
              nd.owner[t] = n \/ IsSlotImporting(T, n, t) \/ t \in {}
  BY <1>0, <1>3, <1>7, <1>10, <1>13 DEF CleanBut
<1>17. CleanBut(U, n, {})
  BY <1>8, <1>13, <1>16, CleanNode
<1>18. Clean(U)
  BY <1>17, CleanAny
<1> QED BY <1>0, <1>9, <1>15, <1>18, Applied

(* slotExportTryDoPause, for a job that streams.                           *)
LEMMA TryDoPauseApplied ==
    ASSUME NEW T, Good(T), Clean(T), NEW j \in Job,
           T.exp[j].st \in {"streaming", "wait_pause"},
           TryDoPause(T, j), mode' = mode, writes' \in Nat
    PROVE  MigrationInv'
<1> DEFINE n == Src(j)
           f == [T.exp[j] EXCEPT !.st = "paused", !.mf = "armed"]
           e == Say(f, Msg("paused"))
           g == [T.exp[j] EXCEPT !.st = "wait_pause"]
           nd == [T.node[n] EXCEPT !.paused = TRUE]
           A == [T EXCEPT !.exp[j] = e]
           P == Paused(T, j)
           W == [T EXCEPT !.exp[j].st = "wait_pause"]
<1>1. n \in Node /\ JobOK(j, T.exp[j], T.link[j], T.imp[j]) /\ T.exp[j] \in ExportType(j)
  BY ModeFacts DEF Good, JobsOK, JobOK
<1>2. NodeOK(n, T.node[n])
  BY <1>1 DEF Good, NodesOK
<1>3. Fed(T.exp[j])
  BY DEF Fed
<1>4. /\ f \in ExportType(j) /\ f.st = "paused" /\ f.mf = "armed"
      /\ g \in ExportType(j) /\ g.st = "wait_pause"
  <2> DEFINE h == T.exp[j]
  <2>1. h \in ExportType(j) /\ f = [h EXCEPT !.st = "paused", !.mf = "armed"]
        /\ g = [h EXCEPT !.st = "wait_pause"]
    BY <1>1
  <2> HIDE DEF h, f, g
  <2> QED BY <2>1 DEF ExportType, ExportInProgress
<1>5. WithJob(T, A, j, e, T.link[j], T.imp[j]) /\ WithJob(T, W, j, g, T.link[j], T.imp[j])
  <2> HIDE DEF e
  <2> QED BY DEF WithJob, IsRecord, Good, IsState
<1>6. WithNode(A, P, n, nd)
  <2> HIDE DEF e
  <2>1. P = [T EXCEPT !.node[n].paused = TRUE, !.exp[j] = e]
    BY DEF Paused, e
  <2> HIDE DEF P
  <2> QED BY <2>1, <1>1 DEF WithNode, IsRecord, Good, IsState
<1>7. Apply(P) \/ Apply(W)
  BY Zenon DEF TryDoPause
<1>8. /\ NodeOK(n, nd) /\ nd.owner = T.node[n].owner /\ nd.val = T.node[n].val
      /\ nd.child = T.node[n].child
  BY <1>2 DEF NodeOK
<1>9. nd.paused
  BY <1>2 DEF NodeOK
<1> HIDE DEF f, g, nd, A, P, W, n
<1>10. Fed(f) /\ Fed(g) /\ Msg("paused") \in Control
  BY <1>4 DEF Fed, Msg, Control
<1>11. e \in ExportType(j) /\ e.st = f.st
  BY <1>4, <1>10, SayOK
<1>12. Fed(e) /\ e.st = "paused"
  BY <1>4, <1>11 DEF Fed
<1> HIDE DEF e
<1>13. JobOK(j, e, T.link[j], T.imp[j]) /\ JobOK(j, g, T.link[j], T.imp[j])
  BY <1>1, <1>3, <1>4, <1>10, <1>11, <1>12 DEF JobOK, Unopened
<1>14. JobMoves(T, j, e, T.imp[j]) /\ JobMoves(T, j, g, T.imp[j])
  BY <1>4, <1>10, <1>12 DEF JobMoves
<1>15. Good(A) /\ KeepsClean(T, A)
  BY <1>5, <1>13, <1>14, JobChanges
<1>16. Good(W) /\ KeepsClean(T, W)
  BY <1>5, <1>13, <1>14, JobChanges
<1>17. A.node = T.node
  BY <1>5 DEF WithJob
<1>18. PauseKept(A, n, nd) /\ ChildFed(A, nd)
  BY <1>1, <1>8, <1>9, <1>15, <1>17 DEF PauseKept, ChildFed, Good, ChildRuns
<1>19. Good(P) /\ KeepsClean(A, P)
  BY <1>1, <1>6, <1>8, <1>15, <1>17, <1>18, NodeChanges
<1>20. Clean(W) /\ Clean(A)
  BY <1>15, <1>16, StaysClean
<1>21. Clean(P)
  BY <1>19, <1>20, StaysClean
<1> QED BY <1>7, <1>16, <1>19, <1>20, <1>21, Applied


(* REQUEST-PAUSE arrives.                                                  *)
LEMMA RequestPauseKeeps ==
    ASSUME MigrationInv, NEW j \in Job, RequestPause(j)
    PROVE  MigrationInv'
<1> DEFINE R == Read(j)
           B == BeginStreaming(R, {j})
<1>0. mode' = mode /\ writes' \in Nat /\ Received(j, "request_pause") /\ "failed" \in Finished
  BY DEF RequestPause, MigrationInv, Finished
<1>1. Good(R) /\ KeepsClean(State, R) /\ R.exp = exp
  BY <1>0, ReadOK
<1>2. Clean(R)
  BY <1>1, StaysClean DEF MigrationInv
<1>3. CASE exp[j].st = "streaming"
  <2>1. TryDoPause(R, j)
    BY <1>3 DEF RequestPause
  <2> HIDE DEF R
  <2> QED BY <1>0, <1>1, <1>2, <1>3, <2>1, TryDoPauseApplied
<1>4. CASE exp[j].st = "snapshotting"
  <2>1. TryDoPause(B, j)
    BY <1>4 DEF RequestPause
  <2>2. B.exp[j].st = "streaming"
    <3>1. R \in [node : {R.node}, exp : {R.exp}, imp : {R.imp}, link : {R.link},
                 risk : SUBSET Slot, asserts : {R.asserts}]
      BY <1>1 DEF Good, IsState
    <3>2. exp[j] \in ExportType(j)
      BY SameJob
    <3> HIDE DEF R
    <3> QED BY <1>1, <3>1, <3>2 DEF BeginStreaming, ExportType
  <2> HIDE DEF R
  <2>3. Good(B) /\ KeepsClean(R, B)
    BY <1>1, <1>4, BeginStreamingOK
  <2>4. Clean(B)
    BY <1>2, <2>3, StaysClean
  <2> HIDE DEF B
  <2> QED BY <1>0, <2>1, <2>2, <2>3, <2>4, TryDoPauseApplied
<1>5. CASE exp[j].st \notin {"streaming", "snapshotting"}
  <2>1. Apply(FinishExport(R, j, "failed"))
    BY <1>5 DEF RequestPause
  <2> HIDE DEF R
  <2> QED BY <1>0, <1>1, <1>2, <2>1, FinishExportApplied
<1> QED BY <1>3, <1>4, <1>5

(* The output of a job that waits to pause may have become small enough.   *)
LEMMA WaitingToPauseKeeps ==
    ASSUME MigrationInv, NEW j \in Job, WaitingToPause(j)
    PROVE  MigrationInv'
<1>1. /\ State.exp[j].st = "wait_pause" /\ TryDoPause(State, j) /\ mode' = mode
      /\ writes' \in Nat
  BY StateFacts DEF WaitingToPause, MigrationInv
<1> QED BY <1>1, TryDoPauseApplied DEF MigrationInv

(* REQUEST-FAILOVER arrives.                                               *)
LEMMA RequestFailoverKeeps ==
    ASSUME MigrationInv, NEW j \in Job, RequestFailover(j)
    PROVE  MigrationInv'
<1> DEFINE f == [exp[j] EXCEPT !.st = "granted"]
           e == Say(f, Msg("granted"))
           l == [link[j] EXCEPT !.tos = Tail(@)]
<1>0. mode' = mode /\ writes' \in Nat /\ Received(j, "request_failover") /\ "failed" \in Finished
  BY DEF RequestFailover, MigrationInv, Finished
<1>1. CASE MayGrant(j)
  <2>1. exp[j].st = "paused" /\ exp[j].mf = "armed" /\ node[Src(j)].paused
    BY <1>1, StateFacts DEF MayGrant, PauseTimedOut
  <2>2. Apply([Read(j) EXCEPT !.exp[j] = Say([@ EXCEPT !.st = "granted"], Msg("granted"))])
    BY <1>1 DEF RequestFailover
  <2>3. /\ exp' = [exp EXCEPT ![j] = e] /\ link' = [link EXCEPT ![j] = l]
        /\ imp' = imp /\ node' = node /\ risk' = risk
    BY <2>2, InvFacts DEF Apply, Read, State
  <2>4. /\ f \in ExportType(j) /\ f.st = "granted" /\ f.mf = "armed"
    BY <2>1, SameJob DEF ExportType, ExportInProgress
  <2>5. Fed(f) /\ Fed(exp[j]) /\ Msg("granted") \in Control
    BY <2>1, <2>4 DEF Fed, Msg, Control
  <2> HIDE DEF f
  <2>6. e \in ExportType(j) /\ e.st = "granted" /\ e.mf = "armed"
    BY <2>4, <2>5, SayOK
  <2>7. Fed(e)
    BY <2>6 DEF Fed
  <2>8. l \in LinkType(j) /\ l.dst = link[j].dst
    BY <1>0, ReadFacts
  <2> HIDE DEF e, l
  <2>9. JobOK(j, e, l, imp[j])
    BY <2>5, <2>6, <2>7, <2>8, SameJob DEF JobOK, Unopened
  <2>10. JobMoves(State, j, e, imp[j])
    BY <2>1, <2>6, <2>7, StateFacts DEF JobMoves
  <2> QED BY <1>0, <2>3, <2>9, <2>10, SameJob, JobSteps
<1>2. CASE ~MayGrant(j)
  <2>1. Good(Read(j)) /\ Clean(Read(j))
    BY <1>0, ReadOK, StaysClean DEF MigrationInv
  <2>2. Apply(FinishExport(Read(j), j, "failed"))
    BY <1>2 DEF RequestFailover
  <2> QED BY <1>0, <2>1, <2>2, FinishExportApplied
<1> QED BY <1>1, <1>2

(* The deadline of a job passes.                                           *)
LEMMA DeadlinePassesKeeps ==
    ASSUME MigrationInv, NEW j \in Job, DeadlinePasses(j)
    PROVE  MigrationInv'
<1> DEFINE e == [exp[j] EXCEPT !.mf = "late"]
<1>1. exp' = [exp EXCEPT ![j] = e]
  BY InvFacts DEF DeadlinePasses
<1>2. e \in ExportType(j) /\ e.st = exp[j].st /\ e.out = exp[j].out /\ e.mf = "late"
  BY SameJob DEF ExportType
<1> HIDE DEF e
<1>3. Fed(e) = Fed(exp[j])
  BY <1>2 DEF Fed
<1>4. JobOK(j, e, link[j], imp[j])
  BY <1>2, <1>3, SameJob DEF JobOK, Unopened
<1>5. JobMoves(State, j, e, imp[j])
  BY <1>2, <1>3, StateFacts DEF JobMoves
<1>6. /\ mode' = mode /\ writes' \in Nat /\ node' = node /\ risk' = risk
      /\ link' = [link EXCEPT ![j] = link[j]] /\ imp' = [imp EXCEPT ![j] = imp[j]]
  BY SameJob DEF DeadlinePasses, MigrationInv
<1> QED BY <1>1, <1>4, <1>5, <1>6, JobSteps

(* The pause runs out: what was granted is at risk.                        *)
LEMMA PauseExpiresKeeps ==
    ASSUME MigrationInv, NEW n \in Node, PauseExpires(n)
    PROVE  MigrationInv'
<1> DEFINE R == risk \cup {s \in Slot : SlotFailoverGranted(State, n, s)}
           T == [State EXCEPT !.risk = R]
           U == [State EXCEPT !.risk = R, !.node = node']
           nd == [node[n] EXCEPT !.paused = FALSE]
<1>0. mode' = mode /\ writes' \in Nat /\ node' = [node EXCEPT ![n] = nd]
  BY InvFacts DEF PauseExpires, MigrationInv
<1>1. R \subseteq Slot /\ risk \subseteq R /\ risk' = R
  BY InvFacts DEF PauseExpires
<1>2. \A j \in Exports(n) : exp[j].st = "granted" => Slots(j) \subseteq R
  <2> SUFFICES ASSUME NEW j \in Exports(n), exp[j].st = "granted", NEW s \in Slots(j)
               PROVE  s \in R
    OBVIOUS
  <2>1. s \in Slot
    BY InvFacts, ModeFacts DEF Exports
  <2>2. SlotFailoverGranted(State, n, s)
    BY StateFacts DEF SlotFailoverGranted
  <2> QED BY <2>1, <2>2
<1>3. NodeOK(n, node[n])
  BY InvFacts
<1>4. /\ NodeOK(n, nd) /\ nd.owner = node[n].owner /\ nd.val = node[n].val
      /\ nd.child = node[n].child
  BY <1>3 DEF NodeOK
<1> HIDE DEF R, nd
<1>5. /\ IsState(T) /\ T.node = node /\ T.exp = exp /\ T.imp = imp /\ T.link = link
      /\ T.risk = R
  BY <1>1, InvFacts DEF State, IsState
<1>6. WithNode(T, U, n, nd) /\ Apply(U)
  BY <1>0, <1>1 DEF WithNode, IsRecord, State, Apply, PauseExpires
<1> HIDE DEF T, U
<1>7. Good(T)
  BY <1>1, <1>5, StateFacts DEF MigrationInv, Good, NodesOK, JobsOK, Firm, ChildRuns
<1>8. Clean(T)
  BY <1>5, StateFacts DEF MigrationInv, Clean, CleanBut, IsSlotImporting
<1>9. PauseKept(T, n, nd) /\ ChildFed(T, nd)
  BY <1>2, <1>4, <1>5, <1>7 DEF PauseKept, ChildFed, Good, ChildRuns
<1>10. Good(U) /\ KeepsClean(T, U)
  BY <1>4, <1>5, <1>6, <1>7, <1>9, NodeChanges
<1>11. Clean(U)
  BY <1>8, <1>10, StaysClean
<1> QED BY <1>0, <1>6, <1>10, <1>11, Applied

(* A job whose pause is over ends.                                         *)
LEMMA PauseTimeoutKeeps ==
    ASSUME MigrationInv, NEW j \in Job, PauseTimeout(j)
    PROVE  MigrationInv'
<1>1. /\ Apply(FinishExport(State, j, "failed")) /\ mode' = mode /\ writes' \in Nat
      /\ "failed" \in Finished
  BY DEF PauseTimeout, MigrationInv, Finished
<1> QED BY <1>1, FinishExportApplied DEF MigrationInv

-------------------------------------------------------------------------------
(* The target.                                                             *)

(* The target has executed a command.                                      *)
LEMMA ExecutedFacts ==
    ASSUME MigrationInv, NEW j \in Job, NEW k, Arrives(j, k),
           NEW l, l = [link[j] EXCEPT !.tot = Tail(@)]
    PROVE  /\ l \in LinkType(j) /\ l.dst = link[j].dst /\ l.tos = link[j].tos
           /\ link[j].tot \in Seq(Control) => l.tot \in Seq(Control) /\ k \notin {"snap", "data"}
           /\ link[j].dst /\ Head(link[j].tot) \in MsgFor(j) /\ Head(link[j].tot).k = k
           /\ WithJob(State, Executed(j), j, exp[j], l, imp[j])
<1>1. link[j].dst /\ link[j].tot # <<>> /\ Head(link[j].tot).k = k
  BY DEF Arrives
<1>2. link[j] \in LinkType(j) /\ link[j].tot \in Seq(MsgFor(j))
  BY SameJob DEF LinkType
<1>3. Tail(link[j].tot) \in Seq(MsgFor(j)) /\ Head(link[j].tot) \in MsgFor(j)
  BY <1>1, <1>2, TailOK
<1>4. link[j].tot \in Seq(Control) =>
        Tail(link[j].tot) \in Seq(Control) /\ Head(link[j].tot) \in Control
  BY <1>1, TailOK
<1>5. Head(link[j].tot) \in Control => k \notin {"snap", "data"}
  BY <1>1 DEF Control
<1>6. l \in LinkType(j) /\ l.dst = link[j].dst /\ l.tos = link[j].tos
      /\ l.tot = Tail(link[j].tot)
  BY <1>2, <1>3 DEF LinkType
<1>7. WithJob(State, Executed(j), j, exp[j], l, imp[j])
  BY InvFacts DEF Executed, State, WithJob, IsRecord
<1> QED BY <1>1, <1>3, <1>4, <1>5, <1>6, <1>7

(* Executing alone changes nothing the invariant speaks of; keys come to   *)
(* an import in progress.                                                  *)
LEMMA ExecutedOK ==
    ASSUME MigrationInv, NEW j \in Job, NEW k, Arrives(j, k)
    PROVE  /\ Good(Executed(j)) /\ Clean(Executed(j))
           /\ Executed(j).exp = exp /\ Executed(j).imp = imp /\ Executed(j).node = node
           /\ k \in {"snap", "data"} => imp[j] \in ImportInProgress
<1> DEFINE l == [link[j] EXCEPT !.tot = Tail(@)]
<1>1. /\ l \in LinkType(j) /\ l.dst = link[j].dst /\ l.tos = link[j].tos
      /\ link[j].tot \in Seq(Control) => l.tot \in Seq(Control) /\ k \notin {"snap", "data"}
      /\ link[j].dst
      /\ WithJob(State, Executed(j), j, exp[j], l, imp[j])
  BY ZenonT(60), ExecutedFacts
<1> HIDE DEF l
<1>2. JobOK(j, exp[j], l, imp[j])
  BY <1>1, SameJob DEF JobOK, Unopened
<1>3. JobMoves(State, j, exp[j], imp[j])
  BY StateFacts DEF JobMoves
<1>4. Good(Executed(j)) /\ KeepsClean(State, Executed(j))
  BY <1>1, <1>2, <1>3, JobChanges DEF MigrationInv
<1>5. Executed(j).exp = exp /\ Executed(j).imp = imp /\ Executed(j).node = node
  BY InvFacts DEF Executed, State
<1>6. k \in {"snap", "data"} => imp[j] \in ImportInProgress
  BY <1>1, SameJob DEF Unopened
<1> QED BY <1>4, <1>5, <1>6, StaysClean DEF MigrationInv


(* ESTABLISH arrives.                                                      *)
LEMMA EstablishKeeps ==
    ASSUME MigrationInv, NEW j \in Job, SyncSlotsEstablish(j)
    PROVE  MigrationInv'
<1> DEFINE l == [link[j] EXCEPT !.tot = Tail(@)]
           T == Executed(j)
           ok == ToSource(l, "ok")
           no == ToSource(l, "error")
<1>0. mode' = mode /\ writes' \in Nat /\ Arrives(j, "establish")
  BY DEF SyncSlotsEstablish, MigrationInv
<1>1. /\ l \in LinkType(j) /\ l.dst = link[j].dst /\ l.tos = link[j].tos
      /\ link[j].tot \in Seq(Control) => l.tot \in Seq(Control)
  BY <1>0, ExecutedFacts
<1>2. \/ Apply([T EXCEPT !.imp[j] = "wait_ack", !.link[j] = ToSource(@, "ok")])
      \/ Apply([T EXCEPT !.link[j] = ToSource(@, "error")])
  BY Zenon DEF SyncSlotsEstablish
<1>3. "ok" \in Reply /\ "error" \in Reply
  BY DEF Reply
<1>4. CASE Apply([T EXCEPT !.imp[j] = "wait_ack", !.link[j] = ToSource(@, "ok")])
  <2>1. /\ exp' = exp /\ link' = [link EXCEPT ![j] = ok] /\ node' = node
        /\ imp' = [imp EXCEPT ![j] = "wait_ack"] /\ risk' = risk
    BY <1>4, InvFacts DEF Apply, Executed, State
  <2>2. ok \in LinkType(j)
    <3> HIDE DEF l
    <3> QED BY <1>1, <1>3, ToSourceOK
  <2> HIDE DEF ok
  <2>3. JobOK(j, exp[j], ok, "wait_ack")
    BY <2>2, SameJob DEF JobOK, ImportType, ImportInProgress
  <2>4. JobMoves(State, j, exp[j], "wait_ack")
    BY StateFacts DEF JobMoves, Importing, ImportInProgress
  <2> QED BY <1>0, <2>1, <2>3, <2>4, SameJob, JobSteps
<1>5. CASE Apply([T EXCEPT !.link[j] = ToSource(@, "error")])
  <2>1. /\ exp' = exp /\ link' = [link EXCEPT ![j] = no] /\ node' = node
        /\ imp' = imp /\ risk' = risk
    BY <1>5, InvFacts DEF Apply, Executed, State
  <2>2. /\ no \in LinkType(j) /\ no.dst = l.dst /\ no.tot = l.tot
        /\ l.tos \in Seq(Reply \ {"ok"}) => no.tos \in Seq(Reply \ {"ok"})
    <3> HIDE DEF l
    <3> QED BY <1>1, <1>3, ToSourceOK
  <2> HIDE DEF no, l
  <2>3. JobOK(j, exp[j], no, imp[j])
    BY <1>1, <2>2, SameJob DEF JobOK, Unopened
  <2>4. JobMoves(State, j, exp[j], imp[j])
    BY StateFacts DEF JobMoves
  <2> QED BY <1>0, <2>1, <2>3, <2>4, SameJob, JobSteps
<1> QED BY <1>2, <1>4, <1>5

(* An import goes from one of its states to another, and may answer.       *)
LEMMA ImportProceeds ==
    ASSUME MigrationInv, NEW j \in Job, NEW k, Arrives(j, k), NEW i, NEW l,
           l \in LinkType(j), l.dst = link[j].dst, i \in ImportInProgress,
           exp' = exp, link' = [link EXCEPT ![j] = l], node' = node, risk' = risk,
           imp' = [imp EXCEPT ![j] = i], mode' = mode, writes' \in Nat
    PROVE  MigrationInv'
<1>1. JobOK(j, exp[j], l, i)
  BY SameJob DEF JobOK, ImportType
<1>2. JobMoves(State, j, exp[j], i)
  BY StateFacts DEF JobMoves, Importing
<1>3. exp' = [exp EXCEPT ![j] = exp[j]]
  BY SameJob
<1> QED BY <1>1, <1>2, <1>3, JobSteps

(* A step that fails one import.                                           *)
LEMMA FailImportApplied ==
    ASSUME NEW T, Good(T), Clean(T), NEW j \in Job, Apply(FailImports(T, {j})),
           mode' = mode, writes' \in Nat
    PROVE  MigrationInv'
<1> DEFINE U == FailImports(T, {j})
<1>1. {j} \subseteq Job
  OBVIOUS
<1>2. Good(U) /\ KeepsClean(T, U)
  BY <1>1, FailImportsOK
<1>3. Clean(U) /\ Apply(U)
  BY <1>2, StaysClean
<1> HIDE DEF U
<1> QED BY <1>2, <1>3, Applied

(* ACK arrives.                                                            *)
LEMMA AckKeeps ==
    ASSUME MigrationInv, NEW j \in Job, SyncSlotsAck(j)
    PROVE  MigrationInv'
<1>0. mode' = mode /\ writes' \in Nat /\ Arrives(j, "ack")
  BY DEF SyncSlotsAck, MigrationInv
<1>1. CASE imp[j] = "wait_ack"
  <2> DEFINE l == [link[j] EXCEPT !.tot = Tail(@)]
  <2>1. l \in LinkType(j) /\ l.dst = link[j].dst
    BY <1>0, ExecutedFacts
  <2>2. /\ exp' = exp /\ link' = [link EXCEPT ![j] = l] /\ node' = node
        /\ imp' = [imp EXCEPT ![j] = "snapshot"] /\ risk' = risk
    BY <1>1, InvFacts DEF SyncSlotsAck, Apply, Executed, State
  <2>3. "snapshot" \in ImportInProgress
    BY DEF ImportInProgress
  <2> HIDE DEF l
  <2> QED BY <1>0, <2>1, <2>2, <2>3, ImportProceeds
<1>2. CASE imp[j] # "wait_ack"
  <2>1. Good(Executed(j)) /\ Clean(Executed(j))
    BY <1>0, ExecutedOK
  <2>2. Apply(Executed(j))
    BY <1>2, InvFacts DEF SyncSlotsAck, Apply, Executed, State
  <2> QED BY <1>0, <2>1, <2>2, Applied
<1> QED BY <1>1, <1>2

(* SNAPSHOT-EOF or PAUSED arrives.                                         *)
LEMMA MarkerKeeps ==
    ASSUME MigrationInv, NEW j \in Job, NEW k, NEW from, NEW answer \in Reply,
           NEW to \in ImportInProgress, Marker(j, k, from, answer, to)
    PROVE  MigrationInv'
<1> DEFINE f == [link[j] EXCEPT !.tot = Tail(@)]
           l == ToSource(f, answer)
<1>0. mode' = mode /\ writes' \in Nat /\ Arrives(j, k)
  BY DEF Marker, MigrationInv
<1>1. CASE imp[j] = from
  <2>1. f \in LinkType(j) /\ f.dst = link[j].dst
    BY <1>0, ExecutedFacts
  <2>2. /\ exp' = exp /\ link' = [link EXCEPT ![j] = l] /\ node' = node
        /\ imp' = [imp EXCEPT ![j] = to] /\ risk' = risk
    BY <1>1, InvFacts DEF Marker, Apply, Executed, State
  <2>3. l \in LinkType(j) /\ l.dst = link[j].dst
    <3> HIDE DEF f
    <3> QED BY <2>1, ToSourceOK
  <2> HIDE DEF l
  <2> QED BY <1>0, <2>2, <2>3, ImportProceeds
<1>2. CASE imp[j] # from
  <2>1. Good(Executed(j)) /\ Clean(Executed(j))
    BY <1>0, ExecutedOK
  <2>2. Apply(FailImports(Executed(j), {j}))
    BY <1>2 DEF Marker
  <2> QED BY <1>0, <2>1, <2>2, FailImportApplied
<1> QED BY <1>1, <1>2

(* FAILOVER-GRANTED arrives.                                               *)
LEMMA FailoverGrantedKeeps ==
    ASSUME MigrationInv, NEW j \in Job, SyncSlotsFailoverGranted(j)
    PROVE  MigrationInv'
<1> DEFINE l == [link[j] EXCEPT !.tot = Tail(@)]
<1>0. mode' = mode /\ writes' \in Nat /\ Arrives(j, "granted")
  BY DEF SyncSlotsFailoverGranted, MigrationInv
<1>1. CASE imp[j] = "requested"
  <2>1. l \in LinkType(j) /\ l.dst = link[j].dst
    BY <1>0, ExecutedFacts
  <2>2. /\ exp' = exp /\ link' = [link EXCEPT ![j] = l] /\ node' = node
        /\ imp' = [imp EXCEPT ![j] = "granted"] /\ risk' = risk
    BY <1>1, InvFacts DEF SyncSlotsFailoverGranted, Apply, Executed, State
  <2>3. "granted" \in ImportInProgress
    BY DEF ImportInProgress
  <2> HIDE DEF l
  <2> QED BY <1>0, <2>1, <2>2, <2>3, ImportProceeds
<1>2. CASE imp[j] # "requested"
  <2>1. Good(Executed(j)) /\ Clean(Executed(j))
    BY <1>0, ExecutedOK
  <2>2. Apply(FailImports(Executed(j), {j}))
    BY <1>2 DEF SyncSlotsFailoverGranted
  <2> QED BY <1>0, <2>1, <2>2, FailImportApplied
<1> QED BY <1>1, <1>2

(* A command of the import is refused.                                     *)
LEMMA ImportFailsKeeps ==
    ASSUME MigrationInv, NEW j \in Job, ImportFails(j)
    PROVE  MigrationInv'
<1>0. /\ mode' = mode /\ writes' \in Nat /\ Apply(FailImports(Executed(j), {j}))
      /\ \E k \in {"snap", "data"} : Arrives(j, k)
  BY DEF ImportFails, MigrationInv
<1>1. Good(Executed(j)) /\ Clean(Executed(j))
  BY <1>0, ExecutedOK
<1> QED BY <1>0, <1>1, FailImportApplied

(* Keys of the slots of an import arrive while it is in progress.          *)
LEMMA KeysArrive ==
    ASSUME MigrationInv, NEW j \in Job, NEW k \in {"snap", "data"}, Arrives(j, k),
           NEW V \in [Slot -> Seq(Nat)],
           \A s \in Slot \ Slots(j) : V[s] = node[Dst(j)].val[s],
           NEW U, U = [Executed(j) EXCEPT !.node[Dst(j)].val = V],
           Apply(U), mode' = mode, writes' \in Nat
    PROVE  MigrationInv'
<1> DEFINE n == Dst(j)
           nd == [node[n] EXCEPT !.val = V]
           T == Executed(j)
<1>1. /\ Good(T) /\ Clean(T) /\ T.exp = exp /\ T.imp = imp /\ T.node = node
      /\ imp[j] \in ImportInProgress
  BY ExecutedOK
<1>2. n \in Node /\ NodeOK(n, node[n]) /\ j \in Imports(n)
  BY InvFacts, ModeFacts DEF Imports
<1>3. IsState(T) /\ CleanBut(T, n, {})
  BY <1>1, <1>2 DEF Good, Clean
<1>4. /\ NodeOK(n, nd) /\ nd.owner = node[n].owner /\ nd.val = V
      /\ nd.child = node[n].child
  BY <1>2 DEF NodeOK
<1>5. nd.paused = node[n].paused
  BY <1>2 DEF NodeOK
<1>6. WithNode(T, U, n, nd)
  <2> HIDE DEF T
  <2> QED BY <1>1, <1>2, <1>3 DEF WithNode, IsRecord, IsState, T
<1> HIDE DEF T, nd, n
<1>7. PauseKept(T, n, nd) /\ ChildFed(T, nd)
  BY <1>1, <1>2, <1>4, <1>5 DEF PauseKept, ChildFed, Good, ChildRuns
<1>8. Good(U)
  BY <1>1, <1>2, <1>4, <1>6, <1>7, NodeChanges
<1>9. \A s \in Slots(j) : IsSlotImporting(T, n, s)
  BY <1>1, <1>2 DEF IsSlotImporting
<1>10. \A s \in Slot : nd.val[s] # <<>> =>
              nd.owner[s] = n \/ IsSlotImporting(T, n, s) \/ s \in {}
  BY <1>1, <1>2, <1>3, <1>4, <1>9 DEF CleanBut, n
<1>11. CleanBut(U, n, {})
  BY <1>2, <1>3, <1>6, <1>10, CleanNode
<1>12. Clean(U)
  BY <1>11, CleanAny
<1> QED BY <1>8, <1>12, Applied


(* The snapshot is loaded.                                                 *)
LEMMA LoadSnapshotKeeps ==
    ASSUME MigrationInv, NEW j \in Job, LoadSnapshot(j)
    PROVE  MigrationInv'
<1> DEFINE n == Dst(j)
           T == Executed(j)
           v == Head(link[j].tot).v
           V == [s \in Slot |-> IF s \in Slots(j) THEN node[n].val[s] \o v[s]
                                ELSE node[n].val[s]]
           U == [T EXCEPT !.node[n].val = V]
<1>0. mode' = mode /\ writes' \in Nat /\ Arrives(j, "snap")
  BY DEF LoadSnapshot, MigrationInv
<1>1. Head(link[j].tot) \in MsgFor(j) /\ Head(link[j].tot).k = "snap"
  BY <1>0, ExecutedFacts
<1>2. v \in Values(j)
  BY <1>1 DEF MsgFor, Control
<1>3. n \in Node /\ NodeOK(n, node[n]) /\ T.node = node
  BY <1>0, InvFacts, ModeFacts, ExecutedOK
<1>4. \A s \in Slots(j) : v[s] \in Seq(Nat)
  BY <1>2 DEF Values
<1>5. node[n].val \in [Slot -> Seq(Nat)]
  BY <1>3 DEF NodeOK
<1>6. Apply(U)
  <2>1. Apply([T EXCEPT !.node[n].val =
                 [s \in Slot |-> IF s \in Slots(j) THEN @[s] \o v[s] ELSE @[s]]])
    BY DEF LoadSnapshot
  <2> HIDE DEF T, v, n
  <2> QED BY <1>3, <2>1
<1> HIDE DEF v
<1>7. ASSUME NEW s \in Slot PROVE V[s] \in Seq(Nat)
  <2>1. CASE s \in Slots(j)
    <3>1. node[n].val[s] \o v[s] \in Seq(Nat)
      BY <1>4, <1>5, <2>1, ConcatProperties
    <3> QED BY <2>1, <3>1
  <2>2. CASE s \notin Slots(j)
    BY <1>5, <2>2
  <2> QED BY <2>1, <2>2
<1>8. V \in [Slot -> Seq(Nat)] /\ \A s \in Slot \ Slots(j) : V[s] = node[n].val[s]
  <2>1. V = [s \in Slot |-> V[s]]
    OBVIOUS
  <2>2. \A s \in Slot \ Slots(j) : V[s] = node[n].val[s]
    OBVIOUS
  <2> HIDE DEF V
  <2> QED BY <1>7, <2>1, <2>2
<1> HIDE DEF V
<1> QED BY <1>0, <1>6, <1>8, KeysArrive

(* A write of the stream is applied.                                       *)
LEMMA ApplyWriteKeeps ==
    ASSUME MigrationInv, NEW j \in Job, ApplyWrite(j)
    PROVE  MigrationInv'
<1> DEFINE n == Dst(j)
           T == Executed(j)
           m == Head(link[j].tot)
           V == [node[n].val EXCEPT ![m.s] = Append(@, m.w)]
           U == [T EXCEPT !.node[n].val = V]
<1>0. mode' = mode /\ writes' \in Nat /\ Arrives(j, "data")
  BY DEF ApplyWrite, MigrationInv
<1>1. m \in MsgFor(j) /\ m.k = "data"
  BY <1>0, ExecutedFacts
<1>2. m.s \in Slots(j) /\ m.w \in Nat
  BY <1>1 DEF MsgFor, Control
<1>3. n \in Node /\ NodeOK(n, node[n]) /\ T.node = node /\ m.s \in Slot /\ Good(T)
  BY <1>0, <1>2, InvFacts, ModeFacts, ExecutedOK
<1>4. node[n].val \in [Slot -> Seq(Nat)]
  BY <1>3 DEF NodeOK
<1>5. Apply(U)
  <2>1. Apply([T EXCEPT !.node[n].val[m.s] = Append(@, m.w)])
    BY DEF ApplyWrite
  <2> HIDE DEF T, m, n
  <2> QED BY <1>3, <2>1
<1> HIDE DEF m
<1>6. Append(node[n].val[m.s], m.w) \in Seq(Nat)
  BY <1>2, <1>3, <1>4, AppendProperties
<1>7. V \in [Slot -> Seq(Nat)] /\ \A s \in Slot \ Slots(j) : V[s] = node[n].val[s]
  BY <1>2, <1>4, <1>6
<1> HIDE DEF V
<1> QED BY <1>0, <1>5, <1>7, KeysArrive

(* finishSlotMigrationJob for an import whose slots have no stray keys in  *)
(* A: it ends, or the assertion of propagateNow kills the node.            *)
LEMMA FinishImportApplied ==
    ASSUME MigrationInv, NEW j \in Job, NEW A, Good(A), A.imp = imp, Clean(A),
           \A s \in Slots(j) : A.node[Dst(j)].val[s] # <<>> =>
              A.node[Dst(j)].owner[s] = Dst(j),
           NEW st \in {"success", "failed"},
           Apply(FinishImport(State, A, j, st)), mode' = mode, writes' \in Nat
    PROVE  MigrationInv'
<1> DEFINE n == Dst(j)
           U == [A EXCEPT !.imp[j] = st, !.link[j] = CloseTarget(@)]
           l == CloseTarget(A.link[j])
<1>1. n \in Node
  BY InvFacts, ModeFacts
<1>2. Apply(U) \/ Apply(Died([State EXCEPT !.asserts = @ \cup {"propagate"}], n))
  BY Zenon DEF FinishImport, PropagateSyncSlotsFinish
<1>3. CASE Apply(Died([State EXCEPT !.asserts = @ \cup {"propagate"}], n))
  <2> HIDE DEF n
  <2> QED BY <1>1, <1>3, AssertApplied
<1>4. CASE Apply(U)
  <2>1. /\ IsState(U) /\ U.node = A.node /\ U.exp = A.exp /\ U.risk = A.risk
        /\ U.imp = [imp EXCEPT ![j] = st] /\ U.link = [A.link EXCEPT ![j] = l]
    BY DEF Good, IsState
  <2>2. /\ U.imp[j] = st /\ U.link[j] = l
        /\ \A k \in Job \ {j} : U.imp[k] = imp[k] /\ U.link[k] = A.link[k]
    BY <2>1, InvFacts DEF Good, IsState
  <2>3. JobOK(j, A.exp[j], A.link[j], A.imp[j])
    BY DEF Good, JobsOK
  <2>4. l \in LinkType(j) /\ l.dst = FALSE
    BY <2>3, CloseTargetOK DEF JobOK
  <2> HIDE DEF U, l
  <2>5. JobOK(j, U.exp[j], U.link[j], U.imp[j])
    BY <2>1, <2>2, <2>3, <2>4 DEF JobOK, ImportType
  <2>6. JobsOK(U)
    BY <2>1, <2>2, <2>5 DEF Good, JobsOK
  <2>7. Good(U)
    BY <2>1, <2>6 DEF Good, NodesOK, Firm, ChildRuns
  <2>8. Clean(U)
    <3> SUFFICES ASSUME NEW m \in Node, NEW s \in Slot, A.node[m].val[s] # <<>>,
                        A.node[m].owner[s] # m
                 PROVE  IsSlotImporting(U, m, s)
      BY <2>1 DEF Clean, CleanBut
    <3>1. IsSlotImporting(A, m, s)
      BY DEF Clean, CleanBut
    <3>2. PICK k \in Imports(m) : s \in Slots(k) /\ imp[k] \in Importing
      BY <3>1 DEF IsSlotImporting, Importing
    <3>3. k # j /\ k \in Job
      BY <3>2 DEF Imports
    <3>4. U.imp[k] \in Importing
      BY <2>2, <3>2, <3>3
    <3> QED BY <3>2, <3>4 DEF IsSlotImporting, Importing
  <2> QED BY <1>4, <2>7, <2>8, Applied
<1> QED BY <1>2, <1>3, <1>4

(* The epochs of a node may change.                                        *)
LEMMA BumpedOK ==
    ASSUME NEW n, NEW nd, NodeOK(n, nd)
    PROVE  /\ NodeOK(n, Bumped(nd, n)) /\ Bumped(nd, n).owner = nd.owner
           /\ Bumped(nd, n).val = nd.val /\ Bumped(nd, n).child = nd.child
           /\ Bumped(nd, n).paused = nd.paused
<1> DEFINE c == nd.cur + 1
           f == [nd.conf EXCEPT ![n] = nd.cur + 1]
<1>1. Bumped(nd, n) = nd \/ Bumped(nd, n) = [nd EXCEPT !.cur = c, !.conf = f]
  BY Zenon DEF Bumped
<1> HIDE DEF c, f
<1>2. /\ NodeOK(n, Bumped(nd, n)) /\ Bumped(nd, n).owner = nd.owner
      /\ Bumped(nd, n).val = nd.val /\ Bumped(nd, n).child = nd.child
  BY <1>1 DEF NodeOK
<1>3. Bumped(nd, n).paused = nd.paused
  BY <1>1 DEF NodeOK
<1> QED BY <1>2, <1>3


(* A node takes over, or has cleaned, the slots of an import.              *)
LEMMA TakenOrCleaned ==
    ASSUME MigrationInv, NEW j \in Job, NEW nd, NodeOK(Dst(j), nd),
           nd.child = node[Dst(j)].child, nd.paused = node[Dst(j)].paused,
           \A s \in Slots(j) : nd.val[s] # <<>> => nd.owner[s] = Dst(j),
           \A s \in Slot \ Slots(j) :
              nd.owner[s] = node[Dst(j)].owner[s] /\ nd.val[s] = node[Dst(j)].val[s],
           NEW st \in {"success", "failed"},
           Apply(FinishImport(State, [State EXCEPT !.node[Dst(j)] = nd], j, st)),
           mode' = mode, writes' \in Nat
    PROVE  MigrationInv'
<1> DEFINE n == Dst(j)
           A == [State EXCEPT !.node[n] = nd]
<1>1. n \in Node
  BY InvFacts, ModeFacts
<1>2. WithNode(State, A, n, nd) /\ A.imp = imp /\ A.node[n] = nd
  BY <1>1, InvFacts DEF WithNode, IsRecord, State
<1>3. CleanBut(State, n, {}) /\ IsState(State)
  BY <1>1 DEF MigrationInv, Clean, Good
<1>4. PauseKept(State, n, nd)
  BY StateFacts DEF PauseKept
<1>5. ChildFed(State, nd)
  BY <1>1, StateFacts DEF ChildFed, MigrationInv, Good, ChildRuns
<1> HIDE DEF A, n
<1>6. Good(A)
  BY <1>1, <1>2, <1>4, <1>5, NodeChanges DEF MigrationInv, n
<1>7. \A s \in Slot : nd.val[s] # <<>> =>
          nd.owner[s] = n \/ IsSlotImporting(State, n, s) \/ s \in {}
  BY <1>1, <1>3, StateFacts DEF CleanBut, n
<1>8. CleanBut(A, n, {})
  BY <1>1, <1>2, <1>3, <1>7, CleanNode
<1>9. Clean(A)
  BY <1>8, CleanAny
<1>10. Apply(FinishImport(State, A, j, st))
  BY DEF A, n
<1>11. \A s \in Slots(j) : A.node[Dst(j)].val[s] # <<>> => A.node[Dst(j)].owner[s] = Dst(j)
  BY <1>2 DEF n
<1> QED BY <1>2, <1>6, <1>9, <1>10, <1>11, FinishImportApplied

(* performSlotImportJobFailover.                                           *)
LEMMA PerformFailoverKeeps ==
    ASSUME MigrationInv, NEW j \in Job, PerformSlotImportJobFailover(j)
    PROVE  MigrationInv'
<1> DEFINE n == Dst(j)
           b == Bumped(node[n], n)
           O == [s \in Slot |-> IF s \in Slots(j) THEN n ELSE b.owner[s]]
           nd == [b EXCEPT !.owner = O]
<1>0. /\ mode' = mode /\ writes' \in Nat
      /\ Apply(FinishImport(State, [State EXCEPT !.node[n] = Claim(@, n, Slots(j))], j,
                            "success"))
  BY DEF PerformSlotImportJobFailover, MigrationInv
<1>1. n \in Node /\ NodeOK(n, node[n]) /\ Slots(j) \subseteq Slot
  BY InvFacts, ModeFacts
<1>2. /\ NodeOK(n, b) /\ b.owner = node[n].owner /\ b.val = node[n].val
      /\ b.child = node[n].child /\ b.paused = node[n].paused
  BY <1>1, BumpedOK
<1>3. Claim(node[n], n, Slots(j)) = nd
  BY DEF Claim
<1>4. O \in [Slot -> Node] /\ (\A s \in Slots(j) : O[s] = n)
      /\ (\A s \in Slot \ Slots(j) : O[s] = b.owner[s])
  BY <1>1, <1>2 DEF NodeOK
<1> HIDE DEF b, O
<1>5. /\ NodeOK(n, nd) /\ nd.owner = O /\ nd.val = b.val /\ nd.child = b.child
  BY <1>2, <1>4 DEF NodeOK
<1>6. nd.paused = b.paused
  BY <1>2 DEF NodeOK
<1> HIDE DEF nd
<1>7. [State EXCEPT !.node[n] = Claim(@, n, Slots(j))] = [State EXCEPT !.node[n] = nd]
  <2>1. State.node[n] = node[n]
    BY StateFacts
  <2> QED BY <1>3, <2>1
<1>8. Apply(FinishImport(State, [State EXCEPT !.node[n] = nd], j, "success"))
  BY <1>0, <1>7
<1> QED BY <1>0, <1>2, <1>4, <1>5, <1>6, <1>8, TakenOrCleaned

(* The keys of an import that has failed are deleted.                      *)
LEMMA CleanUpKeeps ==
    ASSUME MigrationInv, NEW j \in Job, CleanUp(j)
    PROVE  MigrationInv'
<1> DEFINE n == Dst(j)
           nd == DelKeysNotOwned(node[n], n, Slots(j))
<1>0. /\ mode' = mode /\ writes' \in Nat
      /\ Apply(FinishImport(State,
                 [State EXCEPT !.node[n] = DelKeysNotOwned(@, n, Slots(j))], j, "failed"))
  BY DEF CleanUp, MigrationInv
<1>1. n \in Node /\ NodeOK(n, node[n]) /\ Slots(j) \subseteq Slot
  BY InvFacts, ModeFacts
<1>2. /\ NodeOK(n, nd) /\ nd.owner = node[n].owner /\ nd.child = node[n].child
      /\ nd.paused = node[n].paused
      /\ \A s \in Slot :
            /\ s \in Slots(j) /\ node[n].owner[s] # n => nd.val[s] = <<>>
            /\ ~(s \in Slots(j) /\ node[n].owner[s] # n) => nd.val[s] = node[n].val[s]
  BY <1>1, DelKeysOK
<1>3. Apply(FinishImport(State, [State EXCEPT !.node[n] = nd], j, "failed"))
  BY <1>0, StateFacts
<1> HIDE DEF nd
<1>4. \A s \in Slots(j) : nd.val[s] # <<>> => nd.owner[s] = n
  BY <1>1, <1>2
<1>5. \A s \in Slot \ Slots(j) :
          nd.owner[s] = node[Dst(j)].owner[s] /\ nd.val[s] = node[Dst(j)].val[s]
  BY <1>2
<1> QED BY <1>0, <1>2, <1>3, <1>4, <1>5, TakenOrCleaned

-------------------------------------------------------------------------------
(* Connections, timeouts, commands and the death of a node.                *)

(* The source finds its connection closed.                                 *)
LEMMA SourceSeesCloseKeeps ==
    ASSUME MigrationInv, NEW j \in Job, SourceSeesClose(j)
    PROVE  MigrationInv'
<1> DEFINE n == Src(j)
           e == [exp[j] EXCEPT !.out = <<>>, !.pend = FALSE]
           l == CloseSource(link[j])
           c == KillChild(node[n].child, {j})
           nd == [node[n] EXCEPT !.child = c]
<1>0. mode' = mode /\ writes' \in Nat /\ "failed" \in Finished
  BY DEF SourceSeesClose, MigrationInv, Finished
<1>1. CASE exp[j].st = "granted"
  <2>1. Apply([State EXCEPT !.link[j] = CloseSource(@), !.exp[j].out = <<>>,
                            !.exp[j].pend = FALSE,
                            !.node[Src(j)].child = KillChild(@, {j})])
    BY <1>1 DEF SourceSeesClose
  <2>2. n \in Node /\ NodeOK(n, node[n]) /\ ChildOK(n, node[n].child)
    BY InvFacts, ModeFacts DEF NodeOK
  <2>3. /\ exp' = [exp EXCEPT ![j] = e] /\ link' = [link EXCEPT ![j] = l] /\ imp' = imp
        /\ node' = [node EXCEPT ![n] = nd] /\ risk' = risk
    BY <2>1, InvFacts DEF Apply, State
  <2>4. <<>> \in Seq(MsgFor(j)) /\ <<>> \in Seq(Control) /\ <<>> \in Seq(Reply \ {"ok"})
    OBVIOUS
  <2>5. e \in ExportType(j) /\ e.st = "granted" /\ e.mf = exp[j].mf
    BY <1>1, <2>4, SameJob DEF ExportType
  <2>6. Fed(e) /\ Fed(exp[j])
    BY <1>1, <2>5 DEF Fed
  <2>7. l \in LinkType(j) /\ l.dst = link[j].dst
    BY SameJob, CloseSourceOK
  <2>8. /\ ChildOK(n, c)
        /\ c # None /\ c.st = "writing" => c = node[n].child /\ c.job \notin {j}
    BY <2>2, KilledOK
  <2> HIDE DEF c
  <2>9. NodeOK(n, nd) /\ nd.owner = node[n].owner /\ nd.val = node[n].val /\ nd.child = c
    BY <2>2, <2>8 DEF NodeOK
  <2>10. nd.paused \/ ~node[n].paused
    BY <2>2 DEF NodeOK
  <2> HIDE DEF e, l, nd, n
  <2>11. JobOK(j, e, l, imp[j])
    BY <2>5, <2>6, <2>7, SameJob DEF JobOK, Unopened
  <2>12. JobMoves(State, j, e, imp[j])
    BY <1>1, <2>5, <2>6, StateFacts DEF JobMoves
  <2>13. ChildFedNext(nd)
    <3> SUFFICES ASSUME c # None, c.st = "writing" PROVE Fed(exp'[c.job])
      BY <2>9 DEF ChildFedNext
    <3>1. c = node[n].child /\ c.job # j
      BY <2>8
    <3>2. c.job \in Job
      BY <2>8 DEF ChildOK, Exports
    <3>3. Fed(exp[c.job])
      BY <2>2, <3>1, StateFacts DEF MigrationInv, Good, ChildRuns
    <3>4. exp'[c.job] = exp[c.job]
      BY <2>3, <3>1, <3>2, InvFacts
    <3> QED BY <3>3, <3>4
  <2>14. MovesBoth(j, e, l, imp[j], n, nd)
    BY <1>0, <2>3, <2>9, <2>10, <2>11, <2>12, <2>13, SameJob DEF MovesBoth
  <2> QED BY <2>2, <2>14, JobAndNode
<1>2. CASE exp[j].st # "granted"
  <2>1. Apply(FinishExport(State, j, "failed"))
    BY <1>2 DEF SourceSeesClose
  <2> QED BY <1>0, <2>1, FinishExportApplied DEF MigrationInv
<1> QED BY <1>1, <1>2

(* The target finds its connection closed.                                 *)
LEMMA TargetSeesCloseKeeps ==
    ASSUME MigrationInv, NEW j \in Job, TargetSeesClose(j)
    PROVE  MigrationInv'
<1> DEFINE l == CloseTarget(link[j])
<1>0. mode' = mode /\ writes' \in Nat
  BY DEF TargetSeesClose, MigrationInv
<1>1. CASE imp[j] \in ImportInProgress
  <2>1. Apply(FailImports(State, {j}))
    BY <1>1 DEF TargetSeesClose
  <2> QED BY <1>0, <2>1, FailImportApplied DEF MigrationInv
<1>2. CASE imp[j] \notin ImportInProgress
  <2>1. Apply([State EXCEPT !.link[j] = CloseTarget(@)])
    BY <1>2 DEF TargetSeesClose
  <2>2. /\ exp' = exp /\ link' = [link EXCEPT ![j] = l] /\ imp' = imp
        /\ node' = node /\ risk' = risk
    BY <2>1, InvFacts DEF Apply, State
  <2>3. l \in LinkType(j) /\ l.dst = FALSE
    BY SameJob, CloseTargetOK
  <2> HIDE DEF l
  <2>4. JobOK(j, exp[j], l, imp[j])
    BY <2>3, SameJob DEF JobOK
  <2>5. JobMoves(State, j, exp[j], imp[j])
    BY StateFacts DEF JobMoves
  <2> QED BY <1>0, <2>2, <2>4, <2>5, SameJob, JobSteps
<1> QED BY <1>1, <1>2

(* The connection breaks.                                                  *)
LEMMA LinkBreaksKeeps ==
    ASSUME MigrationInv, NEW j \in Job, LinkBreaks(j)
    PROVE  MigrationInv'
<1> DEFINE l == [link[j] EXCEPT !.cut = TRUE, !.tot = <<>>, !.tos = <<>>]
<1>1. link' = [link EXCEPT ![j] = l]
  BY InvFacts DEF LinkBreaks
<1>2. /\ <<>> \in Seq(MsgFor(j)) /\ <<>> \in Seq(Control) /\ <<>> \in Seq(Reply \ {"ok"})
      /\ <<>> \in Seq(Reply)
  OBVIOUS
<1>3. l \in LinkType(j) /\ l.dst = link[j].dst /\ l.tot = <<>> /\ l.tos = <<>>
  BY <1>2, SameJob DEF LinkType
<1> HIDE DEF l
<1>4. JobOK(j, exp[j], l, imp[j])
  BY <1>2, <1>3, SameJob DEF JobOK, Unopened
<1>5. JobMoves(State, j, exp[j], imp[j])
  BY StateFacts DEF JobMoves
<1>6. /\ mode' = mode /\ writes' \in Nat /\ node' = node /\ risk' = risk
      /\ exp' = [exp EXCEPT ![j] = exp[j]] /\ imp' = [imp EXCEPT ![j] = imp[j]]
  BY SameJob DEF LinkBreaks, MigrationInv
<1> QED BY <1>1, <1>4, <1>5, <1>6, JobSteps

(* Nothing was heard for repl-timeout, on either side.                     *)
LEMMA TimeoutsKeep ==
    ASSUME MigrationInv, NEW j \in Job, ExportTimesOut(j) \/ ImportTimesOut(j)
    PROVE  MigrationInv'
<1>0. mode' = mode /\ writes' \in Nat /\ "failed" \in Finished
  BY DEF ExportTimesOut, ImportTimesOut, MigrationInv, Finished
<1>1. Apply(FinishExport(State, j, "failed")) \/ Apply(FailImports(State, {j}))
  BY DEF ExportTimesOut, ImportTimesOut
<1> QED BY <1>0, <1>1, FinishExportApplied, FailImportApplied DEF MigrationInv


(* CLUSTER CANCELSLOTMIGRATIONS.                                           *)
LEMMA CancelKeeps ==
    ASSUME MigrationInv, NEW n \in Node, CancelSlotMigrations(n)
    PROVE  MigrationInv'
<1> DEFINE J == {j \in Exports(n) : exp[j].st \in ExportInProgress}
           U == FinishExports(State, n, J, "cancelled")
<1>0. /\ mode' = mode /\ writes' \in Nat /\ "cancelled" \in Finished /\ J \subseteq Exports(n)
      /\ Apply(U)
  BY DEF CancelSlotMigrations, MigrationInv, Finished
<1> HIDE DEF J
<1>1. Good(U) /\ KeepsClean(State, U)
  BY <1>0, FinishExportsOK DEF MigrationInv
<1>2. Clean(U)
  BY <1>1, StaysClean DEF MigrationInv
<1> HIDE DEF U
<1> QED BY <1>0, <1>1, <1>2, Applied

(* FLUSHALL.                                                               *)
LEMMA FlushAllKeeps ==
    ASSUME MigrationInv, NEW n \in Node, FlushAll(n)
    PROVE  MigrationInv'
<1> DEFINE J == {j \in Exports(n) : exp[j].st \in ExportInProgress}
           I == {j \in Imports(n) : imp[j] \in ImportInProgress}
           F == FinishExports(State, n, J, "failed")
           A == FailImports(F, I)
           V == [s \in Slot |-> <<>>]
           U == [A EXCEPT !.node[n].val = V]
           nd == [A.node[n] EXCEPT !.val = V]
<1>0. /\ mode' = mode /\ writes' \in Nat /\ "failed" \in Finished /\ J \subseteq Exports(n)
      /\ I \subseteq Job
  BY DEF FlushAll, MigrationInv, Finished, Imports
<1>1. Apply(U)
  BY Zenon DEF FlushAll
<1> HIDE DEF J, I
<1>2. Good(F) /\ KeepsClean(State, F)
  BY <1>0, FinishExportsOK DEF MigrationInv
<1> HIDE DEF F
<1>3. Good(A) /\ KeepsClean(F, A)
  BY <1>0, <1>2, FailImportsOK
<1>4. Clean(F)
  BY <1>2, StaysClean DEF MigrationInv
<1>5. Clean(A)
  BY <1>3, <1>4, StaysClean
<1> HIDE DEF A
<1>6. IsState(A) /\ CleanBut(A, n, {}) /\ NodeOK(n, A.node[n])
  BY <1>3, <1>5 DEF Good, Clean, NodesOK
<1>7. V \in [Slot -> Seq(Nat)] /\ \A s \in Slot : V[s] = <<>>
  <2>1. <<>> \in Seq(Nat)
    OBVIOUS
  <2> QED BY <2>1
<1> HIDE DEF V
<1>8. WithNode(A, U, n, nd)
  BY <1>6 DEF WithNode, IsRecord, IsState
<1>9. /\ NodeOK(n, nd) /\ nd.owner = A.node[n].owner /\ nd.val = V
      /\ nd.child = A.node[n].child
  BY <1>6, <1>7 DEF NodeOK
<1>10. nd.paused = A.node[n].paused
  BY <1>6 DEF NodeOK
<1> HIDE DEF nd, U
<1>11. PauseKept(A, n, nd)
  BY <1>10 DEF PauseKept
<1>12. ChildFed(A, nd)
  BY <1>3, <1>9 DEF ChildFed, Good, ChildRuns
<1>13. Good(U)
  BY <1>3, <1>8, <1>9, <1>11, <1>12, NodeChanges
<1>14. \A s \in Slot : nd.val[s] # <<>> =>
          nd.owner[s] = n \/ IsSlotImporting(A, n, s) \/ s \in {}
  BY <1>7, <1>9
<1>15. CleanBut(U, n, {})
  BY <1>6, <1>8, <1>14, CleanNode
<1>16. Clean(U)
  BY <1>15, CleanAny
<1> QED BY <1>0, <1>1, <1>13, <1>16, Applied

SameNode(nd, md) ==
    /\ nd.owner = md.owner /\ nd.val = md.val /\ nd.child = md.child
    /\ nd.paused = md.paused

(* A node of which only the epochs change.                                 *)
LEMMA EpochsChange ==
    ASSUME NEW T, Good(T), NEW n \in Node, NEW nd, NodeOK(n, nd), SameNode(nd, T.node[n]),
           NEW U, U = [T EXCEPT !.node[n] = nd]
    PROVE  Good(U) /\ KeepsClean(T, U)
<1>1. WithNode(T, U, n, nd)
  BY DEF WithNode, IsRecord, Good, IsState
<1>2. nd.owner = T.node[n].owner /\ nd.val = T.node[n].val /\ nd.child = T.node[n].child
  BY DEF SameNode
<1>3. PauseKept(T, n, nd)
  BY DEF PauseKept, SameNode
<1>4. ChildFed(T, nd)
  BY <1>2 DEF ChildFed, Good, ChildRuns
<1> QED BY <1>1, <1>2, <1>3, <1>4, NodeChanges

(* CLUSTER BUMPEPOCH.                                                      *)
LEMMA BumpEpochKeeps ==
    ASSUME MigrationInv, NEW n \in Node, BumpEpoch(n)
    PROVE  MigrationInv'
<1> DEFINE nd == Bumped(node[n], n)
           U == [State EXCEPT !.node[n] = nd]
<1>0. mode' = mode /\ writes' \in Nat /\ NodeOK(n, node[n])
  BY InvFacts DEF BumpEpoch, MigrationInv
<1>1. Apply(U)
  BY DEF BumpEpoch, Apply, State
<1>2. NodeOK(n, nd) /\ SameNode(nd, State.node[n])
  BY <1>0, BumpedOK, StateFacts DEF SameNode
<1> HIDE DEF nd
<1>3. Good(U) /\ KeepsClean(State, U)
  BY <1>2, EpochsChange DEF MigrationInv
<1>4. Clean(U)
  BY <1>3, StaysClean DEF MigrationInv
<1> HIDE DEF U
<1> QED BY <1>0, <1>1, <1>3, <1>4, Applied

(* A restart.                                                              *)
LEMMA RestartKeeps ==
    ASSUME MigrationInv, NEW n \in Node, Restart(n)
    PROVE  MigrationInv'
<1>1. mode' = mode /\ writes' \in Nat /\ Apply(Died(State, n))
  BY DEF Restart, MigrationInv
<1> QED BY <1>1, DiedApplied DEF MigrationInv

-------------------------------------------------------------------------------
(* Gossip.                                                                 *)

(* The exports of a node after its slots have changed.                     *)
LEMMA UpdateSlotExportsOK ==
    ASSUME NEW T, Good(T), NEW n \in Node, NEW U, U = UpdateSlotExports(T, n)
    PROVE  Good(U) /\ KeepsClean(T, U)
<1> DEFINE J    == {j \in Exports(n) : T.exp[j].st \in ExportInProgress}
           done == {j \in J : OwnerOf(T, n, j) = Dst(j)}
           lost == {j \in J \ done : OwnerOf(T, n, j) # n}
           A    == FinishExports(T, n, done, "success")
<1>1. U = FinishExports(A, n, lost, "failed")
  BY Zenon DEF UpdateSlotExports
<1>2. /\ done \subseteq Exports(n) /\ lost \subseteq Exports(n)
      /\ "success" \in Finished /\ "failed" \in Finished
  BY DEF Finished
<1> HIDE DEF done, lost
<1>3. Good(A) /\ KeepsClean(T, A)
  BY <1>2, FinishExportsOK
<1> HIDE DEF A
<1>4. Good(U) /\ KeepsClean(A, U)
  BY <1>1, <1>2, <1>3, FinishExportsOK
<1> QED BY <1>3, <1>4 DEF KeepsClean

(* The imports.                                                            *)
LEMMA UpdateSlotImportsOK ==
    ASSUME NEW T, Good(T), NEW n \in Node, NEW U, U = UpdateSlotImports(T, n)
    PROVE  Good(U) /\ KeepsClean(T, U)
<1> DEFINE I == {j \in Imports(n) : /\ T.imp[j] \in ImportInProgress
                                    /\ OwnerOf(T, n, j) # Src(j)}
<1>1. U = FailImports(T, I) /\ I \subseteq Job
  BY DEF UpdateSlotImports, Imports
<1> HIDE DEF I
<1> QED BY <1>1, FailImportsOK

(* clusterUpdateSlotsConfigWith: the slots given up are emptied.           *)
LEMMA UpdateSlotsConfigOK ==
    ASSUME NEW T, Good(T), Clean(T), NEW n \in Node, NEW m \in Node, NEW p,
           NEW U, U = UpdateSlotsConfig(T, n, m, p)
    PROVE  Good(U) /\ Clean(U)
<1> DEFINE R == Rebinds(T, n, m, p)
           dirty == {s \in R : T.node[n].owner[s] = n}
           O == [s \in Slot |-> IF s \in R THEN m ELSE T.node[n].owner[s]]
           A == [T EXCEPT !.node[n].owner = O]
           B == IF \E s \in R : IsSlotExporting(T, n, s)
                THEN UpdateSlotExports(A, n) ELSE A
           C == IF \E s \in R : IsSlotImporting(T, n, s)
                THEN UpdateSlotImports(B, n) ELSE B
           nd == [T.node[n] EXCEPT !.owner = O]
           md == DelKeysNotOwned(C.node[n], n, dirty)
<1>1. U = [C EXCEPT !.node[n] = md]
  BY Zenon DEF UpdateSlotsConfig
<1>2. NodeOK(n, T.node[n]) /\ IsState(T) /\ CleanBut(T, n, {})
  BY DEF Good, NodesOK, Clean
<1>3. /\ O \in [Slot -> Node]
      /\ \A s \in Slot : T.node[n].owner[s] = n => O[s] = n \/ s \in dirty
  BY <1>2 DEF NodeOK
<1> HIDE DEF O, dirty
<1>4. WithNode(T, A, n, nd)
  BY <1>2 DEF WithNode, IsRecord, IsState
<1>5. /\ NodeOK(n, nd) /\ nd.owner = O /\ nd.val = T.node[n].val
      /\ nd.child = T.node[n].child
  BY <1>2, <1>3 DEF NodeOK
<1>6. nd.paused = T.node[n].paused
  BY <1>2 DEF NodeOK
<1> HIDE DEF A, nd, R
<1>7. PauseKept(T, n, nd)
  BY <1>6 DEF PauseKept
<1>8. ChildFed(T, nd)
  BY <1>5 DEF ChildFed, Good, ChildRuns
<1>9. Good(A)
  BY <1>4, <1>5, <1>7, <1>8, NodeChanges
<1>10. \A s \in Slot : nd.val[s] # <<>> =>
          nd.owner[s] = n \/ IsSlotImporting(T, n, s) \/ s \in dirty
  BY <1>2, <1>3, <1>5 DEF CleanBut
<1>11. CleanBut(A, n, dirty)
  BY <1>2, <1>4, <1>10, CleanNode
<1>12. Good(B) /\ CleanBut(B, n, dirty)
  <2>1. CASE \E s \in R : IsSlotExporting(T, n, s)
    <3>1. Good(UpdateSlotExports(A, n)) /\ KeepsClean(A, UpdateSlotExports(A, n))
      BY <1>9, UpdateSlotExportsOK
    <3> QED BY <1>11, <2>1, <3>1 DEF KeepsClean
  <2>2. CASE ~\E s \in R : IsSlotExporting(T, n, s)
    BY <1>9, <1>11, <2>2
  <2> QED BY <2>1, <2>2
<1> HIDE DEF B
<1>13. Good(C) /\ CleanBut(C, n, dirty)
  <2>1. CASE \E s \in R : IsSlotImporting(T, n, s)
    <3>1. Good(UpdateSlotImports(B, n)) /\ KeepsClean(B, UpdateSlotImports(B, n))
      BY <1>12, UpdateSlotImportsOK
    <3> QED BY <1>12, <2>1, <3>1 DEF KeepsClean
  <2>2. CASE ~\E s \in R : IsSlotImporting(T, n, s)
    BY <1>12, <2>2
  <2> QED BY <2>1, <2>2
<1> HIDE DEF C
<1>14. NodeOK(n, C.node[n]) /\ IsState(C)
  BY <1>13 DEF Good, NodesOK
<1>15. /\ NodeOK(n, md) /\ md.owner = C.node[n].owner /\ md.child = C.node[n].child
       /\ md.paused = C.node[n].paused
       /\ \A s \in Slot :
            /\ s \in dirty /\ C.node[n].owner[s] # n => md.val[s] = <<>>
            /\ ~(s \in dirty /\ C.node[n].owner[s] # n) => md.val[s] = C.node[n].val[s]
  BY <1>14, DelKeysOK
<1> HIDE DEF md
<1>16. WithNode(C, U, n, md)
  BY <1>1, <1>14 DEF WithNode, IsRecord, IsState
<1>17. PauseKept(C, n, md)
  BY <1>15 DEF PauseKept
<1>18. ChildFed(C, md)
  BY <1>13, <1>15 DEF ChildFed, Good, ChildRuns
<1>19. Good(U)
  BY <1>13, <1>15, <1>16, <1>17, <1>18, NodeChanges
<1>20. \A s \in Slot : md.val[s] # <<>> =>
          md.owner[s] = n \/ IsSlotImporting(C, n, s) \/ s \in {}
  BY <1>13, <1>15 DEF CleanBut
<1>21. CleanBut(U, n, {})
  BY <1>13, <1>14, <1>16, <1>20, CleanNode
<1>22. Clean(U)
  BY <1>21, CleanAny
<1> QED BY <1>19, <1>22

(* The epochs a node learns, or takes after a collision.                   *)
LEMMA LearnedOK ==
    ASSUME NEW n, NEW nd, NodeOK(n, nd), NEW m, NEW p
    PROVE  /\ NodeOK(n, Learned(nd, m, p)) /\ SameNode(Learned(nd, m, p), nd)
           /\ NodeOK(n, Collided(nd, n, m, p)) /\ SameNode(Collided(nd, n, m, p), nd)
<1>1. ASSUME NEW c, NEW f, NEW md, md = [nd EXCEPT !.cur = c, !.conf = f]
      PROVE  NodeOK(n, md) /\ SameNode(md, nd)
  <2>1. NodeOK(n, md) /\ md.owner = nd.owner /\ md.val = nd.val /\ md.child = nd.child
    BY <1>1 DEF NodeOK
  <2>2. md.paused = nd.paused
    BY <1>1 DEF NodeOK
  <2> QED BY <2>1, <2>2 DEF SameNode
<1>2. Learned(nd, m, p) = [nd EXCEPT !.cur = HigherOf(nd.cur, p.cur),
                            !.conf = [nd.conf EXCEPT ![m] = HigherOf(@, p.conf)]]
  BY Zenon DEF Learned
<1>3. \/ Collided(nd, n, m, p) = nd
      \/ Collided(nd, n, m, p) = [nd EXCEPT !.cur = nd.cur + 1,
                                   !.conf = [nd.conf EXCEPT ![n] = nd.cur + 1]]
  BY Zenon DEF Collided
<1>4. SameNode(nd, nd)
  BY DEF SameNode
<1>5. NodeOK(n, Learned(nd, m, p)) /\ SameNode(Learned(nd, m, p), nd)
  BY <1>1, <1>2
<1>6. NodeOK(n, Collided(nd, n, m, p)) /\ SameNode(Collided(nd, n, m, p), nd)
  BY <1>1, <1>3, <1>4
<1> QED BY <1>5, <1>6

(* A PONG arrives.                                                         *)
LEMMA ReceivePongKeeps ==
    ASSUME MigrationInv, NEW m \in Node, NEW n \in Node, ReceivePong(m, n)
    PROVE  MigrationInv'
<1> DEFINE p == bus[<<m, n>>]
           a == Learned(State.node[n], m, p)
           A == [State EXCEPT !.node[n] = a]
           B == UpdateSlotsConfig(A, n, m, p)
           b == Collided(B.node[n], n, m, p)
           U == [B EXCEPT !.node[n] = b]
<1>0. mode' = mode /\ writes' \in Nat
  BY DEF ReceivePong, MigrationInv
<1>1. Apply(U)
  BY Zenon DEF ReceivePong
<1> HIDE DEF p
<1>2. NodeOK(n, State.node[n])
  BY DEF MigrationInv, Good, NodesOK
<1>3. NodeOK(n, a) /\ SameNode(a, State.node[n])
  BY <1>2, LearnedOK
<1> HIDE DEF a
<1>4. Good(A) /\ KeepsClean(State, A)
  BY <1>3, EpochsChange DEF MigrationInv
<1>5. Clean(A)
  BY <1>4, StaysClean DEF MigrationInv
<1> HIDE DEF A
<1>6. Good(B) /\ Clean(B)
  BY <1>4, <1>5, UpdateSlotsConfigOK
<1> HIDE DEF B
<1>7. NodeOK(n, B.node[n])
  BY <1>6 DEF Good, NodesOK
<1>8. NodeOK(n, b) /\ SameNode(b, B.node[n])
  BY <1>7, LearnedOK
<1> HIDE DEF b
<1>9. Good(U) /\ KeepsClean(B, U)
  BY <1>6, <1>8, EpochsChange
<1>10. Clean(U)
  BY <1>6, <1>9, StaysClean
<1> HIDE DEF U
<1> QED BY <1>0, <1>1, <1>9, <1>10, Applied

(* Nothing of the state of a step changes.                                 *)
LEMMA UnchangedKeeps ==
    ASSUME MigrationInv, mode' = mode, writes' = writes, node' = node, exp' = exp,
           imp' = imp, link' = link, risk' = risk, asserts' = asserts
    PROVE  MigrationInv'
<1>1. Apply(State) /\ writes' \in Nat
  BY StateFacts DEF Apply, MigrationInv
<1> QED BY <1>1, Applied DEF MigrationInv


-------------------------------------------------------------------------------
(* The theorems.                                                           *)

(* No jobs and no keys at first.                                           *)
LEMMA InitKeeps ==
    ASSUME Init
    PROVE  MigrationInv
<1>0. <<>> \in Seq(Nat) /\ \A j : <<>> \in Seq(MsgFor(j)) /\ <<>> \in Seq(Control)
  OBVIOUS
<1>00. <<>> \in Seq(Reply)
  OBVIOUS
<1>1. mode \in Modes /\ mode.owner \in [Slot -> Node]
  BY ModesAssumption DEF Init, ModeType
<1> DEFINE c == Max({mode.epoch[m] : m \in Node})
           v == [s \in Slot |-> <<>>]
<1>2. node = [n \in Node |->
                [owner |-> mode.owner, conf |-> mode.epoch, cur |-> c, val |-> v,
                 paused |-> FALSE, child |-> None, pipe |-> FALSE]]
  BY DEF Init
<1>3. v \in [Slot -> Seq(Nat)] /\ \A s \in Slot : v[s] = <<>>
  BY <1>0
<1> HIDE DEF c, v
<1>4. \A n \in Node : /\ NodeOK(n, node[n]) /\ node[n].val = v /\ node[n].child = None
  BY <1>1, <1>2, <1>3 DEF NodeOK, ChildOK
<1>5. IsState(State)
  BY <1>2 DEF IsState, State, Init
<1>6. \A j \in Job : exp[j] = NoExport /\ link[j] = NoLink /\ imp[j] = "none"
  BY DEF Init
<1>7. NoExport.st = "none" /\ NoExport.out = <<>> /\ NoLink.dst = FALSE
  BY DEF NoExport, NoLink
<1>8. ASSUME NEW j \in Job PROVE JobOK(j, NoExport, NoLink, "none")
  <2>1. NoExport \in ExportType(j)
    BY <1>0 DEF NoExport, ExportType
  <2>2. NoLink \in LinkType(j)
    BY <1>0, <1>00 DEF NoLink, LinkType
  <2>3. NoExport.out \in Seq(Control)
    BY <1>0, <1>7
  <2> QED BY <1>7, <2>1, <2>2, <2>3 DEF JobOK, ImportType
<1>9. NodesOK(State) /\ JobsOK(State)
  BY <1>4, <1>6, <1>8, StateFacts DEF NodesOK, JobsOK
<1>10. Firm(State)
  BY <1>6, <1>7, StateFacts DEF Firm
<1>11. ChildRuns(State)
  BY <1>4, StateFacts DEF ChildRuns
<1>12. Clean(State)
  BY <1>3, <1>4, StateFacts DEF Clean, CleanBut
<1>13. writes \in Nat
  BY DEF Init
<1> QED BY <1>1, <1>5, <1>9, <1>10, <1>11, <1>12, <1>13 DEF MigrationInv, Good

(* Every step keeps the invariant.                                         *)
LEMMA NextKeeps ==
    ASSUME MigrationInv, [Next]_vars
    PROVE  MigrationInv'
<1>1. CASE UNCHANGED vars
  BY <1>1, UnchangedKeeps DEF vars
<1>2. ASSUME NEW j \in Job, JobStep(j) PROVE MigrationInv'
  <2>1. CASE SyncSlotsSnapshotEof(j)
    <3>1. "request_pause" \in Reply /\ "wait_paused" \in ImportInProgress
      BY DEF Reply, ImportInProgress
    <3> QED BY <2>1, <3>1, MarkerKeeps DEF SyncSlotsSnapshotEof
  <2>2. CASE SyncSlotsPaused(j)
    <3>1. "request_failover" \in Reply /\ "requested" \in ImportInProgress
      BY DEF Reply, ImportInProgress
    <3> QED BY <2>2, <3>1, MarkerKeeps DEF SyncSlotsPaused
  <2> QED
    BY <1>2, <2>1, <2>2, ConnectKeeps, WriteToClientKeeps, ReadEstablishKeeps,
       BeginSnapshotKeeps, RequestPauseKeeps, WaitingToPauseKeeps,
       RequestFailoverKeeps, DeadlinePassesKeeps, PauseTimeoutKeeps, EstablishKeeps,
       AckKeeps, LoadSnapshotKeeps, ApplyWriteKeeps, FailoverGrantedKeeps,
       PerformFailoverKeeps, CleanUpKeeps, SourceSeesCloseKeeps, TargetSeesCloseKeeps
    DEF JobStep
<1>3. ASSUME NEW n \in Node, NodeStep(n) PROVE MigrationInv'
  BY <1>3, ChildWritesKeeps, SnapshotDoneKeeps, PauseExpiresKeeps DEF NodeStep
<1>4. ASSUME NEW j \in Job, MigrateSlots(j) \/ JobFault(j) PROVE MigrationInv'
  BY <1>4, MigrateSlotsKeeps, ConnectFailsKeeps, ForkFailsKeeps, ImportFailsKeeps,
     LinkBreaksKeeps, TimeoutsKeep DEF JobFault
<1>5. ASSUME NEW n \in Node, NodeCommand(n) PROVE MigrationInv'
  BY <1>5, ChildFailsKeeps, CancelKeeps, FlushAllKeeps, BumpEpochKeeps, RestartKeeps
  DEF NodeCommand
<1>6. ASSUME NEW n \in Node, NEW m \in Node, Gossip(n, m) PROVE MigrationInv'
  <2>1. CASE SendPong(n, m)
    BY <2>1, UnchangedKeeps DEF SendPong
  <2> QED BY <1>6, <2>1, ReceivePongKeeps DEF Gossip
<1> QED BY <1>1, <1>2, <1>3, <1>4, <1>5, <1>6, WriteKeeps DEF Next, Progress

(* The invariant of every behaviour.                                       *)
LEMMA MigrationInvariant == Spec => []MigrationInv
<1>1. Init => MigrationInv
  BY InitKeeps
<1>2. MigrationInv /\ [Next]_vars => MigrationInv'
  BY NextKeeps
<1> QED BY <1>1, <1>2, PTL DEF Spec

(* GrantedIsPaused for any nodes, slots, migrations and faults: a source   *)
(* that has granted a failover (clusterHandleFlushDuringSlotMigration,     *)
(* slotExportTryUnpause and the ends of its other jobs included) stays     *)
(* paused until the job has ended or the pause has run out.                *)
THEOREM GrantedStaysPaused == Spec => []GrantedIsPaused
<1>1. MigrationInv => GrantedIsPaused
  <2> SUFFICES ASSUME MigrationInv, NEW j \in Job, exp[j].st = "granted",
                      Slots(j) \cap risk = {}
               PROVE  node[Src(j)].paused
    BY DEF GrantedIsPaused
  <2>1. ~(Slots(j) \subseteq risk)
    BY InvFacts, ModeFacts
  <2> QED BY <2>1, StateFacts DEF MigrationInv, Good, Firm
<1> QED BY <1>1, MigrationInvariant, PTL

(* NoDirtyKeys for any nodes, slots, migrations and faults: whatever ends  *)
(* an import (finishSlotMigrationJob, a restart, gossip about the slots)   *)
(* leaves no keys that nobody will delete.                                 *)
THEOREM NoStrayKeys == Spec => []NoDirtyKeys
<1>1. MigrationInv => NoDirtyKeys
  BY StateFacts DEF MigrationInv, Clean, CleanBut, NoDirtyKeys
<1> QED BY <1>1, MigrationInvariant, PTL

-------------------------------------------------------------------------------
(* Who may write to a slot.  The right to it is with the node that holds   *)
(* the slot, or on its way to the target of a migration: a message, or an  *)
(* import, that says the failover is granted.                              *)

Quiet(j) == {m \in MsgFor(j) : m.k # "granted"}

HasToken(j, e, l, i) ==
    \/ i = "granted"
    \/ l.dst /\ ~(l.tot \in Seq(Quiet(j)) /\ e.out \in Seq(Quiet(j)))

Token(T, j) == HasToken(j, T.exp[j], T.link[j], T.imp[j])

Holds(T, n, s) == T.node[n].owner[s] = n /\ ~SlotFailoverGranted(T, n, s)

(* A slot that is exported is owned, and exported once.                    *)
Home(T) ==
    \A j \in Job : T.exp[j].st \in ExportInProgress =>
        \A s \in Slots(j) : T.node[Src(j)].owner[s] = Src(j)

Apart(T) ==
    \A i, j \in Job : /\ Src(i) = Src(j) /\ Slots(i) \cap Slots(j) # {}
                      /\ T.exp[i].st \in ExportInProgress
                      /\ T.exp[j].st \in ExportInProgress
        => i = j

Waiting == {"none", "connecting"}

(* Nothing is queued before there is a connection.                         *)
Fresh(T) == \A j \in Job : T.exp[j].st \in Waiting => T.exp[j].out = <<>>

(* One node or one migration at most has the right to a slot.              *)
Sole(T) ==
    \A s \in Slot \ T.risk :
        /\ \A n, m \in Node : Holds(T, n, s) /\ Holds(T, m, s) => n = m
        /\ \A n \in Node, j \in Job : Holds(T, n, s) /\ s \in Slots(j) => ~Token(T, j)
        /\ \A i, j \in Job :
            Token(T, i) /\ Token(T, j) /\ s \in Slots(i) /\ s \in Slots(j) => i = j

Single(T) == Home(T) /\ Apart(T) /\ Fresh(T) /\ Sole(T)

(* No node sends a PONG to itself.                                         *)
NoEcho == /\ bus = [x \in Node \X Node |-> bus[x]]
          /\ \A n \in Node : bus[<<n, n>>] = None

WriterInv == MigrationInv /\ Single(State) /\ NoEcho

(* What one job may do without a new right: e, l, i become f, m, k.        *)
CalmJob(j, e, l, i, f, m, k) ==
    /\ f.st \in ExportInProgress => e.st \in ExportInProgress
    /\ e.st = "granted" => f.st = "granted"
    /\ HasToken(j, f, m, k) => HasToken(j, e, l, i)
    /\ f.st \in Waiting => f.out = <<>> \/ (e.st \in Waiting /\ f.out = e.out)

(* A step that gives no right to a slot to anybody: slots are only given   *)
(* away, and a source that had granted a failover and is not waiting any   *)
(* more has lost the slot or left it at risk.                              *)
Calm(T, U) ==
    /\ T.risk \subseteq U.risk
    /\ \A n \in Node, s \in Slot : U.node[n].owner[s] = n => T.node[n].owner[s] = n
    /\ \A j \in Job :
        /\ U.exp[j].st \in ExportInProgress =>
              /\ T.exp[j].st \in ExportInProgress
              /\ \A s \in Slots(j) : T.node[Src(j)].owner[s] = Src(j) =>
                                     U.node[Src(j)].owner[s] = Src(j)
        /\ T.exp[j].st = "granted" /\ U.exp[j].st # "granted" =>
              \A s \in Slots(j) : s \in U.risk \/ U.node[Src(j)].owner[s] # Src(j)
        /\ Token(U, j) => Token(T, j)
        /\ U.exp[j].st \in Waiting =>
              U.exp[j].out = <<>> \/ (T.exp[j].st \in Waiting /\ U.exp[j].out = T.exp[j].out)

(* Calm steps follow each other.                                           *)
LEMMA CalmTransitive ==
    ASSUME mode \in Modes, NEW T, NEW U, NEW V, Calm(T, U), Calm(U, V)
    PROVE  Calm(T, V)
<1>1. T.risk \subseteq V.risk
  BY DEF Calm
<1>2. \A n \in Node, s \in Slot : V.node[n].owner[s] = n => T.node[n].owner[s] = n
  BY DEF Calm
<1>3. ASSUME NEW j \in Job
      PROVE  /\ V.exp[j].st \in ExportInProgress =>
                  /\ T.exp[j].st \in ExportInProgress
                  /\ \A s \in Slots(j) : T.node[Src(j)].owner[s] = Src(j) =>
                                         V.node[Src(j)].owner[s] = Src(j)
             /\ Token(V, j) => Token(T, j)
  BY DEF Calm
<1>4. ASSUME NEW j \in Job, T.exp[j].st = "granted", V.exp[j].st # "granted",
             NEW s \in Slots(j), s \notin V.risk
      PROVE  V.node[Src(j)].owner[s] # Src(j)
  <2>1. Src(j) \in Node /\ s \in Slot
    BY ModeFacts
  <2>2. CASE U.exp[j].st = "granted"
    BY <1>4, <2>2 DEF Calm
  <2>3. CASE U.exp[j].st # "granted"
    <3>1. U.node[Src(j)].owner[s] # Src(j)
      BY <1>4, <2>3 DEF Calm
    <3> QED BY <2>1, <3>1 DEF Calm
  <2> QED BY <2>2, <2>3
<1>5. ASSUME NEW j \in Job, V.exp[j].st \in Waiting, V.exp[j].out # <<>>
      PROVE  T.exp[j].st \in Waiting /\ V.exp[j].out = T.exp[j].out
  BY <1>5 DEF Calm
<1> QED BY <1>1, <1>2, <1>3, <1>4, <1>5 DEF Calm

(* A calm step takes no slot from one to give it to two.                   *)
LEMMA CalmSingle ==
    ASSUME mode \in Modes, NEW T, NEW U, Calm(T, U), Single(T)
    PROVE  Single(U)
<1>1. ASSUME NEW n \in Node, NEW s \in Slot, s \notin U.risk, Holds(U, n, s)
      PROVE  Holds(T, n, s)
  <2>1. T.node[n].owner[s] = n /\ U.node[n].owner[s] = n
    BY <1>1 DEF Calm, Holds
  <2>2. ASSUME NEW j \in Exports(n), s \in Slots(j), T.exp[j].st = "granted" PROVE FALSE
    <3>1. j \in Job /\ Src(j) = n /\ U.exp[j].st # "granted"
      BY <1>1, <2>2 DEF Exports, Holds, SlotFailoverGranted
    <3> QED BY <1>1, <2>1, <2>2, <3>1 DEF Calm
  <2> QED BY <2>1, <2>2 DEF Holds, SlotFailoverGranted
<1>2. T.risk \subseteq U.risk /\ \A j \in Job : Token(U, j) => Token(T, j)
  BY DEF Calm
<1>3. Sole(U)
  <2> SUFFICES ASSUME NEW s \in Slot, s \notin U.risk
               PROVE  /\ \A n, m \in Node : Holds(U, n, s) /\ Holds(U, m, s) => n = m
                      /\ \A n \in Node, j \in Job :
                            Holds(U, n, s) /\ s \in Slots(j) => ~Token(U, j)
                      /\ \A i, j \in Job :
                             Token(U, i) /\ Token(U, j) /\ s \in Slots(i) /\ s \in Slots(j) => i = j
    BY DEF Sole
  <2>1. s \in Slot \ T.risk
    BY <1>2
  <2>2. \A n \in Node : Holds(U, n, s) => Holds(T, n, s)
    BY <1>1
  <2>3. /\ \A n, m \in Node : Holds(T, n, s) /\ Holds(T, m, s) => n = m
        /\ \A n \in Node, j \in Job : Holds(T, n, s) /\ s \in Slots(j) => ~Token(T, j)
        /\ \A i, j \in Job :
            Token(T, i) /\ Token(T, j) /\ s \in Slots(i) /\ s \in Slots(j) => i = j
    BY <2>1 DEF Single, Sole
  <2>4. \A j \in Job : Token(U, j) => Token(T, j)
    BY <1>2
  <2>5. \A n, m \in Node : Holds(U, n, s) /\ Holds(U, m, s) => n = m
    BY <2>2, <2>3
  <2>6. \A n \in Node, j \in Job : Holds(U, n, s) /\ s \in Slots(j) => ~Token(U, j)
    BY <2>2, <2>3, <2>4
  <2>7. \A i, j \in Job :
            Token(U, i) /\ Token(U, j) /\ s \in Slots(i) /\ s \in Slots(j) => i = j
    BY <2>3, <2>4
  <2> QED BY <2>5, <2>6, <2>7
<1>4. Home(U)
  BY DEF Home, Single, Calm
<1>5. Apart(U)
  BY DEF Apart, Single, Calm
<1>6. Fresh(U)
  BY DEF Fresh, Single, Calm
<1> QED BY <1>3, <1>4, <1>5, <1>6 DEF Single

(* A step that applies U.                                                  *)
LEMMA SingleApplied ==
    ASSUME NEW U, Single(U), Apply(U), mode' = mode, MigrationInv', NoEcho'
    PROVE  WriterInv'
<1>1. /\ State'.node = U.node /\ State'.exp = U.exp /\ State'.imp = U.imp
      /\ State'.link = U.link /\ State'.risk = U.risk
  BY DEF State, Apply
<1>2. /\ \A j : Src(j)' = Src(j) /\ Dst(j)' = Dst(j) /\ Slots(j)' = Slots(j)
      /\ \A n : Exports(n)' = Exports(n)
  BY DEF Src, Dst, Slots, Exports
<1>3. Home(State)' /\ Apart(State)' /\ Fresh(State)'
  BY <1>1, <1>2 DEF Single, Home, Apart, Fresh
<1>4. \A j : Quiet(j)' = Quiet(j)
  BY <1>2 DEF Quiet, MsgFor, Values
<1>5. \A j : Token(State, j)' <=> Token(U, j)
  BY <1>1, <1>4 DEF Token, HasToken
<1>6. \A n, s : Holds(State, n, s)' <=> Holds(U, n, s)
  BY <1>1, <1>2 DEF Holds, SlotFailoverGranted
<1>7. Sole(State)'
  BY <1>1, <1>2, <1>5, <1>6 DEF Single, Sole
<1> QED BY <1>3, <1>7 DEF WriterInv, Single

(* A calm step that applies U.                                             *)
LEMMA CalmApplied ==
    ASSUME WriterInv, NEW U, Calm(State, U), Apply(U), mode' = mode, MigrationInv',
           bus' = bus
    PROVE  WriterInv'
<1>1. mode \in Modes /\ Single(State) /\ NoEcho'
  BY DEF WriterInv, MigrationInv, Good, NoEcho
<1>2. Single(U)
  BY <1>1, CalmSingle
<1> QED BY <1>1, <1>2, SingleApplied

(* Only one job changes.                                                   *)
LEMMA CalmOne ==
    ASSUME NEW T, Good(T), NEW j \in Job, NEW e, NEW l, NEW i, NEW U,
           WithJob(T, U, j, e, l, i),
           CalmJob(j, T.exp[j], T.link[j], T.imp[j], e, l, i)
    PROVE  Calm(T, U)
<1>1. /\ U.exp[j] = e /\ U.link[j] = l /\ U.imp[j] = i
      /\ \A k \in Job \ {j} : /\ U.exp[k] = T.exp[k] /\ U.link[k] = T.link[k]
                              /\ U.imp[k] = T.imp[k]
      /\ U.node = T.node /\ U.risk = T.risk
  BY DEF Good, IsState, WithJob
<1>2. \A k \in Job \ {j} : Token(U, k) => Token(T, k)
  BY <1>1 DEF Token
<1>3. Token(U, j) => Token(T, j)
  BY <1>1 DEF Token, CalmJob
<1>4. ASSUME NEW k \in Job
      PROVE  /\ U.exp[k].st \in ExportInProgress => T.exp[k].st \in ExportInProgress
             /\ T.exp[k].st = "granted" => U.exp[k].st = "granted"
             /\ U.exp[k].st \in Waiting =>
                  U.exp[k].out = <<>> \/ (T.exp[k].st \in Waiting /\ U.exp[k].out = T.exp[k].out)
  BY <1>1 DEF CalmJob
<1> QED BY <1>1, <1>2, <1>3, <1>4 DEF Calm

(* No job changes.                                                         *)
LEMMA CalmNodes ==
    ASSUME NEW T, NEW U, U.exp = T.exp, U.link = T.link, U.imp = T.imp,
           T.risk \subseteq U.risk, \A n \in Node : U.node[n].owner = T.node[n].owner,
           mode \in Modes
    PROVE  Calm(T, U)
<1>1. \A j \in Job : Token(U, j) => Token(T, j)
  BY DEF Token
<1>2. \A j \in Job : U.node[Src(j)].owner = T.node[Src(j)].owner
  BY ModeFacts
<1> QED BY <1>1, <1>2 DEF Calm

CalmMove(T, U, j, e, l, i) ==
    /\ U.exp = [T.exp EXCEPT ![j] = e] /\ U.link = [T.link EXCEPT ![j] = l]
    /\ U.imp = [T.imp EXCEPT ![j] = i] /\ T.risk \subseteq U.risk
    /\ \A n \in Node : U.node[n].owner = T.node[n].owner
    /\ CalmJob(j, T.exp[j], T.link[j], T.imp[j], e, l, i)

(* The step of one job and one node.                                       *)
LEMMA CalmBoth ==
    ASSUME NEW T, Good(T), NEW j \in Job, NEW e, NEW l, NEW i, NEW U,
           CalmMove(T, U, j, e, l, i)
    PROVE  Calm(T, U)
<1> DEFINE V == [node |-> T.node, exp |-> U.exp, imp |-> U.imp, link |-> U.link,
                 risk |-> T.risk, asserts |-> T.asserts]
<1>1. WithJob(T, V, j, e, l, i)
  BY DEF WithJob, IsRecord, CalmMove
<1>2. V.exp = U.exp /\ V.link = U.link /\ V.imp = U.imp /\ V.risk = T.risk /\ V.node = T.node
  OBVIOUS
<1> HIDE DEF V
<1>3. Calm(T, V)
  BY <1>1, CalmOne DEF CalmMove
<1>4. mode \in Modes
  BY DEF Good
<1>5. Calm(V, U)
  BY <1>2, <1>4, CalmNodes DEF CalmMove
<1> QED BY <1>3, <1>4, <1>5, CalmTransitive

(* An end of a connection that is closed carries no new message.           *)
LEMMA CloseCalm ==
    ASSUME NEW j, NEW l \in LinkType(j), NEW e, NEW i
    PROVE  /\ HasToken(j, e, CloseSource(l), i) => HasToken(j, e, l, i)
           /\ HasToken(j, e, CloseTarget(l), i) => i = "granted"
<1>1. CloseSource(l).dst = l.dst /\ CloseSource(l).tot = l.tot
  BY CloseSourceOK
<1>2. CloseTarget(l).dst = FALSE
  BY CloseTargetOK
<1> QED BY <1>1, <1>2 DEF HasToken

(* finishSlotMigrationJob for exports J of n: the ones that were granted   *)
(* leave their slots at risk, unless they have succeeded.                  *)
LEMMA FinishExportsCalm ==
    ASSUME NEW T, Good(T), NEW n \in Node, NEW J, J \subseteq Exports(n),
           NEW st \in Finished, NEW U, U = FinishExports(T, n, J, st),
           st = "success" => \A j \in J : \A s \in Slots(j) : T.node[n].owner[s] # n
    PROVE  Calm(T, U)
<1> DEFINE e == [NoExport EXCEPT !.st = st]
           E == [j \in Job |-> IF j \in J THEN e ELSE T.exp[j]]
           L == [j \in Job |-> IF j \in J THEN CloseSource(T.link[j]) ELSE T.link[j]]
           R == T.risk \cup UNION {Slots(j) : j \in
                    {i \in J : T.exp[i].st = "granted" /\ st # "success"}}
           c == KillChild(T.node[n].child, J)
           A == [T EXCEPT !.exp = E, !.link = L, !.risk = R, !.node[n].child = c]
<1>1. U = SlotExportTryUnpause(A, n)
  BY Zenon DEF FinishExports
<1>2. J \subseteq Job /\ mode \in Modes /\ \A j \in J : Src(j) = n
  BY DEF Exports, Good
<1>3. e.st = st /\ e.out = <<>>
  BY DEF NoExport
<1>4. /\ T.risk \subseteq R
      /\ \A j \in J : T.exp[j].st = "granted" /\ st # "success" => Slots(j) \subseteq R
  OBVIOUS
<1> HIDE DEF e, R, c
<1>5. A.exp = E /\ A.link = L /\ A.risk = R /\ A.imp = T.imp
  <2> HIDE DEF E, L
  <2> QED BY DEF Good, IsState
<1>6. U.exp = A.exp /\ U.link = A.link /\ U.risk = A.risk /\ U.imp = A.imp
  <2>1. IsState(T)
    BY DEF Good
  <2> HIDE DEF E, L
  <2> QED BY <1>1, <2>1 DEF SlotExportTryUnpause, IsState
<1>7. /\ \A j \in J : U.exp[j] = e /\ U.link[j] = CloseSource(T.link[j])
      /\ \A j \in Job \ J : U.exp[j] = T.exp[j] /\ U.link[j] = T.link[j]
      /\ U.imp = T.imp /\ U.risk = R
  BY <1>2, <1>5, <1>6
<1> HIDE DEF A, E, L
<1>8. KeepsKeys(T, U)
  BY FinishExportsOK
<1>9. \A m \in Node : U.node[m].owner = T.node[m].owner
  BY <1>8 DEF KeepsKeys
<1>10. ASSUME NEW j \in Job PROVE Token(U, j) => Token(T, j)
  <2>1. CASE j \in J
    <3>1. T.link[j] \in LinkType(j)
      BY DEF Good, JobsOK, JobOK
    <3>2. <<>> \in Seq(Quiet(j))
      OBVIOUS
    <3>3. /\ CloseSource(T.link[j]).dst = T.link[j].dst
          /\ CloseSource(T.link[j]).tot = T.link[j].tot
      BY <3>1, CloseSourceOK
    <3>4. /\ U.exp[j].out = <<>> /\ U.imp[j] = T.imp[j]
          /\ U.link[j].dst = T.link[j].dst /\ U.link[j].tot = T.link[j].tot
      BY <1>3, <1>7, <2>1, <3>3
    <3> QED BY <3>2, <3>4 DEF Token, HasToken
  <2>2. CASE j \notin J
    BY <1>7, <2>2 DEF Token
  <2> QED BY <2>1, <2>2
<1>11. ASSUME NEW j \in Job, U.exp[j].st \in ExportInProgress
       PROVE  /\ T.exp[j].st \in ExportInProgress
              /\ \A s \in Slots(j) : T.node[Src(j)].owner[s] = Src(j) =>
                                     U.node[Src(j)].owner[s] = Src(j)
  <2>1. j \notin J
    BY <1>3, <1>7, <1>11 DEF Finished, ExportInProgress
  <2> QED BY <1>2, <1>7, <1>9, <1>11, <2>1, ModeFacts
<1>12. ASSUME NEW j \in Job, T.exp[j].st = "granted", U.exp[j].st # "granted", NEW s \in Slots(j)
       PROVE  s \in U.risk \/ U.node[Src(j)].owner[s] # Src(j)
  <2>1. j \in J
    BY <1>7, <1>12
  <2>2. CASE st = "success"
    BY <1>2, <1>9, <1>12, <2>1, <2>2
  <2>3. CASE st # "success"
    BY <1>4, <1>7, <1>12, <2>1, <2>3
  <2> QED BY <2>2, <2>3
<1>13. ASSUME NEW j \in Job, U.exp[j].st \in Waiting
       PROVE  T.exp[j].st \in Waiting /\ U.exp[j].out = T.exp[j].out
  <2>1. j \notin J
    BY <1>3, <1>7, <1>13 DEF Finished, Waiting
  <2> QED BY <1>7, <1>13, <2>1
<1>14. T.risk \subseteq U.risk
  BY <1>4, <1>7
<1> QED BY <1>9, <1>10, <1>11, <1>12, <1>13, <1>14 DEF Calm

(* Imports that fail give up what was granted to them.                     *)
LEMMA FailImportsCalm ==
    ASSUME NEW T, Good(T), NEW I, I \subseteq Job, NEW U, U = FailImports(T, I)
    PROVE  Calm(T, U)
<1> DEFINE M == [j \in Job |-> IF j \in I THEN "cleaning" ELSE T.imp[j]]
           L == [j \in Job |-> IF j \in I THEN CloseTarget(T.link[j]) ELSE T.link[j]]
<1>1. U = [T EXCEPT !.imp = M, !.link = L]
  BY DEF FailImports
<1>2. U.node = T.node /\ U.exp = T.exp /\ U.risk = T.risk /\ U.imp = M /\ U.link = L
  BY <1>1 DEF Good, IsState
<1>3. /\ \A j \in I : U.imp[j] = "cleaning" /\ U.link[j] = CloseTarget(T.link[j])
      /\ \A j \in Job \ I : U.imp[j] = T.imp[j] /\ U.link[j] = T.link[j]
  BY <1>2
<1> HIDE DEF M, L
<1>4. ASSUME NEW j \in Job PROVE Token(U, j) => Token(T, j)
  <2>1. CASE j \in I
    <3>1. T.link[j] \in LinkType(j)
      BY DEF Good, JobsOK, JobOK
    <3> QED BY <1>2, <1>3, <2>1, <3>1, CloseCalm DEF Token
  <2>2. CASE j \notin I
    BY <1>2, <1>3, <2>2 DEF Token
  <2> QED BY <2>1, <2>2
<1> QED BY <1>2, <1>4 DEF Calm

(* The process of n dies.                                                  *)
LEMMA DiedCalm ==
    ASSUME NEW T, Good(T), NEW n \in Node, NEW U, U = Died(T, n)
    PROVE  Calm(T, U)
<1> DEFINE lost == {j \in Exports(n) : T.exp[j].st \in ExportInProgress}
           left == {j \in Imports(n) : T.imp[j] \in ImportInProgress}
           F == FinishExports(T, n, lost, "gone")
           A == FailImports(F, left)
           L == [j \in Job |-> IF j \in Imports(n) THEN CloseTarget(A.link[j]) ELSE A.link[j]]
           d == DelKeysNotOwned(A.node[n], n, Slot)
           nd == [d EXCEPT !.paused = FALSE, !.child = None, !.pipe = FALSE]
<1>1. U = [A EXCEPT !.node[n] = nd, !.link = L]
  BY Zenon DEF Died
<1>2. lost \subseteq Exports(n) /\ left \subseteq Job /\ "gone" \in Finished /\ "gone" # "success"
  BY DEF Imports, Finished
<1> HIDE DEF lost, left
<1>3. Good(F) /\ Calm(T, F)
  <2>1. Good(F)
    BY <1>2, FinishExportsOK
  <2>2. Calm(T, F)
    BY <1>2, FinishExportsCalm
  <2> QED BY <2>1, <2>2
<1> HIDE DEF F
<1>4. Good(A) /\ Calm(F, A)
  BY <1>2, <1>3, FailImportsOK, FailImportsCalm
<1> HIDE DEF A
<1>5. NodeOK(n, A.node[n]) /\ IsState(A) /\ mode \in Modes
  BY <1>4 DEF Good, NodesOK
<1>6. NodeOK(n, d) /\ d.owner = A.node[n].owner
  BY <1>5, DelKeysOK
<1> HIDE DEF d
<1>7. nd.owner = A.node[n].owner
  BY <1>6 DEF NodeOK
<1> HIDE DEF nd
<1>8. /\ U.exp = A.exp /\ U.imp = A.imp /\ U.risk = A.risk /\ U.link = L
      /\ U.node = [A.node EXCEPT ![n] = nd]
  <2> HIDE DEF L
  <2> QED BY <1>1, <1>5 DEF IsState
<1>9. \A m \in Node : U.node[m].owner = A.node[m].owner
  BY <1>5, <1>7, <1>8 DEF IsState
<1>10. ASSUME NEW j \in Job PROVE Token(U, j) => Token(A, j)
  <2>1. A.link[j] \in LinkType(j)
    BY <1>4 DEF Good, JobsOK, JobOK
  <2>2. U.link[j] = A.link[j] \/ U.link[j] = CloseTarget(A.link[j])
    BY <1>8
  <2>3. HasToken(j, A.exp[j], CloseTarget(A.link[j]), A.imp[j]) => A.imp[j] = "granted"
    BY <2>1, CloseCalm
  <2> QED BY <1>8, <2>2, <2>3 DEF Token, HasToken
<1>11. Calm(A, U)
  <2>1. \A j \in Job : U.node[Src(j)].owner = A.node[Src(j)].owner
    BY <1>5, <1>9, ModeFacts
  <2> QED BY <1>8, <1>9, <1>10, <2>1 DEF Calm
<1>12. Calm(T, A)
  BY <1>3, <1>4, <1>5, CalmTransitive
<1> QED BY <1>5, <1>11, <1>12, CalmTransitive

-------------------------------------------------------------------------------
(* The steps again, for the right to write.                                *)

(* Parts of the invariant.                                                 *)
LEMMA WriterFacts ==
    ASSUME WriterInv
    PROVE  MigrationInv /\ Good(State) /\ mode \in Modes /\ Single(State)
  BY DEF WriterInv, MigrationInv, Good

(* A calm step of one job that leaves the owners of the slots alone.       *)
LEMMA JobCalm ==
    ASSUME WriterInv, MigrationInv', mode' = mode, bus' = bus, NEW j \in Job,
           NEW e, NEW l, NEW i,
           exp' = [exp EXCEPT ![j] = e], link' = [link EXCEPT ![j] = l],
           imp' = [imp EXCEPT ![j] = i], risk' = risk,
           \A n \in Node : node'[n].owner = node[n].owner,
           CalmJob(j, exp[j], link[j], imp[j], e, l, i)
    PROVE  WriterInv'
<1> DEFINE U == [node |-> node', exp |-> exp', imp |-> imp', link |-> link',
                 risk |-> risk', asserts |-> asserts']
<1>1. Apply(U)
  BY DEF Apply
<1>2. CalmMove(State, U, j, e, l, i)
  BY StateFacts DEF CalmMove
<1> HIDE DEF U
<1>3. Good(State)
  BY WriterFacts
<1>4. Calm(State, U)
  BY <1>2, <1>3, CalmBoth
<1> QED BY <1>1, <1>4, CalmApplied

(* Nothing but nodes and risk changes.                                     *)
LEMMA NodeCalm ==
    ASSUME WriterInv, MigrationInv', mode' = mode, bus' = bus,
           exp' = exp, link' = link, imp' = imp, risk \subseteq risk',
           \A n \in Node : node'[n].owner = node[n].owner
    PROVE  WriterInv'
<1> DEFINE U == [node |-> node', exp |-> exp', imp |-> imp', link |-> link',
                 risk |-> risk', asserts |-> asserts']
<1>1. Apply(U)
  BY DEF Apply
<1>2. /\ U.exp = State.exp /\ U.link = State.link /\ U.imp = State.imp
      /\ State.risk \subseteq U.risk
      /\ \A n \in Node : U.node[n].owner = State.node[n].owner
  BY StateFacts
<1> HIDE DEF U
<1>3. Calm(State, U)
  BY <1>2, WriterFacts, CalmNodes
<1> QED BY <1>1, <1>3, CalmApplied

(* A step that ends one export, after a calm change.                       *)
LEMMA FinishCalm ==
    ASSUME WriterInv, MigrationInv', mode' = mode, bus' = bus, NEW j \in Job,
           NEW T, Good(T), Calm(State, T), NEW st \in Finished, st # "success",
           Apply(FinishExport(T, j, st))
    PROVE  WriterInv'
<1> DEFINE U == FinishExports(T, Src(j), {j}, st)
<1>1. Src(j) \in Node /\ {j} \subseteq Exports(Src(j)) /\ mode \in Modes
  BY ModeFacts DEF Good, Exports
<1>2. Calm(T, U)
  BY <1>1, FinishExportsCalm
<1>3. Apply(U)
  BY DEF FinishExport
<1> HIDE DEF U
<1>4. Calm(State, U)
  BY <1>1, <1>2, CalmTransitive
<1> QED BY <1>3, <1>4, CalmApplied

(* Nothing changes at all.                                                 *)
LEMMA CalmReflexive ==
    ASSUME NEW T
    PROVE  Calm(T, T)
  BY DEF Calm

(* The death of a node, after a calm change.                               *)
LEMMA DeathCalm ==
    ASSUME WriterInv, MigrationInv', mode' = mode, bus' = bus, NEW n \in Node,
           NEW T, Good(T), Calm(State, T), Apply(Died(T, n))
    PROVE  WriterInv'
<1> DEFINE U == Died(T, n)
<1>1. Calm(T, U) /\ mode \in Modes
  BY DiedCalm DEF Good
<1> HIDE DEF U
<1>2. Calm(State, U)
  BY <1>1, CalmTransitive
<1> QED BY <1>2, CalmApplied DEF U

(* The death of a node by an assertion.                                    *)
LEMMA AssertCalm ==
    ASSUME WriterInv, MigrationInv', mode' = mode, bus' = bus, NEW n \in Node, NEW a,
           Apply(Died([State EXCEPT !.asserts = a], n))
    PROVE  WriterInv'
<1> DEFINE T == [State EXCEPT !.asserts = a]
<1>1. Good(T)
  BY AssertsOK, WriterFacts
<1>2. T.exp = State.exp /\ T.link = State.link /\ T.imp = State.imp
      /\ T.risk = State.risk /\ T.node = State.node
  BY DEF State
<1>3. Calm(State, T)
  <2> HIDE DEF T
  <2> QED BY <1>2, CalmNodes, WriterFacts
<1> HIDE DEF T
<1> QED BY <1>1, <1>3, DeathCalm DEF T

(* Failed imports, after a calm change.                                    *)
LEMMA FailCalm ==
    ASSUME WriterInv, MigrationInv', mode' = mode, bus' = bus, NEW j \in Job,
           NEW T, Good(T), Calm(State, T), Apply(FailImports(T, {j}))
    PROVE  WriterInv'
<1> DEFINE U == FailImports(T, {j})
<1>1. {j} \subseteq Job /\ mode \in Modes
  BY DEF Good
<1>2. Calm(T, U)
  BY <1>1, FailImportsCalm
<1> HIDE DEF U
<1>3. Calm(State, U)
  BY <1>1, <1>2, CalmTransitive
<1> QED BY <1>3, CalmApplied DEF U

(* Output that does not grant anything.                                    *)
LEMMA SayCalm ==
    ASSUME NEW j, NEW e \in ExportType(j), NEW m \in Quiet(j), NEW l, NEW i
    PROVE  /\ Say(e, m).st = e.st
           /\ HasToken(j, Say(e, m), l, i) => HasToken(j, e, l, i)
           /\ e.out \in Seq(Quiet(j)) => Say(e, m).out \in Seq(Quiet(j))
<1> DEFINE o == Append(e.out, m)
           p == e.pend \/ (e.out = <<>> /\ e.st # "snapshotting")
<1>1. Say(e, m) = [e EXCEPT !.out = o, !.pend = p]
  BY DEF Say
<1>2. e.out \in Seq(Quiet(j)) => o \in Seq(Quiet(j))
  BY AppendProperties
<1> HIDE DEF o, p
<1>3. Say(e, m).out = o /\ Say(e, m).st = e.st
  BY <1>1 DEF ExportType
<1> QED BY <1>2, <1>3 DEF HasToken

(* The messages that grant nothing.                                        *)
LEMMA QuietMessages ==
    ASSUME NEW j, NEW k \in {"establish", "ack", "eof", "paused"}
    PROVE  Msg(k) \in Quiet(j)
  BY DEF Msg, Quiet, MsgFor, Control

(* What is written to a connection was in the output.                      *)
LEMMA WrittenCalm ==
    ASSUME NEW j, NEW l \in LinkType(j), NEW ms \in Seq(MsgFor(j))
    PROVE  /\ ToTarget(l, ms).dst = l.dst
           /\ l.tot \in Seq(Quiet(j)) /\ ms \in Seq(Quiet(j)) =>
                ToTarget(l, ms).tot \in Seq(Quiet(j))
<1> DEFINE t == l.tot \o ms
<1>1. l.tot \in Seq(Quiet(j)) /\ ms \in Seq(Quiet(j)) => t \in Seq(Quiet(j))
  BY ConcatProperties
<1>2. ToTarget(l, ms) = l \/ ToTarget(l, ms) = [l EXCEPT !.tot = t]
  BY DEF ToTarget
<1> HIDE DEF t
<1> QED BY <1>1, <1>2 DEF LinkType

(* The connection is made.                                                 *)
LEMMA ConnectSingle ==
    ASSUME WriterInv, MigrationInv', NEW j \in Job, Connect(j)
    PROVE  WriterInv'
<1> DEFINE f == [exp[j] EXCEPT !.st = "establish"]
           e == Say(f, Msg("establish"))
           l == [NoLink EXCEPT !.src = TRUE, !.dst = TRUE]
<1>0. MigrationInv /\ Single(State)
  BY WriterFacts
<1>1. /\ exp' = [exp EXCEPT ![j] = e] /\ link' = [link EXCEPT ![j] = l]
      /\ exp[j].st = "connecting" /\ imp' = [imp EXCEPT ![j] = imp[j]]
      /\ mode' = mode /\ bus' = bus /\ risk' = risk /\ node' = node
  BY <1>0, InvFacts, SameJob DEF Connect
<1>2. exp[j].out = <<>> /\ exp[j] \in ExportType(j)
  BY <1>0, <1>1, SameJob, StateFacts DEF Single, Fresh, Waiting
<1>3. f \in ExportType(j) /\ f.st = "establish" /\ f.out = <<>>
  BY <1>2 DEF ExportType, ExportInProgress
<1>4. <<>> \in Seq(Quiet(j)) /\ Msg("establish") \in Quiet(j)
  BY QuietMessages
<1> HIDE DEF f
<1>5. e.st = f.st /\ e.out \in Seq(Quiet(j))
  BY <1>3, <1>4, SayCalm
<1>6. l.tot = <<>>
  BY DEF NoLink
<1> HIDE DEF e, l
<1>7. CalmJob(j, exp[j], link[j], imp[j], e, l, imp[j])
  BY <1>1, <1>3, <1>4, <1>5, <1>6 DEF CalmJob, HasToken, Waiting, ExportInProgress
<1> QED BY <1>1, <1>7, JobCalm

(* handleClientsWithPendingWrites.                                         *)
LEMMA WriteToClientSingle ==
    ASSUME WriterInv, MigrationInv', NEW j \in Job, WriteToClient(j)
    PROVE  WriterInv'
<1> DEFINE e == [exp[j] EXCEPT !.out = <<>>, !.pend = FALSE]
           l == ToTarget(link[j], exp[j].out)
<1>0. MigrationInv
  BY WriterFacts
<1>1. /\ exp' = [exp EXCEPT ![j] = e] /\ link' = [link EXCEPT ![j] = l]
      /\ imp' = [imp EXCEPT ![j] = imp[j]]
      /\ mode' = mode /\ bus' = bus /\ risk' = risk /\ node' = node
  BY <1>0, InvFacts, SameJob DEF WriteToClient
<1>2. exp[j] \in ExportType(j) /\ link[j] \in LinkType(j) /\ exp[j].out \in Seq(MsgFor(j))
  BY <1>0, SameJob DEF ExportType
<1>3. e.st = exp[j].st /\ e.out = <<>>
  BY <1>2 DEF ExportType
<1>4. /\ l.dst = link[j].dst
      /\ link[j].tot \in Seq(Quiet(j)) /\ exp[j].out \in Seq(Quiet(j)) => l.tot \in Seq(Quiet(j))
  BY <1>2, WrittenCalm
<1> HIDE DEF e, l
<1>5. <<>> \in Seq(Quiet(j))
  OBVIOUS
<1>6. CalmJob(j, exp[j], link[j], imp[j], e, l, imp[j])
  BY <1>3, <1>4, <1>5 DEF CalmJob, HasToken
<1> QED BY <1>1, <1>6, JobCalm

(* Reading alone.                                                          *)
LEMMA ReadCalm ==
    ASSUME WriterInv, NEW j \in Job, NEW k, Received(j, k)
    PROVE  /\ Good(Read(j)) /\ Calm(State, Read(j)) /\ Read(j).exp = exp
           /\ Read(j).node = node /\ Read(j).risk = risk /\ Read(j).imp = imp
<1> DEFINE l == [link[j] EXCEPT !.tos = Tail(@)]
<1>0. MigrationInv /\ Good(State)
  BY WriterFacts
<1>1. /\ l.dst = link[j].dst /\ l.tot = link[j].tot
      /\ WithJob(State, Read(j), j, exp[j], l, imp[j])
  BY <1>0, ReadFacts
<1> HIDE DEF l
<1>2. CalmJob(j, State.exp[j], State.link[j], State.imp[j], exp[j], l, imp[j])
  BY <1>1, StateFacts DEF CalmJob, HasToken
<1>3. Calm(State, Read(j))
  BY <1>0, <1>1, <1>2, CalmOne
<1>4. Good(Read(j)) /\ Read(j).exp = exp /\ Read(j).node = node
  BY <1>0, ReadOK
<1>5. Read(j).risk = risk /\ Read(j).imp = imp
  BY DEF Read, State
<1> QED BY <1>3, <1>4, <1>5

(* The answer to ESTABLISH.                                                *)
LEMMA ReadEstablishSingle ==
    ASSUME WriterInv, MigrationInv', NEW j \in Job, ReadEstablishResponse(j)
    PROVE  WriterInv'
<1>0. mode' = mode /\ bus' = bus /\ exp[j].st = "establish" /\ MigrationInv
  BY WriterFacts DEF ReadEstablishResponse
<1>1. CASE Received(j, "error") /\ Apply(FinishExport(Read(j), j, "failed"))
  <2>1. Good(Read(j)) /\ Calm(State, Read(j)) /\ "failed" \in Finished /\ "failed" # "success"
    BY <1>1, ReadCalm DEF Finished
  <2> QED BY <1>0, <1>1, <2>1, FinishCalm
<1>2. CASE /\ Received(j, "ok")
           /\ Apply([Read(j) EXCEPT
                !.exp[j] = Say([@ EXCEPT !.st = "wait_snapshot"], Msg("ack"))])
  <2> DEFINE f == [exp[j] EXCEPT !.st = "wait_snapshot"]
             e == Say(f, Msg("ack"))
             l == [link[j] EXCEPT !.tos = Tail(@)]
  <2>1. /\ exp' = [exp EXCEPT ![j] = e] /\ link' = [link EXCEPT ![j] = l]
        /\ imp' = [imp EXCEPT ![j] = imp[j]] /\ node' = node /\ risk' = risk
    BY <1>0, <1>2, InvFacts, SameJob DEF Apply, Read, State
  <2>2. f \in ExportType(j) /\ f.st = "wait_snapshot" /\ f.out = exp[j].out
    BY <1>0, SameJob DEF ExportType, ExportInProgress
  <2>3. l.dst = link[j].dst /\ l.tot = link[j].tot
    BY <1>0, <1>2, ReadFacts
  <2>4. Msg("ack") \in Quiet(j)
    BY QuietMessages
  <2> HIDE DEF f, l
  <2>5. e.st = f.st /\ (HasToken(j, e, l, imp[j]) => HasToken(j, f, l, imp[j]))
    BY <2>2, <2>4, SayCalm
  <2>6. HasToken(j, f, l, imp[j]) => HasToken(j, exp[j], link[j], imp[j])
    BY <2>2, <2>3 DEF HasToken
  <2> HIDE DEF e
  <2>7. CalmJob(j, exp[j], link[j], imp[j], e, l, imp[j])
    BY <1>0, <2>2, <2>5, <2>6 DEF CalmJob, Waiting, ExportInProgress
  <2> QED BY <1>0, <2>1, <2>7, JobCalm
<1> QED BY <1>1, <1>2 DEF ReadEstablishResponse

(* Steps that only end an export.                                          *)
LEMMA ExportEndsSingle ==
    ASSUME WriterInv, MigrationInv', NEW j \in Job,
           ConnectFails(j) \/ PauseTimeout(j) \/ ExportTimesOut(j)
    PROVE  WriterInv'
<1>1. /\ Apply(FinishExport(State, j, "failed")) /\ mode' = mode /\ bus' = bus
      /\ "failed" \in Finished /\ "failed" # "success"
  BY DEF ConnectFails, PauseTimeout, ExportTimesOut, Finished
<1> QED BY <1>1, CalmReflexive, WriterFacts, FinishCalm

(* slotExportJobBeginSnapshotToTargetSocket.                               *)
LEMMA BeginSnapshotSingle ==
    ASSUME WriterInv, MigrationInv', NEW j \in Job, BeginSnapshot(j)
    PROVE  WriterInv'
<1> DEFINE n == Src(j)
           child == [job |-> j, st |-> "writing",
                     v |-> [s \in Slots(j) |-> node[n].val[s]]]
           e == [exp[j] EXCEPT !.st = "snapshotting"]
<1>0. mode' = mode /\ bus' = bus /\ exp[j].st = "wait_snapshot" /\ MigrationInv
  BY WriterFacts DEF BeginSnapshot, MaySnapshot
<1>1. n \in Node /\ NodeOK(n, node[n])
  BY <1>0, InvFacts, ModeFacts
<1>2. CASE Apply(Died([State EXCEPT !.asserts = @ \cup {"pipe"}], n))
  <2> HIDE DEF n
  <2> QED BY <1>0, <1>1, <1>2, AssertCalm
<1>3. CASE Apply([State EXCEPT !.node[n].child = child, !.exp[j].st = "snapshotting"])
  <2> HIDE DEF child
  <2>1. /\ exp' = [exp EXCEPT ![j] = e] /\ link' = [link EXCEPT ![j] = link[j]]
        /\ imp' = [imp EXCEPT ![j] = imp[j]]
        /\ node' = [node EXCEPT ![n] = [node[n] EXCEPT !.child = child]] /\ risk' = risk
    BY <1>0, <1>3, InvFacts, SameJob DEF Apply, State
  <2>2. \A m \in Node : node'[m].owner = node[m].owner
    BY <1>0, <1>1, <2>1, InvFacts DEF NodeOK
  <2>3. e.st = "snapshotting" /\ e.out = exp[j].out
    BY <1>0, SameJob DEF ExportType
  <2> HIDE DEF e
  <2>4. CalmJob(j, exp[j], link[j], imp[j], e, link[j], imp[j])
    BY <1>0, <2>3 DEF CalmJob, HasToken, Waiting, ExportInProgress
  <2> QED BY <1>0, <2>1, <2>2, <2>4, JobCalm
<1> QED BY <1>2, <1>3 DEF BeginSnapshot

(* The fork for the snapshot fails.                                        *)
LEMMA ForkFailsSingle ==
    ASSUME WriterInv, MigrationInv', NEW j \in Job, ForkFails(j)
    PROVE  WriterInv'
<1> DEFINE n == Src(j)
           T == [State EXCEPT !.node[n].pipe = TRUE]
           nd == [node[n] EXCEPT !.pipe = TRUE]
<1>0. /\ mode' = mode /\ bus' = bus /\ Apply(FinishExport(T, j, "failed"))
      /\ "failed" \in Finished /\ "failed" # "success" /\ MigrationInv /\ Good(State)
      /\ mode \in Modes
  BY WriterFacts DEF ForkFails, Finished
<1>1. n \in Node /\ NodeOK(n, node[n])
  BY <1>0, InvFacts, ModeFacts
<1>2. WithNode(State, T, n, nd)
  BY <1>0, InvFacts DEF WithNode, IsRecord, State
<1>3. NodeOK(n, nd) /\ nd.owner = node[n].owner /\ nd.val = node[n].val
      /\ nd.child = node[n].child
  BY <1>1 DEF NodeOK
<1>4. nd.paused = node[n].paused
  BY <1>1 DEF NodeOK
<1> HIDE DEF T, nd, n
<1>5. PauseKept(State, n, nd) /\ ChildFed(State, nd)
  BY <1>0, <1>1, <1>3, <1>4, StateFacts DEF PauseKept, ChildFed, Good, ChildRuns
<1>6. /\ Good(T) /\ KeepsKeys(State, T) /\ T.exp = State.exp /\ T.imp = State.imp
      /\ T.link = State.link /\ T.risk = State.risk
  BY <1>0, <1>1, <1>2, <1>3, <1>5, StateFacts, NodeChanges
<1>7. Calm(State, T)
  BY <1>0, <1>6, CalmNodes DEF KeepsKeys
<1> QED BY <1>0, <1>6, <1>7, FinishCalm

(* What a child sends grants nothing.                                      *)
LEMMA SnapshotQuiet ==
    ASSUME NEW j, NEW v \in Values(j)
    PROVE  <<SnapMsg(v), Msg("eof")>> \in Seq(Quiet(j)) /\ <<SnapMsg(v)>> \in Seq(Quiet(j))
<1>1. SnapMsg(v) \in Quiet(j)
  BY DEF SnapMsg, Quiet, MsgFor
<1>2. Msg("eof") \in Quiet(j)
  BY QuietMessages
<1> QED BY <1>1, <1>2

(* The child for j has ended; it has written ms.                           *)
LEMMA ChildEndsSingle ==
    ASSUME WriterInv, MigrationInv', NEW j \in Job, NEW ms \in Seq(MsgFor(j)),
           ms \in Seq(Quiet(j)), NEW l, l = ToTarget(link[j], ms),
           link' = [link EXCEPT ![j] = l], exp' = [exp EXCEPT ![j] = exp[j]],
           imp' = [imp EXCEPT ![j] = imp[j]], risk' = risk, mode' = mode, bus' = bus,
           \A m \in Node : node'[m].owner = node[m].owner
    PROVE  WriterInv'
<1>1. link[j] \in LinkType(j)
  BY WriterFacts, SameJob
<1>2. l.dst = link[j].dst /\ (link[j].tot \in Seq(Quiet(j)) => l.tot \in Seq(Quiet(j)))
  BY <1>1, WrittenCalm
<1>3. CalmJob(j, exp[j], link[j], imp[j], exp[j], l, imp[j])
  BY <1>2 DEF CalmJob, HasToken
<1> QED BY <1>3, JobCalm

(* The child writes for its export.                                        *)
LEMMA ChildSingle ==
    ASSUME WriterInv, MigrationInv', NEW n \in Node, ChildWrites(n) \/ ChildFails(n)
    PROVE  WriterInv'
<1> DEFINE c == node[n].child
           j == c.job
           full == <<SnapMsg(c.v), Msg("eof")>>
           part == <<SnapMsg(c.v)>>
<1>0. MigrationInv /\ NodeOK(n, node[n]) /\ c # None
  BY WriterFacts, InvFacts DEF ChildWrites, ChildFails
<1>1. c.v \in Values(j) /\ j \in Job
  BY <1>0 DEF NodeOK, ChildOK, Exports
<1>2. /\ full \in Seq(Quiet(j)) /\ part \in Seq(Quiet(j))
      /\ full \in Seq(MsgFor(j)) /\ part \in Seq(MsgFor(j))
  BY <1>1, SnapshotQuiet, SnapMsgOK
<1>3. \/ link' = [link EXCEPT ![j] = ToTarget(link[j], full)]
      \/ link' = [link EXCEPT ![j] = ToTarget(link[j], part)]
  BY <1>0, <1>1, InvFacts DEF ChildWrites, ChildFails
<1>4. \E d : node' = [node EXCEPT ![n] = [node[n] EXCEPT !.child = d]]
  BY <1>0, InvFacts DEF ChildWrites, ChildFails
<1>5. \A m \in Node : node'[m].owner = node[m].owner
  BY <1>0, <1>4, InvFacts DEF NodeOK
<1>6. /\ exp' = [exp EXCEPT ![j] = exp[j]] /\ imp' = [imp EXCEPT ![j] = imp[j]]
      /\ risk' = risk /\ mode' = mode /\ bus' = bus
  BY <1>0, <1>1, SameJob DEF ChildWrites, ChildFails
<1> HIDE DEF c, j, full, part
<1> QED BY <1>1, <1>2, <1>3, <1>5, <1>6, ChildEndsSingle

(* Exports that were snapshotting begin to stream.                         *)
LEMMA BeginStreamingCalm ==
    ASSUME NEW T, Good(T), NEW J, \A j \in J : j \in Job /\ T.exp[j].st = "snapshotting",
           NEW U, U = BeginStreaming(T, J)
    PROVE  Calm(T, U) /\ U.node = T.node
<1> DEFINE E == [j \in Job |-> IF j \in J THEN [T.exp[j] EXCEPT !.st = "streaming", !.pend = TRUE]
                               ELSE T.exp[j]]
<1>1. U = [T EXCEPT !.exp = E]
  BY DEF BeginStreaming
<1>2. /\ U.exp = E /\ U.node = T.node /\ U.imp = T.imp /\ U.link = T.link
      /\ U.risk = T.risk
  BY <1>1 DEF Good, IsState
<1>3. /\ \A j \in J : U.exp[j] = [T.exp[j] EXCEPT !.st = "streaming", !.pend = TRUE]
      /\ \A j \in Job \ J : U.exp[j] = T.exp[j]
  BY <1>2
<1> HIDE DEF E
<1>4. ASSUME NEW j \in J PROVE U.exp[j].st = "streaming" /\ U.exp[j].out = T.exp[j].out
  <2> DEFINE f == T.exp[j]
  <2>1. f \in ExportType(j)
    BY DEF Good, JobsOK, JobOK
  <2>2. U.exp[j] = [f EXCEPT !.st = "streaming", !.pend = TRUE]
    BY <1>3
  <2> HIDE DEF f
  <2>3. U.exp[j].st = "streaming" /\ U.exp[j].out = f.out
    BY <2>1, <2>2 DEF ExportType
  <2> QED BY <2>3 DEF f
<1>5. ASSUME NEW j \in Job
      PROVE  /\ Token(U, j) => Token(T, j)
             /\ U.exp[j].st \in ExportInProgress => T.exp[j].st \in ExportInProgress
             /\ T.exp[j].st = "granted" => U.exp[j].st = "granted"
             /\ U.exp[j].st \in Waiting => T.exp[j].st \in Waiting /\ U.exp[j].out = T.exp[j].out
  <2>1. CASE j \in J
    <3>1. U.exp[j].st = "streaming" /\ U.exp[j].out = T.exp[j].out /\ T.exp[j].st = "snapshotting"
      BY <1>4, <2>1
    <3> QED BY <1>2, <3>1 DEF Token, HasToken, ExportInProgress, Waiting
  <2>2. CASE j \notin J
    BY <1>2, <1>3, <2>2 DEF Token
  <2> QED BY <2>1, <2>2
<1> QED BY <1>2, <1>5 DEF Calm

(* The child is waited for.                                                *)
LEMMA SnapshotDoneSingle ==
    ASSUME WriterInv, MigrationInv', NEW n \in Node, BackgroundSlotMigrationDone(n)
    PROVE  WriterInv'
<1> DEFINE J == {j \in Exports(n) : exp[j].st = "snapshotting"}
           A == [State EXCEPT !.node[n].child = None, !.node[n].pipe = FALSE]
           nd == [node[n] EXCEPT !.child = None, !.pipe = FALSE]
<1>0. /\ mode' = mode /\ bus' = bus /\ "failed" \in Finished /\ "failed" # "success"
      /\ J \subseteq Exports(n)
      /\ \A j \in J : j \in Job /\ exp[j].st = "snapshotting"
      /\ MigrationInv /\ Good(State) /\ mode \in Modes
  BY WriterFacts DEF BackgroundSlotMigrationDone, Finished, Exports
<1>1. NodeOK(n, node[n])
  BY <1>0, InvFacts
<1>2. WithNode(State, A, n, nd) /\ A.exp = exp
  BY <1>0, InvFacts DEF WithNode, IsRecord, State
<1>3. NodeOK(n, nd) /\ nd.owner = node[n].owner /\ nd.val = node[n].val /\ nd.child = None
  BY <1>1 DEF NodeOK, ChildOK
<1>4. nd.paused = node[n].paused
  BY <1>1 DEF NodeOK
<1>5. Apply(BeginStreaming(A, J)) \/ Apply(FinishExports(A, n, J, "failed"))
  BY Zenon DEF BackgroundSlotMigrationDone
<1> HIDE DEF A, nd, J
<1>6. PauseKept(State, n, nd) /\ ChildFed(State, nd)
  BY <1>3, <1>4, StateFacts DEF PauseKept, ChildFed
<1>7. /\ Good(A) /\ KeepsKeys(State, A) /\ A.exp = State.exp /\ A.imp = State.imp
      /\ A.link = State.link /\ A.risk = State.risk
  BY <1>0, <1>2, <1>3, <1>6, StateFacts, NodeChanges
<1>8. Calm(State, A)
  BY <1>0, <1>7, CalmNodes DEF KeepsKeys
<1>9. Calm(A, BeginStreaming(A, J))
  BY <1>0, <1>2, <1>7, BeginStreamingCalm
<1>10. Calm(A, FinishExports(A, n, J, "failed"))
  BY <1>0, <1>7, FinishExportsCalm
<1>11. Calm(State, BeginStreaming(A, J)) /\ Calm(State, FinishExports(A, n, J, "failed"))
  BY <1>0, <1>8, <1>9, <1>10, CalmTransitive
<1> QED BY <1>0, <1>5, <1>11, CalmApplied

(* A write of a client.                                                    *)
LEMMA WriteSingle ==
    ASSUME WriterInv, MigrationInv', NEW n \in Node, NEW s \in Slot, Write(n, s)
    PROVE  WriterInv'
<1> DEFINE w == writes + 1
           J == {j \in Exports(n) : s \in Slots(j) /\ link[j].src /\ Fed(exp[j])}
           U == [node |-> node', exp |-> exp', imp |-> imp', link |-> link',
                 risk |-> risk', asserts |-> asserts']
<1>0. /\ mode' = mode /\ bus' = bus /\ w \in Nat /\ MigrationInv /\ mode \in Modes
      /\ exp' = [j \in Job |-> IF j \in J THEN Say(exp[j], DataMsg(s, w)) ELSE exp[j]]
      /\ link' = link /\ imp' = imp /\ risk' = risk
  BY WriterFacts DEF Write, MigrationInv
<1>1. NodeOK(n, node[n])
  BY <1>0, InvFacts
<1>2. \A m \in Node : node'[m].owner = node[m].owner
  BY <1>0, <1>1, InvFacts DEF NodeOK, Write
<1>3. Apply(U)
  BY DEF Apply
<1>4. /\ U.exp = exp' /\ U.link = link /\ U.imp = imp /\ U.risk = risk /\ U.node = node'
  BY <1>0
<1> HIDE DEF U
<1>5. ASSUME NEW j \in Job
      PROVE  /\ Token(U, j) => Token(State, j)
             /\ U.exp[j].st = exp[j].st
             /\ U.exp[j].st \in Waiting => U.exp[j].out = exp[j].out
  <2>1. CASE j \in J
    <3>1. DataMsg(s, w) \in Quiet(j)
      BY <1>0, <2>1 DEF DataMsg, MsgFor, Quiet
    <3>2. U.exp[j] = Say(exp[j], DataMsg(s, w)) /\ exp[j] \in ExportType(j) /\ Fed(exp[j])
      BY <1>0, <1>4, <2>1, SameJob
    <3> HIDE DEF w
    <3>3. /\ U.exp[j].st = exp[j].st
          /\ HasToken(j, U.exp[j], link[j], imp[j]) => HasToken(j, exp[j], link[j], imp[j])
      BY <3>1, <3>2, SayCalm
    <3> QED BY <1>4, <3>2, <3>3, StateFacts DEF Token, Fed, Waiting
  <2>2. CASE j \notin J
    <3>1. U.exp[j] = exp[j]
      BY <1>0, <1>4, <2>2
    <3> QED BY <1>4, <3>1, StateFacts DEF Token
  <2> QED BY <2>1, <2>2
<1> HIDE DEF J
<1>6. Calm(State, U)
  <2>1. \A j \in Job : node'[Src(j)].owner = node[Src(j)].owner
    BY <1>0, <1>2, ModeFacts
  <2> QED BY <1>2, <1>4, <1>5, <2>1, StateFacts DEF Calm
<1> QED BY <1>0, <1>3, <1>6, CalmApplied

(* slotExportTryDoPause.                                                   *)
LEMMA TryDoPauseSingle ==
    ASSUME WriterInv, MigrationInv', mode' = mode, bus' = bus,
           NEW T, Good(T), Calm(State, T), NEW j \in Job,
           T.exp[j].st \in {"streaming", "wait_pause"}, TryDoPause(T, j)
    PROVE  WriterInv'
<1> DEFINE n == Src(j)
           f == [T.exp[j] EXCEPT !.st = "paused", !.mf = "armed"]
           e == Say(f, Msg("paused"))
           g == [T.exp[j] EXCEPT !.st = "wait_pause"]
           P == Paused(T, j)
           W == [T EXCEPT !.exp[j].st = "wait_pause"]
<1>1. n \in Node /\ T.exp[j] \in ExportType(j) /\ mode \in Modes
  BY ModeFacts DEF Good, JobsOK, JobOK
<1>2. NodeOK(n, T.node[n]) /\ IsState(T)
  BY <1>1 DEF Good, NodesOK
<1>3. /\ f \in ExportType(j) /\ f.st = "paused" /\ f.out = T.exp[j].out
      /\ g.st = "wait_pause" /\ g.out = T.exp[j].out
  <2> DEFINE h == T.exp[j]
  <2>1. h \in ExportType(j) /\ f = [h EXCEPT !.st = "paused", !.mf = "armed"]
        /\ g = [h EXCEPT !.st = "wait_pause"]
    BY <1>1
  <2> HIDE DEF h, f, g
  <2>2. /\ f \in ExportType(j) /\ f.st = "paused" /\ f.out = h.out
        /\ g.st = "wait_pause" /\ g.out = h.out
    BY <2>1 DEF ExportType, ExportInProgress
  <2> QED BY <2>2 DEF h
<1>4. WithJob(T, W, j, g, T.link[j], T.imp[j])
  BY <1>2 DEF WithJob, IsRecord, IsState
<1>5. /\ P.exp = [T.exp EXCEPT ![j] = e] /\ P.link = [T.link EXCEPT ![j] = T.link[j]]
      /\ P.imp = [T.imp EXCEPT ![j] = T.imp[j]] /\ P.risk = T.risk
      /\ P.node = [T.node EXCEPT ![n] = [T.node[n] EXCEPT !.paused = TRUE]]
  <2> HIDE DEF e
  <2>1. P = [T EXCEPT !.node[n].paused = TRUE, !.exp[j] = e]
    BY DEF Paused, e
  <2> HIDE DEF P
  <2> QED BY <2>1, <1>1, <1>2 DEF IsState
<1>6. Apply(P) \/ Apply(W)
  BY Zenon DEF TryDoPause
<1>7. \A m \in Node : P.node[m].owner = T.node[m].owner
  <2> HIDE DEF P
  <2> QED BY <1>1, <1>2, <1>5 DEF NodeOK, IsState
<1> HIDE DEF f, g, P, W, n
<1>8. Msg("paused") \in Quiet(j)
  BY QuietMessages
<1>9. /\ e.st = f.st
      /\ HasToken(j, e, T.link[j], T.imp[j]) => HasToken(j, f, T.link[j], T.imp[j])
  BY <1>3, <1>8, SayCalm
<1> HIDE DEF e
<1>10. CalmJob(j, T.exp[j], T.link[j], T.imp[j], e, T.link[j], T.imp[j])
  BY <1>3, <1>9 DEF CalmJob, HasToken, Waiting, ExportInProgress
<1>11. CalmJob(j, T.exp[j], T.link[j], T.imp[j], g, T.link[j], T.imp[j])
  BY <1>3 DEF CalmJob, HasToken, Waiting, ExportInProgress
<1>12. Calm(T, W)
  BY <1>4, <1>11, CalmOne
<1>13. CalmMove(T, P, j, e, T.link[j], T.imp[j])
  BY <1>5, <1>7, <1>10 DEF CalmMove
<1>14. Calm(T, P)
  BY <1>13, CalmBoth
<1>15. Calm(State, P) /\ Calm(State, W)
  BY <1>1, <1>12, <1>14, CalmTransitive
<1> QED BY <1>6, <1>15, CalmApplied

(* REQUEST-PAUSE arrives.                                                  *)
LEMMA RequestPauseSingle ==
    ASSUME WriterInv, MigrationInv', NEW j \in Job, RequestPause(j)
    PROVE  WriterInv'
<1> DEFINE R == Read(j)
           B == BeginStreaming(R, {j})
<1>0. /\ mode' = mode /\ bus' = bus /\ Received(j, "request_pause")
      /\ "failed" \in Finished /\ "failed" # "success" /\ MigrationInv /\ mode \in Modes
  BY WriterFacts DEF RequestPause, Finished
<1>1. Good(R) /\ Calm(State, R) /\ R.exp = exp
  BY <1>0, ReadCalm
<1>2. CASE exp[j].st = "streaming"
  <2>1. TryDoPause(R, j)
    BY <1>2 DEF RequestPause
  <2> HIDE DEF R
  <2> QED BY <1>0, <1>1, <1>2, <2>1, TryDoPauseSingle
<1>3. CASE exp[j].st = "snapshotting"
  <2>1. TryDoPause(B, j)
    BY <1>3 DEF RequestPause
  <2>2. B.exp[j].st = "streaming"
    <3>1. R \in [node : {R.node}, exp : {R.exp}, imp : {R.imp}, link : {R.link},
                 risk : SUBSET Slot, asserts : {R.asserts}]
      BY <1>1 DEF Good, IsState
    <3>2. exp[j] \in ExportType(j)
      BY <1>0, SameJob
    <3> HIDE DEF R
    <3> QED BY <1>1, <3>1, <3>2 DEF BeginStreaming, ExportType
  <2> HIDE DEF R
  <2>3. \A k \in {j} : k \in Job /\ R.exp[k].st = "snapshotting"
    BY <1>1, <1>3
  <2>4. Good(B) /\ Calm(R, B)
    BY <1>1, <1>3, <2>3, BeginStreamingOK, BeginStreamingCalm
  <2> HIDE DEF B
  <2>5. Calm(State, B)
    BY <1>0, <1>1, <2>4, CalmTransitive
  <2> QED BY <1>0, <2>1, <2>2, <2>4, <2>5, TryDoPauseSingle
<1>4. CASE exp[j].st \notin {"streaming", "snapshotting"}
  <2>1. Apply(FinishExport(R, j, "failed"))
    BY <1>4 DEF RequestPause
  <2> HIDE DEF R
  <2> QED BY <1>0, <1>1, <2>1, FinishCalm
<1> QED BY <1>2, <1>3, <1>4

(* The output of a job that waits to pause may have become small enough.   *)
LEMMA WaitingToPauseSingle ==
    ASSUME WriterInv, MigrationInv', NEW j \in Job, WaitingToPause(j)
    PROVE  WriterInv'
<1>1. /\ State.exp[j].st = "wait_pause" /\ TryDoPause(State, j) /\ mode' = mode
      /\ bus' = bus /\ Good(State) /\ Calm(State, State)
  BY StateFacts, WriterFacts, CalmReflexive DEF WaitingToPause
<1> QED BY <1>1, TryDoPauseSingle

(* The deadline of a job passes.                                           *)
LEMMA DeadlinePassesSingle ==
    ASSUME WriterInv, MigrationInv', NEW j \in Job, DeadlinePasses(j)
    PROVE  WriterInv'
<1> DEFINE e == [exp[j] EXCEPT !.mf = "late"]
<1>0. MigrationInv
  BY WriterFacts
<1>1. exp' = [exp EXCEPT ![j] = e]
  BY <1>0, InvFacts DEF DeadlinePasses
<1>2. e.st = exp[j].st /\ e.out = exp[j].out
  BY <1>0, SameJob DEF ExportType
<1> HIDE DEF e
<1>3. CalmJob(j, exp[j], link[j], imp[j], e, link[j], imp[j])
  BY <1>2 DEF CalmJob, HasToken
<1>4. /\ mode' = mode /\ bus' = bus /\ node' = node /\ risk' = risk
      /\ link' = [link EXCEPT ![j] = link[j]] /\ imp' = [imp EXCEPT ![j] = imp[j]]
  BY <1>0, SameJob DEF DeadlinePasses
<1> QED BY <1>1, <1>3, <1>4, JobCalm

(* The pause runs out, or epochs change.                                   *)
LEMMA NodeStepsSingle ==
    ASSUME WriterInv, MigrationInv', NEW n \in Node, PauseExpires(n) \/ BumpEpoch(n)
    PROVE  WriterInv'
<1>0. MigrationInv
  BY WriterFacts
<1>1. NodeOK(n, node[n]) /\ node = [m \in Node |-> node[m]]
  BY <1>0, InvFacts
<1>2. /\ mode' = mode /\ bus' = bus /\ exp' = exp /\ link' = link /\ imp' = imp
      /\ risk \subseteq risk'
  BY DEF PauseExpires, BumpEpoch
<1>3. CASE PauseExpires(n)
  <2>1. \A m \in Node : node'[m].owner = node[m].owner
    BY <1>1, <1>3 DEF NodeOK, PauseExpires
  <2> QED BY <1>2, <2>1, NodeCalm
<1>4. CASE BumpEpoch(n)
  <2>1. node' = [node EXCEPT ![n] = Bumped(node[n], n)]
    BY <1>4 DEF BumpEpoch
  <2>2. Bumped(node[n], n).owner = node[n].owner
    BY <1>1, BumpedOK
  <2>3. \A m \in Node : node'[m].owner = node[m].owner
    BY <1>1, <2>1, <2>2
  <2> QED BY <1>2, <2>3, NodeCalm
<1> QED BY <1>3, <1>4

(* Executing a command alone.  A FAILOVER-GRANTED was on its way.          *)
LEMMA ExecutedCalm ==
    ASSUME WriterInv, NEW j \in Job, NEW k, Arrives(j, k),
           NEW l, l = [link[j] EXCEPT !.tot = Tail(@)]
    PROVE  /\ l \in LinkType(j) /\ l.dst = link[j].dst
           /\ link[j].tot \in Seq(Quiet(j)) => l.tot \in Seq(Quiet(j)) /\ k # "granted"
           /\ link[j].dst
           /\ Good(Executed(j)) /\ Calm(State, Executed(j))
           /\ Executed(j).exp = exp /\ Executed(j).node = node /\ Executed(j).imp = imp
<1>0. MigrationInv /\ Good(State)
  BY WriterFacts
<1>1. /\ l \in LinkType(j) /\ l.dst = link[j].dst /\ link[j].dst
      /\ Head(link[j].tot).k = k
      /\ WithJob(State, Executed(j), j, exp[j], l, imp[j])
  BY <1>0, ExecutedFacts
<1>2. l.tot = Tail(link[j].tot) /\ link[j].tot # <<>>
  BY <1>0, SameJob DEF LinkType, Arrives
<1>3. link[j].tot \in Seq(Quiet(j)) =>
        Tail(link[j].tot) \in Seq(Quiet(j)) /\ Head(link[j].tot) \in Quiet(j)
  BY <1>2, TailOK
<1>4. link[j].tot \in Seq(Quiet(j)) => l.tot \in Seq(Quiet(j)) /\ k # "granted"
  BY <1>1, <1>2, <1>3 DEF Quiet
<1>5. CalmJob(j, State.exp[j], State.link[j], State.imp[j], exp[j], l, imp[j])
  BY <1>1, <1>4, StateFacts DEF CalmJob, HasToken
<1>6. Calm(State, Executed(j))
  BY <1>0, <1>1, <1>5, CalmOne
<1>7. Good(Executed(j)) /\ Executed(j).exp = exp /\ Executed(j).node = node /\ Executed(j).imp = imp
  BY <1>0, ExecutedOK
<1> QED BY <1>1, <1>4, <1>6, <1>7

(* An import answers, and what it goes to was granted already if it was.   *)
LEMMA ImportSingle ==
    ASSUME WriterInv, MigrationInv', NEW j \in Job, NEW i, NEW l,
           l.dst = link[j].dst, i = "granted" => HasToken(j, exp[j], link[j], imp[j]),
           link[j].dst /\ link[j].tot \in Seq(Quiet(j)) => l.tot \in Seq(Quiet(j)),
           exp' = exp, link' = [link EXCEPT ![j] = l],
           imp' = [imp EXCEPT ![j] = i], node' = node, risk' = risk,
           mode' = mode, bus' = bus
    PROVE  WriterInv'
<1>1. exp' = [exp EXCEPT ![j] = exp[j]]
  BY WriterFacts, SameJob
<1>2. CalmJob(j, exp[j], link[j], imp[j], exp[j], l, i)
  BY DEF CalmJob, HasToken
<1> QED BY <1>1, <1>2, JobCalm

(* ESTABLISH arrives.                                                      *)
LEMMA EstablishSingle ==
    ASSUME WriterInv, MigrationInv', NEW j \in Job, SyncSlotsEstablish(j)
    PROVE  WriterInv'
<1> DEFINE l == [link[j] EXCEPT !.tot = Tail(@)]
           T == Executed(j)
           ok == ToSource(l, "ok")
           no == ToSource(l, "error")
<1>0. mode' = mode /\ bus' = bus /\ Arrives(j, "establish") /\ MigrationInv
  BY WriterFacts DEF SyncSlotsEstablish
<1>1. /\ l \in LinkType(j) /\ l.dst = link[j].dst
      /\ link[j].tot \in Seq(Quiet(j)) => l.tot \in Seq(Quiet(j))
  BY <1>0, ExecutedCalm
<1>2. \/ Apply([T EXCEPT !.imp[j] = "wait_ack", !.link[j] = ToSource(@, "ok")])
      \/ Apply([T EXCEPT !.link[j] = ToSource(@, "error")])
  BY Zenon DEF SyncSlotsEstablish
<1>3. "ok" \in Reply /\ "error" \in Reply
  BY DEF Reply
<1>4. \/ /\ exp' = exp /\ link' = [link EXCEPT ![j] = ok] /\ node' = node
         /\ imp' = [imp EXCEPT ![j] = "wait_ack"] /\ risk' = risk
      \/ /\ exp' = exp /\ link' = [link EXCEPT ![j] = no] /\ node' = node
         /\ imp' = [imp EXCEPT ![j] = imp[j]] /\ risk' = risk
  BY <1>0, <1>2, InvFacts DEF Apply, Executed, State
<1> HIDE DEF l
<1>5. ok.dst = l.dst /\ ok.tot = l.tot /\ no.dst = l.dst /\ no.tot = l.tot
  BY <1>1, <1>3, ToSourceOK
<1> HIDE DEF ok, no
<1>6. imp[j] = "granted" => HasToken(j, exp[j], link[j], imp[j])
  BY DEF HasToken
<1>7. CASE /\ exp' = exp /\ link' = [link EXCEPT ![j] = ok] /\ node' = node
           /\ imp' = [imp EXCEPT ![j] = "wait_ack"] /\ risk' = risk
  BY <1>0, <1>1, <1>5, <1>7, ImportSingle
<1>8. CASE /\ exp' = exp /\ link' = [link EXCEPT ![j] = no] /\ node' = node
           /\ imp' = [imp EXCEPT ![j] = imp[j]] /\ risk' = risk
  BY <1>0, <1>1, <1>5, <1>6, <1>8, ImportSingle
<1> QED BY <1>4, <1>7, <1>8

(* ACK arrives.                                                            *)
LEMMA AckSingle ==
    ASSUME WriterInv, MigrationInv', NEW j \in Job, SyncSlotsAck(j)
    PROVE  WriterInv'
<1> DEFINE l == [link[j] EXCEPT !.tot = Tail(@)]
           i == IF imp[j] = "wait_ack" THEN "snapshot" ELSE imp[j]
<1>0. mode' = mode /\ bus' = bus /\ Arrives(j, "ack") /\ MigrationInv
  BY WriterFacts DEF SyncSlotsAck
<1>1. /\ l.dst = link[j].dst
      /\ link[j].tot \in Seq(Quiet(j)) => l.tot \in Seq(Quiet(j))
  BY <1>0, ExecutedCalm
<1>2. /\ exp' = exp /\ link' = [link EXCEPT ![j] = l] /\ node' = node
      /\ imp' = [imp EXCEPT ![j] = i] /\ risk' = risk
  BY <1>0, InvFacts DEF SyncSlotsAck, Apply, Executed, State
<1>3. i = "granted" => HasToken(j, exp[j], link[j], imp[j])
  BY DEF HasToken
<1> HIDE DEF l, i
<1> QED BY <1>0, <1>1, <1>2, <1>3, ImportSingle

(* SNAPSHOT-EOF or PAUSED arrives.                                         *)
LEMMA MarkerSingle ==
    ASSUME WriterInv, MigrationInv', NEW j \in Job, NEW k, NEW from,
           NEW answer \in Reply, NEW to, to # "granted", Marker(j, k, from, answer, to)
    PROVE  WriterInv'
<1> DEFINE f == [link[j] EXCEPT !.tot = Tail(@)]
           l == ToSource(f, answer)
<1>0. mode' = mode /\ bus' = bus /\ Arrives(j, k) /\ MigrationInv
  BY WriterFacts DEF Marker
<1>1. /\ f \in LinkType(j) /\ f.dst = link[j].dst
      /\ link[j].tot \in Seq(Quiet(j)) => f.tot \in Seq(Quiet(j))
      /\ Good(Executed(j)) /\ Calm(State, Executed(j))
  BY <1>0, ExecutedCalm
<1>2. CASE imp[j] = from
  <2>1. /\ exp' = exp /\ link' = [link EXCEPT ![j] = l] /\ node' = node
        /\ imp' = [imp EXCEPT ![j] = to] /\ risk' = risk
    BY <1>0, <1>2, InvFacts DEF Marker, Apply, Executed, State
  <2> HIDE DEF f
  <2>2. l.dst = f.dst /\ l.tot = f.tot
    BY <1>1, ToSourceOK
  <2> HIDE DEF l
  <2> QED BY <1>0, <1>1, <2>1, <2>2, ImportSingle
<1>3. CASE imp[j] # from
  <2>1. Apply(FailImports(Executed(j), {j}))
    BY <1>3 DEF Marker
  <2> QED BY <1>0, <1>1, <2>1, FailCalm
<1> QED BY <1>2, <1>3

(* FAILOVER-GRANTED arrives: the right goes from the message to the import.*)
LEMMA FailoverGrantedSingle ==
    ASSUME WriterInv, MigrationInv', NEW j \in Job, SyncSlotsFailoverGranted(j)
    PROVE  WriterInv'
<1> DEFINE l == [link[j] EXCEPT !.tot = Tail(@)]
<1>0. mode' = mode /\ bus' = bus /\ Arrives(j, "granted") /\ MigrationInv
  BY WriterFacts DEF SyncSlotsFailoverGranted
<1>1. /\ l.dst = link[j].dst /\ link[j].dst /\ link[j].tot \notin Seq(Quiet(j))
      /\ Good(Executed(j)) /\ Calm(State, Executed(j))
  BY <1>0, ExecutedCalm
<1>2. CASE imp[j] = "requested"
  <2>1. /\ exp' = exp /\ link' = [link EXCEPT ![j] = l] /\ node' = node
        /\ imp' = [imp EXCEPT ![j] = "granted"] /\ risk' = risk
    BY <1>0, <1>2, InvFacts DEF SyncSlotsFailoverGranted, Apply, Executed, State
  <2>2. HasToken(j, exp[j], link[j], imp[j])
    BY <1>1 DEF HasToken
  <2> HIDE DEF l
  <2> QED BY <1>0, <1>1, <2>1, <2>2, ImportSingle
<1>3. CASE imp[j] # "requested"
  <2>1. Apply(FailImports(Executed(j), {j}))
    BY <1>3 DEF SyncSlotsFailoverGranted
  <2> QED BY <1>0, <1>1, <2>1, FailCalm
<1> QED BY <1>2, <1>3

(* Keys arrive.                                                            *)
LEMMA KeysSingle ==
    ASSUME WriterInv, MigrationInv', NEW j \in Job, LoadSnapshot(j) \/ ApplyWrite(j)
    PROVE  WriterInv'
<1> DEFINE l == [link[j] EXCEPT !.tot = Tail(@)]
           n == Dst(j)
<1>0. /\ mode' = mode /\ bus' = bus /\ MigrationInv
      /\ \E k \in {"snap", "data"} : Arrives(j, k)
  BY WriterFacts DEF LoadSnapshot, ApplyWrite
<1>1. n \in Node /\ NodeOK(n, node[n]) /\ node = [m \in Node |-> node[m]]
  BY <1>0, InvFacts, ModeFacts
<1>2. /\ l.dst = link[j].dst
      /\ link[j].tot \in Seq(Quiet(j)) => l.tot \in Seq(Quiet(j))
  BY <1>0, ExecutedCalm
<1>3. PICK v : Apply([Executed(j) EXCEPT !.node[n].val = v])
  <2>1. CASE LoadSnapshot(j)
    BY <2>1, Zenon DEF LoadSnapshot
  <2>2. CASE ApplyWrite(j)
    <3> DEFINE h == Head(link[j].tot)
    <3>1. Apply([Executed(j) EXCEPT !.node[n].val =
                    [Executed(j).node[n].val EXCEPT ![h.s] = Append(@, h.w)]])
      BY <2>2, Zenon DEF ApplyWrite
    <3> QED BY <3>1
  <2> QED BY <2>1, <2>2
<1>4. /\ exp' = [exp EXCEPT ![j] = exp[j]] /\ link' = [link EXCEPT ![j] = l]
      /\ imp' = [imp EXCEPT ![j] = imp[j]] /\ risk' = risk
      /\ node' = [node EXCEPT ![n] = [node[n] EXCEPT !.val = v]]
  BY <1>0, <1>1, <1>3, InvFacts DEF Apply, Executed, State
<1>5. \A m \in Node : node'[m].owner = node[m].owner
  BY <1>1, <1>4 DEF NodeOK
<1> HIDE DEF l
<1>6. CalmJob(j, exp[j], link[j], imp[j], exp[j], l, imp[j])
  BY <1>2 DEF CalmJob, HasToken
<1> QED BY <1>0, <1>4, <1>5, <1>6, JobCalm

(* Steps that only fail an import.                                         *)
LEMMA ImportEndsSingle ==
    ASSUME WriterInv, MigrationInv', NEW j \in Job, ImportFails(j) \/ ImportTimesOut(j)
    PROVE  WriterInv'
<1>0. mode' = mode /\ bus' = bus
  BY DEF ImportFails, ImportTimesOut
<1>1. CASE ImportFails(j)
  <2>1. Apply(FailImports(Executed(j), {j})) /\ \E k \in {"snap", "data"} : Arrives(j, k)
    BY <1>1 DEF ImportFails
  <2>2. Good(Executed(j)) /\ Calm(State, Executed(j))
    BY <2>1, ExecutedCalm
  <2> QED BY <1>0, <2>1, <2>2, FailCalm
<1>2. CASE ImportTimesOut(j)
  <2>1. Apply(FailImports(State, {j}))
    BY <1>2 DEF ImportTimesOut
  <2> QED BY <1>0, <2>1, WriterFacts, CalmReflexive, FailCalm
<1> QED BY <1>1, <1>2

(* The source finds its connection closed.                                 *)
LEMMA SourceSeesCloseSingle ==
    ASSUME WriterInv, MigrationInv', NEW j \in Job, SourceSeesClose(j)
    PROVE  WriterInv'
<1> DEFINE n == Src(j)
           e == [exp[j] EXCEPT !.out = <<>>, !.pend = FALSE]
           l == CloseSource(link[j])
           c == KillChild(node[n].child, {j})
<1>0. /\ mode' = mode /\ bus' = bus /\ "failed" \in Finished /\ "failed" # "success"
      /\ MigrationInv
  BY WriterFacts DEF SourceSeesClose, Finished
<1>1. CASE exp[j].st = "granted"
  <2>1. Apply([State EXCEPT !.link[j] = CloseSource(@), !.exp[j].out = <<>>,
                            !.exp[j].pend = FALSE,
                            !.node[Src(j)].child = KillChild(@, {j})])
    BY <1>1 DEF SourceSeesClose
  <2>2. /\ exp' = [exp EXCEPT ![j] = e] /\ link' = [link EXCEPT ![j] = l]
        /\ imp' = [imp EXCEPT ![j] = imp[j]]
        /\ node' = [node EXCEPT ![n] = [node[n] EXCEPT !.child = c]] /\ risk' = risk
    BY <1>0, <2>1, InvFacts DEF Apply, State
  <2>3. n \in Node /\ NodeOK(n, node[n]) /\ node = [m \in Node |-> node[m]]
    BY <1>0, InvFacts, ModeFacts
  <2> HIDE DEF c
  <2>4. \A m \in Node : node'[m].owner = node[m].owner
    BY <2>2, <2>3 DEF NodeOK
  <2>5. e.st = "granted" /\ e.out = <<>>
    BY <1>0, <1>1, SameJob DEF ExportType
  <2>6. l.dst = link[j].dst /\ l.tot = link[j].tot
    BY <1>0, SameJob, CloseSourceOK
  <2>7. <<>> \in Seq(Quiet(j))
    OBVIOUS
  <2> HIDE DEF e, l
  <2>8. CalmJob(j, exp[j], link[j], imp[j], e, l, imp[j])
    BY <1>1, <2>5, <2>6, <2>7 DEF CalmJob, HasToken, Waiting
  <2> QED BY <1>0, <2>2, <2>4, <2>8, JobCalm
<1>2. CASE exp[j].st # "granted"
  <2>1. Apply(FinishExport(State, j, "failed"))
    BY <1>2 DEF SourceSeesClose
  <2> QED BY <1>0, <2>1, WriterFacts, CalmReflexive, FinishCalm
<1> QED BY <1>1, <1>2

(* The target finds its connection closed.                                 *)
LEMMA TargetSeesCloseSingle ==
    ASSUME WriterInv, MigrationInv', NEW j \in Job, TargetSeesClose(j)
    PROVE  WriterInv'
<1> DEFINE l == CloseTarget(link[j])
<1>0. mode' = mode /\ bus' = bus /\ MigrationInv
  BY WriterFacts DEF TargetSeesClose
<1>1. CASE imp[j] \in ImportInProgress
  <2>1. Apply(FailImports(State, {j}))
    BY <1>1 DEF TargetSeesClose
  <2> QED BY <1>0, <2>1, WriterFacts, CalmReflexive, FailCalm
<1>2. CASE imp[j] \notin ImportInProgress
  <2>1. Apply([State EXCEPT !.link[j] = CloseTarget(@)])
    BY <1>2 DEF TargetSeesClose
  <2>2. /\ exp' = [exp EXCEPT ![j] = exp[j]] /\ link' = [link EXCEPT ![j] = l]
        /\ imp' = [imp EXCEPT ![j] = imp[j]] /\ node' = node /\ risk' = risk
    BY <1>0, <2>1, InvFacts DEF Apply, State
  <2>3. l.dst = FALSE
    BY <1>0, SameJob, CloseTargetOK
  <2> HIDE DEF l
  <2>4. CalmJob(j, exp[j], link[j], imp[j], exp[j], l, imp[j])
    BY <2>3 DEF CalmJob, HasToken
  <2> QED BY <1>0, <2>2, <2>4, JobCalm
<1> QED BY <1>1, <1>2

(* The connection breaks: what was on its way is lost.                     *)
LEMMA LinkBreaksSingle ==
    ASSUME WriterInv, MigrationInv', NEW j \in Job, LinkBreaks(j)
    PROVE  WriterInv'
<1> DEFINE l == [link[j] EXCEPT !.cut = TRUE, !.tot = <<>>, !.tos = <<>>]
<1>0. MigrationInv
  BY WriterFacts
<1>1. link' = [link EXCEPT ![j] = l]
  BY <1>0, InvFacts DEF LinkBreaks
<1>2. <<>> \in Seq(Quiet(j))
  OBVIOUS
<1>3. l.dst = link[j].dst /\ l.tot = <<>>
  BY <1>0, SameJob DEF LinkType
<1> HIDE DEF l
<1>4. CalmJob(j, exp[j], link[j], imp[j], exp[j], l, imp[j])
  BY <1>2, <1>3 DEF CalmJob, HasToken
<1>5. /\ mode' = mode /\ bus' = bus /\ node' = node /\ risk' = risk
      /\ exp' = [exp EXCEPT ![j] = exp[j]] /\ imp' = [imp EXCEPT ![j] = imp[j]]
  BY <1>0, SameJob DEF LinkBreaks
<1> QED BY <1>1, <1>4, <1>5, JobCalm

(* CLUSTER CANCELSLOTMIGRATIONS.                                           *)
LEMMA CancelSingle ==
    ASSUME WriterInv, MigrationInv', NEW n \in Node, CancelSlotMigrations(n)
    PROVE  WriterInv'
<1> DEFINE J == {j \in Exports(n) : exp[j].st \in ExportInProgress}
           U == FinishExports(State, n, J, "cancelled")
<1>0. /\ mode' = mode /\ bus' = bus /\ "cancelled" \in Finished /\ "cancelled" # "success"
      /\ J \subseteq Exports(n) /\ Apply(U) /\ Good(State)
  BY WriterFacts DEF CancelSlotMigrations, Finished
<1> HIDE DEF J
<1>1. Calm(State, U)
  BY <1>0, FinishExportsCalm
<1> HIDE DEF U
<1> QED BY <1>0, <1>1, CalmApplied

(* FLUSHALL.                                                               *)
LEMMA FlushAllSingle ==
    ASSUME WriterInv, MigrationInv', NEW n \in Node, FlushAll(n)
    PROVE  WriterInv'
<1> DEFINE J == {j \in Exports(n) : exp[j].st \in ExportInProgress}
           I == {j \in Imports(n) : imp[j] \in ImportInProgress}
           F == FinishExports(State, n, J, "failed")
           A == FailImports(F, I)
           V == [s \in Slot |-> <<>>]
           U == [A EXCEPT !.node[n].val = V]
<1>0. /\ mode' = mode /\ bus' = bus /\ "failed" \in Finished /\ "failed" # "success"
      /\ J \subseteq Exports(n) /\ I \subseteq Job /\ Good(State) /\ mode \in Modes
  BY WriterFacts DEF FlushAll, Finished, Imports
<1>1. Apply(U)
  BY Zenon DEF FlushAll
<1> HIDE DEF J, I, V
<1>2. Good(F) /\ Calm(State, F)
  <2>1. Good(F)
    BY <1>0, FinishExportsOK
  <2>2. Calm(State, F)
    BY <1>0, FinishExportsCalm
  <2> QED BY <2>1, <2>2
<1> HIDE DEF F
<1>3. Good(A) /\ Calm(F, A)
  BY <1>0, <1>2, FailImportsOK, FailImportsCalm
<1> HIDE DEF A
<1>4. IsState(A) /\ NodeOK(n, A.node[n])
  BY <1>3 DEF Good, NodesOK
<1>5. /\ U.exp = A.exp /\ U.link = A.link /\ U.imp = A.imp /\ U.risk = A.risk
      /\ U.node = [A.node EXCEPT ![n] = [A.node[n] EXCEPT !.val = V]]
  BY <1>4 DEF IsState
<1> HIDE DEF U
<1>6. \A m \in Node : U.node[m].owner = A.node[m].owner
  BY <1>4, <1>5 DEF IsState, NodeOK
<1>7. Calm(A, U)
  <2>1. /\ U.exp = A.exp /\ U.link = A.link /\ U.imp = A.imp
        /\ A.risk \subseteq U.risk
    BY <1>5
  <2> QED BY <1>0, <1>6, <2>1, CalmNodes
<1>8. Calm(State, A)
  BY <1>0, <1>2, <1>3, CalmTransitive
<1>9. Calm(State, U)
  BY <1>0, <1>7, <1>8, CalmTransitive
<1> QED BY <1>0, <1>1, <1>9, CalmApplied

(* A restart.                                                              *)
LEMMA RestartSingle ==
    ASSUME WriterInv, MigrationInv', NEW n \in Node, Restart(n)
    PROVE  WriterInv'
<1>1. mode' = mode /\ bus' = bus /\ Apply(Died(State, n))
  BY DEF Restart
<1> QED BY <1>1, WriterFacts, CalmReflexive, DeathCalm

(* The keys of an import that has failed are deleted.                      *)
LEMMA CleanUpSingle ==
    ASSUME WriterInv, MigrationInv', NEW j \in Job, CleanUp(j)
    PROVE  WriterInv'
<1> DEFINE n == Dst(j)
           nd == DelKeysNotOwned(node[n], n, Slots(j))
           A == [State EXCEPT !.node[n] = nd]
           U == [A EXCEPT !.imp[j] = "failed", !.link[j] = CloseTarget(@)]
           l == CloseTarget(link[j])
<1>0. mode' = mode /\ bus' = bus /\ MigrationInv /\ State.node[n] = node[n]
  BY WriterFacts, StateFacts DEF CleanUp
<1>1. n \in Node /\ NodeOK(n, node[n]) /\ node = [m \in Node |-> node[m]]
  BY <1>0, InvFacts, ModeFacts
<1>2. Apply(FinishImport(State,
               [State EXCEPT !.node[n] = DelKeysNotOwned(@, n, Slots(j))], j, "failed"))
  BY DEF CleanUp
<1>3. Apply(FinishImport(State, A, j, "failed"))
  BY <1>0, <1>2
<1>4. Apply(U) \/ Apply(Died([State EXCEPT !.asserts = @ \cup {"propagate"}], n))
  BY <1>3, Zenon DEF FinishImport, PropagateSyncSlotsFinish
<1>5. CASE Apply(Died([State EXCEPT !.asserts = @ \cup {"propagate"}], n))
  <2> HIDE DEF n
  <2> QED BY <1>0, <1>1, <1>5, AssertCalm
<1>6. CASE Apply(U)
  <2>1. nd.owner = node[n].owner
    BY <1>1, DelKeysOK
  <2> HIDE DEF nd
  <2>2. /\ exp' = [exp EXCEPT ![j] = exp[j]] /\ link' = [link EXCEPT ![j] = l]
        /\ imp' = [imp EXCEPT ![j] = "failed"] /\ node' = [node EXCEPT ![n] = nd]
        /\ risk' = risk
    BY <1>0, <1>6, InvFacts DEF Apply, State
  <2>3. \A m \in Node : node'[m].owner = node[m].owner
    BY <1>1, <2>1, <2>2
  <2>4. l.dst = FALSE
    BY <1>0, SameJob, CloseTargetOK
  <2> HIDE DEF l
  <2>5. CalmJob(j, exp[j], link[j], imp[j], exp[j], l, "failed")
    BY <2>4 DEF CalmJob, HasToken
  <2> QED BY <1>0, <2>2, <2>3, <2>5, JobCalm
<1> QED BY <1>4, <1>5, <1>6

(* CLUSTER MIGRATESLOTS: only for slots that are owned and not exported.   *)
LEMMA MigrateSlotsSingle ==
    ASSUME WriterInv, MigrationInv', NEW j \in Job, MigrateSlots(j)
    PROVE  WriterInv'
<1> DEFINE e == [exp[j] EXCEPT !.st = "connecting"]
           U == [State EXCEPT !.exp = [exp EXCEPT ![j] = e]]
<1>0. /\ mode' = mode /\ bus' = bus /\ exp[j].st = "none" /\ MigrationInv /\ Single(State)
      /\ mode \in Modes /\ NoEcho'
  BY WriterFacts DEF MigrateSlots, WriterInv, NoEcho
<1>1. Apply(U)
  BY <1>0, InvFacts DEF MigrateSlots, Apply, State
<1>2. e.st = "connecting" /\ e.out = exp[j].out
  BY <1>0, SameJob DEF ExportType
<1> HIDE DEF e
<1>3. /\ U.node = node /\ U.link = link /\ U.imp = imp /\ U.risk = risk
      /\ U.exp[j] = e /\ \A k \in Job \ {j} : U.exp[k] = exp[k]
  BY <1>0, InvFacts DEF State
<1> HIDE DEF U
<1>4. \A k \in Job : U.exp[k].st = exp[k].st \/ k = j
  BY <1>3
<1>5. Home(U)
  <2> SUFFICES ASSUME NEW k \in Job, U.exp[k].st \in ExportInProgress, NEW s \in Slots(k)
               PROVE  node[Src(k)].owner[s] = Src(k)
    BY <1>3 DEF Home
  <2>1. CASE k = j
    BY <2>1 DEF MigrateSlots
  <2>2. CASE k # j
    BY <1>0, <1>4, <2>2, StateFacts DEF Single, Home
  <2> QED BY <2>1, <2>2
<1>6. ASSUME NEW k \in Job, k # j, Src(k) = Src(j), exp[k].st \in ExportInProgress,
             NEW s \in Slots(k), s \in Slots(j)
      PROVE  FALSE
  <2>1. k \in Exports(Src(j)) /\ ~IsSlotExporting(State, Src(j), s)
    BY <1>6 DEF Exports, MigrateSlots
  <2> QED BY <1>6, <2>1, StateFacts DEF IsSlotExporting
<1>7. Apart(U)
  <2> SUFFICES ASSUME NEW i \in Job, NEW k \in Job, i # k, Src(i) = Src(k),
                      NEW s \in Slots(i), s \in Slots(k),
                      U.exp[i].st \in ExportInProgress, U.exp[k].st \in ExportInProgress
               PROVE  FALSE
    BY DEF Apart
  <2>1. CASE i = j
    BY <1>4, <1>6, <2>1
  <2>2. CASE k = j
    BY <1>4, <1>6, <2>2
  <2>3. CASE i # j /\ k # j
    <3>1. Slots(i) \cap Slots(k) # {}
      OBVIOUS
    <3> QED BY <1>0, <1>4, <2>3, <3>1, StateFacts DEF Single, Apart
  <2> QED BY <2>1, <2>2, <2>3
<1>8. Fresh(U)
  <2> SUFFICES ASSUME NEW k \in Job, U.exp[k].st \in Waiting PROVE U.exp[k].out = <<>>
    BY DEF Fresh
  <2>1. exp[k].st \in Waiting /\ U.exp[k].out = exp[k].out
    BY <1>0, <1>2, <1>3 DEF Waiting
  <2> QED BY <1>0, <2>1, StateFacts DEF Single, Fresh
<1>9. \A k \in Job : Token(U, k) <=> Token(State, k)
  BY <1>2, <1>3, StateFacts DEF Token, HasToken
<1>10. \A k \in Job : U.exp[k].st = "granted" <=> exp[k].st = "granted"
  BY <1>0, <1>2, <1>3
<1>11. \A n \in Node, s \in Slot : Holds(U, n, s) => Holds(State, n, s)
  BY <1>3, <1>10, StateFacts DEF Holds, SlotFailoverGranted, Exports
<1>12. Sole(U)
  <2>1. \A s \in Slot \ U.risk :
            /\ \A n, m \in Node : Holds(State, n, s) /\ Holds(State, m, s) => n = m
            /\ \A n \in Node, k \in Job : Holds(State, n, s) /\ s \in Slots(k) => ~Token(State, k)
            /\ \A i, k \in Job :
                Token(State, i) /\ Token(State, k) /\ s \in Slots(i) /\ s \in Slots(k) => i = k
    BY <1>0, <1>3, StateFacts DEF Single, Sole
  <2> QED BY <1>9, <1>11, <2>1 DEF Sole
<1> QED BY <1>0, <1>1, <1>5, <1>7, <1>8, <1>12, SingleApplied DEF Single

(* The source of an export that has not granted the failover is the one    *)
(* that holds its slots, and nothing was granted to anybody.               *)
LEMMA ExportHolds ==
    ASSUME NEW T, mode \in Modes, Single(T), NEW j \in Job,
           T.exp[j].st \in ExportInProgress, T.exp[j].st # "granted",
           NEW s \in Slots(j), s \notin T.risk
    PROVE  /\ \A m \in Node : Holds(T, m, s) => m = Src(j)
           /\ \A k \in Job : s \in Slots(k) => ~Token(T, k)
<1>1. Src(j) \in Node /\ s \in Slot
  BY ModeFacts
<1>2. T.node[Src(j)].owner[s] = Src(j)
  BY DEF Single, Home
<1>3. ASSUME NEW k \in Exports(Src(j)), s \in Slots(k), T.exp[k].st = "granted"
      PROVE  FALSE
  <2>1. k \in Job /\ Src(k) = Src(j) /\ Slots(k) \cap Slots(j) # {}
    BY <1>3 DEF Exports
  <2>2. T.exp[k].st \in ExportInProgress
    BY <1>3 DEF ExportInProgress
  <2>3. k = j
    BY <2>1, <2>2 DEF Single, Apart
  <2> QED BY <1>3, <2>3
<1>4. Holds(T, Src(j), s)
  BY <1>2, <1>3 DEF Holds, SlotFailoverGranted
<1> QED BY <1>1, <1>4 DEF Single, Sole

(* REQUEST-FAILOVER arrives: the right goes from the source to a message.  *)
LEMMA RequestFailoverSingle ==
    ASSUME WriterInv, MigrationInv', NEW j \in Job, RequestFailover(j)
    PROVE  WriterInv'
<1> DEFINE f == [exp[j] EXCEPT !.st = "granted"]
           e == Say(f, Msg("granted"))
           R == Read(j)
           U == [R EXCEPT !.exp[j] = e]
<1>0. /\ mode' = mode /\ bus' = bus /\ Received(j, "request_failover")
      /\ "failed" \in Finished /\ "failed" # "success" /\ MigrationInv /\ mode \in Modes
      /\ NoEcho' /\ Single(State)
  BY WriterFacts DEF RequestFailover, Finished, WriterInv, NoEcho
<1>1. Good(R) /\ Calm(State, R) /\ R.exp = exp
  BY <1>0, ReadCalm
<1>2. Single(R)
  BY <1>0, <1>1, CalmSingle
<1>3. CASE MayGrant(j)
  <2>1. exp[j].st = "paused"
    BY <1>3, StateFacts DEF MayGrant
  <2>2. Apply(U)
    <3>1. Apply([R EXCEPT !.exp[j] = Say([@ EXCEPT !.st = "granted"], Msg("granted"))])
      BY <1>3 DEF RequestFailover
    <3> QED BY <1>1, <3>1
  <2>3. f \in ExportType(j) /\ f.st = "granted"
    BY <1>0, SameJob DEF ExportType, ExportInProgress
  <2>4. Fed(f) /\ Msg("granted") \in Control
    BY <2>3 DEF Fed, Msg, Control
  <2> HIDE DEF f
  <2>5. e.st = "granted"
    BY <2>3, <2>4, SayOK
  <2> HIDE DEF e, R
  <2>6. /\ U.node = R.node /\ U.link = R.link /\ U.imp = R.imp /\ U.risk = R.risk
        /\ U.exp[j] = e /\ \A k \in Job \ {j} : U.exp[k] = R.exp[k]
    BY <1>1 DEF Good, IsState
  <2> HIDE DEF U
  <2>7. R.exp[j].st = "paused" /\ U.exp[j].st = "granted"
    BY <1>1, <2>1, <2>5, <2>6
  <2>8. \A k \in Job : U.exp[k].st \in ExportInProgress <=> R.exp[k].st \in ExportInProgress
    BY <2>6, <2>7 DEF ExportInProgress
  <2>9. Home(U) /\ Apart(U)
    BY <1>2, <2>6, <2>8 DEF Single, Home, Apart
  <2>10. Fresh(U)
    BY <1>2, <2>6, <2>7 DEF Single, Fresh, Waiting
  <2>11. \A k \in Job \ {j} : Token(U, k) => Token(R, k)
    BY <2>6 DEF Token
  <2>12. ASSUME NEW n \in Node, NEW s \in Slot, Holds(U, n, s)
         PROVE  Holds(R, n, s) /\ (s \in Slots(j) => n # Src(j))
    <3>1. \A k \in Exports(n) : s \in Slots(k) => U.exp[k].st # "granted"
      BY <2>12 DEF Holds, SlotFailoverGranted
    <3>2. \A k \in Exports(n) : R.exp[k].st = "granted" => U.exp[k].st = "granted"
      BY <2>6, <2>7 DEF Exports
    <3>3. Src(j) = n => j \in Exports(n)
      BY DEF Exports
    <3> QED BY <2>6, <2>7, <2>12, <3>1, <3>2, <3>3 DEF Holds, SlotFailoverGranted
  <2>13. Sole(U)
    <3> SUFFICES ASSUME NEW s \in Slot, s \notin U.risk
                 PROVE  /\ \A n, m \in Node : Holds(U, n, s) /\ Holds(U, m, s) => n = m
                        /\ \A n \in Node, k \in Job :
                              Holds(U, n, s) /\ s \in Slots(k) => ~Token(U, k)
                        /\ \A i, k \in Job :
                              Token(U, i) /\ Token(U, k) /\ s \in Slots(i) /\ s \in Slots(k) => i = k
      BY DEF Sole
    <3>1. s \notin R.risk
      BY <2>6
    <3>2. CASE s \in Slots(j)
      <4>1. R.exp[j].st \in ExportInProgress /\ R.exp[j].st # "granted"
        BY <2>7 DEF ExportInProgress
      <4>2. /\ \A m \in Node : Holds(R, m, s) => m = Src(j)
            /\ \A k \in Job : s \in Slots(k) => ~Token(R, k)
        BY <1>0, <1>2, <3>1, <3>2, <4>1, ExportHolds
      <4>3. \A m \in Node : ~Holds(U, m, s)
        BY <2>12, <3>2, <4>2
      <4>4. \A k \in Job : s \in Slots(k) /\ Token(U, k) => k = j
        BY <2>11, <4>2
      <4> QED BY <4>3, <4>4
    <3>3. CASE s \notin Slots(j)
      <4>1. /\ \A n, m \in Node : Holds(R, n, s) /\ Holds(R, m, s) => n = m
            /\ \A n \in Node, k \in Job : Holds(R, n, s) /\ s \in Slots(k) => ~Token(R, k)
            /\ \A i, k \in Job :
                Token(R, i) /\ Token(R, k) /\ s \in Slots(i) /\ s \in Slots(k) => i = k
        BY <1>2, <3>1 DEF Single, Sole
      <4>2. \A n \in Node : Holds(U, n, s) => Holds(R, n, s)
        BY <2>12
      <4>3. \A k \in Job : s \in Slots(k) /\ Token(U, k) => Token(R, k)
        BY <2>11, <3>3
      <4>4. \A n, m \in Node : Holds(U, n, s) /\ Holds(U, m, s) => n = m
        BY <4>1, <4>2
      <4>5. \A n \in Node, k \in Job : Holds(U, n, s) /\ s \in Slots(k) => ~Token(U, k)
        BY <4>1, <4>2, <4>3
      <4>6. \A i, k \in Job :
              Token(U, i) /\ Token(U, k) /\ s \in Slots(i) /\ s \in Slots(k) => i = k
        BY <4>1, <4>3
      <4> QED BY <4>4, <4>5, <4>6
    <3> QED BY <3>2, <3>3
  <2> QED BY <1>0, <2>2, <2>9, <2>10, <2>13, SingleApplied DEF Single
<1>4. CASE ~MayGrant(j)
  <2>1. Apply(FinishExport(R, j, "failed"))
    BY <1>4 DEF RequestFailover
  <2> HIDE DEF R
  <2> QED BY <1>0, <1>1, <2>1, FinishCalm
<1> QED BY <1>3, <1>4

(* performSlotImportJobFailover: the right goes from the import to the     *)
(* target.                                                                 *)
LEMMA PerformFailoverSingle ==
    ASSUME WriterInv, MigrationInv', NEW j \in Job, PerformSlotImportJobFailover(j)
    PROVE  WriterInv'
<1> DEFINE n == Dst(j)
           b == Bumped(node[n], n)
           O == [s \in Slot |-> IF s \in Slots(j) THEN n ELSE b.owner[s]]
           nd == [b EXCEPT !.owner = O]
           A == [State EXCEPT !.node[n] = nd]
           U == [A EXCEPT !.imp[j] = "success", !.link[j] = CloseTarget(@)]
           l == CloseTarget(link[j])
<1>0. /\ mode' = mode /\ bus' = bus /\ MigrationInv /\ State.node[n] = node[n]
      /\ mode \in Modes /\ Single(State) /\ NoEcho' /\ imp[j] = "granted"
  BY WriterFacts, StateFacts DEF PerformSlotImportJobFailover, WriterInv, NoEcho
<1>1. /\ n \in Node /\ NodeOK(n, node[n]) /\ node = [m \in Node |-> node[m]]
      /\ Slots(j) \subseteq Slot
  BY <1>0, InvFacts, ModeFacts
<1>2. Apply(FinishImport(State, [State EXCEPT !.node[n] = Claim(@, n, Slots(j))], j, "success"))
  BY DEF PerformSlotImportJobFailover
<1>3. Claim(node[n], n, Slots(j)) = nd
  BY DEF Claim
<1>4. Apply(FinishImport(State, A, j, "success"))
  BY <1>0, <1>2, <1>3
<1>5. Apply(U) \/ Apply(Died([State EXCEPT !.asserts = @ \cup {"propagate"}], n))
  BY <1>4, Zenon DEF FinishImport, PropagateSyncSlotsFinish
<1>6. CASE Apply(Died([State EXCEPT !.asserts = @ \cup {"propagate"}], n))
  <2> HIDE DEF n
  <2> QED BY <1>0, <1>1, <1>6, AssertCalm
<1>7. CASE Apply(U)
  <2>1. NodeOK(n, b) /\ b.owner = node[n].owner
    BY <1>1, BumpedOK
  <2>2. /\ \A s \in Slots(j) : O[s] = n
        /\ \A s \in Slot \ Slots(j) : O[s] = node[n].owner[s]
    BY <1>1, <2>1
  <2> HIDE DEF b, O
  <2>3. nd.owner = O
    BY <2>1 DEF NodeOK
  <2> HIDE DEF nd
  <2>4. /\ U.exp = exp /\ U.risk = risk /\ U.node = [node EXCEPT ![n] = nd]
        /\ U.imp[j] = "success" /\ U.link[j] = l
        /\ \A k \in Job \ {j} : U.imp[k] = imp[k] /\ U.link[k] = link[k]
    BY <1>0, InvFacts DEF State
  <2>5. l.dst = FALSE
    BY <1>0, SameJob, CloseTargetOK
  <2> HIDE DEF U, l
  <2>6. \A k \in Job : Token(U, k) => Token(State, k) /\ k # j
    BY <2>4, <2>5, StateFacts DEF Token, HasToken
  <2>7. Token(State, j)
    BY <1>0, StateFacts DEF Token, HasToken
  <2>8. \A m \in Node, s \in Slot :
            \/ U.node[m].owner[s] = node[m].owner[s] /\ (s \notin Slots(j) \/ m # n)
            \/ m = n /\ s \in Slots(j) /\ U.node[m].owner[s] = n
    BY <1>1, <2>2, <2>3, <2>4
  <2>9. Home(U)
    <3> SUFFICES ASSUME NEW k \in Job, exp[k].st \in ExportInProgress, NEW s \in Slots(k)
                 PROVE  U.node[Src(k)].owner[s] = Src(k)
      BY <2>4 DEF Home
    <3>1. Src(k) \in Node /\ s \in Slot
      BY <1>0, ModeFacts
    <3>2. node[Src(k)].owner[s] = Src(k)
      BY <1>0, StateFacts DEF Single, Home
    <3> QED BY <2>8, <3>1, <3>2
  <2>10. Apart(U) /\ Fresh(U)
    BY <1>0, <2>4, StateFacts DEF Single, Apart, Fresh
  <2>11. ASSUME NEW m \in Node, NEW s \in Slot, Holds(U, m, s)
         PROVE  Holds(State, m, s) \/ (m = n /\ s \in Slots(j))
    BY <2>4, <2>8, <2>11, StateFacts DEF Holds, SlotFailoverGranted
  <2>12. Sole(U)
    <3> SUFFICES ASSUME NEW s \in Slot, s \notin U.risk
                 PROVE  /\ \A m, k \in Node : Holds(U, m, s) /\ Holds(U, k, s) => m = k
                        /\ \A m \in Node, k \in Job :
                              Holds(U, m, s) /\ s \in Slots(k) => ~Token(U, k)
                        /\ \A i, k \in Job :
                              Token(U, i) /\ Token(U, k) /\ s \in Slots(i) /\ s \in Slots(k) => i = k
      BY DEF Sole
    <3>1. /\ \A m, k \in Node : Holds(State, m, s) /\ Holds(State, k, s) => m = k
          /\ \A m \in Node, k \in Job : Holds(State, m, s) /\ s \in Slots(k) => ~Token(State, k)
          /\ \A i, k \in Job :
              Token(State, i) /\ Token(State, k) /\ s \in Slots(i) /\ s \in Slots(k) => i = k
      BY <1>0, <2>4, StateFacts DEF Single, Sole
    <3>2. CASE s \in Slots(j)
      <4>1. \A m \in Node : Holds(U, m, s) => m = n
        BY <2>7, <2>11, <3>1, <3>2
      <4>2. \A k \in Job : s \in Slots(k) => ~Token(U, k)
        BY <2>6, <2>7, <3>1, <3>2
      <4> QED BY <4>1, <4>2
    <3>3. CASE s \notin Slots(j)
      <4>1. \A m \in Node : Holds(U, m, s) => Holds(State, m, s)
        BY <2>11, <3>3
      <4>2. \A k \in Job : Token(U, k) => Token(State, k)
        BY <2>6
      <4>3. \A m, k \in Node : Holds(U, m, s) /\ Holds(U, k, s) => m = k
        BY <3>1, <4>1
      <4>4. \A m \in Node, k \in Job : Holds(U, m, s) /\ s \in Slots(k) => ~Token(U, k)
        BY <3>1, <4>1, <4>2
      <4>5. \A i, k \in Job :
              Token(U, i) /\ Token(U, k) /\ s \in Slots(i) /\ s \in Slots(k) => i = k
        BY <3>1, <4>2
      <4> QED BY <4>3, <4>4, <4>5
    <3> QED BY <3>2, <3>3
  <2> QED BY <1>0, <1>7, <2>9, <2>10, <2>12, SingleApplied DEF Single
<1> QED BY <1>5, <1>6, <1>7

(* A node that knows one owner of all slots of a job.                      *)
LEMMA OwnerOfAll ==
    ASSUME NEW T, Good(T), NEW n \in Node, NEW j \in Job, OwnerOf(T, n, j) \in Node
    PROVE  \A s \in Slots(j) : T.node[n].owner[s] = OwnerOf(T, n, j)
<1> DEFINE O == {T.node[n].owner[s] : s \in Slots(j)}
<1>1. T.node[n].owner \in [Slot -> Node] /\ Slots(j) \subseteq Slot
  BY ModeFacts DEF Good, NodesOK, NodeOK
<1>2. O \subseteq Node
  BY <1>1
<1>3. IsFiniteSet(O)
  BY <1>2, NodeAssumption, FS_Subset
<1>4. OwnerOf(T, n, j) = IF Cardinality(O) = 1 THEN CHOOSE o \in O : TRUE ELSE None
  BY DEF OwnerOf
<1>5. \A s \in Slots(j) : T.node[n].owner[s] \in O
  OBVIOUS
<1> HIDE DEF O
<1>6. Cardinality(O) = 1
  BY <1>4, NoneAssumption
<1>7. PICK x : O = {x}
  BY <1>3, <1>6, FS_Singleton
<1>8. OwnerOf(T, n, j) = x
  BY <1>4, <1>6, <1>7
<1> QED BY <1>5, <1>7, <1>8

(* The exports of a node that go on are those whose slots it still owns.   *)
LEMMA UpdateSlotExportsCalm ==
    ASSUME NEW T, Good(T), NEW n \in Node, NEW U, U = UpdateSlotExports(T, n)
    PROVE  /\ Good(U) /\ Calm(T, U) /\ KeepsKeys(T, U)
           /\ \A j \in Exports(n) : U.exp[j].st \in ExportInProgress =>
                \A s \in Slots(j) : U.node[n].owner[s] = n
<1> DEFINE J    == {j \in Exports(n) : T.exp[j].st \in ExportInProgress}
           done == {j \in J : OwnerOf(T, n, j) = Dst(j)}
           lost == {j \in J \ done : OwnerOf(T, n, j) # n}
           A    == FinishExports(T, n, done, "success")
<1>1. U = FinishExports(A, n, lost, "failed")
  BY Zenon DEF UpdateSlotExports
<1>2. /\ done \subseteq Exports(n) /\ lost \subseteq Exports(n)
      /\ "success" \in Finished /\ "failed" \in Finished /\ "failed" # "success"
      /\ mode \in Modes
  BY DEF Finished, Good
<1>3. \A j \in done : \A s \in Slots(j) : T.node[n].owner[s] # n
  <2> SUFFICES ASSUME NEW j \in done, NEW s \in Slots(j) PROVE T.node[n].owner[s] # n
    OBVIOUS
  <2>1. j \in Job /\ Src(j) = n /\ OwnerOf(T, n, j) = Dst(j)
    BY DEF Exports
  <2>2. Dst(j) \in Node /\ Dst(j) # n
    BY <1>2, <2>1, ModeFacts, TargetAssumption DEF Src, Dst
  <2> QED BY <2>1, <2>2, OwnerOfAll
<1>4. ASSUME NEW j \in Exports(n), T.exp[j].st \in ExportInProgress, j \notin done,
             j \notin lost, NEW s \in Slots(j)
      PROVE  T.node[n].owner[s] = n
  <2>1. j \in Job /\ OwnerOf(T, n, j) = n
    BY <1>4 DEF Exports
  <2> QED BY <2>1, OwnerOfAll
<1> HIDE DEF done, lost
<1>5. Good(A) /\ KeepsKeys(T, A) /\ EndsJobs(T, A, done, "success")
  BY <1>2, FinishExportsOK
<1>6. Calm(T, A)
  BY <1>2, <1>3, FinishExportsCalm
<1> HIDE DEF A
<1>7. Good(U) /\ KeepsKeys(A, U) /\ EndsJobs(A, U, lost, "failed")
  BY <1>1, <1>2, <1>5, FinishExportsOK
<1>8. Calm(A, U)
  BY <1>1, <1>2, <1>5, FinishExportsCalm
<1>9. Calm(T, U)
  BY <1>2, <1>6, <1>8, CalmTransitive
<1>10. KeepsKeys(T, U)
  BY <1>5, <1>7 DEF KeepsKeys
<1>11. ASSUME NEW j \in Exports(n), U.exp[j].st \in ExportInProgress, NEW s \in Slots(j)
       PROVE  U.node[n].owner[s] = n
  <2>1. j \in Job
    BY DEF Exports
  <2>2. j \notin lost
    BY <1>7, <1>11 DEF EndsJobs, ExportInProgress
  <2>3. U.exp[j] = A.exp[j]
    BY <1>7, <2>1, <2>2 DEF EndsJobs
  <2>4. j \notin done
    BY <1>5, <1>11, <2>3 DEF EndsJobs, ExportInProgress
  <2>5. T.exp[j] = A.exp[j]
    BY <1>5, <2>1, <2>4 DEF EndsJobs
  <2>6. T.node[n].owner[s] = n
    BY <1>4, <1>11, <2>2, <2>3, <2>4, <2>5
  <2> QED BY <1>10, <2>6 DEF KeepsKeys
<1> QED BY <1>7, <1>9, <1>10, <1>11

(* A change of owners, from T to A, and what follows from it, are calm if  *)
(* n gives slots away only and its exports go on for what it owns.         *)
LEMMA RebindCalm ==
    ASSUME mode \in Modes, NEW T, NEW A, NEW B, NEW n \in Node, Calm(A, B),
           A.exp = T.exp, A.link = T.link, A.imp = T.imp, A.risk = T.risk,
           \A m \in Node \ {n} : A.node[m].owner = T.node[m].owner,
           \A s \in Slot : A.node[n].owner[s] = n => T.node[n].owner[s] = n,
           \A m \in Node : B.node[m].owner = A.node[m].owner,
           \A j \in Exports(n) : B.exp[j].st \in ExportInProgress =>
                \A s \in Slots(j) : T.node[n].owner[s] = n => B.node[n].owner[s] = n
    PROVE  Calm(T, B)
<1>1. T.risk \subseteq B.risk
  BY DEF Calm
<1>2. \A m \in Node, s \in Slot : B.node[m].owner[s] = m => T.node[m].owner[s] = m
  OBVIOUS
<1>3. \A j \in Job : Token(A, j) <=> Token(T, j)
  BY DEF Token
<1>4. ASSUME NEW j \in Job, B.exp[j].st \in ExportInProgress, NEW s \in Slots(j),
             T.node[Src(j)].owner[s] = Src(j)
      PROVE  B.node[Src(j)].owner[s] = Src(j)
  <2>1. CASE Src(j) = n
    BY <1>4, <2>1 DEF Exports
  <2>2. CASE Src(j) # n
    BY <1>4, <2>2, ModeFacts
  <2> QED BY <2>1, <2>2
<1>5. ASSUME NEW j \in Job
      PROVE  /\ B.exp[j].st \in ExportInProgress => T.exp[j].st \in ExportInProgress
             /\ T.exp[j].st = "granted" /\ B.exp[j].st # "granted" =>
                  \A s \in Slots(j) : s \in B.risk \/ B.node[Src(j)].owner[s] # Src(j)
             /\ Token(B, j) => Token(A, j)
             /\ B.exp[j].st \in Waiting =>
                  B.exp[j].out = <<>> \/ (T.exp[j].st \in Waiting /\ B.exp[j].out = T.exp[j].out)
  BY DEF Calm
<1> QED BY <1>1, <1>2, <1>3, <1>4, <1>5 DEF Calm

(* clusterUpdateSlotsConfigWith gives slots to another node only.          *)
LEMMA UpdateSlotsConfigCalm ==
    ASSUME NEW T, Good(T), NEW n \in Node, NEW m \in Node, m # n, NEW p,
           NEW U, U = UpdateSlotsConfig(T, n, m, p)
    PROVE  Calm(T, U)
<1> DEFINE R == Rebinds(T, n, m, p)
           dirty == {s \in R : T.node[n].owner[s] = n}
           O == [s \in Slot |-> IF s \in R THEN m ELSE T.node[n].owner[s]]
           A == [T EXCEPT !.node[n].owner = O]
           B == IF \E s \in R : IsSlotExporting(T, n, s)
                THEN UpdateSlotExports(A, n) ELSE A
           C == IF \E s \in R : IsSlotImporting(T, n, s)
                THEN UpdateSlotImports(B, n) ELSE B
           nd == [T.node[n] EXCEPT !.owner = O]
           md == DelKeysNotOwned(C.node[n], n, dirty)
<1>1. U = [C EXCEPT !.node[n] = md]
  BY Zenon DEF UpdateSlotsConfig
<1>2. NodeOK(n, T.node[n]) /\ IsState(T) /\ mode \in Modes
  BY DEF Good, NodesOK
<1>3. /\ O \in [Slot -> Node]
      /\ \A s \in Slot : O[s] = n => T.node[n].owner[s] = n
      /\ \A s \in Slot \ R : O[s] = T.node[n].owner[s]
  BY <1>2 DEF NodeOK
<1> HIDE DEF O, dirty
<1>4. WithNode(T, A, n, nd)
  BY <1>2 DEF WithNode, IsRecord, IsState
<1>5. /\ NodeOK(n, nd) /\ nd.owner = O /\ nd.val = T.node[n].val
      /\ nd.child = T.node[n].child
  BY <1>2, <1>3 DEF NodeOK
<1>6. nd.paused = T.node[n].paused
  BY <1>2 DEF NodeOK
<1> HIDE DEF A, nd, R
<1>7. PauseKept(T, n, nd)
  BY <1>6 DEF PauseKept
<1>8. ChildFed(T, nd)
  BY <1>5 DEF ChildFed, Good, ChildRuns
<1>9. /\ Good(A) /\ A.exp = T.exp /\ A.imp = T.imp /\ A.link = T.link /\ A.risk = T.risk
      /\ A.node[n] = nd /\ \A k \in Node \ {n} : A.node[k] = T.node[k]
  BY <1>4, <1>5, <1>7, <1>8, NodeChanges
<1>10. /\ Good(B) /\ Calm(A, B) /\ \A k \in Node : B.node[k].owner = A.node[k].owner
       /\ \A j \in Exports(n) : B.exp[j].st \in ExportInProgress =>
            \A s \in Slots(j) : T.node[n].owner[s] = n => B.node[n].owner[s] = n
  <2>1. CASE \E s \in R : IsSlotExporting(T, n, s)
    <3> DEFINE V == UpdateSlotExports(A, n)
    <3>1. /\ Good(V) /\ Calm(A, V) /\ KeepsKeys(A, V)
          /\ \A j \in Exports(n) : V.exp[j].st \in ExportInProgress =>
                \A s \in Slots(j) : V.node[n].owner[s] = n
      BY <1>9, UpdateSlotExportsCalm
    <3>2. B = V
      BY <2>1
    <3> HIDE DEF V, B
    <3> QED BY <3>1, <3>2 DEF KeepsKeys
  <2>2. CASE ~\E s \in R : IsSlotExporting(T, n, s)
    <3>1. B = A
      BY <2>2
    <3> HIDE DEF B
    <3>2. Calm(A, B)
      BY <3>1, CalmReflexive
    <3>3. ASSUME NEW j \in Exports(n), B.exp[j].st \in ExportInProgress, NEW s \in Slots(j)
          PROVE  B.node[n].owner[s] = T.node[n].owner[s]
      <4>1. IsSlotExporting(T, n, s) /\ s \in Slot
        BY <1>2, <1>9, <3>1, <3>3, ModeFacts DEF IsSlotExporting, Exports
      <4>2. s \notin R
        BY <2>2, <4>1
      <4> QED BY <1>3, <1>5, <1>9, <3>1, <4>1, <4>2
    <3> QED BY <1>9, <3>1, <3>2, <3>3
  <2> QED BY <2>1, <2>2
<1> HIDE DEF B
<1>11. Calm(T, B)
  <2>1. \A k \in Node \ {n} : A.node[k].owner = T.node[k].owner
    BY <1>9
  <2>2. \A s \in Slot : A.node[n].owner[s] = n => T.node[n].owner[s] = n
    BY <1>3, <1>5, <1>9
  <2> QED BY <1>2, <1>9, <1>10, <2>1, <2>2, RebindCalm
<1>12. Good(C) /\ Calm(B, C)
  <2>1. CASE \E s \in R : IsSlotImporting(T, n, s)
    <3> DEFINE I == {j \in Imports(n) : /\ B.imp[j] \in ImportInProgress
                                        /\ OwnerOf(B, n, j) # Src(j)}
    <3>1. C = FailImports(B, I) /\ I \subseteq Job
      BY <2>1 DEF UpdateSlotImports, Imports
    <3> HIDE DEF I, C
    <3> QED BY <1>10, <3>1, FailImportsOK, FailImportsCalm
  <2>2. CASE ~\E s \in R : IsSlotImporting(T, n, s)
    <3>1. C = B
      BY <2>2
    <3> HIDE DEF C
    <3> QED BY <1>10, <3>1, CalmReflexive
  <2> QED BY <2>1, <2>2
<1> HIDE DEF C
<1>13. NodeOK(n, C.node[n]) /\ IsState(C)
  BY <1>12 DEF Good, NodesOK
<1>14. md.owner = C.node[n].owner
  BY <1>13, DelKeysOK
<1> HIDE DEF md
<1>15. U.exp = C.exp /\ U.imp = C.imp /\ U.link = C.link /\ C.risk \subseteq U.risk
  BY <1>1, <1>13 DEF IsState
<1>16. \A k \in Node : U.node[k].owner = C.node[k].owner
  BY <1>1, <1>13, <1>14 DEF IsState
<1>17. Calm(C, U)
  BY <1>2, <1>15, <1>16, CalmNodes
<1>18. Calm(T, C)
  BY <1>2, <1>11, <1>12, CalmTransitive
<1> QED BY <1>2, <1>17, <1>18, CalmTransitive

(* Only the epochs of a node change.                                       *)
LEMMA EpochsCalm ==
    ASSUME NEW T, Good(T), NEW n \in Node, NEW nd, SameNode(nd, T.node[n]),
           NEW U, WithNode(T, U, n, nd)
    PROVE  Calm(T, U)
<1>1. IsState(T) /\ mode \in Modes
  BY DEF Good
<1>2. U.exp = T.exp /\ U.imp = T.imp /\ U.link = T.link /\ T.risk \subseteq U.risk
  BY DEF WithNode
<1>3. \A k \in Node : U.node[k].owner = T.node[k].owner
  BY <1>1 DEF IsState, SameNode, WithNode
<1> QED BY <1>1, <1>2, <1>3, CalmNodes

(* A PONG arrives.                                                         *)
LEMMA ReceivePongSingle ==
    ASSUME WriterInv, MigrationInv', NEW m \in Node, NEW n \in Node, ReceivePong(m, n)
    PROVE  WriterInv'
<1> DEFINE p == bus[<<m, n>>]
           a == Learned(State.node[n], m, p)
           A == [State EXCEPT !.node[n] = a]
           B == UpdateSlotsConfig(A, n, m, p)
           b == Collided(B.node[n], n, m, p)
           U == [B EXCEPT !.node[n] = b]
<1>0. mode' = mode /\ MigrationInv /\ Good(State) /\ mode \in Modes /\ Single(State)
  BY WriterFacts DEF ReceivePong
<1>1. Apply(U)
  BY Zenon DEF ReceivePong
<1>2. m # n
  BY DEF ReceivePong, WriterInv, NoEcho
<1>3. NoEcho'
  BY <1>2 DEF ReceivePong, WriterInv, NoEcho
<1> HIDE DEF p
<1>4. NodeOK(n, State.node[n])
  BY <1>0 DEF Good, NodesOK
<1>5. NodeOK(n, a) /\ SameNode(a, State.node[n])
  BY <1>4, LearnedOK
<1> HIDE DEF a
<1>6. Good(A) /\ Clean(A) /\ Calm(State, A)
  <2>1. Good(A) /\ KeepsClean(State, A)
    BY <1>0, <1>5, EpochsChange
  <2>2. Clean(A)
    BY <1>0, <2>1, StaysClean DEF MigrationInv
  <2>3. WithNode(State, A, n, a)
    BY <1>0 DEF WithNode, IsRecord, Good, IsState
  <2>4. Calm(State, A)
    BY <1>0, <1>5, <2>3, EpochsCalm
  <2> QED BY <2>1, <2>2, <2>4
<1> HIDE DEF A
<1>7. Good(B) /\ Calm(A, B)
  <2>1. Good(B)
    BY <1>6, UpdateSlotsConfigOK
  <2>2. Calm(A, B)
    BY <1>2, <1>6, UpdateSlotsConfigCalm
  <2> QED BY <2>1, <2>2
<1> HIDE DEF B
<1>8. SameNode(b, B.node[n])
  BY <1>7, LearnedOK DEF Good, NodesOK
<1> HIDE DEF b
<1>9. Calm(B, U)
  <2>1. WithNode(B, U, n, b)
    BY <1>7 DEF WithNode, IsRecord, Good, IsState
  <2> QED BY <1>7, <1>8, <2>1, EpochsCalm
<1> HIDE DEF U
<1>10. Calm(State, B)
  BY <1>0, <1>6, <1>7, CalmTransitive
<1>11. Calm(State, U)
  BY <1>0, <1>9, <1>10, CalmTransitive
<1>12. Single(U)
  BY <1>0, <1>11, CalmSingle
<1> QED BY <1>0, <1>1, <1>3, <1>12, SingleApplied

(* Nothing but the bus changes.                                            *)
LEMMA BusSingle ==
    ASSUME WriterInv, MigrationInv', mode' = mode, NoEcho', node' = node, exp' = exp,
           imp' = imp, link' = link, risk' = risk, asserts' = asserts
    PROVE  WriterInv'
<1>1. Apply(State) /\ Single(State)
  BY StateFacts, WriterFacts DEF Apply
<1> QED BY <1>1, SingleApplied

(* A PONG is sent to another node.                                         *)
LEMMA SendPongSingle ==
    ASSUME WriterInv, MigrationInv', NEW n \in Node, NEW m \in Node, SendPong(n, m)
    PROVE  WriterInv'
<1>1. NoEcho'
  BY DEF SendPong, WriterInv, NoEcho
<1> QED BY <1>1, BusSingle DEF SendPong

(* Every slot has one holder at first, and nothing is granted.             *)
LEMMA InitSingle ==
    ASSUME Init
    PROVE  WriterInv
<1>1. \A j \in Job : exp[j] = NoExport /\ link[j] = NoLink /\ imp[j] = "none"
  BY DEF Init
<1>2. NoExport.st = "none" /\ NoExport.out = <<>> /\ NoLink.dst = FALSE
  BY DEF NoExport, NoLink
<1>3. \A n \in Node : node[n].owner = mode.owner
  BY DEF Init
<1>4. Home(State) /\ Apart(State) /\ Fresh(State)
  BY <1>1, <1>2, StateFacts DEF Home, Apart, Fresh, ExportInProgress
<1>5. \A j \in Job : ~Token(State, j)
  BY <1>1, <1>2, StateFacts DEF Token, HasToken
<1>6. \A n \in Node, s \in Slot : Holds(State, n, s) => n = mode.owner[s]
  BY <1>3, StateFacts DEF Holds
<1>7. Sole(State)
  BY <1>5, <1>6 DEF Sole
<1>8. NoEcho
  BY DEF Init, NoEcho
<1> QED BY <1>4, <1>7, <1>8, InitKeeps DEF WriterInv, Single

(* Every step keeps the right to a slot with one node or migration.        *)
LEMMA NextSingle ==
    ASSUME WriterInv, [Next]_vars
    PROVE  WriterInv'
<1>0. MigrationInv'
  BY NextKeeps DEF WriterInv
<1>1. CASE UNCHANGED vars
  <2>1. NoEcho'
    BY <1>1 DEF vars, WriterInv, NoEcho
  <2> QED BY <1>0, <1>1, <2>1, BusSingle DEF vars
<1>2. ASSUME NEW j \in Job, JobStep(j) PROVE WriterInv'
  <2>1. CASE SyncSlotsSnapshotEof(j)
    <3>1. "request_pause" \in Reply /\ "wait_paused" # "granted"
      BY DEF Reply
    <3> QED BY <1>0, <2>1, <3>1, MarkerSingle DEF SyncSlotsSnapshotEof
  <2>2. CASE SyncSlotsPaused(j)
    <3>1. "request_failover" \in Reply /\ "requested" # "granted"
      BY DEF Reply
    <3> QED BY <1>0, <2>2, <3>1, MarkerSingle DEF SyncSlotsPaused
  <2> QED
    BY <1>0, <1>2, <2>1, <2>2, ConnectSingle, WriteToClientSingle, ReadEstablishSingle,
       BeginSnapshotSingle, RequestPauseSingle, WaitingToPauseSingle,
       RequestFailoverSingle, DeadlinePassesSingle, ExportEndsSingle, EstablishSingle,
       AckSingle, KeysSingle, FailoverGrantedSingle, PerformFailoverSingle,
       CleanUpSingle, SourceSeesCloseSingle, TargetSeesCloseSingle
    DEF JobStep
<1>3. ASSUME NEW n \in Node, NodeStep(n) PROVE WriterInv'
  BY <1>0, <1>3, ChildSingle, SnapshotDoneSingle, NodeStepsSingle DEF NodeStep
<1>4. ASSUME NEW j \in Job, MigrateSlots(j) \/ JobFault(j) PROVE WriterInv'
  BY <1>0, <1>4, MigrateSlotsSingle, ExportEndsSingle, ForkFailsSingle, ImportEndsSingle,
     LinkBreaksSingle DEF JobFault
<1>5. ASSUME NEW n \in Node, NodeCommand(n) PROVE WriterInv'
  BY <1>0, <1>5, ChildSingle, CancelSingle, FlushAllSingle, NodeStepsSingle, RestartSingle
  DEF NodeCommand
<1>6. ASSUME NEW n \in Node, NEW m \in Node, Gossip(n, m) PROVE WriterInv'
  BY <1>0, <1>6, SendPongSingle, ReceivePongSingle DEF Gossip
<1>7. ASSUME NEW n \in Node, NEW s \in Slot, Write(n, s) PROVE WriterInv'
  BY <1>0, <1>7, WriteSingle
<1> QED BY <1>1, <1>2, <1>3, <1>4, <1>5, <1>6, <1>7 DEF Next, Progress

(* The right to write, in every behaviour.                                 *)
LEMMA WriterInvariant == Spec => []WriterInv
<1>1. Init => WriterInv
  BY InitSingle
<1>2. WriterInv /\ [Next]_vars => WriterInv'
  BY NextSingle
<1> QED BY <1>1, <1>2, PTL DEF Spec

(* OneWriter for any nodes, slots, migrations and faults: a slot that no   *)
(* source has left at risk is written by one node at most.  The source     *)
(* gives its right to the message that grants the failover and is paused   *)
(* from there on; the target takes it from that message; gossip, commands, *)
(* lost connections and restarts take the right away or leave it.          *)
THEOREM OneWriterAlways == Spec => []OneWriter
<1>1. WriterInv => OneWriter
  <2> SUFFICES ASSUME WriterInv, NEW s \in Slot \ risk
               PROVE  Cardinality({n \in Node : node[n].owner[s] = n /\ ~node[n].paused}) <= 1
    BY DEF OneWriter
  <2> DEFINE W == {n \in Node : node[n].owner[s] = n /\ ~node[n].paused}
  <2>1. Good(State) /\ Single(State)
    BY WriterFacts
  <2>2. ASSUME NEW n \in W PROVE Holds(State, n, s)
    <3>1. n \in Node /\ node[n].owner[s] = n /\ ~node[n].paused
      OBVIOUS
    <3>2. ASSUME NEW j \in Exports(n), s \in Slots(j), exp[j].st = "granted" PROVE FALSE
      <4>1. j \in Job /\ Src(j) = n /\ ~(Slots(j) \subseteq risk)
        BY <3>2 DEF Exports
      <4>2. node[n].paused
        BY <2>1, <3>2, <4>1, StateFacts DEF Good, Firm
      <4> QED BY <3>1, <4>2
    <3> QED BY <3>1, <3>2, StateFacts DEF Holds, SlotFailoverGranted
  <2>3. \A n, m \in W : n = m
    <3>1. \A n, m \in Node : Holds(State, n, s) /\ Holds(State, m, s) => n = m
      BY <2>1, StateFacts DEF Single, Sole
    <3> QED BY <2>2, <3>1
  <2>4. Cardinality(W) <= 1
    <3> HIDE DEF W
    <3>1. CASE W = {}
      BY <3>1, FS_EmptySet
    <3>2. CASE W # {}
      <4>1. PICK n : n \in W
        BY <3>2
      <4>2. W = {n}
        BY <2>3, <4>1
      <4>3. Cardinality({n}) = 1
        BY FS_Singleton, Zenon
      <4> QED BY <4>2, <4>3
    <3> QED BY <3>1, <3>2
  <2> QED BY <2>4
<1> QED BY <1>1, WriterInvariant, PTL
=============================================================================
