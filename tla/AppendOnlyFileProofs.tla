-------------------------- MODULE AppendOnlyFileProofs --------------------------
(***************************************************************************)
(* Theorems about AppendOnlyFile, for any number of writes, operations,    *)
(* faults, crashes and files, and any set of scenarios that satisfies      *)
(* Sturdy: the server always starts, what WAITAOF reports cannot be lost,  *)
(* and the AOF implements DurableLog.                                      *)
(*                                                                         *)
(* The inductive invariant compares three things: the dataset in memory,   *)
(* what loading the files of the manifest on disk would give (L), and how  *)
(* much of the file being written is not yet synced (Lag).                 *)
(***************************************************************************)
EXTENDS AppendOnlyFile, SequenceTheorems, WellFoundedInduction, TLAPS

(* Induction over the natural numbers, from the well-foundedness of <. It  *)
(* takes a set, so the provers can instantiate it.                         *)
LEMMA Least ==
  ASSUME NEW T, T \subseteq Nat, T # {}
  PROVE  \E x \in T : \A y \in T : x <= y
<1> DEFINE R == OpToRel(<, Nat)
<1>1. IsWellFoundedOn(R, Nat)
  BY NatLessThanWellFounded, Zenon
<1>0. \A x, y \in Nat : y < x => <<y, x>> \in R
  BY DEF OpToRel
<1> HIDE DEF R
<1>2. PICK x \in T : \A y \in T : ~(<<y, x>> \in R)
  BY <1>1, WFMin
<1>3. \A y \in T : ~(y < x)
  BY <1>0, <1>2
<1>4. \A y \in T : x <= y
  BY <1>3
<1> QED BY <1>4

LEMMA Induction ==
  ASSUME NEW S, 0 \in S, \A k \in Nat : k \in S => k + 1 \in S
  PROVE  Nat \subseteq S
<1> DEFINE T == Nat \ S
<1> SUFFICES ASSUME T # {} PROVE FALSE
  OBVIOUS
<1>1. PICK x \in T : \A y \in T : x <= y
  BY Least
<1>2. x # 0 /\ x - 1 \in Nat /\ x - 1 \notin T
  BY <1>1
<1>3. x - 1 \in S /\ (x - 1) + 1 \in S /\ (x - 1) + 1 = x
  BY <1>2
<1> QED BY <1>3

(* What FlattenSeq computes: the last of the concatenations of the         *)
(* prefixes of a sequence of sequences.                                    *)
Concat(F, s, N) == F = [i \in 1 .. N |-> IF i = 1 THEN s[i] ELSE F[i - 1] \o s[i]]

LEMMA ConcatExists ==
  ASSUME NEW s, NEW N \in Nat
  PROVE  \E F : Concat(F, s, N)
<1> DEFINE S == {k \in Nat : \E F : Concat(F, s, k)}
<1>1. 0 \in S
  <2> DEFINE F == [i \in 1 .. 0 |-> <<>>]
  <2>1. Concat(F, s, 0)
    BY DEF Concat
  <2> QED BY <2>1
<1>2. ASSUME NEW k \in Nat, k \in S PROVE k + 1 \in S
  <2>1. PICK F : Concat(F, s, k)
    BY <1>2
  <2> DEFINE G == [i \in 1 .. k + 1 |-> IF i = k + 1 THEN (IF i = 1 THEN s[i] ELSE F[i - 1] \o s[i]) ELSE F[i]]
  <2>2. \A i \in 1 .. k : F[i] = IF i = 1 THEN s[i] ELSE F[i - 1] \o s[i]
    BY <2>1 DEF Concat
  <2>3. \A i \in 1 .. k : G[i] = F[i]
    OBVIOUS
  <2>4. \A i \in 1 .. k + 1 : G[i] = IF i = 1 THEN s[i] ELSE G[i - 1] \o s[i]
    <3> TAKE i \in 1 .. k + 1
    <3>1. CASE i = 1
      BY <3>1, <2>2, <2>3
    <3>2. CASE i # 1 /\ i = k + 1
      <4>1. i - 1 \in 1 .. k /\ G[i - 1] = F[i - 1]
        BY <3>2, <2>3
      <4> QED BY <3>2, <4>1
    <3>3. CASE i # 1 /\ i # k + 1
      <4>1. i \in 1 .. k /\ i - 1 \in 1 .. k
        BY <3>3
      <4>2. G[i - 1] = F[i - 1] /\ G[i] = F[i] /\ F[i] = F[i - 1] \o s[i]
        BY <4>1, <2>3, <2>2, <3>3
      <4> HIDE DEF G
      <4> QED BY <4>2, <3>3
    <3> QED BY <3>1, <3>2, <3>3
  <2>5. DOMAIN G = 1 .. k + 1 /\ G = [i \in 1 .. k + 1 |-> G[i]]
    OBVIOUS
  <2> HIDE DEF G
  <2>6. Concat(G, s, k + 1)
    BY <2>4, <2>5 DEF Concat
  <2> QED BY <2>6
<1>3. Nat \subseteq S
  <2> HIDE DEF S
  <2> QED BY <1>1, <1>2, Induction
<1> QED BY <1>3

Flat(s) == CHOOSE F : Concat(F, s, Len(s))
LEMMA FlattenIs ==
  ASSUME NEW s, Len(s) # 0
  PROVE  FlattenSeq(s) = Flat(s)[Len(s)]
BY DEF FlattenSeq, Flat, Concat

LEMMA FlatIs ==
  ASSUME NEW s, Len(s) \in Nat
  PROVE  Concat(Flat(s), s, Len(s))
BY ConcatExists DEF Flat

LEMMA FlatAppend ==
  ASSUME NEW S, NEW s \in Seq(S), NEW x \in S
  PROVE  \A i \in 1 .. Len(s) : Flat(Append(s, x))[i] = Flat(s)[i]
<1> DEFINE t == Append(s, x)
           F == Flat(s)
           G == Flat(t)
           N == {k \in Nat : k \in 1 .. Len(s) => G[k] = F[k]}
<1>1. Len(s) \in Nat /\ Len(t) = Len(s) + 1 /\ \A i \in 1 .. Len(s) : t[i] = s[i]
  BY AppendProperties
<1>2. Concat(F, s, Len(s)) /\ Concat(G, t, Len(t))
  <2> HIDE DEF t
  <2>1. Len(t) \in Nat
    BY <1>1
  <2> QED BY <1>1, <2>1, FlatIs
<1> HIDE DEF F, G, t
<1>3. \A i \in 1 .. Len(s) : F[i] = IF i = 1 THEN s[i] ELSE F[i - 1] \o s[i]
  BY <1>2 DEF Concat
<1>4. \A i \in 1 .. Len(t) : G[i] = IF i = 1 THEN t[i] ELSE G[i - 1] \o t[i]
  BY <1>2 DEF Concat
<1>5. 0 \in N
  OBVIOUS
<1>6. ASSUME NEW k \in Nat, k \in N PROVE k + 1 \in N
  <2> SUFFICES ASSUME k + 1 \in 1 .. Len(s) PROVE G[k + 1] = F[k + 1]
    OBVIOUS
  <2>1. k + 1 \in 1 .. Len(t) /\ t[k + 1] = s[k + 1]
    BY <1>1
  <2>2. CASE k = 0
    <3>1. G[1] = t[1] /\ F[1] = s[1]
      BY <2>1, <2>2, <1>3, <1>4
    <3> QED BY <3>1, <2>1, <2>2
  <2>3. CASE k # 0
    <3>1. k \in 1 .. Len(s) /\ G[k] = F[k] /\ k + 1 # 1 /\ (k + 1) - 1 = k
      BY <2>3, <1>6
    <3>2. G[k + 1] = G[(k + 1) - 1] \o t[k + 1] /\ F[k + 1] = F[(k + 1) - 1] \o s[k + 1]
      BY <3>1, <2>1, <1>3, <1>4
    <3> QED BY <3>1, <3>2, <2>1
  <2> QED BY <2>2, <2>3
<1>7. Nat \subseteq N
  <2> HIDE DEF N
  <2> QED BY <1>5, <1>6, Induction
<1> QED BY <1>7, <1>1 DEF F, G, t

LEMMA FlattenEmpty == FlattenSeq(<<>>) = <<>>
BY DEF FlattenSeq

LEMMA FlattenAppend ==
  ASSUME NEW W, NEW s \in Seq(Seq(W)), NEW x \in Seq(W)
  PROVE  FlattenSeq(Append(s, x)) = FlattenSeq(s) \o x
<1> DEFINE t == Append(s, x)
           F == Flat(s)
           G == Flat(t)
<1>1. /\ Len(s) \in Nat /\ Len(t) = Len(s) + 1 /\ Len(t) \in Nat /\ Len(t) # 0
      /\ t[Len(s) + 1] = x
  OBVIOUS
<1>2. Concat(G, t, Len(t)) /\ FlattenSeq(t) = G[Len(t)]
  <2> HIDE DEF t
  <2> QED BY <1>1, FlatIs, FlattenIs
<1>0. \A i \in 1 .. Len(s) : G[i] = F[i]
  BY FlatAppend
<1> HIDE DEF F, G, t
<1>3. \A i \in 1 .. Len(t) : G[i] = IF i = 1 THEN t[i] ELSE G[i - 1] \o t[i]
  BY <1>2 DEF Concat
<1>4. CASE s = <<>>
  <2>1. Len(s) = 0 /\ G[1] = t[1]
    BY <1>4, <1>1, <1>3
  <2>2. FlattenSeq(t) = x /\ FlattenSeq(s) = <<>>
    BY <2>1, <1>1, <1>2, <1>4, FlattenEmpty
  <2> QED BY <2>2 DEF t
<1>5. CASE s # <<>>
  <2>1. Len(s) # 0 /\ Len(s) \in 1 .. Len(s) /\ Len(s) + 1 # 1 /\ (Len(s) + 1) - 1 = Len(s)
    BY <1>5, <1>1
  <2>2. Len(s) + 1 \in 1 .. Len(t)
    BY <1>1
  <2>3. G[Len(s) + 1] = G[(Len(s) + 1) - 1] \o t[Len(s) + 1]
    BY <2>1, <2>2, <1>3
  <2>4. FlattenSeq(s) = F[Len(s)]
    BY <2>1, FlattenIs DEF F
  <2>5. FlattenSeq(t) = F[Len(s)] \o x
    BY <2>1, <2>3, <1>0, <1>1, <1>2
  <2> QED BY <2>4, <2>5 DEF t
<1> QED BY <1>4, <1>5

LEMMA FlattenType ==
  ASSUME NEW W, NEW s \in Seq(Seq(W))
  PROVE  FlattenSeq(s) \in Seq(W)
<1> DEFINE F == Flat(s)
           N == {k \in Nat : k \in 1 .. Len(s) => F[k] \in Seq(W)}
<1>1. Len(s) \in Nat /\ \A i \in 1 .. Len(s) : s[i] \in Seq(W)
  OBVIOUS
<1>2. Concat(F, s, Len(s))
  BY <1>1, FlatIs
<1> HIDE DEF F
<1>3. \A i \in 1 .. Len(s) : F[i] = IF i = 1 THEN s[i] ELSE F[i - 1] \o s[i]
  BY <1>2 DEF Concat
<1>4. 0 \in N
  OBVIOUS
<1>5. ASSUME NEW k \in Nat, k \in N PROVE k + 1 \in N
  <2> SUFFICES ASSUME k + 1 \in 1 .. Len(s) PROVE F[k + 1] \in Seq(W)
    OBVIOUS
  <2>1. s[k + 1] \in Seq(W)
    BY <1>1
  <2>2. CASE k = 0
    BY <2>1, <2>2, <1>3
  <2>3. CASE k # 0
    <3>1. k \in 1 .. Len(s) /\ F[k] \in Seq(W) /\ k + 1 # 1 /\ (k + 1) - 1 = k
      BY <2>3, <1>5
    <3>2. F[k + 1] = F[(k + 1) - 1] \o s[k + 1]
      BY <3>1, <1>3
    <3>3. F[k + 1] = F[k] \o s[k + 1]
      BY <3>1, <3>2
    <3> QED BY <3>1, <3>3, <2>1
  <2> QED BY <2>2, <2>3
<1>6. Nat \subseteq N
  <2> HIDE DEF N
  <2> QED BY <1>4, <1>5, Induction
<1>7. CASE Len(s) = 0
  <2>1. s = <<>>
    BY <1>7
  <2>2. FlattenSeq(s) = <<>>
    BY <2>1, FlattenEmpty
  <2> QED BY <2>2
<1>8. CASE Len(s) # 0
  <2>1. Len(s) \in 1 .. Len(s) /\ Len(s) \in N
    BY <1>8, <1>1, <1>6
  <2>2. FlattenSeq(s) = F[Len(s)]
    BY <1>8, FlattenIs DEF F
  <2> QED BY <2>1, <2>2
<1> QED BY <1>7, <1>8

-------------------------------------------------------------------------------
(* The inductive invariant: first the types, then the position of the main *)
(* thread, then the disk.                                                  *)

Words == Seq(1 .. MaxWrites)
Name  == {"temp", "base", "incr"} \X Nat

Numbered == [base : Nat, incr : Seq(Nat \ {0}), hist : SUBSET Name]
Manifest == [base : Nat, incr : Seq(Nat \ {0}), hist : SUBSET Name, iseq : Nat]
Job      == [type : {"fsync", "close"}, ino : Inodes \cup {None}, off : Nat]

Ent       == UNION {[S -> Inodes] : S \in SUBSET Name}
Directory == [ent : Ent, m : Numbered]

(* The types of the variables, in the groups that one step changes         *)
(* together.                                                               *)
Flow ==
    /\ mode \in Modes
    /\ st \in {"on", "wait", "off"}
    /\ pc \in PCs /\ ret \in {"reply", "open", "start", "stop", "exit"}
    /\ sched \in BOOLEAN /\ n \in Nat

Counts == pending \in Nat /\ fsynced \in Int /\ safe \in Int

Memory ==
    /\ data \in Words /\ buf \in Words
    /\ fd \in Inodes \cup {None}
    /\ bio \in Seq(Job)
    /\ child # None => child \in ChildType

Directories ==
    /\ am \in Manifest
    /\ pc \in {"openp", "rename2", "persist"} => tm \in Manifest
    /\ dirs \in Seq(Directory) /\ dirs # <<>>

Files ==
    /\ cont \in [Inodes -> Seq(0 .. MaxWrites)]
    /\ \A i \in Inodes : Whole(cont[i]) \in Words
    /\ pc # "down" => cont \in [Inodes -> Words]
    /\ synced \in [Inodes -> Nat]
    /\ \A i \in Inodes : synced[i] <= Len(cont[i])

Running == pc \notin {"down", "refused", "boot"}

(* What the position of the main thread says of the rest of its memory:    *)
(* which states of the AOF reach it, when the buffer is empty and when no  *)
(* child runs. The server does not refuse to start.                        *)
Control ==
    /\ pc # "refused"
    /\ ret = "reply" \/ pc \in {"flush", "sync", "open", "start", "openp",
                                "drain", "fork", "stop", "exit"}
    /\ pc \in {"open", "openp", "drain", "fork", "start"} => ret \in {"open", "start"}
    /\ pc = "stop" => ret = "stop"
    /\ pc = "exit" => ret = "exit"
    /\ ret \in {"open", "start"} => child = None
    /\ ret = "open" => st # "off"
    /\ ret = "start" => st = "wait" /\ ~sched
    /\ pc = "openp" => st = "on"
    /\ pc = "drain" => st = "wait"
    /\ pc \in {"rename", "rename2", "persist"} => child # None
    /\ pc = "rename2" => st = "wait"
    /\ st = "off" /\ Running => /\ buf = <<>> /\ child = None /\ ~sched
                                /\ pc \in {"loop", "reply", "exit"}
    /\ st = "wait" /\ child = None => buf = <<>> /\ pc \notin {"hist", "histp"}
    /\ st = "wait" /\ child # None => ~sched /\ ret # "exit"
    /\ child # None => fd # None
    /\ "rewrite" \notin mode.ops /\ (sched \/ ret = "open") => st = "wait"
    /\ pc \in {"sync", "open", "start", "openp", "drain", "fork"} => buf = <<>>
    /\ pc = "reply" /\ mode.policy = "always" => buf = <<>>
    /\ pc \in {"boot", "bootp"} => st = "on"
    /\ pc \in {"down", "boot"} => fd = None
    /\ pc \in {"down", "boot", "bootp"} =>
          child = None /\ buf = <<>> /\ bio = <<>> /\ ~sched /\ pending = 0
    /\ pc \in {"boot", "bootp"} => fsynced = 0

(* The file a manifest ends with, the ones before it, and all of them.     *)
Newest(m) == Incr(m.incr[Len(m.incr)])
Older(m)  == {Base(k) : k \in {m.base} \ {0}}
             \cup {Incr(m.incr[i]) : i \in 1 .. Len(m.incr) - 1}
Names(m)  == {Base(k) : k \in {m.base} \ {0}}
             \cup {Incr(m.incr[i]) : i \in 1 .. Len(m.incr)}

(* The files of a manifest are numbered upwards, and its history is older  *)
(* than any of them.                                                       *)
Sorted(m) ==
    /\ m.incr = <<>> => m.hist = {}
    /\ \A i \in 1 .. Len(m.incr) - 1 : m.incr[i] < m.incr[Len(m.incr)]
    /\ \A f \in m.hist :
          \E k \in Nat : \/ f = Base(k) /\ k < m.base
                         \/ f = Incr(k) /\ \A i \in 1 .. Len(m.incr) : k < m.incr[i]

Good(m) == (m.base = 0 <=> m.incr = <<>>) /\ Sorted(m)

(* The counter of a manifest is the number of its last incremental file.   *)
Counted(m) == m.iseq = IF m.incr = <<>> THEN 0 ELSE m.incr[Len(m.incr)]

SameFiles(m1, m2) == m1.base = m2.base /\ m1.incr = m2.incr

(* The files of a manifest are there, and no other is the last one.        *)
Held(m, e) ==
    /\ Names(m) \subseteq DOMAIN e
    /\ \A f \in Older(m) : e[f] # e[Newest(m)]

(* The file being written is the last one of the manifest: the AOF is on,  *)
(* or the rewrite that turns it on has persisted its manifest.             *)
Engaged == st = "on" \/ (st = "wait" /\ pc \in {"hist", "histp"})

(* Every directory that a failure may leave has the manifest and the files *)
(* of the one the process sees.                                            *)
Disk ==
    /\ Good(Dir.m) /\ Held(Dir.m, Dir.ent)
    /\ \A i \in DOMAIN dirs :
          /\ dirs[i].m = Dir.m
          /\ \A f \in Names(Dir.m) : f \in DOMAIN dirs[i].ent /\ dirs[i].ent[f] = Dir.ent[f]

(* The manifest in memory names the files of the one on disk, from the     *)
(* moment the start has persisted it, and the file being written is its    *)
(* last one, or none of its files while the AOF is not engaged.            *)
Manifests ==
    /\ Good(am) /\ Counted(am)
    /\ pc = "boot" => am = AofLoadManifestFromDisk(Dir.m)
    /\ Running => am.incr # <<>>
    /\ Running /\ pc # "bootp" => SameFiles(Dir.m, am)
    /\ pc = "bootp" => /\ Held(am, Dir.ent)
                       /\ SameFiles(Dir.m, am) \/ Dir.m.incr = <<>>
    /\ Running /\ Engaged => fd = Dir.ent[Newest(am)]
    /\ Running /\ ~Engaged => \A f \in Names(am) : Dir.ent[f] # fd

(* Before the first manifest, a file that a start created is still empty.  *)
FirstStart ==
    Dir.m.incr = <<>> =>
       \A i \in DOMAIN dirs : Incr(1) \in DOMAIN dirs[i].ent => cont[dirs[i].ent[Incr(1)]] = <<>>

(* What a handler has prepared: the manifest it is about to persist, the   *)
(* files it has created or renamed for it, and what they hold.             *)
Prepared ==
    /\ pc = "openp" =>
          /\ tm = GetNewIncrAofName(am)
          /\ Incr(tm.iseq) \in DOMAIN Dir.ent
          /\ Dir.ent[Incr(tm.iseq)] # fd
          /\ \A f \in Names(am) : Dir.ent[f] # Dir.ent[Incr(tm.iseq)]
          /\ cont[Dir.ent[Incr(tm.iseq)]] = <<>>
    /\ pc = "rename2" => tm = GetNewBaseFileNameAndMarkPreAsHistory(am)
    /\ pc = "persist" /\ st = "on" => tm = GetNewBaseFileNameAndMarkPreAsHistory(am)
    /\ pc = "persist" /\ st = "wait" =>
          /\ tm = GetNewIncrAofName(GetNewBaseFileNameAndMarkPreAsHistory(am))
          /\ Incr(tm.iseq) \in DOMAIN Dir.ent
          /\ Dir.ent[Incr(tm.iseq)] = fd
    /\ pc \in {"rename2", "persist"} =>
          /\ Base(tm.base) \in DOMAIN Dir.ent
          /\ Dir.ent[Base(tm.base)] # fd
          /\ cont[Dir.ent[Base(tm.base)]] = child.snap
          /\ synced[Dir.ent[Base(tm.base)]] = Len(child.snap)
    /\ st = "wait" /\ (pc \in {"drain", "fork"} \/ (child # None /\ pc \notin {"persist", "hist", "histp"})) =>
          Temp \in DOMAIN Dir.ent /\ Dir.ent[Temp] = fd
    /\ pc \in {"drain", "fork"} => fd # None /\ cont[fd] = <<>>

(* The writes that the files of manifest m hold.                           *)
Log(m, e, c) == FlattenSeq([k \in DOMAIN LoadOrder(m) |-> Whole(c[e[LoadOrder(m)[k]]])])

Power  == mode.failure = "power"
Intact(i) == synced[i] = Len(cont[i])

(* Against a loss of power every file but the one being written is on      *)
(* disk, and that one too unless its fsync is the next step.               *)
Synced ==
    Power => /\ fd # None /\ pc # "sync" => Intact(fd)
             /\ \A f \in Names(Dir.m) : Dir.ent[f] # fd => Intact(Dir.ent[f])
             /\ pc = "bootp" => \A f \in Names(am) : Dir.ent[f] # fd => Intact(Dir.ent[f])

(* What loading the disk as the process sees it would give, and how many   *)
(* writes of it only the page cache holds.                                 *)
L   == Log(Dir.m, Dir.ent, cont)
Lag == IF Power /\ fd # None THEN Len(cont[fd]) - synced[fd] ELSE 0

(* What is on disk and in the buffer is the dataset; while the AOF is not  *)
(* engaged what is on disk is older. The child's snapshot followed by what *)
(* the file and the buffer got since the fork is the dataset.              *)
Contents ==
    /\ pc = "down" => \A f \in Older(Dir.m) : ~IsTorn(cont[Dir.ent[f]])
    /\ pc = "boot" => L = data
    /\ pc = "bootp" => Log(am, Dir.ent, cont) = data /\ (Dir.m.incr = <<>> => data = <<>>)
    /\ Running /\ Engaged /\ pc # "bootp" => L \o buf = data
    /\ (Running /\ ~Engaged) \/ pc = "down" => IsPrefix(L, data)
    /\ child # None /\ pc \notin {"hist", "histp"} => (child.snap \o cont[fd]) \o buf = data

(* What is promised or reported is neither in the buffer nor only in the   *)
(* page cache.                                                             *)
Bounds ==
    /\ safe \in Nat
    /\ pc = "down" => safe <= Len(L)
    /\ pc # "down" => /\ pending + Lag + Len(buf) <= Len(data)
                      /\ fsynced + Lag + Len(buf) <= Len(data)
                      /\ safe + Lag + Len(buf) <= Len(data)
                      /\ \A i \in DOMAIN bio : bio[i].off + Lag + Len(buf) <= Len(data)
    /\ Running /\ ~Engaged => safe = 0


-------------------------------------------------------------------------------
(* What a manifest loads: the order of its files, and how Log changes with *)
(* a file, a name or a manifest.                                           *)

Listed(m) == m.base \in Nat /\ m.incr \in Seq(Nat)
Pieces(m, e, c) == [k \in DOMAIN LoadOrder(m) |-> Whole(c[e[LoadOrder(m)[k]]])]
Prior(m) == [base |-> m.base, incr |-> SubSeq(m.incr, 1, Len(m.incr) - 1)]

LEMMA LoadOrderParts ==
  ASSUME NEW m, Listed(m)
  PROVE  LET b == IF m.base = 0 THEN 0 ELSE 1
         IN  /\ LoadOrder(m) \in Seq(Name)
             /\ Len(LoadOrder(m)) = b + Len(m.incr)
             /\ DOMAIN LoadOrder(m) = 1 .. b + Len(m.incr)
             /\ b = 1 => LoadOrder(m)[1] = Base(m.base)
             /\ \A i \in 1 .. Len(m.incr) : LoadOrder(m)[b + i] = Incr(m.incr[i])
<1> DEFINE b == IF m.base = 0 THEN 0 ELSE 1
           s == IF m.base = 0 THEN <<>> ELSE <<Base(m.base)>>
           t == [i \in DOMAIN m.incr |-> Incr(m.incr[i])]
<1>1. m.base \in Nat /\ m.incr \in Seq(Nat) /\ Len(m.incr) \in Nat /\ DOMAIN m.incr = 1 .. Len(m.incr)
  BY DEF Listed
<1>2. \A k \in Nat : Base(k) \in Name /\ Incr(k) \in Name
  BY DEF Base, Incr, Name
<1>3. s \in Seq(Name) /\ Len(s) = b /\ (b = 1 => s[1] = Base(m.base))
  BY <1>1, <1>2
<1>4. t \in Seq(Name) /\ Len(t) = Len(m.incr) /\ \A i \in 1 .. Len(m.incr) : t[i] = Incr(m.incr[i])
  <2>1. \A i \in 1 .. Len(m.incr) : Incr(m.incr[i]) \in Name
    BY <1>1, <1>2
  <2> QED BY <1>1, <2>1
<1>5. LoadOrder(m) = s \o t
  BY DEF LoadOrder
<1>6. b \in {0, 1}
  OBVIOUS
<1> HIDE DEF b, s, t
<1>7. /\ s \o t \in Seq(Name) /\ Len(s \o t) = b + Len(m.incr) /\ DOMAIN (s \o t) = 1 .. b + Len(m.incr)
      /\ b = 1 => (s \o t)[1] = Base(m.base)
      /\ \A i \in 1 .. Len(m.incr) : (s \o t)[b + i] = Incr(m.incr[i])
  BY SMTT(30), <1>1, <1>3, <1>4, <1>6
<1> QED BY <1>5, <1>7 DEF b

LEMMA LoadOrderNames ==
  ASSUME NEW m, Listed(m)
  PROVE  /\ \A k \in DOMAIN LoadOrder(m) : LoadOrder(m)[k] \in Names(m)
         /\ m.incr # <<>> => \A k \in 1 .. Len(LoadOrder(m)) - 1 : LoadOrder(m)[k] \in Older(m)
<1> DEFINE b == IF m.base = 0 THEN 0 ELSE 1
           o == LoadOrder(m)
<1>1. Len(o) = b + Len(m.incr) /\ DOMAIN o = 1 .. b + Len(m.incr)
  BY LoadOrderParts
<1>2. /\ b = 1 => o[1] = Base(m.base)
      /\ \A i \in 1 .. Len(m.incr) : o[b + i] = Incr(m.incr[i])
  BY LoadOrderParts
<1>3. b \in {0, 1} /\ (b = 1 => m.base # 0) /\ Len(m.incr) \in Nat /\ m.base \in Nat
  BY DEF Listed
<1> HIDE DEF b, o
<1>4. ASSUME NEW k \in 1 .. b + Len(m.incr)
      PROVE  (b = 1 /\ k = 1) \/ (k - b \in 1 .. Len(m.incr) /\ k = b + (k - b))
  BY <1>3
<1>5. ASSUME NEW k \in DOMAIN o PROVE o[k] \in Names(m)
  <2>1. (b = 1 /\ k = 1) \/ (k - b \in 1 .. Len(m.incr) /\ o[k] = Incr(m.incr[k - b]))
    BY <1>1, <1>2, <1>4, <1>5
  <2> QED BY <2>1, <1>2, <1>3 DEF Names
<1>6. ASSUME m.incr # <<>>, NEW k \in 1 .. Len(o) - 1 PROVE o[k] \in Older(m)
  <2>1. k \in 1 .. b + Len(m.incr) /\ k < b + Len(m.incr)
    BY <1>1, <1>3
  <2>2. (b = 1 /\ k = 1) \/ (k - b \in 1 .. Len(m.incr) - 1 /\ o[k] = Incr(m.incr[k - b]))
    BY <2>1, <1>2, <1>3, <1>4
  <2> QED BY <2>2, <1>2, <1>3 DEF Older
<1> QED BY <1>5, <1>6 DEF o

LEMMA LoadedIsLog ==
  ASSUME NEW d, NEW c
  PROVE  Loaded(d, c) = Log(d.m, d.ent, c)
BY DEF Loaded, Log

LEMMA LogIs ==
  ASSUME NEW m, NEW e, NEW c
  PROVE  Log(m, e, c) = FlattenSeq(Pieces(m, e, c))
BY DEF Log, Pieces

LEMMA PiecesType ==
  ASSUME NEW m, Listed(m), NEW e, NEW c, NEW W,
         \A f \in Names(m) : Whole(c[e[f]]) \in Seq(W)
  PROVE  /\ Pieces(m, e, c) \in Seq(Seq(W))
         /\ Len(Pieces(m, e, c)) = Len(LoadOrder(m))
         /\ DOMAIN Pieces(m, e, c) = DOMAIN LoadOrder(m)
<1> DEFINE o == LoadOrder(m)
<1>0. o \in Seq(Name)
  BY LoadOrderParts
<1>1. o \in Seq(Name) /\ Len(o) \in Nat /\ DOMAIN o = 1 .. Len(o)
  <2> HIDE DEF o
  <2> QED BY <1>0
<1>2. \A k \in 1 .. Len(o) : Whole(c[e[o[k]]]) \in Seq(W)
  BY <1>1, LoadOrderNames
<1>3. Pieces(m, e, c) = [k \in 1 .. Len(o) |-> Whole(c[e[o[k]]])]
  BY <1>1 DEF Pieces
<1> HIDE DEF o
<1> QED BY <1>1, <1>2, <1>3 DEF o

LEMMA LogType ==
  ASSUME NEW m, Listed(m), NEW e, NEW c, NEW W,
         \A f \in Names(m) : Whole(c[e[f]]) \in Seq(W)
  PROVE  Log(m, e, c) \in Seq(W)
BY PiecesType, FlattenType, LogIs

LEMMA LogSame ==
  ASSUME NEW m, NEW q, NEW e, NEW g, NEW c, NEW d, Listed(m), SameFiles(m, q),
         \A f \in Names(m) : Whole(c[e[f]]) = Whole(d[g[f]])
  PROVE  Log(m, e, c) = Log(q, g, d)
<1>1. LoadOrder(m) = LoadOrder(q)
  BY DEF SameFiles, LoadOrder
<1>2. \A k \in DOMAIN LoadOrder(m) : Whole(c[e[LoadOrder(m)[k]]]) = Whole(d[g[LoadOrder(m)[k]]])
  BY LoadOrderNames
<1>3. Pieces(m, e, c) = Pieces(q, g, d)
  BY <1>1, <1>2 DEF Pieces
<1> QED BY <1>3, LogIs

LEMMA LogNew ==
  ASSUME NEW m, Listed(m), NEW k \in Nat, NEW q, q.base = m.base, q.incr = Append(m.incr, k),
         NEW e, NEW c, NEW W,
         \A f \in Names(m) : Whole(c[e[f]]) \in Seq(W), Whole(c[e[Incr(k)]]) \in Seq(W)
  PROVE  Log(q, e, c) = Log(m, e, c) \o Whole(c[e[Incr(k)]])
<1> DEFINE b == IF m.base = 0 THEN 0 ELSE 1
           o == LoadOrder(m)
           p == LoadOrder(q)
           x == Whole(c[e[Incr(k)]])
           P == Pieces(m, e, c)
           Q == Pieces(q, e, c)
<1>0. Listed(q) /\ Len(q.incr) = Len(m.incr) + 1 /\ Len(m.incr) \in Nat
  BY DEF Listed
<1>1. /\ Len(o) = b + Len(m.incr) /\ DOMAIN o = 1 .. b + Len(m.incr)
      /\ b = 1 => o[1] = Base(m.base)
      /\ \A i \in 1 .. Len(m.incr) : o[b + i] = Incr(m.incr[i])
  BY LoadOrderParts
<1>2. /\ Len(p) = b + Len(m.incr) + 1 /\ DOMAIN p = 1 .. b + Len(m.incr) + 1
      /\ b = 1 => p[1] = Base(m.base)
      /\ \A i \in 1 .. Len(m.incr) + 1 : p[b + i] = Incr(q.incr[i])
  <2>1. /\ Len(p) = b + Len(q.incr) /\ DOMAIN p = 1 .. b + Len(q.incr)
        /\ b = 1 => p[1] = Base(m.base)
        /\ \A i \in 1 .. Len(q.incr) : p[b + i] = Incr(q.incr[i])
    BY <1>0, LoadOrderParts
  <2>2. b + (Len(m.incr) + 1) = b + Len(m.incr) + 1
    <3>1. b \in {0, 1}
      OBVIOUS
    <3> HIDE DEF b
    <3> QED BY <3>1, <1>0
  <2> QED BY <2>1, <2>2, <1>0
<1>3. q.incr[Len(m.incr) + 1] = k /\ \A i \in 1 .. Len(m.incr) : q.incr[i] = m.incr[i]
  BY DEF Listed
<1>4. P \in Seq(Seq(W)) /\ Len(P) = Len(o)
  BY PiecesType
<1>9. b \in {0, 1}
  OBVIOUS
<1> HIDE DEF b
<1>5. \A j \in 1 .. Len(o) : p[j] = o[j]
  <2> TAKE j \in 1 .. Len(o)
  <2>1. (b = 1 /\ j = 1) \/ (j - b \in 1 .. Len(m.incr) /\ j = b + (j - b) /\ j - b \in 1 .. Len(m.incr) + 1)
    BY <1>0, <1>1, <1>9
  <2>2. CASE b = 1 /\ j = 1
    BY <2>2, <1>1, <1>2
  <2>3. CASE j - b \in 1 .. Len(m.incr) /\ j = b + (j - b) /\ j - b \in 1 .. Len(m.incr) + 1
    <3>1. o[b + (j - b)] = Incr(m.incr[j - b])
      BY <1>1, <2>3
    <3>2. p[b + (j - b)] = Incr(q.incr[j - b]) /\ q.incr[j - b] = m.incr[j - b]
      BY <1>2, <1>3, <2>3
    <3> QED BY <2>3, <3>1, <3>2
  <2> QED BY <2>1, <2>2, <2>3
<1>6. p[Len(o) + 1] = Incr(k) /\ Len(o) \in Nat /\ DOMAIN p = 1 .. Len(o) + 1 /\ DOMAIN o = 1 .. Len(o)
  <2>1. Len(m.incr) + 1 \in 1 .. Len(m.incr) + 1 /\ b + (Len(m.incr) + 1) = Len(o) + 1
    BY <1>0, <1>1, <1>9
  <2>2. p[b + (Len(m.incr) + 1)] = Incr(k)
    BY <2>1, <1>2, <1>3
  <2> QED BY <2>1, <2>2, <1>0, <1>1, <1>2, <1>9
<1>7. Q = Append(P, x)
  <2>1. Q = [j \in 1 .. Len(o) + 1 |-> Whole(c[e[p[j]]])]
    BY <1>6 DEF Pieces
  <2>2. \A j \in 1 .. Len(o) : P[j] = Whole(c[e[o[j]]])
    BY <1>6 DEF Pieces
  <2>3. \A j \in 1 .. Len(o) : Q[j] = P[j]
    <3> HIDE DEF Q, P
    <3>1. \A j \in 1 .. Len(o) : Q[j] = Whole(c[e[p[j]]])
      BY <2>1, <1>6
    <3> QED BY <3>1, <2>2, <1>5
  <2>4. Q[Len(o) + 1] = x
    BY <2>1, <1>6
  <2>5. Q \in Seq(Seq(W)) /\ Len(Q) = Len(o) + 1
    <3>1. \A j \in 1 .. Len(o) + 1 : Whole(c[e[p[j]]]) \in Seq(W)
      <4> TAKE j \in 1 .. Len(o) + 1
      <4>1. CASE j = Len(o) + 1
        BY <4>1, <1>6
      <4>2. CASE j # Len(o) + 1
        <5>1. j \in DOMAIN o /\ j \in 1 .. Len(o)
          BY <4>2, <1>6
        <5>2. p[j] = o[j] /\ o[j] \in Names(m)
          BY <5>1, <1>5, LoadOrderNames
        <5> QED BY <5>2
      <4> QED BY <4>1, <4>2
    <3> HIDE DEF p
    <3> QED BY <2>1, <3>1, <1>6
  <2> HIDE DEF Q, P, o, x
  <2>6. x \in Seq(W)
    BY DEF x
  <2>7. Append(P, x) \in Seq(Seq(W)) /\ Len(Append(P, x)) = Len(o) + 1
     /\ Append(P, x)[Len(o) + 1] = x /\ \A j \in 1 .. Len(o) : Append(P, x)[j] = P[j]
    BY <1>4, <2>6, AppendProperties
  <2>8. \A j \in 1 .. Len(o) + 1 : Q[j] = Append(P, x)[j]
    <3> TAKE j \in 1 .. Len(o) + 1
    <3>1. j \in 1 .. Len(o) \/ j = Len(o) + 1
      BY <1>6
    <3> QED BY <3>1, <2>3, <2>4, <2>7
  <2> QED BY <2>5, <2>7, <2>8, SeqEqual
<1>8. x \in Seq(W)
  OBVIOUS
<1> HIDE DEF P, x, Q
<1>10. FlattenSeq(Q) = FlattenSeq(P) \o x
  BY <1>7, <1>8, <1>4, FlattenAppend
<1> QED BY <1>10, LogIs DEF P, Q, x

LEMMA LogEmpty ==
  ASSUME NEW m, m.base = 0, m.incr = <<>>, NEW e, NEW c
  PROVE  Log(m, e, c) = <<>>
<1>1. LoadOrder(m) = <<>> \o <<>>
  BY DEF LoadOrder
<1>2. LoadOrder(m) = <<>>
  BY <1>1
<1>3. Pieces(m, e, c) = <<>>
  BY <1>2 DEF Pieces
<1> QED BY <1>3, LogIs, FlattenEmpty

LEMMA LogOne ==
  ASSUME NEW m, m.base \in Nat \ {0}, m.incr = <<>>, NEW e, NEW c, NEW W,
         Whole(c[e[Base(m.base)]]) \in Seq(W)
  PROVE  Log(m, e, c) = Whole(c[e[Base(m.base)]])
<1> DEFINE x == Whole(c[e[Base(m.base)]])
<1>1. LoadOrder(m) = <<Base(m.base)>> \o <<>>
  BY DEF LoadOrder
<1>2. LoadOrder(m) = <<Base(m.base)>>
  BY <1>1
<1>3. Pieces(m, e, c) = <<x>>
  BY <1>2 DEF Pieces
<1> HIDE DEF x
<1>5. x \in Seq(W) /\ <<>> \in Seq(Seq(W)) /\ Append(<<>>, x) = <<x>> /\ <<>> \o x = x
  BY DEF x
<1>6. FlattenSeq(Append(<<>>, x)) = FlattenSeq(<<>>) \o x
  BY <1>5, FlattenAppend
<1> QED BY <1>3, <1>5, <1>6, LogIs, FlattenEmpty DEF x


-------------------------------------------------------------------------------

LEMMA EntIs ==
  ASSUME NEW e
  PROVE  e \in Ent <=> DOMAIN e \subseteq Name /\ e \in [DOMAIN e -> Inodes]
BY DEF Ent

LEMMA DirectoryIs ==
  ASSUME NEW d \in Directory
  PROVE  /\ d = [ent |-> d.ent, m |-> d.m] /\ d.ent \in Ent /\ d.m \in Numbered
         /\ Listed(d.m) /\ \A f \in DOMAIN d.ent : d.ent[f] \in Inodes
<1>1. d = [ent |-> d.ent, m |-> d.m] /\ d.ent \in Ent /\ d.m \in Numbered
  BY DEF Directory
<1>2. Listed(d.m)
  BY <1>1 DEF Numbered, Listed
<1> QED BY <1>1, <1>2, EntIs

LEMMA DirIs ==
  ASSUME Directories
  PROVE  /\ Dir = dirs[Len(dirs)] /\ Len(dirs) \in DOMAIN dirs /\ Dir \in Directory
         /\ Dir = [ent |-> Dir.ent, m |-> Dir.m] /\ Dir.ent \in Ent /\ Dir.m \in Numbered
         /\ Listed(Dir.m) /\ \A f \in DOMAIN Dir.ent : Dir.ent[f] \in Inodes
<1>1. Dir = dirs[Len(dirs)] /\ Len(dirs) \in DOMAIN dirs /\ Dir \in Directory
  BY DEF Dir, Last, Directories
<1> HIDE DEF Dir
<1> QED BY <1>1, DirectoryIs

LEMMA LinkIs ==
  ASSUME NEW e \in Ent, NEW f \in Name, NEW i \in Inodes
  PROVE  /\ Link(e, f, i) \in Ent /\ DOMAIN Link(e, f, i) = DOMAIN e \cup {f}
         /\ Link(e, f, i)[f] = i
         /\ \A x \in DOMAIN e : x # f => Link(e, f, i)[x] = e[x]
<1>1. DOMAIN e \subseteq Name /\ e \in [DOMAIN e -> Inodes]
  BY EntIs
<1>2. DOMAIN Link(e, f, i) = DOMAIN e \cup {f} /\ Link(e, f, i) \in [DOMAIN e \cup {f} -> Inodes]
  BY <1>1 DEF Link
<1>3. Link(e, f, i) \in Ent
  BY <1>1, <1>2, EntIs
<1> QED BY <1>2, <1>3 DEF Link

LEMMA UnlinkIs ==
  ASSUME NEW e \in Ent, NEW S
  PROVE  /\ Unlink(e, S) \in Ent /\ DOMAIN Unlink(e, S) = DOMAIN e \ S
         /\ \A x \in DOMAIN e \ S : Unlink(e, S)[x] = e[x]
<1>1. DOMAIN e \subseteq Name /\ e \in [DOMAIN e -> Inodes]
  BY EntIs
<1>2. DOMAIN Unlink(e, S) = DOMAIN e \ S /\ Unlink(e, S) \in [DOMAIN e \ S -> Inodes]
  BY <1>1 DEF Unlink
<1>3. Unlink(e, S) \in Ent
  BY <1>1, <1>2, EntIs
<1> QED BY <1>2, <1>3 DEF Unlink

LEMMA ChangeIs ==
  ASSUME Directories, NEW e \in Ent, Change(e)
  PROVE  /\ dirs' \in Seq(Directory) /\ dirs' # <<>>
         /\ Dir' = [ent |-> e, m |-> Dir.m]
         /\ DOMAIN dirs' = DOMAIN dirs \cup {Len(dirs) + 1}
         /\ \A i \in DOMAIN dirs : dirs'[i] = dirs[i]
         /\ dirs'[Len(dirs) + 1] = Dir'
<1> DEFINE d == [ent |-> e, m |-> Dir.m]
<1>1. d \in Directory /\ [Dir EXCEPT !.ent = e] = d
  BY DirIs DEF Directory
<1>2. dirs' = Append(dirs, d)
  BY <1>1 DEF Change
<1> HIDE DEF d
<1>3. dirs \in Seq(Directory) /\ Len(dirs) \in Nat /\ DOMAIN dirs = 1 .. Len(dirs)
  BY DEF Directories
<1>4. /\ dirs' \in Seq(Directory) /\ dirs' # <<>> /\ Len(dirs') = Len(dirs) + 1
      /\ \A i \in 1 .. Len(dirs) : dirs'[i] = dirs[i]
      /\ dirs'[Len(dirs) + 1] = d
  BY <1>1, <1>2, <1>3, AppendProperties
<1>5. DOMAIN dirs' = 1 .. Len(dirs) + 1
  BY <1>4
<1>6. 1 .. Len(dirs) + 1 = (1 .. Len(dirs)) \cup {Len(dirs) + 1}
  BY <1>3
<1>7. Dir' = d
  BY <1>4 DEF Dir, Last
<1> QED BY <1>3, <1>4, <1>5, <1>6, <1>7 DEF d

LEMMA PersistIs ==
  ASSUME Directories, NEW m \in Manifest, PersistAofManifest(m)
  PROVE  /\ dirs' \in Seq(Directory) /\ dirs' # <<>>
         /\ Dir' = [ent |-> Dir.ent, m |-> OnDisk(m)]
         /\ DOMAIN dirs' = {1} /\ dirs'[1] = Dir'
<1> DEFINE d == [ent |-> Dir.ent, m |-> OnDisk(m)]
<1>1. OnDisk(m) \in Numbered
  BY DEF OnDisk, Numbered, Manifest
<1>2. d \in Directory /\ [Dir EXCEPT !.m = OnDisk(m)] = d
  BY <1>1, DirIs DEF Directory
<1>3. dirs' = <<d>>
  BY <1>2 DEF PersistAofManifest
<1> HIDE DEF d
<1>4. dirs' \in Seq(Directory) /\ dirs' # <<>> /\ Len(dirs') = 1 /\ DOMAIN dirs' = {1} /\ dirs'[1] = d
  BY <1>2, <1>3
<1> QED BY <1>4 DEF d, Dir, Last

LEMMA FreshInode ==
  ASSUME NEW i \in Free
  PROVE  /\ i \in Inodes /\ i # fd
         /\ \A k \in DOMAIN dirs : \A f \in DOMAIN dirs[k].ent : dirs[k].ent[f] # i
BY DEF Free, Used, Range

LEMMA NewInodeFree ==
  ASSUME Free # {}
  PROVE  NewInode \in Free
BY DEF NewInode

-------------------------------------------------------------------------------
(* What the handlers do to a manifest.                                     *)

LEMMA ManifestIs ==
  ASSUME NEW m \in Manifest
  PROVE  /\ m = [base |-> m.base, incr |-> m.incr, hist |-> m.hist, iseq |-> m.iseq]
         /\ m.base \in Nat /\ m.incr \in Seq(Nat \ {0}) /\ m.hist \subseteq Name /\ m.iseq \in Nat
         /\ Listed(m)
         /\ Len(m.incr) \in Nat /\ DOMAIN m.incr = 1 .. Len(m.incr)
         /\ \A i \in 1 .. Len(m.incr) : m.incr[i] \in Nat \ {0}
BY DEF Manifest, Listed

LEMMA NamesAre ==
  ASSUME NEW m, Listed(m)
  PROVE  /\ Names(m) \subseteq Name /\ Older(m) \subseteq Names(m)
         /\ m.incr # <<>> => Newest(m) \in Names(m) /\ Names(m) = Older(m) \cup {Newest(m)}
<1>1. m.base \in Nat /\ m.incr \in Seq(Nat) /\ Len(m.incr) \in Nat /\ \A i \in 1 .. Len(m.incr) : m.incr[i] \in Nat
  BY DEF Listed
<1>2. Names(m) \subseteq Name /\ Older(m) \subseteq Names(m)
  BY <1>1 DEF Names, Older, Name, Base, Incr
<1>3. ASSUME m.incr # <<>> PROVE Len(m.incr) \in 1 .. Len(m.incr) /\ 1 .. Len(m.incr) = (1 .. Len(m.incr) - 1) \cup {Len(m.incr)}
  BY <1>1, <1>3
<1>4. ASSUME m.incr # <<>> PROVE Newest(m) \in Names(m) /\ Names(m) \subseteq Older(m) \cup {Newest(m)}
  BY <1>3, <1>4 DEF Names, Older, Newest
<1> QED BY <1>2, <1>4

LEMMA SameNames ==
  ASSUME NEW m, NEW q, SameFiles(m, q)
  PROVE  Names(m) = Names(q) /\ Older(m) = Older(q) /\ Newest(m) = Newest(q) /\ LoadOrder(m) = LoadOrder(q)
BY DEF SameFiles, Names, Older, Newest, LoadOrder

LEMMA HistoryApart ==
  ASSUME NEW m, Listed(m), Sorted(m)
  PROVE  Names(m) \cap m.hist = {}
<1> SUFFICES ASSUME NEW f \in m.hist, f \in Names(m) PROVE FALSE
  OBVIOUS
<1>1. m.base \in Nat /\ m.incr \in Seq(Nat) /\ Len(m.incr) \in Nat /\ \A i \in 1 .. Len(m.incr) : m.incr[i] \in Nat
  BY DEF Listed
<1>2. PICK k \in Nat : \/ f = Base(k) /\ k < m.base
                       \/ f = Incr(k) /\ \A i \in 1 .. Len(m.incr) : k < m.incr[i]
  BY DEF Sorted
<1> QED BY <1>1, <1>2 DEF Names, Base, Incr

LEMMA NewIncrIs ==
  ASSUME NEW m \in Manifest, Sorted(m), Counted(m), NEW q, q = GetNewIncrAofName(m)
  PROVE  /\ q \in Manifest /\ q.base = m.base /\ q.incr = Append(m.incr, m.iseq + 1)
         /\ q.hist = m.hist /\ q.iseq = m.iseq + 1 /\ q.incr # <<>>
         /\ Sorted(q) /\ Counted(q)
         /\ Newest(q) = Incr(q.iseq) /\ Older(q) = Names(m) /\ Newest(q) \notin Names(m)
         /\ Names(q) = Names(m) \cup {Newest(q)} /\ Newest(q) \notin m.hist
         /\ Newest(q) \in Name
<1>1. /\ m = [base |-> m.base, incr |-> m.incr, hist |-> m.hist, iseq |-> m.iseq]
      /\ m.base \in Nat /\ m.incr \in Seq(Nat \ {0}) /\ m.hist \subseteq Name /\ m.iseq \in Nat
      /\ Len(m.incr) \in Nat /\ \A i \in 1 .. Len(m.incr) : m.incr[i] \in Nat \ {0}
  BY ManifestIs
<1>2. q = [base |-> m.base, incr |-> Append(m.incr, m.iseq + 1), hist |-> m.hist, iseq |-> m.iseq + 1]
  BY <1>1 DEF GetNewIncrAofName
<1>3. q.base = m.base /\ q.incr = Append(m.incr, m.iseq + 1) /\ q.hist = m.hist /\ q.iseq = m.iseq + 1
  BY <1>2
<1>4. /\ q.incr \in Seq(Nat \ {0}) /\ q.incr # <<>> /\ Len(q.incr) = Len(m.incr) + 1
      /\ \A i \in 1 .. Len(m.incr) : q.incr[i] = m.incr[i]
      /\ q.incr[Len(m.incr) + 1] = m.iseq + 1
  BY <1>1, <1>3, AppendProperties
<1>5. q \in Manifest
  BY <1>1, <1>2, <1>3, <1>4 DEF Manifest
<1>6. m.incr # <<>> => m.iseq = m.incr[Len(m.incr)]
  BY DEF Counted
<1>7. \A i \in 1 .. Len(m.incr) : m.incr[i] < m.iseq + 1
  <2> TAKE i \in 1 .. Len(m.incr)
  <2>1. m.incr # <<>>
    BY <1>1
  <2>2. i \in 1 .. Len(m.incr) - 1 \/ i = Len(m.incr)
    BY <1>1
  <2>3. m.incr[i] <= m.iseq
    BY <2>1, <2>2, <1>1, <1>6 DEF Sorted
  <2> QED BY <2>3, <1>1
<1>8. \A f \in m.hist : \E k \in Nat : \/ f = Base(k) /\ k < m.base
                                       \/ /\ f = Incr(k) /\ k < m.iseq + 1
                                          /\ \A i \in 1 .. Len(m.incr) : k < m.incr[i]
  <2> TAKE f \in m.hist
  <2>1. m.incr # <<>> /\ Len(m.incr) \in 1 .. Len(m.incr)
    BY <1>1 DEF Sorted
  <2>2. PICK k \in Nat : \/ f = Base(k) /\ k < m.base
                         \/ f = Incr(k) /\ \A i \in 1 .. Len(m.incr) : k < m.incr[i]
    BY DEF Sorted
  <2>3. (\A i \in 1 .. Len(m.incr) : k < m.incr[i]) => k < m.iseq + 1
    BY <2>1, <1>6, <1>1
  <2> QED BY <2>2, <2>3
<1>9. 1 .. Len(q.incr) = (1 .. Len(m.incr)) \cup {Len(m.incr) + 1} /\ Len(q.incr) - 1 = Len(m.incr)
  BY <1>1, <1>4
<1>10. Sorted(q)
  <2>1. \A i \in 1 .. Len(q.incr) - 1 : q.incr[i] < q.incr[Len(q.incr)]
    BY <1>4, <1>7, <1>9
  <2>2. \A f \in q.hist :
          \E k \in Nat : \/ f = Base(k) /\ k < q.base
                         \/ f = Incr(k) /\ \A i \in 1 .. Len(q.incr) : k < q.incr[i]
    BY <1>3, <1>4, <1>8, <1>9
  <2> QED BY <1>4, <2>1, <2>2 DEF Sorted
<1>11. Counted(q)
  BY <1>3, <1>4 DEF Counted
<1>12. Newest(q) = Incr(q.iseq) /\ Newest(q) \in Name
  BY <1>1, <1>3, <1>4 DEF Newest, Name, Incr
<1>13. Older(q) = Names(m)
  BY <1>3, <1>4, <1>9 DEF Older, Names
<1>14. Names(q) = Names(m) \cup {Newest(q)}
  <2>1. Names(q) = Older(q) \cup {Newest(q)}
    BY <1>4, <1>5, ManifestIs, NamesAre
  <2> QED BY <2>1, <1>13
<1>15. Newest(q) \notin Names(m)
  BY <1>1, <1>3, <1>7, <1>12 DEF Names, Incr, Base
<1>16. Newest(q) \notin m.hist
  BY <1>1, <1>3, <1>8, <1>12 DEF Incr, Base
<1> QED BY <1>3, <1>4, <1>5, <1>10, <1>11, <1>12, <1>13, <1>14, <1>15, <1>16

LEMMA NewBaseIs ==
  ASSUME NEW m \in Manifest, Good(m), Counted(m), NEW q, q = GetNewBaseFileNameAndMarkPreAsHistory(m)
  PROVE  /\ q \in Manifest /\ q.base = m.base + 1 /\ q.incr = m.incr /\ q.iseq = m.iseq
         /\ q.hist = m.hist \cup {Base(k) : k \in {m.base} \ {0}}
         /\ Sorted(q) /\ Counted(q)
         /\ Base(q.base) \notin Names(m) /\ Base(q.base) \in Names(q) /\ Base(q.base) \notin q.hist
         /\ Base(q.base) \in Name
         /\ m.incr # <<>> => Newest(q) = Newest(m)
         /\ \A f \in Names(q) : f = Base(q.base) \/ f \in Names(m)
<1>1. /\ m = [base |-> m.base, incr |-> m.incr, hist |-> m.hist, iseq |-> m.iseq]
      /\ m.base \in Nat /\ m.incr \in Seq(Nat \ {0}) /\ m.hist \subseteq Name /\ m.iseq \in Nat
      /\ Len(m.incr) \in Nat /\ \A i \in 1 .. Len(m.incr) : m.incr[i] \in Nat \ {0}
  BY ManifestIs
<1> DEFINE H == m.hist \cup {Base(k) : k \in {m.base} \ {0}}
<1>2. (IF m.base = 0 THEN {} ELSE {Base(m.base)}) = {Base(k) : k \in {m.base} \ {0}}
  OBVIOUS
<1>3. q = [base |-> m.base + 1, incr |-> m.incr, hist |-> H, iseq |-> m.iseq]
  BY <1>1, <1>2 DEF GetNewBaseFileNameAndMarkPreAsHistory
<1>4. q.base = m.base + 1 /\ q.incr = m.incr /\ q.iseq = m.iseq /\ q.hist = H
  BY <1>3
<1>5. H \subseteq Name /\ Base(m.base + 1) \in Name
  BY <1>1 DEF Name, Base
<1> HIDE DEF H
<1>6. q \in Manifest
  BY <1>1, <1>3, <1>4, <1>5 DEF Manifest
<1>7. Sorted(q)
  <2>1. q.incr = <<>> => q.hist = {}
    BY <1>4 DEF Good, Sorted, H
  <2>2. ASSUME NEW f \in H
        PROVE  \E k \in Nat : \/ f = Base(k) /\ k < m.base + 1
                              \/ f = Incr(k) /\ \A i \in 1 .. Len(m.incr) : k < m.incr[i]
    <3>1. CASE f \in m.hist
      <4>1. PICK k \in Nat : \/ f = Base(k) /\ k < m.base
                             \/ f = Incr(k) /\ \A i \in 1 .. Len(m.incr) : k < m.incr[i]
        BY <3>1 DEF Good, Sorted
      <4>2. k < m.base => k < m.base + 1
        BY <1>1
      <4> QED BY <4>1, <4>2
    <3>2. CASE f = Base(m.base)
      <4>1. m.base < m.base + 1
        BY <1>1
      <4> QED BY <4>1, <3>2, <1>1
    <3> QED BY <3>1, <3>2, <2>2 DEF H
  <2>3. \A i \in 1 .. Len(q.incr) - 1 : q.incr[i] < q.incr[Len(q.incr)]
    BY <1>4 DEF Good, Sorted
  <2> QED BY <1>4, <2>1, <2>2, <2>3 DEF Sorted
<1>8. Counted(q)
  BY <1>4 DEF Counted
<1>9. Base(q.base) \notin Names(m) /\ Base(q.base) \in Names(q)
  BY <1>1, <1>4 DEF Names, Base, Incr
<1>10. Base(q.base) \notin q.hist
  <2>1. Listed(q)
    BY <1>6, ManifestIs
  <2> QED BY <2>1, <1>7, <1>9, HistoryApart
<1>11. m.incr # <<>> => Newest(q) = Newest(m)
  BY <1>4 DEF Newest
<1>12. \A f \in Names(q) : f = Base(q.base) \/ f \in Names(m)
  BY <1>4 DEF Names
<1> QED BY <1>4, <1>5, <1>6, <1>7, <1>8, <1>9, <1>10, <1>11, <1>12 DEF H

LEMMA MarkIs ==
  ASSUME NEW m \in Manifest, m.base # 0, m.incr # <<>>, Sorted(m), Counted(m), fd # None,
         NEW q, q = MarkRewrittenIncrAofAsHistory(m)
  PROVE  /\ q \in Manifest /\ q.base = m.base /\ q.incr = <<m.incr[Len(m.incr)]>> /\ q.iseq = m.iseq
         /\ Good(q) /\ Counted(q)
         /\ Newest(q) = Newest(m) /\ Older(q) = {Base(m.base)}
         /\ Names(q) = {Base(m.base), Newest(m)} /\ Newest(m) # Base(m.base)
<1>1. /\ m = [base |-> m.base, incr |-> m.incr, hist |-> m.hist, iseq |-> m.iseq]
      /\ m.base \in Nat /\ m.incr \in Seq(Nat \ {0}) /\ m.hist \subseteq Name /\ m.iseq \in Nat
      /\ Len(m.incr) \in Nat /\ DOMAIN m.incr = 1 .. Len(m.incr)
      /\ \A i \in 1 .. Len(m.incr) : m.incr[i] \in Nat \ {0}
  BY ManifestIs
<1> DEFINE z == m.incr[Len(m.incr)]
           H == m.hist \cup {Incr(k) : k \in Range(m.incr) \ Range(<<z>>)}
<1>2. Len(m.incr) \in 1 .. Len(m.incr) /\ z \in Nat \ {0}
  BY <1>1
<1>3. q = [base |-> m.base, incr |-> <<z>>, hist |-> H, iseq |-> m.iseq]
  BY <1>1 DEF MarkRewrittenIncrAofAsHistory, Last
<1>4. q.base = m.base /\ q.incr = <<z>> /\ q.iseq = m.iseq /\ q.hist = H
  BY <1>3
<1>5. \A k \in Range(m.incr) \ Range(<<z>>) : k \in Nat /\ k < z
  <2> TAKE k \in Range(m.incr) \ Range(<<z>>)
  <2>1. PICK i \in 1 .. Len(m.incr) : k = m.incr[i]
    BY <1>1 DEF Range
  <2>2. k # z
    BY DEF Range
  <2>3. i \in 1 .. Len(m.incr) - 1
    BY <2>1, <2>2, <1>1
  <2> QED BY <2>1, <2>3, <1>1 DEF Sorted
<1>6. H \subseteq Name
  BY <1>1, <1>5 DEF Name, Incr
<1>7. \A f \in m.hist : \E k \in Nat : \/ f = Base(k) /\ k < m.base
                                       \/ f = Incr(k) /\ k < z
  BY <1>2 DEF Sorted
<1> HIDE DEF z
<1>8. \A f \in H : \E k \in Nat : \/ f = Base(k) /\ k < m.base
                                  \/ f = Incr(k) /\ k < z
  BY <1>5, <1>7
<1> HIDE DEF H
<1>9. q \in Manifest
  BY <1>1, <1>2, <1>3, <1>4, <1>6 DEF Manifest
<1>10. Len(<<z>>) = 1 /\ <<z>>[1] = z /\ <<z>> # <<>> /\ 1 .. Len(<<z>>) = {1} /\ 1 .. Len(<<z>>) - 1 = {}
  OBVIOUS
<1>11. Good(q)
  BY <1>4, <1>8, <1>10 DEF Good, Sorted
<1>12. Counted(q)
  BY <1>4, <1>10 DEF Counted, z
<1>13. Newest(q) = Newest(m)
  BY <1>4, <1>10 DEF Newest, z
<1>14. Older(q) = {Base(m.base)}
  BY <1>4, <1>10 DEF Older
<1>15. Names(q) = {Base(m.base), Newest(m)}
  BY <1>4, <1>10, <1>13 DEF Names, Newest
<1>16. Newest(m) # Base(m.base)
  BY DEF Newest, Incr, Base
<1> QED BY <1>4, <1>9, <1>11, <1>12, <1>13, <1>14, <1>15, <1>16 DEF z

LEMMA LoadManifestIs ==
  ASSUME NEW m \in Numbered, NEW q, q = AofLoadManifestFromDisk(m)
  PROVE  /\ q \in Manifest /\ SameFiles(m, q) /\ q.hist = m.hist /\ Counted(q)
         /\ Good(m) => Good(q)
<1>1. m.base \in Nat /\ m.incr \in Seq(Nat \ {0}) /\ m.hist \subseteq Name
  BY DEF Numbered
<1>2. (IF m.incr = <<>> THEN 0 ELSE Last(m.incr)) \in Nat
  BY <1>1 DEF Last
<1>3. /\ q = [base |-> m.base, incr |-> m.incr, hist |-> m.hist, iseq |-> q.iseq]
      /\ q.iseq = (IF m.incr = <<>> THEN 0 ELSE Last(m.incr))
  BY DEF AofLoadManifestFromDisk
<1>4. q \in Manifest
  BY <1>1, <1>2, <1>3 DEF Manifest
<1>5. SameFiles(m, q) /\ q.hist = m.hist /\ q.base = m.base /\ q.incr = m.incr
  BY <1>3 DEF SameFiles
<1>6. Counted(q)
  BY <1>3, <1>5 DEF Counted, Last
<1>7. Good(m) => Good(q)
  BY <1>5 DEF Good, Sorted
<1> QED BY <1>4, <1>5, <1>6, <1>7

LEMMA OnDiskIs ==
  ASSUME NEW m \in Manifest
  PROVE  /\ OnDisk(m) \in Numbered /\ SameFiles(OnDisk(m), m) /\ OnDisk(m).hist = m.hist
         /\ Good(m) => Good(OnDisk(m))
BY DEF OnDisk, Numbered, Manifest, SameFiles, Good, Sorted

(* Every step keeps the types.                                             *)
LEMMA FlowStep ==
  ASSUME Flow, Control, Next
  PROVE  Flow'
<1>1. CASE FeedAppendOnlyFile
  BY <1>1 DEF FeedAppendOnlyFile, file, offs, bounds, Flow, PCs
<1>2. CASE BeforeSleep
  BY <1>2 DEF BeforeSleep, file, offs, bounds, Flow, PCs
<1>3. CASE FlushPostpone
  BY <1>3 DEF FlushPostpone, AofFsyncInProgress, file, offs, bounds, Flow, PCs
<1>4. CASE FlushWrite
  BY <1>4 DEF FlushWrite, file, offs, bounds, Flow, PCs
<1>5. CASE FlushError
  BY <1>5 DEF FlushError, Fault, file, offs, bounds, Flow, PCs
<1>6. CASE FsyncAlways
  BY <1>6 DEF FsyncAlways, Size, file, offs, bounds, Flow, PCs
<1>7. CASE Reply
  BY <1>7 DEF Reply, file, offs, bounds, Flow, PCs
<1>8. CASE BioProcessBackgroundJob
  BY <1>8 DEF BioProcessBackgroundJob, Fault, NoFault, file, offs, bounds, Flow, PCs
<1>9. CASE ScheduledRewrite
  BY <1>9 DEF ScheduledRewrite, file, offs, bounds, Flow, PCs
<1>10. CASE OpenNewIncrAofForAppend
  BY <1>10 DEF OpenNewIncrAofForAppend, NoFault, Fault, RewriteRefused, SwapAofFd, Change, Create,
     file, offs, bounds, Flow, PCs
<1>11. CASE PersistNewIncr
  BY <1>11 DEF PersistNewIncr, NoFault, Fault, RewriteRefused, SwapAofFd, PersistAofManifest,
     PersistUnsynced, file, offs, bounds, Flow, PCs
<1>12. CASE DrainBioFsync
  BY <1>12 DEF DrainBioFsync, AofFsyncInProgress, file, offs, bounds, Flow, PCs
<1>13. CASE Fork
  BY <1>13 DEF Fork, NoFault, Fault, RewriteRefused, file, offs, bounds, Flow, PCs
<1>14. CASE ChildExits
  BY <1>14 DEF ChildExits, NoFault, Fault, file, offs, bounds, Flow, PCs
<1>15. CASE ReapChild
  BY <1>15 DEF ReapChild, Cleanup, Change, file, offs, bounds, Flow, PCs
<1>16. CASE RenameBase
  BY <1>16 DEF RenameBase, NoFault, Fault, Cleanup, Change, Create, file, offs, bounds, Flow, PCs
<1>17. CASE RenameIncr
  BY <1>17 DEF RenameIncr, NoFault, Fault, Cleanup, Change, file, offs, bounds, Flow, PCs
<1>18. CASE PersistRewrite
  BY <1>18 DEF PersistRewrite, NoFault, Fault, Cleanup, Change, PersistAofManifest, file, offs,
     bounds, Flow, PCs
<1>19. CASE DelHistoryFiles
  BY <1>19 DEF DelHistoryFiles, Change, file, offs, bounds, Flow, PCs
<1>20. CASE RewriteDone
  BY <1>20 DEF RewriteDone, NoFault, Fault, PersistAofManifest, file, offs, bounds, Flow, PCs
<1>21. CASE StopAppendOnly
  BY <1>21 DEF StopAppendOnly, file, offs, bounds, Flow, PCs
<1>22. CASE AppendOnlyStopped
  BY <1>22 DEF AppendOnlyStopped, FsyncAndClose, file, offs, bounds, Flow, PCs
<1>23. CASE PrepareForShutdown
  BY <1>23 DEF PrepareForShutdown, file, offs, bounds, Flow, PCs
<1>24. CASE Exit
  BY <1>24 DEF Exit, FsyncAndClose, Terminate, file, offs, bounds, Flow, PCs
<1>25. CASE Crash
  BY <1>25 DEF Crash, Terminate, file, offs, bounds, Flow, PCs
<1>26. CASE LoadAppendOnlyFiles
  BY <1>26 DEF LoadAppendOnlyFiles, file, offs, bounds, Flow, PCs
<1>27. CASE OpenOnServerStart
  BY <1>27 DEF OpenOnServerStart, Change, file, offs, bounds, Flow, PCs
<1>28. CASE PersistOnServerStart
  BY <1>28 DEF PersistOnServerStart, PersistAofManifest, file, offs, bounds, Flow, PCs
<1>29. ASSUME NEW late \in BOOLEAN, FlushEmpty(late) PROVE Flow'
  BY <1>29 DEF FlushEmpty, AofFsyncInProgress, file, offs, bounds, Flow, PCs
<1>30. ASSUME NEW late \in BOOLEAN, FsyncInBackground(late) PROVE Flow'
  BY <1>30 DEF FsyncInBackground, AofFsyncInProgress, file, offs, bounds, Flow, PCs
<1>31. ASSUME NEW busy \in BOOLEAN, BgrewriteaofCommand(busy) PROVE Flow'
  BY <1>31 DEF BgrewriteaofCommand, file, offs, bounds, Flow, PCs
<1>32. ASSUME NEW busy \in BOOLEAN, StartAppendOnly(busy) PROVE Flow'
  BY <1>32 DEF StartAppendOnly, file, offs, bounds, Flow, PCs
<1> QED
  BY <1>1, <1>2, <1>3, <1>4, <1>5, <1>6, <1>7, <1>8, <1>9, <1>10, <1>11, <1>12, <1>13, <1>14, <1>15,
     <1>16, <1>17, <1>18, <1>19, <1>20, <1>21, <1>22, <1>23, <1>24, <1>25, <1>26, <1>27, <1>28,
     <1>29, <1>30, <1>31, <1>32 DEF Next, Flush, Rewrite, Restart

LEMMA CountsStep ==
  ASSUME Flow, Counts, Memory, Next
  PROVE  Counts'
<1>1. CASE FeedAppendOnlyFile
  BY <1>1 DEF FeedAppendOnlyFile, file, offs, bounds, Counts, Memory, Words
<1>2. CASE BeforeSleep
  BY <1>2 DEF BeforeSleep, file, offs, bounds, Counts, Memory, Words
<1>3. CASE FlushPostpone
  BY <1>3 DEF FlushPostpone, AofFsyncInProgress, file, offs, bounds, Counts, Memory, Words
<1>4. CASE FlushWrite
  BY <1>4 DEF FlushWrite, file, offs, bounds, Counts, Memory, Words
<1>5. CASE FlushError
  BY <1>5 DEF FlushError, Fault, file, offs, bounds, Counts, Memory, Words
<1>6. CASE FsyncAlways
  BY <1>6 DEF FsyncAlways, Size, file, offs, bounds, Counts, Memory, Words
<1>7. CASE Reply
  BY <1>7 DEF Reply, file, offs, bounds, Counts, Memory, Words
<1>8. CASE BioProcessBackgroundJob
  <2>1. Head(bio) \in Job
    BY <1>8 DEF BioProcessBackgroundJob, Memory
  <2>2. Head(bio).off \in Nat
    BY <2>1 DEF Job
  <2> QED BY <1>8, <2>2 DEF BioProcessBackgroundJob, Fault, NoFault, offs, bounds, Counts
<1>9. CASE ScheduledRewrite
  BY <1>9 DEF ScheduledRewrite, file, offs, bounds, Counts, Memory, Words
<1>10. CASE OpenNewIncrAofForAppend
  BY <1>10 DEF OpenNewIncrAofForAppend, NoFault, Fault, RewriteRefused, SwapAofFd, Change, Create,
     file, offs, bounds, Counts, Memory, Words
<1>11. CASE PersistNewIncr
  BY <1>11 DEF PersistNewIncr, NoFault, Fault, RewriteRefused, SwapAofFd, PersistAofManifest,
     PersistUnsynced, file, offs, bounds, Counts, Memory, Words
<1>12. CASE DrainBioFsync
  BY <1>12 DEF DrainBioFsync, AofFsyncInProgress, file, offs, bounds, Counts, Memory, Words
<1>13. CASE Fork
  BY <1>13 DEF Fork, NoFault, Fault, RewriteRefused, file, offs, bounds, Counts, Memory, Words
<1>14. CASE ChildExits
  BY <1>14 DEF ChildExits, NoFault, Fault, file, offs, bounds, Counts, Memory, Words
<1>15. CASE ReapChild
  BY <1>15 DEF ReapChild, Cleanup, Change, file, offs, bounds, Counts, Memory, Words
<1>16. CASE RenameBase
  BY <1>16 DEF RenameBase, NoFault, Fault, Cleanup, Change, Create, file, offs, bounds, Counts, Memory, Words
<1>17. CASE RenameIncr
  BY <1>17 DEF RenameIncr, NoFault, Fault, Cleanup, Change, file, offs, bounds, Counts, Memory, Words
<1>18. CASE PersistRewrite
  BY <1>18 DEF PersistRewrite, NoFault, Fault, Cleanup, Change, PersistAofManifest, file, offs,
     bounds, Counts, Memory, Words
<1>19. CASE DelHistoryFiles
  BY <1>19 DEF DelHistoryFiles, Change, file, offs, bounds, Counts, Memory, Words
<1>20. CASE RewriteDone
  BY <1>20 DEF RewriteDone, NoFault, Fault, PersistAofManifest, file, offs, bounds, Counts, Memory, Words
<1>21. CASE StopAppendOnly
  BY <1>21 DEF StopAppendOnly, file, offs, bounds, Counts, Memory, Words
<1>22. CASE AppendOnlyStopped
  BY <1>22 DEF AppendOnlyStopped, FsyncAndClose, file, offs, bounds, Counts, Memory, Words
<1>23. CASE PrepareForShutdown
  BY <1>23 DEF PrepareForShutdown, file, offs, bounds, Counts, Memory, Words
<1>24. CASE Exit
  BY <1>24 DEF Exit, FsyncAndClose, Terminate, file, offs, bounds, Counts, Memory, Words
<1>25. CASE Crash
  BY <1>25 DEF Crash, Terminate, file, offs, bounds, Counts, Memory, Words
<1>26. CASE LoadAppendOnlyFiles
  BY <1>26 DEF LoadAppendOnlyFiles, file, offs, bounds, Counts, Memory, Words
<1>27. CASE OpenOnServerStart
  BY <1>27 DEF OpenOnServerStart, Change, file, offs, bounds, Counts, Memory, Words
<1>28. CASE PersistOnServerStart
  BY <1>28 DEF PersistOnServerStart, PersistAofManifest, file, offs, bounds, Counts, Memory, Words
<1>29. ASSUME NEW late \in BOOLEAN, FlushEmpty(late) PROVE Counts'
  BY <1>29 DEF FlushEmpty, AofFsyncInProgress, file, offs, bounds, Counts, Memory, Words
<1>30. ASSUME NEW late \in BOOLEAN, FsyncInBackground(late) PROVE Counts'
  BY <1>30 DEF FsyncInBackground, AofFsyncInProgress, file, offs, bounds, Counts, Memory, Words
<1>31. ASSUME NEW busy \in BOOLEAN, BgrewriteaofCommand(busy) PROVE Counts'
  BY <1>31 DEF BgrewriteaofCommand, file, offs, bounds, Counts, Memory, Words
<1>32. ASSUME NEW busy \in BOOLEAN, StartAppendOnly(busy) PROVE Counts'
  BY <1>32 DEF StartAppendOnly, file, offs, bounds, Counts, Memory, Words
<1> QED
  BY <1>1, <1>2, <1>3, <1>4, <1>5, <1>6, <1>7, <1>8, <1>9, <1>10, <1>11, <1>12, <1>13, <1>14, <1>15,
     <1>16, <1>17, <1>18, <1>19, <1>20, <1>21, <1>22, <1>23, <1>24, <1>25, <1>26, <1>27, <1>28,
     <1>29, <1>30, <1>31, <1>32 DEF Next, Flush, Rewrite, Restart

LEMMA MemoryStep ==
  ASSUME Flow, Memory, Directories, Files, Disk, Manifests, Prepared, Next
  PROVE  Memory'
<1>1. CASE FeedAppendOnlyFile
  <2>1. n + 1 \in 1 .. MaxWrites
    BY <1>1, BoundsAssumption DEF FeedAppendOnlyFile, Flow
  <2>2. Append(data, n + 1) \in Words /\ Append(buf, n + 1) \in Words
    BY <2>1 DEF Memory, Words
  <2> QED BY <1>1, <2>2 DEF FeedAppendOnlyFile, Memory
<1>2. CASE BeforeSleep
  BY <1>2 DEF BeforeSleep, file, offs, bounds, Memory, Words
<1>3. CASE FlushPostpone
  BY <1>3 DEF FlushPostpone, AofFsyncInProgress, file, offs, bounds, Memory, Words
<1>4. CASE FlushWrite
  BY <1>4 DEF FlushWrite, file, offs, bounds, Memory, Words
<1>5. CASE FlushError
  BY <1>5 DEF FlushError, Fault, file, offs, bounds, Memory, Words
<1>6. CASE FsyncAlways
  BY <1>6 DEF FsyncAlways, Size, file, offs, bounds, Memory, Words
<1>7. CASE Reply
  BY <1>7 DEF Reply, file, offs, bounds, Memory, Words
<1>8. CASE BioProcessBackgroundJob
  BY <1>8 DEF BioProcessBackgroundJob, Fault, NoFault, file, offs, bounds, Memory, Words
<1>9. CASE ScheduledRewrite
  BY <1>9 DEF ScheduledRewrite, file, offs, bounds, Memory, Words
<1>10. CASE OpenNewIncrAofForAppend
  <2>1. Free # {} => NewInode \in Inodes
    BY NewInodeFree, FreshInode
  <2>2. Len(data) \in Nat /\ [type |-> "close", ino |-> fd, off |-> Len(data)] \in Job
    BY DEF Memory, Words, Job
  <2>3. Append(bio, [type |-> "close", ino |-> fd, off |-> Len(data)]) \in Seq(Job)
    BY <2>2 DEF Memory
  <2> QED BY <1>10, <2>1, <2>3 DEF OpenNewIncrAofForAppend, SwapAofFd, Memory
<1>11. CASE PersistNewIncr
  <2>1. Dir.ent[Incr(tm.iseq)] \in Inodes
    BY <1>11, DirIs DEF PersistNewIncr, Prepared
  <2>2. Len(data) \in Nat /\ [type |-> "close", ino |-> fd, off |-> Len(data)] \in Job
    BY DEF Memory, Words, Job
  <2>3. Append(bio, [type |-> "close", ino |-> fd, off |-> Len(data)]) \in Seq(Job)
    BY <2>2 DEF Memory
  <2> QED BY <1>11, <2>1, <2>3 DEF PersistNewIncr, SwapAofFd, Memory
<1>12. CASE DrainBioFsync
  BY <1>12 DEF DrainBioFsync, AofFsyncInProgress, file, offs, bounds, Memory, Words
<1>13. CASE Fork
  BY <1>13 DEF Fork, NoFault, Fault, RewriteRefused, file, offs, bounds, Memory, Words, ChildType
<1>14. CASE ChildExits
  BY <1>14 DEF ChildExits, NoFault, Fault, file, offs, bounds, Memory, Words, ChildType
<1>15. CASE ReapChild
  <2>1. data' = data /\ fd' = fd /\ bio' = bio
    BY <1>15 DEF ReapChild
  <2>2. (buf' = buf \/ buf' = <<>>) /\ (child' = child \/ child' = None)
    BY <1>15 DEF ReapChild, Cleanup
  <2>3. <<>> \in Words
    BY DEF Words
  <2> QED BY <2>1, <2>2, <2>3 DEF Memory
<1>16. CASE RenameBase
  <2>1. data' = data /\ fd' = fd /\ bio' = bio
    BY <1>16 DEF RenameBase
  <2>2. (buf' = buf \/ buf' = <<>>) /\ (child' = child \/ child' = None)
    BY <1>16 DEF RenameBase, Cleanup
  <2>3. <<>> \in Words
    BY DEF Words
  <2> QED BY <2>1, <2>2, <2>3 DEF Memory
<1>17. CASE RenameIncr
  <2>1. data' = data /\ fd' = fd /\ bio' = bio
    BY <1>17 DEF RenameIncr
  <2>2. (buf' = buf \/ buf' = <<>>) /\ (child' = child \/ child' = None)
    BY <1>17 DEF RenameIncr, Cleanup
  <2>3. <<>> \in Words
    BY DEF Words
  <2> QED BY <2>1, <2>2, <2>3 DEF Memory
<1>18. CASE PersistRewrite
  <2>1. data' = data /\ fd' = fd /\ bio' = bio
    BY <1>18 DEF PersistRewrite
  <2>2. (buf' = buf \/ buf' = <<>>) /\ (child' = child \/ child' = None)
    BY <1>18 DEF PersistRewrite, Cleanup
  <2>3. <<>> \in Words
    BY DEF Words
  <2> QED BY <2>1, <2>2, <2>3 DEF Memory
<1>19. CASE DelHistoryFiles
  BY <1>19 DEF DelHistoryFiles, Change, file, offs, bounds, Memory, Words
<1>20. CASE RewriteDone
  BY <1>20 DEF RewriteDone, NoFault, Fault, PersistAofManifest, file, offs, bounds, Memory, Words
<1>21. CASE StopAppendOnly
  BY <1>21 DEF StopAppendOnly, file, offs, bounds, Memory, Words
<1>22. CASE AppendOnlyStopped
  BY <1>22 DEF AppendOnlyStopped, FsyncAndClose, file, offs, bounds, Memory, Words
<1>23. CASE PrepareForShutdown
  BY <1>23 DEF PrepareForShutdown, file, offs, bounds, Memory, Words
<1>24. CASE Exit
  BY <1>24 DEF Exit, FsyncAndClose, Terminate, file, offs, bounds, Memory, Words
<1>25. CASE Crash
  BY <1>25 DEF Crash, Terminate, file, offs, bounds, Memory, Words
<1>26. CASE LoadAppendOnlyFiles
  <2>1. Listed(Dir.m)
    BY DirIs
  <2>2. Loadable(Dir, cont) => \A f \in Names(Dir.m) : Dir.ent[f] \in Inodes
    BY <1>26, DirIs DEF Disk, Manifests, Held
  <2>3. Loadable(Dir, cont) => Loaded(Dir, cont) \in Words
    BY <2>1, <2>2, LoadedIsLog, LogType DEF Files, Words
  <2> QED BY <1>26, <2>3 DEF LoadAppendOnlyFiles, Memory
<1>27. CASE OpenOnServerStart
  <2>1. \A f \in DOMAIN Dir.ent : Dir.ent[f] \in Inodes
    BY DirIs
  <2>2. Free # {} /\ Free # {NewInode} => (CHOOSE i \in Free \ {NewInode} : TRUE) \in Inodes
    BY DEF Free
  <2>3. fd' \in Inodes
    BY <1>27, <2>1, <2>2 DEF OpenOnServerStart
  <2> QED BY <1>27, <2>3 DEF OpenOnServerStart, Memory
<1>28. CASE PersistOnServerStart
  BY <1>28 DEF PersistOnServerStart, PersistAofManifest, file, offs, bounds, Memory, Words
<1>29. ASSUME NEW late \in BOOLEAN, FlushEmpty(late) PROVE Memory'
  BY <1>29 DEF FlushEmpty, AofFsyncInProgress, file, offs, bounds, Memory, Words
<1>30. ASSUME NEW late \in BOOLEAN, FsyncInBackground(late) PROVE Memory'
  <2>2. Len(data) \in Nat /\ [type |-> "fsync", ino |-> fd, off |-> Len(data)] \in Job
    BY DEF Memory, Words, Job
  <2>3. Append(bio, [type |-> "fsync", ino |-> fd, off |-> Len(data)]) \in Seq(Job)
    BY <2>2 DEF Memory
  <2> QED BY <1>30, <2>3 DEF FsyncInBackground, Memory
<1>31. ASSUME NEW busy \in BOOLEAN, BgrewriteaofCommand(busy) PROVE Memory'
  BY <1>31 DEF BgrewriteaofCommand, file, offs, bounds, Memory, Words
<1>32. ASSUME NEW busy \in BOOLEAN, StartAppendOnly(busy) PROVE Memory'
  BY <1>32 DEF StartAppendOnly, file, offs, bounds, Memory, Words
<1> QED
  BY <1>1, <1>2, <1>3, <1>4, <1>5, <1>6, <1>7, <1>8, <1>9, <1>10, <1>11, <1>12, <1>13, <1>14, <1>15,
     <1>16, <1>17, <1>18, <1>19, <1>20, <1>21, <1>22, <1>23, <1>24, <1>25, <1>26, <1>27, <1>28,
     <1>29, <1>30, <1>31, <1>32 DEF Next, Flush, Rewrite, Restart


LEMMA SturdyMode ==
  ASSUME Sturdy, Flow
  PROVE  /\ "dirsync" \notin mode.faults
         /\ "offrewrite" \notin mode.ops
         /\ mode.failure = "power" => mode.policy = "always"
         /\ "write" \in mode.faults => "rewrite" \notin mode.ops
BY DEF Sturdy, IsSturdy, Flow


LEMMA IsLoadable ==
  ASSUME NEW d, NEW c, Listed(d.m), Good(d.m), Names(d.m) \subseteq DOMAIN d.ent,
         \A f \in Older(d.m) : ~IsTorn(c[d.ent[f]])
  PROVE  Loadable(d, c)
<1> DEFINE o == LoadOrder(d.m)
<1>1. o \in Seq(Name)
  BY LoadOrderParts
<1>2. Range(o) \subseteq DOMAIN d.ent
  BY LoadOrderNames DEF Range
<1>3. ASSUME NEW k \in 1 .. Len(o) - 1 PROVE ~IsTorn(c[d.ent[o[k]]])
  <2>1. CASE d.m.incr # <<>>
    BY <2>1, LoadOrderNames
  <2>2. CASE d.m.incr = <<>>
    <3>1. d.m.base = 0 /\ Len(d.m.incr) = 0
      BY <2>2 DEF Good
    <3>2. Len(o) = 0
      <4>1. Len(o) = 0 + Len(d.m.incr)
        BY <3>1, LoadOrderParts
      <4> QED BY <4>1, <3>1
    <3> QED BY <3>2
  <2> QED BY <2>1, <2>2
<1> QED BY <1>2, <1>3 DEF Loadable

LEMMA DownIsLoadable ==
  ASSUME Directories, Disk, Manifests, Contents, pc = "down"
  PROVE  Loadable(Dir, cont)
<1>1. Listed(Dir.m)
  BY DirIs
<1> QED BY <1>1, IsLoadable DEF Disk, Manifests, Held, Contents

(* Every step keeps what Control says; a start that finds the files of its *)
(* manifest whole is not refused.                                          *)
LEMMA ControlStep ==
  ASSUME Sturdy, Flow, Memory, Directories, Files, Disk, Manifests, Prepared, Contents, Control, Next
  PROVE  Control'
<1>1. CASE FeedAppendOnlyFile
  BY SturdyMode, NoneAssumption, <1>1 DEF FeedAppendOnlyFile, file, offs, bounds, Control, Running,
     Flow, PCs, Prepared
<1>2. CASE BeforeSleep
  BY SturdyMode, NoneAssumption, <1>2 DEF BeforeSleep, file, offs, bounds, Control, Running, Flow,
     PCs, Prepared
<1>3. CASE FlushPostpone
  BY SturdyMode, NoneAssumption, <1>3 DEF FlushPostpone, AofFsyncInProgress, file, offs, bounds,
     Control, Running, Flow, PCs, Prepared
<1>4. CASE FlushWrite
  BY SturdyMode, NoneAssumption, <1>4 DEF FlushWrite, file, offs, bounds, Control, Running, Flow,
     PCs, Prepared
<1>5. CASE FlushError
  BY SturdyMode, NoneAssumption, <1>5 DEF FlushError, Fault, file, offs, bounds, Control, Running,
     Flow, PCs, Prepared
<1>6. CASE FsyncAlways
  BY SturdyMode, NoneAssumption, <1>6 DEF FsyncAlways, Size, file, offs, bounds, Control, Running,
     Flow, PCs, Prepared
<1>7. CASE Reply
  BY SturdyMode, NoneAssumption, <1>7 DEF Reply, file, offs, bounds, Control, Running, Flow, PCs, Prepared
<1>8. CASE BioProcessBackgroundJob
  BY SturdyMode, NoneAssumption, <1>8 DEF BioProcessBackgroundJob, Fault, NoFault, file, offs,
     bounds, Control, Running, Flow, PCs, Prepared
<1>9. CASE ScheduledRewrite
  BY SturdyMode, NoneAssumption, <1>9 DEF ScheduledRewrite, file, offs, bounds, Control, Running,
     Flow, PCs, Prepared
<1>10. CASE OpenNewIncrAofForAppend
  BY SturdyMode, NoneAssumption, <1>10 DEF OpenNewIncrAofForAppend, NoFault, Fault, RewriteRefused,
     SwapAofFd, Change, Create, file, offs, bounds, Control, Running, Flow, PCs, Prepared
<1>11. CASE PersistNewIncr
  BY SturdyMode, NoneAssumption, <1>11 DEF PersistNewIncr, NoFault, Fault, RewriteRefused,
     SwapAofFd, PersistAofManifest, PersistUnsynced, file, offs, bounds, Control, Running, Flow,
     PCs, Prepared
<1>12. CASE DrainBioFsync
  BY SturdyMode, NoneAssumption, <1>12 DEF DrainBioFsync, AofFsyncInProgress, file, offs, bounds,
     Control, Running, Flow, PCs, Prepared
<1>13. CASE Fork
  BY SturdyMode, NoneAssumption, <1>13 DEF Fork, NoFault, Fault, RewriteRefused, file, offs, bounds,
     Control, Running, Flow, PCs, Prepared
<1>14. CASE ChildExits
  <2>1. child \in ChildType /\ child # None
    BY <1>14 DEF ChildExits, Memory
  <2>2. [child EXCEPT !.st = "ok"] \in ChildType /\ [child EXCEPT !.st = "failed"] \in ChildType
    BY <2>1 DEF ChildType
  <2>3. child' # None
    BY <1>14, <2>2, NoneAssumption DEF ChildExits
  <2> QED BY <2>1, <2>3, <1>14 DEF ChildExits, file, offs, Control, Running
<1>15. CASE ReapChild
  BY SturdyMode, NoneAssumption, <1>15 DEF ReapChild, Cleanup, Change, file, offs, bounds, Control,
     Running, Flow, PCs, Prepared
<1>16. CASE RenameBase
  BY SturdyMode, NoneAssumption, <1>16 DEF RenameBase, NoFault, Fault, Cleanup, Change, Create,
     file, offs, bounds, Control, Running, Flow, PCs, Prepared
<1>17. CASE RenameIncr
  BY SturdyMode, NoneAssumption, <1>17 DEF RenameIncr, NoFault, Fault, Cleanup, Change, file, offs,
     bounds, Control, Running, Flow, PCs, Prepared
<1>18. CASE PersistRewrite
  BY SturdyMode, NoneAssumption, <1>18 DEF PersistRewrite, NoFault, Fault, Cleanup, Change,
     PersistAofManifest, file, offs, bounds, Control, Running, Flow, PCs, Prepared
<1>19. CASE DelHistoryFiles
  BY SturdyMode, NoneAssumption, <1>19 DEF DelHistoryFiles, Change, file, offs, bounds, Control,
     Running, Flow, PCs, Prepared
<1>20. CASE RewriteDone
  BY SturdyMode, NoneAssumption, <1>20 DEF RewriteDone, NoFault, Fault, PersistAofManifest, file,
     offs, bounds, Control, Running, Flow, PCs, Prepared
<1>21. CASE StopAppendOnly
  BY SturdyMode, NoneAssumption, <1>21 DEF StopAppendOnly, file, offs, bounds, Control, Running,
     Flow, PCs, Prepared
<1>22. CASE AppendOnlyStopped
  BY SturdyMode, NoneAssumption, <1>22 DEF AppendOnlyStopped, FsyncAndClose, file, offs, bounds,
     Control, Running, Flow, PCs, Prepared
<1>23. CASE PrepareForShutdown
  BY SturdyMode, NoneAssumption, <1>23 DEF PrepareForShutdown, file, offs, bounds, Control, Running,
     Flow, PCs, Prepared
<1>24. CASE Exit
  BY SturdyMode, NoneAssumption, <1>24 DEF Exit, FsyncAndClose, Terminate, file, offs, bounds,
     Control, Running, Flow, PCs, Prepared
<1>25. CASE Crash
  BY SturdyMode, NoneAssumption, <1>25 DEF Crash, Terminate, file, offs, bounds, Control, Running,
     Flow, PCs, Prepared
<1>26. CASE LoadAppendOnlyFiles
  <2>1. Loadable(Dir, cont)
    BY <1>26, DownIsLoadable DEF LoadAppendOnlyFiles
  <2> QED BY <1>26, <2>1 DEF LoadAppendOnlyFiles, Control, Running, bounds
<1>27. CASE OpenOnServerStart
  BY SturdyMode, NoneAssumption, <1>27 DEF OpenOnServerStart, Change, file, offs, bounds, Control,
     Running, Flow, PCs, Prepared
<1>28. CASE PersistOnServerStart
  BY SturdyMode, NoneAssumption, <1>28 DEF PersistOnServerStart, PersistAofManifest, file, offs,
     bounds, Control, Running, Flow, PCs, Prepared
<1>29. ASSUME NEW late \in BOOLEAN, FlushEmpty(late) PROVE Control'
  BY SturdyMode, NoneAssumption, <1>29 DEF FlushEmpty, AofFsyncInProgress, file, offs, bounds,
     Control, Running, Flow, PCs, Prepared
<1>30. ASSUME NEW late \in BOOLEAN, FsyncInBackground(late) PROVE Control'
  BY SturdyMode, NoneAssumption, <1>30 DEF FsyncInBackground, AofFsyncInProgress, file, offs,
     bounds, Control, Running, Flow, PCs, Prepared
<1>31. ASSUME NEW busy \in BOOLEAN, BgrewriteaofCommand(busy) PROVE Control'
  BY SturdyMode, NoneAssumption, <1>31 DEF BgrewriteaofCommand, file, offs, bounds, Control,
     Running, Flow, PCs, Prepared
<1>32. ASSUME NEW busy \in BOOLEAN, StartAppendOnly(busy) PROVE Control'
  BY SturdyMode, NoneAssumption, <1>32 DEF StartAppendOnly, file, offs, bounds, Control, Running,
     Flow, PCs, Prepared
<1> QED
  BY <1>1, <1>2, <1>3, <1>4, <1>5, <1>6, <1>7, <1>8, <1>9, <1>10, <1>11, <1>12, <1>13, <1>14, <1>15,
     <1>16, <1>17, <1>18, <1>19, <1>20, <1>21, <1>22, <1>23, <1>24, <1>25, <1>26, <1>27, <1>28,
     <1>29, <1>30, <1>31, <1>32 DEF Next, Flush, Rewrite, Restart


LEMMA CleanupIs ==
  ASSUME Directories, NEW S, Cleanup(S)
  PROVE  /\ dirs' \in Seq(Directory) /\ dirs' # <<>>
         /\ \/ dirs' = dirs /\ Dir' = Dir
            \/ \E T \in SUBSET (S \cup {Temp}) :
                  Change(Unlink(Dir.ent, T)) /\ Dir' = [ent |-> Unlink(Dir.ent, T), m |-> Dir.m]
<1>1. \A T : Unlink(Dir.ent, T) \in Ent
  BY DirIs, UnlinkIs
<1>2. CASE dirs' = dirs
  BY <1>2 DEF Directories, Dir
<1>3. ASSUME NEW T \in SUBSET (S \cup {Temp}), Change(Unlink(Dir.ent, T))
      PROVE  /\ dirs' \in Seq(Directory) /\ dirs' # <<>>
             /\ Dir' = [ent |-> Unlink(Dir.ent, T), m |-> Dir.m]
  BY <1>1, <1>3, ChangeIs
<1>4. dirs' = dirs \/ \E T \in SUBSET (S \cup {Temp}) : Change(Unlink(Dir.ent, T))
  <2>1. S \in SUBSET (S \cup {Temp}) /\ S \cup {Temp} \in SUBSET (S \cup {Temp})
    OBVIOUS
  <2> QED BY <2>1 DEF Cleanup
<1> QED BY <1>2, <1>3, <1>4

LEMMA TempIsName == Temp \in Name
BY DEF Temp, Name

LEMMA PreparedRewrite ==
  ASSUME Directories, Flow, Control, Disk, Manifests, Prepared, pc = "persist"
  PROVE  /\ tm \in Manifest /\ tm.base = am.base + 1 /\ tm.base # 0 /\ tm.incr # <<>>
         /\ Sorted(tm) /\ Counted(tm) /\ fd # None
         /\ Base(tm.base) \notin Names(am)
         /\ st = "on" => tm.incr = am.incr /\ Newest(tm) = Newest(am)
         /\ st = "wait" => Newest(tm) = Incr(tm.iseq) /\ Incr(tm.iseq) \notin Names(am)
         /\ st \in {"on", "wait"}
<1> DEFINE q == GetNewBaseFileNameAndMarkPreAsHistory(am)
<1>1. am \in Manifest /\ Good(am) /\ Counted(am) /\ am.incr # <<>> /\ am.base \in Nat
  <2>1. am \in Manifest /\ Good(am) /\ Counted(am) /\ am.incr # <<>>
    BY DEF Directories, Disk, Manifests, Running
  <2> QED BY <2>1, ManifestIs
<1>2. /\ q \in Manifest /\ q.base = am.base + 1 /\ q.incr = am.incr /\ Sorted(q) /\ Counted(q)
      /\ Base(q.base) \notin Names(am) /\ Newest(q) = Newest(am) /\ Names(am) \subseteq Name
  BY <1>1, NewBaseIs, ManifestIs, NamesAre
<1>9. \A f \in Names(am) : f = Base(am.base) \/ f \in Names(q)
  BY <1>2 DEF Names
<1>3. fd # None /\ st \in {"on", "wait"}
  BY DEF Control, Flow, Running
<1>4. CASE st = "on"
  <2>1. tm = q
    BY <1>4 DEF Prepared
  <2> HIDE DEF q
  <2> QED BY <1>1, <1>2, <1>3, <1>4, <2>1
<1>5. CASE st = "wait"
  <2>1. tm = GetNewIncrAofName(q)
    BY <1>5 DEF Prepared
  <2> HIDE DEF q
  <2>2. /\ tm \in Manifest /\ tm.base = q.base /\ tm.incr # <<>> /\ Sorted(tm) /\ Counted(tm)
        /\ Newest(tm) = Incr(tm.iseq) /\ Newest(tm) \notin Names(q)
    BY <2>1, <1>2, NewIncrIs
  <2>3. Newest(tm) # Base(am.base)
    BY DEF Newest, Incr, Base
  <2> QED BY <1>1, <1>2, <1>3, <1>5, <1>9, <2>2, <2>3
<1> QED BY <1>3, <1>4, <1>5

FirstManifest == [base |-> 1, incr |-> <<1>>, hist |-> {}, iseq |-> 1]

LEMMA FirstManifestIs ==
  /\ FirstManifest \in Manifest /\ Good(FirstManifest) /\ Counted(FirstManifest)
  /\ FirstManifest.base = 1 /\ FirstManifest.incr = <<1>> /\ FirstManifest.incr # <<>>
  /\ FirstManifest.hist = {}
  /\ Newest(FirstManifest) = Incr(1) /\ Older(FirstManifest) = {Base(1)}
  /\ Names(FirstManifest) = {Base(1), Incr(1)} /\ Incr(1) # Base(1)
<1> DEFINE q == FirstManifest
<1>1. q.base = 1 /\ q.incr = <<1>> /\ q.hist = {} /\ q.iseq = 1
  BY DEF FirstManifest
<1>2. Len(<<1>>) = 1 /\ <<1>>[1] = 1 /\ <<1>> # <<>> /\ 1 .. Len(<<1>>) = {1} /\ 1 .. Len(<<1>>) - 1 = {}
  OBVIOUS
<1>3. q \in Manifest
  BY DEF FirstManifest, Manifest
<1> HIDE DEF q
<1>4. Good(q) /\ Counted(q)
  BY <1>1, <1>2 DEF Good, Sorted, Counted
<1>5. Newest(q) = Incr(1) /\ Older(q) = {Base(1)} /\ Names(q) = {Base(1), Incr(1)}
  BY <1>1, <1>2 DEF Newest, Older, Names
<1>6. Incr(1) # Base(1)
  BY DEF Incr, Base
<1> QED BY <1>1, <1>2, <1>3, <1>4, <1>5, <1>6 DEF q

LEMMA OpenAgain ==
  ASSUME Directories, Files, Disk, Manifests, Control, OpenOnServerStart, am.incr # <<>>
  PROVE  /\ Change(Dir.ent) /\ am' = am /\ fd' = Dir.ent[Newest(am)] /\ fd' \in Inodes
         /\ cont' = cont /\ synced' = synced /\ Newest(am) \in DOMAIN Dir.ent
<1> DEFINE name == Incr(Last(am.incr))
<1>1. pc = "boot" /\ am = AofLoadManifestFromDisk(Dir.m) /\ Good(am)
  BY DEF OpenOnServerStart, Disk, Manifests
<1>2. name = Newest(am)
  BY DEF Newest, Last
<1>3. Newest(am) \in DOMAIN Dir.ent
  <2>1. SameFiles(Dir.m, am) /\ Listed(Dir.m)
    BY <1>1, DirIs, LoadManifestIs
  <2>2. Newest(am) \in Names(Dir.m)
    BY <2>1, NamesAre, SameNames DEF SameFiles
  <2> QED BY <2>2 DEF Disk, Manifests, Held
<1>4. Dir.ent[name] \in Inodes /\ Dir.ent \in Ent /\ Dir.ent \in [DOMAIN Dir.ent -> Inodes]
  BY <1>2, <1>3, DirIs, EntIs
<1> HIDE DEF name
<1>5. Link(Dir.ent, name, Dir.ent[name]) = Dir.ent
  BY <1>2, <1>3, <1>4 DEF Link
<1>6. /\ am' = am /\ fd' = Dir.ent[name]
      /\ Change(Link(Dir.ent, name, Dir.ent[name]))
      /\ cont' = [i \in Inodes |-> cont[i]] /\ synced' = [i \in Inodes |-> synced[i]]
  BY <1>1, <1>2, <1>3 DEF OpenOnServerStart, name
<1> QED BY <1>2, <1>3, <1>4, <1>5, <1>6 DEF Files

LEMMA OpenFirst ==
  ASSUME Directories, Files, Memory, Disk, Manifests, Control, FirstStart, OpenOnServerStart, am.incr = <<>>
  PROVE  \E e \in Ent :
         /\ Change(e) /\ am' = FirstManifest
         /\ NewInode \in Free /\ fd' \in Inodes /\ fd' # NewInode
         /\ Base(1) \in DOMAIN e /\ e[Base(1)] = NewInode
         /\ Incr(1) \in DOMAIN e /\ e[Incr(1)] = fd'
         /\ cont'[NewInode] = data /\ synced'[NewInode] = Len(data)
         /\ cont'[fd'] = <<>>
         /\ \A i \in Inodes \ {NewInode} : /\ \/ cont'[i] = cont[i] /\ synced'[i] = synced[i]
                                              \/ cont'[i] = <<>> /\ synced'[i] = 0
         /\ cont' \in [Inodes -> {cont[i] : i \in Inodes} \cup {data, <<>>}]
         /\ synced' \in [Inodes -> Nat]
<1>1. pc = "boot" /\ am = AofLoadManifestFromDisk(Dir.m) /\ Good(am) /\ Counted(am) /\ am \in Manifest
  BY DEF OpenOnServerStart, Manifests, Directories
<1>2. am = [base |-> 0, incr |-> <<>>, hist |-> {}, iseq |-> 0]
  BY <1>1, ManifestIs DEF Good, Sorted, Counted
<1> DEFINE m1 == GetNewBaseFileNameAndMarkPreAsHistory(am)
           m2 == GetNewIncrAofName(m1)
<1>3. m1 \in Manifest /\ Sorted(m1) /\ Counted(m1) /\ m1.base = 1 /\ m1.incr = <<>> /\ m1.hist = {} /\ m1.iseq = 0
  <2>1. am.base = 0 /\ am.incr = <<>> /\ am.hist = {} /\ am.iseq = 0
    BY <1>2
  <2>2. /\ m1 \in Manifest /\ Sorted(m1) /\ Counted(m1) /\ m1.base = 0 + 1 /\ m1.incr = <<>> /\ m1.iseq = 0
        /\ m1.hist = {} \cup {Base(k) : k \in {0} \ {0}}
    BY <1>1, <2>1, NewBaseIs
  <2> QED BY <2>2
<1>4. m2 = FirstManifest
  <2> HIDE DEF m1
  <2>1. /\ m2 \in Manifest /\ m2.base = 1 /\ m2.incr = Append(<<>>, 0 + 1) /\ m2.hist = {} /\ m2.iseq = 0 + 1
    BY <1>3, NewIncrIs
  <2> HIDE DEF m2
  <2>2. m2 = [base |-> m2.base, incr |-> m2.incr, hist |-> m2.hist, iseq |-> m2.iseq]
    BY <2>1, ManifestIs
  <2>3. m2.incr = <<1>> /\ m2.iseq = 1
    BY <2>1
  <2> QED BY <2>1, <2>2, <2>3 DEF FirstManifest
<1>5. Last(<<1>>) = 1
  BY DEF Last
<1> DEFINE b  == NewInode
           ii == IF Incr(1) \in DOMAIN Dir.ent THEN Dir.ent[Incr(1)]
                 ELSE CHOOSE i \in Free \ {b} : TRUE
           e1 == Link(Dir.ent, Base(1), b)
           e  == Link(e1, Incr(1), ii)
<1>6. /\ Free # {} /\ Free # {b} /\ am' = FirstManifest /\ fd' = ii /\ Change(e)
      /\ cont' = [i \in Inodes |-> IF i = b THEN data
                    ELSE IF i = ii /\ Incr(1) \notin DOMAIN Dir.ent THEN <<>> ELSE cont[i]]
      /\ synced' = [i \in Inodes |-> IF i = b THEN Len(data)
                      ELSE IF i = ii /\ Incr(1) \notin DOMAIN Dir.ent THEN 0 ELSE synced[i]]
  <2>1. am.base = 0 /\ m1.incr = <<>> /\ m1.base = 1 /\ FirstManifest.incr = <<1>>
    BY <1>2, <1>3 DEF FirstManifest
  <2> QED BY <2>1, <1>4, <1>5 DEF OpenOnServerStart
<1>7. b \in Free /\ b \in Inodes /\ \A f \in DOMAIN Dir.ent : Dir.ent[f] # b /\ Dir.ent[f] \in Inodes
  BY <1>6, NewInodeFree, FreshInode, DirIs
<1>8. ii \in Inodes /\ ii # b
  <2>1. CASE Incr(1) \in DOMAIN Dir.ent
    BY <2>1, <1>7
  <2>2. CASE Incr(1) \notin DOMAIN Dir.ent
    <3>1. (CHOOSE i \in Free \ {b} : TRUE) \in Free \ {b}
      BY <1>6, <1>7
    <3> QED BY <3>1, <2>2 DEF Free
  <2> QED BY <2>1, <2>2
<1> HIDE DEF b, ii
<1>9. Base(1) \in Name /\ Incr(1) \in Name /\ Base(1) # Incr(1) /\ Dir.ent \in Ent
  BY DirIs DEF Base, Incr, Name
<1>10. e1 \in Ent /\ DOMAIN e1 = DOMAIN Dir.ent \cup {Base(1)} /\ e1[Base(1)] = b
  BY ZenonT(60), <1>7, <1>9, LinkIs
<1> HIDE DEF e1
<1>11. e \in Ent /\ DOMAIN e = DOMAIN e1 \cup {Incr(1)} /\ e[Incr(1)] = ii /\ e[Base(1)] = e1[Base(1)]
  <2>1. e1 \in Ent /\ Base(1) \in DOMAIN e1 /\ ii \in Inodes /\ Incr(1) \in Name /\ Base(1) # Incr(1)
    BY <1>8, <1>9, <1>10
  <2>2. e \in Ent /\ DOMAIN e = DOMAIN e1 \cup {Incr(1)} /\ e[Incr(1)] = ii
     /\ \A x \in DOMAIN e1 : x # Incr(1) => e[x] = e1[x]
    BY <2>1, LinkIs
  <2> HIDE DEF e
  <2> QED BY <2>1, <2>2
<1>12. cont'[b] = data /\ synced'[b] = Len(data) /\ Len(data) \in Nat
  BY <1>6, <1>7 DEF Memory, Words
<1>13. cont'[ii] = <<>>
  <2>1. CASE Incr(1) \in DOMAIN Dir.ent
    <3>1. ii = Dir.ent[Incr(1)] /\ cont'[ii] = cont[ii]
      BY <2>1, <1>6, <1>8 DEF ii
    <3>2. Dir.m.incr = <<>>
      BY <1>1, DirIs, LoadManifestIs DEF SameFiles
    <3> QED BY <3>1, <3>2, <2>1, DirIs DEF FirstStart
  <2>2. CASE Incr(1) \notin DOMAIN Dir.ent
    BY <2>2, <1>6, <1>8
  <2> QED BY <2>1, <2>2
<1>14. \A i \in Inodes \ {b} : /\ \/ cont'[i] = cont[i] /\ synced'[i] = synced[i]
                                  \/ cont'[i] = <<>> /\ synced'[i] = 0
  BY <1>6
<1>15. cont' \in [Inodes -> {cont[i] : i \in Inodes} \cup {data, <<>>}] /\ synced' \in [Inodes -> Nat]
  BY <1>6, <1>12 DEF Files
<1> HIDE DEF e
<1> QED BY <1>6, <1>7, <1>8, <1>10, <1>11, <1>12, <1>13, <1>14, <1>15 DEF b


(* The manifests and the directories keep their types.                     *)
LEMMA DirectoriesStep ==
  ASSUME Sturdy, Flow, Memory, Directories, Files, Control, Disk, Manifests, Prepared, FirstStart, Next
  PROVE  Directories'
<1>1. CASE FeedAppendOnlyFile
  BY <1>1 DEF FeedAppendOnlyFile, file, offs, bounds, Directories, Flow
<1>2. CASE BeforeSleep
  BY <1>2 DEF BeforeSleep, file, offs, bounds, Directories, Flow
<1>3. CASE FlushPostpone
  BY <1>3 DEF FlushPostpone, AofFsyncInProgress, file, offs, bounds, Directories, Flow
<1>4. CASE FlushWrite
  BY <1>4 DEF FlushWrite, file, offs, bounds, Directories, Flow
<1>5. CASE FlushError
  BY <1>5 DEF FlushError, Fault, file, offs, bounds, Directories, Flow
<1>6. CASE FsyncAlways
  BY <1>6 DEF FsyncAlways, Size, file, offs, bounds, Directories, Flow
<1>7. CASE Reply
  BY <1>7 DEF Reply, file, offs, bounds, Directories, Flow
<1>8. CASE BioProcessBackgroundJob
  BY <1>8 DEF BioProcessBackgroundJob, Fault, NoFault, file, offs, bounds, Directories, Flow
<1>9. CASE ScheduledRewrite
  BY <1>9 DEF ScheduledRewrite, file, offs, bounds, Directories, Flow
<1>10. CASE OpenNewIncrAofForAppend
  <2>1. am' = am /\ am \in Manifest
    BY <1>10 DEF OpenNewIncrAofForAppend, Directories
  <2>2. CASE st = "off" /\ pc' = "fork" /\ UNCHANGED file
    BY <2>1, <2>2 DEF file, Directories
  <2>3. CASE Free # {} /\ pc' = "drain" /\ Change(Link(Dir.ent, Temp, NewInode))
    <3>1. Link(Dir.ent, Temp, NewInode) \in Ent
      BY <2>3, NewInodeFree, FreshInode, DirIs, LinkIs, TempIsName
    <3> QED BY <3>1, <2>1, <2>3, ChangeIs DEF Directories
  <2>4. CASE /\ st = "on" /\ Free # {} /\ pc' = "openp" /\ tm' = GetNewIncrAofName(am)
             /\ Change(Link(Dir.ent, Incr(tm'.iseq), NewInode))
    <3>0. Sorted(am) /\ Counted(am)
      BY DEF Disk, Manifests, Good
    <3>1. tm' \in Manifest /\ Incr(tm'.iseq) \in Name
      BY <3>0, <2>1, <2>4, NewIncrIs
    <3>2. Link(Dir.ent, Incr(tm'.iseq), NewInode) \in Ent
      BY <2>4, <3>1, NewInodeFree, FreshInode, DirIs, LinkIs
    <3> QED BY <3>1, <3>2, <2>1, <2>4, ChangeIs DEF Directories
  <2>5. CASE pc' = "loop" /\ UNCHANGED file
    BY <2>1, <2>5 DEF file, Directories
  <2> QED BY <1>10, <2>2, <2>3, <2>4, <2>5 DEF OpenNewIncrAofForAppend, RewriteRefused
<1>11. CASE PersistNewIncr
  <2>1. am \in Manifest /\ tm \in Manifest /\ "dirsync" \notin mode.faults
    BY <1>11, SturdyMode DEF PersistNewIncr, Directories
  <2>2. CASE PersistAofManifest(tm) /\ am' = tm /\ pc' = "fork"
    BY <2>1, <2>2, PersistIs DEF Directories
  <2>3. CASE pc' = "loop" /\ UNCHANGED <<dirs, am>>
    BY <2>3 DEF Directories
  <2> QED BY <1>11, <2>1, <2>2, <2>3 DEF PersistNewIncr, RewriteRefused, Fault
<1>12. CASE DrainBioFsync
  BY <1>12 DEF DrainBioFsync, AofFsyncInProgress, file, offs, bounds, Directories, Flow
<1>13. CASE Fork
  BY <1>13 DEF Fork, NoFault, Fault, RewriteRefused, file, offs, bounds, Directories, Flow
<1>14. CASE ChildExits
  BY <1>14 DEF ChildExits, NoFault, Fault, file, offs, bounds, Directories, Flow
<1>15. CASE ReapChild
  <2>1. am' = am /\ am \in Manifest /\ pc' \in {"loop", "rename"}
    BY <1>15 DEF ReapChild, Directories, Cleanup
  <2>2. CASE dirs' = dirs
    BY <2>1, <2>2 DEF Directories
  <2>3. CASE Cleanup({})
    BY <2>1, <2>3, CleanupIs DEF Directories
  <2> QED BY <1>15, <2>2, <2>3 DEF ReapChild
<1>16. CASE RenameBase
  <2>1. am' = am /\ am \in Manifest
    BY <1>16 DEF RenameBase, Directories
  <2>2. CASE /\ Free # {} /\ tm' = GetNewBaseFileNameAndMarkPreAsHistory(am)
             /\ Change(Link(Dir.ent, Base(tm'.base), NewInode))
    <3>0. Good(am) /\ Counted(am)
      BY DEF Disk, Manifests
    <3>1. tm' \in Manifest /\ Base(tm'.base) \in Name
      BY <3>0, <2>1, <2>2, NewBaseIs
    <3>2. Link(Dir.ent, Base(tm'.base), NewInode) \in Ent
      BY <2>2, <3>1, NewInodeFree, FreshInode, DirIs, LinkIs
    <3> QED BY <3>1, <3>2, <2>1, <2>2, ChangeIs DEF Directories
  <2>3. CASE Cleanup({})
    <3>1. pc' = "loop"
      BY <2>3 DEF Cleanup
    <3> QED BY <2>1, <2>3, <3>1, CleanupIs DEF Directories
  <2> QED BY <1>16, <2>2, <2>3 DEF RenameBase
<1>17. CASE RenameIncr
  <2>1. am' = am /\ am \in Manifest
    BY <1>17 DEF RenameIncr, Directories
  <2>2. CASE /\ tm' = GetNewIncrAofName(tm)
             /\ Change(Link(Unlink(Dir.ent, {Temp}), Incr(tm'.iseq), Dir.ent[Temp]))
    <3>0. Good(am) /\ Counted(am) /\ tm = GetNewBaseFileNameAndMarkPreAsHistory(am)
      BY <1>17 DEF Disk, Manifests, Prepared, RenameIncr
    <3>1. tm \in Manifest /\ Sorted(tm) /\ Counted(tm)
      BY <3>0, <2>1, NewBaseIs
    <3>2. tm' \in Manifest /\ Incr(tm'.iseq) \in Name
      BY <3>1, <2>2, NewIncrIs
    <3>3. Dir.ent[Temp] \in Inodes /\ Unlink(Dir.ent, {Temp}) \in Ent
      <4>1. Temp \in DOMAIN Dir.ent
        BY <1>17 DEF RenameIncr, Prepared, Control
      <4> QED BY <4>1, DirIs, UnlinkIs
    <3>4. Link(Unlink(Dir.ent, {Temp}), Incr(tm'.iseq), Dir.ent[Temp]) \in Ent
      BY <3>2, <3>3, LinkIs
    <3> QED BY <3>2, <3>4, <2>1, <2>2, ChangeIs DEF Directories
  <2>3. CASE Cleanup({Base(tm.base)})
    <3>1. pc' = "loop"
      BY <2>3 DEF Cleanup
    <3> QED BY <2>1, <2>3, <3>1, CleanupIs DEF Directories
  <2> QED BY <1>17, <2>2, <2>3 DEF RenameIncr
<1>18. CASE PersistRewrite
  <2> DEFINE q == MarkRewrittenIncrAofAsHistory(tm)
  <2>1. "dirsync" \notin mode.faults /\ am \in Manifest
    BY SturdyMode DEF Directories
  <2>2. CASE PersistAofManifest(q) /\ am' = q /\ pc' = "hist"
    <3>1. q \in Manifest
      BY <1>18, PreparedRewrite, MarkIs DEF PersistRewrite
    <3> HIDE DEF q
    <3> QED BY <3>1, <2>2, PersistIs DEF Directories
  <2>3. CASE Cleanup(NewFiles) /\ UNCHANGED am
    <3>1. pc' = "loop"
      BY <2>3 DEF Cleanup
    <3> QED BY <2>1, <2>3, <3>1, CleanupIs DEF Directories
  <2> QED BY <1>18, <2>1, <2>2, <2>3 DEF PersistRewrite, Fault
<1>19. CASE DelHistoryFiles
  <2>1. am \in Manifest /\ pc' = "histp"
    BY <1>19 DEF DelHistoryFiles, Directories
  <2>2. CASE UNCHANGED <<dirs, am>>
    BY <2>1, <2>2 DEF Directories
  <2>3. CASE Change(Unlink(Dir.ent, am.hist)) /\ am' = [am EXCEPT !.hist = {}]
    <3>1. am' \in Manifest
      BY <2>1, <2>3 DEF Manifest
    <3>2. Unlink(Dir.ent, am.hist) \in Ent
      BY DirIs, UnlinkIs
    <3> QED BY <2>1, <2>3, <3>1, <3>2, ChangeIs DEF Directories
  <2> QED BY <1>19, <2>2, <2>3 DEF DelHistoryFiles
<1>20. CASE RewriteDone
  <2>1. am' = am /\ am \in Manifest /\ pc' = "loop"
    BY <1>20 DEF RewriteDone, Directories
  <2>2. CASE dirs' = dirs
    BY <2>1, <2>2 DEF Directories
  <2>3. CASE PersistAofManifest(am)
    BY <2>1, <2>3, PersistIs DEF Directories
  <2> QED BY <1>20, <2>2, <2>3 DEF RewriteDone
<1>21. CASE StopAppendOnly
  BY <1>21 DEF StopAppendOnly, file, offs, bounds, Directories, Flow
<1>22. CASE AppendOnlyStopped
  BY <1>22 DEF AppendOnlyStopped, FsyncAndClose, file, offs, bounds, Directories, Flow
<1>23. CASE PrepareForShutdown
  BY <1>23 DEF PrepareForShutdown, file, offs, bounds, Directories, Flow
<1>24. CASE Exit
  BY <1>24 DEF Exit, FsyncAndClose, Terminate, file, offs, bounds, Directories, Flow
<1>25. CASE Crash
  <2>1. am' = am /\ am \in Manifest /\ pc' = "down"
    BY <1>25 DEF Crash, Terminate, Directories
  <2>2. PICK d \in Range(dirs) : dirs' = <<d>>
    <3>1. Dir \in Range(dirs)
      BY DirIs DEF Range
    <3> QED BY <1>25, <3>1 DEF Crash
  <2>3. d \in Directory
    BY DEF Directories, Range
  <2>4. dirs' \in Seq(Directory) /\ dirs' # <<>>
    BY <2>2, <2>3
  <2> QED BY <2>1, <2>4 DEF Directories
<1>26. CASE LoadAppendOnlyFiles
  <2>1. AofLoadManifestFromDisk(Dir.m) \in Manifest
    BY DirIs, LoadManifestIs
  <2>2. am' \in Manifest /\ dirs' = dirs /\ pc' \notin {"openp", "rename2", "persist"}
    BY <1>26, <2>1 DEF LoadAppendOnlyFiles, Directories
  <2> QED BY <2>2 DEF Directories
<1>27. CASE OpenOnServerStart
  <2>1. PICK e \in Ent : Change(e) /\ am' \in Manifest
    <3>1. am \in Manifest /\ Dir.ent \in Ent
      BY DirIs DEF Directories
    <3> QED BY <1>27, <3>1, OpenAgain, OpenFirst, FirstManifestIs
  <2> QED BY <1>27, <2>1, ChangeIs DEF OpenOnServerStart, Directories
<1>28. CASE PersistOnServerStart
  <2>1. am' = am /\ am \in Manifest /\ pc' = "hist"
    BY <1>28 DEF PersistOnServerStart, Directories
  <2>2. CASE dirs' = dirs
    BY <2>1, <2>2 DEF Directories
  <2>3. CASE PersistAofManifest(am)
    BY <2>1, <2>3, PersistIs DEF Directories
  <2> QED BY <1>28, <2>2, <2>3 DEF PersistOnServerStart
<1>29. ASSUME NEW late \in BOOLEAN, FlushEmpty(late) PROVE Directories'
  BY <1>29 DEF FlushEmpty, AofFsyncInProgress, file, offs, bounds, Directories, Flow
<1>30. ASSUME NEW late \in BOOLEAN, FsyncInBackground(late) PROVE Directories'
  BY <1>30 DEF FsyncInBackground, AofFsyncInProgress, file, offs, bounds, Directories, Flow
<1>31. ASSUME NEW busy \in BOOLEAN, BgrewriteaofCommand(busy) PROVE Directories'
  BY <1>31 DEF BgrewriteaofCommand, file, offs, bounds, Directories, Flow
<1>32. ASSUME NEW busy \in BOOLEAN, StartAppendOnly(busy) PROVE Directories'
  BY <1>32 DEF StartAppendOnly, file, offs, bounds, Directories, Flow
<1> QED
  BY <1>1, <1>2, <1>3, <1>4, <1>5, <1>6, <1>7, <1>8, <1>9, <1>10, <1>11, <1>12, <1>13, <1>14, <1>15,
     <1>16, <1>17, <1>18, <1>19, <1>20, <1>21, <1>22, <1>23, <1>24, <1>25, <1>26, <1>27, <1>28,
     <1>29, <1>30, <1>31, <1>32 DEF Next, Flush, Rewrite, Restart


(* A whole file, a file cut short, and what a loss of power leaves.        *)
LEMMA WordIs ==
  ASSUME NEW c \in Words
  PROVE  c \in Seq(0 .. MaxWrites) /\ ~IsTorn(c) /\ Whole(c) = c /\ Len(c) \in Nat
<1>0. c \in Seq(1 .. MaxWrites)
  BY DEF Words
<1>1. Len(c) \in Nat /\ \A i \in 1 .. Len(c) : c[i] \in 1 .. MaxWrites
  BY <1>0, ElementOfSeq, LenProperties
<1>2. c \in Seq(0 .. MaxWrites)
  BY BoundsAssumption DEF Words
<1>3. ~IsTorn(c)
  <2> SUFFICES ASSUME c # <<>> PROVE c[Len(c)] # Torn
    BY DEF IsTorn, Last
  <2>1. Len(c) \in 1 .. Len(c)
    BY <1>1 DEF Words
  <2>2. c[Len(c)] \in 1 .. MaxWrites
    BY <1>1, <2>1
  <2> QED BY <2>2, BoundsAssumption DEF Torn
<1> QED BY <1>1, <1>2, <1>3 DEF Whole

LEMMA EmptyWord == <<>> \in Words /\ <<>> \in Seq(0 .. MaxWrites) /\ Len(<<>>) = 0 /\ Whole(<<>>) = <<>>
<1>1. <<>> \in Words /\ Len(<<>>) = 0
  BY DEF Words
<1> QED BY <1>1, WordIs

LEMMA CutIs ==
  ASSUME NEW c \in Words, NEW k \in 0 .. Len(c)
  PROVE  /\ SubSeq(c, 1, k) \in Words /\ Len(SubSeq(c, 1, k)) = k
         /\ Cut(c, k, FALSE) = SubSeq(c, 1, k)
         /\ Cut(c, k, TRUE) \in Seq(0 .. MaxWrites)
         /\ Whole(Cut(c, k, FALSE)) = SubSeq(c, 1, k) /\ Whole(Cut(c, k, TRUE)) = SubSeq(c, 1, k)
         /\ k = Len(c) => SubSeq(c, 1, k) = c
<1> DEFINE s == SubSeq(c, 1, k)
           t == s \o <<Torn>>
<1>1. s \in Words /\ Len(s) = k /\ k \in Nat
  <2>1. c \in Seq(1 .. MaxWrites) /\ Len(c) \in Nat /\ k \in Nat /\ k <= Len(c)
    BY DEF Words
  <2>2. 1 \in Int /\ k \in Int /\ \A i \in 1 .. k : c[i] \in 1 .. MaxWrites
    <3>1. \A i \in 1 .. Len(c) : c[i] \in 1 .. MaxWrites
      BY <2>1, ElementOfSeq
    <3> QED BY <2>1, <3>1
  <2>3. s \in Seq(1 .. MaxWrites) /\ Len(s) = IF 1 <= k THEN k - 1 + 1 ELSE 0
    BY <2>2, SubSeqProperties
  <2> QED BY <2>1, <2>3 DEF Words
<1>2. s \in Seq(0 .. MaxWrites) /\ Whole(s) = s
  BY <1>1, WordIs
<1>3. Torn \in 0 .. MaxWrites
  BY BoundsAssumption DEF Torn
<1>4. Cut(c, k, FALSE) = s \o <<>> /\ Cut(c, k, TRUE) = t
  BY DEF Cut
<1>8. k = Len(c) => s = c
  BY DEF Words
<1> HIDE DEF s
<1>5. s \o <<>> = s
  BY <1>2
<1>6. t \in Seq(0 .. MaxWrites) /\ Len(t) = k + 1 /\ t # <<>> /\ t[k + 1] = Torn /\ SubSeq(t, 1, k) = s
  BY <1>1, <1>2, <1>3
<1> HIDE DEF t
<1>7. Whole(t) = s
  <2>1. IsTorn(t)
    BY <1>6 DEF IsTorn, Last
  <2>2. Front(t) = SubSeq(t, 1, k)
    BY <1>1, <1>6 DEF Front
  <2> QED BY <2>1, <2>2, <1>6 DEF Whole
<1> QED BY <1>1, <1>2, <1>4, <1>5, <1>6, <1>7, <1>8 DEF s

LEMMA SurvivalIs ==
  ASSUME NEW i \in Inodes, cont[i] \in Words, synced[i] \in Nat, synced[i] <= Len(cont[i]),
         NEW x \in Survivals(i)
  PROVE  \E k \in synced[i] .. Len(cont[i]) :
            /\ x \in Seq(0 .. MaxWrites)
            /\ Whole(x) = SubSeq(cont[i], 1, k) /\ Whole(x) \in Words /\ Len(Whole(x)) = k
            /\ synced[i] = Len(cont[i]) => x = cont[i]
<1>1. Len(cont[i]) \in Nat
  BY DEF Words
<1>2. CASE \E k \in synced[i] .. Len(cont[i]) : x = Cut(cont[i], k, FALSE)
  <2>1. PICK k \in synced[i] .. Len(cont[i]) : x = Cut(cont[i], k, FALSE)
    BY <1>2
  <2>2. k \in 0 .. Len(cont[i]) /\ (synced[i] = Len(cont[i]) => k = Len(cont[i]))
    BY <1>1, <2>1
  <2>3. x \in Words /\ x = SubSeq(cont[i], 1, k) /\ Whole(x) = SubSeq(cont[i], 1, k) /\ Len(SubSeq(cont[i], 1, k)) = k
     /\ (k = Len(cont[i]) => SubSeq(cont[i], 1, k) = cont[i])
    BY <2>1, <2>2, CutIs
  <2> QED BY <2>1, <2>2, <2>3, WordIs
<1>3. CASE \E k \in synced[i] .. Len(cont[i]) - 1 : x = Cut(cont[i], k, TRUE)
  <2>1. PICK k \in synced[i] .. Len(cont[i]) - 1 : x = Cut(cont[i], k, TRUE)
    BY <1>3
  <2>2. k \in 0 .. Len(cont[i]) /\ k \in synced[i] .. Len(cont[i]) /\ synced[i] # Len(cont[i])
    BY <1>1, <2>1
  <2>3. x \in Seq(0 .. MaxWrites) /\ Whole(x) = SubSeq(cont[i], 1, k) /\ SubSeq(cont[i], 1, k) \in Words
     /\ Len(SubSeq(cont[i], 1, k)) = k
    BY <2>1, <2>2, CutIs
  <2> QED BY <2>2, <2>3
<1> QED BY <1>2, <1>3 DEF Survivals

(* The contents of one file change.                                        *)
LEMMA FileChange ==
  ASSUME Files, pc # "down", NEW i, NEW w \in Words, NEW y \in 0 .. Len(w),
         cont' = [cont EXCEPT ![i] = w], synced' = [synced EXCEPT ![i] = y]
  PROVE  Files'
<1>1. cont \in [Inodes -> Words] /\ synced \in [Inodes -> Nat] /\ y \in Nat
  BY WordIs DEF Files
<1>2. cont' \in [Inodes -> Words] /\ synced' \in [Inodes -> Nat]
  BY <1>1
<1>3. \A j \in Inodes : cont'[j] \in Seq(0 .. MaxWrites) /\ Whole(cont'[j]) \in Words
  BY <1>2, WordIs
<1>4. \A j \in Inodes : synced'[j] <= Len(cont'[j])
  BY <1>1 DEF Files
<1>5. cont' \in [Inodes -> Seq(0 .. MaxWrites)]
  BY <1>2, <1>3
<1> QED BY <1>2, <1>3, <1>4, <1>5 DEF Files

LEMMA SyncChange ==
  ASSUME Files, NEW i, pc # "down", cont' = cont,
         synced' = synced \/ synced' = [synced EXCEPT ![i] = Len(cont[i])]
  PROVE  Files'
<1>1. cont \in [Inodes -> Words] /\ synced \in [Inodes -> Nat]
  BY DEF Files
<1>2. \A j \in Inodes : Len(cont[j]) \in Nat /\ synced[j] <= Len(cont[j])
  BY <1>1, WordIs DEF Files
<1>3. synced' \in [Inodes -> Nat] /\ \A j \in Inodes : synced'[j] <= Len(cont[j])
  BY <1>1, <1>2
<1> QED BY <1>1, <1>3 DEF Files


LEMMA FilesStep ==
  ASSUME Flow, Memory, Directories, Files, Control, Disk, Manifests, FirstStart, Contents, Next
  PROVE  Files'
<1>1. CASE FeedAppendOnlyFile
  BY <1>1 DEF FeedAppendOnlyFile, file, offs, bounds, Files
<1>2. CASE BeforeSleep
  BY <1>2 DEF BeforeSleep, file, offs, bounds, Files
<1>3. CASE FlushPostpone
  BY <1>3 DEF FlushPostpone, AofFsyncInProgress, file, offs, bounds, Files
<1>4. CASE FlushWrite
  <2>1. CASE fd \notin Inodes
    <3>1. cont' = cont /\ synced' = synced /\ pc # "down"
      BY <1>4, <2>1 DEF FlushWrite, Files
    <3> QED BY <3>1, SyncChange
  <2>2. CASE fd \in Inodes
    <3>1. pc # "down" /\ cont[fd] \in Words /\ cont[fd] \o buf \in Words
      BY <1>4, <2>2 DEF FlushWrite, Files, Memory, Words
    <3>2. synced[fd] \in 0 .. Len(cont[fd] \o buf)
      BY <1>4, <2>2, <3>1 DEF FlushWrite, Files, Memory, Words
    <3>3. cont' = [cont EXCEPT ![fd] = cont[fd] \o buf] /\ synced' = [synced EXCEPT ![fd] = synced[fd]]
      BY <1>4 DEF FlushWrite, Files
    <3> QED BY <3>1, <3>2, <3>3, FileChange
  <2> QED BY <2>1, <2>2
<1>5. CASE FlushError
  BY <1>5 DEF FlushError, Fault, file, offs, bounds, Files
<1>6. CASE FsyncAlways
  <2>1. pc # "down" /\ cont' = cont /\ (synced' = synced \/ synced' = [synced EXCEPT ![fd] = Len(cont[fd])])
    BY <1>6 DEF FsyncAlways
  <2> QED BY <2>1, SyncChange
<1>7. CASE Reply
  BY <1>7 DEF Reply, file, offs, bounds, Files
<1>8. CASE BioProcessBackgroundJob
  <2>1. pc # "down" /\ cont' = cont /\ (synced' = synced \/ synced' = [synced EXCEPT ![Head(bio).ino] = Len(cont[Head(bio).ino])])
    BY <1>8 DEF BioProcessBackgroundJob
  <2> QED BY <2>1, SyncChange
<1>9. CASE ScheduledRewrite
  BY <1>9 DEF ScheduledRewrite, file, offs, bounds, Files
<1>10. CASE OpenNewIncrAofForAppend
  <2>1. pc # "down"
    BY <1>10 DEF OpenNewIncrAofForAppend
  <2>2. CASE UNCHANGED file
    BY <2>1, <2>2, SyncChange DEF file
  <2>3. CASE Create(NewInode, <<>>, 0)
    <3>1. 0 \in 0 .. Len(<<>>)
      BY EmptyWord
    <3> QED BY <2>1, <2>3, <3>1, EmptyWord, FileChange DEF Create
  <2> QED BY <1>10, <2>2, <2>3 DEF OpenNewIncrAofForAppend
<1>11. CASE PersistNewIncr
  BY <1>11 DEF PersistNewIncr, NoFault, Fault, RewriteRefused, SwapAofFd, PersistAofManifest,
     PersistUnsynced, file, offs, bounds, Files
<1>12. CASE DrainBioFsync
  BY <1>12 DEF DrainBioFsync, AofFsyncInProgress, file, offs, bounds, Files
<1>13. CASE Fork
  BY <1>13 DEF Fork, NoFault, Fault, RewriteRefused, file, offs, bounds, Files
<1>14. CASE ChildExits
  BY <1>14 DEF ChildExits, NoFault, Fault, file, offs, bounds, Files
<1>15. CASE ReapChild
  BY <1>15 DEF ReapChild, Cleanup, Change, file, offs, bounds, Files
<1>16. CASE RenameBase
  <2>1. pc # "down"
    BY <1>16 DEF RenameBase
  <2>2. CASE cont' = cont /\ synced' = synced
    BY <2>1, <2>2, SyncChange
  <2>3. CASE Create(NewInode, child.snap, Len(child.snap))
    <3>1. child.snap \in Words
      BY <1>16 DEF RenameBase, Control, Memory, ChildType, Words
    <3>2. Len(child.snap) \in 0 .. Len(child.snap)
      BY <3>1, WordIs
    <3> QED BY <2>1, <2>3, <3>1, <3>2, FileChange DEF Create
  <2> QED BY <1>16, <2>2, <2>3 DEF RenameBase
<1>17. CASE RenameIncr
  BY <1>17 DEF RenameIncr, NoFault, Fault, Cleanup, Change, file, offs, bounds, Files
<1>18. CASE PersistRewrite
  BY <1>18 DEF PersistRewrite, NoFault, Fault, Cleanup, Change, PersistAofManifest, file, offs, bounds, Files
<1>19. CASE DelHistoryFiles
  BY <1>19 DEF DelHistoryFiles, Change, file, offs, bounds, Files
<1>20. CASE RewriteDone
  BY <1>20 DEF RewriteDone, NoFault, Fault, PersistAofManifest, file, offs, bounds, Files
<1>21. CASE StopAppendOnly
  BY <1>21 DEF StopAppendOnly, file, offs, bounds, Files
<1>22. CASE AppendOnlyStopped
  <2>1. pc # "down" /\ cont' = cont /\ (synced' = synced \/ synced' = [synced EXCEPT ![fd] = Len(cont[fd])])
    BY <1>22 DEF AppendOnlyStopped, FsyncAndClose
  <2> QED BY <2>1, SyncChange
<1>23. CASE PrepareForShutdown
  BY <1>23 DEF PrepareForShutdown, file, offs, bounds, Files
<1>24. CASE Exit
  <2>1. pc # "down" /\ cont' = cont /\ (synced' = synced \/ synced' = [synced EXCEPT ![fd] = Len(cont[fd])])
    BY <1>24 DEF Exit, FsyncAndClose
  <2> QED BY <2>1, SyncChange
<1>25. CASE Crash
  <2>1. pc # "down" /\ pc' = "down" /\ cont \in [Inodes -> Words] /\ synced \in [Inodes -> Nat]
    BY <1>25 DEF Crash, Terminate, Files
  <2>2. CASE UNCHANGED <<cont, synced>>
    BY <2>1, <2>2, SyncChange
  <2>3. CASE mode.failure # "process"
    <3>0. PICK d \in Range(dirs) : \E left :
               /\ \A i \in Range(d.ent) : left[i] \in Survivals(i)
               /\ cont' = [i \in Inodes |-> IF i \in Range(d.ent) THEN left[i] ELSE <<>>]
               /\ synced' = [i \in Inodes |-> Len(cont'[i])]
      BY <1>25, <2>3 DEF Crash
    <3>1. PICK left : /\ \A i \in Range(d.ent) : left[i] \in Survivals(i)
               /\ cont' = [i \in Inodes |-> IF i \in Range(d.ent) THEN left[i] ELSE <<>>]
               /\ synced' = [i \in Inodes |-> Len(cont'[i])]
      BY <3>0
    <3>2. \A i \in Inodes : cont'[i] \in Seq(0 .. MaxWrites) /\ Whole(cont'[i]) \in Words
      <4> TAKE i \in Inodes
      <4>1. CASE i \notin Range(d.ent)
        BY <4>1, <3>1, EmptyWord
      <4>2. CASE i \in Range(d.ent)
        <5>1. cont[i] \in Words /\ synced[i] \in Nat /\ synced[i] <= Len(cont[i]) /\ cont'[i] \in Survivals(i)
          BY <4>2, <2>1, <3>1 DEF Files
        <5> QED BY <5>1, SurvivalIs
      <4> QED BY <4>1, <4>2
    <3>3. \A i \in Inodes : Len(cont'[i]) \in Nat /\ synced'[i] = Len(cont'[i])
      BY <3>1, <3>2
    <3>4. cont' \in [Inodes -> Seq(0 .. MaxWrites)] /\ synced' \in [Inodes -> Nat]
      <4>1. cont' = [i \in Inodes |-> cont'[i]] /\ synced' = [i \in Inodes |-> synced'[i]]
        BY <3>1
      <4> QED BY <4>1, <3>2, <3>3
    <3> QED BY <2>1, <3>2, <3>3, <3>4 DEF Files
  <2> QED BY <1>25, <2>2, <2>3 DEF Crash
<1>26. CASE LoadAppendOnlyFiles
  <2>1. CASE ~Loadable(Dir, cont)
    BY <1>26, <2>1, DownIsLoadable DEF LoadAppendOnlyFiles
  <2>2. CASE Loadable(Dir, cont)
    <3>1. /\ cont' = [i \in Inodes |-> Whole(cont[i])]
          /\ synced' = [i \in Inodes |-> IF Whole(cont[i]) = cont[i] THEN synced[i] ELSE Len(cont'[i])]
      BY <1>26, <2>2 DEF LoadAppendOnlyFiles
    <3>2. \A i \in Inodes : cont'[i] \in Words
      BY <3>1 DEF Files
    <3>3. \A i \in Inodes : /\ cont'[i] \in Seq(0 .. MaxWrites) /\ Whole(cont'[i]) \in Words
                            /\ Len(cont'[i]) \in Nat
      BY <3>2, WordIs
    <3>4. \A i \in Inodes : synced'[i] \in Nat /\ synced'[i] <= Len(cont'[i])
      <4> TAKE i \in Inodes
      <4>1. synced[i] \in Nat /\ synced[i] <= Len(cont[i])
        BY DEF Files
      <4>2. synced'[i] = (IF Whole(cont[i]) = cont[i] THEN synced[i] ELSE Len(cont'[i])) /\ cont'[i] = Whole(cont[i])
        BY <3>1
      <4> QED BY <4>1, <4>2, <3>3
    <3>5. cont' = [i \in Inodes |-> cont'[i]] /\ synced' = [i \in Inodes |-> synced'[i]]
      BY <3>1
    <3> QED BY <3>2, <3>3, <3>4, <3>5 DEF Files
  <2> QED BY <2>1, <2>2
<1>27. CASE OpenOnServerStart
  <2>1. pc # "down" /\ pc' # "down" /\ cont \in [Inodes -> Words] /\ synced \in [Inodes -> Nat] /\ data \in Words
    BY <1>27 DEF OpenOnServerStart, Files, Memory
  <2>2. CASE am.incr # <<>>
    BY <1>27, <2>1, <2>2, OpenAgain, SyncChange
  <2>3. CASE am.incr = <<>>
    <3>1. /\ cont'[NewInode] = data /\ synced'[NewInode] = Len(data)
          /\ \A i \in Inodes \ {NewInode} : \/ cont'[i] = cont[i] /\ synced'[i] = synced[i]
                                            \/ cont'[i] = <<>> /\ synced'[i] = 0
          /\ cont' \in [Inodes -> {cont[i] : i \in Inodes} \cup {data, <<>>}]
          /\ synced' \in [Inodes -> Nat]
      BY <1>27, <2>3, OpenFirst
    <3>2. \A i \in Inodes : cont'[i] \in Words
      BY <3>1, <2>1, EmptyWord
    <3>3. \A i \in Inodes : cont'[i] \in Seq(0 .. MaxWrites) /\ Whole(cont'[i]) \in Words
      BY <3>2, WordIs
    <3>4. \A i \in Inodes : synced'[i] <= Len(cont'[i])
      <4> TAKE i \in Inodes
      <4>1. CASE i = NewInode
        BY <4>1, <3>1, <2>1, WordIs
      <4>2. CASE i # NewInode /\ cont'[i] = cont[i] /\ synced'[i] = synced[i]
        BY <4>2 DEF Files
      <4>3. CASE i # NewInode /\ cont'[i] = <<>> /\ synced'[i] = 0
        BY <4>3, EmptyWord
      <4> QED BY <4>1, <4>2, <4>3, <3>1
    <3>5. cont' \in [Inodes -> Words] /\ cont' \in [Inodes -> Seq(0 .. MaxWrites)]
      BY <3>1, <3>2, <3>3
    <3> QED BY <3>1, <3>3, <3>4, <3>5 DEF Files
  <2> QED BY <2>2, <2>3
<1>28. CASE PersistOnServerStart
  BY <1>28 DEF PersistOnServerStart, PersistAofManifest, file, offs, bounds, Files
<1>29. ASSUME NEW late \in BOOLEAN, FlushEmpty(late) PROVE Files'
  BY <1>29 DEF FlushEmpty, AofFsyncInProgress, file, offs, bounds, Files
<1>30. ASSUME NEW late \in BOOLEAN, FsyncInBackground(late) PROVE Files'
  BY <1>30 DEF FsyncInBackground, AofFsyncInProgress, file, offs, bounds, Files
<1>31. ASSUME NEW busy \in BOOLEAN, BgrewriteaofCommand(busy) PROVE Files'
  BY <1>31 DEF BgrewriteaofCommand, file, offs, bounds, Files
<1>32. ASSUME NEW busy \in BOOLEAN, StartAppendOnly(busy) PROVE Files'
  BY <1>32 DEF StartAppendOnly, file, offs, bounds, Files
<1> QED
  BY <1>1, <1>2, <1>3, <1>4, <1>5, <1>6, <1>7, <1>8, <1>9, <1>10, <1>11, <1>12, <1>13, <1>14, <1>15,
     <1>16, <1>17, <1>18, <1>19, <1>20, <1>21, <1>22, <1>23, <1>24, <1>25, <1>26, <1>27, <1>28,
     <1>29, <1>30, <1>31, <1>32 DEF Next, Flush, Rewrite, Restart


-------------------------------------------------------------------------------
(* Steps that leave the files alone.                                       *)

(* The rest of the invariant has one lemma per action.                     *)
Core == Disk /\ Manifests /\ FirstStart /\ Prepared /\ Synced /\ Contents /\ Bounds

Quiet ==
    /\ UNCHANGED <<mode, am, dirs, cont, synced, fd>>
    /\ Running /\ pc # "bootp" /\ Running' /\ pc' # "bootp"
    /\ Engaged' <=> Engaged

LEMMA PrefixIs ==
  ASSUME NEW s \in Words, NEW t \in Words
  PROVE  IsPrefix(s, t) <=> Len(s) <= Len(t) /\ \A i \in 1 .. Len(s) : s[i] = t[i]
<1>1. s \in Seq(1 .. MaxWrites) /\ t \in Seq(1 .. MaxWrites) /\ Len(s) \in Nat /\ Len(t) \in Nat
  BY DEF Words
<1>2. \A i \in 1 .. Len(s) : s[i] \in 1 .. MaxWrites
  BY <1>1, ElementOfSeq
<1>3. SubSeq(s, 1, Len(s)) = s
  BY <1>1, SubSeqFull
<1>4. ASSUME Len(s) <= Len(t)
      PROVE  s = SubSeq(t, 1, Len(s)) <=> \A i \in 1 .. Len(s) : s[i] = t[i]
  <2> DEFINE u == SubSeq(t, 1, Len(s))
  <2>1. \A i \in 1 .. Len(s) : t[i] \in 1 .. MaxWrites
    <3>1. \A i \in 1 .. Len(t) : t[i] \in 1 .. MaxWrites
      BY <1>1, ElementOfSeq
    <3> QED BY <1>1, <1>4, <3>1
  <2>2. /\ u \in Seq(1 .. MaxWrites) /\ Len(u) = (IF 1 <= Len(s) THEN Len(s) - 1 + 1 ELSE 0)
        /\ \A i \in 1 .. Len(s) - 1 + 1 : u[i] = t[1 + i - 1]
    <3>1. 1 \in Int /\ Len(s) \in Int
      BY <1>1
    <3> QED BY <3>1, <2>1, SubSeqProperties
  <2> HIDE DEF u
  <2>3. Len(u) = Len(s) /\ \A i \in 1 .. Len(s) : u[i] = t[i]
    BY <1>1, <2>2
  <2>4. s = u <=> \A i \in 1 .. Len(s) : s[i] = u[i]
    BY <1>1, <2>2, <2>3, SeqEqual
  <2> QED BY <2>3, <2>4 DEF u
<1> QED BY <1>3, <1>4 DEF IsPrefix

LEMMA AppendWord ==
  ASSUME NEW s \in Words, NEW t \in Words, NEW x \in 1 .. MaxWrites
  PROVE  /\ s \o t \in Words /\ Len(s \o t) = Len(s) + Len(t)
         /\ Append(t, x) \in Words /\ Len(Append(t, x)) = Len(t) + 1
         /\ s \o Append(t, x) = Append(s \o t, x)
         /\ IsPrefix(s, t) => IsPrefix(s, Append(t, x))
<1>1. s \in Seq(1 .. MaxWrites) /\ t \in Seq(1 .. MaxWrites) /\ Len(s) \in Nat /\ Len(t) \in Nat
  BY DEF Words
<1>2. /\ s \o t \in Words /\ Len(s \o t) = Len(s) + Len(t)
      /\ Append(t, x) \in Words /\ Len(Append(t, x)) = Len(t) + 1
      /\ \A i \in 1 .. Len(t) : Append(t, x)[i] = t[i]
  BY <1>1, AppendProperties, ConcatProperties DEF Words
<1>3. s \o Append(t, x) = Append(s \o t, x)
  BY <1>1
<1>4. IsPrefix(s, t) => IsPrefix(s, Append(t, x))
  <2> SUFFICES ASSUME Len(s) <= Len(t), \A i \in 1 .. Len(s) : s[i] = t[i]
               PROVE  Len(s) <= Len(Append(t, x)) /\ \A i \in 1 .. Len(s) : s[i] = Append(t, x)[i]
    BY <1>2, PrefixIs
  <2> QED BY <1>1, <1>2
<1> QED BY <1>2, <1>3, <1>4

LEMMA ConcatWord ==
  ASSUME NEW s \in Words, NEW t \in Words
  PROVE  /\ s \o t \in Words /\ Len(s \o t) = Len(s) + Len(t) /\ Len(s) \in Nat /\ Len(t) \in Nat
         /\ s \o <<>> = s /\ <<>> \o s = s /\ IsPrefix(s, s \o t)
<1>1. s \in Seq(1 .. MaxWrites) /\ t \in Seq(1 .. MaxWrites) /\ Len(s) \in Nat /\ Len(t) \in Nat
  BY DEF Words
<1>2. s \o t \in Words /\ Len(s \o t) = Len(s) + Len(t) /\ \A i \in 1 .. Len(s) : (s \o t)[i] = s[i]
  BY <1>1, ConcatProperties DEF Words
<1>3. s \o <<>> = s /\ <<>> \o s = s
  BY <1>1, ConcatEmptySeq
<1>4. IsPrefix(s, s \o t)
  <2>1. Len(s) <= Len(s \o t)
    BY <1>1, <1>2
  <2> QED BY <1>2, <2>1, PrefixIs
<1> QED BY <1>1, <1>2, <1>3, <1>4

LEMMA LogIsWord ==
  ASSUME Files, NEW m, Listed(m), NEW e, \A f \in Names(m) : e[f] \in Inodes
  PROVE  Log(m, e, cont) \in Words
BY LogType DEF Files, Words

LEMMA HeldInodes ==
  ASSUME Directories, Disk
  PROVE  /\ \A f \in Names(Dir.m) : f \in DOMAIN Dir.ent /\ Dir.ent[f] \in Inodes
         /\ Listed(Dir.m) /\ (Files => L \in Words)
<1>1. \A f \in Names(Dir.m) : f \in DOMAIN Dir.ent /\ Dir.ent[f] \in Inodes
  BY DirIs DEF Disk, Held
<1>2. Listed(Dir.m)
  BY DirIs
<1> QED BY <1>1, <1>2, LogIsWord DEF L

LEMMA QuietDisk ==
  ASSUME Disk, Manifests, FirstStart, Synced, Quiet
  PROVE  /\ Disk' /\ Manifests' /\ FirstStart' /\ Dir' = Dir /\ L' = L /\ Lag' = Lag
         /\ Power' = Power /\ (pc # "sync" \/ ~Power \/ pc' = "sync" => Synced')
<1>1. Dir' = Dir /\ Lag' = Lag /\ Power' = Power
  BY DEF Quiet, Dir, Lag, Power
<1>2. L' = L
  BY <1>1 DEF L, Quiet
<1>3. Disk'
  BY <1>1 DEF Disk, Quiet
<1>4. Manifests'
  BY <1>1 DEF Manifests, Quiet, Running
<1>5. FirstStart'
  BY <1>1 DEF FirstStart, Quiet
<1>6. pc # "sync" \/ ~Power \/ pc' = "sync" => Synced'
  BY <1>1 DEF Synced, Quiet, Intact, Running
<1> QED BY <1>1, <1>2, <1>3, <1>4, <1>5, <1>6

LEMMA BoundsNat ==
  ASSUME Counts, Memory, Files
  PROVE  /\ Len(data) \in Nat /\ Len(buf) \in Nat /\ Lag \in Nat
         /\ \A i \in DOMAIN bio : bio[i].off \in Nat
<1>1. Len(data) \in Nat /\ Len(buf) \in Nat
  BY WordIs DEF Memory
<1>2. Lag \in Nat
  <2>1. CASE fd \in Inodes
    <3>1. cont[fd] \in Seq(0 .. MaxWrites) /\ synced[fd] \in Nat /\ synced[fd] <= Len(cont[fd])
      BY <2>1 DEF Files
    <3> QED BY <3>1 DEF Lag
  <2>2. CASE fd = None
    BY <2>2 DEF Lag
  <2> QED BY <2>1, <2>2 DEF Memory
<1>3. \A i \in DOMAIN bio : bio[i].off \in Nat
  <2>1. \A i \in DOMAIN bio : bio[i] \in Job
    BY DEF Memory
  <2> QED BY <2>1 DEF Job
<1> QED BY <1>1, <1>2, <1>3

LEMMA QuietLag ==
  ASSUME Memory, Synced, Files, pc # "sync"
  PROVE  Lag = 0
<1>1. CASE Power /\ fd # None
  <2>1. Len(cont[fd]) = synced[fd] /\ synced[fd] \in Nat
    BY <1>1 DEF Synced, Intact, Memory, Files
  <2> QED BY <2>1, <1>1 DEF Lag
<1>2. CASE ~(Power /\ fd # None)
  BY <1>2 DEF Lag
<1> QED BY <1>1, <1>2

LEMMA QuietBounds ==
  ASSUME Counts, Memory, Files, Bounds, Quiet, Lag' = Lag, UNCHANGED <<pending, fsynced, safe, bio>>,
         Len(data') - Len(buf') >= Len(data) - Len(buf), Len(data') \in Nat, Len(buf') \in Nat
  PROVE  Bounds'
<1>1. Len(data) \in Nat /\ Len(buf) \in Nat /\ Lag \in Nat /\ \A i \in DOMAIN bio : bio[i].off \in Nat
  BY BoundsNat
<1>2. \A x \in Int : x + Lag + Len(buf) <= Len(data) => x + Lag + Len(buf') <= Len(data')
  BY <1>1
<1>3. pc # "down" /\ pc' # "down"
  BY DEF Quiet, Running
<1>4. pending + Lag' + Len(buf') <= Len(data') /\ fsynced + Lag' + Len(buf') <= Len(data') /\ safe + Lag' + Len(buf') <= Len(data')
  BY <1>2, <1>3 DEF Bounds, Counts
<1>5. \A i \in DOMAIN bio : bio[i].off + Lag' + Len(buf') <= Len(data')
  BY <1>1, <1>2, <1>3 DEF Bounds
<1> QED BY <1>3, <1>4, <1>5 DEF Bounds, Quiet

LEMMA AppendedJob ==
  ASSUME NEW s \in Seq(Job), NEW t, NEW i, NEW o
  PROVE  LET q == Append(s, [type |-> t, ino |-> i, off |-> o])
         IN  \A k \in DOMAIN q : q[k].off = o \/ (k \in DOMAIN s /\ q[k] = s[k])
<1> DEFINE x == [type |-> t, ino |-> i, off |-> o]
           q == Append(s, x)
           S == Job \cup {x}
<1>1. s \in Seq(S) /\ x \in S
  BY SeqMonotonic
<1>2. x.off = o
  OBVIOUS
<1> HIDE DEF x, S
<1>3. DOMAIN q = 1 .. Len(s) + 1 /\ DOMAIN s = 1 .. Len(s) /\ Len(s) \in Nat
   /\ q[Len(s) + 1] = x /\ \A k \in 1 .. Len(s) : q[k] = s[k]
  BY <1>1
<1> HIDE DEF q
<1>4. \A k \in DOMAIN q : q[k].off = o \/ (k \in DOMAIN s /\ q[k] = s[k])
  <2> TAKE k \in DOMAIN q
  <2>1. k = Len(s) + 1 \/ k \in 1 .. Len(s)
    BY <1>3
  <2> QED BY <2>1, <1>2, <1>3
<1> QED BY <1>4 DEF q, x


LEMMA FeedAppendOnlyFileCore ==
  ASSUME Sturdy, Flow, Counts, Memory, Directories, Files, Control, Disk, Manifests,
         FirstStart, Prepared, Synced, Contents, Bounds,
         Flow', Counts', Memory', Directories', Files', Control', FeedAppendOnlyFile
  PROVE  Core'
<1>1. Quiet
  BY DEF Quiet, FeedAppendOnlyFile, file, offs, bounds, Control, Running, Engaged, Flow
<1>2. /\ Disk' /\ Manifests' /\ FirstStart' /\ Dir' = Dir /\ L' = L /\ Lag' = Lag
      /\ Power' = Power /\ (pc # "sync" \/ ~Power \/ pc' = "sync" => Synced')
  BY <1>1, QuietDisk
<1>3. Prepared'
  BY <1>1, <1>2 DEF Quiet, Prepared, Control, FeedAppendOnlyFile, file, offs, bounds
<1>4. Synced'
  BY <1>2, SturdyMode DEF Power, FeedAppendOnlyFile, file, offs, bounds
<1>5. Contents'
  <2>1. n + 1 \in 1 .. MaxWrites /\ data' = Append(data, n + 1) /\ pc' = "loop" /\ child' = child /\ cont' = cont /\ fd' = fd
    BY BoundsAssumption DEF FeedAppendOnlyFile, Flow, file
  <2>2. L \in Words /\ data \in Words /\ buf \in Words
    BY HeldInodes DEF Memory
  <2>3. IsPrefix(L, data) => IsPrefix(L, data')
    BY <2>1, <2>2, AppendWord
  <2>4. CASE st = "on" \/ (st = "wait" /\ child # None)
    <3>1. buf' = Append(buf, n + 1)
      BY <2>4 DEF FeedAppendOnlyFile
    <3>2. L \o buf = data => L \o buf' = data'
      BY <3>1, <2>1, <2>2, AppendWord
    <3>3. ASSUME child # None PROVE (child.snap \o cont[fd]) \o buf = data => (child.snap \o cont[fd]) \o buf' = data'
      <4>1. child.snap \in Words /\ cont[fd] \in Words
        BY <3>3 DEF FeedAppendOnlyFile, Memory, ChildType, Words, Files, Control
      <4> DEFINE w == child.snap \o cont[fd]
      <4>2. w \in Words
        BY <4>1, ConcatWord
      <4> HIDE DEF w
      <4>4. w \o Append(buf, n + 1) = Append(w \o buf, n + 1)
        BY <4>2, <2>1, <2>2, AppendWord
      <4>3. w \o buf = data => w \o buf' = data'
        BY <4>4, <3>1, <2>1
      <4> QED BY <4>3 DEF w
    <3> QED BY <1>1, <1>2, <2>1, <2>3, <3>2, <3>3 DEF Quiet, Contents, FeedAppendOnlyFile
  <2>5. CASE ~(st = "on" \/ (st = "wait" /\ child # None))
    <3>1. ~Engaged /\ child = None /\ pc = "loop"
      BY <2>5 DEF FeedAppendOnlyFile, Engaged, Control, Running, Flow
    <3> QED BY <1>1, <1>2, <2>1, <2>3, <3>1 DEF Quiet, Contents
  <2> QED BY <2>4, <2>5
<1>6. Bounds'
  <2>1. n + 1 \in 1 .. MaxWrites /\ data' = Append(data, n + 1) /\ (buf' = buf \/ buf' = Append(buf, n + 1))
    BY BoundsAssumption DEF FeedAppendOnlyFile, Flow
  <2>2. data \in Words /\ buf \in Words
    BY DEF Memory
  <2>3. Len(data') = Len(data) + 1 /\ (Len(buf') = Len(buf) \/ Len(buf') = Len(buf) + 1)
    BY <2>1, <2>2, AppendWord
  <2>4. Len(data') - Len(buf') >= Len(data) - Len(buf) /\ Len(data') \in Nat /\ Len(buf') \in Nat
    BY <2>3, BoundsNat
  <2>5. UNCHANGED <<pending, fsynced, safe, bio>>
    BY DEF FeedAppendOnlyFile, offs
  <2> QED BY <1>1, <1>2, <2>4, <2>5, QuietBounds
<1> QED BY <1>2, <1>3, <1>4, <1>5, <1>6 DEF Core

LEMMA BeforeSleepCore ==
  ASSUME Sturdy, Flow, Counts, Memory, Directories, Files, Control, Disk, Manifests,
         FirstStart, Prepared, Synced, Contents, Bounds,
         Flow', Counts', Memory', Directories', Files', Control', BeforeSleep
  PROVE  Core'
<1>1. Quiet
  BY DEF Quiet, BeforeSleep, file, offs, bounds, Control, Running, Engaged, Flow
<1>2. /\ Disk' /\ Manifests' /\ FirstStart' /\ Dir' = Dir /\ L' = L /\ Lag' = Lag
      /\ Power' = Power /\ (pc # "sync" \/ ~Power \/ pc' = "sync" => Synced')
  BY <1>1, QuietDisk
<1>3. Prepared'
  BY <1>1, <1>2 DEF Quiet, Prepared, Control, BeforeSleep, file, offs, bounds
<1>4. Synced'
  BY <1>2, SturdyMode DEF Power, BeforeSleep, file, offs, bounds
<1>5. Contents'
  BY <1>1, <1>2 DEF Quiet, Contents, Running, Engaged, Control, BeforeSleep, file, offs, bounds
<1>6. Bounds'
  BY <1>1, <1>2, BoundsNat DEF Quiet, Bounds, Running, Engaged, Control, BeforeSleep, file, offs, bounds
<1> QED BY <1>2, <1>3, <1>4, <1>5, <1>6 DEF Core

LEMMA FlushPostponeCore ==
  ASSUME Sturdy, Flow, Counts, Memory, Directories, Files, Control, Disk, Manifests,
         FirstStart, Prepared, Synced, Contents, Bounds,
         Flow', Counts', Memory', Directories', Files', Control', FlushPostpone
  PROVE  Core'
<1>1. Quiet
  BY DEF Quiet, FlushPostpone, file, offs, bounds, Control, Running, Engaged, Flow
<1>2. /\ Disk' /\ Manifests' /\ FirstStart' /\ Dir' = Dir /\ L' = L /\ Lag' = Lag
      /\ Power' = Power /\ (pc # "sync" \/ ~Power \/ pc' = "sync" => Synced')
  BY <1>1, QuietDisk
<1>3. Prepared'
  BY <1>1, <1>2 DEF Quiet, Prepared, Control, FlushPostpone, file, offs, bounds
<1>4. Synced'
  BY <1>2, SturdyMode DEF Power, FlushPostpone, file, offs, bounds
<1>5. Contents'
  BY <1>1, <1>2 DEF Quiet, Contents, Running, Engaged, Control, FlushPostpone, file, offs, bounds
<1>6. Bounds'
  BY <1>1, <1>2, BoundsNat DEF Quiet, Bounds, Running, Engaged, Control, FlushPostpone, file, offs, bounds
<1> QED BY <1>2, <1>3, <1>4, <1>5, <1>6 DEF Core

LEMMA FlushErrorCore ==
  ASSUME Sturdy, Flow, Counts, Memory, Directories, Files, Control, Disk, Manifests,
         FirstStart, Prepared, Synced, Contents, Bounds,
         Flow', Counts', Memory', Directories', Files', Control', FlushError
  PROVE  Core'
<1>1. Quiet
  BY DEF Quiet, FlushError, Fault, file, offs, bounds, Control, Running, Engaged, Flow
<1>2. /\ Disk' /\ Manifests' /\ FirstStart' /\ Dir' = Dir /\ L' = L /\ Lag' = Lag
      /\ Power' = Power /\ (pc # "sync" \/ ~Power \/ pc' = "sync" => Synced')
  BY <1>1, QuietDisk
<1>3. Prepared'
  BY <1>1, <1>2 DEF Quiet, Prepared, Control, FlushError, Fault, file, offs, bounds
<1>4. Synced'
  BY <1>2, SturdyMode DEF Power, FlushError, Fault, file, offs, bounds
<1>5. Contents'
  BY <1>1, <1>2 DEF Quiet, Contents, Running, Engaged, Control, FlushError, Fault, file, offs, bounds
<1>6. Bounds'
  BY <1>1, <1>2, BoundsNat DEF Quiet, Bounds, Running, Engaged, Control, FlushError, Fault, file, offs, bounds
<1> QED BY <1>2, <1>3, <1>4, <1>5, <1>6 DEF Core

LEMMA ReplyCore ==
  ASSUME Sturdy, Flow, Counts, Memory, Directories, Files, Control, Disk, Manifests,
         FirstStart, Prepared, Synced, Contents, Bounds,
         Flow', Counts', Memory', Directories', Files', Control', Reply
  PROVE  Core'
<1>1. Quiet
  BY DEF Quiet, Reply, file, offs, bounds, Control, Running, Engaged, Flow
<1>2. /\ Disk' /\ Manifests' /\ FirstStart' /\ Dir' = Dir /\ L' = L /\ Lag' = Lag
      /\ Power' = Power /\ (pc # "sync" \/ ~Power \/ pc' = "sync" => Synced')
  BY <1>1, QuietDisk
<1>3. Prepared'
  BY <1>1, <1>2 DEF Quiet, Prepared, Control, Reply, file, offs, bounds
<1>4. Synced'
  BY <1>2, SturdyMode DEF Power, Reply, file, offs, bounds
<1>5. Contents'
  BY <1>1, <1>2 DEF Quiet, Contents, Running, Engaged, Control, Reply, file, offs, bounds
<1>6. Bounds'
  <2>1. Lag = 0
    BY QuietLag DEF Reply
  <2>2. buf = <<>> => Len(buf) = 0
    BY EmptyWord
  <2> QED BY <1>1, <1>2, <2>1, <2>2, BoundsNat DEF Quiet, Bounds, Counts, Control, Running, Engaged,
             Flow, Reply, offs
<1> QED BY <1>2, <1>3, <1>4, <1>5, <1>6 DEF Core

LEMMA ScheduledRewriteCore ==
  ASSUME Sturdy, Flow, Counts, Memory, Directories, Files, Control, Disk, Manifests,
         FirstStart, Prepared, Synced, Contents, Bounds,
         Flow', Counts', Memory', Directories', Files', Control', ScheduledRewrite
  PROVE  Core'
<1>1. Quiet
  BY DEF Quiet, ScheduledRewrite, file, offs, bounds, Control, Running, Engaged, Flow
<1>2. /\ Disk' /\ Manifests' /\ FirstStart' /\ Dir' = Dir /\ L' = L /\ Lag' = Lag
      /\ Power' = Power /\ (pc # "sync" \/ ~Power \/ pc' = "sync" => Synced')
  BY <1>1, QuietDisk
<1>3. Prepared'
  BY <1>1, <1>2 DEF Quiet, Prepared, Control, ScheduledRewrite, file, offs, bounds
<1>4. Synced'
  BY <1>2, SturdyMode DEF Power, ScheduledRewrite, file, offs, bounds
<1>5. Contents'
  BY <1>1, <1>2 DEF Quiet, Contents, Running, Engaged, Control, ScheduledRewrite, file, offs, bounds
<1>6. Bounds'
  BY <1>1, <1>2, BoundsNat DEF Quiet, Bounds, Running, Engaged, Control, ScheduledRewrite, file, offs, bounds
<1> QED BY <1>2, <1>3, <1>4, <1>5, <1>6 DEF Core

LEMMA DrainBioFsyncCore ==
  ASSUME Sturdy, Flow, Counts, Memory, Directories, Files, Control, Disk, Manifests,
         FirstStart, Prepared, Synced, Contents, Bounds,
         Flow', Counts', Memory', Directories', Files', Control', DrainBioFsync
  PROVE  Core'
<1>1. Quiet
  BY DEF Quiet, DrainBioFsync, file, offs, bounds, Control, Running, Engaged, Flow
<1>2. /\ Disk' /\ Manifests' /\ FirstStart' /\ Dir' = Dir /\ L' = L /\ Lag' = Lag
      /\ Power' = Power /\ (pc # "sync" \/ ~Power \/ pc' = "sync" => Synced')
  BY <1>1, QuietDisk
<1>3. Prepared'
  BY <1>1, <1>2 DEF Quiet, Prepared, Control, DrainBioFsync, file, offs, bounds
<1>4. Synced'
  BY <1>2, SturdyMode DEF Power, DrainBioFsync, file, offs, bounds
<1>5. Contents'
  BY <1>1, <1>2 DEF Quiet, Contents, Running, Engaged, Control, DrainBioFsync, file, offs, bounds
<1>6. Bounds'
  <2>1. Lag = 0
    BY QuietLag DEF DrainBioFsync
  <2>2. buf = <<>> => Len(buf) = 0
    BY EmptyWord
  <2> QED BY <1>1, <1>2, <2>1, <2>2, BoundsNat DEF Quiet, Bounds, Counts, Control, Running, Engaged,
             Flow, DrainBioFsync, offs
<1> QED BY <1>2, <1>3, <1>4, <1>5, <1>6 DEF Core

LEMMA ForkCore ==
  ASSUME Sturdy, Flow, Counts, Memory, Directories, Files, Control, Disk, Manifests,
         FirstStart, Prepared, Synced, Contents, Bounds,
         Flow', Counts', Memory', Directories', Files', Control', Fork
  PROVE  Core'
<1>1. Quiet
  BY DEF Quiet, Fork, RewriteRefused, Fault, NoFault, file, offs, bounds, Control, Running, Engaged, Flow
<1>2. /\ Disk' /\ Manifests' /\ FirstStart' /\ Dir' = Dir /\ L' = L /\ Lag' = Lag
      /\ Power' = Power /\ (pc # "sync" \/ ~Power \/ pc' = "sync" => Synced')
  BY <1>1, QuietDisk
<1>3. Prepared'
  BY <1>1, <1>2 DEF Quiet, Prepared, Control, Fork, RewriteRefused, Fault, NoFault, file, offs, bounds
<1>4. Synced'
  BY <1>2, SturdyMode DEF Power, Fork, RewriteRefused, Fault, NoFault, file, offs, bounds
<1>5. Contents'
  <2>1. data \in Words /\ buf = <<>> /\ cont[fd] = <<>> /\ buf' = buf /\ data' = data
    BY DEF Fork, Memory, Control, Prepared
  <2>2. (data \o <<>>) \o <<>> = data
    BY <2>1, ConcatWord
  <2>3. child' = [st |-> "run", snap |-> data] \/ child' = child
    BY DEF Fork
  <2>4. child' # None => (child'.snap \o cont'[fd']) \o buf' = data'
    <3>1. child = None /\ cont' = cont /\ fd' = fd
      BY <1>1 DEF Fork, Control, Quiet
    <3>2. CASE child' = [st |-> "run", snap |-> data]
      BY <2>1, <2>2, <3>1, <3>2
    <3> QED BY <2>3, <3>1, <3>2
  <2> QED BY <1>1, <1>2, <2>1, <2>4 DEF Quiet, Contents, Running, Fork
<1>6. Bounds'
  BY <1>1, <1>2, BoundsNat DEF Quiet, Bounds, Running, Engaged, Control, Fork, RewriteRefused,
     Fault, NoFault, file, offs, bounds
<1> QED BY <1>2, <1>3, <1>4, <1>5, <1>6 DEF Core

LEMMA StopAppendOnlyCore ==
  ASSUME Sturdy, Flow, Counts, Memory, Directories, Files, Control, Disk, Manifests,
         FirstStart, Prepared, Synced, Contents, Bounds,
         Flow', Counts', Memory', Directories', Files', Control', StopAppendOnly
  PROVE  Core'
<1>1. Quiet
  BY DEF Quiet, StopAppendOnly, file, offs, bounds, Control, Running, Engaged, Flow
<1>2. /\ Disk' /\ Manifests' /\ FirstStart' /\ Dir' = Dir /\ L' = L /\ Lag' = Lag
      /\ Power' = Power /\ (pc # "sync" \/ ~Power \/ pc' = "sync" => Synced')
  BY <1>1, QuietDisk
<1>3. Prepared'
  BY <1>1, <1>2 DEF Quiet, Prepared, Control, StopAppendOnly, file, offs, bounds
<1>4. Synced'
  BY <1>2, SturdyMode DEF Power, StopAppendOnly, file, offs, bounds
<1>5. Contents'
  BY <1>1, <1>2 DEF Quiet, Contents, Running, Engaged, Control, StopAppendOnly, file, offs, bounds
<1>6. Bounds'
  BY <1>1, <1>2, BoundsNat DEF Quiet, Bounds, Running, Engaged, Control, StopAppendOnly, file, offs, bounds
<1> QED BY <1>2, <1>3, <1>4, <1>5, <1>6 DEF Core

LEMMA PrepareForShutdownCore ==
  ASSUME Sturdy, Flow, Counts, Memory, Directories, Files, Control, Disk, Manifests,
         FirstStart, Prepared, Synced, Contents, Bounds,
         Flow', Counts', Memory', Directories', Files', Control', PrepareForShutdown
  PROVE  Core'
<1>1. Quiet
  BY DEF Quiet, PrepareForShutdown, file, offs, bounds, Control, Running, Engaged, Flow
<1>2. /\ Disk' /\ Manifests' /\ FirstStart' /\ Dir' = Dir /\ L' = L /\ Lag' = Lag
      /\ Power' = Power /\ (pc # "sync" \/ ~Power \/ pc' = "sync" => Synced')
  BY <1>1, QuietDisk
<1>3. Prepared'
  BY <1>1, <1>2 DEF Quiet, Prepared, Control, PrepareForShutdown, file, offs, bounds
<1>4. Synced'
  BY <1>2, SturdyMode DEF Power, PrepareForShutdown, file, offs, bounds
<1>5. Contents'
  BY <1>1, <1>2 DEF Quiet, Contents, Running, Engaged, Control, PrepareForShutdown, file, offs, bounds
<1>6. Bounds'
  BY <1>1, <1>2, BoundsNat DEF Quiet, Bounds, Running, Engaged, Control, PrepareForShutdown, file,
     offs, bounds
<1> QED BY <1>2, <1>3, <1>4, <1>5, <1>6 DEF Core

LEMMA FlushEmptyCore ==
  ASSUME Sturdy, Flow, Counts, Memory, Directories, Files, Control, Disk, Manifests,
         FirstStart, Prepared, Synced, Contents, Bounds,
         Flow', Counts', Memory', Directories', Files', Control', NEW late \in BOOLEAN, FlushEmpty(late)
  PROVE  Core'
<1>1. Quiet
  BY DEF Quiet, FlushEmpty, file, offs, bounds, Control, Running, Engaged, Flow
<1>2. /\ Disk' /\ Manifests' /\ FirstStart' /\ Dir' = Dir /\ L' = L /\ Lag' = Lag
      /\ Power' = Power /\ (pc # "sync" \/ ~Power \/ pc' = "sync" => Synced')
  BY <1>1, QuietDisk
<1>3. Prepared'
  BY <1>1, <1>2 DEF Quiet, Prepared, Control, FlushEmpty, file, offs, bounds
<1>4. Synced'
  BY <1>2, SturdyMode DEF Power, FlushEmpty, file, offs, bounds
<1>5. Contents'
  BY <1>1, <1>2 DEF Quiet, Contents, Running, Engaged, Control, FlushEmpty, file, offs, bounds
<1>6. Bounds'
  <2>1. Lag = 0
    BY QuietLag DEF FlushEmpty
  <2>2. buf = <<>> => Len(buf) = 0
    BY EmptyWord
  <2> QED BY <1>1, <1>2, <2>1, <2>2, BoundsNat DEF Quiet, Bounds, Counts, Control, Running, Engaged,
             Flow, FlushEmpty, offs
<1> QED BY <1>2, <1>3, <1>4, <1>5, <1>6 DEF Core

LEMMA FsyncInBackgroundCore ==
  ASSUME Sturdy, Flow, Counts, Memory, Directories, Files, Control, Disk, Manifests,
         FirstStart, Prepared, Synced, Contents, Bounds,
         Flow', Counts', Memory', Directories', Files', Control', NEW late \in BOOLEAN, FsyncInBackground(late)
  PROVE  Core'
<1>1. Quiet
  BY DEF Quiet, FsyncInBackground, file, offs, bounds, Control, Running, Engaged, Flow
<1>2. /\ Disk' /\ Manifests' /\ FirstStart' /\ Dir' = Dir /\ L' = L /\ Lag' = Lag
      /\ Power' = Power /\ (pc # "sync" \/ ~Power \/ pc' = "sync" => Synced')
  BY <1>1, QuietDisk
<1>3. Prepared'
  BY <1>1, <1>2 DEF Quiet, Prepared, Control, FsyncInBackground, file, offs, bounds
<1>4. Synced'
  BY <1>2, SturdyMode DEF Power, FsyncInBackground, file, offs, bounds
<1>5. Contents'
  BY <1>1, <1>2 DEF Quiet, Contents, Running, Engaged, Control, FsyncInBackground, file, offs, bounds
<1>6. Bounds'
  <2>1. Lag = 0
    BY SturdyMode DEF FsyncInBackground, Lag, Power
  <2>2. buf = <<>> /\ Len(buf) = 0
    BY EmptyWord DEF Control, FsyncInBackground
  <2>3. CASE bio' = bio
    BY <1>1, <1>2, <2>1, <2>2, <2>3 DEF Quiet, Bounds, Running, FsyncInBackground
  <2>4. CASE bio' = Append(bio, [type |-> "fsync", ino |-> fd, off |-> Len(data)])
    <3>1. \A i \in DOMAIN bio' : bio'[i].off = Len(data) \/ (i \in DOMAIN bio /\ bio'[i] = bio[i])
      BY <2>4, AppendedJob DEF Memory
    <3> QED BY <1>1, <1>2, <2>1, <2>2, <3>1, BoundsNat DEF Quiet, Bounds, Running, FsyncInBackground
  <2> QED BY <2>3, <2>4 DEF FsyncInBackground
<1> QED BY <1>2, <1>3, <1>4, <1>5, <1>6 DEF Core

LEMMA BgrewriteaofCommandCore ==
  ASSUME Sturdy, Flow, Counts, Memory, Directories, Files, Control, Disk, Manifests,
         FirstStart, Prepared, Synced, Contents, Bounds,
         Flow', Counts', Memory', Directories', Files', Control', NEW busy \in BOOLEAN, BgrewriteaofCommand(busy)
  PROVE  Core'
<1>1. Quiet
  BY DEF Quiet, BgrewriteaofCommand, file, offs, bounds, Control, Running, Engaged, Flow
<1>2. /\ Disk' /\ Manifests' /\ FirstStart' /\ Dir' = Dir /\ L' = L /\ Lag' = Lag
      /\ Power' = Power /\ (pc # "sync" \/ ~Power \/ pc' = "sync" => Synced')
  BY <1>1, QuietDisk
<1>3. Prepared'
  BY <1>1, <1>2 DEF Quiet, Prepared, Control, BgrewriteaofCommand, file, offs, bounds
<1>4. Synced'
  BY <1>2, SturdyMode DEF Power, BgrewriteaofCommand, file, offs, bounds
<1>5. Contents'
  BY <1>1, <1>2 DEF Quiet, Contents, Running, Engaged, Control, BgrewriteaofCommand, file, offs, bounds
<1>6. Bounds'
  BY <1>1, <1>2, BoundsNat DEF Quiet, Bounds, Running, Engaged, Control, BgrewriteaofCommand, file,
     offs, bounds
<1> QED BY <1>2, <1>3, <1>4, <1>5, <1>6 DEF Core

LEMMA StartAppendOnlyCore ==
  ASSUME Sturdy, Flow, Counts, Memory, Directories, Files, Control, Disk, Manifests,
         FirstStart, Prepared, Synced, Contents, Bounds,
         Flow', Counts', Memory', Directories', Files', Control', NEW busy \in BOOLEAN, StartAppendOnly(busy)
  PROVE  Core'
<1>1. Quiet
  BY DEF Quiet, StartAppendOnly, file, offs, bounds, Control, Running, Engaged, Flow
<1>2. /\ Disk' /\ Manifests' /\ FirstStart' /\ Dir' = Dir /\ L' = L /\ Lag' = Lag
      /\ Power' = Power /\ (pc # "sync" \/ ~Power \/ pc' = "sync" => Synced')
  BY <1>1, QuietDisk
<1>3. Prepared'
  BY <1>1, <1>2 DEF Quiet, Prepared, Control, StartAppendOnly, file, offs, bounds
<1>4. Synced'
  BY <1>2, SturdyMode DEF Power, StartAppendOnly, file, offs, bounds
<1>5. Contents'
  BY <1>1, <1>2 DEF Quiet, Contents, Running, Engaged, Control, StartAppendOnly, file, offs, bounds
<1>6. Bounds'
  BY <1>1, <1>2, BoundsNat DEF Quiet, Bounds, Running, Engaged, Control, StartAppendOnly, file, offs, bounds
<1> QED BY <1>2, <1>3, <1>4, <1>5, <1>6 DEF Core


-------------------------------------------------------------------------------
(* Steps that write, sync, link and unlink files.                          *)

Moved ==
    /\ Disk' /\ Dir'.m = Dir.m
    /\ \A f \in Names(Dir.m) : f \in DOMAIN Dir'.ent /\ Dir'.ent[f] = Dir.ent[f]

Going == Running /\ pc # "bootp"

LEMMA Unmoved ==
  ASSUME Disk, dirs' = dirs
  PROVE  Moved /\ Dir' = Dir
<1>1. Dir' = Dir
  BY DEF Dir
<1> QED BY <1>1 DEF Moved, Disk, Held

LEMMA DiskChange ==
  ASSUME Directories, Disk, NEW e \in Ent, Change(e),
         \A f \in Names(Dir.m) : f \in DOMAIN e /\ e[f] = Dir.ent[f]
  PROVE  Moved /\ Dir'.ent = e /\ Dir' = [ent |-> e, m |-> Dir.m]
<1>1. /\ Dir' = [ent |-> e, m |-> Dir.m]
      /\ DOMAIN dirs' = DOMAIN dirs \cup {Len(dirs) + 1}
      /\ \A i \in DOMAIN dirs : dirs'[i] = dirs[i]
      /\ dirs'[Len(dirs) + 1] = Dir'
  BY ChangeIs
<1>2. Dir'.m = Dir.m /\ Dir'.ent = e
  BY <1>1
<1>3. Good(Dir'.m)
  BY <1>2 DEF Disk
<1>4. Held(Dir'.m, Dir'.ent)
  <2>1. Names(Dir.m) \subseteq DOMAIN e
    OBVIOUS
  <2>2. ASSUME NEW f \in Older(Dir.m) PROVE e[f] # e[Newest(Dir.m)]
    <3>1. Dir.ent[f] # Dir.ent[Newest(Dir.m)] /\ Listed(Dir.m)
      BY DirIs DEF Disk, Held
    <3>2. f \in Names(Dir.m)
      BY <3>1, NamesAre
    <3>3. CASE Dir.m.incr # <<>>
      <4>1. Newest(Dir.m) \in Names(Dir.m)
        BY <3>1, <3>3, NamesAre
      <4> QED BY <3>1, <3>2, <4>1
    <3>4. CASE Dir.m.incr = <<>>
      BY <3>4, <2>2 DEF Disk, Good, Older
    <3> QED BY <3>3, <3>4
  <2> QED BY <1>2, <2>1, <2>2 DEF Held
<1>5. \A i \in DOMAIN dirs' :
          /\ dirs'[i].m = Dir'.m
          /\ \A f \in Names(Dir'.m) : f \in DOMAIN dirs'[i].ent /\ dirs'[i].ent[f] = Dir'.ent[f]
  <2> TAKE i \in DOMAIN dirs'
  <2>1. CASE i \in DOMAIN dirs
    BY <2>1, <1>1, <1>2 DEF Disk
  <2>2. CASE i = Len(dirs) + 1
    BY <2>2, <1>1, <1>2
  <2> QED BY <2>1, <2>2, <1>1
<1> QED BY <1>1, <1>2, <1>3, <1>4, <1>5 DEF Disk, Moved

LEMMA DiskPersist ==
  ASSUME Directories, NEW m \in Manifest, Good(m), Held(m, Dir.ent), PersistAofManifest(m)
  PROVE  Disk' /\ Dir'.ent = Dir.ent /\ SameFiles(Dir'.m, m)
<1>1. Dir' = [ent |-> Dir.ent, m |-> OnDisk(m)] /\ DOMAIN dirs' = {1} /\ dirs'[1] = Dir'
  BY PersistIs
<1>2. Dir'.ent = Dir.ent /\ Dir'.m = OnDisk(m)
  BY <1>1
<1>3. SameFiles(OnDisk(m), m) /\ Good(OnDisk(m))
  BY OnDiskIs
<1>4. Held(OnDisk(m), Dir.ent)
  BY <1>3, SameNames DEF Held
<1> QED BY <1>1, <1>2, <1>3, <1>4 DEF Disk, Held

LEMMA MovedManifests ==
  ASSUME Directories, Manifests, Moved, UNCHANGED <<mode, am, fd>>, Going, Going', Engaged' <=> Engaged
  PROVE  Manifests' /\ FirstStart'
<1>1. SameFiles(Dir.m, am) /\ Good(am) /\ Counted(am) /\ am.incr # <<>> /\ SameFiles(Dir'.m, am)
  BY DEF Manifests, Moved, Going
<1>2. Names(Dir.m) = Names(am) /\ Newest(Dir.m) = Newest(am)
  BY <1>1, SameNames
<1>3. Newest(am) \in Names(am)
  <2>1. Listed(am)
    BY ManifestIs DEF Directories
  <2> QED BY <1>1, <2>1, NamesAre
<1>4. Manifests'
  BY <1>1, <1>2, <1>3 DEF Manifests, Moved, Going, Running
<1>5. FirstStart'
  BY <1>1 DEF FirstStart, SameFiles, Moved
<1> QED BY <1>4, <1>5

LEMMA MovedLog ==
  ASSUME Directories, Disk, Moved, \A f \in Names(Dir.m) : cont'[Dir.ent[f]] = cont[Dir.ent[f]]
  PROVE  L' = L
<1>1. Listed(Dir.m) /\ SameFiles(Dir.m, Dir'.m)
  BY DirIs DEF Moved, SameFiles
<1>2. \A f \in Names(Dir.m) : Whole(cont[Dir.ent[f]]) = Whole(cont'[Dir'.ent[f]])
  BY DEF Moved
<1>3. Log(Dir.m, Dir.ent, cont) = Log(Dir'.m, Dir'.ent, cont')
  BY <1>1, <1>2, LogSame
<1> QED BY <1>3 DEF L

LEMMA MovedSynced ==
  ASSUME Synced, Moved, mode' = mode, fd' = fd, Going, Going', pc # "sync",
         \A f \in Names(Dir.m) : /\ cont'[Dir.ent[f]] = cont[Dir.ent[f]]
                                 /\ synced'[Dir.ent[f]] = synced[Dir.ent[f]],
         fd # None => cont'[fd] = cont[fd] /\ synced'[fd] = synced[fd]
  PROVE  Synced' /\ Lag' = Lag
<1>1. Power' = Power
  BY DEF Power
<1>2. Lag' = Lag
  BY <1>1 DEF Lag
<1>3. Synced'
  BY <1>1 DEF Synced, Intact, Moved, Going
<1> QED BY <1>2, <1>3

LEMMA PriorIs ==
  ASSUME NEW m, Listed(m), m.incr # <<>>
  PROVE  /\ Listed(Prior(m)) /\ Names(Prior(m)) = Older(m)
         /\ Prior(m).base = m.base
         /\ m.incr = Append(Prior(m).incr, m.incr[Len(m.incr)]) /\ m.incr[Len(m.incr)] \in Nat
<1>1. m.base \in Nat /\ m.incr \in Seq(Nat) /\ Len(m.incr) \in Nat \ {0}
  BY DEF Listed
<1> DEFINE k == Len(m.incr)
           s == SubSeq(m.incr, 1, k - 1)
<1>2. Prior(m).base = m.base /\ Prior(m).incr = s
  BY DEF Prior
<1>3. \A i \in 1 .. k : m.incr[i] \in Nat
  BY <1>1, ElementOfSeq
<1>4. /\ s \in Seq(Nat) /\ Len(s) = (IF 1 <= k - 1 THEN k - 1 - 1 + 1 ELSE 0)
      /\ \A i \in 1 .. k - 1 - 1 + 1 : s[i] = m.incr[1 + i - 1]
  <2>1. 1 \in Int /\ k - 1 \in Int /\ \A i \in 1 .. k - 1 : m.incr[i] \in Nat
    BY <1>1, <1>3
  <2> QED BY <2>1, SubSeqProperties
<1>5. Len(s) = k - 1 /\ \A i \in 1 .. k - 1 : s[i] = m.incr[i]
  <2>0. k \in Nat \ {0}
    BY <1>1
  <2> HIDE DEF s, k
  <2>1. Len(s) = k - 1
    BY <2>0, <1>4
  <2>2. ASSUME NEW i \in 1 .. k - 1 PROVE s[i] = m.incr[i]
    <3>1. i \in 1 .. k - 1 - 1 + 1 /\ 1 + i - 1 = i
      BY <2>0
    <3> QED BY <3>1, <1>4
  <2> QED BY <2>1, <2>2
<1>6. m.incr[k] \in Nat
  BY <1>1, <1>3
<1> HIDE DEF s
<1>7. m.incr = Append(s, m.incr[k])
  <2>1. Append(s, m.incr[k]) \in Seq(Nat) /\ Len(Append(s, m.incr[k])) = k
     /\ Append(s, m.incr[k])[k] = m.incr[k] /\ \A i \in 1 .. k - 1 : Append(s, m.incr[k])[i] = s[i]
    <3>1. Len(s) + 1 = k
      BY <1>1, <1>5
    <3> QED BY <1>4, <1>5, <1>6, <3>1, AppendProperties
  <2>2. \A i \in 1 .. k : Append(s, m.incr[k])[i] = m.incr[i]
    <3> TAKE i \in 1 .. k
    <3>1. i = k \/ i \in 1 .. k - 1
      BY <1>1
    <3> QED BY <3>1, <2>1, <1>5
  <2> HIDE DEF k
  <2> QED BY <1>1, <2>1, <2>2, SeqEqual DEF k
<1>8. Listed(Prior(m))
  BY <1>1, <1>2, <1>4 DEF Listed
<1>9. Names(Prior(m)) = Older(m)
  BY <1>2, <1>5 DEF Names, Older
<1> QED BY <1>2, <1>6, <1>7, <1>8, <1>9

LEMMA LogLast ==
  ASSUME NEW m, Listed(m), m.incr # <<>>, NEW e, NEW c,
         \A f \in Names(m) : Whole(c[e[f]]) \in Words
  PROVE  /\ Log(m, e, c) = Log(Prior(m), e, c) \o Whole(c[e[Newest(m)]])
         /\ Log(Prior(m), e, c) \in Words
<1> DEFINE q == Prior(m)
           k == m.incr[Len(m.incr)]
<1>1. Listed(q) /\ Names(q) = Older(m) /\ q.base = m.base /\ m.incr = Append(q.incr, k) /\ k \in Nat
  BY PriorIs
<1>2. Older(m) \subseteq Names(m) /\ Newest(m) \in Names(m) /\ Newest(m) = Incr(k)
  BY NamesAre DEF Newest
<1> HIDE DEF q, k
<1>3. (\A f \in Names(q) : Whole(c[e[f]]) \in Seq(1 .. MaxWrites)) /\ Whole(c[e[Incr(k)]]) \in Seq(1 .. MaxWrites)
  BY <1>1, <1>2 DEF Words
<1>4. Log(m, e, c) = Log(q, e, c) \o Whole(c[e[Incr(k)]])
  BY <1>1, <1>3, LogNew
<1>5. Log(q, e, c) \in Words
  BY <1>1, <1>3, LogType DEF Words
<1> QED BY <1>2, <1>4, <1>5 DEF q

LEMMA ConcatWords ==
  ASSUME NEW r \in Words, NEW s \in Words, NEW t \in Words
  PROVE  r \o (s \o t) = (r \o s) \o t
BY ConcatAssociative DEF Words

(* The sequence t is s followed by w.                                      *)
Grown(s, w, t) == t = s \o w

LEMMA LogWrite ==
  ASSUME NEW m, Listed(m), m.incr # <<>>, NEW e, NEW c, NEW d, NEW w \in Words,
         \A f \in Names(m) : c[e[f]] \in Words,
         Grown(c[e[Newest(m)]], w, d[e[Newest(m)]]),
         \A f \in Older(m) : d[e[f]] = c[e[f]]
  PROVE  Grown(Log(m, e, c), w, Log(m, e, d))
<1> DEFINE z == c[e[Newest(m)]]
<1>0. z \in Words /\ d[e[Newest(m)]] = z \o w
  BY NamesAre DEF Grown
<1> HIDE DEF z
<1>1. \A f \in Names(m) : Whole(c[e[f]]) \in Words
  BY WordIs
<1>2. Names(m) = Older(m) \cup {Newest(m)} /\ Older(m) \subseteq Names(m)
  BY NamesAre
<1>3. z \o w \in Words
  BY <1>0, ConcatWord
<1>4. \A f \in Names(m) : d[e[f]] \in Words /\ Whole(d[e[f]]) \in Words
  <2>1. \A f \in Names(m) : d[e[f]] \in Words
    BY <1>0, <1>2, <1>3
  <2> QED BY <2>1, WordIs
<1> DEFINE P == Log(Prior(m), e, c)
<1>5. Log(m, e, c) = P \o z /\ P \in Words
  <2>1. Whole(z) = z
    BY <1>0, WordIs
  <2> QED BY <1>1, <2>1, LogLast DEF z
<1>6. Log(m, e, d) = Log(Prior(m), e, d) \o (z \o w)
  <2>1. Whole(z \o w) = z \o w
    BY <1>3, WordIs
  <2>2. Log(m, e, d) = Log(Prior(m), e, d) \o Whole(d[e[Newest(m)]])
    BY <1>4, LogLast
  <2> QED BY <1>0, <2>1, <2>2
<1>7. Log(Prior(m), e, d) = P
  <2>1. Listed(Prior(m)) /\ Names(Prior(m)) = Older(m) /\ SameFiles(Prior(m), Prior(m))
    BY PriorIs DEF SameFiles
  <2>2. \A f \in Names(Prior(m)) : Whole(c[e[f]]) = Whole(d[e[f]])
    BY <2>1
  <2> QED BY <2>1, <2>2, LogSame
<1> HIDE DEF P
<1>8. P \o (z \o w) = (P \o z) \o w
  BY <1>0, <1>5, ConcatWords
<1> QED BY <1>5, <1>6, <1>7, <1>8 DEF Grown

LEMMA GoingIs ==
  ASSUME Directories, Disk, Manifests, Going
  PROVE  /\ SameFiles(Dir.m, am) /\ Listed(am) /\ Dir.m.incr # <<>> /\ am.incr # <<>>
         /\ Names(Dir.m) = Names(am) /\ Newest(Dir.m) = Newest(am)
         /\ Newest(Dir.m) \in Names(Dir.m)
         /\ Engaged => fd = Dir.ent[Newest(Dir.m)] /\ fd \in Inodes /\ fd # None
         /\ ~Engaged => \A f \in Names(Dir.m) : Dir.ent[f] # fd
         /\ \A f \in Older(Dir.m) : f \in Names(Dir.m) /\ Dir.ent[f] # fd
<1>1. SameFiles(Dir.m, am) /\ am.incr # <<>> /\ Dir.m.incr # <<>>
  BY DEF Manifests, Going, SameFiles
<1>2. Listed(am) /\ Listed(Dir.m)
  BY ManifestIs, DirIs DEF Directories
<1>3. Names(Dir.m) = Names(am) /\ Newest(Dir.m) = Newest(am)
  BY <1>1, SameNames
<1>4. Newest(Dir.m) \in Names(Dir.m) /\ Older(Dir.m) \subseteq Names(Dir.m)
  BY <1>1, <1>2, NamesAre
<1>5. Engaged => fd = Dir.ent[Newest(Dir.m)] /\ fd \in Inodes /\ fd # None
  <2>1. Dir.ent[Newest(Dir.m)] \in Inodes
    BY <1>4, HeldInodes
  <2> QED BY <1>3, <2>1, NoneAssumption DEF Manifests, Going
<1>6. ~Engaged => \A f \in Names(Dir.m) : Dir.ent[f] # fd
  BY <1>3 DEF Manifests, Going
<1>7. \A f \in Older(Dir.m) : f \in Names(Dir.m) /\ Dir.ent[f] # fd
  BY <1>4, <1>5, <1>6 DEF Disk, Held
<1> QED BY <1>1, <1>2, <1>3, <1>4, <1>5, <1>6, <1>7

(* The write moves the buffer to the end of the file being written, and so *)
(* from the buffer to the end of L.                                        *)
LEMMA FlushWriteCore ==
  ASSUME Sturdy, Flow, Counts, Memory, Directories, Files, Control, Disk, Manifests,
         FirstStart, Prepared, Synced, Contents, Bounds,
         Flow', Counts', Memory', Directories', Files', Control', FlushWrite
  PROVE  Core'
<1>1. /\ pc = "flush" /\ pc' = "sync" /\ buf # <<>> /\ buf' = <<>> /\ cont' = [cont EXCEPT ![fd] = @ \o buf]
      /\ UNCHANGED <<mode, data, st, fd, am, tm, dirs, synced, bio, child, ret, pending, fsynced>>
      /\ safe' = IF st = "on" /\ mode.policy # "always" THEN Len(data) ELSE safe
  BY DEF FlushWrite, offs
<1>2. Going /\ Going' /\ (Engaged' <=> Engaged)
  BY <1>1 DEF Going, Running, Engaged
<1>3. Moved /\ Dir' = Dir /\ Disk'
  BY <1>1, Unmoved DEF Moved
<1>4. Manifests' /\ FirstStart'
  BY <1>1, <1>2, <1>3, MovedManifests
<1>5. fd \in Inodes /\ (st = "on" \/ (st = "wait" /\ child # None))
  <2>1. st # "off" /\ (st = "wait" => child # None)
    BY <1>1 DEF Control, Running
  <2>2. st = "on" => Engaged
    BY DEF Engaged
  <2> QED BY <2>1, <2>2, <1>2, GoingIs DEF Control, Memory, Flow
<1>6. cont[fd] \in Words /\ buf \in Words /\ data \in Words /\ L \in Words
  BY <1>1, <1>5, HeldInodes DEF Files, Memory
<1>7. cont'[fd] = cont[fd] \o buf /\ \A i \in Inodes : i # fd => cont'[i] = cont[i]
  BY <1>1, <1>5 DEF Files
<1>8. \A f \in Names(Dir.m) : f \in DOMAIN Dir.ent /\ Dir.ent[f] \in Inodes
  BY HeldInodes
<1>9. Prepared'
  BY <1>1, <1>3 DEF Prepared
<1>10. Synced'
  BY <1>1, <1>3, <1>7, <1>8 DEF Synced, Intact, Power
<1>11. Engaged => L' = L \o buf
  <2> SUFFICES ASSUME Engaged PROVE L' = L \o buf
    OBVIOUS
  <2>1. fd = Dir.ent[Newest(Dir.m)] /\ Dir.m.incr # <<>> /\ Listed(Dir.m) /\ \A f \in Older(Dir.m) : f \in Names(Dir.m) /\ Dir.ent[f] # fd
    BY <1>2, GoingIs, HeldInodes
  <2>2. \A f \in Older(Dir.m) : cont'[Dir.ent[f]] = cont[Dir.ent[f]]
    BY <2>1, <1>7, <1>8
  <2>3. \A f \in Names(Dir.m) : cont[Dir.ent[f]] \in Words
    BY <1>1, <1>8 DEF Files
  <2>4. Log(Dir.m, Dir.ent, cont') = Log(Dir.m, Dir.ent, cont) \o buf
    <3>1. Grown(cont[Dir.ent[Newest(Dir.m)]], buf, cont'[Dir.ent[Newest(Dir.m)]])
      BY <2>1, <1>7 DEF Grown
    <3>2. Grown(Log(Dir.m, Dir.ent, cont), buf, Log(Dir.m, Dir.ent, cont'))
      BY <2>1, <2>2, <2>3, <3>1, <1>6, LogWrite
    <3> QED BY <3>2 DEF Grown
  <2> QED BY <2>4, <1>3 DEF L
<1>12. ~Engaged => L' = L
  <2> SUFFICES ASSUME ~Engaged PROVE L' = L
    OBVIOUS
  <2>1. \A f \in Names(Dir.m) : cont'[Dir.ent[f]] = cont[Dir.ent[f]]
    BY <1>2, <1>7, <1>8, GoingIs
  <2> QED BY <2>1, <1>3, MovedLog
<1>13. Contents'
  <2>1. Engaged => L' \o buf' = data'
    <3>1. Engaged => L \o buf = data
      BY <1>2 DEF Contents, Going
    <3>2. data \o <<>> = data
      BY <1>6, ConcatWord
    <3> QED BY <1>1, <1>11, <3>1, <3>2
  <2>2. ~Engaged => IsPrefix(L', data')
    BY <1>1, <1>2, <1>12 DEF Contents, Going
  <2>3. child' # None => (child'.snap \o cont'[fd']) \o buf' = data'
    <3> SUFFICES ASSUME child # None PROVE (child.snap \o cont'[fd]) \o <<>> = data
      BY <1>1
    <3>1. (child.snap \o cont[fd]) \o buf = data
      BY <1>1 DEF Contents
    <3>2. child.snap \in Words
      BY DEF Memory, ChildType, Words
    <3>3. child.snap \o (cont[fd] \o buf) = (child.snap \o cont[fd]) \o buf
      BY <3>2, <1>6, ConcatWords
    <3>4. data \o <<>> = data
      BY <1>6, ConcatWord
    <3> QED BY <1>7, <3>1, <3>3, <3>4
  <2> QED BY <1>1, <1>2, <2>1, <2>2, <2>3 DEF Contents, Running, Going
<1>14. Bounds'
  <2>1. Len(data) \in Nat /\ Len(buf) \in Nat /\ Lag \in Nat /\ \A i \in DOMAIN bio : bio[i].off \in Nat
    BY BoundsNat
  <2>2. Len(buf') = 0 /\ Len(data') = Len(data)
    BY <1>1
  <2>3. Lag' <= Lag + Len(buf) /\ Lag' \in Nat
    <3>1. Len(cont'[fd]) = Len(cont[fd]) + Len(buf) /\ Len(cont[fd]) \in Nat /\ synced[fd] \in Nat
      BY <1>5, <1>6, <1>7, ConcatWord DEF Files
    <3>2. Lag' \in Nat
      <4>1. synced[fd] <= Len(cont[fd])
        BY <1>5 DEF Files
      <4> QED BY <1>1, <2>1, <3>1, <4>1 DEF Lag
    <3> QED BY <1>1, <2>1, <3>1, <3>2 DEF Lag, Power
  <2>4. st = "on" /\ mode.policy # "always" => Lag' = 0
    BY <1>1, SturdyMode DEF Lag, Power
  <2>5. \A x \in Int : x + Lag + Len(buf) <= Len(data) => x + Lag' + Len(buf') <= Len(data')
    BY <2>1, <2>2, <2>3
  <2>6. /\ pending' + Lag' + Len(buf') <= Len(data') /\ fsynced' + Lag' + Len(buf') <= Len(data')
        /\ \A i \in DOMAIN bio' : bio'[i].off + Lag' + Len(buf') <= Len(data')
    BY <1>1, <2>1, <2>5 DEF Bounds, Counts
  <2>7. safe' \in Nat /\ safe' + Lag' + Len(buf') <= Len(data')
    <3>1. safe + Lag' + Len(buf') <= Len(data')
      BY <1>1, <2>5 DEF Bounds, Counts
    <3> QED BY <1>1, <2>1, <2>2, <2>4, <3>1 DEF Bounds
  <2>8. ~Engaged' => safe' = 0
    BY <1>1, <1>2 DEF Bounds, Engaged, Going
  <2> QED BY <1>1, <2>6, <2>7, <2>8 DEF Bounds
<1> QED BY <1>3, <1>4, <1>9, <1>10, <1>13, <1>14 DEF Core

(* A sync makes Lag smaller and changes nothing that is loaded.            *)
LEMMA SyncedStep ==
  ASSUME Memory, Directories, Files, Disk, Manifests, FirstStart, Synced,
         Going, Going', Engaged' <=> Engaged, UNCHANGED <<mode, am, dirs, cont, fd>>,
         \A i \in Inodes : synced'[i] = synced[i] \/ synced'[i] = Len(cont[i]),
         Power /\ fd # None /\ pc' # "sync" => Intact(fd) \/ synced'[fd] = Len(cont[fd])
  PROVE  /\ Disk' /\ Manifests' /\ FirstStart' /\ Synced'
         /\ Dir' = Dir /\ L' = L /\ Power' = Power
<1>1. Dir' = Dir /\ Moved /\ Disk'
  BY Unmoved DEF Moved
<1>2. Manifests' /\ FirstStart'
  BY <1>1, MovedManifests
<1>3. L' = L /\ Power' = Power
  BY <1>1 DEF L, Power
<1>4. \A i \in Inodes : Intact(i) => Intact(i)'
  BY DEF Intact
<1>5. \A f \in Names(Dir.m) : Dir.ent[f] \in Inodes
  BY HeldInodes
<1>6. Power /\ fd # None /\ pc' # "sync" => Intact(fd)'
  BY <1>4 DEF Memory, Intact
<1>7. Synced'
  BY <1>1, <1>3, <1>4, <1>5, <1>6 DEF Synced, Going
<1> QED BY <1>1, <1>2, <1>3, <1>7

LEMMA FsyncAlwaysCore ==
  ASSUME Sturdy, Flow, Counts, Memory, Directories, Files, Control, Disk, Manifests,
         FirstStart, Prepared, Synced, Contents, Bounds,
         Flow', Counts', Memory', Directories', Files', Control', FsyncAlways
  PROVE  Core'
<1>1. /\ pc = "sync" /\ pc' = ret /\ buf = <<>> /\ synced' = [synced EXCEPT ![fd] = Len(cont[fd])]
      /\ UNCHANGED <<mode, data, buf, st, fd, am, tm, dirs, cont, bio, child, ret, fsynced, safe>>
      /\ pending' = Len(data)
  BY DEF FsyncAlways, Control
<1>2. Going /\ Going' /\ (Engaged' <=> Engaged) /\ pc' \in {"reply", "open", "start", "stop", "exit"}
  BY <1>1 DEF Going, Running, Engaged, Flow
<1>3. (\A i \in Inodes : synced'[i] = synced[i] \/ synced'[i] = Len(cont[i])) /\ (fd # None => synced'[fd] = Len(cont[fd]))
  BY <1>1 DEF Files, Memory
<1>4. /\ Disk' /\ Manifests' /\ FirstStart' /\ Synced'
      /\ Dir' = Dir /\ L' = L /\ Power' = Power
  BY <1>1, <1>2, <1>3, SyncedStep
<1>5. Prepared'
  BY <1>1, <1>2, <1>4 DEF Prepared
<1>6. Contents'
  BY <1>1, <1>2, <1>4 DEF Contents, Going, Running, Engaged
<1>7. Bounds'
  <2>1. Lag' = 0
    BY <1>4, <1>2, QuietLag, <1>1, <1>3 DEF Lag, Memory, Files
  <2>2. Len(data) \in Nat /\ Len(buf) = 0 /\ Lag \in Nat /\ \A i \in DOMAIN bio : bio[i].off \in Nat
    BY <1>1, BoundsNat
  <2>3. \A x \in Int : x + Lag + Len(buf) <= Len(data) => x + Lag' + Len(buf') <= Len(data')
    BY <1>1, <2>1, <2>2
  <2>4. /\ fsynced' + Lag' + Len(buf') <= Len(data') /\ safe' + Lag' + Len(buf') <= Len(data')
        /\ \A i \in DOMAIN bio' : bio'[i].off + Lag' + Len(buf') <= Len(data')
    BY <1>1, <2>2, <2>3 DEF Bounds, Counts
  <2>5. pending' + Lag' + Len(buf') <= Len(data')
    BY <1>1, <2>1, <2>2
  <2> QED BY <1>1, <1>2, <2>4, <2>5 DEF Bounds, Going, Running
<1> QED BY <1>4, <1>5, <1>6, <1>7 DEF Core

LEMMA BioProcessBackgroundJobCore ==
  ASSUME Sturdy, Flow, Counts, Memory, Directories, Files, Control, Disk, Manifests,
         FirstStart, Prepared, Synced, Contents, Bounds,
         Flow', Counts', Memory', Directories', Files', Control', BioProcessBackgroundJob
  PROVE  Core'
<1>1. /\ bio # <<>> /\ pc \notin {"down", "refused"} /\ bio' = Tail(bio)
      /\ UNCHANGED <<mode, data, buf, st, fd, am, tm, dirs, cont, child, pc, ret, fsynced, safe>>
      /\ \/ synced' = [synced EXCEPT ![Head(bio).ino] = Len(cont[Head(bio).ino])] /\ pending' = Head(bio).off
         \/ synced' = synced /\ pending' = pending
  BY DEF BioProcessBackgroundJob
<1>2. Going /\ Going' /\ (Engaged' <=> Engaged)
  BY <1>1 DEF Going, Running, Engaged, Control
<1>3. \A i \in Inodes : synced'[i] = synced[i] \/ synced'[i] = Len(cont[i])
  BY <1>1 DEF Files
<1>4. /\ Disk' /\ Manifests' /\ FirstStart' /\ Synced'
      /\ Dir' = Dir /\ L' = L /\ Power' = Power
  <2>1. Power /\ fd # None /\ pc' # "sync" => Intact(fd)
    BY <1>1 DEF Synced
  <2> QED BY <1>1, <1>2, <1>3, <2>1, SyncedStep
<1>5. Prepared'
  <2>1. pc \in {"rename2", "persist"} => synced'[Dir.ent[Base(tm.base)]] = Len(child.snap)
    <3>1. ASSUME pc \in {"rename2", "persist"} PROVE synced'[Dir.ent[Base(tm.base)]] = Len(child.snap)
      <4>1. Dir.ent[Base(tm.base)] \in Inodes
        BY <3>1, DirIs DEF Prepared
      <4> QED BY <3>1, <4>1, <1>3 DEF Prepared
    <3> QED BY <3>1
  <2> QED BY <1>1, <1>4, <2>1 DEF Prepared
<1>6. Contents'
  BY <1>1, <1>2, <1>4 DEF Contents, Going, Running, Engaged
<1>7. Bounds'
  <2>1. Lag' <= Lag /\ Lag' \in Nat /\ Lag \in Nat
    <3>1. Lag \in Nat /\ Lag' \in Nat
      <4>1. CASE fd = None
        BY <4>1, <1>1 DEF Lag
      <4>2. CASE fd \in Inodes
        <5>1. cont[fd] \in Seq(0 .. MaxWrites) /\ synced[fd] \in Nat /\ synced[fd] <= Len(cont[fd])
              /\ synced'[fd] \in Nat /\ synced'[fd] <= Len(cont[fd])
          BY <4>2, <1>1 DEF Files
        <5> QED BY <5>1, <1>1 DEF Lag
      <4> QED BY <4>1, <4>2 DEF Memory
    <3>2. Lag' <= Lag
      <4>1. CASE fd = None
        BY <4>1, <1>1 DEF Lag
      <4>2. CASE fd \in Inodes
        <5>1. cont[fd] \in Seq(0 .. MaxWrites) /\ synced[fd] \in Nat /\ synced[fd] <= Len(cont[fd])
          BY <4>2, <1>1 DEF Files
        <5> QED BY <5>1, <1>1, <1>3, <1>4, <4>2 DEF Lag
      <4> QED BY <4>1, <4>2 DEF Memory
    <3> QED BY <3>1, <3>2
  <2>2. Len(data) \in Nat /\ Len(buf) \in Nat /\ \A i \in DOMAIN bio : bio[i].off \in Nat
    BY BoundsNat
  <2>3. \A x \in Int : x + Lag + Len(buf) <= Len(data) => x + Lag' + Len(buf') <= Len(data')
    BY <1>1, <2>1, <2>2
  <2>4. bio \in Seq(Job) /\ Len(bio) \in Nat \ {0} /\ DOMAIN bio = 1 .. Len(bio) /\ Head(bio) = bio[1]
        /\ DOMAIN bio' = 1 .. Len(bio) - 1 /\ \A i \in 1 .. Len(bio) - 1 : bio'[i] = bio[i + 1]
    BY <1>1 DEF Memory
  <2>5. \A i \in DOMAIN bio' : bio'[i].off + Lag' + Len(buf') <= Len(data')
    <3> TAKE i \in DOMAIN bio'
    <3>1. i + 1 \in DOMAIN bio /\ bio'[i] = bio[i + 1]
      BY <2>4
    <3> QED BY <3>1, <2>2, <2>3, <1>1 DEF Bounds
  <2>6. pending' + Lag' + Len(buf') <= Len(data')
    <3>1. 1 \in DOMAIN bio /\ (pending' = bio[1].off \/ pending' = pending)
      BY <1>1, <2>4
    <3> QED BY <3>1, <2>2, <2>3, <1>1 DEF Bounds, Counts
  <2>7. fsynced' + Lag' + Len(buf') <= Len(data') /\ safe' + Lag' + Len(buf') <= Len(data')
    BY <1>1, <2>2, <2>3 DEF Bounds, Counts
  <2> QED BY <1>1, <1>2, <2>5, <2>6, <2>7 DEF Bounds, Going, Running
<1> QED BY <1>4, <1>5, <1>6, <1>7 DEF Core

LEMMA ChildExitsCore ==
  ASSUME Sturdy, Flow, Counts, Memory, Directories, Files, Control, Disk, Manifests,
         FirstStart, Prepared, Synced, Contents, Bounds,
         Flow', Counts', Memory', Directories', Files', Control', ChildExits
  PROVE  Core'
<1>0. /\ child # None /\ pc \notin {"down", "refused"} /\ child' # None
      /\ UNCHANGED <<mode, data, buf, st, fd, am, tm, dirs, cont, synced, bio, pc, ret, pending, fsynced, safe>>
      /\ child'.snap = child.snap
  <2>1. child \in ChildType /\ (child' = [child EXCEPT !.st = "ok"] \/ child' = [child EXCEPT !.st = "failed"])
    BY DEF ChildExits, Memory
  <2>2. child' \in ChildType /\ child'.snap = child.snap
    BY <2>1 DEF ChildType
  <2>3. child' # None
    BY <2>2, NoneAssumption
  <2> QED BY <2>2, <2>3 DEF ChildExits, file, offs
<1>1. Quiet
  BY <1>0 DEF Quiet, Control, Running, Engaged, Flow
<1>2. /\ Disk' /\ Manifests' /\ FirstStart' /\ Dir' = Dir /\ L' = L /\ Lag' = Lag
      /\ Power' = Power /\ (pc # "sync" \/ ~Power \/ pc' = "sync" => Synced')
  BY <1>1, QuietDisk
<1>3. Prepared'
  BY <1>0, <1>1, <1>2 DEF Quiet, Prepared, Control
<1>4. Synced'
  BY <1>0, <1>2
<1>5. Contents'
  BY <1>0, <1>1, <1>2 DEF Quiet, Contents, Running, Engaged
<1>6. Bounds'
  <2>1. Len(data') - Len(buf') >= Len(data) - Len(buf) /\ Len(data') \in Nat /\ Len(buf') \in Nat
    BY <1>0, BoundsNat
  <2> QED BY <1>0, <1>1, <1>2, <2>1, QuietBounds
<1> QED BY <1>2, <1>3, <1>4, <1>5, <1>6 DEF Core

(* A step that changes the directory and neither the manifest nor its      *)
(* files: creating, renaming and unlinking files the manifest does not     *)
(* name.                                                                   *)
LEMMA MovedCore ==
  ASSUME Counts, Memory, Directories, Files, Disk, Manifests, Synced, Contents, Bounds,
         Moved, Going, Going', Engaged' <=> Engaged, pc # "sync",
         UNCHANGED <<mode, am, fd, data, bio, pending, fsynced, safe>>,
         buf' = buf \/ (~Engaged /\ buf' = <<>>),
         \A f \in Names(Dir.m) : /\ cont'[Dir.ent[f]] = cont[Dir.ent[f]]
                                 /\ synced'[Dir.ent[f]] = synced[Dir.ent[f]],
         fd # None => cont'[fd] = cont[fd] /\ synced'[fd] = synced[fd]
  PROVE  /\ Disk' /\ Manifests' /\ FirstStart' /\ Synced' /\ Bounds'
         /\ Engaged' => L' \o buf' = data'
         /\ ~Engaged' => IsPrefix(L', data')
<1>1. Disk' /\ Manifests' /\ FirstStart'
  BY MovedManifests DEF Moved
<1>2. L' = L
  BY MovedLog
<1>3. Synced' /\ Lag' = Lag
  BY MovedSynced
<1>4. Engaged' => L' \o buf' = data'
  BY <1>2 DEF Contents, Going
<1>5. ~Engaged' => IsPrefix(L', data')
  BY <1>2 DEF Contents, Going
<1>6. Bounds'
  <2>1. Len(data) \in Nat /\ Len(buf) \in Nat /\ Lag \in Nat /\ (\A i \in DOMAIN bio : bio[i].off \in Nat)
        /\ Len(buf') \in Nat /\ Len(buf') <= Len(buf)
    BY BoundsNat
  <2>2. \A x \in Int : x + Lag + Len(buf) <= Len(data) => x + Lag' + Len(buf') <= Len(data')
    BY <1>3, <2>1
  <2>3. pc # "down" /\ pc' # "down"
    BY DEF Going, Running
  <2>4. /\ pending' + Lag' + Len(buf') <= Len(data') /\ fsynced' + Lag' + Len(buf') <= Len(data')
        /\ safe' + Lag' + Len(buf') <= Len(data')
    BY <2>2, <2>3 DEF Bounds, Counts
  <2>5. \A i \in DOMAIN bio' : bio'[i].off + Lag' + Len(buf') <= Len(data')
    BY <2>1, <2>2, <2>3 DEF Bounds
  <2> QED BY <2>3, <2>4, <2>5 DEF Bounds, Going
<1> QED BY <1>1, <1>3, <1>4, <1>5, <1>6

LEMMA CleanupCore ==
  ASSUME Flow, Counts, Memory, Directories, Files, Control, Disk, Manifests,
         FirstStart, Prepared, Synced, Contents, Bounds,
         NEW S, Cleanup(S), S \cap Names(am) = {},
         pc \in {"loop", "rename", "rename2", "persist"}, child # None,
         UNCHANGED <<mode, data, st, fd, am, cont, synced, bio, ret, pending, fsynced, safe>>
  PROVE  Core'
<1>1. pc' = "loop" /\ child' = None /\ (IF st = "wait" THEN buf' = <<>> ELSE buf' = buf)
  BY DEF Cleanup
<1>2. Going /\ Going' /\ (Engaged' <=> Engaged) /\ (st = "wait" => ~Engaged)
  BY <1>1 DEF Going, Running, Engaged
<1>3. Moved
  <2>1. Names(Dir.m) = Names(am) /\ Listed(am)
    BY <1>2, GoingIs
  <2>2. CASE dirs' = dirs
    BY <2>2, Unmoved
  <2>3. CASE \E T \in SUBSET (S \cup {Temp}) : Change(Unlink(Dir.ent, T))
    <3>1. PICK T \in SUBSET (S \cup {Temp}) : Change(Unlink(Dir.ent, T))
      BY <2>3
    <3>2. Temp \notin Names(am)
      BY DEF Names, Temp, Base, Incr
    <3>3. Names(Dir.m) \cap T = {}
      BY <2>1, <3>1, <3>2
    <3>4. Unlink(Dir.ent, T) \in Ent /\ DOMAIN Unlink(Dir.ent, T) = DOMAIN Dir.ent \ T
          /\ \A x \in DOMAIN Dir.ent \ T : Unlink(Dir.ent, T)[x] = Dir.ent[x]
      BY DirIs, UnlinkIs
    <3>5. \A f \in Names(Dir.m) : f \in DOMAIN Unlink(Dir.ent, T) /\ Unlink(Dir.ent, T)[f] = Dir.ent[f]
      BY <3>3, <3>4, HeldInodes
    <3> QED BY <3>1, <3>4, <3>5, DiskChange
  <2> QED BY <2>2, <2>3, CleanupIs
<1>4. /\ Disk' /\ Manifests' /\ FirstStart' /\ Synced' /\ Bounds'
      /\ Engaged' => L' \o buf' = data'
      /\ ~Engaged' => IsPrefix(L', data')
  <2>1. pc # "sync" /\ (buf' = buf \/ (~Engaged /\ buf' = <<>>))
    BY <1>1, <1>2
  <2> QED BY <1>2, <1>3, <2>1, MovedCore
<1>5. Prepared'
  BY <1>1 DEF Prepared
<1>6. Contents'
  BY <1>1, <1>2, <1>4 DEF Contents, Going, Running
<1> QED BY <1>4, <1>5, <1>6 DEF Core

LEMMA ReapChildCore ==
  ASSUME Sturdy, Flow, Counts, Memory, Directories, Files, Control, Disk, Manifests,
         FirstStart, Prepared, Synced, Contents, Bounds,
         Flow', Counts', Memory', Directories', Files', Control', ReapChild
  PROVE  Core'
<1>0. /\ pc = "loop" /\ child # None
      /\ UNCHANGED <<mode, data, st, fd, am, cont, synced, bio, ret, pending, fsynced, safe>>
      /\ IF child.st = "ok" THEN pc' = "rename" /\ UNCHANGED <<buf, tm, dirs, child, sched>> ELSE Cleanup({})
  BY DEF ReapChild, offs
<1>1. CASE child.st = "ok"
  <2>1. Going /\ Going' /\ (Engaged' <=> Engaged)
    BY <1>0, <1>1 DEF Going, Running, Engaged
  <2>2. Moved /\ Dir' = Dir
    BY <1>0, <1>1, Unmoved
  <2>3. /\ Disk' /\ Manifests' /\ FirstStart' /\ Synced' /\ Bounds'
        /\ Engaged' => L' \o buf' = data'
        /\ ~Engaged' => IsPrefix(L', data')
    BY <1>0, <1>1, <2>1, <2>2, MovedCore
  <2>4. Prepared'
    BY <1>0, <1>1, <2>2 DEF Prepared
  <2>5. Contents'
    BY <1>0, <1>1, <2>1, <2>3 DEF Contents, Going, Running
  <2> QED BY <2>3, <2>4, <2>5 DEF Core
<1>2. CASE child.st # "ok"
  BY <1>0, <1>2, CleanupCore
<1> QED BY <1>1, <1>2

LEMMA RenameBaseCore ==
  ASSUME Sturdy, Flow, Counts, Memory, Directories, Files, Control, Disk, Manifests,
         FirstStart, Prepared, Synced, Contents, Bounds,
         Flow', Counts', Memory', Directories', Files', Control', RenameBase
  PROVE  Core'
<1>0. /\ pc = "rename" /\ child # None
      /\ UNCHANGED <<mode, data, st, fd, am, bio, ret, pending, fsynced, safe>>
  BY DEF RenameBase, offs, Control
<1>1. CASE Fault("rename") /\ Cleanup({}) /\ UNCHANGED <<cont, synced>>
  BY <1>0, <1>1, CleanupCore
<1>2. CASE /\ Free # {}
           /\ tm' = GetNewBaseFileNameAndMarkPreAsHistory(am)
           /\ Change(Link(Dir.ent, Base(tm'.base), NewInode))
           /\ Create(NewInode, child.snap, Len(child.snap))
           /\ pc' = IF st = "wait" THEN "rename2" ELSE "persist"
           /\ UNCHANGED <<buf, child, sched>>
  <2>1. Going /\ Going' /\ (Engaged' <=> Engaged) /\ pc' \in {"rename2", "persist"}
    BY <1>0, <1>2 DEF Going, Running, Engaged
  <2> DEFINE b == Base(tm'.base)
             e == Link(Dir.ent, b, NewInode)
  <2>2. b \notin Names(am) /\ b \in Name
    BY <1>2, NewBaseIs DEF Directories, Manifests
  <2>3. /\ NewInode \in Inodes /\ NewInode # fd
        /\ \A k \in DOMAIN dirs : \A f \in DOMAIN dirs[k].ent : dirs[k].ent[f] # NewInode
    BY <1>2, NewInodeFree, FreshInode
  <2>4. /\ e \in Ent /\ DOMAIN e = DOMAIN Dir.ent \cup {b} /\ e[b] = NewInode
        /\ \A x \in DOMAIN Dir.ent : x # b => e[x] = Dir.ent[x]
    <3>1. Dir.ent \in Ent
      BY DirIs
    <3> HIDE DEF b
    <3> QED BY SMTT(30), <2>2, <2>3, <3>1, LinkIs
  <2>5. Names(Dir.m) = Names(am) /\ \A f \in Names(Dir.m) : f \in DOMAIN Dir.ent /\ Dir.ent[f] \in Inodes /\ Dir.ent[f] # NewInode
    BY <2>1, <2>3, GoingIs, HeldInodes, DirIs
  <2> HIDE DEF e
  <2>6. Moved /\ Dir'.ent = e
    <3>1. Change(e)
      BY <1>2 DEF e
    <3>2. \A f \in Names(Dir.m) : f \in DOMAIN e /\ e[f] = Dir.ent[f]
      BY <2>2, <2>4, <2>5
    <3> QED BY <3>1, <3>2, <2>4, DiskChange
  <2>7. cont'[NewInode] = child.snap /\ synced'[NewInode] = Len(child.snap)
        /\ \A i \in Inodes : i # NewInode => cont'[i] = cont[i] /\ synced'[i] = synced[i]
    <3>1. cont' = [cont EXCEPT ![NewInode] = child.snap] /\ synced' = [synced EXCEPT ![NewInode] = Len(child.snap)]
      BY <1>2 DEF Create
    <3> QED BY <3>1, <2>3 DEF Files
  <2>8. (fd # None => cont'[fd] = cont[fd] /\ synced'[fd] = synced[fd]) /\ fd # None
    <3>1. fd # None /\ fd \in Inodes
      BY <1>0 DEF Memory, Control
    <3> QED BY <3>1, <2>3, <2>7
  <2>9. /\ Disk' /\ Manifests' /\ FirstStart' /\ Synced' /\ Bounds'
        /\ Engaged' => L' \o buf' = data'
        /\ ~Engaged' => IsPrefix(L', data')
    <3>1. \A f \in Names(Dir.m) : cont'[Dir.ent[f]] = cont[Dir.ent[f]] /\ synced'[Dir.ent[f]] = synced[Dir.ent[f]]
      BY <2>5, <2>7
    <3> QED BY <1>0, <1>2, <2>1, <2>6, <2>8, <3>1, MovedCore
  <2>10. Prepared'
    <3>1. st = "wait" => Temp \in DOMAIN Dir'.ent /\ Dir'.ent[Temp] = fd
      <4>1. st = "wait" => Temp \in DOMAIN Dir.ent /\ Dir.ent[Temp] = fd
        BY <1>0 DEF Prepared
      <4>2. Temp # b
        BY DEF Temp, Base
      <4> QED BY <4>1, <4>2, <2>4, <2>6
    <3>2. /\ Base(tm'.base) \in DOMAIN Dir'.ent /\ Dir'.ent[Base(tm'.base)] # fd'
          /\ cont'[Dir'.ent[Base(tm'.base)]] = child'.snap /\ synced'[Dir'.ent[Base(tm'.base)]] = Len(child'.snap)
      BY <1>0, <1>2, <2>3, <2>4, <2>6, <2>7
    <3> QED BY <1>0, <1>2, <2>1, <3>1, <3>2 DEF Prepared
  <2>11. Contents'
    <3>1. (child'.snap \o cont'[fd']) \o buf' = data'
      BY <1>0, <1>2, <2>8 DEF Contents
    <3> QED BY <2>1, <2>9, <3>1 DEF Contents, Going, Running
  <2> QED BY <2>9, <2>10, <2>11 DEF Core
<1> QED BY <1>1, <1>2 DEF RenameBase

LEMMA RenameIncrCore ==
  ASSUME Sturdy, Flow, Counts, Memory, Directories, Files, Control, Disk, Manifests,
         FirstStart, Prepared, Synced, Contents, Bounds,
         Flow', Counts', Memory', Directories', Files', Control', RenameIncr
  PROVE  Core'
<1>0. /\ pc = "rename2" /\ child # None /\ st = "wait" /\ fd # None /\ fd \in Inodes
      /\ UNCHANGED <<mode, data, st, fd, am, cont, synced, bio, ret, pending, fsynced, safe>>
  BY DEF RenameIncr, offs, Control, Memory
<1>1. Going /\ Listed(am) /\ Names(Dir.m) = Names(am)
  <2>1. Going
    BY <1>0 DEF Going, Running
  <2> QED BY <2>1, GoingIs
<1>2. /\ am \in Manifest /\ tm \in Manifest /\ tm = GetNewBaseFileNameAndMarkPreAsHistory(am)
      /\ tm.base = am.base + 1 /\ tm.iseq = am.iseq /\ Sorted(tm) /\ Counted(tm)
      /\ Base(tm.base) \notin Names(am) /\ Base(tm.base) \in Name
  <2>1. am \in Manifest /\ tm = GetNewBaseFileNameAndMarkPreAsHistory(am) /\ Good(am) /\ Counted(am)
    BY <1>0 DEF Directories, Prepared, Manifests
  <2> QED BY <2>1, NewBaseIs
<1>3. CASE Fault("rename") /\ Cleanup({Base(tm.base)})
  <2>1. {Base(tm.base)} \cap Names(am) = {}
    BY <1>2
  <2> QED BY <1>0, <1>3, <2>1, CleanupCore
<1>4. CASE /\ tm' = GetNewIncrAofName(tm)
           /\ Change(Link(Unlink(Dir.ent, {Temp}), Incr(tm'.iseq), Dir.ent[Temp]))
           /\ pc' = "persist"
           /\ UNCHANGED <<buf, child, sched>>
  <2>1. Going' /\ ~Engaged /\ ~Engaged'
    BY <1>0, <1>4 DEF Going, Running, Engaged
  <2> DEFINE i == Incr(tm'.iseq)
             u == Unlink(Dir.ent, {Temp})
             e == Link(u, i, fd)
  <2>2. tm'.base = tm.base /\ tm'.iseq = am.iseq + 1 /\ i \in Name /\ i \notin Names(am)
    <3>1. tm'.base = tm.base /\ tm'.iseq = am.iseq + 1 /\ i \in Name
      BY <1>2, <1>4, NewIncrIs
    <3> DEFINE q == GetNewIncrAofName(am)
    <3>2. q.iseq = am.iseq + 1 /\ Incr(q.iseq) \notin Names(am)
      BY <1>2, NewIncrIs DEF Manifests, Good
    <3> HIDE DEF q
    <3> QED BY <3>1, <3>2
  <2>3. Temp \in DOMAIN Dir.ent /\ Dir.ent[Temp] = fd
    BY <1>0 DEF Prepared
  <2>4. u \in Ent /\ DOMAIN u = DOMAIN Dir.ent \ {Temp} /\ \A x \in DOMAIN Dir.ent \ {Temp} : u[x] = Dir.ent[x]
    BY DirIs, UnlinkIs
  <2> HIDE DEF u, i
  <2>5. e \in Ent /\ DOMAIN e = DOMAIN u \cup {i} /\ e[i] = fd /\ \A x \in DOMAIN u : x # i => e[x] = u[x]
    BY SMTT(30), <1>0, <2>2, <2>4, LinkIs
  <2>6. Change(e)
    BY <1>4, <2>3 DEF e, u, i
  <2> HIDE DEF e
  <2>7. \A x \in DOMAIN Dir.ent : x # Temp /\ x # i => x \in DOMAIN e /\ e[x] = Dir.ent[x]
    BY <2>4, <2>5
  <2>8. Moved /\ Dir'.ent = e
    <3>1. Temp \notin Names(am)
      BY DEF Names, Temp, Base, Incr
    <3>2. \A f \in Names(Dir.m) : f \in DOMAIN e /\ e[f] = Dir.ent[f]
      BY <1>1, <2>2, <2>7, <3>1, HeldInodes
    <3> QED BY <2>5, <2>6, <3>2, DiskChange
  <2>9. /\ Disk' /\ Manifests' /\ FirstStart' /\ Synced' /\ Bounds'
        /\ Engaged' => L' \o buf' = data'
        /\ ~Engaged' => IsPrefix(L', data')
    BY <1>0, <1>1, <1>4, <2>1, <2>8, MovedCore
  <2>10. Prepared'
    <3>1. tm' = GetNewIncrAofName(GetNewBaseFileNameAndMarkPreAsHistory(am'))
      BY <1>0, <1>2, <1>4
    <3>2. Incr(tm'.iseq) \in DOMAIN Dir'.ent /\ Dir'.ent[Incr(tm'.iseq)] = fd'
      BY <1>0, <2>5, <2>8 DEF i
    <3>3. Base(tm.base) # Temp /\ Base(tm.base) # i
      BY DEF Base, Temp, Incr, i
    <3>4. /\ Base(tm.base) \in DOMAIN Dir.ent /\ Dir.ent[Base(tm.base)] # fd
          /\ cont[Dir.ent[Base(tm.base)]] = child.snap /\ synced[Dir.ent[Base(tm.base)]] = Len(child.snap)
      BY <1>0 DEF Prepared
    <3>5. /\ Base(tm'.base) \in DOMAIN Dir'.ent /\ Dir'.ent[Base(tm'.base)] # fd'
          /\ cont'[Dir'.ent[Base(tm'.base)]] = child'.snap /\ synced'[Dir'.ent[Base(tm'.base)]] = Len(child'.snap)
      BY <1>0, <1>4, <2>2, <2>7, <2>8, <3>3, <3>4
    <3> QED BY <1>0, <1>4, <3>1, <3>2, <3>5 DEF Prepared
  <2>11. Contents'
    <3>1. (child'.snap \o cont'[fd']) \o buf' = data'
      BY <1>0, <1>4 DEF Contents
    <3> QED BY <1>4, <2>1, <2>9, <3>1 DEF Contents, Going, Running
  <2> QED BY <2>9, <2>10, <2>11 DEF Core
<1> QED BY <1>3, <1>4 DEF RenameIncr

(* The new manifest replaces the base and all incremental files but the    *)
(* last by the snapshot: the writes are the same.                          *)
LEMMA PersistRewriteCore ==
  ASSUME Sturdy, Flow, Counts, Memory, Directories, Files, Control, Disk, Manifests,
         FirstStart, Prepared, Synced, Contents, Bounds,
         Flow', Counts', Memory', Directories', Files', Control', PersistRewrite
  PROVE  Core'
<1>0. /\ pc = "persist" /\ child # None
      /\ UNCHANGED <<mode, data, st, fd, cont, synced, bio, ret, pending, fsynced, safe>>
  BY DEF PersistRewrite, offs, Control
<1>1. /\ tm \in Manifest /\ tm.base = am.base + 1 /\ tm.base # 0 /\ tm.incr # <<>>
      /\ Sorted(tm) /\ Counted(tm) /\ fd # None
      /\ Base(tm.base) \notin Names(am)
      /\ st = "on" => tm.incr = am.incr /\ Newest(tm) = Newest(am)
      /\ st = "wait" => Newest(tm) = Incr(tm.iseq) /\ Incr(tm.iseq) \notin Names(am)
      /\ st \in {"on", "wait"}
  BY <1>0, PreparedRewrite
<1>2. CASE Fault("manifest") /\ Cleanup(NewFiles) /\ UNCHANGED am
  <2>1. NewFiles \cap Names(am) = {}
    BY <1>1 DEF NewFiles
  <2> QED BY <1>0, <1>2, <2>1, CleanupCore
<1>3. CASE /\ PersistAofManifest(MarkRewrittenIncrAofAsHistory(tm))
           /\ am' = MarkRewrittenIncrAofAsHistory(tm)
           /\ pc' = "hist"
           /\ UNCHANGED <<buf, child, sched>>
  <2>1. Going /\ Going' /\ Engaged' /\ fd \in Inodes
    BY <1>0, <1>1, <1>3 DEF Going, Running, Engaged, Memory
  <2>2. /\ am' \in Manifest /\ am'.base = tm.base /\ am'.incr = <<tm.incr[Len(tm.incr)]>>
        /\ Good(am') /\ Counted(am')
        /\ Newest(am') = Newest(tm) /\ Older(am') = {Base(tm.base)}
        /\ Names(am') = {Base(tm.base), Newest(tm)} /\ Newest(tm) # Base(tm.base)
    BY <1>1, <1>3, MarkIs
  <2>3. /\ Base(tm.base) \in DOMAIN Dir.ent /\ Dir.ent[Base(tm.base)] # fd
        /\ cont[Dir.ent[Base(tm.base)]] = child.snap /\ synced[Dir.ent[Base(tm.base)]] = Len(child.snap)
    BY <1>0 DEF Prepared
  <2>4. Newest(tm) \in DOMAIN Dir.ent /\ Dir.ent[Newest(tm)] = fd
    <3>1. CASE st = "on"
      <4>1. Engaged
        BY <3>1 DEF Engaged
      <4>2. fd = Dir.ent[Newest(Dir.m)] /\ Newest(Dir.m) = Newest(am) /\ Newest(Dir.m) \in Names(Dir.m)
        BY <4>1, <2>1, GoingIs
      <4> QED BY <1>1, <3>1, <4>2, HeldInodes
    <3>2. CASE st = "wait"
      BY <1>0, <1>1, <3>2 DEF Prepared
    <3> QED BY <1>1, <3>1, <3>2
  <2>5. Held(am', Dir.ent)
    BY <2>2, <2>3, <2>4 DEF Held
  <2>6. Disk' /\ Dir'.ent = Dir.ent /\ SameFiles(Dir'.m, am')
    BY <1>3, <2>2, <2>5, DiskPersist
  <2>7. Names(Dir'.m) = Names(am') /\ Newest(Dir'.m) = Newest(am') /\ am'.incr # <<>> /\ Dir'.m.incr # <<>>
    BY <2>2, <2>6, SameNames DEF SameFiles
  <2>8. Manifests'
    BY <1>0, <1>3, <2>1, <2>2, <2>4, <2>6, <2>7 DEF Manifests, Going, Running
  <2>9. FirstStart'
    BY <2>7 DEF FirstStart
  <2>10. Prepared'
    BY <1>0, <1>3 DEF Prepared
  <2>11. Lag' = Lag /\ Power' = Power
    BY <1>0 DEF Lag, Power
  <2>12. Synced'
    <3>1. \A f \in Names(Dir'.m) : Dir'.ent[f] # fd' => synced'[Dir'.ent[f]] = Len(cont'[Dir'.ent[f]])
      BY <1>0, <2>2, <2>3, <2>4, <2>6, <2>7
    <3>2. Power /\ fd # None => Intact(fd)'
      BY <1>0 DEF Synced, Intact
    <3> QED BY <1>0, <1>3, <2>11, <3>1, <3>2 DEF Synced, Intact
  <2>13. L' = child.snap \o cont[fd]
    <3> DEFINE m == am'
               q == Prior(m)
               e == Dir.ent
    <3>0. child.snap \in Words /\ cont[fd] \in Words
      BY <1>0, <2>1 DEF Memory, ChildType, Words, Files
    <3>1. Listed(m) /\ m.incr # <<>>
      BY <2>2, <2>7, ManifestIs
    <3>2. \A f \in Names(m) : Whole(cont[e[f]]) \in Words
      BY <2>2, <2>3, <2>4, <3>0, WordIs
    <3>3. q.base = tm.base /\ q.incr = <<>>
      <4>1. Len(m.incr) = 1 /\ m.incr \in Seq(Nat)
        BY <2>2, <3>1 DEF Listed
      <4>2. SubSeq(m.incr, 1, 0) = <<>>
        <5> HIDE DEF m
        <5> QED BY <4>1
      <4> QED BY <2>2, <4>1, <4>2 DEF Prior
    <3>4. Log(m, e, cont) = Log(q, e, cont) \o Whole(cont[e[Newest(m)]])
      BY <3>1, <3>2, LogLast
    <3>5. Log(q, e, cont) = Whole(cont[e[Base(q.base)]])
      <4>1. q.base \in Nat \ {0}
        BY <1>1, <3>3, ManifestIs
      <4>2. Whole(cont[e[Base(q.base)]]) \in Seq(1 .. MaxWrites)
        BY <2>2, <3>2, <3>3 DEF Words
      <4> HIDE DEF q
      <4> QED BY <4>1, <4>2, <3>3, LogOne
    <3>6. Whole(cont[e[Base(q.base)]]) = child.snap /\ Whole(cont[e[Newest(m)]]) = cont[fd]
      BY <2>2, <2>3, <2>4, <3>0, <3>3, WordIs
    <3>7. Log(Dir'.m, Dir'.ent, cont') = Log(m, e, cont)
      <4>1. Listed(Dir'.m)
        BY <2>6, <3>1 DEF SameFiles, Listed
      <4>2. \A f \in Names(Dir'.m) : Whole(cont'[Dir'.ent[f]]) = Whole(cont[e[f]])
        BY <1>0, <2>6
      <4> QED BY <2>6, <4>1, <4>2, LogSame
    <3> QED BY <3>4, <3>5, <3>6, <3>7 DEF L
  <2>14. Contents'
    <3>1. L' \o buf' = data'
      BY <1>0, <1>3, <2>13 DEF Contents
    <3> QED BY <1>3, <2>1, <3>1 DEF Contents, Going, Running
  <2>15. Bounds'
    BY <1>0, <1>3, <2>1, <2>11 DEF Bounds, Going, Running
  <2> QED BY <2>6, <2>8, <2>9, <2>10, <2>12, <2>14, <2>15 DEF Core
<1>4. ~Fault("dirsync")
  BY SturdyMode DEF Fault
<1> QED BY <1>2, <1>3, <1>4 DEF PersistRewrite

LEMMA Settled ==
  ASSUME Directories, Disk, Good(am), Held(am, Dir.ent),
         \/ dirs' = dirs /\ SameFiles(Dir.m, am)
         \/ PersistAofManifest(am)
  PROVE  Disk' /\ Dir'.ent = Dir.ent /\ SameFiles(Dir'.m, am)
<1>1. CASE dirs' = dirs /\ SameFiles(Dir.m, am)
  BY <1>1, Unmoved DEF Moved
<1>2. CASE PersistAofManifest(am)
  BY <1>2, DiskPersist DEF Directories
<1> QED BY <1>1, <1>2

LEMMA AmHeld ==
  ASSUME Directories, Disk, Manifests, Going
  PROVE  Held(am, Dir.ent)
BY GoingIs, SameNames DEF Disk, Held

(* History is older than every file of the manifest, so deleting it takes  *)
(* none of them away.                                                      *)
LEMMA DelHistoryFilesCore ==
  ASSUME Sturdy, Flow, Counts, Memory, Directories, Files, Control, Disk, Manifests,
         FirstStart, Prepared, Synced, Contents, Bounds,
         Flow', Counts', Memory', Directories', Files', Control', DelHistoryFiles
  PROVE  Core'
<1>0. /\ pc = "hist" /\ pc' = "histp"
      /\ UNCHANGED <<mode, data, buf, st, fd, tm, cont, synced, bio, child, ret, pending, fsynced, safe>>
      /\ IF am.hist = {} THEN UNCHANGED <<dirs, am>>
         ELSE Change(Unlink(Dir.ent, am.hist)) /\ am' = [am EXCEPT !.hist = {}]
  BY DEF DelHistoryFiles, offs
<1>1. Going /\ Going' /\ Engaged /\ Engaged'
  BY <1>0 DEF Going, Running, Engaged, Control, Flow
<1>2. /\ SameFiles(Dir.m, am) /\ Listed(am) /\ Dir.m.incr # <<>> /\ am.incr # <<>>
      /\ Names(Dir.m) = Names(am) /\ Newest(Dir.m) = Newest(am) /\ Newest(Dir.m) \in Names(Dir.m)
      /\ fd = Dir.ent[Newest(Dir.m)]
  BY <1>1, GoingIs
<1>3. am \in Manifest /\ Good(am) /\ Counted(am)
  BY DEF Directories, Manifests
<1>4. Moved
  <2>1. CASE am.hist = {}
    BY <1>0, <2>1, Unmoved
  <2>2. CASE am.hist # {}
    <3> DEFINE e == Unlink(Dir.ent, am.hist)
    <3>1. Names(Dir.m) \cap am.hist = {}
      BY <1>2, <1>3, HistoryApart DEF Good
    <3>2. e \in Ent /\ DOMAIN e = DOMAIN Dir.ent \ am.hist /\ \A x \in DOMAIN Dir.ent \ am.hist : e[x] = Dir.ent[x]
      BY DirIs, UnlinkIs
    <3>3. Change(e)
      BY <1>0, <2>2
    <3> HIDE DEF e
    <3>4. \A f \in Names(Dir.m) : f \in DOMAIN e /\ e[f] = Dir.ent[f]
      BY <3>1, <3>2, HeldInodes
    <3> QED BY <3>2, <3>3, <3>4, DiskChange
  <2> QED BY <2>1, <2>2
<1>5. SameFiles(am', am) /\ Good(am') /\ Counted(am')
  <2>1. CASE am.hist = {}
    BY <1>0, <1>3, <2>1 DEF SameFiles
  <2>2. CASE am.hist # {}
    <3>1. am'.base = am.base /\ am'.incr = am.incr /\ am'.iseq = am.iseq /\ am'.hist = {}
      BY <1>0, <1>3, <2>2 DEF Manifest
    <3> QED BY <1>3, <3>1 DEF SameFiles, Good, Sorted, Counted
  <2> QED BY <2>1, <2>2
<1>6. Disk' /\ SameFiles(Dir'.m, am') /\ Dir'.m.incr # <<>> /\ am'.incr # <<>> /\ Newest(am') = Newest(Dir.m)
  BY <1>2, <1>4, <1>5, SameNames DEF Moved, SameFiles
<1>7. Manifests'
  <2>1. fd' = Dir'.ent[Newest(am')]
    BY <1>0, <1>2, <1>4, <1>6 DEF Moved
  <2> QED BY <1>0, <1>1, <1>5, <1>6, <2>1 DEF Manifests, Going, Running
<1>8. FirstStart'
  BY <1>6 DEF FirstStart
<1>9. L' = L
  BY <1>0, <1>4, MovedLog
<1>10. Synced' /\ Lag' = Lag
  BY <1>0, <1>1, <1>4, MovedSynced
<1>11. Prepared'
  BY <1>0 DEF Prepared
<1>12. Contents'
  BY <1>0, <1>1, <1>9 DEF Contents, Going, Running
<1>13. Bounds'
  BY <1>0, <1>1, <1>10 DEF Bounds, Going, Running
<1> QED BY <1>6, <1>7, <1>8, <1>10, <1>11, <1>12, <1>13 DEF Core

LEMMA RewriteDoneCore ==
  ASSUME Sturdy, Flow, Counts, Memory, Directories, Files, Control, Disk, Manifests,
         FirstStart, Prepared, Synced, Contents, Bounds,
         Flow', Counts', Memory', Directories', Files', Control', RewriteDone
  PROVE  Core'
<1>0. /\ pc = "histp" /\ pc' = "loop" /\ child' = None
      /\ UNCHANGED <<mode, data, buf, fd, am, tm, cont, synced, bio, ret, pending>>
      /\ IF st = "wait" THEN st' = "on" /\ fsynced' = pending /\ safe' = Len(data) - Len(buf)
                        ELSE UNCHANGED <<st, fsynced, safe>>
      /\ dirs' = dirs \/ PersistAofManifest(am)
  BY DEF RewriteDone, offs
<1>1. Going /\ Going' /\ Engaged /\ Engaged' /\ st \in {"on", "wait"}
  BY <1>0 DEF Going, Running, Engaged, Control, Flow
<1>2. /\ SameFiles(Dir.m, am) /\ Listed(am) /\ Dir.m.incr # <<>> /\ am.incr # <<>>
      /\ Names(Dir.m) = Names(am) /\ Newest(Dir.m) = Newest(am) /\ Newest(Dir.m) \in Names(Dir.m)
      /\ fd = Dir.ent[Newest(Dir.m)] /\ fd # None
  BY <1>1, GoingIs
<1>3. Disk' /\ Dir'.ent = Dir.ent /\ SameFiles(Dir'.m, am)
  BY <1>0, <1>1, <1>2, AmHeld, Settled DEF Manifests
<1>4. Names(Dir'.m) = Names(Dir.m) /\ Dir'.m.incr # <<>> /\ SameFiles(Dir.m, Dir'.m)
  BY <1>2, <1>3, SameNames DEF SameFiles
<1>5. Manifests'
  BY <1>0, <1>1, <1>2, <1>3 DEF Manifests, Going, Running
<1>6. FirstStart'
  BY <1>4 DEF FirstStart
<1>7. Prepared'
  BY <1>0 DEF Prepared
<1>8. Power' = Power /\ Lag' = Lag /\ Lag = 0
  BY <1>0, QuietLag DEF Power, Lag
<1>9. Synced'
  BY <1>0, <1>3, <1>4, <1>8 DEF Synced, Intact
<1>10. L' = L
  <2>1. Listed(Dir.m)
    BY HeldInodes
  <2>2. \A f \in Names(Dir.m) : Whole(cont[Dir.ent[f]]) = Whole(cont'[Dir'.ent[f]])
    BY <1>0, <1>3
  <2>3. Log(Dir.m, Dir.ent, cont) = Log(Dir'.m, Dir'.ent, cont')
    BY <1>4, <2>1, <2>2, LogSame
  <2> QED BY <2>3 DEF L
<1>11. Contents'
  BY <1>0, <1>1, <1>10 DEF Contents, Going, Running
<1>12. Bounds'
  <2>1. Len(data) \in Nat /\ Len(buf) \in Nat /\ Len(buf) <= Len(data)
    BY <1>0, <1>8, BoundsNat DEF Bounds, Counts
  <2>2. /\ pending + Lag + Len(buf) <= Len(data) /\ fsynced + Lag + Len(buf) <= Len(data)
        /\ safe \in Nat /\ safe + Lag + Len(buf) <= Len(data) /\ \A i \in DOMAIN bio : bio[i].off + Lag + Len(buf) <= Len(data)
    BY <1>0 DEF Bounds
  <2>3. safe' \in Nat /\ safe' + Lag' + Len(buf') <= Len(data') /\ fsynced' + Lag' + Len(buf') <= Len(data')
    BY <1>0, <1>8, <2>1, <2>2
  <2> QED BY <1>0, <1>1, <1>8, <2>2, <2>3 DEF Bounds, Going, Running
<1> QED BY <1>3, <1>5, <1>6, <1>7, <1>9, <1>11, <1>12 DEF Core

LEMMA Closed ==
  ASSUME Memory, Directories, Files, Control, Disk, Synced, Going,
         FsyncAndClose, fd' = None, UNCHANGED <<mode, dirs, cont>>, pc' # "bootp"
  PROVE  Disk' /\ Synced' /\ Dir' = Dir /\ L' = L /\ Lag' = 0
<1>1. Dir' = Dir /\ Disk' /\ Power' = Power
  BY Unmoved DEF Moved, Power
<1>2. L' = L /\ Lag' = 0
  BY <1>1 DEF L, Lag
<1>3. \A i \in Inodes : i # fd => synced'[i] = synced[i]
  BY DEF FsyncAndClose, Files
<1>4. fd # None => synced'[fd] = Len(cont[fd])
  BY DEF FsyncAndClose, Files, Memory
<1>5. \A f \in Names(Dir.m) : Dir.ent[f] \in Inodes /\ Dir.ent[f] # None
  BY HeldInodes, NoneAssumption
<1>6. ASSUME Power, NEW f \in Names(Dir.m) PROVE synced'[Dir.ent[f]] = Len(cont[Dir.ent[f]])
  <2>1. CASE Dir.ent[f] = fd
    BY <2>1, <1>4, <1>5
  <2>2. CASE Dir.ent[f] # fd
    BY <2>2, <1>3, <1>5, <1>6 DEF Synced, Intact
  <2> QED BY <2>1, <2>2
<1>7. Synced'
  BY <1>1, <1>6 DEF Synced, Intact
<1> QED BY <1>1, <1>2, <1>7

LEMMA LogPrefix ==
  ASSUME Memory, Directories, Files, Disk, Manifests, Contents, Going
  PROVE  IsPrefix(L, data) /\ L \in Words /\ (Engaged => Len(L) + Len(buf) = Len(data))
<1>1. L \in Words /\ buf \in Words
  BY HeldInodes DEF Memory
<1>2. ASSUME Engaged PROVE IsPrefix(L, data) /\ Len(L) + Len(buf) = Len(data)
  <2>1. L \o buf = data
    BY <1>2 DEF Contents, Going
  <2>2. IsPrefix(L, L \o buf) /\ Len(L \o buf) = Len(L) + Len(buf)
    BY <1>1, ConcatWord
  <2> QED BY <2>1, <2>2
<1>3. ~Engaged => IsPrefix(L, data)
  BY DEF Contents, Going
<1> QED BY <1>1, <1>2, <1>3

LEMMA AppendOnlyStoppedCore ==
  ASSUME Sturdy, Flow, Counts, Memory, Directories, Files, Control, Disk, Manifests,
         FirstStart, Prepared, Synced, Contents, Bounds,
         Flow', Counts', Memory', Directories', Files', Control', AppendOnlyStopped
  PROVE  Core'
<1>0. /\ pc = "stop" /\ pc' = "loop" /\ st' = "off" /\ fd' = None /\ FsyncAndClose
      /\ child' = None /\ buf' = <<>> /\ safe' = 0 /\ fsynced' = -1 /\ pending' = 0
      /\ UNCHANGED <<mode, data, am, tm, dirs, cont, bio>>
  BY DEF AppendOnlyStopped
<1>1. Going /\ Going' /\ ~Engaged'
  BY <1>0 DEF Going, Running, Engaged
<1>2. Disk' /\ Synced' /\ Dir' = Dir /\ L' = L /\ Lag' = 0
  BY <1>0, <1>1, Closed
<1>3. /\ SameFiles(Dir.m, am) /\ Dir.m.incr # <<>> /\ am.incr # <<>> /\ Names(Dir.m) = Names(am)
  BY <1>1, GoingIs
<1>4. Manifests'
  <2>1. \A f \in Names(am) : Dir.ent[f] # None
    BY <1>3, HeldInodes, NoneAssumption
  <2> QED BY <1>0, <1>1, <1>2, <1>3, <2>1 DEF Manifests, Going, Running
<1>5. FirstStart'
  BY <1>2, <1>3 DEF FirstStart
<1>6. Prepared'
  BY <1>0 DEF Prepared
<1>7. Contents'
  <2>1. IsPrefix(L', data')
    BY <1>0, <1>1, <1>2, LogPrefix
  <2> QED BY <1>0, <1>1, <2>1 DEF Contents, Going, Running
<1>8. Bounds'
  <2>1. Len(data) \in Nat /\ Len(buf) \in Nat /\ Lag \in Nat /\ \A i \in DOMAIN bio : bio[i].off \in Nat
    BY BoundsNat
  <2>2. \A i \in DOMAIN bio : bio[i].off + Lag + Len(buf) <= Len(data)
    BY <1>0 DEF Bounds
  <2>3. \A i \in DOMAIN bio : bio[i].off + 0 + 0 <= Len(data)
    BY <2>1, <2>2
  <2>4. Len(buf') = 0
    BY <1>0
  <2> QED BY <1>0, <1>1, <1>2, <2>1, <2>3, <2>4 DEF Bounds, Going, Running
<1> QED BY <1>2, <1>4, <1>5, <1>6, <1>7, <1>8 DEF Core

LEMMA ExitCore ==
  ASSUME Sturdy, Flow, Counts, Memory, Directories, Files, Control, Disk, Manifests,
         FirstStart, Prepared, Synced, Contents, Bounds,
         Flow', Counts', Memory', Directories', Files', Control', Exit
  PROVE  Core'
<1>0. /\ pc = "exit" /\ pc' = "down" /\ fd' = None /\ FsyncAndClose
      /\ child' = None /\ buf' = <<>> /\ bio' = <<>> /\ pending' = 0
      /\ safe' = IF st = "on" /\ buf = <<>> THEN Len(data) ELSE safe
      /\ UNCHANGED <<mode, data, st, am, dirs, cont, fsynced>>
  BY DEF Exit, Terminate
<1>1. Going
  BY <1>0 DEF Going, Running
<1>2. Disk' /\ Synced' /\ Dir' = Dir /\ L' = L /\ Lag' = 0
  BY <1>0, <1>1, Closed
<1>3. IsPrefix(L, data) /\ L \in Words /\ (Engaged => Len(L) + Len(buf) = Len(data))
  BY <1>1, LogPrefix
<1>4. Manifests' /\ FirstStart' /\ Prepared'
  BY <1>0, <1>2 DEF Manifests, FirstStart, Prepared, Running
<1>5. Contents'
  <2>1. \A f \in Older(Dir.m) : ~IsTorn(cont[Dir.ent[f]])
    <3>1. \A f \in Older(Dir.m) : Dir.ent[f] \in Inodes
      BY <1>1, GoingIs, HeldInodes
    <3> QED BY <1>0, <3>1, WordIs DEF Files
  <2> QED BY <1>0, <1>2, <1>3, <2>1 DEF Contents, Running
<1>6. Bounds'
  <2>1. Len(data) \in Nat /\ Len(buf) \in Nat /\ Lag \in Nat /\ Len(L) \in Nat
    BY <1>3, BoundsNat, WordIs
  <2>2. safe \in Nat /\ safe + Lag + Len(buf) <= Len(data) /\ (~Engaged => safe = 0)
    BY <1>0, <1>1 DEF Bounds, Going
  <2>3. safe' \in Nat /\ safe' <= Len(L)
    <3>1. CASE Engaged
      <4>1. safe <= Len(L)
        BY <3>1, <1>3, <2>1, <2>2
      <4>2. buf = <<>> => Len(data) <= Len(L)
        BY <3>1, <1>3, <2>1
      <4> QED BY <4>1, <4>2, <1>0, <2>1, <2>2
    <3>2. CASE ~Engaged
      BY <3>2, <1>0, <2>1, <2>2 DEF Engaged
    <3> QED BY <3>1, <3>2
  <2> QED BY <1>0, <1>2, <2>3 DEF Bounds, Running
<1> QED BY <1>2, <1>4, <1>5, <1>6 DEF Core

LEMMA RefusedCore ==
  ASSUME Flow, Counts, Memory, Directories, Files, Control, Disk, Manifests,
         FirstStart, Prepared, Synced, Contents, Bounds, Control',
         pc \in {"open", "start", "openp"}, RewriteRefused,
         UNCHANGED <<mode, data, buf, fd, am, dirs, cont, synced, bio, child, pending, fsynced, safe>>
  PROVE  Core'
<1>0. pc' = "loop" /\ (st' = IF ret = "start" THEN "off" ELSE st) /\ child = None /\ (ret = "start" => st = "wait")
  BY DEF RewriteRefused, Control
<1>1. Going /\ Going' /\ (Engaged' <=> Engaged) /\ pc # "sync"
  BY <1>0 DEF Going, Running, Engaged
<1>2. Moved
  BY Unmoved
<1>3. /\ Disk' /\ Manifests' /\ FirstStart' /\ Synced' /\ Bounds'
      /\ Engaged' => L' \o buf' = data'
      /\ ~Engaged' => IsPrefix(L', data')
  BY <1>1, <1>2, MovedCore
<1>4. Prepared'
  BY <1>0 DEF Prepared
<1>5. Contents'
  BY <1>0, <1>1, <1>3 DEF Contents, Going, Running
<1> QED BY <1>3, <1>4, <1>5 DEF Core

LEMMA FreshFile ==
  ASSUME Directories, Files, Disk, Free # {}, Create(NewInode, <<>>, 0)
  PROVE  /\ NewInode \in Inodes /\ NewInode # fd /\ NewInode # None
         /\ \A f \in DOMAIN Dir.ent : Dir.ent[f] # NewInode
         /\ cont'[NewInode] = <<>> /\ synced'[NewInode] = 0
         /\ \A i \in Inodes : i # NewInode => cont'[i] = cont[i] /\ synced'[i] = synced[i]
         /\ \A f \in Names(Dir.m) : /\ cont'[Dir.ent[f]] = cont[Dir.ent[f]]
                                    /\ synced'[Dir.ent[f]] = synced[Dir.ent[f]]
<1>1. /\ NewInode \in Inodes /\ NewInode # fd
      /\ \A k \in DOMAIN dirs : \A f \in DOMAIN dirs[k].ent : dirs[k].ent[f] # NewInode
  BY NewInodeFree, FreshInode
<1>2. \A f \in DOMAIN Dir.ent : Dir.ent[f] # NewInode
  BY <1>1, DirIs
<1>3. cont' = [cont EXCEPT ![NewInode] = <<>>] /\ synced' = [synced EXCEPT ![NewInode] = 0]
  BY DEF Create
<1>4. /\ cont'[NewInode] = <<>> /\ synced'[NewInode] = 0
      /\ \A i \in Inodes : i # NewInode => cont'[i] = cont[i] /\ synced'[i] = synced[i]
  BY <1>1, <1>3 DEF Files
<1>5. \A f \in Names(Dir.m) : cont'[Dir.ent[f]] = cont[Dir.ent[f]] /\ synced'[Dir.ent[f]] = synced[Dir.ent[f]]
  BY <1>2, <1>4, HeldInodes
<1> QED BY <1>1, <1>2, <1>4, <1>5, NoneAssumption

LEMMA SwapBounds ==
  ASSUME Counts, Memory, Files, Bounds, pc # "down", pc' # "down", NEW i, SwapAofFd(i),
         Lag = 0, Lag' = 0, buf = <<>>, UNCHANGED <<data, buf, pending, fsynced, safe>>,
         Running' /\ ~Engaged' => safe = 0
  PROVE  Bounds'
<1>1. Len(data) \in Nat /\ Len(buf) = 0 /\ \A k \in DOMAIN bio : bio[k].off \in Nat
  BY BoundsNat
<1>2. \A k \in DOMAIN bio : bio[k].off + Lag' + Len(buf') <= Len(data')
  BY <1>1 DEF Bounds
<1>3. \A k \in DOMAIN bio' : bio'[k].off + Lag' + Len(buf') <= Len(data')
  <2>1. CASE bio' = bio
    BY <1>2, <2>1
  <2>2. CASE bio' = Append(bio, [type |-> "close", ino |-> fd, off |-> Len(data)])
    <3>1. \A k \in DOMAIN bio' : bio'[k].off = Len(data) \/ (k \in DOMAIN bio /\ bio'[k] = bio[k])
      BY <2>2, AppendedJob DEF Memory
    <3> TAKE k \in DOMAIN bio'
    <3>2. CASE bio'[k].off = Len(data)
      BY <3>2, <1>1
    <3>3. CASE k \in DOMAIN bio /\ bio'[k] = bio[k]
      BY <3>3, <1>2
    <3> QED BY <3>1, <3>2, <3>3
  <2> QED BY <2>1, <2>2 DEF SwapAofFd
<1> QED BY <1>1, <1>3 DEF Bounds

LEMMA OpenNewIncrAofForAppendCore ==
  ASSUME Sturdy, Flow, Counts, Memory, Directories, Files, Control, Disk, Manifests,
         FirstStart, Prepared, Synced, Contents, Bounds,
         Flow', Counts', Memory', Directories', Files', Control', OpenNewIncrAofForAppend
  PROVE  Core'
<1>0. /\ pc \in {"open", "start"} /\ child = None /\ buf = <<>> /\ st # "off"
      /\ UNCHANGED <<mode, data, buf, am, child, pending, fsynced, safe>>
  BY DEF OpenNewIncrAofForAppend, Control, Running
<1>1. Going
  BY <1>0 DEF Going, Running
<1>2. Dir.ent \in Ent /\ Names(Dir.m) = Names(am) /\ Dir.m.incr # <<>>
  BY <1>1, DirIs, GoingIs
<1>3. CASE RewriteRefused /\ UNCHANGED <<fd, file, bio, fsoff>>
  BY <1>0, <1>3, RefusedCore DEF file
<1>4. CASE /\ st = "wait" /\ pc' = "drain" /\ Free # {}
           /\ Change(Link(Dir.ent, Temp, NewInode))
           /\ Create(NewInode, <<>>, 0)
           /\ SwapAofFd(NewInode)
           /\ UNCHANGED <<st, ret, tm>>
  <2> DEFINE e == Link(Dir.ent, Temp, NewInode)
  <2>1. Going' /\ ~Engaged /\ ~Engaged' /\ fd' = NewInode
    BY <1>0, <1>4 DEF Going, Running, Engaged, SwapAofFd
  <2>2. /\ NewInode \in Inodes /\ NewInode # fd /\ NewInode # None
        /\ \A f \in DOMAIN Dir.ent : Dir.ent[f] # NewInode
        /\ cont'[NewInode] = <<>> /\ synced'[NewInode] = 0
        /\ \A f \in Names(Dir.m) : /\ cont'[Dir.ent[f]] = cont[Dir.ent[f]]
                                   /\ synced'[Dir.ent[f]] = synced[Dir.ent[f]]
    BY <1>4, FreshFile
  <2>3. e \in Ent /\ DOMAIN e = DOMAIN Dir.ent \cup {Temp} /\ e[Temp] = NewInode /\ \A x \in DOMAIN Dir.ent : x # Temp => e[x] = Dir.ent[x]
    <3>1. Dir.ent \in Ent /\ NewInode \in Inodes
      BY <1>2, <2>2
    <3> QED BY <3>1, TempIsName, LinkIs
  <2>4. Change(e)
    BY <1>4
  <2> HIDE DEF e
  <2>5. Moved /\ Dir'.ent = e
    <3>1. Temp \notin Names(am)
      BY DEF Names, Temp, Base, Incr
    <3>2. \A f \in Names(Dir.m) : f \in DOMAIN e /\ e[f] = Dir.ent[f]
      BY <1>2, <2>3, <3>1, HeldInodes
    <3> QED BY <2>3, <2>4, <3>2, DiskChange
  <2>6. \A f \in Names(Dir.m) : f \in DOMAIN Dir.ent /\ Dir.ent[f] # NewInode /\ Dir'.ent[f] = Dir.ent[f] /\ Dir.ent[f] # fd
    BY <1>1, <2>1, <2>2, <2>5, HeldInodes, GoingIs DEF Moved
  <2>7. Manifests' /\ FirstStart'
    <3>1. SameFiles(Dir'.m, am') /\ Dir'.m.incr # <<>> /\ am'.incr # <<>>
      BY <1>0, <1>1, <2>5, GoingIs DEF Moved
    <3>2. \A f \in Names(am') : Dir'.ent[f] # fd'
      BY <1>0, <1>2, <2>1, <2>6
    <3> QED BY <1>0, <2>1, <3>1, <3>2 DEF Manifests, FirstStart, Going, Running
  <2>8. L' = L
    BY <2>2, <2>5, MovedLog
  <2>9. Synced' /\ Lag' = 0
    <3>1. Power' = Power
      BY <1>0 DEF Power
    <3>2. \A f \in Names(Dir.m) : Power => Intact(Dir.ent[f])
      BY <2>6 DEF Synced
    <3>3. \A f \in Names(Dir'.m) : Power => synced'[Dir'.ent[f]] = Len(cont'[Dir'.ent[f]])
      BY <2>2, <2>5, <2>6, <3>2 DEF Intact, Moved
    <3>4. synced'[fd'] = Len(cont'[fd']) /\ synced'[fd'] = 0
      BY <2>1, <2>2
    <3>5. Synced'
      BY <1>4, <3>1, <3>3, <3>4 DEF Synced, Intact
    <3> QED BY <3>4, <3>5 DEF Lag
  <2>10. Prepared'
    BY <1>0, <1>4, <2>1, <2>2, <2>3, <2>5 DEF Prepared
  <2>11. Contents'
    <3>1. IsPrefix(L', data')
      BY <1>0, <1>1, <2>8, LogPrefix
    <3> QED BY <1>0, <1>4, <2>1, <3>1 DEF Contents, Going, Running
  <2>12. Bounds'
    <3>1. Lag = 0 /\ safe = 0
      BY <1>0, <1>1, <2>1, QuietLag DEF Bounds, Going
    <3> QED BY <1>0, <1>4, <2>9, <3>1, SwapBounds
  <2> QED BY <2>5, <2>7, <2>9, <2>10, <2>11, <2>12 DEF Core, Moved
<1>5. CASE /\ st = "on" /\ pc' = "openp" /\ Free # {}
           /\ tm' = GetNewIncrAofName(am)
           /\ Change(Link(Dir.ent, Incr(tm'.iseq), NewInode))
           /\ Create(NewInode, <<>>, 0)
           /\ UNCHANGED <<st, fd, ret, bio, fsoff>>
  <2> DEFINE f == Incr(tm'.iseq)
             e == Link(Dir.ent, f, NewInode)
  <2>1. Going' /\ Engaged /\ Engaged'
    BY <1>0, <1>5 DEF Going, Running, Engaged
  <2>2. /\ NewInode \in Inodes /\ NewInode # fd /\ NewInode # None
        /\ \A x \in DOMAIN Dir.ent : Dir.ent[x] # NewInode
        /\ cont'[NewInode] = <<>> /\ synced'[NewInode] = 0
        /\ \A i \in Inodes : i # NewInode => cont'[i] = cont[i] /\ synced'[i] = synced[i]
        /\ \A x \in Names(Dir.m) : /\ cont'[Dir.ent[x]] = cont[Dir.ent[x]]
                                   /\ synced'[Dir.ent[x]] = synced[Dir.ent[x]]
    BY <1>5, FreshFile
  <2>3. f \notin Names(am) /\ f \in Name
    BY <1>5, NewIncrIs DEF Directories, Manifests, Good
  <2> HIDE DEF f
  <2>4. e \in Ent /\ DOMAIN e = DOMAIN Dir.ent \cup {f} /\ e[f] = NewInode /\ \A x \in DOMAIN Dir.ent : x # f => e[x] = Dir.ent[x]
    <3>1. Dir.ent \in Ent /\ NewInode \in Inodes /\ f \in Name
      BY <1>2, <2>2, <2>3
    <3> QED BY <3>1, LinkIs
  <2>5. Change(e)
    BY <1>5 DEF f
  <2> HIDE DEF e
  <2>6. Moved /\ Dir'.ent = e
    <3>1. \A x \in Names(Dir.m) : x \in DOMAIN e /\ e[x] = Dir.ent[x]
      BY <1>2, <2>3, <2>4, HeldInodes
    <3> QED BY <2>4, <2>5, <3>1, DiskChange
  <2>7. /\ Disk' /\ Manifests' /\ FirstStart' /\ Synced' /\ Bounds'
        /\ Engaged' => L' \o buf' = data'
        /\ ~Engaged' => IsPrefix(L', data')
    <3>1. fd # None => cont'[fd] = cont[fd] /\ synced'[fd] = synced[fd]
      BY <2>2 DEF Memory
    <3> QED BY <1>0, <1>1, <1>5, <2>1, <2>2, <2>6, <3>1, MovedCore
  <2>8. Prepared'
    <3>1. Incr(tm'.iseq) \in DOMAIN Dir'.ent /\ Dir'.ent[Incr(tm'.iseq)] = NewInode
      BY <2>4, <2>6 DEF f
    <3>2. \A x \in Names(am) : Dir'.ent[x] # NewInode
      BY <1>2, <2>2, <2>6, HeldInodes DEF Moved
    <3> QED BY <1>0, <1>5, <2>2, <3>1, <3>2 DEF Prepared
  <2>9. Contents'
    BY <1>0, <1>5, <2>1, <2>7 DEF Contents, Going, Running
  <2> QED BY <2>7, <2>8, <2>9 DEF Core
<1> QED BY <1>0, <1>3, <1>4, <1>5 DEF OpenNewIncrAofForAppend

(* The rotation adds an empty file at the end of the manifest; the old     *)
(* file is synced, or the failure considered does not need it to be.       *)
LEMMA PersistNewIncrCore ==
  ASSUME Sturdy, Flow, Counts, Memory, Directories, Files, Control, Disk, Manifests,
         FirstStart, Prepared, Synced, Contents, Bounds,
         Flow', Counts', Memory', Directories', Files', Control', PersistNewIncr
  PROVE  Core'
<1>0. /\ pc = "openp" /\ st = "on" /\ child = None /\ buf = <<>>
      /\ UNCHANGED <<mode, data, buf, cont, synced, child, pending, fsynced, safe>>
  BY DEF PersistNewIncr, Control
<1>1. Going /\ Engaged
  BY <1>0 DEF Going, Running, Engaged
<1>2. /\ SameFiles(Dir.m, am) /\ Listed(am) /\ Dir.m.incr # <<>> /\ am.incr # <<>>
      /\ Names(Dir.m) = Names(am) /\ Newest(Dir.m) = Newest(am) /\ Newest(Dir.m) \in Names(Dir.m)
  BY <1>1, GoingIs
<1>3. CASE Fault("manifest") /\ RewriteRefused /\ UNCHANGED <<dirs, fd, bio, fsoff, am>>
  BY <1>0, <1>3, RefusedCore
<1>4. CASE /\ PersistAofManifest(tm)
           /\ SwapAofFd(Dir.ent[Incr(tm.iseq)])
           /\ am' = tm
           /\ pc' = "fork" /\ UNCHANGED <<st, ret>>
  <2>1. /\ tm = GetNewIncrAofName(am) /\ Incr(tm.iseq) \in DOMAIN Dir.ent
        /\ Dir.ent[Incr(tm.iseq)] # fd
        /\ \A f \in Names(am) : Dir.ent[f] # Dir.ent[Incr(tm.iseq)]
        /\ cont[Dir.ent[Incr(tm.iseq)]] = <<>>
    BY <1>0 DEF Prepared
  <2>2. /\ tm \in Manifest /\ tm.base = am.base /\ tm.incr = Append(am.incr, am.iseq + 1)
        /\ tm.incr # <<>> /\ Sorted(tm) /\ Counted(tm)
        /\ Newest(tm) = Incr(tm.iseq) /\ Older(tm) = Names(am)
        /\ Names(tm) = Names(am) \cup {Newest(tm)} /\ tm.iseq = am.iseq + 1 /\ am.iseq \in Nat
    BY <2>1, NewIncrIs, ManifestIs DEF Directories, Manifests, Good
  <2>3. Good(tm)
    BY <1>2, <2>2 DEF Manifests, Good
  <2> DEFINE i == Dir.ent[Newest(tm)]
  <2>4. i \in Inodes /\ i # None /\ i # fd /\ cont[i] = <<>> /\ synced[i] = 0 /\ fd' = i /\ Dir.ent[Incr(tm.iseq)] = i
    <3>1. i \in Inodes /\ i # fd /\ cont[i] = <<>> /\ fd' = i
      BY <1>4, <2>1, <2>2, DirIs DEF SwapAofFd
    <3>2. synced[i] \in Nat /\ synced[i] <= Len(cont[i])
      BY <3>1 DEF Files
    <3> QED BY <2>2, <3>1, <3>2, NoneAssumption
  <2>5. Held(tm, Dir.ent)
    BY <1>2, <2>1, <2>2, HeldInodes DEF Held
  <2>6. Disk' /\ Dir'.ent = Dir.ent /\ SameFiles(Dir'.m, tm)
    BY <1>4, <2>2, <2>3, <2>5, DiskPersist
  <2>7. Going' /\ Engaged' /\ Names(Dir'.m) = Names(tm) /\ Dir'.m.incr # <<>>
    BY <1>0, <1>4, <2>2, <2>6, SameNames DEF Going, Running, Engaged, SameFiles
  <2>8. Manifests' /\ FirstStart'
    BY <1>0, <1>4, <2>2, <2>3, <2>4, <2>6, <2>7 DEF Manifests, FirstStart, Going, Running
  <2>9. Prepared'
    BY <1>0, <1>4, <2>4 DEF Prepared
  <2>10. Synced' /\ Lag' = 0
    <3>1. Power' = Power
      BY <1>0 DEF Power
    <3>2. \A f \in Names(am) : Power => Intact(Dir.ent[f])
      <4> SUFFICES ASSUME NEW f \in Names(am), Power PROVE Intact(Dir.ent[f])
        OBVIOUS
      <4>1. CASE Dir.ent[f] = fd
        <5>1. fd # None
          BY <1>1, GoingIs
        <5> QED BY <4>1, <1>0, <5>1 DEF Synced
      <4>2. CASE Dir.ent[f] # fd
        BY <4>2, <1>2 DEF Synced
      <4> QED BY <4>1, <4>2
    <3>3. Power => Intact(i)
      BY <2>4 DEF Intact
    <3>4. \A f \in Names(tm) : Power => Intact(Dir.ent[f])
      BY <2>2, <3>2, <3>3
    <3>5. Synced'
      BY <1>0, <1>4, <2>4, <2>6, <2>7, <3>1, <3>3, <3>4 DEF Synced, Intact
    <3> QED BY <1>0, <2>4, <3>5 DEF Lag
  <2>11. L' = L
    <3>0. \A f \in Names(am) : Whole(cont[Dir.ent[f]]) \in Seq(1 .. MaxWrites)
      BY <1>2, HeldInodes DEF Files, Words
    <3>1. Whole(cont[Dir.ent[Incr(am.iseq + 1)]]) \in Seq(1 .. MaxWrites) /\ Whole(cont[Dir.ent[Incr(am.iseq + 1)]]) = <<>>
      BY <2>2, <2>4, EmptyWord DEF Words
    <3>2. Log(tm, Dir.ent, cont) = Log(am, Dir.ent, cont) \o Whole(cont[Dir.ent[Incr(am.iseq + 1)]])
      <4>1. am.iseq + 1 \in Nat
        BY <2>2
      <4> DEFINE k == am.iseq + 1
      <4> HIDE DEF k
      <4>2. k \in Nat /\ tm.incr = Append(am.incr, k) /\ Whole(cont[Dir.ent[Incr(k)]]) \in Seq(1 .. MaxWrites)
        BY <2>2, <3>1, <4>1 DEF k
      <4>3. Log(tm, Dir.ent, cont) = Log(am, Dir.ent, cont) \o Whole(cont[Dir.ent[Incr(k)]])
        <5> DEFINE W == 1 .. MaxWrites
                   m == am
                   q == tm
                   e == Dir.ent
        <5>1. Listed(m) /\ q.base = m.base /\ q.incr = Append(m.incr, k)
          BY <1>2, <2>2, <4>2
        <5>2. \A f \in Names(m) : Whole(cont[e[f]]) \in Seq(W)
          BY <3>0
        <5>3. Whole(cont[e[Incr(k)]]) \in Seq(W)
          BY <4>2
        <5> HIDE DEF W, m, q, e
        <5>4. Log(q, e, cont) = Log(m, e, cont) \o Whole(cont[e[Incr(k)]])
          BY SMTT(30), <4>2, <5>1, <5>2, <5>3, LogNew
        <5> QED BY <5>4 DEF m, q, e
      <4> QED BY <4>3 DEF k
    <3>3. Log(am, Dir.ent, cont) \in Words
      BY <1>2, <3>0, LogType DEF Words
    <3>4. Log(tm, Dir.ent, cont) = Log(am, Dir.ent, cont)
      BY <3>1, <3>2, <3>3, ConcatWord
    <3>5. Log(am, Dir.ent, cont) = L
      <4>1. SameFiles(am, Dir.m)
        BY <1>2 DEF SameFiles
      <4> QED BY <1>2, <4>1, LogSame DEF L
    <3>6. Log(Dir'.m, Dir'.ent, cont') = Log(tm, Dir.ent, cont)
      <4>1. Listed(tm) /\ SameFiles(tm, Dir'.m)
        BY <2>2, <2>6, ManifestIs DEF SameFiles
      <4>2. \A f \in Names(tm) : Whole(cont[Dir.ent[f]]) = Whole(cont'[Dir'.ent[f]])
        BY <1>0, <2>6
      <4>3. Log(tm, Dir.ent, cont) = Log(Dir'.m, Dir'.ent, cont')
        BY <4>1, <4>2, LogSame
      <4> QED BY <4>3
    <3> QED BY <3>4, <3>5, <3>6 DEF L
  <2>12. Contents'
    <3>1. L' \o buf' = data'
      BY <1>0, <1>1, <2>11 DEF Contents, Going
    <3> QED BY <1>0, <1>4, <2>7, <3>1 DEF Contents, Going, Running
  <2>13. Bounds'
    <3>1. Lag = 0
      BY <1>0, QuietLag
    <3> QED BY <1>0, <1>4, <2>7, <2>10, <3>1, SwapBounds
  <2> QED BY <2>6, <2>8, <2>9, <2>10, <2>12, <2>13 DEF Core
<1>5. ~Fault("dirsync")
  BY SturdyMode DEF Fault
<1> QED BY <1>3, <1>4, <1>5 DEF PersistNewIncr

(* The file t holds, when loaded, the first k writes of s.                 *)
Shorn(s, k, t) == k \in 0 .. Len(s) /\ Whole(t) = SubSeq(s, 1, k)

(* And t is s when only the first k writes of its end, z, are left.        *)
Cropped(s, z, k, t) == t \in Words /\ IsPrefix(t, s) /\ Len(t) = Len(s) - Len(z) + k

LEMMA ConcatPrefix ==
  ASSUME NEW s \in Words, NEW z \in Words, NEW k \in 0 .. Len(z)
  PROVE  /\ SubSeq(z, 1, k) \in Words /\ Len(SubSeq(z, 1, k)) = k
         /\ IsPrefix(s \o SubSeq(z, 1, k), s \o z)
<1> DEFINE y == SubSeq(z, 1, k)
<1>1. s \in Seq(1 .. MaxWrites) /\ z \in Seq(1 .. MaxWrites) /\ Len(s) \in Nat /\ Len(z) \in Nat
  BY DEF Words
<1>2. y \in Words /\ Len(y) = k /\ y \in Seq(1 .. MaxWrites)
  BY CutIs DEF Words
<1>3. \A i \in 1 .. k : y[i] = z[i]
  <2>1. \A i \in 1 .. k : z[i] \in 1 .. MaxWrites
    <3>1. \A i \in 1 .. Len(z) : z[i] \in 1 .. MaxWrites
      BY <1>1, ElementOfSeq
    <3> QED BY <1>1, <3>1
  <2>2. \A i \in 1 .. k - 1 + 1 : y[i] = z[1 + i - 1]
    <3>1. 1 \in Int /\ k \in Int
      BY <1>1
    <3> QED BY <3>1, <2>1, SubSeqProperties
  <2> HIDE DEF y
  <2> QED BY <1>1, <2>2
<1> HIDE DEF y
<1>4. s \o y \in Words /\ Len(s \o y) = Len(s) + k /\ s \o z \in Words /\ Len(s \o z) = Len(s) + Len(z)
  BY <1>2, ConcatWord
<1>5. \A i \in 1 .. Len(s) + k : (s \o y)[i] = (s \o z)[i]
  <2> TAKE i \in 1 .. Len(s) + k
  <2>1. (s \o y)[i] = IF i <= Len(s) THEN s[i] ELSE y[i - Len(s)]
    BY <1>1, <1>2, ConcatProperties
  <2>2. (s \o z)[i] = IF i <= Len(s) THEN s[i] ELSE z[i - Len(s)]
    <3>1. i \in 1 .. Len(s) + Len(z)
      BY <1>1
    <3> QED BY <1>1, <3>1, ConcatProperties
  <2>3. i > Len(s) => i - Len(s) \in 1 .. k
    BY <1>1
  <2> QED BY <1>1, <1>3, <2>1, <2>2, <2>3
<1>6. IsPrefix(s \o y, s \o z)
  <2> DEFINE a == s \o y
             b == s \o z
  <2>1. a \in Words /\ b \in Words /\ Len(a) <= Len(b) /\ \A i \in 1 .. Len(a) : a[i] = b[i]
    BY <1>1, <1>4, <1>5
  <2> HIDE DEF a, b
  <2>2. IsPrefix(a, b)
    BY <2>1, PrefixIs
  <2> QED BY <2>2 DEF a, b
<1> QED BY <1>2, <1>6 DEF y

LEMMA LogCut ==
  ASSUME NEW m, Listed(m), m.incr # <<>>, NEW e, NEW c, NEW d, NEW k \in Nat,
         \A f \in Names(m) : c[e[f]] \in Words,
         \A f \in Older(m) : d[e[f]] = c[e[f]],
         Shorn(c[e[Newest(m)]], k, d[e[Newest(m)]])
  PROVE  Cropped(Log(m, e, c), c[e[Newest(m)]], k, Log(m, e, d))
<1> DEFINE z == c[e[Newest(m)]]
           y == SubSeq(z, 1, k)
           P == Log(Prior(m), e, c)
<1>1. Names(m) = Older(m) \cup {Newest(m)} /\ Older(m) \subseteq Names(m)
  BY NamesAre
<1>2. z \in Words /\ k \in 0 .. Len(z) /\ Whole(d[e[Newest(m)]]) = y
  BY <1>1 DEF Shorn
<1>3. y \in Words /\ Len(y) = k
  <2> HIDE DEF z
  <2> QED BY <1>2, ConcatPrefix
<1>4. \A f \in Names(m) : Whole(c[e[f]]) = c[e[f]] /\ Whole(c[e[f]]) \in Words
  BY WordIs
<1> HIDE DEF y
<1>5. \A f \in Names(m) : Whole(d[e[f]]) \in Words
  BY <1>1, <1>2, <1>3, <1>4
<1>6. Log(m, e, c) = P \o z /\ P \in Words
  <2>1. Whole(z) = z
    BY <1>1, <1>4
  <2>2. Log(m, e, c) = Log(Prior(m), e, c) \o Whole(c[e[Newest(m)]]) /\ P \in Words
    BY <1>4, LogLast
  <2> QED BY <2>1, <2>2
<1>7. Log(m, e, d) = Log(Prior(m), e, d) \o y
  <2>1. Log(m, e, d) = Log(Prior(m), e, d) \o Whole(d[e[Newest(m)]])
    BY <1>5, LogLast
  <2> QED BY <1>2, <2>1
<1>8. Log(Prior(m), e, d) = P
  <2>1. Listed(Prior(m)) /\ Names(Prior(m)) = Older(m) /\ SameFiles(Prior(m), Prior(m))
    BY PriorIs DEF SameFiles
  <2>2. \A f \in Names(Prior(m)) : Whole(c[e[f]]) = Whole(d[e[f]])
    BY <2>1
  <2> QED BY <2>1, <2>2, LogSame
<1> HIDE DEF P, z
<1>9. IsPrefix(P \o y, P \o z)
  BY <1>2, <1>6, ConcatPrefix DEF y
<1>10. P \o y \in Words /\ Len(P \o y) = Len(P) + k /\ Len(P \o z) = Len(P) + Len(z) /\ Len(P) \in Nat /\ Len(z) \in Nat
  BY <1>2, <1>3, <1>6, ConcatWord
<1>11. Len(P \o y) = Len(P \o z) - Len(z) + k
  BY <1>2, <1>10
<1> QED BY <1>6, <1>7, <1>8, <1>9, <1>10, <1>11 DEF z, Cropped

(* What a running server has on disk, at whatever point it is.             *)
LEMMA Standing ==
  ASSUME Flow, Counts, Memory, Directories, Files, Control, Disk, Manifests, Synced, Contents, Bounds,
         pc # "down"
  PROVE  LET i == Dir.ent[Newest(Dir.m)]
         IN  /\ L \in Words /\ IsPrefix(L, data) /\ safe <= Len(L)
             /\ Engaged => Len(L) + Len(buf) = Len(data)
             /\ ~Engaged => safe = 0
             /\ Power => \A f \in Older(Dir.m) : Intact(Dir.ent[f])
             /\ Power /\ Dir.m.incr # <<>> /\ Engaged => Len(cont[i]) - synced[i] = Lag
             /\ Power /\ Dir.m.incr # <<>> /\ ~Engaged => Intact(i)
             /\ Dir.m.incr = <<>> => Dir.m.base = 0 /\ L = <<>> /\ data = <<>>
<1> DEFINE i == Dir.ent[Newest(Dir.m)]
<1>1. Len(data) \in Nat /\ Len(buf) \in Nat /\ Lag \in Nat /\ L \in Words /\ Len(L) \in Nat
  BY BoundsNat, HeldInodes, WordIs
<1>2. safe \in Nat /\ safe + Lag + Len(buf) <= Len(data)
  BY DEF Bounds
<1>3. Dir.m.incr = <<>> => Dir.m.base = 0 /\ L = <<>> /\ Older(Dir.m) = {}
  <2>1. Dir.m.incr = <<>> => Dir.m.base = 0
    BY DEF Disk, Good
  <2> QED BY <2>1, LogEmpty DEF L, Older
<1>4. Dir.m.incr # <<>> => Newest(Dir.m) \in Names(Dir.m) /\ Dir.ent[Newest(Dir.m)] \in Inodes
  BY HeldInodes, NamesAre
<1>5. \A f \in Older(Dir.m) : f \in Names(Dir.m) /\ Dir.ent[f] \in Inodes
  BY HeldInodes, NamesAre
<1>6. CASE Going
  <2>1. IsPrefix(L, data) /\ (Engaged => Len(L) + Len(buf) = Len(data))
    BY <1>6, LogPrefix
  <2>2. /\ Dir.m.incr # <<>> /\ (Engaged => fd = i /\ fd # None)
        /\ (~Engaged => \A f \in Names(Dir.m) : Dir.ent[f] # fd)
        /\ \A f \in Older(Dir.m) : f \in Names(Dir.m) /\ Dir.ent[f] # fd
    BY <1>6, GoingIs
  <2>3. ~Engaged => safe = 0
    BY <1>6 DEF Bounds, Going
  <2>4. safe <= Len(L)
    BY <1>1, <1>2, <2>1, <2>3
  <2>5. Power => \A f \in Older(Dir.m) : Intact(Dir.ent[f])
    BY <2>2 DEF Synced
  <2>6. Power /\ Engaged => Len(cont[i]) - synced[i] = Lag
    BY <2>2 DEF Lag
  <2>7. Power /\ ~Engaged => Intact(i)
    BY <1>4, <2>2 DEF Synced
  <2> QED BY <1>1, <2>1, <2>2, <2>3, <2>4, <2>5, <2>6, <2>7
<1>7. CASE pc = "boot"
  <2>1. L = data /\ fd = None /\ buf = <<>> /\ st = "on" /\ Engaged
    BY <1>7 DEF Contents, Control, Engaged
  <2>2. IsPrefix(L, data) /\ Len(buf) = 0
    <3>1. L \o <<>> = L /\ IsPrefix(L, L \o <<>>)
      BY <1>1, EmptyWord, ConcatWord
    <3> QED BY <2>1, <3>1
  <2>3. \A f \in Names(Dir.m) : Power => Intact(Dir.ent[f])
    BY <2>1, HeldInodes, NoneAssumption DEF Synced
  <2>4. Lag = 0
    BY <2>1 DEF Lag
  <2>5. Power /\ Dir.m.incr # <<>> => Len(cont[i]) - synced[i] = Lag
    <3> SUFFICES ASSUME Power, Dir.m.incr # <<>> PROVE Len(cont[i]) - synced[i] = 0
      BY <2>4
    <3>1. Intact(i) /\ synced[i] \in Nat
      BY <1>4, <2>3 DEF Files
    <3> QED BY <3>1 DEF Intact
  <2> QED BY <1>1, <1>2, <1>3, <1>5, <2>1, <2>2, <2>3, <2>4, <2>5
<1>8. CASE pc = "bootp"
  <2>1. Log(am, Dir.ent, cont) = data /\ (Dir.m.incr = <<>> => data = <<>>) /\ buf = <<>> /\ st = "on" /\ Engaged /\ Running
    BY <1>8 DEF Contents, Control, Engaged, Running
  <2>2. fd = Dir.ent[Newest(am)] /\ (SameFiles(Dir.m, am) \/ Dir.m.incr = <<>>) /\ pc # "sync" /\ Len(buf) = 0
    BY <1>8, <2>1 DEF Manifests
  <2>3. L = data
    <3>1. CASE Dir.m.incr = <<>>
      BY <1>3, <2>1, <3>1
    <3>2. CASE SameFiles(Dir.m, am)
      BY <2>1, <3>2, HeldInodes, LogSame DEF L
    <3> QED BY <2>2, <3>1, <3>2
  <2>4. IsPrefix(L, data)
    <3>1. L \o <<>> = L /\ IsPrefix(L, L \o <<>>)
      BY <1>1, EmptyWord, ConcatWord
    <3> QED BY <2>3, <3>1
  <2>5. Dir.m.incr # <<>> => fd = i /\ fd # None
    <3>1. ASSUME Dir.m.incr # <<>> PROVE fd = i /\ fd # None
      <4>1. Newest(Dir.m) = Newest(am)
        BY <2>2, <3>1, SameNames
      <4> QED BY <1>4, <2>2, <3>1, <4>1, NoneAssumption
    <3> QED BY <3>1
  <2>6. Power /\ Dir.m.incr # <<>> => Len(cont[i]) - synced[i] = Lag
    BY <2>5 DEF Lag
  <2>7. Power => \A f \in Older(Dir.m) : Intact(Dir.ent[f])
    <3> SUFFICES ASSUME Power, NEW f \in Older(Dir.m) PROVE Intact(Dir.ent[f])
      OBVIOUS
    <3>1. Dir.m.incr # <<>> /\ Dir.ent[f] # i
      BY <1>3 DEF Disk, Held
    <3> QED BY <1>5, <2>5, <3>1 DEF Synced
  <2> QED BY <1>1, <1>2, <1>3, <2>1, <2>2, <2>3, <2>4, <2>6, <2>7
<1>9. Going \/ pc = "boot" \/ pc = "bootp"
  BY DEF Going, Running, Control
<1> QED BY <1>6, <1>7, <1>8, <1>9

LEMMA PrefixTransitive ==
  ASSUME NEW r \in Words, NEW s \in Words, NEW t \in Words, IsPrefix(r, s), IsPrefix(s, t)
  PROVE  IsPrefix(r, t)
<1>1. Len(r) \in Nat /\ Len(s) \in Nat /\ Len(t) \in Nat
  BY WordIs
<1>2. /\ Len(r) <= Len(s) /\ \A i \in 1 .. Len(r) : r[i] = s[i]
      /\ Len(s) <= Len(t) /\ \A i \in 1 .. Len(s) : s[i] = t[i]
  BY PrefixIs
<1>3. Len(r) <= Len(t) /\ \A i \in 1 .. Len(r) : r[i] = t[i]
  BY <1>1, <1>2
<1> QED BY <1>3, PrefixIs

LEMMA CrashDirectory ==
  ASSUME Flow, Memory, Directories, Files, Disk, Crash
  PROVE  \E j \in DOMAIN dirs :
            /\ dirs' = <<dirs[j]>> /\ Dir' = dirs[j] /\ DOMAIN dirs' = {1} /\ dirs'[1] = dirs[j]
            /\ \/ ~Power /\ cont' = cont /\ synced' = synced
               \/ Power /\ \A i \in Inodes :
                     /\ synced'[i] = Len(cont'[i])
                     /\ (\E f \in DOMAIN dirs[j].ent : dirs[j].ent[f] = i) => cont'[i] \in Survivals(i)
<1>1. \A d : Last(<<d>>) = d /\ DOMAIN <<d>> = {1} /\ <<d>>[1] = d
  BY DEF Last
<1>2. CASE mode.failure = "process"
  <2>1. dirs' = <<Dir>> /\ cont' = cont /\ synced' = synced /\ ~Power
    BY <1>2 DEF Crash, Power
  <2>2. Len(dirs) \in DOMAIN dirs /\ Dir = dirs[Len(dirs)] /\ Dir' = Dir
    BY <1>1, <2>1, DirIs DEF Dir
  <2> QED BY <1>1, <2>1, <2>2
<1>3. CASE mode.failure # "process"
  <2>1. PICK d \in Range(dirs) : \E left \in [Range(d.ent) -> UNION {Survivals(i) : i \in Range(d.ent)}] :
               /\ \A i \in Range(d.ent) : left[i] \in Survivals(i)
               /\ dirs' = <<d>>
               /\ cont' = [i \in Inodes |-> IF i \in Range(d.ent) THEN left[i] ELSE <<>>]
               /\ synced' = [i \in Inodes |-> Len(cont'[i])]
    BY <1>3 DEF Crash
  <2>2. PICK left \in [Range(d.ent) -> UNION {Survivals(i) : i \in Range(d.ent)}] :
               /\ \A i \in Range(d.ent) : left[i] \in Survivals(i)
               /\ dirs' = <<d>>
               /\ cont' = [i \in Inodes |-> IF i \in Range(d.ent) THEN left[i] ELSE <<>>]
               /\ synced' = [i \in Inodes |-> Len(cont'[i])]
    BY <2>1
  <2>3. PICK j \in DOMAIN dirs : d = dirs[j]
    BY DEF Range
  <2>4. Dir' = d /\ DOMAIN dirs' = {1} /\ dirs'[1] = d
    BY <1>1, <2>2 DEF Dir
  <2>5. \A i \in Inodes : /\ synced'[i] = Len(cont'[i])
                          /\ (\E f \in DOMAIN d.ent : d.ent[f] = i) => cont'[i] \in Survivals(i)
    BY <2>2 DEF Range
  <2>6. Power
    BY <1>3, ModesAssumption DEF Flow, ModeType, Power
  <2> QED BY <2>2, <2>3, <2>4, <2>5, <2>6
<1> QED BY <1>2, <1>3

(* A failure leaves a prefix of L that is no shorter than what is safe.    *)
LEMMA CrashCore ==
  ASSUME Sturdy, Flow, Counts, Memory, Directories, Files, Control, Disk, Manifests,
         FirstStart, Prepared, Synced, Contents, Bounds,
         Flow', Counts', Memory', Directories', Files', Control', Crash
  PROVE  Core'
<1>0. /\ pc # "down" /\ pc' = "down" /\ fd' = None /\ child' = None /\ buf' = <<>> /\ bio' = <<>> /\ pending' = 0
      /\ UNCHANGED <<mode, data, st, am, fsynced, safe>>
  BY DEF Crash, Terminate
<1>1. PICK j \in DOMAIN dirs :
            /\ dirs' = <<dirs[j]>> /\ Dir' = dirs[j] /\ DOMAIN dirs' = {1} /\ dirs'[1] = dirs[j]
            /\ \/ ~Power /\ cont' = cont /\ synced' = synced
               \/ Power /\ \A i \in Inodes :
                     /\ synced'[i] = Len(cont'[i])
                     /\ (\E f \in DOMAIN dirs[j].ent : dirs[j].ent[f] = i) => cont'[i] \in Survivals(i)
  BY CrashDirectory
<1>2. /\ Dir'.m = Dir.m
      /\ \A f \in Names(Dir.m) : f \in DOMAIN Dir'.ent /\ Dir'.ent[f] = Dir.ent[f]
  BY <1>1 DEF Disk
<1>3. Listed(Dir.m) /\ (\A f \in Names(Dir.m) : f \in DOMAIN Dir.ent /\ Dir.ent[f] \in Inodes /\ cont[Dir.ent[f]] \in Words)
      /\ Older(Dir.m) \subseteq Names(Dir.m) /\ (Dir.m.incr # <<>> => Newest(Dir.m) \in Names(Dir.m))
  BY <1>0, HeldInodes, NamesAre DEF Files
<1>4. Disk'
  <2>1. Held(Dir'.m, Dir'.ent)
    <3>1. \A f \in Older(Dir.m) : Dir'.ent[f] # Dir'.ent[Newest(Dir.m)]
      <4>1. CASE Dir.m.incr = <<>>
        BY <4>1 DEF Disk, Good, Older
      <4>2. CASE Dir.m.incr # <<>>
        BY <4>2, <1>2, <1>3 DEF Disk, Held
      <4> QED BY <4>1, <4>2
    <3> QED BY <1>2, <3>1 DEF Held
  <2> QED BY <1>1, <1>2, <2>1 DEF Disk
<1>5. Moved
  BY <1>2, <1>4 DEF Moved
<1>6. \A i \in Inodes : synced[i] \in Nat /\ synced[i] <= Len(cont[i]) /\ cont[i] \in Words
  BY <1>0 DEF Files
<1>7. ASSUME Power, NEW f \in DOMAIN dirs[j].ent, dirs[j].ent[f] \in Inodes
      PROVE  \E k \in synced[dirs[j].ent[f]] .. Len(cont[dirs[j].ent[f]]) :
               /\ Whole(cont'[dirs[j].ent[f]]) = SubSeq(cont[dirs[j].ent[f]], 1, k)
               /\ Intact(dirs[j].ent[f]) => cont'[dirs[j].ent[f]] = cont[dirs[j].ent[f]]
  <2> DEFINE i == dirs[j].ent[f]
  <2>1. i \in Inodes /\ cont'[i] \in Survivals(i)
    BY <1>1, <1>7
  <2> HIDE DEF i
  <2>2. \E k \in synced[i] .. Len(cont[i]) :
            /\ Whole(cont'[i]) = SubSeq(cont[i], 1, k)
            /\ synced[i] = Len(cont[i]) => cont'[i] = cont[i]
    BY <1>6, <2>1, SurvivalIs
  <2> QED BY <2>2 DEF i, Intact
<1>8. /\ L \in Words /\ IsPrefix(L, data) /\ safe <= Len(L)
      /\ Engaged => Len(L) + Len(buf) = Len(data)
      /\ ~Engaged => safe = 0
      /\ Power => \A f \in Older(Dir.m) : Intact(Dir.ent[f])
      /\ Power /\ Dir.m.incr # <<>> /\ Engaged => Len(cont[Dir.ent[Newest(Dir.m)]]) - synced[Dir.ent[Newest(Dir.m)]] = Lag
      /\ Power /\ Dir.m.incr # <<>> /\ ~Engaged => Intact(Dir.ent[Newest(Dir.m)])
      /\ Dir.m.incr = <<>> => Dir.m.base = 0 /\ L = <<>>
  BY <1>0, Standing
<1>9. \A f \in Older(Dir.m) : cont'[Dir.ent[f]] = cont[Dir.ent[f]]
  <2> TAKE f \in Older(Dir.m)
  <2>1. CASE ~Power
    BY <1>1, <2>1
  <2>2. CASE Power
    <3>1. Intact(Dir.ent[f]) /\ f \in DOMAIN dirs[j].ent /\ dirs[j].ent[f] = Dir.ent[f] /\ Dir.ent[f] \in Inodes
      BY <1>1, <1>2, <1>3, <1>8, <2>2
    <3> QED BY <1>7, <2>2, <3>1
  <2> QED BY <2>1, <2>2
<1>10. L' \in Words /\ IsPrefix(L', L) /\ safe <= Len(L')
  <2>1. CASE ~Power \/ Dir.m.incr = <<>>
    <3>1. \A f \in Names(Dir.m) : cont'[Dir.ent[f]] = cont[Dir.ent[f]]
      <4>1. CASE Dir.m.incr = <<>>
        BY <4>1, <1>8 DEF Names
      <4>2. CASE ~Power
        BY <4>2, <1>1
      <4> QED BY <2>1, <4>1, <4>2
    <3>2. L' = L
      BY <1>5, <3>1, MovedLog
    <3>3. IsPrefix(L, L)
      <4>1. L \o <<>> = L /\ IsPrefix(L, L \o <<>>)
        BY <1>8, EmptyWord, ConcatWord
      <4> QED BY <4>1
    <3> QED BY <1>8, <3>2, <3>3
  <2>2. CASE Power /\ Dir.m.incr # <<>>
    <3> DEFINE i == Dir.ent[Newest(Dir.m)]
    <3>0. i \in Inodes /\ Newest(Dir.m) \in DOMAIN dirs[j].ent /\ dirs[j].ent[Newest(Dir.m)] = i
      BY <1>1, <1>2, <1>3, <2>2
    <3>1. PICK k \in synced[i] .. Len(cont[i]) :
               /\ Whole(cont'[i]) = SubSeq(cont[i], 1, k)
               /\ Intact(i) => cont'[i] = cont[i]
      BY <1>7, <2>2, <3>0
    <3>2. synced[i] \in Nat /\ Len(cont[i]) \in Nat /\ k \in Nat /\ k <= Len(cont[i]) /\ k >= synced[i]
      BY <1>6, <3>0, <3>1, WordIs
    <3>3. Shorn(cont[Dir.ent[Newest(Dir.m)]], k, cont'[Dir.ent[Newest(Dir.m)]])
      BY <3>1, <3>2 DEF Shorn
    <3>4. /\ Log(Dir.m, Dir.ent, cont') \in Words
          /\ IsPrefix(Log(Dir.m, Dir.ent, cont'), Log(Dir.m, Dir.ent, cont))
          /\ Len(Log(Dir.m, Dir.ent, cont')) = Len(Log(Dir.m, Dir.ent, cont)) - Len(cont[Dir.ent[Newest(Dir.m)]]) + k
      <4>1. k \in Nat
        BY <3>2
      <4>2. Cropped(Log(Dir.m, Dir.ent, cont), cont[Dir.ent[Newest(Dir.m)]], k, Log(Dir.m, Dir.ent, cont'))
        BY <1>3, <1>9, <2>2, <3>3, <4>1, LogCut
      <4> QED BY <4>2 DEF Cropped
    <3>5. L' = Log(Dir.m, Dir.ent, cont')
      <4>1. \A f \in Names(Dir.m) : Whole(cont'[Dir.ent[f]]) = Whole(cont'[Dir'.ent[f]])
        BY <1>2
      <4>2. SameFiles(Dir.m, Dir'.m)
        BY <1>2 DEF SameFiles
      <4>3. Log(Dir.m, Dir.ent, cont') = Log(Dir'.m, Dir'.ent, cont')
        BY <1>3, <4>1, <4>2, LogSame
      <4> QED BY <4>3 DEF L
    <3>6. L' \in Words /\ IsPrefix(L', L) /\ Len(L') = Len(L) - Len(cont[i]) + k /\ Len(L) \in Nat /\ Len(L') \in Nat
      BY <1>8, <3>4, <3>5, WordIs DEF L
    <3>7. safe <= Len(L')
      <4>1. safe \in Nat /\ safe + Lag + Len(buf) <= Len(data) /\ Lag \in Nat /\ Len(buf) \in Nat /\ Len(data) \in Nat
        BY <1>0, BoundsNat DEF Bounds
      <4>2. CASE ~Engaged
        BY <4>2, <1>8, <3>6
      <4>3. CASE Engaged
        <5>1. Len(cont[i]) - synced[i] = Lag /\ Len(L) + Len(buf) = Len(data)
          BY <4>3, <1>8, <2>2
        <5> HIDE DEF i
        <5> QED BY SMTT(30), <3>2, <3>6, <4>1, <5>1
      <4> QED BY <4>2, <4>3
    <3> QED BY <3>6, <3>7
  <2> QED BY <2>1, <2>2
<1>11. Manifests' /\ Prepared'
  BY <1>0 DEF Manifests, Prepared, Running
<1>12. FirstStart'
  <2> SUFFICES ASSUME Dir'.m.incr = <<>>, NEW k \in DOMAIN dirs', Incr(1) \in DOMAIN dirs'[k].ent
               PROVE  cont'[dirs'[k].ent[Incr(1)]] = <<>>
    BY DEF FirstStart
  <2>1. dirs'[k] = dirs[j] /\ cont[dirs[j].ent[Incr(1)]] = <<>>
    BY <1>1, <1>2 DEF FirstStart
  <2>2. CASE ~Power
    BY <1>1, <2>1, <2>2
  <2>3. CASE Power
    <3>1. dirs[j].ent[Incr(1)] \in Inodes
      <4>1. dirs[j] \in Directory
        BY DEF Directories
      <4> QED BY <2>1, <4>1, DirectoryIs
    <3>2. Intact(dirs[j].ent[Incr(1)])
      <4>1. synced[dirs[j].ent[Incr(1)]] \in Nat /\ synced[dirs[j].ent[Incr(1)]] <= Len(cont[dirs[j].ent[Incr(1)]])
        BY <1>6, <3>1
      <4> QED BY <2>1, <4>1 DEF Intact
    <3> QED BY <1>7, <2>1, <2>3, <3>1, <3>2
  <2> QED BY <2>2, <2>3
<1>13. Synced'
  <2>1. Power' = Power
    BY <1>0 DEF Power
  <2>2. \A f \in Names(Dir'.m) : Power => synced'[Dir'.ent[f]] = Len(cont'[Dir'.ent[f]])
    BY <1>1, <1>2, <1>3
  <2> QED BY <1>0, <2>1, <2>2 DEF Synced, Intact
<1>14. Contents'
  <2>1. \A f \in Older(Dir'.m) : ~IsTorn(cont'[Dir'.ent[f]])
    <3>1. \A f \in Older(Dir.m) : cont'[Dir'.ent[f]] \in Words
      BY <1>2, <1>3, <1>9
    <3> QED BY <1>2, <3>1, WordIs
  <2>2. IsPrefix(L', data')
    <3>1. data \in Words /\ L \in Words /\ L' \in Words /\ IsPrefix(L', L) /\ IsPrefix(L, data)
      BY <1>8, <1>10 DEF Memory
    <3> QED BY <1>0, <3>1, PrefixTransitive
  <2> QED BY <1>0, <2>1, <2>2 DEF Contents, Running
<1>15. Bounds'
  BY <1>0, <1>10 DEF Bounds, Running
<1> QED BY <1>4, <1>11, <1>12, <1>13, <1>14, <1>15 DEF Core

LEMMA LoadAppendOnlyFilesCore ==
  ASSUME Sturdy, Flow, Counts, Memory, Directories, Files, Control, Disk, Manifests,
         FirstStart, Prepared, Synced, Contents, Bounds,
         Flow', Counts', Memory', Directories', Files', Control', LoadAppendOnlyFiles
  PROVE  Core'
<1>0. /\ pc = "down" /\ pc' = "boot" /\ data' = Loaded(Dir, cont) /\ st' = "on" /\ fsynced' = 0
      /\ am' = AofLoadManifestFromDisk(Dir.m)
      /\ cont' = [i \in Inodes |-> Whole(cont[i])]
      /\ synced' = [i \in Inodes |-> IF Whole(cont[i]) = cont[i] THEN synced[i] ELSE Len(cont'[i])]
      /\ UNCHANGED <<mode, buf, fd, tm, dirs, bio, child, ret, pending, safe>>
  BY DownIsLoadable DEF LoadAppendOnlyFiles
<1>1. fd = None /\ child = None /\ buf = <<>> /\ bio = <<>> /\ pending = 0
  BY <1>0 DEF Control
<1>2. Moved /\ Dir' = Dir /\ Disk'
  BY <1>0, Unmoved DEF Moved
<1>3. \A f \in Names(Dir.m) : Dir.ent[f] \in Inodes /\ Dir.ent[f] # None
  BY HeldInodes, NoneAssumption
<1>4. \A i \in Inodes : cont'[i] = Whole(cont[i]) /\ Whole(cont'[i]) = Whole(cont[i])
  <2> TAKE i \in Inodes
  <2>1. Whole(cont[i]) \in Words /\ cont'[i] = Whole(cont[i])
    BY <1>0 DEF Files
  <2> QED BY <2>1, WordIs
<1>5. L' = L /\ data' = L /\ L \in Words
  <2>1. \A f \in Names(Dir.m) : Whole(cont[Dir.ent[f]]) = Whole(cont'[Dir'.ent[f]])
    BY <1>2, <1>3, <1>4
  <2>2. Listed(Dir.m) /\ SameFiles(Dir.m, Dir'.m) /\ L \in Words
    BY <1>2, HeldInodes DEF SameFiles
  <2>3. Log(Dir.m, Dir.ent, cont) = Log(Dir'.m, Dir'.ent, cont')
    BY <2>1, <2>2, LogSame
  <2>4. data' = Log(Dir.m, Dir.ent, cont)
    BY <1>0, LoadedIsLog
  <2> QED BY <2>2, <2>3, <2>4 DEF L
<1>6. Manifests'
  <2>1. Good(am') /\ Counted(am')
    BY <1>0, DirIs, LoadManifestIs DEF Disk
  <2> QED BY <1>0, <1>2, <2>1 DEF Manifests, Running
<1>7. FirstStart'
  <2> SUFFICES ASSUME Dir'.m.incr = <<>>, NEW k \in DOMAIN dirs', Incr(1) \in DOMAIN dirs'[k].ent
               PROVE  cont'[dirs'[k].ent[Incr(1)]] = <<>>
    BY DEF FirstStart
  <2>1. k \in DOMAIN dirs /\ Incr(1) \in DOMAIN dirs[k].ent /\ cont[dirs[k].ent[Incr(1)]] = <<>> /\ dirs' = dirs
    BY <1>0, <1>2 DEF FirstStart
  <2>2. dirs[k].ent[Incr(1)] \in Inodes
    <3>1. dirs[k] \in Directory
      BY <2>1 DEF Directories
    <3> QED BY <2>1, <3>1, DirectoryIs
  <2> QED BY <1>4, <2>1, <2>2, EmptyWord
<1>8. Prepared'
  BY <1>0, <1>1 DEF Prepared
<1>9. Synced'
  <2>1. Power' = Power
    BY <1>0 DEF Power
  <2>2. ASSUME Power, NEW f \in Names(Dir.m) PROVE synced'[Dir.ent[f]] = Len(cont'[Dir.ent[f]])
    <3>1. synced[Dir.ent[f]] = Len(cont[Dir.ent[f]]) /\ Dir.ent[f] \in Inodes
      BY <1>1, <1>3, <2>2 DEF Synced, Intact
    <3> QED BY <1>0, <1>4, <3>1
  <2> QED BY <1>0, <1>1, <1>2, <2>1, <2>2 DEF Synced, Intact
<1>10. Contents'
  BY <1>0, <1>1, <1>5 DEF Contents, Running
<1>11. Bounds'
  <2>1. Lag' = 0 /\ Len(buf') = 0 /\ Len(data') = Len(L) /\ Len(L) \in Nat
    BY <1>0, <1>1, <1>5, WordIs DEF Lag
  <2>2. safe' \in Nat /\ safe' <= Len(L)
    BY <1>0 DEF Bounds
  <2> QED BY <1>0, <1>1, <2>1, <2>2 DEF Bounds, Running
<1> QED BY <1>2, <1>6, <1>7, <1>8, <1>9, <1>10, <1>11 DEF Core

(* The start opens the last file again, or creates the first two.          *)
LEMMA OpenOnServerStartCore ==
  ASSUME Sturdy, Flow, Counts, Memory, Directories, Files, Control, Disk, Manifests,
         FirstStart, Prepared, Synced, Contents, Bounds,
         Flow', Counts', Memory', Directories', Files', Control', OpenOnServerStart
  PROVE  Core'
<1>0. /\ pc = "boot" /\ pc' = "bootp"
      /\ UNCHANGED <<mode, data, buf, st, tm, bio, child, ret, pending, fsynced, safe>>
  BY DEF OpenOnServerStart
<1>1. /\ fd = None /\ child = None /\ buf = <<>> /\ bio = <<>> /\ pending = 0 /\ st = "on" /\ fsynced = 0
      /\ Running' /\ Engaged' /\ am = AofLoadManifestFromDisk(Dir.m) /\ L = data
  BY <1>0 DEF Control, Running, Engaged, Manifests, Contents
<1>2. SameFiles(Dir.m, am) /\ am \in Manifest /\ Good(am) /\ Counted(am) /\ Listed(am)
  BY <1>1, DirIs, LoadManifestIs, ManifestIs DEF Directories, Manifests
<1>3. Prepared'
  BY <1>0, <1>1 DEF Prepared
<1>4. ASSUME Lag' = 0 PROVE Bounds'
  <2>1. Len(data) \in Nat /\ Len(buf) = 0 /\ Lag = 0
    BY <1>1, BoundsNat DEF Lag
  <2>2. safe \in Nat /\ safe + Lag + Len(buf) <= Len(data)
    BY <1>0 DEF Bounds
  <2> QED BY <1>0, <1>1, <1>4, <2>1, <2>2 DEF Bounds
<1>5. \A f \in Names(Dir.m) : f \in DOMAIN Dir.ent /\ Dir.ent[f] \in Inodes /\ (Power => Intact(Dir.ent[f]))
  BY <1>1, HeldInodes, NoneAssumption DEF Synced
<1>6. Power' = Power
  BY <1>0 DEF Power
<1>7. CASE am.incr # <<>>
  <2>1. /\ Change(Dir.ent) /\ am' = am /\ fd' = Dir.ent[Newest(am)] /\ fd' \in Inodes
        /\ cont' = cont /\ synced' = synced
    BY <1>7, OpenAgain
  <2>2. Moved /\ Dir'.ent = Dir.ent /\ Dir' = [ent |-> Dir.ent, m |-> Dir.m] /\ Disk'
    <3>1. Dir.ent \in Ent
      BY DirIs
    <3> QED BY <1>5, <2>1, <3>1, DiskChange DEF Moved
  <2>3. Names(Dir.m) = Names(am) /\ Older(Dir.m) = Older(am) /\ Newest(Dir.m) = Newest(am) /\ Dir.m.incr # <<>> /\ Newest(am) \in Names(am)
    BY <1>2, <1>7, SameNames, NamesAre DEF SameFiles
  <2>4. Dir'.m = Dir.m
    BY <2>2 DEF Moved
  <2>5. Manifests'
    <3>1. Held(am, Dir.ent)
      BY <2>3 DEF Disk, Held
    <3> QED BY <1>0, <1>1, <1>2, <1>7, <2>1, <2>2, <2>4, <3>1 DEF Manifests, Running
  <2>6. FirstStart'
    BY <2>3, <2>4 DEF FirstStart
  <2>7. Power => synced'[fd'] = Len(cont'[fd'])
    BY <1>5, <2>1, <2>3 DEF Intact
  <2>8. Synced' /\ Lag' = 0
    <3>1. Synced'
      BY <1>5, <1>6, <2>1, <2>2, <2>3, <2>4, <2>7 DEF Synced, Intact
    <3>2. synced'[fd'] \in Nat
      BY <2>1 DEF Files
    <3> QED BY <1>6, <2>7, <3>1, <3>2 DEF Lag
  <2>9. Contents'
    <3>1. Log(am, Dir.ent, cont) = L
      <4>1. SameFiles(am, Dir.m)
        BY <1>2 DEF SameFiles
      <4> QED BY <1>2, <4>1, LogSame DEF L
    <3>2. Log(am', Dir'.ent, cont') = data'
      BY <1>0, <1>1, <2>1, <2>2, <3>1
    <3> QED BY <1>0, <1>1, <2>3, <2>4, <3>2 DEF Contents
  <2> QED BY <1>3, <1>4, <2>2, <2>5, <2>6, <2>8, <2>9 DEF Core
<1>8. CASE am.incr = <<>>
  <2>1. PICK e \in Ent :
         /\ Change(e) /\ am' = FirstManifest
         /\ NewInode \in Free /\ fd' \in Inodes /\ fd' # NewInode
         /\ Base(1) \in DOMAIN e /\ e[Base(1)] = NewInode
         /\ Incr(1) \in DOMAIN e /\ e[Incr(1)] = fd'
         /\ cont'[NewInode] = data /\ synced'[NewInode] = Len(data)
         /\ cont'[fd'] = <<>>
         /\ \A i \in Inodes \ {NewInode} : /\ \/ cont'[i] = cont[i] /\ synced'[i] = synced[i]
                                              \/ cont'[i] = <<>> /\ synced'[i] = 0
    BY <1>8, OpenFirst
  <2>2. Dir.m.incr = <<>> /\ Dir.m.base = 0 /\ Names(Dir.m) = {}
    <3>1. Dir.m.incr = <<>> /\ Dir.m.base = 0
      BY <1>2, <1>8 DEF SameFiles, Good
    <3> QED BY <3>1 DEF Names
  <2>3. data = <<>>
    BY <1>1, <2>2, LogEmpty DEF L
  <2>4. Moved /\ Dir'.ent = e /\ Disk' /\ Dir'.m = Dir.m
    BY <2>1, <2>2, DiskChange DEF Moved
  <2>5. /\ FirstManifest \in Manifest /\ Good(FirstManifest) /\ Counted(FirstManifest)
        /\ FirstManifest.base = 1 /\ FirstManifest.incr = <<1>> /\ FirstManifest.incr # <<>>
        /\ Newest(FirstManifest) = Incr(1) /\ Older(FirstManifest) = {Base(1)}
        /\ Names(FirstManifest) = {Base(1), Incr(1)} /\ Incr(1) # Base(1)
    BY FirstManifestIs
  <2>6. Manifests'
    <3>1. Held(am', Dir'.ent)
      BY <2>1, <2>4, <2>5 DEF Held
    <3>2. fd' = Dir'.ent[Newest(am')]
      BY <2>1, <2>4, <2>5
    <3>3. Good(am') /\ Counted(am') /\ am'.incr # <<>> /\ Dir'.m.incr = <<>>
      BY <2>1, <2>2, <2>4, <2>5
    <3> QED BY <1>0, <1>1, <3>1, <3>2, <3>3 DEF Manifests, Running
  <2>7. FirstStart'
    <3> SUFFICES ASSUME NEW k \in DOMAIN dirs', Incr(1) \in DOMAIN dirs'[k].ent
                 PROVE  cont'[dirs'[k].ent[Incr(1)]] = <<>>
      BY DEF FirstStart
    <3>1. /\ DOMAIN dirs' = DOMAIN dirs \cup {Len(dirs) + 1}
          /\ \A i \in DOMAIN dirs : dirs'[i] = dirs[i]
          /\ dirs'[Len(dirs) + 1] = Dir'
      BY <2>1, ChangeIs
    <3>2. CASE k \in DOMAIN dirs
      <4> DEFINE i == dirs[k].ent[Incr(1)]
      <4>1. dirs'[k] = dirs[k] /\ Incr(1) \in DOMAIN dirs[k].ent /\ cont[i] = <<>>
        BY <3>1, <3>2, <2>2 DEF FirstStart
      <4>2. i \in Inodes
        <5>1. dirs[k] \in Directory
          BY <3>2 DEF Directories
        <5> QED BY <4>1, <5>1, DirectoryIs
      <4>3. i # NewInode
        BY <2>1, <3>2, <4>1, FreshInode
      <4> HIDE DEF i
      <4>4. cont'[i] = <<>>
        BY <2>1, <4>1, <4>2, <4>3
      <4> QED BY <4>1, <4>4 DEF i
    <3>3. CASE k = Len(dirs) + 1
      BY <3>1, <3>3, <2>1, <2>4
    <3> QED BY <3>1, <3>2, <3>3
  <2>8. NewInode \in Inodes /\ synced'[fd'] = 0 /\ Len(cont'[fd']) = 0
    <3>1. NewInode \in Inodes
      BY <2>1 DEF Free
    <3>2. synced'[fd'] \in Nat /\ synced'[fd'] <= Len(cont'[fd'])
      BY <2>1 DEF Files
    <3> QED BY <2>1, <3>1, <3>2
  <2>9. Synced' /\ Lag' = 0
    <3>1. \A f \in Names(am') : synced'[Dir'.ent[f]] = Len(cont'[Dir'.ent[f]])
      BY <2>1, <2>4, <2>5, <2>8
    <3>2. \A f \in Names(Dir'.m) : FALSE
      BY <2>2, <2>4
    <3>3. Synced'
      BY <2>8, <3>1, <3>2 DEF Synced, Intact
    <3> QED BY <2>8, <3>3 DEF Lag
  <2>10. Contents'
    <3> DEFINE m == FirstManifest
               q == Prior(m)
               c == cont'
    <3>1. Listed(m) /\ \A f \in Names(m) : Whole(c[e[f]]) \in Words /\ Whole(c[e[f]]) = <<>>
      BY <2>1, <2>3, <2>5, ManifestIs, EmptyWord
    <3>2. q.base = 1 /\ q.incr = <<>>
      <4>1. Len(m.incr) = 1 /\ m.incr \in Seq(Nat)
        BY <2>5, <3>1 DEF Listed
      <4>2. SubSeq(m.incr, 1, 0) = <<>>
        <5> HIDE DEF m
        <5> QED BY <4>1
      <4> QED BY <2>5, <4>1, <4>2 DEF Prior
    <3>3. Log(m, e, c) = Log(q, e, c) \o Whole(c[e[Newest(m)]])
      BY <2>5, <3>1, LogLast
    <3>4. Log(q, e, c) = Whole(c[e[Base(q.base)]])
      <4>1. q.base \in Nat \ {0}
        BY <3>2
      <4>2. Whole(c[e[Base(q.base)]]) \in Seq(1 .. MaxWrites)
        BY <2>5, <3>1, <3>2 DEF Words
      <4> HIDE DEF q, c
      <4> QED BY <4>1, <4>2, <3>2, LogOne
    <3>5. Whole(c[e[Base(q.base)]]) = <<>> /\ Whole(c[e[Newest(m)]]) = <<>>
      BY <2>5, <3>1, <3>2
    <3>6. Log(m, e, c) = <<>>
      <4>1. <<>> \o <<>> = <<>>
        BY EmptyWord, ConcatWord
      <4> QED BY <3>3, <3>4, <3>5, <4>1
    <3>7. Log(am', Dir'.ent, cont') = data'
      BY <1>0, <2>1, <2>3, <2>4, <3>6
    <3> QED BY <1>0, <1>1, <2>3, <3>7 DEF Contents
  <2> QED BY <1>3, <1>4, <2>4, <2>6, <2>7, <2>9, <2>10 DEF Core
<1> QED BY <1>7, <1>8

LEMMA PersistOnServerStartCore ==
  ASSUME Sturdy, Flow, Counts, Memory, Directories, Files, Control, Disk, Manifests,
         FirstStart, Prepared, Synced, Contents, Bounds,
         Flow', Counts', Memory', Directories', Files', Control', PersistOnServerStart
  PROVE  Core'
<1>0. /\ pc = "bootp" /\ pc' = "hist"
      /\ IF Dir.m = OnDisk(am) THEN UNCHANGED dirs ELSE PersistAofManifest(am)
      /\ UNCHANGED <<mode, data, buf, st, fd, am, tm, cont, synced, bio, child, ret, pending, fsynced, safe>>
  BY DEF PersistOnServerStart, offs
<1>1. /\ child = None /\ buf = <<>> /\ st = "on" /\ Running /\ Engaged /\ Running' /\ Engaged'
  BY <1>0 DEF Control, Running, Engaged
<1>2. Good(am) /\ Counted(am) /\ am.incr # <<>> /\ Held(am, Dir.ent) /\ fd = Dir.ent[Newest(am)] /\ Log(am, Dir.ent, cont) = data
  BY <1>0, <1>1 DEF Manifests, Contents
<1>3. Disk' /\ Dir'.ent = Dir.ent /\ SameFiles(Dir'.m, am)
  <2>1. Dir.m = OnDisk(am) => SameFiles(Dir.m, am)
    BY OnDiskIs DEF Directories
  <2> QED BY <1>0, <1>2, <2>1, Settled
<1>4. Names(Dir'.m) = Names(am) /\ Dir'.m.incr # <<>>
  BY <1>2, <1>3, SameNames DEF SameFiles
<1>5. Manifests' /\ FirstStart' /\ Prepared'
  BY <1>0, <1>1, <1>2, <1>3, <1>4 DEF Manifests, FirstStart, Prepared, Running
<1>6. Power' = Power /\ Lag' = Lag
  BY <1>0 DEF Power, Lag
<1>7. Synced'
  BY <1>0, <1>3, <1>4, <1>6 DEF Synced, Intact
<1>8. Contents'
  <2>1. Listed(am) /\ SameFiles(am, Dir'.m)
    BY <1>3, ManifestIs DEF Directories, SameFiles
  <2>2. \A f \in Names(am) : Whole(cont[Dir.ent[f]]) = Whole(cont'[Dir'.ent[f]])
    BY <1>0, <1>3
  <2>3. Log(am, Dir.ent, cont) = Log(Dir'.m, Dir'.ent, cont')
    BY <2>1, <2>2, LogSame
  <2>4. data \o <<>> = data
    BY EmptyWord, ConcatWord DEF Memory
  <2>5. L' \o buf' = data'
    BY <1>0, <1>1, <1>2, <2>3, <2>4 DEF L
  <2> QED BY <1>0, <1>1, <2>5 DEF Contents
<1>9. Bounds'
  BY <1>0, <1>1, <1>6 DEF Bounds
<1> QED BY <1>3, <1>5, <1>7, <1>8, <1>9 DEF Core

-------------------------------------------------------------------------------
(* The invariant holds initially and every step preserves it.              *)

Inv == Flow /\ Counts /\ Memory /\ Directories /\ Files /\ Control /\ Core

LEMMA InitInv ==
  ASSUME Init
  PROVE  Inv
<1> DEFINE d == [ent |-> <<>>, m |-> NoManifest]
<1>1. /\ mode \in Modes /\ data = <<>> /\ buf = <<>> /\ st = "on" /\ fd = None
      /\ am = AofLoadManifestFromDisk(NoManifest) /\ dirs = <<d>> /\ cont = [i \in Inodes |-> <<>>]
      /\ synced = [i \in Inodes |-> 0] /\ bio = <<>> /\ child = None /\ pc = "down" /\ ret = "reply"
      /\ pending = 0 /\ fsynced = 0 /\ sched = FALSE /\ safe = 0 /\ n = 0
  BY DEF Init
<1>2. NoManifest \in Numbered /\ NoManifest.base = 0 /\ NoManifest.incr = <<>> /\ NoManifest.hist = {}
  BY DEF NoManifest, Numbered
<1>3. am \in Manifest /\ Good(NoManifest) /\ Good(am) /\ Counted(am)
  <2>1. Good(NoManifest)
    BY <1>2 DEF Good, Sorted
  <2> QED BY <1>1, <1>2, <2>1, LoadManifestIs
<1>4. d \in Directory /\ d.ent = <<>> /\ d.m = NoManifest /\ DOMAIN d.ent = {}
  <2>1. <<>> \in Ent
    <3>1. DOMAIN <<>> = {} /\ <<>> \in [{} -> Inodes]
      OBVIOUS
    <3> QED BY <3>1, EntIs
  <2> QED BY <1>2, <2>1 DEF Directory
<1> HIDE DEF d
<1>5. Dir = d /\ DOMAIN dirs = {1} /\ dirs[1] = d /\ dirs \in Seq(Directory) /\ dirs # <<>>
  BY <1>1, <1>4 DEF Dir, Last
<1>6. \A i \in Inodes : cont[i] = <<>> /\ synced[i] = 0
  BY <1>1
<1>7. Names(Dir.m) = {} /\ Older(Dir.m) = {}
  BY <1>2, <1>4, <1>5 DEF Names, Older
<1>8. L = <<>> /\ <<>> \in Words /\ Len(<<>>) = 0 /\ Whole(<<>>) = <<>> /\ <<>> \in Seq(0 .. MaxWrites)
  BY <1>2, <1>4, <1>5, LogEmpty, EmptyWord DEF L
<1>9. Flow /\ Counts
  <2>1. /\ mode \in Modes /\ st = "on" /\ pc = "down" /\ ret = "reply" /\ sched = FALSE /\ n = 0
        /\ pending = 0 /\ fsynced = 0 /\ safe = 0
    BY <1>1
  <2>2. sched \in BOOLEAN
    BY <2>1
  <2> QED BY <2>1, <2>2 DEF Flow, Counts, PCs
<1>10. Memory /\ Directories
  BY <1>1, <1>3, <1>5, <1>8 DEF Memory, Directories
<1>11. Files
  BY <1>1, <1>6, <1>8 DEF Files
<1>12. Control
  BY <1>1 DEF Control, Running
<1>13. Disk
  BY <1>3, <1>4, <1>5, <1>7 DEF Disk, Held
<1>14. Manifests /\ FirstStart /\ Prepared
  BY <1>1, <1>3, <1>4, <1>5 DEF Manifests, FirstStart, Prepared, Running
<1>15. Synced
  BY <1>1, <1>7 DEF Synced
<1>16. Contents
  <2>1. IsPrefix(L, data)
    <3>1. <<>> \o <<>> = <<>> /\ IsPrefix(<<>>, <<>> \o <<>>)
      BY <1>8, ConcatWord
    <3> QED BY <1>1, <1>8, <3>1
  <2> QED BY <1>1, <1>7, <2>1 DEF Contents, Running
<1>17. Bounds
  BY <1>1, <1>8 DEF Bounds, Running
<1> QED BY <1>9, <1>10, <1>11, <1>12, <1>13, <1>14, <1>15, <1>16, <1>17 DEF Inv, Core

LEMMA CoreStep ==
  ASSUME Sturdy, Inv, Next, Flow', Counts', Memory', Directories', Files', Control'
  PROVE  Core'
<1>0. /\ Flow /\ Counts /\ Memory /\ Directories /\ Files /\ Control /\ Disk /\ Manifests
      /\ FirstStart /\ Prepared /\ Synced /\ Contents /\ Bounds
  BY DEF Inv, Core
<1>1. CASE FeedAppendOnlyFile
  BY <1>0, <1>1, FeedAppendOnlyFileCore
<1>2. CASE BeforeSleep
  BY <1>0, <1>2, BeforeSleepCore
<1>3. CASE FlushPostpone
  BY <1>0, <1>3, FlushPostponeCore
<1>4. CASE FlushWrite
  BY <1>0, <1>4, FlushWriteCore
<1>5. CASE FlushError
  BY <1>0, <1>5, FlushErrorCore
<1>6. CASE FsyncAlways
  BY <1>0, <1>6, FsyncAlwaysCore
<1>7. CASE Reply
  BY <1>0, <1>7, ReplyCore
<1>8. CASE BioProcessBackgroundJob
  BY <1>0, <1>8, BioProcessBackgroundJobCore
<1>9. CASE ScheduledRewrite
  BY <1>0, <1>9, ScheduledRewriteCore
<1>10. CASE OpenNewIncrAofForAppend
  BY <1>0, <1>10, OpenNewIncrAofForAppendCore
<1>11. CASE PersistNewIncr
  BY <1>0, <1>11, PersistNewIncrCore
<1>12. CASE DrainBioFsync
  BY <1>0, <1>12, DrainBioFsyncCore
<1>13. CASE Fork
  BY <1>0, <1>13, ForkCore
<1>14. CASE ChildExits
  BY <1>0, <1>14, ChildExitsCore
<1>15. CASE ReapChild
  BY <1>0, <1>15, ReapChildCore
<1>16. CASE RenameBase
  BY <1>0, <1>16, RenameBaseCore
<1>17. CASE RenameIncr
  BY <1>0, <1>17, RenameIncrCore
<1>18. CASE PersistRewrite
  BY <1>0, <1>18, PersistRewriteCore
<1>19. CASE DelHistoryFiles
  BY <1>0, <1>19, DelHistoryFilesCore
<1>20. CASE RewriteDone
  BY <1>0, <1>20, RewriteDoneCore
<1>21. CASE StopAppendOnly
  BY <1>0, <1>21, StopAppendOnlyCore
<1>22. CASE AppendOnlyStopped
  BY <1>0, <1>22, AppendOnlyStoppedCore
<1>23. CASE PrepareForShutdown
  BY <1>0, <1>23, PrepareForShutdownCore
<1>24. CASE Exit
  BY <1>0, <1>24, ExitCore
<1>25. CASE Crash
  BY <1>0, <1>25, CrashCore
<1>26. CASE LoadAppendOnlyFiles
  BY <1>0, <1>26, LoadAppendOnlyFilesCore
<1>27. CASE OpenOnServerStart
  BY <1>0, <1>27, OpenOnServerStartCore
<1>28. CASE PersistOnServerStart
  BY <1>0, <1>28, PersistOnServerStartCore
<1>29. ASSUME NEW late \in BOOLEAN, FlushEmpty(late) PROVE Core'
  BY <1>0, <1>29, FlushEmptyCore
<1>30. ASSUME NEW late \in BOOLEAN, FsyncInBackground(late) PROVE Core'
  BY <1>0, <1>30, FsyncInBackgroundCore
<1>31. ASSUME NEW busy \in BOOLEAN, BgrewriteaofCommand(busy) PROVE Core'
  BY <1>0, <1>31, BgrewriteaofCommandCore
<1>32. ASSUME NEW busy \in BOOLEAN, StartAppendOnly(busy) PROVE Core'
  BY <1>0, <1>32, StartAppendOnlyCore
<1> QED
  BY <1>1, <1>2, <1>3, <1>4, <1>5, <1>6, <1>7, <1>8, <1>9, <1>10, <1>11,
     <1>12, <1>13, <1>14, <1>15, <1>16, <1>17, <1>18, <1>19, <1>20, <1>21,
     <1>22, <1>23, <1>24, <1>25, <1>26, <1>27, <1>28, <1>29, <1>30, <1>31,
     <1>32 DEF Next, Flush, Rewrite, Restart

LEMMA NextInv ==
  ASSUME Sturdy, Inv, Next
  PROVE  Inv'
<1>0. /\ Flow /\ Counts /\ Memory /\ Directories /\ Files /\ Control /\ Disk /\ Manifests
      /\ FirstStart /\ Prepared /\ Synced /\ Contents /\ Bounds
  BY DEF Inv, Core
<1>1. Flow'
  BY <1>0, FlowStep
<1>2. Counts'
  BY <1>0, CountsStep
<1>3. Memory'
  BY <1>0, MemoryStep
<1>4. Directories'
  BY <1>0, DirectoriesStep
<1>5. Files'
  BY <1>0, FilesStep
<1>6. Control'
  BY <1>0, ControlStep
<1>7. Core'
  BY <1>1, <1>2, <1>3, <1>4, <1>5, <1>6, CoreStep
<1> QED BY <1>1, <1>2, <1>3, <1>4, <1>5, <1>6, <1>7 DEF Inv

LEMMA StutterInv ==
  ASSUME Inv, UNCHANGED vars
  PROVE  Inv'
<1>0. /\ Flow /\ Counts /\ Memory /\ Directories /\ Files /\ Control /\ Disk /\ Manifests
      /\ FirstStart /\ Prepared /\ Synced /\ Contents /\ Bounds
  BY DEF Inv, Core
<1>1. UNCHANGED <<mode, data, buf, st, fd, am, tm, dirs, cont, synced, bio, child,
                  pc, ret, pending, fsynced, sched, safe, n>>
  BY DEF vars
<1>2. Flow' /\ Counts' /\ Memory' /\ Directories' /\ Files' /\ Control'
  BY <1>0, <1>1 DEF Flow, Counts, Memory, Directories, Files, Control, Running
<1>3. Dir' = Dir /\ Power' = Power /\ Lag' = Lag
  BY <1>1 DEF Dir, Power, Lag
<1>4. L' = L /\ (Engaged' <=> Engaged) /\ (Running' <=> Running)
  BY <1>1, <1>3 DEF L, Engaged, Running
<1>5. Disk' /\ Manifests' /\ FirstStart'
  BY <1>0, <1>1, <1>3, <1>4 DEF Disk, Manifests, FirstStart
<1>6. Prepared' /\ Synced'
  BY <1>0, <1>1, <1>3 DEF Prepared, Synced, Intact
<1>7. Contents' /\ Bounds'
  BY <1>0, <1>1, <1>3, <1>4 DEF Contents, Bounds
<1> QED BY <1>2, <1>5, <1>6, <1>7 DEF Inv, Core

(* The invariant: whenever the server runs, the files the manifest on disk *)
(* names, the file being written and the buffer add up to the dataset, and *)
(* what aof.c has promised or reported is in the synced part.              *)
THEOREM InvHolds ==
  ASSUME Sturdy
  PROVE  Spec => []Inv
<1>1. Init => Inv
  BY InitInv
<1>2. Inv /\ [Next]_vars => Inv'
  BY NextInv, StutterInv
<1> QED BY <1>1, <1>2, PTL DEF Spec

-------------------------------------------------------------------------------
(* What follows from the invariant.                                        *)

(* The server never refuses to start: whatever state a failure leaves on   *)
(* disk, the files the manifest names are there, and only the last of them *)
(* may be cut short (loadAppendOnlyFiles()).                               *)
THEOREM NeverRefuses ==
  ASSUME Sturdy
  PROVE  Spec => []NeverRefusesToStart
<1>1. Inv => NeverRefusesToStart
  BY DEF Inv, Control, NeverRefusesToStart
<1> QED BY <1>1, InvHolds, PTL

(* A prefix of data that is no longer than another prefix is one of it.    *)
LEMMA ShorterPrefix ==
  ASSUME NEW s \in Words, NEW t \in Words, IsPrefix(s, t), NEW k \in Int, k <= Len(s)
  PROVE  IsPrefix(SubSeq(t, 1, k), s)
<1> DEFINE u == SubSeq(t, 1, k)
           h == IF k < 0 THEN 0 ELSE k
<1>1. /\ s \in Seq(1 .. MaxWrites) /\ t \in Seq(1 .. MaxWrites) /\ Len(s) \in Nat /\ Len(t) \in Nat
      /\ Len(s) <= Len(t) /\ \A i \in 1 .. Len(s) : s[i] = t[i]
  BY PrefixIs DEF Words
<1>2. h \in Nat /\ h <= Len(s) /\ h <= Len(t)
  BY <1>1
<1>3. \A i \in 1 .. k : t[i] \in 1 .. MaxWrites
  <2>1. \A i \in 1 .. Len(t) : t[i] \in 1 .. MaxWrites
    BY <1>1, ElementOfSeq
  <2> QED BY <1>1, <2>1
<1>4. /\ u \in Seq(1 .. MaxWrites) /\ Len(u) = (IF 1 <= k THEN k - 1 + 1 ELSE 0)
      /\ \A i \in 1 .. k - 1 + 1 : u[i] = t[1 + i - 1]
  <2>1. 1 \in Int /\ k \in Int
    OBVIOUS
  <2> QED BY <2>1, <1>3, SubSeqProperties
<1> HIDE DEF u
<1>5. u \in Words /\ Len(u) = h
  BY <1>4 DEF Words
<1>6. \A i \in 1 .. h : u[i] = s[i]
  <2> TAKE i \in 1 .. h
  <2>1. i \in 1 .. k - 1 + 1 /\ 1 + i - 1 = i /\ i \in 1 .. Len(s)
    BY <1>1
  <2> QED BY <1>1, <1>4, <2>1
<1>7. IsPrefix(u, s)
  BY <1>2, <1>5, <1>6, PrefixIs
<1> QED BY <1>7 DEF u

(* A file cut down to its synced part costs at most Lag writes, which      *)
(* nothing reported counts.                                                *)
LEMMA InvDurable ==
  ASSUME Inv
  PROVE  FsyncedIsDurable
<1>0. /\ Flow /\ Counts /\ Memory /\ Directories /\ Files /\ Control /\ Disk /\ Manifests
      /\ FirstStart /\ Prepared /\ Synced /\ Contents /\ Bounds
  BY DEF Inv, Core
<1> SUFFICES ASSUME st = "on", pc # "down", pc # "refused", NEW x \in DOMAIN dirs
             PROVE  /\ Loadable(dirs[x], cont)
                    /\ LET kept == [j \in Inodes |-> IF mode.failure = "process" THEN cont[j]
                                                     ELSE SubSeq(cont[j], 1, synced[j])]
                       IN  IsPrefix(SubSeq(data, 1, fsynced), Loaded(dirs[x], kept))
  BY DEF FsyncedIsDurable
<1> DEFINE i    == Dir.ent[Newest(Dir.m)]
           kept == [j \in Inodes |-> IF mode.failure = "process" THEN cont[j]
                                     ELSE SubSeq(cont[j], 1, synced[j])]
           K    == Log(Dir.m, Dir.ent, kept)
<1>1. /\ L \in Words /\ IsPrefix(L, data)
      /\ Engaged => Len(L) + Len(buf) = Len(data)
      /\ Power => \A f \in Older(Dir.m) : Intact(Dir.ent[f])
      /\ Power /\ Dir.m.incr # <<>> /\ Engaged => Len(cont[i]) - synced[i] = Lag
      /\ Dir.m.incr = <<>> => Dir.m.base = 0 /\ L = <<>> /\ data = <<>>
  BY <1>0, Standing
<1>2. /\ Listed(Dir.m) /\ Good(Dir.m)
      /\ \A f \in Names(Dir.m) : f \in DOMAIN Dir.ent /\ Dir.ent[f] \in Inodes /\ cont[Dir.ent[f]] \in Words
      /\ Older(Dir.m) \subseteq Names(Dir.m) /\ (Dir.m.incr # <<>> => Newest(Dir.m) \in Names(Dir.m))
  BY <1>0, HeldInodes, NamesAre DEF Files, Disk
<1>3. dirs[x].m = Dir.m /\ \A f \in Names(Dir.m) : f \in DOMAIN dirs[x].ent /\ dirs[x].ent[f] = Dir.ent[f]
  BY <1>0 DEF Disk
<1>4. Loadable(dirs[x], cont)
  <2>1. \A f \in Older(Dir.m) : ~IsTorn(cont[dirs[x].ent[f]])
    BY <1>2, <1>3, WordIs
  <2>2. Names(dirs[x].m) \subseteq DOMAIN dirs[x].ent
    BY <1>3
  <2> QED BY <1>2, <1>3, <2>1, <2>2, IsLoadable
<1>5. Loaded(dirs[x], kept) = K
  <2> HIDE DEF kept
  <2>1. \A f \in Names(Dir.m) : Whole(kept[Dir.ent[f]]) = Whole(kept[dirs[x].ent[f]])
    BY <1>3
  <2>2. SameFiles(Dir.m, dirs[x].m)
    BY <1>3 DEF SameFiles
  <2>3. Log(Dir.m, Dir.ent, kept) = Log(dirs[x].m, dirs[x].ent, kept)
    BY <1>2, <2>1, <2>2, LogSame
  <2> QED BY <2>3, LoadedIsLog
<1>6. Len(data) \in Nat /\ Len(buf) \in Nat /\ Lag \in Nat /\ Len(L) \in Nat /\ fsynced \in Int /\ data \in Words
  BY <1>0, <1>1, BoundsNat, WordIs DEF Counts, Memory
<1>7. Engaged /\ fsynced + Lag + Len(buf) <= Len(data)
  BY <1>0 DEF Engaged, Bounds
<1>8. \A j \in Inodes : kept[j] = IF mode.failure = "process" THEN cont[j] ELSE SubSeq(cont[j], 1, synced[j])
  OBVIOUS
<1>9. \A j \in Inodes : synced[j] \in Nat /\ synced[j] <= Len(cont[j]) /\ cont[j] \in Words
  BY <1>0 DEF Files
<1> HIDE DEF kept
<1>10. K \in Words /\ IsPrefix(K, data) /\ fsynced <= Len(K)
  <2>1. CASE Dir.m.incr = <<>>
    <3>1. K = <<>>
      BY <1>1, <2>1, LogEmpty
    <3>2. L = <<>> /\ data = <<>>
      BY <1>1, <2>1
    <3>3. fsynced <= Len(L)
      BY <1>1, <1>6, <1>7
    <3> QED BY <1>1, <3>1, <3>2, <3>3
  <2>2. CASE Dir.m.incr # <<>> /\ mode.failure = "process"
    <3>1. \A f \in Names(Dir.m) : Whole(kept[Dir.ent[f]]) = Whole(cont[Dir.ent[f]])
      BY <1>2, <1>8, <2>2
    <3>2. SameFiles(Dir.m, Dir.m)
      BY DEF SameFiles
    <3>3. K = L
      BY <1>2, <3>1, <3>2, LogSame DEF L
    <3>4. fsynced <= Len(L)
      BY <1>1, <1>6, <1>7
    <3> QED BY <1>1, <3>3, <3>4
  <2>3. CASE Dir.m.incr # <<>> /\ mode.failure # "process"
    <3>0. Power
      BY <1>0, <2>3, ModesAssumption DEF Flow, ModeType, Power
    <3>1. i \in Inodes /\ kept[i] = SubSeq(cont[i], 1, synced[i])
      BY <1>2, <1>8, <2>3
    <3>2. synced[i] \in Nat /\ Len(cont[i]) \in Nat /\ synced[i] \in 0 .. Len(cont[i]) /\ cont[i] \in Words
      BY <1>9, <3>1, WordIs
    <3>3. Shorn(cont[Dir.ent[Newest(Dir.m)]], synced[i], kept[Dir.ent[Newest(Dir.m)]])
      <4>1. SubSeq(cont[i], 1, synced[i]) \in Words
        BY <3>2, CutIs
      <4>2. Whole(kept[i]) = SubSeq(cont[i], 1, synced[i])
        BY <3>1, <4>1, WordIs
      <4> QED BY <3>2, <4>2 DEF Shorn
    <3>4. \A f \in Older(Dir.m) : kept[Dir.ent[f]] = cont[Dir.ent[f]]
      <4> TAKE f \in Older(Dir.m)
      <4> DEFINE j == Dir.ent[f]
      <4>1. j \in Inodes /\ synced[j] = Len(cont[j]) /\ cont[j] \in Words
        BY <1>1, <1>2, <3>0 DEF Intact
      <4>2. kept[j] = SubSeq(cont[j], 1, synced[j])
        BY <1>8, <2>3, <4>1
      <4> HIDE DEF j
      <4>3. synced[j] \in 0 .. Len(cont[j])
        BY <4>1, WordIs
      <4>4. SubSeq(cont[j], 1, synced[j]) = cont[j]
        BY <4>1, <4>3, CutIs
      <4> QED BY <4>2, <4>4 DEF j
    <3>5. \A f \in Names(Dir.m) : cont[Dir.ent[f]] \in Words
      BY <1>2
    <3>6. synced[i] \in Nat
      BY <3>2
    <3>7. Cropped(Log(Dir.m, Dir.ent, cont), cont[Dir.ent[Newest(Dir.m)]], synced[i], Log(Dir.m, Dir.ent, kept))
      BY <1>2, <2>3, <3>3, <3>4, <3>5, <3>6, LogCut
    <3>8. K \in Words /\ IsPrefix(K, L) /\ Len(K) = Len(L) - Len(cont[i]) + synced[i]
      BY <3>7 DEF Cropped, L
    <3>9. Len(cont[i]) - synced[i] = Lag /\ Len(L) + Len(buf) = Len(data)
      BY <1>1, <1>7, <2>3, <3>0
    <3>10. IsPrefix(K, data)
      <4> HIDE DEF K
      <4> QED BY <1>1, <1>6, <3>8, PrefixTransitive
    <3> HIDE DEF K, i
    <3>11. fsynced <= Len(K)
      BY SMTT(30), <1>6, <1>7, <3>2, <3>8, <3>9
    <3> QED BY <3>8, <3>10, <3>11
  <2> QED BY <2>1, <2>2, <2>3
<1>11. IsPrefix(SubSeq(data, 1, fsynced), K)
  <2> HIDE DEF K
  <2> QED BY <1>6, <1>10, ShorterPrefix
<1> QED BY <1>4, <1>5, <1>11 DEF kept

(* What WAITAOF reports as fsynced is on disk: a failure at any moment,    *)
(* with any of the directories that may be found, leaves a set of files    *)
(* that loads, and loads to at least the reported writes.                  *)
THEOREM FsyncedSurvives ==
  ASSUME Sturdy
  PROVE  Spec => []FsyncedIsDurable
BY InvDurable, InvHolds, PTL

-------------------------------------------------------------------------------
(* Refinement: a step of the append only file is one of DurableLog, or     *)
(* leaves the log, its safe prefix and the promise alone.                  *)

Promised == Promise!Next \/ UNCHANGED <<data, safe, st = "on">>

LEMMA Unnoticed ==
  ASSUME data' = data, safe' = safe, st' = "on" <=> st = "on"
  PROVE  Promised
<1>1. (st' = "on") = (st = "on")
  OBVIOUS
<1>2. UNCHANGED <<data, safe, st = "on">>
  BY <1>1
<1> QED BY <1>2 DEF Promised

LEMMA Acknowledged ==
  ASSUME Inv, pc # "down", data' = data, st' = st, safe' \in {safe, Len(data)}, safe' = safe \/ st = "on"
  PROVE  Promised
<1>1. CASE safe' = safe
  BY <1>1, Unnoticed
<1>2. CASE safe' # safe
  <2>1. safe' = Len(data) /\ st = "on" /\ st' = "on"
    BY <1>2
  <2>2. safe \in Nat /\ Len(data) \in Nat /\ safe <= Len(data)
    <3>1. Counts /\ Memory /\ Files /\ Bounds
      BY DEF Inv, Core
    <3>2. Len(data) \in Nat /\ Len(buf) \in Nat /\ Lag \in Nat
      BY <3>1, BoundsNat
    <3>3. safe \in Nat /\ safe + Lag + Len(buf) <= Len(data)
      BY <3>1 DEF Bounds
    <3> QED BY <3>2, <3>3
  <2>3. safe' \in safe .. Len(data)
    BY <2>1, <2>2
  <2>4. (st' = "on") = (st = "on")
    BY <2>1
  <2>5. Promise!Acknowledge
    BY <2>1, <2>3, <2>4 DEF Promise!Acknowledge
  <2> QED BY <2>5 DEF Promised, Promise!Next
<1> QED BY <1>1, <1>2

LEMMA Recovered ==
  ASSUME Inv, LoadAppendOnlyFiles
  PROVE  Promised
<1>0. /\ Flow /\ Counts /\ Memory /\ Directories /\ Files /\ Control /\ Disk /\ Manifests
      /\ Contents /\ Bounds
  BY DEF Inv, Core
<1>1. pc = "down" /\ data' = Loaded(Dir, cont) /\ st' = "on" /\ safe' = safe
  BY <1>0, DownIsLoadable DEF LoadAppendOnlyFiles
<1>2. data' = L /\ L \in Words /\ IsPrefix(L, data)
  BY <1>0, <1>1, LoadedIsLog, HeldInodes DEF L, Contents
<1>3. safe \in Nat /\ safe <= Len(L) /\ Len(L) \in Nat /\ Len(L) <= Len(data) /\ Len(data) \in Nat
  BY <1>0, <1>1, <1>2, WordIs, BoundsNat DEF Bounds, IsPrefix
<1>4. L = SubSeq(data, 1, Len(L))
  <2>1. SubSeq(L, 1, Len(L)) = SubSeq(data, 1, Len(L))
    BY <1>2 DEF IsPrefix
  <2>2. SubSeq(L, 1, Len(L)) = L
    <3>1. L \in Seq(1 .. MaxWrites)
      BY <1>2 DEF Words
    <3> QED BY <3>1, SubSeqFull
  <2> QED BY <2>1, <2>2
<1>5. Len(L) \in safe .. Len(data) /\ data' = SubSeq(data, 1, Len(L))
  BY <1>2, <1>3, <1>4
<1>6. (st' = "on") = TRUE
  BY <1>1
<1>7. Promise!Recover
  BY <1>1, <1>5, <1>6 DEF Promise!Recover
<1> QED BY <1>7 DEF Promised, Promise!Next

LEMMA TurnedOn ==
  ASSUME Inv, RewriteDone
  PROVE  Promised
<1>0. Counts /\ Memory /\ Files /\ Bounds /\ Flow
  BY DEF Inv, Core
<1>1. pc = "histp" /\ data' = data
  BY DEF RewriteDone
<1>2. CASE st = "wait"
  <2>1. st' = "on" /\ safe' = Len(data) - Len(buf)
    BY <1>2 DEF RewriteDone
  <2>2. Len(data) \in Nat /\ Len(buf) \in Nat /\ Lag \in Nat /\ safe \in Nat /\ safe + Lag + Len(buf) <= Len(data)
    BY <1>0, <1>1, BoundsNat DEF Bounds
  <2>3. safe' \in 0 .. Len(data)
    BY <2>1, <2>2
  <2>4. ~(st = "on") /\ (st' = "on") = TRUE
    BY <1>2, <2>1
  <2>5. Promise!TurnOn
    BY <1>1, <2>3, <2>4 DEF Promise!TurnOn
  <2> QED BY <2>5 DEF Promised, Promise!Next
<1>3. CASE st # "wait"
  <2>1. st' = st /\ safe' = safe
    BY <1>3 DEF RewriteDone
  <2> QED BY <1>1, <2>1, Unnoticed
<1> QED BY <1>2, <1>3

LEMMA TurnedOff ==
  ASSUME Inv, AppendOnlyStopped
  PROVE  Promised
<1>0. Flow /\ Bounds
  BY DEF Inv, Core
<1>1. pc = "stop" /\ data' = data /\ st' = "off" /\ safe' = 0
  BY DEF AppendOnlyStopped
<1>2. CASE st = "on"
  <2>1. (st = "on") /\ (st' = "on") = FALSE
    BY <1>1, <1>2
  <2>2. Promise!TurnOff
    BY <1>1, <2>1 DEF Promise!TurnOff
  <2> QED BY <2>2 DEF Promised, Promise!Next
<1>3. CASE st # "on"
  <2>1. safe = 0
    BY <1>0, <1>1, <1>3 DEF Bounds, Running, Engaged
  <2> QED BY <1>1, <1>3, <2>1, Unnoticed
<1> QED BY <1>2, <1>3

LEMMA NextPromised ==
  ASSUME Inv, Next
  PROVE  Promised
<1>0. Flow /\ Counts /\ Memory /\ Files /\ Control
  BY DEF Inv, Core
<1>1. CASE FeedAppendOnlyFile
  <2>1. n + 1 \in 1 .. MaxWrites /\ data' = Append(data, n + 1) /\ safe' = safe /\ st' = st
    BY <1>0, <1>1, BoundsAssumption DEF FeedAppendOnlyFile, Flow
  <2>2. (st' = "on") = (st = "on")
    BY <2>1
  <2>3. Promise!Execute(n + 1)
    BY <2>1, <2>2 DEF Promise!Execute
  <2> QED BY <2>1, <2>3 DEF Promised, Promise!Next
<1>2. CASE BeforeSleep
  BY <1>2, Unnoticed DEF BeforeSleep, file
<1>3. CASE FlushPostpone
  BY <1>3, Unnoticed DEF FlushPostpone, file
<1>4. CASE FlushWrite
  <2>1. /\ pc # "down" /\ data' = data /\ st' = st /\ safe' \in {safe, Len(data)} /\ (safe' = safe \/ st = "on")
    BY <1>4 DEF FlushWrite
  <2> QED BY <2>1, Acknowledged
<1>5. CASE FlushError
  BY <1>5, Unnoticed DEF FlushError, file
<1>6. CASE FsyncAlways
  BY <1>6, Unnoticed DEF FsyncAlways, file
<1>7. CASE Reply
  <2>1. /\ pc # "down" /\ data' = data /\ st' = st /\ safe' \in {safe, Len(data)} /\ (safe' = safe \/ st = "on")
    BY <1>7 DEF Reply
  <2> QED BY <2>1, Acknowledged
<1>8. CASE BioProcessBackgroundJob
  BY <1>8, Unnoticed DEF BioProcessBackgroundJob, file
<1>9. CASE ScheduledRewrite
  BY <1>9, Unnoticed DEF ScheduledRewrite, file
<1>10. CASE OpenNewIncrAofForAppend
  <2>1. data' = data /\ safe' = safe /\ (st' = st \/ (ret = "start" /\ st' = "off"))
    BY <1>10 DEF OpenNewIncrAofForAppend, RewriteRefused
  <2> QED BY <1>0, <2>1, Unnoticed DEF Control
<1>11. CASE PersistNewIncr
  <2>1. data' = data /\ safe' = safe /\ (st' = st \/ (ret = "start" /\ st' = "off"))
    BY <1>11 DEF PersistNewIncr, RewriteRefused
  <2> QED BY <1>0, <2>1, Unnoticed DEF Control
<1>12. CASE DrainBioFsync
  BY <1>12, Unnoticed DEF DrainBioFsync, file
<1>13. CASE Fork
  <2>1. data' = data /\ safe' = safe /\ (st' = st \/ (ret = "start" /\ st' = "off"))
    BY <1>13 DEF Fork, RewriteRefused
  <2> QED BY <1>0, <2>1, Unnoticed DEF Control
<1>14. CASE ChildExits
  BY <1>14, Unnoticed DEF ChildExits, file
<1>15. CASE ReapChild
  BY <1>15, Unnoticed DEF ReapChild, file
<1>16. CASE RenameBase
  BY <1>16, Unnoticed DEF RenameBase, file
<1>17. CASE RenameIncr
  BY <1>17, Unnoticed DEF RenameIncr, file
<1>18. CASE PersistRewrite
  BY <1>18, Unnoticed DEF PersistRewrite, file
<1>19. CASE DelHistoryFiles
  BY <1>19, Unnoticed DEF DelHistoryFiles, file
<1>20. CASE RewriteDone
  BY <1>20, TurnedOn
<1>21. CASE StopAppendOnly
  BY <1>21, Unnoticed DEF StopAppendOnly, file
<1>22. CASE AppendOnlyStopped
  BY <1>22, TurnedOff
<1>23. CASE PrepareForShutdown
  BY <1>23, Unnoticed DEF PrepareForShutdown, file
<1>24. CASE Exit
  <2>1. /\ pc # "down" /\ data' = data /\ st' = st /\ safe' \in {safe, Len(data)} /\ (safe' = safe \/ st = "on")
    BY <1>24 DEF Exit, Terminate
  <2> QED BY <2>1, Acknowledged
<1>25. CASE Crash
  BY <1>25, Unnoticed DEF Crash, file
<1>26. CASE LoadAppendOnlyFiles
  BY <1>26, Recovered
<1>27. CASE OpenOnServerStart
  BY <1>27, Unnoticed DEF OpenOnServerStart, file
<1>28. CASE PersistOnServerStart
  BY <1>28, Unnoticed DEF PersistOnServerStart, file
<1>29. ASSUME NEW late \in BOOLEAN, FlushEmpty(late) PROVE Promised
  BY <1>29, Unnoticed DEF FlushEmpty
<1>30. ASSUME NEW late \in BOOLEAN, FsyncInBackground(late) PROVE Promised
  BY <1>30, Unnoticed DEF FsyncInBackground
<1>31. ASSUME NEW busy \in BOOLEAN, BgrewriteaofCommand(busy) PROVE Promised
  BY <1>31, Unnoticed DEF BgrewriteaofCommand
<1>32. ASSUME NEW busy \in BOOLEAN, StartAppendOnly(busy) PROVE Promised
  BY <1>32, Unnoticed DEF StartAppendOnly
<1> QED
  BY <1>1, <1>2, <1>3, <1>4, <1>5, <1>6, <1>7, <1>8, <1>9, <1>10, <1>11,
     <1>12, <1>13, <1>14, <1>15, <1>16, <1>17, <1>18, <1>19, <1>20, <1>21,
     <1>22, <1>23, <1>24, <1>25, <1>26, <1>27, <1>28, <1>29, <1>30, <1>31,
     <1>32 DEF Next, Flush, Rewrite, Restart

(* The append only file implements DurableLog: replies (policy always) and *)
(* writes (everysec, no) are not taken back by the failure considered, and *)
(* what a restart loads is always a prefix of what was executed.           *)
THEOREM KeepsItsPromise ==
  ASSUME Sturdy
  PROVE  Spec => ImplementsDurableLog
<1>1. Init => Promise!Init
  <2> SUFFICES ASSUME Init PROVE Promise!Init
    OBVIOUS
  <2>1. data = <<>> /\ safe = 0 /\ st = "on"
    BY DEF Init
  <2>2. (st = "on") = TRUE
    BY <2>1
  <2> QED BY <2>1, <2>2 DEF Promise!Init
<1>2. Inv /\ [Next]_vars => [Promise!Next]_<<data, safe, st = "on">>
  <2> SUFFICES ASSUME Inv, [Next]_vars PROVE Promised
    BY DEF Promised
  <2>1. CASE Next
    BY <2>1, NextPromised
  <2>2. CASE UNCHANGED vars
    BY <2>2, Unnoticed DEF vars
  <2> QED BY <2>1, <2>2
<1> QED BY <1>1, <1>2, InvHolds, PTL DEF Spec, ImplementsDurableLog, Promise!Spec
===============================================================================
