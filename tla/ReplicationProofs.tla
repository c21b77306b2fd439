------------------------- MODULE ReplicationProofs ----------------------------
(***************************************************************************)
(* Theorems about Replication, for any number of servers and any scenario. *)
(*                                                                         *)
(* The inductive invariant speaks of the history that every replication ID *)
(* names.  H[i] is what is known of the history of ID i: the longest       *)
(* dataset, its offset, and whether servers other than the one that        *)
(* generated i may come to know it.                                        *)
(***************************************************************************)
EXTENDS Replication, SequenceTheorems, FiniteSetTheorems, FunctionTheorems, TLAPS

-------------------------------------------------------------------------------
Words   == Seq(Nat)
Data(w) == Seq(1 .. w)

PositionOf(n) == [id : 1 .. n, off : Nat]
FileOf(n, w)  == [data : Data(w), info : PositionOf(n) \cup {None}]

(* The dataset d is the history h up to the offset o.                      *)
In(h, o, d) == \E t \in Words : h.data = d \o t /\ h.off = o + Len(t)

Claim(H, i, o, d) == i \in DOMAIN H /\ In(H[i], o, d)
Public(H, i)      == i \in DOMAIN H /\ H[i].pub

HistoryOf(w) == [data : Data(w), off : Nat, pub : BOOLEAN]

Histories(H, n, w) ==
    /\ n \in Nat /\ w \in Nat
    /\ DOMAIN H \subseteq 1 .. n
    /\ H \in [DOMAIN H -> HistoryOf(w)]

FileOK(H, f) == f.info # None => Claim(H, f.info.id, f.info.off, f.data)

ServerOf(n, w) ==
    [data : Data(w), id : 1 .. n, off : Nat, id2 : 1 .. n \cup {None},
     second : Nat \cup {-1}, backlog : Data(w) \cup {None},
     host : Server \cup {None},
     state : {"none", "connect", "psync", "transfer", "connected"},
     primary : PositionOf(n) \cup {None}, cached : PositionOf(n) \cup {None},
     initial : PositionOf(n) \cup {None},
     failover : [st : {"none", "wait", "progress"}, tgt : Server \cup {None},
                 kind : {"none", "any", "to", "force"}],
     child : FileOf(n, w) \cup {None}]

(* The dataset of r up to the offset at which it took its present ID is in *)
(* the history of its former ID.                                           *)
Second(H, r) ==
    /\ r.id2 \in DOMAIN H
    /\ \E d, v \in Words :
        /\ r.data = d \o v /\ r.off = r.second - 1 + Len(v)
        /\ In(H[r.id2], r.second - 1, d)

(* The backlog of r is the end of its dataset.                             *)
Suffix(r) ==
    /\ Len(r.backlog) <= r.off
    /\ \E x \in Words : r.data = x \o r.backlog

(* The states of the link of server s.                                     *)
Shape(r) ==
    /\ r.host = None <=> r.state = "none"
    /\ r.state = "connected" <=> r.primary # None
    /\ r.state = "transfer" <=> r.initial # None
    /\ r.host = None => r.cached = None
    /\ r.primary # None => r.primary = Pos(r.id, r.off) /\ r.backlog # None
    /\ r.cached # None => r.cached = Pos(r.id, r.off) /\ r.primary = None

Failover(s, r) ==
    /\ r.failover.st # "none" => r.host # s /\ r.failover.tgt # s
    /\ r.failover.st = "wait" => r.host = None
    /\ r.failover.st = "wait" /\ r.failover.kind = "force" =>
            r.failover.tgt \in Server

(* A server may resume, or let others resume, from what it has.            *)
Known(r) == (r.host = None /\ r.backlog # None) \/ r.primary # None \/ r.cached # None

HasHistory(H, r) ==
    /\ Known(r) => Claim(H, r.id, r.off, r.data)
    /\ r.backlog # None =>
        /\ Known(r) /\ Public(H, r.id) /\ Suffix(r)
        /\ r.id2 # None => Second(H, r)
    /\ r.backlog = None /\ r.cached # None /\ r.id2 # None => ~H[r.id].pub
    /\ r.child # None => FileOK(H, r.child)

(* A primary is at the end of the history of its ID, or alone to know it.  *)
AtTip(H, r) ==
    r.host = None =>
        IF r.backlog = None THEN r.id \notin DOMAIN H
        ELSE /\ r.id \in DOMAIN H
             /\ H[r.id] = [data |-> r.data, off |-> r.off, pub |-> TRUE]

ServerOK(H, n, w, s, r) ==
    r \in ServerOf(n, w) /\ Shape(r) /\ Failover(s, r) /\ HasHistory(H, r)

-------------------------------------------------------------------------------
(* What a replica r gets from what is in its connection: the position and  *)
(* the dataset it has when it has read all of it.                          *)
Applies(w, r, out, i, o, d) ==
    \E u \in Data(w) :
        /\ r.state = "connected" /\ out = Commands(u)
        /\ i = r.id /\ o = r.off + Len(u) /\ d = r.data \o u

Continues(w, r, out, i, o, d) ==
    \E u \in Data(w) :
        /\ r.state = "psync" /\ r.cached # None
        /\ out = <<ContinueMsg(i)>> \o Commands(u)
        /\ o = r.off + Len(u) /\ d = r.data \o u

Loads(H, n, w, r, out, i, o, d) ==
    \E u \in Data(w), f \in FileOf(n, w) :
        /\ r.state = "transfer" /\ out = <<RdbMsg(f)>> \o Commands(u)
        /\ FileOK(H, f)
        /\ i = r.initial.id /\ o = r.initial.off + Len(u) /\ d = f.data \o u

Resyncs(H, n, w, r, out, i, o, d) ==
    \E u \in Data(w), f \in FileOf(n, w), k \in Nat :
        /\ r.state = "psync"
        /\ out = <<FullResyncMsg(i, k)>> \o (<<RdbMsg(f)>> \o Commands(u))
        /\ FileOK(H, f)
        /\ o = k + Len(u) /\ d = f.data \o u

Delivers(H, n, w, r, out, i, o, d) ==
    \/ Applies(w, r, out, i, o, d) \/ Continues(w, r, out, i, o, d)
    \/ Loads(H, n, w, r, out, i, o, d) \/ Resyncs(H, n, w, r, out, i, o, d)

(* It may also get no more than an answer.                                 *)
Answered(n, r, out) ==
    \/ r.state \in {"psync", "transfer"} /\ out = <<>>
    \/ r.state = "psync" /\ out = <<ErrorMsg>>
    \/ /\ r.state = "psync"
       /\ \E i \in 1 .. n, k \in Nat : out = <<FullResyncMsg(i, k)>>

Requests(q, r) ==
    /\ q \in Request
    /\ r.cached = None => q.id = None /\ q.off = -1
    /\ r.cached # None => q.id = r.cached.id /\ q.off = r.cached.off + 1

Asking(s, c, r) ==
    c.st = "psync" =>
        /\ r.state = "psync" /\ c.out = <<>> /\ Requests(c.req, r)
        /\ c.req.failover => c.to # s

Attached(s, c, p) ==
    c.st \in {"start", "end", "online"} => p.backlog # None /\ c.to # s

Waiting(c, r) ==
    c.st = "start" => r.state = "psync" /\ c.out = <<>> /\ c.pend = <<>>

Snapshot(c, r, p) ==
    c.st = "end" =>
        /\ p.child # None
        /\ p.child.data \o c.pend = p.data /\ c.initial + Len(c.pend) = p.off
        /\ \/ r.state = "psync" /\ c.out = <<FullResyncMsg(p.id, c.initial)>>
           \/ /\ r.state = "transfer" /\ c.out = <<>>
              /\ r.initial = Pos(p.id, c.initial)

Fed(H, n, w, c, r, p) ==
    c.st = "online" => Delivers(H, n, w, r, c.out, p.id, p.off, p.data)

Closed(H, n, w, c, r) ==
    c.st = "closed" =>
        \/ Answered(n, r, c.out)
        \/ \E i \in 1 .. n, o \in Nat, d \in Data(w) :
            /\ Delivers(H, n, w, r, c.out, i, o, d)
            /\ Claim(H, i, o, d) /\ Public(H, i)

(* The connection c of server s, in state r, to a server in state p.       *)
LinkOK(H, n, w, s, c, r, p) ==
    /\ c \in Link /\ c.to = r.host /\ c.pend \in Data(w)
    /\ Asking(s, c, r) /\ Attached(s, c, p) /\ Waiting(c, r)
    /\ Snapshot(c, r, p) /\ Fed(H, n, w, c, r, p) /\ Closed(H, n, w, c, r)

-------------------------------------------------------------------------------
(* The states S, connections C and files D of all the servers.             *)
Servers(H, S, n, w) ==
    /\ S \in [Server -> ServerOf(n, w)]
    /\ \A s \in Server : ServerOK(H, n, w, s, S[s])

Files(H, D, n, w) ==
    /\ D \in [Server -> FileOf(n, w)]
    /\ \A s \in Server : FileOK(H, D[s])

LinkAt(H, S, C, n, w, s) ==
    /\ S[s].state \in {"none", "connect"} <=> C[s] = None
    /\ C[s] # None => LinkOK(H, n, w, s, C[s], S[s], S[C[s].to])

Links(H, S, C, n, w) ==
    /\ C \in [Server -> Link \cup {None}]
    /\ \A s \in Server : LinkAt(H, S, C, n, w, s)

(* No two primaries have one ID, and each is where its history ends.       *)
Primaries(H, S) ==
    /\ \A s, t \in Server :
        s # t /\ S[s].host = None /\ S[t].host = None => S[s].id # S[t].id
    /\ \A s \in Server : AtTip(H, S[s])

System(H, S, C, D, n, w) ==
    /\ Histories(H, n, w) /\ Servers(H, S, n, w) /\ Files(H, D, n, w)
    /\ Links(H, S, C, n, w)

Counters ==
    /\ mode \in Modes
    /\ writes \in 0 .. mode.writes /\ ops \in 0 .. mode.nops
    /\ faults \in 0 .. mode.faults /\ restarts \in 0 .. mode.restarts

ReplicationInv ==
    /\ Counters
    /\ \E H : System(H, srv, conn, disk, nid, writes) /\ Primaries(H, srv)

-------------------------------------------------------------------------------
(* Sequences of commands.                                                  *)

LEMMA WordsOfData ==
  ASSUME NEW w \in Nat
  PROVE  Data(w) \subseteq Words /\ Data(w) \subseteq Data(w + 1) /\ <<>> \in Data(w)
<1>1. 1 .. w \subseteq Nat /\ 1 .. w \subseteq 1 .. (w + 1)
  OBVIOUS
<1>2. Seq(1 .. w) \subseteq Seq(Nat)
  BY <1>1, SeqMonotonic
<1>3. Seq(1 .. w) \subseteq Seq(1 .. (w + 1))
  BY <1>1, SeqMonotonic
<1>4. <<>> \in Seq(1 .. w)
  OBVIOUS
<1> QED BY <1>2, <1>3, <1>4 DEF Data, Words

LEMMA CommandsOf ==
  ASSUME NEW u \in Words
  PROVE  /\ Commands(u) \in Seq(Message) /\ Len(Commands(u)) = Len(u)
         /\ \A i \in 1 .. Len(u) : Commands(u)[i] = CommandMsg(u[i])
<1>1. DOMAIN u = 1 .. Len(u) /\ Len(u) \in Nat /\ \A i \in 1 .. Len(u) : u[i] \in Nat
  BY LenProperties, ElementOfSeq DEF Words
<1>2. \A e \in Nat : CommandMsg(e) \in Message
  BY DEF CommandMsg, Message
<1>3. Commands(u) = [i \in 1 .. Len(u) |-> CommandMsg(u[i])]
  BY <1>1 DEF Commands
<1>4. Commands(u) \in Seq(Message)
  BY <1>1, <1>2, <1>3, IsASeq
<1>5. DOMAIN Commands(u) = 1 .. Len(u)
  BY <1>3
<1>6. Len(Commands(u)) = Len(u)
  BY <1>1, <1>4, <1>5, LenProperties
<1> QED BY <1>3, <1>4, <1>6

LEMMA CommandsEmpty ==
  Commands(<<>>) = <<>>
<1> DEFINE u == <<>>
<1>1. u \in Words /\ Len(u) = 0
  BY DEF Words
<1> HIDE DEF u
<1>2. Commands(u) \in Seq(Message) /\ Len(Commands(u)) = 0
  BY <1>1, CommandsOf
<1>3. Commands(u) = <<>>
  BY <1>2, EmptySeq
<1> QED BY <1>3 DEF u

LEMMA CommandsAppend ==
  ASSUME NEW u \in Words, NEW e \in Nat
  PROVE  Append(Commands(u), CommandMsg(e)) = Commands(Append(u, e))
<1> DEFINE v == Append(u, e)
<1>1. v \in Words /\ Len(v) = Len(u) + 1
      /\ (\A i \in 1 .. Len(u) : v[i] = u[i]) /\ v[Len(u) + 1] = e /\ Len(u) \in Nat
  BY AppendProperties, LenProperties DEF Words
<1> HIDE DEF v
<1>2. CommandMsg(e) \in Message
  BY DEF CommandMsg, Message
<1> DEFINE a == Append(Commands(u), CommandMsg(e))
           b == Commands(v)
<1>3. a \in Seq(Message) /\ Len(a) = Len(u) + 1
      /\ (\A i \in 1 .. Len(u) : a[i] = CommandMsg(u[i])) /\ a[Len(u) + 1] = CommandMsg(e)
  BY <1>2, CommandsOf, AppendProperties
<1>4. b \in Seq(Message) /\ Len(b) = Len(u) + 1
      /\ \A i \in 1 .. (Len(u) + 1) : b[i] = CommandMsg(v[i])
  BY <1>1, CommandsOf
<1> HIDE DEF a, b
<1>5. \A i \in 1 .. (Len(u) + 1) : a[i] = b[i]
  <2> TAKE i \in 1 .. (Len(u) + 1)
  <2>1. CASE i = Len(u) + 1
    BY <2>1, <1>1, <1>3, <1>4
  <2>2. CASE i # Len(u) + 1
    <3>1. i \in 1 .. Len(u)
      BY <2>2, <1>1
    <3> QED BY <3>1, <1>1, <1>3, <1>4
  <2> QED BY <2>1, <2>2
<1>6. a = b
  BY <1>3, <1>4, <1>5, SeqEqual
<1> QED BY <1>6 DEF a, b, v

LEMMA CommandsHead ==
  ASSUME NEW u \in Words, u # <<>>
  PROVE  /\ Commands(u) # <<>> /\ Head(Commands(u)) = CommandMsg(Head(u))
         /\ Tail(Commands(u)) = Commands(Tail(u))
         /\ Head(u) \in Nat /\ Tail(u) \in Words /\ Len(u) = Len(Tail(u)) + 1
<1> DEFINE v == Tail(u)
           c == Commands(u)
<1>1. /\ v \in Words /\ Head(u) \in Nat /\ Len(u) = Len(v) + 1 /\ Head(u) = u[1]
      /\ Len(v) \in Nat /\ \A i \in 1 .. Len(v) : v[i] = u[i + 1]
  BY HeadTailProperties, LenProperties DEF Words
<1>2. c \in Seq(Message) /\ Len(c) = Len(v) + 1
      /\ \A i \in 1 .. (Len(v) + 1) : c[i] = CommandMsg(u[i])
  BY <1>1, CommandsOf
<1> HIDE DEF v, c
<1>3. c # <<>>
  BY <1>1, <1>2, EmptySeq
<1>4. Head(c) = c[1] /\ Tail(c) \in Seq(Message) /\ Len(Tail(c)) = Len(v)
      /\ \A i \in 1 .. Len(v) : Tail(c)[i] = c[i + 1]
  BY <1>1, <1>2, <1>3, HeadTailProperties, LenProperties
<1>5. Head(c) = CommandMsg(Head(u))
  BY <1>1, <1>2, <1>4
<1> DEFINE b == Commands(v)
<1>6. b \in Seq(Message) /\ Len(b) = Len(v) /\ \A i \in 1 .. Len(v) : b[i] = CommandMsg(v[i])
  BY <1>1, CommandsOf
<1> HIDE DEF b
<1>7. \A i \in 1 .. Len(v) : Tail(c)[i] = b[i]
  BY <1>1, <1>2, <1>4, <1>6
<1>8. Tail(c) = b
  BY <1>4, <1>6, <1>7, SeqEqual
<1> QED BY <1>1, <1>3, <1>5, <1>8 DEF b, c, v

(* A message before others.                                                *)
LEMMA First ==
  ASSUME NEW m \in Message, NEW q \in Seq(Message)
  PROVE  /\ <<m>> \o q \in Seq(Message) /\ <<m>> \o q # <<>>
         /\ Head(<<m>> \o q) = m /\ Tail(<<m>> \o q) = q
         /\ <<m>> \in Seq(Message) /\ <<m>> # <<>>
         /\ Head(<<m>>) = m /\ Tail(<<m>>) = <<>>
<1> DEFINE a == <<m>> \o q
<1>1. <<m>> \in Seq(Message) /\ Len(<<m>>) = 1 /\ <<m>>[1] = m
  OBVIOUS
<1>2. a \in Seq(Message) /\ Len(a) = Len(q) + 1 /\ a[1] = m /\ Len(q) \in Nat
      /\ \A i \in 1 .. Len(q) : a[i + 1] = q[i]
  <2>1. /\ a \in Seq(Message) /\ Len(a) = Len(<<m>>) + Len(q)
        /\ \A i \in 1 .. Len(<<m>>) + Len(q) : a[i] =
                     IF i <= Len(<<m>>) THEN <<m>>[i] ELSE q[i - Len(<<m>>)]
    BY <1>1, ConcatProperties
  <2>2. Len(q) \in Nat
    BY LenProperties
  <2> HIDE DEF a
  <2> QED BY <1>1, <2>1, <2>2
<1> HIDE DEF a
<1>3. a # <<>>
  BY <1>2, EmptySeq
<1>4. Head(a) = m /\ Tail(a) \in Seq(Message) /\ Len(Tail(a)) = Len(q)
      /\ \A i \in 1 .. Len(q) : Tail(a)[i] = q[i]
  BY <1>2, <1>3, HeadTailProperties, LenProperties
<1>5. Tail(a) = q
  BY <1>4, SeqEqual
<1>6. <<m>> # <<>> /\ Head(<<m>>) = m /\ Tail(<<m>>) = <<>>
  <2>1. <<m>> # <<>>
    BY <1>1, EmptySeq
  <2>2. Tail(<<m>>) \in Seq(Message) /\ Len(Tail(<<m>>)) = 0 /\ Head(<<m>>) = m
    BY <1>1, <2>1, HeadTailProperties
  <2> QED BY <2>1, <2>2, EmptySeq
<1> QED BY <1>1, <1>2, <1>3, <1>4, <1>5, <1>6 DEF a

-------------------------------------------------------------------------------
(* Histories.                                                              *)

(* Concatenation of words.                                                 *)
LEMMA Cat ==
  ASSUME NEW d \in Words, NEW t \in Words
  PROVE  d \o t \in Words /\ Len(d \o t) = Len(d) + Len(t) /\ Len(d) \in Nat /\ Len(t) \in Nat
BY ConcatProperties, LenProperties DEF Words

LEMMA CatAssoc ==
  ASSUME NEW d \in Words, NEW t \in Words, NEW v \in Words
  PROVE  (d \o t) \o v = d \o (t \o v)
<1> DEFINE N == Nat
<1>1. d \in Seq(N) /\ t \in Seq(N) /\ v \in Seq(N)
  BY DEF Words
<1> HIDE DEF N
<1> QED BY <1>1, ConcatAssociative

LEMMA CatAt ==
  ASSUME NEW d \in Words, NEW t \in Words
  PROVE  \A i \in 1 .. Len(d) + Len(t) :
            (d \o t)[i] = IF i <= Len(d) THEN d[i] ELSE t[i - Len(d)]
<1> DEFINE N == Nat
<1>1. d \in Seq(N) /\ t \in Seq(N)
  BY DEF Words
<1> HIDE DEF N
<1> QED BY <1>1, ConcatProperties

LEMMA CatEmpty ==
  ASSUME NEW d \in Words
  PROVE  d \o <<>> = d /\ <<>> \o d = d /\ <<>> \in Words /\ Len(<<>>) = 0
BY ConcatEmptySeq DEF Words

LEMMA AppendCat ==
  ASSUME NEW d \in Words, NEW t \in Words, NEW e \in Nat
  PROVE  /\ Append(d \o t, e) = d \o Append(t, e) /\ Append(t, e) \in Words
         /\ Len(Append(t, e)) = Len(t) + 1
<1>1. Append(t, e) = t \o <<e>> /\ Append(d \o t, e) = (d \o t) \o <<e>>
  BY Cat, AppendIsConcat DEF Words
<1>2. <<e>> \in Words
  BY DEF Words
<1>3. Append(t, e) \in Words /\ Len(Append(t, e)) = Len(t) + 1
  BY AppendProperties DEF Words
<1> QED BY <1>1, <1>2, <1>3, CatAssoc

(* The first command of a word.                                            *)
LEMMA HeadCat ==
  ASSUME NEW d \in Words, NEW u \in Words, u # <<>>
  PROVE  /\ Append(d, Head(u)) \in Words /\ Append(d, Head(u)) \o Tail(u) = d \o u
         /\ Tail(u) \in Words /\ Len(u) = Len(Tail(u)) + 1
<1> DEFINE e == Head(u)
           v == Tail(u)
           a == Append(d, e) \o v
           b == d \o u
<1>1. /\ e \in Nat /\ v \in Words /\ Len(u) = Len(v) + 1 /\ e = u[1] /\ Len(v) \in Nat
      /\ \A i \in 1 .. Len(v) : v[i] = u[i + 1]
  BY HeadTailProperties, LenProperties DEF Words
<1> HIDE DEF e, v
<1> DEFINE c == Append(d, e)
<1>2. /\ c \in Words /\ Len(c) = Len(d) + 1 /\ c[Len(d) + 1] = e /\ Len(d) \in Nat
      /\ \A i \in 1 .. Len(d) : c[i] = d[i]
  BY <1>1, AppendProperties, LenProperties DEF Words
<1>3. c \o v \in Words /\ Len(c \o v) = Len(d) + 1 + Len(v)
      /\ \A i \in 1 .. (Len(d) + 1 + Len(v)) :
            (c \o v)[i] = IF i <= Len(d) + 1 THEN c[i] ELSE v[i - (Len(d) + 1)]
  <2> HIDE DEF c
  <2>1. c \o v \in Words /\ Len(c \o v) = Len(c) + Len(v)
    BY <1>1, <1>2, Cat
  <2>2. \A i \in 1 .. Len(c) + Len(v) :
            (c \o v)[i] = IF i <= Len(c) THEN c[i] ELSE v[i - Len(c)]
    BY <1>1, <1>2, CatAt
  <2> QED BY <1>1, <1>2, <2>1, <2>2
<1>4. b \in Words /\ Len(b) = Len(d) + 1 + Len(v)
      /\ \A i \in 1 .. (Len(d) + 1 + Len(v)) :
            b[i] = IF i <= Len(d) THEN d[i] ELSE u[i - Len(d)]
  <2>1. b \in Words /\ Len(b) = Len(d) + Len(u)
    BY Cat
  <2>2. \A i \in 1 .. Len(d) + Len(u) : b[i] = IF i <= Len(d) THEN d[i] ELSE u[i - Len(d)]
    BY CatAt
  <2>3. Len(d) + Len(u) = Len(d) + 1 + Len(v)
    BY <1>1, <1>2
  <2> QED BY <2>1, <2>2, <2>3
<1> HIDE DEF b, c
<1>5. \A i \in 1 .. (Len(d) + 1 + Len(v)) : (c \o v)[i] = b[i]
  <2> TAKE i \in 1 .. (Len(d) + 1 + Len(v))
  <2>1. CASE i <= Len(d)
    BY <2>1, <1>1, <1>2, <1>3, <1>4
  <2>2. CASE i = Len(d) + 1
    BY <2>2, <1>1, <1>2, <1>3, <1>4
  <2>3. CASE i > Len(d) + 1
    <3>1. i - (Len(d) + 1) \in 1 .. Len(v) /\ (i - (Len(d) + 1)) + 1 = i - Len(d)
      BY <2>3, <1>1, <1>2
    <3>2. v[i - (Len(d) + 1)] = u[i - Len(d)]
      BY <3>1, <1>1
    <3> QED BY <2>3, <3>2, <1>1, <1>2, <1>3, <1>4
  <2> QED BY <2>1, <2>2, <2>3, <1>1, <1>2
<1>6. c \o v = b
  <2> DEFINE x == c \o v
  <2> HIDE DEF x
  <2>1. x \in Seq(Nat) /\ b \in Seq(Nat) /\ Len(x) = Len(b) /\ \A i \in 1 .. Len(x) : x[i] = b[i]
    BY <1>3, <1>4, <1>5 DEF Words, x
  <2>2. x = b
    BY <2>1, SeqEqual
  <2> QED BY <2>2 DEF x
<1> QED BY <1>1, <1>2, <1>6 DEF b, c, v, e

(* d2 is d1 and n commands more.                                           *)
Beyond(d1, d2, n) == \E u \in Words : d2 = d1 \o u /\ Len(u) = n

(* One word has at each length one beginning.                              *)
LEMMA Beginnings ==
  ASSUME NEW d1 \in Words, NEW d2 \in Words, NEW t1 \in Words, NEW t2 \in Words,
         d1 \o t1 = d2 \o t2, Len(d1) <= Len(d2)
  PROVE  Beyond(d1, d2, Len(d2) - Len(d1))
<1> DEFINE a == Len(d1)
           b == Len(d2)
           u == SubSeq(d2, a + 1, b)
           z == d1 \o t1
<1>1. a \in Nat /\ b \in Nat /\ a <= b /\ Len(t1) \in Nat /\ Len(t2) \in Nat
  BY LenProperties DEF Words
<1>2. \A i \in 1 .. b : d2[i] \in Nat
  BY ElementOfSeq DEF Words
<1> HIDE DEF a, b
<1>3. u \in Words /\ Len(u) = b - a /\ \A i \in 1 .. b - a : u[i] = d2[a + i]
  <2>1. \A i \in a + 1 .. b : d2[i] \in Nat
    BY <1>1, <1>2
  <2>2. u \in Seq(Nat) /\ Len(u) = (IF a + 1 <= b THEN b - (a + 1) + 1 ELSE 0)
        /\ \A i \in 1 .. b - (a + 1) + 1 : u[i] = d2[a + 1 + i - 1]
    BY <1>1, <2>1, SubSeqProperties
  <2> HIDE DEF u
  <2> QED BY <1>1, <2>2 DEF Words
<1> HIDE DEF u
<1>4. /\ \A i \in 1 .. a + Len(t1) : z[i] = IF i <= a THEN d1[i] ELSE t1[i - a]
      /\ Len(z) = a + Len(t1)
  BY ConcatProperties DEF Words, a
<1>5. /\ \A i \in 1 .. b + Len(t2) : z[i] = IF i <= b THEN d2[i] ELSE t2[i - b]
      /\ Len(z) = b + Len(t2)
  BY ConcatProperties DEF Words, b
<1> HIDE DEF z
<1>6. \A i \in 1 .. a : d1[i] = d2[i]
  <2> TAKE i \in 1 .. a
  <2>1. i \in 1 .. a + Len(t1) /\ i \in 1 .. b + Len(t2) /\ i <= a /\ i <= b
    BY <1>1
  <2>2. z[i] = d1[i]
    BY <2>1, <1>4
  <2>3. z[i] = d2[i]
    BY <2>1, <1>5
  <2> QED BY <2>2, <2>3
<1>7. d1 \o u \in Words /\ Len(d1 \o u) = b
      /\ \A i \in 1 .. b : (d1 \o u)[i] = IF i <= a THEN d1[i] ELSE u[i - a]
  BY <1>1, <1>3, ConcatProperties DEF Words, a
<1>8. \A i \in 1 .. b : (d1 \o u)[i] = d2[i]
  <2> TAKE i \in 1 .. b
  <2>1. CASE i <= a
    BY <2>1, <1>1, <1>6, <1>7
  <2>2. CASE i > a
    <3>1. i - a \in 1 .. b - a /\ a + (i - a) = i
      BY <2>2, <1>1
    <3> QED BY SMTT(30), <2>2, <3>1, <1>1, <1>3, <1>7
  <2>3. i <= a \/ i > a
    BY <1>1
  <2> QED BY <2>1, <2>2, <2>3
<1>9. d1 \o u = d2
  <2> DEFINE x == d1 \o u
  <2> HIDE DEF x
  <2>1. x \in Seq(Nat) /\ d2 \in Seq(Nat) /\ Len(x) = Len(d2) /\ \A i \in 1 .. Len(x) : x[i] = d2[i]
    BY <1>7, <1>8 DEF Words, x, b
  <2>2. x = d2
    BY <2>1, SeqEqual
  <2> QED BY <2>2 DEF x
<1>10. Len(u) = Len(d2) - Len(d1)
  BY <1>3 DEF a, b
<1> QED BY <1>3, <1>9, <1>10 DEF Beyond

LEMMA SameEnds ==
  ASSUME NEW d1 \in Words, NEW d2 \in Words, NEW t1 \in Words, NEW t2 \in Words,
         d1 \o t1 = d2 \o t2, Len(t1) = Len(t2)
  PROVE  d1 = d2
<1>1. Len(d1 \o t1) = Len(d1) + Len(t1) /\ Len(d2 \o t2) = Len(d2) + Len(t2)
      /\ Len(d1) \in Nat /\ Len(d2) \in Nat /\ Len(t1) \in Nat /\ Len(t2) \in Nat
  BY Cat
<1>2. Len(d1) = Len(d2)
  BY <1>1
<1>2a. Len(d1) <= Len(d2)
  BY <1>1, <1>2
<1>3. Beyond(d1, d2, Len(d2) - Len(d1))
  BY <1>2a, Beginnings
<1>3a. PICK u \in Words : d2 = d1 \o u /\ Len(u) = Len(d2) - Len(d1)
  BY <1>3 DEF Beyond
<1>4. Len(u) = 0
  BY <1>1, <1>2, <1>3a
<1>5. u = <<>>
  BY <1>4, EmptySeq DEF Words
<1> QED BY <1>3a, <1>5, CatEmpty

LEMMA InTip ==
  ASSUME NEW h, h.data \in Words, h.off \in Nat
  PROVE  In(h, h.off, h.data)
<1>1. h.data = h.data \o <<>> /\ h.off = h.off + Len(<<>>) /\ <<>> \in Words
  BY CatEmpty
<1> QED BY <1>1 DEF In

(* What a history has up to an offset it has up to a smaller one.          *)
LEMMA InPrefix ==
  ASSUME NEW h, NEW o \in Int, NEW d \in Words, NEW u \in Words,
         In(h, o + Len(u), d \o u)
  PROVE  In(h, o, d)
<1>1. PICK t \in Words : h.data = (d \o u) \o t /\ h.off = (o + Len(u)) + Len(t)
  BY DEF In
<1>2. (d \o u) \o t = d \o (u \o t)
  BY CatAssoc
<1>3. u \o t \in Words /\ Len(u \o t) = Len(u) + Len(t) /\ Len(u) \in Nat /\ Len(t) \in Nat
  BY Cat
<1>4. h.off = o + Len(u \o t)
  BY <1>1, <1>3
<1> QED BY <1>1, <1>2, <1>3, <1>4 DEF In

(* Of two datasets of a history one is a beginning of the other.           *)
LEMMA InOrder ==
  ASSUME NEW h, NEW o1 \in Int, NEW o2 \in Int, NEW d1 \in Words, NEW d2 \in Words,
         In(h, o1, d1), In(h, o2, d2), o1 <= o2
  PROVE  Beyond(d1, d2, o2 - o1)
<1>1. PICK t1 \in Words : h.data = d1 \o t1 /\ h.off = o1 + Len(t1)
  BY DEF In
<1>2. PICK t2 \in Words : h.data = d2 \o t2 /\ h.off = o2 + Len(t2)
  BY DEF In
<1>3. Len(d1 \o t1) = Len(d1) + Len(t1) /\ Len(d2 \o t2) = Len(d2) + Len(t2)
      /\ Len(d1) \in Nat /\ Len(d2) \in Nat /\ Len(t1) \in Nat /\ Len(t2) \in Nat
  BY Cat
<1>4. Len(d1) + Len(t1) = Len(d2) + Len(t2)
  BY <1>1, <1>2, <1>3
<1>5. Len(d2) - Len(d1) = o2 - o1
  BY <1>1, <1>2, <1>3, <1>4
<1>6. Len(d1) <= Len(d2)
  BY <1>3, <1>5
<1>7. d1 \o t1 = d2 \o t2
  BY <1>1, <1>2
<1>8. Beyond(d1, d2, Len(d2) - Len(d1))
  BY <1>6, <1>7, Beginnings
<1> QED BY <1>5, <1>8

LEMMA InLonger ==
  ASSUME NEW h, NEW g, NEW e \in Nat, NEW o \in Int, NEW d \in Words,
         g.data = Append(h.data, e), g.off = h.off + 1, In(h, o, d)
  PROVE  In(g, o, d)
<1>1. PICK t \in Words : h.data = d \o t /\ h.off = o + Len(t)
  BY DEF In
<1>2. Append(d \o t, e) = d \o Append(t, e) /\ Append(t, e) \in Words
      /\ Len(Append(t, e)) = Len(t) + 1
  BY AppendCat
<1>3. Len(t) \in Nat
  BY Cat
<1>4. g.data = d \o Append(t, e) /\ g.off = o + Len(Append(t, e))
  BY <1>1, <1>2, <1>3
<1> QED BY <1>2, <1>4 DEF In

(* The end of a backlog, from an offset on.                                *)
LEMMA BacklogFrom ==
  ASSUME NEW w \in Nat, NEW r, NEW o \in Int, r.backlog \in Data(w), r.data \in Words,
         r.off \in Nat, Suffix(r),
         o >= BacklogOffset(r), o <= BacklogOffset(r) + Len(r.backlog)
  PROVE  \E u \in Data(w), x \in Words :
            /\ AddReplyReplicationBacklog(r, o) = Commands(u)
            /\ r.data = x \o u /\ r.off = o - 1 + Len(u)
<1> DEFINE b == r.backlog
           k == o - BacklogOffset(r)
           u == SubSeq(b, k + 1, Len(b))
           v == SubSeq(b, 1, k)
<1>1. PICK y \in Words : r.data = y \o b
  BY DEF Suffix
<1>2. b \in Words /\ Len(b) \in Nat /\ \A i \in 1 .. Len(b) : b[i] \in 1 .. w
  BY WordsOfData, LenProperties, ElementOfSeq DEF Data
<1>3. k \in Nat /\ k <= Len(b) /\ k = o - (r.off - Len(b) + 1)
  BY <1>2 DEF BacklogOffset
<1>4. AddReplyReplicationBacklog(r, o) = Commands(u)
  BY DEF AddReplyReplicationBacklog
<1> HIDE DEF k
<1> HIDE DEF b
<1>5. u \in Data(w) /\ Len(u) = Len(b) - k
  <2>1. \A i \in k + 1 .. Len(b) : b[i] \in 1 .. w
    BY <1>2, <1>3
  <2>2. u \in Seq(1 .. w) /\ Len(u) = IF k + 1 <= Len(b) THEN Len(b) - (k + 1) + 1 ELSE 0
    BY <1>2, <1>3, <2>1, SubSeqProperties
  <2> HIDE DEF u
  <2> QED BY <1>2, <1>3, <2>2 DEF Data
<1>6. v \in Words
  <2>1. \A i \in 1 .. k : b[i] \in Nat
    BY <1>2, <1>3
  <2> QED BY <1>3, <2>1, SubSeqProperties DEF Words
<1>7. v \o u = b
  <2> DEFINE N == Nat
             m == Len(b)
  <2>1. b \in Seq(N) /\ m \in Nat /\ k \in Nat /\ k <= m
    BY <1>2, <1>3 DEF Words
  <2>2. SubSeq(b, 1, m) = b
    <3> HIDE DEF N
    <3> QED BY <2>1, SubSeqFull
  <2>3. 1 \in 1 .. (m + 1) /\ k \in (1 - 1) .. m /\ m \in k .. Len(b)
    BY <2>1
  <2>4. v \o u = SubSeq(b, 1, m)
    <3> HIDE DEF N
    <3> QED BY <2>1, <2>3, ConcatAdjacentSubSeq
  <2> QED BY <2>2, <2>4
<1> HIDE DEF u, v
<1>8. u \in Words
  BY <1>5, WordsOfData
<1>9. r.data = (y \o v) \o u
  <2>1. (y \o v) \o u = y \o (v \o u)
    BY <1>6, <1>8, CatAssoc
  <2> QED BY <2>1, <1>1, <1>7 DEF b
<1>10. y \o v \in Words
  BY <1>6, Cat
<1>11. r.off = o - 1 + Len(u)
  <2> DEFINE x == r.off
             lb == Len(b)
             lu == Len(u)
  <2>1. x \in Nat /\ lb \in Nat /\ k \in Nat /\ k = o - (x - lb + 1) /\ lu = lb - k
    BY <1>2, <1>3, <1>5
  <2> HIDE DEF x, lb, lu
  <2>2. x = o - 1 + lu
    BY <2>1
  <2> QED BY <2>2 DEF x, lb, lu
<1> QED BY <1>4, <1>5, <1>9, <1>10, <1>11 DEF u

LEMMA BeyondBoth ==
  ASSUME NEW d1 \in Words, NEW d2 \in Words, NEW v \in Words, NEW k \in Int, Beyond(d1, d2, k)
  PROVE  Beyond(d1, d2 \o v, k + Len(v))
<1>1. PICK u \in Words : d2 = d1 \o u /\ Len(u) = k
  BY DEF Beyond
<1>2. (d1 \o u) \o v = d1 \o (u \o v)
  BY CatAssoc
<1>3. u \o v \in Words /\ Len(u \o v) = Len(u) + Len(v)
  BY Cat
<1>4. d2 \o v = d1 \o (u \o v) /\ Len(u \o v) = k + Len(v)
  BY <1>1, <1>2, <1>3
<1> QED BY <1>3, <1>4 DEF Beyond

(* What a server answers to a request for a partial resynchronization.     *)
Resumes(w, r, d, o, out) ==
    \E u \in Data(w) :
        out = Commands(u) /\ r.data = d \o u /\ r.off = o + Len(u)

LEMMA Resume ==
  ASSUME NEW H, NEW n, NEW w, Histories(H, n, w), NEW r \in ServerOf(n, w), HasHistory(H, r),
         NEW q \in Request, q.id \in Nat, NEW d \in Words, Claim(H, q.id, q.off - 1, d),
         PrimaryTryPartialResynchronization(r, q)
  PROVE  Resumes(w, r, d, q.off - 1, AddReplyReplicationBacklog(r, q.off))
<1> DEFINE o == q.off - 1
<1>1. /\ w \in Nat /\ r.backlog \in Data(w) \cup {None} /\ r.data \in Data(w) /\ r.off \in Nat
      /\ q.off \in Int /\ o \in Int /\ r.second \in Int
  BY DEF Histories, ServerOf, Request
<1>2. r.backlog # None /\ q.off >= BacklogOffset(r) /\ q.off <= BacklogOffset(r) + Len(r.backlog)
      /\ (q.id = r.id \/ (q.id = r.id2 /\ q.off <= r.second))
  BY DEF PrimaryTryPartialResynchronization
<1>3. Suffix(r) /\ Claim(H, r.id, r.off, r.data) /\ (r.id2 # None => Second(H, r))
  BY <1>2 DEF HasHistory
<1>4. r.data \in Words /\ r.backlog \in Data(w)
  BY <1>1, <1>2, WordsOfData
<1>5. PICK u \in Data(w), x \in Words :
            /\ AddReplyReplicationBacklog(r, q.off) = Commands(u)
            /\ r.data = x \o u /\ r.off = q.off - 1 + Len(u)
  BY <1>1, <1>2, <1>3, <1>4, BacklogFrom
<1>6. u \in Words /\ Len(u) \in Nat
  BY <1>1, WordsOfData, LenProperties DEF Data
<1>7. Beyond(d, r.data, r.off - o)
  <2>1. CASE q.id = r.id
    <3>1. In(H[r.id], o, d) /\ In(H[r.id], r.off, r.data)
      BY <2>1, <1>3 DEF Claim
    <3>2. o <= r.off
      BY <1>1, <1>5, <1>6
    <3> HIDE DEF o
    <3> QED BY <3>1, <3>2, <1>1, <1>4, InOrder
  <2>2. CASE q.id = r.id2 /\ q.off <= r.second
    <3>1. r.id2 # None
      BY <2>2, NoneAssumption
    <3>2. PICK a \in Words, v \in Words :
            /\ r.data = a \o v /\ r.off = r.second - 1 + Len(v)
            /\ In(H[r.id2], r.second - 1, a)
      BY <3>1, <1>3 DEF Second
    <3> DEFINE z == r.second - 1
    <3>3. In(H[r.id2], o, d) /\ o <= z /\ z \in Int /\ In(H[r.id2], z, a)
      BY <2>2, <3>2, <1>1 DEF Claim
    <3> HIDE DEF o, z
    <3>4. Beyond(d, a, z - o)
      BY <3>3, <1>1, InOrder
    <3>5. z - o \in Int
      BY <3>3, <1>1
    <3>6. Beyond(d, a \o v, (z - o) + Len(v))
      BY <3>4, <3>5, BeyondBoth
    <3>7. (z - o) + Len(v) = r.off - o
      <4>1. Len(v) \in Nat
        BY Cat
      <4> QED BY <4>1, <3>2, <3>3, <1>1 DEF z
    <3> QED BY <3>2, <3>6, <3>7
  <2> QED BY <2>1, <2>2, <1>2
<1>8. PICK v \in Words : r.data = d \o v /\ Len(v) = r.off - o
  BY <1>7 DEF Beyond
<1>9. Len(v) = Len(u)
  BY <1>1, <1>5, <1>6, <1>8
<1>10. d \o v = x \o u
  BY <1>5, <1>8
<1>11. d = x
  BY <1>6, <1>9, <1>10, SameEnds
<1> QED BY <1>5, <1>11 DEF Resumes

(* A replica with nothing to resume from is not taken for another.         *)
LEMMA NothingToResume ==
  ASSUME NEW H, NEW n, NEW w, Histories(H, n, w), NEW r \in ServerOf(n, w), HasHistory(H, r),
         NEW q, q.off = -1
  PROVE  ~PrimaryTryPartialResynchronization(r, q)
<1> SUFFICES ASSUME PrimaryTryPartialResynchronization(r, q) PROVE FALSE
  OBVIOUS
<1>1. r.backlog # None /\ -1 >= BacklogOffset(r)
  BY DEF PrimaryTryPartialResynchronization
<1>2. Len(r.backlog) <= r.off
  BY <1>1 DEF HasHistory, Suffix
<1>3. r.backlog \in Data(w) /\ r.off \in Nat
  BY <1>1 DEF ServerOf
<1>4. Len(r.backlog) \in Nat
  BY <1>3, LenProperties DEF Data
<1> QED BY <1>1, <1>2, <1>3, <1>4 DEF BacklogOffset

-------------------------------------------------------------------------------
(* More of the histories becomes known: G has at least what H has.         *)

Kept(h, g) == g.pub = h.pub /\ \A o \in Int, d \in Words : In(h, o, d) => In(g, o, d)

Grows(H, n, w, G, m, v) ==
    /\ Histories(H, n, w) /\ Histories(G, m, v) /\ n <= m /\ w <= v
    /\ \A i \in DOMAIN H : i \in DOMAIN G /\ Kept(H[i], G[i])

LEMMA TypesGrow ==
  ASSUME NEW n \in Nat, NEW m \in Nat, NEW w \in Nat, NEW v \in Nat, n <= m, w <= v
  PROVE  /\ Data(w) \subseteq Data(v) /\ 1 .. n \subseteq 1 .. m
         /\ PositionOf(n) \subseteq PositionOf(m)
         /\ FileOf(n, w) \subseteq FileOf(m, v) /\ ServerOf(n, w) \subseteq ServerOf(m, v)
<1>1. 1 .. n \subseteq 1 .. m /\ 1 .. w \subseteq 1 .. v
  OBVIOUS
<1>2. Data(w) \subseteq Data(v)
  BY <1>1, SeqMonotonic DEF Data
<1>3. PositionOf(n) \subseteq PositionOf(m)
  BY <1>1 DEF PositionOf
<1>4. FileOf(n, w) \subseteq FileOf(m, v)
  BY <1>2, <1>3 DEF FileOf
<1>5. ServerOf(n, w) \subseteq ServerOf(m, v)
  <2> DEFINE F == [st : {"none", "wait", "progress"}, tgt : Server \cup {None},
                   kind : {"none", "any", "to", "force"}]
  <2> HIDE DEF F
  <2> QED BY <1>1, <1>2, <1>3, <1>4 DEF ServerOf, F
<1> QED BY <1>1, <1>2, <1>3, <1>4, <1>5

LEMMA ClaimGrows ==
  ASSUME NEW H, NEW n, NEW w, NEW G, NEW m, NEW v, Grows(H, n, w, G, m, v),
         NEW i, NEW o \in Int, NEW d \in Words, Claim(H, i, o, d)
  PROVE  Claim(G, i, o, d)
BY DEF Grows, Claim, Kept

LEMMA PublicGrows ==
  ASSUME NEW H, NEW n, NEW w, NEW G, NEW m, NEW v, Grows(H, n, w, G, m, v),
         NEW i \in DOMAIN H
  PROVE  i \in DOMAIN G /\ (Public(G, i) <=> Public(H, i))
BY DEF Grows, Kept, Public

LEMMA FileGrows ==
  ASSUME NEW H, NEW n, NEW w, NEW G, NEW m, NEW v, Grows(H, n, w, G, m, v),
         NEW f \in FileOf(n, w), FileOK(H, f)
  PROVE  FileOK(G, f)
<1> SUFFICES ASSUME f.info # None PROVE Claim(G, f.info.id, f.info.off, f.data)
  BY DEF FileOK
<1>1. f.info.off \in Int /\ f.data \in Data(w) /\ w \in Nat
  BY DEF FileOf, PositionOf, Grows, Histories
<1>2. f.data \in Words
  BY <1>1, WordsOfData
<1>3. Claim(H, f.info.id, f.info.off, f.data)
  BY DEF FileOK
<1> QED BY <1>1, <1>2, <1>3, ClaimGrows

LEMMA SecondGrows ==
  ASSUME NEW H, NEW n, NEW w, NEW G, NEW m, NEW v, Grows(H, n, w, G, m, v),
         NEW r \in ServerOf(n, w), Second(H, r)
  PROVE  Second(G, r)
<1>1. PICK d \in Words, t \in Words :
        /\ r.data = d \o t /\ r.off = r.second - 1 + Len(t)
        /\ In(H[r.id2], r.second - 1, d)
  BY DEF Second
<1>2. r.id2 \in DOMAIN H
  BY DEF Second
<1>3. r.second - 1 \in Int
  BY DEF ServerOf
<1>4. Claim(H, r.id2, r.second - 1, d)
  BY <1>1, <1>2 DEF Claim
<1>5. Claim(G, r.id2, r.second - 1, d)
  BY <1>3, <1>4, ClaimGrows
<1> QED BY <1>1, <1>5 DEF Second, Claim

LEMMA HistoryGrows ==
  ASSUME NEW H, NEW n, NEW w, NEW G, NEW m, NEW v, Grows(H, n, w, G, m, v),
         NEW r \in ServerOf(n, w), HasHistory(H, r)
  PROVE  HasHistory(G, r)
<1>1. r.off \in Int /\ r.data \in Data(w) /\ w \in Nat /\ r.child \in FileOf(n, w) \cup {None}
  BY DEF ServerOf, Grows, Histories
<1>2. r.data \in Words
  BY <1>1, WordsOfData
<1>3. Known(r) => Claim(G, r.id, r.off, r.data)
  <2>1. Known(r) => Claim(H, r.id, r.off, r.data)
    BY DEF HasHistory
  <2> QED BY <2>1, <1>1, <1>2, ClaimGrows
<1>4. Known(r) => r.id \in DOMAIN H
  BY DEF HasHistory, Claim
<1>5. r.backlog # None =>
        /\ Known(r) /\ Public(G, r.id) /\ Suffix(r)
        /\ r.id2 # None => Second(G, r)
  <2>1. r.backlog # None =>
        /\ Known(r) /\ Public(H, r.id) /\ Suffix(r)
        /\ r.id2 # None => Second(H, r)
    BY DEF HasHistory
  <2>2. Known(r) => (Public(G, r.id) <=> Public(H, r.id))
    BY <1>4, PublicGrows
  <2> QED BY <2>1, <2>2, SecondGrows
<1>6. r.backlog = None /\ r.cached # None /\ r.id2 # None => ~G[r.id].pub
  <2> SUFFICES ASSUME r.backlog = None, r.cached # None, r.id2 # None PROVE ~G[r.id].pub
    OBVIOUS
  <2>1. ~H[r.id].pub /\ r.id \in DOMAIN H
    BY <1>4 DEF HasHistory, Known
  <2> QED BY <2>1, PublicGrows DEF Public
<1>7. r.child # None => FileOK(G, r.child)
  <2>1. r.child # None => FileOK(H, r.child)
    BY DEF HasHistory
  <2> QED BY <2>1, <1>1, FileGrows
<1> QED BY <1>3, <1>5, <1>6, <1>7 DEF HasHistory

LEMMA DeliversGrows ==
  ASSUME NEW H, NEW n, NEW w, NEW G, NEW m, NEW v, Grows(H, n, w, G, m, v),
         NEW r, NEW out, NEW i, NEW o, NEW d, Delivers(H, n, w, r, out, i, o, d)
  PROVE  Delivers(G, m, v, r, out, i, o, d)
<1>1. n \in Nat /\ m \in Nat /\ w \in Nat /\ v \in Nat /\ n <= m /\ w <= v
  BY DEF Grows, Histories
<1>2. Data(w) \subseteq Data(v) /\ FileOf(n, w) \subseteq FileOf(m, v)
  BY <1>1, TypesGrow
<1>3. \A f \in FileOf(n, w) : FileOK(H, f) => FileOK(G, f)
  BY FileGrows
<1>4. CASE Applies(w, r, out, i, o, d)
  <2>1. Applies(v, r, out, i, o, d)
    BY <1>2, <1>4 DEF Applies
  <2> QED BY <2>1 DEF Delivers
<1>5. CASE Continues(w, r, out, i, o, d)
  <2>1. Continues(v, r, out, i, o, d)
    BY <1>2, <1>5 DEF Continues
  <2> QED BY <2>1 DEF Delivers
<1>6. CASE Loads(H, n, w, r, out, i, o, d)
  <2>1. Loads(G, m, v, r, out, i, o, d)
    BY <1>2, <1>3, <1>6 DEF Loads
  <2> QED BY <2>1 DEF Delivers
<1>7. CASE Resyncs(H, n, w, r, out, i, o, d)
  <2>1. Resyncs(G, m, v, r, out, i, o, d)
    BY <1>2, <1>3, <1>7 DEF Resyncs
  <2> QED BY <2>1 DEF Delivers
<1> QED BY <1>4, <1>5, <1>6, <1>7 DEF Delivers

LEMMA LinkGrows ==
  ASSUME NEW H, NEW n, NEW w, NEW G, NEW m, NEW v, Grows(H, n, w, G, m, v),
         NEW s, NEW c, NEW r, NEW p, LinkOK(H, n, w, s, c, r, p)
  PROVE  LinkOK(G, m, v, s, c, r, p)
<1>1. n \in Nat /\ m \in Nat /\ w \in Nat /\ v \in Nat /\ n <= m /\ w <= v
  BY DEF Grows, Histories
<1>2. Data(w) \subseteq Data(v) /\ 1 .. n \subseteq 1 .. m /\ Data(w) \subseteq Words
  BY <1>1, TypesGrow, WordsOfData
<1>3. /\ c \in Link /\ c.to = r.host /\ c.pend \in Data(w)
      /\ Asking(s, c, r) /\ Attached(s, c, p) /\ Waiting(c, r)
      /\ Snapshot(c, r, p) /\ Fed(H, n, w, c, r, p) /\ Closed(H, n, w, c, r)
  BY DEF LinkOK
<1>4. Fed(G, m, v, c, r, p)
  BY <1>3, DeliversGrows DEF Fed
<1>5. Closed(G, m, v, c, r)
  <2> SUFFICES ASSUME c.st = "closed"
               PROVE  \/ Answered(m, r, c.out)
                      \/ \E i \in 1 .. m, o \in Nat, d \in Data(v) :
                            /\ Delivers(G, m, v, r, c.out, i, o, d)
                            /\ Claim(G, i, o, d) /\ Public(G, i)
    BY DEF Closed
  <2>1. CASE Answered(n, r, c.out)
    BY <2>1, <1>2 DEF Answered
  <2>2. ASSUME NEW i \in 1 .. n, NEW o \in Nat, NEW d \in Data(w),
               Delivers(H, n, w, r, c.out, i, o, d), Claim(H, i, o, d), Public(H, i)
        PROVE  /\ i \in 1 .. m /\ d \in Data(v) /\ Delivers(G, m, v, r, c.out, i, o, d)
               /\ Claim(G, i, o, d) /\ Public(G, i)
    <3>1. i \in DOMAIN H /\ o \in Int /\ d \in Words
      BY <2>2, <1>2 DEF Public
    <3> QED BY <2>2, <3>1, <1>2, DeliversGrows, ClaimGrows, PublicGrows
  <2> QED BY <2>1, <2>2, <1>3 DEF Closed
<1>6. c.pend \in Data(v)
  BY <1>2, <1>3
<1> QED BY <1>3, <1>4, <1>5, <1>6 DEF LinkOK

LEMMA SystemGrows ==
  ASSUME NEW H, NEW n, NEW w, NEW G, NEW m, NEW v, Grows(H, n, w, G, m, v),
         NEW S, NEW C, NEW D, System(H, S, C, D, n, w)
  PROVE  System(G, S, C, D, m, v)
<1>1. n \in Nat /\ m \in Nat /\ w \in Nat /\ v \in Nat /\ n <= m /\ w <= v
  BY DEF Grows, Histories
<1>2. FileOf(n, w) \subseteq FileOf(m, v) /\ ServerOf(n, w) \subseteq ServerOf(m, v)
  BY <1>1, TypesGrow
<1>3. Servers(G, S, m, v)
  <2>1. S \in [Server -> ServerOf(n, w)]
        /\ \A s \in Server : ServerOK(H, n, w, s, S[s])
    BY DEF System, Servers
  <2>2. S \in [Server -> ServerOf(m, v)]
    BY <1>2, <2>1
  <2>3. ASSUME NEW s \in Server PROVE ServerOK(G, m, v, s, S[s])
    <3>1. S[s] \in ServerOf(n, w) /\ Shape(S[s]) /\ Failover(s, S[s]) /\ HasHistory(H, S[s])
      BY <2>1 DEF ServerOK
    <3>2. HasHistory(G, S[s])
      BY <3>1, HistoryGrows
    <3> QED BY <3>1, <3>2, <1>2 DEF ServerOK
  <2> QED BY <2>2, <2>3 DEF Servers
<1>4. Files(G, D, m, v)
  <2>1. D \in [Server -> FileOf(n, w)] /\ \A s \in Server : FileOK(H, D[s])
    BY DEF System, Files
  <2>2. \A s \in Server : FileOK(G, D[s])
    BY <2>1, FileGrows
  <2>3. D \in [Server -> FileOf(m, v)]
    BY <1>2, <2>1
  <2> QED BY <2>2, <2>3 DEF Files
<1>5. Links(G, S, C, m, v)
  <2>1. C \in [Server -> Link \cup {None}] /\ \A s \in Server : LinkAt(H, S, C, n, w, s)
    BY DEF System, Links
  <2>2. ASSUME NEW s \in Server PROVE LinkAt(G, S, C, m, v, s)
    BY <2>1, LinkGrows DEF LinkAt
  <2> QED BY <2>1, <2>2 DEF Links
<1>6. Histories(G, m, v)
  BY DEF Grows
<1> QED BY <1>3, <1>4, <1>5, <1>6 DEF System

-------------------------------------------------------------------------------
(* Connections.                                                            *)

LEMMA ConnectionType ==
  ASSUME NEW p \in Server, NEW st \in {"psync", "start", "end", "online", "closed"},
         NEW out \in Seq(Message)
  PROVE  /\ Connection(p, st, out) \in Link
         /\ Connection(p, st, out).to = p /\ Connection(p, st, out).st = st
         /\ Connection(p, st, out).out = out /\ Connection(p, st, out).pend = <<>>
BY DEF Connection, Link

LEMMA LinkFields ==
  ASSUME NEW c \in Link
  PROVE  /\ c.to \in Server /\ c.st \in {"psync", "start", "end", "online", "closed"}
         /\ c.out \in Seq(Message) /\ c.pend \in Words /\ c.initial \in Nat
         /\ c # None
BY NoneAssumption DEF Link, Words

LEMMA MessageTypes ==
  /\ \A i \in Nat : ContinueMsg(i) \in Message
  /\ \A i \in Nat, o \in Nat : FullResyncMsg(i, o) \in Message
  /\ \A f \in File : RdbMsg(f) \in Message
  /\ ErrorMsg \in Message
BY DEF ContinueMsg, FullResyncMsg, RdbMsg, ErrorMsg, Message

LEMMA FileFields ==
  ASSUME NEW n \in Nat, NEW w \in Nat, NEW f \in FileOf(n, w)
  PROVE  f \in File /\ f.data \in Data(w) /\ f.data \in Words /\ f # None
<1>1. Data(w) \subseteq Words
  BY WordsOfData
<1>2. PositionOf(n) \subseteq Position
  BY DEF PositionOf, Position
<1>3. f \in File
  BY <1>1, <1>2 DEF FileOf, File, Words
<1>4. f.data \in Data(w)
  BY DEF FileOf
<1> QED BY <1>1, <1>3, <1>4, NoneAssumption

(* Another record of the server at the other end, with the same stream.    *)
SameStream(p, q) ==
    /\ q.id = p.id /\ q.off = p.off /\ q.data = p.data /\ q.child = p.child
    /\ q.backlog = None <=> p.backlog = None

LEMMA StreamFrame ==
  ASSUME NEW H, NEW n, NEW w, NEW s, NEW c, NEW r, NEW p, NEW q,
         LinkOK(H, n, w, s, c, r, p), SameStream(p, q)
  PROVE  LinkOK(H, n, w, s, c, r, q)
BY DEF LinkOK, SameStream, Attached, Snapshot, Fed

(* Another record of the replica, in the same state of its link.           *)
SameReplica(r, q) ==
    /\ q.state = r.state /\ q.host = r.host /\ q.id = r.id /\ q.off = r.off
    /\ q.data = r.data /\ q.cached = r.cached /\ q.initial = r.initial

LEMMA DeliversFrame ==
  ASSUME NEW H, NEW n, NEW w, NEW r, NEW q, NEW out, NEW i, NEW o, NEW d,
         Delivers(H, n, w, r, out, i, o, d), SameReplica(r, q)
  PROVE  Delivers(H, n, w, q, out, i, o, d)
<1>1. Applies(w, r, out, i, o, d) => Applies(w, q, out, i, o, d)
  BY DEF SameReplica, Applies
<1>2. Continues(w, r, out, i, o, d) => Continues(w, q, out, i, o, d)
  BY DEF SameReplica, Continues
<1>3. Loads(H, n, w, r, out, i, o, d) => Loads(H, n, w, q, out, i, o, d)
  BY DEF SameReplica, Loads
<1>4. Resyncs(H, n, w, r, out, i, o, d) => Resyncs(H, n, w, q, out, i, o, d)
  BY DEF SameReplica, Resyncs
<1> QED BY <1>1, <1>2, <1>3, <1>4 DEF Delivers

LEMMA ReplicaFrame ==
  ASSUME NEW H, NEW n, NEW w, NEW s, NEW c, NEW r, NEW p, NEW q,
         LinkOK(H, n, w, s, c, r, p), SameReplica(r, q)
  PROVE  LinkOK(H, n, w, s, c, q, p)
<1>1. Fed(H, n, w, c, q, p)
  BY DeliversFrame DEF LinkOK, Fed
<1>2. Closed(H, n, w, c, q)
  <2>1. Answered(n, r, c.out) => Answered(n, q, c.out)
    BY DEF Answered, SameReplica
  <2>2. \A i \in 1 .. n, o \in Nat, d \in Data(w) :
            Delivers(H, n, w, r, c.out, i, o, d) => Delivers(H, n, w, q, c.out, i, o, d)
    BY DeliversFrame
  <2> QED BY <2>1, <2>2 DEF LinkOK, Closed
<1>3. Asking(s, c, q) /\ Attached(s, c, p) /\ Waiting(c, q) /\ Snapshot(c, q, p)
      /\ c \in Link /\ c.to = q.host /\ c.pend \in Data(w)
  BY DEF LinkOK, Asking, Attached, Waiting, Snapshot, Requests, SameReplica
<1> QED BY <1>1, <1>2, <1>3 DEF LinkOK

(* What a connection holds that is more than an answer is in the history   *)
(* of an ID that any server may know.                                      *)
Promised(H, n, w, r, out) ==
    \E i \in 1 .. n, o \in Nat, d \in Data(w) :
        /\ Delivers(H, n, w, r, out, i, o, d)
        /\ Claim(H, i, o, d) /\ Public(H, i)

LEMMA PrimaryClaims ==
  ASSUME NEW H, NEW n, NEW w, NEW p \in ServerOf(n, w), HasHistory(H, p), p.backlog # None
  PROVE  /\ p.id \in 1 .. n /\ p.off \in Nat /\ p.data \in Data(w)
         /\ Claim(H, p.id, p.off, p.data) /\ Public(H, p.id)
<1>1. p.id \in 1 .. n /\ p.off \in Nat /\ p.data \in Data(w)
  BY DEF ServerOf
<1>2. Known(p) /\ Public(H, p.id)
  BY DEF HasHistory
<1>3. Claim(H, p.id, p.off, p.data)
  BY <1>2 DEF HasHistory
<1> QED BY <1>1, <1>2, <1>3

LEMMA LinkPromises ==
  ASSUME NEW H, NEW n \in Nat, NEW w \in Nat, NEW s, NEW c, NEW r,
         NEW p \in ServerOf(n, w), HasHistory(H, p), LinkOK(H, n, w, s, c, r, p)
  PROVE  Answered(n, r, c.out) \/ Promised(H, n, w, r, c.out)
<1>1. c.st \in {"psync", "start", "end", "online", "closed"} /\ c.initial \in Nat
  BY LinkFields DEF LinkOK
<1>2. CASE c.st \in {"psync", "start"}
  BY <1>2 DEF LinkOK, Asking, Waiting, Answered
<1>3. CASE c.st = "end"
  <2>1. p.id \in 1 .. n
    BY DEF ServerOf
  <2>2. \/ r.state = "psync" /\ c.out = <<FullResyncMsg(p.id, c.initial)>>
        \/ r.state = "transfer" /\ c.out = <<>>
    BY <1>3 DEF LinkOK, Snapshot
  <2> QED BY <1>1, <2>1, <2>2 DEF Answered
<1>4. CASE c.st = "online"
  <2>1. Delivers(H, n, w, r, c.out, p.id, p.off, p.data)
    BY <1>4 DEF LinkOK, Fed
  <2>2. p.backlog # None
    BY <1>4 DEF LinkOK, Attached
  <2> QED BY <2>1, <2>2, PrimaryClaims DEF Promised
<1>5. CASE c.st = "closed"
  BY <1>5 DEF LinkOK, Closed, Promised
<1> QED BY <1>1, <1>2, <1>3, <1>4, <1>5

(* The other end closes the connection.                                    *)
LEMMA LinkCloses ==
  ASSUME NEW H, NEW n \in Nat, NEW w \in Nat, NEW s, NEW c, NEW r,
         NEW p \in ServerOf(n, w), HasHistory(H, p), LinkOK(H, n, w, s, c, r, p), NEW q
  PROVE  LinkOK(H, n, w, s, Connection(c.to, "closed", c.out), r, q)
<1> DEFINE k == Connection(c.to, "closed", c.out)
<1>1. c \in Link /\ c.to = r.host
  BY DEF LinkOK
<1>2. k \in Link /\ k.to = c.to /\ k.st = "closed" /\ k.out = c.out /\ k.pend = <<>>
  BY <1>1, LinkFields, ConnectionType
<1>3. <<>> \in Data(w)
  BY WordsOfData
<1> HIDE DEF k
<1>4. Closed(H, n, w, k, r)
  <2>1. Answered(n, r, c.out) \/ Promised(H, n, w, r, c.out)
    BY LinkPromises
  <2> QED BY <2>1, <1>2 DEF Closed, Promised
<1>5. Asking(s, k, r) /\ Attached(s, k, q) /\ Waiting(k, r) /\ Snapshot(k, r, q)
      /\ Fed(H, n, w, k, r, q)
  BY <1>2 DEF Asking, Attached, Waiting, Snapshot, Fed
<1> QED BY <1>1, <1>2, <1>3, <1>4, <1>5 DEF LinkOK, k

(* A connection that is not served does not depend on the other end.       *)
LEMMA UnservedFrame ==
  ASSUME NEW H, NEW n, NEW w, NEW s, NEW c, NEW r, NEW p, NEW q,
         LinkOK(H, n, w, s, c, r, p), c.st \in {"psync", "closed"}
  PROVE  LinkOK(H, n, w, s, c, r, q)
BY DEF LinkOK, Attached, Snapshot, Fed

LEMMA FirstAppend ==
  ASSUME NEW m \in Message, NEW q \in Seq(Message), NEW x \in Message
  PROVE  Append(<<m>> \o q, x) = <<m>> \o Append(q, x)
<1> DEFINE M == Message
<1>1. <<m>> \in Seq(M) /\ q \in Seq(M) /\ <<x>> \in Seq(M) /\ m \in M /\ x \in M
  OBVIOUS
<1> HIDE DEF M
<1>2. <<m>> \o q \in Seq(M)
  BY <1>1, ConcatProperties
<1>3. Append(q, x) = q \o <<x>> /\ Append(<<m>> \o q, x) = (<<m>> \o q) \o <<x>>
  BY <1>1, <1>2, AppendIsConcat
<1>4. (<<m>> \o q) \o <<x>> = <<m>> \o (q \o <<x>>)
  BY <1>1, ConcatAssociative
<1> QED BY <1>3, <1>4

LEMMA DataAppend ==
  ASSUME NEW w \in Nat, NEW u \in Data(w), NEW e \in 1 .. w
  PROVE  /\ Append(u, e) \in Data(w) /\ Len(Append(u, e)) = Len(u) + 1 /\ Len(u) \in Nat
         /\ u \in Words /\ e \in Nat
BY WordsOfData, AppendProperties, LenProperties DEF Data

(* One command more in the connection of a replica.                        *)
LEMMA DeliversMore ==
  ASSUME NEW H, NEW n \in Nat, NEW w \in Nat, NEW r \in ServerOf(n, w), Shape(r), NEW out,
         NEW i \in Nat, NEW o \in Nat, NEW d, NEW e \in 1 .. w,
         Delivers(H, n, w, r, out, i, o, d)
  PROVE  Delivers(H, n, w, r, Append(out, CommandMsg(e)), i, o + 1, Append(d, e))
<1> DEFINE x == CommandMsg(e)
<1>1. r.data \in Words /\ r.off \in Nat /\ e \in Nat
  BY WordsOfData DEF ServerOf
<1>2. x \in Message
  BY <1>1 DEF CommandMsg, Message
<1>3. \A u \in Data(w), a \in Words, z \in Nat :
        /\ Append(u, e) \in Data(w) /\ Append(Commands(u), x) = Commands(Append(u, e))
        /\ Append(a \o u, e) = a \o Append(u, e)
        /\ (z + Len(u)) + 1 = z + Len(Append(u, e))
        /\ Commands(u) \in Seq(Message)
  <2> TAKE u \in Data(w), a \in Words, z \in Nat
  <2>1. Append(u, e) \in Data(w) /\ Len(Append(u, e)) = Len(u) + 1 /\ Len(u) \in Nat /\ u \in Words
    BY DataAppend
  <2>2. Append(Commands(u), x) = Commands(Append(u, e)) /\ Commands(u) \in Seq(Message)
    BY <1>1, <2>1, CommandsAppend, CommandsOf
  <2>3. Append(a \o u, e) = a \o Append(u, e)
    BY <1>1, <2>1, AppendCat
  <2>4. (z + Len(u)) + 1 = z + Len(Append(u, e))
    BY <2>1
  <2> QED BY <2>1, <2>2, <2>3, <2>4
<1>3a. \A u \in Data(w) :
        Append(Commands(u), x) = Commands(Append(u, e)) /\ Commands(u) \in Seq(Message)
  BY <1>1, <1>3
<1> HIDE DEF x
<1>4. \A f \in FileOf(n, w) : f.data \in Words /\ RdbMsg(f) \in Message
  BY FileFields, MessageTypes
<1>5. CASE Applies(w, r, out, i, o, d)
  <2>1. PICK u \in Data(w) :
        /\ r.state = "connected" /\ out = Commands(u)
        /\ i = r.id /\ o = r.off + Len(u) /\ d = r.data \o u
    BY <1>5 DEF Applies
  <2>2. Append(out, x) = Commands(Append(u, e)) /\ o + 1 = r.off + Len(Append(u, e))
        /\ Append(d, e) = r.data \o Append(u, e) /\ Append(u, e) \in Data(w)
    BY <2>1, <1>1, <1>3
  <2>3. Applies(w, r, Append(out, x), i, o + 1, Append(d, e))
    BY <2>1, <2>2 DEF Applies
  <2> QED BY <2>3 DEF Delivers, x
<1>6. CASE Continues(w, r, out, i, o, d)
  <2>1. PICK u \in Data(w) :
        /\ r.state = "psync" /\ r.cached # None
        /\ out = <<ContinueMsg(i)>> \o Commands(u)
        /\ o = r.off + Len(u) /\ d = r.data \o u
    BY <1>6 DEF Continues
  <2>2. o + 1 = r.off + Len(Append(u, e)) /\ Append(u, e) \in Data(w)
        /\ Append(d, e) = r.data \o Append(u, e)
    BY <2>1, <1>1, <1>3
  <2>3. Append(out, x) = <<ContinueMsg(i)>> \o Commands(Append(u, e))
    <3>1. ContinueMsg(i) \in Message
      BY MessageTypes
    <3>2. Append(<<ContinueMsg(i)>> \o Commands(u), x) = <<ContinueMsg(i)>> \o Append(Commands(u), x)
      BY <3>1, <1>2, <1>3a, FirstAppend
    <3> QED BY <2>1, <3>2, <1>3a
  <2>4. Continues(w, r, Append(out, x), i, o + 1, Append(d, e))
    BY <2>1, <2>2, <2>3 DEF Continues
  <2> QED BY <2>4 DEF Delivers, x
<1>7. CASE Loads(H, n, w, r, out, i, o, d)
  <2>1. PICK u \in Data(w), f \in FileOf(n, w) :
        /\ r.state = "transfer" /\ out = <<RdbMsg(f)>> \o Commands(u)
        /\ FileOK(H, f)
        /\ i = r.initial.id /\ o = r.initial.off + Len(u) /\ d = f.data \o u
    BY <1>7 DEF Loads
  <2>2. r.initial \in PositionOf(n) \cup {None} /\ Len(u) \in Nat
    BY DataAppend DEF ServerOf
  <2>3. o + 1 = r.initial.off + Len(Append(u, e))
    <3>1. Len(Append(u, e)) = Len(u) + 1
      BY DataAppend
    <3> DEFINE z == r.initial.off
    <3>2. z \in Nat /\ o = z + Len(u)
      BY <2>1, <2>2 DEF PositionOf, Shape
    <3> HIDE DEF z
    <3>3. o + 1 = z + Len(Append(u, e))
      BY <3>1, <3>2, <2>2
    <3> QED BY <3>3 DEF z
  <2>4. Append(d, e) = f.data \o Append(u, e) /\ Append(u, e) \in Data(w)
    BY <2>1, <1>1, <1>3, <1>4
  <2>5. Append(out, x) = <<RdbMsg(f)>> \o Commands(Append(u, e))
    <3>1. Append(<<RdbMsg(f)>> \o Commands(u), x) = <<RdbMsg(f)>> \o Append(Commands(u), x)
      BY <1>2, <1>3a, <1>4, FirstAppend
    <3> QED BY <2>1, <3>1, <1>3a
  <2>6. Loads(H, n, w, r, Append(out, x), i, o + 1, Append(d, e))
    BY <2>1, <2>3, <2>4, <2>5 DEF Loads
  <2> QED BY <2>6 DEF Delivers, x
<1>8. CASE Resyncs(H, n, w, r, out, i, o, d)
  <2>1. PICK u \in Data(w), f \in FileOf(n, w), k \in Nat :
        /\ r.state = "psync"
        /\ out = <<FullResyncMsg(i, k)>> \o (<<RdbMsg(f)>> \o Commands(u))
        /\ FileOK(H, f)
        /\ o = k + Len(u) /\ d = f.data \o u
    BY <1>8 DEF Resyncs
  <2>2. o + 1 = k + Len(Append(u, e)) /\ Append(u, e) \in Data(w)
        /\ Append(d, e) = f.data \o Append(u, e)
    BY <2>1, <1>1, <1>3, <1>4
  <2>3. Append(<<RdbMsg(f)>> \o Commands(u), x) = <<RdbMsg(f)>> \o Commands(Append(u, e))
        /\ <<RdbMsg(f)>> \o Commands(u) \in Seq(Message)
    <3>1. Append(<<RdbMsg(f)>> \o Commands(u), x) = <<RdbMsg(f)>> \o Append(Commands(u), x)
      BY <1>2, <1>3a, <1>4, FirstAppend
    <3>2. <<RdbMsg(f)>> \o Commands(u) \in Seq(Message)
      BY <1>3a, <1>4, First
    <3> QED BY <3>1, <3>2, <1>3a
  <2>4. FullResyncMsg(i, k) \in Message
    BY MessageTypes
  <2>5. Append(out, x) = <<FullResyncMsg(i, k)>> \o (<<RdbMsg(f)>> \o Commands(Append(u, e)))
    BY <2>1, <2>3, <2>4, <1>2, FirstAppend
  <2>6. Resyncs(H, n, w, r, Append(out, x), i, o + 1, Append(d, e))
    BY <2>1, <2>2, <2>5 DEF Resyncs
  <2> QED BY <2>6 DEF Delivers, x
<1> QED BY <1>5, <1>6, <1>7, <1>8 DEF Delivers

(* q is p with one command more in its stream.                             *)
OneMore(p, q, e) ==
    /\ q.id = p.id /\ q.off = p.off + 1 /\ q.data = Append(p.data, e)
    /\ q.backlog # None /\ q.child = p.child

LEMMA LinkFeeds ==
  ASSUME NEW H, NEW n \in Nat, NEW w \in Nat, NEW s, NEW c, NEW r \in ServerOf(n, w), Shape(r),
         NEW p \in ServerOf(n, w), NEW q, NEW e \in 1 .. w,
         LinkOK(H, n, w, s, c, r, p), OneMore(p, q, e)
  PROVE  /\ c.st = "online" =>
                LinkOK(H, n, w, s, [c EXCEPT !.out = Append(@, CommandMsg(e))], r, q)
         /\ c.st = "end" => LinkOK(H, n, w, s, [c EXCEPT !.pend = Append(@, e)], r, q)
         /\ c.st \notin {"online", "end"} => LinkOK(H, n, w, s, c, r, q)
<1>1. /\ c \in Link /\ c.to = r.host /\ c.pend \in Data(w)
      /\ Asking(s, c, r) /\ Attached(s, c, p) /\ Waiting(c, r)
      /\ Snapshot(c, r, p) /\ Fed(H, n, w, c, r, p) /\ Closed(H, n, w, c, r)
  BY DEF LinkOK
<1>2. CommandMsg(e) \in Message /\ c.out \in Seq(Message)
  BY <1>1, LinkFields DEF CommandMsg, Message
<1>3. p.id \in Nat /\ p.off \in Nat /\ p.data \in Data(w)
  BY DEF ServerOf
<1>4. ASSUME c.st = "online"
      PROVE  LinkOK(H, n, w, s, [c EXCEPT !.out = Append(@, CommandMsg(e))], r, q)
  <2> DEFINE out == Append(c.out, CommandMsg(e))
             k == [c EXCEPT !.out = out]
  <2>1. out \in Seq(Message)
    BY <1>2, AppendProperties
  <2>2. Delivers(H, n, w, r, out, p.id, p.off + 1, Append(p.data, e))
    BY <1>1, <1>3, <1>4, DeliversMore DEF Fed
  <2> HIDE DEF out
  <2>3. k \in Link /\ k.to = c.to /\ k.pend = c.pend /\ k.st = "online" /\ k.out = out
    BY <1>1, <1>4, <2>1 DEF Link
  <2> HIDE DEF k
  <2>4. Fed(H, n, w, k, r, q)
    BY <2>2, <2>3 DEF Fed, OneMore
  <2>5. Asking(s, k, r) /\ Attached(s, k, q) /\ Waiting(k, r) /\ Snapshot(k, r, q)
        /\ Closed(H, n, w, k, r)
    BY <1>1, <1>4, <2>3 DEF Asking, Attached, Waiting, Snapshot, Closed, OneMore
  <2>6. LinkOK(H, n, w, s, k, r, q)
    BY <1>1, <2>3, <2>4, <2>5 DEF LinkOK
  <2> QED BY <2>6 DEF k, out
<1>5. ASSUME c.st = "end" PROVE LinkOK(H, n, w, s, [c EXCEPT !.pend = Append(@, e)], r, q)
  <2> DEFINE pend == Append(c.pend, e)
             k == [c EXCEPT !.pend = pend]
  <2>1. pend \in Data(w) /\ pend \in Words /\ Len(pend) = Len(c.pend) + 1 /\ Len(c.pend) \in Nat
        /\ c.pend \in Words /\ e \in Nat
    BY <1>1, DataAppend, WordsOfData
  <2>2. p.child # None /\ p.child.data \o c.pend = p.data /\ c.initial + Len(c.pend) = p.off
        /\ c.initial \in Nat
    BY <1>1, <1>5, LinkFields DEF Snapshot
  <2>3. p.child.data \in Words
    BY <2>2, FileFields DEF ServerOf
  <2>4. p.child.data \o pend = Append(p.data, e)
    <3> DEFINE a == p.child.data
               b == c.pend
    <3>1. a \in Words /\ b \in Words /\ a \o b = p.data
      BY <2>1, <2>2, <2>3
    <3> HIDE DEF a, b
    <3>2. Append(a \o b, e) = a \o Append(b, e)
      BY <2>1, <3>1, AppendCat
    <3> QED BY <3>1, <3>2 DEF a, b
  <2>5. c.initial + Len(pend) = p.off + 1
    <3> DEFINE a == c.initial
               b == Len(c.pend)
               d == p.off
    <3>1. a \in Nat /\ b \in Nat /\ a + b = d /\ Len(pend) = b + 1
      BY <2>1, <2>2
    <3> HIDE DEF a, b, d, pend
    <3>2. a + Len(pend) = d + 1
      BY <3>1
    <3> QED BY <3>2 DEF a, d
  <2> HIDE DEF pend
  <2>6. k \in Link /\ k.to = c.to /\ k.pend = pend /\ k.st = "end" /\ k.out = c.out
        /\ k.initial = c.initial
    BY <1>1, <1>5, <2>1 DEF Link, Words
  <2> HIDE DEF k
  <2>7. Snapshot(k, r, q)
    BY <1>1, <1>5, <2>2, <2>4, <2>5, <2>6 DEF Snapshot, OneMore
  <2>8. Asking(s, k, r) /\ Attached(s, k, q) /\ Waiting(k, r) /\ Fed(H, n, w, k, r, q)
        /\ Closed(H, n, w, k, r)
    BY <1>1, <1>5, <2>6 DEF Asking, Attached, Waiting, Fed, Closed, OneMore
  <2>9. LinkOK(H, n, w, s, k, r, q)
    BY <1>1, <2>1, <2>6, <2>7, <2>8 DEF LinkOK
  <2> QED BY <2>9 DEF k, pend
<1>6. ASSUME c.st \notin {"online", "end"} PROVE LinkOK(H, n, w, s, c, r, q)
  BY <1>1, <1>6 DEF LinkOK, Attached, Snapshot, Fed, OneMore
<1> QED BY <1>4, <1>5, <1>6

(* A snapshot is begun or done: only the connections that wait for it care. *)
LEMMA SnapshotFrame ==
  ASSUME NEW H, NEW n, NEW w, NEW s, NEW c, NEW r, NEW p, NEW q,
         LinkOK(H, n, w, s, c, r, p), c.st # "end",
         q.id = p.id, q.off = p.off, q.data = p.data, q.backlog = p.backlog
  PROVE  LinkOK(H, n, w, s, c, r, q)
BY DEF LinkOK, Attached, Snapshot, Fed

LEMMA LinkWaits ==
  ASSUME NEW H, NEW n, NEW w \in Nat, NEW s, NEW c, NEW r,
         NEW p \in ServerOf(n, w), NEW q, LinkOK(H, n, w, s, c, r, p), c.st = "start",
         q.id = p.id, q.off = p.off, q.data = p.data, q.backlog = p.backlog,
         q.child = RdbFile(p), q.child # None
  PROVE  LinkOK(H, n, w, s, [c EXCEPT !.st = "end", !.initial = p.off,
                                      !.out = <<FullResyncMsg(p.id, p.off)>>], r, q)
<1> DEFINE out == <<FullResyncMsg(p.id, p.off)>>
           k == [c EXCEPT !.st = "end", !.initial = p.off, !.out = out]
<1>1. /\ c \in Link /\ c.to = r.host /\ c.pend \in Data(w) /\ c.pend = <<>>
      /\ r.state = "psync" /\ p.backlog # None /\ c.to # s
  BY DEF LinkOK, Waiting, Attached
<1>2. p.id \in Nat /\ p.off \in Nat /\ p.data \in Words
  BY WordsOfData DEF ServerOf
<1>3. out \in Seq(Message)
  BY <1>2, MessageTypes
<1> HIDE DEF out
<1>4. k \in Link /\ k.to = c.to /\ k.pend = <<>> /\ k.st = "end" /\ k.out = out
      /\ k.initial = p.off
  BY <1>1, <1>2, <1>3 DEF Link
<1>5. q.child.data = p.data
  BY DEF RdbFile
<1>6. q.child.data \o <<>> = q.data /\ p.off + Len(<<>>) = q.off
  BY <1>2, <1>5, CatEmpty
<1> HIDE DEF k
<1>7. Snapshot(k, r, q)
  BY <1>1, <1>4, <1>6 DEF Snapshot, out
<1>8. Asking(s, k, r) /\ Attached(s, k, q) /\ Waiting(k, r) /\ Fed(H, n, w, k, r, q)
      /\ Closed(H, n, w, k, r)
  BY <1>1, <1>4 DEF Asking, Attached, Waiting, Fed, Closed
<1>9. LinkOK(H, n, w, s, k, r, q)
  BY <1>1, <1>4, <1>7, <1>8 DEF LinkOK
<1> QED BY <1>9 DEF k, out

LEMMA LinkOnline ==
  ASSUME NEW H, NEW n \in Nat, NEW w \in Nat, NEW s, NEW c, NEW r,
         NEW p \in ServerOf(n, w), HasHistory(H, p), NEW q,
         LinkOK(H, n, w, s, c, r, p), c.st = "end",
         q.id = p.id, q.off = p.off, q.data = p.data, q.backlog = p.backlog
  PROVE  LinkOK(H, n, w, s, Connection(c.to, "online",
                    c.out \o <<RdbMsg(p.child)>> \o Commands(c.pend)), r, q)
<1> DEFINE f == p.child
           u == c.pend
           out == c.out \o <<RdbMsg(f)>> \o Commands(u)
           k == Connection(c.to, "online", out)
<1>1. /\ c \in Link /\ c.to = r.host /\ u \in Data(w)
      /\ p.backlog # None /\ c.to # s /\ p.child # None
      /\ f.data \o u = p.data /\ c.initial + Len(u) = p.off
      /\ \/ r.state = "psync" /\ c.out = <<FullResyncMsg(p.id, c.initial)>>
         \/ /\ r.state = "transfer" /\ c.out = <<>>
            /\ r.initial = Pos(p.id, c.initial)
  BY DEF LinkOK, Snapshot, Attached
<1>2. f \in FileOf(n, w) /\ FileOK(H, f) /\ p.id \in Nat /\ c.initial \in Nat
  BY <1>1, LinkFields DEF ServerOf, HasHistory
<1>3. RdbMsg(f) \in Message /\ FullResyncMsg(p.id, c.initial) \in Message
  BY <1>2, FileFields, MessageTypes
<1>4. Commands(u) \in Seq(Message) /\ c.out \in Seq(Message)
  BY <1>1, WordsOfData, CommandsOf, LinkFields
<1>5. out = c.out \o (<<RdbMsg(f)>> \o Commands(u)) /\ out \in Seq(Message)
  <2> DEFINE M == Message
             a == c.out
             b == <<RdbMsg(f)>>
             d == Commands(u)
  <2>1. a \in Seq(M) /\ b \in Seq(M) /\ d \in Seq(M)
    BY <1>3, <1>4
  <2> HIDE DEF M, a, b, d
  <2>2. a \o b \in Seq(M)
    BY <2>1, ConcatProperties
  <2>3. (a \o b) \o d \in Seq(M) /\ (a \o b) \o d = a \o (b \o d)
    BY SMTT(30), <2>1, <2>2, ConcatProperties, ConcatAssociative
  <2> QED BY <2>3 DEF M, a, b, d
<1>6. <<>> \o (<<RdbMsg(f)>> \o Commands(u)) = <<RdbMsg(f)>> \o Commands(u)
  <2> DEFINE a == <<RdbMsg(f)>> \o Commands(u)
  <2>1. a \in Seq(Message)
    BY <1>3, <1>4, First
  <2> HIDE DEF a
  <2>2. <<>> \o a = a
    BY <2>1, ConcatEmptySeq
  <2> QED BY <2>2 DEF a
<1> HIDE DEF f, u, out
<1>7. Delivers(H, n, w, r, out, p.id, p.off, p.data)
  <2>1. CASE r.state = "psync" /\ c.out = <<FullResyncMsg(p.id, c.initial)>>
    <3>1. out = <<FullResyncMsg(p.id, c.initial)>> \o (<<RdbMsg(f)>> \o Commands(u))
      BY <2>1, <1>5
    <3>2. Resyncs(H, n, w, r, out, p.id, p.off, p.data)
      BY <2>1, <3>1, <1>1, <1>2 DEF Resyncs
    <3> QED BY <3>2 DEF Delivers
  <2>2. CASE r.state = "transfer" /\ c.out = <<>> /\ r.initial = Pos(p.id, c.initial)
    <3>1. out = <<RdbMsg(f)>> \o Commands(u)
      BY <2>2, <1>5, <1>6
    <3>2. r.initial.id = p.id /\ r.initial.off = c.initial
      BY <2>2 DEF Pos
    <3>3. Loads(H, n, w, r, out, p.id, p.off, p.data)
      BY <2>2, <3>1, <3>2, <1>1, <1>2 DEF Loads
    <3> QED BY <3>3 DEF Delivers
  <2> QED BY <2>1, <2>2, <1>1
<1>8. k \in Link /\ k.to = c.to /\ k.st = "online" /\ k.out = out /\ k.pend = <<>>
  <2>1. c.to \in Server
    BY <1>1, LinkFields
  <2>2. out \in Seq(Message)
    BY <1>5
  <2> QED BY <2>1, <2>2, ConnectionType
<1> HIDE DEF k
<1>9. <<>> \in Data(w)
  BY WordsOfData
<1>10. Asking(s, k, r) /\ Attached(s, k, q) /\ Waiting(k, r) /\ Snapshot(k, r, q)
       /\ Fed(H, n, w, k, r, q) /\ Closed(H, n, w, k, r)
  BY <1>1, <1>7, <1>8 DEF Asking, Attached, Waiting, Snapshot, Fed, Closed
<1>11. LinkOK(H, n, w, s, k, r, q)
  BY <1>1, <1>8, <1>9, <1>10 DEF LinkOK
<1> QED BY <1>11 DEF k, out, f, u

(* New connections of a replica that has asked.                            *)
LEMMA NewLink ==
  ASSUME NEW H, NEW n \in Nat, NEW w \in Nat, NEW s, NEW r \in ServerOf(n, w), r.state = "psync",
         r.host \in Server, NEW p
  PROVE  /\ LinkOK(H, n, w, s, Connection(r.host, "closed", <<ErrorMsg>>), r, p)
         /\ p.backlog # None /\ r.host # s =>
                LinkOK(H, n, w, s, Connection(r.host, "start", <<>>), r, p)
<1>1. <<ErrorMsg>> \in Seq(Message) /\ <<>> \in Seq(Message) /\ <<>> \in Data(w)
  BY MessageTypes, WordsOfData
<1> DEFINE e == <<ErrorMsg>>
           z == <<>>
           a == Connection(r.host, "closed", e)
           b == Connection(r.host, "start", z)
<1>1a. e \in Seq(Message) /\ z \in Seq(Message)
  BY <1>1
<1> HIDE DEF e, z
<1>2. a \in Link /\ a.to = r.host /\ a.st = "closed" /\ a.out = e /\ a.pend = <<>>
  BY <1>1a, ConnectionType
<1>3. b \in Link /\ b.to = r.host /\ b.st = "start" /\ b.out = z /\ b.pend = <<>>
  BY <1>1a, ConnectionType
<1> HIDE DEF a, b
<1>4. LinkOK(H, n, w, s, a, r, p)
  BY <1>1, <1>2 DEF LinkOK, Asking, Attached, Waiting, Snapshot, Fed, Closed, Answered, e
<1>5. p.backlog # None /\ r.host # s => LinkOK(H, n, w, s, b, r, p)
  BY <1>1, <1>3 DEF LinkOK, Asking, Attached, Waiting, Snapshot, Fed, Closed, z
<1> QED BY <1>4, <1>5 DEF a, b, e, z

LEMMA SharedLink ==
  ASSUME NEW H, NEW n \in Nat, NEW w \in Nat, NEW s, NEW t, NEW r, r.state = "psync",
         NEW c, NEW x, NEW p \in ServerOf(n, w), LinkOK(H, n, w, t, c, x, p),
         c.st = "end", c.to = r.host, c.to # s
  PROVE  LinkOK(H, n, w, s, [c EXCEPT !.out = <<FullResyncMsg(p.id, c.initial)>>], r, p)
<1> DEFINE out == <<FullResyncMsg(p.id, c.initial)>>
           k == [c EXCEPT !.out = out]
<1>1. /\ c \in Link /\ c.pend \in Data(w)
      /\ p.child # None /\ p.backlog # None
      /\ p.child.data \o c.pend = p.data /\ c.initial + Len(c.pend) = p.off
  BY DEF LinkOK, Snapshot, Attached
<1>2. out \in Seq(Message)
  <2>1. p.id \in Nat /\ c.initial \in Nat
    BY <1>1, LinkFields DEF ServerOf
  <2> QED BY <2>1, MessageTypes
<1> HIDE DEF out
<1>3. k \in Link /\ k.to = c.to /\ k.pend = c.pend /\ k.st = "end" /\ k.out = out
      /\ k.initial = c.initial
  BY <1>1, <1>2 DEF Link
<1> HIDE DEF k
<1>4. Snapshot(k, r, p)
  BY <1>1, <1>3 DEF Snapshot, out
<1>5. Asking(s, k, r) /\ Attached(s, k, p) /\ Waiting(k, r) /\ Fed(H, n, w, k, r, p)
      /\ Closed(H, n, w, k, r)
  BY <1>1, <1>3 DEF Asking, Attached, Waiting, Fed, Closed
<1>6. LinkOK(H, n, w, s, k, r, p)
  BY <1>1, <1>3, <1>4, <1>5 DEF LinkOK
<1> QED BY <1>6 DEF k, out

LEMMA ResumedLink ==
  ASSUME NEW H, NEW n \in Nat, NEW w \in Nat, NEW s, NEW r \in ServerOf(n, w), r.state = "psync",
         r.host \in Server, r.host # s, r.cached # None,
         NEW p \in ServerOf(n, w), p.backlog # None, NEW out, Resumes(w, p, r.data, r.off, out)
  PROVE  LinkOK(H, n, w, s, Connection(r.host, "online", <<ContinueMsg(p.id)>> \o out), r, p)
<1> DEFINE o == <<ContinueMsg(p.id)>> \o out
           k == Connection(r.host, "online", o)
<1>1. PICK u \in Data(w) : out = Commands(u) /\ p.data = r.data \o u /\ p.off = r.off + Len(u)
  BY DEF Resumes
<1>2. p.id \in Nat
  BY DEF ServerOf
<1>3. out \in Seq(Message)
  BY <1>1, WordsOfData, CommandsOf
<1>4. o \in Seq(Message)
  BY <1>2, <1>3, MessageTypes, First
<1>5. Continues(w, r, o, p.id, p.off, p.data)
  BY <1>1 DEF Continues
<1>6. Delivers(H, n, w, r, o, p.id, p.off, p.data)
  BY <1>5 DEF Delivers
<1> HIDE DEF o
<1>7. k \in Link /\ k.to = r.host /\ k.st = "online" /\ k.out = o /\ k.pend = <<>>
  BY <1>4, ConnectionType
<1> HIDE DEF k
<1>8. <<>> \in Data(w)
  BY WordsOfData
<1>9. Asking(s, k, r) /\ Attached(s, k, p) /\ Waiting(k, r) /\ Snapshot(k, r, p)
      /\ Fed(H, n, w, k, r, p) /\ Closed(H, n, w, k, r)
  BY <1>6, <1>7 DEF Asking, Attached, Waiting, Snapshot, Fed, Closed
<1>10. LinkOK(H, n, w, s, k, r, p)
  BY <1>7, <1>8, <1>9 DEF LinkOK
<1> QED BY <1>10 DEF k, o

-------------------------------------------------------------------------------
(* A replica reads.                                                        *)

(* What a replica that follows its primary has now is in the history too.  *)
LEMMA DeliversNow ==
  ASSUME NEW H, NEW n \in Nat, NEW w \in Nat, NEW r, r.data \in Words, r.off \in Nat,
         r.state = "connected", NEW out, NEW i, NEW o, NEW d,
         Delivers(H, n, w, r, out, i, o, d), Claim(H, i, o, d)
  PROVE  r.id = i /\ Claim(H, r.id, r.off, r.data)
<1>1. Applies(w, r, out, i, o, d)
  BY DEF Delivers, Continues, Loads, Resyncs
<1>2. PICK u \in Data(w) : i = r.id /\ o = r.off + Len(u) /\ d = r.data \o u
  BY <1>1 DEF Applies
<1>3. u \in Words
  BY WordsOfData
<1>4. In(H[i], r.off + Len(u), r.data \o u) /\ i \in DOMAIN H
  BY <1>2 DEF Claim
<1>5. In(H[i], r.off, r.data)
  BY <1>3, <1>4, InPrefix
<1> QED BY <1>2, <1>4, <1>5 DEF Claim

LEMMA ReadCommand ==
  ASSUME NEW H, NEW n \in Nat, NEW w \in Nat, NEW r, r.data \in Words, r.off \in Nat,
         r.state = "connected", NEW out, out # <<>>, NEW i, NEW o, NEW d,
         Delivers(H, n, w, r, out, i, o, d), NEW q,
         q.state = "connected", q.id = r.id, q.off = r.off + 1,
         q.data = Append(r.data, Head(out).e)
  PROVE  Delivers(H, n, w, q, Tail(out), i, o, d)
<1>1. Applies(w, r, out, i, o, d)
  BY DEF Delivers, Continues, Loads, Resyncs
<1>2. PICK u \in Data(w) :
        out = Commands(u) /\ i = r.id /\ o = r.off + Len(u) /\ d = r.data \o u
  BY <1>1 DEF Applies
<1>3. u # <<>> /\ u \in Words
  BY <1>2, CommandsEmpty, WordsOfData
<1>4. Head(out) = CommandMsg(Head(u)) /\ Tail(out) = Commands(Tail(u))
  BY <1>2, <1>3, CommandsHead
<1>5. Head(out).e = Head(u)
  BY <1>4 DEF CommandMsg
<1>6. Append(r.data, Head(u)) \o Tail(u) = r.data \o u /\ Len(u) = Len(Tail(u)) + 1
  BY <1>3, HeadCat
<1>7. Tail(u) \in Data(w) /\ Len(Tail(u)) \in Nat
  BY <1>3, HeadTailProperties, LenProperties DEF Data
<1>8. o = q.off + Len(Tail(u)) /\ d = q.data \o Tail(u)
  <2>1. d = q.data \o Tail(u)
    BY <1>2, <1>5, <1>6
  <2> DEFINE a == Len(Tail(u))
             b == r.off
  <2>2. a \in Nat /\ b \in Nat /\ o = b + (a + 1) /\ q.off = b + 1
    BY <1>2, <1>6, <1>7
  <2> HIDE DEF a, b
  <2>3. o = q.off + a
    BY <2>2
  <2> QED BY <2>1, <2>3 DEF a
<1>9. Applies(w, q, Tail(out), i, o, d)
  BY <1>2, <1>4, <1>7, <1>8 DEF Applies
<1> QED BY <1>9 DEF Delivers

LEMMA CommandRead ==
  ASSUME NEW H, NEW n \in Nat, NEW w \in Nat, NEW r, r.state = "connected", NEW out, out # <<>>,
         NEW i, NEW o, NEW d, Delivers(H, n, w, r, out, i, o, d)
  PROVE  Head(out).e \in 1 .. w
<1>1. Applies(w, r, out, i, o, d)
  BY DEF Delivers, Continues, Loads, Resyncs
<1>2. PICK u \in Data(w) : out = Commands(u)
  BY <1>1 DEF Applies
<1>3. u # <<>> /\ u \in Words
  BY <1>2, CommandsEmpty, WordsOfData
<1>4. Head(out) = CommandMsg(Head(u))
  BY <1>2, <1>3, CommandsHead
<1>5. Head(u) \in 1 .. w
  BY <1>3, HeadTailProperties DEF Data
<1> QED BY <1>4, <1>5 DEF CommandMsg

LEMMA ReadContinue ==
  ASSUME NEW H, NEW n \in Nat, NEW w \in Nat, NEW r, r.state = "psync", NEW out,
         NEW i \in Nat, NEW o, NEW d, Delivers(H, n, w, r, out, i, o, d), Head(out).k = "continue"
  PROVE  /\ r.cached # None /\ Head(out).id = i
         /\ \A q : q.state = "connected" /\ q.id = i /\ q.off = r.off /\ q.data = r.data
                    => Delivers(H, n, w, q, Tail(out), i, o, d)
<1>1. \A u \in Data(w) : Commands(u) \in Seq(Message)
  BY WordsOfData, CommandsOf
<1>2. ~Resyncs(H, n, w, r, out, i, o, d)
  <2> SUFFICES ASSUME Resyncs(H, n, w, r, out, i, o, d) PROVE FALSE
    OBVIOUS
  <2>1. PICK u \in Data(w), f \in FileOf(n, w), k \in Nat :
            out = <<FullResyncMsg(i, k)>> \o (<<RdbMsg(f)>> \o Commands(u))
    BY DEF Resyncs
  <2>2. RdbMsg(f) \in Message /\ FullResyncMsg(i, k) \in Message
    BY FileFields, MessageTypes
  <2>3. <<RdbMsg(f)>> \o Commands(u) \in Seq(Message)
    BY <1>1, <2>2, First
  <2>4. Head(out) = FullResyncMsg(i, k)
    BY <2>1, <2>2, <2>3, First
  <2> QED BY <2>4 DEF FullResyncMsg
<1>3. Continues(w, r, out, i, o, d)
  BY <1>2 DEF Delivers, Applies, Loads
<1>4. PICK u \in Data(w) :
        /\ r.cached # None /\ out = <<ContinueMsg(i)>> \o Commands(u)
        /\ o = r.off + Len(u) /\ d = r.data \o u
  BY <1>3 DEF Continues
<1>5. Head(out) = ContinueMsg(i) /\ Tail(out) = Commands(u)
  BY <1>1, <1>4, MessageTypes, First
<1>6. Head(out).id = i
  BY <1>5 DEF ContinueMsg
<1>7. ASSUME NEW q, q.state = "connected" /\ q.id = i /\ q.off = r.off /\ q.data = r.data
      PROVE  Delivers(H, n, w, q, Tail(out), i, o, d)
  <2>1. Applies(w, q, Tail(out), i, o, d)
    BY <1>4, <1>5, <1>7 DEF Applies
  <2> QED BY <2>1 DEF Delivers
<1> QED BY <1>4, <1>6, <1>7

LEMMA ReadResync ==
  ASSUME NEW H, NEW n \in Nat, NEW w \in Nat, NEW r, r.state = "psync", NEW out,
         NEW i \in Nat, NEW o, NEW d, Delivers(H, n, w, r, out, i, o, d),
         Head(out).k = "fullresync"
  PROVE  /\ Head(out).id = i /\ Head(out).off \in Nat
         /\ \A q : q.state = "transfer" /\ q.initial = Pos(Head(out).id, Head(out).off)
                    => Delivers(H, n, w, q, Tail(out), i, o, d)
<1>1. \A u \in Data(w) : Commands(u) \in Seq(Message)
  BY WordsOfData, CommandsOf
<1>2. ~Continues(w, r, out, i, o, d)
  <2> SUFFICES ASSUME Continues(w, r, out, i, o, d) PROVE FALSE
    OBVIOUS
  <2>1. PICK u \in Data(w) : out = <<ContinueMsg(i)>> \o Commands(u)
    BY DEF Continues
  <2>2. Head(out) = ContinueMsg(i)
    BY <1>1, <2>1, MessageTypes, First
  <2> QED BY <2>2 DEF ContinueMsg
<1>3. Resyncs(H, n, w, r, out, i, o, d)
  BY <1>2 DEF Delivers, Applies, Loads
<1>4. PICK u \in Data(w), f \in FileOf(n, w), k \in Nat :
        /\ out = <<FullResyncMsg(i, k)>> \o (<<RdbMsg(f)>> \o Commands(u))
        /\ FileOK(H, f) /\ o = k + Len(u) /\ d = f.data \o u
  BY <1>3 DEF Resyncs
<1>5. RdbMsg(f) \in Message /\ FullResyncMsg(i, k) \in Message
  BY FileFields, MessageTypes
<1>6. <<RdbMsg(f)>> \o Commands(u) \in Seq(Message)
  BY <1>1, <1>5, First
<1>7. Head(out) = FullResyncMsg(i, k) /\ Tail(out) = <<RdbMsg(f)>> \o Commands(u)
  BY <1>4, <1>5, <1>6, First
<1>8. Head(out).id = i /\ Head(out).off = k
  BY <1>7 DEF FullResyncMsg
<1>9. ASSUME NEW q, q.state = "transfer" /\ q.initial = Pos(Head(out).id, Head(out).off)
      PROVE  Delivers(H, n, w, q, Tail(out), i, o, d)
  <2>1. q.initial.id = i /\ q.initial.off = k
    BY <1>8, <1>9 DEF Pos
  <2>2. Loads(H, n, w, q, Tail(out), i, o, d)
    BY <1>4, <1>7, <1>9, <2>1 DEF Loads
  <2> QED BY <2>2 DEF Delivers
<1> QED BY <1>8, <1>9

LEMMA ReadRdb ==
  ASSUME NEW H, NEW n \in Nat, NEW w \in Nat, NEW r, r.state = "transfer", NEW out,
         NEW i, NEW o, NEW d, Delivers(H, n, w, r, out, i, o, d)
  PROVE  /\ Head(out).file \in FileOf(n, w) /\ FileOK(H, Head(out).file)
         /\ \A q : (/\ q.state = "connected" /\ q.data = Head(out).file.data
                    /\ q.id = r.initial.id /\ q.off = r.initial.off)
                    => Delivers(H, n, w, q, Tail(out), i, o, d)
<1>1. Loads(H, n, w, r, out, i, o, d)
  BY DEF Delivers, Applies, Continues, Resyncs
<1>2. PICK u \in Data(w), f \in FileOf(n, w) :
        /\ out = <<RdbMsg(f)>> \o Commands(u) /\ FileOK(H, f)
        /\ i = r.initial.id /\ o = r.initial.off + Len(u) /\ d = f.data \o u
  BY <1>1 DEF Loads
<1>3. Commands(u) \in Seq(Message) /\ RdbMsg(f) \in Message
  BY WordsOfData, CommandsOf, FileFields, MessageTypes
<1>4. Head(out) = RdbMsg(f) /\ Tail(out) = Commands(u)
  BY <1>2, <1>3, First
<1>5. Head(out).file = f
  BY <1>4 DEF RdbMsg
<1>6. ASSUME NEW q, /\ q.state = "connected" /\ q.data = Head(out).file.data
                    /\ q.id = r.initial.id /\ q.off = r.initial.off
      PROVE  Delivers(H, n, w, q, Tail(out), i, o, d)
  <2>1. Applies(w, q, Tail(out), i, o, d)
    BY <1>2, <1>4, <1>5, <1>6 DEF Applies
  <2> QED BY <2>1 DEF Delivers
<1>7. Head(out).file \in FileOf(n, w) /\ FileOK(H, Head(out).file)
  BY <1>2, <1>5
<1> QED BY <1>6, <1>7

-------------------------------------------------------------------------------
(* Steps of one server p: its state becomes r, and the connections E.      *)

Relinked(H, S, C, n, w, p, r, E) ==
    /\ E = [s \in Server |-> E[s]]
    /\ \A s \in Server \ {p} : C[s] = None \/ C[s].to # p => E[s] = C[s]
    /\ \A s \in Server \ {p} : C[s] # None /\ C[s].to = p =>
            E[s] # None /\ LinkOK(H, n, w, s, E[s], S[s], r)
    /\ r.state \in {"none", "connect"} <=> E[p] = None
    /\ E[p] # None =>
            LinkOK(H, n, w, p, E[p], r, IF E[p].to = p THEN r ELSE S[E[p].to])

LEMMA SystemStep ==
  ASSUME NEW H, NEW S, NEW C, NEW D, NEW n, NEW w, System(H, S, C, D, n, w),
         NEW p \in Server, NEW r, ServerOK(H, n, w, p, r), NEW E,
         Relinked(H, S, C, n, w, p, r, E)
  PROVE  System(H, [S EXCEPT ![p] = r], E, D, n, w)
<1> DEFINE T == [S EXCEPT ![p] = r]
<1>1. /\ Histories(H, n, w) /\ Files(H, D, n, w)
      /\ S \in [Server -> ServerOf(n, w)] /\ \A s \in Server : ServerOK(H, n, w, s, S[s])
      /\ C \in [Server -> Link \cup {None}] /\ \A s \in Server : LinkAt(H, S, C, n, w, s)
  BY DEF System, Servers, Links
<1>2. r \in ServerOf(n, w)
  BY DEF ServerOK
<1>3. T \in [Server -> ServerOf(n, w)] /\ T[p] = r /\ \A s \in Server : s # p => T[s] = S[s]
  BY <1>1, <1>2
<1> HIDE DEF T
<1>4. Servers(H, T, n, w)
  BY <1>1, <1>3 DEF Servers
<1>5. ASSUME NEW s \in Server PROVE E[s] \in Link \cup {None} /\ LinkAt(H, T, E, n, w, s)
  <2>1. CASE s = p
    <3>1. r.state \in {"none", "connect"} <=> E[p] = None
      BY DEF Relinked
    <3>2. E[p] # None =>
            LinkOK(H, n, w, p, E[p], r, IF E[p].to = p THEN r ELSE S[E[p].to])
      BY DEF Relinked
    <3>3. E[p] # None => E[p] \in Link /\ E[p].to \in Server
      BY <3>2, LinkFields DEF LinkOK
    <3>4. E[p] # None => (IF E[p].to = p THEN r ELSE S[E[p].to]) = T[E[p].to]
      BY <3>3, <1>3
    <3>5. E[p] # None => LinkOK(H, n, w, p, E[p], T[p], T[E[p].to])
      BY <3>2, <3>4, <1>3
    <3> QED BY <2>1, <3>1, <3>3, <3>5, <1>3 DEF LinkAt
  <2>2. CASE s # p /\ (C[s] = None \/ C[s].to # p)
    <3>1. E[s] = C[s] /\ T[s] = S[s]
      BY <2>2, <1>3 DEF Relinked
    <3>2. C[s] # None => C[s] \in Link /\ C[s].to \in Server
      BY <1>1, LinkFields
    <3>3. C[s] # None => T[C[s].to] = S[C[s].to]
      BY <2>2, <3>2, <1>3
    <3> QED BY <3>1, <3>2, <3>3, <1>1 DEF LinkAt
  <2>3. CASE s # p /\ C[s] # None /\ C[s].to = p
    <3>1. E[s] # None /\ LinkOK(H, n, w, s, E[s], S[s], r) /\ T[s] = S[s]
      BY <2>3, <1>3 DEF Relinked
    <3>2. C[s].to = S[s].host /\ ~(S[s].state \in {"none", "connect"})
      BY <2>3, <1>1 DEF LinkAt, LinkOK
    <3>3. E[s] \in Link /\ E[s].to = p
      BY <3>1, <3>2, <2>3 DEF LinkOK
    <3> QED BY <3>1, <3>2, <3>3, <1>3 DEF LinkAt
  <2> QED BY <2>1, <2>2, <2>3
<1>6. E \in [Server -> Link \cup {None}]
  BY <1>5 DEF Relinked
<1>7. Links(H, T, E, n, w)
  BY <1>5, <1>6 DEF Links
<1>8. System(H, T, E, D, n, w)
  BY <1>1, <1>4, <1>7 DEF System
<1> QED BY <1>8 DEF T

LEMMA FilesStep ==
  ASSUME NEW H, NEW S, NEW C, NEW D, NEW n, NEW w, System(H, S, C, D, n, w),
         NEW p \in Server, NEW f \in FileOf(n, w), FileOK(H, f)
  PROVE  System(H, S, C, [D EXCEPT ![p] = f], n, w)
<1>1. Files(H, [D EXCEPT ![p] = f], n, w)
  BY DEF System, Files
<1> QED BY <1>1 DEF System

LEMMA PrimariesStep ==
  ASSUME NEW H, NEW S, DOMAIN S = Server, Primaries(H, S), NEW p \in Server, NEW r,
         \/ r.host # None
         \/ /\ AtTip(H, r)
            /\ \A t \in Server \ {p} : S[t].host = None => S[t].id # r.id
  PROVE  Primaries(H, [S EXCEPT ![p] = r])
<1> DEFINE T == [S EXCEPT ![p] = r]
<1>1. T[p] = r /\ \A s \in Server : s # p => T[s] = S[s]
  OBVIOUS
<1>2. AtTip(H, r)
  BY DEF AtTip
<1> HIDE DEF T
<1>3. \A s \in Server : AtTip(H, T[s])
  BY <1>1, <1>2 DEF Primaries
<1>4. ASSUME NEW s \in Server, NEW t \in Server, s # t, T[s].host = None, T[t].host = None
      PROVE  T[s].id # T[t].id
  <2>1. CASE s = p
    BY <1>1, <1>4, <2>1
  <2>2. CASE t = p
    BY <1>1, <1>4, <2>2
  <2>3. CASE s # p /\ t # p
    BY <1>1, <1>4, <2>3 DEF Primaries
  <2> QED BY <2>1, <2>2, <2>3
<1>5. Primaries(H, T)
  BY <1>3, <1>4 DEF Primaries
<1> QED BY <1>5 DEF T

(* What is known of a server and of its connection.                        *)
LEMMA ServerFacts ==
  ASSUME NEW H, NEW S, NEW C, NEW D, NEW n, NEW w, System(H, S, C, D, n, w), NEW s \in Server
  PROVE  /\ n \in Nat /\ w \in Nat /\ Histories(H, n, w) /\ DOMAIN S = Server
         /\ ServerOK(H, n, w, s, S[s]) /\ S[s] \in ServerOf(n, w) /\ Shape(S[s])
         /\ Failover(s, S[s]) /\ HasHistory(H, S[s])
         /\ D[s] \in FileOf(n, w) /\ FileOK(H, D[s])
BY DEF System, Servers, ServerOK, Histories, Files

LEMMA LinkFacts ==
  ASSUME NEW H, NEW S, NEW C, NEW D, NEW n, NEW w, System(H, S, C, D, n, w), NEW s \in Server
  PROVE  /\ C = [t \in Server |-> C[t]]
         /\ S[s].state \in {"none", "connect"} <=> C[s] = None
         /\ C[s] # None =>
                /\ C[s] \in Link /\ C[s].to \in Server /\ C[s].to = S[s].host
                /\ LinkOK(H, n, w, s, C[s], S[s], S[C[s].to])
                /\ S[C[s].to] \in ServerOf(n, w) /\ HasHistory(H, S[C[s].to])
<1>1. C \in [Server -> Link \cup {None}] /\ LinkAt(H, S, C, n, w, s)
  BY DEF System, Links
<1>2. C = [t \in Server |-> C[t]]
  BY <1>1
<1>3. C[s] # None => C[s] \in Link /\ C[s].to \in Server
  BY <1>1, LinkFields
<1> QED BY <1>1, <1>2, <1>3, ServerFacts DEF LinkAt, LinkOK

LEMMA Disconnected ==
  ASSUME NEW X, NEW p, NEW s \in Server
  PROVE  /\ DisconnectReplicas(X, p) = [t \in Server |-> DisconnectReplicas(X, p)[t]]
         /\ s \in Replicas(X, p) =>
                DisconnectReplicas(X, p)[s] = Connection(X[s].to, "closed", X[s].out)
         /\ s \notin Replicas(X, p) => DisconnectReplicas(X, p)[s] = X[s]
BY DEF DisconnectReplicas, FreeClients

(* The connections to p when p has freed the clients of its replicas.      *)
LEMMA LeftLink ==
  ASSUME NEW H, NEW S, NEW C, NEW D, NEW n, NEW w, System(H, S, C, D, n, w),
         NEW p \in Server, NEW s \in Server, NEW X, X[s] = C[s], C[s] # None, C[s].to = p, NEW q
  PROVE  /\ DisconnectReplicas(X, p)[s] # None
         /\ LinkOK(H, n, w, s, DisconnectReplicas(X, p)[s], S[s], q)
<1>1. /\ n \in Nat /\ w \in Nat /\ C[s] \in Link /\ LinkOK(H, n, w, s, C[s], S[s], S[p])
      /\ S[p] \in ServerOf(n, w) /\ HasHistory(H, S[p])
  BY ServerFacts, LinkFacts
<1>2. CASE s \in Replicas(X, p)
  <2>1. DisconnectReplicas(X, p)[s] = Connection(C[s].to, "closed", C[s].out)
    BY <1>2, Disconnected
  <2>2. LinkOK(H, n, w, s, Connection(C[s].to, "closed", C[s].out), S[s], q)
    BY <1>1, LinkCloses
  <2>3. Connection(C[s].to, "closed", C[s].out) # None
    BY <2>2, LinkFields DEF LinkOK
  <2> QED BY <2>1, <2>2, <2>3
<1>3. CASE s \notin Replicas(X, p)
  <2>1. DisconnectReplicas(X, p)[s] = C[s]
    BY <1>3, Disconnected
  <2>2. C[s].st \notin {"start", "end", "online"}
    BY <1>3 DEF Replicas, LinkedTo
  <2>3. C[s].st \in {"psync", "closed"}
    BY <2>2, <1>1, LinkFields
  <2> QED BY <2>1, <2>3, <1>1, UnservedFrame
<1> QED BY <1>2, <1>3

(* The connections that are not to p are left alone.                       *)
LEMMA OtherLink ==
  ASSUME NEW C, NEW p \in Server, NEW s \in Server, NEW X, X[s] = C[s],
         C[s] = None \/ C[s].to # p
  PROVE  DisconnectReplicas(X, p)[s] = C[s]
<1>1. s \notin Replicas(X, p)
  BY DEF Replicas, LinkedTo
<1> QED BY <1>1, Disconnected

LEMMA RelinkPromoted ==
  ASSUME NEW H, NEW S, NEW C, NEW D, NEW n, NEW w, System(H, S, C, D, n, w),
         NEW p \in Server, NEW r, r.state \in {"none", "connect"}
  PROVE  Relinked(H, S, C, n, w, p, r, Promoted(C, p))
<1> DEFINE X == WithoutLink(C, p)
           E == DisconnectReplicas(X, p)
<1>1. C = [t \in Server |-> C[t]]
  BY LinkFacts
<1>2. X[p] = None /\ \A s \in Server : s # p => X[s] = C[s]
  BY <1>1 DEF WithoutLink
<1> HIDE DEF X
<1>3. E = [s \in Server |-> E[s]]
  BY Disconnected
<1>4. E[p] = None
  <2>1. p \notin Replicas(X, p)
    BY <1>2 DEF Replicas, LinkedTo
  <2> QED BY <2>1, <1>2, Disconnected
<1>5. \A s \in Server \ {p} : C[s] = None \/ C[s].to # p => E[s] = C[s]
  BY <1>2, OtherLink
<1>6. \A s \in Server \ {p} : C[s] # None /\ C[s].to = p =>
            E[s] # None /\ LinkOK(H, n, w, s, E[s], S[s], r)
  BY <1>2, LeftLink
<1> HIDE DEF E
<1>7. Relinked(H, S, C, n, w, p, r, E)
  BY <1>3, <1>4, <1>5, <1>6 DEF Relinked
<1> QED BY <1>7 DEF E, X, Promoted

LEMMA RelinkWithout ==
  ASSUME NEW H, NEW S, NEW C, NEW D, NEW n, NEW w, System(H, S, C, D, n, w),
         NEW p \in Server, NEW r, r.state \in {"none", "connect"}, SameStream(S[p], r)
  PROVE  Relinked(H, S, C, n, w, p, r, WithoutLink(C, p))
<1> DEFINE X == WithoutLink(C, p)
<1>1. C = [t \in Server |-> C[t]]
  BY LinkFacts
<1>2. X[p] = None /\ (\A s \in Server : s # p => X[s] = C[s]) /\ X = [t \in Server |-> X[t]]
  BY <1>1 DEF WithoutLink
<1> HIDE DEF X
<1>3. ASSUME NEW s \in Server \ {p}, C[s] # None, C[s].to = p
      PROVE  X[s] # None /\ LinkOK(H, n, w, s, X[s], S[s], r)
  <2>1. LinkOK(H, n, w, s, C[s], S[s], S[p])
    BY <1>3, LinkFacts
  <2>2. LinkOK(H, n, w, s, C[s], S[s], r)
    BY <2>1, StreamFrame
  <2> QED BY <2>2, <1>2, <1>3
<1>4. Relinked(H, S, C, n, w, p, r, X)
  BY <1>2, <1>3 DEF Relinked
<1> QED BY <1>4 DEF X

(* Nothing that connections depend on changes.                             *)
LEMMA RelinkSame ==
  ASSUME NEW H, NEW S, NEW C, NEW D, NEW n, NEW w, System(H, S, C, D, n, w),
         NEW p \in Server, NEW r, SameStream(S[p], r), SameReplica(S[p], r)
  PROVE  Relinked(H, S, C, n, w, p, r, C)
<1>1. C = [t \in Server |-> C[t]] /\ (S[p].state \in {"none", "connect"} <=> C[p] = None)
  BY LinkFacts
<1>2. ASSUME NEW s \in Server \ {p}, C[s] # None, C[s].to = p
      PROVE  LinkOK(H, n, w, s, C[s], S[s], r)
  <2>1. LinkOK(H, n, w, s, C[s], S[s], S[p])
    BY <1>2, LinkFacts
  <2> QED BY <2>1, StreamFrame
<1>3. ASSUME C[p] # None
      PROVE  LinkOK(H, n, w, p, C[p], r, IF C[p].to = p THEN r ELSE S[C[p].to])
  <2>1. LinkOK(H, n, w, p, C[p], S[p], S[C[p].to])
    BY <1>3, LinkFacts
  <2>2. LinkOK(H, n, w, p, C[p], r, S[C[p].to])
    BY <2>1, ReplicaFrame
  <2>3. C[p].to = p => LinkOK(H, n, w, p, C[p], r, r)
    BY <2>2, StreamFrame
  <2> QED BY <2>2, <2>3
<1> QED BY <1>1, <1>2, <1>3 DEF Relinked, SameReplica

-------------------------------------------------------------------------------
(* Histories are added to.                                                 *)

Put(H, i, h) == [j \in DOMAIN H \cup {i} |-> IF j = i THEN h ELSE H[j]]

LEMMA PutGrows ==
  ASSUME NEW H, NEW n, NEW w, Histories(H, n, w), NEW m \in Nat, NEW v \in Nat, n <= m, w <= v,
         NEW i \in 1 .. m, NEW h \in HistoryOf(v), i \in DOMAIN H => Kept(H[i], h)
  PROVE  /\ Grows(H, n, w, Put(H, i, h), m, v)
         /\ Put(H, i, h)[i] = h /\ i \in DOMAIN Put(H, i, h)
         /\ \A r : AtTip(H, r) /\ r.id # i => AtTip(Put(H, i, h), r)
<1> DEFINE G == Put(H, i, h)
<1>1. /\ DOMAIN G = DOMAIN H \cup {i} /\ G[i] = h
      /\ \A j \in DOMAIN H : j # i => G[j] = H[j]
  BY DEF Put
<1>2. n \in Nat /\ w \in Nat /\ DOMAIN H \subseteq 1 .. n /\ H \in [DOMAIN H -> HistoryOf(w)]
  BY DEF Histories
<1>3. HistoryOf(w) \subseteq HistoryOf(v)
  BY <1>2, TypesGrow DEF HistoryOf
<1>4. G \in [DOMAIN G -> HistoryOf(v)]
  <2>1. G = [j \in DOMAIN G |-> G[j]]
    BY DEF Put
  <2>2. \A j \in DOMAIN G : G[j] \in HistoryOf(v)
    BY <1>1, <1>2, <1>3
  <2> HIDE DEF G
  <2> QED BY <2>1, <2>2
<1>5. DOMAIN G \subseteq 1 .. m
  BY <1>1, <1>2
<1> HIDE DEF G
<1>6. Histories(G, m, v)
  BY <1>4, <1>5 DEF Histories
<1>7. \A j \in DOMAIN H : j \in DOMAIN G /\ Kept(H[j], G[j])
  BY <1>1 DEF Kept
<1>8. Grows(H, n, w, G, m, v)
  BY <1>6, <1>7 DEF Grows
<1>9. ASSUME NEW r, AtTip(H, r), r.id # i PROVE AtTip(G, r)
  <2>1. r.id \in DOMAIN G <=> r.id \in DOMAIN H
    BY <1>1, <1>9
  <2>2. r.id \in DOMAIN H => G[r.id] = H[r.id]
    BY <1>1, <1>9
  <2>3. CASE r.backlog = None
    BY <1>9, <2>1, <2>3 DEF AtTip
  <2>4. CASE r.backlog # None
    <3>1. r.host = None =>
            r.id \in DOMAIN H /\ H[r.id] = [data |-> r.data, off |-> r.off, pub |-> TRUE]
      BY <1>9, <2>4 DEF AtTip
    <3> QED BY <2>1, <2>2, <2>4, <3>1 DEF AtTip
  <2> QED BY <2>3, <2>4
<1> QED BY <1>1, <1>8, <1>9 DEF G

LEMMA SameGrows ==
  ASSUME NEW H, NEW n, NEW w, Histories(H, n, w), NEW m \in Nat, NEW v \in Nat, n <= m, w <= v
  PROVE  Grows(H, n, w, H, m, v)
<1>1. n \in Nat /\ w \in Nat /\ DOMAIN H \subseteq 1 .. n /\ H \in [DOMAIN H -> HistoryOf(w)]
  BY DEF Histories
<1>2. HistoryOf(w) \subseteq HistoryOf(v)
  BY <1>1, TypesGrow DEF HistoryOf
<1>3. 1 .. n \subseteq 1 .. m
  BY <1>1
<1>4. Histories(H, m, v)
  BY <1>1, <1>2, <1>3 DEF Histories
<1> QED BY <1>4 DEF Grows, Kept

-------------------------------------------------------------------------------
(* What happens to the state of one server.                                *)

LEMMA PosOf ==
  ASSUME NEW n \in Nat, NEW i \in 1 .. n, NEW o \in Nat
  PROVE  /\ Pos(i, o) \in PositionOf(n) /\ Pos(i, o) # None
         /\ Pos(i, o).id = i /\ Pos(i, o).off = o
<1>1. Pos(i, o) \in PositionOf(n) /\ Pos(i, o) \in Position
  BY DEF Pos, PositionOf, Position
<1> QED BY <1>1, NoneAssumption DEF Pos

LEMMA RdbFileOK ==
  ASSUME NEW H, NEW n \in Nat, NEW w \in Nat, NEW r \in ServerOf(n, w), HasHistory(H, r)
  PROVE  RdbFile(r) \in FileOf(n, w) /\ FileOK(H, RdbFile(r)) /\ RdbFile(r) # None
<1>1. r.id \in 1 .. n /\ r.off \in Nat /\ r.data \in Data(w)
  BY DEF ServerOf
<1>2. Pos(r.id, r.off) \in PositionOf(n) /\ Pos(r.id, r.off) # None
      /\ Pos(r.id, r.off).id = r.id /\ Pos(r.id, r.off).off = r.off
  BY <1>1, PosOf
<1> DEFINE f == RdbFile(r)
<1>3. f.data = r.data /\ f.info = (IF Known(r) THEN Pos(r.id, r.off) ELSE None)
  BY DEF RdbFile, RdbPopulateSaveInfo, Known
<1>4. f \in FileOf(n, w)
  BY <1>1, <1>2 DEF RdbFile, RdbPopulateSaveInfo, FileOf
<1> HIDE DEF f
<1>5. FileOK(H, f)
  BY <1>2, <1>3 DEF FileOK, HasHistory
<1>6. f # None
  BY <1>4, FileFields
<1> QED BY <1>4, <1>5, <1>6 DEF f

(* A state with the same history.                                          *)
SameHistory(r, q) ==
    /\ q.id = r.id /\ q.off = r.off /\ q.data = r.data /\ q.child = r.child
    /\ q.id2 = r.id2 /\ q.second = r.second /\ q.backlog = r.backlog

LEMMA HistoryFrame ==
  ASSUME NEW H, NEW r, NEW q, HasHistory(H, r), SameHistory(r, q), Known(q) => Known(r),
         q.backlog # None => Known(q), q.backlog = None /\ q.cached # None => r.cached # None
  PROVE  HasHistory(H, q)
BY DEF HasHistory, SameHistory, Suffix, Second

(* The failover state changes.                                             *)
LEMMA FailoverOK ==
  ASSUME NEW H, NEW n, NEW w, NEW s, NEW r, ServerOK(H, n, w, s, r),
         NEW f \in [st : {"none", "wait", "progress"}, tgt : Server \cup {None},
                    kind : {"none", "any", "to", "force"}],
         f.st # "none" => r.host # s /\ f.tgt # s,
         f.st = "wait" => r.host = None,
         f.st = "wait" /\ f.kind = "force" => f.tgt \in Server
  PROVE  /\ ServerOK(H, n, w, s, [r EXCEPT !.failover = f])
         /\ SameStream(r, [r EXCEPT !.failover = f])
         /\ SameReplica(r, [r EXCEPT !.failover = f])
         /\ [r EXCEPT !.failover = f].host = r.host
         /\ \A G : AtTip(G, r) => AtTip(G, [r EXCEPT !.failover = f])
<1> DEFINE q == [r EXCEPT !.failover = f]
<1>1. r \in ServerOf(n, w) /\ Shape(r) /\ HasHistory(H, r)
  BY DEF ServerOK
<1>2. q \in ServerOf(n, w)
  BY <1>1 DEF ServerOf
<1>3. /\ q.failover = f /\ q.host = r.host /\ q.state = r.state /\ q.primary = r.primary
      /\ q.cached = r.cached /\ q.initial = r.initial /\ SameHistory(r, q)
  BY <1>1 DEF ServerOf, SameHistory
<1> HIDE DEF q
<1>4. HasHistory(H, q)
  BY ZenonT(60), <1>1, <1>3 DEF HasHistory, SameHistory, Suffix, Second, Known
<1>5. Shape(q) /\ Failover(s, q)
  BY <1>1, <1>3 DEF Shape, Failover, SameHistory
<1>6. SameStream(r, q) /\ SameReplica(r, q)
  BY <1>3 DEF SameStream, SameReplica, SameHistory
<1>7. \A G : AtTip(G, r) => AtTip(G, q)
  BY <1>3 DEF AtTip, SameHistory
<1> QED BY <1>2, <1>3, <1>4, <1>5, <1>6, <1>7 DEF ServerOK, q

LEMMA FailoverStep ==
  ASSUME NEW H, NEW S, NEW C, NEW D, NEW n, NEW w, System(H, S, C, D, n, w), Primaries(H, S),
         NEW p \in Server,
         NEW f \in [st : {"none", "wait", "progress"}, tgt : Server \cup {None},
                    kind : {"none", "any", "to", "force"}],
         f.st # "none" => S[p].host # p /\ f.tgt # p,
         f.st = "wait" => S[p].host = None,
         f.st = "wait" /\ f.kind = "force" => f.tgt \in Server
  PROVE  /\ System(H, [S EXCEPT ![p] = [@ EXCEPT !.failover = f]], C, D, n, w)
         /\ Primaries(H, [S EXCEPT ![p] = [@ EXCEPT !.failover = f]])
<1> DEFINE q == [S[p] EXCEPT !.failover = f]
<1>1. DOMAIN S = Server /\ ServerOK(H, n, w, p, S[p])
  BY ServerFacts
<1>2. /\ ServerOK(H, n, w, p, q) /\ SameStream(S[p], q) /\ SameReplica(S[p], q)
      /\ q.host = S[p].host /\ (AtTip(H, S[p]) => AtTip(H, q))
  BY <1>1, FailoverOK
<1> HIDE DEF q
<1>3. Relinked(H, S, C, n, w, p, q, C)
  BY <1>2, RelinkSame
<1>4. System(H, [S EXCEPT ![p] = q], C, D, n, w)
  BY <1>2, <1>3, SystemStep
<1>5. Primaries(H, [S EXCEPT ![p] = q])
  <2>1. AtTip(H, q)
    BY <1>2 DEF Primaries
  <2>2. q.host = None => \A t \in Server \ {p} : S[t].host = None => S[t].id # q.id
    BY <1>2 DEF Primaries, SameStream
  <2> QED BY <1>1, <2>1, <2>2, PrimariesStep
<1> QED BY <1>4, <1>5 DEF q

-------------------------------------------------------------------------------
(* Steps with what becomes known of the histories.                         *)

Sound(S, C, D, n, w) == \E H : System(H, S, C, D, n, w) /\ Primaries(H, S)

(* The primaries other than p; i is the ID of none of them.                *)
OthersAtTip(H, S, p) == \A t \in Server \ {p} : AtTip(H, S[t])
Unshared(S, p, i)    == \A t \in Server \ {p} : S[t].host = None => S[t].id # i

LEMMA Others ==
  ASSUME NEW H, NEW S, NEW C, NEW D, NEW n, NEW w, System(H, S, C, D, n, w), Primaries(H, S),
         NEW p \in Server
  PROVE  /\ OthersAtTip(H, S, p) /\ Unshared(S, p, n + 1)
         /\ S[p].host = None => Unshared(S, p, S[p].id)
<1>1. OthersAtTip(H, S, p) /\ (S[p].host = None => Unshared(S, p, S[p].id))
  BY DEF Primaries, OthersAtTip, Unshared
<1>2. ASSUME NEW t \in Server
      PROVE  S[t].id # n + 1
  <2>1. S[t] \in ServerOf(n, w) /\ n \in Nat
    BY ServerFacts
  <2>2. S[t].id \in 1 .. n
    BY <2>1 DEF ServerOf
  <2> QED BY <2>1, <2>2
<1> QED BY <1>1, <1>2 DEF Unshared

LEMMA PutOthers ==
  ASSUME NEW H, NEW n, NEW w, Histories(H, n, w), NEW m \in Nat, NEW v \in Nat, n <= m, w <= v,
         NEW i \in 1 .. m, NEW h \in HistoryOf(v), i \in DOMAIN H => Kept(H[i], h),
         NEW S, NEW p, OthersAtTip(H, S, p), Unshared(S, p, i)
  PROVE  OthersAtTip(Put(H, i, h), S, p)
<1>1. \A r : AtTip(H, r) /\ r.id # i => AtTip(Put(H, i, h), r)
  BY PutGrows
<1>2. ASSUME NEW t \in Server \ {p}
      PROVE  AtTip(Put(H, i, h), S[t])
  <2>1. CASE S[t].host = None
    BY <2>1, <1>1 DEF OthersAtTip, Unshared
  <2>2. CASE S[t].host # None
    BY <2>2 DEF AtTip
  <2> QED BY <2>1, <2>2
<1> QED BY <1>2 DEF OthersAtTip

LEMMA Advance ==
  ASSUME NEW H, NEW S, NEW C, NEW D, NEW n, NEW w, System(H, S, C, D, n, w), Primaries(H, S),
         NEW G, NEW m, NEW v, Grows(H, n, w, G, m, v),
         NEW p \in Server, OthersAtTip(G, S, p),
         NEW r, ServerOK(G, m, v, p, r), NEW E, Relinked(G, S, C, m, v, p, r, E),
         AtTip(G, r), r.host # None \/ Unshared(S, p, r.id)
  PROVE  /\ System(G, [S EXCEPT ![p] = r], E, D, m, v)
         /\ Primaries(G, [S EXCEPT ![p] = r])
<1> DEFINE T == [S EXCEPT ![p] = r]
<1>1. System(G, S, C, D, m, v)
  BY SystemGrows
<1>2. System(G, T, E, D, m, v)
  BY <1>1, SystemStep
<1>3. DOMAIN S = Server
  BY ServerFacts
<1>4. T[p] = r /\ \A t \in Server \ {p} : T[t] = S[t]
  BY <1>3
<1> HIDE DEF T
<1>5. \A s \in Server : AtTip(G, T[s])
  <2> TAKE s \in Server
  <2>1. CASE s = p
    BY <2>1, <1>4
  <2>2. CASE s # p
    BY <2>2, <1>4 DEF OthersAtTip
  <2> QED BY <2>1, <2>2
<1>6. ASSUME NEW s \in Server, NEW t \in Server, s # t, T[s].host = None, T[t].host = None
      PROVE  T[s].id # T[t].id
  <2>1. CASE s = p
    BY <2>1, <1>4, <1>6 DEF Unshared
  <2>2. CASE t = p
    BY <2>2, <1>4, <1>6 DEF Unshared
  <2>3. CASE s # p /\ t # p
    BY <2>3, <1>4, <1>6 DEF Primaries
  <2> QED BY <2>1, <2>2, <2>3
<1>7. Primaries(G, T)
  BY <1>5, <1>6 DEF Primaries
<1> QED BY <1>2, <1>7 DEF T

(* A new history, or one that only p could have known.                     *)
LEMMA NewTip ==
  ASSUME NEW H, NEW n, NEW w, Histories(H, n, w), NEW m \in Nat, n <= m,
         NEW i \in 1 .. m, i \notin DOMAIN H, NEW d \in Data(w), NEW o \in Nat, NEW b \in BOOLEAN,
         NEW S, NEW p, OthersAtTip(H, S, p), Unshared(S, p, i)
  PROVE  LET G == Put(H, i, [data |-> d, off |-> o, pub |-> b]) IN
         /\ Grows(H, n, w, G, m, w) /\ OthersAtTip(G, S, p)
         /\ i \in DOMAIN G /\ G[i] = [data |-> d, off |-> o, pub |-> b]
         /\ Claim(G, i, o, d)
<1> DEFINE h == [data |-> d, off |-> o, pub |-> b]
           G == Put(H, i, h)
<1>1. h \in HistoryOf(w) /\ h.data = d /\ h.off = o /\ h.pub = b
  BY DEF HistoryOf
<1>2. w \in Nat /\ d \in Words
  BY WordsOfData DEF Histories
<1> HIDE DEF h
<1>3. Grows(H, n, w, G, m, w) /\ G[i] = h /\ i \in DOMAIN G
  BY <1>1, <1>2, PutGrows
<1>4. OthersAtTip(G, S, p)
  BY <1>1, <1>2, PutOthers
<1> HIDE DEF G
<1>5. In(G[i], o, d)
  BY <1>1, <1>2, <1>3, InTip
<1> QED BY <1>3, <1>4, <1>5 DEF Claim, G, h

-------------------------------------------------------------------------------
(* Changes of role.                                                        *)

(* A server takes another one as its primary.                              *)
LEMMA SetPrimary ==
  ASSUME NEW H, NEW S, NEW C, NEW D, NEW n, NEW w, System(H, S, C, D, n, w), Primaries(H, S),
         NEW p \in Server, NEW q \in ServerOf(n, w), SameHistory(S[p], q), Failover(p, q),
         q.host \in Server, q.state = "connect", q.primary = None, q.initial = None,
         q.cached = IF S[p].host = None THEN Pos(S[p].id, S[p].off)
                    ELSE IF S[p].primary # None THEN S[p].primary ELSE S[p].cached
  PROVE  Sound([S EXCEPT ![p] = q], WithoutLink(C, p), D, n, w)
<1> DEFINE r == S[p]
<1>1. /\ n \in Nat /\ w \in Nat /\ Histories(H, n, w)
      /\ r \in ServerOf(n, w) /\ Shape(r) /\ HasHistory(H, r)
  BY ServerFacts
<1>2. /\ r.id \in 1 .. n /\ r.off \in Nat /\ r.data \in Data(w) /\ q.host # None
      /\ r.child # None => r.child \in FileOf(n, w)
  BY <1>1, NoneAssumption DEF ServerOf
<1>3. Pos(r.id, r.off) # None
  BY <1>1, <1>2, PosOf
<1>4. SameStream(r, q)
  BY DEF SameStream, SameHistory
<1>5. Shape(q)
  BY <1>1, <1>2, <1>3 DEF Shape, SameHistory
<1>6. \A G : AtTip(G, q)
  BY <1>2 DEF AtTip
<1>7. OthersAtTip(H, S, p) /\ (r.host = None => Unshared(S, p, r.id)) /\ AtTip(H, r)
  BY Others DEF Primaries
<1> HIDE DEF r
<1>8. ASSUME NEW G, Grows(H, n, w, G, n, w), OthersAtTip(G, S, p), HasHistory(G, q)
      PROVE  Sound([S EXCEPT ![p] = q], WithoutLink(C, p), D, n, w)
  <2>1. System(G, S, C, D, n, w)
    BY <1>8, SystemGrows
  <2>2. Relinked(G, S, C, n, w, p, q, WithoutLink(C, p))
    BY <2>1, <1>4, RelinkWithout DEF r
  <2>3. ServerOK(G, n, w, p, q)
    BY <1>5, <1>8 DEF ServerOK
  <2> QED BY <1>2, <1>6, <1>8, <2>2, <2>3, Advance DEF Sound
<1>9. CASE r.host # None \/ r.backlog # None
  <2>1. HasHistory(H, q)
    <3>1. Known(q) => Known(r)
      BY <1>2, <1>9 DEF Known, r
    <3>2. q.backlog # None => Known(q)
      BY <1>1, <1>2, <1>3 DEF Known, r, HasHistory, SameHistory
    <3>3. q.backlog = None /\ q.cached # None => r.cached # None
      BY <1>1, <1>9 DEF r, SameHistory, Shape
    <3> QED BY <1>1, <3>1, <3>2, <3>3, HistoryFrame DEF r
  <2>2. Grows(H, n, w, H, n, w)
    BY <1>1, SameGrows
  <2> QED BY <2>1, <2>2, <1>7, <1>8
<1>10. CASE r.host = None /\ r.backlog = None
  <2> DEFINE b == FALSE
             G == Put(H, r.id, [data |-> r.data, off |-> r.off, pub |-> b])
  <2>1. r.id \notin DOMAIN H
    BY <1>7, <1>10 DEF AtTip
  <2>2. b \in BOOLEAN /\ n <= n /\ ~b
    BY <1>1
  <2> HIDE DEF b
  <2>3. /\ Grows(H, n, w, G, n, w) /\ OthersAtTip(G, S, p) /\ r.id \in DOMAIN G
        /\ G[r.id] = [data |-> r.data, off |-> r.off, pub |-> b]
        /\ Claim(G, r.id, r.off, r.data)
    BY <2>1, <2>2, <1>1, <1>2, <1>7, <1>10, NewTip
  <2>4. ~G[r.id].pub
    BY <2>2, <2>3
  <2> HIDE DEF G
  <2>5. r.child # None => FileOK(G, r.child)
    BY <2>3, <1>1, <1>2, FileGrows DEF HasHistory
  <2>6. HasHistory(G, q)
    BY <2>3, <2>4, <2>5, <1>10 DEF HasHistory, SameHistory, r
  <2> QED BY <2>3, <2>6, <1>8
<1> QED BY <1>9, <1>10

(* A server becomes a primary, and its replicas are disconnected.          *)
LEMMA Promotion ==
  ASSUME NEW H, NEW S, NEW C, NEW D, NEW n, NEW w, System(H, S, C, D, n, w), Primaries(H, S),
         NEW p \in Server, NEW q, q = ReplicationUnsetPrimary(S[p], n + 1), S[p].failover.st # "wait"
  PROVE  Sound([S EXCEPT ![p] = q], Promoted(C, p), D, n + 1, w)
<1> DEFINE r == S[p]
           m == n + 1
<1>1. /\ n \in Nat /\ w \in Nat /\ Histories(H, n, w) /\ DOMAIN H \subseteq 1 .. n
      /\ r \in ServerOf(n, w) /\ Shape(r) /\ Failover(p, r) /\ HasHistory(H, r)
  BY ServerFacts DEF Histories
<1>2. m \in Nat /\ n <= m /\ w <= w /\ m \in 1 .. m /\ m \notin DOMAIN H
  BY <1>1
<1>3. r \in ServerOf(m, w)
  BY <1>1, <1>2, TypesGrow
<1> HIDE DEF m
<1>4. q \in ServerOf(m, w)
  <2>1. r.off + 1 \in Nat /\ r.id \in 1 .. m
    BY <1>3 DEF ServerOf
  <2>2. q = ReplicationUnsetPrimary(r, m)
    BY DEF m
  <2> QED BY ZenonT(60), <2>1, <2>2, <1>2, <1>3 DEF ServerOf, ReplicationUnsetPrimary, ShiftReplicationId
<1>5. /\ q.data = r.data /\ q.off = r.off /\ q.id = m /\ q.id2 = r.id /\ q.second = r.off + 1
      /\ q.host = None /\ q.state = "none" /\ q.primary = None /\ q.cached = None
      /\ q.initial = None /\ q.backlog = r.backlog /\ q.child = r.child /\ q.failover = r.failover
  BY <1>1 DEF ServerOf, ReplicationUnsetPrimary, ShiftReplicationId, m
<1>6. /\ r.id \in 1 .. n /\ r.off \in Nat /\ r.data \in Data(w)
      /\ r.child # None => r.child \in FileOf(n, w)
  BY <1>1 DEF ServerOf
<1>7. Shape(q)
  BY <1>5 DEF Shape
<1>8. Failover(p, q)
  BY <1>1, <1>5, NoneAssumption DEF Failover
<1>9. OthersAtTip(H, S, p) /\ Unshared(S, p, m)
  BY Others DEF m
<1>10. ASSUME NEW G, Grows(H, n, w, G, m, w), OthersAtTip(G, S, p), HasHistory(G, q), AtTip(G, q)
       PROVE  Sound([S EXCEPT ![p] = q], Promoted(C, p), D, m, w)
  <2>1. System(G, S, C, D, m, w)
    BY <1>10, SystemGrows
  <2>2. Relinked(G, S, C, m, w, p, q, Promoted(C, p))
    BY <2>1, <1>5, RelinkPromoted
  <2>3. ServerOK(G, m, w, p, q)
    BY <1>4, <1>7, <1>8, <1>10 DEF ServerOK
  <2> QED BY <1>5, <1>9, <1>10, <2>2, <2>3, Advance DEF Sound
<1> HIDE DEF r
<1>11. CASE r.backlog = None
  <2>1. Grows(H, n, w, H, m, w)
    BY <1>1, <1>2, SameGrows
  <2>2. AtTip(H, q)
    BY <1>2, <1>5, <1>11 DEF AtTip
  <2>3. HasHistory(H, q)
    BY <1>1, <1>5, <1>11 DEF HasHistory, Known
  <2> QED BY <2>1, <2>2, <2>3, <1>9, <1>10 DEF m
<1>12. CASE r.backlog # None
  <2> DEFINE b == TRUE
             G == Put(H, m, [data |-> r.data, off |-> r.off, pub |-> b])
  <2>1. b \in BOOLEAN
    OBVIOUS
  <2>11. b = TRUE
    OBVIOUS
  <2> HIDE DEF b
  <2>2. /\ Grows(H, n, w, G, m, w) /\ OthersAtTip(G, S, p) /\ m \in DOMAIN G
        /\ G[m] = [data |-> r.data, off |-> r.off, pub |-> b]
        /\ Claim(G, m, r.off, r.data)
    BY <2>1, <1>1, <1>2, <1>6, <1>9, NewTip
  <2>10. Public(G, m)
    BY <2>11, <2>2 DEF Public
  <2>3. AtTip(G, q)
    BY <2>11, <2>2, <1>5, <1>12 DEF AtTip
  <2> HIDE DEF G
  <2>4. r.child # None => FileOK(G, r.child)
    BY <2>2, <1>1, <1>6, FileGrows DEF HasHistory
  <2>5. Claim(H, r.id, r.off, r.data)
    BY <1>1, <1>12 DEF HasHistory
  <2>6. Claim(G, r.id, r.off, r.data) /\ r.data \in Words
    BY SMTT(30), <2>2, <2>5, <1>1, <1>6, ClaimGrows, WordsOfData
  <2>7. Second(G, q)
    <3>1. r.data = r.data \o <<>> /\ <<>> \in Words /\ Len(<<>>) = 0
      BY <2>6, CatEmpty
    <3> DEFINE v == <<>>
    <3>2. q.data = r.data \o v /\ q.off = q.second - 1 + Len(v) /\ v \in Words /\ q.second - 1 = r.off
      BY <3>1, <1>5, <1>6
    <3> HIDE DEF v
    <3> QED BY <3>2, <2>6, <1>5 DEF Second, Claim
  <2>8. Suffix(q)
    BY <1>1, <1>5, <1>12 DEF HasHistory, Suffix
  <2>9. HasHistory(G, q)
    BY <2>2, <2>4, <2>7, <2>8, <2>10, <1>5, <1>12 DEF HasHistory, Known
  <2> QED BY <2>2, <2>3, <2>9, <1>10 DEF m
<1> QED BY <1>11, <1>12

LEMMA NewHistory ==
  ASSUME NEW H, NEW n, NEW w, Histories(H, n, w), NEW m \in Nat, n <= m,
         NEW i \in 1 .. m, i \notin DOMAIN H, NEW d \in Data(w), NEW o \in Nat,
         NEW S, NEW p, OthersAtTip(H, S, p), Unshared(S, p, i)
  PROVE  \E G : /\ Grows(H, n, w, G, m, w) /\ OthersAtTip(G, S, p)
                /\ Claim(G, i, o, d) /\ Public(G, i)
                /\ \A r : (/\ r.id = i /\ r.off = o /\ r.data = d /\ r.backlog # None)
                            => AtTip(G, r)
<1> DEFINE b == TRUE
           G == Put(H, i, [data |-> d, off |-> o, pub |-> b])
<1>1. b \in BOOLEAN
  OBVIOUS
<1>2. b = TRUE
  OBVIOUS
<1> HIDE DEF b
<1>3. /\ Grows(H, n, w, G, m, w) /\ OthersAtTip(G, S, p) /\ i \in DOMAIN G
      /\ G[i] = [data |-> d, off |-> o, pub |-> b] /\ Claim(G, i, o, d)
  BY <1>1, NewTip
<1> HIDE DEF G
<1>4. Public(G, i)
  BY <1>2, <1>3 DEF Public
<1>5. \A r : (/\ r.id = i /\ r.off = o /\ r.data = d /\ r.backlog # None) => AtTip(G, r)
  BY <1>2, <1>3 DEF AtTip
<1> QED BY <1>3, <1>4, <1>5

-------------------------------------------------------------------------------
(* The process of a server dies and starts again.                          *)

LEMMA Freed ==
  ASSUME NEW X, NEW Q, NEW s \in Server
  PROVE  /\ FreeClients(X, Q) = [t \in Server |-> FreeClients(X, Q)[t]]
         /\ s \in Q => FreeClients(X, Q)[s] = Connection(X[s].to, "closed", X[s].out)
         /\ s \notin Q => FreeClients(X, Q)[s] = X[s]
BY DEF FreeClients

LEMMA ClosedExists ==
  ASSUME NEW c, c \in Link
  PROVE  Connection(c.to, "closed", c.out) # None
<1>1. c.to \in Server /\ c.out \in Seq(Message)
  BY LinkFields
<1> DEFINE x == "closed"
<1>2. x \in {"psync", "start", "end", "online", "closed"}
  OBVIOUS
<1> HIDE DEF x
<1>3. Connection(c.to, x, c.out) \in Link
  BY <1>1, <1>2, ConnectionType
<1> QED BY <1>3, NoneAssumption DEF x

LEMMA RelinkFreed ==
  ASSUME NEW H, NEW S, NEW C, NEW D, NEW n, NEW w, System(H, S, C, D, n, w),
         NEW p \in Server, NEW r, r.state \in {"none", "connect"}, NEW X, X = WithoutLink(C, p)
  PROVE  Relinked(H, S, C, n, w, p, r, FreeClients(X, LinkedTo(X, p)))
<1> DEFINE Q == LinkedTo(X, p)
           E == FreeClients(X, Q)
<1>1. C = [t \in Server |-> C[t]]
  BY LinkFacts
<1>2. X[p] = None /\ \A s \in Server \ {p} : X[s] = C[s]
  BY <1>1 DEF WithoutLink
<1>3. \A s \in Server \ {p} : s \in Q <=> C[s] # None /\ C[s].to = p
  BY <1>2 DEF LinkedTo
<1>4. p \notin Q
  BY <1>2 DEF LinkedTo
<1> HIDE DEF Q
<1>5. E = [s \in Server |-> E[s]]
  BY DEF FreeClients
<1>6. E[p] = None
  BY <1>2, <1>4, Freed
<1>7. \A s \in Server \ {p} : C[s] = None \/ C[s].to # p => E[s] = C[s]
  BY <1>2, <1>3, Freed
<1>8. ASSUME NEW s \in Server \ {p}, C[s] # None, C[s].to = p
      PROVE  E[s] # None /\ LinkOK(H, n, w, s, E[s], S[s], r)
  <2>1. /\ C[s] \in Link /\ LinkOK(H, n, w, s, C[s], S[s], S[p])
        /\ S[p] \in ServerOf(n, w) /\ HasHistory(H, S[p])
    BY <1>8, LinkFacts
  <2>2. E[s] = Connection(C[s].to, "closed", C[s].out)
    BY <1>2, <1>3, <1>8, Freed
  <2>3. n \in Nat /\ w \in Nat
    BY ServerFacts
  <2>4. LinkOK(H, n, w, s, Connection(C[s].to, "closed", C[s].out), S[s], r)
    BY <2>1, <2>3, LinkCloses
  <2> QED BY <2>1, <2>2, <2>4, ClosedExists
<1> HIDE DEF E
<1>9. Relinked(H, S, C, n, w, p, r, E)
  BY <1>5, <1>6, <1>7, <1>8 DEF Relinked
<1> QED BY <1>9 DEF E, Q

LEMMA LoadedState ==
  ASSUME NEW f, NEW i, NEW h
  PROVE  LoadDataFromDisk(f, i, h) =
            [data |-> f.data, id |-> IF f.info # None /\ h # None THEN f.info.id ELSE i,
             off |-> IF f.info # None THEN f.info.off ELSE 0,
             id2 |-> IF f.info # None /\ h = None THEN f.info.id ELSE None,
             second |-> IF f.info # None /\ h = None THEN f.info.off + 1 ELSE -1,
             backlog |-> IF f.info # None /\ h = None THEN <<>> ELSE None,
             host |-> h, state |-> IF h = None THEN "none" ELSE "connect", primary |-> None,
             cached |-> IF f.info # None /\ h # None THEN Pos(f.info.id, f.info.off) ELSE None,
             initial |-> None, failover |-> NoFailover, child |-> None]
<1> USE DEF LoadDataFromDisk, InitServerConfig
<1>1. CASE f.info = None
  BY <1>1
<1>2. CASE f.info # None /\ h # None
  BY <1>2 DEF ReplicationCachePrimaryUsingMyself
<1>3. CASE f.info # None /\ h = None
  BY <1>3 DEF CreateReplicationBacklog
<1> QED BY <1>1, <1>2, <1>3

LEMMA Restarted ==
  ASSUME NEW H, NEW S, NEW C, NEW D, NEW n, NEW w, System(H, S, C, D, n, w), Primaries(H, S),
         NEW p \in Server, NEW h \in Server \cup {None},
         NEW r, r = LoadDataFromDisk(D[p], n + 1, h), NEW X, X = WithoutLink(C, p)
  PROVE  Sound([S EXCEPT ![p] = r], FreeClients(X, LinkedTo(X, p)), D, n + 1, w)
<1> DEFINE f == D[p]
           m == n + 1
           E == FreeClients(X, LinkedTo(X, p))
<1>1. /\ n \in Nat /\ w \in Nat /\ Histories(H, n, w) /\ DOMAIN H \subseteq 1 .. n
      /\ f \in FileOf(n, w) /\ FileOK(H, f)
  BY ServerFacts DEF Histories
<1>2. m \in Nat /\ n <= m /\ m \in 1 .. m /\ m \notin DOMAIN H /\ 1 .. n \subseteq 1 .. m
  BY <1>1
<1>3. f.data \in Data(w) /\ f.data \in Words
  BY <1>1, FileFields
<1>4. f.info # None => f.info.id \in 1 .. m /\ f.info.off \in Nat /\ f.info.off + 1 \in Nat
  BY <1>1, <1>2 DEF FileOf, PositionOf
<1>5. OthersAtTip(H, S, p) /\ Unshared(S, p, m)
  BY Others
<1>7. None \notin Server /\ <<>> \in Data(w) /\ <<>> # None
  <2>1. <<>> \in Seq(Nat)
    OBVIOUS
  <2> QED BY <1>1, <2>1, NoneAssumption, WordsOfData
<1>6. r = [data |-> f.data, id |-> IF f.info # None /\ h # None THEN f.info.id ELSE m,
           off |-> IF f.info # None THEN f.info.off ELSE 0,
           id2 |-> IF f.info # None /\ h = None THEN f.info.id ELSE None,
           second |-> IF f.info # None /\ h = None THEN f.info.off + 1 ELSE -1,
           backlog |-> IF f.info # None /\ h = None THEN <<>> ELSE None,
           host |-> h, state |-> IF h = None THEN "none" ELSE "connect", primary |-> None,
           cached |-> IF f.info # None /\ h # None THEN Pos(f.info.id, f.info.off) ELSE None,
           initial |-> None, failover |-> NoFailover, child |-> None]
  BY LoadedState
<1> HIDE DEF f, m
<1> DEFINE st == IF h = None THEN "none" ELSE "connect"
<1>8. /\ r.host = h /\ r.state = st /\ r.data = f.data /\ r.primary = None /\ r.initial = None
      /\ r.failover = NoFailover /\ r.child = None
      /\ r.id = (IF f.info # None /\ h # None THEN f.info.id ELSE m)
      /\ r.off = (IF f.info # None THEN f.info.off ELSE 0)
      /\ r.id2 = (IF f.info # None /\ h = None THEN f.info.id ELSE None)
      /\ r.second = (IF f.info # None /\ h = None THEN f.info.off + 1 ELSE -1)
      /\ r.backlog = (IF f.info # None /\ h = None THEN <<>> ELSE None)
      /\ r.cached = (IF f.info # None /\ h # None THEN Pos(f.info.id, f.info.off) ELSE None)
  BY <1>6
<1>9. f.info # None => /\ Pos(f.info.id, f.info.off) \in PositionOf(m)
                       /\ Pos(f.info.id, f.info.off) # None
  BY <1>2, <1>4, PosOf
<1>10. r \in ServerOf(m, w)
  BY <1>2, <1>3, <1>4, <1>6, <1>7, <1>9 DEF ServerOf, NoFailover
<1>11. r.state \in {"none", "connect"}
  BY <1>8
<1>12. Shape(r)
  BY <1>7, <1>8, <1>9 DEF Shape
<1>13. Failover(p, r)
  BY <1>8 DEF Failover, NoFailover
<1>14. ASSUME NEW G, Grows(H, n, w, G, m, w), OthersAtTip(G, S, p), HasHistory(G, r), AtTip(G, r),
              r.host # None \/ Unshared(S, p, r.id)
       PROVE  Sound([S EXCEPT ![p] = r], E, D, m, w)
  <2>1. System(G, S, C, D, m, w)
    BY <1>14, SystemGrows
  <2>2. Relinked(G, S, C, m, w, p, r, E)
    BY <2>1, <1>11, RelinkFreed
  <2>3. ServerOK(G, m, w, p, r)
    BY <1>10, <1>12, <1>13, <1>14 DEF ServerOK
  <2> HIDE DEF E
  <2> QED BY <1>14, <2>2, <2>3, Advance DEF Sound
<1> HIDE DEF E
<1>15. CASE f.info = None \/ h # None
  <2>1. Grows(H, n, w, H, m, w)
    BY <1>1, <1>2, SameGrows
  <2>2. HasHistory(H, r)
    BY <1>1, <1>8, <1>15 DEF HasHistory, Known, FileOK
  <2>3. AtTip(H, r)
    BY <1>2, <1>8, <1>15 DEF AtTip
  <2>4. r.host # None \/ Unshared(S, p, r.id)
    BY <1>5, <1>8, <1>15
  <2>5. Sound([S EXCEPT ![p] = r], E, D, m, w)
    BY <2>1, <2>2, <2>3, <2>4, <1>5, <1>14
  <2> QED BY <2>5 DEF E, m
<1>16. CASE f.info # None /\ h = None
  <2> DEFINE o == f.info.off
  <2>1. o \in Nat /\ f.info.id \in 1 .. m
    BY <1>4, <1>16
  <2> HIDE DEF o
  <2>2. PICK G : /\ Grows(H, n, w, G, m, w) /\ OthersAtTip(G, S, p)
                 /\ Claim(G, m, o, f.data) /\ Public(G, m)
                 /\ \A q : (/\ q.id = m /\ q.off = o /\ q.data = f.data /\ q.backlog # None)
                            => AtTip(G, q)
    BY <2>1, <1>1, <1>2, <1>3, <1>5, NewHistory
  <2>3. /\ r.id = m /\ r.off = o /\ r.data = f.data /\ r.backlog = <<>> /\ r.backlog # None
        /\ r.id2 = f.info.id /\ r.second = o + 1 /\ r.host = None /\ r.child = None
        /\ r.cached = None
    BY <1>7, <1>8, <1>16 DEF o
  <2>4. AtTip(G, r)
    BY <2>2, <2>3
  <2>5. Claim(H, f.info.id, o, f.data)
    BY <1>1, <1>16 DEF FileOK, o
  <2>6. Claim(G, f.info.id, o, f.data)
    BY <2>1, <2>2, <2>5, <1>3, ClaimGrows
  <2> DEFINE v == <<>>
  <2>7. f.data = f.data \o v /\ v \in Words /\ Len(v) = 0 /\ r.backlog = v
    BY <2>3, <1>3, CatEmpty
  <2> HIDE DEF v
  <2>8. Second(G, r)
    <3>1. r.data = f.data \o v /\ r.off = r.second - 1 + Len(v) /\ r.second - 1 = o
      BY <2>1, <2>3, <2>7
    <3> QED BY <3>1, <2>3, <2>6, <2>7, <1>3 DEF Second, Claim
  <2>9. Suffix(r)
    <3>1. r.backlog = v /\ r.data = f.data /\ r.off = o
      BY <2>3, <2>7
    <3>2. r.data = f.data \o r.backlog
      BY <3>1, <2>7
    <3>3. Len(r.backlog) <= r.off
      BY <3>1, <2>1, <2>7
    <3> QED BY <3>2, <3>3, <1>3 DEF Suffix
  <2>10. HasHistory(G, r)
    BY <2>2, <2>3, <2>8, <2>9 DEF HasHistory, Known
  <2>11. Sound([S EXCEPT ![p] = r], E, D, m, w)
    BY <2>2, <2>3, <2>4, <2>10, <1>5, <1>14
  <2> QED BY <2>11 DEF E, m
<1> QED BY <1>15, <1>16

-------------------------------------------------------------------------------
(* One command more in the stream of a server.                             *)

LEMMA TrimmedSuffix ==
  ASSUME NEW w \in Nat, NEW b \in Data(w), NEW e \in 1 .. w, NEW d \in Words, NEW o \in Nat,
         NEW x \in Words, d = x \o b, Len(b) <= o
  PROVE  /\ Trimmed(Append(b, e)) \in Data(w) /\ Len(Trimmed(Append(b, e))) <= o + 1
         /\ \E y \in Words : Append(d, e) = y \o Trimmed(Append(b, e))
<1> DEFINE u == Append(b, e)
<1>1. b \in Words /\ e \in Nat /\ Len(b) \in Nat /\ u \in Data(w)
  BY DataAppend
<1>2. Append(d, e) = x \o u /\ u \in Words /\ Len(u) = Len(b) + 1
  BY <1>1, AppendCat
<1> HIDE DEF u
<1>3. CASE Len(u) > BacklogSize
  <2>1. u # <<>>
    BY <1>1, <1>2, EmptySeq DEF Words
  <2>2. /\ Append(x, Head(u)) \in Words /\ Append(x, Head(u)) \o Tail(u) = x \o u
        /\ Tail(u) \in Words /\ Len(u) = Len(Tail(u)) + 1
    BY <2>1, <1>2, HeadCat
  <2>3. Tail(u) \in Data(w)
    BY <2>1, <1>1, HeadTailProperties DEF Data
  <2>4. Trimmed(u) = Tail(u)
    BY <1>3 DEF Trimmed
  <2>5. Len(Tail(u)) <= o + 1
    BY <2>2, <1>1, <1>2
  <2> DEFINE y == Append(x, Head(u))
  <2>6. y \in Words /\ Append(d, e) = y \o Trimmed(u)
    BY <2>2, <2>4, <1>2
  <2> HIDE DEF y
  <2>7. Trimmed(u) \in Data(w) /\ Len(Trimmed(u)) <= o + 1
    BY <2>3, <2>4, <2>5
  <2> QED BY <2>6, <2>7 DEF u
<1>4. CASE ~(Len(u) > BacklogSize)
  <2>1. Trimmed(u) = u
    BY <1>4 DEF Trimmed
  <2>2. Len(u) <= o + 1
    BY <1>1, <1>2
  <2> QED BY <2>1, <2>2, <1>1, <1>2 DEF u
<1> QED BY <1>3, <1>4

(* q is r with the command e more.                                         *)
FedState(r, q, e) ==
    /\ q.id = r.id /\ q.off = r.off + 1 /\ q.data = Append(r.data, e)
    /\ q.backlog = Trimmed(Append(r.backlog, e)) /\ q.id2 = r.id2 /\ q.second = r.second
    /\ q.child = r.child

LEMMA FeedHistory ==
  ASSUME NEW H, NEW n \in Nat, NEW w \in Nat, NEW r \in ServerOf(n, w), HasHistory(H, r),
         r.backlog # None, NEW e \in 1 .. w, NEW q, FedState(r, q, e), Known(q),
         Claim(H, q.id, q.off, q.data)
  PROVE  HasHistory(H, q) /\ q.backlog \in Data(w) /\ q.backlog # None /\ q.data \in Data(w)
<1>1. /\ r.backlog \in Data(w) /\ r.data \in Data(w) /\ r.off \in Nat
      /\ r.id2 # None => r.second \in Int
  BY DEF ServerOf
<1>2. r.data \in Words /\ e \in Nat /\ Append(r.data, e) \in Data(w)
  BY <1>1, DataAppend
<1>3. PICK x \in Words : r.data = x \o r.backlog /\ Len(r.backlog) <= r.off
  BY DEF HasHistory, Suffix
<1>4. /\ q.backlog \in Data(w) /\ Len(q.backlog) <= r.off + 1
      /\ \E y \in Words : Append(r.data, e) = y \o q.backlog
  <2> DEFINE b == r.backlog
             d == r.data
             o == r.off
  <2>1. b \in Data(w) /\ d \in Words /\ o \in Nat /\ d = x \o b /\ Len(b) <= o
    BY <1>1, <1>2, <1>3
  <2> HIDE DEF b, d, o
  <2>2. /\ Trimmed(Append(b, e)) \in Data(w) /\ Len(Trimmed(Append(b, e))) <= o + 1
        /\ \E y \in Words : Append(d, e) = y \o Trimmed(Append(b, e))
    BY ZenonT(60), <2>1, TrimmedSuffix
  <2>3. q.backlog = Trimmed(Append(b, e))
    BY DEF b, FedState
  <2> QED BY <2>2, <2>3 DEF d, o
<1>5. Suffix(q)
  BY <1>4 DEF Suffix, FedState
<1>6. q.backlog # None
  <2>1. q.backlog \in Seq(Nat)
    BY <1>4, WordsOfData DEF Words
  <2> QED BY <2>1, NoneAssumption
<1>7. ASSUME q.id2 # None
      PROVE  Second(H, q)
  <2>1. Second(H, r)
    BY <1>7 DEF HasHistory, FedState
  <2>2. PICK d \in Words, v \in Words :
            /\ r.data = d \o v /\ r.off = r.second - 1 + Len(v)
            /\ In(H[r.id2], r.second - 1, d)
    BY <2>1 DEF Second
  <2>3. /\ Append(r.data, e) = d \o Append(v, e) /\ Append(v, e) \in Words
        /\ Len(Append(v, e)) = Len(v) + 1
    <3>1. /\ Append(d \o v, e) = d \o Append(v, e) /\ Append(v, e) \in Words
          /\ Len(Append(v, e)) = Len(v) + 1
      BY <1>2, AppendCat
    <3> QED BY <3>1, <2>2
  <2> DEFINE y == Append(v, e)
             z == r.second
  <2>4. z \in Int /\ Len(v) \in Nat
    BY <1>1, <1>7, Cat DEF FedState
  <2> HIDE DEF z
  <2>5. r.off + 1 = z - 1 + (Len(v) + 1)
    BY <2>2, <2>4, <1>1 DEF z
  <2>6. q.data = d \o y /\ q.off = q.second - 1 + Len(y) /\ y \in Words
    BY <2>3, <2>5 DEF FedState, z
  <2>7. q.id2 = r.id2 /\ q.second = r.second
    BY DEF FedState
  <2> HIDE DEF y
  <2>8. q.id2 \in DOMAIN H
    BY <2>1, <2>7 DEF Second
  <2>9. In(H[q.id2], q.second - 1, d)
    BY <2>2, <2>7
  <2> QED BY <2>6, <2>8, <2>9 DEF Second
<1>8. Public(H, q.id) /\ (q.child # None => FileOK(H, q.child))
  BY DEF HasHistory, FedState
<1>9. HasHistory(H, q)
  BY <1>5, <1>6, <1>7, <1>8 DEF HasHistory
<1> QED BY <1>2, <1>4, <1>6, <1>9 DEF FedState

SameLinks(C, X, p) == \A s \in Server \ {p} : X[s] = C[s]

(* The connections E when p has become q, the one of p itself apart.       *)
Served(H, S, C, n, w, p, q, E) ==
    /\ E = [s \in Server |-> E[s]]
    /\ \A s \in Server \ {p} : C[s] = None \/ C[s].to # p => E[s] = C[s]
    /\ \A s \in Server \ {p} : C[s] # None /\ C[s].to = p =>
            E[s] # None /\ LinkOK(H, n, w, s, E[s], S[s], q)

LEMMA FeedLinks ==
  ASSUME NEW H, NEW S, NEW C, NEW D, NEW n, NEW w, System(H, S, C, D, n, w),
         NEW p \in Server, NEW X, SameLinks(C, X, p), p \notin Replicas(X, p),
         NEW q, NEW e \in 1 .. w, OneMore(S[p], q, e)
  PROVE  /\ Served(H, S, C, n, w, p, q, FeedReplicas(X, p, e))
         /\ FeedReplicas(X, p, e)[p] = X[p]
<1> DEFINE E == FeedReplicas(X, p, e)
<1>1. E = [s \in Server |-> E[s]]
  BY DEF FeedReplicas
<1>2. \A s \in Server : s \notin Replicas(X, p) => E[s] = X[s]
  BY DEF FeedReplicas
<1>3. \A s \in Server : s \in Replicas(X, p) =>
        /\ X[s].st = "online" => E[s] = [X[s] EXCEPT !.out = Append(@, CommandMsg(e))]
        /\ X[s].st = "end" => E[s] = [X[s] EXCEPT !.pend = Append(@, e)]
        /\ X[s].st \notin {"online", "end"} => E[s] = X[s]
  BY DEF FeedReplicas
<1> HIDE DEF E
<1>4. E[p] = X[p]
  BY <1>2
<1>5. \A s \in Server \ {p} : C[s] = None \/ C[s].to # p => E[s] = C[s]
  BY <1>2 DEF Replicas, LinkedTo, SameLinks
<1>6. ASSUME NEW s \in Server \ {p}, C[s] # None, C[s].to = p
      PROVE  E[s] # None /\ LinkOK(H, n, w, s, E[s], S[s], q)
  <2>1. /\ n \in Nat /\ w \in Nat /\ S[s] \in ServerOf(n, w) /\ Shape(S[s])
        /\ S[p] \in ServerOf(n, w)
    BY ServerFacts
  <2>2. C[s] \in Link /\ LinkOK(H, n, w, s, C[s], S[s], S[p])
    BY <1>6, LinkFacts
  <2>3. /\ C[s].st = "online" =>
              LinkOK(H, n, w, s, [C[s] EXCEPT !.out = Append(@, CommandMsg(e))], S[s], q)
        /\ C[s].st = "end" => LinkOK(H, n, w, s, [C[s] EXCEPT !.pend = Append(@, e)], S[s], q)
        /\ C[s].st \notin {"online", "end"} => LinkOK(H, n, w, s, C[s], S[s], q)
    BY <2>1, <2>2, LinkFeeds
  <2>4. X[s] = C[s]
    BY DEF SameLinks
  <2>5. s \in Replicas(X, p) <=> C[s].st \in {"start", "end", "online"}
    BY <1>6, <2>4 DEF Replicas, LinkedTo
  <2>6. LinkOK(H, n, w, s, E[s], S[s], q)
    BY <2>3, <2>4, <2>5, <1>2, <1>3
  <2>7. E[s] \in Link
    BY <2>6 DEF LinkOK
  <2> QED BY <2>6, <2>7, NoneAssumption
<1>7. Served(H, S, C, n, w, p, q, E)
  BY <1>1, <1>5, <1>6 DEF Served
<1> QED BY <1>4, <1>7 DEF E

(* A write of a client of a primary.                                       *)
LEMMA LongerHistory ==
  ASSUME NEW H, NEW n, NEW w, Histories(H, n, w), NEW p \in ServerOf(n, w), NEW e, e = w + 1,
         NEW S, NEW s, OthersAtTip(H, S, s), Unshared(S, s, p.id),
         p.backlog # None, p.host = None, AtTip(H, p)
  PROVE  \E G : /\ Grows(H, n, w, G, n, w + 1) /\ OthersAtTip(G, S, s)
                /\ Claim(G, p.id, p.off + 1, Append(p.data, e))
                /\ \A r : (/\ r.id = p.id /\ r.off = p.off + 1 /\ r.data = Append(p.data, e)
                           /\ r.backlog # None) => AtTip(G, r)
<1> DEFINE i == p.id
           d == Append(p.data, e)
           o == p.off + 1
           b == TRUE
           g == [data |-> d, off |-> o, pub |-> b]
           G == Put(H, i, g)
           v == w + 1
<1>1. /\ n \in Nat /\ w \in Nat /\ v \in Nat /\ w <= v /\ n <= n
      /\ i \in 1 .. n /\ p.data \in Data(w) /\ p.off \in Nat /\ e \in 1 .. v /\ e \in Nat
      /\ o \in Nat /\ b \in BOOLEAN
  BY DEF Histories, ServerOf
<1>2. p.data \in Data(v) /\ p.data \in Words
  BY <1>1, WordsOfData
<1>3. d \in Data(v)
  BY <1>1, <1>2, DataAppend
<1>4. H[i] = [data |-> p.data, off |-> p.off, pub |-> b] /\ i \in DOMAIN H
  BY DEF AtTip
<1>5. b = TRUE /\ d = Append(p.data, e) /\ o = p.off + 1
  OBVIOUS
<1> HIDE DEF b, d, o, v
<1>6. g \in HistoryOf(v) /\ g.data = d /\ g.off = o /\ g.pub = b
  BY <1>1, <1>3 DEF HistoryOf
<1>7. Kept(H[i], g)
  <2>1. H[i].data = p.data /\ H[i].off = p.off /\ H[i].pub = b
    BY <1>4
  <2>2. g.pub = H[i].pub /\ g.data = Append(H[i].data, e) /\ g.off = H[i].off + 1
    BY <2>1, <1>5, <1>6
  <2> HIDE DEF g
  <2>3. \A x \in Int, y \in Words : In(H[i], x, y) => In(g, x, y)
    BY <2>2, <1>1, InLonger
  <2> QED BY <2>2, <2>3 DEF Kept
<1> HIDE DEF g, i
<1>8. Grows(H, n, w, G, n, v) /\ G[i] = g /\ i \in DOMAIN G
  BY <1>1, <1>6, <1>7, PutGrows
<1>9. OthersAtTip(G, S, s)
  BY <1>1, <1>6, <1>7, PutOthers DEF i
<1> HIDE DEF G
<1>10. Claim(G, i, o, d)
  <2>1. d \in Words
    BY <1>1, <1>3, WordsOfData
  <2>2. In(g, o, d)
    BY <2>1, <1>1, <1>6, InTip
  <2> QED BY <2>2, <1>8 DEF Claim
<1>11. \A r : (/\ r.id = i /\ r.off = o /\ r.data = d /\ r.backlog # None) => AtTip(G, r)
  BY <1>5, <1>8 DEF AtTip, g
<1> QED BY <1>8, <1>9, <1>10, <1>11 DEF i, d, o, v

(* The type of a server whose dataset, offset and backlog have changed.    *)
LEMMA FedType ==
    ASSUME NEW n, NEW v, NEW r, NEW q, NEW x, NEW o, NEW y, r \in ServerOf(n, v),
           x \in Data(v), o \in Nat, y \in Data(v),
           q = [r EXCEPT !.data = x, !.off = o, !.backlog = y]
    PROVE  q \in ServerOf(n, v)
<1> DEFINE D == Data(v)
           P == PositionOf(n) \cup {None}
           F == FileOf(n, v) \cup {None}
<1>1. r \in [data : D, id : 1 .. n, off : Nat, id2 : 1 .. n \cup {None},
             second : Nat \cup {-1}, backlog : D \cup {None},
             host : Server \cup {None},
             state : {"none", "connect", "psync", "transfer", "connected"},
             primary : P, cached : P, initial : P,
             failover : [st : {"none", "wait", "progress"}, tgt : Server \cup {None},
                         kind : {"none", "any", "to", "force"}],
             child : F]
  BY DEF ServerOf
<1>2. x \in D /\ y \in D
  OBVIOUS
<1>3. q \in [data : D, id : 1 .. n, off : Nat, id2 : 1 .. n \cup {None},
             second : Nat \cup {-1}, backlog : D \cup {None},
             host : Server \cup {None},
             state : {"none", "connect", "psync", "transfer", "connected"},
             primary : P, cached : P, initial : P,
             failover : [st : {"none", "wait", "progress"}, tgt : Server \cup {None},
                         kind : {"none", "any", "to", "force"}],
             child : F]
  <2> HIDE DEF D, P, F
  <2> QED BY <1>1, <1>2
<1> QED BY <1>3 DEF ServerOf

LEMMA Written ==
  ASSUME NEW H, NEW S, NEW C, NEW D, NEW n, NEW w, System(H, S, C, D, n, w), Primaries(H, S),
         NEW p \in Server, S[p].host = None, NEW e, e = w + 1,
         NEW q, q = FeedReplicationBuffer([S[p] EXCEPT !.data = Append(@, e)], e)
  PROVE  Sound([S EXCEPT ![p] = q], FeedReplicas(C, p, e), D, n, w + 1)
<1> DEFINE r == S[p]
           v == w + 1
           E == FeedReplicas(C, p, e)
<1>1. /\ n \in Nat /\ w \in Nat /\ Histories(H, n, w)
      /\ r \in ServerOf(n, w) /\ Shape(r) /\ Failover(p, r) /\ HasHistory(H, r)
  BY ServerFacts
<1>2. v \in Nat /\ w <= v /\ n <= n /\ e \in 1 .. v
  BY <1>1
<1>3. OthersAtTip(H, S, p) /\ Unshared(S, p, r.id) /\ AtTip(H, r)
  BY Others DEF Primaries
<1>4. r \in ServerOf(n, v)
  BY <1>1, <1>2, TypesGrow
<1>5. r.data \in Data(v) /\ Append(r.data, e) \in Data(v)
  BY <1>2, <1>4, DataAppend DEF ServerOf
<1>6. C[p] = None /\ p \notin Replicas(C, p)
  BY <1>1, LinkFacts DEF Replicas, LinkedTo, Shape
<1> HIDE DEF v
<1>7. CASE r.backlog # None
  <2>1. PICK G : /\ Grows(H, n, w, G, n, v) /\ OthersAtTip(G, S, p)
                 /\ Claim(G, r.id, r.off + 1, Append(r.data, e))
                 /\ \A x : (/\ x.id = r.id /\ x.off = r.off + 1 /\ x.data = Append(r.data, e)
                            /\ x.backlog # None) => AtTip(G, x)
    BY <1>1, <1>3, <1>7, LongerHistory DEF v
  <2>2. System(G, S, C, D, n, v)
    BY <2>1, SystemGrows
  <2>3. HasHistory(G, r)
    BY <2>2, ServerFacts
  <2>4. /\ q = [r EXCEPT !.data = Append(r.data, e), !.off = r.off + 1,
                         !.backlog = Trimmed(Append(r.backlog, e))]
    BY <1>4, <1>7 DEF FeedReplicationBuffer, ServerOf
  <2> DEFINE x == Append(r.data, e)
             y == Trimmed(Append(r.backlog, e))
  <2>5. /\ FedState(r, q, e) /\ q.host = r.host /\ q.state = r.state /\ q.primary = r.primary
        /\ q.cached = r.cached /\ q.initial = r.initial /\ q.failover = r.failover /\ q.backlog = y
    BY <2>4, <1>4 DEF FedState, ServerOf
  <2> HIDE DEF r
  <2>6. r.host = None /\ r.primary = None /\ r.cached = None
    BY <1>1 DEF Shape, r
  <2>7. q.backlog # None
    <3>1. r.backlog \in Data(v)
      BY <1>4, <1>7 DEF ServerOf
    <3>2. Append(r.backlog, e) \in Data(v)
      BY <3>1, <1>2, DataAppend
    <3> DEFINE z == Append(r.backlog, e)
    <3>3. z \in Words /\ Len(z) \in Nat
      BY <3>2, <1>2, WordsOfData, LenProperties DEF Words
    <3>4. z # <<>>
      <4>1. r.backlog \in Words /\ e \in Nat /\ Len(z) = Len(r.backlog) + 1 /\ Len(r.backlog) \in Nat
        BY <3>1, <1>2, DataAppend
      <4> HIDE DEF z
      <4> QED BY <3>3, <4>1, EmptySeq
    <3> HIDE DEF z
    <3>5. Tail(z) \in Words
      BY <3>3, <3>4, HeadTailProperties DEF Words
    <3>6. Trimmed(z) \in Words
      BY <3>3, <3>5 DEF Trimmed
    <3> QED BY <3>6, <2>5, NoneAssumption DEF Words, z
  <2>8. Known(q)
    BY <2>5, <2>6, <2>7 DEF Known
  <2>9. Claim(G, q.id, q.off, q.data)
    BY <2>1, <2>5 DEF FedState
  <2>10. HasHistory(G, q) /\ q.backlog \in Data(v) /\ q.data \in Data(v)
    BY <2>3, <2>5, <2>8, <2>9, <1>1, <1>2, <1>4, <1>7, FeedHistory
  <2>11. q \in ServerOf(n, v)
    <3>1. y \in Data(v) /\ x \in Data(v)
      BY <2>5, <2>10, <1>5
    <3>2. q = [r EXCEPT !.data = x, !.off = r.off + 1, !.backlog = y]
      BY <2>4
    <3>3. r.off + 1 \in Nat
      BY <1>4 DEF ServerOf
    <3> HIDE DEF x, y
    <3> QED BY <3>1, <3>2, <3>3, <1>4, FedType
  <2>12. Shape(q)
    BY <2>5, <2>6, <1>1 DEF Shape
  <2>13. Failover(p, q)
    BY <2>5, <1>1 DEF Failover
  <2>14. ServerOK(G, n, v, p, q)
    BY <2>10, <2>11, <2>12, <2>13 DEF ServerOK
  <2>15. AtTip(G, q)
    BY <2>1, <2>5, <2>7 DEF FedState
  <2>16. OneMore(S[p], q, e)
    BY <2>5, <2>7 DEF OneMore, FedState, r
  <2>17. Served(G, S, C, n, v, p, q, E) /\ E[p] = C[p]
    <3>1. SameLinks(C, C, p)
      BY DEF SameLinks
    <3> QED BY <3>1, <2>2, <2>16, <1>2, <1>6, FeedLinks
  <2> HIDE DEF E
  <2>18. q.state \in {"none", "connect"}
    BY <2>5, <2>6, <1>1 DEF Shape
  <2>19. Relinked(G, S, C, n, v, p, q, E)
    BY <2>17, <2>18, <1>6 DEF Relinked, Served
  <2>20. Unshared(S, p, q.id)
    BY <2>5, <1>3 DEF FedState
  <2>21. Sound([S EXCEPT ![p] = q], E, D, n, v)
    BY <2>1, <2>14, <2>15, <2>19, <2>20, Advance DEF Sound
  <2> QED BY <2>21 DEF E, v
<1>8. CASE r.backlog = None
  <2>1. Grows(H, n, w, H, n, v)
    BY <1>1, <1>2, SameGrows
  <2>2. System(H, S, C, D, n, v)
    BY <2>1, SystemGrows
  <2>3. q = [r EXCEPT !.data = Append(r.data, e)]
    BY <1>4, <1>8 DEF FeedReplicationBuffer, ServerOf
  <2>4. q \in ServerOf(n, v)
    BY ZenonT(60), <2>3, <1>4, <1>5 DEF ServerOf
  <2>5. /\ q.id = r.id /\ q.off = r.off /\ q.backlog = None /\ q.child = r.child
        /\ q.host = r.host /\ q.state = r.state /\ q.primary = r.primary
        /\ q.cached = r.cached /\ q.initial = r.initial /\ q.failover = r.failover
    BY <2>3, <1>4, <1>8 DEF ServerOf
  <2>6. r.host = None /\ r.primary = None /\ r.cached = None
    BY <1>1 DEF Shape
  <2> HIDE DEF r
  <2>7. HasHistory(H, q)
    BY <2>5, <2>6, <1>1 DEF HasHistory, Known
  <2>8. Shape(q) /\ Failover(p, q)
    BY <2>5, <2>6, <1>1 DEF Shape, Failover
  <2>9. ServerOK(H, n, v, p, q)
    BY <2>4, <2>7, <2>8 DEF ServerOK
  <2>10. AtTip(H, q)
    BY <2>5, <1>3, <1>8 DEF AtTip
  <2>11. ASSUME NEW s \in Server, C[s] # None, C[s].to = p
         PROVE  s \notin Replicas(C, p) /\ LinkOK(H, n, v, s, C[s], S[s], q)
    <3>1. LinkOK(H, n, v, s, C[s], S[s], S[p]) /\ C[s] \in Link
      BY <2>2, <2>11, LinkFacts
    <3>2. C[s].st \notin {"start", "end", "online"}
      BY <3>1, <1>8 DEF LinkOK, Attached, r
    <3>3. C[s].st \in {"psync", "closed"}
      BY <3>1, <3>2, LinkFields
    <3> QED BY <3>1, <3>2, <3>3, UnservedFrame DEF Replicas
  <2>12. E = C
    <3>1. \A s \in Server : s \notin Replicas(C, p)
      BY <2>11 DEF Replicas, LinkedTo
    <3>2. C = [s \in Server |-> C[s]]
      BY LinkFacts
    <3> QED BY <3>1, <3>2 DEF FeedReplicas
  <2> HIDE DEF E
  <2>13. q.state \in {"none", "connect"}
    BY <2>5, <2>6, <1>1 DEF Shape
  <2>14. C = [s \in Server |-> C[s]]
    BY LinkFacts
  <2>15. Relinked(H, S, C, n, v, p, q, C)
    BY <2>11, <2>13, <2>14, <1>6 DEF Relinked
  <2>16. Unshared(S, p, q.id)
    BY <2>5, <1>3
  <2>17. Sound([S EXCEPT ![p] = q], C, D, n, v)
    BY <2>1, <2>9, <2>10, <2>15, <2>16, <1>3, Advance DEF Sound
  <2> QED BY <2>12, <2>17 DEF E, v
<1> QED BY <1>7, <1>8

-------------------------------------------------------------------------------
(* The side of the replica.                                                *)

LEMMA ServedSame ==
  ASSUME NEW H, NEW S, NEW C, NEW D, NEW n, NEW w, System(H, S, C, D, n, w),
         NEW p \in Server, NEW q, S[p].backlog # None => SameStream(S[p], q),
         NEW E, E = [s \in Server |-> E[s]], SameLinks(C, E, p)
  PROVE  Served(H, S, C, n, w, p, q, E)
<1>1. \A s \in Server \ {p} : E[s] = C[s]
  BY DEF SameLinks
<1>2. ASSUME NEW s \in Server \ {p}, C[s] # None, C[s].to = p
      PROVE  LinkOK(H, n, w, s, C[s], S[s], q)
  <2>1. C[s] \in Link /\ LinkOK(H, n, w, s, C[s], S[s], S[p])
    BY <1>2, LinkFacts
  <2>2. CASE S[p].backlog # None
    BY <2>1, <2>2, StreamFrame
  <2>3. CASE S[p].backlog = None
    <3>1. C[s].st \notin {"start", "end", "online"}
      BY <2>1, <2>3 DEF LinkOK, Attached
    <3>2. C[s].st \in {"psync", "closed"}
      BY <2>1, <3>1, LinkFields
    <3> QED BY <2>1, <3>2, UnservedFrame
  <2> QED BY <2>2, <2>3
<1> QED BY <1>1, <1>2 DEF Served

LEMMA ServedLeft ==
  ASSUME NEW H, NEW S, NEW C, NEW D, NEW n, NEW w, System(H, S, C, D, n, w),
         NEW p \in Server, NEW q, NEW X, SameLinks(C, X, p), p \notin Replicas(X, p)
  PROVE  /\ Served(H, S, C, n, w, p, q, DisconnectReplicas(X, p))
         /\ DisconnectReplicas(X, p)[p] = X[p]
<1> DEFINE E == DisconnectReplicas(X, p)
<1>1. \A s \in Server \ {p} : X[s] = C[s]
  BY DEF SameLinks
<1>2. E = [s \in Server |-> E[s]] /\ E[p] = X[p]
  BY Disconnected
<1>3. \A s \in Server \ {p} : C[s] = None \/ C[s].to # p => E[s] = C[s]
  BY <1>1, OtherLink
<1>4. \A s \in Server \ {p} : C[s] # None /\ C[s].to = p =>
            E[s] # None /\ LinkOK(H, n, w, s, E[s], S[s], q)
  BY <1>1, LeftLink
<1> HIDE DEF E
<1>5. Served(H, S, C, n, w, p, q, E)
  BY <1>2, <1>3, <1>4 DEF Served
<1> QED BY <1>2, <1>5 DEF E

(* With the connection of p itself.                                        *)
LEMMA RelinkServed ==
  ASSUME NEW H, NEW S, NEW C, NEW n, NEW w, NEW p, NEW q, NEW E,
         Served(H, S, C, n, w, p, q, E), q.state \notin {"none", "connect"},
         NEW c, E[p] = c, LinkOK(H, n, w, p, c, q, S[c.to])
  PROVE  Relinked(H, S, C, n, w, p, q, E)
<1>1. c \in Link /\ (c.st \in {"start", "end", "online"} => c.to # p)
  BY DEF LinkOK, Attached
<1>2. c # None /\ c.st \in {"psync", "start", "end", "online", "closed"}
  BY <1>1, LinkFields
<1>3. CASE c.to = p
  <2>1. LinkOK(H, n, w, p, c, q, q)
    BY <1>1, <1>2, <1>3, UnservedFrame
  <2> QED BY <2>1, <1>2, <1>3 DEF Relinked, Served
<1>4. CASE c.to # p
  BY <1>2, <1>4 DEF Relinked, Served
<1> QED BY <1>3, <1>4

(* The replica reads the first message of its connection.                  *)
Reads(H, n, w, r, q, out) ==
    \A i \in 1 .. n, o \in Nat, d \in Data(w) :
        Delivers(H, n, w, r, out, i, o, d) => Delivers(H, n, w, q, Tail(out), i, o, d)

LEMMA ReadLink ==
  ASSUME NEW H, NEW n \in Nat, NEW w \in Nat, NEW s, NEW c, NEW r, NEW q,
         NEW p \in ServerOf(n, w), LinkOK(H, n, w, s, c, r, p), c.out # <<>>,
         q.host = r.host, c.st \in {"online", "closed"}, ~Answered(n, r, c.out),
         Reads(H, n, w, r, q, c.out)
  PROVE  LinkOK(H, n, w, s, [c EXCEPT !.out = Tail(@)], q, p)
<1> DEFINE e == [c EXCEPT !.out = Tail(c.out)]
<1>1. c \in Link
  BY DEF LinkOK
<1>2. c.out \in Seq(Message) /\ Tail(c.out) \in Seq(Message)
  BY <1>1, LinkFields, HeadTailProperties
<1>3. e \in Link
  BY <1>1, <1>2 DEF Link
<1>4. e.to = c.to /\ e.st = c.st /\ e.out = Tail(c.out) /\ e.pend = c.pend
  BY <1>1 DEF Link
<1> HIDE DEF e
<1>5. p.id \in 1 .. n /\ p.off \in Nat /\ p.data \in Data(w)
  BY DEF ServerOf
<1>6. Fed(H, n, w, e, q, p)
  <2> SUFFICES ASSUME e.st = "online"
               PROVE  Delivers(H, n, w, q, e.out, p.id, p.off, p.data)
    BY DEF Fed
  <2>1. Delivers(H, n, w, r, c.out, p.id, p.off, p.data)
    BY <1>4 DEF LinkOK, Fed
  <2> QED BY <2>1, <1>4, <1>5 DEF Reads
<1>7. Closed(H, n, w, e, q)
  <2> SUFFICES ASSUME e.st = "closed"
               PROVE  \E i \in 1 .. n, o \in Nat, d \in Data(w) :
                        /\ Delivers(H, n, w, q, e.out, i, o, d)
                        /\ Claim(H, i, o, d) /\ Public(H, i)
    BY DEF Closed
  <2>1. PICK i \in 1 .. n, o \in Nat, d \in Data(w) :
            Delivers(H, n, w, r, c.out, i, o, d) /\ Claim(H, i, o, d) /\ Public(H, i)
    BY <1>4 DEF LinkOK, Closed
  <2>2. Delivers(H, n, w, q, e.out, i, o, d)
    BY <2>1, <1>4 DEF Reads
  <2> QED BY <2>1, <2>2
<1>8. LinkOK(H, n, w, s, e, q, p)
  BY <1>3, <1>4, <1>6, <1>7 DEF LinkOK, Asking, Attached, Waiting, Snapshot
<1> QED BY <1>8 DEF e

LEMMA ReplicaStep ==
  ASSUME NEW H, NEW S, NEW C, NEW D, NEW n, NEW w, System(H, S, C, D, n, w), Primaries(H, S),
         NEW p \in Server, NEW q, ServerOK(H, n, w, p, q), q.host # None,
         NEW E, Relinked(H, S, C, n, w, p, q, E)
  PROVE  /\ System(H, [S EXCEPT ![p] = q], E, D, n, w)
         /\ Primaries(H, [S EXCEPT ![p] = q])
<1>1. System(H, [S EXCEPT ![p] = q], E, D, n, w)
  BY SystemStep
<1>2. DOMAIN S = Server
  BY ServerFacts
<1>3. Primaries(H, [S EXCEPT ![p] = q])
  BY <1>2, PrimariesStep
<1> QED BY <1>1, <1>3

(* Only the states of the link and of the failover change.                 *)
LEMMA SameHistoryOK ==
  ASSUME NEW H, NEW n, NEW w, NEW s, NEW r, ServerOK(H, n, w, s, r), NEW q \in ServerOf(n, w),
         SameHistory(r, q), q.host = r.host, q.primary = r.primary, q.cached = r.cached,
         Shape(q), Failover(s, q)
  PROVE  ServerOK(H, n, w, s, q) /\ SameStream(r, q)
<1>1. HasHistory(H, r) /\ r \in ServerOf(n, w)
  BY DEF ServerOK
<1>2. (Known(q) <=> Known(r)) /\ (q.backlog # None => Known(q))
  BY <1>1 DEF Known, SameHistory, HasHistory
<1>3. HasHistory(H, q)
  BY <1>1, <1>2, HistoryFrame
<1> QED BY <1>3 DEF ServerOK, SameStream, SameHistory

LEMMA PsyncSent ==
  ASSUME NEW H, NEW S, NEW C, NEW D, NEW n, NEW w, System(H, S, C, D, n, w), Primaries(H, S),
         NEW s \in Server, S[s].state = "connect",
         NEW i, NEW o, NEW b \in BOOLEAN, b => S[s].failover.st = "progress",
         i = (IF S[s].cached = None THEN None ELSE S[s].cached.id),
         o = (IF S[s].cached = None THEN -1 ELSE S[s].cached.off + 1)
  PROVE  Sound([S EXCEPT ![s] = [@ EXCEPT !.state = "psync"]],
               [C EXCEPT ![s] = [Connection(S[s].host, "psync", <<>>) EXCEPT
                                    !.req = [id |-> i, off |-> o, failover |-> b]]], D, n, w)
<1> DEFINE r == S[s]
           q == [r EXCEPT !.state = "psync"]
           k == [id |-> i, off |-> o, failover |-> b]
           c == [Connection(r.host, "psync", <<>>) EXCEPT !.req = k]
           E == [C EXCEPT ![s] = c]
<1>1. /\ n \in Nat /\ w \in Nat /\ ServerOK(H, n, w, s, r) /\ r \in ServerOf(n, w)
      /\ Shape(r) /\ Failover(s, r)
  BY ServerFacts
<1>2. /\ q \in ServerOf(n, w) /\ SameHistory(r, q) /\ q.host = r.host /\ q.primary = r.primary
      /\ q.cached = r.cached /\ q.state = "psync" /\ q.initial = r.initial
      /\ q.failover = r.failover
  BY <1>1 DEF ServerOf, SameHistory
<1>3. r.host # None /\ r.host \in Server
  BY <1>1 DEF Shape, ServerOf
<1>4. Shape(q) /\ Failover(s, q)
  BY <1>1, <1>2, <1>3 DEF Shape, Failover, SameHistory
<1>5. k \in Request /\ k.id = i /\ k.off = o /\ k.failover = b
  <2>1. r.cached # None => r.cached.id \in Nat /\ r.cached.off + 1 \in Int
    BY <1>1 DEF ServerOf, PositionOf
  <2>2. i \in Nat \cup {None} /\ o \in Int
    BY <2>1
  <2> QED BY <2>2 DEF Request
<1>6. c = [to |-> r.host, st |-> "psync", req |-> k, out |-> <<>>, pend |-> <<>>, initial |-> 0]
  BY DEF Connection
<1>7. C = [t \in Server |-> C[t]]
  BY LinkFacts
<1>8. E = [t \in Server |-> E[t]] /\ E[s] = c /\ SameLinks(C, E, s)
  BY <1>7 DEF SameLinks
<1>9. [S EXCEPT ![s] = [@ EXCEPT !.state = "psync"]] = [S EXCEPT ![s] = q]
  OBVIOUS
<1> HIDE DEF q, k
<1>10. c \in Link
  <2>1. <<>> \in Seq(Message) /\ <<>> \in Seq(Nat) /\ 0 \in Nat
    OBVIOUS
  <2> HIDE DEF c
  <2> QED BY <2>1, <1>3, <1>5, <1>6 DEF Link
<1>11. c.to = r.host /\ c.st = "psync" /\ c.req = k /\ c.out = <<>> /\ c.pend = <<>>
  BY <1>6
<1> HIDE DEF c
<1>12. Requests(k, q)
  BY <1>2, <1>5 DEF Requests
<1>13. Asking(s, c, q)
  <2>1. b => r.host # s
    BY <1>1 DEF Failover
  <2> QED BY <2>1, <1>2, <1>5, <1>11, <1>12 DEF Asking
<1>14. LinkOK(H, n, w, s, c, q, S[c.to])
  <2>1. <<>> \in Data(w)
    BY <1>1, WordsOfData
  <2> QED BY <2>1, <1>2, <1>10, <1>11, <1>13
          DEF LinkOK, Attached, Waiting, Snapshot, Fed, Closed
<1>15. ServerOK(H, n, w, s, q) /\ SameStream(r, q)
  BY <1>1, <1>2, <1>4, SameHistoryOK
<1> HIDE DEF E
<1>16. Served(H, S, C, n, w, s, q, E)
  BY <1>8, <1>15, ServedSame
<1>17. Relinked(H, S, C, n, w, s, q, E)
  <2>1. q.state \notin {"none", "connect"}
    BY <1>2
  <2> QED BY <2>1, <1>8, <1>14, <1>16, RelinkServed
<1>18. System(H, [S EXCEPT ![s] = q], E, D, n, w) /\ Primaries(H, [S EXCEPT ![s] = q])
  BY <1>2, <1>3, <1>15, <1>17, ReplicaStep
<1>19. Sound([S EXCEPT ![s] = q], E, D, n, w)
  BY <1>18 DEF Sound
<1> QED BY <1>9, <1>19 DEF E, c, k

LEMMA ReplicaSendPsyncCommandStep ==
  ASSUME NEW H, System(H, srv, conn, disk, nid, writes), Primaries(H, srv), NEW s \in Server,
         ReplicaSendPsyncCommand(s)
  PROVE  Sound(srv', conn', disk', nid', writes')
<1> DEFINE r == srv[s]
           i == IF r.cached = None THEN None ELSE r.cached.id
           o == IF r.cached = None THEN -1 ELSE r.cached.off + 1
           b == r.failover.st = "progress"
           U == [srv EXCEPT ![s] = [@ EXCEPT !.state = "psync"]]
           E == [conn EXCEPT ![s] = [Connection(r.host, "psync", <<>>) EXCEPT
                                    !.req = [id |-> i, off |-> o, failover |-> b]]]
<1>1. r.state = "connect"
  BY DEF ReplicaSendPsyncCommand
<1>2. srv' = U /\ conn' = E
  BY DEF ReplicaSendPsyncCommand, Pos
<1>3. disk' = disk /\ nid' = nid /\ writes' = writes
  BY DEF ReplicaSendPsyncCommand, bounds
<1>4. b \in BOOLEAN /\ (b => srv[s].failover.st = "progress")
  OBVIOUS
<1>5. i = (IF srv[s].cached = None THEN None ELSE srv[s].cached.id)
      /\ o = (IF srv[s].cached = None THEN -1 ELSE srv[s].cached.off + 1)
  OBVIOUS
<1> HIDE DEF b, i, o
<1>6. Sound(U, E, disk, nid, writes)
  BY <1>1, <1>4, <1>5, PsyncSent
<1> QED BY <1>2, <1>3, <1>6

(* The answer to a PSYNC: a snapshot will follow.                          *)
LEMMA AnswerFullResync ==
  ASSUME NEW i \in Nat, NEW k \in Nat
  PROVE  LET out == <<FullResyncMsg(i, k)>> IN
         /\ out # <<>> /\ Tail(out) = <<>> /\ Head(out).k = "fullresync"
         /\ Head(out).id = i /\ Head(out).off = k
<1> DEFINE m == FullResyncMsg(i, k)
           q == <<>>
<1>1. m \in Message /\ q \in Seq(Message)
  BY MessageTypes
<1>2. m.k = "fullresync" /\ m.id = i /\ m.off = k
  BY DEF FullResyncMsg
<1> HIDE DEF m, q
<1>3. <<m>> # <<>> /\ Head(<<m>>) = m /\ Tail(<<m>>) = <<>>
  BY <1>1, First
<1> QED BY <1>2, <1>3 DEF m

LEMMA AnswerError ==
  LET out == <<ErrorMsg>> IN out # <<>> /\ Head(out).k = "error"
<1> DEFINE m == ErrorMsg
           q == <<>>
<1>1. m \in Message /\ q \in Seq(Message)
  BY MessageTypes
<1>2. m.k = "error"
  BY DEF ErrorMsg
<1> HIDE DEF m, q
<1>3. <<m>> # <<>> /\ Head(<<m>>) = m
  BY <1>1, First
<1> QED BY <1>2, <1>3 DEF m

(* What a connection may hold after the answer.                            *)
LEMMA ReadFullResync ==
  ASSUME NEW H, NEW n \in Nat, NEW w \in Nat, NEW s, NEW c, NEW r, NEW p \in ServerOf(n, w),
         LinkOK(H, n, w, s, c, r, p), r.state = "psync", c.out # <<>>,
         Head(c.out).k = "fullresync", NEW q, q.host = r.host, q.state = "transfer",
         q.initial = Pos(Head(c.out).id, Head(c.out).off)
  PROVE  /\ Head(c.out).id \in 1 .. n /\ Head(c.out).off \in Nat
         /\ LinkOK(H, n, w, s, [c EXCEPT !.out = Tail(@)], q, p)
<1> DEFINE m == Head(c.out)
           e == [c EXCEPT !.out = Tail(@)]
           Known1 == m.id \in 1 .. n /\ m.off \in Nat
<1>1. c \in Link /\ c.to = r.host /\ c.pend \in Data(w) /\ c.initial \in Nat
      /\ c.out \in Seq(Message) /\ c.st \in {"psync", "start", "end", "online", "closed"}
  BY LinkFields DEF LinkOK
<1>2. Tail(c.out) \in Seq(Message)
  BY <1>1, HeadTailProperties
<1>3. e \in Link /\ e.to = c.to /\ e.st = c.st /\ e.out = Tail(c.out) /\ e.pend = c.pend
      /\ e.initial = c.initial
  BY <1>1, <1>2 DEF Link
<1>4. /\ c.st \notin {"psync", "start"}
  BY DEF LinkOK, Asking, Waiting
<1>5. p.id \in 1 .. n /\ p.id \in Nat /\ p.off \in Nat /\ p.data \in Data(w)
  BY DEF ServerOf
<1> HIDE DEF e
<1>6. CASE c.st = "end"
  <2>1. c.out = <<FullResyncMsg(p.id, c.initial)>>
    BY <1>6 DEF LinkOK, Snapshot
  <2>2. Tail(c.out) = <<>> /\ m.id = p.id /\ m.off = c.initial
    BY <2>1, <1>1, <1>5, AnswerFullResync
  <2>3. Snapshot(e, q, p)
    BY <2>2, <1>3, <1>6 DEF LinkOK, Snapshot
  <2>4. LinkOK(H, n, w, s, e, q, p)
    BY <2>3, <1>3, <1>6 DEF LinkOK, Asking, Attached, Waiting, Fed, Closed
  <2> QED BY <2>2, <2>4, <1>1, <1>5 DEF e
<1>7. ASSUME NEW i \in 1 .. n, NEW o, NEW d, Delivers(H, n, w, r, c.out, i, o, d)
      PROVE  Known1 /\ Delivers(H, n, w, q, Tail(c.out), i, o, d)
  <2> DEFINE z == c.out
  <2>1. /\ i \in Nat /\ Delivers(H, n, w, r, z, i, o, d) /\ Head(z).k = "fullresync"
        /\ q.initial = Pos(Head(z).id, Head(z).off)
    BY <1>7
  <2> HIDE DEF z
  <2>2. /\ Head(z).id = i /\ Head(z).off \in Nat
        /\ \A x : x.state = "transfer" /\ x.initial = Pos(Head(z).id, Head(z).off)
                    => Delivers(H, n, w, x, Tail(z), i, o, d)
    BY <2>1, ReadResync
  <2>3. Delivers(H, n, w, q, Tail(z), i, o, d)
    BY <2>1, <2>2
  <2> QED BY <2>2, <2>3 DEF z
<1>8. CASE c.st = "online"
  <2>1. Delivers(H, n, w, r, c.out, p.id, p.off, p.data)
    BY <1>8 DEF LinkOK, Fed
  <2>2. Known1 /\ Delivers(H, n, w, q, e.out, p.id, p.off, p.data)
    BY <2>1, <1>3, <1>5, <1>7
  <2>3. LinkOK(H, n, w, s, e, q, p)
    BY <2>2, <1>3, <1>8 DEF LinkOK, Asking, Attached, Waiting, Snapshot, Fed, Closed
  <2> QED BY <2>2, <2>3 DEF e
<1>9. CASE c.st = "closed"
  <2>1. CASE Answered(n, r, c.out)
    <3>1. c.out # <<ErrorMsg>>
      BY AnswerError
    <3>2. PICK i \in 1 .. n, k \in Nat : c.out = <<FullResyncMsg(i, k)>>
      BY <2>1, <3>1 DEF Answered
    <3>3. i \in Nat
      OBVIOUS
    <3>4. Tail(c.out) = <<>> /\ m.id = i /\ m.off = k
      BY <3>2, <3>3, AnswerFullResync
    <3>5. Answered(n, q, e.out)
      BY <3>4, <1>3 DEF Answered
    <3>6. Closed(H, n, w, e, q)
      BY <3>5 DEF Closed
    <3>7. LinkOK(H, n, w, s, e, q, p)
      BY <3>6, <1>3, <1>9 DEF LinkOK, Asking, Attached, Waiting, Snapshot, Fed
    <3> QED BY <3>4, <3>7 DEF e
  <2>2. CASE ~Answered(n, r, c.out)
    <3>1. PICK i \in 1 .. n, o \in Nat, d \in Data(w) :
            Delivers(H, n, w, r, c.out, i, o, d) /\ Claim(H, i, o, d) /\ Public(H, i)
      BY <2>2, <1>9 DEF LinkOK, Closed
    <3>2. Known1 /\ Delivers(H, n, w, q, e.out, i, o, d)
      BY <3>1, <1>3, <1>7
    <3>3. Closed(H, n, w, e, q)
      BY <3>1, <3>2 DEF Closed
    <3>4. LinkOK(H, n, w, s, e, q, p)
      BY <3>3, <1>3, <1>9 DEF LinkOK, Asking, Attached, Waiting, Snapshot, Fed
    <3> QED BY <3>2, <3>4 DEF e
  <2> QED BY <2>1, <2>2
<1> QED BY <1>1, <1>4, <1>6, <1>8, <1>9

LEMMA FullResyncRead ==
  ASSUME NEW H, NEW S, NEW C, NEW D, NEW n, NEW w, System(H, S, C, D, n, w), Primaries(H, S),
         NEW s \in Server, S[s].state = "psync", C[s].out # <<>>,
         Head(C[s].out).k = "fullresync", NEW y, y = Pos(Head(C[s].out).id, Head(C[s].out).off),
         NEW q, SameHistory(S[s], q), q.host = S[s].host, q.primary = S[s].primary,
         q.cached = S[s].cached, q.state = "transfer", q.initial = y, q.failover = NoFailover,
         y \in PositionOf(n) => q \in ServerOf(n, w)
  PROVE  Sound([S EXCEPT ![s] = q], [C EXCEPT ![s].out = Tail(@)], D, n, w)
<1> DEFINE r == S[s]
           c == C[s]
           x == [c EXCEPT !.out = Tail(@)]
           E == [C EXCEPT ![s].out = Tail(@)]
<1>1. /\ n \in Nat /\ w \in Nat /\ ServerOK(H, n, w, s, r) /\ r \in ServerOf(n, w)
      /\ Shape(r) /\ Failover(s, r)
  BY ServerFacts
<1>2. /\ C = [t \in Server |-> C[t]] /\ c # None /\ c \in Link /\ c.to \in Server
      /\ LinkOK(H, n, w, s, c, r, S[c.to]) /\ S[c.to] \in ServerOf(n, w)
  BY LinkFacts
<1>3. SameHistory(r, q) /\ q.host = r.host /\ q.primary = r.primary /\ q.cached = r.cached
  OBVIOUS
<1>4. /\ r.state = "psync" /\ c.out # <<>> /\ Head(c.out).k = "fullresync"
      /\ q.initial = Pos(Head(c.out).id, Head(c.out).off)
      /\ y = Pos(Head(c.out).id, Head(c.out).off)
  OBVIOUS
<1> HIDE DEF r, c
<1>5. Head(c.out).id \in 1 .. n /\ Head(c.out).off \in Nat /\ LinkOK(H, n, w, s, x, q, S[c.to])
  <2> DEFINE z == S[c.to]
  <2>1. LinkOK(H, n, w, s, c, r, z) /\ z \in ServerOf(n, w)
    BY <1>2
  <2> HIDE DEF z
  <2>2. /\ Head(c.out).id \in 1 .. n /\ Head(c.out).off \in Nat
        /\ LinkOK(H, n, w, s, [c EXCEPT !.out = Tail(@)], q, z)
    BY <2>1, <1>1, <1>3, <1>4, ReadFullResync
  <2> QED BY <2>2 DEF z
<1>6. y \in PositionOf(n) /\ y # None
  BY <1>1, <1>4, <1>5, PosOf
<1>7. q \in ServerOf(n, w)
  BY <1>6
<1>8. r.host # None /\ r.primary = None
  BY <1>1 DEF Shape, r
<1>9. Shape(q) /\ Failover(s, q)
  BY <1>1, <1>3, <1>6, <1>8 DEF Shape, Failover, SameHistory, NoFailover
<1>10. ServerOK(H, n, w, s, q) /\ SameStream(r, q)
  BY <1>1, <1>3, <1>7, <1>9, SameHistoryOK
<1>11. E = [t \in Server |-> E[t]] /\ E[s] = x /\ SameLinks(C, E, s)
  BY <1>2 DEF SameLinks, c
<1>12. x.to = c.to
  BY <1>2 DEF Link
<1> HIDE DEF x, E
<1>13. Served(H, S, C, n, w, s, q, E)
  BY <1>10, <1>11, ServedSame DEF r
<1>14. Relinked(H, S, C, n, w, s, q, E)
  <2>1. q.state \notin {"none", "connect"}
    BY <1>3
  <2> QED BY <2>1, <1>5, <1>11, <1>12, <1>13, RelinkServed
<1>15. System(H, [S EXCEPT ![s] = q], E, D, n, w) /\ Primaries(H, [S EXCEPT ![s] = q])
  BY <1>3, <1>8, <1>10, <1>14, ReplicaStep
<1> QED BY <1>15 DEF Sound, E

(* The answer to a PSYNC: the stream goes on, under the same ID or not.    *)
LEMMA ContinuePromised ==
  ASSUME NEW H, NEW S, NEW C, NEW D, NEW n, NEW w, System(H, S, C, D, n, w),
         NEW s \in Server, S[s].state = "psync", C[s].out # <<>>, Head(C[s].out).k = "continue"
  PROVE  /\ S[s].cached # None /\ ~Answered(n, S[s], C[s].out)
         /\ C[s].st \in {"online", "closed"} /\ Head(C[s].out).id \in 1 .. n
         /\ \E o \in Nat, d \in Data(w) :
                /\ Delivers(H, n, w, S[s], C[s].out, Head(C[s].out).id, o, d)
                /\ Claim(H, Head(C[s].out).id, o, d) /\ Public(H, Head(C[s].out).id)
<1> DEFINE r == S[s]
           c == C[s]
           z == c.out
           p == S[c.to]
<1>1. n \in Nat /\ w \in Nat
  BY ServerFacts
<1>2. /\ c \in Link /\ LinkOK(H, n, w, s, c, r, p) /\ p \in ServerOf(n, w) /\ HasHistory(H, p)
  BY LinkFacts
<1>3. r.state = "psync" /\ z # <<>> /\ Head(z).k = "continue"
  OBVIOUS
<1> HIDE DEF r, c, p
<1>4. ~Answered(n, r, z)
  <2>1. z # <<ErrorMsg>>
    BY <1>3, AnswerError
  <2>2. \A i \in 1 .. n, k \in Nat : z # <<FullResyncMsg(i, k)>>
    BY <1>1, <1>3, AnswerFullResync
  <2> QED BY <2>1, <2>2, <1>3 DEF Answered
<1>5. Promised(H, n, w, r, z)
  BY <1>1, <1>2, <1>4, LinkPromises
<1>6. PICK i \in 1 .. n, o \in Nat, d \in Data(w) :
        Delivers(H, n, w, r, z, i, o, d) /\ Claim(H, i, o, d) /\ Public(H, i)
  BY <1>5 DEF Promised
<1>7. c.st \in {"online", "closed"}
  <2>1. c.st \notin {"psync", "start"}
    BY <1>2, <1>3 DEF LinkOK, Asking, Waiting
  <2>2. c.st # "end"
    <3> SUFFICES ASSUME c.st = "end" PROVE FALSE
      OBVIOUS
    <3>1. z = <<FullResyncMsg(p.id, c.initial)>>
      BY <1>2, <1>3 DEF LinkOK, Snapshot
    <3>2. p.id \in Nat /\ c.initial \in Nat
      BY <1>1, <1>2 DEF ServerOf, Link
    <3> QED BY <3>1, <3>2, <1>3, AnswerFullResync
  <2> QED BY <2>1, <2>2, <1>2, LinkFields
<1> HIDE DEF z
<1>8. r.cached # None /\ Head(z).id = i
  <2>1. i \in Nat
    BY <1>1
  <2>2. /\ r.cached # None /\ Head(z).id = i
        /\ \A q : q.state = "connected" /\ q.id = i /\ q.off = r.off /\ q.data = r.data
                    => Delivers(H, n, w, q, Tail(z), i, o, d)
    BY <2>1, <1>1, <1>3, <1>6, ReadContinue
  <2> QED BY <2>2
<1> QED BY <1>4, <1>6, <1>7, <1>8 DEF r, c, z

(* q is r when it has been told to go on under the ID i.                   *)
Continued(r, q, i) ==
    /\ q.data = r.data /\ q.off = r.off /\ q.id = i /\ q.child = r.child
    /\ q.primary = Pos(i, r.off) /\ q.cached = None /\ q.initial = r.initial
    /\ q.host = r.host /\ q.state = "connected" /\ q.failover = NoFailover
    /\ q.backlog = IF r.backlog = None THEN <<>> ELSE r.backlog
    /\ q.id2 = IF i = r.id THEN r.id2 ELSE r.id
    /\ q.second = IF i = r.id THEN r.second ELSE r.off + 1

LEMMA ContinueHistory ==
  ASSUME NEW H, NEW n \in Nat, NEW w \in Nat, NEW r \in ServerOf(n, w), HasHistory(H, r),
         Shape(r), r.cached # None, NEW i, Claim(H, i, r.off, r.data), Public(H, i),
         NEW q, Continued(r, q, i), q.primary # None
  PROVE  HasHistory(H, q)
<1> USE DEF Continued
<1>1. r.data \in Words /\ r.off \in Nat
  BY WordsOfData DEF ServerOf
<1>2. Claim(H, r.id, r.off, r.data)
  BY DEF HasHistory, Known
<1>3. Suffix(q)
  <2>1. CASE r.backlog # None
    BY <2>1 DEF HasHistory, Suffix
  <2>2. CASE r.backlog = None
    <3> DEFINE v == <<>>
    <3>1. q.backlog = v /\ r.data = r.data \o v /\ Len(v) = 0
      BY <2>2, <1>1, CatEmpty
    <3> HIDE DEF v
    <3>2. q.data = r.data \o q.backlog
      BY <3>1
    <3>3. Len(q.backlog) <= q.off
      BY <3>1, <1>1
    <3> QED BY <3>2, <3>3, <1>1 DEF Suffix
  <2> QED BY <2>1, <2>2
<1>4. ASSUME q.id2 # None
      PROVE  Second(H, q)
  <2>1. CASE i = r.id
    <3>1. r.id2 # None
      BY <1>4, <2>1
    <3>2. H[r.id].pub
      BY <2>1 DEF Public
    <3>3. r.backlog # None
      BY <3>1, <3>2 DEF HasHistory
    <3>4. Second(H, r)
      BY <3>1, <3>3 DEF HasHistory
    <3> QED BY <3>4, <2>1 DEF Second
  <2>2. CASE i # r.id
    <3> DEFINE v == <<>>
    <3>1. r.data = r.data \o v /\ v \in Words /\ Len(v) = 0
      BY <1>1, CatEmpty
    <3> HIDE DEF v
    <3>2. q.data = r.data \o v /\ q.second - 1 = r.off /\ q.id2 = r.id
      BY <3>1, <2>2, <1>1
    <3>3. q.off = q.second - 1 + Len(v)
      BY <3>1, <3>2, <1>1
    <3> QED BY <3>1, <3>2, <3>3, <1>1, <1>2 DEF Second, Claim
  <2> QED BY <2>1, <2>2
<1>5. Known(q)
  BY DEF Known
<1> QED BY <1>3, <1>4, <1>5 DEF HasHistory

LEMMA OwnNoReplica ==
  ASSUME NEW H, NEW S, NEW C, NEW D, NEW n, NEW w, System(H, S, C, D, n, w),
         NEW s \in Server, C[s] # None, NEW X, X[s] = [C[s] EXCEPT !.out = Tail(@)]
  PROVE  s \notin Replicas(X, s)
<1>1. C[s] \in Link /\ LinkOK(H, n, w, s, C[s], S[s], S[C[s].to])
  BY LinkFacts
<1>2. X[s].st = C[s].st /\ X[s].to = C[s].to
  BY <1>1 DEF Link
<1>3. C[s].st \in {"start", "end", "online"} => C[s].to # s
  BY <1>1 DEF LinkOK, Attached
<1> QED BY <1>2, <1>3 DEF Replicas, LinkedTo

(* The connections X are C when s has taken the first message of its own.  *)
FirstTaken(C, X, s) ==
    /\ X = [t \in Server |-> X[t]] /\ X[s] = [C[s] EXCEPT !.out = Tail(@)]
    /\ SameLinks(C, X, s)

LEMMA TakeFirst ==
  ASSUME NEW H, NEW S, NEW C, NEW D, NEW n, NEW w, System(H, S, C, D, n, w), NEW s \in Server,
         C[s] # None
  PROVE  /\ FirstTaken(C, [C EXCEPT ![s].out = Tail(@)], s)
         /\ \A X : FirstTaken(C, X, s) => s \notin Replicas(X, s) /\ SameLinks(C, X, s)
<1>1. C = [t \in Server |-> C[t]]
  BY LinkFacts
<1>2. FirstTaken(C, [C EXCEPT ![s].out = Tail(@)], s)
  BY <1>1 DEF SameLinks, FirstTaken
<1>3. \A X : FirstTaken(C, X, s) => s \notin Replicas(X, s) /\ SameLinks(C, X, s)
  BY OwnNoReplica DEF FirstTaken
<1> QED BY <1>2, <1>3

(* A state of the replica that has read a message, and the connections.    *)
LEMMA ReplicaReads ==
  ASSUME NEW H, NEW S, NEW C, NEW D, NEW n, NEW w, System(H, S, C, D, n, w), Primaries(H, S),
         NEW s \in Server, C[s] # None, C[s].out # <<>>, C[s].st \in {"online", "closed"},
         ~Answered(n, S[s], C[s].out),
         NEW q, ServerOK(H, n, w, s, q), q.state = "connected", q.host = S[s].host,
         Reads(H, n, w, S[s], q, C[s].out),
         NEW E, Served(H, S, C, n, w, s, q, E), E[s] = [C[s] EXCEPT !.out = Tail(@)]
  PROVE  System(H, [S EXCEPT ![s] = q], E, D, n, w) /\ Primaries(H, [S EXCEPT ![s] = q])
<1> DEFINE c == C[s]
           x == [c EXCEPT !.out = Tail(@)]
           p == S[c.to]
<1>1. n \in Nat /\ w \in Nat
  BY ServerFacts
<1>2. c \in Link /\ c.to \in Server /\ LinkOK(H, n, w, s, c, S[s], p) /\ p \in ServerOf(n, w)
      /\ c.to = S[s].host
  BY LinkFacts
<1>3. c.out # <<>> /\ c.st \in {"online", "closed"} /\ ~Answered(n, S[s], c.out) /\ E[s] = x
      /\ Reads(H, n, w, S[s], q, c.out)
  OBVIOUS
<1>4. x.to = c.to
  BY <1>2 DEF Link
<1> HIDE DEF c, p
<1>5. LinkOK(H, n, w, s, x, q, p)
  BY <1>1, <1>2, <1>3, ReadLink
<1> HIDE DEF x
<1>6. q.state \notin {"none", "connect"} /\ q.host # None
  BY <1>2, NoneAssumption
<1>7. LinkOK(H, n, w, s, x, q, S[x.to])
  BY <1>4, <1>5 DEF p
<1>8. Relinked(H, S, C, n, w, s, q, E)
  BY <1>3, <1>6, <1>7, RelinkServed
<1> QED BY <1>6, <1>8, ReplicaStep

LEMMA ContinueRead ==
  ASSUME NEW H, NEW S, NEW C, NEW D, NEW n, NEW w, System(H, S, C, D, n, w), Primaries(H, S),
         NEW s \in Server, S[s].state = "psync", C[s].out # <<>>, Head(C[s].out).k = "continue",
         NEW i, i = Head(C[s].out).id, S[s].cached # None,
         NEW q, Continued(S[s], q, i), i \in 1 .. n => q \in ServerOf(n, w),
         NEW X, FirstTaken(C, X, s),
         NEW E, E = IF i = S[s].id THEN X ELSE DisconnectReplicas(X, s)
  PROVE  Sound([S EXCEPT ![s] = q], E, D, n, w)
<1> DEFINE r == S[s]
           z == C[s].out
<1>1. /\ n \in Nat /\ w \in Nat /\ ServerOK(H, n, w, s, r) /\ r \in ServerOf(n, w)
      /\ Shape(r) /\ HasHistory(H, r)
  BY ServerFacts
<1>2. C = [t \in Server |-> C[t]] /\ C[s] # None /\ C[s] \in Link
  BY LinkFacts
<1>3. /\ ~Answered(n, r, z) /\ C[s].st \in {"online", "closed"} /\ i \in 1 .. n
      /\ \E o \in Nat, d \in Data(w) :
            Delivers(H, n, w, r, z, i, o, d) /\ Claim(H, i, o, d) /\ Public(H, i)
  BY ContinuePromised
<1>4. /\ r.data \in Words /\ r.off \in Nat /\ r.host # None /\ r.cached # None
      /\ r.initial = None /\ q \in ServerOf(n, w)
  <2>1. r.data \in Data(w) /\ r.off \in Nat
    BY <1>1 DEF ServerOf
  <2>2. r.data \in Words
    BY <2>1, <1>1, WordsOfData
  <2>3. r.host # None /\ r.initial = None
    BY <1>1 DEF Shape
  <2> QED BY <2>1, <2>2, <2>3, <1>3
<1>5. ASSUME NEW j \in 1 .. n, NEW o, NEW d, Delivers(H, n, w, r, z, j, o, d)
      PROVE  j = i /\ Delivers(H, n, w, q, Tail(z), j, o, d)
  <2>1. j \in Nat /\ r.state = "psync" /\ Head(z).k = "continue" /\ i = Head(z).id
    OBVIOUS
  <2>2. q.off = r.off /\ q.data = r.data /\ q.state = "connected" /\ q.id = i
    BY DEF Continued
  <2> HIDE DEF r, z
  <2>3. /\ r.cached # None /\ Head(z).id = j
        /\ \A y : y.state = "connected" /\ y.id = j /\ y.off = r.off /\ y.data = r.data
                    => Delivers(H, n, w, y, Tail(z), j, o, d)
    BY <2>1, <1>1, <1>5, ReadContinue
  <2> QED BY <2>1, <2>2, <2>3
<1>6. Reads(H, n, w, r, q, z)
  BY <1>5 DEF Reads
<1>7. Claim(H, i, r.off, r.data) /\ Public(H, i)
  <2>1. PICK o \in Nat, d \in Data(w) :
            Delivers(H, n, w, r, z, i, o, d) /\ Claim(H, i, o, d) /\ Public(H, i)
    BY <1>3
  <2>2. Delivers(H, n, w, q, Tail(z), i, o, d)
    BY <2>1, <1>3, <1>5
  <2>3. /\ q.data \in Words /\ q.off \in Nat /\ q.state = "connected" /\ q.id = i
        /\ q.data = r.data /\ q.off = r.off
    BY <1>4 DEF Continued
  <2>4. Claim(H, q.id, q.off, q.data)
    BY <2>1, <2>2, <2>3, <1>1, DeliversNow
  <2> QED BY <2>1, <2>3, <2>4
<1>8. Pos(i, r.off) # None
  BY <1>1, <1>3, <1>4, PosOf
<1>9. <<>> # None
  <2>1. <<>> \in Seq(Nat)
    OBVIOUS
  <2> QED BY <2>1, NoneAssumption
<1>10. q.backlog # None
  BY <1>9 DEF Continued
<1>11. HasHistory(H, q)
  <2>1. q.primary # None /\ Continued(r, q, i)
    BY <1>8 DEF Continued
  <2> HIDE DEF r
  <2> QED BY <2>1, <1>1, <1>4, <1>7, ContinueHistory
<1>12. Shape(q) /\ Failover(s, q)
  BY <1>4, <1>8, <1>10 DEF Shape, Failover, NoFailover, Continued
<1>13. ServerOK(H, n, w, s, q)
  BY <1>4, <1>11, <1>12 DEF ServerOK
<1>15. s \notin Replicas(X, s) /\ SameLinks(C, X, s)
  BY <1>2, TakeFirst
<1>16. Served(H, S, C, n, w, s, q, E) /\ E[s] = X[s]
  <2>1. CASE i = r.id
    <3>1. r.backlog # None => SameStream(r, q)
      BY <2>1, <1>10 DEF SameStream, Continued
    <3>2. Served(H, S, C, n, w, s, q, X)
      BY <3>1, <1>15, ServedSame DEF FirstTaken
    <3> QED BY <3>2, <2>1
  <2>2. CASE i # r.id
    <3>1. E = DisconnectReplicas(X, s)
      BY <2>2
    <3> QED BY <3>1, <1>15, ServedLeft
  <2> QED BY <2>1, <2>2
<1>14. q.state = "connected" /\ q.host = S[s].host
  BY DEF Continued
<1>17. System(H, [S EXCEPT ![s] = q], E, D, n, w) /\ Primaries(H, [S EXCEPT ![s] = q])
  <2>1. E[s] = [C[s] EXCEPT !.out = Tail(@)]
    BY <1>16 DEF FirstTaken
  <2> QED BY <2>1, <1>2, <1>3, <1>6, <1>13, <1>14, <1>16, ReplicaReads
<1> QED BY <1>17 DEF Sound

LEMMA FailoverCleared ==
  ASSUME NEW S, NEW C, NEW D, NEW n, NEW w, Sound(S, C, D, n, w), NEW p \in Server
  PROVE  Sound([S EXCEPT ![p] = ClearFailoverState(@)], C, D, n, w)
<1>1. PICK H : System(H, S, C, D, n, w) /\ Primaries(H, S)
  BY DEF Sound
<1> DEFINE f == NoFailover
<1>2. /\ f \in [st : {"none", "wait", "progress"}, tgt : Server \cup {None},
                kind : {"none", "any", "to", "force"}]
      /\ f.st = "none"
  BY DEF NoFailover
<1> HIDE DEF f
<1>3. /\ System(H, [S EXCEPT ![p] = [@ EXCEPT !.failover = f]], C, D, n, w)
      /\ Primaries(H, [S EXCEPT ![p] = [@ EXCEPT !.failover = f]])
  BY <1>1, <1>2, FailoverStep
<1> QED BY <1>3 DEF Sound, ClearFailoverState, f

LEMMA AbortFailoverStep ==
  ASSUME NEW H, System(H, srv, conn, disk, nid, writes), Primaries(H, srv), NEW s \in Server,
         AbortFailover(s), disk' = disk, writes' = writes
  PROVE  Sound(srv', conn', disk', nid', writes')
<1>1. CASE srv[s].failover.st = "progress"
  <2> DEFINE q == ReplicationUnsetPrimary(srv[s], nid + 1)
             U == [srv EXCEPT ![s] = q]
             V == [U EXCEPT ![s] = ClearFailoverState(@)]
  <2>1. DOMAIN srv = Server
    BY ServerFacts
  <2>2. srv' = V /\ conn' = Promoted(conn, s) /\ nid' = nid + 1
    BY <2>1, <1>1 DEF AbortFailover
  <2>3. Sound(U, Promoted(conn, s), disk, nid + 1, writes)
    BY <1>1, Promotion
  <2> HIDE DEF U
  <2>4. Sound(V, Promoted(conn, s), disk, nid + 1, writes)
    BY <2>3, FailoverCleared
  <2> QED BY <2>2, <2>4
<1>2. CASE srv[s].failover.st # "progress"
  <2> DEFINE V == [srv EXCEPT ![s] = ClearFailoverState(@)]
  <2>1. srv' = V /\ conn' = conn /\ nid' = nid
    BY <1>2 DEF AbortFailover
  <2>2. Sound(srv, conn, disk, nid, writes)
    BY DEF Sound
  <2>3. Sound(V, conn, disk, nid, writes)
    BY <2>2, FailoverCleared
  <2> QED BY <2>1, <2>3
<1> QED BY <1>1, <1>2

LEMMA ContinueStep ==
  ASSUME NEW H, System(H, srv, conn, disk, nid, writes), Primaries(H, srv), NEW s \in Server,
         srv[s].state = "psync", conn[s].out # <<>>, Head(conn[s].out).k = "continue"
  PROVE  Sound([srv EXCEPT ![s] = ContinueWith(ClearFailoverState(srv[s]), Head(conn[s].out).id)],
               ContinueConns(s, Head(conn[s].out).id), disk, nid, writes)
<1> DEFINE r == srv[s]
           i == Head(conn[s].out).id
           q == ContinueWith(ClearFailoverState(r), i)
           b == IF r.backlog = None THEN <<>> ELSE r.backlog
           x == Pos(i, r.off)
           X == [conn EXCEPT ![s].out = Tail(@)]
           E == ContinueConns(s, i)
<1>1. /\ nid \in Nat /\ writes \in Nat /\ r \in ServerOf(nid, writes) /\ Shape(r)
  BY ServerFacts
<1>2. r.cached # None /\ i \in 1 .. nid
  BY ContinuePromised
<1>3. r.cached = Pos(r.id, r.off) /\ r.cached.id = r.id
  BY <1>1, <1>2 DEF Shape, Pos
<1>4. E = IF i = r.id THEN X ELSE DisconnectReplicas(X, s)
  BY <1>3 DEF ContinueConns
<1> HIDE DEF r, i
<1>5. q = [r EXCEPT !.failover = NoFailover, !.backlog = b, !.primary = x, !.cached = None,
                    !.state = "connected", !.id = i,
                    !.id2 = IF i = r.id THEN @ ELSE r.id,
                    !.second = IF i = r.id THEN @ ELSE r.off + 1]
  <2>1. CASE i = r.id
    BY ZenonT(60), <2>1, <1>1, <1>3 DEF ContinueWith, ClearFailoverState, CreateReplicationBacklog, ServerOf
  <2>2. CASE i # r.id
    <3>1. [r.cached EXCEPT !.id = i] = x
      BY <1>3 DEF Pos
    <3> QED BY ZenonT(60), <3>1, <2>2, <1>1, <1>3
            DEF ContinueWith, ClearFailoverState, CreateReplicationBacklog, ServerOf
  <2> QED BY <2>1, <2>2
<1>6. Continued(r, q, i)
  BY <1>1, <1>5 DEF Continued, ServerOf
<1>7. x \in PositionOf(nid)
  BY <1>1, <1>2, PosOf DEF ServerOf
<1>8. b \in Data(writes) \cup {None} /\ r.off + 1 \in Nat /\ r.id \in 1 .. nid
  <2>1. <<>> \in Data(writes)
    BY <1>1, WordsOfData
  <2> QED BY <2>1, <1>1 DEF ServerOf
<1> HIDE DEF q, b, x
<1>9. q \in ServerOf(nid, writes)
  <2> DEFINE y == IF i = r.id THEN r.id2 ELSE r.id
             z == IF i = r.id THEN r.second ELSE r.off + 1
             f == NoFailover
  <2>1. /\ y \in 1 .. nid \cup {None} /\ z \in Nat \cup {-1}
        /\ f \in [st : {"none", "wait", "progress"}, tgt : Server \cup {None},
                  kind : {"none", "any", "to", "force"}]
    BY <1>1, <1>8 DEF ServerOf, NoFailover
  <2>2. q = [r EXCEPT !.failover = f, !.backlog = b, !.primary = x, !.cached = None,
                      !.state = "connected", !.id = i, !.id2 = y, !.second = z]
    BY <1>5
  <2> HIDE DEF y, z, f
  <2> QED BY <2>1, <2>2, <1>1, <1>2, <1>7, <1>8 DEF ServerOf
<1>10. FirstTaken(conn, X, s)
  BY LinkFacts, TakeFirst
<1> HIDE DEF X, E
<1>11. /\ srv[s].cached # None /\ Continued(srv[s], q, i) /\ i = Head(conn[s].out).id
       /\ E = IF i = srv[s].id THEN X ELSE DisconnectReplicas(X, s)
  BY <1>2, <1>4, <1>6 DEF r, i
<1>12. Sound([srv EXCEPT ![s] = q], E, disk, nid, writes)
  BY <1>9, <1>10, <1>11, ContinueRead
<1> QED BY <1>12 DEF E, q, r, i

LEMMA ReplicaProcessPsyncReplyStep ==
  ASSUME NEW H, System(H, srv, conn, disk, nid, writes), Primaries(H, srv), NEW s \in Server,
         ReplicaProcessPsyncReply(s)
  PROVE  Sound(srv', conn', disk', nid', writes')
<1> DEFINE r == srv[s]
           m == Head(conn[s].out)
<1>1. r.state = "psync" /\ conn[s].out # <<>>
  BY DEF ReplicaProcessPsyncReply
<1>2. disk' = disk /\ writes' = writes
  BY DEF ReplicaProcessPsyncReply, bounds
<1>3. /\ nid \in Nat /\ writes \in Nat /\ r \in ServerOf(nid, writes) /\ Shape(r)
      /\ Failover(s, r)
  BY ServerFacts
<1>4. CASE /\ m.k = "fullresync" /\ nid' = nid
           /\ srv' = [srv EXCEPT ![s] = [ClearFailoverState(srv[s]) EXCEPT
                            !.state = "transfer", !.initial = Pos(m.id, m.off)]]
           /\ conn' = [conn EXCEPT ![s].out = Tail(@)]
  <2> DEFINE y == Pos(m.id, m.off)
             q == [ClearFailoverState(r) EXCEPT !.state = "transfer", !.initial = y]
  <2>1. /\ SameHistory(r, q) /\ q.host = r.host /\ q.primary = r.primary /\ q.cached = r.cached
        /\ q.state = "transfer" /\ q.initial = y /\ q.failover = NoFailover
    BY <1>3 DEF ServerOf, SameHistory, ClearFailoverState
  <2>2. y \in PositionOf(nid) => q \in ServerOf(nid, writes)
    BY <1>3 DEF ServerOf, ClearFailoverState, NoFailover
  <2>3. srv' = [srv EXCEPT ![s] = q] /\ conn' = [conn EXCEPT ![s].out = Tail(@)]
    BY <1>4
  <2>4. y = Pos(Head(conn[s].out).id, Head(conn[s].out).off) /\ Head(conn[s].out).k = "fullresync"
    BY <1>4
  <2> HIDE DEF q, y
  <2>5. Sound([srv EXCEPT ![s] = q], [conn EXCEPT ![s].out = Tail(@)], disk, nid, writes)
    BY <2>1, <2>2, <2>4, <1>1, FullResyncRead
  <2> QED BY <2>3, <2>5, <1>2, <1>4
<1>5. CASE /\ m.k = "continue" /\ nid' = nid
           /\ srv' = [srv EXCEPT ![s] = ContinueWith(ClearFailoverState(srv[s]), m.id)]
           /\ conn' = ContinueConns(s, m.id)
  BY <1>1, <1>2, <1>5, ContinueStep
<1>6. CASE AbortFailover(s)
  BY <1>2, <1>6, AbortFailoverStep
<1>7. CASE /\ m.k = "error" /\ r.failover.st # "progress" /\ nid' = nid
           /\ srv' = [srv EXCEPT ![s].state = "connect"] /\ conn' = WithoutLink(conn, s)
  <2> DEFINE q == [r EXCEPT !.state = "connect"]
  <2>1. /\ SameHistory(r, q) /\ q.host = r.host /\ q.primary = r.primary /\ q.cached = r.cached
        /\ q.state = "connect" /\ q.initial = r.initial /\ q.failover = r.failover
        /\ q \in ServerOf(nid, writes)
    BY <1>3 DEF ServerOf, SameHistory
  <2>2. srv' = [srv EXCEPT ![s] = q]
    BY <1>7
  <2> HIDE DEF q
  <2>3. r.host \in Server /\ r.host # None /\ r.primary = None /\ r.initial = None
    BY <1>1, <1>3 DEF Shape, ServerOf
  <2>4. Failover(s, q)
    BY <2>1, <1>3 DEF Failover
  <2>5. q.cached = IF srv[s].host = None THEN Pos(srv[s].id, srv[s].off)
                   ELSE IF srv[s].primary # None THEN srv[s].primary ELSE srv[s].cached
    BY <2>1, <2>3
  <2>6. Sound([srv EXCEPT ![s] = q], WithoutLink(conn, s), disk, nid, writes)
    BY <2>1, <2>3, <2>4, <2>5, SetPrimary
  <2> QED BY <2>2, <2>6, <1>2, <1>7
<1> QED BY <1>4, <1>5, <1>6, <1>7 DEF ReplicaProcessPsyncReply

(* A snapshot or a command is read.                                        *)
LEMMA ReadPromised ==
  ASSUME NEW H, NEW S, NEW C, NEW D, NEW n, NEW w, System(H, S, C, D, n, w),
         NEW s \in Server, S[s].state \in {"transfer", "connected"}, C[s].out # <<>>
  PROVE  /\ C[s] # None /\ C[s] \in Link /\ ~Answered(n, S[s], C[s].out)
         /\ C[s].st \in {"online", "closed"} /\ Promised(H, n, w, S[s], C[s].out)
<1> DEFINE r == S[s]
           c == C[s]
           p == S[c.to]
<1>1. n \in Nat /\ w \in Nat
  BY ServerFacts
<1>2. /\ c # None /\ c \in Link /\ LinkOK(H, n, w, s, c, r, p) /\ p \in ServerOf(n, w)
      /\ HasHistory(H, p)
  BY LinkFacts
<1>3. r.state \in {"transfer", "connected"} /\ c.out # <<>>
  OBVIOUS
<1> HIDE DEF r, c, p
<1>4. ~Answered(n, r, c.out)
  BY <1>3 DEF Answered
<1>5. Promised(H, n, w, r, c.out)
  BY <1>1, <1>2, <1>4, LinkPromises
<1>6. c.st \notin {"psync", "start", "end"}
  BY <1>2, <1>3 DEF LinkOK, Asking, Waiting, Snapshot
<1>7. c.st \in {"online", "closed"}
  BY <1>2, <1>6, LinkFields
<1> QED BY <1>2, <1>4, <1>5, <1>7 DEF r, c

(* q is r when it has loaded the file f.                                   *)
Loaded(r, q, f) ==
    /\ q.data = f.data /\ q.state = "connected" /\ q.host = r.host
    /\ q.primary = r.initial /\ q.initial = None /\ q.cached = None /\ q.child = None
    /\ q.id = r.initial.id /\ q.off = r.initial.off /\ q.backlog = <<>> /\ q.id2 = None
    /\ q.failover = r.failover

LEMMA SnapshotRead ==
  ASSUME NEW H, NEW S, NEW C, NEW D, NEW n, NEW w, System(H, S, C, D, n, w), Primaries(H, S),
         NEW s \in Server, S[s].state = "transfer", C[s].out # <<>>,
         NEW f, f = Head(C[s].out).file,
         NEW q, Loaded(S[s], q, f), f \in FileOf(n, w) => q \in ServerOf(n, w),
         NEW X, FirstTaken(C, X, s)
  PROVE  /\ System(H, [S EXCEPT ![s] = q], DisconnectReplicas(X, s), D, n, w)
         /\ Primaries(H, [S EXCEPT ![s] = q])
         /\ f \in FileOf(n, w) /\ FileOK(H, f)
<1> DEFINE r == S[s]
           z == C[s].out
           y == r.initial
           E == DisconnectReplicas(X, s)
<1>1. /\ n \in Nat /\ w \in Nat /\ ServerOK(H, n, w, s, r) /\ r \in ServerOf(n, w)
      /\ Shape(r) /\ Failover(s, r) /\ HasHistory(H, r)
  BY ServerFacts
<1>2. /\ C[s] # None /\ C[s] \in Link /\ ~Answered(n, r, z)
      /\ C[s].st \in {"online", "closed"} /\ Promised(H, n, w, r, z)
  BY ReadPromised
<1>3. PICK j \in 1 .. n, k \in Nat, g \in Data(w) :
        Delivers(H, n, w, r, z, j, k, g) /\ Claim(H, j, k, g) /\ Public(H, j)
  BY <1>2 DEF Promised
<1>4. ASSUME NEW i \in 1 .. n, NEW o, NEW d, Delivers(H, n, w, r, z, i, o, d)
      PROVE  f \in FileOf(n, w) /\ FileOK(H, f) /\ Delivers(H, n, w, q, Tail(z), i, o, d)
  <2>1. r.state = "transfer" /\ f = Head(z).file
    OBVIOUS
  <2>2. q.state = "connected" /\ q.data = f.data /\ q.id = r.initial.id /\ q.off = r.initial.off
    BY DEF Loaded
  <2> HIDE DEF r, z
  <2>3. /\ Head(z).file \in FileOf(n, w) /\ FileOK(H, Head(z).file)
        /\ \A x : (/\ x.state = "connected" /\ x.data = Head(z).file.data
                   /\ x.id = r.initial.id /\ x.off = r.initial.off)
                    => Delivers(H, n, w, x, Tail(z), i, o, d)
    BY <2>1, <1>1, <1>4, ReadRdb
  <2> QED BY <2>1, <2>2, <2>3
<1>5. f \in FileOf(n, w) /\ FileOK(H, f) /\ Delivers(H, n, w, q, Tail(z), j, k, g)
  BY <1>3, <1>4
<1>6. Reads(H, n, w, r, q, z)
  BY <1>4 DEF Reads
<1>7. q \in ServerOf(n, w) /\ f.data \in Words
  BY <1>1, <1>5, FileFields
<1>8. q.off \in Nat /\ q.data \in Words
  BY <1>7 DEF ServerOf, Loaded
<1>9. q.id = j /\ Claim(H, q.id, q.off, q.data)
  BY <1>1, <1>3, <1>5, <1>8, DeliversNow DEF Loaded
<1>10. y # None /\ y \in PositionOf(n) /\ r.host # None
  BY <1>1 DEF Shape, ServerOf
<1>11. q.primary # None /\ q.primary = Pos(q.id, q.off)
  <2> HIDE DEF r
  <2>1. q.primary = y /\ q.id = y.id /\ q.off = y.off
    BY DEF r, Loaded
  <2>2. y = Pos(y.id, y.off)
    BY <1>10 DEF PositionOf, Pos
  <2> QED BY <2>1, <2>2, <1>10
<1>12. q.backlog # None
  <2>1. <<>> \in Seq(Nat)
    OBVIOUS
  <2> QED BY <2>1, NoneAssumption DEF Loaded
<1>13. Suffix(q)
  <2> DEFINE v == <<>>
             u == q.data
  <2>1. q.backlog = v /\ u = u \o v /\ Len(v) = 0
    BY <1>8, CatEmpty DEF Loaded
  <2> HIDE DEF v, u
  <2>2. u = u \o q.backlog /\ Len(q.backlog) <= q.off
    BY <2>1, <1>8
  <2>3. u \in Words /\ q.data = u
    BY <1>8 DEF u
  <2> QED BY <2>2, <2>3 DEF Suffix
<1>14. HasHistory(H, q)
  BY <1>3, <1>9, <1>11, <1>13 DEF HasHistory, Known, Loaded
<1>15. Shape(q) /\ Failover(s, q)
  BY <1>1, <1>10, <1>11, <1>12 DEF Shape, Failover, Loaded
<1>16. ServerOK(H, n, w, s, q)
  BY <1>7, <1>14, <1>15 DEF ServerOK
<1>17. s \notin Replicas(X, s) /\ SameLinks(C, X, s)
  BY <1>2, TakeFirst
<1>18. Served(H, S, C, n, w, s, q, E) /\ E[s] = X[s]
  BY <1>17, ServedLeft
<1> HIDE DEF E
<1>19. System(H, [S EXCEPT ![s] = q], E, D, n, w) /\ Primaries(H, [S EXCEPT ![s] = q])
  <2>1. q.host = S[s].host /\ q.state = "connected"
    BY DEF Loaded
  <2>2. E[s] = [C[s] EXCEPT !.out = Tail(@)]
    BY <1>18 DEF FirstTaken
  <2> QED BY <2>1, <2>2, <1>2, <1>6, <1>16, <1>18, ReplicaReads
<1> QED BY <1>5, <1>19 DEF E

(* q is the replica r when it has applied the command e.                   *)
Applied(r, q, e) ==
    /\ FedState(r, q, e) /\ q.state = "connected" /\ q.host = r.host
    /\ q.primary = [r.primary EXCEPT !.off = @ + 1] /\ q.initial = r.initial
    /\ q.cached = r.cached /\ q.failover = r.failover

LEMMA CommandReadStep ==
  ASSUME NEW H, NEW S, NEW C, NEW D, NEW n, NEW w, System(H, S, C, D, n, w), Primaries(H, S),
         NEW s \in Server, S[s].state = "connected", C[s].out # <<>>,
         NEW e, e = Head(C[s].out).e,
         NEW q, Applied(S[s], q, e),
         (e \in 1 .. w /\ q.backlog \in Data(w) /\ q.data \in Data(w)) => q \in ServerOf(n, w),
         NEW X, FirstTaken(C, X, s)
  PROVE  Sound([S EXCEPT ![s] = q], FeedReplicas(X, s, e), D, n, w)
<1> DEFINE r == S[s]
           z == C[s].out
           E == FeedReplicas(X, s, e)
<1>1. /\ n \in Nat /\ w \in Nat /\ ServerOK(H, n, w, s, r) /\ r \in ServerOf(n, w)
      /\ Shape(r) /\ Failover(s, r) /\ HasHistory(H, r)
  BY ServerFacts
<1>2. /\ C[s] # None /\ C[s] \in Link /\ ~Answered(n, r, z)
      /\ C[s].st \in {"online", "closed"} /\ Promised(H, n, w, r, z)
  BY ReadPromised
<1>3. PICK j \in 1 .. n, k \in Nat, g \in Data(w) :
        Delivers(H, n, w, r, z, j, k, g) /\ Claim(H, j, k, g) /\ Public(H, j)
  BY <1>2 DEF Promised
<1>4. r.data \in Data(w) /\ r.off \in Nat /\ r.id \in 1 .. n
  BY <1>1 DEF ServerOf
<1>5. r.data \in Words
  BY <1>1, <1>4, WordsOfData
<1>6. r.state = "connected" /\ z # <<>> /\ e = Head(z).e
  OBVIOUS
<1>7. /\ q.id = r.id /\ q.off = r.off + 1 /\ q.data = Append(r.data, e) /\ FedState(r, q, e)
      /\ q.state = "connected" /\ q.child = r.child
  BY DEF FedState, Applied
<1>8. r.primary = Pos(r.id, r.off) /\ r.primary # None /\ r.backlog # None /\ r.host # None
      /\ r.cached = None /\ r.initial = None
  <2>1. r.primary # None /\ r.host # None /\ r.initial = None
    BY <1>1, <1>6 DEF Shape
  <2> QED BY <2>1, <1>1 DEF Shape
<1>9. q.primary = Pos(q.id, q.off)
  BY <1>7, <1>8 DEF Pos, Applied
<1> HIDE DEF r, z
<1>10. e \in 1 .. w
  BY <1>1, <1>3, <1>6, CommandRead
<1>11. ASSUME NEW i, NEW o, NEW d, Delivers(H, n, w, r, z, i, o, d)
       PROVE  Delivers(H, n, w, q, Tail(z), i, o, d)
  <2>1. q.data = Append(r.data, Head(z).e)
    BY <1>6, <1>7
  <2> QED BY <2>1, <1>1, <1>4, <1>5, <1>6, <1>7, <1>11, ReadCommand
<1>12. Reads(H, n, w, r, q, z)
  BY <1>11 DEF Reads
<1>13. q.data \in Words /\ q.off \in Nat /\ q.data \in Data(w)
  <2>1. Append(r.data, e) \in Data(w)
    BY <1>1, <1>4, <1>10, DataAppend
  <2>2. Append(r.data, e) \in Words
    BY <2>1, <1>1, WordsOfData
  <2> QED BY <2>1, <2>2, <1>4, <1>7
<1>14. Claim(H, q.id, q.off, q.data)
  <2>1. Delivers(H, n, w, q, Tail(z), j, k, g)
    BY <1>3, <1>11
  <2>2. q.state = "connected"
    BY DEF Applied
  <2> QED BY <2>1, <2>2, <1>1, <1>3, <1>13, DeliversNow
<1>15. q.primary # None
  <2> DEFINE i == q.id
             o == q.off
  <2>1. i \in 1 .. n /\ o \in Nat
    BY <1>4, <1>7, <1>13
  <2> HIDE DEF i, o
  <2>2. Pos(i, o) # None
    BY <2>1, <1>1, PosOf
  <2> QED BY <2>2, <1>9 DEF i, o
<1>16. Known(q)
  BY <1>15 DEF Known
<1>17. HasHistory(H, q) /\ q.backlog \in Data(w) /\ q.backlog # None
  BY <1>1, <1>7, <1>8, <1>10, <1>14, <1>16, FeedHistory
<1>18. q \in ServerOf(n, w)
  BY <1>10, <1>13, <1>17
<1>19. Shape(q) /\ Failover(s, q)
  BY <1>1, <1>8, <1>9, <1>15, <1>17 DEF Shape, Failover, Applied, r
<1>20. ServerOK(H, n, w, s, q)
  BY <1>17, <1>18, <1>19 DEF ServerOK
<1>21. s \notin Replicas(X, s) /\ SameLinks(C, X, s)
  BY <1>2, TakeFirst
<1>22. OneMore(S[s], q, e)
  BY <1>7, <1>17 DEF OneMore, r
<1>23. Served(H, S, C, n, w, s, q, E) /\ E[s] = X[s]
  BY <1>10, <1>21, <1>22, FeedLinks
<1> HIDE DEF E
<1>24. System(H, [S EXCEPT ![s] = q], E, D, n, w) /\ Primaries(H, [S EXCEPT ![s] = q])
  <2>1. q.host = S[s].host /\ q.state = "connected"
    BY DEF Applied
  <2>2. E[s] = [C[s] EXCEPT !.out = Tail(@)]
    BY <1>23 DEF FirstTaken
  <2> QED BY <2>1, <2>2, <1>2, <1>12, <1>20, <1>23, ReplicaReads DEF r, z
<1> QED BY <1>24 DEF Sound, E

LEMMA ReplicaLoadPrimaryRDBStep ==
  ASSUME NEW H, System(H, srv, conn, disk, nid, writes), Primaries(H, srv), NEW s \in Server,
         ReplicaLoadPrimaryRDB(s)
  PROVE  Sound(srv', conn', disk', nid', writes')
<1> DEFINE r == srv[s]
           f == Head(conn[s].out).file
           q == ReplicaAfterLoadPrimaryRDB(ReplicationAttachToNewPrimary(r), f)
           X == [conn EXCEPT ![s].out = Tail(@)]
           E == DisconnectReplicas(X, s)
           U == [srv EXCEPT ![s] = q]
<1>1. /\ r.state = "transfer" /\ conn[s].out # <<>> /\ srv' = U /\ conn' = E
      /\ disk' = IF mode.diskless THEN disk ELSE [disk EXCEPT ![s] = f]
  BY DEF ReplicaLoadPrimaryRDB
<1>2. nid' = nid /\ writes' = writes
  BY DEF ReplicaLoadPrimaryRDB, bounds
<1>3. nid \in Nat /\ writes \in Nat /\ r \in ServerOf(nid, writes) /\ Shape(r)
  BY ServerFacts
<1>4. r.initial # None /\ r.initial.id \in 1 .. nid /\ r.initial.off \in Nat
      /\ r.initial \in PositionOf(nid)
  BY <1>1, <1>3 DEF Shape, ServerOf, PositionOf
<1> DEFINE i == r.initial.id
           o == r.initial.off
           k == r.initial
           v == <<>>
<1> HIDE DEF f
<1>5. q = [r EXCEPT !.data = f.data, !.state = "connected", !.primary = k, !.initial = None,
                    !.id = i, !.off = o, !.backlog = v, !.id2 = None,
                    !.second = -1, !.cached = None, !.child = None]
  BY ZenonT(60), <1>3 DEF ReplicaAfterLoadPrimaryRDB, ReplicationAttachToNewPrimary, CreateReplicationBacklog,
              ClearReplicationId2, FreeReplicationBacklog, ServerOf
<1>6. Loaded(r, q, f)
  BY <1>3, <1>5 DEF Loaded, ServerOf
<1>7. ASSUME f \in FileOf(nid, writes)
      PROVE  q \in ServerOf(nid, writes)
  <2>1. f.data \in Data(writes) /\ v \in Data(writes)
    BY <1>3, <1>7, FileFields, WordsOfData
  <2>2. i \in 1 .. nid /\ o \in Nat /\ k \in PositionOf(nid)
    BY <1>4
  <2> HIDE DEF i, o, k, v, q
  <2> QED BY <2>1, <2>2, <1>3, <1>5 DEF ServerOf
<1>8. conn[s] # None
  BY <1>1, LinkFacts
<1>9. FirstTaken(conn, X, s)
  BY <1>8, TakeFirst
<1>10. f = Head(conn[s].out).file /\ Loaded(srv[s], q, f) /\ srv[s].state = "transfer"
  BY <1>1, <1>6 DEF f
<1> HIDE DEF q, X, r
<1>11. System(H, U, E, disk, nid, writes) /\ Primaries(H, U)
       /\ f \in FileOf(nid, writes) /\ FileOK(H, f)
  BY <1>1, <1>7, <1>9, <1>10, SnapshotRead
<1> HIDE DEF U, E
<1>12. System(H, U, E, disk', nid, writes)
  BY <1>1, <1>11, FilesStep
<1> QED BY <1>1, <1>2, <1>11, <1>12 DEF Sound

LEMMA ReplicaLoadFailsStep ==
  ASSUME NEW H, System(H, srv, conn, disk, nid, writes), Primaries(H, srv), NEW s \in Server,
         ReplicaLoadFails(s)
  PROVE  Sound(srv', conn', disk', nid', writes')
<1> DEFINE r == srv[s]
           f == Head(conn[s].out).file
           v == <<>>
           q == [ReplicationAttachToNewPrimary(r) EXCEPT
                    !.data = v, !.initial = None, !.state = "connect"]
           U == [srv EXCEPT ![s] = q]
           E == Promoted(conn, s)
<1>1. /\ r.state = "transfer" /\ conn[s].out # <<>> /\ srv' = U /\ conn' = E
      /\ disk' = IF mode.diskless THEN disk ELSE [disk EXCEPT ![s] = f]
  BY DEF ReplicaLoadFails
<1>2. nid' = nid /\ writes' = writes
  BY DEF ReplicaLoadFails
<1>3. /\ nid \in Nat /\ writes \in Nat /\ r \in ServerOf(nid, writes) /\ Shape(r)
      /\ Failover(s, r)
  BY ServerFacts
<1>4. v \in Data(writes)
  BY <1>3, WordsOfData
<1> HIDE DEF v
<1>5. q \in ServerOf(nid, writes)
  BY <1>3, <1>4 DEF ServerOf, ReplicationAttachToNewPrimary, FreeReplicationBacklog
<1>6. /\ q.host = r.host /\ q.state = "connect" /\ q.primary = r.primary /\ q.cached = None
      /\ q.initial = None /\ q.backlog = None /\ q.child = None /\ q.failover = r.failover
  BY <1>3 DEF ServerOf, ReplicationAttachToNewPrimary, FreeReplicationBacklog
<1>7. r.host # None /\ r.primary = None
  BY <1>1, <1>3 DEF Shape
<1> HIDE DEF q
<1>8. Shape(q) /\ Failover(s, q)
  BY <1>3, <1>6, <1>7 DEF Shape, Failover
<1>9. HasHistory(H, q)
  BY <1>6, <1>7 DEF HasHistory, Known
<1>10. ServerOK(H, nid, writes, s, q)
  BY <1>5, <1>8, <1>9 DEF ServerOK
<1>11. q.state \in {"none", "connect"} /\ q.host # None
  BY <1>6, <1>7
<1>12. Relinked(H, srv, conn, nid, writes, s, q, E)
  BY <1>11, RelinkPromoted
<1> HIDE DEF E
<1>13. System(H, U, E, disk, nid, writes) /\ Primaries(H, U)
  BY <1>10, <1>11, <1>12, ReplicaStep
<1>14. f \in FileOf(nid, writes) /\ FileOK(H, f)
  <2> DEFINE z == conn[s].out
  <2>1. Promised(H, nid, writes, r, z)
    BY <1>1, ReadPromised
  <2>2. PICK j \in 1 .. nid, k \in Nat, g \in Data(writes) : Delivers(H, nid, writes, r, z, j, k, g)
    BY <2>1 DEF Promised
  <2> HIDE DEF r, z
  <2>3. /\ Head(z).file \in FileOf(nid, writes) /\ FileOK(H, Head(z).file)
        /\ \A x : (/\ x.state = "connected" /\ x.data = Head(z).file.data
                   /\ x.id = r.initial.id /\ x.off = r.initial.off)
                    => Delivers(H, nid, writes, x, Tail(z), j, k, g)
    BY <2>2, <1>1, <1>3, ReadRdb
  <2> QED BY <2>3 DEF z
<1> HIDE DEF U, f
<1>15. System(H, U, E, disk', nid, writes)
  BY <1>1, <1>13, <1>14, FilesStep
<1> QED BY <1>1, <1>2, <1>13, <1>15 DEF Sound

LEMMA CommandProcessedStep ==
  ASSUME NEW H, System(H, srv, conn, disk, nid, writes), Primaries(H, srv), NEW s \in Server,
         CommandProcessed(s)
  PROVE  Sound(srv', conn', disk', nid', writes')
<1> DEFINE r == srv[s]
           e == Head(conn[s].out).e
           x == [r EXCEPT !.data = Append(@, e), !.primary.off = @ + 1]
           q == FeedReplicationBuffer(x, e)
           X == [conn EXCEPT ![s].out = Tail(@)]
           E == FeedReplicas(X, s, e)
           U == [srv EXCEPT ![s] = q]
<1>1. r.state = "connected" /\ conn[s].out # <<>> /\ srv' = U /\ conn' = E
  <2>1. r.state = "connected" /\ conn[s].out # <<>> /\ conn' = E
    BY DEF CommandProcessed
  <2>2. srv' = U
    BY DEF CommandProcessed
  <2> QED BY <2>1, <2>2
<1>2. disk' = disk /\ nid' = nid /\ writes' = writes
  BY DEF CommandProcessed, bounds
<1>3. nid \in Nat /\ writes \in Nat /\ r \in ServerOf(nid, writes) /\ Shape(r)
  BY ServerFacts
<1>4. r.backlog # None /\ r.primary # None /\ r.primary = Pos(r.id, r.off)
  BY <1>1, <1>3 DEF Shape
<1> HIDE DEF e
<1> DEFINE y == [r.primary EXCEPT !.off = @ + 1]
           d == Append(r.data, e)
           b == Trimmed(Append(r.backlog, e))
<1>5. q = [r EXCEPT !.data = d, !.primary = y, !.off = r.off + 1, !.backlog = b]
  BY <1>3, <1>4 DEF FeedReplicationBuffer, ServerOf
<1>6. /\ q.data = d /\ q.primary = y /\ q.off = r.off + 1 /\ q.backlog = b /\ q.id = r.id
      /\ q.id2 = r.id2 /\ q.second = r.second /\ q.child = r.child /\ q.state = r.state
      /\ q.host = r.host /\ q.initial = r.initial /\ q.cached = r.cached
      /\ q.failover = r.failover
  BY <1>3, <1>5 DEF ServerOf
<1>7. Applied(r, q, e)
  BY <1>1, <1>6 DEF Applied, FedState
<1>8. ASSUME q.backlog \in Data(writes), q.data \in Data(writes)
      PROVE  q \in ServerOf(nid, writes)
  <2>1. b \in Data(writes) /\ d \in Data(writes)
    BY <1>6, <1>8
  <2>2. y \in PositionOf(nid) /\ r.off + 1 \in Nat
    BY <1>3, <1>4 DEF PositionOf, ServerOf, Pos
  <2> HIDE DEF b, d, y, q
  <2> QED BY <2>1, <2>2, <1>3, <1>5 DEF ServerOf
<1>9. conn[s] # None
  BY <1>1, LinkFacts
<1>10. FirstTaken(conn, X, s)
  BY <1>9, TakeFirst
<1>11. e = Head(conn[s].out).e /\ Applied(srv[s], q, e)
  BY <1>7 DEF e
<1> HIDE DEF q, X
<1>12. Sound(U, E, disk, nid, writes)
  BY <1>1, <1>8, <1>10, <1>11, CommandReadStep
<1> QED BY <1>1, <1>2, <1>12

LEMMA LinkFailsStep ==
  ASSUME NEW H, System(H, srv, conn, disk, nid, writes), Primaries(H, srv), NEW s \in Server,
         LinkFails(s)
  PROVE  Sound(srv', conn', disk', nid', writes')
<1> DEFINE r == srv[s]
           c == conn[s]
           p == srv[c.to]
           x == Connection(c.to, "closed", c.out)
           E == FreeClients(conn, {s})
<1>1. /\ c # None /\ conn' = E /\ srv' = srv /\ disk' = disk /\ nid' = nid /\ writes' = writes
  BY DEF LinkFails
<1>2. /\ nid \in Nat /\ writes \in Nat /\ ServerOK(H, nid, writes, s, r) /\ DOMAIN srv = Server
  BY ServerFacts
<1>3. /\ conn = [t \in Server |-> conn[t]] /\ c \in Link /\ c.to \in Server
      /\ r.state \notin {"none", "connect"} /\ LinkOK(H, nid, writes, s, c, r, p)
      /\ p \in ServerOf(nid, writes) /\ HasHistory(H, p)
  BY <1>1, LinkFacts
<1>4. E = [t \in Server |-> E[t]] /\ E[s] = x /\ SameLinks(conn, E, s)
  BY <1>3 DEF FreeClients, SameLinks
<1>5. x.to = c.to
  BY DEF Connection
<1> HIDE DEF r, c, p
<1>6. LinkOK(H, nid, writes, s, x, r, p)
  BY <1>2, <1>3, LinkCloses
<1> HIDE DEF x, E
<1>7. SameStream(r, r)
  BY DEF SameStream
<1>8. Served(H, srv, conn, nid, writes, s, r, E)
  BY <1>4, <1>7, ServedSame DEF r
<1>9. LinkOK(H, nid, writes, s, x, r, srv[x.to])
  BY <1>5, <1>6 DEF p
<1>10. Relinked(H, srv, conn, nid, writes, s, r, E)
  BY <1>3, <1>4, <1>8, <1>9, RelinkServed
<1>11. System(H, [srv EXCEPT ![s] = r], E, disk, nid, writes)
  BY <1>2, <1>10, SystemStep
<1>12. [srv EXCEPT ![s] = r] = srv
  <2>1. srv \in [Server -> ServerOf(nid, writes)]
    BY DEF System, Servers
  <2> QED BY <2>1 DEF r
<1> QED BY <1>1, <1>11, <1>12 DEF Sound

LEMMA DisconnectionStep ==
  ASSUME NEW H, System(H, srv, conn, disk, nid, writes), Primaries(H, srv), NEW s \in Server,
         ReplicationHandlePrimaryDisconnection(s)
  PROVE  Sound(srv', conn', disk', nid', writes')
<1> DEFINE r == srv[s]
<1>1. conn[s] # None /\ disk' = disk /\ writes' = writes
  BY DEF ReplicationHandlePrimaryDisconnection, bounds
<1>2. /\ nid \in Nat /\ writes \in Nat /\ r \in ServerOf(nid, writes) /\ Shape(r)
      /\ Failover(s, r)
  BY ServerFacts
<1>3. CASE AbortFailover(s)
  BY <1>1, <1>3, AbortFailoverStep
<1>4. CASE /\ srv' = [srv EXCEPT ![s] = [ReplicationCachePrimary(@) EXCEPT !.state = "connect"]]
           /\ conn' = WithoutLink(conn, s) /\ nid' = nid
  <2> DEFINE k == IF r.primary # None THEN r.primary ELSE r.cached
             q == [ReplicationCachePrimary(r) EXCEPT !.state = "connect"]
  <2>1. q = [r EXCEPT !.cached = k, !.primary = None, !.initial = None, !.state = "connect"]
    BY <1>2 DEF ReplicationCachePrimary, ServerOf
  <2>2. k \in PositionOf(nid) \cup {None}
    BY <1>2 DEF ServerOf
  <2>3. srv' = [srv EXCEPT ![s] = q]
    BY <1>4
  <2> HIDE DEF q, k
  <2>4. /\ SameHistory(r, q) /\ q.host = r.host /\ q.primary = None /\ q.cached = k
        /\ q.state = "connect" /\ q.initial = None /\ q.failover = r.failover
    BY <2>1, <1>2 DEF ServerOf, SameHistory
  <2>5. q \in ServerOf(nid, writes)
    BY <2>1, <2>2, <1>2 DEF ServerOf
  <2>6. r.host \in Server /\ r.host # None
    <3>1. r.state \notin {"none", "connect"}
      BY <1>1, LinkFacts
    <3> QED BY <3>1, <1>2 DEF Shape, ServerOf
  <2>7. Failover(s, q)
    BY <2>4, <1>2 DEF Failover
  <2>8. q.cached = IF srv[s].host = None THEN Pos(srv[s].id, srv[s].off)
                   ELSE IF srv[s].primary # None THEN srv[s].primary ELSE srv[s].cached
    BY <2>4, <2>6 DEF k
  <2>9. Sound([srv EXCEPT ![s] = q], WithoutLink(conn, s), disk, nid, writes)
    BY <2>4, <2>5, <2>6, <2>7, <2>8, SetPrimary
  <2> QED BY <2>3, <2>9, <1>1, <1>4
<1> QED BY <1>3, <1>4 DEF ReplicationHandlePrimaryDisconnection

-------------------------------------------------------------------------------
(* Commands of clients, timers and restarts.                               *)

LEMMA WriteStep ==
  ASSUME NEW H, System(H, srv, conn, disk, nid, writes), Primaries(H, srv), NEW s \in Server,
         Write(s)
  PROVE  Sound(srv', conn', disk', nid', writes')
<1> DEFINE e == writes + 1
           q == FeedReplicationBuffer([srv[s] EXCEPT !.data = Append(@, e)], e)
           U == [srv EXCEPT ![s] = q]
           E == FeedReplicas(conn, s, e)
<1>1. srv[s].host = None /\ srv' = U /\ conn' = E /\ writes' = writes + 1
  BY DEF Write
<1>2. disk' = disk /\ nid' = nid
  BY DEF Write
<1>3. e = writes + 1 /\ q = FeedReplicationBuffer([srv[s] EXCEPT !.data = Append(@, e)], e)
  OBVIOUS
<1> HIDE DEF q, e
<1>4. Sound(U, E, disk, nid, writes + 1)
  BY <1>1, <1>3, Written
<1> QED BY <1>1, <1>2, <1>4

LEMMA SaveStep ==
  ASSUME NEW H, System(H, srv, conn, disk, nid, writes), Primaries(H, srv), NEW s \in Server,
         Save(s)
  PROVE  Sound(srv', conn', disk', nid', writes')
<1> DEFINE f == RdbFile(srv[s])
<1>1. /\ disk' = [disk EXCEPT ![s] = f] /\ srv' = srv /\ conn' = conn /\ nid' = nid
      /\ writes' = writes
  BY DEF Save
<1>2. f \in FileOf(nid, writes) /\ FileOK(H, f)
  BY ServerFacts, RdbFileOK
<1> HIDE DEF f
<1>3. System(H, srv, conn, [disk EXCEPT ![s] = f], nid, writes)
  BY <1>2, FilesStep
<1> QED BY <1>1, <1>3 DEF Sound

LEMMA RestartStep ==
  ASSUME NEW H, System(H, srv, conn, disk, nid, writes), Primaries(H, srv), Counters,
         NEW s \in Server, Restart(s)
  PROVE  Sound(srv', conn', disk', nid', writes')
<1> DEFINE X == WithoutLink(conn, s)
           E == FreeClients(X, LinkedTo(X, s))
<1>1. /\ conn' = E /\ nid' = nid + 1 /\ disk' = disk /\ writes' = writes
      /\ \E h \in {srv[s].host, mode.hosts[s]} :
            srv' = [srv EXCEPT ![s] = LoadDataFromDisk(disk[s], nid + 1, h)]
  BY DEF Restart
<1>2. PICK h \in {srv[s].host, mode.hosts[s]} :
            srv' = [srv EXCEPT ![s] = LoadDataFromDisk(disk[s], nid + 1, h)]
  BY <1>1
<1>3. h \in Server \cup {None}
  <2>1. srv[s] \in ServerOf(nid, writes)
    BY ServerFacts
  <2>2. srv[s].host \in Server \cup {None}
    BY <2>1 DEF ServerOf
  <2>3. mode \in ModeType
    BY ModesAssumption DEF Counters
  <2>4. mode.hosts \in [Server -> Server \cup {None}]
    BY <2>3 DEF ModeType
  <2> QED BY <2>2, <2>4
<1> DEFINE r == LoadDataFromDisk(disk[s], nid + 1, h)
<1>4. r = LoadDataFromDisk(disk[s], nid + 1, h) /\ X = WithoutLink(conn, s)
  OBVIOUS
<1> HIDE DEF r, X
<1>5. Sound([srv EXCEPT ![s] = r], FreeClients(X, LinkedTo(X, s)), disk, nid + 1, writes)
  BY <1>3, <1>4, Restarted
<1> QED BY <1>1, <1>2, <1>4, <1>5

LEMMA ReplicaOfNoOneStep ==
  ASSUME NEW H, System(H, srv, conn, disk, nid, writes), Primaries(H, srv), NEW s \in Server,
         ReplicaOfNoOne(s)
  PROVE  Sound(srv', conn', disk', nid', writes')
<1> DEFINE q == ReplicationUnsetPrimary(srv[s], nid + 1)
<1>1. /\ srv' = [srv EXCEPT ![s] = q] /\ conn' = Promoted(conn, s) /\ nid' = nid + 1
      /\ disk' = disk /\ writes' = writes /\ srv[s].failover.st # "wait"
  BY DEF ReplicaOfNoOne
<1>2. q = ReplicationUnsetPrimary(srv[s], nid + 1)
  OBVIOUS
<1> HIDE DEF q
<1>3. Sound([srv EXCEPT ![s] = q], Promoted(conn, s), disk, nid + 1, writes)
  BY <1>1, <1>2, Promotion
<1> QED BY <1>1, <1>3

(* A server is given a primary, by REPLICAOF or by its own failover.       *)
LEMMA PrimarySet ==
  ASSUME NEW H, NEW S, NEW C, NEW D, NEW n, NEW w, System(H, S, C, D, n, w), Primaries(H, S),
         NEW p \in Server, NEW h \in Server,
         NEW f \in [st : {"none", "wait", "progress"}, tgt : Server \cup {None},
                    kind : {"none", "any", "to", "force"}],
         f.st # "none" => h # p /\ f.tgt # p, f.st # "wait",
         NEW q, q = [ReplicationSetPrimary(S[p], h) EXCEPT !.failover = f]
  PROVE  Sound([S EXCEPT ![p] = q], WithoutLink(C, p), D, n, w)
<1> DEFINE r == S[p]
           k == IF r.host = None THEN Pos(r.id, r.off)
                ELSE IF r.primary # None THEN r.primary ELSE r.cached
<1>1. n \in Nat /\ w \in Nat /\ r \in ServerOf(n, w) /\ Shape(r)
  BY ServerFacts
<1>2. r.host = None => r.primary = None /\ r.initial = None
  BY <1>1 DEF Shape
<1>3. k \in PositionOf(n) \cup {None}
  <2>1. r.id \in 1 .. n /\ r.off \in Nat /\ r.primary \in PositionOf(n) \cup {None}
        /\ r.cached \in PositionOf(n) \cup {None}
    BY <1>1 DEF ServerOf
  <2>2. Pos(r.id, r.off) \in PositionOf(n)
    BY <2>1, <1>1, PosOf
  <2> QED BY <2>1, <2>2
<1>4. q = [r EXCEPT !.cached = k, !.primary = None, !.initial = None, !.host = h,
                    !.state = "connect", !.failover = f]
  <2>1. CASE r.host = None
    <3>1. r.primary = None /\ r.initial = None
      BY <1>2, <2>1
    <3> QED BY <1>1, <2>1, <3>1
            DEF ReplicationSetPrimary, ReplicationCachePrimaryUsingMyself, ServerOf
  <2>2. CASE r.host # None
    BY <1>1, <2>2 DEF ReplicationSetPrimary, ReplicationCachePrimary, ServerOf
  <2> QED BY <2>1, <2>2
<1>5. k = IF S[p].host = None THEN Pos(S[p].id, S[p].off)
          ELSE IF S[p].primary # None THEN S[p].primary ELSE S[p].cached
  OBVIOUS
<1> HIDE DEF k
<1>6. /\ SameHistory(r, q) /\ q.host = h /\ q.primary = None /\ q.cached = k
      /\ q.state = "connect" /\ q.initial = None /\ q.failover = f
  BY <1>4, <1>1 DEF ServerOf, SameHistory
<1>7. q \in ServerOf(n, w)
  BY ZenonT(60), <1>4, <1>3, <1>1 DEF ServerOf
<1>8. Failover(p, q)
  BY <1>6 DEF Failover
<1>9. /\ SameHistory(S[p], q) /\ q.host \in Server /\ q.state = "connect" /\ q.primary = None
      /\ q.initial = None
      /\ q.cached = IF S[p].host = None THEN Pos(S[p].id, S[p].off)
                    ELSE IF S[p].primary # None THEN S[p].primary ELSE S[p].cached
  BY <1>5, <1>6
<1> QED BY <1>7, <1>8, <1>9, SetPrimary

LEMMA ReplicaOfStep ==
  ASSUME NEW H, System(H, srv, conn, disk, nid, writes), Primaries(H, srv), NEW s \in Server,
         NEW h \in Server, ReplicaOf(s, h)
  PROVE  Sound(srv', conn', disk', nid', writes')
<1> DEFINE r == srv[s]
           f == r.failover
           x == ReplicationSetPrimary(r, h)
           q == [x EXCEPT !.failover = f]
<1>1. /\ srv' = [srv EXCEPT ![s] = x] /\ conn' = WithoutLink(conn, s) /\ nid' = nid
      /\ disk' = disk /\ writes' = writes /\ f.st = "none"
  BY DEF ReplicaOf
<1>2. r \in ServerOf(nid, writes)
  BY ServerFacts
<1>3. f \in [st : {"none", "wait", "progress"}, tgt : Server \cup {None},
             kind : {"none", "any", "to", "force"}]
  BY <1>2 DEF ServerOf
<1>4. x = q
  BY <1>2 DEF ReplicationSetPrimary, ReplicationCachePrimary, ReplicationCachePrimaryUsingMyself,
              ServerOf
<1>5. /\ f.st # "none" => h # s /\ f.tgt # s
      /\ f.st # "wait" /\ q = [ReplicationSetPrimary(srv[s], h) EXCEPT !.failover = f]
  BY <1>1
<1> HIDE DEF q, f, x
<1>6. Sound([srv EXCEPT ![s] = q], WithoutLink(conn, s), disk, nid, writes)
  BY <1>3, <1>5, PrimarySet
<1> QED BY <1>1, <1>4, <1>6

LEMMA FailoverToStep ==
  ASSUME NEW H, System(H, srv, conn, disk, nid, writes), Primaries(H, srv), NEW s \in Server,
         srv[s].failover.st = "wait", NEW t \in Server, t # s, FailoverTo(s, t)
  PROVE  Sound(srv', conn', disk', nid', writes')
<1> DEFINE r == srv[s]
           f == [r.failover EXCEPT !.st = "progress", !.tgt = t]
           x == ReplicationSetPrimary(r, t)
           q == [x EXCEPT !.failover = f]
           y == [x EXCEPT !.failover.st = "progress", !.failover.tgt = t]
<1>1. /\ srv' = [srv EXCEPT ![s] = y] /\ conn' = conn /\ nid' = nid
      /\ disk' = disk /\ writes' = writes
  BY DEF FailoverTo, bounds
<1>2. r \in ServerOf(nid, writes) /\ Shape(r) /\ Failover(s, r)
  BY ServerFacts
<1>3. /\ f \in [st : {"none", "wait", "progress"}, tgt : Server \cup {None},
                kind : {"none", "any", "to", "force"}]
      /\ f.st = "progress" /\ f.tgt = t
  BY <1>2 DEF ServerOf
<1>4. y = q
  <2>1. x = [a \in DOMAIN r |-> x[a]]
        /\ x.failover = r.failover
    BY <1>2 DEF ReplicationSetPrimary, ReplicationCachePrimary,
                ReplicationCachePrimaryUsingMyself, ServerOf
  <2>2. "failover" \in DOMAIN r /\ DOMAIN r.failover = {"st", "tgt", "kind"}
    BY <1>2 DEF ServerOf
  <2> HIDE DEF x
  <2> QED BY <2>1, <2>2
<1>5. conn = WithoutLink(conn, s)
  <2>1. r.state = "none"
    BY <1>2 DEF Shape, Failover
  <2>2. conn[s] = None /\ conn = [u \in Server |-> conn[u]]
    BY <2>1, LinkFacts
  <2> QED BY <2>2 DEF WithoutLink
<1>6. /\ f.st # "none" => t # s /\ f.tgt # s
      /\ f.st # "wait" /\ q = [ReplicationSetPrimary(srv[s], t) EXCEPT !.failover = f]
  BY <1>3
<1> HIDE DEF q, f, y
<1>7. Sound([srv EXCEPT ![s] = q], WithoutLink(conn, s), disk, nid, writes)
  BY <1>3, <1>6, PrimarySet
<1> QED BY <1>1, <1>4, <1>5, <1>7

(* A replica of a server is another server.                                *)
LEMMA ReplicaIsAnother ==
  ASSUME NEW H, NEW S, NEW C, NEW D, NEW n, NEW w, System(H, S, C, D, n, w),
         NEW p \in Server, NEW t \in Replicas(C, p)
  PROVE  t \in Server /\ t # p /\ C[t] # None /\ C[t].to = p /\ S[p].backlog # None
<1>1. t \in Server /\ C[t] # None /\ C[t].to = p /\ C[t].st \in {"start", "end", "online"}
  BY DEF Replicas, LinkedTo
<1>2. LinkOK(H, n, w, t, C[t], S[t], S[C[t].to])
  BY <1>1, LinkFacts
<1>3. Attached(t, C[t], S[C[t].to])
  BY <1>2 DEF LinkOK
<1> QED BY <1>1, <1>3 DEF Attached

LEMMA FailoverCommandStep ==
  ASSUME NEW H, System(H, srv, conn, disk, nid, writes), Primaries(H, srv), NEW s \in Server,
         NEW t \in Server \cup {None}, NEW k \in {"any", "to", "force"}, FailoverCommand(s, k, t)
  PROVE  Sound(srv', conn', disk', nid', writes')
<1> DEFINE f == [st |-> "wait", tgt |-> t, kind |-> k]
           U == [srv EXCEPT ![s] = [@ EXCEPT !.failover = f]]
<1>1. /\ srv' = U /\ conn' = conn /\ nid' = nid
      /\ disk' = disk /\ writes' = writes /\ srv[s].host = None
      /\ IF k = "any" THEN t = None ELSE t \in Replicas(conn, s)
  BY DEF FailoverCommand
<1>2. t # s /\ (k = "force" => t \in Server)
  <2>1. CASE k = "any"
    BY <1>1, <2>1, NoneAssumption
  <2>2. CASE k # "any"
    <3>1. t \in Replicas(conn, s)
      BY <1>1, <2>2
    <3> QED BY <3>1, ReplicaIsAnother
  <2> QED BY <2>1, <2>2
<1>3. /\ f \in [st : {"none", "wait", "progress"}, tgt : Server \cup {None},
                kind : {"none", "any", "to", "force"}]
      /\ f.st = "wait" /\ f.tgt = t /\ f.kind = k
  OBVIOUS
<1>4. /\ f.st # "none" => srv[s].host # s /\ f.tgt # s
      /\ f.st = "wait" => srv[s].host = None
      /\ f.st = "wait" /\ f.kind = "force" => f.tgt \in Server
  BY <1>1, <1>2, <1>3, NoneAssumption
<1> HIDE DEF f
<1>5. System(H, U, conn, disk, nid, writes) /\ Primaries(H, U)
  BY <1>3, <1>4, FailoverStep
<1> QED BY <1>1, <1>5 DEF Sound

LEMMA FailoverAbortStep ==
  ASSUME NEW H, System(H, srv, conn, disk, nid, writes), Primaries(H, srv), NEW s \in Server,
         FailoverAbort(s)
  PROVE  Sound(srv', conn', disk', nid', writes')
<1>1. AbortFailover(s) /\ disk' = disk /\ writes' = writes
  BY DEF FailoverAbort
<1> QED BY <1>1, AbortFailoverStep

LEMMA UpdateFailoverStatusStep ==
  ASSUME NEW H, System(H, srv, conn, disk, nid, writes), Primaries(H, srv), NEW s \in Server,
         UpdateFailoverStatus(s)
  PROVE  Sound(srv', conn', disk', nid', writes')
<1>1. srv[s].failover.st = "wait" /\ \E t \in Replicas(conn, s) : FailoverTo(s, t)
  BY DEF UpdateFailoverStatus
<1>2. PICK t \in Replicas(conn, s) : FailoverTo(s, t)
  BY <1>1
<1>3. t \in Server /\ t # s
  BY ReplicaIsAnother
<1> QED BY <1>1, <1>2, <1>3, FailoverToStep

LEMMA FailoverTimesOutStep ==
  ASSUME NEW H, System(H, srv, conn, disk, nid, writes), Primaries(H, srv), NEW s \in Server,
         FailoverTimesOut(s)
  PROVE  Sound(srv', conn', disk', nid', writes')
<1>1. srv[s].failover.st = "wait"
  BY DEF FailoverTimesOut
<1>2. CASE srv[s].failover.kind = "force" /\ FailoverTo(s, srv[s].failover.tgt)
  <2>1. Failover(s, srv[s])
    BY ServerFacts
  <2>2. srv[s].failover.tgt \in Server /\ srv[s].failover.tgt # s
    BY <2>1, <1>1, <1>2 DEF Failover
  <2> QED BY <1>1, <1>2, <2>2, FailoverToStep
<1>3. CASE AbortFailover(s) /\ UNCHANGED <<mode, disk, bounds>>
  <2>1. disk' = disk /\ writes' = writes
    BY <1>3 DEF bounds
  <2> QED BY <1>3, <2>1, AbortFailoverStep
<1> QED BY <1>2, <1>3 DEF FailoverTimesOut

LEMMA FreeBacklogStep ==
  ASSUME NEW H, System(H, srv, conn, disk, nid, writes), Primaries(H, srv), NEW s \in Server,
         ReplicationCronFreeBacklog(s)
  PROVE  Sound(srv', conn', disk', nid', writes')
<1> DEFINE r == srv[s]
           q == FreeReplicationBacklog(ClearReplicationId2(ChangeReplicationId(r, nid + 1)))
           m == nid + 1
<1>1. /\ srv' = [srv EXCEPT ![s] = q] /\ conn' = conn /\ nid' = m
      /\ disk' = disk /\ writes' = writes /\ r.host = None /\ Replicas(conn, s) = {}
  BY DEF ReplicationCronFreeBacklog
<1>2. /\ nid \in Nat /\ writes \in Nat /\ r \in ServerOf(nid, writes) /\ Shape(r)
      /\ Failover(s, r) /\ HasHistory(H, r) /\ Histories(H, nid, writes)
  BY ServerFacts
<1>3. m \in Nat /\ nid <= m /\ writes <= writes /\ m \in 1 .. m
  BY <1>2
<1>4. Grows(H, nid, writes, H, m, writes)
  BY <1>2, <1>3, SameGrows
<1>5. System(H, srv, conn, disk, m, writes)
  BY <1>4, SystemGrows
<1>6. m \notin DOMAIN H
  BY <1>2 DEF Histories
<1>7. r \in ServerOf(m, writes)
  BY <1>5, ServerFacts
<1>8. q = [r EXCEPT !.id = m, !.id2 = None, !.second = -1, !.backlog = None]
  BY <1>2 DEF FreeReplicationBacklog, ClearReplicationId2, ChangeReplicationId, ServerOf
<1>9. OthersAtTip(H, srv, s) /\ Unshared(srv, s, m)
  BY Others
<1> HIDE DEF q, m
<1>10. /\ q.id = m /\ q.backlog = None /\ q.host = None /\ q.state = r.state
       /\ q.primary = r.primary /\ q.cached = r.cached /\ q.initial = r.initial
       /\ q.child = r.child /\ q.failover = r.failover
  BY <1>1, <1>2, <1>8 DEF ServerOf
<1>11. q \in ServerOf(m, writes)
  BY <1>3, <1>7, <1>8 DEF ServerOf
<1>12. r.state = "none" /\ r.primary = None /\ r.cached = None /\ r.initial = None
  BY <1>1, <1>2 DEF Shape
<1>13. Shape(q) /\ Failover(s, q)
  BY <1>1, <1>2, <1>10, <1>12 DEF Shape, Failover
<1>14. HasHistory(H, q)
  BY <1>2, <1>10, <1>12 DEF HasHistory, Known
<1>15. ServerOK(H, m, writes, s, q)
  BY <1>11, <1>13, <1>14 DEF ServerOK
<1>16. AtTip(H, q)
  BY <1>6, <1>10 DEF AtTip
<1>17. Relinked(H, srv, conn, m, writes, s, q, conn)
  <2>1. conn = [t \in Server |-> conn[t]] /\ conn[s] = None
    BY <1>5, <1>12, LinkFacts
  <2>2. ASSUME NEW t \in Server \ {s}, conn[t] # None, conn[t].to = s
        PROVE  LinkOK(H, m, writes, t, conn[t], srv[t], q)
    <3>1. LinkOK(H, m, writes, t, conn[t], srv[t], srv[conn[t].to]) /\ conn[t] \in Link
      BY <2>2, <1>5, LinkFacts
    <3>2. t \notin Replicas(conn, s)
      BY <1>1
    <3>3. conn[t].st \in {"psync", "closed"}
      BY <2>2, <3>1, <3>2, LinkFields DEF Replicas, LinkedTo
    <3> QED BY <3>1, <3>3, UnservedFrame
  <2>3. q.state = "none"
    BY <1>10, <1>12
  <2> QED BY <2>1, <2>2, <2>3 DEF Relinked
<1>18. Unshared(srv, s, q.id)
  BY <1>9, <1>10
<1>19. /\ System(H, [srv EXCEPT ![s] = q], conn, disk, m, writes)
       /\ Primaries(H, [srv EXCEPT ![s] = q])
  BY <1>4, <1>9, <1>15, <1>16, <1>17, <1>18, Advance
<1> QED BY <1>1, <1>19 DEF Sound

-------------------------------------------------------------------------------
(* The side of the primary.                                                *)

(* What p sends to its replicas changes, and of p no more than what only   *)
(* it knows.                                                               *)
LEMMA PrimaryStep ==
  ASSUME NEW H, NEW S, NEW C, NEW D, NEW n, NEW w, System(H, S, C, D, n, w), Primaries(H, S),
         NEW p \in Server, NEW q, ServerOK(H, n, w, p, q), q.host = S[p].host, q.id = S[p].id,
         q.off = S[p].off, q.data = S[p].data, q.backlog = S[p].backlog,
         NEW E, Relinked(H, S, C, n, w, p, q, E)
  PROVE  /\ System(H, [S EXCEPT ![p] = q], E, D, n, w)
         /\ Primaries(H, [S EXCEPT ![p] = q])
<1>1. System(H, [S EXCEPT ![p] = q], E, D, n, w)
  BY SystemStep
<1>2. DOMAIN S = Server
  BY ServerFacts
<1>3. AtTip(H, q)
  BY DEF AtTip, Primaries
<1>4. q.host # None \/ \A t \in Server \ {p} : S[t].host = None => S[t].id # q.id
  BY DEF Primaries
<1> QED BY <1>1, <1>2, <1>3, <1>4, PrimariesStep

(* Another child, or none.                                                 *)
LEMMA OtherChild ==
  ASSUME NEW H, NEW n, NEW w, NEW s, NEW r, ServerOK(H, n, w, s, r),
         NEW f \in FileOf(n, w) \cup {None}, f # None => FileOK(H, f)
  PROVE  LET q == [r EXCEPT !.child = f] IN
         /\ ServerOK(H, n, w, s, q) /\ q.host = r.host /\ q.id = r.id /\ q.off = r.off
         /\ q.data = r.data /\ q.backlog = r.backlog /\ q.child = f /\ SameReplica(r, q)
<1> DEFINE q == [r EXCEPT !.child = f]
<1>1. r \in ServerOf(n, w) /\ Shape(r) /\ Failover(s, r) /\ HasHistory(H, r)
  BY DEF ServerOK
<1>2. /\ q.child = f /\ q.host = r.host /\ q.id = r.id /\ q.off = r.off /\ q.data = r.data
      /\ q.backlog = r.backlog /\ q.state = r.state /\ q.cached = r.cached
      /\ q.primary = r.primary /\ q.initial = r.initial /\ q.failover = r.failover
      /\ q.id2 = r.id2 /\ q.second = r.second
  BY <1>1 DEF ServerOf
<1>3. q \in ServerOf(n, w)
  BY <1>1 DEF ServerOf
<1> HIDE DEF q
<1>4. Shape(q) /\ Failover(s, q)
  BY <1>1, <1>2 DEF Shape, Failover
<1>5. HasHistory(H, q)
  BY <1>1, <1>2 DEF HasHistory, Known, Suffix, Second
<1>6. SameReplica(r, q)
  BY <1>2 DEF SameReplica
<1>7. ServerOK(H, n, w, s, q)
  BY <1>3, <1>4, <1>5 DEF ServerOK
<1> QED BY <1>2, <1>6, <1>7 DEF q

(* The connections of the replicas of p after a step of p to q.            *)
Resent(H, S, C, n, w, p, q, E) ==
    /\ E = [t \in Server |-> E[t]]
    /\ \A t \in Server \ Replicas(C, p) : E[t] = C[t]
    /\ \A t \in Replicas(C, p) : E[t] # None /\ LinkOK(H, n, w, t, E[t], S[t], q)

LEMMA RelinkResent ==
  ASSUME NEW H, NEW S, NEW C, NEW D, NEW n, NEW w, System(H, S, C, D, n, w),
         NEW p \in Server, NEW q, SameReplica(S[p], q), NEW E, Resent(H, S, C, n, w, p, q, E)
  PROVE  Relinked(H, S, C, n, w, p, q, E)
<1>1. /\ C = [t \in Server |-> C[t]]
      /\ S[p].state \in {"none", "connect"} <=> C[p] = None
  BY LinkFacts
<1>2. p \notin Replicas(C, p)
  BY ReplicaIsAnother
<1>3. E = [t \in Server |-> E[t]] /\ E[p] = C[p]
  BY <1>2 DEF Resent
<1>4. ASSUME NEW t \in Server, C[t] = None \/ C[t].to # p
      PROVE  E[t] = C[t]
  BY <1>4 DEF Resent, Replicas, LinkedTo
<1>5. ASSUME NEW t \in Server, C[t] # None, C[t].to = p
      PROVE  E[t] # None /\ LinkOK(H, n, w, t, E[t], S[t], q)
  <2>1. CASE t \in Replicas(C, p)
    BY <2>1 DEF Resent
  <2>2. CASE t \notin Replicas(C, p)
    <3>1. E[t] = C[t]
      BY <2>2 DEF Resent
    <3>2. LinkOK(H, n, w, t, C[t], S[t], S[C[t].to]) /\ C[t] \in Link
      BY <1>5, LinkFacts
    <3>3. C[t].st \in {"psync", "closed"}
      BY <1>5, <2>2, <3>2, LinkFields DEF Replicas, LinkedTo
    <3> QED BY <1>5, <3>1, <3>2, <3>3, UnservedFrame
  <2> QED BY <2>1, <2>2
<1>6. q.state = S[p].state
  BY DEF SameReplica
<1>7. ASSUME E[p] # None
      PROVE  LinkOK(H, n, w, p, E[p], q, IF E[p].to = p THEN q ELSE S[E[p].to])
  <2>1. CASE C[p].to = p
    <3>1. LinkOK(H, n, w, p, E[p], S[p], q)
      BY <1>3, <1>5, <1>7, <2>1
    <3>2. LinkOK(H, n, w, p, E[p], q, q)
      BY <3>1, ReplicaFrame
    <3> QED BY <1>3, <2>1, <3>2
  <2>2. CASE C[p].to # p
    <3>1. LinkOK(H, n, w, p, C[p], S[p], S[C[p].to])
      BY <1>3, <1>7, LinkFacts
    <3>2. LinkOK(H, n, w, p, C[p], q, S[C[p].to])
      BY <3>1, ReplicaFrame
    <3> QED BY <1>3, <2>2, <3>2
  <2> QED BY <2>1, <2>2
<1>8. q.state \in {"none", "connect"} <=> E[p] = None
  BY <1>1, <1>3, <1>6
<1>9. \A t \in Server \ {p} : C[t] = None \/ C[t].to # p => E[t] = C[t]
  BY <1>4
<1>10. \A t \in Server \ {p} : C[t] # None /\ C[t].to = p =>
            E[t] # None /\ LinkOK(H, n, w, t, E[t], S[t], q)
  BY <1>5
<1> QED BY <1>3, <1>7, <1>8, <1>9, <1>10 DEF Relinked

LEMMA ChildStep ==
  ASSUME NEW H, NEW S, NEW C, NEW D, NEW n, NEW w, System(H, S, C, D, n, w), Primaries(H, S),
         NEW p \in Server, NEW f \in FileOf(n, w) \cup {None}, f # None => FileOK(H, f),
         NEW q, q = [S[p] EXCEPT !.child = f], NEW E, Resent(H, S, C, n, w, p, q, E)
  PROVE  /\ System(H, [S EXCEPT ![p] = q], E, D, n, w)
         /\ Primaries(H, [S EXCEPT ![p] = q])
<1> DEFINE r == S[p]
<1>1. ServerOK(H, n, w, p, r)
  BY ServerFacts
<1> HIDE DEF r
<1>2. LET x == [r EXCEPT !.child = f] IN
         /\ ServerOK(H, n, w, p, x) /\ x.host = r.host /\ x.id = r.id /\ x.off = r.off
         /\ x.data = r.data /\ x.backlog = r.backlog /\ x.child = f /\ SameReplica(r, x)
  BY <1>1, OtherChild
<1>3. /\ ServerOK(H, n, w, p, q) /\ q.host = S[p].host /\ q.id = S[p].id /\ q.off = S[p].off
      /\ q.data = S[p].data /\ q.backlog = S[p].backlog /\ SameReplica(S[p], q)
  BY <1>2 DEF r
<1>4. Relinked(H, S, C, n, w, p, q, E)
  BY <1>3, RelinkResent
<1> QED BY <1>3, <1>4, PrimaryStep

(* A replica of p, and what its connection promises.                       *)
LEMMA ReplicaLink ==
  ASSUME NEW H, NEW S, NEW C, NEW D, NEW n, NEW w, System(H, S, C, D, n, w),
         NEW p \in Server, NEW t \in Replicas(C, p)
  PROVE  /\ t \in Server /\ t # p /\ C[t] \in Link /\ C[t].to = p /\ C[t] # None
         /\ C[t].st \in {"start", "end", "online"}
         /\ LinkOK(H, n, w, t, C[t], S[t], S[p])
<1>1. t \in Server /\ t # p /\ C[t] # None /\ C[t].to = p
  BY ReplicaIsAnother
<1>2. C[t].st \in {"start", "end", "online"}
  BY DEF Replicas
<1>3. C[t] \in Link /\ LinkOK(H, n, w, t, C[t], S[t], S[C[t].to])
  BY <1>1, LinkFacts
<1> QED BY <1>1, <1>2, <1>3

LEMMA Forked ==
  ASSUME NEW H, NEW S, NEW C, NEW D, NEW n, NEW w, System(H, S, C, D, n, w), Primaries(H, S),
         NEW p \in Server, S[p].child = None
  PROVE  Sound([S EXCEPT ![p] = StartBgsave(@)], SetupReplicasForFullResync(C, p, S[p]), D, n, w)
<1> DEFINE r == S[p]
           f == RdbFile(r)
           q == [r EXCEPT !.child = f]
           E == SetupReplicasForFullResync(C, p, r)
<1>1. /\ n \in Nat /\ w \in Nat /\ r \in ServerOf(n, w) /\ HasHistory(H, r)
      /\ ServerOK(H, n, w, p, r) /\ DOMAIN S = Server
  BY ServerFacts
<1>2. f \in FileOf(n, w) /\ FileOK(H, f) /\ f # None
  BY <1>1, RdbFileOK
<1>3. /\ q.id = r.id /\ q.off = r.off /\ q.data = r.data /\ q.backlog = r.backlog
      /\ q.child = RdbFile(r) /\ q.child # None
  BY <1>1, <1>2 DEF ServerOf
<1>4. Resent(H, S, C, n, w, p, q, E)
  <2> HIDE DEF q, f
  <2>1. E = [t \in Server |-> E[t]]
    BY DEF SetupReplicasForFullResync
  <2>2. ASSUME NEW t \in Server \ Replicas(C, p)
        PROVE  E[t] = C[t]
    BY DEF SetupReplicasForFullResync
  <2>3. ASSUME NEW t \in Replicas(C, p)
        PROVE  E[t] # None /\ LinkOK(H, n, w, t, E[t], S[t], q)
    <3> DEFINE c == C[t]
               x == S[t]
    <3>1. /\ t \in Server /\ c \in Link /\ c # None /\ c.st \in {"start", "end", "online"}
          /\ LinkOK(H, n, w, t, c, x, r)
      BY ReplicaLink
    <3>2. CASE c.st = "start"
      <4> DEFINE z == [c EXCEPT !.st = "end", !.initial = r.off,
                                !.out = <<FullResyncMsg(r.id, r.off)>>]
      <4>1. E[t] = z
        BY <3>1, <3>2 DEF SetupReplicasForFullResync
      <4> HIDE DEF r, c, x
      <4>2. LinkOK(H, n, w, t, z, x, q)
        BY <3>1, <3>2, <1>1, <1>3, LinkWaits
      <4>3. z \in Link
        BY <4>2 DEF LinkOK
      <4>4. z # None
        BY <4>3, LinkFields
      <4> HIDE DEF z, E
      <4> QED BY <4>1, <4>2, <4>4 DEF x
    <3>3. CASE c.st # "start"
      <4>1. E[t] = c
        BY <3>1, <3>3 DEF SetupReplicasForFullResync
      <4>2. c.st # "end"
        BY <3>1 DEF LinkOK, Snapshot
      <4> HIDE DEF r, E
      <4>3. LinkOK(H, n, w, t, c, x, q)
        BY <3>1, <4>2, <1>3, SnapshotFrame
      <4> QED BY <3>1, <4>1, <4>3
    <3> QED BY <3>2, <3>3
  <2> HIDE DEF E
  <2> QED BY <2>1, <2>2, <2>3 DEF Resent
<1>5. q = [S[p] EXCEPT !.child = f] /\ (f # None => FileOK(H, f)) /\ f \in FileOf(n, w) \cup {None}
  BY <1>2
<1> HIDE DEF q, f, E
<1>6. System(H, [S EXCEPT ![p] = q], E, D, n, w) /\ Primaries(H, [S EXCEPT ![p] = q])
  BY <1>4, <1>5, ChildStep
<1> QED BY <1>6 DEF Sound, StartBgsave, E, q, f, r

LEMMA StartPendingForkStep ==
  ASSUME NEW H, System(H, srv, conn, disk, nid, writes), Primaries(H, srv), NEW s \in Server,
         ReplicationStartPendingFork(s)
  PROVE  Sound(srv', conn', disk', nid', writes')
<1> DEFINE U == [srv EXCEPT ![s] = StartBgsave(@)]
           E == SetupReplicasForFullResync(conn, s, srv[s])
<1>1. /\ srv[s].child = None /\ srv' = U /\ conn' = E /\ disk' = disk /\ nid' = nid
      /\ writes' = writes
  BY DEF ReplicationStartPendingFork, bounds
<1>2. Sound(U, E, disk, nid, writes)
  BY <1>1, Forked
<1> QED BY <1>1, <1>2

(* The child is gone: the same server without it.                          *)
LEMMA NoChild ==
  ASSUME NEW H, NEW S, NEW C, NEW D, NEW n, NEW w, System(H, S, C, D, n, w), NEW p \in Server
  PROVE  LET q == [S[p] EXCEPT !.child = None] IN
         q.id = S[p].id /\ q.off = S[p].off /\ q.data = S[p].data /\ q.backlog = S[p].backlog
<1>1. S[p] \in ServerOf(n, w)
  BY ServerFacts
<1> QED BY <1>1 DEF ServerOf

LEMMA BgsaveDoneStep ==
  ASSUME NEW H, System(H, srv, conn, disk, nid, writes), Primaries(H, srv), NEW s \in Server,
         BgsaveDone(s)
  PROVE  Sound(srv', conn', disk', nid', writes')
<1> DEFINE p == srv[s]
           q == [p EXCEPT !.child = None]
           E == [t \in Server |->
                    IF t \notin Registering(conn, s) THEN conn[t]
                    ELSE Connection(s, "online", conn[t].out \o <<RdbMsg(p.child)>>
                                                             \o Commands(conn[t].pend))]
           U == [srv EXCEPT ![s] = q]
<1>1. /\ p.child # None /\ srv' = U /\ conn' = E /\ nid' = nid /\ writes' = writes
      /\ disk' = IF mode.diskless THEN disk ELSE [disk EXCEPT ![s] = p.child]
  BY DEF BgsaveDone, bounds
<1>2. /\ nid \in Nat /\ writes \in Nat /\ p \in ServerOf(nid, writes) /\ HasHistory(H, p)
  BY ServerFacts
<1>3. p.child \in FileOf(nid, writes) /\ FileOK(H, p.child)
  BY <1>1, <1>2 DEF ServerOf, HasHistory
<1>4. q.id = p.id /\ q.off = p.off /\ q.data = p.data /\ q.backlog = p.backlog
  BY NoChild
<1>5. Resent(H, srv, conn, nid, writes, s, q, E)
  <2> HIDE DEF q
  <2>1. E = [t \in Server |-> E[t]]
    OBVIOUS
  <2>2. ASSUME NEW t \in Server \ Replicas(conn, s)
        PROVE  E[t] = conn[t]
    BY DEF Registering
  <2>3. ASSUME NEW t \in Replicas(conn, s)
        PROVE  E[t] # None /\ LinkOK(H, nid, writes, t, E[t], srv[t], q)
    <3> DEFINE c == conn[t]
               x == srv[t]
    <3>1. /\ t \in Server /\ c \in Link /\ c # None /\ c.to = s
          /\ LinkOK(H, nid, writes, t, c, x, p)
      BY ReplicaLink
    <3>2. CASE c.st = "end"
      <4> DEFINE z == Connection(c.to, "online", c.out \o <<RdbMsg(p.child)>> \o Commands(c.pend))
      <4>1. E[t] = z
        BY <3>1, <3>2 DEF Registering
      <4> HIDE DEF p, c, x
      <4>2. LinkOK(H, nid, writes, t, z, x, q)
        BY <3>1, <3>2, <1>2, <1>4, LinkOnline
      <4>3. z \in Link
        BY <4>2 DEF LinkOK
      <4>4. z # None
        BY <4>3, LinkFields
      <4> HIDE DEF z, E
      <4> QED BY <4>1, <4>2, <4>4 DEF x
    <3>3. CASE c.st # "end"
      <4>1. E[t] = c
        BY <3>1, <3>3 DEF Registering
      <4> HIDE DEF p, E
      <4>2. LinkOK(H, nid, writes, t, c, x, q)
        BY <3>1, <3>3, <1>4, SnapshotFrame
      <4> QED BY <3>1, <4>1, <4>2
    <3> QED BY <3>2, <3>3
  <2> HIDE DEF E
  <2> QED BY <2>1, <2>2, <2>3 DEF Resent
<1> DEFINE f == None
<1>6. q = [srv[s] EXCEPT !.child = f] /\ (f # None => FileOK(H, f))
      /\ f \in FileOf(nid, writes) \cup {None}
  OBVIOUS
<1> HIDE DEF q, f, E
<1>7. System(H, U, E, disk, nid, writes) /\ Primaries(H, U)
  BY <1>5, <1>6, ChildStep
<1> HIDE DEF U, p
<1>8. System(H, U, E, disk', nid, writes)
  BY <1>1, <1>3, <1>7, FilesStep
<1> QED BY <1>1, <1>7, <1>8 DEF Sound

LEMMA BgsaveFailsStep ==
  ASSUME NEW H, System(H, srv, conn, disk, nid, writes), Primaries(H, srv), NEW s \in Server,
         BgsaveFails(s)
  PROVE  Sound(srv', conn', disk', nid', writes')
<1> DEFINE p == srv[s]
           q == [p EXCEPT !.child = None]
           E == FreeClients(conn, Registering(conn, s))
           U == [srv EXCEPT ![s] = q]
<1>1. /\ srv' = U /\ conn' = E /\ disk' = disk /\ nid' = nid /\ writes' = writes
  BY DEF BgsaveFails
<1>2. /\ nid \in Nat /\ writes \in Nat /\ p \in ServerOf(nid, writes) /\ HasHistory(H, p)
  BY ServerFacts
<1>3. q.id = p.id /\ q.off = p.off /\ q.data = p.data /\ q.backlog = p.backlog
  BY NoChild
<1>4. Resent(H, srv, conn, nid, writes, s, q, E)
  <2> HIDE DEF q
  <2>1. E = [t \in Server |-> E[t]]
    BY DEF FreeClients
  <2>2. ASSUME NEW t \in Server \ Replicas(conn, s)
        PROVE  E[t] = conn[t]
    BY DEF FreeClients, Registering
  <2>3. ASSUME NEW t \in Replicas(conn, s)
        PROVE  E[t] # None /\ LinkOK(H, nid, writes, t, E[t], srv[t], q)
    <3> DEFINE c == conn[t]
               x == srv[t]
    <3>1. /\ t \in Server /\ c \in Link /\ c # None /\ c.to = s
          /\ LinkOK(H, nid, writes, t, c, x, p)
      BY ReplicaLink
    <3>2. CASE c.st = "end"
      <4> DEFINE z == Connection(c.to, "closed", c.out)
      <4>1. E[t] = z
        BY <3>1, <3>2 DEF Registering, FreeClients
      <4> HIDE DEF p, c, x
      <4>2. LinkOK(H, nid, writes, t, z, x, q)
        BY <3>1, <1>2, LinkCloses
      <4>3. z # None
        BY <3>1, ClosedExists
      <4> HIDE DEF z, E
      <4> QED BY <4>1, <4>2, <4>3 DEF x
    <3>3. CASE c.st # "end"
      <4>1. E[t] = c
        BY <3>1, <3>3 DEF Registering, FreeClients
      <4> HIDE DEF p, E
      <4>2. LinkOK(H, nid, writes, t, c, x, q)
        BY <3>1, <3>3, <1>3, SnapshotFrame
      <4> QED BY <3>1, <4>1, <4>2
    <3> QED BY <3>2, <3>3
  <2> HIDE DEF E
  <2> QED BY <2>1, <2>2, <2>3 DEF Resent
<1> DEFINE f == None
<1>5. q = [srv[s] EXCEPT !.child = f] /\ (f # None => FileOK(H, f))
      /\ f \in FileOf(nid, writes) \cup {None}
  OBVIOUS
<1> HIDE DEF q, f, E
<1>6. System(H, U, E, disk, nid, writes) /\ Primaries(H, U)
  BY <1>4, <1>5, ChildStep
<1> QED BY <1>1, <1>6 DEF Sound

(* Another connection of s to the same server.                             *)
LEMMA LinkStep ==
  ASSUME NEW H, NEW S, NEW C, NEW D, NEW n, NEW w, System(H, S, C, D, n, w), Primaries(H, S),
         NEW s \in Server, C[s] # None, NEW x, LinkOK(H, n, w, s, x, S[s], S[x.to])
  PROVE  /\ System(H, S, [C EXCEPT ![s] = x], D, n, w)
         /\ Sound(S, [C EXCEPT ![s] = x], D, n, w)
<1> DEFINE E == [C EXCEPT ![s] = x]
<1>1. x \in Link
  BY DEF LinkOK
<1>2. x # None
  BY <1>1, LinkFields
<1>3. C \in [Server -> Link \cup {None}] /\ \A t \in Server : LinkAt(H, S, C, n, w, t)
  BY DEF System, Links
<1>4. E \in [Server -> Link \cup {None}]
  BY <1>1, <1>3
<1>5. ASSUME NEW t \in Server
      PROVE  LinkAt(H, S, E, n, w, t)
  <2>1. CASE t = s
    <3>1. E[t] = x
      BY <1>3, <2>1
    <3>2. LinkAt(H, S, C, n, w, s)
      BY <1>3
    <3> HIDE DEF E
    <3> QED BY <3>1, <3>2, <1>2, <2>1 DEF LinkAt
  <2>2. CASE t # s
    <3>1. E[t] = C[t] /\ LinkAt(H, S, C, n, w, t)
      BY <1>3, <2>2
    <3> HIDE DEF E
    <3> QED BY <3>1 DEF LinkAt
  <2> QED BY <2>1, <2>2
<1> HIDE DEF E
<1>6. System(H, S, E, D, n, w)
  BY <1>4, <1>5 DEF System, Links
<1> QED BY <1>6 DEF Sound, E

(* A request is refused, or put off until a BGSAVE starts.                 *)
LEMMA RefusedLink ==
  ASSUME NEW H, NEW S, NEW C, NEW D, NEW n, NEW w, System(H, S, C, D, n, w), Primaries(H, S),
         NEW s \in Server, NEW p \in Server, C[s] # None, C[s].to = p, C[s].st = "psync"
  PROVE  /\ Sound(S, [C EXCEPT ![s] = Connection(p, "closed", <<ErrorMsg>>)], D, n, w)
         /\ S[p].backlog # None /\ p # s =>
                System(H, S, [C EXCEPT ![s] = Connection(p, "start", <<>>)], D, n, w)
<1> DEFINE r == S[s]
           x == Connection(p, "closed", <<ErrorMsg>>)
           y == Connection(p, "start", <<>>)
<1>1. n \in Nat /\ w \in Nat /\ r \in ServerOf(n, w)
  BY ServerFacts
<1>2. r.host = p /\ LinkOK(H, n, w, s, C[s], r, S[p])
  BY LinkFacts
<1>3. r.state = "psync"
  BY <1>2 DEF LinkOK, Asking
<1>4. x.to = p /\ y.to = p
  BY DEF Connection
<1>5. /\ LinkOK(H, n, w, s, Connection(r.host, "closed", <<ErrorMsg>>), r, S[p])
      /\ S[p].backlog # None /\ r.host # s =>
            LinkOK(H, n, w, s, Connection(r.host, "start", <<>>), r, S[p])
  <2> HIDE DEF r
  <2> QED BY <1>1, <1>2, <1>3, NewLink
<1>6. LinkOK(H, n, w, s, x, r, S[x.to])
  BY <1>2, <1>4, <1>5
<1>7. S[p].backlog # None /\ p # s => LinkOK(H, n, w, s, y, r, S[y.to])
  BY <1>2, <1>4, <1>5
<1> HIDE DEF x, y
<1>8. Sound(S, [C EXCEPT ![s] = x], D, n, w)
  BY <1>6, LinkStep
<1>9. S[p].backlog # None /\ p # s => System(H, S, [C EXCEPT ![s] = y], D, n, w)
  BY <1>7, LinkStep
<1> QED BY <1>8, <1>9 DEF x, y

(* A request is answered from the backlog.                                 *)
LEMMA PartialResync ==
  ASSUME NEW H, NEW S, NEW C, NEW D, NEW n, NEW w, System(H, S, C, D, n, w), Primaries(H, S),
         NEW s \in Server, NEW p \in Server, p # s, C[s] # None, C[s].to = p, C[s].st = "psync",
         PrimaryTryPartialResynchronization(S[p], C[s].req)
  PROVE  Sound(S, [C EXCEPT ![s] = Connection(p, "online",
                        <<ContinueMsg(S[p].id)>>
                            \o AddReplyReplicationBacklog(S[p], C[s].req.off))], D, n, w)
<1> DEFINE r == S[s]
           v == S[p]
           q == C[s].req
           out == AddReplyReplicationBacklog(v, q.off)
           x == Connection(p, "online", <<ContinueMsg(v.id)>> \o out)
<1>1. /\ n \in Nat /\ w \in Nat /\ r \in ServerOf(n, w) /\ Shape(r) /\ HasHistory(H, r)
      /\ v \in ServerOf(n, w) /\ HasHistory(H, v) /\ Histories(H, n, w)
  BY ServerFacts
<1>2. r.host = p /\ LinkOK(H, n, w, s, C[s], r, S[p])
  BY LinkFacts
<1>3. r.state = "psync" /\ Requests(q, r)
  BY <1>2 DEF LinkOK, Asking
<1>4. PrimaryTryPartialResynchronization(v, q)
  OBVIOUS
<1> HIDE DEF q, v
<1>5. r.cached # None
  <2>1. q.off # -1
    BY <1>1, <1>4, NothingToResume
  <2> QED BY <2>1, <1>3 DEF Requests
<1>6. /\ q \in Request /\ q.id = r.id /\ q.off = r.off + 1 /\ r.id \in Nat /\ r.off \in Nat
      /\ r.data \in Words
  <2>1. r.cached = Pos(r.id, r.off) /\ r.id \in 1 .. n /\ r.off \in Nat /\ r.data \in Data(w)
    BY <1>1, <1>5 DEF Shape, ServerOf
  <2>2. r.cached.id = r.id /\ r.cached.off = r.off
    BY <2>1 DEF Pos
  <2>3. q \in Request /\ q.id = r.cached.id /\ q.off = r.cached.off + 1
    BY <1>3, <1>5 DEF Requests
  <2>4. r.data \in Words
    BY <1>1, <2>1, WordsOfData
  <2>5. r.id \in Nat
    BY <1>1, <2>1
  <2> QED BY <2>1, <2>2, <2>3, <2>4, <2>5
<1>7. Claim(H, q.id, q.off - 1, r.data)
  <2>1. Claim(H, r.id, r.off, r.data)
    BY <1>1, <1>5 DEF HasHistory, Known
  <2> QED BY <2>1, <1>6
<1> HIDE DEF r
<1>8. Resumes(w, v, r.data, q.off - 1, out)
  BY <1>1, <1>4, <1>6, <1>7, Resume
<1>9. Resumes(w, v, r.data, r.off, out)
  BY <1>6, <1>8
<1>10. v.backlog # None /\ r.host \in Server /\ r.host # s
  BY <1>2, <1>4 DEF PrimaryTryPartialResynchronization
<1> HIDE DEF out
<1>11. LinkOK(H, n, w, s, Connection(r.host, "online", <<ContinueMsg(v.id)>> \o out), r, v)
  BY <1>1, <1>3, <1>5, <1>9, <1>10, ResumedLink
<1>12. x.to = p
  BY DEF Connection
<1>13. LinkOK(H, n, w, s, x, S[s], S[x.to])
  BY <1>2, <1>11, <1>12 DEF v, r
<1> HIDE DEF x
<1>14. Sound(S, [C EXCEPT ![s] = x], D, n, w)
  BY <1>13, LinkStep
<1> QED BY <1>14 DEF x, out, v, q

(* A replica shares the snapshot that another one waits for.               *)
LEMMA SharedResync ==
  ASSUME NEW H, NEW S, NEW C, NEW D, NEW n, NEW w, System(H, S, C, D, n, w), Primaries(H, S),
         NEW s \in Server, NEW p \in Server, p # s, C[s] # None, C[s].to = p, C[s].st = "psync",
         NEW t \in Registering(C, p)
  PROVE  Sound(S, [C EXCEPT ![s] = [C[t] EXCEPT !.out =
                        <<FullResyncMsg(S[p].id, C[t].initial)>>]], D, n, w)
<1> DEFINE r == S[s]
           v == S[p]
           c == C[t]
           y == S[t]
           x == [c EXCEPT !.out = <<FullResyncMsg(v.id, c.initial)>>]
<1>1. t \in Replicas(C, p) /\ c.st = "end"
  BY DEF Registering
<1>2. n \in Nat /\ w \in Nat /\ v \in ServerOf(n, w)
  BY ServerFacts
<1>3. c \in Link /\ c.to = p /\ LinkOK(H, n, w, t, c, y, v)
  BY <1>1, ReplicaLink
<1>4. r.host = p /\ LinkOK(H, n, w, s, C[s], r, v)
  BY LinkFacts
<1>5. r.state = "psync"
  BY <1>4 DEF LinkOK, Asking
<1>6. x.to = p
  BY <1>3 DEF Link
<1> HIDE DEF r, v, c, y
<1>7. LinkOK(H, n, w, s, x, r, v)
  BY <1>1, <1>2, <1>3, <1>4, <1>5, SharedLink
<1> HIDE DEF x
<1>8. LinkOK(H, n, w, s, x, S[s], S[x.to])
  BY <1>6, <1>7 DEF r, v
<1>9. Sound(S, [C EXCEPT ![s] = x], D, n, w)
  BY <1>8, LinkStep
<1> QED BY <1>9 DEF x, c, v

(* The first replica of a server without a backlog: a new history begins.  *)
LEMMA HistoryBegins ==
  ASSUME NEW H, NEW S, NEW C, NEW D, NEW n, NEW w, System(H, S, C, D, n, w), Primaries(H, S),
         NEW p \in Server, S[p].host = None, S[p].backlog = None,
         NEW q, q = WithBacklog(S[p], n + 1)
  PROVE  Sound([S EXCEPT ![p] = q], C, D, n + 1, w)
<1> DEFINE r == S[p]
           m == n + 1
           v == <<>>
<1>1. /\ n \in Nat /\ w \in Nat /\ r \in ServerOf(n, w) /\ Shape(r)
      /\ Failover(p, r) /\ HasHistory(H, r) /\ Histories(H, n, w)
  BY ServerFacts
<1>2. m \in Nat /\ n <= m /\ m \in 1 .. m
  BY <1>1
<1>3. m \notin DOMAIN H
  BY <1>1 DEF Histories
<1>4. OthersAtTip(H, S, p) /\ Unshared(S, p, m)
  BY Others
<1>5. r.data \in Data(w) /\ r.off \in Nat
  BY <1>1 DEF ServerOf
<1>6. v \in Data(w) /\ v \in Words /\ Len(v) = 0 /\ r.data \in Words /\ v # None
  BY <1>1, <1>5, WordsOfData, NoneAssumption DEF Words
<1>7. r.data = r.data \o v
  BY <1>6, CatEmpty
<1>8. q = [r EXCEPT !.id = m, !.id2 = None, !.second = -1, !.backlog = v]
  BY <1>1 DEF WithBacklog, CreateReplicationBacklog, ClearReplicationId2, ChangeReplicationId,
              ServerOf
<1> HIDE DEF m, v
<1>9. PICK G : /\ Grows(H, n, w, G, m, w) /\ OthersAtTip(G, S, p)
               /\ Claim(G, m, r.off, r.data) /\ Public(G, m)
               /\ \A x : (/\ x.id = m /\ x.off = r.off /\ x.data = r.data /\ x.backlog # None)
                            => AtTip(G, x)
  BY <1>1, <1>2, <1>3, <1>4, <1>5, NewHistory
<1>10. System(G, S, C, D, m, w)
  BY <1>9, SystemGrows
<1>11. r \in ServerOf(m, w) /\ HasHistory(G, r)
  BY <1>10, ServerFacts
<1>12. /\ q.id = m /\ q.backlog = v /\ q.host = None /\ q.state = r.state /\ q.id2 = None
       /\ q.off = r.off /\ q.data = r.data /\ q.primary = r.primary /\ q.cached = r.cached
       /\ q.initial = r.initial /\ q.child = r.child /\ q.failover = r.failover
  BY <1>1, <1>8 DEF ServerOf
<1>13. q \in ServerOf(m, w)
  BY ZenonT(60), <1>2, <1>6, <1>8, <1>11 DEF ServerOf
<1>14. r.state = "none" /\ r.primary = None /\ r.cached = None /\ r.initial = None
  BY <1>1 DEF Shape
<1>15. Shape(q) /\ Failover(p, q)
  BY <1>1, <1>12, <1>14 DEF Shape, Failover
<1>16. HasHistory(G, q)
  <2>1. Known(q)
    BY <1>6, <1>12 DEF Known
  <2>2. Suffix(q)
    BY <1>5, <1>6, <1>7, <1>12 DEF Suffix
  <2>3. Claim(G, q.id, q.off, q.data) /\ Public(G, q.id)
    BY <1>9, <1>12
  <2>4. q.child # None => FileOK(G, q.child)
    BY <1>11, <1>12 DEF HasHistory
  <2> QED BY <2>1, <2>2, <2>3, <2>4, <1>6, <1>12 DEF HasHistory
<1>17. ServerOK(G, m, w, p, q)
  BY <1>13, <1>15, <1>16 DEF ServerOK
<1>18. AtTip(G, q)
  BY <1>6, <1>9, <1>12
<1>19. Relinked(G, S, C, m, w, p, q, C)
  <2>1. C = [t \in Server |-> C[t]] /\ C[p] = None
    BY <1>10, <1>14, LinkFacts
  <2>2. ASSUME NEW t \in Server \ {p}, C[t] # None, C[t].to = p
        PROVE  LinkOK(G, m, w, t, C[t], S[t], q)
    <3>1. LinkOK(G, m, w, t, C[t], S[t], S[C[t].to]) /\ C[t] \in Link
      BY <2>2, <1>10, LinkFacts
    <3>2. t \notin Replicas(C, p)
      BY ReplicaIsAnother
    <3>3. C[t].st \in {"psync", "closed"}
      BY <2>2, <3>1, <3>2, LinkFields DEF Replicas, LinkedTo
    <3> QED BY <3>1, <3>3, UnservedFrame
  <2>3. q.state = "none"
    BY <1>12, <1>14
  <2> QED BY <2>1, <2>2, <2>3 DEF Relinked
<1>20. Unshared(S, p, q.id)
  BY <1>4, <1>12
<1>21. /\ System(G, [S EXCEPT ![p] = q], C, D, m, w) /\ Primaries(G, [S EXCEPT ![p] = q])
  BY <1>9, <1>17, <1>18, <1>19, <1>20, Advance
<1> QED BY <1>21 DEF Sound, m

LEMMA BacklogMade ==
  ASSUME NEW H, NEW S, NEW C, NEW D, NEW n, NEW w, System(H, S, C, D, n, w), Primaries(H, S),
         NEW p \in Server, S[p].host = None \/ S[p].state = "connected",
         NEW q, q = WithBacklog(S[p], n + 1),
         NEW m, m = IF S[p].backlog = None THEN n + 1 ELSE n
  PROVE  Sound([S EXCEPT ![p] = q], C, D, m, w) /\ q.backlog # None /\ q.child = S[p].child
<1>1. S[p] \in ServerOf(n, w) /\ Shape(S[p])
  BY ServerFacts
<1>2. CASE S[p].backlog = None
  <2>1. S[p].host = None
    BY <1>1, <1>2 DEF Shape
  <2>2. Sound([S EXCEPT ![p] = q], C, D, n + 1, w)
    BY <1>2, <2>1, HistoryBegins
  <2> DEFINE v == <<>>
  <2>3. v \in Seq(Nat)
    OBVIOUS
  <2>4. v # None
    BY <2>3, NoneAssumption
  <2>5. q.backlog = v /\ q.child = S[p].child
    BY <1>1, <1>2 DEF WithBacklog, CreateReplicationBacklog, ClearReplicationId2,
                      ChangeReplicationId, ServerOf
  <2> QED BY <1>2, <2>2, <2>4, <2>5
<1>3. CASE S[p].backlog # None
  <2>1. q = S[p]
    BY <1>3 DEF WithBacklog
  <2>2. S \in [Server -> ServerOf(n, w)]
    BY DEF System, Servers
  <2>3. [S EXCEPT ![p] = q] = S
    BY <2>1, <2>2
  <2> QED BY <1>3, <2>1, <2>3 DEF Sound
<1> QED BY <1>2, <1>3

(* p answers the request of s in state r, maybe after its own promotion.   *)
Arrived(S, C, p, s, r) ==
    /\ C[s] # None /\ C[s].to = p /\ C[s].st = "psync" /\ C[s].req = conn[s].req
    /\ r = S[p] /\ S = [srv EXCEPT ![p] = r]

LEMMA AnswerSyncStep ==
  ASSUME NEW H, NEW S, NEW C, NEW k, System(H, S, C, disk, k, writes), Primaries(H, S),
         NEW p \in Server, NEW s \in Server, NEW r, Arrived(S, C, p, s, r),
         AnswerSync(p, s, r, C, k), disk' = disk, writes' = writes
  PROVE  Sound(srv', conn', disk', nid', writes')
<1> DEFINE q == conn[s].req
           refuse == r.failover.st # "none" \/ (r.host # None /\ r.state # "connected")
           partial == PrimaryTryPartialResynchronization(r, q)
           w == WithBacklog(r, k + 1)
           waiting == [C EXCEPT ![s] = Connection(p, "start", <<>>)]
           T == [S EXCEPT ![p] = w]
           m == IF r.backlog = None THEN k + 1 ELSE k
<1>1. DOMAIN S = Server
  BY ServerFacts
<1>2. [srv EXCEPT ![p] = r] = S /\ [srv EXCEPT ![p] = w] = T /\ T[p] = w
  BY <1>1 DEF Arrived
<1>3. /\ C[s] # None /\ C[s].to = p /\ C[s].st = "psync" /\ C[s].req = conn[s].req
      /\ r = S[p] /\ DOMAIN srv = Server
  BY <1>1 DEF Arrived
<1>4. ASSUME ~refuse
      PROVE  p # s /\ (r.host = None \/ r.state = "connected")
  <2>1. S[s].host = p /\ LinkOK(H, k, writes, s, C[s], S[s], S[p])
    BY <1>3, LinkFacts
  <2>2. S[s].state = "psync"
    BY <1>3, <2>1 DEF LinkOK, Asking
  <2>3. p # None
    BY NoneAssumption
  <2> QED BY <1>4, <1>3, <2>1, <2>2, <2>3
<1>5. CASE /\ refuse /\ srv' = [srv EXCEPT ![p] = r] /\ nid' = k
           /\ conn' = [C EXCEPT ![s] = Connection(p, "closed", <<ErrorMsg>>)]
  <2>1. Sound(S, [C EXCEPT ![s] = Connection(p, "closed", <<ErrorMsg>>)], disk, k, writes)
    BY <1>3, RefusedLink
  <2> QED BY <2>1, <1>2, <1>5
<1>6. CASE /\ ~refuse /\ partial /\ srv' = [srv EXCEPT ![p] = r] /\ nid' = k
           /\ conn' = [C EXCEPT ![s] = Connection(p, "online",
                        <<ContinueMsg(r.id)>> \o AddReplyReplicationBacklog(r, q.off))]
  <2>1. p # s /\ PrimaryTryPartialResynchronization(S[p], C[s].req)
    BY <1>4, <1>6, <1>3
  <2>2. Sound(S, [C EXCEPT ![s] = Connection(p, "online",
                    <<ContinueMsg(S[p].id)>> \o AddReplyReplicationBacklog(S[p], C[s].req.off))],
              disk, k, writes)
    BY <1>3, <2>1, PartialResync
  <2> QED BY <2>2, <1>2, <1>6, <1>3
<1>7. CASE /\ ~refuse /\ ~partial /\ nid' = m
           /\ \/ /\ w.child # None /\ ~mode.diskless
                 /\ \E t \in Registering(C, p) :
                     conn' = [C EXCEPT ![s] =
                        [C[t] EXCEPT !.out = <<FullResyncMsg(w.id, C[t].initial)>>]]
                 /\ srv' = [srv EXCEPT ![p] = w]
              \/ srv' = [srv EXCEPT ![p] = w] /\ conn' = waiting
              \/ /\ w.child = None /\ srv' = [srv EXCEPT ![p] = StartBgsave(w)]
                 /\ conn' = SetupReplicasForFullResync(waiting, p, w)
  <2>1. p # s /\ (S[p].host = None \/ S[p].state = "connected")
    BY <1>4, <1>7, <1>3
  <2>2. w = WithBacklog(S[p], k + 1) /\ m = IF S[p].backlog = None THEN k + 1 ELSE k
    BY <1>3
  <2>3. Sound(T, C, disk, m, writes) /\ w.backlog # None
    <3> HIDE DEF w, m
    <3> QED BY <2>1, <2>2, BacklogMade
  <2>4. PICK G : System(G, T, C, disk, m, writes) /\ Primaries(G, T)
    BY <2>3 DEF Sound
  <2> HIDE DEF w, m, T
  <2>5. System(G, T, waiting, disk, m, writes)
    <3>1. T[p].backlog # None
      BY <2>3, <1>2
    <3>2. /\ Sound(T, [C EXCEPT ![s] = Connection(p, "closed", <<ErrorMsg>>)], disk, m, writes)
          /\ T[p].backlog # None /\ p # s =>
                System(G, T, [C EXCEPT ![s] = Connection(p, "start", <<>>)], disk, m, writes)
      BY <1>3, <2>4, RefusedLink
    <3> QED BY <2>1, <3>1, <3>2
  <2>6. CASE /\ srv' = [srv EXCEPT ![p] = w]
             /\ \E t \in Registering(C, p) :
                 conn' = [C EXCEPT ![s] =
                    [C[t] EXCEPT !.out = <<FullResyncMsg(w.id, C[t].initial)>>]]
    <3>1. PICK t \in Registering(C, p) :
             conn' = [C EXCEPT ![s] =
                [C[t] EXCEPT !.out = <<FullResyncMsg(w.id, C[t].initial)>>]]
      BY <2>6
    <3>2. Sound(T, [C EXCEPT ![s] = [C[t] EXCEPT !.out =
                        <<FullResyncMsg(T[p].id, C[t].initial)>>]], disk, m, writes)
      BY <1>3, <2>1, <2>4, SharedResync
    <3> QED BY <3>1, <3>2, <2>6, <1>2, <1>7
  <2>7. CASE srv' = [srv EXCEPT ![p] = w] /\ conn' = waiting
    <3>1. Sound(T, waiting, disk, m, writes)
      BY <2>4, <2>5 DEF Sound
    <3> QED BY <3>1, <2>7, <1>2, <1>7
  <2>8. CASE /\ w.child = None /\ srv' = [srv EXCEPT ![p] = StartBgsave(w)]
             /\ conn' = SetupReplicasForFullResync(waiting, p, w)
    <3> HIDE DEF waiting
    <3>1. T[p].child = None
      BY <1>2, <2>8
    <3>2. Sound([T EXCEPT ![p] = StartBgsave(@)], SetupReplicasForFullResync(waiting, p, T[p]),
                disk, m, writes)
      BY <2>4, <2>5, <3>1, Forked
    <3>3. [T EXCEPT ![p] = StartBgsave(@)] = [srv EXCEPT ![p] = StartBgsave(w)]
      BY <1>2, <1>3 DEF T
    <3> QED BY <3>2, <3>3, <2>8, <1>2, <1>7
  <2> QED BY <1>7, <2>6, <2>7, <2>8
<1> QED BY <1>5, <1>6, <1>7 DEF AnswerSync

LEMMA SyncCommandStep ==
  ASSUME NEW H, System(H, srv, conn, disk, nid, writes), Primaries(H, srv), NEW s \in Server,
         NEW p \in Server, SyncCommand(p, s)
  PROVE  Sound(srv', conn', disk', nid', writes')
<1> DEFINE q == conn[s].req
           r == ReplicationUnsetPrimary(srv[p], nid + 1)
           S == [srv EXCEPT ![p] = r]
           C == Promoted(conn, p)
<1>1. /\ conn[s] # None /\ conn[s].to = p /\ conn[s].st = "psync" /\ disk' = disk
      /\ writes' = writes
  BY DEF SyncCommand, LinkedTo, bounds
<1>2. LinkOK(H, nid, writes, s, conn[s], srv[s], srv[p])
  BY <1>1, LinkFacts
<1>3. CASE AnswerSync(p, s, srv[p], conn, nid)
  <2>1. srv \in [Server -> ServerOf(nid, writes)]
    BY DEF System, Servers
  <2>2. srv = [srv EXCEPT ![p] = srv[p]]
    BY <2>1
  <2>3. Arrived(srv, conn, p, s, srv[p])
    BY <1>1, <2>2 DEF Arrived
  <2> QED BY <1>1, <1>3, <2>3, AnswerSyncStep
<1>4. CASE /\ q.failover /\ srv[p].host # None
           /\ AnswerSync(p, s, r, C, nid + 1)
  <2>1. p # s
    BY <1>1, <1>2, <1>4 DEF LinkOK, Asking
  <2>2. DOMAIN srv = Server /\ Failover(p, srv[p])
    BY ServerFacts
  <2>3. srv[p].failover.st # "wait"
    BY <2>2, <1>4 DEF Failover
  <2>4. Sound(S, C, disk, nid + 1, writes)
    BY <2>3, Promotion
  <2>5. PICK G : System(G, S, C, disk, nid + 1, writes) /\ Primaries(G, S)
    BY <2>4 DEF Sound
  <2>6. C[s] = conn[s]
    <3>1. conn = [t \in Server |-> conn[t]]
      BY LinkFacts
    <3>2. s \notin Replicas(WithoutLink(conn, p), p) /\ WithoutLink(conn, p)[s] = conn[s]
      BY <1>1, <2>1, <3>1 DEF WithoutLink, Replicas
    <3> QED BY <3>2, Disconnected DEF Promoted
  <2>7. C[s] # None /\ C[s].to = p /\ C[s].st = "psync" /\ C[s].req = conn[s].req
    BY <1>1, <2>6
  <2>8. Arrived(S, C, p, s, r)
    BY <2>2, <2>7 DEF Arrived
  <2> HIDE DEF r, S, C
  <2> QED BY <2>5, <2>8, <1>1, <1>4, AnswerSyncStep
<1>5. CASE /\ conn' = [conn EXCEPT ![s] = Connection(p, "closed", <<ErrorMsg>>)]
           /\ UNCHANGED <<srv, nid>>
  <2>1. Sound(srv, [conn EXCEPT ![s] = Connection(p, "closed", <<ErrorMsg>>)], disk, nid, writes)
    BY <1>1, RefusedLink
  <2> QED BY <2>1, <1>1, <1>5
<1> QED BY <1>3, <1>4, <1>5 DEF SyncCommand

-------------------------------------------------------------------------------
(* The invariant.                                                          *)

(* There are as many IDs as servers at the start, one for each.            *)
LEMMA StartIds ==
  LET n == Cardinality(Server)
      ids == CHOOSE f \in [Server -> 1 .. n] : IsInjective(f)
  IN  n \in Nat /\ ids \in [Server -> 1 .. n] /\ IsInjective(ids)
<1> DEFINE n == Cardinality(Server)
<1>1. n \in Nat /\ ExistsBijection(1 .. n, Server)
  BY ServerAssumption, FS_CardinalityType
<1>2. ExistsBijection(Server, 1 .. n)
  BY <1>1, Fun_ExistsBijSymmetric
<1>3. \E f \in [Server -> 1 .. n] : IsInjective(f)
  BY <1>2 DEF ExistsBijection, Bijection, Injection
<1> QED BY <1>1, <1>3

LEMMA InitInv ==
  Init => ReplicationInv
<1> SUFFICES ASSUME Init
             PROVE  ReplicationInv
  OBVIOUS
<1> DEFINE n == Cardinality(Server)
           ids == CHOOSE f \in [Server -> 1 .. n] : IsInjective(f)
           H == [i \in {} |-> 0]
           v == <<>>
<1>1. n \in Nat /\ ids \in [Server -> 1 .. n] /\ IsInjective(ids)
  BY StartIds
<1>2. /\ mode \in Modes /\ srv = [s \in Server |-> InitServerConfig(ids[s], mode.hosts[s])]
      /\ conn = [s \in Server |-> None] /\ disk = [s \in Server |-> NoFile]
      /\ nid = n /\ writes = 0 /\ ops = 0 /\ faults = 0 /\ restarts = 0
  BY DEF Init
<1> HIDE DEF n, ids
<1>3. mode \in ModeType
  BY <1>2, ModesAssumption
<1>4. /\ mode.hosts \in [Server -> Server \cup {None}] /\ mode.writes \in Nat /\ mode.nops \in Nat
      /\ mode.faults \in Nat /\ mode.restarts \in Nat
  BY <1>3 DEF ModeType
<1>5. Counters
  BY <1>2, <1>4 DEF Counters
<1>6. v \in Data(writes)
  BY <1>2, WordsOfData
<1>7. DOMAIN H = {} /\ Histories(H, nid, writes)
  BY <1>1, <1>2 DEF Histories
<1> HIDE DEF H
<1>8. ASSUME NEW s \in Server
      PROVE  /\ srv[s] = InitServerConfig(ids[s], mode.hosts[s])
             /\ ServerOK(H, nid, writes, s, srv[s]) /\ AtTip(H, srv[s])
             /\ srv[s].state \in {"none", "connect"} /\ srv[s].id = ids[s]
  <2> DEFINE h == mode.hosts[s]
             i == ids[s]
             r == srv[s]
             k == IF h = None THEN "none" ELSE "connect"
             f == NoFailover
  <2>1. h \in Server \cup {None} /\ i \in 1 .. nid
    BY <1>1, <1>2, <1>4
  <2>2. /\ f \in [st : {"none", "wait", "progress"}, tgt : Server \cup {None},
                  kind : {"none", "any", "to", "force"}]
        /\ f.st = "none"
    BY DEF NoFailover
  <2>3. r = InitServerConfig(i, h)
    BY <1>2
  <2> HIDE DEF h, i, r
  <2>4. r = [data |-> v, id |-> i, off |-> 0, id2 |-> None, second |-> -1, backlog |-> None,
             host |-> h, state |-> k, primary |-> None, cached |-> None, initial |-> None,
             failover |-> f, child |-> None]
    BY <2>3 DEF InitServerConfig
  <2>5. k \in {"none", "connect"} /\ (h = None <=> k = "none")
    OBVIOUS
  <2> HIDE DEF k, f, v
  <2>6. r \in ServerOf(nid, writes)
    BY <2>1, <2>2, <2>4, <2>5, <1>6 DEF ServerOf
  <2>7. Shape(r) /\ Failover(s, r) /\ HasHistory(H, r)
    BY <2>2, <2>4, <2>5 DEF Shape, Failover, HasHistory, Known
  <2>8. AtTip(H, r)
    BY <2>4, <1>7 DEF AtTip
  <2>9. r.state \in {"none", "connect"} /\ r.id = i
    BY <2>4, <2>5
  <2> QED BY <2>3, <2>6, <2>7, <2>8, <2>9 DEF ServerOK, h, i, r
<1>9. Servers(H, srv, nid, writes)
  <2>1. \A s \in Server : srv[s] \in ServerOf(nid, writes)
    BY <1>8 DEF ServerOK
  <2>2. srv = [s \in Server |-> srv[s]]
    BY <1>2
  <2>3. srv \in [Server -> ServerOf(nid, writes)]
    BY <2>1, <2>2
  <2> QED BY <2>3, <1>8 DEF Servers
<1>10. Files(H, disk, nid, writes)
  <2>1. NoFile \in FileOf(nid, writes) /\ FileOK(H, NoFile)
    BY <1>6 DEF NoFile, FileOf, FileOK
  <2> QED BY <2>1, <1>2 DEF Files
<1>11. Links(H, srv, conn, nid, writes)
  <2>1. \A s \in Server : conn[s] = None /\ srv[s].state \in {"none", "connect"}
    BY <1>2, <1>8
  <2>2. conn \in [Server -> Link \cup {None}]
    BY <1>2
  <2> QED BY <2>1, <2>2 DEF Links, LinkAt
<1>12. Primaries(H, srv)
  <2>1. ASSUME NEW s \in Server, NEW t \in Server, s # t
        PROVE  srv[s].id # srv[t].id
    BY <2>1, <1>1, <1>8 DEF IsInjective
  <2> QED BY <2>1, <1>8 DEF Primaries
<1>13. System(H, srv, conn, disk, nid, writes)
  BY <1>7, <1>9, <1>10, <1>11 DEF System
<1> QED BY <1>5, <1>12, <1>13 DEF ReplicationInv

LEMMA CountersStep ==
  Counters /\ [Next]_vars => Counters'
<1> SUFFICES ASSUME Counters, [Next]_vars
             PROVE  Counters'
  OBVIOUS
<1>1. mode \in ModeType
  BY ModesAssumption DEF Counters
<1>2. /\ mode.writes \in Nat /\ mode.nops \in Nat /\ mode.faults \in Nat /\ mode.restarts \in Nat
  BY <1>1 DEF ModeType
<1> DEFINE W == writes' = writes \/ (writes < mode.writes /\ writes' = writes + 1)
           O == ops' = ops \/ (ops < mode.nops /\ ops' = ops + 1)
           F == faults' = faults \/ (faults < mode.faults /\ faults' = faults + 1)
           R == restarts' = restarts \/ (restarts < mode.restarts /\ restarts' = restarts + 1)
<1>3. ASSUME mode' = mode, W, O, F, R
      PROVE  Counters'
  BY <1>2, <1>3 DEF Counters
<1>4. mode' = mode /\ W /\ O /\ F /\ R
  <2>1. CASE UNCHANGED vars
    BY <2>1 DEF vars
  <2>2. ASSUME NEW s \in Server,
               \/ Write(s) \/ Save(s) \/ Restart(s) \/ ReplicaOfNoOne(s)
               \/ \E h \in Server : ReplicaOf(s, h) \/ SyncCommand(h, s)
        PROVE  mode' = mode /\ W /\ O /\ F /\ R
    BY <2>2 DEF Write, Save, Restart, ReplicaOfNoOne, ReplicaOf, SyncCommand, Op, bounds
  <2>3. ASSUME NEW s \in Server,
               \/ ReplicationStartPendingFork(s) \/ BgsaveDone(s) \/ BgsaveFails(s)
               \/ ReplicationCronFreeBacklog(s) \/ ReplicaSendPsyncCommand(s)
               \/ ReplicaProcessPsyncReply(s)
        PROVE  mode' = mode /\ W /\ O /\ F /\ R
    BY <2>3 DEF ReplicationStartPendingFork, BgsaveDone, BgsaveFails, ReplicationCronFreeBacklog,
                ReplicaSendPsyncCommand, ReplicaProcessPsyncReply, Op, Fault, bounds
  <2>4. ASSUME NEW s \in Server,
               \/ ReplicaLoadPrimaryRDB(s) \/ ReplicaLoadFails(s) \/ CommandProcessed(s)
               \/ LinkFails(s) \/ ReplicationHandlePrimaryDisconnection(s)
        PROVE  mode' = mode /\ W /\ O /\ F /\ R
    BY <2>4 DEF ReplicaLoadPrimaryRDB, ReplicaLoadFails, CommandProcessed, LinkFails,
                ReplicationHandlePrimaryDisconnection, Fault, bounds
  <2>5. ASSUME NEW s \in Server,
               \/ \E t \in Server \cup {None}, k \in {"any", "to", "force"} :
                    FailoverCommand(s, k, t)
               \/ FailoverAbort(s) \/ UpdateFailoverStatus(s) \/ FailoverTimesOut(s)
        PROVE  mode' = mode /\ W /\ O /\ F /\ R
    BY <2>5 DEF FailoverCommand, FailoverAbort, UpdateFailoverStatus, FailoverTimesOut,
                FailoverTo, Op, bounds
  <2> QED BY <2>1, <2>2, <2>3, <2>4, <2>5 DEF Next
<1> QED BY <1>3, <1>4

LEMMA NextInv ==
  ReplicationInv /\ [Next]_vars => ReplicationInv'
<1> SUFFICES ASSUME ReplicationInv, [Next]_vars
             PROVE  ReplicationInv'
  OBVIOUS
<1>1. PICK H : System(H, srv, conn, disk, nid, writes) /\ Primaries(H, srv)
  BY DEF ReplicationInv
<1>2. Counters /\ Counters'
  BY CountersStep DEF ReplicationInv
<1>3. Sound(srv', conn', disk', nid', writes')
  <2>1. CASE UNCHANGED vars
    BY <2>1, <1>1 DEF vars, Sound
  <2>2. ASSUME NEW s \in Server,
               \/ Write(s) \/ Save(s) \/ Restart(s) \/ ReplicaOfNoOne(s)
               \/ \E h \in Server : ReplicaOf(s, h) \/ SyncCommand(h, s)
        PROVE  Sound(srv', conn', disk', nid', writes')
    BY <2>2, <1>1, <1>2, WriteStep, SaveStep, RestartStep, ReplicaOfNoOneStep, ReplicaOfStep,
       SyncCommandStep
  <2>3. ASSUME NEW s \in Server,
               \/ ReplicationStartPendingFork(s) \/ BgsaveDone(s) \/ BgsaveFails(s)
               \/ ReplicationCronFreeBacklog(s) \/ ReplicaSendPsyncCommand(s)
               \/ ReplicaProcessPsyncReply(s)
        PROVE  Sound(srv', conn', disk', nid', writes')
    BY <2>3, <1>1, StartPendingForkStep, BgsaveDoneStep, BgsaveFailsStep, FreeBacklogStep,
       ReplicaSendPsyncCommandStep, ReplicaProcessPsyncReplyStep
  <2>4. ASSUME NEW s \in Server,
               \/ ReplicaLoadPrimaryRDB(s) \/ ReplicaLoadFails(s) \/ CommandProcessed(s)
               \/ LinkFails(s) \/ ReplicationHandlePrimaryDisconnection(s)
        PROVE  Sound(srv', conn', disk', nid', writes')
    BY <2>4, <1>1, ReplicaLoadPrimaryRDBStep, ReplicaLoadFailsStep, CommandProcessedStep,
       LinkFailsStep, DisconnectionStep
  <2>5. ASSUME NEW s \in Server,
               \/ \E t \in Server \cup {None}, k \in {"any", "to", "force"} :
                    FailoverCommand(s, k, t)
               \/ FailoverAbort(s) \/ UpdateFailoverStatus(s) \/ FailoverTimesOut(s)
        PROVE  Sound(srv', conn', disk', nid', writes')
    BY <2>5, <1>1, FailoverCommandStep, FailoverAbortStep, UpdateFailoverStatusStep,
       FailoverTimesOutStep
  <2> QED BY <2>1, <2>2, <2>3, <2>4, <2>5 DEF Next
<1> QED BY <1>2, <1>3 DEF ReplicationInv, Sound

-------------------------------------------------------------------------------
(* What the invariant says of datasets.                                    *)

LEMMA StreamOf ==
  ASSUME NEW u \in Words
  PROVE  Stream(Commands(u)) = u
<1>1. DOMAIN u = 1 .. Len(u) /\ Len(u) \in Nat
  BY LenProperties DEF Words
<1> DEFINE c == Commands(u)
<1>2. c \in Seq(Message) /\ Len(c) = Len(u) /\ \A i \in 1 .. Len(u) : c[i] = CommandMsg(u[i])
  BY CommandsOf
<1>3. DOMAIN c = 1 .. Len(u)
  BY <1>2, LenProperties
<1> HIDE DEF c
<1>4. \A i \in 1 .. Len(u) : c[i].e = u[i]
  <2>1. \A x : CommandMsg(x).e = x
    BY DEF CommandMsg
  <2> QED BY <1>2, <2>1
<1>5. Stream(c) = [i \in 1 .. Len(u) |-> u[i]]
  BY <1>3, <1>4 DEF Stream
<1>6. u = [i \in 1 .. Len(u) |-> u[i]]
  BY <1>1 DEF Words
<1> QED BY <1>5, <1>6 DEF c

(* A message before others, by position.                                   *)
LEMMA FirstAt ==
  ASSUME NEW m \in Message, NEW q \in Seq(Message), NEW a, a = <<m>> \o q
  PROVE  /\ a \in Seq(Message) /\ Len(a) = Len(q) + 1 /\ a[1] = m /\ Len(q) \in Nat
         /\ DOMAIN a = 1 .. Len(q) + 1 /\ \A i \in 1 .. Len(q) : a[i + 1] = q[i]
<1> DEFINE y == <<m>>
<1>1. y \in Seq(Message) /\ Len(y) = 1 /\ y[1] = m
  OBVIOUS
<1> HIDE DEF y
<1>2. /\ y \o q \in Seq(Message) /\ Len(y \o q) = Len(y) + Len(q)
      /\ \A i \in 1 .. Len(y) + Len(q) : (y \o q)[i] =
                     IF i <= Len(y) THEN y[i] ELSE q[i - Len(y)]
  BY <1>1, ConcatProperties
<1>3. a = y \o q
  BY DEF y
<1>4. Len(q) \in Nat
  BY LenProperties
<1>5. a \in Seq(Message) /\ Len(a) = Len(q) + 1
  BY <1>1, <1>2, <1>3, <1>4
<1>6. a[1] = m /\ \A i \in 1 .. Len(q) : a[i + 1] = q[i]
  BY <1>1, <1>2, <1>3, <1>4
<1> QED BY <1>4, <1>5, <1>6, LenProperties

(* The commands at the end of a connection.                                *)
LEMMA EndOfStream ==
  ASSUME NEW out \in Seq(Message), NEW u \in Words, NEW k \in Nat, Len(out) = k + Len(u),
         \A i \in 1 .. Len(u) : out[k + i] = CommandMsg(u[i])
  PROVE  /\ Stream(After(out, k)) = u
         /\ \A i \in DOMAIN out : i > k => out[i].k = "command"
<1> DEFINE c == Commands(u)
           x == After(out, k)
<1>1. DOMAIN out = 1 .. Len(out) /\ Len(u) \in Nat /\ Len(out) \in Nat
      /\ \A i \in 1 .. Len(out) : out[i] \in Message
  BY LenProperties, ElementOfSeq DEF Words
<1>2. c \in Seq(Message) /\ Len(c) = Len(u) /\ \A i \in 1 .. Len(u) : c[i] = CommandMsg(u[i])
  BY CommandsOf
<1>3. x \in Seq(Message) /\ Len(x) = Len(u) /\ \A i \in 1 .. Len(u) : x[i] = out[k + i]
  <2> DEFINE a == k + 1
             b == Len(out)
  <2>1. a \in Int /\ b \in Int /\ \A i \in a .. b : out[i] \in Message
    BY <1>1
  <2>2. b - a + 1 = Len(u) /\ (a > b => Len(u) = 0)
    BY <1>1
  <2>3. \A i \in 1 .. Len(u) : a + i - 1 = k + i
    BY <1>1
  <2> HIDE DEF a, b
  <2>4. /\ SubSeq(out, a, b) \in Seq(Message)
        /\ Len(SubSeq(out, a, b)) = IF a <= b THEN b - a + 1 ELSE 0
        /\ \A i \in 1 .. b - a + 1 : SubSeq(out, a, b)[i] = out[a + i - 1]
    BY <2>1, SubSeqProperties
  <2>5. x = SubSeq(out, a, b)
    BY DEF After, a, b
  <2> HIDE DEF x
  <2>6. Len(x) = Len(u)
    BY <2>1, <2>2, <2>4, <2>5
  <2>7. \A i \in 1 .. Len(u) : x[i] = out[k + i]
    BY <2>2, <2>3, <2>4, <2>5
  <2> QED BY <2>4, <2>5, <2>6, <2>7
<1> HIDE DEF c, x
<1>4. \A i \in 1 .. Len(u) : x[i] = c[i]
  BY <1>2, <1>3
<1>5. x = c
  BY <1>2, <1>3, <1>4, SeqEqual
<1>6. ASSUME NEW i \in DOMAIN out, i > k
      PROVE  out[i].k = "command"
  <2>1. i - k \in 1 .. Len(u) /\ k + (i - k) = i
    BY <1>1, <1>6
  <2>2. out[i] = CommandMsg(u[i - k])
    BY <2>1
  <2> QED BY <2>2 DEF CommandMsg
<1> QED BY <1>5, <1>6, StreamOf DEF c, x

(* What a replica has read in the end.                                     *)
LEMMA OutcomeOf ==
  ASSUME NEW H, NEW n \in Nat, NEW w \in Nat, NEW i \in Nat, NEW o, NEW d, NEW s \in Server,
         Delivers(H, n, w, srv[s], conn[s].out, i, o, d)
  PROVE  Outcome(s) = d
<1> DEFINE r == srv[s]
           out == conn[s].out
           rdb == {j \in DOMAIN out : out[j].k = "rdb"}
<1>0. Data(w) \subseteq Words
  BY WordsOfData
<1>1. CASE Applies(w, r, out, i, o, d)
  <2>1. PICK u \in Data(w) : r.state = "connected" /\ out = Commands(u) /\ d = r.data \o u
    BY <1>1 DEF Applies
  <2>2. Stream(out) = u /\ u \in Words
    BY <2>1, <1>0, StreamOf
  <2> DEFINE c == Commands(u)
  <2>3. c \in Seq(Message) /\ Len(c) = Len(u) /\ \A j \in 1 .. Len(u) : c[j] = CommandMsg(u[j])
    BY <2>2, CommandsOf
  <2>4. DOMAIN c = 1 .. Len(u)
    BY <2>3, LenProperties
  <2> HIDE DEF c
  <2>5. \A j \in DOMAIN c : c[j].k # "rdb"
    <3>1. \A x : CommandMsg(x).k # "rdb"
      BY DEF CommandMsg
    <3> QED BY <2>3, <2>4, <3>1
  <2>6. rdb = {}
    BY <2>1, <2>5 DEF c
  <2> QED BY <2>1, <2>2, <2>6 DEF Outcome
<1>2. CASE Continues(w, r, out, i, o, d)
  <2>1. PICK u \in Data(w) : /\ r.state = "psync" /\ out = <<ContinueMsg(i)>> \o Commands(u)
                             /\ d = r.data \o u
    BY <1>2 DEF Continues
  <2> DEFINE m == ContinueMsg(i)
             c == Commands(u)
             a == <<m>> \o c
  <2>2. u \in Words
    BY <1>0
  <2>3. c \in Seq(Message) /\ Len(c) = Len(u) /\ \A j \in 1 .. Len(u) : c[j] = CommandMsg(u[j])
    BY <2>2, CommandsOf
  <2>4. m \in Message /\ m.k # "rdb"
    BY DEF ContinueMsg, Message
  <2> HIDE DEF m, c
  <2>5. Tail(a) = c
    BY <2>3, <2>4, First
  <2>6. /\ a \in Seq(Message) /\ Len(a) = Len(c) + 1 /\ a[1] = m /\ Len(c) \in Nat
        /\ DOMAIN a = 1 .. Len(c) + 1 /\ \A j \in 1 .. Len(c) : a[j + 1] = c[j]
    BY <2>3, <2>4, FirstAt
  <2>7. a = out
    BY <2>1 DEF m, c
  <2> HIDE DEF a
  <2>8. \A j \in DOMAIN a : a[j].k # "rdb"
    <3> TAKE j \in DOMAIN a
    <3>1. CASE j = 1
      BY <3>1, <2>4, <2>6
    <3>2. CASE j # 1
      <4>1. j - 1 \in 1 .. Len(c) /\ (j - 1) + 1 = j
        BY <3>2, <2>6
      <4>2. a[j] = CommandMsg(u[j - 1])
        BY <4>1, <2>3, <2>6
      <4> QED BY <4>2 DEF CommandMsg
    <3> QED BY <3>1, <3>2
  <2>9. Stream(c) = u
    BY <2>2, StreamOf DEF c
  <2>10. rdb = {}
    BY <2>7, <2>8
  <2> QED BY <2>1, <2>5, <2>7, <2>9, <2>10 DEF Outcome
<1>3. CASE Loads(H, n, w, r, out, i, o, d)
  <2>1. PICK u \in Data(w), f \in FileOf(n, w) :
            r.state = "transfer" /\ out = <<RdbMsg(f)>> \o Commands(u) /\ d = f.data \o u
    BY <1>3 DEF Loads
  <2> DEFINE m == RdbMsg(f)
             c == Commands(u)
  <2>2. u \in Words
    BY <1>0
  <2>3. c \in Seq(Message) /\ Len(c) = Len(u) /\ \A j \in 1 .. Len(u) : c[j] = CommandMsg(u[j])
    BY <2>2, CommandsOf
  <2>4. m.k = "rdb" /\ m.file = f
    BY DEF RdbMsg
  <2>5. m \in Message
    BY FileFields, MessageTypes
  <2>6. out = <<m>> \o c
    BY <2>1
  <2> HIDE DEF m, c, out
  <2>7. /\ out \in Seq(Message) /\ Len(out) = Len(c) + 1 /\ out[1] = m /\ Len(c) \in Nat
        /\ DOMAIN out = 1 .. Len(c) + 1 /\ \A j \in 1 .. Len(c) : out[j + 1] = c[j]
    BY <2>3, <2>5, <2>6, FirstAt
  <2> DEFINE k == 1
  <2>8. k \in Nat /\ Len(out) = k + Len(u) /\ \A j \in 1 .. Len(u) : out[k + j] = CommandMsg(u[j])
    BY <2>3, <2>7
  <2> HIDE DEF k
  <2>9. Stream(After(out, k)) = u /\ \A j \in DOMAIN out : j > k => out[j].k = "command"
    BY <2>2, <2>7, <2>8, EndOfStream
  <2>10. rdb = {k}
    BY <2>4, <2>7, <2>9 DEF k
  <2>11. out[k].file.data = f.data
    BY <2>4, <2>7 DEF k
  <2> QED BY <2>1, <2>9, <2>10, <2>11 DEF Outcome, out
<1>4. CASE Resyncs(H, n, w, r, out, i, o, d)
  <2>1. PICK u \in Data(w), f \in FileOf(n, w), b \in Nat :
            /\ r.state = "psync" /\ d = f.data \o u
            /\ out = <<FullResyncMsg(i, b)>> \o (<<RdbMsg(f)>> \o Commands(u))
    BY <1>4 DEF Resyncs
  <2> DEFINE x == FullResyncMsg(i, b)
             m == RdbMsg(f)
             c == Commands(u)
             a == <<m>> \o c
  <2>2. u \in Words
    BY <1>0
  <2>3. c \in Seq(Message) /\ Len(c) = Len(u) /\ \A j \in 1 .. Len(u) : c[j] = CommandMsg(u[j])
    BY <2>2, CommandsOf
  <2>4. m.k = "rdb" /\ m.file = f /\ x.k # "rdb"
    BY DEF RdbMsg, FullResyncMsg
  <2>5. m \in Message /\ x \in Message
    BY FileFields, MessageTypes
  <2>6. out = <<x>> \o a
    BY <2>1
  <2> HIDE DEF m, c, out, x
  <2>7. /\ a \in Seq(Message) /\ Len(a) = Len(c) + 1 /\ a[1] = m /\ Len(c) \in Nat
        /\ DOMAIN a = 1 .. Len(c) + 1 /\ \A j \in 1 .. Len(c) : a[j + 1] = c[j]
    BY <2>3, <2>5, FirstAt
  <2> HIDE DEF a
  <2>8. /\ out \in Seq(Message) /\ Len(out) = Len(a) + 1 /\ out[1] = x /\ Len(a) \in Nat
        /\ DOMAIN out = 1 .. Len(a) + 1 /\ \A j \in 1 .. Len(a) : out[j + 1] = a[j]
    BY <2>5, <2>6, <2>7, FirstAt
  <2> DEFINE k == 2
  <2>9. out[k] = m
    <3>1. 1 \in 1 .. Len(a) /\ 1 + 1 = k
      BY <2>7
    <3> QED BY <3>1, <2>7, <2>8
  <2>10. \A j \in 1 .. Len(u) : out[k + j] = CommandMsg(u[j])
    <3> TAKE j \in 1 .. Len(u)
    <3>1. j + 1 \in 1 .. Len(a) /\ (j + 1) + 1 = k + j /\ j \in 1 .. Len(c)
      BY <2>3, <2>7
    <3>2. out[k + j] = a[j + 1] /\ a[j + 1] = c[j]
      BY <3>1, <2>7, <2>8
    <3> QED BY <3>2, <2>3
  <2>11. k \in Nat /\ Len(out) = k + Len(u) /\ k \in DOMAIN out
    BY <2>3, <2>7, <2>8
  <2>12. \A j \in DOMAIN out : j > k \/ j = k \/ j = 1
    BY <2>7, <2>8
  <2> HIDE DEF k
  <2>13. Stream(After(out, k)) = u /\ \A j \in DOMAIN out : j > k => out[j].k = "command"
    BY <2>2, <2>8, <2>10, <2>11, EndOfStream
  <2>14. rdb = {k}
    BY <2>4, <2>8, <2>9, <2>11, <2>12, <2>13
  <2>15. out[k].file.data = f.data
    BY <2>4, <2>9
  <2> QED BY <2>1, <2>13, <2>14, <2>15 DEF Outcome, out
<1> QED BY <1>1, <1>2, <1>3, <1>4 DEF Delivers

LEMMA PrefixOf ==
  ASSUME NEW d \in Words, NEW u \in Words
  PROVE  IsPrefix(d, d \o u)
<1> DEFINE t == d \o u
           k == Len(d)
           x == SubSeq(d, 1, k)
           y == SubSeq(t, 1, k)
<1>1. t \in Words /\ Len(t) = k + Len(u) /\ k \in Nat /\ Len(u) \in Nat
  BY Cat
<1>2. \A i \in 1 .. k : t[i] = d[i] /\ d[i] \in Nat /\ t[i] \in Nat
  <2>1. \A i \in 1 .. Len(d) + Len(u) : t[i] = IF i <= Len(d) THEN d[i] ELSE u[i - Len(d)]
    BY CatAt
  <2>2. \A i \in 1 .. k : d[i] \in Nat
    BY ElementOfSeq DEF Words
  <2> HIDE DEF t
  <2> QED BY <1>1, <2>1, <2>2
<1> HIDE DEF t
<1>3. x \in Seq(Nat) /\ Len(x) = k /\ \A i \in 1 .. k : x[i] = d[i]
  BY <1>1, <1>2, SubSeqProperties
<1>4. y \in Seq(Nat) /\ Len(y) = k /\ \A i \in 1 .. k : y[i] = t[i]
  BY <1>1, <1>2, SubSeqProperties
<1> HIDE DEF x, y
<1>5. \A i \in 1 .. k : x[i] = y[i]
  BY <1>2, <1>3, <1>4
<1>6. x = y
  BY <1>3, <1>4, <1>5, SeqEqual
<1> QED BY <1>1, <1>6 DEF IsPrefix, x, y, t

(* A position that is known anywhere is in the history of its ID.          *)
LEMMA PositionClaimed ==
  ASSUME NEW H, System(H, srv, conn, disk, nid, writes), NEW a \in Positions
  PROVE  Claim(H, a.at.id, a.at.off, a.data) /\ a.at.off \in Nat /\ a.data \in Words
<1>1. CASE \E s \in {t \in Server : RdbPopulateSaveInfo(srv[t]) # None} :
                a = [at |-> Pos(srv[s].id, srv[s].off), data |-> srv[s].data]
  <2>1. PICK s \in Server : /\ RdbPopulateSaveInfo(srv[s]) # None
                            /\ a = [at |-> Pos(srv[s].id, srv[s].off), data |-> srv[s].data]
    BY <1>1
  <2> DEFINE r == srv[s]
  <2>2. nid \in Nat /\ writes \in Nat /\ r \in ServerOf(nid, writes) /\ HasHistory(H, r)
    BY ServerFacts
  <2>3. Claim(H, r.id, r.off, r.data)
    BY <2>1, <2>2 DEF RdbPopulateSaveInfo, HasHistory, Known
  <2>4. r.off \in Nat /\ r.data \in Data(writes)
    BY <2>2 DEF ServerOf
  <2>5. r.data \in Words
    BY <2>2, <2>4, WordsOfData
  <2>6. a.at.id = r.id /\ a.at.off = r.off /\ a.data = r.data
    BY <2>1 DEF Pos
  <2> QED BY <2>3, <2>4, <2>5, <2>6
<1>2. CASE \E s \in {t \in Server : disk[t].info # None} :
                a = [at |-> disk[s].info, data |-> disk[s].data]
  <2>1. PICK s \in Server : disk[s].info # None /\ a = [at |-> disk[s].info, data |-> disk[s].data]
    BY <1>2
  <2> DEFINE f == disk[s]
  <2>2. nid \in Nat /\ writes \in Nat /\ f \in FileOf(nid, writes) /\ FileOK(H, f)
    BY ServerFacts
  <2>3. Claim(H, f.info.id, f.info.off, f.data)
    BY <2>1, <2>2 DEF FileOK
  <2>4. f.info \in PositionOf(nid) /\ f.data \in Data(writes)
    BY <2>1, <2>2 DEF FileOf
  <2>5. f.info.off \in Nat /\ f.data \in Words
    BY <2>2, <2>4, WordsOfData DEF PositionOf
  <2>6. a.at = f.info /\ a.data = f.data
    BY <2>1
  <2> QED BY <2>3, <2>5, <2>6
<1> QED BY <1>1, <1>2 DEF Positions

LEMMA InvTypes ==
  ReplicationInv => TypeOK
<1> SUFFICES ASSUME ReplicationInv
             PROVE  TypeOK
  OBVIOUS
<1>1. PICK H : System(H, srv, conn, disk, nid, writes)
  BY DEF ReplicationInv
<1>2. Counters
  BY DEF ReplicationInv
<1>3. nid \in Nat
  BY <1>1 DEF System, Histories
<1>4. /\ Ids = 1 .. nid /\ Datasets = Data(writes) /\ PosType = PositionOf(nid) \cup {None}
      /\ FileType = FileOf(nid, writes)
  BY DEF Ids, Datasets, Data, PosType, PositionOf, FileType, FileOf
<1>5. ASSUME NEW s \in Server
      PROVE  LET r == srv[s] c == conn[s] IN
        /\ r.data \in Datasets /\ r.id \in Ids /\ r.off \in Nat
        /\ r.id2 \in Ids \cup {None} /\ r.second \in Nat \cup {-1}
        /\ r.backlog = None \/ r.backlog \in Datasets
        /\ r.host \in Server \cup {None}
        /\ {r.primary, r.cached, r.initial} \subseteq PosType
        /\ disk[s] \in FileType
        /\ r.child = None \/ r.child \in FileType
        /\ r.host = None <=> r.state = "none"
        /\ r.state \in {"none", "connect"} <=> c = None
        /\ r.state = "connected" <=> r.primary # None
        /\ r.state = "transfer" <=> r.initial # None
        /\ c # None =>
            /\ c.to = r.host
            /\ c.st \in {"psync", "start", "end", "online", "closed"}
            /\ c.pend \in Datasets
  <2> DEFINE r == srv[s]
             c == conn[s]
  <2>1. r \in ServerOf(nid, writes) /\ Shape(r) /\ disk[s] \in FileOf(nid, writes)
    BY <1>1, ServerFacts
  <2>2. /\ r.data \in Datasets /\ r.id \in Ids /\ r.off \in Nat
        /\ r.id2 \in Ids \cup {None} /\ r.second \in Nat \cup {-1}
        /\ r.backlog = None \/ r.backlog \in Datasets
        /\ r.host \in Server \cup {None}
        /\ {r.primary, r.cached, r.initial} \subseteq PosType
        /\ r.child = None \/ r.child \in FileType
    BY <1>4, <2>1 DEF ServerOf
  <2>3. /\ r.host = None <=> r.state = "none"
        /\ r.state = "connected" <=> r.primary # None
        /\ r.state = "transfer" <=> r.initial # None
    BY <2>1 DEF Shape
  <2>4. r.state \in {"none", "connect"} <=> c = None
    BY <1>1, LinkFacts
  <2>5. ASSUME c # None
        PROVE  /\ c.to = r.host /\ c.st \in {"psync", "start", "end", "online", "closed"}
               /\ c.pend \in Datasets
    <3>1. c \in Link /\ c.to = r.host /\ LinkOK(H, nid, writes, s, c, r, srv[c.to])
      BY <1>1, <2>5, LinkFacts
    <3>2. c.pend \in Data(writes)
      BY <3>1 DEF LinkOK
    <3> QED BY <3>1, <3>2, <1>4, LinkFields
  <2> HIDE DEF r, c
  <2>6. /\ r.data \in Datasets /\ r.id \in Ids /\ r.off \in Nat
        /\ r.id2 \in Ids \cup {None} /\ r.second \in Nat \cup {-1}
        /\ r.backlog = None \/ r.backlog \in Datasets
        /\ r.host \in Server \cup {None}
        /\ {r.primary, r.cached, r.initial} \subseteq PosType
        /\ disk[s] \in FileType
        /\ r.child = None \/ r.child \in FileType
        /\ r.host = None <=> r.state = "none"
        /\ r.state \in {"none", "connect"} <=> c = None
        /\ r.state = "connected" <=> r.primary # None
        /\ r.state = "transfer" <=> r.initial # None
        /\ c # None =>
            /\ c.to = r.host
            /\ c.st \in {"psync", "start", "end", "online", "closed"}
            /\ c.pend \in Datasets
    BY <1>4, <2>1, <2>2, <2>3, <2>4, <2>5
  <2> QED BY <2>6 DEF r, c
<1> QED BY <1>2, <1>3, <1>5 DEF TypeOK, Counters

LEMMA InvBacklog ==
  ReplicationInv => BacklogForReplicas
<1> SUFFICES ASSUME ReplicationInv, NEW p \in Server, Replicas(conn, p) # {}
             PROVE  srv[p].backlog # None
  BY DEF BacklogForReplicas
<1>1. PICK H : System(H, srv, conn, disk, nid, writes)
  BY DEF ReplicationInv
<1>2. PICK t \in Replicas(conn, p) : TRUE
  OBVIOUS
<1> QED BY <1>1, <1>2, ReplicaIsAnother

LEMMA InvFollows ==
  ReplicationInv => ReplicaFollows
<1> SUFFICES ASSUME ReplicationInv, NEW s \in Server, conn[s] # None
             PROVE  LET p == conn[s].to IN
                    /\ conn[s].st = "online" => Outcome(s) = srv[p].data
                    /\ conn[s].st = "end" => srv[p].child.data \o conn[s].pend = srv[p].data
  BY DEF ReplicaFollows
<1> DEFINE c == conn[s]
           p == srv[c.to]
<1>1. PICK H : System(H, srv, conn, disk, nid, writes)
  BY DEF ReplicationInv
<1>2. c.to \in Server /\ LinkOK(H, nid, writes, s, c, srv[s], p)
  BY <1>1, LinkFacts
<1>3. nid \in Nat /\ writes \in Nat /\ p \in ServerOf(nid, writes)
  BY <1>1, <1>2, ServerFacts
<1>4. p.id \in Nat
  BY <1>3 DEF ServerOf
<1>5. CASE c.st = "online"
  <2>1. Delivers(H, nid, writes, srv[s], c.out, p.id, p.off, p.data)
    BY <1>2, <1>5 DEF LinkOK, Fed
  <2> HIDE DEF p
  <2>2. Outcome(s) = p.data
    BY <2>1, <1>3, <1>4, OutcomeOf
  <2> QED BY <2>2, <1>5 DEF p
<1>6. CASE c.st = "end"
  BY <1>2, <1>6 DEF LinkOK, Snapshot
<1> QED BY <1>5, <1>6

LEMMA InvOneHistory ==
  ReplicationInv => OneHistoryPerId
<1> SUFFICES ASSUME ReplicationInv, NEW a \in Positions, NEW b \in Positions,
                    a.at.id = b.at.id, a.at.off <= b.at.off
             PROVE  IsPrefix(a.data, b.data)
  BY DEF OneHistoryPerId
<1>1. PICK H : System(H, srv, conn, disk, nid, writes)
  BY DEF ReplicationInv
<1>2. /\ Claim(H, a.at.id, a.at.off, a.data) /\ a.at.off \in Nat /\ a.data \in Words
      /\ Claim(H, b.at.id, b.at.off, b.data) /\ b.at.off \in Nat /\ b.data \in Words
  BY <1>1, PositionClaimed
<1> DEFINE h == H[a.at.id]
           x == a.data
           y == b.data
           k == a.at.off
           l == b.at.off
<1>3. In(h, k, x) /\ In(h, l, y)
  BY <1>2 DEF Claim
<1>4. k \in Int /\ l \in Int /\ k <= l /\ x \in Words /\ y \in Words
  BY <1>2
<1> HIDE DEF h, x, y, k, l
<1>5. Beyond(x, y, l - k)
  BY <1>3, <1>4, InOrder
<1>6. IsPrefix(x, y)
  BY <1>4, <1>5, PrefixOf DEF Beyond
<1> QED BY <1>6 DEF x, y

-------------------------------------------------------------------------------
(* Every history that is known anywhere under a replication ID, in the     *)
(* memory of a server, in an RDB file or on its way to a replica, is the   *)
(* beginning of one history of this ID; a primary is at the end of its own.*)
THEOREM HistoriesAgree ==
  Spec => []ReplicationInv
<1>1. Init => ReplicationInv
  BY InitInv
<1>2. ReplicationInv /\ [Next]_vars => ReplicationInv'
  BY NextInv
<1> QED BY <1>1, <1>2, PTL DEF Spec

(* The state has its types, and a server is in its handshake where its     *)
(* connection is.                                                          *)
THEOREM TypesAreKept ==
  Spec => []TypeOK
<1>1. ReplicationInv => TypeOK
  BY InvTypes
<1> QED BY <1>1, HistoriesAgree, PTL

(* A server that has replicas has a backlog, which the assertions of       *)
(* feedReplicationBuffer and freeReplicationBacklog rely on.               *)
THEOREM ReplicasNeedBacklog ==
  Spec => []BacklogForReplicas
<1>1. ReplicationInv => BacklogForReplicas
  BY InvBacklog
<1> QED BY <1>1, HistoriesAgree, PTL

(* A replica that its primary feeds has the dataset of its primary once it *)
(* has read what is under way: after partial and full resynchronizations,  *)
(* in chains, after failovers and restarts.                                *)
THEOREM ReplicasFollow ==
  Spec => []ReplicaFollows
<1>1. ReplicationInv => ReplicaFollows
  BY InvFollows
<1> QED BY <1>1, HistoriesAgree, PTL

(* Of two datasets known under one replication ID the one with the smaller *)
(* offset is a prefix of the other: a partial resynchronization never      *)
(* joins two histories.                                                    *)
THEOREM IdsNameOneHistory ==
  Spec => []OneHistoryPerId
<1>1. ReplicationInv => OneHistoryPerId
  BY InvOneHistory
<1> QED BY <1>1, HistoriesAgree, PTL
=============================================================================
