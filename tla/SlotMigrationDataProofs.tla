----------------------- MODULE SlotMigrationDataProofs ------------------------
(***************************************************************************)
(* Theorems about the keys that SlotMigration moves: the snapshot and the  *)
(* writes that are fed to an export add up, at the target, to what the     *)
(* source has, so the owner of a slot has every acknowledged write to it.  *)
(***************************************************************************)
EXTENDS SlotMigrationProofs

-------------------------------------------------------------------------------
(* What the keys of a slot become on their way to a target: the snapshot   *)
(* and the writes are added to them, and once the failover is granted      *)
(* (field g) they have to be all that was acknowledged.                    *)

Copy == [v : Seq(Nat), g : BOOLEAN]

Effect(s, x, m) ==
    [v |-> IF m.k = "snap" THEN x.v \o m.v[s]
           ELSE IF m.k = "data" /\ m.s = s THEN Append(x.v, m.w) ELSE x.v,
     g |-> x.g \/ m.k = "granted"]

Sound(a, x) == x.g => x.v = a

(* The messages of q, read one after the other, turn x into y.             *)
Turns(s, a, q, x, y) ==
    \E P \in [0..Len(q) -> Copy] :
        /\ P[0] = x /\ P[Len(q)] = y
        /\ \A i \in 0..Len(q) : Sound(a, P[i])
        /\ \A i \in 1..Len(q) : P[i] = Effect(s, P[i - 1], q[i])

(* Messages that change no keys.                                           *)
Plain == [k : {"establish", "ack"}]

(* A message turns a copy into a copy.                                     *)
LEMMA EffectOK ==
    ASSUME NEW j, NEW s \in Slots(j), NEW m \in MsgFor(j), NEW x \in Copy
    PROVE  Effect(s, x, m) \in Copy
<1>1. x.v \in Seq(Nat) /\ x.g \in BOOLEAN
  BY DEF Copy
<1>2. m.k = "snap" => x.v \o m.v[s] \in Seq(Nat)
  <2> SUFFICES ASSUME m.k = "snap" PROVE x.v \o m.v[s] \in Seq(Nat)
    OBVIOUS
  <2>1. m \in [k : {"snap"}, v : Values(j)]
    BY DEF MsgFor, Control
  <2>2. m.v[s] \in Seq(Nat)
    BY <2>1 DEF Values
  <2> QED BY <1>1, <2>2, ConcatProperties
<1>3. m.k = "data" => Append(x.v, m.w) \in Seq(Nat)
  <2> SUFFICES ASSUME m.k = "data" PROVE Append(x.v, m.w) \in Seq(Nat)
    OBVIOUS
  <2>1. m \in [k : {"data"}, s : Slots(j), w : Nat]
    BY DEF MsgFor, Control
  <2> QED BY <1>1, <2>1, AppendProperties
<1> DEFINE r == IF m.k = "snap" THEN x.v \o m.v[s]
                ELSE IF m.k = "data" /\ m.s = s THEN Append(x.v, m.w) ELSE x.v
           b == x.g \/ m.k = "granted"
<1>4. r \in Seq(Nat) /\ b \in BOOLEAN
  BY <1>1, <1>2, <1>3
<1>5. Effect(s, x, m) = [v |-> r, g |-> b]
  BY DEF Effect
<1> HIDE DEF r, b
<1> QED BY <1>4, <1>5 DEF Copy

(* The effect of the messages by their kind.                               *)
LEMMA EffectFacts ==
    ASSUME NEW s, NEW x \in Copy, NEW m
    PROVE  /\ Effect(s, x, m).g = (x.g \/ m.k = "granted")
           /\ m.k = "snap" => Effect(s, x, m).v = x.v \o m.v[s]
           /\ m.k = "data" /\ m.s = s => Effect(s, x, m).v = Append(x.v, m.w)
           /\ m.k = "data" /\ m.s # s => Effect(s, x, m).v = x.v
           /\ m.k \notin {"snap", "data"} => Effect(s, x, m).v = x.v
  BY DEF Effect, Copy

(* A message that is not about the slot.                                   *)
LEMMA EffectNone ==
    ASSUME NEW s, NEW x \in Copy, NEW m,
           m.k \notin {"snap", "data", "granted"} \/ (m.k = "data" /\ m.s # s)
    PROVE  Effect(s, x, m) = x
  BY DEF Effect, Copy

(* Both ends of a sequence of messages.                                    *)
LEMMA TurnsEnds ==
    ASSUME NEW s, NEW a, NEW S, NEW q \in Seq(S), NEW x, NEW y, Turns(s, a, q, x, y)
    PROVE  x \in Copy /\ y \in Copy /\ Sound(a, x) /\ Sound(a, y)
<1>1. PICK P \in [0..Len(q) -> Copy] :
        /\ P[0] = x /\ P[Len(q)] = y /\ \A i \in 0..Len(q) : Sound(a, P[i])
  BY DEF Turns
<1>2. Len(q) \in Nat
  BY LenProperties
<1>3. 0 \in 0..Len(q) /\ Len(q) \in 0..Len(q)
  BY <1>2
<1> QED BY <1>1, <1>3

(* No message.                                                             *)
LEMMA TurnsEmpty ==
    ASSUME NEW s, NEW a, NEW x \in Copy, Sound(a, x)
    PROVE  Turns(s, a, <<>>, x, x)
<1> DEFINE P == [i \in 0..0 |-> x]
<1>1. Len(<<>>) = 0
  OBVIOUS
<1>2. P \in [0..0 -> Copy] /\ P[0] = x /\ \A i \in 0..0 : P[i] = x
  OBVIOUS
<1> HIDE DEF P
<1>3. \A i \in 0..0 : Sound(a, P[i])
  BY <1>2
<1>4. \A i \in 1..0 : P[i] = Effect(s, P[i - 1], <<>>[i])
  OBVIOUS
<1> QED BY <1>1, <1>2, <1>3, <1>4 DEF Turns

(* Messages that change nothing.                                           *)
LEMMA TurnsPlain ==
    ASSUME NEW s, NEW a, NEW x \in Copy, Sound(a, x), NEW q \in Seq(Plain)
    PROVE  Turns(s, a, q, x, x)
<1> DEFINE P == [i \in 0..Len(q) |-> x]
<1>1. Len(q) \in Nat
  BY LenProperties
<1>2. /\ P \in [0..Len(q) -> Copy] /\ P[0] = x /\ P[Len(q)] = x
      /\ \A i \in 0..Len(q) : P[i] = x
  BY <1>1
<1> HIDE DEF P
<1>3. ASSUME NEW i \in 1..Len(q) PROVE P[i] = Effect(s, P[i - 1], q[i])
  <2>1. i \in 0..Len(q) /\ i - 1 \in 0..Len(q)
    BY <1>1
  <2>2. q[i] \in Plain
    BY ElementOfSeq
  <2>3. q[i].k \notin {"snap", "data", "granted"}
    BY <2>2 DEF Plain
  <2>4. Effect(s, x, q[i]) = x
    <3> DEFINE m == q[i]
    <3>1. m.k \notin {"snap", "data", "granted"}
      BY <2>3
    <3> HIDE DEF m
    <3>2. Effect(s, x, m) = x
      BY <3>1, EffectNone
    <3> QED BY <3>2 DEF m
  <2> QED BY <1>2, <2>1, <2>4
<1>4. \A i \in 0..Len(q) : Sound(a, P[i])
  BY <1>2
<1> QED BY <1>2, <1>3, <1>4 DEF Turns

(* One message more.                                                       *)
LEMMA TurnsAppend ==
    ASSUME NEW j, NEW s \in Slots(j), NEW a, NEW q \in Seq(MsgFor(j)),
           NEW m \in MsgFor(j), NEW x, NEW y, Turns(s, a, q, x, y),
           Sound(a, Effect(s, y, m))
    PROVE  Turns(s, a, Append(q, m), x, Effect(s, y, m))
<1>1. PICK P \in [0..Len(q) -> Copy] :
        /\ P[0] = x /\ P[Len(q)] = y /\ \A i \in 0..Len(q) : Sound(a, P[i])
        /\ \A i \in 1..Len(q) : P[i] = Effect(s, P[i - 1], q[i])
  BY DEF Turns
<1> DEFINE r == Append(q, m)
           z == Effect(s, y, m)
           n == Len(q)
           R == [i \in 0..(n + 1) |-> IF i = n + 1 THEN z ELSE P[i]]
<1>2. n \in Nat
  BY LenProperties
<1>3. Len(r) = n + 1 /\ r[n + 1] = m /\ \A i \in 1..n : r[i] = q[i]
  BY AppendProperties
<1>4. y \in Copy /\ z \in Copy
  BY TurnsEnds, EffectOK
<1> HIDE DEF n, r, z
<1>5. /\ R \in [0..(n + 1) -> Copy] /\ R[0] = x /\ R[n + 1] = z
      /\ \A i \in 0..n : R[i] = P[i]
  BY <1>1, <1>2, <1>4 DEF n
<1> HIDE DEF R
<1>6. ASSUME NEW i \in 0..(n + 1) PROVE Sound(a, R[i])
  <2>1. CASE i = n + 1
    BY <1>5, <2>1 DEF z
  <2>2. CASE i # n + 1
    <3>1. i \in 0..n
      BY <1>2, <2>2
    <3> QED BY <1>1, <1>5, <3>1 DEF n
  <2> QED BY <2>1, <2>2
<1>7. ASSUME NEW i \in 1..(n + 1) PROVE R[i] = Effect(s, R[i - 1], r[i])
  <2>1. CASE i = n + 1
    <3>1. i - 1 = n /\ n \in 0..n
      BY <1>2, <2>1
    <3>2. R[i - 1] = y
      BY <1>1, <1>5, <3>1 DEF n
    <3> QED BY <1>3, <1>5, <2>1, <3>2 DEF z
  <2>2. CASE i # n + 1
    <3>1. i \in 0..n /\ i - 1 \in 0..n /\ i \in 1..n
      BY <1>2, <2>2
    <3> QED BY <1>1, <1>3, <1>5, <3>1 DEF n
  <2> QED BY <2>1, <2>2
<1> QED BY <1>3, <1>5, <1>6, <1>7 DEF Turns, r, z

(* One sequence after the other.                                           *)
LEMMA TurnsConcat ==
    ASSUME NEW S, NEW s, NEW a, NEW q \in Seq(S), NEW r \in Seq(S), NEW x, NEW y, NEW z,
           Turns(s, a, q, x, y), Turns(s, a, r, y, z)
    PROVE  Turns(s, a, q \o r, x, z)
<1>1. PICK P \in [0..Len(q) -> Copy] :
        /\ P[0] = x /\ P[Len(q)] = y /\ \A i \in 0..Len(q) : Sound(a, P[i])
        /\ \A i \in 1..Len(q) : P[i] = Effect(s, P[i - 1], q[i])
  BY DEF Turns
<1>2. PICK R \in [0..Len(r) -> Copy] :
        /\ R[0] = y /\ R[Len(r)] = z /\ \A i \in 0..Len(r) : Sound(a, R[i])
        /\ \A i \in 1..Len(r) : R[i] = Effect(s, R[i - 1], r[i])
  BY DEF Turns
<1> DEFINE n == Len(q)
           m == Len(r)
           t == q \o r
           W == [i \in 0..(n + m) |-> IF i <= n THEN P[i] ELSE R[i - n]]
<1>3. n \in Nat /\ m \in Nat
  BY LenProperties
<1>4. Len(t) = n + m /\ \A i \in 1..(n + m) : t[i] = IF i <= n THEN q[i] ELSE r[i - n]
  BY ConcatProperties
<1> HIDE DEF n, m, t
<1>5. \A i \in 0..(n + m) : i <= n => i \in 0..n
  BY <1>3
<1>6. \A i \in 0..(n + m) : ~(i <= n) => i - n \in 0..m /\ i - n \in 1..m /\ i - n - 1 \in 0..m
  BY <1>3
<1>7. W \in [0..(n + m) -> Copy]
  <2>1. P \in [0..n -> Copy] /\ R \in [0..m -> Copy]
    BY DEF n, m
  <2> QED BY <1>5, <1>6, <2>1
<1>8. \A i \in 0..(n + m) : W[i] = IF i <= n THEN P[i] ELSE R[i - n]
  OBVIOUS
<1> HIDE DEF W
<1>9. W[0] = x
  BY <1>1, <1>3, <1>8
<1>10. W[n + m] = z
  <2>1. CASE m = 0
    <3>1. n + m = n /\ n <= n /\ n \in 0..(n + m)
      BY <1>3, <2>1
    <3>2. W[n + m] = P[n]
      BY <1>8, <3>1
    <3>3. y = z
      BY <1>2, <2>1 DEF m
    <3> QED BY <1>1, <3>2, <3>3 DEF n
  <2>2. CASE m # 0
    <3>1. ~(n + m <= n) /\ n + m \in 0..(n + m) /\ n + m - n = m
      BY <1>3, <2>2
    <3>2. W[n + m] = R[m]
      BY <1>8, <3>1
    <3> QED BY <1>2, <3>2 DEF m
  <2> QED BY <2>1, <2>2
<1>11. ASSUME NEW i \in 0..(n + m) PROVE Sound(a, W[i])
  BY <1>1, <1>2, <1>5, <1>6, <1>8 DEF n, m
<1>12. ASSUME NEW i \in 1..(n + m) PROVE W[i] = Effect(s, W[i - 1], t[i])
  <2>1. i \in 0..(n + m) /\ i - 1 \in 0..(n + m)
    BY <1>3
  <2>2. CASE i <= n
    <3>1. i - 1 <= n /\ i \in 1..n
      BY <1>3, <2>2
    <3>2. W[i] = P[i] /\ W[i - 1] = P[i - 1] /\ t[i] = q[i]
      BY <1>4, <1>8, <2>1, <2>2, <3>1
    <3> QED BY <1>1, <3>1, <3>2 DEF n
  <2>3. CASE i = n + 1
    <3>1. ~(i <= n) /\ i - 1 <= n /\ i - 1 = n /\ i - n = 1 /\ 1 \in 1..m /\ 1 - 1 = 0
      BY <1>3, <2>3
    <3>2. W[i] = R[1] /\ W[i - 1] = P[n] /\ t[i] = r[1]
      BY <1>4, <1>8, <2>1, <3>1
    <3>3. R[1] = Effect(s, R[0], r[1])
      BY <1>2, <3>1 DEF m
    <3> QED BY <1>1, <1>2, <3>2, <3>3 DEF n
  <2>4. CASE ~(i <= n) /\ i # n + 1
    <3>1. ~(i - 1 <= n) /\ i - 1 - n = (i - n) - 1 /\ i - n \in 1..m
      BY <1>3, <2>4
    <3>2. W[i] = R[i - n] /\ W[i - 1] = R[(i - n) - 1] /\ t[i] = r[i - n]
      BY <1>4, <1>8, <2>1, <2>4, <3>1
    <3> QED BY <1>2, <3>1, <3>2 DEF m
  <2> QED BY <2>2, <2>3, <2>4
<1> QED BY <1>4, <1>7, <1>9, <1>10, <1>11, <1>12 DEF Turns, t

(* The first message is read.                                              *)
LEMMA TurnsTail ==
    ASSUME NEW S, NEW s, NEW a, NEW q \in Seq(S), q # <<>>, NEW x, NEW y,
           Turns(s, a, q, x, y)
    PROVE  /\ Turns(s, a, Tail(q), Effect(s, x, Head(q)), y)
           /\ Sound(a, Effect(s, x, Head(q)))
<1>1. PICK P \in [0..Len(q) -> Copy] :
        /\ P[0] = x /\ P[Len(q)] = y /\ \A i \in 0..Len(q) : Sound(a, P[i])
        /\ \A i \in 1..Len(q) : P[i] = Effect(s, P[i - 1], q[i])
  BY DEF Turns
<1> DEFINE n == Len(q)
           t == Tail(q)
           R == [i \in 0..(n - 1) |-> P[i + 1]]
<1>2. n \in Nat /\ n # 0
  BY LenProperties, EmptySeq
<1>3. Len(t) = n - 1 /\ (\A i \in 1..(n - 1) : t[i] = q[i + 1]) /\ Head(q) = q[1]
  BY HeadTailProperties
<1> HIDE DEF n, t
<1>4. \A i \in 0..(n - 1) : i + 1 \in 0..n
  BY <1>2
<1>5. R \in [0..(n - 1) -> Copy] /\ \A i \in 0..(n - 1) : R[i] = P[i + 1]
  <2>1. P \in [0..n -> Copy]
    BY DEF n
  <2> QED BY <1>4, <2>1
<1> HIDE DEF R
<1>6. 0 \in 0..(n - 1) /\ n - 1 \in 0..(n - 1) /\ 0 + 1 = 1 /\ (n - 1) + 1 = n /\ 1 \in 1..n
      /\ 1 - 1 = 0
  BY <1>2
<1>7. R[0] = P[1] /\ R[n - 1] = P[n]
  BY <1>5, <1>6
<1>8. P[1] = Effect(s, x, Head(q))
  BY <1>1, <1>3, <1>6 DEF n
<1>9. \A i \in 0..(n - 1) : Sound(a, R[i])
  BY <1>1, <1>4, <1>5 DEF n
<1>10. ASSUME NEW i \in 1..(n - 1) PROVE R[i] = Effect(s, R[i - 1], t[i])
  <2>1. /\ i \in 0..(n - 1) /\ i - 1 \in 0..(n - 1) /\ i + 1 \in 1..n
        /\ (i - 1) + 1 = i /\ (i + 1) - 1 = i
    BY <1>2
  <2>2. R[i] = P[i + 1] /\ R[i - 1] = P[i] /\ t[i] = q[i + 1]
    BY <1>3, <1>5, <2>1
  <2>3. P[i + 1] = Effect(s, P[(i + 1) - 1], q[i + 1])
    BY <1>1, <2>1 DEF n
  <2> QED BY <2>1, <2>2, <2>3
<1>11. Turns(s, a, t, R[0], R[n - 1])
  BY <1>3, <1>5, <1>9, <1>10 DEF Turns
<1>12. Sound(a, R[0])
  BY <1>6, <1>9
<1> QED BY <1>1, <1>7, <1>8, <1>11, <1>12 DEF n, t

(* As long as nothing is granted it does not matter what was acknowledged. *)
LEMMA TurnsAnew ==
    ASSUME NEW j, NEW s, NEW a, NEW b, NEW q \in Seq(Quiet(j)), NEW x, NEW y,
           Turns(s, a, q, x, y), NEW u \in Copy, u.v = x.v, ~u.g, Sound(b, u)
    PROVE  \E z \in Copy : z.v = y.v /\ ~z.g /\ Turns(s, b, q, u, z)
<1>1. PICK P \in [0..Len(q) -> Copy] :
        /\ P[0] = x /\ P[Len(q)] = y /\ \A i \in 0..Len(q) : Sound(a, P[i])
        /\ \A i \in 1..Len(q) : P[i] = Effect(s, P[i - 1], q[i])
  BY DEF Turns
<1> DEFINE n == Len(q)
           R == [i \in 0..n |-> [v |-> P[i].v, g |-> FALSE]]
<1>2. n \in Nat
  BY LenProperties
<1>3. P \in [0..n -> Copy]
  OBVIOUS
<1> HIDE DEF n
<1>4. \A i \in 0..n : R[i] = [v |-> P[i].v, g |-> FALSE]
  OBVIOUS
<1>5. \A i \in 0..n : R[i] \in Copy /\ R[i].v = P[i].v /\ ~R[i].g
  BY <1>3, <1>4 DEF Copy
<1>6. R \in [0..n -> Copy]
  BY <1>5
<1> HIDE DEF R
<1>7. 0 \in 0..n /\ n \in 0..n
  BY <1>2
<1>8. R[0] = u
  <2>1. u = [v |-> x.v, g |-> FALSE]
    BY DEF Copy
  <2> QED BY <1>1, <1>4, <1>7, <2>1
<1>9. ASSUME NEW i \in 1..n PROVE R[i] = Effect(s, R[i - 1], q[i])
  <2>1. i \in 0..n /\ i - 1 \in 0..n
    BY <1>2
  <2>2. q[i] \in Quiet(j)
    BY ElementOfSeq DEF n
  <2>3. q[i].k # "granted"
    BY <2>2 DEF Quiet
  <2>4. P[i] = Effect(s, P[i - 1], q[i])
    BY <1>1 DEF n
  <2>5. R[i - 1].v = P[i - 1].v /\ R[i - 1].g = FALSE
    <3>1. R[i - 1] = [v |-> P[i - 1].v, g |-> FALSE]
      BY <1>4, <2>1
    <3> QED BY <3>1
  <2>6. P[i].v = Effect(s, R[i - 1], q[i]).v
    BY <2>4, <2>5 DEF Effect
  <2>7. Effect(s, R[i - 1], q[i]) = [v |-> Effect(s, R[i - 1], q[i]).v, g |-> FALSE]
    BY <2>3, <2>5 DEF Effect
  <2> QED BY <1>4, <2>1, <2>6, <2>7
<1>10. \A i \in 0..n : Sound(b, R[i])
  BY <1>5 DEF Sound
<1>11. Turns(s, b, q, u, R[n])
  BY <1>6, <1>8, <1>9, <1>10 DEF Turns, n
<1> QED BY <1>1, <1>5, <1>7, <1>11 DEF n

-------------------------------------------------------------------------------
(* A migration brings the target what the source has.                      *)

Early == {"none", "connecting", "establish", "wait_snapshot"}

Answers  == Reply \ {"request_pause"}
NoEof(j) == {m \in MsgFor(j) : m.k # "eof"}

(* The child writes for j; what it will write.                             *)
Busy(T, j) ==
    /\ T.node[Src(j)].child # None
    /\ T.node[Src(j)].child.job = j /\ T.node[Src(j)].child.st = "writing"

Snapshot(T, j) ==
    IF Busy(T, j) THEN <<SnapMsg(T.node[Src(j)].child.v)>> ELSE <<>>

(* No key is sent before the snapshot or by a connection that is cut.      *)
(* While the child writes, b, the output waits, and the target has not     *)
(* seen the end of the snapshot.                                           *)
Staged(j, e, l, i, b) ==
    /\ e.st \in Early =>
          l.tot \in Seq(Plain) /\ e.out \in Seq(Plain) /\ l.tos \in Seq(Answers)
    /\ b => /\ e.st = "snapshotting" /\ ~e.pend
            /\ l.tot \in Seq(NoEof(j)) /\ l.tos \in Seq(Answers)
    /\ e.st \in ExportInProgress \ {"connecting", "granted"} => l.src
    /\ l.dst /\ i \notin ImportInProgress => l.tot \in Seq(Plain)
    /\ l.cut => l.tot \in Seq(Plain)
    /\ e.st \in Finished => e.out = <<>>

(* What is in the connection (p), in the child (c) and in the output (o)   *)
(* turns the copy x into one with the keys w, if the export is fed (f).    *)
Brings(s, a, p, c, o, x, f, w) ==
    \E y1, y2, y3 \in Copy :
        /\ Turns(s, a, p, x, y1) /\ Turns(s, a, c, y1, y2) /\ Turns(s, a, o, y2, y3)
        /\ f => y3.v = w

Start(T, j, s) == [v |-> T.node[Dst(j)].val[s], g |-> (T.imp[j] = "granted")]

Arriving(T, A, j, s) ==
    Brings(s, A[s], T.link[j].tot, Snapshot(T, j), T.exp[j].out, Start(T, j, s),
           Fed(T.exp[j]), T.node[Src(j)].val[s])

(* An import in progress fills slots the target does not own, from         *)
(* nothing, and has all the keys when the failover is granted.             *)
Copied(T, A, j) ==
    T.imp[j] \in ImportInProgress =>
        /\ \A s \in Slots(j) : T.node[Dst(j)].owner[s] # Dst(j)
        /\ T.exp[j].st \in Early => \A s \in Slots(j) : T.node[Dst(j)].val[s] = <<>>
        /\ T.imp[j] = "granted" =>
              \A s \in Slots(j) \ T.risk : T.node[Dst(j)].val[s] = A[s]
        /\ T.link[j].dst /\ ~T.link[j].cut =>
              \A s \in Slots(j) \ T.risk : Arriving(T, A, j, s)

JobData(T, A, j) ==
    Staged(j, T.exp[j], T.link[j], T.imp[j], Busy(T, j)) /\ Copied(T, A, j)

(* A node imports a slot once at a time.                                   *)
OneImport(T) ==
    \A i, j \in Job : /\ Dst(i) = Dst(j) /\ Slots(i) \cap Slots(j) # {}
                      /\ T.imp[i] \in Importing /\ T.imp[j] \in Importing
        => i = j

(* Who holds a slot has every write to it.                                 *)
Whole(T, A) ==
    \A n \in Node : \A s \in Slot \ T.risk : Holds(T, n, s) => T.node[n].val[s] = A[s]

Data(T, A) == OneImport(T) /\ Whole(T, A) /\ \A j \in Job : JobData(T, A, j)

DataInv ==
    WriterInv /\ Data(State, acked) /\ acked = [s \in Slot |-> acked[s]]

(* A step that moves no keys for j: its import goes on or ends, and so     *)
(* does its export.                                                        *)
GoesOn(T, U, j) ==
    /\ U.exp[j].st = T.exp[j].st /\ U.exp[j].out = T.exp[j].out
    /\ U.exp[j].pend = T.exp[j].pend /\ U.link[j].src = T.link[j].src
    /\ Busy(U, j) => Busy(T, j)
    /\ Snapshot(U, j) = Snapshot(T, j)
    /\ Fed(T.exp[j]) =>
          \A s \in Slots(j) \ U.risk : U.node[Src(j)].val[s] = T.node[Src(j)].val[s]

Ends(U, j) == U.exp[j].st \in Finished /\ U.exp[j].out = <<>> /\ ~Busy(U, j)

TameJob(T, U, j) ==
    /\ U.imp[j] \in Importing => T.imp[j] \in Importing
    /\ U.imp[j] \in ImportInProgress =>
          /\ U.imp[j] = T.imp[j]
          /\ \A s \in Slots(j) : /\ U.node[Dst(j)].val[s] = T.node[Dst(j)].val[s]
                                 /\ U.node[Dst(j)].owner[s] = Dst(j) =>
                                    T.node[Dst(j)].owner[s] = Dst(j)
    /\ U.link[j].dst => /\ T.link[j].dst
                        /\ T.imp[j] \in ImportInProgress => U.imp[j] \in ImportInProgress
    /\ U.link[j].dst /\ ~U.link[j].cut => ~T.link[j].cut /\ U.link[j].tot = T.link[j].tot
    /\ U.link[j].cut => T.link[j].cut
    /\ T.link[j].tot \in Seq(Plain) => U.link[j].tot \in Seq(Plain)
    /\ T.link[j].tot \in Seq(NoEof(j)) => U.link[j].tot \in Seq(NoEof(j))
    /\ T.link[j].tos \in Seq(Answers) => U.link[j].tos \in Seq(Answers)
    /\ GoesOn(T, U, j) \/ Ends(U, j)

Tame(T, U) ==
    /\ Calm(T, U)
    /\ \A n \in Node, s \in Slot :
        U.node[n].owner[s] = n => U.node[n].val[s] = T.node[n].val[s]
    /\ \A j \in Job : TameJob(T, U, j)

(* Tame steps of a job follow each other.                                  *)
LEMMA TameJobTransitive ==
    ASSUME NEW T, NEW U, NEW V, NEW j, TameJob(T, U, j), TameJob(U, V, j),
           U.risk \subseteq V.risk
    PROVE  TameJob(T, V, j)
<1>1. ASSUME GoesOn(T, U, j), GoesOn(U, V, j) PROVE GoesOn(T, V, j)
  BY <1>1 DEF GoesOn, Fed
<1>2. ASSUME Ends(U, j), GoesOn(U, V, j) PROVE Ends(V, j)
  BY <1>2 DEF GoesOn, Ends
<1>3. GoesOn(T, V, j) \/ Ends(V, j)
  BY <1>1, <1>2 DEF TameJob
<1>4. V.imp[j] \in ImportInProgress =>
        /\ V.imp[j] = T.imp[j]
        /\ \A s \in Slots(j) : /\ V.node[Dst(j)].val[s] = T.node[Dst(j)].val[s]
                               /\ V.node[Dst(j)].owner[s] = Dst(j) =>
                                  T.node[Dst(j)].owner[s] = Dst(j)
  BY DEF TameJob
<1>5. /\ V.imp[j] \in Importing => T.imp[j] \in Importing
      /\ V.link[j].dst => /\ T.link[j].dst
                          /\ T.imp[j] \in ImportInProgress => V.imp[j] \in ImportInProgress
      /\ V.link[j].dst /\ ~V.link[j].cut => ~T.link[j].cut /\ V.link[j].tot = T.link[j].tot
      /\ V.link[j].cut => T.link[j].cut
      /\ T.link[j].tot \in Seq(Plain) => V.link[j].tot \in Seq(Plain)
      /\ T.link[j].tot \in Seq(NoEof(j)) => V.link[j].tot \in Seq(NoEof(j))
      /\ T.link[j].tos \in Seq(Answers) => V.link[j].tos \in Seq(Answers)
  BY DEF TameJob
<1> QED BY <1>3, <1>4, <1>5 DEF TameJob

(* Tame steps follow each other.                                           *)
LEMMA TameTransitive ==
    ASSUME mode \in Modes, NEW T, NEW U, NEW V, Tame(T, U), Tame(U, V)
    PROVE  Tame(T, V)
<1>1. Calm(T, V)
  BY CalmTransitive DEF Tame
<1>2. ASSUME NEW n \in Node, NEW s \in Slot, V.node[n].owner[s] = n
      PROVE  V.node[n].val[s] = T.node[n].val[s]
  BY <1>2 DEF Tame, Calm
<1>3. ASSUME NEW j \in Job PROVE TameJob(T, V, j)
  <2>1. TameJob(T, U, j) /\ TameJob(U, V, j) /\ U.risk \subseteq V.risk
    BY DEF Tame, Calm
  <2> QED BY <2>1, TameJobTransitive
<1> QED BY <1>1, <1>2, <1>3 DEF Tame

(* A shorter way for the keys: what is not in the connection is dropped.   *)
LEMMA BringsLess ==
    ASSUME NEW S, NEW s, NEW a, NEW p \in Seq(S), NEW c, NEW o, NEW x, NEW f, NEW w,
           Brings(s, a, p, c, o, x, f, w)
    PROVE  \A u : Brings(s, a, p, <<>>, <<>>, x, FALSE, u)
<1>1. PICK y1 \in Copy : Turns(s, a, p, x, y1)
  BY DEF Brings
<1>2. Sound(a, y1)
  BY <1>1, TurnsEnds
<1>3. Turns(s, a, <<>>, y1, y1)
  BY <1>2, TurnsEmpty
<1> QED BY <1>1, <1>3 DEF Brings

(* A tame step of a job keeps what is known of it.                         *)
LEMMA TameJobData ==
    ASSUME NEW T, NEW U, NEW A, NEW j \in Job, TameJob(T, U, j), T.risk \subseteq U.risk,
           T.link[j] \in LinkType(j), JobData(T, A, j)
    PROVE  JobData(U, A, j)
<1>1. Staged(j, T.exp[j], T.link[j], T.imp[j], Busy(T, j)) /\ Copied(T, A, j)
  BY DEF JobData
<1>2. ASSUME Ends(U, j)
      PROVE  /\ U.exp[j].st \notin Early /\ U.exp[j].st \notin ExportInProgress
             /\ ~Fed(U.exp[j]) /\ Snapshot(U, j) = <<>>
  BY <1>2 DEF Ends, Finished, Early, ExportInProgress, Fed, Snapshot
<1>3. Staged(j, U.exp[j], U.link[j], U.imp[j], Busy(U, j))
  <2>1. /\ U.link[j].dst /\ U.imp[j] \notin ImportInProgress => U.link[j].tot \in Seq(Plain)
        /\ U.link[j].cut => U.link[j].tot \in Seq(Plain)
    BY <1>1 DEF Staged, TameJob
  <2>2. CASE GoesOn(T, U, j)
    BY <1>1, <2>1, <2>2 DEF Staged, TameJob, GoesOn
  <2>3. CASE Ends(U, j)
    BY <1>2, <2>1, <2>3 DEF Staged, Ends
  <2> QED BY <2>2, <2>3 DEF TameJob
<1>4. Copied(U, A, j)
  <2> SUFFICES ASSUME U.imp[j] \in ImportInProgress
               PROVE  /\ \A s \in Slots(j) : U.node[Dst(j)].owner[s] # Dst(j)
                      /\ U.exp[j].st \in Early =>
                            \A s \in Slots(j) : U.node[Dst(j)].val[s] = <<>>
                      /\ U.imp[j] = "granted" =>
                            \A s \in Slots(j) \ U.risk : U.node[Dst(j)].val[s] = A[s]
                      /\ U.link[j].dst /\ ~U.link[j].cut =>
                            \A s \in Slots(j) \ U.risk : Arriving(U, A, j, s)
    BY DEF Copied
  <2>1. /\ T.imp[j] = U.imp[j]
        /\ \A s \in Slots(j) : /\ U.node[Dst(j)].val[s] = T.node[Dst(j)].val[s]
                               /\ U.node[Dst(j)].owner[s] = Dst(j) =>
                                  T.node[Dst(j)].owner[s] = Dst(j)
    BY DEF TameJob
  <2>2. U.exp[j].st \in Early => T.exp[j].st \in Early
    BY <1>2 DEF TameJob, GoesOn
  <2>3. /\ \A s \in Slots(j) : T.node[Dst(j)].owner[s] # Dst(j)
        /\ T.exp[j].st \in Early => \A s \in Slots(j) : T.node[Dst(j)].val[s] = <<>>
        /\ T.imp[j] = "granted" =>
              \A s \in Slots(j) \ T.risk : T.node[Dst(j)].val[s] = A[s]
        /\ T.link[j].dst /\ ~T.link[j].cut =>
              \A s \in Slots(j) \ T.risk : Arriving(T, A, j, s)
    BY <1>1, <2>1 DEF Copied
  <2>4. ASSUME U.link[j].dst, ~U.link[j].cut, NEW s \in Slots(j), s \notin U.risk
        PROVE  Arriving(U, A, j, s)
    <3>1. T.link[j].dst /\ ~T.link[j].cut /\ U.link[j].tot = T.link[j].tot
      BY <2>4 DEF TameJob
    <3>2. Arriving(T, A, j, s)
      BY <2>3, <2>4, <3>1
    <3>3. Start(U, j, s) = Start(T, j, s)
      BY <2>1 DEF Start
    <3>4. CASE GoesOn(T, U, j)
      <4>1. /\ U.exp[j].out = T.exp[j].out /\ Snapshot(U, j) = Snapshot(T, j)
            /\ Fed(U.exp[j]) => Fed(T.exp[j]) /\ U.node[Src(j)].val[s] = T.node[Src(j)].val[s]
        BY <2>4, <3>4 DEF GoesOn, Fed
      <4> QED BY <3>1, <3>2, <3>3, <4>1 DEF Arriving, Brings
    <3>5. CASE Ends(U, j)
      <4>1. U.exp[j].out = <<>> /\ Snapshot(U, j) = <<>> /\ ~Fed(U.exp[j])
        BY <1>2, <3>5 DEF Ends
      <4>2. T.link[j].tot \in Seq(MsgFor(j))
        BY DEF LinkType
      <4>3. \A u : Brings(s, A[s], T.link[j].tot, <<>>, <<>>, Start(T, j, s), FALSE, u)
        BY <3>2, <4>2, BringsLess DEF Arriving
      <4>4. Brings(s, A[s], T.link[j].tot, <<>>, <<>>, Start(T, j, s), FALSE, U.node[Src(j)].val[s])
        BY <4>3
      <4> QED BY <3>1, <3>3, <4>1, <4>4 DEF Arriving, Brings
    <3> QED BY <3>4, <3>5 DEF TameJob
  <2> QED BY <2>1, <2>2, <2>3, <2>4
<1> QED BY <1>3, <1>4 DEF JobData

(* Who holds a slot after a calm step held it before.                      *)
LEMMA CalmHolds ==
    ASSUME NEW T, NEW U, Calm(T, U), NEW n \in Node, NEW s \in Slot, s \notin U.risk,
           Holds(U, n, s)
    PROVE  Holds(T, n, s)
<1>1. T.node[n].owner[s] = n /\ U.node[n].owner[s] = n
  BY DEF Calm, Holds
<1>2. ASSUME NEW j \in Exports(n), s \in Slots(j), T.exp[j].st = "granted" PROVE FALSE
  <2>1. j \in Job /\ Src(j) = n /\ U.exp[j].st # "granted"
    BY <1>2 DEF Exports, Holds, SlotFailoverGranted
  <2> QED BY <1>1, <1>2, <2>1 DEF Calm
<1> QED BY <1>1, <1>2 DEF Holds, SlotFailoverGranted

(* A tame step loses no keys and adds none.                                *)
LEMMA TameData ==
    ASSUME NEW T, NEW U, NEW A, Good(T), Tame(T, U), Data(T, A)
    PROVE  Data(U, A)
<1>1. T.risk \subseteq U.risk /\ Calm(T, U)
  BY DEF Tame, Calm
<1>2. OneImport(U)
  BY DEF OneImport, Data, Tame, TameJob
<1>3. ASSUME NEW n \in Node, NEW s \in Slot \ U.risk, Holds(U, n, s)
      PROVE  U.node[n].val[s] = A[s]
  <2>1. Holds(T, n, s)
    BY <1>1, <1>3, CalmHolds
  <2>2. T.node[n].val[s] = A[s]
    BY <1>1, <2>1 DEF Data, Whole
  <2> QED BY <1>3, <2>2 DEF Tame, Holds
<1>4. ASSUME NEW j \in Job PROVE JobData(U, A, j)
  <2>1. T.link[j] \in LinkType(j) /\ JobData(T, A, j) /\ TameJob(T, U, j)
    BY DEF Good, JobsOK, JobOK, Data, Tame
  <2> QED BY <1>1, <2>1, TameJobData
<1> QED BY <1>2, <1>3, <1>4 DEF Data, Whole

(* A step that applies U.                                                  *)
LEMMA DataApplied ==
    ASSUME NEW U, Data(U, acked'), Apply(U), mode' = mode
    PROVE  Data(State, acked)'
<1>1. /\ State'.node = U.node /\ State'.exp = U.exp /\ State'.imp = U.imp
      /\ State'.link = U.link /\ State'.risk = U.risk
  BY DEF State, Apply
<1>2. /\ \A j : Src(j)' = Src(j) /\ Dst(j)' = Dst(j) /\ Slots(j)' = Slots(j)
      /\ \A n : Exports(n)' = Exports(n)
  BY DEF Src, Dst, Slots, Exports
<1>3. OneImport(State)'
  BY <1>1, <1>2 DEF Data, OneImport
<1>4. \A n, s : Holds(State, n, s)' <=> Holds(U, n, s)
  BY <1>1, <1>2 DEF Holds, SlotFailoverGranted
<1>5. Whole(State, acked)'
  BY <1>1, <1>4 DEF Data, Whole
<1>6. ASSUME NEW j \in Job PROVE JobData(State, acked, j)'
  <2>1. (Busy(State, j)' <=> Busy(U, j)) /\ Snapshot(State, j)' = Snapshot(U, j)
    BY <1>1, <1>2 DEF Busy, Snapshot
  <2>2. NoEof(j)' = NoEof(j)
    BY <1>2 DEF NoEof, MsgFor, Values
  <2>3. JobData(U, acked', j)
    BY DEF Data
  <2>4. Staged(j, U.exp[j], U.link[j], U.imp[j], Busy(U, j))
    BY <2>3 DEF JobData
  <2>5. Staged(j, State.exp[j], State.link[j], State.imp[j], Busy(State, j))'
    BY <1>1, <2>1, <2>2, <2>4 DEF Staged
  <2>6. \A s : Arriving(State, acked, j, s)' <=> Arriving(U, acked', j, s)
    BY <1>1, <1>2, <2>1 DEF Arriving, Start
  <2>7. Copied(State, acked, j)'
    BY <1>1, <1>2, <2>3, <2>6 DEF JobData, Copied
  <2> QED BY <2>5, <2>7 DEF JobData
<1> QED BY <1>3, <1>5, <1>6 DEF Data

(* A tame step that applies U.                                             *)
LEMMA TameApplied ==
    ASSUME DataInv, NEW U, Tame(State, U), Apply(U), mode' = mode, acked' = acked
    PROVE  Data(State, acked)'
<1>1. Good(State) /\ Data(State, acked)
  BY WriterFacts DEF DataInv
<1>2. Data(U, acked)
  BY <1>1, TameData
<1> QED BY <1>2, DataApplied

-------------------------------------------------------------------------------
(* The end of jobs moves no keys.                                          *)

(* A killed child writes nothing; the child of another job writes on.      *)
LEMMA KilledBusy ==
    ASSUME NEW T, NEW U, Good(T), NEW n \in Node, NEW J,
           U.node[n].child = KillChild(T.node[n].child, J),
           \A m \in Node \ {n} : U.node[m].child = T.node[m].child, NEW j \in Job
    PROVE  /\ Src(j) = n /\ j \in J => ~Busy(U, j)
           /\ ~(Src(j) = n /\ j \in J) =>
                (Busy(U, j) => Busy(T, j)) /\ Snapshot(U, j) = Snapshot(T, j)
<1>1. Src(j) \in Node /\ ChildOK(n, T.node[n].child)
  BY ModeFacts DEF Good, NodesOK, NodeOK
<1>2. U.node[n].child # None /\ U.node[n].child.st = "writing" =>
        U.node[n].child = T.node[n].child /\ T.node[n].child.job \notin J
  BY <1>1, KilledOK
<1>3. CASE Src(j) = n /\ j \in J
  BY <1>2, <1>3 DEF Busy
<1>4. CASE Src(j) = n /\ j \notin J
  <2>1. Busy(U, j) => U.node[n].child = T.node[n].child
    BY <1>2, <1>4 DEF Busy
  <2>2. Busy(T, j) => U.node[n].child = T.node[n].child
    BY <1>4 DEF Busy, KillChild
  <2> QED BY <1>4, <2>1, <2>2 DEF Busy, Snapshot
<1>5. CASE Src(j) # n
  <2>1. U.node[Src(j)].child = T.node[Src(j)].child
    BY <1>1, <1>5
  <2> QED BY <1>5, <2>1 DEF Busy, Snapshot
<1> QED BY <1>3, <1>4, <1>5

(* A job that a step leaves alone.                                         *)
LEMMA UntouchedTame ==
    ASSUME mode \in Modes, NEW T, NEW U, NEW j \in Job,
           U.exp[j] = T.exp[j], U.link[j] = T.link[j], U.imp[j] = T.imp[j],
           Busy(U, j) => Busy(T, j), Snapshot(U, j) = Snapshot(T, j),
           \A s \in Slots(j) :
              /\ U.imp[j] \in ImportInProgress =>
                    /\ U.node[Dst(j)].val[s] = T.node[Dst(j)].val[s]
                    /\ U.node[Dst(j)].owner[s] = Dst(j) => T.node[Dst(j)].owner[s] = Dst(j)
              /\ Fed(T.exp[j]) => s \in U.risk \/ U.node[Src(j)].val[s] = T.node[Src(j)].val[s]
    PROVE  TameJob(T, U, j)
<1>1. GoesOn(T, U, j)
  BY DEF GoesOn
<1> QED BY <1>1 DEF TameJob

(* finishSlotMigrationJob for exports.                                     *)
LEMMA FinishExportsTame ==
    ASSUME NEW T, Good(T), NEW n \in Node, NEW J, J \subseteq Exports(n),
           NEW st \in Finished, NEW U, U = FinishExports(T, n, J, st),
           st = "success" => \A j \in J : \A s \in Slots(j) : T.node[n].owner[s] # n
    PROVE  Tame(T, U)
<1> DEFINE e == [NoExport EXCEPT !.st = st]
           E == [j \in Job |-> IF j \in J THEN e ELSE T.exp[j]]
           L == [j \in Job |-> IF j \in J THEN CloseSource(T.link[j]) ELSE T.link[j]]
           R == T.risk \cup UNION {Slots(j) : j \in
                    {i \in J : T.exp[i].st = "granted" /\ st # "success"}}
           c == KillChild(T.node[n].child, J)
           A == [T EXCEPT !.exp = E, !.link = L, !.risk = R, !.node[n].child = c]
<1>1. U = SlotExportTryUnpause(A, n)
  BY Zenon DEF FinishExports
<1>2. J \subseteq Job /\ mode \in Modes /\ \A j \in J : Src(j) = n
  BY DEF Exports, Good
<1>3. e.st = st /\ e.out = <<>>
  BY DEF NoExport
<1> HIDE DEF e, R, c
<1>5. A.exp = E /\ A.link = L /\ A.imp = T.imp /\ A.node = [T.node EXCEPT ![n].child = c]
  <2> HIDE DEF E, L
  <2> QED BY DEF Good, IsState
<1>6. /\ U.exp = A.exp /\ U.link = A.link /\ U.imp = A.imp
      /\ U.node = A.node \/ U.node = [A.node EXCEPT ![n].paused = FALSE]
  <2>1. IsState(T)
    BY DEF Good
  <2> HIDE DEF E, L
  <2> QED BY <1>1, <2>1 DEF SlotExportTryUnpause, IsState
<1>7. /\ \A j \in J : U.exp[j] = e /\ U.link[j] = CloseSource(T.link[j])
      /\ \A j \in Job \ J : U.exp[j] = T.exp[j] /\ U.link[j] = T.link[j]
      /\ U.imp = T.imp
  BY <1>2, <1>5, <1>6
<1>8. U.node[n].child = c /\ \A m \in Node \ {n} : U.node[m].child = T.node[m].child
  <2>1. IsState(T) /\ NodeOK(n, T.node[n])
    BY DEF Good, NodesOK
  <2>2. A.node[n].child = c /\ \A m \in Node \ {n} : A.node[m] = T.node[m]
    BY <1>5, <2>1 DEF IsState, NodeOK
  <2>3. A.node = [m \in Node |-> A.node[m]] /\ A.node[n] = [T.node[n] EXCEPT !.child = c]
    BY <1>5, <2>1 DEF IsState
  <2>4. [A.node[n] EXCEPT !.paused = FALSE].child = c
    BY <2>1, <2>3 DEF NodeOK
  <2> HIDE DEF A
  <2> QED BY <1>6, <2>2, <2>3, <2>4
<1> HIDE DEF A, E, L
<1>9. \A m \in Node : U.node[m].owner = T.node[m].owner /\ U.node[m].val = T.node[m].val
  <2>1. KeepsKeys(T, U)
    BY FinishExportsOK
  <2> QED BY <2>1 DEF KeepsKeys
<1>10. ASSUME NEW j \in Job PROVE TameJob(T, U, j)
  <2>1. /\ Src(j) \in Node /\ Dst(j) \in Node
        /\ Src(j) = n /\ j \in J => ~Busy(U, j)
        /\ ~(Src(j) = n /\ j \in J) =>
            (Busy(U, j) => Busy(T, j)) /\ Snapshot(U, j) = Snapshot(T, j)
    BY <1>2, <1>8, ModeFacts, KilledBusy DEF c
  <2>2. CASE j \in J
    <3>1. Ends(U, j)
      BY <1>2, <1>3, <1>7, <2>1, <2>2 DEF Ends
    <3>2. T.link[j] \in LinkType(j) /\ <<>> \in Seq(Answers)
      BY DEF Good, JobsOK, JobOK
    <3>3. /\ U.link[j].dst = T.link[j].dst /\ U.link[j].tot = T.link[j].tot
          /\ U.link[j].tos = <<>>
      BY <1>7, <2>2, <3>2, CloseSourceOK
    <3>4. U.link[j].cut = T.link[j].cut
      BY <1>7, <2>2, <3>2 DEF CloseSource, LinkType
    <3> QED BY <1>7, <1>9, <2>1, <3>1, <3>2, <3>3, <3>4 DEF TameJob
  <2>3. CASE j \notin J
    BY <1>2, <1>7, <1>9, <2>1, <2>3, UntouchedTame
  <2> QED BY <2>2, <2>3
<1>11. Calm(T, U)
  BY FinishExportsCalm
<1> QED BY <1>9, <1>10, <1>11 DEF Tame

(* The target's end is closed, and the import ends.                        *)
LEMMA CloseTargetTame ==
    ASSUME NEW j, NEW l \in LinkType(j)
    PROVE  /\ ~CloseTarget(l).dst /\ CloseTarget(l).src = l.src
           /\ CloseTarget(l).tot = <<>> /\ CloseTarget(l).tos = l.tos
           /\ CloseTarget(l).cut = l.cut
  BY DEF CloseTarget, LinkType

(* finishSlotMigrationJob for imports.                                     *)
LEMMA FailImportsTame ==
    ASSUME NEW T, Good(T), NEW I, I \subseteq Job, NEW U, U = FailImports(T, I),
           \A j \in I : T.imp[j] \in Importing
    PROVE  Tame(T, U)
<1> DEFINE M == [j \in Job |-> IF j \in I THEN "cleaning" ELSE T.imp[j]]
           L == [j \in Job |-> IF j \in I THEN CloseTarget(T.link[j]) ELSE T.link[j]]
<1>1. U = [T EXCEPT !.imp = M, !.link = L]
  BY DEF FailImports
<1>2. U.node = T.node /\ U.exp = T.exp /\ U.risk = T.risk /\ U.imp = M /\ U.link = L
  BY <1>1 DEF Good, IsState
<1>3. /\ \A j \in I : U.imp[j] = "cleaning" /\ U.link[j] = CloseTarget(T.link[j])
      /\ \A j \in Job \ I : U.imp[j] = T.imp[j] /\ U.link[j] = T.link[j]
  BY <1>2
<1> HIDE DEF M, L
<1>4. ASSUME NEW j \in Job PROVE TameJob(T, U, j)
  <2>1. (Busy(U, j) <=> Busy(T, j)) /\ Snapshot(U, j) = Snapshot(T, j) /\ mode \in Modes
    BY <1>2 DEF Busy, Snapshot, Good
  <2>2. CASE j \in I
    <3>1. T.link[j] \in LinkType(j) /\ <<>> \in Seq(Plain) /\ <<>> \in Seq(NoEof(j))
      BY DEF Good, JobsOK, JobOK
    <3>2. /\ ~U.link[j].dst /\ U.link[j].src = T.link[j].src
          /\ U.link[j].tot = <<>> /\ U.link[j].tos = T.link[j].tos
          /\ U.link[j].cut = T.link[j].cut
      BY <1>3, <2>2, <3>1, CloseTargetTame
    <3>3. GoesOn(T, U, j)
      BY <1>2, <2>1, <3>2 DEF GoesOn
    <3>4. U.imp[j] \notin ImportInProgress
      BY <1>3, <2>2 DEF ImportInProgress
    <3> QED BY <2>2, <3>1, <3>2, <3>3, <3>4 DEF TameJob
  <2>3. CASE j \notin I
    BY <1>2, <1>3, <2>1, <2>3, UntouchedTame
  <2> QED BY <2>2, <2>3
<1>5. Calm(T, U)
  BY FailImportsCalm
<1> QED BY <1>2, <1>4, <1>5 DEF Tame

(* No job has a part in what changes.                                      *)
LEMMA TameNodes ==
    ASSUME NEW T, NEW U, mode \in Modes,
           U.exp = T.exp, U.link = T.link, U.imp = T.imp, T.risk \subseteq U.risk,
           \A n \in Node : /\ U.node[n].owner = T.node[n].owner
                           /\ U.node[n].val = T.node[n].val
                           /\ U.node[n].child = T.node[n].child
    PROVE  Tame(T, U)
<1>1. Calm(T, U)
  BY CalmNodes
<1>2. ASSUME NEW j \in Job PROVE TameJob(T, U, j)
  <2>1. Src(j) \in Node /\ Dst(j) \in Node
    BY ModeFacts
  <2>2. (Busy(U, j) <=> Busy(T, j)) /\ Snapshot(U, j) = Snapshot(T, j)
    BY <2>1 DEF Busy, Snapshot
  <2> QED BY <2>1, <2>2, UntouchedTame
<1> QED BY <1>1, <1>2 DEF Tame

(* The process of n dies.                                                  *)
LEMMA DiedTame ==
    ASSUME NEW T, Good(T), NEW n \in Node, NEW U, U = Died(T, n),
           \A j \in Job : T.exp[j].st \in Finished => T.exp[j].out = <<>>,
           \A j \in Exports(n) : Busy(T, j) => T.exp[j].st \in ExportInProgress
    PROVE  Tame(T, U)
<1> DEFINE lost == {j \in Exports(n) : T.exp[j].st \in ExportInProgress}
           left == {j \in Imports(n) : T.imp[j] \in ImportInProgress}
           F == FinishExports(T, n, lost, "gone")
           A == FailImports(F, left)
           L == [j \in Job |-> IF j \in Imports(n) THEN CloseTarget(A.link[j]) ELSE A.link[j]]
           d == DelKeysNotOwned(A.node[n], n, Slot)
           nd == [d EXCEPT !.paused = FALSE, !.child = None, !.pipe = FALSE]
<1>1. U = [A EXCEPT !.node[n] = nd, !.link = L]
  BY Zenon DEF Died
<1>2. lost \subseteq Exports(n) /\ left \subseteq Job /\ "gone" \in Finished /\ "gone" # "success"
  BY DEF Imports, Finished
<1>3. Good(F) /\ Tame(T, F) /\ F.imp = T.imp /\ EndsJobs(T, F, lost, "gone")
  <2> HIDE DEF lost, left
  <2>1. Good(F) /\ F.imp = T.imp /\ EndsJobs(T, F, lost, "gone")
    BY <1>2, FinishExportsOK
  <2>2. Tame(T, F)
    BY <1>2, FinishExportsTame
  <2> QED BY <2>1, <2>2
<1> HIDE DEF F
<1>4. Good(A) /\ Tame(F, A) /\ A.exp = F.exp
  <2>1. \A j \in left : F.imp[j] \in Importing
    BY <1>3 DEF Importing
  <2> HIDE DEF left
  <2> QED BY <1>2, <1>3, <2>1, FailImportsOK, FailImportsTame
<1>5. \A j \in Imports(n) : A.imp[j] \notin ImportInProgress
  <2>1. A.imp = [j \in Job |-> IF j \in left THEN "cleaning" ELSE F.imp[j]]
    <3>1. IsState(F)
      BY <1>3 DEF Good
    <3> HIDE DEF left
    <3> QED BY <3>1 DEF FailImports, IsState
  <2> QED BY <1>3, <2>1 DEF Imports, ImportInProgress
<1>6. \A j \in Exports(n) : A.exp[j].st \notin ExportInProgress
  <2>1. \A j \in Exports(n) : j \in Job
    BY DEF Exports
  <2> QED BY <1>3, <1>4, <2>1 DEF EndsJobs, Finished, ExportInProgress
<1>7. Tame(T, A) /\ mode \in Modes
  <2>1. mode \in Modes
    BY DEF Good
  <2> QED BY <1>3, <1>4, <2>1, TameTransitive
<1> HIDE DEF A, lost, left
<1>8. NodeOK(n, A.node[n]) /\ IsState(A)
  BY <1>4 DEF Good, NodesOK
<1>9. /\ NodeOK(n, d) /\ d.owner = A.node[n].owner
      /\ \A s \in Slot : A.node[n].owner[s] = n => d.val[s] = A.node[n].val[s]
  <2>1. d = DelKeysNotOwned(A.node[n], n, Slot)
    OBVIOUS
  <2> HIDE DEF d
  <2> QED BY <1>8, <2>1, DelKeysOK
<1> HIDE DEF d
<1>10. nd.owner = A.node[n].owner /\ nd.child = None /\ nd.val = d.val
  BY <1>9 DEF NodeOK
<1> HIDE DEF nd
<1>11. /\ U.exp = A.exp /\ U.imp = A.imp /\ U.risk = A.risk /\ U.link = L
       /\ U.node = [A.node EXCEPT ![n] = nd]
  <2> HIDE DEF L
  <2> QED BY <1>1, <1>8 DEF IsState
<1>12. /\ \A m \in Node \ {n} : U.node[m] = A.node[m]
       /\ U.node[n] = nd
       /\ \A j \in Job : U.link[j] = IF j \in Imports(n) THEN CloseTarget(A.link[j]) ELSE A.link[j]
  BY <1>8, <1>11 DEF IsState
<1> HIDE DEF L
<1>13. \A m \in Node, s \in Slot : U.node[m].owner[s] = m => U.node[m].val[s] = A.node[m].val[s]
  BY <1>9, <1>10, <1>12
<1>15. ASSUME NEW j \in Job PROVE TameJob(A, U, j)
  <2>1. /\ Src(j) \in Node /\ Dst(j) \in Node /\ Src(j) # Dst(j)
        /\ A.link[j] \in LinkType(j) /\ A.imp[j] \in ImportType
    BY <1>4, <1>7, ModeFacts, TargetAssumption DEF Src, Dst, Good, JobsOK, JobOK
  <2>2. /\ ~CloseTarget(A.link[j]).dst /\ CloseTarget(A.link[j]).src = A.link[j].src
        /\ CloseTarget(A.link[j]).tot = <<>> /\ CloseTarget(A.link[j]).tos = A.link[j].tos
        /\ CloseTarget(A.link[j]).cut = A.link[j].cut
    BY <2>1, CloseTargetTame
  <2>3. <<>> \in Seq(Plain) /\ <<>> \in Seq(NoEof(j))
    OBVIOUS
  <2>4. /\ U.link[j].src = A.link[j].src /\ U.link[j].tos = A.link[j].tos
        /\ U.link[j].cut = A.link[j].cut
        /\ U.link[j].dst => Dst(j) # n /\ U.link[j] = A.link[j]
        /\ U.link[j].tot = A.link[j].tot \/ U.link[j].tot = <<>>
    BY <1>12, <2>2 DEF Imports
  <2>5. U.imp[j] \in ImportInProgress => Dst(j) # n
    BY <1>5, <1>11 DEF Imports
  <2>6. GoesOn(A, U, j) \/ Ends(U, j)
    <3>1. CASE Src(j) = n
      <4>1. ~Busy(U, j) /\ ~Fed(A.exp[j]) /\ A.exp[j].st \notin ExportInProgress
        BY <1>6, <1>10, <1>12, <3>1 DEF Busy, Exports, Fed, ExportInProgress
      <4>2. CASE A.exp[j].st \in Finished
        <5>1. TameJob(T, A, j) /\ (T.exp[j].st \in Finished => T.exp[j].out = <<>>)
          BY <1>7 DEF Tame
        <5>2. A.exp[j].out = <<>>
          BY <4>2, <5>1 DEF TameJob, GoesOn, Ends
        <5> QED BY <1>11, <4>1, <4>2, <5>2 DEF Ends
      <4>3. CASE A.exp[j].st \notin Finished
        <5>1. GoesOn(T, A, j)
          BY <1>7, <4>3 DEF Tame, TameJob, Ends
        <5>2. ~Busy(T, j)
          BY <3>1, <4>1, <5>1 DEF GoesOn, Exports
        <5>3. ~Busy(A, j)
          BY <5>1, <5>2 DEF GoesOn
        <5> QED BY <1>11, <2>4, <4>1, <5>3 DEF GoesOn, Snapshot
      <4> QED BY <4>2, <4>3
    <3>2. CASE Src(j) # n
      <4>1. U.node[Src(j)] = A.node[Src(j)]
        BY <1>12, <2>1, <3>2
      <4>2. (Busy(U, j) <=> Busy(A, j)) /\ Snapshot(U, j) = Snapshot(A, j)
        BY <4>1 DEF Busy, Snapshot
      <4> QED BY <1>11, <2>4, <4>1, <4>2 DEF GoesOn
    <3> QED BY <3>1, <3>2
  <2>7. U.imp[j] \in ImportInProgress => U.node[Dst(j)] = A.node[Dst(j)]
    BY <1>12, <2>1, <2>5
  <2> QED BY <1>11, <2>3, <2>4, <2>6, <2>7 DEF TameJob
<1>16. Calm(A, U)
  <2>1. \A m \in Node : U.node[m].owner = A.node[m].owner
    BY <1>10, <1>12
  <2>2. ASSUME NEW j \in Job PROVE Token(U, j) => Token(A, j)
    <3>1. A.link[j] \in LinkType(j)
      BY <1>4 DEF Good, JobsOK, JobOK
    <3>2. U.link[j] = A.link[j] \/ U.link[j] = CloseTarget(A.link[j])
      BY <1>12
    <3>3. HasToken(j, A.exp[j], CloseTarget(A.link[j]), A.imp[j]) => A.imp[j] = "granted"
      BY <3>1, CloseCalm
    <3> QED BY <1>11, <3>2, <3>3 DEF Token, HasToken
  <2>3. \A j \in Job : U.node[Src(j)].owner = A.node[Src(j)].owner
    BY <1>7, <2>1, ModeFacts
  <2> QED BY <1>11, <2>1, <2>2, <2>3 DEF Calm
<1>17. Tame(A, U)
  BY <1>13, <1>15, <1>16 DEF Tame
<1> QED BY <1>7, <1>17, TameTransitive

-------------------------------------------------------------------------------
(* Gossip about the slots.                                                 *)

(* Nothing changes for a job.                                              *)
LEMMA TameJobReflexive ==
    ASSUME NEW T, NEW j
    PROVE  TameJob(T, T, j)
  BY DEF TameJob, GoesOn

(* The exports of a node whose slots have a new owner end.                 *)
LEMMA UpdateSlotExportsTame ==
    ASSUME NEW T, Good(T), NEW n \in Node, NEW U, U = UpdateSlotExports(T, n), NEW j \in Job
    PROVE  TameJob(T, U, j)
<1> DEFINE J    == {k \in Exports(n) : T.exp[k].st \in ExportInProgress}
           done == {k \in J : OwnerOf(T, n, k) = Dst(k)}
           lost == {k \in J \ done : OwnerOf(T, n, k) # n}
           A    == FinishExports(T, n, done, "success")
<1>1. U = FinishExports(A, n, lost, "failed")
  BY Zenon DEF UpdateSlotExports
<1>2. /\ done \subseteq Exports(n) /\ lost \subseteq Exports(n)
      /\ "success" \in Finished /\ "failed" \in Finished /\ "failed" # "success"
      /\ mode \in Modes
  BY DEF Finished, Good
<1>3. \A k \in done : \A s \in Slots(k) : T.node[n].owner[s] # n
  <2> SUFFICES ASSUME NEW k \in done, NEW s \in Slots(k) PROVE T.node[n].owner[s] # n
    OBVIOUS
  <2>1. k \in Job /\ Src(k) = n /\ OwnerOf(T, n, k) = Dst(k)
    BY DEF Exports
  <2>2. Dst(k) \in Node /\ Dst(k) # n
    BY <1>2, <2>1, ModeFacts, TargetAssumption DEF Src, Dst
  <2> QED BY <2>1, <2>2, OwnerOfAll
<1> HIDE DEF done, lost
<1>4. Good(A) /\ Tame(T, A)
  <2>1. Good(A)
    BY <1>2, FinishExportsOK
  <2>2. Tame(T, A)
    BY <1>2, <1>3, FinishExportsTame
  <2> QED BY <2>1, <2>2
<1> HIDE DEF A
<1>5. Tame(A, U)
  BY <1>1, <1>2, <1>4, FinishExportsTame
<1>6. Tame(T, U)
  BY <1>2, <1>4, <1>5, TameTransitive
<1> QED BY <1>6 DEF Tame

(* An import in progress is for slots that the target does not own.        *)
Foreign(T) ==
    \A j \in Job : T.imp[j] \in ImportInProgress =>
        \A s \in Slots(j) : T.node[Dst(j)].owner[s] # Dst(j)

(* clusterUpdateSlotsConfigWith deletes keys only of slots that were       *)
(* given up, whose exports have ended.                                     *)
LEMMA UpdateSlotsConfigTame ==
    ASSUME NEW T, Good(T), Home(T), Foreign(T), NEW n \in Node, NEW m \in Node, m # n,
           NEW p, NEW U, U = UpdateSlotsConfig(T, n, m, p)
    PROVE  Tame(T, U)
<1> DEFINE R == Rebinds(T, n, m, p)
           dirty == {s \in R : T.node[n].owner[s] = n}
           O == [s \in Slot |-> IF s \in R THEN m ELSE T.node[n].owner[s]]
           A == [T EXCEPT !.node[n].owner = O]
           B == IF \E s \in R : IsSlotExporting(T, n, s)
                THEN UpdateSlotExports(A, n) ELSE A
           C == IF \E s \in R : IsSlotImporting(T, n, s)
                THEN UpdateSlotImports(B, n) ELSE B
           nd == [T.node[n] EXCEPT !.owner = O]
           md == DelKeysNotOwned(C.node[n], n, dirty)
<1>1. U = [C EXCEPT !.node[n] = md]
  BY Zenon DEF UpdateSlotsConfig
<1>2. NodeOK(n, T.node[n]) /\ IsState(T) /\ mode \in Modes
  BY DEF Good, NodesOK
<1>3. /\ O \in [Slot -> Node]
      /\ \A s \in Slot : O[s] = n => T.node[n].owner[s] = n
      /\ \A s \in dirty : T.node[n].owner[s] = n
  BY <1>2 DEF NodeOK
<1> HIDE DEF O, dirty
<1>4. WithNode(T, A, n, nd)
  BY <1>2 DEF WithNode, IsRecord, IsState
<1>5. /\ NodeOK(n, nd) /\ nd.owner = O /\ nd.val = T.node[n].val
      /\ nd.child = T.node[n].child
  BY <1>2, <1>3 DEF NodeOK
<1>6. nd.paused = T.node[n].paused
  BY <1>2 DEF NodeOK
<1> HIDE DEF A, nd, R
<1>7. PauseKept(T, n, nd)
  BY <1>6 DEF PauseKept
<1>8. ChildFed(T, nd)
  BY <1>5 DEF ChildFed, Good, ChildRuns
<1>9. /\ Good(A) /\ A.exp = T.exp /\ A.imp = T.imp /\ A.link = T.link /\ A.risk = T.risk
      /\ A.node[n] = nd /\ \A k \in Node \ {n} : A.node[k] = T.node[k]
  BY <1>4, <1>5, <1>7, <1>8, NodeChanges
<1>10. ASSUME NEW j \in Job PROVE TameJob(T, A, j)
  <2>1. Src(j) \in Node /\ Dst(j) \in Node /\ Slots(j) \subseteq Slot
    BY <1>2, ModeFacts
  <2>2. \A k \in Node : /\ A.node[k].val = T.node[k].val /\ A.node[k].child = T.node[k].child
                         /\ \A s \in Slot : A.node[k].owner[s] = k => T.node[k].owner[s] = k
    BY <1>3, <1>5, <1>9
  <2>3. (Busy(A, j) <=> Busy(T, j)) /\ Snapshot(A, j) = Snapshot(T, j)
    BY <2>1, <2>2 DEF Busy, Snapshot
  <2> QED BY <1>2, <1>9, <2>1, <2>2, <2>3, UntouchedTame
<1>11. /\ Good(B) /\ A.risk \subseteq B.risk /\ (\A j \in Job : TameJob(A, B, j))
       /\ \A k \in Node : B.node[k].owner = A.node[k].owner /\ B.node[k].val = A.node[k].val
  <2>1. CASE \E s \in R : IsSlotExporting(T, n, s)
    <3> DEFINE V == UpdateSlotExports(A, n)
    <3>1. Good(V) /\ Calm(A, V) /\ KeepsKeys(A, V)
      BY <1>9, UpdateSlotExportsCalm
    <3>2. \A j \in Job : TameJob(A, V, j)
      BY <1>9, UpdateSlotExportsTame
    <3>3. B = V
      BY <2>1
    <3> HIDE DEF V, B
    <3> QED BY <3>1, <3>2, <3>3 DEF KeepsKeys, Calm
  <2>2. CASE ~\E s \in R : IsSlotExporting(T, n, s)
    <3>1. B = A
      BY <2>2
    <3> HIDE DEF B
    <3> QED BY <1>9, <3>1, TameJobReflexive
  <2> QED BY <2>1, <2>2
<1> HIDE DEF B
<1>12. /\ Good(C) /\ C.risk = B.risk /\ C.node = B.node /\ \A j \in Job : TameJob(B, C, j)
  <2>1. CASE \E s \in R : IsSlotImporting(T, n, s)
    <3> DEFINE I == {j \in Imports(n) : /\ B.imp[j] \in ImportInProgress
                                        /\ OwnerOf(B, n, j) # Src(j)}
    <3>1. C = FailImports(B, I) /\ I \subseteq Job /\ \A j \in I : B.imp[j] \in Importing
      BY <2>1 DEF UpdateSlotImports, Imports, Importing
    <3> HIDE DEF I, C
    <3>2. Good(C) /\ C.risk = B.risk /\ C.node = B.node
      BY <1>11, <3>1, FailImportsOK
    <3>3. Tame(B, C)
      BY <1>11, <3>1, FailImportsTame
    <3> QED BY <3>2, <3>3 DEF Tame
  <2>2. CASE ~\E s \in R : IsSlotImporting(T, n, s)
    <3>1. C = B
      BY <2>2
    <3> HIDE DEF C
    <3> QED BY <1>11, <3>1, TameJobReflexive
  <2> QED BY <2>1, <2>2
<1> HIDE DEF C
<1>13. NodeOK(n, C.node[n]) /\ IsState(C)
  BY <1>12 DEF Good, NodesOK
<1>14. /\ md.owner = C.node[n].owner /\ md.child = C.node[n].child
       /\ \A s \in Slot : ~(s \in dirty /\ C.node[n].owner[s] # n) => md.val[s] = C.node[n].val[s]
  <2>1. md = DelKeysNotOwned(C.node[n], n, dirty)
    OBVIOUS
  <2> HIDE DEF md
  <2> QED BY <1>13, <2>1, DelKeysOK
<1> HIDE DEF md
<1>15. /\ U.exp = C.exp /\ U.imp = C.imp /\ U.link = C.link /\ U.risk = C.risk
       /\ U.node[n] = md /\ \A k \in Node \ {n} : U.node[k] = C.node[k]
  BY <1>1, <1>13 DEF IsState
<1>16. Calm(T, U)
  BY UpdateSlotsConfigCalm
<1>17. \A k \in Node, s \in Slot :
         ~(k = n /\ s \in dirty /\ U.node[k].owner[s] # k) => U.node[k].val[s] = C.node[k].val[s]
  BY <1>14, <1>15
<1>18. \A k \in Node : C.node[k].val = T.node[k].val
  BY <1>5, <1>9, <1>11, <1>12
<1>19. ASSUME NEW j \in Job PROVE TameJob(T, U, j)
  <2>1. TameJob(T, C, j)
    <3>1. TameJob(T, B, j)
      BY <1>10, <1>11, TameJobTransitive
    <3>2. TameJob(B, C, j) /\ B.risk \subseteq C.risk
      BY <1>12
    <3> QED BY <3>1, <3>2, TameJobTransitive
  <2>2. Src(j) \in Node /\ Dst(j) \in Node /\ Slots(j) \subseteq Slot
    BY <1>2, ModeFacts
  <2>3. \A k \in Node : U.node[k].child = C.node[k].child /\ U.node[k].owner = C.node[k].owner
    BY <1>14, <1>15
  <2>4. (Busy(U, j) <=> Busy(C, j)) /\ Snapshot(U, j) = Snapshot(C, j)
    BY <2>2, <2>3 DEF Busy, Snapshot
  <2>5. ASSUME U.imp[j] \in ImportInProgress, NEW s \in Slots(j)
        PROVE  /\ U.node[Dst(j)].val[s] = C.node[Dst(j)].val[s]
               /\ U.node[Dst(j)].owner[s] = Dst(j) => T.node[Dst(j)].owner[s] = Dst(j)
    <3>1. T.imp[j] \in ImportInProgress
      BY <1>15, <2>1, <2>5 DEF TameJob
    <3>2. T.node[Dst(j)].owner[s] # Dst(j)
      BY <3>1 DEF Foreign
    <3>3. ~(Dst(j) = n /\ s \in dirty)
      BY <1>3, <3>2
    <3>4. U.node[Dst(j)].owner[s] # Dst(j)
      BY <1>16, <2>2, <3>2 DEF Calm
    <3> QED BY <1>17, <2>2, <3>3, <3>4
  <2>6. ASSUME GoesOn(T, C, j), Fed(T.exp[j]), NEW s \in Slots(j)
        PROVE  U.node[Src(j)].val[s] = C.node[Src(j)].val[s]
    <3>1. T.exp[j].st \in ExportInProgress /\ U.exp[j].st \in ExportInProgress
      BY <1>15, <2>6 DEF GoesOn, Fed, ExportInProgress
    <3>2. T.node[Src(j)].owner[s] = Src(j)
      BY <3>1 DEF Home
    <3>3. U.node[Src(j)].owner[s] = Src(j)
      BY <1>16, <3>1, <3>2 DEF Calm
    <3> QED BY <1>17, <2>2, <3>3
  <2>7. ASSUME GoesOn(T, C, j) PROVE GoesOn(T, U, j)
    <3>1. /\ U.exp[j] = C.exp[j] /\ U.link[j] = C.link[j]
          /\ Busy(U, j) => Busy(T, j)
          /\ Snapshot(U, j) = Snapshot(T, j)
      BY <1>15, <2>4, <2>7 DEF GoesOn
    <3>2. Fed(T.exp[j]) =>
            \A s \in Slots(j) : U.node[Src(j)].val[s] = T.node[Src(j)].val[s]
      BY <1>18, <2>2, <2>6, <2>7
    <3> QED BY <2>7, <3>1, <3>2 DEF GoesOn
  <2>8. ASSUME Ends(C, j) PROVE Ends(U, j)
    BY <1>15, <2>4, <2>8 DEF Ends
  <2>9. GoesOn(T, U, j) \/ Ends(U, j)
    BY <2>1, <2>7, <2>8 DEF TameJob
  <2>10. U.imp[j] \in ImportInProgress =>
          /\ U.imp[j] = T.imp[j]
          /\ \A s \in Slots(j) : /\ U.node[Dst(j)].val[s] = T.node[Dst(j)].val[s]
                                 /\ U.node[Dst(j)].owner[s] = Dst(j) =>
                                    T.node[Dst(j)].owner[s] = Dst(j)
    BY <1>15, <1>18, <2>1, <2>2, <2>5 DEF TameJob
  <2> QED BY <1>15, <2>1, <2>9, <2>10 DEF TameJob
<1>20. \A k \in Node, s \in Slot : U.node[k].owner[s] = k => U.node[k].val[s] = T.node[k].val[s]
  BY <1>17, <1>18
<1> QED BY <1>16, <1>19, <1>20 DEF Tame

-------------------------------------------------------------------------------
(* The steps once more, for the keys.  First those that move none.         *)

(* Parts of the invariant.                                                 *)
LEMMA DataFacts ==
    ASSUME DataInv
    PROVE  /\ WriterInv /\ MigrationInv /\ Good(State) /\ mode \in Modes /\ Single(State)
           /\ Home(State) /\ Apart(State) /\ Clean(State)
           /\ Data(State, acked) /\ \A j \in Job : JobData(State, acked, j)
  BY WriterFacts DEF DataInv, Data, Single, MigrationInv

(* What a step may suppose of the jobs.                                    *)
LEMMA DataEnds ==
    ASSUME NEW T, NEW A, Data(T, A)
    PROVE  /\ Foreign(T)
           /\ \A j \in Job : T.exp[j].st \in Finished => T.exp[j].out = <<>>
           /\ \A j \in Job : Busy(T, j) => T.exp[j].st = "snapshotting" /\ ~T.exp[j].pend
  BY DEF Data, JobData, Staged, Copied, Foreign

(* An export ends, after a tame change.                                    *)
LEMMA FinishTame ==
    ASSUME DataInv, mode' = mode, acked' = acked, NEW j \in Job,
           NEW T, Good(T), Tame(State, T), NEW st \in Finished, st # "success",
           Apply(FinishExport(T, j, st))
    PROVE  Data(State, acked)'
<1> DEFINE U == FinishExports(T, Src(j), {j}, st)
<1>1. Src(j) \in Node /\ {j} \subseteq Exports(Src(j)) /\ mode \in Modes
  BY ModeFacts DEF Good, Exports
<1>2. Tame(T, U)
  BY <1>1, FinishExportsTame
<1>3. Apply(U)
  BY DEF FinishExport
<1> HIDE DEF U
<1>4. Tame(State, U)
  BY <1>1, <1>2, TameTransitive
<1> QED BY <1>3, <1>4, TameApplied

(* Nothing changes at all.                                                 *)
LEMMA TameReflexive ==
    ASSUME NEW T
    PROVE  Tame(T, T)
  BY CalmReflexive, TameJobReflexive DEF Tame

(* The death of a node, after a tame change.                               *)
LEMMA DeathTame ==
    ASSUME DataInv, mode' = mode, acked' = acked, NEW n \in Node,
           NEW T, Good(T), Tame(State, T), Apply(Died(T, n))
    PROVE  Data(State, acked)'
<1> DEFINE U == Died(T, n)
<1>1. Data(T, acked)
  BY DataFacts, TameData
<1>2. /\ \A j \in Job : T.exp[j].st \in Finished => T.exp[j].out = <<>>
      /\ \A j \in Exports(n) : Busy(T, j) => T.exp[j].st \in ExportInProgress
  BY <1>1, DataEnds DEF Exports, ExportInProgress
<1>3. Tame(T, U) /\ mode \in Modes
  BY <1>2, DiedTame DEF Good
<1> HIDE DEF U
<1>4. Tame(State, U)
  BY <1>3, TameTransitive
<1> QED BY <1>4, TameApplied DEF U

(* The death of a node by an assertion.                                    *)
LEMMA AssertTame ==
    ASSUME DataInv, mode' = mode, acked' = acked, NEW n \in Node, NEW a,
           Apply(Died([State EXCEPT !.asserts = a], n))
    PROVE  Data(State, acked)'
<1> DEFINE T == [State EXCEPT !.asserts = a]
<1>1. Good(T)
  BY AssertsOK, DataFacts
<1>2. T.exp = State.exp /\ T.link = State.link /\ T.imp = State.imp
      /\ T.risk = State.risk /\ T.node = State.node
  BY DEF State
<1>3. Tame(State, T)
  <2> HIDE DEF T
  <2> QED BY <1>2, TameNodes, DataFacts
<1> HIDE DEF T
<1> QED BY <1>1, <1>3, DeathTame DEF T

(* Imports fail.                                                           *)
LEMMA FailTame ==
    ASSUME DataInv, mode' = mode, acked' = acked, NEW I, I \subseteq Job,
           \A j \in I : imp[j] \in Importing, Apply(FailImports(State, I))
    PROVE  Data(State, acked)'
<1> DEFINE U == FailImports(State, I)
<1>1. Tame(State, U)
  BY FailImportsTame, DataFacts, StateFacts
<1> HIDE DEF U
<1> QED BY <1>1, TameApplied DEF U

(* The source has read a message.                                          *)
LEMMA ReadTame ==
    ASSUME DataInv, NEW j \in Job, NEW k, Received(j, k)
    PROVE  Good(Read(j)) /\ Tame(State, Read(j))
<1> DEFINE l == [link[j] EXCEPT !.tos = Tail(@)]
           U == Read(j)
<1>1. /\ l \in LinkType(j) /\ l.dst = link[j].dst /\ l.tot = link[j].tot
      /\ WithJob(State, U, j, exp[j], l, imp[j])
  BY ReadFacts, DataFacts
<1>2. link[j] \in LinkType(j) /\ IsState(State)
  BY DataFacts, SameJob DEF Good
<1>3. l.src = link[j].src /\ l.cut = link[j].cut /\ l.tos = Tail(link[j].tos)
  BY <1>2 DEF LinkType
<1>4. link[j].tos \in Seq(Answers) => l.tos \in Seq(Answers)
  BY <1>3, TailOK DEF Received
<1> HIDE DEF l
<1>5. Good(U)
  BY ReadOK, DataFacts
<1> HIDE DEF U
<1>6. /\ U.node = node /\ U.exp = exp /\ U.risk = risk /\ U.imp = imp /\ U.link[j] = l
      /\ \A i \in Job \ {j} : U.link[i] = link[i]
  BY <1>1, <1>2, StateFacts DEF WithJob, IsState
<1>7. \A i : (Busy(U, i) <=> Busy(State, i)) /\ Snapshot(U, i) = Snapshot(State, i)
  BY <1>6, StateFacts DEF Busy, Snapshot
<1>8. ASSUME NEW i \in Job PROVE TameJob(State, U, i)
  <2>1. CASE i = j
    <3>1. GoesOn(State, U, i)
      BY <1>3, <1>6, <1>7, <2>1, StateFacts DEF GoesOn
    <3> QED BY <1>1, <1>3, <1>4, <1>6, <2>1, <3>1, StateFacts DEF TameJob
  <2>2. CASE i # j
    BY <1>6, <1>7, <2>2, StateFacts, DataFacts, UntouchedTame
  <2> QED BY <2>1, <2>2
<1>9. Calm(State, U)
  <2>1. CalmJob(j, exp[j], link[j], imp[j], exp[j], l, imp[j])
    BY <1>1 DEF CalmJob, HasToken
  <2> QED BY <1>1, <2>1, StateFacts, DataFacts, CalmOne
<1>10. Tame(State, U)
  BY <1>6, <1>8, <1>9, StateFacts DEF Tame
<1> QED BY <1>5, <1>10 DEF U

(* The ends of exports.                                                    *)
LEMMA ExportEndsData ==
    ASSUME DataInv, NEW j \in Job,
           ConnectFails(j) \/ PauseTimeout(j) \/ ExportTimesOut(j)
    PROVE  Data(State, acked)'
<1>1. /\ mode' = mode /\ acked' = acked /\ Apply(FinishExport(State, j, "failed"))
      /\ "failed" \in Finished /\ "failed" # "success"
  BY DEF ConnectFails, PauseTimeout, ExportTimesOut, Finished
<1> QED BY <1>1, DataFacts, TameReflexive, FinishTame

(* fork fails.                                                             *)
LEMMA ForkFailsData ==
    ASSUME DataInv, NEW j \in Job, ForkFails(j)
    PROVE  Data(State, acked)'
<1> DEFINE n == Src(j)
           nd == [node[n] EXCEPT !.pipe = TRUE]
           T == [State EXCEPT !.node[n].pipe = TRUE]
<1>1. mode' = mode /\ acked' = acked /\ Apply(FinishExport(T, j, "failed"))
  BY DEF ForkFails
<1>2. /\ n \in Node /\ NodeOK(n, node[n]) /\ node = [m \in Node |-> node[m]]
      /\ MigrationInv
  BY DataFacts, InvFacts, ModeFacts
<1>3. /\ NodeOK(n, nd) /\ nd.owner = node[n].owner /\ nd.val = node[n].val
      /\ nd.child = node[n].child
  BY <1>2 DEF NodeOK
<1>4. nd.paused = node[n].paused
  BY <1>2 DEF NodeOK
<1>5. WithNode(State, T, n, nd)
  BY <1>2 DEF WithNode, IsRecord, State
<1> HIDE DEF n, nd, T
<1>6. PauseKept(State, n, nd) /\ ChildFed(State, nd)
  <2>1. PauseKept(State, n, nd)
    BY <1>4, StateFacts DEF PauseKept
  <2>2. ChildFed(State, nd)
    BY <1>2, <1>3, DataFacts, StateFacts DEF ChildFed, Good, ChildRuns
  <2> QED BY <2>1, <2>2
<1>7. /\ Good(T) /\ T.exp = exp /\ T.imp = imp /\ T.link = link /\ T.risk = risk
      /\ T.node[n] = nd /\ \A m \in Node \ {n} : T.node[m] = node[m]
  BY <1>2, <1>3, <1>5, <1>6, DataFacts, StateFacts, NodeChanges
<1>8. \A m \in Node : /\ T.node[m].owner = node[m].owner /\ T.node[m].val = node[m].val
                      /\ T.node[m].child = node[m].child
  BY <1>3, <1>7
<1>9. Tame(State, T)
  BY <1>7, <1>8, DataFacts, StateFacts, TameNodes
<1>10. "failed" \in Finished /\ "failed" # "success"
  BY DEF Finished
<1> QED BY <1>1, <1>7, <1>9, <1>10, FinishTame

(* A step that leaves the owners, the keys and the children alone.         *)
LEMMA NodesData ==
    ASSUME DataInv, mode' = mode, acked' = acked, exp' = exp, link' = link, imp' = imp,
           risk \subseteq risk',
           \A n \in Node : /\ node'[n].owner = node[n].owner /\ node'[n].val = node[n].val
                           /\ node'[n].child = node[n].child
    PROVE  Data(State, acked)'
<1> DEFINE U == [node |-> node', exp |-> exp', imp |-> imp', link |-> link',
                 risk |-> risk', asserts |-> asserts']
<1>1. Apply(U)
  BY DEF Apply
<1>2. /\ U.node = node' /\ U.exp = exp /\ U.imp = imp /\ U.link = link /\ U.risk = risk'
  OBVIOUS
<1> HIDE DEF U
<1>3. Tame(State, U)
  BY <1>2, StateFacts, DataFacts, TameNodes
<1> QED BY <1>1, <1>3, TameApplied

(* A pause runs out; an epoch is raised; a PONG is sent.                   *)
LEMMA NodeStepsData ==
    ASSUME DataInv, NEW n \in Node, PauseExpires(n) \/ BumpEpoch(n)
    PROVE  Data(State, acked)'
<1>1. NodeOK(n, node[n]) /\ node = [m \in Node |-> node[m]]
  BY DataFacts, InvFacts
<1>2. CASE PauseExpires(n)
  <2> DEFINE nd == [node[n] EXCEPT !.paused = FALSE]
  <2>1. node' = [node EXCEPT ![n] = nd]
    BY <1>1, <1>2 DEF PauseExpires
  <2>2. nd.owner = node[n].owner /\ nd.val = node[n].val /\ nd.child = node[n].child
    BY <1>1 DEF NodeOK
  <2> HIDE DEF nd
  <2>3. \A m \in Node : /\ node'[m].owner = node[m].owner /\ node'[m].val = node[m].val
                        /\ node'[m].child = node[m].child
    BY <1>1, <2>1, <2>2
  <2>4. /\ mode' = mode /\ acked' = acked /\ exp' = exp /\ link' = link /\ imp' = imp
        /\ risk \subseteq risk'
    BY <1>2 DEF PauseExpires
  <2> QED BY <2>3, <2>4, NodesData
<1>3. CASE BumpEpoch(n)
  <2> DEFINE nd == Bumped(node[n], n)
  <2>1. node' = [node EXCEPT ![n] = nd]
    BY <1>3 DEF BumpEpoch
  <2>2. nd.owner = node[n].owner /\ nd.val = node[n].val /\ nd.child = node[n].child
    BY <1>1 DEF NodeOK, Bumped
  <2> HIDE DEF nd
  <2>3. \A m \in Node : /\ node'[m].owner = node[m].owner /\ node'[m].val = node[m].val
                        /\ node'[m].child = node[m].child
    BY <1>1, <2>1, <2>2
  <2>4. /\ mode' = mode /\ acked' = acked /\ exp' = exp /\ link' = link /\ imp' = imp
        /\ risk \subseteq risk'
    BY <1>3 DEF BumpEpoch
  <2> QED BY <2>3, <2>4, NodesData
<1> QED BY <1>2, <1>3

(* CANCELSLOTMIGRATIONS.                                                   *)
LEMMA CancelData ==
    ASSUME DataInv, NEW n \in Node, CancelSlotMigrations(n)
    PROVE  Data(State, acked)'
<1> DEFINE J == {j \in Exports(n) : exp[j].st \in ExportInProgress}
           U == FinishExports(State, n, J, "cancelled")
<1>1. Apply(U) /\ mode' = mode /\ acked' = acked
  BY DEF CancelSlotMigrations
<1>2. J \subseteq Exports(n) /\ "cancelled" \in Finished /\ "cancelled" # "success"
  BY DEF Finished
<1> HIDE DEF J
<1>3. Tame(State, U)
  BY <1>2, DataFacts, FinishExportsTame
<1> HIDE DEF U
<1> QED BY <1>1, <1>3, TameApplied

(* A restart.                                                              *)
LEMMA RestartData ==
    ASSUME DataInv, NEW n \in Node, Restart(n)
    PROVE  Data(State, acked)'
<1>1. Apply(Died(State, n)) /\ mode' = mode /\ acked' = acked
  BY DEF Restart
<1> QED BY <1>1, DataFacts, TameReflexive, DeathTame

(* Only the epochs of a node change.                                       *)
LEMMA EpochsTame ==
    ASSUME NEW T, Good(T), NEW n \in Node, NEW nd, nd.owner = T.node[n].owner,
           nd.val = T.node[n].val, nd.child = T.node[n].child,
           NEW U, WithNode(T, U, n, nd)
    PROVE  Tame(T, U)
<1>1. IsState(T) /\ mode \in Modes
  BY DEF Good
<1>2. U.exp = T.exp /\ U.imp = T.imp /\ U.link = T.link /\ T.risk \subseteq U.risk
  BY DEF WithNode
<1>3. \A k \in Node : /\ U.node[k].owner = T.node[k].owner /\ U.node[k].val = T.node[k].val
                      /\ U.node[k].child = T.node[k].child
  BY <1>1 DEF IsState, WithNode
<1> QED BY <1>1, <1>2, <1>3, TameNodes

(* A PONG arrives.                                                         *)
LEMMA ReceivePongData ==
    ASSUME DataInv, NEW m \in Node, NEW n \in Node, ReceivePong(m, n)
    PROVE  Data(State, acked)'
<1> DEFINE p == bus[<<m, n>>]
           a == Learned(State.node[n], m, p)
           A == [State EXCEPT !.node[n] = a]
           B == UpdateSlotsConfig(A, n, m, p)
           b == Collided(B.node[n], n, m, p)
           U == [B EXCEPT !.node[n] = b]
<1>0. mode' = mode /\ acked' = acked /\ Good(State) /\ mode \in Modes
  BY DataFacts DEF ReceivePong
<1>1. Apply(U)
  BY Zenon DEF ReceivePong
<1>2. m # n
  BY DataFacts DEF ReceivePong, WriterInv, NoEcho
<1> HIDE DEF p
<1>3. NodeOK(n, State.node[n])
  BY <1>0 DEF Good, NodesOK
<1>4. NodeOK(n, a) /\ SameNode(a, State.node[n])
  BY <1>3, LearnedOK
<1> HIDE DEF a
<1>5. Good(A) /\ Clean(A) /\ Tame(State, A)
  <2>1. Good(A) /\ KeepsClean(State, A)
    BY <1>0, <1>4, EpochsChange
  <2>2. Clean(A)
    BY <2>1, DataFacts, StaysClean
  <2>3. WithNode(State, A, n, a)
    BY <1>0 DEF WithNode, IsRecord, Good, IsState
  <2>4. Tame(State, A)
    BY <1>0, <1>4, <2>3, EpochsTame DEF SameNode
  <2> QED BY <2>1, <2>2, <2>4
<1> HIDE DEF A
<1>6. Data(A, acked) /\ Single(A)
  <2>1. Data(A, acked)
    BY <1>5, DataFacts, TameData
  <2>2. Single(A)
    BY <1>0, <1>5, DataFacts, CalmSingle DEF Tame
  <2> QED BY <2>1, <2>2
<1>7. Good(B) /\ Tame(A, B)
  <2>1. Good(B)
    BY <1>5, UpdateSlotsConfigOK
  <2>2. Foreign(A) /\ Home(A)
    BY <1>6, DataEnds DEF Single
  <2>3. Tame(A, B)
    BY <1>2, <1>5, <2>2, UpdateSlotsConfigTame
  <2> QED BY <2>1, <2>3
<1> HIDE DEF B
<1>8. SameNode(b, B.node[n])
  BY <1>7, LearnedOK DEF Good, NodesOK
<1> HIDE DEF b
<1>9. Tame(B, U)
  <2>1. WithNode(B, U, n, b)
    BY <1>7 DEF WithNode, IsRecord, Good, IsState
  <2> QED BY <1>7, <1>8, <2>1, EpochsTame DEF SameNode
<1> HIDE DEF U
<1>10. Tame(State, B)
  BY <1>0, <1>5, <1>7, TameTransitive
<1>11. Tame(State, U)
  BY <1>0, <1>9, <1>10, TameTransitive
<1> QED BY <1>0, <1>1, <1>11, TameApplied

-------------------------------------------------------------------------------
(* Steps that move keys.                                                   *)

(* Every job of U is tame or has what is to be known of it.                *)
LEMMA EachData ==
    ASSUME DataInv, mode' = mode, acked' = acked, NEW U, Apply(U), risk \subseteq U.risk,
           OneImport(U),
           \A n \in Node, s \in Slot \ U.risk :
              Holds(U, n, s) => Holds(State, n, s) /\ U.node[n].val[s] = node[n].val[s],
           \A j \in Job : TameJob(State, U, j) \/ JobData(U, acked, j)
    PROVE  Data(State, acked)'
<1>1. Whole(U, acked)
  BY DataFacts, StateFacts DEF Data, Whole
<1>2. ASSUME NEW j \in Job PROVE JobData(U, acked, j)
  <2>1. JobData(State, acked, j) /\ State.link[j] \in LinkType(j) /\ State.risk \subseteq U.risk
    BY DataFacts, StateFacts DEF Good, JobsOK, JobOK
  <2> QED BY <2>1, TameJobData
<1> QED BY <1>1, <1>2, DataApplied DEF Data

(* What is known of a job with the export e, the connection l, the import  *)
(* i and the child's messages c, as long as no keys move.                  *)
Flow(j, e, l, i, c) ==
    /\ Staged(j, e, l, i, c # <<>>)
    /\ i \in ImportInProgress =>
        /\ \A s \in Slots(j) : node[Dst(j)].owner[s] # Dst(j)
        /\ e.st \in Early => \A s \in Slots(j) : node[Dst(j)].val[s] = <<>>
        /\ i = "granted" => \A s \in Slots(j) \ risk : node[Dst(j)].val[s] = acked[s]
        /\ l.dst /\ ~l.cut => \A s \in Slots(j) \ risk :
              Brings(s, acked[s], l.tot, c, e.out,
                     [v |-> node[Dst(j)].val[s], g |-> (i = "granted")],
                     Fed(e), node[Src(j)].val[s])

LEMMA SnapshotBusy ==
    ASSUME NEW T, NEW j
    PROVE  Busy(T, j) <=> Snapshot(T, j) # <<>>
  BY DEF Snapshot

LEMMA FlowOf ==
    ASSUME DataInv, NEW j \in Job
    PROVE  Flow(j, exp[j], link[j], imp[j], Snapshot(State, j))
<1>1. JobData(State, acked, j)
  BY DataFacts
<1>2. Staged(j, exp[j], link[j], imp[j], Snapshot(State, j) # <<>>)
  <2>1. Staged(j, exp[j], link[j], imp[j], Busy(State, j))
    BY <1>1, StateFacts DEF JobData
  <2>2. Busy(State, j) <=> Snapshot(State, j) # <<>>
    BY SnapshotBusy
  <2> QED BY <2>1, <2>2 DEF Staged
<1>3. \A s : Start(State, j, s) = [v |-> node[Dst(j)].val[s], g |-> (imp[j] = "granted")]
  BY StateFacts DEF Start
<1> QED BY <1>1, <1>2, <1>3, StateFacts DEF JobData, Copied, Arriving, Flow

(* The state after a step.                                                 *)
After == [node |-> node', exp |-> exp', imp |-> imp', link |-> link', risk |-> risk',
          asserts |-> asserts']

LEMMA AfterFacts ==
    /\ Apply(After) /\ After.node = node' /\ After.exp = exp' /\ After.imp = imp'
    /\ After.link = link' /\ After.risk = risk'
  BY DEF After, Apply

(* The job j goes to e, l, i; keys and owners stay, and so do the children *)
(* of other jobs.                                                          *)
Shifts(j, e, l, i) ==
    /\ mode' = mode /\ acked' = acked /\ risk' = risk
    /\ exp' = [exp EXCEPT ![j] = e] /\ link' = [link EXCEPT ![j] = l]
    /\ imp' = [imp EXCEPT ![j] = i]
    /\ \A n \in Node : node'[n].owner = node[n].owner /\ node'[n].val = node[n].val
    /\ \A k \in Job \ {j} : /\ Busy(After, k) => Busy(State, k)
                            /\ Snapshot(After, k) = Snapshot(State, k)
    /\ exp[j].st = "granted" => e.st = "granted"

LEMMA FlowData ==
    ASSUME DataInv, NEW j \in Job, NEW e, NEW l, NEW i, Shifts(j, e, l, i),
           (i \in Importing => imp[j] \in Importing) \/ OneImport(After),
           Flow(j, e, l, i, Snapshot(After, j))
    PROVE  Data(State, acked)'
<1>1. /\ exp = [k \in Job |-> exp[k]] /\ link = [k \in Job |-> link[k]]
      /\ imp = [k \in Job |-> imp[k]] /\ mode \in Modes
  BY DataFacts, InvFacts
<1>2. /\ exp'[j] = e /\ link'[j] = l /\ imp'[j] = i
      /\ \A k \in Job \ {j} : exp'[k] = exp[k] /\ link'[k] = link[k] /\ imp'[k] = imp[k]
  BY <1>1 DEF Shifts
<1>3. OneImport(After)
  BY <1>2, DataFacts, StateFacts, AfterFacts DEF OneImport, Data
<1>4. ASSUME NEW n \in Node, NEW s \in Slot \ After.risk, Holds(After, n, s)
      PROVE  Holds(State, n, s) /\ After.node[n].val[s] = node[n].val[s]
  BY <1>2, <1>4, AfterFacts, StateFacts DEF Holds, SlotFailoverGranted, Exports, Shifts
<1>5. \A n \in Node : /\ After.node[n].owner = node[n].owner
                      /\ After.node[n].val = node[n].val
  BY AfterFacts DEF Shifts
<1>6. Src(j) \in Node /\ Dst(j) \in Node /\ Slots(j) \subseteq Slot
  BY <1>1, ModeFacts
<1>7. JobData(After, acked, j)
  <2>1. Staged(j, After.exp[j], After.link[j], After.imp[j], Busy(After, j))
    <3>1. Busy(After, j) <=> Snapshot(After, j) # <<>>
      BY SnapshotBusy
    <3> QED BY <1>2, <3>1, AfterFacts DEF Flow, Staged
  <2>2. \A s : Start(After, j, s) = [v |-> node[Dst(j)].val[s], g |-> (i = "granted")]
    BY <1>2, <1>5, <1>6, AfterFacts DEF Start
  <2>3. \A s : After.node[Src(j)].val[s] = node[Src(j)].val[s]
    BY <1>5, <1>6
  <2>4. After.risk = risk
    BY AfterFacts DEF Shifts
  <2>5. ASSUME i \in ImportInProgress, l.dst, ~l.cut, NEW s \in Slots(j) \ risk
        PROVE  Arriving(After, acked, j, s)
    <3>1. Brings(s, acked[s], l.tot, Snapshot(After, j), e.out,
                 [v |-> node[Dst(j)].val[s], g |-> (i = "granted")],
                 Fed(e), node[Src(j)].val[s])
      BY <2>5 DEF Flow
    <3>2. After.link[j].tot = l.tot /\ After.exp[j] = e
      BY <1>2, AfterFacts
    <3> QED BY <2>2, <2>3, <3>1, <3>2 DEF Arriving
  <2>6. Copied(After, acked, j)
    BY <1>2, <1>5, <1>6, <2>4, <2>5, AfterFacts DEF Flow, Copied
  <2> QED BY <2>1, <2>6 DEF JobData
<1>8. ASSUME NEW k \in Job, k # j PROVE TameJob(State, After, k)
  <2>1. Src(k) \in Node /\ Dst(k) \in Node
    BY <1>1, ModeFacts
  <2>2. /\ After.exp[k] = exp[k] /\ After.link[k] = link[k] /\ After.imp[k] = imp[k]
        /\ Busy(After, k) => Busy(State, k)
        /\ Snapshot(After, k) = Snapshot(State, k)
    BY <1>2, <1>8, AfterFacts DEF Shifts
  <2> QED BY <1>1, <1>5, <2>1, <2>2, StateFacts, UntouchedTame
<1>9. mode' = mode /\ acked' = acked /\ risk \subseteq After.risk
  BY AfterFacts DEF Shifts
<1>10. \A k \in Job : TameJob(State, After, k) \/ JobData(After, acked, k)
  BY <1>7, <1>8
<1> QED BY <1>3, <1>4, <1>9, <1>10, AfterFacts, EachData

(* The same when no node changes.                                          *)
LEMMA FlowSteps ==
    ASSUME DataInv, NEW j \in Job, NEW e, NEW l, NEW i,
           mode' = mode, acked' = acked, risk' = risk,
           \A n \in Node : /\ node'[n].owner = node[n].owner /\ node'[n].val = node[n].val
                           /\ node'[n].child = node[n].child,
           exp' = [exp EXCEPT ![j] = e], link' = [link EXCEPT ![j] = l],
           imp' = [imp EXCEPT ![j] = i], exp[j].st = "granted" => e.st = "granted",
           (i \in Importing => imp[j] \in Importing) \/ OneImport(After),
           Flow(j, e, l, i, Snapshot(State, j))
    PROVE  Data(State, acked)'
<1>1. \A k \in Job : /\ Busy(After, k) <=> Busy(State, k)
                     /\ Snapshot(After, k) = Snapshot(State, k)
  BY AfterFacts, StateFacts, DataFacts, ModeFacts DEF Busy, Snapshot
<1>2. Shifts(j, e, l, i)
  BY <1>1 DEF Shifts
<1>3. Flow(j, e, l, i, Snapshot(After, j))
  BY <1>1
<1> QED BY <1>2, <1>3, FlowData

(* The output of an export goes on with a message that is no keys.         *)
LEMMA BringsSay ==
    ASSUME NEW j, NEW s \in Slots(j), NEW a, NEW o \in Seq(MsgFor(j)), NEW m \in MsgFor(j),
           m.k \notin {"snap", "data"}, NEW p, NEW c, NEW x, NEW f, NEW w,
           m.k = "granted" => f /\ w = a,
           Brings(s, a, p, c, o, x, f, w)
    PROVE  Brings(s, a, p, c, Append(o, m), x, f, w)
<1>1. PICK y1 \in Copy, y2 \in Copy, y3 \in Copy :
        /\ Turns(s, a, p, x, y1) /\ Turns(s, a, c, y1, y2) /\ Turns(s, a, o, y2, y3)
        /\ f => y3.v = w
  BY DEF Brings
<1> DEFINE y == Effect(s, y3, m)
<1>2. y \in Copy /\ y.v = y3.v /\ y.g = (y3.g \/ m.k = "granted")
  <2>1. y \in Copy
    BY EffectOK
  <2>2. y.v = y3.v /\ y.g = (y3.g \/ m.k = "granted")
    BY DEF Effect
  <2> QED BY <2>1, <2>2
<1>3. Sound(a, y3)
  BY <1>1, TurnsEnds
<1>4. Sound(a, y)
  BY <1>1, <1>2, <1>3 DEF Sound
<1>5. Turns(s, a, Append(o, m), y2, y)
  BY <1>1, <1>4, TurnsAppend
<1> HIDE DEF y
<1> QED BY <1>1, <1>2, <1>5 DEF Brings

LEMMA TurnsNothing ==
    ASSUME NEW s, NEW a, NEW x, NEW y, Turns(s, a, <<>>, x, y)
    PROVE  x = y
<1>1. PICK P \in [0..Len(<<>>) -> Copy] : P[0] = x /\ P[Len(<<>>)] = y
  BY DEF Turns
<1> QED BY <1>1

(* The output is written to the connection.                                *)
LEMMA BringsSent ==
    ASSUME NEW j, NEW s \in Slots(j), NEW a, NEW p \in Seq(MsgFor(j)),
           NEW o \in Seq(MsgFor(j)), NEW x, NEW f, NEW w,
           Brings(s, a, p, <<>>, o, x, f, w)
    PROVE  Brings(s, a, p \o o, <<>>, <<>>, x, f, w)
<1>1. PICK y1 \in Copy, y2 \in Copy, y3 \in Copy :
        /\ Turns(s, a, p, x, y1) /\ Turns(s, a, <<>>, y1, y2) /\ Turns(s, a, o, y2, y3)
        /\ f => y3.v = w
  BY DEF Brings
<1>2. y1 = y2
  BY <1>1, TurnsNothing
<1>3. Turns(s, a, p \o o, x, y3)
  BY <1>1, <1>2, TurnsConcat
<1>4. Sound(a, y3)
  BY <1>1, TurnsEnds
<1>5. Turns(s, a, <<>>, y3, y3)
  BY <1>4, TurnsEmpty
<1> QED BY <1>1, <1>3, <1>5 DEF Brings

(* The child writes the snapshot, and perhaps its end, to the connection.  *)
LEMMA BringsSnap ==
    ASSUME NEW j, NEW s \in Slots(j), NEW a, NEW p \in Seq(MsgFor(j)),
           NEW o, NEW x, NEW f, NEW w, NEW v \in Values(j),
           Brings(s, a, p, <<SnapMsg(v)>>, o, x, f, w)
    PROVE  /\ Brings(s, a, p \o <<SnapMsg(v)>>, <<>>, o, x, f, w)
           /\ Brings(s, a, p \o <<SnapMsg(v), Msg("eof")>>, <<>>, o, x, f, w)
<1> DEFINE m == SnapMsg(v)
           z == Msg("eof")
<1>1. PICK y1 \in Copy, y2 \in Copy, y3 \in Copy :
        /\ Turns(s, a, p, x, y1) /\ Turns(s, a, <<m>>, y1, y2) /\ Turns(s, a, o, y2, y3)
        /\ f => y3.v = w
  BY DEF Brings
<1>2. <<m>> \in Seq(MsgFor(j)) /\ <<m, z>> \in Seq(MsgFor(j)) /\ z \in MsgFor(j)
  BY SnapMsgOK DEF MsgFor, Control, Msg
<1>3. z.k = "eof"
  BY DEF Msg
<1> HIDE DEF m, z
<1>4. Append(<<m>>, z) = <<m, z>>
  <2> DEFINE q == Append(<<m>>, z)
             r == <<m, z>>
  <2>1. /\ q \in Seq(MsgFor(j)) /\ Len(q) = Len(<<m>>) + 1 /\ q[Len(<<m>>) + 1] = z
        /\ \A i \in 1..Len(<<m>>) : q[i] = <<m>>[i]
    BY <1>2, AppendProperties
  <2>2. Len(q) = 2 /\ q[1] = m /\ q[2] = z
    <3>1. Len(<<m>>) = 1 /\ <<m>>[1] = m
      OBVIOUS
    <3> HIDE DEF q
    <3> QED BY <2>1, <3>1
  <2>3. r \in Seq(MsgFor(j)) /\ Len(r) = 2 /\ r[1] = m /\ r[2] = z
    BY <1>2
  <2> HIDE DEF q, r
  <2>4. q = r
    BY <2>1, <2>2, <2>3, SeqEqual
  <2> QED BY <2>4 DEF q, r
<1>5. Effect(s, y2, z) = y2
  BY <1>3, EffectNone
<1>6. Sound(a, y2)
  BY <1>1, <1>2, TurnsEnds
<1>7. Turns(s, a, <<m, z>>, y1, y2)
  <2>1. Turns(s, a, Append(<<m>>, z), y1, Effect(s, y2, z))
    BY <1>1, <1>2, <1>5, <1>6, TurnsAppend
  <2> QED BY <1>4, <1>5, <2>1
<1>8. Turns(s, a, p \o <<m>>, x, y2)
  BY <1>1, <1>2, TurnsConcat
<1>9. Turns(s, a, p \o <<m, z>>, x, y2)
  BY <1>1, <1>2, <1>7, TurnsConcat
<1>10. Turns(s, a, <<>>, y2, y2)
  BY <1>6, TurnsEmpty
<1> QED BY <1>1, <1>8, <1>9, <1>10 DEF Brings, m, z

(* The target reads a message.                                             *)
LEMMA BringsRead ==
    ASSUME NEW j, NEW s, NEW a, NEW p \in Seq(MsgFor(j)), p # <<>>,
           NEW c, NEW o, NEW x, NEW f, NEW w, Brings(s, a, p, c, o, x, f, w)
    PROVE  /\ Brings(s, a, Tail(p), c, o, Effect(s, x, Head(p)), f, w)
           /\ Sound(a, Effect(s, x, Head(p))) /\ x \in Copy
<1>1. PICK y1 \in Copy, y2 \in Copy, y3 \in Copy :
        /\ Turns(s, a, p, x, y1) /\ Turns(s, a, c, y1, y2) /\ Turns(s, a, o, y2, y3)
        /\ f => y3.v = w
  BY DEF Brings
<1>2. x \in Copy
  BY <1>1, TurnsEnds
<1>3. /\ Turns(s, a, Tail(p), Effect(s, x, Head(p)), y1)
      /\ Sound(a, Effect(s, x, Head(p)))
  BY <1>1, TurnsTail
<1> QED BY <1>1, <1>2, <1>3 DEF Brings

(* A child begins for a target that has nothing yet.                       *)
LEMMA BringsAll ==
    ASSUME NEW j, NEW s \in Slots(j), NEW a, NEW p \in Seq(Plain), NEW o \in Seq(Plain),
           NEW v \in Values(j), NEW x \in Copy, x.v = <<>>, ~x.g
    PROVE  Brings(s, a, p, <<SnapMsg(v)>>, o, x, TRUE, v[s])
<1> DEFINE m == SnapMsg(v)
           y == Effect(s, x, m)
<1>1. m \in MsgFor(j) /\ m.k = "snap" /\ m.v = v
  BY SnapMsgOK DEF SnapMsg, MsgFor
<1> HIDE DEF m
<1>2. y \in Copy
  BY <1>1, EffectOK
<1>3. v[s] \in Seq(Nat)
  BY DEF Values
<1>4. y.v = v[s] /\ ~y.g
  <2>1. y.v = x.v \o m.v[s]
    BY <1>1, EffectFacts
  <2>2. y.g = (x.g \/ m.k = "granted")
    BY DEF Effect
  <2>3. <<>> \o v[s] = v[s]
    BY <1>3, ConcatEmptySeq
  <2> QED BY <1>1, <2>1, <2>2, <2>3
<1>5. Sound(a, x) /\ Sound(a, y)
  BY <1>4 DEF Sound
<1>6. Turns(s, a, p, x, x) /\ Turns(s, a, o, y, y)
  BY <1>2, <1>5, TurnsPlain
<1>7. Turns(s, a, <<m>>, x, y)
  <2>1. Turns(s, a, <<>>, x, x)
    BY <1>5, TurnsEmpty
  <2>2. <<>> \in Seq(MsgFor(j))
    BY EmptySeq
  <2>3. Turns(s, a, Append(<<>>, m), x, y)
    BY <1>1, <1>5, <2>1, <2>2, TurnsAppend
  <2> QED BY <2>3
<1> HIDE DEF y
<1> QED BY <1>2, <1>4, <1>6, <1>7 DEF Brings, m

-------------------------------------------------------------------------------
(* The steps of the source.                                                *)

(* Nothing but the bus changes.                                            *)
LEMMA BusData ==
    ASSUME DataInv, mode' = mode, acked' = acked, node' = node, exp' = exp, imp' = imp,
           link' = link, risk' = risk
    PROVE  Data(State, acked)'
  BY NodesData

(* CLUSTER MIGRATESLOTS.                                                   *)
LEMMA MigrateSlotsData ==
    ASSUME DataInv, NEW j \in Job, MigrateSlots(j)
    PROVE  Data(State, acked)'
<1> DEFINE e == [exp[j] EXCEPT !.st = "connecting"]
<1>1. /\ exp' = [exp EXCEPT ![j] = e] /\ link' = [link EXCEPT ![j] = link[j]]
      /\ imp' = [imp EXCEPT ![j] = imp[j]] /\ node' = node /\ mode' = mode
      /\ acked' = acked /\ risk' = risk /\ exp[j].st = "none"
  BY DataFacts, SameJob DEF MigrateSlots
<1>2. e.st = "connecting" /\ e.out = exp[j].out /\ e.pend = exp[j].pend
  BY DataFacts, SameJob DEF ExportType
<1> HIDE DEF e
<1>3. Flow(j, exp[j], link[j], imp[j], Snapshot(State, j))
  BY FlowOf
<1>4. Flow(j, e, link[j], imp[j], Snapshot(State, j))
  BY <1>1, <1>2, <1>3 DEF Flow, Staged, Early, ExportInProgress, Finished, Fed
<1> QED BY <1>1, <1>4, FlowSteps

(* The deadline of a job passes.                                           *)
LEMMA DeadlineData ==
    ASSUME DataInv, NEW j \in Job, DeadlinePasses(j)
    PROVE  Data(State, acked)'
<1> DEFINE e == [exp[j] EXCEPT !.mf = "late"]
<1>1. /\ exp' = [exp EXCEPT ![j] = e] /\ link' = [link EXCEPT ![j] = link[j]]
      /\ imp' = [imp EXCEPT ![j] = imp[j]] /\ node' = node /\ mode' = mode
      /\ acked' = acked /\ risk' = risk
  BY DataFacts, SameJob DEF DeadlinePasses
<1>2. e.st = exp[j].st /\ e.out = exp[j].out /\ e.pend = exp[j].pend
  BY DataFacts, SameJob DEF ExportType
<1> HIDE DEF e
<1>3. Flow(j, exp[j], link[j], imp[j], Snapshot(State, j))
  BY FlowOf
<1>4. Flow(j, e, link[j], imp[j], Snapshot(State, j))
  BY <1>2, <1>3 DEF Flow, Staged, Fed
<1> QED BY <1>1, <1>2, <1>4, FlowSteps

(* The connection is made.                                                 *)
LEMMA ConnectData ==
    ASSUME DataInv, NEW j \in Job, Connect(j)
    PROVE  Data(State, acked)'
<1> DEFINE d == [exp[j] EXCEPT !.st = "establish"]
           e == Say(d, Msg("establish"))
           l == [NoLink EXCEPT !.src = TRUE, !.dst = TRUE]
           c == Snapshot(State, j)
<1>1. /\ exp' = [exp EXCEPT ![j] = e] /\ link' = [link EXCEPT ![j] = l]
      /\ imp' = [imp EXCEPT ![j] = imp[j]] /\ node' = node /\ mode' = mode
      /\ acked' = acked /\ risk' = risk /\ exp[j].st = "connecting"
  BY DataFacts, SameJob DEF Connect
<1>2. exp[j] \in ExportType(j) /\ exp[j].out = <<>>
  BY <1>1, DataFacts, SameJob, StateFacts DEF Single, Fresh, Waiting
<1>3. e.st = "establish" /\ e.out = Append(exp[j].out, Msg("establish"))
  BY <1>2 DEF ExportType, Say
<1>4. l.src /\ l.dst /\ l.tot = <<>> /\ l.tos = <<>>
  BY DEF NoLink
<1>5. Msg("establish") \in Plain
  BY DEF Msg, Plain
<1> HIDE DEF d, e, l
<1>6. e.out \in Seq(Plain) /\ l.tot \in Seq(Plain) /\ l.tos \in Seq(Answers)
  BY <1>2, <1>3, <1>4, <1>5
<1>7. Flow(j, exp[j], link[j], imp[j], c)
  BY FlowOf
<1>8. c = <<>>
  BY <1>1, <1>7 DEF Flow, Staged
<1>9. Staged(j, e, l, imp[j], c # <<>>)
  BY <1>3, <1>4, <1>6, <1>8 DEF Staged, Finished, Early, ExportInProgress
<1>10. ASSUME imp[j] \in ImportInProgress, NEW s \in Slots(j) \ risk
       PROVE  Brings(s, acked[s], l.tot, c, e.out,
                     [v |-> node[Dst(j)].val[s], g |-> (imp[j] = "granted")],
                     Fed(e), node[Src(j)].val[s])
  <2> DEFINE x == [v |-> node[Dst(j)].val[s], g |-> (imp[j] = "granted")]
  <2>1. x \in Copy /\ x.v = node[Dst(j)].val[s] /\ (x.g => imp[j] = "granted")
    <3>1. node[Dst(j)].val[s] \in Seq(Nat)
      BY DataFacts, InvFacts, ModeFacts DEF NodeOK
    <3> QED BY <3>1 DEF Copy
  <2> HIDE DEF x
  <2>2. Sound(acked[s], x)
    BY <1>7, <1>10, <2>1 DEF Sound, Flow
  <2>3. /\ Turns(s, acked[s], l.tot, x, x) /\ Turns(s, acked[s], c, x, x)
        /\ Turns(s, acked[s], e.out, x, x)
    BY <1>4, <1>6, <1>8, <2>1, <2>2, TurnsPlain, TurnsEmpty
  <2>4. ~Fed(e)
    BY <1>3 DEF Fed
  <2> QED BY <2>1, <2>3, <2>4 DEF Brings, x
<1>11. Flow(j, e, l, imp[j], c)
  BY <1>1, <1>7, <1>9, <1>10 DEF Flow, Early
<1> QED BY <1>1, <1>11, FlowSteps

(* A source whose export has not granted the failover has every write, and *)
(* nothing is granted to the target.                                       *)
LEMMA SourceHasAll ==
    ASSUME DataInv, NEW j \in Job, exp[j].st \in ExportInProgress, exp[j].st # "granted",
           NEW s \in Slots(j) \ risk
    PROVE  node[Src(j)].val[s] = acked[s] /\ imp[j] # "granted"
<1>1. Src(j) \in Node /\ s \in Slot
  BY DataFacts, ModeFacts
<1>2. node[Src(j)].owner[s] = Src(j)
  BY DataFacts, StateFacts DEF Home
<1>3. ~SlotFailoverGranted(State, Src(j), s)
  <2> SUFFICES ASSUME NEW k \in Exports(Src(j)), s \in Slots(k), exp[k].st = "granted"
               PROVE  FALSE
    BY StateFacts DEF SlotFailoverGranted
  <2>1. k \in Job /\ Src(k) = Src(j) /\ Slots(k) \cap Slots(j) # {}
    BY DEF Exports
  <2>2. exp[k].st \in ExportInProgress
    BY DEF ExportInProgress
  <2>3. k = j
    BY <2>1, <2>2, DataFacts, StateFacts DEF Apart
  <2> QED BY <2>3
<1>4. Holds(State, Src(j), s)
  BY <1>2, <1>3, StateFacts DEF Holds
<1>5. node[Src(j)].val[s] = acked[s]
  BY <1>1, <1>4, DataFacts, StateFacts DEF Data, Whole
<1>6. ~Token(State, j)
  BY DataFacts, StateFacts, ExportHolds
<1> QED BY <1>5, <1>6, StateFacts DEF Token, HasToken

(* The facts about one job.                                                *)
LEMMA JobFacts ==
    ASSUME DataInv, NEW j \in Job
    PROVE  /\ exp[j] \in ExportType(j) /\ link[j] \in LinkType(j)
           /\ exp[j].out \in Seq(MsgFor(j)) /\ link[j].tot \in Seq(MsgFor(j))
           /\ Src(j) \in Node /\ Dst(j) \in Node /\ Slots(j) \subseteq Slot
           /\ link[j].dst /\ imp[j] \notin ImportInProgress => Unopened(exp[j], link[j])
           /\ exp = [exp EXCEPT ![j] = exp[j]] /\ link = [link EXCEPT ![j] = link[j]]
           /\ imp = [imp EXCEPT ![j] = imp[j]]
  BY DataFacts, SameJob, ModeFacts DEF ExportType, LinkType

(* Output that is no keys.                                                 *)
LEMMA SayFlow ==
    ASSUME NEW j \in Job, NEW d \in ExportType(j), NEW l, NEW i, NEW c, Flow(j, d, l, i, c),
           NEW e, NEW m \in MsgFor(j), m.k \notin {"snap", "data"},
           e.out = Append(d.out, m), Fed(e) <=> Fed(d), e.st \notin Finished,
           e.st \in Early => d.st \in Early /\ m \in Plain,
           c # <<>> => e.st = "snapshotting" /\ ~e.pend,
           e.st \in ExportInProgress \ {"connecting", "granted"} => l.src,
           m.k = "granted" =>
              Fed(d) /\ \A s \in Slots(j) \ risk : node[Src(j)].val[s] = acked[s]
    PROVE  Flow(j, e, l, i, c)
<1>1. Staged(j, e, l, i, c # <<>>)
  <2>1. d.out \in Seq(Plain) /\ m \in Plain => e.out \in Seq(Plain)
    BY AppendProperties
  <2> QED BY <2>1 DEF Flow, Staged
<1>2. ASSUME i \in ImportInProgress, l.dst, ~l.cut, NEW s \in Slots(j) \ risk
      PROVE  Brings(s, acked[s], l.tot, c, e.out,
                    [v |-> node[Dst(j)].val[s], g |-> (i = "granted")],
                    Fed(e), node[Src(j)].val[s])
  <2> DEFINE x == [v |-> node[Dst(j)].val[s], g |-> (i = "granted")]
             w == node[Src(j)].val[s]
             f == Fed(d)
  <2>1. Brings(s, acked[s], l.tot, c, d.out, x, f, w)
    BY <1>2 DEF Flow
  <2>2. m.k = "granted" => f /\ w = acked[s]
    OBVIOUS
  <2>3. d.out \in Seq(MsgFor(j))
    BY DEF ExportType
  <2> HIDE DEF x, w, f
  <2>4. Brings(s, acked[s], l.tot, c, Append(d.out, m), x, f, w)
    BY <2>1, <2>2, <2>3, BringsSay
  <2> QED BY <2>4 DEF x, w, f, Brings
<1> QED BY <1>1, <1>2 DEF Flow

(* What is written to a connection.                                        *)
LEMMA WrittenLink ==
    ASSUME NEW j, NEW l \in LinkType(j), NEW ms \in Seq(MsgFor(j)), NEW m,
           m = ToTarget(l, ms)
    PROVE  /\ m.src = l.src /\ m.dst = l.dst /\ m.cut = l.cut /\ m.tos = l.tos
           /\ l.dst /\ ~l.cut => m.tot = l.tot \o ms
           /\ ~(l.dst /\ ~l.cut) => m.tot = l.tot
  BY DEF ToTarget, LinkType

(* handleClientsWithPendingWrites.                                         *)
LEMMA WriteToClientData ==
    ASSUME DataInv, NEW j \in Job, WriteToClient(j)
    PROVE  Data(State, acked)'
<1> DEFINE o == exp[j].out
           e == [exp[j] EXCEPT !.out = <<>>, !.pend = FALSE]
           l == ToTarget(link[j], o)
           c == Snapshot(State, j)
           i == imp[j]
<1>0. /\ exp[j] \in ExportType(j) /\ link[j] \in LinkType(j)
      /\ o \in Seq(MsgFor(j)) /\ link[j].tot \in Seq(MsgFor(j)) /\ Slots(j) \subseteq Slot
      /\ link[j].dst /\ i \notin ImportInProgress => Unopened(exp[j], link[j])
  BY JobFacts
<1>1. /\ exp' = [exp EXCEPT ![j] = e] /\ link' = [link EXCEPT ![j] = l]
      /\ imp' = [imp EXCEPT ![j] = i] /\ node' = node /\ mode' = mode
      /\ acked' = acked /\ risk' = risk /\ exp[j].pend
  BY DataFacts, InvFacts, SameJob DEF WriteToClient
<1>2. e.st = exp[j].st /\ e.out = <<>> /\ e.pend = FALSE
  BY <1>0 DEF ExportType
<1>3. /\ l.src = link[j].src /\ l.dst = link[j].dst /\ l.cut = link[j].cut
      /\ l.tos = link[j].tos
      /\ link[j].dst /\ ~link[j].cut => l.tot = link[j].tot \o o
      /\ ~(link[j].dst /\ ~link[j].cut) => l.tot = link[j].tot
  <2> DEFINE k == link[j]
  <2>1. l = ToTarget(k, o) /\ k \in LinkType(j) /\ o \in Seq(MsgFor(j))
    BY <1>0
  <2> HIDE DEF k, l, o
  <2>2. /\ l.src = k.src /\ l.dst = k.dst /\ l.cut = k.cut /\ l.tos = k.tos
        /\ k.dst /\ ~k.cut => l.tot = k.tot \o o
        /\ ~(k.dst /\ ~k.cut) => l.tot = k.tot
    BY <2>1, WrittenLink
  <2> QED BY <2>2 DEF k
<1>4. Flow(j, exp[j], link[j], i, c)
  BY FlowOf
<1>5. c = <<>>
  BY <1>1, <1>4 DEF Flow, Staged
<1> HIDE DEF e, l, i, c
<1>6. link[j].tot \in Seq(Plain) /\ o \in Seq(Plain) => l.tot \in Seq(Plain)
  BY <1>3, ConcatProperties
<1>7. link[j].dst /\ i \notin ImportInProgress => link[j].tot \in Seq(Plain) /\ o \in Seq(Plain)
  <2>1. exp[j].st \in ExportInProgress \cup Finished \cup {"none"}
    BY <1>0 DEF ExportType
  <2>2. link[j].dst /\ i \notin ImportInProgress => exp[j].st \in Early \cup Finished
    BY <1>0, <2>1 DEF Unopened, Fed, ExportInProgress, Early
  <2>3. <<>> \in Seq(Plain)
    OBVIOUS
  <2> QED BY <1>4, <2>2, <2>3 DEF Flow, Staged
<1>8. Staged(j, e, l, i, c # <<>>)
  <2>1. <<>> \in Seq(Plain)
    OBVIOUS
  <2> HIDE DEF o
  <2> QED BY <1>2, <1>3, <1>4, <1>5, <1>6, <1>7, <2>1 DEF Flow, Staged, o
<1>9. ASSUME i \in ImportInProgress, l.dst, ~l.cut, NEW s \in Slots(j) \ risk
      PROVE  Brings(s, acked[s], l.tot, c, e.out,
                    [v |-> node[Dst(j)].val[s], g |-> (i = "granted")],
                    Fed(e), node[Src(j)].val[s])
  <2> DEFINE x == [v |-> node[Dst(j)].val[s], g |-> (i = "granted")]
             w == node[Src(j)].val[s]
             f == Fed(exp[j])
  <2>1. Brings(s, acked[s], link[j].tot, <<>>, o, x, f, w)
    BY <1>3, <1>4, <1>5, <1>9 DEF Flow
  <2> HIDE DEF x, w, f
  <2>2. Brings(s, acked[s], link[j].tot \o o, <<>>, <<>>, x, f, w)
    BY <1>0, <2>1, BringsSent
  <2>3. f = Fed(e)
    BY <1>2 DEF f, Fed
  <2>4. Brings(s, acked[s], l.tot, c, e.out, x, f, w)
    BY <1>2, <1>3, <1>5, <1>9, <2>2
  <2> QED BY <2>3, <2>4 DEF x, w
<1>10. Flow(j, e, l, i, c)
  BY <1>2, <1>4, <1>8, <1>9 DEF Flow
<1> QED BY <1>1, <1>2, <1>10, FlowSteps DEF i, c

(* What is left after the source has read a message.                       *)
LEMMA ReadLink ==
    ASSUME DataInv, NEW j \in Job, NEW k, Received(j, k), NEW l,
           l = [link[j] EXCEPT !.tos = Tail(@)]
    PROVE  /\ l \in LinkType(j) /\ l.src = link[j].src /\ l.dst = link[j].dst
           /\ l.cut = link[j].cut /\ l.tot = link[j].tot
           /\ link[j].tos \in Seq(Answers) => l.tos \in Seq(Answers) /\ k \in Answers
           /\ \A d, i, c : Flow(j, d, link[j], i, c) => Flow(j, d, l, i, c)
<1>1. link[j] \in LinkType(j) /\ l \in LinkType(j)
  BY DataFacts, JobFacts, ReadFacts
<1>2. /\ l.src = link[j].src /\ l.dst = link[j].dst /\ l.cut = link[j].cut
      /\ l.tot = link[j].tot /\ l.tos = Tail(link[j].tos)
  BY <1>1 DEF LinkType
<1>3. link[j].tos # <<>> /\ Head(link[j].tos) = k
  BY DEF Received
<1>4. link[j].tos \in Seq(Answers) => l.tos \in Seq(Answers) /\ k \in Answers
  BY <1>2, <1>3, TailOK
<1>5. ASSUME NEW d, NEW i, NEW c, Flow(j, d, link[j], i, c) PROVE Flow(j, d, l, i, c)
  BY <1>2, <1>4, <1>5 DEF Flow, Staged
<1> QED BY <1>1, <1>2, <1>4, <1>5

(* The answer to ESTABLISH.                                                *)
LEMMA ReadEstablishData ==
    ASSUME DataInv, NEW j \in Job, ReadEstablishResponse(j)
    PROVE  Data(State, acked)'
<1>0. mode' = mode /\ acked' = acked /\ exp[j].st = "establish" /\ MigrationInv
  BY DataFacts DEF ReadEstablishResponse
<1>1. CASE Received(j, "error") /\ Apply(FinishExport(Read(j), j, "failed"))
  <2>1. Good(Read(j)) /\ Tame(State, Read(j)) /\ "failed" \in Finished /\ "failed" # "success"
    BY <1>1, ReadTame DEF Finished
  <2> QED BY <1>0, <1>1, <2>1, FinishTame
<1>2. CASE /\ Received(j, "ok")
           /\ Apply([Read(j) EXCEPT
                !.exp[j] = Say([@ EXCEPT !.st = "wait_snapshot"], Msg("ack"))])
  <2> DEFINE f == [exp[j] EXCEPT !.st = "wait_snapshot"]
             m == Msg("ack")
             e == Say(f, m)
             l == [link[j] EXCEPT !.tos = Tail(@)]
             c == Snapshot(State, j)
  <2>1. /\ exp' = [exp EXCEPT ![j] = e] /\ link' = [link EXCEPT ![j] = l]
        /\ imp' = [imp EXCEPT ![j] = imp[j]] /\ node' = node /\ risk' = risk
    BY <1>0, <1>2, InvFacts, SameJob DEF Apply, Read, State
  <2>2. f \in ExportType(j) /\ f.st = "wait_snapshot" /\ f.out = exp[j].out
    BY <1>0, SameJob DEF ExportType, ExportInProgress
  <2>3. m \in MsgFor(j) /\ m \in Plain /\ m.k = "ack"
    BY DEF Msg, MsgFor, Control, Plain
  <2>4. e.st = "wait_snapshot" /\ e.out = Append(exp[j].out, m)
    <3> HIDE DEF m, f
    <3> QED BY <2>2 DEF Say, ExportType
  <2>5. exp[j] \in ExportType(j) /\ Flow(j, exp[j], link[j], imp[j], c)
    BY FlowOf, JobFacts
  <2>6. Flow(j, exp[j], l, imp[j], c) /\ l.src
    BY <1>2, <2>5, ReadLink DEF Received
  <2>7. c = <<>>
    BY <1>0, <2>5 DEF Flow, Staged
  <2> HIDE DEF f, m, e, l, c
  <2>8. Flow(j, e, l, imp[j], c)
    <3>1. /\ Fed(e) <=> Fed(exp[j])
          /\ e.st \notin Finished /\ exp[j].st \in Early
      BY <1>0, <2>4 DEF Fed, Finished, Early
    <3> QED BY <2>3, <2>4, <2>5, <2>6, <2>7, <3>1, SayFlow
  <2> QED BY <1>0, <2>1, <2>8, FlowSteps DEF c
<1> QED BY <1>1, <1>2 DEF ReadEstablishResponse

(* slotExportJobBeginSnapshotToTargetSocket.                               *)
LEMMA BeginSnapshotData ==
    ASSUME DataInv, NEW j \in Job, BeginSnapshot(j)
    PROVE  Data(State, acked)'
<1> DEFINE n == Src(j)
           v == [s \in Slots(j) |-> node[n].val[s]]
           child == [job |-> j, st |-> "writing", v |-> v]
           e == [exp[j] EXCEPT !.st = "snapshotting"]
           q == <<SnapMsg(v)>>
<1>0. /\ mode' = mode /\ acked' = acked /\ exp[j].st = "wait_snapshot" /\ ~exp[j].pend
      /\ node[n].child = None /\ MigrationInv
  BY DataFacts DEF BeginSnapshot, MaySnapshot
<1>1. /\ n \in Node /\ NodeOK(n, node[n]) /\ Slots(j) \subseteq Slot
      /\ node = [m \in Node |-> node[m]] /\ Dst(j) \in Node /\ NodeOK(Dst(j), node[Dst(j)])
  BY <1>0, InvFacts, ModeFacts
<1>2. CASE Apply(Died([State EXCEPT !.asserts = @ \cup {"pipe"}], n))
  <2> HIDE DEF n
  <2> QED BY <1>0, <1>1, <1>2, AssertTame
<1>3. CASE Apply([State EXCEPT !.node[n].child = child, !.exp[j].st = "snapshotting"])
  <2>1. v \in Values(j) /\ \A s \in Slots(j) : v[s] = node[n].val[s]
    BY <1>1 DEF NodeOK, Values
  <2> HIDE DEF v
  <2>2. child.job = j /\ child.st = "writing" /\ child.v = v
    OBVIOUS
  <2> HIDE DEF child
  <2>3. /\ exp' = [exp EXCEPT ![j] = e] /\ link' = [link EXCEPT ![j] = link[j]]
        /\ imp' = [imp EXCEPT ![j] = imp[j]]
        /\ node' = [node EXCEPT ![n] = [node[n] EXCEPT !.child = child]] /\ risk' = risk
    BY <1>0, <1>3, InvFacts, SameJob DEF Apply, State
  <2>4. /\ \A m \in Node : node'[m].owner = node[m].owner /\ node'[m].val = node[m].val
        /\ node'[n].child = child /\ \A m \in Node \ {n} : node'[m].child = node[m].child
    BY <1>1, <2>3 DEF NodeOK
  <2>5. e.st = "snapshotting" /\ e.out = exp[j].out /\ e.pend = exp[j].pend
    BY JobFacts DEF ExportType
  <2>6. child # None
    <3>1. child \in [job : Job, st : {"writing"}, v : [Slots(j) -> Seq(Nat)]]
      BY <2>1 DEF child, Values
    <3> QED BY <1>1, <3>1, NoneAssumption
  <2>7. Snapshot(After, j) = q
    BY <2>2, <2>4, <2>6, AfterFacts DEF Snapshot, Busy
  <2>8. \A k \in Job \ {j} : /\ Busy(After, k) => Busy(State, k)
                            /\ Snapshot(After, k) = Snapshot(State, k)
    <3>1. \A k \in Job : Src(k) \in Node
      BY DataFacts, ModeFacts
    <3> QED BY <1>0, <2>2, <2>4, <3>1, AfterFacts, StateFacts DEF Snapshot, Busy
  <2> HIDE DEF e
  <2>9. Shifts(j, e, link[j], imp[j])
    BY <1>0, <2>3, <2>4, <2>8 DEF Shifts
  <2>10. Flow(j, exp[j], link[j], imp[j], Snapshot(State, j))
    BY FlowOf
  <2>11. /\ link[j].tot \in Seq(Plain) /\ exp[j].out \in Seq(Plain)
         /\ link[j].tos \in Seq(Answers) /\ link[j].src
    BY <1>0, <2>10 DEF Flow, Staged, Early, ExportInProgress
  <2>12. link[j].tot \in Seq(NoEof(j))
    <3>1. Plain \subseteq NoEof(j)
      BY DEF Plain, NoEof, MsgFor, Control
    <3> QED BY <2>11, <3>1
  <2>13. Staged(j, e, link[j], imp[j], q # <<>>)
    BY <1>0, <2>5, <2>11, <2>12 DEF Staged, Early, Finished
  <2>14. ASSUME imp[j] \in ImportInProgress, NEW s \in Slots(j) \ risk
         PROVE  Brings(s, acked[s], link[j].tot, q, e.out,
                       [v |-> node[Dst(j)].val[s], g |-> (imp[j] = "granted")],
                       Fed(e), node[Src(j)].val[s])
    <3> DEFINE x == [v |-> node[Dst(j)].val[s], g |-> (imp[j] = "granted")]
    <3>1. imp[j] # "granted"
      BY <1>0, <2>14, SourceHasAll DEF ExportInProgress
    <3>2. node[Dst(j)].val[s] = <<>>
      BY <1>0, <2>10, <2>14 DEF Flow, Early
    <3>3. x \in Copy /\ x.v = <<>> /\ ~x.g
      <4>1. node[Dst(j)].val[s] \in Seq(Nat)
        BY <1>1 DEF NodeOK
      <4>2. x.v = <<>> /\ ~x.g
        BY <3>1, <3>2
      <4>3. x \in Copy
        BY <4>1 DEF Copy
      <4> QED BY <4>2, <4>3
    <3> HIDE DEF x
    <3>4. Brings(s, acked[s], link[j].tot, q, exp[j].out, x, TRUE, v[s])
      BY <2>1, <2>11, <3>3, BringsAll
    <3>5. Fed(e) = TRUE
      BY <2>5 DEF Fed
    <3> QED BY <2>1, <2>5, <3>4, <3>5 DEF x
  <2>15. Flow(j, e, link[j], imp[j], q)
    BY <1>0, <2>5, <2>10, <2>13, <2>14 DEF Flow, Early
  <2> QED BY <2>7, <2>9, <2>15, FlowData
<1> QED BY <1>2, <1>3 DEF BeginSnapshot

(* The child for j has ended, and has written ms.                          *)
LEMMA ChildEndsData ==
    ASSUME DataInv, NEW n \in Node, node[n].child # None, node[n].child.st = "writing",
           NEW st, st # "writing", NEW j, j = node[n].child.job, NEW v, v = node[n].child.v,
           NEW ms \in {<<SnapMsg(v)>>, <<SnapMsg(v), Msg("eof")>>},
           node' = [node EXCEPT ![n].child = [@ EXCEPT !.st = st]],
           link' = [link EXCEPT ![j] = ToTarget(@, ms)],
           exp' = exp, imp' = imp, risk' = risk, mode' = mode, acked' = acked
    PROVE  Data(State, acked)'
<1> DEFINE d == [node[n].child EXCEPT !.st = st]
           l == ToTarget(link[j], ms)
           c == Snapshot(State, j)
<1>1. NodeOK(n, node[n]) /\ node = [m \in Node |-> node[m]] /\ link = [k \in Job |-> link[k]]
  BY DataFacts, InvFacts
<1>2. j \in Job /\ Src(j) = n /\ v \in Values(j) /\ d.job = j /\ d.st = st
  BY <1>1 DEF NodeOK, ChildOK, Exports
<1>3. node' = [node EXCEPT ![n] = [node[n] EXCEPT !.child = d]]
  BY <1>1
<1> HIDE DEF d
<1>4. /\ \A m \in Node : node'[m].owner = node[m].owner /\ node'[m].val = node[m].val
      /\ node'[n].child = d /\ \A m \in Node \ {n} : node'[m].child = node[m].child
  <2> DEFINE nd == [node[n] EXCEPT !.child = d]
  <2>1. nd.owner = node[n].owner /\ nd.val = node[n].val /\ nd.child = d
    BY <1>1 DEF NodeOK
  <2>2. node' = [node EXCEPT ![n] = nd]
    BY <1>3
  <2> HIDE DEF nd
  <2>3. node'[n] = nd /\ \A m \in Node \ {n} : node'[m] = node[m]
    BY <1>1, <2>2
  <2> QED BY <2>1, <2>3
<1>5. Snapshot(After, j) = <<>> /\ c = <<SnapMsg(v)>> /\ Busy(State, j)
  BY <1>2, <1>4, AfterFacts, StateFacts DEF Snapshot, Busy
<1>6. \A k \in Job \ {j} : /\ Busy(After, k) => Busy(State, k)
                          /\ Snapshot(After, k) = Snapshot(State, k)
  <2>1. \A k \in Job : Src(k) \in Node
    BY DataFacts, ModeFacts
  <2> QED BY <1>2, <1>4, <2>1, AfterFacts, StateFacts DEF Snapshot, Busy
<1>7. link' = [link EXCEPT ![j] = l] /\ exp' = [exp EXCEPT ![j] = exp[j]]
      /\ imp' = [imp EXCEPT ![j] = imp[j]]
  BY <1>1, <1>2, JobFacts
<1>8. Shifts(j, exp[j], l, imp[j])
  <2> HIDE DEF l
  <2> QED BY <1>4, <1>6, <1>7 DEF Shifts
<1>9. /\ ms \in Seq(MsgFor(j)) /\ link[j] \in LinkType(j) /\ link[j].tot \in Seq(MsgFor(j))
      /\ link[j].dst => imp[j] \in ImportInProgress \/ Unopened(exp[j], link[j])
  <2>1. ms \in Seq(MsgFor(j))
    BY <1>2, SnapMsgOK
  <2> QED BY <1>2, <2>1, JobFacts
<1>10. /\ l.src = link[j].src /\ l.dst = link[j].dst /\ l.cut = link[j].cut
       /\ l.tos = link[j].tos
       /\ link[j].dst /\ ~link[j].cut => l.tot = link[j].tot \o ms
       /\ link[j].cut => l.tot = link[j].tot
  <2> DEFINE k == link[j]
  <2>1. l = ToTarget(k, ms) /\ k \in LinkType(j)
    BY <1>9
  <2> HIDE DEF k, l
  <2>2. /\ l.src = k.src /\ l.dst = k.dst /\ l.cut = k.cut /\ l.tos = k.tos
        /\ k.dst /\ ~k.cut => l.tot = k.tot \o ms
        /\ k.cut => l.tot = k.tot
    BY <1>9, <2>1, WrittenLink
  <2> QED BY <2>2 DEF k
<1>11. Flow(j, exp[j], link[j], imp[j], c)
  BY <1>2, FlowOf
<1> HIDE DEF l
<1>12. exp[j].st = "snapshotting" /\ Fed(exp[j])
  BY <1>2, <1>5, DataFacts, DataEnds, StateFacts DEF Fed
<1>13. link[j].dst => imp[j] \in ImportInProgress
  BY <1>9, <1>12 DEF Unopened
<1>14. Staged(j, exp[j], l, imp[j], <<>> # <<>>)
  BY <1>10, <1>11, <1>12, <1>13 DEF Flow, Staged, Early, Finished
<1>15. ASSUME imp[j] \in ImportInProgress, l.dst, ~l.cut, NEW s \in Slots(j) \ risk
       PROVE  Brings(s, acked[s], l.tot, <<>>, exp[j].out,
                     [v |-> node[Dst(j)].val[s], g |-> (imp[j] = "granted")],
                     Fed(exp[j]), node[Src(j)].val[s])
  <2> DEFINE x == [v |-> node[Dst(j)].val[s], g |-> (imp[j] = "granted")]
             w == node[Src(j)].val[s]
             f == Fed(exp[j])
  <2>1. Brings(s, acked[s], link[j].tot, <<SnapMsg(v)>>, exp[j].out, x, f, w)
    <3>1. link[j].dst /\ ~link[j].cut
      BY <1>10, <1>15
    <3>2. Brings(s, acked[s], link[j].tot, c, exp[j].out, x, f, w)
      BY <1>11, <1>15, <3>1 DEF Flow
    <3> QED BY <1>5, <3>2
  <2> HIDE DEF x, w, f
  <2>2. Brings(s, acked[s], link[j].tot \o ms, <<>>, exp[j].out, x, f, w)
    BY <1>2, <1>9, <2>1, BringsSnap
  <2>3. l.tot = link[j].tot \o ms
    BY <1>10, <1>15
  <2> QED BY <2>2, <2>3 DEF x, w, f
<1>16. Flow(j, exp[j], l, imp[j], <<>>)
  BY <1>11, <1>12, <1>14, <1>15 DEF Flow, Early
<1> QED BY <1>2, <1>5, <1>8, <1>16, FlowData

(* The child writes for its export.                                        *)
LEMMA ChildData ==
    ASSUME DataInv, NEW n \in Node, ChildWrites(n) \/ ChildFails(n)
    PROVE  Data(State, acked)'
<1> DEFINE v == node[n].child.v
           j == node[n].child.job
<1>1. node[n].child # None /\ node[n].child.st = "writing" /\ mode' = mode /\ acked' = acked
      /\ exp' = exp /\ imp' = imp /\ risk' = risk
  BY DEF ChildWrites, ChildFails
<1>2. CASE ChildWrites(n)
  <2>1. /\ node' = [node EXCEPT ![n].child = [@ EXCEPT !.st = "done"]]
        /\ link' = [link EXCEPT ![j] = ToTarget(@, <<SnapMsg(v), Msg("eof")>>)]
    BY <1>2 DEF ChildWrites
  <2> HIDE DEF v, j
  <2>2. j = node[n].child.job /\ v = node[n].child.v
    BY DEF v, j
  <2>3. "done" # "writing"
    OBVIOUS
  <2> QED BY <1>1, <2>1, <2>2, <2>3, ChildEndsData
<1>3. CASE ChildFails(n)
  <2>1. /\ node' = [node EXCEPT ![n].child = [@ EXCEPT !.st = "failed"]]
        /\ link' = [link EXCEPT ![j] = ToTarget(@, <<SnapMsg(v)>>)]
    BY <1>3 DEF ChildFails
  <2> HIDE DEF v, j
  <2>2. j = node[n].child.job /\ v = node[n].child.v
    BY DEF v, j
  <2>3. "failed" # "writing"
    OBVIOUS
  <2> QED BY <1>1, <2>1, <2>2, <2>3, ChildEndsData
<1> QED BY <1>2, <1>3

(* An export begins to stream when its child writes no more.               *)
LEMMA StreamingData ==
    ASSUME NEW T, NEW A, NEW j \in Job, JobData(T, A, j), ~Busy(T, j), NEW U,
           U.node = T.node, U.imp = T.imp, U.link = T.link, U.risk = T.risk,
           U.exp[j].st = "streaming", U.exp[j].out = T.exp[j].out,
           T.exp[j].st = "snapshotting"
    PROVE  JobData(U, A, j)
<1>1. ~Busy(U, j) /\ Snapshot(U, j) = Snapshot(T, j)
  BY DEF Busy, Snapshot
<1>2. Staged(j, T.exp[j], T.link[j], T.imp[j], Busy(T, j))
  BY DEF JobData
<1>3. Staged(j, U.exp[j], U.link[j], U.imp[j], Busy(U, j))
  BY <1>1, <1>2 DEF Staged, Early, Finished, ExportInProgress
<1>4. /\ Fed(U.exp[j]) = TRUE /\ Fed(T.exp[j]) = TRUE
      /\ \A s : Start(U, j, s) = Start(T, j, s)
  BY DEF Fed, Start
<1>5. \A s : Arriving(T, A, j, s) => Arriving(U, A, j, s)
  BY <1>1, <1>4 DEF Arriving
<1>6. Copied(U, A, j)
  BY <1>5 DEF JobData, Copied, Early
<1> QED BY <1>3, <1>6 DEF JobData

(* The child is waited for.                                                *)
LEMMA SnapshotDoneData ==
    ASSUME DataInv, NEW n \in Node, BackgroundSlotMigrationDone(n)
    PROVE  Data(State, acked)'
<1> DEFINE J == {j \in Exports(n) : exp[j].st = "snapshotting"}
           A == [State EXCEPT !.node[n].child = None, !.node[n].pipe = FALSE]
           nd == [node[n] EXCEPT !.child = None, !.pipe = FALSE]
           U == BeginStreaming(A, J)
           V == FinishExports(A, n, J, "failed")
<1>0. /\ mode' = mode /\ acked' = acked /\ "failed" \in Finished /\ "failed" # "success"
      /\ J \subseteq Exports(n)
      /\ \A j \in J : j \in Job /\ Src(j) = n /\ exp[j].st = "snapshotting"
      /\ MigrationInv /\ Good(State) /\ mode \in Modes
      /\ node[n].child # None /\ node[n].child.st # "writing"
  BY DataFacts DEF BackgroundSlotMigrationDone, Finished, Exports
<1>1. NodeOK(n, node[n])
  BY <1>0, InvFacts
<1>2. WithNode(State, A, n, nd) /\ A.exp = exp
  BY <1>0, InvFacts DEF WithNode, IsRecord, State
<1>3. NodeOK(n, nd) /\ nd.owner = node[n].owner /\ nd.val = node[n].val /\ nd.child = None
  BY <1>1 DEF NodeOK, ChildOK
<1>4. nd.paused = node[n].paused
  BY <1>1 DEF NodeOK
<1>5. Apply(U) \/ Apply(V)
  BY Zenon DEF BackgroundSlotMigrationDone
<1> HIDE DEF A, nd, J
<1>6. PauseKept(State, n, nd) /\ ChildFed(State, nd)
  BY <1>3, <1>4, StateFacts DEF PauseKept, ChildFed
<1>7. /\ Good(A) /\ A.exp = exp /\ A.imp = imp /\ A.link = link /\ A.risk = risk
      /\ A.node[n] = nd /\ \A m \in Node \ {n} : A.node[m] = node[m]
  BY <1>0, <1>2, <1>3, <1>6, StateFacts, NodeChanges
<1>8. \A j \in Job : /\ Src(j) = n => ~Busy(A, j)
                     /\ Busy(A, j) <=> Busy(State, j)
                     /\ Snapshot(A, j) = Snapshot(State, j)
  <2>1. \A j \in Job : Src(j) \in Node
    BY <1>0, ModeFacts
  <2> QED BY <1>0, <1>3, <1>7, <2>1, StateFacts DEF Busy, Snapshot
<1>9. \A m \in Node : A.node[m].owner = node[m].owner /\ A.node[m].val = node[m].val
  BY <1>3, <1>7
<1>10. Tame(State, A)
  <2>1. ASSUME NEW j \in Job PROVE TameJob(State, A, j)
    <3>1. Src(j) \in Node /\ Dst(j) \in Node
      BY <1>0, ModeFacts
    <3> QED BY <1>0, <1>7, <1>8, <1>9, <3>1, StateFacts, UntouchedTame
  <2>2. Calm(State, A)
    BY <1>0, <1>7, <1>9, StateFacts, CalmNodes
  <2> QED BY <1>9, <2>1, <2>2, StateFacts DEF Tame
<1>11. Data(A, acked)
  BY <1>0, <1>10, DataFacts, TameData
<1>12. CASE Apply(U)
  <2>1. /\ U.exp = [j \in Job |-> IF j \in J
                     THEN [A.exp[j] EXCEPT !.st = "streaming", !.pend = TRUE] ELSE A.exp[j]]
        /\ U.node = A.node /\ U.imp = A.imp /\ U.link = A.link /\ U.risk = A.risk
    BY <1>7 DEF BeginStreaming, Good, IsState
  <2> HIDE DEF U
  <2>2. ASSUME NEW j \in J
        PROVE  U.exp[j].st = "streaming" /\ U.exp[j].out = A.exp[j].out
    <3> DEFINE f == A.exp[j]
    <3>1. f \in ExportType(j) /\ U.exp[j] = [f EXCEPT !.st = "streaming", !.pend = TRUE]
      BY <1>0, <1>7, <2>1, JobFacts
    <3> HIDE DEF f
    <3>2. U.exp[j].st = "streaming" /\ U.exp[j].out = f.out
      BY <3>1 DEF ExportType
    <3> QED BY <3>2 DEF f
  <2>3. \A j \in Job \ J : U.exp[j] = A.exp[j]
    BY <2>1
  <2>4. ASSUME NEW j \in Job PROVE JobData(U, acked, j)
    <3>1. JobData(A, acked, j) /\ A.link[j] \in LinkType(j) /\ A.risk \subseteq U.risk
      BY <1>7, <1>11, <2>1 DEF Data, Good, JobsOK, JobOK
    <3>2. CASE j \in J
      BY <1>0, <1>7, <1>8, <2>1, <2>2, <3>1, <3>2, StreamingData
    <3>3. CASE j \notin J
      <4>1. U.exp[j] = A.exp[j] /\ (Busy(U, j) <=> Busy(A, j)) /\ Snapshot(U, j) = Snapshot(A, j)
        BY <2>1, <2>3, <3>3 DEF Busy, Snapshot
      <4>2. TameJob(A, U, j)
        BY <1>0, <2>1, <4>1, UntouchedTame
      <4> QED BY <3>1, <4>2, TameJobData
    <3> QED BY <3>2, <3>3
  <2>5. OneImport(U)
    BY <1>11, <2>1 DEF Data, OneImport
  <2>6. ASSUME NEW m \in Node, NEW s \in Slot \ U.risk, Holds(U, m, s)
        PROVE  Holds(State, m, s) /\ U.node[m].val[s] = node[m].val[s]
    <3>1. \A k \in Exports(m) : exp[k].st = "granted" => U.exp[k].st = "granted"
      BY <1>0, <1>7, <2>3 DEF Exports
    <3> QED BY <1>9, <2>1, <2>6, <3>1, StateFacts DEF Holds, SlotFailoverGranted
  <2>7. risk \subseteq U.risk
    BY <1>7, <2>1
  <2> QED BY <1>0, <1>12, <2>4, <2>5, <2>6, <2>7, EachData
<1>13. CASE Apply(V)
  <2>1. Tame(A, V)
    BY <1>0, <1>7, FinishExportsTame
  <2> HIDE DEF V
  <2>2. Tame(State, V)
    BY <1>0, <1>10, <2>1, TameTransitive
  <2> QED BY <1>0, <1>13, <2>2, TameApplied
<1> QED BY <1>5, <1>12, <1>13

(* slotExportTryDoPause for a job that streams, with export d and          *)
(* connection l.                                                           *)
LEMMA TryDoPauseData ==
    ASSUME DataInv, mode' = mode, acked' = acked, NEW j \in Job, NEW T, Good(T),
           NEW d \in ExportType(j), NEW l \in LinkType(j),
           T.node = node, T.imp = imp, T.risk = risk,
           T.exp = [exp EXCEPT ![j] = d], T.link = [link EXCEPT ![j] = l],
           d.st \in {"streaming", "wait_pause"}, exp[j].st # "granted", l.src,
           Snapshot(State, j) = <<>>, Flow(j, d, l, imp[j], <<>>), TryDoPause(T, j)
    PROVE  Data(State, acked)'
<1> DEFINE n == Src(j)
           m == Msg("paused")
           f == [d EXCEPT !.st = "paused", !.mf = "armed"]
           e == Say(f, m)
           g == [d EXCEPT !.st = "wait_pause"]
           P == Paused(T, j)
           W == [T EXCEPT !.exp[j].st = "wait_pause"]
           nd == [node[n] EXCEPT !.paused = TRUE]
<1>1. n \in Node /\ NodeOK(n, node[n]) /\ node = [k \in Node |-> node[k]] /\ IsState(T)
      /\ exp = [k \in Job |-> exp[k]] /\ imp = [imp EXCEPT ![j] = imp[j]]
  BY DataFacts, InvFacts, JobFacts DEF Good
<1>2. /\ f \in ExportType(j) /\ f.st = "paused" /\ f.out = d.out
      /\ g.st = "wait_pause" /\ g.out = d.out /\ g.pend = d.pend
  BY DEF ExportType, ExportInProgress
<1>3. m \in MsgFor(j) /\ m.k = "paused"
  BY DEF Msg, MsgFor, Control
<1>4. T.exp[j] = d
  BY <1>1
<1>5. P = [T EXCEPT !.node[n].paused = TRUE, !.exp[j] = e]
  BY <1>4 DEF Paused
<1>6. W = [T EXCEPT !.exp[j] = g]
  BY <1>4
<1>7. Apply(P) \/ Apply(W)
  BY Zenon DEF TryDoPause
<1> HIDE DEF m, f, g, P, W
<1>8. e.st = "paused" /\ e.out = Append(d.out, m)
  BY <1>2 DEF Say, ExportType
<1> HIDE DEF e
<1>9. CASE Apply(P)
  <2>1. /\ P.exp = [T.exp EXCEPT ![j] = e] /\ P.link = T.link /\ P.imp = T.imp /\ P.risk = T.risk
        /\ P.node = [T.node EXCEPT ![n] = [T.node[n] EXCEPT !.paused = TRUE]]
    BY <1>1, <1>5 DEF IsState
  <2>2. node' = [node EXCEPT ![n] = nd]
    BY <1>9, <2>1 DEF Apply
  <2>3. nd.owner = node[n].owner /\ nd.val = node[n].val /\ nd.child = node[n].child
    BY <1>1 DEF NodeOK
  <2> HIDE DEF nd
  <2>4. \A k \in Node : /\ node'[k].owner = node[k].owner /\ node'[k].val = node[k].val
                        /\ node'[k].child = node[k].child
    BY <1>1, <2>2, <2>3
  <2>5. /\ exp' = [exp EXCEPT ![j] = e] /\ link' = [link EXCEPT ![j] = l]
        /\ imp' = [imp EXCEPT ![j] = imp[j]] /\ risk' = risk
    <3>1. exp' = P.exp /\ link' = P.link /\ imp' = P.imp /\ risk' = P.risk
      BY <1>9 DEF Apply
    <3>2. [T.exp EXCEPT ![j] = e] = [exp EXCEPT ![j] = e] /\ imp = [imp EXCEPT ![j] = imp[j]]
      BY <1>1
    <3> QED BY <2>1, <3>1, <3>2
  <2>6. Flow(j, e, l, imp[j], <<>>)
    <3>1. /\ Fed(e) <=> Fed(d)
          /\ e.st \notin Finished /\ e.st \notin Early
      BY <1>8 DEF Fed, Finished, Early
    <3> QED BY <1>3, <1>8, <3>1, SayFlow
  <2> QED BY <2>4, <2>5, <2>6, FlowSteps
<1>10. CASE Apply(W)
  <2>1. /\ W.exp = [T.exp EXCEPT ![j] = g] /\ W.link = T.link /\ W.imp = T.imp /\ W.risk = T.risk
        /\ W.node = T.node
    BY <1>1, <1>6 DEF IsState
  <2>2. /\ exp' = [exp EXCEPT ![j] = g] /\ link' = [link EXCEPT ![j] = l]
        /\ imp' = [imp EXCEPT ![j] = imp[j]] /\ risk' = risk /\ node' = node
    BY <1>1, <1>10, <2>1 DEF Apply
  <2>3. Flow(j, g, l, imp[j], <<>>)
    <3>1. /\ Fed(g) = Fed(d)
          /\ g.st \notin Finished /\ g.st \notin Early
      BY <1>2 DEF Fed, Finished, Early
    <3>2. Staged(j, g, l, imp[j], <<>> # <<>>)
      BY <3>1 DEF Flow, Staged
    <3> QED BY <1>2, <3>1, <3>2 DEF Flow
  <2> QED BY <2>2, <2>3, FlowSteps
<1> QED BY <1>7, <1>9, <1>10

(* REQUEST-PAUSE arrives.  The target has seen the end of the snapshot, so *)
(* the child has written it.                                               *)
LEMMA RequestPauseData ==
    ASSUME DataInv, NEW j \in Job, RequestPause(j)
    PROVE  Data(State, acked)'
<1> DEFINE R == Read(j)
           B == BeginStreaming(R, {j})
           l == [link[j] EXCEPT !.tos = Tail(@)]
           d == [exp[j] EXCEPT !.st = "streaming", !.pend = TRUE]
           c == Snapshot(State, j)
<1>0. /\ mode' = mode /\ acked' = acked /\ Received(j, "request_pause")
      /\ "failed" \in Finished /\ "failed" # "success" /\ MigrationInv /\ mode \in Modes
  BY DataFacts DEF RequestPause, Finished
<1>1. Good(R) /\ Tame(State, R)
  BY <1>0, ReadTame
<1>2. /\ l \in LinkType(j) /\ l.src = link[j].src
      /\ link[j].tos \notin Seq(Answers)
      /\ Flow(j, exp[j], link[j], imp[j], c) /\ Flow(j, exp[j], l, imp[j], c)
  BY <1>0, FlowOf, ReadLink DEF Answers
<1>3. link[j].src /\ exp[j] \in ExportType(j)
  BY <1>0, JobFacts DEF Received
<1>4. WithJob(State, R, j, exp[j], l, imp[j])
  BY <1>0, ReadFacts
<1>5. /\ R.node = node /\ R.imp = imp /\ R.risk = risk
      /\ R.exp = [exp EXCEPT ![j] = exp[j]] /\ R.link = [link EXCEPT ![j] = l]
      /\ R.exp = exp /\ IsState(R)
  BY <1>1, <1>4, StateFacts, JobFacts DEF WithJob, Good
<1>6. c = <<>>
  BY <1>2 DEF Flow, Staged
<1> HIDE DEF l, c
<1>7. CASE exp[j].st = "streaming"
  <2>1. TryDoPause(R, j)
    BY <1>7 DEF RequestPause
  <2> HIDE DEF R
  <2>2. exp[j].st \in {"streaming", "wait_pause"} /\ exp[j].st # "granted"
    BY <1>7
  <2>3. Flow(j, exp[j], l, imp[j], <<>>) /\ Snapshot(State, j) = <<>> /\ l.src
    BY <1>2, <1>3, <1>6 DEF c
  <2> QED BY <1>0, <1>1, <1>2, <1>3, <1>5, <2>1, <2>2, <2>3, TryDoPauseData
<1>8. CASE exp[j].st = "snapshotting"
  <2>1. TryDoPause(B, j)
    BY <1>8 DEF RequestPause
  <2>2. d \in ExportType(j) /\ d.st = "streaming" /\ d.out = exp[j].out
    BY <1>3 DEF ExportType, ExportInProgress
  <2> HIDE DEF R
  <2>3. \A k \in {j} : k \in Job /\ R.exp[k].st = "snapshotting"
    BY <1>5, <1>8
  <2>4. Good(B)
    BY <1>1, <2>3, BeginStreamingOK
  <2>5. /\ B.exp = [k \in Job |-> IF k \in {j}
                     THEN [R.exp[k] EXCEPT !.st = "streaming", !.pend = TRUE] ELSE R.exp[k]]
        /\ B.node = R.node /\ B.imp = R.imp /\ B.link = R.link /\ B.risk = R.risk
    BY <1>5 DEF BeginStreaming, IsState
  <2> HIDE DEF B
  <2>6. B.exp = [exp EXCEPT ![j] = d]
    <3>1. exp = [k \in Job |-> exp[k]]
      BY <1>0, InvFacts
    <3> QED BY <1>5, <2>5, <3>1
  <2> HIDE DEF d
  <2>7. Flow(j, d, l, imp[j], <<>>)
    <3>1. Flow(j, exp[j], l, imp[j], <<>>)
      BY <1>2, <1>6
    <3>2. Fed(d) = TRUE /\ Fed(exp[j]) = TRUE /\ d.st \notin Early /\ d.st \notin Finished
      BY <1>8, <2>2 DEF Fed, Early, Finished
    <3>3. Staged(j, d, l, imp[j], <<>> # <<>>)
      BY <1>2, <1>3, <3>1, <3>2 DEF Flow, Staged
    <3> QED BY <2>2, <3>1, <3>2, <3>3 DEF Flow
  <2>8. d.st \in {"streaming", "wait_pause"} /\ exp[j].st # "granted" /\ l.src
        /\ Snapshot(State, j) = <<>>
    BY <1>2, <1>3, <1>6, <1>8, <2>2 DEF c
  <2>9. B.node = node /\ B.imp = imp /\ B.risk = risk /\ B.link = [link EXCEPT ![j] = l]
    BY <1>5, <2>5
  <2> QED BY <1>0, <1>2, <2>1, <2>2, <2>4, <2>6, <2>7, <2>8, <2>9, TryDoPauseData
<1>9. CASE exp[j].st \notin {"streaming", "snapshotting"}
  <2>1. Apply(FinishExport(R, j, "failed"))
    BY <1>9 DEF RequestPause
  <2> HIDE DEF R
  <2> QED BY <1>0, <1>1, <2>1, FinishTame
<1> QED BY <1>7, <1>8, <1>9

(* The output of a job that waits to pause may have become small enough.   *)
LEMMA WaitingToPauseData ==
    ASSUME DataInv, NEW j \in Job, WaitingToPause(j)
    PROVE  Data(State, acked)'
<1>1. /\ exp[j].st = "wait_pause" /\ TryDoPause(State, j) /\ mode' = mode
      /\ acked' = acked /\ Good(State)
  BY DataFacts DEF WaitingToPause
<1>2. Flow(j, exp[j], link[j], imp[j], Snapshot(State, j))
  BY FlowOf
<1>3. Snapshot(State, j) = <<>> /\ link[j].src
  BY <1>1, <1>2 DEF Flow, Staged, ExportInProgress
<1>4. exp[j] \in ExportType(j) /\ link[j] \in LinkType(j)
      /\ State.exp = [exp EXCEPT ![j] = exp[j]] /\ State.link = [link EXCEPT ![j] = link[j]]
  BY JobFacts, StateFacts
<1>5. exp[j].st \in {"streaming", "wait_pause"} /\ exp[j].st # "granted"
  BY <1>1
<1>6. Flow(j, exp[j], link[j], imp[j], <<>>)
  BY <1>2, <1>3
<1> QED BY <1>1, <1>3, <1>4, <1>5, <1>6, StateFacts, TryDoPauseData

(* REQUEST-FAILOVER arrives: the source has every write when it grants it. *)
LEMMA RequestFailoverData ==
    ASSUME DataInv, NEW j \in Job, RequestFailover(j)
    PROVE  Data(State, acked)'
<1> DEFINE f == [exp[j] EXCEPT !.st = "granted"]
           m == Msg("granted")
           e == Say(f, m)
           R == Read(j)
           l == [link[j] EXCEPT !.tos = Tail(@)]
           c == Snapshot(State, j)
<1>0. /\ mode' = mode /\ acked' = acked /\ Received(j, "request_failover")
      /\ "failed" \in Finished /\ "failed" # "success" /\ MigrationInv
  BY DataFacts DEF RequestFailover, Finished
<1>1. Good(R) /\ Tame(State, R)
  BY <1>0, ReadTame
<1>2. CASE MayGrant(j)
  <2>1. exp[j].st = "paused" /\ exp[j] \in ExportType(j)
    BY <1>2, JobFacts DEF MayGrant
  <2>2. Apply([R EXCEPT !.exp[j] = Say([@ EXCEPT !.st = "granted"], Msg("granted"))])
    BY <1>2 DEF RequestFailover
  <2>3. /\ exp' = [exp EXCEPT ![j] = e] /\ link' = [link EXCEPT ![j] = l]
        /\ imp' = [imp EXCEPT ![j] = imp[j]] /\ node' = node /\ risk' = risk
    BY <1>0, <2>2, InvFacts, SameJob DEF Apply, Read, State
  <2>4. f \in ExportType(j) /\ f.st = "granted" /\ f.out = exp[j].out
    BY <2>1 DEF ExportType, ExportInProgress
  <2>5. m \in MsgFor(j) /\ m.k = "granted"
    BY DEF Msg, MsgFor, Control
  <2>6. e.st = "granted" /\ e.out = Append(exp[j].out, m)
    <3> HIDE DEF m, f
    <3> QED BY <2>4 DEF Say, ExportType
  <2>7. Flow(j, exp[j], link[j], imp[j], c) /\ Flow(j, exp[j], l, imp[j], c)
    BY <1>0, FlowOf, ReadLink
  <2>8. c = <<>>
    BY <2>1, <2>7 DEF Flow, Staged
  <2> HIDE DEF f, m, e, l, c
  <2>9. \A s \in Slots(j) \ risk : node[Src(j)].val[s] = acked[s]
    BY <2>1, SourceHasAll DEF ExportInProgress
  <2>10. Flow(j, e, l, imp[j], c)
    <3>1. /\ Fed(e) /\ Fed(exp[j])
          /\ e.st \notin Finished /\ e.st \notin Early
      BY <2>1, <2>6 DEF Fed, Finished, Early
    <3>2. /\ m.k \notin {"snap", "data"} /\ m \in MsgFor(j)
          /\ e.st \in ExportInProgress \ {"connecting", "granted"} => l.src
          /\ e.st \in Early => exp[j].st \in Early /\ m \in Plain
          /\ c # <<>> => e.st = "snapshotting" /\ ~e.pend
      BY <2>5, <2>6, <2>8, <3>1
    <3>3. Flow(j, exp[j], l, imp[j], c) /\ exp[j] \in ExportType(j)
      BY <2>1, <2>7
    <3> QED BY <2>6, <2>9, <3>1, <3>2, <3>3, SayFlow
  <2> QED BY <1>0, <2>1, <2>3, <2>10, FlowSteps DEF c
<1>3. CASE ~MayGrant(j)
  <2>1. Apply(FinishExport(R, j, "failed"))
    BY <1>3 DEF RequestFailover
  <2> HIDE DEF R
  <2> QED BY <1>0, <1>1, <2>1, FinishTame
<1> QED BY <1>2, <1>3

(* The source finds its connection closed.                                 *)
LEMMA SourceSeesCloseData ==
    ASSUME DataInv, NEW j \in Job, SourceSeesClose(j)
    PROVE  Data(State, acked)'
<1> DEFINE n == Src(j)
           e == [exp[j] EXCEPT !.out = <<>>, !.pend = FALSE]
           l == CloseSource(link[j])
           c == KillChild(node[n].child, {j})
           nd == [node[n] EXCEPT !.child = c]
<1>0. /\ mode' = mode /\ acked' = acked /\ "failed" \in Finished /\ "failed" # "success"
      /\ MigrationInv /\ (link[j].cut \/ ~link[j].dst)
  BY DataFacts DEF SourceSeesClose, Finished
<1>1. CASE exp[j].st = "granted"
  <2>1. Apply([State EXCEPT !.link[j] = CloseSource(@), !.exp[j].out = <<>>,
                            !.exp[j].pend = FALSE,
                            !.node[Src(j)].child = KillChild(@, {j})])
    BY <1>1 DEF SourceSeesClose
  <2>2. /\ exp' = [exp EXCEPT ![j] = e] /\ link' = [link EXCEPT ![j] = l]
        /\ imp' = [imp EXCEPT ![j] = imp[j]] /\ node' = [node EXCEPT ![n] = nd] /\ risk' = risk
    BY <1>0, <2>1, InvFacts DEF Apply, State
  <2>3. n \in Node /\ NodeOK(n, node[n]) /\ node = [m \in Node |-> node[m]]
    BY <1>0, InvFacts, ModeFacts
  <2> HIDE DEF c
  <2>4. nd.owner = node[n].owner /\ nd.val = node[n].val /\ nd.child = c
    BY <2>3 DEF NodeOK
  <2> HIDE DEF nd
  <2>5. /\ \A m \in Node : node'[m].owner = node[m].owner /\ node'[m].val = node[m].val
        /\ node'[n].child = c /\ \A m \in Node \ {n} : node'[m].child = node[m].child
    BY <2>2, <2>3, <2>4
  <2>6. e.st = "granted" /\ e.out = <<>> /\ e.pend = FALSE
    BY <1>1, JobFacts DEF ExportType
  <2>7. l.dst = link[j].dst /\ l.tot = link[j].tot /\ l.cut = link[j].cut
    BY JobFacts DEF CloseSource, LinkType
  <2> HIDE DEF e, l
  <2>8. \A k \in Job : /\ Src(k) = n /\ k \in {j} => ~Busy(After, k)
                       /\ ~(Src(k) = n /\ k \in {j}) =>
                            /\ Busy(After, k) => Busy(State, k)
                            /\ Snapshot(After, k) = Snapshot(State, k)
    <3>1. /\ After.node[n].child = KillChild(State.node[n].child, {j})
          /\ \A m \in Node \ {n} : After.node[m].child = State.node[m].child
      BY <2>5, AfterFacts, StateFacts DEF c
    <3> HIDE DEF n
    <3> QED BY <2>3, <3>1, DataFacts, KilledBusy
  <2>9. Snapshot(After, j) = <<>>
    BY <2>8 DEF Snapshot
  <2>10. Shifts(j, e, l, imp[j])
    <3>1. \A k \in Job \ {j} : /\ Busy(After, k) => Busy(State, k)
                               /\ Snapshot(After, k) = Snapshot(State, k)
      BY <2>8
    <3> QED BY <1>0, <2>2, <2>5, <2>6, <3>1 DEF Shifts
  <2>11. Flow(j, exp[j], link[j], imp[j], Snapshot(State, j))
    BY FlowOf
  <2>12. Staged(j, e, l, imp[j], <<>> # <<>>)
    BY <2>6, <2>7, <2>11 DEF Flow, Staged, Early, Finished
  <2>13. Flow(j, e, l, imp[j], <<>>)
    BY <1>0, <2>6, <2>7, <2>11, <2>12 DEF Flow, Early
  <2> QED BY <2>9, <2>10, <2>13, FlowData
<1>2. CASE exp[j].st # "granted"
  <2>1. Apply(FinishExport(State, j, "failed"))
    BY <1>2 DEF SourceSeesClose
  <2> QED BY <1>0, <2>1, DataFacts, TameReflexive, FinishTame
<1> QED BY <1>1, <1>2

(* The target finds its connection closed.                                 *)
LEMMA TargetSeesCloseData ==
    ASSUME DataInv, NEW j \in Job, TargetSeesClose(j)
    PROVE  Data(State, acked)'
<1> DEFINE l == CloseTarget(link[j])
<1>0. mode' = mode /\ acked' = acked /\ MigrationInv
  BY DataFacts DEF TargetSeesClose
<1>1. CASE imp[j] \in ImportInProgress
  <2>1. Apply(FailImports(State, {j})) /\ {j} \subseteq Job
    BY <1>1 DEF TargetSeesClose
  <2>2. \A k \in {j} : imp[k] \in Importing
    BY <1>1 DEF Importing
  <2> QED BY <1>0, <2>1, <2>2, FailTame
<1>2. CASE imp[j] \notin ImportInProgress
  <2>1. Apply([State EXCEPT !.link[j] = CloseTarget(@)])
    BY <1>2 DEF TargetSeesClose
  <2>2. /\ exp' = [exp EXCEPT ![j] = exp[j]] /\ link' = [link EXCEPT ![j] = l]
        /\ imp' = [imp EXCEPT ![j] = imp[j]] /\ node' = node /\ risk' = risk
    BY <1>0, <2>1, InvFacts DEF Apply, State
  <2>3. ~l.dst /\ l.src = link[j].src /\ l.tot = <<>> /\ l.tos = link[j].tos
    BY JobFacts, CloseTargetTame
  <2> HIDE DEF l
  <2>4. Flow(j, exp[j], link[j], imp[j], Snapshot(State, j))
    BY FlowOf
  <2>5. <<>> \in Seq(Plain) /\ <<>> \in Seq(NoEof(j))
    OBVIOUS
  <2>6. Flow(j, exp[j], l, imp[j], Snapshot(State, j))
    BY <1>2, <2>3, <2>4, <2>5 DEF Flow, Staged
  <2> QED BY <1>0, <2>2, <2>6, FlowSteps
<1> QED BY <1>1, <1>2

(* The connection breaks.                                                  *)
LEMMA LinkBreaksData ==
    ASSUME DataInv, NEW j \in Job, LinkBreaks(j)
    PROVE  Data(State, acked)'
<1> DEFINE l == [link[j] EXCEPT !.cut = TRUE, !.tot = <<>>, !.tos = <<>>]
<1>1. link' = [link EXCEPT ![j] = l]
  BY DataFacts, InvFacts DEF LinkBreaks
<1>2. <<>> \in Seq(Plain) /\ <<>> \in Seq(NoEof(j)) /\ <<>> \in Seq(Answers)
  OBVIOUS
<1>3. l.cut = TRUE /\ l.src = link[j].src /\ l.tot = <<>> /\ l.tos = <<>>
  BY JobFacts DEF LinkType
<1> HIDE DEF l
<1>4. Flow(j, exp[j], link[j], imp[j], Snapshot(State, j))
  BY FlowOf
<1>5. Flow(j, exp[j], l, imp[j], Snapshot(State, j))
  BY <1>2, <1>3, <1>4 DEF Flow, Staged
<1>6. /\ mode' = mode /\ acked' = acked /\ node' = node /\ risk' = risk
      /\ exp' = [exp EXCEPT ![j] = exp[j]] /\ imp' = [imp EXCEPT ![j] = imp[j]]
  BY JobFacts DEF LinkBreaks
<1> QED BY <1>1, <1>5, <1>6, FlowSteps

-------------------------------------------------------------------------------
(* The steps of the target.                                                *)

(* The target has taken a command from the connection.                     *)
LEMMA ExecutedLink ==
    ASSUME DataInv, NEW j \in Job, NEW k, Arrives(j, k), NEW l,
           l = [link[j] EXCEPT !.tot = Tail(@)]
    PROVE  /\ l \in LinkType(j) /\ l.src = link[j].src /\ l.dst = link[j].dst
           /\ l.cut = link[j].cut /\ l.tos = link[j].tos /\ l.tot = Tail(link[j].tot)
           /\ link[j].dst /\ link[j].tot \in Seq(MsgFor(j)) /\ link[j].tot # <<>>
           /\ Head(link[j].tot) \in MsgFor(j) /\ Head(link[j].tot).k = k
           /\ link[j].tot \in Seq(Plain) => l.tot \in Seq(Plain)
           /\ link[j].tot \in Seq(NoEof(j)) => l.tot \in Seq(NoEof(j))
           /\ k \notin {"establish", "ack"} =>
                imp[j] \in ImportInProgress /\ ~link[j].cut /\ exp[j].st \notin Early
           /\ k = "eof" => Snapshot(State, j) = <<>>
<1>1. /\ l \in LinkType(j) /\ link[j].dst /\ Head(link[j].tot) \in MsgFor(j)
      /\ Head(link[j].tot).k = k
  BY DataFacts, ExecutedFacts
<1>2. /\ l.src = link[j].src /\ l.dst = link[j].dst /\ l.cut = link[j].cut
      /\ l.tos = link[j].tos /\ l.tot = Tail(link[j].tot)
  BY JobFacts DEF LinkType
<1>3. link[j].tot \in Seq(MsgFor(j)) /\ link[j].tot # <<>>
  BY JobFacts DEF Arrives
<1>4. /\ link[j].tot \in Seq(Plain) =>
           Tail(link[j].tot) \in Seq(Plain) /\ Head(link[j].tot) \in Plain
      /\ link[j].tot \in Seq(NoEof(j)) =>
           Tail(link[j].tot) \in Seq(NoEof(j)) /\ Head(link[j].tot) \in NoEof(j)
  BY <1>3, TailOK
<1>5. Staged(j, exp[j], link[j], imp[j], Snapshot(State, j) # <<>>)
  BY FlowOf DEF Flow
<1>6. k \notin {"establish", "ack"} => link[j].tot \notin Seq(Plain)
  BY <1>1, <1>4 DEF Plain
<1>7. k = "eof" => link[j].tot \notin Seq(NoEof(j))
  BY <1>1, <1>4 DEF NoEof
<1> QED BY <1>1, <1>2, <1>3, <1>4, <1>5, <1>6, <1>7 DEF Staged

(* What a target answers.                                                  *)
LEMMA AnsweredLink ==
    ASSUME NEW j, NEW l \in LinkType(j), NEW a \in Reply, NEW m, m = ToSource(l, a)
    PROVE  /\ m.src = l.src /\ m.dst = l.dst /\ m.cut = l.cut /\ m.tot = l.tot
           /\ a \in Answers /\ l.tos \in Seq(Answers) => m.tos \in Seq(Answers)
<1>1. CASE l.cut \/ ~l.src
  BY <1>1 DEF ToSource
<1>2. CASE ~(l.cut \/ ~l.src)
  <2>1. m = [l EXCEPT !.tos = Append(@, a)]
    BY <1>2 DEF ToSource
  <2>2. /\ m.src = l.src /\ m.dst = l.dst /\ m.cut = l.cut /\ m.tot = l.tot
        /\ m.tos = Append(l.tos, a)
    BY <2>1 DEF LinkType
  <2>3. a \in Answers /\ l.tos \in Seq(Answers) => Append(l.tos, a) \in Seq(Answers)
    BY AppendProperties
  <2> QED BY <2>2, <2>3
<1> QED BY <1>1, <1>2

(* The keys of the target of an import.                                    *)
LEMMA StartOK ==
    ASSUME DataInv, NEW j \in Job, NEW s \in Slots(j), NEW g \in BOOLEAN
    PROVE  [v |-> node[Dst(j)].val[s], g |-> g] \in Copy
<1>1. node[Dst(j)].val[s] \in Seq(Nat)
  BY DataFacts, InvFacts, ModeFacts DEF NodeOK
<1> QED BY <1>1 DEF Copy

(* The target has executed a command that is no keys, and may have         *)
(* answered.  When the failover is granted it has every write.             *)
LEMMA ExecutedFlow ==
    ASSUME DataInv, NEW j \in Job, NEW k, Arrives(j, k), k \notin {"snap", "data"},
           NEW l, l = [link[j] EXCEPT !.tot = Tail(@)],
           NEW m, m.src = l.src, m.dst = l.dst, m.cut = l.cut, m.tot = l.tot,
           k # "eof" /\ l.tos \in Seq(Answers) => m.tos \in Seq(Answers),
           NEW i, i \in ImportInProgress <=> imp[j] \in ImportInProgress,
           i = "granted" <=> imp[j] = "granted" \/ (k = "granted" /\ i \in ImportInProgress)
    PROVE  Flow(j, exp[j], m, i, Snapshot(State, j))
<1> DEFINE c == Snapshot(State, j)
           h == Head(link[j].tot)
<1>1. /\ l.src = link[j].src /\ l.dst = link[j].dst
      /\ l.cut = link[j].cut /\ l.tos = link[j].tos /\ l.tot = Tail(link[j].tot)
      /\ link[j].dst /\ link[j].tot \in Seq(MsgFor(j)) /\ link[j].tot # <<>>
      /\ h.k = k
      /\ link[j].tot \in Seq(Plain) => l.tot \in Seq(Plain)
      /\ link[j].tot \in Seq(NoEof(j)) => l.tot \in Seq(NoEof(j))
      /\ k \notin {"establish", "ack"} =>
            imp[j] \in ImportInProgress /\ ~link[j].cut /\ exp[j].st \notin Early
      /\ k = "eof" => c = <<>>
  BY ExecutedLink
<1>2. Flow(j, exp[j], link[j], imp[j], c)
  BY FlowOf
<1> HIDE DEF c, h
<1>3. Staged(j, exp[j], m, i, c # <<>>)
  BY <1>1, <1>2 DEF Flow, Staged
<1>4. ASSUME i \in ImportInProgress, m.dst, ~m.cut, NEW s \in Slots(j) \ risk
      PROVE  /\ Brings(s, acked[s], m.tot, c, exp[j].out,
                     [v |-> node[Dst(j)].val[s], g |-> (i = "granted")],
                     Fed(exp[j]), node[Src(j)].val[s])
             /\ k = "granted" => node[Dst(j)].val[s] = acked[s]
  <2> DEFINE x == [v |-> node[Dst(j)].val[s], g |-> (imp[j] = "granted")]
             y == [v |-> node[Dst(j)].val[s], g |-> (i = "granted")]
             p == link[j].tot
             o == exp[j].out
             f == Fed(exp[j])
             w == node[Src(j)].val[s]
             a == acked[s]
  <2>1. Brings(s, a, p, c, o, x, f, w) /\ p \in Seq(MsgFor(j)) /\ p # <<>>
    BY <1>1, <1>2, <1>4 DEF Flow
  <2>2. Head(p) = h /\ m.tot = Tail(p)
    BY <1>1 DEF h
  <2> HIDE DEF p, o, f, w, a
  <2>3. Effect(s, x, h) = y
    <3>1. Effect(s, x, h) = [v |-> x.v, g |-> (x.g \/ h.k = "granted")]
      BY <1>1 DEF Effect
    <3>2. x.v = y.v /\ ((x.g \/ h.k = "granted") <=> (i = "granted"))
      BY <1>1, <1>4
    <3> QED BY <3>1, <3>2
  <2> HIDE DEF x
  <2>4. Brings(s, a, Tail(p), c, o, Effect(s, x, Head(p)), f, w)
        /\ Sound(a, Effect(s, x, Head(p)))
    BY <2>1, BringsRead
  <2>5. Brings(s, a, Tail(p), c, o, y, f, w) /\ Sound(a, y)
    BY <2>2, <2>3, <2>4
  <2>6. k = "granted" => y.v = a
    <3>1. k = "granted" => y.g
      BY <1>4
    <3> QED BY <2>5, <3>1 DEF Sound
  <2> QED BY <2>2, <2>5, <2>6 DEF a, o, f, w
<1>5. i = "granted" => \A s \in Slots(j) \ risk : node[Dst(j)].val[s] = acked[s]
  BY <1>1, <1>2, <1>4 DEF Flow, ImportInProgress
<1>6. i \in ImportInProgress =>
        /\ \A s \in Slots(j) : node[Dst(j)].owner[s] # Dst(j)
        /\ exp[j].st \in Early => \A s \in Slots(j) : node[Dst(j)].val[s] = <<>>
  BY <1>2 DEF Flow
<1> QED BY <1>3, <1>4, <1>5, <1>6 DEF Flow, c

(* ACK arrives.                                                            *)
LEMMA AckData ==
    ASSUME DataInv, NEW j \in Job, SyncSlotsAck(j)
    PROVE  Data(State, acked)'
<1> DEFINE l == [link[j] EXCEPT !.tot = Tail(@)]
           i == IF imp[j] = "wait_ack" THEN "snapshot" ELSE imp[j]
<1>0. /\ mode' = mode /\ acked' = acked /\ Arrives(j, "ack") /\ MigrationInv
  BY DataFacts DEF SyncSlotsAck
<1>1. /\ exp' = [exp EXCEPT ![j] = exp[j]] /\ link' = [link EXCEPT ![j] = l]
      /\ node' = node /\ imp' = [imp EXCEPT ![j] = i] /\ risk' = risk
  BY <1>0, InvFacts DEF SyncSlotsAck, Apply, Executed, State
<1>2. /\ i \in ImportInProgress <=> imp[j] \in ImportInProgress
      /\ i = "granted" <=> imp[j] = "granted"
      /\ i \in Importing => imp[j] \in Importing
  BY DEF Importing, ImportInProgress
<1> HIDE DEF i
<1>3. Flow(j, exp[j], l, i, Snapshot(State, j))
  BY <1>0, <1>2, ExecutedFlow
<1> HIDE DEF l
<1> QED BY <1>0, <1>1, <1>2, <1>3, FlowSteps

(* An import fails at the command it executes.                             *)
LEMMA ExecutedFails ==
    ASSUME DataInv, NEW j \in Job, imp[j] \in ImportInProgress, mode' = mode,
           acked' = acked, Apply(FailImports(Executed(j), {j}))
    PROVE  Data(State, acked)'
<1>1. FailImports(Executed(j), {j}) = FailImports(State, {j})
  <2> DEFINE l == [link[j] EXCEPT !.tot = Tail(@)]
  <2>1. CloseTarget(l) = CloseTarget(link[j])
    BY JobFacts DEF CloseTarget, LinkType
  <2>2. link = [k \in Job |-> link[k]] /\ IsState(State)
    BY DataFacts, InvFacts
  <2>3. Executed(j).link = [link EXCEPT ![j] = l] /\ Executed(j).imp = imp
        /\ Executed(j).node = node /\ Executed(j).exp = exp /\ Executed(j).risk = risk
        /\ Executed(j).asserts = asserts
    BY DEF Executed, State
  <2>4. [k \in Job |-> IF k \in {j} THEN CloseTarget(Executed(j).link[k])
                       ELSE Executed(j).link[k]]
        = [k \in Job |-> IF k \in {j} THEN CloseTarget(link[k]) ELSE link[k]]
    <3> HIDE DEF l
    <3> QED BY <2>1, <2>2, <2>3
  <2> DEFINE L == [k \in Job |-> IF k \in {j} THEN CloseTarget(link[k]) ELSE link[k]]
             I == [k \in Job |-> IF k \in {j} THEN "cleaning" ELSE imp[k]]
  <2>5. FailImports(State, {j}) = [State EXCEPT !.imp = I, !.link = L]
    BY StateFacts DEF FailImports
  <2>6. FailImports(Executed(j), {j}) = [Executed(j) EXCEPT !.imp = I, !.link = L]
    BY <2>3, <2>4 DEF FailImports
  <2>7. [Executed(j) EXCEPT !.imp = I, !.link = L] = [State EXCEPT !.imp = I, !.link = L]
    <3> HIDE DEF I, L
    <3> QED BY DEF Executed, State
  <2> QED BY <2>5, <2>6, <2>7
<1>2. {j} \subseteq Job /\ \A k \in {j} : imp[k] \in Importing
  BY DEF Importing
<1> QED BY <1>1, <1>2, FailTame

(* SNAPSHOT-EOF or PAUSED arrives.                                         *)
LEMMA MarkerData ==
    ASSUME DataInv, NEW j \in Job, NEW k \in {"eof", "paused"},
           NEW from \in ImportInProgress \ {"granted"}, NEW answer \in Reply,
           answer \in Answers \/ k = "eof", NEW to \in ImportInProgress \ {"granted"},
           Marker(j, k, from, answer, to)
    PROVE  Data(State, acked)'
<1> DEFINE l == [link[j] EXCEPT !.tot = Tail(@)]
           m == ToSource(l, answer)
<1>0. mode' = mode /\ acked' = acked /\ Arrives(j, k) /\ MigrationInv
  BY DataFacts DEF Marker
<1>1. l \in LinkType(j) /\ imp[j] \in ImportInProgress
  BY <1>0, ExecutedLink
<1>2. CASE imp[j] = from
  <2>1. /\ exp' = [exp EXCEPT ![j] = exp[j]] /\ link' = [link EXCEPT ![j] = m]
        /\ node' = node /\ imp' = [imp EXCEPT ![j] = to] /\ risk' = risk
    BY <1>0, <1>2, InvFacts DEF Marker, Apply, Executed, State
  <2>2. /\ m.src = l.src /\ m.dst = l.dst /\ m.cut = l.cut /\ m.tot = l.tot
        /\ answer \in Answers /\ l.tos \in Seq(Answers) => m.tos \in Seq(Answers)
    <3> HIDE DEF l
    <3> QED BY <1>1, AnsweredLink
  <2>3. k \notin {"snap", "data"}
    OBVIOUS
  <2> HIDE DEF m
  <2>4. Flow(j, exp[j], m, to, Snapshot(State, j))
    <3>1. k # "eof" /\ l.tos \in Seq(Answers) => m.tos \in Seq(Answers)
      BY <2>2
    <3>2. /\ to \in ImportInProgress <=> imp[j] \in ImportInProgress
          /\ to = "granted" <=> imp[j] = "granted" \/ (k = "granted" /\ to \in ImportInProgress)
      BY <1>1, <1>2
    <3> QED BY <1>0, <2>2, <2>3, <3>1, <3>2, ExecutedFlow
  <2>5. to \in Importing => imp[j] \in Importing
    BY <1>1 DEF Importing
  <2> QED BY <1>0, <2>1, <2>4, <2>5, FlowSteps
<1>3. CASE imp[j] # from
  <2>1. Apply(FailImports(Executed(j), {j}))
    BY <1>3 DEF Marker
  <2> QED BY <1>0, <1>1, <2>1, ExecutedFails
<1> QED BY <1>2, <1>3

(* FAILOVER-GRANTED arrives: the import has every write.                   *)
LEMMA FailoverGrantedData ==
    ASSUME DataInv, NEW j \in Job, SyncSlotsFailoverGranted(j)
    PROVE  Data(State, acked)'
<1> DEFINE l == [link[j] EXCEPT !.tot = Tail(@)]
<1>0. mode' = mode /\ acked' = acked /\ Arrives(j, "granted") /\ MigrationInv
  BY DataFacts DEF SyncSlotsFailoverGranted
<1>1. l \in LinkType(j) /\ imp[j] \in ImportInProgress
  BY <1>0, ExecutedLink
<1>2. CASE imp[j] = "requested"
  <2>1. /\ exp' = [exp EXCEPT ![j] = exp[j]] /\ link' = [link EXCEPT ![j] = l]
        /\ node' = node /\ imp' = [imp EXCEPT ![j] = "granted"] /\ risk' = risk
    BY <1>0, <1>2, InvFacts DEF SyncSlotsFailoverGranted, Apply, Executed, State
  <2>2. "granted" \in ImportInProgress
    BY DEF ImportInProgress
  <2>3. Flow(j, exp[j], l, "granted", Snapshot(State, j))
    BY <1>0, <1>1, <2>2, ExecutedFlow
  <2>4. "granted" \in Importing => imp[j] \in Importing
    BY <1>1 DEF Importing
  <2> HIDE DEF l
  <2> QED BY <1>0, <2>1, <2>3, <2>4, FlowSteps
<1>3. CASE imp[j] # "requested"
  <2>1. Apply(FailImports(Executed(j), {j}))
    BY <1>3 DEF SyncSlotsFailoverGranted
  <2> QED BY <1>0, <1>1, <2>1, ExecutedFails
<1> QED BY <1>2, <1>3

(* Steps that only fail an import.                                         *)
LEMMA ImportEndsData ==
    ASSUME DataInv, NEW j \in Job, ImportFails(j) \/ ImportTimesOut(j)
    PROVE  Data(State, acked)'
<1>0. mode' = mode /\ acked' = acked
  BY DEF ImportFails, ImportTimesOut
<1>1. CASE ImportFails(j)
  <2>1. Apply(FailImports(Executed(j), {j})) /\ \E k \in {"snap", "data"} : Arrives(j, k)
    BY <1>1 DEF ImportFails
  <2>2. imp[j] \in ImportInProgress
    BY <2>1, ExecutedLink
  <2> QED BY <1>0, <2>1, <2>2, ExecutedFails
<1>2. CASE ImportTimesOut(j)
  <2>1. Apply(FailImports(State, {j})) /\ imp[j] \in ImportInProgress /\ {j} \subseteq Job
    BY <1>2 DEF ImportTimesOut
  <2>2. \A k \in {j} : imp[k] \in Importing
    BY <2>1 DEF Importing
  <2> QED BY <1>0, <2>1, <2>2, FailTame
<1> QED BY <1>1, <1>2

(* The target accepts ESTABLISH: it has no keys of the slots and nobody    *)
(* else brings it any.                                                     *)
LEMMA AcceptsFlow ==
    ASSUME DataInv, NEW j \in Job, Arrives(j, "establish"),
           NEW l, l = [link[j] EXCEPT !.tot = Tail(@)],
           NEW m, m.src = l.src, m.dst = l.dst, m.cut = l.cut, m.tot = l.tot,
           l.tos \in Seq(Answers) => m.tos \in Seq(Answers),
           \A s \in Slots(j) : /\ node[Dst(j)].owner[s] = Src(j)
                               /\ ~IsSlotImporting(State, Dst(j), s)
    PROVE  /\ imp[j] \notin Importing
           /\ Flow(j, exp[j], m, "wait_ack", Snapshot(State, j))
<1> DEFINE c == Snapshot(State, j)
<1>1. /\ l.src = link[j].src /\ l.dst = link[j].dst /\ l.cut = link[j].cut
      /\ l.tos = link[j].tos /\ link[j].dst
      /\ link[j].tot \in Seq(Plain) => l.tot \in Seq(Plain)
      /\ link[j].tot \in Seq(NoEof(j)) => l.tot \in Seq(NoEof(j))
  BY ExecutedLink
<1>2. Flow(j, exp[j], link[j], imp[j], c)
  BY FlowOf
<1>3. Src(j) \in Node /\ Dst(j) \in Node /\ Slots(j) \subseteq Slot /\ Slots(j) # {}
  BY DataFacts, ModeFacts
<1>4. imp[j] \notin Importing
  <2>1. PICK s \in Slots(j) : ~IsSlotImporting(State, Dst(j), s)
    BY <1>3
  <2> QED BY <2>1, StateFacts DEF IsSlotImporting, Imports, Importing
<1>5. imp[j] \notin ImportInProgress /\ Unopened(exp[j], link[j])
  BY <1>1, <1>4, JobFacts DEF Importing
<1>6. exp[j].st \in Early \/ exp[j].st \in Finished
  BY <1>5, JobFacts DEF Unopened, Fed, ExportType, ExportInProgress, Early
<1>7. c = <<>>
  BY <1>2, <1>5 DEF Flow, Staged, Unopened, Fed
<1>8. link[j].tot \in Seq(Plain) /\ m.tot \in Seq(Plain)
  BY <1>1, <1>2, <1>5 DEF Flow, Staged
<1>9. exp[j].out \in Seq(Plain)
  <2>1. <<>> \in Seq(Plain)
    OBVIOUS
  <2> QED BY <1>2, <1>6, <2>1 DEF Flow, Staged
<1> HIDE DEF c
<1>10. Staged(j, exp[j], m, "wait_ack", c # <<>>)
  BY <1>1, <1>2, <1>7, <1>8 DEF Flow, Staged
<1>11. \A s \in Slots(j) : node[Dst(j)].owner[s] # Dst(j)
  <2>1. Src(j) # Dst(j)
    BY DataFacts, TargetAssumption DEF Src, Dst
  <2> QED BY <2>1
<1>12. ASSUME NEW s \in Slots(j) PROVE node[Dst(j)].val[s] = <<>>
  <2>1. s \in Slot /\ CleanBut(State, Dst(j), {})
    BY <1>3, DataFacts DEF Clean
  <2> QED BY <1>3, <1>11, <2>1, StateFacts DEF CleanBut
<1>13. ASSUME NEW s \in Slots(j)
       PROVE  Brings(s, acked[s], m.tot, c, exp[j].out,
                     [v |-> node[Dst(j)].val[s], g |-> ("wait_ack" = "granted")],
                     Fed(exp[j]), node[Src(j)].val[s])
  <2> DEFINE x == [v |-> node[Dst(j)].val[s], g |-> ("wait_ack" = "granted")]
  <2>1. x \in Copy /\ ~x.g
    BY StartOK
  <2> HIDE DEF x
  <2>2. Sound(acked[s], x)
    BY <2>1 DEF Sound
  <2>3. /\ Turns(s, acked[s], m.tot, x, x) /\ Turns(s, acked[s], c, x, x)
        /\ Turns(s, acked[s], exp[j].out, x, x)
    BY <1>7, <1>8, <1>9, <2>1, <2>2, TurnsPlain, TurnsEmpty
  <2>4. ~Fed(exp[j])
    BY <1>5 DEF Unopened
  <2> QED BY <2>1, <2>3, <2>4 DEF Brings, x
<1>14. Flow(j, exp[j], m, "wait_ack", c)
  BY <1>10, <1>11, <1>12, <1>13 DEF Flow
<1> QED BY <1>4, <1>14 DEF c

(* ESTABLISH arrives.                                                      *)
LEMMA EstablishData ==
    ASSUME DataInv, NEW j \in Job, SyncSlotsEstablish(j)
    PROVE  Data(State, acked)'
<1> DEFINE n == Dst(j)
           valid == \A s \in Slots(j) : /\ node[n].owner[s] = Src(j)
                                        /\ ~IsSlotImporting(State, n, s)
           l == [link[j] EXCEPT !.tot = Tail(@)]
           ok == ToSource(l, "ok")
           no == ToSource(l, "error")
<1>0. mode' = mode /\ acked' = acked /\ Arrives(j, "establish") /\ MigrationInv
  BY DataFacts DEF SyncSlotsEstablish
<1>1. l \in LinkType(j)
  BY <1>0, ExecutedLink
<1>2. "ok" \in Reply /\ "error" \in Reply /\ "ok" \in Answers /\ "error" \in Answers
  BY DEF Reply, Answers
<1>3. CASE valid
  <2>1. Apply([Executed(j) EXCEPT !.imp[j] = "wait_ack", !.link[j] = ToSource(@, "ok")])
    BY <1>3, Zenon DEF SyncSlotsEstablish
  <2>2. /\ exp' = [exp EXCEPT ![j] = exp[j]] /\ link' = [link EXCEPT ![j] = ok]
        /\ node' = node /\ imp' = [imp EXCEPT ![j] = "wait_ack"] /\ risk' = risk
    BY <1>0, <2>1, InvFacts DEF Apply, Executed, State
  <2>3. /\ ok.src = l.src /\ ok.dst = l.dst /\ ok.cut = l.cut /\ ok.tot = l.tot
        /\ l.tos \in Seq(Answers) => ok.tos \in Seq(Answers)
    <3> HIDE DEF l
    <3> QED BY <1>1, <1>2, AnsweredLink
  <2> HIDE DEF ok
  <2>4. /\ imp[j] \notin Importing
        /\ Flow(j, exp[j], ok, "wait_ack", Snapshot(State, j))
    BY <1>0, <1>3, <2>3, AcceptsFlow
  <2>5. OneImport(After)
    <3>1. ASSUME NEW i \in Job, i # j, Dst(i) = Dst(j), Slots(i) \cap Slots(j) # {},
                 imp[i] \in Importing
          PROVE  FALSE
      <4>1. PICK s \in Slots(j) : s \in Slots(i)
        BY <3>1
      <4>2. IsSlotImporting(State, n, s)
        BY <3>1, <4>1, StateFacts DEF IsSlotImporting, Imports, Importing
      <4> QED BY <1>3, <4>2
    <3>2. \A i \in Job \ {j} : imp'[i] = imp[i]
      BY <1>0, <2>2, InvFacts
    <3>3. OneImport(State)
      BY DataFacts DEF Data
    <3>4. ASSUME NEW a \in Job, NEW b \in Job, Dst(a) = Dst(b), Slots(a) \cap Slots(b) # {},
                 imp'[a] \in Importing, imp'[b] \in Importing
          PROVE  a = b
      <4>1. CASE a = j
        BY <3>1, <3>2, <3>4, <4>1
      <4>2. CASE b = j
        <5>1. Slots(b) \cap Slots(a) = Slots(a) \cap Slots(b)
          OBVIOUS
        <5> QED BY <3>1, <3>2, <3>4, <4>2, <5>1
      <4>3. CASE a # j /\ b # j
        BY <3>2, <3>3, <3>4, <4>3, StateFacts DEF OneImport
      <4> QED BY <4>1, <4>2, <4>3
    <3> QED BY <3>4, AfterFacts DEF OneImport
  <2> HIDE DEF l
  <2> QED BY <1>0, <2>2, <2>4, <2>5, FlowSteps
<1>4. CASE ~valid
  <2>1. Apply([Executed(j) EXCEPT !.link[j] = ToSource(@, "error")])
    BY <1>4, Zenon DEF SyncSlotsEstablish
  <2>2. /\ exp' = [exp EXCEPT ![j] = exp[j]] /\ link' = [link EXCEPT ![j] = no]
        /\ node' = node /\ imp' = [imp EXCEPT ![j] = imp[j]] /\ risk' = risk
    BY <1>0, <2>1, InvFacts DEF Apply, Executed, State
  <2>3. /\ no.src = l.src /\ no.dst = l.dst /\ no.cut = l.cut /\ no.tot = l.tot
        /\ l.tos \in Seq(Answers) => no.tos \in Seq(Answers)
    <3> HIDE DEF l
    <3> QED BY <1>1, <1>2, AnsweredLink
  <2> HIDE DEF no
  <2>4. Flow(j, exp[j], no, imp[j], Snapshot(State, j))
    <3> DEFINE k == "establish"
    <3>1. k \notin {"snap", "data", "granted"} /\ Arrives(j, k)
      BY <1>0
    <3> HIDE DEF k, l
    <3>2. imp[j] = "granted" <=>
            imp[j] = "granted" \/ (k = "granted" /\ imp[j] \in ImportInProgress)
      BY <3>1
    <3> QED BY <2>3, <3>1, <3>2, ExecutedFlow DEF l
  <2> HIDE DEF l
  <2> QED BY <1>0, <2>2, <2>4, FlowSteps
<1> QED BY <1>3, <1>4

(* Keys arrive: the target of an import does not own the slots, and no     *)
(* other job fills them or exports them there.                             *)
LEMMA KeysData ==
    ASSUME DataInv, NEW j \in Job, NEW k \in {"snap", "data"}, Arrives(j, k),
           NEW n, n = Dst(j), NEW V \in [Slot -> Seq(Nat)],
           \A s \in Slot \ Slots(j) : V[s] = node[n].val[s],
           \A s \in Slots(j) :
              V[s] = Effect(s, [v |-> node[n].val[s], g |-> (imp[j] = "granted")],
                            Head(link[j].tot)).v,
           NEW l, l = [link[j] EXCEPT !.tot = Tail(@)],
           exp' = exp, imp' = imp, link' = [link EXCEPT ![j] = l], risk' = risk,
           node' = [node EXCEPT ![n] = [node[n] EXCEPT !.val = V]],
           mode' = mode, acked' = acked
    PROVE  Data(State, acked)'
<1> DEFINE h == Head(link[j].tot)
           c == Snapshot(State, j)
<1>1. /\ l.src = link[j].src /\ l.dst = link[j].dst
      /\ l.cut = link[j].cut /\ l.tos = link[j].tos /\ l.tot = Tail(link[j].tot)
      /\ link[j].dst /\ link[j].tot \in Seq(MsgFor(j)) /\ link[j].tot # <<>>
      /\ h \in MsgFor(j) /\ h.k = k
      /\ link[j].tot \in Seq(NoEof(j)) => l.tot \in Seq(NoEof(j))
      /\ imp[j] \in ImportInProgress /\ ~link[j].cut /\ exp[j].st \notin Early
  BY ExecutedLink
<1>2. /\ n \in Node /\ NodeOK(n, node[n]) /\ node = [m \in Node |-> node[m]]
      /\ link = [i \in Job |-> link[i]]
      /\ Src(j) \in Node /\ Slots(j) \subseteq Slot /\ Src(j) # n
  <2>1. Src(j) # Dst(j)
    BY DataFacts, TargetAssumption DEF Src, Dst
  <2> QED BY <2>1, DataFacts, InvFacts, ModeFacts
<1>3. /\ node'[n].owner = node[n].owner /\ node'[n].child = node[n].child
      /\ node'[n].val = V /\ \A m \in Node \ {n} : node'[m] = node[m]
  BY <1>2 DEF NodeOK
<1>4. \A i \in Job : /\ Busy(After, i) <=> Busy(State, i)
                     /\ Snapshot(After, i) = Snapshot(State, i)
  BY <1>3, AfterFacts, StateFacts, DataFacts, ModeFacts DEF Busy, Snapshot
<1>5. Flow(j, exp[j], link[j], imp[j], c)
  BY FlowOf
<1>6. \A s \in Slots(j) : node[n].owner[s] # n
  BY <1>1, <1>5 DEF Flow
<1>7. link'[j] = l /\ \A i \in Job \ {j} : link'[i] = link[i]
  BY <1>2
<1>8. OneImport(After)
  BY DataFacts, AfterFacts, StateFacts DEF Data, OneImport
<1>9. ASSUME NEW m \in Node, NEW s \in Slot \ After.risk, Holds(After, m, s)
      PROVE  Holds(State, m, s) /\ After.node[m].val[s] = node[m].val[s]
  <2>1. node'[m].owner = node[m].owner
    BY <1>3
  <2>2. Holds(State, m, s)
    BY <1>9, <2>1, AfterFacts, StateFacts DEF Holds, SlotFailoverGranted
  <2>3. node[m].owner[s] = m
    BY <2>2, StateFacts DEF Holds
  <2>4. node'[m].val[s] = node[m].val[s]
    BY <1>3, <1>6, <2>3
  <2> QED BY <2>2, <2>4, AfterFacts
<1>10. ASSUME NEW s \in Slots(j) \ risk
       PROVE  /\ Arriving(After, acked, j, s)
              /\ imp[j] = "granted" => V[s] = acked[s]
  <2> DEFINE x == [v |-> node[n].val[s], g |-> (imp[j] = "granted")]
             y == Effect(s, x, h)
             p == link[j].tot
             o == exp[j].out
             f == Fed(exp[j])
             w == node[Src(j)].val[s]
             a == acked[s]
  <2>1. Brings(s, a, p, c, o, x, f, w) /\ p \in Seq(MsgFor(j)) /\ p # <<>> /\ h = Head(p)
    BY <1>1, <1>5, <1>10 DEF Flow
  <2>2. y.g = (imp[j] = "granted") /\ y.v = V[s]
    <3>1. y.g = (x.g \/ h.k = "granted")
      BY DEF Effect
    <3> QED BY <1>1, <3>1
  <2>3. y = [v |-> V[s], g |-> (imp[j] = "granted")]
    <3>1. DOMAIN y = {"v", "g"} /\ y = [v |-> y.v, g |-> y.g]
      BY DEF Effect
    <3> HIDE DEF y
    <3> QED BY <2>2, <3>1
  <2> HIDE DEF p, o, f, w, a, h, c, x
  <2>4. Brings(s, a, Tail(p), c, o, y, f, w) /\ Sound(a, y)
    BY <2>1, BringsRead
  <2>5. Start(After, j, s) = [v |-> V[s], g |-> (imp[j] = "granted")]
    BY <1>3, AfterFacts DEF Start
  <2>6. /\ After.link[j].tot = Tail(p) /\ After.exp[j] = exp[j]
        /\ After.node[Src(j)].val[s] = w /\ Snapshot(After, j) = c
    BY <1>1, <1>2, <1>3, <1>4, <1>7, AfterFacts DEF p, w, c
  <2> HIDE DEF y
  <2>7. Arriving(After, acked, j, s)
    BY <2>3, <2>4, <2>5, <2>6 DEF Arriving, o, f, a
  <2>8. imp[j] = "granted" => V[s] = acked[s]
    BY <2>2, <2>4 DEF Sound, a
  <2> QED BY <2>7, <2>8
<1>11. JobData(After, acked, j)
  <2>1. Staged(j, After.exp[j], After.link[j], After.imp[j], Busy(After, j))
    <3>1. Busy(After, j) <=> c # <<>>
      BY <1>4, SnapshotBusy
    <3>2. Staged(j, exp[j], link[j], imp[j], c # <<>>)
      BY <1>5 DEF Flow
    <3> HIDE DEF c
    <3>3. Staged(j, exp[j], l, imp[j], Busy(After, j))
      BY <1>1, <3>1, <3>2 DEF Staged
    <3> QED BY <1>7, <3>3, AfterFacts
  <2>2. Copied(After, acked, j)
    BY <1>1, <1>3, <1>6, <1>7, <1>10, AfterFacts DEF Copied
  <2> QED BY <2>1, <2>2 DEF JobData
<1>12. ASSUME NEW i \in Job, i # j PROVE TameJob(State, After, i)
  <2>1. Src(i) \in Node /\ Dst(i) \in Node /\ Slots(i) \subseteq Slot /\ mode \in Modes
    BY DataFacts, ModeFacts
  <2>2. /\ After.exp[i] = exp[i] /\ After.link[i] = link[i] /\ After.imp[i] = imp[i]
        /\ After.node = node'
    BY <1>7, <1>12, AfterFacts
  <2>3. ASSUME NEW s \in Slots(i), imp[i] \in ImportInProgress
        PROVE  node'[Dst(i)].val[s] = node[Dst(i)].val[s]
    <3>1. Dst(i) = n => s \notin Slots(j)
      BY <1>1, <1>12, <2>3, DataFacts, StateFacts DEF Data, OneImport, Importing
    <3> QED BY <1>3, <2>1, <3>1
  <2>4. ASSUME NEW s \in Slots(i), Fed(exp[i])
        PROVE  node'[Src(i)].val[s] = node[Src(i)].val[s]
    <3>1. exp[i].st \in ExportInProgress
      BY <2>4 DEF Fed, ExportInProgress
    <3>2. node[Src(i)].owner[s] = Src(i)
      BY <3>1, DataFacts, StateFacts DEF Home
    <3>3. Src(i) = n => s \notin Slots(j)
      BY <1>6, <3>2
    <3> QED BY <1>3, <2>1, <3>3
  <2>5. node'[Dst(i)].owner = node[Dst(i)].owner
    BY <1>3, <2>1
  <2>6. /\ After.exp[i] = State.exp[i] /\ After.link[i] = State.link[i]
        /\ After.imp[i] = State.imp[i] /\ (Busy(After, i) => Busy(State, i))
        /\ Snapshot(After, i) = Snapshot(State, i)
    BY <1>4, <2>2, StateFacts
  <2>7. \A s \in Slots(i) :
          /\ After.imp[i] \in ImportInProgress =>
                /\ After.node[Dst(i)].val[s] = State.node[Dst(i)].val[s]
                /\ After.node[Dst(i)].owner[s] = Dst(i) => State.node[Dst(i)].owner[s] = Dst(i)
          /\ Fed(State.exp[i]) =>
                s \in After.risk \/ After.node[Src(i)].val[s] = State.node[Src(i)].val[s]
    BY <2>2, <2>3, <2>4, <2>5, StateFacts
  <2> QED BY <2>1, <2>6, <2>7, UntouchedTame
<1>13. \A i \in Job : TameJob(State, After, i) \/ JobData(After, acked, i)
  BY <1>11, <1>12
<1>14. risk \subseteq After.risk
  BY AfterFacts
<1> QED BY <1>8, <1>9, <1>13, <1>14, AfterFacts, EachData

(* The snapshot is loaded.                                                 *)
LEMMA LoadSnapshotData ==
    ASSUME DataInv, NEW j \in Job, LoadSnapshot(j)
    PROVE  Data(State, acked)'
<1> DEFINE n == Dst(j)
           h == Head(link[j].tot)
           l == [link[j] EXCEPT !.tot = Tail(@)]
           V == [s \in Slot |-> IF s \in Slots(j) THEN node[n].val[s] \o h.v[s]
                                ELSE node[n].val[s]]
           x(s) == [v |-> node[n].val[s], g |-> (imp[j] = "granted")]
<1>0. /\ mode' = mode /\ acked' = acked /\ Arrives(j, "snap") /\ MigrationInv
      /\ "snap" \in {"snap", "data"}
  BY DataFacts DEF LoadSnapshot
<1>1. /\ n \in Node /\ NodeOK(n, node[n]) /\ node = [m \in Node |-> node[m]]
      /\ Slots(j) \subseteq Slot
  BY <1>0, InvFacts, ModeFacts
<1>2. h \in MsgFor(j) /\ h.k = "snap"
  BY <1>0, ExecutedLink
<1>3. h \in [k : {"snap"}, v : Values(j)]
  BY <1>2 DEF MsgFor, Control
<1>4. V \in [Slot -> Seq(Nat)]
  <2>1. \A s \in Slots(j) : h.v[s] \in Seq(Nat)
    BY <1>3 DEF Values
  <2>2. \A s \in Slot : node[n].val[s] \in Seq(Nat)
    BY <1>1 DEF NodeOK
  <2>3. \A s \in Slots(j) : node[n].val[s] \o h.v[s] \in Seq(Nat)
    BY <1>1, <2>1, <2>2, ConcatProperties
  <2> QED BY <2>2, <2>3
<1>5. ASSUME NEW s \in Slots(j) PROVE V[s] = Effect(s, x(s), h).v
  <2>1. Effect(s, x(s), h).v = x(s).v \o h.v[s]
    BY <1>2 DEF Effect
  <2>2. V[s] = node[n].val[s] \o h.v[s]
    BY <1>1
  <2> QED BY <2>1, <2>2
<1>6. Apply([Executed(j) EXCEPT !.node[n].val = [s \in Slot |->
                IF s \in Slots(j) THEN @[s] \o h.v[s] ELSE @[s]]])
  BY Zenon DEF LoadSnapshot
<1>7. Executed(j).node[n].val = node[n].val
  BY DEF Executed, State
<1>8. Apply([Executed(j) EXCEPT !.node[n].val = V])
  BY <1>6, <1>7
<1>9. \A s \in Slot \ Slots(j) : V[s] = node[n].val[s]
  OBVIOUS
<1> HIDE DEF V
<1>10. /\ exp' = exp /\ link' = [link EXCEPT ![j] = l] /\ imp' = imp /\ risk' = risk
       /\ node' = [node EXCEPT ![n] = [node[n] EXCEPT !.val = V]]
  BY <1>0, <1>1, <1>8, InvFacts DEF Apply, Executed, State
<1> QED BY <1>0, <1>4, <1>5, <1>9, <1>10, KeysData

(* A write of the stream is applied.                                       *)
LEMMA ApplyWriteData ==
    ASSUME DataInv, NEW j \in Job, ApplyWrite(j)
    PROVE  Data(State, acked)'
<1> DEFINE n == Dst(j)
           h == Head(link[j].tot)
           l == [link[j] EXCEPT !.tot = Tail(@)]
           V == [node[n].val EXCEPT ![h.s] = Append(@, h.w)]
           x(s) == [v |-> node[n].val[s], g |-> (imp[j] = "granted")]
<1>0. /\ mode' = mode /\ acked' = acked /\ Arrives(j, "data") /\ MigrationInv
      /\ "data" \in {"snap", "data"}
  BY DataFacts DEF ApplyWrite
<1>1. /\ n \in Node /\ NodeOK(n, node[n]) /\ node = [m \in Node |-> node[m]]
      /\ Slots(j) \subseteq Slot
  BY <1>0, InvFacts, ModeFacts
<1>2. h \in MsgFor(j) /\ h.k = "data"
  BY <1>0, ExecutedLink
<1>3. h \in [k : {"data"}, s : Slots(j), w : Nat]
  BY <1>2 DEF MsgFor, Control
<1>4. h.s \in Slots(j) /\ h.w \in Nat /\ node[n].val \in [Slot -> Seq(Nat)]
  BY <1>1, <1>3 DEF NodeOK
<1>5. Append(node[n].val[h.s], h.w) \in Seq(Nat)
  BY <1>1, <1>4, AppendProperties
<1>6. V \in [Slot -> Seq(Nat)] /\ \A s \in Slot \ Slots(j) : V[s] = node[n].val[s]
  BY <1>4, <1>5
<1>7. ASSUME NEW s \in Slots(j) PROVE V[s] = Effect(s, x(s), h).v
  <2>1. Effect(s, x(s), h).v = IF h.s = s THEN Append(x(s).v, h.w) ELSE x(s).v
    BY <1>2 DEF Effect
  <2>2. V[s] = IF h.s = s THEN Append(node[n].val[s], h.w) ELSE node[n].val[s]
    BY <1>1, <1>4
  <2> QED BY <2>1, <2>2
<1>8. Apply([Executed(j) EXCEPT !.node[n].val[h.s] = Append(@, h.w)])
  BY Zenon DEF ApplyWrite
<1>9. Executed(j).node[n].val = node[n].val
  BY DEF Executed, State
<1>10. Apply([Executed(j) EXCEPT !.node[n].val = V])
  BY <1>8, <1>9
<1> HIDE DEF V
<1>11. /\ exp' = exp /\ link' = [link EXCEPT ![j] = l] /\ imp' = imp /\ risk' = risk
       /\ node' = [node EXCEPT ![n] = [node[n] EXCEPT !.val = V]]
  BY <1>0, <1>1, <1>10, InvFacts DEF Apply, Executed, State
<1> QED BY <1>0, <1>6, <1>7, <1>11, KeysData

(* An import ends, and its target has deleted or taken over the slots.     *)
Closes(j, nd, st) ==
    LET n == Dst(j) IN
    /\ imp[j] \in Importing /\ st \notin Importing
    /\ nd.child = node[n].child
    /\ \A s \in Slot \ Slots(j) : /\ nd.owner[s] = node[n].owner[s]
                                  /\ nd.val[s] = node[n].val[s]
    /\ \A s \in Slot : node[n].owner[s] = n => nd.val[s] = node[n].val[s]
    /\ exp' = exp /\ imp' = [imp EXCEPT ![j] = st] /\ risk' = risk
    /\ link' = [link EXCEPT ![j] = CloseTarget(link[j])]
    /\ node' = [node EXCEPT ![n] = nd] /\ mode' = mode /\ acked' = acked
    /\ \A s \in Slots(j) \ risk : Holds(After, n, s) => nd.val[s] = acked[s]

LEMMA ImportCloses ==
    ASSUME DataInv, NEW j \in Job, NEW nd, NEW st, Closes(j, nd, st)
    PROVE  Data(State, acked)'
<1> DEFINE n == Dst(j)
<1>0. /\ imp[j] \in Importing /\ st \notin Importing
      /\ nd.child = node[n].child
      /\ \A s \in Slot \ Slots(j) : /\ nd.owner[s] = node[n].owner[s]
                                    /\ nd.val[s] = node[n].val[s]
      /\ \A s \in Slot : node[n].owner[s] = n => nd.val[s] = node[n].val[s]
      /\ exp' = exp /\ imp' = [imp EXCEPT ![j] = st] /\ risk' = risk
      /\ link' = [link EXCEPT ![j] = CloseTarget(link[j])]
      /\ node' = [node EXCEPT ![n] = nd] /\ mode' = mode /\ acked' = acked
      /\ \A s \in Slots(j) \ risk : Holds(After, n, s) => nd.val[s] = acked[s]
      /\ n = Dst(j)
  BY DEF Closes
<1> HIDE DEF n
<1> DEFINE l == CloseTarget(link[j])
<1>1. /\ n \in Node /\ node = [m \in Node |-> node[m]] /\ mode \in Modes
      /\ link = [i \in Job |-> link[i]] /\ imp = [i \in Job |-> imp[i]]
      /\ Src(j) \in Node /\ Slots(j) \subseteq Slot /\ Src(j) # n
  <2>1. Src(j) # Dst(j)
    BY <1>0, DataFacts, TargetAssumption DEF Src, Dst
  <2> QED BY <1>0, <2>1, DataFacts, InvFacts, ModeFacts
<1>2. node'[n] = nd /\ \A m \in Node \ {n} : node'[m] = node[m]
  BY <1>0, <1>1
<1>3. /\ link'[j] = l /\ imp'[j] = st
      /\ \A i \in Job \ {j} : link'[i] = link[i] /\ imp'[i] = imp[i]
  BY <1>0, <1>1
<1>4. \A i \in Job : /\ Busy(After, i) <=> Busy(State, i)
                     /\ Snapshot(After, i) = Snapshot(State, i)
  <2>1. \A m \in Node : node'[m].child = node[m].child
    BY <1>0, <1>2
  <2> QED BY <1>0, <2>1, AfterFacts, StateFacts, DataFacts, ModeFacts DEF Busy, Snapshot
<1>5. ~l.dst /\ l.src = link[j].src /\ l.tot = <<>> /\ l.tos = link[j].tos
      /\ l.cut = link[j].cut
  BY <1>0, JobFacts, CloseTargetTame
<1> HIDE DEF l
<1>6. OneImport(After)
  BY <1>0, <1>3, DataFacts, AfterFacts, StateFacts DEF Data, OneImport
<1>7. ASSUME NEW m \in Node, NEW s \in Slot \ risk, Holds(After, m, s)
      PROVE  node'[m].val[s] = acked[s]
  <2>1. CASE m = n /\ s \in Slots(j)
    BY <1>0, <1>2, <1>7, <2>1
  <2>2. CASE ~(m = n /\ s \in Slots(j))
    <3>1. node'[m].owner[s] = node[m].owner[s] /\ node'[m].val[s] = node[m].val[s]
      BY <1>0, <1>2, <2>2
    <3>2. Holds(State, m, s)
      BY <1>0, <1>7, <3>1, AfterFacts, StateFacts DEF Holds, SlotFailoverGranted
    <3> QED BY <1>0, <3>1, <3>2, DataFacts, StateFacts DEF Data, Whole
  <2> QED BY <1>0, <2>1, <2>2
<1>8. TameJob(State, After, j)
  <2>1. /\ After.exp[j] = exp[j] /\ After.link[j] = l /\ After.imp[j] = st
        /\ After.node[Src(j)] = node[Src(j)]
    BY <1>0, <1>1, <1>2, <1>3, AfterFacts
  <2>2. GoesOn(State, After, j)
    BY <1>0, <1>4, <1>5, <2>1, StateFacts DEF GoesOn
  <2>3. <<>> \in Seq(Plain) /\ <<>> \in Seq(NoEof(j)) /\ st \notin ImportInProgress
    BY <1>0 DEF Importing
  <2> QED BY <1>0, <1>5, <2>1, <2>2, <2>3, StateFacts DEF TameJob
<1>9. ASSUME NEW i \in Job, i # j PROVE TameJob(State, After, i)
  <2>1. Src(i) \in Node /\ Dst(i) \in Node /\ Slots(i) \subseteq Slot
    BY <1>0, <1>1, ModeFacts
  <2>2. /\ After.exp[i] = State.exp[i] /\ After.link[i] = State.link[i]
        /\ After.imp[i] = State.imp[i] /\ (Busy(After, i) => Busy(State, i))
        /\ Snapshot(After, i) = Snapshot(State, i)
    BY <1>0, <1>3, <1>4, <1>9, AfterFacts, StateFacts
  <2>3. ASSUME NEW s \in Slots(i), imp[i] \in ImportInProgress
        PROVE  /\ node'[Dst(i)].val[s] = node[Dst(i)].val[s]
               /\ node'[Dst(i)].owner[s] = node[Dst(i)].owner[s]
    <3>1. Dst(i) = n => s \notin Slots(j)
      BY <1>0, <1>9, <2>3, DataFacts, StateFacts DEF Data, OneImport, Importing
    <3> QED BY <1>0, <1>2, <2>1, <3>1
  <2>4. ASSUME NEW s \in Slots(i), Fed(exp[i])
        PROVE  node'[Src(i)].val[s] = node[Src(i)].val[s]
    <3>1. exp[i].st \in ExportInProgress
      BY <1>0, <2>4 DEF Fed, ExportInProgress
    <3>2. node[Src(i)].owner[s] = Src(i)
      BY <1>0, <3>1, DataFacts, StateFacts DEF Home
    <3> QED BY <1>0, <1>2, <2>1, <3>2
  <2>5. \A s \in Slots(i) :
          /\ After.imp[i] \in ImportInProgress =>
                /\ After.node[Dst(i)].val[s] = State.node[Dst(i)].val[s]
                /\ After.node[Dst(i)].owner[s] = Dst(i) => State.node[Dst(i)].owner[s] = Dst(i)
          /\ Fed(State.exp[i]) =>
                s \in After.risk \/ After.node[Src(i)].val[s] = State.node[Src(i)].val[s]
    BY <1>0, <2>2, <2>3, <2>4, AfterFacts, StateFacts
  <2> QED BY <1>0, <1>1, <2>2, <2>5, UntouchedTame
<1>10. ASSUME NEW i \in Job PROVE JobData(After, acked, i)
  <2>1. /\ JobData(State, acked, i) /\ State.link[i] \in LinkType(i)
        /\ State.risk \subseteq After.risk
    BY <1>0, DataFacts, StateFacts, AfterFacts DEF Good, JobsOK, JobOK
  <2> QED BY <1>0, <1>8, <1>9, <2>1, TameJobData
<1>11. Data(After, acked)
  BY <1>0, <1>6, <1>7, <1>10, AfterFacts DEF Data, Whole
<1> QED BY <1>0, <1>11, AfterFacts, DataApplied

(* The keys of an import that has failed are deleted.                      *)
LEMMA CleanUpData ==
    ASSUME DataInv, NEW j \in Job, CleanUp(j)
    PROVE  Data(State, acked)'
<1> DEFINE n == Dst(j)
           nd == DelKeysNotOwned(node[n], n, Slots(j))
           A == [State EXCEPT !.node[n] = nd]
           U == [A EXCEPT !.imp[j] = "failed", !.link[j] = CloseTarget(@)]
<1>0. /\ mode' = mode /\ acked' = acked /\ MigrationInv /\ State.node[n] = node[n]
      /\ imp[j] = "cleaning"
  BY DataFacts, StateFacts DEF CleanUp
<1>1. /\ n \in Node /\ NodeOK(n, node[n]) /\ node = [m \in Node |-> node[m]]
      /\ Slots(j) \subseteq Slot
  BY <1>0, InvFacts, ModeFacts
<1>2. Apply(FinishImport(State,
               [State EXCEPT !.node[n] = DelKeysNotOwned(@, n, Slots(j))], j, "failed"))
  BY DEF CleanUp
<1>3. Apply(FinishImport(State, A, j, "failed"))
  BY <1>0, <1>2
<1>4. Apply(U) \/ Apply(Died([State EXCEPT !.asserts = @ \cup {"propagate"}], n))
  BY <1>3, Zenon DEF FinishImport, PropagateSyncSlotsFinish
<1>5. CASE Apply(Died([State EXCEPT !.asserts = @ \cup {"propagate"}], n))
  <2> HIDE DEF n
  <2> QED BY <1>0, <1>1, <1>5, AssertTame
<1>6. CASE Apply(U)
  <2>1. /\ nd.owner = node[n].owner /\ nd.child = node[n].child
        /\ \A s \in Slot :
             ~(s \in Slots(j) /\ node[n].owner[s] # n) => nd.val[s] = node[n].val[s]
    BY <1>1, DelKeysOK
  <2> HIDE DEF nd
  <2>2. /\ exp' = exp /\ link' = [link EXCEPT ![j] = CloseTarget(link[j])]
        /\ imp' = [imp EXCEPT ![j] = "failed"] /\ node' = [node EXCEPT ![n] = nd]
        /\ risk' = risk
    BY <1>0, <1>6, InvFacts DEF Apply, State
  <2>3. ASSUME NEW s \in Slots(j) \ risk, Holds(After, n, s)
        PROVE  nd.val[s] = acked[s]
    <3>1. node'[n] = nd
      BY <1>1, <2>2
    <3>2. Holds(State, n, s)
      BY <2>1, <2>2, <2>3, <3>1, AfterFacts, StateFacts DEF Holds, SlotFailoverGranted
    <3>3. node[n].val[s] = acked[s] /\ node[n].owner[s] = n
      BY <1>1, <3>2, DataFacts, StateFacts DEF Data, Whole, Holds
    <3> QED BY <1>1, <2>1, <3>3
  <2>4. /\ "failed" \notin Importing /\ imp[j] \in Importing
    BY <1>0 DEF Importing, ImportInProgress
  <2>5. /\ \A s \in Slot \ Slots(j) : /\ nd.owner[s] = node[n].owner[s]
                                      /\ nd.val[s] = node[n].val[s]
        /\ \A s \in Slot : node[n].owner[s] = n => nd.val[s] = node[n].val[s]
    BY <2>1
  <2>6. \A s \in Slots(j) \ risk : Holds(After, n, s) => nd.val[s] = acked[s]
    BY <2>3
  <2>7. Closes(j, nd, "failed")
    BY <1>0, <2>1, <2>2, <2>4, <2>5, <2>6 DEF Closes
  <2> QED BY <2>7, ImportCloses
<1> QED BY <1>4, <1>5, <1>6

(* performSlotImportJobFailover: the target has every write.               *)
LEMMA PerformFailoverData ==
    ASSUME DataInv, NEW j \in Job, PerformSlotImportJobFailover(j)
    PROVE  Data(State, acked)'
<1> DEFINE n == Dst(j)
           b == Bumped(node[n], n)
           O == [s \in Slot |-> IF s \in Slots(j) THEN n ELSE b.owner[s]]
           nd == [b EXCEPT !.owner = O]
           A == [State EXCEPT !.node[n] = nd]
           U == [A EXCEPT !.imp[j] = "success", !.link[j] = CloseTarget(@)]
<1>0. /\ mode' = mode /\ acked' = acked /\ MigrationInv /\ State.node[n] = node[n]
      /\ imp[j] = "granted"
  BY DataFacts, StateFacts DEF PerformSlotImportJobFailover
<1>1. /\ n \in Node /\ NodeOK(n, node[n]) /\ node = [m \in Node |-> node[m]]
      /\ Slots(j) \subseteq Slot
  BY <1>0, InvFacts, ModeFacts
<1>2. Apply(FinishImport(State, [State EXCEPT !.node[n] = Claim(@, n, Slots(j))], j, "success"))
  BY DEF PerformSlotImportJobFailover
<1>3. Claim(node[n], n, Slots(j)) = nd
  BY DEF Claim
<1>4. Apply(FinishImport(State, A, j, "success"))
  BY <1>0, <1>2, <1>3
<1>5. Apply(U) \/ Apply(Died([State EXCEPT !.asserts = @ \cup {"propagate"}], n))
  BY <1>4, Zenon DEF FinishImport, PropagateSyncSlotsFinish
<1>6. CASE Apply(Died([State EXCEPT !.asserts = @ \cup {"propagate"}], n))
  <2> HIDE DEF n
  <2> QED BY <1>0, <1>1, <1>6, AssertTame
<1>7. CASE Apply(U)
  <2>1. /\ NodeOK(n, b) /\ b.owner = node[n].owner /\ b.val = node[n].val
        /\ b.child = node[n].child
    BY <1>1, BumpedOK
  <2>2. \A s \in Slot \ Slots(j) : O[s] = node[n].owner[s]
    BY <2>1
  <2> HIDE DEF b, O
  <2>3. nd.owner = O /\ nd.val = node[n].val /\ nd.child = node[n].child
    BY <2>1 DEF NodeOK
  <2> HIDE DEF nd
  <2>4. /\ exp' = exp /\ link' = [link EXCEPT ![j] = CloseTarget(link[j])]
        /\ imp' = [imp EXCEPT ![j] = "success"] /\ node' = [node EXCEPT ![n] = nd]
        /\ risk' = risk
    BY <1>0, <1>7, InvFacts DEF Apply, State
  <2>5. \A s \in Slots(j) \ risk : nd.val[s] = acked[s]
    <3>1. Flow(j, exp[j], link[j], imp[j], Snapshot(State, j))
      BY FlowOf
    <3> QED BY <1>0, <2>3, <3>1 DEF Flow, ImportInProgress
  <2>6. "success" \notin Importing /\ imp[j] \in Importing
    BY <1>0 DEF Importing, ImportInProgress
  <2>7. \A s \in Slot \ Slots(j) : /\ nd.owner[s] = node[n].owner[s]
                                   /\ nd.val[s] = node[n].val[s]
    BY <2>2, <2>3
  <2>8. /\ \A s \in Slots(j) \ risk : Holds(After, n, s) => nd.val[s] = acked[s]
        /\ \A s \in Slot : node[n].owner[s] = n => nd.val[s] = node[n].val[s]
    BY <2>3, <2>5
  <2>9. Closes(j, nd, "success")
    BY <1>0, <2>3, <2>4, <2>6, <2>7, <2>8 DEF Closes
  <2> QED BY <2>9, ImportCloses
<1> QED BY <1>5, <1>6, <1>7

-------------------------------------------------------------------------------
(* Writes of clients.                                                      *)

(* As long as nothing is granted it does not matter what was acknowledged, *)
(* for the messages on their way and one write more.                       *)
LEMMA BringsAnew ==
    ASSUME NEW j, NEW s \in Slots(j), NEW a, NEW b, NEW p \in Seq(Quiet(j)),
           NEW c \in Seq(Quiet(j)), NEW o \in Seq(Quiet(j)), NEW x, ~x.g,
           NEW f, NEW w, Brings(s, a, p, c, o, x, f, w)
    PROVE  /\ Brings(s, b, p, c, o, x, f, w)
           /\ \A u : ~f => Brings(s, b, p, c, o, x, f, u)
           /\ \A k \in Nat : f => Brings(s, b, p, c, Append(o, DataMsg(s, k)), x, f, Append(w, k))
<1>1. PICK y1 \in Copy, y2 \in Copy, y3 \in Copy :
        /\ Turns(s, a, p, x, y1) /\ Turns(s, a, c, y1, y2) /\ Turns(s, a, o, y2, y3)
        /\ f => y3.v = w
  BY DEF Brings
<1>2. x \in Copy /\ \A z : ~z.g => Sound(b, z)
  BY <1>1, TurnsEnds DEF Sound
<1>3. PICK z1 \in Copy : z1.v = y1.v /\ ~z1.g /\ Turns(s, b, p, x, z1)
  <2>1. Sound(b, x) /\ x.v = x.v
    BY <1>2
  <2> QED BY <1>1, <1>2, <2>1, TurnsAnew
<1>4. PICK z2 \in Copy : z2.v = y2.v /\ ~z2.g /\ Turns(s, b, c, z1, z2)
  <2>1. Sound(b, z1)
    BY <1>2, <1>3
  <2> QED BY <1>1, <1>3, <2>1, TurnsAnew
<1>5. PICK z3 \in Copy : z3.v = y3.v /\ ~z3.g /\ Turns(s, b, o, z2, z3)
  <2>1. Sound(b, z2)
    BY <1>2, <1>4
  <2> QED BY <1>1, <1>4, <2>1, TurnsAnew
<1>6. Brings(s, b, p, c, o, x, f, w)
  BY <1>1, <1>3, <1>4, <1>5 DEF Brings
<1>7. ASSUME NEW u, ~f PROVE Brings(s, b, p, c, o, x, f, u)
  BY <1>3, <1>4, <1>5, <1>7 DEF Brings
<1>8. ASSUME NEW k \in Nat, f
      PROVE  Brings(s, b, p, c, Append(o, DataMsg(s, k)), x, f, Append(w, k))
  <2> DEFINE m == DataMsg(s, k)
             y == Effect(s, z3, m)
  <2>1. m \in MsgFor(j) /\ m.k = "data" /\ m.s = s /\ m.w = k
    BY DEF DataMsg, MsgFor
  <2> HIDE DEF m
  <2>2. o \in Seq(MsgFor(j))
    BY DEF Quiet
  <2>3. y \in Copy
    BY <2>1, EffectOK
  <2>4. y.v = Append(z3.v, k) /\ ~y.g
    <3>1. y.v = Append(z3.v, m.w) /\ y.g = (z3.g \/ m.k = "granted")
      BY <2>1 DEF Effect
    <3> QED BY <1>5, <2>1, <3>1
  <2>5. Sound(b, y)
    BY <2>4 DEF Sound
  <2>6. Turns(s, b, Append(o, m), z2, y)
    BY <1>5, <2>1, <2>2, <2>5, TurnsAppend
  <2>7. y.v = Append(w, k)
    BY <1>1, <1>5, <1>8, <2>4
  <2> HIDE DEF y
  <2> QED BY <1>3, <1>4, <2>3, <2>6, <2>7 DEF Brings, m
<1> QED BY <1>6, <1>7, <1>8

(* A write to another slot.                                                *)
LEMMA BringsOther ==
    ASSUME NEW j, NEW s \in Slots(j), NEW t \in Slots(j), t # s, NEW k \in Nat, NEW a,
           NEW p, NEW c, NEW o \in Seq(MsgFor(j)), NEW x, NEW f, NEW w,
           Brings(t, a, p, c, o, x, f, w)
    PROVE  Brings(t, a, p, c, Append(o, DataMsg(s, k)), x, f, w)
<1> DEFINE m == DataMsg(s, k)
<1>1. PICK y1 \in Copy, y2 \in Copy, y3 \in Copy :
        /\ Turns(t, a, p, x, y1) /\ Turns(t, a, c, y1, y2) /\ Turns(t, a, o, y2, y3)
        /\ f => y3.v = w
  BY DEF Brings
<1>2. m \in MsgFor(j) /\ m.k = "data" /\ m.s = s
  BY DEF DataMsg, MsgFor
<1> HIDE DEF m
<1>3. Effect(t, y3, m) = y3
  BY <1>2, EffectNone
<1>4. Sound(a, y3)
  BY <1>1, TurnsEnds
<1>5. Turns(t, a, Append(o, m), y2, y3)
  <2>1. Sound(a, Effect(t, y3, m))
    BY <1>3, <1>4
  <2>2. Turns(t, a, Append(o, m), y2, Effect(t, y3, m))
    BY <1>1, <1>2, <2>1, TurnsAppend
  <2> QED BY <1>3, <2>2
<1> QED BY <1>1, <1>5 DEF Brings, m

(* A node that accepts writes to a slot holds it, and the right to it is   *)
(* with nobody else.                                                       *)
LEMMA WriterHolds ==
    ASSUME DataInv, NEW n \in Node, NEW s \in Slot \ risk, node[n].owner[s] = n,
           ~node[n].paused
    PROVE  /\ Holds(State, n, s) /\ \A m \in Node : Holds(State, m, s) => m = n
           /\ \A j \in Exports(n) : s \in Slots(j) => exp[j].st # "granted"
           /\ \A j \in Job : s \in Slots(j) =>
                /\ imp[j] # "granted"
                /\ link[j].dst => /\ link[j].tot \in Seq(Quiet(j))
                                  /\ exp[j].out \in Seq(Quiet(j))
<1>1. ASSUME NEW j \in Exports(n), s \in Slots(j), exp[j].st = "granted" PROVE FALSE
  <2>1. j \in Job /\ Src(j) = n /\ ~(Slots(j) \subseteq risk)
    BY <1>1 DEF Exports
  <2> QED BY <1>1, <2>1, DataFacts, StateFacts DEF Good, Firm
<1>2. Holds(State, n, s)
  BY <1>1, StateFacts DEF Holds, SlotFailoverGranted
<1>3. \A m \in Node : Holds(State, m, s) => m = n
  BY <1>2, DataFacts, StateFacts DEF Single, Sole
<1>4. \A j \in Job : s \in Slots(j) => ~Token(State, j)
  BY <1>2, DataFacts, StateFacts DEF Single, Sole
<1>5. \A j \in Job : s \in Slots(j) =>
        /\ imp[j] # "granted"
        /\ link[j].dst => /\ link[j].tot \in Seq(Quiet(j))
                          /\ exp[j].out \in Seq(Quiet(j))
  BY <1>4, StateFacts DEF Token, HasToken
<1> QED BY <1>1, <1>2, <1>3, <1>5

(* What the child writes grants nothing.                                   *)
LEMMA SnapshotIsQuiet ==
    ASSUME DataInv, NEW j \in Job
    PROVE  Snapshot(State, j) \in Seq(Quiet(j))
<1>1. CASE Busy(State, j)
  <2>1. Src(j) \in Node
    BY DataFacts, ModeFacts
  <2>2. NodeOK(Src(j), node[Src(j)])
    BY <2>1, DataFacts, InvFacts
  <2>3. node[Src(j)].child.v \in Values(j)
    BY <1>1, <2>2, StateFacts DEF Busy, NodeOK, ChildOK
  <2>4. <<SnapMsg(node[Src(j)].child.v)>> \in Seq(Quiet(j))
    BY <2>3, SnapshotQuiet
  <2> QED BY <1>1, <2>4, StateFacts DEF Snapshot
<1>2. CASE ~Busy(State, j)
  <2>1. <<>> \in Seq(Quiet(j))
    OBVIOUS
  <2> QED BY <1>2, <2>1 DEF Snapshot
<1> QED BY <1>1, <1>2

Feeds(n, s) == {j \in Exports(n) : s \in Slots(j) /\ link[j].src /\ Fed(exp[j])}

(* What a write changes.                                                   *)
LEMMA WriteFacts ==
    ASSUME DataInv, NEW n \in Node, NEW s \in Slot, Write(n, s), NEW w, w = writes + 1
    PROVE  /\ w \in Nat /\ node[n].owner[s] = n /\ ~node[n].paused
           /\ mode' = mode /\ link' = link /\ imp' = imp /\ risk' = risk
           /\ \A j \in Feeds(n, s) : exp'[j] = Say(exp[j], DataMsg(s, w))
           /\ \A j \in Job \ Feeds(n, s) : exp'[j] = exp[j]
           /\ \A m \in Node : node'[m].owner = node[m].owner /\ node'[m].child = node[m].child
           /\ node'[n].val[s] = Append(node[n].val[s], w)
           /\ \A m \in Node, t \in Slot : m # n \/ t # s => node'[m].val[t] = node[m].val[t]
           /\ acked'[s] = Append(acked[s], w) /\ \A t \in Slot \ {s} : acked'[t] = acked[t]
<1>1. /\ w \in Nat /\ node[n].owner[s] = n /\ ~node[n].paused
      /\ mode' = mode /\ link' = link /\ imp' = imp /\ risk' = risk
      /\ exp' = [j \in Job |-> IF j \in Feeds(n, s) THEN Say(exp[j], DataMsg(s, w)) ELSE exp[j]]
      /\ node' = [node EXCEPT ![n].val[s] = Append(@, w)]
      /\ acked' = [acked EXCEPT ![s] = Append(@, w)]
  BY DataFacts DEF Write, MigrationInv, Feeds
<1>2. /\ NodeOK(n, node[n]) /\ node = [m \in Node |-> node[m]]
      /\ acked = [t \in Slot |-> acked[t]]
  BY DataFacts, InvFacts DEF DataInv
<1>3. node[n].val \in [Slot -> Seq(Nat)]
  BY <1>2 DEF NodeOK
<1> DEFINE V == [node[n].val EXCEPT ![s] = Append(@, w)]
<1>4. V[s] = Append(node[n].val[s], w) /\ \A t \in Slot \ {s} : V[t] = node[n].val[t]
  BY <1>3
<1>5. node' = [node EXCEPT ![n] = [node[n] EXCEPT !.val = V]]
  BY <1>1
<1> HIDE DEF V
<1>6. /\ node'[n].val = V /\ node'[n].owner = node[n].owner
      /\ node'[n].child = node[n].child /\ \A m \in Node \ {n} : node'[m] = node[m]
  BY <1>2, <1>5 DEF NodeOK
<1>7. acked'[s] = Append(acked[s], w) /\ \A t \in Slot \ {s} : acked'[t] = acked[t]
  BY <1>1, <1>2
<1>8. Feeds(n, s) \subseteq Job
  BY DEF Feeds, Exports
<1>9. /\ \A j \in Feeds(n, s) : exp'[j] = Say(exp[j], DataMsg(s, w))
      /\ \A j \in Job \ Feeds(n, s) : exp'[j] = exp[j]
  BY <1>1, <1>8
<1>10. /\ \A m \in Node : node'[m].owner = node[m].owner /\ node'[m].child = node[m].child
       /\ \A m \in Node, t \in Slot : m # n \/ t # s => node'[m].val[t] = node[m].val[t]
  BY <1>4, <1>6
<1> QED BY <1>1, <1>4, <1>6, <1>7, <1>9, <1>10

(* A write, and the export that is fed with it or is not.                  *)
LEMMA WriteArrives ==
    ASSUME DataInv, NEW n \in Node, NEW s \in Slot, Write(n, s), NEW j \in Job,
           imp[j] \in ImportInProgress, link[j].dst, ~link[j].cut, NEW t \in Slots(j) \ risk
    PROVE  Brings(t, acked'[t], link[j].tot, Snapshot(State, j), exp'[j].out,
                  [v |-> node[Dst(j)].val[t], g |-> (imp[j] = "granted")],
                  Fed(exp[j]), node'[Src(j)].val[t])
<1> DEFINE w == writes + 1
           x == [v |-> node[Dst(j)].val[t], g |-> (imp[j] = "granted")]
           p == link[j].tot
           c == Snapshot(State, j)
           o == exp[j].out
           f == Fed(exp[j])
           u == node[Src(j)].val[t]
<1>1. /\ w \in Nat /\ node[n].owner[s] = n /\ ~node[n].paused
      /\ j \in Feeds(n, s) => exp'[j] = Say(exp[j], DataMsg(s, w))
      /\ j \notin Feeds(n, s) => exp'[j] = exp[j]
      /\ node'[n].val[s] = Append(node[n].val[s], w)
      /\ \A m \in Node, r \in Slot : m # n \/ r # s => node'[m].val[r] = node[m].val[r]
      /\ acked'[s] = Append(acked[s], w) /\ \A r \in Slot \ {s} : acked'[r] = acked[r]
  BY WriteFacts
<1> HIDE DEF w
<1>2. /\ exp[j] \in ExportType(j) /\ o \in Seq(MsgFor(j)) /\ Src(j) \in Node
      /\ Slots(j) \subseteq Slot /\ t \in Slot
  BY JobFacts
<1>3. j \in Feeds(n, s) => /\ exp'[j].out = Append(o, DataMsg(s, w)) /\ s \in Slots(j)
                           /\ f /\ Src(j) = n
  <2>1. j \in Feeds(n, s) => s \in Slots(j) /\ f /\ Src(j) = n
    BY DEF Feeds, Exports
  <2>2. Say(exp[j], DataMsg(s, w)).out = Append(o, DataMsg(s, w))
    BY <1>2 DEF Say, ExportType
  <2> QED BY <1>1, <2>1, <2>2
<1>4. Brings(t, acked[t], p, c, o, x, f, u)
  BY FlowOf DEF Flow
<1>5. CASE t # s
  <2>1. acked'[t] = acked[t] /\ node'[Src(j)].val[t] = u
    BY <1>1, <1>2, <1>5
  <2>2. CASE j \in Feeds(n, s)
    <3>1. Brings(t, acked[t], p, c, Append(o, DataMsg(s, w)), x, f, u)
      <4> HIDE DEF x, p, c, o, f, u
      <4> QED BY <1>1, <1>2, <1>3, <1>4, <1>5, <2>2, BringsOther
    <3> QED BY <1>3, <2>1, <2>2, <3>1
  <2>3. CASE j \notin Feeds(n, s)
    BY <1>1, <1>4, <2>1, <2>3
  <2> QED BY <2>2, <2>3
<1>6. CASE t = s
  <2>1. s \in Slots(j) /\ s \in Slot \ risk /\ s \in Slot
    BY <1>2, <1>6
  <2>2. /\ imp[j] # "granted" /\ p \in Seq(Quiet(j)) /\ o \in Seq(Quiet(j))
        /\ \A i \in Exports(n) : s \in Slots(i) => exp[i].st # "granted"
    BY <1>1, <2>1, WriterHolds
  <2>3. c \in Seq(Quiet(j)) /\ ~x.g
    BY <2>2, SnapshotIsQuiet
  <2>4. Brings(s, acked[s], p, c, o, x, f, u)
    BY <1>4, <1>6
  <2>5. /\ Brings(s, acked'[s], p, c, o, x, f, u)
        /\ \A v : ~f => Brings(s, acked'[s], p, c, o, x, f, v)
        /\ f => Brings(s, acked'[s], p, c, Append(o, DataMsg(s, w)), x, f, Append(u, w))
    <3> DEFINE b == acked'[s]
               a == acked[s]
    <3>1. Brings(s, a, p, c, o, x, f, u)
      BY <2>4
    <3> HIDE DEF x, p, c, o, f, u, b, a
    <3>2. /\ Brings(s, b, p, c, o, x, f, u)
          /\ \A v : ~f => Brings(s, b, p, c, o, x, f, v)
          /\ \A k \in Nat : f => Brings(s, b, p, c, Append(o, DataMsg(s, k)), x, f, Append(u, k))
      BY <2>1, <2>2, <2>3, <3>1, BringsAnew
    <3> QED BY <1>1, <3>2 DEF b
  <2>6. CASE j \in Feeds(n, s)
    <3>1. node'[Src(j)].val[s] = Append(u, w)
      BY <1>1, <1>3, <1>6, <2>6
    <3> HIDE DEF x, p, c, o, f, u
    <3>2. Brings(s, acked'[s], p, c, exp'[j].out, x, f, node'[Src(j)].val[s])
      BY <1>3, <2>5, <2>6, <3>1
    <3> QED BY <1>6, <3>2 DEF x, p, c, o, f
  <2>7. CASE j \notin Feeds(n, s)
    <3>1. exp'[j].out = o
      BY <1>1, <2>7
    <3>2. CASE Src(j) # n
      <4>1. node'[Src(j)].val[s] = u
        BY <1>1, <1>2, <1>6, <2>1, <3>2
      <4> HIDE DEF x, p, c, o, f, u
      <4>2. Brings(s, acked'[s], p, c, exp'[j].out, x, f, node'[Src(j)].val[s])
        BY <2>5, <3>1, <4>1
      <4> QED BY <1>6, <4>2 DEF x, p, c, o, f
    <3>3. CASE Src(j) = n
      <4>1. exp[j].st # "granted" /\ j \in Exports(n)
        BY <2>1, <2>2, <3>3 DEF Exports
      <4>2. f => link[j].src
        <5>1. Staged(j, exp[j], link[j], imp[j], c # <<>>)
          BY FlowOf DEF Flow
        <5>2. f => exp[j].st \in ExportInProgress \ {"connecting", "granted"}
          BY <4>1 DEF Fed, ExportInProgress
        <5> QED BY <5>1, <5>2 DEF Staged
      <4>3. ~f
        BY <2>1, <2>7, <4>1, <4>2 DEF Feeds
      <4> HIDE DEF x, p, c, o, f, u
      <4>4. Brings(s, acked'[s], p, c, exp'[j].out, x, f, node'[Src(j)].val[s])
        BY <2>5, <3>1, <4>3
      <4> QED BY <1>6, <4>4 DEF x, p, c, o, f
    <3> QED BY <3>2, <3>3
  <2> QED BY <2>6, <2>7
<1> QED BY <1>5, <1>6

LEMMA WriteJob ==
    ASSUME DataInv, NEW n \in Node, NEW s \in Slot, Write(n, s), NEW j \in Job
    PROVE  JobData(After, acked', j)
<1> DEFINE w == writes + 1
           c == Snapshot(State, j)
<1>1. /\ node[n].owner[s] = n /\ link' = link /\ imp' = imp /\ risk' = risk
      /\ w \in Nat
      /\ j \in Feeds(n, s) => exp'[j] = Say(exp[j], DataMsg(s, w))
      /\ j \notin Feeds(n, s) => exp'[j] = exp[j]
      /\ \A m \in Node : node'[m].owner = node[m].owner /\ node'[m].child = node[m].child
      /\ \A m \in Node, t \in Slot : m # n \/ t # s => node'[m].val[t] = node[m].val[t]
      /\ \A t \in Slot \ {s} : acked'[t] = acked[t]
  BY WriteFacts
<1> HIDE DEF w
<1>2. exp[j] \in ExportType(j) /\ Src(j) \in Node /\ Dst(j) \in Node /\ Slots(j) \subseteq Slot
  BY JobFacts
<1>3. (Busy(After, j) <=> Busy(State, j)) /\ Snapshot(After, j) = c
  BY <1>1, <1>2, AfterFacts, StateFacts DEF Busy, Snapshot
<1>4. Flow(j, exp[j], link[j], imp[j], c)
  BY FlowOf
<1>5. /\ exp'[j].st = exp[j].st
      /\ j \in Feeds(n, s) => Fed(exp[j])
      /\ exp[j].st = "snapshotting" => exp'[j].pend = exp[j].pend
  BY <1>1, <1>2 DEF Feeds, Say, ExportType
<1>6. Fed(exp'[j]) = Fed(exp[j])
  BY <1>5 DEF Fed
<1>7. Staged(j, exp'[j], link[j], imp[j], Busy(After, j))
  <2>1. Staged(j, exp[j], link[j], imp[j], c # <<>>) /\ (Busy(After, j) <=> c # <<>>)
    BY <1>3, <1>4, SnapshotBusy DEF Flow
  <2>2. /\ exp[j].st \in Early => exp'[j] = exp[j]
        /\ exp[j].st \in Finished => exp'[j] = exp[j]
    BY <1>1, <1>5 DEF Fed, Early, Finished
  <2> HIDE DEF c
  <2> QED BY <1>5, <2>1, <2>2 DEF Staged
<1>8. ASSUME imp[j] \in ImportInProgress, NEW t \in Slots(j)
      PROVE  /\ node'[Dst(j)].owner[t] # Dst(j)
             /\ node'[Dst(j)].val[t] = node[Dst(j)].val[t]
  <2>1. node[Dst(j)].owner[t] # Dst(j)
    BY <1>4, <1>8 DEF Flow
  <2> QED BY <1>1, <1>2, <2>1
<1>9. ASSUME imp[j] = "granted", NEW t \in Slots(j) \ risk
      PROVE  node'[Dst(j)].val[t] = acked'[t]
  <2>1. t # s
    BY <1>1, <1>9, WriteFacts, WriterHolds
  <2>2. node[Dst(j)].val[t] = acked[t] /\ imp[j] \in ImportInProgress
    BY <1>4, <1>9 DEF Flow, ImportInProgress
  <2> QED BY <1>1, <1>2, <1>8, <2>1, <2>2
<1>10. ASSUME imp[j] \in ImportInProgress, link[j].dst, ~link[j].cut, NEW t \in Slots(j) \ risk
       PROVE  Arriving(After, acked', j, t)
  <2> DEFINE x == [v |-> node[Dst(j)].val[t], g |-> (imp[j] = "granted")]
  <2>1. Brings(t, acked'[t], link[j].tot, c, exp'[j].out, x, Fed(exp[j]), node'[Src(j)].val[t])
    BY <1>10, WriteArrives
  <2>2. Start(After, j, t) = x
    BY <1>1, <1>8, <1>10, AfterFacts DEF Start
  <2> HIDE DEF x, c
  <2>3. /\ After.link[j] = link[j] /\ After.exp[j] = exp'[j]
        /\ After.node[Src(j)] = node'[Src(j)]
    BY <1>1, AfterFacts
  <2> QED BY <1>3, <1>6, <2>1, <2>2, <2>3 DEF Arriving
<1>11. Copied(After, acked', j)
  <2>1. /\ After.imp[j] = imp[j] /\ After.link[j] = link[j] /\ After.exp[j].st = exp[j].st
        /\ After.risk = risk /\ After.node = node'
    BY <1>1, <1>5, AfterFacts
  <2>2. imp[j] \in ImportInProgress /\ exp[j].st \in Early =>
          \A t \in Slots(j) : node[Dst(j)].val[t] = <<>>
    BY <1>4 DEF Flow
  <2> QED BY <1>8, <1>9, <1>10, <2>1, <2>2 DEF Copied
<1>12. Staged(j, After.exp[j], After.link[j], After.imp[j], Busy(After, j))
  BY <1>1, <1>7, AfterFacts
<1> QED BY <1>11, <1>12 DEF JobData

(* A write of a client.                                                    *)
LEMMA WriteData ==
    ASSUME DataInv, NEW n \in Node, NEW s \in Slot, Write(n, s)
    PROVE  Data(State, acked)'
<1> DEFINE w == writes + 1
<1>1. /\ w \in Nat /\ node[n].owner[s] = n /\ ~node[n].paused
      /\ mode' = mode /\ link' = link /\ imp' = imp /\ risk' = risk
      /\ \A j \in Feeds(n, s) : exp'[j] = Say(exp[j], DataMsg(s, w))
      /\ \A j \in Job \ Feeds(n, s) : exp'[j] = exp[j]
      /\ \A m \in Node : node'[m].owner = node[m].owner
      /\ node'[n].val[s] = Append(node[n].val[s], w)
      /\ \A m \in Node, t \in Slot : m # n \/ t # s => node'[m].val[t] = node[m].val[t]
      /\ acked'[s] = Append(acked[s], w) /\ \A t \in Slot \ {s} : acked'[t] = acked[t]
  BY WriteFacts
<1> HIDE DEF w
<1>2. ASSUME NEW j \in Job PROVE exp'[j].st = exp[j].st
  <2>1. exp[j] \in ExportType(j)
    BY JobFacts
  <2>2. Say(exp[j], DataMsg(s, w)).st = exp[j].st
    BY <2>1 DEF Say, ExportType
  <2> QED BY <1>1, <2>2
<1>3. OneImport(After)
  BY <1>1, DataFacts, AfterFacts, StateFacts DEF Data, OneImport
<1>4. ASSUME NEW m \in Node, NEW t \in Slot \ risk, Holds(After, m, t)
      PROVE  node'[m].val[t] = acked'[t]
  <2>1. Holds(State, m, t)
    BY <1>1, <1>2, <1>4, AfterFacts, StateFacts DEF Holds, SlotFailoverGranted, Exports
  <2>2. node[m].val[t] = acked[t]
    BY <2>1, DataFacts, StateFacts DEF Data, Whole
  <2>3. t = s => m = n
    BY <1>1, <2>1, WriterHolds
  <2> QED BY <1>1, <2>2, <2>3
<1>5. Whole(After, acked')
  BY <1>1, <1>4, AfterFacts DEF Whole
<1>6. \A j \in Job : JobData(After, acked', j)
  BY WriteJob
<1> QED BY <1>1, <1>3, <1>5, <1>6, AfterFacts, DataApplied DEF Data

(* FLUSHALL, after its jobs have ended: no import of the node is in        *)
(* progress and no export of it is fed.                                    *)
Flushed(A, U, n, B) ==
    /\ Good(A) /\ Tame(State, A) /\ Data(A, acked)
    /\ \A j \in Job : /\ Src(j) = n => ~Fed(A.exp[j])
                      /\ Dst(j) = n => A.imp[j] \notin ImportInProgress
    /\ U.exp = A.exp /\ U.link = A.link /\ U.imp = A.imp /\ U.risk = A.risk
    /\ \A m \in Node : U.node[m].owner = A.node[m].owner /\ U.node[m].child = A.node[m].child
    /\ \A m \in Node \ {n} : U.node[m].val = A.node[m].val
    /\ \A s \in Slot : /\ U.node[n].val[s] = <<>>
                       /\ B[s] = IF node[n].owner[s] = n THEN <<>> ELSE acked[s]

LEMMA FlushedArrives ==
    ASSUME DataInv, NEW n \in Node, ~node[n].paused, NEW A, NEW U, NEW B,
           Flushed(A, U, n, B), NEW j \in Job, A.imp[j] \in ImportInProgress,
           A.link[j].dst, ~A.link[j].cut, NEW s \in Slots(j) \ A.risk
    PROVE  Arriving(U, B, j, s)
<1> DEFINE x == Start(A, j, s)
           p == A.link[j].tot
           c == Snapshot(A, j)
           o == A.exp[j].out
           f == Fed(A.exp[j])
           u == A.node[Src(j)].val[s]
           v == U.node[Src(j)].val[s]
<1>1. /\ Src(j) \in Node /\ Dst(j) \in Node /\ Slots(j) \subseteq Slot /\ s \in Slot
      /\ risk \subseteq A.risk /\ s \notin risk
  BY DataFacts, ModeFacts, StateFacts DEF Flushed, Tame, Calm
<1>2. Dst(j) # n /\ U.node[Dst(j)].val = A.node[Dst(j)].val
  BY <1>1 DEF Flushed
<1>3. Start(U, j, s) = x /\ Snapshot(U, j) = c
  <2>1. Start(U, j, s) = x
    BY <1>2 DEF Flushed, Start
  <2>2. Snapshot(U, j) = c
    BY <1>1 DEF Flushed, Snapshot, Busy
  <2> QED BY <2>1, <2>2
<1>4. Brings(s, acked[s], p, c, o, x, f, u)
  BY DEF Flushed, Data, JobData, Copied, Arriving
<1>5. U.link[j].tot = p /\ U.exp[j].out = o /\ Fed(U.exp[j]) = f
  BY DEF Flushed
<1>6. ~f \/ u = v
  BY <1>1 DEF Flushed
<1>7. CASE node[n].owner[s] # n
  <2>1. B[s] = acked[s]
    BY <1>1, <1>7 DEF Flushed
  <2> HIDE DEF x, p, c, o, f, u, v
  <2>2. Brings(s, B[s], p, c, o, x, f, v)
    BY <1>4, <1>6, <2>1 DEF Brings
  <2> QED BY <1>3, <1>5, <2>2 DEF Arriving, v
<1>8. CASE node[n].owner[s] = n
  <2>1. ~Token(State, j)
    <3>1. s \in Slot \ risk
      BY <1>1
    <3>2. Holds(State, n, s)
      BY <1>8, <3>1, WriterHolds
    <3> QED BY <3>1, <3>2, DataFacts, StateFacts DEF Single, Sole
  <2>2. ~Token(A, j)
    BY <2>1 DEF Flushed, Tame, Calm
  <2>3. A.imp[j] # "granted" /\ p \in Seq(Quiet(j)) /\ o \in Seq(Quiet(j))
    BY <2>2 DEF Token, HasToken
  <2>4. c \in Seq(Quiet(j))
    <3>1. Snapshot(State, j) \in Seq(Quiet(j)) /\ <<>> \in Seq(Quiet(j))
      BY SnapshotIsQuiet
    <3>2. GoesOn(State, A, j) \/ Ends(A, j)
      BY DEF Flushed, Tame, TameJob
    <3>3. CASE GoesOn(State, A, j)
      BY <3>1, <3>3 DEF GoesOn
    <3>4. CASE Ends(A, j)
      BY <3>1, <3>4 DEF Ends, Snapshot
    <3> QED BY <3>2, <3>3, <3>4
  <2>5. ~x.g
    BY <2>3 DEF Start
  <2> DEFINE b == B[s]
             a == acked[s]
  <2>6. Brings(s, a, p, c, o, x, f, u) /\ s \in Slots(j)
    BY <1>4
  <2> HIDE DEF x, p, c, o, f, u, v, b, a
  <2>7. /\ Brings(s, b, p, c, o, x, f, u)
        /\ \A k : ~f => Brings(s, b, p, c, o, x, f, k)
    BY <2>3, <2>4, <2>5, <2>6, BringsAnew
  <2>8. Brings(s, b, p, c, o, x, f, v)
    BY <1>6, <2>7
  <2> QED BY <1>3, <1>5, <2>8 DEF Arriving, v, b
<1> QED BY <1>7, <1>8

LEMMA FlushedData ==
    ASSUME DataInv, NEW n \in Node, ~node[n].paused, NEW A, NEW U, NEW B,
           Flushed(A, U, n, B)
    PROVE  Data(U, B)
<1>1. /\ Good(A) /\ Calm(State, A) /\ Data(A, acked) /\ risk \subseteq A.risk
      /\ mode \in Modes
  BY StateFacts, DataFacts DEF Flushed, Tame, Calm
<1>2. OneImport(U)
  BY DEF Flushed, Data, OneImport
<1>3. ASSUME NEW m \in Node, NEW s \in Slot \ U.risk, Holds(U, m, s)
      PROVE  U.node[m].val[s] = B[s]
  <2>1. Holds(A, m, s) /\ s \in Slot \ risk /\ s \notin A.risk
    BY <1>1, <1>3 DEF Flushed, Holds, SlotFailoverGranted
  <2>2. Holds(State, m, s)
    BY <1>1, <2>1, CalmHolds
  <2>3. node[m].owner[s] = m
    BY <2>2, StateFacts DEF Holds
  <2>4. CASE m = n
    BY <2>3, <2>4 DEF Flushed
  <2>5. CASE m # n
    <3>1. node[n].owner[s] # n
      BY <2>1, <2>2, <2>5, WriterHolds
    <3>2. A.node[m].val[s] = acked[s]
      BY <1>1, <2>1 DEF Data, Whole
    <3> QED BY <2>5, <3>1, <3>2 DEF Flushed
  <2> QED BY <2>4, <2>5
<1>4. ASSUME NEW j \in Job PROVE JobData(U, B, j)
  <2>1. Src(j) \in Node /\ Dst(j) \in Node /\ Slots(j) \subseteq Slot
    BY <1>1, ModeFacts
  <2>2. Staged(j, A.exp[j], A.link[j], A.imp[j], Busy(A, j)) /\ Copied(A, acked, j)
    BY <1>1 DEF Data, JobData
  <2>3. Staged(j, U.exp[j], U.link[j], U.imp[j], Busy(U, j))
    <3>1. Busy(U, j) <=> Busy(A, j)
      BY <2>1 DEF Flushed, Busy
    <3> QED BY <2>2, <3>1 DEF Flushed, Staged
  <2>4. ASSUME A.imp[j] \in ImportInProgress
        PROVE  /\ U.node[Dst(j)].val = A.node[Dst(j)].val
               /\ U.node[Dst(j)].owner = A.node[Dst(j)].owner
    BY <2>1, <2>4 DEF Flushed
  <2>5. ASSUME A.imp[j] = "granted", NEW s \in Slots(j) \ A.risk
        PROVE  B[s] = acked[s]
    <3>1. imp[j] = "granted"
      BY <2>5, StateFacts DEF Flushed, Tame, TameJob, ImportInProgress
    <3>2. s \in Slot \ risk
      BY <1>1, <2>1
    <3>3. node[n].owner[s] # n
      BY <2>5, <3>1, <3>2, WriterHolds
    <3> QED BY <3>2, <3>3 DEF Flushed
  <2>6. U.imp = A.imp /\ U.exp = A.exp /\ U.link = A.link /\ U.risk = A.risk
    BY DEF Flushed
  <2>7. ASSUME A.imp[j] \in ImportInProgress, A.link[j].dst, ~A.link[j].cut,
               NEW s \in Slots(j) \ A.risk
        PROVE  Arriving(U, B, j, s)
    BY <2>7, FlushedArrives
  <2>8. Copied(U, B, j)
    BY <2>2, <2>4, <2>5, <2>6, <2>7 DEF Copied
  <2> QED BY <2>3, <2>8 DEF JobData
<1> QED BY <1>2, <1>3, <1>4 DEF Data, Whole

(* FLUSHALL.                                                               *)
LEMMA FlushAllData ==
    ASSUME DataInv, NEW n \in Node, FlushAll(n)
    PROVE  Data(State, acked)'
<1> DEFINE J == {j \in Exports(n) : exp[j].st \in ExportInProgress}
           I == {j \in Imports(n) : imp[j] \in ImportInProgress}
           F == FinishExports(State, n, J, "failed")
           A == FailImports(F, I)
           V == [s \in Slot |-> <<>>]
           U == [A EXCEPT !.node[n].val = V]
<1>0. /\ mode' = mode /\ "failed" \in Finished /\ "failed" # "success" /\ ~node[n].paused
      /\ J \subseteq Exports(n) /\ I \subseteq Job /\ Good(State) /\ mode \in Modes
      /\ acked' = [s \in Slot |-> IF node[n].owner[s] = n THEN <<>> ELSE acked[s]]
  BY DataFacts DEF FlushAll, Finished, Imports
<1>1. Apply(U)
  BY Zenon DEF FlushAll
<1>2. /\ \A j \in Job : /\ Src(j) = n /\ exp[j].st \in ExportInProgress => j \in J
                        /\ Dst(j) = n /\ imp[j] \in ImportInProgress => j \in I
      /\ \A j \in I : imp[j] \in Importing
  BY DEF Exports, Imports, Importing
<1>3. \A s \in Slot : V[s] = <<>>
  OBVIOUS
<1> HIDE DEF J, I, V
<1>4. Good(F) /\ Tame(State, F) /\ F.imp = imp /\ EndsJobs(State, F, J, "failed")
  <2>1. Good(F) /\ F.imp = State.imp /\ EndsJobs(State, F, J, "failed")
    BY <1>0, FinishExportsOK
  <2>2. Tame(State, F)
    BY <1>0, FinishExportsTame
  <2> QED BY <2>1, <2>2, StateFacts
<1> HIDE DEF F
<1>5. Good(A) /\ Tame(F, A) /\ A.exp = F.exp
  <2>1. \A j \in I : F.imp[j] \in Importing
    BY <1>2, <1>4
  <2>2. Good(A) /\ A.exp = F.exp
    BY <1>0, <1>4, FailImportsOK
  <2>3. Tame(F, A)
    BY <1>0, <1>4, <2>1, FailImportsTame
  <2> QED BY <2>2, <2>3
<1>6. A.imp = [j \in Job |-> IF j \in I THEN "cleaning" ELSE imp[j]]
  BY <1>4 DEF FailImports, Good, IsState
<1> HIDE DEF A
<1>7. Tame(State, A)
  BY <1>0, <1>4, <1>5, TameTransitive
<1>8. Data(A, acked)
  BY <1>0, <1>7, DataFacts, TameData
<1>9. ASSUME NEW j \in Job
      PROVE  /\ Src(j) = n => ~Fed(A.exp[j])
             /\ Dst(j) = n => A.imp[j] \notin ImportInProgress
  <2>1. Src(j) = n => ~Fed(F.exp[j])
    BY <1>2, <1>4, StateFacts DEF EndsJobs, Fed, ExportInProgress
  <2>2. "cleaning" \notin ImportInProgress
    BY DEF ImportInProgress
  <2> QED BY <1>2, <1>5, <1>6, <2>1, <2>2
<1>10. IsState(A) /\ NodeOK(n, A.node[n])
  BY <1>5 DEF Good, NodesOK
<1>11. /\ U.exp = A.exp /\ U.link = A.link /\ U.imp = A.imp /\ U.risk = A.risk
       /\ U.node = [A.node EXCEPT ![n] = [A.node[n] EXCEPT !.val = V]]
  BY <1>10 DEF IsState
<1> HIDE DEF U
<1>12. /\ U.node[n].owner = A.node[n].owner /\ U.node[n].child = A.node[n].child
       /\ U.node[n].val = V /\ \A m \in Node \ {n} : U.node[m] = A.node[m]
  BY <1>10, <1>11 DEF IsState, NodeOK
<1>13. \A s \in Slot : acked'[s] = IF node[n].owner[s] = n THEN <<>> ELSE acked[s]
  BY <1>0
<1>14. Flushed(A, U, n, acked')
  BY <1>3, <1>5, <1>7, <1>8, <1>9, <1>11, <1>12, <1>13 DEF Flushed
<1>15. Data(U, acked')
  BY <1>0, <1>14, FlushedData
<1> QED BY <1>0, <1>1, <1>15, DataApplied

-------------------------------------------------------------------------------
(* The state in which the nodes start.                                     *)
LEMMA InitData ==
    ASSUME Init
    PROVE  DataInv
<1>1. \A j \in Job : exp[j] = NoExport /\ link[j] = NoLink /\ imp[j] = "none"
  BY DEF Init
<1>2. NoExport.st = "none" /\ NoExport.out = <<>> /\ NoLink.tot = <<>> /\ NoLink.tos = <<>>
  BY DEF NoExport, NoLink
<1>3. ~NoLink.dst /\ ~NoLink.cut
  BY DEF NoLink
<1>4. \A S : <<>> \in Seq(S)
  BY EmptySeq
<1>5. \A n \in Node : node[n].child = None
  BY DEF Init
<1>6. \A n \in Node, s \in Slot : node[n].val[s] = <<>> /\ acked[s] = <<>>
  BY DEF Init
<1>7. WriterInv /\ mode \in Modes
  BY InitSingle DEF Init
<1>8. ASSUME NEW j \in Job PROVE JobData(State, acked, j)
  <2>1. ~Busy(State, j)
    BY <1>5, <1>7, StateFacts, ModeFacts DEF Busy
  <2>2. imp[j] \notin ImportInProgress
    BY <1>1 DEF ImportInProgress
  <2>3. /\ exp[j].st = "none" /\ exp[j].out = <<>> /\ link[j].tot = <<>>
        /\ link[j].tos = <<>> /\ ~link[j].dst /\ ~link[j].cut
    BY <1>1, <1>2, <1>3
  <2>4. exp[j].st \notin ExportInProgress /\ exp[j].st \notin Finished
    BY <2>3 DEF ExportInProgress, Finished
  <2>5. Staged(j, exp[j], link[j], imp[j], Busy(State, j))
    BY <1>4, <2>1, <2>3, <2>4 DEF Staged
  <2> QED BY <2>2, <2>5, StateFacts DEF JobData, Copied
<1>9. OneImport(State)
  <2>1. \A j \in Job : imp[j] \notin Importing
    BY <1>1 DEF Importing, ImportInProgress
  <2> QED BY <2>1, StateFacts DEF OneImport
<1>10. Whole(State, acked)
  BY <1>6, StateFacts DEF Whole
<1>11. acked = [s \in Slot |-> acked[s]]
  BY DEF Init
<1> QED BY <1>7, <1>8, <1>9, <1>10, <1>11 DEF DataInv, Data

(* A connection, a job or the event loop of a node takes a step.           *)
LEMMA JobStepData ==
    ASSUME DataInv, NEW j \in Job, JobStep(j)
    PROVE  Data(State, acked)'
<1>1. CASE SyncSlotsSnapshotEof(j)
  <2>1. /\ "request_pause" \in Reply /\ "snapshot" \in ImportInProgress \ {"granted"}
        /\ "wait_paused" \in ImportInProgress \ {"granted"} /\ "eof" \in {"eof", "paused"}
    BY DEF Reply, ImportInProgress
  <2> QED BY <1>1, <2>1, MarkerData DEF SyncSlotsSnapshotEof
<1>2. CASE SyncSlotsPaused(j)
  <2>1. /\ "request_failover" \in Reply /\ "request_failover" \in Answers
        /\ "wait_paused" \in ImportInProgress \ {"granted"}
        /\ "requested" \in ImportInProgress \ {"granted"} /\ "paused" \in {"eof", "paused"}
    BY DEF Reply, Answers, ImportInProgress
  <2> QED BY <1>2, <2>1, MarkerData DEF SyncSlotsPaused
<1> QED
  BY <1>1, <1>2, ConnectData, WriteToClientData, ReadEstablishData, BeginSnapshotData,
     RequestPauseData, WaitingToPauseData, RequestFailoverData, DeadlineData,
     ExportEndsData, EstablishData, AckData, LoadSnapshotData, ApplyWriteData,
     FailoverGrantedData, PerformFailoverData, CleanUpData, SourceSeesCloseData,
     TargetSeesCloseData
  DEF JobStep

(* Only a client's write and FLUSHALL change what was acknowledged.        *)
LEMMA JobStepAcked ==
    ASSUME NEW j \in Job, JobStep(j) \/ MigrateSlots(j) \/ JobFault(j)
    PROVE  acked' = acked
<1>1. CASE JobStep(j)
  <2>1. ASSUME NEW k, NEW from, NEW answer, NEW to, Marker(j, k, from, answer, to)
        PROVE  acked' = acked
    BY <2>1 DEF Marker
  <2> QED
    BY <1>1, <2>1
    DEF JobStep, Connect, WriteToClient, ReadEstablishResponse, BeginSnapshot,
        RequestPause, WaitingToPause, RequestFailover, DeadlinePasses, PauseTimeout,
        SyncSlotsEstablish, SyncSlotsAck, LoadSnapshot, ApplyWrite,
        SyncSlotsSnapshotEof, SyncSlotsPaused, SyncSlotsFailoverGranted,
        PerformSlotImportJobFailover, CleanUp, SourceSeesClose, TargetSeesClose
<1>2. CASE MigrateSlots(j)
  BY <1>2 DEF MigrateSlots
<1>3. CASE JobFault(j)
  BY <1>3
  DEF JobFault, ConnectFails, ForkFails, ImportFails, LinkBreaks, ExportTimesOut,
      ImportTimesOut
<1> QED BY <1>1, <1>2, <1>3

(* Every step keeps what a migration owes the target.                      *)
LEMMA NextData ==
    ASSUME DataInv, [Next]_vars
    PROVE  DataInv'
<1>0. WriterInv' /\ acked = [s \in Slot |-> acked[s]]
  BY NextSingle DEF DataInv
<1>1. CASE UNCHANGED vars
  BY <1>0, <1>1, BusData DEF vars, DataInv
<1>2. ASSUME NEW j \in Job, JobStep(j) PROVE DataInv'
  <2>1. acked' = acked
    BY <1>2, JobStepAcked
  <2>2. Data(State, acked)'
    BY <1>2, JobStepData
  <2> QED BY <1>0, <2>1, <2>2 DEF DataInv
<1>3. ASSUME NEW n \in Node, NodeStep(n) PROVE DataInv'
  <2>1. acked' = acked
    BY <1>3 DEF NodeStep, ChildWrites, BackgroundSlotMigrationDone, PauseExpires
  <2>2. Data(State, acked)'
    BY <1>3, ChildData, SnapshotDoneData, NodeStepsData DEF NodeStep
  <2> QED BY <1>0, <2>1, <2>2 DEF DataInv
<1>4. ASSUME NEW j \in Job, MigrateSlots(j) \/ JobFault(j) PROVE DataInv'
  <2>1. acked' = acked
    BY <1>4, JobStepAcked
  <2>2. Data(State, acked)'
    BY <1>4, MigrateSlotsData, ExportEndsData, ForkFailsData, ImportEndsData,
       LinkBreaksData DEF JobFault
  <2> QED BY <1>0, <2>1, <2>2 DEF DataInv
<1>5. ASSUME NEW n \in Node, NodeCommand(n) PROVE DataInv'
  <2>1. CASE FlushAll(n)
    <3>1. acked' = [s \in Slot |-> acked'[s]]
      BY <2>1 DEF FlushAll
    <3>2. Data(State, acked)'
      BY <2>1, FlushAllData
    <3> QED BY <1>0, <3>1, <3>2 DEF DataInv
  <2>2. CASE ChildFails(n) \/ CancelSlotMigrations(n) \/ BumpEpoch(n) \/ Restart(n)
    <3>1. acked' = acked
      BY <2>2 DEF ChildFails, CancelSlotMigrations, BumpEpoch, Restart
    <3>2. Data(State, acked)'
      BY <2>2, ChildData, CancelData, NodeStepsData, RestartData
    <3> QED BY <1>0, <3>1, <3>2 DEF DataInv
  <2> QED BY <1>5, <2>1, <2>2 DEF NodeCommand
<1>6. ASSUME NEW n \in Node, NEW m \in Node, Gossip(n, m) PROVE DataInv'
  <2>1. acked' = acked
    BY <1>6 DEF Gossip, SendPong, ReceivePong
  <2>2. CASE SendPong(n, m)
    <3>1. Data(State, acked)'
      BY <2>2, BusData DEF SendPong
    <3> QED BY <1>0, <2>1, <3>1 DEF DataInv
  <2>3. CASE ReceivePong(n, m)
    <3>1. Data(State, acked)'
      BY <2>3, ReceivePongData
    <3> QED BY <1>0, <2>1, <3>1 DEF DataInv
  <2> QED BY <1>6, <2>2, <2>3 DEF Gossip
<1>7. ASSUME NEW n \in Node, NEW s \in Slot, Write(n, s) PROVE DataInv'
  <2>1. acked' = [t \in Slot |-> acked'[t]]
    BY <1>0, <1>7 DEF Write
  <2>2. Data(State, acked)'
    BY <1>7, WriteData
  <2> QED BY <1>0, <2>1, <2>2 DEF DataInv
<1> QED BY <1>1, <1>2, <1>3, <1>4, <1>5, <1>6, <1>7 DEF Next, Progress

(* What a migration owes the target, in every behaviour.                   *)
LEMMA DataInvariant == Spec => []DataInv
<1>1. Init => DataInv
  BY InitData
<1>2. DataInv /\ [Next]_vars => DataInv'
  BY NextData
<1> QED BY <1>1, <1>2, PTL DEF Spec

(* OwnerHasAll for any nodes, slots, migrations and faults: a node that    *)
(* holds itself for the owner of a slot, and has not granted it away, has  *)
(* every acknowledged write to it.  The snapshot of the child and the      *)
(* writes that are fed to the export reach the target in order and once,   *)
(* and the failover is granted behind the last of them: the target takes   *)
(* over (performSlotImportJobFailover) with all the keys of the source.    *)
THEOREM OwnerHasAllAlways == Spec => []OwnerHasAll
<1>1. DataInv => OwnerHasAll
  <2>1. DataInv => Whole(State, acked)
    BY DEF DataInv, Data
  <2> QED BY <2>1, StateFacts DEF Whole, Holds, OwnerHasAll
<1> QED BY <1>1, DataInvariant, PTL
=============================================================================
