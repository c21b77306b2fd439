-------------------------- MODULE MCSlotMigration -----------------------------
(* Instances of SlotMigration: scenarios of two nodes, two slots and two   *)
(* migrations.                                                             *)
EXTENDS SlotMigration, TLC

CONSTANTS s1, s2, j1, j2

Move(a, b, s) == [src |-> a, dst |-> b, slots |-> {s}]

Scenario(a, b, o, e, p, n, w) ==
    [jobs |-> (j1 :> a @@ j2 :> b), owner |-> (s1 :> 1 @@ s2 :> o),
     epoch |-> e, ops |-> p, nops |-> n, writes |-> w]

Low  == (1 :> 1 @@ 2 :> 2)   \* node 1 has the lower epoch
High == (1 :> 2 @@ 2 :> 1)

(* A migration and its retry, with faults or commands on the source or on  *)
(* the target; the one with two writes tells their order.                  *)
Retry(e, p, n, w) == Scenario(Move(1, 2, s1), Move(1, 2, s1), 2, e, p, n, w)

(* Two migrations that share the source, its child and its pause.          *)
Parallel(e, w) == Scenario(Move(1, 2, s1), Move(1, 2, s2), 1, e, {}, 0, w)

(* Two migrations in opposite directions.                                  *)
Crossed(e, w) == Scenario(Move(1, 2, s1), Move(2, 1, s2), 2, e, {}, 0, w)

(* A slot that is moved and moved back.                                    *)
MovedBack(e, w) == Scenario(Move(1, 2, s1), Move(2, 1, s1), 2, e, {}, 0, w)

MCMigration ==
    {Retry(Low, (OpName \ {"bump"}) \X {1}, 1, 1),
     Retry(High, OpName \X {2}, 1, 1),
     Retry(High, {"cut", "restart"} \X Node, 2, 0),
     Retry(High, {}, 0, 2),
     Parallel(High, 1),
     Crossed(Low, 1)}

MCCrossed   == {[Crossed(Low, 0) EXCEPT !.ops = {<<"cancel", 1>>}, !.nops = 1]}
MCMovedBack == {MovedBack(Low, 0)}
===============================================================================
