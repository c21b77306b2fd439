------------------------------ MODULE DurableLog ------------------------------
(***************************************************************************)
(* What the append only file promises, with no file in sight: a log of     *)
(* writes of which a prefix is safe.  A failure may cut the log back, but  *)
(* never below the safe prefix and never to anything but a prefix.         *)
(* AppendOnlyFile implements this specification.                           *)
(***************************************************************************)
EXTENDS Integers, Sequences

CONSTANT Writes                  \* the writes a client may issue

VARIABLES
    log,                         \* the writes of the dataset, in order
    safe,                        \* how many of them survive a failure
    on                           \* whether the promise is being made

Init == log = <<>> /\ safe = 0 /\ on = TRUE

Execute(w) == log' = Append(log, w) /\ UNCHANGED <<safe, on>>

Acknowledge == on /\ safe' \in safe .. Len(log) /\ UNCHANGED <<log, on>>

TurnOff == on /\ on' = FALSE /\ safe' = 0 /\ UNCHANGED log

TurnOn == ~on /\ on' = TRUE /\ safe' \in 0 .. Len(log) /\ UNCHANGED log

(* A failure and the restart after it.                                     *)
Recover ==
    /\ \E k \in safe .. Len(log) : log' = SubSeq(log, 1, k)
    /\ on' = TRUE
    /\ UNCHANGED safe

Next ==
    \/ \E w \in Writes : Execute(w)
    \/ Acknowledge
    \/ TurnOff
    \/ TurnOn
    \/ Recover

Spec == Init /\ [][Next]_<<log, safe, on>>
===============================================================================
