--------------------------- MODULE MCTransactions ---------------------------
(* Instances of Transactions for TLC. *)
EXTENDS Transactions, TLC

CONSTANT k1

Cmd(o, k, d, w) == [op |-> o, key |-> k, db |-> d, when |-> w]

\* A primary with two databases: everything that writes, expires, reads or flushes
\* a key, without SWAPDB.
KeyCommands ==
  {Cmd(o, k1, 0, 0) : o \in {"set", "del", "get", "persist", "unwatch", "flushdb", "flushall"}}
    \cup {Cmd(o, k1, 0, 1) : o \in {"setpx", "expire"}}
    \cup {Cmd("select", k1, 1, 0)}

\* SWAPDB with a key that can expire.
SwapExpiryCommands ==
  {Cmd("set", k1, 0, 0), Cmd("setpx", k1, 0, 1)}
    \cup {Cmd(o, k1, 1, 0) : o \in {"swapdb", "select"}}

\* What a primary streams to its replica, and what the replica's clients ask.
StreamCommands ==
  {Cmd(o, k1, 0, 0) : o \in {"set", "del", "get", "flushdb", "flushall", "unwatch"}}
    \cup {Cmd(o, k1, 1, 0) : o \in {"swapdb", "select"}}

Symmetry == Permutations(Client)
=============================================================================
