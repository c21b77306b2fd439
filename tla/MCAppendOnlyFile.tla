--------------------------- MODULE MCAppendOnlyFile ---------------------------
(* The scenarios checked.                                                  *)
EXTENDS AppendOnlyFile

M(p, f, o, x) == [policy |-> p, failure |-> f, ops |-> o, faults |-> x]

RewriteFaults == {"open", "manifest", "rename", "fork", "child"}

(* Replies promised against a loss of power, with every failing step; and  *)
(* write(2)s promised against the death of the process, with failing       *)
(* children and with failing writes.                                       *)
MCModes ==
    {M("always", "power", {"rewrite", "toggle", "shutdown"}, RewriteFaults),
     M("everysec", "process", {"rewrite", "toggle"}, {"child"}),
     M("everysec", "process", {"shutdown"}, {"write", "fsync"}),
     M("no", "process", {"rewrite"}, {})}

(* The premise of the theorems holds of the scenarios checked.             *)
ASSUME MCSturdy == \A m \in MCModes : IsSturdy(m)

(* The policy everysec against a loss of power.                            *)
MCWaitaof == {M("everysec", "power", {}, {})}

(* Rewrites while the AOF is off, and the death of the process.            *)
MCOffRewrite == {M("always", "process", {"offrewrite", "toggle"}, {})}
===============================================================================
