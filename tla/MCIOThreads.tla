---------------------------- MODULE MCIOThreads ----------------------------
(***************************************************************************)
(* Model checking of IOThreads.  The client ids 1 and 2 have different     *)
(* residues, so that two clients have two home threads when two threads    *)
(* are active and share one otherwise; rings of three slots wrap around    *)
(* and fill up.                                                            *)
(***************************************************************************)
EXTENDS IOThreads
=============================================================================
