------------------------------- MODULE MCMailbox -------------------------------
(* TLC instances of Mailbox: one process that may crash, and two processes    *)
(* that share the directory.                                                  *)
EXTENDS Mailbox, TLC

\* Processes of one directory run the same code.
Symm == Permutations(Procs)
================================================================================
