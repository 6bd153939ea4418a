---------------------------- MODULE MCTaskStore ----------------------------
(* Two conversations and a shell outside any engine use one project's store. *)
EXTENDS TaskStore, TLC

CONSTANTS me, you, shell,   \* processes
          c1, c2            \* conversations

MCConv == [p \in Procs |-> CASE p = me -> c1 [] p = you -> c2 [] OTHER -> None]

\* No check depends on the name of a task or a session.
Symmetry == Permutations(Slugs) \cup Permutations(SessionIds)
=============================================================================
