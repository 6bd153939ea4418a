------------------------------- MODULE Mutex -------------------------------
(***************************************************************************)
(* What the task store lock promises its users: for every store folder at   *)
(* most one thread at a time is inside, a thread gets in only when nobody   *)
(* is, and whoever is inside leaves.  How a nested call re-enters, where    *)
(* the thread remembers what it holds and what a dead process leaves        *)
(* behind is the business of StoreLock, which implements this module.       *)
(***************************************************************************)

CONSTANTS Threads,   \* threads of llmenv processes
          Stores,    \* canonical task store folders
          Nobody     \* the holder of a free lock

VARIABLE holder      \* holder[s]: the thread inside store s, or Nobody

Init == holder = [s \in Stores |-> Nobody]

\* A thread enters a store that nobody is in.
Enter(t, s) == /\ holder[s] = Nobody
               /\ holder' = [holder EXCEPT ![s] = t]

\* A thread leaves some of the stores it is in: one when a call returns, all
\* of them when its process ends.
Leave(t) == \E left \in SUBSET Stores :
                /\ \A s \in left : holder[s] = t
                /\ holder' = [s \in Stores |-> IF s \in left THEN Nobody ELSE holder[s]]

Next == \E t \in Threads : Leave(t) \/ \E s \in Stores : Enter(t, s)

Spec == Init /\ [][Next]_holder

=============================================================================
