----------------------------- MODULE TaskBoard -----------------------------
(***************************************************************************)
(* What the task store promises to whoever looks at it between two saves:   *)
(* the life of a task and of a session, with no locks, links or commands.   *)
(* A done task only goes back to open; a task leaves its session only       *)
(* unfinished and while the session is open; a session closes once, when    *)
(* none of its tasks is unfinished; and every step changes one task or one  *)
(* session.                                                                 *)
(***************************************************************************)
CONSTANTS Slugs, SessionIds, None

VARIABLES state,    \* the state of each task, or "absent"
          tag,      \* the session of each task, or None
          status    \* "absent", "open" or "closed"

Init == /\ state = [x \in Slugs |-> "absent"]
        /\ tag = [x \in Slugs |-> None]
        /\ status = [s \in SessionIds |-> "absent"]

Post(x, s) ==
    /\ state[x] = "absent" /\ status[s] # "absent"
    /\ state' = [state EXCEPT ![x] = "open"]
    /\ tag' = [tag EXCEPT ![x] = s]
    /\ UNCHANGED status

Move(x, to) ==
    /\ state[x] # "absent"
    /\ (state[x] = "done") <=> (to = "open")
    /\ state' = [state EXCEPT ![x] = to]
    /\ UNCHANGED <<tag, status>>

Orphan(x) ==
    /\ state[x] \in {"open", "wip", "waiting"}
    /\ tag[x] \in SessionIds /\ status[tag[x]] = "open"
    /\ tag' = [tag EXCEPT ![x] = None]
    /\ UNCHANGED <<state, status>>

Remove(x) ==
    /\ state[x] # "absent"
    /\ state' = [state EXCEPT ![x] = "absent"]
    /\ tag' = [tag EXCEPT ![x] = None]
    /\ UNCHANGED status

Open(s) ==
    /\ status[s] = "absent"
    /\ status' = [status EXCEPT ![s] = "open"]
    /\ UNCHANGED <<state, tag>>

Close(s) ==
    /\ status[s] = "open"
    /\ \A x \in Slugs : tag[x] = s => state[x] = "done"
    /\ status' = [status EXCEPT ![s] = "closed"]
    /\ UNCHANGED <<state, tag>>

Next ==
    \/ \E x \in Slugs :
        \/ \E s \in SessionIds : Post(x, s)
        \/ \E to \in {"open", "wip", "waiting", "done"} : Move(x, to)
        \/ Orphan(x) \/ Remove(x)
    \/ \E s \in SessionIds : Open(s) \/ Close(s)

Spec == Init /\ [][Next]_<<state, tag, status>>
=============================================================================
