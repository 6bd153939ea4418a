----------------------------- MODULE TaskModel -----------------------------
(***************************************************************************)
(* The records of the task store and the checks that the task commands run  *)
(* on one read of it: the parent walk, the subtree walk of a blocker, the   *)
(* queue of a session, and the pick of the caller's session.  A store read  *)
(* is a function T from slugs to tasks (None where there is no file) and a  *)
(* function S from session ids to sessions.                                 *)
(*                                                                          *)
(* Titles, notes, details and the times are left out.  created_at only      *)
(* orders the queue, so a task carries its place in the creation order.     *)
(***************************************************************************)
EXTENDS Naturals, FiniteSets

CONSTANTS Slugs,        \* task slugs: the names of task files
          SessionIds,   \* session ids: the names of session files
          Convs,        \* engine conversation ids
          None          \* no file, no parent, no session, no conversation

ASSUME NoneAssumption == None \notin Slugs \cup SessionIds \cup Convs
ASSUME SlugsFinite == IsFiniteSet(Slugs)

States == {"open", "wip", "waiting", "done"}
Relations == {"queued", "child"}

Task == [state    : States,
         parent   : Slugs \cup {None},
         relation : Relations,
         parallel : BOOLEAN,
         blocked  : SUBSET Slugs,
         session  : SessionIds \cup {None},
         born     : Nat]

Statuses == {"open", "finished", "abandoned"}
Session == [status : Statuses, conv : Convs \cup {None}]

ASSUME NoneIsNoRecord == None \notin Task /\ None \notin Session

Exists(T) == {x \in Slugs : T[x] # None}
IsOpen(S, s) == S[s] # None /\ S[s].status = "open"
OpenSessions(S) == {s \in SessionIds : IsOpen(S, s)}
Unfinished(T, s) == {x \in Exists(T) : T[x].session = s /\ T[x].state # "done"}

-----------------------------------------------------------------------------
(* Parent links. *)

\* The set A contains the parent of each of its tasks.
ParentClosed(T, A) ==
    \A x \in A : T[x] # None /\ T[x].parent # None => T[x].parent \in A

\* x and everything its parent links lead to, a missing task included.
Lineage(T, x) ==
    {y \in Slugs : \A A \in SUBSET Slugs : (x \in A /\ ParentClosed(T, A)) => y \in A}

\* Mutant: only the direct parent is compared.
NoCycleDirect(T, x, y) == T[y].parent # x

\* reject_cycle lets x take the parent y: the walk up from y meets neither x
\* nor a missing task nor itself, so it ends at a task without a parent.
NoCycle(T, x, y) ==
    LET up == Lineage(T, y)
    IN  /\ x \notin up
        /\ up \subseteq Exists(T)
        /\ \E root \in up : T[root].parent = None

\* Everything below x: the tasks whose parent links lead to x, found downwards
\* through the tasks of the set Links.
Below(T, x, Links) ==
    {y \in Slugs : \A D \in SUBSET Slugs :
        (x \in D /\ \A c \in Links : T[c].parent \in D => c \in D) => y \in D}

\* Mutant: the task counts among its own sub-tasks.
UndoneDescendantsSelf(T, x) ==
    {y \in Below(T, x, {c \in Exists(T) : T[c].relation = "child"}) : T[y].state # "done"}

\* undone_descendants: the sub-tasks below x, at any depth, that are not done.
UndoneDescendants(T, x) ==
    LET subtasks == {c \in Exists(T) : T[c].relation = "child"}
    IN  {y \in Below(T, x, subtasks) \ {x} : T[y].state # "done"}

\* first_undone_in_subtree finds nothing: the blocker b and every task below
\* it by any parent link are done.  The walk skips the waiter's subtree, and a
\* loop back to b is an error, which no caller takes for done.
SubtreeDone(T, b, waiter) ==
    LET sub == Below(T, b, Exists(T) \ {waiter})
    IN  /\ \A y \in sub : T[y] # None /\ T[y].state = "done"
        /\ T[b].parent \notin sub

-----------------------------------------------------------------------------
(* The queue of a session. *)

Queue(T, s) == {y \in Exists(T) : /\ T[y].session = s
                                  /\ T[y].relation = "queued"
                                  /\ ~T[y].parallel}

\* Mutant: only the task ahead counts.
QueueBlockAheadOnly(T, x) ==
    LET queue == Queue(T, T[x].session)
        ahead == {y \in queue : T[y].born < T[x].born}
        last  == {y \in ahead : \A z \in ahead : T[z].born <= T[y].born}
    IN  /\ T[x].state = "open"
        /\ x \in queue
        /\ \E y \in last : T[y].state \notin {"done", "waiting"}

\* queue_block: an open queued task waits while another task of the queue is
\* in progress, or while the task just ahead of it is neither done nor waiting.
QueueBlock(T, x) ==
    LET queue == Queue(T, T[x].session)
        ahead == {y \in queue : T[y].born < T[x].born}
        last  == {y \in ahead : \A z \in ahead : T[z].born <= T[y].born}
    IN  /\ T[x].state = "open"
        /\ x \in queue
        /\ \/ \E y \in queue \ {x} : T[y].state = "wip"
           \/ \E y \in last : T[y].state \notin {"done", "waiting"}

\* The queue holds x.  A task with no session has no queue to wait in.
Held(T, x) == T[x].session # None /\ QueueBlock(T, x)

-----------------------------------------------------------------------------
(* task start. *)

\* The walk of ancestors_to_start: Climb(T, x)[n] is the n-th task on the way up
\* from x, which goes on while the task is a sub-task; None after its end.
Climb(T, x) ==
    LET up[n \in 0..Cardinality(Slugs)] ==
            IF n = 0 THEN x
            ELSE LET y == up[n - 1]
                 IN  IF y \in Exists(T) /\ T[y].relation = "child"
                     THEN T[y].parent ELSE None
    IN  up

\* ancestors_to_start refuses nothing: every sub-task on the way up names a
\* parent that exists and was not met before, and without force that parent is
\* neither done nor, when open, held by its queue.
AncestorsOK(T, x, force) ==
    LET up == Climb(T, x)
    IN  \A n \in 0..(Cardinality(Slugs) - 1) :
            up[n] \in Exists(T) /\ T[up[n]].relation = "child" =>
                LET y == up[n + 1]
                IN  /\ y \in Exists(T)
                    /\ \A m \in 0..n : up[m] # y
                    /\ force \/ T[y].state # "done"
                    /\ force \/ ~(T[y].state = "open" /\ Held(T, y))

\* The steps up to the open ancestors that the start of x still has to put in
\* progress.
OpenAncestors(T, x) ==
    {n \in 1..Cardinality(Slugs) :
        Climb(T, x)[n] \in Exists(T) /\ T[Climb(T, x)[n]].state = "open"}

\* y is the one saved next: the nearest.
NextPromoted(T, x, y) ==
    \E n \in OpenAncestors(T, x) :
        y = Climb(T, x)[n] /\ \A m \in OpenAncestors(T, x) : n <= m

BlockersDone(T, x) == \A b \in T[x].blocked : SubtreeDone(T, b, x)

\* start_task refuses nothing.
StartOK(T, x, force) ==
    /\ T[x].state # "done"
    /\ force \/ (BlockersDone(T, x) /\ ~Held(T, x))
    /\ AncestorsOK(T, x, force)

\* Mutant: the sub-tasks are not looked at.
DoneOKNoSubtasks(T, x, force) == force \/ T[x].state # "open"

\* close_task refuses nothing.
DoneOK(T, x, force) ==
    force \/ (T[x].state # "open" /\ UndoneDescendants(T, x) = {})

-----------------------------------------------------------------------------
(* Sessions and their owners. *)

\* may_take_tasks: a session without an owner takes any caller's task.
MayTake(S, s, conv) == S[s].conv \in {None, conv}

\* pick_open_session: the only open session, else the only one the caller's
\* conversation owns; None when there is no such session.
Pick(S, conv) ==
    LET open  == OpenSessions(S)
        owned == {s \in open : conv # None /\ S[s].conv = conv}
    IN  CASE Cardinality(open) = 1  -> CHOOSE s \in open : TRUE
          [] Cardinality(open) > 1 /\ Cardinality(owned) = 1
                                    -> CHOOSE s \in owned : TRUE
          [] OTHER                  -> None

\* caller_session: the session the caller acts for, or None.
Caller(S, conv) ==
    LET s == Pick(S, conv)
    IN  IF s # None /\ MayTake(S, s, conv) THEN s ELSE None
=============================================================================
