----------------------------- MODULE StoreLock -----------------------------
(***************************************************************************)
(* The exclusive lock on a task store (with_store_lock): an flock on the    *)
(* .lock file of the canonical store folder, and a thread-local list HELD   *)
(* of the folders this thread has locked.  Every open of the lock file gets *)
(* its own flock, so a nested call of one thread would wait for itself; it  *)
(* runs in the outer call's lock instead when HELD has the folder.          *)
(***************************************************************************)
EXTENDS Naturals, Sequences, FiniteSets

CONSTANTS Threads,    \* threads of llmenv processes
          Paths,      \* spellings of store folders that callers pass
          Stores,     \* canonical store folders
          Canon,      \* Canon[path]: std::fs::canonicalize
          MaxDepth,   \* bound on the nesting of with_store_lock calls
          Nobody      \* the holder of a free lock; also "waits for no lock"

ASSUME CanonAssumption == Canon \in [Paths -> Stores]
ASSUME DepthAssumption == MaxDepth \in Nat
ASSUME NobodyAssumption == Nobody \notin Threads /\ Nobody \notin Stores

VARIABLES
    flock,    \* flock[s]: the thread whose open file holds the flock of s
    held,     \* held[t]: the thread-local HELD of t, newest folder last
    calls,    \* calls[t]: t's with_store_lock calls, innermost last:
              \* the store and whether the call took the lock ("outer"),
              \* re-entered it ("inner"), or is dropping it ("drop")
    waits     \* waits[t]: the store whose flock t is blocked on, or Nobody

vars == <<flock, held, calls, waits>>

Kinds == {"outer", "inner", "drop"}
Call == [store : Stores, kind : Kinds]

Init == /\ flock = [s \in Stores |-> Nobody]
        /\ held  = [t \in Threads |-> << >>]
        /\ calls = [t \in Threads |-> << >>]
        /\ waits = [t \in Threads |-> Nobody]

\* The thread runs its own code (a command, or the closure of its innermost
\* call) and may call with_store_lock or return from the closure.
Running(t) == /\ waits[t] = Nobody
              /\ calls[t] # << >> => calls[t][Len(calls[t])].kind # "drop"

\* Mutant: only the newest folder of HELD is compared.
HoldsNewestOnly(t, s) == held[t] # << >> /\ held[t][Len(held[t])] = s

Holds(t, s) == \E i \in 1..Len(held[t]) : held[t][i] = s

\* Mutant: a nested call pushes its folder on HELD too.
ReEnterPushes(t, path) ==
    /\ Running(t)
    /\ Len(calls[t]) < MaxDepth
    /\ Holds(t, Canon[path])
    /\ held' = [held EXCEPT ![t] = Append(@, Canon[path])]
    /\ calls' = [calls EXCEPT ![t] =
                    Append(@, [store |-> Canon[path], kind |-> "inner"])]
    /\ UNCHANGED <<flock, waits>>

\* with_store_lock(path, f) by a thread whose HELD has the folder: f runs at
\* once, under the lock of the outer call.
ReEnter(t, path) ==
    /\ Running(t)
    /\ Len(calls[t]) < MaxDepth
    /\ Holds(t, Canon[path])
    /\ calls' = [calls EXCEPT ![t] =
                    Append(@, [store |-> Canon[path], kind |-> "inner"])]
    /\ UNCHANGED <<flock, held, waits>>

\* Mutant: the folder is locked under the spelling the caller passed.
RequestAsSpelled(t, path) ==
    /\ Running(t)
    /\ Len(calls[t]) < MaxDepth
    /\ ~Holds(t, Canon[path])
    /\ waits' = [waits EXCEPT ![t] = path]
    /\ UNCHANGED <<flock, held, calls>>

\* with_store_lock(path, f) by a thread that does not hold the folder: it
\* opens the lock file and blocks in lock_file.lock().
Request(t, path) ==
    /\ Running(t)
    /\ Len(calls[t]) < MaxDepth
    /\ ~Holds(t, Canon[path])
    /\ waits' = [waits EXCEPT ![t] = Canon[path]]
    /\ UNCHANGED <<flock, held, calls>>

\* Mutant: a shared lock, granted while another thread has it.
AcquireShared(t) ==
    \E s \in Stores :
        /\ waits[t] = s
        /\ flock' = [flock EXCEPT ![s] = t]
        /\ held'  = [held EXCEPT ![t] = Append(@, s)]
        /\ calls' = [calls EXCEPT ![t] = Append(@, [store |-> s, kind |-> "outer"])]
        /\ waits' = [waits EXCEPT ![t] = Nobody]

\* The kernel grants the flock, and the thread records the folder in HELD.
Acquire(t) ==
    \E s \in Stores :
        /\ waits[t] = s
        /\ flock[s] = Nobody
        /\ flock' = [flock EXCEPT ![s] = t]
        /\ held'  = [held EXCEPT ![t] = Append(@, s)]
        /\ calls' = [calls EXCEPT ![t] = Append(@, [store |-> s, kind |-> "outer"])]
        /\ waits' = [waits EXCEPT ![t] = Nobody]

\* lock_file.lock() fails: the call returns the error and took nothing.
LockFails(t) ==
    /\ waits[t] # Nobody
    /\ waits' = [waits EXCEPT ![t] = Nobody]
    /\ UNCHANGED <<flock, held, calls>>

\* The closure of a nested call returns, with a value or an error.
ReturnInner(t) ==
    /\ Running(t)
    /\ calls[t] # << >>
    /\ calls[t][Len(calls[t])].kind = "inner"
    /\ calls' = [calls EXCEPT ![t] = SubSeq(@, 1, Len(@) - 1)]
    /\ UNCHANGED <<flock, held, waits>>

\* The closure of the outer call returns: the guard _held drops first and
\* pops the newest folder of HELD, whichever it is ...
DropHeld(t) ==
    /\ Running(t)
    /\ calls[t] # << >>
    /\ calls[t][Len(calls[t])].kind = "outer"
    /\ held'  = [held EXCEPT ![t] = SubSeq(@, 1, Len(@) - 1)]
    /\ calls' = [calls EXCEPT ![t][Len(calls[t])].kind = "drop"]
    /\ UNCHANGED <<flock, waits>>

\* Mutant: the lock file stays open after the call.
UnlockLeaks(t) ==
    /\ calls[t] # << >>
    /\ calls[t][Len(calls[t])].kind = "drop"
    /\ calls' = [calls EXCEPT ![t] = SubSeq(@, 1, Len(@) - 1)]
    /\ UNCHANGED <<flock, held, waits>>

\* ... then lock_file drops, which closes the file and frees the flock.
Unlock(t) ==
    /\ calls[t] # << >>
    /\ calls[t][Len(calls[t])].kind = "drop"
    /\ LET s == calls[t][Len(calls[t])].store
       IN  flock' = [flock EXCEPT ![s] = Nobody]
    /\ calls' = [calls EXCEPT ![t] = SubSeq(@, 1, Len(@) - 1)]
    /\ UNCHANGED <<held, waits>>

\* The process is killed: the kernel closes its files and so frees every
\* flock it holds; the thread-local HELD is gone with it.
Die(t) ==
    /\ \/ calls[t] # << >>
       \/ waits[t] # Nobody
    /\ flock' = [s \in Stores |-> IF flock[s] = t THEN Nobody ELSE flock[s]]
    /\ held'  = [held EXCEPT ![t] = << >>]
    /\ calls' = [calls EXCEPT ![t] = << >>]
    /\ waits' = [waits EXCEPT ![t] = Nobody]

Next == \E t \in Threads :
            \/ \E path \in Paths : ReEnter(t, path) \/ Request(t, path)
            \/ Acquire(t)
            \/ LockFails(t)
            \/ ReturnInner(t)
            \/ DropHeld(t)
            \/ Unlock(t)
            \/ Die(t)

\* The closure of the innermost of d calls returns.
ReturnAt(t, d) == /\ Len(calls[t]) = d
                  /\ ReturnInner(t) \/ DropHeld(t)

\* A closure makes finitely many nested calls and then returns, so at every
\* depth a return that is possible again and again happens; the drops that
\* follow it run.  flock wakes some waiter, but no given waiter is promised
\* its turn, so Acquire has no fairness.
Fairness == \A t \in Threads : /\ \A d \in 1..MaxDepth : SF_vars(ReturnAt(t, d))
                               /\ WF_vars(Unlock(t))

Spec == Init /\ [][Next]_vars /\ Fairness

-----------------------------------------------------------------------------
\* Every variable has its type.
TypeOK == /\ flock \in [Stores -> Threads \cup {Nobody}]
          /\ held  \in [Threads -> Seq(Stores)]
          /\ calls \in [Threads -> Seq(Call)]
          /\ waits \in [Threads -> Stores \cup {Nobody}]

\* While any call of a thread is on a store, nested ones included, no other
\* thread has a call on it: two llmenv commands never run their
\* read-modify-write of one store at the same time.
Exclusive ==
    \A t, u \in Threads :
        \A i \in 1..Len(calls[t]), j \in 1..Len(calls[u]) :
            calls[t][i].store = calls[u][j].store => t = u

\* A thread never waits for a flock it holds itself: a nested call with any
\* spelling of the folder re-enters instead of blocking for ever.
NoSelfWait == \A t \in Threads : waits[t] # Nobody => flock[waits[t]] # t

\* The guard pops HELD without naming a folder.  It is the right one: HELD
\* lists the stores of the outer calls in call order, so a thread forgets a
\* store exactly when it gives up its flock.
HeldAreOuterCalls ==
    \A t \in Threads :
        held[t] = LET outer == SelectSeq(calls[t], LAMBDA c : c.kind = "outer")
                  IN  [i \in 1..Len(outer) |-> outer[i].store]

\* The lock is what Mutex says a lock is: nested calls are steps that change
\* nothing, and a killed process leaves every store it was in.
Lock == INSTANCE Mutex WITH holder <- flock
MutexSpec == Lock!Spec

\* Whoever holds the store gives it up in the end: with an error, from any
\* nesting depth, or because it dies.
EventuallyReleased ==
    \A s \in Stores, t \in Threads : flock[s] = t ~> flock[s] # t
=============================================================================
