-------------------------- MODULE StoreLockProofs --------------------------
(***************************************************************************)
(* Proofs about StoreLock, for any threads, stores, spellings and depth.    *)
(*                                                                          *)
(* Exclusive and NoSelfWait are not inductive.  The argument is that a      *)
(* thread owns the flock of a store exactly as long as HELD lists it, or as *)
(* its innermost call is between the pop of HELD and the close of the lock  *)
(* file.  For the pop to take the right folder, HELD must list the stores   *)
(* of the outer calls in the order of the calls.                            *)
(***************************************************************************)
EXTENDS StoreLock, SequenceTheorems, TLAPS

Top(t) == calls[t][Len(calls[t])]
Dropping(t, s) == calls[t] # << >> /\ Top(t).kind = "drop" /\ Top(t).store = s

\* The calls C and the list H of one thread.  Only the innermost call can be on
\* its way out; of the calls on one store only the outermost is not nested; H
\* names a store once; it names the stores of the outer calls, and no others,
\* in the order of the calls.
DropLast(C) == \A i \in 1..Len(C) : C[i].kind = "drop" => i = Len(C)
OneOuter(C) == \A i, j \in 1..Len(C) :
                   i < j /\ C[i].store = C[j].store => C[j].kind = "inner"
Once(H) == \A k, l \in 1..Len(H) : H[k] = H[l] => k = l
HasOuter(C, H) == \A i \in 1..Len(C) :
                      C[i].kind = "outer" => \E k \in 1..Len(H) : H[k] = C[i].store
IsOuter(C, H) == \A k \in 1..Len(H) :
                     \E i \in 1..Len(C) : C[i].kind = "outer" /\ C[i].store = H[k]
Ordered(C, H) == \A i, j \in 1..Len(C) :
                     i < j /\ C[i].kind = "outer" /\ C[j].kind = "outer" =>
                         \A k, l \in 1..Len(H) :
                             H[k] = C[i].store /\ H[l] = C[j].store => k < l

Matched(C, H) == /\ DropLast(C) /\ OneOuter(C) /\ Once(H)
                 /\ HasOuter(C, H) /\ IsOuter(C, H) /\ Ordered(C, H)

AllMatched == \A t \in Threads : Matched(calls[t], held[t])

\* A thread owns the flock of every store it has a call on or lists in HELD,
\* and of no other store, except the one that it is dropping.
OwnsCalls == \A t \in Threads : \A i \in 1..Len(calls[t]) : flock[calls[t][i].store] = t
OwnsHeld  == \A t \in Threads, s \in Stores : Holds(t, s) => flock[s] = t
OwnsOnly  == \A t \in Threads, s \in Stores : flock[s] = t => Holds(t, s) \/ Dropping(t, s)

\* A thread waits only for a store it does not list, and drops nothing while it
\* waits.  A store that is being dropped is no longer listed.
WaitsFresh == \A t \in Threads, s \in Stores :
                  waits[t] = s => ~Holds(t, s) /\ \A z \in Stores : ~Dropping(t, z)
DropsFresh == \A t \in Threads, s \in Stores : Dropping(t, s) => ~Holds(t, s)

IInv == /\ TypeOK /\ AllMatched /\ OwnsCalls /\ OwnsHeld /\ OwnsOnly
        /\ WaitsFresh /\ DropsFresh

-----------------------------------------------------------------------------
\* What a pop leaves of a list.
LEMMA PopList ==
    ASSUME NEW S, NEW q \in Seq(S), q # << >>
    PROVE  /\ SubSeq(q, 1, Len(q) - 1) \in Seq(S)
           /\ Len(q) \in Nat \ {0}
           /\ Len(SubSeq(q, 1, Len(q) - 1)) = Len(q) - 1
           /\ \A i \in 1..(Len(q) - 1) : SubSeq(q, 1, Len(q) - 1)[i] = q[i]
<1>1. Len(q) \in Nat \ {0} /\ \A i \in 1..Len(q) : q[i] \in S
  BY EmptySeq, LenProperties, ElementOfSeq
<1>2. \A i \in 1..(Len(q) - 1) : q[i] \in S
  BY <1>1
<1>. DEFINE m == Len(q) - 1
<1>3. /\ SubSeq(q, 1, m) \in Seq(S)
      /\ Len(SubSeq(q, 1, m)) = IF 1 <= m THEN m - 1 + 1 ELSE 0
      /\ \A i \in 1..(m - 1 + 1) : SubSeq(q, 1, m)[i] = q[1 + i - 1]
  <2>1. m \in Int /\ 1 \in Int
    BY <1>1
  <2>. HIDE DEF m
  <2>. QED
    BY <1>2, <2>1, SubSeqProperties DEF m
<1>4. m \in Nat /\ m - 1 + 1 = m /\ \A i \in 1..m : 1 + i - 1 = i
  BY <1>1
<1>. HIDE DEF m
<1>5. Len(SubSeq(q, 1, m)) = m /\ \A i \in 1..m : SubSeq(q, 1, m)[i] = q[i]
  BY <1>3, <1>4
<1>. QED
  BY <1>1, <1>3, <1>5 DEF m

\* What a push makes of a list.
LEMMA PushList ==
    ASSUME NEW S, NEW q \in Seq(S), NEW e \in S
    PROVE  /\ Append(q, e) \in Seq(S) /\ Len(q) \in Nat
           /\ Len(Append(q, e)) = Len(q) + 1
           /\ \A i \in 1..Len(q) : Append(q, e)[i] = q[i]
           /\ Append(q, e)[Len(q) + 1] = e
  OBVIOUS

\* Lengths and elements of the lists of a well-typed state.
LEMMA Lists ==
    ASSUME TypeOK, NEW t \in Threads
    PROVE  /\ calls[t] \in Seq(Call) /\ held[t] \in Seq(Stores)
           /\ Len(calls[t]) \in Nat /\ Len(held[t]) \in Nat
           /\ \A i \in 1..Len(calls[t]) : calls[t][i].store \in Stores /\ calls[t][i].kind \in Kinds
           /\ \A i \in 1..Len(calls[t]) : calls[t][i] \in Call
           /\ \A k \in 1..Len(held[t]) : held[t][k] \in Stores
           /\ calls[t] # << >> => Len(calls[t]) \in 1..Len(calls[t])
<1>1. calls[t] \in Seq(Call) /\ held[t] \in Seq(Stores)
  BY DEF TypeOK
<1>2. \A i \in 1..Len(calls[t]) : calls[t][i] \in Call
  BY <1>1, ElementOfSeq
<1>3. Len(calls[t]) \in Nat /\ Len(held[t]) \in Nat
  BY <1>1, LenProperties
<1>4. calls[t] # << >> => Len(calls[t]) # 0
  BY <1>1, EmptySeq
<1>. QED
  BY <1>1, <1>2, <1>3, <1>4, ElementOfSeq DEF Call

\* A nested call on a store that has a call already.
LEMMA MatchedReEnter ==
    ASSUME NEW C \in Seq(Call), NEW H \in Seq(Stores), Matched(C, H),
           NEW c \in Call, c.kind = "inner", DropLast(C),
           \A i \in 1..Len(C) : C[i].kind # "drop"
    PROVE  Matched(Append(C, c), H)
<1>. DEFINE n == Len(C)
            D == Append(C, c)
<1>1. n \in Nat /\ Len(D) = n + 1 /\ D[n + 1] = c /\ \A i \in 1..n : D[i] = C[i]
  BY PushList
<1>2. Len(H) \in Nat
  BY LenProperties
<1>. HIDE DEF n, D
<1>3. \A i \in 1..(n + 1) : D[i].kind = "outer" => i \in 1..n /\ D[i] = C[i]
  BY <1>1
<1>. USE DEF Matched
<1>4. DropLast(D)
  BY <1>1 DEF DropLast, n
<1>5. OneOuter(D)
  <2>. SUFFICES ASSUME NEW i \in 1..(n + 1), NEW j \in 1..(n + 1), i < j,
                       D[i].store = D[j].store
                PROVE  D[j].kind = "inner"
    BY <1>1 DEF OneOuter
  <2>1. CASE j = n + 1
    BY <1>1, <2>1
  <2>2. CASE j \in 1..n
    <3>1. i \in 1..n /\ D[i] = C[i] /\ D[j] = C[j]
      BY <1>1, <2>2
    <3>. QED
      BY <2>2, <3>1 DEF OneOuter, n
  <2>. QED
    BY <1>1, <2>1, <2>2
<1>6. HasOuter(D, H)
  BY <1>1, <1>3 DEF HasOuter, n
<1>7. IsOuter(D, H)
  <2>. SUFFICES ASSUME NEW k \in 1..Len(H)
                PROVE  \E i \in 1..Len(D) : D[i].kind = "outer" /\ D[i].store = H[k]
    BY DEF IsOuter
  <2>1. PICK i \in 1..n : C[i].kind = "outer" /\ C[i].store = H[k]
    BY DEF IsOuter, n
  <2>. QED
    BY <1>1, <2>1
<1>8. Ordered(D, H)
  <2>1. \A i, j \in 1..n : i < j /\ C[i].kind = "outer" /\ C[j].kind = "outer" =>
            \A k, l \in 1..Len(H) : H[k] = C[i].store /\ H[l] = C[j].store => k < l
    BY DEF Ordered, n
  <2>. SUFFICES ASSUME NEW i \in 1..(n + 1), NEW j \in 1..(n + 1), i < j,
                       D[i].kind = "outer", D[j].kind = "outer",
                       NEW k \in 1..Len(H), NEW l \in 1..Len(H),
                       H[k] = D[i].store, H[l] = D[j].store
                PROVE  k < l
    BY <1>1 DEF Ordered
  <2>2. i \in 1..n /\ j \in 1..n /\ D[i] = C[i] /\ D[j] = C[j]
    BY <1>1, <1>3
  <2>. QED
    BY <2>1, <2>2
<1>. QED
  BY <1>4, <1>5, <1>6, <1>7, <1>8 DEF D

\* A thread without calls.
LEMMA MatchedEmpty == Matched(<< >>, << >>)
  BY DEF Matched, DropLast, OneOuter, Once, HasOuter, IsOuter, Ordered

\* A call that takes the lock of a store that has no call.
LEMMA MatchedAcquire ==
    ASSUME NEW C \in Seq(Call), NEW H \in Seq(Stores), Matched(C, H),
           NEW c \in Call, c.kind = "outer",
           \A i \in 1..Len(C) : C[i].kind # "drop" /\ C[i].store # c.store,
           \A k \in 1..Len(H) : H[k] # c.store
    PROVE  Matched(Append(C, c), Append(H, c.store))
<1>. DEFINE n == Len(C)
            m == Len(H)
            D == Append(C, c)
            G == Append(H, c.store)
<1>1. n \in Nat /\ Len(D) = n + 1 /\ D[n + 1] = c /\ \A i \in 1..n : D[i] = C[i]
  BY PushList
<1>2. m \in Nat /\ Len(G) = m + 1 /\ G[m + 1] = c.store /\ \A k \in 1..m : G[k] = H[k]
  BY PushList DEF Call
<1>3. /\ \A i \in 1..n : C[i].kind # "drop" /\ C[i].store # c.store
      /\ \A k \in 1..m : H[k] # c.store
  OBVIOUS
<1>. HIDE DEF n, m, D, G
<1>. USE DEF Matched
<1>4. DropLast(D)
  BY <1>1, <1>3 DEF DropLast
<1>5. OneOuter(D)
  <2>. SUFFICES ASSUME NEW i \in 1..(n + 1), NEW j \in 1..(n + 1), i < j,
                       D[i].store = D[j].store
                PROVE  D[j].kind = "inner"
    BY <1>1 DEF OneOuter
  <2>1. i \in 1..n /\ D[i] = C[i]
    BY <1>1
  <2>2. j # n + 1
    BY <1>1, <1>3, <2>1
  <2>3. j \in 1..n /\ D[j] = C[j]
    BY <1>1, <2>2
  <2>. QED
    BY <2>1, <2>3 DEF OneOuter, n
<1>6. Once(G)
  BY <1>2, <1>3 DEF Once, m
<1>7. HasOuter(D, G)
  <2>. SUFFICES ASSUME NEW i \in 1..(n + 1), D[i].kind = "outer"
                PROVE  \E k \in 1..(m + 1) : G[k] = D[i].store
    BY <1>1, <1>2 DEF HasOuter
  <2>1. CASE i = n + 1
    BY <1>1, <1>2, <2>1
  <2>2. CASE i \in 1..n
    <3>1. PICK k \in 1..m : H[k] = C[i].store
      BY <1>1, <2>2 DEF HasOuter, n, m
    <3>. QED
      BY <1>1, <1>2, <2>2, <3>1
  <2>. QED
    BY <1>1, <2>1, <2>2
<1>8. IsOuter(D, G)
  <2>. SUFFICES ASSUME NEW k \in 1..(m + 1)
                PROVE  \E i \in 1..(n + 1) : D[i].kind = "outer" /\ D[i].store = G[k]
    BY <1>1, <1>2 DEF IsOuter
  <2>1. CASE k = m + 1
    BY <1>1, <1>2, <2>1
  <2>2. CASE k \in 1..m
    <3>1. PICK i \in 1..n : C[i].kind = "outer" /\ C[i].store = H[k]
      BY <2>2 DEF IsOuter, n, m
    <3>. QED
      BY <1>1, <1>2, <2>2, <3>1
  <2>. QED
    BY <1>2, <2>1, <2>2
<1>9. Ordered(D, G)
  <2>1. \A i, j \in 1..n : i < j /\ C[i].kind = "outer" /\ C[j].kind = "outer" =>
            \A k, l \in 1..m : H[k] = C[i].store /\ H[l] = C[j].store => k < l
    BY DEF Ordered, n, m
  <2>. SUFFICES ASSUME NEW i \in 1..(n + 1), NEW j \in 1..(n + 1), i < j,
                       D[i].kind = "outer", D[j].kind = "outer",
                       NEW k \in 1..(m + 1), NEW l \in 1..(m + 1),
                       G[k] = D[i].store, G[l] = D[j].store
                PROVE  k < l
    BY <1>1, <1>2 DEF Ordered
  <2>2. i \in 1..n /\ D[i] = C[i] /\ k \in 1..m /\ G[k] = H[k]
    <3>1. i \in 1..n /\ D[i] = C[i]
      BY <1>1
    <3>2. k # m + 1
      BY <1>2, <1>3, <3>1
    <3>. QED
      BY <1>2, <3>1, <3>2
  <2>3. CASE j = n + 1
    <3>1. l = m + 1
      BY <1>1, <1>2, <1>3, <2>3
    <3>. QED
      BY <1>2, <2>2, <3>1
  <2>4. CASE j \in 1..n
    <3>1. D[j] = C[j]
      BY <1>1, <2>4
    <3>2. l # m + 1
      BY <1>2, <1>3, <2>4, <3>1
    <3>3. l \in 1..m /\ G[l] = H[l]
      BY <1>2, <3>2
    <3>. QED
      BY <2>1, <2>2, <2>4, <3>1, <3>3
  <2>. QED
    BY <1>1, <2>3, <2>4
<1>. QED
  BY <1>4, <1>5, <1>6, <1>7, <1>8, <1>9 DEF D, G

\* The end of a call that is nested or has already left the list.
LEMMA MatchedPop ==
    ASSUME NEW C \in Seq(Call), NEW H \in Seq(Stores), Matched(C, H),
           C # << >>, C[Len(C)].kind # "outer"
    PROVE  Matched(SubSeq(C, 1, Len(C) - 1), H)
<1>. DEFINE n == Len(C)
            D == SubSeq(C, 1, n - 1)
<1>1. n \in Nat \ {0} /\ Len(D) = n - 1 /\ \A i \in 1..(n - 1) : D[i] = C[i]
  BY PopList
<1>2. C[n].kind # "outer"
  OBVIOUS
<1>. HIDE DEF n, D
<1>3. \A i \in 1..(n - 1) : i \in 1..n /\ i # n
  BY <1>1
<1>. USE DEF Matched
<1>4. DropLast(D) /\ OneOuter(D)
  <2>1. DropLast(D)
    BY <1>1, <1>3 DEF DropLast, n
  <2>2. OneOuter(D)
    <3>. SUFFICES ASSUME NEW i \in 1..(n - 1), NEW j \in 1..(n - 1), i < j,
                         D[i].store = D[j].store
                  PROVE  D[j].kind = "inner"
      BY <1>1 DEF OneOuter
    <3>. QED
      BY <1>1, <1>3 DEF OneOuter, n
  <2>. QED
    BY <2>1, <2>2
<1>5. HasOuter(D, H)
  BY <1>1, <1>3 DEF HasOuter, n
<1>6. IsOuter(D, H)
  <2>. SUFFICES ASSUME NEW k \in 1..Len(H)
                PROVE  \E i \in 1..(n - 1) : D[i].kind = "outer" /\ D[i].store = H[k]
    BY <1>1 DEF IsOuter
  <2>1. PICK i \in 1..n : C[i].kind = "outer" /\ C[i].store = H[k]
    BY DEF IsOuter, n
  <2>2. i \in 1..(n - 1)
    BY <1>1, <1>2, <2>1
  <2>. QED
    BY <1>1, <2>1, <2>2
<1>7. Ordered(D, H)
  <2>1. \A i, j \in 1..n : i < j /\ C[i].kind = "outer" /\ C[j].kind = "outer" =>
            \A k, l \in 1..Len(H) : H[k] = C[i].store /\ H[l] = C[j].store => k < l
    BY DEF Ordered, n
  <2>. SUFFICES ASSUME NEW i \in 1..(n - 1), NEW j \in 1..(n - 1), i < j,
                       D[i].kind = "outer", D[j].kind = "outer",
                       NEW k \in 1..Len(H), NEW l \in 1..Len(H),
                       H[k] = D[i].store, H[l] = D[j].store
                PROVE  k < l
    BY <1>1 DEF Ordered
  <2>2. i \in 1..n /\ j \in 1..n /\ D[i] = C[i] /\ D[j] = C[j]
    BY <1>1, <1>3
  <2>. QED
    BY <2>1, <2>2
<1>. QED
  BY <1>4, <1>5, <1>6, <1>7 DEF D, n

\* The innermost call is an outer one: the list ends with its store, so the pop
\* takes that store and leaves the list of the other calls.
LEMMA MatchedDrop ==
    ASSUME NEW C \in Seq(Call), NEW H \in Seq(Stores), Matched(C, H),
           C # << >>, C[Len(C)].kind = "outer"
    PROVE  /\ H # << >> /\ H[Len(H)] = C[Len(C)].store
           /\ Matched([C EXCEPT ![Len(C)].kind = "drop"], SubSeq(H, 1, Len(H) - 1))
           /\ \A k \in 1..(Len(H) - 1) : H[k] # C[Len(C)].store
<1>. DEFINE n == Len(C)
            m == Len(H)
            D == [C EXCEPT ![n].kind = "drop"]
            G == SubSeq(H, 1, m - 1)
            z == C[n].store
<1>1. n \in Nat \ {0} /\ n \in 1..n /\ C[n] \in Call /\ C[n].kind = "outer" /\ C \in [1..n -> Call]
  BY EmptySeq, LenProperties, ElementOfSeq
<1>2. /\ Len(D) = n /\ D[n].store = C[n].store /\ D[n].kind = "drop"
      /\ \A i \in 1..(n - 1) : D[i] = C[i] /\ i \in 1..n
  <2>1. D \in [1..n -> Call]
    BY <1>1 DEF Call, Kinds
  <2>2. Len(D) = n
    BY <1>1, <2>1, IsASeq, LenProperties
  <2>. QED
    BY <1>1, <2>2 DEF Call
<1>3. m \in Nat
  BY LenProperties
<1>. USE DEF Matched
<1>4. PICK k0 \in 1..m : H[k0] = z
  BY <1>1 DEF HasOuter
<1>5. H # << >> /\ m \in Nat \ {0}
  BY <1>3, <1>4, EmptySeq
<1>6. /\ Len(G) = m - 1 /\ \A k \in 1..(m - 1) : G[k] = H[k] /\ k \in 1..m
  BY <1>5, PopList
<1>7. \A i, j \in 1..n : i < j /\ C[i].kind = "outer" /\ C[j].kind = "outer" =>
          \A k, l \in 1..m : H[k] = C[i].store /\ H[l] = C[j].store => k < l
  BY DEF Ordered
<1>8. \A i \in 1..n : C[i].kind = "outer" /\ C[i].store = z => i = n
  BY <1>1 DEF OneOuter
<1>9. k0 = m
  <2>1. PICK i \in 1..n : C[i].kind = "outer" /\ C[i].store = H[m]
    BY <1>5 DEF IsOuter
  <2>2. CASE i = n
    BY <1>4, <1>5, <2>1, <2>2 DEF Once
  <2>3. CASE i # n
    <3>1. i < n /\ m \in 1..m
      BY <1>1, <1>5, <2>3
    <3>2. m < k0
      BY <1>1, <1>4, <1>7, <2>1, <3>1
    <3>. QED
      BY <1>4, <1>5, <3>2
  <2>. QED
    BY <2>2, <2>3
<1>10. H[m] = z /\ \A k \in 1..(m - 1) : H[k] # z
  BY <1>4, <1>5, <1>9 DEF Once
<1>. HIDE DEF n, m, D, G, z
<1>11. \A i \in 1..n : i # n => i \in 1..(n - 1)
  BY <1>1
<1>12. DropLast(D)
  BY <1>1, <1>2, <1>11 DEF DropLast, n
<1>13. OneOuter(D)
  BY <1>1, <1>2, <1>8, <1>11 DEF OneOuter, n, z
<1>14. Once(G)
  BY <1>5, <1>6 DEF Once, m
<1>15. HasOuter(D, G)
  <2>. SUFFICES ASSUME NEW i \in 1..n, D[i].kind = "outer"
                PROVE  \E k \in 1..(m - 1) : G[k] = D[i].store
    BY <1>2, <1>6 DEF HasOuter
  <2>1. i \in 1..(n - 1) /\ i # n /\ D[i] = C[i]
    BY <1>1, <1>2, <1>11
  <2>2. PICK k \in 1..m : H[k] = C[i].store
    BY <2>1 DEF HasOuter, n, m
  <2>3. k # m
    BY <1>8, <1>10, <2>1, <2>2
  <2>4. k \in 1..(m - 1)
    BY <1>5, <2>3
  <2>. QED
    BY <1>6, <2>1, <2>2, <2>4
<1>16. IsOuter(D, G)
  <2>. SUFFICES ASSUME NEW k \in 1..(m - 1)
                PROVE  \E i \in 1..n : D[i].kind = "outer" /\ D[i].store = G[k]
    BY <1>2, <1>6 DEF IsOuter
  <2>1. k \in 1..m /\ G[k] = H[k] /\ H[k] # z
    BY <1>6, <1>10
  <2>2. PICK i \in 1..n : C[i].kind = "outer" /\ C[i].store = H[k]
    BY <2>1 DEF IsOuter, n, m
  <2>3. i # n
    BY <2>1, <2>2 DEF z
  <2>. QED
    BY <1>2, <1>11, <2>1, <2>2, <2>3
<1>17. Ordered(D, G)
  <2>. SUFFICES ASSUME NEW i \in 1..n, NEW j \in 1..n, i < j,
                       D[i].kind = "outer", D[j].kind = "outer",
                       NEW k \in 1..(m - 1), NEW l \in 1..(m - 1),
                       G[k] = D[i].store, G[l] = D[j].store
                PROVE  k < l
    BY <1>2, <1>6 DEF Ordered
  <2>1. D[i] = C[i] /\ D[j] = C[j]
    BY <1>2, <1>11
  <2>. QED
    <3>1. k \in 1..m /\ l \in 1..m /\ H[k] = C[i].store /\ H[l] = C[j].store
      BY <1>6, <2>1
    <3>. QED
      BY <1>7, <2>1, <3>1
<1>. QED
  BY <1>5, <1>10, <1>12, <1>13, <1>14, <1>15, <1>16, <1>17 DEF D, G, n, m, z

-----------------------------------------------------------------------------
LEMMA InitIInv == Init => IInv
<1>. SUFFICES ASSUME Init PROVE IInv
  OBVIOUS
<1>1. TypeOK
  BY EmptySeq DEF Init, TypeOK
<1>2. \A t \in Threads : calls[t] = << >> /\ held[t] = << >> /\ waits[t] = Nobody
  BY DEF Init
<1>3. \A t \in Threads : Len(calls[t]) = 0 /\ Len(held[t]) = 0
  BY <1>2
<1>4. \A t \in Threads, s \in Stores : flock[s] # t
  BY NobodyAssumption DEF Init
<1>5. AllMatched
  BY <1>2, MatchedEmpty DEF AllMatched
<1>. QED
  BY <1>1, <1>2, <1>3, <1>4, <1>5, NobodyAssumption
  DEF IInv, OwnsCalls, OwnsHeld, OwnsOnly, WaitsFresh, DropsFresh, Holds, Dropping

\* A thread that runs has no call on its way out.
LEMMA RunningCalls ==
    ASSUME IInv, NEW t \in Threads, Running(t)
    PROVE  /\ waits[t] = Nobody
           /\ \A i \in 1..Len(calls[t]) : calls[t][i].kind # "drop"
           /\ \A s \in Stores : ~Dropping(t, s)
<1>1. DropLast(calls[t])
  BY DEF IInv, AllMatched, Matched
<1>2. calls[t] \in Seq(Call)
  BY DEF IInv, TypeOK
<1>. QED
  BY <1>1, <1>2, EmptySeq DEF Running, DropLast, Dropping, Top

\* A nested call runs in the lock of the outer one.
LEMMA ReEnterIInv ==
    ASSUME IInv, NEW t \in Threads, NEW path \in Paths, ReEnter(t, path)
    PROVE  IInv'
<1>. DEFINE s == Canon[path]
            c == [store |-> s, kind |-> "inner"]
            n == Len(calls[t])
<1>1. s \in Stores /\ c \in Call /\ c.store = s /\ c.kind = "inner"
  BY CanonAssumption DEF Call, Kinds
<1>. HIDE DEF s, c
<1>2. TypeOK /\ calls[t] \in Seq(Call) /\ held[t] \in Seq(Stores)
  BY DEF IInv, TypeOK
<1>3. calls' = [calls EXCEPT ![t] = Append(@, c)] /\ flock' = flock /\ held' = held /\ waits' = waits
  BY DEF ReEnter, s, c
<1>4. calls'[t] = Append(calls[t], c) /\ \A u \in Threads \ {t} : calls'[u] = calls[u]
  BY <1>2, <1>3 DEF TypeOK
<1>5. /\ n \in Nat /\ Len(calls'[t]) = n + 1
      /\ \A i \in 1..n : calls'[t][i] = calls[t][i]
      /\ calls'[t][n + 1] = c /\ calls'[t] \in Seq(Call)
  BY <1>1, <1>2, <1>4, PushList
<1>6. TypeOK'
  BY <1>2, <1>3, <1>4, <1>5 DEF TypeOK
<1>7. Running(t) /\ Holds(t, s) /\ flock[s] = t
  BY <1>1 DEF ReEnter, IInv, OwnsHeld, s
<1>8. /\ \A i \in 1..n : calls[t][i].kind # "drop"
      /\ \A z \in Stores : ~Dropping(t, z)
  BY <1>7, RunningCalls
<1>9. AllMatched'
  <2>1. Matched(calls'[t], held'[t])
    BY <1>1, <1>2, <1>3, <1>4, <1>8, MatchedReEnter DEF IInv, AllMatched, Matched
  <2>. QED
    BY <1>3, <1>4, <2>1 DEF IInv, AllMatched
<1>10. \A u \in Threads, z \in Stores : Holds(u, z)' <=> Holds(u, z)
  BY <1>3 DEF Holds
<1>11. \A u \in Threads, z \in Stores : Dropping(u, z)' => Dropping(u, z)
  BY <1>1, <1>4, <1>5 DEF Dropping, Top
<1>12. \A u \in Threads, z \in Stores : Dropping(u, z) => Dropping(u, z)'
  BY <1>4, <1>8 DEF Dropping, Top
<1>13. OwnsCalls'
  BY <1>1, <1>3, <1>4, <1>5, <1>7 DEF IInv, OwnsCalls
<1>. QED
  BY <1>3, <1>6, <1>9, <1>10, <1>11, <1>12, <1>13
  DEF IInv, OwnsHeld, OwnsOnly, WaitsFresh, DropsFresh

\* A thread that does not list the store opens the lock file and blocks.
LEMMA RequestIInv ==
    ASSUME IInv, NEW t \in Threads, NEW path \in Paths, Request(t, path)
    PROVE  IInv'
<1>. DEFINE s == Canon[path]
<1>1. s \in Stores /\ Running(t) /\ ~Holds(t, s)
  BY CanonAssumption DEF Request
<1>2. \A z \in Stores : ~Dropping(t, z)
  BY <1>1, RunningCalls
<1>3. waits' = [waits EXCEPT ![t] = s] /\ flock' = flock /\ held' = held /\ calls' = calls
  BY DEF Request
<1>. HIDE DEF s
<1>4. TypeOK'
  BY <1>1, <1>3 DEF IInv, TypeOK
<1>5. \A u \in Threads, z \in Stores :
          /\ Holds(u, z)' <=> Holds(u, z)
          /\ Dropping(u, z)' <=> Dropping(u, z)
  BY <1>3 DEF Holds, Dropping, Top
<1>6. waits'[t] = s /\ \A u \in Threads \ {t} : waits'[u] = waits[u]
  BY <1>3 DEF IInv, TypeOK
<1>7. AllMatched' /\ OwnsCalls'
  BY <1>3 DEF IInv, AllMatched, OwnsCalls
<1>8. OwnsHeld' /\ OwnsOnly' /\ DropsFresh'
  BY <1>3, <1>5 DEF IInv, OwnsHeld, OwnsOnly, DropsFresh
<1>9. WaitsFresh'
  BY <1>1, <1>2, <1>5, <1>6 DEF IInv, WaitsFresh
<1>. QED
  BY <1>4, <1>7, <1>8, <1>9 DEF IInv

\* A failed lock() takes nothing.
LEMMA LockFailsIInv ==
    ASSUME IInv, NEW t \in Threads, LockFails(t)
    PROVE  IInv'
<1>1. waits' = [waits EXCEPT ![t] = Nobody] /\ flock' = flock /\ held' = held /\ calls' = calls
  BY DEF LockFails
<1>2. TypeOK'
  BY <1>1 DEF IInv, TypeOK
<1>3. \A u \in Threads, z \in Stores :
          /\ Holds(u, z)' <=> Holds(u, z)
          /\ Dropping(u, z)' <=> Dropping(u, z)
  BY <1>1 DEF Holds, Dropping, Top
<1>4. \A u \in Threads, z \in Stores : waits'[u] = z => waits[u] = z
  BY <1>1, NobodyAssumption DEF IInv, TypeOK
<1>5. AllMatched' /\ OwnsCalls'
  BY <1>1 DEF IInv, AllMatched, OwnsCalls
<1>6. OwnsHeld' /\ OwnsOnly' /\ DropsFresh'
  BY <1>1, <1>3 DEF IInv, OwnsHeld, OwnsOnly, DropsFresh
<1>7. WaitsFresh'
  BY <1>3, <1>4 DEF IInv, WaitsFresh
<1>. QED
  BY <1>2, <1>5, <1>6, <1>7 DEF IInv

\* The flock is granted: the thread lists a store that no call was on.
LEMMA AcquireIInv ==
    ASSUME IInv, NEW t \in Threads, Acquire(t)
    PROVE  IInv'
<1>. PICK s \in Stores :
        /\ waits[t] = s
        /\ flock[s] = Nobody
        /\ flock' = [flock EXCEPT ![s] = t]
        /\ held'  = [held EXCEPT ![t] = Append(@, s)]
        /\ calls' = [calls EXCEPT ![t] = Append(@, [store |-> s, kind |-> "outer"])]
        /\ waits' = [waits EXCEPT ![t] = Nobody]
  BY DEF Acquire
<1>. DEFINE c == [store |-> s, kind |-> "outer"]
            n == Len(calls[t])
            m == Len(held[t])
<1>1. c \in Call /\ c.store = s /\ c.kind = "outer"
  BY DEF Call, Kinds
<1>2. calls' = [calls EXCEPT ![t] = Append(@, c)]
  OBVIOUS
<1>. HIDE DEF c
<1>3. TypeOK /\ calls[t] \in Seq(Call) /\ held[t] \in Seq(Stores)
  BY DEF IInv, TypeOK
<1>4. /\ calls'[t] = Append(calls[t], c) /\ held'[t] = Append(held[t], s)
      /\ waits'[t] = Nobody /\ flock'[s] = t
      /\ \A u \in Threads \ {t} : calls'[u] = calls[u] /\ held'[u] = held[u] /\ waits'[u] = waits[u]
      /\ \A z \in Stores \ {s} : flock'[z] = flock[z]
  BY <1>2, <1>3 DEF TypeOK
<1>5. /\ n \in Nat /\ Len(calls'[t]) = n + 1
      /\ \A i \in 1..n : calls'[t][i] = calls[t][i]
      /\ calls'[t][n + 1] = c /\ calls'[t] \in Seq(Call)
  BY <1>1, <1>3, <1>4, PushList
<1>6. /\ m \in Nat /\ Len(held'[t]) = m + 1
      /\ \A k \in 1..m : held'[t][k] = held[t][k]
      /\ held'[t][m + 1] = s /\ held'[t] \in Seq(Stores)
  BY <1>3, <1>4, PushList
<1>7. TypeOK'
  BY <1>2, <1>3, <1>4, <1>5, <1>6 DEF TypeOK
<1>8. ~Holds(t, s) /\ \A z \in Stores : ~Dropping(t, z)
  BY DEF IInv, WaitsFresh
<1>9. \A u \in Threads : \A i \in 1..Len(calls[u]) : calls[u][i].store # s
  BY NobodyAssumption DEF IInv, OwnsCalls
<1>10. \A i \in 1..n : calls[t][i].kind # "drop" /\ calls[t][i].store \in Stores
  <2>1. DropLast(calls[t])
    BY DEF IInv, AllMatched, Matched
  <2>2. \A i \in 1..n : calls[t][i].store \in Stores
    BY <1>3, Lists
  <2>. QED
    BY <1>3, <1>8, <2>1, <2>2, EmptySeq DEF DropLast, Dropping, Top
<1>11. AllMatched'
  <2>1. Matched(calls'[t], held'[t])
    <3>1. Matched(calls[t], held[t])
      BY DEF IInv, AllMatched
    <3>2. \A i \in 1..Len(calls[t]) : calls[t][i].kind # "drop" /\ calls[t][i].store # c.store
      BY <1>1, <1>9, <1>10
    <3>3. \A k \in 1..Len(held[t]) : held[t][k] # c.store
      BY <1>1, <1>8 DEF Holds
    <3>4. Matched(Append(calls[t], c), Append(held[t], c.store))
      BY <1>1, <1>3, <3>1, <3>2, <3>3, MatchedAcquire
    <3>. QED
      BY <1>1, <1>4, <3>4
  <2>. QED
    BY <1>4, <2>1 DEF IInv, AllMatched
<1>12. \A u \in Threads, z \in Stores : Holds(u, z)' <=> (Holds(u, z) \/ (u = t /\ z = s))
  <2>1. ASSUME NEW u \in Threads \ {t}, NEW z \in Stores
        PROVE  Holds(u, z)' <=> Holds(u, z)
    BY <1>4 DEF Holds
  <2>2. ASSUME NEW z \in Stores
        PROVE  Holds(t, z)' <=> (Holds(t, z) \/ z = s)
    <3>1. Holds(t, z)' <=> \E k \in 1..(m + 1) : held'[t][k] = z
      BY <1>6 DEF Holds
    <3>2. Holds(t, z) <=> \E k \in 1..m : held[t][k] = z
      BY DEF Holds
    <3>. HIDE DEF m
    <3>. QED
      BY <1>6, <3>1, <3>2
  <2>. QED
    BY <2>1, <2>2
<1>13. \A u \in Threads, z \in Stores : Dropping(u, z)' <=> Dropping(u, z)
  <2>1. ASSUME NEW u \in Threads \ {t}, NEW z \in Stores
        PROVE  Dropping(u, z)' <=> Dropping(u, z)
    BY <1>4 DEF Dropping, Top
  <2>2. ASSUME NEW z \in Stores
        PROVE  ~Dropping(t, z)'
    BY <1>1, <1>5 DEF Dropping, Top
  <2>. QED
    BY <1>8, <2>1, <2>2
<1>14. OwnsCalls'
  <2>1. \A u \in Threads \ {t} : \A i \in 1..Len(calls'[u]) :
            flock'[calls'[u][i].store] = u
    BY <1>3, <1>4, <1>9, Lists DEF IInv, OwnsCalls
  <2>2. \A i \in 1..n : flock'[calls'[t][i].store] = t
    <3>. SUFFICES ASSUME NEW i \in 1..n
                  PROVE  flock'[calls'[t][i].store] = t
      OBVIOUS
    <3>1. calls'[t][i] = calls[t][i]
      BY <1>5
    <3>2. calls[t][i].store # s
      BY <1>9
    <3>3. calls[t][i].store \in Stores /\ flock[calls[t][i].store] = t
      BY <1>3, Lists DEF IInv, OwnsCalls
    <3>4. flock'[calls[t][i].store] = flock[calls[t][i].store]
      BY <1>4, <3>2, <3>3
    <3>. QED
      BY <3>1, <3>3, <3>4
  <2>3. flock'[calls'[t][n + 1].store] = t
    BY <1>1, <1>4, <1>5
  <2>4. \A i \in 1..(n + 1) : flock'[calls'[t][i].store] = t
    BY <1>5, <2>2, <2>3
  <2>. QED
    BY <1>5, <2>1, <2>4 DEF OwnsCalls
<1>15. OwnsHeld'
  <2>1. \A u \in Threads : ~Holds(u, s)
    BY NobodyAssumption DEF IInv, OwnsHeld
  <2>. QED
    BY <1>4, <1>12, <2>1 DEF IInv, OwnsHeld
<1>16. OwnsOnly' /\ DropsFresh'
  <2>1. \A u \in Threads : ~Dropping(u, s)
    BY <1>3, <1>9, EmptySeq DEF Dropping, Top, TypeOK
  <2>2. OwnsOnly'
    <3>. SUFFICES ASSUME NEW u \in Threads, NEW z \in Stores, flock'[z] = u
                  PROVE  Holds(u, z)' \/ Dropping(u, z)'
      BY DEF OwnsOnly
    <3>1. CASE z = s
      BY <1>4, <1>12, <3>1
    <3>2. CASE z # s
      BY <1>4, <1>12, <1>13, <3>2 DEF IInv, OwnsOnly
    <3>. QED
      BY <3>1, <3>2
  <2>3. DropsFresh'
    BY <1>12, <1>13, <2>1 DEF IInv, DropsFresh
  <2>. QED
    BY <2>2, <2>3
<1>17. WaitsFresh'
  <2>. SUFFICES ASSUME NEW u \in Threads, NEW z \in Stores, waits'[u] = z
                PROVE  ~Holds(u, z)' /\ \A y \in Stores : ~Dropping(u, y)'
    BY DEF WaitsFresh
  <2>1. u # t /\ waits[u] = z
    BY <1>4, NobodyAssumption
  <2>. QED
    BY <1>12, <1>13, <2>1 DEF IInv, WaitsFresh
<1>. QED
  BY <1>7, <1>11, <1>14, <1>15, <1>16, <1>17 DEF IInv

\* A nested call ends, and its store is still listed.
LEMMA ReturnInnerIInv ==
    ASSUME IInv, NEW t \in Threads, ReturnInner(t)
    PROVE  IInv'
<1>. DEFINE n == Len(calls[t])
<1>1. TypeOK /\ calls[t] \in Seq(Call) /\ held[t] \in Seq(Stores)
  BY DEF IInv, TypeOK
<1>2. /\ Running(t) /\ calls[t] # << >> /\ calls[t][n].kind = "inner"
      /\ calls' = [calls EXCEPT ![t] = SubSeq(@, 1, Len(@) - 1)]
      /\ flock' = flock /\ held' = held /\ waits' = waits
  BY DEF ReturnInner
<1>3. /\ calls'[t] = SubSeq(calls[t], 1, n - 1)
      /\ \A u \in Threads \ {t} : calls'[u] = calls[u]
  BY <1>1, <1>2 DEF TypeOK
<1>4. /\ n \in Nat \ {0} /\ Len(calls'[t]) = n - 1 /\ calls'[t] \in Seq(Call)
      /\ \A i \in 1..(n - 1) : calls'[t][i] = calls[t][i] /\ i \in 1..n
  BY <1>1, <1>2, <1>3, PopList
<1>5. TypeOK'
  BY <1>1, <1>2, <1>3, <1>4 DEF TypeOK
<1>6. /\ \A i \in 1..n : calls[t][i].kind # "drop"
      /\ \A z \in Stores : ~Dropping(t, z)
  BY <1>2, RunningCalls
<1>7. AllMatched'
  <2>1. Matched(calls'[t], held'[t])
    BY <1>1, <1>2, <1>3, MatchedPop DEF IInv, AllMatched
  <2>. QED
    BY <1>2, <1>3, <2>1 DEF IInv, AllMatched
<1>8. \A u \in Threads, z \in Stores : Holds(u, z)' <=> Holds(u, z)
  BY <1>2 DEF Holds
<1>9. \A u \in Threads, z \in Stores : Dropping(u, z)' <=> Dropping(u, z)
  <2>1. ASSUME NEW u \in Threads \ {t}, NEW z \in Stores
        PROVE  Dropping(u, z)' <=> Dropping(u, z)
    BY <1>3 DEF Dropping, Top
  <2>2. ASSUME NEW z \in Stores
        PROVE  ~Dropping(t, z)'
    <3>1. calls'[t] # << >> => n - 1 \in 1..(n - 1)
      BY <1>4, EmptySeq
    <3>2. calls'[t] # << >> => Top(t)'.kind # "drop"
      BY <1>4, <1>6, <3>1 DEF Top
    <3>. QED
      BY <3>2 DEF Dropping
  <2>. QED
    BY <1>6, <2>1, <2>2
<1>10. OwnsCalls'
  <2>1. \A u \in Threads \ {t} : \A i \in 1..Len(calls'[u]) : flock'[calls'[u][i].store] = u
    BY <1>2, <1>3 DEF IInv, OwnsCalls
  <2>2. \A i \in 1..Len(calls'[t]) : flock'[calls'[t][i].store] = t
    <3>. SUFFICES ASSUME NEW i \in 1..Len(calls'[t])
                  PROVE  flock'[calls'[t][i].store] = t
      OBVIOUS
    <3>1. i \in 1..(n - 1) /\ i \in 1..n
      BY <1>4
    <3>2. calls'[t][i] = calls[t][i]
      BY <1>4, <3>1
    <3>3. flock[calls[t][i].store] = t
      BY <3>1 DEF IInv, OwnsCalls
    <3>. QED
      BY <1>2, <3>2, <3>3
  <2>. QED
    BY <2>1, <2>2 DEF OwnsCalls
<1>. QED
  BY <1>2, <1>5, <1>7, <1>8, <1>9, <1>10
  DEF IInv, OwnsHeld, OwnsOnly, WaitsFresh, DropsFresh

\* The guard pops the store of its own call, so exactly that store is no longer
\* listed while the flock is still owned.
LEMMA DropHeldIInv ==
    ASSUME IInv, NEW t \in Threads, DropHeld(t)
    PROVE  IInv'
<1>. DEFINE n == Len(calls[t])
            m == Len(held[t])
            s == calls[t][n].store
<1>1. TypeOK /\ calls[t] \in Seq(Call) /\ held[t] \in Seq(Stores)
  BY DEF IInv, TypeOK
<1>2. /\ Running(t) /\ calls[t] # << >> /\ calls[t][n].kind = "outer"
      /\ held' = [held EXCEPT ![t] = SubSeq(@, 1, Len(@) - 1)]
      /\ calls' = [calls EXCEPT ![t][n].kind = "drop"]
      /\ flock' = flock /\ waits' = waits
  BY DEF DropHeld
<1>3. /\ calls'[t] = [calls[t] EXCEPT ![n].kind = "drop"]
      /\ held'[t] = SubSeq(held[t], 1, m - 1)
      /\ \A u \in Threads \ {t} : calls'[u] = calls[u] /\ held'[u] = held[u]
  BY <1>1, <1>2 DEF TypeOK
<1>4. n \in Nat \ {0} /\ n \in 1..n /\ calls[t][n] \in Call /\ calls[t] \in [1..n -> Call]
  BY <1>1, <1>2, EmptySeq, LenProperties, ElementOfSeq
<1>5. /\ calls'[t] \in Seq(Call) /\ Len(calls'[t]) = n
      /\ calls'[t][n].store = s /\ calls'[t][n].kind = "drop"
      /\ \A i \in 1..n : i # n => calls'[t][i] = calls[t][i]
  <2>1. calls'[t] \in [1..n -> Call]
    <3>1. [calls[t][n] EXCEPT !.kind = "drop"] \in Call
      BY <1>4 DEF Call, Kinds
    <3>. QED
      BY <1>3, <1>4, <3>1
  <2>2. calls'[t] \in Seq(Call)
    BY <1>4, <2>1, IsASeq
  <2>3. Len(calls'[t]) = n
    BY <1>4, <2>1, <2>2, LenProperties
  <2>. QED
    BY <1>3, <1>4, <2>2, <2>3 DEF Call
<1>6. Matched(calls[t], held[t])
  BY DEF IInv, AllMatched
<1>7. /\ held[t] # << >> /\ held[t][m] = s
      /\ Matched(calls'[t], held'[t])
      /\ \A k \in 1..(m - 1) : held[t][k] # s
  <2>1. /\ held[t] # << >> /\ held[t][Len(held[t])] = calls[t][Len(calls[t])].store
        /\ Matched([calls[t] EXCEPT ![Len(calls[t])].kind = "drop"],
                   SubSeq(held[t], 1, Len(held[t]) - 1))
        /\ \A k \in 1..(Len(held[t]) - 1) : held[t][k] # calls[t][Len(calls[t])].store
    BY <1>1, <1>2, <1>6, MatchedDrop
  <2>. QED
    BY <1>3, <2>1
<1>8. /\ m \in Nat \ {0} /\ Len(held'[t]) = m - 1 /\ held'[t] \in Seq(Stores)
      /\ \A k \in 1..(m - 1) : held'[t][k] = held[t][k] /\ k \in 1..m
  BY <1>1, <1>3, <1>7, PopList
<1>9. TypeOK'
  BY <1>1, <1>2, <1>3, <1>5, <1>8 DEF TypeOK
<1>10. AllMatched'
  BY <1>3, <1>7 DEF IInv, AllMatched
<1>11. s \in Stores /\ \A z \in Stores : ~Dropping(t, z)
  BY <1>2, <1>4, RunningCalls DEF Call
<1>. HIDE DEF s, n, m
<1>12. ASSUME NEW u \in Threads \ {t}, NEW z \in Stores
       PROVE  (Holds(u, z)' <=> Holds(u, z)) /\ (Dropping(u, z)' <=> Dropping(u, z))
  BY <1>3 DEF Holds, Dropping, Top
<1>13. ASSUME NEW z \in Stores
       PROVE  (Holds(t, z)' <=> (Holds(t, z) /\ z # s)) /\ (Dropping(t, z)' <=> z = s)
  <2>1. Holds(t, z)' => Holds(t, z) /\ z # s
    BY <1>7, <1>8 DEF Holds, m
  <2>2. Holds(t, z) /\ z # s => Holds(t, z)'
    <3>. SUFFICES ASSUME Holds(t, z), z # s PROVE Holds(t, z)'
      OBVIOUS
    <3>1. PICK k \in 1..m : held[t][k] = z
      BY DEF Holds, m
    <3>2. k \in 1..(m - 1)
      BY <1>7, <1>8, <3>1
    <3>. QED
      BY <1>8, <3>1, <3>2 DEF Holds
  <2>3. calls'[t] # << >>
    BY <1>4, <1>5, EmptySeq
  <2>4. Dropping(t, z)' <=> z = s
    BY <1>5, <2>3 DEF Dropping, Top
  <2>. QED
    BY <2>1, <2>2, <2>4
<1>14. OwnsCalls'
  <2>1. \A i \in 1..n : calls'[t][i].store = calls[t][i].store
    BY <1>5 DEF s
  <2>. QED
    BY <1>2, <1>3, <1>5, <2>1 DEF IInv, OwnsCalls, n
<1>15. flock[s] = t
  BY <1>4 DEF IInv, OwnsCalls, s, n
<1>16. OwnsHeld'
  BY <1>2, <1>12, <1>13 DEF IInv, OwnsHeld
<1>17. OwnsOnly'
  BY <1>2, <1>11, <1>12, <1>13 DEF IInv, OwnsOnly
<1>18. WaitsFresh'
  <2>1. waits[t] = Nobody
    BY <1>2, RunningCalls
  <2>. QED
    BY <1>2, <1>12, <2>1, NobodyAssumption DEF IInv, WaitsFresh
<1>19. DropsFresh'
  BY <1>12, <1>13 DEF IInv, DropsFresh
<1>. QED
  BY <1>9, <1>10, <1>14, <1>16, <1>17, <1>18, <1>19 DEF IInv

\* The lock file closes: no call of the thread is left on the store.
LEMMA UnlockIInv ==
    ASSUME IInv, NEW t \in Threads, Unlock(t)
    PROVE  IInv'
<1>. DEFINE n == Len(calls[t])
            s == calls[t][n].store
<1>1. TypeOK /\ calls[t] \in Seq(Call) /\ held[t] \in Seq(Stores)
  BY DEF IInv, TypeOK
<1>2. /\ calls[t] # << >> /\ calls[t][n].kind = "drop"
      /\ flock' = [flock EXCEPT ![s] = Nobody]
      /\ calls' = [calls EXCEPT ![t] = SubSeq(@, 1, Len(@) - 1)]
      /\ held' = held /\ waits' = waits
  BY DEF Unlock
<1>3. /\ calls'[t] = SubSeq(calls[t], 1, n - 1)
      /\ \A u \in Threads \ {t} : calls'[u] = calls[u]
  BY <1>1, <1>2 DEF TypeOK
<1>4. /\ n \in Nat \ {0} /\ Len(calls'[t]) = n - 1 /\ calls'[t] \in Seq(Call)
      /\ \A i \in 1..(n - 1) : calls'[t][i] = calls[t][i] /\ i \in 1..n /\ i < n
  BY <1>1, <1>2, <1>3, PopList
<1>5. n \in 1..n /\ s \in Stores /\ flock[s] = t
  BY <1>1, <1>4, Lists DEF IInv, OwnsCalls
<1>6. flock'[s] = Nobody /\ \A z \in Stores \ {s} : flock'[z] = flock[z]
  BY <1>1, <1>2, <1>5 DEF TypeOK
<1>7. TypeOK'
  BY <1>1, <1>2, <1>3, <1>4 DEF TypeOK
<1>8. Matched(calls[t], held[t])
  BY DEF IInv, AllMatched
<1>9. AllMatched'
  <2>1. Matched(calls'[t], held'[t])
    BY <1>1, <1>2, <1>3, <1>8, MatchedPop
  <2>. QED
    BY <1>2, <1>3, <2>1 DEF IInv, AllMatched
<1>10. Dropping(t, s) /\ \A z \in Stores : Dropping(t, z) => z = s
  BY <1>2 DEF Dropping, Top
<1>. HIDE DEF n, s
<1>11. \A u \in Threads, z \in Stores : Holds(u, z)' <=> Holds(u, z)
  BY <1>2 DEF Holds
<1>12. \A z \in Stores : ~Dropping(t, z)'
  <2>1. calls'[t] # << >> => n - 1 \in 1..(n - 1)
    BY <1>4, EmptySeq
  <2>2. \A i \in 1..(n - 1) : calls[t][i].kind # "drop"
    BY <1>4, <1>8 DEF Matched, DropLast, n
  <2>3. calls'[t] # << >> => Top(t)'.kind # "drop"
    BY <1>4, <2>1, <2>2 DEF Top
  <2>. QED
    BY <2>3 DEF Dropping
<1>13. \A u \in Threads \ {t}, z \in Stores : Dropping(u, z)' <=> Dropping(u, z)
  BY <1>3 DEF Dropping, Top
<1>14. OwnsCalls'
  <2>1. \A i \in 1..(n - 1) : calls[t][i].store \in Stores \ {s}
    BY <1>1, <1>2, <1>4, <1>5, <1>8, Lists DEF Matched, OneOuter, n, s
  <2>2. \A i \in 1..(n - 1) : flock'[calls'[t][i].store] = t
    BY <1>4, <1>6, <2>1 DEF IInv, OwnsCalls, n
  <2>3. \A u \in Threads \ {t} : \A i \in 1..Len(calls[u]) :
            calls[u][i].store \in Stores \ {s} /\ flock[calls[u][i].store] = u
    BY <1>1, <1>5, Lists DEF IInv, OwnsCalls
  <2>. QED
    BY <1>3, <1>4, <1>6, <2>2, <2>3 DEF OwnsCalls
<1>15. \A u \in Threads : ~Holds(u, s)
  BY <1>5, <1>10 DEF IInv, OwnsHeld, DropsFresh
<1>16. OwnsHeld'
  BY <1>6, <1>11, <1>15 DEF IInv, OwnsHeld
<1>17. OwnsOnly'
  BY <1>6, <1>10, <1>11, <1>13, NobodyAssumption DEF IInv, OwnsOnly
<1>18. WaitsFresh' /\ DropsFresh'
  BY <1>2, <1>11, <1>12, <1>13 DEF IInv, WaitsFresh, DropsFresh
<1>. QED
  BY <1>7, <1>9, <1>14, <1>16, <1>17, <1>18 DEF IInv

\* A killed process leaves nothing behind.
LEMMA DieIInv ==
    ASSUME IInv, NEW t \in Threads, Die(t)
    PROVE  IInv'
<1>1. TypeOK
  BY DEF IInv
<1>2. /\ \A z \in Stores : flock'[z] = IF flock[z] = t THEN Nobody ELSE flock[z]
      /\ calls'[t] = << >> /\ held'[t] = << >> /\ waits'[t] = Nobody
      /\ \A u \in Threads \ {t} : calls'[u] = calls[u] /\ held'[u] = held[u] /\ waits'[u] = waits[u]
  BY <1>1 DEF Die, TypeOK
<1>3. TypeOK'
  BY <1>1, EmptySeq DEF Die, TypeOK
<1>4. AllMatched'
  BY <1>2, MatchedEmpty DEF IInv, AllMatched
<1>5. Len(calls'[t]) = 0 /\ Len(held'[t]) = 0
  BY <1>2
<1>6. \A z \in Stores : ~Holds(t, z)' /\ ~Dropping(t, z)' /\ waits'[t] # z
  BY <1>2, <1>5, NobodyAssumption DEF Holds, Dropping
<1>7. \A u \in Threads \ {t}, z \in Stores :
          (Holds(u, z)' <=> Holds(u, z)) /\ (Dropping(u, z)' <=> Dropping(u, z))
  BY <1>2 DEF Holds, Dropping, Top
<1>8. OwnsCalls'
  <2>1. \A u \in Threads : \A i \in 1..Len(calls[u]) : calls[u][i].store \in Stores
    BY <1>1, Lists
  <2>. QED
    <3>1. \A i \in 1..Len(calls'[t]) : flock'[calls'[t][i].store] = t
      BY <1>5
    <3>2. ASSUME NEW u \in Threads \ {t}, NEW i \in 1..Len(calls'[u])
          PROVE  flock'[calls'[u][i].store] = u
      <4>1. calls'[u] = calls[u] /\ i \in 1..Len(calls[u])
        BY <1>2
      <4>2. calls[u][i].store \in Stores /\ flock[calls[u][i].store] = u
        BY <2>1, <4>1 DEF IInv, OwnsCalls
      <4>. QED
        BY <1>2, <4>1, <4>2
    <3>. QED
      BY <3>1, <3>2 DEF OwnsCalls
<1>9. OwnsHeld'
  BY <1>2, <1>6, <1>7 DEF IInv, OwnsHeld
<1>10. OwnsOnly'
  BY <1>2, <1>7, NobodyAssumption DEF IInv, OwnsOnly
<1>11. WaitsFresh' /\ DropsFresh'
  BY <1>2, <1>6, <1>7 DEF IInv, WaitsFresh, DropsFresh
<1>. QED
  BY <1>3, <1>4, <1>8, <1>9, <1>10, <1>11 DEF IInv

-----------------------------------------------------------------------------
LEMMA NextIInv ==
    ASSUME IInv, [Next]_vars
    PROVE  IInv'
<1>1. CASE Next
  <2>1. PICK t \in Threads :
            \/ \E path \in Paths : ReEnter(t, path) \/ Request(t, path)
            \/ Acquire(t) \/ LockFails(t) \/ ReturnInner(t)
            \/ DropHeld(t) \/ Unlock(t) \/ Die(t)
    BY <1>1 DEF Next
  <2>. QED
    BY <2>1, ReEnterIInv, RequestIInv, AcquireIInv, LockFailsIInv,
       ReturnInnerIInv, DropHeldIInv, UnlockIInv, DieIInv
<1>2. CASE UNCHANGED vars
  <2>. USE <1>2 DEF vars
  <2>1. \A t \in Threads, s \in Stores :
            (Holds(t, s)' <=> Holds(t, s)) /\ (Dropping(t, s)' <=> Dropping(t, s))
    BY DEF Holds, Dropping, Top
  <2>2. TypeOK' /\ AllMatched'
    BY DEF IInv, TypeOK, AllMatched
  <2>3. OwnsCalls' /\ OwnsHeld' /\ OwnsOnly'
    BY <2>1 DEF IInv, OwnsCalls, OwnsHeld, OwnsOnly
  <2>4. WaitsFresh' /\ DropsFresh'
    BY <2>1 DEF IInv, WaitsFresh, DropsFresh
  <2>. QED
    BY <2>2, <2>3, <2>4 DEF IInv
<1>. QED
  BY <1>1, <1>2

\* The inductive invariant holds in every state of with_store_lock.
THEOREM Invariance == Spec => []IInv
<1>1. IInv /\ [Next]_vars => IInv'
  BY NextIInv
<1>. QED
  BY InitIInv, <1>1, PTL DEF Spec

\* The flocks, HELD, the calls and the waits keep their types.
THEOREM TypeCorrect == Spec => []TypeOK
<1>1. IInv => TypeOK
  BY DEF IInv
<1>. QED
  BY Invariance, <1>1, PTL

\* No two threads are ever inside one store, however deep their calls nest and
\* however many of them are killed.
THEOREM MutualExclusion == Spec => []Exclusive
<1>1. IInv => Exclusive
  <2>. SUFFICES ASSUME IInv, NEW t \in Threads, NEW u \in Threads,
                       NEW i \in 1..Len(calls[t]), NEW j \in 1..Len(calls[u]),
                       calls[t][i].store = calls[u][j].store
                PROVE  t = u
    BY DEF Exclusive
  <2>. QED
    BY DEF IInv, OwnsCalls
<1>. QED
  BY Invariance, <1>1, PTL

\* No thread blocks on a flock that it holds itself, under any spelling of the
\* folder: the closure of a command may call any other locked function.
THEOREM NoSelfDeadlock == Spec => []NoSelfWait
<1>1. IInv => NoSelfWait
  <2>. SUFFICES ASSUME IInv, NEW t \in Threads, waits[t] # Nobody, flock[waits[t]] = t
                PROVE  FALSE
    BY DEF NoSelfWait
  <2>1. waits[t] \in Stores
    BY DEF IInv, TypeOK
  <2>. QED
    BY <2>1 DEF IInv, OwnsOnly, WaitsFresh
<1>. QED
  BY Invariance, <1>1, PTL

\* with_store_lock implements Mutex: every step of it enters one free store,
\* leaves stores of one thread, or changes no holder.
THEOREM ImplementsMutex == Spec => MutexSpec
<1>1. Init => Lock!Init
  BY DEF Init, Lock!Init
<1>2. IInv /\ [Next]_vars => [Lock!Next]_flock
  <2>. SUFFICES ASSUME IInv, Next, flock' # flock
                PROVE  Lock!Next
    BY DEF vars
  <2>1. PICK t \in Threads : Acquire(t) \/ Unlock(t) \/ Die(t)
    BY DEF Next, ReEnter, Request, LockFails, ReturnInner, DropHeld
  <2>2. TypeOK
    BY DEF IInv
  <2>3. CASE Acquire(t)
    BY <2>3 DEF Acquire, Lock!Next, Lock!Enter
  <2>4. CASE Unlock(t)
    <3>. DEFINE s == Top(t).store
    <3>1. s \in Stores /\ flock[s] = t
      BY <2>2, <2>4, Lists DEF Unlock, Top, IInv, OwnsCalls
    <3>2. flock' = [flock EXCEPT ![s] = Nobody]
      BY <2>4 DEF Unlock, Top
    <3>3. flock' = [z \in Stores |-> IF z \in {s} THEN Nobody ELSE flock[z]]
      BY <2>2, <3>1, <3>2 DEF TypeOK
    <3>4. {s} \in SUBSET Stores /\ \A z \in {s} : flock[z] = t
      BY <3>1
    <3>. HIDE DEF s
    <3>5. Lock!Leave(t)
      BY <3>3, <3>4 DEF Lock!Leave
    <3>. QED
      BY <3>5 DEF Lock!Next
  <2>5. CASE Die(t)
    <3>. DEFINE left == {z \in Stores : flock[z] = t}
    <3>1. flock' = [z \in Stores |-> IF z \in left THEN Nobody ELSE flock[z]]
      BY <2>5 DEF Die
    <3>2. left \in SUBSET Stores /\ \A z \in left : flock[z] = t
      OBVIOUS
    <3>. HIDE DEF left
    <3>3. Lock!Leave(t)
      BY <3>1, <3>2 DEF Lock!Leave
    <3>. QED
      BY <3>3 DEF Lock!Next
  <2>. QED
    BY <2>1, <2>3, <2>4, <2>5
<1>. QED
  BY Invariance, <1>1, <1>2, PTL DEF Spec, MutexSpec, Lock!Spec
=============================================================================
