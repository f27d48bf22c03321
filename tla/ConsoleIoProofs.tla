-------------------------- MODULE ConsoleIoProofs --------------------------
(***************************************************************************)
(* Proofs about ConsoleIo, for any number of processes, threads, handles   *)
(* and events: every wait block stands once in both its queues, the read   *)
(* counts are right, the reference to a line read never dangles, and a     *)
(* write is only left waiting by an unblocking in the gap before it is     *)
(* queued.  The inductive invariant IInv gathers these.                    *)
(***************************************************************************)
EXTENDS ConsoleIo, FiniteSetTheorems, TLAPS

-----------------------------------------------------------------------------
(* Taking blocks out of a queue.                                           *)

\* No thread stands twice in q.
Once(q) == \A i, j \in 1..Len(q) : q[i] = q[j] => i = j

Places(s, K) == {i \in 1..Len(s) : s[i] \in K}
Rank(s, K, i) == Cardinality({j \in Places(s, K) : j <= i})

\* The places of s that hold an element of K are numbered by their rank.
LEMMA Ranks ==
    ASSUME NEW s, Len(s) \in Nat, NEW K
    PROVE  /\ IsFiniteSet(Places(s, K)) /\ Cardinality(Places(s, K)) \in Nat
           /\ \A i \in Places(s, K) : Rank(s, K, i) \in 1..Cardinality(Places(s, K))
           /\ \A i, j \in Places(s, K) : Rank(s, K, i) = Rank(s, K, j) => i = j
           /\ \A n \in 1..Cardinality(Places(s, K)) :
                 \E i \in Places(s, K) : Rank(s, K, i) = n
<1> DEFINE P == Places(s, K)
           Below(i) == {j \in P : j <= i}
           r == [i \in P |-> Rank(s, K, i)]
<1>1. P \subseteq 1..Len(s) /\ IsFiniteSet(1..Len(s))
    BY FS_Interval DEF Places
<1>2. IsFiniteSet(P) /\ Cardinality(P) \in Nat
    BY <1>1, FS_Subset, FS_CardinalityType, Zenon
<1>3. ASSUME NEW i \in P
      PROVE  /\ IsFiniteSet(Below(i)) /\ Cardinality(Below(i)) \in 1..Cardinality(P)
             /\ i \in Below(i)
  <2>1. Below(i) \in SUBSET P /\ i \in Below(i)
    BY <1>1
  <2>2. IsFiniteSet(Below(i)) /\ Cardinality(Below(i)) <= Cardinality(P)
    BY <1>2, <2>1, FS_Subset, Zenon
  <2>3. Cardinality(Below(i)) \in Nat /\ Cardinality(Below(i)) # 0
    BY <2>1, <2>2, FS_CardinalityType, FS_EmptySet, Zenon
  <2> QED BY <1>2, <2>1, <2>2, <2>3
<1>4. ASSUME NEW i \in P, NEW j \in P, i < j
      PROVE  Cardinality(Below(i)) # Cardinality(Below(j))
  <2>1. Below(i) \in SUBSET Below(j) /\ j \in Below(j) /\ j \notin Below(i)
    BY <1>1, <1>4
  <2> QED BY <1>3, <2>1, FS_Subset, Zenon
<1>5. \A i, j \in P : Cardinality(Below(i)) = Cardinality(Below(j)) => i = j
  <2>1. \A i, j \in P : i < j \/ j < i \/ i = j
    BY <1>1
  <2> QED BY <1>4, <2>1, Zenon
<1>6. \A i \in P : Rank(s, K, i) = Cardinality(Below(i))
    BY Zenon DEF Rank
<1> HIDE DEF P, Below
<1>7. r \in Injection(P, 1..Cardinality(P))
  <2>1. r \in [P -> 1..Cardinality(P)]
    BY <1>3, <1>6, Zenon
  <2>2. \A i, j \in P : r[i] = r[j] => i = j
    BY <1>5, <1>6, Zenon
  <2> QED BY <2>1, <2>2, Zenon DEF Injection, IsInjective
<1>8. IsFiniteSet(1..Cardinality(P)) /\ Cardinality(1..Cardinality(P)) = Cardinality(P)
    BY <1>2, FS_Interval
<1>9. r \in Surjection(P, 1..Cardinality(P))
    BY <1>7, <1>8, FS_Injection, Zenon
<1>10. \A n \in 1..Cardinality(P) : \E i \in P : r[i] = n
    BY <1>9, Zenon DEF Surjection
<1>11. /\ \A i \in P : Rank(s, K, i) \in 1..Cardinality(P)
       /\ \A i, j \in P : Rank(s, K, i) = Rank(s, K, j) => i = j
    BY <1>3, <1>5, <1>6, Zenon
<1>12. \A n \in 1..Cardinality(P) : \E i \in P : Rank(s, K, i) = n
    BY <1>10, Zenon
<1> QED BY <1>2, <1>11, <1>12, Zenon DEF P

\* Nth finds the place with the given rank.
LEMMA NthRight ==
    ASSUME NEW s, Len(s) \in Nat, NEW K, NEW n \in 1..Cardinality(Places(s, K))
    PROVE  Nth(s, K, n) \in Places(s, K) /\ Rank(s, K, Nth(s, K, n)) = n
<1>1. ~(Cardinality(Places(s, K)) < n)
    BY Ranks
<1>2. Nth(s, K, n) = CHOOSE i \in Places(s, K) : Rank(s, K, i) = n
    BY <1>1, Zenon DEF Nth, Places, Rank
<1>3. \E i \in Places(s, K) : Rank(s, K, i) = n
    BY Ranks, Zenon
<1> QED BY <1>2, <1>3, Zenon

\* What is left of a queue is a queue of the others, each as often as before.
LEMMA WithoutRight ==
    ASSUME NEW q \in Seq(Threads), NEW S
    PROVE  /\ Without(q, S) \in Seq(Threads)
           /\ ToSet(Without(q, S)) = ToSet(q) \ S
           /\ Once(q) => Once(Without(q, S))
<1> DEFINE K == Threads \ S
           m == Cardinality(Places(q, K))
           w == Without(q, S)
<1>1. Len(q) \in Nat /\ DOMAIN q = 1..Len(q) /\ \A i \in 1..Len(q) : q[i] \in Threads
    OBVIOUS
<1>2. w = [n \in 1..m |-> q[Nth(q, K, n)]]
    BY Zenon DEF Without, Places
<1>3. m \in Nat
    BY <1>1, Ranks, Zenon
<1>4. \A n \in 1..m : Nth(q, K, n) \in 1..Len(q) /\ q[Nth(q, K, n)] \in K
                      /\ Rank(q, K, Nth(q, K, n)) = n
    BY <1>1, NthRight, Zenon DEF Places
<1> HIDE DEF K, m, w
<1>5. w \in Seq(Threads) /\ Len(w) = m /\ DOMAIN w = 1..m
  <2>1. w \in [1..m -> Threads]
    BY <1>1, <1>2, <1>4, Zenon
  <2> QED BY <1>2, <1>3, <2>1
<1>6. ASSUME NEW t PROVE t \in ToSet(w) <=> t \in ToSet(q) \ S
  <2>1. ASSUME NEW n \in 1..m, t = w[n] PROVE t \in ToSet(q) \ S
    BY <1>1, <1>2, <1>4, <2>1, Zenon DEF ToSet, K
  <2>2. ASSUME NEW i \in 1..Len(q), t = q[i], t \notin S PROVE \E n \in 1..m : t = w[n]
    <3>1. i \in Places(q, K)
      BY <1>1, <2>2, Zenon DEF Places, K
    <3>2. Rank(q, K, i) \in 1..m
      BY <1>1, <3>1, Ranks, Zenon DEF m
    <3>3. Nth(q, K, Rank(q, K, i)) = i
      <4>1. /\ Nth(q, K, Rank(q, K, i)) \in Places(q, K)
            /\ Rank(q, K, Nth(q, K, Rank(q, K, i))) = Rank(q, K, i)
        BY <1>1, <3>2, NthRight, Zenon DEF m
      <4> QED BY <1>1, <3>1, <4>1, Ranks, Zenon
    <3> QED BY <1>2, <2>2, <3>2, <3>3, Zenon
  <2> QED BY <1>1, <1>5, <2>1, <2>2, Zenon DEF ToSet
<1>7. ASSUME Once(q), NEW a \in 1..m, NEW b \in 1..m, w[a] = w[b] PROVE a = b
  <2>1. q[Nth(q, K, a)] = q[Nth(q, K, b)]
    BY <1>2, <1>7, Zenon
  <2>2. Nth(q, K, a) = Nth(q, K, b)
    BY <1>4, <1>7, <2>1, Zenon DEF Once
  <2> QED BY <1>4, <2>2, Zenon
<1> QED BY <1>5, <1>6, <1>7, Zenon DEF Once, w

\* A block that is new in a queue comes after the others.
LEMMA AppendRight ==
    ASSUME NEW q \in Seq(Threads), NEW t \in Threads
    PROVE  /\ Append(q, t) \in Seq(Threads)
           /\ ToSet(Append(q, t)) = ToSet(q) \cup {t}
           /\ Once(q) /\ t \notin ToSet(q) => Once(Append(q, t))
<1> DEFINE a == Append(q, t)
<1>1. /\ Len(q) \in Nat /\ DOMAIN q = 1..Len(q) /\ a \in Seq(Threads)
      /\ Len(a) = Len(q) + 1 /\ DOMAIN a = 1..(Len(q) + 1)
      /\ \A i \in 1..Len(q) : a[i] = q[i]
      /\ a[Len(q) + 1] = t
    OBVIOUS
<1> HIDE DEF a
<1>2. \A i \in 1..(Len(q) + 1) : i \in 1..Len(q) \/ i = Len(q) + 1
    BY <1>1
<1>3. /\ \A i \in 1..Len(q) : i \in 1..(Len(q) + 1)
      /\ Len(q) + 1 \in 1..(Len(q) + 1)
    BY <1>1
<1>4. ToSet(a) = ToSet(q) \cup {t}
    BY <1>1, <1>2, <1>3, Zenon DEF ToSet
<1>5. ASSUME Once(q), t \notin ToSet(q) PROVE Once(a)
    BY <1>1, <1>2, <1>5, Zenon DEF Once, ToSet
<1> QED BY <1>1, <1>4, <1>5, Zenon DEF a

-----------------------------------------------------------------------------
(* The inductive invariant.                                                *)

Requests == {Idle, [kind |-> "write"]}
              \cup [kind : Reads, handle : Handles, room : Rooms \cup {1}]

Types ==
    /\ attached \subseteq Procs /\ open \subseteq Handles
    /\ readCount \in [Handles -> Int]
    /\ req \in [Threads -> Requests]
    /\ inQ \in Seq(Threads) /\ outQ \in Seq(Threads)
    /\ procQ \in [Procs -> Seq(Threads)]
    /\ parked \in Threads \cup {None} /\ slot \in Threads \cup {None}
    /\ failed \in BOOLEAN

\* Each queue holds its blocks, once, and a parked request is in none.
Queued ==
    /\ Once(inQ) /\ ToSet(inQ) = {t \in Threads : IsRead(t) /\ t # parked}
    /\ Once(outQ)
    /\ ToSet(outQ) = {t \in Threads : Waiting(t) /\ ~IsRead(t) /\ t # parked}
    /\ \A p \in Procs :
          /\ Once(procQ[p])
          /\ ToSet(procQ[p]) = {t \in Threads : Waiting(t) /\ t # parked /\ Owner[t] = p}
    /\ parked # None => Waiting(parked)

\* A write that is parked while nothing suspends output has missed its wake-up.
ParkedLate ==
    parked # None /\ suspended = {} => IsRead(parked) \/ parked \in late

IInv == Types /\ Queued /\ ReadsCounted /\ SlotLive /\ MissedOnlyInGap /\ ParkedLate

-----------------------------------------------------------------------------
(* Answering requests.                                                     *)

\* A request is none, a write, or a read through a handle.
LEMMA Kinds ==
    ASSUME Types, NEW t \in Threads
    PROVE  /\ Waiting(t) <=> req[t].kind # "idle"
           /\ IsRead(t) => Waiting(t) /\ req[t].handle \in Handles
           /\ Waiting(t) /\ ~IsRead(t) => req[t].kind = "write"
           /\ req[t].kind = "cooked" => IsRead(t)
<1>1. req[t] \in Requests
    BY Zenon DEF Types
<1> QED BY <1>1 DEF Requests, Idle, Waiting, IsRead, Reads

\* The requests of S are over, the others stay.
LEMMA AnswerRequests ==
    ASSUME Types, NEW S \in SUBSET Threads, Answer(S)
    PROVE  /\ req' \in [Threads -> Requests]
           /\ \A t \in S : ~Waiting(t)' /\ ~IsRead(t)' /\ req'[t].kind = "idle"
           /\ \A t \in Threads \ S : /\ req'[t] = req[t]
                                     /\ Waiting(t)' <=> Waiting(t)
                                     /\ IsRead(t)' <=> IsRead(t)
<1>1. req' = [t \in Threads |-> IF t \in S THEN Idle ELSE req[t]]
    BY Zenon DEF Answer
<1>2. Idle \in Requests /\ Idle.kind = "idle" /\ "idle" \notin Reads
    BY DEF Requests, Idle, Reads
<1>3. req \in [Threads -> Requests]
    BY Zenon DEF Types
<1>4. req' \in [Threads -> Requests]
    BY <1>1, <1>2, <1>3, Zenon
<1>5. /\ \A t \in S : req'[t] = Idle
      /\ \A t \in Threads \ S : req'[t] = req[t]
    BY <1>1, Zenon
<1> QED BY <1>2, <1>4, <1>5, Zenon DEF Waiting, IsRead

\* The queues lose the blocks of S, and nothing else.
LEMMA AnswerQueues ==
    ASSUME Types, Queued, NEW S \in SUBSET Threads, parked \notin S, Answer(S),
           parked' = parked
    PROVE  /\ inQ' \in Seq(Threads) /\ outQ' \in Seq(Threads)
           /\ procQ' \in [Procs -> Seq(Threads)]
           /\ ToSet(outQ') = ToSet(outQ) \ S
           /\ Queued'
<1>1. /\ inQ' = Without(inQ, S) /\ outQ' = Without(outQ, S)
      /\ procQ' = [p \in Procs |-> Without(procQ[p], S)]
    BY Zenon DEF Answer
<1>2. /\ inQ \in Seq(Threads) /\ outQ \in Seq(Threads) /\ procQ \in [Procs -> Seq(Threads)]
      /\ parked \in Threads \cup {None}
    BY Zenon DEF Types
<1>3. /\ inQ' \in Seq(Threads) /\ ToSet(inQ') = ToSet(inQ) \ S
      /\ Once(inQ) => Once(inQ')
    BY <1>1, <1>2, WithoutRight, Zenon
<1>4. /\ outQ' \in Seq(Threads) /\ ToSet(outQ') = ToSet(outQ) \ S
      /\ Once(outQ) => Once(outQ')
    BY <1>1, <1>2, WithoutRight, Zenon
<1>5. ASSUME NEW p \in Procs
      PROVE  /\ procQ[p] \in Seq(Threads)
             /\ procQ'[p] \in Seq(Threads) /\ ToSet(procQ'[p]) = ToSet(procQ[p]) \ S
             /\ Once(procQ[p]) => Once(procQ'[p])
  <2>1. procQ'[p] = Without(procQ[p], S) /\ procQ[p] \in Seq(Threads)
    BY <1>1, <1>2, Zenon
  <2>2. /\ Without(procQ[p], S) \in Seq(Threads)
        /\ ToSet(Without(procQ[p], S)) = ToSet(procQ[p]) \ S
        /\ Once(procQ[p]) => Once(Without(procQ[p], S))
    BY <2>1, WithoutRight, Zenon
  <2> QED BY <2>1, <2>2, Zenon
<1>6. procQ' \in [Procs -> Seq(Threads)]
    BY <1>1, <1>5, Zenon
<1>7. /\ \A t \in S : ~Waiting(t)' /\ ~IsRead(t)'
      /\ \A t \in Threads \ S : (Waiting(t)' <=> Waiting(t)) /\ (IsRead(t)' <=> IsRead(t))
    BY AnswerRequests, Zenon
<1>8. Once(inQ') /\ ToSet(inQ') = {t \in Threads : IsRead(t)' /\ t # parked'}
    BY <1>3, <1>7, Zenon DEF Queued
<1>9. Once(outQ') /\ ToSet(outQ') = {t \in Threads : Waiting(t)' /\ ~IsRead(t)' /\ t # parked'}
    BY <1>4, <1>7, Zenon DEF Queued
<1>10. ASSUME NEW p \in Procs
       PROVE  /\ Once(procQ'[p])
              /\ ToSet(procQ'[p]) = {t \in Threads : Waiting(t)' /\ t # parked' /\ Owner[t] = p}
    BY <1>5, <1>7, Zenon DEF Queued
<1>11. (parked # None => Waiting(parked))'
    BY <1>2, <1>7, Zenon DEF Queued
<1>12. Queued'
    BY <1>8, <1>9, <1>10, <1>11, Zenon DEF Queued
<1> QED BY <1>3, <1>4, <1>6, <1>12, Zenon

\* The reads that wait through handle h.
Through(h) == {t \in Threads : IsRead(t) /\ req[t].handle = h}

\* Every block of S gives back its count.
LEMMA AnswerCounts ==
    ASSUME Types, NEW S \in SUBSET Threads, Answer(S)
    PROVE  /\ readCount' \in [Handles -> Int]
           /\ \A h \in Handles :
                 /\ {t \in S : IsRead(t) /\ req[t].handle = h} = Through(h) \cap S
                 /\ Through(h)' = Through(h) \ S
                 /\ readCount[h] = Cardinality(Through(h))
                      => readCount'[h] = Cardinality(Through(h)')
<1>1. readCount' = [h \in Handles |->
          readCount[h] - Cardinality({t \in S : IsRead(t) /\ req[t].handle = h})]
    BY Zenon DEF Answer
<1>2. ASSUME NEW h \in Handles
      PROVE  /\ {t \in S : IsRead(t) /\ req[t].handle = h} = Through(h) \cap S
             /\ Through(h)' = Through(h) \ S
             /\ IsFiniteSet(Through(h)) /\ Cardinality(Through(h) \cap S) \in Nat
             /\ Cardinality(Through(h) \ S) = Cardinality(Through(h)) - Cardinality(Through(h) \cap S)
  <2>1. {t \in S : IsRead(t) /\ req[t].handle = h} = Through(h) \cap S
    BY Zenon DEF Through
  <2>2. Through(h)' = Through(h) \ S
    BY AnswerRequests, Zenon DEF Through
  <2>3. IsFiniteSet(Through(h)) /\ IsFiniteSet(Through(h) \cap S)
    <3>1. Through(h) \in SUBSET Threads /\ Through(h) \cap S \in SUBSET Threads
      BY Zenon DEF Through
    <3> QED BY <3>1, ClientsAssumption, FS_Subset, Zenon
  <2>4. Cardinality(Through(h) \ S) = Cardinality(Through(h)) - Cardinality(Through(h) \cap S)
    BY <2>3, FS_Difference, Zenon
  <2> QED BY <2>1, <2>2, <2>3, <2>4, FS_CardinalityType, Zenon
<1>3. readCount \in [Handles -> Int]
    BY Zenon DEF Types
<1>4. ASSUME NEW h \in Handles
      PROVE  /\ readCount'[h] = readCount[h] - Cardinality(Through(h) \cap S)
             /\ readCount'[h] \in Int
  <2>1. readCount'[h] = readCount[h] - Cardinality(Through(h) \cap S)
    BY <1>1, <1>2, Zenon
  <2>2. readCount[h] \in Int /\ Cardinality(Through(h) \cap S) \in Nat
    BY <1>2, <1>3, Zenon
  <2> QED BY <2>1, <2>2
<1>5. readCount' \in [Handles -> Int]
    BY <1>1, <1>4, Zenon
<1> QED BY <1>2, <1>4, <1>5, Zenon

\* The reference to a line read goes with the read, if not before.
LEMMA AnswerSlot ==
    ASSUME Types, SlotLive, NEW S \in SUBSET Threads, NEW R \in SUBSET Threads,
           \A t \in R : ~IsRead(t), Answer(S \cup R),
           ClearSlot(S) \/ (S = {} /\ UNCHANGED slot)
    PROVE  SlotLive' /\ slot' \in Threads \cup {None}
<1>1. slot' = None \/ (slot' = slot /\ \A t \in S : req[t].kind # "cooked")
    BY Zenon DEF ClearSlot
<1>2. slot \in Threads \cup {None}
    BY Zenon DEF Types
<1>3. CASE slot' = None
    BY <1>3, Zenon DEF SlotLive
<1>4. CASE slot # None /\ slot' = slot /\ \A t \in S : req[t].kind # "cooked"
  <2>1. slot \in Threads /\ req[slot].kind = "cooked"
    BY <1>2, <1>4, Zenon DEF SlotLive
  <2>2. slot \notin S \cup R
    BY <1>4, <2>1, Kinds, Zenon
  <2>3. req'[slot] = req[slot]
    BY <2>1, <2>2, AnswerRequests, Zenon
  <2> QED BY <1>4, <2>1, <2>3, Zenon DEF SlotLive
<1> QED BY <1>1, <1>2, <1>3, <1>4, Zenon

\* Who counts on what, when nothing is closed and nobody leaves.
LEMMA AnswerReads ==
    ASSUME Types, ReadsCounted, ~failed, NEW S \in SUBSET Threads, Answer(S),
           UNCHANGED <<attached, open>>
    PROVE  ReadsCounted'
<1>1. \A h \in Handles : readCount[h] = Cardinality(Through(h))
    BY Zenon DEF ReadsCounted, Through
<1>2. \A h \in Handles : readCount'[h] = Cardinality(Through(h)')
    BY <1>1, AnswerCounts, Zenon
<1>3. \A t \in Threads : /\ Waiting(t)' => Waiting(t)
                         /\ IsRead(t)' => IsRead(t) /\ req'[t] = req[t]
    BY AnswerRequests, Zenon
<1>4. /\ \A t \in Threads : Waiting(t)' => Owner[t] \in attached'
      /\ \A t \in Threads : IsRead(t)' => req'[t].handle \in open'
    BY <1>3, Zenon DEF ReadsCounted
<1> QED BY <1>2, <1>4, Zenon DEF ReadsCounted, Through

\* A write that nothing holds up has been answered, or was in the gap.
LEMMA AnswerGap ==
    ASSUME Types, Queued, MissedOnlyInGap, ParkedLate,
           NEW S \in SUBSET Threads, parked \notin S, Answer(S), parked' = parked,
           \/ suspended' = suspended /\ late \ S \subseteq late'
           \/ /\ Resumed(suspended') \subseteq S
              /\ Missed(suspended') \subseteq late'
    PROVE  MissedOnlyInGap' /\ ParkedLate'
<1>1. ToSet(outQ') = ToSet(outQ) \ S
    BY AnswerQueues, Zenon
<1>2. parked # None => parked \in Threads /\ (IsRead(parked)' <=> IsRead(parked))
    BY AnswerRequests, Zenon DEF Types
<1>3. CASE suspended' = suspended /\ late \ S \subseteq late'
  <2>1. MissedOnlyInGap'
    BY <1>1, <1>3, Zenon DEF MissedOnlyInGap
  <2>2. ParkedLate'
    BY <1>2, <1>3, Zenon DEF ParkedLate
  <2> QED BY <2>1, <2>2
<1>4. CASE Resumed(suspended') \subseteq S /\ Missed(suspended') \subseteq late'
  <2>1. MissedOnlyInGap'
    BY <1>1, <1>4, Zenon DEF MissedOnlyInGap, Resumed
  <2>2. ParkedLate'
    BY <1>2, <1>4, Zenon DEF ParkedLate, Missed
  <2> QED BY <2>1, <2>2
<1> QED BY <1>3, <1>4, Zenon

-----------------------------------------------------------------------------
(* The steps.                                                              *)

\* Requests are answered while no process and no handle goes: S by a
\* notification that clears the reference to a line read, R by output resuming.
LEMMA AnswerStep ==
    ASSUME IInv, ~failed, NEW S \in SUBSET Threads, NEW R \in SUBSET Threads,
           parked \notin S \cup R, \A t \in R : ~IsRead(t), Answer(S \cup R),
           ClearSlot(S) \/ (S = {} /\ UNCHANGED slot),
           UNCHANGED <<attached, open, parked>>, failed' \in BOOLEAN,
           \/ suspended' = suspended /\ late \ (S \cup R) \subseteq late'
           \/ /\ Resumed(suspended') \subseteq S \cup R
              /\ Missed(suspended') \subseteq late'
    PROVE  IInv'
<1>1. Types /\ Queued /\ ReadsCounted /\ SlotLive /\ MissedOnlyInGap /\ ParkedLate
    BY Zenon DEF IInv
<1>2. S \cup R \in SUBSET Threads /\ parked' = parked
    OBVIOUS
<1>3. /\ inQ' \in Seq(Threads) /\ outQ' \in Seq(Threads)
      /\ procQ' \in [Procs -> Seq(Threads)] /\ Queued'
    BY <1>1, <1>2, AnswerQueues, Zenon
<1>4. req' \in [Threads -> Requests] /\ readCount' \in [Handles -> Int]
    BY <1>1, <1>2, AnswerRequests, AnswerCounts, Zenon
<1>5. SlotLive' /\ slot' \in Threads \cup {None}
    BY <1>1, AnswerSlot, Zenon
<1>6. ReadsCounted'
    BY <1>1, <1>2, AnswerReads, Zenon
<1>7. MissedOnlyInGap' /\ ParkedLate'
    BY <1>1, <1>2, AnswerGap, Zenon
<1>8. Types'
    BY <1>1, <1>3, <1>4, <1>5, Zenon DEF Types
<1> QED BY <1>3, <1>5, <1>6, <1>7, <1>8, Zenon DEF IInv

\* Events arrive, and the first read in the queue is woken.
LEMMA StoreStep ==
    ASSUME IInv, ~failed, NEW events, NEW R \in SUBSET ToSet(outQ), NEW fails,
           Store(events, R, fails), UNCHANGED <<attached, open, parked>>,
           \/ suspended' = suspended /\ late' = late
           \/ /\ Resumed(suspended') \subseteq R
              /\ Missed(suspended') \subseteq late'
    PROVE  IInv'
<1> DEFINE first == IF inQ = <<>> THEN {} ELSE {Head(inQ)}
           served == {t \in first : SatisfiedWoken(req[t], events)}
<1>1. inQ \in Seq(Threads) /\ Queued
    BY Zenon DEF IInv, Types
<1>2. inQ # <<>> => Head(inQ) \in ToSet(inQ)
    BY <1>1 DEF ToSet
<1>3. served \subseteq ToSet(inQ)
    BY <1>2, Zenon
<1>4. /\ served \in SUBSET Threads /\ parked \notin served \cup R
      /\ R \in SUBSET Threads /\ \A t \in R : ~IsRead(t)
    BY <1>1, <1>3, Zenon DEF Queued
<1>5. Answer(served \cup R) /\ ClearSlot(served) /\ failed' = (fails \/ Asserts(first, pending))
    BY Zenon DEF Store
<1>6. failed' \in BOOLEAN
    BY <1>5, Zenon
<1> HIDE DEF served
<1>7. \/ suspended' = suspended /\ late \ (served \cup R) \subseteq late'
      \/ /\ Resumed(suspended') \subseteq served \cup R
         /\ Missed(suspended') \subseteq late'
    BY Zenon
<1> QED BY <1>4, <1>5, <1>6, <1>7, AnswerStep, Zenon

\* Nobody is answered or parked, nobody leaves, and output is not unblocked.
LEMMA SameStep ==
    ASSUME IInv, UNCHANGED <<queues, parked, late, failed>>,
           attached \subseteq attached', attached' \subseteq Procs,
           open \subseteq open', open' \subseteq Handles,
           slot' \in {slot, None}, suspended' = suspended \/ suspended' # {}
    PROVE  IInv'
<1>1. UNCHANGED <<req, inQ, outQ, procQ, readCount, parked, late, failed>>
    BY Zenon DEF queues
<1>2. Types'
    BY <1>1, Zenon DEF IInv, Types
<1>3. Queued'
    BY <1>1, Zenon DEF IInv, Queued, Waiting, IsRead
<1>4. ReadsCounted'
  <2>1. ~failed => /\ \A h \in Handles : readCount[h] = Cardinality(Through(h))
                   /\ \A t \in Threads : Waiting(t) => Owner[t] \in attached
                   /\ \A t \in Threads : IsRead(t) => req[t].handle \in open
    BY Zenon DEF IInv, ReadsCounted, Through
  <2>2. \A h \in Handles : Through(h)' = Through(h)
    BY <1>1, Zenon DEF Through, IsRead
  <2>3. \A t \in Threads : (Waiting(t)' <=> Waiting(t)) /\ (IsRead(t)' <=> IsRead(t))
    BY <1>1, Zenon DEF Waiting, IsRead
  <2>4. ~failed' => /\ \A h \in Handles : readCount'[h] = Cardinality(Through(h)')
                    /\ \A t \in Threads : Waiting(t)' => Owner[t] \in attached'
                    /\ \A t \in Threads : IsRead(t)' => req'[t].handle \in open'
    <3> SUFFICES ASSUME ~failed
                 PROVE  /\ \A h \in Handles : readCount'[h] = Cardinality(Through(h)')
                        /\ \A t \in Threads : Waiting(t)' => Owner[t] \in attached'
                        /\ \A t \in Threads : IsRead(t)' => req'[t].handle \in open'
      BY <1>1
    <3>1. \A h \in Handles : readCount'[h] = Cardinality(Through(h)')
      BY <1>1, <2>1, <2>2, Zenon
    <3>2. \A t \in Threads : Waiting(t)' => Owner[t] \in attached'
      BY <2>1, <2>3, Zenon
    <3>3. \A t \in Threads : IsRead(t)' => req'[t].handle \in open'
      BY <1>1, <2>1, <2>3, Zenon
    <3> QED BY <3>1, <3>2, <3>3, Zenon
  <2> QED BY <2>4, Zenon DEF ReadsCounted, Through
<1>5. SlotLive'
    BY <1>1, Zenon DEF IInv, SlotLive
<1>6. MissedOnlyInGap' /\ ParkedLate'
    BY <1>1, Zenon DEF IInv, MissedOnlyInGap, ParkedLate, IsRead
<1> QED BY <1>2, <1>3, <1>4, <1>5, <1>6, Zenon DEF IInv

\* A request has to wait: it is counted and parked, and stands in no queue yet.
LEMMA ParkStep ==
    ASSUME IInv, Free, NEW t \in Threads, ~Waiting(t), Owner[t] \in attached,
           NEW r \in Requests, r # Idle, r.kind \in Reads => r.handle \in open,
           r.kind \notin Reads => suspended # {}, Park(t, r),
           slot' = IF r.kind = "cooked" THEN t ELSE slot,
           UNCHANGED <<attached, open, suspended, late, failed>>
    PROVE  IInv'
<1>1. /\ Types /\ Queued /\ SlotLive /\ MissedOnlyInGap /\ parked = None /\ ~failed
      /\ req \in [Threads -> Requests] /\ None \notin Threads
    BY ClientsAssumption, Zenon DEF IInv, Free, Types
<1>2. /\ parked' = t /\ req' = [req EXCEPT ![t] = r] /\ UNCHANGED <<inQ, outQ, procQ>>
      /\ readCount' = IF r.kind \in Reads
                      THEN [readCount EXCEPT ![r.handle] = @ + 1] ELSE readCount
    BY Zenon DEF Park
<1>3. /\ req' \in [Threads -> Requests] /\ req'[t] = r
      /\ \A u \in Threads \ {t} : req'[u] = req[u]
    BY <1>1, <1>2, Zenon
<1>4. /\ \A u \in Threads \ {t} : (Waiting(u)' <=> Waiting(u)) /\ (IsRead(u)' <=> IsRead(u))
      /\ ~IsRead(t) /\ Waiting(t)' /\ (IsRead(t)' <=> r.kind \in Reads)
    BY <1>1, <1>3, Kinds, Zenon DEF Waiting, IsRead
<1>5. Queued'
  <2>1. Once(inQ') /\ ToSet(inQ') = {u \in Threads : IsRead(u)' /\ u # parked'}
    BY <1>1, <1>2, <1>4, Zenon DEF Queued
  <2>2. Once(outQ') /\ ToSet(outQ') = {u \in Threads : Waiting(u)' /\ ~IsRead(u)' /\ u # parked'}
    BY <1>1, <1>2, <1>4, Zenon DEF Queued
  <2>3. \A p \in Procs :
          /\ Once(procQ'[p])
          /\ ToSet(procQ'[p]) = {u \in Threads : Waiting(u)' /\ u # parked' /\ Owner[u] = p}
    BY <1>1, <1>2, <1>4, Zenon DEF Queued
  <2>4. (parked # None => Waiting(parked))'
    BY <1>2, <1>4, Zenon
  <2> QED BY <2>1, <2>2, <2>3, <2>4, Zenon DEF Queued
<1>6. /\ \A h \in Handles : readCount[h] = Cardinality(Through(h))
      /\ \A u \in Threads : Waiting(u) => Owner[u] \in attached
      /\ \A u \in Threads : IsRead(u) => req[u].handle \in open
    BY <1>1, Zenon DEF IInv, ReadsCounted, Through
<1>7. /\ \A u \in Threads : Waiting(u)' => Owner[u] \in attached'
      /\ \A u \in Threads : IsRead(u)' => req'[u].handle \in open'
    BY <1>3, <1>4, <1>6, Zenon
<1>8. readCount \in [Handles -> Int] /\ open \subseteq Handles
    BY <1>1, Zenon DEF Types
<1>9. /\ readCount' \in [Handles -> Int]
      /\ \A h \in Handles : readCount'[h] = Cardinality(Through(h)')
  <2>1. CASE r.kind \notin Reads
    <3>1. \A h \in Handles : Through(h)' = Through(h)
      BY <1>3, <1>4, <2>1, Zenon DEF Through
    <3>2. readCount' = readCount
      BY <1>2, <2>1, Zenon
    <3> QED BY <1>6, <1>8, <3>1, <3>2, Zenon
  <2>2. CASE r.kind \in Reads
    <3>1. r.handle \in Handles /\ readCount' = [readCount EXCEPT ![r.handle] = @ + 1]
      BY <1>2, <1>8, <2>2, Zenon
    <3>2. \A h \in Handles \ {r.handle} : Through(h)' = Through(h)
      BY <1>3, <1>4, Zenon DEF Through
    <3>3. Through(r.handle)' = Through(r.handle) \cup {t} /\ t \notin Through(r.handle)
      BY <1>3, <1>4, <2>2, Zenon DEF Through
    <3>4. IsFiniteSet(Through(r.handle))
      <4>1. Through(r.handle) \in SUBSET Threads
        BY Zenon DEF Through
      <4> QED BY <4>1, ClientsAssumption, FS_Subset, Zenon
    <3>5. Cardinality(Through(r.handle) \cup {t}) = Cardinality(Through(r.handle)) + 1
      <4>1. Cardinality(Through(r.handle) \cup {t})
              = IF t \in Through(r.handle) THEN Cardinality(Through(r.handle))
                                           ELSE Cardinality(Through(r.handle)) + 1
        BY <3>4, FS_AddElement, Zenon
      <4> QED BY <3>3, <4>1, Zenon
    <3>6. /\ readCount'[r.handle] = readCount[r.handle] + 1
          /\ \A h \in Handles \ {r.handle} : readCount'[h] = readCount[h]
      BY <1>8, <3>1, Zenon
    <3>7. readCount' \in [Handles -> Int]
      BY <1>8, <3>1
    <3>8. ASSUME NEW h \in Handles PROVE readCount'[h] = Cardinality(Through(h)')
      <4>1. CASE h = r.handle
        BY <1>6, <3>1, <3>3, <3>5, <3>6, <4>1, Zenon
      <4>2. CASE h # r.handle
        BY <1>6, <3>2, <3>6, <4>2, Zenon
      <4> QED BY <4>1, <4>2, Zenon
    <3> QED BY <3>7, <3>8, Zenon
  <2> QED BY <2>1, <2>2, Zenon
<1>10. ReadsCounted'
    BY <1>7, <1>9, Zenon DEF ReadsCounted, Through
<1>11. SlotLive' /\ slot' \in Threads \cup {None}
  <2>1. CASE r.kind = "cooked"
    BY <1>3, <2>1, Zenon DEF SlotLive
  <2>2. CASE r.kind # "cooked"
    <3>1. slot' = slot /\ slot \in Threads \cup {None}
      BY <1>1, <2>2, Zenon DEF Types
    <3>2. slot # None => slot \in Threads \ {t}
      BY <1>1, <3>1, Kinds, Zenon DEF SlotLive
    <3> QED BY <1>1, <1>3, <3>1, <3>2, Zenon DEF SlotLive
  <2> QED BY <2>1, <2>2, Zenon
<1>12. MissedOnlyInGap' /\ ParkedLate'
  <2>1. MissedOnlyInGap'
    BY <1>1, <1>2, Zenon DEF MissedOnlyInGap
  <2>2. ParkedLate'
    BY <1>2, <1>4, Zenon DEF ParkedLate
  <2> QED BY <2>1, <2>2, Zenon
<1>13. Types'
    BY <1>1, <1>2, <1>3, <1>9, <1>11, Zenon DEF Types
<1> QED BY <1>5, <1>10, <1>11, <1>12, <1>13, Zenon DEF IInv

\* The parked request is queued for its process and its object.
LEMMA CreateWaitStep ==
    ASSUME IInv, CreateWait
    PROVE  IInv'
<1>1. /\ Types /\ Queued /\ ReadsCounted /\ SlotLive /\ MissedOnlyInGap /\ ParkedLate
      /\ None \notin Threads /\ Owner \in [Threads -> Procs]
    BY ClientsAssumption, Zenon DEF IInv
<1>2. /\ parked # None /\ parked' = None
      /\ procQ' = [procQ EXCEPT ![Owner[parked]] = Append(@, parked)]
      /\ IF IsRead(parked) THEN inQ' = Append(inQ, parked) /\ outQ' = outQ
                           ELSE outQ' = Append(outQ, parked) /\ inQ' = inQ
      /\ UNCHANGED <<attached, open, req, readCount, suspended, slot, late, failed>>
    BY Zenon DEF CreateWait, server
<1>3. PICK u \in Threads : u = parked
    BY <1>1, <1>2, Zenon DEF Types
<1>4. /\ inQ \in Seq(Threads) /\ outQ \in Seq(Threads) /\ procQ \in [Procs -> Seq(Threads)]
      /\ Waiting(u) /\ Owner[u] \in Procs
    BY <1>1, <1>2, <1>3, Zenon DEF Types, Queued
<1>5. \A t \in Threads : (Waiting(t)' <=> Waiting(t)) /\ (IsRead(t)' <=> IsRead(t))
    BY <1>2, Zenon DEF Waiting, IsRead
<1>6. /\ inQ' \in Seq(Threads) /\ Once(inQ')
      /\ ToSet(inQ') = {t \in Threads : IsRead(t)' /\ t # parked'}
  <2>1. CASE IsRead(u)
    <3>1. inQ' = Append(inQ, u) /\ u \notin ToSet(inQ) /\ Once(inQ)
      BY <1>1, <1>2, <1>3, <2>1, Zenon DEF Queued
    <3>2. /\ inQ' \in Seq(Threads) /\ Once(inQ') /\ ToSet(inQ') = ToSet(inQ) \cup {u}
      BY <1>4, <3>1, AppendRight, Zenon
    <3> QED BY <1>1, <1>2, <1>3, <1>5, <2>1, <3>2, Zenon DEF Queued
  <2>2. CASE ~IsRead(u)
    <3>1. inQ' = inQ
      BY <1>2, <1>3, <2>2, Zenon
    <3> QED BY <1>1, <1>2, <1>3, <1>4, <1>5, <2>2, <3>1, Zenon DEF Queued
  <2> QED BY <2>1, <2>2, Zenon
<1>7. /\ outQ' \in Seq(Threads) /\ Once(outQ')
      /\ ToSet(outQ') = {t \in Threads : Waiting(t)' /\ ~IsRead(t)' /\ t # parked'}
      /\ ToSet(outQ') = IF IsRead(u) THEN ToSet(outQ) ELSE ToSet(outQ) \cup {u}
  <2>1. CASE ~IsRead(u)
    <3>1. outQ' = Append(outQ, u) /\ u \notin ToSet(outQ) /\ Once(outQ)
      BY <1>1, <1>2, <1>3, <2>1, Zenon DEF Queued
    <3>2. /\ outQ' \in Seq(Threads) /\ Once(outQ') /\ ToSet(outQ') = ToSet(outQ) \cup {u}
      BY <1>4, <3>1, AppendRight, Zenon
    <3> QED BY <1>1, <1>2, <1>3, <1>4, <1>5, <2>1, <3>2, Zenon DEF Queued
  <2>2. CASE IsRead(u)
    <3>1. outQ' = outQ
      BY <1>2, <1>3, <2>2, Zenon
    <3> QED BY <1>1, <1>2, <1>3, <1>4, <1>5, <2>2, <3>1, Zenon DEF Queued
  <2> QED BY <2>1, <2>2, Zenon
<1>8. ASSUME NEW p \in Procs
      PROVE  /\ procQ'[p] \in Seq(Threads) /\ Once(procQ'[p])
             /\ ToSet(procQ'[p]) = {t \in Threads : Waiting(t)' /\ t # parked' /\ Owner[t] = p}
  <2>1. CASE p = Owner[u]
    <3>1. /\ procQ'[p] = Append(procQ[p], u) /\ u \notin ToSet(procQ[p]) /\ Once(procQ[p])
          /\ procQ[p] \in Seq(Threads)
      BY <1>1, <1>2, <1>3, <1>4, <2>1, Zenon DEF Queued
    <3>2. /\ Append(procQ[p], u) \in Seq(Threads)
          /\ ToSet(Append(procQ[p], u)) = ToSet(procQ[p]) \cup {u}
          /\ Once(Append(procQ[p], u))
      BY <3>1, AppendRight, Zenon
    <3>3. /\ procQ'[p] \in Seq(Threads) /\ Once(procQ'[p])
          /\ ToSet(procQ'[p]) = ToSet(procQ[p]) \cup {u}
      BY <3>1, <3>2, Zenon
    <3>4. ToSet(procQ[p]) = {t \in Threads : Waiting(t) /\ t # u /\ Owner[t] = p}
      BY <1>1, <1>3, Zenon DEF Queued
    <3>5. \A t \in Threads : t # parked'
      BY <1>1, <1>2, Zenon
    <3> QED BY <1>4, <1>5, <2>1, <3>3, <3>4, <3>5, Zenon
  <2>2. CASE p # Owner[u]
    <3>1. procQ'[p] = procQ[p]
      BY <1>2, <1>3, <1>4, <2>2, Zenon
    <3> QED BY <1>1, <1>2, <1>3, <1>4, <1>5, <2>2, <3>1, Zenon DEF Queued
  <2> QED BY <2>1, <2>2, Zenon
<1>9. procQ' \in [Procs -> Seq(Threads)]
  <2>1. procQ' = [procQ EXCEPT ![Owner[u]] = Append(procQ[Owner[u]], u)] /\ DOMAIN procQ = Procs
    BY <1>2, <1>3, <1>4, Zenon
  <2>2. Append(procQ[Owner[u]], u) \in Seq(Threads)
    BY <1>4, AppendRight, Zenon
  <2> QED BY <1>4, <2>1, <2>2, Zenon
<1>10. Queued'
    BY <1>2, <1>6, <1>7, <1>8, Zenon DEF Queued
<1>11. Types'
    BY <1>1, <1>2, <1>6, <1>7, <1>9, Zenon DEF Types
<1>12. ReadsCounted'
    BY <1>1, <1>2, Zenon DEF ReadsCounted, Waiting, IsRead
<1>13. SlotLive'
    BY <1>1, <1>2, Zenon DEF SlotLive
<1>14. MissedOnlyInGap' /\ ParkedLate'
  <2>1. ~IsRead(u) /\ suspended = {} => u \in late
    BY <1>1, <1>2, <1>3, Zenon DEF ParkedLate
  <2>2. MissedOnlyInGap'
    BY <1>1, <1>2, <1>7, <2>1, Zenon DEF MissedOnlyInGap
  <2>3. ParkedLate'
    BY <1>2, Zenon DEF ParkedLate
  <2> QED BY <2>2, <2>3, Zenon
<1> QED BY <1>10, <1>11, <1>12, <1>13, <1>14, Zenon DEF IInv

\* An input handle is closed: the reads that wait through it end with it, and
\* so do the requests in `dying`, which are all those of a process that goes.
LEMMA CloseStep ==
    ASSUME IInv, Free, NEW h \in Handles, NEW dying \in SUBSET Threads,
           CloseInputHandle(h, dying), attached' \subseteq attached,
           \A t \in Threads \ dying : Waiting(t) /\ Owner[t] \in attached => Owner[t] \in attached',
           UNCHANGED <<parked, suspended>>
    PROVE  IInv'
<1> DEFINE closing == IF readCount[h] # 0 THEN Ended(inQ, "HandleClosing") ELSE {}
           ended == closing \cup dying
<1>1. /\ Types /\ Queued /\ SlotLive /\ MissedOnlyInGap /\ ParkedLate /\ parked = None
      /\ None \notin Threads /\ parked' = parked
    BY ClientsAssumption, Zenon DEF IInv, Free
<1>2. /\ \A g \in Handles : readCount[g] = Cardinality(Through(g))
      /\ \A t \in Threads : Waiting(t) => Owner[t] \in attached
      /\ \A t \in Threads : IsRead(t) => req[t].handle \in open
    BY Zenon DEF IInv, Free, ReadsCounted, Through
<1>3. /\ Answer(ended) /\ ClearSlot(ended) /\ late' = late \ ended /\ open' = open \ {h}
      /\ failed' \in BOOLEAN
    BY Zenon DEF CloseInputHandle
<1>4. closing \subseteq ToSet(inQ) /\ ToSet(inQ) \subseteq Threads
    BY <1>1, Zenon DEF Ended, Queued
<1>5. ended \in SUBSET Threads /\ parked \notin ended
    BY <1>1, <1>4, Zenon
<1>6. Through(h) \subseteq ended
  <2>1. CASE readCount[h] = 0
    <3>1. Through(h) \in SUBSET Threads
      BY Zenon DEF Through
    <3>2. Through(h) = {}
      BY <1>2, <2>1, <3>1, ClientsAssumption, FS_Subset, FS_EmptySet, Zenon
    <3> QED BY <3>2, Zenon
  <2>2. CASE readCount[h] # 0
    <3>1. closing = Ended(inQ, "HandleClosing") /\ EndedBy("HandleClosing") = Reads
      BY <2>2 DEF EndedBy
    <3>2. Through(h) \subseteq closing
      BY <1>1, <3>1, Zenon DEF Through, Ended, Queued, IsRead
    <3> QED BY <3>2, Zenon
  <2> QED BY <2>1, <2>2, Zenon
<1> HIDE DEF closing, ended
<1>7. /\ inQ' \in Seq(Threads) /\ outQ' \in Seq(Threads)
      /\ procQ' \in [Procs -> Seq(Threads)] /\ Queued'
    BY <1>1, <1>3, <1>5, AnswerQueues, Zenon
<1>8. req' \in [Threads -> Requests] /\ readCount' \in [Handles -> Int]
    BY <1>1, <1>3, <1>5, AnswerRequests, AnswerCounts, Zenon
<1>9. SlotLive' /\ slot' \in Threads \cup {None}
  <2>1. Answer(ended \cup {}) /\ {} \in SUBSET Threads /\ \A t \in {} : ~IsRead(t)
    <3>1. ended \cup {} = ended
      BY Zenon
    <3> QED BY <1>3, <3>1, Zenon
  <2> QED BY <1>1, <1>3, <1>5, <2>1, AnswerSlot, Zenon
<1>10. MissedOnlyInGap' /\ ParkedLate'
  <2>1. suspended' = suspended /\ late \ ended \subseteq late'
    BY <1>3, Zenon
  <2> QED BY <1>1, <1>3, <1>5, <2>1, AnswerGap, Zenon
<1>11. ReadsCounted'
  <2>1. \A g \in Handles : readCount'[g] = Cardinality(Through(g)')
    BY <1>1, <1>2, <1>3, <1>5, AnswerCounts, Zenon
  <2>2. \A t \in Threads : /\ Waiting(t)' => t \notin ended /\ Waiting(t)
                           /\ IsRead(t)' => t \notin ended /\ IsRead(t) /\ req'[t] = req[t]
    BY <1>1, <1>3, <1>5, AnswerRequests, Zenon
  <2>3. \A t \in Threads : Waiting(t)' => Owner[t] \in attached'
    BY <1>2, <2>2, Zenon DEF ended
  <2>4. \A t \in Threads : IsRead(t)' => req'[t].handle \in open'
    BY <1>2, <1>3, <1>6, <2>2, Zenon DEF Through
  <2> QED BY <2>1, <2>3, <2>4, Zenon DEF ReadsCounted, Through
<1>12. Types'
    BY <1>1, <1>3, <1>7, <1>8, <1>9, Zenon DEF Types
<1> QED BY <1>7, <1>9, <1>10, <1>11, <1>12, Zenon DEF IInv

\* A request of thread t through h is served at once, or parked.
LEMMA ReadStep ==
    ASSUME IInv, NEW t \in Threads, NEW h \in Handles, NEW kind \in Reads,
           NEW room \in Rooms \cup {1}, Read(t, h, kind, room)
    PROVE  IInv'
<1> DEFINE r == [kind |-> kind, handle |-> h, room |-> room]
<1>1. /\ Free /\ ~Waiting(t) /\ Owner[t] \in attached /\ h \in open
      /\ UNCHANGED <<attached, open, suspended, late, failed>>
    BY Zenon DEF Read, CanAsk, server
<1>2. attached \subseteq Procs /\ open \subseteq Handles
    BY Zenon DEF IInv, Types
<1>3. CASE Satisfied(r, storage)
  <2>1. UNCHANGED <<queues, parked>> /\ slot' \in {slot, None}
    BY <1>3, Zenon DEF Read
  <2> QED BY <1>1, <1>2, <2>1, SameStep, Zenon
<1>4. CASE ~Satisfied(r, storage)
  <2>1. Park(t, r) /\ slot' = IF kind = "cooked" THEN t ELSE slot
    BY <1>4, Zenon DEF Read
  <2>2. /\ r \in Requests /\ r # Idle /\ r.kind = kind /\ r.handle = h
    BY DEF Requests, Idle, Reads
  <2> HIDE DEF r
  <2> QED BY <1>1, <2>1, <2>2, ParkStep, Zenon
<1> QED BY <1>3, <1>4, Zenon

\* Events that are typed or written, or a key that resumes output.
LEMMA WriteEventsStep ==
    ASSUME IInv, NEW batch, NEW front, NEW handled, WriteEvents(batch, front, handled)
    PROVE  IInv'
<1> DEFINE key == IF "pause" \in suspended THEN Nth(batch, Chars, 1) ELSE 0
           kept == IF key = 0 THEN batch ELSE RemoveAt(batch, key)
           left == IF key = 0 THEN suspended ELSE suspended \ {"pause"}
           resumed == IF key = 0 THEN {} ELSE Resumed(left)
           events == IF handled THEN storage ELSE IF front THEN kept \o storage ELSE storage \o kept
<1>1. /\ ~failed /\ suspended' = left
      /\ late' = (late \ resumed) \cup (IF key = 0 THEN {} ELSE Missed(left))
      /\ UNCHANGED <<attached, open, parked>>
      /\ IF kept = <<>>
         THEN Answer(resumed) /\ UNCHANGED <<pending, storage, slot, failed>>
         ELSE Store(events, resumed, front /\ handled)
    BY Zenon DEF WriteEvents, server
<1> HIDE DEF key, kept, events
<1>2. \/ suspended' = suspended /\ late' = late /\ resumed = {}
      \/ suspended' = left /\ resumed = Resumed(left) /\ Missed(left) \subseteq late'
    BY <1>1, Zenon
<1>3. resumed \in SUBSET ToSet(outQ)
    BY Zenon DEF Resumed
<1> HIDE DEF left, resumed
<1>4. /\ \A t \in resumed : ~IsRead(t)
      /\ resumed \in SUBSET Threads /\ parked \notin resumed
    BY <1>3, Zenon DEF IInv, Queued
<1>5. \/ suspended' = suspended /\ late' = late
      \/ Resumed(suspended') \subseteq resumed /\ Missed(suspended') \subseteq late'
    BY <1>2, Zenon
<1>6. CASE kept = <<>>
  <2>1. Answer({} \cup resumed) /\ UNCHANGED slot /\ failed' \in BOOLEAN
    <3>1. {} \cup resumed = resumed
      BY Zenon
    <3>2. failed \in BOOLEAN /\ failed' = failed /\ Answer(resumed) /\ slot' = slot
      BY <1>1, <1>6, Zenon DEF IInv, Types
    <3> QED BY <3>1, <3>2, Zenon
  <2>2. \/ suspended' = suspended /\ late \ ({} \cup resumed) \subseteq late'
        \/ /\ Resumed(suspended') \subseteq {} \cup resumed
           /\ Missed(suspended') \subseteq late'
    BY <1>5, Zenon
  <2>3. {} \in SUBSET Threads /\ parked \notin {} \cup resumed
    BY <1>4, Zenon
  <2> QED BY <1>1, <1>4, <2>1, <2>2, <2>3, AnswerStep, Zenon
<1>7. CASE kept # <<>>
  <2>1. Store(events, resumed, front /\ handled)
    BY <1>1, <1>7, Zenon
  <2> QED BY <1>1, <1>3, <1>5, <2>1, StoreStep, Zenon
<1> QED BY <1>6, <1>7, Zenon

-----------------------------------------------------------------------------
\* How often a thread stands in a queue where nobody stands twice.
LEMMA CountRight ==
    ASSUME NEW q \in Seq(Threads), Once(q), NEW t
    PROVE  Count(q, t) = IF t \in ToSet(q) THEN 1 ELSE 0
<1> DEFINE I == {i \in 1..Len(q) : q[i] = t}
<1>1. DOMAIN q = 1..Len(q)
    OBVIOUS
<1>2. CASE t \in ToSet(q)
  <2>1. PICK i \in 1..Len(q) : q[i] = t
    BY <1>1, <1>2, Zenon DEF ToSet
  <2>2. I = {i}
    BY <2>1, Zenon DEF Once
  <2> QED BY <1>2, <2>2, FS_Singleton, Zenon DEF Count
<1>3. CASE t \notin ToSet(q)
  <2>1. I = {}
    BY <1>1, <1>3, Zenon DEF ToSet
  <2> QED BY <1>3, <2>1, FS_EmptySet, Zenon DEF Count
<1> QED BY <1>2, <1>3, Zenon

\* The initial states satisfy the inductive invariant.
LEMMA InitIInv == Init => IInv
<1> SUFFICES ASSUME Init PROVE IInv
    BY Zenon
<1>1. Types
  <2>1. <<>> \in Seq(Threads) /\ 0 \in Int /\ Idle \in Requests
    BY DEF Requests
  <2> QED BY <2>1, Zenon DEF Init, Types
<1>2. /\ \A t \in Threads : ~Waiting(t) /\ ~IsRead(t)
      /\ parked = None
  <2>1. Idle.kind \notin Reads
    BY DEF Idle, Reads
  <2> QED BY <2>1, Zenon DEF Init, Waiting, IsRead
<1>3. ToSet(<<>>) = {} /\ Once(<<>>)
    BY DEF ToSet, Once
<1>4. Queued
    BY <1>2, <1>3, Zenon DEF Init, Queued
<1>5. ReadsCounted
  <2>1. \A h \in Handles : {t \in Threads : IsRead(t) /\ req[t].handle = h} = {}
    BY <1>2, Zenon
  <2> QED BY <1>2, <2>1, FS_EmptySet, Zenon DEF Init, ReadsCounted
<1>6. SlotLive /\ MissedOnlyInGap /\ ParkedLate
    BY <1>3, Zenon DEF Init, SlotLive, MissedOnlyInGap, ParkedLate
<1> QED BY <1>1, <1>4, <1>5, <1>6, Zenon DEF IInv

\* Every step keeps the inductive invariant.
LEMMA Inductive == IInv /\ [Next]_vars => IInv'
<1> SUFFICES ASSUME IInv, [Next]_vars PROVE IInv'
    BY Zenon
<1>t. attached \subseteq Procs /\ open \subseteq Handles /\ failed \in BOOLEAN
    BY Zenon DEF IInv, Types
<1>1. CASE CreateWait
    BY <1>1, CreateWaitStep, Zenon
<1>2. ASSUME NEW t \in Threads, NEW h \in Handles, NEW n \in Rooms,
             GetConsoleInput(t, h, n) \/ ReadCharacterInput(t, h, n)
      PROVE  IInv'
  <2>1. "direct" \in Reads /\ "raw" \in Reads /\ n \in Rooms \cup {1}
    BY DEF Reads
  <2> QED BY <1>2, <2>1, ReadStep, Zenon DEF GetConsoleInput, ReadCharacterInput
<1>3. ASSUME NEW t \in Threads, NEW h \in Handles, ReadLineInput(t, h)
      PROVE  IInv'
  <2>1. "cooked" \in Reads /\ 1 \in Rooms \cup {1}
    BY DEF Reads
  <2> QED BY <1>3, <2>1, ReadStep, Zenon DEF ReadLineInput
<1>4. ASSUME \/ \E t \in Threads, h \in Handles : ReadPendingInput(t, h)
             \/ FlushConsoleInputBuffer \/ SetActiveScreenBuffer \/ SetConsoleInputMode
             \/ \E reason \in Reasons : Suspend(reason)
      PROVE  IInv'
  <2>1. /\ UNCHANGED <<attached, open, queues, parked, late, failed, slot>>
        /\ suspended' = suspended \/ suspended' # {}
    BY <1>4, Zenon
    DEF ReadPendingInput, FlushConsoleInputBuffer, SetActiveScreenBuffer,
        SetConsoleInputMode, Suspend, server
  <2> QED BY <1>t, <2>1, SameStep, Zenon
<1>5. ASSUME NEW t \in Threads, WriteConsole(t)
      PROVE  IInv'
  <2> DEFINE r == [kind |-> "write"]
  <2>1. /\ Free /\ ~Waiting(t) /\ Owner[t] \in attached /\ suspended # {} /\ Park(t, r)
        /\ UNCHANGED <<attached, open, suspended, late, failed, slot>>
    BY <1>5, Zenon DEF WriteConsole, CanAsk, server
  <2>2. r \in Requests /\ r # Idle /\ r.kind \notin Reads /\ r.kind # "cooked"
    BY DEF Requests, Idle, Reads
  <2> HIDE DEF r
  <2> QED BY <2>1, <2>2, ParkStep, Zenon
<1>6. ASSUME NEW batch, NEW handled, WriteConsoleInput(batch, handled) \/ Type(batch, handled)
      PROVE  IInv'
    BY <1>6, WriteEventsStep, Zenon DEF WriteConsoleInput, Type
<1>7. ASSUME \/ \E p \in Procs : Connect(p)
             \/ \E h \in Extras : CreateObject(h)
      PROVE  IInv'
  <2>1. /\ UNCHANGED <<queues, parked, late, failed, slot, suspended>>
        /\ attached \subseteq attached' /\ attached' \subseteq Procs
        /\ open \subseteq open' /\ open' \subseteq Handles
    BY <1>t, <1>7, Zenon DEF Connect, CreateObject, Handles
  <2> QED BY <2>1, SameStep, Zenon
<1>8. ASSUME NEW h \in Extras, CloseObject(h)
      PROVE  IInv'
  <2>1. /\ Free /\ h \in Handles /\ CloseInputHandle(h, {}) /\ attached' = attached
        /\ UNCHANGED <<parked, suspended>>
    BY <1>8, Zenon DEF CloseObject, Handles
  <2>2. {} \in SUBSET Threads
    BY Zenon
  <2> QED BY <2>1, <2>2, CloseStep, Zenon
<1>9. ASSUME NEW p \in Procs, Disconnect(p)
      PROVE  IInv'
  <2> DEFINE dying == Ended(procQ[p], "ThreadDying")
  <2>1. /\ Free /\ p \in Handles /\ CloseInputHandle(p, dying) /\ attached' = attached \ {p}
        /\ UNCHANGED <<parked, suspended>>
    BY <1>9, Zenon DEF Disconnect, Handles
  <2>2. Types /\ Queued /\ parked = None /\ None \notin Threads
    BY <2>1, ClientsAssumption, Zenon DEF IInv, Free
  <2>3. EndedBy("ThreadDying") = Reads \cup {"write"}
    BY DEF EndedBy
  <2>4. \A t \in Threads : Waiting(t) => req[t].kind \in Reads \cup {"write"}
    BY <2>2, Kinds, Zenon DEF IsRead
  <2>5. ToSet(procQ[p]) = {t \in Threads : Waiting(t) /\ t # parked /\ Owner[t] = p}
    BY <2>2, Zenon DEF Queued
  <2>6. dying = {t \in ToSet(procQ[p]) : req[t].kind \in Reads \cup {"write"}}
    BY <2>3, Zenon DEF Ended
  <2>7. dying = {t \in Threads : Waiting(t) /\ Owner[t] = p}
    BY <2>2, <2>4, <2>5, <2>6
  <2>8. /\ dying \in SUBSET Threads
        /\ \A t \in Threads \ dying : Waiting(t) /\ Owner[t] \in attached => Owner[t] \in attached'
    BY <2>1, <2>7, Zenon
  <2> HIDE DEF dying
  <2> QED BY <2>1, <2>8, CloseStep, Zenon
<1>10. CASE HandleTerminalInput
  <2>1. /\ ~failed /\ Store(Append(storage, "char"), {}, FALSE)
        /\ UNCHANGED <<attached, open, parked, suspended, late>>
    BY <1>10, Zenon DEF HandleTerminalInput, server
  <2>2. {} \in SUBSET ToSet(outQ)
    BY Zenon
  <2> QED BY <2>1, <2>2, StoreStep, Zenon
<1>11. ASSUME NEW reason, CtrlKey(reason)
       PROVE  IInv'
  <2> DEFINE ended == Ended(inQ, reason)
             left == suspended \ {"pause"}
             resumed == IF "pause" \in suspended THEN Resumed(left) ELSE {}
  <2>1. /\ ~failed /\ suspended' = left /\ Answer(ended \cup resumed) /\ ClearSlot(ended)
        /\ late' = (late \ resumed) \cup (IF "pause" \in suspended THEN Missed(left) ELSE {})
        /\ failed' = Asserts(ended, pending)
        /\ UNCHANGED <<attached, open, parked>>
    BY <1>11, Zenon DEF CtrlKey, server
  <2>2. failed' \in BOOLEAN
    BY <2>1, Zenon DEF Asserts
  <2>3. ended \subseteq ToSet(inQ) /\ resumed \subseteq ToSet(outQ)
    BY Zenon DEF Ended, Resumed
  <2>4. /\ ended \in SUBSET Threads /\ resumed \in SUBSET Threads
        /\ parked \notin ended \cup resumed /\ \A t \in resumed : ~IsRead(t)
    BY <2>3, Zenon DEF IInv, Queued
  <2>5. \/ suspended' = suspended /\ late \ (ended \cup resumed) \subseteq late'
        \/ /\ Resumed(suspended') \subseteq ended \cup resumed
           /\ Missed(suspended') \subseteq late'
    <3>1. CASE "pause" \in suspended
      BY <2>1, <3>1, Zenon
    <3>2. CASE "pause" \notin suspended
      BY <2>1, <3>2, Zenon
    <3> QED BY <3>1, <3>2, Zenon
  <2> HIDE DEF ended, left, resumed
  <2> QED BY <2>1, <2>2, <2>4, <2>5, AnswerStep, Zenon
<1>12. ASSUME NEW reason, Unblock(reason)
       PROVE  IInv'
  <2>1. /\ ~failed /\ Answer(Resumed(suspended'))
        /\ late' = (late \ Resumed(suspended')) \cup Missed(suspended')
        /\ UNCHANGED <<attached, open, parked, slot, failed>>
    BY <1>12, Zenon DEF Unblock, server
  <2>2. PICK R \in SUBSET ToSet(outQ) : R = Resumed(suspended')
    BY Zenon DEF Resumed
  <2>3. /\ {} \in SUBSET Threads /\ R \in SUBSET Threads /\ {} \cup R = R
        /\ parked \notin {} \cup R /\ \A t \in R : ~IsRead(t)
    BY Zenon DEF IInv, Queued
  <2>4. /\ Answer({} \cup R) /\ Resumed(suspended') \subseteq {} \cup R
        /\ Missed(suspended') \subseteq late' /\ failed' \in BOOLEAN
    BY <1>t, <2>1, <2>2, <2>3, Zenon
  <2> QED BY <2>1, <2>3, <2>4, AnswerStep, Zenon
<1>13. CASE UNCHANGED vars
  <2>1. UNCHANGED <<attached, open, queues, parked, suspended, slot, late, failed>>
    BY <1>13, Zenon DEF vars, server
  <2> QED BY <1>t, <2>1, SameStep, Zenon
<1> QED
    BY <1>1, <1>2, <1>3, <1>4, <1>5, <1>6, <1>7, <1>8, <1>9, <1>10, <1>11,
       <1>12, <1>13, Zenon
    DEF Next, IoThread, OtherThreads

\* Every waiting request stands once in each of its two queues, or is about to:
\* a block that ends through one queue is never found in the other (WaitBlock).
THEOREM BlocksRegistered == Spec => []Registered
<1>1. ASSUME IInv PROVE Registered
  <2> SUFFICES ASSUME NEW t \in Threads
               PROVE  LET here == IF Waiting(t) /\ t # parked THEN 1 ELSE 0
                      IN /\ Count(inQ, t) = (IF here = 1 /\ IsRead(t) THEN 1 ELSE 0)
                         /\ Count(outQ, t) = (IF here = 1 /\ ~IsRead(t) THEN 1 ELSE 0)
                         /\ \A p \in Procs : Count(procQ[p], t) = (IF p = Owner[t] THEN here ELSE 0)
    BY Zenon DEF Registered
  <2>1. /\ inQ \in Seq(Threads) /\ outQ \in Seq(Threads)
        /\ \A p \in Procs : procQ[p] \in Seq(Threads)
    BY <1>1, Zenon DEF IInv, Types
  <2>2. IsRead(t) => Waiting(t)
    BY <1>1, Kinds, Zenon DEF IInv
  <2>3. Count(inQ, t) = IF IsRead(t) /\ t # parked THEN 1 ELSE 0
    BY <1>1, <2>1, CountRight, Zenon DEF IInv, Queued
  <2>4. Count(outQ, t) = IF Waiting(t) /\ ~IsRead(t) /\ t # parked THEN 1 ELSE 0
    BY <1>1, <2>1, CountRight, Zenon DEF IInv, Queued
  <2>5. \A p \in Procs : Count(procQ[p], t)
                           = IF Waiting(t) /\ t # parked /\ Owner[t] = p THEN 1 ELSE 0
    <3> TAKE p \in Procs
    <3>1. /\ procQ[p] \in Seq(Threads) /\ Once(procQ[p])
          /\ ToSet(procQ[p]) = {u \in Threads : Waiting(u) /\ u # parked /\ Owner[u] = p}
      BY <1>1, <2>1, Zenon DEF IInv, Queued
    <3>2. Count(procQ[p], t) = IF t \in ToSet(procQ[p]) THEN 1 ELSE 0
      BY <3>1, CountRight, Zenon
    <3>3. t \in ToSet(procQ[p]) <=> Waiting(t) /\ t # parked /\ Owner[t] = p
      BY <3>1, Zenon
    <3> QED BY <3>2, <3>3, Zenon
  <2> QED BY <2>2, <2>3, <2>4, <2>5
<1>2. IInv => Registered
    BY <1>1, Zenon
<1> QED BY <1>2, InitIInv, Inductive, PTL DEF Spec

\* Every handle counts the reads that wait through it, and a waiting request
\* has its process and its handle, until the host fails: what the assertion on
\* the count in _CloseInputHandle relies on.
THEOREM CountsRight == Spec => []ReadsCounted
<1>1. IInv => ReadsCounted
    BY Zenon DEF IInv
<1> QED BY <1>1, InitIInv, Inductive, PTL DEF Spec

\* The console's reference to a line read never outlives the read.
THEOREM SlotAlwaysLive == Spec => []SlotLive
<1>1. IInv => SlotLive
    BY Zenon DEF IInv
<1> QED BY <1>1, InitIInv, Inductive, PTL DEF Spec

\* Only a write that was parked when output was unblocked is left waiting.
THEOREM OnlyTheGap == Spec => []MissedOnlyInGap
<1>1. IInv => MissedOnlyInGap
    BY Zenon DEF IInv
<1> QED BY <1>1, InitIInv, Inductive, PTL DEF Spec
=============================================================================
