--------------------------- MODULE AppCache_proofs ---------------------------
(***************************************************************************)
(* Proofs about AppCache, for any threads, applications and requests: what *)
(* the erase loop of deleteFromDynamicAppCache does to the vector, and the *)
(* invariant that follows the entries and the names through overlapping    *)
(* calls.                                                                  *)
(***************************************************************************)
EXTENDS AppCache, SequenceLemmas

-----------------------------------------------------------------------------
(* Names. *)

\* The names that are kept are names.
LEMMA KeptAreApps == KeptNames \subseteq Apps
  BY AppAssumption DEF KeptNames

\* The names of a list of entries.
LEMMA NamesOf ==
    ASSUME NEW S, \A e \in S : e.app \in KeptNames, NEW s \in Seq(S)
    PROVE  /\ AppNames(s) \in Seq(KeptNames)
           /\ DOMAIN AppNames(s) = DOMAIN s
           /\ \A i \in DOMAIN s : AppNames(s)[i] = s[i].app /\ s[i] \in S
           /\ Range(AppNames(s)) = {e.app : e \in Range(s)}
<1>1. Len(s) \in Nat /\ DOMAIN s = 1..Len(s) /\ \A i \in DOMAIN s : s[i] \in S
  OBVIOUS
<1>2. DOMAIN AppNames(s) = 1..Len(s) /\ \A i \in 1..Len(s) : AppNames(s)[i] = s[i].app
  BY <1>1 DEF AppNames
<1>3. AppNames(s) \in [1..Len(s) -> KeptNames]
  BY <1>1 DEF AppNames
<1>4. AppNames(s) \in Seq(KeptNames)
  BY <1>1, <1>3
<1>5. Range(AppNames(s)) = {e.app : e \in Range(s)}
  BY <1>1, <1>2 DEF Range
<1> QED
  BY <1>1, <1>2, <1>4, <1>5

\* The next n entries to be made.
NewEntries(n) == [id : (serial + 1)..(serial + n), app : KeptNames]

\* The entries made for a list of names: new, one for each, under the stored names.
LEMMA AllocatedFacts ==
    ASSUME NEW r \in Seq(Apps), serial \in Nat
    PROVE  /\ Allocated(r) \in Seq(NewEntries(Len(r)))
           /\ NoRepeat(Allocated(r))
           /\ AppNames(Allocated(r)) \in Seq(KeptNames)
           /\ Len(r) \in Nat
<1> DEFINE S == NewEntries(Len(r))
<1>1. Len(r) \in Nat /\ DOMAIN r = 1..Len(r) /\ \A i \in DOMAIN r : r[i] \in Apps
  OBVIOUS
<1>2. \A i \in 1..Len(r) : [id |-> serial + i, app |-> Stored(r[i])] \in S
  BY <1>1 DEF KeptNames, NewEntries
<1>3. Allocated(r) \in [1..Len(r) -> S]
  BY <1>1, <1>2 DEF Allocated
<1>4. Allocated(r) \in Seq(S)
  <2> HIDE DEF S
  <2> QED
    BY <1>1, <1>3
<1>5. NoRepeat(Allocated(r))
  <2>1. \A i \in 1..Len(r) : Allocated(r)[i].id = serial + i
    BY <1>1 DEF Allocated
  <2>2. DOMAIN Allocated(r) = 1..Len(r)
    BY <1>3
  <2>3. \A i, j \in 1..Len(r) : Allocated(r)[i] = Allocated(r)[j] => serial + i = serial + j
    BY <2>1
  <2> QED
    BY <1>1, <2>2, <2>3 DEF NoRepeat
<1>6. AppNames(Allocated(r)) \in Seq(KeptNames)
  <2>1. \A e \in S : e.app \in KeptNames
    BY DEF NewEntries
  <2> HIDE DEF S
  <2> QED
    BY <1>4, <2>1, NamesOf
<1> QED
  BY <1>1, <1>4, <1>5, <1>6

-----------------------------------------------------------------------------
(* The erase loop. *)

\* The first entry of a name that has one.
LEMMA FirstIndexFacts ==
    ASSUME NEW S, NEW s \in Seq(S), NEW a \in Range(AppNames(s))
    PROVE  FirstIndex(s, a) \in DOMAIN s /\ s[FirstIndex(s, a)].app = a
<1> DEFINE T == {i \in DOMAIN s : s[i].app = a}
<1>1. DOMAIN s = 1..Len(s) /\ Len(s) \in Nat
  OBVIOUS
<1>2. T \subseteq Nat /\ T # {}
  BY <1>1 DEF Range, AppNames
<1>3. PICK n \in T : \A m \in T : n <= m
  <2> HIDE DEF T
  <2> QED
    BY <1>2, LeastElement
<1>4. \A j \in 1..(n - 1) : s[j].app # a
  <2> SUFFICES ASSUME NEW j \in 1..(n - 1), s[j].app = a PROVE FALSE
    OBVIOUS
  <2>1. j \in T /\ n \in Nat /\ j < n
    BY <1>1, <1>3
  <2> QED
    BY <1>3, <2>1
<1>5. \E i \in DOMAIN s : s[i].app = a /\ \A j \in 1..(i - 1) : s[j].app # a
  BY <1>3, <1>4
<1> QED
  BY <1>5 DEF FirstIndex

\* The indices the loop erases: those of the names present, never rising.
LEMMA EraseOrderFacts ==
    ASSUME NEW S, NEW s \in Seq(S), NEW A, NEW names \in Seq(A)
    PROVE  LET order == EraseOrder(s, names)
           IN  /\ Len(order) \in Nat /\ DOMAIN order = 1..Len(order)
               /\ \A k \in 1..Len(order) : order[k] \in DOMAIN s
               /\ \A k \in 1..Len(order) : s[order[k]].app \in Range(names)
               /\ \A a \in Range(names) \cap Range(AppNames(s)) :
                     \E k \in 1..Len(order) : s[order[k]].app = a
               /\ NoRepeat(names) =>
                     \A j, k \in 1..Len(order) :
                        /\ j < k => order[j] > order[k]
                        /\ s[order[j]].app = s[order[k]].app => j = k
<1> DEFINE P == Present(s, names)
           v == [i \in P |-> FirstIndex(s, names[i])]
           q == Descending(s, names)
           order == EraseOrder(s, names)
<1>1. /\ Len(names) \in Nat /\ DOMAIN names = 1..Len(names)
      /\ Len(s) \in Nat /\ DOMAIN s = 1..Len(s)
  OBVIOUS
<1>2. P \subseteq 1..Len(names) /\ P \subseteq Nat
  BY <1>1 DEF Present
<1>3. IsFiniteSet(P)
  <2>1. IsFiniteSet(1..Len(names))
    BY <1>1, FS_Interval
  <2> QED
    BY <1>2, <2>1, FS_Subset
<1>4. ASSUME NEW i \in P
      PROVE  v[i] \in DOMAIN s /\ s[v[i]].app = names[i] /\ v[i] \in Int
  <2>1. names[i] \in Range(AppNames(s))
    BY DEF Present
  <2>2. FirstIndex(s, names[i]) \in DOMAIN s /\ s[FirstIndex(s, names[i])].app = names[i]
    BY <2>1, FirstIndexFacts
  <2>3. v[i] = FirstIndex(s, names[i])
    OBVIOUS
  <2> QED
    BY <1>1, <2>2, <2>3
<1>5. v \in [P -> Int]
  <2>1. \A i \in P : v[i] \in Int
    BY <1>4
  <2> QED
    BY <2>1
<1>6. /\ q \in SetToSeqs(P)
      /\ \A j, k \in DOMAIN q :
            j < k => FirstIndex(s, names[q[j]]) >= FirstIndex(s, names[q[k]])
  <2>1. PICK z \in SetToSeqs(P) : \A j, k \in DOMAIN z : j < k => v[z[j]] >= v[z[k]]
    <3> HIDE DEF v, P
    <3> QED
      BY <1>2, <1>3, <1>5, SortedExists
  <2>2. \A j \in DOMAIN z : z[j] \in P
    <3> HIDE DEF P
    <3> QED
      BY <1>3, ListsAll
  <2>3. \A j \in DOMAIN z : v[z[j]] = FirstIndex(s, names[z[j]])
    BY <2>2
  <2>4. \A j, k \in DOMAIN z :
           j < k => FirstIndex(s, names[z[j]]) >= FirstIndex(s, names[z[k]])
    <3> HIDE DEF v, P
    <3> QED
      BY <2>1, <2>3
  <2> QED
    BY <2>1, <2>4 DEF Descending
<1> HIDE DEF q
<1>7. /\ Cardinality(P) \in Nat /\ DOMAIN q = 1..Cardinality(P)
      /\ \A j \in DOMAIN q : q[j] \in P
      /\ \A j, k \in DOMAIN q : q[j] = q[k] => j = k
      /\ Range(q) = P
  <2> HIDE DEF P
  <2> QED
    BY <1>3, <1>6, ListsAll
<1>8. /\ DOMAIN order = DOMAIN q
      /\ \A k \in DOMAIN q : order[k] = FirstIndex(s, names[q[k]])
  BY DEF EraseOrder, q
<1>9. Len(order) = Cardinality(P) /\ Len(order) \in Nat /\ DOMAIN order = 1..Len(order)
  <2> HIDE DEF P, order
  <2>1. DOMAIN order = 1..Cardinality(P) /\ Cardinality(P) \in Nat
    BY <1>7, <1>8
  <2> QED
    BY <2>1, LenProperties
<1> HIDE DEF order
<1>10. ASSUME NEW k \in 1..Len(order)
       PROVE  /\ order[k] \in DOMAIN s /\ s[order[k]].app = names[q[k]]
              /\ q[k] \in P /\ q[k] \in DOMAIN names
  <2>1. k \in DOMAIN q
    BY <1>7, <1>9
  <2>2. q[k] \in P /\ order[k] = v[q[k]]
    BY <1>7, <1>8, <2>1
  <2> HIDE DEF v
  <2> QED
    BY <1>1, <1>2, <1>4, <2>2
<1>11. \A k \in 1..Len(order) : s[order[k]].app \in Range(names)
  BY <1>10 DEF Range
<1>12. ASSUME NEW a \in Range(names) \cap Range(AppNames(s))
       PROVE  \E k \in 1..Len(order) : s[order[k]].app = a
  <2>1. PICK i \in DOMAIN names : names[i] = a
    BY DEF Range
  <2>2. i \in P
    BY <2>1 DEF Present
  <2>3. PICK k \in DOMAIN q : q[k] = i
    BY <1>7, <2>2 DEF Range
  <2> QED
    BY <1>8, <1>9, <1>10, <2>1, <2>3
<1>13. ASSUME NoRepeat(names), NEW j \in 1..Len(order), NEW k \in 1..Len(order), j < k
       PROVE  order[j] > order[k]
  <2>1. j \in DOMAIN q /\ k \in DOMAIN q
    BY <1>7, <1>9
  <2>2. order[j] >= order[k]
    BY <1>6, <1>8, <1>13, <2>1
  <2>3. q[j] # q[k]
    BY <1>7, <1>13, <2>1
  <2>4. order[j] # order[k]
    BY <1>10, <1>13, <2>3 DEF NoRepeat
  <2>5. order[j] \in 1..Len(s) /\ order[k] \in 1..Len(s)
    BY <1>1, <1>10
  <2> QED
    BY <1>1, <2>2, <2>4, <2>5
<1>14. \A k \in 1..Len(order) : order[k] \in DOMAIN s
  BY <1>10
<1>15. ASSUME NoRepeat(names), NEW j \in 1..Len(order), NEW k \in 1..Len(order),
              s[order[j]].app = s[order[k]].app
       PROVE  j = k
  <2>1. j \in DOMAIN q /\ k \in DOMAIN q
    BY <1>7, <1>9
  <2>2. q[j] = q[k]
    BY <1>10, <1>15 DEF NoRepeat
  <2> QED
    BY <1>7, <2>1, <2>2
<1> QED
  BY <1>9, <1>11, <1>12, <1>13, <1>14, <1>15 DEF order

\* The loop erases the indices one after the other.
LEMMA ErasedFollows ==
    ASSUME NEW s, NEW order, Len(order) \in Nat
    PROVE  \E g : Follows(g, s, order, Len(order)) /\ Erased(s, order) = g[Len(order)]
<1> DEFINE N == Len(order)
           h == CHOOSE g : g = AfterRemovals(g, s, order, N)
<1>1. \E g : g = AfterRemovals(g, s, order, N)
  BY RemovalsDefined
<1>2. h = AfterRemovals(h, s, order, N)
  BY <1>1
<1>3. Follows(h, s, order, N)
  <2> HIDE DEF h
  <2> QED
    BY <1>2, RemovalsStep
<1>4. Erased(s, order) = h[N]
  BY DEF Erased, AfterRemovals
<1> HIDE DEF h
<1> QED
  BY <1>3, <1>4

\* Within the vector the loop leaves a part of it, in its order.
LEMMA ErasedWithin ==
    ASSUME NEW S, NEW s \in Seq(S), NoRepeat(s), NEW A, NEW names \in Seq(A),
           ~OutOfRange(s, EraseOrder(s, names))
    PROVE  LET left == Erased(s, EraseOrder(s, names))
           IN  /\ left \in Seq(S) /\ NoRepeat(left)
               /\ Range(left) \subseteq Range(s) /\ InOrder(left, s)
<1> DEFINE order == EraseOrder(s, names)
           N == Len(order)
<1>1. N \in Nat /\ DOMAIN order = 1..N /\ \A k \in 1..N : order[k] \in DOMAIN s
  BY EraseOrderFacts
<1>2. Len(s) \in Nat /\ DOMAIN s = 1..Len(s)
  OBVIOUS
<1> HIDE DEF order
<1>3. Within(s, order, N)
  <2>1. \A k \in 1..N : ~ (order[k] > Len(s) - (k - 1))
    BY <1>1 DEF OutOfRange, order
  <2> QED
    BY <1>1, <1>2, <2>1 DEF Within
<1>4. PICK g : Follows(g, s, order, N) /\ Erased(s, order) = g[N]
  BY <1>1, ErasedFollows
<1>5. Distinct(s)
  BY DEF NoRepeat, Distinct
<1>6. /\ g[N] \in Seq(S) /\ Distinct(g[N]) /\ KeepsOrder(g[N], s)
      /\ Range(g[N]) \subseteq Range(s)
  BY <1>1, <1>3, <1>4, <1>5, Removals
<1>7. NoRepeat(g[N])
  BY <1>6 DEF NoRepeat, Distinct
<1>8. InOrder(g[N], s)
  BY <1>6 DEF InOrder, KeepsOrder
<1> QED
  BY <1>4, <1>6, <1>7, <1>8 DEF order

\* The entries of s that names does not name.
Unnamed(s, names) == {e \in Range(s) : e.app \notin Range(names)}

\* The entries of one name, and the loss of one of them.
Named(s, n) == {e \in Range(s) : e.app = n}

OneTaken(s, left, n) == \E e \in Named(s, n) : Named(left, n) = Named(s, n) \ {e}

\* If the request does not repeat a name, the loop stays within the vector and
\* takes out one entry of each name, which is all when none has two.
LEMMA ErasedExactly ==
    ASSUME NEW S, NEW s \in Seq(S), NoRepeat(s), NEW A, NEW names \in Seq(A),
           NoRepeat(names)
    PROVE  LET left == Erased(s, EraseOrder(s, names))
           IN  /\ ~OutOfRange(s, EraseOrder(s, names))
               /\ Unnamed(s, names) \subseteq Range(left)
               /\ \A n \in Range(names) \cap Range(AppNames(s)) : OneTaken(s, left, n)
               /\ NoRepeat(AppNames(s)) =>
                     Range(left) = Unnamed(s, names)
<1> DEFINE order == EraseOrder(s, names)
           N == Len(order)
<1>1. /\ N \in Nat /\ DOMAIN order = 1..N /\ \A k \in 1..N : order[k] \in DOMAIN s
      /\ \A k \in 1..N : s[order[k]].app \in Range(names)
      /\ \A a \in Range(names) \cap Range(AppNames(s)) :
            \E k \in 1..N : s[order[k]].app = a
      /\ \A j, k \in 1..N : j < k => order[j] > order[k]
      /\ \A j, k \in 1..N : s[order[j]].app = s[order[k]].app => j = k
  BY EraseOrderFacts
<1>2. Len(s) \in Nat /\ DOMAIN s = 1..Len(s)
  OBVIOUS
<1> HIDE DEF order
<1>3. Distinct(s)
  BY DEF NoRepeat, Distinct
<1>4. PICK g : Follows(g, s, order, N) /\ Erased(s, order) = g[N]
  BY <1>1, ErasedFollows
<1>5. /\ Within(s, order, N)
      /\ Range(g[N]) = Range(s) \ TakenOut(s, order, N)
  <2>1. BackToFront(s, order, N)
    BY <1>1 DEF BackToFront
  <2> HIDE DEF N
  <2>2. N \in Nat /\ Follows(g, s, order, N)
    BY <1>1, <1>4
  <2>3. Within(s, order, N)
    BY <2>1, <2>2, BackToFrontWithin
  <2>4. Range(g[N]) = Range(s) \ TakenOut(s, order, N)
    BY <1>3, <2>1, <2>2, DescendingRemovals
  <2> QED
    BY <2>3, <2>4
<1>6. ~OutOfRange(s, order)
  <2>1. \A k \in 1..N : order[k] <= Len(s) - (k - 1) /\ order[k] \in Nat
    BY <1>5 DEF Within
  <2> QED
    BY <1>1, <1>2, <2>1 DEF OutOfRange
<1>7. Unnamed(s, names) \subseteq Range(g[N])
  BY <1>1, <1>5 DEF Unnamed, TakenOut
<1>8. ASSUME NoRepeat(AppNames(s)), NEW e \in Range(g[N])
      PROVE  e \in Range(s) /\ e.app \notin Range(names)
  <2>1. PICK i \in DOMAIN s : e = s[i]
    BY <1>5, <1>8 DEF Range
  <2>2. AppNames(s)[i] = e.app /\ i \in DOMAIN AppNames(s)
    BY <2>1 DEF AppNames
  <2>3. SUFFICES ASSUME e.app \in Range(names) PROVE FALSE
    BY <1>5, <1>8
  <2>4. e.app \in Range(names) \cap Range(AppNames(s))
    BY <2>2, <2>3 DEF Range
  <2>5. PICK k \in 1..N : s[order[k]].app = e.app
    BY Zenon, <1>1, <2>4
  <2>6. order[k] \in DOMAIN s /\ AppNames(s)[order[k]] = AppNames(s)[i]
    BY <1>1, <2>2, <2>5 DEF AppNames
  <2>7. order[k] = i
    BY <1>8, <2>1, <2>6 DEF NoRepeat, AppNames
  <2>8. e \in TakenOut(s, order, N)
    BY <2>1, <2>7 DEF TakenOut
  <2> QED
    BY <1>5, <1>8, <2>8
<1>9. NoRepeat(AppNames(s)) => Range(g[N]) = Unnamed(s, names)
  BY <1>7, <1>8 DEF Unnamed
<1>10. ASSUME NEW n \in Range(names) \cap Range(AppNames(s))
       PROVE  OneTaken(s, g[N], n)
  <2>1. PICK k \in 1..N : s[order[k]].app = n
    BY <1>1
  <2>2. s[order[k]] \in Named(s, n) /\ s[order[k]] \in TakenOut(s, order, N)
    BY <1>1, <2>1 DEF Named, TakenOut, Range
  <2>3. \A e \in TakenOut(s, order, N) : e.app = n => e = s[order[k]]
    BY <1>1, <2>1 DEF TakenOut
  <2>4. Named(g[N], n) = Named(s, n) \ {s[order[k]]}
    BY <1>5, <2>2, <2>3 DEF Named
  <2> QED
    BY <2>2, <2>4 DEF OneTaken
<1> QED
  BY <1>4, <1>6, <1>7, <1>9, <1>10 DEF order

-----------------------------------------------------------------------------
(* Types. *)

Places == {"idle", "delete", "append", "copy", "dump", "build", "tell", "held"}

\* The steps of the operations after the call.
Later(t) ==
    \/ DeleteFromDynamicAppCache(t) \/ AppendFresh(t) \/ CopyCache(t) \/ DumpCopy(t)
    \/ BuildFromCache(t) \/ BuildFromCopy(t) \/ TellGdial(t) \/ ReleaseLock(t)

\* The steps of gdial's instance.
LinkStep == LinkUp \/ LinkDown \/ Replay

\* A step is a call, a later step of one, a step of the instance, or none.
LEMMA Steps ==
    ASSUME [Next]_vars
    PROVE  \/ \E t \in Threads, r \in Requests :
                 RegisterApplications(t, r) \/ UnregisterApplications(t, r)
           \/ \E t \in Threads : Later(t)
           \/ LinkStep
           \/ UNCHANGED vars
  BY Zenon DEF Next, Later, LinkStep

\* What the deletion does, by the facts about the loop.
LEMMA Deletion ==
    ASSUME TypeOK, NoRepeat(cache), NEW t \in Threads, DeleteFromDynamicAppCache(t)
    PROVE  \/ /\ UNCHANGED <<cache, live, pc>> /\ ub' = "range"
              /\ ~NoRepeat(request[t])
           \/ /\ cache' \in Seq(Entry) /\ NoRepeat(cache')
              /\ Range(cache') \subseteq Range(cache) /\ InOrder(cache', cache)
              /\ live' = live \ (Range(cache) \ Range(cache'))
              /\ Goto(t, IF kind[t] = "register" THEN "append" ELSE "copy")
              /\ UNCHANGED ub
              /\ NoRepeat(request[t]) =>
                    /\ Unnamed(cache, request[t]) \subseteq Range(cache')
                    /\ \A n \in Range(request[t]) \cap Range(AppNames(cache)) :
                          OneTaken(cache, cache', n)
                    /\ NoRepeat(AppNames(cache)) => Range(cache') = Unnamed(cache, request[t])
<1> DEFINE order == EraseOrder(cache, request[t])
<1>1. cache \in Seq(Entry) /\ request[t] \in Seq(Apps)
  BY DEF TypeOK
<1>2. CASE OutOfRange(cache, order) /\ ub' = "range" /\ UNCHANGED <<cache, live, pc>>
  <2>1. ~NoRepeat(request[t])
    BY <1>1, <1>2, ErasedExactly
  <2> QED
    BY <1>2, <2>1
<1>3. CASE /\ ~OutOfRange(cache, order) /\ cache' = Erased(cache, order)
           /\ live' = live \ Freed(cache, order)
           /\ Goto(t, IF kind[t] = "register" THEN "append" ELSE "copy")
           /\ UNCHANGED ub
  <2>1. /\ cache' \in Seq(Entry) /\ NoRepeat(cache')
        /\ Range(cache') \subseteq Range(cache) /\ InOrder(cache', cache)
    BY <1>1, <1>3, ErasedWithin
  <2>2. live' = live \ (Range(cache) \ Range(cache'))
    BY <1>3 DEF Freed
  <2>3. ASSUME NoRepeat(request[t])
        PROVE  /\ Unnamed(cache, request[t]) \subseteq Range(cache')
               /\ \A n \in Range(request[t]) \cap Range(AppNames(cache)) :
                     OneTaken(cache, cache', n)
               /\ NoRepeat(AppNames(cache)) =>
                     Range(cache') = Unnamed(cache, request[t])
    <3> HIDE DEF order
    <3>1. /\ Unnamed(cache, request[t]) \subseteq Range(Erased(cache, order))
          /\ \A n \in Range(request[t]) \cap Range(AppNames(cache)) :
                OneTaken(cache, Erased(cache, order), n)
          /\ NoRepeat(AppNames(cache)) =>
                Range(Erased(cache, order)) =
                    Unnamed(cache, request[t])
      BY <1>1, <2>3, ErasedExactly DEF order
    <3> QED
      BY Zenon, <1>3, <3>1
  <2> QED
    BY Zenon, <1>3, <2>1, <2>2, <2>3
<1> QED
  BY Zenon, <1>2, <1>3 DEF DeleteFromDynamicAppCache

\* A sequence of entries stays one when more have been made.
LEMMA MoreEntries ==
    ASSUME serial \in Nat, NEW n \in Nat, serial' = serial + n
    PROVE  /\ Entry \subseteq Entry'
           /\ \A s \in Seq(Entry) : s \in Seq(Entry') /\ Range(s) \subseteq Entry'
           /\ \A s \in Seq(NewEntries(n)) :
                 s \in Seq(Entry') /\ Range(s) \subseteq Entry'
<1> DEFINE S == NewEntries(n)
<1>1. 1..serial \subseteq 1..serial' /\ (serial + 1)..(serial + n) \subseteq 1..serial'
  OBVIOUS
<1>2. Entry \subseteq Entry'
  BY <1>1 DEF Entry
<1>3. S \subseteq Entry'
  BY <1>1 DEF Entry, NewEntries
<1> HIDE DEF S
<1>4. ASSUME NEW T, T \subseteq Entry', NEW s \in Seq(T)
      PROVE  s \in Seq(Entry') /\ Range(s) \subseteq Entry'
  <2>1. DOMAIN s = 1..Len(s) /\ Len(s) \in Nat /\ \A i \in 1..Len(s) : s[i] \in T
    OBVIOUS
  <2>2. s \in [1..Len(s) -> Entry']
    BY <1>4, <2>1
  <2> QED
    BY <2>1, <2>2 DEF Range
<1>5. \A s \in Seq(Entry) : s \in Seq(Entry') /\ Range(s) \subseteq Entry'
  BY <1>2, <1>4
<1>6. \A s \in Seq(S) : s \in Seq(Entry') /\ Range(s) \subseteq Entry'
  BY <1>3, <1>4
<1> QED
  BY <1>2, <1>5, <1>6 DEF S

\* What a registration allocates, all of it or before malloc fails.
LEMMA Registration ==
    ASSUME TypeOK, NEW t \in Threads, NEW r \in Requests, RegisterApplications(t, r)
    PROVE  /\ pc[t] = "idle" /\ r \in Seq(Apps)
           /\ \E n \in Nat : \E made \in Seq(NewEntries(n)) :
                 /\ serial' = serial + n /\ live' = live \cup Range(made)
                 /\ \/ /\ made = Allocated(r) /\ NoRepeat(made)
                       /\ fresh' = [fresh EXCEPT ![t] = made]
                       /\ request' = [request EXCEPT ![t] = AppNames(made)]
                       /\ AppNames(made) \in Seq(KeptNames)
                       /\ crowd' = Crowding(AppNames(made))
                       /\ Goto(t, "delete") /\ UNCHANGED leaked
                    \/ /\ leaked' = leaked \cup Range(made)
                       /\ Goto(t, "copy") /\ UNCHANGED <<fresh, request, crowd>>
<1>1. serial \in Nat /\ r \in Seq(Apps) /\ pc[t] = "idle"
  BY RequestAssumption DEF TypeOK, RegisterApplications, Start
<1> DEFINE Whole == /\ fresh' = [fresh EXCEPT ![t] = Allocated(r)]
                    /\ request' = [request EXCEPT ![t] = AppNames(Allocated(r))]
                    /\ live' = live \cup Range(Allocated(r))
                    /\ serial' = serial + Len(r)
                    /\ Goto(t, "delete")
                    /\ crowd' = Crowding(AppNames(Allocated(r)))
                    /\ UNCHANGED leaked
           Part(k) == LET made == Range(Allocated(SubSeq(r, 1, k - 1))) IN
                      /\ live' = live \cup made
                      /\ leaked' = leaked \cup made
                      /\ serial' = serial + (k - 1)
                      /\ Goto(t, "copy")
                      /\ UNCHANGED <<fresh, request, crowd>>
<1>2. Whole \/ \E k \in DOMAIN r : Part(k)
  BY Zenon DEF RegisterApplications
<1>3. CASE Whole
  <2>1. /\ Allocated(r) \in Seq(NewEntries(Len(r))) /\ NoRepeat(Allocated(r))
        /\ AppNames(Allocated(r)) \in Seq(KeptNames) /\ Len(r) \in Nat
    BY <1>1, AllocatedFacts
  <2> QED
    BY Zenon, <1>1, <1>3, <2>1
<1>4. ASSUME NEW k \in DOMAIN r, Part(k)
      PROVE  \E n \in Nat : \E made \in Seq(NewEntries(n)) :
                /\ serial' = serial + n /\ live' = live \cup Range(made)
                /\ leaked' = leaked \cup Range(made)
                /\ Goto(t, "copy") /\ UNCHANGED <<fresh, request, crowd>>
  <2> DEFINE q == SubSeq(r, 1, k - 1)
  <2>1. k \in 1..Len(r) /\ Len(r) \in Nat /\ \A i \in 1..(k - 1) : r[i] \in Apps
    BY <1>1
  <2>2. q \in Seq(Apps) /\ Len(q) = k - 1 /\ k - 1 \in Nat
    <3>1. /\ SubSeq(r, 1, k - 1) \in Seq(Apps)
          /\ Len(SubSeq(r, 1, k - 1)) = IF 1 <= k - 1 THEN (k - 1) - 1 + 1 ELSE 0
      BY <2>1, SubSeqProperties
    <3> QED
      BY <2>1, <3>1
  <2> HIDE DEF q
  <2>3. Allocated(q) \in Seq(NewEntries(k - 1))
    BY <1>1, <2>2, AllocatedFacts
  <2>4. /\ live' = live \cup Range(Allocated(q)) /\ leaked' = leaked \cup Range(Allocated(q))
        /\ serial' = serial + (k - 1) /\ Goto(t, "copy")
        /\ UNCHANGED <<fresh, request, crowd>>
    BY Zenon, <1>4 DEF q
  <2> QED
    BY Zenon, <2>2, <2>3, <2>4
<1> QED
  BY Zenon, <1>1, <1>2, <1>3, <1>4

\* The three parts of the types.
HeapType ==
    /\ cache \in Seq(Entry) /\ live \subseteq Entry /\ leaked \subseteq live
    /\ serial \in Nat
    /\ fresh \in [Threads -> Seq(Entry)] /\ copy \in [Threads -> Seq(Entry)]

PlaceType ==
    /\ pc \in [Threads -> Places] /\ kind \in [Threads -> {"register", "unregister"}]
    /\ lock \in Threads \cup {NoThread}
    /\ request \in [Threads -> Seq(Apps)] /\ message \in [Threads -> Seq(KeptNames)]
    /\ link \in {"up", "down"} /\ gdialApps \in Seq(KeptNames)
    /\ calls \in 0..MaxCalls
    /\ ub \in {"no", "freed", "range"} /\ overlap \in {"none", "registers", "mixed"}
    /\ known \subseteq KeptNames /\ crowd \in [KeptNames -> Nat]

FlagType == dynamic \in BOOLEAN /\ pending \in BOOLEAN /\ repeated \in BOOLEAN

\* Every step keeps the types of the heap.
LEMMA HeapTypeKept ==
    ASSUME TypeOK, NoRepeat(cache), leaked \cap Range(cache) = {}, [Next]_vars
    PROVE  HeapType'
<1>0. HeapType
  BY DEF TypeOK, HeapType
<1>1. ASSUME NEW t \in Threads, NEW r \in Requests, RegisterApplications(t, r)
      PROVE  HeapType'
  <2>1. PICK n \in Nat :
           \E made \in Seq(NewEntries(n)) :
              /\ serial' = serial + n /\ live' = live \cup Range(made)
              /\ \/ fresh' = [fresh EXCEPT ![t] = made] /\ UNCHANGED leaked
                 \/ leaked' = leaked \cup Range(made) /\ UNCHANGED fresh
    BY <1>1, Registration
  <2>2. PICK made \in Seq(NewEntries(n)) :
              /\ serial' = serial + n /\ live' = live \cup Range(made)
              /\ \/ fresh' = [fresh EXCEPT ![t] = made] /\ UNCHANGED leaked
                 \/ leaked' = leaked \cup Range(made) /\ UNCHANGED fresh
    BY <2>1
  <2>3. /\ Entry \subseteq Entry'
        /\ \A s \in Seq(Entry) : s \in Seq(Entry')
        /\ made \in Seq(Entry') /\ Range(made) \subseteq Entry'
    BY <1>0, <2>2, MoreEntries DEF HeapType, NewEntries
  <2>4. cache' = cache /\ copy' = copy
    BY <1>1 DEF RegisterApplications, Start
  <2>5. cache' \in Seq(Entry') /\ copy' \in [Threads -> Seq(Entry')] /\ serial' \in Nat
    BY <1>0, <2>2, <2>3, <2>4 DEF HeapType
  <2>6. fresh' \in [Threads -> Seq(Entry')]
    <3>1. fresh \in [Threads -> Seq(Entry')]
      BY <1>0, <2>3 DEF HeapType
    <3> QED
      BY <2>2, <2>3, <3>1
  <2>7. live' \subseteq Entry' /\ leaked' \subseteq live'
    BY <1>0, <2>2, <2>3 DEF HeapType
  <2> QED
    BY <2>5, <2>6, <2>7 DEF HeapType
<1>2. ASSUME serial' = serial
      PROVE  Entry' = Entry
  BY <1>2 DEF Entry
<1>3. ASSUME NEW t \in Threads, NEW r \in Requests, UnregisterApplications(t, r)
      PROVE  HeapType'
  <2>1. UNCHANGED <<cache, live, leaked, serial, fresh, copy>>
    BY <1>3 DEF UnregisterApplications, Start
  <2> QED
    BY <1>0, <1>2, <2>1 DEF HeapType
<1>4. ASSUME NEW t \in Threads, DeleteFromDynamicAppCache(t)
      PROVE  HeapType'
  <2>1. UNCHANGED <<leaked, serial, fresh, copy>>
    BY <1>4 DEF DeleteFromDynamicAppCache
  <2>2. cache' \in Seq(Entry)
    BY <1>0, <1>4, Deletion DEF HeapType
  <2>3. live' = live \/ live' = live \ (Range(cache) \ Range(cache'))
    BY <1>4, Deletion
  <2> QED
    BY <1>0, <1>2, <2>1, <2>2, <2>3 DEF HeapType
<1>5. ASSUME NEW t \in Threads, AppendFresh(t)
      PROVE  HeapType'
  <2>1. /\ UNCHANGED <<live, leaked, serial, copy>>
        /\ cache' = cache \o fresh[t] /\ fresh' = [fresh EXCEPT ![t] = <<>>]
    BY <1>5 DEF AppendFresh
  <2>2. cache' \in Seq(Entry) /\ <<>> \in Seq(Entry)
    BY <1>0, <2>1 DEF HeapType
  <2> QED
    BY <1>0, <1>2, <2>1, <2>2 DEF HeapType
<1>6. ASSUME NEW t \in Threads,
             CopyCache(t) \/ DumpCopy(t) \/ BuildFromCache(t) \/ BuildFromCopy(t)
             \/ TellGdial(t) \/ ReleaseLock(t)
      PROVE  HeapType'
  <2>1. /\ UNCHANGED <<cache, live, leaked, serial, fresh>>
        /\ \/ copy' = copy \/ copy' = [copy EXCEPT ![t] = cache]
           \/ copy' = [copy EXCEPT ![t] = <<>>]
    BY <1>6 DEF CopyCache, DumpCopy, BuildFromCache, BuildFromCopy, TellGdial, ReleaseLock,
                heapVars, threadVars
  <2>2. <<>> \in Seq(Entry)
    OBVIOUS
  <2> QED
    BY <1>0, <1>2, <2>1, <2>2 DEF HeapType
<1>7. ASSUME LinkStep \/ UNCHANGED vars
      PROVE  HeapType'
  <2>1. UNCHANGED <<cache, live, leaked, serial, fresh, copy>>
    BY <1>7 DEF LinkStep, LinkUp, LinkDown, Replay, vars, heapVars, threadVars
  <2> QED
    BY <1>0, <1>2, <2>1 DEF HeapType
<1> QED
  BY <1>1, <1>3, <1>4, <1>5, <1>6, <1>7, Steps DEF Later

\* The registrations of an application can be counted, and what was counted does
\* not shrink.
LEMMA CrowdGrows ==
    ASSUME TypeOK, NEW names
    PROVE  /\ \A n : IsFiniteSet(Registering(n)) /\ Cardinality(Registering(n)) \in Nat
           /\ Crowding(names) \in [KeptNames -> Nat]
           /\ \A n \in KeptNames :
                 /\ Crowding(names)[n] >= crowd[n]
                 /\ n \in Range(names) => Crowding(names)[n] >= Cardinality(Registering(n)) + 1
<1>1. \A n : IsFiniteSet(Registering(n)) /\ Cardinality(Registering(n)) \in Nat
  <2> TAKE n
  <2>1. Registering(n) \in SUBSET Threads
    BY DEF Registering
  <2>2. IsFiniteSet(Registering(n))
    BY <2>1, ThreadAssumption, FS_Subset
  <2> QED
    BY <2>2, FS_CardinalityType
<1>2. crowd \in [KeptNames -> Nat]
  BY DEF TypeOK
<1> QED
  BY <1>1, <1>2 DEF Crowding

\* Every step keeps the types of the rest.
LEMMA PlaceTypeKept ==
    ASSUME TypeOK, NoRepeat(cache), [Next]_vars
    PROVE  PlaceType'
<1>0. PlaceType /\ copy \in [Threads -> Seq(Entry)] /\ cache \in Seq(Entry)
      /\ fresh \in [Threads -> Seq(Entry)]
  BY DEF TypeOK, PlaceType, Places
<1>1. ASSUME NEW s \in Seq(Entry)
      PROVE  AppNames(s) \in Seq(KeptNames) /\ Range(AppNames(s)) \subseteq KeptNames
  <2>1. \A e \in Entry : e.app \in KeptNames
    BY DEF Entry
  <2>2. AppNames(s) \in Seq(KeptNames)
    BY <2>1, NamesOf
  <2> QED
    BY <2>2 DEF Range
<1>2. ASSUME NEW t \in Threads, NEW k \in {"register", "unregister"}, NEW names, Start(t, k, names)
      PROVE  /\ lock' = lock /\ message' = message /\ link' = link /\ gdialApps' = gdialApps
             /\ calls' \in 0..MaxCalls /\ ub' = ub /\ kind' = [kind EXCEPT ![t] = k]
             /\ overlap' \in {"none", "registers", "mixed"}
  <2>1. /\ lock' = lock /\ message' = message /\ link' = link /\ gdialApps' = gdialApps
        /\ ub' = ub /\ kind' = [kind EXCEPT ![t] = k]
    BY <1>2 DEF Start, gdialVars
  <2>2. calls' \in 0..MaxCalls
    BY <1>0, <1>2, RequestAssumption DEF Start, PlaceType
  <2>3. overlap' \in {"none", "registers", "mixed"}
    BY <1>0, <1>2 DEF Start, PlaceType
  <2> QED
    BY <2>1, <2>2, <2>3
<1>3. ASSUME NEW t \in Threads, NEW r \in Requests, RegisterApplications(t, r)
      PROVE  PlaceType'
  <2>1. Start(t, "register", AppNames(Allocated(r))) /\ known' = known
    BY <1>3 DEF RegisterApplications
  <2>2. \/ Goto(t, "delete") /\ \E q \in Seq(KeptNames) : request' = [request EXCEPT ![t] = q]
        \/ Goto(t, "copy") /\ request' = request
    BY <1>3, Registration
  <2>3. crowd' \in [KeptNames -> Nat]
    <3>1. crowd' = crowd \/ \E names : crowd' = Crowding(names)
      BY <1>3, Registration
    <3>2. \A names : Crowding(names) \in [KeptNames -> Nat]
      BY CrowdGrows
    <3> QED
      BY <1>0, <3>1, <3>2 DEF PlaceType
  <2>4. request' \in [Threads -> Seq(Apps)]
    <3>1. ASSUME NEW q \in Seq(KeptNames) PROVE q \in Seq(Apps)
      BY KeptAreApps
    <3> QED
      BY <1>0, <2>2, <3>1 DEF PlaceType
  <2>5. pc' \in [Threads -> Places]
    BY <1>0, <2>2 DEF PlaceType, Places, Goto
  <2> QED
    BY <1>0, <1>2, <2>1, <2>4, <2>5, <2>3 DEF PlaceType
<1>4. ASSUME NEW t \in Threads, NEW r \in Requests, UnregisterApplications(t, r)
      PROVE  PlaceType'
  <2>1. /\ Start(t, "unregister", r) /\ known' = known \ Range(r)
        /\ request' = [request EXCEPT ![t] = r] /\ Goto(t, "delete") /\ r \in Seq(Apps)
        /\ crowd' = crowd
    BY <1>4, RequestAssumption DEF UnregisterApplications
  <2>2. request' \in [Threads -> Seq(Apps)] /\ known' \subseteq KeptNames
    BY <1>0, <2>1 DEF PlaceType
  <2>3. pc' \in [Threads -> Places]
    BY <1>0, <2>1 DEF PlaceType, Places, Goto
  <2> QED
    BY <1>0, <1>2, <2>1, <2>2, <2>3 DEF PlaceType
<1>5. ASSUME NEW t \in Threads, DeleteFromDynamicAppCache(t)
      PROVE  PlaceType'
  <2>1. /\ UNCHANGED <<kind, lock, message, link, gdialApps, calls, overlap, known, crowd>>
        /\ request' = [request EXCEPT ![t] = <<>>]
        /\ ub' = "range" \/ ub' = ub
        /\ pc' = pc \/ Goto(t, "append") \/ Goto(t, "copy")
    BY <1>5 DEF DeleteFromDynamicAppCache, gdialVars, ghostVars
  <2>2. pc' \in [Threads -> Places]
    BY <1>0, <2>1 DEF PlaceType, Places, Goto
  <2>3. request' \in [Threads -> Seq(Apps)]
    <3>1. <<>> \in Seq(Apps)
      OBVIOUS
    <3> QED
      BY <1>0, <2>1, <3>1 DEF PlaceType
  <2> QED
    BY <1>0, <2>1, <2>2, <2>3 DEF PlaceType
<1>6. ASSUME NEW t \in Threads, AppendFresh(t)
      PROVE  PlaceType'
  <2>1. /\ UNCHANGED <<kind, lock, request, message, link, gdialApps, calls, ub, overlap, crowd>>
        /\ known' = known \cup Range(AppNames(fresh[t])) /\ Goto(t, "copy")
    BY <1>6 DEF AppendFresh, gdialVars
  <2>2. known' \subseteq KeptNames
    BY <1>0, <1>1, <2>1 DEF PlaceType
  <2> QED
    BY <1>0, <2>1, <2>2 DEF PlaceType, Places, Goto
<1>7. ASSUME NEW t \in Threads,
             CopyCache(t) \/ DumpCopy(t) \/ BuildFromCache(t) \/ BuildFromCopy(t)
             \/ TellGdial(t) \/ ReleaseLock(t)
      PROVE  PlaceType'
  <2>1. /\ UNCHANGED <<kind, request, link, calls, overlap, known, crowd>>
        /\ lock' = lock \/ lock' = t \/ lock' = NoThread
        /\ \/ message' = message \/ message' = [message EXCEPT ![t] = AppNames(cache)]
           \/ message' = [message EXCEPT ![t] = AppNames(copy[t])]
           \/ message' = [message EXCEPT ![t] = <<>>]
        /\ gdialApps' = gdialApps \/ gdialApps' = message[t]
        /\ ub' \in {ub, "no", "freed"}
        /\ \E p \in Places : Goto(t, p)
    BY <1>7 DEF CopyCache, DumpCopy, BuildFromCache, BuildFromCopy, TellGdial, ReleaseLock,
                ReadCopy, heapVars, threadVars, gdialVars, ghostVars, Places
  <2>2. AppNames(cache) \in Seq(KeptNames) /\ AppNames(copy[t]) \in Seq(KeptNames)
        /\ <<>> \in Seq(KeptNames)
    BY <1>0, <1>1
  <2>3. message' \in [Threads -> Seq(KeptNames)]
    BY <1>0, <2>1, <2>2 DEF PlaceType
  <2>4. pc' \in [Threads -> Places]
    BY <1>0, <2>1 DEF PlaceType, Goto
  <2>5. /\ lock' \in Threads \cup {NoThread} /\ ub' \in {"no", "freed", "range"}
        /\ gdialApps' \in Seq(KeptNames)
    BY <1>0, <2>1 DEF PlaceType
  <2> QED
    BY <1>0, <2>1, <2>3, <2>4, <2>5 DEF PlaceType
<1>8. ASSUME LinkStep
      PROVE  PlaceType'
  <2>1. /\ UNCHANGED <<pc, kind, lock, request, message, ub, overlap, known, crowd>>
        /\ link' \in {"up", "down"}
        /\ gdialApps' \in {gdialApps, <<>>, AppNames(cache)}
        /\ calls' = calls \/ (calls < MaxCalls /\ calls' = calls + 1)
    BY <1>0, <1>8 DEF LinkStep, LinkUp, LinkDown, Replay, heapVars, threadVars, ghostVars,
                      PlaceType
  <2>2. AppNames(cache) \in Seq(KeptNames) /\ <<>> \in Seq(KeptNames)
    BY <1>0, <1>1
  <2>3. calls' \in 0..MaxCalls
    BY <1>0, <2>1, RequestAssumption DEF PlaceType
  <2> QED
    BY <1>0, <2>1, <2>2, <2>3 DEF PlaceType
<1>9. ASSUME UNCHANGED vars
      PROVE  PlaceType'
  BY <1>0, <1>9 DEF vars, heapVars, threadVars, gdialVars, ghostVars, PlaceType
<1> QED
  BY <1>3, <1>4, <1>5, <1>6, <1>7, <1>8, <1>9, Steps DEF Later

\* Every step keeps the flags Boolean.
LEMMA FlagTypeKept ==
    ASSUME TypeOK, [Next]_vars
    PROVE  FlagType'
<1>0. FlagType
  BY Zenon DEF TypeOK, FlagType
<1>1. ASSUME NEW t \in Threads, NEW r \in Requests,
             RegisterApplications(t, r) \/ UnregisterApplications(t, r)
      PROVE  FlagType'
  <2>1. ASSUME NEW k, NEW names, Start(t, k, names)
        PROVE  FlagType'
    <3>1. (repeated \/ ~NoRepeat(names)) \in BOOLEAN
      OBVIOUS
    <3>2. /\ dynamic' = TRUE /\ pending' = pending
          /\ repeated' = (repeated \/ ~NoRepeat(names))
      BY Zenon, <2>1 DEF Start, gdialVars
    <3> QED
      BY Zenon, <1>0, <3>1, <3>2 DEF FlagType
  <2> QED
    BY Zenon, <1>1, <2>1 DEF RegisterApplications, UnregisterApplications
<1>2. ASSUME NEW t \in Threads, Later(t)
      PROVE  FlagType'
  <2>1. UNCHANGED <<dynamic, pending, repeated>>
    BY <1>2 DEF Later, DeleteFromDynamicAppCache, AppendFresh, CopyCache, DumpCopy,
                BuildFromCache, BuildFromCopy, TellGdial, ReleaseLock, gdialVars, ghostVars
  <2> QED
    BY Zenon, <1>0, <2>1 DEF FlagType
<1>3. ASSUME LinkUp PROVE FlagType'
  <2>1. pending' = TRUE /\ dynamic' = dynamic /\ repeated' = repeated
    BY Zenon, <1>3 DEF LinkUp, ghostVars
  <2> QED
    BY Zenon, <1>0, <2>1 DEF FlagType
<1>4. ASSUME LinkDown PROVE FlagType'
  <2>1. UNCHANGED <<dynamic, pending, repeated>>
    BY Zenon, <1>4 DEF LinkDown, ghostVars
  <2> QED
    BY Zenon, <1>0, <2>1 DEF FlagType
<1>5. ASSUME Replay PROVE FlagType'
  <2>1. pending' = FALSE /\ dynamic' = dynamic /\ repeated' = repeated
    BY Zenon, <1>5 DEF Replay, ghostVars
  <2> QED
    BY Zenon, <1>0, <2>1 DEF FlagType
<1>6. ASSUME UNCHANGED vars PROVE FlagType'
  BY Zenon, <1>0, <1>6 DEF vars, gdialVars, ghostVars, FlagType
<1> QED
  BY Zenon, <1>1, <1>2, <1>3, <1>4, <1>5, <1>6, Steps DEF LinkStep

\* Every step keeps the types.
LEMMA TypeKept ==
    ASSUME TypeOK, NoRepeat(cache), leaked \cap Range(cache) = {}, [Next]_vars
    PROVE  TypeOK'
<1>1. HeapType' /\ PlaceType' /\ FlagType'
  BY HeapTypeKept, PlaceTypeKept, FlagTypeKept
<1> QED
  BY Zenon, <1>1 DEF TypeOK, HeapType, PlaceType, FlagType, Places

-----------------------------------------------------------------------------
(* The inductive invariant. *)

\* Only an unfinished registration has entries outside the cache.
FreshOwner ==
    \A t \in Threads : fresh[t] # <<>> => kind[t] = "register" /\ pc[t] \in {"delete", "append"}

\* Every entry has its one owner, however the operations went.
Owned == Range(cache) \cup UNION {Range(fresh[t]) : t \in Threads}

Accounted ==
    /\ NoRepeat(cache)
    /\ \A t \in Threads :
          /\ NoRepeat(fresh[t])
          /\ Range(fresh[t]) \cap Range(cache) = {}
          /\ \A u \in Threads \ {t} : Range(fresh[t]) \cap Range(fresh[u]) = {}
    /\ Owned \cap leaked = {} /\ live = Owned \cup leaked

\* The mutex is held exactly while a registration tells gdial.
LockHeld ==
    /\ \A t \in Threads : lock = t <=> pc[t] \in {"tell", "held"} /\ kind[t] = "register"
    /\ \A t \in Threads : pc[t] \in {"append", "held"} => kind[t] = "register"

\* The history of overlaps says who may be busy together.
Overlaps ==
    /\ overlap = "none" => \A t, u \in Busy : t = u
    /\ overlap # "mixed" =>
          \A t \in Busy : kind[t] = "unregister" => \A u \in Busy : u = t

\* Without overlap a copy is of what the cache still owns.
CopyLive ==
    /\ overlap = "none" =>
          \A t \in Threads :
             pc[t] = "dump" \/ (pc[t] = "build" /\ kind[t] = "unregister") =>
                Range(copy[t]) \subseteq live
    /\ ub = "freed" => overlap # "none"

\* A thread at its deletion has the names of its new entries before it.
RequestHeld ==
    /\ \A t \in Threads : ub = "no" /\ pc[t] = "delete" /\ kind[t] = "register" =>
          request[t] = AppNames(fresh[t])
    /\ ~repeated => \A t \in Threads : NoRepeat(request[t]) /\ NoRepeat(AppNames(fresh[t]))
    /\ ub = "range" => repeated

\* An application's registrations have never been more at a time than was counted,
\* and what they have deleted and will append again counts as an entry already.
Appending(n) == {t \in Registering(n) : pc[t] = "append"}

Bounded(n) ==
    /\ Cardinality(Registering(n)) <= crowd[n]
    /\ Cardinality(EntriesOf(n)) + Cardinality(Appending(n)) <= crowd[n]

Crowded == ~repeated => \A n \in KeptNames : Bounded(n)

\* Before the first call there is nothing to tell.
Untouched == ~dynamic => cache = <<>> /\ Busy = {} /\ gdialApps = <<>>

\* What is on its way is the cache: under the lock always, without it while nobody
\* else is at work.
Messages ==
    /\ \A t \in Threads : kind[t] = "register" /\ pc[t] = "tell" => message[t] = AppNames(cache)
    /\ overlap # "mixed" =>
          \A t \in Threads : kind[t] = "unregister" =>
             /\ pc[t] \in {"dump", "build"} => copy[t] = cache
             /\ pc[t] = "tell" => message[t] = AppNames(cache)

\* Gdial has been told the cache, or somebody is about to tell it.
StillToTell(t) == pc[t] # "idle" /\ (kind[t] = "register" => pc[t] # "held")

Told ==
    overlap # "mixed" /\ link = "up" /\ ~pending =>
        gdialApps = AppNames(cache) \/ \E t \in Threads : StillToTell(t)

\* Who is registered has an entry, or will have one again.
Findable ==
    ~repeated /\ overlap # "mixed" =>
        /\ \A n \in known : n \in Range(AppNames(cache)) \/ BeingReplaced(n)
        /\ \A t \in Threads : pc[t] = "delete" /\ kind[t] = "unregister" =>
              known \cap Range(request[t]) = {}

\* Who has an entry is registered, or about to lose it, or has had one to spare.
Listed ==
    ~repeated => \A n \in Range(AppNames(cache)) :
                    n \in known \/ BeingDeleted(n) \/ crowd[n] > 1

IInv ==
    /\ TypeOK /\ FreshOwner /\ Accounted /\ LockHeld /\ Overlaps /\ CopyLive
    /\ RequestHeld /\ Crowded /\ Untouched /\ Messages /\ Told /\ Findable /\ Listed

-----------------------------------------------------------------------------
(* Entries and their owners. *)

\* Every step keeps the owner of the new entries.
LEMMA FreshOwnerKept ==
    ASSUME TypeOK, NoRepeat(cache), FreshOwner, LockHeld, [Next]_vars
    PROVE  FreshOwner'
<1>0. /\ pc \in [Threads -> Places] /\ kind \in [Threads -> {"register", "unregister"}]
      /\ fresh \in [Threads -> Seq(Entry)]
  BY DEF TypeOK, Places
<1>1. ASSUME NEW t \in Threads, NEW r \in Requests, RegisterApplications(t, r)
      PROVE  FreshOwner'
  <2>1. /\ pc[t] = "idle" /\ kind' = [kind EXCEPT ![t] = "register"]
        /\ \/ Goto(t, "delete") /\ \E made : fresh' = [fresh EXCEPT ![t] = made]
           \/ Goto(t, "copy") /\ UNCHANGED fresh
    BY <1>1, Registration DEF RegisterApplications, Start
  <2> QED
    BY <1>0, <2>1 DEF FreshOwner, Goto
<1>2. ASSUME NEW t \in Threads, NEW r \in Requests, UnregisterApplications(t, r)
      PROVE  FreshOwner'
  <2>1. /\ pc[t] = "idle" /\ kind' = [kind EXCEPT ![t] = "unregister"]
        /\ Goto(t, "delete") /\ UNCHANGED fresh
    BY <1>2 DEF UnregisterApplications, Start
  <2> QED
    BY <1>0, <2>1 DEF FreshOwner, Goto
<1>3. ASSUME NEW t \in Threads, DeleteFromDynamicAppCache(t)
      PROVE  FreshOwner'
  <2>1. /\ UNCHANGED <<fresh, kind>> /\ pc[t] = "delete"
        /\ pc' = pc \/ Goto(t, IF kind[t] = "register" THEN "append" ELSE "copy")
    BY <1>3 DEF DeleteFromDynamicAppCache
  <2> QED
    BY <1>0, <2>1 DEF FreshOwner, Goto
<1>4. ASSUME NEW t \in Threads, AppendFresh(t)
      PROVE  FreshOwner'
  <2>1. fresh' = [fresh EXCEPT ![t] = <<>>] /\ kind' = kind /\ Goto(t, "copy")
    BY <1>4 DEF AppendFresh
  <2> QED
    BY <1>0, <2>1 DEF FreshOwner, Goto
<1>5. ASSUME NEW t \in Threads,
             CopyCache(t) \/ DumpCopy(t) \/ BuildFromCache(t) \/ BuildFromCopy(t)
             \/ TellGdial(t) \/ ReleaseLock(t)
      PROVE  FreshOwner'
  <2>1. /\ UNCHANGED <<fresh, kind>> /\ pc[t] \notin {"delete", "append"}
        /\ \E p \in Places : Goto(t, p)
    BY <1>5 DEF CopyCache, DumpCopy, BuildFromCache, BuildFromCopy, TellGdial, ReleaseLock,
                threadVars, Places
  <2> QED
    BY <1>0, <2>1 DEF FreshOwner, Goto
<1>6. ASSUME LinkStep \/ UNCHANGED vars
      PROVE  FreshOwner'
  BY <1>6 DEF LinkStep, LinkUp, LinkDown, Replay, vars, threadVars, FreshOwner
<1> QED
  BY <1>1, <1>2, <1>3, <1>4, <1>5, <1>6, Steps DEF Later

\* Every step keeps each entry with one owner.
LEMMA AccountedKept ==
    ASSUME TypeOK, FreshOwner, Accounted, [Next]_vars
    PROVE  Accounted'
<1>0. /\ pc \in [Threads -> Places] /\ kind \in [Threads -> {"register", "unregister"}]
      /\ fresh \in [Threads -> Seq(Entry)] /\ cache \in Seq(Entry)
      /\ live \subseteq Entry /\ serial \in Nat
  BY DEF TypeOK, Places
<1>1. /\ NoRepeat(cache)
      /\ \A t \in Threads : NoRepeat(fresh[t]) /\ Range(fresh[t]) \cap Range(cache) = {}
      /\ \A t, u \in Threads : t # u => Range(fresh[t]) \cap Range(fresh[u]) = {}
      /\ Range(cache) \cap leaked = {}
      /\ \A t \in Threads : Range(fresh[t]) \cap leaked = {}
      /\ \A e : e \in live <=> \/ e \in Range(cache) \/ e \in leaked
                               \/ \E t \in Threads : e \in Range(fresh[t])
  BY DEF Accounted, Owned
\* The same of the next state is what is to be shown.
<1> DEFINE Goal ==
      /\ NoRepeat(cache')
      /\ \A t \in Threads : NoRepeat(fresh'[t]) /\ Range(fresh'[t]) \cap Range(cache') = {}
      /\ \A t, u \in Threads : t # u => Range(fresh'[t]) \cap Range(fresh'[u]) = {}
      /\ Range(cache') \cap leaked' = {}
      /\ \A t \in Threads : Range(fresh'[t]) \cap leaked' = {}
      /\ \A e : e \in live' <=> \/ e \in Range(cache') \/ e \in leaked'
                                \/ \E t \in Threads : e \in Range(fresh'[t])
<1>2. SUFFICES Goal
  BY DEF Accounted, Owned
<1>3. NoRepeat(<<>>) /\ Range(<<>>) = {}
  BY DEF NoRepeat, Range
<1>4. ASSUME NEW t \in Threads, NEW r \in Requests, RegisterApplications(t, r)
      PROVE  Goal
  <2>0. cache' = cache
    BY <1>4 DEF RegisterApplications, Start
  <2>1. PICK n \in Nat :
           \E made \in Seq(NewEntries(n)) :
              /\ live' = live \cup Range(made) /\ pc[t] = "idle"
              /\ \/ /\ fresh' = [fresh EXCEPT ![t] = made] /\ NoRepeat(made)
                    /\ UNCHANGED leaked
                 \/ leaked' = leaked \cup Range(made) /\ UNCHANGED fresh
    BY <1>4, Registration
  <2>2. PICK made \in Seq(NewEntries(n)) :
              /\ live' = live \cup Range(made) /\ pc[t] = "idle"
              /\ \/ /\ fresh' = [fresh EXCEPT ![t] = made] /\ NoRepeat(made)
                    /\ UNCHANGED leaked
                 \/ leaked' = leaked \cup Range(made) /\ UNCHANGED fresh
    BY <2>1
  <2>3. \A e \in Range(made) : e \notin live
    <3>1. Range(made) \subseteq NewEntries(n)
      BY DEF Range
    <3>2. NewEntries(n) \cap Entry = {}
      BY <1>0 DEF NewEntries, Entry
    <3> QED
      BY <1>0, <3>1, <3>2
  <2>4. fresh[t] = <<>>
    BY <2>2 DEF FreshOwner
  <2>5. CASE fresh' = [fresh EXCEPT ![t] = made] /\ NoRepeat(made) /\ UNCHANGED leaked
    <3>1. fresh'[t] = made /\ \A u \in Threads : u # t => fresh'[u] = fresh[u]
      BY <1>0, <2>5
    <3>2. /\ Range(made) \cap Range(cache) = {} /\ Range(made) \cap leaked = {}
          /\ \A u \in Threads : Range(made) \cap Range(fresh[u]) = {}
      BY <1>1, <2>3
    <3>3. /\ NoRepeat(cache')
          /\ \A u \in Threads :
                NoRepeat(fresh'[u]) /\ Range(fresh'[u]) \cap Range(cache') = {}
      BY <1>1, <2>0, <2>5, <3>1, <3>2
    <3>4. \A u, v \in Threads : u # v => Range(fresh'[u]) \cap Range(fresh'[v]) = {}
      BY <1>1, <3>1, <3>2
    <3>5. /\ Range(cache') \cap leaked' = {}
          /\ \A u \in Threads : Range(fresh'[u]) \cap leaked' = {}
      BY <1>1, <2>0, <2>5, <3>1, <3>2
    <3>6. ASSUME NEW e
          PROVE  (\E u \in Threads : e \in Range(fresh'[u]))
                   <=> e \in Range(made) \/ \E u \in Threads : e \in Range(fresh[u])
      BY <1>3, <2>4, <3>1
    <3>7. \A e : e \in live' <=> \/ e \in Range(cache') \/ e \in leaked'
                                 \/ \E u \in Threads : e \in Range(fresh'[u])
      BY <1>1, <2>0, <2>2, <2>5, <3>6
    <3> QED
      BY <3>3, <3>4, <3>5, <3>7
  <2>6. CASE leaked' = leaked \cup Range(made) /\ UNCHANGED fresh
    BY <1>1, <2>0, <2>2, <2>3, <2>6
  <2> QED
    BY <2>2, <2>5, <2>6
<1>5. ASSUME NEW t \in Threads, DeleteFromDynamicAppCache(t)
      PROVE  Goal
  <2>1. UNCHANGED <<leaked, fresh>>
    BY <1>5 DEF DeleteFromDynamicAppCache
  <2>2. \/ cache' = cache /\ live' = live
        \/ /\ NoRepeat(cache') /\ Range(cache') \subseteq Range(cache)
           /\ live' = live \ (Range(cache) \ Range(cache'))
    BY <1>1, <1>5, Deletion
  <2> QED
    BY <1>1, <2>1, <2>2
<1>6. ASSUME NEW t \in Threads, AppendFresh(t)
      PROVE  Goal
  <2>1. /\ UNCHANGED <<live, leaked>>
        /\ cache' = cache \o fresh[t] /\ fresh' = [fresh EXCEPT ![t] = <<>>]
    BY <1>6 DEF AppendFresh
  <2>2. NoRepeat(cache') /\ Range(cache') = Range(cache) \cup Range(fresh[t])
    <3>1. fresh[t] \in Seq(Entry) /\ Range(cache) \cap Range(fresh[t]) = {}
      BY <1>0, <1>1
    <3>2. Distinct(cache) /\ Distinct(fresh[t])
      BY <1>1 DEF NoRepeat, Distinct
    <3>3. Distinct(cache') /\ Range(cache') = Range(cache) \cup Range(fresh[t])
      BY <1>0, <2>1, <3>1, <3>2, Joined
    <3> QED
      BY <3>3 DEF NoRepeat, Distinct
  <2>3. fresh'[t] = <<>> /\ \A u \in Threads : u # t => fresh'[u] = fresh[u]
    BY <1>0, <2>1
  <2>4. /\ NoRepeat(cache')
        /\ \A u \in Threads : NoRepeat(fresh'[u]) /\ Range(fresh'[u]) \cap Range(cache') = {}
    BY <1>1, <1>3, <2>2, <2>3
  <2>5. \A u, v \in Threads : u # v => Range(fresh'[u]) \cap Range(fresh'[v]) = {}
    BY <1>1, <1>3, <2>3
  <2>6. /\ Range(cache') \cap leaked' = {}
        /\ \A u \in Threads : Range(fresh'[u]) \cap leaked' = {}
    BY <1>1, <1>3, <2>1, <2>2, <2>3
  <2>7. ASSUME NEW e
        PROVE  (\E u \in Threads : e \in Range(fresh[u]))
                 <=> e \in Range(fresh[t]) \/ \E u \in Threads : e \in Range(fresh'[u])
    BY <1>3, <2>3
  <2>8. \A e : e \in live' <=> \/ e \in Range(cache') \/ e \in leaked'
                               \/ \E u \in Threads : e \in Range(fresh'[u])
    BY <1>1, <2>1, <2>2, <2>7
  <2> QED
    BY <2>4, <2>5, <2>6, <2>8
<1>7. ASSUME UNCHANGED <<cache, live, leaked, fresh>>
      PROVE  Goal
  BY <1>1, <1>7
<1>8. ASSUME NEW t \in Threads,
             \/ \E r \in Requests : UnregisterApplications(t, r)
             \/ CopyCache(t) \/ DumpCopy(t) \/ BuildFromCache(t) \/ BuildFromCopy(t)
             \/ TellGdial(t) \/ ReleaseLock(t)
      PROVE  UNCHANGED <<cache, live, leaked, fresh>>
  BY <1>8 DEF UnregisterApplications, Start, CopyCache, DumpCopy, BuildFromCache,
              BuildFromCopy, TellGdial, ReleaseLock, heapVars, threadVars
<1>9. ASSUME LinkStep \/ UNCHANGED vars
      PROVE  UNCHANGED <<cache, live, leaked, fresh>>
  BY <1>9 DEF LinkStep, LinkUp, LinkDown, Replay, vars, heapVars, threadVars
<1> HIDE DEF Goal
<1> QED
  BY <1>4, <1>5, <1>6, <1>7, <1>8, <1>9, Steps DEF Later

-----------------------------------------------------------------------------
(* Who is at work. *)

\* A call starts alone, or overlaps what is under way.
LEMMA Overlapping ==
    ASSUME NEW t \in Threads, NEW k, NEW names, Start(t, k, names)
    PROVE  /\ overlap' = "none" => overlap = "none" /\ Busy = {}
           /\ overlap' # "mixed" =>
                 /\ overlap # "mixed"
                 /\ \/ Busy = {}
                    \/ k = "register" /\ \A u \in Busy : kind[u] = "register"
<1>1. overlap' = IF Busy = {} THEN overlap
                 ELSE IF {k} \cup {kind[u] : u \in Busy} = {"register"} /\ overlap # "mixed"
                      THEN "registers" ELSE "mixed"
  BY DEF Start
<1>2. CASE Busy = {}
  BY <1>1, <1>2
<1>3. CASE /\ Busy # {} /\ {k} \cup {kind[u] : u \in Busy} = {"register"}
           /\ overlap # "mixed"
  <2>1. k = "register" /\ \A u \in Busy : kind[u] = "register"
    BY <1>3
  <2> QED
    BY <1>1, <1>3, <2>1
<1> QED
  BY <1>1, <1>2, <1>3

\* What a call does to the threads.
LEMMA Called ==
    ASSUME TypeOK, NEW t \in Threads, NEW r \in Requests,
           RegisterApplications(t, r) \/ UnregisterApplications(t, r)
    PROVE  \E k \in {"register", "unregister"} :
              /\ pc[t] = "idle" /\ ub = "no" /\ ub' = ub /\ t \notin Busy
              /\ \E names : Start(t, k, names)
              /\ kind'[t] = k /\ \A u \in Threads : u # t => kind'[u] = kind[u]
              /\ pc'[t] \in {"delete", "copy"} /\ (k = "unregister" => pc'[t] = "delete")
              /\ \A u \in Threads : u # t => pc'[u] = pc[u]
              /\ Busy' = Busy \cup {t}
<1>0. pc \in [Threads -> Places] /\ kind \in [Threads -> {"register", "unregister"}]
  BY DEF TypeOK, Places
<1>1. PICK k \in {"register", "unregister"} :
         /\ \E names : Start(t, k, names)
         /\ Goto(t, "delete") \/ (k = "register" /\ Goto(t, "copy"))
  BY Zenon DEF RegisterApplications, UnregisterApplications
<1>2. pc[t] = "idle" /\ ub = "no" /\ ub' = ub /\ kind' = [kind EXCEPT ![t] = k]
  BY <1>1 DEF Start
<1>3. /\ pc'[t] \in {"delete", "copy"} /\ (k = "unregister" => pc'[t] = "delete")
      /\ \A u \in Threads : u # t => pc'[u] = pc[u]
  BY <1>0, <1>1 DEF Goto
<1>4. kind'[t] = k /\ \A u \in Threads : u # t => kind'[u] = kind[u]
  BY <1>0, <1>2
<1>5. t \notin Busy /\ Busy' = Busy \cup {t}
  BY <1>2, <1>3 DEF Busy
<1> QED
  BY <1>1, <1>2, <1>3, <1>4, <1>5

\* The later steps keep who is at what; a thread at work has called.
LEMMA Continued ==
    ASSUME TypeOK, NEW t \in Threads, Later(t)
    PROVE  /\ UNCHANGED <<kind, overlap, dynamic, repeated, link, pending>>
           /\ ub = "no" /\ t \in Busy /\ Busy' \subseteq Busy
           /\ \A u \in Threads : u # t => pc'[u] = pc[u]
<1>1. pc \in [Threads -> Places]
  BY DEF TypeOK, Places
<1>2. /\ UNCHANGED <<kind, overlap, dynamic, repeated, link, pending>>
      /\ ub = "no" /\ pc[t] # "idle"
  BY DEF Later, DeleteFromDynamicAppCache, AppendFresh, CopyCache, DumpCopy, BuildFromCache,
         BuildFromCopy, TellGdial, ReleaseLock, ReadCopy, threadVars, gdialVars, ghostVars
<1>3. pc' = pc \/ \E p : Goto(t, p)
  BY Zenon DEF Later, DeleteFromDynamicAppCache, AppendFresh, CopyCache, DumpCopy,
               BuildFromCache, BuildFromCopy, TellGdial, ReleaseLock
<1>4. \A u \in Threads : u # t => pc'[u] = pc[u]
  BY <1>1, <1>3 DEF Goto
<1>5. t \in Busy /\ Busy' \subseteq Busy
  BY <1>2, <1>4 DEF Busy
<1> QED
  BY <1>2, <1>4, <1>5

\* Neither do those of the instance touch them, or what they work on.
LEMMA Aside ==
    ASSUME LinkStep \/ UNCHANGED vars
    PROVE  /\ UNCHANGED <<heapVars, lock, dynamic, pc, threadVars, ub, ghostVars>>
           /\ Busy' = Busy
<1>1. UNCHANGED <<heapVars, lock, dynamic, pc, threadVars, ub, ghostVars>>
  BY DEF LinkStep, LinkUp, LinkDown, Replay, vars
<1> QED
  BY <1>1 DEF Busy

\* Every step keeps the mutex with the registration that tells gdial.
LEMMA LockHeldKept ==
    ASSUME TypeOK, LockHeld, [Next]_vars
    PROVE  LockHeld'
<1>0. /\ pc \in [Threads -> Places] /\ kind \in [Threads -> {"register", "unregister"}]
      /\ NoThread \notin Threads
  BY ThreadAssumption DEF TypeOK, Places
<1>1. ASSUME NEW t \in Threads, NEW r \in Requests,
             RegisterApplications(t, r) \/ UnregisterApplications(t, r)
      PROVE  LockHeld'
  <2>1. /\ pc[t] = "idle" /\ pc'[t] \in {"delete", "copy"} /\ lock' = lock
        /\ \A u \in Threads : u # t => pc'[u] = pc[u] /\ kind'[u] = kind[u]
    BY <1>1, Called DEF Start
  <2>2. ASSUME NEW u \in Threads
        PROVE  /\ lock' = u <=> pc'[u] \in {"tell", "held"} /\ kind'[u] = "register"
               /\ pc'[u] \in {"append", "held"} => kind'[u] = "register"
    BY <2>1 DEF LockHeld
  <2> QED
    BY <2>2 DEF LockHeld
<1>2. ASSUME NEW t \in Threads, DeleteFromDynamicAppCache(t)
      PROVE  LockHeld'
  <2>1. /\ pc[t] = "delete" /\ UNCHANGED <<lock, kind>>
        /\ pc' = pc \/ Goto(t, IF kind[t] = "register" THEN "append" ELSE "copy")
    BY <1>2 DEF DeleteFromDynamicAppCache
  <2> QED
    BY <1>0, <2>1 DEF LockHeld, Goto
<1>3. ASSUME NEW t \in Threads, AppendFresh(t) \/ CopyCache(t) \/ DumpCopy(t)
      PROVE  LockHeld'
  <2>1. /\ pc[t] \in {"append", "copy", "dump"} /\ UNCHANGED <<lock, kind>>
        /\ Goto(t, "copy") \/ Goto(t, "dump") \/ Goto(t, "build")
    BY <1>3 DEF AppendFresh, CopyCache, DumpCopy, threadVars
  <2> QED
    BY <1>0, <2>1 DEF LockHeld, Goto
<1>4. ASSUME NEW t \in Threads, BuildFromCache(t)
      PROVE  LockHeld'
  <2>1. /\ kind[t] = "register" /\ lock = NoThread /\ lock' = t /\ kind' = kind
        /\ Goto(t, "tell")
    BY <1>4 DEF BuildFromCache
  <2> QED
    BY <1>0, <2>1 DEF LockHeld, Goto
<1>5. ASSUME NEW t \in Threads, BuildFromCopy(t)
      PROVE  LockHeld'
  <2>1. /\ pc[t] = "build" /\ kind[t] = "unregister" /\ UNCHANGED <<lock, kind>>
        /\ Goto(t, "tell")
    BY <1>5 DEF BuildFromCopy
  <2> QED
    BY <1>0, <2>1 DEF LockHeld, Goto
<1>6. ASSUME NEW t \in Threads, TellGdial(t)
      PROVE  LockHeld'
  <2>1. /\ pc[t] = "tell" /\ UNCHANGED <<lock, kind>>
        /\ Goto(t, IF kind[t] = "register" THEN "held" ELSE "idle")
    BY <1>6 DEF TellGdial
  <2> QED
    BY <1>0, <2>1 DEF LockHeld, Goto
<1>7. ASSUME NEW t \in Threads, ReleaseLock(t)
      PROVE  LockHeld'
  <2>1. pc[t] = "held" /\ lock' = NoThread /\ kind' = kind /\ Goto(t, "idle")
    BY <1>7 DEF ReleaseLock, threadVars
  <2> QED
    BY <1>0, <2>1 DEF LockHeld, Goto
<1>8. ASSUME LinkStep \/ UNCHANGED vars
      PROVE  LockHeld'
  BY <1>8 DEF LinkStep, LinkUp, LinkDown, Replay, vars, threadVars, LockHeld
<1> QED
  BY <1>1, <1>2, <1>3, <1>4, <1>5, <1>6, <1>7, <1>8, Steps DEF Later

\* Every step keeps the history of overlaps.
LEMMA OverlapsKept ==
    ASSUME TypeOK, Overlaps, [Next]_vars
    PROVE  Overlaps'
<1>0. Busy \subseteq Threads
  BY DEF Busy
<1>1. ASSUME NEW t \in Threads, NEW r \in Requests,
             RegisterApplications(t, r) \/ UnregisterApplications(t, r)
      PROVE  Overlaps'
  <2>1. PICK k \in {"register", "unregister"} :
              /\ t \notin Busy /\ \E names : Start(t, k, names)
              /\ kind'[t] = k /\ \A u \in Threads : u # t => kind'[u] = kind[u]
              /\ Busy' = Busy \cup {t}
    BY <1>1, Called
  <2>2. /\ overlap' = "none" => overlap = "none" /\ Busy = {}
        /\ overlap' # "mixed" =>
              /\ overlap # "mixed"
              /\ Busy = {} \/ (k = "register" /\ \A u \in Busy : kind[u] = "register")
    BY <2>1, Overlapping
  <2> QED
    BY <1>0, <2>1, <2>2 DEF Overlaps
<1>2. ASSUME NEW t \in Threads, Later(t)
      PROVE  Overlaps'
  BY <1>0, <1>2, Continued DEF Overlaps
<1>3. ASSUME LinkStep \/ UNCHANGED vars
      PROVE  Overlaps'
  BY <1>3, Aside DEF Overlaps, threadVars, ghostVars
<1> QED
  BY <1>1, <1>2, <1>3, Steps

-----------------------------------------------------------------------------
(* What the threads hold. *)

\* Every step keeps the copies live where calls do not overlap.
LEMMA CopyLiveKept ==
    ASSUME TypeOK, Accounted, Overlaps, CopyLive, [Next]_vars
    PROVE  CopyLive'
<1>0. /\ pc \in [Threads -> Places] /\ copy \in [Threads -> Seq(Entry)]
      /\ Range(cache) \subseteq live
  BY DEF TypeOK, Places, Accounted, Owned
<1>1. ASSUME NEW t \in Threads, NEW r \in Requests,
             RegisterApplications(t, r) \/ UnregisterApplications(t, r)
      PROVE  CopyLive'
  <2>1. /\ ub = "no" /\ ub' = ub /\ copy' = copy /\ pc'[t] \in {"delete", "copy"}
        /\ \A u \in Threads : u # t => pc'[u] = "idle" \/ u \in Busy
        /\ overlap' = "none" => Busy = {}
    BY <1>1, Called, Overlapping DEF Start, Busy
  <2>2. ASSUME overlap' = "none", NEW u \in Threads
        PROVE  pc'[u] \notin {"dump", "build"}
    BY <2>1, <2>2
  <2> QED
    BY <2>1, <2>2 DEF CopyLive
<1>2. ASSUME NEW t \in Threads, Later(t), overlap' = "none"
      PROVE  /\ overlap = "none" /\ ub = "no" /\ t \in Busy /\ Busy' \subseteq {t}
             /\ kind' = kind
             /\ \A u \in Threads : u # t => pc'[u] = "idle"
  BY <1>2, Continued DEF Overlaps, Busy
<1>3. ASSUME NEW t \in Threads, Later(t), ub' # "freed",
             /\ overlap' = "none"
             /\ pc'[t] = "dump" \/ (pc'[t] = "build" /\ kind[t] = "unregister")
             => Range(copy'[t]) \subseteq live'
      PROVE  CopyLive'
  BY <1>2, <1>3 DEF CopyLive
<1>4. ASSUME NEW t \in Threads, CopyCache(t)
      PROVE  CopyLive'
  <2>1. /\ copy' = [copy EXCEPT ![t] = cache] /\ live' = live /\ ub' = "no"
    BY <1>4 DEF CopyCache, heapVars
  <2>2. copy'[t] = cache
    BY <1>0, <2>1
  <2> QED
    BY <1>0, <1>3, <1>4, <2>1, <2>2 DEF Later
<1>5. ASSUME NEW t \in Threads, DumpCopy(t)
      PROVE  CopyLive'
  <2>1. /\ pc[t] = "dump" /\ copy' = copy /\ live' = live /\ ReadCopy(t) /\ Later(t)
    BY <1>5 DEF DumpCopy, heapVars, threadVars, Later
  <2>2. ASSUME overlap' = "none"
        PROVE  Range(copy[t]) \subseteq live /\ ub' = "no"
    BY <1>2, <2>1, <2>2 DEF CopyLive, ReadCopy
  <2>3. CASE overlap' = "none"
    BY <1>3, <2>1, <2>2, <2>3
  <2>4. CASE overlap' # "none"
    BY <2>4 DEF CopyLive
  <2> QED
    BY <2>3, <2>4
<1>6. ASSUME NEW t \in Threads, BuildFromCopy(t)
      PROVE  CopyLive'
  <2>1. /\ pc[t] = "build" /\ kind[t] = "unregister" /\ live' = live /\ ReadCopy(t)
        /\ Later(t) /\ Goto(t, "tell")
    BY <1>6 DEF BuildFromCopy, heapVars, Later
  <2>2. pc'[t] = "tell"
    BY <1>0, <2>1 DEF Goto
  <2>3. CASE overlap' = "none"
    <3>1. ub' = "no"
      BY <1>2, <2>1, <2>3 DEF CopyLive, ReadCopy
    <3> QED
      BY <1>3, <2>1, <2>2, <3>1
  <2>4. CASE overlap' # "none"
    BY <2>4 DEF CopyLive
  <2> QED
    BY <2>3, <2>4
<1>7. ASSUME NEW t \in Threads,
             DeleteFromDynamicAppCache(t) \/ AppendFresh(t) \/ BuildFromCache(t)
             \/ TellGdial(t) \/ ReleaseLock(t)
      PROVE  CopyLive'
  <2>1. Later(t) /\ ub' # "freed"
    BY <1>7 DEF DeleteFromDynamicAppCache, AppendFresh, BuildFromCache, TellGdial,
                ReleaseLock, Later
  <2>2. pc'[t] \notin {"dump", "build"}
    BY <1>0, <1>7 DEF DeleteFromDynamicAppCache, AppendFresh, BuildFromCache, TellGdial,
                      ReleaseLock, Goto
  <2> QED
    BY <1>3, <2>1, <2>2
<1>8. ASSUME LinkStep \/ UNCHANGED vars
      PROVE  CopyLive'
  BY <1>8, Aside DEF CopyLive, heapVars, threadVars, ghostVars
<1> QED
  BY <1>1, <1>4, <1>5, <1>6, <1>7, <1>8, Steps DEF Later

\* No name at all.
LEMMA NoNames == AppNames(<<>>) = <<>> /\ NoRepeat(<<>>) /\ Range(<<>>) = {}
  BY DEF AppNames, NoRepeat, Range

\* Every step keeps the requests what they were made for.
LEMMA RequestHeldKept ==
    ASSUME TypeOK, NoRepeat(cache), FreshOwner, RequestHeld, [Next]_vars
    PROVE  RequestHeld'
<1>0. /\ pc \in [Threads -> Places] /\ kind \in [Threads -> {"register", "unregister"}]
      /\ request \in [Threads -> Seq(Apps)] /\ fresh \in [Threads -> Seq(Entry)]
  BY DEF TypeOK, Places
<1>1. ASSUME NEW t \in Threads, NEW r \in Requests, RegisterApplications(t, r)
      PROVE  RequestHeld'
  <2>1. /\ pc[t] = "idle" /\ ub = "no" /\ ub' = "no"
        /\ kind' = [kind EXCEPT ![t] = "register"]
        /\ ~repeated' => ~repeated /\ NoRepeat(AppNames(Allocated(r)))
    BY <1>1 DEF RegisterApplications, Start
  <2>2. \/ /\ fresh' = [fresh EXCEPT ![t] = Allocated(r)]
           /\ request' = [request EXCEPT ![t] = AppNames(Allocated(r))]
           /\ Goto(t, "delete")
        \/ UNCHANGED <<fresh, request>> /\ Goto(t, "copy")
    BY <1>1, Registration
  <2>3. CASE /\ fresh' = [fresh EXCEPT ![t] = Allocated(r)]
             /\ request' = [request EXCEPT ![t] = AppNames(Allocated(r))]
             /\ Goto(t, "delete")
    BY <1>0, <2>1, <2>3 DEF RequestHeld, Goto
  <2>4. CASE UNCHANGED <<fresh, request>> /\ Goto(t, "copy")
    BY <1>0, <2>1, <2>4 DEF RequestHeld, Goto
  <2> QED
    BY <2>2, <2>3, <2>4
<1>2. ASSUME NEW t \in Threads, NEW r \in Requests, UnregisterApplications(t, r)
      PROVE  RequestHeld'
  <2>1. /\ pc[t] = "idle" /\ ub = "no" /\ ub' = "no"
        /\ kind' = [kind EXCEPT ![t] = "unregister"]
        /\ ~repeated' => ~repeated /\ NoRepeat(r)
        /\ request' = [request EXCEPT ![t] = r] /\ fresh' = fresh /\ Goto(t, "delete")
    BY <1>2 DEF UnregisterApplications, Start
  <2> QED
    BY <1>0, <2>1 DEF RequestHeld, Goto
<1>3. ASSUME NEW t \in Threads, DeleteFromDynamicAppCache(t)
      PROVE  RequestHeld'
  <2>1. /\ UNCHANGED <<kind, fresh, repeated>> /\ pc[t] = "delete" /\ ub = "no"
        /\ request' = [request EXCEPT ![t] = <<>>]
    BY <1>3 DEF DeleteFromDynamicAppCache, ghostVars
  <2>2. \/ pc' = pc /\ ub' = "range" /\ ~NoRepeat(request[t])
        \/ Goto(t, IF kind[t] = "register" THEN "append" ELSE "copy") /\ ub' = "no"
    BY <1>3, <2>1, Deletion
  <2>3. \/ pc' = pc /\ ub' = "range" /\ repeated
        \/ pc'[t] # "delete" /\ ub' = "no"
    BY <1>0, <2>2 DEF RequestHeld, Goto
  <2>4. \A u \in Threads : u # t => pc'[u] = pc[u]
    BY <1>0, <2>2 DEF Goto
  <2>5. request'[t] = <<>> /\ \A u \in Threads : u # t => request'[u] = request[u]
    BY <1>0, <2>1
  <2> QED
    BY <2>1, <2>3, <2>4, <2>5, NoNames DEF RequestHeld
<1>4. ASSUME NEW t \in Threads, AppendFresh(t)
      PROVE  RequestHeld'
  <2>1. /\ UNCHANGED <<kind, request, repeated, ub>>
        /\ fresh' = [fresh EXCEPT ![t] = <<>>] /\ Goto(t, "copy")
    BY <1>4 DEF AppendFresh
  <2> QED
    BY <1>0, <2>1, NoNames DEF RequestHeld, Goto
<1>5. ASSUME NEW t \in Threads,
             CopyCache(t) \/ DumpCopy(t) \/ BuildFromCache(t) \/ BuildFromCopy(t)
             \/ TellGdial(t) \/ ReleaseLock(t)
      PROVE  RequestHeld'
  <2>1. /\ UNCHANGED <<kind, request, fresh, repeated>> /\ ub = "no" /\ ub' # "range"
        /\ \E p \in Places \ {"delete"} : Goto(t, p)
    BY <1>5 DEF CopyCache, DumpCopy, BuildFromCache, BuildFromCopy, TellGdial, ReleaseLock,
                ReadCopy, threadVars, ghostVars, Places
  <2> QED
    BY <1>0, <2>1 DEF RequestHeld, Goto
<1>6. ASSUME LinkStep \/ UNCHANGED vars
      PROVE  RequestHeld'
  BY <1>6, Aside DEF RequestHeld, threadVars, ghostVars
<1> QED
  BY <1>1, <1>2, <1>3, <1>4, <1>5, <1>6, Steps DEF Later

-----------------------------------------------------------------------------
(* The names in the cache. *)

\* The names of a sequence are those of its entries.
LEMMA NameOfSome ==
    ASSUME NEW s \in Seq(Entry)
    PROVE  /\ AppNames(s) \in Seq(KeptNames)
           /\ \A n : n \in Range(AppNames(s)) <=> \E e \in Range(s) : e.app = n
<1>1. \A e \in Entry : e.app \in KeptNames
  BY DEF Entry
<1>2. AppNames(s) \in Seq(KeptNames) /\ Range(AppNames(s)) = {e.app : e \in Range(s)}
  BY <1>1, NamesOf
<1> QED
  BY <1>2

\* Where no request repeats a name, the deletion takes the names of the request.
LEMMA NamesDeleted ==
    ASSUME TypeOK, NoRepeat(cache), RequestHeld, ~repeated,
           NEW t \in Threads, DeleteFromDynamicAppCache(t)
    PROVE  /\ Goto(t, IF kind[t] = "register" THEN "append" ELSE "copy") /\ ub' = ub
           /\ Range(AppNames(cache')) \subseteq Range(AppNames(cache))
           /\ Range(AppNames(cache)) \ Range(request[t]) \subseteq Range(AppNames(cache'))
           /\ cache' \in Seq(Entry) /\ Range(cache') \subseteq Range(cache)
           /\ \A n \in Range(request[t]) \cap Range(AppNames(cache)) :
                 OneTaken(cache, cache', n)
<1>1. cache \in Seq(Entry) /\ NoRepeat(request[t])
  BY DEF TypeOK, RequestHeld
<1>2. /\ cache' \in Seq(Entry) /\ NoRepeat(cache') /\ Range(cache') \subseteq Range(cache)
      /\ Goto(t, IF kind[t] = "register" THEN "append" ELSE "copy") /\ ub' = ub
      /\ Unnamed(cache, request[t]) \subseteq Range(cache')
      /\ \A n \in Range(request[t]) \cap Range(AppNames(cache)) : OneTaken(cache, cache', n)
  BY Zenon, <1>1, Deletion
<1>3. \A n : n \in Range(AppNames(cache)) <=> \E e \in Range(cache) : e.app = n
  BY <1>1, NameOfSome
<1>4. \A n : n \in Range(AppNames(cache')) <=> \E e \in Range(cache') : e.app = n
  BY <1>2, NameOfSome
<1>5. Range(AppNames(cache')) \subseteq Range(AppNames(cache))
  BY <1>2, <1>3, <1>4
<1>6. Range(AppNames(cache)) \ Range(request[t]) \subseteq Range(AppNames(cache'))
  BY <1>2, <1>3, <1>4 DEF Unnamed
<1> QED
  BY <1>2, <1>5, <1>6

\* The append adds the names of the new entries.
LEMMA NamesAppended ==
    ASSUME NEW q \in Seq(Entry), NEW r \in Seq(Entry)
    PROVE  Range(AppNames(q \o r)) = Range(AppNames(q)) \cup Range(AppNames(r))
<1>1. q \o r \in Seq(Entry) /\ Range(q \o r) = Range(q) \cup Range(r)
  BY Joined
<1>2. \A n : n \in Range(AppNames(q)) <=> \E e \in Range(q) : e.app = n
  BY NameOfSome
<1>3. \A n : n \in Range(AppNames(r)) <=> \E e \in Range(r) : e.app = n
  BY NameOfSome
<1>4. \A n : n \in Range(AppNames(q \o r)) <=> \E e \in Range(q \o r) : e.app = n
  BY <1>1, NameOfSome
<1> QED
  BY <1>1, <1>2, <1>3, <1>4

\* The entries of a name can be counted.
LEMMA EntriesCounted ==
    ASSUME NEW s \in Seq(Entry), NEW n
    PROVE  IsFiniteSet(Named(s, n)) /\ Cardinality(Named(s, n)) \in Nat
<1>1. s \in Surjection(1..Len(s), Range(s)) /\ Len(s) \in Nat
  BY DEF Surjection, Range
<1>2. IsFiniteSet(1..Len(s))
  BY <1>1, FS_Interval
<1>3. IsFiniteSet(Range(s))
  BY <1>1, <1>2, FS_Surjection
<1>4. Named(s, n) \in SUBSET Range(s)
  BY DEF Named
<1>5. IsFiniteSet(Named(s, n))
  BY <1>3, <1>4, FS_Subset
<1> QED
  BY <1>5, FS_CardinalityType

\* So can those who will append.
LEMMA Counted ==
    ASSUME TypeOK, NEW n
    PROVE  /\ IsFiniteSet(Registering(n)) /\ Cardinality(Registering(n)) \in Nat
           /\ IsFiniteSet(Appending(n)) /\ Cardinality(Appending(n)) \in Nat
           /\ IsFiniteSet(EntriesOf(n)) /\ Cardinality(EntriesOf(n)) \in Nat
           /\ EntriesOf(n) = Named(cache, n)
<1>1. IsFiniteSet(Registering(n)) /\ Cardinality(Registering(n)) \in Nat
  BY CrowdGrows
<1>2. Appending(n) \in SUBSET Registering(n)
  BY DEF Appending
<1>3. IsFiniteSet(Appending(n)) /\ Cardinality(Appending(n)) \in Nat
  <2>1. IsFiniteSet(Appending(n))
    BY <1>1, <1>2, FS_Subset
  <2> QED
    BY <2>1, FS_CardinalityType
<1>4. EntriesOf(n) = Named(cache, n)
  BY DEF EntriesOf, Named
<1>5. cache \in Seq(Entry)
  BY DEF TypeOK
<1>6. IsFiniteSet(Named(cache, n)) /\ Cardinality(Named(cache, n)) \in Nat
  BY <1>5, EntriesCounted
<1> QED
  BY <1>1, <1>3, <1>4, <1>6

\* A thread without new entries registers nothing.
LEMMA NotRegistering ==
    ASSUME NEW t, fresh[t] = <<>>, NEW n
    PROVE  t \notin Registering(n)
  BY NoNames DEF Registering

\* Every step keeps the entries of an application within the count of its
\* registrations.
LEMMA CrowdedKept ==
    ASSUME TypeOK, FreshOwner, Accounted, LockHeld, RequestHeld, Crowded, [Next]_vars
    PROVE  Crowded'
<1>0. /\ pc \in [Threads -> Places] /\ kind \in [Threads -> {"register", "unregister"}]
      /\ fresh \in [Threads -> Seq(Entry)] /\ request \in [Threads -> Seq(Apps)]
      /\ cache \in Seq(Entry) /\ NoRepeat(cache) /\ crowd \in [KeptNames -> Nat]
  BY DEF TypeOK, Places, Accounted
<1>1. ASSUME NEW t \in Threads, NEW r \in Requests, RegisterApplications(t, r)
      PROVE  Crowded'
  <2>1. cache' = cache /\ pc[t] = "idle" /\ (repeated => repeated')
    BY <1>1 DEF RegisterApplications, Start
  <2> SUFFICES ASSUME ~repeated', NEW n \in KeptNames
               PROVE  Bounded(n)'
    BY DEF Crowded
  <2>2. Bounded(n)
    BY <2>1 DEF Crowded
  <2>3. fresh[t] = <<>>
    BY <2>1 DEF FreshOwner
  <2>4. t \notin Registering(n)
    BY <2>3, NotRegistering
  <2>5. EntriesOf(n)' = EntriesOf(n)
    BY <2>1 DEF EntriesOf
  <2>6. /\ Goto(t, "delete") \/ Goto(t, "copy")
        /\ \A u \in Threads : u # t => fresh'[u] = fresh[u]
    BY <1>0, <1>1, Registration
  <2>7. Appending(n)' = Appending(n)
    BY <1>0, <2>4, <2>6 DEF Appending, Registering, Goto
  <2>8. CASE fresh' = [fresh EXCEPT ![t] = Allocated(r)]
             /\ crowd' = Crowding(AppNames(Allocated(r)))
    <3> DEFINE names == AppNames(Allocated(r))
    <3>1. crowd'[n] >= crowd[n] /\ crowd'[n] \in Nat
          /\ (n \in Range(names) => crowd'[n] >= Cardinality(Registering(n)) + 1)
      BY <2>8, CrowdGrows
    <3>2. CASE n \in Range(names)
      <4>1. Registering(n)' = Registering(n) \cup {t}
        BY <1>0, <2>6, <2>8, <3>2 DEF Registering
      <4>2. Cardinality(Registering(n) \cup {t}) = Cardinality(Registering(n)) + 1
        BY <2>4, Counted, FS_AddElement
      <4> QED
        BY <1>0, <2>2, <2>5, <2>7, <3>1, <3>2, <4>1, <4>2, Counted DEF Bounded
    <3>3. CASE n \notin Range(names)
      <4>1. Registering(n)' = Registering(n)
        BY <1>0, <2>4, <2>6, <2>8, <3>3 DEF Registering
      <4> QED
        BY <1>0, <2>2, <2>5, <2>7, <3>1, <4>1, Counted DEF Bounded
    <3> QED
      BY <3>2, <3>3
  <2>9. CASE UNCHANGED <<fresh, crowd>>
    <3>1. Registering(n)' = Registering(n)
      BY <2>9 DEF Registering
    <3> QED
      BY <2>2, <2>5, <2>7, <2>9, <3>1 DEF Bounded
  <2> QED
    BY <1>1, <2>8, <2>9, Registration
<1>2. ASSUME NEW t \in Threads, NEW r \in Requests, UnregisterApplications(t, r)
      PROVE  Crowded'
  <2>1. /\ UNCHANGED <<cache, fresh, crowd>> /\ pc[t] = "idle" /\ Goto(t, "delete")
        /\ (repeated => repeated')
    BY <1>2 DEF UnregisterApplications, Start
  <2>2. ASSUME NEW n
        PROVE  /\ Registering(n)' = Registering(n) /\ EntriesOf(n)' = EntriesOf(n)
               /\ Appending(n)' = Appending(n)
    BY <1>0, <2>1 DEF Registering, EntriesOf, Appending, Goto
  <2> QED
    BY <2>1, <2>2 DEF Crowded, Bounded
<1>3. ASSUME NEW t \in Threads, DeleteFromDynamicAppCache(t)
      PROVE  Crowded'
  <2>1. UNCHANGED <<fresh, kind, crowd, repeated>> /\ pc[t] = "delete" /\ ub = "no"
    BY <1>3 DEF DeleteFromDynamicAppCache, ghostVars
  <2> SUFFICES ASSUME ~repeated, NEW n \in KeptNames
               PROVE  Bounded(n)'
    BY <2>1 DEF Crowded
  <2>2. /\ Goto(t, IF kind[t] = "register" THEN "append" ELSE "copy")
        /\ cache' \in Seq(Entry) /\ Range(cache') \subseteq Range(cache)
        /\ \A m \in Range(request[t]) \cap Range(AppNames(cache)) : OneTaken(cache, cache', m)
    BY <1>0, <1>3, NamesDeleted
  <2>3. Bounded(n) /\ Registering(n)' = Registering(n)
    BY <2>1 DEF Crowded, Registering
  <2>4. EntriesOf(n)' = Named(cache', n) /\ EntriesOf(n)' \in SUBSET EntriesOf(n)
    BY <2>2 DEF EntriesOf, Named
  <2>5. Cardinality(EntriesOf(n)') <= Cardinality(EntriesOf(n))
        /\ IsFiniteSet(EntriesOf(n)') /\ Cardinality(EntriesOf(n)') \in Nat
    <3>1. IsFiniteSet(EntriesOf(n)') /\ Cardinality(EntriesOf(n)') <= Cardinality(EntriesOf(n))
      BY <2>4, Counted, FS_Subset
    <3> QED
      BY <3>1, FS_CardinalityType
  <2>6. CASE t \notin Registering(n)
    <3>1. Appending(n)' = Appending(n)
      BY <1>0, <2>2, <2>3, <2>6 DEF Appending, Registering, Goto
    <3> QED
      BY <1>0, <2>1, <2>3, <2>5, <3>1, Counted DEF Bounded
  <2>7. CASE t \in Registering(n)
    <3>1. kind[t] = "register"
      BY <2>7, NotRegistering DEF FreshOwner
    <3>2. n \in Range(request[t])
      BY <2>1, <2>7, <3>1 DEF RequestHeld, Registering
    <3>3. Appending(n)' = Appending(n) \cup {t}
      BY <1>0, <2>2, <2>3, <2>7, <3>1 DEF Appending, Goto
    <3>4. t \notin Appending(n)
      BY <2>1 DEF Appending
    <3>5. Cardinality(Appending(n)') = Cardinality(Appending(n)) + 1
      BY <3>3, <3>4, Counted, FS_AddElement
    <3>6. CASE n \in Range(AppNames(cache))
      <4>1. PICK e \in Named(cache, n) : Named(cache', n) = Named(cache, n) \ {e}
        BY <2>2, <3>2, <3>6 DEF OneTaken
      <4>2. IsFiniteSet(Named(cache, n))
        BY <1>0, EntriesCounted
      <4>3. Cardinality(Named(cache, n) \ {e}) = Cardinality(Named(cache, n)) - 1
        BY <4>1, <4>2, FS_RemoveElement
      <4>4. Cardinality(EntriesOf(n)') = Cardinality(EntriesOf(n)) - 1
        BY <2>4, <4>1, <4>3, Counted
      <4> QED
        BY <1>0, <2>1, <2>3, <2>5, <3>5, <4>4, Counted DEF Bounded
    <3>7. CASE n \notin Range(AppNames(cache))
      <4>1. Named(cache', n) = {}
        BY <1>0, <2>2, <3>7, NameOfSome DEF Named
      <4>2. Cardinality(EntriesOf(n)') = 0
        BY <2>4, <4>1, FS_EmptySet
      <4>3. Appending(n)' \in SUBSET Registering(n)
        BY <2>3 DEF Appending
      <4>4. Cardinality(Appending(n)') <= Cardinality(Registering(n))
        BY <4>3, Counted, FS_Subset
      <4> QED
        BY <1>0, <2>1, <2>3, <3>5, <4>2, <4>4, Counted DEF Bounded
    <3> QED
      BY <3>6, <3>7
  <2> QED
    BY <2>6, <2>7
<1>4. ASSUME NEW t \in Threads, AppendFresh(t)
      PROVE  Crowded'
  <2>1. /\ UNCHANGED <<crowd, repeated>> /\ pc[t] = "append" /\ cache' = cache \o fresh[t]
        /\ fresh' = [fresh EXCEPT ![t] = <<>>] /\ Goto(t, "copy")
    BY <1>4 DEF AppendFresh
  <2> SUFFICES ASSUME ~repeated, NEW n \in KeptNames
               PROVE  Bounded(n)'
    BY <2>1 DEF Crowded
  <2>2. Bounded(n) /\ NoRepeat(AppNames(fresh[t])) /\ fresh[t] \in Seq(Entry)
    BY <1>0 DEF Crowded, RequestHeld
  <2>3. EntriesOf(n)' = EntriesOf(n) \cup Named(fresh[t], n)
    <3>1. Range(cache \o fresh[t]) = Range(cache) \cup Range(fresh[t])
      BY <1>0, <2>2, Joined
    <3> QED
      BY <2>1, <3>1 DEF EntriesOf, Named
  <2>4. fresh'[t] = <<>> /\ \A u \in Threads : u # t => fresh'[u] = fresh[u] /\ pc'[u] = pc[u]
    BY <1>0, <2>1 DEF Goto
  <2>5. Registering(n)' = Registering(n) \ {t} /\ Appending(n)' = Appending(n) \ {t}
    BY <2>4, NoNames DEF Registering, Appending
  <2>6. /\ Cardinality(Registering(n) \ {t}) <= Cardinality(Registering(n))
        /\ Cardinality(Appending(n) \ {t}) =
              IF t \in Appending(n) THEN Cardinality(Appending(n)) - 1
                                    ELSE Cardinality(Appending(n))
    <3>1. Registering(n) \ {t} \in SUBSET Registering(n)
      OBVIOUS
    <3> QED
      BY <3>1, Counted, FS_Subset, FS_RemoveElement
  <2>7. n \in Range(AppNames(fresh[t])) <=> \E e \in Range(fresh[t]) : e.app = n
    BY <2>2, NameOfSome
  <2>8. CASE t \in Appending(n)
    <3>1. PICK i \in DOMAIN fresh[t] : fresh[t][i].app = n
      BY <2>8 DEF Appending, Registering, Range, AppNames
    <3>2. \A j \in DOMAIN fresh[t] : fresh[t][j].app = n => j = i
      BY <2>2, <3>1 DEF NoRepeat, AppNames
    <3>3. Named(fresh[t], n) = {fresh[t][i]}
      BY <3>1, <3>2 DEF Named, Range
    <3>4. Cardinality(EntriesOf(n) \cup {fresh[t][i]}) \in
             {Cardinality(EntriesOf(n)), Cardinality(EntriesOf(n)) + 1}
      BY Counted, FS_AddElement
    <3>5. Cardinality(EntriesOf(n)') \in
             {Cardinality(EntriesOf(n)), Cardinality(EntriesOf(n)) + 1}
      BY <2>3, <3>3, <3>4
    <3>6. /\ Cardinality(Registering(n)') <= Cardinality(Registering(n))
          /\ Cardinality(Appending(n)') = Cardinality(Appending(n)) - 1
      BY <2>5, <2>6, <2>8
    <3>7. Cardinality(Registering(n)') \in Nat
      BY <2>5, Counted, FS_RemoveElement, FS_CardinalityType
    <3> QED
      BY <1>0, <2>1, <2>2, <3>5, <3>6, <3>7, Counted DEF Bounded
  <2>9. CASE t \notin Appending(n)
    <3>1. n \notin Range(AppNames(fresh[t]))
      BY <2>1, <2>9 DEF Appending, Registering
    <3>2. Named(fresh[t], n) = {} /\ t \notin Registering(n)
      BY <2>7, <3>1 DEF Named, Registering
    <3>3. /\ EntriesOf(n)' = EntriesOf(n) /\ Registering(n)' = Registering(n)
          /\ Appending(n)' = Appending(n)
      BY <2>3, <2>5, <2>9, <3>2
    <3> QED
      BY <2>1, <2>2, <3>3 DEF Bounded
  <2> QED
    BY <2>8, <2>9
<1>5. ASSUME NEW t \in Threads,
             CopyCache(t) \/ DumpCopy(t) \/ BuildFromCache(t) \/ BuildFromCopy(t)
             \/ TellGdial(t) \/ ReleaseLock(t)
      PROVE  Crowded'
  <2>1. /\ UNCHANGED <<cache, fresh, crowd, repeated>> /\ pc[t] # "append"
        /\ \E p \in Places \ {"append"} : Goto(t, p)
    BY <1>5 DEF CopyCache, DumpCopy, BuildFromCache, BuildFromCopy, TellGdial, ReleaseLock,
                heapVars, threadVars, ghostVars, Places
  <2>2. ASSUME NEW n
        PROVE  /\ Registering(n)' = Registering(n) /\ EntriesOf(n)' = EntriesOf(n)
               /\ Appending(n)' = Appending(n)
    BY <1>0, <2>1 DEF Registering, EntriesOf, Appending, Goto
  <2> QED
    BY <2>1, <2>2 DEF Crowded, Bounded
<1>6. ASSUME LinkStep \/ UNCHANGED vars
      PROVE  Crowded'
  <2>1. UNCHANGED <<cache, fresh, pc, crowd, repeated>>
    BY <1>6, Aside DEF heapVars, threadVars, ghostVars
  <2> QED
    BY <2>1 DEF Crowded, Bounded, Registering, EntriesOf, Appending
<1> QED
  BY <1>1, <1>2, <1>3, <1>4, <1>5, <1>6, Steps DEF Later

-----------------------------------------------------------------------------
(* What gdial is told. *)

\* Every step keeps the beginning.
LEMMA UntouchedKept ==
    ASSUME TypeOK, Untouched, [Next]_vars
    PROVE  Untouched'
<1>1. ASSUME NEW t \in Threads, NEW r \in Requests,
             RegisterApplications(t, r) \/ UnregisterApplications(t, r)
      PROVE  dynamic'
  BY Zenon, <1>1 DEF RegisterApplications, UnregisterApplications, Start
<1>2. ASSUME NEW t \in Threads, Later(t)
      PROVE  dynamic'
  BY <1>2, Continued DEF Untouched
<1>3. ASSUME LinkStep \/ UNCHANGED vars
      PROVE  Untouched'
  <2>1. UNCHANGED <<cache, dynamic>> /\ Busy' = Busy
    BY <1>3, Aside DEF heapVars
  <2>2. ~dynamic => gdialApps' = gdialApps \/ gdialApps' = <<>>
    BY <1>3 DEF LinkStep, LinkUp, LinkDown, Replay, vars, gdialVars
  <2> QED
    BY <2>1, <2>2 DEF Untouched
<1> QED
  BY <1>1, <1>2, <1>3, Steps DEF Untouched

\* Every step keeps the messages current.
LEMMA MessagesKept ==
    ASSUME TypeOK, LockHeld, Overlaps, Messages, [Next]_vars
    PROVE  Messages'
<1>0. /\ pc \in [Threads -> Places] /\ kind \in [Threads -> {"register", "unregister"}]
      /\ copy \in [Threads -> Seq(Entry)] /\ message \in [Threads -> Seq(KeptNames)]
      /\ NoThread \notin Threads
  BY ThreadAssumption DEF TypeOK, Places
<1>1. ASSUME NEW t \in Threads, NEW r \in Requests,
             RegisterApplications(t, r) \/ UnregisterApplications(t, r)
      PROVE  Messages'
  <2>1. /\ UNCHANGED <<cache, copy, message>> /\ pc'[t] \in {"delete", "copy"}
        /\ \A u \in Threads : u # t => pc'[u] = pc[u] /\ kind'[u] = kind[u]
        /\ overlap' # "mixed" => overlap # "mixed"
    BY <1>1, Called, Overlapping DEF Start
  <2> QED
    BY <2>1 DEF Messages
<1>2. ASSUME NEW t \in Threads, Later(t)
      PROVE  /\ UNCHANGED <<kind, overlap>>
             /\ overlap # "mixed" =>
                   \A u \in Threads : kind[u] = "unregister" /\ pc'[u] # "idle" => u = t
             /\ \A u \in Threads : u # t => pc'[u] = pc[u]
  BY <1>2, Continued DEF Overlaps, Busy
\* What is left to show of a thread's own step.
<1>3. ASSUME NEW t \in Threads, Later(t), UNCHANGED cache,
             \A u \in Threads : u # t => message'[u] = message[u],
             kind[t] = "register" /\ pc'[t] = "tell" => message'[t] = AppNames(cache),
             overlap # "mixed" /\ kind[t] = "unregister" =>
                /\ pc'[t] \in {"dump", "build"} => copy'[t] = cache
                /\ pc'[t] = "tell" => message'[t] = AppNames(cache)
      PROVE  Messages'
  BY <1>2, <1>3 DEF Messages
<1>4. ASSUME NEW t \in Threads, DeleteFromDynamicAppCache(t) \/ AppendFresh(t)
      PROVE  Messages'
  <2>1. Later(t) /\ lock = NoThread /\ pc'[t] \notin {"dump", "build", "tell"}
    BY <1>0, <1>4 DEF Later, DeleteFromDynamicAppCache, AppendFresh, Goto
  <2>2. \A u \in Threads : ~ (kind[u] = "register" /\ pc[u] = "tell")
    BY <1>0, <2>1 DEF LockHeld
  <2> QED
    BY <1>2, <2>1, <2>2 DEF Messages
<1>5. ASSUME NEW t \in Threads, CopyCache(t)
      PROVE  Messages'
  <2>1. /\ Later(t) /\ UNCHANGED <<cache, message>> /\ copy' = [copy EXCEPT ![t] = cache]
        /\ Goto(t, "dump")
    BY <1>5 DEF Later, CopyCache, heapVars
  <2>2. copy'[t] = cache /\ pc'[t] = "dump"
    BY <1>0, <2>1 DEF Goto
  <2> QED
    BY <1>3, <2>1, <2>2
<1>6. ASSUME NEW t \in Threads, DumpCopy(t)
      PROVE  Messages'
  <2>1. /\ Later(t) /\ UNCHANGED <<cache, message, copy>> /\ pc[t] = "dump"
        /\ Goto(t, "build")
    BY <1>6 DEF Later, DumpCopy, heapVars, threadVars
  <2>2. pc'[t] = "build"
    BY <1>0, <2>1 DEF Goto
  <2>3. overlap # "mixed" /\ kind[t] = "unregister" => copy[t] = cache
    BY <2>1 DEF Messages
  <2> QED
    BY <1>3, <2>1, <2>2, <2>3
<1>7. ASSUME NEW t \in Threads, BuildFromCache(t)
      PROVE  Messages'
  <2>1. /\ Later(t) /\ UNCHANGED cache /\ kind[t] = "register"
        /\ message' = [message EXCEPT ![t] = AppNames(cache)]
    BY <1>7 DEF Later, BuildFromCache, heapVars
  <2>2. message'[t] = AppNames(cache) /\ \A u \in Threads : u # t => message'[u] = message[u]
    BY <1>0, <2>1
  <2> QED
    BY <1>3, <2>1, <2>2
<1>8. ASSUME NEW t \in Threads, BuildFromCopy(t)
      PROVE  Messages'
  <2>1. /\ Later(t) /\ UNCHANGED cache /\ kind[t] = "unregister" /\ pc[t] = "build"
        /\ message' = [message EXCEPT ![t] = AppNames(copy[t])] /\ Goto(t, "tell")
    BY <1>8 DEF Later, BuildFromCopy, heapVars
  <2>2. /\ message'[t] = AppNames(copy[t]) /\ pc'[t] = "tell"
        /\ \A u \in Threads : u # t => message'[u] = message[u]
    BY <1>0, <2>1 DEF Goto
  <2>3. overlap # "mixed" => copy[t] = cache
    BY <2>1 DEF Messages
  <2>4. overlap # "mixed" => message'[t] = AppNames(cache)
    BY <2>2, <2>3
  <2> QED
    BY <1>3, <2>1, <2>2, <2>4
<1>9. ASSUME NEW t \in Threads, TellGdial(t) \/ ReleaseLock(t)
      PROVE  Messages'
  <2>1. /\ Later(t) /\ UNCHANGED cache
        /\ message' = message \/ message' = [message EXCEPT ![t] = <<>>]
        /\ \E p \in {"held", "idle"} : Goto(t, p)
    BY <1>9 DEF Later, TellGdial, ReleaseLock, heapVars, threadVars
  <2>2. /\ pc'[t] \in {"held", "idle"}
        /\ \A u \in Threads : u # t => message'[u] = message[u]
    BY <1>0, <2>1 DEF Goto
  <2> QED
    BY <1>3, <2>1, <2>2
<1>10. ASSUME LinkStep \/ UNCHANGED vars
       PROVE  Messages'
  BY <1>10, Aside DEF Messages, heapVars, threadVars, ghostVars
<1> QED
  BY <1>1, <1>4, <1>5, <1>6, <1>7, <1>8, <1>9, <1>10, Steps DEF Later

\* Every step keeps gdial told, or a thread about to tell it.
LEMMA ToldKept ==
    ASSUME TypeOK, LockHeld, Untouched, Messages, Told, [Next]_vars
    PROVE  Told'
<1>0. pc \in [Threads -> Places] /\ kind \in [Threads -> {"register", "unregister"}]
  BY DEF TypeOK, Places
<1>1. ASSUME NEW t \in Threads, StillToTell(t)' PROVE Told'
  BY <1>1 DEF Told
<1>2. ASSUME NEW t \in Threads, NEW r \in Requests,
             RegisterApplications(t, r) \/ UnregisterApplications(t, r)
      PROVE  Told'
  <2>1. pc'[t] \in {"delete", "copy"}
    BY <1>2, Called
  <2> QED
    BY <1>1, <2>1 DEF StillToTell
<1>3. ASSUME NEW t \in Threads,
             DeleteFromDynamicAppCache(t) \/ AppendFresh(t) \/ CopyCache(t) \/ DumpCopy(t)
             \/ BuildFromCache(t) \/ BuildFromCopy(t)
      PROVE  Told'
  <2>1. pc'[t] \notin {"idle", "held"}
    BY <1>0, <1>3 DEF DeleteFromDynamicAppCache, AppendFresh, CopyCache, DumpCopy,
                      BuildFromCache, BuildFromCopy, Goto
  <2> QED
    BY <1>1, <2>1 DEF StillToTell
<1>4. ASSUME NEW t \in Threads, TellGdial(t)
      PROVE  Told'
  <2>1. /\ pc[t] = "tell" /\ UNCHANGED <<cache, overlap, link>>
        /\ gdialApps' = IF link = "up" THEN message[t] ELSE gdialApps
    BY <1>4 DEF TellGdial, heapVars, ghostVars
  <2>2. overlap # "mixed" => message[t] = AppNames(cache)
    BY <1>0, <2>1 DEF Messages
  <2> QED
    BY <2>1, <2>2 DEF Told
<1>5. ASSUME NEW t \in Threads, ReleaseLock(t)
      PROVE  Told'
  <2>1. /\ pc[t] = "held" /\ UNCHANGED <<cache, overlap, link, pending, gdialApps, kind>>
        /\ Goto(t, "idle")
    BY <1>5 DEF ReleaseLock, heapVars, threadVars, gdialVars, ghostVars
  <2>2. kind[t] = "register"
    BY <2>1 DEF LockHeld
  <2>3. \A u \in Threads : StillToTell(u) => StillToTell(u)'
    BY <1>0, <2>1, <2>2 DEF StillToTell, Goto
  <2> QED
    BY <2>1, <2>3 DEF Told
<1>6. ASSUME LinkUp PROVE Told'
  <2>1. pending'
    BY Zenon, <1>6 DEF LinkUp
  <2> QED
    BY <2>1 DEF Told
<1>7. ASSUME LinkDown PROVE Told'
  BY <1>7 DEF LinkDown, Told
<1>8. ASSUME Replay PROVE Told'
  <2>1. /\ UNCHANGED <<cache, link, dynamic>>
        /\ gdialApps' = IF dynamic /\ link = "up" THEN AppNames(cache) ELSE gdialApps
    BY <1>8 DEF Replay, heapVars
  <2>2. CASE dynamic
    BY <2>1, <2>2 DEF Told
  <2>3. CASE ~dynamic
    BY <2>1, <2>3, NoNames DEF Told, Untouched
  <2> QED
    BY <2>2, <2>3
<1>9. ASSUME UNCHANGED vars PROVE Told'
  BY <1>9 DEF Told, StillToTell, vars, heapVars, threadVars, gdialVars, ghostVars
<1> QED
  BY <1>2, <1>3, <1>4, <1>5, <1>6, <1>7, <1>8, <1>9, Steps DEF Later, LinkStep

-----------------------------------------------------------------------------
(* Who is found. *)

\* Every step keeps the registered applications in the cache, or on their way there.
LEMMA FindableKept ==
    ASSUME TypeOK, Accounted, LockHeld, Overlaps, RequestHeld, Findable, [Next]_vars
    PROVE  Findable'
<1>0. /\ pc \in [Threads -> Places] /\ kind \in [Threads -> {"register", "unregister"}]
      /\ fresh \in [Threads -> Seq(Entry)] /\ request \in [Threads -> Seq(Apps)]
      /\ cache \in Seq(Entry) /\ NoRepeat(cache)
  BY DEF TypeOK, Places, Accounted
<1>1. ASSUME NEW t \in Threads, NEW r \in Requests,
             RegisterApplications(t, r) \/ UnregisterApplications(t, r),
             overlap' # "mixed", ~repeated'
      PROVE  /\ overlap # "mixed" /\ ~repeated /\ cache' = cache
             /\ pc[t] = "idle" /\ pc'[t] \in {"delete", "copy"}
             /\ \A u \in Threads : u # t => pc'[u] = pc[u] /\ kind'[u] = kind[u]
  BY <1>1, Called, Overlapping DEF Start, Busy
<1>2. ASSUME NEW t \in Threads, NEW r \in Requests, RegisterApplications(t, r)
      PROVE  Findable'
  <2> SUFFICES ASSUME overlap' # "mixed", ~repeated'
               PROVE  Findable'
    BY DEF Findable
  <2>1. /\ overlap # "mixed" /\ ~repeated /\ cache' = cache /\ pc[t] = "idle"
        /\ pc'[t] \in {"delete", "copy"}
        /\ \A u \in Threads : u # t => pc'[u] = pc[u] /\ kind'[u] = kind[u]
    BY <1>1, <1>2
  <2>2. /\ known' = known /\ kind'[t] = "register"
        /\ \A u \in Threads : u # t => fresh'[u] = fresh[u] /\ request'[u] = request[u]
    <3>1. known' = known /\ kind'[t] = "register"
      BY <1>0, <1>2 DEF RegisterApplications, Start
    <3>2. \/ \E made : /\ fresh' = [fresh EXCEPT ![t] = made]
                        /\ request' = [request EXCEPT ![t] = AppNames(made)]
          \/ UNCHANGED <<fresh, request>>
      BY <1>2, Registration
    <3> QED
      BY <1>0, <3>1, <3>2
  <2>3. \A n : BeingReplaced(n) => BeingReplaced(n)'
    BY <2>1, <2>2 DEF BeingReplaced
  <2> QED
    BY <2>1, <2>2, <2>3 DEF Findable
<1>3. ASSUME NEW t \in Threads, NEW r \in Requests, UnregisterApplications(t, r)
      PROVE  Findable'
  <2> SUFFICES ASSUME overlap' # "mixed", ~repeated'
               PROVE  Findable'
    BY DEF Findable
  <2>1. /\ overlap # "mixed" /\ ~repeated /\ cache' = cache /\ pc[t] = "idle"
        /\ \A u \in Threads : u # t => pc'[u] = pc[u] /\ kind'[u] = kind[u]
    BY <1>1, <1>3
  <2>2. /\ known' = known \ Range(r) /\ kind'[t] = "unregister" /\ pc'[t] = "delete"
        /\ fresh' = fresh /\ request'[t] = r
        /\ \A u \in Threads : u # t => request'[u] = request[u]
    BY <1>0, <1>3 DEF UnregisterApplications, Start, Goto
  <2>3. \A n : BeingReplaced(n) => BeingReplaced(n)'
    BY <2>1, <2>2 DEF BeingReplaced
  <2> QED
    BY <2>1, <2>2, <2>3 DEF Findable
<1>4. ASSUME NEW t \in Threads, DeleteFromDynamicAppCache(t)
      PROVE  Findable'
  <2>1. /\ UNCHANGED <<fresh, kind, known, overlap, repeated>> /\ pc[t] = "delete" /\ ub = "no"
        /\ request' = [request EXCEPT ![t] = <<>>]
    BY <1>4 DEF DeleteFromDynamicAppCache, ghostVars
  <2> SUFFICES ASSUME ~repeated
               PROVE  Findable'
    BY <2>1 DEF Findable
  <2>2. /\ Goto(t, IF kind[t] = "register" THEN "append" ELSE "copy")
        /\ Range(AppNames(cache)) \ Range(request[t]) \subseteq Range(AppNames(cache'))
    BY <1>0, <1>4, NamesDeleted
  <2>3. /\ pc'[t] = IF kind[t] = "register" THEN "append" ELSE "copy"
        /\ \A u \in Threads : u # t => pc'[u] = pc[u] /\ request'[u] = request[u]
    BY <1>0, <2>1, <2>2 DEF Goto
  <2>4. \A n : BeingReplaced(n) => BeingReplaced(n)'
    BY <2>1, <2>3 DEF BeingReplaced
  <2>5. ASSUME overlap # "mixed", NEW n \in known, n \in Range(AppNames(cache)),
               n \notin Range(AppNames(cache'))
        PROVE  BeingReplaced(n)'
    <3>1. n \in Range(request[t])
      BY <2>2, <2>5
    <3>2. kind[t] = "register"
      BY <1>0, <2>1, <2>5, <3>1 DEF Findable
    <3>3. request[t] = AppNames(fresh[t])
      BY <2>1, <3>2 DEF RequestHeld
    <3> QED
      BY <2>1, <2>3, <3>1, <3>2, <3>3 DEF BeingReplaced
  <2>6. overlap # "mixed" => \A n \in known : n \in Range(AppNames(cache')) \/ BeingReplaced(n)'
    BY <2>4, <2>5 DEF Findable
  <2>7. overlap # "mixed" =>
           \A u \in Threads : pc'[u] = "delete" /\ kind[u] = "unregister" =>
              known \cap Range(request'[u]) = {}
    BY <2>3 DEF Findable
  <2> QED
    BY <2>1, <2>6, <2>7 DEF Findable
<1>5. ASSUME NEW t \in Threads, AppendFresh(t)
      PROVE  Findable'
  <2>1. /\ UNCHANGED <<request, kind, overlap, repeated>> /\ pc[t] = "append"
        /\ known' = known \cup Range(AppNames(fresh[t]))
        /\ cache' = cache \o fresh[t]
        /\ fresh' = [fresh EXCEPT ![t] = <<>>] /\ Goto(t, "copy")
    BY <1>5 DEF AppendFresh
  <2>2. Range(AppNames(cache')) = Range(AppNames(cache)) \cup Range(AppNames(fresh[t]))
    BY <1>0, <2>1, NamesAppended
  <2>3. /\ pc'[t] = "copy"
        /\ \A u \in Threads : u # t => pc'[u] = pc[u] /\ fresh'[u] = fresh[u]
    BY <1>0, <2>1 DEF Goto
  <2>4. \A n : BeingReplaced(n) => BeingReplaced(n)' \/ n \in Range(AppNames(fresh[t]))
    BY <2>3 DEF BeingReplaced
  <2>5. overlap # "mixed" =>
           \A u \in Threads : ~ (pc'[u] = "delete" /\ kind[u] = "unregister")
    <3>1. kind[t] = "register" /\ t \in Busy
      BY <2>1 DEF LockHeld, Busy
    <3> QED
      BY <2>3, <3>1 DEF Overlaps, Busy
  <2> QED
    BY <2>1, <2>2, <2>4, <2>5 DEF Findable
<1>6. ASSUME NEW t \in Threads,
             CopyCache(t) \/ DumpCopy(t) \/ BuildFromCache(t) \/ BuildFromCopy(t)
             \/ TellGdial(t) \/ ReleaseLock(t)
      PROVE  Findable'
  <2>1. /\ UNCHANGED <<cache, request, fresh, kind, known, overlap, repeated>>
        /\ pc[t] \notin {"delete", "append"} /\ \E p \in Places \ {"delete"} : Goto(t, p)
    BY <1>6 DEF CopyCache, DumpCopy, BuildFromCache, BuildFromCopy, TellGdial, ReleaseLock,
                heapVars, threadVars, ghostVars, Places
  <2>2. /\ \A u \in Threads : pc'[u] = "delete" <=> pc[u] = "delete"
        /\ \A u \in Threads : pc[u] = "append" => pc'[u] = "append"
    BY <1>0, <2>1 DEF Goto
  <2>3. \A n : BeingReplaced(n) => BeingReplaced(n)'
    BY <2>1, <2>2 DEF BeingReplaced
  <2> QED
    BY <2>1, <2>2, <2>3 DEF Findable
<1>7. ASSUME LinkStep \/ UNCHANGED vars
      PROVE  Findable'
  <2>1. UNCHANGED <<cache, request, fresh, kind, pc, known, overlap, repeated>>
    BY <1>7, Aside DEF heapVars, threadVars, ghostVars
  <2> QED
    BY <2>1 DEF Findable, BeingReplaced
<1> QED
  BY <1>2, <1>3, <1>4, <1>5, <1>6, <1>7, Steps DEF Later

\* Every step keeps each entry to an application that is registered, about to be
\* deleted, or had several registrations at a time.
LEMMA ListedKept ==
    ASSUME TypeOK, Accounted, RequestHeld, Crowded, Listed, [Next]_vars
    PROVE  Listed'
<1>0. /\ pc \in [Threads -> Places] /\ kind \in [Threads -> {"register", "unregister"}]
      /\ fresh \in [Threads -> Seq(Entry)] /\ request \in [Threads -> Seq(Apps)]
      /\ cache \in Seq(Entry) /\ NoRepeat(cache) /\ crowd \in [KeptNames -> Nat]
  BY DEF TypeOK, Places, Accounted
<1>1. \A n \in Range(AppNames(cache)) : n \in KeptNames
  BY <1>0, NameOfSome DEF Range
<1>2. ASSUME NEW t \in Threads, NEW r \in Requests, RegisterApplications(t, r)
      PROVE  Listed'
  <2>1. /\ UNCHANGED <<cache, known>> /\ pc[t] = "idle" /\ (repeated => repeated')
        /\ kind' = [kind EXCEPT ![t] = "register"]
    BY <1>2 DEF RegisterApplications, Start
  <2>2. /\ Goto(t, "delete") \/ Goto(t, "copy")
        /\ \A u \in Threads : u # t => request'[u] = request[u]
        /\ \A n \in KeptNames : crowd'[n] >= crowd[n] /\ crowd'[n] \in Nat
    <3>1. /\ Goto(t, "delete") \/ Goto(t, "copy")
          /\ request' = request \/ \E q : request' = [request EXCEPT ![t] = q]
          /\ crowd' = crowd \/ \E names : crowd' = Crowding(names)
      BY <1>2, Registration
    <3>2. \A n \in KeptNames : crowd'[n] >= crowd[n] /\ crowd'[n] \in Nat
      BY <1>0, <3>1, CrowdGrows
    <3> QED
      BY <1>0, <3>1, <3>2
  <2>3. \A n : BeingDeleted(n) => BeingDeleted(n)'
    BY <1>0, <2>1, <2>2 DEF BeingDeleted, Goto
  <2>4. ASSUME ~repeated', NEW n \in Range(AppNames(cache))
        PROVE  n \in known' \/ BeingDeleted(n)' \/ crowd'[n] > 1
    <3>1. n \in known \/ BeingDeleted(n) \/ crowd[n] > 1
      BY <2>1, <2>4 DEF Listed
    <3>2. n \in KeptNames
      BY <1>1
    <3>3. crowd[n] > 1 => crowd'[n] > 1
      BY <1>0, <2>2, <3>2
    <3> QED
      BY <2>1, <2>3, <3>1, <3>3
  <2> QED
    BY <2>1, <2>4 DEF Listed
<1>3. ASSUME NEW t \in Threads, NEW r \in Requests, UnregisterApplications(t, r)
      PROVE  Listed'
  <2>1. /\ UNCHANGED <<cache, crowd>> /\ pc[t] = "idle" /\ (repeated => repeated')
        /\ kind' = [kind EXCEPT ![t] = "unregister"] /\ known' = known \ Range(r)
        /\ request' = [request EXCEPT ![t] = r] /\ Goto(t, "delete")
    BY <1>3 DEF UnregisterApplications, Start
  <2>2. /\ \A n : BeingDeleted(n) => BeingDeleted(n)'
        /\ \A n \in Range(r) : BeingDeleted(n)'
    BY <1>0, <2>1 DEF BeingDeleted, Goto
  <2> QED
    BY <2>1, <2>2 DEF Listed
<1>4. ASSUME NEW t \in Threads, DeleteFromDynamicAppCache(t)
      PROVE  Listed'
  <2>1. /\ UNCHANGED <<kind, known, crowd, repeated>>
        /\ request' = [request EXCEPT ![t] = <<>>]
    BY <1>4 DEF DeleteFromDynamicAppCache, ghostVars
  <2> SUFFICES ASSUME ~repeated, NEW n \in Range(AppNames(cache')), ~ (crowd[n] > 1)
               PROVE  n \in known \/ BeingDeleted(n)'
    BY <2>1 DEF Listed
  <2>2. /\ Goto(t, IF kind[t] = "register" THEN "append" ELSE "copy")
        /\ Range(AppNames(cache')) \subseteq Range(AppNames(cache))
        /\ cache' \in Seq(Entry)
        /\ \A m \in Range(request[t]) \cap Range(AppNames(cache)) : OneTaken(cache, cache', m)
    BY <1>0, <1>4, NamesDeleted
  <2>3. n \in Range(AppNames(cache)) /\ n \in KeptNames /\ crowd[n] \in Nat
    BY <1>0, <1>1, <2>2
  <2>4. n \notin Range(request[t])
    <3> SUFFICES ASSUME n \in Range(request[t]) PROVE FALSE
      OBVIOUS
    <3>1. PICK e \in Named(cache, n) : Named(cache', n) = Named(cache, n) \ {e}
      BY <2>2, <2>3 DEF OneTaken
    <3>2. PICK x \in Range(cache') : x.app = n
      BY <2>2, NameOfSome
    <3>3. x \in Named(cache, n) /\ x # e
      BY <3>1, <3>2 DEF Named
    <3>4. Cardinality(Named(cache, n)) <= 1
      BY <2>3, Counted DEF Crowded, Bounded
    <3>5. /\ IsFiniteSet(Named(cache, n) \ {e})
          /\ Cardinality(Named(cache, n) \ {e}) = Cardinality(Named(cache, n)) - 1
      BY <3>1, Counted, FS_RemoveElement
    <3>6. Cardinality(Named(cache, n) \ {e}) \in Nat
      BY <3>5, FS_CardinalityType
    <3>7. Cardinality(Named(cache, n) \ {e}) = 0
      BY <3>4, <3>5, <3>6, Counted
    <3>8. Named(cache, n) \ {e} = {}
      BY <3>5, <3>7, FS_EmptySet
    <3> QED
      BY <3>3, <3>8
  <2>5. n \in known \/ BeingDeleted(n)
    BY <2>3 DEF Listed
  <2>6. BeingDeleted(n) => BeingDeleted(n)'
    BY <1>0, <2>1, <2>2, <2>4 DEF BeingDeleted, Goto
  <2> QED
    BY <2>5, <2>6
<1>5. ASSUME NEW t \in Threads, AppendFresh(t)
      PROVE  Listed'
  <2>1. /\ UNCHANGED <<request, kind, crowd, repeated>> /\ pc[t] = "append"
        /\ known' = known \cup Range(AppNames(fresh[t]))
        /\ cache' = cache \o fresh[t] /\ Goto(t, "copy")
    BY <1>5 DEF AppendFresh
  <2>2. Range(AppNames(cache')) = Range(AppNames(cache)) \cup Range(AppNames(fresh[t]))
    BY <1>0, <2>1, NamesAppended
  <2>3. \A n : BeingDeleted(n) => BeingDeleted(n)'
    BY <1>0, <2>1 DEF BeingDeleted, Goto
  <2> QED
    BY <2>1, <2>2, <2>3 DEF Listed
<1>6. ASSUME NEW t \in Threads,
             CopyCache(t) \/ DumpCopy(t) \/ BuildFromCache(t) \/ BuildFromCopy(t)
             \/ TellGdial(t) \/ ReleaseLock(t)
      PROVE  Listed'
  <2>1. /\ UNCHANGED <<cache, request, kind, known, crowd, repeated>>
        /\ pc[t] # "delete" /\ \E p \in Places : Goto(t, p)
    BY <1>6 DEF CopyCache, DumpCopy, BuildFromCache, BuildFromCopy, TellGdial, ReleaseLock,
                heapVars, threadVars, ghostVars, Places
  <2>2. \A n : BeingDeleted(n) => BeingDeleted(n)'
    BY <1>0, <2>1 DEF BeingDeleted, Goto
  <2> QED
    BY <2>1, <2>2 DEF Listed
<1>7. ASSUME LinkStep \/ UNCHANGED vars
      PROVE  Listed'
  <2>1. UNCHANGED <<cache, request, kind, pc, known, crowd, repeated>>
    BY <1>7, Aside DEF heapVars, threadVars, ghostVars
  <2> QED
    BY <2>1 DEF Listed, BeingDeleted
<1> QED
  BY <1>2, <1>3, <1>4, <1>5, <1>6, <1>7, Steps DEF Later

\* Where the ids are distinct, the key of a name matches the entries of that name.
LEMMA KeyMatches ==
    ASSUME DistinctKeys, NEW n \in KeptNames, NEW e, e.app \in KeptNames
    PROVE  Matches(e, KeyOf(n)) <=> e.app = n
<1>1. CASE IdOf(e.app) = NoId
  BY <1>1 DEF DistinctKeys, Matches, KeyOf
<1>2. CASE IdOf(e.app) # NoId
  BY <1>2 DEF DistinctKeys, Matches, KeyOf
<1> QED
  BY <1>1, <1>2

\* The lookup finds every name of the cache under its key.
LEMMA LookupFinds ==
    ASSUME DistinctKeys, cache \in Seq(Entry), NEW n \in Range(AppNames(cache))
    PROVE  FoundName(KeyOf(n)) = {n}
<1>1. /\ Len(cache) \in Nat /\ DOMAIN cache = 1..Len(cache)
      /\ \A i \in DOMAIN cache : cache[i] \in Entry /\ cache[i].app \in KeptNames
  <2>1. \A i \in DOMAIN cache : cache[i] \in Entry
    OBVIOUS
  <2>2. \A e \in Entry : e.app \in KeptNames
    BY DEF Entry
  <2> QED
    BY <2>1, <2>2
<1>2. n \in KeptNames
  <2>1. AppNames(cache) \in Seq(KeptNames)
    BY NameOfSome
  <2> QED
    BY <2>1 DEF Range
<1>3. \A i \in DOMAIN cache : Matches(cache[i], KeyOf(n)) <=> cache[i].app = n
  BY <1>1, <1>2, KeyMatches
<1> DEFINE F == {i \in DOMAIN cache : Matches(cache[i], KeyOf(n))
                                      /\ \A j \in 1..(i - 1) : ~Matches(cache[j], KeyOf(n))}
<1>4. \E i \in DOMAIN cache : i \in F
  <2> DEFINE T == {i \in DOMAIN cache : cache[i].app = n}
  <2>1. T \subseteq Nat /\ T # {}
    BY <1>1 DEF Range, AppNames
  <2>2. PICK i \in T : \A j \in T : i <= j
    <3> HIDE DEF T
    <3> QED
      BY <2>1, LeastElement
  <2>3. ASSUME NEW j \in 1..(i - 1) PROVE ~Matches(cache[j], KeyOf(n))
    <3>1. j \in DOMAIN cache /\ j < i /\ ~ (i <= j)
      BY <1>1, <2>2
    <3> QED
      BY <1>3, <2>2, <3>1
  <2> QED
    BY <1>3, <2>2, <2>3
<1>5. \A i \in F : cache[i].app = n
  BY <1>3
<1>6. FoundName(KeyOf(n)) = {cache[i].app : i \in F}
  BY DEF FoundName
<1> HIDE DEF F
<1> QED
  BY <1>4, <1>5, <1>6

-----------------------------------------------------------------------------
(* The theorems. *)

\* The invariant holds at the start.
LEMMA InvariantInit == ASSUME Init PROVE IInv
<1>1. HeapType /\ PlaceType
  BY RequestAssumption DEF Init, HeapType, PlaceType, Places
<1>2. FlagType
  BY Zenon DEF Init, FlagType
<1>3. TypeOK
  BY Zenon, <1>1, <1>2 DEF TypeOK, HeapType, PlaceType, FlagType, Places
<1>4. /\ cache = <<>> /\ live = {} /\ leaked = {} /\ lock = NoThread /\ gdialApps = <<>>
      /\ link = "down" /\ known = {} /\ ub = "no"
      /\ \A t \in Threads : /\ pc[t] = "idle" /\ kind[t] = "register"
                            /\ fresh[t] = <<>> /\ request[t] = <<>>
  BY DEF Init
<1>5. FreshOwner /\ LockHeld /\ Overlaps /\ CopyLive /\ Messages /\ Told
  BY <1>4, ThreadAssumption DEF FreshOwner, LockHeld, Overlaps, CopyLive, Messages, Told, Busy
<1>6. RequestHeld
  BY <1>4, NoNames DEF RequestHeld
<1>7. Crowded
  <2> SUFFICES ASSUME NEW n \in KeptNames PROVE Bounded(n)
    BY DEF Crowded
  <2>1. EntriesOf(n) = {} /\ Registering(n) = {} /\ Appending(n) = {} /\ crowd[n] = 0
    BY <1>4, NoNames DEF EntriesOf, Registering, Appending, Init
  <2> QED
    BY <2>1, FS_EmptySet DEF Bounded
<1>8. Untouched
  BY <1>4 DEF Untouched, Busy
<1>9. Findable /\ Listed
  BY <1>4, NoNames DEF Findable, Listed
<1>10. Accounted
  BY <1>4, NoNames DEF Accounted, Owned
<1> QED
  BY <1>3, <1>5, <1>6, <1>7, <1>8, <1>9, <1>10 DEF IInv

\* The invariant is inductive.
LEMMA InvariantStep == ASSUME IInv, [Next]_vars PROVE IInv'
<1>1. /\ TypeOK /\ FreshOwner /\ Accounted /\ LockHeld /\ Overlaps /\ CopyLive
      /\ RequestHeld /\ Crowded /\ Untouched /\ Messages /\ Told /\ Findable /\ Listed
  BY DEF IInv
<1>2. NoRepeat(cache) /\ leaked \cap Range(cache) = {}
  BY <1>1 DEF Accounted, Owned
<1>3. TypeOK' /\ FreshOwner' /\ Accounted' /\ LockHeld'
  BY <1>1, <1>2, TypeKept, FreshOwnerKept, AccountedKept, LockHeldKept
<1>4. Overlaps' /\ CopyLive' /\ RequestHeld' /\ Crowded'
  BY <1>1, <1>2, OverlapsKept, CopyLiveKept, RequestHeldKept, CrowdedKept
<1>5. Untouched' /\ Messages' /\ Told' /\ Findable' /\ Listed'
  BY <1>1, UntouchedKept, MessagesKept, ToldKept, FindableKept, ListedKept
<1> QED
  BY Zenon, <1>3, <1>4, <1>5 DEF IInv

\* It holds in every state.
LEMMA Invariance == Spec => []IInv
<1>1. Init => IInv
  BY InvariantInit
<1>2. IInv /\ [Next]_vars => IInv'
  BY InvariantStep
<1> QED
  BY <1>1, <1>2, PTL DEF Spec

\* Every variable has its type, for any threads, applications and requests: in
\* particular the erase loop leaves a vector of entries.
THEOREM TypeCorrect == Spec => []TypeOK
<1>1. IInv => TypeOK
  BY DEF IInv
<1> QED
  BY <1>1, Invariance, PTL

\* Every entry that is allocated belongs to the cache or to one unfinished
\* registration, once, or to what a failed malloc has dropped, however many calls
\* overlap and in whatever order their steps fall.
THEOREM NoEntryLostOrFreedTwice == Spec => []EntriesAccounted
<1>1. IInv => EntriesAccounted
  BY DEF IInv, Accounted, Owned, EntriesAccounted
<1> QED
  BY <1>1, Invariance, PTL

\* A copy of the vector is read after an entry of it was freed only if two calls
\* have overlapped.
THEOREM FreedOnlyByOverlap == Spec => []FreedNeedsOverlap
<1>1. IInv => FreedNeedsOverlap
  BY DEF IInv, CopyLive, FreedNeedsOverlap
<1> QED
  BY <1>1, Invariance, PTL

\* deleteFromDynamicAppCache erases beyond the end of the vector only if a request
\* has named an application twice: the descending indices of distinct names stay
\* within what is left, whatever its length.
THEOREM ErasesWithin == Spec => []RangeNeedsRepetition
<1>1. IInv => RangeNeedsRepetition
  BY DEF IInv, RequestHeld, RangeNeedsRepetition
<1> QED
  BY <1>1, Invariance, PTL

\* An application never has more entries than registrations of it were at work at a
\* time, whatever other calls overlap them: one without such a meeting.
THEOREM EntriesAreBounded == Spec => []EntriesBoundedByOverlap
<1>1. ASSUME IInv PROVE EntriesBoundedByOverlap
  <2> SUFFICES ASSUME ~repeated, NEW n \in KeptNames
               PROVE  Cardinality(EntriesOf(n)) <= crowd[n]
    BY DEF EntriesBoundedByOverlap
  <2>1. TypeOK /\ Bounded(n)
    BY <1>1 DEF IInv, Crowded
  <2>2. Cardinality(EntriesOf(n)) \in Nat /\ Cardinality(Appending(n)) \in Nat
    BY <2>1, Counted
  <2>3. crowd[n] \in Nat
    BY <2>1 DEF TypeOK
  <2> QED
    BY <2>1, <2>2, <2>3 DEF Bounded
<1> QED
  BY <1>1, Invariance, PTL

\* When all is quiet gdial knows the names in the cache, whenever its instance came
\* and however registrations overlapped each other.
THEOREM GdialToldTheCache == Spec => []GdialListCurrent
<1>1. IInv => GdialListCurrent
  BY DEF IInv, Told, StillToTell, Busy, GdialListCurrent
<1> QED
  BY <1>1, Invariance, PTL

\* The lookup of the AppManager callback finds whoever is registered, and nobody
\* else of whom two registrations have not met, for any distinct ids.
THEOREM RegisteredAreFound == Spec => []LookupFindsRegistered
<1>1. ASSUME IInv PROVE LookupFindsRegistered
  <2> SUFFICES ASSUME DistinctKeys, ub = "no", ~repeated
               PROVE  /\ overlap # "mixed" =>
                            \A n \in known : FoundName(KeyOf(n)) = {n} \/ BeingReplaced(n)
                      /\ \A n \in Range(AppNames(cache)) :
                            n \in known \/ BeingDeleted(n) \/ crowd[n] > 1
    BY DEF LookupFindsRegistered
  <2>1. Findable /\ Listed /\ cache \in Seq(Entry)
    BY <1>1 DEF IInv, TypeOK
  <2>2. \A n \in Range(AppNames(cache)) : FoundName(KeyOf(n)) = {n}
    BY <2>1, LookupFinds
  <2> QED
    BY <2>1, <2>2 DEF Findable, Listed
<1> QED
  BY <1>1, Invariance, PTL

\* A deletion removes exactly the entries that the request names and keeps the
\* order of the rest, where neither the cache nor the request repeats a name.
THEOREM DeletionIsExact == Spec => DeletesWhatIsNamed
<1> DEFINE Exact ==
      \A t \in Threads :
          pc[t] = "delete" /\ pc'[t] # "delete"
          /\ NoRepeat(AppNames(cache)) /\ NoRepeat(request[t]) =>
             /\ Range(cache') = {e \in Range(cache) : e.app \notin Range(request[t])}
             /\ InOrder(cache', cache)
<1>1. ASSUME IInv, [Next]_vars PROVE Exact
  <2> SUFFICES ASSUME NEW t \in Threads, pc[t] = "delete", pc'[t] # "delete",
                      NoRepeat(AppNames(cache)), NoRepeat(request[t])
               PROVE  /\ Range(cache') = {e \in Range(cache) : e.app \notin Range(request[t])}
                      /\ InOrder(cache', cache)
    OBVIOUS
  <2>1. TypeOK /\ NoRepeat(cache)
    BY <1>1 DEF IInv, Accounted
  <2>2. ASSUME NEW u \in Threads, NEW r \in Requests,
               RegisterApplications(u, r) \/ UnregisterApplications(u, r)
        PROVE  FALSE
    BY <2>1, <2>2, Called
  <2>3. ASSUME LinkStep \/ UNCHANGED vars PROVE FALSE
    BY <2>3, Aside
  <2>4. Later(t)
    BY <1>1, <2>1, <2>2, <2>3, Steps, Continued
  <2>5. DeleteFromDynamicAppCache(t)
    BY <2>4 DEF Later, AppendFresh, CopyCache, DumpCopy, BuildFromCache, BuildFromCopy,
                TellGdial, ReleaseLock
  <2>6. Range(cache') = Unnamed(cache, request[t]) /\ InOrder(cache', cache)
    BY <2>1, <2>5, Deletion
  <2> QED
    BY <2>6 DEF Unnamed
<1>2. IInv /\ [Next]_vars => [Exact]_vars
  BY <1>1
<1> QED
  BY <1>2, Invariance, PTL DEF Spec, DeletesWhatIsNamed
=============================================================================
