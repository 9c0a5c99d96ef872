------------------------------ MODULE AppCache ------------------------------
(***************************************************************************)
(* The cache of dynamically registered DIAL applications of                *)
(* XCastImplementation: m_appConfigCache, a vector of pointers to malloced *)
(* entries, guarded in part by m_appConfigMutex.                           *)
(*                                                                         *)
(* RegisterApplications replaces the entries of the applications it is     *)
(* given, UnregisterApplications removes them; each copies the vector,     *)
(* logs the copy without the lock and tells gdial.  A new gdial instance   *)
(* is told the whole cache.  An entry is freed by the first of them to     *)
(* delete it, whoever still holds a copy of its pointer.                   *)
(*                                                                         *)
(* The passes around these operations are in module CastEnable; what the   *)
(* AppManager callback does with the entry it looks up is in Lifecycle.    *)
(***************************************************************************)
EXTENDS Naturals, FiniteSets, SequencesExt

CONSTANTS
    Threads,
    NoThread,
    Apps,        \* application names, as the clients give them
    Stored(_),   \* the name an entry keeps: the first 63 bytes
    IdOf(_),     \* the application id given with a name, or NoId for the empty one
    NoId,
    Requests,    \* the lists of names the clients send
    MaxCalls

ASSUME AppAssumption     == \A a \in Apps : Stored(a) \in Apps /\ Stored(Stored(a)) = Stored(a)
ASSUME RequestAssumption == Requests \subseteq Seq(Apps) /\ MaxCalls \in Nat
ASSUME ThreadAssumption  == IsFiniteSet(Threads) /\ NoThread \notin Threads

VARIABLES
    cache,       \* m_appConfigCache
    live,        \* the entries malloced and not freed
    leaked,      \* those nobody will free
    serial,      \* the number of entries malloced so far
    lock,        \* the holder of m_appConfigMutex across steps
    dynamic,     \* m_isDynamicRegistrationsRequired
    pc, kind,    \* each thread's position and operation
    request,     \* the names to delete
    fresh,       \* the new entries, not yet in the cache
    copy,        \* the copied vector
    message,     \* the names on their way to gdial
    link,        \* "up" while a gdial instance exists
    pending,     \* the timer's callback has yet to replay to it
    gdialApps,   \* the names it has been told last
    calls,
    (* undefined behaviour, at which the model stops *)
    ub,
    (* history *)
    overlap,     \* "mixed" once UnregisterApplications overlapped anything,
                 \* "registers" if only RegisterApplications did
    repeated,    \* a request has named an application twice
    known,       \* the names entered and not asked to go since
    crowd        \* for each application, the most of its registrations that were
                 \* at a time between allocating its entry and appending it

heapVars   == <<cache, live, leaked, serial>>
threadVars == <<kind, request, fresh, copy, message>>
gdialVars  == <<link, pending, gdialApps>>
ghostVars  == <<overlap, repeated, known, crowd>>
vars == <<heapVars, lock, dynamic, pc, threadVars, gdialVars, calls, ub, ghostVars>>

\* appName holds 63 bytes.
KeptNames == {Stored(a) : a \in Apps}

Entry == [id : 1..serial, app : KeptNames]
AppNames(s) == [i \in DOMAIN s |-> s[i].app]
NoRepeat(s) == \A i, j \in DOMAIN s : s[i] = s[j] => i = j

\* What q has of s is in the order of s.
InOrder(q, s) ==
    \A i, j \in DOMAIN q, m, n \in DOMAIN s :
        i < j /\ q[i] = s[m] /\ q[j] = s[n] => m < n

TypeOK ==
    /\ cache \in Seq(Entry)
    /\ live \subseteq Entry /\ leaked \subseteq live
    /\ serial \in Nat
    /\ lock \in Threads \cup {NoThread} /\ dynamic \in BOOLEAN
    /\ pc \in [Threads -> {"idle", "delete", "append", "copy", "dump", "build",
                           "tell", "held"}]
    /\ kind \in [Threads -> {"register", "unregister"}]
    /\ request \in [Threads -> Seq(Apps)]
    /\ fresh \in [Threads -> Seq(Entry)]
    /\ copy \in [Threads -> Seq(Entry)]
    /\ message \in [Threads -> Seq(KeptNames)]
    /\ link \in {"up", "down"} /\ pending \in BOOLEAN /\ gdialApps \in Seq(KeptNames)
    /\ calls \in 0..MaxCalls
    /\ ub \in {"no", "freed", "range"}
    /\ overlap \in {"none", "registers", "mixed"} /\ repeated \in BOOLEAN
    /\ known \subseteq KeptNames /\ crowd \in [KeptNames -> Nat]

Init ==
    /\ cache = <<>> /\ live = {} /\ leaked = {} /\ serial = 0
    /\ lock = NoThread /\ dynamic = FALSE
    /\ pc = [t \in Threads |-> "idle"]
    /\ kind = [t \in Threads |-> "register"]
    /\ request = [t \in Threads |-> <<>>]
    /\ fresh = [t \in Threads |-> <<>>]
    /\ copy = [t \in Threads |-> <<>>]
    /\ message = [t \in Threads |-> <<>>]
    /\ link = "down" /\ pending = FALSE /\ gdialApps = <<>>
    /\ calls = 0
    /\ ub = "no" /\ overlap = "none" /\ repeated = FALSE
    /\ known = {} /\ crowd = [n \in KeptNames |-> 0]

Goto(t, p) == pc' = [pc EXCEPT ![t] = p]

Busy == {t \in Threads : pc[t] # "idle"}

\* The registrations of an application that have yet to append its entry.
Registering(n) == {t \in Threads : n \in Range(AppNames(fresh[t]))}

\* One more for each of the names.
Crowding(names) ==
    [n \in KeptNames |->
        LET now == Cardinality(Registering(n)) + 1 IN
        IF n \in Range(names) /\ now > crowd[n] THEN now ELSE crowd[n]]

-----------------------------------------------------------------------------
(* Both operations. *)

\* A client's call; names is the list to look up.
Start(t, k, names) ==
    /\ ub = "no" /\ calls < MaxCalls /\ pc[t] = "idle"
    /\ calls' = calls + 1
    /\ dynamic' = TRUE
    /\ kind' = [kind EXCEPT ![t] = k]
    /\ repeated' = (repeated \/ ~NoRepeat(names))
    /\ overlap' = IF Busy = {} THEN overlap
                  ELSE IF {k} \cup {kind[u] : u \in Busy} = {"register"} /\ overlap # "mixed"
                       THEN "registers" ELSE "mixed"
    /\ UNCHANGED <<cache, lock, copy, message, gdialVars, ub>>

\* Mutant: the names are stored uncut.
Allocated_Uncut(r) == [i \in DOMAIN r |-> [id |-> serial + i, app |-> r[i]]]

\* The new entries of the names r.
Allocated(r) == [i \in DOMAIN r |-> [id |-> serial + i, app |-> Stored(r[i])]]

\* malloc may fail: the entries made so far are forgotten, the cache is left as
\* it is, and the call goes on to tell it to gdial.
RegisterApplications(t, r) ==
    /\ Start(t, "register", AppNames(Allocated(r)))
    /\ UNCHANGED known
    /\ \/ /\ fresh' = [fresh EXCEPT ![t] = Allocated(r)]
          /\ request' = [request EXCEPT ![t] = AppNames(Allocated(r))]
          /\ live' = live \cup Range(Allocated(r))
          /\ serial' = serial + Len(r)
          /\ Goto(t, "delete")
          /\ crowd' = Crowding(AppNames(Allocated(r)))
          /\ UNCHANGED leaked
       \/ \E k \in DOMAIN r :
             LET made == Range(Allocated(SubSeq(r, 1, k - 1))) IN
             /\ live' = live \cup made
             /\ leaked' = leaked \cup made
             /\ serial' = serial + (k - 1)
             /\ Goto(t, "copy")
             /\ UNCHANGED <<fresh, request, crowd>>

UnregisterApplications(t, r) ==
    /\ Start(t, "unregister", r)
    /\ known' = known \ Range(r)
    /\ request' = [request EXCEPT ![t] = r]
    /\ Goto(t, "delete")
    /\ UNCHANGED <<live, leaked, serial, fresh, crowd>>

-----------------------------------------------------------------------------
(* deleteFromDynamicAppCache. *)

\* The index of the first entry of a name, and the names that have one.
FirstIndex(s, a) == CHOOSE i \in DOMAIN s : s[i].app = a /\ \A j \in 1..(i - 1) : s[j].app # a

Present(s, names) == {i \in DOMAIN names : names[i] \in Range(AppNames(s))}

\* Mutant: the indices in the order of the vector.
Descending_Ascending(s, names) ==
    CHOOSE q \in SetToSeqs(Present(s, names)) :
        \A j, k \in DOMAIN q :
            j < k => FirstIndex(s, names[q[j]]) <= FirstIndex(s, names[q[k]])

\* The names present, in the order in which std::sort(greater) leaves their indices.
Descending(s, names) ==
    CHOOSE q \in SetToSeqs(Present(s, names)) :
        \A j, k \in DOMAIN q :
            j < k => FirstIndex(s, names[q[j]]) >= FirstIndex(s, names[q[k]])

\* Mutant: sorted and not erased.
Erased_Nothing(s, order) == s

\* The indices the loop erases, one after the other.
EraseOrder(s, names) ==
    LET q == Descending(s, names) IN [k \in DOMAIN q |-> FirstIndex(s, names[q[k]])]

\* An index beyond the vector, shortened by the erasures before it.
OutOfRange(s, order) == \E k \in DOMAIN order : order[k] > Len(s) - (k - 1)

Erased(s, order) ==
    LET after[k \in 0..Len(order)] ==
            IF k = 0 THEN s ELSE RemoveAt(after[k - 1], order[k])
    IN  after[Len(order)]

\* Mutant: the pointer is read after the erasure.
Freed_AfterErase(s, order) ==
    {Erased(s, order)[i] : i \in Range(order) \cap DOMAIN Erased(s, order)}

\* What each erasure takes out of the vector is freed.
Freed(s, order) == Range(s) \ Range(Erased(s, order))

DeleteFromDynamicAppCache(t) ==
    LET order == EraseOrder(cache, request[t]) IN
    /\ pc[t] = "delete" /\ lock = NoThread /\ ub = "no"
    /\ \/ /\ OutOfRange(cache, order)
          /\ ub' = "range"
          /\ UNCHANGED <<cache, live, pc>>
       \/ /\ ~OutOfRange(cache, order)
          /\ cache' = Erased(cache, order)
          /\ live' = live \ Freed(cache, order)
          /\ Goto(t, IF kind[t] = "register" THEN "append" ELSE "copy")
          /\ UNCHANGED ub
    /\ request' = [request EXCEPT ![t] = <<>>]
    /\ UNCHANGED <<leaked, serial, lock, dynamic, kind, fresh, copy, message, gdialVars,
                   calls, ghostVars>>

-----------------------------------------------------------------------------
(* The rest of the operations. *)

\* Mutant: the temporary list still owns the entries.
AppendFresh_KeepsList(t) ==
    /\ pc[t] = "append" /\ lock = NoThread /\ ub = "no"
    /\ cache' = cache \o fresh[t]
    /\ known' = known \cup Range(AppNames(fresh[t]))
    /\ Goto(t, "copy")
    /\ UNCHANGED <<live, leaked, serial, lock, dynamic, threadVars, gdialVars, calls, ub,
                   overlap, repeated, crowd>>

\* The end of updateDynamicAppCache.
AppendFresh(t) ==
    /\ pc[t] = "append" /\ lock = NoThread /\ ub = "no"
    /\ cache' = cache \o fresh[t]
    /\ known' = known \cup Range(AppNames(fresh[t]))
    /\ fresh' = [fresh EXCEPT ![t] = <<>>]
    /\ Goto(t, "copy")
    /\ UNCHANGED <<live, leaked, serial, lock, dynamic, kind, request, copy, message,
                   gdialVars, calls, ub, overlap, repeated, crowd>>

CopyCache(t) ==
    /\ pc[t] = "copy" /\ lock = NoThread /\ ub = "no"
    /\ copy' = [copy EXCEPT ![t] = cache]
    /\ Goto(t, "dump")
    /\ UNCHANGED <<heapVars, lock, dynamic, kind, request, fresh, message, gdialVars,
                   calls, ub, ghostVars>>

\* Every entry of the copy is read, without the lock.
ReadCopy(t) ==
    /\ ub = "no"
    /\ ub' = IF Range(copy[t]) \subseteq live THEN "no" ELSE "freed"

DumpCopy(t) ==
    /\ pc[t] = "dump"
    /\ ReadCopy(t)
    /\ Goto(t, "build")
    /\ UNCHANGED <<heapVars, lock, dynamic, threadVars, gdialVars, calls, ghostVars>>

\* XCastManager::registerApplications first builds the message ...
\* RegisterApplications gives it the cache, and keeps the lock till it returns.
BuildFromCache(t) ==
    /\ pc[t] = "build" /\ kind[t] = "register" /\ lock = NoThread /\ ub = "no"
    /\ lock' = t
    /\ message' = [message EXCEPT ![t] = AppNames(cache)]
    /\ copy' = [copy EXCEPT ![t] = <<>>]
    /\ Goto(t, "tell")
    /\ UNCHANGED <<heapVars, dynamic, kind, request, fresh, gdialVars, calls, ub,
                   ghostVars>>

\* UnregisterApplications gives it the copy.
BuildFromCopy(t) ==
    /\ pc[t] = "build" /\ kind[t] = "unregister"
    /\ ReadCopy(t)
    /\ message' = [message EXCEPT ![t] = AppNames(copy[t])]
    /\ copy' = [copy EXCEPT ![t] = <<>>]
    /\ Goto(t, "tell")
    /\ UNCHANGED <<heapVars, lock, dynamic, kind, request, fresh, gdialVars, calls,
                   ghostVars>>

\* ... and then, under its own lock, sends it to the instance, if there is one.
TellGdial(t) ==
    /\ pc[t] = "tell" /\ ub = "no"
    /\ gdialApps' = IF link = "up" THEN message[t] ELSE gdialApps
    /\ message' = [message EXCEPT ![t] = <<>>]
    /\ Goto(t, IF kind[t] = "register" THEN "held" ELSE "idle")
    /\ UNCHANGED <<heapVars, lock, dynamic, kind, request, fresh, copy, link, pending,
                   calls, ub, ghostVars>>

\* After the pass.
ReleaseLock(t) ==
    /\ pc[t] = "held" /\ ub = "no"
    /\ lock' = NoThread
    /\ Goto(t, "idle")
    /\ UNCHANGED <<heapVars, dynamic, threadVars, gdialVars, calls, ub, ghostVars>>

-----------------------------------------------------------------------------
(* The gdial instance, and the replay at the end of onLocateCastTimer. *)

LinkUp ==
    /\ ub = "no" /\ calls < MaxCalls /\ link = "down" /\ ~pending
    /\ calls' = calls + 1
    /\ link' = "up" /\ pending' = TRUE /\ gdialApps' = <<>>
    /\ UNCHANGED <<heapVars, lock, dynamic, pc, threadVars, ub, ghostVars>>

LinkDown ==
    /\ ub = "no" /\ calls < MaxCalls /\ link = "up"
    /\ calls' = calls + 1
    /\ link' = "down"
    /\ UNCHANGED <<heapVars, lock, dynamic, pc, threadVars, pending, gdialApps, ub,
                   ghostVars>>

\* Mutant: the applications are not replayed.
Replay_Skips ==
    /\ ub = "no" /\ pending
    /\ pending' = FALSE
    /\ UNCHANGED <<heapVars, lock, dynamic, pc, threadVars, link, gdialApps, calls, ub,
                   ghostVars>>

Replay ==
    /\ ub = "no" /\ pending
    /\ dynamic => lock = NoThread
    /\ pending' = FALSE
    /\ gdialApps' = IF dynamic /\ link = "up" THEN AppNames(cache) ELSE gdialApps
    /\ UNCHANGED <<heapVars, lock, dynamic, pc, threadVars, link, calls, ub, ghostVars>>

-----------------------------------------------------------------------------
(* The lookup in onAppLifecycleStateChanged, in one critical section. *)

\* Mutant: an application registered without an id is not matched by its name.
Matches_IdOnly(e, key) == IdOf(e.app) = key

Matches(e, key) == IdOf(e.app) = key \/ (IdOf(e.app) = NoId /\ e.app = key)

\* The id under which AppManager speaks of an application.
KeyOf(n) == IF IdOf(n) = NoId THEN n ELSE IdOf(n)

\* No two applications go by the same id, and none by the empty one.
DistinctKeys ==
    /\ NoId \notin KeptNames
    /\ \A m, n \in KeptNames : KeyOf(m) = KeyOf(n) => m = n

\* The name of the first entry that matches, if one does.
FoundName(key) ==
    {cache[i].app : i \in {i \in DOMAIN cache :
                             Matches(cache[i], key)
                             /\ \A j \in 1..(i - 1) : ~Matches(cache[j], key)}}

\* The entries of an application.
EntriesOf(n) == {e \in Range(cache) : e.app = n}

\* Deleted for a new registration, and not yet appended.
BeingReplaced(n) ==
    \E t \in Threads : pc[t] = "append" /\ n \in Range(AppNames(fresh[t]))

\* Asked to go, and not yet deleted.
BeingDeleted(n) ==
    \E t \in Threads : pc[t] = "delete" /\ kind[t] = "unregister" /\ n \in Range(request[t])

-----------------------------------------------------------------------------
Next ==
    \/ \E t \in Threads :
          \/ \E r \in Requests : RegisterApplications(t, r) \/ UnregisterApplications(t, r)
          \/ DeleteFromDynamicAppCache(t) \/ AppendFresh(t) \/ CopyCache(t) \/ DumpCopy(t)
          \/ BuildFromCache(t) \/ BuildFromCopy(t) \/ TellGdial(t) \/ ReleaseLock(t)
    \/ LinkUp \/ LinkDown \/ Replay

Spec == Init /\ [][Next]_vars

-----------------------------------------------------------------------------
(* Properties. *)

\* As long as no undefined behaviour has occurred, an entry is allocated exactly
\* while the cache or an unfinished registration owns it, once, or after a failed
\* malloc has dropped it: nothing else leaks, nothing in the cache is freed and
\* nothing will be freed twice, in whatever order the operations run.
EntriesAccounted ==
    ub = "no" =>
        /\ NoRepeat(cache)
        /\ \A t \in Threads :
              /\ NoRepeat(fresh[t])
              /\ Range(fresh[t]) \cap Range(cache) = {}
              /\ \A u \in Threads \ {t} : Range(fresh[t]) \cap Range(fresh[u]) = {}
        /\ LET owned == Range(cache) \cup UNION {Range(fresh[t]) : t \in Threads}
           IN  owned \cap leaked = {} /\ live = owned \cup leaked

\* The deletion is exact when neither the cache nor the request repeats a name:
\* what remains is what was not named, in its order.
DeletesWhatIsNamed ==
    [][\A t \in Threads :
          pc[t] = "delete" /\ pc'[t] # "delete"
          /\ NoRepeat(AppNames(cache)) /\ NoRepeat(request[t]) =>
             /\ Range(cache') = {e \in Range(cache) : e.app \notin Range(request[t])}
             /\ InOrder(cache', cache)]_vars

\* However the calls overlap, an application never has more entries than
\* registrations of it have been at work at a time: two registrations may both
\* delete before either appends, but what they leave behind does not grow with
\* further calls, and without such a meeting there is one entry.  This supposes
\* that no request repeats a name.
EntriesBoundedByOverlap ==
    ~repeated => \A n \in KeptNames : Cardinality(EntriesOf(n)) <= crowd[n]

\* When all is quiet, a gdial instance that has been replayed to knows the names
\* in the cache, however its creation fell among the steps of the calls, and even
\* after registrations that overlapped each other.
GdialListCurrent ==
    link = "up" /\ ~pending /\ Busy = {} /\ overlap # "mixed" =>
        gdialApps = AppNames(cache)

\* A freed entry is read only after two calls have overlapped.
FreedNeedsOverlap == ub = "freed" => overlap # "none"

\* The erase loop leaves the vector only when a request names an application twice.
RangeNeedsRepetition == ub = "range" => repeated

\* The lookup of the AppManager callback serves whoever is registered: as long as
\* no request repeats a name and registrations overlap only each other, each
\* application that was entered and not asked to go is found under its own id and
\* taken for no other, except while a repeated registration is between deleting
\* its entry and appending the new one.  And whatever overlaps, it finds nobody
\* else, once the deletion under way is done, unless two registrations of the
\* application have met: then a deletion leaves one of their entries behind.
\* This supposes that no two applications go by the same id.
LookupFindsRegistered ==
    DistinctKeys /\ ub = "no" /\ ~repeated =>
        /\ overlap # "mixed" =>
              \A n \in known : FoundName(KeyOf(n)) = {n} \/ BeingReplaced(n)
        /\ \A n \in Range(AppNames(cache)) :
              n \in known \/ BeingDeleted(n) \/ crowd[n] > 1
=============================================================================
