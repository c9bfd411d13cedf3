----------------------- MODULE ScrapeConfigSync_proofs -----------------------
(***************************************************************************)
(* Proofs about the synchronisation of the scrape configuration, for every *)
(* set of names, target lists and specs and every bound.                   *)
(***************************************************************************)
EXTENDS ScrapeConfigSync, FiniteSetTheorems, TLAPS

-----------------------------------------------------------------------------
(* Flattening a map in any order. *)

Published == {n \in Names : BTs[n] # NoEntry}

\* Finitely many names have an entry.
LEMMA PublishedFinite ==
  IsFiniteSet(Published) /\ Cardinality(Published) \in Nat
<1>1. IsFiniteSet(Published)
  BY NamesAssumption, FS_Subset DEF Published
<1>2. QED BY <1>1, FS_CardinalityType

\* An order of iteration visits every published name exactly once.
LEMMA OrdersAreBijections ==
  ASSUME NEW order \in SetToSeqs(Published)
  PROVE  order \in Bijection(1..Cardinality(Published), Published)
<1> DEFINE D == 1..Cardinality(Published)
<1>1. order \in Injection(D, Published)
  BY DEF SetToSeqs, Injection, IsInjective
<1>2. Cardinality(D) = Cardinality(Published)
  BY PublishedFinite, FS_Interval
<1>3. order \in Surjection(D, Published)
  BY <1>1, <1>2, PublishedFinite, FS_Injection
<1>4. QED BY <1>1, <1>3 DEF Bijection

\* A flattening is a sequence of lists.
LEMMA FlatteningTypes ==
  ASSUME BTs \in [Names -> TargetLists \cup {NoEntry}], NEW f \in Flattenings
  PROVE  f \in Seq(TargetLists)
<1>1. PICK order \in SetToSeqs(Published) : f = [i \in DOMAIN order |-> BTs[order[i]]]
  BY DEF Flattenings, Published
<1>2. order \in [1..Cardinality(Published) -> Published]
  BY DEF SetToSeqs
<1>3. f \in [1..Cardinality(Published) -> TargetLists]
  BY <1>1, <1>2 DEF Published
<1>4. QED BY <1>3, PublishedFinite

\* Each list occurs in a flattening as often as names publish it.
LEMMA OccurrencesCounted ==
  ASSUME NEW f \in Flattenings, NEW t \in TargetLists
  PROVE  Cardinality({i \in DOMAIN f : f[i] = t}) =
         Cardinality({n \in Names : BTs[n] = t})
<1>1. PICK order \in SetToSeqs(Published) : f = [i \in DOMAIN order |-> BTs[order[i]]]
  BY DEF Flattenings, Published
<1> DEFINE I == {i \in DOMAIN f : f[i] = t}
           N == {n \in Names : BTs[n] = t}
           place == [i \in I |-> order[i]]
<1>2. order \in Bijection(1..Cardinality(Published), Published)
  BY OrdersAreBijections
<1>3. /\ DOMAIN f = 1..Cardinality(Published)
      /\ \A i \in DOMAIN f : order[i] \in Published /\ f[i] = BTs[order[i]]
      /\ \A i, j \in DOMAIN f : order[i] = order[j] => i = j
      /\ \A n \in Published : \E i \in DOMAIN f : order[i] = n
  BY <1>1, <1>2 DEF Bijection, Injection, Surjection, IsInjective
<1>4. I \subseteq DOMAIN f /\ IsFiniteSet(I)
  <2>1. IsFiniteSet(DOMAIN f)
    BY <1>3, PublishedFinite, FS_Interval
  <2>2. I \in SUBSET DOMAIN f
    OBVIOUS
  <2>3. QED BY <2>1, <2>2, FS_Subset
<1>5. N \subseteq Published
  BY NoEntryAssumption DEF Published
<1>6. place \in [I -> N]
  BY <1>3 DEF Published
<1>7. place \in Injection(I, N)
  BY <1>3, <1>6 DEF Injection, IsInjective
<1>8. place \in Surjection(I, N)
  <2>1. ASSUME NEW n \in N PROVE \E i \in I : place[i] = n
    <3>1. PICK i \in DOMAIN f : order[i] = n
      BY <1>3, <1>5
    <3>2. QED BY <1>3, <3>1
  <2>2. QED BY <1>6, <2>1 DEF Surjection
<1>9. ExistsBijection(I, N)
  BY <1>7, <1>8 DEF ExistsBijection, Bijection
<1>10. QED BY <1>4, <1>9, FS_Bijection

\* Two passes over an unchanged map yield the same targets.
LEMMA FlatteningsAgree ==
  ASSUME NEW f \in Flattenings, NEW g \in Flattenings
  PROVE  SameTargets(f, g)
  BY OccurrencesCounted DEF SameTargets
\* Whether there is a race or not, a list of the CRs' lists results.
LEMMA FlattenedTypes ==
  ASSUME BTs \in [Names -> TargetLists \cup {NoEntry}],
         NEW race \in BOOLEAN, NEW f \in Flattened(race)
  PROVE  f \in Seq(TargetLists)
<1>1. CASE race
  <2>1. Cardinality(Names) \in Nat
    BY NamesAssumption, FS_CardinalityType
  <2>2. PICK k \in 0..Cardinality(Names) : f \in [1..k -> TargetLists]
    BY <1>1 DEF Flattened, Mixtures
  <2>3. QED BY <2>1, <2>2
<1>2. QED BY <1>1, FlatteningTypes DEF Flattened
-----------------------------------------------------------------------------
(* Copies of the CR. *)

\* A copy with the current resourceVersion has the current spec: only its hash may
\* have been changed in memory.  The cache is never changed in memory.
FreshSpecs ==
  /\ "cache" \in fresh => copies["cache"] = am
  /\ copies["cache"] # NoCopy
  /\ \A c \in fresh : copies[c] # NoCopy /\ copies[c].spec = am.spec

\* A thread that is running has its copy of the CR in memory.
CopiesInMemory ==
  /\ watching => copies["captured"] # NoCopy
  /\ \A p \in Threads : ~At(p, "idle") => copies[thread[p].cr] # NoCopy
  /\ ~At("watcher", "idle") => thread["watcher"].cr = "captured" /\ watching
  /\ At("worker", "idle") \/ At("worker", "tryWatch") => thread["worker"].cr = "own"
  /\ At("worker", "idle") => "own" \notin fresh
  /\ ~At("watcher", "tryWatch")

CopyInv == TypeOK /\ events <= edits + 1 /\ FreshSpecs /\ CopiesInMemory

\* In the beginning only the cache has a copy.
LEMMA InitCopyInv == Init => CopyInv
<1> SUFFICES ASSUME Init PROVE CopyInv
  OBVIOUS
<1> USE DEF Init
<1>2. << >> \in Seq(TargetLists)
  OBVIOUS
<1>1. am \in AM
  BY <1>2 DEF AM
<1>3. IdleThread \in Thread
  BY <1>2 DEF IdleThread, Thread, NoContents, Contents
<1>4. TypeOK
  <2>1. extra \in Extras \cup {NoExtra}
    OBVIOUS
  <2>2. secret \in Contents
    BY <1>2, <2>1 DEF Contents
  <2>3. copies \in [Copies -> AM \cup {NoCopy}] /\ fresh \subseteq Copies
    BY <1>1 DEF Copies
  <2>4. thread \in [Threads -> Thread]
    BY <1>3
  <2>5. events \in 0..(MaxEdits + 1) /\ changes \in 0..MaxChanges
        /\ edits \in 0..MaxEdits /\ faults \in 0..MaxFaults
    BY BoundsAssumption
  <2>6. QED BY <1>1, <2>1, <2>2, <2>3, <2>4, <2>5 DEF TypeOK
<1>5. FreshSpecs
  BY <1>1, NoCopyAssumption DEF FreshSpecs, Copies
<1>6. CopiesInMemory
  BY DEF CopiesInMemory, At, IdleThread, Threads
<1>7. events <= edits + 1
  OBVIOUS
<1>8. QED BY <1>4, <1>5, <1>6, <1>7 DEF CopyInv

\* The copy a running thread saves is a CR, whatever hash it puts in.
LEMMA HashedTypes ==
  ASSUME CopyInv, NEW p \in Threads, ~At(p, "idle"), NEW f \in Seq(TargetLists)
  PROVE  /\ thread[p].cr \in Copies
         /\ copies[thread[p].cr] \in AM
         /\ Hashed(p, f) \in AM
         /\ Hashed(p, f).spec = copies[thread[p].cr].spec
         /\ Hashed(p, f).hash = f
<1>1. thread[p].cr \in Copies
  BY DEF CopyInv, TypeOK, Thread, Copies
<1>2. copies[thread[p].cr] \in AM
  BY <1>1 DEF CopyInv, TypeOK, CopiesInMemory
<1>3. QED BY <1>1, <1>2 DEF Hashed, AM

\* What is left when a thread is done is as well typed as before.
LEMMA ReturnTypes ==
  ASSUME CopyInv, NEW p \in Threads, Return(p)
  PROVE  /\ thread' \in [Threads -> Thread]
         /\ thread'[p] = IdleThread
         /\ \A q \in Threads \ {p} : thread'[q] = thread[q]
<1>1. IdleThread \in Thread
  BY DEF IdleThread, Thread, NoContents, Contents
<1>2. QED BY <1>1 DEF CopyInv, TypeOK, Return

\* A thread that moves on keeps its copy and its job, and leaves the other alone.
LEMMA GoToTypes ==
  ASSUME CopyInv, NEW p \in Threads, NEW pc \in {"tryWatch", "sync", "render", "write"},
         GoTo(p, pc)
  PROVE  /\ thread' \in [Threads -> Thread]
         /\ thread'[p].pc = pc
         /\ thread'[p].cr = thread[p].cr
         /\ thread'[p].job = thread[p].job
         /\ \A q \in Threads \ {p} : thread'[q] = thread[q]
  BY DEF CopyInv, TypeOK, GoTo, Thread

\* Failures stay within their bound.
LEMMA FaultTypes ==
  ASSUME CopyInv, NEW kind, Fault(kind)
  PROVE  faults' \in 0..MaxFaults
  BY BoundsAssumption DEF CopyInv, TypeOK, Fault

\* So do races.
LEMMA FlattenTypes ==
  ASSUME CopyInv, NEW race, Flatten(race)
  PROVE  faults' \in 0..MaxFaults
  BY FaultTypes DEF Flatten, CopyInv, TypeOK

\* The other controller's writes of BTs, and what users declare, touch no copy.
LEMMA TargetsCopyInv ==
  ASSUME CopyInv, NEW n \in Names, changes' \in 0..MaxChanges,
         \/ SetTargets(n)
         \/ UNCHANGED <<BTs, am, copies, fresh, extra, extraCache, secret, thread, watching,
                        events, doubtful, edits, faults>>
  PROVE  CopyInv'
  BY DEF SetTargets, InProgress, CopyInv, TypeOK, FreshSpecs, CopiesInMemory, At

\* Only calls, and the last one that reached its end, are ever in doubt.
LEMMA DoubtsTyped ==
  ASSUME CopyInv, [Next]_vars
  PROVE  doubtful' \subseteq Threads \cup {"secret"}
<1>1. doubtful \subseteq Threads \cup {"secret"}
  BY DEF CopyInv, TypeOK
<1>2. CASE \E n \in Names : ChangeTargets(n)
  BY <1>1, <1>2 DEF ChangeTargets, SetTargets, InProgress
<1>3. CASE EditSpec \/ EditExtra \/ DeliverCR \/ DeliverExtra \/ WatchEnds \/ UNCHANGED vars
  BY <1>1, <1>3 DEF EditSpec, EditExtra, DeliverCR, DeliverExtra, WatchEnds, vars
<1>4. CASE Restart
  BY <1>1, <1>4 DEF Restart
<1>5. CASE WorkerStep \/ ReceiveEvent
  BY <1>1, <1>5
  DEF WorkerStep, Reconcile, KeepWatch, StartWatch, OpenWatch, ExporterConfigFails,
      TargetsUnchanged, TargetsChanged, ReceiveEvent
<1>6. ASSUME NEW p \in Threads, CreateOrUpdate(p) PROVE doubtful' \subseteq Threads \cup {"secret"}
  BY <1>1, <1>6
  DEF CreateOrUpdate, Render, SaveSucceeds, Save, SaveFails, Refuse, Write, WriteFails,
      Finish, Writing
<1>7. QED BY <1>2, <1>3, <1>4, <1>5, <1>6 DEF Next, Synchronise

\* Typing and the freshness of the copies are preserved by every step.
LEMMA NextCopyInv == CopyInv /\ [Next]_vars => CopyInv'
<1> SUFFICES ASSUME CopyInv, [Next]_vars PROVE CopyInv'
  OBVIOUS
<1>0. doubtful' \subseteq Threads \cup {"secret"}
  BY DoubtsTyped
<1> USE DEF CopyInv
<1>1. ASSUME NEW n \in Names, ChangeTargets(n) PROVE CopyInv'
  BY <1>1, TargetsCopyInv, BoundsAssumption DEF ChangeTargets, TypeOK
<1>2. CASE EditSpec
  <2>1. am' \in AM /\ UNCHANGED copies /\ fresh' = {} /\ edits' \in 0..MaxEdits
    BY <1>2, BoundsAssumption DEF EditSpec, TypeOK, AM
  <2>2. TypeOK' /\ events' <= edits' + 1
    BY <1>0, <1>2, <2>1 DEF EditSpec, TypeOK
  <2>3. FreshSpecs' /\ CopiesInMemory'
    BY <1>2, <2>1 DEF EditSpec, FreshSpecs, CopiesInMemory, At
  <2>4. QED BY <2>2, <2>3
<1>3. CASE EditExtra
  <2>1. /\ edits' \in 0..MaxEdits
        /\ events' \in 0..(MaxEdits + 1)
        /\ events' <= edits' + 1
    BY <1>3, BoundsAssumption DEF EditExtra, TypeOK
  <2>2. TypeOK'
    BY <1>0, <1>3, <2>1 DEF EditExtra, TypeOK
  <2>3. FreshSpecs' /\ CopiesInMemory'
    BY <1>3 DEF EditExtra, FreshSpecs, CopiesInMemory, At
  <2>4. QED BY <2>1, <2>2, <2>3
<1>4. CASE DeliverCR
  <2>1. TypeOK' /\ events' <= edits' + 1
    BY <1>0, <1>4 DEF DeliverCR, TypeOK, Copies
  <2>2. FreshSpecs'
    BY <1>4, NoCopyAssumption DEF DeliverCR, FreshSpecs, TypeOK, Copies
  <2>3. CopiesInMemory'
    BY <1>4, NoCopyAssumption DEF DeliverCR, CopiesInMemory, TypeOK, Thread, Copies, At
  <2>4. QED BY <2>1, <2>2, <2>3
<1>5. CASE DeliverExtra
  BY <1>0, <1>5 DEF DeliverExtra, TypeOK, FreshSpecs, CopiesInMemory, At
<1>6. CASE WatchEnds
  <2>1. events' \in 0..(MaxEdits + 1) /\ events' <= edits' + 1
    BY <1>6, BoundsAssumption DEF WatchEnds, TypeOK
  <2>2. TypeOK'
    BY <1>0, <1>6, <2>1 DEF WatchEnds, TypeOK
  <2>3. FreshSpecs' /\ CopiesInMemory'
    BY <1>6 DEF WatchEnds, FreshSpecs, CopiesInMemory, At
  <2>4. QED BY <2>1, <2>2, <2>3
<1>7. CASE Restart
  <2>1. IdleThread \in Thread
    BY DEF IdleThread, Thread, NoContents, Contents
  <2>2. faults' \in 0..MaxFaults
    BY <1>7, FaultTypes DEF Restart
  <2>3. events' \in 0..(MaxEdits + 1) /\ events' <= edits' + 1
    BY <1>7, BoundsAssumption DEF Restart, TypeOK
  <2>4. TypeOK'
    BY <1>0, <1>7, <2>1, <2>2, <2>3 DEF Restart, TypeOK, Copies
  <2>5. FreshSpecs'
    BY <1>7, NoCopyAssumption DEF Restart, FreshSpecs, TypeOK, Copies
  <2>6. CopiesInMemory'
    BY <1>7 DEF Restart, CopiesInMemory, At, IdleThread, Threads
  <2>7. QED BY <2>3, <2>4, <2>5, <2>6
<1>8. CASE Reconcile
  <2>1. /\ thread' \in [Threads -> Thread]
        /\ thread'["worker"].pc = "tryWatch"
        /\ thread'["worker"].cr = thread["worker"].cr
        /\ thread'["watcher"] = thread["watcher"]
    BY <1>8, GoToTypes DEF Reconcile, Threads
  <2>2. TypeOK' /\ events' <= edits' + 1
    BY <1>0, <1>8, <2>1 DEF Reconcile, Environment, TypeOK, Copies
  <2>3. FreshSpecs'
    <3>1. /\ copies'["own"] = copies["cache"]
          /\ \A c \in Copies \ {"own"} : copies'[c] = copies[c]
          /\ "own" \in fresh' => "own" \in fresh \/ "cache" \in fresh
          /\ \A c \in Copies \ {"own"} : c \in fresh' <=> c \in fresh
          /\ fresh' \subseteq Copies
          /\ UNCHANGED am
      BY <1>8 DEF Reconcile, TypeOK, Copies
    <3>2. "own" \notin fresh
      BY <1>8 DEF Reconcile, CopiesInMemory, FreshSpecs
    <3>3. QED BY <3>1, <3>2 DEF FreshSpecs, Copies
  <2>4. CopiesInMemory'
    BY <1>8, <2>1
    DEF Reconcile, Environment, FreshSpecs, CopiesInMemory, TypeOK, Copies, At, Threads
  <2>5. QED BY <2>2, <2>3, <2>4
<1>9. CASE KeepWatch
  <2>1. /\ thread' \in [Threads -> Thread]
        /\ thread'["worker"].pc = "sync"
        /\ thread'["worker"].cr = thread["worker"].cr
        /\ thread'["watcher"] = thread["watcher"]
    BY <1>9, GoToTypes DEF KeepWatch, Threads
  <2>2. faults' \in 0..MaxFaults
    BY <1>9, FaultTypes DEF KeepWatch, TypeOK
  <2>3. TypeOK' /\ FreshSpecs' /\ events' <= edits' + 1
    BY <1>0, <1>9, <2>1, <2>2 DEF KeepWatch, Environment, TypeOK, FreshSpecs
  <2>4. CopiesInMemory'
    BY <1>9, <2>1 DEF KeepWatch, Environment, CopiesInMemory, At, Threads
  <2>5. QED BY <2>3, <2>4
<1>10. CASE StartWatch
  <2>1. /\ thread' \in [Threads -> Thread]
        /\ thread'["worker"].pc = "sync"
        /\ thread'["worker"].cr = "captured"
        /\ thread'["watcher"] = thread["watcher"]
    BY <1>10 DEF StartWatch, OpenWatch, TypeOK, Threads, Thread
  <2>2. At("watcher", "idle") /\ copies["own"] # NoCopy
    BY <1>10 DEF StartWatch, OpenWatch, CopiesInMemory, At, Threads
  <2>3. /\ copies' \in [Copies -> AM \cup {NoCopy}]
        /\ copies'["captured"] = copies["own"]
        /\ copies'["cache"] = copies["cache"]
        /\ fresh' \subseteq Copies \ {"own"}
        /\ "captured" \in fresh' => "own" \in fresh
        /\ "cache" \in fresh' => "cache" \in fresh
    BY <1>10 DEF StartWatch, OpenWatch, TypeOK, Copies
  <2>4. events' \in 0..(MaxEdits + 1) /\ events' <= edits' + 1
    BY <1>10, BoundsAssumption DEF StartWatch, OpenWatch, Environment, TypeOK
  <2>5. TypeOK'
    BY <1>0, <1>10, <2>1, <2>3, <2>4 DEF StartWatch, OpenWatch, Environment, TypeOK
  <2>6. FreshSpecs'
    BY <1>10, <2>2, <2>3 DEF StartWatch, OpenWatch, FreshSpecs, Copies
  <2>7. CopiesInMemory'
    BY <1>10, <2>1, <2>2, <2>3 DEF StartWatch, OpenWatch, CopiesInMemory, At, Threads
  <2>8. QED BY <2>4, <2>5, <2>6, <2>7
<1>11. ASSUME NEW p \in Threads, Return(p), ~At(p, "idle"),
              copies' = Dropped(p, copies), fresh' = StillFresh(p),
              secret' \in Contents, faults' \in 0..MaxFaults,
              UNCHANGED <<Environment, am, watching, events>>
       PROVE  CopyInv'
  <2>1. /\ copies' \in [Copies -> AM \cup {NoCopy}]
        /\ fresh' \subseteq fresh
        /\ \A c \in Copies \ {"own"} : copies'[c] = copies[c]
        /\ p = "worker" => "own" \notin fresh'
        /\ p # "worker" => copies' = copies
    BY <1>11 DEF Dropped, StillFresh, TypeOK, Copies
  <2>2. TypeOK' /\ events' <= edits' + 1
    BY <1>0, <1>11, <2>1, ReturnTypes DEF TypeOK, Environment
  <2>3. FreshSpecs'
    BY <1>11, <2>1 DEF FreshSpecs, Copies, TypeOK
  <2>4. CopiesInMemory'
    BY <1>11, <2>1, ReturnTypes
    DEF CopiesInMemory, At, Threads, IdleThread, Copies, TypeOK, Thread
  <2>5. QED BY <2>2, <2>3, <2>4
<1>12. CASE ExporterConfigFails
  BY <1>12, <1>11, FaultTypes
  DEF ExporterConfigFails, Environment, TypeOK, At, Threads
<1>13. CASE TargetsUnchanged
  <2>1. faults' \in 0..MaxFaults
    BY <1>13, FlattenTypes DEF TargetsUnchanged
  <2>2. QED BY <1>13, <1>11, <2>1 DEF TargetsUnchanged, Environment, TypeOK, At, Threads
<1>14. CASE TargetsChanged
  <2>1. /\ thread' \in [Threads -> Thread]
        /\ thread'["worker"].pc = "render"
        /\ thread'["worker"].cr = thread["worker"].cr
        /\ thread'["watcher"] = thread["watcher"]
    BY <1>14, GoToTypes DEF TargetsChanged, Threads
  <2>2. faults' \in 0..MaxFaults
    BY <1>14, FlattenTypes DEF TargetsChanged
  <2>3. TypeOK' /\ FreshSpecs' /\ events' <= edits' + 1
    BY <1>0, <1>14, <2>1, <2>2 DEF TargetsChanged, Environment, TypeOK, FreshSpecs
  <2>4. CopiesInMemory'
    BY <1>14, <2>1 DEF TargetsChanged, Environment, CopiesInMemory, At, Threads
  <2>5. QED BY <2>3, <2>4
<1>15. CASE ReceiveEvent
  <2>1. /\ thread' \in [Threads -> Thread]
        /\ thread'["watcher"].pc = "render"
        /\ thread'["watcher"].cr = "captured"
        /\ thread'["worker"] = thread["worker"]
    BY <1>15 DEF ReceiveEvent, TypeOK, Threads, Thread
  <2>2. events' \in 0..(MaxEdits + 1) /\ events' <= edits' + 1
    BY <1>15, BoundsAssumption DEF ReceiveEvent, Environment, TypeOK
  <2>3. TypeOK' /\ FreshSpecs'
    BY <1>0, <1>15, <2>1, <2>2 DEF ReceiveEvent, Environment, TypeOK, FreshSpecs
  <2>4. CopiesInMemory'
    BY <1>15, <2>1 DEF ReceiveEvent, Environment, CopiesInMemory, At, Threads
  <2>5. QED BY <2>2, <2>3, <2>4
<1>16. ASSUME NEW p \in Threads, Render(p) PROVE CopyInv'
  <2>1. PICK race \in BOOLEAN, f \in Seq(TargetLists) :
          /\ Flatten(race)
          /\ thread' = [thread EXCEPT
               ![p].pc = "save",
               ![p].job = [targets |-> f,
                           extra |-> IF WatchOn THEN extraCache ELSE NoExtra]]
    BY <1>16, FlattenedTypes DEF Render, TypeOK
  <2>2. /\ [targets |-> f, extra |-> IF WatchOn THEN extraCache ELSE NoExtra] \in Contents
        /\ faults' \in 0..MaxFaults
    BY <2>1, FlattenTypes DEF TypeOK, Contents
  <2>3. /\ thread' \in [Threads -> Thread]
        /\ thread'[p].pc = "save"
        /\ thread'[p].cr = thread[p].cr
        /\ \A q \in Threads \ {p} : thread'[q] = thread[q]
    <3>1. thread \in [Threads -> Thread]
      BY DEF TypeOK
    <3>2. QED BY <2>1, <2>2, <3>1 DEF Thread
  <2>4. TypeOK' /\ FreshSpecs' /\ events' <= edits' + 1
    BY <1>0, <1>16, <2>2, <2>3 DEF Render, Environment, TypeOK, FreshSpecs
  <2>5. CopiesInMemory'
    BY <1>16, <2>3 DEF Render, Environment, CopiesInMemory, At, Threads
  <2>6. QED BY <2>4, <2>5
<1>17. ASSUME NEW p \in Threads, SaveSucceeds(p) PROVE CopyInv'
  <2>1. PICK race \in BOOLEAN, f \in Seq(TargetLists) :
          /\ Flatten(race)
          /\ am' = Hashed(p, f)
          /\ copies' = [copies EXCEPT ![thread[p].cr] = Hashed(p, f)]
          /\ fresh' = IF Hashed(p, f) = am THEN fresh ELSE {thread[p].cr}
    BY <1>17, FlattenedTypes DEF SaveSucceeds, Save, TypeOK
  <2>2. /\ ~At(p, "idle")
        /\ thread[p].cr \in Copies
        /\ thread[p].cr \in fresh
        /\ thread[p].cr # "cache"
    BY <1>17 DEF SaveSucceeds, Save, At, TypeOK, Thread, Copies
  <2>3. Hashed(p, f) \in AM /\ Hashed(p, f).spec = am.spec
    BY <2>2, HashedTypes DEF FreshSpecs
  <2>4. /\ thread' \in [Threads -> Thread]
        /\ thread'[p].pc = "write"
        /\ thread'[p].cr = thread[p].cr
        /\ \A q \in Threads \ {p} : thread'[q] = thread[q]
    BY <1>17, GoToTypes DEF SaveSucceeds, Save
  <2>5. TypeOK' /\ events' <= edits' + 1
    BY <1>0, <1>17, <2>1, <2>2, <2>3, <2>4, FlattenTypes
    DEF SaveSucceeds, Save, Environment, TypeOK
  <2>6. FreshSpecs'
    <3>1. /\ copies'[thread[p].cr] = am'
          /\ \A c \in Copies \ {thread[p].cr} : copies'[c] = copies[c]
          /\ am' \in AM
      BY <2>1, <2>2, <2>3 DEF TypeOK
    <3>2. CASE am' = am
      BY <2>1, <2>2, <3>1, <3>2, NoCopyAssumption DEF FreshSpecs, TypeOK, Copies
    <3>3. CASE am' # am
      BY <2>1, <2>2, <3>1, <3>3, NoCopyAssumption DEF FreshSpecs, TypeOK, Copies
    <3>4. QED BY <3>2, <3>3
  <2>7. CopiesInMemory'
    <3>1. \A c \in Copies : copies[c] # NoCopy => copies'[c] # NoCopy
      BY <2>1, <2>2, <2>3, NoCopyAssumption DEF TypeOK
    <3>2. \A q \in Threads : thread[q].cr \in Copies
      BY DEF TypeOK, Thread, Copies
    <3>3. UNCHANGED watching
      BY <1>17 DEF SaveSucceeds, Save
    <3>4. QED
      BY <2>2, <2>4, <3>1, <3>2, <3>3, <1>17
      DEF SaveSucceeds, Save, CopiesInMemory, At, Threads, Copies
  <2>8. QED BY <2>5, <2>6, <2>7
<1>18. ASSUME NEW p \in Threads, SaveFails(p) PROVE CopyInv'
  <2>1. PICK race \in BOOLEAN, f \in Seq(TargetLists) :
          /\ Flatten(race) \/ Fault("callError")
          /\ copies' = Dropped(p, [copies EXCEPT ![thread[p].cr] = Hashed(p, f)])
    BY <1>18, FlattenedTypes DEF SaveFails, Refuse, TypeOK
  <2>2. /\ ~At(p, "idle")
        /\ thread[p].cr \in Copies \ {"cache"}
        /\ copies[thread[p].cr] \in AM
        /\ Hashed(p, f) \in AM
        /\ Hashed(p, f).spec = copies[thread[p].cr].spec
        /\ Hashed(p, f) # NoCopy
    BY <1>18, HashedTypes, NoCopyAssumption DEF SaveFails, Refuse, At, TypeOK, Thread, Copies
  <2>3. /\ copies' \in [Copies -> AM \cup {NoCopy}]
        /\ fresh' \subseteq fresh
        /\ copies'["cache"] = copies["cache"]
        /\ \A c \in Copies :
             \/ copies'[c] = copies[c]
             \/ c = thread[p].cr /\ copies'[c] = Hashed(p, f)
             \/ c = "own" /\ p = "worker"
        /\ p = "worker" => "own" \notin fresh'
    BY <1>18, <2>1, <2>2 DEF SaveFails, Refuse, Dropped, StillFresh, TypeOK, Copies
  <2>4. faults' \in 0..MaxFaults
    BY <2>1, FaultTypes, FlattenTypes
  <2>5. TypeOK' /\ events' <= edits' + 1
    BY <1>0, <1>18, <2>3, <2>4, ReturnTypes DEF SaveFails, Refuse, TypeOK, Environment
  <2>6. FreshSpecs'
    <3>1. UNCHANGED am
      BY <1>18 DEF SaveFails, Refuse
    <3>2. ASSUME NEW c \in fresh' PROVE copies'[c] # NoCopy /\ copies'[c].spec = am.spec
      <4>1. c \in Copies /\ copies[c] # NoCopy /\ copies[c].spec = am.spec
        BY <2>3 DEF FreshSpecs, TypeOK
      <4>2. QED BY <2>2, <2>3, <4>1
    <3>3. QED BY <2>3, <3>1, <3>2 DEF FreshSpecs
  <2>7. CopiesInMemory'
    BY <1>18, <2>2, <2>3, ReturnTypes
    DEF SaveFails, Refuse, CopiesInMemory, At, Threads, IdleThread, Copies, TypeOK, Thread
  <2>8. QED BY <2>5, <2>6, <2>7
<1>19. ASSUME NEW p \in Threads, Write(p) \/ WriteFails(p) PROVE CopyInv'
  <2>1. thread[p].job \in Contents /\ ~At(p, "idle")
    BY <1>19 DEF Write, WriteFails, Finish, At, TypeOK, Thread
  <2>2. faults' \in 0..MaxFaults
    BY <1>19, FaultTypes DEF Write, WriteFails, Finish, TypeOK
  <2>3. secret' \in Contents
    BY <1>19, <2>1 DEF Write, WriteFails, Finish, TypeOK
  <2>4. QED BY <1>19, <1>11, <2>1, <2>2, <2>3 DEF Write, WriteFails, Finish, Environment
<1>20. CASE UNCHANGED vars
  BY <1>0, <1>20 DEF vars, TypeOK, FreshSpecs, CopiesInMemory, At
<1>21. QED
  BY <1>1, <1>2, <1>3, <1>4, <1>5, <1>6, <1>7, <1>8, <1>9, <1>10, <1>12, <1>13, <1>14,
     <1>15, <1>16, <1>17, <1>18, <1>19, <1>20
  DEF Next, Synchronise, WorkerStep, CreateOrUpdate

\* Every reachable state is well typed, a copy with the current resourceVersion has
\* the current spec, and a running thread has its copy in memory.
THEOREM CopiesCorrect == Spec => []CopyInv
  BY InitCopyInv, NextCopyInv, PTL DEF Spec

\* The variables keep their types.
THEOREM SyncTypeCorrect == Spec => []TypeOK
<1>1. CopyInv => TypeOK
  BY DEF CopyInv
<1>2. QED BY <1>1, CopiesCorrect, PTL
-----------------------------------------------------------------------------
(* No edit of the spec is lost. *)

\* However the two threads and the users interleave, whichever copy a save is made
\* from and whatever fails, only users change the spec.
THEOREM NoSpecIsLost == Spec => NoLostSpec
<1>1. CopyInv /\ [Next]_vars => [am'.spec # am.spec => edits' = edits + 1]_vars
  <2> SUFFICES ASSUME CopyInv, Next, am'.spec # am.spec PROVE edits' = edits + 1
    OBVIOUS
  <2>1. CASE EditSpec
    BY <2>1 DEF EditSpec
  <2>2. ASSUME NEW p \in Threads, SaveSucceeds(p) PROVE FALSE
    <3>1. PICK f \in Seq(TargetLists) : am' = Hashed(p, f)
      BY <2>2, FlattenedTypes DEF SaveSucceeds, Save, CopyInv, TypeOK
    <3>2. ~At(p, "idle") /\ thread[p].cr \in fresh
      BY <2>2 DEF SaveSucceeds, Save, At
    <3>3. QED BY <3>1, <3>2, HashedTypes DEF CopyInv, FreshSpecs
  <2>3. CASE UNCHANGED am
    BY <2>3
  <2>4. QED
    BY <2>1, <2>2, <2>3
    DEF Next, Synchronise, WorkerStep, CreateOrUpdate, ChangeTargets, SetTargets, EditExtra, DeliverCR,
        DeliverExtra, WatchEnds, Restart, Reconcile, KeepWatch, StartWatch, OpenWatch,
        ExporterConfigFails, TargetsUnchanged, TargetsChanged, ReceiveEvent, Render,
        SaveFails, Refuse, Write, WriteFails, Finish
<1>2. QED BY <1>1, CopiesCorrect, PTL DEF Spec, NoLostSpec

-----------------------------------------------------------------------------
(* The hash is honest but for what disturbed calls have left behind. *)

\* What an undisturbed thread is about to write is current, while one is about to write
\* the stored hash is current as well, and otherwise the secret agrees with the hash.
JobsCurrent ==
  /\ \A p \in InProgress \ doubtful : thread[p].job.targets \in Flattenings
  /\ Writing \subseteq doubtful \/ am.hash \in Flattenings
  /\ HashHonest

HonestInv == CopyInv /\ JobsCurrent

\* In the beginning the secret and the hash are both empty.
LEMMA InitHonestInv == Init => HonestInv
<1> SUFFICES ASSUME Init PROVE JobsCurrent
  BY InitCopyInv DEF HonestInv
<1>1. secret.targets = << >> /\ am.hash = << >>
  BY DEF Init
<1>2. HashHonest
  BY <1>1 DEF HashHonest, SameTargets
<1>3. QED BY <1>2 DEF Init, JobsCurrent, InProgress, Writing, IdleThread

\* Steps after which BTs, the CR's hash and the secret are as before and no thread
\* has come nearer to its write, or had its doubts removed.
LEMMA QuietStep ==
  ASSUME JobsCurrent, UNCHANGED <<BTs, secret>>, am'.hash = am.hash,
         \A p \in InProgress' : thread'[p].pc = thread[p].pc /\ thread'[p].job = thread[p].job,
         doubtful \cap InProgress' \subseteq doubtful',
         "secret" \in doubtful => "secret" \in doubtful',
         Writing \subseteq Writing' \/ "secret" \in doubtful'
  PROVE  JobsCurrent'
<1>1. Flattenings' = Flattenings
  BY DEF Flattenings
<1>2. InProgress' \subseteq InProgress /\ Writing' \subseteq Writing \cap InProgress'
  BY DEF InProgress, Writing
<1>3. HashHonest'
  BY <1>2 DEF JobsCurrent, HashHonest, SameTargets
<1>4. \A p \in InProgress' \ doubtful' : p \in InProgress \ doubtful
  BY <1>2
<1>5. Writing \subseteq doubtful => Writing' \subseteq doubtful'
  BY <1>2
<1>6. QED BY <1>1, <1>3, <1>4, <1>5 DEF JobsCurrent

\* Targets that change throw doubt on every call under way.
LEMMA TargetsJobsCurrent ==
  ASSUME JobsCurrent, NEW n \in Names, SetTargets(n)
  PROVE  JobsCurrent'
<1>1. /\ InProgress' = InProgress /\ Writing' = Writing /\ Writing \subseteq InProgress
      /\ doubtful' = doubtful \cup InProgress /\ UNCHANGED <<secret, am>>
  BY DEF SetTargets, InProgress, Writing
<1>2. "secret" \in doubtful => "secret" \in doubtful'
  BY <1>1
<1>3. QED BY <1>1, <1>2 DEF JobsCurrent, HashHonest, SameTargets

\* What Flatten returns without a race are the targets of the day.
LEMMA NoRace ==
  ASSUME NEW race \in BOOLEAN, ~race
  PROVE  Flattened(race) = Flattenings
  BY DEF Flattened

\* No step makes the hash dishonest and leaves no doubt.
LEMMA NextHonestInv == HonestInv /\ [Next]_vars => HonestInv'
<1> SUFFICES ASSUME HonestInv, [Next]_vars PROVE HonestInv'
  OBVIOUS
<1>1. CopyInv /\ CopyInv' /\ JobsCurrent
  BY NextCopyInv DEF HonestInv
<1> SUFFICES JobsCurrent'
  BY <1>1 DEF HonestInv
<1>2. ASSUME NEW n \in Names, ChangeTargets(n) PROVE JobsCurrent'
  BY <1>1, <1>2, TargetsJobsCurrent DEF ChangeTargets
<1>3. CASE EditSpec
  BY <1>1, <1>3, QuietStep DEF EditSpec, CopyInv, TypeOK, AM, InProgress, Writing
<1>4. CASE EditExtra \/ DeliverCR \/ DeliverExtra \/ WatchEnds \/ UNCHANGED vars
  BY <1>1, <1>4, QuietStep
  DEF EditExtra, DeliverCR, DeliverExtra, WatchEnds, vars, InProgress, Writing
<1>5. CASE Restart
  <2>1. InProgress' = {} /\ Writing' = {}
    BY <1>5 DEF Restart, InProgress, Writing, IdleThread
  <2>2. /\ Writing # {} => "secret" \in doubtful'
        /\ "secret" \in doubtful => "secret" \in doubtful'
    BY <1>5 DEF Restart, Threads
  <2>3. HashHonest'
    BY <1>1, <1>5, <2>1, <2>2 DEF Restart, JobsCurrent, HashHonest, SameTargets
  <2>4. QED BY <2>1, <2>3 DEF JobsCurrent
<1>6. CASE WorkerStep \/ ReceiveEvent
  <2>1. PICK p \in Threads :
          /\ thread[p].pc \notin {"save", "write"}
          /\ thread'[p].pc \notin {"save", "write"}
          /\ \A q \in Threads \ {p} : thread'[q] = thread[q]
    BY <1>1, <1>6
    DEF WorkerStep, Reconcile, KeepWatch, StartWatch, OpenWatch, ExporterConfigFails,
        TargetsUnchanged, TargetsChanged, ReceiveEvent, GoTo, Return, IdleThread, At,
        Threads, CopyInv, TypeOK, Thread
  <2>2. UNCHANGED <<BTs, secret, am, doubtful>>
    BY <1>6
    DEF WorkerStep, Reconcile, KeepWatch, StartWatch, OpenWatch, ExporterConfigFails,
        TargetsUnchanged, TargetsChanged, ReceiveEvent, Environment
  <2>3. QED BY <1>1, <2>1, <2>2, QuietStep DEF InProgress, Writing
<1>7. ASSUME NEW p \in Threads, Render(p) PROVE JobsCurrent'
  <2>1. PICK race \in BOOLEAN :
          /\ thread'[p].job.targets \in Flattened(race)
          /\ doubtful' = IF race THEN doubtful \cup {p} ELSE doubtful \ {p}
    BY <1>1, <1>7 DEF Render, CopyInv, TypeOK, Thread
  <2>2. /\ thread[p].pc = "render"
        /\ thread'[p].pc = "save"
        /\ \A q \in Threads \ {p} : thread'[q] = thread[q]
    BY <1>1, <1>7 DEF Render, At, CopyInv, TypeOK, Thread
  <2>3. UNCHANGED <<BTs, secret, am>> /\ Flattenings' = Flattenings
    BY <1>7 DEF Render, Environment, Flattenings
  <2>4. InProgress' = InProgress \cup {p} /\ Writing' = Writing /\ p \notin Writing
    BY <2>2 DEF InProgress, Writing
  <2>5. \A q \in InProgress' \ doubtful' : thread'[q].job.targets \in Flattenings'
    <3>1. p \notin doubtful' => thread'[p].job.targets \in Flattenings
      BY <2>1, NoRace
    <3>2. \A q \in InProgress' \ doubtful' : q # p => q \in InProgress \ doubtful
      BY <2>1, <2>4
    <3>3. \A q \in InProgress \ {p} : thread'[q] = thread[q]
      BY <2>2 DEF InProgress
    <3>4. QED BY <1>1, <2>3, <3>1, <3>2, <3>3 DEF JobsCurrent
  <2>6. /\ Writing \subseteq doubtful => Writing' \subseteq doubtful'
        /\ "secret" \in doubtful => "secret" \in doubtful'
    BY <2>1, <2>4 DEF Threads
  <2>7. QED BY <1>1, <2>3, <2>4, <2>5, <2>6 DEF JobsCurrent, HashHonest, SameTargets
<1>8. ASSUME NEW p \in Threads, SaveSucceeds(p) PROVE JobsCurrent'
  <2>1. PICK race \in BOOLEAN :
          \E f \in Flattened(race) :
            /\ am' = Hashed(p, f)
            /\ doubtful' = IF race THEN doubtful \cup {p} \cup Writing ELSE doubtful
    BY <1>8 DEF SaveSucceeds, Save
  <2>2. am'.hash \in Flattened(race)
    <3>1. PICK f \in Flattened(race) : am' = Hashed(p, f)
      BY <2>1
    <3>2. f \in Seq(TargetLists)
      BY <1>1, FlattenedTypes DEF CopyInv, TypeOK
    <3>3. QED BY <1>1, <1>8, <3>1, <3>2, HashedTypes DEF SaveSucceeds, Save, At
  <2>3. /\ thread[p].pc = "save"
        /\ thread'[p].pc = "write"
        /\ thread'[p].job = thread[p].job
        /\ \A q \in Threads \ {p} : thread'[q] = thread[q]
    BY <1>1, <1>8, GoToTypes DEF SaveSucceeds, Save, At
  <2>4. UNCHANGED <<BTs, secret>> /\ Flattenings' = Flattenings
    BY <1>8 DEF SaveSucceeds, Save, Environment, Flattenings
  <2>5. InProgress' = InProgress /\ Writing' = Writing \cup {p}
    BY <2>3 DEF InProgress, Writing
  <2>6. \A q \in InProgress' \ doubtful' : thread'[q].job.targets \in Flattenings'
    <3>1. \A q \in InProgress : thread'[q].job = thread[q].job
      BY <2>3 DEF InProgress
    <3>2. \A q \in InProgress' \ doubtful' : q \in InProgress \ doubtful
      BY <2>1, <2>5
    <3>3. QED BY <1>1, <2>4, <3>1, <3>2 DEF JobsCurrent
  <2>7. Writing' \subseteq doubtful' \/ am'.hash \in Flattenings'
    BY <2>1, <2>2, <2>4, <2>5, NoRace
  <2>8. QED BY <2>5, <2>6, <2>7 DEF JobsCurrent, HashHonest
<1>9. ASSUME NEW p \in Threads, SaveFails(p) PROVE JobsCurrent'
  <2>1. /\ At(p, "save")
        /\ thread'[p] = IdleThread
        /\ \A q \in Threads \ {p} : thread'[q] = thread[q]
        /\ UNCHANGED <<BTs, secret, am>>
        /\ doubtful' = doubtful \ {p}
    BY <1>1, <1>9, ReturnTypes DEF SaveFails, Refuse, Environment
  <2>2. InProgress' = InProgress \ {p} /\ Writing' = Writing
    BY <2>1 DEF InProgress, Writing, IdleThread, At
  <2>3. p # "secret"
    BY DEF Threads
  <2>4. QED BY <1>1, <2>1, <2>2, <2>3, QuietStep DEF InProgress
<1>10. ASSUME NEW p \in Threads, Write(p) PROVE JobsCurrent'
  <2>1. /\ p \in Writing /\ p \in InProgress
        /\ secret' = thread[p].job
        /\ UNCHANGED <<BTs, am>>
        /\ doubtful' = (doubtful \ {p, "secret"}) \cup
                       (IF p \notin doubtful THEN {} ELSE {"secret"})
    BY <1>10 DEF Write, Finish, Environment, At, Writing, InProgress
  <2>2. /\ thread'[p] = IdleThread
        /\ \A q \in Threads \ {p} : thread'[q] = thread[q]
        /\ Flattenings' = Flattenings
    BY <1>1, <1>10, <2>1, ReturnTypes DEF Write, Finish, Flattenings
  <2>3. InProgress' = InProgress \ {p} /\ Writing' = Writing \ {p}
    BY <2>2 DEF InProgress, Writing, IdleThread
  <2>4. HashHonest'
    <3>1. CASE p \in doubtful
      BY <2>1, <3>1 DEF HashHonest
    <3>2. CASE p \notin doubtful
      <4>1. secret'.targets \in Flattenings /\ am.hash \in Flattenings
        BY <1>1, <2>1, <3>2 DEF JobsCurrent
      <4>2. SameTargets(secret'.targets, am.hash)
        BY <4>1, FlatteningsAgree
      <4>3. QED BY <2>1, <4>2 DEF HashHonest, SameTargets
    <3>3. QED BY <3>1, <3>2
  <2>5. \A q \in InProgress' \ doubtful' : q \in InProgress \ doubtful /\ thread'[q] = thread[q]
    BY <2>1, <2>2, <2>3 DEF InProgress, Threads
  <2>6. Writing \subseteq doubtful => Writing' \subseteq doubtful'
    BY <2>1, <2>3 DEF Writing, Threads
  <2>7. QED BY <1>1, <2>1, <2>2, <2>4, <2>5, <2>6 DEF JobsCurrent
<1>11. ASSUME NEW p \in Threads, WriteFails(p) PROVE JobsCurrent'
  <2>1. /\ UNCHANGED <<BTs, am, secret>>
        /\ doubtful' = (doubtful \ {p, "secret"}) \cup {"secret"}
        /\ thread'[p] = IdleThread
        /\ \A q \in Threads \ {p} : thread'[q] = thread[q]
    BY <1>1, <1>11, ReturnTypes DEF WriteFails, Finish, Environment
  <2>2. InProgress' = InProgress \ {p}
    BY <2>1 DEF InProgress, IdleThread
  <2>3. QED BY <1>1, <2>1, <2>2, QuietStep DEF InProgress
<1>12. QED
  BY <1>2, <1>3, <1>4, <1>5, <1>6, <1>7, <1>8, <1>9, <1>10, <1>11
  DEF Next, Synchronise, CreateOrUpdate

\* Whatever happens, races, overtaken writes, failures and restarts at any point, the hash
\* hides a stale secret only after a call that was disturbed, and one call that is not,
\* of either thread, puts it right: for any number of CRs, edits and failures.
THEOREM HashIsHonest == Spec => []HashHonest
<1>1. HonestInv => HashHonest
  BY DEF HonestInv, JobsCurrent
<1>2. QED BY <1>1, InitHonestInv, NextHonestInv, PTL DEF Spec
--------------------------------------------------------------------------------
(* The rest is stable. *)

\* The rest goes on as long as both sources, the CR and the secret stay as they are
\* and what the threads have in hand says the same.
LEMMA RestKept ==
  ASSUME AtRest, UNCHANGED <<BTs, am, secret, extra, extraCache>>,
         \A c \in fresh' : copies'[c].hash = am.hash,
         \A p \in Threads : thread'[p].pc \in {"save", "write"} => thread'[p].job = secret
  PROVE  AtRest' /\ UNCHANGED <<am, secret>>
<1>1. Flattenings' = Flattenings
  BY DEF Flattenings
<1>2. QED BY <1>1 DEF AtRest

\* A thread that is done takes its copy with it, if it is the worker's own.
LEMMA RestReturns ==
  ASSUME CopyInv, AtRest, NEW p \in Threads, Return(p),
         UNCHANGED <<BTs, am, secret, extra, extraCache>>,
         NEW held, held \in [Copies -> AM \cup {NoCopy}], copies' = Dropped(p, held),
         fresh' = StillFresh(p), \A c \in fresh : held[c].hash = am.hash
  PROVE  AtRest' /\ UNCHANGED <<am, secret>>
<1>1. /\ thread'[p].pc = "idle"
      /\ \A q \in Threads \ {p} : thread'[q] = thread[q]
  BY ReturnTypes DEF IdleThread
<1>2. \A c \in fresh' : copies'[c].hash = am.hash
  BY DEF Dropped, StillFresh, CopyInv, TypeOK, Copies
<1>3. QED BY <1>1, <1>2, RestKept DEF AtRest

\* With one order of the targets, what is flattened is what the CR has the hash of.
LEMMA OneFlattening ==
  ASSUME "race" \notin Disturbances, CopyInv, AtRest, NEW p \in Threads, ~At(p, "idle"),
         NEW race \in BOOLEAN, Flatten(race) \/ ~race, NEW f \in Flattened(race)
  PROVE  /\ f = am.hash /\ f \in Seq(TargetLists)
         /\ Hashed(p, f).hash = am.hash
         /\ thread[p].cr \in fresh => Hashed(p, f) = am
<1>1. f = am.hash
  BY DEF Flatten, Fault, Flattened, AtRest
<1>2. am \in AM /\ f \in Seq(TargetLists)
  BY <1>1 DEF CopyInv, TypeOK, AM
<1>3. /\ Hashed(p, f) \in AM
      /\ Hashed(p, f).spec = copies[thread[p].cr].spec
      /\ Hashed(p, f).hash = am.hash
  BY <1>1, <1>2, HashedTypes
<1>4. thread[p].cr \in fresh => Hashed(p, f).spec = am.spec
  BY <1>3 DEF CopyInv, FreshSpecs
<1>5. QED BY <1>1, <1>2, <1>3, <1>4 DEF AM

\* No step of either thread, of the informers or of a restart ends the rest.
LEMMA NextRests ==
  ASSUME "race" \notin Disturbances
  PROVE  /\ CopyInv /\ AtRest /\ BTs' = BTs /\ edits' = edits
         /\ Synchronise \/ Restart \/ UNCHANGED vars
         => AtRest' /\ UNCHANGED <<am, secret>>
<1> SUFFICES ASSUME CopyInv, AtRest, BTs' = BTs, edits' = edits,
                    Synchronise \/ Restart \/ UNCHANGED vars
    PROVE  AtRest' /\ UNCHANGED <<am, secret>>
  OBVIOUS
<1>1. /\ \A c \in fresh : copies[c].hash = am.hash
      /\ \A p \in Threads : thread[p].pc \in {"save", "write"} => thread[p].job = secret
      /\ copies \in [Copies -> AM \cup {NoCopy}] /\ fresh \subseteq Copies
      /\ thread \in [Threads -> Thread]
      /\ edits \in Int
  BY BoundsAssumption DEF AtRest, CopyInv, TypeOK
<1>2. CASE EditSpec \/ EditExtra \/ DeliverExtra
  BY <1>1, <1>2 DEF EditSpec, EditExtra, DeliverExtra, AtRest
<1>3. CASE DeliverCR
  BY <1>1, <1>3, RestKept DEF DeliverCR, Copies
<1>4. CASE WatchEnds \/ UNCHANGED vars
  BY <1>1, <1>4, RestKept DEF WatchEnds, vars
<1>5. CASE Restart
  BY <1>1, <1>5, RestKept DEF Restart, IdleThread, AtRest, Copies
<1>6. CASE Reconcile
  <2>1. /\ \A c \in Copies \ {"own"} : copies'[c] = copies[c]
        /\ copies'["own"] = copies["cache"]
        /\ "own" \in fresh' => "own" \in fresh \/ "cache" \in fresh
        /\ \A c \in Copies \ {"own"} : c \in fresh' <=> c \in fresh
        /\ fresh' \subseteq Copies
    BY <1>1, <1>6 DEF Reconcile, Copies
  <2>2. "own" \notin fresh
    BY <1>6 DEF Reconcile, CopyInv, CopiesInMemory
  <2>3. \A c \in fresh' : copies'[c].hash = am.hash
    BY <1>1, <2>1, <2>2 DEF Copies
  <2>4. /\ thread'["worker"].pc = "tryWatch"
        /\ thread'["watcher"] = thread["watcher"]
    BY <1>6, GoToTypes DEF Reconcile, Threads
  <2>5. QED BY <1>1, <1>6, <2>3, <2>4, RestKept DEF Reconcile, Environment, Threads
<1>7. CASE KeepWatch \/ TargetsChanged
  <2>1. /\ thread'["worker"].pc \in {"sync", "render"}
        /\ thread'["watcher"] = thread["watcher"]
    BY <1>7, GoToTypes DEF KeepWatch, TargetsChanged, Threads
  <2>2. QED BY <1>1, <1>7, <2>1, RestKept
    DEF KeepWatch, TargetsChanged, Environment, Threads
<1>8. CASE StartWatch
  <2>1. /\ thread'["worker"].pc = "sync"
        /\ thread'["watcher"] = thread["watcher"]
    BY <1>1, <1>8 DEF StartWatch, OpenWatch, Threads, Thread
  <2>2. \A c \in fresh' : copies'[c].hash = am.hash
    BY <1>1, <1>8 DEF StartWatch, OpenWatch, Copies
  <2>3. QED BY <1>1, <1>8, <2>1, <2>2, RestKept
    DEF StartWatch, OpenWatch, Environment, Threads
<1>9. CASE ExporterConfigFails \/ TargetsUnchanged
  BY <1>1, <1>9, RestReturns DEF ExporterConfigFails, TargetsUnchanged, Environment, Threads
<1>10. CASE ReceiveEvent
  <2>1. /\ thread'["watcher"].pc = "render"
        /\ thread'["worker"] = thread["worker"]
    BY <1>1, <1>10 DEF ReceiveEvent, Threads, Thread
  <2>2. QED BY <1>1, <1>10, <2>1, RestKept DEF ReceiveEvent, Environment, Threads
<1>11. ASSUME NEW p \in Threads, Render(p) PROVE AtRest' /\ UNCHANGED <<am, secret>>
  <2> DEFINE Rendered(f) == [thread EXCEPT
               ![p].pc = "save",
               ![p].job = [targets |-> f,
                           extra |-> IF WatchOn THEN extraCache ELSE NoExtra]]
  <2>0. PICK race \in BOOLEAN :
          \E f \in Flattened(race) : Flatten(race) /\ thread' = Rendered(f)
    BY <1>11 DEF Render
  <2>1. PICK f \in Flattened(race) : Flatten(race) /\ thread' = Rendered(f)
    BY <2>0
  <2>2. f = am.hash
    BY <1>11, <2>1, OneFlattening DEF Render, At
  <2>3. thread'[p].job = secret
    BY <1>1, <2>1, <2>2 DEF AtRest, Thread
  <2>4. \A q \in Threads \ {p} : thread'[q] = thread[q]
    BY <1>1, <2>1
  <2>5. QED BY <1>1, <1>11, <2>3, <2>4, RestKept DEF Render, Environment
<1>12. ASSUME NEW p \in Threads, SaveSucceeds(p) PROVE AtRest' /\ UNCHANGED <<am, secret>>
  <2>1. /\ thread[p].cr \in fresh /\ At(p, "save")
        /\ thread'[p].job = thread[p].job
        /\ \A q \in Threads \ {p} : thread'[q] = thread[q]
    BY <1>12, GoToTypes DEF SaveSucceeds, Save
  <2>2. am' = am /\ copies' = [copies EXCEPT ![thread[p].cr] = am] /\ fresh' = fresh
    BY <1>12, <2>1, OneFlattening DEF SaveSucceeds, Save, At
  <2>3. QED BY <1>1, <1>12, <2>1, <2>2, RestKept DEF SaveSucceeds, Save, Environment, At
<1>13. ASSUME NEW p \in Threads, SaveFails(p) PROVE AtRest' /\ UNCHANGED <<am, secret>>
  <2> DEFINE Kept(f) == [copies EXCEPT ![thread[p].cr] = Hashed(p, f)]
  <2>0. PICK race \in BOOLEAN :
          \E f \in Flattened(race) :
             (Flatten(race) \/ ~race) /\ copies' = Dropped(p, Kept(f))
    BY <1>13 DEF SaveFails, Refuse
  <2>1. PICK f \in Flattened(race) :
          (Flatten(race) \/ ~race) /\ copies' = Dropped(p, Kept(f))
    BY <2>0
  <2>2. /\ Hashed(p, f) \in AM /\ Hashed(p, f).hash = am.hash
    BY <1>13, <2>1, OneFlattening, HashedTypes DEF SaveFails, Refuse, At
  <2>3. /\ Kept(f) \in [Copies -> AM \cup {NoCopy}]
        /\ \A c \in fresh : Kept(f)[c].hash = am.hash
    BY <1>1, <2>2
  <2>4. QED BY <1>13, <2>1, <2>3, RestReturns DEF SaveFails, Refuse, Environment
<1>14. ASSUME NEW p \in Threads, Write(p) \/ WriteFails(p)
       PROVE  AtRest' /\ UNCHANGED <<am, secret>>
  <2>1. secret' = secret
    BY <1>1, <1>14 DEF Write, WriteFails, Finish, At
  <2>2. QED BY <1>1, <1>14, <2>1, RestReturns DEF Write, WriteFails, Finish, Environment
<1>15. QED
  BY <1>2, <1>3, <1>4, <1>5, <1>6, <1>7, <1>8, <1>9, <1>10, <1>11, <1>12, <1>13, <1>14
  DEF Synchronise, WorkerStep, CreateOrUpdate

\* Once the hash and the secret agree with both sources, and unless BTs is written while
\* it is listed, nothing but a change of a source makes the controller write either.
THEOREM RestStaysRest ==
  ASSUME "race" \notin Disturbances
  PROVE  Spec => RestIsStable
<1>1. CopyInv /\ [Next]_vars =>
        [(AtRest /\ BTs' = BTs /\ edits' = edits) => AtRest' /\ UNCHANGED <<am, secret>>]_vars
  BY NextRests DEF Next, ChangeTargets
<1>2. QED BY <1>1, CopiesCorrect, PTL DEF Spec, RestIsStable
=============================================================================
