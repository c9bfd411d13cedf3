-------------------------- MODULE SecretWatch_proofs --------------------------
(***************************************************************************)
(* Proofs about the watch on the user's secret, for every set of settings  *)
(* and every bound: types, the bound on the number of goroutines, and the  *)
(* only way in which r.watch can be set without a goroutine.               *)
(***************************************************************************)
EXTENDS SecretWatch, FiniteSetTheorems, TLAPS

\* A counter below its bound can be increased.
LEMMA OneMore == ASSUME NEW m \in Nat, NEW k \in 0..m, k < m PROVE k + 1 \in 0..m
  OBVIOUS

\* The variables are well typed initially.
LEMMA InitTypes == Init => TypeOK
  BY BoundsAssumption DEF Init, TypeOK, CR, live

\* A restarted process has no goroutines.
LEMMA RestartsTypes == TypeOK /\ Restarts /\ faults' \in 0..MaxFaults => TypeOK'
  BY DEF TypeOK, Restarts, CR, live

\* Every step keeps the types, and no goroutine ends before its channel is closed.
LEMMA NextTypes == TypeOK /\ [Next]_vars => TypeOK'
<1> SUFFICES ASSUME TypeOK, [Next]_vars PROVE TypeOK'
  OBVIOUS
<1> USE DEF TypeOK
<1>1. Fault => faults' \in 0..MaxFaults
  BY OneMore, BoundsAssumption DEF Fault
<1>2. CASE Create
  <2>1. cr.number + 1 \in 0..MaxCRs
    BY <1>2, OneMore, BoundsAssumption DEF Create, CR
  <2>2. cr' \in CR
    BY <1>2, <2>1 DEF Create, CR
  <2>3. QED BY <1>2, <2>2 DEF Create, process, live
<1>3. CASE Edit
  BY <1>3, OneMore, BoundsAssumption DEF Edit, CR, process, live
<1>4. CASE Delete \/ Installs
  BY <1>4 DEF Delete, Installs, CR, process, live
<1>5. CASE Deliver
  BY <1>5 DEF Deliver, process, live
<1>6. CASE Crash
  BY <1>1, <1>6, RestartsTypes DEF Crash
<1>7. ASSUME NEW id \in Ids, StreamEnds(id) \/ ErrorEvent(id) \/ WatchEnds(id)
      PROVE  TypeOK'
  <2>1. CASE StreamEnds(id)
    BY <2>1 DEF StreamEnds, live
  <2>2. CASE ErrorEvent(id)
    BY <1>1, <2>2, RestartsTypes DEF ErrorEvent, Crash
  <2>3. CASE WatchEnds(id)
    BY <2>3 DEF WatchEnds, Ends, live
  <2>4. QED BY <1>7, <2>1, <2>2, <2>3
<1>8. CASE TryWatch
  <2>1. PICK id \in Ids \ live :
          /\ watcher' = [watcher EXCEPT ![id] = [number |-> seen.number,
                                                 setting |-> seen.setting]]
          /\ open' = open \cup {id}
          /\ Call("store", id)
    BY <1>8 DEF TryWatch, StartWatch
  <2>2. [number |-> seen.number, setting |-> seen.setting] \in Watcher
    BY <1>8 DEF TryWatch, StartWatch, CR, Watcher
  <2>3. worker' \in Running
    BY <2>1 DEF Call, Running, CR
  <2>4. open' \subseteq live'
    BY <2>1, <2>2, NoneAssumption DEF live
  <2>5. QED BY <1>8, <2>1, <2>2, <2>3, <2>4 DEF TryWatch, StartWatch
<1>9. CASE TryWatchFails
  BY <1>1, <1>9 DEF TryWatchFails, process, live
<1>10. ~At("idle") => worker \in Running
  BY DEF At, Idle
<1>11. CASE StoreWatch
  BY <1>10, <1>11 DEF StoreWatch, At, Running, live
<1>12. ASSUME NEW id \in Ids, StoreTorn(id) PROVE TypeOK'
  BY <1>12 DEF StoreTorn, live
<1>13. CASE CheckWatch
  BY <1>13 DEF CheckWatch, Deleted, Call, Running, CR, live
<1>14. CASE StopWatch \/ ClearWatch
  <2>1. worker' \in Running
    BY <1>10, <1>14 DEF StopWatch, ClearWatch, GoTo, At, Running
  <2>2. QED BY <1>14, <2>1 DEF StopWatch, ClearWatch, live
<1>15. CASE StopPanics
  BY <1>15, RestartsTypes DEF StopPanics
<1>16. CASE Cleanup
  BY <1>16 DEF Cleanup, CR, live
<1>17. CASE CleanupFails
  BY <1>1, <1>17 DEF CleanupFails, live
<1>18. CASE UNCHANGED vars
  BY <1>18 DEF vars, process, live
<1>19. QED
  BY <1>2, <1>3, <1>4, <1>5, <1>6, <1>7, <1>8, <1>9, <1>11, <1>12, <1>13, <1>14, <1>15,
     <1>16, <1>17, <1>18 DEF Next, Step

\* The variables keep their types: no goroutine ends while its channel is open.
THEOREM WatchTypeCorrect == Spec => []TypeOK
<1>1. QED BY InitTypes, NextTypes, PTL DEF Spec
-----------------------------------------------------------------------------
(* The number of goroutines. *)

\* The informer lags behind the API server; a CR whose deletion it has seen is not
\* steady again.
Lag ==
  /\ first <= seen.number /\ seen.number <= cr.number
  /\ seen.state = "steady" => cr.number = seen.number /\ cr.state \in {"steady", "deleting"}
  /\ seen.state \in {"none", "deleting"} /\ cr.number = seen.number
       => cr.state \in {"none", "deleting"}

\* What a call that found the CR deleted knows of CR c.
Past(c) ==
  \/ worker.number < c.number
  \/ worker.number = c.number /\ c.state \in {"none", "deleting"}

\* The CR is there for as long as r.watch is set, or about to be.
Held ==
  /\ watch # None \/ worker.pc \in {"store", "stop", "clear"}
       => /\ cr.number = seen.number
          /\ cr.state \in {"steady", "deleting"} /\ seen.state \in {"steady", "deleting"}
  /\ At("store") => worker.watch \in Ids
  /\ worker.pc \in {"stop", "clear"} => seen.state = "deleting" /\ cr.state = "deleting"
  /\ worker.pc \in {"stop", "clear", "cleanup"} => Past(cr) /\ Past(seen)
  /\ At("cleanup") => watch = None

\* There is room for one more goroutine when a watch can be started.
Room ==
  watch = None /\ ~At("store") /\ seen.state \in {"installing", "steady"}
    => Cardinality(live) <= seen.number - first

IInv == TypeOK /\ Lag /\ Held /\ Room /\ WatchersBounded

\* There are no goroutines, and no CR, initially.
LEMMA InitIInv == Init => IInv
<1> SUFFICES ASSUME Init PROVE IInv
  OBVIOUS
<1>1. live = {} /\ Cardinality(live) = 0
  BY FS_EmptySet DEF Init, live
<1>2. QED
  BY <1>1, InitTypes
  DEF Init, IInv, Lag, Held, Room, WatchersBounded, At, Idle

\* Goroutines can be counted, and one more or one less makes a difference of one.
LEMMA LiveCount ==
  ASSUME TypeOK
  PROVE  /\ IsFiniteSet(live) /\ Cardinality(live) \in Nat
         /\ \A id \in live : Cardinality(live \ {id}) = Cardinality(live) - 1
         /\ \A id \in Ids \ live : Cardinality(live \cup {id}) = Cardinality(live) + 1
<1>1. IsFiniteSet(live)
  BY IdsAssumption, FS_Subset DEF live
<1>2. QED BY <1>1, FS_CardinalityType, FS_AddElement, FS_RemoveElement

\* A new process has no goroutines, and knows the CR as it is.
LEMMA RestartsIInv == IInv /\ Restarts /\ TypeOK' => IInv'
<1> SUFFICES ASSUME IInv, Restarts, TypeOK' PROVE IInv'
  OBVIOUS
<1>1. live' = {} /\ Cardinality(live') = 0
  BY FS_EmptySet DEF Restarts, live
<1>2. cr \in CR
  BY DEF IInv, TypeOK
<1>3. QED
  BY <1>1, <1>2 DEF Restarts, IInv, Lag, Held, Room, WatchersBounded, At, Idle, CR

\* The CR changes, or what the informer knows of it; the process does not.
LEMMA CRSteps ==
  ASSUME IInv, TypeOK', Create \/ Edit \/ Delete \/ Deliver \/ Installs
  PROVE  IInv'
<1> USE DEF IInv
<1>1. UNCHANGED <<first, watch, watcher, open, worker>> /\ live' = live
  BY DEF Create, Edit, Delete, Deliver, Installs, process, live
<1>2. cr \in CR /\ seen \in CR /\ cr' \in CR /\ seen' \in CR /\ first \in 0..MaxCRs
  BY DEF TypeOK
<1>3. Cardinality(live) \in Nat
  BY LiveCount
<1>4. worker \in Running \cup {Idle}
  BY DEF TypeOK
<1>5. CASE Deliver
  <2>1. seen' = cr /\ cr' = cr
    BY <1>5 DEF Deliver
  <2>2. Lag'
    BY <1>1, <1>2, <2>1 DEF Lag, CR
  <2>3. Held'
    BY <1>1, <2>1 DEF Held, Past, At
  <2>4. Room' /\ WatchersBounded'
    BY <1>1, <1>2, <1>3, <2>1 DEF Lag, Room, WatchersBounded, At, CR
  <2>5. QED BY <2>2, <2>3, <2>4
<1>6. CASE Create \/ Edit \/ Delete \/ Installs
  <2>1. seen' = seen
    BY <1>6 DEF Create, Edit, Delete, Installs
  <2>2. Room' /\ WatchersBounded'
    BY <1>1, <2>1 DEF Room, WatchersBounded, At
  <2>3. Lag'
    BY <1>1, <1>2, <1>6, <2>1 DEF Create, Edit, Delete, Installs, Lag, CR
  <2>4. Held'
    <3>1. CASE Create
      <4>1. watch = None /\ worker.pc \notin {"store", "stop", "clear"}
        BY <3>1 DEF Create, Held
      <4>2. /\ cr'.number = cr.number + 1
            /\ At("cleanup") => worker.number \in Nat
        BY <1>2, <1>4, <3>1 DEF Create, CR, At, Running, Idle
      <4>3. At("cleanup") => Past(cr)'
        BY <1>1, <1>2, <4>2 DEF Held, Past, At, CR
      <4>4. QED BY <1>1, <2>1, <4>1, <4>3 DEF Held, Past, At
    <3>2. CASE Edit \/ Delete \/ Installs
      <4>1. cr'.number = cr.number
        BY <1>2, <3>2 DEF Edit, Delete, Installs, CR
      <4>2. /\ cr.state = "deleting" => cr'.state = "deleting"
            /\ cr.state = "none" => cr'.state = "none"
            /\ cr.state = "steady" => cr'.state \in {"steady", "deleting"}
        BY <1>2, <3>2 DEF Edit, Delete, Installs, CR
      <4>3. QED BY <1>1, <2>1, <4>1, <4>2 DEF Held, Past, At
    <3>3. QED BY <1>6, <3>1, <3>2
  <2>5. QED BY <2>2, <2>3, <2>4
<1>7. QED BY <1>5, <1>6

\* The steps of the threads, other than those that end the process.
LEMMA ThreadSteps ==
  ASSUME IInv, TypeOK',
         \/ \E id \in Ids : StreamEnds(id) \/ WatchEnds(id) \/ StoreTorn(id)
         \/ TryWatch \/ TryWatchFails \/ StoreWatch
         \/ CheckWatch \/ StopWatch \/ ClearWatch
         \/ Cleanup \/ CleanupFails
  PROVE  IInv'
<1> USE DEF IInv
<1>1. seen \in CR /\ cr \in CR /\ first \in 0..MaxCRs
  BY DEF TypeOK
<1>2. worker \in Running \cup {Idle} /\ watcher \in [Ids -> Watcher \cup {None}]
  BY DEF TypeOK
<1>3. Cardinality(live) \in Nat
  BY LiveCount
<1>4. ASSUME NEW id \in Ids, StreamEnds(id) PROVE IInv'
  BY <1>4 DEF StreamEnds, Lag, Held, Past, Room, WatchersBounded, At, live
<1>5. ASSUME NEW id \in Ids, WatchEnds(id) \/ StoreTorn(id) PROVE IInv'
  <2>1. id \in live /\ live' = live \ {id}
    BY <1>2, <1>5 DEF WatchEnds, Ends, StoreTorn, live
  <2>2. Cardinality(live') = Cardinality(live) - 1
    BY <2>1, LiveCount
  <2>3. UNCHANGED <<cr, seen, first>>
    BY <1>5 DEF WatchEnds, Ends, StoreTorn
  <2>4. Lag' /\ Room' /\ WatchersBounded'
    BY <1>1, <1>3, <2>2, <2>3 DEF Lag, Room, WatchersBounded, CR
  <2>5. Held'
    BY <1>5, <2>3 DEF WatchEnds, Ends, StoreTorn, Held, Past, At, Idle
  <2>6. QED BY <2>4, <2>5
<1>6. CASE TryWatch
  <2>1. PICK id \in Ids \ live :
          /\ watcher' = [watcher EXCEPT ![id] = [number |-> seen.number,
                                                 setting |-> seen.setting]]
          /\ Call("store", id)
    BY <1>6 DEF TryWatch, StartWatch
  <2>2. UNCHANGED <<cr, seen, first, watch>> /\ watch = None
    BY <1>6 DEF TryWatch, StartWatch
  <2>3. [number |-> seen.number, setting |-> seen.setting] # None
    BY <1>1, <1>6, NoneAssumption DEF TryWatch, StartWatch, CR, Watcher
  <2>4. live' = live \cup {id}
    BY <1>2, <2>1, <2>3 DEF live
  <2>5. Cardinality(live') = Cardinality(live) + 1
    BY <2>4, LiveCount
  <2>6. seen.state = "steady" /\ worker = Idle
    BY <1>6 DEF TryWatch, StartWatch
  <2>7. Cardinality(live) <= seen.number - first
    BY <2>2, <2>6 DEF Room, At, Idle
  <2>8. worker'.pc = "store" /\ worker'.watch = id
    BY <2>1 DEF Call
  <2>9. Room' /\ WatchersBounded'
    BY <1>1, <1>3, <2>2, <2>5, <2>7, <2>8 DEF Room, WatchersBounded, At, CR
  <2>10. Lag' /\ Held'
    BY <2>2, <2>6, <2>8 DEF Lag, Held, Past, At
  <2>11. QED BY <2>9, <2>10
<1>7. CASE TryWatchFails
  BY <1>7 DEF TryWatchFails, process, Lag, Held, Past, Room, WatchersBounded, At, live
<1>8. CASE StoreWatch
  <2>1. worker.watch \in Ids /\ watch' # None
    BY <1>8, IdsAssumption DEF StoreWatch, Held
  <2>2. live' = live /\ UNCHANGED <<cr, seen, first>>
    BY <1>8 DEF StoreWatch, live
  <2>3. Held'
    BY <1>8, <2>2 DEF StoreWatch, Held, Past, At, Idle
  <2>4. QED BY <2>1, <2>2, <2>3 DEF Lag, Room, WatchersBounded
<1>9. CASE CheckWatch
  <2>1. UNCHANGED <<cr, seen, first, watch>> /\ live' = live
    BY <1>9 DEF CheckWatch, Deleted, live
  <2>2. /\ worker'.pc = IF watch = None THEN "cleanup" ELSE "stop"
        /\ worker'.number = seen.number
    BY <1>9 DEF CheckWatch, Deleted, Call
  <2>3. seen.state = "deleting"
    BY <1>9 DEF CheckWatch, Deleted
  <2>4. Lag' /\ Room' /\ WatchersBounded'
    BY <2>1, <2>3 DEF Lag, Room, WatchersBounded
  <2>5. Past(cr)' /\ Past(seen)'
    BY <1>1, <2>1, <2>2, <2>3 DEF Lag, Past, CR
  <2>6. watch # None => cr.state = "deleting" /\ cr.number = seen.number
    BY <2>3 DEF Held, Lag
  <2>7. Held'
    BY <2>1, <2>2, <2>3, <2>5, <2>6 DEF Held, At
  <2>8. QED BY <2>4, <2>7
<1>10. CASE StopWatch \/ ClearWatch
  <2>1. UNCHANGED <<cr, seen, first>> /\ live' = live
    BY <1>10 DEF StopWatch, ClearWatch, live
  <2>2. worker \in Running
    BY <1>2, <1>10 DEF StopWatch, ClearWatch, At, Idle
  <2>3. worker'.number = worker.number /\ seen.state = "deleting"
    BY <1>10, <2>2 DEF StopWatch, ClearWatch, GoTo, Running, At, Held
  <2>4. CASE StopWatch
    <3>1. worker'.pc = "clear" /\ watch' = watch
      BY <2>2, <2>4 DEF StopWatch, GoTo, Running
    <3>2. QED
      BY <2>1, <2>3, <2>4, <3>1
      DEF StopWatch, Lag, Held, Past, Room, WatchersBounded, At
  <2>5. CASE ClearWatch
    <3>1. worker'.pc = "cleanup" /\ watch' = None
      BY <2>2, <2>5 DEF ClearWatch, GoTo, Running
    <3>2. QED
      BY <2>1, <2>3, <2>5, <3>1
      DEF ClearWatch, Lag, Held, Past, Room, WatchersBounded, At
  <2>6. QED BY <1>10, <2>4, <2>5
<1>11. CASE Cleanup
  <2>1. UNCHANGED <<seen, first, watch, watcher>> /\ worker' = Idle /\ live' = live
    BY <1>11 DEF Cleanup, live
  <2>2. /\ watch = None /\ Past(seen)
        /\ cr.number = worker.number /\ cr.state = "deleting"
    BY <1>11 DEF Cleanup, Current, Held, At
  <2>3. cr'.number = cr.number /\ cr'.state = "none"
    BY <1>1, <1>11 DEF Cleanup, CR
  <2>4. Lag'
    BY <1>1, <2>1, <2>2, <2>3 DEF Lag, Past, CR
  <2>5. Held'
    BY <2>1, <2>2 DEF Held, At, Idle
  <2>6. ~At("store")
    BY <1>11 DEF Cleanup, At
  <2>7. Room' /\ WatchersBounded'
    BY <2>1, <2>2, <2>6 DEF Room, WatchersBounded
  <2>8. QED BY <2>4, <2>5, <2>7
<1>12. CASE CleanupFails
  <2>1. UNCHANGED <<cr, seen, first, watch>> /\ worker' = Idle /\ live' = live
    BY <1>12 DEF CleanupFails, live
  <2>2. watch = None /\ ~At("store")
    BY <1>12 DEF CleanupFails, Held, At
  <2>3. QED BY <2>1, <2>2 DEF Lag, Held, Room, WatchersBounded, At, Idle
<1>13. QED BY <1>4, <1>5, <1>6, <1>7, <1>8, <1>9, <1>10, <1>11, <1>12

\* The invariant is inductive.
LEMMA NextIInv == IInv /\ [Next]_vars => IInv'
<1> SUFFICES ASSUME IInv, [Next]_vars PROVE IInv'
  OBVIOUS
<1>1. TypeOK'
  BY NextTypes DEF IInv
<1>2. CASE UNCHANGED vars
  BY <1>1, <1>2
  DEF vars, process, IInv, Lag, Held, Past, Room, WatchersBounded, At, live
<1>3. CASE Restarts
  BY <1>1, <1>3, RestartsIInv
<1>4. QED
  BY <1>1, <1>2, <1>3, CRSteps, ThreadSteps DEF Next, Step, Crash, ErrorEvent, StopPanics

\* However late goroutines end, there are never more of them than CRs that the process
\* has seen.
THEOREM WatchersStayFew == Spec => []WatchersBounded
<1>1. IInv => WatchersBounded
  BY DEF IInv
<1>2. QED BY <1>1, InitIInv, NextIInv, PTL DEF Spec
-----------------------------------------------------------------------------
(* The watch dies only early. *)

\* A step that makes r.watch a watch without a goroutine stores it.
LEMMA DeathStep ==
  ASSUME IInv, [Next]_vars, ~Dead, Dead'
  PROVE  At("store") /\ (worker.watch \notin live \/ watch' = Torn)
<1>1. watch = None \/ watch \in live
  BY DEF Dead
<1>2. watch' # None /\ watch' \notin live'
  BY DEF Dead
<1>3. watcher \in [Ids -> Watcher \cup {None}]
  BY DEF IInv, TypeOK
<1>4. UNCHANGED <<watch, live>> => FALSE
  BY <1>1, <1>2
<1>5. CASE \/ UNCHANGED vars
           \/ Create \/ Edit \/ Delete \/ Deliver \/ Installs \/ TryWatchFails
           \/ \E id \in Ids : StreamEnds(id)
           \/ CheckWatch \/ StopWatch \/ Cleanup \/ CleanupFails
  BY <1>4, <1>5
  DEF vars, process, Create, Edit, Delete, Deliver, Installs, TryWatchFails, StreamEnds,
      CheckWatch, Deleted, StopWatch, Cleanup, CleanupFails, live
<1>6. CASE \/ Crash \/ \E id \in Ids : ErrorEvent(id) \/ WatchEnds(id)
           \/ TryWatch \/ StopPanics \/ ClearWatch
  BY <1>2, <1>6
  DEF Crash, ErrorEvent, Restarts, WatchEnds, Ends, TryWatch, StartWatch, StopPanics,
      ClearWatch
<1>7. CASE StoreWatch \/ \E id \in Ids : StoreTorn(id)
  BY <1>2, <1>7 DEF StoreWatch, StoreTorn, live
<1>8. QED BY <1>5, <1>6, <1>7 DEF Next, Step

\* No late goroutine, no deletion and no crash leaves r.watch set without a goroutine
\* that would clear it: that takes a stream that ends as the watch is being stored.
THEOREM DeathIsEarly == Spec => DeadOnlyByEarlyEnd
<1>1. IInv /\ [Next]_vars
        => [~Dead /\ Dead' => At("store") /\ (worker.watch \notin live \/ watch' = Torn)]_vars
  BY DeathStep
<1>2. QED BY <1>1, InitIInv, NextIInv, PTL DEF Spec, DeadOnlyByEarlyEnd
=============================================================================
