----------------------- MODULE BlackboxTargets_proofs -----------------------
(***************************************************************************)
(* Proofs about the BlackboxTarget controller, for every set of names and  *)
(* target lists and every bound.                                           *)
(***************************************************************************)
EXTENDS BlackboxTargets, TLAPS

\* The worker is at the step that the phase of its instance calls for.
StepMatchesPhase ==
  worker # Idle =>
    /\ worker.pc = "setFinalizer" => worker.instance.phase = PhaseFinalizer
    /\ worker.pc = "updatePhase" => worker.instance.phase = PhaseDone
    /\ worker.pc \in {"account", "targets", "removeFinalizer"} =>
         worker.instance.phase = PhaseReconcileConfig
    /\ worker.pc = "removeFinalizer" => worker.instance.deleting

\* What a matching resourceVersion is worth: the copy is the stored CR.  The
\* worker reads from the cache, so its copy goes stale no later than the cache.
FreshCopies ==
  \A n \in Names :
    /\ "cache" \in fresh[n] => cache[n] = bt[n]
    /\ "worker" \in fresh[n] =>
         /\ "cache" \in fresh[n]
         /\ worker # Idle
         /\ worker.name = n
         /\ worker.instance = bt[n]

LockInv == TypeOK /\ StepMatchesPhase /\ FreshCopies

\* CR n is past setFinalizer and held by the operator's finalizer.
Held(n) ==
  /\ bt[n] # Absent
  /\ bt[n].phase = PhaseReconcileConfig
  /\ MonitoringFinalizerName \in bt[n].finalizers

\* The finalizer is the only one, and is there from PhaseDone on.
FinalizerFirst ==
  \A n \in Unheld : bt[n] # Absent =>
    /\ bt[n].finalizers \subseteq {MonitoringFinalizerName}
    /\ bt[n].phase # PhaseFinalizer => bt[n].finalizers = {MonitoringFinalizerName}

\* However stale, a copy that makes the worker publish targets is a copy of a
\* CR that is still held, and a CR about to be released has no entry.
StaleCopiesHeld ==
  /\ \A n \in Unheld : Publishes(cache[n]) => Held(n)
  /\ (worker # Idle /\ worker.name \in Unheld) =>
       (Publishes(worker.instance) => Held(worker.name))
  /\ worker.pc = "removeFinalizer" => BTs[worker.name] = NoEntry

OrphanInv == LockInv /\ FinalizerFirst /\ StaleCopiesHeld /\ NoOrphanTargets
-----------------------------------------------------------------------------
(* Typing and optimistic locking. *)

\* What the operator writes is a BlackboxTarget.
LEMMA StepTypes ==
  ASSUME NEW step \in {"setFinalizer", "updatePhase", "removeFinalizer"},
         NEW o \in BlackboxTarget
  PROVE  Desired(step, o) \in BlackboxTarget
<1> USE DEF BlackboxTarget, PhaseFinalizer, PhaseDone, PhaseReconcileConfig
<1>1. CASE step = "setFinalizer"
  <2> DEFINE held == IF o.finalizers = {} THEN {MonitoringFinalizerName}
                                          ELSE o.finalizers
  <2>1. held \in SUBSET (ForeignFinalizers \cup {MonitoringFinalizerName})
    OBVIOUS
  <2>2. Desired(step, o) = [o EXCEPT !.finalizers = held, !.phase = PhaseDone]
    BY <1>1 DEF Desired
  <2>3. [o EXCEPT !.finalizers = held] \in BlackboxTarget
    <3> HIDE DEF held
    <3>1. QED BY <2>1
  <2>4. [[o EXCEPT !.finalizers = held] EXCEPT !.phase = PhaseDone] \in BlackboxTarget
    <3> DEFINE p == [o EXCEPT !.finalizers = held]
    <3> HIDE DEF p
    <3>1. p \in BlackboxTarget
      BY <2>3 DEF p
    <3>2. [p EXCEPT !.phase = PhaseDone] \in BlackboxTarget
      BY <3>1
    <3>3. QED BY <3>2 DEF p
  <2>5. QED BY <2>2, <2>4
<1>2. CASE step = "updatePhase"
  BY <1>2 DEF Desired
<1>3. CASE step = "removeFinalizer"
  BY <1>3 DEF Desired
<1>4. QED BY <1>1, <1>2, <1>3

\* A write stores a well-formed CR, or removes it.
LEMMA WriteTypes ==
  ASSUME TypeOK, NEW n \in Names, NEW o \in BlackboxTarget, Write(n, o)
  PROVE  /\ bt' \in [Names -> BlackboxTarget \cup {Absent}]
         /\ fresh' \in [Names -> SUBSET {"cache", "worker"}]
         /\ bt'[n] = Stored(o)
         /\ fresh'[n] = {}
         /\ \A m \in Names \ {n} : bt'[m] = bt[m] /\ fresh'[m] = fresh[m]
  BY DEF TypeOK, Write, Stored

\* In the beginning nothing exists and every copy is up to date.
LEMMA InitLockInv == Init => LockInv
<1> SUFFICES ASSUME Init PROVE LockInv
  OBVIOUS
<1>1. TypeOK
  <2>1. 0 \in 0..MaxEdits /\ 0 \in 0..MaxCrashes
    BY BoundsAssumption
  <2>2. QED BY <2>1 DEF Init, TypeOK
<1>2. StepMatchesPhase
  BY DEF Init, StepMatchesPhase
<1>3. FreshCopies
  BY DEF Init, FreshCopies
<1>4. QED BY <1>1, <1>2, <1>3 DEF LockInv

\* What users and other controllers write is a CR, and the cache and the worker
\* are left alone.
LEMMA OutsideWrite ==
  ASSUME LockInv, NEW n \in Names,
         Create(n) \/ Edit(n) \/ Delete(n) \/ ForeignHold(n) \/ ForeignRelease(n)
  PROVE  /\ \E o \in BlackboxTarget : Write(n, o)
         /\ UNCHANGED <<cache, queue, worker, BTs, account, crashes>>
         /\ edits' \in 0..MaxEdits
<1>1. bt[n] \in BlackboxTarget \cup {Absent}
  BY DEF LockInv, TypeOK
<1>2. UNCHANGED <<cache, queue, worker, BTs, account, crashes>> /\ edits' \in 0..MaxEdits
  BY BoundsAssumption DEF LockInv, TypeOK, Create, Edit, Delete, ForeignHold,
     ForeignRelease, UserStep
<1>3. CASE Create(n)
  <2>1. PICK t \in TargetLists :
          Write(n, [targets |-> t, finalizers |-> {},
                    deleting |-> FALSE, phase |-> PhaseFinalizer])
    BY <1>3 DEF Create
  <2>2. [targets |-> t, finalizers |-> {}, deleting |-> FALSE,
         phase |-> PhaseFinalizer] \in BlackboxTarget
    BY DEF BlackboxTarget, PhaseFinalizer, PhaseReconcileConfig
  <2>3. QED BY <2>1, <2>2, <1>2
<1>4. CASE Edit(n)
  BY <1>4, <1>1, <1>2 DEF Edit, BlackboxTarget
<1>5. CASE Delete(n)
  BY <1>5, <1>1, <1>2 DEF Delete, BlackboxTarget
<1>6. CASE ForeignHold(n)
  BY <1>6, <1>1, <1>2 DEF ForeignHold, BlackboxTarget
<1>7. CASE ForeignRelease(n)
  BY <1>7, <1>1, <1>2 DEF ForeignRelease, BlackboxTarget
<1>8. QED BY <1>3, <1>4, <1>5, <1>6, <1>7

\* A write by anyone keeps the locking invariant if the worker stays as it is or
\* becomes idle.
LEMMA LockInvAfterWrite ==
  ASSUME LockInv, NEW n \in Names, NEW o \in BlackboxTarget, Write(n, o),
         UNCHANGED <<cache, queue, BTs, account, crashes>>,
         edits' \in 0..MaxEdits,
         UNCHANGED worker \/ (worker' = Idle /\ worker.name = n)
  PROVE  LockInv'
<1> USE DEF LockInv
<1>1. TypeOK'
  BY WriteTypes DEF TypeOK
<1>2. StepMatchesPhase'
  BY DEF StepMatchesPhase, Idle
<1>3. FreshCopies'
  <2> SUFFICES ASSUME NEW m \in Names
      PROVE /\ "cache" \in fresh'[m] => cache'[m] = bt'[m]
            /\ "worker" \in fresh'[m] =>
                 /\ "cache" \in fresh'[m]
                 /\ worker' # Idle
                 /\ worker'.name = m
                 /\ worker'.instance = bt'[m]
    BY DEF FreshCopies
  <2>1. CASE m = n
    BY <2>1, WriteTypes
  <2>2. CASE m # n
    BY <2>2, WriteTypes DEF FreshCopies
  <2>3. QED BY <2>1, <2>2
<1>4. QED BY <1>1, <1>2, <1>3

\* Locking and typing are preserved by every step.
LEMMA LockInvNext == LockInv /\ [Next]_vars => LockInv'
<1> SUFFICES ASSUME LockInv, [Next]_vars PROVE LockInv'
  OBVIOUS
<1> USE DEF LockInv
<1>1. ASSUME NEW n \in Names,
             Create(n) \/ Edit(n) \/ Delete(n) \/ ForeignHold(n) \/ ForeignRelease(n)
      PROVE  LockInv'
  <2>1. PICK o \in BlackboxTarget : Write(n, o)
    BY <1>1, OutsideWrite
  <2>2. QED BY <1>1, <2>1, OutsideWrite, LockInvAfterWrite
<1>2. ASSUME NEW n \in Names, UpdateSucceeds(n)
      PROVE  LockInv'
  <2>1. worker.instance \in BlackboxTarget
    BY <1>2 DEF UpdateSucceeds, Commit, Updating, TypeOK, Running, Idle
  <2>2. Desired(worker.pc, worker.instance) \in BlackboxTarget
    BY <1>2, <2>1, StepTypes DEF UpdateSucceeds, Commit, Updating
  <2>3. QED BY <1>2, <2>2, LockInvAfterWrite DEF UpdateSucceeds, Commit, TypeOK
<1>3. ASSUME NEW n \in Names, Deliver(n)
      PROVE  LockInv'
  BY <1>3 DEF Deliver, TypeOK, StepMatchesPhase, FreshCopies
<1>4. ASSUME NEW n \in Names, ReconcileNotFound(n)
      PROVE  LockInv'
  BY <1>4 DEF ReconcileNotFound, TypeOK, StepMatchesPhase, FreshCopies
<1>5. ASSUME NEW n \in Names, Reconcile(n)
      PROVE  LockInv'
  <2>1. cache[n] \in BlackboxTarget
    BY <1>5 DEF Reconcile, TypeOK
  <2>2. cache[n].phase \in {PhaseFinalizer, PhaseDone, PhaseReconcileConfig}
    BY <2>1 DEF BlackboxTarget, PhaseFinalizer, PhaseDone, PhaseReconcileConfig
  <2>3. /\ worker' \in Running
        /\ worker' # Idle
        /\ worker'.name = n
        /\ worker'.instance = cache[n]
        /\ worker'.pc = FirstStep(cache[n].phase)
    BY <1>5, <2>1, <2>2
    DEF Reconcile, Running, Idle, FirstStep, PhaseFinalizer, PhaseDone, PhaseReconcileConfig
  <2>4. TypeOK'
    BY <1>5, <2>3 DEF Reconcile, TypeOK
  <2>5. StepMatchesPhase'
    BY <2>2, <2>3
    DEF StepMatchesPhase, FirstStep, PhaseFinalizer, PhaseDone, PhaseReconcileConfig
  <2>6. FreshCopies'
    BY <1>5, <2>3 DEF Reconcile, FreshCopies, TypeOK
  <2>7. QED BY <2>4, <2>5, <2>6
<1>6. ASSUME NEW n \in Names, UpdateFails(n)
      PROVE  LockInv'
  BY <1>6 DEF UpdateFails, Abandon, Return, TypeOK, StepMatchesPhase, FreshCopies
<1>7. ASSUME NEW n \in Names, SetEntry(n)
      PROVE  LockInv'
  BY <1>7 DEF SetEntry, PutEntry, Return, TypeOK, Running, Idle, BlackboxTarget,
              StepMatchesPhase, FreshCopies
<1>8. ASSUME NEW n \in Names, DropEntry(n)
      PROVE  LockInv'
  BY <1>8 DEF DropEntry, TakeEntry, TypeOK, Running, Idle, StepMatchesPhase, FreshCopies
<1>9. CASE EnsureAccount
  <2>1. worker \in Running
    BY <1>9 DEF EnsureAccount, TypeOK, Idle
  <2>2. TypeOK'
    BY <1>9, <2>1 DEF EnsureAccount, TypeOK, Running
  <2>3. StepMatchesPhase'
    BY <1>9, <2>1 DEF EnsureAccount, StepMatchesPhase, Running, Idle
  <2>4. FreshCopies'
    BY <1>9, <2>1 DEF EnsureAccount, FreshCopies, Running, Idle
  <2>5. QED BY <2>2, <2>3, <2>4
<1>10. CASE Resync
  BY <1>10 DEF Resync, TypeOK, StepMatchesPhase, FreshCopies
<1>11. CASE Restart
  BY <1>11, BoundsAssumption DEF Restart, TypeOK, StepMatchesPhase, FreshCopies
<1>12. CASE UNCHANGED vars
  BY <1>12 DEF vars, TypeOK, StepMatchesPhase, FreshCopies
<1>13. QED
  BY <1>1, <1>2, <1>3, <1>4, <1>5, <1>6, <1>7, <1>8, <1>9, <1>10, <1>11, <1>12
  DEF Next

\* Every reachable state is well typed, and a copy with the current
\* resourceVersion is the stored CR.
THEOREM LockingCorrect == Spec => []LockInv
  BY InitLockInv, LockInvNext, PTL DEF Spec

\* The variables keep their types.
THEOREM TypeCorrect == Spec => []TypeOK
<1>1. LockInv => TypeOK
  BY DEF LockInv
<1>2. QED BY <1>1, LockingCorrect, PTL
-----------------------------------------------------------------------------
(* No write of the operator takes back a user's. *)

\* What an accepted Update changes: the phase, forwards, and the finalizers.
LEMMA AcceptedUpdate ==
  ASSUME LockInv, NEW n \in Names, UpdateSucceeds(n)
  PROVE  /\ bt[n] \in BlackboxTarget
         /\ worker.instance = bt[n]
         /\ cache[n] = bt[n]
         /\ Desired(worker.pc, bt[n]).targets = bt[n].targets
         /\ Desired(worker.pc, bt[n]).deleting = bt[n].deleting
         /\ Desired(worker.pc, bt[n]).phase >= bt[n].phase
         /\ bt'[n] = Stored(Desired(worker.pc, bt[n]))
<1>1. bt[n] \in BlackboxTarget /\ worker.instance = bt[n] /\ cache[n] = bt[n]
  BY DEF LockInv, TypeOK, FreshCopies, UpdateSucceeds, Commit, Updating, Running, Idle
<1>2. Desired(worker.pc, bt[n]) \in BlackboxTarget
  BY <1>1, StepTypes DEF UpdateSucceeds, Commit, Updating
<1>3. bt'[n] = Stored(Desired(worker.pc, bt[n]))
  BY <1>1, <1>2, WriteTypes DEF UpdateSucceeds, Commit, LockInv
<1>4. /\ Desired(worker.pc, bt[n]).targets = bt[n].targets
      /\ Desired(worker.pc, bt[n]).deleting = bt[n].deleting
  BY <1>1 DEF UpdateSucceeds, Commit, Updating, Desired, BlackboxTarget
<1>5. Desired(worker.pc, bt[n]).phase >= bt[n].phase
  <2>1. CASE worker.pc = "setFinalizer"
    <3>1. bt[n].phase = PhaseFinalizer
      BY <1>1, <2>1 DEF LockInv, StepMatchesPhase, UpdateSucceeds, Commit, Updating, Idle
    <3>2. Desired(worker.pc, bt[n]).phase = PhaseDone
      BY <1>1, <2>1 DEF Desired, BlackboxTarget
    <3>3. QED BY <3>1, <3>2 DEF PhaseFinalizer, PhaseDone
  <2>2. CASE worker.pc = "updatePhase"
    <3>1. bt[n].phase = PhaseDone
      BY <1>1, <2>2 DEF LockInv, StepMatchesPhase, UpdateSucceeds, Commit, Updating, Idle
    <3>2. Desired(worker.pc, bt[n]).phase = PhaseReconcileConfig
      BY <1>1, <2>2 DEF Desired, BlackboxTarget
    <3>3. QED BY <3>1, <3>2 DEF PhaseDone, PhaseReconcileConfig
  <2>3. CASE worker.pc = "removeFinalizer"
    BY <1>1, <2>3 DEF Desired, BlackboxTarget, PhaseFinalizer, PhaseReconcileConfig
  <2>4. QED BY <2>1, <2>2, <2>3 DEF UpdateSucceeds, Commit, Updating
<1>6. QED BY <1>1, <1>3, <1>4, <1>5

\* The steps that write no CR.
InsideStep ==
  \/ \E n \in Names : \/ Deliver(n) \/ ReconcileNotFound(n) \/ Reconcile(n)
                      \/ UpdateFails(n) \/ SetEntry(n) \/ DropEntry(n)
  \/ EnsureAccount \/ Resync \/ Restart \/ UNCHANGED vars

\* They leave the stored CRs alone.
LEMMA InsideStepWritesNothing == InsideStep => UNCHANGED bt
  BY DEF InsideStep, Deliver, ReconcileNotFound, Reconcile, UpdateFails, Abandon, SetEntry, PutEntry,
         DropEntry, TakeEntry, EnsureAccount, Resync, Restart, vars

\* Whatever users do and however stale the cache is, the operator's writes never
\* undo an edit or a deletion, and phases only go forward.
THEOREM NoUpdateIsLost == Spec => NoLostUpdate
<1> DEFINE Kept(n) ==
      (bt[n] # Absent /\ bt'[n] # Absent /\ bt'[n] # bt[n]) =>
         /\ bt'[n].phase >= bt[n].phase
         /\ bt[n].deleting => bt'[n].deleting
         /\ bt'[n].targets # bt[n].targets => edits' = edits + 1
<1>1. LockInv /\ [Next]_vars => [\A n \in Names : Kept(n)]_vars
  <2> SUFFICES ASSUME LockInv, [Next]_vars, NEW n \in Names,
                      bt[n] # Absent, bt'[n] # Absent, bt'[n] # bt[n]
      PROVE  Kept(n)
    OBVIOUS
  <2>1. bt[n] \in BlackboxTarget /\ bt[n].phase >= bt[n].phase
    BY DEF LockInv, TypeOK, BlackboxTarget, PhaseFinalizer, PhaseReconcileConfig
  <2>2. ASSUME NEW m \in Names, NEW o, Write(m, o)
        PROVE  m = n /\ bt'[n] = o
    BY <2>2 DEF LockInv, TypeOK, Write, Stored
  <2>3. CASE \E m \in Names : Create(m)
    BY <2>2, <2>3 DEF Create
  <2>4. CASE \E m \in Names : Edit(m)
    BY <2>1, <2>2, <2>4 DEF Edit, UserStep, BlackboxTarget
  <2>5. CASE \E m \in Names : Delete(m)
    BY <2>1, <2>2, <2>5 DEF Delete, BlackboxTarget
  <2>6. CASE \E m \in Names : ForeignHold(m)
    BY <2>1, <2>2, <2>6 DEF ForeignHold, BlackboxTarget
  <2>7. CASE \E m \in Names : ForeignRelease(m)
    BY <2>1, <2>2, <2>7 DEF ForeignRelease, BlackboxTarget
  <2>8. ASSUME NEW m \in Names, UpdateSucceeds(m)
        PROVE  Kept(n)
    <3>1. m = n
      BY <2>2, <2>8 DEF UpdateSucceeds, Commit
    <3>2. bt'[n] = Desired(worker.pc, bt[n])
      BY <2>8, <3>1, AcceptedUpdate DEF Stored
    <3>3. QED BY <2>8, <3>1, <3>2, AcceptedUpdate
  <2>9. CASE InsideStep
    BY <2>9, InsideStepWritesNothing
  <2>10. QED
    BY <2>3, <2>4, <2>5, <2>6, <2>7, <2>8, <2>9 DEF Next, InsideStep
<1>2. QED BY <1>1, LockingCorrect, PTL DEF Spec, NoLostUpdate

-----------------------------------------------------------------------------
(* No targets without their CR. *)

\* A stored CR keeps its hold through every write that leaves the operator's
\* finalizer and the phase alone.
LEMMA HeldAfterWrite ==
  ASSUME LockInv, NEW n \in Names, NEW o \in BlackboxTarget, Write(n, o),
         bt[n] # Absent, Held(n),
         o.phase = bt[n].phase, MonitoringFinalizerName \in o.finalizers
  PROVE  Held(n)'
  BY WriteTypes, AbsentAssumption DEF LockInv, Held, Stored

\* In the beginning there are no entries.
LEMMA InitOrphanInv == Init => OrphanInv
<1> SUFFICES ASSUME Init PROVE OrphanInv
  OBVIOUS
<1> USE DEF Unheld
<1>1. FinalizerFirst /\ NoOrphanTargets
  BY DEF Init, FinalizerFirst, NoOrphanTargets
<1>2. StaleCopiesHeld
  BY DEF Init, StaleCopiesHeld, Publishes, Idle
<1>3. QED BY <1>1, <1>2, InitLockInv DEF OrphanInv

\* What users write to a CR that no other controller holds has the phase and the
\* finalizers it had before.
LEMMA OutsideWriteUnheld ==
  ASSUME LockInv, NEW n \in Unheld, FinalizerFirst,
         Create(n) \/ Edit(n) \/ Delete(n) \/ ForeignHold(n) \/ ForeignRelease(n)
  PROVE  \E o \in BlackboxTarget :
           /\ Write(n, o)
           /\ bt[n] = Absent => o.phase = PhaseFinalizer /\ o.finalizers = {}
           /\ bt[n] # Absent => o.phase = bt[n].phase /\ o.finalizers = bt[n].finalizers
<1>1. bt[n] \in BlackboxTarget \cup {Absent}
  BY DEF LockInv, TypeOK, Unheld
<1>2. CASE Create(n)
  <2>1. PICK t \in TargetLists :
          Write(n, [targets |-> t, finalizers |-> {},
                    deleting |-> FALSE, phase |-> PhaseFinalizer])
    BY <1>2 DEF Create
  <2>2. [targets |-> t, finalizers |-> {}, deleting |-> FALSE,
         phase |-> PhaseFinalizer] \in BlackboxTarget
    BY DEF BlackboxTarget, PhaseFinalizer, PhaseReconcileConfig
  <2>3. QED BY <1>2, <2>1, <2>2 DEF Create
<1>3. CASE Edit(n)
  <2>1. PICK t \in TargetLists : Write(n, [bt[n] EXCEPT !.targets = t])
    BY <1>3 DEF Edit
  <2>2. /\ [bt[n] EXCEPT !.targets = t] \in BlackboxTarget
        /\ [bt[n] EXCEPT !.targets = t].phase = bt[n].phase
        /\ [bt[n] EXCEPT !.targets = t].finalizers = bt[n].finalizers
    BY <1>3, <1>1 DEF Edit, BlackboxTarget
  <2>3. QED BY <1>3, <2>1, <2>2 DEF Edit
<1>4. CASE Delete(n)
  <2>1. [bt[n] EXCEPT !.deleting = TRUE] \in BlackboxTarget
    BY <1>4, <1>1 DEF Delete, BlackboxTarget
  <2>2. /\ [bt[n] EXCEPT !.deleting = TRUE].phase = bt[n].phase
        /\ [bt[n] EXCEPT !.deleting = TRUE].finalizers = bt[n].finalizers
    BY <1>4, <1>1 DEF Delete, BlackboxTarget
  <2>3. QED BY <1>4, <2>1, <2>2 DEF Delete
<1>5. ~ForeignHold(n)
  BY DEF ForeignHold, Unheld
<1>6. ~ForeignRelease(n)
  BY ForeignAssumption DEF ForeignRelease, FinalizerFirst
<1>7. QED BY <1>2, <1>3, <1>4, <1>5, <1>6

\* A user's write keeps FinalizerFirst and the hold of every CR that no other
\* controller holds.
LEMMA OutsideKeepsHold ==
  ASSUME OrphanInv, NEW n \in Names,
         Create(n) \/ Edit(n) \/ Delete(n) \/ ForeignHold(n) \/ ForeignRelease(n)
  PROVE  FinalizerFirst' /\ \A m \in Unheld : Held(m) => Held(m)'
<1>1. LockInv
  BY DEF OrphanInv
<1>2. PICK p \in BlackboxTarget : Write(n, p)
  BY <1>1, OutsideWrite
<1>3. \A m \in Names \ {n} : bt'[m] = bt[m]
  BY <1>1, <1>2, WriteTypes DEF LockInv
<1>4. CASE n \notin Unheld
  BY <1>3, <1>4 DEF OrphanInv, FinalizerFirst, Held, Unheld
<1>5. CASE n \in Unheld
  <2>1. PICK o \in BlackboxTarget :
          /\ Write(n, o)
          /\ bt[n] = Absent => o.phase = PhaseFinalizer /\ o.finalizers = {}
          /\ bt[n] # Absent => o.phase = bt[n].phase /\ o.finalizers = bt[n].finalizers
    BY <1>1, <1>5, OutsideWriteUnheld DEF OrphanInv
  <2>2. bt'[n] = Stored(o)
    BY <1>1, <2>1, WriteTypes DEF LockInv
  <2>3. FinalizerFirst'
    BY <1>3, <2>1, <2>2 DEF OrphanInv, FinalizerFirst, Stored, Unheld
  <2>4. ASSUME NEW m \in Unheld, Held(m) PROVE Held(m)'
    <3>1. CASE m = n
      BY <1>1, <2>1, <2>4, <3>1, HeldAfterWrite DEF Held
    <3>2. CASE m # n
      BY <1>3, <2>4, <3>2 DEF Held, Unheld
    <3>3. QED BY <3>1, <3>2
  <2>5. QED BY <2>3, <2>4
<1>6. QED BY <1>4, <1>5

\* If no hold is lost and caches, worker and BTs stay, nothing is orphaned.
LEMMA HoldsKept ==
  ASSUME OrphanInv, \A m \in Unheld : Held(m) => Held(m)',
         UNCHANGED <<cache, worker, BTs>>
  PROVE  StaleCopiesHeld' /\ NoOrphanTargets'
<1>1. StaleCopiesHeld'
  BY DEF OrphanInv, StaleCopiesHeld, Publishes
<1>2. NoOrphanTargets'
  BY DEF OrphanInv, NoOrphanTargets, Held
<1>3. QED BY <1>1, <1>2

\* Every step keeps published CRs held.
LEMMA NextOrphanInv == OrphanInv /\ [Next]_vars => OrphanInv'
<1> SUFFICES ASSUME OrphanInv, [Next]_vars PROVE OrphanInv'
  OBVIOUS
<1>1. LockInv /\ LockInv'
  BY LockInvNext DEF OrphanInv
<1> SUFFICES FinalizerFirst' /\ StaleCopiesHeld' /\ NoOrphanTargets'
  BY <1>1 DEF OrphanInv
<1>2. CASE InsideStep
  <2>1. UNCHANGED bt /\ FinalizerFirst' /\ \A m \in Unheld : Held(m) => Held(m)'
    BY <1>2, InsideStepWritesNothing DEF OrphanInv, FinalizerFirst, Held
  <2>2. ASSUME NEW n \in Names, Deliver(n) PROVE StaleCopiesHeld' /\ NoOrphanTargets'
    <3>1. cache'[n] = bt[n] /\ \A m \in Names \ {n} : cache'[m] = cache[m]
      BY <1>1, <2>2 DEF Deliver, LockInv, TypeOK
    <3>2. ASSUME NEW m \in Unheld, Publishes(cache'[m]) PROVE Held(m)'
      <4>1. CASE m = n
        BY <2>1, <3>1, <3>2, <4>1
        DEF Publishes, Held, OrphanInv, FinalizerFirst, PhaseFinalizer, PhaseReconcileConfig
      <4>2. CASE m # n
        BY <2>1, <3>1, <3>2, <4>2 DEF Held, OrphanInv, StaleCopiesHeld, Unheld
      <4>3. QED BY <4>1, <4>2
    <3>3. QED
      BY <2>1, <2>2, <3>2
      DEF Deliver, OrphanInv, StaleCopiesHeld, NoOrphanTargets, Held, Publishes
  <2>3. ASSUME NEW n \in Names, ReconcileNotFound(n)
        PROVE  StaleCopiesHeld' /\ NoOrphanTargets'
    BY <2>1, <2>3, HoldsKept DEF ReconcileNotFound
  <2>4. ASSUME NEW n \in Names, Reconcile(n)
        PROVE  StaleCopiesHeld' /\ NoOrphanTargets'
    <3>1. cache[n].phase \in {PhaseFinalizer, PhaseDone, PhaseReconcileConfig}
      BY <1>1, <2>4
      DEF Reconcile, LockInv, TypeOK, BlackboxTarget, PhaseFinalizer, PhaseDone,
          PhaseReconcileConfig
    <3>2. /\ worker'.name = n
          /\ worker'.instance = cache[n]
          /\ worker'.pc # "removeFinalizer"
          /\ UNCHANGED <<bt, cache, BTs>>
      BY <2>4, <3>1 DEF Reconcile, FirstStep
    <3>3. QED
      BY <2>1, <3>2
      DEF OrphanInv, StaleCopiesHeld, NoOrphanTargets, Held, Publishes
  <2>5. ASSUME NEW n \in Names, UpdateFails(n)
        PROVE  StaleCopiesHeld' /\ NoOrphanTargets'
    BY <2>1, <2>5
    DEF UpdateFails, Abandon, Return, Idle, OrphanInv, StaleCopiesHeld, NoOrphanTargets, Held
  <2>6. ASSUME NEW n \in Names, SetEntry(n)
        PROVE  StaleCopiesHeld' /\ NoOrphanTargets'
    <3>1. n \in Unheld => Held(n)
      BY <1>1, <2>6, AbsentAssumption
      DEF SetEntry, PutEntry, Idle, OrphanInv, LockInv, TypeOK, Running, StepMatchesPhase,
          StaleCopiesHeld, Publishes
    <3>2. QED
      BY <1>1, <2>1, <2>6, <3>1
      DEF SetEntry, PutEntry, Return, Idle, OrphanInv, StaleCopiesHeld, NoOrphanTargets, Held,
          LockInv, TypeOK
  <2>7. ASSUME NEW n \in Names, DropEntry(n)
        PROVE  StaleCopiesHeld' /\ NoOrphanTargets'
    <3>1. /\ worker' # Idle
          /\ worker'.name = n
          /\ worker'.instance = worker.instance
      BY <1>1, <2>7 DEF DropEntry, TakeEntry, LockInv, TypeOK, Running, Idle
    <3>2. BTs'[n] = NoEntry /\ \A m \in Names \ {n} : BTs'[m] = BTs[m]
      BY <1>1, <2>7 DEF DropEntry, TakeEntry, LockInv, TypeOK
    <3>3. StaleCopiesHeld'
      BY <2>1, <2>7, <3>1, <3>2 DEF DropEntry, TakeEntry, OrphanInv, StaleCopiesHeld, Held, Publishes
    <3>4. NoOrphanTargets'
      BY <2>1, <2>7, <3>2 DEF OrphanInv, NoOrphanTargets, Unheld
    <3>5. QED BY <3>3, <3>4
  <2>8. CASE EnsureAccount
    <3>1. /\ worker # Idle
          /\ worker'.name = worker.name
          /\ worker'.instance = worker.instance
          /\ worker'.pc = "targets"
          /\ UNCHANGED <<bt, cache, BTs>>
      BY <1>1, <2>8 DEF EnsureAccount, LockInv, TypeOK, Running, Idle
    <3>2. QED
      BY <2>1, <2>8, <3>1
      DEF EnsureAccount, OrphanInv, StaleCopiesHeld, NoOrphanTargets, Held, Publishes
  <2>9. CASE Resync
    BY <2>1, <2>9, HoldsKept DEF Resync
  <2>10. CASE Restart
    BY <2>1, <2>10
    DEF Restart, Unheld, Idle, OrphanInv, StaleCopiesHeld, NoOrphanTargets, Held, Publishes,
        FinalizerFirst, PhaseFinalizer, PhaseReconcileConfig
  <2>11. CASE UNCHANGED vars
    BY <2>1, <2>11, HoldsKept DEF vars
  <2>12. QED
    BY <1>2, <2>1, <2>2, <2>3, <2>4, <2>5, <2>6, <2>7, <2>8, <2>9, <2>10, <2>11
    DEF InsideStep
<1>3. ASSUME NEW n \in Names,
             Create(n) \/ Edit(n) \/ Delete(n) \/ ForeignHold(n) \/ ForeignRelease(n)
      PROVE  FinalizerFirst' /\ StaleCopiesHeld' /\ NoOrphanTargets'
  BY <1>1, <1>3, OutsideWrite, OutsideKeepsHold, HoldsKept
<1>4. ASSUME NEW n \in Names, UpdateSucceeds(n)
      PROVE  FinalizerFirst' /\ StaleCopiesHeld' /\ NoOrphanTargets'
  <2>1. /\ bt[n] \in BlackboxTarget
        /\ cache[n] = bt[n]
        /\ worker.instance = bt[n]
        /\ bt'[n] = Stored(Desired(worker.pc, bt[n]))
        /\ worker' = Idle
        /\ worker # Idle
        /\ worker.name = n
        /\ UNCHANGED <<cache, BTs>>
        /\ \A m \in Names \ {n} : bt'[m] = bt[m]
    <3>1. worker # Idle
      BY <1>4 DEF UpdateSucceeds, Commit, Updating, Idle
    <3>2. \A m \in Names \ {n} : bt'[m] = bt[m]
      BY <1>1, <1>4 DEF UpdateSucceeds, Commit, Write, LockInv, TypeOK
    <3>3. QED BY <1>1, <1>4, <3>1, <3>2, AcceptedUpdate DEF UpdateSucceeds, Commit
  <2>2. CASE n \notin Unheld
    BY <2>1, <2>2
    DEF OrphanInv, FinalizerFirst, StaleCopiesHeld, NoOrphanTargets, Held, Idle, Unheld
  <2>3. ASSUME n \in Unheld, FinalizerFirst', ~Held(n) /\ ~Publishes(cache[n])
        PROVE  StaleCopiesHeld' /\ NoOrphanTargets'
    BY <2>1, <2>3
    DEF OrphanInv, StaleCopiesHeld, NoOrphanTargets, Held, Publishes, Idle, Unheld
  <2>4. CASE n \in Unheld /\ worker.pc = "setFinalizer"
    <3>1. bt[n].phase = PhaseFinalizer
      BY <1>1, <2>1, <2>4 DEF LockInv, StepMatchesPhase
    <3>2. bt[n].finalizers = {} \/ bt[n].finalizers = {MonitoringFinalizerName}
      BY <2>1, <2>4, AbsentAssumption DEF OrphanInv, FinalizerFirst
    <3>3. /\ Desired(worker.pc, bt[n]).finalizers = {MonitoringFinalizerName}
          /\ Desired(worker.pc, bt[n]).phase = PhaseDone
      BY <2>1, <2>4, <3>2 DEF Desired, BlackboxTarget
    <3>4. FinalizerFirst'
      BY <2>1, <3>3 DEF OrphanInv, FinalizerFirst, Stored, Unheld
    <3>5. ~Held(n) /\ ~Publishes(cache[n])
      BY <2>1, <3>1 DEF Held, Publishes, PhaseFinalizer, PhaseReconcileConfig
    <3>6. QED BY <2>3, <2>4, <3>4, <3>5
  <2>5. CASE n \in Unheld /\ worker.pc = "updatePhase"
    <3>1. bt[n].phase = PhaseDone
      BY <1>1, <2>1, <2>5 DEF LockInv, StepMatchesPhase
    <3>2. bt[n].finalizers = {MonitoringFinalizerName}
      BY <2>1, <2>5, <3>1, AbsentAssumption
      DEF OrphanInv, FinalizerFirst, PhaseFinalizer, PhaseDone
    <3>3. Desired(worker.pc, bt[n]).finalizers = {MonitoringFinalizerName}
      BY <2>1, <2>5, <3>2 DEF Desired, BlackboxTarget
    <3>4. FinalizerFirst'
      BY <2>1, <3>3 DEF OrphanInv, FinalizerFirst, Stored, Unheld
    <3>5. ~Held(n) /\ ~Publishes(cache[n])
      BY <2>1, <3>1 DEF Held, Publishes, PhaseDone, PhaseReconcileConfig
    <3>6. QED BY <2>3, <2>5, <3>4, <3>5
  <2>6. CASE n \in Unheld /\ worker.pc = "removeFinalizer"
    <3>1. bt[n].deleting
      BY <1>1, <2>1, <2>6 DEF LockInv, StepMatchesPhase
    <3>2. bt'[n] = Absent
      BY <2>1, <2>6, <3>1 DEF Desired, BlackboxTarget, Stored
    <3>3. BTs[n] = NoEntry /\ ~Publishes(cache[n])
      BY <2>1, <2>6, <3>1 DEF OrphanInv, StaleCopiesHeld, Publishes
    <3>4. FinalizerFirst'
      BY <2>1, <3>2 DEF OrphanInv, FinalizerFirst, Unheld
    <3>5. StaleCopiesHeld' /\ NoOrphanTargets'
      BY <2>1, <3>3
      DEF OrphanInv, StaleCopiesHeld, NoOrphanTargets, Held, Publishes, Idle, Unheld
    <3>6. QED BY <3>4, <3>5
  <2>7. QED
    BY <1>4, <2>2, <2>4, <2>5, <2>6 DEF UpdateSucceeds, Updating, Commit
<1>5. QED BY <1>2, <1>3, <1>4 DEF Next, InsideStep

\* Published targets of a CR that no other controller holds always belong to an
\* existing CR that the operator's finalizer holds.
THEOREM NothingIsOrphaned == Spec => []NoOrphanTargets
<1>1. OrphanInv => NoOrphanTargets
  BY DEF OrphanInv
<1>2. QED BY <1>1, InitOrphanInv, NextOrphanInv, PTL DEF Spec
-----------------------------------------------------------------------------
(* The abstract registry is implemented. *)

\* No copy of an earlier life of CR n can stand for it.
Superseded(n) ==
  \/ bt[n] = Absent
  \/ bt[n].deleting
  \/ bt[n].phase = PhaseFinalizer

\* A copy that is marked for deletion, however stale, is not of a CR that could
\* be publishing now; while the worker holds one, the cache has none to publish.
DeletionSeen ==
  /\ \A n \in Names : (cache[n] # Absent /\ cache[n].deleting) => Superseded(n)
  /\ (worker # Idle /\ worker.instance.deleting) =>
       Superseded(worker.name) /\ ~Publishes(cache[worker.name])

RegistryInv == OrphanInv /\ DeletionSeen

\* In the beginning there is no copy of anything.
LEMMA InitRegistryInv == Init => RegistryInv
  BY InitOrphanInv DEF Init, RegistryInv, DeletionSeen, Idle

\* A user's write leaves a superseded CR superseded.
LEMMA OutsideSupersedes ==
  ASSUME LockInv, NEW n \in Names, NEW m \in Names, Superseded(m),
         Create(n) \/ Edit(n) \/ Delete(n) \/ ForeignHold(n) \/ ForeignRelease(n)
  PROVE  Superseded(m)'
<1>1. bt[n] \in BlackboxTarget \cup {Absent}
  BY DEF LockInv, TypeOK
<1>2. CASE m # n
  BY <1>2 DEF LockInv, TypeOK, Create, Edit, Delete, ForeignHold, ForeignRelease,
     Write, Superseded
<1>3. CASE m = n
  <2>1. ASSUME NEW o \in BlackboxTarget, Write(n, o),
               bt[n] = Absent => o.phase = PhaseFinalizer,
               bt[n] # Absent => o.phase = bt[n].phase /\ (bt[n].deleting => o.deleting)
        PROVE  Superseded(n)'
    <3>1. bt'[n] = Stored(o)
      BY <2>1, WriteTypes DEF LockInv
    <3>2. QED BY <1>3, <2>1, <3>1 DEF Superseded, Stored
  <2>2. CASE Create(n)
    <3>1. PICK t \in TargetLists :
            Write(n, [targets |-> t, finalizers |-> {},
                      deleting |-> FALSE, phase |-> PhaseFinalizer])
      BY <2>2 DEF Create
    <3>2. [targets |-> t, finalizers |-> {}, deleting |-> FALSE,
           phase |-> PhaseFinalizer] \in BlackboxTarget
      BY DEF BlackboxTarget, PhaseFinalizer, PhaseReconcileConfig
    <3>3. QED BY <1>3, <2>1, <2>2, <3>1, <3>2 DEF Create
  <2>3. CASE Edit(n)
    BY <1>1, <1>3, <2>1, <2>3 DEF Edit, BlackboxTarget
  <2>4. CASE Delete(n)
    BY <1>1, <1>3, <2>1, <2>4 DEF Delete, BlackboxTarget
  <2>5. CASE ForeignHold(n)
    BY <1>1, <1>3, <2>1, <2>5 DEF ForeignHold, BlackboxTarget
  <2>6. CASE ForeignRelease(n)
    BY <1>1, <1>3, <2>1, <2>6 DEF ForeignRelease, BlackboxTarget
  <2>7. QED BY <2>2, <2>3, <2>4, <2>5, <2>6
<1>4. QED BY <1>2, <1>3

\* Every step keeps what copies marked for deletion say.
LEMMA NextDeletionSeen == LockInv /\ LockInv' /\ DeletionSeen /\ [Next]_vars => DeletionSeen'
<1> SUFFICES ASSUME LockInv, LockInv', DeletionSeen, [Next]_vars PROVE DeletionSeen'
  OBVIOUS
<1>1. worker # Idle => worker.name \in Names
  BY DEF LockInv, TypeOK, Running
<1>2. ASSUME NEW n \in Names,
             Create(n) \/ Edit(n) \/ Delete(n) \/ ForeignHold(n) \/ ForeignRelease(n)
      PROVE  DeletionSeen'
  BY <1>1, <1>2, OutsideSupersedes, OutsideWrite DEF DeletionSeen, Publishes
<1>3. ASSUME NEW n \in Names, UpdateSucceeds(n) PROVE DeletionSeen'
  <2>1. cache[n] = bt[n] /\ bt'[n] = Stored(Desired(worker.pc, bt[n]))
    BY <1>3, AcceptedUpdate
  <2>2. Desired(worker.pc, bt[n]).deleting = bt[n].deleting
    BY <1>3, AcceptedUpdate
  <2>3. \A m \in Names \ {n} : bt'[m] = bt[m]
    BY <1>3 DEF UpdateSucceeds, Commit, Write, LockInv, TypeOK
  <2>4. worker' = Idle /\ UNCHANGED cache
    BY <1>3 DEF UpdateSucceeds, Commit
  <2>5. QED BY <2>1, <2>2, <2>3, <2>4 DEF DeletionSeen, Superseded, Stored
<1>4. ASSUME NEW n \in Names, Deliver(n) PROVE DeletionSeen'
  <2>1. /\ cache'[n] = bt[n]
        /\ \A m \in Names \ {n} : cache'[m] = cache[m]
        /\ UNCHANGED <<bt, worker>>
    BY <1>4 DEF Deliver, LockInv, TypeOK
  <2>2. Superseded(n) => ~Publishes(bt[n])
    BY DEF Superseded, Publishes, PhaseFinalizer, PhaseReconcileConfig
  <2>3. \A m \in Names : (cache'[m] # Absent /\ cache'[m].deleting) => Superseded(m)'
    BY <2>1 DEF DeletionSeen, Superseded
  <2>4. ASSUME worker' # Idle, worker'.instance.deleting
        PROVE  Superseded(worker.name) /\ ~Publishes(cache'[worker.name])
    <3>1. /\ worker.name \in Names
          /\ Superseded(worker.name)
          /\ ~Publishes(cache[worker.name])
      BY <1>1, <2>1, <2>4 DEF DeletionSeen
    <3>2. CASE worker.name = n
      BY <2>1, <2>2, <3>1, <3>2
    <3>3. CASE worker.name # n
      BY <2>1, <3>1, <3>3
    <3>4. QED BY <3>1, <3>2, <3>3
  <2>5. \A m \in Names : Superseded(m)' <=> Superseded(m)
    BY <2>1 DEF Superseded
  <2>6. \A m \in Names : Publishes(cache[m])' <=> Publishes(cache'[m])
    BY DEF Publishes
  <2>7. QED BY <1>1, <2>1, <2>3, <2>4, <2>5, <2>6 DEF DeletionSeen, Superseded, Publishes
<1>5. ASSUME NEW n \in Names, Reconcile(n) PROVE DeletionSeen'
  <2>1. /\ worker'.name = n
        /\ worker'.instance = cache[n]
        /\ cache[n] # Absent
        /\ UNCHANGED <<bt, cache>>
    BY <1>5 DEF Reconcile
  <2>2. QED BY <2>1 DEF DeletionSeen, Superseded, Publishes
<1>6. ASSUME UNCHANGED <<bt, cache>>,
             worker' = Idle \/ UNCHANGED worker
               \/ (/\ worker # Idle
                   /\ worker'.name = worker.name
                   /\ worker'.instance = worker.instance)
      PROVE  DeletionSeen'
  BY <1>6 DEF DeletionSeen, Superseded, Publishes
<1>7. ASSUME NEW n \in Names,
             ReconcileNotFound(n) \/ UpdateFails(n) \/ SetEntry(n) \/ DropEntry(n)
      PROVE  DeletionSeen'
  <2>1. CASE DropEntry(n)
    <3>1. worker \in Running /\ worker # Idle
      BY <2>1 DEF DropEntry, TakeEntry, LockInv, TypeOK, Idle
    <3>2. worker'.name = worker.name /\ worker'.instance = worker.instance
      BY <2>1, <3>1 DEF DropEntry, TakeEntry, Running
    <3>3. QED BY <1>6, <2>1, <3>1, <3>2 DEF DropEntry, TakeEntry
  <2>2. CASE ~DropEntry(n)
    BY <1>6, <1>7, <2>2
    DEF ReconcileNotFound, UpdateFails, Abandon, SetEntry, PutEntry, Return
  <2>3. QED BY <2>1, <2>2
<1>8. CASE EnsureAccount
  <2>1. worker \in Running /\ worker # Idle
    BY <1>8 DEF EnsureAccount, LockInv, TypeOK, Idle
  <2>2. worker'.name = worker.name /\ worker'.instance = worker.instance
    BY <1>8, <2>1 DEF EnsureAccount, Running
  <2>3. QED BY <1>6, <1>8, <2>1, <2>2 DEF EnsureAccount
<1>9. CASE Resync \/ UNCHANGED vars
  BY <1>6, <1>9 DEF Resync, vars
<1>10. CASE Restart
  BY <1>10 DEF Restart, DeletionSeen, Superseded, Idle
<1>11. QED
  BY <1>2, <1>3, <1>4, <1>5, <1>7, <1>8, <1>9, <1>10 DEF Next

\* Every step keeps the invariant that the refinement rests on.
LEMMA NextRegistryInv == RegistryInv /\ [Next]_vars => RegistryInv'
  BY NextOrphanInv, NextDeletionSeen DEF RegistryInv, OrphanInv

\* What is on offer is a target list, and what is wanted is on offer.
OffersWanted ==
  \A n \in Unheld : /\ Offered(n) \subseteq TargetLists
                    /\ Wanted(n) # NoEntry => Wanted(n) \in Offered(n)

\* For a CR that is gone, nothing is on offer and nothing is published.
OffersNothingGone ==
  \A n \in Unheld : bt[n] = Absent => Offered(n) = {} /\ BTs[n] = NoEntry

\* The types say the first.
LEMMA WantedIsOffered == LockInv => OffersWanted
<1> SUFFICES ASSUME LockInv, NEW n \in Unheld
    PROVE  /\ Offered(n) \subseteq TargetLists
           /\ Wanted(n) # NoEntry => Wanted(n) \in Offered(n)
  BY DEF OffersWanted
<1>1. bt[n] \in BlackboxTarget \cup {Absent}
  BY DEF LockInv, TypeOK, Unheld
<1>2. QED BY <1>1 DEF Offered, Wanted, BlackboxTarget

\* The copies that could be published are held, and the second follows.
LEMMA NothingOffered == OrphanInv => OffersNothingGone
<1> SUFFICES ASSUME OrphanInv, NEW n \in Unheld, bt[n] = Absent
    PROVE  Offered(n) = {} /\ BTs[n] = NoEntry
  BY DEF OffersNothingGone
<1>1. ~Held(n)
  BY DEF Held
<1>2. BTs[n] = NoEntry
  BY DEF OrphanInv, NoOrphanTargets
<1>3. \A t \in TargetLists : t \notin Offered(n)
  BY <1>1, NoEntryAssumption DEF OrphanInv, StaleCopiesHeld, Offered, Wanted
<1>4. QED BY <1>2, <1>3 DEF Offered

\* For the CRs other than n nothing happens that the abstract registry sees.
Elsewhere(n) ==
  \A m \in Unheld \ {n} :
    /\ (bt'[m] = Absent) = (bt[m] = Absent)
    /\ Wanted(m)' = Wanted(m)
    /\ Offered(m)' = Offered(m)
    /\ BTs'[m] = BTs[m]

\* The steps of the model touch the copies and the entry of one CR.
LEMMA OneAtATime ==
  ASSUME NEW n \in Names,
         \A m \in Unheld \ {n} : bt'[m] = bt[m] /\ cache'[m] = cache[m] /\ BTs'[m] = BTs[m],
         \/ UNCHANGED worker
         \/ (worker = Idle \/ worker.name = n) /\ (worker' = Idle \/ worker'.name = n)
  PROVE  Elsewhere(n)
<1> SUFFICES ASSUME NEW m \in Unheld \ {n}
    PROVE  /\ (bt'[m] = Absent) = (bt[m] = Absent)
           /\ Wanted(m)' = Wanted(m)
           /\ Offered(m)' = Offered(m)
           /\ BTs'[m] = BTs[m]
  BY DEF Elsewhere
<1>1. bt'[m] = bt[m] /\ cache'[m] = cache[m] /\ BTs'[m] = BTs[m] /\ m # n
  OBVIOUS
<1>2. Wanted(m)' = Wanted(m)
  BY <1>1 DEF Wanted
<1>3. Offered(m)' = Offered(m)
  <2>1. ASSUME NEW t \in TargetLists PROVE t \in Offered(m)' <=> t \in Offered(m)
    BY <1>1, <1>2 DEF Offered, Publishes
  <2>2. QED BY <2>1 DEF Offered
<1>4. QED BY <1>1, <1>2, <1>3

\* A step on a CR that another controller may hold is none of the registry.
LEMMA StutterStep ==
  ASSUME NEW n, n \notin Unheld, Elsewhere(n)
  PROVE  UNCHANGED Registry!registry
  BY DEF Elsewhere, Registry!registry

\* Every step that leaves the entries alone, revives no deleted CR and puts
\* nothing on offer but what is wanted is one of Want, Leave, Gone and Settle.
LEMMA WriteStep ==
  ASSUME RegistryInv, RegistryInv', NEW n \in Unheld, Elsewhere(n), UNCHANGED BTs,
         Offered(n)' \subseteq Offered(n) \cup {Wanted(n)'},
         (bt[n] # Absent /\ bt'[n] # Absent /\ bt[n].deleting) => bt'[n].deleting,
         (bt[n] = Absent /\ bt'[n] # Absent) => ~bt'[n].deleting
  PROVE  Registry!Next
<1>1. /\ Wanted(n) # NoEntry => Wanted(n) \in Offered(n)
      /\ Wanted(n)' # NoEntry => Wanted(n)' \in Offered(n)'
      /\ Offered(n)' \subseteq TargetLists
  <2>1. LockInv
    BY DEF RegistryInv, OrphanInv
  <2>2. LockInv'
    BY DEF RegistryInv, OrphanInv
  <2>3. OffersWanted'
    BY <2>2, WantedIsOffered, PTL
  <2>4. QED BY <2>1, <2>3, WantedIsOffered DEF OffersWanted, Unheld
<1>2. NoEntry \notin TargetLists
  BY NoEntryAssumption
<1>3. CASE Wanted(n)' = Wanted(n) /\ (bt'[n] = Absent) = (bt[n] = Absent)
  <2>1. Offered(n)' \subseteq Offered(n)
    BY <1>1, <1>2, <1>3
  <2>2. /\ [m \in Unheld |-> Wanted(m)'] = [m \in Unheld |-> Wanted(m)]
        /\ [m \in Unheld |-> bt'[m] # Absent] = [m \in Unheld |-> bt[m] # Absent]
        /\ [m \in Unheld |-> Offered(m)']
             = [[m \in Unheld |-> Offered(m)] EXCEPT ![n] = Offered(n)']
    BY <1>3 DEF Elsewhere
  <2>3. Registry!Settle(n)
    BY <1>1, <2>1, <2>2 DEF Registry!Settle, Registry!Offer
  <2>4. QED BY <2>3 DEF Registry!Next
<1>4. CASE bt'[n] = Absent /\ bt[n] # Absent
  <2>1. Offered(n)' = {} /\ BTs[n] = NoEntry
    <3>1. OrphanInv'
      BY DEF RegistryInv
    <3>2. OffersNothingGone'
      BY <3>1, NothingOffered, PTL
    <3>3. QED BY <1>4, <3>2 DEF OffersNothingGone, Unheld
  <2>2. Wanted(n)' = NoEntry
    BY <1>4 DEF Wanted
  <2>3. Wanted(n) # NoEntry => Registry!Leave(n)
    BY <1>4, <2>1, <2>2 DEF Elsewhere, Registry!Leave, Registry!Offer
  <2>4. Wanted(n) = NoEntry => Registry!Gone(n)
    BY <1>4, <2>1, <2>2 DEF Elsewhere, Registry!Gone
  <2>5. QED BY <2>3, <2>4 DEF Registry!Next
<1>5. CASE bt'[n] # Absent /\ Wanted(n)' = NoEntry /\ Wanted(n) # NoEntry
  <2>1. Offered(n)' \subseteq Offered(n) /\ bt[n] # Absent
    BY <1>1, <1>2, <1>5 DEF Wanted
  <2>2. Registry!Leave(n)
    BY <1>5, <2>1 DEF Elsewhere, Registry!Leave, Registry!Offer
  <2>3. QED BY <2>2 DEF Registry!Next
<1>6. CASE bt'[n] # Absent /\ Wanted(n)' # NoEntry
  <2>1. bt[n] # Absent => Wanted(n) # NoEntry
    <3>1. ~bt'[n].deleting
      BY <1>6 DEF Wanted
    <3>2. bt[n] # Absent => bt[n] \in BlackboxTarget
      BY DEF RegistryInv, OrphanInv, LockInv, TypeOK, Unheld
    <3>3. QED BY <1>2, <1>6, <3>1, <3>2 DEF Wanted, BlackboxTarget
  <2>2. Registry!Want(n)
    <3> DEFINE t == Wanted(n)'
               S == Offered(n)' \ {t}
    <3>1. t \in TargetLists /\ S \in SUBSET Offered(n) /\ S \cup {t} = Offered(n)'
      BY <1>1, <1>6
    <3> HIDE DEF t, S
    <3>2. /\ [m \in Unheld |-> Wanted(m)'] = [[m \in Unheld |-> Wanted(m)] EXCEPT ![n] = t]
          /\ [m \in Unheld |-> Offered(m)']
               = [[m \in Unheld |-> Offered(m)] EXCEPT ![n] = S \cup {t}]
      BY <3>1 DEF Elsewhere, t
    <3>3. [m \in Unheld |-> bt'[m] # Absent]
            = [[m \in Unheld |-> bt[m] # Absent] EXCEPT ![n] = TRUE]
      BY <1>6 DEF Elsewhere
    <3>4. QED BY <2>1, <3>1, <3>2, <3>3 DEF Registry!Want, Registry!Offer, t
  <2>3. QED BY <2>2 DEF Registry!Next
<1>7. QED
  <2>1. CASE bt'[n] # Absent /\ Wanted(n)' = NoEntry /\ Wanted(n) = NoEntry
    <3>1. bt'[n].deleting
      <4>1. bt'[n] \in BlackboxTarget
        BY <2>1 DEF RegistryInv, OrphanInv, LockInv, TypeOK, Unheld
      <4>2. QED BY <1>2, <2>1, <4>1 DEF Wanted, BlackboxTarget
    <3>2. bt[n] # Absent
      BY <2>1, <3>1
    <3>3. QED BY <1>3, <2>1, <3>2
  <2>2. CASE bt'[n] = Absent /\ bt[n] = Absent
    BY <1>3, <2>2 DEF Wanted
  <2>3. QED BY <1>4, <1>5, <1>6, <2>1, <2>2

\* The mapped initial state is one of the registry.
LEMMA InitImplements == Init => Registry!Init
<1> SUFFICES ASSUME Init PROVE Registry!Init
  OBVIOUS
<1>1. \A n \in Unheld : bt[n] = Absent /\ BTs[n] = NoEntry /\ Wanted(n) = NoEntry
  BY DEF Init, Wanted, Unheld
<1>2. ASSUME NEW n \in Unheld PROVE Offered(n) = {}
  <2>1. \A t \in TargetLists : t \notin Offered(n)
    BY <1>1, NoEntryAssumption DEF Init, Idle, Offered, Publishes, Unheld
  <2>2. QED BY <2>1 DEF Offered
<1>3. QED BY <1>1, <1>2 DEF Registry!Init

\* Writing a user's targets, or a mark for deletion, is Want, Leave or Gone.
LEMMA OutsideImplements ==
  ASSUME RegistryInv, RegistryInv', NEW n \in Names,
         Create(n) \/ Edit(n) \/ Delete(n) \/ ForeignHold(n) \/ ForeignRelease(n)
  PROVE  [Registry!Next]_Registry!registry
<1>1. LockInv
  BY DEF RegistryInv, OrphanInv
<1>2. UNCHANGED <<cache, worker, BTs>> /\ \E o \in BlackboxTarget : Write(n, o)
  BY <1>1, OutsideWrite
<1>3. \A m \in Unheld \ {n} : bt'[m] = bt[m]
  BY <1>1, <1>2 DEF Write, LockInv, TypeOK, Unheld
<1>4. Elsewhere(n)
  BY <1>2, <1>3, OneAtATime
<1>5. CASE n \in Unheld
  <2>1. /\ (bt[n] # Absent /\ bt'[n] # Absent /\ bt[n].deleting) => bt'[n].deleting
        /\ (bt[n] = Absent /\ bt'[n] # Absent) => ~bt'[n].deleting
    <3>1. PICK o \in BlackboxTarget : Write(n, o)
      BY <1>2
    <3>2. bt'[n] = Stored(o) /\ bt[n] \in BlackboxTarget \cup {Absent}
      BY <1>1, <3>1, WriteTypes DEF LockInv, TypeOK
    <3>3. CASE Create(n)
      <4>1. PICK t \in TargetLists :
              Write(n, [targets |-> t, finalizers |-> {},
                        deleting |-> FALSE, phase |-> PhaseFinalizer])
        BY <3>3 DEF Create
      <4>2. [targets |-> t, finalizers |-> {}, deleting |-> FALSE,
             phase |-> PhaseFinalizer] \in BlackboxTarget
        BY DEF BlackboxTarget, PhaseFinalizer, PhaseReconcileConfig
      <4>3. bt'[n] = Stored([targets |-> t, finalizers |-> {},
                             deleting |-> FALSE, phase |-> PhaseFinalizer])
        BY <1>1, <4>1, <4>2, WriteTypes DEF LockInv
      <4>4. QED BY <3>3, <4>3 DEF Create, Stored
    <3>4. ASSUME bt[n] # Absent, NEW p \in BlackboxTarget, Write(n, p),
                 bt[n].deleting => p.deleting
          PROVE  (bt[n].deleting /\ bt'[n] # Absent) => bt'[n].deleting
      BY <1>1, <3>4, WriteTypes DEF LockInv, Stored
    <3>5. CASE Edit(n)
      BY <3>2, <3>4, <3>5 DEF Edit, BlackboxTarget
    <3>6. CASE Delete(n)
      BY <3>6 DEF Delete
    <3>7. CASE ForeignHold(n)
      BY <3>7 DEF ForeignHold
    <3>8. CASE ForeignRelease(n)
      BY <3>2, <3>4, <3>8 DEF ForeignRelease, BlackboxTarget
    <3>9. QED BY <3>3, <3>5, <3>6, <3>7, <3>8 DEF Edit, Delete, ForeignHold, ForeignRelease
  <2>2. Offered(n)' \subseteq Offered(n) \cup {Wanted(n)'}
    BY <1>2 DEF Offered, Publishes
  <2>3. QED BY <1>2, <1>4, <1>5, <2>1, <2>2, WriteStep
<1>6. QED BY <1>4, <1>5, StutterStep

\* Publishing the targets of the instance is Publish: they are on offer.
LEMMA SetImplements ==
  ASSUME RegistryInv, RegistryInv', NEW n \in Names, SetEntry(n)
  PROVE  [Registry!Next]_Registry!registry
<1>1. LockInv /\ LockInv'
  BY DEF RegistryInv, OrphanInv
<1>2. /\ worker \in Running /\ worker # Idle /\ worker.name = n
      /\ worker' = Idle
      /\ UNCHANGED <<bt, cache>>
      /\ BTs' = [BTs EXCEPT ![n] = worker.instance.targets]
  BY <1>1 DEF SetEntry, PutEntry, Return, LockInv, TypeOK, Idle
<1>3. Publishes(worker.instance)
  <2>1. worker.instance \in BlackboxTarget /\ worker.instance.phase = PhaseReconcileConfig
    BY <1>1, <1>2 DEF SetEntry, PutEntry, LockInv, StepMatchesPhase, Running
  <2>2. QED BY <2>1, AbsentAssumption DEF SetEntry, PutEntry, Publishes
<1>4. Elsewhere(n)
  BY <1>1, <1>2, OneAtATime DEF LockInv, TypeOK, Unheld
<1>5. CASE n \in Unheld
  <2>1. worker.instance.targets \in Offered(n)
    BY <1>2, <1>3 DEF Offered, Running, BlackboxTarget
  <2>2. Offered(n)' \subseteq Offered(n) /\ Wanted(n)' = Wanted(n)
    BY <1>2 DEF Offered, Publishes, Wanted
  <2>3. Wanted(n)' # NoEntry => Wanted(n)' \in Offered(n)'
    <3>1. LockInv'
      BY <1>1
    <3>2. OffersWanted'
      BY <3>1, WantedIsOffered, PTL
    <3>3. QED BY <1>5, <3>2 DEF OffersWanted, Unheld
  <2>4. /\ [m \in Unheld |-> BTs'[m]]
             = [[m \in Unheld |-> BTs[m]] EXCEPT ![n] = worker.instance.targets]
        /\ [m \in Unheld |-> Offered(m)']
             = [[m \in Unheld |-> Offered(m)] EXCEPT ![n] = Offered(n)']
        /\ [m \in Unheld |-> Wanted(m)'] = [m \in Unheld |-> Wanted(m)]
        /\ [m \in Unheld |-> bt'[m] # Absent] = [m \in Unheld |-> bt[m] # Absent]
    BY <1>1, <1>2, <1>4, <2>2 DEF Elsewhere, LockInv, TypeOK, Unheld
  <2>5. Registry!Publish(n)
    BY <1>5, <2>1, <2>2, <2>3, <2>4 DEF Registry!Publish, Registry!Offer
  <2>6. QED BY <1>5, <2>5 DEF Registry!Next
<1>6. QED BY <1>4, <1>5, StutterStep

\* Dropping the entry is Retract, or nothing if there is no entry to drop.
LEMMA DropImplements ==
  ASSUME RegistryInv, RegistryInv', NEW n \in Names, DropEntry(n)
  PROVE  [Registry!Next]_Registry!registry
<1>1. LockInv
  BY DEF RegistryInv, OrphanInv
<1>2. /\ worker \in Running /\ worker # Idle /\ worker.name = n
      /\ worker.instance.deleting
      /\ worker'.name = n /\ worker'.instance = worker.instance
      /\ UNCHANGED <<bt, cache>>
      /\ BTs' = [BTs EXCEPT ![n] = NoEntry]
  BY <1>1 DEF DropEntry, TakeEntry, LockInv, TypeOK, Idle, Running
<1>3. Superseded(n) /\ ~Publishes(cache[n])
  BY <1>2 DEF RegistryInv, DeletionSeen
<1>4. Elsewhere(n)
  BY <1>1, <1>2, OneAtATime DEF LockInv, TypeOK, Unheld
<1>5. CASE n \in Unheld
  <2>1. Offered(n)' \subseteq Offered(n) /\ Wanted(n)' = Wanted(n)
    BY <1>2 DEF Offered, Publishes, Wanted
  <2>2. CASE bt[n] # Absent /\ bt[n].deleting
    <3>1. Wanted(n) = NoEntry
      BY <2>2 DEF Wanted
    <3>2. Offered(n)' = {}
      <4>1. \A t \in TargetLists : t \notin Offered(n)'
        BY <1>2, <1>3, <2>1, <3>1, NoEntryAssumption DEF Offered, Publishes
      <4>2. QED BY <4>1 DEF Offered
    <3>3. /\ [m \in Unheld |-> BTs'[m]] = [[m \in Unheld |-> BTs[m]] EXCEPT ![n] = NoEntry]
          /\ [m \in Unheld |-> Offered(m)'] = [[m \in Unheld |-> Offered(m)] EXCEPT ![n] = {}]
          /\ [m \in Unheld |-> Wanted(m)'] = [m \in Unheld |-> Wanted(m)]
          /\ [m \in Unheld |-> bt'[m] # Absent] = [m \in Unheld |-> bt[m] # Absent]
      BY <1>1, <1>2, <1>4, <2>1, <3>2 DEF Elsewhere, LockInv, TypeOK, Unheld
    <3>4. Registry!Retract(n)
      BY <1>5, <2>2, <3>1, <3>3 DEF Registry!Retract
    <3>5. QED BY <1>5, <3>4 DEF Registry!Next
  <2>3. CASE bt[n] = Absent \/ bt[n].phase = PhaseFinalizer
    <3>1. BTs[n] = NoEntry
      BY <1>5, <2>3
      DEF RegistryInv, OrphanInv, NoOrphanTargets, PhaseFinalizer, PhaseReconcileConfig
    <3>2. UNCHANGED BTs
      BY <1>1, <1>2, <3>1 DEF LockInv, TypeOK
    <3>3. QED BY <1>2, <1>4, <1>5, <2>1, <3>2, WriteStep
  <2>4. QED BY <1>3, <2>2, <2>3 DEF Superseded
<1>6. QED BY <1>4, <1>5, StutterStep

\* A restart is Lose.
LEMMA RestartImplements ==
  ASSUME RegistryInv, Restart
  PROVE  Registry!Next
<1>1. ASSUME NEW m \in Unheld
      PROVE  /\ BTs'[m] = NoEntry /\ Wanted(m)' = Wanted(m) /\ bt'[m] = bt[m]
             /\ Offered(m)' = {Wanted(m)} \ {NoEntry}
  <2>1. BTs'[m] = NoEntry /\ Wanted(m)' = Wanted(m) /\ UNCHANGED bt
    BY DEF Restart, Wanted, Unheld
  <2>2. bt[m] \in BlackboxTarget \cup {Absent}
    BY DEF RegistryInv, OrphanInv, LockInv, TypeOK, Unheld
  <2>3. ASSUME NEW t \in TargetLists PROVE t \in Offered(m)' <=> t = Wanted(m)
    BY <2>1, <2>2, NoEntryAssumption DEF Restart, Idle, Offered, Publishes, Wanted
  <2>4. Wanted(m) \in TargetLists \cup {NoEntry}
    BY <2>2 DEF Wanted, BlackboxTarget
  <2>5. QED BY <2>1, <2>3, <2>4, NoEntryAssumption DEF Offered
<1>2. Registry!Lose
  BY <1>1 DEF Registry!Lose
<1>3. QED BY <1>2 DEF Registry!Next

\* Every step of the controller is a step of the registry, or none.
LEMMA StepImplements ==
  RegistryInv /\ RegistryInv' /\ [Next]_vars => [Registry!Next]_Registry!registry
<1> SUFFICES ASSUME RegistryInv, RegistryInv', [Next]_vars
    PROVE  [Registry!Next]_Registry!registry
  OBVIOUS
<1>1. LockInv
  BY DEF RegistryInv, OrphanInv
<1>2. ASSUME NEW n \in Names,
             Create(n) \/ Edit(n) \/ Delete(n) \/ ForeignHold(n) \/ ForeignRelease(n)
      PROVE  [Registry!Next]_Registry!registry
  BY <1>2, OutsideImplements
<1>3. ASSUME NEW n \in Names, UNCHANGED BTs,
             \A m \in Unheld \ {n} : bt'[m] = bt[m] /\ cache'[m] = cache[m],
             \/ UNCHANGED worker
             \/ (worker = Idle \/ worker.name = n) /\ (worker' = Idle \/ worker'.name = n),
             Offered(n)' \subseteq Offered(n) \cup {Wanted(n)'},
             (bt[n] # Absent /\ bt'[n] # Absent /\ bt[n].deleting) => bt'[n].deleting,
             (bt[n] = Absent /\ bt'[n] # Absent) => ~bt'[n].deleting
      PROVE  [Registry!Next]_Registry!registry
  BY <1>3, OneAtATime, WriteStep, StutterStep
<1>4. ASSUME NEW n \in Names, UpdateSucceeds(n) PROVE [Registry!Next]_Registry!registry
  <2>1. /\ bt[n] \in BlackboxTarget
        /\ bt'[n] = Stored(Desired(worker.pc, bt[n]))
        /\ Desired(worker.pc, bt[n]).deleting = bt[n].deleting
    BY <1>4, AcceptedUpdate, <1>1
  <2>2. /\ \A m \in Names \ {n} : bt'[m] = bt[m]
        /\ worker.name = n /\ worker' = Idle
        /\ UNCHANGED <<cache, BTs>>
    BY <1>1, <1>4 DEF UpdateSucceeds, Commit, Write, LockInv, TypeOK
  <2>3. Offered(n)' \subseteq Offered(n) \cup {Wanted(n)'}
    BY <2>2 DEF Offered, Publishes
  <2>4. QED BY <1>3, <2>1, <2>2, <2>3, AbsentAssumption DEF Stored, Unheld
<1>5. ASSUME NEW n \in Names, Deliver(n) PROVE [Registry!Next]_Registry!registry
  <2>1. /\ cache'[n] = bt[n]
        /\ \A m \in Names \ {n} : cache'[m] = cache[m]
        /\ UNCHANGED <<bt, worker, BTs>>
    BY <1>1, <1>5 DEF Deliver, LockInv, TypeOK
  <2>2. Offered(n)' \subseteq Offered(n) \cup {Wanted(n)'}
    BY <2>1 DEF Offered, Publishes, Wanted
  <2>3. QED BY <1>3, <2>1, <2>2 DEF Unheld
<1>6. ASSUME NEW n \in Names, Reconcile(n) PROVE [Registry!Next]_Registry!registry
  <2>1. /\ worker = Idle /\ worker'.name = n /\ worker'.instance = cache[n]
        /\ UNCHANGED <<bt, cache, BTs>>
    BY <1>6 DEF Reconcile
  <2>2. Offered(n)' \subseteq Offered(n) \cup {Wanted(n)'}
    BY <2>1 DEF Offered, Publishes, Wanted
  <2>3. QED BY <1>3, <2>1, <2>2
<1>7. ASSUME NEW n \in Names, ReconcileNotFound(n) \/ UpdateFails(n)
      PROVE  [Registry!Next]_Registry!registry
  <2>1. /\ UNCHANGED <<bt, cache, BTs>>
        /\ worker = Idle \/ worker.name = n
        /\ worker' = Idle
    BY <1>7 DEF ReconcileNotFound, UpdateFails, Abandon, Return
  <2>2. Offered(n)' \subseteq Offered(n) \cup {Wanted(n)'}
    BY <2>1 DEF Offered, Publishes, Wanted
  <2>3. QED BY <1>3, <2>1, <2>2
<1>8. CASE EnsureAccount
  <2>1. /\ UNCHANGED <<bt, cache, BTs>>
        /\ worker # Idle /\ worker.name \in Names
        /\ worker'.name = worker.name /\ worker'.instance = worker.instance
    BY <1>1, <1>8 DEF EnsureAccount, LockInv, TypeOK, Running, Idle
  <2>2. Offered(worker.name)' \subseteq Offered(worker.name) \cup {Wanted(worker.name)'}
    BY <2>1 DEF Offered, Publishes, Wanted
  <2>3. QED BY <1>3, <2>1, <2>2
<1>9. CASE Resync \/ UNCHANGED vars
  <2>1. UNCHANGED <<bt, cache, worker, BTs>>
    BY <1>9 DEF Resync, vars
  <2>2. UNCHANGED Registry!registry
    BY <2>1 DEF Registry!registry, Wanted, Offered, Publishes
  <2>3. QED BY <2>2
<1>10. CASE Restart
  BY <1>10, RestartImplements
<1>11. QED
  BY <1>2, <1>4, <1>5, <1>6, <1>7, <1>8, <1>9, <1>10, SetImplements, DropImplements DEF Next

\* With its caches, queue, worker and finalizer, the controller implements the
\* abstract registry, for every CR that no other controller holds.
THEOREM RegistryImplemented == Spec => ImplementsRegistry
  BY InitRegistryInv, NextRegistryInv, InitImplements, StepImplements, PTL
  DEF Spec, ImplementsRegistry, Registry!Spec
-----------------------------------------------------------------------------
(* Nothing is forgotten, and rest is stable. *)

\* A call on a stale copy is not the last one: the event that makes the copy stale is
\* still to be delivered, or has queued the name again.
StaleCallsRepeated ==
  worker # Idle =>
    \/ "worker" \in fresh[worker.name]
    \/ "cache" \notin fresh[worker.name]
    \/ worker.name \in queue

SettledInv == OrphanInv /\ StaleCallsRepeated /\ NothingForgotten

\* In the beginning everything is settled, and there is nothing.
LEMMA InitSettledInv == Init => SettledInv
<1> SUFFICES ASSUME Init PROVE SettledInv
  OBVIOUS
<1>1. StaleCallsRepeated /\ NothingForgotten
  BY DEF Init, StaleCallsRepeated, NothingForgotten, Published
<1>2. QED BY <1>1, InitOrphanInv DEF SettledInv

\* A step that neither settles CR n nor touches it or its entry.
LEMMA SettledBefore ==
  ASSUME NothingForgotten, NEW n \in Names,
         bt'[n] = bt[n], BTs'[n] = BTs[n],
         "cache" \in fresh'[n] => "cache" \in fresh[n],
         n \in queue => n \in queue',
         (worker # Idle /\ worker.name = n) => (worker' # Idle /\ worker'.name = n)
  PROVE  Settled(n)' => Published(n)'
  BY DEF NothingForgotten, Settled, Published

\* A call by the worker ends, or goes on with the same name.
LEMMA SameCall ==
  ASSUME LockInv, EnsureAccount \/ \E n \in Names : DropEntry(n)
  PROVE  /\ worker # Idle /\ worker' # Idle
         /\ worker'.name = worker.name
         /\ worker'.instance = worker.instance
         /\ worker.name \in Names
<1>1. worker.pc \in {"account", "targets"}
  BY DEF DropEntry, TakeEntry, EnsureAccount
<1>2. worker \in Running /\ worker # Idle
  BY <1>1 DEF LockInv, TypeOK, Idle
<1>3. PICK pc : worker' = [worker EXCEPT !.pc = pc] /\ pc # "idle"
  BY DEF DropEntry, TakeEntry, EnsureAccount
<1>4. QED BY <1>2, <1>3 DEF Running, Idle

\* Every step keeps stale calls repeated.
LEMMA NextStaleCallsRepeated ==
  LockInv /\ StaleCallsRepeated /\ [Next]_vars => StaleCallsRepeated'
<1> SUFFICES ASSUME LockInv, StaleCallsRepeated, [Next]_vars PROVE StaleCallsRepeated'
  OBVIOUS
<1>1. /\ worker # Idle => worker.name \in Names
      /\ fresh \in [Names -> SUBSET {"cache", "worker"}]
  BY DEF LockInv, TypeOK, Running
<1>2. ASSUME NEW n \in Names,
             Create(n) \/ Edit(n) \/ Delete(n) \/ ForeignHold(n) \/ ForeignRelease(n)
      PROVE  StaleCallsRepeated'
  <2>1. \E o \in BlackboxTarget : Write(n, o)
    BY <1>2, OutsideWrite
  <2>2. UNCHANGED <<queue, worker>>
    BY <1>2, OutsideWrite
  <2>3. fresh'[n] = {} /\ \A m \in Names \ {n} : fresh'[m] = fresh[m]
    BY <1>1, <2>1 DEF Write
  <2>4. QED BY <1>1, <2>2, <2>3 DEF StaleCallsRepeated
<1>3. ASSUME NEW n \in Names, Deliver(n) PROVE StaleCallsRepeated'
  BY <1>1, <1>3 DEF Deliver, StaleCallsRepeated
<1>4. ASSUME NEW n \in Names, Reconcile(n) PROVE StaleCallsRepeated'
  BY <1>1, <1>4 DEF Reconcile, StaleCallsRepeated
<1>5. ASSUME NEW n \in Names,
             UpdateSucceeds(n) \/ UpdateFails(n) \/ SetEntry(n) \/ ReconcileNotFound(n)
      PROVE  StaleCallsRepeated'
  BY <1>5
  DEF UpdateSucceeds, Commit, UpdateFails, Abandon, SetEntry, PutEntry, Return,
      ReconcileNotFound, StaleCallsRepeated
<1>6. CASE EnsureAccount \/ \E n \in Names : DropEntry(n)
  <2>1. UNCHANGED <<fresh, queue>>
    BY <1>6 DEF DropEntry, TakeEntry, EnsureAccount
  <2>2. QED BY <1>6, <2>1, SameCall DEF StaleCallsRepeated
<1>7. CASE Resync \/ Restart \/ UNCHANGED vars
  BY <1>7 DEF Resync, Restart, vars, StaleCallsRepeated
<1>8. QED BY <1>2, <1>3, <1>4, <1>5, <1>6, <1>7 DEF Next

\* Every step that settles a CR has dealt with it.
LEMMA NextSettledInv == SettledInv /\ [Next]_vars => SettledInv'
<1> SUFFICES ASSUME SettledInv, [Next]_vars PROVE SettledInv'
  OBVIOUS
<1>1. /\ OrphanInv /\ OrphanInv' /\ LockInv
      /\ StaleCallsRepeated /\ StaleCallsRepeated' /\ NothingForgotten
  BY NextOrphanInv, NextStaleCallsRepeated DEF SettledInv, OrphanInv
<1> SUFFICES ASSUME NEW n \in Names PROVE Settled(n)' => Published(n)'
  BY <1>1 DEF SettledInv, NothingForgotten
<1>2. ASSUME NEW m \in Names,
             Create(m) \/ Edit(m) \/ Delete(m) \/ ForeignHold(m) \/ ForeignRelease(m)
                       \/ UpdateSucceeds(m)
      PROVE  Settled(n)' => Published(n)'
  <2>1. \E o \in BlackboxTarget : Write(m, o)
    BY <1>1, <1>2, OutsideWrite, AcceptedUpdate, StepTypes
    DEF UpdateSucceeds, Commit, Updating
  <2>2. /\ fresh'[m] = {}
        /\ \A k \in Names \ {m} : bt'[k] = bt[k] /\ fresh'[k] = fresh[k]
    BY <1>1, <2>1, WriteTypes DEF LockInv
  <2>3. /\ UNCHANGED <<queue, BTs>>
        /\ UNCHANGED worker \/ worker.name = m
    BY <1>1, <1>2, OutsideWrite DEF UpdateSucceeds, Commit
  <2>4. CASE n = m
    BY <2>2, <2>4 DEF Settled
  <2>5. CASE n # m
    BY <1>1, <2>2, <2>3, <2>5, SettledBefore
  <2>6. QED BY <2>4, <2>5
<1>3. ASSUME NEW m \in Names, Deliver(m) PROVE Settled(n)' => Published(n)'
  <2>1. CASE n = m
    BY <1>3, <2>1 DEF Deliver, Settled
  <2>2. CASE n # m
    BY <1>1, <1>3, <2>2, SettledBefore DEF Deliver, LockInv, TypeOK
  <2>3. QED BY <2>1, <2>2
<1>4. ASSUME NEW m \in Names, ReconcileNotFound(m) PROVE Settled(n)' => Published(n)'
  <2>1. CASE n = m
    <3>1. "cache" \in fresh[n] => bt[n] = Absent
      BY <1>1, <1>4, <2>1 DEF ReconcileNotFound, LockInv, FreshCopies
    <3>2. bt[n] = Absent => BTs[n] = NoEntry \/ n \in Holdable
      BY <1>1 DEF OrphanInv, NoOrphanTargets, Unheld
    <3>3. QED BY <1>4, <3>1, <3>2 DEF ReconcileNotFound, Settled, Published
  <2>2. CASE n # m
    BY <1>1, <1>4, <2>2, SettledBefore DEF ReconcileNotFound
  <2>3. QED BY <2>1, <2>2
<1>5. ASSUME NEW m \in Names, Reconcile(m) PROVE Settled(n)' => Published(n)'
  <2>1. CASE n = m
    <3>1. worker' # Idle /\ worker'.name = n
      BY <1>5, <2>1 DEF Reconcile, Idle
    <3>2. QED BY <3>1 DEF Settled
  <2>2. CASE n # m
    BY <1>1, <1>5, <2>2, SettledBefore DEF Reconcile, LockInv, TypeOK
  <2>3. QED BY <2>1, <2>2
<1>6. ASSUME NEW m \in Names, UpdateFails(m) PROVE Settled(n)' => Published(n)'
  <2>1. CASE n = m
    BY <1>6, <2>1 DEF UpdateFails, Settled
  <2>2. CASE n # m
    BY <1>1, <1>6, <2>2, SettledBefore DEF UpdateFails, Abandon, Return, LockInv, TypeOK
  <2>3. QED BY <2>1, <2>2
<1>7. ASSUME NEW m \in Names, SetEntry(m) PROVE Settled(n)' => Published(n)'
  <2>1. worker # Idle /\ worker.name = m /\ worker \in Running
    BY <1>1, <1>7 DEF SetEntry, PutEntry, Idle, LockInv, TypeOK
  <2>2. CASE n = m
    <3> SUFFICES ASSUME Settled(n)' PROVE Published(n)'
      OBVIOUS
    <3>1. "cache" \in fresh[n] /\ n \notin queue
      BY <1>1, <1>7 DEF SetEntry, PutEntry, Return, Settled, LockInv, TypeOK
    <3>2. worker.instance = bt[n] /\ bt[n] # Absent
      BY <1>1, <2>1, <2>2, <3>1, AbsentAssumption
      DEF StaleCallsRepeated, LockInv, FreshCopies, Running
    <3>3. bt'[n] = bt[n] /\ BTs'[n] = bt[n].targets /\ ~bt[n].deleting
      BY <1>1, <1>7, <2>2, <3>2 DEF SetEntry, PutEntry, LockInv, TypeOK
    <3>4. QED BY <3>2, <3>3 DEF Published
  <2>3. CASE n # m
    BY <1>1, <1>7, <2>1, <2>3, SettledBefore DEF SetEntry, PutEntry, Return, LockInv, TypeOK
  <2>4. QED BY <2>2, <2>3
<1>8. ASSUME NEW m \in Names, DropEntry(m) PROVE Settled(n)' => Published(n)'
  <2>1. worker' # Idle /\ worker'.name = m /\ worker.name = m
    BY <1>1, <1>8, SameCall DEF DropEntry, TakeEntry
  <2>2. CASE n = m
    BY <2>1, <2>2 DEF Settled
  <2>3. CASE n # m
    BY <1>1, <1>8, <2>1, <2>3, SettledBefore DEF DropEntry, TakeEntry, LockInv, TypeOK
  <2>4. QED BY <2>2, <2>3
<1>9. CASE EnsureAccount
  BY <1>1, <1>9, SameCall, SettledBefore DEF EnsureAccount
<1>10. CASE Resync \/ UNCHANGED vars
  BY <1>1, <1>10, SettledBefore DEF Resync, vars
<1>11. CASE Restart
  BY <1>11 DEF Restart, Settled, Published
<1>12. QED
  BY <1>2, <1>3, <1>4, <1>5, <1>6, <1>7, <1>8, <1>9, <1>10, <1>11 DEF Next

\* A CR that nothing will look at again has been dealt with.
THEOREM NothingIsForgotten == Spec => []NothingForgotten
<1>1. SettledInv => NothingForgotten
  BY DEF SettledInv
<1>2. QED BY <1>1, InitSettledInv, NextSettledInv, PTL DEF Spec

\* At rest the worker has nothing to write and nothing to take back.
LEMMA RestfulWorker ==
  ASSUME LockInv, AtRest, worker # Idle
  PROVE  /\ worker.name \in Names
         /\ worker.pc \in {"account", "targets"}
         /\ ~worker.instance.deleting
         /\ BTs[worker.name] = worker.instance.targets
<1>1. worker \in Running
  BY DEF LockInv, TypeOK
<1>2. worker.name \in Names /\ worker.instance = bt[worker.name] /\ bt[worker.name] # Absent
  BY <1>1, AbsentAssumption DEF AtRest, LockInv, FreshCopies, Running
<1>3. /\ worker.instance.phase = PhaseReconcileConfig
      /\ ~worker.instance.deleting
      /\ BTs[worker.name] = worker.instance.targets
  BY <1>2 DEF AtRest, Published
<1>4. QED
  BY <1>1, <1>2, <1>3
  DEF LockInv, StepMatchesPhase, Running, PhaseFinalizer, PhaseDone, PhaseReconcileConfig

\* Only users and restarts disturb the rest.
THEOREM RestStaysRest == Spec => RestIsStable
<1> DEFINE Rests == (AtRest /\ edits' = edits /\ crashes' = crashes)
                      => (AtRest' /\ UNCHANGED <<bt, BTs>>)
<1>1. LockInv /\ [Next]_vars => [Rests]_vars
  <2> SUFFICES ASSUME LockInv, Next, AtRest, edits' = edits, crashes' = crashes
      PROVE  AtRest' /\ UNCHANGED <<bt, BTs>>
    BY DEF vars
  <2>1. ASSUME UNCHANGED <<bt, BTs>>,
               \A n \in Names : "cache" \in fresh'[n],
               worker' # Idle => "worker" \in fresh'[worker'.name]
        PROVE  AtRest' /\ UNCHANGED <<bt, BTs>>
    BY <2>1 DEF AtRest, Published
  <2>2. edits \in Nat /\ crashes \in Nat /\ fresh \in [Names -> SUBSET {"cache", "worker"}]
    BY BoundsAssumption DEF LockInv, TypeOK
  <2>3. ASSUME NEW n \in Names, Create(n) \/ Edit(n) \/ Delete(n) \/ ForeignHold(n)
        PROVE  FALSE
    BY <2>2, <2>3 DEF Create, Edit, Delete, ForeignHold, UserStep
  <2>4. ASSUME NEW n \in Names, ForeignRelease(n) \/ Deliver(n)
        PROVE  FALSE
    BY <2>4 DEF ForeignRelease, Deliver, AtRest, Published
  <2>5. ASSUME NEW n \in Names, UpdateSucceeds(n) \/ UpdateFails(n) \/ DropEntry(n)
        PROVE  FALSE
    BY <2>5, RestfulWorker
    DEF UpdateSucceeds, Commit, UpdateFails, Abandon, Updating, DropEntry, TakeEntry, Idle
  <2>6. ASSUME NEW n \in Names, SetEntry(n)
        PROVE  AtRest' /\ UNCHANGED <<bt, BTs>>
    <3>1. BTs[n] = worker.instance.targets
      BY <2>6, RestfulWorker DEF SetEntry, PutEntry, Idle
    <3>2. UNCHANGED <<bt, BTs>>
      BY <2>6, <3>1 DEF SetEntry, PutEntry, LockInv, TypeOK
    <3>3. \A m \in Names : "cache" \in fresh'[m]
      BY <2>2, <2>6 DEF SetEntry, PutEntry, Return, AtRest
    <3>4. QED BY <2>1, <2>6, <3>2, <3>3 DEF SetEntry, PutEntry, Return
  <2>7. ASSUME NEW n \in Names, ReconcileNotFound(n) \/ Reconcile(n)
        PROVE  AtRest' /\ UNCHANGED <<bt, BTs>>
    BY <2>1, <2>2, <2>7 DEF ReconcileNotFound, Reconcile, AtRest
  <2>8. CASE EnsureAccount
    <3>1. worker.name \in Names
      BY <2>8, RestfulWorker DEF EnsureAccount, Idle
    <3>2. worker # Idle /\ worker'.name = worker.name
      BY <2>8, <3>1, SameCall
    <3>3. QED BY <2>1, <2>8, <3>2 DEF EnsureAccount, AtRest
  <2>9. CASE Resync
    BY <2>1, <2>9 DEF Resync, AtRest
  <2>10. CASE Restart
    BY <2>2, <2>10 DEF Restart
  <2>11. QED
    BY <2>3, <2>4, <2>5, <2>6, <2>7, <2>8, <2>9, <2>10 DEF Next
<1>2. QED BY <1>1, LockingCorrect, PTL DEF Spec, RestIsStable
=============================================================================
