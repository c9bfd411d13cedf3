---------------------------- MODULE BlackboxTargets ----------------------------
(***************************************************************************)
(* The BlackboxTarget controller: the informer cache it reads from, its    *)
(* work queue, its single worker, and BTs, the in-memory map of targets    *)
(* that the ApplicationMonitoring controller turns into scrape             *)
(* configuration.  Users create, edit and delete BlackboxTarget CRs, API   *)
(* calls fail, and the operator process restarts with an empty BTs.        *)
(*                                                                         *)
(* resourceVersions are not numbered.  fresh[n] is the set of copies of    *)
(* CR n that carry its current resourceVersion: the "cache" copy and the   *)
(* "worker" copy (the instance being reconciled).  A write leaves no copy  *)
(* fresh; the API server accepts an Update only from a fresh copy.         *)
(***************************************************************************)
EXTENDS Integers

CONSTANTS
  Names,              \* names of the BlackboxTarget CRs of the watched namespace
  TargetLists,        \* values of spec.blackboxTargets
  ForeignFinalizers,  \* finalizers other than the operator's that a CR may carry
  Holdable,           \* names of the CRs that other controllers may hold
  Absent,             \* "no such CR"
  NoEntry,            \* "no such key in BTs"
  MaxEdits,           \* bound: creations, edits, deletions and foreign holds
  MaxCrashes          \* bound: restarts of the operator

MonitoringFinalizerName == "monitoring.cleanup"

PhaseFinalizer       == 0
PhaseDone            == 1
PhaseReconcileConfig == 2

BlackboxTarget ==
  [targets    : TargetLists,
   finalizers : SUBSET (ForeignFinalizers \cup {MonitoringFinalizerName}),
   deleting   : BOOLEAN,
   phase      : PhaseFinalizer..PhaseReconcileConfig]

ASSUME AbsentAssumption  == Absent \notin BlackboxTarget
ASSUME NoEntryAssumption == NoEntry \notin TargetLists
ASSUME ForeignAssumption == MonitoringFinalizerName \notin ForeignFinalizers
ASSUME BoundsAssumption  == MaxEdits \in Nat /\ MaxCrashes \in Nat

VARIABLES
  bt,       \* the CRs, as the API server stores them
  cache,    \* the CRs, as the operator's informer last saw them
  fresh,    \* which copies of each CR are at its current resourceVersion
  queue,    \* names waiting to be reconciled
  worker,   \* the running Reconcile call, if any
  BTs,      \* common.BlackboxTargetsConfig.BTs
  account,  \* does blackbox-exporter-service-account exist?
  edits, crashes

vars == <<bt, cache, fresh, queue, worker, BTs, account, edits, crashes>>

Idle == [pc |-> "idle"]

Running ==
  [pc : {"setFinalizer", "updatePhase", "account", "targets", "removeFinalizer"},
   name : Names, instance : BlackboxTarget]

\* The types of the CRs, of their copies and of the entries of BTs.
TypeOK ==
  /\ bt \in [Names -> BlackboxTarget \cup {Absent}]
  /\ cache \in [Names -> BlackboxTarget \cup {Absent}]
  /\ fresh \in [Names -> SUBSET {"cache", "worker"}]
  /\ queue \subseteq Names
  /\ worker \in Running \cup {Idle}
  /\ BTs \in [Names -> TargetLists \cup {NoEntry}]
  /\ account \in BOOLEAN
  /\ edits \in 0..MaxEdits
  /\ crashes \in 0..MaxCrashes

Init ==
  /\ bt = [n \in Names |-> Absent]
  /\ cache = [n \in Names |-> Absent]
  /\ fresh = [n \in Names |-> {"cache"}]
  /\ queue = {}
  /\ worker = Idle
  /\ BTs = [n \in Names |-> NoEntry]
  /\ account = FALSE
  /\ edits = 0
  /\ crashes = 0

--------------------------------------------------------------------------------
(* The API server. *)

\* A CR marked for deletion is removed as soon as it has no finalizer.
Stored(o) == IF o.deleting /\ o.finalizers = {} THEN Absent ELSE o

\* A write of CR n: no copy read before it is fresh any more.
Write(n, o) ==
  /\ bt' = [bt EXCEPT ![n] = Stored(o)]
  /\ fresh' = [fresh EXCEPT ![n] = {}]

(* Users and the controllers that own the foreign finalizers. *)

UserStep ==
  /\ edits < MaxEdits
  /\ edits' = edits + 1
  /\ UNCHANGED <<cache, queue, worker, BTs, account, crashes>>

Create(n) ==
  /\ bt[n] = Absent
  /\ \E t \in TargetLists :
       Write(n, [targets |-> t, finalizers |-> {},
                 deleting |-> FALSE, phase |-> PhaseFinalizer])
  /\ UserStep

Edit(n) ==
  /\ bt[n] # Absent
  /\ \E t \in TargetLists \ {bt[n].targets} : Write(n, [bt[n] EXCEPT !.targets = t])
  /\ UserStep

Delete(n) ==
  /\ bt[n] # Absent
  /\ ~bt[n].deleting
  /\ Write(n, [bt[n] EXCEPT !.deleting = TRUE])
  /\ UserStep

\* Another controller takes hold of the CR, and lets go when it is deleted.
ForeignHold(n) ==
  /\ n \in Holdable
  /\ bt[n] # Absent
  /\ ~bt[n].deleting
  /\ \E f \in ForeignFinalizers \ bt[n].finalizers :
       Write(n, [bt[n] EXCEPT !.finalizers = @ \cup {f}])
  /\ UserStep

ForeignRelease(n) ==
  /\ bt[n] # Absent
  /\ bt[n].deleting
  /\ \E f \in bt[n].finalizers \cap ForeignFinalizers :
       Write(n, [bt[n] EXCEPT !.finalizers = @ \ {f}])
  /\ UNCHANGED <<cache, queue, worker, BTs, account, edits, crashes>>

--------------------------------------------------------------------------------
(* The informer and the process. *)

\* The watch brings the cache up to date and EnqueueRequestForObject queues n.
Deliver(n) ==
  /\ "cache" \notin fresh[n]
  /\ cache' = [cache EXCEPT ![n] = bt[n]]
  /\ fresh' = [fresh EXCEPT ![n] = @ \cup {"cache"}]
  /\ queue' = queue \cup {n}
  /\ UNCHANGED <<bt, worker, BTs, account, edits, crashes>>

\* The informer's periodic resync queues every cached CR again.
Resync ==
  /\ queue' = queue \cup {n \in Names : cache[n] # Absent}
  /\ UNCHANGED <<bt, cache, fresh, worker, BTs, account, edits, crashes>>

\* The process dies and starts again: a fresh list fills the cache and queues
\* every CR; the running call and BTs are lost.
Restart ==
  /\ crashes < MaxCrashes
  /\ crashes' = crashes + 1
  /\ cache' = bt
  /\ fresh' = [n \in Names |-> {"cache"}]
  /\ queue' = {n \in Names : bt[n] # Absent}
  /\ worker' = Idle
  /\ BTs' = [n \in Names |-> NoEntry]
  /\ UNCHANGED <<bt, account, edits>>

--------------------------------------------------------------------------------
(* Reconcile, one action per call that reads or writes shared state. *)

\* The CR is gone: return and do not requeue.
ReconcileNotFound(n) ==
  /\ worker = Idle
  /\ n \in queue
  /\ cache[n] = Absent
  /\ queue' = queue \ {n}
  /\ UNCHANGED <<bt, cache, fresh, worker, BTs, account, edits, crashes>>

\* Mutant: a CR that only has its finalizer is configured in the same call.
FirstStepEager(phase) == IF phase = PhaseFinalizer THEN "setFinalizer" ELSE "account"

FirstStep(phase) ==
  CASE phase = PhaseFinalizer       -> "setFinalizer"
    [] phase = PhaseDone            -> "updatePhase"
    [] phase = PhaseReconcileConfig -> "account"

Reconcile(n) ==
  /\ worker = Idle
  /\ n \in queue
  /\ cache[n] # Absent
  /\ queue' = queue \ {n}
  /\ worker' = [pc |-> FirstStep(cache[n].phase), name |-> n, instance |-> cache[n]]
  /\ fresh' = [fresh EXCEPT ![n] = IF "cache" \in @ THEN @ \cup {"worker"} ELSE @]
  /\ UNCHANGED <<bt, cache, BTs, account, edits, crashes>>

\* The call returns; its copy is dropped.
Return(n) ==
  /\ worker' = Idle
  /\ fresh' = [fresh EXCEPT ![n] = @ \ {"worker"}]

\* What setFinalizer, updatePhase(PhaseReconcileConfig) and removeFinalizer
\* send to the API server.
Desired(step, o) ==
  CASE step = "setFinalizer" ->
         [o EXCEPT !.finalizers = IF @ = {} THEN {MonitoringFinalizerName} ELSE @,
                   !.phase = PhaseDone]
    [] step = "updatePhase" ->
         [o EXCEPT !.phase = PhaseReconcileConfig]
    [] step = "removeFinalizer" ->
         [o EXCEPT !.finalizers = {}]

Updating == worker.pc \in {"setFinalizer", "updatePhase", "removeFinalizer"}

\* The instance is written, and the call returns.
Commit(n) ==
  /\ Updating
  /\ worker.name = n
  /\ Write(n, Desired(worker.pc, worker.instance))
  /\ worker' = Idle
  /\ UNCHANGED <<cache, queue, BTs, account, edits, crashes>>

\* Mutant: an update without a resourceVersion, accepted from any copy.
UpdateUnlocked(n) == Commit(n)

UpdateSucceeds(n) == "worker" \in fresh[n] /\ Commit(n)

\* The update is refused or fails, and the call returns.
Abandon(n) ==
  /\ Updating
  /\ worker.name = n
  /\ Return(n)
  /\ UNCHANGED <<bt, cache, BTs, account, edits, crashes>>

\* Mutant: the error is logged and not returned.
UpdateFailsSilently(n) == Abandon(n) /\ UNCHANGED queue

\* A conflict, or any other error of the API server: the name is requeued.
UpdateFails(n) == Abandon(n) /\ queue' = queue \cup {n}

\* CreateOrUpdate of the service account.  Its error is only logged.
EnsureAccount ==
  /\ worker.pc = "account"
  /\ worker' = [worker EXCEPT !.pc = "targets"]
  /\ account' \in {account, TRUE}
  /\ UNCHANGED <<bt, cache, fresh, queue, BTs, edits, crashes>>

\* The CR is not being deleted: its entry becomes t.
PutEntry(n, t) ==
  /\ worker.pc = "targets"
  /\ worker.name = n
  /\ ~worker.instance.deleting
  /\ BTs' = [BTs EXCEPT ![n] = t]
  /\ Return(n)
  /\ UNCHANGED <<bt, cache, queue, account, edits, crashes>>

\* Mutant: an entry that exists is not overwritten.
SetEntryOnce(n) == PutEntry(n, IF BTs[n] = NoEntry THEN worker.instance.targets ELSE BTs[n])

\* Mutant: the call goes on and updates the phase once more.
SetEntryAndPhase(n) ==
  /\ worker.pc = "targets"
  /\ worker.name = n
  /\ ~worker.instance.deleting
  /\ BTs' = [BTs EXCEPT ![n] = worker.instance.targets]
  /\ worker' = [worker EXCEPT !.pc = "updatePhase"]
  /\ UNCHANGED <<bt, cache, fresh, queue, account, edits, crashes>>

SetEntry(n) == PutEntry(n, worker.instance.targets)

\* The CR is being deleted: its entry becomes t, and the finalizer is next.
TakeEntry(n, t) ==
  /\ worker.pc = "targets"
  /\ worker.name = n
  /\ worker.instance.deleting
  /\ BTs' = [BTs EXCEPT ![n] = t]
  /\ worker' = [worker EXCEPT !.pc = "removeFinalizer"]
  /\ UNCHANGED <<bt, cache, fresh, queue, account, edits, crashes>>

\* Mutant: the entry is set to nil instead of deleted.
DropEntryNil(n) == TakeEntry(n, Absent)

\* Mutant: the finalizer is removed and the entry stays.
DropEntryNever(n) == TakeEntry(n, BTs[n])

DropEntry(n) == TakeEntry(n, NoEntry)

Next ==
  \/ \E n \in Names :
       \/ Create(n) \/ Edit(n) \/ Delete(n)
       \/ ForeignHold(n) \/ ForeignRelease(n)
       \/ Deliver(n)
       \/ ReconcileNotFound(n) \/ Reconcile(n)
       \/ UpdateSucceeds(n) \/ UpdateFails(n)
       \/ SetEntry(n) \/ DropEntry(n)
  \/ EnsureAccount
  \/ Resync
  \/ Restart

\* Events are delivered, the worker keeps running and the queue is served in
\* order; API calls may fail, but not for ever.
Fairness ==
  /\ WF_vars(EnsureAccount)
  /\ \A n \in Names :
       /\ WF_vars(Deliver(n))
       /\ SF_vars(ReconcileNotFound(n) \/ Reconcile(n))
       /\ WF_vars(UpdateSucceeds(n) \/ UpdateFails(n))
       /\ WF_vars(SetEntry(n) \/ DropEntry(n))
       /\ SF_vars(UpdateSucceeds(n))

Spec == Init /\ [][Next]_vars /\ Fairness

--------------------------------------------------------------------------------
(* Properties. *)

\* CRs that no other controller holds.
Unheld == Names \ Holdable

\* Targets are only ever published on behalf of a CR that exists, has reached
\* PhaseReconcileConfig and is held by the operator's finalizer: deleting a CR
\* cannot leave its targets behind, because the finalizer outlives the entry.
NoOrphanTargets ==
  \A n \in Unheld : BTs[n] # NoEntry =>
    /\ bt[n] # Absent
    /\ bt[n].phase = PhaseReconcileConfig
    /\ MonitoringFinalizerName \in bt[n].finalizers

\* A controller works from a cache and may be overtaken by users.  No write of
\* its own ever takes back a user's edit or deletion, and a CR never returns to
\* an earlier phase, however stale the instance was that the write is made from.
NoLostUpdate ==
  [][\A n \in Names :
       (bt[n] # Absent /\ bt'[n] # Absent /\ bt'[n] # bt[n]) =>
         /\ bt'[n].phase >= bt[n].phase
         /\ bt[n].deleting => bt'[n].deleting
         /\ bt'[n].targets # bt[n].targets => edits' = edits + 1]_vars

\* Nothing waits for the worker to look at CR n: no event, requeue or call in progress.
Settled(n) ==
  /\ "cache" \in fresh[n]
  /\ n \notin queue
  /\ worker = Idle \/ worker.name # n

\* The entry is what the CR declares; only of a CR that another controller held may
\* one stay when the CR is gone.
Published(n) ==
  IF bt[n] = Absent THEN BTs[n] = NoEntry \/ n \in Holdable
                    ELSE ~bt[n].deleting /\ BTs[n] = bt[n].targets

\* No event or error gets lost: a CR that nothing will look at again, unless somebody
\* changes it, has been dealt with, and its deletion completed, whichever calls ran on
\* stale copies, failed or were cut short by a restart.
NothingForgotten == \A n \in Names : Settled(n) => Published(n)

\* Every CR has been dealt with, and what the process knows of it is up to date.
AtRest ==
  /\ \A n \in Names :
       /\ "cache" \in fresh[n]
       /\ Published(n)
       /\ bt[n] # Absent => bt[n].phase = PhaseReconcileConfig
  /\ worker # Idle => "worker" \in fresh[worker.name]

\* The controller stays at rest: periodic resyncs, repeated events and the calls they
\* lead to neither write a CR nor change BTs, until a user or a restart disturbs it.
RestIsStable ==
  [][(AtRest /\ edits' = edits /\ crashes' = crashes) => (AtRest' /\ UNCHANGED <<bt, BTs>>)]_vars

\* Every deletion completes: whatever fails, restarts or is read stale on the
\* way, the finalizer is removed in the end.
DeletionCompletes ==
  \A n \in Names : (bt[n] # Absent /\ bt[n].deleting) ~> bt[n] = Absent

\* Once users stop editing, BTs settles on exactly the declared targets; only
\* of a CR that another controller held may an entry stay when the CR is gone.
RegistryConverges ==
  <>[](\A n \in Names :
         \/ BTs[n] = IF bt[n] = Absent THEN NoEntry ELSE bt[n].targets
         \/ (n \in Holdable /\ bt[n] = Absent))

--------------------------------------------------------------------------------
(* The abstract specification, implemented for the CRs no other controller     *)
(* holds.                                                                      *)

\* A copy that makes reconcileConfig publish its targets.
Publishes(o) ==
  /\ o # Absent
  /\ o.phase = PhaseReconcileConfig
  /\ ~o.deleting

Wanted(n) == IF bt[n] = Absent \/ bt[n].deleting THEN NoEntry ELSE bt[n].targets

\* The targets of the CR, and of each copy the controller may still publish.
Offered(n) ==
  {t \in TargetLists :
     \/ t = Wanted(n)
     \/ Publishes(cache[n]) /\ t = cache[n].targets
     \/ /\ worker # Idle
        /\ worker.name = n
        /\ Publishes(worker.instance)
        /\ t = worker.instance.targets}

Registry == INSTANCE TargetRegistry WITH
  Names     <- Unheld,
  exists    <- [n \in Unheld |-> bt[n] # Absent],
  wanted    <- [n \in Unheld |-> Wanted(n)],
  offered   <- [n \in Unheld |-> Offered(n)],
  published <- [n \in Unheld |-> BTs[n]]

\* BTs follows what users declare as the abstract registry says, stale caches
\* and failed or repeated calls notwithstanding.
ImplementsRegistry == Registry!Spec
================================================================================
