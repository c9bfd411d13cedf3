# Verification of the application-monitoring-operator

The operator (Go, operator-sdk, controller-runtime 0.4) installs Prometheus,
Alertmanager and Grafana when an `ApplicationMonitoring` CR is created, keeps part of
the stack up to date, and turns the targets of `BlackboxTarget` CRs into a scrape
configuration. It is small, but everything it does is a sequence of API calls made from
stale copies, in two controllers and a goroutine that share memory, any of which may
fail or be cut short. This directory models that: TLA+ modules translated from
`src/pkg/controller`, configurations that TLC checks, and theorems that TLAPS proves.

Below, *AMO* is `applicationmonitoring/applicationmonitoring_controller.go` and *BTC* is
`blackboxtarget/blackboxtarget_controller.go`, both under `src/pkg/controller/`.

## 1. Inventory

| Component | State | Operations | What makes it correct |
|---|---|---|---|
| **BlackboxTarget controller** (BTC) | `status.phase` and `finalizers` of each CR; its entries in `BTs` | `Reconcile`: `setFinalizer`, `updatePhase`, `reconcileConfig` (service account, entry set or dropped), `removeFinalizer` | no entry outlives its CR; entries converge to the CRs; deletions complete; no user's write is undone |
| **BTs** (`common/btconfig.go`) | a Go map, in memory, no lock | `Flatten`, written directly by BTC | readers and writers do not collide; order does not matter to readers |
| **Scrape configuration sync** (AMO 433-496, 697-782) | `status.lastblackboxconfig` (a hash), the secret `additional-scrape-configs`, `r.watch` | `syncBlackboxTargets`, `createOrUpdateAdditionalScrapeConfig`, the watch goroutine | the hash never hides a stale secret; the secret converges to both sources; writes stop |
| **Installation** (AMO 115-177, 498-658, 784-809) | `status.phase` 0..9, the stack's resources | one function per phase | no phase is left incomplete; the installation completes |
| **Steady state** (AMO 179-342) | the operands, deployments and service accounts | `checkServiceAccountAnnotationsExist`, `updateCRs`, `updateOperatorDeployments`, `reconcileConfig` | what may be repaired is repaired |
| **Cleanup** (AMO 135-142, 811-830) | the finalizer, the Grafana data source | `cleanup`, `deleteResource` | it is not skipped; the deletion completes; owned resources are collected |
| **Watch of the user's secret** (AMO 135-139, 452-496, `kubeHelper.go`) | `r.watch`, one goroutine per watch | `tryWatchAdditionalScrapeConfigs`, `Stop`, the goroutine's `r.watch = nil` | the watch is renewed; goroutines do not pile up; a panic does not block a deletion |
| **Exporter configuration** (AMO 346-431) | ConfigMap `blackbox-exporter-config`, the Prometheus pod | `reconcileBlackboxExporterConfig` | a changed ConfigMap is always loaded; Prometheus is not restarted for ever |
| **Templates, resource helper** | none | YAML from parameters | not modelled: formatting |
| **Process** (`cmd/manager/main.go`) | none | manager, leader election, metrics | not modelled: wiring |
| **API types, deployment** | none | declarations, manifests, scripts | not modelled: no behaviour |

How they interact:

* Each controller has a work queue and **one worker** (the default
  `MaxConcurrentReconciles`), so calls of one `Reconcile` do not overlap. The two
  workers, and the goroutine of the secret watch, run concurrently.
* All reads go through the manager's cache (AMO 99-100) and lag behind; the watch of the
  user's secret alone goes to the API server (`kubeHelper.go:31`).
* BTC writes `BTs`; AMO's worker and the watcher read it through `Flatten`, both when a
  template is rendered (`templateHelper.go:146`) and when the hash is computed (AMO 764).
* BTC creates the exporter's service account, without which AMO's steady state fails
  before it synchronises anything (AMO 374-376, 181-184).
* The CR's `status` is written with `client.Update`. This works because the deployed
  CRDs (`deploy/crds/applicationmonitoring.*_crd.yaml`) declare no status subresource,
  although the type carries the marker for one (`applicationmonitoring_types.go:42`).
* The cluster takes part: the API server (resourceVersions, finalizers), the garbage
  collector (owner references), the Grafana operator (a finalizer on the data source).

What is hard: stale copies and optimistic locking; failure or restart between two calls;
a shared copy of the CR in two threads; a watch that overtakes a cache; two variables,
`BTs` and `r.watch`, that threads share without a lock; the random order of a map;
deletion and re-creation while a call runs or the garbage collector lags. The
list, with lines, is `hazards` in `PROJECT.json`. The repository has one placeholder test
and therefore says little about any of it.

## 2. Modules

| Module | Models |
|---|---|
| `TargetRegistry` | abstract: what BTC promises the rest of the operator about `BTs` |
| `BlackboxTargets` | BTC and the entries of `BTs`; implements `TargetRegistry` |
| `ScrapeConfigSync` | the two threads that write the scrape configuration |
| `Pipeline` | both in one process: `TargetRegistry` for BTC, `ScrapeConfigSync` for AMO |
| `SecretWatch` | `r.watch`, its goroutines, and the deletion and re-creation of the CR |
| `Lifecycle` | abstract: the life of an `ApplicationMonitoring` CR |
| `Install` | AMO's phases, the calls of the steady state, cleanup, and the stack's resources; implements `Lifecycle` |
| `SteadyState` | contents of the operands and of the exporter's configuration, and its reload |
| `MCInstall` | for TLC: the installation script restricted to a run's resources |
| `*_proofs` | theorems about the module of that name |

AMO's steady state is split by concern. `ScrapeConfigSync` knows the calls before
`syncBlackboxTargets` only as calls that may fail; `SteadyState` has those calls and knows
`syncBlackboxTargets` only as the step `Sync`, whose being reached again and again is a
property (`SyncGoesOn`). `SecretWatch` has the life of the watch, `ScrapeConfigSync` what
its events do; there the CR exists throughout. `Install` has every call and every
resource, but not what resources contain.

Each model's mutants (definitions whose comment begins with "Mutant:") are plausible
bugs of the code; each property is shown to fail under one of them, listed in
`PROJECT.json`. They are not part of the specifications.

### Conventions common to all modules

* **Optimistic locking without numbers.** An `Update` is accepted only if the copy it was
  made from has the stored resourceVersion. Instead of numbering versions, `fresh` holds
  the copies that are at the current one; a write empties it, delivery by the watch or a
  read from a fresh cache adds to it. The state space stays finite with no bound on
  versions.
* **One action per call that reads or writes shared state.** Between two calls any other
  thread, user, or the cluster may act. A call that may fail has an action for its
  failure, after which `Reconcile` returns and its name is queued again if the code
  returns an error or asks for it.
* **Restart** empties what is in memory and refills the caches from the API server.
* **History variables.** `doubtful` (`ScrapeConfigSync`), `foreign` and `owed`
  (`SteadyState`) record what happened and no action reads them. They let a property say
  after *which* steps the code may be wrong, instead of being checked only where those
  steps do not occur.
* **Bounds** (`MaxEdits`, `MaxCrashes`, `MaxChanges`, `MaxFaults`, `MaxCRs`) limit what
  users and failures do, never the operator. A failed call is a fault, but a conflict is
  not: conflicts happen whenever a copy is stale.

### BlackboxTargets

`bt`, `cache`, `fresh`, `queue`, `worker` (its step and its `instance`), `BTs`, `account`.
`Reconcile(n)` reads the cache and picks a step by the phase (BTC 105-113);
`UpdateSucceeds`/`UpdateFails` are the single `Update` of `setFinalizer`, `updatePhase`
and `removeFinalizer`, whose object is `Desired`; `EnsureAccount`, `SetEntry`, `DropEntry`
are `reconcileConfig`. A deletion is honoured only in the last phase, as in the code.
Two details are kept on purpose: the finalizer is added only to a CR without any
(BTC 155), and `removeFinalizer` clears all of them (BTC 174). `Holdable` names the CRs
that other controllers may hold.

`TargetRegistry` has no cache, queue, worker or finalizer. A list that users declared
stays *on offer* until the controller has forgotten it, and only what is on offer is
published; a CR that users delete stays until its entry is taken back; what was taken
back returns only if it is declared anew. `BlackboxTargets` implements it for the CRs that
no other controller holds. The refinement mapping: `published` is `BTs`, `wanted` the
targets of a CR that is not being deleted, and `offered` the targets of the CR and of each
copy, in the cache or in the worker's hands, that could make `reconcileConfig` publish
(`Publishes`: last phase, no deletion mark).

### ScrapeConfigSync

The CR is in `PhaseReconcileConfig`. A hash is represented by the text it is the md5 of
(no collisions), a text by a sequence of lists of targets, and `Flatten` by the *set* of
all orders of the entries, from which every call picks one. `copies` holds the cache's
copy, the worker's own deep copy and the copy captured by the watcher; `StartWatch` hands
the worker's copy to the goroutine, and both go on with it. `Render`, `SaveSucceeds` /
`SaveFails`, `Write` / `WriteFails` are `createOrUpdateAdditionalScrapeConfig`, run by
either thread. `Disturbances` names what may go wrong in a run, so that a property which
needs an assumption names it:

| Disturbance | |
|---|---|
| `overlap` | targets change while a thread is between rendering and writing |
| `race` | a write of `BTs` overlaps an iteration of `Flatten` |
| `callError` | a call other than the write of the secret fails |
| `writeError` | the write of the secret fails |
| `restart`, `restartEarly` | the process restarts while no write of the secret is due, or while one is |

The specs of the CR have a retention: `Reconcile` fills in the default (AMO 144-146) and
the installation's first update saves it, before this module begins. The exporter's
configuration appears only as a call that may fail. The secret is taken to exist.

`doubtful` records the threads whose call has been disturbed since it rendered (`BTs`
changed, or an iteration raced), and `"secret"` when the last call to reach its end was
disturbed, or its write failed or was cut short. `HashHonest` says that only then, and only
until a call of either thread ends undisturbed, the hash may hide a stale secret.

The map `BTs` is accessed without a lock. `race` stands for a write that overlaps an
iteration: the result is any list of at most as many entries as there are names, each
once, twice or not at all (`Mixtures`), or Go notices and ends the process, which is
`restart` or `restartEarly`. Concurrent *writes* cannot happen: BTC has one worker.

### Pipeline

The composition of the two controllers; they share `BTs` and the process. BTC appears as
`TargetRegistry`, which is what `RegistryImplemented` allows: `UpdateBTs` publishes or
retracts, `Progress` is what BTC does out of sight of AMO, `Declare` is a user. AMO is
`ScrapeConfigSync` unchanged, its `ChangeTargets` replaced by the registry's steps.
`Restart` ends both.

### SteadyState

A rendered text is represented by what it is rendered from: an operand by the spec and
whether the host of its route was known, the ConfigMap by the spec and the token. `loaded`
is what the exporter in each Prometheus pod read when it started. `LookUpHosts` overwrites
the error of the first lookup (AMO 251-252); `GetOperand` reads the resourceVersion that
`UpdateOperand` sends; `ConfigFails` collects the early returns of
`reconcileBlackboxExporterConfig`; after `UpdateConfig` the first pod that the *cache* lists
is deleted (`ReloadPod`) or the call ends with an error (`ReloadFails`).
`callError`, `reloadError`, `restart`, `restartEarly` and `podsLag` are its disturbances.
`owed` records the pods that were out of date when a reload chose another pod, found none
or was given up, until they stop: `NoMissedReload` says that no other pod is ever left
behind, `ConfigReloaded` that the others end up right.
The service accounts' annotations and the deployments of the operators are in `Install`.

### SecretWatch

`watch` is `r.watch`, `watcher` gives the goroutine of each watch with the CR and setting
it captured, `open` the watches whose channel is open. Nothing orders the accesses to
`r.watch`. An interface value is two words, so a store that meets another may leave the
type of one and the pointer of the other (`StoreTorn`), and `Stop` may be called on what
`r.watch` has become since it was compared with nil (`StopPanics`), or on what it was
(`StopWatch`): both can be built from the code. Every event's object is taken for a secret
before its type is looked at (AMO 482): `ErrorEvent` ends the process. A panic is
followed by a restart. A setting stands for the name of the secret and the labels watched.

### Install

A phase is a *script*, a sequence of tasks (`InstallScript`): create, await, save the
hash, write the secret, set the finalizer, heal, update. The worker runs the script of
its instance's phase, or `CleanupScript` if the instance is being deleted, one task per
action, and then updates the phase (`UpdatePhase`; refused: `Conflict`). Resources carry
the uid of their owner; `Collect` is the garbage collector, `Observe` the cache and
readiness of the resources the controller looks at, `GrafanaFinalizes` the Grafana
operator letting the data source go. Rendered contents are abstracted. `PhaseScript` is a
constant, so that theorems hold for every script and runs may leave resources out.

`Lifecycle` has no phases, caches, conflicts or resources: a CR is installed once, is
marked for deletion or, while it is not held yet, vanishes, and one that was marked is let
go only when the data source has been given up. The refinement mapping: the CR is
`steady` in `PhaseReconcileConfig`, `installing` before, `deleting` once it is marked; a
data source is kept while it exists and is not terminating. That an installed CR cannot
vanish is what the finalizer, the order of the cleanup's steps and the refusal of stale
writes give together. `SecretWatch` takes this life of the CR for granted.

Not in the module: finalizers of others on the `ApplicationMonitoring` CR, a second CR in
the namespace, and the watcher (it only appears in `ScrapeConfigSync`).

## 3. What the runs check

| Run | Instance | Shows |
|---|---|---|
| `blackbox_targets` | 2 CRs, one of which may be held by another controller, 2 lists, 3 edits, 1 restart | `TypeOK`, `NoOrphanTargets`, `NothingForgotten`, `NoLostUpdate`, `RestIsStable`, `ImplementsRegistry`, `DeletionCompletes`, `RegistryConverges` |
| `pipeline` | 2 CRs, 2 lists, watch on; 2 declarations, 1 failed call or restart | `PipelineTypeOK`, `HashHonest`, `RestIsStable`, `TargetsArrive`, `WritesStop` |
| `sync_disturbed` | 1 CR, 2 specs, 1 user configuration; 2 changes, 1 edit, 1 fault; every disturbance | `HashHonest`, `NoLostSpec`, `WatchRepairs` |
| `install_all` | all 25 resources; 2 edits or deletions of a service account, 1 fault | `InstalledBeforeAdvance`, `InstallCompletes`, `AccountsHealed` |
| `install_deletion` | 6 resources, deletion in any phase, 1 edit, 1 fault | `TypeOK`, `HeldWhenInstalled`, `NeverForgotten`, `NothingEscapesCollection`, `NoSetback`, `CleanupNotSkipped`, `ImplementsLifecycle`, `DeletionCompletes`, `OwnedCollected` |
| `steady_state` | 2 specs, 2 pods, 1 edit, deletion or stopped pod, 2 failed calls or restarts; every disturbance | `TypeOK`, `NoMissedReload`, `RestIsStable`, `ConfigReloaded`, `OperandsRepaired`, `ComesToRest`, `SyncGoesOn` |
| `secret_watch` | 3 CRs in turn, 2 settings, 4 watches, 1 edit, 1 failure, Error event or restart | `TypeOK`, `WatchersBounded`, `DeadOnlyByEarlyEnd`, `WatchRenewed`, `DeletionNotBlocked` |

Five runs show disagreements of the code with its own comments or README (`findings` in
`PROJECT.json` quotes them):

| Run | What happens |
|---|---|
| `sync_write_error` | the hash is saved before the secret (AMO 767, 773); if the second write fails, the secret is never written again |
| `steady_replicas` | with an affinity there are three pods (`templates/prometheus.yaml:10-11`), and only one is deleted to reload the exporter's configuration (AMO 424): two keep the old one |
| `install_again` | a CR created again meets resources of its predecessor, takes AlreadyExists for success (AMO 652) and waits for ever once they are collected |
| `install_secret_left` | updating the secret drops its owner (AMO 755-758): it outlives the CR |
| `install_no_cleanup` | the finalizer comes after what it protects (AMO 803): a CR deleted in between is not cleaned up |

**Why the bounds are enough.** The interesting behaviours need one copy that is stale,
one failure or restart between two calls, and a CR that is created, edited, deleted and
created again. Three edits of two CRs give all orders of three of those, a foreign hold
among them (the theorems have no bound); two changes of `BTs` give a rendering that is
overtaken, and two lists give two orders of a map. One fault is enough to separate any
two calls; a second would start from a state that a first edit reaches as well.
`install_deletion` keeps one resource of each kind that matters to deletion (the secret,
a deployment that is waited for, a route that is waited for, a service account, the
Grafana operator, the data source). `install_all` has two edits, so that both accounts
can be missing at once. `steady_state` has two pods, so that a reload can choose the
wrong one, and two faults, so that what one has left behind can meet another; the first
token alone makes the ConfigMap change while the one edit is under way. `secret_watch`
has three CRs so that goroutines of two former ones can be late; four watches are one
more than can be alive at a time, so that there is always a free one.

**Where properties are stated with conditions.**

* `NoOrphanTargets` and `ImplementsRegistry` speak of the CRs that no other controller
  holds, and `RegistryConverges` lets an entry of one that was held stay after the CR is
  gone: a CR held by another's finalizer before the operator sees it never gets the
  operator's (BTC 155).
* `TargetsArrive` and `SecretConverges` need targets that do not change within a write or
  an iteration, and no failure or restart between the saved hash and the write (run
  `sync_write_error` shows the last condition). `HashHonest` needs none of these, and
  instead names the calls after which the hash may hide a stale secret: they end up as
  `doubtful`. `WatchRepairs` needs none either, but a secret of the user's that exists,
  whose watch is renewed.
* `WritesStop` needs targets that can be listed in one order only: with two CRs of
  different lists the hash depends on the order of the map, and the CR and the secret
  are rewritten for ever.
* `ConfigReloaded` leaves out the pods that are `owed` a reload: the comparison cannot
  see later that one was passed over or given up (run `steady_replicas` checks
  `ConfigLoaded`, which leaves out nothing). `NoMissedReload` also leaves out a ConfigMap
  that a user wrote last, until the operator has written it again.
* Overlap of the two controllers is possible at every step of the code. It is on in
  `sync_disturbed` and in the theorems, and off in `pipeline`, whose `TargetsArrive` says
  so.
* `WatchRenewed` excepts a *dead* watch: `r.watch` set, and no goroutine that would ever
  clear it. `DeadOnlyByEarlyEnd` says that this comes about in one way only, a stream that
  ends before, or while, its watch is stored (AMO 463).
* `RestIsStable` says what a controller at rest does until a user, a restart or a failure
  disturbs it: nothing is written. In `ScrapeConfigSync` and `Pipeline`, rest requires
  targets with one order (as `WritesStop`), and no iteration of `BTs` that a write overlaps.
  In `SteadyState` it needs no condition, and holds for any number of pods.
* `NothingForgotten` lets the entry of a CR that another controller held stay, as
  `RegistryConverges` does.
* `NothingEscapesCollection` leaves out the data source, which the cleanup itself deletes
  (`CleanupNotSkipped`), and the secret, whose update drops the owner (run
  `install_secret_left`).
* `InstalledBeforeAdvance` leaves out what users delete, and holds for a CR that is not a
  re-creation (run `install_again` shows why).

**Deadlock** is checked except where a run may end: the `Install` runs in which the CR
can be deleted reach a state in which everything is gone and nothing is left to do, as
`secret_watch` does once its last CR is gone.

### Fairness

* Caches and watches deliver in the end, and the garbage collector runs
  (`WF` of `Deliver`, `DeliverCR`, `DeliverExtra`, `Observe`, `Collect`): the promise of
  informers and of the cluster.
* A worker that runs goes on running (`WF` of its steps), as Go's scheduler does; a name
  in a work queue is served in turn, hence the strong fairness of
  `ReconcileNotFound(n) \/ Reconcile(n)` in `BlackboxTargets`.
* In `BlackboxTargets` failures are not counted, and an update is not refused for ever
  (`SF` of `UpdateSucceeds`): each retry reads a newer cache, with edits bounded.
  In the other modules failures are bounded by `MaxFaults`.
* The API server closes each watch in the end (its request timeout), and not every one
  before its first event (`WF` of `WatchEnds`, `StreamEnds`, `SF` of `ReceiveEvent`).
* In `Pipeline`, BTC forgets what is stale and publishes what is wanted: this is
  `RegistryConverges`, checked of `BlackboxTargets`. It is strong fairness because
  without `overlap` `BTs` may change only between two writes of AMO, which never stop
  being possible, but are not always.
* In `SteadyState` the cluster issues a token for the account and starts pods that are
  missing, and the informers' periodic resync makes BTC create a missing account in the
  end (`WF` of `EnsureAccount`), provided there is a BlackboxTarget.
* Nothing is assumed of users, of restarts, of the Grafana operator, of foreign
  controllers, or, in the other modules, of the periodic resync.

## 4. What is proved

For all values of the constants, with the named assumptions of the modules (sentinels
outside the types, bounds natural, finitely many names, a script that sets the finalizer
in `PhaseFinalizer`):

| Theorem | Statement |
|---|---|
| `LockingCorrect`, `TypeCorrect` | a fresh copy of a BlackboxTarget is the stored one; types |
| `NoUpdateIsLost` | `Spec => NoLostUpdate` |
| `NothingIsOrphaned` | `Spec => []NoOrphanTargets` |
| `RegistryImplemented` | `Spec => ImplementsRegistry`, the refinement of `TargetRegistry` |
| `NothingIsForgotten` | `Spec => []NothingForgotten` |
| `RestStaysRest` (`BlackboxTargets`) | `Spec => RestIsStable` |
| `CopiesCorrect`, `SyncTypeCorrect` | a fresh copy of the CR has the stored spec, and running threads have their copy in memory; types |
| `NoSpecIsLost` | `Spec => NoLostSpec` |
| `HashIsHonest` | `Spec => []HashHonest`, with every disturbance |
| `RestStaysRest` (`ScrapeConfigSync`) | without `race`, `Spec => RestIsStable` |
| `PipelineTypeCorrect`, `PipelineHashIsHonest` | the same of the composition, `PipelineSpec` |
| `PipelineRestStaysRest` | without `race`, `PipelineSpec => RestIsStable` |
| `InstallLockingCorrect`, `InstallTypeCorrect` | a fresh copy agrees with the stored CR; types |
| `NothingIsSetBack` | `Spec => NoSetback` |
| `InstalledIsHeld` | `Spec => []HeldWhenInstalled` |
| `CleanupIsNotSkipped` | `Spec => CleanupNotSkipped` |
| `InstallationIsComplete` | with one CR, `Spec => []InstalledBeforeAdvance` |
| `TheCRIsNeverForgotten` | `Spec => []NeverForgotten` |
| `NothingEscapes` | `Spec => []NothingEscapesCollection` |
| `InstallImplementsLifecycle` | `Spec => ImplementsLifecycle`, the refinement of `Lifecycle` |
| `SteadyTypeCorrect` | types, for any number of pods |
| `ReloadsAreMade` | `Spec => []NoMissedReload`, for any number of pods, with every disturbance |
| `RestStaysRest` (`SteadyState`) | `Spec => RestIsStable`, for any number of pods |
| `WatchTypeCorrect`, `WatchersStayFew` | types; `Spec => []WatchersBounded` |
| `DeathIsEarly` | `Spec => DeadOnlyByEarlyEnd` |

How the arguments go. In each module the ground is a *locking invariant* (`LockInv`,
`CopyInv`): types, and what a fresh copy is worth. An accepted update is made from a
fresh copy, so it changes the stored object only in the field the step means to change;
`NoUpdateIsLost`, `NoSpecIsLost` and `NothingIsSetBack` follow.

* `OrphanInv` strengthens `NoOrphanTargets`: the finalizer is there from `PhaseDone` on;
  a copy that makes the worker publish targets, *however stale*, is a copy of a CR that is
  still held; the entry of a CR that is about to be released is gone. Stale copies cannot
  mislead because only this worker, one call at a time, lifts the finalizer.
* `RegistryInv` strengthens `OrphanInv` for the refinement: a copy that is marked for
  deletion, however stale, is not of a CR that could be publishing now, and while the
  worker holds one the cache has none to publish (`DeletionSeen`). So when an entry is
  taken back nothing is on offer, and a step that drops the last stale copy of a list
  takes it off offer. There is one lemma per step of the registry; most actions map to
  `Settle` or stutter.
* `SettledInv` strengthens `NothingForgotten` by `OrphanInv` and `StaleCallsRepeated`: a
  call on a stale copy is not the last one, because the event that made the copy stale is
  still to be delivered or has queued the name again. So a call that ends with nothing
  left to do has seen the CR as it is.
* `HonestInv` (`JobsCurrent`) strengthens `HashHonest`: a job that is not in doubt holds
  the targets of now, and as long as a write that is not in doubt is due, by either thread,
  the saved hash is one of now, whichever thread saved it. So the undisturbed write of one
  thread cannot be spoilt by what the other has saved.
  It rests on a lemma that any two flattenings of one map have the same lists equally
  often, which is proved from bijections and the cardinality theorems.
* `HeldInv` strengthens `HeldWhenInstalled`: once `setFinalizer` has run, the finalizer is
  in the copy in memory, *saved or not*, and the update of the phase that follows writes
  that copy. Ignoring the result of the first update (AMO 805) is harmless for this reason.
* `OwnedInv` strengthens `NothingEscapesCollection`: every copy, however stale, is of a CR
  that was created, so that the uid it hands to a resource is one the collector knows.
* `CleanupInv` is what `CleanupNotSkipped` rests on: `HeldInv`, so that an installed CR
  goes only by the step that removes the finalizer, and `DeletedFirst`: a cleanup at that
  step has been through the deletion of the data source, and nothing creates one
  meanwhile, because creating is a step of the same worker.
  The refinement of `Lifecycle` rests on it as well: one lemma says in which ways a CR
  can go, one per action which step of the lifecycle it is.
* `InstalledInv` strengthens `InstalledBeforeAdvance`: what the steps already executed
  by the running call make exists, for the phase in its copy even if that is stale; no
  copy knows of a deletion the stored CR does not; the data source goes only with the CR.
* `PipelineInv` is the invariant of `ScrapeConfigSync` with the registry's types. The steps
  of the composition are steps of that module, or change `BTs` where it may change, or
  leave it alone; the lemmas are reused.
* `NoMissedReload` is inductive with the types: only the update of the ConfigMap makes a
  pod out of date, it leads to the reload, and every way out of that is recorded.
* `IInv` of `SecretWatch_proofs` strengthens `WatchersBounded`: the cache lags but does not
  go back (`Lag`); while `r.watch` is set, or about to be, the CR it is for exists
  (`Held`); and when a watch can be started there is room for a goroutine (`Room`). A
  late goroutine makes room by ending, which is why clearing the wrong watch leads to at
  most one more. `DeathIsEarly` needs the types only.

The `RestStaysRest` theorems need types and what a fresh copy is worth: rest is closed
under every step that is not a disturbance, since each write is made from a rendering, a
comparison or a phase that already agrees with what is stored. The one hard step is
`OneFlattening` in `ScrapeConfigSync`: at rest there is one order of the targets, so that
the two flattenings of a write, the one rendered and the one hashed, are the same.

**Safety halves of liveness.** The prover cannot reach liveness, but much of what a
convergence property says is safety: that no event or error is lost on the way
(`NothingForgotten`, `NeverForgotten`), that the state to converge to, once reached, is
kept (`RestIsStable`), that what the code stops looking at is right but for named
exceptions (`HashHonest`, `NoMissedReload`). These are proved. What remains for TLC is
that the controllers get there, given fairness.

Every strengthening was first checked with TLC as an invariant. Only model-checked:
liveness (`RegistryConverges`, `DeletionCompletes`, `TargetsArrive`,
`WatchRepairs`, `WritesStop`, `InstallCompletes`, `AccountsHealed`, `OwnedCollected`,
`ConfigReloaded`, `OperandsRepaired`, `ComesToRest`, `SyncGoesOn`, `WatchRenewed`,
`DeletionNotBlocked`), which the prover cannot reach.

## 5. Plan

1. *Done*: `BlackboxTargets`, `ScrapeConfigSync`, `Install`, their runs, locking and type
   theorems, the main safety theorems.
2. *Done*: `TargetRegistry` and its refinement, with the proof; `Pipeline`; `SteadyState`
   (the exporter's configuration, the token, the operands); `SecretWatch` (the watch across
   deletion and re-creation); the race on `BTs`.
3. *Done*: a proof of `CleanupNotSkipped`; the safety halves of the liveness properties of
   `BlackboxTargets`, `ScrapeConfigSync`, `Pipeline`, `SteadyState` and `Install`, with
   proofs; `Lifecycle` and the proof that `Install` implements it. Every invariant of a
   passing run, and every action property, has a theorem.
4. *To do*: that the composition of `BlackboxTargets` itself with `ScrapeConfigSync`
   implements `Pipeline`, which would make the end-to-end theorems ones about the detailed
   BTC (`Pipeline` uses the registry that BTC is proved to implement, so nothing is
   assumed, but the step is made in prose); the safety half of `WatchRenewed`.

A module of its own for `BTs` at the grain of one iteration step was planned and not
built: it would have restated the semantics of Go's maps, from which `Mixtures` follows,
and the question for this code is what a wrong list does afterwards (`WatchRepairs`).

## 6. Not modelled

* Templates and the resource helper (`templateHelper.go`, `resourceHelper.go`): formatting,
  without state. What a text is rendered *from* is in the modules.
* The process' wiring, metrics and leader election (`main.go`), and with it two operators at
  once: the error of `leader.Become` is ignored (`main.go:85`), but the call waits until the
  lock is held and fails only if it cannot read its pod or the lock.
* API types, generated code, manifests and scripts: no behaviour.
* Two `ApplicationMonitoring` CRs in a namespace: the resources have fixed names, and the
  operator is meant for one.
