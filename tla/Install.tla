--------------------------------- MODULE Install ---------------------------------
(***************************************************************************)
(* The life of an ApplicationMonitoring CR: the phases in which the        *)
(* controller installs the monitoring stack, the steady state in which it  *)
(* keeps some of the stack's resources up to date, and the cleanup when    *)
(* the CR is deleted.  Every created resource names the CR as its owner,   *)
(* so the cluster's garbage collector deletes it after the CR is gone; a   *)
(* CR may be created again under the same name (another uid) meanwhile.    *)
(*                                                                         *)
(* A Reconcile call runs a script, the sequence of API calls of its phase, *)
(* on the copy of the CR ("instance") it read from the cache.  fresh is    *)
(* the set of copies at the CR's current resourceVersion                   *)
(* (BlackboxTargets).                                                      *)
(***************************************************************************)
EXTENDS Integers, Sequences, FiniteSets

CONSTANTS
  Resources,    \* names of the resources of the stack
  PhaseScript,  \* what each phase does: InstallScript, or a part of it
  Absent,       \* "no such CR"
  Missing,      \* "no such resource"
  Removable,    \* may users delete the CR?
  Deletable,    \* the resources of the stack that users may delete
  MaxCRs,       \* bound: CRs created
  MaxEdits,     \* bound: edits of the CR and deletions of resources by users
  MaxFaults     \* bound: failed API calls and restarts of the operator

PhaseInstallPrometheusOperator == 0
PhaseWaitForOperator           == 1
PhaseCreatePrometheusCRs       == 2
PhaseCreateAlertManagerCrs     == 3
PhaseCreateAux                 == 4
PhaseInstallGrafanaOperator    == 5
PhaseCreateGrafanaCR           == 6
PhaseFinalizer                 == 7
PhaseDone                      == 8
PhaseReconcileConfig           == 9

Phases == PhaseInstallPrometheusOperator..PhaseReconcileConfig

ScrapeConfigSecretName == "additional-scrape-configs"
GrafanaDataSourceName  == "grafana-datasource"
GrafanaOperatorName    == "grafana-operator"
PrometheusOperatorName == "prometheus-operator"
AlertManagerRouteName  == "alertmanager-route"
ServiceAccounts        == <<"alertmanager-service-account", "prometheus-service-account">>
OperandCRs             == {"prometheus", "alertmanager"}

\* A step of a phase.
Task ==
  [do : {"create", "await", "saveHash", "writeSecret", "setFinalizer", "heal",
         "updateCRs", "updateOperators"},
   what : STRING]

Creates(names) == [i \in DOMAIN names |-> [do |-> "create", what |-> names[i]]]

Await(name) == <<[do |-> "await", what |-> name]>>

\* createOrUpdateAdditionalScrapeConfig
SyncScript == <<[do |-> "saveHash",    what |-> ScrapeConfigSecretName],
                [do |-> "writeSecret", what |-> ScrapeConfigSecretName]>>

\* The API calls of each phase, up to the update of the phase.
InstallScript ==
  [p \in Phases |->
    CASE p = PhaseInstallPrometheusOperator ->
           SyncScript \o
           Creates(<<"prometheus-operator-service-account", PrometheusOperatorName,
                     "prometheus-proxy-secret", "blackbox-exporter-config">>)
      [] p = PhaseWaitForOperator -> Await(PrometheusOperatorName)
      [] p = PhaseCreatePrometheusCRs ->
           Creates(<<"prometheus-route">>) \o Await("prometheus-route") \o
           Creates(<<"prometheus-service-account", "prometheus-service", "prometheus">>)
      [] p = PhaseCreateAlertManagerCrs ->
           Creates(<<AlertManagerRouteName>>) \o Await(AlertManagerRouteName) \o
           Creates(<<"alertmanager-service-account", "alertmanager-service",
                     "alertmanager-secret", "alertmanager-proxy-secret", "alertmanager">>)
      [] p = PhaseCreateAux ->
           Creates(<<"prometheus-servicemonitor", "grafana-servicemonitor",
                     "prometheus-rule">>)
      [] p = PhaseInstallGrafanaOperator ->
           Creates(<<"grafana-proxy-secret", "grafana-operator-service-account",
                     "grafana-operator-role", "grafana-operator-role-binding",
                     GrafanaOperatorName>>)
      [] p = PhaseCreateGrafanaCR -> Creates(<<GrafanaDataSourceName, "grafana">>)
      [] p = PhaseFinalizer -> <<[do |-> "setFinalizer", what |-> "monitoring.cleanup"]>>
      [] p = PhaseDone -> << >>
      [] p = PhaseReconcileConfig ->
           <<[do |-> "heal",            what |-> "serviceaccounts"],
             [do |-> "updateCRs",       what |-> "prometheus, alertmanager"],
             [do |-> "updateOperators", what |-> "deployments"]>> \o SyncScript]

\* Mutant: the finalizer is removed first.
CleanupScriptSwapped ==
  <<[do |-> "removeFinalizer", what |-> "monitoring.cleanup"],
    [do |-> "delete",          what |-> GrafanaDataSourceName]>>

CleanupScript == <<[do |-> "delete",          what |-> GrafanaDataSourceName],
                   [do |-> "removeFinalizer", what |-> "monitoring.cleanup"]>>

\* The resources that phase p creates.
Created(p) ==
  {r \in Resources : \E i \in DOMAIN PhaseScript[p] :
     PhaseScript[p][i] \in {[do |-> "create",      what |-> r],
                            [do |-> "writeSecret", what |-> r]}}

\* The resources the controller waits for, or looks up in its cache.
Observable == {PrometheusOperatorName, "prometheus-route", AlertManagerRouteName,
               ScrapeConfigSecretName, "alertmanager-service-account",
               "prometheus-service-account"} \cap Resources

ASSUME ScriptAssumption ==
  /\ Resources \subseteq STRING
  /\ PhaseScript \in [Phases -> Seq(Task)]
  /\ \A p \in Phases : \A i \in DOMAIN PhaseScript[p] :
       PhaseScript[p][i].do \in {"create", "await", "saveHash", "writeSecret"}
         => PhaseScript[p][i].what \in Resources
  /\ \A p \in Phases : \A i \in DOMAIN PhaseScript[p] :
       PhaseScript[p][i].do = "writeSecret"
         => PhaseScript[p][i].what = ScrapeConfigSecretName
  /\ \E i \in DOMAIN PhaseScript[PhaseFinalizer] :
       PhaseScript[PhaseFinalizer][i].do = "setFinalizer"
ASSUME BoundsAssumption ==
  MaxCRs \in Nat /\ MaxEdits \in Nat /\ MaxFaults \in Nat
ASSUME UsersAssumption == Removable \in BOOLEAN /\ Deletable \subseteq Resources

NoOwner == 0

AM == [uid : 1..MaxCRs, phase : Phases, finalizer : BOOLEAN, deleting : BOOLEAN]

Resource == [owner : 0..MaxCRs, terminating : BOOLEAN]

ASSUME AbsentAssumption  == Absent \notin AM
ASSUME MissingAssumption == Missing \notin Resource

VARIABLES
  am,         \* the CR, as the API server stores it
  cache,      \* the CR, as the operator's informer last saw it
  fresh,      \* which copies of the CR are at its current resourceVersion
  queued,     \* is the CR's name in the work queue?
  worker,     \* the running Reconcile call, if any
  resources,  \* the resources, as the API server stores them
  seen,       \* the observable resources the cache shows, and shows to be ready
  created, edits, faults

vars == <<am, cache, fresh, queued, worker, resources, seen, created, edits, faults>>

Idle == [step |-> 0]

Running == [step : Nat \ {0}, instance : AM, update : BOOLEAN]

\* The types of the CR, of its copies and of the resources: no step leads beyond the
\* last phase, and every owner is the uid of a CR that was created.
TypeOK ==
  /\ am \in AM \cup {Absent}
  /\ cache \in AM \cup {Absent}
  /\ fresh \subseteq {"cache", "worker"}
  /\ queued \in BOOLEAN
  /\ worker \in Running \cup {Idle}
  /\ resources \in [Resources -> Resource \cup {Missing}]
  /\ seen \subseteq Observable
  /\ created \in 0..MaxCRs
  /\ edits \in 0..MaxEdits
  /\ faults \in 0..MaxFaults

Exists(r) == r \in Resources /\ resources[r] # Missing

Init ==
  /\ am = Absent
  /\ cache = Absent
  /\ fresh = {"cache"}
  /\ queued = FALSE
  /\ worker = Idle
  /\ resources = [r \in Resources |-> Missing]
  /\ seen = {}
  /\ created = 0
  /\ edits = 0
  /\ faults = 0

--------------------------------------------------------------------------------
(* Users and the cluster. *)

\* A CR marked for deletion is removed as soon as it has no finalizer.
Stored(o) == IF o.deleting /\ ~o.finalizer THEN Absent ELSE o

CreateCR ==
  /\ am = Absent
  /\ created < MaxCRs
  /\ created' = created + 1
  /\ am' = [uid |-> created + 1, phase |-> PhaseInstallPrometheusOperator,
            finalizer |-> FALSE, deleting |-> FALSE]
  /\ fresh' = {}
  /\ UNCHANGED <<cache, queued, worker, resources, seen, edits, faults>>

EditCR ==
  /\ am # Absent
  /\ edits < MaxEdits
  /\ edits' = edits + 1
  /\ fresh' = {}
  /\ UNCHANGED <<am, cache, queued, worker, resources, seen, created, faults>>

DeleteCR ==
  /\ Removable
  /\ am # Absent
  /\ ~am.deleting
  /\ am' = Stored([am EXCEPT !.deleting = TRUE])
  /\ fresh' = {}
  /\ UNCHANGED <<cache, queued, worker, resources, seen, created, edits, faults>>

\* Deletion of resource r.  The Grafana operator holds the data source with a
\* finalizer of its own.
Gone(r) == IF r = GrafanaDataSourceName THEN [resources[r] EXCEPT !.terminating = TRUE]
                                        ELSE Missing

UserDeletes(r) ==
  /\ Exists(r)
  /\ ~resources[r].terminating
  /\ edits < MaxEdits
  /\ edits' = edits + 1
  /\ resources' = [resources EXCEPT ![r] = Gone(r)]
  /\ UNCHANGED <<am, cache, fresh, queued, worker, seen, created, faults>>

\* The garbage collector deletes what is owned by a CR that is gone.
Collect(r) ==
  /\ Exists(r)
  /\ ~resources[r].terminating
  /\ resources[r].owner # NoOwner
  /\ IF am = Absent THEN TRUE ELSE am.uid # resources[r].owner
  /\ resources' = [resources EXCEPT ![r] = Gone(r)]
  /\ UNCHANGED <<am, cache, fresh, queued, worker, seen, created, edits, faults>>

\* The Grafana operator, while it runs, lets the data source go.
GrafanaFinalizes ==
  /\ Exists(GrafanaDataSourceName)
  /\ resources[GrafanaDataSourceName].terminating
  /\ Exists(GrafanaOperatorName)
  /\ resources' = [resources EXCEPT ![GrafanaDataSourceName] = Missing]
  /\ UNCHANGED <<am, cache, fresh, queued, worker, seen, created, edits, faults>>

--------------------------------------------------------------------------------
(* The informers and the process. *)

Deliver ==
  /\ "cache" \notin fresh
  /\ cache' = am
  /\ fresh' = fresh \cup {"cache"}
  /\ queued' = TRUE
  /\ UNCHANGED <<am, worker, resources, seen, created, edits, faults>>

\* The cache comes to show that r exists (a deployment that is ready, a route
\* with its host), or that it does not.
Observe(r) ==
  /\ (r \in seen) # Exists(r)
  /\ seen' = IF Exists(r) THEN seen \cup {r} ELSE seen \ {r}
  /\ UNCHANGED <<am, cache, fresh, queued, worker, resources, created, edits, faults>>

Fault ==
  /\ faults < MaxFaults
  /\ faults' = faults + 1

\* The process dies and starts again with fresh caches.
Restart ==
  /\ Fault
  /\ cache' = am
  /\ fresh' = {"cache"}
  /\ queued' = (am # Absent)
  /\ worker' = Idle
  /\ seen' = {r \in Observable : Exists(r)}
  /\ UNCHANGED <<am, resources, created, edits>>

--------------------------------------------------------------------------------
(* Reconcile. *)

ReconcileNotFound ==
  /\ worker = Idle
  /\ queued
  /\ cache = Absent
  /\ queued' = FALSE
  /\ UNCHANGED <<am, cache, fresh, worker, resources, seen, created, edits, faults>>

Reconcile ==
  /\ worker = Idle
  /\ queued
  /\ cache # Absent
  /\ queued' = FALSE
  /\ worker' = [step |-> 1, instance |-> cache, update |-> FALSE]
  /\ fresh' = IF "cache" \in fresh THEN fresh \cup {"worker"} ELSE fresh
  /\ UNCHANGED <<am, cache, resources, seen, created, edits, faults>>

\* What the running call executes.
Script == IF worker.instance.deleting THEN CleanupScript
                                      ELSE PhaseScript[worker.instance.phase]

Executing(do) ==
  /\ worker # Idle
  /\ worker.step \in DOMAIN Script
  /\ Script[worker.step].do = do

Finished == worker # Idle /\ worker.step = Len(Script) + 1

What == Script[worker.step].what

Continue == worker' = [worker EXCEPT !.step = @ + 1]

\* The call returns; the name is requeued on an error, or if that is asked for.
Return(requeue) ==
  /\ worker' = Idle
  /\ fresh' = fresh \ {"worker"}
  /\ queued' = (queued \/ requeue)

Environment == <<cache, seen, created, edits>>

\* Mutant: errors are logged and not returned.
CallFailsSilently ==
  /\ \/ Finished /\ worker.instance.phase < PhaseReconcileConfig
     \/ \E do \in {"create", "await", "saveHash", "writeSecret", "delete",
                   "removeFinalizer"} : Executing(do)
  /\ Fault
  /\ Return(FALSE)
  /\ UNCHANGED <<Environment, am, resources>>

\* A call that must succeed fails, if it is not a conflict (Conflict).
CallFails ==
  /\ \/ Finished /\ worker.instance.phase < PhaseReconcileConfig
     \/ \E do \in {"create", "await", "saveHash", "writeSecret", "delete",
                   "removeFinalizer"} : Executing(do)
  /\ Fault
  /\ Return(TRUE)
  /\ UNCHANGED <<Environment, am, resources>>

\* Mutant: the controller reference is not set.
PutUnowned(r) ==
  IF Exists(r) THEN resources
  ELSE [resources EXCEPT ![r] = [owner |-> NoOwner, terminating |-> FALSE]]

\* The cluster after Create of r: an existing resource is left as it is.
Put(r) ==
  IF Exists(r) THEN resources
  ELSE [resources EXCEPT ![r] = [owner |-> worker.instance.uid, terminating |-> FALSE]]

\* Mutant: every error of Create is taken for success.
CreateResourceRegardless ==
  /\ Executing("create")
  /\ \/ resources' = Put(What) /\ UNCHANGED faults
     \/ Fault /\ UNCHANGED resources
  /\ Continue
  /\ UNCHANGED <<Environment, am, fresh, queued>>

\* createResource takes AlreadyExists for success.
CreateResource ==
  /\ Executing("create")
  /\ resources' = Put(What)
  /\ Continue
  /\ UNCHANGED <<Environment, am, fresh, queued, faults>>

\* getPrometheusOperatorReady, getHostFromRoute
AwaitSucceeds ==
  /\ Executing("await")
  /\ What \in seen
  /\ Continue
  /\ UNCHANGED <<Environment, am, fresh, queued, resources, faults>>

\* Mutant: Reconcile does not ask to be called again.
AwaitNoMore ==
  /\ Executing("await")
  /\ What \notin seen
  /\ Return(FALSE)
  /\ UNCHANGED <<Environment, am, resources, faults>>

AwaitAgain ==
  /\ Executing("await")
  /\ What \notin seen
  /\ Return(TRUE)
  /\ UNCHANGED <<Environment, am, resources, faults>>

\* Every update of the CR is refused if the copy is not fresh.
Conflict ==
  /\ \/ Finished /\ worker.instance.phase < PhaseReconcileConfig
     \/ \E do \in {"saveHash", "removeFinalizer"} : Executing(do)
  /\ "worker" \notin fresh
  /\ Return(TRUE)
  /\ UNCHANGED <<Environment, am, resources, faults>>

\* The secret is looked up in the cache, then the CR is updated with the hash of
\* the targets; it keeps its resourceVersion if that changes nothing.
SaveHash ==
  /\ Executing("saveHash")
  /\ "worker" \in fresh
  /\ am' = worker.instance
  /\ fresh' = {"worker"} \/ (am' = am /\ fresh' = fresh)
  /\ worker' = [worker EXCEPT !.step = @ + 1, !.update = (What \in seen)]
  /\ UNCHANGED <<Environment, queued, resources, faults>>

\* An update replaces the metadata of the secret, its owner included.
UpdateSecret ==
  /\ Executing("writeSecret")
  /\ worker.update
  /\ IF Exists(What)
       THEN /\ resources' = [resources EXCEPT ![What].owner = NoOwner]
            /\ Continue
            /\ UNCHANGED <<fresh, queued>>
       ELSE /\ Return(TRUE)
            /\ UNCHANGED resources
  /\ UNCHANGED <<Environment, am, faults>>

\* Unlike createResource, this reports that the secret exists already.
CreateSecret ==
  /\ Executing("writeSecret")
  /\ ~worker.update
  /\ resources' = Put(What)
  /\ IF Exists(What) THEN Return(TRUE) ELSE Continue /\ UNCHANGED <<fresh, queued>>
  /\ UNCHANGED <<Environment, am, faults>>

\* Mutant: the finalizer is set in a copy that the update of the phase does not see.
SetFinalizerApart ==
  /\ Executing("setFinalizer")
  /\ \/ /\ "worker" \in fresh
        /\ am' = [worker.instance EXCEPT !.finalizer = TRUE]
        /\ fresh' = {"worker"}
        /\ worker' = [worker EXCEPT !.step = @ + 1, !.instance.finalizer = TRUE]
        /\ UNCHANGED faults
     \/ /\ IF "worker" \in fresh THEN Fault ELSE UNCHANGED faults
        /\ Continue
        /\ UNCHANGED <<am, fresh>>
  /\ UNCHANGED <<Environment, queued, resources>>

\* setFinalizer: the result of its first update is ignored.
SetFinalizer ==
  /\ Executing("setFinalizer")
  /\ worker' = [worker EXCEPT !.step = @ + 1, !.instance.finalizer = TRUE]
  /\ \/ /\ worker.instance.finalizer
        /\ UNCHANGED <<am, fresh, faults>>
     \/ /\ ~worker.instance.finalizer
        /\ "worker" \in fresh
        /\ am' = [worker.instance EXCEPT !.finalizer = TRUE]
        /\ fresh' = {"worker"}
        /\ UNCHANGED faults
     \/ /\ ~worker.instance.finalizer
        /\ IF "worker" \in fresh THEN Fault ELSE UNCHANGED faults
        /\ UNCHANGED <<am, fresh>>
  /\ UNCHANGED <<Environment, queued, resources>>

\* Mutant: an update without a resourceVersion.
UpdatePhaseUnlocked ==
  /\ Finished
  /\ worker.instance.phase < PhaseReconcileConfig
  /\ am' = [worker.instance EXCEPT !.phase = @ + 1]
  /\ fresh' = {}
  /\ worker' = Idle
  /\ UNCHANGED <<Environment, queued, resources, faults>>

\* Mutant: the steady state advances the phase as well.
UpdatePhaseAlways ==
  /\ Finished
  /\ "worker" \in fresh
  /\ am' = [worker.instance EXCEPT !.phase = @ + 1]
  /\ fresh' = {}
  /\ worker' = Idle
  /\ UNCHANGED <<Environment, queued, resources, faults>>

UpdatePhase ==
  /\ Finished
  /\ worker.instance.phase < PhaseReconcileConfig
  /\ "worker" \in fresh
  /\ am' = [worker.instance EXCEPT !.phase = @ + 1]
  /\ fresh' = {}
  /\ worker' = Idle
  /\ UNCHANGED <<Environment, queued, resources, faults>>

\* Mutant: only the first account is checked.
HealFirstAccount ==
  /\ Executing("heal")
  /\ resources' = IF ServiceAccounts[1] \in Observable \ seen THEN Put(ServiceAccounts[1])
                                                            ELSE resources
  /\ Continue
  /\ UNCHANGED <<Environment, am, fresh, queued, faults>>

\* checkServiceAccountAnnotationsExist creates at most one missing account: the
\* update that follows is of an empty account, and its failure ends the check.
\* Errors are ignored.
HealServiceAccounts ==
  /\ Executing("heal")
  /\ \/ /\ \E i \in DOMAIN ServiceAccounts :
             /\ ServiceAccounts[i] \in Observable \ seen
             /\ \A j \in 1..(i - 1) : ServiceAccounts[j] \notin Observable \ seen
             /\ resources' = Put(ServiceAccounts[i])
        /\ UNCHANGED faults
     \/ /\ \A i \in DOMAIN ServiceAccounts : ServiceAccounts[i] \notin Observable \ seen
        /\ UNCHANGED <<resources, faults>>
     \/ /\ Fault
        /\ UNCHANGED resources
  /\ Continue
  /\ UNCHANGED <<Environment, am, fresh, queued>>

\* Mutant: the metadata is built from scratch, as that of the secret.
UpdateFromScratch(rs) ==
  resources' = [r \in Resources |->
    IF r \in rs THEN [resources[r] EXCEPT !.owner = NoOwner] ELSE resources[r]]

\* A rendered resource replaces the existing one; it names the CR as its owner.
Update(rs) ==
  resources' = [r \in Resources |->
    IF r \in rs THEN [resources[r] EXCEPT !.owner = worker.instance.uid]
                ELSE resources[r]]

\* updateCRs: both updates may fail, and are not attempted without the host of
\* the Alertmanager route.
UpdateCRs ==
  /\ Executing("updateCRs")
  /\ \E rs \in SUBSET {r \in OperandCRs : Exists(r)} :
       /\ rs # {} => AlertManagerRouteName \in seen
       /\ Update(rs)
  /\ Continue
  /\ UNCHANGED <<Environment, am, fresh, queued, faults>>

\* updateOperatorDeployments stops at the first error.
UpdateOperatorDeployments ==
  /\ Executing("updateOperators")
  /\ \E rs \in {{}, {GrafanaOperatorName}, {GrafanaOperatorName, PrometheusOperatorName}} :
       /\ \A r \in rs : Exists(r)
       /\ Update(rs)
  /\ Continue
  /\ UNCHANGED <<Environment, am, fresh, queued, faults>>

\* reconcileConfig ends before or after the secret is written: the exporter's
\* configuration is not available, the targets have not changed, or it is done.
\* It asks to be called again in 30 seconds.
ReconcileConfigEnds ==
  /\ worker # Idle
  /\ ~worker.instance.deleting
  /\ worker.instance.phase = PhaseReconcileConfig
  /\ Finished \/ Executing("saveHash")
  /\ Return(TRUE)
  /\ UNCHANGED <<Environment, am, resources, faults>>

DeleteDataSource ==
  /\ Executing("delete")
  /\ resources' = IF Exists(What) THEN [resources EXCEPT ![What] = Gone(What)]
                                  ELSE resources
  /\ Continue
  /\ UNCHANGED <<Environment, am, fresh, queued, faults>>

\* The end of cleanup, after a pause of 5 seconds.
RemoveFinalizer ==
  /\ Executing("removeFinalizer")
  /\ "worker" \in fresh
  /\ am' = Stored([worker.instance EXCEPT !.finalizer = FALSE])
  /\ fresh' = {}
  /\ worker' = Idle
  /\ UNCHANGED <<Environment, queued, resources, faults>>

WorkerStep ==
  \/ ReconcileNotFound \/ Reconcile
  \/ CallFails \/ Conflict
  \/ CreateResource
  \/ AwaitSucceeds \/ AwaitAgain
  \/ SaveHash \/ UpdateSecret \/ CreateSecret
  \/ SetFinalizer
  \/ UpdatePhase
  \/ HealServiceAccounts \/ UpdateCRs \/ UpdateOperatorDeployments
  \/ ReconcileConfigEnds
  \/ DeleteDataSource \/ RemoveFinalizer

Next ==
  \/ CreateCR \/ EditCR \/ DeleteCR
  \/ \E r \in Deletable : UserDeletes(r)
  \/ \E r \in Resources : Collect(r)
  \/ GrafanaFinalizes
  \/ Deliver
  \/ \E r \in Observable : Observe(r)
  \/ Restart
  \/ WorkerStep

\* Events are delivered, the garbage collector and the worker keep running.
Fairness ==
  /\ WF_vars(Deliver)
  /\ WF_vars(WorkerStep)
  /\ \A r \in Resources : WF_vars(Collect(r))
  /\ \A r \in Observable : WF_vars(Observe(r))

Spec == Init /\ [][Next]_vars /\ Fairness

--------------------------------------------------------------------------------
(* Properties. *)

\* A phase that the CR has left is complete: every resource that it creates exists
\* for as long as the CR does, whatever was retried, repeated on a stale copy or cut
\* short by a restart; only the cleanup takes the data source away again,
\* and users what they delete themselves.
InstalledBeforeAdvance ==
  am # Absent =>
    \A p \in 0..(am.phase - 1) : \A r \in Created(p) \ Deletable :
      Exists(r) \/ (r = GrafanaDataSourceName /\ am.deleting)

\* A stale copy never sets the CR back: it leaves no phase twice, a deletion is not
\* forgotten, and the finalizer is only lifted from a CR that is being deleted.
NoSetback ==
  [][(am # Absent /\ am' # Absent /\ am'.uid = am.uid) =>
       /\ am'.phase >= am.phase
       /\ am.deleting => am'.deleting
       /\ am.finalizer => am'.finalizer]_vars

\* A CR that has been installed is held by the finalizer, although setFinalizer
\* ignores the result of the update that sets it.
HeldWhenInstalled ==
  (am # Absent /\ am.phase >= PhaseDone) => am.finalizer

\* An installed CR disappears only after the deletion of its data source has been
\* requested: no restart or conflict in the middle of the cleanup skips it.
CleanupNotSkipped ==
  [][(am # Absent /\ am.phase >= PhaseDone /\ am' = Absent) =>
       (Exists(GrafanaDataSourceName) => resources[GrafanaDataSourceName].terminating)]_vars

\* A CR is never left alone: as long as it exists a call is running, or its name is
\* queued, or an event that will queue it is on its way, whichever way the last call
\* ended: with an error, a conflict, a wait or a restart.
NeverForgotten ==
  am # Absent => queued \/ worker # Idle \/ "cache" \notin fresh

\* Nothing gets out of the garbage collector's reach: a resource is owned by a CR that
\* exists or has existed, also if it was created, or updated, by a call that was still
\* running on the copy of a former CR.  The data source and the secret of scrape
\* configurations are left out (CleanupFinished, SecretCollected).
NothingEscapesCollection ==
  \A r \in Resources \ {GrafanaDataSourceName, ScrapeConfigSecretName} :
    Exists(r) => resources[r].owner \in 1..created /\ ~resources[r].terminating

\* "Triggers the installation of the monitoring stack when created": every CR that
\* is not deleted reaches the steady state.
InstallCompletes ==
  (am # Absent /\ ~am.deleting) ~>
    (am = Absent \/ am.deleting \/ am.phase = PhaseReconcileConfig)

\* The steady state repairs both service accounts when users delete them.
AccountsHealed ==
  \A i \in DOMAIN ServiceAccounts :
    (am # Absent /\ am.phase = PhaseReconcileConfig) ~>
      (am = Absent \/ am.deleting \/ Exists(ServiceAccounts[i]))

\* Every deletion completes.
DeletionCompletes == (am # Absent /\ am.deleting) ~> am = Absent

\* "Owned objects are automatically garbage collected": once the CR is gone for
\* good, so are the resources that were created for it, even by a call that was
\* still running when the CR went.
OwnedCollected ==
  <>[](am = Absent =>
         \A r \in Resources \ {GrafanaDataSourceName, ScrapeConfigSecretName} :
           ~Exists(r))

\* The same of the secret of scrape configurations.
SecretCollected == <>[](am = Absent => ~Exists(ScrapeConfigSecretName))

\* "Let the child operators finish their cleanup first": the data source is gone
\* before the CR goes.
CleanupFinished ==
  [][(am # Absent /\ am' = Absent) => ~Exists(GrafanaDataSourceName)]_vars

--------------------------------------------------------------------------------
(* The abstract specification.                                                 *)

LifeState ==
  CASE am = Absent                                  -> "none"
    [] am # Absent /\ am.deleting                   -> "deleting"
    [] am # Absent /\ ~am.deleting
                   /\ am.phase = PhaseReconcileConfig -> "steady"
    [] OTHER                                        -> "installing"

DataSourceKept ==
  Exists(GrafanaDataSourceName) /\ ~resources[GrafanaDataSourceName].terminating

Life == INSTANCE Lifecycle
          WITH number <- created, state <- LifeState, dataSource <- DataSourceKept

\* However often phases are repeated, on whatever copies, the CR lives as the abstract
\* specification says: it is installed once, a deletion is not forgotten, and an
\* installed CR goes only after its data source.
ImplementsLifecycle == Life!Spec
================================================================================
