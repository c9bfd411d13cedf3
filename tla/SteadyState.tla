------------------------------ MODULE SteadyState ------------------------------
(***************************************************************************)
(* What the ApplicationMonitoring controller keeps up to date once the     *)
(* stack is installed: the Prometheus and Alertmanager CRs ("operands"),   *)
(* rendered from its own CR and from the hosts of two routes, and the      *)
(* configuration of the blackbox exporter, a ConfigMap rendered from its   *)
(* own CR and from the token of a service account, which the exporter in   *)
(* each Prometheus pod reads only when it starts.  The account is created  *)
(* by the other controller, the token by the cluster.                      *)
(*                                                                         *)
(* A rendered text is represented by what it is rendered from.  An object  *)
(* in "cached" has the resourceVersion that the informer last saw, and one *)
(* in "held" that of the worker's copy (BlackboxTargets: fresh).           *)
(***************************************************************************)
EXTENDS Integers, Sequences, FiniteSets

CONSTANTS
  Specs,        \* values of the ApplicationMonitoring CR's spec
  NoSpec,       \* in a text that was not rendered from a spec
  Pods,         \* the Prometheus pods: one, or three if an affinity is set
  Down,         \* "no such pod at present"
  Disturbances, \* what goes wrong in the environment, see below
  MaxEdits,     \* bound: changes by users, and pods that stop by themselves
  MaxFaults     \* bound: failed calls and restarts of the operator

ASSUME DownAssumption == Down \notin [spec : Specs \cup {NoSpec}, token : Nat]
ASSUME NoSpecAssumption == NoSpec \notin Specs
ASSUME BoundsAssumption == MaxEdits \in Nat /\ MaxFaults \in Nat
ASSUME DisturbancesAssumption ==
  Disturbances \subseteq
    {"callError",    \* a call other than those after the update of the ConfigMap fails
     "reloadError",  \* listing the pods, or deleting one, fails
     "restart",      \* the process restarts while no reload of a pod is due
     "restartEarly", \* the process restarts before a due reload of a pod
     "podsLag"}      \* the cache shows a pod only some time after it has started

Operands == <<"prometheus", "alertmanager">>
ConfigMap == "blackbox-exporter-config"

VARIABLES
  spec,         \* the CR's spec, as the API server stores it
  specCache,    \* the CR's spec, as the operator's informer last saw it
  account,      \* does blackbox-exporter-service-account exist?
  token,        \* number of its token, 0 if there is none
  tokenCache,   \* the token found through the cache
  issued,       \* number of tokens issued so far
  operand,      \* the operands: the spec and whether the host is known
  config,       \* data of the ConfigMap
  configCache,  \* the same, as the operator's informer last saw it
  foreign,      \* the ConfigMap was last written by a user
  loaded,       \* the configuration of the exporter in each pod
  owed,         \* history: the pods that a due reload passed over, or that were left when
                \* it was given up, and that have not stopped since
  listed,       \* the pods that the cache shows
  cached, held,
  worker,       \* the running Reconcile call
  edits, faults

users == <<spec, account, token, issued>>
objects == <<operand, config, foreign, loaded, owed>>
caches == <<specCache, tokenCache, configCache, listed>>
vars == <<users, objects, caches, cached, held, worker, edits, faults>>

Tokens == 0..(MaxEdits + 1)
Content == [spec : Specs \cup {NoSpec}, token : Tokens]
Operand == [spec : Specs \cup {NoSpec}, host : BOOLEAN]
Objects == {Operands[i] : i \in DOMAIN Operands} \cup {ConfigMap}

Idle == [pc |-> "idle"]

Running ==
  [pc : {"hosts", "get", "put", "config", "token", "update", "reload", "sync"},
   spec : Specs,             \* of the CR, as read
   host : BOOLEAN,           \* was the host of the Prometheus route found?
   next : DOMAIN Operands,   \* the operand that is updated next
   copy : Content,           \* of the ConfigMap
   token : Tokens]

\* Types; a token that anything refers to has been issued.
TypeOK ==
  /\ spec \in Specs /\ specCache \in Specs
  /\ account \in BOOLEAN
  /\ issued \in Tokens /\ token \in 0..issued /\ tokenCache \in 0..issued
  /\ operand \in [Objects \ {ConfigMap} -> Operand]
  /\ config \in Content /\ configCache \in Content
  /\ foreign \in BOOLEAN
  /\ loaded \in [Pods -> Content \cup {Down}]
  /\ owed \subseteq Pods
  /\ listed \subseteq Pods
  /\ cached \subseteq Objects /\ held \subseteq Objects
  /\ worker \in Running \cup {Idle}
  /\ edits \in 0..MaxEdits
  /\ faults \in 0..MaxFaults

\* The installation rendered everything, without a token.
Installed == [spec |-> NoSpec, token |-> 0]

Init ==
  /\ spec \in Specs
  /\ specCache = spec
  /\ account = FALSE
  /\ token = 0
  /\ tokenCache = 0
  /\ issued = 0
  /\ operand = [o \in Objects \ {ConfigMap} |-> [spec |-> spec, host |-> TRUE]]
  /\ config = Installed
  /\ configCache = Installed
  /\ foreign = FALSE
  /\ loaded = [p \in Pods |-> Installed]
  /\ owed = {}
  /\ listed = Pods
  /\ cached = Objects
  /\ held = {}
  /\ worker = Idle
  /\ edits = 0
  /\ faults = 0

--------------------------------------------------------------------------------
(* Users, the cluster and the other controller. *)

UserStep ==
  /\ edits < MaxEdits
  /\ edits' = edits + 1
  /\ UNCHANGED <<caches, worker, faults>>

EditSpec ==
  /\ \E s \in Specs \ {spec} : spec' = s
  /\ UNCHANGED <<account, token, issued, objects, cached, held>>
  /\ UserStep

EditOperand(o) ==
  /\ operand[o].spec # NoSpec
  /\ operand' = [operand EXCEPT ![o].spec = NoSpec]
  /\ cached' = cached \ {o}
  /\ held' = held \ {o}
  /\ UNCHANGED <<users, config, foreign, loaded, owed>>
  /\ UserStep

EditConfig ==
  /\ config # Installed
  /\ config' = Installed
  /\ foreign' = TRUE
  /\ cached' = cached \ {ConfigMap}
  /\ held' = held \ {ConfigMap}
  /\ UNCHANGED <<users, operand, loaded, owed>>
  /\ UserStep

\* A user deletes the service account, or its token only, and the token is void.
DeleteToken ==
  /\ token # 0
  /\ token' = 0
  /\ account' \in BOOLEAN
  /\ UNCHANGED <<spec, issued, objects, cached, held>>
  /\ UserStep

CreateAccount ==
  /\ ~account
  /\ account' = TRUE
  /\ UNCHANGED <<spec, token, issued, objects, caches, cached, held, worker, edits, faults>>

\* Mutant: the account is created for a new BlackboxTarget only.
EnsureAccountOnce == issued = 0 /\ CreateAccount

\* The other controller creates the account, if it is missing, each time it
\* reconciles the configuration of any BlackboxTarget.
EnsureAccount == CreateAccount

IssueToken ==
  /\ account
  /\ token = 0
  /\ issued' = issued + 1
  /\ token' = issued'
  /\ UNCHANGED <<spec, account, objects, caches, cached, held, worker, edits, faults>>

\* A pod stops, and is started again with the ConfigMap of the day.
PodStops(p) ==
  /\ loaded[p] # Down
  /\ loaded' = [loaded EXCEPT ![p] = Down]
  /\ owed' = owed \ {p}
  /\ UNCHANGED <<users, operand, config, foreign, cached, held>>
  /\ UserStep

PodStarts(p) ==
  /\ loaded[p] = Down
  /\ loaded' = [loaded EXCEPT ![p] = config]
  /\ listed' = IF "podsLag" \in Disturbances THEN listed ELSE listed \cup {p}
  /\ UNCHANGED <<users, operand, config, foreign, owed, specCache, tokenCache, configCache,
                 cached, held, worker, edits, faults>>

(* The informers and the process. *)

Started  == {p \in Pods : loaded[p] # Down}
Outdated == {p \in Started : loaded[p] # config}

\* Each informer brings its cache up to date.
DeliverSpec ==
  /\ specCache # spec
  /\ specCache' = spec
  /\ UNCHANGED <<users, objects, tokenCache, configCache, listed, cached, held, worker,
                 edits, faults>>

DeliverToken ==
  /\ tokenCache # token
  /\ tokenCache' = token
  /\ UNCHANGED <<users, objects, specCache, configCache, listed, cached, held, worker,
                 edits, faults>>

DeliverObject(o) ==
  /\ o \notin cached
  /\ cached' = cached \cup {o}
  /\ configCache' = IF o = ConfigMap THEN config ELSE configCache
  /\ UNCHANGED <<users, objects, specCache, tokenCache, listed, held, worker, edits,
                 faults>>

DeliverPods ==
  /\ listed # Started
  /\ listed' = Started
  /\ UNCHANGED <<users, objects, specCache, tokenCache, configCache, cached, held, worker,
                 edits, faults>>

Fault(kind) ==
  /\ kind \in Disturbances
  /\ faults < MaxFaults
  /\ faults' = faults + 1

Restart ==
  /\ Fault(IF worker.pc = "reload" THEN "restartEarly" ELSE "restart")
  /\ specCache' = spec
  /\ tokenCache' = token
  /\ configCache' = config
  /\ listed' = Started
  /\ cached' = Objects
  /\ held' = {}
  /\ worker' = Idle
  /\ owed' = IF worker.pc = "reload" THEN owed \cup Outdated ELSE owed
  /\ UNCHANGED <<users, operand, config, foreign, loaded, edits>>

--------------------------------------------------------------------------------
(* Reconcile in PhaseReconcileConfig. *)

At(pc) == worker.pc = pc

GoTo(pc) == worker' = [worker EXCEPT !.pc = pc]

\* Reconcile returns; RequeueAfter, or the rate limiter, calls it again.
Return ==
  /\ worker' = Idle
  /\ held' = {}

Environment == <<users, caches, edits>>

\* Reconcile reads the CR from the cache.
Reconcile ==
  /\ worker = Idle
  /\ worker' = [pc |-> "hosts", spec |-> specCache, host |-> TRUE, next |-> 1,
                copy |-> Installed, token |-> 0]
  /\ UNCHANGED <<Environment, objects, cached, held, faults>>

(* updateCRs *)

\* The error of the first lookup is overwritten by the result of the second.
LookUpHosts ==
  /\ At("hosts")
  /\ \/ worker' = [worker EXCEPT !.pc = "get"] /\ UNCHANGED faults
     \/ worker' = [worker EXCEPT !.pc = "get", !.host = FALSE] /\ Fault("callError")
     \/ worker' = [worker EXCEPT !.pc = "config"] /\ Fault("callError")
  /\ UNCHANGED <<Environment, objects, cached, held>>

Object == Operands[worker.next]

\* The resourceVersion for the update is read from the cache.  On an error
\* updateCRs returns, and what is left of it is not done in this call.
GetOperand ==
  /\ At("get")
  /\ \/ GoTo("put") /\ held' = held \cup (cached \cap {Object}) /\ UNCHANGED faults
     \/ GoTo("config") /\ Fault("callError") /\ UNCHANGED held
  /\ UNCHANGED <<Environment, objects, cached>>

\* Mutant: one operand too many.
LastOperandMissed == worker.next > Len(Operands)

LastOperand == worker.next = Len(Operands)

\* After an operand follows the next one, or the exporter's configuration.
NextOperand ==
  worker' = IF LastOperand THEN [worker EXCEPT !.pc = "config"]
            ELSE [worker EXCEPT !.pc = "get", !.next = @ + 1]

\* What updateCR renders.  Only the Prometheus CR can lack its host.
RenderedOperand ==
  [spec |-> worker.spec, host |-> worker.host \/ Object # "prometheus"]

\* The operand becomes c.
PutOperand(c) ==
  /\ At("put")
  /\ Object \in held
  /\ operand' = [operand EXCEPT ![Object] = c]
  /\ cached' = IF c = operand[Object] THEN cached ELSE cached \ {Object}
  /\ NextOperand
  /\ UNCHANGED <<Environment, config, foreign, loaded, owed, held, faults>>

\* Mutant: an operand that is there is not updated.
UpdateOperandOnce == PutOperand(operand[Object])

UpdateOperand == PutOperand(RenderedOperand)

\* A conflict or a failed call is logged.
UpdateOperandFails ==
  /\ At("put")
  /\ IF Object \in held THEN Fault("callError") ELSE UNCHANGED faults
  /\ NextOperand
  /\ UNCHANGED <<Environment, objects, cached, held>>

(* reconcileBlackboxExporterConfig *)

GetConfigMap ==
  /\ At("config")
  /\ worker' = [worker EXCEPT !.pc = "token", !.copy = configCache]
  /\ held' = held \cup (cached \cap {ConfigMap})
  /\ UNCHANGED <<Environment, objects, cached, faults>>

\* Mutant: only the token is put in.
RenderedToken == [worker.copy EXCEPT !.token = worker.token]

Rendered == [spec |-> worker.spec, token |-> worker.token]

\* The account, its token and the ConfigMap's update can each end the call.
ConfigFails ==
  /\ \/ At("token") /\ tokenCache = 0 /\ UNCHANGED faults
     \/ At("update") /\ ConfigMap \notin held /\ UNCHANGED faults
     \/ worker.pc \in {"config", "token", "update"} /\ Fault("callError")
  /\ Return
  /\ UNCHANGED <<Environment, objects, cached>>

\* Mutant: the texts are never equal, for instance because of a trailing newline.
SameConfigNever == FALSE

SameConfig == worker.copy = [spec |-> worker.spec, token |-> tokenCache]

\* The ConfigMap is compared with what it should be.
CompareConfig ==
  /\ At("token")
  /\ tokenCache # 0
  /\ worker' = [worker EXCEPT !.token = tokenCache,
                              !.pc = IF SameConfig THEN "sync" ELSE "update"]
  /\ UNCHANGED <<Environment, objects, cached, held, faults>>

\* The ConfigMap is written, and pc is next.
WriteConfig(pc) ==
  /\ At("update")
  /\ ConfigMap \in held
  /\ config' = Rendered
  /\ foreign' = FALSE
  /\ cached' = cached \ {ConfigMap}
  /\ held' = held \ {ConfigMap}
  /\ GoTo(pc)
  /\ UNCHANGED <<Environment, operand, loaded, owed, faults>>

\* Mutant: the pod is not deleted.
UpdateConfigOnly == WriteConfig("sync")

UpdateConfig == WriteConfig("reload")

\* The first of the pods that the cache lists is deleted.
ReloadPod ==
  /\ At("reload")
  /\ \/ \E p \in listed :
          /\ loaded[p] # Down
          /\ loaded' = [loaded EXCEPT ![p] = Down]
          /\ owed' = (owed \cup Outdated) \ {p}
     \/ listed = {} /\ owed' = owed \cup Outdated /\ UNCHANGED loaded
  /\ GoTo("sync")
  /\ UNCHANGED <<Environment, operand, config, foreign, cached, held, faults>>

\* A listed pod that is gone is an error as well: it ends the call.
ReloadFails ==
  /\ At("reload")
  /\ \/ (\E p \in listed : loaded[p] = Down) /\ UNCHANGED faults
     \/ Fault("reloadError")
  /\ owed' = owed \cup Outdated
  /\ Return
  /\ UNCHANGED <<Environment, operand, config, foreign, loaded, cached>>

\* syncBlackboxTargets (ScrapeConfigSync), and the end of the call.
Sync ==
  /\ At("sync")
  /\ Return
  /\ UNCHANGED <<Environment, objects, cached, faults>>

Step ==
  \/ Reconcile
  \/ LookUpHosts
  \/ GetOperand \/ UpdateOperand \/ UpdateOperandFails
  \/ GetConfigMap \/ CompareConfig \/ UpdateConfig \/ ConfigFails
  \/ ReloadPod \/ ReloadFails
  \/ Sync

Next ==
  \/ EditSpec \/ EditConfig \/ DeleteToken
  \/ \E o \in Objects \ {ConfigMap} : EditOperand(o)
  \/ \E p \in Pods : PodStops(p) \/ PodStarts(p)
  \/ EnsureAccount \/ IssueToken
  \/ DeliverSpec \/ DeliverToken \/ DeliverPods
  \/ \E o \in Objects : DeliverObject(o)
  \/ Restart
  \/ Step

\* Caches catch up, the cluster issues tokens and restarts pods, the worker runs
\* and is called again, and the informers' periodic resync has the other controller
\* reconcile every BlackboxTarget, of which there is one, again and again.
Fairness ==
  /\ WF_vars(EnsureAccount)
  /\ WF_vars(IssueToken)
  /\ \A p \in Pods : WF_vars(PodStarts(p))
  /\ WF_vars(DeliverSpec) /\ WF_vars(DeliverToken) /\ WF_vars(DeliverPods)
  /\ \A o \in Objects : WF_vars(DeliverObject(o))
  /\ WF_vars(Step)

Spec == Init /\ [][Next]_vars /\ Fairness

--------------------------------------------------------------------------------
(* Properties. *)

\* A pod goes on with a configuration older than the one the controller wrote only for
\* the moment in which the reload is due, or after that reload deleted another pod, found
\* none or was given up; and then only until the pod stops, which the next update or
\* anyone else can bring about.  The comparison that leads to a reload cannot see, later
\* on, that it is still owed.
NoMissedReload == foreign \/ At("reload") \/ Outdated \subseteq owed

UpToDate == config = [spec |-> spec, token |-> token]

\* Whatever users change or delete and whichever calls fail, the ConfigMap ends up with
\* the CR's spec and the valid token, and so does the exporter in every pod whose last
\* reload was not passed over or given up.
ConfigReloaded == <>[](UpToDate /\ \A p \in Pods \ owed : loaded[p] = config)

\* The exporter ends up with the spec and the token in every pod.
ConfigLoaded == <>[](UpToDate /\ \A p \in Pods : loaded[p] = config)

\* The operands are repaired: an edit, or a host that was once not found, does not last.
OperandsRepaired ==
  <>[](\A o \in DOMAIN operand : operand[o] = [spec |-> spec, host |-> TRUE])

\* The controller comes to rest: it does not restart Prometheus, or rewrite what it
\* maintains, for ever.
ComesToRest == <>[][UNCHANGED objects]_vars

\* Everything is as it should be, the caches know it, and so does a call that is running.
AtRest ==
  /\ specCache = spec
  /\ token # 0 /\ tokenCache = token
  /\ \A o \in DOMAIN operand : operand[o] = [spec |-> spec, host |-> TRUE]
  /\ config = [spec |-> spec, token |-> token] /\ configCache = config
  /\ \A p \in Pods : loaded[p] = config
  /\ worker.pc \notin {"update", "reload"}
  /\ worker.pc \in {"hosts", "get", "put", "config", "token"} => worker.spec = spec
  /\ worker.pc \in {"hosts", "get", "put"} => worker.host
  /\ worker.pc = "token" => worker.copy = config

\* The rest is stable: until users change something or a call fails, the controller goes
\* on reading, comparing and updating every 30 seconds and changes nothing; above all it
\* does not restart Prometheus.
RestIsStable ==
  [][(AtRest /\ edits' = edits /\ faults' = faults) => AtRest' /\ UNCHANGED objects]_vars

\* A missing account or token, or anything else that ends the call early, does not keep
\* the scrape configuration from being synchronised for ever.
SyncGoesOn == []<>At("sync")
================================================================================
