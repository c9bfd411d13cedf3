------------------------------ MODULE Install_proofs ------------------------------
(***************************************************************************)
(* Proofs about the life of an ApplicationMonitoring CR, for every set of  *)
(* resources, every installation script and every bound.                   *)
(***************************************************************************)
EXTENDS Install, TLAPS

\* The cleanup ends with the removal of the finalizer.
CleanupStep == (worker # Idle /\ worker.instance.deleting) => worker.step <= 2

\* A fresh copy is the stored CR, except that the worker's may have a finalizer that
\* could not be saved.
FreshCopies ==
  /\ "cache" \in fresh => cache = am
  /\ "worker" \in fresh =>
       /\ worker # Idle
       /\ am # Absent
       /\ worker.instance.uid = am.uid
       /\ worker.instance.phase = am.phase
       /\ worker.instance.deleting = am.deleting
       /\ am.finalizer => worker.instance.finalizer

LockInv == TypeOK /\ CleanupStep /\ FreshCopies

\* The call running the script of a phase has executed its first steps.
Executed(i) ==
  /\ worker # Idle
  /\ ~worker.instance.deleting
  /\ i \in DOMAIN PhaseScript[worker.instance.phase]
  /\ i < worker.step

\* setFinalizer leaves the finalizer in the copy of the CR, saved or not.
FinalizerInMemory ==
  \A i \in Nat :
    (Executed(i) /\ PhaseScript[worker.instance.phase][i].do = "setFinalizer") =>
      worker.instance.finalizer

HeldInv == LockInv /\ FinalizerInMemory /\ HeldWhenInstalled

\* Before the first CR there is nothing.
NothingYet ==
  created = 0 => /\ am = Absent /\ cache = Absent /\ worker = Idle
                 /\ \A r \in Resources : ~Exists(r)

\* No copy is ahead of the CR in knowing that it is being deleted.
DeletionKnown ==
  (am # Absent /\ ~am.deleting) =>
    /\ cache # Absent => ~cache.deleting
    /\ worker # Idle => ~worker.instance.deleting

\* The data source is only going away when the CR is.
DataSourceHeld ==
  (/\ GrafanaDataSourceName \notin Deletable
   /\ Exists(GrafanaDataSourceName)
   /\ resources[GrafanaDataSourceName].terminating) => am = Absent \/ am.deleting

Complete(r) == Exists(r) \/ (r = GrafanaDataSourceName /\ am.deleting)

Makes(task, r) == task \in {[do |-> "create",      what |-> r],
                           [do |-> "writeSecret", what |-> r]}

\* What the executed steps of the running call were to create is there.
StepsDone ==
  am # Absent =>
    \A i \in Nat, r \in Resources \ Deletable :
      (Executed(i) /\ Makes(PhaseScript[worker.instance.phase][i], r)) => Complete(r)

InstalledInv ==
  /\ LockInv /\ NothingYet /\ DeletionKnown /\ DataSourceHeld /\ StepsDone
  /\ InstalledBeforeAdvance
-----------------------------------------------------------------------------
(* Typing. *)

\* The copies of the CR are CRs.
LEMMA Copies ==
  ASSUME TypeOK
  PROVE  /\ am # Absent => am \in AM
         /\ cache # Absent => cache \in AM
         /\ worker # Idle =>
              /\ worker \in Running
              /\ worker.instance \in AM
              /\ worker.instance.phase \in Phases
              /\ worker.instance.uid \in 1..MaxCRs
              /\ worker.step \in Nat \ {0}
  BY DEF TypeOK, Running, AM

\* What is known of the task under execution.
LEMMA TaskFacts ==
  ASSUME TypeOK, NEW do, Executing(do)
  PROVE  /\ worker # Idle
         /\ worker.step \in DOMAIN Script
         /\ do \in {"delete", "removeFinalizer"} => worker.instance.deleting
         /\ do \notin {"delete", "removeFinalizer"} =>
              /\ ~worker.instance.deleting
              /\ worker.step \in DOMAIN PhaseScript[worker.instance.phase]
              /\ Script = PhaseScript[worker.instance.phase]
              /\ PhaseScript[worker.instance.phase][worker.step].do = do
         /\ do \in {"create", "await", "saveHash", "writeSecret"} => What \in Resources
         /\ do = "delete" => worker.step = 1 /\ What = GrafanaDataSourceName
         /\ do = "removeFinalizer" => worker.step = 2
<1>1. worker # Idle /\ worker.step \in DOMAIN Script /\ Script[worker.step].do = do
  BY DEF Executing
<1>2. worker.instance.phase \in Phases /\ worker.instance.deleting \in BOOLEAN
  BY <1>1, Copies DEF AM
<1>3. CASE worker.instance.deleting
  <2>1. Script = CleanupScript
    BY <1>3 DEF Script
  <2>2. worker.step \in {1, 2}
    BY <1>1, <2>1 DEF CleanupScript
  <2>3. /\ worker.step = 1 => do = "delete" /\ What = GrafanaDataSourceName
        /\ worker.step = 2 => do = "removeFinalizer"
    BY <1>1, <2>1 DEF CleanupScript, What
  <2>4. QED BY <1>1, <1>3, <2>2, <2>3
<1>4. CASE ~worker.instance.deleting
  <2>1. Script = PhaseScript[worker.instance.phase]
    BY <1>4 DEF Script
  <2>2. PhaseScript[worker.instance.phase] \in Seq(Task)
    BY <1>2, ScriptAssumption
  <2>3. PhaseScript[worker.instance.phase][worker.step] \in Task
    BY <1>1, <2>1, <2>2
  <2>4. do \notin {"delete", "removeFinalizer"}
    BY <1>1, <2>1, <2>3 DEF Task
  <2>5. do \in {"create", "await", "saveHash", "writeSecret"} => What \in Resources
    BY <1>1, <1>2, <2>1, ScriptAssumption DEF What
  <2>6. QED BY <1>1, <1>4, <2>1, <2>4, <2>5
<1>5. QED BY <1>2, <1>3, <1>4

\* A call that continues is one step further on the same copy.
LEMMA ContinueFacts ==
  ASSUME TypeOK, worker # Idle, Continue
  PROVE  /\ worker' \in Running
         /\ worker' # Idle
         /\ worker'.step = worker.step + 1
         /\ worker'.instance = worker.instance
<1>1. worker \in Running /\ worker.step + 1 \in Nat \ {0}
  BY Copies
<1>2. QED BY <1>1 DEF Continue, Running, Idle

\* What is done to a resource keeps the resources well typed.
LEMMA ResourceTypes ==
  ASSUME TypeOK
  PROVE  /\ \A r \in Resources : Exists(r) =>
              [resources EXCEPT ![r] = Gone(r)] \in [Resources -> Resource \cup {Missing}]
         /\ worker # Idle => \A r \in Resources :
              Put(r) \in [Resources -> Resource \cup {Missing}]
         /\ \A r \in Resources : Exists(r) =>
              [resources EXCEPT ![r].owner = NoOwner]
                \in [Resources -> Resource \cup {Missing}]
         /\ worker # Idle => \A rs : ((\A r \in rs : Exists(r)) /\ Update(rs)) =>
              resources' \in [Resources -> Resource \cup {Missing}]
<1>1. resources \in [Resources -> Resource \cup {Missing}]
  BY DEF TypeOK
<1>2. ASSUME NEW r \in Resources, Exists(r)
      PROVE  /\ resources[r] \in Resource
             /\ Gone(r) \in Resource \cup {Missing}
             /\ [resources EXCEPT ![r].owner = NoOwner]
                  \in [Resources -> Resource \cup {Missing}]
  <2>1. resources[r] \in Resource
    BY <1>1, <1>2 DEF Exists
  <2>2. Gone(r) \in Resource \cup {Missing}
    BY <2>1 DEF Gone, Resource
  <2>3. [resources[r] EXCEPT !.owner = NoOwner] \in Resource
    BY <2>1, BoundsAssumption DEF Resource, NoOwner
  <2>4. QED BY <1>1, <2>1, <2>2, <2>3
<1>3. ASSUME NEW r \in Resources, worker # Idle
      PROVE  Put(r) \in [Resources -> Resource \cup {Missing}]
  <2>1. [owner |-> worker.instance.uid, terminating |-> FALSE] \in Resource
    BY <1>3, Copies, BoundsAssumption DEF Resource
  <2>2. QED BY <1>1, <2>1 DEF Put
<1>4. ASSUME NEW rs, \A r \in rs : Exists(r), Update(rs), worker # Idle
      PROVE  resources' \in [Resources -> Resource \cup {Missing}]
  <2>1. ASSUME NEW r \in Resources, r \in rs
        PROVE  [resources[r] EXCEPT !.owner = worker.instance.uid] \in Resource
    <3>1. resources[r] \in Resource
      BY <1>2, <1>4, <2>1
    <3>2. worker.instance.uid \in 0..MaxCRs
      BY <1>4, Copies, BoundsAssumption
    <3>3. QED BY <3>1, <3>2 DEF Resource
  <2>2. QED BY <1>1, <1>4, <2>1 DEF Update
<1>5. QED BY <1>1, <1>2, <1>3, <1>4

\* The steps of a call that go on to the next task and leave the CR alone.
Onward ==
  \/ CreateResource \/ AwaitSucceeds
  \/ HealServiceAccounts \/ UpdateCRs \/ UpdateOperatorDeployments
  \/ DeleteDataSource
  \/ (UpdateSecret \/ CreateSecret) /\ Continue /\ UNCHANGED <<fresh, queued>>

\* The steps that end the call without a write of the CR.
Stops ==
  \/ CallFails \/ Conflict \/ AwaitAgain \/ ReconcileConfigEnds
  \/ (UpdateSecret \/ CreateSecret) /\ Return(TRUE) /\ UNCHANGED resources

\* Writing the secret lets the call continue or ends it.
LEMMA SecretStep ==
  ASSUME UpdateSecret \/ CreateSecret
  PROVE  Onward \/ Stops
<1>1. CASE UpdateSecret
  BY <1>1 DEF UpdateSecret, Onward, Stops
<1>2. CASE CreateSecret
  <2>1. CASE Exists(What)
    BY <1>2, <2>1 DEF CreateSecret, Put, Stops
  <2>2. CASE ~Exists(What)
    BY <1>2, <2>2 DEF CreateSecret, Onward
  <2>3. QED BY <2>1, <2>2
<1>3. QED BY <1>1, <1>2

\* What the former do to the resources: only the cleanup and an update of what
\* exists change one that is there.
LEMMA OnwardFacts ==
  ASSUME TypeOK, Onward
  PROVE  /\ worker # Idle
         /\ \E do : Executing(do) /\ do \notin {"setFinalizer", "removeFinalizer"}
         /\ Continue
         /\ UNCHANGED <<am, cache, fresh, queued, seen, created, edits>>
         /\ faults' \in 0..MaxFaults
         /\ resources' \in [Resources -> Resource \cup {Missing}]
<1>1. faults \in 0..MaxFaults /\ faults + 1 \in Int
  BY DEF TypeOK
<1>2. CASE CreateResource
  <2>1. What \in Resources /\ worker # Idle
    BY <1>2, TaskFacts DEF CreateResource
  <2>2. QED BY <1>1, <1>2, <2>1, ResourceTypes DEF CreateResource, Environment
<1>3. CASE AwaitSucceeds
  BY <1>1, <1>3, TaskFacts DEF AwaitSucceeds, Environment, TypeOK
<1>4. CASE HealServiceAccounts
  <2>1. worker # Idle
    BY <1>4, TaskFacts DEF HealServiceAccounts
  <2>2. resources' \in [Resources -> Resource \cup {Missing}]
    <3>1. CASE UNCHANGED resources
      BY <3>1 DEF TypeOK
    <3>2. CASE \E i \in DOMAIN ServiceAccounts :
                 /\ ServiceAccounts[i] \in Observable \ seen
                 /\ resources' = Put(ServiceAccounts[i])
      BY <2>1, <3>2, ResourceTypes DEF Observable
    <3>3. QED BY <1>4, <3>1, <3>2 DEF HealServiceAccounts
  <2>3. faults' \in 0..MaxFaults
    <3>1. CASE UNCHANGED faults
      BY <1>1, <3>1
    <3>2. CASE Fault
      BY <1>1, <3>2, BoundsAssumption DEF Fault
    <3>3. QED BY <1>4, <3>1, <3>2 DEF HealServiceAccounts
  <2>4. QED BY <1>4, <2>1, <2>2, <2>3 DEF HealServiceAccounts, Environment
<1>5. CASE UpdateCRs
  <2>1. worker # Idle
    BY <1>5, TaskFacts DEF UpdateCRs
  <2>2. resources' \in [Resources -> Resource \cup {Missing}]
    BY <1>5, <2>1, ResourceTypes DEF UpdateCRs
  <2>3. QED BY <1>1, <1>5, <2>1, <2>2 DEF UpdateCRs, Environment
<1>6. CASE UpdateOperatorDeployments
  <2>1. worker # Idle
    BY <1>6, TaskFacts DEF UpdateOperatorDeployments
  <2>2. resources' \in [Resources -> Resource \cup {Missing}]
    BY <1>6, <2>1, ResourceTypes DEF UpdateOperatorDeployments
  <2>3. QED BY <1>1, <1>6, <2>1, <2>2 DEF UpdateOperatorDeployments, Environment
<1>7. CASE DeleteDataSource
  <2>1. worker # Idle /\ What = GrafanaDataSourceName
    BY <1>7, TaskFacts DEF DeleteDataSource
  <2>2. resources' \in [Resources -> Resource \cup {Missing}]
    BY <1>7, <2>1, ResourceTypes DEF DeleteDataSource, Exists, TypeOK
  <2>3. QED BY <1>1, <1>7, <2>1, <2>2 DEF DeleteDataSource, Environment
<1>8. CASE (UpdateSecret \/ CreateSecret) /\ Continue /\ UNCHANGED <<fresh, queued>>
  <2>1. Executing("writeSecret")
    BY <1>8 DEF UpdateSecret, CreateSecret
  <2>2. What \in Resources /\ worker # Idle
    BY <2>1, TaskFacts
  <2>3. resources' \in [Resources -> Resource \cup {Missing}]
    BY <1>8, <2>2, ResourceTypes DEF UpdateSecret, CreateSecret, TypeOK
  <2>4. UNCHANGED <<am, cache, seen, created, edits, faults>>
    BY <1>8 DEF UpdateSecret, CreateSecret, Environment
  <2>5. "writeSecret" \notin {"setFinalizer", "removeFinalizer"}
    OBVIOUS
  <2>6. QED BY <1>1, <1>8, <2>1, <2>2, <2>3, <2>4, <2>5
<1>9. QED BY <1>2, <1>3, <1>4, <1>5, <1>6, <1>7, <1>8 DEF Onward

\* A call that ends without a write changes neither the CR nor a resource.
LEMMA StopsFacts ==
  ASSUME TypeOK, Stops
  PROVE  /\ worker' = Idle
         /\ fresh' = fresh \ {"worker"}
         /\ queued' \in BOOLEAN
         /\ UNCHANGED <<am, cache, resources, seen, created, edits>>
         /\ faults' \in 0..MaxFaults
<1>1. faults \in 0..MaxFaults /\ queued \in BOOLEAN
  BY DEF TypeOK
<1>2. CASE CallFails
  BY <1>1, <1>2, BoundsAssumption DEF CallFails, Fault, Return, Environment
<1>3. CASE Stops /\ ~CallFails
  BY <1>1, <1>3 DEF Stops, Conflict, AwaitAgain, ReconcileConfigEnds, UpdateSecret,
     CreateSecret, Return, Environment
<1>4. QED BY <1>2, <1>3

\* The steps of a call that may write the CR.
Saves == SaveHash \/ SetFinalizer \/ UpdatePhase \/ RemoveFinalizer

\* The steps of users and of the cluster that touch the resources.
Outside ==
  \/ \E r \in Deletable : UserDeletes(r)
  \/ \E r \in Resources : Collect(r)
  \/ GrafanaFinalizes

\* The cases of a step, the steps of a call grouped by their effect.
LEMMA NextCases ==
  ASSUME [Next]_vars
  PROVE  \/ CreateCR \/ EditCR \/ DeleteCR \/ Outside
         \/ Deliver \/ (\E r \in Observable : Observe(r)) \/ Restart
         \/ ReconcileNotFound \/ Reconcile \/ Onward \/ Stops \/ Saves
         \/ UNCHANGED vars
<1>1. WorkerStep => ReconcileNotFound \/ Reconcile \/ Onward \/ Stops \/ Saves
  BY SecretStep DEF WorkerStep, Onward, Stops, Saves
<1>2. QED BY <1>1 DEF Next, Outside

\* What the environment does to the resources keeps them well typed.
LEMMA OutsideFacts ==
  ASSUME TypeOK, Outside
  PROVE  /\ UNCHANGED <<am, cache, fresh, queued, worker, seen, created, faults>>
         /\ edits' \in 0..MaxEdits
         /\ resources' \in [Resources -> Resource \cup {Missing}]
<1>1. edits \in 0..MaxEdits
  BY DEF TypeOK
<1>2. CASE \E r \in Deletable : UserDeletes(r)
  BY <1>1, <1>2, ResourceTypes, BoundsAssumption, UsersAssumption DEF UserDeletes
<1>3. CASE \E r \in Resources : Collect(r)
  BY <1>1, <1>3, ResourceTypes DEF Collect
<1>4. CASE GrafanaFinalizes
  BY <1>1, <1>4 DEF GrafanaFinalizes, TypeOK
<1>5. QED BY <1>2, <1>3, <1>4 DEF Outside

\* What is written of a CR is a CR, or none.
LEMMA WrittenCR ==
  ASSUME NEW o \in AM
  PROVE  /\ [o EXCEPT !.deleting = TRUE] \in AM
         /\ [o EXCEPT !.finalizer = TRUE] \in AM
         /\ [o EXCEPT !.finalizer = FALSE] \in AM
         /\ \A p \in Phases : [o EXCEPT !.phase = p] \in AM
         /\ Stored(o) \in AM \cup {Absent}
  BY DEF AM, Stored

\* In the beginning there is no CR.
LEMMA InitLockInv == Init => LockInv
<1> SUFFICES ASSUME Init PROVE LockInv
  OBVIOUS
<1>1. 0 \in 0..MaxCRs /\ 0 \in 0..MaxEdits /\ 0 \in 0..MaxFaults
  BY BoundsAssumption
<1>2. TypeOK
  BY <1>1 DEF Init, TypeOK
<1>3. CleanupStep /\ FreshCopies
  BY DEF Init, CleanupStep, FreshCopies
<1>4. QED BY <1>2, <1>3 DEF LockInv

\* Locking and typing are preserved by every step.
LEMMA LockInvNext == LockInv /\ [Next]_vars => LockInv'
<1> SUFFICES ASSUME LockInv, [Next]_vars PROVE LockInv'
  OBVIOUS
<1> USE DEF LockInv
<1>1. CASE CreateCR
  <2>1. created + 1 \in 1..MaxCRs /\ created' \in 0..MaxCRs
    BY <1>1, BoundsAssumption DEF CreateCR, TypeOK
  <2>2. am' \in AM
    BY <1>1, <2>1 DEF CreateCR, AM, Phases, PhaseInstallPrometheusOperator,
       PhaseReconcileConfig
  <2>3. TypeOK'
    BY <1>1, <2>1, <2>2 DEF CreateCR, TypeOK
  <2>4. QED BY <1>1, <2>3 DEF CreateCR, CleanupStep, FreshCopies
<1>2. CASE EditCR
  <2>1. edits' \in 0..MaxEdits
    BY <1>2, BoundsAssumption DEF EditCR, TypeOK
  <2>2. QED BY <1>2, <2>1 DEF EditCR, TypeOK, CleanupStep, FreshCopies
<1>3. CASE DeleteCR
  <2>1. am' \in AM \cup {Absent}
    BY <1>3, Copies, WrittenCR DEF DeleteCR
  <2>2. QED BY <1>3, <2>1 DEF DeleteCR, TypeOK, CleanupStep, FreshCopies
<1>4. CASE Outside
  BY <1>4, OutsideFacts DEF TypeOK, CleanupStep, FreshCopies
<1>5. CASE Deliver
  BY <1>5 DEF Deliver, TypeOK, CleanupStep, FreshCopies
<1>6. CASE \E r \in Observable : Observe(r)
  BY <1>6 DEF Observe, TypeOK, CleanupStep, FreshCopies
<1>7. CASE Restart
  <2>1. faults' \in 0..MaxFaults
    BY <1>7, BoundsAssumption DEF Restart, Fault, TypeOK
  <2>2. QED BY <1>7, <2>1 DEF Restart, TypeOK, CleanupStep, FreshCopies
<1>8. CASE ReconcileNotFound
  BY <1>8 DEF ReconcileNotFound, TypeOK, CleanupStep, FreshCopies
<1>9. CASE Reconcile
  <2>1. /\ cache \in AM
        /\ worker' \in Running
        /\ worker' # Idle
        /\ worker'.step = 1
        /\ worker'.instance = cache
    BY <1>9, Copies DEF Reconcile, Running, Idle
  <2>2. TypeOK'
    BY <1>9, <2>1 DEF Reconcile, TypeOK
  <2>3. FreshCopies'
    BY <1>9, <2>1 DEF Reconcile, FreshCopies
  <2>4. CleanupStep'
    BY <2>1 DEF CleanupStep
  <2>5. QED BY <2>2, <2>3, <2>4
<1>10. CASE Onward
  <2>1. PICK do : Executing(do) /\ do \notin {"setFinalizer", "removeFinalizer"}
    BY <1>10, OnwardFacts
  <2>2. /\ worker' \in Running
        /\ worker' # Idle
        /\ worker'.step = worker.step + 1
        /\ worker'.instance = worker.instance
    BY <1>10, OnwardFacts, ContinueFacts
  <2>3. TypeOK'
    BY <1>10, <2>2, OnwardFacts DEF TypeOK
  <2>4. CleanupStep'
    BY <2>1, <2>2, TaskFacts DEF CleanupStep
  <2>5. FreshCopies'
    BY <1>10, <2>2, OnwardFacts DEF FreshCopies
  <2>6. QED BY <2>3, <2>4, <2>5
<1>11. CASE Stops
  <2>1. TypeOK'
    BY <1>11, StopsFacts DEF TypeOK
  <2>2. CleanupStep' /\ FreshCopies'
    BY <1>11, StopsFacts DEF CleanupStep, FreshCopies
  <2>3. QED BY <2>1, <2>2
<1>12. CASE SaveHash
  <2>1. worker # Idle /\ ~worker.instance.deleting
    BY <1>12, TaskFacts DEF SaveHash
  <2>2. /\ worker \in Running
        /\ worker.instance \in AM
        /\ worker.step + 1 \in Nat \ {0}
    BY <2>1, Copies
  <2>3. /\ worker' \in Running
        /\ worker' # Idle
        /\ worker'.instance = worker.instance
    <3>1. worker' = [[worker EXCEPT !.step = @ + 1] EXCEPT !.update = (What \in seen)]
      BY <1>12, <2>2 DEF SaveHash, Running
    <3> DEFINE known == What \in seen
    <3> HIDE DEF known
    <3>2. /\ known \in BOOLEAN
          /\ worker' = [[worker EXCEPT !.step = @ + 1] EXCEPT !.update = known]
      BY <3>1 DEF known
    <3>3. QED BY <2>2, <3>2 DEF Running, Idle
  <2>4. TypeOK'
    BY <1>12, <2>2, <2>3 DEF SaveHash, Environment, TypeOK
  <2>5. CleanupStep'
    BY <2>1, <2>3 DEF CleanupStep
  <2>6. FreshCopies'
    BY <1>12, <2>2, <2>3, AbsentAssumption DEF SaveHash, Environment, FreshCopies
  <2>7. QED BY <2>4, <2>5, <2>6
<1>13. CASE SetFinalizer
  <2>1. worker # Idle /\ ~worker.instance.deleting
    BY <1>13, TaskFacts DEF SetFinalizer
  <2>2. /\ worker \in Running
        /\ worker.instance \in AM
        /\ worker.step + 1 \in Nat \ {0}
    BY <2>1, Copies
  <2>3. /\ worker' \in Running
        /\ worker' # Idle
        /\ worker'.instance = [worker.instance EXCEPT !.finalizer = TRUE]
    <3>1. worker' = [[worker EXCEPT !.step = @ + 1] EXCEPT
                       !.instance = [worker.instance EXCEPT !.finalizer = TRUE]]
      BY <1>13, <2>2 DEF SetFinalizer, Running
    <3>2. [worker.instance EXCEPT !.finalizer = TRUE] \in AM
      BY <2>2, WrittenCR
    <3>3. QED BY <2>2, <3>1, <3>2 DEF Running, Idle
  <2>4. faults' \in 0..MaxFaults
    BY <1>13, BoundsAssumption DEF SetFinalizer, Fault, TypeOK
  <2>5. TypeOK'
    <3>1. am' \in AM \cup {Absent}
      BY <1>13, <2>2, WrittenCR DEF SetFinalizer, TypeOK
    <3>2. QED BY <1>13, <2>3, <2>4, <3>1 DEF SetFinalizer, Environment, TypeOK
  <2>6. CleanupStep'
    BY <2>1, <2>2, <2>3 DEF CleanupStep, AM
  <2>7. FreshCopies'
    <3>1. /\ worker'.instance.uid = worker.instance.uid
          /\ worker'.instance.phase = worker.instance.phase
          /\ worker'.instance.deleting = worker.instance.deleting
          /\ worker'.instance.finalizer
          /\ worker'.instance # Absent
      <4>1. worker'.instance \in AM
        BY <2>2, <2>3, WrittenCR
      <4>2. worker'.instance # Absent
        BY <4>1, AbsentAssumption
      <4>3. QED BY <2>2, <2>3, <4>2 DEF AM
    <3>2. cache' = cache /\ (UNCHANGED <<am, fresh>> \/
                             (fresh' = {"worker"} /\ am' = worker'.instance))
      BY <1>13, <2>3 DEF SetFinalizer, Environment
    <3>3. QED BY <2>3, <3>1, <3>2 DEF FreshCopies
  <2>8. QED BY <2>5, <2>6, <2>7
<1>14. CASE UpdatePhase
  <2>1. /\ worker.instance \in AM
        /\ worker.instance.phase + 1 \in Phases
    BY <1>14, Copies DEF UpdatePhase, Finished, Phases, PhaseInstallPrometheusOperator,
       PhaseReconcileConfig
  <2>2. am' \in AM
    BY <1>14, <2>1, WrittenCR DEF UpdatePhase
  <2>3. QED BY <1>14, <2>2 DEF UpdatePhase, Environment, TypeOK, CleanupStep, FreshCopies
<1>15. CASE RemoveFinalizer
  <2>1. worker.instance \in AM
    BY <1>15, Copies, TaskFacts DEF RemoveFinalizer
  <2>2. am' \in AM \cup {Absent}
    BY <1>15, <2>1, WrittenCR DEF RemoveFinalizer
  <2>3. QED BY <1>15, <2>2
        DEF RemoveFinalizer, Environment, TypeOK, CleanupStep, FreshCopies
<1>16. CASE UNCHANGED vars
  BY <1>16 DEF vars, TypeOK, CleanupStep, FreshCopies
<1>17. QED
  BY <1>1, <1>2, <1>3, <1>4, <1>5, <1>6, <1>7, <1>8, <1>9, <1>10, <1>11, <1>12, <1>13,
     <1>14, <1>15, <1>16, NextCases DEF Saves

\* Every reachable state is well typed, and a copy with the current resourceVersion
\* is the stored CR.
THEOREM InstallLockingCorrect == Spec => []LockInv
  BY InitLockInv, LockInvNext, PTL DEF Spec

\* Every reachable state is well typed.
THEOREM InstallTypeCorrect == Spec => []TypeOK
<1>1. LockInv => TypeOK
  BY DEF LockInv
<1>2. QED BY <1>1, InstallLockingCorrect, PTL
-----------------------------------------------------------------------------
(* The CR is never set back. *)

\* What one step can do to the CR.
LEMMA CRSteps ==
  ASSUME LockInv, [Next]_vars, am # Absent, am' # Absent
  PROVE  /\ am'.uid = am.uid
         /\ am'.phase = am.phase \/ (UpdatePhase /\ am'.phase = am.phase + 1)
         /\ am.deleting => am'.deleting
         /\ am.finalizer => am'.finalizer
<1> USE DEF LockInv
<1>1. am \in AM
  BY Copies
<1>2. CASE UNCHANGED am
  BY <1>2
<1>3. CASE DeleteCR
  BY <1>1, <1>3 DEF DeleteCR, Stored, AM
<1>4. CASE SaveHash
  BY <1>4 DEF SaveHash, FreshCopies
<1>5. CASE SetFinalizer
  <2>1. worker.instance \in AM
    BY <1>5, TaskFacts, Copies DEF SetFinalizer
  <2>2. QED BY <1>5, <2>1 DEF SetFinalizer, FreshCopies, AM
<1>6. CASE UpdatePhase
  <2>1. worker.instance \in AM
    BY <1>6, Copies DEF UpdatePhase, Finished
  <2>2. QED BY <1>6, <2>1 DEF UpdatePhase, FreshCopies, AM
<1>7. CASE RemoveFinalizer
  <2>1. worker.instance.deleting /\ worker.instance \in AM
    BY <1>7, TaskFacts, Copies DEF RemoveFinalizer
  <2>2. am' = Absent
    BY <1>7, <2>1 DEF RemoveFinalizer, Stored, AM
  <2>3. QED BY <2>2
<1>8. CASE CreateCR
  BY <1>8 DEF CreateCR
<1>9. CASE ~Saves /\ ~DeleteCR /\ ~CreateCR
  <2>1. UNCHANGED am
    BY <1>9, NextCases, OutsideFacts, OnwardFacts, StopsFacts
    DEF EditCR, Deliver, Observe, Restart, ReconcileNotFound, Reconcile, vars
  <2>2. QED BY <2>1
<1>10. QED BY <1>3, <1>4, <1>5, <1>6, <1>7, <1>8, <1>9 DEF Saves

\* However stale the copies are that the controller works from, the phase of a CR
\* never goes back, a deletion is not undone and no finalizer is lost.
THEOREM NothingIsSetBack == Spec => NoSetback
<1> DEFINE Kept == (am # Absent /\ am' # Absent /\ am'.uid = am.uid) =>
                      /\ am'.phase >= am.phase
                      /\ am.deleting => am'.deleting
                      /\ am.finalizer => am'.finalizer
<1>1. LockInv /\ [Next]_vars => [Kept]_vars
  <2> SUFFICES ASSUME LockInv, [Next]_vars, am # Absent, am' # Absent
      PROVE  /\ am'.phase >= am.phase
             /\ am.deleting => am'.deleting
             /\ am.finalizer => am'.finalizer
    OBVIOUS
  <2>1. am.phase \in Int
    BY Copies DEF LockInv, AM, Phases, PhaseInstallPrometheusOperator, PhaseReconcileConfig
  <2>2. QED BY <2>1, CRSteps
<1>2. QED BY <1>1, InstallLockingCorrect, PTL DEF Spec, NoSetback
-----------------------------------------------------------------------------
(* An installed CR is held. *)

\* A running call keeps its phase and goes on by at most one step.
LEMMA CallSteps ==
  ASSUME LockInv, [Next]_vars, worker' # Idle, NEW i \in Nat, Executed(i)'
  PROVE  \/ /\ Executed(i)
            /\ worker'.instance.phase = worker.instance.phase
            /\ worker.instance.finalizer => worker'.instance.finalizer
         \/ /\ i = worker.step
            /\ worker # Idle
            /\ ~worker.instance.deleting
            /\ worker'.instance.phase = worker.instance.phase
            /\ Onward \/ SaveHash \/ SetFinalizer
<1> USE DEF LockInv
<1>1. CASE UNCHANGED worker
  BY <1>1 DEF Executed
<1>2. CASE Reconcile
  <2>1. cache \in AM /\ worker'.step = 1 /\ worker'.instance = cache
    BY <1>2, Copies DEF Reconcile
  <2>2. PhaseScript[cache.phase] \in Seq(Task)
    BY <2>1, ScriptAssumption DEF AM
  <2>3. i \in 1..Len(PhaseScript[cache.phase]) /\ i < 1
    BY <2>1, <2>2 DEF Executed
  <2>4. QED BY <2>3
<1>3. CASE Onward
  <2>1. /\ worker # Idle
        /\ worker'.step = worker.step + 1
        /\ worker'.instance = worker.instance
        /\ worker.step \in Nat
    BY <1>3, OnwardFacts, ContinueFacts, Copies
  <2>2. QED BY <1>3, <2>1 DEF Executed
<1>4. CASE SaveHash \/ SetFinalizer
  <2>1. worker # Idle
    BY <1>4, TaskFacts DEF SaveHash, SetFinalizer
  <2>2. /\ worker \in Running
        /\ worker.instance \in AM
        /\ worker.step \in Nat
    BY <2>1, Copies
  <2>3. worker'.step = worker.step + 1
    BY <1>4, <2>2 DEF SaveHash, SetFinalizer, Running
  <2>4. \/ worker'.instance = worker.instance
        \/ worker'.instance = [worker.instance EXCEPT !.finalizer = TRUE]
    BY <1>4, <2>2 DEF SaveHash, SetFinalizer, Running
  <2>5. /\ worker'.instance.phase = worker.instance.phase
        /\ worker'.instance.deleting = worker.instance.deleting
        /\ worker.instance.finalizer => worker'.instance.finalizer
    BY <2>2, <2>4 DEF AM
  <2>6. QED BY <1>4, <2>1, <2>2, <2>3, <2>5 DEF Executed
<1>5. worker' = Idle \/ UNCHANGED worker \/ Reconcile \/ Onward \/ SaveHash \/ SetFinalizer
  BY NextCases, OutsideFacts, StopsFacts
  DEF Saves, UpdatePhase, RemoveFinalizer, CreateCR, EditCR, DeleteCR, Deliver, Observe,
      Restart, ReconcileNotFound, vars
<1>6. QED BY <1>1, <1>2, <1>3, <1>4, <1>5

\* The finalizer in memory reaches the stored CR with the update of the phase.
LEMMA HeldInvNext == HeldInv /\ [Next]_vars => HeldInv'
<1> SUFFICES ASSUME HeldInv, [Next]_vars PROVE HeldInv'
  OBVIOUS
<1> USE DEF HeldInv
<1>1. LockInv'
  BY LockInvNext
<1>2. FinalizerInMemory'
  <2> SUFFICES ASSUME NEW i \in Nat, Executed(i)',
                      PhaseScript[worker'.instance.phase][i].do = "setFinalizer"
      PROVE  worker'.instance.finalizer
    BY DEF FinalizerInMemory
  <2>1. worker' # Idle
    BY DEF Executed
  <2>2. CASE /\ Executed(i)
             /\ worker'.instance.phase = worker.instance.phase
             /\ worker.instance.finalizer => worker'.instance.finalizer
    BY <2>2 DEF FinalizerInMemory
  <2>3. CASE SetFinalizer
    <3>1. worker \in Running /\ worker.instance \in AM
      BY <2>3, TaskFacts, Copies DEF SetFinalizer, LockInv
    <3>2. QED BY <2>3, <3>1 DEF SetFinalizer, Running, AM
  <2>4. CASE /\ i = worker.step
             /\ worker'.instance.phase = worker.instance.phase
             /\ Onward \/ SaveHash
    <3>1. PICK do : Executing(do) /\ do # "setFinalizer" /\ do # "removeFinalizer"
      BY <2>4, OnwardFacts DEF SaveHash, LockInv
    <3>2. CASE do = "delete"
      <4>1. worker.instance.deleting
        BY <3>1, <3>2, TaskFacts DEF LockInv
      <4>2. Onward
        BY <2>4, <3>1, <4>1, TaskFacts DEF SaveHash, LockInv
      <4>3. worker'.instance = worker.instance
        BY <4>2, OnwardFacts, ContinueFacts DEF LockInv
      <4>4. QED BY <4>1, <4>3 DEF Executed
    <3>3. CASE do # "delete"
      BY <2>4, <3>1, <3>3, TaskFacts DEF LockInv
    <3>4. QED BY <3>2, <3>3
  <2>5. QED BY <2>1, <2>2, <2>3, <2>4, CallSteps
<1>3. HeldWhenInstalled'
  <2> SUFFICES ASSUME am' # Absent, am'.phase >= PhaseDone PROVE am'.finalizer
    BY DEF HeldWhenInstalled
  <2>1. CASE am = Absent
    <3>1. am' = Absent \/ am'.phase = PhaseInstallPrometheusOperator
      <4>1. CASE CreateCR
        BY <4>1 DEF CreateCR
      <4>2. CASE ~CreateCR
        <5>1. ~Saves \/ UNCHANGED am
          BY <2>1 DEF Saves, SaveHash, SetFinalizer, UpdatePhase, RemoveFinalizer, LockInv,
             FreshCopies
        <5>2. UNCHANGED am
          BY <2>1, <4>2, <5>1, NextCases, OutsideFacts, OnwardFacts, StopsFacts
          DEF EditCR, DeleteCR, Deliver, Observe, Restart, ReconcileNotFound, Reconcile,
              vars, LockInv
        <5>3. QED BY <2>1, <5>2
      <4>3. QED BY <4>1, <4>2
    <3>2. QED BY <3>1 DEF PhaseInstallPrometheusOperator, PhaseDone
  <2>2. CASE am # Absent /\ am'.phase = am.phase
    BY <2>2, CRSteps DEF HeldWhenInstalled
  <2>3. CASE am # Absent /\ UpdatePhase /\ am'.phase = am.phase + 1
    <3>1. /\ worker # Idle
          /\ worker.instance \in AM
          /\ worker.instance.phase = am.phase
          /\ am.finalizer => worker.instance.finalizer
          /\ worker.step = Len(Script) + 1
          /\ am.phase \in Int
      BY <2>3, Copies DEF UpdatePhase, Finished, LockInv, FreshCopies, AM, Phases,
         PhaseInstallPrometheusOperator, PhaseReconcileConfig
    <3>2. am'.finalizer = worker.instance.finalizer
      BY <2>3, <3>1 DEF UpdatePhase, AM
    <3>3. CASE am.phase >= PhaseDone
      BY <2>3, <3>1, <3>2, <3>3 DEF HeldWhenInstalled
    <3>4. CASE am.phase = PhaseFinalizer
      <4>1. ~worker.instance.deleting
        BY <3>1 DEF LockInv, CleanupStep, Script, CleanupScript
      <4>2. Script = PhaseScript[PhaseFinalizer] /\ PhaseScript[PhaseFinalizer] \in Seq(Task)
        BY <3>1, <3>4, <4>1, ScriptAssumption DEF Script, AM
      <4>3. PICK i \in DOMAIN PhaseScript[PhaseFinalizer] :
               PhaseScript[PhaseFinalizer][i].do = "setFinalizer"
        BY ScriptAssumption
      <4>4. i \in Nat /\ Executed(i)
        BY <3>1, <3>4, <4>1, <4>2, <4>3 DEF Executed
      <4>5. QED BY <3>1, <3>2, <3>4, <4>3, <4>4 DEF FinalizerInMemory
    <3>5. QED BY <2>3, <3>1, <3>3, <3>4 DEF PhaseFinalizer, PhaseDone
  <2>4. QED BY <2>1, <2>2, <2>3, CRSteps
<1>4. QED BY <1>1, <1>2, <1>3

\* An installed CR always carries the operator's finalizer.
THEOREM InstalledIsHeld == Spec => []HeldWhenInstalled
<1>1. Init => HeldInv
  BY InitLockInv DEF Init, HeldInv, FinalizerInMemory, HeldWhenInstalled, Executed
<1>2. HeldInv => HeldWhenInstalled
  BY DEF HeldInv
<1>3. QED BY <1>1, <1>2, HeldInvNext, PTL DEF Spec
-----------------------------------------------------------------------------
(* A phase that has been left is complete. *)

\* A created resource exists.
LEMMA NewResource ==
  ASSUME TypeOK, worker # Idle
  PROVE  [owner |-> worker.instance.uid, terminating |-> FALSE] # Missing
<1>1. worker.instance.uid \in 0..MaxCRs
  BY Copies, BoundsAssumption
<1>2. [owner |-> worker.instance.uid, terminating |-> FALSE] \in Resource
  BY <1>1 DEF Resource
<1>3. QED BY <1>2, MissingAssumption

\* A running call removes no resource, and only the cleanup makes the data source
\* go away.
LEMMA OnwardKeeps ==
  ASSUME TypeOK, Onward
  PROVE  /\ \A r : Exists(r) => Exists(r)'
         /\ (/\ Exists(GrafanaDataSourceName)'
             /\ resources'[GrafanaDataSourceName].terminating
             /\ ~DeleteDataSource) =>
               /\ Exists(GrafanaDataSourceName)
               /\ resources[GrafanaDataSourceName].terminating
<1> DEFINE DS == GrafanaDataSourceName
<1>1. resources \in [Resources -> Resource \cup {Missing}]
  BY DEF TypeOK
<1>2. ASSUME NEW q \in Resources, resources' = Put(q), worker # Idle
      PROVE  /\ \A r : Exists(r) => Exists(r)'
             /\ (Exists(DS)' /\ resources'[DS].terminating) =>
                  Exists(DS) /\ resources[DS].terminating
  <2>1. [owner |-> worker.instance.uid, terminating |-> FALSE] # Missing
    BY <1>2, NewResource
  <2>2. QED BY <1>1, <1>2, <2>1 DEF Put, Exists
<1>3. ASSUME NEW rs, Update(rs), \A r \in rs : Exists(r), worker # Idle
      PROVE  /\ \A r : Exists(r) => Exists(r)'
             /\ (Exists(DS)' /\ resources'[DS].terminating) =>
                  Exists(DS) /\ resources[DS].terminating
  <2>1. ASSUME NEW r \in Resources, r \in rs
        PROVE  /\ resources'[r] # Missing
               /\ resources'[r].terminating = resources[r].terminating
    <3>1. resources[r] \in Resource
      BY <1>1, <1>3, <2>1 DEF Exists
    <3>2. worker.instance.uid \in 0..MaxCRs
      BY <1>3, Copies, BoundsAssumption
    <3>3. resources'[r] = [resources[r] EXCEPT !.owner = worker.instance.uid]
      BY <1>3, <2>1 DEF Update
    <3>4. QED BY <3>1, <3>2, <3>3, MissingAssumption DEF Resource
  <2>2. ASSUME NEW r \in Resources, r \notin rs
        PROVE  resources'[r] = resources[r]
    BY <1>3, <2>2 DEF Update
  <2>3. QED BY <1>3, <2>1, <2>2 DEF Exists
<1>4. CASE CreateResource
  BY <1>2, <1>4, TaskFacts DEF CreateResource
<1>5. CASE AwaitSucceeds
  BY <1>5 DEF AwaitSucceeds, Exists
<1>6. CASE HealServiceAccounts
  <2>1. worker # Idle
    BY <1>6, TaskFacts DEF HealServiceAccounts
  <2>2. CASE UNCHANGED resources
    BY <2>2 DEF Exists
  <2>3. CASE \E i \in DOMAIN ServiceAccounts :
               /\ ServiceAccounts[i] \in Observable \ seen
               /\ resources' = Put(ServiceAccounts[i])
    BY <1>2, <2>1, <2>3 DEF Observable
  <2>4. QED BY <1>6, <2>2, <2>3 DEF HealServiceAccounts
<1>7. CASE UpdateCRs
  BY <1>3, <1>7, TaskFacts DEF UpdateCRs
<1>8. CASE UpdateOperatorDeployments
  BY <1>3, <1>8, TaskFacts DEF UpdateOperatorDeployments
<1>9. CASE DeleteDataSource
  <2>1. What = DS
    BY <1>9, TaskFacts DEF DeleteDataSource
  <2>2. CASE Exists(DS)
    <3>1. resources[DS] \in Resource
      BY <1>1, <2>2 DEF Exists
    <3>2. Gone(DS) \in Resource
      BY <3>1 DEF Gone, Resource
    <3>3. resources' = [resources EXCEPT ![DS] = Gone(DS)]
      BY <1>9, <2>1, <2>2 DEF DeleteDataSource
    <3>4. QED BY <1>1, <1>9, <3>2, <3>3, MissingAssumption DEF Exists
  <2>3. CASE ~Exists(DS)
    BY <1>9, <2>1, <2>3 DEF DeleteDataSource, Exists
  <2>4. QED BY <2>2, <2>3
<1>10. CASE (UpdateSecret \/ CreateSecret) /\ Continue /\ UNCHANGED <<fresh, queued>>
  <2>1. worker # Idle /\ What \in Resources
    BY <1>10, TaskFacts DEF UpdateSecret, CreateSecret
  <2>2. CASE CreateSecret
    BY <1>2, <2>1, <2>2 DEF CreateSecret
  <2>3. CASE UpdateSecret /\ ~Exists(What)
    BY <2>3 DEF UpdateSecret, Exists
  <2>4. CASE UpdateSecret /\ Exists(What)
    <3>1. resources[What] \in Resource
      BY <1>1, <2>1, <2>4 DEF Exists
    <3>2. [resources[What] EXCEPT !.owner = NoOwner] \in Resource
      BY <3>1, BoundsAssumption DEF Resource, NoOwner
    <3>3. resources' = [resources EXCEPT ![What] =
                          [resources[What] EXCEPT !.owner = NoOwner]]
      BY <2>4 DEF UpdateSecret
    <3>4. QED BY <1>1, <2>1, <3>1, <3>2, <3>3, MissingAssumption DEF Exists, Resource
  <2>5. QED BY <1>10, <2>2, <2>3, <2>4
<1>11. QED BY <1>4, <1>5, <1>6, <1>7, <1>8, <1>9, <1>10 DEF Onward

\* A call that goes on from a creation has created.
LEMMA OnwardMakes ==
  ASSUME TypeOK, Onward, NEW r \in Resources, ~worker.instance.deleting,
         Makes(PhaseScript[worker.instance.phase][worker.step], r)
  PROVE  Exists(r)'
<1>1. PICK do : Executing(do)
  BY OnwardFacts
<1>2. worker # Idle
  BY OnwardFacts
<1>3. ASSUME NEW d, Executing(d)
      PROVE  d \in {"create", "writeSecret"} /\ What = r
  BY <1>3 DEF Executing, Script, Makes, What
<1>4. resources' = Put(r) => Exists(r)'
  <2>1. [owner |-> worker.instance.uid, terminating |-> FALSE] # Missing
    BY <1>2, NewResource
  <2>2. QED BY <2>1 DEF Put, Exists, TypeOK
<1>5. CASE CreateResource
  BY <1>3, <1>4, <1>5 DEF CreateResource
<1>6. CASE UpdateSecret /\ Continue
  <2>1. What = r
    BY <1>3, <1>6 DEF UpdateSecret
  <2>2. CASE Exists(What)
    BY <1>6, <2>1, <2>2, OnwardKeeps
  <2>3. CASE ~Exists(What)
    BY <1>2, <1>6, <2>3, ContinueFacts DEF UpdateSecret, Return
  <2>4. QED BY <2>2, <2>3
<1>7. CASE CreateSecret
  BY <1>3, <1>4, <1>7 DEF CreateSecret
<1>8. QED
  BY <1>3, <1>5, <1>6, <1>7
  DEF Onward, AwaitSucceeds, HealServiceAccounts, UpdateCRs, UpdateOperatorDeployments,
      DeleteDataSource

\* While the only CR there ever is exists, nothing is collected.
LEMMA CompleteKept ==
  ASSUME MaxCRs = 1, InstalledInv, [Next]_vars, am # Absent, am' # Absent,
         NEW r \in Resources \ Deletable, Complete(r)
  PROVE  Complete(r)'
<1> USE DEF InstalledInv, LockInv
<1>1. am.deleting => am'.deleting
  BY CRSteps
<1>2. SUFFICES ASSUME Exists(r) PROVE Complete(r)'
  BY <1>1 DEF Complete
<1>3. CASE UNCHANGED resources
  BY <1>2, <1>3 DEF Complete, Exists
<1>4. CASE Onward
  BY <1>2, <1>4, OnwardKeeps DEF Complete
<1>5. CASE \E q \in Deletable : UserDeletes(q)
  BY <1>2, <1>5 DEF UserDeletes, Complete, Exists, TypeOK
<1>6. CASE \E q \in Resources : Collect(q)
  <2>1. PICK q \in Resources : Collect(q)
    BY <1>6
  <2>2. resources[q].owner \in 0..MaxCRs /\ am.uid \in 1..MaxCRs
    BY <2>1, Copies DEF Collect, Exists, TypeOK, Resource, AM
  <2>3. QED BY <2>1, <2>2 DEF Collect, NoOwner
<1>7. CASE GrafanaFinalizes
  <2>1. CASE r = GrafanaDataSourceName
    <3>1. am.deleting
      BY <1>7, <2>1 DEF GrafanaFinalizes, DataSourceHeld
    <3>2. QED BY <1>1, <2>1, <3>1 DEF Complete
  <2>2. CASE r # GrafanaDataSourceName
    BY <1>2, <1>7, <2>2 DEF GrafanaFinalizes, Complete, Exists, TypeOK
  <2>3. QED BY <2>1, <2>2
<1>8. QED
  BY <1>3, <1>4, <1>5, <1>6, <1>7, NextCases, StopsFacts
  DEF Outside, Saves, CreateCR, EditCR, DeleteCR, Deliver, Observe, Restart,
      ReconcileNotFound, Reconcile, SaveHash, SetFinalizer, UpdatePhase, RemoveFinalizer,
      Environment, vars

\* With one CR, every step keeps the phases that have been left complete.
LEMMA InstalledInvNext ==
  ASSUME MaxCRs = 1, InstalledInv, [Next]_vars
  PROVE  InstalledInv'
<1> USE DEF InstalledInv
<1>1. LockInv'
  BY LockInvNext
<1>2. TypeOK
  BY DEF LockInv
<1>3. /\ created' \in Nat
      /\ created' = 0 => /\ created = 0
                         /\ UNCHANGED <<am, cache, worker, resources>>
  <2> created \in Nat
    BY <1>2, BoundsAssumption DEF TypeOK
  <2>0. UNCHANGED created \/ CreateCR
    BY <1>2, NextCases, OutsideFacts, OnwardFacts, StopsFacts
    DEF EditCR, DeleteCR, Deliver, Observe, Restart, ReconcileNotFound, Reconcile, Saves,
        SaveHash, SetFinalizer, UpdatePhase, RemoveFinalizer, Environment, vars
  <2>1. CASE created # 0
    BY <2>0, <2>1 DEF CreateCR
  <2>2. CASE created = 0
    <3>1. /\ am = Absent /\ cache = Absent /\ worker = Idle
          /\ \A r \in Resources : ~Exists(r)
      BY <2>2 DEF NothingYet
    <3>2. ~Outside
      BY <3>1, UsersAssumption DEF Outside, UserDeletes, Collect, GrafanaFinalizes, Exists
    <3>3. ~Onward /\ ~Saves
      BY <1>2, <3>1, OnwardFacts, TaskFacts DEF Saves, SaveHash, SetFinalizer, UpdatePhase,
         Finished, RemoveFinalizer
    <3>4. ~CreateCR => UNCHANGED <<am, cache, worker, resources>>
      BY <1>2, <3>1, <3>2, <3>3, NextCases, StopsFacts
      DEF LockInv, FreshCopies, EditCR, DeleteCR, Deliver, Observe, Restart,
          ReconcileNotFound, Reconcile, vars
    <3>5. QED BY <2>0, <2>2, <3>4 DEF CreateCR
  <2>3. QED BY <2>1, <2>2
<1>4. NothingYet'
  BY <1>3 DEF NothingYet, Exists
\* The CR is created once.
<1>5. (am = Absent /\ am' # Absent) =>
        /\ created = 0
        /\ am'.phase = PhaseInstallPrometheusOperator
        /\ UNCHANGED <<cache, worker, resources>>
  <2>1. CreateCR => created = 0
    BY <1>2 DEF CreateCR, TypeOK
  <2>2. (am = Absent /\ am' # Absent) => CreateCR
    BY <1>2, NextCases, OutsideFacts, OnwardFacts, StopsFacts
    DEF LockInv, FreshCopies, EditCR, DeleteCR, Deliver, Observe, Restart,
        ReconcileNotFound, Reconcile, Saves, SaveHash, SetFinalizer, UpdatePhase,
        RemoveFinalizer, vars
  <2>3. QED BY <2>1, <2>2 DEF CreateCR
<1>6. DeletionKnown'
  <2> SUFFICES ASSUME am' # Absent, ~am'.deleting
      PROVE  /\ cache' # Absent => ~cache'.deleting
             /\ worker' # Idle => ~worker'.instance.deleting
    BY DEF DeletionKnown
  <2>1. CASE am = Absent
    BY <1>5, <2>1 DEF NothingYet
  <2>2. CASE am # Absent
    <3>1. ~am.deleting
      BY <2>2, CRSteps
    <3>2. /\ cache # Absent => ~cache.deleting
          /\ worker # Idle => ~worker.instance.deleting
      BY <2>2, <3>1 DEF DeletionKnown
    <3>3. cache' = cache \/ cache' = am
      BY <1>2, NextCases, OutsideFacts, OnwardFacts, StopsFacts
      DEF CreateCR, EditCR, DeleteCR, Deliver, Observe, Restart, ReconcileNotFound,
          Reconcile, Saves, SaveHash, SetFinalizer, UpdatePhase, RemoveFinalizer,
          Environment, vars
    <3>4. worker' # Idle => ~worker'.instance.deleting
      <4>1. CASE Onward
        BY <1>2, <3>2, <4>1, OnwardFacts, ContinueFacts
      <4>2. CASE SaveHash \/ SetFinalizer
        <5>1. worker # Idle
          BY <1>2, <4>2, TaskFacts DEF SaveHash, SetFinalizer
        <5>2. worker \in Running /\ worker.instance \in AM
          BY <1>2, <5>1, Copies
        <5>3. \/ worker'.instance = worker.instance
              \/ worker'.instance = [worker.instance EXCEPT !.finalizer = TRUE]
          BY <4>2, <5>2 DEF SaveHash, SetFinalizer, Running
        <5>4. QED BY <3>2, <5>1, <5>2, <5>3 DEF AM
      <4>3. CASE Reconcile
        BY <3>2, <4>3 DEF Reconcile
      <4>4. CASE worker' = Idle \/ UNCHANGED worker
        BY <3>2, <4>4
      <4>5. QED BY <1>2, <4>1, <4>2, <4>3, <4>4, NextCases, OutsideFacts, StopsFacts
        DEF CreateCR, EditCR, DeleteCR, Deliver, Observe, Restart, ReconcileNotFound,
            Saves, UpdatePhase, RemoveFinalizer, vars
    <3>5. QED BY <2>2, <3>1, <3>2, <3>3, <3>4
  <2>3. QED BY <2>1, <2>2
<1>7. DataSourceHeld'
  <2> DEFINE DS == GrafanaDataSourceName
  <2> SUFFICES ASSUME DS \notin Deletable, Exists(DS)', resources'[DS].terminating,
                      am' # Absent
      PROVE  am'.deleting
    BY DEF DataSourceHeld
  <2>1. CASE am = Absent
    BY <1>5, <2>1 DEF NothingYet, Exists
  <2>2. CASE am # Absent /\ Exists(DS) /\ resources[DS].terminating
    BY <2>2, CRSteps DEF DataSourceHeld
  <2>3. CASE am # Absent /\ DeleteDataSource
    <3>1. worker # Idle /\ worker.instance.deleting
      BY <1>2, <2>3, TaskFacts DEF DeleteDataSource
    <3>2. QED BY <2>3, <3>1, CRSteps DEF DeletionKnown
  <2>4. CASE am # Absent /\ ~DeleteDataSource /\ ~(Exists(DS) /\ resources[DS].terminating)
    <3>1. ~UNCHANGED resources
      BY <2>4 DEF Exists
    <3>2. ~Onward
      BY <1>2, <2>4, OnwardKeeps
    <3>3. CASE \E q \in Deletable : UserDeletes(q)
      BY <1>2, <2>4, <3>3 DEF UserDeletes, Exists, TypeOK
    <3>4. CASE \E q \in Resources : Collect(q)
      <4>1. PICK q \in Resources : Collect(q)
        BY <3>4
      <4>2. resources[q].owner \in 0..MaxCRs /\ am.uid \in 1..MaxCRs
        BY <1>2, <2>4, <4>1, Copies DEF Collect, Exists, TypeOK, Resource, AM
      <4>3. QED BY <2>4, <4>1, <4>2 DEF Collect, NoOwner
    <3>5. CASE GrafanaFinalizes
      BY <1>2, <3>5 DEF GrafanaFinalizes, Exists, TypeOK
    <3>6. QED
      BY <3>1, <3>2, <3>3, <3>4, <3>5, NextCases, StopsFacts, <1>2
      DEF Outside, Saves, CreateCR, EditCR, DeleteCR, Deliver, Observe, Restart,
          ReconcileNotFound, Reconcile, SaveHash, SetFinalizer, UpdatePhase,
          RemoveFinalizer, Environment, vars
  <2>5. QED BY <2>1, <2>2, <2>3, <2>4
<1>8. StepsDone'
  <2> SUFFICES ASSUME am' # Absent, NEW i \in Nat, NEW r \in Resources \ Deletable,
                      Executed(i)', Makes(PhaseScript[worker'.instance.phase][i], r)
      PROVE  Complete(r)'
    BY DEF StepsDone, Makes
  <2>1. CASE am = Absent
    BY <1>5, <2>1 DEF NothingYet, Executed
  <2>2. CASE am # Absent
    <3>1. CASE Executed(i) /\ worker'.instance.phase = worker.instance.phase
      BY <2>2, <3>1, CompleteKept DEF StepsDone
    <3>2. CASE /\ i = worker.step
               /\ worker # Idle
               /\ ~worker.instance.deleting
               /\ worker'.instance.phase = worker.instance.phase
               /\ Onward \/ SaveHash \/ SetFinalizer
      <4>1. CASE Onward
        BY <1>2, <3>2, <4>1, OnwardMakes DEF Complete
      <4>2. CASE SaveHash \/ SetFinalizer
        BY <1>2, <3>2, <4>2, TaskFacts DEF SaveHash, SetFinalizer, Makes
      <4>3. QED BY <3>2, <4>1, <4>2
    <3>3. QED BY <3>1, <3>2, CallSteps DEF Executed
  <2>3. QED BY <2>1, <2>2
<1>9. InstalledBeforeAdvance'
  <2> SUFFICES ASSUME am' # Absent, NEW p \in 0..(am'.phase - 1),
                      NEW r \in Created(p) \ Deletable
      PROVE  Complete(r)'
    BY DEF InstalledBeforeAdvance, Complete, Created
  <2>1. r \in Resources \ Deletable
    BY DEF Created
  <2>2. CASE am = Absent
    BY <1>5, <2>2 DEF PhaseInstallPrometheusOperator
  <2>3. CASE am # Absent
    <3>1. am.phase \in Phases /\ Phases \subseteq Int
      BY <1>2, <2>3, Copies DEF AM, Phases, PhaseInstallPrometheusOperator,
         PhaseReconcileConfig
    <3>2. CASE p \in 0..(am.phase - 1)
      BY <2>1, <2>3, <3>2, CompleteKept DEF InstalledBeforeAdvance, Complete
    <3>3. CASE p = am.phase /\ UpdatePhase
      <4>1. /\ worker # Idle
            /\ worker.instance.phase = p
            /\ worker.step = Len(Script) + 1
        BY <3>3 DEF UpdatePhase, Finished, LockInv, FreshCopies
      <4>2. ~worker.instance.deleting
        BY <4>1 DEF LockInv, CleanupStep, Script, CleanupScript
      <4>3. Script = PhaseScript[p] /\ PhaseScript[p] \in Seq(Task)
        BY <3>1, <3>3, <4>1, <4>2, ScriptAssumption DEF Script
      <4>4. PICK i \in DOMAIN PhaseScript[p] : Makes(PhaseScript[p][i], r)
        BY DEF Created, Makes
      <4>5. i \in Nat /\ Executed(i)
        BY <4>1, <4>2, <4>3, <4>4 DEF Executed
      <4>6. Complete(r)
        BY <2>1, <2>3, <4>1, <4>4, <4>5 DEF StepsDone
      <4>7. QED BY <2>1, <2>3, <4>6, CompleteKept
    <3>4. am'.phase = am.phase \/ (UpdatePhase /\ am'.phase = am.phase + 1)
      BY <2>3, CRSteps
    <3>5. p \in 0..(am.phase - 1) \/ (p = am.phase /\ UpdatePhase)
      <4> DEFINE before == am.phase
                 after == am'.phase
      <4>1. /\ before \in Int /\ p \in 0..(after - 1)
            /\ after = before \/ (UpdatePhase /\ after = before + 1)
        BY <3>1, <3>4
      <4> HIDE DEF before, after
      <4>2. p \in 0..(before - 1) \/ (p = before /\ UpdatePhase)
        BY <4>1
      <4>3. QED BY <4>2 DEF before
    <3>6. QED BY <3>2, <3>3, <3>5
  <2>4. QED BY <2>2, <2>3
<1>10. QED BY <1>1, <1>4, <1>6, <1>7, <1>8, <1>9

\* As long as a CR is not created a second time, the resources of every phase that
\* it has left exist, for every script and every set of resources.
THEOREM InstallationIsComplete ==
  ASSUME MaxCRs = 1
  PROVE  Spec => []InstalledBeforeAdvance
<1>1. Init => InstalledInv
  BY InitLockInv DEF Init, InstalledInv, NothingYet, DeletionKnown, DataSourceHeld,
     StepsDone, InstalledBeforeAdvance, Exists
<1>2. InstalledInv /\ [Next]_vars => InstalledInv'
  BY InstalledInvNext
<1>3. InstalledInv => InstalledBeforeAdvance
  BY DEF InstalledInv
<1>4. QED BY <1>1, <1>2, <1>3, PTL DEF Spec
-----------------------------------------------------------------------------
(* The cleanup is not skipped. *)

\* The data source is gone, or going.
DataSourceGoes ==
  Exists(GrafanaDataSourceName) => resources[GrafanaDataSourceName].terminating

\* A cleanup that is about to remove the finalizer has deleted the data source, and
\* while it runs nothing creates another: there is one worker.
DeletedFirst ==
  (worker # Idle /\ worker.instance.deleting /\ worker.step = 2) => DataSourceGoes

CleanupInv == HeldInv /\ DeletedFirst

\* Users, the garbage collector and the Grafana operator do not bring it back.
LEMMA OutsideGoes == TypeOK /\ DataSourceGoes /\ Outside => DataSourceGoes'
<1> SUFFICES ASSUME TypeOK, DataSourceGoes, Outside PROVE DataSourceGoes'
  OBVIOUS
<1>1. resources \in [Resources -> Resource \cup {Missing}]
  BY DEF TypeOK
<1>2. ASSUME NEW r \in Resources, Exists(r), ~resources[r].terminating,
             resources' = [resources EXCEPT ![r] = Gone(r)]
      PROVE  DataSourceGoes'
  BY <1>1, <1>2 DEF DataSourceGoes, Exists, Gone
<1>3. CASE \/ \E r \in Deletable : UserDeletes(r)
           \/ \E r \in Resources : Collect(r)
  BY <1>2, <1>3, UsersAssumption DEF UserDeletes, Collect
<1>4. CASE GrafanaFinalizes
  BY <1>1, <1>4 DEF GrafanaFinalizes, DataSourceGoes, Exists
<1>5. QED BY <1>3, <1>4 DEF Outside

\* The first step of the cleanup deletes the data source.
LEMMA DeleteGoes == TypeOK /\ DeleteDataSource => DataSourceGoes'
<1> SUFFICES ASSUME TypeOK, DeleteDataSource PROVE DataSourceGoes'
  OBVIOUS
<1>1. resources \in [Resources -> Resource \cup {Missing}]
  BY DEF TypeOK
<1>2. What = GrafanaDataSourceName
  BY TaskFacts DEF DeleteDataSource
<1>3. Exists(What) => [resources[What] EXCEPT !.terminating = TRUE].terminating
  BY <1>1 DEF Exists, Resource
<1>4. QED BY <1>1, <1>2, <1>3 DEF DeleteDataSource, DataSourceGoes, Exists, Gone

\* A cleanup gets to its second step by the first.
LEMMA CleanupInvNext == CleanupInv /\ [Next]_vars => CleanupInv'
<1> SUFFICES ASSUME CleanupInv, [Next]_vars PROVE CleanupInv'
  OBVIOUS
<1>1. TypeOK /\ LockInv /\ HeldInv'
  BY HeldInvNext DEF CleanupInv, HeldInv, LockInv
<1>2. DeletedFirst'
  <2> SUFFICES ASSUME worker' # Idle, worker'.instance.deleting, worker'.step = 2
      PROVE  DataSourceGoes'
    BY DEF DeletedFirst
  <2>1. CASE Outside
    BY <1>1, <2>1, OutsideFacts, OutsideGoes DEF CleanupInv, DeletedFirst
  <2>2. CASE UNCHANGED <<worker, resources>>
    BY <2>2 DEF CleanupInv, DeletedFirst, DataSourceGoes, Exists
  <2>3. CASE Onward
    <3>1. worker # Idle /\ worker.step = 1 /\ worker.instance.deleting
      BY <1>1, <2>3, OnwardFacts, ContinueFacts, Copies
    <3>2. PICK do : Executing(do) /\ do # "removeFinalizer"
      BY <1>1, <2>3, OnwardFacts
    <3>3. do = "delete"
      BY <3>1, <3>2 DEF Executing, Script, CleanupScript
    <3>4. ~\E other : other # "delete" /\ Executing(other)
      BY <3>2, <3>3 DEF Executing
    <3>5. DeleteDataSource
      BY <2>3, <3>4
      DEF Onward, CreateResource, AwaitSucceeds, HealServiceAccounts, UpdateCRs,
          UpdateOperatorDeployments, UpdateSecret, CreateSecret
    <3>6. QED BY <1>1, <3>5, DeleteGoes
  <2>4. CASE SaveHash \/ SetFinalizer
    <3>1. /\ worker # Idle
          /\ ~worker.instance.deleting
      BY <1>1, <2>4, TaskFacts DEF SaveHash, SetFinalizer
    <3>2. worker \in Running /\ worker.instance \in AM
      BY <1>1, <3>1, Copies
    <3>3. ~worker'.instance.deleting
      <4>1. CASE SaveHash
        BY <3>1, <3>2, <4>1 DEF SaveHash, Running
      <4>2. CASE SetFinalizer
        <5> DEFINE next == [worker EXCEPT !.step = worker.step + 1]
                   held == [next.instance EXCEPT !.finalizer = TRUE]
        <5>1. next.instance = worker.instance /\ "instance" \in DOMAIN next
          BY <3>2 DEF Running
        <5>2. ~held.deleting
          BY <3>1, <3>2, <5>1 DEF AM
        <5>3. worker' = [next EXCEPT !.instance = held]
          BY <4>2 DEF SetFinalizer
        <5>4. QED BY <5>1, <5>2, <5>3
      <4>3. QED BY <2>4, <4>1, <4>2
    <3>4. QED BY <3>3
  <2>5. CASE Reconcile
    BY <2>5 DEF Reconcile
  <2>6. worker' = Idle \/ UNCHANGED <<worker, resources>> \/ Outside \/ Onward
        \/ SaveHash \/ SetFinalizer \/ Reconcile
    BY <1>1, NextCases, StopsFacts
    DEF Saves, UpdatePhase, RemoveFinalizer, CreateCR, EditCR, DeleteCR, Deliver, Observe,
        Restart, ReconcileNotFound, vars
  <2>7. QED BY <2>1, <2>2, <2>3, <2>4, <2>5, <2>6
<1>3. QED BY <1>1, <1>2 DEF CleanupInv

\* No conflict, failure or restart in the middle of the cleanup, and no deletion by
\* somebody else, lets an installed CR go without the deletion of its data source.
THEOREM CleanupIsNotSkipped == Spec => CleanupNotSkipped
<1> DEFINE Left == (am # Absent /\ am.phase >= PhaseDone /\ am' = Absent) => DataSourceGoes
<1>1. Init => CleanupInv
  BY InitLockInv
  DEF Init, CleanupInv, DeletedFirst, HeldInv, FinalizerInMemory, HeldWhenInstalled, Executed
<1>2. CleanupInv /\ [Next]_vars => [Left]_vars
  <2> SUFFICES ASSUME CleanupInv, [Next]_vars, am # Absent, am.phase >= PhaseDone, am' = Absent
      PROVE  DataSourceGoes
    OBVIOUS
  <2>1. TypeOK /\ am \in AM /\ am.finalizer
    BY Copies DEF CleanupInv, HeldInv, LockInv, HeldWhenInstalled
  <2>2. CASE DeleteCR
    <3> DEFINE marked == [am EXCEPT !.deleting = TRUE]
    <3>1. marked \in AM /\ marked.finalizer
      BY <2>1 DEF AM
    <3>2. am' = marked
      BY <2>2, <3>1 DEF DeleteCR, Stored
    <3>3. QED BY <3>1, <3>2, AbsentAssumption
  <2>3. CASE SaveHash \/ SetFinalizer \/ UpdatePhase
    <3>1. worker.instance \in AM
      BY <2>1, <2>3, TaskFacts, Copies DEF SaveHash, SetFinalizer, UpdatePhase, Finished
    <3>2. am' \in AM
      <4>1. CASE UpdatePhase
        BY <2>1, <3>1, <4>1
        DEF UpdatePhase, AM, Phases, PhaseInstallPrometheusOperator, PhaseReconcileConfig
      <4>2. CASE SaveHash \/ SetFinalizer
        BY <2>1, <3>1, <4>2 DEF SaveHash, SetFinalizer, AM
      <4>3. QED BY <2>3, <4>1, <4>2
    <3>3. QED BY <3>2, AbsentAssumption
  <2>4. CASE RemoveFinalizer
    BY <2>1, <2>4, TaskFacts DEF RemoveFinalizer, CleanupInv, DeletedFirst
  <2>5. CASE ~Saves /\ ~DeleteCR
    BY <2>1, <2>5, NextCases, OutsideFacts, OnwardFacts, StopsFacts
    DEF CreateCR, EditCR, Deliver, Observe, Restart, ReconcileNotFound, Reconcile, vars
  <2>6. QED BY <2>2, <2>3, <2>4, <2>5 DEF Saves
<1>3. CleanupInv /\ [Next]_vars => CleanupInv'
  BY CleanupInvNext
<1>4. QED
  BY <1>1, <1>2, <1>3, PTL DEF Spec, CleanupNotSkipped, DataSourceGoes
-----------------------------------------------------------------------------
(* The CR is never left alone. *)

\* A call that ends without a write is repeated.
LEMMA StopsRequeue == Stops => queued' = TRUE
  BY DEF Stops, CallFails, Conflict, AwaitAgain, ReconcileConfigEnds, Return

\* A call that goes on is still running.
LEMMA StillRunning ==
  ASSUME TypeOK, Onward \/ SaveHash \/ SetFinalizer
  PROVE  worker' # Idle
<1>1. CASE Onward
  BY <1>1, OnwardFacts, ContinueFacts
<1>2. CASE SaveHash \/ SetFinalizer
  <2>1. worker \in Running
    BY <1>2, TaskFacts, Copies DEF SaveHash, SetFinalizer
  <2>2. "instance" \in DOMAIN worker'
    BY <1>2, <2>1 DEF SaveHash, SetFinalizer, Running
  <2>3. QED BY <2>2 DEF Idle
<1>3. QED BY <1>1, <1>2

\* A call ends with a write, whose event queues the CR, or asks to be repeated; a name
\* is only dropped when the cache knows that the CR is gone.
LEMMA NeverForgottenNext ==
  ASSUME LockInv, NeverForgotten, [Next]_vars
  PROVE  NeverForgotten'
<1> USE DEF LockInv, NeverForgotten
<1>1. CASE CreateCR \/ EditCR \/ DeleteCR \/ UpdatePhase \/ RemoveFinalizer
  BY <1>1 DEF CreateCR, EditCR, DeleteCR, UpdatePhase, RemoveFinalizer
<1>2. CASE Outside
  BY <1>2, OutsideFacts
<1>3. CASE Deliver \/ Restart \/ (\E r \in Observable : Observe(r))
  BY <1>3 DEF Deliver, Restart, Observe
<1>4. CASE ReconcileNotFound
  BY <1>4 DEF ReconcileNotFound, FreshCopies
<1>5. CASE Reconcile
  <2>1. "instance" \in DOMAIN worker'
    BY <1>5 DEF Reconcile
  <2>2. QED BY <2>1 DEF Idle
<1>6. CASE Onward \/ SaveHash \/ SetFinalizer
  BY <1>6, StillRunning
<1>7. CASE Stops
  BY <1>7, StopsRequeue
<1>8. CASE UNCHANGED vars
  BY <1>8 DEF vars
<1>9. QED
  BY <1>1, <1>2, <1>3, <1>4, <1>5, <1>6, <1>7, <1>8, NextCases DEF Saves

\* In no reachable state is an existing CR left without a call, an entry in the queue
\* or an event on its way: the safety half of InstallCompletes and DeletionCompletes.
THEOREM TheCRIsNeverForgotten == Spec => []NeverForgotten
<1>1. Init => NeverForgotten
  BY DEF Init, NeverForgotten
<1>2. QED BY <1>1, InstallLockingCorrect, NeverForgottenNext, PTL DEF Spec
-----------------------------------------------------------------------------
(* Nothing gets out of the garbage collector's reach. *)

\* Every copy of a CR is of one that was created.
CreatedBefore ==
  /\ am # Absent => am.uid <= created
  /\ cache # Absent => cache.uid <= created
  /\ worker # Idle => worker.instance.uid <= created

OwnedInv == LockInv /\ CreatedBefore /\ NothingEscapesCollection

Others == Resources \ {GrafanaDataSourceName, ScrapeConfigSecretName}

\* The copies of the CR come from each other.
LEMMA CreatedBeforeNext ==
  ASSUME LockInv, CreatedBefore, [Next]_vars
  PROVE  CreatedBefore' /\ created' >= created
<1> USE DEF LockInv
<1>1. created \in Nat /\ created' \in Nat
  BY LockInvNext, BoundsAssumption DEF TypeOK
<1>2. /\ am # Absent => am \in AM
      /\ worker # Idle => worker \in Running /\ worker.instance \in AM
  BY Copies
<1>3. CASE CreateCR
  <2>1. created' = created + 1 /\ am'.uid = created + 1
        /\ UNCHANGED <<cache, worker>>
    BY <1>3 DEF CreateCR
  <2>2. /\ cache # Absent => cache.uid \in Nat
        /\ worker # Idle => worker.instance.uid \in Nat
    BY Copies, BoundsAssumption DEF AM
  <2>3. QED BY <1>1, <2>1, <2>2 DEF CreatedBefore
<1>4. CASE DeleteCR
  <2>1. am \in AM
    BY <1>2, <1>4 DEF DeleteCR
  <2>2. am' # Absent => am'.uid = am.uid
    BY <1>4, <2>1 DEF DeleteCR, Stored, AM
  <2>3. QED BY <1>1, <1>4, <2>2 DEF DeleteCR, CreatedBefore
<1>5. CASE Outside
  BY <1>1, <1>5, OutsideFacts DEF CreatedBefore
<1>6. CASE Onward
  <2>1. worker # Idle /\ worker'.instance = worker.instance
    BY <1>6, OnwardFacts, ContinueFacts
  <2>2. UNCHANGED <<am, cache, created>>
    BY <1>6, OnwardFacts
  <2>3. QED BY <1>1, <2>1, <2>2 DEF CreatedBefore
<1>7. CASE Stops
  BY <1>1, <1>7, StopsFacts DEF CreatedBefore
<1>8. CASE Saves
  <2>1. worker # Idle
    BY <1>8, TaskFacts
    DEF Saves, SaveHash, SetFinalizer, UpdatePhase, Finished, RemoveFinalizer
  <2>2. UNCHANGED <<cache, created>>
    BY <1>8 DEF Saves, SaveHash, SetFinalizer, UpdatePhase, RemoveFinalizer, Environment
  <2>3. worker' # Idle => worker'.instance.uid = worker.instance.uid
    <3>1. CASE SaveHash \/ SetFinalizer
      <4>1. \/ worker'.instance = worker.instance
            \/ worker'.instance = [worker.instance EXCEPT !.finalizer = TRUE]
        BY <1>2, <2>1, <3>1 DEF SaveHash, SetFinalizer, Running
      <4>2. QED BY <1>2, <2>1, <4>1 DEF AM
    <3>2. CASE UpdatePhase \/ RemoveFinalizer
      BY <3>2 DEF UpdatePhase, RemoveFinalizer
    <3>3. QED BY <1>8, <3>1, <3>2 DEF Saves
  <2>4. am' # Absent => am' = am \/ am'.uid = worker.instance.uid
    BY <1>2, <1>8, <2>1
    DEF Saves, SaveHash, SetFinalizer, UpdatePhase, RemoveFinalizer, Stored, AM
  <2>5. QED BY <1>1, <2>1, <2>2, <2>3, <2>4 DEF CreatedBefore
<1>9. CASE \/ EditCR \/ Deliver \/ Restart \/ (\E r \in Observable : Observe(r))
           \/ ReconcileNotFound \/ Reconcile \/ UNCHANGED vars
  BY <1>1, <1>9
  DEF EditCR, Deliver, Restart, Observe, ReconcileNotFound, Reconcile, vars, CreatedBefore
<1>10. QED BY <1>3, <1>4, <1>5, <1>6, <1>7, <1>8, <1>9, NextCases

\* A step leaves a resource alone, removes it, or makes the CR of the running call its
\* owner.
LEMMA ResourceSteps ==
  ASSUME TypeOK, [Next]_vars, NEW r \in Others
  PROVE  \/ resources'[r] = resources[r]
         \/ resources'[r] = Missing
         \/ /\ worker # Idle
            /\ resources'[r].owner = worker.instance.uid
            /\ resources'[r].terminating => Exists(r) /\ resources[r].terminating
<1> DEFINE Owned == /\ resources'[r].owner = worker.instance.uid
                    /\ resources'[r].terminating =>
                         Exists(r) /\ resources[r].terminating
<1>1. resources \in [Resources -> Resource \cup {Missing}] /\ r \in Resources
  BY DEF TypeOK, Others
<1>2. ASSUME NEW q \in Resources, resources' = Put(q)
      PROVE  resources'[r] = resources[r] \/ Owned
  BY <1>1, <1>2 DEF Put
<1>3. ASSUME NEW rs, Update(rs), \A q \in rs : Exists(q)
      PROVE  resources'[r] = resources[r] \/ Owned
  <2>1. CASE r \in rs
    <3>1. Exists(r) /\ resources[r] \in Resource
      BY <1>1, <1>3, <2>1 DEF Exists
    <3>2. resources'[r] = [resources[r] EXCEPT !.owner = worker.instance.uid]
      BY <1>1, <1>3, <2>1 DEF Update
    <3>3. QED BY <3>1, <3>2 DEF Resource
  <2>2. CASE r \notin rs
    BY <1>1, <1>3, <2>2 DEF Update
  <2>3. QED BY <2>1, <2>2
<1>4. CASE Outside
  <2>1. PICK q \in Resources :
          resources' = [resources EXCEPT ![q] = Gone(q)] \/ GrafanaFinalizes
    BY <1>4, UsersAssumption DEF Outside, UserDeletes, Collect, GrafanaFinalizes, Exists
  <2>2. QED BY <1>1, <2>1 DEF Gone, GrafanaFinalizes, Others
<1>5. CASE Onward
  <2>1. worker # Idle
    BY <1>5, OnwardFacts
  <2>2. CASE CreateResource
    BY <1>2, <2>1, <2>2, TaskFacts DEF CreateResource
  <2>3. CASE HealServiceAccounts
    BY <1>2, <2>1, <2>3 DEF HealServiceAccounts, Observable
  <2>4. CASE UpdateCRs
    BY <1>3, <2>1, <2>4 DEF UpdateCRs
  <2>5. CASE UpdateOperatorDeployments
    BY <1>3, <2>1, <2>5 DEF UpdateOperatorDeployments
  <2>6. CASE DeleteDataSource
    <3>1. What = GrafanaDataSourceName
      BY <2>6, TaskFacts DEF DeleteDataSource
    <3>2. QED BY <1>1, <2>6, <3>1 DEF DeleteDataSource, Others
  <2>7. CASE UpdateSecret
    <3>1. What = ScrapeConfigSecretName
      BY <2>7, TaskFacts, Copies, ScriptAssumption DEF UpdateSecret, What
    <3>2. QED BY <1>1, <2>7, <3>1 DEF UpdateSecret, Others
  <2>8. CASE CreateSecret
    BY <1>2, <2>1, <2>8, TaskFacts DEF CreateSecret
  <2>9. CASE AwaitSucceeds
    BY <2>9 DEF AwaitSucceeds
  <2>10. QED BY <1>5, <2>2, <2>3, <2>4, <2>5, <2>6, <2>7, <2>8, <2>9 DEF Onward
<1>6. QED
  BY <1>4, <1>5, NextCases, StopsFacts
  DEF Saves, CreateCR, EditCR, DeleteCR, Deliver, Observe, Restart, ReconcileNotFound,
      Reconcile, SaveHash, SetFinalizer, UpdatePhase, RemoveFinalizer, Environment, vars

\* Every resource of the installation but the data source and the secret can always be
\* collected: each has an owner that was created, and none is stuck in its deletion.
THEOREM NothingEscapes == Spec => []NothingEscapesCollection
<1>1. Init => OwnedInv
  BY InitLockInv DEF Init, OwnedInv, CreatedBefore, NothingEscapesCollection, Exists
<1>2. OwnedInv /\ [Next]_vars => OwnedInv'
  <2> SUFFICES ASSUME OwnedInv, [Next]_vars PROVE OwnedInv'
    OBVIOUS
  <2>1. LockInv /\ TypeOK /\ LockInv' /\ CreatedBefore' /\ created' >= created
    BY LockInvNext, CreatedBeforeNext DEF OwnedInv, LockInv
  <2>2. ASSUME NEW r \in Others, Exists(r)'
        PROVE  resources'[r].owner \in 1..created' /\ ~resources'[r].terminating
    <3>1. created \in Nat /\ created' \in Nat
      BY <2>1, BoundsAssumption DEF LockInv, TypeOK
    <3>2. (resources[r] # Missing) =>
            resources[r].owner \in 1..created /\ ~resources[r].terminating
      BY DEF OwnedInv, NothingEscapesCollection, Others, Exists
    <3>3. resources'[r] # Missing /\ r \in Resources
      BY <2>2 DEF Exists
    <3>4. CASE resources'[r] = resources[r]
      BY <2>1, <3>1, <3>2, <3>3, <3>4
    <3>5. CASE /\ worker # Idle
               /\ resources'[r].owner = worker.instance.uid
               /\ resources'[r].terminating => Exists(r) /\ resources[r].terminating
      <4>1. worker.instance.uid \in 1..created
        BY <2>1, <3>1, <3>5, Copies, BoundsAssumption DEF OwnedInv, CreatedBefore
      <4>2. QED BY <2>1, <3>1, <3>2, <3>5, <4>1 DEF Exists
    <3>6. QED BY <2>1, <3>3, <3>4, <3>5, ResourceSteps
  <2>3. QED BY <2>1, <2>2 DEF OwnedInv, NothingEscapesCollection, Others
<1>3. OwnedInv => NothingEscapesCollection
  BY DEF OwnedInv
<1>4. QED BY <1>1, <1>2, <1>3, PTL DEF Spec
-----------------------------------------------------------------------------
(* The refinement of the life of a CR. *)

\* A step that changes the CR changes nothing else that the life of the CR shows.
LEMMA LifeSteps ==
  ASSUME TypeOK, [Next]_vars
  PROVE  \/ UNCHANGED <<am, created>>
         \/ CreateCR
         \/ (DeleteCR \/ Saves) /\ UNCHANGED <<created, resources>>
  BY NextCases, OutsideFacts, OnwardFacts, StopsFacts
  DEF EditCR, DeleteCR, Deliver, Observe, Restart, ReconcileNotFound, Reconcile, Saves,
      SaveHash, SetFinalizer, UpdatePhase, RemoveFinalizer, Environment, vars

\* A CR that goes was not installed, or its cleanup has given up the data source.
LEMMA WaysToGo ==
  ASSUME CleanupInv, [Next]_vars, am # Absent, am' = Absent
  PROVE  \/ ~am.deleting /\ am.phase < PhaseDone
         \/ am.deleting /\ DataSourceGoes
<1>1. TypeOK /\ am \in AM
  BY Copies DEF CleanupInv, HeldInv, LockInv
<1>2. CASE DeleteCR
  <2> DEFINE marked == [am EXCEPT !.deleting = TRUE]
  <2>1. marked \in AM /\ marked # Absent /\ marked.finalizer = am.finalizer
    BY <1>1, AbsentAssumption DEF AM
  <2>2. ~am.finalizer /\ ~am.deleting
    BY <1>2, <2>1 DEF DeleteCR, Stored
  <2>3. am.phase \in Int
    BY <1>1 DEF AM, Phases, PhaseInstallPrometheusOperator, PhaseReconcileConfig
  <2>4. QED BY <2>2, <2>3 DEF CleanupInv, HeldInv, HeldWhenInstalled, PhaseDone
<1>3. CASE RemoveFinalizer
  BY <1>1, <1>3, TaskFacts
  DEF RemoveFinalizer, CleanupInv, DeletedFirst, HeldInv, LockInv, FreshCopies
<1>4. CASE SaveHash \/ SetFinalizer \/ UpdatePhase
  <2>1. worker.instance \in AM
    BY <1>1, <1>4, TaskFacts, Copies DEF SaveHash, SetFinalizer, UpdatePhase, Finished
  <2>2. am' \in AM
    <3>1. CASE UpdatePhase
      BY <1>1, <2>1, <3>1
      DEF UpdatePhase, AM, Phases, PhaseInstallPrometheusOperator, PhaseReconcileConfig
    <3>2. CASE SaveHash \/ SetFinalizer
      BY <1>1, <2>1, <3>2 DEF SaveHash, SetFinalizer, AM
    <3>3. QED BY <1>4, <3>1, <3>2
  <2>3. QED BY <2>2, AbsentAssumption
<1>5. QED BY <1>1, <1>2, <1>3, <1>4, LifeSteps DEF Saves, CreateCR

\* Every step is a step of the life of the CR, or changes nothing that it shows.
LEMMA LifeNext ==
  ASSUME CleanupInv, CleanupInv', [Next]_vars
  PROVE  [Life!Next]_(Life!life)
<1>1. TypeOK /\ TypeOK' /\ LockInv
  BY DEF CleanupInv, HeldInv, LockInv
<1>2. CASE UNCHANGED <<am, created>>
  <2>1. LifeState' = LifeState
    BY <1>2 DEF LifeState
  <2>2. DataSourceKept' \in BOOLEAN
    BY DEF DataSourceKept
  <2>3. QED BY <1>2, <2>1, <2>2 DEF Life!Next, Life!ChangeDataSource
<1>3. CASE CreateCR
  <2>1. am = Absent /\ created' = created + 1 /\ UNCHANGED resources
    BY <1>3 DEF CreateCR
  <2>2. am' \in AM /\ am' # Absent
    <3>1. created + 1 \in 1..MaxCRs
      BY <1>1, <1>3, BoundsAssumption DEF CreateCR, TypeOK
    <3>2. am' \in AM
      BY <1>3, <3>1
      DEF CreateCR, AM, Phases, PhaseInstallPrometheusOperator, PhaseReconcileConfig
    <3>3. QED BY <3>2, AbsentAssumption
  <2>3. am'.phase # PhaseReconcileConfig /\ ~am'.deleting
    BY <1>3 DEF CreateCR, PhaseInstallPrometheusOperator, PhaseReconcileConfig
  <2>4. LifeState = "none" /\ LifeState' = "installing"
    BY <2>1, <2>2, <2>3 DEF LifeState
  <2>5. DataSourceKept' = DataSourceKept
    BY <2>1 DEF DataSourceKept, Exists
  <2>6. QED BY <2>1, <2>4, <2>5 DEF Life!Next, Life!Create
<1>4. CASE (DeleteCR \/ Saves) /\ UNCHANGED <<created, resources>> /\ am' # am
  <2>1. DataSourceKept' = DataSourceKept
    BY <1>4 DEF DataSourceKept, Exists
  <2>2. am # Absent
    BY <1>1, <1>4
    DEF LockInv, FreshCopies, DeleteCR, Saves, SaveHash, SetFinalizer, UpdatePhase,
        RemoveFinalizer
  <2>3. CASE am' = Absent
    <3>1. LifeState' = "none"
      BY <2>3 DEF LifeState
    <3>2. CASE ~am.deleting /\ am.phase < PhaseDone
      <4>1. am.phase # PhaseReconcileConfig
        BY <3>2 DEF PhaseDone, PhaseReconcileConfig
      <4>2. LifeState = "installing"
        BY <2>2, <3>2, <4>1 DEF LifeState
      <4>3. QED BY <1>4, <2>1, <3>1, <4>2 DEF Life!Next, Life!Vanish
    <3>3. CASE am.deleting /\ DataSourceGoes
      <4>1. LifeState = "deleting" /\ ~DataSourceKept
        BY <2>2, <3>3 DEF LifeState, DataSourceKept, DataSourceGoes
      <4>2. QED BY <1>4, <2>1, <3>1, <4>1 DEF Life!Next, Life!Cleanup
    <3>4. QED BY <2>2, <2>3, <3>2, <3>3, WaysToGo
  <2>4. CASE am' # Absent
    <3>1. am' \in AM /\ am \in AM
      BY <1>1, <2>2, <2>4 DEF TypeOK
    <3>2. /\ am'.phase = am.phase \/ am'.phase = am.phase + 1
          /\ am.deleting => am'.deleting
      BY <1>1, <2>2, <2>4, CRSteps
    <3>3. CASE am.deleting
      <4>1. LifeState = "deleting" /\ LifeState' = "deleting"
        BY <2>2, <2>4, <3>2, <3>3 DEF LifeState
      <4>2. QED BY <1>4, <2>1, <4>1 DEF Life!life
    <3>4. CASE ~am.deleting /\ am'.deleting
      <4>1. LifeState \in {"installing", "steady"} /\ LifeState' = "deleting"
        BY <2>2, <2>4, <3>4 DEF LifeState
      <4>2. QED BY <1>4, <2>1, <4>1 DEF Life!Next, Life!Delete
    <3>5. CASE ~am.deleting /\ ~am'.deleting
      <4>1. am.phase = PhaseReconcileConfig => am'.phase = PhaseReconcileConfig
        BY <3>1, <3>2
        DEF AM, Phases, PhaseInstallPrometheusOperator, PhaseReconcileConfig
      <4>2. \/ LifeState' = LifeState
            \/ LifeState = "installing" /\ LifeState' = "steady"
        BY <2>2, <2>4, <3>5, <4>1 DEF LifeState
      <4>3. QED BY <1>4, <2>1, <4>2 DEF Life!life, Life!Next, Life!Installs
    <3>6. QED BY <3>3, <3>4, <3>5
  <2>5. QED BY <2>3, <2>4
<1>5. QED BY <1>1, <1>2, <1>3, <1>4, LifeSteps

\* The controller implements the life of a CR: it is installed once, its deletion is
\* not forgotten, and once installed it goes only when its data source has been given
\* up.
THEOREM InstallImplementsLifecycle == Spec => ImplementsLifecycle
<1>1. Init => CleanupInv
  BY InitLockInv
  DEF Init, CleanupInv, DeletedFirst, HeldInv, FinalizerInMemory, HeldWhenInstalled, Executed
<1>2. Init => Life!Init
  BY DEF Init, Life!Init, LifeState, DataSourceKept, Exists
<1>3. CleanupInv /\ CleanupInv' /\ [Next]_vars => [Life!Next]_(Life!life)
  BY LifeNext
<1>4. QED
  BY <1>1, <1>2, <1>3, CleanupInvNext, PTL DEF Spec, ImplementsLifecycle, Life!Spec
================================================================================
