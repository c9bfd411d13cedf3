-------------------------- MODULE SteadyState_proofs --------------------------
(***************************************************************************)
(* Proofs about the steady state, for every set of specs and every bound:  *)
(* types, and that a reload of the exporter is not missed.                 *)
(***************************************************************************)
EXTENDS SteadyState, TLAPS

\* The operands are updated one after the other.
LEMMA OperandFacts ==
  /\ DOMAIN Operands = {1, 2} /\ Len(Operands) = 2
  /\ Objects = {"prometheus", "alertmanager", ConfigMap}
  /\ Operands[1] = "prometheus" /\ Operands[2] = "alertmanager"
<1>1. DOMAIN Operands = {1, 2} /\ Len(Operands) = 2
  BY DEF Operands
<1>2. Operands[1] = "prometheus" /\ Operands[2] = "alertmanager"
  BY DEF Operands
<1>3. QED BY <1>1, <1>2 DEF Objects

\* The variables are well typed initially.
LEMMA InitTypes == Init => TypeOK
<1> SUFFICES ASSUME Init PROVE TypeOK
  OBVIOUS
<1>1. /\ 0 \in Tokens /\ 0 \in 0..0
      /\ 0 \in 0..MaxEdits /\ 0 \in 0..MaxFaults
  BY BoundsAssumption DEF Tokens
<1>2. Installed \in Content
  BY <1>1 DEF Installed, Content
<1>3. operand \in [Objects \ {ConfigMap} -> Operand]
  BY DEF Init, Operand
<1>4. QED BY <1>1, <1>2, <1>3 DEF Init, TypeOK

\* A bound that is not reached yet is not exceeded by one more.
LEMMA Counted ==
  ASSUME NEW m \in Nat, NEW k \in 0..m, k < m
  PROVE  k + 1 \in 0..m
  OBVIOUS

\* At most as many tokens are issued as users delete, and one.
TokensBound == issued <= edits + (IF token = 0 THEN 0 ELSE 1)

TypeInv == TypeOK /\ TokensBound

\* Users keep the types.
LEMMA UserTypes ==
  ASSUME TypeInv,
         \/ EditSpec \/ EditConfig \/ DeleteToken
         \/ \E o \in Objects \ {ConfigMap} : EditOperand(o)
         \/ \E p \in Pods : PodStops(p)
  PROVE  TypeInv'
<1>1. /\ UNCHANGED <<specCache, tokenCache, configCache, listed, worker, faults>>
      /\ edits' = edits + 1 /\ edits' \in 0..MaxEdits
  <2>1. UserStep
    BY DEF EditSpec, EditConfig, DeleteToken, EditOperand, PodStops
  <2>2. QED BY <2>1, Counted, BoundsAssumption DEF UserStep, TypeInv, TypeOK, caches
<1>2. issued \in Nat /\ token \in Nat /\ edits \in Nat
  BY BoundsAssumption DEF TypeInv, TypeOK, Tokens
<1>3. CASE EditSpec
  BY <1>1, <1>2, <1>3 DEF EditSpec, TypeInv, TypeOK, TokensBound, objects
<1>4. CASE EditConfig
  <2>1. Installed \in Content
    BY BoundsAssumption DEF Installed, Content, Tokens
  <2>2. QED BY <1>1, <1>2, <1>4, <2>1 DEF EditConfig, TypeInv, TypeOK, TokensBound, users
<1>5. CASE DeleteToken
  <2>1. token' = 0 /\ issued' = issued /\ account' \in BOOLEAN /\ token' \in 0..issued'
    BY <1>2, <1>5 DEF DeleteToken
  <2>2. issued' <= edits'
    BY <1>1, <1>2, <1>5 DEF DeleteToken, TypeInv, TokensBound
  <2>3. TokensBound'
    BY <1>1, <1>2, <2>1, <2>2 DEF TokensBound
  <2>4. QED BY <1>1, <1>5, <2>1, <2>3 DEF DeleteToken, TypeInv, TypeOK, objects
<1>6. ASSUME NEW o \in Objects \ {ConfigMap}, EditOperand(o) PROVE TypeInv'
  <2>1. operand' \in [Objects \ {ConfigMap} -> Operand]
    BY <1>6 DEF EditOperand, TypeInv, TypeOK, Operand
  <2>2. QED BY <1>1, <1>2, <1>6, <2>1 DEF EditOperand, TypeInv, TypeOK, TokensBound, users
<1>7. ASSUME NEW p \in Pods, PodStops(p) PROVE TypeInv'
  BY <1>1, <1>2, <1>7 DEF PodStops, TypeInv, TypeOK, TokensBound, users
<1>8. QED BY <1>3, <1>4, <1>5, <1>6, <1>7

\* The cluster and the informers keep the types.
LEMMA ClusterTypes ==
  ASSUME TypeInv,
         \/ EnsureAccount \/ IssueToken
         \/ DeliverSpec \/ DeliverToken \/ DeliverPods
         \/ \E o \in Objects : DeliverObject(o)
         \/ \E p \in Pods : PodStarts(p)
         \/ Restart
  PROVE  TypeInv'
<1>1. issued \in Nat /\ token \in Nat /\ edits \in Nat /\ MaxEdits \in Nat
  BY BoundsAssumption DEF TypeInv, TypeOK, Tokens
<1>2. CASE EnsureAccount
  BY <1>2
  DEF EnsureAccount, CreateAccount, TypeInv, TypeOK, TokensBound, objects, caches
<1>3. CASE IssueToken
  <2>1. issued' = issued + 1 /\ token' = issued + 1 /\ UNCHANGED <<edits, tokenCache>>
    BY <1>3 DEF IssueToken, caches
  <2>2. issued <= edits
    BY <1>1, <1>3 DEF IssueToken, TypeInv, TokensBound
  <2>3. edits \in 0..MaxEdits /\ tokenCache \in 0..issued
    BY DEF TypeInv, TypeOK
  <2>4. issued' \in Tokens /\ token' \in 0..issued' /\ tokenCache' \in 0..issued'
    BY <1>1, <2>1, <2>2, <2>3 DEF Tokens
  <2>5. TokensBound'
    BY <1>1, <2>1, <2>2 DEF TokensBound
  <2>6. QED BY <1>3, <2>4, <2>5 DEF IssueToken, TypeInv, TypeOK, objects, caches
<1>4. CASE DeliverSpec
  BY <1>4 DEF DeliverSpec, TypeInv, TypeOK, TokensBound, users, objects
<1>5. CASE DeliverToken
  BY <1>5 DEF DeliverToken, TypeInv, TypeOK, TokensBound, users, objects
<1>6. CASE DeliverPods
  BY <1>6 DEF DeliverPods, Started, TypeInv, TypeOK, TokensBound, users, objects
<1>7. ASSUME NEW o \in Objects, DeliverObject(o) PROVE TypeInv'
  BY <1>7 DEF DeliverObject, TypeInv, TypeOK, TokensBound, users, objects
<1>8. ASSUME NEW p \in Pods, PodStarts(p) PROVE TypeInv'
  BY <1>8 DEF PodStarts, TypeInv, TypeOK, TokensBound, users
<1>9. CASE Restart
  <2>1. faults' \in 0..MaxFaults
    BY <1>9, Counted, BoundsAssumption DEF Restart, Fault, TypeInv, TypeOK
  <2>2. QED BY <1>9, <2>1
    DEF Restart, Started, Outdated, TypeInv, TypeOK, TokensBound, users
<1>10. QED BY <1>2, <1>3, <1>4, <1>5, <1>6, <1>7, <1>8, <1>9

\* The worker keeps the types.
LEMMA StepTypes ==
  ASSUME TypeInv, Step
  PROVE  TypeInv'
<1>1. UNCHANGED <<spec, account, token, issued, specCache, tokenCache, configCache, listed,
                  edits>>
  BY DEF Step, Reconcile, LookUpHosts, GetOperand, UpdateOperand, PutOperand,
     UpdateOperandFails, GetConfigMap, CompareConfig, UpdateConfig, WriteConfig,
     ConfigFails, ReloadPod, ReloadFails, Sync, Environment, users, caches
<1>2. TokensBound'
  BY <1>1 DEF TypeInv, TokensBound
<1>3. ASSUME NEW kind, Fault(kind) PROVE faults' \in 0..MaxFaults
  BY <1>3, Counted, BoundsAssumption DEF Fault, TypeInv, TypeOK
<1>4. tokenCache \in Tokens /\ 0 \in Tokens
  <2>1. tokenCache \in 0..issued /\ issued \in 0..(MaxEdits + 1) /\ MaxEdits \in Nat
    BY BoundsAssumption DEF TypeInv, TypeOK, Tokens
  <2>2. QED BY <2>1 DEF Tokens
<1>5. Installed \in Content
  BY <1>4 DEF Installed, Content
<1>6. ASSUME /\ worker' \in Running \cup {Idle}
             /\ held' \subseteq Objects /\ cached' \subseteq Objects
             /\ faults' \in 0..MaxFaults
             /\ operand' \in [Objects \ {ConfigMap} -> Operand]
             /\ config' \in Content /\ foreign' \in BOOLEAN
             /\ loaded' \in [Pods -> Content \cup {Down}] /\ owed' \subseteq Pods
      PROVE  TypeInv'
  BY <1>1, <1>2, <1>6 DEF TypeInv, TypeOK
<1>7. /\ operand \in [Objects \ {ConfigMap} -> Operand]
      /\ config \in Content /\ configCache \in Content /\ foreign \in BOOLEAN
      /\ loaded \in [Pods -> Content \cup {Down}] /\ owed \subseteq Pods
      /\ Outdated \subseteq Pods
      /\ held \subseteq Objects /\ cached \subseteq Objects
      /\ faults \in 0..MaxFaults
      /\ worker \in Running \cup {Idle}
      /\ specCache \in Specs
  BY DEF TypeInv, TypeOK, Outdated, Started
<1>8. CASE Reconcile
  <2>1. 1 \in DOMAIN Operands
    BY OperandFacts
  <2>2. worker' \in Running
    BY <1>4, <1>5, <1>7, <1>8, <2>1 DEF Reconcile, Running
  <2>3. QED BY <1>6, <1>7, <1>8, <2>2 DEF Reconcile, objects
<1>9. ASSUME worker.pc # "idle" PROVE worker \in Running
  BY <1>7, <1>9 DEF Idle
<1>10. CASE LookUpHosts
  <2>1. worker' \in Running /\ faults' \in 0..MaxFaults
    BY <1>3, <1>7, <1>9, <1>10 DEF LookUpHosts, At, Running
  <2>2. QED BY <1>6, <1>7, <1>10, <2>1 DEF LookUpHosts, objects
<1>11. CASE GetOperand
  <2>1. worker' \in Running /\ faults' \in 0..MaxFaults /\ held' \subseteq Objects
    BY <1>3, <1>7, <1>9, <1>11 DEF GetOperand, GoTo, At, Running
  <2>2. QED BY <1>6, <1>7, <1>11, <2>1 DEF GetOperand, objects
<1>12. ASSUME At("put"), NextOperand PROVE worker' \in Running
  <2>1. worker \in Running
    BY <1>9, <1>12 DEF At
  <2>2. ~LastOperand => worker.next + 1 \in DOMAIN Operands
    BY <2>1, OperandFacts DEF LastOperand, Running
  <2>3. QED BY <1>12, <2>1, <2>2 DEF NextOperand, Running
<1>13. CASE UpdateOperand
  <2>1. worker \in Running
    BY <1>9, <1>13 DEF UpdateOperand, PutOperand, At
  <2>2. RenderedOperand \in Operand
    BY <2>1 DEF RenderedOperand, Operand, Running
  <2>3. operand' \in [Objects \ {ConfigMap} -> Operand] /\ cached' \subseteq Objects
    BY <1>7, <1>13, <2>2 DEF UpdateOperand, PutOperand
  <2>4. QED BY <1>6, <1>7, <1>12, <1>13, <2>3 DEF UpdateOperand, PutOperand
<1>14. CASE UpdateOperandFails
  BY <1>3, <1>6, <1>7, <1>12, <1>14 DEF UpdateOperandFails, objects
<1>15. CASE GetConfigMap
  <2>1. worker' \in Running /\ held' \subseteq Objects
    BY <1>7, <1>9, <1>15 DEF GetConfigMap, At, Running
  <2>2. QED BY <1>6, <1>7, <1>15, <2>1 DEF GetConfigMap, objects
<1>16. CASE CompareConfig
  <2>1. worker' \in Running
    BY <1>4, <1>7, <1>9, <1>16 DEF CompareConfig, At, Running
  <2>2. QED BY <1>6, <1>7, <1>16, <2>1 DEF CompareConfig, objects
<1>17. CASE UpdateConfig
  <2>1. worker \in Running
    BY <1>9, <1>17 DEF UpdateConfig, WriteConfig, At
  <2>2. worker' \in Running /\ Rendered \in Content
    BY <1>17, <2>1 DEF UpdateConfig, WriteConfig, GoTo, Running, Rendered, Content
  <2>3. QED BY <1>6, <1>7, <1>17, <2>2 DEF UpdateConfig, WriteConfig
<1>18. CASE ReloadPod
  <2>1. worker' \in Running
    BY <1>7, <1>9, <1>18 DEF ReloadPod, GoTo, At, Running
  <2>2. listed \subseteq Pods
    BY DEF TypeInv, TypeOK
  <2>3. loaded' \in [Pods -> Content \cup {Down}] /\ owed' \subseteq Pods
    BY <1>7, <1>18, <2>2 DEF ReloadPod
  <2>4. QED BY <1>6, <1>7, <1>18, <2>1, <2>3 DEF ReloadPod
<1>19. CASE ConfigFails \/ ReloadFails \/ Sync
  <2>1. faults' \in 0..MaxFaults
    BY <1>3, <1>7, <1>19 DEF ConfigFails, ReloadFails, Sync
  <2>2. owed' \subseteq Pods
    BY <1>7, <1>19 DEF ConfigFails, ReloadFails, Sync, objects
  <2>3. QED BY <1>6, <1>7, <1>19, <2>1, <2>2
    DEF ConfigFails, ReloadFails, Sync, Return, objects
<1>20. QED
  BY <1>8, <1>10, <1>11, <1>13, <1>14, <1>15, <1>16, <1>17, <1>18, <1>19 DEF Step

\* The invariant is inductive.
LEMMA NextTypes == TypeInv /\ [Next]_vars => TypeInv'
<1> SUFFICES ASSUME TypeInv, [Next]_vars PROVE TypeInv'
  OBVIOUS
<1>1. CASE UNCHANGED vars
  BY <1>1 DEF vars, users, objects, caches, TypeInv, TypeOK, TokensBound
<1>2. QED BY <1>1, UserTypes, ClusterTypes, StepTypes DEF Next

\* The variables keep their types; tokens are issued only to replace deleted ones.
THEOREM SteadyTypeCorrect == Spec => []TypeOK
<1>1. TypeInv => TypeOK
  BY DEF TypeInv
<1>2. Init => TypeInv
  BY InitTypes DEF Init, TypeInv, TokensBound
<1>3. QED BY <1>1, <1>2, NextTypes, PTL DEF Spec
-----------------------------------------------------------------------------
(* A reload is not missed. *)

\* A reload that has become due is made, of one pod, or its debts are recorded: no step
\* leaves a pod behind in any other way.
LEMMA NextReloadInv == TypeInv /\ NoMissedReload /\ [Next]_vars => NoMissedReload'
<1> SUFFICES ASSUME TypeInv, NoMissedReload, [Next]_vars PROVE NoMissedReload'
  OBVIOUS
<1>1. foreign \/ At("reload") \/ Outdated \subseteq owed
  BY DEF NoMissedReload
<1>2. loaded \in [Pods -> Content \cup {Down}]
  BY DEF TypeInv, TypeOK
<1>3. ASSUME UNCHANGED <<config, foreign>>, ~At("reload"), Outdated' \subseteq Outdated \ (owed \ owed')
      PROVE  NoMissedReload'
  BY <1>1, <1>3 DEF NoMissedReload
<1>4. ASSUME UNCHANGED <<config, foreign, worker>>, Outdated' \subseteq Outdated \ (owed \ owed')
      PROVE  NoMissedReload'
  BY <1>1, <1>4 DEF NoMissedReload, At
<1>5. ASSUME UNCHANGED objects PROVE UNCHANGED <<config, foreign, owed, Outdated>>
  BY <1>5 DEF objects, Outdated, Started
<1>6. CASE \/ EditSpec \/ DeleteToken \/ \E o \in Objects \ {ConfigMap} : EditOperand(o)
           \/ EnsureAccount \/ IssueToken \/ DeliverSpec \/ DeliverToken \/ DeliverPods
           \/ \E o \in Objects : DeliverObject(o)
           \/ UNCHANGED vars
  <2>1. UNCHANGED <<config, foreign, loaded, owed, worker>>
    BY <1>6
    DEF EditSpec, DeleteToken, EditOperand, UserStep, EnsureAccount, CreateAccount,
        IssueToken, DeliverSpec, DeliverToken, DeliverPods, DeliverObject, vars, objects
  <2>2. QED BY <1>4, <2>1 DEF Outdated, Started
<1>7. CASE EditConfig
  BY <1>7 DEF EditConfig, NoMissedReload
<1>8. ASSUME NEW p \in Pods, PodStops(p) PROVE NoMissedReload'
  <2>1. Outdated' \subseteq Outdated \ {p}
    BY <1>2, <1>8 DEF PodStops, Outdated, Started
  <2>2. QED BY <1>4, <1>8, <2>1 DEF PodStops, UserStep
<1>9. ASSUME NEW p \in Pods, PodStarts(p) PROVE NoMissedReload'
  <2>1. Outdated' \subseteq Outdated
    BY <1>2, <1>9 DEF PodStarts, Outdated, Started
  <2>2. QED BY <1>4, <1>9, <2>1 DEF PodStarts
<1>10. CASE Restart
  <2>1. UNCHANGED <<config, foreign, Outdated>>
    BY <1>10 DEF Restart, Outdated, Started
  <2>2. At("reload") => owed' = owed \cup Outdated
    BY <1>10 DEF Restart, At
  <2>3. ~At("reload") => owed' = owed
    BY <1>10 DEF Restart, At
  <2>4. QED BY <1>1, <2>1, <2>2, <2>3 DEF NoMissedReload
<1>11. CASE \/ Reconcile \/ LookUpHosts \/ GetOperand \/ UpdateOperand
            \/ UpdateOperandFails \/ GetConfigMap \/ CompareConfig \/ ConfigFails \/ Sync
  <2>1. ~At("reload")
    BY <1>11 DEF Reconcile, LookUpHosts, GetOperand, UpdateOperand, PutOperand,
       UpdateOperandFails, GetConfigMap, CompareConfig, ConfigFails, Sync, At, Idle
  <2>2. UNCHANGED <<config, foreign, loaded, owed>>
    BY <1>11 DEF Reconcile, LookUpHosts, GetOperand, UpdateOperand, PutOperand,
       UpdateOperandFails, GetConfigMap, CompareConfig, ConfigFails, Sync, objects
  <2>3. QED BY <1>3, <2>1, <2>2 DEF Outdated, Started
<1>12. CASE UpdateConfig
  <2>1. worker \in Running
    BY <1>12 DEF UpdateConfig, WriteConfig, At, TypeInv, TypeOK, Idle
  <2>2. At("reload")'
    BY <1>12, <2>1 DEF UpdateConfig, WriteConfig, GoTo, At, Running
  <2>3. QED BY <2>2 DEF NoMissedReload
<1>13. CASE ReloadPod
  <2>1. config' = config
    BY <1>13 DEF ReloadPod
  <2>2. CASE UNCHANGED loaded /\ owed' = owed \cup Outdated
    BY <2>1, <2>2 DEF NoMissedReload, Outdated, Started
  <2>3. ASSUME NEW p \in listed, loaded' = [loaded EXCEPT ![p] = Down],
               owed' = (owed \cup Outdated) \ {p}
        PROVE  NoMissedReload'
    <3>1. Outdated' \subseteq Outdated \ {p}
      BY <1>2, <2>1, <2>3 DEF Outdated, Started, TypeInv, TypeOK
    <3>2. QED BY <2>3, <3>1 DEF NoMissedReload
  <2>4. QED BY <1>13, <2>2, <2>3 DEF ReloadPod
<1>14. CASE ReloadFails
  BY <1>14 DEF ReloadFails, NoMissedReload, Outdated, Started
<1>15. QED
  BY <1>6, <1>7, <1>8, <1>9, <1>10, <1>11, <1>12, <1>13, <1>14 DEF Next, Step

\* With any number of pods, any edits and failures at any point, a pod keeps an old
\* configuration only if its last due reload chose another pod, found none or was given
\* up; nothing else loses a reload.
THEOREM ReloadsAreMade == Spec => []NoMissedReload
<1>1. Init => TypeInv /\ NoMissedReload
  BY InitTypes DEF Init, TypeInv, TokensBound, NoMissedReload, Outdated, Started
<1>2. QED BY <1>1, NextTypes, NextReloadInv, PTL DEF Spec
-----------------------------------------------------------------------------
(* The rest is stable. *)

\* The conjuncts of AtRest that are about the running call.
CallRests(w) ==
  /\ w.pc \notin {"update", "reload"}
  /\ w.pc \in {"hosts", "get", "put", "config", "token"} => w.spec = spec
  /\ w.pc \in {"hosts", "get", "put"} => w.host
  /\ w.pc = "token" => w.copy = config

\* The rest goes on as long as only the call changes, and the call fits it.
LEMMA RestKept ==
  ASSUME AtRest, CallRests(worker'),
         UNCHANGED <<spec, specCache, token, tokenCache, operand, config, configCache,
                     loaded>>
  PROVE  AtRest'
  BY DEF AtRest, CallRests

\* Users and the cluster have nothing to do, and the informers nothing to deliver
\* that is not known.
LEMMA OthersRest ==
  ASSUME TypeInv, AtRest, [Next]_vars, ~Step, edits' = edits, faults' = faults
  PROVE  AtRest' /\ UNCHANGED objects
<1>1. /\ edits \in Int /\ faults \in Int
      /\ \A p \in Pods : loaded[p] # Down
  <2>1. config \in [spec : Specs \cup {NoSpec}, token : Nat]
    BY BoundsAssumption DEF TypeInv, TypeOK, Content, Tokens
  <2>2. config # Down
    BY <2>1, DownAssumption
  <2>3. QED BY <2>2, BoundsAssumption DEF AtRest, TypeInv, TypeOK
<1>2. ~UserStep /\ \A kind : ~Fault(kind)
  BY <1>1 DEF UserStep, Fault
<1>3. ~IssueToken /\ \A p \in Pods : ~PodStarts(p)
  BY <1>1 DEF AtRest, IssueToken, PodStarts
<1>4. CallRests(worker)
  BY DEF AtRest, CallRests
<1>5. CASE EnsureAccount \/ DeliverPods \/ UNCHANGED vars
  BY <1>4, <1>5, RestKept
  DEF EnsureAccount, CreateAccount, DeliverPods, vars, users, objects, caches
<1>6. CASE DeliverSpec \/ DeliverToken
  BY <1>6 DEF DeliverSpec, DeliverToken, AtRest
<1>7. CASE \E o \in Objects : DeliverObject(o)
  BY <1>4, <1>7, RestKept DEF DeliverObject, users, objects, AtRest
<1>8. QED
  BY <1>2, <1>3, <1>5, <1>6, <1>7
  DEF Next, EditSpec, EditConfig, DeleteToken, EditOperand, PodStops, Restart

\* A call that finds everything as it should be leaves it so.
LEMMA StepRests ==
  ASSUME TypeInv, AtRest, Step, faults' = faults
  PROVE  AtRest' /\ UNCHANGED objects
<1>1. /\ faults \in Int
      /\ operand \in [Objects \ {ConfigMap} -> Operand]
      /\ worker.pc # "idle" => worker \in Running
      /\ CallRests(worker)
  BY BoundsAssumption DEF TypeInv, TypeOK, Idle, AtRest, CallRests
<1>2. \A kind : ~Fault(kind)
  BY <1>1 DEF Fault
<1>3. ASSUME UNCHANGED <<users, caches, objects>>, CallRests(worker')
      PROVE  AtRest' /\ UNCHANGED objects
  BY <1>3, RestKept DEF users, caches, objects
<1>4. CASE Reconcile
  <2>1. worker'.pc = "hosts" /\ worker'.spec = spec /\ worker'.host = TRUE
    BY <1>4 DEF Reconcile, AtRest
  <2>2. QED BY <1>3, <1>4, <2>1 DEF Reconcile, Environment, CallRests
<1>5. CASE LookUpHosts \/ GetOperand \/ GetConfigMap
  <2>1. worker \in Running
    BY <1>1, <1>5 DEF LookUpHosts, GetOperand, GetConfigMap, At
  <2>2. \/ worker' = [worker EXCEPT !.pc = "get"] /\ worker.pc = "hosts"
        \/ worker' = [worker EXCEPT !.pc = "put"] /\ worker.pc = "get"
        \/ worker' = [worker EXCEPT !.pc = "token", !.copy = config] /\ worker.pc = "config"
    BY <1>2, <1>5
    DEF LookUpHosts, GetOperand, GetConfigMap, GoTo, At, AtRest
  <2>3. CallRests(worker')
    BY <1>1, <2>1, <2>2 DEF CallRests, Running
  <2>4. QED BY <1>3, <1>5, <2>3 DEF LookUpHosts, GetOperand, GetConfigMap, Environment
<1>6. CASE UpdateOperand \/ UpdateOperandFails
  <2>1. worker \in Running /\ worker.pc = "put" /\ NextOperand
    BY <1>1, <1>6 DEF UpdateOperand, PutOperand, UpdateOperandFails, At
  <2>2. CallRests(worker')
    BY <1>1, <2>1 DEF NextOperand, CallRests, Running
  <2>3. operand' = operand
    <3>1. Object \in DOMAIN operand
      BY <1>1, <2>1, OperandFacts DEF Object, Running, ConfigMap
    <3>2. RenderedOperand = operand[Object]
      BY <1>1, <2>1, <3>1 DEF RenderedOperand, CallRests, AtRest
    <3>3. [operand EXCEPT ![Object] = operand[Object]] = operand
      BY <1>1
    <3>4. QED BY <1>6, <3>2, <3>3
      DEF UpdateOperand, PutOperand, UpdateOperandFails, objects
  <2>4. QED BY <1>3, <1>6, <2>2, <2>3
    DEF UpdateOperand, PutOperand, UpdateOperandFails, Environment, objects
<1>7. CASE CompareConfig
  <2>1. worker \in Running /\ worker.pc = "token" /\ SameConfig
    BY <1>1, <1>7 DEF CompareConfig, At, SameConfig, CallRests, AtRest
  <2>2. worker'.pc = "sync"
    BY <1>7, <2>1 DEF CompareConfig, Running
  <2>3. QED BY <1>3, <1>7, <2>2 DEF CompareConfig, Environment, CallRests
<1>8. CASE UpdateConfig \/ ReloadPod \/ ReloadFails
  BY <1>8 DEF UpdateConfig, WriteConfig, ReloadPod, ReloadFails, At, AtRest
<1>9. CASE ConfigFails \/ Sync
  <2>1. worker'.pc = "idle"
    BY <1>9 DEF ConfigFails, Sync, Return, Idle
  <2>2. QED BY <1>3, <1>9, <2>1 DEF ConfigFails, Sync, Environment, CallRests
<1>10. QED BY <1>4, <1>5, <1>6, <1>7, <1>8, <1>9 DEF Step

\* Once everything is as it should be, only users and failing calls can change it: no
\* interleaving of the informers and the call makes the controller write something
\* else or restart Prometheus, for any number of pods.
THEOREM RestStaysRest == Spec => RestIsStable
<1>1. TypeInv /\ [Next]_vars =>
        [(AtRest /\ edits' = edits /\ faults' = faults) => AtRest' /\ UNCHANGED objects]_vars
  BY OthersRest, StepRests
<1>2. Init => TypeInv
  BY InitTypes DEF Init, TypeInv, TokensBound
<1>3. QED BY <1>1, <1>2, NextTypes, PTL DEF Spec, RestIsStable
=============================================================================
