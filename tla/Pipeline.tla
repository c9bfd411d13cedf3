-------------------------------- MODULE Pipeline --------------------------------
(***************************************************************************)
(* From BlackboxTarget CRs to the scrape configuration: both controllers   *)
(* in one process.  They share BTs and nothing else, and stop together.    *)
(* The BlackboxTarget controller appears as what BlackboxTargets is proved *)
(* to implement, the abstract TargetRegistry, with "published" for BTs;    *)
(* the ApplicationMonitoring controller is ScrapeConfigSync.  changes      *)
(* counts what users declare.                                              *)
(***************************************************************************)
EXTENDS ScrapeConfigSync

VARIABLES
  exists,   \* does BlackboxTarget CR n exist?
  wanted,   \* its targets, NoEntry if there is no CR or it is being deleted
  offered   \* the lists that the controller may still publish for it

Registry == INSTANCE TargetRegistry WITH published <- BTs

declared == <<exists, wanted, offered>>
pipelineVars == <<vars, declared>>

\* Targets and offers are lists, and the other component keeps its types.
PipelineTypeOK ==
  /\ TypeOK
  /\ exists \in [Names -> BOOLEAN]
  /\ wanted \in [Names -> TargetLists \cup {NoEntry}]
  /\ offered \in [Names -> SUBSET TargetLists]

PipelineInit == Init /\ Registry!Init

\* A user creates, edits or deletes a BlackboxTarget.
Declare(n) ==
  /\ changes < MaxChanges
  /\ changes' = changes + 1
  /\ Registry!Want(n) \/ Registry!Leave(n)
  /\ UNCHANGED <<am, copies, fresh, extra, extraCache, secret, thread, watching,
                 events, doubtful, edits, faults>>

\* The controller, out of sight of the other one.
Progress(n) ==
  /\ Registry!Settle(n) \/ Registry!Gone(n)
  /\ UNCHANGED vars

\* The controller writes BTs.
UpdateBTs(n) ==
  /\ Registry!Publish(n) \/ Registry!Retract(n)
  /\ SetTargets(n)
  /\ UNCHANGED changes

PipelineNext ==
  \/ \E n \in Names : Declare(n) \/ Progress(n) \/ UpdateBTs(n)
  \/ Synchronise /\ UNCHANGED declared
  \/ Restart /\ Registry!Lose

\* The BlackboxTarget controller forgets what is stale and publishes what is
\* wanted (RegistryConverges of BlackboxTargets).  "Strong" where the run lets BTs
\* change only between two writes of the other controller.
PipelineFairness ==
  /\ Fairness
  /\ \A n \in Names :
       /\ WF_pipelineVars(Progress(n) /\ offered'[n] = {wanted[n]} \ {NoEntry})
       /\ SF_pipelineVars(UpdateBTs(n) /\ BTs'[n] = wanted[n])

PipelineSpec == PipelineInit /\ [][PipelineNext]_pipelineVars /\ PipelineFairness

--------------------------------------------------------------------------------
(* Properties. *)

\* The secret has each list of targets as often as CRs want it.
HoldsWanted ==
  \A t \in TargetLists :
    Cardinality({i \in DOMAIN secret.targets : secret.targets[i] = t}) =
    Cardinality({n \in Names : wanted[n] = t})

\* From end to end: when users stop declaring targets, Prometheus is left with exactly
\* the declared ones, whichever copies were stale, calls failed or process restarted on
\* the way, where BTs changes only between two writes of the secret and none of those
\* fails or is cut short.
TargetsArrive == <>[]HoldsWanted
================================================================================
