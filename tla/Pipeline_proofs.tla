---------------------------- MODULE Pipeline_proofs ----------------------------
(***************************************************************************)
(* The two controllers together: what is proved of the synchronisation     *)
(* alone, where BTs changes at will, holds where it follows declarations.  *)
(***************************************************************************)
EXTENDS Pipeline, ScrapeConfigSync_proofs

\* Offers are sets of lists.
RegistryTypes ==
  /\ exists \in [Names -> BOOLEAN]
  /\ wanted \in [Names -> TargetLists \cup {NoEntry}]
  /\ offered \in [Names -> SUBSET TargetLists]

PipelineInv == CopyInv /\ RegistryTypes

\* In the beginning nothing is declared.
LEMMA InitPipelineInv == PipelineInit => PipelineInv
  BY InitCopyInv DEF PipelineInit, PipelineInv, RegistryTypes, Registry!Init

\* What is on offer shrinks, but for a list that is declared.
LEMMA DeclareTypes ==
  ASSUME RegistryTypes, NEW n \in Names, Registry!Want(n) \/ Registry!Leave(n)
  PROVE  RegistryTypes'
<1>1. CASE Registry!Want(n)
  BY <1>1 DEF Registry!Want, Registry!Offer, RegistryTypes
<1>2. CASE Registry!Leave(n)
  BY <1>2 DEF Registry!Leave, Registry!Offer, RegistryTypes
<1>3. QED BY <1>1, <1>2

\* The controller offers nothing new.
LEMMA ProgressTypes ==
  ASSUME RegistryTypes, NEW n \in Names,
         Registry!Settle(n) \/ Registry!Gone(n) \/ Registry!Publish(n) \/ Registry!Retract(n)
  PROVE  RegistryTypes'
<1>1. CASE Registry!Settle(n)
  BY <1>1 DEF Registry!Settle, Registry!Offer, RegistryTypes
<1>2. CASE Registry!Gone(n)
  BY <1>2 DEF Registry!Gone, RegistryTypes
<1>3. CASE Registry!Publish(n)
  BY <1>3 DEF Registry!Publish, Registry!Offer, RegistryTypes
<1>4. CASE Registry!Retract(n)
  BY <1>4 DEF Registry!Retract, RegistryTypes
<1>5. QED BY <1>1, <1>2, <1>3, <1>4

\* Neither controller leaves the types of the other.
LEMMA NextPipelineInv == PipelineInv /\ [PipelineNext]_pipelineVars => PipelineInv'
<1> SUFFICES ASSUME PipelineInv, [PipelineNext]_pipelineVars PROVE PipelineInv'
  OBVIOUS
<1> USE DEF PipelineInv
<1>1. ASSUME NEW n \in Names, Declare(n) PROVE PipelineInv'
  <2>1. changes' \in 0..MaxChanges
    BY <1>1, BoundsAssumption DEF Declare, CopyInv, TypeOK
  <2>2. UNCHANGED BTs
    BY <1>1 DEF Declare, Registry!Want, Registry!Leave
  <2>3. QED BY <1>1, <2>1, <2>2, TargetsCopyInv, DeclareTypes DEF Declare
<1>2. ASSUME NEW n \in Names, Progress(n) PROVE PipelineInv'
  BY <1>2, NextCopyInv, ProgressTypes DEF Progress
<1>3. ASSUME NEW n \in Names, UpdateBTs(n) PROVE PipelineInv'
  <2>1. changes' \in 0..MaxChanges
    BY <1>3 DEF UpdateBTs, CopyInv, TypeOK
  <2>2. QED BY <1>3, <2>1, TargetsCopyInv, ProgressTypes DEF UpdateBTs
<1>4. CASE Synchronise /\ UNCHANGED declared
  BY <1>4, NextCopyInv DEF Next, declared, RegistryTypes
<1>5. CASE Restart /\ Registry!Lose
  BY <1>5, NextCopyInv DEF Next, Registry!Lose, RegistryTypes
<1>6. CASE UNCHANGED pipelineVars
  BY <1>6, NextCopyInv DEF pipelineVars, declared, RegistryTypes
<1>7. QED BY <1>1, <1>2, <1>3, <1>4, <1>5, <1>6 DEF PipelineNext

\* The composition keeps the types of both controllers.
THEOREM PipelineTypeCorrect == PipelineSpec => []PipelineTypeOK
<1>1. PipelineInv => PipelineTypeOK
  BY DEF PipelineInv, CopyInv, RegistryTypes, PipelineTypeOK
<1>2. QED BY <1>1, InitPipelineInv, NextPipelineInv, PTL DEF PipelineSpec

\* However BTs follows what users declare, in the middle of whichever call of the other
\* controller, the hash hides a stale secret only after a call that was disturbed.
THEOREM PipelineHashIsHonest == PipelineSpec => []HashHonest
<1>1. HonestInv => HashHonest
  BY DEF HonestInv, JobsCurrent
<1>2. PipelineInit => HonestInv
  BY InitHonestInv DEF PipelineInit
<1>3. PipelineInv /\ PipelineInv' /\ HonestInv /\ [PipelineNext]_pipelineVars => HonestInv'
  <2> SUFFICES ASSUME PipelineInv', HonestInv, [PipelineNext]_pipelineVars
      PROVE  HonestInv'
    OBVIOUS
  <2>1. CopyInv' /\ JobsCurrent
    BY DEF PipelineInv, HonestInv
  <2>2. ASSUME NEW n \in Names, Declare(n) PROVE JobsCurrent'
    <3>1. UNCHANGED <<BTs, am, secret, thread, doubtful>>
      BY <2>2 DEF Declare, Registry!Want, Registry!Leave
    <3>2. QED BY <2>1, <3>1, QuietStep DEF InProgress, Writing
  <2>3. ASSUME NEW n \in Names, UpdateBTs(n) PROVE JobsCurrent'
    BY <2>1, <2>3, TargetsJobsCurrent DEF UpdateBTs
  <2>4. CASE Synchronise \/ Restart \/ UNCHANGED vars
    BY <2>4, NextHonestInv DEF Next
  <2>5. QED
    BY <2>1, <2>2, <2>3, <2>4
    DEF HonestInv, PipelineNext, Progress, pipelineVars
<1>4. QED BY <1>1, <1>2, <1>3, InitPipelineInv, NextPipelineInv, PTL DEF PipelineSpec

\* The CR and the secret are not touched either by what goes on between users and the
\* other controller, as long as BTs is left as it is.
THEOREM PipelineRestStaysRest ==
  ASSUME "race" \notin Disturbances
  PROVE  PipelineSpec => RestIsStable
<1>1. PipelineInv /\ [PipelineNext]_pipelineVars =>
        [(AtRest /\ BTs' = BTs /\ edits' = edits) => AtRest' /\ UNCHANGED <<am, secret>>]_vars
  <2> SUFFICES ASSUME CopyInv, [PipelineNext]_pipelineVars,
                      AtRest, BTs' = BTs, edits' = edits
      PROVE  AtRest' /\ UNCHANGED <<am, secret>>
    BY DEF PipelineInv
  <2>1. ASSUME UNCHANGED <<am, copies, fresh, extra, extraCache, secret, thread>>
        PROVE  AtRest' /\ UNCHANGED <<am, secret>>
    BY <2>1, RestKept DEF AtRest
  <2>2. ASSUME NEW n \in Names, Declare(n) \/ Progress(n) \/ UpdateBTs(n)
        PROVE  AtRest' /\ UNCHANGED <<am, secret>>
    BY <2>1, <2>2 DEF Declare, Progress, UpdateBTs, SetTargets, vars
  <2>3. QED BY <2>2, NextRests DEF PipelineNext, pipelineVars
<1>2. QED BY <1>1, InitPipelineInv, NextPipelineInv, PTL DEF PipelineSpec, RestIsStable
=============================================================================
