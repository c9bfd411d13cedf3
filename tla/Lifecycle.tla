-------------------------------- MODULE Lifecycle --------------------------------
(***************************************************************************)
(* What the installation promises about an ApplicationMonitoring CR, with  *)
(* no phases, caches, conflicts or resources in sight: a CR is installed   *)
(* once; one that has been installed goes in two steps, marked for         *)
(* deletion first, and is let go only when the data source that the        *)
(* Grafana operator holds has been given up.  This is also the life of the *)
(* CR that SecretWatch assumes.                                            *)
(***************************************************************************)
EXTENDS Integers

VARIABLES
  number,     \* the CR is the how manieth of its name?
  state,      \* "none", "installing", "steady" or "deleting"
  dataSource  \* is there a data source whose deletion nobody has asked for?

life == <<number, state, dataSource>>

Init ==
  /\ number = 0
  /\ state = "none"
  /\ dataSource = FALSE

Create ==
  /\ state = "none"
  /\ state' = "installing"
  /\ number' = number + 1
  /\ UNCHANGED dataSource

\* The CR reaches the steady state.
Installs ==
  /\ state = "installing"
  /\ state' = "steady"
  /\ UNCHANGED <<number, dataSource>>

\* A user deletes a CR that a finalizer holds.
Delete ==
  /\ state \in {"installing", "steady"}
  /\ state' = "deleting"
  /\ UNCHANGED <<number, dataSource>>

\* A user deletes a CR before the installation has set the finalizer.
Vanish ==
  /\ state = "installing"
  /\ state' = "none"
  /\ UNCHANGED <<number, dataSource>>

\* The finalizer is removed.
Cleanup ==
  /\ state = "deleting"
  /\ ~dataSource
  /\ state' = "none"
  /\ UNCHANGED <<number, dataSource>>

\* The data source is created, or its deletion is asked for.
ChangeDataSource ==
  /\ dataSource' \in BOOLEAN
  /\ UNCHANGED <<number, state>>

Next == Create \/ Installs \/ Delete \/ Vanish \/ Cleanup \/ ChangeDataSource

Spec == Init /\ [][Next]_life
================================================================================
