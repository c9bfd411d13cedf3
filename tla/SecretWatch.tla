------------------------------ MODULE SecretWatch ------------------------------
(***************************************************************************)
(* The life of the watch on the user's scrape configuration secret (what   *)
(* its events lead to is in ScrapeConfigSync).  The worker, Reconcile,     *)
(* starts a watch when r.watch is nil and stops it when the CR is deleted; *)
(* each watch has a goroutine ("watcher") that receives its events and     *)
(* sets r.watch to nil at its end, whichever watch r.watch is by then.     *)
(* Nothing orders the accesses to r.watch, which is two words: a type,     *)
(* which alone is compared with nil, and a pointer.                        *)
(*                                                                         *)
(* A panic in either thread ends the process, and it is started again.     *)
(***************************************************************************)
EXTENDS Integers, FiniteSets

CONSTANTS
  Settings,     \* names of the secret together with labels to watch
  Off,          \* no name of a secret
  Ids,          \* identities of watches, free again when the goroutine has ended
  None,         \* r.watch = nil; or no goroutine
  Torn,         \* in r.watch: the type of a watch without a pointer to one
  MaxCRs,       \* bound: CRs created one after the other
  MaxEdits,     \* bound: edits of the CR's settings
  MaxFaults     \* bound: failed calls, Error events and restarts

ASSUME OffAssumption == Off \notin Settings
ASSUME IdsAssumption == IsFiniteSet(Ids) /\ Ids \subseteq Nat /\ {None, Torn} \cap Ids = {}
ASSUME TornAssumption == None # Torn
ASSUME BoundsAssumption == MaxCRs \in Nat /\ MaxEdits \in Nat /\ MaxFaults \in Nat

VARIABLES
  cr,       \* the ApplicationMonitoring CR: the how manieth it is, state, setting
  seen,     \* the CR as the operator's informer last saw it
  first,    \* the CR that the process saw first
  watch,    \* r.watch
  watcher,  \* of each watch: the CR and setting its goroutine has captured
  open,     \* the watches whose channel is open
  worker,   \* the running Reconcile call
  edits, faults

process == <<first, watch, watcher, open, worker>>
vars == <<cr, seen, process, edits, faults>>

CR == [number : 0..MaxCRs, state : {"none", "installing", "steady", "deleting"},
       setting : Settings \cup {Off}]

Watcher == [number : 0..MaxCRs, setting : Settings]

ASSUME NoneAssumption == None \notin Watcher

Idle == [pc |-> "idle"]

\* The CR that the call works on and, once there is one, the watch.
Running == [pc : {"store", "stop", "clear", "cleanup"}, number : 0..MaxCRs,
            watch : Ids \cup {None, Torn}]

live == {id \in Ids : watcher[id] # None}

\* Types; only watches with a goroutine have an open channel.
TypeOK ==
  /\ cr \in CR /\ seen \in CR
  /\ first \in 0..MaxCRs
  /\ watch \in Ids \cup {None, Torn}
  /\ watcher \in [Ids -> Watcher \cup {None}]
  /\ open \subseteq live
  /\ worker \in Running \cup {Idle}
  /\ edits \in 0..MaxEdits
  /\ faults \in 0..MaxFaults

Init ==
  /\ cr = [number |-> 0, state |-> "none", setting |-> Off]
  /\ seen = cr
  /\ first = 0
  /\ watch = None
  /\ watcher = [id \in Ids |-> None]
  /\ open = {}
  /\ worker = Idle
  /\ edits = 0
  /\ faults = 0

--------------------------------------------------------------------------------
(* Users, the informer and the process. *)

Create ==
  /\ cr.state = "none"
  /\ cr.number < MaxCRs
  /\ \E s \in Settings \cup {Off} :
       cr' = [number |-> cr.number + 1, state |-> "installing", setting |-> s]
  /\ UNCHANGED <<seen, process, edits, faults>>

Edit ==
  /\ cr.state \in {"installing", "steady"}
  /\ edits < MaxEdits
  /\ edits' = edits + 1
  /\ \E s \in (Settings \cup {Off}) \ {cr.setting} : cr' = [cr EXCEPT !.setting = s]
  /\ UNCHANGED <<seen, process, faults>>

\* The finalizer, which the last phases of the installation set, keeps the CR.
Delete ==
  /\ \/ cr.state = "installing" /\ cr' = [cr EXCEPT !.state = "none"]
     \/ cr.state \in {"installing", "steady"} /\ cr' = [cr EXCEPT !.state = "deleting"]
  /\ UNCHANGED <<seen, process, edits, faults>>

Deliver ==
  /\ seen # cr
  /\ seen' = cr
  /\ UNCHANGED <<cr, process, edits, faults>>

Fault == faults < MaxFaults /\ faults' = faults + 1

\* The process ends and is started again.
Restarts ==
  /\ seen' = cr
  /\ first' = cr.number
  /\ watch' = None
  /\ watcher' = [id \in Ids |-> None]
  /\ open' = {}
  /\ worker' = Idle
  /\ UNCHANGED <<cr, edits>>

Crash == Restarts /\ Fault

--------------------------------------------------------------------------------
(* The goroutines. *)

\* The API server, or the connection, ends the stream of events.
StreamEnds(id) ==
  /\ id \in open
  /\ open' = open \ {id}
  /\ UNCHANGED <<cr, seen, first, watch, watcher, worker, edits, faults>>

\* Every event is taken for a secret before its type is looked at: an Error event,
\* which has a status, makes the goroutine panic.
ErrorEvent(id) ==
  /\ id \in open
  /\ Crash

\* The goroutine ends: r.watch becomes w.
Ends(id, w) ==
  /\ watcher' = [watcher EXCEPT ![id] = None]
  /\ watch' = w
  /\ UNCHANGED <<cr, seen, first, open, worker, edits, faults>>

\* Mutants: the goroutine leaves r.watch alone; it receives only one event.
WatchKept(id) == id \in live \ open /\ Ends(id, watch)
WatchOnce(id) == id \in live /\ Ends(id, None)

\* The channel is closed: r.watch becomes nil, and the goroutine ends.
WatchEnds(id) == id \in live \ open /\ Ends(id, None)

--------------------------------------------------------------------------------
(* The worker. *)

At(pc) == worker.pc = pc

GoTo(pc) == worker' = [worker EXCEPT !.pc = pc]

Call(pc, w) == worker' = [pc |-> pc, number |-> seen.number, watch |-> w]

\* The phases of Install, up to PhaseReconcileConfig.
Installs ==
  /\ worker = Idle
  /\ seen.state = "installing"
  /\ seen = cr
  /\ cr' = [cr EXCEPT !.state = "steady"]
  /\ UNCHANGED <<seen, process, edits, faults>>

\* The worker starts a watch and its goroutine; it has yet to store it in r.watch.
StartWatch ==
  /\ worker = Idle
  /\ seen.state = "steady"
  /\ seen.setting # Off
  /\ \E id \in Ids \ live :
       /\ \A other \in Ids \ live : id <= other
       /\ watcher' = [watcher EXCEPT ![id] = [number |-> seen.number,
                                              setting |-> seen.setting]]
       /\ open' = open \cup {id}
       /\ Call("store", id)
  /\ UNCHANGED <<cr, seen, first, watch, edits, faults>>

\* Mutant: a watch is set up by one of the phases of the installation.
WatchNewCR == watch = None /\ seen.number > first /\ StartWatch

\* Mutant: the check of r.watch is missing.
WatchAgain == StartWatch

\* tryWatchAdditionalScrapeConfigs, when startSecretWatch succeeds.
TryWatch == watch = None /\ StartWatch

\* When it fails, there is nothing but a log; the next call tries again.
TryWatchFails ==
  /\ worker = Idle
  /\ seen.state = "steady"
  /\ seen.setting # Off
  /\ watch = None
  /\ Fault
  /\ UNCHANGED <<cr, seen, process, edits>>

\* r.watch = watch.  The other calls of this phase do not concern the watch.
StoreWatch ==
  /\ At("store")
  /\ watch' = worker.watch
  /\ worker' = Idle
  /\ UNCHANGED <<cr, seen, first, watcher, open, edits, faults>>

\* A goroutine stores nil at the same time: the type is the worker's, the pointer its.
StoreTorn(id) ==
  /\ At("store")
  /\ id \in live \ open
  /\ watch' = Torn
  /\ watcher' = [watcher EXCEPT ![id] = None]
  /\ worker' = Idle
  /\ UNCHANGED <<cr, seen, first, open, edits, faults>>

\* The pc after the check of r.watch, when the CR is being deleted.
Deleted(pc) ==
  /\ worker = Idle
  /\ seen.state = "deleting"
  /\ Call(pc, watch)
  /\ UNCHANGED <<cr, seen, first, watch, watcher, open, edits, faults>>

\* Mutant: the watch is stopped without a check.
StopAnyWatch == Deleted("stop")

CheckWatch == Deleted(IF watch = None THEN "cleanup" ELSE "stop")

\* Stop, of the watch that was compared with nil if the build reads r.watch once.
StopWatch ==
  /\ At("stop")
  /\ worker.watch \in Ids
  /\ open' = open \ {worker.watch}
  /\ GoTo("clear")
  /\ UNCHANGED <<cr, seen, first, watch, watcher, edits, faults>>

\* If it reads r.watch again, a goroutine may have stored nil meanwhile.
StopPanics ==
  /\ At("stop")
  /\ {worker.watch, watch} \cap {None, Torn} # {}
  /\ Restarts
  /\ UNCHANGED faults

ClearWatch ==
  /\ At("clear")
  /\ watch' = None
  /\ GoTo("cleanup")
  /\ UNCHANGED <<cr, seen, first, watcher, open, edits, faults>>

\* The CR that the call works on is still there.
Current == cr.number = worker.number /\ cr.state = "deleting"

\* cleanup removes the finalizer.
Cleanup ==
  /\ At("cleanup")
  /\ Current
  /\ cr' = [cr EXCEPT !.state = "none"]
  /\ worker' = Idle
  /\ UNCHANGED <<seen, first, watch, watcher, open, edits, faults>>

CleanupFails ==
  /\ At("cleanup")
  /\ IF Current THEN Fault ELSE UNCHANGED faults
  /\ worker' = Idle
  /\ UNCHANGED <<cr, seen, first, watch, watcher, open, edits>>

Step ==
  \/ Installs
  \/ TryWatch \/ TryWatchFails
  \/ StoreWatch \/ \E id \in Ids : StoreTorn(id)
  \/ CheckWatch \/ StopWatch \/ StopPanics \/ ClearWatch
  \/ Cleanup \/ CleanupFails

Next ==
  \/ Create \/ Edit \/ Delete
  \/ Deliver
  \/ Crash
  \/ \E id \in Ids : StreamEnds(id) \/ ErrorEvent(id) \/ WatchEnds(id)
  \/ Step

\* The cache catches up, the worker and the goroutines run, and the API server ends
\* every watch after some time.
Fairness ==
  /\ WF_vars(Deliver)
  /\ WF_vars(Step)
  /\ \A id \in Ids : WF_vars(WatchEnds(id)) /\ WF_vars(StreamEnds(id))

Spec == Init /\ [][Next]_vars /\ Fairness

--------------------------------------------------------------------------------
(* Properties. *)

\* r.watch is not nil, but there is no goroutine that would ever set it to nil.
Dead == watch \notin {None} \cup live

\* Goroutines whose watch was lost, because a late goroutine set r.watch to nil, do
\* not pile up: there are never more than CRs that the process has seen.
WatchersBounded == Cardinality(live) <= seen.number - first + 1

\* The watch dies for good only when its stream ends before it is stored, or while
\* it is: no late goroutine, deletion or crash brings this about.
DeadOnlyByEarlyEnd ==
  [][~Dead /\ Dead' => At("store") /\ (worker.watch \notin live \/ watch' = Torn)]_vars

\* Unless it is dead, the watch is renewed: again and again there is a goroutine that
\* receives the events for the CR as it is now, after every edit and restart.
WatchRenewed ==
  []<>(\/ cr.state # "steady" \/ cr.setting = Off \/ Dead
       \/ \E id \in open : watcher[id] = [number |-> cr.number, setting |-> cr.setting])

\* A panic while the watch is stopped delays the deletion of the CR; it cannot block it.
DeletionNotBlocked == cr.state = "deleting" ~> cr.state # "deleting"
================================================================================
