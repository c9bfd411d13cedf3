---------------------------- MODULE ScrapeConfigSync ----------------------------
(***************************************************************************)
(* How the ApplicationMonitoring controller, in PhaseReconcileConfig,      *)
(* keeps the additional-scrape-configs secret in step with two sources:    *)
(* BTs, the in-memory targets of the BlackboxTarget controller, and a      *)
(* secret of the user's that is appended to it.  Two threads run           *)
(* createOrUpdateAdditionalScrapeConfig:                                   *)
(*   - the "worker": Reconcile, every 30 seconds, which skips it while the *)
(*     hash stored in the CR equals the hash of the current targets;       *)
(*   - the "watcher": the goroutine started by                             *)
(*     watchAdditionalScrapeConfigs, on every event of the user's secret.  *)
(* Both write the hash to the CR first and the secret second, and each     *)
(* works from a copy of the CR: the worker from its "own" deep copy, the   *)
(* watcher for its whole life from the copy "captured" when it started,    *)
(* which the call that started it goes on using as well.                   *)
(*                                                                         *)
(* A hash is represented by the text it is the md5 of, and the text of a   *)
(* list of targets by the sequence of the lists of the CRs.  fresh is the  *)
(* set of copies at the CR's current resourceVersion (BlackboxTargets).    *)
(***************************************************************************)
EXTENDS Integers, Sequences, FiniteSets, SequencesExt

CONSTANTS
  Names,        \* names of BlackboxTarget CRs
  TargetLists,  \* non-empty values of spec.blackboxTargets
  NoEntry,      \* no entry in BTs, or an empty one
  Specs,        \* values of the ApplicationMonitoring CR's spec, with a retention
  Extras,       \* contents of the user's scrape configuration secret
  NoExtra,      \* the user's secret does not exist
  NoCopy,       \* a copy that is not in memory
  WatchOn,      \* is spec.additionalScrapeConfigSecretName set?
  Disturbances, \* what goes wrong in the environment, see below
  MaxChanges,   \* bound: changes of BTs
  MaxEdits,     \* bound: edits of the spec and of the user's secret
  MaxFaults     \* bound: failed calls and restarts

ASSUME NamesAssumption == IsFiniteSet(Names)
ASSUME NoEntryAssumption == NoEntry \notin TargetLists
ASSUME WatchOnAssumption == WatchOn \in BOOLEAN
ASSUME BoundsAssumption ==
  MaxChanges \in Nat /\ MaxEdits \in Nat /\ MaxFaults \in Nat
ASSUME DisturbancesAssumption ==
  Disturbances \subseteq
    {"overlap",      \* BTs changes while a thread is between render and write
     "race",         \* a write of BTs overlaps an iteration over it
     "callError",    \* a call other than the write of the secret fails
     "writeError",   \* the write of the secret fails
     "restart",      \* the process restarts while no thread is about to write
     "restartEarly"} \* the process restarts before a due write of the secret

Threads == {"worker", "watcher"}
Copies  == {"cache", "own", "captured"}

VARIABLES
  BTs,         \* common.BlackboxTargetsConfig.BTs
  am,          \* the ApplicationMonitoring CR in the API server: [spec, hash]
  copies,      \* copies of the CR in the process
  fresh,       \* the copies at its current resourceVersion
  extra,       \* the user's secret in the API server
  extraCache,  \* the user's secret in the operator's cache
  secret,      \* the additional-scrape-configs secret: [targets, extra]
  thread,      \* where each thread is, its copy of the CR, what it will write
  watching,    \* r.watch is set
  events,      \* events of the user's secret not yet received by the watcher
  doubtful,    \* history: the threads whose call has been disturbed, and "secret" if the
               \* last call to reach its end was, or was cut short
  changes, edits, faults

vars == <<BTs, am, copies, fresh, extra, extraCache, secret, thread, watching,
          events, doubtful, changes, edits, faults>>

Contents == [targets : Seq(TargetLists), extra : Extras \cup {NoExtra}]

AM == [spec : Specs, hash : Seq(TargetLists)]

ASSUME NoCopyAssumption == NoCopy \notin AM

NoContents == [targets |-> << >>, extra |-> NoExtra]
IdleThread == [pc |-> "idle", cr |-> "own", job |-> NoContents]

Thread ==
  [pc : {"idle", "tryWatch", "sync", "render", "save", "write"},
   cr : {"own", "captured"}, job : Contents]

\* The types of the CR, of its copies, of both secrets and of the two threads; at most
\* one event per edit and one for a new watch are ever waiting.
TypeOK ==
  /\ BTs \in [Names -> TargetLists \cup {NoEntry}]
  /\ am \in AM
  /\ copies \in [Copies -> AM \cup {NoCopy}]
  /\ fresh \subseteq Copies
  /\ extra \in Extras \cup {NoExtra}
  /\ extraCache \in Extras \cup {NoExtra}
  /\ secret \in Contents
  /\ thread \in [Threads -> Thread]
  /\ watching \in BOOLEAN
  /\ events \in 0..(MaxEdits + 1)
  /\ doubtful \subseteq Threads \cup {"secret"}
  /\ changes \in 0..MaxChanges
  /\ edits \in 0..MaxEdits
  /\ faults \in 0..MaxFaults

\* PhaseReconcileConfig has just been reached and there are no targets.
Init ==
  /\ BTs = [n \in Names |-> NoEntry]
  /\ am \in [spec : Specs, hash : {<< >>}]
  /\ copies = [c \in Copies |-> IF c = "cache" THEN am ELSE NoCopy]
  /\ fresh = {"cache"}
  /\ extra \in IF WatchOn THEN Extras \cup {NoExtra} ELSE {NoExtra}
  /\ extraCache = extra
  /\ secret = [targets |-> << >>, extra |-> extra]
  /\ thread = [p \in Threads |-> IdleThread]
  /\ watching = FALSE
  /\ events = 0
  /\ doubtful = {}
  /\ changes = 0
  /\ edits = 0
  /\ faults = 0

\* The results of common.Flatten() without a race: Go iterates over a map in any order.
Flattenings ==
  LET published == {n \in Names : BTs[n] # NoEntry}
  IN  {[i \in DOMAIN order |-> BTs[order[i]]] : order \in SetToSeqs(published)}

\* BTs is a plain map.  An iteration that a write overlaps ends the process (Restart)
\* or, if neither notices, may miss an entry, or find one twice or half written.
Mixtures == UNION {[1..k -> TargetLists] : k \in 0..Cardinality(Names)}

\* The same targets, perhaps in another order.
SameTargets(f, g) ==
  \A t \in TargetLists :
    Cardinality({i \in DOMAIN f : f[i] = t}) = Cardinality({i \in DOMAIN g : g[i] = t})

--------------------------------------------------------------------------------
(* The environment. *)

\* The threads that have rendered a text and still save or write.
InProgress == {p \in Threads : thread[p].pc \in {"save", "write"}}
Writing    == {p \in Threads : thread[p].pc = "write"}

\* The BlackboxTarget controller sets or drops an entry.
SetTargets(n) ==
  /\ InProgress # {} => "overlap" \in Disturbances
  /\ \E t \in TargetLists \cup {NoEntry} : BTs' = [BTs EXCEPT ![n] = t]
  /\ doubtful' = doubtful \cup InProgress
  /\ UNCHANGED <<am, copies, fresh, extra, extraCache, secret, thread, watching,
                 events, edits, faults>>

ChangeTargets(n) ==
  /\ changes < MaxChanges
  /\ SetTargets(n)
  /\ BTs' # BTs
  /\ changes' = changes + 1

EditSpec ==
  /\ edits < MaxEdits
  /\ \E s \in Specs \ {am.spec} : am' = [am EXCEPT !.spec = s]
  /\ fresh' = {}
  /\ edits' = edits + 1
  /\ UNCHANGED <<BTs, copies, extra, extraCache, secret, thread, watching, events,
                 doubtful, changes, faults>>

\* The user creates, changes or deletes the secret of scrape configurations.
EditExtra ==
  /\ WatchOn
  /\ edits < MaxEdits
  /\ \E e \in (Extras \cup {NoExtra}) \ {extra} : extra' = e
  /\ events' = IF watching THEN events + 1 ELSE events
  /\ edits' = edits + 1
  /\ UNCHANGED <<BTs, am, copies, fresh, extraCache, secret, thread, watching,
                 doubtful, changes, faults>>

\* The informers bring their caches up to date.
DeliverCR ==
  /\ "cache" \notin fresh
  /\ copies' = [copies EXCEPT !["cache"] = am]
  /\ fresh' = fresh \cup {"cache"}
  /\ UNCHANGED <<BTs, am, extra, extraCache, secret, thread, watching, events,
                 doubtful, changes, edits, faults>>

DeliverExtra ==
  /\ extraCache # extra
  /\ extraCache' = extra
  /\ UNCHANGED <<BTs, am, copies, fresh, extra, secret, thread, watching, events,
                 doubtful, changes, edits, faults>>

\* The API server closes the watch: the goroutine leaves its loop and clears
\* r.watch; events it has not received are lost.
WatchEnds ==
  /\ watching
  /\ thread["watcher"].pc = "idle"
  /\ watching' = FALSE
  /\ events' = 0
  /\ UNCHANGED <<BTs, am, copies, fresh, extra, extraCache, secret, thread, doubtful,
                 changes, edits, faults>>

Fault(kind) ==
  /\ kind \in Disturbances
  /\ faults < MaxFaults
  /\ faults' = faults + 1

\* What common.Flatten() may return, with or without a race.
Flattened(race) == IF race THEN Mixtures ELSE Flattenings

Flatten(race) == IF race THEN Fault("race") ELSE UNCHANGED faults

\* The process dies and starts again with nothing in memory and fresh caches.
Restart ==
  /\ Fault(IF Writing # {} THEN "restartEarly" ELSE "restart")
  /\ doubtful' = (doubtful \ Threads) \cup (IF Writing # {} THEN {"secret"} ELSE {})
  /\ BTs' = [n \in Names |-> NoEntry]
  /\ copies' = [c \in Copies |-> IF c = "cache" THEN am ELSE NoCopy]
  /\ fresh' = {"cache"}
  /\ extraCache' = extra
  /\ thread' = [p \in Threads |-> IdleThread]
  /\ watching' = FALSE
  /\ events' = 0
  /\ UNCHANGED <<am, extra, secret, changes, edits>>

--------------------------------------------------------------------------------
(* The two threads. *)

At(p, pc) == thread[p].pc = pc

GoTo(p, pc) == thread' = [thread EXCEPT ![p].pc = pc]

\* Thread p is done; the worker's deep copy of the CR is garbage.
Return(p) == thread' = [thread EXCEPT ![p] = IdleThread]

Dropped(p, c) == IF p = "worker" THEN [c EXCEPT !["own"] = NoCopy] ELSE c
StillFresh(p) == IF p = "worker" THEN fresh \ {"own"} ELSE fresh

Environment == <<BTs, extra, extraCache, changes, edits>>

\* Reconcile reads the CR from the cache and takes a deep copy.
Reconcile ==
  /\ At("worker", "idle")
  /\ copies' = [copies EXCEPT !["own"] = copies["cache"]]
  /\ fresh' = IF "cache" \in fresh THEN fresh \cup {"own"} ELSE fresh
  /\ GoTo("worker", "tryWatch")
  /\ UNCHANGED <<Environment, am, secret, watching, events, doubtful, faults>>

\* tryWatchAdditionalScrapeConfigs: already watching, nothing to watch, or the
\* watch cannot be opened, which is logged.
KeepWatch ==
  /\ At("worker", "tryWatch")
  /\ IF watching \/ ~WatchOn THEN UNCHANGED faults ELSE Fault("callError")
  /\ GoTo("worker", "sync")
  /\ UNCHANGED <<Environment, am, copies, fresh, secret, watching, events, doubtful>>

\* The goroutine captures the copy the worker goes on with.
OpenWatch(initial) ==
  /\ At("worker", "tryWatch")
  /\ WatchOn
  /\ watching' = TRUE
  /\ events' = initial
  /\ copies' = [copies EXCEPT !["captured"] = copies["own"], !["own"] = NoCopy]
  /\ fresh' = (fresh \ {"own", "captured"}) \cup
              {c \in {"captured"} : "own" \in fresh}
  /\ thread' = [thread EXCEPT !["worker"].pc = "sync", !["worker"].cr = "captured"]
  /\ UNCHANGED <<Environment, am, secret, doubtful, faults>>

\* Mutant: every Reconcile opens another watch.
StartWatchAgain == OpenWatch(events + (IF extra = NoExtra THEN 0 ELSE 1))

\* Mutant: a watch from the current resourceVersion, with no event to begin with.
StartWatchFromNow == ~watching /\ OpenWatch(0)

\* A new watch starts with an event for the secret if it exists.
StartWatch == ~watching /\ OpenWatch(IF extra = NoExtra THEN 0 ELSE 1)

\* Anything before syncBlackboxTargets fails and Reconcile returns an error.
ExporterConfigFails ==
  /\ At("worker", "sync")
  /\ Fault("callError")
  /\ Return("worker")
  /\ copies' = Dropped("worker", copies)
  /\ fresh' = StillFresh("worker")
  /\ UNCHANGED <<Environment, am, secret, watching, events, doubtful>>

\* syncBlackboxTargets compares the hash in its copy with the hash of BTs.
TargetsUnchanged ==
  /\ At("worker", "sync")
  /\ \E race \in BOOLEAN :
       Flatten(race) /\ copies[thread["worker"].cr].hash \in Flattened(race)
  /\ Return("worker")
  /\ copies' = Dropped("worker", copies)
  /\ fresh' = StillFresh("worker")
  /\ UNCHANGED <<Environment, am, secret, watching, events, doubtful>>

TargetsChanged ==
  /\ At("worker", "sync")
  /\ \E race \in BOOLEAN :
       Flatten(race) /\ Flattened(race) # {copies[thread["worker"].cr].hash}
  /\ GoTo("worker", "render")
  /\ UNCHANGED <<Environment, am, copies, fresh, secret, watching, events, doubtful>>

ReceiveEvent ==
  /\ At("watcher", "idle")
  /\ watching
  /\ events > 0
  /\ events' = events - 1
  /\ thread' = [thread EXCEPT !["watcher"].pc = "render", !["watcher"].cr = "captured"]
  /\ UNCHANGED <<Environment, am, copies, fresh, secret, watching, doubtful, faults>>

(* createOrUpdateAdditionalScrapeConfig, by thread p. *)

\* The job is rendered from BTs, the user's configuration read from the cache.
Render(p) ==
  /\ At(p, "render")
  /\ \E race \in BOOLEAN : \E f \in Flattened(race) :
       /\ Flatten(race)
       /\ doubtful' = IF race THEN doubtful \cup {p} ELSE doubtful \ {p}
       /\ thread' = [thread EXCEPT
            ![p].pc = "save",
            ![p].job = [targets |-> f,
                        extra |-> IF WatchOn THEN extraCache ELSE NoExtra]]
  /\ UNCHANGED <<Environment, am, copies, fresh, secret, watching, events>>

\* Mutant: the watcher resets the hash, so that Reconcile writes the secret as well.
HashedOrReset(p, f) ==
  [copies[thread[p].cr] EXCEPT !.hash = IF p = "watcher" THEN << >> ELSE f]

\* The copy of the CR with the hash of BTs, flattened a second time.
Hashed(p, f) == [copies[thread[p].cr] EXCEPT !.hash = f]

\* The CR is updated from the copy of thread p.
Save(p) ==
  /\ At(p, "save")
  /\ \E race \in BOOLEAN : \E f \in Flattened(race) :
       /\ Flatten(race)
       /\ am' = Hashed(p, f)
       /\ doubtful' = IF race THEN doubtful \cup {p} \cup Writing ELSE doubtful
       /\ copies' = [copies EXCEPT ![thread[p].cr] = Hashed(p, f)]
       /\ fresh' = IF Hashed(p, f) = am THEN fresh ELSE {thread[p].cr}
  /\ GoTo(p, "write")
  /\ UNCHANGED <<Environment, secret, watching, events>>

\* Mutant: an update of the CR without its resourceVersion.
SaveUnlocked(p) == Save(p)

\* A CR that does not differ keeps its resourceVersion.
SaveSucceeds(p) == thread[p].cr \in fresh /\ Save(p)

\* A conflict, or a failed call: thread p keeps the new hash in a copy.
Refuse(p, copy) ==
  /\ At(p, "save")
  /\ \E race \in BOOLEAN : \E f \in Flattened(race) :
       /\ IF thread[p].cr \in fresh THEN ~race /\ Fault("callError") ELSE Flatten(race)
       /\ copies' = Dropped(p, [copies EXCEPT ![copy] = Hashed(p, f)])
  /\ fresh' = StillFresh(p)
  /\ Return(p)
  /\ doubtful' = doubtful \ {p}
  /\ UNCHANGED <<Environment, am, secret, watching, events>>

\* Mutant: no deep copy is taken, and the hash is set in the cache's object.
SaveFailsShared(p) == Refuse(p, "cache")

\* Mutant: the result of the CR's update is not looked at.
SaveUnchecked(p) ==
  /\ At(p, "save")
  /\ thread[p].cr \notin fresh
  /\ GoTo(p, "write")
  /\ UNCHANGED <<Environment, am, copies, fresh, secret, watching, events, doubtful, faults>>

SaveFails(p) == Refuse(p, thread[p].cr)

\* The call is over, the secret is s, and ok says whether the write was made.
Finish(p, s, ok) ==
  /\ At(p, "write")
  /\ secret' = s
  /\ doubtful' = (doubtful \ {p, "secret"}) \cup
                 (IF ok /\ p \notin doubtful THEN {} ELSE {"secret"})
  /\ Return(p)
  /\ copies' = Dropped(p, copies)
  /\ fresh' = StillFresh(p)
  /\ UNCHANGED <<Environment, am, watching, events>>

\* Mutant: the secret is left alone when there is nothing to append.
WriteAppended(p) ==
  /\ Finish(p, IF thread[p].job.extra = NoExtra THEN secret ELSE thread[p].job, TRUE)
  /\ UNCHANGED faults

\* The secret is updated with no resourceVersion: the last write wins.
Write(p) == Finish(p, thread[p].job, TRUE) /\ UNCHANGED faults

WriteFails(p) == Fault("writeError") /\ Finish(p, secret, FALSE)

WorkerStep ==
  \/ Reconcile
  \/ KeepWatch \/ StartWatch
  \/ ExporterConfigFails \/ TargetsUnchanged \/ TargetsChanged

CreateOrUpdate(p) ==
  \/ Render(p)
  \/ SaveSucceeds(p) \/ SaveFails(p)
  \/ Write(p) \/ WriteFails(p)

Synchronise ==
  \/ EditSpec \/ EditExtra
  \/ DeliverCR \/ DeliverExtra
  \/ WatchEnds
  \/ WorkerStep
  \/ ReceiveEvent
  \/ \E p \in Threads : CreateOrUpdate(p)

Next ==
  \/ \E n \in Names : ChangeTargets(n)
  \/ Synchronise
  \/ Restart

\* Caches catch up, both threads keep running, Reconcile is called again and
\* again (RequeueAfter, or the rate limiter after an error), and the API server
\* closes every watch in the end, but not always before its first event.
Fairness ==
  /\ WF_vars(DeliverCR)
  /\ WF_vars(DeliverExtra)
  /\ WF_vars(WatchEnds)
  /\ WF_vars(WorkerStep \/ CreateOrUpdate("worker"))
  /\ WF_vars(CreateOrUpdate("watcher"))
  /\ SF_vars(ReceiveEvent)

Spec == Init /\ [][Next]_vars /\ Fairness

--------------------------------------------------------------------------------
(* Properties. *)

\* The hash in the CR, which decides whether the secret is written at all, promises
\* targets that the secret does not have only while a write is under way, or after a call
\* that BTs overtook, whose iteration raced, or whose write failed or was cut short; and
\* then only until one call of either thread has run to its end undisturbed, whatever
\* the other one was in the middle of.
HashHonest ==
  (Writing = {} /\ "secret" \notin doubtful) => SameTargets(secret.targets, am.hash)

\* Whatever two threads with stale copies of the CR save, neither takes back an
\* edit of its spec.
NoLostSpec == [][am'.spec # am.spec => edits' = edits + 1]_vars

\* Once targets stop changing, the secret settles on exactly those targets.
SecretConverges == <>[](secret.targets \in Flattenings)

\* While the user's secret exists, every renewal of the watch applies it again, and
\* the targets with it: whatever was missed, overtaken, refused or lost in a restart
\* is repaired, and once edits and changes stop the secret settles on both sources.
WatchRepairs ==
  <>[](extra # NoExtra => secret.extra = extra /\ secret.targets \in Flattenings)

\* Once nothing changes any more, the CR and the secret are left alone, provided the
\* targets can be listed in one order only: with two CRs of different lists the hash
\* depends on the order of a map, and both are written again and again.
WritesStop ==
  <>[](Cardinality(Flattenings) = 1) => <>[][UNCHANGED <<am, secret>>]_vars

\* The CR and the secret agree with both sources, in whatever order the targets are
\* listed, and so does everything that a thread may still save or write.  A stale copy
\* may say otherwise.
AtRest ==
  /\ secret = [targets |-> am.hash, extra |-> IF WatchOn THEN extra ELSE NoExtra]
  /\ extraCache = extra
  /\ \A c \in fresh : copies[c].hash = am.hash
  /\ \A p \in Threads : thread[p].pc \in {"save", "write"} => thread[p].job = secret
  /\ Flattenings = {am.hash}

\* The rest is stable: while BTs and what users edit stay the same, no event, no new
\* watch, no copy captured long ago, no conflict, failure or restart makes a thread
\* change the CR or the secret.
RestIsStable ==
  [][(AtRest /\ BTs' = BTs /\ edits' = edits) =>
       AtRest' /\ UNCHANGED <<am, secret>>]_vars
================================================================================
