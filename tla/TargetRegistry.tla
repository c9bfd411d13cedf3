----------------------------- MODULE TargetRegistry -----------------------------
(***************************************************************************)
(* What the BlackboxTarget controller promises the rest of the operator,   *)
(* with no cache, queue, worker or finalizer in sight: BTs, here           *)
(* "published", follows what users declare.  It may lag: a value that was  *)
(* declared for the CR stays on offer until the controller has forgotten   *)
(* it.  But                                                                *)
(*   - nothing is published that was not declared for this CR;             *)
(*   - a CR that users delete stays until its entry has been taken back;   *)
(*   - once taken back, the entry does not return, unless it is declared   *)
(*     anew, however stale what the controller still works from.           *)
(***************************************************************************)
CONSTANTS Names, TargetLists, NoEntry

VARIABLES
  exists,    \* does the CR exist?
  wanted,    \* its targets, NoEntry if there is no CR or it is being deleted
  offered,   \* the lists that may still be published for it
  published  \* common.BlackboxTargetsConfig.BTs

registry == <<exists, wanted, offered, published>>

Init ==
  /\ exists = [n \in Names |-> FALSE]
  /\ wanted = [n \in Names |-> NoEntry]
  /\ offered = [n \in Names |-> {}]
  /\ published = [n \in Names |-> NoEntry]

\* What is on offer may shrink, but what is wanted stays on offer.
Offer(n, S) ==
  /\ wanted'[n] # NoEntry => wanted'[n] \in S
  /\ offered' = [offered EXCEPT ![n] = S]

\* A user creates the CR, or edits it.
Want(n) ==
  /\ exists[n] => wanted[n] # NoEntry
  /\ exists' = [exists EXCEPT ![n] = TRUE]
  /\ \E t \in TargetLists, S \in SUBSET offered[n] :
       /\ wanted' = [wanted EXCEPT ![n] = t]
       /\ Offer(n, S \cup {t})
  /\ UNCHANGED published

\* A user deletes the CR.  It may be gone at once if nothing is published.
Leave(n) ==
  /\ wanted[n] # NoEntry
  /\ wanted' = [wanted EXCEPT ![n] = NoEntry]
  /\ \/ \E S \in SUBSET offered[n] : Offer(n, S) /\ UNCHANGED exists
     \/ /\ published[n] = NoEntry
        /\ Offer(n, {})
        /\ exists' = [exists EXCEPT ![n] = FALSE]
  /\ UNCHANGED published

Gone(n) ==
  /\ exists[n]
  /\ wanted[n] = NoEntry
  /\ published[n] = NoEntry
  /\ exists' = [exists EXCEPT ![n] = FALSE]
  /\ offered' = [offered EXCEPT ![n] = {}]
  /\ UNCHANGED <<wanted, published>>

\* The controller forgets something stale.
Settle(n) ==
  /\ UNCHANGED <<exists, wanted, published>>
  /\ \E S \in SUBSET offered[n] : Offer(n, S)

Publish(n) ==
  /\ UNCHANGED <<exists, wanted>>
  /\ \E t \in offered[n] : published' = [published EXCEPT ![n] = t]
  /\ \E S \in SUBSET offered[n] : Offer(n, S)

Retract(n) ==
  /\ exists[n]
  /\ wanted[n] = NoEntry
  /\ published' = [published EXCEPT ![n] = NoEntry]
  /\ offered' = [offered EXCEPT ![n] = {}]
  /\ UNCHANGED <<exists, wanted>>

\* The process restarts: what was published and what was stale are lost.
Lose ==
  /\ published' = [n \in Names |-> NoEntry]
  /\ offered' = [n \in Names |-> {wanted[n]} \ {NoEntry}]
  /\ UNCHANGED <<exists, wanted>>

Next ==
  \/ \E n \in Names :
       Want(n) \/ Leave(n) \/ Gone(n) \/ Settle(n) \/ Publish(n) \/ Retract(n)
  \/ Lose

Spec == Init /\ [][Next]_registry
================================================================================
