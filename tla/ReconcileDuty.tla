--------------------------- MODULE ReconcileDuty ---------------------------
(***************************************************************************)
(* What the event-driven loop of the operator promises (operator/app.py,   *)
(* header): a pool that was reported is owed a reconcile until a later     *)
(* look at the cluster has covered it, however many reports are merged.    *)
(* Only a look that fails, which opens the circuit breaker, lets it go.    *)
(***************************************************************************)
CONSTANT Pools

VARIABLES
  changed,   \* pools that changed since a reconcile last looked at them
  owed,      \* pools that were reported and not looked at since
  open       \* the circuit breaker: the last look failed

vars == <<changed, owed, open>>

Init == changed = {} /\ owed \in SUBSET Pools /\ open = FALSE

\* The world moves.
Change(k) == changed' = changed \cup {k} /\ UNCHANGED <<owed, open>>

\* Somebody asks for a reconcile of the pools in S.
Report(S) == owed' = owed \cup S /\ UNCHANGED <<changed, open>>

\* What the pools in S were owed is settled, unless one was reported again meanwhile.
Settle(S) == owed \ S \subseteq owed' /\ owed' \subseteq owed

\* A look at the cluster on behalf of the pools in S.
Look(S) == Settle(S) /\ changed' = changed \ S /\ open' = FALSE

\* A look that fails: the pools in S are not looked at, and are owed nothing.
GiveUp(S) == Settle(S) /\ open' = TRUE /\ UNCHANGED changed

Next ==
  \/ \E k \in Pools : Change(k)
  \/ \E S \in SUBSET Pools : Report(S) \/ Look(S) \/ GiveUp(S)

Spec == Init /\ [][Next]_vars
=============================================================================
