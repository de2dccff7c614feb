-------------------------- MODULE MCTrustedActions --------------------------
(* Instances of TrustedActions for TLC. *)
EXTENDS TrustedActions

CONSTANTS write, read, deny  \* model values for plans

\* A workspace patch, which needs an approval, a bounded read, which does not, and a call
\* the policy denies: the three ways a plan enters the router.
PatchFacts   == [effect |-> "idempotent_write", risk |-> "low", recovery |-> "durable_ledger",
                 resources |-> {[kind |-> "workspace", access |-> "write"]},
                 network |-> FALSE, secrets |-> FALSE]
ReadFacts    == [PatchFacts EXCEPT !.effect = "read_only", !.recovery = "none",
                                   !.resources = {[kind |-> "workspace", access |-> "read"]}]
DeniedFacts  == [PatchFacts EXCEPT !.effect = "destructive"]

PlanFacts == [p \in {write, read, deny} |->
                 CASE p = write -> PatchFacts [] p = read -> ReadFacts [] OTHER -> DeniedFacts]

\* Keeps the search for a long chain of reconciliations to the ones that complete.
NoInterruptions ==
    \A p \in Plans : \A i \in DOMAIN ops[p]["reconcile"] :
        ops[p]["reconcile"][i].state # "interrupted"
=============================================================================
