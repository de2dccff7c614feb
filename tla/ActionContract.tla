--------------------------- MODULE ActionContract ---------------------------
(***************************************************************************)
(* What the trusted-action router promises of every plan, without stores,   *)
(* hosts, leases or recovery (docs/adr/0069, 0091): an action is authorised  *)
(* before it starts, starts once, touches the world only while it is        *)
(* started, and is settled once, truthfully, or handed over to a person.    *)
(***************************************************************************)
EXTENDS Naturals

CONSTANTS
    Plans,
    Writes,     \* the plans that have an effect
    Members     \* atomic members of the effect of a write

VARIABLES
    stage,      \* [Plans -> Stages]
    applied     \* [Plans -> 0..Members]

contractVars == <<stage, applied>>

Stages == {"absent", "waiting", "authorised", "refused", "started",
           "applied", "not_applied", "handed_over"}

ContractInit ==
    /\ stage = [p \in Plans |-> "absent"]
    /\ applied = [p \in Plans |-> 0]

Move(p, from, to) ==
    /\ stage[p] = from
    /\ stage' = [stage EXCEPT ![p] = to]
    /\ UNCHANGED applied

\* A write always waits for a person; a read may be authorised at once.
Propose(p) ==
    \/ Move(p, "absent", "waiting")
    \/ Move(p, "absent", "refused")
    \/ p \notin Writes /\ Move(p, "absent", "authorised")

Decide(p) == Move(p, "waiting", "authorised") \/ Move(p, "waiting", "refused")

Start(p) == Move(p, "authorised", "started")

Publish(p) ==
    /\ p \in Writes
    /\ stage[p] = "started"
    /\ applied[p] < Members
    /\ applied' = [applied EXCEPT ![p] = @ + 1]
    /\ UNCHANGED stage

Settle(p) ==
    \/ (p \in Writes => applied[p] = Members) /\ Move(p, "started", "applied")
    \/ (p \in Writes => applied[p] = 0) /\ Move(p, "started", "not_applied")
    \/ Move(p, "started", "handed_over")

ContractNext == \E p \in Plans : Propose(p) \/ Decide(p) \/ Start(p) \/ Publish(p) \/ Settle(p)

Spec == ContractInit /\ [][ContractNext]_contractVars
=============================================================================
