---------------------------- MODULE ActionPolicy ----------------------------
(***************************************************************************)
(* The default risk policy of the trusted-action router                     *)
(* (trusted_actions/policy.py): a pure function from the host-owned tool    *)
(* binding, the canonical resources an invocation was resolved to, the      *)
(* sandbox and the declared secrets to one of three decisions.              *)
(*                                                                          *)
(* A "facts" record is what evaluate() looks at: identifiers, digests and   *)
(* reason codes are left out because no branch reads them.                  *)
(***************************************************************************)

EffectClasses == {"read_only", "idempotent_write", "non_idempotent_write", "destructive"}
RiskLevels    == {"low", "medium", "high", "critical"}
RecoveryModes == {"none", "durable_ledger", "external_reconcile"}
Decisions     == {"deny", "require_approval", "allow"}

\* The access modes each resource kind admits: compatible_kind_and_access.
AccessOf == [workspace |-> {"read", "write", "execute"},
             process   |-> {"execute"},
             network   |-> {"connect"},
             secret    |-> {"use"},
             git_ref   |-> {"read", "update"},
             external  |-> {"read", "write"}]

ResourceKinds == DOMAIN AccessOf

Resources ==
    UNION {{[kind |-> k, access |-> a] : a \in AccessOf[k]} : k \in ResourceKinds}

\* TrustedToolBinding.secure_recovery_contract: a tool declares a recovery
\* boundary exactly when it can write.
ValidBinding(effect, recovery) == (effect = "read_only") <=> (recovery = "none")

Facts ==
    {f \in [effect    : EffectClasses,
            risk      : RiskLevels,
            recovery  : RecoveryModes,
            resources : SUBSET Resources,
            network   : BOOLEAN,        \* sandbox.network != "none"
            secrets   : BOOLEAN] :      \* at least one secret is bound
        ValidBinding(f.effect, f.recovery)}

HasKind(f, k) == \E r \in f.resources : r.kind = k

HasEffectResource(f) ==
    \E r \in f.resources :
        \/ r.kind \in {"process", "network", "secret"}
        \/ r.access \in {"write", "execute", "connect", "use", "update"}

\* Mutant: a read may use any resource.
DeniedTrustsReads(f) ==
    \/ f.effect = "destructive"
    \/ f.risk = "critical"
    \/ f.effect # "read_only" /\ ~HasEffectResource(f)
    \/ HasKind(f, "network") # f.network
    \/ HasKind(f, "secret") # f.secrets

\* The early returns of evaluate() that deny.
Denied(f) ==
    \/ f.effect = "destructive"
    \/ f.risk = "critical"
    \/ f.effect = "read_only" /\ HasEffectResource(f)
    \/ f.effect # "read_only" /\ ~HasEffectResource(f)
    \/ HasKind(f, "network") # f.network
    \/ HasKind(f, "secret") # f.secrets

\* Mutant: risk, network and secrets are looked at, the effect class is forgotten.
NeedsApprovalNoEffect(f) == f.risk \in {"medium", "high"} \/ f.network \/ f.secrets

NeedsApproval(f) ==
    \/ f.effect # "read_only"
    \/ f.risk \in {"medium", "high"}
    \/ f.network
    \/ f.secrets
    \/ f.recovery = "external_reconcile"

\* DefaultCodingRiskPolicy.evaluate
Evaluate(f) ==
    IF Denied(f) THEN "deny"
    ELSE IF NeedsApproval(f) THEN "require_approval"
    ELSE "allow"

\* expected_approval of the gateway's _validate_bindings: what the tool catalogue
\* tells the agent about a tool, before any invocation of it is resolved.
ExpectedApproval(f) == f.effect # "read_only" \/ f.risk # "low"

-----------------------------------------------------------------------------

\* A call bounded to reading: what a person need not be asked about.
BoundedRead(f) ==
    /\ f.effect = "read_only"
    /\ f.risk = "low"
    /\ ~f.network /\ ~f.secrets
    /\ \A r \in f.resources : r.access = "read"

\* The decision lets a call run unasked exactly when it is a bounded read, whatever
\* combination of binding, resources, sandbox and secrets evaluate() meets.
AllowsExactlyBoundedReads(f, decision) == decision = "allow" <=> BoundedRead(f)

\* The catalogue the gateway publishes and the policy the router applies agree: a
\* call of a tool advertised as needing no approval is never held for one, and a
\* call of a tool advertised as needing approval never runs without.
CatalogueAgrees(f, decision) ==
    /\ decision = "require_approval" => ExpectedApproval(f)
    /\ decision = "allow" => ~ExpectedApproval(f)

\* Both, for every combination of facts evaluate() can be given: effect class, risk,
\* recovery mode, set of resources, network and secrets.
PolicyIsExact ==
    \A f \in Facts : AllowsExactlyBoundedReads(f, Evaluate(f)) /\ CatalogueAgrees(f, Evaluate(f))
=============================================================================
