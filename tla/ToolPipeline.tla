---------------------------- MODULE ToolPipeline ----------------------------
(***************************************************************************)
(* One tool call through ToolRegistry.execute and the production pipeline  *)
(*                                                                         *)
(*   errorHandler > auditLog > agentPolicy > confirmationGate >            *)
(*   idempotency > handler                                                 *)
(*                                                                         *)
(* (packages/mcp-tools/src/registry/tool-registry.ts and the middlewares   *)
(* of packages/mcp-tools/src/middleware).  Calls run concurrently, and     *)
(* the two controls they pass are rows of the database that other calls    *)
(* change meanwhile: the agent registry, written by the agent tools, and   *)
(* the confirmation gates, written by the seed.                            *)
(*                                                                         *)
(* One action is what a call does between two awaits.  On the way out no   *)
(* stage awaits anything, so a result passes the policy's suggestion       *)
(* filter, the audit log and the error handler in one step.  The           *)
(* idempotency stage is reduced to its three outcomes; the record it keeps *)
(* is the subject of Idempotency.                                          *)
(***************************************************************************)
EXTENDS Naturals, FiniteSets, Sequences

CONSTANTS
    Calls,          \* tool calls; each is made once
    Tools,          \* names of the registered tools
    Gateable,       \* tools of riskLevel "high" or "critical"
    Agents,         \* agent ids a request may carry
    Human,          \* stands for a request without an agent id
    CapSets,        \* capability lists a registry row may hold
    TipSets,        \* follow-up lists that tools and their errors may carry
    Requests        \* the requests that are made

Names      == Tools \cup {"no_such_tool", "not_a_string"}
Listing    == "list_available_tools"

Request ==
    [name : Names, agent : Agents \cup {Human},
     identity : {"valid", "bad_tenant", "bad_caller"},
     clash : BOOLEAN,                           \* two different idempotency keys
     key : {"none", "good", "bad"},
     confirmation : {"none", "good", "bad"},
     conforms : BOOLEAN]                        \* to the tool's input schema

ASSUME PipelineAssumption ==
    /\ Listing \in Tools /\ "describe_agent" \in Tools
    /\ "no_such_tool" \notin Tools /\ "not_a_string" \notin Tools
    /\ Gateable \subseteq Tools
    /\ Human \notin Agents
    /\ {} \in CapSets /\ CapSets \subseteq SUBSET Tools
    /\ TipSets \subseteq SUBSET Tools
    /\ Requests \subseteq Request

VARIABLES
    req,            \* the request of each call that was made
    stage,          \* the stage that has the call
    seen,           \* the capabilities agentPolicy read; all tools for a human
    ran,            \* the handler's work was committed
    claimed,        \* the call took hold of its idempotency key
    answer,         \* what the caller was told
    trail,          \* audit entries of the call, with their error code
    registry,       \* the agent registry: one row per agent id
    gates,          \* tools whose confirmation gate is enabled
    permitted,      \* history: the registry allowed the call at some moment of it
    ungated         \* history: the tool's gate was off at some moment of the call

callVars == <<req, stage, seen, ran, claimed, answer, trail>>
vars == <<req, stage, seen, ran, claimed, answer, trail, registry, gates,
          permitted, ungated>>

Stages == {"idle", "policy", "gate", "key", "handler", "commit", "answered"}

Rows == [state : {"absent", "active", "inactive"}, caps : CapSets]

PreCodes    == {"UNKNOWN_TOOL", "INVALID_TENANT_ID", "INVALID_CALLER",
                "IDEMPOTENCY_KEY_MISMATCH"}
PolicyCodes == {"AGENT_POLICY_UNAVAILABLE", "AGENT_NOT_REGISTERED",
                "AGENT_INACTIVE", "AGENT_CAPABILITY_DENIED"}
GateCodes   == {"CONFIRMATION_GATE_UNAVAILABLE", "CONFIRMATION_REQUIRED",
                "INVALID_CONFIRMATION"}
KeyCodes    == {"INVALID_IDEMPOTENCY_KEY", "KEY_REFUSED", "REPLAYED"}
ToolCodes   == {"OK", "INVALID_INPUT", "SOFT_FAILURE"}
ThrownCodes == {"DOMAIN_ERROR", "PRISMA_ERROR", "NO_CODE"}
ErrorCodes  == {"DOMAIN_ERROR", "DATABASE_ERROR", "INTERNAL_ERROR"}
Codes       == PreCodes \cup PolicyCodes \cup GateCodes \cup KeyCodes
               \cup ToolCodes \cup ThrownCodes \cup ErrorCodes

\* A result, or a thrown error, on its way out.
Outcomes == [ok : BOOLEAN, code : Codes \cup {"NONE"}, tips : SUBSET Tools,
             thrown : BOOLEAN]
Unanswered == [ok |-> FALSE, code |-> "NONE", tips |-> {}, thrown |-> FALSE]
Failure(code, tips) == [ok |-> FALSE, code |-> code, tips |-> tips, thrown |-> FALSE]
Success(code) == [ok |-> TRUE, code |-> code, tips |-> {}, thrown |-> FALSE]
Thrown(code, tips) == [ok |-> FALSE, code |-> code, tips |-> tips, thrown |-> TRUE]

NoRequest == [name |-> "not_a_string", agent |-> Human, identity |-> "valid",
              clash |-> FALSE, key |-> "none", confirmation |-> "none",
              conforms |-> FALSE]

\* The agent policy's rule: a human is not restricted, an agent must be
\* registered, active and hold the tool among its capabilities.
Permits(rows, r) ==
    \/ r.agent = Human
    \/ /\ r.agent \in Agents
       /\ rows[r.agent].state = "active"
       /\ r.name \in rows[r.agent].caps

Init ==
    /\ req = [c \in Calls |-> NoRequest]
    /\ stage = [c \in Calls |-> "idle"]
    /\ seen = [c \in Calls |-> {}]
    /\ ran = [c \in Calls |-> FALSE]
    /\ claimed = [c \in Calls |-> FALSE]
    /\ answer = [c \in Calls |-> Unanswered]
    /\ trail = [c \in Calls |-> <<>>]
    /\ registry \in [Agents -> Rows]
    /\ \A a \in Agents : registry[a].state = "absent" => registry[a].caps = {}
    /\ gates \in SUBSET Gateable
    /\ permitted = [c \in Calls |-> FALSE]
    /\ ungated = [c \in Calls |-> FALSE]

-----------------------------------------------------------------------------
(* The way out.                                                            *)

Entry(out, confirmation) ==
    [ok |-> out.ok, code |-> out.code, confirmation |-> confirmation]

\* Variant: the rejected tool is not offered when nothing else is left, and
\* the unfiltered list stays.
FilteredUnlessEmpty(c, out) ==
    IF out.ok \/ out.thrown \/ out.tips \cap seen[c] = {} THEN out
    ELSE [out EXCEPT !.tips = out.tips \cap seen[c]]

\* agentPolicy drops the follow-up tools the agent may not call from a
\* rejection that an inner stage returned.  A thrown error passes it by.
Filtered(c, out) ==
    IF out.ok \/ out.thrown \/ out.tips \subseteq seen[c] THEN out
    ELSE [out EXCEPT !.tips = IF out.tips \cap seen[c] # {}
                              THEN out.tips \cap seen[c] ELSE {req[c].name}]

\* errorHandler: a thrown error becomes a structured failure; a driver error
\* gets a code of its own.
Handled(out) ==
    IF ~out.thrown THEN out
    ELSE [out EXCEPT !.code = CASE out.code = "PRISMA_ERROR" -> "DATABASE_ERROR"
                                [] out.code = "NO_CODE" -> "INTERNAL_ERROR"
                                [] OTHER -> out.code]

\* The answer to the caller, with the audit entry that auditLog hands to the
\* backpressure manager: it sits inside errorHandler and records a thrown
\* error under the code the error carried.
Return(c, out) ==
    /\ stage' = [stage EXCEPT ![c] = "answered"]
    /\ trail' = [trail EXCEPT ![c] = Append(@, Entry(out, req[c].confirmation))]
    /\ answer' = [answer EXCEPT ![c] = Handled(out)]

\* The stages still to come, each entered in the same tick when it awaits
\* nothing: the policy lets a human through, the gate looks up risky tools
\* only, and the idempotency stage passes a call without a key, or whose
\* input it cannot parse, straight to the handler.
AfterGate(r) ==
    IF r.key = "none" \/ (r.key = "good" /\ ~r.conforms) THEN "handler" ELSE "key"

\* Variant: the idempotency stage comes before the gate.
KeyFirst(r) ==
    IF r.key = "good" THEN "key" ELSE IF r.name \in Gateable THEN "gate" ELSE "handler"

AfterPolicy(r) == IF r.name \in Gateable THEN "gate" ELSE AfterGate(r)

\* Variant: the confirmation gate is composed outside the agent policy, and
\* hands its calls on to the idempotency stage.
GateFirst(r) ==
    IF r.name \in Gateable THEN "gate"
    ELSE IF r.agent = Human THEN AfterGate(r) ELSE "policy"

FirstStage(r) == IF r.agent = Human THEN AfterPolicy(r) ELSE "policy"

-----------------------------------------------------------------------------
(* ToolRegistry.execute: the checks before the pipeline, in their order,   *)
(* and the entry into it.                                                  *)

\* A rejection before the pipeline, recorded by the rejection auditor with
\* the context as it was before the confirmation was promoted into it.
Rejected(c, code, tips, audited) ==
    /\ stage' = [stage EXCEPT ![c] = "answered"]
    /\ answer' = [answer EXCEPT ![c] = Failure(code, tips)]
    /\ trail' = [trail EXCEPT ![c] =
            IF audited THEN Append(@, Entry(Failure(code, tips), "none")) ELSE @]
    /\ UNCHANGED <<seen, ran, claimed, registry, gates>>

Made(c, r) ==
    /\ stage[c] = "idle"
    /\ r \in Requests
    /\ req' = [req EXCEPT ![c] = r]

NameIsNoString(c, r) ==
    /\ Made(c, r)
    /\ r.name = "not_a_string"
    /\ Rejected(c, "UNKNOWN_TOOL", {Listing}, FALSE)

\* auditIdentityRejection records it only under a valid tenant.
IdentityIsInvalid(c, r) ==
    /\ Made(c, r)
    /\ r.name # "not_a_string" /\ r.identity # "valid"
    /\ IF r.identity = "bad_tenant"
       THEN Rejected(c, "INVALID_TENANT_ID", {Listing}, FALSE)
       ELSE Rejected(c, "INVALID_CALLER", {Listing}, TRUE)

ToolIsUnknown(c, r) ==
    /\ Made(c, r)
    /\ r.name = "no_such_tool" /\ r.identity = "valid"
    /\ \E similar \in TipSets :
          Rejected(c, "UNKNOWN_TOOL", {Listing} \cup similar, TRUE)

KeysClash(c, r) ==
    /\ Made(c, r)
    /\ r.name \in Tools /\ r.identity = "valid" /\ r.clash
    /\ Rejected(c, "IDEMPOTENCY_KEY_MISMATCH", {Listing}, TRUE)

EnterPipeline(c, r) ==
    /\ Made(c, r)
    /\ r.name \in Tools /\ r.identity = "valid" /\ ~r.clash
    /\ stage' = [stage EXCEPT ![c] = FirstStage(r)]
    /\ seen' = [seen EXCEPT ![c] = IF r.agent = Human THEN Tools ELSE {}]
    /\ UNCHANGED <<ran, claimed, answer, trail, registry, gates>>

-----------------------------------------------------------------------------
(* agentPolicy: one lookup of the agent's row, then a decision on what was *)
(* read.                                                                   *)

RejectedByPolicy(c, code, tips) ==
    /\ Return(c, Failure(code, tips))
    /\ UNCHANGED <<req, seen, ran, claimed, registry, gates>>

PolicyUnavailable(c) ==
    /\ stage[c] = "policy"
    /\ RejectedByPolicy(c, "AGENT_POLICY_UNAVAILABLE", {Listing})

AgentNotRegistered(c) ==
    /\ stage[c] = "policy"
    /\ registry[req[c].agent].state = "absent"
    /\ RejectedByPolicy(c, "AGENT_NOT_REGISTERED", {Listing})

AgentInactive(c) ==
    /\ stage[c] = "policy"
    /\ registry[req[c].agent].state = "inactive"
    /\ RejectedByPolicy(c, "AGENT_INACTIVE", {Listing} \cap registry[req[c].agent].caps)

CapabilityDenied(c) ==
    LET row == registry[req[c].agent]
    IN  /\ stage[c] = "policy"
        /\ row.state = "active" /\ req[c].name \notin row.caps
        /\ RejectedByPolicy(c, "AGENT_CAPABILITY_DENIED",
                            {"describe_agent", Listing} \cap row.caps)

\* Variant: the activity of the agent is not looked at.
PolicyPassesInactive(c) ==
    /\ stage[c] = "policy"
    /\ req[c].name \in registry[req[c].agent].caps
    /\ seen' = [seen EXCEPT ![c] = registry[req[c].agent].caps]
    /\ stage' = [stage EXCEPT ![c] = AfterPolicy(req[c])]
    /\ UNCHANGED <<req, ran, claimed, answer, trail, registry, gates>>

PolicyPasses(c) ==
    /\ stage[c] = "policy"
    /\ Permits(registry, req[c])
    /\ seen' = [seen EXCEPT ![c] = registry[req[c].agent].caps]
    /\ stage' = [stage EXCEPT ![c] = AfterPolicy(req[c])]
    /\ UNCHANGED <<req, ran, claimed, answer, trail, registry, gates>>

-----------------------------------------------------------------------------
(* confirmationGate: one lookup of the tool's gate, for risky tools.  What *)
(* an inner stage returns passes agentPolicy on its way out.               *)

ReturnInner(c, out) == Return(c, Filtered(c, out))

\* Variant: an unreadable gate lets the call through.
GateUnavailableOpen(c) ==
    /\ stage[c] = "gate"
    /\ stage' = [stage EXCEPT ![c] = AfterGate(req[c])]
    /\ UNCHANGED <<req, seen, ran, claimed, answer, trail, registry, gates>>

GateUnavailable(c) ==
    /\ stage[c] = "gate"
    /\ ReturnInner(c, Failure("CONFIRMATION_GATE_UNAVAILABLE", {Listing}))
    /\ UNCHANGED <<req, seen, ran, claimed, registry, gates>>

GateRejects(c) ==
    /\ stage[c] = "gate"
    /\ req[c].name \in gates /\ req[c].confirmation # "good"
    /\ ReturnInner(c, Failure(IF req[c].confirmation = "none" THEN "CONFIRMATION_REQUIRED"
                              ELSE "INVALID_CONFIRMATION", {Listing}))
    /\ UNCHANGED <<req, seen, ran, claimed, registry, gates>>

GatePasses(c) ==
    /\ stage[c] = "gate"
    /\ req[c].name \notin gates \/ req[c].confirmation = "good"
    /\ stage' = [stage EXCEPT ![c] = AfterGate(req[c])]
    /\ UNCHANGED <<req, seen, ran, claimed, answer, trail, registry, gates>>

-----------------------------------------------------------------------------
(* idempotency, by its outcomes: the call is refused, answered with the    *)
(* stored result of an earlier one, or takes hold of its key.              *)

KeyRefused(c) ==
    /\ stage[c] = "key"
    /\ ReturnInner(c, Failure(IF req[c].key = "bad" THEN "INVALID_IDEMPOTENCY_KEY"
                              ELSE "KEY_REFUSED", {req[c].name}))
    /\ UNCHANGED <<req, seen, ran, claimed, registry, gates>>

KeyReplayed(c) ==
    /\ stage[c] = "key" /\ req[c].key = "good"
    /\ ReturnInner(c, Success("REPLAYED"))
    /\ UNCHANGED <<req, seen, ran, claimed, registry, gates>>

KeyClaimed(c) ==
    /\ stage[c] = "key" /\ req[c].key = "good"
    /\ claimed' = [claimed EXCEPT ![c] = TRUE]
    /\ stage' = [stage EXCEPT ![c] = "handler"]
    /\ UNCHANGED <<req, seen, ran, answer, trail, registry, gates>>

-----------------------------------------------------------------------------
(* The final handler: schema validation, then the tool.  The tool's work   *)
(* is one commit; its result travels out after another await.              *)

InputInvalid(c) ==
    /\ stage[c] = "handler" /\ ~req[c].conforms
    /\ ReturnInner(c, Failure("INVALID_INPUT", {req[c].name}))
    /\ UNCHANGED <<req, seen, ran, claimed, registry, gates>>

\* Variant: the handler's rejection is returned past the audit log.
ToolRefusesUnaudited(c) ==
    /\ stage[c] = "handler" /\ req[c].conforms
    /\ \E tips \in TipSets :
          answer' = [answer EXCEPT ![c] = Filtered(c, Failure("SOFT_FAILURE", tips))]
    /\ stage' = [stage EXCEPT ![c] = "answered"]
    /\ UNCHANGED <<req, seen, ran, claimed, trail, registry, gates>>

\* The tool refuses before it has changed anything, by a returned failure
\* or by a thrown error, with any follow-up tools.
ToolRefuses(c) ==
    /\ stage[c] = "handler" /\ req[c].conforms
    /\ \E tips \in TipSets :
          \/ ReturnInner(c, Failure("SOFT_FAILURE", tips))
          \/ \E code \in ThrownCodes : tips # {} /\ ReturnInner(c, Thrown(code, tips))
    /\ UNCHANGED <<req, seen, ran, claimed, registry, gates>>

\* What the agent tools do to the row they are given.
NewRows(tool, row) ==
    CASE tool = "register_agent" /\ row.state = "absent" ->
            [state : {"active"}, caps : CapSets \ {{}}]
      [] tool = "update_agent" /\ row.state # "absent" ->
            [state : {"active", "inactive"}, caps : (CapSets \ {{}}) \cup {row.caps}]
      [] tool = "deactivate_agent" /\ row.state # "absent" ->
            {[row EXCEPT !.state = "inactive"]}
      [] tool = "delete_agent" /\ row.state # "absent" ->
            {[state |-> "absent", caps |-> {}]}
      [] OTHER -> {}

AgentTools == {"register_agent", "update_agent", "deactivate_agent", "delete_agent"}

ToolCommits(c) ==
    /\ stage[c] = "handler" /\ req[c].conforms
    /\ IF req[c].name \in AgentTools
       THEN \E a \in Agents : \E row \in NewRows(req[c].name, registry[a]) :
               registry' = [registry EXCEPT ![a] = row]
       ELSE registry' = registry
    /\ ran' = [ran EXCEPT ![c] = TRUE]
    /\ stage' = [stage EXCEPT ![c] = "commit"]
    /\ UNCHANGED <<req, seen, claimed, answer, trail, gates>>

\* After the commit the tool succeeds, or throws all the same when a
\* statement after it fails or the connection drops.
ToolReturns(c) ==
    /\ stage[c] = "commit"
    /\ \/ ReturnInner(c, Success("OK"))
       \/ \E code \in ThrownCodes, tips \in TipSets :
              tips # {} /\ ReturnInner(c, Thrown(code, tips))
    /\ UNCHANGED <<req, seen, ran, claimed, registry, gates>>

\* A gate is switched by whoever owns the database; no tool writes it.
SwitchGate ==
    /\ \E t \in Gateable :
          gates' = IF t \in gates THEN gates \ {t} ELSE gates \cup {t}
    /\ UNCHANGED <<callVars, registry>>

-----------------------------------------------------------------------------
Arrive(c) ==
    \E r \in Requests :
        \/ NameIsNoString(c, r) \/ IdentityIsInvalid(c, r) \/ ToolIsUnknown(c, r)
        \/ KeysClash(c, r) \/ EnterPipeline(c, r)

Proceed(c) ==
    \/ PolicyUnavailable(c) \/ AgentNotRegistered(c) \/ AgentInactive(c)
    \/ CapabilityDenied(c) \/ PolicyPasses(c)
    \/ GateUnavailable(c) \/ GateRejects(c) \/ GatePasses(c)
    \/ KeyRefused(c) \/ KeyReplayed(c) \/ KeyClaimed(c)
    \/ InputInvalid(c) \/ ToolRefuses(c) \/ ToolCommits(c) \/ ToolReturns(c)

\* What was true at some moment of the call, from its arrival to its answer.
Remember ==
    /\ permitted' = [c \in Calls |->
            permitted[c] \/ (stage'[c] # "idle" /\ stage[c] # "answered"
                                /\ Permits(registry, req'[c]))]
    /\ ungated' = [c \in Calls |->
            ungated[c] \/ (stage'[c] # "idle" /\ stage[c] # "answered"
                                /\ req'[c].name \notin gates)]

Next ==
    /\ \/ \E c \in Calls : Arrive(c) \/ Proceed(c)
       \/ SwitchGate
    /\ Remember

Spec == Init /\ [][Next]_vars

-----------------------------------------------------------------------------
(* Properties.                                                             *)

\* Every variable keeps its type.
TypeOK ==
    /\ req \in [Calls -> Request]
    /\ stage \in [Calls -> Stages]
    /\ seen \in [Calls -> SUBSET Tools]
    /\ ran \in [Calls -> BOOLEAN]
    /\ claimed \in [Calls -> BOOLEAN]
    /\ answer \in [Calls -> Outcomes]
    /\ trail \in [Calls -> Seq([ok : BOOLEAN, code : Codes \cup {"NONE"},
                                confirmation : {"none", "good", "bad"}])]
    /\ registry \in [Agents -> Rows]
    /\ gates \in SUBSET Gateable
    /\ permitted \in [Calls -> BOOLEAN]
    /\ ungated \in [Calls -> BOOLEAN]

Answered(c) == stage[c] = "answered"

Attributable(r) == r.name # "not_a_string" /\ r.identity # "bad_tenant"

\* auditLog and the rejection auditor: an answered call that can be put down
\* to a tenant left exactly one audit entry, whichever stage answered it, and
\* the entry says what the caller was told: the same outcome, under the same
\* code except for an error the error handler renamed.  A call in flight has
\* left none.
EveryCallAudited ==
    \A c \in Calls :
        /\ ~Answered(c) => trail[c] = <<>>
        /\ Answered(c) => Len(trail[c]) = IF Attributable(req[c]) THEN 1 ELSE 0
        /\ (Answered(c) /\ Attributable(req[c])) =>
              /\ trail[c][1].ok = answer[c].ok
              /\ ~answer[c].thrown => trail[c][1].code = answer[c].code

\* agentPolicy: a tool does its work only for a human, or for an agent that was
\* registered, active and capable of the tool at some moment of the call.
EffectIsAuthorised == \A c \in Calls : ran[c] => permitted[c]

\* confirmationGate and auditLog: a risky tool whose gate was on throughout the
\* call does its work only with a valid confirmation, and the audit entry of
\* the call then carries the confirmation.
GatedEffectIsConfirmed ==
    \A c \in Calls :
        (ran[c] /\ req[c].name \in Gateable /\ ~ungated[c]) =>
            /\ req[c].confirmation = "good"
            /\ Answered(c) => trail[c][1].confirmation = "good"

\* The order of the stages (mcp.service.ts, PRODUCTION_PIPELINE_ORDER): a call
\* holds its idempotency key only when every guard before has let it through,
\* so that a rejected call can be repeated with the same key.
RejectionKeepsKey ==
    \A c \in Calls :
        claimed[c] =>
            /\ permitted[c] /\ req[c].conforms
            /\ req[c].name \in Gateable => ungated[c] \/ req[c].confirmation = "good"
            /\ answer[c].code \notin PreCodes \cup PolicyCodes \cup GateCodes
                                  \cup {"INVALID_INPUT"}

\* The same order: a call that the policy never permitted is not told what the
\* gate or the idempotency record thinks of it; no confirmation unlocks a tool
\* for an agent that may not call it.
PolicyGuardsTheGate ==
    \A c \in Calls :
        answer[c].code \in GateCodes \cup KeyCodes \cup ToolCodes \cup ErrorCodes
            => permitted[c]

\* agentPolicy's suggestion filter: when a stage inside it returns a failure,
\* each follow-up tool is one the agent may call, by the capabilities that let
\* this call through.
SuggestionsCallable ==
    \A c \in Calls :
        (Answered(c) /\ seen[c] # {} /\ ~answer[c].thrown) =>
            answer[c].tips \subseteq seen[c]

\* What the comment on pickCallableSuggestions says of the whole framework
\* ("every suggestion must be callable", agent-policy.ts:73): the same of
\* every failure of a call that the policy let through, thrown ones included.
EverySuggestionCallable ==
    \A c \in Calls :
        (Answered(c) /\ seen[c] # {}) => answer[c].tips \subseteq seen[c]
=============================================================================
