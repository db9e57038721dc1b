--------------------------- MODULE MCToolPipeline ---------------------------
(* A few of the registered tools, one agent and the humans who administer  *)
(* it.                                                                     *)
EXTENDS ToolPipeline, TLC

CONSTANTS c1, c2, agent

OneCall  == {c1}
TwoCalls == {c1, c2}

FewTools == {"list_available_tools", "describe_agent", "create_party", "update_agent"}
MoreTools == FewTools \cup AgentTools

\* The tools whose gate is looked up.  In the race run the other agent tools
\* count as not risky, which bounds the settings of the gates.
RiskyTools == {"create_party", "update_agent"}

\* An agent capable of nothing, of one tool, or of administering agents.
SomeCaps == {{}, {"create_party"}, {"list_available_tools", "update_agent"}}

EveryTip == SUBSET FewTools

\* Follow-up lists inside and outside of those capabilities, and across them.
FewTips == {{}, {"create_party", "describe_agent"},
            {"list_available_tools", "update_agent"}}

\* Every request of one gated and one harmless tool.
EveryRequest == {r \in Request : r.name \notin {"update_agent", "list_available_tools"}}

Ask(name, who, key, confirmation) ==
    [name |-> name, agent |-> who, identity |-> "valid", clash |-> FALSE,
     key |-> key, confirmation |-> confirmation, conforms |-> TRUE]

\* Requests of two calls: the agent uses a gated tool or administers agents, and humans
\* change its row meanwhile.
RacingRequests ==
    {Ask("create_party", agent, key, confirmation) :
        key \in {"none", "good"}, confirmation \in {"none", "good"}}
    \cup {Ask("update_agent", agent, "good", "good")}
    \cup {Ask(name, Human, "none", "good") : name \in AgentTools}

\* Steps of Next in which a call makes any request as long as it is the only
\* one, and two calls race with the requests above.
Alone == \A c \in Calls : stage[c] = "idle"

ArriveSecond(c) ==
    /\ ~Alone
    /\ \A d \in Calls : stage[d] # "idle" => req[d] \in RacingRequests
    /\ \E r \in RacingRequests : EnterPipeline(c, r)

AloneOrRacing ==
    /\ \/ Alone /\ \E c \in Calls : Arrive(c)
       \/ \E c \in Calls : ArriveSecond(c) \/ Proceed(c)
       \/ SwitchGate
    /\ Remember

RaceSpec == Init /\ [][AloneOrRacing]_vars

BothRequests == EveryRequest \cup RacingRequests

Symmetry == Permutations(Calls)
=============================================================================
