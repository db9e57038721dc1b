-------------------------- MODULE ToolPipelineProofs --------------------------
(***************************************************************************)
(* The safety properties of ToolPipeline, for every set of calls, tools,   *)
(* agents, capability lists, follow-up lists and requests.  One invariant  *)
(* says of each call what its stage implies about the guards behind it;    *)
(* every property follows from it.                                         *)
(***************************************************************************)
EXTENDS ToolPipeline, TLAPS

\* The gate stage let the call through, or had no reason to look at it.
GateOpen(c) ==
    req[c].name \in Gateable => ungated[c] \/ req[c].confirmation = "good"

Guarded == {"gate", "key", "handler", "commit"}     \* behind the policy
Inner   == {"key", "handler", "commit"}             \* behind the gate too

\* Before its answer a call has left no trace outside the pipeline.
Quiet(c) ==
    stage[c] # "answered" => trail[c] = <<>> /\ answer[c] = Unanswered

\* The guards behind each stage have let the call through.
Passed(c) ==
    /\ stage[c] \in Guarded => permitted[c]
    /\ stage[c] \in Inner => GateOpen(c)
    /\ stage[c] = "key" => (req[c].key = "good" => req[c].conforms)
    /\ stage[c] \notin {"idle", "answered"} =>
            req[c].name \in Tools /\ req[c].identity = "valid"
    /\ stage[c] = "policy" => req[c].agent \in Agents

\* The effect and the key are had only behind all guards.
Effects(c) ==
    /\ ran[c] => stage[c] \in {"commit", "answered"} /\ permitted[c] /\ GateOpen(c)
    /\ claimed[c] => /\ stage[c] \in {"handler", "commit", "answered"}
                     /\ permitted[c] /\ GateOpen(c) /\ req[c].conforms

\* The answer tells which guards were passed, and the audit entry agrees.
Told(c) ==
    /\ answer[c].code \in GateCodes \cup KeyCodes \cup ToolCodes \cup ErrorCodes
            => permitted[c]
    /\ claimed[c] => answer[c].code \notin PreCodes \cup PolicyCodes \cup GateCodes
                                            \cup {"INVALID_INPUT"}
    /\ stage[c] = "answered" =>
            /\ Len(trail[c]) = IF Attributable(req[c]) THEN 1 ELSE 0
            /\ Attributable(req[c]) =>
                  /\ trail[c][1].ok = answer[c].ok
                  /\ ~answer[c].thrown => trail[c][1].code = answer[c].code
            /\ ran[c] => trail[c][1].confirmation = req[c].confirmation

CallInv(c) == Quiet(c) /\ Passed(c) /\ Effects(c) /\ Told(c)

IInv == TypeOK /\ \A c \in Calls : CallInv(c)

-----------------------------------------------------------------------------
(* Outcomes on their way out.                                              *)

EntryType == [ok : BOOLEAN, code : Codes \cup {"NONE"},
              confirmation : {"none", "good", "bad"}]

LEMMA OutcomeTypes ==
    ASSUME NEW code \in Codes, NEW tips \in SUBSET Tools
    PROVE  /\ Failure(code, tips) \in Outcomes
           /\ Success(code) \in Outcomes
           /\ Thrown(code, tips) \in Outcomes
BY DEF Failure, Success, Thrown, Outcomes

\* The filter touches the follow-up tools only.
LEMMA FilterKeeps ==
    ASSUME TypeOK, NEW c \in Calls, NEW out \in Outcomes, req[c].name \in Tools
    PROVE  /\ Filtered(c, out) \in Outcomes
           /\ Filtered(c, out).ok = out.ok
           /\ Filtered(c, out).code = out.code
           /\ Filtered(c, out).thrown = out.thrown
<1>1. seen[c] \in SUBSET Tools
  BY DEF TypeOK
<1>2. out.tips \in SUBSET Tools /\ out.tips \cap seen[c] \in SUBSET Tools
      /\ {req[c].name} \in SUBSET Tools
  BY <1>1 DEF Outcomes
<1> QED BY <1>2 DEF Filtered, Outcomes

\* The error handler gives a thrown error a code of its own, and leaves a
\* result alone.
LEMMA HandlerKeeps ==
    ASSUME NEW out \in Outcomes
    PROVE  /\ Handled(out) \in Outcomes
           /\ Handled(out).ok = out.ok
           /\ Handled(out).thrown = out.thrown
           /\ ~out.thrown => Handled(out) = out
           /\ out.code \in ThrownCodes /\ out.thrown => Handled(out).code \in ErrorCodes
BY DEF Handled, Outcomes, Codes, ThrownCodes, ErrorCodes

LEMMA EntryTyped ==
    ASSUME NEW out \in Outcomes, NEW confirmation \in {"none", "good", "bad"}
    PROVE  /\ Entry(out, confirmation) \in EntryType
           /\ Entry(out, confirmation).ok = out.ok
           /\ Entry(out, confirmation).code = out.code
           /\ Entry(out, confirmation).confirmation = confirmation
BY DEF Entry, EntryType, Outcomes

\* Appending to an empty trail.
LEMMA FirstEntry ==
    ASSUME NEW e \in EntryType
    PROVE  /\ Append(<<>>, e) \in Seq(EntryType)
           /\ Len(Append(<<>>, e)) = 1
           /\ Append(<<>>, e)[1] = e
OBVIOUS

-----------------------------------------------------------------------------
(* The history, and the calls a step does not touch.                       *)

LEMMA HistoryGrows ==
    ASSUME TypeOK, Remember
    PROVE  /\ permitted' \in [Calls -> BOOLEAN] /\ ungated' \in [Calls -> BOOLEAN]
           /\ \A c \in Calls : permitted[c] => permitted'[c]
           /\ \A c \in Calls : ungated[c] => ungated'[c]
           /\ \A c \in Calls :
                  stage'[c] # "idle" /\ stage[c] # "answered" =>
                      /\ Permits(registry, req'[c]) => permitted'[c]
                      /\ req'[c].name \notin gates => ungated'[c]
<1>1. permitted \in [Calls -> BOOLEAN] /\ ungated \in [Calls -> BOOLEAN]
  BY DEF TypeOK
<1> QED BY <1>1 DEF Remember

LEMMA Untouched ==
    ASSUME IInv, Remember, NEW d \in Calls,
           req'[d] = req[d], stage'[d] = stage[d], ran'[d] = ran[d],
           claimed'[d] = claimed[d], answer'[d] = answer[d], trail'[d] = trail[d]
    PROVE  CallInv(d)'
<1>1. (permitted[d] => permitted'[d]) /\ (ungated[d] => ungated'[d])
  BY HistoryGrows DEF IInv
<1>2. Quiet(d)'
  BY DEF IInv, CallInv, Quiet
<1>3. GateOpen(d) => GateOpen(d)'
  BY <1>1 DEF GateOpen
<1>4. Passed(d)'
  BY <1>1, <1>3 DEF IInv, CallInv, Passed
<1>5. Effects(d)'
  BY <1>1, <1>3 DEF IInv, CallInv, Effects
<1>6. Told(d)'
  BY <1>1 DEF IInv, CallInv, Told, Attributable
<1> QED BY <1>2, <1>4, <1>5, <1>6 DEF CallInv

-----------------------------------------------------------------------------
(* A stage that answers the call.                                          *)

Midway(c) == stage[c] \notin {"idle", "answered"}

LEMMA AnswerKeeps ==
    ASSUME IInv, Remember, NEW c \in Calls, Midway(c), NEW out \in Outcomes,
           Return(c, out), UNCHANGED <<req, seen, ran, claimed, registry, gates>>,
           Handled(out).code \in GateCodes \cup KeyCodes \cup ToolCodes \cup ErrorCodes
               => permitted[c],
           claimed[c] => Handled(out).code \notin PreCodes \cup PolicyCodes
                                        \cup GateCodes \cup {"INVALID_INPUT"}
    PROVE  IInv'
<1> DEFINE e == Entry(out, req[c].confirmation)
<1>1. TypeOK /\ CallInv(c)
  BY DEF IInv
<1>2. req[c] \in Request /\ req[c].confirmation \in {"none", "good", "bad"}
  BY <1>1 DEF TypeOK, Request
<1>3. req[c].name \in Tools /\ req[c].identity = "valid"
  BY <1>1 DEF CallInv, Passed, Midway
<1>4. trail[c] = <<>>
  BY <1>1 DEF CallInv, Quiet, Midway
<1>5. /\ e \in EntryType /\ e.ok = out.ok /\ e.code = out.code
      /\ e.confirmation = req[c].confirmation
  BY <1>2, EntryTyped
<1>6. /\ Append(<<>>, e) \in Seq(EntryType) /\ Len(Append(<<>>, e)) = 1
      /\ Append(<<>>, e)[1] = e
  BY <1>5, FirstEntry
<1>7. /\ stage \in [Calls -> Stages] /\ trail \in [Calls -> Seq(EntryType)]
      /\ answer \in [Calls -> Outcomes]
  BY <1>1 DEF TypeOK, EntryType
<1>8. /\ stage' = [stage EXCEPT ![c] = "answered"]
      /\ trail' = [trail EXCEPT ![c] = Append(<<>>, e)]
      /\ answer' = [answer EXCEPT ![c] = Handled(out)]
  BY <1>4, <1>7 DEF Return
<1>9. Handled(out) \in Outcomes
  BY HandlerKeeps
<1>10. TypeOK'
  <2>1. stage' \in [Calls -> Stages] /\ answer' \in [Calls -> Outcomes]
    BY <1>7, <1>8, <1>9 DEF Stages
  <2>2. trail' \in [Calls -> Seq(EntryType)]
    BY <1>6, <1>7, <1>8
  <2>3. permitted' \in [Calls -> BOOLEAN] /\ ungated' \in [Calls -> BOOLEAN]
    BY <1>1, HistoryGrows
  <2> QED BY <1>1, <2>1, <2>2, <2>3 DEF TypeOK, EntryType
<1>11. /\ stage'[c] = "answered" /\ trail'[c] = Append(<<>>, e)
       /\ answer'[c] = Handled(out)
  BY <1>7, <1>8
<1>12. (permitted[c] => permitted'[c]) /\ (ungated[c] => ungated'[c])
  BY <1>1, HistoryGrows
<1>13. GateOpen(c) => GateOpen(c)'
  BY <1>12 DEF GateOpen
<1>14. Quiet(c)' /\ Passed(c)'
  BY <1>11 DEF Quiet, Passed, Guarded, Inner
<1>15. Effects(c)'
  BY <1>1, <1>11, <1>12, <1>13 DEF CallInv, Effects
<1>16. Told(c)'
  <2>1. Attributable(req[c])
    <3>1. req[c].name # "not_a_string"
      BY <1>3, PipelineAssumption
    <3> QED BY <1>3, <3>1 DEF Attributable
  <2>2. e.ok = Handled(out).ok /\ (~Handled(out).thrown => e.code = Handled(out).code)
    BY <1>5, HandlerKeeps
  <2>3. Len(trail'[c]) = 1 /\ trail'[c][1] = e
    BY <1>6, <1>11
  <2> QED BY <1>5, <1>11, <1>12, <2>1, <2>2, <2>3 DEF Told, Attributable
<1>17. \A d \in Calls : d # c => CallInv(d)'
  <2> TAKE d \in Calls
  <2> HAVE d # c
  <2>1. stage'[d] = stage[d] /\ trail'[d] = trail[d] /\ answer'[d] = answer[d]
    BY <1>7, <1>8
  <2> QED BY <2>1, Untouched
<1> QED BY <1>10, <1>14, <1>15, <1>16, <1>17 DEF IInv, CallInv

\* The same for what passes the policy on its way out.
LEMMA InnerAnswerKeeps ==
    ASSUME IInv, Remember, NEW c \in Calls, stage[c] \in Guarded, NEW out \in Outcomes,
           ReturnInner(c, out), UNCHANGED <<req, seen, ran, claimed, registry, gates>>,
           claimed[c] => /\ out.code \in KeyCodes \cup ToolCodes \cup ThrownCodes
                         /\ out.code # "INVALID_INPUT",
           out.thrown => out.code \in ThrownCodes
    PROVE  IInv'
<1>1. TypeOK /\ CallInv(c) /\ Midway(c) /\ permitted[c]
  BY DEF IInv, CallInv, Passed, Guarded, Midway
<1>2. req[c].name \in Tools
  BY <1>1 DEF CallInv, Passed, Midway
<1>3. /\ Filtered(c, out) \in Outcomes /\ Filtered(c, out).code = out.code
      /\ Filtered(c, out).thrown = out.thrown
  BY <1>1, <1>2, FilterKeeps
<1>4. /\ ~out.thrown => Handled(Filtered(c, out)).code = out.code
      /\ out.thrown => Handled(Filtered(c, out)).code \in ErrorCodes
  BY <1>3, HandlerKeeps
<1>5. ASSUME claimed[c]
      PROVE  Handled(Filtered(c, out)).code \notin PreCodes \cup PolicyCodes
                                        \cup GateCodes \cup {"INVALID_INPUT"}
  BY <1>4, <1>5 DEF KeyCodes, ToolCodes, ThrownCodes, ErrorCodes, PreCodes, PolicyCodes,
     GateCodes
<1> QED BY <1>1, <1>3, <1>5, AnswerKeeps DEF ReturnInner

-----------------------------------------------------------------------------
(* A stage that lets the call through.                                     *)

\* The call moves on to a stage whose guards have been passed, without an
\* answer; it may take its key or do its work on the way.
LEMMA MoveKeeps ==
    ASSUME IInv, Remember, NEW c \in Calls, Midway(c), NEW to \in Stages,
           stage' = [stage EXCEPT ![c] = to], to \notin {"idle", "policy", "answered"},
           UNCHANGED <<req, answer, trail>>,
           seen' \in [Calls -> SUBSET Tools], registry' \in [Agents -> Rows],
           gates' \in SUBSET Gateable,
           ran' \in [Calls -> BOOLEAN], claimed' \in [Calls -> BOOLEAN],
           \A d \in Calls : d # c => ran'[d] = ran[d] /\ claimed'[d] = claimed[d],
           permitted'[c],
           to \in Inner => GateOpen(c)',
           to = "key" => (req[c].key = "good" => req[c].conforms),
           ran'[c] => to = "commit",
           claimed'[c] => to \in {"handler", "commit"} /\ req[c].conforms
    PROVE  IInv'
<1>1. TypeOK /\ CallInv(c)
  BY DEF IInv
<1>2. stage \in [Calls -> Stages] /\ stage'[c] = to
  BY <1>1 DEF TypeOK
<1>3. TypeOK'
  <2>1. stage' \in [Calls -> Stages]
    BY <1>2
  <2>2. permitted' \in [Calls -> BOOLEAN] /\ ungated' \in [Calls -> BOOLEAN]
    BY <1>1, HistoryGrows
  <2> QED BY <1>1, <2>1, <2>2 DEF TypeOK
<1>4. Quiet(c)'
  BY <1>1 DEF CallInv, Quiet, Midway
<1>5. Passed(c)'
  BY <1>1, <1>2 DEF CallInv, Passed, Midway
<1>6. Effects(c)'
  BY <1>2 DEF Effects, Inner
<1>7. Told(c)'
  <2>1. answer'[c] = Unanswered /\ stage'[c] # "answered"
    BY <1>1, <1>2 DEF CallInv, Quiet, Midway
  <2>2. answer'[c].code = "NONE"
    BY <2>1 DEF Unanswered
  <2>3. "NONE" \notin Codes
    BY DEF Codes, PreCodes, PolicyCodes, GateCodes, KeyCodes, ToolCodes, ThrownCodes,
       ErrorCodes
  <2>4. /\ answer'[c].code \notin GateCodes \cup KeyCodes \cup ToolCodes \cup ErrorCodes
        /\ answer'[c].code \notin PreCodes \cup PolicyCodes \cup GateCodes
                                 \cup {"INVALID_INPUT"}
    BY <2>2, <2>3 DEF Codes, ToolCodes
  <2> QED BY <2>1, <2>4 DEF Told
<1>8. \A d \in Calls : d # c => CallInv(d)'
  <2> TAKE d \in Calls
  <2> HAVE d # c
  <2>1. stage'[d] = stage[d]
    BY <1>2
  <2> QED BY <2>1, Untouched
<1> QED BY <1>3, <1>4, <1>5, <1>6, <1>7, <1>8 DEF IInv, CallInv

LEMMA StageTypes ==
    ASSUME NEW r \in Request
    PROVE  /\ AfterGate(r) \in {"key", "handler"}
           /\ AfterGate(r) = "key" => (r.key = "good" => r.conforms)
           /\ AfterPolicy(r) \in {"gate", "key", "handler"}
           /\ AfterPolicy(r) = "key" => (r.key = "good" => r.conforms)
           /\ AfterPolicy(r) # "gate" => r.name \notin Gateable
BY DEF AfterGate, AfterPolicy

LEMMA PolicyPassesKeeps ==
    ASSUME IInv, Remember, NEW c \in Calls, PolicyPasses(c)
    PROVE  IInv'
<1> DEFINE to == AfterPolicy(req[c])
<1>1. TypeOK /\ CallInv(c) /\ Midway(c) /\ stage[c] = "policy"
  BY DEF IInv, PolicyPasses, Midway
<1>2. req[c] \in Request /\ req' = req /\ registry \in [Agents -> Rows]
  BY <1>1 DEF TypeOK, PolicyPasses
<1>3. to \in {"gate", "key", "handler"} /\ (to # "gate" => req[c].name \notin Gateable)
      /\ (to = "key" => (req[c].key = "good" => req[c].conforms))
  BY <1>2, StageTypes
<1>4. stage' = [stage EXCEPT ![c] = to] /\ stage'[c] = to
  BY <1>1 DEF PolicyPasses, TypeOK
<1>5. permitted'[c]
  BY <1>1, <1>2, <1>3, <1>4, HistoryGrows DEF PolicyPasses
<1>6. seen' \in [Calls -> SUBSET Tools]
  <2>1. req[c].agent \in Agents
    BY <1>1 DEF CallInv, Passed
  <2>2. registry[req[c].agent].caps \in SUBSET Tools
    BY <1>2, <2>1, PipelineAssumption DEF Rows
  <2> QED BY <1>1, <2>2 DEF TypeOK, PolicyPasses
<1>7. ~ran[c] /\ ~claimed[c]
  BY <1>1 DEF CallInv, Effects
<1>8. to \in Inner => GateOpen(c)'
  BY <1>2, <1>3 DEF GateOpen, Inner
<1>9. /\ UNCHANGED <<req, answer, trail, ran, claimed, registry, gates>>
      /\ to \in Stages /\ to \notin {"idle", "policy", "answered"}
      /\ registry \in [Agents -> Rows] /\ gates \in SUBSET Gateable
      /\ ran \in [Calls -> BOOLEAN] /\ claimed \in [Calls -> BOOLEAN]
  BY <1>1, <1>3 DEF PolicyPasses, TypeOK, Stages
<1> HIDE DEF to
<1> QED BY <1>1, <1>3, <1>4, <1>5, <1>6, <1>7, <1>8, <1>9, MoveKeeps

LEMMA GatePassesKeeps ==
    ASSUME IInv, Remember, NEW c \in Calls, GatePasses(c)
    PROVE  IInv'
<1> DEFINE to == AfterGate(req[c])
<1>1. TypeOK /\ CallInv(c) /\ Midway(c) /\ stage[c] = "gate"
  BY DEF IInv, GatePasses, Midway
<1>2. req[c] \in Request /\ req' = req
  BY <1>1 DEF TypeOK, GatePasses
<1>3. to \in {"key", "handler"} /\ (to = "key" => (req[c].key = "good" => req[c].conforms))
  BY <1>2, StageTypes
<1>4. stage' = [stage EXCEPT ![c] = to] /\ stage'[c] = to
  BY <1>1 DEF GatePasses, TypeOK
<1>5. permitted'[c]
  BY <1>1, HistoryGrows DEF CallInv, Passed, Guarded
<1>6. GateOpen(c)'
  BY <1>1, <1>2, <1>3, <1>4, HistoryGrows DEF GatePasses, GateOpen
<1>7. ~ran[c] /\ ~claimed[c]
  BY <1>1 DEF CallInv, Effects
<1>8. /\ UNCHANGED <<req, seen, answer, trail, ran, claimed, registry, gates>>
      /\ to \in Stages /\ to \notin {"idle", "policy", "answered"}
      /\ seen \in [Calls -> SUBSET Tools]
      /\ registry \in [Agents -> Rows] /\ gates \in SUBSET Gateable
      /\ ran \in [Calls -> BOOLEAN] /\ claimed \in [Calls -> BOOLEAN]
  BY <1>1, <1>3 DEF GatePasses, TypeOK, Stages
<1> HIDE DEF to
<1> QED BY <1>1, <1>3, <1>4, <1>5, <1>6, <1>7, <1>8, MoveKeeps

LEMMA KeyClaimedKeeps ==
    ASSUME IInv, Remember, NEW c \in Calls, KeyClaimed(c)
    PROVE  IInv'
<1>1. TypeOK /\ CallInv(c) /\ Midway(c) /\ stage[c] = "key" /\ req[c].key = "good"
  BY DEF IInv, KeyClaimed, Midway
<1>2. permitted'[c] /\ (ungated[c] => ungated'[c])
  BY <1>1, HistoryGrows DEF CallInv, Passed, Guarded
<1>3. GateOpen(c)'
  BY <1>1, <1>2 DEF CallInv, Passed, Inner, GateOpen, KeyClaimed
<1>4. req[c].conforms /\ ~ran[c]
  BY <1>1 DEF CallInv, Passed, Effects
<1>5. /\ UNCHANGED <<req, seen, answer, trail, ran, registry, gates>>
      /\ stage' = [stage EXCEPT ![c] = "handler"]
      /\ claimed' = [claimed EXCEPT ![c] = TRUE]
      /\ "handler" \in Stages
      /\ seen \in [Calls -> SUBSET Tools]
      /\ registry \in [Agents -> Rows] /\ gates \in SUBSET Gateable
      /\ ran \in [Calls -> BOOLEAN] /\ claimed \in [Calls -> BOOLEAN]
  BY <1>1 DEF KeyClaimed, TypeOK, Stages
<1>6. /\ claimed' \in [Calls -> BOOLEAN]
      /\ \A d \in Calls : d # c => claimed'[d] = claimed[d]
  BY <1>5
<1> QED BY <1>1, <1>2, <1>3, <1>4, <1>5, <1>6, MoveKeeps

LEMMA NewRowsTyped ==
    ASSUME NEW tool, NEW row \in Rows, NEW new \in NewRows(tool, row)
    PROVE  new \in Rows
BY PipelineAssumption DEF NewRows, Rows

LEMMA ToolCommitsKeeps ==
    ASSUME IInv, Remember, NEW c \in Calls, ToolCommits(c)
    PROVE  IInv'
<1>1. TypeOK /\ CallInv(c) /\ Midway(c) /\ stage[c] = "handler" /\ req[c].conforms
  BY DEF IInv, ToolCommits, Midway
<1>2. permitted'[c] /\ (ungated[c] => ungated'[c])
  BY <1>1, HistoryGrows DEF CallInv, Passed, Guarded
<1>3. GateOpen(c)'
  BY <1>1, <1>2 DEF CallInv, Passed, Inner, GateOpen, ToolCommits
<1>4. registry' \in [Agents -> Rows]
  <2>1. registry \in [Agents -> Rows]
    BY <1>1 DEF TypeOK
  <2>2. CASE req[c].name \in AgentTools
    <3>1. PICK a \in Agents : \E row \in NewRows(req[c].name, registry[a]) :
                registry' = [registry EXCEPT ![a] = row]
      BY <2>2 DEF ToolCommits
    <3>2. PICK row \in NewRows(req[c].name, registry[a]) :
                registry' = [registry EXCEPT ![a] = row]
      BY <3>1
    <3>3. row \in Rows
      BY <2>1, <3>2, NewRowsTyped
    <3> QED BY <2>1, <3>2, <3>3
  <2>3. CASE req[c].name \notin AgentTools
    BY <2>1, <2>3 DEF ToolCommits
  <2> QED BY <2>2, <2>3
<1>5. /\ UNCHANGED <<req, seen, answer, trail, claimed, gates>>
      /\ stage' = [stage EXCEPT ![c] = "commit"]
      /\ ran' = [ran EXCEPT ![c] = TRUE]
      /\ "commit" \in Stages
      /\ seen \in [Calls -> SUBSET Tools] /\ gates \in SUBSET Gateable
      /\ ran \in [Calls -> BOOLEAN] /\ claimed \in [Calls -> BOOLEAN]
  BY <1>1 DEF ToolCommits, TypeOK, Stages
<1>6. ran' \in [Calls -> BOOLEAN] /\ \A d \in Calls : d # c => ran'[d] = ran[d]
  BY <1>5
<1> QED BY <1>1, <1>2, <1>3, <1>4, <1>5, <1>6, MoveKeeps

-----------------------------------------------------------------------------
(* The arrival of a call.                                                  *)

LEMMA RejectedKeeps ==
    ASSUME IInv, Remember, NEW c \in Calls, NEW r, Made(c, r),
           NEW code \in PreCodes, NEW tips \in SUBSET Tools, NEW audited \in BOOLEAN,
           Rejected(c, code, tips, audited), audited <=> Attributable(r)
    PROVE  IInv'
<1> DEFINE out == Failure(code, tips)
           e == Entry(out, "none")
<1>1. TypeOK /\ CallInv(c) /\ stage[c] = "idle"
  BY DEF IInv, Made
<1>2. r \in Request
  BY PipelineAssumption DEF Made
<1>3. /\ out \in Outcomes /\ out.code = code /\ out.ok = FALSE /\ out.thrown = FALSE
  BY OutcomeTypes DEF Codes, Failure
<1>4. trail[c] = <<>> /\ ~ran[c] /\ ~claimed[c]
  BY <1>1 DEF CallInv, Quiet, Effects
<1>5. e \in EntryType /\ e.ok = out.ok /\ e.code = out.code
  BY <1>3, EntryTyped
<1>6. /\ Append(<<>>, e) \in Seq(EntryType) /\ Len(Append(<<>>, e)) = 1
      /\ Append(<<>>, e)[1] = e
  BY <1>5, FirstEntry
<1>7. /\ stage \in [Calls -> Stages] /\ trail \in [Calls -> Seq(EntryType)]
      /\ answer \in [Calls -> Outcomes] /\ req \in [Calls -> Request]
  BY <1>1 DEF TypeOK, EntryType
<1>8. /\ stage' = [stage EXCEPT ![c] = "answered"]
      /\ trail' = [trail EXCEPT ![c] = IF audited THEN Append(<<>>, e) ELSE <<>>]
      /\ answer' = [answer EXCEPT ![c] = out]
      /\ req' = [req EXCEPT ![c] = r]
  BY <1>4, <1>7 DEF Rejected, Made
<1>9. <<>> \in Seq(EntryType)
  OBVIOUS
<1> HIDE DEF out, e
<1>10. TypeOK'
  <2>1. /\ stage' \in [Calls -> Stages] /\ answer' \in [Calls -> Outcomes]
        /\ req' \in [Calls -> Request]
    BY <1>2, <1>3, <1>7, <1>8 DEF Stages
  <2>2. trail' \in [Calls -> Seq(EntryType)]
    BY <1>6, <1>7, <1>8, <1>9
  <2>3. permitted' \in [Calls -> BOOLEAN] /\ ungated' \in [Calls -> BOOLEAN]
    BY <1>1, HistoryGrows
  <2> QED BY <1>1, <2>1, <2>2, <2>3 DEF TypeOK, EntryType, Rejected
<1>11. /\ stage'[c] = "answered" /\ answer'[c] = out /\ req'[c] = r
       /\ trail'[c] = IF audited THEN Append(<<>>, e) ELSE <<>>
       /\ ran' = ran /\ claimed' = claimed
  BY <1>7, <1>8 DEF Rejected
<1>12. Quiet(c)' /\ Passed(c)' /\ Effects(c)'
  BY <1>4, <1>11 DEF Quiet, Passed, Effects, Guarded, Inner
<1>13. Told(c)'
  <2>1. out.code \notin GateCodes \cup KeyCodes \cup ToolCodes \cup ErrorCodes
    BY <1>3 DEF PreCodes, GateCodes, KeyCodes, ToolCodes, ErrorCodes
  <2>2. Len(trail'[c]) = IF audited THEN 1 ELSE 0
    BY <1>6, <1>11
  <2>3. audited => trail'[c][1] = e
    BY <1>6, <1>11
  <2>4. Attributable(req[c])' <=> audited
    BY <1>11 DEF Attributable
  <2> QED BY <1>4, <1>5, <1>11, <2>1, <2>2, <2>3, <2>4 DEF Told
<1>14. \A d \in Calls : d # c => CallInv(d)'
  <2> TAKE d \in Calls
  <2> HAVE d # c
  <2>1. /\ stage'[d] = stage[d] /\ trail'[d] = trail[d] /\ answer'[d] = answer[d]
        /\ req'[d] = req[d]
    BY <1>7, <1>8
  <2> QED BY <1>11, <2>1, Untouched
<1> QED BY <1>10, <1>12, <1>13, <1>14 DEF IInv, CallInv

LEMMA EnterKeeps ==
    ASSUME IInv, Remember, NEW c \in Calls, NEW r, EnterPipeline(c, r)
    PROVE  IInv'
<1> DEFINE to == FirstStage(r)
<1>1. TypeOK /\ CallInv(c) /\ stage[c] = "idle"
  BY DEF IInv, EnterPipeline, Made
<1>2. r \in Request /\ r.name \in Tools /\ r.identity = "valid"
  BY PipelineAssumption DEF EnterPipeline, Made
<1>3. /\ to \in {"policy", "gate", "key", "handler"}
      /\ to # "policy" => r.agent = Human
      /\ to = "policy" => r.agent \in Agents
      /\ to \notin {"policy", "gate"} => r.name \notin Gateable
      /\ to = "key" => (r.key = "good" => r.conforms)
  BY <1>2, StageTypes DEF FirstStage, Request
<1>4. /\ stage \in [Calls -> Stages] /\ req \in [Calls -> Request]
      /\ seen \in [Calls -> SUBSET Tools]
  BY <1>1 DEF TypeOK
<1>5. /\ stage' = [stage EXCEPT ![c] = to] /\ req' = [req EXCEPT ![c] = r]
      /\ UNCHANGED <<ran, claimed, answer, trail, registry, gates>>
  BY DEF EnterPipeline, Made
<1>6. seen' \in [Calls -> SUBSET Tools]
  BY <1>4 DEF EnterPipeline
<1> HIDE DEF to
<1>7. stage'[c] = to /\ req'[c] = r
  BY <1>4, <1>5
<1>8. TypeOK'
  <2>1. stage' \in [Calls -> Stages] /\ req' \in [Calls -> Request]
    BY <1>2, <1>3, <1>4, <1>5 DEF Stages
  <2>2. permitted' \in [Calls -> BOOLEAN] /\ ungated' \in [Calls -> BOOLEAN]
    BY <1>1, HistoryGrows
  <2> QED BY <1>1, <1>5, <1>6, <2>1, <2>2 DEF TypeOK
<1>9. to # "policy" => permitted'[c]
  BY <1>1, <1>3, <1>7, HistoryGrows DEF Permits
<1>10. to \notin {"policy", "gate"} => GateOpen(c)'
  BY <1>3, <1>7 DEF GateOpen
<1>11. Passed(c)'
  BY <1>2, <1>3, <1>7, <1>9, <1>10 DEF Passed, Guarded, Inner
<1>12. trail[c] = <<>> /\ answer[c] = Unanswered /\ ~ran[c] /\ ~claimed[c]
  BY <1>1 DEF CallInv, Quiet, Effects
<1>13. Quiet(c)' /\ Effects(c)'
  BY <1>5, <1>12 DEF Quiet, Effects
<1>14. Told(c)'
  <2>1. answer'[c].code = "NONE" /\ stage'[c] # "answered" /\ ~claimed'[c]
    BY <1>3, <1>5, <1>7, <1>12 DEF Unanswered
  <2>2. answer'[c].code \notin GateCodes \cup KeyCodes \cup ToolCodes \cup ErrorCodes
    BY <2>1 DEF GateCodes, KeyCodes, ToolCodes, ErrorCodes
  <2> QED BY <2>1, <2>2 DEF Told
<1>15. \A d \in Calls : d # c => CallInv(d)'
  <2> TAKE d \in Calls
  <2> HAVE d # c
  <2>1. stage'[d] = stage[d] /\ req'[d] = req[d]
    BY <1>4, <1>5
  <2> QED BY <1>5, <2>1, Untouched
<1> QED BY <1>8, <1>11, <1>13, <1>14, <1>15 DEF IInv, CallInv

LEMMA ArriveKeeps ==
    ASSUME IInv, Remember, NEW c \in Calls, Arrive(c)
    PROVE  IInv'
<1>1. PICK r \in Requests :
          \/ NameIsNoString(c, r) \/ IdentityIsInvalid(c, r) \/ ToolIsUnknown(c, r)
          \/ KeysClash(c, r) \/ EnterPipeline(c, r)
  BY DEF Arrive
<1>2. {Listing} \in SUBSET Tools /\ \A t \in TipSets : {Listing} \cup t \in SUBSET Tools
  BY PipelineAssumption
<1>3. /\ "UNKNOWN_TOOL" \in PreCodes /\ "INVALID_TENANT_ID" \in PreCodes
      /\ "INVALID_CALLER" \in PreCodes /\ "IDEMPOTENCY_KEY_MISMATCH" \in PreCodes
  BY DEF PreCodes
<1>4. CASE NameIsNoString(c, r)
  <2>1. ~Attributable(r)
    BY <1>4 DEF NameIsNoString, Attributable
  <2> QED BY <1>2, <1>3, <1>4, <2>1, RejectedKeeps DEF NameIsNoString
<1>5. CASE IdentityIsInvalid(c, r)
  <2>1. CASE r.identity = "bad_tenant"
    <3>1. ~Attributable(r) /\ Made(c, r)
          /\ Rejected(c, "INVALID_TENANT_ID", {Listing}, FALSE)
      BY <1>5, <2>1 DEF IdentityIsInvalid, Attributable
    <3> QED BY <1>2, <1>3, <3>1, RejectedKeeps
  <2>2. CASE r.identity # "bad_tenant"
    <3>1. Attributable(r) /\ Made(c, r)
          /\ Rejected(c, "INVALID_CALLER", {Listing}, TRUE)
      BY <1>5, <2>2 DEF IdentityIsInvalid, Attributable
    <3> QED BY <1>2, <1>3, <3>1, RejectedKeeps
  <2> QED BY <2>1, <2>2
<1>6. CASE ToolIsUnknown(c, r)
  <2>1. Attributable(r)
    BY <1>6 DEF ToolIsUnknown, Attributable
  <2>2. PICK similar \in TipSets :
            Rejected(c, "UNKNOWN_TOOL", {Listing} \cup similar, TRUE)
    BY <1>6 DEF ToolIsUnknown
  <2> QED BY <1>2, <1>3, <1>6, <2>1, <2>2, RejectedKeeps DEF ToolIsUnknown
<1>7. CASE KeysClash(c, r)
  <2>1. Attributable(r)
    BY <1>7, PipelineAssumption DEF KeysClash, Attributable
  <2> QED BY <1>2, <1>3, <1>7, <2>1, RejectedKeeps DEF KeysClash
<1>8. CASE EnterPipeline(c, r)
  BY <1>8, EnterKeeps
<1> QED BY <1>1, <1>4, <1>5, <1>6, <1>7, <1>8

-----------------------------------------------------------------------------
(* The stages that answer.                                                 *)

LEMMA PolicyRejectsKeeps ==
    ASSUME IInv, Remember, NEW c \in Calls, stage[c] = "policy",
           NEW code \in PolicyCodes, NEW tips \in SUBSET Tools,
           RejectedByPolicy(c, code, tips)
    PROVE  IInv'
<1> DEFINE out == Failure(code, tips)
<1>1. Midway(c) /\ ~claimed[c]
  BY DEF IInv, CallInv, Effects, Midway
<1>2. out \in Outcomes /\ Handled(out) = out /\ out.code = code
  BY OutcomeTypes, HandlerKeeps DEF Codes, Failure
<1>3. code \notin GateCodes \cup KeyCodes \cup ToolCodes \cup ErrorCodes
  BY DEF PolicyCodes, GateCodes, KeyCodes, ToolCodes, ErrorCodes
<1>4. Return(c, out) /\ UNCHANGED <<req, seen, ran, claimed, registry, gates>>
  BY DEF RejectedByPolicy
<1> HIDE DEF out
<1> QED BY <1>1, <1>2, <1>3, <1>4, AnswerKeeps

LEMMA PolicyAnswersKeep ==
    ASSUME IInv, Remember, NEW c \in Calls,
           \/ PolicyUnavailable(c) \/ AgentNotRegistered(c) \/ AgentInactive(c)
           \/ CapabilityDenied(c)
    PROVE  IInv'
<1>1. stage[c] = "policy"
  BY DEF PolicyUnavailable, AgentNotRegistered, AgentInactive, CapabilityDenied
<1>2. {Listing} \in SUBSET Tools /\ "describe_agent" \in Tools
  BY PipelineAssumption
<1>3. \E code \in PolicyCodes, tips \in SUBSET Tools : RejectedByPolicy(c, code, tips)
  <2>1. CASE PolicyUnavailable(c)
    <3>1. RejectedByPolicy(c, "AGENT_POLICY_UNAVAILABLE", {Listing})
      BY <2>1 DEF PolicyUnavailable
    <3> QED BY <1>2, <3>1 DEF PolicyCodes
  <2>2. CASE AgentNotRegistered(c)
    <3>1. RejectedByPolicy(c, "AGENT_NOT_REGISTERED", {Listing})
      BY <2>2 DEF AgentNotRegistered
    <3> QED BY <1>2, <3>1 DEF PolicyCodes
  <2>3. CASE AgentInactive(c)
    <3> DEFINE tips == {Listing} \cap registry[req[c].agent].caps
    <3>1. RejectedByPolicy(c, "AGENT_INACTIVE", tips)
      BY <2>3 DEF AgentInactive
    <3>2. tips \in SUBSET Tools
      BY <1>2
    <3> QED BY <3>1, <3>2 DEF PolicyCodes
  <2>4. CASE CapabilityDenied(c)
    <3> DEFINE tips == {"describe_agent", Listing} \cap registry[req[c].agent].caps
    <3>1. RejectedByPolicy(c, "AGENT_CAPABILITY_DENIED", tips)
      BY <2>4 DEF CapabilityDenied
    <3>2. tips \in SUBSET Tools
      BY <1>2
    <3> QED BY <3>1, <3>2 DEF PolicyCodes
  <2> QED BY <2>1, <2>2, <2>3, <2>4
<1> QED BY <1>1, <1>3, PolicyRejectsKeeps

LEMMA GateAndKeyAnswersKeep ==
    ASSUME IInv, Remember, NEW c \in Calls,
           \/ GateUnavailable(c) \/ GateRejects(c) \/ KeyRefused(c) \/ KeyReplayed(c)
    PROVE  IInv'
<1>1. TypeOK /\ CallInv(c) /\ stage[c] \in Guarded /\ stage[c] \in {"gate", "key"}
  BY DEF IInv, Guarded, GateUnavailable, GateRejects, KeyRefused, KeyReplayed
<1>2. ~claimed[c]
  BY <1>1 DEF CallInv, Effects
<1>3. req[c].name \in Tools
  BY <1>1 DEF CallInv, Passed
<1>4. {Listing} \in SUBSET Tools /\ {req[c].name} \in SUBSET Tools
  BY <1>3, PipelineAssumption
<1>5. \E out \in Outcomes :
          /\ ReturnInner(c, out) /\ ~out.thrown
          /\ UNCHANGED <<req, seen, ran, claimed, registry, gates>>
  <2>1. CASE GateUnavailable(c)
    <3> DEFINE out == Failure("CONFIRMATION_GATE_UNAVAILABLE", {Listing})
    <3>1. out \in Outcomes /\ ~out.thrown
      BY <1>4, OutcomeTypes DEF Codes, GateCodes, Failure
    <3> QED BY <2>1, <3>1 DEF GateUnavailable
  <2>2. CASE GateRejects(c)
    <3> DEFINE code == IF req[c].confirmation = "none" THEN "CONFIRMATION_REQUIRED"
                       ELSE "INVALID_CONFIRMATION"
               out == Failure(code, {Listing})
    <3>1. code \in Codes
      BY DEF Codes, GateCodes
    <3>2. out \in Outcomes /\ ~out.thrown
      BY <1>4, <3>1, OutcomeTypes DEF Failure
    <3> QED BY <2>2, <3>2 DEF GateRejects
  <2>3. CASE KeyRefused(c)
    <3> DEFINE code == IF req[c].key = "bad" THEN "INVALID_IDEMPOTENCY_KEY"
                       ELSE "KEY_REFUSED"
               out == Failure(code, {req[c].name})
    <3>1. code \in Codes
      BY DEF Codes, KeyCodes
    <3>2. out \in Outcomes /\ ~out.thrown
      BY <1>4, <3>1, OutcomeTypes DEF Failure
    <3> QED BY <2>3, <3>2 DEF KeyRefused
  <2>4. CASE KeyReplayed(c)
    <3> DEFINE out == Success("REPLAYED")
    <3>1. out \in Outcomes /\ ~out.thrown
      BY OutcomeTypes DEF Codes, KeyCodes, Success
    <3> QED BY <2>4, <3>1 DEF KeyReplayed
  <2> QED BY <2>1, <2>2, <2>3, <2>4
<1> QED BY <1>1, <1>2, <1>5, InnerAnswerKeeps

LEMMA ToolAnswersKeep ==
    ASSUME IInv, Remember, NEW c \in Calls,
           InputInvalid(c) \/ ToolRefuses(c) \/ ToolReturns(c)
    PROVE  IInv'
<1>1. TypeOK /\ CallInv(c) /\ stage[c] \in Guarded
      /\ UNCHANGED <<req, seen, ran, claimed, registry, gates>>
  BY DEF IInv, Guarded, InputInvalid, ToolRefuses, ToolReturns
<1>2. req[c].name \in Tools
  BY <1>1 DEF CallInv, Passed, Guarded
<1>3. \A t \in TipSets : t \in SUBSET Tools
  BY PipelineAssumption
<1>4. \A code \in ThrownCodes : \A t \in TipSets :
          /\ Thrown(code, t) \in Outcomes /\ Thrown(code, t).thrown
          /\ Thrown(code, t).code = code /\ code # "INVALID_INPUT"
  BY <1>3, OutcomeTypes DEF Codes, Thrown, ThrownCodes
<1>5. \E out \in Outcomes :
          /\ ReturnInner(c, out)
          /\ out.thrown => out.code \in ThrownCodes
          /\ claimed[c] => /\ out.code \in KeyCodes \cup ToolCodes \cup ThrownCodes
                           /\ out.code # "INVALID_INPUT"
  <2>1. CASE InputInvalid(c)
    <3> DEFINE out == Failure("INVALID_INPUT", {req[c].name})
    <3>1. out \in Outcomes /\ ~out.thrown
      BY <1>2, OutcomeTypes DEF Codes, ToolCodes, Failure
    <3>2. ~claimed[c]
      BY <1>1, <2>1 DEF CallInv, Effects, InputInvalid
    <3> QED BY <2>1, <3>1, <3>2 DEF InputInvalid
  <2>2. CASE ToolRefuses(c)
    <3>1. PICK t \in TipSets :
              \/ ReturnInner(c, Failure("SOFT_FAILURE", t))
              \/ \E code \in ThrownCodes : t # {} /\ ReturnInner(c, Thrown(code, t))
      BY <2>2 DEF ToolRefuses
    <3>2. CASE ReturnInner(c, Failure("SOFT_FAILURE", t))
      <4> DEFINE out == Failure("SOFT_FAILURE", t)
      <4>1. /\ out \in Outcomes /\ ~out.thrown /\ out.code = "SOFT_FAILURE"
            /\ "SOFT_FAILURE" \in ToolCodes
        BY <1>3, OutcomeTypes DEF Codes, ToolCodes, Failure
      <4> QED BY <3>2, <4>1
    <3>3. CASE \E code \in ThrownCodes : t # {} /\ ReturnInner(c, Thrown(code, t))
      BY <1>4, <3>3
    <3> QED BY <3>1, <3>2, <3>3
  <2>3. CASE ToolReturns(c)
    <3>1. CASE ReturnInner(c, Success("OK"))
      <4> DEFINE out == Success("OK")
      <4>1. /\ out \in Outcomes /\ ~out.thrown /\ out.code = "OK"
            /\ "OK" \in ToolCodes
        BY OutcomeTypes DEF Codes, ToolCodes, Success
      <4> QED BY <3>1, <4>1
    <3>2. CASE \E code \in ThrownCodes, t \in TipSets :
                  t # {} /\ ReturnInner(c, Thrown(code, t))
      BY <1>4, <3>2
    <3> QED BY <2>3, <3>1, <3>2 DEF ToolReturns
  <2> QED BY <2>1, <2>2, <2>3
<1> QED BY <1>1, <1>5, InnerAnswerKeeps

-----------------------------------------------------------------------------
(* The invariant is inductive.                                             *)

LEMMA InitEstablishes == Init => IInv
<1> SUFFICES ASSUME Init PROVE IInv
  OBVIOUS
<1>1. NoRequest \in Request
  BY DEF NoRequest, Request, Names
<1>2. Unanswered \in Outcomes
  BY DEF Unanswered, Outcomes
<1>3. TypeOK
  <2>1. <<>> \in Seq(EntryType)
    OBVIOUS
  <2> QED BY <1>1, <1>2, <2>1 DEF Init, TypeOK, Stages, EntryType
<1>4. ASSUME NEW c \in Calls PROVE CallInv(c)
  <2>1. /\ stage[c] = "idle" /\ trail[c] = <<>> /\ answer[c] = Unanswered
        /\ ran[c] = FALSE /\ claimed[c] = FALSE
    BY DEF Init
  <2>2. answer[c].code \notin GateCodes \cup KeyCodes \cup ToolCodes \cup ErrorCodes
    BY <2>1 DEF Unanswered, GateCodes, KeyCodes, ToolCodes, ErrorCodes
  <2> QED BY <2>1, <2>2 DEF CallInv, Quiet, Passed, Effects, Told, Guarded, Inner
<1> QED BY <1>3, <1>4 DEF IInv

LEMMA NextKeeps == IInv /\ [Next]_vars => IInv'
<1> SUFFICES ASSUME IInv, [Next]_vars PROVE IInv'
  OBVIOUS
<1>1. CASE Next
  <2>1. Remember
    BY <1>1 DEF Next
  <2>2. ASSUME NEW c \in Calls, Arrive(c) PROVE IInv'
    BY <2>1, <2>2, ArriveKeeps
  <2>3. ASSUME NEW c \in Calls, Proceed(c) PROVE IInv'
    <3>1. CASE PolicyUnavailable(c) \/ AgentNotRegistered(c) \/ AgentInactive(c)
               \/ CapabilityDenied(c)
      BY <2>1, <3>1, PolicyAnswersKeep
    <3>2. CASE PolicyPasses(c)
      BY <2>1, <3>2, PolicyPassesKeeps
    <3>3. CASE GateUnavailable(c) \/ GateRejects(c) \/ KeyRefused(c) \/ KeyReplayed(c)
      BY <2>1, <3>3, GateAndKeyAnswersKeep
    <3>4. CASE GatePasses(c)
      BY <2>1, <3>4, GatePassesKeeps
    <3>5. CASE KeyClaimed(c)
      BY <2>1, <3>5, KeyClaimedKeeps
    <3>6. CASE InputInvalid(c) \/ ToolRefuses(c) \/ ToolReturns(c)
      BY <2>1, <3>6, ToolAnswersKeep
    <3>7. CASE ToolCommits(c)
      BY <2>1, <3>7, ToolCommitsKeeps
    <3> QED BY <2>3, <3>1, <3>2, <3>3, <3>4, <3>5, <3>6, <3>7 DEF Proceed
  <2>4. CASE SwitchGate
    <3>1. UNCHANGED <<req, stage, seen, ran, claimed, answer, trail, registry>>
      BY <2>4 DEF SwitchGate, callVars
    <3>2. gates' \in SUBSET Gateable
      BY <2>4 DEF SwitchGate, IInv, TypeOK
    <3>3. TypeOK'
      <4>1. permitted' \in [Calls -> BOOLEAN] /\ ungated' \in [Calls -> BOOLEAN]
        BY <2>1, HistoryGrows DEF IInv
      <4> QED BY <3>1, <3>2, <4>1 DEF IInv, TypeOK
    <3>4. \A c \in Calls : CallInv(c)'
      BY <2>1, <3>1, Untouched
    <3> QED BY <3>3, <3>4 DEF IInv
  <2> QED BY <1>1, <2>2, <2>3, <2>4 DEF Next
<1>2. CASE UNCHANGED vars
  <2>1. UNCHANGED <<req, stage, seen, ran, claimed, answer, trail, registry, gates,
                    permitted, ungated>>
    BY <1>2 DEF vars
  <2>2. TypeOK'
    BY <2>1 DEF IInv, TypeOK
  <2>3. ASSUME NEW c \in Calls PROVE CallInv(c)'
    <3>1. CallInv(c)
      BY DEF IInv
    <3>2. Quiet(c)' /\ Passed(c)'
      BY <2>1, <3>1 DEF CallInv, Quiet, Passed, GateOpen
    <3>3. Effects(c)'
      BY <2>1, <3>1 DEF CallInv, Effects, GateOpen
    <3>4. Told(c)'
      BY <2>1, <3>1 DEF CallInv, Told, Attributable
    <3> QED BY <3>2, <3>3, <3>4 DEF CallInv
  <2> QED BY <2>2, <2>3 DEF IInv
<1> QED BY <1>1, <1>2

\* The inductive invariant holds in every reachable state.
THEOREM InductiveInvariant == Spec => []IInv
<1>1. Init => IInv
  BY InitEstablishes
<1>2. IInv /\ [Next]_vars => IInv'
  BY NextKeeps
<1> QED BY <1>1, <1>2, PTL DEF Spec

-----------------------------------------------------------------------------
(* What follows from it.                                                   *)

\* Every variable of the pipeline keeps its type.
THEOREM TypeCorrect == Spec => []TypeOK
<1>1. IInv => TypeOK
  BY DEF IInv
<1> QED BY <1>1, InductiveInvariant, PTL

\* A tool works only for a human or for an agent that the registry permitted
\* at some moment of the call, however many calls race.
THEOREM AuthorisedEffects == Spec => []EffectIsAuthorised
<1>1. IInv => EffectIsAuthorised
  BY DEF IInv, CallInv, Effects, EffectIsAuthorised
<1> QED BY <1>1, InductiveInvariant, PTL

\* A tool behind a gate that stayed on works only with a confirmation, which
\* its audit entry then carries.
THEOREM ConfirmedEffects == Spec => []GatedEffectIsConfirmed
<1>1. IInv => GatedEffectIsConfirmed
  BY DEF IInv, CallInv, Effects, Told, GateOpen, GatedEffectIsConfirmed, Answered
<1> QED BY <1>1, InductiveInvariant, PTL

\* A call that a guard rejects has not taken its idempotency key.
THEOREM KeysAreKept == Spec => []RejectionKeepsKey
<1>1. IInv => RejectionKeepsKey
  BY DEF IInv, CallInv, Effects, Told, GateOpen, RejectionKeepsKey
<1> QED BY <1>1, InductiveInvariant, PTL

\* Only a call that the policy permitted learns what the inner stages say.
THEOREM PolicyComesFirst == Spec => []PolicyGuardsTheGate
<1>1. IInv => PolicyGuardsTheGate
  BY DEF IInv, CallInv, Told, PolicyGuardsTheGate
<1> QED BY <1>1, InductiveInvariant, PTL

\* Every answered call of a known tenant left exactly one audit entry, which
\* says what the caller was told.
THEOREM AuditIsComplete == Spec => []EveryCallAudited
<1>1. IInv => EveryCallAudited
  BY DEF IInv, CallInv, Quiet, Told, EveryCallAudited, Answered
<1> QED BY <1>1, InductiveInvariant, PTL
-----------------------------------------------------------------------------
(* Suggestions.  The capabilities that let a call through are known from   *)
(* the policy on, and name the call's own tool: so what the filter falls   *)
(* back to is callable as well.                                            *)

Offers(c) ==
    /\ stage[c] \in {"idle", "policy"} => seen[c] = {}
    /\ stage[c] \in Guarded => req[c].name \in seen[c]
    /\ stage[c] = "answered" /\ seen[c] # {} /\ ~answer[c].thrown =>
            answer[c].tips \subseteq seen[c]

OffersInv == \A c \in Calls : Offers(c)

LEMMA OffersUntouched ==
    ASSUME NEW d \in Calls, Offers(d), req'[d] = req[d], stage'[d] = stage[d],
           seen'[d] = seen[d], answer'[d] = answer[d]
    PROVE  Offers(d)'
BY DEF Offers

\* What leaves through the filter and is not thrown names callable tools only.
LEMMA FilterOffers ==
    ASSUME NEW c \in Calls, req[c].name \in seen[c], NEW out \in Outcomes,
           out.ok => out.tips = {}, ~Handled(Filtered(c, out)).thrown
    PROVE  Handled(Filtered(c, out)).tips \subseteq seen[c]
<1> DEFINE kept == IF out.tips \cap seen[c] # {} THEN out.tips \cap seen[c] ELSE {req[c].name}
<1>1. CASE out.ok \/ out.thrown \/ out.tips \subseteq seen[c]
  <2>1. Filtered(c, out) = out
    BY <1>1 DEF Filtered
  <2> QED BY <1>1, <2>1 DEF Handled
<1>2. CASE ~(out.ok \/ out.thrown \/ out.tips \subseteq seen[c])
  <2>1. Filtered(c, out) = [out EXCEPT !.tips = kept]
    BY <1>2 DEF Filtered
  <2>2. Filtered(c, out).tips = kept /\ ~Filtered(c, out).thrown
    BY <1>2, <2>1 DEF Outcomes
  <2>3. kept \subseteq seen[c]
    OBVIOUS
  <2> QED BY <2>2, <2>3 DEF Handled
<1> QED BY <1>1, <1>2

\* A call that is turned away before the policy has let it through has seen
\* no capabilities.
LEMMA TurnedAwayOffers ==
    ASSUME IInv, NEW c \in Calls, Offers(c), stage[c] \in {"idle", "policy"},
           UNCHANGED seen, stage'[c] = "answered"
    PROVE  Offers(c)'
BY DEF Offers, Guarded

LEMMA InnerReturnOffers ==
    ASSUME IInv, NEW c \in Calls, Offers(c), stage[c] \in Guarded, NEW out \in Outcomes,
           ReturnInner(c, out), out.ok => out.tips = {}, UNCHANGED seen
    PROVE  Offers(c)'
<1>1. /\ stage \in [Calls -> Stages] /\ answer \in [Calls -> Outcomes]
      /\ req[c].name \in seen[c]
  BY DEF IInv, TypeOK, Offers
<1>2. stage'[c] = "answered" /\ answer'[c] = Handled(Filtered(c, out))
  BY <1>1 DEF ReturnInner, Return
<1>3. ~answer'[c].thrown => answer'[c].tips \subseteq seen'[c]
  BY <1>1, <1>2, FilterOffers
<1> QED BY <1>2, <1>3 DEF Offers, Guarded

\* The call goes on, behind the policy.
LEMMA MoveOffers ==
    ASSUME IInv, NEW c \in Calls, stage'[c] \in Guarded, req'[c].name \in seen'[c]
    PROVE  Offers(c)'
BY DEF Offers, Guarded

\* What an inner stage hands back.
LEMMA InnerStagesOffer ==
    ASSUME IInv, NEW c \in Calls, Offers(c),
           \/ GateUnavailable(c) \/ GateRejects(c) \/ KeyRefused(c) \/ KeyReplayed(c)
           \/ InputInvalid(c) \/ ToolRefuses(c) \/ ToolReturns(c)
    PROVE  Offers(c)'
<1>1. /\ stage[c] \in Guarded /\ req[c].name \in Tools /\ UNCHANGED seen
  BY DEF IInv, CallInv, Passed, Guarded, GateUnavailable, GateRejects, KeyRefused,
     KeyReplayed, InputInvalid, ToolRefuses, ToolReturns
<1>2. /\ {Listing} \in SUBSET Tools /\ {req[c].name} \in SUBSET Tools
      /\ \A t \in TipSets : t \in SUBSET Tools
  BY <1>1, PipelineAssumption
<1>3. ASSUME NEW code \in Codes, NEW t \in SUBSET Tools
      PROVE  /\ Failure(code, t) \in Outcomes /\ ~Failure(code, t).ok
             /\ Thrown(code, t) \in Outcomes /\ ~Thrown(code, t).ok
             /\ Success(code) \in Outcomes /\ Success(code).tips = {}
  BY OutcomeTypes DEF Failure, Thrown, Success
<1>4. \E out \in Outcomes : ReturnInner(c, out) /\ (out.ok => out.tips = {})
  <2>1. CASE GateUnavailable(c)
    <3>1. "CONFIRMATION_GATE_UNAVAILABLE" \in Codes
      BY DEF Codes, GateCodes
    <3> QED BY <1>2, <1>3, <2>1, <3>1 DEF GateUnavailable
  <2>2. CASE GateRejects(c)
    <3>1. (IF req[c].confirmation = "none" THEN "CONFIRMATION_REQUIRED"
           ELSE "INVALID_CONFIRMATION") \in Codes
      BY DEF Codes, GateCodes
    <3> QED BY <1>2, <1>3, <2>2, <3>1 DEF GateRejects
  <2>3. CASE KeyRefused(c)
    <3>1. (IF req[c].key = "bad" THEN "INVALID_IDEMPOTENCY_KEY" ELSE "KEY_REFUSED") \in Codes
      BY DEF Codes, KeyCodes
    <3> QED BY <1>2, <1>3, <2>3, <3>1 DEF KeyRefused
  <2>4. CASE KeyReplayed(c)
    <3>1. "REPLAYED" \in Codes
      BY DEF Codes, KeyCodes
    <3> QED BY <1>2, <1>3, <2>4, <3>1 DEF KeyReplayed
  <2>5. CASE InputInvalid(c)
    <3>1. "INVALID_INPUT" \in Codes
      BY DEF Codes, ToolCodes
    <3> QED BY <1>2, <1>3, <2>5, <3>1 DEF InputInvalid
  <2>6. CASE ToolRefuses(c)
    <3>1. "SOFT_FAILURE" \in Codes /\ ThrownCodes \subseteq Codes
      BY DEF Codes, ToolCodes
    <3> QED BY <1>2, <1>3, <2>6, <3>1 DEF ToolRefuses
  <2>7. CASE ToolReturns(c)
    <3>1. "OK" \in Codes /\ ThrownCodes \subseteq Codes
      BY DEF Codes, ToolCodes
    <3> QED BY <1>2, <1>3, <2>7, <3>1 DEF ToolReturns
  <2> QED BY <2>1, <2>2, <2>3, <2>4, <2>5, <2>6, <2>7
<1> QED BY <1>1, <1>4, InnerReturnOffers

\* What a call hands on: the policy reads the capabilities, no later stage
\* changes them.
LEMMA PassingOffers ==
    ASSUME IInv, NEW c \in Calls, Offers(c),
           PolicyPasses(c) \/ GatePasses(c) \/ KeyClaimed(c) \/ ToolCommits(c)
    PROVE  Offers(c)'
<1>1. req[c] \in Request /\ stage \in [Calls -> Stages] /\ seen \in [Calls -> SUBSET Tools]
  BY DEF IInv, TypeOK
<1>2. AfterPolicy(req[c]) \in Guarded /\ AfterGate(req[c]) \in Guarded
  BY <1>1, StageTypes DEF Guarded
<1>3. CASE PolicyPasses(c)
  <2>1. req[c].agent \in Agents /\ req[c].agent # Human
    BY <1>3, PipelineAssumption DEF IInv, CallInv, Passed, PolicyPasses
  <2>2. req[c].name \in registry[req[c].agent].caps
    BY <1>3, <2>1 DEF PolicyPasses, Permits
  <2> QED BY <1>1, <1>2, <1>3, <2>2, MoveOffers DEF PolicyPasses
<1>4. CASE GatePasses(c) \/ KeyClaimed(c) \/ ToolCommits(c)
  <2>1. req[c].name \in seen[c] /\ UNCHANGED <<req, seen>>
    BY <1>4 DEF Offers, Guarded, GatePasses, KeyClaimed, ToolCommits
  <2>2. stage'[c] \in Guarded
    BY <1>1, <1>2, <1>4 DEF Guarded, GatePasses, KeyClaimed, ToolCommits
  <2> QED BY <2>1, <2>2, MoveOffers
<1> QED BY <1>3, <1>4

LEMMA ArrivingOffers ==
    ASSUME IInv, NEW c \in Calls, Offers(c), Arrive(c)
    PROVE  Offers(c)'
<1>0. /\ stage \in [Calls -> Stages] /\ seen \in [Calls -> SUBSET Tools]
      /\ req \in [Calls -> Request] /\ stage[c] = "idle"
  BY DEF IInv, TypeOK, Arrive, Made, NameIsNoString, IdentityIsInvalid, ToolIsUnknown,
     KeysClash, EnterPipeline
<1>1. PICK r \in Requests :
          \/ NameIsNoString(c, r) \/ IdentityIsInvalid(c, r) \/ ToolIsUnknown(c, r)
          \/ KeysClash(c, r) \/ EnterPipeline(c, r)
  BY DEF Arrive
<1>2. CASE \/ NameIsNoString(c, r) \/ IdentityIsInvalid(c, r) \/ ToolIsUnknown(c, r)
           \/ KeysClash(c, r)
  <2>1. UNCHANGED seen /\ stage'[c] = "answered"
    BY <1>0, <1>2 DEF NameIsNoString, IdentityIsInvalid, ToolIsUnknown, KeysClash, Rejected
  <2> QED BY <1>0, <2>1, TurnedAwayOffers
<1>3. CASE EnterPipeline(c, r)
  <2>1. r \in Request /\ req'[c] = r /\ r.name \in Tools
    BY <1>0, <1>3, PipelineAssumption DEF EnterPipeline, Made
  <2>2. stage'[c] = FirstStage(r) /\ seen'[c] = IF r.agent = Human THEN Tools ELSE {}
    BY <1>0, <1>3 DEF EnterPipeline
  <2>3. CASE r.agent = Human
    <3>1. FirstStage(r) \in Guarded
      BY <2>1, <2>3, StageTypes DEF FirstStage, Guarded
    <3> QED BY <2>1, <2>2, <2>3, <3>1, MoveOffers
  <2>4. CASE r.agent # Human
    BY <2>2, <2>4 DEF FirstStage, Offers, Guarded
  <2> QED BY <2>3, <2>4
<1> QED BY <1>1, <1>2, <1>3

\* A step of one call leaves the others' request, stage, capabilities and
\* answer alone.
LEMMA OthersStay ==
    ASSUME IInv, NEW c \in Calls, Arrive(c) \/ Proceed(c), NEW d \in Calls, d # c
    PROVE  /\ req'[d] = req[d] /\ stage'[d] = stage[d]
           /\ seen'[d] = seen[d] /\ answer'[d] = answer[d]
<1>1. /\ req \in [Calls -> Request] /\ stage \in [Calls -> Stages]
      /\ seen \in [Calls -> SUBSET Tools] /\ answer \in [Calls -> Outcomes]
  BY DEF IInv, TypeOK
<1>2. CASE Arrive(c)
  BY <1>1, <1>2 DEF Arrive, Made, Rejected, NameIsNoString, IdentityIsInvalid, ToolIsUnknown,
     KeysClash, EnterPipeline
<1>3. CASE PolicyPasses(c) \/ GatePasses(c) \/ KeyClaimed(c) \/ ToolCommits(c)
  BY <1>1, <1>3 DEF PolicyPasses, GatePasses, KeyClaimed, ToolCommits
<1>4. CASE \/ PolicyUnavailable(c) \/ AgentNotRegistered(c) \/ AgentInactive(c)
           \/ CapabilityDenied(c)
  BY <1>1, <1>4 DEF PolicyUnavailable, AgentNotRegistered, AgentInactive, CapabilityDenied,
     RejectedByPolicy, Return
<1>5. CASE \/ GateUnavailable(c) \/ GateRejects(c) \/ KeyRefused(c) \/ KeyReplayed(c)
           \/ InputInvalid(c) \/ ToolRefuses(c) \/ ToolReturns(c)
  BY <1>1, <1>5 DEF GateUnavailable, GateRejects, KeyRefused, KeyReplayed, InputInvalid,
     ToolRefuses, ToolReturns, ReturnInner, Return
<1> QED BY <1>2, <1>3, <1>4, <1>5 DEF Proceed

LEMMA NextOffers == IInv /\ OffersInv /\ [Next]_vars => OffersInv'
<1> SUFFICES ASSUME IInv, OffersInv, [Next]_vars, NEW d \in Calls PROVE Offers(d)'
  BY DEF OffersInv
<1>1. Offers(d)
  BY DEF OffersInv
<1>2. ASSUME NEW c \in Calls, Arrive(c) \/ Proceed(c) PROVE Offers(d)'
  <2>1. CASE d # c
    BY <1>1, <1>2, <2>1, OthersStay, OffersUntouched
  <2>2. CASE d = c /\ Arrive(c)
    BY <1>1, <2>2, ArrivingOffers
  <2>3. CASE d = c /\ Proceed(c)
    <3>1. CASE \/ PolicyUnavailable(c) \/ AgentNotRegistered(c) \/ AgentInactive(c)
               \/ CapabilityDenied(c)
      <4>1. stage[c] = "policy" /\ UNCHANGED seen /\ stage'[c] = "answered"
        BY <3>1 DEF PolicyUnavailable, AgentNotRegistered, AgentInactive, CapabilityDenied,
           RejectedByPolicy, Return, IInv, TypeOK
      <4> QED BY <1>1, <2>3, <4>1, TurnedAwayOffers
    <3>2. CASE PolicyPasses(c) \/ GatePasses(c) \/ KeyClaimed(c) \/ ToolCommits(c)
      BY <1>1, <2>3, <3>2, PassingOffers
    <3>3. CASE \/ GateUnavailable(c) \/ GateRejects(c) \/ KeyRefused(c) \/ KeyReplayed(c)
               \/ InputInvalid(c) \/ ToolRefuses(c) \/ ToolReturns(c)
      BY <1>1, <2>3, <3>3, InnerStagesOffer
    <3> QED BY <2>3, <3>1, <3>2, <3>3 DEF Proceed
  <2> QED BY <1>2, <2>1, <2>2, <2>3
<1>3. CASE SwitchGate \/ UNCHANGED vars
  <2>1. UNCHANGED <<req, stage, seen, answer>>
    BY <1>3 DEF SwitchGate, callVars, vars
  <2> QED BY <1>1, <2>1, OffersUntouched
<1> QED BY <1>2, <1>3 DEF Next

\* A failure that an inner stage returns offers the caller nothing it may not
\* call, by the capabilities that let this very call through.
THEOREM SuggestionsAreCallable == Spec => []SuggestionsCallable
<1>1. Init => OffersInv
  BY DEF Init, OffersInv, Offers, Guarded
<1>2. IInv /\ OffersInv /\ [Next]_vars => OffersInv'
  BY NextOffers
<1>3. OffersInv => SuggestionsCallable
  BY DEF OffersInv, Offers, SuggestionsCallable, Answered
<1> QED BY <1>1, <1>2, <1>3, InductiveInvariant, PTL DEF Spec
=============================================================================
