----------------------- MODULE ProductVersionsProofs ------------------------
(***************************************************************************)
(* No client ever overwrites, by a conditional update, what it has not     *)
(* seen, for any number of clients.  The argument: versions only grow, so  *)
(* a client whose version is the current one read the row after the last   *)
(* commit, and so did it read the relations; and the row cannot change     *)
(* between the check of the version and the commit, as the holder of the   *)
(* row's lock is the only one that commits.                                *)
(***************************************************************************)
EXTENDS ProductVersions, TLAPS

\* Nothing is older than the version that wrote it.
Stamped ==
    /\ row.fields <= row.version
    /\ \A p \in Parts : \A v \in parts[p] : v <= row.version

\* No client is ahead of the row.
Behind == \A c \in Clients : seen[c].version <= row.version

\* Only the holder of the lock is about to commit, and its condition holds.
Locked ==
    \A c \in Clients : pc[c] = "holding" => lock = c /\ Matches(c)

\* A client that passed the version it had read, and missed, was overtaken.
Missed ==
    \A c \in Clients : pc[c] = "missed" /\ Informed(c) =>
        call[c].expected < row.version

\* The tools that add a part pass no version.
Plain == \A c \in Clients : call[c].writes # "update" => call[c].expected = Forced

IInv ==
    /\ TypeOK
    /\ Stamped
    /\ Behind
    /\ Locked
    /\ Plain
    /\ Missed
    /\ VersionIdentifiesContent
    /\ RefusalsAreReal

-----------------------------------------------------------------------------
\* The initial state satisfies the invariant.
LEMMA InitInv == Init => IInv
  BY VersionsAssumption
  DEF Init, IInv, TypeOK, Stamped, Behind, Locked, Plain, Missed, NoCall,
      VersionIdentifiesContent, RefusalsAreReal, Row, Call, Writes, Forced,
      Parts, States, Answers, Rereads

\* What a commit writes is well typed, and its version is new.
LEMMA AfterType ==
  ASSUME TypeOK, NEW c \in Clients
  PROVE  /\ RowAfter(c) \in Row
         /\ PartsAfter(c) \in [Parts -> SUBSET Nat]
         /\ RowAfter(c).version = row.version + 1
         /\ \A p \in Parts : parts[p] \subseteq PartsAfter(c)[p]
  BY DEF TypeOK, RowAfter, PartsAfter, NextVersion, Row

\* Types are kept by every step.
LEMMA TypeStep == TypeOK /\ [Next]_vars => TypeOK'
<1> SUFFICES ASSUME TypeOK, [Next]_vars PROVE TypeOK'
  OBVIOUS
<1>1. CASE UNCHANGED vars
  BY <1>1 DEF TypeOK, vars
<1>2. ASSUME NEW c \in Clients, ReadRow(c)
      PROVE  TypeOK'
  BY <1>2 DEF TypeOK, ReadRow, States, Answers
<1>2a. ASSUME NEW c \in Clients, NEW p \in Parts, ReadPart(c, p)
       PROVE  TypeOK'
  <2>1. /\ got' \in [Clients -> [Parts -> SUBSET Nat]]
        /\ fetched' \in [Clients -> SUBSET Parts]
    BY <1>2a DEF TypeOK, ReadPart
  <2>2. pc' \in [Clients -> States]
    BY <1>2a DEF TypeOK, ReadPart, States
  <2>3. QED
    BY <1>2a, <2>1, <2>2 DEF TypeOK, ReadPart
<1>3. ASSUME NEW c \in Clients, Begin(c)
      PROVE  TypeOK'
  <2>1. Expectations \subseteq Nat
    BY VersionsAssumption DEF Expectations, Forced
  <2>2. call' \in [Clients -> Call]
    BY <1>3, <2>1 DEF TypeOK, Begin, Call
  <2>3. QED
    BY <1>3, <2>2 DEF TypeOK, Begin, States, Answers, Rereads
<1>4. ASSUME NEW c \in Clients, Lock(c) \/ Miss(c) \/ Recheck(c) \/ Fail(c)
      PROVE  TypeOK'
  BY <1>4 DEF TypeOK, Lock, Miss, Recheck, Report, Fail, Settle, States, Answers, Rereads
<1>5. ASSUME NEW c \in Clients, Commit(c)
      PROVE  TypeOK'
  <2>1. row' \in Row /\ parts' \in [Parts -> SUBSET Nat]
    BY <1>5, AfterType DEF Commit
  <2>2. seen' \in [Clients -> Row] /\ fetched' \in [Clients -> SUBSET Parts]
    BY <1>5, AfterType DEF Commit, Learn, TypeOK
  <2>3. QED
    BY <1>5, <2>1, <2>2 DEF TypeOK, Commit, Settle, States, Answers
<1>6. QED
  BY <1>1, <1>2, <1>2a, <1>3, <1>4, <1>5 DEF Next

\* A client that reads keeps the invariant: what it reads is current.
LEMMA ReadStep ==
  ASSUME IInv, TypeOK', NEW c \in Clients,
         ReadRow(c) \/ (\E p \in Parts : ReadPart(c, p))
  PROVE  IInv'
<1>0. /\ UNCHANGED <<row, parts, lock, call, recheck>>
      /\ \A d \in Clients : pc'[d] \in {"started", "holding", "missed"} =>
            pc'[d] = pc[d] /\ seen'[d] = seen[d]
      /\ \A d \in Clients : answer'[d] # "none" =>
            answer'[d] = answer[d] /\ seen'[d] = seen[d]
  BY DEF ReadRow, ReadPart, IInv, TypeOK
<1>1. Stamped'
  BY <1>0 DEF IInv, Stamped
<1>1a. Behind'
  <2>1. \A d \in Clients : seen'[d] = seen[d] \/ seen'[d] = row
    BY DEF IInv, TypeOK, ReadRow, ReadPart
  <2>2. row.version <= row.version
    BY DEF IInv, TypeOK, Row
  <2>3. QED
    BY <1>0, <2>1, <2>2 DEF IInv, Behind
<1>2. Locked'
  BY DEF IInv, TypeOK, Locked, Matches, ReadRow, ReadPart
<1>3. Plain' /\ Missed'
  BY <1>0 DEF IInv, Plain, Informed, Missed
<1>4. VersionIdentifiesContent'
  <2>1. CASE ReadRow(c)
    BY <1>0, <2>1 DEF IInv, TypeOK, VersionIdentifiesContent, ReadRow
  <2>2. ASSUME NEW p \in Parts, ReadPart(c, p)
        PROVE  VersionIdentifiesContent'
    <3> SUFFICES ASSUME NEW d \in Clients, seen'[d].version = row'.version
                 PROVE  /\ seen'[d].fields = row'.fields
                        /\ \A q \in fetched'[d] : got'[d][q] = parts'[q]
      BY DEF VersionIdentifiesContent
    <3>1. /\ seen[d].fields = row.fields
          /\ \A q \in fetched[d] : got[d][q] = parts[q]
      BY <1>0, <2>2 DEF IInv, VersionIdentifiesContent, ReadPart
    <3>2. CASE d # c
      BY <1>0, <2>2, <3>1, <3>2 DEF IInv, TypeOK, ReadPart
    <3>3. CASE d = c
      <4>1. /\ fetched'[c] = fetched[c] \cup {p}
            /\ got'[c][p] = parts[p]
            /\ \A q \in Parts \ {p} : got'[c][q] = got[c][q]
        BY <2>2 DEF IInv, TypeOK, ReadPart
      <4>2. fetched[c] \subseteq Parts /\ p \notin fetched[c]
        BY <2>2 DEF IInv, TypeOK, ReadPart
      <4>3. seen' = seen
        BY <2>2 DEF ReadPart
      <4>4. QED
        BY <1>0, <3>1, <3>3, <4>1, <4>2, <4>3
    <3>4. QED
      BY <3>2, <3>3
  <2>3. QED
    BY <2>1, <2>2
<1>5. RefusalsAreReal'
  BY <1>0 DEF IInv, Informed, RefusalsAreReal
<1>6. QED
  BY <1>1, <1>1a, <1>2, <1>3, <1>4, <1>5 DEF IInv

\* So do the steps of a write that leave the product alone.
LEMMA WaitStep ==
  ASSUME IInv, TypeOK', NEW c \in Clients,
         Begin(c) \/ Lock(c) \/ Miss(c) \/ Recheck(c) \/ Fail(c)
  PROVE  IInv'
<1>1. UNCHANGED <<row, parts, seen, got, fetched>>
  BY DEF Begin, Lock, Miss, Recheck, Fail
<1>1a. \A d \in Clients \ {c} : /\ pc'[d] = pc[d] /\ call'[d] = call[d]
                              /\ answer'[d] = answer[d] /\ recheck'[d] = recheck[d]
  BY DEF IInv, TypeOK, Begin, Lock, Miss, Recheck, Report, Fail, Settle
<1>2. Stamped' /\ Behind' /\ VersionIdentifiesContent'
  BY <1>1 DEF IInv, Stamped, Behind, VersionIdentifiesContent
<1>3. Locked'
  <2> SUFFICES ASSUME NEW d \in Clients, pc'[d] = "holding"
               PROVE  lock' = d /\ Matches(d)'
    BY DEF Locked
  <2>1. CASE d = c
    BY <1>1, <2>1 DEF IInv, TypeOK, Locked, Matches, Begin, Lock, Miss, Recheck,
                      Report, Fail, Settle
  <2>2. CASE d # c
    <3>1. pc[d] = "holding" /\ call'[d] = call[d]
      BY <1>1a, <2>2
    <3>2. lock = d /\ Matches(d)
      BY <3>1 DEF IInv, Locked
    <3>3. lock' = d
      BY <2>2, <3>2, VersionsAssumption DEF Begin, Lock, Miss, Recheck, Fail
    <3>4. QED
      BY <1>1, <3>1, <3>2, <3>3 DEF Matches
  <2>3. QED
    BY <2>1, <2>2
<1>4. Plain'
  <2>1. call'[c].writes # "update" => call'[c].expected = Forced
    BY DEF IInv, TypeOK, Plain, Begin, Writes, Lock, Miss, Recheck, Fail
  <2>2. QED
    BY <1>1a, <2>1 DEF IInv, Plain
<1>5. Missed'
  <2> SUFFICES ASSUME NEW d \in Clients, pc'[d] = "missed", Informed(d)'
               PROVE  call'[d].expected < row'.version
    BY DEF Missed
  <2>1. CASE d # c
    BY <1>1, <1>1a, <2>1 DEF IInv, Missed, Informed
  <2>2. CASE d = c
    <3>1. Miss(c)
      BY <2>2 DEF IInv, TypeOK, Begin, Lock, Miss, Recheck, Report, Fail, Settle
    <3>2. ~Matches(c) /\ call' = call /\ Informed(c)
      BY <1>1, <2>2, <3>1 DEF Miss, Informed
    <3>3. call[c].expected # row.version /\ seen[c].version <= row.version
      BY <3>2 DEF IInv, Matches, Informed, Behind
    <3>4. seen[c].version \in Nat /\ row.version \in Nat
      BY DEF IInv, TypeOK, Row
    <3>5. QED
      BY <1>1, <2>2, <3>2, <3>3, <3>4 DEF Informed
  <2>3. QED
    BY <2>1, <2>2
<1>6. RefusalsAreReal'
  <2> SUFFICES ASSUME NEW d \in Clients
               PROVE  /\ answer'[d] = "conflict" =>
                           /\ Informed(d)' => call'[d].expected < row'.version
                           /\ call'[d].exists \/ recheck'[d] = "failed"
                      /\ answer'[d] = "not_found" => ~call'[d].exists
    BY DEF RefusalsAreReal
  <2>1. CASE d # c
    BY <1>1, <1>1a, <2>1 DEF IInv, RefusalsAreReal, Informed
  <2>2. CASE d = c
    <3>1. CASE Begin(c)
      BY <2>2, <3>1 DEF IInv, TypeOK, Begin
    <3>2. CASE Lock(c)
      BY <2>2, <3>2 DEF IInv, RefusalsAreReal, Informed, Lock
    <3>3. CASE Fail(c)
      BY <2>2, <3>3 DEF IInv, TypeOK, Fail, Settle
    <3>4. CASE Miss(c)
      <4>1. CASE call[c].writes = "update" /\ call[c].expected # Forced
        BY <2>2, <3>4, <4>1 DEF IInv, RefusalsAreReal, Informed, Miss
      <4>2. CASE ~(call[c].writes = "update" /\ call[c].expected # Forced)
        <5>1. call[c].expected = Forced
          BY <4>2 DEF IInv, Plain
        <5>2. ~call[c].exists
          BY <3>4, <5>1 DEF Miss, Matches
        <5>3. answer'[c] = "not_found" /\ call' = call
          BY <3>4, <4>2 DEF IInv, TypeOK, Miss, Settle
        <5>4. QED
          BY <2>2, <5>2, <5>3
      <4>3. QED
        BY <4>1, <4>2
    <3>5. CASE Recheck(c)
      <4>1. pc[c] = "missed" /\ UNCHANGED <<row, call, seen>>
        BY <3>5 DEF Recheck
      <4>2. Informed(c) => call[c].expected < row.version
        BY <4>1 DEF IInv, Missed
      <4>3. /\ recheck'[c] \in {IF call[c].exists THEN "found" ELSE "missing", "failed"}
            /\ answer'[c] = IF recheck'[c] = "missing" THEN "not_found" ELSE "conflict"
        BY <3>5 DEF IInv, TypeOK, Recheck, Report, Settle
      <4>4. QED
        BY <2>2, <4>1, <4>2, <4>3 DEF Informed
    <3>6. QED
      BY <3>1, <3>2, <3>3, <3>4, <3>5
  <2>3. QED
    BY <2>1, <2>2
<1>7. QED
  BY <1>2, <1>3, <1>4, <1>5, <1>6 DEF IInv

\* A commit makes every version but the writer's own an old one.
LEMMA CommitStep ==
  ASSUME IInv, TypeOK', NEW c \in Clients, Commit(c)
  PROVE  IInv'
<1>1. /\ row'.version = row.version + 1
      /\ row.version \in Nat
      /\ \A d \in Clients : seen[d].version \in Nat /\ call[d].expected \in Nat
  BY AfterType DEF Commit, IInv, TypeOK, Row, Call
<1>2. lock = c /\ \A d \in Clients \ {c} : pc[d] # "holding"
  BY DEF Commit, IInv, Locked
<1>3. Stamped'
  <2>1. row'.fields <= row'.version
    BY <1>1 DEF Commit, RowAfter, NextVersion, IInv, Stamped, TypeOK, Row
  <2>2. ASSUME NEW p \in Parts, NEW v \in parts'[p]
        PROVE  v <= row'.version
    <3>1. v \in parts[p] \/ v = row.version + 1
      BY <2>2 DEF Commit, PartsAfter, NextVersion
    <3>2. v \in parts[p] => v \in Nat /\ v <= row.version
      BY DEF IInv, Stamped, TypeOK
    <3>3. QED
      BY <1>1, <3>1, <3>2
  <2>3. QED
    BY <2>1, <2>2 DEF Stamped
<1>4. \A d \in Clients :
         \/ seen'[d] = seen[d] /\ fetched'[d] = fetched[d]
         \/ d = c /\ seen'[d] = row' /\ fetched'[d] = {}
  BY DEF Commit, Learn, IInv, TypeOK
<1>5. Behind'
  BY <1>1, <1>4 DEF IInv, Behind
<1>6. VersionIdentifiesContent'
  <2> SUFFICES ASSUME NEW d \in Clients, seen'[d].version = row'.version
               PROVE  /\ seen'[d].fields = row'.fields
                      /\ \A p \in fetched'[d] : got'[d][p] = parts'[p]
    BY DEF VersionIdentifiesContent
  <2>1. seen[d].version # row'.version
    BY <1>1 DEF IInv, Behind
  <2>2. seen'[d] = row' /\ fetched'[d] = {}
    BY <1>4, <2>1
  <2>3. QED
    BY <2>2
<1>7. Locked' /\ Plain'
  BY <1>2 DEF Commit, Settle, Locked, Plain, IInv, TypeOK
<1>8. Missed'
  <2> SUFFICES ASSUME NEW d \in Clients, pc'[d] = "missed", Informed(d)'
               PROVE  call'[d].expected < row'.version
    BY DEF Missed
  <2>1. d # c /\ pc[d] = "missed" /\ call'[d] = call[d]
    BY DEF Commit, Settle, IInv, TypeOK
  <2>2. seen'[d] = seen[d]
    BY <1>4, <2>1
  <2>3. call[d].expected < row.version
    BY <2>1, <2>2 DEF IInv, Missed, Informed
  <2>4. QED
    BY <1>1, <2>1, <2>3
<1>9. RefusalsAreReal'
  <2> SUFFICES ASSUME NEW d \in Clients
               PROVE  /\ answer'[d] = "conflict" =>
                           /\ Informed(d)' => call'[d].expected < row'.version
                           /\ call'[d].exists \/ recheck'[d] = "failed"
                      /\ answer'[d] = "not_found" => ~call'[d].exists
    BY DEF RefusalsAreReal
  <2>0. UNCHANGED <<call, recheck>>
    BY DEF Commit
  <2>1. CASE d = c
    BY <2>1 DEF Commit, Settle, IInv, TypeOK
  <2>2. CASE d # c
    <3>1. answer'[d] = answer[d] /\ seen'[d] = seen[d]
      BY <1>4, <2>2 DEF Commit, Settle, IInv, TypeOK
    <3>2. answer[d] = "conflict" /\ Informed(d) => call[d].expected < row.version
      BY DEF IInv, RefusalsAreReal
    <3>3. answer[d] = "conflict" => call[d].exists \/ recheck[d] = "failed"
      BY DEF IInv, RefusalsAreReal
    <3>4. answer[d] = "not_found" => ~call[d].exists
      BY DEF IInv, RefusalsAreReal
    <3>5. QED
      BY <1>1, <2>0, <3>1, <3>2, <3>3, <3>4 DEF Informed
  <2>3. QED
    BY <2>1, <2>2
<1>10. QED
  BY <1>3, <1>5, <1>6, <1>7, <1>8, <1>9 DEF IInv

\* Every step keeps the invariant.
LEMMA StepInv == IInv /\ [Next]_vars => IInv'
<1> SUFFICES ASSUME IInv, [Next]_vars PROVE IInv'
  OBVIOUS
<1>1. TypeOK'
  BY TypeStep DEF IInv
<1>2. CASE UNCHANGED vars
  BY <1>1, <1>2 DEF IInv, vars, Stamped, Behind, Locked, Plain, Informed,
                    Missed, Matches, VersionIdentifiesContent, RefusalsAreReal
<1>3. QED
  BY <1>1, <1>2, ReadStep, WaitStep, CommitStep DEF Next

\* The invariant the other theorems rest on.
THEOREM InductiveInvariant == Spec => []IInv
  BY InitInv, StepInv, PTL DEF Spec

\* Every state is well typed.
THEOREM TypeCorrect == Spec => []TypeOK
<1>1. IInv => TypeOK
  BY DEF IInv
<1>2. QED
  BY <1>1, InductiveInvariant, PTL

\* The holder of the lock, whose condition held when it took it, has seen
\* the row and the relations as they are.
LEMMA HolderHasSeen == IInv => NoLostUpdate
<1> SUFFICES ASSUME IInv, NEW c \in Clients, pc[c] = "holding", Informed(c)
             PROVE  /\ seen[c] = row
                    /\ \A p \in fetched[c] : got[c][p] = parts[p]
  BY DEF NoLostUpdate
<1>1. call[c].expected = row.version /\ call[c].expected = seen[c].version
  BY DEF IInv, Locked, Informed, Matches
<1>2. /\ seen[c].fields = row.fields
      /\ \A p \in fetched[c] : got[c][p] = parts[p]
  BY <1>1 DEF IInv, VersionIdentifiesContent
<1>3. seen[c] \in Row /\ row \in Row
  BY DEF IInv, TypeOK
<1>4. /\ seen[c] = [version |-> seen[c].version, fields |-> seen[c].fields]
      /\ row = [version |-> row.version, fields |-> row.fields]
  BY <1>3 DEF Row
<1>5. QED
  BY <1>1, <1>2, <1>4

\* An update with the version its client read overwrites nothing that client
\* has not seen (updateProduct).
THEOREM UpdatesAreNotLost == Spec => []NoLostUpdate
  BY HolderHasSeen, InductiveInvariant, PTL

\* The version stands for the content of the row and of its relations, though
\* reads are not atomic (getProduct, addProductFeature, addProductPrice).
THEOREM VersionIsAToken == Spec => []VersionIdentifiesContent
<1>1. IInv => VersionIdentifiesContent
  BY DEF IInv
<1>2. QED
  BY <1>1, InductiveInvariant, PTL

\* A conflict is reported to a client that passed the version it read only for
\* a product that has changed, to any other of a missing product only when the
\* re-read failed, and a product that is there is never reported missing
\* (updateProduct, productExists).
THEOREM RefusalsTellTheTruth == Spec => []RefusalsAreReal
<1>1. IInv => RefusalsAreReal
  BY DEF IInv
<1>2. QED
  BY <1>1, InductiveInvariant, PTL

OneChange ==
    /\ row'.version = row.version + 1
    /\ \/ row'.fields # row.fields /\ parts' = parts
       \/ /\ row'.fields = row.fields
          /\ \E p \in Parts : /\ parts[p] # parts'[p]
                              /\ parts[p] \subseteq parts'[p]
                              /\ \A q \in Parts \ {p} : parts'[q] = parts[q]

\* A commit changes one part, because what it writes carries a new stamp.
LEMMA CommitChangesOne ==
  ASSUME IInv, NEW c \in Clients, Commit(c)
  PROVE  OneChange
<1>1. row'.version = row.version + 1 /\ row.version \in Nat
  BY AfterType DEF Commit, IInv, TypeOK, Row
<1>2. CASE call[c].writes = "update"
  <2>1. row'.fields = row.version + 1
    BY <1>2 DEF Commit, RowAfter, NextVersion
  <2>2. row'.fields # row.fields
    BY <1>1, <2>1 DEF IInv, Stamped
  <2>3. parts' = parts
    BY <1>2 DEF Commit, PartsAfter, Parts, IInv, TypeOK
  <2>4. QED
    BY <1>1, <2>2, <2>3 DEF OneChange
<1>3. CASE call[c].writes # "update"
  <2>1. PICK p \in Parts : call[c].writes = p
    BY <1>3 DEF IInv, TypeOK, Call, Writes
  <2>2. row'.fields = row.fields
    BY <1>3 DEF Commit, RowAfter
  <2>3. /\ parts'[p] = parts[p] \cup {row.version + 1}
        /\ \A q \in Parts \ {p} : parts'[q] = parts[q]
    BY <2>1 DEF Commit, PartsAfter, NextVersion
  <2>4. row.version + 1 \notin parts[p]
    BY <1>1 DEF IInv, Stamped
  <2>5. QED
    BY <1>1, <2>2, <2>3, <2>4 DEF OneChange
<1>4. QED
  BY <1>2, <1>3

\* Each version differs from the one before in exactly one part, and no part
\* changes under an unchanged version (updateProduct, addProductFeature,
\* addProductPrice).
THEOREM VersionsCountChanges == Spec => OneChangePerVersion
<1>1. IInv /\ [Next]_vars => [OneChange]_<<row, parts>>
  <2> SUFFICES ASSUME IInv, [Next]_vars
               PROVE  OneChange \/ UNCHANGED <<row, parts>>
    OBVIOUS
  <2>1. ASSUME NEW c \in Clients, Commit(c)
        PROVE  OneChange
    BY <2>1, CommitChangesOne
  <2>2. QED
    BY <2>1 DEF Next, vars, ReadRow, ReadPart, Begin, Lock, Miss, Recheck, Fail
<1>2. QED
  BY <1>1, InductiveInvariant, PTL DEF Spec, OneChangePerVersion, OneChange
=============================================================================
