--------------------------- MODULE UniqueRowsProofs ----------------------------
(***************************************************************************)
(* For any number of calls, retries and values: a duplicate is real, a     *)
(* retry that gives up has met as many rows as it made tries, the answer   *)
(* of a call tells what the tables hold, and the next page a search        *)
(* announces exists.                                                       *)
(*                                                                         *)
(* The argument: a row belongs to a call that has ended and was told "ok"  *)
(* or an internal error (Committed), so a call that still runs owns none   *)
(* and the row in its way is another call's; a role the call met is        *)
(* current or ended, so once its key is free all it met have ended         *)
(* (Contending); and parties are never removed (Counted).                  *)
(***************************************************************************)
EXTENDS UniqueRows, FiniteSetTheorems, TLAPS

Unended(c) == pc[c] \notin {"idle", "done"}

\* Whose the rows are.
Committed ==
    /\ IsFiniteSet(rows) /\ IsFiniteSet(gone)
    /\ \A r \in rows \cup gone :
         /\ pc[r.by] = "done" /\ answer[r.by].code \in {"ok", "internal"}
         /\ r.key = Key(r.by)
    /\ \A r \in rows, s \in gone : r.by # s.by
    /\ \A s \in gone : s.key.table # "party"

\* What the label of a call tells of its request and of its answer.
Placed(c) ==
    /\ pc[c] # "done" => answer[c] = NoAnswer
    /\ pc[c] = "done" => answer[c].code # "none"
    /\ Unended(c) => Valid(req[c])
    /\ pc[c] \in {"lookup", "find", "check", "insert", "recheck", "commit"} => Inserts(req[c])
    /\ pc[c] \in {"single", "count", "page"} => ~Inserts(req[c])
    /\ pc[c] = "check" => req[c].op # "add_role"
    /\ pc[c] = "recheck" => req[c].op = "add_role"

Ended == {s.by : s \in gone}

\* The ended rows of its key that a call has met.
Beaten(c) == met[c] \cap Ended

\* How many rows a call that adds a role has met on its tries.
Contending(c) ==
    /\ pc[c] = "idle" => met[c] = {}
    /\ pc[c] \in {"idle", "lookup"} => tries[c] = 0
    /\ Unended(c) => met[c] \subseteq Holders(req[c], rows \cup gone)
    /\ pc[c] = "find" => Cardinality(Beaten(c)) >= tries[c]
    /\ pc[c] = "insert" /\ req[c].op = "add_role" => Cardinality(Beaten(c)) >= tries[c] - 1
    /\ pc[c] = "recheck" => Cardinality(met[c]) >= tries[c]

\* What a search has counted is still there when it pages through it.
Parties == {r \in rows : r.key.table = "party"}

Counted(c) ==
    pc[c] = "page" /\ req[c].type = "party" => total[c] <= Cardinality(Parties)

There(c) == \E r \in rows \cup gone : r.by = c

\* What an answered call was told: the four properties of one call.
Told(c) ==
    /\ answer[c].code = "duplicate" =>
         met[c] \ {c} # {} /\ answer[c].row \in (met[c] \ {c}) \cup {None}
    /\ answer[c].code = "contended" => Cardinality(Beaten(c)) >= MaxTries
    /\ answer[c].code = "ok" /\ Inserts(req[c]) => There(c)
    /\ answer[c].code \notin {"none", "ok", "internal"} => ~There(c)
    /\ answer[c].more /\ req[c].type = "party" =>
         /\ Offset(req[c]) + Limit(req[c]) <= MaxOffset
         /\ Offset(req[c]) + Limit(req[c]) < Cardinality(Parties)

IInv ==
    /\ TypeOK /\ Committed
    /\ \A c \in Calls : Placed(c) /\ Contending(c) /\ Counted(c) /\ Told(c)

-----------------------------------------------------------------------------
(* Typing.                                                                 *)

Keys    == [table : Tables, owner : Calls \cup {None, Tenant}, value : Values \cup {None}]
Answers == [code : Codes, row : Calls \cup {None}, more : BOOLEAN]

LEMMA KeyTyped ==
  ASSUME NEW q \in Request, Valid(q) PROVE KeyOf(q) \in Keys
<1>1. q.party \in Calls \cup {None} /\ q.value \in Values \cup {None}
  BY DEF Request
<1>2. q.op = "add_contact" => q.type \in Contacts
  BY DEF Valid, ValidContact, Request
<1>3. CASE q.op = "add_contact"
  BY <1>1, <1>2, <1>3 DEF KeyOf, Keys, Tables, AgentOps
<1>4. CASE q.op = "add_role"
  BY <1>1, <1>4 DEF KeyOf, Keys, Tables
<1>5. CASE q.op \in {"create_user", "get_user"}
  BY <1>1, <1>5 DEF KeyOf, Keys, Tables
<1>6. CASE q.op \in AgentOps
  BY <1>1, <1>6 DEF KeyOf, Keys, Tables, AgentOps
<1>7. CASE q.op \notin AgentOps \cup {"add_contact", "add_role", "create_user", "get_user"}
  BY <1>1, <1>7 DEF KeyOf, Keys, Tables
<1>. QED  BY <1>3, <1>4, <1>5, <1>6, <1>7

LEMMA Requested == Requests \subseteq Request /\ Nothing \in Request
<1>1. Requests \subseteq Request /\ MaxTries \in Nat \ {0}
  BY RowsAssumption DEF RowsAssumption
<1>2. /\ "search" \in Ops /\ "absent" \in Forms /\ "party" \in Types
      /\ {} \in SUBSET Parts /\ 1 \in Int /\ 0 \in Int
  BY DEF Ops, Forms, Types, Tables
<1>. QED  BY <1>1, <1>2 DEF Request, Nothing

\* Of a call's step only its own entries of the tables of calls change.
Only(c) ==
    \A d \in Calls \ {c} :
        /\ pc'[d] = pc[d] /\ req'[d] = req[d] /\ tries'[d] = tries[d]
        /\ total'[d] = total[d] /\ answer'[d] = answer[d]

Act(c) == Begin(c) \/ Run(c) \/ Abort(c)

LEMMA WatchTyped ==
  ASSUME TypeOK, rows' \subseteq Row, Watch PROVE met' \in [Calls -> SUBSET Calls]
<1>1. ASSUME NEW d \in Calls PROVE Holders(req'[d], rows') \subseteq Calls
  BY DEF Holders, Row
<1>2. met \in [Calls -> SUBSET Calls]
  BY DEF TypeOK
<1>. QED  BY <1>1, <1>2 DEF Watch

LEMMA TellTyped ==
  ASSUME TypeOK, NEW c \in Calls, NEW ans \in Answers, Tell(c, ans)
  PROVE  /\ pc' \in [Calls -> Labels] /\ answer' \in [Calls -> Answers]
         /\ pc'[c] = "done" /\ answer'[c] = ans
         /\ \A d \in Calls \ {c} : pc'[d] = pc[d] /\ answer'[d] = answer[d]
  BY DEF TypeOK, Tell, Labels, Answers

LEMMA RefuseTyped ==
  ASSUME TypeOK, NEW c \in Calls, NEW code \in Codes, Refuse(c, code)
  PROVE  /\ pc' \in [Calls -> Labels] /\ answer' \in [Calls -> Answers]
         /\ pc'[c] = "done" /\ answer'[c].code = code /\ answer'[c].row = None /\ ~answer'[c].more
         /\ \A d \in Calls \ {c} : pc'[d] = pc[d] /\ answer'[d] = answer[d]
<1>1. [NoAnswer EXCEPT !.code = code] \in Answers
  BY DEF NoAnswer, Answers
<1>2. Tell(c, [NoAnswer EXCEPT !.code = code])
  BY DEF Refuse
<1>. QED  BY <1>1, <1>2, TellTyped DEF NoAnswer

LEMMA ReportTyped ==
  ASSUME TypeOK, NEW c \in Calls, NEW r \in Calls \cup {None}, Report(c, r)
  PROVE  /\ pc' \in [Calls -> Labels] /\ answer' \in [Calls -> Answers]
         /\ pc'[c] = "done" /\ answer'[c].code = "ok" /\ answer'[c].row = r /\ ~answer'[c].more
         /\ \A d \in Calls \ {c} : pc'[d] = pc[d] /\ answer'[d] = answer[d]
<1>1. [NoAnswer EXCEPT !.code = "ok", !.row = r] \in Answers
  BY DEF NoAnswer, Answers, Codes
<1>2. Tell(c, [NoAnswer EXCEPT !.code = "ok", !.row = r])
  BY DEF Report
<1>. QED  BY <1>1, <1>2, TellTyped DEF NoAnswer

LEMMA GotoTyped ==
  ASSUME TypeOK, NEW c \in Calls, NEW l \in Labels, Goto(c, l)
  PROVE  /\ pc' \in [Calls -> Labels] /\ pc'[c] = l /\ answer' = answer
         /\ answer \in [Calls -> Answers]
         /\ \A d \in Calls \ {c} : pc'[d] = pc[d]
  BY DEF TypeOK, Goto, Answers

LEMMA DuplicateTyped ==
  ASSUME TypeOK, NEW c \in Calls, Duplicate(c)
  PROVE  /\ pc' \in [Calls -> Labels] /\ answer' \in [Calls -> Answers]
         /\ pc'[c] = "done" /\ answer'[c].code = "duplicate" /\ ~answer'[c].more
         /\ answer'[c].row \in Current(c)
         /\ \A d \in Calls \ {c} : pc'[d] = pc[d] /\ answer'[d] = answer[d]
<1>1. PICK r \in Current(c) : Tell(c, [NoAnswer EXCEPT !.code = "duplicate", !.row = r])
  BY DEF Duplicate
<1>2. r \in Calls
  BY DEF Current, Holders, TypeOK, Row
<1>3. [NoAnswer EXCEPT !.code = "duplicate", !.row = r] \in Answers
  BY <1>2 DEF NoAnswer, Answers, Codes
<1>. QED  BY <1>1, <1>3, TellTyped DEF NoAnswer

LEMMA Mapped ==
  /\ \A code \in Faults : MapError(code) \in {"conflict", "internal"}
  /\ MapError("P2002") = "duplicate" /\ MapError("P2025") = "not_found"
  /\ MapError("P1xxx") = "internal"
  BY DEF MapError, Faults
-----------------------------------------------------------------------------
(* What a step leaves as it was.                                           *)

\* Rows are added or ended, never lost, and a party stays.
Grow ==
    /\ rows \cup gone \subseteq rows' \cup gone' /\ gone \subseteq gone'
    /\ \A r \in rows : r.key.table = "party" => r \in rows'

Same(d) ==
    /\ pc'[d] = pc[d] /\ req'[d] = req[d] /\ tries'[d] = tries[d]
    /\ total'[d] = total[d] /\ answer'[d] = answer[d]

LEMMA FiniteOwners ==
  ASSUME NEW rs, IsFiniteSet(rs) PROVE IsFiniteSet({r.by : r \in rs})
<1>. DEFINE owner == [r \in rs |-> r.by]
<1>1. owner \in Surjection(rs, {r.by : r \in rs})
  BY DEF Surjection
<1>. QED  BY <1>1, FS_Surjection

LEMMA FiniteHolders ==
  ASSUME NEW rs, IsFiniteSet(rs), NEW q PROVE IsFiniteSet(Holders(q, rs))
<1>1. IsFiniteSet({s \in rs : s.key = KeyOf(q)})
  BY FS_Subset
<1>. QED  BY <1>1, FiniteOwners DEF Holders

LEMMA PartiesGrow ==
  ASSUME Grow, IsFiniteSet(rows')
  PROVE  /\ Cardinality(Parties) \in Nat /\ Cardinality(Parties') \in Nat
         /\ Cardinality(Parties) <= Cardinality(Parties')
<1>1. Parties' \subseteq rows' /\ Parties \subseteq Parties'
  BY DEF Parties, Grow
<1>2. IsFiniteSet(Parties')
  BY <1>1, FS_Subset
<1>3. IsFiniteSet(Parties) /\ Cardinality(Parties) <= Cardinality(Parties')
  BY <1>1, <1>2, FS_Subset
<1>. QED  BY <1>2, <1>3, FS_CardinalityType

\* What a call has met only grows, and so does what of it has ended.
LEMMA BeatenGrows ==
  ASSUME Grow, IsFiniteSet(gone'), NEW c, met[c] \subseteq met'[c]
  PROVE  /\ Cardinality(Beaten(c)) \in Nat /\ Cardinality(Beaten(c)') \in Nat
         /\ Cardinality(Beaten(c)) <= Cardinality(Beaten(c)')
<1>1. IsFiniteSet(Ended')
  BY FiniteOwners DEF Ended
<1>2. Beaten(c)' \subseteq Ended' /\ Beaten(c) \subseteq Beaten(c)'
  BY DEF Beaten, Ended, Grow
<1>3. IsFiniteSet(Beaten(c)')
  BY <1>1, <1>2, FS_Subset
<1>4. IsFiniteSet(Beaten(c)) /\ Cardinality(Beaten(c)) <= Cardinality(Beaten(c)')
  BY <1>2, <1>3, FS_Subset
<1>. QED  BY <1>3, <1>4, FS_CardinalityType

\* What a running call meets in a step.
LEMMA Watched ==
  ASSUME TypeOK, Watch, NEW d \in Calls
  PROVE  /\ met[d] \subseteq met'[d]
         /\ pc[d] = "done" => met'[d] = met[d]
         /\ pc[d] # "done" /\ pc'[d] # "idle" =>
              met'[d] = met[d] \cup Holders(req'[d], rows')
<1>1. met'[d] = IF pc[d] = "done" \/ pc'[d] = "idle" THEN met[d]
                ELSE met[d] \cup Holders(req'[d], rows')
  BY DEF Watch
<1>. QED  BY <1>1

LEMMA MetStays ==
  ASSUME TypeOK, Watch, Grow, NEW d \in Calls, Unended(d), req'[d] = req[d], pc'[d] # "idle",
         met[d] \subseteq Holders(req[d], rows \cup gone)
  PROVE  met'[d] \subseteq Holders(req'[d], rows' \cup gone')
<1>1. met'[d] = met[d] \cup Holders(req'[d], rows')
  BY Watched DEF Unended
<1>2. Holders(req[d], rows \cup gone) \subseteq Holders(req[d], rows' \cup gone')
  BY DEF Holders, Grow
<1>3. Holders(req'[d], rows') \subseteq Holders(req'[d], rows' \cup gone')
  BY DEF Holders
<1>. QED  BY <1>1, <1>2, <1>3

\* A call that takes no part in a step keeps what is known of it.
LEMMA OtherCall ==
  ASSUME IInv, TypeOK', Watch, Grow, Committed', NEW d \in Calls, Same(d),
         \A r \in rows' \cup gone' : r \in rows \cup gone \/ r.by # d
  PROVE  Placed(d)' /\ Contending(d)' /\ Counted(d)' /\ Told(d)'
<1>0. TypeOK /\ Placed(d) /\ Contending(d) /\ Counted(d) /\ Told(d)
  BY DEF IInv
<1>a. /\ pc'[d] = pc[d] /\ req'[d] = req[d] /\ tries'[d] = tries[d]
      /\ total'[d] = total[d] /\ answer'[d] = answer[d]
  BY DEF Same
<1>b. IsFiniteSet(rows') /\ IsFiniteSet(gone')
  BY DEF Committed
<1>c. tries[d] \in Nat /\ total[d] \in Nat /\ MaxTries \in Nat /\ MaxOffset \in Nat
  BY <1>0, RowsAssumption DEF TypeOK, RowsAssumption
<1>1. Placed(d)'
  BY <1>0, <1>a DEF Placed, Unended
<1>2. met[d] \subseteq met'[d]
  BY <1>0, Watched
<1>3. /\ Cardinality(Beaten(d)) \in Nat /\ Cardinality(Beaten(d)') \in Nat
      /\ Cardinality(Beaten(d)) <= Cardinality(Beaten(d)')
  BY <1>2, <1>b, BeatenGrows
<1>4. Contending(d)'
  <2>1. Unended(d) => met'[d] \subseteq Holders(req'[d], rows' \cup gone')
    BY <1>0, <1>a, MetStays DEF Contending, Unended
  <2>2. pc[d] = "recheck" => Cardinality(met'[d]) >= tries[d]
    <3>. SUFFICES ASSUME pc[d] = "recheck" PROVE Cardinality(met'[d]) >= tries[d]
      OBVIOUS
    <3>1. IsFiniteSet(met'[d])
      BY <2>1, <1>b, FiniteHolders, FS_Union, FS_Subset DEF Unended
    <3>2. Cardinality(met[d]) <= Cardinality(met'[d]) /\ IsFiniteSet(met[d])
      BY <3>1, <1>2, FS_Subset
    <3>3. Cardinality(met[d]) \in Nat /\ Cardinality(met'[d]) \in Nat
      BY <3>1, <3>2, FS_CardinalityType
    <3>. QED  BY <3>2, <3>3, <1>0, <1>c DEF Contending
  <2>3. /\ pc[d] = "find" => Cardinality(Beaten(d)') >= tries[d]
        /\ pc[d] = "insert" /\ req[d].op = "add_role" =>
             Cardinality(Beaten(d)') >= tries[d] - 1
    BY <1>0, <1>3, <1>c DEF Contending
  <2>4. pc[d] = "idle" => met'[d] = {}
    BY <1>0, <1>a DEF Contending, Watch
  <2>. QED  BY <1>0, <1>a, <2>1, <2>2, <2>3, <2>4 DEF Contending, Unended
<1>5. /\ Cardinality(Parties) \in Nat /\ Cardinality(Parties') \in Nat
      /\ Cardinality(Parties) <= Cardinality(Parties')
  BY <1>b, PartiesGrow
<1>6. Counted(d)'
  <2>. SUFFICES ASSUME pc[d] = "page", req[d].type = "party"
                PROVE  total[d] <= Cardinality(Parties')
    BY <1>a DEF Counted
  <2>1. total[d] <= Cardinality(Parties)
    BY <1>0 DEF Counted
  <2>. QED  BY <2>1, <1>5, <1>c
<1>7. Told(d)'
  <2>1. answer[d].code # "none" => met'[d] = met[d]
    BY <1>0, Watched DEF Placed, NoAnswer
  <2>2. There(d)' <=> There(d)
    BY DEF There, Grow
  <2>3. answer[d].code = "contended" => Cardinality(Beaten(d)') >= MaxTries
    BY <1>0, <1>3, <1>c DEF Told
  <2>4. /\ req[d] \in Request /\ Offset(req[d]) \in Int /\ Limit(req[d]) \in Int
    BY <1>0, RowsAssumption DEF TypeOK, RowsAssumption, Offset, Limit, Clamp, Request
  <2>5. answer[d].more /\ req[d].type = "party" =>
          /\ Offset(req[d]) + Limit(req[d]) <= MaxOffset
          /\ Offset(req[d]) + Limit(req[d]) < Cardinality(Parties')
    BY <1>0, <1>5, <1>c, <2>4 DEF Told
  <2>6. answer[d].code = "duplicate" =>
          met'[d] \ {d} # {} /\ answer[d].row \in (met'[d] \ {d}) \cup {None}
    BY <1>0, <2>1 DEF Told
  <2>7. /\ answer[d].code = "ok" /\ Inserts(req[d]) => There(d)'
        /\ answer[d].code \notin {"none", "ok", "internal"} => ~There(d)'
    BY <1>0, <2>2 DEF Told
  <2>8. Offset(req'[d]) = Offset(req[d]) /\ Limit(req'[d]) = Limit(req[d])
    BY <1>a
  <2>. QED  BY <1>a, <2>3, <2>5, <2>6, <2>7, <2>8 DEF Told
<1>. QED  BY <1>1, <1>4, <1>6, <1>7
-----------------------------------------------------------------------------
(* What the call of a step is left with.                                   *)

Own(c) == Placed(c) /\ Contending(c) /\ Counted(c) /\ Told(c)

LEMMA StepOf ==
  ASSUME IInv, TypeOK', Watch, Grow, Committed', NEW c \in Calls, Only(c), Own(c)',
         \A r \in rows' \cup gone' : r \in rows \cup gone \/ r.by = c
  PROVE  IInv'
<1>1. ASSUME NEW d \in Calls \ {c}
      PROVE  Placed(d)' /\ Contending(d)' /\ Counted(d)' /\ Told(d)'
  <2>1. Same(d) /\ \A r \in rows' \cup gone' : r \in rows \cup gone \/ r.by # d
    BY DEF Only, Same
  <2>. QED  BY <2>1, OtherCall
<1>2. Placed(c)' /\ Contending(c)' /\ Counted(c)' /\ Told(c)'
  BY DEF Own
<1>3. \A d \in Calls : Placed(d)' /\ Contending(d)' /\ Counted(d)' /\ Told(d)'
  BY <1>1, <1>2
<1>. QED  BY <1>3 DEF IInv

\* A step that leaves the rows alone.
LEMMA QuietStep ==
  ASSUME IInv, TypeOK', Watch, UNCHANGED <<rows, gone>>, NEW c \in Calls, pc[c] # "done",
         Only(c), Own(c)'
  PROVE  IInv'
<1>1. Grow /\ \A r \in rows' \cup gone' : r \in rows \cup gone \/ r.by = c
  BY DEF Grow
<1>2. Committed'
  <2>1. ASSUME NEW r \in rows' \cup gone'
        PROVE  /\ pc'[r.by] = "done" /\ answer'[r.by].code \in {"ok", "internal"}
               /\ r.key = Key(r.by)'
    <3>1. r \in rows \cup gone /\ r.by \in Calls
      BY DEF IInv, TypeOK, Row
    <3>2. /\ pc[r.by] = "done" /\ answer[r.by].code \in {"ok", "internal"}
          /\ r.key = Key(r.by)
      BY <3>1 DEF IInv, Committed
    <3>3. r.by \in Calls \ {c}
      BY <3>1, <3>2
    <3>. QED  BY <3>2, <3>3 DEF Only, Key
  <2>. QED  BY <2>1 DEF IInv, Committed
<1>. QED  BY <1>1, <1>2, StepOf

\* A running call has no row.
LEMMA NoneThere ==
  ASSUME IInv, NEW c \in Calls, pc[c] # "done" PROVE ~There(c)
  BY DEF IInv, Committed, There

\* An answer that tells of no row.
LEMMA OwnRefused ==
  ASSUME IInv, UNCHANGED <<rows, gone>>, NEW c \in Calls, pc[c] # "done", pc'[c] = "done",
         answer'[c].code \in {"invalid", "not_found", "conflict", "internal"}, ~answer'[c].more
  PROVE  Own(c)'
<1>1. ~There(c)'
  BY NoneThere DEF There
<1>2. Placed(c)' /\ Contending(c)' /\ Counted(c)'
  BY DEF Placed, Contending, Counted, Unended
<1>. QED  BY <1>1, <1>2 DEF Own, Told

\* A duplicate: a row of another call was current.
LEMMA OwnDuplicate ==
  ASSUME IInv, Watch, UNCHANGED <<rows, gone>>, NEW c \in Calls, Unended(c), pc'[c] = "done",
         req'[c] = req[c], answer'[c].code = "duplicate", ~answer'[c].more,
         Current(c) # {}, answer'[c].row \in Current(c) \cup {None}
  PROVE  Own(c)'
<1>1. ~There(c)'
  BY NoneThere DEF There, Unended
<1>2. Placed(c)' /\ Contending(c)' /\ Counted(c)'
  BY DEF Placed, Contending, Counted, Unended
<1>3. met'[c] = met[c] \cup Current(c)
  BY Watched DEF IInv, Unended, Current
<1>4. c \notin Current(c)
  BY <1>1 DEF Current, Holders, There
<1>. QED  BY <1>1, <1>2, <1>3, <1>4 DEF Own, Told

\* A call that goes on: only what it has met and counted is to be shown.
LEMMA OwnMoves ==
  ASSUME IInv, UNCHANGED <<rows, gone>>, NEW c \in Calls, pc[c] # "done",
         pc'[c] \notin {"idle", "done"}, answer'[c] = answer[c],
         Placed(c)', Contending(c)', Counted(c)'
  PROVE  Own(c)'
<1>1. answer'[c] = NoAnswer
  BY DEF IInv, Placed
<1>. QED  BY <1>1 DEF Own, Told, NoAnswer

LEMMA MetStaysQuiet ==
  ASSUME IInv, Watch, UNCHANGED <<rows, gone>>, NEW c \in Calls, Unended(c),
         req'[c] = req[c], pc'[c] # "idle"
  PROVE  /\ met'[c] \subseteq Holders(req'[c], rows' \cup gone')
         /\ met'[c] = met[c] \cup Current(c) /\ IsFiniteSet(met'[c])
         /\ Cardinality(Beaten(c)) \in Nat /\ Cardinality(Beaten(c)') \in Nat
         /\ Cardinality(Beaten(c)) <= Cardinality(Beaten(c)')
<1>0. TypeOK /\ Contending(c) /\ Committed /\ Grow
  BY DEF IInv, Grow
<1>1. met'[c] \subseteq Holders(req'[c], rows' \cup gone')
  BY <1>0, MetStays DEF Contending
<1>2. met'[c] = met[c] \cup Current(c)
  BY <1>0, Watched DEF Current, Unended
<1>3. IsFiniteSet(rows' \cup gone') /\ IsFiniteSet(gone')
  BY <1>0, FS_Union DEF Committed
<1>4. IsFiniteSet(met'[c])
  BY <1>1, <1>3, FiniteHolders, FS_Subset
<1>. QED  BY <1>0, <1>1, <1>2, <1>3, <1>4, BeatenGrows
-----------------------------------------------------------------------------
(* The steps that leave the rows alone.                                    *)

\* What a step that takes no part in the tables of rows is typed by.
LEMMA QuietTyped ==
  ASSUME TypeOK, Watch, UNCHANGED <<rows, gone>>, open' \subseteq Calls,
         pc' \in [Calls -> Labels], answer' \in [Calls -> Answers],
         req' \in [Calls -> Request], tries' \in [Calls -> Nat], total' \in [Calls -> Nat]
  PROVE  TypeOK'
<1>1. rows' \subseteq Row
  BY DEF TypeOK
<1>2. met' \in [Calls -> SUBSET Calls]
  BY <1>1, WatchTyped
<1>. QED  BY <1>1, <1>2 DEF TypeOK, Answers

LEMMA FirstOf ==
  ASSUME NEW q \in Request
  PROVE  /\ First(q) \in {"lookup", "find", "insert", "count", "single"}
         /\ First(q) \in {"lookup", "find", "insert"} <=> Inserts(q)
         /\ First(q) = "insert" => q.op # "add_role"
<1>1. q.op \in Ops
  BY DEF Request
<1>. QED  BY <1>1 DEF First, Inserts, Unique, Ops, PartyOps, AgentOps

LEMMA BeginInv == ASSUME IInv, NEW c \in Calls, Begin(c) PROVE IInv'
<1>0. TypeOK /\ Placed(c) /\ Contending(c) /\ Watch /\ pc[c] = "idle"
      /\ UNCHANGED <<rows, gone, open, tries, total>>
  BY DEF IInv, Begin
<1>1. PICK q \in Requests :
        /\ req' = [req EXCEPT ![c] = q]
        /\ IF Valid(q) THEN Goto(c, First(q)) ELSE Refuse(c, "invalid")
  BY DEF Begin
<1>2. /\ req' \in [Calls -> Request] /\ req'[c] = q /\ q \in Request
      /\ \A d \in Calls \ {c} : req'[d] = req[d]
  BY <1>0, <1>1, Requested DEF TypeOK
<1>3. CASE ~Valid(q)
  <2>1. /\ pc' \in [Calls -> Labels] /\ answer' \in [Calls -> Answers]
        /\ pc'[c] = "done" /\ answer'[c].code = "invalid" /\ ~answer'[c].more
        /\ \A d \in Calls \ {c} : pc'[d] = pc[d] /\ answer'[d] = answer[d]
    BY <1>0, <1>1, <1>3, RefuseTyped, "invalid" \in Codes DEF Codes
  <2>2. TypeOK'
    BY <1>0, <1>2, <2>1, QuietTyped DEF TypeOK
  <2>3. Own(c)'
    BY <1>0, <2>1, OwnRefused
  <2>4. Only(c)
    BY <1>0, <1>2, <2>1 DEF Only
  <2>. QED  BY <1>0, <2>2, <2>3, <2>4, QuietStep
<1>4. CASE Valid(q)
  <2>1. First(q) \in Labels
    BY <1>2, FirstOf DEF Labels
  <2>2. /\ pc' \in [Calls -> Labels] /\ answer' = answer /\ answer \in [Calls -> Answers]
        /\ pc'[c] = First(q)
        /\ \A d \in Calls \ {c} : pc'[d] = pc[d]
    BY <1>0, <1>1, <1>4, <2>1, GotoTyped
  <2>3. TypeOK'
    BY <1>0, <1>2, <2>2, QuietTyped DEF TypeOK
  <2>4. Only(c)
    BY <1>0, <1>2, <2>2 DEF Only
  <2>5. Placed(c)'
    BY <1>0, <1>2, <1>4, <2>2, FirstOf DEF Placed, Unended
  <2>6. Contending(c)'
    <3>1. met'[c] = Holders(req'[c], rows') /\ tries[c] = 0
      BY <1>0, <1>2, <2>2, FirstOf, Watched DEF Contending
    <3>2. Holders(req'[c], rows') \subseteq Holders(req'[c], rows' \cup gone')
      BY DEF Holders
    <3>3. Cardinality(Beaten(c)') \in Nat
      <4>1. Grow /\ met[c] \subseteq met'[c] /\ IsFiniteSet(gone')
        BY <1>0, Watched DEF Grow, IInv, Committed
      <4>. QED  BY <4>1, BeatenGrows
    <3>4. tries'[c] = 0 /\ pc'[c] \in {"lookup", "find", "insert", "count", "single"}
          /\ ~(pc'[c] = "insert" /\ req'[c].op = "add_role")
      BY <1>0, <1>2, <2>2, <3>1, FirstOf
    <3>5. met'[c] \subseteq Holders(req'[c], rows' \cup gone')
      BY <3>1, <3>2
    <3>6. pc'[c] = "find" => Cardinality(Beaten(c)') >= tries'[c]
      BY <3>3, <3>4
    <3>. QED  BY <3>4, <3>5, <3>6 DEF Contending
  <2>7. Counted(c)'
    BY <1>2, <2>2, FirstOf DEF Counted
  <2>8. Own(c)'
    BY <1>0, <1>2, <2>2, <2>5, <2>6, <2>7, FirstOf, OwnMoves
  <2>. QED  BY <1>0, <2>3, <2>4, <2>8, QuietStep
<1>. QED  BY <1>3, <1>4

\* A running call is refused, or goes on, with the rest as it is.
LEMMA RefusedStep ==
  ASSUME IInv, NEW c \in Calls, Unended(c), Watch, UNCHANGED <<rows, gone, req, total>>,
         open' \subseteq Calls, tries' \in [Calls -> Nat],
         \A d \in Calls \ {c} : tries'[d] = tries[d],
         NEW code \in {"invalid", "not_found", "conflict", "internal"}, Refuse(c, code)
  PROVE  IInv'
<1>0. TypeOK /\ pc[c] # "done"
  BY DEF IInv, Unended
<1>1. /\ pc' \in [Calls -> Labels] /\ answer' \in [Calls -> Answers]
      /\ pc'[c] = "done" /\ answer'[c].code = code /\ ~answer'[c].more
      /\ \A d \in Calls \ {c} : pc'[d] = pc[d] /\ answer'[d] = answer[d]
  BY <1>0, RefuseTyped, code \in Codes DEF Codes
<1>2. TypeOK'
  BY <1>0, <1>1, QuietTyped DEF TypeOK
<1>3. Own(c)' /\ Only(c)
  BY <1>0, <1>1, OwnRefused DEF Only
<1>. QED  BY <1>0, <1>2, <1>3, QuietStep

LEMMA MovedStep ==
  ASSUME IInv, NEW c \in Calls, Unended(c), Watch, UNCHANGED <<rows, gone, req>>,
         open' \subseteq Calls, tries' \in [Calls -> Nat], total' \in [Calls -> Nat],
         \A d \in Calls \ {c} : tries'[d] = tries[d] /\ total'[d] = total[d],
         NEW l \in Labels \ {"idle", "done"}, Goto(c, l),
         l \in {"find", "check", "insert", "recheck", "commit"} => Inserts(req[c]),
         l \in {"single", "count", "page"} => ~Inserts(req[c]),
         l = "check" => req[c].op # "add_role",
         l = "recheck" => req[c].op = "add_role",
         l # "lookup",
         l = "find" => Cardinality(Beaten(c)') >= tries'[c],
         l = "insert" /\ req[c].op = "add_role" => Cardinality(Beaten(c)') >= tries'[c] - 1,
         l = "recheck" => Cardinality(met'[c]) >= tries'[c],
         l = "page" /\ req[c].type = "party" => total'[c] <= Cardinality(Parties')
  PROVE  IInv'
<1>0. TypeOK /\ pc[c] # "done" /\ Placed(c) /\ req'[c] = req[c]
  BY DEF IInv, Unended
<1>1. /\ pc' \in [Calls -> Labels] /\ answer' = answer /\ answer \in [Calls -> Answers]
      /\ pc'[c] = l
      /\ \A d \in Calls \ {c} : pc'[d] = pc[d]
  BY <1>0, GotoTyped
<1>2. TypeOK'
  BY <1>0, <1>1, QuietTyped DEF TypeOK
<1>3. Only(c)
  BY <1>1 DEF Only
<1>4. met'[c] \subseteq Holders(req'[c], rows' \cup gone')
  BY <1>0, <1>1, MetStaysQuiet
<1>5. Placed(c)'
  BY <1>0, <1>1 DEF Placed, Unended
<1>6. Contending(c)' /\ Counted(c)'
  BY <1>0, <1>1, <1>4 DEF Contending, Counted, Unended
<1>7. Own(c)'
  BY <1>0, <1>1, <1>5, <1>6, OwnMoves
<1>. QED  BY <1>0, <1>2, <1>3, <1>7, QuietStep

LEMMA DuplicateStep ==
  ASSUME IInv, NEW c \in Calls, Unended(c), Watch, UNCHANGED <<rows, gone, req, tries, total>>,
         open' = open, Taken(c), Duplicate(c) \/ Refuse(c, "duplicate")
  PROVE  IInv'
<1>0. TypeOK /\ pc[c] # "done" /\ req'[c] = req[c] /\ Current(c) # {}
  BY DEF IInv, Unended, Taken
<1>1. /\ pc' \in [Calls -> Labels] /\ answer' \in [Calls -> Answers]
      /\ pc'[c] = "done" /\ answer'[c].code = "duplicate" /\ ~answer'[c].more
      /\ answer'[c].row \in Current(c) \cup {None}
      /\ \A d \in Calls \ {c} : pc'[d] = pc[d] /\ answer'[d] = answer[d]
  BY <1>0, RefuseTyped, DuplicateTyped, "duplicate" \in Codes DEF Codes
<1>2. TypeOK'
  BY <1>0, <1>1, QuietTyped DEF TypeOK
<1>3. Own(c)' /\ Only(c)
  BY <1>0, <1>1, OwnDuplicate DEF Only
<1>. QED  BY <1>0, <1>2, <1>3, QuietStep

LEMMA LookupInv == ASSUME IInv, NEW c \in Calls, Lookup(c) PROVE IInv'
<1>0. /\ TypeOK /\ Placed(c) /\ Contending(c) /\ Watch /\ pc[c] = "lookup" /\ Unended(c)
      /\ UNCHANGED <<rows, gone, open, req, tries, total>>
      /\ open' \subseteq Calls /\ tries' \in [Calls -> Nat] /\ total' \in [Calls -> Nat]
  BY DEF IInv, Lookup, Unended, TypeOK
<1>1. CASE ~Known(req[c])
  <2>1. Refuse(c, "invalid")
    BY <1>1 DEF Lookup
  <2>. QED  BY <1>0, <2>1, RefusedStep
<1>2. CASE Known(req[c]) /\ req[c].op = "create_party"
  <2>1. Goto(c, "insert") /\ Inserts(req[c])
    BY <1>0, <1>2 DEF Lookup, Placed
  <2>2. "insert" \in Labels \ {"idle", "done"}
    BY DEF Labels
  <2>. QED  BY <1>0, <1>2, <2>1, <2>2, MovedStep
<1>3. CASE Known(req[c]) /\ req[c].op # "create_party"
  <2>1. Goto(c, "find") /\ Inserts(req[c])
    BY <1>0, <1>3 DEF Lookup, Placed
  <2>2. "find" \in Labels \ {"idle", "done"}
    BY DEF Labels
  <2>3. pc'[c] = "find"
    BY <2>1, <1>0 DEF Goto, TypeOK
  <2>4. Cardinality(Beaten(c)') >= tries'[c]
    <3>1. tries'[c] = 0
      BY <1>0 DEF Contending
    <3>2. Cardinality(Beaten(c)') \in Nat
      BY <1>0, <2>3, MetStaysQuiet
    <3>. QED  BY <3>1, <3>2
  <2>. QED  BY <1>0, <2>1, <2>2, <2>4, MovedStep
<1>. QED  BY <1>1, <1>2, <1>3

LEMMA FindPartyInv == ASSUME IInv, NEW c \in Calls, FindParty(c) PROVE IInv'
<1>0. /\ TypeOK /\ Placed(c) /\ Contending(c) /\ Watch /\ pc[c] = "find" /\ Unended(c)
      /\ UNCHANGED <<rows, gone, open, req, total>>
      /\ open' \subseteq Calls /\ total' \in [Calls -> Nat] /\ Inserts(req[c])
  BY DEF IInv, FindParty, Unended, TypeOK, Placed
<1>1. /\ tries' \in [Calls -> Nat] /\ tries'[c] = tries[c] + 1 /\ tries[c] \in Nat
      /\ \A d \in Calls \ {c} : tries'[d] = tries[d] /\ total'[d] = total[d]
  <2>1. tries \in [Calls -> Nat] /\ tries' = [tries EXCEPT ![c] = @ + 1]
    BY <1>0 DEF TypeOK, FindParty
  <2>. QED  BY <2>1, <1>0
<1>2. CASE ~IsParty(req[c].party)
  <2>1. Refuse(c, "not_found")
    BY <1>2 DEF FindParty
  <2>. QED  BY <1>0, <1>1, <2>1, RefusedStep
<1>3. CASE IsParty(req[c].party) /\ req[c].op = "add_contact"
  <2>1. Goto(c, "check") /\ "check" \in Labels \ {"idle", "done"}
    BY <1>3 DEF FindParty, Labels
  <2>. QED  BY <1>0, <1>1, <1>3, <2>1, MovedStep
<1>4. CASE IsParty(req[c].party) /\ req[c].op # "add_contact"
  <2>1. Goto(c, "insert") /\ "insert" \in Labels \ {"idle", "done"}
    BY <1>4 DEF FindParty, Labels
  <2>2. pc'[c] = "insert"
    BY <2>1, <1>0 DEF Goto, TypeOK
  <2>3. Cardinality(Beaten(c)') >= tries'[c] - 1
    <3>1. /\ Cardinality(Beaten(c)) \in Nat /\ Cardinality(Beaten(c)') \in Nat
          /\ Cardinality(Beaten(c)) <= Cardinality(Beaten(c)')
      BY <1>0, <2>2, MetStaysQuiet
    <3>2. Cardinality(Beaten(c)) >= tries[c]
      BY <1>0 DEF Contending
    <3>. QED  BY <3>1, <3>2, <1>1
  <2>. QED  BY <1>0, <1>1, <2>1, <2>3, MovedStep
<1>. QED  BY <1>2, <1>3, <1>4

LEMMA CheckInv == ASSUME IInv, NEW c \in Calls, Check(c) PROVE IInv'
<1>0. /\ TypeOK /\ Placed(c) /\ Watch /\ pc[c] = "check" /\ Unended(c)
      /\ UNCHANGED <<rows, gone, open, req, tries, total>> /\ Inserts(req[c])
      /\ open' \subseteq Calls /\ tries' \in [Calls -> Nat] /\ total' \in [Calls -> Nat]
  BY DEF IInv, Check, Unended, TypeOK, Placed
<1>1. CASE Taken(c)
  <2>1. Duplicate(c)
    BY <1>1 DEF Check
  <2>. QED  BY <1>0, <1>1, <2>1, DuplicateStep
<1>2. CASE ~Taken(c)
  <2>1. Goto(c, "insert") /\ "insert" \in Labels \ {"idle", "done"}
    BY <1>2 DEF Check, Labels
  <2>2. CASE req[c].op # "add_role"
    BY <1>0, <2>1, <2>2, MovedStep
  <2>3. CASE req[c].op = "add_role"
    BY <1>0, <2>3 DEF Placed
  <2>. QED  BY <2>2, <2>3
<1>. QED  BY <1>1, <1>2

LEMMA InsertInv == ASSUME IInv, NEW c \in Calls, Insert(c) PROVE IInv'
<1>0. /\ TypeOK /\ Placed(c) /\ Contending(c) /\ Committed /\ Watch
      /\ pc[c] = "insert" /\ Unended(c)
      /\ UNCHANGED <<rows, gone, req, tries, total>> /\ Inserts(req[c])
      /\ tries' \in [Calls -> Nat] /\ total' \in [Calls -> Nat] /\ tries[c] \in Nat
  BY DEF IInv, Insert, Unended, TypeOK, Placed
<1>1. CASE ~Taken(c)
  <2>1. Goto(c, "commit") /\ "commit" \in Labels \ {"idle", "done"} /\ open' \subseteq Calls
    BY <1>0, <1>1 DEF Insert, Labels, TypeOK
  <2>. QED  BY <1>0, <2>1, MovedStep
<1>2. CASE Taken(c) /\ req[c].op = "add_role"
  <2>1. Goto(c, "recheck") /\ "recheck" \in Labels \ {"idle", "done"} /\ open' \subseteq Calls
    BY <1>0, <1>2 DEF Insert, Labels, TypeOK
  <2>2. pc'[c] = "recheck"
    BY <2>1, <1>0 DEF Goto, TypeOK
  <2>3. met'[c] = met[c] \cup Current(c) /\ IsFiniteSet(met'[c])
    BY <1>0, <2>2, MetStaysQuiet
  <2>4. PICK h \in Current(c) : h \notin Ended
    BY <1>0, <1>2 DEF Taken, Current, Holders, Ended, Committed
  <2>5. Beaten(c) \cup {h} \subseteq met'[c] /\ h \notin Beaten(c)
    BY <2>3, <2>4 DEF Beaten
  <2>6. IsFiniteSet(Beaten(c)) /\ IsFiniteSet(Beaten(c) \cup {h})
    BY <2>3, <2>5, FS_Subset
  <2>7. /\ Cardinality(Beaten(c)) \in Nat /\ Cardinality(met'[c]) \in Nat
        /\ Cardinality(Beaten(c) \cup {h}) = Cardinality(Beaten(c)) + 1
        /\ Cardinality(Beaten(c) \cup {h}) <= Cardinality(met'[c])
    BY <2>3, <2>5, <2>6, FS_CardinalityType, FS_AddElement, FS_Subset
  <2>8. Cardinality(Beaten(c)) >= tries[c] - 1
    BY <1>0, <1>2 DEF Contending
  <2>9. Cardinality(met'[c]) >= tries'[c]
    BY <2>7, <2>8, <1>0
  <2>. QED  BY <1>0, <1>2, <2>1, <2>9, MovedStep
<1>3. CASE Taken(c) /\ req[c].op # "add_role"
  <2>1. open' = open /\ Refuse(c, "duplicate")
    BY <1>3, Mapped DEF Insert
  <2>. QED  BY <1>0, <1>3, <2>1, DuplicateStep
<1>. QED  BY <1>1, <1>2, <1>3

LEMMA RecheckInv == ASSUME IInv, NEW c \in Calls, Recheck(c) PROVE IInv'
<1>0. /\ TypeOK /\ Placed(c) /\ Contending(c) /\ Committed /\ Watch
      /\ pc[c] = "recheck" /\ Unended(c) /\ pc[c] # "done"
      /\ UNCHANGED <<rows, gone, open, req, tries, total>> /\ Inserts(req[c])
      /\ req[c].op = "add_role" /\ open' \subseteq Calls
      /\ tries' \in [Calls -> Nat] /\ total' \in [Calls -> Nat]
      /\ tries[c] \in Nat /\ MaxTries \in Nat
  BY RowsAssumption DEF IInv, Recheck, Unended, TypeOK, Placed, RowsAssumption
<1>1. CASE Taken(c)
  <2>1. Duplicate(c)
    BY <1>1 DEF Recheck
  <2>. QED  BY <1>0, <1>1, <2>1, DuplicateStep
<1>2. ASSUME ~Taken(c), pc'[c] # "idle"
      PROVE  Cardinality(Beaten(c)') >= tries'[c]
  <2>1. Current(c) = {}
    BY <1>0, <1>2 DEF Taken, Unique
  <2>2. met'[c] = met[c] /\ met[c] \subseteq Ended
    <3>1. met[c] \subseteq Holders(req[c], rows \cup gone)
      BY <1>0 DEF Contending
    <3>2. Holders(req[c], rows \cup gone) \subseteq Current(c) \cup Ended
      BY DEF Holders, Current, Ended
    <3>. QED  BY <1>0, <1>2, <2>1, <3>1, <3>2, MetStaysQuiet
  <2>3. Beaten(c)' = met[c]
    BY <1>0, <2>2 DEF Beaten, Ended
  <2>. QED  BY <1>0, <2>3 DEF Contending
<1>3. CASE ~Taken(c) /\ tries[c] < MaxTries
  <2>1. Goto(c, "find") /\ "find" \in Labels \ {"idle", "done"}
    BY <1>3 DEF Recheck, Labels
  <2>2. pc'[c] = "find"
    BY <2>1, <1>0 DEF Goto, TypeOK
  <2>. QED  BY <1>0, <1>2, <1>3, <2>1, <2>2, MovedStep
<1>4. CASE ~Taken(c) /\ ~(tries[c] < MaxTries)
  <2>1. Refuse(c, "contended") /\ "contended" \in Codes
    BY <1>4 DEF Recheck, Codes
  <2>2. /\ pc' \in [Calls -> Labels] /\ answer' \in [Calls -> Answers]
        /\ pc'[c] = "done" /\ answer'[c].code = "contended" /\ ~answer'[c].more
        /\ \A d \in Calls \ {c} : pc'[d] = pc[d] /\ answer'[d] = answer[d]
    BY <1>0, <2>1, RefuseTyped
  <2>3. TypeOK'
    BY <1>0, <2>2, QuietTyped DEF TypeOK
  <2>4. Placed(c)' /\ Contending(c)' /\ Counted(c)'
    BY <2>2 DEF Placed, Contending, Counted, Unended
  <2>5. ~There(c)'
    BY <1>0, NoneThere DEF There
  <2>6. Cardinality(Beaten(c)') >= tries[c] /\ Cardinality(Beaten(c)') \in Nat
    BY <1>0, <1>2, <1>4, <2>2, MetStaysQuiet
  <2>7. Cardinality(Beaten(c)') >= MaxTries
    BY <2>6, <1>0, <1>4
  <2>8. Own(c)' /\ Only(c)
    BY <1>0, <2>2, <2>4, <2>5, <2>7 DEF Own, Told, Only
  <2>. QED  BY <1>0, <2>3, <2>8, QuietStep
<1>. QED  BY <1>1, <1>3, <1>4

LEMMA AbortInv == ASSUME IInv, NEW c \in Calls, Abort(c) PROVE IInv'
<1>0. /\ TypeOK /\ Watch /\ Unended(c) /\ UNCHANGED <<rows, gone, req, tries, total>>
      /\ open' \subseteq Calls /\ tries' \in [Calls -> Nat]
      /\ \A d \in Calls \ {c} : tries'[d] = tries[d]
  BY DEF IInv, Abort, Unended, TypeOK
<1>1. PICK code \in Faults : Refuse(c, MapError(code))
  BY DEF Abort
<1>2. MapError(code) \in {"invalid", "not_found", "conflict", "internal"}
  BY Mapped
<1>. QED  BY <1>0, <1>1, <1>2, RefusedStep

LEMMA CountInv == ASSUME IInv, NEW c \in Calls, Count(c) PROVE IInv'
<1>0. /\ TypeOK /\ Placed(c) /\ Committed /\ Watch /\ pc[c] = "count" /\ Unended(c)
      /\ UNCHANGED <<rows, gone, open, req, tries>> /\ ~Inserts(req[c])
      /\ open' \subseteq Calls /\ tries' \in [Calls -> Nat]
      /\ Goto(c, "page") /\ "page" \in Labels \ {"idle", "done"}
  BY DEF IInv, Count, Unended, TypeOK, Placed, Labels
<1>1. Cardinality(Found(req[c])) \in Nat
  <2>1. IsFiniteSet(Found(req[c]))
    BY <1>0, FS_Subset DEF Committed, Found
  <2>. QED  BY <2>1, FS_CardinalityType
<1>2. total' = [total EXCEPT ![c] = Cardinality(Found(req[c]))] /\ total \in [Calls -> Nat]
  BY <1>0 DEF Count, TypeOK
<1>3. /\ total' \in [Calls -> Nat] /\ total'[c] = Cardinality(Found(req[c]))
      /\ \A d \in Calls \ {c} : total'[d] = total[d] /\ tries'[d] = tries[d]
  BY <1>0, <1>1, <1>2
<1>4. req[c].type = "party" => total'[c] <= Cardinality(Parties')
  <2>1. req[c].type = "party" => total'[c] = Cardinality(Parties')
    BY <1>0, <1>3 DEF Found, Parties
  <2>. QED  BY <2>1, <1>1, <1>3
<1>. QED  BY <1>0, <1>3, <1>4, MovedStep

LEMMA PageInv == ASSUME IInv, NEW c \in Calls, Page(c) PROVE IInv'
<1>. DEFINE more == HasMore(Offset(req[c]), Limit(req[c]), total[c])
            ans  == [NoAnswer EXCEPT !.code = "ok", !.more = more]
<1>0. /\ TypeOK /\ Placed(c) /\ Counted(c) /\ Committed /\ Watch
      /\ pc[c] = "page" /\ pc[c] # "done" /\ Unended(c)
      /\ UNCHANGED <<rows, gone, open, req, tries, total>> /\ ~Inserts(req[c])
      /\ Tell(c, ans)
  BY DEF IInv, Page, Unended, Placed
<1>1. ans \in Answers /\ ans.code = "ok" /\ ans.more = more
  BY DEF Answers, NoAnswer, HasMore, Codes
<1>. HIDE DEF ans, more
<1>2. /\ pc' \in [Calls -> Labels] /\ answer' \in [Calls -> Answers]
      /\ pc'[c] = "done" /\ answer'[c] = ans
      /\ \A d \in Calls \ {c} : pc'[d] = pc[d] /\ answer'[d] = answer[d]
  BY <1>0, <1>1, TellTyped
<1>3. TypeOK' /\ Only(c)
  BY <1>0, <1>2, QuietTyped DEF TypeOK, Only
<1>4. Placed(c)' /\ Contending(c)' /\ Counted(c)'
  BY <1>1, <1>2 DEF Placed, Contending, Counted, Unended
<1>5. more /\ req[c].type = "party" =>
        /\ Offset(req[c]) + Limit(req[c]) <= MaxOffset
        /\ Offset(req[c]) + Limit(req[c]) < Cardinality(Parties')
  <2>. SUFFICES ASSUME more, req[c].type = "party"
                PROVE  /\ Offset(req[c]) + Limit(req[c]) <= MaxOffset
                       /\ Offset(req[c]) + Limit(req[c]) < Cardinality(Parties')
    OBVIOUS
  <2>1. /\ Offset(req[c]) + Limit(req[c]) < total[c]
        /\ Offset(req[c]) + Limit(req[c]) <= MaxOffset
    BY DEF more, HasMore
  <2>2. total[c] <= Cardinality(Parties)
    BY <1>0 DEF Counted
  <2>3. Parties' = Parties
    BY <1>0 DEF Parties
  <2>4. total[c] \in Nat /\ Offset(req[c]) \in Int /\ Limit(req[c]) \in Int
    BY <1>0, RowsAssumption DEF TypeOK, RowsAssumption, Offset, Limit, Clamp, Request
  <2>5. Cardinality(Parties) \in Nat
    <3>1. IsFiniteSet(Parties)
      BY <1>0, FS_Subset DEF Committed, Parties
    <3>. QED  BY <3>1, FS_CardinalityType
  <2>. QED  BY <2>1, <2>2, <2>3, <2>4, <2>5
<1>6. Told(c)'
  <2>1. req'[c] = req[c] /\ answer'[c].code = "ok" /\ answer'[c].more = more
    BY <1>0, <1>1, <1>2
  <2>. QED  BY <2>1, <1>0, <1>5 DEF Told
<1>. QED  BY <1>0, <1>3, <1>4, <1>6, QuietStep DEF Own

-----------------------------------------------------------------------------
(* The steps that add and end rows.                                        *)

LEMMA CommitInv == ASSUME IInv, NEW c \in Calls, Commit(c) PROVE IInv'
<1>. DEFINE row == [key |-> Key(c), by |-> c]
<1>0. /\ TypeOK /\ Placed(c) /\ Committed /\ Watch
      /\ pc[c] = "commit" /\ pc[c] # "done" /\ Unended(c)
      /\ UNCHANGED <<gone, req, tries, total>>
      /\ rows' = rows \cup {row} /\ open' = open \ {c}
  BY DEF IInv, Commit, Unended, Placed
<1>2. row \in Row
  <2>1. Key(c) \in Keys
    BY <1>0, KeyTyped DEF Key, TypeOK, Placed
  <2>. QED  BY <2>1 DEF Row, Keys
<1>3. /\ pc' \in [Calls -> Labels] /\ answer' \in [Calls -> Answers]
      /\ pc'[c] = "done" /\ answer'[c].code \in {"ok", "internal"} /\ ~answer'[c].more
      /\ \A d \in Calls \ {c} : pc'[d] = pc[d] /\ answer'[d] = answer[d]
  <2>1. CASE Report(c, c)
    BY <1>0, <2>1, ReportTyped
  <2>2. CASE Refuse(c, "internal")
    BY <1>0, <2>2, RefuseTyped, "internal" \in Codes DEF Codes
  <2>. QED  BY <2>1, <2>2, Mapped DEF Commit
<1>4. TypeOK'
  <2>1. rows' \subseteq Row
    BY <1>0, <1>2 DEF TypeOK
  <2>2. met' \in [Calls -> SUBSET Calls]
    BY <1>0, <2>1, WatchTyped
  <2>. QED  BY <1>0, <1>3, <2>1, <2>2 DEF TypeOK, Answers
<1>5. Grow /\ Only(c) /\ \A r \in rows' \cup gone' : r \in rows \cup gone \/ r.by = c
  BY <1>0, <1>3 DEF Grow, Only
<1>6. ~There(c)
  BY <1>0, NoneThere
<1>7. Committed'
  <2>1. IsFiniteSet(rows') /\ IsFiniteSet(gone')
    BY <1>0, FS_AddElement DEF Committed
  <2>2. ASSUME NEW r \in rows \cup gone
        PROVE  /\ pc'[r.by] = "done" /\ answer'[r.by].code \in {"ok", "internal"}
               /\ r.key = Key(r.by)'
    <3>1. r.by \in Calls \ {c}
      BY <1>0, <1>6 DEF TypeOK, Row, There
    <3>. QED  BY <1>0, <1>3, <3>1 DEF Committed, Key
  <2>3. pc'[c] = "done" /\ answer'[c].code \in {"ok", "internal"} /\ row.key = Key(c)'
    BY <1>0, <1>3 DEF Key
  <2>4. \A r \in rows', s \in gone' : r.by # s.by
    BY <1>0, <1>6 DEF Committed, There
  <2>5. \A r \in rows' \cup gone' :
          /\ pc'[r.by] = "done" /\ answer'[r.by].code \in {"ok", "internal"}
          /\ r.key = Key(r.by)'
    BY <1>0, <2>2, <2>3
  <2>. QED  BY <1>0, <2>1, <2>4, <2>5 DEF Committed
<1>8. Placed(c)' /\ Contending(c)' /\ Counted(c)'
  BY <1>3 DEF Placed, Contending, Counted, Unended
<1>9. Told(c)'
  <2>1. row \in rows' /\ row.by = c
    BY <1>0
  <2>2. There(c)'
    BY <2>1 DEF There
  <2>. QED  BY <1>3, <2>2 DEF Told
<1>. QED  BY <1>0, <1>4, <1>5, <1>7, <1>8, <1>9, StepOf DEF Own

\* Rows that end belong to calls that have long been answered.
LEMMA CommittedMoves ==
  ASSUME Committed, NEW D, D \subseteq rows, rows' = rows \ D, gone' = gone \cup D,
         \A r \in D : r.key.table # "party", \A r, s \in rows : r.by = s.by => r = s,
         \A r \in rows \cup gone :
            pc'[r.by] = pc[r.by] /\ answer'[r.by] = answer[r.by] /\ req'[r.by] = req[r.by]
  PROVE  Committed' /\ Grow
<1>1. IsFiniteSet(D) /\ IsFiniteSet(rows')
  BY FS_Subset DEF Committed
<1>2. IsFiniteSet(gone')
  BY <1>1, FS_Union DEF Committed
<1>3. \A r \in rows' \cup gone' :
        /\ pc'[r.by] = "done" /\ answer'[r.by].code \in {"ok", "internal"}
        /\ r.key = Key(r.by)'
  BY DEF Committed, Key
<1>4. \A r \in rows', s \in gone' : r.by # s.by
  BY DEF Committed
<1>5. \A s \in gone' : s.key.table # "party"
  BY DEF Committed
<1>6. Grow
  BY DEF Grow
<1>. QED  BY <1>1, <1>2, <1>3, <1>4, <1>5, <1>6 DEF Committed

\* A call has one row.
LEMMA OneRow == ASSUME IInv PROVE \A r, s \in rows : r.by = s.by => r = s
<1>1. ASSUME NEW r \in rows, NEW s \in rows, r.by = s.by PROVE r = s
  <2>1. r \in Row /\ s \in Row /\ r.key = s.key
    BY <1>1 DEF IInv, TypeOK, Committed
  <2>. QED  BY <1>1, <2>1 DEF Row
<1>. QED  BY <1>1

LEMMA SingleInv == ASSUME IInv, NEW c \in Calls, Single(c) PROVE IInv'
<1>0. /\ TypeOK /\ Placed(c) /\ Committed /\ Watch
      /\ pc[c] = "single" /\ pc[c] # "done" /\ Unended(c) /\ ~Inserts(req[c])
      /\ UNCHANGED <<open, req, tries, total>> /\ open' \subseteq Calls
      /\ tries' \in [Calls -> Nat] /\ \A d \in Calls \ {c} : tries'[d] = tries[d]
      /\ rows' = rows \ Deleted(c) /\ gone' = gone \cup Deleted(c)
  BY DEF IInv, Single, Unended, Placed, TypeOK
<1>1. CASE Target(c) = {}
  <2>1. Deleted(c) = {}
    BY <1>1 DEF Deleted, Target, Current, Holders, Key
  <2>2. Refuse(c, "not_found") /\ UNCHANGED <<rows, gone>>
    BY <1>0, <1>1, <2>1, Mapped DEF Single
  <2>. QED  BY <1>0, <2>2, RefusedStep
<1>2. CASE Target(c) # {}
  <2>1. PICK t \in Target(c) : Report(c, t)
    BY <1>2 DEF Single
  <2>2. t \in Calls
    BY <1>0 DEF Target, IsParty, Current, Holders, TypeOK, Row
  <2>3. /\ pc' \in [Calls -> Labels] /\ answer' \in [Calls -> Answers]
        /\ pc'[c] = "done" /\ answer'[c].code = "ok" /\ ~answer'[c].more
        /\ \A d \in Calls \ {c} : pc'[d] = pc[d] /\ answer'[d] = answer[d]
    BY <1>0, <2>1, <2>2, ReportTyped
  <2>4. TypeOK'
    <3>1. rows' \subseteq Row /\ gone' \subseteq Row
      BY <1>0 DEF TypeOK, Deleted
    <3>2. met' \in [Calls -> SUBSET Calls]
      BY <1>0, <3>1, WatchTyped
    <3>. QED  BY <1>0, <2>3, <3>1, <3>2 DEF TypeOK, Answers
  <2>5. Deleted(c) \subseteq rows /\ \A r \in Deleted(c) : r.key.table # "party"
    <3>1. ASSUME NEW r \in Deleted(c) PROVE r \in rows /\ r.key.table = "agent_registry"
      BY DEF Deleted, Key, KeyOf, AgentOps
    <3>. QED  BY <3>1
  <2>6. \A r \in rows \cup gone :
          pc'[r.by] = pc[r.by] /\ answer'[r.by] = answer[r.by] /\ req'[r.by] = req[r.by]
    <3>1. \A r \in rows \cup gone : r.by \in Calls \ {c}
      BY <1>0 DEF TypeOK, Row, Committed
    <3>. QED  BY <1>0, <2>3, <3>1
  <2>7. Committed' /\ Grow
    BY <1>0, <2>5, <2>6, OneRow, CommittedMoves
  <2>8. Placed(c)' /\ Contending(c)' /\ Counted(c)' /\ Told(c)'
    BY <1>0, <2>3 DEF Placed, Contending, Counted, Told, Unended
  <2>9. Only(c) /\ \A r \in rows' \cup gone' : r \in rows \cup gone \/ r.by = c
    BY <1>0, <2>3, <2>5 DEF Only
  <2>. QED  BY <1>0, <2>4, <2>7, <2>8, <2>9, StepOf DEF Own
<1>. QED  BY <1>1, <1>2

LEMMA EndRoleInv == ASSUME IInv, EndRole PROVE IInv'
<1>0. /\ TypeOK /\ Committed /\ Watch /\ UNCHANGED <<open, pc, req, tries, total, answer>>
  BY DEF IInv, EndRole
<1>1. PICK r \in rows : /\ r.key.table = "party_role"
                       /\ rows' = rows \ {r} /\ gone' = gone \cup {r}
  BY DEF EndRole
<1>2. Committed' /\ Grow
  <2>1. {r} \subseteq rows /\ \A s \in {r} : s.key.table # "party"
    BY <1>1
  <2>2. PICK D : D = {r}
    OBVIOUS
  <2>3. /\ D \subseteq rows /\ \A s \in D : s.key.table # "party"
        /\ rows' = rows \ D /\ gone' = gone \cup D
    BY <1>1, <2>1, <2>2
  <2>4. \A s \in rows \cup gone :
          pc'[s.by] = pc[s.by] /\ answer'[s.by] = answer[s.by] /\ req'[s.by] = req[s.by]
    BY <1>0
  <2>. QED  BY <1>0, <2>3, <2>4, OneRow, CommittedMoves
<1>3. TypeOK'
  <2>1. rows' \subseteq Row /\ gone' \subseteq Row
    BY <1>0, <1>1 DEF TypeOK
  <2>2. met' \in [Calls -> SUBSET Calls]
    BY <1>0, <2>1, WatchTyped
  <2>. QED  BY <1>0, <2>1, <2>2 DEF TypeOK
<1>4. ASSUME NEW d \in Calls
      PROVE  Placed(d)' /\ Contending(d)' /\ Counted(d)' /\ Told(d)'
  <2>1. Same(d) /\ \A s \in rows' \cup gone' : s \in rows \cup gone \/ s.by # d
    BY <1>0, <1>1 DEF Same
  <2>. QED  BY <1>0, <1>2, <1>3, <2>1, OtherCall
<1>. QED  BY <1>2, <1>3, <1>4 DEF IInv

-----------------------------------------------------------------------------
(* The theorems.                                                           *)

LEMMA InitInv == Init => IInv
<1>. SUFFICES ASSUME Init PROVE IInv  OBVIOUS
<1>1. TypeOK
  <2>1. NoAnswer \in Answers /\ "idle" \in Labels
    BY DEF NoAnswer, Answers, Codes, Labels
  <2>. QED  BY <2>1, Requested DEF Init, TypeOK, Answers
<1>2. Committed
  BY FS_EmptySet DEF Init, Committed
<1>3. ASSUME NEW c \in Calls PROVE Placed(c) /\ Contending(c) /\ Counted(c) /\ Told(c)
  BY DEF Init, Placed, Contending, Counted, Told, Unended, NoAnswer
<1>. QED  BY <1>1, <1>2, <1>3 DEF IInv

LEMMA StutterInv == IInv /\ UNCHANGED vars => IInv'
<1>. SUFFICES ASSUME IInv, UNCHANGED vars PROVE IInv'  OBVIOUS
<1>1. UNCHANGED <<rows, gone, open, pc, req, tries, total, answer, met>>
  BY DEF vars
<1>2. TypeOK' /\ Committed'
  BY <1>1 DEF IInv, TypeOK, Committed, Key
<1>3. ASSUME NEW c \in Calls PROVE Placed(c)' /\ Contending(c)' /\ Counted(c)' /\ Told(c)'
  <2>1. Placed(c) /\ Contending(c) /\ Counted(c) /\ Told(c)
    BY DEF IInv
  <2>2. Placed(c)' /\ Contending(c)' /\ Counted(c)'
    BY <1>1, <2>1 DEF Placed, Contending, Counted, Unended, Beaten, Ended, Parties
  <2>3. Told(c)'
    BY <1>1, <2>1 DEF Told, Beaten, Ended, There, Parties
  <2>. QED  BY <2>2, <2>3
<1>. QED  BY <1>2, <1>3 DEF IInv

LEMMA NextInv == IInv /\ [Next]_vars => IInv'
<1>. SUFFICES ASSUME IInv, [Next]_vars PROVE IInv'  OBVIOUS
<1>1. CASE EndRole
  BY <1>1, EndRoleInv
<1>2. ASSUME NEW c \in Calls, Begin(c) \/ Run(c) \/ Abort(c) PROVE IInv'
  BY <1>2, BeginInv, AbortInv, LookupInv, FindPartyInv, CheckInv, InsertInv, RecheckInv,
     CommitInv, SingleInv, CountInv, PageInv DEF Run
<1>3. CASE UNCHANGED vars
  BY <1>3, StutterInv
<1>. QED  BY <1>1, <1>2, <1>3 DEF Next

\* IInv holds in every state of every behaviour.
THEOREM InductiveInvariant == Spec => []IInv
  BY InitInv, NextInv, PTL DEF Spec

\* The types of the rows, the calls and their answers.
THEOREM TypeCorrect == Spec => []TypeOK
<1>1. IInv => TypeOK
  BY DEF IInv
<1>. QED  BY <1>1, InductiveInvariant, PTL

\* A call is refused as a duplicate only when another call's row of its key was
\* current while it ran.
THEOREM DuplicatesAreReal == Spec => []DuplicateIsReal
<1>1. IInv => DuplicateIsReal
  BY DEF IInv, Told, DuplicateIsReal
<1>. QED  BY <1>1, InductiveInvariant, PTL

\* add_party_role gives up only after as many ended rows as it made tries.
THEOREM ContentionsAreReal == Spec => []ContentionIsReal
<1>1. IInv => ContentionIsReal
  BY DEF IInv, Told, Beaten, Ended, ContentionIsReal
<1>. QED  BY <1>1, InductiveInvariant, PTL

\* "ok" means that the row is there or was, a refusal that it never was.
THEOREM AnswersAreTrue == Spec => []AnswerTellsTheTable
<1>1. IInv => AnswerTellsTheTable
  BY DEF IInv, Told, There, AnswerTellsTheTable
<1>. QED  BY <1>1, InductiveInvariant, PTL

\* The next page of parties that a search announces is there.
THEOREM NextPagesExist == Spec => []NextPageExists
<1>1. IInv => NextPageExists
  <2>. SUFFICES ASSUME IInv, NEW c \in Calls, answer[c].more, req[c].type = "party"
                PROVE  /\ Offset(req[c]) + Limit(req[c]) <= MaxOffset
                       /\ Offset(req[c]) + Limit(req[c]) < Cardinality(Found(req[c]))
    BY DEF NextPageExists
  <2>1. Found(req[c]) = Parties
    BY DEF Found, Parties
  <2>2. Told(c)
    BY DEF IInv
  <2>. QED  BY <2>1, <2>2 DEF Told
<1>. QED  BY <1>1, InductiveInvariant, PTL

=============================================================================
