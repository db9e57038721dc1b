----------------------------- MODULE UniqueRows ------------------------------
(***************************************************************************)
(* The calls of the party and security services that create rows under a   *)
(* unique index, and the calls that read and page through those rows       *)
(* (apps/api/src/modules/core/party/party.service.ts, .../security/        *)
(* security.service.ts, packages/shared/src/prisma-error-mapper.ts).       *)
(*                                                                         *)
(* One tenant.  A call is made once, and a row carries the name of the     *)
(* call that inserted it in place of its generated id.  Statements run at  *)
(* READ COMMITTED: a read sees the rows committed at that moment, and an   *)
(* insert waits for the transaction that holds an uncommitted row of the   *)
(* same key.  A text is represented by what the validation can tell about  *)
(* it, its content by a value.                                             *)
(***************************************************************************)
EXTENDS Integers, FiniteSets

CONSTANTS
    Calls,      \* the calls made to the services
    Requests,   \* what they may ask for
    Values,     \* the role types, addresses, numbers and names they give
    RoleTypes,  \* the values that are rows of the role_type table
    Tenant,     \* owner of the keys that are unique in the whole tenant
    None,       \* no row, or a malformed id
    MaxTries,   \* MAX_CONCURRENCY_RETRIES
    MaxLimit,   \* MAX_SEARCH_LIMIT
    MaxOffset   \* MAX_SEARCH_OFFSET

Forms == {"absent", "number", "blank", "markup", "long",
          "plain",      \* within bounds as it is
          "tagged",     \* within bounds, with markup around it
          "wrapped"}    \* within bounds only once its markup is stripped

PartyTypes == {"PERSON", "ORGANIZATION"}
Contacts   == {"POSTAL_ADDRESS", "TELECOM_NUMBER", "EMAIL_ADDRESS"}
AgentOps   == {"register_agent", "update_agent", "delete_agent", "get_agent"}
PartyOps   == {"get_party", "add_role", "add_contact", "create_user", "get_user"}
Ops        == {"create_party", "search"} \cup PartyOps \cup AgentOps

Parts      == PartyTypes \cup Contacts \cup {"version"}
Tables     == {"party", "party_role", "user", "agent_registry"} \cup Contacts
Types      == PartyTypes \cup {"TENANT", "other"} \cup Tables

\* What a call asks for: for the party or the value, with data in this form,
\* of this type and with these parts; a search is of the rows of a table.
Request == [op : Ops, party : Calls \cup {None}, value : Values \cup {None},
            form : Forms, type : Types, parts : SUBSET Parts,
            limit : Int, offset : Int]

ASSUME RowsAssumption ==
    /\ None \notin Calls /\ Tenant \notin Calls
    /\ MaxTries \in Nat \ {0} /\ MaxLimit \in Nat \ {0} /\ MaxOffset \in Nat
    /\ Requests \subseteq Request

VARIABLES
    rows,       \* the committed rows that are current
    gone,       \* the rows that were: ended roles and deleted agents
    open,       \* the calls whose insert is not committed yet
    pc, req,    \* where each call is, and what it asks for
    tries,      \* transactions add_party_role has started
    total,      \* the count a search has taken
    answer,     \* what each call was told
    met         \* the rows of its key that were current while it ran

vars == <<rows, gone, open, pc, req, tries, total, answer, met>>

Codes == {"none", "ok", "invalid", "not_found", "duplicate",
          "contended",  \* CONCURRENCY_CONFLICT after the last retry
          "conflict",   \* CONCURRENCY_CONFLICT of a failed transaction
          "internal"}

NoAnswer == [code |-> "none", row |-> None, more |-> FALSE]

\* Whether the request inserts under a unique index, and the key it takes.
Unique(q) ==
    \/ q.op \in {"add_role", "create_user", "register_agent"}
    \/ q.op = "add_contact" /\ q.type # "POSTAL_ADDRESS"

KeyOf(q) ==
    CASE q.op = "add_role"    -> [table |-> "party_role", owner |-> q.party, value |-> q.value]
      [] q.op \in {"create_user", "get_user"} ->
                              [table |-> "user", owner |-> q.party, value |-> None]
      [] q.op \in AgentOps    -> [table |-> "agent_registry", owner |-> Tenant, value |-> q.value]
      [] q.op = "add_contact" -> [table |-> q.type, owner |-> Tenant, value |-> q.value]
      [] OTHER                -> [table |-> "party", owner |-> Tenant, value |-> None]

Key(c)       == KeyOf(req[c])
Holders(q, rs) == {r.by : r \in {s \in rs : s.key = KeyOf(q)}}
Current(c)   == Holders(req[c], rows)
Taken(c)     == Unique(req[c]) /\ Current(c) # {}
Blocked(c)   == Unique(req[c]) /\ \E d \in open : d # c /\ Key(d) = Key(c)
IsParty(p)   == \E r \in rows : r.key.table = "party" /\ r.by = p

Nothing == [op |-> "search", party |-> None, value |-> None, form |-> "absent",
            type |-> "party", parts |-> {}, limit |-> 1, offset |-> 0]

Init ==
    /\ rows = {} /\ gone = {} /\ open = {}
    /\ pc = [c \in Calls |-> "idle"]
    /\ req = [c \in Calls |-> Nothing]
    /\ tries = [c \in Calls |-> 0]
    /\ total = [c \in Calls |-> 0]
    /\ answer = [c \in Calls |-> NoAnswer]
    /\ met = [c \in Calls |-> {}]

-----------------------------------------------------------------------------
(* Validation.                                                             *)

\* requireSanitizedStringField: the cap is on the stripped text.
Sanitized(f) == f \in {"plain", "tagged", "wrapped"}

\* requireStringField, whose cap is on the raw text, and then the check that
\* something is left of it.
Capped(f) == f \in {"plain", "tagged"}

\* isSupportedPasswordHash of the text as it is.
Hash(f) == f = "plain"

\* Exactly the data of the named subtype comes with the request.
SubtypeOnly(q) == q.parts = {q.type}

ValidParty(q) ==
    Sanitized(q.form) /\ (q.type \in PartyTypes => SubtypeOnly(q))

ValidContact(q) ==
    q.type \in Contacts /\ SubtypeOnly(q) /\ Sanitized(q.form)

\* An update has something to change.
ValidAgent(q) ==
    Capped(q.form) /\ (q.op = "update_agent" => q.parts # {})

Valid(q) ==
    /\ q.op \in PartyOps => q.party # None          \* requireUuid
    /\ q.op = "create_party" => ValidParty(q)
    /\ q.op = "add_role"     => Sanitized(q.form)
    /\ q.op = "add_contact"  => ValidContact(q)
    /\ q.op = "create_user"  => Hash(q.form)
    /\ q.op \in AgentOps     => ValidAgent(q)

-----------------------------------------------------------------------------
(* The error mapper.                                                       *)

Faults == {"P1xxx", "P2024", "P2028", "P2034", "unknown"}

\* Variant: failures of the connection are reported as conflicts.
MapsConnectionsToConflict(code) ==
    CASE code = "P2002" -> "duplicate"
      [] code = "P2025" -> "not_found"
      [] code \in Faults -> "conflict"

\* Variant: every conflict is a duplicate.
MapsConflictsToDuplicate(code) ==
    CASE code \in {"P2002", "P2034"} -> "duplicate"
      [] code = "P2025" -> "not_found"
      [] code = "P2028" -> "conflict"
      [] OTHER -> "internal"

\* handleTransactionError and throwMappedPrismaError, for the codes these
\* calls can meet: only a fault that is known to have rolled the transaction
\* back is a conflict, a failure of the connection is thrown on.
MapError(code) ==
    CASE code = "P2002" -> "duplicate"
      [] code = "P2025" -> "not_found"
      [] code \in {"P2028", "P2034"} -> "conflict"
      [] OTHER -> "internal"

\* Variant: the page after the last one counts.
MoreByAtMost(offset, limit, n) ==
    offset + limit <= n /\ offset + limit <= MaxOffset

\* computeHasMore
HasMore(offset, limit, n) ==
    offset + limit < n /\ offset + limit <= MaxOffset

Clamp(n, low, high) == IF n < low THEN low ELSE IF n > high THEN high ELSE n
Limit(q)  == Clamp(q.limit, 1, MaxLimit)
Offset(q) == Clamp(q.offset, 0, MaxOffset)

-----------------------------------------------------------------------------
(* Steps.  Watch keeps track of the rows a running call could meet.        *)

Watch ==
    met' = [c \in Calls |->
              IF pc[c] = "done" \/ pc'[c] = "idle" THEN met[c]
              ELSE met[c] \cup Holders(req'[c], rows')]

Goto(c, label) == pc' = [pc EXCEPT ![c] = label] /\ UNCHANGED answer

Tell(c, a) ==
    /\ pc' = [pc EXCEPT ![c] = "done"]
    /\ answer' = [answer EXCEPT ![c] = a]

Refuse(c, code) == Tell(c, [NoAnswer EXCEPT !.code = code])
Report(c, row)  == Tell(c, [NoAnswer EXCEPT !.code = "ok", !.row = row])

Duplicate(c) ==
    \E r \in Current(c) :
        Tell(c, [NoAnswer EXCEPT !.code = "duplicate", !.row = r])

First(q) ==
    CASE q.op \in {"create_party", "add_role", "add_contact"} -> "lookup"
      [] q.op = "create_user"    -> "find"
      [] q.op = "register_agent" -> "insert"
      [] q.op = "search"         -> "count"
      [] OTHER                   -> "single"

Begin(c) ==
    /\ pc[c] = "idle"
    /\ \E q \in Requests :
         /\ req' = [req EXCEPT ![c] = q]
         /\ IF Valid(q) THEN Goto(c, First(q)) ELSE Refuse(c, "invalid")
    /\ UNCHANGED <<rows, gone, open, tries, total>>
    /\ Watch

\* The type tables are read through the admin client.  A type that is no row
\* is refused, and so is a party type that has no subtype.
Known(q) ==
    /\ q.op = "create_party" => q.type \in PartyTypes
    /\ q.op = "add_role" => q.value \in RoleTypes

Lookup(c) ==
    /\ pc[c] = "lookup"
    /\ IF ~Known(req[c]) THEN Refuse(c, "invalid")
       ELSE Goto(c, IF req[c].op = "create_party" THEN "insert" ELSE "find")
    /\ UNCHANGED <<rows, gone, open, req, tries, total>>
    /\ Watch

\* The transaction of a role or of a contact starts with its party;
\* createUser reads the party in a transaction of its own.
FindParty(c) ==
    /\ pc[c] = "find"
    /\ IF ~IsParty(req[c].party) THEN Refuse(c, "not_found")
       ELSE Goto(c, IF req[c].op = "add_contact" THEN "check" ELSE "insert")
    /\ tries' = [tries EXCEPT ![c] = @ + 1]
    /\ UNCHANGED <<rows, gone, open, req, total>>
    /\ Watch

\* checkEmailDuplicate, checkTelecomDuplicate: in the whole tenant.
Check(c) ==
    /\ pc[c] = "check"
    /\ IF Taken(c) THEN Duplicate(c) ELSE Goto(c, "insert")
    /\ UNCHANGED <<rows, gone, open, req, tries, total>>
    /\ Watch

\* A row of the same key makes ON CONFLICT DO NOTHING return no row; the
\* other inserts fail with P2002.
Insert(c) ==
    /\ pc[c] = "insert" /\ ~Blocked(c)
    /\ IF ~Taken(c)
       THEN open' = open \cup {c} /\ Goto(c, "commit")
       ELSE /\ UNCHANGED open
            /\ IF req[c].op = "add_role" THEN Goto(c, "recheck")
                                         ELSE Refuse(c, MapError("P2002"))
    /\ UNCHANGED <<rows, gone, req, tries, total>>
    /\ Watch

\* Variant: the last try is not made.
RecheckOneLess(c) ==
    /\ pc[c] = "recheck"
    /\ IF Taken(c) THEN Duplicate(c)
       ELSE IF tries[c] + 1 < MaxTries THEN Goto(c, "find") ELSE Refuse(c, "contended")
    /\ UNCHANGED <<rows, gone, open, req, tries, total>>
    /\ Watch

\* The role that was in the way may have ended since: the whole transaction
\* is then tried again (ConcurrencyRetryError).
Recheck(c) ==
    /\ pc[c] = "recheck"
    /\ IF Taken(c) THEN Duplicate(c)
       ELSE IF tries[c] < MaxTries THEN Goto(c, "find") ELSE Refuse(c, "contended")
    /\ UNCHANGED <<rows, gone, open, req, tries, total>>
    /\ Watch

\* The acknowledgement of a commit may be lost with the connection.
Commit(c) ==
    /\ pc[c] = "commit"
    /\ rows' = rows \cup {[key |-> Key(c), by |-> c]}
    /\ open' = open \ {c}
    /\ Report(c, c) \/ Refuse(c, MapError("P1xxx"))
    /\ UNCHANGED <<gone, req, tries, total>>
    /\ Watch

\* A statement, or the transaction's time limit, fails: nothing is left.
Abort(c) ==
    /\ pc[c] \notin {"idle", "done"}
    /\ \E code \in Faults : Refuse(c, MapError(code))
    /\ open' = open \ {c}
    /\ UNCHANGED <<rows, gone, req, tries, total>>
    /\ Watch

\* The calls of one statement: get_party, get_user and the agent's own.
Target(c) ==
    IF req[c].op = "get_party" THEN {p \in {req[c].party} : IsParty(p)}
                               ELSE Current(c)

Deleted(c) ==
    {r \in rows : req[c].op = "delete_agent" /\ r.key = Key(c)}

Single(c) ==
    /\ pc[c] = "single"
    /\ IF Target(c) = {} THEN Refuse(c, MapError("P2025"))
                         ELSE \E r \in Target(c) : Report(c, r)
    /\ rows' = rows \ Deleted(c) /\ gone' = gone \cup Deleted(c)
    /\ UNCHANGED <<open, req, tries, total>>
    /\ Watch

\* search_parties and list_agents: the count and the page are two
\* transactions.
Found(q) == {r \in rows : r.key.table = q.type}

Count(c) ==
    /\ pc[c] = "count"
    /\ total' = [total EXCEPT ![c] = Cardinality(Found(req[c]))]
    /\ Goto(c, "page")
    /\ UNCHANGED <<rows, gone, open, req, tries>>
    /\ Watch

Page(c) ==
    /\ pc[c] = "page"
    /\ Tell(c, [NoAnswer EXCEPT !.code = "ok",
                    !.more = HasMore(Offset(req[c]), Limit(req[c]), total[c])])
    /\ UNCHANGED <<rows, gone, open, req, tries, total>>
    /\ Watch

\* A role ends when its thruDate is set, which no operation of src/ does.
EndRole ==
    /\ \E r \in rows :
         /\ r.key.table = "party_role"
         /\ rows' = rows \ {r} /\ gone' = gone \cup {r}
    /\ UNCHANGED <<open, pc, req, tries, total, answer>>
    /\ Watch

Run(c) ==
    \/ Lookup(c) \/ FindParty(c) \/ Check(c) \/ Insert(c) \/ Recheck(c)
    \/ Commit(c) \/ Single(c) \/ Count(c) \/ Page(c)

Next == EndRole \/ \E c \in Calls : Begin(c) \/ Run(c) \/ Abort(c)

Spec == Init /\ [][Next]_vars

-----------------------------------------------------------------------------
(* Properties                                                              *)

Labels == {"idle", "lookup", "find", "check", "insert", "recheck", "commit",
           "single", "count", "page", "done"}

Row == [key : [table : Tables, owner : Calls \cup {None, Tenant},
               value : Values \cup {None}],
        by : Calls]

TypeOK ==
    /\ rows \subseteq Row /\ gone \subseteq Row /\ open \subseteq Calls
    /\ pc \in [Calls -> Labels]
    /\ req \in [Calls -> Request]
    /\ tries \in [Calls -> Nat]
    /\ total \in [Calls -> Nat]
    /\ answer \in [Calls -> [code : Codes, row : Calls \cup {None}, more : BOOLEAN]]
    /\ met \in [Calls -> SUBSET Calls]

\* A call is refused as a duplicate only when another call's row of its key
\* was current at some moment while it ran, and the row it is told of is such
\* a row: no timeout and no rolled back insert passes for a duplicate
\* (addPartyRoleTransaction, checkEmailDuplicate, the mapping of P2002).
DuplicateIsReal ==
    \A c \in Calls : answer[c].code = "duplicate" =>
        /\ met[c] \ {c} # {}
        /\ answer[c].row \in (met[c] \ {c}) \cup {None}

\* add_party_role gives up with CONCURRENCY_CONFLICT only when on each of its
\* tries another role was in the way and ended before the re-check: "concurrent
\* duplicate add_party_role calls converge instead of failing"
\* (the note in addPartyRole).
ContentionIsReal ==
    \A c \in Calls : answer[c].code = "contended" =>
        Cardinality(met[c] \cap {r.by : r \in gone}) >= MaxTries

Inserts(q) == Unique(q) \/ q.op \in {"create_party", "add_contact"}

\* What a call is told is what it did: after "ok" its row is, or was, there
\* for everyone; after any refusal, those that ask for a retry too, it never
\* was.  Only an internal error leaves it open (the comments on P1xxx and
\* P2024 in handleTransactionError and throwMappedPrismaError).
AnswerTellsTheTable ==
    \A c \in Calls :
        LET there == \E r \in rows \cup gone : r.by = c
        IN  /\ answer[c].code = "ok" /\ Inserts(req[c]) => there
            /\ answer[c].code \notin {"none", "ok", "internal"} => ~there

\* A search that announces a next page of parties announces an offset that the
\* next search may use and rows that are there to be found, whatever was
\* created between the count, the page and the next search (the notes on
\* hasMore in searchParties and computeHasMore).
NextPageExists ==
    \A c \in Calls :
        LET next == Offset(req[c]) + Limit(req[c])
        IN  answer[c].more /\ req[c].type = "party" =>
                /\ next <= MaxOffset
                /\ next < Cardinality(Found(req[c]))

=============================================================================
