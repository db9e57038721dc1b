-------------------------- MODULE ProductVersions ---------------------------
(***************************************************************************)
(* Optimistic concurrency on one product, as implemented by updateProduct, *)
(* addProductFeature and addProductPrice of the product service            *)
(* (apps/api/src/modules/core/product/product.service.ts).                 *)
(*                                                                         *)
(* Every write is one database transaction at READ COMMITTED.  Its UPDATE  *)
(* of the product row takes the row's lock, evaluates the version          *)
(* predicate against the row as last committed, and keeps the lock until   *)
(* the transaction commits or is rolled back.  A read is not atomic:       *)
(* get_product fetches the row and then each relation by a statement of    *)
(* its own, so the parts it returns may be younger than the version.       *)
(*                                                                         *)
(* The content of a part is represented by the versions at which it was    *)
(* written: enough to tell any two contents apart.  A read that fails      *)
(* leaves its client with what it had, and is left out.                    *)
(***************************************************************************)
EXTENDS Naturals, FiniteSets

CONSTANTS
    Clients,        \* agents and REST callers, each with one call at a time
    Nobody,         \* stands for the holder of a free lock
    MaxVersion      \* bound: no call is made once the product is this old

Parts    == {"features", "prices"}          \* relations of the product row
Forced   == 0                               \* an update without expectedVersion
Row      == [version : Nat, fields : Nat]
Writes   == {"update"} \cup Parts           \* a part is written by its add_ tool
Answers  == {"none", "ok", "conflict", "not_found", "error"}
Rereads  == {"none", "found", "missing", "failed"}

ASSUME VersionsAssumption ==
    /\ Nobody \notin Clients
    /\ MaxVersion \in Nat

VARIABLES
    row,            \* the product row: its version and its scalar fields
    parts,          \* the committed rows of each relation
    lock,           \* the transaction that holds the row's lock
    pc,             \* what each client's call is doing
    call,           \* what it writes, and on which condition
    seen,           \* the row as the client last read it ...
    got,            \* ... and the parts fetched with that row
    fetched,        \* the relations that were fetched with it
    answer,         \* the answer to the client's last call
    recheck         \* what the re-read after its last miss returned

vars == <<row, parts, lock, pc, call, seen, got, fetched, answer, recheck>>

Call == [writes : Writes, expected : Nat, exists : BOOLEAN]

NoCall == [writes |-> "update", expected |-> Forced, exists |-> TRUE]

\* createProduct has committed: the row exists and nobody has read it yet.
Init ==
    /\ row = [version |-> 1, fields |-> 1]
    /\ parts = [p \in Parts |-> {}]
    /\ lock = Nobody
    /\ pc = [c \in Clients |-> "idle"]
    /\ call = [c \in Clients |-> NoCall]
    /\ seen = [c \in Clients |-> [version |-> 0, fields |-> 0]]
    /\ got = [c \in Clients |-> [p \in Parts |-> {}]]
    /\ fetched = [c \in Clients |-> {}]
    /\ answer = [c \in Clients |-> "none"]
    /\ recheck = [c \in Clients |-> "none"]

-----------------------------------------------------------------------------
(* Reading.  search_products stops after the row; get_product goes on.     *)

ReadRow(c) ==
    /\ pc[c] = "idle" /\ row.version < MaxVersion
    /\ seen' = [seen EXCEPT ![c] = row]
    /\ fetched' = [fetched EXCEPT ![c] = {}]
    /\ \E after \in {"idle", "reading"} : pc' = [pc EXCEPT ![c] = after]
    /\ answer' = [answer EXCEPT ![c] = "none"]
    /\ UNCHANGED <<row, parts, lock, call, got, recheck>>

ReadPart(c, p) ==
    /\ pc[c] = "reading" /\ p \notin fetched[c]
    /\ got' = [got EXCEPT ![c][p] = parts[p]]
    /\ fetched' = [fetched EXCEPT ![c] = @ \cup {p}]
    /\ pc' = [pc EXCEPT ![c] = IF fetched'[c] = Parts THEN "idle" ELSE "reading"]
    /\ UNCHANGED <<row, parts, lock, call, seen, answer, recheck>>

-----------------------------------------------------------------------------
(* Writing.  A call names a product by any well-formed id, be there such a *)
(* product or not, and passes no version or any positive one: mostly the   *)
(* one it last read, but nothing ties it to a read.                        *)

Expectations == {Forced} \cup 1..MaxVersion + 1

Begin(c) ==
    /\ pc[c] = "idle" /\ row.version < MaxVersion
    /\ \E w \in Writes, e \in Expectations, x \in BOOLEAN :
        /\ w \in Parts => e = Forced           \* the add_ tools take no version
        /\ call' = [call EXCEPT ![c] =
                       [writes |-> w, expected |-> e, exists |-> x]]
    /\ pc' = [pc EXCEPT ![c] = "started"]
    /\ answer' = [answer EXCEPT ![c] = "none"]
    /\ recheck' = [recheck EXCEPT ![c] = "none"]
    /\ UNCHANGED <<row, parts, lock, seen, got, fetched>>

\* Variant: the version is not part of the predicate.
MatchesById(c) == call[c].exists

Matches(c) == call[c].exists /\ call[c].expected \in {Forced, row.version}

\* The statement that writes the row waits for the lock and finds the row.
\* For an add_ tool the insert of the part comes first in the transaction.
Lock(c) ==
    /\ pc[c] = "started" /\ lock = Nobody
    /\ Matches(c)
    /\ lock' = c
    /\ pc' = [pc EXCEPT ![c] = "holding"]
    /\ UNCHANGED <<row, parts, call, seen, got, fetched, answer, recheck>>

Settle(c, a) ==
    /\ pc' = [pc EXCEPT ![c] = "idle"]
    /\ answer' = [answer EXCEPT ![c] = a]

\* P2025: no row has this id and, when one is expected, this version.
Miss(c) ==
    /\ pc[c] = "started"
    /\ lock = Nobody \/ ~call[c].exists
    /\ ~Matches(c)
    /\ IF call[c].writes = "update" /\ call[c].expected # Forced
       THEN pc' = [pc EXCEPT ![c] = "missed"] /\ UNCHANGED answer
       ELSE Settle(c, "not_found")
    /\ UNCHANGED <<row, parts, lock, call, seen, got, fetched, recheck>>

\* Variant: a re-read that fails counts as one that found nothing.
ReportMissing(c) ==
    IF recheck'[c] = "found" THEN Settle(c, "conflict") ELSE Settle(c, "not_found")

\* productExists counts a re-read that failed as a product that is there.
Report(c) ==
    IF recheck'[c] = "missing" THEN Settle(c, "not_found") ELSE Settle(c, "conflict")

Recheck(c) ==
    /\ pc[c] = "missed"
    /\ \E found \in {IF call[c].exists THEN "found" ELSE "missing", "failed"} :
           recheck' = [recheck EXCEPT ![c] = found]
    /\ Report(c)
    /\ UNCHANGED <<row, parts, lock, call, seen, got, fetched>>

NextVersion == row.version + 1

\* Variant: the tools that add a part do not bump the version.
RowAfterPlain(c) ==
    LET v == IF call[c].writes = "update" THEN NextVersion ELSE row.version
    IN  [version |-> v,
         fields  |-> IF call[c].writes = "update" THEN v ELSE row.fields]

\* What the transaction of a call leaves behind: the product row ...
RowAfter(c) ==
    [version |-> NextVersion,
     fields  |-> IF call[c].writes = "update" THEN NextVersion ELSE row.fields]

\* ... and the relations.
PartsAfter(c) ==
    [p \in Parts |-> IF call[c].writes = p THEN parts[p] \cup {NextVersion}
                                           ELSE parts[p]]

\* The response of update_product carries the row as written, no relation.
Learn(c) ==
    IF call[c].writes = "update"
    THEN /\ seen' = [seen EXCEPT ![c] = RowAfter(c)]
         /\ fetched' = [fetched EXCEPT ![c] = {}]
    ELSE UNCHANGED <<seen, fetched>>

\* The commit may be acknowledged or not; the client learns from a response.
Commit(c) ==
    /\ pc[c] = "holding"
    /\ row' = RowAfter(c)
    /\ parts' = PartsAfter(c)
    /\ lock' = Nobody
    /\ \/ Settle(c, "ok") /\ Learn(c)
       \/ Settle(c, "error") /\ UNCHANGED <<seen, fetched>>
    /\ UNCHANGED <<call, got, recheck>>

\* Variant: any failed conditional update is re-read, not only one that missed.
FailAsMiss(c) ==
    /\ pc[c] \in {"started", "holding"}
    /\ lock' = IF lock = c THEN Nobody ELSE lock
    /\ IF call[c].expected # Forced
       THEN pc' = [pc EXCEPT ![c] = "missed"] /\ UNCHANGED answer
       ELSE Settle(c, "error")
    /\ UNCHANGED <<row, parts, call, seen, got, fetched, recheck>>

\* A transaction that times out, or loses its connection, is rolled back.  The
\* answer "error" stands for every code mapPrismaError makes of that, the
\* CONCURRENCY_CONFLICT of P2028 and P2034 too, whose text asks for a retry and
\* claims no change of the product.
Fail(c) ==
    /\ pc[c] \in {"started", "holding"}
    /\ lock' = IF lock = c THEN Nobody ELSE lock
    /\ Settle(c, "error")
    /\ UNCHANGED <<row, parts, call, seen, got, fetched, recheck>>

Next ==
    \E c \in Clients :
        \/ ReadRow(c) \/ \E p \in Parts : ReadPart(c, p)
        \/ Begin(c) \/ Lock(c) \/ Miss(c) \/ Recheck(c)
        \/ Commit(c) \/ Fail(c)

Spec == Init /\ [][Next]_vars

-----------------------------------------------------------------------------
(* Properties                                                              *)

States == {"idle", "reading", "started", "holding", "missed"}

TypeOK ==
    /\ row \in Row
    /\ parts \in [Parts -> SUBSET Nat]
    /\ lock \in Clients \cup {Nobody}
    /\ pc \in [Clients -> States]
    /\ call \in [Clients -> Call]
    /\ seen \in [Clients -> Row]
    /\ got \in [Clients -> [Parts -> SUBSET Nat]]
    /\ fetched \in [Clients -> SUBSET Parts]
    /\ answer \in [Clients -> Answers]
    /\ recheck \in [Clients -> Rereads]

\* The call writes back the version its client last read of the product.
Informed(c) ==
    /\ call[c].exists
    /\ call[c].expected # Forced
    /\ call[c].expected = seen[c].version

\* An update with the version its client last read overwrites nothing that
\* client has not seen: when it commits, the row and every relation fetched
\* with that row are exactly as fetched (updateProduct: "a caller that reads a
\* product, edits it and writes back the version it read is protected against
\* a concurrent writer").  A version that was guessed protects nobody.
NoLostUpdate ==
    \A c \in Clients : pc[c] = "holding" /\ Informed(c) =>
        /\ seen[c] = row
        /\ \A p \in fetched[c] : got[c][p] = parts[p]

\* The version is a token for the whole aggregate: a client whose version is
\* still the current one has the current content, in spite of reads that are
\* not atomic and of tools that write only a relation (the note on the bump
\* in addProductFeature).
VersionIdentifiesContent ==
    \A c \in Clients : seen[c].version = row.version =>
        /\ seen[c].fields = row.fields
        /\ \A p \in fetched[c] : got[c][p] = parts[p]

\* The two refusals of a conditional update tell the truth as far as the
\* code can know it, whatever commits between the miss and the re-read and
\* however that ends.  A client that passed the version it read is told of a
\* conflict only when the product has changed since; any other is, of a
\* product that is not there, only when the re-read failed; and no product
\* that is there is reported missing ("a misleading 404 would send the caller
\* looking for a product that exists", productExists).
RefusalsAreReal ==
    \A c \in Clients :
        /\ answer[c] = "conflict" =>
              /\ Informed(c) => call[c].expected < row.version
              /\ call[c].exists \/ recheck[c] = "failed"
        /\ answer[c] = "not_found" => ~call[c].exists

\* Each version differs from the one before in exactly one part, and no part
\* changes under an unchanged version.
OneChangePerVersion ==
    [][/\ row'.version = row.version + 1
       /\ \/ row'.fields # row.fields /\ parts' = parts
          \/ /\ row'.fields = row.fields
             /\ \E p \in Parts : /\ parts[p] # parts'[p]
                                 /\ parts[p] \subseteq parts'[p]
                                 /\ \A q \in Parts \ {p} : parts'[q] = parts[q]
      ]_<<row, parts>>

=============================================================================
