------------------------------ MODULE Payload --------------------------------
(***************************************************************************)
(* What becomes of an argument or a result on its way into a durable row:  *)
(* hashInput identifies the arguments of a call                            *)
(* (packages/shared/src/crypto.ts), redactSensitiveFieldValues hides the   *)
(* values of sensitive fields (.../sanitize.ts), and what is stored is     *)
(* bounded (Truncation).                                                   *)
(*                                                                         *)
(* A value is a leaf or a node of a heap, so that containers may share a   *)
(* child or lie on a cycle.  A result is a tree: a function from positions *)
(* to what stands there.                                                   *)
(***************************************************************************)
EXTENDS Truncation, FiniteSets, SequencesExt

CONSTANTS
    Nodes,          \* the containers of a heap
    KeyOrder,       \* the field names, in the order of sort()
    Sensitive,      \* those that isSensitiveFieldName holds for
    MaxRedaction,   \* MAX_REDACTION_DEPTH
    MaxNesting,     \* MAX_NESTING_DEPTH
    MaxKeys         \* MAX_HASH_KEYS

Absent == {"null", "undefined"}
Texts  == {"t1", "t2"}
Secret == "credential"
Leaves == Absent \cup Texts \cup {"nan", "bigint", Secret}
Marks  == {"[REDACTED]", "[Circular]", "[Too deep]"}
Values == Nodes \cup Leaves
Names  == ToSet(KeyOrder)

\* What stands for a container or for a name stands for no value.
ASSUME PayloadAssumption ==
    /\ MaxRedaction \in Nat /\ MaxNesting \in Nat /\ MaxKeys \in Nat
    /\ Sensitive \subseteq Names
    /\ Nodes \cap Leaves = {}
    /\ Names \cap (Texts \cup Marks \cup {Secret}) = {}

VARIABLES
    hash        \* of the two values of a job

payload == <<truncation, hash>>

-----------------------------------------------------------------------------
(* Trees.  A position is the sequence of the steps that lead to it: into a *)
(* list by a number, into a record by a name.                              *)

Label(kind, value, keys) == [kind |-> kind, value |-> value, keys |-> keys]

Leaf(v) == [p \in {<<>>} |-> Label("leaf", v, <<>>)]

Tree(label, items) ==
    [p \in {<<>>} \cup UNION {{Cons(s, q) : q \in DOMAIN items[s]} : s \in DOMAIN items} |->
        IF p = <<>> THEN label ELSE items[Head(p)][Tail(p)]]

List(items) == Tree(Label("list", "", <<>>), [s \in (1..Len(items)) \X {""} |-> items[s[1]]])

Pair(k, v) == List(<<k, v>>)

Keys(es) == [i \in 1..Len(es) |-> es[i].key]

\* keys tells in which order the fields are written.
Record(keys, es, items) ==
    Tree(Label("record", "", keys),
         [s \in {0} \X ToSet(Keys(es)) |-> items[CHOOSE i \in 1..Len(es) : es[i].key = s[2]]])

Undefined == Leaf("undefined")
Nulls     == {Leaf("null")}

-----------------------------------------------------------------------------
(* redactSensitiveFieldValues                                              *)

Withheld == Leaf("[REDACTED]")
TooDeep  == Leaf("[Too deep]")

\* sanitizeForLogOutput, for a text that shows a credential and one that does
\* not; other leaves pass.
Cleaned(leaf) == IF leaf = Secret THEN Withheld ELSE Leaf(leaf)

\* Variant: only a text is withheld, a container is walked.
IsWithheldText(e) == e.key \in Sensitive /\ e.item \in Texts

IsWithheld(e) == e.key \in Sensitive /\ e.item \notin Absent
Capped(e)     == IF e.key \in Sensitive THEN Withheld ELSE TooDeep

\* A name that is data: it is redacted one level further down, like a value.
KeyTree(e, left) ==
    IF e.key \in Sensitive THEN Withheld ELSE IF left = 0 THEN TooDeep ELSE Leaf(e.key)

handleDepthLimit(h, v) ==
    IF v \notin Nodes THEN TooDeep
    ELSE LET es == h[v].entries
         IN  CASE h[v].kind = "object" -> Record(Keys(es), es, [i \in 1..Len(es) |-> Capped(es[i])])
               [] h[v].kind = "map"    -> List([i \in 1..Len(es) |-> Pair(Capped(es[i]), TooDeep)])
               [] OTHER                -> List([i \in 1..Len(es) |-> TooDeep])

\* One container, given what its items become, and the levels left for them.
redactObject(es, items) ==
    Record(Keys(es), es, [i \in 1..Len(es) |-> IF IsWithheld(es[i]) THEN Withheld ELSE items[i]])

redactMap(es, items, left) ==
    List([i \in 1..Len(es) |->
        Pair(KeyTree(es[i], left), IF IsWithheld(es[i]) THEN Withheld ELSE items[i])])

redactTypedObject(kind, es, items, left) ==
    CASE kind = "object" -> redactObject(es, items)
      [] kind = "map"    -> redactMap(es, items, left)
      [] OTHER           -> List(items)

\* left: how many levels may still be entered.  seen: the containers above, not
\* all that were visited.
redactSensitiveFieldValues(h, v) ==
    LET redact[left \in 0..MaxRedaction + 1] == [w \in Values |-> [seen \in SUBSET Nodes |->
            IF left = 0 THEN handleDepthLimit(h, w)
            ELSE IF w \notin Nodes THEN Cleaned(w)
            ELSE IF w \in seen THEN Leaf("[Circular]")
            ELSE redactTypedObject(h[w].kind, h[w].entries,
                    [i \in 1..Len(h[w].entries) |->
                        redact[left - 1][h[w].entries[i].item][seen \cup {w}]],
                    left - 1)]]
    IN  redact[MaxRedaction + 1][v][{}]

-----------------------------------------------------------------------------
(* What truncateValue makes of a value that has been redacted.             *)

\* What JSON has no form for becomes a text or null.
Json(leaf) ==
    CASE leaf = "bigint" -> "digits" [] leaf \in Absent \cup {"nan"} -> "null" [] OTHER -> leaf

\* Fields without a value are left out, and elements become null.
Dropped(t) == {p \in DOMAIN t \ {<<>>} : t[p].value = "undefined" /\ Last(p)[1] = 0}

normaliseForTruncation(t) ==
    [p \in DOMAIN t \ Dropped(t) |->
        [t[p] EXCEPT !.value = Json(@),
                     !.keys = SelectSeq(@, LAMBDA k : Append(p, <<0, k>>) \notin Dropped(t))]]

\* A null, another leaf, a container with the names of its fields.
LabelSize(l) ==
    IF l.kind # "leaf" THEN 1 + Len(l.keys) ELSE IF l.value = "null" THEN 2 ELSE 3

serializedSize(t) == MapThenSumSet(LAMBDA p : LabelSize(t[p]), DOMAIN t)

-----------------------------------------------------------------------------
(* hashInput                                                               *)

Refused == Leaf("refused")

\* Fields, items and entries; a container met again on its own path counts 0.
countKeys(h, v) ==
    LET count[above \in SUBSET Nodes] == [w \in Values |->
            IF w \notin Nodes \/ w \in above THEN 0
            ELSE FoldLeft(LAMBDA n, e : n + count[above \cup {w}][e.item],
                          Len(h[w].entries), h[w].entries)]
    IN  count[{}][v]

\* Variant: fields are serialised in the order they were given in.
AsGiven(keys) == keys

Sorted(keys) ==
    SetToSortSeq(ToSet(keys), LAMBDA a, b : \E i, j \in 1..Len(KeyOrder) :
                                  KeyOrder[i] = a /\ KeyOrder[j] = b /\ i < j)

sortMap(es, items) ==
    LET keys == Sorted(Keys(es))
    IN  List([i \in 1..Len(keys) |->
                Pair(Leaf(keys[i]), items[CHOOSE j \in 1..Len(es) : es[j].key = keys[i]])])

\* What one item throws ends the whole.
dispatchContainer(kind, es, items) ==
    IF \E i \in 1..Len(es) : items[i] = Refused THEN Refused
    ELSE CASE kind = "object" -> Record(Sorted(Keys(es)), es, items)
           [] kind = "map"    -> sortMap(es, items)
           [] OTHER           -> List(items)

sortKeysDeep(h, v) ==
    LET sort[left \in 0..MaxNesting + 1] == [w \in Values |-> [ancestors \in SUBSET Nodes |->
            IF left = 0 THEN Refused
            ELSE IF w \notin Nodes THEN Leaf(IF Json(w) = "null" THEN "null" ELSE w)
            ELSE IF w \in ancestors THEN Refused
            ELSE dispatchContainer(h[w].kind, h[w].entries,
                    [i \in 1..Len(h[w].entries) |->
                        sort[left - 1][h[w].entries[i].item][ancestors \cup {w}]])]]
    IN  sort[MaxNesting + 1][v][{}]

hashInput(h, v) == IF countKeys(h, v) > MaxKeys THEN Refused ELSE sortKeysDeep(h, v)

-----------------------------------------------------------------------------
(* One job: the steps a payload goes through.                              *)

PayloadInit ==
    /\ job = <<>> /\ hash = <<>>
    /\ redacted = Nothing /\ stored = Nothing /\ capped = <<>>
    /\ stage = "idle"

\* A job: two values in a heap, an error text, and the limit.
Submit(heap, value, other, limit, bytes) ==
    /\ stage = "idle" /\ stage' = "asked"
    /\ job' = [heap |-> heap, value |-> value, other |-> other, limit |-> limit, text |-> bytes]
    /\ UNCHANGED <<redacted, stored, capped, hash>>

Hash ==
    /\ stage = "asked" /\ stage' = "hashed"
    /\ hash' = <<hashInput(job.heap, job.value), hashInput(job.heap, job.other)>>
    /\ UNCHANGED <<job, redacted, stored, capped>>

Redact ==
    /\ stage = "hashed" /\ stage' = "redacted"
    /\ redacted' = redactSensitiveFieldValues(job.heap, job.value)
    /\ UNCHANGED <<job, stored, capped, hash>>

PayloadNext == Hash \/ Redact \/ (Store /\ UNCHANGED hash)

\* Whatever is in the heap, with the names in a container all different.
Entries == Seq([key : Names, item : Values])

Heaps ==
    {h \in [Nodes -> [kind : {"object", "array", "map"}, entries : Entries]] :
        \A n \in Nodes : \A i, j \in 1..Len(h[n].entries) :
            h[n].kind # "array" /\ i # j => h[n].entries[i].key # h[n].entries[j].key}

PayloadSpec ==
    PayloadInit /\ [][\/ PayloadNext
                      \/ \E heap \in Heaps, v, w \in Values, limit \in Int, bytes \in Strings :
                            Submit(heap, v, w, limit, bytes)]_payload

-----------------------------------------------------------------------------
(* Properties                                                              *)

\* The leaves of a tree.
Shown(t) == {t[p].value : p \in DOMAIN t}

\* The ways through the containers of a heap, by the entries given of each.
Routes(entries, v, length) ==
    {r \in UNION {[1..n -> Nodes] : n \in 1..length} :
        r[1] = v /\ \A i \in 1..Len(r) - 1 : \E e \in entries[r[i]] : e.item = r[i + 1]}

\* What such a way leads to.
Reached(entries, v, length) ==
    IF v \notin Nodes THEN {v}
    ELSE {e.item : e \in UNION {entries[Last(r)] : r \in Routes(entries, v, length)}}

\* Whether a value lies on no cycle and nothing in it deeper than a bound.
Within(entries, v, bound) ==
    \A r \in Routes(entries, v, bound + 1) : \A e \in entries[Last(r)] :
        Len(r) <= bound /\ e.item \notin ToSet(r)

Every(h) == [n \in Nodes |-> ToSet(h[n].entries)]
Open(h)  == [n \in Nodes |-> {e \in ToSet(h[n].entries) : h[n].kind = "array" \/ e.key \notin Sensitive}]

\* A value below a sensitive name is never shown, whatever kind of container
\* it is in; every other value is, also when containers share it, unless a
\* container lies on a cycle or too deep (redactSensitiveFieldValues: "the data
\* survives serialisation", the note on the ancestor set).
RedactionExact ==
    stage = "redacted" =>
        LET open == Reached(Open(job.heap), job.value, MaxRedaction + 1) \cap Texts
        IN  /\ Shown(redacted) \cap (Texts \cup {Secret}) \subseteq open
            /\ Within(Every(job.heap), job.value, MaxRedaction) =>
                 open \subseteq Shown(redacted) /\ Shown(redacted) \cap {"[Circular]", "[Too deep]"} = {}

\* Equal up to the order of fields, and to what JSON has no form for.
Same(h, v, w) ==
    LET same[left \in 0..MaxNesting + 1] == [a \in Values |-> [b \in Values |->
            IF a \in Nodes /\ b \in Nodes
            THEN /\ left > 0 /\ h[a].kind = h[b].kind
                 /\ LET es == h[a].entries
                        fs == h[b].entries
                    IN  /\ Len(es) = Len(fs)
                        /\ \A i \in 1..Len(es) :
                             IF h[a].kind = "array" THEN same[left - 1][es[i].item][fs[i].item]
                             ELSE \E j \in 1..Len(fs) :
                                    fs[j].key = es[i].key /\ same[left - 1][es[i].item][fs[j].item]
            ELSE a \notin Nodes /\ b \notin Nodes /\ (a = b \/ {Json(a), Json(b)} = {"null"})]]
    IN  same[MaxNesting + 1][v][w]

\* Two calls have the same hash exactly when they ask for the same, in
\* whatever order their fields came, and a value that cannot be serialised has
\* none (hashInput: "Keys are sorted recursively").  A parsed request holds no
\* map, which would be hashed like an array of pairs.
HashIdentifies ==
    stage = "hashed" =>
        /\ Refused \notin ToSet(hash) /\ (\A n \in Nodes : job.heap[n].kind # "map") =>
             (hash[1] = hash[2] <=> Same(job.heap, job.value, job.other))
        /\ hash[1] # Refused => Within(Every(job.heap), job.value, MaxNesting)

=============================================================================
