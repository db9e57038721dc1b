----------------------------- MODULE MCAlgorithms -----------------------------
(***************************************************************************)
(* The pure algorithms, each on its own menu of inputs: a run does one     *)
(* call of one of them.                                                    *)
(***************************************************************************)
EXTENDS Markup, Payload, Dates

vars == <<markup, payload, dates>>

-----------------------------------------------------------------------------
(* Texts: every sequence of a few pieces.                                  *)

Strip(S, n) == \E k \in 0..n : \E s \in [1..k -> S] : stripHtmlTags(s)

MCStrip ==
    \/ Strip({"<", ">", "scr", "ipt", "sp", "tab"}, 5)
    \/ Strip({"<", ">", "&", "lt;", "amp;", "scr", "#lt;"}, 5)
    \/ Strip({"<", ">", "!--", "--", "tag", "nul"}, 5)
    \/ Strip({"<", ">", "/", "scr", "ipt"}, 6)
    \/ Strip({"<", ">", "scr"}, 7)
    \/ Strip({"&", "lt;", "amp;"}, 6)
    \/ Strip({"hi", "lo", "&", "#hi;", "<", ">", "tag"}, 4)

-----------------------------------------------------------------------------
(* Heaps of three containers, with at most two fields each.                *)

MCKeys   == <<"name", "pin">>
MCSuffix == <<"lead", "lead">>

Field(k, v) == [key |-> k, item |-> v]

FieldsOf(items, n) ==
    {<<>>} \cup {<<Field(k, v)>> : k \in {"name", "pin"}, v \in items} \cup
    IF n < 2 THEN {} ELSE
    {<<Field("name", v), Field("pin", w)>> : v \in items, w \in items} \cup
    {<<Field("pin", v), Field("name", w)>> : v \in items, w \in items}

Boxes(kinds, items, n) == {[kind |-> k, entries |-> es] : k \in kinds, es \in FieldsOf(items, n)}

Heap(a, b, c) == [n \in Nodes |-> CASE n = "n1" -> a [] n = "n2" -> b [] OTHER -> c]

\* Shared and circular containers, a leaf of every sort.
SubmitToRedact ==
    \E a \in Boxes({"object", "array", "map"}, {"undefined", "t1", "n2"}, 2),
       b \in Boxes({"object", "array", "map"}, {"t1", "n1", "n3"}, 1),
       c \in Boxes({"object", "array"}, {"t2", "credential", "n1"}, 1) :
       Submit(Heap(a, b, c), "n1", "n1", 8, <<>>)

\* Two containers that may or may not ask for the same.
SubmitToHash ==
    \E a \in Boxes({"object", "array"}, {"t1", "nan", "n3"}, 2),
       b \in Boxes({"object", "array"}, {"t1", "null", "n3"}, 2),
       c \in Boxes({"object", "array"}, {"t2"}, 1) :
       Submit(Heap(a, b, c), "n1", "n2", 8, <<>>)

Tall == Heap([kind |-> "object", entries |-> <<Field("name", "t1"), Field("pin", "n2")>>],
             [kind |-> "array", entries |-> <<Field("name", "t1"), Field("pin", "bigint")>>],
             [kind |-> "object", entries |-> <<Field("name", "t1")>>])

\* Every limit around the sizes of a value, of a marker and of a text.
SubmitToCap ==
    \/ \E limit \in -1..20, v \in {"n1", "n2", "n3", "t1", "null", "undefined"} :
          Submit(Tall, v, "n1", limit, <<>>)
    \/ \E limit \in 0..7 : \E n \in 1..6 : \E bytes \in [1..n -> {"lead", "cont"}] :
          /\ bytes[1] = "lead"
          /\ Submit(Tall, "n1", "n2", limit, bytes)

-----------------------------------------------------------------------------
(* Dates around the ends of months, leap years and the admitted range.     *)

MCWrite ==
    \E form \in Forms, year \in {1699, 1700, 1900, 2000, 2023, 2024, 2200, 2201},
       month \in {0, 1, 2, 4, 12, 13}, day \in {0, 1, 28, 29, 30, 31, 32},
       hour \in {0, 23}, offset \in {-12, 0, 14}, host \in {-10, 0, 9} :
       /\ hour = 0 \/ form \in Timed
       /\ offset = 0 \/ form = "offset"
       /\ Write([form |-> form, year |-> year, month |-> month, day |-> day,
                 hour |-> hour, offset |-> offset], host)

-----------------------------------------------------------------------------
MCInit == MarkupInit /\ PayloadInit /\ DatesInit

Idle == phase = "idle" /\ stage = "idle" /\ verdict = "idle"

MCNext ==
    \/ /\ (Idle /\ MCStrip) \/ MarkupNext
       /\ UNCHANGED <<payload, dates>>
    \/ /\ (Idle /\ (SubmitToRedact \/ SubmitToHash \/ SubmitToCap)) \/ PayloadNext
       /\ UNCHANGED <<markup, dates>>
    \/ /\ (Idle /\ MCWrite) \/ DatesNext
       /\ UNCHANGED <<markup, payload>>

MCSpec == MCInit /\ [][MCNext]_vars

=============================================================================
