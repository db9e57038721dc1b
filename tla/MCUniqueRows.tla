---------------------------- MODULE MCUniqueRows -----------------------------
(* Three calls in a tenant that has one party; all of them are of one theme. *)
EXTENDS UniqueRows, TLC

CONSTANTS p0, c1, c2, c3, a, b

FourCalls == {p0, c1, c2, c3}
Two       == {a, b}
RoleNames == {a}

Ask(op, party, value, form) ==
    [op |-> op, party |-> party, value |-> value, form |-> form,
     type |-> "party", parts |-> {}, limit |-> 1, offset |-> 0]

Party(type, parts, form) ==
    [Ask("create_party", None, None, form) EXCEPT !.type = type, !.parts = parts]
Contact(party, value, type, parts) ==
    [Ask("add_contact", party, value, "wrapped") EXCEPT !.type = type, !.parts = parts]
Find(type, limit, offset) ==
    [Ask("search", None, None, "absent")
        EXCEPT !.type = type, !.limit = limit, !.offset = offset]

RoleCalls ==
    {Ask("add_role", p0, a, "tagged"), Ask("add_role", p0, b, "plain"),
     Ask("add_role", c1, a, "plain"), Ask("add_role", None, a, "plain"),
     Ask("add_role", p0, a, "long"), Party("PERSON", {"PERSON"}, "plain"),
     Find("party_role", 1, 0)}

Directory ==
    {Contact(p0, a, "EMAIL_ADDRESS", {"EMAIL_ADDRESS"}),
     Contact(p0, a, "TELECOM_NUMBER", {"TELECOM_NUMBER"}),
     Contact(p0, a, "POSTAL_ADDRESS", {"POSTAL_ADDRESS"}),
     Contact(p0, a, "EMAIL_ADDRESS", {"EMAIL_ADDRESS", "TELECOM_NUMBER"}),
     Contact(c1, a, "EMAIL_ADDRESS", {"EMAIL_ADDRESS"}),
     Party("ORGANIZATION", {"ORGANIZATION"}, "wrapped")}

Accounts ==
    {Ask("create_user", p0, None, "plain"), Ask("create_user", p0, None, "tagged"),
     Ask("get_user", p0, None, "absent"), Ask("get_party", p0, None, "absent"),
     Ask("register_agent", None, a, "plain"), Ask("register_agent", None, a, "wrapped"),
     Ask("delete_agent", None, a, "plain"), Ask("update_agent", None, a, "plain"),
     [Ask("update_agent", None, a, "plain") EXCEPT !.parts = {"version"}],
     Ask("get_agent", None, a, "tagged")}

Pages ==
    {Find("party", 0, 0), Find("party", 1, 1), Find("party", 9, -1),
     Find("agent_registry", 1, 0), Ask("register_agent", None, b, "plain"),
     Party("PERSON", {"PERSON"}, "plain"), Party("PERSON", {"ORGANIZATION"}, "plain"),
     Party("TENANT", {}, "plain"), Party("ORGANIZATION", {"ORGANIZATION"}, "markup")}

Themes == {RoleCalls, Directory, Accounts, Pages}
Menu   == UNION Themes

Seeded ==
    /\ pc = [c \in Calls |-> IF c = p0 THEN "done" ELSE "idle"]
    /\ req = [c \in Calls |-> IF c = p0 THEN Party("PERSON", {"PERSON"}, "plain") ELSE Nothing]
    /\ answer = [c \in Calls |-> IF c = p0 THEN [code |-> "ok", row |-> p0, more |-> FALSE]
                                             ELSE NoAnswer]
    /\ rows = {[key |-> KeyOf(req[p0]), by |-> p0]}
    /\ gone = {} /\ open = {}
    /\ tries = [c \in Calls |-> 0] /\ total = [c \in Calls |-> 0]
    /\ met = [c \in Calls |-> IF c = p0 THEN {p0} ELSE {}]

OneTheme ==
    \E theme \in Themes : \A c \in Calls \ {p0} : pc[c] # "idle" => req[c] \in theme

Alike == Permutations({c2, c3})

SeededSpec == Seeded /\ [][Next /\ OneTheme']_vars
=============================================================================
