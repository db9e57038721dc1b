------------------------------- MODULE Markup --------------------------------
(***************************************************************************)
(* stripHtmlTags (packages/shared/src/sanitize.ts), through which every    *)
(* text field of a request passes before it is stored.  The loop repeats a *)
(* chain of linear scanners until the text no longer changes: decoding an  *)
(* entity or removing one construct may put another one together.          *)
(*                                                                         *)
(* A text is a sequence of lexical pieces.  "scr" and "ipt" spell the tag  *)
(* name script (style is treated alike), "tag" is any other run of two or  *)
(* more letters, "sp" is a space, "tab" white space that is also a control *)
(* character, "ctl" any other of those, "hi" and "lo" are the halves of a  *)
(* surrogate pair, "rep" is U+FFFD.  A reference is "&" and its tail, as   *)
(* in "&" "lt;".                                                           *)
(***************************************************************************)
EXTENDS Integers, Sequences

CONSTANTS
    MaxInput,       \* MAX_INPUT_LENGTH
    MaxIterations   \* MAX_SANITIZE_ITERATIONS

ASSUME MarkupAssumption == MaxInput \in Nat /\ MaxIterations \in Nat \ {0}

VARIABLES
    input,          \* the text as it came
    text,           \* sanitized
    prev,           \* the text before the last iteration
    iterations,     \* how often the chain has run
    phase           \* where the call is

markup == <<input, text, prev, iterations, phase>>

Letters  == {"scr", "ipt", "tag"}
Named    == [lt |-> "<", gt |-> ">", amp |-> "&"]
Tails    == {"lt;", "gt;", "amp;"}
Word     == Letters \cup Tails      \* pieces that begin with a word character
Numbered == {"#lt;", "#hi;"}
Pieces   == Word \cup Numbered \cup
            {"<", ">", "/", "&", "!--", "--", "sp", "tab", "ctl", "nul", "hi", "lo", "rep"}
Space    == {"sp", "tab"}
Control  == {"tab", "ctl", "nul"}

\* The piece at a position, "" past the end.
At(s, i) == IF i \in 1..Len(s) THEN s[i] ELSE ""

\* The first position from i on at which a piece stands, 0 if there is none.
IndexOf(s, piece, i) ==
    LET found == {j \in 1..Len(s) : j >= i /\ s[j] = piece}
    IN  IF found = {} THEN 0 ELSE CHOOSE j \in found : \A k \in found : j <= k

\* A scanner: put something for the leftmost match and go on after it.  end[i]
\* is the last position of the match that begins at i, 0 if none does.
Rewrite(s, end, put) ==
    LET rest[i \in 1..Len(s) + 1] ==
            IF i > Len(s) THEN <<>>
            ELSE IF end[i] # 0 THEN put \o rest[end[i] + 1]
            ELSE <<s[i]>> \o rest[i + 1]
    IN  rest[1]

Drop(s, end) == Rewrite(s, end, <<>>)

DropPieces(s, kinds) == Drop(s, [i \in 1..Len(s) |-> IF s[i] \in kinds THEN i ELSE 0])

-----------------------------------------------------------------------------
(* References.                                                             *)

Referred(s, tail) ==
    [i \in 1..Len(s) |-> IF s[i] = "&" /\ At(s, i + 1) = tail THEN i + 1 ELSE 0]

Replace(s, tail, piece) == Rewrite(s, Referred(s, tail), <<piece>>)

\* A number that is a surrogate half becomes U+FFFD (safeFromCodePoint).
CodePoint(tail) == IF tail = "#lt;" THEN "<" ELSE "rep"

decodeNumericEntities(s) ==
    Replace(Replace(s, "#lt;", CodePoint("#lt;")), "#hi;", CodePoint("#hi;"))

\* One replacement after the other: what "&amp;" uncovers waits for the next
\* iteration.
decodeCommonEntities(s) ==
    Replace(Replace(Replace(s, "lt;", Named.lt), "gt;", Named.gt), "amp;", Named.amp)

-----------------------------------------------------------------------------
(* Scanners.                                                               *)

\* <script followed by a word boundary.
findTagOpening(s, i) ==
    /\ At(s, i) = "<" /\ At(s, i + 1) = "scr" /\ At(s, i + 2) = "ipt"
    /\ At(s, i + 3) \notin Word

ClosingTag(s, i) ==
    LET found == {j \in 1..Len(s) : j >= i /\
                    \A k \in 0..4 : At(s, j + k) = <<"<", "/", "scr", "ipt", ">">>[k + 1]}
    IN  IF found = {} THEN 0 ELSE CHOOSE j \in found : \A k \in found : j <= k

\* <script ...> up to the first closing tag.
BlockEnd(s, i) ==
    IF ~findTagOpening(s, i) \/ IndexOf(s, ">", i + 3) = 0 THEN 0
    ELSE LET close == ClosingTag(s, IndexOf(s, ">", i + 3) + 1)
         IN  IF close = 0 THEN 0 ELSE close + 4

\* <script ...> alone.
OrphanEnd(s, i) == IF findTagOpening(s, i) THEN IndexOf(s, ">", i + 3) ELSE 0

\* <script ... that nothing closes: up to the next > or to the end.
BareEnd(s, i) ==
    LET gt == IndexOf(s, ">", i + 3)
    IN  IF ~findTagOpening(s, i) THEN 0 ELSE IF gt = 0 THEN Len(s) ELSE gt - 1

\* Complete comments only.  The dashes of another opening close one too.
CommentEnd(s, i) ==
    LET ends == {j \in 1..Len(s) : j >= i + 2 /\ s[j] \in {"--", "!--"} /\ At(s, j + 1) = ">"}
    IN  IF At(s, i) # "<" \/ At(s, i + 1) # "!--" \/ ends = {} THEN 0
        ELSE 1 + CHOOSE j \in ends : \A k \in ends : j <= k

\* < and something that is neither white space nor >, up to the first >.
TagEnd(s, i) ==
    IF At(s, i) # "<" \/ At(s, i + 1) \in Space \cup {"", ">"} THEN 0
    ELSE IndexOf(s, ">", i + 2)

\* < and a run of letters that ends at white space or with the text.
IncompleteEnd(s, i) ==
    LET ends == {j \in i + 1..Len(s) :
                    /\ \A k \in i + 1..j : s[k] \in Letters
                    /\ At(s, j + 1) \in Space \cup {""}}
    IN  IF At(s, i) # "<" \/ ends = {} THEN 0 ELSE CHOOSE j \in ends : TRUE

Blocks(s)     == [i \in 1..Len(s) |-> BlockEnd(s, i)]
Orphans(s)    == [i \in 1..Len(s) |-> OrphanEnd(s, i)]
Bare(s)       == [i \in 1..Len(s) |-> BareEnd(s, i)]
Comments(s)   == [i \in 1..Len(s) |-> CommentEnd(s, i)]
Tags(s)       == [i \in 1..Len(s) |-> TagEnd(s, i)]
Incomplete(s) == [i \in 1..Len(s) |-> IncompleteEnd(s, i)]

stripScriptStyleContent(s)      == Drop(s, Blocks(s))
stripOrphanedScriptStyleTags(s) == LET t == Drop(s, Orphans(s)) IN Drop(t, Bare(t))
stripHtmlComments(s)            == Drop(s, Comments(s))
stripRemainingHtmlTags(s)       == Drop(s, Tags(s))
stripIncompleteOpeningTags(s)   == Drop(s, Incomplete(s))
stripControlCharacters(s)       == DropPieces(s, Control)

\* One iteration of the loop.
Chain(s) ==
    LET decoded  == decodeCommonEntities(decodeNumericEntities(s))
        unscript == stripOrphanedScriptStyleTags(stripScriptStyleContent(decoded))
        untagged == stripRemainingHtmlTags(stripHtmlComments(unscript))
    IN  stripControlCharacters(stripIncompleteOpeningTags(untagged))

-----------------------------------------------------------------------------
(* Surrogates.                                                             *)

Unpaired(s, i) ==
    \/ s[i] = "hi" /\ At(s, i + 1) # "lo"
    \/ s[i] = "lo" /\ (i = 1 \/ s[i - 1] # "hi")

normalizeUnpairedSurrogates(s) ==
    [i \in 1..Len(s) |-> IF Unpaired(s, i) THEN "rep" ELSE s[i]]

-----------------------------------------------------------------------------
(* The loop.                                                               *)

MarkupInit ==
    /\ input = <<>> /\ text = <<>> /\ prev = <<>>
    /\ iterations = 0 /\ phase = "idle"

stripHtmlTags(s) ==
    /\ phase = "idle"
    /\ input' = s
    /\ IF Len(s) > MaxInput
       THEN phase' = "refused" /\ UNCHANGED text
       ELSE phase' = "loop" /\ text' = DropPieces(s, {"nul"})
    /\ UNCHANGED <<prev, iterations>>

Iterate ==
    /\ phase = "loop"
    /\ iterations = 0 \/ text # prev
    /\ iterations < MaxIterations
    /\ prev' = text /\ text' = Chain(text)
    /\ iterations' = iterations + 1
    /\ UNCHANGED <<input, phase>>

\* Variant: one iteration is taken to be enough.
EndAtOnce ==
    /\ phase = "loop" /\ iterations > 0
    /\ text' = normalizeUnpairedSurrogates(text)
    /\ phase' = "done"
    /\ UNCHANGED <<input, prev, iterations>>

EndStrip ==
    /\ phase = "loop" /\ iterations > 0
    /\ text = prev \/ iterations = MaxIterations
    /\ text' = normalizeUnpairedSurrogates(text)
    /\ phase' = "done"
    /\ UNCHANGED <<input, prev, iterations>>

MarkupNext == Iterate \/ EndStrip

\* Whatever text comes.
MarkupSpec ==
    MarkupInit /\ [][MarkupNext \/ \E s \in Seq(Pieces) : stripHtmlTags(s)]_markup

-----------------------------------------------------------------------------
(* Properties                                                              *)

\* Nothing in the text reads as markup: no tag or comment that is closed, no
\* opening of a script or style even if it is not, no reference that stands for
\* a piece of one, no control character.
Inert(s) ==
    /\ \A i, j \in 1..Len(s) :
         s[i] = "<" /\ s[j] = ">" /\ i + 1 < j => s[i + 1] = "sp" \/ s[i + 1] = ">"
    /\ \A i \in 1..Len(s) : ~findTagOpening(s, i)
    /\ \A i \in 1..Len(s) : s[i] = "&" => At(s, i + 1) \notin Tails \cup Numbered
    /\ \A i \in 1..Len(s) : s[i] \notin Control /\ ~Unpaired(s, i)

\* Text of which nothing looks like markup.
Plain(s) == \A i \in 1..Len(s) : s[i] \in Letters \cup {"sp", ">", "/", "--"}

\* Sanitised text is inert and final: a second sanitisation, as it passes from
\* the boundary to the service, would leave it as it is, and text without
\* markup is kept to the letter (the loop of stripHtmlTags).  A loop that was
\* cut off at its bound promises nothing: only a text of as many pieces as it
\* has iterations can be nested so deep.
StripSettles ==
    phase = "done" =>
        /\ Len(input) < MaxIterations \/ text = normalizeUnpairedSurrogates(prev) =>
             Inert(text) /\ Chain(text) = text
        /\ Plain(input) => text = input

=============================================================================
