----------------------------- MODULE Truncation ------------------------------
(***************************************************************************)
(* truncateValue and capString (packages/mcp-tools/src/middleware/         *)
(* truncate.ts): what bounds a result and an error text that are stored.   *)
(*                                                                         *)
(* Sizes are in units that keep the order of the code's: a minimal marker  *)
(* fits where a full one may not.  A text is given by the bytes of its     *)
(* characters: the first byte of one is "lead", the others are "cont".     *)
(***************************************************************************)
EXTENDS Integers, Sequences

CONSTANTS
    Nothing,        \* undefined, which is stored as it is
    Unsized,        \* null, and what becomes an { _error }: a symbol, a function,
                    \* a value that cannot be serialised
    Normalise(_),   \* normaliseForTruncation
    Size(_),        \* the size of a normalised value in JSON
    Skeleton,       \* the size of a marker without a preview
    Minimal,        \* MINIMAL_TRUNCATION_MARKER, only what identifies it
    Previews,       \* the sizes of a preview: whole, halved time and again, none
    Suffix          \* the note of the original length that ends a cut text

Bytes == {"lead", "cont"}

ASSUME TruncationAssumption ==
    /\ Skeleton \in Nat /\ Minimal \in Nat
    /\ Previews \subseteq Nat /\ 0 \in Previews
    /\ Suffix \in Seq(Bytes)

VARIABLES
    job,            \* what is stored: limit and text, and where it came from
    redacted,       \* the value, after its secrets are gone
    stored,         \* the value after truncateValue
    capped,         \* the text after capString
    stage           \* the last step taken

truncation == <<job, redacted, stored, capped, stage>>

-----------------------------------------------------------------------------
(* truncateValue                                                           *)

\* The preview is halved until the whole marker fits.
PreviewSize(limit) ==
    LET fit == {n \in Previews : Skeleton + n <= limit}
    IN  CHOOSE n \in fit : \A k \in fit : k <= n

Marker(size) == [kind |-> "marker", value |-> "", entries |-> <<>>, size |-> size]

\* Variant: the preview is kept whatever the limit.
MarkerWithPreview(limit) == Marker(Skeleton + CHOOSE n \in Previews : \A k \in Previews : k <= n)

truncationMarker(limit) ==
    Marker(IF Skeleton <= limit THEN Skeleton + PreviewSize(limit) ELSE Minimal)

AtLeastOne(limit) == IF limit < 1 THEN 1 ELSE limit

truncateValue(v, limit) ==
    LET max == AtLeastOne(limit)
    IN  IF v = Nothing THEN Nothing
        ELSE IF v \notin Unsized /\ Size(Normalise(v)) > max THEN truncationMarker(max)
        ELSE Normalise(v)

-----------------------------------------------------------------------------
(* capString                                                               *)

safeSliceUtf8(bytes, limit) ==
    LET ends == {n \in 0..Len(bytes) : n <= limit /\
                    (n = Len(bytes) \/ bytes[n + 1] = "lead" \/ n = 0)}
    IN  SubSeq(bytes, 1, CHOOSE n \in ends : \A k \in ends : k <= n)

capString(bytes, limit) ==
    LET max == AtLeastOne(limit)
    IN  IF Len(bytes) <= max THEN bytes
        ELSE IF max <= Len(Suffix) THEN safeSliceUtf8(bytes, max)
        ELSE safeSliceUtf8(bytes, max - Len(Suffix)) \o Suffix

-----------------------------------------------------------------------------
Store ==
    /\ stage = "redacted" /\ stage' = "stored"
    /\ stored' = truncateValue(redacted, job.limit)
    /\ capped' = capString(job.text, job.limit)
    /\ UNCHANGED <<job, redacted>>

\* Whatever is asked and done before: any value, any limit, any text.
Strings == {b \in Seq(Bytes) : b # <<>> => b[1] = "lead"}

Earlier ==
    /\ stage # "stored" /\ stage' # "stored"
    /\ job'.limit \in Int /\ job'.text \in Strings

TruncationSpec == stage = "idle" /\ [][Earlier \/ Store]_truncation

-----------------------------------------------------------------------------
(* Properties                                                              *)

\* What is stored fits the limit, or is the least that still identifies a
\* truncated value; a value that fits, or whose size is not looked at, is stored
\* whole and is no marker.  A text is cut at a character ("never returns a stored form larger than the
\* requested limit" in truncationMarker, safeSliceUtf8).
StoredFits ==
    stage = "stored" =>
        LET whole == Normalise(redacted)
            max   == AtLeastOne(job.limit)
        IN  /\ IF redacted = Nothing THEN stored = Nothing
               ELSE IF redacted \notin Unsized /\ Size(whole) > max
               THEN /\ stored.kind = "marker"
                    /\ stored.size <= IF max < Minimal THEN Minimal ELSE max
               ELSE stored = whole
            /\ Len(capped) <= max
            /\ \E n \in 0..Len(job.text) :
                 /\ n = Len(job.text) \/ job.text[n + 1] = "lead"
                 /\ capped \in {SubSeq(job.text, 1, n), SubSeq(job.text, 1, n) \o Suffix}

=============================================================================
