--------------------------- MODULE AlgorithmsProofs ---------------------------
(***************************************************************************)
(* What the runs check of the pure algorithms on menus of inputs, for      *)
(* every input: sanitised text (Markup), what bounds a stored value        *)
(* (Truncation), redaction and hashes (Payload), and dates (Dates).        *)
(***************************************************************************)
EXTENDS
    Markup, Payload, Dates,
    FiniteSetTheorems, WellFoundedInduction, SequenceTheorems, TLAPS

-----------------------------------------------------------------------------
(* Numbers.  Induction is over a set of numbers that is closed under the   *)
(* successor, since what the library has asks for a predicate.             *)

LEMMA Least ==
  ASSUME NEW T \in SUBSET Nat, T # {}
  PROVE  \E x \in T : \A y \in T : x <= y
<1>. DEFINE R == OpToRel(<, Nat)
<1>1. IsWellFoundedOn(R, Nat)
  BY NatLessThanWellFounded
<1>. HIDE DEF R
<1>2. PICK x \in T : \A y \in T : ~(<<y, x>> \in R)
  BY <1>1, WFMin
<1>3. \A y \in T : y < x => <<y, x>> \in R
  BY DEF R, OpToRel
<1>4. \A y \in T : ~(y < x)
  BY <1>2, <1>3, Zenon
<1>. QED  BY <1>4

LEMMA SetInduction ==
  ASSUME NEW S, 0 \in S, \A n \in Nat : n \in S => n + 1 \in S
  PROVE  \A n \in Nat : n \in S
<1>. SUFFICES ASSUME NEW T, T = {n \in Nat : n \notin S}, T # {} PROVE FALSE
  OBVIOUS
<1>1. PICK x \in T : \A y \in T : x <= y
  BY Least
<1>2. x - 1 \in Nat /\ x - 1 \notin T
  BY <1>1
<1>. QED  BY <1>1, <1>2

LEMMA LeastChosen ==
  ASSUME NEW T \in SUBSET Nat, T # {}
  PROVE  (CHOOSE j \in T : \A k \in T : j <= k) \in T
BY Least

\* The greatest of numbers that a bound lies above.
LEMMA GreatestChosen ==
  ASSUME NEW T \in SUBSET Nat, T # {}, NEW b \in Int, \A n \in T : n <= b
  PROVE  (CHOOSE n \in T : \A k \in T : k <= n) \in T
<1>. DEFINE D == {b - n : n \in T}
<1>1. D \in SUBSET Nat /\ D # {}
  <2>1. \A n \in T : b - n \in Nat
    OBVIOUS
  <2>. QED  BY <2>1
<1>2. PICK x \in D : \A y \in D : x <= y
  <2>. HIDE DEF D
  <2>. QED  BY <1>1, Least
<1>3. PICK n \in T : x = b - n
  BY <1>2
<1>4. \A k \in T : b - n <= b - k
  BY <1>2, <1>3
<1>5. \A k \in T : k <= n
  BY <1>3, <1>4
<1>. QED  BY <1>3, <1>5

-----------------------------------------------------------------------------
(* Sanitised text is inert and final, and text without markup is kept,     *)
(* whatever comes and however long it is.                                  *)
(*                                                                         *)
(* The argument: every stage of the chain is a scanner that keeps a text   *)
(* it finds nothing in and shortens every other (RewriteShape), so the     *)
(* chain keeps just the texts that all of them are quiet on (ChainShape);  *)
(* such a text shows no markup (QuietIsInert), and replacing the halves of *)
(* surrogate pairs afterwards shows them nothing new (NormalQuiet).  The   *)
(* loop has changed the text at most as often as pieces are gone           *)
(* (Shortened), so that only a text as long as its bound can outlast it.   *)

\* What a scanner is given: matches that take in more than is put for them.
Matches(s, end, put) ==
    /\ s \in Seq(Pieces) /\ put \in Seq(Pieces)
    /\ end \in [1..Len(s) -> 0..Len(s)]
    /\ \A i \in 1..Len(s) : end[i] = 0 \/ end[i] >= i + Len(put)

\* The text from a position on, given the rests from later ones on.
NextRest(s, end, put, r, i) ==
    IF i > Len(s) THEN <<>>
    ELSE IF end[i] # 0 THEN put \o r[end[i] + 1]
    ELSE <<s[i]>> \o r[i + 1]

\* The recursion of Rewrite goes to the right only, so it defines a function.
LEMMA RestExists ==
  ASSUME NEW s, NEW end, NEW put, Matches(s, end, put)
  PROVE  \E r : r = [i \in 1..Len(s) + 1 |-> NextRest(s, end, put, r, i)]
<1>. DEFINE L == Len(s)
            Good(r, k) == \A i \in 1..L + 1 : i > L - k => r[i] = NextRest(s, end, put, r, i)
            S == {k \in Nat : k <= L => \E r : r = [i \in 1..L + 1 |-> r[i]] /\ Good(r, k)}
<1>0. L \in Nat /\ \A i \in 1..L : end[i] \in 0..L /\ (end[i] = 0 \/ end[i] >= i)
  <2>1. L \in Nat /\ Len(put) \in Nat
    BY DEF Matches
  <2>. QED  BY <2>1 DEF Matches
<1>1. 0 \in S
  <2>. DEFINE r == [i \in 1..L + 1 |-> <<>>]
  <2>1. r = [i \in 1..L + 1 |-> r[i]] /\ Good(r, 0)
    BY <1>0 DEF NextRest
  <2>. QED  BY <2>1
<1>2. ASSUME NEW k \in Nat, k \in S PROVE k + 1 \in S
  <2>. SUFFICES ASSUME k + 1 <= L
                PROVE  \E r : r = [i \in 1..L + 1 |-> r[i]] /\ Good(r, k + 1)
    OBVIOUS
  <2>1. PICK r : r = [i \in 1..L + 1 |-> r[i]] /\ Good(r, k)
    BY <1>0, <1>2
  <2>. DEFINE j == L - k
              t == [i \in 1..L + 1 |-> IF i = j THEN NextRest(s, end, put, r, j) ELSE r[i]]
  <2>2. j \in 1..L
    BY <1>0
  <2>3. ASSUME NEW i \in 1..L + 1, i > L - (k + 1)
        PROVE  t[i] = NextRest(s, end, put, t, i)
    <3>1. i >= j
      BY <1>0, <2>3
    <3>2. NextRest(s, end, put, t, i) = NextRest(s, end, put, r, i)
      <4>1. ASSUME i <= L PROVE t[i + 1] = r[i + 1] /\ (end[i] # 0 => t[end[i] + 1] = r[end[i] + 1])
        BY <1>0, <2>2, <3>1, <4>1
      <4>. HIDE DEF t
      <4>. QED  BY <1>0, <4>1 DEF NextRest
    <3>3. t[i] = NextRest(s, end, put, r, i)
      BY <1>0, <2>1, <3>1, <2>2
    <3>. QED  BY <3>2, <3>3
  <2>4. t = [i \in 1..L + 1 |-> t[i]] /\ Good(t, k + 1)
    BY <2>3
  <2>. QED  BY <2>4
<1>3. L \in S
  <2>. HIDE DEF S
  <2>. QED  BY <1>0, <1>1, <1>2, SetInduction
<1>4. PICK r : r = [i \in 1..L + 1 |-> r[i]] /\ Good(r, L)
  BY <1>0, <1>3
<1>5. \A i \in 1..L + 1 : r[i] = NextRest(s, end, put, r, i)
  BY <1>0, <1>4
<1>6. r = [i \in 1..L + 1 |-> NextRest(s, end, put, r, i)]
  BY <1>4, <1>5
<1>. QED  BY <1>6

LEMMA RewriteIs ==
  ASSUME NEW s, NEW end, NEW put, Matches(s, end, put)
  PROVE  \E r : /\ Rewrite(s, end, put) = r[1]
                /\ r = [i \in 1..Len(s) + 1 |-> NextRest(s, end, put, r, i)]
<1>. DEFINE Is(r) == r = [i \in 1..Len(s) + 1 |-> NextRest(s, end, put, r, i)]
            rest == CHOOSE r : Is(r)
<1>1. \E r : Is(r)
  BY RestExists
<1>2. Is(rest)
  <2>. HIDE DEF Is
  <2>. QED  BY <1>1
<1>3. Rewrite(s, end, put) = rest[1]
  BY DEF Rewrite, NextRest
<1>. HIDE DEF rest
<1>. QED  BY <1>2, <1>3

\* Without a match the text is kept; with one it becomes shorter.
LEMMA RewriteShape ==
  ASSUME NEW s, NEW end, NEW put, Matches(s, end, put)
  PROVE  /\ Rewrite(s, end, put) \in Seq(Pieces)
         /\ (\A i \in 1..Len(s) : end[i] = 0) => Rewrite(s, end, put) = s
         /\ (\E i \in 1..Len(s) : end[i] # 0) => Len(Rewrite(s, end, put)) < Len(s)
<1>1. PICK r : /\ Rewrite(s, end, put) = r[1]
               /\ r = [i \in 1..Len(s) + 1 |-> NextRest(s, end, put, r, i)]
  BY RewriteIs
<1>. DEFINE L == Len(s)
            Shape(i) == /\ r[i] \in Seq(Pieces)
                        /\ Len(r[i]) <= L + 1 - i
                        /\ (\A j \in i..L : end[j] = 0) =>
                              r[i] = [j \in 1..L + 1 - i |-> s[j + i - 1]]
                        /\ (\E j \in i..L : end[j] # 0) => Len(r[i]) < L + 1 - i
            S == {k \in Nat : k <= L => \A i \in 1..L + 1 : i > L - k => Shape(i)}
<1>2. /\ L \in Nat /\ Len(put) \in Nat /\ put \in Seq(Pieces) /\ s \in Seq(Pieces)
      /\ \A i \in 1..L : /\ end[i] \in 0..L /\ (end[i] = 0 \/ end[i] >= i + Len(put))
                        /\ s[i] \in Pieces
  <2>1. L \in Nat /\ Len(put) \in Nat
    BY DEF Matches
  <2>. QED  BY <2>1 DEF Matches
<1>3. \A i \in 1..L + 1 : r[i] = NextRest(s, end, put, r, i)
  BY <1>1
<1>11. r[L + 1] = <<>>
  <2>1. L + 1 \in 1..L + 1 /\ L + 1 > L
    BY <1>2
  <2>2. r[L + 1] = NextRest(s, end, put, r, L + 1)
    BY <1>3, <2>1
  <2>. QED  BY <2>1, <2>2 DEF NextRest
<1>12. ASSUME NEW i \in 1..L
       PROVE  /\ end[i] # 0 => r[i] = put \o r[end[i] + 1]
              /\ end[i] = 0 => r[i] = <<s[i]>> \o r[i + 1]
  <2>1. i \in 1..L + 1 /\ ~(i > L)
    BY <1>2
  <2>2. r[i] = NextRest(s, end, put, r, i)
    BY <1>3, <2>1
  <2>. QED  BY <2>1, <2>2 DEF NextRest
<1>4. Shape(L + 1)
  <2>1. r[L + 1] = <<>>
    BY <1>11
  <2>2. 1..L + 1 - (L + 1) = {} /\ L + 1..L = {}
    BY <1>2
  <2>3. <<>> = [j \in {} |-> s[j + (L + 1) - 1]]
    OBVIOUS
  <2>. QED  BY <1>2, <2>1, <2>2, <2>3
<1>5. 0 \in S
  BY <1>2, <1>4
<1>6. ASSUME NEW k \in Nat, k \in S PROVE k + 1 \in S
  <2>. SUFFICES ASSUME k + 1 <= L PROVE Shape(L - k)
    <3>1. ASSUME k + 1 <= L, Shape(L - k), NEW i \in 1..L + 1, i > L - (k + 1) PROVE Shape(i)
      <4>. HIDE DEF Shape
      <4>1. CASE i = L - k
        BY <3>1, <4>1
      <4>2. CASE i # L - k
        <5>1. i > L - k
          BY <1>2, <3>1, <4>2
        <5>. QED  BY <1>2, <1>6, <3>1, <5>1
      <4>. QED  BY <4>1, <4>2
    <3>. HIDE DEF Shape
    <3>. QED  BY <3>1
  <2>. DEFINE m == L - k
  <2>1. m \in 1..L /\ m + 1 \in 1..L + 1
    BY <1>2
  <2>2. ASSUME NEW i \in m + 1..L + 1 PROVE Shape(i)
    <3>. HIDE DEF Shape
    <3>1. i \in 1..L + 1 /\ i > L - k
      BY <1>2, <2>1
    <3>. QED  BY <1>2, <1>6, <3>1
  <2>3. CASE end[m] # 0
    <3>. DEFINE e == end[m] + 1
    <3>1. e \in m + 1..L + 1 /\ e >= m + Len(put) + 1
      <4>1. end[m] \in 0..L /\ end[m] >= m + Len(put)
        BY <1>2, <2>1, <2>3
      <4>. HIDE DEF m
      <4>. QED  BY <1>2, <2>1, <4>1
    <3>2. r[e] \in Seq(Pieces) /\ Len(r[e]) <= L + 1 - e
      BY <2>2, <3>1
    <3>3. r[m] = put \o r[e]
      BY <1>12, <2>1, <2>3
    <3>4. r[m] \in Seq(Pieces) /\ Len(r[m]) = Len(put) + Len(r[e])
      BY <1>2, <3>2, <3>3
    <3>5. Len(r[m]) < L + 1 - m
      BY <1>2, <2>1, <3>1, <3>2, <3>4
    <3>. QED  BY <1>2, <2>1, <2>3, <3>4, <3>5
  <2>4. CASE end[m] = 0
    <3>1. r[m] = <<s[m]>> \o r[m + 1]
      BY <1>12, <2>1, <2>4
    <3>2. Shape(m + 1)
      <4>1. m + 1 \in m + 1..L + 1
        BY <1>2, <2>1
      <4>. HIDE DEF Shape
      <4>. QED  BY <2>2, <4>1
    <3>3. /\ r[m] \in Seq(Pieces) /\ Len(r[m]) = 1 + Len(r[m + 1]) /\ Len(r[m]) \in Nat
          /\ r[m][1] = s[m] /\ \A j \in 2..Len(r[m]) : r[m][j] = r[m + 1][j - 1]
      BY <1>2, <2>1, <3>1, <3>2
    <3>4. Len(r[m]) <= L + 1 - m
      BY <1>2, <2>1, <3>2, <3>3
    <3>5. ASSUME \A j \in m..L : end[j] = 0
          PROVE  r[m] = [j \in 1..L + 1 - m |-> s[j + m - 1]]
      <4>1. \A j \in m + 1..L : end[j] = 0
        BY <2>1, <3>5
      <4>2. r[m + 1] = [j \in 1..L + 1 - (m + 1) |-> s[j + (m + 1) - 1]]
        BY <3>2, <4>1
      <4>3. Len(r[m + 1]) = L - m
        BY <1>2, <2>1, <3>2, <4>2
      <4>4. Len(r[m]) = L + 1 - m
        BY <1>2, <2>1, <3>3, <4>3
      <4>5. ASSUME NEW j \in 1..L + 1 - m PROVE r[m][j] = s[j + m - 1]
        <5>1. CASE j = 1
          BY <1>2, <2>1, <3>3, <5>1
        <5>2. CASE j # 1
          <6>1. j \in 2..Len(r[m]) /\ j - 1 \in 1..L + 1 - (m + 1)
            BY <1>2, <2>1, <4>4, <5>2
          <6>2. r[m][j] = r[m + 1][j - 1]
            BY <3>3, <6>1
          <6>3. r[m + 1][j - 1] = s[(j - 1) + (m + 1) - 1]
            BY <4>2, <6>1
          <6>4. (j - 1) + (m + 1) - 1 = j + m - 1
            BY <1>2, <2>1
          <6>. QED  BY <6>2, <6>3, <6>4
        <5>. QED  BY <5>1, <5>2
      <4>6. r[m] = [j \in 1..Len(r[m]) |-> r[m][j]]
        BY <3>3
      <4>. QED  BY <4>4, <4>5, <4>6
    <3>6. ASSUME NEW j \in m..L, end[j] # 0 PROVE Len(r[m]) < L + 1 - m
      <4>1. j \in m + 1..L
        <5>1. j # m
          BY <2>4, <3>6
        <5>. HIDE DEF m
        <5>. QED  BY <1>2, <2>1, <3>6, <5>1
      <4>2. Len(r[m + 1]) < L + 1 - (m + 1)
        BY <3>2, <3>6, <4>1
      <4>3. Len(r[m + 1]) \in Nat
        BY <3>2
      <4>. QED  BY <1>2, <2>1, <3>3, <4>2, <4>3
    <3>. QED  BY <3>3, <3>4, <3>5, <3>6
  <2>. QED  BY <2>3, <2>4
<1>7. L \in S
  <2>. HIDE DEF S
  <2>. QED  BY <1>2, <1>5, <1>6, SetInduction
<1>8. Shape(1)
  <2>. HIDE DEF Shape
  <2>. QED  BY <1>2, <1>7
<1>9. s = [j \in 1..L |-> s[j]]
  BY <1>2
<1>10. (\A i \in 1..L : end[i] = 0) => r[1] = s
  <2>. SUFFICES ASSUME \A i \in 1..L : end[i] = 0 PROVE r[1] = s
    OBVIOUS
  <2>1. r[1] = [j \in 1..L + 1 - 1 |-> s[j + 1 - 1]]
    BY <1>8
  <2>2. L + 1 - 1 = L /\ \A j \in 1..L : j + 1 - 1 = j
    BY <1>2
  <2>. QED  BY <1>9, <2>1, <2>2
<1>. QED  BY <1>1, <1>2, <1>8, <1>10

-----------------------------------------------------------------------------

\* No match; and a text that is kept if there is none, else shortened.
None(s, end) == \A i \in 1..Len(s) : end[i] = 0

Kept(t, s, none) == t \in Seq(Pieces) /\ IF none THEN t = s ELSE Len(t) < Len(s)

LEMMA DropShape ==
  ASSUME NEW s \in Seq(Pieces), NEW end \in [1..Len(s) -> 0..Len(s)],
         \A i \in 1..Len(s) : end[i] = 0 \/ end[i] >= i
  PROVE  Kept(Drop(s, end), s, None(s, end))
<1>1. Matches(s, end, <<>>)
  <2>1. <<>> \in Seq(Pieces) /\ Len(<<>>) = 0 /\ \A i \in 1..Len(s) : i + 0 = i
    OBVIOUS
  <2>. QED  BY <2>1 DEF Matches
<1>. QED  BY <1>1, RewriteShape DEF Drop, Kept, None

LEMMA Single == \A p \in Pieces : <<p>> \in Seq(Pieces) /\ Len(<<p>>) = 1
OBVIOUS

LEMMA ReplaceShape ==
  ASSUME NEW s \in Seq(Pieces), NEW ref \in Tails \cup Numbered, NEW piece \in Pieces
  PROVE  Kept(Replace(s, ref, piece), s, None(s, Referred(s, ref)))
<1>1. Matches(s, Referred(s, ref), <<piece>>)
  <2>1. <<piece>> \in Seq(Pieces) /\ Len(<<piece>>) = 1 /\ Len(s) \in Nat
    BY Single
  <2>2. ASSUME NEW i \in 1..Len(s)
        PROVE  /\ Referred(s, ref)[i] \in 0..Len(s)
               /\ Referred(s, ref)[i] = 0 \/ Referred(s, ref)[i] >= i + 1
    <3>1. Referred(s, ref)[i] = IF s[i] = "&" /\ At(s, i + 1) = ref THEN i + 1 ELSE 0
      BY DEF Referred
    <3>2. At(s, i + 1) = ref => i + 1 \in 1..Len(s)
      BY DEF At, Tails, Numbered
    <3>3. Len(s) \in Nat /\ i \in 1..Len(s) /\ i + 1 >= i + 1
      OBVIOUS
    <3>. QED  BY <3>1, <3>2, <3>3
  <2>3. Referred(s, ref) \in [1..Len(s) -> 0..Len(s)]
    BY <2>2 DEF Referred
  <2>. QED  BY <2>1, <2>2, <2>3 DEF Matches
<1>. QED  BY <1>1, RewriteShape DEF Replace, Kept, None

LEMMA IndexOfIs ==
  ASSUME NEW s \in Seq(Pieces), NEW piece, NEW i \in Nat
  PROVE  /\ IndexOf(s, piece, i) \in 0..Len(s)
         /\ IndexOf(s, piece, i) # 0 => IndexOf(s, piece, i) >= i /\ s[IndexOf(s, piece, i)] = piece
         /\ IndexOf(s, piece, i) = 0 <=> \A j \in 1..Len(s) : j >= i => s[j] # piece
<1>. DEFINE found == {j \in 1..Len(s) : j >= i /\ s[j] = piece}
<1>1. Len(s) \in Nat /\ found \in SUBSET Nat
  OBVIOUS
<1>2. CASE found = {}
  BY <1>1, <1>2 DEF IndexOf
<1>3. CASE found # {}
  <2>1. IndexOf(s, piece, i) \in found
    BY <1>1, <1>3, LeastChosen DEF IndexOf
  <2>. QED  BY <1>1, <2>1
<1>. QED  BY <1>2, <1>3

LEMMA ClosingTagIs ==
  ASSUME NEW s \in Seq(Pieces), NEW i \in Nat
  PROVE  /\ ClosingTag(s, i) \in 0..Len(s)
         /\ ClosingTag(s, i) # 0 => ClosingTag(s, i) >= i /\ ClosingTag(s, i) + 4 <= Len(s)
<1>. DEFINE found == {j \in 1..Len(s) : j >= i /\
                    \A k \in 0..4 : At(s, j + k) = <<"<", "/", "scr", "ipt", ">">>[k + 1]}
<1>1. Len(s) \in Nat /\ found \in SUBSET Nat
  OBVIOUS
<1>2. CASE found = {}
  BY <1>1, <1>2 DEF ClosingTag
<1>3. CASE found # {}
  <2>1. ClosingTag(s, i) \in found
    BY <1>1, <1>3, LeastChosen DEF ClosingTag
  <2>2. PICK j \in 1..Len(s) : /\ j = ClosingTag(s, i) /\ j >= i
                               /\ \A k \in 0..4 : At(s, j + k) = <<"<", "/", "scr", "ipt", ">">>[k + 1]
    BY <2>1
  <2>3. At(s, j + 4) = ">"
    <3>1. 4 \in 0..4 /\ <<"<", "/", "scr", "ipt", ">">>[4 + 1] = ">"
      OBVIOUS
    <3>. QED  BY <2>2, <3>1
  <2>4. j + 4 \in 1..Len(s)
    BY <2>3 DEF At
  <2>. QED  BY <1>1, <2>2, <2>4
<1>. QED  BY <1>2, <1>3

\* Where a match may end.
EndsWell(s, i, e) == e \in 0..Len(s) /\ (e = 0 \/ e >= i)

LEMMA OpeningFits ==
  ASSUME NEW s \in Seq(Pieces), NEW i \in 1..Len(s), findTagOpening(s, i)
  PROVE  i + 2 \in 1..Len(s)
BY DEF findTagOpening, At

LEMMA EndsAreWell ==
  ASSUME NEW s \in Seq(Pieces), NEW i \in 1..Len(s)
  PROVE  /\ EndsWell(s, i, BlockEnd(s, i)) /\ EndsWell(s, i, OrphanEnd(s, i))
         /\ EndsWell(s, i, BareEnd(s, i)) /\ EndsWell(s, i, CommentEnd(s, i))
         /\ EndsWell(s, i, TagEnd(s, i)) /\ EndsWell(s, i, IncompleteEnd(s, i))
<1>1. Len(s) \in Nat /\ i \in Nat /\ i + 2 \in Nat /\ i + 3 \in Nat
  OBVIOUS
<1>. DEFINE gt == IndexOf(s, ">", i + 3)
<1>2. gt \in 0..Len(s) /\ (gt # 0 => gt >= i + 3)
  BY <1>1, IndexOfIs
<1>3. EndsWell(s, i, BlockEnd(s, i))
  <2>. DEFINE close == ClosingTag(s, gt + 1)
  <2>1. close \in 0..Len(s) /\ (close # 0 => close >= gt + 1 /\ close + 4 <= Len(s))
    <3>. HIDE DEF gt
    <3>1. gt + 1 \in Nat
      BY <1>1, <1>2
    <3>. QED  BY <3>1, ClosingTagIs
  <2>2. BlockEnd(s, i) = IF ~findTagOpening(s, i) \/ gt = 0 THEN 0 ELSE IF close = 0 THEN 0 ELSE close + 4
    BY DEF BlockEnd
  <2>. HIDE DEF gt, close
  <2>. QED  BY <1>1, <1>2, <2>1, <2>2 DEF EndsWell
<1>4. EndsWell(s, i, OrphanEnd(s, i))
  BY <1>1, <1>2 DEF EndsWell, OrphanEnd
<1>5. EndsWell(s, i, BareEnd(s, i))
  <2>1. BareEnd(s, i) = IF ~findTagOpening(s, i) THEN 0 ELSE IF gt = 0 THEN Len(s) ELSE gt - 1
    BY DEF BareEnd
  <2>. HIDE DEF gt
  <2>. QED  BY <1>1, <1>2, <2>1 DEF EndsWell
<1>6. EndsWell(s, i, CommentEnd(s, i))
  <2>. DEFINE ends == {j \in 1..Len(s) : j >= i + 2 /\ s[j] \in {"--", "!--"} /\ At(s, j + 1) = ">"}
              last == CHOOSE j \in ends : \A k \in ends : j <= k
  <2>1. ends \in SUBSET Nat
    BY <1>1
  <2>2. ends # {} => last \in ends
    <3>. HIDE DEF ends
    <3>. QED  BY <2>1, LeastChosen
  <2>3. \A j \in ends : j + 1 \in 1..Len(s) /\ j >= i + 2
    BY DEF At
  <2>4. CommentEnd(s, i) = IF At(s, i) # "<" \/ At(s, i + 1) # "!--" \/ ends = {} THEN 0 ELSE 1 + last
    BY DEF CommentEnd
  <2>5. ends # {} => last \in 1..Len(s) /\ last + 1 \in 1..Len(s) /\ last >= i + 2
    BY <2>2, <2>3
  <2>. HIDE DEF ends, last
  <2>. QED  BY <1>1, <2>4, <2>5 DEF EndsWell
<1>7. EndsWell(s, i, TagEnd(s, i))
  <2>1. IndexOf(s, ">", i + 2) \in 0..Len(s) /\ (IndexOf(s, ">", i + 2) # 0 => IndexOf(s, ">", i + 2) >= i + 2)
    BY <1>1, IndexOfIs
  <2>2. TagEnd(s, i) = 0 \/ TagEnd(s, i) = IndexOf(s, ">", i + 2)
    BY DEF TagEnd
  <2>. QED  BY <1>1, <2>1, <2>2 DEF EndsWell
<1>8. EndsWell(s, i, IncompleteEnd(s, i))
  <2>. DEFINE ends == {j \in i + 1..Len(s) :
                    /\ \A k \in i + 1..j : s[k] \in Letters
                    /\ At(s, j + 1) \in Space \cup {""}}
              last == CHOOSE j \in ends : TRUE
  <2>1. ends # {} => last \in i + 1..Len(s)
    OBVIOUS
  <2>2. IncompleteEnd(s, i) = IF At(s, i) # "<" \/ ends = {} THEN 0 ELSE last
    BY DEF IncompleteEnd
  <2>. HIDE DEF ends, last
  <2>. QED  BY <1>1, <2>1, <2>2 DEF EndsWell
<1>. QED  BY <1>3, <1>4, <1>5, <1>6, <1>7, <1>8

LEMMA ScannersShape ==
  ASSUME NEW s \in Seq(Pieces)
  PROVE  /\ Kept(Drop(s, Blocks(s)), s, None(s, Blocks(s)))
         /\ Kept(Drop(s, Orphans(s)), s, None(s, Orphans(s)))
         /\ Kept(Drop(s, Bare(s)), s, None(s, Bare(s)))
         /\ Kept(Drop(s, Comments(s)), s, None(s, Comments(s)))
         /\ Kept(Drop(s, Tags(s)), s, None(s, Tags(s)))
         /\ Kept(Drop(s, Incomplete(s)), s, None(s, Incomplete(s)))
<1>1. ASSUME NEW end, end = [i \in 1..Len(s) |-> end[i]],
             \A i \in 1..Len(s) : EndsWell(s, i, end[i])
      PROVE  Kept(Drop(s, end), s, None(s, end))
  <2>1. \A i \in 1..Len(s) : end[i] \in 0..Len(s) /\ (end[i] = 0 \/ end[i] >= i)
    BY <1>1 DEF EndsWell
  <2>2. end \in [1..Len(s) -> 0..Len(s)]
    BY <1>1, <2>1
  <2>. QED  BY <2>1, <2>2, DropShape
<1>2. Kept(Drop(s, Blocks(s)), s, None(s, Blocks(s)))
  <2>1. /\ Blocks(s) = [i \in 1..Len(s) |-> Blocks(s)[i]]
        /\ \A i \in 1..Len(s) : EndsWell(s, i, Blocks(s)[i])
    BY EndsAreWell DEF Blocks
  <2>. QED  BY <1>1, <2>1
<1>3. Kept(Drop(s, Orphans(s)), s, None(s, Orphans(s)))
  <2>1. /\ Orphans(s) = [i \in 1..Len(s) |-> Orphans(s)[i]]
        /\ \A i \in 1..Len(s) : EndsWell(s, i, Orphans(s)[i])
    BY EndsAreWell DEF Orphans
  <2>. QED  BY <1>1, <2>1
<1>4. Kept(Drop(s, Bare(s)), s, None(s, Bare(s)))
  <2>1. /\ Bare(s) = [i \in 1..Len(s) |-> Bare(s)[i]]
        /\ \A i \in 1..Len(s) : EndsWell(s, i, Bare(s)[i])
    BY EndsAreWell DEF Bare
  <2>. QED  BY <1>1, <2>1
<1>5. Kept(Drop(s, Comments(s)), s, None(s, Comments(s)))
  <2>1. /\ Comments(s) = [i \in 1..Len(s) |-> Comments(s)[i]]
        /\ \A i \in 1..Len(s) : EndsWell(s, i, Comments(s)[i])
    BY EndsAreWell DEF Comments
  <2>. QED  BY <1>1, <2>1
<1>6. Kept(Drop(s, Tags(s)), s, None(s, Tags(s)))
  <2>1. /\ Tags(s) = [i \in 1..Len(s) |-> Tags(s)[i]]
        /\ \A i \in 1..Len(s) : EndsWell(s, i, Tags(s)[i])
    BY EndsAreWell DEF Tags
  <2>. QED  BY <1>1, <2>1
<1>7. Kept(Drop(s, Incomplete(s)), s, None(s, Incomplete(s)))
  <2>1. /\ Incomplete(s) = [i \in 1..Len(s) |-> Incomplete(s)[i]]
        /\ \A i \in 1..Len(s) : EndsWell(s, i, Incomplete(s)[i])
    BY EndsAreWell DEF Incomplete
  <2>. QED  BY <1>1, <2>1
<1>. QED  BY <1>2, <1>3, <1>4, <1>5, <1>6, <1>7

LEMMA DropPiecesShape ==
  ASSUME NEW s \in Seq(Pieces), NEW kinds
  PROVE  Kept(DropPieces(s, kinds), s, \A i \in 1..Len(s) : s[i] \notin kinds)
<1>. DEFINE end == [i \in 1..Len(s) |-> IF s[i] \in kinds THEN i ELSE 0]
<1>1. end \in [1..Len(s) -> 0..Len(s)] /\ \A i \in 1..Len(s) : end[i] = 0 \/ end[i] >= i
  OBVIOUS
<1>2. Kept(Drop(s, end), s, None(s, end))
  <2>. HIDE DEF end
  <2>. QED  BY <1>1, DropShape
<1>3. None(s, end) <=> \A i \in 1..Len(s) : s[i] \notin kinds
  BY DEF None
<1>4. DropPieces(s, kinds) = Drop(s, end)
  BY DEF DropPieces
<1>. HIDE DEF end
<1>. QED  BY <1>2, <1>3, <1>4 DEF Kept

\* A text that no scanner finds anything in.
Quiet(s) ==
    /\ \A ref \in Tails \cup Numbered : None(s, Referred(s, ref))
    /\ None(s, Blocks(s)) /\ None(s, Orphans(s)) /\ None(s, Bare(s))
    /\ None(s, Comments(s)) /\ None(s, Tags(s)) /\ None(s, Incomplete(s))
    /\ \A i \in 1..Len(s) : s[i] \notin Control

\* One scanner after another, the first of which are quiet or not.
Through(t, s, quiet) ==
    t \in Seq(Pieces) /\ (t = s <=> quiet) /\ (t # s => Len(t) < Len(s))

LEMMA Stage ==
  ASSUME NEW s \in Seq(Pieces), NEW t, NEW u, NEW n1, NEW n2, NEW q,
         Through(t, s, n1), Kept(u, t, n2), t = s => (n2 <=> q)
  PROVE  Through(u, s, n1 /\ q)
<1>1. Len(u) \in Nat /\ Len(t) \in Nat /\ Len(s) \in Nat /\ u \in Seq(Pieces)
  BY DEF Kept, Through
<1>2. CASE n2
  BY <1>1, <1>2 DEF Kept, Through
<1>3. CASE ~n2
  BY <1>1, <1>3 DEF Kept, Through
<1>. QED  BY <1>2, <1>3

\* The chain keeps just the quiet texts.
LEMMA ChainShape ==
  ASSUME NEW s \in Seq(Pieces)
  PROVE  Through(Chain(s), s, Quiet(s))
<1>. DEFINE s1 == Replace(s, "#lt;", "<")
            s2 == Replace(s1, "#hi;", "rep")
            s3 == Replace(s2, "lt;", "<")
            s4 == Replace(s3, "gt;", ">")
            s5 == Replace(s4, "amp;", "&")
            s6 == Drop(s5, Blocks(s5))
            s7 == Drop(s6, Orphans(s6))
            s8 == Drop(s7, Bare(s7))
            s9 == Drop(s8, Comments(s8))
            s10 == Drop(s9, Tags(s9))
            s11 == Drop(s10, Incomplete(s10))
            s12 == DropPieces(s11, Control)
            q1 == None(s, Referred(s, "#lt;"))
            q2 == q1 /\ None(s, Referred(s, "#hi;"))
            q3 == q2 /\ None(s, Referred(s, "lt;"))
            q4 == q3 /\ None(s, Referred(s, "gt;"))
            q5 == q4 /\ None(s, Referred(s, "amp;"))
            q6 == q5 /\ None(s, Blocks(s))
            q7 == q6 /\ None(s, Orphans(s))
            q8 == q7 /\ None(s, Bare(s))
            q9 == q8 /\ None(s, Comments(s))
            q10 == q9 /\ None(s, Tags(s))
            q11 == q10 /\ None(s, Incomplete(s))
            q12 == q11 /\ \A i \in 1..Len(s) : s[i] \notin Control
<1>1. /\ {"#lt;", "#hi;", "lt;", "gt;", "amp;"} = Tails \cup Numbered
      /\ {"<", ">", "&", "rep"} \subseteq Pieces
  BY DEF Tails, Numbered, Pieces
<1>2. Chain(s) = s12
  <2>1. Named.lt = "<" /\ Named.gt = ">" /\ Named.amp = "&"
    BY DEF Named
  <2>2. CodePoint("#lt;") = "<" /\ CodePoint("#hi;") = "rep"
    BY DEF CodePoint
  <2>3. decodeCommonEntities(decodeNumericEntities(s)) = s5
    BY <2>1, <2>2, Zenon DEF decodeCommonEntities, decodeNumericEntities
  <2>4. ASSUME NEW d
        PROVE  stripOrphanedScriptStyleTags(d) = Drop(Drop(d, Orphans(d)), Bare(Drop(d, Orphans(d))))
    BY DEF stripOrphanedScriptStyleTags
  <2>5. Chain(s) = stripControlCharacters(stripIncompleteOpeningTags(stripRemainingHtmlTags(stripHtmlComments(
           stripOrphanedScriptStyleTags(stripScriptStyleContent(decodeCommonEntities(decodeNumericEntities(s))))))))
    BY DEF Chain
  <2>. HIDE DEF s5
  <2>6. stripOrphanedScriptStyleTags(stripScriptStyleContent(s5)) = s8
    BY <2>4 DEF stripScriptStyleContent
  <2>. HIDE DEF s8
  <2>. QED  BY <2>3, <2>5, <2>6
         DEF stripHtmlComments, stripRemainingHtmlTags, stripIncompleteOpeningTags, stripControlCharacters
<1>3. Quiet(s) <=> q12
  BY <1>1 DEF Quiet
<1>4. ASSUME NEW t, NEW q, Through(t, s, q), NEW ref \in Tails \cup Numbered, NEW piece \in Pieces
      PROVE  Through(Replace(t, ref, piece), s, q /\ None(s, Referred(s, ref)))
  <2>1. Kept(Replace(t, ref, piece), t, None(t, Referred(t, ref)))
    BY <1>4, ReplaceShape DEF Through
  <2>. QED  BY <1>4, <2>1, Stage
<1>5. ASSUME NEW t, NEW q, Through(t, s, q)
      PROVE  /\ Through(Drop(t, Blocks(t)), s, q /\ None(s, Blocks(s)))
             /\ Through(Drop(t, Orphans(t)), s, q /\ None(s, Orphans(s)))
             /\ Through(Drop(t, Bare(t)), s, q /\ None(s, Bare(s)))
             /\ Through(Drop(t, Comments(t)), s, q /\ None(s, Comments(s)))
             /\ Through(Drop(t, Tags(t)), s, q /\ None(s, Tags(s)))
             /\ Through(Drop(t, Incomplete(t)), s, q /\ None(s, Incomplete(s)))
             /\ Through(DropPieces(t, Control), s, q /\ \A i \in 1..Len(s) : s[i] \notin Control)
  <2>1. t \in Seq(Pieces)
    BY <1>5 DEF Through
  <2>2. Through(Drop(t, Blocks(t)), s, q /\ None(s, Blocks(s)))
    BY <1>5, <2>1, ScannersShape, Stage
  <2>3. Through(Drop(t, Orphans(t)), s, q /\ None(s, Orphans(s)))
    BY <1>5, <2>1, ScannersShape, Stage
  <2>4. Through(Drop(t, Bare(t)), s, q /\ None(s, Bare(s)))
    BY <1>5, <2>1, ScannersShape, Stage
  <2>5. Through(Drop(t, Comments(t)), s, q /\ None(s, Comments(s)))
    BY <1>5, <2>1, ScannersShape, Stage
  <2>6. Through(Drop(t, Tags(t)), s, q /\ None(s, Tags(s)))
    BY <1>5, <2>1, ScannersShape, Stage
  <2>7. Through(Drop(t, Incomplete(t)), s, q /\ None(s, Incomplete(s)))
    BY <1>5, <2>1, ScannersShape, Stage
  <2>8. Through(DropPieces(t, Control), s, q /\ \A i \in 1..Len(s) : s[i] \notin Control)
    BY <1>5, <2>1, DropPiecesShape, Stage
  <2>. QED  BY <2>2, <2>3, <2>4, <2>5, <2>6, <2>7, <2>8
<1>6. Through(s1, s, q1)
  <2>1. Kept(s1, s, q1)
    BY <1>1, ReplaceShape
  <2>2. Through(s, s, TRUE)
    BY DEF Through
  <2>. HIDE DEF s1
  <2>3. Through(s1, s, TRUE /\ q1)
    BY <2>1, <2>2, Stage
  <2>. HIDE DEF q1
  <2>. QED  BY <2>3 DEF Through
<1>. HIDE DEF s1, q1
<1>7. Through(s2, s, q2)
  BY <1>1, <1>4, <1>6
<1>. HIDE DEF s2, q2
<1>8. Through(s3, s, q3)
  BY <1>1, <1>4, <1>7
<1>. HIDE DEF s3, q3
<1>9. Through(s4, s, q4)
  BY <1>1, <1>4, <1>8
<1>. HIDE DEF s4, q4
<1>10. Through(s5, s, q5)
  BY <1>1, <1>4, <1>9
<1>. HIDE DEF s5, q5
<1>11. Through(s6, s, q6)
  BY <1>5, <1>10
<1>. HIDE DEF s6, q6
<1>12. Through(s7, s, q7)
  BY <1>5, <1>11
<1>. HIDE DEF s7, q7
<1>13. Through(s8, s, q8)
  BY <1>5, <1>12
<1>. HIDE DEF s8, q8
<1>14. Through(s9, s, q9)
  BY <1>5, <1>13
<1>. HIDE DEF s9, q9
<1>15. Through(s10, s, q10)
  BY <1>5, <1>14
<1>. HIDE DEF s10, q10
<1>16. Through(s11, s, q11)
  BY <1>5, <1>15
<1>. HIDE DEF s11, q11
<1>17. Through(s12, s, q12)
  BY <1>5, <1>16
<1>. HIDE DEF s12, q12
<1>. QED  BY <1>2, <1>3, <1>17 DEF Through

-----------------------------------------------------------------------------
(* Surrogates.                                                             *)

LEMMA NormalShape ==
  ASSUME NEW s \in Seq(Pieces), NEW n, n = normalizeUnpairedSurrogates(s)
  PROVE  /\ n \in Seq(Pieces) /\ Len(n) = Len(s)
         /\ \A i \in 1..Len(s) : IF Unpaired(s, i) THEN s[i] \in {"hi", "lo"} /\ n[i] = "rep"
                                                    ELSE n[i] = s[i]
         /\ \A i \in 1..Len(s) : n[i] = s[i] \/ (s[i] \in {"hi", "lo"} /\ n[i] = "rep")
         /\ \A i \in 1..Len(n) : ~Unpaired(n, i)
<1>1. /\ Len(s) \in Nat /\ "rep" \in Pieces
      /\ n = [i \in 1..Len(s) |-> IF Unpaired(s, i) THEN "rep" ELSE s[i]]
      /\ \A i \in 1..Len(s) : s[i] \in Pieces
  BY DEF normalizeUnpairedSurrogates, Pieces
<1>2. \A i \in 1..Len(s) : n[i] \in Pieces
  BY <1>1
<1>3. n \in Seq(Pieces) /\ Len(n) = Len(s)
  BY <1>1, <1>2
<1>4. \A i \in 1..Len(s) : IF Unpaired(s, i) THEN s[i] \in {"hi", "lo"} /\ n[i] = "rep"
                                              ELSE n[i] = s[i]
  BY <1>1 DEF Unpaired
<1>5. ASSUME NEW i \in 1..Len(n), n[i] = "hi" PROVE At(n, i + 1) = "lo"
  <2>1. i \in 1..Len(s) /\ s[i] = "hi" /\ ~Unpaired(s, i)
    BY <1>3, <1>4, <1>5
  <2>2. At(s, i + 1) = "lo"
    BY <2>1 DEF Unpaired
  <2>3. i + 1 \in 1..Len(s) /\ s[i + 1] = "lo"
    BY <2>2 DEF At
  <2>4. (i + 1) - 1 = i /\ i + 1 # 1
    BY <2>1
  <2>5. ~Unpaired(s, i + 1)
    BY <2>1, <2>3, <2>4 DEF Unpaired
  <2>6. n[i + 1] = "lo"
    BY <1>4, <2>3, <2>5
  <2>. QED  BY <1>3, <2>3, <2>6 DEF At
<1>6. ASSUME NEW i \in 1..Len(n), n[i] = "lo" PROVE i # 1 /\ n[i - 1] = "hi"
  <2>1. i \in 1..Len(s) /\ s[i] = "lo" /\ ~Unpaired(s, i)
    BY <1>3, <1>4, <1>6
  <2>2. i # 1 /\ s[i - 1] = "hi"
    BY <2>1 DEF Unpaired
  <2>3. i - 1 \in 1..Len(s) /\ (i - 1) + 1 = i
    BY <2>1, <2>2
  <2>4. At(s, (i - 1) + 1) = "lo"
    BY <2>1, <2>3 DEF At
  <2>5. ~Unpaired(s, i - 1)
    BY <2>2, <2>4 DEF Unpaired
  <2>. QED  BY <1>4, <2>2, <2>3, <2>5
<1>7. \A i \in 1..Len(n) : ~Unpaired(n, i)
  BY <1>5, <1>6 DEF Unpaired
<1>. QED  BY <1>3, <1>4, <1>7

\* The scanners tell no half of a pair from a replaced one.
LEMMA AtAlike ==
  ASSUME NEW s \in Seq(Pieces), NEW n, n = normalizeUnpairedSurrogates(s), NEW i \in Int
  PROVE  At(n, i) = At(s, i) \/ (At(s, i) \in {"hi", "lo"} /\ At(n, i) = "rep")
<1>1. Len(n) = Len(s) /\ Len(s) \in Nat
  BY NormalShape
<1>2. CASE i \in 1..Len(s)
  <2>1. n[i] = s[i] \/ (s[i] \in {"hi", "lo"} /\ n[i] = "rep")
    BY <1>2, NormalShape
  <2>. QED  BY <1>1, <1>2, <2>1 DEF At
<1>3. CASE i \notin 1..Len(s)
  BY <1>1, <1>3 DEF At
<1>. QED  BY <1>2, <1>3

First(T) == CHOOSE j \in T : \A k \in T : j <= k

LEMMA IndexOfAlike ==
  ASSUME NEW s \in Seq(Pieces), NEW n, n = normalizeUnpairedSurrogates(s), NEW i \in Int
  PROVE  IndexOf(n, ">", i) = IndexOf(s, ">", i)
<1>1. \A t : IndexOf(t, ">", i) =
         IF {j \in 1..Len(t) : j >= i /\ t[j] = ">"} = {} THEN 0
         ELSE First({j \in 1..Len(t) : j >= i /\ t[j] = ">"})
  BY DEF IndexOf, First
<1>2. {j \in 1..Len(n) : j >= i /\ n[j] = ">"} = {j \in 1..Len(s) : j >= i /\ s[j] = ">"}
  BY NormalShape
<1>. QED  BY <1>1, <1>2

LEMMA OpeningAlike ==
  ASSUME NEW s \in Seq(Pieces), NEW n, n = normalizeUnpairedSurrogates(s), NEW i \in Int
  PROVE  findTagOpening(n, i) <=> findTagOpening(s, i)
<1>1. i + 1 \in Int /\ i + 2 \in Int /\ i + 3 \in Int
  OBVIOUS
<1>2. At(n, i + 3) \in Word <=> At(s, i + 3) \in Word
  <2>1. \A a, b : a = b \/ (b \in {"hi", "lo"} /\ a = "rep") => (a \in Word <=> b \in Word)
    BY DEF Word, Letters, Tails
  <2>. QED  BY <1>1, <2>1, AtAlike
<1>3. At(n, i) = "<" <=> At(s, i) = "<"
  BY AtAlike
<1>4. At(n, i + 1) = "scr" <=> At(s, i + 1) = "scr"
  BY <1>1, AtAlike
<1>5. At(n, i + 2) = "ipt" <=> At(s, i + 2) = "ipt"
  BY <1>1, AtAlike
<1>. QED  BY <1>2, <1>3, <1>4, <1>5 DEF findTagOpening

Closings(s, i) ==
    {j \in 1..Len(s) : j >= i /\ \A k \in 0..4 : At(s, j + k) = <<"<", "/", "scr", "ipt", ">">>[k + 1]}

LEMMA ClosingAlike ==
  ASSUME NEW s \in Seq(Pieces), NEW n, n = normalizeUnpairedSurrogates(s), NEW i \in Int
  PROVE  ClosingTag(n, i) = ClosingTag(s, i)
<1>1. \A t : ClosingTag(t, i) = IF Closings(t, i) = {} THEN 0 ELSE First(Closings(t, i))
  BY DEF ClosingTag, Closings, First
<1>2. ASSUME NEW j \in 1..Len(s)
      PROVE  (\A k \in 0..4 : At(n, j + k) = <<"<", "/", "scr", "ipt", ">">>[k + 1])
               <=> (\A k \in 0..4 : At(s, j + k) = <<"<", "/", "scr", "ipt", ">">>[k + 1])
  <2>1. \A t : (\A k \in 0..4 : At(t, j + k) = <<"<", "/", "scr", "ipt", ">">>[k + 1])
             <=> /\ At(t, j + 0) = "<" /\ At(t, j + 1) = "/" /\ At(t, j + 2) = "scr"
                 /\ At(t, j + 3) = "ipt" /\ At(t, j + 4) = ">"
    <3>1. \A k : k \in 0..4 <=> k = 0 \/ k = 1 \/ k = 2 \/ k = 3 \/ k = 4
      OBVIOUS
    <3>2. /\ <<"<", "/", "scr", "ipt", ">">>[0 + 1] = "<" /\ <<"<", "/", "scr", "ipt", ">">>[1 + 1] = "/"
          /\ <<"<", "/", "scr", "ipt", ">">>[2 + 1] = "scr" /\ <<"<", "/", "scr", "ipt", ">">>[3 + 1] = "ipt"
          /\ <<"<", "/", "scr", "ipt", ">">>[4 + 1] = ">"
      OBVIOUS
    <3>. QED  BY <3>1, <3>2, Zenon
  <2>2. /\ j + 0 \in Int /\ j + 1 \in Int /\ j + 2 \in Int /\ j + 3 \in Int /\ j + 4 \in Int
    OBVIOUS
  <2>3. /\ At(n, j + 0) = "<" <=> At(s, j + 0) = "<"
        /\ At(n, j + 1) = "/" <=> At(s, j + 1) = "/"
        /\ At(n, j + 2) = "scr" <=> At(s, j + 2) = "scr"
        /\ At(n, j + 3) = "ipt" <=> At(s, j + 3) = "ipt"
        /\ At(n, j + 4) = ">" <=> At(s, j + 4) = ">"
    BY <2>2, AtAlike
  <2>. QED  BY <2>1, <2>3
<1>3. Len(n) = Len(s)
  BY NormalShape
<1>4. Closings(n, i) = Closings(s, i)
  BY <1>2, <1>3 DEF Closings
<1>. QED  BY <1>1, <1>4

LEMMA EndsAlike ==
  ASSUME NEW s \in Seq(Pieces), NEW n, n = normalizeUnpairedSurrogates(s)
  PROVE  /\ Blocks(n) = Blocks(s) /\ Orphans(n) = Orphans(s) /\ Bare(n) = Bare(s)
         /\ Comments(n) = Comments(s) /\ Tags(n) = Tags(s) /\ Incomplete(n) = Incomplete(s)
         /\ \A ref \in Tails \cup Numbered : Referred(n, ref) = Referred(s, ref)
<1>0. Len(n) = Len(s) /\ Len(s) \in Nat
  BY NormalShape
<1>1. ASSUME NEW i \in 1..Len(s)
      PROVE  /\ BlockEnd(n, i) = BlockEnd(s, i) /\ OrphanEnd(n, i) = OrphanEnd(s, i)
             /\ BareEnd(n, i) = BareEnd(s, i)
  <2>1. i + 3 \in Int /\ i \in Int
    OBVIOUS
  <2>2. IndexOf(n, ">", i + 3) = IndexOf(s, ">", i + 3) /\ (findTagOpening(n, i) <=> findTagOpening(s, i))
    BY <2>1, IndexOfAlike, OpeningAlike
  <2>3. IndexOf(s, ">", i + 3) + 1 \in Int
    BY <2>1, IndexOfIs
  <2>4. ClosingTag(n, IndexOf(n, ">", i + 3) + 1) = ClosingTag(s, IndexOf(s, ">", i + 3) + 1)
    BY <2>2, <2>3, ClosingAlike
  <2>5. BlockEnd(n, i) = BlockEnd(s, i)
    BY <2>2, <2>4 DEF BlockEnd
  <2>. QED  BY <1>0, <2>2, <2>5 DEF OrphanEnd, BareEnd
<1>4. ASSUME NEW i \in 1..Len(s) PROVE CommentEnd(n, i) = CommentEnd(s, i)
  <2>. DEFINE ends(t) == {j \in 1..Len(t) : j >= i + 2 /\ t[j] \in {"--", "!--"} /\ At(t, j + 1) = ">"}
  <2>1. \A j \in 1..Len(s) : (n[j] \in {"--", "!--"} <=> s[j] \in {"--", "!--"}) /\ (At(n, j + 1) = ">" <=> At(s, j + 1) = ">")
    <3>1. \A j \in 1..Len(s) : j + 1 \in Int
      OBVIOUS
    <3>. QED  BY <3>1, AtAlike, NormalShape
  <2>2. ends(n) = ends(s)
    BY <1>0, <2>1
  <2>3. (At(n, i) # "<" <=> At(s, i) # "<") /\ (At(n, i + 1) # "!--" <=> At(s, i + 1) # "!--")
    <3>1. i \in Int /\ i + 1 \in Int
      OBVIOUS
    <3>. QED  BY <3>1, AtAlike
  <2>4. \A t : CommentEnd(t, i) = IF At(t, i) # "<" \/ At(t, i + 1) # "!--" \/ ends(t) = {} THEN 0
                                ELSE 1 + First(ends(t))
    BY DEF CommentEnd, First
  <2>. HIDE DEF ends
  <2>. QED  BY <2>2, <2>3, <2>4
<1>5. ASSUME NEW i \in 1..Len(s) PROVE TagEnd(n, i) = TagEnd(s, i)
  <2>0. i \in Int /\ i + 1 \in Int /\ i + 2 \in Int
    OBVIOUS
  <2>1. At(n, i + 1) \in Space \cup {"", ">"} <=> At(s, i + 1) \in Space \cup {"", ">"}
    BY <2>0, AtAlike DEF Space
  <2>2. At(n, i) # "<" <=> At(s, i) # "<"
    BY <2>0, AtAlike
  <2>3. IndexOf(n, ">", i + 2) = IndexOf(s, ">", i + 2)
    BY <2>0, IndexOfAlike
  <2>. QED  BY <2>1, <2>2, <2>3 DEF TagEnd
<1>6. ASSUME NEW i \in 1..Len(s) PROVE IncompleteEnd(n, i) = IncompleteEnd(s, i)
  <2>. DEFINE ends(t) == {j \in i + 1..Len(t) : /\ \A k \in i + 1..j : t[k] \in Letters
                                              /\ At(t, j + 1) \in Space \cup {""}}
              any(T) == CHOOSE j \in T : TRUE
  <2>1. \A j \in i + 1..Len(s) : At(n, j + 1) \in Space \cup {""} <=> At(s, j + 1) \in Space \cup {""}
    <3>1. \A j \in i + 1..Len(s) : j + 1 \in Int
      OBVIOUS
    <3>. QED  BY <3>1, AtAlike DEF Space
  <2>2. \A k \in 1..Len(s) : n[k] \in Letters <=> s[k] \in Letters
    BY NormalShape DEF Letters
  <2>3. \A j \in i + 1..Len(s) : (\A k \in i + 1..j : n[k] \in Letters) <=> (\A k \in i + 1..j : s[k] \in Letters)
    <3>1. \A j \in i + 1..Len(s) : \A k \in i + 1..j : k \in 1..Len(s)
      BY <1>0
    <3>. QED  BY <2>2, <3>1
  <2>4. ends(n) = ends(s)
    BY <1>0, <2>1, <2>3
  <2>5. At(n, i) # "<" <=> At(s, i) # "<"
    <3>1. i \in Int
      OBVIOUS
    <3>. QED  BY <3>1, AtAlike
  <2>6. \A t : IncompleteEnd(t, i) = IF At(t, i) # "<" \/ ends(t) = {} THEN 0 ELSE any(ends(t))
    BY DEF IncompleteEnd
  <2>. HIDE DEF ends, any
  <2>. QED  BY <2>4, <2>5, <2>6
<1>7. ASSUME NEW ref \in Tails \cup Numbered PROVE Referred(n, ref) = Referred(s, ref)
  <2>1. \A i \in 1..Len(s) : (n[i] = "&" <=> s[i] = "&") /\ (At(n, i + 1) = ref <=> At(s, i + 1) = ref)
    <3>1. \A i \in 1..Len(s) : i + 1 \in Int
      OBVIOUS
    <3>2. \A i \in 1..Len(s) : n[i] = "&" <=> s[i] = "&"
      BY NormalShape
    <3>3. ref \notin {"hi", "lo", "rep"}
      BY DEF Tails, Numbered
    <3>4. \A i \in 1..Len(s) : At(n, i + 1) = ref <=> At(s, i + 1) = ref
      BY <3>1, <3>3, AtAlike
    <3>. QED  BY <3>2, <3>4
  <2>. QED  BY <1>0, <2>1 DEF Referred
<1>. QED  BY <1>0, <1>1, <1>4, <1>5, <1>6, <1>7
          DEF Blocks, Orphans, Bare, Comments, Tags, Incomplete

LEMMA NormalQuiet ==
  ASSUME NEW s \in Seq(Pieces), Quiet(s)
  PROVE  Quiet(normalizeUnpairedSurrogates(s))
<1>. DEFINE n == normalizeUnpairedSurrogates(s)
<1>1. Len(n) = Len(s) /\ \A i \in 1..Len(n) : n[i] \notin Control
  BY NormalShape DEF Quiet, Control
<1>2. /\ Blocks(n) = Blocks(s) /\ Orphans(n) = Orphans(s) /\ Bare(n) = Bare(s)
      /\ Comments(n) = Comments(s) /\ Tags(n) = Tags(s) /\ Incomplete(n) = Incomplete(s)
      /\ \A ref \in Tails \cup Numbered : Referred(n, ref) = Referred(s, ref)
  BY EndsAlike
<1>. HIDE DEF n
<1>3. Quiet(n)
  BY <1>1, <1>2 DEF Quiet, None
<1>. QED  BY <1>3 DEF n

\* What no scanner finds anything in shows no markup.
LEMMA QuietIsInert ==
  ASSUME NEW s \in Seq(Pieces), Quiet(s), \A i \in 1..Len(s) : ~Unpaired(s, i)
  PROVE  Inert(s)
<1>0. Len(s) \in Nat /\ \A i \in 1..Len(s) : s[i] \in Pieces
  OBVIOUS
<1>1. ASSUME NEW i \in 1..Len(s), NEW j \in 1..Len(s), s[i] = "<", s[j] = ">", i + 1 < j
      PROVE  s[i + 1] = "sp" \/ s[i + 1] = ">"
  <2>1. i + 1 \in 1..Len(s) /\ i + 2 \in Nat /\ j >= i + 2
    BY <1>0, <1>1
  <2>6. At(s, i) = "<" /\ At(s, i + 1) = s[i + 1]
    BY <1>1, <2>1 DEF At
  <2>2. TagEnd(s, i) = 0
    BY DEF Quiet, None, Tags
  <2>3. IndexOf(s, ">", i + 2) # 0
    BY <1>1, <2>1, IndexOfIs
  <2>4. s[i + 1] \in Space \cup {"", ">"}
    BY <2>6, <2>2, <2>3 DEF TagEnd
  <2>5. s[i + 1] # "tab" /\ s[i + 1] # ""
    BY <1>0, <2>1 DEF Quiet, Control, Pieces, Word, Letters, Tails, Numbered
  <2>. QED  BY <2>4, <2>5 DEF Space
<1>2. ASSUME NEW i \in 1..Len(s), findTagOpening(s, i) PROVE FALSE
  <2>. DEFINE gt == IndexOf(s, ">", i + 3)
  <2>1. BareEnd(s, i) = 0
    BY DEF Quiet, None, Bare
  <2>2. gt \in 0..Len(s) /\ (gt # 0 => gt >= i + 3)
    BY <1>0, IndexOfIs
  <2>3. IF gt = 0 THEN Len(s) = 0 ELSE gt - 1 = 0
    BY <1>2, <2>1 DEF BareEnd
  <2>. HIDE DEF gt
  <2>. QED  BY <1>0, <2>2, <2>3
<1>3. ASSUME NEW i \in 1..Len(s), s[i] = "&" PROVE At(s, i + 1) \notin Tails \cup Numbered
  <2>1. ASSUME NEW ref \in Tails \cup Numbered, At(s, i + 1) = ref PROVE FALSE
    <3>1. Referred(s, ref)[i] = i + 1
      BY <1>3, <2>1 DEF Referred
    <3>2. Referred(s, ref)[i] = 0
      BY DEF Quiet, None
    <3>. QED  BY <3>1, <3>2
  <2>. QED  BY <2>1
<1>4. \A i \in 1..Len(s) : s[i] \notin Control /\ ~Unpaired(s, i)
  BY DEF Quiet
<1>. QED  BY <1>1, <1>2, <1>3, <1>4 DEF Inert

\* Text without markup gives no scanner anything.
LEMMA PlainIsQuiet ==
  ASSUME NEW s \in Seq(Pieces), Plain(s)
  PROVE  /\ Quiet(s) /\ normalizeUnpairedSurrogates(s) = s
         /\ \A i \in 1..Len(s) : s[i] # "nul"
<1>1. \A i \in 1..Len(s) : s[i] \notin {"<", "&", "hi", "lo"} \cup Control
  BY DEF Plain, Letters, Control
<1>2. \A i \in 1..Len(s) : At(s, i) # "<" /\ ~findTagOpening(s, i)
  BY <1>1 DEF At, findTagOpening
<1>3. /\ \A ref \in Tails \cup Numbered : None(s, Referred(s, ref))
      /\ \A i \in 1..Len(s) : s[i] \notin Control
  BY <1>1 DEF None, Referred
<1>4. None(s, Blocks(s)) /\ None(s, Orphans(s)) /\ None(s, Bare(s))
  BY <1>2 DEF None, Blocks, Orphans, Bare, BlockEnd, OrphanEnd, BareEnd
<1>5. None(s, Comments(s)) /\ None(s, Tags(s)) /\ None(s, Incomplete(s))
  BY <1>2 DEF None, Comments, Tags, Incomplete, CommentEnd, TagEnd, IncompleteEnd
<1>6. normalizeUnpairedSurrogates(s) = s
  <2>1. \A i \in 1..Len(s) : ~Unpaired(s, i)
    BY <1>1 DEF Unpaired
  <2>2. s = [i \in 1..Len(s) |-> s[i]]
    OBVIOUS
  <2>. QED  BY <2>1, <2>2 DEF normalizeUnpairedSurrogates
<1>. QED  BY <1>1, <1>3, <1>4, <1>5, <1>6 DEF Quiet, Control

-----------------------------------------------------------------------------
(* The loop.                                                               *)

MarkupTypeOK ==
    /\ input \in Seq(Pieces) /\ text \in Seq(Pieces) /\ prev \in Seq(Pieces)
    /\ iterations \in Nat /\ phase \in {"idle", "refused", "loop", "done"}

\* An iteration that changes the text shortens it, so as many have changed it
\* as pieces are gone.
Shortened ==
    phase = "loop" =>
        /\ iterations = 0 => Len(text) <= Len(input)
        /\ iterations > 0 => /\ text = Chain(prev)
                             /\ text # prev => Len(text) + iterations <= Len(input)

PlainStays == phase = "loop" /\ Plain(input) => text = input

MarkupInv ==
    /\ MarkupTypeOK /\ Shortened /\ PlainStays /\ StripSettles
    /\ phase = "idle" => iterations = 0

Given == MarkupNext \/ \E s \in Seq(Pieces) : stripHtmlTags(s)

LEMMA MarkupInitInv == MarkupInit => MarkupInv
<1>1. <<>> \in Seq(Pieces)
  OBVIOUS
<1>. QED  BY <1>1 DEF MarkupInit, MarkupInv, MarkupTypeOK, Shortened, PlainStays, StripSettles

LEMMA EndStripSettles ==
  ASSUME MarkupInv, EndStrip
  PROVE  StripSettles'
<1>1. /\ input \in Seq(Pieces) /\ text \in Seq(Pieces) /\ prev \in Seq(Pieces)
      /\ iterations \in Nat /\ iterations > 0 /\ phase = "loop"
      /\ text = prev \/ iterations = MaxIterations
      /\ input' = input /\ prev' = prev /\ text' = normalizeUnpairedSurrogates(text)
      /\ text = Chain(prev) /\ (text # prev => Len(text) + iterations <= Len(input))
      /\ Plain(input) => text = input
  BY DEF MarkupInv, MarkupTypeOK, EndStrip, Shortened, PlainStays
<1>2. CASE text = prev
  <2>1. Quiet(text)
    BY <1>1, <1>2, ChainShape DEF Through
  <2>2. text' \in Seq(Pieces) /\ Quiet(text') /\ \A i \in 1..Len(text') : ~Unpaired(text', i)
    BY <1>1, <2>1, NormalQuiet, NormalShape
  <2>3. Inert(text')
    BY <2>2, QuietIsInert
  <2>4. Chain(text') = text'
    BY <2>2, ChainShape DEF Through
  <2>5. Plain(input) => text' = input
    BY <1>1, PlainIsQuiet
  <2>. QED  BY <1>1, <2>3, <2>4, <2>5 DEF StripSettles
<1>3. CASE text # prev
  <2>1. iterations = MaxIterations /\ MaxIterations <= Len(input)
    <3>1. Len(text) \in Nat /\ Len(input) \in Nat
      BY <1>1
    <3>2. iterations = MaxIterations /\ Len(text) + iterations <= Len(input)
      BY <1>1, <1>3
    <3>. QED  BY <1>1, <3>1, <3>2
  <2>2. Len(text) < Len(prev) /\ Len(text) \in Nat /\ Len(prev) \in Nat
    BY <1>1, <1>3, ChainShape DEF Through
  <2>3. Len(text') = Len(text) /\ Len(normalizeUnpairedSurrogates(prev)) = Len(prev)
    BY <1>1, NormalShape
  <2>4. text' # normalizeUnpairedSurrogates(prev')
    BY <1>1, <2>2, <2>3
  <2>5. Plain(input) => text' = input
    BY <1>1, PlainIsQuiet
  <2>6. ~(Len(input') < MaxIterations)
    BY <1>1, <2>1, MarkupAssumption
  <2>. QED  BY <1>1, <2>4, <2>5, <2>6 DEF StripSettles
<1>. QED  BY <1>2, <1>3

LEMMA MarkupInvNext == MarkupInv /\ [Given]_markup => MarkupInv'
<1>. SUFFICES ASSUME MarkupInv, [Given]_markup PROVE MarkupInv'
  OBVIOUS
<1>0. /\ input \in Seq(Pieces) /\ text \in Seq(Pieces) /\ prev \in Seq(Pieces)
      /\ iterations \in Nat
  BY DEF MarkupInv, MarkupTypeOK
<1>1. ASSUME NEW s \in Seq(Pieces), stripHtmlTags(s) PROVE MarkupInv'
  <2>1. Kept(DropPieces(s, {"nul"}), s, \A i \in 1..Len(s) : s[i] \notin {"nul"})
    BY DropPiecesShape
  <2>2. /\ DropPieces(s, {"nul"}) \in Seq(Pieces) /\ Len(DropPieces(s, {"nul"})) <= Len(s)
        /\ Plain(s) => DropPieces(s, {"nul"}) = s
    <3>1. Len(s) \in Nat /\ \A t \in Seq(Pieces) : Len(t) \in Nat
      OBVIOUS
    <3>2. Plain(s) => \A i \in 1..Len(s) : s[i] \notin {"nul"}
      BY PlainIsQuiet
    <3>. QED  BY <2>1, <3>1, <3>2 DEF Kept
  <2>3. /\ input' = s /\ prev' = prev /\ iterations' = 0
        /\ \/ phase' = "refused" /\ text' = text
           \/ phase' = "loop" /\ text' = DropPieces(s, {"nul"})
    BY <1>1 DEF stripHtmlTags, MarkupInv
  <2>. QED  BY <1>0, <2>2, <2>3
            DEF MarkupInv, MarkupTypeOK, Shortened, PlainStays, StripSettles
<1>2. CASE Iterate
  <2>1. /\ phase = "loop" /\ phase' = "loop" /\ input' = input
        /\ prev' = text /\ text' = Chain(text) /\ iterations' = iterations + 1
        /\ iterations = 0 \/ text # prev
    BY <1>2 DEF Iterate
  <2>2. text' \in Seq(Pieces) /\ (text' # text => Len(text') < Len(text))
    BY <1>0, <2>1, ChainShape DEF Through
  <2>3. Len(text) + iterations <= Len(input)
    <3>1. Len(text) \in Nat /\ Len(input) \in Nat
      BY <1>0
    <3>. QED  BY <1>0, <2>1, <3>1 DEF MarkupInv, Shortened
  <2>4. text' # prev' => Len(text') + iterations' <= Len(input')
    <3>1. Len(text) \in Nat /\ Len(input) \in Nat /\ Len(text') \in Nat
      BY <1>0, <2>2
    <3>. QED  BY <1>0, <2>1, <2>2, <2>3, <3>1
  <2>5. Plain(input) => text' = input
    BY <1>0, <2>1, PlainIsQuiet, ChainShape DEF MarkupInv, PlainStays, Through
  <2>6. MarkupTypeOK'
    BY <1>0, <2>1, <2>2 DEF MarkupTypeOK
  <2>7. Shortened'
    BY <1>0, <2>1, <2>4 DEF Shortened
  <2>8. PlainStays'
    BY <2>1, <2>5 DEF PlainStays
  <2>. QED  BY <2>1, <2>6, <2>7, <2>8 DEF MarkupInv, StripSettles
<1>3. CASE EndStrip
  <2>1. /\ phase' = "done" /\ text' = normalizeUnpairedSurrogates(text)
        /\ input' = input /\ prev' = prev /\ iterations' = iterations
    BY <1>3 DEF EndStrip
  <2>2. text' \in Seq(Pieces)
    BY <1>0, <2>1, NormalShape
  <2>3. StripSettles'
    BY <1>3, EndStripSettles
  <2>. QED  BY <1>0, <2>1, <2>2, <2>3 DEF MarkupInv, MarkupTypeOK, Shortened, PlainStays
<1>4. CASE UNCHANGED markup
  BY <1>4 DEF markup, MarkupInv, MarkupTypeOK, Shortened, PlainStays, StripSettles
<1>. QED  BY <1>1, <1>2, <1>3, <1>4 DEF Given, MarkupNext

\* Whatever text a request carries: a loop that ends by itself (as it must on a
\* text of fewer pieces than it has iterations) leaves no markup and nothing for
\* a second sanitisation to change, and plain text passes unchanged.
THEOREM StripSettlesAlways == MarkupSpec => []StripSettles
<1>1. MarkupSpec => MarkupInit /\ [][Given]_markup
  BY DEF MarkupSpec, Given
<1>2. MarkupInv => StripSettles
  BY DEF MarkupInv
<1>. QED  BY <1>1, <1>2, MarkupInitInv, MarkupInvNext, PTL

-----------------------------------------------------------------------------
(* What is stored fits its limit, whatever the measure of a value, and a   *)
(* text is cut between two characters.                                     *)

LEMMA MarkerFits ==
  ASSUME NEW limit \in Int
  PROVE  /\ truncationMarker(limit).kind = "marker"
         /\ truncationMarker(limit).size <= IF limit < Minimal THEN Minimal ELSE limit
<1>1. CASE Skeleton <= limit
  <2>. DEFINE fit == {n \in Previews : Skeleton + n <= limit}
              best == CHOOSE n \in fit : \A k \in fit : k <= n
  <2>1. fit \in SUBSET Nat /\ 0 \in fit /\ \A n \in fit : n <= limit - Skeleton
    <3>1. /\ Skeleton \in Nat /\ 0 \in Previews /\ Skeleton + 0 <= limit
          /\ \A n \in Previews : n \in Nat
      BY <1>1, TruncationAssumption
    <3>. QED  BY <3>1
  <2>2. best \in fit
    <3>1. limit - Skeleton \in Int
      BY TruncationAssumption
    <3>. HIDE DEF fit
    <3>. QED  BY <2>1, <3>1, GreatestChosen
  <2>3. best \in Nat /\ Skeleton + best <= limit
    BY <2>1, <2>2
  <2>4. truncationMarker(limit) = Marker(Skeleton + best)
    BY <1>1 DEF truncationMarker, PreviewSize
  <2>. HIDE DEF best
  <2>5. truncationMarker(limit).kind = "marker" /\ truncationMarker(limit).size = Skeleton + best
    <3>1. \A size : Marker(size).kind = "marker" /\ Marker(size).size = size
      BY Zenon DEF Marker
    <3>. QED  BY <2>4, <3>1
  <2>6. ~(limit < Minimal) \/ Skeleton + best <= Minimal
    BY <2>3, TruncationAssumption
  <2>. QED  BY <2>3, <2>5, <2>6, TruncationAssumption
<1>2. CASE ~(Skeleton <= limit)
  BY <1>2, TruncationAssumption DEF truncationMarker, Marker
<1>. QED  BY <1>1, <1>2

IsText(bytes) == bytes \in Seq(Bytes) /\ (bytes # <<>> => bytes[1] = "lead")

\* The longest whole characters that fit.
LEMMA SliceFits ==
  ASSUME NEW bytes, IsText(bytes), NEW limit \in Nat
  PROVE  \E n \in 0..Len(bytes) :
           /\ n <= limit /\ (n = Len(bytes) \/ bytes[n + 1] = "lead")
           /\ safeSliceUtf8(bytes, limit) = SubSeq(bytes, 1, n)
<1>. DEFINE ends == {n \in 0..Len(bytes) : n <= limit /\
                    (n = Len(bytes) \/ bytes[n + 1] = "lead" \/ n = 0)}
            last == CHOOSE n \in ends : \A k \in ends : k <= n
<1>1. bytes \in Seq(Bytes) /\ Len(bytes) \in Nat
  BY DEF IsText
<1>2. ends \in SUBSET Nat /\ 0 \in ends /\ \A n \in ends : n <= limit
  BY <1>1
<1>3. last \in ends
  <2>. HIDE DEF ends
  <2>. QED  BY <1>2, GreatestChosen
<1>4. last = 0 => last = Len(bytes) \/ bytes[last + 1] = "lead"
  BY <1>1 DEF IsText
<1>5. safeSliceUtf8(bytes, limit) = SubSeq(bytes, 1, last)
  BY DEF safeSliceUtf8
<1>. QED  BY <1>3, <1>4, <1>5

LEMMA CapFits ==
  ASSUME NEW bytes, IsText(bytes), NEW limit \in Int
  PROVE  /\ Len(capString(bytes, limit)) <= AtLeastOne(limit)
         /\ \E n \in 0..Len(bytes) :
              /\ n = Len(bytes) \/ bytes[n + 1] = "lead"
              /\ capString(bytes, limit) \in {SubSeq(bytes, 1, n), SubSeq(bytes, 1, n) \o Suffix}
<1>. DEFINE max == AtLeastOne(limit)
<1>1. /\ max \in Nat /\ bytes \in Seq(Bytes) /\ Len(bytes) \in Nat
      /\ Suffix \in Seq(Bytes) /\ Len(Suffix) \in Nat
  BY TruncationAssumption DEF IsText, AtLeastOne
<1>2. \A n \in 0..Len(bytes) : SubSeq(bytes, 1, n) \in Seq(Bytes) /\ Len(SubSeq(bytes, 1, n)) = n
  BY <1>1
<1>3. CASE Len(bytes) <= max
  <2>1. capString(bytes, limit) = bytes
    BY <1>3 DEF capString
  <2>2. SubSeq(bytes, 1, Len(bytes)) = bytes /\ Len(bytes) \in 0..Len(bytes)
    BY <1>1
  <2>. QED  BY <1>3, <2>1, <2>2
<1>4. CASE ~(Len(bytes) <= max) /\ max <= Len(Suffix)
  <2>1. capString(bytes, limit) = safeSliceUtf8(bytes, max)
    BY <1>4 DEF capString
  <2>. HIDE DEF max
  <2>2. PICK n \in 0..Len(bytes) :
           /\ n <= max /\ (n = Len(bytes) \/ bytes[n + 1] = "lead")
           /\ safeSliceUtf8(bytes, max) = SubSeq(bytes, 1, n)
    BY <1>1, SliceFits
  <2>3. Len(capString(bytes, limit)) <= max
    BY <1>2, <2>1, <2>2
  <2>. QED  BY <2>1, <2>2, <2>3 DEF max
<1>5. CASE ~(Len(bytes) <= max) /\ ~(max <= Len(Suffix))
  <2>1. capString(bytes, limit) = safeSliceUtf8(bytes, max - Len(Suffix)) \o Suffix
    BY <1>5 DEF capString
  <2>. HIDE DEF max
  <2>2. max - Len(Suffix) \in Nat
    BY <1>1, <1>5
  <2>3. PICK n \in 0..Len(bytes) :
           /\ n <= max - Len(Suffix) /\ (n = Len(bytes) \/ bytes[n + 1] = "lead")
           /\ safeSliceUtf8(bytes, max - Len(Suffix)) = SubSeq(bytes, 1, n)
    BY <2>2, SliceFits
  <2>4. Len(SubSeq(bytes, 1, n) \o Suffix) = n + Len(Suffix)
    BY <1>1, <1>2
  <2>5. Len(capString(bytes, limit)) <= max
    BY <1>1, <2>1, <2>3, <2>4
  <2>. QED  BY <2>1, <2>3, <2>5 DEF max
<1>. QED  BY <1>3, <1>4, <1>5

TruncationInv ==
    /\ stage # "idle" => job.limit \in Int /\ IsText(job.text)
    /\ StoredFits

\* Whatever a value is and however it is measured, for every limit, every size
\* of the marker's parts and every text: what is stored fits.
THEOREM StoredFitsAlways == TruncationSpec => []StoredFits
<1>1. stage = "idle" => TruncationInv
  BY DEF TruncationInv, StoredFits
<1>2. TruncationInv /\ [Earlier \/ Store]_truncation => TruncationInv'
  <2>. SUFFICES ASSUME TruncationInv, [Earlier \/ Store]_truncation PROVE TruncationInv'
    OBVIOUS
  <2>1. CASE Earlier
    BY <2>1 DEF Earlier, TruncationInv, StoredFits, Strings, IsText
  <2>2. CASE Store
    <3>1. /\ job' = job /\ redacted' = redacted
          /\ stored' = truncateValue(redacted, job.limit) /\ capped' = capString(job.text, job.limit)
          /\ IsText(job.text) /\ job.limit \in Int /\ stage' = "stored"
      BY <2>2 DEF Store, TruncationInv
    <3>. DEFINE max == AtLeastOne(job.limit)
    <3>2. IF redacted = Nothing THEN stored' = Nothing
          ELSE IF redacted \notin Unsized /\ Size(Normalise(redacted)) > max
          THEN /\ stored'.kind = "marker"
               /\ stored'.size <= IF max < Minimal THEN Minimal ELSE max
          ELSE stored' = Normalise(redacted)
      <4>1. max \in Int
        BY <3>1 DEF AtLeastOne
      <4>. HIDE DEF max
      <4>2. stored' = IF redacted = Nothing THEN Nothing
                      ELSE IF redacted \notin Unsized /\ Size(Normalise(redacted)) > max
                      THEN truncationMarker(max) ELSE Normalise(redacted)
        BY <3>1 DEF truncateValue, max
      <4>. QED  BY <4>1, <4>2, MarkerFits
    <3>3. /\ Len(capped') <= AtLeastOne(job.limit)
          /\ \E n \in 0..Len(job.text) :
              /\ n = Len(job.text) \/ job.text[n + 1] = "lead"
              /\ capped' \in {SubSeq(job.text, 1, n), SubSeq(job.text, 1, n) \o Suffix}
      BY <3>1, CapFits
    <3>. QED  BY <3>1, <3>2, <3>3 DEF TruncationInv, StoredFits
  <2>3. CASE UNCHANGED truncation
    BY <2>3 DEF truncation, TruncationInv, StoredFits
  <2>. QED  BY <2>1, <2>2, <2>3
<1>3. TruncationInv => StoredFits
  BY DEF TruncationInv
<1>. QED  BY <1>1, <1>2, <1>3, PTL DEF TruncationSpec

-----------------------------------------------------------------------------
(* What becomes of a payload: trees, the ways through a heap, and the      *)
(* recursions over them.                                                   *)

Steps == Nat \X (Names \cup {""})

IsTree(t) ==
    /\ t = [p \in DOMAIN t |-> t[p]]
    /\ <<>> \in DOMAIN t /\ DOMAIN t \subseteq Seq(Steps)

Items(I) == DOMAIN I \subseteq Steps /\ \A s \in DOMAIN I : IsTree(I[s])

LEMMA LeafIs ==
  ASSUME NEW v
  PROVE  IsTree(Leaf(v)) /\ Shown(Leaf(v)) = {v} /\ Leaf(v)[<<>>] = Label("leaf", v, <<>>)
<1>1. DOMAIN Leaf(v) = {<<>>} /\ Leaf(v)[<<>>] = Label("leaf", v, <<>>)
  BY DEF Leaf
<1>2. <<>> \in Seq(Steps)
  OBVIOUS
<1>3. IsTree(Leaf(v))
  BY <1>1, <1>2 DEF IsTree, Leaf
<1>4. Shown(Leaf(v)) = {Label("leaf", v, <<>>).value}
  BY <1>1 DEF Shown
<1>. QED  BY <1>1, <1>3, <1>4 DEF Label

\* A first step and the rest.
LEMMA Path ==
  ASSUME NEW s \in Steps, NEW q \in Seq(Steps)
  PROVE  /\ Cons(s, q) \in Seq(Steps) /\ Cons(s, q) # <<>>
         /\ Head(Cons(s, q)) = s /\ Tail(Cons(s, q)) = q
<1>1. <<s>> \in Seq(Steps) /\ Cons(s, q) = <<s>> \o q
  BY DEF Cons
<1>2. Cons(s, q) \in Seq(Steps) /\ Len(Cons(s, q)) = Len(q) + 1 /\ Cons(s, q)[1] = s
  BY <1>1
<1>3. Tail(Cons(s, q)) \in Seq(Steps) /\ Len(Tail(Cons(s, q))) = Len(q)
  BY <1>2
<1>4. \A i \in 1..Len(q) : Tail(Cons(s, q))[i] = q[i]
  BY <1>1, <1>2
<1>5. Tail(Cons(s, q)) = q
  BY <1>3, <1>4
<1>. QED  BY <1>2, <1>5

LEMMA TreeIs ==
  ASSUME NEW label, NEW I, Items(I)
  PROVE  LET t == Tree(label, I)
         IN  /\ IsTree(t) /\ t[<<>>] = label
             /\ \A s \in DOMAIN I : \A q \in DOMAIN I[s] :
                  Cons(s, q) \in DOMAIN t /\ t[Cons(s, q)] = I[s][q]
             /\ \A p \in DOMAIN t : p # <<>> =>
                  \E s \in DOMAIN I : \E q \in DOMAIN I[s] : p = Cons(s, q)
<1>. DEFINE D == {<<>>} \cup UNION {{Cons(s, q) : q \in DOMAIN I[s]} : s \in DOMAIN I}
            t == Tree(label, I)
<1>1. t = [p \in D |-> IF p = <<>> THEN label ELSE I[Head(p)][Tail(p)]]
  BY DEF Tree
<1>2. \A s \in DOMAIN I : s \in Steps /\ DOMAIN I[s] \subseteq Seq(Steps)
  BY DEF Items, IsTree
<1>3. \A s \in DOMAIN I : \A q \in DOMAIN I[s] :
        /\ Cons(s, q) \in D /\ Cons(s, q) # <<>> /\ Cons(s, q) \in Seq(Steps)
        /\ Head(Cons(s, q)) = s /\ Tail(Cons(s, q)) = q
  <2>1. TAKE s \in DOMAIN I
  <2>2. TAKE q \in DOMAIN I[s]
  <2>3. s \in Steps /\ q \in Seq(Steps)
    BY <1>2
  <2>4. Cons(s, q) \in D
    OBVIOUS
  <2>. HIDE DEF D
  <2>. QED  BY <2>3, <2>4, Path
<1>4. \A p \in D : p # <<>> => \E s \in DOMAIN I : \E q \in DOMAIN I[s] : p = Cons(s, q)
  OBVIOUS
<1>5. \A p \in D : p \in Seq(Steps)
  <2>1. TAKE p \in D
  <2>2. CASE p = <<>>
    BY <2>2
  <2>3. CASE p # <<>>
    <3>1. PICK s \in DOMAIN I : \E q \in DOMAIN I[s] : p = Cons(s, q)
      BY <1>4, <2>3
    <3>2. PICK q \in DOMAIN I[s] : p = Cons(s, q)
      BY <3>1
    <3>. QED  BY <3>2, <1>3
  <2>. QED  BY <2>2, <2>3
<1>. HIDE DEF D
<1>6. DOMAIN t = D /\ t = [p \in DOMAIN t |-> t[p]]
  BY <1>1
<1>7. <<>> \in D
  BY DEF D
<1>8. t[<<>>] = label
  BY <1>1, <1>7
<1>9. \A s \in DOMAIN I : \A q \in DOMAIN I[s] : t[Cons(s, q)] = I[s][q]
  <2>1. TAKE s \in DOMAIN I
  <2>2. TAKE q \in DOMAIN I[s]
  <2>. QED  BY <1>1, <1>3
<1>. HIDE DEF t
<1>10. IsTree(t)
  BY <1>5, <1>6, <1>7 DEF IsTree
<1>. QED  BY <1>3, <1>4, <1>6, <1>8, <1>9, <1>10 DEF t

\* What a tree shows is its label's value and what its items show.
LEMMA TreeShows ==
  ASSUME NEW label, NEW I, Items(I)
  PROVE  Shown(Tree(label, I)) = {label.value} \cup UNION {Shown(I[s]) : s \in DOMAIN I}
<1>. DEFINE t == Tree(label, I)
<1>. HIDE DEF t
<1>1. /\ IsTree(t) /\ t[<<>>] = label
      /\ \A s \in DOMAIN I : \A q \in DOMAIN I[s] :
            Cons(s, q) \in DOMAIN t /\ t[Cons(s, q)] = I[s][q]
      /\ \A p \in DOMAIN t : p # <<>> =>
            \E s \in DOMAIN I : \E q \in DOMAIN I[s] : p = Cons(s, q)
  BY TreeIs DEF t
<1>2. ASSUME NEW x \in Shown(t)
      PROVE  x \in {label.value} \cup UNION {Shown(I[s]) : s \in DOMAIN I}
  <2>1. PICK p \in DOMAIN t : x = t[p].value
    BY DEF Shown
  <2>2. CASE p = <<>>
    BY <1>1, <2>1, <2>2
  <2>3. CASE p # <<>>
    <3>0. PICK s \in DOMAIN I : \E q \in DOMAIN I[s] : p = Cons(s, q)
      BY <1>1, <2>3
    <3>1. PICK q \in DOMAIN I[s] : p = Cons(s, q)
      BY <3>0
    <3>2. x = I[s][q].value
      BY <1>1, <2>1, <3>1
    <3>. QED  BY <3>2 DEF Shown
  <2>. QED  BY <2>2, <2>3
<1>3. ASSUME NEW x \in {label.value} \cup UNION {Shown(I[s]) : s \in DOMAIN I}
      PROVE  x \in Shown(t)
  <2>1. CASE x = label.value
    BY <1>1, <2>1 DEF Shown, IsTree
  <2>2. ASSUME NEW s \in DOMAIN I, x \in Shown(I[s]) PROVE x \in Shown(t)
    <3>1. PICK q \in DOMAIN I[s] : x = I[s][q].value
      BY <2>2 DEF Shown
    <3>2. Cons(s, q) \in DOMAIN t /\ x = t[Cons(s, q)].value
      BY <1>1, <3>1
    <3>. QED  BY <3>2 DEF Shown
  <2>. QED  BY <2>1, <2>2
<1>. QED  BY <1>2, <1>3 DEF t

\* What stands at a position that begins with a step.
LEMMA TreeItems ==
  ASSUME NEW l, NEW I, Items(I), NEW s \in Steps, NEW q \in Seq(Steps)
  PROVE  /\ Cons(s, q) \in DOMAIN Tree(l, I) <=> s \in DOMAIN I /\ q \in DOMAIN I[s]
         /\ s \in DOMAIN I /\ q \in DOMAIN I[s] => Tree(l, I)[Cons(s, q)] = I[s][q]
<1>. SUFFICES ASSUME Cons(s, q) \in DOMAIN Tree(l, I)
              PROVE  s \in DOMAIN I /\ q \in DOMAIN I[s]
  BY TreeIs
<1>1. Cons(s, q) # <<>>
  BY Path
<1>2. PICK a \in DOMAIN I : \E b \in DOMAIN I[a] : Cons(s, q) = Cons(a, b)
  BY <1>1, TreeIs
<1>3. PICK b \in DOMAIN I[a] : Cons(s, q) = Cons(a, b)
  BY <1>2
<1>4. a \in Steps /\ b \in Seq(Steps)
  BY DEF Items, IsTree
<1>5. Head(Cons(s, q)) = s /\ Tail(Cons(s, q)) = q
  BY Path
<1>6. Head(Cons(a, b)) = a /\ Tail(Cons(a, b)) = b
  BY Path, <1>4
<1>. QED  BY <1>3, <1>5, <1>6

\* A tree tells its label and its items.
LEMMA TreesEqual ==
  ASSUME NEW l, NEW m, NEW I, NEW J, Items(I), Items(J), Tree(l, I) = Tree(m, J)
  PROVE  l = m /\ DOMAIN I = DOMAIN J /\ \A s \in DOMAIN I : I[s] = J[s]
<1>. DEFINE t == Tree(l, I)
<1>1. \A s \in Steps : \A q \in Seq(Steps) :
        (Cons(s, q) \in DOMAIN t <=> s \in DOMAIN I /\ q \in DOMAIN I[s])
        /\ (s \in DOMAIN I /\ q \in DOMAIN I[s] => t[Cons(s, q)] = I[s][q])
  <2>1. TAKE s \in Steps
  <2>2. TAKE q \in Seq(Steps)
  <2>3. t = Tree(l, I)
    OBVIOUS
  <2>. HIDE DEF t
  <2>. QED  BY <2>3, TreeItems
<1>2. \A s \in Steps : \A q \in Seq(Steps) :
        (Cons(s, q) \in DOMAIN t <=> s \in DOMAIN J /\ q \in DOMAIN J[s])
        /\ (s \in DOMAIN J /\ q \in DOMAIN J[s] => t[Cons(s, q)] = J[s][q])
  <2>1. TAKE s \in Steps
  <2>2. TAKE q \in Seq(Steps)
  <2>3. t = Tree(m, J)
    OBVIOUS
  <2>. HIDE DEF t
  <2>. QED  BY <2>3, TreeItems
<1>3. l = m
  BY TreeIs
<1>. HIDE DEF t
<1>4. <<>> \in Seq(Steps) /\ DOMAIN I \subseteq Steps /\ DOMAIN J \subseteq Steps
  BY DEF Items
<1>5. \A s \in Steps : /\ s \in DOMAIN I <=> Cons(s, <<>>) \in DOMAIN t
                       /\ s \in DOMAIN J <=> Cons(s, <<>>) \in DOMAIN t
  BY <1>1, <1>2, <1>4 DEF Items, IsTree
<1>6. DOMAIN I = DOMAIN J
  BY <1>4, <1>5
<1>7. ASSUME NEW s \in DOMAIN I PROVE I[s] = J[s]
  <2>1. IsTree(I[s]) /\ IsTree(J[s]) /\ s \in Steps
    BY <1>6 DEF Items
  <2>2. DOMAIN I[s] = DOMAIN J[s] /\ \A q \in DOMAIN I[s] : I[s][q] = J[s][q]
    <3>1. DOMAIN I[s] \subseteq Seq(Steps) /\ DOMAIN J[s] \subseteq Seq(Steps)
      BY <2>1 DEF IsTree
    <3>2. \A q \in Seq(Steps) : q \in DOMAIN I[s] <=> q \in DOMAIN J[s]
      BY <2>1, <1>1, <1>2, <1>6
    <3>3. DOMAIN I[s] = DOMAIN J[s]
      BY <3>1, <3>2
    <3>4. ASSUME NEW q \in DOMAIN I[s] PROVE I[s][q] = J[s][q]
      <4>1. q \in Seq(Steps)
        BY <3>1
      <4>. QED  BY <2>1, <4>1, <3>3, <1>1, <1>2, <1>6
    <3>. QED  BY <3>3, <3>4
  <2>. QED  BY <2>1, <2>2 DEF IsTree
<1>. QED  BY <1>3, <1>6, <1>7

TreeList(items, n) ==
    items = [i \in 1..n |-> items[i]] /\ \A i \in 1..n : IsTree(items[i])

Entry == [key : Names, item : Values]

\* Fields of different names.
Fields(es) ==
    es \in Entries /\ \A i, j \in 1..Len(es) : i # j => es[i].key # es[j].key

AtNumber(i) == <<i, "">>
AtName(k) == <<0, k>>

ListItems(items) == [s \in (1..Len(items)) \X {""} |-> items[s[1]]]

IsListOf(I, items, n) ==
    /\ Items(I) /\ DOMAIN I = (1..n) \X {""}
    /\ \A i \in 1..n : AtNumber(i) \in DOMAIN I /\ I[AtNumber(i)] = items[i]
    /\ \A s \in DOMAIN I : s[1] \in 1..n /\ I[s] = items[s[1]]

LEMMA ListItemsAre ==
  ASSUME NEW n \in Nat, NEW items, TreeList(items, n)
  PROVE  Len(items) = n /\ IsListOf(ListItems(items), items, n)
<1>1. Len(items) = n
  BY DEF TreeList
<1>2. DOMAIN ListItems(items) = (1..n) \X {""}
  BY <1>1 DEF ListItems
<1>3. \A i \in 1..n : AtNumber(i) \in (1..n) \X {""} /\ ListItems(items)[AtNumber(i)] = items[i]
  BY <1>1 DEF ListItems, AtNumber
<1>4. \A s \in (1..n) \X {""} : s[1] \in 1..n /\ ListItems(items)[s] = items[s[1]]
  BY <1>1 DEF ListItems
<1>5. (1..n) \X {""} \subseteq Steps
  <2>1. 1..n \subseteq Nat /\ {""} \subseteq Names \cup {""}
    OBVIOUS
  <2>. QED  BY <2>1 DEF Steps
<1>6. Items(ListItems(items))
  BY <1>2, <1>4, <1>5 DEF Items, TreeList
<1>. QED  BY <1>1, <1>2, <1>3, <1>4, <1>6 DEF IsListOf

LEMMA ListIs ==
  ASSUME NEW n \in Nat, NEW items, TreeList(items, n)
  PROVE  /\ IsTree(List(items)) /\ List(items)[<<>>] = Label("list", "", <<>>)
         /\ Shown(List(items)) = {""} \cup UNION {Shown(items[i]) : i \in 1..n}
<1>. DEFINE I == ListItems(items)
            l == Label("list", "", <<>>)
<1>1. List(items) = Tree(l, I)
  BY DEF List, ListItems
<1>. HIDE DEF l, I
<1>2. /\ Items(I) /\ \A i \in 1..n : AtNumber(i) \in DOMAIN I /\ I[AtNumber(i)] = items[i]
      /\ \A s \in DOMAIN I : s[1] \in 1..n /\ I[s] = items[s[1]]
  <2>1. IsListOf(I, items, n)
    BY ListItemsAre DEF I
  <2>. QED  BY <2>1 DEF IsListOf
<1>3. IsTree(Tree(l, I)) /\ Tree(l, I)[<<>>] = l
  BY <1>2, TreeIs
<1>4. Shown(Tree(l, I)) = {l.value} \cup UNION {Shown(I[s]) : s \in DOMAIN I}
  BY <1>2, TreeShows
<1>5. UNION {Shown(I[s]) : s \in DOMAIN I} = UNION {Shown(items[i]) : i \in 1..n}
  <2>1. ASSUME NEW s \in DOMAIN I, NEW x \in Shown(I[s])
        PROVE  x \in UNION {Shown(items[i]) : i \in 1..n}
    BY <1>2, <2>1
  <2>2. ASSUME NEW i \in 1..n, NEW x \in Shown(items[i])
        PROVE  x \in UNION {Shown(I[s]) : s \in DOMAIN I}
    <3>. DEFINE s == AtNumber(i)
    <3>1. s \in DOMAIN I /\ I[s] = items[i]
      BY <1>2
    <3>. HIDE DEF s
    <3>. QED  BY <3>1, <2>2
  <2>. QED  BY <2>1, <2>2
<1>6. l.value = ""
  BY DEF l, Label
<1>. QED  BY <1>1, <1>3, <1>4, <1>5, <1>6 DEF l

RecordItems(es, items) ==
    [s \in {0} \X ToSet(Keys(es)) |-> items[CHOOSE i \in 1..Len(es) : es[i].key = s[2]]]

IsRecordOf(I, es, items) ==
    /\ Items(I) /\ DOMAIN I = {0} \X ToSet(Keys(es))
    /\ \A i \in 1..Len(es) :
         AtName(es[i].key) \in DOMAIN I /\ I[AtName(es[i].key)] = items[i]
    /\ \A s \in DOMAIN I : \E i \in 1..Len(es) : es[i].key = s[2] /\ I[s] = items[i]

LEMMA RecordItemsAre ==
  ASSUME NEW es, NEW items, Fields(es), TreeList(items, Len(es))
  PROVE  IsRecordOf(RecordItems(es, items), es, items)
<1>. DEFINE I == RecordItems(es, items)
            n == Len(es)
<1>1. n \in Nat /\ es \in Seq(Entry) /\ Len(Keys(es)) = n /\ \A i \in 1..n : Keys(es)[i] = es[i].key
  BY DEF Fields, Entries, Entry, Keys
<1>2. \A i \in 1..n : es[i].key \in Names
  <2>1. TAKE i \in 1..n
  <2>2. es[i] \in Entry
    BY <1>1
  <2>. QED  BY <2>2 DEF Entry
<1>3. ToSet(Keys(es)) = {es[i].key : i \in 1..n}
  BY <1>1 DEF ToSet
<1>4. DOMAIN I = {0} \X ToSet(Keys(es))
  BY DEF RecordItems
<1>5. ASSUME NEW s \in DOMAIN I
      PROVE  \E i \in 1..n : es[i].key = s[2] /\ I[s] = items[i]
  <2>1. s[2] \in ToSet(Keys(es))
    BY <1>4
  <2>2. \E i \in 1..n : es[i].key = s[2]
    BY <1>3, <2>1
  <2>3. I[s] = items[CHOOSE i \in 1..n : es[i].key = s[2]]
    BY <1>4 DEF RecordItems
  <2>. QED  BY <2>2, <2>3
<1>6. ASSUME NEW i \in 1..n
      PROVE  AtName(es[i].key) \in DOMAIN I /\ I[AtName(es[i].key)] = items[i]
  <2>. DEFINE s == AtName(es[i].key)
  <2>1. s \in DOMAIN I /\ s[2] = es[i].key
    BY <1>3, <1>4 DEF AtName
  <2>. HIDE DEF s
  <2>2. PICK j \in 1..n : es[j].key = s[2] /\ I[s] = items[j]
    BY <1>5, <2>1
  <2>3. j = i
    BY <2>1, <2>2 DEF Fields
  <2>. QED  BY <2>1, <2>2, <2>3 DEF s
<1>7. Items(I)
  <2>1. DOMAIN I \subseteq Steps
    <3>. DEFINE K == ToSet(Keys(es))
    <3>1. \A k \in K : k \in Names
      BY <1>2, <1>3
    <3>2. {0} \subseteq Nat
      OBVIOUS
    <3>. HIDE DEF I, K
    <3>. QED  BY <1>4, <3>1, <3>2 DEF Steps, K
  <2>2. \A s \in DOMAIN I : IsTree(I[s])
    BY <1>5 DEF TreeList
  <2>. HIDE DEF I
  <2>. QED  BY <2>1, <2>2 DEF Items
<1>. QED  BY <1>4, <1>5, <1>6, <1>7 DEF IsRecordOf

LEMMA RecordIs ==
  ASSUME NEW keys, NEW es, NEW items, Fields(es), TreeList(items, Len(es))
  PROVE  /\ IsTree(Record(keys, es, items))
         /\ Record(keys, es, items)[<<>>] = Label("record", "", keys)
         /\ Shown(Record(keys, es, items)) = {""} \cup UNION {Shown(items[i]) : i \in 1..Len(es)}
<1>. DEFINE I == RecordItems(es, items)
            l == Label("record", "", keys)
            n == Len(es)
<1>1. Record(keys, es, items) = Tree(l, I)
  BY DEF Record, RecordItems
<1>. HIDE DEF l, I, n
<1>2. /\ Items(I) /\ \A i \in 1..n : AtName(es[i].key) \in DOMAIN I /\ I[AtName(es[i].key)] = items[i]
      /\ \A s \in DOMAIN I : \E i \in 1..n : I[s] = items[i]
  <2>1. IsRecordOf(I, es, items)
    BY RecordItemsAre DEF I
  <2>. QED  BY <2>1 DEF IsRecordOf, n
<1>3. IsTree(Tree(l, I)) /\ Tree(l, I)[<<>>] = l
  BY <1>2, TreeIs
<1>4. Shown(Tree(l, I)) = {l.value} \cup UNION {Shown(I[s]) : s \in DOMAIN I}
  BY <1>2, TreeShows
<1>5. UNION {Shown(I[s]) : s \in DOMAIN I} = UNION {Shown(items[i]) : i \in 1..n}
  <2>1. ASSUME NEW s \in DOMAIN I, NEW x \in Shown(I[s])
        PROVE  x \in UNION {Shown(items[i]) : i \in 1..n}
    BY <1>2, <2>1
  <2>2. ASSUME NEW i \in 1..n, NEW x \in Shown(items[i])
        PROVE  x \in UNION {Shown(I[s]) : s \in DOMAIN I}
    <3>. DEFINE s == AtName(es[i].key)
    <3>1. s \in DOMAIN I /\ I[s] = items[i]
      BY <1>2
    <3>. HIDE DEF s
    <3>. QED  BY <3>1, <2>2
  <2>. QED  BY <2>1, <2>2
<1>6. l.value = ""
  BY DEF l, Label
<1>. QED  BY <1>1, <1>3, <1>4, <1>5, <1>6 DEF l, n

-----------------------------------------------------------------------------
(* The ways through the containers of a heap.                              *)

\* The items of a container.
Below(E, w) == {e.item : e \in E[w]}

IsRoute(E, v, r, k) ==
    /\ r \in [1..k -> Nodes] /\ r[1] = v
    /\ \A i \in 1..k : i # k => r[i + 1] \in Below(E, r[i])

LEMMA RouteShape ==
  ASSUME NEW E, NEW v, NEW n \in Nat, NEW r \in Routes(E, v, n)
  PROVE  /\ Len(r) \in 1..n /\ r \in [1..Len(r) -> Nodes] /\ r[1] = v /\ v \in Nodes
         /\ ToSet(r) = {r[i] : i \in 1..Len(r)} /\ Last(r) \in Nodes
         /\ Last(r) = r[Len(r)]
         /\ \A i \in 1..Len(r) - 1 : r[i + 1] \in Below(E, r[i])
<1>1. PICK k \in 1..n : r \in [1..k -> Nodes]
  BY DEF Routes
<1>2. r \in Seq(Nodes) /\ Len(r) = k
  BY <1>1
<1>3. r[1] = v /\ \A i \in 1..Len(r) - 1 : r[i + 1] \in Below(E, r[i])
  BY DEF Routes, Below
<1>. QED  BY <1>1, <1>2, <1>3 DEF ToSet, Last

LEMMA RouteMade ==
  ASSUME NEW E, NEW v, NEW n \in Nat, NEW k \in 1..n, NEW r, IsRoute(E, v, r, k)
  PROVE  r \in Routes(E, v, n) /\ Len(r) = k
<1>1. Len(r) = k
  BY DEF IsRoute
<1>. QED  BY <1>1 DEF Routes, IsRoute, Below

LongerBy(w, r, t) ==
    Len(t) = Len(r) + 1 /\ Last(t) = Last(r) /\ ToSet(t) = {w} \cup ToSet(r)

\* A route that starts one container earlier.
LEMMA RouteLonger ==
  ASSUME NEW E, NEW n, NEW w, NEW c, NEW r,
         n \in Nat, w \in Nodes, c \in Below(E, w), r \in Routes(E, c, n)
  PROVE  Cons(w, r) \in Routes(E, w, n + 1) /\ LongerBy(w, r, Cons(w, r))
<1>. DEFINE k == Len(r)
            t == Cons(w, r)
<1>1. /\ k \in 1..n /\ r \in [1..k -> Nodes] /\ r[1] = c
      /\ ToSet(r) = {r[i] : i \in 1..k}
      /\ \A i \in 1..k - 1 : r[i + 1] \in Below(E, r[i])
  BY RouteShape
<1>0. /\ t \in Seq(Nodes) /\ Len(t) = k + 1 /\ t[1] = w
      /\ \A i \in 1..k + 1 : i # 1 => t[i] = r[i - 1]
  <2>1. r \in Seq(Nodes) /\ <<w>> \in Seq(Nodes) /\ t = <<w>> \o r
    BY <1>1 DEF Cons
  <2>. QED  BY <2>1
<1>. HIDE DEF k, t
<1>2. k + 1 \in 1..n + 1 /\ t \in [1..k + 1 -> Nodes] /\ t[1] = w
  BY <1>0, <1>1
<1>3. ASSUME NEW i \in 1..k PROVE t[i + 1] \in Below(E, t[i])
  <2>1. CASE i = 1
    <3>1. t[i] = w /\ t[i + 1] = c
      BY <1>0, <1>1, <2>1
    <3>. QED  BY <3>1
  <2>2. CASE i # 1
    <3>1. t[i] = r[i - 1] /\ t[i + 1] = r[i] /\ i - 1 \in 1..k - 1 /\ (i - 1) + 1 = i
      BY <1>0, <1>1, <2>2
    <3>2. r[(i - 1) + 1] \in Below(E, r[i - 1])
      BY <1>1, <3>1
    <3>. QED  BY <3>1, <3>2
  <2>. QED  BY <2>1, <2>2
<1>4. t \in Routes(E, w, n + 1) /\ Len(t) = k + 1
  <2>1. n + 1 \in Nat /\ (k + 1) - 1 = k
    BY <1>1
  <2>2. \A i \in 1..k + 1 : i # k + 1 => i \in 1..k
    BY <1>1
  <2>3. IsRoute(E, w, t, k + 1)
    BY <1>2, <1>3, <2>2 DEF IsRoute
  <2>. QED  BY <1>2, <2>1, <2>3, RouteMade
<1>5. t[k + 1] = r[k]
  BY <1>0, <1>1
<1>6. ToSet(t) = {t[i] : i \in 1..k + 1}
  <2>1. n + 1 \in Nat
    OBVIOUS
  <2>. QED  BY <1>4, <2>1, RouteShape
<1>7. {t[i] : i \in 1..k + 1} = {w} \cup {r[i] : i \in 1..k}
  <2>1. ASSUME NEW x, x \in {t[i] : i \in 1..k + 1} PROVE x \in {w} \cup {r[i] : i \in 1..k}
    <3>1. PICK i \in 1..k + 1 : x = t[i]
      BY <2>1
    <3>2. i = 1 \/ (i - 1 \in 1..k /\ t[i] = r[i - 1])
      BY <1>0, <1>1
    <3>. QED  BY <1>2, <3>1, <3>2
  <2>2. ASSUME NEW x, x \in {w} \cup {r[i] : i \in 1..k} PROVE x \in {t[i] : i \in 1..k + 1}
    <3>1. CASE x = w
      BY <3>1, <1>2
    <3>2. ASSUME NEW i \in 1..k, x = r[i] PROVE x \in {t[j] : j \in 1..k + 1}
      <4>1. i + 1 \in 1..k + 1 /\ t[i + 1] = r[i]
        BY <1>0, <1>1
      <4>. QED  BY <4>1, <3>2
    <3>. QED  BY <2>2, <3>1, <3>2
  <2>. QED  BY <2>1, <2>2
<1>. QED  BY <1>1, <1>4, <1>5, <1>6, <1>7 DEF k, t, Last, LongerBy

Rest(r) == Tail(r)

\* The rest of a route after its first container.
LEMMA RouteRest ==
  ASSUME NEW E, NEW n, NEW w, NEW r, n \in Nat, r \in Routes(E, w, n + 1), Len(r) # 1
  PROVE  \E c \in Below(E, w) :
            c \in Nodes /\ Rest(r) \in Routes(E, c, n) /\ LongerBy(w, Rest(r), r)
<1>. DEFINE k == Len(r) - 1
            t == Rest(r)
<1>1. /\ k + 1 \in 1..n + 1 /\ r \in [1..k + 1 -> Nodes] /\ r[1] = w
      /\ ToSet(r) = {r[i] : i \in 1..k + 1} /\ Len(r) = k + 1
      /\ \A i \in 1..k : r[i + 1] \in Below(E, r[i])
  <2>1. n + 1 \in Nat
    OBVIOUS
  <2>2. Len(r) \in 1..n + 1 /\ r \in [1..Len(r) -> Nodes] /\ r[1] = w
        /\ ToSet(r) = {r[i] : i \in 1..Len(r)}
        /\ \A i \in 1..Len(r) - 1 : r[i + 1] \in Below(E, r[i])
    BY <2>1, RouteShape
  <2>3. Len(r) = k + 1
    BY <2>2
  <2>. QED  BY <2>2, <2>3
<1>2. k \in 1..n
  BY <1>1
<1>0. t \in Seq(Nodes) /\ Len(t) = k /\ \A i \in 1..k : t[i] = r[i + 1]
  <2>1. r \in Seq(Nodes) /\ Len(r) > 0 /\ t = Tail(r)
    BY <1>1, <1>2 DEF Rest
  <2>. HIDE DEF t
  <2>. QED  BY <2>1
<1>. HIDE DEF k, t
<1>3. PICK c \in Below(E, w) : c = r[2]
  <2>1. 1 \in 1..k /\ 1 + 1 = 2
    BY <1>2
  <2>. QED  BY <1>1, <2>1
<1>4. t \in [1..k -> Nodes] /\ t[1] = c
  BY <1>0, <1>2, <1>3
<1>5. ASSUME NEW i \in 1..k - 1 PROVE t[i + 1] \in Below(E, t[i])
  <2>1. t[i] = r[i + 1] /\ t[i + 1] = r[(i + 1) + 1] /\ i + 1 \in 1..k
    BY <1>0, <1>2
  <2>. QED  BY <1>1, <2>1
<1>6. t[k] = r[k + 1]
  BY <1>0, <1>2
<1>7. {r[i] : i \in 1..k + 1} = {w} \cup {t[i] : i \in 1..k}
  <2>1. ASSUME NEW x, x \in {r[i] : i \in 1..k + 1} PROVE x \in {w} \cup {t[i] : i \in 1..k}
    <3>1. PICK i \in 1..k + 1 : x = r[i]
      BY <2>1
    <3>2. CASE i = 1
      BY <1>1, <3>1, <3>2
    <3>3. CASE i # 1
      <4>1. i - 1 \in 1..k /\ t[i - 1] = r[i]
        BY <1>0, <1>2, <3>3
      <4>. QED  BY <3>1, <4>1
    <3>. QED  BY <3>2, <3>3
  <2>2. ASSUME NEW x, x \in {w} \cup {t[i] : i \in 1..k} PROVE x \in {r[i] : i \in 1..k + 1}
    <3>1. CASE x = w
      BY <3>1, <1>1, <1>2
    <3>2. ASSUME NEW i \in 1..k, x = t[i] PROVE x \in {r[j] : j \in 1..k + 1}
      <4>1. i + 1 \in 1..k + 1 /\ t[i] = r[i + 1]
        BY <1>0, <1>2
      <4>. QED  BY <4>1, <3>2
    <3>. QED  BY <2>2, <3>1, <3>2
  <2>. QED  BY <2>1, <2>2
<1>8. t \in Routes(E, c, n) /\ Len(t) = k
  <2>1. \A i \in 1..k : i # k => i \in 1..k - 1
    BY <1>2
  <2>2. IsRoute(E, c, t, k)
    BY <1>4, <1>5, <2>1 DEF IsRoute
  <2>. QED  BY <1>2, <2>2, RouteMade
<1>9. c \in Nodes /\ ToSet(t) = {t[i] : i \in 1..k}
  BY <1>8, RouteShape
<1>. QED  BY <1>1, <1>3, <1>6, <1>7, <1>8, <1>9 DEF t, Last, LongerBy

Alone(w) == <<w>>

LEMMA RouteOne ==
  ASSUME NEW E, NEW n \in Nat \ {0}, NEW w \in Nodes
  PROVE  LET r == Alone(w)
         IN  r \in Routes(E, w, n) /\ Len(r) = 1 /\ Last(r) = w /\ ToSet(r) = {w}
<1>. DEFINE r == Alone(w)
<1>1. r \in [1..1 -> Nodes] /\ r[1] = w /\ 1 \in 1..n /\ n \in Nat
  BY DEF Alone
<1>. HIDE DEF r
<1>2. r \in Routes(E, w, n) /\ Len(r) = 1
  <2>1. \A i \in 1..1 : i # 1 => r[i + 1] \in Below(E, r[i])
    OBVIOUS
  <2>2. IsRoute(E, w, r, 1)
    BY <1>1, <2>1 DEF IsRoute
  <2>. QED  BY <1>1, <2>2, RouteMade
<1>3. ToSet(r) = {r[i] : i \in 1..Len(r)}
  BY <1>1, <1>2, RouteShape
<1>4. ToSet(r) = {w}
  BY <1>1, <1>2, <1>3
<1>. QED  BY <1>1, <1>2, <1>4 DEF r, Last

LEMMA NowhereElse ==
  ASSUME NEW E, NEW v, NEW n \in Nat, v \notin Nodes
  PROVE  Reached(E, v, n) = {v} /\ Routes(E, v, n) = {}
<1>1. Routes(E, v, n) = {}
  BY RouteShape
<1>. QED  BY <1>1 DEF Reached

LEMMA ReachedFrom ==
  ASSUME NEW E, NEW n \in Nat, NEW w \in Nodes, NEW x
  PROVE  x \in Reached(E, w, n) <=>
           \E r \in Routes(E, w, n) : x \in Below(E, Last(r))
BY DEF Reached, Below

\* What a container leads to is in it, or what a container in it leads to.
LEMMA ReachedNext ==
  ASSUME NEW E, NEW n \in Nat, NEW w \in Nodes, NEW x
  PROVE  x \in Reached(E, w, n + 1) <=>
           \/ x \in Below(E, w)
           \/ \E c \in Below(E, w) : c \in Nodes /\ x \in Reached(E, c, n)
<1>. n + 1 \in Nat /\ n + 1 \in Nat \ {0}
  OBVIOUS
<1>1. ASSUME NEW r \in Routes(E, w, n + 1), x \in Below(E, Last(r))
      PROVE  x \in Below(E, w) \/ \E c \in Below(E, w) : c \in Nodes /\ x \in Reached(E, c, n)
  <2>1. CASE Len(r) = 1
    <3>1. Last(r) = w
      BY <2>1, RouteShape
    <3>. QED  BY <1>1, <3>1
  <2>2. CASE Len(r) # 1
    <3>1. PICK c \in Below(E, w) :
            c \in Nodes /\ Rest(r) \in Routes(E, c, n) /\ LongerBy(w, Rest(r), r)
      BY <2>2, RouteRest
    <3>2. x \in Reached(E, c, n)
      BY <1>1, <3>1, ReachedFrom DEF LongerBy
    <3>. QED  BY <3>1, <3>2
  <2>. QED  BY <2>1, <2>2
<1>2. ASSUME x \in Below(E, w) PROVE x \in Reached(E, w, n + 1)
  <2>1. Alone(w) \in Routes(E, w, n + 1) /\ Last(Alone(w)) = w
    BY RouteOne
  <2>. QED  BY <1>2, <2>1, ReachedFrom
<1>3. ASSUME NEW c \in Below(E, w), c \in Nodes, x \in Reached(E, c, n)
      PROVE  x \in Reached(E, w, n + 1)
  <2>1. PICK r \in Routes(E, c, n) : x \in Below(E, Last(r))
    BY <1>3, ReachedFrom
  <2>2. Cons(w, r) \in Routes(E, w, n + 1) /\ LongerBy(w, r, Cons(w, r))
    BY <1>3, RouteLonger
  <2>3. Last(Cons(w, r)) = Last(r)
    BY <2>2 DEF LongerBy
  <2>. QED  BY <2>1, <2>2, <2>3, ReachedFrom
<1>. QED  BY <1>1, <1>2, <1>3, ReachedFrom

\* Within, when some containers have been entered already.
Clear(E, v, n, seen) ==
    \A r \in Routes(E, v, n) : \A c \in Below(E, Last(r)) :
        Len(r) < n /\ c \notin ToSet(r) \cup seen

LEMMA WithinIsClear ==
  ASSUME NEW E, NEW v, NEW b \in Nat
  PROVE  Within(E, v, b) <=> Clear(E, v, b + 1, {})
<1>1. \A r \in Routes(E, v, b + 1) : Len(r) < b + 1 <=> Len(r) <= b
  <2>1. TAKE r \in Routes(E, v, b + 1)
  <2>2. b + 1 \in Nat
    OBVIOUS
  <2>3. Len(r) \in Nat
    BY <2>2, RouteShape
  <2>. QED  BY <2>3
<1>. QED  BY <1>1 DEF Within, Clear, Below

LEMMA ClearInside ==
  ASSUME NEW E, NEW w \in Nodes, NEW n \in Nat, NEW seen, Clear(E, w, n + 1, seen), NEW c \in Below(E, w)
  PROVE  n > 0 /\ c \notin seen \cup {w} /\ Clear(E, c, n, seen \cup {w})
<1>. n + 1 \in Nat \ {0}
  OBVIOUS
<1>1. n > 0 /\ c \notin seen \cup {w}
  <2>. DEFINE r == Alone(w)
  <2>1. r \in Routes(E, w, n + 1) /\ Len(r) = 1 /\ Last(r) = w /\ ToSet(r) = {w}
    BY RouteOne
  <2>. HIDE DEF r
  <2>2. c \in Below(E, Last(r))
    BY <2>1
  <2>3. Len(r) < n + 1 /\ c \notin ToSet(r) \cup seen
    BY <2>1, <2>2 DEF Clear
  <2>. QED  BY <2>1, <2>3
<1>2. ASSUME NEW r \in Routes(E, c, n), NEW f \in Below(E, Last(r))
      PROVE  Len(r) < n /\ f \notin ToSet(r) \cup (seen \cup {w})
  <2>. DEFINE t == Cons(w, r)
  <2>1. Len(r) \in Nat
    BY RouteShape
  <2>2. t \in Routes(E, w, n + 1) /\ LongerBy(w, r, t)
    BY RouteLonger
  <2>. HIDE DEF t
  <2>3. f \in Below(E, Last(t))
    BY <2>2 DEF LongerBy
  <2>4. Len(t) < n + 1 /\ f \notin ToSet(t) \cup seen
    BY <2>2, <2>3 DEF Clear
  <2>. QED  BY <2>1, <2>2, <2>4 DEF LongerBy
<1>. QED  BY <1>1, <1>2 DEF Clear

LEMMA ClearOutside ==
  ASSUME NEW E, NEW w \in Nodes, NEW n \in Nat, NEW seen,
         \A c \in Below(E, w) : n > 0 /\ c \notin seen \cup {w},
         \A c \in Below(E, w) : c \in Nodes => Clear(E, c, n, seen \cup {w})
  PROVE  Clear(E, w, n + 1, seen)
<1>. n + 1 \in Nat
  OBVIOUS
<1>1. ASSUME NEW r \in Routes(E, w, n + 1), NEW f \in Below(E, Last(r))
      PROVE  Len(r) < n + 1 /\ f \notin ToSet(r) \cup seen
  <2>1. CASE Len(r) = 1
    <3>1. Last(r) = w /\ r[1] = w /\ ToSet(r) = {r[i] : i \in 1..Len(r)}
      BY <2>1, RouteShape
    <3>2. ToSet(r) = {w}
      BY <2>1, <3>1
    <3>. QED  BY <2>1, <3>1, <3>2
  <2>2. CASE Len(r) # 1
    <3>. DEFINE t == Rest(r)
    <3>1. PICK c \in Below(E, w) :
            c \in Nodes /\ t \in Routes(E, c, n) /\ LongerBy(w, t, r)
      BY <2>2, RouteRest
    <3>. HIDE DEF t
    <3>2. Clear(E, c, n, seen \cup {w})
      BY <3>1
    <3>3. f \in Below(E, Last(t))
      BY <3>1 DEF LongerBy
    <3>4. Len(t) < n /\ f \notin ToSet(t) \cup (seen \cup {w})
      BY <3>1, <3>2, <3>3 DEF Clear
    <3>5. Len(t) \in Nat
      BY <3>1, RouteShape
    <3>. QED  BY <3>1, <3>4, <3>5 DEF LongerBy
  <2>. QED  BY <2>1, <2>2
<1>. QED  BY <1>1 DEF Clear

-----------------------------------------------------------------------------
(* The recursions, level by level.                                         *)

\* One level of each recursion, given the level below.
RedactLevel(h, left, below) == [w \in Values |-> [seen \in SUBSET Nodes |->
    IF left = 0 THEN handleDepthLimit(h, w)
    ELSE IF w \notin Nodes THEN Cleaned(w)
    ELSE IF w \in seen THEN Leaf("[Circular]")
    ELSE redactTypedObject(h[w].kind, h[w].entries,
            [i \in 1..Len(h[w].entries) |-> below[h[w].entries[i].item][seen \cup {w}]],
            left - 1)]]

SortLevel(h, left, below) == [w \in Values |-> [ancestors \in SUBSET Nodes |->
    IF left = 0 THEN Refused
    ELSE IF w \notin Nodes THEN Leaf(IF Json(w) = "null" THEN "null" ELSE w)
    ELSE IF w \in ancestors THEN Refused
    ELSE dispatchContainer(h[w].kind, h[w].entries,
            [i \in 1..Len(h[w].entries) |-> below[h[w].entries[i].item][ancestors \cup {w}]])]]

SameLevel(h, left, below) == [a \in Values |-> [b \in Values |->
    IF a \in Nodes /\ b \in Nodes
    THEN /\ left > 0 /\ h[a].kind = h[b].kind
         /\ LET es == h[a].entries
                fs == h[b].entries
            IN  /\ Len(es) = Len(fs)
                /\ \A i \in 1..Len(es) :
                     IF h[a].kind = "array" THEN below[es[i].item][fs[i].item]
                     ELSE \E j \in 1..Len(fs) :
                            fs[j].key = es[i].key /\ below[es[i].item][fs[j].item]
    ELSE a \notin Nodes /\ b \notin Nodes /\ (a = b \/ {Json(a), Json(b)} = {"null"})]]

Level(which, h, left, below) ==
    CASE which = "redact" -> RedactLevel(h, left, below)
      [] which = "sort"   -> SortLevel(h, left, below)
      [] OTHER            -> SameLevel(h, left, below)

IsLevels(which, h, k, r) == r = [l \in 0..k |-> Level(which, h, l, r[l - 1])]

\* A level rests on the one below alone, so each recursion defines a function.
LEMMA LevelsExist ==
  ASSUME NEW which, NEW h
  PROVE  \A k \in Nat : \E r : IsLevels(which, h, k, r)
<1>. DEFINE S == {k \in Nat : \E r : r = [l \in 0..k |-> Level(which, h, l, r[l - 1])]}
<1>0. \A x : Level(which, h, 0, x) = Level(which, h, 0, <<>>)
  BY DEF Level, RedactLevel, SortLevel, SameLevel
<1>1. 0 \in S
  <2>. DEFINE r == [l \in 0..0 |-> Level(which, h, l, <<>>)]
  <2>1. \A l \in 0..0 : Level(which, h, l, r[l - 1]) = Level(which, h, l, <<>>)
    BY <1>0
  <2>2. r = [l \in 0..0 |-> Level(which, h, l, r[l - 1])]
    BY <2>1
  <2>. QED  BY <2>2
<1>2. ASSUME NEW k \in Nat, k \in S PROVE k + 1 \in S
  <2>1. PICK r : r = [l \in 0..k |-> Level(which, h, l, r[l - 1])]
    BY <1>2
  <2>. DEFINE t == [l \in 0..k + 1 |-> IF l = k + 1 THEN Level(which, h, k + 1, r[k]) ELSE r[l]]
  <2>2. ASSUME NEW l \in 0..k + 1 PROVE t[l] = Level(which, h, l, t[l - 1])
    <3>1. CASE l = k + 1
      <4>1. t[l - 1] = r[k] /\ t[l] = Level(which, h, k + 1, r[k])
        BY <3>1
      <4>. QED  BY <4>1, <3>1
    <3>2. CASE l = 0
      <4>1. t[l] = Level(which, h, 0, r[l - 1])
        BY <2>1, <3>2
      <4>. DEFINE x == r[l - 1]
                  y == t[l - 1]
      <4>2. Level(which, h, 0, x) = Level(which, h, 0, y)
        <5>. HIDE DEF x, y
        <5>. QED  BY <1>0
      <4>. QED  BY <4>1, <4>2, <3>2
    <3>3. CASE l \in 1..k
      <4>1. t[l] = Level(which, h, l, r[l - 1]) /\ t[l - 1] = r[l - 1]
        BY <2>1, <3>3
      <4>. QED  BY <4>1
    <3>. QED  BY <3>1, <3>2, <3>3
  <2>3. t = [l \in 0..k + 1 |-> Level(which, h, l, t[l - 1])]
    <3>. DEFINE G(l) == Level(which, h, l, t[l - 1])
                u == [l \in 0..k + 1 |-> t[l]]
    <3>1. t = u
      OBVIOUS
    <3>2. \A l \in 0..k + 1 : t[l] = G(l)
      BY <2>2
    <3>3. u = [l \in 0..k + 1 |-> G(l)]
      <4>. HIDE DEF G, t
      <4>. QED  BY <3>2
    <3>. QED  BY <3>1, <3>3
  <2>. HIDE DEF t
  <2>4. \E u : u = [l \in 0..k + 1 |-> Level(which, h, l, u[l - 1])]
    BY <2>3
  <2>. QED  BY <2>4
<1>. QED
  <2>. HIDE DEF S
  <2>1. \A k \in Nat : k \in S
    BY <1>1, <1>2, SetInduction
  <2>. QED  BY <2>1 DEF S, IsLevels

LEMMA RedactIs ==
  ASSUME NEW h, NEW v
  PROVE  \E r : /\ redactSensitiveFieldValues(h, v) = r[MaxRedaction + 1][v][{}]
                /\ \A l \in 0..MaxRedaction + 1 : r[l] = RedactLevel(h, l, r[l - 1])
<1>. DEFINE Is(r) == r = [left \in 0..MaxRedaction + 1 |-> RedactLevel(h, left, r[left - 1])]
            redact == CHOOSE r : Is(r)
<1>1. \E r : Is(r)
  <2>1. MaxRedaction + 1 \in Nat
    BY PayloadAssumption
  <2>2. PICK r : IsLevels("redact", h, MaxRedaction + 1, r)
    BY <2>1, LevelsExist
  <2>3. \A l, x : Level("redact", h, l, x) = RedactLevel(h, l, x)
    BY DEF Level
  <2>4. r = [l \in 0..MaxRedaction + 1 |-> RedactLevel(h, l, r[l - 1])]
    BY <2>2, <2>3 DEF IsLevels
  <2>. QED  BY <2>4
<1>2. Is(redact)
  <2>. HIDE DEF Is
  <2>. QED  BY <1>1
<1>3. redactSensitiveFieldValues(h, v) = redact[MaxRedaction + 1][v][{}]
  BY DEF redactSensitiveFieldValues, RedactLevel
<1>4. \A l \in 0..MaxRedaction + 1 : redact[l] = RedactLevel(h, l, redact[l - 1])
  BY <1>2
<1>. HIDE DEF redact
<1>. QED  BY <1>3, <1>4
SortsBy(h, r) == \A l \in 0..MaxNesting + 1 : r[l] = SortLevel(h, l, r[l - 1])

\* Every level of one recursion serves both values.
LEMMA SortServes ==
  ASSUME NEW h
  PROVE  \E r : SortsBy(h, r) /\ \A v \in Values : sortKeysDeep(h, v) = r[MaxNesting + 1][v][{}]
<1>. DEFINE Is(r) == r = [left \in 0..MaxNesting + 1 |-> SortLevel(h, left, r[left - 1])]
            sort == CHOOSE r : Is(r)
<1>1. \E r : Is(r)
  <2>1. MaxNesting + 1 \in Nat
    BY PayloadAssumption
  <2>2. PICK r : IsLevels("sort", h, MaxNesting + 1, r)
    BY <2>1, LevelsExist
  <2>3. \A l, x : Level("sort", h, l, x) = SortLevel(h, l, x)
    BY DEF Level
  <2>4. r = [l \in 0..MaxNesting + 1 |-> SortLevel(h, l, r[l - 1])]
    BY <2>2, <2>3 DEF IsLevels
  <2>. QED  BY <2>4
<1>2. Is(sort)
  <2>. HIDE DEF Is
  <2>. QED  BY <1>1
<1>3. \A v \in Values : sortKeysDeep(h, v) = sort[MaxNesting + 1][v][{}]
  BY DEF sortKeysDeep, SortLevel
<1>4. SortsBy(h, sort)
  BY <1>2 DEF SortsBy
<1>. HIDE DEF sort
<1>. QED  BY <1>3, <1>4

LEMMA SameIs ==
  ASSUME NEW h, NEW v, NEW w
  PROVE  \E r : /\ Same(h, v, w) = r[MaxNesting + 1][v][w]
                /\ \A l \in 0..MaxNesting + 1 : r[l] = SameLevel(h, l, r[l - 1])
<1>. DEFINE Is(r) == r = [left \in 0..MaxNesting + 1 |-> SameLevel(h, left, r[left - 1])]
            same == CHOOSE r : Is(r)
<1>1. \E r : Is(r)
  <2>1. MaxNesting + 1 \in Nat
    BY PayloadAssumption
  <2>2. PICK r : IsLevels("same", h, MaxNesting + 1, r)
    BY <2>1, LevelsExist
  <2>3. \A l, x : Level("same", h, l, x) = SameLevel(h, l, x)
    BY DEF Level
  <2>4. r = [l \in 0..MaxNesting + 1 |-> SameLevel(h, l, r[l - 1])]
    BY <2>2, <2>3 DEF IsLevels
  <2>. QED  BY <2>4
<1>2. Is(same)
  <2>. HIDE DEF Is
  <2>. QED  BY <1>1
<1>3. Same(h, v, w) = same[MaxNesting + 1][v][w]
  BY DEF Same, SameLevel
<1>4. \A l \in 0..MaxNesting + 1 : same[l] = SameLevel(h, l, same[l - 1])
  BY <1>2
<1>. HIDE DEF same
<1>. QED  BY <1>3, <1>4

-----------------------------------------------------------------------------
(* Redaction hides what stands below a sensitive name and nothing else,    *)
(* in every heap, however deep and whatever it shares.                     *)
(*                                                                         *)
(* The argument goes by the levels that are left (RedactExact).  A         *)
(* container shows what those entries become that are walked, and of itself *)
(* no text (TypedShows); a walked entry is one that an open way goes on    *)
(* through, or null.  What is cut shows only a mark, and nothing is cut    *)
(* unless a way comes back to a container or is too long (ClearInside).    *)

Kinds == {"object", "array", "map"}

\* What is in one container.
Box(b) == b.kind \in Kinds /\ b.entries \in Entries /\ (b.kind # "array" => Fields(b.entries))

LEMMA HeapsHoldBoxes ==
  ASSUME NEW h \in Heaps, NEW w \in Nodes
  PROVE  Box(h[w])
<1>1. h[w] \in [kind : Kinds, entries : Entries]
  BY DEF Heaps, Kinds
<1>2. \A i, j \in 1..Len(h[w].entries) :
         h[w].kind # "array" /\ i # j => h[w].entries[i].key # h[w].entries[j].key
  BY DEF Heaps
<1>. HIDE DEF Entries
<1>. QED  BY <1>1, <1>2 DEF Box, Fields

LEMMA EntriesAre ==
  ASSUME NEW es \in Entries
  PROVE  /\ Len(es) \in Nat /\ es = [i \in 1..Len(es) |-> es[i]]
         /\ \A i \in 1..Len(es) : es[i].key \in Names /\ es[i].item \in Values
         /\ ToSet(es) = {es[i] : i \in 1..Len(es)}
<1>1. es \in Seq(Entry)
  BY DEF Entries, Entry
<1>2. \A i \in 1..Len(es) : es[i] \in Entry
  BY <1>1
<1>3. \A i \in 1..Len(es) : es[i].key \in Names /\ es[i].item \in Values
  BY <1>2 DEF Entry
<1>. QED  BY <1>1, <1>3 DEF ToSet

LEMMA PairIs ==
  ASSUME NEW k, NEW v, IsTree(k), IsTree(v)
  PROVE  IsTree(Pair(k, v)) /\ Shown(Pair(k, v)) = {""} \cup Shown(k) \cup Shown(v)
<1>. DEFINE items == <<k, v>>
<1>1. TreeList(items, 2) /\ items[1] = k /\ items[2] = v
  BY DEF TreeList
<1>2. Pair(k, v) = List(items)
  BY DEF Pair
<1>. HIDE DEF items
<1>3. IsTree(List(items)) /\ Shown(List(items)) = {""} \cup UNION {Shown(items[i]) : i \in 1..2}
  BY <1>1, ListIs
<1>4. UNION {Shown(items[i]) : i \in 1..2} = Shown(k) \cup Shown(v)
  BY <1>1
<1>. QED  BY <1>2, <1>3, <1>4

\* Which entries become what their item becomes.
Walked(kind, e) == kind = "array" \/ ~IsWithheld(e)

\* What is neither a text of the value nor a mark of it.
PlainValues == Names \cup {"", "[REDACTED]"}

\* A name that came too deep.
Cut(es, left) == IF left = 0 /\ Len(es) # 0 THEN {"[Too deep]"} ELSE {}

\* T shows what the entries walked show, and nothing else but what is plain or
\* cut.
ShowsWalked(T, kind, es, items, left) ==
    /\ IsTree(T)
    /\ \A i \in 1..Len(es) : Walked(kind, es[i]) => Shown(items[i]) \subseteq Shown(T)
    /\ \A x \in Shown(T) : x \in PlainValues \cup Cut(es, left) \/ \E i \in 1..Len(es) : Walked(kind, es[i]) /\ x \in Shown(items[i])

LEMMA WithheldIs == IsTree(Withheld) /\ Shown(Withheld) = {"[REDACTED]"}
BY LeafIs DEF Withheld

LEMMA TypedShows ==
  ASSUME NEW b, NEW items, NEW left, Box(b), TreeList(items, Len(b.entries))
  PROVE  ShowsWalked(redactTypedObject(b.kind, b.entries, items, left), b.kind, b.entries, items, left)
<1>. DEFINE es == b.entries
            n == Len(es)
            kind == b.kind
            T == redactTypedObject(kind, es, items, left)
<1>. HIDE DEF n, T, es, kind
<1>1. /\ n \in Nat /\ kind \in Kinds /\ (kind # "array" => Fields(es))
      /\ \A i \in 1..n : es[i].key \in Names
      /\ \A i \in 1..n : IsTree(items[i])
      /\ TreeList(items, n) /\ n = Len(es)
  BY EntriesAre DEF Box, n, TreeList, es, kind
<1>. SUFFICES ShowsWalked(T, kind, es, items, left)
  BY DEF T, kind, es
<1>2. CASE kind = "array"
  <2>1. T = List(items)
    BY <1>2 DEF T, redactTypedObject
  <2>2. IsTree(T) /\ Shown(T) = {""} \cup UNION {Shown(items[i]) : i \in 1..n}
    BY <1>1, <2>1, ListIs
  <2>. QED  BY <1>1, <1>2, <2>2 DEF ShowsWalked, Walked, PlainValues
<1>3. CASE kind = "object"
  <2>. DEFINE kept == [i \in 1..n |-> IF IsWithheld(es[i]) THEN Withheld ELSE items[i]]
  <2>1. T = Record(Keys(es), es, kept)
    BY <1>1, <1>3 DEF T, redactTypedObject, redactObject
  <2>2. \A i \in 1..n : kept[i] = IF IsWithheld(es[i]) THEN Withheld ELSE items[i]
    OBVIOUS
  <2>3. TreeList(kept, n)
    BY <1>1, WithheldIs DEF TreeList
  <2>. HIDE DEF kept
  <2>4. IsTree(T) /\ Shown(T) = {""} \cup UNION {Shown(kept[i]) : i \in 1..n}
    BY <1>1, <1>3, <2>1, <2>3, RecordIs
  <2>5. \A i \in 1..n : Shown(kept[i]) = IF IsWithheld(es[i]) THEN {"[REDACTED]"} ELSE Shown(items[i])
    BY <2>2, WithheldIs
  <2>6. \A i \in 1..n : Walked(kind, es[i]) => Shown(items[i]) \subseteq Shown(T)
    BY <1>3, <2>4, <2>5 DEF Walked
  <2>7. ASSUME NEW x \in Shown(T)
        PROVE  x \in PlainValues \cup Cut(es, left) \/ \E i \in 1..n : Walked(kind, es[i]) /\ x \in Shown(items[i])
    <3>1. CASE x = ""
      BY <3>1 DEF PlainValues
    <3>2. ASSUME NEW i \in 1..n, x \in Shown(kept[i])
          PROVE  x \in PlainValues \cup Cut(es, left) \/ (Walked(kind, es[i]) /\ x \in Shown(items[i]))
      BY <3>2, <2>5 DEF PlainValues, Walked
    <3>. QED  BY <2>4, <3>1, <3>2
  <2>. QED  BY <1>1, <2>4, <2>6, <2>7 DEF ShowsWalked
<1>4. CASE kind = "map"
  <2>. DEFINE kept == [i \in 1..n |-> IF IsWithheld(es[i]) THEN Withheld ELSE items[i]]
              pairs == [i \in 1..n |-> Pair(KeyTree(es[i], left), kept[i])]
  <2>1. T = List(pairs)
    BY <1>1, <1>4 DEF T, redactTypedObject, redactMap
  <2>2. \A i \in 1..n : IsTree(kept[i]) /\ Shown(kept[i]) =
                          IF IsWithheld(es[i]) THEN {"[REDACTED]"} ELSE Shown(items[i])
    BY <1>1, WithheldIs
  <2>10. ASSUME NEW i \in 1..n PROVE IsTree(KeyTree(es[i], left)) /\ Shown(KeyTree(es[i], left)) \subseteq PlainValues \cup Cut(es, left)
    <3>1. CASE es[i].key \in Sensitive
      BY <3>1, WithheldIs DEF KeyTree, PlainValues
    <3>3. CASE es[i].key \notin Sensitive /\ left = 0
      <4>1. KeyTree(es[i], left) = Leaf("[Too deep]") /\ "[Too deep]" \in Cut(es, left)
        BY <1>1, <3>3 DEF KeyTree, TooDeep, Cut
      <4>2. IsTree(Leaf("[Too deep]")) /\ Shown(Leaf("[Too deep]")) = {"[Too deep]"}
        BY LeafIs
      <4>. QED  BY <4>1, <4>2
    <3>2. CASE es[i].key \notin Sensitive /\ left # 0
      <4>. DEFINE k == es[i].key
      <4>1. KeyTree(es[i], left) = Leaf(k) /\ k \in Names
        BY <3>2, <1>1 DEF KeyTree
      <4>. HIDE DEF k
      <4>2. IsTree(Leaf(k)) /\ Shown(Leaf(k)) = {k}
        BY LeafIs
      <4>. QED  BY <4>1, <4>2 DEF PlainValues
    <3>. QED  BY <3>1, <3>2, <3>3
  <2>3. \A i \in 1..n : IsTree(KeyTree(es[i], left)) /\ Shown(KeyTree(es[i], left)) \subseteq PlainValues \cup Cut(es, left)
    BY <1>1, <2>10
  <2>. HIDE DEF kept
  <2>4. \A i \in 1..n : pairs[i] = Pair(KeyTree(es[i], left), kept[i])
    OBVIOUS
  <2>5. \A i \in 1..n : IsTree(pairs[i])
                        /\ Shown(pairs[i]) = {""} \cup Shown(KeyTree(es[i], left)) \cup Shown(kept[i])
    BY <2>2, <2>3, <2>4, PairIs
  <2>6. TreeList(pairs, n)
    BY <2>5 DEF TreeList
  <2>. HIDE DEF pairs
  <2>7. IsTree(T) /\ Shown(T) = {""} \cup UNION {Shown(pairs[i]) : i \in 1..n}
    BY <1>1, <2>1, <2>6, ListIs
  <2>8. ASSUME NEW x \in Shown(T)
        PROVE  x \in PlainValues \cup Cut(es, left) \/ \E i \in 1..n : Walked(kind, es[i]) /\ x \in Shown(items[i])
    <3>1. CASE x = ""
      BY <3>1 DEF PlainValues
    <3>2. ASSUME NEW i \in 1..n, x \in Shown(pairs[i])
          PROVE  x \in PlainValues \cup Cut(es, left) \/ (Walked(kind, es[i]) /\ x \in Shown(items[i]))
      <4>1. x = "" \/ x \in Shown(KeyTree(es[i], left)) \/ x \in Shown(kept[i])
        BY <2>5, <3>2
      <4>. QED  BY <4>1, <2>2, <2>3, <3>2 DEF Walked, PlainValues
    <3>. QED  BY <2>7, <3>1, <3>2
  <2>9. \A i \in 1..n : Walked(kind, es[i]) => Shown(items[i]) \subseteq Shown(T)
    BY <1>4, <2>2, <2>5, <2>7 DEF Walked
  <2>. QED  BY <1>1, <2>7, <2>8, <2>9 DEF ShowsWalked
<1>. QED  BY <1>1, <1>2, <1>3, <1>4 DEF Kinds

\* redact, as a family of levels.
RedactsBy(h, r) == \A l \in 0..MaxRedaction + 1 : r[l] = RedactLevel(h, l, r[l - 1])

\* What the entries of a container become, one level further down.
ItemsBelow(b, f, seen) == [i \in 1..Len(b.entries) |-> f[b.entries[i].item][seen]]

\* A text that stands below no sensitive name, and that a bound lets through.
OpenTexts(h, w, n) == Reached(Open(h), w, n) \cap Texts

\* What a value becomes shows only open texts; and all of them, unless it was
\* cut.
Exact(t, h, w, n, seen) ==
    /\ IsTree(t)
    /\ Shown(t) \cap (Texts \cup {Secret}) \subseteq OpenTexts(h, w, n)
    /\ n > 0 /\ w \notin seen /\ Clear(Every(h), w, n, seen) =>
         OpenTexts(h, w, n) \subseteq Shown(t) /\ Shown(t) \cap {"[Circular]", "[Too deep]"} = {}

LEMMA PlainHidesTexts ==
  PlainValues \cap (Texts \cup Marks \cup {Secret}) \subseteq {"[REDACTED]"}
BY PayloadAssumption DEF PlainValues, Texts, Marks, Secret

LEMMA OpenBelow ==
  ASSUME NEW h \in Heaps, NEW w \in Nodes, NEW c
  PROVE  /\ c \in Below(Every(h), w) <=>
              \E i \in 1..Len(h[w].entries) : c = h[w].entries[i].item
         /\ c \in Below(Open(h), w) <=>
              \E i \in 1..Len(h[w].entries) :
                 /\ c = h[w].entries[i].item
                 /\ h[w].kind = "array" \/ h[w].entries[i].key \notin Sensitive
<1>1. ToSet(h[w].entries) = {h[w].entries[i] : i \in 1..Len(h[w].entries)}
  BY DEF ToSet
<1>2. Every(h)[w] = ToSet(h[w].entries)
  BY DEF Every
<1>3. Open(h)[w] = {e \in ToSet(h[w].entries) : h[w].kind = "array" \/ e.key \notin Sensitive}
  BY DEF Open
<1>. QED  BY <1>1, <1>2, <1>3 DEF Below

LEMMA DepthLimitShows ==
  ASSUME NEW h \in Heaps, NEW w \in Values
  PROVE  /\ IsTree(handleDepthLimit(h, w))
         /\ Shown(handleDepthLimit(h, w)) \cap (Texts \cup {Secret}) = {}
<1>. DEFINE Dull == {"", "[REDACTED]", "[Too deep]"}
<1>1. Dull \cap (Texts \cup {Secret}) = {}
  BY DEF Texts, Secret
<1>2. IsTree(TooDeep) /\ Shown(TooDeep) = {"[Too deep]"}
  BY LeafIs DEF TooDeep
<1>3. \A e : IsTree(Capped(e)) /\ Shown(Capped(e)) \subseteq Dull
  BY <1>2, WithheldIs DEF Capped
<1>4. SUFFICES IsTree(handleDepthLimit(h, w)) /\ Shown(handleDepthLimit(h, w)) \subseteq Dull
  BY <1>1
<1>7. "" \in Dull /\ Shown(TooDeep) \subseteq Dull
  BY <1>2
<1>. HIDE DEF Dull
<1>5. CASE w \notin Nodes
  BY <1>2, <1>7, <1>5 DEF handleDepthLimit
<1>6. CASE w \in Nodes
  <2>. DEFINE es == h[w].entries
              kind == h[w].kind
              n == Len(es)
  <2>1. n \in Nat /\ kind \in Kinds /\ (kind # "array" => Fields(es))
    BY <1>6, HeapsHoldBoxes, EntriesAre DEF Box
  <2>2. CASE kind = "object"
    <3>. DEFINE items == [i \in 1..n |-> Capped(es[i])]
    <3>1. handleDepthLimit(h, w) = Record(Keys(es), es, items)
      BY <1>6, <2>2 DEF handleDepthLimit
    <3>2. TreeList(items, n) /\ \A i \in 1..n : Shown(items[i]) \subseteq Dull
      BY <1>3 DEF TreeList
    <3>. HIDE DEF items, es, kind
    <3>3. IsTree(Record(Keys(es), es, items))
          /\ Shown(Record(Keys(es), es, items)) = {""} \cup UNION {Shown(items[i]) : i \in 1..Len(es)}
      BY <2>1, <2>2, <3>2, RecordIs
    <3>5. UNION {Shown(items[i]) : i \in 1..Len(es)} \subseteq Dull
      BY <3>2
    <3>. QED  BY <1>7, <3>1, <3>3, <3>5
  <2>3. CASE kind = "map"
    <3>. DEFINE items == [i \in 1..n |-> Pair(Capped(es[i]), TooDeep)]
    <3>1. handleDepthLimit(h, w) = List(items)
      BY <1>6, <2>3 DEF handleDepthLimit
    <3>2. \A i \in 1..n : IsTree(items[i]) /\ Shown(items[i]) \subseteq Dull
      <4>1. TAKE i \in 1..n
      <4>2. items[i] = Pair(Capped(es[i]), TooDeep)
        OBVIOUS
      <4>. DEFINE c == Capped(es[i])
      <4>3. IsTree(c) /\ Shown(c) \subseteq Dull
        BY <1>3
      <4>. HIDE DEF c, items
      <4>4. IsTree(Pair(c, TooDeep)) /\ Shown(Pair(c, TooDeep)) = {""} \cup Shown(c) \cup Shown(TooDeep)
        BY <1>2, <4>3, PairIs
      <4>. QED  BY <1>7, <4>2, <4>3, <4>4 DEF c
    <3>3. TreeList(items, n)
      BY <3>2 DEF TreeList
    <3>. HIDE DEF items, n
    <3>4. IsTree(List(items)) /\ Shown(List(items)) = {""} \cup UNION {Shown(items[i]) : i \in 1..n}
      BY <2>1, <3>3, ListIs
    <3>5. UNION {Shown(items[i]) : i \in 1..n} \subseteq Dull
      BY <3>2
    <3>. QED  BY <1>7, <3>1, <3>4, <3>5
  <2>4. CASE kind = "array"
    <3>. DEFINE items == [i \in 1..n |-> TooDeep]
    <3>1. handleDepthLimit(h, w) = List(items)
      BY <1>6, <2>4 DEF handleDepthLimit
    <3>2. TreeList(items, n) /\ \A i \in 1..n : Shown(items[i]) \subseteq Dull
      BY <1>2, <1>7 DEF TreeList
    <3>. HIDE DEF items, n
    <3>3. IsTree(List(items)) /\ Shown(List(items)) = {""} \cup UNION {Shown(items[i]) : i \in 1..n}
      BY <2>1, <3>2, ListIs
    <3>5. UNION {Shown(items[i]) : i \in 1..n} \subseteq Dull
      BY <3>2
    <3>. QED  BY <1>7, <3>1, <3>3, <3>5
  <2>. QED  BY <2>1, <2>2, <2>3, <2>4 DEF Kinds
<1>. QED  BY <1>5, <1>6

LEMMA CleanedExact ==
  ASSUME NEW h, NEW w \in Values \ Nodes, NEW n \in Nat, NEW seen
  PROVE  Exact(Cleaned(w), h, w, n, seen)
<1>1. w \in Leaves
  BY DEF Values
<1>2. OpenTexts(h, w, n) = {w} \cap Texts
  BY NowhereElse DEF OpenTexts
<1>3. CASE w = Secret
  <2>1. Cleaned(w) = Withheld
    BY <1>3 DEF Cleaned
  <2>. QED  BY <1>2, <1>3, <2>1, WithheldIs DEF Exact, Texts, Secret
<1>4. CASE w # Secret
  <2>1. Cleaned(w) = Leaf(w)
    BY <1>4 DEF Cleaned
  <2>2. IsTree(Leaf(w)) /\ Shown(Leaf(w)) = {w}
    BY LeafIs
  <2>. QED  BY <1>1, <1>2, <1>4, <2>1, <2>2 DEF Exact, Leaves, Absent, Texts, Secret
<1>. QED  BY <1>3, <1>4

LEMMA DepthLimitExact ==
  ASSUME NEW h \in Heaps, NEW w \in Values, NEW seen
  PROVE  Exact(handleDepthLimit(h, w), h, w, 0, seen)
BY DepthLimitShows DEF Exact

LEMMA CircularExact ==
  ASSUME NEW h, NEW w \in Nodes, NEW n \in Nat, NEW seen, w \in seen
  PROVE  Exact(Leaf("[Circular]"), h, w, n, seen)
<1>1. IsTree(Leaf("[Circular]")) /\ Shown(Leaf("[Circular]")) = {"[Circular]"}
  BY LeafIs
<1>. QED  BY <1>1 DEF Exact, Texts, Secret

\* One container: what holds of its items holds of it.
LEMMA ContainerExact ==
  ASSUME NEW h \in Heaps, NEW w \in Nodes, NEW n \in Nat, NEW seen \in SUBSET Nodes,
         w \notin seen, NEW items, items = [i \in 1..Len(h[w].entries) |-> items[i]],
         \A i \in 1..Len(h[w].entries) :
            Exact(items[i], h, h[w].entries[i].item, n, seen \cup {w})
  PROVE  Exact(redactTypedObject(h[w].kind, h[w].entries, items, n), h, w, n + 1, seen)
<1>. DEFINE b == h[w]
            es == b.entries
            kind == b.kind
            T == redactTypedObject(kind, es, items, n)
            I == 1..Len(es)
<1>1. Box(b) /\ TreeList(items, Len(es)) /\ \A i \in I : es[i].item \in Values
  BY HeapsHoldBoxes, EntriesAre DEF TreeList, Exact, Box
<1>2. ShowsWalked(T, kind, es, items, n)
  BY <1>1, TypedShows
<1>. HIDE DEF b, T
<1>3. ASSUME NEW i \in I, Walked(kind, es[i]), Shown(items[i]) \cap (Texts \cup {Secret}) # {}
      PROVE  kind = "array" \/ es[i].key \notin Sensitive
  <2>. DEFINE c == es[i].item
  <2>1. SUFFICES ASSUME c \in Absent PROVE FALSE
    BY <1>3 DEF Walked, IsWithheld
  <2>2. c \notin Nodes
    BY <2>1, PayloadAssumption DEF Leaves
  <2>3. Shown(items[i]) \cap (Texts \cup {Secret}) \subseteq OpenTexts(h, c, n)
    BY DEF Exact, b
  <2>4. OpenTexts(h, c, n) = {c} \cap Texts
    BY <2>2, NowhereElse DEF OpenTexts
  <2>. QED  BY <1>3, <2>1, <2>3, <2>4 DEF Absent, Texts
<1>4. ASSUME NEW x \in Shown(T), x \in Texts \cup {Secret} PROVE x \in OpenTexts(h, w, n + 1)
  <2>1. PICK i \in I : Walked(kind, es[i]) /\ x \in Shown(items[i])
    BY <1>2, <1>4, PlainHidesTexts DEF ShowsWalked, Texts, Secret, Cut
  <2>. DEFINE c == es[i].item
  <2>2. x \in OpenTexts(h, c, n)
    BY <1>4, <2>1 DEF Exact, b
  <2>3. c \in Below(Open(h), w)
    BY <1>3, <1>4, <2>1, OpenBelow DEF b
  <2>4. x \in Reached(Open(h), c, n) /\ x \in Texts
    BY <2>2 DEF OpenTexts
  <2>5. x \in Reached(Open(h), w, n + 1)
    <3>1. CASE c \in Nodes
      BY <2>3, <2>4, <3>1, ReachedNext
    <3>2. CASE c \notin Nodes
      <4>1. x = c
        BY <2>4, <3>2, NowhereElse
      <4>. QED  BY <2>3, <4>1, ReachedNext
    <3>. QED  BY <3>1, <3>2
  <2>. QED  BY <2>4, <2>5 DEF OpenTexts
<1>5. ASSUME Clear(Every(h), w, n + 1, seen)
      PROVE  OpenTexts(h, w, n + 1) \subseteq Shown(T) /\ Shown(T) \cap {"[Circular]", "[Too deep]"} = {}
  <2>1. ASSUME NEW i \in I
        PROVE  /\ OpenTexts(h, es[i].item, n) \subseteq Shown(items[i])
               /\ Shown(items[i]) \cap {"[Circular]", "[Too deep]"} = {}
               /\ n > 0
    <3>. DEFINE c == es[i].item
    <3>1. c \in Below(Every(h), w)
      BY OpenBelow DEF b
    <3>2. Exact(items[i], h, c, n, seen \cup {w})
      BY DEF b
    <3>. HIDE DEF c
    <3>3. n > 0 /\ c \notin seen \cup {w} /\ Clear(Every(h), c, n, seen \cup {w})
      BY <1>5, <3>1, ClearInside
    <3>. QED  BY <3>2, <3>3 DEF Exact, c
  <2>2. ASSUME NEW x \in OpenTexts(h, w, n + 1) PROVE x \in Shown(T)
    <3>1. x \in Texts /\ x \in Reached(Open(h), w, n + 1)
      BY DEF OpenTexts
    <3>2. PICK c \in Below(Open(h), w) : x = c \/ (c \in Nodes /\ x \in Reached(Open(h), c, n))
      BY <3>1, ReachedNext
    <3>3. PICK i \in I : c = es[i].item /\ (kind = "array" \/ es[i].key \notin Sensitive)
      BY <3>2, OpenBelow DEF b
    <3>4. x \in OpenTexts(h, c, n)
      <4>1. CASE c \in Nodes /\ x \in Reached(Open(h), c, n)
        BY <3>1, <4>1 DEF OpenTexts
      <4>2. CASE x = c
        <5>1. c \notin Nodes
          BY <3>1, <4>2, PayloadAssumption DEF Leaves
        <5>. QED  BY <3>1, <4>2, <5>1, NowhereElse DEF OpenTexts
      <4>. QED  BY <3>2, <4>1, <4>2
    <3>5. x \in Shown(items[i])
      BY <2>1, <3>3, <3>4
    <3>6. Walked(kind, es[i])
      BY <3>3 DEF Walked, IsWithheld
    <3>. QED  BY <1>2, <3>5, <3>6 DEF ShowsWalked
  <2>3. ASSUME NEW x \in Shown(T) PROVE x \notin {"[Circular]", "[Too deep]"}
    <3>1. CASE x \in PlainValues
      BY <3>1, PlainHidesTexts DEF Marks
    <3>2. CASE \E i \in I : x \in Shown(items[i])
      BY <2>1, <3>2
    <3>3. CASE x \in Cut(es, n)
      <4>1. n = 0 /\ Len(es) # 0
        BY <3>3 DEF Cut
      <4>2. Len(es) \in Nat
        BY <1>1, EntriesAre DEF Box
      <4>3. 1 \in I
        BY <4>1, <4>2
      <4>4. \A i \in I : n > 0
        BY <2>1
      <4>5. n > 0
        BY <4>3, <4>4
      <4>6. n = 0
        BY <4>1
      <4>7. FALSE
        BY <4>5, <4>6
      <4>. QED  BY <4>7
    <3>. QED  BY <1>2, <3>1, <3>2, <3>3 DEF ShowsWalked
  <2>. QED  BY <2>2, <2>3
<1>6. IsTree(T)
  BY <1>2 DEF ShowsWalked
<1>. QED  BY <1>4, <1>5, <1>6 DEF Exact, T, b

LEMMA RedactExact ==
  ASSUME NEW h \in Heaps, NEW r, RedactsBy(h, r)
  PROVE  \A l \in 0..MaxRedaction + 1 : \A w \in Values : \A seen \in SUBSET Nodes :
            Exact(r[l][w][seen], h, w, l, seen)
<1>. DEFINE M == MaxRedaction + 1
            Holds(l) == \A w \in Values : \A seen \in SUBSET Nodes : Exact(r[l][w][seen], h, w, l, seen)
            S == {l \in Nat : l <= M => Holds(l)}
<1>1. M \in Nat
  BY PayloadAssumption
<1>. HIDE DEF M
<1>2. 0 \in S
  <2>1. ASSUME NEW w \in Values, NEW seen \in SUBSET Nodes
        PROVE  Exact(r[0][w][seen], h, w, 0, seen)
    <3>. DEFINE f == r[0 - 1]
    <3>1. r[0] = RedactLevel(h, 0, f)
      BY <1>1 DEF RedactsBy, M
    <3>. HIDE DEF f
    <3>2. RedactLevel(h, 0, f)[w][seen] = handleDepthLimit(h, w)
      BY DEF RedactLevel
    <3>3. Exact(handleDepthLimit(h, w), h, w, 0, seen)
      BY DepthLimitExact
    <3>. QED  BY <3>1, <3>2, <3>3
  <2>. QED  BY <2>1
<1>3. ASSUME NEW l \in Nat, l \in S PROVE l + 1 \in S
  <2>1. SUFFICES ASSUME l + 1 <= M, NEW w \in Values, NEW seen \in SUBSET Nodes
                 PROVE  Exact(r[l + 1][w][seen], h, w, l + 1, seen)
    OBVIOUS
  <2>2. Holds(l)
    BY <1>3, <2>1, <1>1
  <2>. DEFINE t == r[l + 1][w][seen]
              k == l + 1
              f == r[l]
  <2>3. k \in Nat /\ k # 0 /\ r[k] = RedactLevel(h, k, f)
    <3>1. k \in 0..M /\ k - 1 = l
      BY <1>1, <2>1
    <3>2. r[k] = RedactLevel(h, k, r[k - 1])
      BY <3>1 DEF RedactsBy, M
    <3>. QED  BY <3>1, <3>2
  <2>. HIDE DEF Holds, k, f
  <2>4. CASE w \notin Nodes
    <3>1. RedactLevel(h, k, f)[w][seen] = Cleaned(w)
      BY <2>3, <2>4 DEF RedactLevel
    <3>2. Exact(Cleaned(w), h, w, k, seen)
      BY <2>3, <2>4, CleanedExact
    <3>. QED  BY <2>3, <3>1, <3>2 DEF k
  <2>5. CASE w \in Nodes /\ w \in seen
    <3>1. RedactLevel(h, k, f)[w][seen] = Leaf("[Circular]")
      BY <2>3, <2>5 DEF RedactLevel
    <3>2. Exact(Leaf("[Circular]"), h, w, k, seen)
      BY <2>3, <2>5, CircularExact
    <3>. QED  BY <2>3, <3>1, <3>2 DEF k
  <2>6. CASE w \in Nodes /\ w \notin seen
    <3>. DEFINE b == h[w]
                items == ItemsBelow(b, f, seen \cup {w})
    <3>1. r[k][w][seen] = redactTypedObject(b.kind, b.entries, items, l)
      <4>1. k - 1 = l
        BY DEF k
      <4>2. RedactLevel(h, k, f)[w][seen] = redactTypedObject(b.kind, b.entries, items, k - 1)
        BY <2>3, <2>6 DEF RedactLevel, ItemsBelow
      <4>. QED  BY <2>3, <4>1, <4>2
    <3>2. items = [i \in 1..Len(b.entries) |-> items[i]]
      BY DEF ItemsBelow
    <3>3. ASSUME NEW i \in 1..Len(b.entries)
          PROVE  Exact(items[i], h, b.entries[i].item, l, seen \cup {w})
      <4>. DEFINE c == b.entries[i].item
      <4>1. items[i] = r[l][c][seen \cup {w}]
        BY DEF ItemsBelow, f
      <4>2. c \in Values
        BY <2>6, HeapsHoldBoxes, EntriesAre DEF Box
      <4>3. seen \cup {w} \in SUBSET Nodes
        BY <2>6
      <4>. HIDE DEF c, items
      <4>4. Exact(r[l][c][seen \cup {w}], h, c, l, seen \cup {w})
        BY <2>2, <4>2, <4>3 DEF Holds
      <4>. QED  BY <4>1, <4>4 DEF c
    <3>. HIDE DEF items
    <3>4. Exact(redactTypedObject(b.kind, b.entries, items, l), h, w, l + 1, seen)
      BY <2>6, <3>2, <3>3, ContainerExact
    <3>. QED  BY <3>1, <3>4 DEF k
  <2>. QED  BY <2>4, <2>5, <2>6
<1>. HIDE DEF S
<1>4. \A l \in Nat : l \in S
  BY <1>2, <1>3, SetInduction
<1>. QED  BY <1>1, <1>4 DEF S, M

LEMMA RedactsExactly ==
  ASSUME NEW h \in Heaps, NEW v \in Values
  PROVE  Exact(redactSensitiveFieldValues(h, v), h, v, MaxRedaction + 1, {})
<1>. DEFINE M == MaxRedaction + 1
<1>1. PICK r : /\ redactSensitiveFieldValues(h, v) = r[M][v][{}]
               /\ \A l \in 0..M : r[l] = RedactLevel(h, l, r[l - 1])
  BY RedactIs
<1>2. RedactsBy(h, r)
  BY <1>1 DEF RedactsBy
<1>3. M \in 0..M
  BY PayloadAssumption
<1>4. \A l \in 0..M : \A w \in Values : \A seen \in SUBSET Nodes : Exact(r[l][w][seen], h, w, l, seen)
  BY <1>2, RedactExact
<1>. HIDE DEF M
<1>5. {} \in SUBSET Nodes
  OBVIOUS
<1>6. Exact(r[M][v][{}], h, v, M, {})
  BY <1>3, <1>4, <1>5
<1>. QED  BY <1>1, <1>6 DEF M

LEMMA RedactionIsExact ==
  ASSUME NEW h \in Heaps, NEW v \in Values
  PROVE  LET t    == redactSensitiveFieldValues(h, v)
             open == Reached(Open(h), v, MaxRedaction + 1) \cap Texts
         IN  /\ Shown(t) \cap (Texts \cup {Secret}) \subseteq open
             /\ Within(Every(h), v, MaxRedaction) =>
                  open \subseteq Shown(t) /\ Shown(t) \cap {"[Circular]", "[Too deep]"} = {}
<1>. DEFINE M == MaxRedaction + 1
            t == redactSensitiveFieldValues(h, v)
<1>1. Exact(t, h, v, M, {}) /\ M > 0
  BY RedactsExactly, PayloadAssumption
<1>2. Within(Every(h), v, MaxRedaction) <=> Clear(Every(h), v, M, {})
  BY WithinIsClear, PayloadAssumption
<1>. HIDE DEF M, t
<1>3. /\ Shown(t) \cap (Texts \cup {Secret}) \subseteq OpenTexts(h, v, M)
      /\ Clear(Every(h), v, M, {}) =>
           OpenTexts(h, v, M) \subseteq Shown(t) /\ Shown(t) \cap {"[Circular]", "[Too deep]"} = {}
  BY <1>1 DEF Exact
<1>. QED  BY <1>2, <1>3 DEF OpenTexts, t, M

-----------------------------------------------------------------------------
(* Two values have the same hash exactly when they ask for the same.       *)
(*                                                                         *)
(* The argument goes by the levels again (LevelsTell).  A list tells its   *)
(* items in their order, a record the set of its names and what is behind  *)
(* each (RecordsMatch); as many different names, all among the other's,    *)
(* are the same set, so that sorting them gives the same (NamesAlike).     *)

\* What is not refused was not cut.
Entered(t, h, w, n, seen) == t # Refused => n > 0 /\ w \notin seen /\ Clear(Every(h), w, n, seen)

LEMMA ContainerEntered ==
  ASSUME NEW h \in Heaps, NEW w \in Nodes, NEW n \in Nat, NEW seen \in SUBSET Nodes,
         w \notin seen, NEW items,
         \A i \in 1..Len(h[w].entries) :
            Entered(items[i], h, h[w].entries[i].item, n, seen \cup {w})
  PROVE  Entered(dispatchContainer(h[w].kind, h[w].entries, items), h, w, n + 1, seen)
<1>1. SUFFICES ASSUME dispatchContainer(h[w].kind, h[w].entries, items) # Refused
               PROVE  Clear(Every(h), w, n + 1, seen)
  BY DEF Entered
<1>2. \A i \in 1..Len(h[w].entries) : items[i] # Refused
  BY <1>1 DEF dispatchContainer
<1>3. ASSUME NEW c \in Below(Every(h), w)
      PROVE  n > 0 /\ c \notin seen \cup {w} /\ Clear(Every(h), c, n, seen \cup {w})
  <2>1. PICK i \in 1..Len(h[w].entries) : c = h[w].entries[i].item
    BY OpenBelow
  <2>2. Entered(items[i], h, c, n, seen \cup {w})
    BY <2>1
  <2>. QED  BY <1>2, <2>2 DEF Entered
<1>. QED  BY <1>3, ClearOutside

LEMMA SortEnters ==
  ASSUME NEW h \in Heaps, NEW r, SortsBy(h, r)
  PROVE  \A l \in 0..MaxNesting + 1 : \A w \in Values : \A seen \in SUBSET Nodes :
            Entered(r[l][w][seen], h, w, l, seen)
<1>. DEFINE M == MaxNesting + 1
            Holds(l) == \A w \in Values : \A seen \in SUBSET Nodes : Entered(r[l][w][seen], h, w, l, seen)
            S == {l \in Nat : l <= M => Holds(l)}
<1>1. M \in Nat
  BY PayloadAssumption
<1>. HIDE DEF M
<1>2. 0 \in S
  <2>1. ASSUME NEW w \in Values, NEW seen \in SUBSET Nodes
        PROVE  Entered(r[0][w][seen], h, w, 0, seen)
    <3>. DEFINE f == r[0 - 1]
    <3>1. r[0] = SortLevel(h, 0, f)
      BY <1>1 DEF SortsBy, M
    <3>. HIDE DEF f
    <3>2. SortLevel(h, 0, f)[w][seen] = Refused
      BY DEF SortLevel
    <3>. QED  BY <3>1, <3>2 DEF Entered
  <2>. QED  BY <2>1
<1>3. ASSUME NEW l \in Nat, l \in S PROVE l + 1 \in S
  <2>1. SUFFICES ASSUME l + 1 <= M, NEW w \in Values, NEW seen \in SUBSET Nodes
                 PROVE  Entered(r[l + 1][w][seen], h, w, l + 1, seen)
    OBVIOUS
  <2>2. Holds(l)
    BY <1>3, <2>1, <1>1
  <2>. DEFINE k == l + 1
              f == r[l]
  <2>3. k \in Nat /\ k # 0 /\ k > 0 /\ r[k] = SortLevel(h, k, f)
    <3>1. k \in 0..M /\ k - 1 = l
      BY <1>1, <2>1
    <3>2. r[k] = SortLevel(h, k, r[k - 1])
      BY <3>1 DEF SortsBy, M
    <3>. QED  BY <3>1, <3>2
  <2>. HIDE DEF Holds, k, f
  <2>4. CASE w \notin Nodes
    <3>1. Routes(Every(h), w, k) = {}
      BY <2>3, <2>4, NowhereElse
    <3>2. Entered(r[k][w][seen], h, w, k, seen)
      BY <2>3, <2>4, <3>1 DEF Entered, Clear
    <3>. QED  BY <3>2 DEF k
  <2>5. CASE w \in Nodes /\ w \in seen
    <3>1. SortLevel(h, k, f)[w][seen] = Refused
      BY <2>3, <2>5 DEF SortLevel
    <3>2. Entered(Refused, h, w, k, seen)
      BY DEF Entered
    <3>. QED  BY <2>3, <3>1, <3>2 DEF k
  <2>6. CASE w \in Nodes /\ w \notin seen
    <3>. DEFINE b == h[w]
                items == ItemsBelow(b, f, seen \cup {w})
    <3>0. SortLevel(h, k, f)[w][seen] = dispatchContainer(b.kind, b.entries, items)
      BY <2>3, <2>6 DEF SortLevel, ItemsBelow
    <3>1. r[k][w][seen] = dispatchContainer(b.kind, b.entries, items)
      BY <2>3, <3>0
    <3>3. ASSUME NEW i \in 1..Len(b.entries)
          PROVE  Entered(items[i], h, b.entries[i].item, l, seen \cup {w})
      <4>. DEFINE c == b.entries[i].item
      <4>1. items[i] = r[l][c][seen \cup {w}]
        BY DEF ItemsBelow, f
      <4>2. c \in Values
        BY <2>6, HeapsHoldBoxes, EntriesAre DEF Box
      <4>3. seen \cup {w} \in SUBSET Nodes
        BY <2>6
      <4>. HIDE DEF c, items
      <4>4. Entered(r[l][c][seen \cup {w}], h, c, l, seen \cup {w})
        BY <2>2, <4>2, <4>3 DEF Holds
      <4>. QED  BY <4>1, <4>4 DEF c
    <3>. HIDE DEF items
    <3>4. Entered(dispatchContainer(b.kind, b.entries, items), h, w, l + 1, seen)
      BY <2>6, <3>3, ContainerEntered
    <3>. QED  BY <3>1, <3>4 DEF k
  <2>. QED  BY <2>4, <2>5, <2>6
<1>. HIDE DEF S
<1>4. \A l \in Nat : l \in S
  BY <1>2, <1>3, SetInduction
<1>. QED  BY <1>1, <1>4 DEF S, M

\* The order the names are given in makes no difference.
LEMMA SortedAlike ==
  ASSUME NEW ks, NEW ls, ToSet(ks) = ToSet(ls)
  PROVE  Sorted(ks) = Sorted(ls)
BY DEF Sorted

\* As many fields as another container has, with names that are all among its
\* names, are all its names.
LEMMA NamesAlike ==
  ASSUME NEW es, NEW fs, Fields(es), Fields(fs),
         \A i \in 1..Len(es) : \E j \in 1..Len(fs) : fs[j].key = es[i].key
  PROVE  /\ Len(es) <= Len(fs)
         /\ Len(es) = Len(fs) => ToSet(Keys(es)) = ToSet(Keys(fs))
<1>. DEFINE n == Len(es)
            m == Len(fs)
            K == ToSet(Keys(es))
            L == ToSet(Keys(fs))
            f == [i \in 1..n |-> es[i].key]
            g == [j \in 1..m |-> fs[j].key]
<1>1. n \in Nat /\ m \in Nat
  BY EntriesAre DEF Fields
<1>2. K = {f[i] : i \in 1..n} /\ L = {g[j] : j \in 1..m}
  BY <1>1 DEF ToSet, Keys
<1>3. \A i, j \in 1..n : f[i] = f[j] => i = j
  BY DEF Fields
<1>4. \A i, j \in 1..m : g[i] = g[j] => i = j
  BY DEF Fields
<1>5. \A i \in 1..n : \E j \in 1..m : g[j] = f[i]
  OBVIOUS
<1>6. K \subseteq L
  BY <1>2, <1>5
<1>. HIDE DEF K, L
<1>7. f \in Bijection(1..n, K) /\ g \in Bijection(1..m, L)
  <2>1. f \in [1..n -> K] /\ g \in [1..m -> L]
    BY <1>2
  <2>2. f \in Injection(1..n, K) /\ g \in Injection(1..m, L)
    BY <1>3, <1>4, <2>1 DEF Injection, IsInjective
  <2>3. f \in Surjection(1..n, K) /\ g \in Surjection(1..m, L)
    BY <1>2, <2>1 DEF Surjection
  <2>. QED  BY <2>2, <2>3 DEF Bijection
<1>. HIDE DEF f, g, n, m
<1>8. IsFiniteSet(L) /\ Cardinality(L) = m /\ IsFiniteSet(K) /\ Cardinality(K) = n
  <2>1. ExistsBijection(1..n, K) /\ ExistsBijection(1..m, L)
    BY <1>7 DEF ExistsBijection
  <2>2. IsFiniteSet(1..n) /\ Cardinality(1..n) = n /\ IsFiniteSet(1..m) /\ Cardinality(1..m) = m
    BY <1>1, FS_Interval
  <2>. QED  BY <2>1, <2>2, FS_Bijection
<1>9. n <= m
  BY <1>6, <1>8, FS_Subset
<1>10. ASSUME n = m PROVE K = L
  BY <1>6, <1>8, <1>10, FS_Subset
<1>. QED  BY <1>9, <1>10 DEF n, m, K, L

LEMMA ListsEqual ==
  ASSUME NEW n \in Nat, NEW m \in Nat, NEW A, NEW B, TreeList(A, n), TreeList(B, m)
  PROVE  List(A) = List(B) <=> n = m /\ \A i \in 1..n : A[i] = B[i]
<1>. DEFINE I == ListItems(A)
            J == ListItems(B)
            l == Label("list", "", <<>>)
<1>1. List(A) = Tree(l, I) /\ List(B) = Tree(l, J)
  BY DEF List, ListItems
<1>. HIDE DEF I, J, l
<1>2. IsListOf(I, A, n) /\ IsListOf(J, B, m)
  BY ListItemsAre DEF I, J
<1>3. ASSUME List(A) = List(B) PROVE n = m /\ \A i \in 1..n : A[i] = B[i]
  <2>1. Items(I) /\ Items(J) /\ Tree(l, I) = Tree(l, J)
    BY <1>1, <1>2, <1>3 DEF IsListOf
  <2>2. DOMAIN I = DOMAIN J /\ \A s \in DOMAIN I : I[s] = J[s]
    BY <2>1, TreesEqual
  <2>3. /\ \A i \in 1..n : AtNumber(i) \in DOMAIN I /\ I[AtNumber(i)] = A[i]
        /\ \A i \in 1..m : AtNumber(i) \in DOMAIN J /\ J[AtNumber(i)] = B[i]
    BY <1>2 DEF IsListOf
  <2>4. /\ \A s \in DOMAIN I : s[1] \in 1..n
        /\ \A s \in DOMAIN J : s[1] \in 1..m
    BY <1>2 DEF IsListOf
  <2>5. \A i : AtNumber(i)[1] = i
    BY DEF AtNumber
  <2>6. \A i \in 1..n : i \in 1..m
    BY <2>2, <2>3, <2>4, <2>5
  <2>7. \A i \in 1..m : i \in 1..n
    BY <2>2, <2>3, <2>4, <2>5
  <2>8. n = m
    BY <2>6, <2>7
  <2>9. ASSUME NEW i \in 1..n PROVE A[i] = B[i]
    BY <2>2, <2>3, <2>8
  <2>. QED  BY <2>8, <2>9
<1>4. ASSUME n = m, \A i \in 1..n : A[i] = B[i] PROVE A = B
  BY <1>4 DEF TreeList
<1>. QED  BY <1>3, <1>4

\* The same names, with the same behind each.
MatchingFields(es, fs, A, B) ==
    /\ Len(es) = Len(fs)
    /\ \A i \in 1..Len(es) : \E j \in 1..Len(fs) : fs[j].key = es[i].key /\ A[i] = B[j]

LEMMA RecordsMatch ==
  ASSUME NEW es, NEW fs, NEW A, NEW B, NEW k, NEW l, Fields(es), Fields(fs),
         TreeList(A, Len(es)), TreeList(B, Len(fs)),
         Record(k, es, A) = Record(l, fs, B)
  PROVE  MatchingFields(es, fs, A, B)
<1>. DEFINE n == Len(es)
            m == Len(fs)
            I == RecordItems(es, A)
            J == RecordItems(fs, B)
            x == Label("record", "", k)
            y == Label("record", "", l)
<1>1. Tree(x, I) = Tree(y, J)
  BY DEF Record, RecordItems
<1>2. n \in Nat /\ m \in Nat
  BY EntriesAre DEF Fields
<1>. HIDE DEF I, J, x, y
<1>3. IsRecordOf(I, es, A) /\ IsRecordOf(J, fs, B)
  BY RecordItemsAre DEF I, J
<1>4. DOMAIN I = DOMAIN J /\ \A s \in DOMAIN I : I[s] = J[s]
  <2>1. Items(I) /\ Items(J)
    BY <1>3 DEF IsRecordOf
  <2>. QED  BY <1>1, <2>1, TreesEqual
<1>5. ASSUME NEW i \in 1..n
      PROVE  \E j \in 1..m : fs[j].key = es[i].key /\ A[i] = B[j]
  <2>. DEFINE s == AtName(es[i].key)
  <2>1. s[2] = es[i].key
    BY DEF AtName
  <2>. HIDE DEF s
  <2>2. s \in DOMAIN I /\ I[s] = A[i]
    BY <1>3 DEF IsRecordOf, s
  <2>3. PICK j \in 1..m : fs[j].key = s[2] /\ J[s] = B[j]
    BY <1>3, <1>4, <2>2 DEF IsRecordOf
  <2>. QED  BY <1>4, <2>1, <2>2, <2>3
<1>6. ASSUME NEW j \in 1..m
      PROVE  \E i \in 1..n : es[i].key = fs[j].key
  <2>. DEFINE s == AtName(fs[j].key)
  <2>1. s[2] = fs[j].key
    BY DEF AtName
  <2>. HIDE DEF s
  <2>2. s \in DOMAIN J
    BY <1>3 DEF IsRecordOf, s
  <2>3. PICK i \in 1..n : es[i].key = s[2]
    BY <1>3, <1>4, <2>2 DEF IsRecordOf
  <2>. QED  BY <2>1, <2>3
<1>7. n <= m /\ m <= n
  BY <1>5, <1>6, NamesAlike
<1>. QED  BY <1>2, <1>5, <1>7 DEF MatchingFields

LEMMA MatchesMake ==
  ASSUME NEW es, NEW fs, NEW A, NEW B, Fields(es), Fields(fs),
         TreeList(A, Len(es)), TreeList(B, Len(fs)), MatchingFields(es, fs, A, B)
  PROVE  Record(Sorted(Keys(es)), es, A) = Record(Sorted(Keys(fs)), fs, B)
<1>. DEFINE n == Len(es)
            m == Len(fs)
            I == RecordItems(es, A)
            J == RecordItems(fs, B)
<1>1. ToSet(Keys(es)) = ToSet(Keys(fs))
  BY NamesAlike DEF MatchingFields
<1>2. Sorted(Keys(es)) = Sorted(Keys(fs))
  BY <1>1, SortedAlike
<1>3. IsRecordOf(I, es, A) /\ IsRecordOf(J, fs, B)
  BY RecordItemsAre
<1>4. I = [s \in DOMAIN I |-> I[s]] /\ J = [s \in DOMAIN J |-> J[s]]
  BY DEF RecordItems
<1>5. Record(Sorted(Keys(es)), es, A) = Tree(Label("record", "", Sorted(Keys(es))), I)
      /\ Record(Sorted(Keys(fs)), fs, B) = Tree(Label("record", "", Sorted(Keys(fs))), J)
  BY DEF Record, RecordItems
<1>. HIDE DEF I, J
<1>6. DOMAIN I = DOMAIN J
  BY <1>1, <1>3 DEF IsRecordOf
<1>7. ASSUME NEW s \in DOMAIN I PROVE I[s] = J[s]
  <2>1. PICK i \in 1..n : es[i].key = s[2] /\ I[s] = A[i]
    BY <1>3 DEF IsRecordOf
  <2>2. PICK j \in 1..m : fs[j].key = s[2] /\ J[s] = B[j]
    BY <1>3, <1>6 DEF IsRecordOf
  <2>3. PICK k \in 1..m : fs[k].key = es[i].key /\ A[i] = B[k]
    BY DEF MatchingFields
  <2>4. k = j
    BY <2>1, <2>2, <2>3 DEF Fields
  <2>. QED  BY <2>1, <2>2, <2>3, <2>4
<1>8. I = J
  BY <1>4, <1>6, <1>7
<1>. QED  BY <1>2, <1>5, <1>8

NoMaps(h) == \A n \in Nodes : h[n].kind # "map"

\* What one container is sorted to.
SortedTo(T, kind, es, items) ==
    /\ IsTree(T)
    /\ T # Refused =>
         /\ \A i \in 1..Len(es) : items[i] # Refused
         /\ kind = "array" => T = List(items) /\ T[<<>>].kind = "list"
         /\ kind = "object" => T = Record(Sorted(Keys(es)), es, items) /\ T[<<>>].kind = "record"

LEMMA SortedIs ==
  ASSUME NEW b, NEW items, Box(b), b.kind # "map", TreeList(items, Len(b.entries))
  PROVE  SortedTo(dispatchContainer(b.kind, b.entries, items), b.kind, b.entries, items)
<1>. DEFINE es == b.entries
            kind == b.kind
            T == dispatchContainer(kind, es, items)
<1>1. kind \in {"array", "object"} /\ es \in Entries /\ (kind = "object" => Fields(es))
      /\ TreeList(items, Len(es)) /\ Len(es) \in Nat
  BY EntriesAre DEF Box, Kinds
<1>. HIDE DEF es, kind
<1>2. CASE \E i \in 1..Len(es) : items[i] = Refused
  <2>1. T = Refused
    BY <1>2 DEF dispatchContainer
  <2>2. IsTree(Refused)
    BY LeafIs DEF Refused
  <2>. QED  BY <2>1, <2>2 DEF SortedTo, es, kind
<1>3. CASE (\A i \in 1..Len(es) : items[i] # Refused) /\ kind = "array"
  <2>1. T = List(items)
    BY <1>3 DEF dispatchContainer
  <2>2. IsTree(List(items)) /\ List(items)[<<>>] = Label("list", "", <<>>)
    BY <1>1, ListIs
  <2>3. Label("list", "", <<>>).kind = "list"
    BY DEF Label
  <2>. HIDE DEF T
  <2>4. SortedTo(T, kind, es, items)
    BY <1>3, <2>1, <2>2, <2>3 DEF SortedTo
  <2>. QED  BY <2>4 DEF es, kind, T
<1>4. CASE (\A i \in 1..Len(es) : items[i] # Refused) /\ kind = "object"
  <2>. DEFINE keys == Sorted(Keys(es))
  <2>1. T = Record(keys, es, items)
    BY <1>4 DEF dispatchContainer
  <2>. HIDE DEF keys
  <2>2. IsTree(Record(keys, es, items)) /\ Record(keys, es, items)[<<>>] = Label("record", "", keys)
    BY <1>1, <1>4, RecordIs
  <2>3. Label("record", "", keys).kind = "record"
    BY DEF Label
  <2>. HIDE DEF T
  <2>4. SortedTo(T, kind, es, items)
    BY <1>4, <2>1, <2>2, <2>3 DEF SortedTo, keys
  <2>. QED  BY <2>4 DEF es, kind, T
<1>. QED  BY <1>1, <1>2, <1>3, <1>4

\* Trees, each what the level below f makes of an item.
ItemsFrom(X, es, f, S) ==
    /\ TreeList(X, Len(es))
    /\ \A i \in 1..Len(es) : es[i].item \in Values /\ X[i] = f[es[i].item][S]

LEMMA ItemTrees ==
  ASSUME NEW h \in Heaps, NEW w \in Nodes, NEW f, NEW S \in SUBSET Nodes,
         \A c \in Values : \A C \in SUBSET Nodes : IsTree(f[c][C])
  PROVE  ItemsFrom(ItemsBelow(h[w], f, S), h[w].entries, f, S)
<1>. DEFINE es == h[w].entries
            items == ItemsBelow(h[w], f, S)
<1>1. \A i \in 1..Len(es) : es[i].item \in Values
  BY HeapsHoldBoxes, EntriesAre DEF Box
<1>2. items = [i \in 1..Len(es) |-> f[es[i].item][S]]
  BY DEF ItemsBelow
<1>. HIDE DEF items, es
<1>3. \A i \in 1..Len(es) : items[i] = f[es[i].item][S]
  BY <1>2
<1>4. \A i \in 1..Len(es) : IsTree(items[i])
  BY <1>1, <1>3
<1>5. TreeList(items, Len(es))
  BY <1>2, <1>4 DEF TreeList
<1>. QED  BY <1>1, <1>3, <1>5 DEF items, es, ItemsFrom

LEMMA SortTrees ==
  ASSUME NEW h \in Heaps, NoMaps(h), NEW r, SortsBy(h, r)
  PROVE  \A l \in 0..MaxNesting + 1 : \A w \in Values : \A seen \in SUBSET Nodes :
            IsTree(r[l][w][seen])
<1>. DEFINE M == MaxNesting + 1
            Holds(l) == \A w \in Values : \A seen \in SUBSET Nodes : IsTree(r[l][w][seen])
            S == {l \in Nat : l <= M => Holds(l)}
<1>1. M \in Nat
  BY PayloadAssumption
<1>. HIDE DEF M
<1>r. IsTree(Refused)
  BY LeafIs DEF Refused
<1>2. 0 \in S
  <2>1. ASSUME NEW w \in Values, NEW seen \in SUBSET Nodes
        PROVE  IsTree(r[0][w][seen])
    <3>. DEFINE f == r[0 - 1]
    <3>1. r[0] = SortLevel(h, 0, f)
      BY <1>1 DEF SortsBy, M
    <3>. HIDE DEF f
    <3>2. SortLevel(h, 0, f)[w][seen] = Refused
      BY DEF SortLevel
    <3>. QED  BY <3>1, <3>2, <1>r
  <2>. QED  BY <2>1
<1>3. ASSUME NEW l \in Nat, l \in S PROVE l + 1 \in S
  <2>1. SUFFICES ASSUME l + 1 <= M, NEW w \in Values, NEW seen \in SUBSET Nodes
                 PROVE  IsTree(r[l + 1][w][seen])
    OBVIOUS
  <2>2. Holds(l)
    BY <1>3, <2>1, <1>1
  <2>. DEFINE k == l + 1
              f == r[l]
  <2>3. k \in Nat /\ k # 0 /\ r[k] = SortLevel(h, k, f)
    <3>1. k \in 0..M /\ k - 1 = l
      BY <1>1, <2>1
    <3>2. r[k] = SortLevel(h, k, r[k - 1])
      BY <3>1 DEF SortsBy, M
    <3>. QED  BY <3>1, <3>2
  <2>f. \A c \in Values : \A C \in SUBSET Nodes : IsTree(f[c][C])
    BY <2>2
  <2>. HIDE DEF Holds, k, f
  <2>4. CASE w \notin Nodes
    <3>. DEFINE x == IF Json(w) = "null" THEN "null" ELSE w
    <3>1. SortLevel(h, k, f)[w][seen] = Leaf(x)
      BY <2>3, <2>4 DEF SortLevel
    <3>. HIDE DEF x
    <3>2. IsTree(Leaf(x))
      BY LeafIs
    <3>. QED  BY <2>3, <3>1, <3>2 DEF k
  <2>5. CASE w \in Nodes /\ w \in seen
    <3>1. SortLevel(h, k, f)[w][seen] = Refused
      BY <2>3, <2>5 DEF SortLevel
    <3>. QED  BY <2>3, <3>1, <1>r DEF k
  <2>6. CASE w \in Nodes /\ w \notin seen
    <3>. DEFINE b == h[w]
                items == ItemsBelow(b, f, seen \cup {w})
    <3>0. SortLevel(h, k, f)[w][seen] = dispatchContainer(b.kind, b.entries, items)
      BY <2>3, <2>6 DEF SortLevel, ItemsBelow
    <3>1. seen \cup {w} \in SUBSET Nodes
      BY <2>6
    <3>2. TreeList(items, Len(b.entries))
      BY <2>6, <2>f, <3>1, ItemTrees DEF ItemsFrom
    <3>. HIDE DEF items
    <3>3. Box(b) /\ b.kind # "map"
      BY <2>6, HeapsHoldBoxes DEF NoMaps
    <3>. HIDE DEF b
    <3>4. IsTree(dispatchContainer(b.kind, b.entries, items))
      BY <3>2, <3>3, SortedIs DEF SortedTo
    <3>. QED  BY <2>3, <3>0, <3>4 DEF k
  <2>. QED  BY <2>4, <2>5, <2>6
<1>. HIDE DEF S
<1>4. \A l \in Nat : l \in S
  BY <1>2, <1>3, SetInduction
<1>. QED  BY <1>1, <1>4 DEF S, M

\* What stands for a leaf.
Settled(w) == IF Json(w) = "null" THEN "null" ELSE w

AlikeLeaves(a, b) == a = b \/ {Json(a), Json(b)} = {"null"}

LEMMA LeavesAlike ==
  ASSUME NEW a \in Leaves, NEW b \in Leaves
  PROVE  Leaf(Settled(a)) = Leaf(Settled(b)) <=> AlikeLeaves(a, b)
<1>1. Leaf(Settled(a)) = Leaf(Settled(b)) <=> Settled(a) = Settled(b)
  <2>. DEFINE x == Settled(a)
              y == Settled(b)
  <2>. HIDE DEF x, y
  <2>1. Shown(Leaf(x)) = {x} /\ Shown(Leaf(y)) = {y}
    BY LeafIs
  <2>2. Leaf(x) = Leaf(y) => x = y
    BY <2>1
  <2>3. Leaf(x) = Leaf(y) <=> x = y
    BY <2>2
  <2>. QED  BY <2>3 DEF x, y
<1>2. \A c \in Leaves : Json(c) = "null" <=> c \in {"null", "undefined", "nan"}
  BY DEF Leaves, Absent, Texts, Secret, Json
<1>3. Settled(a) = Settled(b) <=> a = b \/ (Json(a) = "null" /\ Json(b) = "null")
  BY <1>2 DEF Settled
<1>4. AlikeLeaves(a, b) <=> a = b \/ (Json(a) = "null" /\ Json(b) = "null")
  BY DEF AlikeLeaves
<1>. QED  BY <1>1, <1>3, <1>4

LEMMA LeafHasKind == \A x : Leaf(x)[<<>>].kind = "leaf"
<1>. TAKE x
<1>1. Leaf(x)[<<>>] = Label("leaf", x, <<>>)
  BY LeafIs
<1>. QED  BY <1>1 DEF Label

\* Two containers ask for the same, given which of their items do.
AlikeBoxes(b, c, g) ==
    /\ b.kind = c.kind /\ Len(b.entries) = Len(c.entries)
    /\ \A i \in 1..Len(b.entries) :
         IF b.kind = "array" THEN g[b.entries[i].item][c.entries[i].item]
         ELSE \E j \in 1..Len(c.entries) :
                c.entries[j].key = b.entries[i].key /\ g[b.entries[i].item][c.entries[j].item]

\* Equal exactly when the level below g says the items are alike.
Tells(A, B, b, c, g) ==
    \A i \in 1..Len(b.entries) : \A j \in 1..Len(c.entries) :
        A[i] # Refused /\ B[j] # Refused =>
            (A[i] = B[j] <=> g[b.entries[i].item][c.entries[j].item])

LEMMA BoxesAlike ==
  ASSUME NEW b, NEW c, NEW A, NEW B, NEW g, Box(b), Box(c), b.kind # "map", c.kind # "map",
         TreeList(A, Len(b.entries)), TreeList(B, Len(c.entries)), Tells(A, B, b, c, g),
         dispatchContainer(b.kind, b.entries, A) # Refused, dispatchContainer(c.kind, c.entries, B) # Refused
  PROVE  dispatchContainer(b.kind, b.entries, A) = dispatchContainer(c.kind, c.entries, B) <=> AlikeBoxes(b, c, g)
<1>. DEFINE es == b.entries
            fs == c.entries
            n == Len(es)
            m == Len(fs)
            T == dispatchContainer(b.kind, es, A)
            U == dispatchContainer(c.kind, fs, B)
<1>1. b.kind \in {"array", "object"} /\ c.kind \in {"array", "object"}
  BY DEF Box, Kinds
<1>2. n \in Nat /\ m \in Nat /\ (b.kind = "object" => Fields(es)) /\ (c.kind = "object" => Fields(fs))
  BY EntriesAre DEF Box
<1>3. SortedTo(T, b.kind, es, A) /\ SortedTo(U, c.kind, fs, B) /\ T # Refused /\ U # Refused
  BY SortedIs
<1>4. TreeList(A, n) /\ TreeList(B, m)
  OBVIOUS
<1>. HIDE DEF T, U
<1>5. (\A i \in 1..n : A[i] # Refused) /\ (\A j \in 1..m : B[j] # Refused)
  BY <1>3 DEF SortedTo
<1>6. \A i \in 1..n : \A j \in 1..m : A[i] = B[j] <=> g[es[i].item][fs[j].item]
  BY <1>5 DEF Tells
<1>7. CASE b.kind # c.kind
  <2>1. T[<<>>].kind # U[<<>>].kind
    BY <1>1, <1>3, <1>7 DEF SortedTo
  <2>2. T # U
    BY <2>1
  <2>. QED  BY <1>7, <2>2 DEF AlikeBoxes, T, U
<1>8. CASE b.kind = "array" /\ c.kind = "array"
  <2>1. T = List(A) /\ U = List(B)
    BY <1>3, <1>8 DEF SortedTo
  <2>2. List(A) = List(B) <=> n = m /\ \A i \in 1..n : A[i] = B[i]
    BY <1>2, <1>4, ListsEqual
  <2>3. n = m => \A i \in 1..n : A[i] = B[i] <=> g[es[i].item][fs[i].item]
    BY <1>6
  <2>4. AlikeBoxes(b, c, g) <=> n = m /\ \A i \in 1..n : g[es[i].item][fs[i].item]
    BY <1>8 DEF AlikeBoxes
  <2>5. T = U <=> AlikeBoxes(b, c, g)
    BY <2>1, <2>2, <2>3, <2>4
  <2>. QED  BY <2>5 DEF T, U
<1>9. CASE b.kind = "object" /\ c.kind = "object"
  <2>. DEFINE k == Sorted(Keys(es))
              l == Sorted(Keys(fs))
  <2>1. T = Record(k, es, A) /\ U = Record(l, fs, B)
    BY <1>3, <1>9 DEF SortedTo
  <2>2. MatchingFields(es, fs, A, B) => Record(k, es, A) = Record(l, fs, B)
    BY <1>2, <1>4, <1>9, MatchesMake
  <2>. HIDE DEF k, l
  <2>3. Record(k, es, A) = Record(l, fs, B) => MatchingFields(es, fs, A, B)
    BY <1>2, <1>4, <1>9, RecordsMatch
  <2>4. MatchingFields(es, fs, A, B) <=>
          n = m /\ \A i \in 1..n : \E j \in 1..m : fs[j].key = es[i].key /\ g[es[i].item][fs[j].item]
    BY <1>6 DEF MatchingFields
  <2>5. AlikeBoxes(b, c, g) <=>
          n = m /\ \A i \in 1..n : \E j \in 1..m : fs[j].key = es[i].key /\ g[es[i].item][fs[j].item]
    BY <1>9 DEF AlikeBoxes
  <2>6. T = U <=> AlikeBoxes(b, c, g)
    BY <2>1, <2>2, <2>3, <2>4, <2>5
  <2>. QED  BY <2>6 DEF T, U
<1>. QED  BY <1>1, <1>7, <1>8, <1>9

SameBy(h, q) == \A l \in 0..MaxNesting + 1 : q[l] = SameLevel(h, l, q[l - 1])

LEMMA SameUnfolds ==
  ASSUME NEW h, NEW g, NEW k, NEW a, NEW b, k \in Nat, k > 0, a \in Values, b \in Values
  PROVE  /\ a \in Nodes /\ b \in Nodes =>
              (SameLevel(h, k, g)[a][b] <=> AlikeBoxes(h[a], h[b], g))
         /\ ~(a \in Nodes /\ b \in Nodes) =>
              (SameLevel(h, k, g)[a][b] <=> a \notin Nodes /\ b \notin Nodes /\ AlikeLeaves(a, b))
BY DEF SameLevel, AlikeBoxes, AlikeLeaves

\* The trees of a level are equal exactly where the values are alike.
LevelTells(f, g) ==
    \A a, b \in Values : \A A, B \in SUBSET Nodes :
        f[a][A] # Refused /\ f[b][B] # Refused => (f[a][A] = f[b][B] <=> g[a][b])

LEMMA LevelTellsNext ==
  ASSUME NEW h \in Heaps, NoMaps(h), NEW f, NEW g, NEW k \in Nat, k > 0,
         \A c \in Values : \A C \in SUBSET Nodes : IsTree(f[c][C]), LevelTells(f, g)
  PROVE  LevelTells(SortLevel(h, k, f), SameLevel(h, k, g))
<1>. DEFINE F == SortLevel(h, k, f)
            G == SameLevel(h, k, g)
<1>1. SUFFICES ASSUME NEW a \in Values, NEW b \in Values, NEW A \in SUBSET Nodes, NEW B \in SUBSET Nodes,
                      F[a][A] # Refused, F[b][B] # Refused
               PROVE  F[a][A] = F[b][B] <=> G[a][b]
  BY DEF LevelTells
<1>2. ASSUME NEW w \in Nodes, NEW C \in SUBSET Nodes, F[w][C] # Refused
      PROVE  /\ F[w][C] = dispatchContainer(h[w].kind, h[w].entries, ItemsBelow(h[w], f, C \cup {w}))
             /\ C \cup {w} \in SUBSET Nodes
             /\ TreeList(ItemsBelow(h[w], f, C \cup {w}), Len(h[w].entries))
             /\ Box(h[w]) /\ h[w].kind # "map"
             /\ F[w][C][<<>>].kind # "leaf"
  <2>. DEFINE items == ItemsBelow(h[w], f, C \cup {w})
              b0 == h[w]
  <2>1. C \cup {w} \in SUBSET Nodes /\ w \in Values
    BY DEF Values
  <2>2. F[w][C] = dispatchContainer(b0.kind, b0.entries, items)
    BY <1>2, <2>1 DEF SortLevel, ItemsBelow
  <2>3. TreeList(items, Len(b0.entries))
    BY <2>1, ItemTrees DEF ItemsFrom
  <2>4. Box(b0) /\ b0.kind # "map"
    BY HeapsHoldBoxes DEF NoMaps
  <2>. HIDE DEF items, b0, F
  <2>5. SortedTo(F[w][C], b0.kind, b0.entries, items)
    BY <2>2, <2>3, <2>4, SortedIs
  <2>6. b0.kind \in {"array", "object"}
    BY <2>4 DEF Box, Kinds
  <2>7. F[w][C][<<>>].kind # "leaf"
    BY <1>2, <2>5, <2>6 DEF SortedTo
  <2>. QED  BY <2>1, <2>2, <2>3, <2>4, <2>7 DEF items, b0
<1>3. \A w \in Values : w \notin Nodes => w \in Leaves
  BY DEF Values
<1>4. CASE a \notin Nodes /\ b \notin Nodes
  <2>1. F[a][A] = Leaf(Settled(a)) /\ F[b][B] = Leaf(Settled(b))
    BY <1>4 DEF SortLevel, Settled
  <2>2. G[a][b] <=> AlikeLeaves(a, b)
    BY <1>4, SameUnfolds
  <2>3. a \in Leaves /\ b \in Leaves
    BY <1>3, <1>4
  <2>. QED  BY <2>1, <2>2, <2>3, LeavesAlike
<1>5. CASE (a \in Nodes /\ b \notin Nodes) \/ (a \notin Nodes /\ b \in Nodes)
  <2>1. ~G[a][b]
    BY <1>5, SameUnfolds
  <2>2. CASE a \in Nodes /\ b \notin Nodes
    <3>1. F[b][B] = Leaf(Settled(b))
      BY <2>2 DEF SortLevel, Settled
    <3>2. F[b][B][<<>>].kind = "leaf"
      BY <3>1, LeafHasKind
    <3>3. F[a][A][<<>>].kind # "leaf"
      BY <1>1, <1>2, <2>2
    <3>. HIDE DEF F, G
    <3>. QED  BY <2>1, <3>2, <3>3
  <2>3. CASE a \notin Nodes /\ b \in Nodes
    <3>1. F[a][A] = Leaf(Settled(a))
      BY <2>3 DEF SortLevel, Settled
    <3>2. F[a][A][<<>>].kind = "leaf"
      BY <3>1, LeafHasKind
    <3>3. F[b][B][<<>>].kind # "leaf"
      BY <1>1, <1>2, <2>3
    <3>. HIDE DEF F, G
    <3>. QED  BY <2>1, <3>2, <3>3
  <2>. QED  BY <1>5, <2>2, <2>3
<1>6. CASE a \in Nodes /\ b \in Nodes
  <2>. DEFINE X == ItemsBelow(h[a], f, A \cup {a})
              Y == ItemsBelow(h[b], f, B \cup {b})
  <2>1. /\ F[a][A] = dispatchContainer(h[a].kind, h[a].entries, X)
        /\ TreeList(X, Len(h[a].entries)) /\ Box(h[a]) /\ h[a].kind # "map"
        /\ A \cup {a} \in SUBSET Nodes
    BY <1>1, <1>2, <1>6
  <2>2. /\ F[b][B] = dispatchContainer(h[b].kind, h[b].entries, Y)
        /\ TreeList(Y, Len(h[b].entries)) /\ Box(h[b]) /\ h[b].kind # "map"
        /\ B \cup {b} \in SUBSET Nodes
    BY <1>1, <1>2, <1>6
  <2>3. G[a][b] <=> AlikeBoxes(h[a], h[b], g)
    BY <1>6, SameUnfolds
  <2>4. Tells(X, Y, h[a], h[b], g)
    <3>1. SUFFICES ASSUME NEW i \in 1..Len(h[a].entries), NEW j \in 1..Len(h[b].entries),
                          X[i] # Refused, Y[j] # Refused
                   PROVE  X[i] = Y[j] <=> g[h[a].entries[i].item][h[b].entries[j].item]
      BY DEF Tells
    <3>. DEFINE c == h[a].entries[i].item
                d == h[b].entries[j].item
    <3>x. ItemsFrom(X, h[a].entries, f, A \cup {a})
      BY <1>6, <2>1, ItemTrees
    <3>y. ItemsFrom(Y, h[b].entries, f, B \cup {b})
      BY <1>6, <2>2, ItemTrees
    <3>. HIDE DEF X, Y
    <3>2. X[i] = f[c][A \cup {a}] /\ c \in Values
      BY <3>x DEF ItemsFrom
    <3>3. Y[j] = f[d][B \cup {b}] /\ d \in Values
      BY <3>y DEF ItemsFrom
    <3>. HIDE DEF c, d
    <3>4. X[i] = Y[j] <=> g[c][d]
      BY <2>1, <2>2, <3>1, <3>2, <3>3 DEF LevelTells
    <3>. QED  BY <3>4 DEF c, d
  <2>. HIDE DEF X, Y
  <2>5. F[a][A] # Refused /\ F[b][B] # Refused
    BY <1>1
  <2>. HIDE DEF F, G
  <2>6. F[a][A] = F[b][B] <=> AlikeBoxes(h[a], h[b], g)
    <3>. DEFINE u == h[a]
                v == h[b]
    <3>1. /\ Box(u) /\ Box(v) /\ u.kind # "map" /\ v.kind # "map"
          /\ TreeList(X, Len(u.entries)) /\ TreeList(Y, Len(v.entries)) /\ Tells(X, Y, u, v, g)
          /\ F[a][A] = dispatchContainer(u.kind, u.entries, X) /\ F[b][B] = dispatchContainer(v.kind, v.entries, Y)
      BY <2>1, <2>2, <2>4
    <3>. HIDE DEF u, v
    <3>2. F[a][A] = F[b][B] <=> AlikeBoxes(u, v, g)
      BY <2>5, <3>1, BoxesAlike
    <3>. QED  BY <3>2 DEF u, v
  <2>. QED  BY <2>3, <2>6
<1>. QED  BY <1>4, <1>5, <1>6

LEMMA LevelsTell ==
  ASSUME NEW h \in Heaps, NoMaps(h), NEW r, SortsBy(h, r), NEW q, SameBy(h, q)
  PROVE  \A l \in 0..MaxNesting + 1 : LevelTells(r[l], q[l])
<1>. DEFINE M == MaxNesting + 1
            S == {l \in Nat : l <= M => LevelTells(r[l], q[l])}
<1>1. M \in Nat
  BY PayloadAssumption
<1>. HIDE DEF M
<1>2. 0 \in S
  <2>1. ASSUME NEW w \in Values, NEW seen \in SUBSET Nodes
        PROVE  r[0][w][seen] = Refused
    <3>. DEFINE f == r[0 - 1]
    <3>1. r[0] = SortLevel(h, 0, f)
      BY <1>1 DEF SortsBy, M
    <3>. HIDE DEF f
    <3>2. SortLevel(h, 0, f)[w][seen] = Refused
      BY DEF SortLevel
    <3>. QED  BY <3>1, <3>2
  <2>2. LevelTells(r[0], q[0])
    BY <2>1 DEF LevelTells
  <2>. QED  BY <2>2
<1>3. ASSUME NEW l \in Nat, l \in S PROVE l + 1 \in S
  <2>1. SUFFICES ASSUME l + 1 <= M PROVE LevelTells(r[l + 1], q[l + 1])
    OBVIOUS
  <2>. DEFINE k == l + 1
              f == r[l]
              g == q[l]
  <2>2. LevelTells(f, g)
    BY <1>3, <2>1, <1>1
  <2>3. k \in Nat /\ k > 0 /\ r[k] = SortLevel(h, k, f) /\ q[k] = SameLevel(h, k, g)
    <3>1. k \in 0..M /\ k - 1 = l
      BY <1>1, <2>1
    <3>2. r[k] = SortLevel(h, k, r[k - 1])
      BY <3>1 DEF SortsBy, M
    <3>3. q[k] = SameLevel(h, k, q[k - 1])
      BY <3>1 DEF SameBy, M
    <3>. QED  BY <3>1, <3>2, <3>3
  <2>4. \A c \in Values : \A C \in SUBSET Nodes : IsTree(f[c][C])
    <3>1. l \in 0..M
      BY <1>1, <2>1
    <3>. QED  BY <3>1, SortTrees DEF M
  <2>. HIDE DEF k, f, g
  <2>5. LevelTells(SortLevel(h, k, f), SameLevel(h, k, g))
    BY <2>2, <2>3, <2>4, LevelTellsNext
  <2>6. LevelTells(r[k], q[k])
    BY <2>3, <2>5
  <2>. QED  BY <2>6 DEF k
<1>. HIDE DEF S
<1>4. \A l \in Nat : l \in S
  BY <1>2, <1>3, SetInduction
<1>. QED  BY <1>1, <1>4 DEF S, M

LEMMA HashesTell ==
  ASSUME NEW h \in Heaps, NoMaps(h), NEW v \in Values, NEW w \in Values,
         hashInput(h, v) # Refused, hashInput(h, w) # Refused
  PROVE  hashInput(h, v) = hashInput(h, w) <=> Same(h, v, w)
<1>. DEFINE M == MaxNesting + 1
<1>1. M \in 0..M
  BY PayloadAssumption
<1>2. PICK r : SortsBy(h, r) /\ \A u \in Values : sortKeysDeep(h, u) = r[M][u][{}]
  BY SortServes
<1>3. PICK q : Same(h, v, w) = q[M][v][w] /\ SameBy(h, q)
  BY SameIs DEF SameBy
<1>4. LevelTells(r[M], q[M])
  BY <1>1, <1>2, <1>3, LevelsTell
<1>. HIDE DEF M
<1>5. hashInput(h, v) = r[M][v][{}] /\ hashInput(h, w) = r[M][w][{}]
  BY <1>2 DEF hashInput
<1>6. {} \in SUBSET Nodes
  OBVIOUS
<1>7. r[M][v][{}] = r[M][w][{}] <=> q[M][v][w]
  BY <1>4, <1>5, <1>6 DEF LevelTells
<1>. QED  BY <1>3, <1>5, <1>7

LEMMA HashedEnds ==
  ASSUME NEW h \in Heaps, NEW v \in Values, hashInput(h, v) # Refused
  PROVE  Within(Every(h), v, MaxNesting)
<1>. DEFINE M == MaxNesting + 1
<1>1. M \in 0..M /\ MaxNesting \in Nat
  BY PayloadAssumption
<1>2. PICK r : SortsBy(h, r) /\ \A u \in Values : sortKeysDeep(h, u) = r[M][u][{}]
  BY SortServes
<1>3. r[M][v][{}] # Refused
  BY <1>2 DEF hashInput
<1>4. Entered(r[M][v][{}], h, v, M, {})
  BY <1>1, <1>2, SortEnters
<1>5. Clear(Every(h), v, M, {})
  BY <1>3, <1>4 DEF Entered
<1>. QED  BY <1>1, <1>5, WithinIsClear

-----------------------------------------------------------------------------
(* The jobs.                                                               *)

Jobs == [heap : Heaps, value : Values, other : Values, limit : Int, text : Strings]

PayloadInv ==
    /\ stage \in {"idle", "asked", "hashed", "redacted", "stored"}
    /\ stage # "idle" => job \in Jobs
    /\ stage = "hashed" =>
         hash = <<hashInput(job.heap, job.value), hashInput(job.heap, job.other)>>
    /\ stage = "redacted" => redacted = redactSensitiveFieldValues(job.heap, job.value)

PayloadStep ==
    \/ PayloadNext
    \/ \E heap \in Heaps, v, w \in Values, limit \in Int, bytes \in Strings :
          Submit(heap, v, w, limit, bytes)

LEMMA PayloadInvNext == PayloadInv /\ [PayloadStep]_payload => PayloadInv'
<1>. SUFFICES ASSUME PayloadInv, [PayloadStep]_payload PROVE PayloadInv'
  OBVIOUS
<1>1. CASE Hash
  BY <1>1 DEF Hash, PayloadInv
<1>2. CASE Redact
  BY <1>2 DEF Redact, PayloadInv
<1>3. CASE Store
  BY <1>3 DEF Store, PayloadInv
<1>4. ASSUME NEW heap \in Heaps, NEW v \in Values, NEW w \in Values, NEW limit \in Int,
             NEW bytes \in Strings, Submit(heap, v, w, limit, bytes)
      PROVE  PayloadInv'
  <2>1. stage' = "asked" /\ job' = [heap |-> heap, value |-> v, other |-> w, limit |-> limit, text |-> bytes]
    BY <1>4 DEF Submit
  <2>2. job' \in Jobs
    BY <2>1 DEF Jobs
  <2>. QED  BY <2>1, <2>2 DEF PayloadInv
<1>5. CASE UNCHANGED payload
  BY <1>5 DEF payload, truncation, PayloadInv
<1>. QED  BY <1>1, <1>2, <1>3, <1>4, <1>5 DEF PayloadStep, PayloadNext

LEMMA PayloadInvHolds == PayloadSpec => []PayloadInv
<1>1. PayloadInit => PayloadInv
  BY DEF PayloadInit, PayloadInv
<1>. QED  BY <1>1, PayloadInvNext, PTL DEF PayloadSpec, PayloadStep

\* In every heap of every size, with any bound on the depth and any sensitive
\* names: a text below a sensitive name is never shown, and every other is,
\* unless its container lies on a cycle or too deep.
THEOREM RedactionExactAlways == PayloadSpec => []RedactionExact
<1>1. PayloadInv => RedactionExact
  <2>. SUFFICES ASSUME PayloadInv, stage = "redacted" PROVE RedactionExact
    BY DEF RedactionExact
  <2>. DEFINE h == job.heap
              v == job.value
  <2>1. h \in Heaps /\ v \in Values /\ redacted = redactSensitiveFieldValues(h, v)
    BY DEF PayloadInv, Jobs
  <2>. HIDE DEF h, v
  <2>2. /\ Shown(redacted) \cap (Texts \cup {Secret}) \subseteq Reached(Open(h), v, MaxRedaction + 1) \cap Texts
        /\ Within(Every(h), v, MaxRedaction) =>
             /\ Reached(Open(h), v, MaxRedaction + 1) \cap Texts \subseteq Shown(redacted)
             /\ Shown(redacted) \cap {"[Circular]", "[Too deep]"} = {}
    BY <2>1, RedactionIsExact
  <2>. QED  BY <2>2 DEF h, v, RedactionExact
<1>. QED  BY <1>1, PayloadInvHolds, PTL

\* In every heap without maps: two values that have hashes have the same one
\* exactly when they differ only in the order of fields and in what JSON has no
\* form for; a value on a cycle or too deep has none.
THEOREM HashIdentifiesAlways == PayloadSpec => []HashIdentifies
<1>1. PayloadInv => HashIdentifies
  <2>. SUFFICES ASSUME PayloadInv, stage = "hashed" PROVE HashIdentifies
    BY DEF HashIdentifies
  <2>. DEFINE h == job.heap
              v == job.value
              w == job.other
              H == hashInput(h, v)
              G == hashInput(h, w)
  <2>1. h \in Heaps /\ v \in Values /\ w \in Values /\ hash = <<H, G>>
    BY DEF PayloadInv, Jobs
  <2>. HIDE DEF h, v, w
  <2>2. NoMaps(h) /\ H # Refused /\ G # Refused => (H = G <=> Same(h, v, w))
    BY <2>1, HashesTell
  <2>3. H # Refused => Within(Every(h), v, MaxNesting)
    BY <2>1, HashedEnds
  <2>. HIDE DEF H, G
  <2>4. hash[1] = H /\ hash[2] = G /\ ToSet(hash) = {H, G}
    BY <2>1 DEF ToSet
  <2>5. Refused \notin ToSet(hash) => H # Refused /\ G # Refused
    BY <2>4
  <2>6. Refused \notin ToSet(hash) /\ NoMaps(h) => (hash[1] = hash[2] <=> Same(h, v, w))
    BY <2>2, <2>4, <2>5
  <2>7. hash[1] # Refused => Within(Every(h), v, MaxNesting)
    BY <2>3, <2>4
  <2>. QED  BY <2>6, <2>7 DEF h, v, w, NoMaps, HashIdentifies
<1>. QED  BY <1>1, PayloadInvHolds, PTL

\* The steps of a payload are those that Truncation allows: hashing and
\* redaction come before what is stored, and leave limits and texts alone.
THEOREM PayloadImplementsTruncation == PayloadSpec => TruncationSpec
<1>1. PayloadInit => stage = "idle"
  BY DEF PayloadInit
<1>2. PayloadInv /\ PayloadInv' /\ [PayloadStep]_payload => [Earlier \/ Store]_truncation
  <2>. SUFFICES ASSUME PayloadInv, PayloadInv', [PayloadStep]_payload
                PROVE  [Earlier \/ Store]_truncation
    OBVIOUS
  <2>1. stage' # "idle" => job'.limit \in Int /\ job'.text \in Strings
    BY DEF PayloadInv, Jobs
  <2>2. CASE Hash
    BY <2>1, <2>2 DEF Hash, Earlier
  <2>3. CASE Redact
    BY <2>1, <2>3 DEF Redact, Earlier
  <2>4. CASE Store
    BY <2>4
  <2>5. ASSUME NEW heap \in Heaps, NEW v \in Values, NEW w \in Values, NEW limit \in Int,
               NEW bytes \in Strings, Submit(heap, v, w, limit, bytes)
        PROVE  Earlier
    BY <2>1, <2>5 DEF Submit, Earlier
  <2>6. CASE UNCHANGED payload
    BY <2>6 DEF payload
  <2>. QED  BY <2>2, <2>3, <2>4, <2>5, <2>6 DEF PayloadStep, PayloadNext
<1>. QED  BY <1>1, <1>2, PayloadInvHolds, PTL DEF PayloadSpec, PayloadStep, TruncationSpec

\* So what a payload stores fits, too.
THEOREM StoredPayloadFits == PayloadSpec => []StoredFits
BY PayloadImplementsTruncation, StoredFitsAlways, PTL

-----------------------------------------------------------------------------
(* An accepted date keeps its day, in any year the format can write.       *)
(*                                                                         *)
(* The argument: validation admits the days the calendar has (RealDates),  *)
(* so no day rolls over; what is stored is that day, the hour and the      *)
(* offset, on every host.  That it shows no other day is the calendar's    *)
(* own (AnInstantShowsOneDate): the days of a month come before those of   *)
(* the next, and those of a year before the next year's.                   *)

DatesTypeOK ==
    /\ written \in Written /\ zone \in Int /\ moment \in Int
    /\ verdict \in {"idle", "asked", "valid", "refused", "threw", "stored"}

DatesInv ==
    /\ DatesTypeOK
    /\ verdict = "valid" => written.form # "blank" /\ isValidISODate(written)
    /\ DatesKeepTheirDay

LEMMA LeapYears == ASSUME NEW y \in Nat PROVE isLeap(y) <=> Leap(y)
<1>1. y % 100 = 0 => ((y \div 100) % 4 = 0 <=> y % 400 = 0)
  OBVIOUS
<1>2. y % 400 = 0 => y % 100 = 0
  OBVIOUS
<1>. QED  BY <1>1, <1>2 DEF isLeap, Leap

LEMMA MonthLengthsAre == \A m \in 1..12 : DAYS_IN_MONTH[m] \in 28..31
<1>. SUFFICES ASSUME NEW m \in 1..12 PROVE DAYS_IN_MONTH[m] \in 28..31  OBVIOUS
<1>1. m = 1 \/ m = 2 \/ m = 3 \/ m = 4 \/ m = 5 \/ m = 6 \/ m = 7 \/ m = 8 \/ m = 9
      \/ m = 10 \/ m = 11 \/ m = 12
  OBVIOUS
<1>. QED  BY <1>1 DEF DAYS_IN_MONTH

LEMMA MonthLengths ==
  ASSUME NEW y \in Nat, NEW m \in 1..12, NEW d \in Nat
  PROVE  d \in 1..MonthDays(y, m) <=>
           d \in 1..DAYS_IN_MONTH[m] /\ (m = 2 /\ d = 29 => isLeap(y))
<1>1. m = 1 \/ m = 2 \/ m = 3 \/ m = 4 \/ m = 5 \/ m = 6 \/ m = 7 \/ m = 8 \/ m = 9
      \/ m = 10 \/ m = 11 \/ m = 12
  OBVIOUS
<1>. QED  BY <1>1, LeapYears DEF MonthDays, DAYS_IN_MONTH

LEMMA FirstIsDay ==
  ASSUME NEW y \in Nat, NEW m \in 1..12 PROVE FirstOf(y, m) \in Int
<1>1. Before[m] \in Int
  BY DEF Before
<1>. QED  BY <1>1 DEF FirstOf

\* Day and hour of an instant.
LEMMA Hours ==
  ASSUME NEW day \in Int, NEW hour \in 0..23
  PROVE  /\ (24 * day + hour) \div 24 = day
         /\ (24 * day + hour) % 24 = hour
OBVIOUS


\* Leap years up to one of them, and days of a year before a month.
LeapsUpTo(y) == y \div 4 - y \div 100 + y \div 400

LEMMA LeapsGrow ==
  ASSUME NEW y \in Nat, NEW z \in Nat, y <= z PROVE LeapsUpTo(y) <= LeapsUpTo(z)
<1>1. y \div 100 = (y \div 4) \div 25 /\ z \div 100 = (z \div 4) \div 25
  OBVIOUS
<1>2. y \div 4 <= z \div 4 /\ y \div 4 \in Nat /\ z \div 4 \in Nat
  OBVIOUS
<1>3. \A p, q \in Nat : p <= q => p - p \div 25 <= q - q \div 25
  OBVIOUS
<1>4. y \div 4 - y \div 100 <= z \div 4 - z \div 100
  BY <1>1, <1>2, <1>3
<1>5. y \div 400 <= z \div 400
  OBVIOUS
<1>. QED  BY <1>4, <1>5 DEF LeapsUpTo

LEMMA LeapsCount ==
  ASSUME NEW y \in Nat \ {0}
  PROVE  LeapsUpTo(y) = LeapsUpTo(y - 1) + (IF Leap(y) THEN 1 ELSE 0)
<1>1. y \div 4 = (y - 1) \div 4 + (IF y % 4 = 0 THEN 1 ELSE 0)
  OBVIOUS
<1>2. y \div 100 = (y - 1) \div 100 + (IF y % 100 = 0 THEN 1 ELSE 0)
  OBVIOUS
<1>3. y \div 400 = (y - 1) \div 400 + (IF y % 400 = 0 THEN 1 ELSE 0)
  OBVIOUS
<1>4. (y % 400 = 0 => y % 100 = 0) /\ (y % 100 = 0 => y % 4 = 0)
  OBVIOUS
<1>5. Leap(y) <=> (y % 4 = 0 /\ y % 100 # 0) \/ y % 400 = 0
  BY LeapYears DEF isLeap
<1>6. /\ y \div 4 \in Int /\ y \div 100 \in Int /\ y \div 400 \in Int
      /\ (y - 1) \div 4 \in Int /\ (y - 1) \div 100 \in Int /\ (y - 1) \div 400 \in Int
  OBVIOUS
<1>. QED  BY <1>1, <1>2, <1>3, <1>4, <1>5, <1>6 DEF LeapsUpTo

InYear(y, m) == Before[m] + (IF m > 2 /\ Leap(y) THEN 1 ELSE 0)
Shift(y)     == IF Leap(y) THEN 1 ELSE 0

LEMMA Months ==
  ASSUME NEW y \in Nat, NEW m \in 1..12
  PROVE  /\ InYear(y, m) \in Nat /\ MonthDays(y, m) \in 28..31 /\ Shift(y) \in {0, 1}
         /\ InYear(y, m) + MonthDays(y, m) <= 365 + Shift(y)
         /\ \A n \in m + 1..12 : InYear(y, m) + MonthDays(y, m) <= InYear(y, n)
<1>1. m = 1 \/ m = 2 \/ m = 3 \/ m = 4 \/ m = 5 \/ m = 6 \/ m = 7 \/ m = 8 \/ m = 9
      \/ m = 10 \/ m = 11 \/ m = 12
  OBVIOUS
<1>2. ASSUME NEW n \in m + 1..12 PROVE InYear(y, m) + MonthDays(y, m) <= InYear(y, n)
  <2>1. n = 2 \/ n = 3 \/ n = 4 \/ n = 5 \/ n = 6 \/ n = 7 \/ n = 8 \/ n = 9
        \/ n = 10 \/ n = 11 \/ n = 12
    OBVIOUS
  <2>. QED  BY <1>1, <2>1 DEF Before, MonthDays, InYear
<1>. QED  BY <1>1, <1>2 DEF Before, MonthDays, Shift, InYear

LEMMA FirstOfIs ==
  ASSUME NEW y \in Nat \ {0}, NEW m \in 1..12
  PROVE  FirstOf(y, m) = 365 * (y - 1) + LeapsUpTo(y - 1) + InYear(y, m)
<1>. DEFINE leap == IF m > 2 /\ Leap(y) THEN 1 ELSE 0
<1>1. /\ Before[m] \in Int /\ y - 1 \in Nat /\ leap \in Int
      /\ (y - 1) \div 4 \in Int /\ (y - 1) \div 100 \in Int /\ (y - 1) \div 400 \in Int
  BY DEF Before
<1>2. FirstOf(y, m) = 365 * (y - 1) + (y - 1) \div 4 - (y - 1) \div 100 + (y - 1) \div 400
                         + Before[m] + leap
  BY DEF FirstOf
<1>. HIDE DEF leap
<1>3. FirstOf(y, m) = 365 * (y - 1) + LeapsUpTo(y - 1) + (Before[m] + leap)
  BY <1>1, <1>2 DEF LeapsUpTo
<1>. QED  BY <1>3 DEF leap, InYear

\* A day of a year comes before the years that follow.
LEMMA YearsApart ==
  ASSUME NEW y \in Nat \ {0}, NEW z \in Nat, y < z, NEW m \in 1..12, NEW n \in 1..12,
         NEW d \in 1..MonthDays(y, m), NEW e \in Nat \ {0}
  PROVE  FirstOf(y, m) + d < FirstOf(z, n) + e
<1>1. z \in Nat \ {0} /\ y - 1 \in Nat /\ z - 1 \in Nat /\ y <= z - 1
  OBVIOUS
<1>2. LeapsUpTo(y) <= LeapsUpTo(z - 1)
  BY <1>1, LeapsGrow
<1>3. LeapsUpTo(y) = LeapsUpTo(y - 1) + Shift(y)
  BY LeapsCount DEF Shift
<1>4. \A k \in Nat : LeapsUpTo(k) \in Int
  BY DEF LeapsUpTo
<1>5. /\ InYear(y, m) \in Nat /\ Shift(y) \in {0, 1} /\ MonthDays(y, m) \in 28..31
      /\ InYear(y, m) + MonthDays(y, m) <= 365 + Shift(y)
  BY Months
<1>6. InYear(z, n) \in Nat
  BY Months
<1>7. FirstOf(y, m) = 365 * (y - 1) + LeapsUpTo(y - 1) + InYear(y, m)
  BY FirstOfIs
<1>8. FirstOf(z, n) = 365 * (z - 1) + LeapsUpTo(z - 1) + InYear(z, n)
  BY <1>1, FirstOfIs
<1>. QED  BY <1>1, <1>2, <1>3, <1>4, <1>5, <1>6, <1>7, <1>8

\* A day of a month comes before the months that follow.
LEMMA MonthsApart ==
  ASSUME NEW y \in Nat \ {0}, NEW m \in 1..12, NEW n \in 1..12, m < n,
         NEW d \in 1..MonthDays(y, m), NEW e \in Nat \ {0}
  PROVE  FirstOf(y, m) + d < FirstOf(y, n) + e
<1>1. n \in m + 1..12 /\ y - 1 \in Nat
  OBVIOUS
<1>2. /\ InYear(y, m) \in Nat /\ MonthDays(y, m) \in 28..31
      /\ InYear(y, m) + MonthDays(y, m) <= InYear(y, n)
  BY <1>1, Months
<1>3. InYear(y, n) \in Nat
  BY Months
<1>4. LeapsUpTo(y - 1) \in Int
  BY <1>1 DEF LeapsUpTo
<1>5. /\ FirstOf(y, m) = 365 * (y - 1) + LeapsUpTo(y - 1) + InYear(y, m)
      /\ FirstOf(y, n) = 365 * (y - 1) + LeapsUpTo(y - 1) + InYear(y, n)
  BY FirstOfIs
<1>. QED  BY <1>2, <1>3, <1>4, <1>5

\* No two dates are stored as the same day: an instant shows one date only, so
\* that the one DatesKeepTheirDay finds is the one that was written.
THEOREM AnInstantShowsOneDate ==
  ASSUME NEW t \in Int, NEW y \in Nat \ {0}, NEW z \in Nat \ {0}, NEW m \in 1..12, NEW n \in 1..12,
         NEW d \in Nat, NEW e \in Nat, Shows(t, y, m, d), Shows(t, z, n, e)
  PROVE  y = z /\ m = n /\ d = e
<1>1. /\ d \in 1..MonthDays(y, m) /\ e \in 1..MonthDays(z, n)
      /\ FirstOf(y, m) \in Int /\ FirstOf(z, n) \in Int
      /\ FirstOf(y, m) + d = FirstOf(z, n) + e
  BY FirstIsDay DEF Shows
<1>2. y \in Nat /\ z \in Nat /\ d \in Nat \ {0} /\ e \in Nat \ {0}
  <2>1. \A c \in Int : \A k \in 1..c : k # 0
    OBVIOUS
  <2>2. MonthDays(y, m) \in Int /\ MonthDays(z, n) \in Int
    <3>1. \A x \in Nat, k \in 1..12 : MonthDays(x, k) \in Int
      BY DEF MonthDays
    <3>. QED  BY <3>1
  <2>. QED  BY <1>1, <2>1, <2>2
<1>3. ~(y < z) /\ ~(z < y)
  <2>1. ASSUME y < z PROVE FALSE
    <3>1. FirstOf(y, m) + d < FirstOf(z, n) + e
      BY <1>2, <1>1, <2>1, YearsApart
    <3>. QED  BY <1>2, <1>1, <3>1
  <2>2. ASSUME z < y PROVE FALSE
    <3>1. FirstOf(z, n) + e < FirstOf(y, m) + d
      BY <1>2, <1>1, <2>2, YearsApart
    <3>. QED  BY <1>2, <1>1, <3>1
  <2>. QED  BY <2>1, <2>2
<1>4. y = z
  BY <1>3
<1>5. ~(m < n) /\ ~(n < m)
  <2>1. ASSUME m < n PROVE FALSE
    <3>1. FirstOf(y, m) + d < FirstOf(y, n) + e
      BY <1>2, <1>1, <2>1, MonthsApart
    <3>. QED  BY <1>2, <1>1, <1>4, <3>1
  <2>2. ASSUME n < m PROVE FALSE
    <3>0. e \in 1..MonthDays(y, n)
      BY <1>1, <1>4
    <3>1. FirstOf(y, n) + e < FirstOf(y, m) + d
      BY <1>2, <2>2, <3>0, MonthsApart
    <3>. QED  BY <1>2, <1>1, <1>4, <3>1
  <2>. QED  BY <2>1, <2>2
<1>6. m = n
  BY <1>5
<1>. QED  BY <1>1, <1>4, <1>6

\* What validation admits is what the calendar has.
LEMMA RealDates ==
  ASSUME NEW w \in Written
  PROVE  isValidISODate(w) <=>
           /\ w.form \notin {"blank", "loose"} /\ w.year \in 1700..2200
           /\ w.month \in 1..12 /\ w.day \in 1..MonthDays(w.year, w.month)
<1>. w.year \in Nat /\ w.month \in Nat /\ w.day \in Nat
  BY DEF Written
<1>1. CASE w.month \in 1..12
  <2>1. DAYS_IN_MONTH[w.month] \in 1..31
    BY <1>1, MonthLengthsAre DEF DAYS_IN_MONTH
  <2>2. w.day \in 1..MonthDays(w.year, w.month) <=>
          w.day \in 1..DAYS_IN_MONTH[w.month] /\ (w.month = 2 /\ w.day = 29 => isLeap(w.year))
    BY <1>1, MonthLengths
  <2>. QED  BY <1>1, <2>1, <2>2 DEF isValidISODate, IsIsoDate
<1>2. CASE w.month \notin 1..12
  BY <1>2 DEF isValidISODate, IsIsoDate
<1>. QED  BY <1>1, <1>2

LEMMA DatesInitInv == DatesInit => DatesInv
BY DEF DatesInit, DatesInv, DatesTypeOK, DatesKeepTheirDay, Written, Forms, Now

LEMMA DatesInvNext ==
  DatesInv /\ [DatesNext \/ \E w \in Written, host \in Int : Write(w, host)]_dates => DatesInv'
<1>. SUFFICES ASSUME DatesInv, [DatesNext \/ \E w \in Written, host \in Int : Write(w, host)]_dates
              PROVE  DatesInv'
  OBVIOUS
<1>0. DatesTypeOK
  BY DEF DatesInv
<1>1. CASE \E w \in Written, host \in Int : Write(w, host)
  BY <1>0, <1>1 DEF Write, DatesInv, DatesTypeOK, DatesKeepTheirDay
<1>2. CASE DefaultToNow
  BY <1>0, <1>2 DEF DefaultToNow, DatesInv, DatesTypeOK, DatesKeepTheirDay
<1>3. CASE RequireValidDate
  <2>1. DatesTypeOK' /\ (verdict' = "valid" => written'.form # "blank" /\ isValidISODate(written'))
    BY <1>0, <1>3 DEF RequireValidDate, DatesTypeOK
  <2>2. DatesKeepTheirDay'
    BY <1>0, <1>3, RealDates DEF RequireValidDate, DatesTypeOK, DatesKeepTheirDay
  <2>. QED  BY <2>1, <2>2 DEF DatesInv
<1>4. CASE parseISODateTimeAsUTC
  <2>. DEFINE w == written
  <2>1. /\ w \in Written /\ w.form \notin {"blank", "loose"} /\ w.year \in 1700..2200
        /\ w.month \in 1..12 /\ w.day \in 1..MonthDays(w.year, w.month)
        /\ w.year \in Nat /\ w.day \in Nat /\ w.hour \in 0..23 /\ w.offset \in Int /\ w.form \in Forms
    BY <1>0, <1>4, RealDates DEF parseISODateTimeAsUTC, DatesInv, DatesTypeOK, Written
  <2>2. isRealCalendarDate(w.year, w.month, w.day)
    BY <2>1, MonthLengths DEF isRealCalendarDate
  <2>3. /\ written' = w /\ zone' = zone /\ verdict' = "stored"
        /\ moment' = DateOf(normalizeISODateTimeToUTC(w), zone)
    BY <1>4, <2>2 DEF parseISODateTimeAsUTC
  <2>. DEFINE day == FirstOf(w.year, w.month) + w.day - 1
              offset == IF w.form = "offset" THEN w.offset ELSE 0
              hour == IF w.form \in Timed THEN w.hour ELSE 0
  <2>4. day \in Int /\ hour \in 0..23 /\ offset \in Int
    BY <2>1, FirstIsDay
  <2>5. moment' = 24 * day + hour - offset
    <3>1. CASE w.form = "naive"
      <4>1. normalizeISODateTimeToUTC(w) = [w EXCEPT !.form = "utc"]
        BY <3>1 DEF normalizeISODateTimeToUTC
      <4>2. /\ [w EXCEPT !.form = "utc"].form = "utc" /\ [w EXCEPT !.form = "utc"].year = w.year
            /\ [w EXCEPT !.form = "utc"].month = w.month /\ [w EXCEPT !.form = "utc"].day = w.day
            /\ [w EXCEPT !.form = "utc"].hour = w.hour
        BY <2>1 DEF Written
      <4>. QED  BY <2>3, <3>1, <4>1, <4>2 DEF DateOf, Timed
    <3>2. CASE w.form # "naive"
      BY <2>3, <3>2 DEF DateOf, normalizeISODateTimeToUTC, Timed
    <3>. QED  BY <3>1, <3>2
  <2>6. moment' \in Int /\ moment' + offset = 24 * day + hour
    <3>. HIDE DEF day, offset, hour
    <3>. QED  BY <2>4, <2>5
  <2>7. (moment' + offset) \div 24 = day /\ (moment' + offset) % 24 = hour
    <3>. HIDE DEF day, offset, hour
    <3>. QED  BY <2>4, <2>6, Hours
  <2>8. DatesTypeOK'
    BY <1>0, <2>3, <2>6 DEF DatesTypeOK
  <2>9. DatesKeepTheirDay'
    BY <2>1, <2>3, <2>7 DEF DatesKeepTheirDay, Shows
  <2>. QED  BY <2>3, <2>8, <2>9 DEF DatesInv
<1>5. CASE UNCHANGED dates
  BY <1>5 DEF dates, DatesInv, DatesTypeOK, DatesKeepTheirDay
<1>. QED  BY <1>1, <1>2, <1>3, <1>4, <1>5 DEF DatesNext

\* For every date that can be written, on a host in any time zone.
THEOREM DatesKeepTheirDayAlways == DatesSpec => []DatesKeepTheirDay
<1>1. DatesInv => DatesKeepTheirDay
  BY DEF DatesInv
<1>. QED  BY <1>1, DatesInitInv, DatesInvNext, PTL DEF DatesSpec

===============================================================================
