----------------------- MODULE AuditBackpressureProofs -----------------------
(***************************************************************************)
(* Proofs about the backpressure manager of audit-log.ts, for every number *)
(* of entries, every number of slots and every queue size.                 *)
(***************************************************************************)
EXTENDS AuditBackpressure, FiniteSetTheorems, SequenceTheorems, TLAPS

USE BackpressureAssumption

-----------------------------------------------------------------------------
(* The queue as a list of a set.                                           *)

Lists(q, S) == IsInjective(q) /\ ToSet(q) = S

\* Appending an entry that is not queued yet (writeQueue.push).
LEMMA ListsAppend ==
    ASSUME NEW q \in Seq(Entries), NEW S, Lists(q, S), NEW e \in Entries, e \notin S
    PROVE  /\ Append(q, e) \in Seq(Entries)
           /\ Lists(Append(q, e), S \cup {e})
           /\ Len(Append(q, e)) = Len(q) + 1
<1> DEFINE r == Append(q, e)
<1>1. r \in Seq(Entries) /\ Len(r) = Len(q) + 1 /\ DOMAIN r = 1..(Len(q) + 1)
  BY AppendProperties
<1>2. \A i \in 1..Len(q) : r[i] = q[i] /\ q[i] \in S
  BY AppendProperties DEF Lists, ToSet
<1>3. r[Len(q) + 1] = e
  BY AppendProperties
<1>4. DOMAIN q = 1..Len(q)  BY LenProperties
<1>. HIDE DEF r
<1>5. IsInjective(r)
  <2>1. ASSUME NEW a \in DOMAIN r, NEW b \in DOMAIN r, r[a] = r[b]
        PROVE  a = b
    <3>1. CASE a \in 1..Len(q) /\ b \in 1..Len(q)
      <4>1. q[a] = q[b]  BY <2>1, <3>1, <1>2
      <4>. QED  BY <4>1, <3>1, <1>4 DEF Lists, IsInjective
    <3>2. CASE a = Len(q) + 1 /\ b = Len(q) + 1
      BY <3>2
    <3>3. CASE a \in 1..Len(q) /\ b = Len(q) + 1
      BY <2>1, <3>3, <1>2, <1>3
    <3>4. CASE a = Len(q) + 1 /\ b \in 1..Len(q)
      BY <2>1, <3>4, <1>2, <1>3
    <3>. QED  BY <3>1, <3>2, <3>3, <3>4, <1>1
  <2>. QED  BY <2>1 DEF IsInjective
<1>6. ToSet(r) = S \cup {e}
  <2>1. ASSUME NEW x \in ToSet(r) PROVE x \in S \cup {e}
    BY <1>1, <1>2, <1>3 DEF ToSet
  <2>2. ASSUME NEW x \in S PROVE x \in ToSet(r)
    <3>1. PICK i \in 1..Len(q) : q[i] = x  BY <1>4 DEF Lists, ToSet
    <3>2. i \in DOMAIN r /\ r[i] = x  BY <3>1, <1>1, <1>2
    <3>. QED  BY <3>2 DEF ToSet
  <2>3. e \in ToSet(r)
    <3>1. Len(q) + 1 \in DOMAIN r  BY <1>1
    <3>. QED  BY <3>1, <1>3 DEF ToSet
  <2>. QED  BY <2>1, <2>2, <2>3
<1>. QED  BY <1>1, <1>5, <1>6 DEF Lists, r

\* Taking the oldest entry (writeQueue.shift).
LEMMA ListsTail ==
    ASSUME NEW q \in Seq(Entries), NEW S, Lists(q, S), q # <<>>
    PROVE  /\ Head(q) \in S
           /\ Tail(q) \in Seq(Entries)
           /\ Lists(Tail(q), S \ {Head(q)})
           /\ Len(Tail(q)) = Len(q) - 1
<1> DEFINE r == Tail(q)
<1>1. /\ r \in Seq(Entries) /\ Len(r) = Len(q) - 1 /\ DOMAIN r = 1..(Len(q) - 1)
      /\ Head(q) = q[1] /\ Len(q) >= 1 /\ Len(q) \in Nat
  BY HeadTailProperties, LenProperties, EmptySeq
<1>2. \A i \in 1..(Len(q) - 1) : r[i] = q[i + 1]
  BY HeadTailProperties
<1>3. DOMAIN q = 1..Len(q)  BY LenProperties
<1>. HIDE DEF r
<1>4. IsInjective(r)
  <2>1. ASSUME NEW a \in 1..(Len(q) - 1), NEW b \in 1..(Len(q) - 1), r[a] = r[b]
        PROVE  a = b
    <3>1. a + 1 \in DOMAIN q /\ b + 1 \in DOMAIN q  BY <1>1, <1>3
    <3>2. q[a + 1] = q[b + 1]  BY <2>1, <1>2
    <3>3. a + 1 = b + 1  BY <3>1, <3>2 DEF Lists, IsInjective
    <3>. QED  BY <3>3
  <2>. QED  BY <2>1, <1>1 DEF IsInjective
<1>5. Head(q) \in S
  <2>1. 1 \in DOMAIN q  BY <1>1, <1>3
  <2>. QED  BY <2>1, <1>1 DEF Lists, ToSet
<1>6. ToSet(r) = S \ {Head(q)}
  <2>1. ASSUME NEW x \in ToSet(r) PROVE x \in S \ {Head(q)}
    <3>1. PICK i \in 1..(Len(q) - 1) : r[i] = x  BY <1>1 DEF ToSet
    <3>2. i + 1 \in DOMAIN q /\ 1 \in DOMAIN q /\ i + 1 # 1 /\ x = q[i + 1]
      BY <3>1, <1>1, <1>2, <1>3
    <3>. QED  BY <3>2, <1>1 DEF Lists, ToSet, IsInjective
  <2>2. ASSUME NEW x \in S \ {Head(q)} PROVE x \in ToSet(r)
    <3>1. PICK i \in 1..Len(q) : q[i] = x  BY <1>3 DEF Lists, ToSet
    <3>2. i # 1  BY <3>1, <1>1
    <3>3. i - 1 \in 1..(Len(q) - 1) /\ (i - 1) + 1 = i  BY <3>2, <1>1
    <3>4. i - 1 \in DOMAIN r /\ r[i - 1] = x  BY <3>1, <3>3, <1>1, <1>2
    <3>. QED  BY <3>4 DEF ToSet
  <2>. QED  BY <2>1, <2>2
<1>. QED  BY <1>1, <1>4, <1>5, <1>6 DEF Lists, r

\* Taking an entry out of the middle (writeQueue.splice).
LEMMA ListsSplice ==
    ASSUME NEW q \in Seq(Entries), NEW S, Lists(q, S), NEW e \in S
    PROVE  /\ Spliced(q, e) \in Seq(Entries)
           /\ Lists(Spliced(q, e), S \ {e})
           /\ Len(Spliced(q, e)) = Len(q) - 1
<1>1. DOMAIN q = 1..Len(q) /\ Len(q) \in Nat  BY LenProperties
<1> DEFINE k == CHOOSE i \in DOMAIN q : q[i] = e
           r == RemoveAt(q, k)
<1>2. k \in 1..Len(q) /\ q[k] = e
  BY <1>1 DEF Lists, ToSet
<1>3. Spliced(q, e) = r  BY DEF Spliced, Lists
<1>. HIDE DEF k
<1>4. /\ r \in Seq(Entries) /\ Len(r) = Len(q) - 1 /\ DOMAIN r = 1..(Len(q) - 1)
      /\ \A i \in 1..(Len(q) - 1) : r[i] = IF i < k THEN q[i] ELSE q[i + 1]
  <2> DEFINE s == SubSeq(q, 1, k - 1)
             t == SubSeq(q, k + 1, Len(q))
  <2>9. k \in Int /\ k - 1 \in Int /\ k + 1 \in Int /\ Len(q) \in Int  BY <1>1, <1>2
  <2>0. \A i \in 1..Len(q) : q[i] \in Entries  BY ElementOfSeq
  <2>1. /\ s \in Seq(Entries) /\ Len(s) = k - 1
        /\ \A i \in 1..(k - 1) : s[i] = q[i]
    <3>1. \A i \in 1..(k - 1) : q[i] \in Entries  BY <2>0, <1>1, <1>2
    <3>2. /\ s \in Seq(Entries)
          /\ Len(s) = IF 1 <= k - 1 THEN (k - 1) - 1 + 1 ELSE 0
          /\ \A i \in 1..((k - 1) - 1 + 1) : s[i] = q[1 + i - 1]
      BY <3>1, <2>9, SubSeqProperties
    <3>. HIDE DEF s
    <3>. QED  BY <3>2, <1>1, <1>2
  <2>2. /\ t \in Seq(Entries) /\ Len(t) = Len(q) - k
        /\ \A i \in 1..(Len(q) - k) : t[i] = q[k + i]
    <3>1. \A i \in (k + 1)..Len(q) : q[i] \in Entries  BY <2>0, <1>1, <1>2
    <3>2. /\ t \in Seq(Entries)
          /\ Len(t) = IF k + 1 <= Len(q) THEN Len(q) - (k + 1) + 1 ELSE 0
          /\ \A i \in 1..(Len(q) - (k + 1) + 1) : t[i] = q[(k + 1) + i - 1]
      BY <3>1, <2>9, SubSeqProperties
    <3>3. /\ Len(q) - (k + 1) + 1 = Len(q) - k
          /\ k + 1 <= Len(q) \/ Len(q) - k = 0
          /\ \A i \in 1..(Len(q) - k) : (k + 1) + i - 1 = k + i
      <4>1. Len(q) - (k + 1) + 1 = Len(q) - k  BY <2>9
      <4>2. k + 1 <= Len(q) \/ Len(q) - k = 0
        <5>1. k <= Len(q) /\ k \in Int /\ Len(q) \in Int  BY <1>1, <1>2
        <5> DEFINE n == Len(q)
        <5>. HIDE DEF n
        <5>2. k <= n /\ n \in Int  BY <5>1 DEF n
        <5>3. k + 1 <= n \/ n - k = 0  BY <5>1, <5>2
        <5>. QED  BY <5>3 DEF n
      <4>3. \A i \in Int : (k + 1) + i - 1 = k + i  BY <2>9
      <4>. QED  BY <4>1, <4>2, <4>3
    <3>4. Len(t) = Len(q) - k  BY <3>2, <3>3, <1>1, <1>2
    <3>. HIDE DEF t
    <3>. QED  BY <3>2, <3>3, <3>4
  <2>3. r = s \o t  BY DEF RemoveAt
  <2>. HIDE DEF s, t, r
  <2>4. /\ r \in Seq(Entries) /\ Len(r) = Len(q) - 1
        /\ \A i \in 1..(Len(q) - 1) : r[i] = IF i <= k - 1 THEN s[i] ELSE t[i - (k - 1)]
    <3>1. /\ s \o t \in Seq(Entries)
          /\ Len(s \o t) = Len(s) + Len(t)
          /\ \A i \in 1..(Len(s) + Len(t)) :
               (s \o t)[i] = IF i <= Len(s) THEN s[i] ELSE t[i - Len(s)]
      BY <2>1, <2>2, ConcatProperties
    <3>2. Len(s) = k - 1 /\ Len(s) + Len(t) = Len(q) - 1
      BY <2>1, <2>2, <1>1, <1>2
    <3>. QED  BY <3>1, <3>2, <2>3
  <2>5. DOMAIN r = 1..(Len(q) - 1)  BY <2>4, LenProperties
  <2>6. ASSUME NEW i \in 1..(Len(q) - 1)
        PROVE  r[i] = IF i < k THEN q[i] ELSE q[i + 1]
    <3>1. CASE i < k
      <4>1. i \in 1..(k - 1)  BY <3>1, <1>1, <1>2
      <4>. QED  BY <4>1, <3>1, <2>4, <2>1, <1>1, <1>2
    <3>2. CASE ~(i < k)
      <4>1. i - (k - 1) \in 1..(Len(q) - k) /\ k + (i - (k - 1)) = i + 1
        BY <3>2, <1>1, <1>2
      <4>2. t[i - (k - 1)] = q[i + 1]  BY <4>1, <2>2
      <4>. QED  BY <4>2, <3>2, <2>4, <1>1, <1>2
    <3>. QED  BY <3>1, <3>2
  <2>. QED  BY <2>4, <2>5, <2>6
<1>. HIDE DEF r
<1>5. IsInjective(r)
  <2>1. ASSUME NEW a \in 1..(Len(q) - 1), NEW b \in 1..(Len(q) - 1), r[a] = r[b]
        PROVE  a = b
    <3> DEFINE At(i) == IF i < k THEN i ELSE i + 1
    <3>1. At(a) \in DOMAIN q /\ At(b) \in DOMAIN q  BY <1>1, <1>2
    <3>2. r[a] = q[At(a)] /\ r[b] = q[At(b)]  BY <1>4
    <3>3. At(a) = At(b)
      <4>. HIDE DEF At
      <4>. QED  BY <3>1, <3>2, <2>1 DEF Lists, IsInjective
    <3>. QED  BY <3>3, <1>1, <1>2
  <2>. QED  BY <2>1, <1>4 DEF IsInjective
<1>6. ToSet(r) = S \ {e}
  <2>1. ASSUME NEW x \in ToSet(r) PROVE x \in S \ {e}
    <3>1. PICK i \in 1..(Len(q) - 1) : r[i] = x  BY <1>4 DEF ToSet
    <3>2. PICK j \in 1..Len(q) : j # k /\ q[j] = x
      <4>1. CASE i < k  BY <4>1, <3>1, <1>1, <1>2, <1>4
      <4>2. CASE ~(i < k)
        <5>1. i + 1 \in 1..Len(q) /\ i + 1 # k /\ q[i + 1] = x
          BY <4>2, <3>1, <1>1, <1>2, <1>4
        <5>. QED  BY <5>1
      <4>. QED  BY <4>1, <4>2
    <3>. QED  BY <3>2, <1>1, <1>2 DEF Lists, ToSet, IsInjective
  <2>2. ASSUME NEW x \in S \ {e} PROVE x \in ToSet(r)
    <3>1. PICK i \in 1..Len(q) : q[i] = x  BY <1>1 DEF Lists, ToSet
    <3>2. i # k  BY <3>1, <1>2
    <3>3. CASE i < k
      <4>1. i \in DOMAIN r /\ r[i] = x  BY <3>1, <3>3, <1>1, <1>2, <1>4
      <4>. QED  BY <4>1 DEF ToSet
    <3>4. CASE i > k
      <4>1. i - 1 \in 1..(Len(q) - 1) /\ ~(i - 1 < k) /\ (i - 1) + 1 = i
        BY <3>4, <1>1, <1>2
      <4>2. i - 1 \in DOMAIN r /\ r[i - 1] = x  BY <4>1, <3>1, <1>4
      <4>. QED  BY <4>2 DEF ToSet
    <3>. QED  BY <3>2, <3>3, <3>4, <1>1, <1>2
  <2>. QED  BY <2>1, <2>2
<1>. QED  BY <1>3, <1>4, <1>5, <1>6 DEF Lists

-----------------------------------------------------------------------------
(* Counting the holders of a slot.                                         *)

LEMMA HoldersFinite ==
    /\ IsFiniteSet(Holders)
    /\ Cardinality(Holders) \in Nat
    /\ Holders # {} => Cardinality(Holders) > 0
<1>1. Holders \subseteq Entries  BY DEF Holders
<1>2. IsFiniteSet(Holders) /\ Cardinality(Holders) \in Nat
  BY <1>1, FS_Subset, FS_CardinalityType
<1>3. Cardinality(Holders) = 0 <=> Holders = {}  BY <1>2, FS_EmptySet
<1>. QED  BY <1>2, <1>3

\* A slot handed from one entry to another leaves the count unchanged.
LEMMA HandedOver ==
    ASSUME NEW S, IsFiniteSet(S), NEW a \in S, NEW b, b \notin S
    PROVE  Cardinality((S \ {a}) \cup {b}) = Cardinality(S)
<1>1. IsFiniteSet(S \ {a}) /\ Cardinality(S \ {a}) = Cardinality(S) - 1
  BY FS_RemoveElement
<1>2. Cardinality((S \ {a}) \cup {b}) = Cardinality(S \ {a}) + 1
  BY <1>1, FS_AddElement
<1>3. Cardinality(S) \in Nat  BY FS_CardinalityType
<1>. QED  BY <1>1, <1>2, <1>3

-----------------------------------------------------------------------------
(* Types.                                                                  *)

LEMMA TypeInit == Init => TypeOK
BY EmptySeq DEF Init, TypeOK, Stages, Answers

\* An answer that an entry is given is one of the three.
LEMMA AnswerTyped ==
    ASSUME TypeOK, NEW e \in Entries, NEW d \in BOOLEAN, Answer(e, d)
    PROVE  /\ answer' \in [Entries -> Answers]
           /\ \A x \in Entries : x # e => answer'[x] = answer[x]
           /\ answer'[e] # "none"
           /\ ~d => answer'[e] # "warned"
<1>1. PICK a \in {IF d THEN "warned" ELSE "clean", "thrown"} :
        answer' = [answer EXCEPT ![e] = a]
  BY DEF Answer
<1>2. a \in {"warned", "clean", "thrown"} /\ (~d => a # "warned")
  BY <1>1
<1>. QED  BY <1>1, <1>2 DEF TypeOK, Answers

LEMMA TypeNext ==
    ASSUME TypeOK, QueueSound, [Next]_vars
    PROVE  TypeOK'
<1>. USE DEF TypeOK
<1>1. CASE UNCHANGED vars  BY <1>1 DEF vars
<1>2. CASE Crash
  <2>1. PICK landed \in SUBSET {e \in Entries : stage[e] = "writing"} :
          rows' = [e \in Entries |-> IF e \in landed THEN rows[e] + 1 ELSE rows[e]]
    BY <1>2 DEF Crash
  <2>2. rows' \in [Entries -> Nat]  BY <2>1
  <2>3. stage' \in [Entries -> Stages]  BY <1>2 DEF Crash, Stages
  <2>. QED  BY <1>2, <2>2, <2>3, EmptySeq DEF Crash
<1>3. ASSUME NEW e \in Entries, Step(e)
      PROVE  TypeOK'
  <2>. USE DEF Stages, Dropped, Holding
  <2>1. CASE LogRefused(e)
    <3>1. answer' \in [Entries -> Answers]  BY <2>1, AnswerTyped DEF LogRefused
    <3>2. stage' \in [Entries -> Stages]  BY <2>1 DEF LogRefused
    <3>. HIDE DEF Stages
    <3>. QED  BY <2>1, <3>1, <3>2 DEF LogRefused
  <2>2. CASE LogGranted(e)
    <3>1. answer' \in [Entries -> Answers]  BY <2>2, AnswerTyped DEF LogGranted
    <3>2. stage' \in [Entries -> Stages]  BY <2>2 DEF LogGranted
    <3>. HIDE DEF Stages
    <3>. QED  BY <2>2, <3>1, <3>2 DEF LogGranted
  <2>3. CASE LogQueued(e)
    <3>1. writeQueue' \in Seq(Entries)  BY <2>3, AppendProperties DEF LogQueued
    <3>2. answer' \in [Entries -> Answers]  BY <2>3, AnswerTyped DEF LogQueued
    <3>3. stage' \in [Entries -> Stages]  BY <2>3 DEF LogQueued
    <3>. HIDE DEF Stages
    <3>. QED  BY <2>3, <3>1, <3>2, <3>3 DEF LogQueued
  <2>4. CASE LogTimerless(e)
    <3>1. answer' \in [Entries -> Answers]  BY <2>4, AnswerTyped DEF LogTimerless
    <3>2. stage' \in [Entries -> Stages]  BY <2>4 DEF LogTimerless
    <3>. HIDE DEF Stages
    <3>. QED  BY <2>4, <3>1, <3>2 DEF LogTimerless
  <2>5. CASE SlotTimeout(e)
    <3>1. writeQueue' \in Seq(Entries)
      <4>1. Lists(writeQueue, Waiting)  BY DEF QueueSound, Lists
      <4>2. CASE e \in Waiting
        <5>1. Spliced(writeQueue, e) \in Seq(Entries)  BY <4>1, <4>2, ListsSplice
        <5>. QED  BY <2>5, <5>1 DEF SlotTimeout
      <4>3. CASE e \notin Waiting
        BY <2>5, <4>1, <4>3 DEF SlotTimeout, Spliced, Lists
      <4>. QED  BY <4>2, <4>3
    <3>2. stage' \in [Entries -> Stages]  BY <2>5 DEF SlotTimeout
    <3>3. settled' \subseteq Entries /\ droppedCount' \in Nat  BY <2>5 DEF SlotTimeout
    <3>. HIDE DEF Stages
    <3>. QED  BY <2>5, <3>1, <3>2, <3>3 DEF SlotTimeout
  <2>6. CASE BeginWrite(e)  BY <2>6 DEF BeginWrite
  <2>7. CASE EndWrite(e)
    <3>1. PICK stored, acknowledged \in BOOLEAN :
            /\ rows' = IF stored THEN [rows EXCEPT ![e] = @ + 1] ELSE rows
            /\ errorCount' = IF acknowledged THEN errorCount ELSE errorCount + 1
      BY <2>7 DEF EndWrite
    <3>2. rows' \in [Entries -> Nat] /\ errorCount' \in Nat  BY <3>1
    <3>. QED  BY <2>7, <3>2 DEF EndWrite
  <2>8. CASE Release(e)
    <3>1. UNCHANGED <<droppedCount, errorCount, answer, rows, past>>
      BY <2>8 DEF Release
    <3>2. CASE ReleaseToNobody(e)
      <4>1. activeWrites' \in Nat  BY <3>2 DEF ReleaseToNobody
      <4>2. stage' \in [Entries -> Stages]  BY <3>2 DEF ReleaseToNobody
      <4>. HIDE DEF Stages
      <4>. QED  BY <3>1, <3>2, <4>1, <4>2 DEF ReleaseToNobody
    <3>3. CASE ReleaseToNext(e)
      <4>1. Head(writeQueue) \in Entries /\ Tail(writeQueue) \in Seq(Entries)
        BY <3>3, HeadTailProperties DEF ReleaseToNext
      <4>2. stage' \in [Entries -> Stages]  BY <3>3, <4>1 DEF ReleaseToNext
      <4>3. activeWrites' \in Nat  BY <3>3 DEF ReleaseToNext
      <4>. HIDE DEF Stages
      <4>. QED  BY <3>1, <3>3, <4>1, <4>2, <4>3 DEF ReleaseToNext
    <3>. QED  BY <2>8, <3>2, <3>3 DEF Release
  <2>. QED  BY <1>3, <2>1, <2>2, <2>3, <2>4, <2>5, <2>6, <2>7, <2>8 DEF Step, Log
<1>. QED  BY <1>1, <1>2, <1>3 DEF Next

-----------------------------------------------------------------------------
(* The inductive invariant: the slots, the queue and the timers agree.     *)

\* An entry is settled only after it was logged.
SettledSound == \A e \in settled : stage[e] # "new"

QueueBounded == Len(writeQueue) <= MaxQueue

\* A timer is armed for a waiting entry only: a granted entry cannot be timed
\* out under its writer (audit-log.ts:484-489, 536-543).
TimersSound == \A e \in timers : stage[e] = "waiting"

IInv ==
    /\ TypeOK
    /\ SettledSound
    /\ SlotAccounting
    /\ QueueSound
    /\ TimersSound
    /\ QueueBounded
    /\ NoIdleSlot

LEMMA IInvInit == Init => IInv
<1>. SUFFICES ASSUME Init PROVE IInv  OBVIOUS
<1>1. TypeOK  BY TypeInit
<1>2. Holders = {} /\ Waiting = {}
  BY DEF Init, Holders, Waiting, Holding
<1>3. SlotAccounting  BY <1>2, FS_EmptySet DEF Init, SlotAccounting
<1>4. QueueSound
  BY <1>2, EmptySeq DEF Init, QueueSound, IsInjective, ToSet
<1>5. TimersSound /\ QueueBounded /\ NoIdleSlot
  BY EmptySeq DEF Init, TimersSound, QueueBounded, NoIdleSlot
<1>6. SettledSound  BY DEF Init, SettledSound
<1>. QED  BY <1>1, <1>3, <1>4, <1>5, <1>6 DEF IInv

\* What one entry's move does to the sets of holders and of waiting entries.
LEMMA OneMove ==
    ASSUME TypeOK, NEW e \in Entries, NEW s \in Stages,
           stage' = [stage EXCEPT ![e] = s]
    PROVE  /\ Holders' = IF s \in Holding THEN Holders \cup {e} ELSE Holders \ {e}
           /\ Waiting' = IF s = "waiting" THEN Waiting \cup {e} ELSE Waiting \ {e}
BY DEF TypeOK, Holders, Waiting

\* A slot is counted as long as it is held.
LEMMA SlotsNext ==
    ASSUME IInv, [Next]_vars
    PROVE  SlotAccounting'
<1>. USE DEF IInv, SlotAccounting
<1>0. IsFiniteSet(Holders) /\ Cardinality(Holders) \in Nat
  BY HoldersFinite
<1>1. CASE UNCHANGED vars
  BY <1>1 DEF vars, Holders
<1>2. CASE Crash
  <2>1. Holders' = {}
    BY <1>2 DEF Crash, Holders, Live, Holding, TypeOK
  <2>. QED  BY <1>2, <2>1, FS_EmptySet DEF Crash
<1>3. ASSUME NEW e \in Entries, Step(e)
      PROVE  SlotAccounting'
  <2>1. ASSUME NEW s \in Stages, stage' = [stage EXCEPT ![e] = s],
               s \in Holding <=> stage[e] \in Holding, UNCHANGED activeWrites
        PROVE  SlotAccounting'
    <3>1. Holders' = Holders  BY <2>1, OneMove DEF Holders
    <3>. QED  BY <2>1, <3>1
  <2>2. CASE LogRefused(e) \/ LogTimerless(e) \/ LogQueued(e)
    BY <2>1, <2>2 DEF LogRefused, LogTimerless, LogQueued, Stages, Dropped, Holding
  <2>3. CASE BeginWrite(e) \/ EndWrite(e)
    BY <2>1, <2>3 DEF BeginWrite, EndWrite, Stages, Dropped, Holding
  <2>4. CASE SlotTimeout(e)
    <3>1. CASE e \in settled
      BY <2>4, <3>1 DEF SlotTimeout, Holders
    <3>2. CASE e \notin settled
      BY <2>1, <2>4, <3>2 DEF SlotTimeout, TimersSound, Stages, Dropped, Holding
    <3>. QED  BY <3>1, <3>2
  <2>5. CASE LogGranted(e)
    <3>1. e \notin Holders  BY <2>5 DEF LogGranted, Holders, Holding
    <3>2. Holders' = Holders \cup {e}
      BY <2>5, OneMove DEF LogGranted, Stages, Holding
    <3>3. Cardinality(Holders') = Cardinality(Holders) + 1
      BY <3>1, <3>2, <1>0, FS_AddElement
    <3>. QED  BY <2>5, <3>3 DEF LogGranted, TypeOK
  <2>6. CASE ReleaseToNobody(e)
    <3>1. e \in Holders  BY <2>6 DEF ReleaseToNobody, Holders, Holding
    <3>2. Holders' = Holders \ {e}
      BY <2>6, OneMove DEF ReleaseToNobody, Stages, Dropped, Holding
    <3>3. Cardinality(Holders') = Cardinality(Holders) - 1
      BY <3>1, <3>2, <1>0, FS_RemoveElement
    <3>4. activeWrites > 0  BY <3>1, HoldersFinite
    <3>5. activeWrites' = activeWrites - 1  BY <2>6, <3>4 DEF ReleaseToNobody, TypeOK
    <3>. QED  BY <3>3, <3>5 DEF TypeOK
  <2>7. CASE ReleaseToNext(e)
    <3> DEFINE next == Head(writeQueue)
    <3>1. e \in Holders  BY <2>7 DEF ReleaseToNext, Holders, Holding
    <3>2. next \in Waiting
      BY <2>7, ListsTail DEF ReleaseToNext, QueueSound, Lists, TypeOK
    <3>3. next \notin settled /\ next \notin Holders /\ next # e
      BY <3>1, <3>2 DEF QueueSound, Waiting, Holders, Holding
    <3>4. stage' = [stage EXCEPT ![e] = "released", ![next] = "granted"]
      BY <2>7, <3>3 DEF ReleaseToNext
    <3>5. Holders' = (Holders \ {e}) \cup {next}
      BY <3>2, <3>3, <3>4 DEF Holders, Waiting, Holding, TypeOK
    <3>6. Cardinality(Holders') = Cardinality(Holders)
      BY <3>1, <3>3, <3>5, <1>0, HandedOver
    <3>7. activeWrites' = activeWrites  BY <2>7, <3>3 DEF ReleaseToNext
    <3>. QED  BY <3>6, <3>7
  <2>. QED  BY <1>3, <2>2, <2>3, <2>4, <2>5, <2>6, <2>7 DEF Step, Log, Release
<1>. QED  BY <1>1, <1>2, <1>3 DEF Next

\* The queue and the timers follow the waiting entries.
LEMMA QueueNext ==
    ASSUME IInv, [Next]_vars
    PROVE  QueueSound' /\ TimersSound' /\ QueueBounded' /\ NoIdleSlot'
<1>. DEFINE Goal == QueueSound /\ TimersSound /\ QueueBounded /\ NoIdleSlot
<1>. USE DEF IInv
<1>0. /\ Lists(writeQueue, Waiting)
      /\ writeQueue \in Seq(Entries)
      /\ Len(writeQueue) \in Nat
      /\ activeWrites \in Nat
  BY LenProperties DEF QueueSound, Lists, TypeOK
<1>1. CASE UNCHANGED vars
  BY <1>1 DEF vars, QueueSound, TimersSound, QueueBounded, NoIdleSlot, Waiting
<1>2. CASE Crash
  <2>1. Waiting' = {}
    BY <1>2 DEF Crash, Waiting, Live, TypeOK
  <2>2. QueueSound'
    BY <1>2, <2>1, EmptySeq DEF Crash, QueueSound, IsInjective, ToSet
  <2>. QED
    BY <1>2, <2>2, EmptySeq DEF Crash, TimersSound, QueueBounded, NoIdleSlot
<1>3. ASSUME NEW e \in Entries, Step(e)
      PROVE  Goal'
  <2>1. ASSUME NEW s \in Stages, stage' = [stage EXCEPT ![e] = s],
               s # "waiting", stage[e] # "waiting",
               UNCHANGED <<writeQueue, timers, settled>>,
               writeQueue = <<>> \/ UNCHANGED activeWrites
        PROVE  Goal'
    <3>1. Waiting' = Waiting  BY <2>1, OneMove DEF Waiting
    <3>2. QueueSound'  BY <2>1, <3>1 DEF QueueSound
    <3>3. TimersSound'  BY <2>1 DEF TimersSound, TypeOK
    <3>. QED  BY <2>1, <3>2, <3>3 DEF QueueBounded, NoIdleSlot
  <2>2. CASE LogRefused(e) \/ LogTimerless(e)
    BY <2>1, <2>2 DEF LogRefused, LogTimerless, Stages, Dropped
  <2>3. CASE BeginWrite(e) \/ EndWrite(e)
    BY <2>1, <2>3 DEF BeginWrite, EndWrite, Stages, Holding
  <2>4. CASE LogGranted(e)
    <3>1. writeQueue = <<>>
      BY <2>4, <1>0 DEF LogGranted, NoIdleSlot
    <3>. QED  BY <2>1, <2>4, <3>1 DEF LogGranted, Stages, Holding
  <2>5. CASE LogQueued(e)
    <3>1. e \notin Waiting  BY <2>5 DEF LogQueued, Waiting
    <3>2. Waiting' = Waiting \cup {e}
      BY <2>5, OneMove DEF LogQueued, Stages
    <3>3. Lists(writeQueue', Waiting') /\ Len(writeQueue') = Len(writeQueue) + 1
      BY <2>5, <3>1, <3>2, <1>0, ListsAppend DEF LogQueued
    <3>4. e \notin settled'
      BY <2>5 DEF LogQueued, SettledSound
    <3>5. QueueSound'  BY <2>5, <3>2, <3>3, <3>4 DEF LogQueued, QueueSound, Lists
    <3>6. TimersSound'  BY <2>5 DEF LogQueued, TimersSound, TypeOK
    <3>7. QueueBounded'
      BY <2>5, <3>3, <1>0 DEF LogQueued, QueueIsFull, QueueBounded
    <3>8. NoIdleSlot'
      BY <2>5, <1>0 DEF LogQueued, NoIdleSlot, SlotAccounting
    <3>. QED  BY <3>5, <3>6, <3>7, <3>8
  <2>6. CASE SlotTimeout(e)
    <3>1. e \in Waiting /\ e \notin settled
      BY <2>6 DEF SlotTimeout, TimersSound, Waiting, QueueSound
    <3>2. Waiting' = Waiting \ {e}
      BY <2>6, <3>1, OneMove DEF SlotTimeout, Stages, Dropped
    <3>3. Lists(writeQueue', Waiting') /\ Len(writeQueue') = Len(writeQueue) - 1
      <4>1. /\ Lists(Spliced(writeQueue, e), Waiting \ {e})
            /\ Len(Spliced(writeQueue, e)) = Len(writeQueue) - 1
        BY <3>1, <1>0, ListsSplice
      <4>2. writeQueue' = Spliced(writeQueue, e)  BY <2>6, <3>1 DEF SlotTimeout
      <4>. QED  BY <4>1, <4>2, <3>2
    <3>4. QueueSound'
      BY <2>6, <3>1, <3>2, <3>3 DEF SlotTimeout, QueueSound, Lists
    <3>5. TimersSound'
      BY <2>6, <3>1 DEF SlotTimeout, TimersSound, TypeOK
    <3>6. QueueBounded'  BY <3>3, <1>0 DEF QueueBounded
    <3>7. writeQueue # <<>>
      BY <3>1, EmptySeq DEF QueueSound, ToSet
    <3>8. NoIdleSlot'  BY <2>6, <3>7 DEF SlotTimeout, NoIdleSlot
    <3>. QED  BY <3>4, <3>5, <3>6, <3>8
  <2>7. CASE ReleaseToNobody(e)
    <3>1. activeWrites > 0
      BY <2>7, HoldersFinite DEF ReleaseToNobody, Holders, Holding, SlotAccounting
    <3>2. writeQueue = <<>>  BY <2>7, <3>1 DEF ReleaseToNobody, TypeOK
    <3>. QED  BY <2>1, <2>7, <3>2 DEF ReleaseToNobody, Stages
  <2>8. CASE ReleaseToNext(e)
    <3> DEFINE next == Head(writeQueue)
    <3>1. /\ next \in Waiting
          /\ Lists(Tail(writeQueue), Waiting \ {next})
          /\ Len(Tail(writeQueue)) = Len(writeQueue) - 1
      BY <2>8, <1>0, ListsTail DEF ReleaseToNext
    <3>2. next \notin settled /\ next # e
      BY <2>8, <3>1 DEF ReleaseToNext, QueueSound, Waiting
    <3>3. /\ stage' = [stage EXCEPT ![e] = "released", ![next] = "granted"]
          /\ timers' = timers \ {next}
          /\ settled' = settled \cup {next}
          /\ activeWrites' = activeWrites
          /\ writeQueue' = Tail(writeQueue)
          /\ stage[e] = "closing" /\ writeQueue # <<>>
      BY <2>8, <3>2 DEF ReleaseToNext
    <3>. HIDE DEF next
    <3>4. Waiting' = Waiting \ {next}
      BY <3>1, <3>2, <3>3 DEF Waiting, TypeOK
    <3>5. QueueSound'  BY <3>1, <3>3, <3>4 DEF QueueSound, Lists
    <3>6. TimersSound'
      BY <3>1, <3>3 DEF TimersSound, Waiting, TypeOK
    <3>7. QueueBounded'  BY <3>1, <3>3, <1>0 DEF QueueBounded
    <3>8. NoIdleSlot'  BY <3>3 DEF NoIdleSlot
    <3>. QED  BY <3>5, <3>6, <3>7, <3>8
  <2>. QED
    BY <1>3, <2>2, <2>3, <2>4, <2>5, <2>6, <2>7, <2>8 DEF Step, Log, Release
<1>. QED  BY <1>1, <1>2, <1>3 DEF Next

LEMMA SettledNext ==
    ASSUME IInv, [Next]_vars
    PROVE  SettledSound'
<1>. USE DEF IInv, SettledSound
<1>1. CASE UNCHANGED vars  BY <1>1 DEF vars
<1>2. CASE Crash  BY <1>2 DEF Crash
<1>3. ASSUME NEW e \in Entries, Step(e)
      PROVE  SettledSound'
  <2>1. CASE Log(e) \/ BeginWrite(e) \/ EndWrite(e)
    BY <2>1 DEF Log, LogRefused, LogGranted, LogQueued, LogTimerless, BeginWrite, EndWrite,
       TypeOK
  <2>2. CASE SlotTimeout(e)  BY <2>2 DEF SlotTimeout, TypeOK
  <2>3. CASE ReleaseToNobody(e)  BY <2>3 DEF ReleaseToNobody, TypeOK
  <2>4. CASE ReleaseToNext(e)
    <3>1. Head(writeQueue) \in Entries
      BY <2>4, HeadTailProperties DEF ReleaseToNext, TypeOK
    <3>. QED  BY <2>4, <3>1 DEF ReleaseToNext, TypeOK
  <2>. QED  BY <1>3, <2>1, <2>2, <2>3, <2>4 DEF Step, Release
<1>. QED  BY <1>1, <1>2, <1>3 DEF Next

\* The slots, the queue and the timers of the manager agree in every state.
THEOREM InductiveInvariant == Spec => []IInv
<1>1. Init => IInv  BY IInvInit
<1>2. IInv /\ [Next]_vars => IInv'
  <2>1. IInv /\ [Next]_vars => TypeOK'  BY TypeNext DEF IInv
  <2>2. IInv /\ [Next]_vars => SlotAccounting'  BY SlotsNext
  <2>3. IInv /\ [Next]_vars => QueueSound' /\ TimersSound' /\ QueueBounded' /\ NoIdleSlot'
    BY QueueNext
  <2>4. IInv /\ [Next]_vars => SettledSound'  BY SettledNext
  <2>. QED  BY <2>1, <2>2, <2>3, <2>4 DEF IInv
<1>. QED  BY <1>1, <1>2, PTL DEF Spec

\* Every variable keeps its type.
THEOREM TypeCorrect == Spec => []TypeOK
<1>1. IInv => TypeOK  BY DEF IInv
<1>. QED  BY <1>1, InductiveInvariant, PTL

\* The write slots are counted exactly and never oversubscribed
\* (acquireWriteSlot and releaseWriteSlot, audit-log.ts:476-545).
THEOREM SlotsAreCounted == Spec => []SlotAccounting
<1>1. IInv => SlotAccounting  BY DEF IInv
<1>. QED  BY <1>1, InductiveInvariant, PTL

\* No slot idles while an entry waits, whatever the order of releases and
\* timeouts.
THEOREM NoSlotIdles == Spec => []NoIdleSlot
<1>1. IInv => NoIdleSlot  BY DEF IInv
<1>. QED  BY <1>1, InductiveInvariant, PTL

\* The queue lists exactly the waiting entries, in a bounded length, and only
\* they can time out.
THEOREM QueueIsSound == Spec => [](QueueSound /\ QueueBounded /\ TimersSound)
<1>1. IInv => QueueSound /\ QueueBounded /\ TimersSound  BY DEF IInv
<1>. QED  BY <1>1, InductiveInvariant, PTL

-----------------------------------------------------------------------------
(* How an entry moves.                                                     *)

\* Every stage an entry can be in after one more step.
After(s) ==
    IF s = "new" THEN {"new", "refused", "timerless", "granted", "waiting"}
    ELSE IF s = "waiting" THEN {"waiting", "granted", "timedOut", "lost"}
    ELSE IF s = "granted" THEN {"granted", "writing", "lost"}
    ELSE IF s = "writing" THEN {"writing", "closing", "lost"}
    ELSE IF s = "closing" THEN {"closing", "released", "lost"}
    ELSE {s}

\* An entry only moves forward.
LEMMA Forward ==
    ASSUME IInv, [Next]_vars, NEW x \in Entries
    PROVE  stage'[x] \in After(stage[x])
<1>. USE DEF IInv, After
<1>1. CASE UNCHANGED vars
  BY <1>1 DEF vars, TypeOK, Stages, Dropped, Holding
<1>2. CASE Crash
  BY <1>2 DEF Crash, Live, Holding, Dropped, TypeOK, Stages
<1>3. ASSUME NEW e \in Entries, Step(e)
      PROVE  stage'[x] \in After(stage[x])
  <2>1. CASE Log(e)
    BY <2>1 DEF Log, LogRefused, LogGranted, LogQueued, LogTimerless, TypeOK
  <2>2. CASE SlotTimeout(e)
    BY <2>2 DEF SlotTimeout, TimersSound, TypeOK
  <2>3. CASE BeginWrite(e) \/ EndWrite(e) \/ ReleaseToNobody(e)
    BY <2>3 DEF BeginWrite, EndWrite, ReleaseToNobody, TypeOK
  <2>4. CASE ReleaseToNext(e)
    <3>1. Head(writeQueue) \in Waiting
      BY <2>4, ListsTail DEF ReleaseToNext, QueueSound, Lists, TypeOK
    <3>2. Head(writeQueue) # e  BY <2>4, <3>1 DEF ReleaseToNext, Waiting
    <3>. QED  BY <2>4, <3>1, <3>2 DEF ReleaseToNext, Waiting, TypeOK
  <2>. QED  BY <1>3, <2>1, <2>2, <2>3, <2>4 DEF Step, Release
<1>. QED  BY <1>1, <1>2, <1>3 DEF Next

-----------------------------------------------------------------------------
(* One row for one call.                                                   *)

\* A row exists only once its write has been sent; an answer that announced a
\* gap belongs to an entry that never left `log`.
RowSound(x) ==
    /\ rows[x] <= (IF stage[x] \in {"closing", "released", "lost"} THEN 1 ELSE 0)
    /\ stage[x] = "new" => answer[x] = "none"
    /\ answer[x] = "warned" => stage[x] \in {"refused", "timerless"}

RowsSound == \A x \in Entries : RowSound(x)

LEMMA RowsNext ==
    ASSUME IInv, RowsSound, [Next]_vars
    PROVE  RowsSound'
<1>. SUFFICES ASSUME NEW x \in Entries PROVE RowSound(x)'
  BY DEF RowsSound
<1>. USE DEF IInv
<1>0. RowSound(x) /\ rows[x] \in Nat /\ stage[x] \in Stages
  BY DEF RowsSound, TypeOK
<1>1. CASE UNCHANGED vars  BY <1>0, <1>1 DEF vars, RowSound
<1>2. CASE Crash
  <2>1. PICK landed \in SUBSET {e \in Entries : stage[e] = "writing"} :
          rows' = [e \in Entries |-> IF e \in landed THEN rows[e] + 1 ELSE rows[e]]
    BY <1>2 DEF Crash
  <2>2. stage'[x] = IF x \in Live THEN "lost" ELSE stage[x]
    BY <1>2 DEF Crash
  <2>3. answer' = answer  BY <1>2 DEF Crash
  <2>4. rows'[x] = IF x \in landed THEN rows[x] + 1 ELSE rows[x]  BY <2>1
  <2>5. x \in landed => stage[x] = "writing" /\ x \in Live
    BY <2>1 DEF Live, Holding
  <2>. QED  BY <1>0, <2>2, <2>3, <2>4, <2>5 DEF RowSound, Live, Holding
<1>3. ASSUME NEW e \in Entries, Step(e)
      PROVE  RowSound(x)'
  <2>1. CASE LogRefused(e) \/ LogTimerless(e)
    <3>1. answer'[x] = "none" => x # e
      BY <2>1, AnswerTyped DEF LogRefused, LogTimerless
    <3>2. x # e => answer'[x] = answer[x]
      BY <2>1, AnswerTyped DEF LogRefused, LogTimerless
    <3>. QED  BY <1>0, <2>1, <3>1, <3>2 DEF LogRefused, LogTimerless, RowSound, TypeOK
  <2>2. CASE LogGranted(e) \/ LogQueued(e)
    <3>1. answer'[e] # "warned" /\ answer'[e] # "none"
      BY <2>2, AnswerTyped DEF LogGranted, LogQueued
    <3>2. x # e => answer'[x] = answer[x]
      BY <2>2, AnswerTyped DEF LogGranted, LogQueued
    <3>. QED  BY <1>0, <2>2, <3>1, <3>2 DEF LogGranted, LogQueued, RowSound, TypeOK
  <2>3. ASSUME UNCHANGED <<rows, answer>>
        PROVE  RowSound(x)'
    <3>1. stage'[x] \in After(stage[x])  BY Forward
    <3>2. rows'[x] = rows[x] /\ answer'[x] = answer[x]  BY <2>3
    <3>3. stage[x] \in {"refused", "timerless"} => stage'[x] = stage[x]
      BY <3>1 DEF After
    <3>4. stage[x] \in {"closing", "released", "lost"}
            => stage'[x] \in {"closing", "released", "lost"}
      BY <3>1 DEF After
    <3>5. stage'[x] = "new" => stage[x] = "new"
      BY <1>0, <3>1 DEF After, Stages, Dropped, Holding
    <3>. QED  BY <1>0, <3>2, <3>3, <3>4, <3>5 DEF RowSound
  <2>4. CASE EndWrite(e)
    <3>1. PICK stored \in BOOLEAN : rows' = IF stored THEN [rows EXCEPT ![e] = @ + 1] ELSE rows
      BY <2>4 DEF EndWrite
    <3>2. rows'[x] <= (IF x = e THEN rows[x] + 1 ELSE rows[x])
      BY <1>0, <3>1 DEF TypeOK
    <3>3. /\ stage[e] = "writing" /\ stage' = [stage EXCEPT ![e] = "closing"]
          /\ answer' = answer /\ rows'[x] \in Nat
      BY <2>4, <3>1, <1>0 DEF EndWrite, TypeOK
    <3>. QED  BY <1>0, <3>2, <3>3 DEF RowSound, TypeOK
  <2>. QED
    BY <1>3, <2>1, <2>2, <2>3, <2>4
    DEF Step, Log, SlotTimeout, BeginWrite, Release
<1>. QED  BY <1>1, <1>2, <1>3 DEF Next

\* A tool call leaves at most one row in the audit table, and none at all when
\* its answer announced a gap (executeAndLog, audit-log.ts:408-428).
THEOREM OneRowPerCall == Spec => []AuditedAtMostOnce
<1>1. Init => RowsSound  BY DEF Init, RowsSound, RowSound
<1>2. IInv /\ RowsSound /\ [Next]_vars => RowsSound'  BY RowsNext
<1>3. IInv /\ RowsSound => AuditedAtMostOnce
  <2>. SUFFICES ASSUME IInv, RowsSound, NEW x \in Entries
               PROVE  rows[x] <= (IF answer[x] = "warned" THEN 0 ELSE 1)
    BY DEF AuditedAtMostOnce
  <2>1. rows[x] \in Nat  BY DEF IInv, TypeOK
  <2>. QED  BY <2>1 DEF RowsSound, RowSound
<1>. QED  BY <1>1, <1>2, <1>3, InductiveInvariant, PTL DEF Spec

\* The queue is served in order: a slot never passes over an older entry.
THEOREM OrderIsKept == Spec => ServedInOrder
<1>1. IInv /\ [Next]_vars =>
        [\A i, j \in 1..Len(writeQueue) :
          (i < j /\ stage'[writeQueue[j]] = "granted") => stage'[writeQueue[i]] # "waiting"]_vars
  <2>. SUFFICES ASSUME IInv, Next, NEW i \in 1..Len(writeQueue), NEW j \in 1..Len(writeQueue),
                       i < j, stage'[writeQueue[j]] = "granted", stage'[writeQueue[i]] = "waiting"
                PROVE  FALSE
    OBVIOUS
  <2>. DEFINE a == writeQueue[i]
              b == writeQueue[j]
  <2>1. /\ a \in Waiting /\ b \in Waiting /\ a # b /\ j # 1
        /\ writeQueue # <<>> /\ Head(writeQueue) = writeQueue[1]
    <3>1. writeQueue \in Seq(Entries) /\ DOMAIN writeQueue = 1..Len(writeQueue)
      BY LenProperties DEF IInv, TypeOK
    <3>2. a \in Waiting /\ b \in Waiting
      BY <3>1 DEF IInv, QueueSound, ToSet
    <3>3. a # b  BY <3>1 DEF IInv, QueueSound, IsInjective
    <3>. QED  BY <3>1, <3>2, <3>3, EmptySeq
  <2>2. b # Head(writeQueue)
    <3>1. 1 \in DOMAIN writeQueue /\ j \in DOMAIN writeQueue
      BY <2>1, LenProperties DEF IInv, TypeOK
    <3>. QED  BY <2>1, <3>1 DEF IInv, QueueSound, IsInjective
  <2>3. a \in Entries /\ b \in Entries /\ stage[a] = "waiting" /\ stage[b] = "waiting"
    BY <2>1 DEF Waiting
  <2>. HIDE DEF a, b
  <2>4. stage'[b] = "granted" /\ stage'[a] = "waiting"  BY DEF a, b
  <2>5. ~Crash
    BY <2>3, <2>4 DEF Crash, Live
  <2>6. PICK e \in Entries : Step(e)  BY <2>5 DEF Next
  <2>7. ~Log(e)
    BY <2>3, <2>4 DEF Log, LogRefused, LogGranted, LogQueued, LogTimerless, IInv, TypeOK
  <2>8. ~SlotTimeout(e)
    BY <2>3, <2>4 DEF SlotTimeout, IInv, TypeOK
  <2>9. ~BeginWrite(e) /\ ~EndWrite(e) /\ ~ReleaseToNobody(e)
    BY <2>3, <2>4 DEF BeginWrite, EndWrite, ReleaseToNobody, IInv, TypeOK
  <2>10. ~ReleaseToNext(e)
    BY <2>2, <2>3, <2>4 DEF ReleaseToNext, IInv, TypeOK
  <2>. QED  BY <2>6, <2>7, <2>8, <2>9, <2>10 DEF Step, Release
<1>. QED  BY <1>1, InductiveInvariant, PTL DEF Spec, ServedInOrder

-----------------------------------------------------------------------------
(* Counting the gaps of the running process.                               *)

Gaps   == {e \in Entries \ past : stage[e] \in Dropped}
Errors == {e \in Entries \ past : stage[e] \in {"closing", "released"} /\ rows[e] = 0}

\* An entry of a process that has died stays where it was left.
PastSound == \A e \in past : stage[e] \in {"released", "lost"} \cup Dropped

LEMMA GapsFinite ==
    /\ IsFiniteSet(Gaps) /\ Cardinality(Gaps) \in Nat
    /\ IsFiniteSet(Errors) /\ Cardinality(Errors) \in Nat
<1>1. Gaps \in SUBSET Entries /\ Errors \in SUBSET Entries  BY DEF Gaps, Errors
<1>. QED  BY <1>1, FS_Subset, FS_CardinalityType

LEMMA PastNext ==
    ASSUME IInv, PastSound, [Next]_vars
    PROVE  PastSound'
<1>1. \A x \in Entries : stage'[x] \in After(stage[x]) /\ stage[x] \in Stages
  BY Forward DEF IInv, TypeOK
<1>2. CASE past' = past
  <2>1. past \subseteq Entries  BY DEF IInv, TypeOK
  <2>. QED  BY <1>1, <1>2, <2>1 DEF PastSound, After, Dropped
<1>3. CASE Crash
  <2>1. /\ past' = {e \in Entries : stage[e] # "new"}
        /\ stage' = [e \in Entries |-> IF e \in Live THEN "lost" ELSE stage[e]]
    BY <1>3 DEF Crash
  <2>. QED  BY <1>1, <2>1 DEF PastSound, Live, Holding, Stages, Dropped
<1>4. past' = past \/ Crash
  BY DEF Next, Step, Log, LogRefused, LogGranted, LogQueued, LogTimerless, SlotTimeout,
     BeginWrite, EndWrite, Release, vars
<1>. QED  BY <1>2, <1>3, <1>4

\* One entry is given up, and counted.
LEMMA OneGapMore ==
    ASSUME NEW e \in Entries, e \notin Gaps, Gaps' = Gaps \cup {e}
    PROVE  Cardinality(Gaps') = Cardinality(Gaps) + 1
BY GapsFinite, FS_AddElement

LEMMA GapsNext ==
    ASSUME IInv, PastSound, GapsAreCounted, [Next]_vars
    PROVE  GapsAreCounted'
<1>0. /\ stage \in [Entries -> Stages] /\ rows \in [Entries -> Nat] /\ past \subseteq Entries
      /\ droppedCount \in Nat /\ errorCount \in Nat
      /\ droppedCount = Cardinality(Gaps) /\ errorCount >= Cardinality(Errors)
  BY DEF IInv, TypeOK, GapsAreCounted, Gaps, Errors
<1>. SUFFICES droppedCount' = Cardinality(Gaps') /\ errorCount' >= Cardinality(Errors')
  BY DEF GapsAreCounted, Gaps, Errors
<1>1. CASE Gaps' = Gaps /\ Errors' = Errors /\ UNCHANGED <<droppedCount, errorCount>>
  BY <1>0, <1>1
<1>2. CASE Crash
  <2>1. /\ past' = {e \in Entries : stage[e] # "new"} /\ droppedCount' = 0 /\ errorCount' = 0
        /\ stage' = [e \in Entries |-> IF e \in Live THEN "lost" ELSE stage[e]]
    BY <1>2 DEF Crash
  <2>2. Gaps' = {} /\ Errors' = {}
    BY <2>1 DEF Gaps, Errors, Live, Dropped
  <2>. QED  BY <2>1, <2>2, FS_EmptySet
<1>3. ASSUME NEW e \in Entries, LogRefused(e) \/ LogTimerless(e) \/ SlotTimeout(e)
      PROVE  droppedCount' = Cardinality(Gaps') /\ errorCount' >= Cardinality(Errors')
  <2>1. /\ stage[e] \in {"new", "waiting"} /\ e \notin past
        /\ droppedCount' = droppedCount + 1
        /\ UNCHANGED <<rows, past, errorCount>>
        /\ \E s \in Dropped : stage' = [stage EXCEPT ![e] = s]
    BY <1>3 DEF LogRefused, LogTimerless, SlotTimeout, IInv, TimersSound, QueueSound,
       SettledSound, Waiting, PastSound, Dropped
  <2>2. PICK s \in Dropped : stage' = [stage EXCEPT ![e] = s]
    BY <2>1
  <2>3. Gaps' = Gaps \cup {e} /\ e \notin Gaps
    BY <1>0, <2>1, <2>2 DEF Gaps, Dropped
  <2>4. Errors' = Errors
    BY <1>0, <2>1, <2>2 DEF Errors, Dropped
  <2>. QED  BY <1>0, <2>1, <2>3, <2>4, OneGapMore
<1>4. ASSUME NEW e \in Entries, EndWrite(e)
      PROVE  droppedCount' = Cardinality(Gaps') /\ errorCount' >= Cardinality(Errors')
  <2>1. /\ stage[e] = "writing" /\ stage' = [stage EXCEPT ![e] = "closing"]
        /\ UNCHANGED <<past, droppedCount>>
    BY <1>4 DEF EndWrite
  <2>2. Gaps' = Gaps
    BY <1>0, <2>1 DEF Gaps, Dropped
  <2>3. PICK stored \in BOOLEAN, acknowledged \in BOOLEAN :
          /\ acknowledged => stored
          /\ rows' = IF stored THEN [rows EXCEPT ![e] = @ + 1] ELSE rows
          /\ errorCount' = IF acknowledged THEN errorCount ELSE errorCount + 1
    BY <1>4 DEF EndWrite
  <2>4. Errors' \subseteq Errors \cup {e} /\ (acknowledged => e \notin Errors')
    BY <1>0, <2>1, <2>3 DEF Errors
  <2>5. CASE acknowledged
    <3>1. Errors' \in SUBSET Errors  BY <2>4, <2>5
    <3>2. Cardinality(Errors') <= Cardinality(Errors) /\ Cardinality(Errors') \in Nat
      BY <3>1, GapsFinite, FS_Subset, FS_CardinalityType
    <3>. QED  BY <1>0, <2>1, <2>2, <2>3, <2>5, <3>2, GapsFinite
  <2>6. CASE ~acknowledged
    <3>1. /\ IsFiniteSet(Errors \cup {e})
          /\ Cardinality(Errors \cup {e}) <= Cardinality(Errors) + 1
      BY GapsFinite, FS_AddElement
    <3>2. Cardinality(Errors') <= Cardinality(Errors \cup {e})
          /\ Cardinality(Errors') \in Nat /\ Cardinality(Errors \cup {e}) \in Nat
      BY <2>4, <3>1, FS_Subset, FS_CardinalityType
    <3>. QED  BY <1>0, <2>1, <2>2, <2>3, <2>6, <3>1, <3>2, GapsFinite
  <2>. QED  BY <2>5, <2>6
<1>5. ASSUME NEW e \in Entries,
             LogGranted(e) \/ LogQueued(e) \/ BeginWrite(e) \/ Release(e)
      PROVE  Gaps' = Gaps /\ Errors' = Errors /\ UNCHANGED <<droppedCount, errorCount>>
  <2>1. UNCHANGED <<rows, past, droppedCount, errorCount>>
    BY <1>5 DEF LogGranted, LogQueued, BeginWrite, Release
  <2>2. ASSUME NEW x \in Entries
        PROVE  /\ stage'[x] \in Dropped <=> stage[x] \in Dropped
               /\ stage'[x] \in {"closing", "released"} <=> stage[x] \in {"closing", "released"}
    <3>1. CASE LogGranted(e) \/ LogQueued(e) \/ BeginWrite(e) \/ ReleaseToNobody(e)
      BY <1>0, <3>1 DEF LogGranted, LogQueued, BeginWrite, ReleaseToNobody, Dropped
    <3>2. CASE ReleaseToNext(e)
      <4>1. Head(writeQueue) \in Waiting
        BY <3>2, ListsTail DEF ReleaseToNext, QueueSound, Lists, IInv, TypeOK
      <4>. QED  BY <1>0, <3>2, <4>1 DEF ReleaseToNext, Waiting, Dropped
    <3>. QED  BY <1>5, <3>1, <3>2 DEF Release
  <2>. QED  BY <2>1, <2>2 DEF Gaps, Errors
<1>6. CASE UNCHANGED vars
  BY <1>1, <1>6 DEF vars, Gaps, Errors
<1>. QED  BY <1>1, <1>2, <1>3, <1>4, <1>5, <1>6 DEF Next, Step, Log

\* The running process has counted every entry it gave up, and every write it
\* tried and did not store, whatever died before it.
THEOREM NoGapIsSilent == Spec => []GapsAreCounted
<1>1. Init => PastSound /\ GapsAreCounted
  <2>. SUFFICES ASSUME Init PROVE PastSound /\ GapsAreCounted  OBVIOUS
  <2>1. /\ {e \in Entries \ past : stage[e] \in Dropped} = {}
        /\ {e \in Entries \ past : stage[e] \in {"closing", "released"} /\ rows[e] = 0} = {}
    BY DEF Init, Dropped
  <2>2. droppedCount = 0 /\ errorCount = 0 /\ past = {}  BY DEF Init
  <2>3. Cardinality({}) = 0  BY FS_EmptySet
  <2>4. GapsAreCounted
    <3>1. /\ Cardinality({e \in Entries \ past : stage[e] \in Dropped}) = 0
          /\ Cardinality({e \in Entries \ past :
                 stage[e] \in {"closing", "released"} /\ rows[e] = 0}) = 0
      BY <2>1, <2>3, Zenon
    <3>. QED  BY <2>2, <3>1 DEF GapsAreCounted
  <2>. QED  BY <2>2, <2>4 DEF PastSound
<1>2. IInv /\ PastSound /\ GapsAreCounted /\ [Next]_vars => PastSound' /\ GapsAreCounted'
  BY PastNext, GapsNext
<1>. QED  BY <1>1, <1>2, InductiveInvariant, PTL DEF Spec

-----------------------------------------------------------------------------
(* The manager implements the pool.                                        *)

LEMMA PoolBusy == Pool!Busy(PoolView) = Cardinality(Holders)
<1>1. {e \in Entries : PoolView[e] = "running"} = Holders
  BY DEF PoolView, PoolStage, Holders, Holding
<1>2. Pool!Busy(PoolView) = Cardinality({e \in Entries : PoolView[e] = "running"})
  BY Zenon DEF Pool!Busy, Pool!Cardinality, Cardinality
<1>. QED  BY <1>1, <1>2

\* Slots are never oversubscribed and none idles while an entry waits: seen
\* through stage alone, the counter and the queue keep the promise of the pool.
LEMMA PoolConserving ==
    IInv => Pool!Conserving(PoolView)
<1>. SUFFICES ASSUME IInv PROVE Pool!Conserving(PoolView)  OBVIOUS
<1>1. Pool!Busy(PoolView) = activeWrites /\ activeWrites <= MaxWrites
  BY PoolBusy DEF IInv, SlotAccounting
<1>2. ASSUME NEW e \in Entries, PoolView[e] = "waiting"
      PROVE  activeWrites = MaxWrites
  <2>1. e \in Waiting
    BY <1>2 DEF PoolView, PoolStage, Waiting, Holding
  <2>2. writeQueue # <<>>
    BY <2>1, EmptySeq DEF IInv, QueueSound, ToSet
  <2>. QED  BY <2>2 DEF IInv, NoIdleSlot
<1>. QED  BY <1>1, <1>2 DEF Pool!Conserving

\* Every step of the manager is a step of the pool.
THEOREM ImplementsPool == Spec => Pool!SafetySpec
<1>1. Init => Pool!Init
  BY DEF Init, Pool!Init, PoolView, PoolStage
<1>2. IInv /\ IInv' /\ [Next]_vars => [Pool!Next]_PoolView
  <2>. SUFFICES ASSUME IInv, IInv', [Next]_vars PROVE Pool!Next
    OBVIOUS
  <2>1. PoolView' \in [Entries -> {"new", "waiting", "running", "ended"}]
    BY DEF PoolView, PoolStage
  <2>2. ASSUME NEW e \in Entries PROVE PoolView'[e] \in Pool!Later(PoolView[e])
    <3>1. stage'[e] \in After(stage[e])  BY Forward
    <3>2. stage[e] \in Stages  BY DEF IInv, TypeOK
    <3>3. PoolView[e] = PoolStage(stage[e]) /\ PoolView'[e] = PoolStage(stage'[e])
      BY DEF PoolView
    <3>. QED
      BY <3>1, <3>2, <3>3 DEF After, PoolStage, Stages, Dropped, Holding, Pool!Later
  <2>3. Pool!Conserving(PoolView)'
    <3>1. IInv' => Pool!Conserving(PoolView)'  BY PoolConserving, PTL
    <3>. QED  BY <3>1
  <2>. QED  BY <2>1, <2>2, <2>3 DEF Pool!Next
<1>. QED  BY <1>1, <1>2, InductiveInvariant, PTL DEF Spec, Pool!SafetySpec
=============================================================================
