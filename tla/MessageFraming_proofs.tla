------------------------ MODULE MessageFraming_proofs ------------------------
(***************************************************************************)
(* Proofs about the byte stream, for any messages, any reads and a buffer  *)
(* of any size: what the scene is given between frames is exactly what was *)
(* sent, and reads that end with a message are survived.                   *)
(***************************************************************************)
EXTENDS MessageFraming, FiniteSetTheorems, SequenceTheorems, FunctionTheorems, NaturalsInduction, WellFoundedInduction, TLAPS

\* Induction, for a set of numbers instead of a property of them.
LEMMA SetInduction ==
    ASSUME NEW S, 0 \in S, \A i \in Nat : i \in S => i + 1 \in S
    PROVE  Nat \subseteq S
<1> DEFINE T == Nat \ S
<1> SUFFICES ASSUME T # {} PROVE FALSE
    OBVIOUS
<1>1. IsWellFoundedOn(OpToRel(<, Nat), Nat)
    BY NatLessThanWellFounded
<1>2. \E x \in T : \A y \in T : ~ (<<y, x>> \in OpToRel(<, Nat))
    BY <1>1, WFMin
<1>3. PICK x \in T : \A y \in T : ~ (y < x)
    BY <1>2 DEF OpToRel
<1>4. x - 1 \in Nat /\ x - 1 < x /\ x - 1 + 1 = x
    OBVIOUS
<1> QED
    BY <1>3, <1>4

----------------------------------------------------------------------------
(* The stream is the messages one after another. *)

\* The characters of the messages, and the messages.
Printed == Char \ {Zero}
Text == Seq(Printed)

\* f lists what the first 1, 2, ... N parts of s amount to.
Joined(f, s, N) == \A i \in 1..N : f[i] = IF i = 1 THEN s[1] ELSE f[i - 1] \o s[i]

LEMMA JoinedExists ==
    ASSUME NEW s \in Seq(Text), NEW N \in Nat, N <= Len(s)
    PROVE  \E f \in [1..N -> Text] : Joined(f, s, N)
<1> DEFINE S == {k \in Nat : k <= Len(s) => \E f \in [1..k -> Text] : Joined(f, s, k)}
<1>0. Len(s) \in Nat /\ \A i \in 1..Len(s) : s[i] \in Text
    BY LenProperties, ElementOfSeq
<1>1. 0 \in S
    <2> DEFINE f == [i \in 1..0 |-> <<>>]
    <2>1. f \in [1..0 -> Text] /\ Joined(f, s, 0)
        BY DEF Joined
    <2> QED
        BY <2>1
<1>2. ASSUME NEW k \in Nat, k \in S PROVE k + 1 \in S
    <2> SUFFICES ASSUME k + 1 <= Len(s)
                 PROVE  \E f \in [1..(k + 1) -> Text] : Joined(f, s, k + 1)
        OBVIOUS
    <2>1. PICK f \in [1..k -> Text] : Joined(f, s, k)
        BY <1>0, <1>2
    <2> DEFINE next == IF k = 0 THEN s[1] ELSE f[k] \o s[k + 1]
               g == [i \in 1..(k + 1) |-> IF i = k + 1 THEN next ELSE f[i]]
    <2>2. next \in Text
        <3>1. CASE k = 0
            BY <1>0, <3>1
        <3>2. CASE k # 0
            <4>1. f[k] \in Text /\ s[k + 1] \in Text
                BY <1>0, <3>2
            <4> QED
                BY <3>2, <4>1, ConcatProperties DEF Text
        <3> QED
            BY <3>1, <3>2
    <2> HIDE DEF next
    <2>3. /\ g \in [1..(k + 1) -> Text] /\ g[k + 1] = next
          /\ \A i \in 1..k : g[i] = f[i]
        BY <2>2
    <2> HIDE DEF g
    <2>4. ASSUME NEW i \in 1..(k + 1)
          PROVE  g[i] = IF i = 1 THEN s[1] ELSE g[i - 1] \o s[i]
        <3>1. CASE i = k + 1
            <4>1. CASE k = 0
                BY <2>3, <3>1, <4>1 DEF next
            <4>2. CASE k # 0
                <5>1. i # 1 /\ i - 1 = k /\ k \in 1..k
                    BY <3>1, <4>2
                <5>2. g[k] = f[k]
                    BY <2>3, <5>1
                <5> QED
                    BY <2>3, <3>1, <4>2, <5>1, <5>2 DEF next
            <4> QED
                BY <4>1, <4>2
        <3>2. CASE i # k + 1
            <4>1. i \in 1..k /\ (i # 1 => i - 1 \in 1..k)
                BY <3>2
            <4> QED
                BY <2>1, <2>3, <4>1 DEF Joined
        <3> QED
            BY <3>1, <3>2
    <2>5. Joined(g, s, k + 1)
        BY <2>4 DEF Joined
    <2> QED
        BY <2>3, <2>5
<1> HIDE DEF S
<1>3. N \in S
    BY <1>1, <1>2, SetInduction
<1> QED
    BY <1>3 DEF S

\* FlattenSeq() is the last of them.
LEMMA FlattenIs ==
    ASSUME NEW s \in Seq(Text), s # <<>>
    PROVE  \E f \in [1..Len(s) -> Text] : Joined(f, s, Len(s)) /\ FlattenSeq(s) = f[Len(s)]
<1> DEFINE N == Len(s)
           Step(f) == [i \in 1..N |-> IF i = 1 THEN s[i] ELSE f[i - 1] \o s[i]]
           flatten == CHOOSE f : f = Step(f)
<1>1. N \in Nat /\ N # 0
    BY LenProperties, EmptySeq
<1>2. FlattenSeq(s) = flatten[N]
    BY <1>1 DEF FlattenSeq
<1>3. PICK g \in [1..N -> Text] : Joined(g, s, N)
    BY <1>1, JoinedExists
<1>4. g = Step(g)
    BY <1>3 DEF Joined
<1>5. flatten = Step(flatten)
    BY <1>4
<1> HIDE DEF flatten
<1>6. Joined(flatten, s, N)
    <2>1. DOMAIN flatten = 1..N
        BY <1>5
    <2> QED
        BY <1>5, <2>1 DEF Joined
<1>7. flatten \in [1..N -> Text]
    <2> DEFINE S == {i \in Nat : i + 1 <= N => flatten[i + 1] \in Text}
    <2>0. \A i \in 1..N : s[i] \in Text
        BY ElementOfSeq
    <2>1. 0 \in S
        BY <1>1, <1>6, <2>0 DEF Joined
    <2>2. ASSUME NEW i \in Nat, i \in S PROVE i + 1 \in S
        <3> SUFFICES ASSUME (i + 1) + 1 <= N PROVE flatten[(i + 1) + 1] \in Text
            OBVIOUS
        <3>1. flatten[i + 1] \in Text /\ s[(i + 1) + 1] \in Text
            BY <1>1, <2>0, <2>2
        <3>2. (i + 1) + 1 \in 1..N /\ (i + 1) + 1 # 1 /\ ((i + 1) + 1) - 1 = i + 1
            BY <1>1
        <3>3. flatten[(i + 1) + 1] = flatten[i + 1] \o s[(i + 1) + 1]
            BY <1>6, <3>2 DEF Joined
        <3> QED
            BY <3>1, <3>3, ConcatProperties DEF Text
    <2> HIDE DEF S
    <2>3. Nat \subseteq S
        BY <2>1, <2>2, SetInduction
    <2>4. ASSUME NEW i \in 1..N PROVE flatten[i] \in Text
        <3>1. i - 1 \in S /\ (i - 1) + 1 = i
            BY <2>3
        <3> QED
            BY <1>1, <3>1 DEF S
    <2>5. flatten = [i \in 1..N |-> flatten[i]]
        BY <1>5
    <2> QED
        BY <2>4, <2>5
<1> QED
    BY <1>2, <1>6, <1>7

\* Where two lists of texts begin alike, so does what they amount to.
LEMMA JoinedAlike ==
    ASSUME NEW s, NEW t, NEW f, NEW g, NEW N \in Nat, Joined(f, s, N), Joined(g, t, N),
           \A i \in 1..N : s[i] = t[i]
    PROVE  \A i \in 1..N : f[i] = g[i]
<1> DEFINE S == {i \in Nat : i + 1 <= N => f[i + 1] = g[i + 1]}
<1>1. 0 \in S
    BY DEF Joined
<1>2. ASSUME NEW i \in Nat, i \in S PROVE i + 1 \in S
    <2> SUFFICES ASSUME (i + 1) + 1 <= N PROVE f[(i + 1) + 1] = g[(i + 1) + 1]
        OBVIOUS
    <2>1. f[i + 1] = g[i + 1]
        BY <1>2
    <2>2. (i + 1) + 1 \in 1..N /\ (i + 1) + 1 # 1 /\ ((i + 1) + 1) - 1 = i + 1
        OBVIOUS
    <2> QED
        BY <2>1, <2>2 DEF Joined
<1> HIDE DEF S
<1>3. Nat \subseteq S
    BY <1>1, <1>2, SetInduction
<1>4. ASSUME NEW i \in 1..N PROVE f[i] = g[i]
    <2>1. i - 1 \in S /\ (i - 1) + 1 = i
        BY <1>3
    <2> QED
        BY <2>1 DEF S
<1> QED
    BY <1>4

\* What FlattenSeq() does: nothing yields nothing, and one message more is put behind.
LEMMA FlattenNothing == FlattenSeq(<<>>) = <<>>
BY DEF FlattenSeq

LEMMA FlattenType == ASSUME NEW s \in Seq(Text) PROVE FlattenSeq(s) \in Text
<1>1. CASE s = <<>>
    <2>1. <<>> \in Seq(Printed)
        BY EmptySeq
    <2> QED
        BY <1>1, <2>1, FlattenNothing DEF Text
<1>2. CASE s # <<>>
    <2>1. PICK f \in [1..Len(s) -> Text] : FlattenSeq(s) = f[Len(s)]
        BY <1>2, FlattenIs
    <2>2. Len(s) \in 1..Len(s)
        BY <1>2, LenProperties, EmptySeq
    <2> QED
        BY <2>1, <2>2
<1> QED
    BY <1>1, <1>2

LEMMA FlattenAppend ==
    ASSUME NEW s \in Seq(Text), NEW m \in Text
    PROVE  FlattenSeq(Append(s, m)) = FlattenSeq(s) \o m
<1> DEFINE t == Append(s, m)
           N == Len(s)
<1>1. /\ t \in Seq(Text) /\ t # <<>> /\ Len(t) = N + 1 /\ N \in Nat /\ t[N + 1] = m
      /\ \A i \in 1..N : t[i] = s[i]
    BY AppendProperties, LenProperties
<1> HIDE DEF t
<1>2. PICK g \in [1..(N + 1) -> Text] : Joined(g, t, N + 1) /\ FlattenSeq(t) = g[N + 1]
    BY <1>1, FlattenIs
<1>3. CASE s = <<>>
    <2>1. N = 0 /\ g[1] = t[1] /\ t[1] = m
        BY <1>1, <1>2, <1>3 DEF Joined
    <2>2. FlattenSeq(s) \o m = m
        BY <1>3, FlattenNothing, ConcatEmptySeq DEF Text
    <2> QED
        BY <1>2, <2>1, <2>2 DEF t
<1>4. CASE s # <<>>
    <2>1. PICK f \in [1..N -> Text] : Joined(f, s, N) /\ FlattenSeq(s) = f[N]
        BY <1>4, FlattenIs
    <2>0. \A i \in 1..(N + 1) : g[i] = IF i = 1 THEN t[1] ELSE g[i - 1] \o t[i]
        BY <1>2 DEF Joined
    <2>2. Joined(g, t, N)
        <3>1. \A i \in 1..N : i \in 1..(N + 1)
            BY <1>1
        <3> QED
            BY <2>0, <3>1 DEF Joined
    <2>3. N \in 1..N
        BY <1>1, <1>4, EmptySeq
    <2>4. f[N] = g[N]
        BY <1>1, <2>1, <2>2, <2>3, JoinedAlike
    <2>5. g[N + 1] = g[N] \o t[N + 1]
        <3>1. N + 1 \in 1..(N + 1) /\ N + 1 # 1 /\ (N + 1) - 1 = N
            BY <1>1, <2>3
        <3> HIDE DEF N
        <3> QED
            BY <2>0, <3>1
    <2> QED
        BY <1>1, <1>2, <2>1, <2>4, <2>5 DEF t
<1> QED
    BY <1>3, <1>4

----------------------------------------------------------------------------
(* The messages in the stream. *)

\* What the first j messages amount to.
Part(s, j) == FlattenSeq(SubSeq(s, 1, j))

LEMMA FirstMessages ==
    ASSUME NEW s \in Seq(Text), NEW j \in 0..Len(s)
    PROVE  /\ SubSeq(s, 1, j) \in Seq(Text) /\ Len(SubSeq(s, 1, j)) = j
           /\ \A i \in 1..j : SubSeq(s, 1, j)[i] = s[i]
<1>1. Len(s) \in Nat /\ \A i \in 1..Len(s) : s[i] \in Text
    BY LenProperties, ElementOfSeq
<1>2. \A i \in 1..j : s[i] \in Text
    BY <1>1
<1>3. 1 \in Int /\ j \in Int /\ j \in Nat
    BY <1>1
<1>4. /\ SubSeq(s, 1, j) \in Seq(Text)
      /\ Len(SubSeq(s, 1, j)) = IF 1 <= j THEN j - 1 + 1 ELSE 0
      /\ \A i \in 1..(j - 1 + 1) : SubSeq(s, 1, j)[i] = s[1 + i - 1]
    BY <1>2, <1>3, SubSeqProperties
<1> QED
    BY <1>3, <1>4

LEMMA NextPart ==
    ASSUME NEW s \in Seq(Text), NEW j \in Nat, j < Len(s)
    PROVE  /\ Part(s, j) \in Text /\ s[j + 1] \in Text
           /\ SubSeq(s, 1, j + 1) = Append(SubSeq(s, 1, j), s[j + 1])
           /\ Part(s, j + 1) = Part(s, j) \o s[j + 1]
           /\ Len(Part(s, j + 1)) = Len(Part(s, j)) + Len(s[j + 1])
<1>1. Len(s) \in Nat /\ j \in 0..Len(s) /\ j + 1 \in 0..Len(s) /\ j + 1 \in 1..Len(s)
    BY LenProperties
<1> DEFINE a == SubSeq(s, 1, j)
           b == SubSeq(s, 1, j + 1)
           m == s[j + 1]
<1>2. /\ a \in Seq(Text) /\ Len(a) = j /\ \A i \in 1..j : a[i] = s[i]
      /\ b \in Seq(Text) /\ Len(b) = j + 1 /\ \A i \in 1..(j + 1) : b[i] = s[i]
    BY <1>1, FirstMessages
<1>3. m \in Text
    BY <1>1, ElementOfSeq
<1> HIDE DEF a, b, m
<1>4. /\ Append(a, m) \in Seq(Text) /\ Len(Append(a, m)) = j + 1
      /\ \A i \in 1..j : Append(a, m)[i] = a[i]
      /\ Append(a, m)[j + 1] = m
    BY <1>2, <1>3, AppendProperties
<1>5. b = Append(a, m)
    <2>1. \A i \in 1..(j + 1) : b[i] = Append(a, m)[i]
        <3>1. \A i \in 1..(j + 1) : i \in 1..j \/ i = j + 1
            OBVIOUS
        <3> QED
            BY <1>2, <1>4, <3>1 DEF m
    <2> QED
        BY <1>2, <1>4, <2>1, SeqEqual
<1>6. FlattenSeq(a) \in Text
    BY <1>2, FlattenType
<1>7. FlattenSeq(b) = FlattenSeq(a) \o m
    BY <1>2, <1>3, <1>5, FlattenAppend
<1>8. Len(FlattenSeq(b)) = Len(FlattenSeq(a)) + Len(m)
    BY <1>3, <1>6, <1>7, ConcatProperties DEF Text
<1> QED
    BY <1>3, <1>5, <1>6, <1>7, <1>8 DEF Part, a, b, m

LEMMA PartTypes ==
    ASSUME NEW s \in Seq(Text), NEW j \in 0..Len(s)
    PROVE  Part(s, j) \in Text /\ Len(Part(s, j)) \in Nat
<1>1. Part(s, j) \in Text
    BY FirstMessages, FlattenType DEF Part
<1> QED
    BY <1>1, LenProperties DEF Text

\* The stream begins with what the first messages amount to.
LEMMA PartsNest ==
    ASSUME NEW s \in Seq(Text), NEW j \in 0..Len(s), NEW k \in j..Len(s)
    PROVE  /\ Len(Part(s, j)) <= Len(Part(s, k))
           /\ \A i \in 1..Len(Part(s, j)) : Part(s, k)[i] = Part(s, j)[i]
<1> DEFINE Nested(e) == /\ Len(Part(s, j)) <= Len(Part(s, j + e))
                        /\ \A i \in 1..Len(Part(s, j)) : Part(s, j + e)[i] = Part(s, j)[i]
           S == {e \in Nat : j + e <= Len(s) => Nested(e)}
<1>0. Len(s) \in Nat /\ j \in Nat
    BY LenProperties
<1>1. 0 \in S
    <2>1. j + 0 = j
        BY <1>0
    <2>2. Len(Part(s, j)) \in Nat
        BY PartTypes
    <2> QED
        BY <2>1, <2>2
<1>2. ASSUME NEW e \in Nat, e \in S PROVE e + 1 \in S
    <2> SUFFICES ASSUME j + (e + 1) <= Len(s) PROVE Nested(e + 1)
        OBVIOUS
    <2>1. Nested(e) /\ j + e \in Nat /\ j + e < Len(s) /\ j + (e + 1) = (j + e) + 1
        BY <1>0, <1>2
    <2> DEFINE p == Part(s, j + e)
               m == s[(j + e) + 1]
    <2>2. p \in Text /\ m \in Text /\ Part(s, (j + e) + 1) = p \o m
        BY <2>1, NextPart
    <2>3. Len(Part(s, j)) \in Nat
        BY PartTypes
    <2>4. Len(Part(s, j)) <= Len(p) /\ \A i \in 1..Len(Part(s, j)) : p[i] = Part(s, j)[i]
        BY <2>1
    <2> HIDE DEF p, m
    <2>5. /\ Len(p \o m) = Len(p) + Len(m) /\ Len(p) \in Nat /\ Len(m) \in Nat
          /\ \A i \in 1..(Len(p) + Len(m)) : (p \o m)[i] = IF i <= Len(p) THEN p[i] ELSE m[i - Len(p)]
        BY <2>2, ConcatProperties, LenProperties DEF Text
    <2>6. \A i \in 1..Len(Part(s, j)) : i \in 1..(Len(p) + Len(m)) /\ i <= Len(p)
        BY <2>3, <2>4, <2>5
    <2>7. Len(Part(s, j)) <= Len(p \o m) /\ \A i \in 1..Len(Part(s, j)) : (p \o m)[i] = Part(s, j)[i]
        BY <2>3, <2>4, <2>5, <2>6
    <2> QED
        BY <2>1, <2>2, <2>7
<1> HIDE DEF S
<1>3. k - j \in S
    BY <1>0, <1>1, <1>2, SetInduction
<1>4. j + (k - j) = k
    BY <1>0
<1> QED
    BY <1>3, <1>4 DEF S

\* All the messages are the stream.
LEMMA StreamOf ==
    ASSUME NEW s \in Seq(Messages \cup Raw)
    PROVE  /\ s \in Seq(Text) /\ FlattenSeq(s) \in Text /\ Len(FlattenSeq(s)) \in Nat
           /\ Part(s, Len(s)) = FlattenSeq(s) /\ Len(s) \in Nat
           /\ \A i \in 1..Len(s) : s[i] \in Messages \cup Raw
<1>1. Messages \cup Raw \subseteq Text
    BY FramingAssumption DEF Text, Printed
<1>2. Len(s) \in Nat /\ s \in [1..Len(s) -> Messages \cup Raw]
    BY LenProperties
<1>3. s \in Seq(Text)
    <2>1. s \in [1..Len(s) -> Text]
        BY <1>1, <1>2
    <2> QED
        BY <1>2, <2>1, IsASeq
<1>4. FlattenSeq(s) \in Text /\ Len(FlattenSeq(s)) \in Nat
    BY <1>3, FlattenType, LenProperties DEF Text
<1>5. SubSeq(s, 1, Len(s)) = s
    <2>1. /\ SubSeq(s, 1, Len(s)) \in Seq(Text) /\ Len(SubSeq(s, 1, Len(s))) = Len(s)
          /\ \A i \in 1..Len(s) : SubSeq(s, 1, Len(s))[i] = s[i]
        BY <1>2, <1>3, FirstMessages
    <2> QED
        BY <1>3, <2>1, SeqEqual
<1> QED
    BY <1>2, <1>3, <1>4, <1>5 DEF Part

\* What is written behind does not change what was there.
LEMMA StreamGrows ==
    ASSUME NEW s \in Seq(Text), NEW m \in Text
    PROVE  /\ \A j \in 0..Len(s) : SubSeq(Append(s, m), 1, j) = SubSeq(s, 1, j)
           /\ \A i \in 1..Len(FlattenSeq(s)) : FlattenSeq(Append(s, m))[i] = FlattenSeq(s)[i]
           /\ Len(FlattenSeq(Append(s, m))) = Len(FlattenSeq(s)) + Len(m)
           /\ Len(FlattenSeq(s)) \in Nat /\ Len(m) \in Nat
<1> DEFINE t == Append(s, m)
<1>1. /\ t \in Seq(Text) /\ Len(t) = Len(s) + 1 /\ Len(s) \in Nat
      /\ \A i \in 1..Len(s) : t[i] = s[i]
    BY AppendProperties, LenProperties
<1>2. FlattenSeq(t) = FlattenSeq(s) \o m /\ FlattenSeq(s) \in Text
    BY FlattenAppend, FlattenType
<1> HIDE DEF t
<1>3. ASSUME NEW j \in 0..Len(s) PROVE SubSeq(t, 1, j) = SubSeq(s, 1, j)
    <2>1. j \in 0..Len(t) /\ \A i \in 1..j : i \in 1..Len(s)
        BY <1>1
    <2>2. /\ SubSeq(t, 1, j) \in Seq(Text) /\ Len(SubSeq(t, 1, j)) = j
          /\ \A i \in 1..j : SubSeq(t, 1, j)[i] = t[i]
        BY <1>1, <2>1, FirstMessages
    <2>3. /\ SubSeq(s, 1, j) \in Seq(Text) /\ Len(SubSeq(s, 1, j)) = j
          /\ \A i \in 1..j : SubSeq(s, 1, j)[i] = s[i]
        BY FirstMessages
    <2>4. \A i \in 1..j : SubSeq(t, 1, j)[i] = SubSeq(s, 1, j)[i]
        BY <1>1, <2>1, <2>2, <2>3
    <2> QED
        BY <2>2, <2>3, <2>4, SeqEqual
<1> DEFINE f == FlattenSeq(s)
<1>4. f \in Seq(Printed) /\ m \in Seq(Printed)
    BY <1>2 DEF Text
<1> HIDE DEF f
<1>5. /\ Len(f \o m) = Len(f) + Len(m) /\ Len(f) \in Nat /\ Len(m) \in Nat
      /\ \A i \in 1..(Len(f) + Len(m)) : (f \o m)[i] = IF i <= Len(f) THEN f[i] ELSE m[i - Len(f)]
    BY <1>4, ConcatProperties, LenProperties
<1>6. \A i \in 1..Len(f) : (f \o m)[i] = f[i]
    <2>1. \A i \in 1..Len(f) : i \in 1..(Len(f) + Len(m)) /\ i <= Len(f)
        BY <1>5
    <2> QED
        BY <1>5, <2>1
<1> QED
    BY <1>2, <1>3, <1>5, <1>6 DEF f, t

----------------------------------------------------------------------------
(* The invariant. *)

\* The messages heard so far, if `begin` is still within the data.
Keeping ==
    /\ pc = "poll" => begin = n
    /\ pc # "aborted" /\ begin <= n =>
        /\ Len(heard) \in 0..Len(sent)
        /\ heard = SubSeq(sent, 1, Len(heard))
        /\ Len(Part(sent, Len(heard))) + n = pos + begin

\* The first n bytes of the buffer are the last ones that were read.
LastRead == n <= pos /\ \A i \in 1..n : data[i] = Bytes[(pos - n) + i]

\* What leads to an abort.
Cut == pos \notin Boundary \/ \E j \in DOMAIN sent : sent[j] \in Raw
Overrun == pc = "aborted" \/ (pc = "loop" /\ begin > n) => Cut

FrameInv == FramingTypeOK /\ Keeping /\ LastRead /\ Overrun

\* How often a character is among k of the buffer, and among the first k of a message.
CountAt(d, c, b, k) == Cardinality({i \in (b + 1)..(b + k) : d[i] = c})
CountOf(m, c, k) == Cardinality({i \in 1..k : m[i] = c})

\* The characters of a message that is in the buffer count as they do in the message.
LEMMA CountAlike ==
    ASSUME NEW d, NEW m, NEW c, NEW b \in Nat, NEW k \in Nat, \A i \in 1..k : d[b + i] = m[i]
    PROVE  CountAt(d, c, b, k) = CountOf(m, c, k)
<1> DEFINE A == {i \in 1..k : m[i] = c}
           B == {i \in (b + 1)..(b + k) : d[i] = c}
           f == [i \in A |-> b + i]
<1>1. IsFiniteSet(A)
    <2>1. IsFiniteSet(1..k)
        <3>1. 1 \in Int /\ k \in Int
            OBVIOUS
        <3> QED
            BY <3>1, FS_Interval
    <2> QED
        BY <2>1, FS_Subset
<1>2. \A i \in A : b + i \in B
    OBVIOUS
<1>3. \A j \in B : j - b \in A /\ b + (j - b) = j
    <2> SUFFICES ASSUME NEW j \in B PROVE j - b \in A /\ b + (j - b) = j
        OBVIOUS
    <2>1. j - b \in 1..k /\ b + (j - b) = j
        OBVIOUS
    <2>2. d[b + (j - b)] = m[j - b]
        BY <2>1
    <2> QED
        BY <2>1, <2>2
<1>4. \A i, j \in A : b + i = b + j => i = j
    OBVIOUS
<1> HIDE DEF A, B
<1>5. f \in Bijection(A, B)
    <2>1. f \in [A -> B] /\ \A i \in A : f[i] = b + i
        BY <1>2
    <2>2. \A i, j \in A : f[i] = f[j] => i = j
        BY <1>4, <2>1
    <2>3. \A j \in B : \E i \in A : f[i] = j
        BY <1>3, <2>1
    <2> QED
        BY <2>1, <2>2, <2>3, Fun_IsBij
<1>6. Cardinality(A) = Cardinality(B)
    BY <1>1, <1>5, FS_Bijection DEF ExistsBijection
<1> QED
    BY <1>6 DEF A, B, CountAt, CountOf

LEMMA ClosedAsInMessage ==
    ASSUME NEW m, begin \in Nat, NEW k \in Nat, \A i \in 1..k : data[begin + i] = m[i]
    PROVE  Closed(begin + 1, begin + k) <=> Balanced(m, k)
<1>1. \A c : CountAt(data, c, begin, k) = CountOf(m, c, k)
    BY CountAlike
<1>2. Closed(begin + 1, begin + k) <=> CountAt(data, "{", begin, k) = CountAt(data, "}", begin, k)
    BY Zenon DEF Closed, CountAt
<1>3. Balanced(m, k) <=> CountOf(m, "{", k) = CountOf(m, "}", k)
    BY Zenon DEF Balanced, CountOf
<1> QED
    BY <1>1, <1>2, <1>3

\* Where the loop stands, the next message begins, as far as it has been read.
LEMMA NextMessage ==
    ASSUME FrameInv, pc = "loop", begin < n
    PROVE  LET h == Len(heard)
           IN  /\ h \in Nat /\ h < Len(sent) /\ h + 1 \in DOMAIN sent
               /\ sent[h + 1] \in Messages \cup Raw /\ sent[h + 1] \in Text
               /\ Len(sent[h + 1]) \in Nat \ {0}
               /\ Len(Part(sent, h)) \in Nat
               /\ Len(Part(sent, h)) + n = pos + begin
               /\ Len(Part(sent, h + 1)) = Len(Part(sent, h)) + Len(sent[h + 1])
               /\ \A i \in 1..Len(sent[h + 1]) :
                      begin + i <= n => data[begin + i] = sent[h + 1][i]
<1> DEFINE h == Len(heard)
           m == sent[h + 1]
<1>1. /\ sent \in Seq(Text) /\ Bytes \in Text /\ Len(Bytes) \in Nat /\ Len(sent) \in Nat
      /\ Part(sent, Len(sent)) = Bytes
      /\ \A i \in 1..Len(sent) : sent[i] \in Messages \cup Raw
    BY StreamOf DEF FrameInv, FramingTypeOK, Bytes
<1>2. /\ h \in 0..Len(sent) /\ Len(Part(sent, h)) + n = pos + begin
      /\ pos \in 0..Len(Bytes) /\ n \in Nat /\ begin \in Nat /\ n <= pos
      /\ \A i \in 1..n : data[i] = Bytes[(pos - n) + i]
    BY <1>1 DEF FrameInv, FramingTypeOK, Keeping, LastRead
<1> HIDE DEF h
<1>3. Len(Part(sent, h)) \in Nat /\ Part(sent, h) \in Text
    BY <1>1, <1>2, PartTypes
<1>4. h # Len(sent)
    <2> SUFFICES ASSUME h = Len(sent) PROVE FALSE
        OBVIOUS
    <2>1. Len(Bytes) + n = pos + begin
        BY <1>1, <1>2
    <2> QED
        BY <1>1, <1>2, <2>1
<1>5. h \in Nat /\ h < Len(sent) /\ h + 1 \in 1..Len(sent)
    BY <1>1, <1>2, <1>4
<1>6. /\ m \in Text /\ Part(sent, h + 1) = Part(sent, h) \o m
      /\ Len(Part(sent, h + 1)) = Len(Part(sent, h)) + Len(m)
    BY <1>1, <1>5, NextPart
<1>7. m \in Messages \cup Raw
    BY <1>1, <1>5
<1>8. Len(m) \in Nat \ {0}
    <2>1. m # <<>>
        BY <1>7, ObjectAssumption
    <2> QED
        BY <1>6, <2>1, LenProperties, EmptySeq DEF Text
<1> DEFINE p == Part(sent, h)
<1>9. ASSUME NEW i \in 1..Len(m), begin + i <= n PROVE data[begin + i] = m[i]
    <2>1. begin + i \in 1..n /\ (pos - n) + (begin + i) = Len(p) + i
        <3>1. i \in Nat \ {0}
            BY <1>8
        <3>2. Len(p) \in Nat /\ Len(p) + n = pos + begin
            BY <1>2, <1>3
        <3>3. pos \in Nat /\ n \in Nat /\ begin \in Nat
            BY <1>1, <1>2
        <3> HIDE DEF p
        <3> QED
            BY <1>9, <3>1, <3>2, <3>3
    <2>2. data[begin + i] = Bytes[Len(p) + i]
        BY <1>2, <2>1
    <2>3. Len(p) + i \in 1..Len(Part(sent, h + 1))
        BY <1>3, <1>6, <1>8
    <2>4. Bytes[Len(p) + i] = Part(sent, h + 1)[Len(p) + i]
        <3>1. h + 1 \in 0..Len(sent) /\ Len(sent) \in (h + 1)..Len(sent)
            BY <1>1, <1>5
        <3> QED
            BY <1>1, <2>3, <3>1, PartsNest
    <2>5. Part(sent, h + 1)[Len(p) + i] = m[i]
        <3> HIDE DEF p, m
        <3>0. p \in Seq(Printed) /\ m \in Seq(Printed)
            BY <1>3, <1>6 DEF p, Text
        <3>1. \A l \in 1..(Len(p) + Len(m)) : (p \o m)[l] = IF l <= Len(p) THEN p[l] ELSE m[l - Len(p)]
            BY <3>0, ConcatProperties
        <3>2. /\ Len(p) + i \in 1..(Len(p) + Len(m)) /\ ~ (Len(p) + i <= Len(p))
              /\ (Len(p) + i) - Len(p) = i
            BY <3>0, <1>8, LenProperties
        <3>3. Part(sent, h + 1) = p \o m
            BY <1>6 DEF p
        <3> QED
            BY <3>1, <3>2, <3>3
    <2> QED
        BY <2>2, <2>4, <2>5
<1> HIDE DEF m
<1>10. DOMAIN sent = 1..Len(sent)
    BY <1>1, LenProperties
<1> QED
    BY <1>2, <1>3, <1>5, <1>6, <1>7, <1>8, <1>9, <1>10 DEF h, m

\* A message of which the end has not been read: the bytes read end with none.
LEMMA CutWithin ==
    ASSUME FrameInv, pc = "loop", begin < n, n < begin + Len(sent[Len(heard) + 1])
    PROVE  pos \notin Boundary
<1> DEFINE h == Len(heard)
           m == sent[h + 1]
<1>1. /\ h \in Nat /\ h < Len(sent) /\ Len(m) \in Nat
      /\ Len(Part(sent, h)) \in Nat /\ Len(Part(sent, h)) + n = pos + begin
      /\ Len(Part(sent, h + 1)) = Len(Part(sent, h)) + Len(m)
    BY NextMessage
<1>2. sent \in Seq(Text) /\ Len(sent) \in Nat /\ pos \in Nat /\ n \in Nat /\ begin \in Nat
    BY StreamOf DEF FrameInv, FramingTypeOK, Bytes
<1>3. n < begin + Len(m)
    OBVIOUS
<1> HIDE DEF h, m
<1>4. Len(Part(sent, h)) < pos /\ pos < Len(Part(sent, h + 1))
    BY <1>1, <1>2, <1>3
<1> SUFFICES ASSUME NEW j \in 0..Len(sent), pos = Len(Part(sent, j)) PROVE FALSE
    BY DEF Boundary, Part
<1>5. CASE j <= h
    <2>1. h \in j..Len(sent)
        BY <1>1, <1>2, <1>5
    <2>2. Len(Part(sent, j)) <= Len(Part(sent, h))
        BY <1>2, <2>1, PartsNest
    <2> QED
        BY <1>1, <1>2, <1>4, <2>2
<1>6. CASE h < j
    <2>1. h + 1 \in 0..Len(sent) /\ j \in (h + 1)..Len(sent)
        BY <1>1, <1>2, <1>6
    <2>2. Len(Part(sent, h + 1)) <= Len(Part(sent, j))
        BY <1>2, <2>1, PartsNest
    <2>3. Len(Part(sent, h + 1)) \in Nat
        BY <1>2, <2>1, PartTypes
    <2> QED
        BY <1>2, <1>4, <2>2, <2>3
<1> QED
    BY <1>1, <1>2, <1>5, <1>6

LEMMA InitFrame == Init => FrameInv
<1> SUFFICES ASSUME Init PROVE FrameInv
    OBVIOUS
<1> USE DEF Init
<1>0. Size \in Nat \ {0}
    BY FramingAssumption
<1>1. sent \in Seq(Messages \cup Raw) /\ Len(sent) = 0
    BY EmptySeq
<1>2. Len(Bytes) \in Nat /\ Bytes = <<>>
    BY <1>1, FlattenNothing, EmptySeq DEF Bytes
<1>3. data \in [1..(Size + 1) -> Char] /\ data[Size + 1] = Zero
    BY <1>0 DEF Char
<1>4. FramingTypeOK
    BY <1>0, <1>1, <1>2, <1>3 DEF FramingTypeOK
<1>5. Keeping
    <2>1. Len(heard) = 0 /\ SubSeq(sent, 1, 0) = <<>> /\ Part(sent, 0) = <<>> /\ Len(<<>>) = 0
        <3>1. sent \in Seq(Text) /\ 0 \in 0..Len(sent)
            BY <1>1, StreamOf
        <3>2. SubSeq(sent, 1, 0) \in Seq(Text) /\ Len(SubSeq(sent, 1, 0)) = 0
            BY <3>1, FirstMessages
        <3> QED
            BY <3>2, EmptySeq, FlattenNothing DEF Part
    <2> QED
        BY <1>1, <2>1 DEF Keeping
<1>6. LastRead /\ Overrun
    BY DEF LastRead, Overrun
<1> QED
    BY <1>4, <1>5, <1>6 DEF FrameInv

\* Writing puts the bytes behind those that are there.
LEMMA WriteStep ==
    ASSUME FrameInv, NEW m \in Messages \cup Raw, Write(m) PROVE FrameInv'
<1>1. /\ sent \in Seq(Text) /\ Len(Bytes) \in Nat /\ Len(sent) \in Nat /\ sent \in Seq(Messages \cup Raw)
      /\ sent' = Append(sent, m) /\ sent' \in Seq(Messages \cup Raw)
      /\ pos \in 0..Len(Bytes) /\ n \in Nat /\ n <= pos
    BY StreamOf, AppendProperties DEF FrameInv, FramingTypeOK, LastRead, Bytes, Write
<1>2. m \in Text
    BY FramingAssumption DEF Text, Printed
<1>3. /\ Bytes' = FlattenSeq(Append(sent, m)) /\ Bytes = FlattenSeq(sent)
      /\ pos' = pos /\ n' = n /\ begin' = begin /\ data' = data /\ heard' = heard /\ pc' = pc
    BY <1>1 DEF Bytes, Write
<1>4. /\ \A j \in 0..Len(sent) : SubSeq(sent', 1, j) = SubSeq(sent, 1, j)
      /\ \A i \in 1..Len(Bytes) : Bytes'[i] = Bytes[i]
      /\ Len(Bytes') = Len(Bytes) + Len(m) /\ Len(m) \in Nat
    BY <1>1, <1>2, <1>3, StreamGrows
<1>5. /\ Len(sent') = Len(sent) + 1 /\ DOMAIN sent = 1..Len(sent) /\ DOMAIN sent' = 1..(Len(sent) + 1)
      /\ \A j \in 1..Len(sent) : sent'[j] = sent[j]
    BY <1>1, <1>2, AppendProperties, LenProperties
<1>6. FramingTypeOK'
    <2>1. pos' \in 0..Len(Bytes')
        BY <1>1, <1>3, <1>4
    <2> QED
        BY <1>1, <1>3, <2>1 DEF FrameInv, FramingTypeOK
<1>7. Keeping'
    <2>1. ASSUME NEW j \in 0..Len(sent) PROVE Part(sent', j) = Part(sent, j) /\ j \in 0..Len(sent')
        <3>1. j \in 0..Len(sent')
            BY <1>1, <1>5
        <3>2. Part(sent', j) = Part(sent, j)
            BY <1>4, Zenon DEF Part
        <3> QED
            BY <3>1, <3>2
    <2> QED
        BY <1>3, <1>4, <2>1 DEF FrameInv, Keeping
<1>8. LastRead'
    <2>1. \A i \in 1..n : (pos - n) + i \in 1..Len(Bytes)
        BY <1>1
    <2> QED
        BY <1>3, <1>4, <2>1 DEF FrameInv, LastRead
<1>9. Overrun'
    <2> SUFFICES ASSUME pc' = "aborted" \/ (pc' = "loop" /\ begin' > n') PROVE Cut'
        BY DEF Overrun
    <2>1. Cut
        BY <1>3 DEF FrameInv, Overrun
    <2>2. CASE \E j \in DOMAIN sent : sent[j] \in Raw
        <3>1. PICK j \in DOMAIN sent : sent[j] \in Raw
            BY <2>2
        <3>2. j \in DOMAIN sent' /\ sent'[j] \in Raw
            BY <1>1, <1>5, <3>1
        <3> QED
            BY <3>2 DEF Cut
    <2>3. CASE pos \notin Boundary
        <3>1. \A j \in 0..Len(sent) : Len(FlattenSeq(SubSeq(sent, 1, j))) # pos
            BY <2>3 DEF Boundary
        <3>2. Len(Bytes) # pos
            <4>1. Len(sent) \in 0..Len(sent) /\ FlattenSeq(SubSeq(sent, 1, Len(sent))) = Bytes
                BY <1>1, StreamOf DEF Part, Bytes
            <4> QED
                BY <3>1, <4>1
        <3>3. Len(Bytes') # pos
            BY <1>1, <1>4, <3>2
        <3>4. ASSUME NEW j \in 0..Len(sent') PROVE Len(FlattenSeq(SubSeq(sent', 1, j))) # pos
            <4>1. CASE j \in 0..Len(sent)
                BY <1>4, <3>1, <4>1
            <4>2. CASE j \notin 0..Len(sent)
                <5>1. j = Len(sent')
                    BY <1>1, <1>5, <4>2
                <5>2. FlattenSeq(SubSeq(sent', 1, Len(sent'))) = Bytes'
                    BY <1>1, <1>3, StreamOf DEF Part
                <5> QED
                    BY <3>3, <5>1, <5>2
            <4> QED
                BY <4>1, <4>2
        <3>5. pos' \notin Boundary'
            BY <1>3, <3>4 DEF Boundary
        <3> QED
            BY <3>5 DEF Cut
    <2> QED
        BY <2>1, <2>2, <2>3 DEF Cut
<1> QED
    BY <1>6, <1>7, <1>8, <1>9 DEF FrameInv

\* A read overwrites the beginning of the buffer with what comes next.
LEMMA RecvStep ==
    ASSUME FrameInv, NEW k \in 1..Size, Recv(k) PROVE FrameInv'
<1>0. Size \in Nat \ {0} /\ k \in Nat \ {0}
    BY FramingAssumption
<1>1. /\ sent \in Seq(Messages \cup Raw) /\ Len(Bytes) \in Nat /\ Bytes \in Text /\ Len(sent) \in Nat
      /\ pos \in 0..Len(Bytes) /\ n \in Nat /\ n <= pos /\ begin = n /\ pc = "poll"
      /\ data \in [1..(Size + 1) -> Char] /\ data[Size + 1] = Zero
    BY StreamOf DEF FrameInv, FramingTypeOK, LastRead, Keeping, Bytes, Recv
<1>2. /\ k <= Len(Bytes) - pos /\ pos' = pos + k /\ n' = k /\ begin' = 0 /\ pc' = "loop"
      /\ sent' = sent /\ heard' = heard /\ Bytes' = Bytes
      /\ data' = [i \in 1..(Size + 1) |-> IF i <= k THEN Bytes[pos + i] ELSE data[i]]
    BY <1>1 DEF Recv, Bytes
<1>3. data' \in [1..(Size + 1) -> Char] /\ data'[Size + 1] = Zero
    <2>1. ASSUME NEW i \in 1..(Size + 1), i <= k PROVE Bytes[pos + i] \in Char
        <3>1. pos + i \in 1..Len(Bytes)
            BY <1>0, <1>1, <1>2, <2>1
        <3>2. Bytes \in Seq(Printed)
            BY <1>1 DEF Text
        <3>3. Bytes[pos + i] \in Printed
            BY <3>1, <3>2, ElementOfSeq
        <3> QED
            BY <3>3 DEF Printed
    <2>2. ~ (Size + 1 <= k) /\ Size + 1 \in 1..(Size + 1)
        BY <1>0
    <2> QED
        BY <1>1, <1>2, <2>1, <2>2
<1>4. FramingTypeOK'
    <2>1. pos' \in 0..Len(Bytes') /\ n' \in 0..Size /\ begin' \in 0..(Size + 1)
        BY <1>0, <1>1, <1>2
    <2> QED
        BY <1>1, <1>2, <1>3, <2>1 DEF FramingTypeOK
<1>5. Keeping'
    <2>1. /\ Len(heard) \in 0..Len(sent) /\ heard = SubSeq(sent, 1, Len(heard))
          /\ Len(Part(sent, Len(heard))) + n = pos + n
        BY <1>1 DEF FrameInv, Keeping
    <2>2. Len(Part(sent, Len(heard))) \in Nat
        BY <1>1, <2>1, PartTypes, StreamOf
    <2> DEFINE length == Len(Part(sent, Len(heard)))
    <2>3. length + n' = pos' + begin'
        <3>1. length + n = pos + n /\ length \in Nat /\ pos \in Nat
            BY <1>1, <2>1, <2>2
        <3> HIDE DEF length
        <3> QED
            BY <1>0, <1>1, <1>2, <3>1
    <2> QED
        BY <1>2, <2>1, <2>3 DEF Keeping
<1>6. LastRead'
    <2>1. n' <= pos'
        BY <1>0, <1>1, <1>2
    <2>2. ASSUME NEW i \in 1..k PROVE data'[i] = Bytes'[(pos' - n') + i]
        <3>1. i \in 1..(Size + 1) /\ i <= k /\ (pos' - n') + i = pos + i
            BY <1>0, <1>1, <1>2
        <3> QED
            BY <1>2, <3>1
    <2> QED
        BY <1>2, <2>1, <2>2 DEF LastRead
<1>7. Overrun'
    BY <1>0, <1>2 DEF Overrun
<1> QED
    BY <1>4, <1>5, <1>6, <1>7 DEF FrameInv

\* One object more: the scene is given the next message whole, or the search has left
\* the data because the message was cut.
LEMMA ObjectStep == ASSUME FrameInv, Object PROVE FrameInv'
<1> DEFINE h == Len(heard)
           m == sent[h + 1]
<1>0. pc = "loop" /\ begin < n /\ data[begin + 1] = "{"
    BY DEF Object
<1>1. PICK e \in Ends : /\ \A f \in Ends : e <= f
                        /\ heard' = Append(heard, SubSeq(data, begin + 1, e))
                        /\ begin' = e
    BY DEF Object
<1>2. pc' = pc /\ sent' = sent /\ pos' = pos /\ data' = data /\ n' = n /\ Bytes' = Bytes
    BY DEF Object, Bytes
<1>3. /\ h \in Nat /\ h < Len(sent) /\ h + 1 \in DOMAIN sent
      /\ m \in Messages \cup Raw /\ m \in Text /\ Len(m) \in Nat \ {0}
      /\ Len(Part(sent, h)) \in Nat /\ Len(Part(sent, h)) + n = pos + begin
      /\ Len(Part(sent, h + 1)) = Len(Part(sent, h)) + Len(m)
      /\ \A i \in 1..Len(m) : begin + i <= n => data[begin + i] = m[i]
    BY <1>0, NextMessage
<1>4. /\ data \in [1..(Size + 1) -> Char] /\ n \in 0..Size /\ n \in Nat
      /\ begin \in Nat /\ Size \in Nat
      /\ sent \in Seq(Text) /\ Len(sent) \in Nat /\ heard = SubSeq(sent, 1, h) /\ pos \in Nat
    <2>1. sent \in Seq(Text) /\ Len(sent) \in Nat /\ Len(Bytes) \in Nat
        BY StreamOf DEF FrameInv, FramingTypeOK, Bytes
    <2>2. /\ data \in [1..(Size + 1) -> Char] /\ n \in 0..Size /\ n \in Nat
          /\ begin \in Nat /\ Size \in Nat /\ pos \in Nat
        BY <2>1, FramingAssumption DEF FrameInv, FramingTypeOK
    <2>3. begin <= n
        <3>1. begin < n /\ begin \in Nat /\ n \in Nat
            BY <1>0, <2>2
        <3> QED
            BY <3>1
    <2>4. heard = SubSeq(sent, 1, h)
        BY <1>0, <2>3 DEF FrameInv, Keeping
    <2> QED
        BY <2>1, <2>2, <2>4
<1>5. /\ e \in (begin + 1)..(begin + n) /\ e \in 1..(Size + 1) /\ Closed(begin + 1, e)
      /\ e \in Nat /\ e - begin \in Nat \ {0} /\ begin + (e - begin) = e
    <2>1. e \in (begin + 1)..(begin + n) /\ e \in DOMAIN data /\ Closed(begin + 1, e)
        BY DEF Ends
    <2>2. e \in Int
        BY <1>4, <2>1
    <2> QED
        BY <1>4, <2>1, <2>2
<1>6. n < begin + Len(m) => pos \notin Boundary
    BY <1>0, CutWithin
<1> HIDE DEF h, m
<1>7. m \in Messages /\ \A k \in 1..Len(m) : Balanced(m, k) <=> k = Len(m)
    <2>1. begin < n /\ begin \in Nat /\ n \in Nat
        BY <1>0, <1>4
    <2>2. begin + 1 <= n
        BY <2>1
    <2>3. 1 \in 1..Len(m)
        <3>1. Len(m) \in Nat \ {0}
            BY <1>3
        <3> QED
            BY <3>1
    <2>4. m[1] = "{"
        BY <1>0, <1>3, <2>2, <2>3
    <2> QED
        BY <1>3, <2>4, ObjectAssumption
<1>8. FramingTypeOK'
    <2>1. begin' \in 0..(Size + 1)
        BY <1>1, <1>4, <1>5
    <2> QED
        BY <1>2, <2>1 DEF FrameInv, FramingTypeOK
<1>9. LastRead'
    BY <1>2 DEF FrameInv, LastRead
\* The search cannot stop within the message.
<1>10. ASSUME e <= n, e - begin <= Len(m) PROVE e = begin + Len(m)
    <2>1. \A i \in 1..(e - begin) : data[begin + i] = m[i]
        BY <1>3, <1>4, <1>5, <1>10
    <2>2. Closed(begin + 1, begin + (e - begin)) <=> Balanced(m, e - begin)
        BY <1>4, <1>5, <2>1, ClosedAsInMessage
    <2>3. Balanced(m, e - begin)
        BY <1>5, <2>2
    <2>4. e - begin \in 1..Len(m)
        BY <1>3, <1>5, <1>10
    <2>5. e - begin = Len(m)
        BY <1>7, <2>3, <2>4
    <2> QED
        BY <1>5, <2>5
<1>11. CASE begin + Len(m) <= n
    <2>1. begin + Len(m) \in Ends
        <3>1. \A i \in 1..Len(m) : data[begin + i] = m[i]
            BY <1>3, <1>4, <1>11
        <3>2. Closed(begin + 1, begin + Len(m)) <=> Balanced(m, Len(m))
            BY <1>3, <1>4, <3>1, ClosedAsInMessage
        <3>3. Closed(begin + 1, begin + Len(m))
            BY <1>3, <1>7, <3>2
        <3>4. begin + Len(m) \in (begin + 1)..(begin + n) /\ begin + Len(m) \in 1..(Size + 1)
            BY <1>3, <1>4, <1>11
        <3> QED
            BY <1>4, <3>3, <3>4 DEF Ends
    <2>2. e <= begin + Len(m)
        BY <1>1, <2>1
    <2>3. e = begin + Len(m)
        BY <1>3, <1>4, <1>5, <1>10, <1>11, <2>2
    <2>4. SubSeq(data, begin + 1, e) = m
        <3> DEFINE d == SubSeq(data, begin + 1, e)
        <3>1. begin + 1 \in Int /\ e \in Int /\ begin + 1 <= e /\ (e - (begin + 1)) + 1 = Len(m)
            BY <1>3, <1>4, <2>3
        <3>2. \A i \in (begin + 1)..e : data[i] \in Char
            BY <1>3, <1>4, <1>5, <2>3
        <3>3. /\ d \in Seq(Char) /\ Len(d) = Len(m)
              /\ \A i \in 1..Len(m) : d[i] = data[(begin + 1) + i - 1]
            BY <3>1, <3>2, SubSeqProperties
        <3>4. \A i \in 1..Len(m) : (begin + 1) + i - 1 = begin + i /\ begin + i <= n
            BY <1>3, <1>4, <1>11
        <3>5. \A i \in 1..Len(m) : d[i] = m[i]
            BY <1>3, <3>3, <3>4
        <3>6. m \in Seq(Printed)
            BY <1>3 DEF Text
        <3> HIDE DEF d
        <3>7. d = m
            BY <3>3, <3>5, <3>6, SeqEqual
        <3> QED
            BY <3>7 DEF d
    <2>5. heard' = SubSeq(sent, 1, h + 1)
        BY <1>1, <1>3, <1>4, <2>4, NextPart DEF m
    <2>6. Len(heard') = h + 1 /\ h + 1 \in 0..Len(sent)
        <3>1. h + 1 \in 0..Len(sent)
            BY <1>3, <1>4
        <3> QED
            BY <1>4, <2>5, <3>1, FirstMessages
    <2>7. Len(Part(sent, h + 1)) + n = pos + begin'
        <3> DEFINE a == Len(Part(sent, h))
                   c == Len(Part(sent, h + 1))
                   l == Len(m)
        <3>1. /\ a \in Nat /\ l \in Nat /\ pos \in Nat /\ n \in Nat /\ begin \in Nat
              /\ a + n = pos + begin /\ c = a + l /\ begin' = begin + l
            BY <1>1, <1>3, <1>4, <2>3
        <3> HIDE DEF a, c, l
        <3>2. c + n = pos + begin'
            BY <3>1
        <3> QED
            BY <3>2 DEF c
    <2>8. Keeping'
        BY <1>0, <1>2, <2>5, <2>6, <2>7 DEF Keeping
    <2>9. Overrun'
        <3>1. ~ (begin' > n')
            BY <1>1, <1>2, <1>4, <1>11, <2>3, <1>3
        <3> QED
            BY <1>0, <1>2, <3>1 DEF Overrun
    <2> QED
        BY <1>8, <1>9, <2>8, <2>9 DEF FrameInv
<1>12. CASE n < begin + Len(m)
    <2>1. n < e
        BY <1>3, <1>4, <1>5, <1>10, <1>12
    <2>2. Keeping'
        <3>1. ~ (e <= n)
            <4>1. n \in Nat /\ e \in Nat
                BY <1>4, <1>5
            <4> QED
                BY <2>1, <4>1
        <3>2. pc' # "poll" /\ ~ (begin' <= n')
            BY <1>0, <1>1, <1>2, <3>1
        <3> QED
            BY <3>2 DEF Keeping
    <2>3. Cut'
        BY <1>2, <1>6, <1>12 DEF Cut, Boundary
    <2> QED
        BY <1>8, <1>9, <2>2, <2>3 DEF FrameInv, Overrun
<1> QED
    BY <1>3, <1>4, <1>11, <1>12

\* No object, or one that does not end: the message was cut, or was the operator's.
LEMMA NoObjectStep == ASSUME FrameInv, NoObject PROVE FrameInv'
<1> DEFINE h == Len(heard)
           m == sent[h + 1]
<1>0. pc = "loop" /\ begin < n /\ (data[begin + 1] # "{" \/ Ends = {})
    BY DEF NoObject
<1>1. /\ pc' = "aborted" /\ sent' = sent /\ pos' = pos /\ data' = data /\ n' = n
      /\ begin' = begin /\ heard' = heard /\ Bytes' = Bytes
    BY DEF NoObject, Abort, Bytes
<1>2. /\ h \in Nat /\ h + 1 \in DOMAIN sent
      /\ m \in Messages \cup Raw /\ Len(m) \in Nat \ {0}
      /\ \A i \in 1..Len(m) : begin + i <= n => data[begin + i] = m[i]
    BY <1>0, NextMessage
<1>3. /\ data \in [1..(Size + 1) -> Char] /\ n \in 0..Size /\ n \in Nat
      /\ begin \in Nat /\ Size \in Nat
    BY FramingAssumption DEF FrameInv, FramingTypeOK
<1>4. n < begin + Len(m) => pos \notin Boundary
    BY <1>0, CutWithin
<1> HIDE DEF h, m
<1>5. m[1] = data[begin + 1]
    <2>1. begin < n /\ begin \in Nat /\ n \in Nat
        BY <1>0, <1>3
    <2>2. begin + 1 <= n
        BY <2>1
    <2>3. 1 \in 1..Len(m)
        <3>1. Len(m) \in Nat \ {0}
            BY <1>2
        <3> QED
            BY <3>1
    <2> QED
        BY <1>2, <2>2, <2>3
<1>6. ASSUME data[begin + 1] # "{" PROVE Cut
    <2>1. m \in Raw
        BY <1>2, <1>5, <1>6, ObjectAssumption
    <2> QED
        BY <1>2, <2>1 DEF m, Cut
<1>7. ASSUME data[begin + 1] = "{", Ends = {} PROVE Cut
    <2>1. Balanced(m, Len(m))
        <3>1. m \in Messages
            BY <1>2, <1>5, <1>7, ObjectAssumption
        <3>2. Len(m) \in Nat \ {0}
            BY <1>2
        <3>3. Len(m) \in 1..Len(m)
            BY <3>2
        <3> QED
            BY <3>1, <3>3, ObjectAssumption
    <2>2. ASSUME begin + Len(m) <= n PROVE FALSE
        <3>1. \A i \in 1..Len(m) : data[begin + i] = m[i]
            BY <1>2, <1>3, <2>2
        <3>2. Closed(begin + 1, begin + Len(m))
            BY <1>2, <1>3, <2>1, <3>1, ClosedAsInMessage
        <3>3. begin + Len(m) \in (begin + 1)..(begin + n) /\ begin + Len(m) \in 1..(Size + 1)
            BY <1>2, <1>3, <2>2
        <3>4. begin + Len(m) \in Ends
            BY <1>3, <3>2, <3>3 DEF Ends
        <3> QED
            BY <1>7, <3>4
    <2> QED
        BY <1>2, <1>3, <1>4, <2>2 DEF Cut
<1>8. Cut
    BY <1>0, <1>6, <1>7
<1> QED
    BY <1>1, <1>8 DEF FrameInv, FramingTypeOK, Keeping, LastRead, Overrun, Cut, Boundary

\* The loop ends at the end of the data, or behind it.
LEMMA LoopEndsStep == ASSUME FrameInv, LoopEnds PROVE FrameInv'
<1>1. /\ pc = "loop" /\ begin >= n
      /\ pc' = IF begin = n THEN "poll" ELSE "aborted"
      /\ sent' = sent /\ pos' = pos /\ data' = data /\ n' = n
      /\ begin' = begin /\ heard' = heard /\ Bytes' = Bytes
    BY DEF LoopEnds, Abort, Bytes
<1>2. n \in Nat /\ begin \in Nat
    BY FramingAssumption DEF FrameInv, FramingTypeOK
<1>3. FramingTypeOK' /\ LastRead'
    BY <1>1 DEF FrameInv, FramingTypeOK, LastRead
<1>4. Keeping'
    BY <1>1, <1>2 DEF FrameInv, Keeping
<1>5. Overrun'
    <2>1. begin # n => Cut
        BY <1>1, <1>2 DEF FrameInv, Overrun
    <2>2. Cut' <=> Cut
        BY <1>1 DEF Cut, Boundary
    <2> QED
        BY <1>1, <2>1, <2>2 DEF Overrun
<1> QED
    BY <1>3, <1>4, <1>5 DEF FrameInv

LEMMA FrameNext == FrameInv /\ [Next]_vars => FrameInv'
<1> SUFFICES ASSUME FrameInv, [Next]_vars PROVE FrameInv'
    OBVIOUS
<1>1. ASSUME NEW m \in Messages \cup Raw, Write(m) PROVE FrameInv'
    BY <1>1, WriteStep
<1>2. ASSUME NEW k \in 1..Size, Recv(k) PROVE FrameInv'
    BY <1>2, RecvStep
<1>3. CASE Object
    BY <1>3, ObjectStep
<1>4. CASE NoObject
    BY <1>4, NoObjectStep
<1>5. CASE LoopEnds
    BY <1>5, LoopEndsStep
<1>6. CASE UNCHANGED vars
    BY <1>6 DEF vars, FrameInv, FramingTypeOK, Keeping, LastRead, Overrun, Cut, Boundary, Bytes
<1> QED
    BY <1>1, <1>2, <1>3, <1>4, <1>5, <1>6 DEF Next

----------------------------------------------------------------------------
(* The theorems. *)

\* What the game has heard is a prefix of what was sent, the buffer holds the last bytes
\* read, and nothing but a cut message or the operator's text makes the loop fail
\* (engine_gameserver_receive() and str_match_bracket()).
THEOREM FrameInvariant == Spec => []FrameInv
BY InitFrame, FrameNext, PTL DEF Spec

\* The variables keep their types, and the last byte of the buffer stays 0 (engine.c,
\* static char data[512]).
THEOREM FramingTyped == Spec => []FramingTypeOK
<1>1. FrameInv => FramingTypeOK
    BY DEF FrameInv
<1> QED
    BY <1>1, FrameInvariant, PTL

\* Between frames the scene has been given exactly the messages in the bytes read, whole
\* and in order, whatever cuts the reads made (engine_gameserver_receive()).
THEOREM HeardAlways == Spec => []HeardExactly
<1>1. FrameInv => HeardExactly
    <2> SUFFICES ASSUME FrameInv, pc = "poll"
                 PROVE  IsPrefix(heard, sent) /\ FlattenSeq(heard) = SubSeq(Bytes, 1, pos)
        BY DEF HeardExactly
    <2> DEFINE h == Len(heard)
    <2>1. /\ sent \in Seq(Text) /\ Bytes \in Text /\ Len(Bytes) \in Nat /\ Len(sent) \in Nat
          /\ Part(sent, Len(sent)) = Bytes /\ pos \in 0..Len(Bytes) /\ n \in Nat /\ begin = n
          /\ h \in 0..Len(sent) /\ heard = SubSeq(sent, 1, h) /\ Len(Part(sent, h)) + n = pos + begin
        BY StreamOf DEF FrameInv, FramingTypeOK, Keeping, Bytes
    <2> DEFINE p == Part(sent, h)
    <2>2. p \in Seq(Printed) /\ Len(p) \in Nat
        BY <2>1, PartTypes DEF Text
    <2>3. FlattenSeq(heard) = p
        BY <2>1 DEF Part
    <2>4. \A i \in 1..Len(p) : Bytes[i] = p[i]
        <3>1. Len(sent) \in h..Len(sent)
            BY <2>1
        <3> QED
            BY <2>1, <3>1, PartsNest
    <2>5. IsPrefix(heard, sent)
        <3>1. heard \in Seq(Text) /\ \A i \in 1..h : heard[i] = sent[i]
            BY <2>1, FirstMessages
        <3>2. SubSeq(heard, 1, h) = heard
            <4>1. h \in 0..Len(heard) /\ h \in Nat
                BY <2>1
            <4>2. /\ SubSeq(heard, 1, h) \in Seq(Text) /\ Len(SubSeq(heard, 1, h)) = h
                  /\ \A i \in 1..h : SubSeq(heard, 1, h)[i] = heard[i]
                BY <3>1, <4>1, FirstMessages
            <4> QED
                BY <3>1, <4>2, SeqEqual
        <3>3. h <= Len(sent)
            BY <2>1
        <3> QED
            BY <2>1, <3>2, <3>3 DEF IsPrefix
    <2> HIDE DEF h
    <2>6. Len(p) = pos
        BY <2>1, <2>2
    <2> HIDE DEF p
    <2>7. SubSeq(Bytes, 1, pos) = p
        <3>1. Bytes \in Seq(Printed)
            BY <2>1 DEF Text
        <3>2. \A i \in 1..pos : Bytes[i] \in Printed
            BY <2>1, <3>1, ElementOfSeq
        <3>3. 1 \in Int /\ pos \in Int /\ pos \in Nat /\ (pos - 1) + 1 = pos
            BY <2>1
        <3>4. /\ SubSeq(Bytes, 1, pos) \in Seq(Printed)
              /\ Len(SubSeq(Bytes, 1, pos)) = IF 1 <= pos THEN (pos - 1) + 1 ELSE 0
              /\ \A i \in 1..((pos - 1) + 1) : SubSeq(Bytes, 1, pos)[i] = Bytes[1 + i - 1]
            BY <3>2, <3>3, SubSeqProperties
        <3>5. \A i \in 1..pos : SubSeq(Bytes, 1, pos)[i] = p[i]
            BY <2>4, <2>6, <3>3, <3>4
        <3> QED
            BY <2>2, <2>6, <3>3, <3>4, <3>5, SeqEqual
    <2> QED
        BY <2>3, <2>5, <2>7
<1> QED
    BY <1>1, FrameInvariant, PTL

\* Reads that end with a message of the server's own packing are survived, however many
\* messages they hold: the assertions of the loop and of str_match_bracket() fail of a cut
\* message, or of what the operator typed.
THEOREM WholeReadsAreSurvived == Spec => []WholeReadsSurvive
<1>1. FrameInv => WholeReadsSurvive
    BY DEF FrameInv, Overrun, Cut, WholeReadsSurvive
<1> QED
    BY <1>1, FrameInvariant, PTL
=============================================================================
