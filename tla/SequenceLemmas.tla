----------------------------- MODULE SequenceLemmas -----------------------------
(***************************************************************************)
(* Facts about what the models cut and collect sequences with: FlattenSeq, *)
(* which SelectAt and the parsers are built on, and the folds behind       *)
(* comment stripping. Both are recursive functions, so each fact is an     *)
(* induction; SetInduction is induction over the naturals for a set, which *)
(* the well-founded minimum of the library proves without an operator as a *)
(* parameter. Runs says of a scan where it is after each word, so that the *)
(* scan of a long text is put together from those of its parts.            *)
(***************************************************************************)
EXTENDS Integers, Sequences, SequencesExt, SequenceTheorems, WellFoundedInduction, TLAPS

\* The order of the naturals, as a relation.
Below == {p \in Nat \X Nat : p[1] < p[2]}

\* Induction: a set with 0 and with each successor holds every natural.
LEMMA SetInduction ==
    ASSUME NEW S, 0 \in S, \A n \in Nat : n \in S => n + 1 \in S
    PROVE  Nat \subseteq S
<1>. DEFINE T == Nat \ S
<1>1. SUFFICES ASSUME T # {} PROVE FALSE
    OBVIOUS
<1>2. OpToRel(<, Nat) = Below
    BY Zenon DEF OpToRel, Below
<1>3. PICK x \in T : \A y \in T : <<y, x>> \notin Below
    <2>1. IsWellFoundedOn(Below, Nat)
        BY <1>2, NatLessThanWellFounded
    <2>. QED
        BY <1>1, <2>1, WFMin, Zenon
<1>4. x # 0 /\ x - 1 \in Nat
    OBVIOUS
<1>5. <<x - 1, x>> \in Below
    BY <1>4 DEF Below
<1>6. x - 1 \notin T
    BY <1>3, <1>5, Zenon
<1>. QED
    BY <1>4, <1>6

-----------------------------------------------------------------------------

\* What the recursive function inside FlattenSeq satisfies up to n.
Unrolls(g, s, n) ==
    \A i \in 1..n : g[i] = IF i = 1 THEN s[i] ELSE g[i - 1] \o s[i]

\* Every sequence has such a function: what FlattenSeq computes exists.
LEMMA Unrollable == ASSUME NEW s, NEW n \in Nat PROVE \E g : Unrolls(g, s, n)
<1>. DEFINE Done == {k \in Nat : \E g : Unrolls(g, s, k)}
<1>1. 0 \in Done
    BY DEF Unrolls
<1>2. ASSUME NEW k \in Nat, k \in Done PROVE k + 1 \in Done
    <2>1. PICK g : Unrolls(g, s, k)
        BY <1>2
    <2>. DEFINE e == IF k = 0 THEN s[1] ELSE g[k] \o s[k + 1]
                h == [i \in 1..(k + 1) |-> IF i = k + 1 THEN e ELSE g[i]]
    <2>2. \A i \in 1..k : h[i] = g[i]
        OBVIOUS
    <2>3. h[k + 1] = e
        OBVIOUS
    <2>. HIDE DEF h
    <2>4. ASSUME NEW i \in 1..(k + 1)
          PROVE  h[i] = IF i = 1 THEN s[i] ELSE h[i - 1] \o s[i]
        <3>1. CASE i = k + 1
            BY <3>1, <2>2, <2>3
        <3>2. CASE i # k + 1
            <4>1. i \in 1..k /\ (i # 1 => i - 1 \in 1..k)
                BY <3>2
            <4>2. g[i] = IF i = 1 THEN s[i] ELSE g[i - 1] \o s[i]
                BY <4>1, <2>1 DEF Unrolls
            <4>. QED
                BY <4>1, <4>2, <2>2
        <3>. QED
            BY <3>1, <3>2
    <2>. QED
        BY <2>4 DEF Unrolls
<1>. HIDE DEF Done
<1>3. n \in Done
    BY <1>1, <1>2, SetInduction
<1>. QED
    BY <1>3 DEF Done

\* It has only one, on the indices of the sequence.
LEMMA UnrollsOneWay ==
    ASSUME NEW s, NEW n \in Nat,
           NEW g, NEW h, Unrolls(g, s, n), Unrolls(h, s, n)
    PROVE  \A i \in 1..n : g[i] = h[i]
<1>. DEFINE Done == {k \in Nat : k \in 1..n => g[k] = h[k]}
<1>1. 0 \in Done
    OBVIOUS
<1>2. ASSUME NEW k \in Nat, k \in Done PROVE k + 1 \in Done
    <2>1. SUFFICES ASSUME k + 1 \in 1..n PROVE g[k + 1] = h[k + 1]
        OBVIOUS
    <2>2. /\ g[k + 1] = IF k = 0 THEN s[k + 1] ELSE g[k] \o s[k + 1]
          /\ h[k + 1] = IF k = 0 THEN s[k + 1] ELSE h[k] \o s[k + 1]
        <3>1. k + 1 - 1 = k /\ (k + 1 = 1 <=> k = 0)
            OBVIOUS
        <3>. QED
            BY <2>1, <3>1 DEF Unrolls
    <2>3. CASE k = 0
        BY <2>3, <2>2, <2>1
    <2>4. CASE k # 0
        <3>1. k \in 1..n
            BY <2>1, <2>4
        <3>2. g[k] = h[k]
            BY <3>1, <1>2
        <3>. QED
            BY <3>1, <3>2, <2>2, <2>1, <2>4
    <2>. QED
        BY <2>3, <2>4
<1>. HIDE DEF Done
<1>3. Nat \subseteq Done
    BY <1>1, <1>2, SetInduction
<1>. QED
    BY <1>3 DEF Done

\* And FlattenSeq is its last value.
LEMMA FlattenUnrolls ==
    ASSUME NEW s, Len(s) \in Nat, Len(s) # 0
    PROVE  \E g : Unrolls(g, s, Len(s)) /\ FlattenSeq(s) = g[Len(s)]
<1>. DEFINE n == Len(s)
            Is(g) == g = [i \in 1..n |-> IF i = 1 THEN s[i] ELSE g[i - 1] \o s[i]]
            f == CHOOSE g : Is(g)
<1>1. PICK g : Unrolls(g, s, n)
    BY Unrollable
<1>2. Is([i \in 1..n |-> g[i]])
    <2>. DEFINE h == [i \in 1..n |-> g[i]]
    <2>1. ASSUME NEW i \in 1..n PROVE h[i] = IF i = 1 THEN s[i] ELSE h[i - 1] \o s[i]
        <3>1. i # 1 => i - 1 \in 1..n
            OBVIOUS
        <3>. QED 
            BY <3>1, <1>1 DEF Unrolls
    <2>2. h = [i \in 1..n |-> h[i]]
        OBVIOUS
    <2>. HIDE DEF h
    <2>3. [i \in 1..n |-> h[i]]
            = [i \in 1..n |-> IF i = 1 THEN s[i] ELSE h[i - 1] \o s[i]]
        BY <2>1
    <2>4. Is(h)
        BY <2>2, <2>3
    <2>. QED
        BY <2>4 DEF h
<1>3. Is(f)
    BY <1>2, Zenon
<1>4. FlattenSeq(s) = f[n]
    BY DEF FlattenSeq
<1>. QED
    BY <1>3, <1>4 DEF Unrolls

\* What is put together from sequences over S is a sequence over S.
LEMMA UnrollsType ==
    ASSUME NEW S, NEW s, NEW n \in Nat, \A i \in 1..n : s[i] \in Seq(S),
           NEW g, Unrolls(g, s, n)
    PROVE  \A i \in 1..n : g[i] \in Seq(S)
<1>. DEFINE Typed == {k \in Nat : k \in 1..n => g[k] \in Seq(S)}
<1>1. 0 \in Typed
    OBVIOUS
<1>2. ASSUME NEW k \in Nat, k \in Typed PROVE k + 1 \in Typed
    <2>1. SUFFICES ASSUME k + 1 \in 1..n PROVE g[k + 1] \in Seq(S)
        OBVIOUS
    <2>2. g[k + 1] = IF k = 0 THEN s[k + 1] ELSE g[k] \o s[k + 1]
        <3>1. k + 1 - 1 = k /\ (k + 1 = 1 <=> k = 0)
            OBVIOUS
        <3>. QED
            BY <2>1, <3>1 DEF Unrolls
    <2>3. k # 0 => g[k] \in Seq(S)
        BY <1>2, <2>1
    <2>. QED
        BY <2>1, <2>2, <2>3, ConcatProperties
<1>. HIDE DEF Typed
<1>3. Nat \subseteq Typed
    BY <1>1, <1>2, SetInduction
<1>. QED
    BY <1>3 DEF Typed

\* Nothing flattens to nothing.
LEMMA FlattenEmpty == FlattenSeq(<<>>) = <<>>
    BY DEF FlattenSeq

\* FlattenSeq returns a sequence over what the parts are over.
LEMMA FlattenType ==
    ASSUME NEW S, NEW s \in Seq(Seq(S))
    PROVE  FlattenSeq(s) \in Seq(S)
<1>1. CASE Len(s) = 0
    <2>1. s = <<>>
        BY <1>1, EmptySeq
    <2>. QED
        BY <2>1, FlattenEmpty, EmptySeq
<1>2. CASE Len(s) # 0
    <2>1. Len(s) \in Nat /\ \A i \in 1..Len(s) : s[i] \in Seq(S)
        OBVIOUS
    <2>2. PICK g : Unrolls(g, s, Len(s)) /\ FlattenSeq(s) = g[Len(s)]
        BY <1>2, <2>1, FlattenUnrolls
    <2>3. \A i \in 1..Len(s) : g[i] \in Seq(S)
        BY <2>1, <2>2, UnrollsType, Zenon
    <2>4. Len(s) \in 1..Len(s)
        BY <2>1, <1>2
    <2>. QED
        BY <2>2, <2>3, <2>4
<1>. QED
    BY <1>1, <1>2

\* The last part is appended last.
LEMMA UnrollsLast ==
    ASSUME NEW g, NEW s, NEW n \in Nat, n # 0, Unrolls(g, s, n + 1)
    PROVE  g[n + 1] = g[n] \o s[n + 1]
<1>1. n + 1 \in 1..(n + 1)
    OBVIOUS
<1>2. g[n + 1] = IF n + 1 = 1 THEN s[n + 1] ELSE g[n + 1 - 1] \o s[n + 1]
    BY <1>1 DEF Unrolls
<1>3. n + 1 # 1 /\ n + 1 - 1 = n
    OBVIOUS
<1>. QED
    BY <1>2, <1>3

\* One part flattens to itself.
LEMMA FlattenOne ==
    ASSUME NEW s, Len(s) = 1
    PROVE  FlattenSeq(s) = s[1]
<1>1. PICK g : Unrolls(g, s, Len(s)) /\ FlattenSeq(s) = g[Len(s)]
    <2>1. Len(s) \in Nat /\ Len(s) # 0
        OBVIOUS
    <2>. QED
        BY <2>1, FlattenUnrolls, Zenon
<1>. QED
    BY <1>1 DEF Unrolls

\* One more part flattens to what there was, and that part.
LEMMA FlattenLonger ==
    ASSUME NEW n \in Nat, n # 0, NEW s, Len(s) = n, NEW t, Len(t) = n + 1,
           \A i \in 1..n : t[i] = s[i]
    PROVE  FlattenSeq(t) = FlattenSeq(s) \o t[n + 1]
<1>1. PICK g : Unrolls(g, t, n + 1) /\ FlattenSeq(t) = g[n + 1]
    <2>1. Len(t) \in Nat /\ Len(t) # 0
        OBVIOUS
    <2>. QED
        BY <2>1, FlattenUnrolls
<1>2. PICK h : Unrolls(h, s, n) /\ FlattenSeq(s) = h[n]
    BY FlattenUnrolls
<1>3. Unrolls(g, s, n)
    BY <1>1 DEF Unrolls
<1>4. n \in 1..n /\ n + 1 \in 1..(n + 1) /\ n + 1 # 1 /\ n + 1 - 1 = n
    OBVIOUS
<1>5. h[n] = g[n]
    <2>1. \A i \in 1..n : h[i] = g[i]
        BY <1>2, <1>3, UnrollsOneWay
    <2>. QED
        BY <2>1, <1>4
<1>6. g[n + 1] = g[n] \o t[n + 1]
    BY <1>1, UnrollsLast
<1>. QED
    BY <1>1, <1>2, <1>5, <1>6

\* FlattenSeq goes over Append, the empty sequence included.
LEMMA FlattenAppend ==
    ASSUME NEW S, NEW s \in Seq(Seq(S)), NEW e \in Seq(S)
    PROVE  FlattenSeq(Append(s, e)) = FlattenSeq(s) \o e
<1>1. CASE s = <<>>
    <2>1. Append(s, e) = <<e>> /\ Len(<<e>>) = 1 /\ <<e>>[1] = e
        BY <1>1
    <2>2. FlattenSeq(<<e>>) = e
        BY <2>1, FlattenOne
    <2>. QED
        BY <1>1, <2>1, <2>2, FlattenEmpty, ConcatEmptySeq
<1>2. CASE s # <<>>
    <2>1. /\ Len(s) \in Nat /\ Len(s) # 0
          /\ Len(Append(s, e)) = Len(s) + 1 /\ Append(s, e)[Len(s) + 1] = e
          /\ \A i \in 1..Len(s) : Append(s, e)[i] = s[i]
        BY <1>2, EmptySeq
    <2>2. FlattenSeq(Append(s, e)) = FlattenSeq(s) \o Append(s, e)[Len(s) + 1]
        BY <2>1, FlattenLonger
    <2>. QED
        BY <2>1, <2>2
<1>. QED
    BY <1>1, <1>2

-----------------------------------------------------------------------------

\* Of each element of s, a part: itself if its index is in I, else nothing.
Pieces(s, I) == [i \in DOMAIN s |-> IF i \in I THEN <<s[i]>> ELSE <<>>]

\* The elements of s at the indices in I, in order: SelectAt of the models,
\* with a set in place of an operator, which a lemma cannot quantify over.
Picked(s, I) == FlattenSeq(Pieces(s, I))

\* Nothing is picked from the empty sequence.
LEMMA PickedEmpty == \A I : Picked(<<>>, I) = <<>>
<1>1. ASSUME NEW I PROVE Pieces(<<>>, I) = <<>>
    BY DEF Pieces
<1>. QED
    BY <1>1, FlattenEmpty DEF Picked

\* The parts are sequences over what s is over, one for each element.
LEMMA PiecesType ==
    ASSUME NEW S, NEW s \in Seq(S), NEW I
    PROVE  Pieces(s, I) \in Seq(Seq(S)) /\ Len(Pieces(s, I)) = Len(s)
<1>1. \A i \in 1..Len(s) : (IF i \in I THEN <<s[i]>> ELSE <<>>) \in Seq(S)
    OBVIOUS
<1>2. Len(s) \in Nat /\ DOMAIN s = 1..Len(s)
    OBVIOUS
<1>3. Pieces(s, I) = [i \in 1..Len(s) |-> IF i \in I THEN <<s[i]>> ELSE <<>>]
    BY <1>2 DEF Pieces
<1>. QED
    BY <1>1, <1>2, <1>3

\* What is picked from a sequence over S is one.
LEMMA PickedType ==
    ASSUME NEW S, NEW s \in Seq(S), NEW I
    PROVE  Picked(s, I) \in Seq(S)
BY PiecesType, FlattenType DEF Picked

\* It is one over T if the elements that are picked are in T.
LEMMA PickedWithin ==
    ASSUME NEW S, NEW T, NEW s \in Seq(S), NEW I,
           \A i \in DOMAIN s : i \in I => s[i] \in T
    PROVE  Picked(s, I) \in Seq(T)
<1>1. \A i \in 1..Len(s) : (IF i \in I THEN <<s[i]>> ELSE <<>>) \in Seq(T)
    <2>1. \A i \in 1..Len(s) : i \in I => s[i] \in T
        OBVIOUS
    <2>2. ASSUME NEW x \in T PROVE <<x>> \in Seq(T)
        OBVIOUS
    <2>. QED
        BY <2>1, <2>2
<1>2. Len(s) \in Nat /\ DOMAIN s = 1..Len(s)
    OBVIOUS
<1>3. Pieces(s, I) = [i \in 1..Len(s) |-> IF i \in I THEN <<s[i]>> ELSE <<>>]
    BY <1>2 DEF Pieces
<1>4. Pieces(s, I) \in Seq(Seq(T))
    BY <1>1, <1>2, <1>3
<1>. QED
    BY <1>4, FlattenType DEF Picked

\* Only the indices of the sequence matter.
LEMMA PickedSame ==
    ASSUME NEW s, NEW I, NEW J, \A i \in DOMAIN s : i \in I <=> i \in J
    PROVE  Picked(s, I) = Picked(s, J)
BY DEF Picked, Pieces

\* Picking goes over Append.
LEMMA PickedAppend ==
    ASSUME NEW S, NEW s \in Seq(S), NEW e \in S, NEW I
    PROVE  Picked(Append(s, e), I) = IF Len(s) + 1 \in I THEN Append(Picked(s, I), e)
                                     ELSE Picked(s, I)
<1>. DEFINE p == IF Len(s) + 1 \in I THEN <<e>> ELSE <<>>
<1>1. p \in Seq(S)
    OBVIOUS
<1>2. Pieces(Append(s, e), I) = Append(Pieces(s, I), p)
    <2>. DEFINE n == Len(s)
                t == Append(s, e)
                q == Pieces(s, I)
                r == Append(q, p)
    <2>1. /\ n \in Nat /\ DOMAIN s = 1..n /\ DOMAIN t = 1..(n + 1)
          /\ t \in Seq(S) /\ t[n + 1] = e /\ \A i \in 1..n : t[i] = s[i]
        OBVIOUS
    <2>2. q \in Seq(Seq(S)) /\ Len(q) = n
        BY PiecesType
    <2>. HIDE DEF q
    <2>3. /\ DOMAIN r = 1..(n + 1) /\ r \in Seq(Seq(S)) /\ r[n + 1] = p
          /\ \A i \in 1..n : r[i] = q[i]
        BY <1>1, <2>1, <2>2
    <2>. HIDE DEF n, t, r, p
    <2>4. /\ \A i \in 1..n : Pieces(t, I)[i] = q[i]
          /\ Pieces(t, I)[n + 1] = p
        BY <2>1 DEF Pieces, q, p, n
    <2>5. r = [i \in 1..(n + 1) |-> r[i]]
        BY <2>3
    <2>6. Pieces(t, I) = [i \in 1..(n + 1) |-> Pieces(t, I)[i]]
        BY <2>1 DEF Pieces
    <2>7. \A i \in 1..(n + 1) : i \in 1..n \/ i = n + 1
        BY <2>1
    <2>8. \A i \in 1..(n + 1) : Pieces(t, I)[i] = r[i]
        BY <2>3, <2>4, <2>7
    <2>. QED
        BY <2>5, <2>6, <2>8 DEF t, r, q
<1>3. Picked(Append(s, e), I) = Picked(s, I) \o p
    BY <1>1, <1>2, PiecesType, FlattenAppend DEF Picked
<1>4. Picked(s, I) \in Seq(S)
    BY PickedType
<1>. QED
    BY <1>3, <1>4, AppendIsConcat, ConcatEmptySeq

\* Picking from a prefix that is one element longer picks that one too, or not:
\* a step of a loop over s.
LEMMA PickedStep ==
    ASSUME NEW S, NEW s \in Seq(S), NEW k \in 0..(Len(s) - 1), NEW I
    PROVE  Picked(SubSeq(s, 1, k + 1), I)
             = IF k + 1 \in I THEN Append(Picked(SubSeq(s, 1, k), I), s[k + 1])
               ELSE Picked(SubSeq(s, 1, k), I)
<1>. DEFINE t == SubSeq(s, 1, k)
<1>1. t \in Seq(S) /\ Len(t) = k /\ s[k + 1] \in S
    OBVIOUS
<1>2. SubSeq(s, 1, k + 1) = Append(t, s[k + 1])
    OBVIOUS
<1>. HIDE DEF t
<1>3. Picked(Append(t, s[k + 1]), I)
        = IF Len(t) + 1 \in I THEN Append(Picked(t, I), s[k + 1]) ELSE Picked(t, I)
    <2>. DEFINE x == s[k + 1]
    <2>1. t \in Seq(S) /\ x \in S
        BY <1>1
    <2>. HIDE DEF x
    <2>2. Picked(Append(t, x), I)
            = IF Len(t) + 1 \in I THEN Append(Picked(t, I), x) ELSE Picked(t, I)
        BY <2>1, PickedAppend
    <2>. QED
        BY <2>2 DEF x
<1>4. Picked(SubSeq(s, 1, k + 1), I)
        = IF k + 1 \in I THEN Append(Picked(t, I), s[k + 1]) ELSE Picked(t, I)
    <2>1. Len(t) + 1 = k + 1
        BY <1>1
    <2>. QED
        BY <1>2, <1>3, <2>1, Zenon
<1>. QED
    BY <1>4 DEF t

-----------------------------------------------------------------------------

\* Picking an interval of the indices is SubSeq.
LEMMA PickedInterval ==
    ASSUME NEW S, NEW s \in Seq(S), NEW I, NEW a \in Nat, NEW b \in Nat,
           1 <= a, a <= b + 1, b <= Len(s),
           \A i \in DOMAIN s : i \in I <=> a <= i /\ i <= b
    PROVE  Picked(s, I) = SubSeq(s, a, b)
<1>. DEFINE Cut(n) == SubSeq(s, a, IF n <= b THEN n ELSE b)
            Done == {n \in Nat : n <= Len(s) => Picked(SubSeq(s, 1, n), I) = Cut(n)}
<1>1. 0 \in Done
    <2>1. SubSeq(s, 1, 0) = <<>> /\ SubSeq(s, a, 0) = <<>> /\ 0 <= b
        OBVIOUS
    <2>. QED
        BY <2>1, PickedEmpty
<1>2. ASSUME NEW n \in Nat, n \in Done PROVE n + 1 \in Done
    <2>1. SUFFICES ASSUME n + 1 <= Len(s)
                   PROVE  Picked(SubSeq(s, 1, n + 1), I) = Cut(n + 1)
        OBVIOUS
    <2>2. Picked(SubSeq(s, 1, n), I) = Cut(n)
        BY <1>2, <2>1
    <2>3. /\ n \in 0..(Len(s) - 1) /\ n + 1 \in DOMAIN s
          /\ n + 1 \in I <=> a <= n + 1 /\ n + 1 <= b
        BY <2>1
    <2>4. Picked(SubSeq(s, 1, n + 1), I)
            = IF n + 1 \in I THEN Append(Cut(n), s[n + 1]) ELSE Cut(n)
        BY <2>2, <2>3, PickedStep
    <2>5. CASE a <= n + 1 /\ n + 1 <= b
        <3>1. Cut(n) = SubSeq(s, a, n) /\ Cut(n + 1) = SubSeq(s, a, n + 1)
            BY <2>5
        <3>2. Append(SubSeq(s, a, n), s[n + 1]) = SubSeq(s, a, n + 1)
            BY <2>1, <2>5
        <3>. QED
            BY <2>3, <2>4, <2>5, <3>1, <3>2
    <2>6. CASE n + 1 < a
        <3>1. n <= b /\ n + 1 <= b /\ n + 1 \notin I
            BY <2>3, <2>6
        <3>2. Cut(n) = SubSeq(s, a, n) /\ Cut(n + 1) = SubSeq(s, a, n + 1)
            BY <3>1
        <3>3. SubSeq(s, a, n) = <<>> /\ SubSeq(s, a, n + 1) = <<>>
            BY <2>6
        <3>. HIDE DEF Cut
        <3>. QED
            BY <2>4, <3>1, <3>2, <3>3
    <2>7. CASE b < n + 1
        <3>1. Cut(n) = Cut(n + 1)
            <4>1. CASE n = b
                BY <4>1
            <4>2. CASE n # b
                BY <2>7, <4>2
            <4>. QED
                BY <4>1, <4>2
        <3>2. n + 1 \notin I
            BY <2>3, <2>7
        <3>. HIDE DEF Cut
        <3>. QED
            BY <2>4, <3>1, <3>2
    <2>. QED
        BY <2>5, <2>6, <2>7
<1>3. SubSeq(s, 1, Len(s)) = s /\ Cut(Len(s)) = SubSeq(s, a, b)
    OBVIOUS
<1>. HIDE DEF Done
<1>4. Len(s) \in Done
    BY <1>1, <1>2, SetInduction
<1>5. Picked(SubSeq(s, 1, Len(s)), I) = Cut(Len(s))
    BY <1>4 DEF Done
<1>. HIDE DEF Cut
<1>. QED
    BY <1>3, <1>5

\* An element that is picked is there.
LEMMA PickedHas ==
    ASSUME NEW S, NEW s \in Seq(S), NEW I, NEW k \in DOMAIN s, k \in I
    PROVE  \E j \in DOMAIN Picked(s, I) : Picked(s, I)[j] = s[k]
<1>. DEFINE P(n) == Picked(SubSeq(s, 1, n), I)
            Has(p) == \E j \in DOMAIN p : p[j] = s[k]
            Done == {n \in Nat : n \in k..Len(s) => Has(P(n))}
<1>1. 0 \in Done
    OBVIOUS
<1>2. ASSUME NEW n \in Nat, n \in Done PROVE n + 1 \in Done
    <2>1. SUFFICES ASSUME n + 1 \in k..Len(s) PROVE Has(P(n + 1))
        OBVIOUS
    <2>. DEFINE p == P(n)
                e == s[n + 1]
    <2>2. n \in 0..(Len(s) - 1) /\ SubSeq(s, 1, n) \in Seq(S) /\ e \in S
        BY <2>1
    <2>3. P(n + 1) = IF n + 1 \in I THEN Append(p, e) ELSE p
        BY <2>2, PickedStep
    <2>4. p \in Seq(S)
        BY <2>2, PickedType
    <2>. HIDE DEF p, e
    <2>5. CASE n + 1 = k
        <3>1. /\ Len(p) + 1 \in DOMAIN Append(p, e)
              /\ Append(p, e)[Len(p) + 1] = e
            BY <2>2, <2>4
        <3>. QED
            BY <2>3, <2>5, <3>1 DEF e
    <2>6. CASE n + 1 # k
        <3>1. Has(p)
            BY <1>2, <2>1, <2>6 DEF p
        <3>2. PICK j \in DOMAIN p : p[j] = s[k]
            BY <3>1
        <3>3. j \in DOMAIN Append(p, e) /\ Append(p, e)[j] = p[j]
            BY <2>2, <2>4
        <3>. QED
            BY <2>3, <3>2, <3>3
    <2>. QED
        BY <2>5, <2>6
<1>. HIDE DEF Done
<1>3. Len(s) \in Done /\ Len(s) \in k..Len(s)
    <2>1. Nat \subseteq Done
        BY <1>1, <1>2, SetInduction
    <2>2. Len(s) \in Nat /\ Len(s) \in k..Len(s)
        OBVIOUS
    <2>. QED
        BY <2>1, <2>2
<1>4. SubSeq(s, 1, Len(s)) = s
    OBVIOUS
<1>. QED
    BY <1>3, <1>4 DEF Done

\* A function on 1..n+1 that agrees with one on 1..n is that one and a last value.
LEMMA Extend ==
    ASSUME NEW A, NEW n \in Nat, NEW g \in [1..(n + 1) -> A],
           NEW f \in [1..n -> A], \A k \in 1..n : f[k] = g[k]
    PROVE  g = Append(f, g[n + 1]) /\ Len(f) = n
<1>1. g \in Seq(A) /\ f \in Seq(A) /\ g[n + 1] \in A
    <2>1. n + 1 \in Nat /\ n + 1 \in 1..(n + 1)
        OBVIOUS
    <2>. QED
        BY <2>1
<1>2. DOMAIN g = 1..(n + 1) /\ DOMAIN f = 1..n
    OBVIOUS
<1>3. Len(f) = n /\ Len(g) = n + 1
    BY <1>1, <1>2
<1>. DEFINE h == Append(f, g[n + 1])
<1>4. h \in Seq(A) /\ Len(h) = n + 1 /\ h[n + 1] = g[n + 1]
      /\ \A k \in 1..n : h[k] = f[k]
    BY <1>1, <1>3
<1>. HIDE DEF h
<1>5. \A k \in 1..(n + 1) : g[k] = h[k]
    <2>1. \A k \in 1..(n + 1) : k \in 1..n \/ k = n + 1
        OBVIOUS
    <2>. QED
        BY <1>2, <1>4, <2>1
<1>6. g = h
    BY <1>1, <1>3, <1>4, <1>5, SeqEqual
<1>. QED
    BY <1>3, <1>6 DEF h

\* A nonempty set of naturals has its Min in it, and nothing less.
LEMMA MinOfNats ==
    ASSUME NEW s, s \subseteq Nat, s # {}
    PROVE  Min(s) \in s /\ \A i \in s : Min(s) <= i
<1>1. PICK x \in s : \A y \in s : <<y, x>> \notin Below
    <2>1. OpToRel(<, Nat) = Below
        BY Zenon DEF OpToRel, Below
    <2>2. IsWellFoundedOn(Below, Nat)
        BY <2>1, NatLessThanWellFounded
    <2>. QED
        BY <2>2, WFMin, Zenon
<1>2. \A y \in s : x =< y
    <2>1. ASSUME NEW y \in s, y < x PROVE FALSE
        <3>1. <<y, x>> \in Below
            BY <2>1 DEF Below
        <3>. QED
            BY <3>1, <1>1
    <2>. QED
        BY <2>1
<1>. QED
    BY <1>2, Zenon DEF Min

\* A nonempty set of indices has its Max in it, and nothing greater.
LEMMA MaxOfInterval ==
    ASSUME NEW n \in Nat, NEW s, s \subseteq 1..n, s # {}
    PROVE  Max(s) \in s /\ \A i \in s : i <= Max(s)
<1>. DEFINE Bounded == {k \in Nat : \A t : t \subseteq 1..k /\ t # {} =>
                                      \E x \in t : \A y \in t : x >= y}
<1>1. 0 \in Bounded
    OBVIOUS
<1>2. ASSUME NEW k \in Nat, k \in Bounded PROVE k + 1 \in Bounded
    <2>1. SUFFICES ASSUME NEW t, t \subseteq 1..(k + 1), t # {}
                   PROVE  \E x \in t : \A y \in t : x >= y
        OBVIOUS
    <2>2. CASE k + 1 \in t
        <3>1. \A y \in t : k + 1 >= y
            BY <2>1
        <3>. QED
            BY <2>2, <3>1
    <2>3. CASE k + 1 \notin t
        <3>1. t \subseteq 1..k
            BY <2>1, <2>3
        <3>. QED
            BY <3>1, <2>1, <1>2
    <2>. QED
        BY <2>2, <2>3
<1>. HIDE DEF Bounded
<1>3. n \in Bounded
    BY <1>1, <1>2, SetInduction
<1>4. \E x \in s : \A y \in s : x >= y
    BY <1>3 DEF Bounded
<1>5. Max(s) \in s /\ \A y \in s : Max(s) >= y
    BY <1>4, Zenon DEF Max
<1>. QED
    BY <1>5

\* What the recursive function inside FoldLeft satisfies, for a function F.
FoldsBy(F, base, t, n, it) ==
    it = [s \in SUBSET (1..n) |->
            IF s = {} THEN base ELSE F[it[s \ {Max(s)}]][t[Max(s)]]]

\* It folds them into A.
HasFold(F, base, t, n, A) ==
    \E it \in [SUBSET (1..n) -> A] : FoldsBy(F, base, t, n, it)

\* Which index a fold over the first k+1 elements takes next.
LEMMA IntervalGrows ==
    ASSUME NEW k \in Nat, NEW s \in SUBSET (1..(k + 1))
    PROVE  /\ k + 1 \in s => Max(s) = k + 1
           /\ k + 1 \notin s => s \in SUBSET (1..k)
           /\ s \ {k + 1} \in SUBSET (1..k)
<1>1. ASSUME k + 1 \in s PROVE Max(s) = k + 1
    <2>1. k + 1 \in Nat /\ s \subseteq 1..(k + 1) /\ s # {}
        BY <1>1
    <2>2. Max(s) \in s /\ \A i \in s : i <= Max(s)
        BY <2>1, MaxOfInterval
    <2>3. Max(s) \in 1..(k + 1) /\ k + 1 <= Max(s)
        BY <2>2, <1>1
    <2>. DEFINE m == Max(s)
    <2>. HIDE DEF m
    <2>4. m \in 1..(k + 1) /\ k + 1 <= m => m = k + 1
        OBVIOUS
    <2>. QED
        BY <2>3, <2>4 DEF m
<1>2. ASSUME k + 1 \notin s PROVE \A i \in s : i \in 1..k
    <2>1. ASSUME NEW i \in s PROVE i \in 1..k
        <3>1. i \in 1..(k + 1) /\ i # k + 1
            BY <1>2
        <3>. QED
            BY <3>1
    <2>. QED
        BY <2>1
<1>3. ASSUME NEW i \in s \ {k + 1} PROVE i \in 1..k
    <2>1. i \in 1..(k + 1) /\ i # k + 1
        OBVIOUS
    <2>. QED
        BY <2>1
<1>. QED
    BY <1>1, <1>2, <1>3

\* A fold over k elements goes on to the next.
LEMMA FoldGrows ==
    ASSUME NEW A, NEW B, NEW F \in [A -> [B -> A]], NEW base \in A,
           NEW k \in Nat, NEW t, t[k + 1] \in B, HasFold(F, base, t, k, A)
    PROVE  HasFold(F, base, t, k + 1, A)
<1>1. PICK it \in [SUBSET (1..k) -> A] : FoldsBy(F, base, t, k, it)
    BY DEF HasFold
<1>. DEFINE next == [s \in SUBSET (1..(k + 1)) |->
              IF k + 1 \in s THEN F[it[s \ {k + 1}]][t[k + 1]] ELSE it[s]]
<1>2. ASSUME NEW s \in SUBSET (1..(k + 1)), k + 1 \in s
      PROVE  next[s] \in A
    <2>1. s \ {k + 1} \in SUBSET (1..k)
        BY IntervalGrows
    <2>2. it[s \ {k + 1}] \in A
        BY <2>1
    <2>3. F[it[s \ {k + 1}]] \in [B -> A]
        BY <2>2
    <2>. QED
        BY <2>3, <1>2
<1>3. ASSUME NEW s \in SUBSET (1..(k + 1)), k + 1 \notin s
      PROVE  next[s] \in A
    <2>1. s \in SUBSET (1..k)
        BY <1>3, IntervalGrows
    <2>. QED
        BY <2>1, <1>3
<1>4. next \in [SUBSET (1..(k + 1)) -> A]
    BY <1>2, <1>3
<1>5. ASSUME NEW s \in SUBSET (1..(k + 1))
      PROVE  next[s] = IF s = {} THEN base ELSE F[next[s \ {Max(s)}]][t[Max(s)]]
    <2>1. CASE k + 1 \in s
        <3>1. Max(s) = k + 1
            BY <2>1, IntervalGrows
        <3>2. s \ {k + 1} \in SUBSET (1..k) /\ k + 1 \notin s \ {k + 1}
            BY IntervalGrows
        <3>3. next[s \ {k + 1}] = it[s \ {k + 1}]
            BY <3>2
        <3>. QED
            BY <2>1, <3>1, <3>3
    <2>2. CASE k + 1 \notin s
        <3>1. s \in SUBSET (1..k)
            BY <2>2, IntervalGrows
        <3>2. it[s] = IF s = {} THEN base ELSE F[it[s \ {Max(s)}]][t[Max(s)]]
            BY <1>1, <3>1, Zenon DEF FoldsBy
        <3>3. next[s \ {Max(s)}] = it[s \ {Max(s)}] /\ next[s] = it[s]
            BY <2>2, <3>1
        <3>. QED
            BY <3>2, <3>3
    <2>. QED
        BY <2>1, <2>2
<1>6. next = [s \in SUBSET (1..(k + 1)) |-> next[s]]
    OBVIOUS
<1>. HIDE DEF next
<1>7. FoldsBy(F, base, t, k + 1, next)
    BY <1>5, <1>6 DEF FoldsBy
<1>. QED
    BY <1>4, <1>7 DEF HasFold

\* A function from A and B to A folds every sequence over B into A.
LEMMA Foldable ==
    ASSUME NEW A, NEW B, NEW F \in [A -> [B -> A]], NEW base \in A,
           NEW n \in Nat, NEW t, \A i \in 1..n : t[i] \in B
    PROVE  HasFold(F, base, t, n, A)
<1>. DEFINE Done == {k \in Nat : k <= n => HasFold(F, base, t, k, A)}
<1>1. 0 \in Done
    <2>. DEFINE it == [s \in SUBSET (1..0) |-> base]
    <2>1. it \in [SUBSET (1..0) -> A]
        OBVIOUS
    <2>2. \A s \in SUBSET (1..0) : s = {}
        OBVIOUS
    <2>3. FoldsBy(F, base, t, 0, it)
        <3>. DEFINE e(s) == IF s = {} THEN base ELSE F[it[s \ {Max(s)}]][t[Max(s)]]
        <3>1. \A s \in SUBSET (1..0) : e(s) = base
            BY <2>2
        <3>. HIDE DEF e
        <3>2. it = [s \in SUBSET (1..0) |-> e(s)]
            BY <3>1
        <3>. QED
            BY <3>2 DEF FoldsBy, e
    <2>. QED
        BY <2>1, <2>3 DEF HasFold
<1>2. ASSUME NEW k \in Nat, k \in Done PROVE k + 1 \in Done
    <2>1. SUFFICES ASSUME k + 1 <= n PROVE HasFold(F, base, t, k + 1, A)
        OBVIOUS
    <2>2. HasFold(F, base, t, k, A)
        BY <1>2, <2>1
    <2>3. t[k + 1] \in B
        BY <2>1
    <2>. QED
        BY <2>2, <2>3, FoldGrows
<1>. HIDE DEF Done
<1>3. n \in Done
    BY <1>1, <1>2, SetInduction
<1>4. n <= n
    OBVIOUS
<1>. QED
    BY <1>3, <1>4 DEF Done

\* A list is one over any set that has all of it.
LEMMA ListWithin ==
    ASSUME NEW n \in Nat, NEW s, NEW S, s = [k \in 1..n |-> s[k]],
           \A k \in 1..n : s[k] \in S
    PROVE  s \in Seq(S) /\ DOMAIN s = 1..n
OBVIOUS

\* Sequences over a set are sequences over a larger one.
LEMMA SeqWithin == ASSUME NEW S, NEW T, S \subseteq T PROVE Seq(S) \subseteq Seq(T)
OBVIOUS

\* What a list made of two has.
LEMMA RangeConcat ==
    ASSUME NEW S, NEW s \in Seq(S), NEW t \in Seq(S)
    PROVE  Range(s \o t) = Range(s) \cup Range(t)
<1>. DEFINE r == s \o t
            m == Len(s)
            n == Len(t)
<1>1. /\ m \in Nat /\ n \in Nat /\ DOMAIN r = 1..(m + n)
      /\ DOMAIN s = 1..m /\ DOMAIN t = 1..n
      /\ \A i \in 1..m : r[i] = s[i]
      /\ \A i \in 1..n : r[m + i] = t[i]
    OBVIOUS
<1>. HIDE DEF r, m, n
<1>2. \A i \in 1..(m + n) : i \in 1..m \/ (i - m \in 1..n /\ i = m + (i - m))
    BY <1>1
<1>3. /\ \A i \in 1..m : i \in 1..(m + n)
      /\ \A i \in 1..n : m + i \in 1..(m + n)
    BY <1>1
<1>4. ASSUME NEW x \in Range(r)
      PROVE  x \in Range(s) \cup Range(t)
    <2>1. PICK i \in 1..(m + n) : r[i] = x
        BY <1>1 DEF Range
    <2>2. CASE i \in 1..m
        <3>1. s[i] = x
            BY <1>1, <2>1, <2>2
        <3>. QED
            BY <1>1, <2>2, <3>1 DEF Range
    <2>3. CASE i - m \in 1..n /\ i = m + (i - m)
        <3>1. t[i - m] = x
            BY <1>1, <2>1, <2>3
        <3>. QED
            BY <1>1, <2>3, <3>1 DEF Range
    <2>. QED
        BY <1>2, <2>2, <2>3
<1>5. ASSUME NEW x \in Range(s) \cup Range(t)
      PROVE  x \in Range(r)
    <2>1. CASE x \in Range(s)
        <3>1. PICK i \in 1..m : s[i] = x
            BY <1>1, <2>1 DEF Range
        <3>2. i \in DOMAIN r /\ r[i] = x
            BY <1>1, <1>3, <3>1
        <3>. QED
            BY <3>2 DEF Range
    <2>2. CASE x \in Range(t)
        <3>1. PICK i \in 1..n : t[i] = x
            BY <1>1, <2>2 DEF Range
        <3>2. m + i \in DOMAIN r /\ r[m + i] = x
            BY <1>1, <1>3, <3>1
        <3>. QED
            BY <3>2 DEF Range
    <2>. QED
        BY <2>1, <2>2
<1>. QED
    BY <1>4, <1>5 DEF r

\* A list that is written out has what is written.
LEMMA RangeOfTuple == \A x, y : Range(<<x>>) = {x} /\ Range(<<x, y>>) = {x, y}
BY DEF Range

\* What is picked from two lists at the same places is alike if they are.
LEMMA PickedAlike ==
    ASSUME NEW S, NEW T, NEW s \in Seq(S), NEW t \in Seq(T), Len(s) = Len(t),
           NEW R, \A k \in DOMAIN s : <<s[k], t[k]>> \in R, NEW I
    PROVE  /\ DOMAIN Picked(s, I) = DOMAIN Picked(t, I)
           /\ \A j \in DOMAIN Picked(s, I) : <<Picked(s, I)[j], Picked(t, I)[j]>> \in R
<1>. DEFINE P(n) == Picked(SubSeq(s, 1, n), I)
            Q(n) == Picked(SubSeq(t, 1, n), I)
            Alike(p, q) == Len(p) = Len(q) /\ \A j \in DOMAIN p : <<p[j], q[j]>> \in R
            Done == {n \in Nat : n <= Len(s) => Alike(P(n), Q(n))}
<1>1. 0 \in Done
    <2>1. SubSeq(s, 1, 0) = <<>> /\ SubSeq(t, 1, 0) = <<>>
        OBVIOUS
    <2>2. P(0) = <<>> /\ Q(0) = <<>>
        BY <2>1, PickedEmpty
    <2>. HIDE DEF P, Q
    <2>. QED
        BY <2>2
<1>2. ASSUME NEW n \in Nat, n \in Done PROVE n + 1 \in Done
    <2>1. SUFFICES ASSUME n + 1 <= Len(s) PROVE Alike(P(n + 1), Q(n + 1))
        OBVIOUS
    <2>2. n \in 0..(Len(s) - 1) /\ n \in 0..(Len(t) - 1) /\ n + 1 \in DOMAIN s
          /\ SubSeq(s, 1, n) \in Seq(S) /\ SubSeq(t, 1, n) \in Seq(T)
          /\ s[n + 1] \in S /\ t[n + 1] \in T
        BY <2>1
    <2>3. Alike(P(n), Q(n))
        BY <1>2, <2>1
    <2>4. P(n) \in Seq(S) /\ Q(n) \in Seq(T)
        BY <2>2, PickedType
    <2>5. /\ P(n + 1) = IF n + 1 \in I THEN Append(P(n), s[n + 1]) ELSE P(n)
          /\ Q(n + 1) = IF n + 1 \in I THEN Append(Q(n), t[n + 1]) ELSE Q(n)
        BY <2>2, PickedStep
    <2>. HIDE DEF P, Q
    <2>6. CASE n + 1 \in I
        <3>. DEFINE p == P(n)
                    q == Q(n)
                    m == Len(p)
        <3>6. p \in Seq(S) /\ q \in Seq(T) /\ Alike(p, q)
            BY <2>3, <2>4
        <3>. HIDE DEF p, q
        <3>1. p \in Seq(S) /\ q \in Seq(T) /\ Len(q) = m /\ m \in Nat
              /\ \A j \in 1..m : <<p[j], q[j]>> \in R
            BY <3>6
        <3>2. /\ Len(Append(p, s[n + 1])) = m + 1 /\ Len(Append(q, t[n + 1])) = m + 1
              /\ DOMAIN Append(p, s[n + 1]) = 1..(m + 1)
              /\ Append(p, s[n + 1])[m + 1] = s[n + 1]
              /\ Append(q, t[n + 1])[m + 1] = t[n + 1]
              /\ \A j \in 1..m : /\ Append(p, s[n + 1])[j] = p[j]
                                 /\ Append(q, t[n + 1])[j] = q[j]
            BY <2>2, <3>1
        <3>. HIDE DEF m
        <3>3. \A j \in 1..(m + 1) : j \in 1..m \/ j = m + 1
            BY <3>1
        <3>4. <<s[n + 1], t[n + 1]>> \in R
            BY <2>2
        <3>5. \A j \in 1..(m + 1) :
                 <<Append(p, s[n + 1])[j], Append(q, t[n + 1])[j]>> \in R
            BY <3>1, <3>2, <3>3, <3>4
        <3>. QED
            BY <2>5, <2>6, <3>2, <3>5 DEF p, q
    <2>7. CASE n + 1 \notin I
        BY <2>3, <2>5, <2>7
    <2>. QED
        BY <2>6, <2>7
<1>3. SubSeq(s, 1, Len(s)) = s /\ SubSeq(t, 1, Len(s)) = t
    OBVIOUS
<1>. HIDE DEF Done
<1>4. Len(s) \in Done /\ Len(s) <= Len(s)
    <2>1. Nat \subseteq Done
        BY <1>1, <1>2, SetInduction
    <2>2. Len(s) \in Nat /\ Len(s) <= Len(s)
        OBVIOUS
    <2>. QED
        BY <2>1, <2>2
<1>. HIDE DEF P, Q
<1>5. Alike(P(Len(s)), Q(Len(s)))
    BY <1>4 DEF Done
<1>7. P(Len(s)) = Picked(s, I) /\ Q(Len(s)) = Picked(t, I)
    BY <1>3 DEF P, Q
<1>6. Picked(s, I) \in Seq(S) /\ Picked(t, I) \in Seq(T)
    BY PickedType
<1>. QED
    BY <1>5, <1>6, <1>7

\* What is picked from a list without repetitions has none.
LEMMA PickedInjective ==
    ASSUME NEW S, NEW s \in Seq(S), NEW I, IsInjective(s)
    PROVE  IsInjective(Picked(s, I))
<1>. DEFINE P(n) == Picked(SubSeq(s, 1, n), I)
            Done == {n \in Nat : n <= Len(s) => IsInjective(P(n))}
<1>1. 0 \in Done
    <2>1. SubSeq(s, 1, 0) = <<>>
        OBVIOUS
    <2>2. P(0) = <<>>
        BY <2>1, PickedEmpty
    <2>. QED
        BY <2>2 DEF IsInjective
<1>2. ASSUME NEW n \in Nat, n \in Done PROVE n + 1 \in Done
    <2>1. SUFFICES ASSUME n + 1 <= Len(s) PROVE IsInjective(P(n + 1))
        OBVIOUS
    <2>. DEFINE p == P(n)
                T == {s[k] : k \in 1..n}
    <2>2. P(n + 1) = IF n + 1 \in I THEN Append(p, s[n + 1]) ELSE p
        <3>1. n \in 0..(Len(s) - 1)
            BY <2>1
        <3>. QED
            BY <3>1, PickedStep
    <2>3. p \in Seq(T)
        <3>. DEFINE b == SubSeq(s, 1, n)
        <3>1. b \in Seq(S) /\ DOMAIN b = 1..n /\ \A k \in 1..n : b[k] = s[k]
            BY <2>1
        <3>2. \A k \in DOMAIN b : k \in I => b[k] \in T
            BY <3>1
        <3>3. p = Picked(b, I)
            OBVIOUS
        <3>. HIDE DEF b, T, p
        <3>. QED
            BY <3>1, <3>2, <3>3, PickedWithin
    <2>4. s[n + 1] \notin T
        <3>1. \A k \in 1..n : k \in DOMAIN s /\ n + 1 \in DOMAIN s /\ k # n + 1
            BY <2>1
        <3>. QED
            BY <3>1 DEF IsInjective
    <2>5. \A j, k \in DOMAIN p : p[j] = p[k] => j = k
        BY <1>2, <2>1 DEF IsInjective
    <2>. HIDE DEF p, T
    <2>6. \A j, k \in DOMAIN Append(p, s[n + 1]) :
             Append(p, s[n + 1])[j] = Append(p, s[n + 1])[k] => j = k
        BY <2>3, <2>4, <2>5
    <2>. QED
        BY <2>2, <2>5, <2>6 DEF IsInjective
<1>. HIDE DEF Done
<1>3. Nat \subseteq Done
    BY <1>1, <1>2, SetInduction
<1>4. Len(s) \in Nat /\ SubSeq(s, 1, Len(s)) = s
    OBVIOUS
<1>5. Len(s) \in Done
    BY <1>3, <1>4
<1>6. P(Len(s)) = Picked(s, I)
    BY <1>4
<1>7. IsInjective(P(Len(s)))
    <2>1. Len(s) <= Len(s)
        BY <1>4
    <2>. HIDE DEF P
    <2>. QED
        BY <1>5, <2>1 DEF Done
<1>. QED
    BY <1>6, <1>7

\* How long a concatenation is.
LEMMA ConcatLength ==
    ASSUME NEW S, NEW d \in Seq(S), NEW e \in Seq(S)
    PROVE  Len(d \o e) = Len(d) + Len(e)
OBVIOUS

\* What stands where when a pair is appended.
LEMMA PairAppended ==
    ASSUME NEW S, NEW d \in Seq(S), NEW e \in Seq(S), Len(e) = 2
    PROVE  /\ Len(d \o e) = Len(d) + 2
           /\ \A a \in 1..Len(d) : (d \o e)[a] = d[a]
           /\ \A b \in 1..2 : (d \o e)[Len(d) + b] = e[b]
<1>1. Len(d \o e) = Len(d) + 2
    <2>1. Len(d \o e) = Len(d) + Len(e)
        BY ConcatLength, Zenon
    <2>. QED
        BY <2>1
<1>2. ASSUME NEW a \in 1..Len(d) PROVE (d \o e)[a] = d[a]
    OBVIOUS
<1>3. ASSUME NEW b \in 1..2 PROVE (d \o e)[Len(d) + b] = e[b]
    <2>. DEFINE i == Len(d) + b
    <2>1. i \in 1..(Len(d) + Len(e)) /\ ~(i <= Len(d)) /\ i - Len(d) = b
        OBVIOUS
    <2>. HIDE DEF i
    <2>2. (d \o e)[i] = IF i <= Len(d) THEN d[i] ELSE e[i - Len(d)]
        BY <2>1, ConcatProperties
    <2>. QED
        BY <2>1, <2>2 DEF i
<1>. QED
    BY <1>1, <1>2, <1>3

\* Two lists without repetitions that have nothing in common, one after the other.
LEMMA ConcatInjective ==
    ASSUME NEW S, NEW p \in Seq(S), NEW q \in Seq(S), IsInjective(p), IsInjective(q),
           \A j \in DOMAIN p : \A k \in DOMAIN q : p[j] # q[k]
    PROVE  IsInjective(p \o q)
<1>. DEFINE m == Len(p)
            n == Len(q)
            t == p \o q
<1>1. /\ m \in Nat /\ n \in Nat /\ DOMAIN p = 1..m /\ DOMAIN q = 1..n
      /\ DOMAIN t = 1..(m + n)
      /\ \A j \in 1..m : t[j] = p[j]
      /\ \A j \in 1..(m + n) : j > m => t[j] = q[j - m] /\ j - m \in 1..n
    OBVIOUS
<1>. HIDE DEF m, n, t
<1>2. ASSUME NEW j \in 1..(m + n), NEW k \in 1..(m + n), t[j] = t[k]
      PROVE  j = k
    <2>1. CASE j <= m /\ k <= m
        <3>1. j \in DOMAIN p /\ k \in DOMAIN p /\ p[j] = p[k]
            BY <1>1, <1>2, <2>1
        <3>. QED
            BY <3>1 DEF IsInjective
    <2>2. CASE j > m /\ k > m
        <3>1. j - m \in DOMAIN q /\ k - m \in DOMAIN q /\ q[j - m] = q[k - m]
            BY <1>1, <1>2, <2>2
        <3>2. j - m = k - m
            BY <3>1 DEF IsInjective
        <3>. QED
            BY <3>2, <1>1
    <2>3. CASE j <= m /\ k > m
        <3>1. j \in DOMAIN p /\ k - m \in DOMAIN q /\ p[j] = q[k - m]
            BY <1>1, <1>2, <2>3
        <3>. QED
            BY <3>1
    <2>4. CASE j > m /\ k <= m
        <3>1. k \in DOMAIN p /\ j - m \in DOMAIN q /\ p[k] = q[j - m]
            BY <1>1, <1>2, <2>4
        <3>. QED
            BY <3>1
    <2>. QED
        BY <1>1, <2>1, <2>2, <2>3, <2>4
<1>. QED
    BY <1>1, <1>2 DEF IsInjective, t

\* A list of pairs, flattened: at 2 * (k - 1) + b the b-th of the k-th pair.
LEMMA FlattenPairs ==
    ASSUME NEW S, NEW s \in Seq(Seq(S)), \A k \in DOMAIN s : Len(s[k]) = 2
    PROVE  /\ Len(FlattenSeq(s)) = 2 * Len(s)
           /\ \A a \in 1..(2 * Len(s)) : \E k \in DOMAIN s, b \in 1..2 :
                 a = 2 * (k - 1) + b /\ FlattenSeq(s)[a] = s[k][b]
<1>. DEFINE n == Len(s)
            In(f, i) == /\ Len(f) = 2 * i
                        /\ \A a \in 1..(2 * i) : \E k \in 1..i, b \in 1..2 :
                              a = 2 * (k - 1) + b /\ f[a] = s[k][b]
<1>1. n \in Nat /\ DOMAIN s = 1..n /\ \A k \in 1..n : s[k] \in Seq(S) /\ Len(s[k]) = 2
    OBVIOUS
<1>. HIDE DEF n
<1>2. CASE n = 0
    <2>1. s = <<>>
        BY <1>2, EmptySeq DEF n
    <2>. QED
        BY <2>1, FlattenEmpty
<1>3. CASE n # 0
    <2>1. PICK g : Unrolls(g, s, n) /\ FlattenSeq(s) = g[n]
        BY <1>1, <1>3, FlattenUnrolls DEF n
    <2>2. \A i \in 1..n : g[i] \in Seq(S)
        BY <1>1, <2>1, UnrollsType, Zenon
    <2>. DEFINE Done == {i \in Nat : i \in 1..n => In(g[i], i)}
    <2>3. 0 \in Done
        OBVIOUS
    <2>4. ASSUME NEW i \in Nat, i \in Done PROVE i + 1 \in Done
        <3>1. SUFFICES ASSUME i + 1 \in 1..n PROVE In(g[i + 1], i + 1)
            OBVIOUS
        <3>2. g[i + 1] = IF i = 0 THEN s[i + 1] ELSE g[i] \o s[i + 1]
            <4>1. i + 1 - 1 = i /\ (i + 1 = 1 <=> i = 0)
                OBVIOUS
            <4>. QED
                BY <2>1, <3>1, <4>1 DEF Unrolls
        <3>. DEFINE e == s[i + 1]
        <3>3. e \in Seq(S) /\ Len(e) = 2
            BY <1>1, <3>1
        <3>4. CASE i = 0
            <4>1. g[i + 1] = e
                BY <3>2, <3>4
            <4>2. \A a \in 1..2 : a = 2 * (1 - 1) + a
                OBVIOUS
            <4>3. 1 \in 1..(i + 1) /\ 2 * (i + 1) = 2 /\ e = s[1]
                BY <3>4
            <4>. HIDE DEF e
            <4>. QED
                BY <3>3, <4>1, <4>2, <4>3
        <3>5. CASE i # 0
            <4>. DEFINE d == g[i]
            <4>1. i \in 1..n
                BY <1>1, <3>1, <3>5
            <4>2. In(d, i) /\ d \in Seq(S)
                BY <2>2, <2>4, <4>1
            <4>3. g[i + 1] = d \o e
                BY <3>2, <3>5
            <4>. DEFINE f == d \o e
                        l == 2 * i
            <4>6. Len(d) = l /\ l \in Nat /\ 2 * (i + 1) = l + 2
                BY <4>2
            <4>. HIDE DEF d, e, l
            <4>7. /\ Len(f) = l + 2
                  /\ \A a \in 1..l : f[a] = d[a]
                  /\ \A b \in 1..2 : f[l + b] = e[b]
                <5>1. d \in Seq(S) /\ e \in Seq(S) /\ Len(d) = l /\ Len(e) = 2
                    BY <3>3, <4>2, <4>6
                <5>2. /\ Len(f) = Len(d) + 2
                      /\ \A a \in 1..Len(d) : f[a] = d[a]
                      /\ \A b \in 1..2 : f[Len(d) + b] = e[b]
                    BY <5>1, PairAppended
                <5>. HIDE DEF f
                <5>. QED
                    BY <5>1, <5>2
            <4>4. /\ Len(f) = 2 * (i + 1)
                  /\ \A a \in 1..(2 * i) : f[a] = d[a]
                  /\ \A b \in 1..2 : f[2 * i + b] = e[b]
                BY <4>6, <4>7 DEF l
            <4>. HIDE DEF f
            <4>5. ASSUME NEW a \in 1..(2 * (i + 1))
                  PROVE  \E k \in 1..(i + 1), b \in 1..2 :
                            a = 2 * (k - 1) + b /\ f[a] = s[k][b]
                <5>1. CASE a <= 2 * i
                    <6>1. a \in 1..(2 * i) /\ f[a] = d[a]
                        BY <4>4, <5>1
                    <6>2. PICK k \in 1..i, b \in 1..2 : a = 2 * (k - 1) + b /\ d[a] = s[k][b]
                        BY <4>2, <6>1
                    <6>3. k \in 1..(i + 1)
                        OBVIOUS
                    <6>. QED
                        BY <6>1, <6>2, <6>3
                <5>2. CASE a > 2 * i
                    <6>1. a - 2 * i \in 1..2 /\ a = 2 * i + (a - 2 * i)
                          /\ a = 2 * ((i + 1) - 1) + (a - 2 * i)
                        BY <5>2
                    <6>2. f[a] = s[i + 1][a - 2 * i]
                        BY <4>4, <6>1 DEF e
                    <6>3. i + 1 \in 1..(i + 1)
                        OBVIOUS
                    <6>. QED
                        BY <6>1, <6>2, <6>3
                <5>. QED
                    BY <5>1, <5>2
            <4>8. In(f, i + 1)
                BY <4>4, <4>5
            <4>9. g[i + 1] = f
                BY <4>3 DEF f
            <4>. HIDE DEF In
            <4>. QED
                BY <4>8, <4>9
        <3>. QED
            BY <3>4, <3>5
    <2>. HIDE DEF Done
    <2>5. Nat \subseteq Done
        BY <2>3, <2>4, SetInduction
    <2>6. n \in Done
        BY <1>1, <2>5
    <2>7. In(g[n], n)
        BY <1>1, <1>3, <2>6 DEF Done
    <2>8. In(FlattenSeq(s), n)
        <3>. HIDE DEF In
        <3>. QED
            BY <2>1, <2>7
    <2>. QED
        BY <1>1, <2>8 DEF n
<1>. QED
    BY <1>2, <1>3

-----------------------------------------------------------------------------
(* Courses: what a scan carries along, word by word.                         *)

\* By the steps of R, <<before, word, after>>, the words of s lead from a to b.
Runs(R, s, a, b) ==
    \E c : /\ c[0] = a /\ c[Len(s)] = b
           /\ \A k \in 0..(Len(s) - 1) : <<c[k], s[k + 1], c[k + 1]>> \in R

\* Nothing leads nowhere, and a word one step on.
LEMMA RunsNone == \A R, a : Runs(R, <<>>, a, a)
<1>. SUFFICES ASSUME NEW R, NEW a PROVE Runs(R, <<>>, a, a)
    OBVIOUS
<1>. DEFINE c == [k \in {0} |-> a]
<1>1. c[0] = a /\ Len(<<>>) = 0
    OBVIOUS
<1>. HIDE DEF c
<1>. QED
    BY <1>1 DEF Runs

\* A word leads one step on.
LEMMA RunsWord ==
    ASSUME NEW R, NEW a, NEW w, NEW b, <<a, w, b>> \in R
    PROVE  Runs(R, <<w>>, a, b)
<1>. DEFINE c == [k \in {0, 1} |-> IF k = 0 THEN a ELSE b]
            s == <<w>>
<1>1. c[0] = a /\ c[1] = b /\ Len(s) = 1 /\ s[1] = w
    OBVIOUS
<1>. HIDE DEF c, s
<1>2. \A k \in 0..(Len(s) - 1) : <<c[k], s[k + 1], c[k + 1]>> \in R
    <2>1. \A k \in 0..(Len(s) - 1) : k = 0 /\ k + 1 = 1
        BY <1>1
    <2>. QED
        BY <1>1, <2>1
<1>3. Runs(R, s, a, b)
    BY <1>1, <1>2 DEF Runs
<1>. QED
    BY <1>3 DEF s

\* What stands where in two texts, one after the other.
LEMMA ConcatAt ==
    ASSUME NEW S, NEW s \in Seq(S), NEW t \in Seq(S)
    PROVE  /\ Len(s) \in Nat /\ Len(t) \in Nat /\ Len(s \o t) = Len(s) + Len(t)
           /\ s \o t \in Seq(S)
           /\ \A k \in 1..Len(s) : (s \o t)[k] = s[k]
           /\ \A k \in 1..Len(t) : (s \o t)[Len(s) + k] = t[k]
<1>. DEFINE m == Len(s)
            n == Len(t)
<1>1. m \in Nat /\ n \in Nat
    OBVIOUS
<1>2. Len(s \o t) = m + n /\ s \o t \in Seq(S)
    BY ConcatLength, ConcatProperties
<1>3. \A k \in 1..m : (s \o t)[k] = s[k]
    OBVIOUS
<1>4. ASSUME NEW k \in 1..n PROVE (s \o t)[m + k] = t[k]
    <2>1. m + k \in 1..(m + n) /\ m + k > m /\ (m + k) - m = k
        BY <1>1
    <2>. QED
        BY <2>1
<1>. HIDE DEF m, n
<1>. QED
    BY <1>1, <1>2, <1>3, <1>4 DEF m, n

\* The words of a text are what it is over.
LEMMA WordsOf ==
    ASSUME NEW S, NEW s \in Seq(S)
    PROVE  \A k \in 1..Len(s) : s[k] \in S
OBVIOUS

\* Three texts can be put together from either end.
LEMMA Associative ==
    \A S : \A s, t, u \in Seq(S) : (s \o t) \o u = s \o (t \o u)
BY ConcatAssociative

\* Of two texts, the second is read from where the first has led.
LEMMA RunsConcat ==
    ASSUME NEW S, NEW s \in Seq(S), NEW t \in Seq(S), NEW R, NEW a, NEW b, NEW d,
           Runs(R, s, a, b), Runs(R, t, b, d)
    PROVE  Runs(R, s \o t, a, d)
<1>. DEFINE m == Len(s)
            n == Len(t)
            r == s \o t
<1>1. m \in Nat /\ n \in Nat /\ Len(r) = m + n
      /\ (\A k \in 1..m : r[k] = s[k]) /\ (\A k \in 1..n : r[m + k] = t[k])
    BY ConcatAt
<1>2. PICK f : /\ f[0] = a /\ f[m] = b
               /\ \A k \in 0..(m - 1) : <<f[k], s[k + 1], f[k + 1]>> \in R
    BY DEF Runs
<1>3. PICK g : /\ g[0] = b /\ g[n] = d
               /\ \A k \in 0..(n - 1) : <<g[k], t[k + 1], g[k + 1]>> \in R
    BY DEF Runs
<1>. HIDE DEF m, n, r
<1>. DEFINE c == [k \in 0..(m + n) |-> IF k <= m THEN f[k] ELSE g[k - m]]
<1>4. \A k \in 0..m : c[k] = f[k]
    BY <1>1
<1>5. \A k \in 0..n : c[m + k] = g[k]
    <2>1. ASSUME NEW k \in 0..n PROVE c[m + k] = g[k]
        <3>1. m + k \in 0..(m + n) /\ (m + k) - m = k /\ (m + k <= m => k = 0)
            BY <1>1
        <3>2. k = 0 => c[m + k] = f[m]
            BY <1>1
        <3>. QED
            BY <1>2, <1>3, <3>1, <3>2
    <2>. QED
        BY <2>1
<1>. HIDE DEF c
<1>6. ASSUME NEW k \in 0..((m + n) - 1)
      PROVE  <<c[k], r[k + 1], c[k + 1]>> \in R
    <2>1. CASE k < m
        <3>1. k \in 0..m /\ k + 1 \in 0..m /\ k + 1 \in 1..m /\ k \in 0..(m - 1)
            BY <1>1, <2>1
        <3>2. c[k] = f[k] /\ c[k + 1] = f[k + 1] /\ r[k + 1] = s[k + 1]
            BY <1>1, <1>4, <3>1
        <3>. QED
            BY <1>2, <3>1, <3>2
    <2>2. CASE k >= m
        <3>. DEFINE j == k - m
        <3>1. j \in 0..(n - 1) /\ j \in 0..n /\ j + 1 \in 0..n /\ j + 1 \in 1..n
              /\ k = m + j /\ k + 1 = m + (j + 1)
            BY <1>1, <2>2
        <3>. HIDE DEF j
        <3>2. /\ c[k] = g[j] /\ c[k + 1] = g[j + 1] /\ r[k + 1] = t[j + 1]
            BY <1>1, <1>5, <3>1
        <3>. QED
            BY <1>3, <3>1, <3>2
    <2>. QED
        BY <1>1, <2>1, <2>2
<1>7. c[0] = a /\ c[m + n] = d
    <2>1. 0 \in 0..m /\ n \in 0..n
        BY <1>1
    <2>. QED
        BY <1>2, <1>3, <1>4, <1>5, <2>1
<1>8. c[0] = a /\ c[Len(r)] = d
      /\ \A k \in 0..(Len(r) - 1) : <<c[k], r[k + 1], c[k + 1]>> \in R
    BY <1>1, <1>6, <1>7
<1>9. Runs(R, r, a, d)
    BY <1>8 DEF Runs
<1>. QED
    BY <1>9 DEF r

\* A list has its elements at 1, 2 and so on.
LEMMA ListIs ==
    ASSUME NEW S, NEW s \in Seq(S)
    PROVE  DOMAIN s = 1..Len(s) /\ Len(s) \in Nat /\ \A k \in DOMAIN s : s[k] \in S
OBVIOUS

\* What two lists of texts flatten to is related if the texts are, one by one, and
\* concatenation keeps the relation.
LEMMA FlattenRelated ==
    ASSUME NEW S, NEW T, NEW s \in Seq(Seq(S)), NEW t \in Seq(Seq(T)), Len(s) = Len(t),
           NEW R, <<<<>>, <<>>>> \in R, \A k \in DOMAIN s : <<s[k], t[k]>> \in R,
           \A a, b \in Seq(S) : \A c, d \in Seq(T) :
              <<a, c>> \in R /\ <<b, d>> \in R => <<a \o b, c \o d>> \in R
    PROVE  <<FlattenSeq(s), FlattenSeq(t)>> \in R
<1>. DEFINE n == Len(s)
<1>1. n \in Nat /\ DOMAIN s = 1..n /\ DOMAIN t = 1..n
      /\ (\A k \in 1..n : s[k] \in Seq(S)) /\ (\A k \in 1..n : t[k] \in Seq(T))
    OBVIOUS
<1>. HIDE DEF n
<1>2. CASE n = 0
    <2>1. s = <<>> /\ t = <<>>
        BY <1>2, EmptySeq DEF n
    <2>. QED
        BY <2>1, FlattenEmpty
<1>3. CASE n # 0
    <2>1. PICK g : Unrolls(g, s, n) /\ FlattenSeq(s) = g[n]
        BY <1>1, <1>3, FlattenUnrolls DEF n
    <2>2. PICK h : Unrolls(h, t, n) /\ FlattenSeq(t) = h[n]
        BY <1>1, <1>3, FlattenUnrolls DEF n
    <2>3. \A i \in 1..n : g[i] \in Seq(S)
        BY <1>1, <2>1, UnrollsType, Zenon
    <2>4. \A i \in 1..n : h[i] \in Seq(T)
        BY <1>1, <2>2, UnrollsType, Zenon
    <2>. DEFINE Done == {i \in Nat : i \in 1..n => <<g[i], h[i]>> \in R}
    <2>5. 0 \in Done
        OBVIOUS
    <2>6. ASSUME NEW i \in Nat, i \in Done PROVE i + 1 \in Done
        <3>1. SUFFICES ASSUME i + 1 \in 1..n PROVE <<g[i + 1], h[i + 1]>> \in R
            OBVIOUS
        <3>2. /\ g[i + 1] = IF i = 0 THEN s[i + 1] ELSE g[i] \o s[i + 1]
              /\ h[i + 1] = IF i = 0 THEN t[i + 1] ELSE h[i] \o t[i + 1]
            <4>1. i + 1 - 1 = i /\ (i + 1 = 1 <=> i = 0)
                OBVIOUS
            <4>. QED
                BY <2>1, <2>2, <3>1, <4>1 DEF Unrolls
        <3>3. <<s[i + 1], t[i + 1]>> \in R /\ s[i + 1] \in Seq(S) /\ t[i + 1] \in Seq(T)
            BY <1>1, <3>1
        <3>4. CASE i = 0
            BY <3>2, <3>3, <3>4
        <3>5. CASE i # 0
            <4>1. i \in 1..n
                BY <1>1, <3>1, <3>5
            <4>2. <<g[i], h[i]>> \in R /\ g[i] \in Seq(S) /\ h[i] \in Seq(T)
                BY <2>3, <2>4, <2>6, <4>1
            <4>3. <<g[i] \o s[i + 1], h[i] \o t[i + 1]>> \in R
                BY <3>3, <4>2, Zenon
            <4>. QED
                BY <3>2, <3>5, <4>3
        <3>. QED
            BY <3>4, <3>5
    <2>. HIDE DEF Done
    <2>7. Nat \subseteq Done
        BY <2>5, <2>6, SetInduction
    <2>8. <<g[n], h[n]>> \in R
        BY <1>1, <1>3, <2>7 DEF Done
    <2>. QED
        BY <2>1, <2>2, <2>8
<1>. QED
    BY <1>2, <1>3

\* A property that texts keep when they are put together holds of many put together.
LEMMA FlattenWithin ==
    ASSUME NEW S, NEW s \in Seq(Seq(S)), NEW P, <<>> \in P, \A k \in DOMAIN s : s[k] \in P,
           \A a, b \in Seq(S) : a \in P /\ b \in P => a \o b \in P
    PROVE  FlattenSeq(s) \in P
<1>. DEFINE R == {<<a, a>> : a \in P}
<1>1. <<<<>>, <<>>>> \in R /\ \A k \in DOMAIN s : <<s[k], s[k]>> \in R
    OBVIOUS
<1>2. ASSUME NEW a \in Seq(S), NEW b \in Seq(S), NEW c \in Seq(S), NEW d \in Seq(S),
             <<a, c>> \in R, <<b, d>> \in R
      PROVE  <<a \o b, c \o d>> \in R
    <2>1. a \in P /\ c = a /\ b \in P /\ d = b
        BY <1>2
    <2>2. a \o b \in P
        BY <2>1
    <2>. QED
        BY <2>1, <2>2
<1>3. \A a \in P : <<a, a>> \in R
    OBVIOUS
<1>4. \A x, y : <<x, y>> \in R => x \in P
    OBVIOUS
<1>. HIDE DEF R
<1>5. <<FlattenSeq(s), FlattenSeq(s)>> \in R
    <2>1. Len(s) = Len(s)
        OBVIOUS
    <2>. QED
        BY <1>1, <1>2, <2>1, FlattenRelated
<1>. QED
    BY <1>4, <1>5

\* The front, the back and the middle of a text put together.
LEMMA CutConcat ==
    ASSUME NEW S, NEW s \in Seq(S), NEW t \in Seq(S)
    PROVE  /\ SubSeq(s \o t, 1, Len(s)) = s
           /\ SubSeq(s \o t, Len(s) + 1, Len(s \o t)) = t
<1>. DEFINE m == Len(s)
            n == Len(t)
            r == s \o t
<1>1. /\ m \in Nat /\ n \in Nat /\ Len(r) = m + n /\ r \in Seq(S)
      /\ \A k \in 1..m : r[k] = s[k]
      /\ \A k \in 1..n : r[m + k] = t[k]
    BY ConcatAt
<1>. HIDE DEF m, n, r
<1>2. ASSUME NEW i \in Nat, NEW j \in Nat, i <= m + n, j <= i + 1, 1 <= j
      PROVE  /\ Len(SubSeq(r, j, i)) = i - j + 1 /\ SubSeq(r, j, i) \in Seq(S)
             /\ \A k \in 1..(i - j + 1) : SubSeq(r, j, i)[k] = r[j + k - 1]
    <2>1. \A k \in j..i : r[k] \in S
        BY <1>1, <1>2
    <2>2. (IF j <= i THEN i - j + 1 ELSE 0) = i - j + 1 /\ i \in Int /\ j \in Int
        BY <1>2
    <2>3. /\ SubSeq(r, j, i) \in Seq(S)
          /\ Len(SubSeq(r, j, i)) = IF j <= i THEN i - j + 1 ELSE 0
          /\ \A k \in 1..(i - j + 1) : SubSeq(r, j, i)[k] = r[j + k - 1]
        BY <2>1, <2>2, SubSeqProperties
    <2>. QED
        BY <2>2, <2>3
<1>3. SubSeq(r, 1, m) = s
    <2>1. m <= m + n /\ 1 <= m + 1 /\ m - 1 + 1 = m
        BY <1>1
    <2>2. /\ Len(SubSeq(r, 1, m)) = m /\ SubSeq(r, 1, m) \in Seq(S)
          /\ \A k \in 1..m : SubSeq(r, 1, m)[k] = r[1 + k - 1]
        <3>. DEFINE j == 1
        <3>1. m \in Nat /\ j \in Nat /\ m <= m + n /\ j <= m + 1 /\ 1 <= j /\ m - j + 1 = m
            BY <1>1, <2>1
        <3>. HIDE DEF j
        <3>2. /\ Len(SubSeq(r, j, m)) = m - j + 1 /\ SubSeq(r, j, m) \in Seq(S)
              /\ \A k \in 1..(m - j + 1) : SubSeq(r, j, m)[k] = r[j + k - 1]
            BY <1>2, <3>1
        <3>. QED
            BY <3>1, <3>2 DEF j
    <2>3. \A k \in 1..m : SubSeq(r, 1, m)[k] = s[k]
        <3>1. \A k \in 1..m : 1 + k - 1 = k
            BY <1>1
        <3>. QED
            BY <1>1, <2>2, <3>1
    <2>. QED
        BY <2>2, <2>3, SeqEqual DEF m
<1>4. SubSeq(r, m + 1, m + n) = t
    <2>1. /\ m + n \in Nat /\ m + 1 \in Nat /\ m + n <= m + n /\ m + 1 <= m + n + 1
          /\ m + n - (m + 1) + 1 = n /\ 1 <= m + 1
        <3>1. m \in Nat /\ n \in Nat
            BY <1>1
        <3>. HIDE DEF m, n
        <3>2. m + n \in Nat /\ m + 1 \in Nat /\ m + 1 <= m + n + 1 /\ 1 <= m + 1
            BY <3>1
        <3>3. \A k \in Nat : k <= k
            OBVIOUS
        <3>4. m + n - (m + 1) + 1 = n
            BY <3>1
        <3>. QED
            BY <3>2, <3>3, <3>4
    <2>2. /\ Len(SubSeq(r, m + 1, m + n)) = n /\ SubSeq(r, m + 1, m + n) \in Seq(S)
          /\ \A k \in 1..n : SubSeq(r, m + 1, m + n)[k] = r[m + 1 + k - 1]
        <3>. DEFINE i == m + n
                    j == m + 1
        <3>1. i \in Nat /\ j \in Nat /\ i <= m + n /\ j <= i + 1 /\ 1 <= j /\ i - j + 1 = n
            BY <1>1, <2>1
        <3>. HIDE DEF i, j
        <3>2. /\ Len(SubSeq(r, j, i)) = i - j + 1 /\ SubSeq(r, j, i) \in Seq(S)
              /\ \A k \in 1..(i - j + 1) : SubSeq(r, j, i)[k] = r[j + k - 1]
            BY <1>2, <3>1
        <3>. QED
            BY <3>1, <3>2 DEF i, j
    <2>3. \A k \in 1..n : SubSeq(r, m + 1, m + n)[k] = t[k]
        <3>1. \A k \in 1..n : m + 1 + k - 1 = m + k
            BY <1>1
        <3>. QED
            BY <1>1, <2>2, <3>1
    <2>. QED
        BY <2>2, <2>3, SeqEqual DEF n
<1>. QED
    BY <1>1, <1>3, <1>4 DEF m, n, r

\* What the words of a text have, and texts keep when they are put together, the
\* text has.
LEMMA TextWithin ==
    ASSUME NEW S, NEW s \in Seq(S), NEW P, <<>> \in P,
           \A k \in DOMAIN s : <<s[k]>> \in P,
           \A a, b \in Seq(S) : a \in P /\ b \in P => a \o b \in P
    PROVE  s \in P
<1>. DEFINE n == Len(s)
            Done == {k \in Nat : k <= n => SubSeq(s, 1, k) \in P}
<1>1. n \in Nat /\ DOMAIN s = 1..n /\ SubSeq(s, 1, 0) = <<>> /\ SubSeq(s, 1, n) = s
    OBVIOUS
<1>2. ASSUME NEW k \in Nat, k + 1 <= n
      PROVE  /\ SubSeq(s, 1, k + 1) = Append(SubSeq(s, 1, k), s[k + 1])
             /\ SubSeq(s, 1, k) \in Seq(S) /\ s[k + 1] \in S /\ k + 1 \in DOMAIN s
    BY <1>2
<1>. HIDE DEF n
<1>3. 0 \in Done
    BY <1>1
<1>4. ASSUME NEW k \in Nat, k \in Done PROVE k + 1 \in Done
    <2>1. SUFFICES ASSUME k + 1 <= n PROVE SubSeq(s, 1, k + 1) \in P
        OBVIOUS
    <2>. DEFINE t == SubSeq(s, 1, k)
                x == s[k + 1]
    <2>2. t \in P /\ t \in Seq(S) /\ x \in S /\ <<x>> \in P /\ k <= n
        BY <1>1, <1>2, <1>4, <2>1
    <2>3. SubSeq(s, 1, k + 1) = Append(t, x)
        BY <1>2, <2>1
    <2>. HIDE DEF t, x
    <2>4. Append(t, x) = t \o <<x>> /\ <<x>> \in Seq(S)
        BY <2>2, AppendIsConcat
    <2>. QED
        BY <2>2, <2>3, <2>4
<1>. HIDE DEF Done
<1>5. n \in Done
    BY <1>1, <1>3, <1>4, SetInduction
<1>6. n <= n => SubSeq(s, 1, n) \in P
    BY <1>5 DEF Done
<1>7. n <= n
    BY <1>1
<1>. QED
    BY <1>1, <1>6, <1>7

\* All of a list is picked.
LEMMA PickedAll ==
    ASSUME NEW S, NEW s \in Seq(S), NEW I, DOMAIN s \subseteq I
    PROVE  Picked(s, I) = s
<1>. DEFINE n == Len(s)
<1>1. n \in Nat /\ DOMAIN s = 1..n /\ SubSeq(s, 1, n) = s
    OBVIOUS
<1>2. PICK a \in Nat : a = 1
    OBVIOUS
<1>3. /\ 1 <= a /\ a <= n + 1 /\ n <= Len(s)
      /\ \A i \in DOMAIN s : i \in I <=> a <= i /\ i <= n
    BY <1>1, <1>2
<1>4. Picked(s, I) = SubSeq(s, a, n)
    BY <1>1, <1>3, PickedInterval
<1>. QED
    BY <1>1, <1>2, <1>4

\* A selection is no longer than what it is taken from.
LEMMA PickedShorter ==
    ASSUME NEW S, NEW s \in Seq(S), NEW I
    PROVE  Len(Picked(s, I)) <= Len(s)
<1>. DEFINE P(n) == Picked(SubSeq(s, 1, n), I)
            Done == {n \in Nat : n <= Len(s) => Len(P(n)) <= n}
<1>1. Len(s) \in Nat /\ SubSeq(s, 1, Len(s)) = s /\ SubSeq(s, 1, 0) = <<>>
    OBVIOUS
<1>2. 0 \in Done
    <2>1. P(0) = <<>> /\ Len(<<>>) = 0
        BY <1>1, PickedEmpty
    <2>. QED
        BY <2>1
<1>3. ASSUME NEW n \in Nat, n \in Done PROVE n + 1 \in Done
    <2>1. SUFFICES ASSUME n + 1 <= Len(s) PROVE Len(P(n + 1)) <= n + 1
        OBVIOUS
    <2>2. n \in 0..(Len(s) - 1) /\ Len(P(n)) <= n
        BY <1>1, <1>3, <2>1
    <2>3. P(n + 1) = IF n + 1 \in I THEN Append(P(n), s[n + 1]) ELSE P(n)
        BY <2>2, PickedStep
    <2>4. P(n) \in Seq(S)
        <3>1. SubSeq(s, 1, n) \in Seq(S)
            BY <2>2
        <3>. QED
            BY <3>1, PickedType
    <2>. HIDE DEF P
    <2>5. Len(P(n)) \in Nat /\ Len(Append(P(n), s[n + 1])) = Len(P(n)) + 1
        BY <2>4
    <2>6. CASE n + 1 \in I
        BY <2>2, <2>3, <2>5, <2>6
    <2>7. CASE n + 1 \notin I
        BY <2>2, <2>3, <2>5, <2>7
    <2>. QED
        BY <2>6, <2>7
<1>. HIDE DEF Done
<1>4. Nat \subseteq Done
    BY <1>2, <1>3, SetInduction
<1>5. Len(s) \in Done /\ Len(s) <= Len(s)
    BY <1>1, <1>4
<1>6. Len(P(Len(s))) <= Len(s)
    BY <1>5 DEF Done
<1>. QED
    BY <1>1, <1>6

\* Behind the first n, at most the next one is picked.
LEMMA PickedMore ==
    ASSUME NEW S, NEW s \in Seq(S), NEW I, NEW n \in Nat, n + 1 <= Len(s),
           \A i \in DOMAIN s : i \in I => i <= n + 1
    PROVE  Picked(s, I) = IF n + 1 \in I THEN Append(Picked(SubSeq(s, 1, n), I), s[n + 1])
                          ELSE Picked(SubSeq(s, 1, n), I)
<1>. DEFINE P(k) == Picked(SubSeq(s, 1, k), I)
            Done == {k \in Nat : n + 1 + k <= Len(s) => P(n + 1 + k) = P(n + 1)}
<1>1. Len(s) \in Nat /\ DOMAIN s = 1..Len(s) /\ SubSeq(s, 1, Len(s)) = s
    OBVIOUS
<1>2. P(n + 1) = IF n + 1 \in I THEN Append(P(n), s[n + 1]) ELSE P(n)
    <2>1. n \in 0..(Len(s) - 1)
        BY <1>1
    <2>. QED
        BY <2>1, PickedStep
<1>3. 0 \in Done
    OBVIOUS
<1>4. ASSUME NEW k \in Nat, k \in Done PROVE k + 1 \in Done
    <2>1. SUFFICES ASSUME n + 1 + (k + 1) <= Len(s) PROVE P(n + 1 + (k + 1)) = P(n + 1)
        OBVIOUS
    <2>. DEFINE j == n + 1 + k
    <2>2. j \in 0..(Len(s) - 1) /\ j + 1 \in DOMAIN s /\ ~(j + 1 <= n + 1) /\ j <= Len(s)
          /\ n + 1 + (k + 1) = j + 1
        BY <1>1, <2>1
    <2>3. P(j) = P(n + 1)
        BY <1>4, <2>2
    <2>. HIDE DEF j
    <2>4. P(j + 1) = P(j)
        <3>1. j + 1 \notin I
            BY <2>2
        <3>. QED
            BY <2>2, <3>1, PickedStep
    <2>. QED
        BY <2>2, <2>3, <2>4
<1>. HIDE DEF Done
<1>5. Nat \subseteq Done
    BY <1>3, <1>4, SetInduction
<1>6. P(Len(s)) = P(n + 1)
    <2>. DEFINE k == Len(s) - (n + 1)
    <2>1. k \in Nat /\ n + 1 + k = Len(s) /\ Len(s) <= Len(s)
        BY <1>1
    <2>. HIDE DEF k, P
    <2>2. k \in Done
        BY <1>5, <2>1
    <2>. QED
        BY <2>1, <2>2 DEF Done
<1>. QED
    BY <1>1, <1>2, <1>6

\* A list that is not empty has a front and a last element.
LEMMA FrontLast ==
    ASSUME NEW S, NEW s \in Seq(S), s # <<>>
    PROVE  /\ Len(s) >= 1 /\ Len(s) - 1 \in Nat /\ Len(s) \in DOMAIN s
           /\ s[Len(s)] \in S /\ Front(s) \in Seq(S) /\ Len(Front(s)) = Len(s) - 1
           /\ \A k \in 1..(Len(s) - 1) : Front(s)[k] = s[k]
           /\ s = Append(Front(s), s[Len(s)])
<1>1. Len(s) >= 1 /\ Len(s) - 1 \in Nat /\ Len(s) \in DOMAIN s /\ s[Len(s)] \in S
    <2>1. DOMAIN s = 1..Len(s) /\ Len(s) \in Nat /\ \A k \in DOMAIN s : s[k] \in S
        BY ListIs
    <2>2. Len(s) # 0
        OBVIOUS
    <2>3. Len(s) >= 1 /\ Len(s) - 1 \in Nat /\ Len(s) \in 1..Len(s)
        BY <2>1, <2>2
    <2>. QED
        BY <2>1, <2>3
<1>2. Front(s) = SubSeq(s, 1, Len(s) - 1)
    BY DEF Front
<1>. DEFINE f == SubSeq(s, 1, Len(s) - 1)
            m == Len(s) - 1
<1>3. f \in Seq(S) /\ Len(f) = m /\ \A k \in 1..m : f[k] = s[k]
    <2>1. m \in Nat /\ 1 \in Int /\ m \in Int
        BY <1>1
    <2>2. \A k \in 1..m : s[k] \in S
        <3>1. \A k \in 1..m : k \in 1..Len(s)
            BY <1>1
        <3>. QED
            BY <3>1, WordsOf
    <2>3. f = SubSeq(s, 1, m)
        OBVIOUS
    <2>. HIDE DEF f, m
    <2>4. /\ f \in Seq(S) /\ Len(f) = IF 1 <= m THEN m - 1 + 1 ELSE 0
          /\ \A k \in 1..(m - 1 + 1) : f[k] = s[1 + k - 1]
        BY <2>1, <2>2, <2>3, SubSeqProperties
    <2>5. m - 1 + 1 = m /\ (~(1 <= m) => m = 0) /\ \A k \in 1..m : 1 + k - 1 = k
        BY <2>1
    <2>. QED
        BY <2>4, <2>5
<1>4. s = f \o <<s[Len(s)]>>
    <2>1. Len(s) \in 1..Len(s) /\ 1 \in 1..Len(s)
        BY <1>1
    <2>2. SubSeq(s, 1, Len(s)) = f \o <<s[Len(s)]>>
        BY <2>1, SubSeqRecursiveSecond
    <2>. QED
        BY <2>2, SubSeqFull
<1>5. Append(f, s[Len(s)]) = f \o <<s[Len(s)]>>
    <2>. DEFINE e == s[Len(s)]
    <2>1. e \in S
        BY <1>1
    <2>. HIDE DEF f, e
    <2>2. Append(f, e) = f \o <<e>>
        BY <1>3, <2>1, AppendIsConcat
    <2>. QED
        BY <2>2 DEF e
<1>. HIDE DEF f
<1>. QED
    BY <1>1, <1>2, <1>3, <1>4, <1>5 DEF f

\* The last of a list of texts is flattened last.
LEMMA FlattenFront ==
    ASSUME NEW S, NEW g \in Seq(Seq(S)), NEW h \in Seq(Seq(S)), Len(g) = Len(h) + 1,
           \A k \in DOMAIN h : g[k] = h[k]
    PROVE  FlattenSeq(g) = FlattenSeq(h) \o g[Len(g)]
<1>. DEFINE n == Len(h)
            A == Seq(S)
<1>1. n \in Nat /\ DOMAIN h = 1..n /\ DOMAIN g = 1..(n + 1)
      /\ \A k \in DOMAIN g : g[k] \in A
    BY ListIs
<1>2. h \in [1..n -> A] /\ g \in [1..(n + 1) -> A]
    <2>1. h = [k \in DOMAIN h |-> h[k]] /\ g = [k \in DOMAIN g |-> g[k]]
        OBVIOUS
    <2>2. \A k \in DOMAIN h : h[k] \in A
        BY ListIs
    <2>. HIDE DEF A, n
    <2>. QED
        BY <1>1, <2>1, <2>2
<1>3. n + 1 \in DOMAIN g /\ Len(g) = n + 1
    BY <1>1
<1>4. g[n + 1] \in Seq(S)
    BY <1>1, <1>3
<1>. HIDE DEF n, A
<1>5. g = Append(h, g[n + 1])
    BY <1>1, <1>2, Extend
<1>6. FlattenSeq(Append(h, g[n + 1])) = FlattenSeq(h) \o g[n + 1]
    BY <1>4, FlattenAppend
<1>. QED
    BY <1>3, <1>5, <1>6

\* A list flattens, one by one, to itself.
LEMMA FlattenSingles ==
    ASSUME NEW S, NEW s \in Seq(S)
    PROVE  FlattenSeq([k \in DOMAIN s |-> <<s[k]>>]) = s
<1>1. Picked(s, DOMAIN s) = s
    BY PickedAll
<1>2. Pieces(s, DOMAIN s) = [k \in DOMAIN s |-> <<s[k]>>]
    BY DEF Pieces
<1>. QED
    BY <1>1, <1>2 DEF Picked

\* What stands where in a text between two words.
LEMMA BetweenAt ==
    ASSUME NEW S, NEW o \in S, NEW c \in S, NEW t \in Seq(S)
    PROVE  /\ <<o>> \o t \o <<c>> \in Seq(S) /\ Len(<<o>> \o t \o <<c>>) = Len(t) + 2
           /\ Len(t) \in Nat
           /\ (<<o>> \o t \o <<c>>)[1] = o /\ (<<o>> \o t \o <<c>>)[Len(t) + 2] = c
           /\ \A k \in 1..Len(t) : (<<o>> \o t \o <<c>>)[1 + k] = t[k]
<1>. DEFINE a == <<o>>
            b == <<c>>
            p == a \o t
            n == Len(t)
<1>0. a \in Seq(S) /\ b \in Seq(S)
    OBVIOUS
<1>1. Len(a) = 1 /\ Len(b) = 1 /\ a[1] = o /\ b[1] = c
    OBVIOUS
<1>. HIDE DEF a, b
<1>2. /\ n \in Nat /\ Len(p) = Len(a) + n /\ p \in Seq(S)
      /\ \A k \in 1..Len(a) : p[k] = a[k]
      /\ \A k \in 1..n : p[Len(a) + k] = t[k]
    BY <1>0, ConcatAt
<1>. HIDE DEF p
<1>7. p \in Seq(S)
    BY <1>2
<1>3. /\ Len(p \o b) = Len(p) + Len(b) /\ p \o b \in Seq(S)
      /\ \A k \in 1..Len(p) : (p \o b)[k] = p[k]
      /\ \A k \in 1..Len(b) : (p \o b)[Len(p) + k] = b[k]
    BY <1>0, <1>7, ConcatAt
<1>. DEFINE g == p \o b
<1>. HIDE DEF g, n
<1>4. Len(p) = n + 1 /\ Len(g) = n + 2 /\ g \in Seq(S)
    BY <1>1, <1>2, <1>3 DEF g
<1>5. p[1] = o /\ \A k \in 1..n : p[1 + k] = t[k]
    BY <1>1, <1>2
<1>6. g[1] = o /\ (\A k \in 1..n : g[1 + k] = t[k]) /\ g[n + 2] = c
    <2>1. 1 \in 1..Len(p) /\ \A k \in 1..n : 1 + k \in 1..Len(p)
        BY <1>2, <1>4
    <2>2. \A k \in 1..Len(p) : g[k] = p[k]
        BY <1>3 DEF g
    <2>3. g[Len(p) + 1] = b[1]
        BY <1>1, <1>3 DEF g
    <2>4. Len(p) + 1 = n + 2
        BY <1>2, <1>4
    <2>. QED
        BY <1>1, <1>5, <2>1, <2>2, <2>3, <2>4
<1>. QED
    BY <1>2, <1>4, <1>6 DEF g, p, a, b, n

\* A piece of a text that has the words of another is that one.
LEMMA SliceIs ==
    ASSUME NEW S, NEW s \in Seq(S), NEW t \in Seq(S), NEW i \in Nat,
           i + Len(t) <= Len(s), \A k \in 1..Len(t) : s[i + k] = t[k]
    PROVE  SubSeq(s, i + 1, i + Len(t)) = t
<1>. DEFINE m == i + 1
            j == i + Len(t)
            r == SubSeq(s, m, j)
<1>1. Len(t) \in Nat /\ Len(s) \in Nat
    OBVIOUS
<1>2. m \in Int /\ j \in Int /\ j - m + 1 = Len(t) /\ (~(m <= j) => Len(t) = 0)
    BY <1>1
<1>3. \A k \in m..j : s[k] \in S
    <2>1. \A k \in m..j : k \in 1..Len(s)
        BY <1>1
    <2>. QED
        BY <2>1, WordsOf
<1>4. \A k \in 1..Len(t) : m + k - 1 = i + k
    BY <1>1
<1>. HIDE DEF m, j
<1>5. /\ r \in Seq(S) /\ Len(r) = IF m <= j THEN j - m + 1 ELSE 0
      /\ \A k \in 1..(j - m + 1) : r[k] = s[m + k - 1]
    BY <1>2, <1>3, SubSeqProperties
<1>. HIDE DEF r
<1>6. Len(r) = Len(t) /\ \A k \in 1..Len(t) : r[k] = t[k]
    BY <1>2, <1>4, <1>5
<1>7. r = t
    <2>1. r \in Seq(S)
        BY <1>5
    <2>. QED
        BY <1>6, <2>1, SeqEqual
<1>. QED
    BY <1>7 DEF r, m, j

\* What the parts have, the list they flatten to has.
LEMMA FlattenHas ==
    ASSUME NEW S, NEW s \in Seq(Seq(S)), NEW k \in DOMAIN s, NEW x \in Range(s[k])
    PROVE  x \in Range(FlattenSeq(s))
<1>. DEFINE I == {k}
            t == Pieces(s, I)
            R == {p \in Seq(S) \X Seq(Seq(S)) : p[2] # <<>> => x \in Range(p[1])}
<1>1. s \in Seq(Seq(S)) /\ DOMAIN s = 1..Len(s) /\ \A i \in DOMAIN s : s[i] \in Seq(S)
    BY ListIs
<1>2. t \in Seq(Seq(Seq(S))) /\ Len(t) = Len(s)
    BY <1>1, PiecesType
<1>3. \A i \in DOMAIN s : t[i] = IF i = k THEN <<s[i]>> ELSE <<>>
    BY DEF Pieces
<1>. HIDE DEF t
<1>4. \A i \in DOMAIN s : t[i] \in Seq(Seq(S))
    <2>1. DOMAIN t = DOMAIN s
        BY <1>1, <1>2
    <2>. QED
        BY <1>2, <2>1, ListIs
<1>5. \A i \in DOMAIN s : <<s[i], t[i]>> \in R
    <2>1. ASSUME NEW i \in DOMAIN s PROVE t[i] # <<>> => x \in Range(s[i])
        BY <1>3
    <2>. QED
        BY <1>1, <1>4, <2>1
<1>6. <<<<>>, <<>>>> \in R
    <2>1. <<>> \in Seq(S) /\ <<>> \in Seq(Seq(S))
        OBVIOUS
    <2>. DEFINE p == <<<<>>, <<>>>>
    <2>2. p \in Seq(S) \X Seq(Seq(S)) /\ p[2] = <<>>
        BY <2>1
    <2>. HIDE DEF p
    <2>3. p \in R
        BY <2>2
    <2>. QED
        BY <2>3 DEF p
<1>7. ASSUME NEW a \in Seq(S), NEW b \in Seq(S), NEW c \in Seq(Seq(S)),
             NEW d \in Seq(Seq(S)), <<a, c>> \in R, <<b, d>> \in R
      PROVE  <<a \o b, c \o d>> \in R
    <2>1. (c # <<>> => x \in Range(a)) /\ (d # <<>> => x \in Range(b))
        BY <1>7
    <2>2. Range(a \o b) = Range(a) \cup Range(b)
        BY RangeConcat
    <2>3. c \o d # <<>> => c # <<>> \/ d # <<>>
        <3>1. <<>> \o <<>> = <<>>
            OBVIOUS
        <3>. QED
            BY <3>1
    <2>4. a \o b \in Seq(S) /\ c \o d \in Seq(Seq(S))
        OBVIOUS
    <2>5. c \o d # <<>> => x \in Range(a \o b)
        BY <2>1, <2>2, <2>3
    <2>. QED
        BY <2>4, <2>5
<1>8. \A a, c : <<a, c>> \in R => (c # <<>> => x \in Range(a))
    OBVIOUS
<1>. HIDE DEF R, I
<1>9. <<FlattenSeq(s), FlattenSeq(t)>> \in R
    BY <1>1, <1>2, <1>5, <1>6, <1>7, FlattenRelated
<1>10. FlattenSeq(t) # <<>>
    <2>1. k \in I
        BY DEF I
    <2>2. \E j \in DOMAIN Picked(s, I) : Picked(s, I)[j] = s[k]
        BY <1>1, <2>1, PickedHas
    <2>3. Picked(s, I) # <<>>
        <3>1. DOMAIN <<>> = {}
            OBVIOUS
        <3>. QED
            BY <2>2, <3>1
    <2>. QED
        BY <2>3 DEF Picked, t
<1>. QED
    BY <1>8, <1>9, <1>10

=============================================================================
