---------------------------- MODULE GeneratorProofs ----------------------------
(***************************************************************************)
(* Theorems about Generator, for schemas of any size. What parse reads is  *)
(* typed, whatever the text; the loops of Generate divide the methods read *)
(* among the adapter, the client and the list of skipped methods, losing   *)
(* none; the Go code the template then writes compiles when every method   *)
(* of the client takes and returns something; and what parse reads is what *)
(* the schema says, in the text it is written as.                          *)
(***************************************************************************)
EXTENDS Generator, SequenceLemmas, FiniteSetTheorems

\* The words and the punctuation of a text. All are strings: those that are
\* written out are what Source and Written add to a schema's own.
Token == STRING \cup {"(", ")", "{", "}", ",", ":", ";", "#", "->", "$", "nl",
                      "interface", "extends", "struct", "$Go.package",
                      "P", "a", "x", "Text", "@0"}

\* A schema as GeneratorAssumption types it.
SchemaDecl == [package: STRING, interfaces: Seq(InterfaceDecl)]

-----------------------------------------------------------------------------
(* The text of a schema.                                                     *)

\* Two texts one after the other are a text.
LEMMA TextAfter ==
    ASSUME NEW S, NEW s \in Seq(S), NEW t \in Seq(S)
    PROVE  s \o t \in Seq(S)
BY ConcatProperties

\* Short texts, a word at a time.
LEMMA ShortText ==
    ASSUME NEW S
    PROVE  /\ <<>> \in Seq(S)
           /\ \A x \in S : <<x>> \in Seq(S)
           /\ \A x, y \in S : <<x, y>> \in Seq(S)
           /\ \A x, y, z, v \in S : <<x, y, z, v>> \in Seq(S)
OBVIOUS

\* Over a larger set, too.
LEMMA Widened ==
    ASSUME NEW S, NEW T, S \subseteq T, NEW s \in Seq(S)
    PROVE  s \in Seq(T)
OBVIOUS

\* A list of texts with commas between them is a text.
LEMMA SeparatedType ==
    ASSUME NEW seqs \in Seq(Seq(Token)), NEW trailing \in BOOLEAN
    PROVE  Separated(seqs, trailing) \in Seq(Token)
<1>. DEFINE comma(k) == IF k < Len(seqs) \/ trailing THEN <<",">> ELSE <<>>
            e(k) == seqs[k] \o comma(k)
<1>1. Len(seqs) \in Nat /\ DOMAIN seqs = 1..Len(seqs)
    OBVIOUS
<1>2. "," \in Token
    BY DEF Token
<1>3. ASSUME NEW k \in 1..Len(seqs) PROVE e(k) \in Seq(Token)
    <2>1. <<",">> \in Seq(Token) /\ <<>> \in Seq(Token)
        BY <1>2, ShortText
    <2>2. comma(k) \in Seq(Token)
        BY <2>1
    <2>3. seqs[k] \in Seq(Token)
        OBVIOUS
    <2>. HIDE DEF comma
    <2>. QED
        BY <2>2, <2>3, TextAfter
<1>. HIDE DEF e
<1>4. [k \in DOMAIN seqs |-> e(k)] \in Seq(Seq(Token))
    BY <1>1, <1>3
<1>. QED
    BY <1>4, FlattenType DEF Separated, e, comma

\* A group is written as a text (the fields of a schema are words).
LEMMA GroupType ==
    ASSUME NEW fields \in Seq(FieldDecl), NEW m
    PROVE  Group(fields, m) \in Seq(Token)
<1>. DEFINE e(k) == <<fields[k].name, ":">> \o fields[k].type
<1>1. Len(fields) \in Nat /\ DOMAIN fields = 1..Len(fields)
    OBVIOUS
<1>2. "(" \in Token /\ ")" \in Token /\ ":" \in Token /\ STRING \subseteq Token
    BY DEF Token
<1>3. ASSUME NEW k \in 1..Len(fields) PROVE e(k) \in Seq(Token)
    <2>1. fields[k] \in FieldDecl
        OBVIOUS
    <2>2. fields[k].name \in Token /\ fields[k].type \in Seq(Token)
        <3>1. fields[k].name \in STRING /\ fields[k].type \in Seq(STRING)
            BY <2>1, GeneratorAssumption DEF FieldDecl
        <3>. QED
            BY <3>1, <1>2, Widened
    <2>3. <<fields[k].name, ":">> \in Seq(Token)
        BY <2>2, <1>2
    <2>. QED
        BY <2>2, <2>3, TextAfter
<1>. HIDE DEF e
<1>4. [k \in DOMAIN fields |-> e(k)] \in Seq(Seq(Token))
    BY <1>1, <1>3
<1>5. Separated([k \in DOMAIN fields |-> e(k)], m.style = "trailing" /\ fields # <<>>)
        \in Seq(Token)
    BY <1>4, SeparatedType
<1>6. <<"(">> \in Seq(Token) /\ <<")">> \in Seq(Token)
    BY <1>2
<1>. QED
    BY <1>5, <1>6, TextAfter DEF Group, e

\* So is a method.
LEMMA WrittenType ==
    ASSUME NEW m \in MethodDecl, NEW k \in DOMAIN Ordinals
    PROVE  Written(m, k) \in Seq(Token)
<1>. DEFINE above == CASE m.style = "commented" ->
                            <<"#", "(", ";", "interface", "a", "{", "nl">>
                       [] m.style = "nested" ->
                            <<"struct", "P", "{", "a", "@0", ":", "Text", ";", "}">>
                       [] OTHER -> <<>>
            called == <<m.name, Ordinals[k]>>
            takes == IF m.style = "struct" THEN <<"P">> ELSE Group(m.params, m)
            returns == IF m.style = "noResults" THEN <<>>
                       ELSE <<"->">> \o Group(m.results, m)
            notes == IF m.style = "noted" THEN <<"$", "(", "x", ")">> ELSE <<>>
<1>1. above \in Seq(Token)
    <2>1. /\ <<"#", "(", ";", "interface", "a", "{", "nl">> \in Seq(Token)
          /\ <<"struct", "P", "{", "a", "@0", ":", "Text", ";", "}">> \in Seq(Token)
          /\ <<>> \in Seq(Token)
        BY DEF Token
    <2>. QED
        BY <2>1
<1>2. called \in Seq(Token)
    <2>2. Ordinals[k] \in STRING
        BY GeneratorAssumption
    <2>3. Ordinals[k] \in Token /\ m.name \in Token
        BY <2>2, GeneratorAssumption DEF Token, MethodDecl
    <2>. QED
        BY <2>3
<1>3. takes \in Seq(Token) /\ returns \in Seq(Token)
    <2>1. m.params \in Seq(FieldDecl) /\ m.results \in Seq(FieldDecl)
        BY DEF MethodDecl
    <2>2. Group(m.params, m) \in Seq(Token) /\ Group(m.results, m) \in Seq(Token)
        BY <2>1, GroupType
    <2>3. <<"P">> \in Seq(Token) /\ <<"->">> \in Seq(Token) /\ <<>> \in Seq(Token)
        BY DEF Token
    <2>. QED
        BY <2>2, <2>3, TextAfter
<1>4. notes \in Seq(Token) /\ <<";">> \in Seq(Token)
    <2>1. /\ <<"$", "(", "x", ")">> \in Seq(Token) /\ <<>> \in Seq(Token)
          /\ <<";">> \in Seq(Token)
        BY DEF Token
    <2>. QED
        BY <2>1
<1>5. Written(m, k) = above \o called \o takes \o returns \o notes \o <<";">>
    BY DEF Written
<1>. HIDE DEF above, called, takes, returns, notes
<1>6. above \o called \o takes \in Seq(Token)
    BY <1>1, <1>2, <1>3, TextAfter
<1>7. above \o called \o takes \o returns \o notes \in Seq(Token)
    BY <1>3, <1>4, <1>6, TextAfter
<1>. QED
    BY <1>4, <1>5, <1>7, TextAfter

\* The declaration of an interface, at i of those of a schema.
InterfaceText(ins, i) ==
    <<"interface", ins[i].name>>
      \o (IF ins[i].extends = "" THEN <<>>
          ELSE <<"extends", "(", ins[i].extends, ")">>)
      \o <<"{", "nl">>
      \o FlattenSeq([k \in DOMAIN ins[i].methods |-> Written(ins[i].methods[k], k)])
      \o <<"}", "nl">>

\* It is a text, too.
LEMMA InterfaceTextType ==
    ASSUME NEW s \in Schemas, NEW i \in DOMAIN s.interfaces
    PROVE  InterfaceText(s.interfaces, i) \in Seq(Token)
<1>. DEFINE in == s.interfaces[i]
            ms == in.methods
            base == IF in.extends = "" THEN <<>>
                    ELSE <<"extends", "(", in.extends, ")">>
            body == FlattenSeq([k \in DOMAIN ms |-> Written(ms[k], k)])
            opening == <<"interface", in.name>>
<1>1. s.interfaces \in Seq(InterfaceDecl)
    BY GeneratorAssumption
<1>2. in \in InterfaceDecl
    BY <1>1
<1>3. in.name \in STRING /\ in.extends \in STRING \cup {""} /\ ms \in Seq(MethodDecl)
    BY <1>2, GeneratorAssumption DEF InterfaceDecl
<1>4. Len(ms) <= Len(Ordinals) /\ DOMAIN Ordinals = 1..Len(Ordinals)
    BY GeneratorAssumption
<1>. HIDE DEF ms
<1>5. body \in Seq(Token)
    <2>1. /\ Len(ms) \in Nat /\ DOMAIN ms = 1..Len(ms)
          /\ \A k \in DOMAIN ms : ms[k] \in MethodDecl
        <3>1. ms \in Seq(MethodDecl)
            BY <1>3
        <3>. QED
            BY <3>1
    <2>2. \A k \in 1..Len(ms) : Written(ms[k], k) \in Seq(Token)
        BY <1>4, <2>1, WrittenType
    <2>3. [k \in DOMAIN ms |-> Written(ms[k], k)] \in Seq(Seq(Token))
        BY <2>1, <2>2
    <2>. QED
        BY <2>3, FlattenType
<1>6. base \in Seq(Token)
    <2>1. in.extends # "" => in.extends \in Token
        BY <1>3 DEF Token
    <2>2. "extends" \in Token /\ "(" \in Token /\ ")" \in Token
        BY DEF Token
    <2>. HIDE DEF in
    <2>3. in.extends # "" => <<"extends", "(", in.extends, ")">> \in Seq(Token)
        BY <2>1, <2>2, ShortText
    <2>. QED
        BY <2>3, ShortText
<1>7. opening \in Seq(Token) /\ <<"{", "nl">> \in Seq(Token) /\ <<"}", "nl">> \in Seq(Token)
    <2>1. in.name \in Token
        BY <1>3 DEF Token
    <2>2. "interface" \in Token /\ "{" \in Token /\ "}" \in Token /\ "nl" \in Token
        BY DEF Token
    <2>. HIDE DEF in
    <2>. QED
        BY <2>1, <2>2, ShortText
<1>8. InterfaceText(s.interfaces, i)
        = opening \o base \o <<"{", "nl">> \o body \o <<"}", "nl">>
    BY DEF InterfaceText, ms
<1>. HIDE DEF opening, base, body
<1>9. opening \o base \o <<"{", "nl">> \in Seq(Token)
    BY <1>6, <1>7, TextAfter
<1>10. opening \o base \o <<"{", "nl">> \o body \in Seq(Token)
    BY <1>5, <1>9, TextAfter
<1>. QED
    BY <1>7, <1>8, <1>10, TextAfter

\* What Generate is given is a text.
LEMMA SourceType ==
    ASSUME NEW s \in Schemas
    PROVE  Source(s) \in Seq(Token)
<1>. DEFINE ins == s.interfaces
            head == IF s.package = "" THEN <<>>
                    ELSE <<"$Go.package", s.package, ";", "nl">>
<1>1. ins \in Seq(InterfaceDecl) /\ s.package \in STRING
    BY GeneratorAssumption
<1>2. head \in Seq(Token)
    <2>1. s.package \in Token
        BY <1>1 DEF Token
    <2>2. "$Go.package" \in Token /\ ";" \in Token /\ "nl" \in Token
        BY DEF Token
    <2>3. <<"$Go.package", s.package, ";", "nl">> \in Seq(Token)
        BY <2>1, <2>2, ShortText
    <2>. QED
        BY <2>3, ShortText
<1>3. Source(s) = head \o FlattenSeq([i \in DOMAIN ins |-> InterfaceText(ins, i)])
    BY DEF Source, InterfaceText
<1>4. \A i \in DOMAIN ins : InterfaceText(ins, i) \in Seq(Token)
    BY InterfaceTextType
<1>. HIDE DEF head, ins
<1>5. [i \in DOMAIN ins |-> InterfaceText(ins, i)] \in Seq(Seq(Token))
    <2>1. Len(ins) \in Nat /\ DOMAIN ins = 1..Len(ins)
        BY <1>1
    <2>. QED
        BY <2>1, <1>4
<1>6. FlattenSeq([i \in DOMAIN ins |-> InterfaceText(ins, i)]) \in Seq(Token)
    BY <1>5, FlattenType
<1>. QED
    BY <1>2, <1>3, <1>6, TextAfter

-----------------------------------------------------------------------------
(* Comments.                                                                 *)

\* What a scan for comments carries along, and what it begins with.
StripStates == [inside: BOOLEAN, left: Seq(Token)]
Unread == [inside |-> FALSE, left |-> <<>>]

\* c is the course of a scan: c[k] is what it carries after k words.
Strips(c, text) ==
    /\ c[0] = Unread
    /\ \A k \in 0..(Len(text) - 1) : c[k + 1] = Eat(c[k], text[k + 1])

\* A word taken keeps the scan's state one.
LEMMA EatType ==
    ASSUME NEW acc \in StripStates, NEW x \in Token
    PROVE  Eat(acc, x) \in StripStates
<1>1. \A b \in BOOLEAN : [acc EXCEPT !.inside = b] \in StripStates
    BY DEF StripStates
<1>2. [acc EXCEPT !.left = Append(@, x)] \in StripStates
    BY DEF StripStates
<1>3. Eat(acc, x) \in {[acc EXCEPT !.inside = FALSE], [acc EXCEPT !.inside = TRUE],
                       acc, [acc EXCEPT !.left = Append(@, x)]}
    BY DEF Eat
<1>. QED
    BY <1>1, <1>2, <1>3

\* The fold of stripComments is such a course, and returns its end.
LEMMA StripExists ==
    ASSUME NEW text \in Seq(Token)
    PROVE  \E c : Strips(c, text)
                    /\ stripComments(text) = c[Len(text)].left
<1>. DEFINE n == Len(text)
            F == [acc \in StripStates |-> [x \in Token |-> Eat(acc, x)]]
            Is(g) == g = [s \in SUBSET (DOMAIN text) |->
                            IF s = {} THEN Unread
                            ELSE Eat(g[s \ {Max(s)}], text[Max(s)])]
            f == CHOOSE g : Is(g)
<1>1. n \in Nat /\ DOMAIN text = 1..n /\ \A i \in 1..n : text[i] \in Token
    OBVIOUS
<1>2. Unread \in StripStates
    BY DEF Unread, StripStates
<1>3. F \in [StripStates -> [Token -> StripStates]]
    BY EatType
<1>4. PICK it \in [SUBSET (1..n) -> StripStates] : FoldsBy(F, Unread, text, n, it)
    BY <1>1, <1>2, <1>3, Foldable DEF HasFold
<1>5. stripComments(text) = f[DOMAIN text].left
    BY DEF stripComments, FoldLeft, MapThenFoldSet, Unread
<1>6. it = [s \in SUBSET (1..n) |->
             IF s = {} THEN Unread ELSE Eat(it[s \ {Max(s)}], text[Max(s)])]
    <2>1. ASSUME NEW s \in SUBSET (1..n), s # {}
          PROVE  F[it[s \ {Max(s)}]][text[Max(s)]]
                   = Eat(it[s \ {Max(s)}], text[Max(s)])
        <3>1. Max(s) \in 1..n
            BY <1>1, <2>1, MaxOfInterval
        <3>2. it[s \ {Max(s)}] \in StripStates /\ text[Max(s)] \in Token
            BY <1>1, <3>1
        <3>. QED
            BY <3>2
    <2>. HIDE DEF F
    <2>2. \A s \in SUBSET (1..n) :
             (IF s = {} THEN Unread ELSE F[it[s \ {Max(s)}]][text[Max(s)]])
               = IF s = {} THEN Unread
                 ELSE Eat(it[s \ {Max(s)}], text[Max(s)])
        BY <2>1
    <2>. QED
        BY <1>4, <2>2 DEF FoldsBy
<1>7. Is(f)
    <2>1. Is(it)
        BY <1>1, <1>6
    <2>. QED
        BY <2>1, Zenon
<1>. HIDE DEF f
<1>8. ASSUME NEW s \in SUBSET (1..n)
      PROVE  f[s] = IF s = {} THEN Unread
                    ELSE Eat(f[s \ {Max(s)}], text[Max(s)])
    BY <1>1, <1>7
<1>. DEFINE c == [k \in 0..n |-> f[1..k]]
<1>9. c[0] = Unread
    <2>1. 1..0 = {} /\ 0 \in 0..n
        BY <1>1
    <2>. QED
        BY <2>1, <1>8
<1>10. ASSUME NEW k \in 0..(n - 1)
       PROVE  c[k + 1] = Eat(c[k], text[k + 1])
    <2>1. /\ 1..(k + 1) \in SUBSET (1..n) /\ k + 1 \in 1..(k + 1)
          /\ (1..(k + 1)) \ {k + 1} = 1..k /\ k \in 0..n /\ k + 1 \in 0..n
        BY <1>1
    <2>2. Max(1..(k + 1)) = k + 1
        BY <2>1, IntervalGrows
    <2>3. f[1..(k + 1)] = Eat(f[1..k], text[k + 1])
        BY <1>8, <2>1, <2>2
    <2>. QED
        BY <2>1, <2>3
<1>11. f[DOMAIN text] = c[n]
    BY <1>1
<1>. HIDE DEF c
<1>. QED
    BY <1>5, <1>9, <1>10, <1>11 DEF Strips

\* Comments are cut out of a text, and a text is left.
LEMMA StripType ==
    ASSUME NEW text \in Seq(Token)
    PROVE  stripComments(text) \in Seq(Token)
<1>1. PICK c : /\ Strips(c, text)
               /\ stripComments(text) = c[Len(text)].left
    BY StripExists
<1>. DEFINE Typed == {k \in Nat : k <= Len(text) => c[k] \in StripStates}
<1>2. 0 \in Typed
    <2>1. Unread \in StripStates
        BY DEF Unread, StripStates
    <2>. QED
        BY <1>1, <2>1 DEF Strips
<1>3. ASSUME NEW k \in Nat, k \in Typed PROVE k + 1 \in Typed
    <2>1. SUFFICES ASSUME k + 1 <= Len(text) PROVE c[k + 1] \in StripStates
        OBVIOUS
    <2>2. k \in 0..(Len(text) - 1) /\ k <= Len(text) /\ text[k + 1] \in Token
        BY <2>1
    <2>3. c[k + 1] = Eat(c[k], text[k + 1])
        BY <1>1, <2>2 DEF Strips
    <2>. QED
        BY <1>3, <2>2, <2>3, EatType
<1>. HIDE DEF Typed
<1>4. Len(text) \in Typed
    BY <1>2, <1>3, SetInduction
<1>5. Len(text) <= Len(text)
    OBVIOUS
<1>. QED
    BY <1>1, <1>4, <1>5 DEF Typed, StripStates

-----------------------------------------------------------------------------
(* Cuts at separators.                                                       *)

\* What a cut carries along, and what it begins with.
CutStates == [depth: Int, parts: Seq(Seq(Token)), part: Seq(Token)]
Uncut == [depth |-> 0, parts |-> <<>>, part |-> <<>>]

\* c is the course of a cut at sep.
Cuts(c, text, sep) ==
    /\ c[0] = Uncut
    /\ \A k \in 0..(Len(text) - 1) :
          c[k + 1] = CutAtTopLevel(c[k], text[k + 1], sep)

\* A word taken keeps the cut's state one.
LEMMA CutType ==
    ASSUME NEW acc \in CutStates, NEW x \in Token, NEW sep
    PROVE  CutAtTopLevel(acc, x, sep) \in CutStates
<1>. DEFINE d == CASE x = "(" -> 1 [] x = ")" -> -1 [] OTHER -> 0
            ends == [acc EXCEPT !.parts = Append(@, acc.part), !.part = <<>>]
            goes == [acc EXCEPT !.part = Append(@, x), !.depth = @ + d]
<1>1. acc.depth \in Int /\ acc.parts \in Seq(Seq(Token)) /\ acc.part \in Seq(Token)
    BY DEF CutStates
<1>2. d \in Int
    OBVIOUS
<1>. HIDE DEF d
<1>3. /\ Append(acc.parts, acc.part) \in Seq(Seq(Token)) /\ <<>> \in Seq(Token)
      /\ Append(acc.part, x) \in Seq(Token)
    BY <1>1
<1>4. ends \in CutStates
    BY <1>3 DEF CutStates
<1>5. goes \in CutStates
    <2>1. ASSUME NEW e \in Seq(Token), NEW f \in Int
          PROVE  [acc EXCEPT !.part = e, !.depth = f] \in CutStates
        BY DEF CutStates
    <2>3. goes = [acc EXCEPT !.part = Append(acc.part, x), !.depth = acc.depth + d]
        OBVIOUS
    <2>2. acc.depth + d \in Int
        BY <1>1, <1>2
    <2>. QED
        BY <1>3, <2>1, <2>2, <2>3
<1>6. CutAtTopLevel(acc, x, sep) \in {ends, goes}
    BY DEF CutAtTopLevel, d
<1>. QED
    BY <1>4, <1>5, <1>6

\* The fold of splitTopLevel is such a course, and its parts are those at the
\* end and the last.
LEMMA CutExists ==
    ASSUME NEW text \in Seq(Token), NEW sep
    PROVE  \E c : Cuts(c, text, sep)
                    /\ splitTopLevel(text, sep) = Append(c[Len(text)].parts, c[Len(text)].part)
<1>. DEFINE n == Len(text)
            F == [acc \in CutStates |-> [x \in Token |-> CutAtTopLevel(acc, x, sep)]]
            Is(g) == g = [s \in SUBSET (DOMAIN text) |->
                            IF s = {} THEN Uncut
                            ELSE CutAtTopLevel(g[s \ {Max(s)}], text[Max(s)], sep)]
            f == CHOOSE g : Is(g)
<1>1. n \in Nat /\ DOMAIN text = 1..n /\ \A i \in 1..n : text[i] \in Token
    OBVIOUS
<1>2. Uncut \in CutStates
    BY DEF Uncut, CutStates
<1>3. F \in [CutStates -> [Token -> CutStates]]
    BY CutType
<1>4. PICK it \in [SUBSET (1..n) -> CutStates] : FoldsBy(F, Uncut, text, n, it)
    BY <1>1, <1>2, <1>3, Foldable DEF HasFold
<1>5. splitTopLevel(text, sep) = Append(f[DOMAIN text].parts, f[DOMAIN text].part)
    BY DEF splitTopLevel, FoldLeft, MapThenFoldSet, Uncut
<1>6. it = [s \in SUBSET (1..n) |->
             IF s = {} THEN Uncut ELSE CutAtTopLevel(it[s \ {Max(s)}], text[Max(s)], sep)]
    <2>1. ASSUME NEW s \in SUBSET (1..n), s # {}
          PROVE  F[it[s \ {Max(s)}]][text[Max(s)]]
                   = CutAtTopLevel(it[s \ {Max(s)}], text[Max(s)], sep)
        <3>1. Max(s) \in 1..n
            BY <1>1, <2>1, MaxOfInterval
        <3>2. it[s \ {Max(s)}] \in CutStates /\ text[Max(s)] \in Token
            BY <1>1, <3>1
        <3>. QED
            BY <3>2
    <2>. HIDE DEF F
    <2>2. \A s \in SUBSET (1..n) :
             (IF s = {} THEN Uncut ELSE F[it[s \ {Max(s)}]][text[Max(s)]])
               = IF s = {} THEN Uncut
                 ELSE CutAtTopLevel(it[s \ {Max(s)}], text[Max(s)], sep)
        BY <2>1
    <2>. QED
        BY <1>4, <2>2 DEF FoldsBy
<1>7. Is(f)
    <2>1. Is(it)
        BY <1>1, <1>6
    <2>. QED
        BY <2>1, Zenon
<1>. HIDE DEF f
<1>8. ASSUME NEW s \in SUBSET (1..n)
      PROVE  f[s] = IF s = {} THEN Uncut
                    ELSE CutAtTopLevel(f[s \ {Max(s)}], text[Max(s)], sep)
    BY <1>1, <1>7
<1>. DEFINE c == [k \in 0..n |-> f[1..k]]
<1>9. c[0] = Uncut
    <2>1. 1..0 = {} /\ 0 \in 0..n
        BY <1>1
    <2>. QED
        BY <2>1, <1>8
<1>10. ASSUME NEW k \in 0..(n - 1)
       PROVE  c[k + 1] = CutAtTopLevel(c[k], text[k + 1], sep)
    <2>1. /\ 1..(k + 1) \in SUBSET (1..n) /\ k + 1 \in 1..(k + 1)
          /\ (1..(k + 1)) \ {k + 1} = 1..k /\ k \in 0..n /\ k + 1 \in 0..n
        BY <1>1
    <2>2. Max(1..(k + 1)) = k + 1
        BY <2>1, IntervalGrows
    <2>3. f[1..(k + 1)] = CutAtTopLevel(f[1..k], text[k + 1], sep)
        BY <1>8, <2>1, <2>2
    <2>. QED
        BY <2>1, <2>3
<1>11. f[DOMAIN text] = c[n]
    BY <1>1
<1>. HIDE DEF c
<1>. QED
    BY <1>5, <1>9, <1>10, <1>11 DEF Cuts

\* A text is cut into texts.
LEMMA SplitType ==
    ASSUME NEW text \in Seq(Token), NEW sep
    PROVE  splitTopLevel(text, sep) \in Seq(Seq(Token))
<1>1. PICK c : /\ Cuts(c, text, sep)
               /\ splitTopLevel(text, sep) = Append(c[Len(text)].parts, c[Len(text)].part)
    BY CutExists
<1>. DEFINE Typed == {k \in Nat : k <= Len(text) => c[k] \in CutStates}
<1>2. 0 \in Typed
    <2>1. Uncut \in CutStates
        BY DEF Uncut, CutStates
    <2>. QED
        BY <1>1, <2>1 DEF Cuts
<1>3. ASSUME NEW k \in Nat, k \in Typed PROVE k + 1 \in Typed
    <2>1. SUFFICES ASSUME k + 1 <= Len(text) PROVE c[k + 1] \in CutStates
        OBVIOUS
    <2>2. k \in 0..(Len(text) - 1) /\ k <= Len(text) /\ text[k + 1] \in Token
        BY <2>1
    <2>3. c[k + 1] = CutAtTopLevel(c[k], text[k + 1], sep)
        BY <1>1, <2>2 DEF Cuts
    <2>. QED
        BY <1>3, <2>2, <2>3, CutType
<1>. HIDE DEF Typed
<1>4. Len(text) \in Typed
    BY <1>2, <1>3, SetInduction
<1>5. Len(text) <= Len(text)
    OBVIOUS
<1>. QED
    BY <1>1, <1>4, <1>5 DEF Typed, CutStates

-----------------------------------------------------------------------------
(* What parse reads.                                                         *)

\* The parenthesis or brace that closes a group lies behind the one that opens
\* it.
LEMMA ClosingFound ==
    ASSUME NEW s \in Seq(Token), NEW i \in Nat, NEW open, NEW close,
           Closings(s, i, open, close) # {}
    PROVE  Min(Closings(s, i, open, close)) \in i..Len(s)
<1>1. /\ Closings(s, i, open, close) \subseteq i..Len(s)
      /\ Closings(s, i, open, close) \subseteq Nat
    BY DEF Closings
<1>. QED
    BY <1>1, MinOfNats

\* A piece of a text, whose last index may lie before its first, is a text.
LEMMA PieceType ==
    ASSUME NEW S, NEW s \in Seq(S), NEW i \in Nat, NEW j \in Int,
           1 <= i, j <= Len(s)
    PROVE  SubSeq(s, i, j) \in Seq(S)
<1>1. \A k \in i..j : s[k] \in S
    OBVIOUS
<1>. QED
    BY <1>1, SubSeqProperties

\* The brace at i is closed.
HasBody(s, i) == Closings(s, i, "{", "}") # {}

\* The body of an interface is a text.
LEMMA BodyType ==
    ASSUME NEW s \in Seq(Token), NEW i \in Nat, HasBody(s, i)
    PROVE  balancedBody(s, i) \in Seq(Token)
<1>. DEFINE j == Min(Closings(s, i, "{", "}"))
            n == Len(s)
<1>1. j \in i..n
    BY ClosingFound DEF HasBody
<1>2. n \in Nat
    OBVIOUS
<1>. HIDE DEF j, n
<1>3. i + 1 \in Nat /\ 1 <= i + 1 /\ j - 1 \in Int /\ j - 1 <= n
    BY <1>1, <1>2
<1>. QED
    BY <1>3, PieceType DEF balancedBody, j, n

\* What a group holds, and what follows it, are texts.
LEMMA GroupParts ==
    ASSUME NEW s \in Seq(Token), IsGroup(s)
    PROVE  GroupInner(s) \in Seq(Token) /\ GroupRest(s) \in Seq(Token)
<1>. DEFINE j == Min(Closings(s, 1, "(", ")"))
<1>1. j \in 1..Len(s) /\ Len(s) \in Nat
    BY ClosingFound DEF IsGroup
<1>. HIDE DEF j
<1>2. /\ 2 \in Nat /\ 1 <= 2 /\ j - 1 \in Int /\ j - 1 <= Len(s)
      /\ j + 1 \in Nat /\ 1 <= j + 1 /\ Len(s) \in Int /\ Len(s) <= Len(s)
    BY <1>1
<1>. QED
    BY <1>2, PieceType DEF GroupInner, GroupRest, j

\* Where something stands first in a text.
LEMMA FirstAt ==
    ASSUME NEW s \in Seq(Token), NEW w
    PROVE  First(s, w) \in 0..Len(s)
<1>. DEFINE I == {i \in 1..Len(s) : s[i] = w}
<1>1. I \subseteq Nat /\ I \subseteq 1..Len(s) /\ Len(s) \in Nat
    OBVIOUS
<1>2. I # {} => Min(I) \in I
    BY <1>1, MinOfNats
<1>3. First(s, w) = IF I # {} THEN Min(I) ELSE 0
    BY DEF First, SelectInSeq
<1>. HIDE DEF I
<1>4. CASE I = {}
    BY <1>1, <1>3, <1>4
<1>5. CASE I # {}
    <2>1. First(s, w) \in 1..Len(s)
        BY <1>1, <1>2, <1>3, <1>5
    <2>. QED
        BY <1>1, <2>1
<1>. QED
    BY <1>4, <1>5

\* A text without its empty parts.
LEMMA NonEmptyType ==
    ASSUME NEW parts \in Seq(Seq(Token))
    PROVE  NonEmpty(parts) \in Seq(Seq(Token))
<1>1. NonEmpty(parts) = Picked(parts, {k \in DOMAIN parts : parts[k] # <<>>})
    BY DEF NonEmpty, SelectAt, Picked, Pieces
<1>. QED
    BY <1>1, PickedType

\* A field and a method as they are read.
ReadField == [name: Seq(Token), type: Seq(Token)]
ReadMethod == [name: Words, params: Seq(ReadField), results: Seq(ReadField),
               unsupported: BOOLEAN]

\* The fields of a group.
LEMMA FieldsType ==
    ASSUME NEW group \in Seq(Token)
    PROVE  parseFields(group) \in Seq(ReadField)
<1>. DEFINE parts == NonEmpty(splitTopLevel(group, ","))
            e(k) == [name |-> FieldName(parts[k]),
                     type |-> SubSeq(parts[k], Colon(parts[k]) + 1, Len(parts[k]))]
<1>1. parts \in Seq(Seq(Token))
    BY SplitType, NonEmptyType
<1>2. ASSUME NEW p \in Seq(Token)
      PROVE  /\ FieldName(p) \in Seq(Token)
             /\ SubSeq(p, Colon(p) + 1, Len(p)) \in Seq(Token)
    <2>1. Colon(p) \in 0..Len(p) /\ Len(p) \in Nat
        BY FirstAt DEF Colon
    <2>2. /\ 1 \in Nat /\ 1 <= 1 /\ Colon(p) - 1 \in Int /\ Colon(p) - 1 <= Len(p)
          /\ Colon(p) + 1 \in Nat /\ 1 <= Colon(p) + 1
          /\ Len(p) \in Int /\ Len(p) <= Len(p)
        BY <2>1
    <2>. QED
        BY <2>2, PieceType DEF FieldName
<1>3. parseFields(group) = [k \in DOMAIN parts |-> e(k)]
    BY DEF parseFields
<1>. HIDE DEF parts
<1>4. ASSUME NEW k \in 1..Len(parts) PROVE e(k) \in ReadField
    <2>1. parts[k] \in Seq(Token)
        BY <1>1
    <2>. QED
        BY <1>2, <2>1 DEF ReadField
<1>5. Len(parts) \in Nat /\ DOMAIN parts = 1..Len(parts)
    BY <1>1
<1>. HIDE DEF e
<1>. QED
    BY <1>3, <1>4, <1>5

\* A statement that is a method is read as one.
LEMMA MethodType ==
    ASSUME NEW stmt \in Seq(Token), IsMethod(stmt)
    PROVE  /\ AsMethod(stmt) \in ReadMethod
           /\ AsMethod(stmt).unsupported
                = unsupportedReason(AsMethod(stmt).params, AsMethod(stmt).results)
<1>. DEFINE at == First(stmt, "(")
<1>1. at \in 0..Len(stmt) /\ Len(stmt) \in Nat
    BY FirstAt
<1>2. Header(stmt) = SubSeq(stmt, 1, at - 1)
    BY DEF Header
<1>. HIDE DEF at
<1>3. Len(Header(stmt)) = 2 /\ Header(stmt)[1] = stmt[1] /\ 2 <= Len(stmt)
    <2>1. Len(Header(stmt)) = 2
        BY DEF IsMethod
    <2>2. Len(SubSeq(stmt, 1, at - 1)) = IF 1 <= at - 1 THEN at - 1 ELSE 0
        BY <1>1, SubSeqProperties
    <2>3. at - 1 = 2
        BY <1>1, <1>2, <2>1, <2>2
    <2>. QED
        BY <1>1, <1>2, <2>1, <2>3, SubSeqProperties
<1>4. stmt[1] \in Words
    BY <1>3 DEF IsMethod
<1>5. Params(stmt) \in Seq(Token)
    <2>1. Params(stmt) = SubSeq(stmt, 3, Len(stmt))
        BY <1>3 DEF Params
    <2>2. 3 \in Nat /\ 1 <= 3 /\ Len(stmt) \in Int /\ Len(stmt) <= Len(stmt)
        BY <1>1
    <2>. QED
        BY <2>1, <2>2, PieceType
<1>6. GroupInner(Params(stmt)) \in Seq(Token) /\ GroupRest(Params(stmt)) \in Seq(Token)
    BY <1>5, GroupParts DEF IsMethod
<1>7. Results(stmt) \in Seq(Token)
    <2>. DEFINE rest == GroupRest(Params(stmt))
                arrow == First(rest, "->")
    <2>1. Results(stmt) = SubSeq(rest, arrow + 1, Len(rest))
        BY DEF Results
    <2>2. rest \in Seq(Token)
        BY <1>6
    <2>. HIDE DEF rest
    <2>3. arrow \in 0..Len(rest) /\ Len(rest) \in Nat
        BY <2>2, FirstAt
    <2>. HIDE DEF arrow
    <2>4. /\ arrow + 1 \in Nat /\ 1 <= arrow + 1
          /\ Len(rest) \in Int /\ Len(rest) <= Len(rest)
        BY <2>3
    <2>. QED
        BY <2>1, <2>2, <2>4, PieceType
<1>8. GroupInner(Results(stmt)) \in Seq(Token)
    BY <1>7, GroupParts DEF IsMethod
<1>9. /\ parseFields(GroupInner(Params(stmt))) \in Seq(ReadField)
      /\ parseFields(GroupInner(Results(stmt))) \in Seq(ReadField)
    BY <1>6, <1>8, FieldsType
<1>. QED
    BY <1>4, <1>9 DEF AsMethod, ReadMethod, unsupportedReason

-----------------------------------------------------------------------------
(* The invariant of Generate's loops.                                        *)

ReadInterface == [name: Words, methods: Seq(ReadMethod)]
ModelInterface == [name: Words, all: Seq(ReadMethod), methods: Seq(ReadMethod)]

\* What has been read is typed, and a method is unsupported for its types.
ReadOK ==
    /\ ifaces \in Seq(ReadInterface)
    /\ \A i \in DOMAIN ifaces : \A k \in DOMAIN ifaces[i].methods :
          LET m == ifaces[i].methods[k]
          IN  m.unsupported = unsupportedReason(m.params, m.results)

\* The methods of the interface at i that are supported, by their indices.
Kept(i) == {k \in DOMAIN ifaces[i].methods : ~ifaces[i].methods[k].unsupported}

\* Of the interface at i, the adapter has the methods handled so far, and the
\* client those of them that are supported.
DividedAt(i) ==
    LET handled == SubSeq(ifaces[i].methods, 1, Len(model[i].all))
    IN  /\ model[i].name = ifaces[i].name
        /\ Len(model[i].all) <= Len(ifaces[i].methods)
        /\ model[i].all = handled
        /\ model[i].methods = Picked(handled, Kept(i))

\* The others of them are the skipped methods.
SkippedAt(i) ==
    \A name \in Words :
        <<i, name>> \in Range(skipped)
          <=> \E k \in 1..Len(model[i].all) :
                 ifaces[i].methods[k].unsupported /\ ifaces[i].methods[k].name = name

\* All methods of the interface at i have been handled.
WholeAt(i) == Len(model[i].all) = Len(ifaces[i].methods)

ModelOK ==
    /\ model \in Seq(ModelInterface) /\ Len(model) <= Len(ifaces)
    /\ skipped \in Seq(Nat \X Words)
    /\ \A k \in DOMAIN skipped : skipped[k][1] \in DOMAIN model

\* The generator's invariant: the loops go through the interfaces and their
\* methods in order, and what Handled counts is how far they are.
DivideInv ==
    /\ schema \in Schemas
    /\ pc \in {"parse", "build", "done", "error"}
    /\ ReadOK /\ ModelOK
    /\ \A i \in DOMAIN model : DividedAt(i) /\ SkippedAt(i)
                                 /\ (i < Len(model) => WholeAt(i))
    /\ Current > 0 => Handled = Len(model[Current].all)
    /\ pc = "parse" => ifaces = <<>> /\ model = <<>> /\ skipped = <<>>
    /\ pc = "done" => Current = Len(ifaces) /\ \A i \in DOMAIN model : WholeAt(i)

\* It holds at first.
LEMMA InitDivide == Init => DivideInv
<1>. SUFFICES ASSUME Init PROVE DivideInv
    OBVIOUS
<1>1. ifaces = <<>> /\ model = <<>> /\ skipped = <<>> /\ pc = "parse" /\ schema \in Schemas
    BY DEF Init
<1>2. ReadOK /\ ModelOK
    BY <1>1 DEF ReadOK, ModelOK
<1>3. Current = 0 /\ DOMAIN model = {}
    BY <1>1 DEF Current
<1>. QED
    BY <1>1, <1>2, <1>3 DEF DivideInv

\* The keyword of an interface, at i.
Heads(src, i) ==
    /\ i + 2 <= Len(src)
    /\ src[i] = "interface" /\ src[i + 1] \in Words /\ src[i + 2] = "{"

\* Interfaces are found where their keywords are.
LEMMA HeadsType ==
    ASSUME NEW src \in Seq(Token)
    PROVE  InterfacesOf(src) \in Seq({i \in DOMAIN src : Heads(src, i)})
<1>. DEFINE ids == [i \in DOMAIN src |-> i]
            I == {i \in DOMAIN ids : Heads(src, i)}
<1>1. InterfacesOf(src) = Picked(ids, I)
    BY DEF InterfacesOf, SelectAt, Picked, Pieces, Heads
<1>2. ids \in Seq(Nat) /\ DOMAIN ids = DOMAIN src /\ \A i \in DOMAIN ids : ids[i] = i
    <2>1. Len(src) \in Nat /\ DOMAIN src = 1..Len(src)
        OBVIOUS
    <2>. QED
        BY <2>1
<1>. HIDE DEF ids
<1>3. \A i \in DOMAIN ids : i \in I => ids[i] \in {k \in DOMAIN src : Heads(src, k)}
    BY <1>2
<1>. QED
    BY <1>1, <1>2, <1>3, PickedWithin

\* An interface whose statements are all methods is read as one.
LEMMA InterfaceRead ==
    ASSUME NEW src \in Seq(Token), NEW i \in DOMAIN src, Heads(src, i),
           HasBody(src, i + 2),
           \A stmt \in Range(Statements(src, i)) : IsMethod(stmt)
    PROVE  LET stmts == Statements(src, i)
               ms == [k \in DOMAIN stmts |-> AsMethod(stmts[k])]
           IN  /\ src[i + 1] \in Words /\ ms \in Seq(ReadMethod)
               /\ \A k \in DOMAIN ms : ms[k].unsupported
                    = unsupportedReason(ms[k].params, ms[k].results)
<1>. DEFINE stmts == Statements(src, i)
            ms == [k \in DOMAIN stmts |-> AsMethod(stmts[k])]
<1>1. balancedBody(src, i + 2) \in Seq(Token)
    <2>1. i + 2 \in Nat
        OBVIOUS
    <2>. QED
        BY <2>1, BodyType
<1>2. stmts \in Seq(Seq(Token))
    BY <1>1, SplitType, NonEmptyType DEF Statements
<1>3. \A k \in DOMAIN stmts : IsMethod(stmts[k])
    BY DEF Range
<1>. HIDE DEF stmts
<1>4. ASSUME NEW k \in DOMAIN stmts
      PROVE  /\ AsMethod(stmts[k]) \in ReadMethod
             /\ AsMethod(stmts[k]).unsupported
                  = unsupportedReason(AsMethod(stmts[k]).params,
                                      AsMethod(stmts[k]).results)
    <2>1. stmts[k] \in Seq(Token)
        BY <1>2
    <2>. QED
        BY <1>3, <2>1, MethodType
<1>5. ms \in Seq(ReadMethod)
    <2>1. Len(stmts) \in Nat /\ DOMAIN stmts = 1..Len(stmts)
        BY <1>2
    <2>. QED
        BY <1>4, <2>1
<1>6. src[i + 1] \in Words
    BY DEF Heads
<1>. QED
    BY <1>4, <1>5, <1>6 DEF stmts

\* Parse leaves a typed list of interfaces, or none.
LEMMA ParseDivide == DivideInv /\ Parse => DivideInv'
<1>. SUFFICES ASSUME DivideInv, Parse PROVE DivideInv'
    OBVIOUS
<1>. DEFINE src == stripComments(Source(schema))
            at == InterfacesOf(src)
            Known(i) == /\ Closings(src, i + 2, "{", "}") # {}
                        /\ \A stmt \in Range(Statements(src, i)) : IsMethod(stmt)
            Methods(i) == LET stmts == Statements(src, i)
                          IN  [k \in DOMAIN stmts |-> AsMethod(stmts[k])]
            Read(i) == [name |-> src[i + 1], methods |-> Methods(i)]
<1>1. /\ pc = "parse" /\ schema' = schema /\ model' = model /\ skipped' = skipped
      /\ schema \in Schemas /\ ifaces = <<>> /\ model = <<>> /\ skipped = <<>>
    BY DEF Parse, DivideInv
<1>2. src \in Seq(Token)
    BY <1>1, SourceType, StripType
<1>3. \/ /\ \A i \in Range(at) : Known(i)
         /\ ifaces' = [k \in DOMAIN at |-> Read(at[k])]
         /\ pc' = "build"
      \/ pc' = "error" /\ ifaces' = ifaces
    BY DEF Parse
<1>. HIDE DEF src
<1>4. at \in Seq({i \in DOMAIN src : Heads(src, i)})
    BY <1>2, HeadsType
<1>. HIDE DEF at
<1>5. ReadOK'
    <2>1. CASE ifaces' = ifaces
        BY <2>1, <1>1 DEF ReadOK
    <2>2. CASE /\ \A i \in Range(at) : Known(i)
               /\ ifaces' = [k \in DOMAIN at |-> Read(at[k])]
        <3>1. Len(at) \in Nat /\ DOMAIN at = 1..Len(at)
            BY <1>4
        <3>2. ASSUME NEW k \in DOMAIN at
              PROVE  /\ Read(at[k]) \in ReadInterface
                     /\ \A n \in DOMAIN Methods(at[k]) : Methods(at[k])[n].unsupported
                          = unsupportedReason(Methods(at[k])[n].params,
                                              Methods(at[k])[n].results)
            <4>1. at[k] \in DOMAIN src /\ Heads(src, at[k])
                BY <1>4
            <4>2. Known(at[k])
                BY <2>2 DEF Range
            <4>. DEFINE i == at[k]
            <4>. HIDE DEF i
            <4>3. i \in DOMAIN src /\ Heads(src, i) /\ HasBody(src, i + 2)
                  /\ \A stmt \in Range(Statements(src, i)) : IsMethod(stmt)
                BY <4>1, <4>2 DEF i, HasBody
            <4>4. /\ src[i + 1] \in Words /\ Methods(i) \in Seq(ReadMethod)
                  /\ \A n \in DOMAIN Methods(i) : Methods(i)[n].unsupported
                       = unsupportedReason(Methods(i)[n].params, Methods(i)[n].results)
                BY <1>2, <4>3, InterfaceRead
            <4>. HIDE DEF Methods
            <4>5. Read(i) \in ReadInterface
                BY <4>4 DEF ReadInterface
            <4>. QED
                BY <4>4, <4>5 DEF i
        <3>3. \A k \in DOMAIN at : Read(at[k]).methods = Methods(at[k])
            OBVIOUS
        <3>. HIDE DEF Read, Methods, Known
        <3>4. ifaces' \in Seq(ReadInterface) /\ DOMAIN ifaces' = DOMAIN at
            BY <2>2, <3>1, <3>2
        <3>5. \A k \in DOMAIN at : ifaces'[k].methods = Methods(at[k])
            BY <2>2, <3>3
        <3>. QED
            BY <3>2, <3>4, <3>5 DEF ReadOK
    <2>. QED
        BY <1>3, <2>1, <2>2
<1>6. Current' = 0 /\ DOMAIN model' = {} /\ ModelOK' /\ pc' \in {"build", "error"}
    <2>1. model' = <<>> /\ skipped' = <<>> /\ Current' = 0 /\ DOMAIN model' = {}
        BY <1>1 DEF Current
    <2>2. Len(ifaces') \in Nat /\ Len(model') = 0
        BY <1>5, <2>1 DEF ReadOK
    <2>3. ModelOK'
        BY <2>1, <2>2 DEF ModelOK
    <2>. QED
        BY <1>3, <2>1, <2>3
<1>. QED
    BY <1>1, <1>5, <1>6 DEF DivideInv

\* In a longer model, what was divided is divided.
LEMMA DivideKept ==
    ASSUME NEW i \in DOMAIN model, ifaces' = ifaces, i \in DOMAIN model',
           model'[i] = model[i], DividedAt(i), SkippedAt(i),
           \A name \in Words : <<i, name>> \in Range(skipped')
                                 <=> <<i, name>> \in Range(skipped)
    PROVE  DividedAt(i)' /\ SkippedAt(i)'
BY DEF DividedAt, SkippedAt, Kept

\* The next interface is begun when the last is whole.
LEMMA InterfaceDivide == DivideInv /\ BuildInterface => DivideInv'
<1>. SUFFICES ASSUME DivideInv, BuildInterface PROVE DivideInv'
    OBVIOUS
<1>. DEFINE new == [name |-> ifaces[Current + 1].name, all |-> <<>>, methods |-> <<>>]
<1>1. /\ pc = "build" /\ Finished /\ Current < Len(ifaces)
      /\ model' = Append(model, new)
      /\ schema' = schema /\ pc' = pc /\ ifaces' = ifaces /\ skipped' = skipped
    BY DEF BuildInterface
<1>2. /\ ifaces \in Seq(ReadInterface) /\ model \in Seq(ModelInterface)
      /\ skipped \in Seq(Nat \X Words)
      /\ \A k \in DOMAIN skipped : skipped[k][1] \in DOMAIN model
    BY DEF DivideInv, ReadOK, ModelOK
<1>3. /\ Current = Len(model) /\ Current \in Nat /\ Len(ifaces) \in Nat
      /\ DOMAIN model = 1..Current /\ DOMAIN ifaces = 1..Len(ifaces)
    BY <1>2 DEF Current
<1>4. PICK c \in Nat : c = Current + 1
    BY <1>3
<1>5. c \in DOMAIN ifaces /\ ifaces[c] \in ReadInterface
    BY <1>1, <1>2, <1>3, <1>4
<1>6. new \in ModelInterface
    BY <1>5, <1>4 DEF ReadInterface, ModelInterface
<1>. HIDE DEF new
<1>7. /\ model' \in Seq(ModelInterface) /\ Len(model') = c
      /\ DOMAIN model' = 1..c /\ model'[c] = new
      /\ \A i \in 1..Current : model'[i] = model[i]
    BY <1>1, <1>2, <1>3, <1>6, <1>4
<1>8. ModelOK' /\ ReadOK' /\ Current' = c
    <2>1. c <= Len(ifaces) /\ \A i \in 1..Current : i \in 1..c
        BY <1>1, <1>3, <1>4
    <2>2. ModelOK' /\ Current' = c
        BY <1>1, <1>2, <1>3, <1>7, <2>1 DEF ModelOK, Current
    <2>. QED
        BY <1>1, <2>2 DEF ReadOK, DivideInv
<1>9. \A i \in DOMAIN model : WholeAt(i)
    <2>1. Current > 0 => WholeAt(Current)
        BY <1>1 DEF DivideInv, Finished, WholeAt
    <2>2. \A i \in DOMAIN model : i < Len(model) => WholeAt(i)
        BY DEF DivideInv
    <2>3. \A i \in DOMAIN model : i < Current \/ (i = Current /\ Current > 0)
        BY <1>3
    <2>. QED
        BY <1>3, <2>1, <2>2, <2>3
<1>10. \A i \in 1..Current : DividedAt(i)' /\ SkippedAt(i)' /\ WholeAt(i)'
    <2>1. ASSUME NEW i \in 1..Current PROVE DividedAt(i)' /\ SkippedAt(i)'
        <3>1. i \in DOMAIN model /\ i \in DOMAIN model'
            BY <1>3, <1>7, <1>4
        <3>2. DividedAt(i) /\ SkippedAt(i)
            BY <3>1 DEF DivideInv
        <3>. QED
            BY <1>1, <1>7, <3>1, <3>2, DivideKept
    <2>. QED
        BY <2>1, <1>1, <1>3, <1>7, <1>9 DEF WholeAt
<1>11. new.all = <<>> /\ new.methods = <<>> /\ new.name = ifaces[c].name
    BY <1>4 DEF new
<1>12. DividedAt(c)' /\ SkippedAt(c)'
    <2>1. Len(new.all) = 0 /\ SubSeq(ifaces[c].methods, 1, 0) = <<>>
        BY <1>11, <1>5 DEF ReadInterface
    <2>2. Picked(<<>>, Kept(c)') = <<>>
        BY PickedEmpty
    <2>3. Len(ifaces[c].methods) \in Nat
        BY <1>5 DEF ReadInterface
    <2>4. DividedAt(c)'
        <3>1. model'[c] = new /\ ifaces'[c] = ifaces[c] /\ Len(model'[c].all) = 0
            BY <1>1, <1>7, <1>11, <2>1
        <3>2. SubSeq(ifaces'[c].methods, 1, Len(model'[c].all)) = <<>>
            BY <2>1, <3>1
        <3>3. Len(model'[c].all) <= Len(ifaces'[c].methods)
            BY <2>3, <3>1
        <3>. QED
            BY <1>11, <2>2, <3>1, <3>2, <3>3 DEF DividedAt
    <2>5. \A name \in Words : <<c, name>> \notin Range(skipped)
        <3>1. c \notin DOMAIN model
            BY <1>3, <1>4
        <3>. QED
            BY <1>2, <3>1 DEF Range
    <2>6. SkippedAt(c)'
        <3>1. 1..Len(model'[c].all) = {} /\ skipped' = skipped
            BY <1>1, <1>7, <1>11, <2>1
        <3>. QED
            BY <2>5, <3>1 DEF SkippedAt
    <2>. QED
        BY <2>4, <2>6
<1>13. (Current > 0 => Handled = Len(model[Current].all))'
    <2>1. {k \in DOMAIN skipped : skipped[k][1] = c} = {}
        BY <1>2, <1>3, <1>4
    <2>2. Cardinality({k \in DOMAIN skipped : skipped[k][1] = c}) = 0
        BY <2>1, FS_EmptySet
    <2>3. Handled' = Len(new.methods) + Cardinality({k \in DOMAIN skipped : skipped[k][1] = c})
        BY <1>1, <1>7, <1>8 DEF Handled
    <2>. QED
        BY <1>7, <1>8, <1>11, <2>2, <2>3
<1>14. \A i \in DOMAIN model' : DividedAt(i)' /\ SkippedAt(i)'
                                  /\ (i < Len(model') => WholeAt(i)')
    <2>1. ASSUME NEW i \in DOMAIN model'
          PROVE  DividedAt(i)' /\ SkippedAt(i)' /\ (i < Len(model') => WholeAt(i)')
        <3>1. i \in 1..Current \/ i = c
            BY <1>3, <1>7, <1>4
        <3>2. ~(c < Len(model'))
            BY <1>7
        <3>. QED
            BY <1>10, <1>12, <3>1, <3>2
    <2>. QED
        BY <2>1
<1>15. pc' = "build" /\ schema' \in Schemas
    BY <1>1 DEF DivideInv
<1>. QED
    BY <1>8, <1>13, <1>14, <1>15 DEF DivideInv

\* The list of skipped methods grows at its end.
LEMMA SkippedGrows ==
    ASSUME NEW S, NEW s \in Seq(S), NEW e \in S
    PROVE  \A x : x \in Range(Append(s, e)) <=> x \in Range(s) \/ x = e
<1>1. /\ DOMAIN Append(s, e) = 1..(Len(s) + 1) /\ DOMAIN s = 1..Len(s) /\ Len(s) \in Nat
      /\ Append(s, e)[Len(s) + 1] = e
      /\ \A i \in 1..Len(s) : Append(s, e)[i] = s[i]
    OBVIOUS
<1>2. \A i \in 1..(Len(s) + 1) : i \in 1..Len(s) \/ i = Len(s) + 1
    BY <1>1
<1>3. /\ \A i \in 1..Len(s) : i \in 1..(Len(s) + 1)
      /\ Len(s) + 1 \in 1..(Len(s) + 1)
    BY <1>1
<1>. DEFINE t == Append(s, e)
<1>. HIDE DEF t
<1>. QED
    BY <1>1, <1>2, <1>3 DEF Range, t

\* Where a list has what begins with c.
Beginning(t, c) == {k \in DOMAIN t : t[k][1] = c}

\* They are one more if one is appended.
LEMMA CountGrows ==
    ASSUME NEW S, NEW s \in Seq(S), NEW e \in S, NEW c, e[1] = c
    PROVE  /\ Cardinality(Beginning(s, c)) \in Nat
           /\ Cardinality(Beginning(Append(s, e), c))
                = Cardinality(Beginning(s, c)) + 1
<1>. DEFINE In(r) == Beginning(r, c)
            t == Append(s, e)
            n == Len(s)
<1>1. /\ n \in Nat /\ DOMAIN t = 1..(n + 1) /\ DOMAIN s = 1..n
      /\ t[n + 1] = e /\ \A i \in 1..n : t[i] = s[i]
    OBVIOUS
<1>. HIDE DEF t, n
<1>2. IsFiniteSet(In(s))
    <2>1. IsFiniteSet(1..n) /\ In(s) \subseteq 1..n
        BY <1>1, FS_Interval DEF Beginning
    <2>. QED
        BY <2>1, FS_Subset
<1>3. \A i \in 1..(n + 1) : i \in 1..n \/ i = n + 1
    BY <1>1
<1>4. n + 1 \notin 1..n /\ n + 1 \in 1..(n + 1) /\ \A i \in 1..n : i \in 1..(n + 1)
    BY <1>1
<1>5. In(t) = In(s) \cup {n + 1}
    BY <1>1, <1>3, <1>4 DEF Beginning
<1>6. n + 1 \notin In(s)
    BY <1>1, <1>4 DEF Beginning
<1>. HIDE DEF In
<1>7. Cardinality(In(s)) \in Nat
    BY <1>2, FS_CardinalityType
<1>8. Cardinality(In(s) \cup {n + 1}) = Cardinality(In(s)) + 1
    BY <1>2, <1>6, FS_AddElement
<1>. QED
    BY <1>5, <1>7, <1>8 DEF In, t

\* The next method is added to the adapter, and to the client or to the skipped.
LEMMA MethodDivide == DivideInv /\ BuildMethod => DivideInv'
<1>. SUFFICES ASSUME DivideInv, BuildMethod PROVE DivideInv'
    OBVIOUS
<1>. DEFINE hm == ifaces[Current].methods[Handled + 1]
<1>1. /\ pc = "build" /\ ~Finished
      /\ model' = [model EXCEPT
            ![Current].all = Append(@, hm),
            ![Current].methods = IF hm.unsupported THEN @ ELSE Append(@, hm)]
      /\ skipped' = IF hm.unsupported THEN Append(skipped, <<Current, hm.name>>)
                    ELSE skipped
      /\ schema' = schema /\ pc' = pc /\ ifaces' = ifaces
    BY DEF BuildMethod, AppendToAll
<1>. HIDE DEF hm
<1>2. /\ ifaces \in Seq(ReadInterface) /\ model \in Seq(ModelInterface)
      /\ skipped \in Seq(Nat \X Words) /\ Len(model) <= Len(ifaces)
      /\ \A k \in DOMAIN skipped : skipped[k][1] \in DOMAIN model
    BY DEF DivideInv, ReadOK, ModelOK
<1>3. PICK c \in Nat : c = Current
    BY <1>2 DEF Current
<1>4. /\ c > 0 /\ c = Len(model) /\ Len(ifaces) \in Nat
      /\ DOMAIN model = 1..c /\ DOMAIN ifaces = 1..Len(ifaces)
    BY <1>1, <1>2, <1>3 DEF Current, Finished
<1>5. c \in DOMAIN model /\ c \in DOMAIN ifaces
    BY <1>2, <1>4
<1>. DEFINE ms == ifaces[c].methods
            h == Len(model[c].all)
            kept == model[c].methods
            adds == Append(model[c].all, hm)
            keeps == IF hm.unsupported THEN kept ELSE Append(kept, hm)
            new == [model[c] EXCEPT !.all = adds, !.methods = keeps]
<1>6. /\ ms \in Seq(ReadMethod) /\ kept \in Seq(ReadMethod)
      /\ model[c].all \in Seq(ReadMethod) /\ model[c].name \in Words
      /\ model[c] \in ModelInterface
    <2>1. ifaces[c] \in ReadInterface /\ model[c] \in ModelInterface
        BY <1>2, <1>5
    <2>. QED
        BY <2>1 DEF ReadInterface, ModelInterface
<1>7. h \in Nat /\ Len(ms) \in Nat
    BY <1>6
<1>8. DividedAt(c) /\ SkippedAt(c) /\ Handled = h
    BY <1>3, <1>4, <1>5 DEF DivideInv
<1>9. h < Len(ms)
    <2>1. h <= Len(ms)
        BY <1>8 DEF DividedAt
    <2>2. h # Len(ms)
        BY <1>1, <1>3, <1>4, <1>8 DEF Finished
    <2>. QED
        BY <1>7, <2>1, <2>2
<1>10. hm = ms[h + 1] /\ hm \in ReadMethod
    <2>1. hm = ms[h + 1]
        BY <1>3, <1>8 DEF hm
    <2>2. h + 1 \in 1..Len(ms)
        BY <1>7, <1>9
    <2>. QED
        BY <1>6, <2>1, <2>2
<1>11. /\ model'[c] = new /\ DOMAIN model' = DOMAIN model
       /\ \A i \in DOMAIN model : i # c => model'[i] = model[i]
    <2>1. model' = [model EXCEPT ![c].all = Append(@, hm),
                      ![c].methods = IF hm.unsupported THEN @ ELSE Append(@, hm)]
        BY <1>1, <1>3
    <2>2. model'[c] = new
        BY <2>1, <1>5
    <2>. HIDE DEF new
    <2>. QED
        BY <1>5, <2>1, <2>2
<1>12. /\ new \in ModelInterface /\ new.name = model[c].name
       /\ new.all = adds /\ new.methods = keeps
    <2>1. adds \in Seq(ReadMethod) /\ keeps \in Seq(ReadMethod)
        BY <1>6, <1>10
    <2>. HIDE DEF adds, keeps
    <2>. QED
        BY <1>6, <2>1 DEF ModelInterface
<1>. HIDE DEF new
<1>13. model' \in Seq(ModelInterface) /\ Len(model') = c /\ Current' = c
    <2>1. ASSUME NEW i \in 1..c PROVE model'[i] \in ModelInterface
        <3>1. CASE i = c
            BY <1>11, <1>12, <3>1
        <3>2. CASE i # c
            <4>1. i \in DOMAIN model /\ model[i] \in ModelInterface
                BY <1>2, <1>4
            <4>. QED
                BY <1>11, <3>2, <4>1
        <3>. QED
            BY <3>1, <3>2
    <2>2. model' = [i \in 1..c |-> model'[i]]
        BY <1>1, <1>4
    <2>3. model' \in Seq(ModelInterface)
        BY <2>1, <2>2
    <2>4. Len(model') = c
        BY <1>4, <1>11, <2>3
    <2>. QED
        BY <2>3, <2>4 DEF Current
<1>14. PICK e \in Nat \X Words : e = <<c, hm.name>>
    BY <1>10 DEF ReadMethod
<1>. DEFINE added == IF hm.unsupported THEN {e} ELSE {}
<1>15. /\ skipped' \in Seq(Nat \X Words) /\ added \subseteq {e}
       /\ \A x : x \in Range(skipped') <=> x \in Range(skipped) \/ x \in added
    <2>1. CASE hm.unsupported
        <3>1. skipped' = Append(skipped, e) /\ added = {e}
            BY <1>1, <1>3, <1>14, <2>1
        <3>2. \A x : x \in Range(Append(skipped, e)) <=> x \in Range(skipped) \/ x = e
            BY <1>2, SkippedGrows
        <3>3. Append(skipped, e) \in Seq(Nat \X Words)
            BY <1>2
        <3>. HIDE DEF added
        <3>. QED
            BY <3>1, <3>2, <3>3
    <2>2. CASE ~hm.unsupported
        <3>1. skipped' = skipped /\ added = {}
            BY <1>1, <2>2
        <3>. HIDE DEF added
        <3>. QED
            BY <1>2, <3>1
    <2>. QED
        BY <2>1, <2>2
<1>. HIDE DEF added
<1>16. ModelOK'
    <2>1. \A k \in DOMAIN skipped' : skipped'[k][1] \in DOMAIN model
        <3>1. \A k \in DOMAIN skipped' : skipped'[k] \in Range(skipped)
                                           \/ skipped'[k] = e
            BY <1>15 DEF Range
        <3>2. \A x \in Range(skipped) : x[1] \in DOMAIN model
            BY <1>2 DEF Range
        <3>3. e[1] = c
            BY <1>14
        <3>. QED
            BY <3>1, <3>2, <3>3, <1>5
    <2>2. Len(model') <= Len(ifaces')
        BY <1>1, <1>2, <1>4, <1>13
    <2>. QED
        BY <1>11, <1>13, <1>15, <2>1, <2>2 DEF ModelOK
<1>. DEFINE h1 == Len(new.all)
<1>17. h1 = h + 1 /\ new.all = SubSeq(ms, 1, h + 1)
    <2>1. model[c].all = SubSeq(ms, 1, h)
        BY <1>8 DEF DividedAt
    <2>2. SubSeq(ms, 1, h + 1) = Append(SubSeq(ms, 1, h), ms[h + 1])
        BY <1>6, <1>7, <1>9
    <2>3. new.all = Append(model[c].all, hm)
        BY <1>12
    <2>4. Len(new.all) = h + 1
        BY <1>6, <1>10, <2>3
    <2>. QED
        BY <1>10, <2>1, <2>2, <2>3, <2>4
<1>18. new.methods = Picked(SubSeq(ms, 1, h + 1), Kept(c)) /\ new.name = ifaces[c].name
    <2>1. kept = Picked(SubSeq(ms, 1, h), Kept(c)) /\ model[c].name = ifaces[c].name
        BY <1>8 DEF DividedAt
    <2>2. h \in 0..(Len(ms) - 1)
        BY <1>7, <1>9
    <2>3. h + 1 \in Kept(c) <=> ~hm.unsupported
        <3>1. h + 1 \in DOMAIN ms
            BY <1>6, <1>7, <1>9
        <3>. QED
            BY <1>10, <3>1 DEF Kept
    <2>. HIDE DEF kept, ms, h
    <2>4. Picked(SubSeq(ms, 1, h + 1), Kept(c))
            = IF h + 1 \in Kept(c) THEN Append(Picked(SubSeq(ms, 1, h), Kept(c)), ms[h + 1])
              ELSE Picked(SubSeq(ms, 1, h), Kept(c))
        BY <1>6, <2>2, PickedStep
    <2>5. new.methods = IF hm.unsupported THEN kept ELSE Append(kept, hm)
        BY <1>12
    <2>6. new.name = model[c].name
        BY <1>12
    <2>. QED
        BY <1>10, <2>1, <2>3, <2>4, <2>5, <2>6
<1>19. DividedAt(c)'
    <2>1. model'[c] = new /\ ifaces' = ifaces /\ Kept(c)' = Kept(c)
        BY <1>1, <1>11 DEF Kept
    <2>2. h1 <= Len(ms)
        BY <1>7, <1>9, <1>17
    <2>. QED
        BY <1>17, <1>18, <2>1, <2>2 DEF DividedAt
<1>20. SkippedAt(c)'
    <2>1. ASSUME NEW name \in Words
          PROVE  <<c, name>> \in Range(skipped')
                   <=> \E k \in 1..(h + 1) : ms[k].unsupported /\ ms[k].name = name
        <3>1. <<c, name>> \in Range(skipped)
                <=> \E k \in 1..h : ms[k].unsupported /\ ms[k].name = name
            BY <1>8 DEF SkippedAt
        <3>2. <<c, name>> \in Range(skipped')
                <=> <<c, name>> \in Range(skipped) \/ (hm.unsupported /\ hm.name = name)
            <4>1. <<c, name>> = e <=> hm.name = name
                BY <1>14
            <4>2. CASE hm.unsupported
                BY <1>15, <4>1, <4>2 DEF added
            <4>3. CASE ~hm.unsupported
                BY <1>15, <4>3 DEF added
            <4>. QED
                BY <4>2, <4>3
        <3>3. \A k : k \in 1..(h + 1) <=> k \in 1..h \/ k = h + 1
            BY <1>7
        <3>. QED
            BY <1>10, <3>1, <3>2, <3>3
    <2>2. Len(model'[c].all) = h + 1 /\ ifaces' = ifaces
        BY <1>1, <1>11, <1>17
    <2>. QED
        BY <2>1, <2>2 DEF SkippedAt
<1>21. \A i \in DOMAIN model' : DividedAt(i)' /\ SkippedAt(i)'
                                  /\ (i < Len(model') => WholeAt(i)')
    <2>1. ASSUME NEW i \in DOMAIN model', i # c
          PROVE  DividedAt(i)' /\ SkippedAt(i)' /\ WholeAt(i)'
        <3>1. i \in DOMAIN model /\ model'[i] = model[i] /\ ifaces' = ifaces
            BY <1>1, <1>11, <2>1
        <3>2. i < Len(model)
            BY <1>4, <2>1, <3>1
        <3>3. DividedAt(i) /\ SkippedAt(i) /\ WholeAt(i)
            BY <3>1, <3>2 DEF DivideInv
        <3>4. \A name \in Words : <<i, name>> \in Range(skipped')
                                    <=> <<i, name>> \in Range(skipped)
            <4>1. \A name : <<i, name>> # e
                BY <1>14, <2>1
            <4>. QED
                BY <1>15, <4>1
        <3>. QED
            BY <3>1, <3>3, <3>4, DivideKept DEF WholeAt
    <2>2. ~(c < Len(model'))
        BY <1>13
    <2>. QED
        BY <1>19, <1>20, <2>1, <2>2
<1>22. Handled' = Len(model'[c].all)
    <2>. DEFINE In(t) == Beginning(t, c)
    <2>1. Handled = Len(kept) + Cardinality(In(skipped))
        BY <1>3 DEF Handled, Beginning
    <2>2. Handled' = Len(model'[c].methods) + Cardinality(In(skipped'))
        BY <1>13 DEF Handled, Beginning
    <2>3. /\ Cardinality(In(skipped)) \in Nat
          /\ Cardinality(In(Append(skipped, e))) = Cardinality(In(skipped)) + 1
        <3>1. e[1] = c
            BY <1>14
        <3>. QED
            BY <1>2, <3>1, CountGrows
    <2>. HIDE DEF In
    <2>4. CASE hm.unsupported
        <3>1. skipped' = Append(skipped, e) /\ new.methods = kept
            BY <1>1, <1>3, <1>12, <1>14, <2>4
        <3>2. Cardinality(In(skipped')) = Cardinality(In(skipped)) + 1
            BY <2>3, <3>1
        <3>3. Len(kept) \in Nat
            BY <1>6
        <3>. HIDE DEF kept, h, h1
        <3>4. Handled = h /\ Len(model'[c].all) = h + 1
            BY <1>8, <1>11, <1>17 DEF h1
        <3>5. Handled' = Len(kept) + Cardinality(In(skipped'))
            BY <1>11, <2>2, <3>1
        <3>. QED
            BY <2>1, <2>3, <3>2, <3>3, <3>4, <3>5
    <2>5. CASE ~hm.unsupported
        <3>1. skipped' = skipped /\ new.methods = Append(kept, hm)
            BY <1>1, <1>12, <2>5
        <3>2. Len(new.methods) = Len(kept) + 1 /\ Len(kept) \in Nat
            BY <1>6, <1>10, <3>1
        <3>3. Cardinality(In(skipped')) = Cardinality(In(skipped))
            BY <3>1
        <3>. HIDE DEF kept, h, h1
        <3>4. Handled = h /\ Len(model'[c].all) = h + 1
            BY <1>8, <1>11, <1>17 DEF h1
        <3>5. Handled' = Len(kept) + 1 + Cardinality(In(skipped))
            BY <1>11, <2>2, <3>2, <3>3
        <3>. QED
            BY <2>1, <2>3, <3>2, <3>4, <3>5
    <2>. QED
        BY <2>4, <2>5
<1>23. ReadOK' /\ schema' \in Schemas /\ pc' = "build"
    BY <1>1 DEF DivideInv, ReadOK
<1>. QED
    BY <1>13, <1>16, <1>21, <1>22, <1>23 DEF DivideInv

\* The template is executed when all is divided.
LEMMA ExecuteDivide == DivideInv /\ Execute => DivideInv'
<1>. SUFFICES ASSUME DivideInv, Execute PROVE DivideInv'
    OBVIOUS
<1>1. /\ Finished /\ Current = Len(ifaces) /\ pc' \in {"done", "error"}
      /\ schema' = schema /\ ifaces' = ifaces /\ model' = model /\ skipped' = skipped
    BY DEF Execute
<1>2. model \in Seq(ModelInterface) /\ Current = Len(model)
    BY DEF DivideInv, ModelOK, Current
<1>3. \A i \in DOMAIN model : WholeAt(i)
    <2>1. \A i \in DOMAIN model : i < Current \/ (i = Current /\ Current > 0)
        BY <1>2
    <2>2. Current > 0 => WholeAt(Current)
        BY <1>1 DEF DivideInv, Finished, WholeAt
    <2>. QED
        BY <1>2, <2>1, <2>2 DEF DivideInv
<1>4. /\ ReadOK' /\ ModelOK' /\ Current' = Current /\ Handled' = Handled
    BY <1>1 DEF DivideInv, ReadOK, ModelOK, Current, Handled
<1>5. ASSUME NEW i \in DOMAIN model'
      PROVE  DividedAt(i)' /\ SkippedAt(i)' /\ WholeAt(i)'
    <2>1. i \in DOMAIN model /\ model'[i] = model[i]
        BY <1>1
    <2>2. DividedAt(i) /\ SkippedAt(i) /\ WholeAt(i)
        BY <1>3, <2>1 DEF DivideInv
    <2>. QED
        BY <1>1, <2>1, <2>2, DivideKept DEF WholeAt
<1>6. Current' > 0 => Handled' = Len(model'[Current'].all)
    BY <1>1, <1>4 DEF DivideInv
<1>7. schema' \in Schemas
    BY <1>1 DEF DivideInv
<1>8. /\ pc' \in {"parse", "build", "done", "error"} /\ pc' # "parse"
      /\ Current' = Len(ifaces')
    BY <1>1, <1>4
<1>. QED
    BY <1>4, <1>5, <1>6, <1>7, <1>8 DEF DivideInv

\* Every step keeps the invariant.
LEMMA StepDivide == DivideInv /\ [Next]_vars => DivideInv'
<1>1. ASSUME DivideInv, UNCHANGED vars PROVE DivideInv'
    <2>1. /\ schema' = schema /\ pc' = pc /\ ifaces' = ifaces /\ model' = model
          /\ skipped' = skipped
        BY <1>1 DEF vars
    <2>2. /\ ReadOK' = ReadOK /\ ModelOK' = ModelOK /\ Current' = Current
          /\ Handled' = Handled
        BY <2>1 DEF ReadOK, ModelOK, Current, Handled
    <2>3. ASSUME NEW i \in DOMAIN model'
          PROVE  DividedAt(i)' /\ SkippedAt(i)' /\ (WholeAt(i)' <=> WholeAt(i))
        <3>1. DividedAt(i) /\ SkippedAt(i) /\ i \in DOMAIN model
            BY <1>1, <2>1 DEF DivideInv
        <3>. QED
            BY <2>1, <3>1, DivideKept DEF WholeAt
    <2>. QED
        BY <1>1, <2>1, <2>2, <2>3 DEF DivideInv
<1>. QED
    BY <1>1, ParseDivide, InterfaceDivide, MethodDivide, ExecuteDivide DEF Next

\* Whatever the schema, Generate divides the methods it reads: the adapter gets
\* all in order, the client those whose types are supported, and the others are
\* reported (generate.go, the loops of Generate).
THEOREM Divides == Spec => []DivideInv
BY InitDivide, StepDivide, PTL DEF Spec

-----------------------------------------------------------------------------
(* The adapter has every method of the schema.                               *)

\* A type that is supported is a scalar and nothing else.
LEMMA SupportedType ==
    ASSUME NEW type \in Seq(Token)
    PROVE  supported(type) <=> \E t \in scalarTypes : type = <<t>>
<1>1. ASSUME supported(type) PROVE type = <<type[1]>> /\ type[1] \in scalarTypes
    BY <1>1 DEF supported
<1>2. ASSUME NEW t \in scalarTypes, type = <<t>> PROVE supported(type)
    <2>1. Len(type) = 1 /\ type[1] = t
        BY <1>2
    <2>. QED
        BY <2>1 DEF supported
<1>. QED
    BY <1>1, <1>2

\* No type outside scalarTypes among the fields of a method.
ScalarOnly(m) == \A f \in Range(m.params \o m.results) :
                    \E t \in scalarTypes : f.type = <<t>>

\* A method read as it is written is supported if that has scalars only.
LEMMA UnsupportedAsWritten ==
    ASSUME NEW m \in ReadMethod, NEW w \in MethodDecl,
           FieldsAre(m.params, w.params), FieldsAre(m.results, w.results)
    PROVE  unsupportedReason(m.params, m.results) <=> ~ScalarOnly(w)
<1>1. /\ m.params \in Seq(ReadField) /\ m.results \in Seq(ReadField)
      /\ w.params \in Seq(FieldDecl) /\ w.results \in Seq(FieldDecl)
    BY DEF ReadMethod, MethodDecl
<1>2. /\ Range(m.params \o m.results) = Range(m.params) \cup Range(m.results)
      /\ Range(w.params \o w.results) = Range(w.params) \cup Range(w.results)
    BY <1>1, RangeConcat
<1>3. ASSUME NEW ps \in Seq(ReadField), NEW fs \in Seq(FieldDecl), FieldsAre(ps, fs)
      PROVE  (\E f \in Range(ps) : ~supported(f.type))
               <=> \E f \in Range(fs) : ~\E t \in scalarTypes : f.type = <<t>>
    <2>1. DOMAIN ps = DOMAIN fs /\ \A k \in DOMAIN fs : ps[k].type = fs[k].type
        BY <1>3 DEF FieldsAre
    <2>2. \A k \in DOMAIN fs : supported(ps[k].type)
                                 <=> \E t \in scalarTypes : fs[k].type = <<t>>
        <3>1. \A k \in DOMAIN fs : ps[k].type \in Seq(Token)
            <4>1. \A k \in DOMAIN ps : ps[k] \in ReadField
                OBVIOUS
            <4>. QED
                BY <2>1, <4>1 DEF ReadField
        <3>. QED
            BY <2>1, <3>1, SupportedType
    <2>. QED
        BY <2>1, <2>2 DEF Range
<1>4. /\ (\E f \in Range(m.params) : ~supported(f.type))
           <=> \E f \in Range(w.params) : ~\E t \in scalarTypes : f.type = <<t>>
      /\ (\E f \in Range(m.results) : ~supported(f.type))
           <=> \E f \in Range(w.results) : ~\E t \in scalarTypes : f.type = <<t>>
    BY <1>1, <1>3
<1>. QED
    BY <1>2, <1>4 DEF unsupportedReason, ScalarOnly

\* The methods of an interface have names of their own.
MethodNamesDistinct ==
    \A i \in DOMAIN Found :
        IsInjective([k \in DOMAIN Found[i].methods |-> Found[i].methods[k].name])

\* The interfaces found are declarations of interfaces.
LEMMA FoundType ==
    ASSUME schema \in Schemas
    PROVE  Found \in Seq(InterfaceDecl)
<1>1. schema.interfaces \in Seq(InterfaceDecl)
    BY GeneratorAssumption
<1>2. Found = Picked(schema.interfaces, {i \in DOMAIN schema.interfaces :
                                            schema.interfaces[i].extends = ""})
    BY DEF Found, SelectAt, Picked, Pieces
<1>. QED
    BY <1>1, <1>2, PickedType

\* At the end, one interface of the model at a time.
LEMMA CoversOne ==
    ASSUME DivideInv, ParsedAsWritten, MethodNamesDistinct, pc = "done",
           NEW i \in DOMAIN Found
    PROVE  LET methods == Found[i].methods
               NamesIn(ms) == [k \in DOMAIN ms |-> ms[k].name]
           IN  /\ NamesIn(model[i].all) = NamesIn(methods)
               /\ NamesIn(model[i].methods)
                    = NamesIn(SelectAt(methods, LAMBDA k : ScalarOnly(methods[k])))
               /\ \A k \in DOMAIN methods :
                     <<i, methods[k].name>> \in Range(skipped)
                       <=> ~ScalarOnly(methods[k])
<1>. DEFINE ws == Found[i].methods
            ms == ifaces[i].methods
            J == {k \in DOMAIN ws : ScalarOnly(ws[k])}
            NamesOf(s) == [k \in DOMAIN s |-> s[k].name]
<1>1. /\ ifaces \in Seq(ReadInterface) /\ model \in Seq(ModelInterface)
      /\ schema \in Schemas
    BY DEF DivideInv, ReadOK, ModelOK
<1>2. /\ Found \in Seq(InterfaceDecl) /\ Len(ifaces) = Len(Found)
      /\ Len(model) = Len(ifaces)
    BY <1>1, FoundType DEF DivideInv, ParsedAsWritten, Current
<1>3. i \in DOMAIN ifaces /\ i \in DOMAIN model
    BY <1>1, <1>2
<1>4. ws \in Seq(MethodDecl) /\ ms \in Seq(ReadMethod)
    <2>1. Found[i] \in InterfaceDecl /\ ifaces[i] \in ReadInterface
        BY <1>1, <1>2, <1>3
    <2>. QED
        BY <2>1 DEF InterfaceDecl, ReadInterface
<1>5. /\ DOMAIN ms = DOMAIN ws
      /\ \A k \in DOMAIN ms : /\ ms[k].name = ws[k].name
                              /\ FieldsAre(ms[k].params, ws[k].params)
                              /\ FieldsAre(ms[k].results, ws[k].results)
    BY <1>3 DEF ParsedAsWritten
<1>6. Len(ms) = Len(ws)
    BY <1>4, <1>5
<1>7. model[i].all = ms /\ model[i].methods = Picked(ms, Kept(i)) /\ SkippedAt(i)
      /\ Len(model[i].all) = Len(ms)
    <2>1. WholeAt(i) /\ DividedAt(i) /\ SkippedAt(i)
        BY <1>3 DEF DivideInv
    <2>2. Len(model[i].all) = Len(ms)
        BY <2>1 DEF WholeAt
    <2>3. SubSeq(ms, 1, Len(model[i].all)) = ms
        BY <1>4, <2>2
    <2>. QED
        BY <2>1, <2>2, <2>3 DEF DividedAt
<1>8. \A k \in DOMAIN ms : /\ ms[k].unsupported \in BOOLEAN
                           /\ ms[k].unsupported <=> ~ScalarOnly(ws[k])
    <2>1. ASSUME NEW k \in DOMAIN ms
          PROVE  unsupportedReason(ms[k].params, ms[k].results) <=> ~ScalarOnly(ws[k])
        <3>1. ms[k] \in ReadMethod /\ ws[k] \in MethodDecl
            BY <1>4, <1>5
        <3>. QED
            BY <1>5, <3>1, UnsupportedAsWritten
    <2>2. \A k \in DOMAIN ms :
             ms[k].unsupported = unsupportedReason(ms[k].params, ms[k].results)
        BY <1>3 DEF DivideInv, ReadOK
    <2>3. \A k \in DOMAIN ms : ms[k].unsupported \in BOOLEAN
        <3>1. \A k \in DOMAIN ms : ms[k] \in ReadMethod
            BY <1>4
        <3>. QED
            BY <3>1 DEF ReadMethod
    <2>. QED
        BY <2>1, <2>2, <2>3
<1>9. Picked(ms, Kept(i)) = Picked(ms, J)
    <2>1. \A k \in DOMAIN ms : k \in Kept(i) <=> k \in J
        BY <1>5, <1>8 DEF Kept
    <2>. HIDE DEF J
    <2>. QED
        BY <2>1, PickedSame
<1>10. SelectAt(ws, LAMBDA k : ScalarOnly(ws[k])) = Picked(ws, J)
    BY DEF SelectAt, Picked, Pieces
<1>11. NamesOf(Picked(ms, J)) = NamesOf(Picked(ws, J))
    <2>. DEFINE R == {p \in ReadMethod \X MethodDecl : p[1].name = p[2].name}
    <2>1. \A k \in DOMAIN ms : <<ms[k], ws[k]>> \in R
        BY <1>4, <1>5
    <2>. HIDE DEF J, ms, ws
    <2>2. /\ DOMAIN Picked(ms, J) = DOMAIN Picked(ws, J)
          /\ \A j \in DOMAIN Picked(ms, J) : <<Picked(ms, J)[j], Picked(ws, J)[j]>> \in R
        <3>. HIDE DEF R
        <3>. QED
            BY <1>4, <1>6, <2>1, PickedAlike
    <2>. QED
        BY <2>2
<1>12. NamesOf(ms) = NamesOf(ws)
    BY <1>5
<1>13. ASSUME NEW k \in DOMAIN ws
       PROVE  <<i, ws[k].name>> \in Range(skipped) <=> ~ScalarOnly(ws[k])
    <2>1. ws[k].name \in Words
        <3>1. ws[k] \in MethodDecl
            BY <1>4
        <3>. QED
            BY <3>1 DEF MethodDecl
    <2>2. <<i, ws[k].name>> \in Range(skipped)
            <=> \E j \in 1..Len(ms) : ms[j].unsupported /\ ms[j].name = ws[k].name
        BY <1>7, <2>1 DEF SkippedAt
    <2>3. 1..Len(ms) = DOMAIN ms
        BY <1>4
    <2>4. \A j \in DOMAIN ms : ms[j].name = ws[k].name => j = k
        <3>1. IsInjective(NamesOf(ws))
            BY DEF MethodNamesDistinct
        <3>. QED
            BY <1>5, <3>1 DEF IsInjective
    <2>. QED
        BY <1>5, <1>8, <2>2, <2>3, <2>4
<1>. QED
    BY <1>7, <1>9, <1>10, <1>11, <1>12, <1>13

\* Names of methods that are distinct, as the schema compiler demands, and a
\* text that is read as it is written make the adapter complete: it has a stub
\* or a handler for every method (parser.go, lines 24 to 26).
LEMMA InvCovers ==
    DivideInv /\ ParsedAsWritten /\ MethodNamesDistinct => AdapterCoversInterface
<1>. SUFFICES ASSUME DivideInv, ParsedAsWritten, MethodNamesDistinct, pc = "done"
              PROVE  AdapterCoversInterface
    BY DEF AdapterCoversInterface
<1>. QED
    BY CoversOne DEF AdapterCoversInterface, ScalarOnly

-----------------------------------------------------------------------------
(* The code of one method.                                                   *)

\* A method as it is read, and one that is supported.
CheckedMethod ==
    {m \in ReadMethod : m.unsupported = unsupportedReason(m.params, m.results)}
KeptMethod == {m \in CheckedMethod : ~m.unsupported}

\* The statements of a handler, before, in and after the call of the service,
\* and those of a method of the client around the call.
Getting(m) ==
    [k \in DOMAIN m.params |->
        Calling("get", m.params[k], Stmt({Arg(m.params[k])}, {<<"args">>}))]
Serving(m) == <<Stmt({<<"resp">>}, {Arg(f) : f \in Range(m.params)}),
                Stmt({<<"results">>}, {})>>
Setting(m) ==
    [k \in DOMAIN m.results |->
        Calling("set", m.results[k], Stmt({}, {<<"results">>, <<"resp">>}))]
Sending(m) ==
    [k \in DOMAIN m.params |-> Calling("set", m.params[k], Stmt({}, {}))]
Receiving(m) ==
    [k \in DOMAIN m.results |->
        Calling("get", m.results[k], Stmt({Ret(m.results[k])}, {<<"res">>}))]

\* Of four lists, one after the other.
LEMMA RangeOfFour ==
    ASSUME NEW S, NEW p \in Seq(S), NEW q \in Seq(S), NEW r \in Seq(S), NEW t \in Seq(S)
    PROVE  /\ Range(p \o q \o r \o t) = Range(p) \cup Range(q) \cup Range(r) \cup Range(t)
           /\ Range(p \o (q \o r \o t))
                = Range(p) \cup Range(q) \cup Range(r) \cup Range(t)
<1>1. p \o q \in Seq(S) /\ p \o q \o r \in Seq(S) /\ q \o r \in Seq(S)
      /\ q \o r \o t \in Seq(S)
    BY TextAfter
<1>2. \A a, b \in Seq(S) : Range(a \o b) = Range(a) \cup Range(b)
    BY RangeConcat
<1>3. Range(p \o q \o r \o t) = Range(p) \cup Range(q) \cup Range(r) \cup Range(t)
    <2>1. /\ Range(p \o q \o r \o t) = Range(p \o q \o r) \cup Range(t)
          /\ Range(p \o q \o r) = Range(p \o q) \cup Range(r)
          /\ Range(p \o q) = Range(p) \cup Range(q)
        BY <1>1, <1>2, Zenon
    <2>. QED
        BY <2>1, Zenon
<1>4. Range(p \o (q \o r \o t)) = Range(p) \cup Range(q) \cup Range(r) \cup Range(t)
    <2>1. /\ Range(p \o (q \o r \o t)) = Range(p) \cup Range(q \o r \o t)
          /\ Range(q \o r \o t) = Range(q \o r) \cup Range(t)
          /\ Range(q \o r) = Range(q) \cup Range(r)
        BY <1>1, <1>2, Zenon
    <2>. DEFINE A == Range(p)
                B == Range(q)
                C == Range(r)
                D == Range(t)
    <2>. HIDE DEF A, B, C, D
    <2>2. Range(p \o (q \o r \o t)) = A \cup ((B \cup C) \cup D)
        BY <2>1, Zenon DEF A, B, C, D
    <2>3. A \cup ((B \cup C) \cup D) = A \cup B \cup C \cup D
        OBVIOUS
    <2>. QED
        BY <2>2, <2>3 DEF A, B, C, D
<1>. QED
    BY <1>3, <1>4

\* The statements of a supported handler and of a method of the client.
LEMMA Bodies ==
    ASSUME NEW m \in ReadMethod
    PROVE  /\ ~m.unsupported =>
                Range(AdapterBody(m)) = Range(Args) \cup Range(Getting(m))
                                          \cup Range(Serving(m)) \cup Range(Setting(m))
           /\ Range(ClientBody(m)) =
                Range(Sending(m)) \cup Range(<<Stmt({<<"res">>}, {})>>)
                  \cup Range(Receiving(m))
                  \cup Range(<<Stmt({}, {Ret(f) : f \in Range(m.results)})>>)
<1>1. m.params \in Seq(ReadField) /\ m.results \in Seq(ReadField)
    BY DEF ReadMethod
<1>. DEFINE n == Len(m.params)
            r == Len(m.results)
            res == <<Stmt({<<"res">>}, {})>>
            ret == <<Stmt({}, {Ret(f) : f \in Range(m.results)})>>
            parts == {Args, Getting(m), Serving(m), Setting(m), Sending(m),
                      Receiving(m), res, ret}
            S == UNION {Range(p) : p \in parts}
<1>2. n \in Nat /\ r \in Nat /\ DOMAIN m.params = 1..n /\ DOMAIN m.results = 1..r
    BY <1>1
<1>3. \A p \in parts : Range(p) \subseteq S
    OBVIOUS
<1>4. /\ DOMAIN Getting(m) = 1..n /\ DOMAIN Sending(m) = 1..n
      /\ DOMAIN Setting(m) = 1..r /\ DOMAIN Receiving(m) = 1..r
      /\ DOMAIN Args = 1..1 /\ DOMAIN res = 1..1 /\ DOMAIN ret = 1..1
      /\ DOMAIN Serving(m) = 1..2
    BY <1>2 DEF Getting, Sending, Setting, Receiving, Args, Serving
<1>5. \A p \in parts : p = [k \in DOMAIN p |-> p[k]]
    BY DEF Getting, Sending, Setting, Receiving, Args, Serving
<1>. HIDE DEF S, res, ret, n, r
<1>6. \A p \in parts : \A k \in DOMAIN p : p[k] \in S
    BY <1>3 DEF Range
<1>7. /\ Getting(m) \in Seq(S) /\ Sending(m) \in Seq(S)
      /\ Setting(m) \in Seq(S) /\ Receiving(m) \in Seq(S)
    <2>1. Getting(m) \in Seq(S)
        BY <1>2, <1>4, <1>5, <1>6, ListWithin
    <2>2. Sending(m) \in Seq(S)
        BY <1>2, <1>4, <1>5, <1>6, ListWithin
    <2>3. Setting(m) \in Seq(S)
        BY <1>2, <1>4, <1>5, <1>6, ListWithin
    <2>4. Receiving(m) \in Seq(S)
        BY <1>2, <1>4, <1>5, <1>6, ListWithin
    <2>. QED
        BY <2>1, <2>2, <2>3, <2>4
<1>8. Args \in Seq(S) /\ res \in Seq(S) /\ ret \in Seq(S) /\ Serving(m) \in Seq(S)
    <2>1. 1 \in Nat /\ 2 \in Nat
        OBVIOUS
    <2>. QED
        BY <2>1, <1>4, <1>5, <1>6, ListWithin
<1>9. ~m.unsupported =>
        AdapterBody(m) = Args \o (Getting(m) \o Serving(m) \o Setting(m))
    BY DEF AdapterBody, Handle, Getting, Serving, Setting
<1>10. ClientBody(m) = Sending(m) \o res \o Receiving(m) \o ret
    BY DEF ClientBody, Sending, Receiving, res, ret
<1>. HIDE DEF parts
<1>11. /\ Range(Args \o (Getting(m) \o Serving(m) \o Setting(m)))
            = Range(Args) \cup Range(Getting(m)) \cup Range(Serving(m))
                \cup Range(Setting(m))
       /\ Range(Sending(m) \o res \o Receiving(m) \o ret)
            = Range(Sending(m)) \cup Range(res) \cup Range(Receiving(m)) \cup Range(ret)
    BY <1>7, <1>8, RangeOfFour
<1>. QED
    BY <1>9, <1>10, <1>11 DEF res, ret

\* What the statements around a call declare, use and call.
LEMMA Statement ==
    ASSUME NEW kind, NEW f, NEW d, NEW u
    PROVE  /\ Calling(kind, f, Stmt(d, u)).declares = d
           /\ Calling(kind, f, Stmt(d, u)).uses = u
           /\ Calling(kind, f, Stmt(d, u)).calls
                = {<<kind, accessor(f), f.type[1] \in Fallible>>}
           /\ Stmt(d, u).declares = d /\ Stmt(d, u).uses = u /\ Stmt(d, u).calls = {}
BY DEF Calling, Stmt

\* The accessor called for a field of a supported type is one that the bindings
\* have, and it returns an error exactly if theirs does.
LEMMA CallBound ==
    ASSUME NEW m \in KeptMethod, NEW f \in Range(m.params) \cup Range(m.results),
           NEW kind \in {"get", "set"}
    PROVE  <<kind, accessor(f), f.type[1] \in Fallible>> \in BindingsOf(m)
<1>1. /\ m.params \in Seq(ReadField) /\ m.results \in Seq(ReadField)
      /\ ~unsupportedReason(m.params, m.results)
    BY DEF KeptMethod, CheckedMethod, ReadMethod
<1>2. f \in Range(m.params \o m.results)
    BY <1>1, RangeConcat
<1>3. f \in ReadField /\ f.type \in Seq(Token)
    <2>1. Range(m.params) \subseteq ReadField /\ Range(m.results) \subseteq ReadField
        BY <1>1 DEF Range
    <2>. QED
        BY <2>1 DEF ReadField
<1>4. PICK t \in scalarTypes : f.type = <<t>>
    <2>1. supported(f.type)
        BY <1>1, <1>2 DEF unsupportedReason
    <2>. QED
        BY <1>3, <2>1, SupportedType
<1>5. (f.type[1] \in Fallible) = (f.type \in {<<"Text">>, <<"Data">>})
    <2>1. f.type[1] = t
        BY <1>4
    <2>2. <<t>> = <<"Text">> <=> t = "Text"
        OBVIOUS
    <2>3. <<t>> = <<"Data">> <=> t = "Data"
        OBVIOUS
    <2>. QED
        BY <1>4, <2>1, <2>2, <2>3 DEF Fallible
<1>6. accessor(f) = IF Pascal[f.name[1]] \in StructMethods THEN <<Pascal[f.name[1]], "_">>
                    ELSE <<Pascal[f.name[1]]>>
    <2>1. reservedAccessors = StructMethods
        BY DEF reservedAccessors, StructMethods
    <2>. QED
        BY <2>1 DEF accessor
<1>7. BindingOf(kind, f) \in BindingsOf(m)
    <2>. DEFINE K == {"get", "set"}
                F == Range(m.params \o m.results)
    <2>1. kind \in K /\ f \in F
        BY <1>2
    <2>. HIDE DEF K, F
    <2>2. BindingOf(kind, f) \in {BindingOf(k, g) : k \in K, g \in F}
        BY <2>1
    <2>. QED
        BY <2>2 DEF BindingsOf, K, F
<1>8. BindingOf(kind, f)
        = <<kind, IF Pascal[f.name[1]] \in StructMethods THEN <<Pascal[f.name[1]], "_">>
                  ELSE <<Pascal[f.name[1]]>>,
            f.type \in {<<"Text">>, <<"Data">>}>>
    BY DEF BindingOf
<1>. QED
    BY <1>5, <1>6, <1>7, <1>8, Zenon

\* The handler of a supported method that takes and returns something uses the
\* variables it declares, and calls what is there.
LEMMA HandlerOK ==
    ASSUME NEW m \in KeptMethod, m.params # <<>>, m.results # <<>>
    PROVE  AllUsed(AdapterBody(m)) /\ AllBound(AdapterBody(m), m)
<1>. DEFINE body == AdapterBody(m)
<1>1. m.params \in Seq(ReadField) /\ m.results \in Seq(ReadField) /\ m \in ReadMethod
      /\ ~m.unsupported
    BY DEF KeptMethod, CheckedMethod, ReadMethod
<1>2. Range(body) = Range(Args) \cup Range(Getting(m)) \cup Range(Serving(m))
                      \cup Range(Setting(m))
    BY <1>1, Bodies
<1>3. 1 \in DOMAIN m.params /\ 1 \in DOMAIN m.results
    BY <1>1, EmptySeq
<1>4. \A st \in Range(Args) : st.declares = {<<"args">>} /\ st.calls = {}
    <2>. DEFINE st == Stmt({<<"args">>}, {})
    <2>1. st.declares = {<<"args">>} /\ st.calls = {}
        BY Statement
    <2>2. Range(Args) = {st}
        BY RangeOfTuple DEF Args
    <2>. HIDE DEF st
    <2>. QED
        BY <2>1, <2>2
<1>5. \A k \in DOMAIN m.params : /\ Getting(m)[k].declares = {Arg(m.params[k])}
                                 /\ Getting(m)[k].uses = {<<"args">>}
                                 /\ Getting(m)[k].calls
                                      = {<<"get", accessor(m.params[k]),
                                           m.params[k].type[1] \in Fallible>>}
    BY Statement DEF Getting
<1>6. /\ Serving(m)[1] \in Range(Serving(m)) /\ Serving(m)[2] \in Range(Serving(m))
      /\ Serving(m)[1].uses = {Arg(f) : f \in Range(m.params)}
      /\ \A st \in Range(Serving(m)) : /\ st.declares \subseteq {<<"resp">>, <<"results">>}
                                       /\ st.calls = {}
    <2>. DEFINE resp == Stmt({<<"resp">>}, {Arg(f) : f \in Range(m.params)})
                results == Stmt({<<"results">>}, {})
    <2>2. Serving(m) = <<resp, results>>
        BY DEF Serving
    <2>5. /\ resp.declares = {<<"resp">>} /\ resp.calls = {}
          /\ resp.uses = {Arg(f) : f \in Range(m.params)}
        BY DEF Stmt
    <2>6. results.declares = {<<"results">>} /\ results.calls = {}
        BY DEF Stmt
    <2>. HIDE DEF resp, results
    <2>7. Serving(m)[1] = resp /\ Serving(m)[2] = results
        BY <2>2
    <2>1. Range(Serving(m)) = {Serving(m)[1], Serving(m)[2]}
        BY <2>2, <2>7, RangeOfTuple
    <2>3. /\ Serving(m)[1].declares = {<<"resp">>} /\ Serving(m)[1].calls = {}
          /\ Serving(m)[1].uses = {Arg(f) : f \in Range(m.params)}
        BY <2>5, <2>7
    <2>4. Serving(m)[2].declares = {<<"results">>} /\ Serving(m)[2].calls = {}
        BY <2>6, <2>7
    <2>. QED
        BY <2>1, <2>3, <2>4
<1>7. \A k \in DOMAIN m.results : /\ Setting(m)[k].declares = {}
                                  /\ Setting(m)[k].uses = {<<"results">>, <<"resp">>}
                                  /\ Setting(m)[k].calls
                                       = {<<"set", accessor(m.results[k]),
                                            m.results[k].type[1] \in Fallible>>}
    BY Statement DEF Setting
<1>8. /\ DOMAIN Getting(m) = DOMAIN m.params /\ DOMAIN Setting(m) = DOMAIN m.results
      /\ Range(Getting(m)) = {Getting(m)[k] : k \in DOMAIN m.params}
      /\ Range(Setting(m)) = {Setting(m)[k] : k \in DOMAIN m.results}
    BY DEF Getting, Setting, Range
<1>. HIDE DEF body
<1>9. AllUsed(body)
    <2>. DEFINE Used == UNION {st.uses : st \in Range(body)}
    <2>1. <<"args">> \in Used
        BY <1>2, <1>3, <1>5, <1>8
    <2>2. <<"resp">> \in Used /\ <<"results">> \in Used
        BY <1>2, <1>3, <1>7, <1>8
    <2>3. \A f \in Range(m.params) : Arg(f) \in Used
        BY <1>2, <1>6
    <2>. HIDE DEF Used
    <2>4. ASSUME NEW st \in Range(body) PROVE st.declares \subseteq Used
        <3>1. CASE st \in Range(Args)
            BY <1>4, <2>1, <3>1
        <3>2. CASE st \in Range(Getting(m))
            <4>1. PICK k \in DOMAIN m.params : st = Getting(m)[k]
                BY <1>8, <3>2
            <4>2. m.params[k] \in Range(m.params)
                BY DEF Range
            <4>. QED
                BY <1>5, <2>3, <4>1, <4>2
        <3>3. CASE st \in Range(Serving(m))
            BY <1>6, <2>2, <3>3
        <3>4. CASE st \in Range(Setting(m))
            BY <1>7, <1>8, <3>4
        <3>. QED
            BY <1>2, <3>1, <3>2, <3>3, <3>4
    <2>. QED
        BY <2>4 DEF AllUsed, Used
<1>10. AllBound(body, m)
    <2>1. ASSUME NEW st \in Range(body) PROVE st.calls \subseteq BindingsOf(m)
        <3>1. CASE st \in Range(Args) \cup Range(Serving(m))
            BY <1>4, <1>6, <3>1
        <3>2. CASE st \in Range(Getting(m))
            <4>1. PICK k \in DOMAIN m.params : st = Getting(m)[k]
                BY <1>8, <3>2
            <4>2. m.params[k] \in Range(m.params)
                BY DEF Range
            <4>3. <<"get", accessor(m.params[k]), m.params[k].type[1] \in Fallible>>
                    \in BindingsOf(m)
                BY <4>2, CallBound
            <4>. QED
                BY <1>5, <4>1, <4>3
        <3>3. CASE st \in Range(Setting(m))
            <4>1. PICK k \in DOMAIN m.results : st = Setting(m)[k]
                BY <1>8, <3>3
            <4>2. m.results[k] \in Range(m.results)
                BY DEF Range
            <4>3. <<"set", accessor(m.results[k]), m.results[k].type[1] \in Fallible>>
                    \in BindingsOf(m)
                BY <4>2, CallBound
            <4>. QED
                BY <1>7, <4>1, <4>3
        <3>. QED
            BY <1>2, <3>1, <3>2, <3>3
    <2>. QED
        BY <2>1 DEF AllBound
<1>. QED
    BY <1>9, <1>10 DEF body

\* So does the client's method.
LEMMA CallerOK ==
    ASSUME NEW m \in KeptMethod, m.results # <<>>
    PROVE  AllUsed(ClientBody(m)) /\ AllBound(ClientBody(m), m)
<1>. DEFINE body == ClientBody(m)
            res == <<Stmt({<<"res">>}, {})>>
            ret == <<Stmt({}, {Ret(f) : f \in Range(m.results)})>>
<1>1. m.params \in Seq(ReadField) /\ m.results \in Seq(ReadField) /\ m \in ReadMethod
    BY DEF KeptMethod, CheckedMethod, ReadMethod
<1>2. Range(body) = Range(Sending(m)) \cup Range(res) \cup Range(Receiving(m))
                      \cup Range(ret)
    BY <1>1, Bodies
<1>3. 1 \in DOMAIN m.results
    BY <1>1, EmptySeq
<1>4. \A k \in DOMAIN m.params : /\ Sending(m)[k].declares = {}
                                 /\ Sending(m)[k].calls
                                      = {<<"set", accessor(m.params[k]),
                                           m.params[k].type[1] \in Fallible>>}
    BY Statement DEF Sending
<1>5. \A st \in Range(res) : st.declares = {<<"res">>} /\ st.calls = {}
    <2>. DEFINE e == Stmt({<<"res">>}, {})
    <2>1. e.declares = {<<"res">>} /\ e.calls = {}
        BY Statement
    <2>2. Range(res) = {e}
        BY RangeOfTuple
    <2>. HIDE DEF e
    <2>. QED
        BY <2>1, <2>2
<1>6. \A k \in DOMAIN m.results : /\ Receiving(m)[k].declares = {Ret(m.results[k])}
                                  /\ Receiving(m)[k].uses = {<<"res">>}
                                  /\ Receiving(m)[k].calls
                                       = {<<"get", accessor(m.results[k]),
                                            m.results[k].type[1] \in Fallible>>}
    BY Statement DEF Receiving
<1>7. /\ ret[1] \in Range(ret) /\ ret[1].uses = {Ret(f) : f \in Range(m.results)}
      /\ \A st \in Range(ret) : st.declares = {} /\ st.calls = {}
    <2>. DEFINE e == Stmt({}, {Ret(f) : f \in Range(m.results)})
    <2>1. /\ e.declares = {} /\ e.calls = {}
          /\ e.uses = {Ret(f) : f \in Range(m.results)}
        BY Statement
    <2>2. Range(ret) = {e} /\ ret[1] = e
        BY RangeOfTuple
    <2>. HIDE DEF e, ret
    <2>. QED
        BY <2>1, <2>2
<1>8. /\ Range(Sending(m)) = {Sending(m)[k] : k \in DOMAIN m.params}
      /\ Range(Receiving(m)) = {Receiving(m)[k] : k \in DOMAIN m.results}
    BY DEF Sending, Receiving, Range
<1>. HIDE DEF body, res, ret
<1>9. AllUsed(body)
    <2>. DEFINE Used == UNION {st.uses : st \in Range(body)}
    <2>1. <<"res">> \in Used
        BY <1>2, <1>3, <1>6, <1>8
    <2>2. \A f \in Range(m.results) : Ret(f) \in Used
        BY <1>2, <1>7
    <2>. HIDE DEF Used
    <2>3. ASSUME NEW st \in Range(body) PROVE st.declares \subseteq Used
        <3>1. CASE st \in Range(res)
            BY <1>5, <2>1, <3>1
        <3>2. CASE st \in Range(Receiving(m))
            <4>1. PICK k \in DOMAIN m.results : st = Receiving(m)[k]
                BY <1>8, <3>2
            <4>2. m.results[k] \in Range(m.results)
                BY DEF Range
            <4>. QED
                BY <1>6, <2>2, <4>1, <4>2
        <3>3. CASE st \in Range(ret)
            BY <1>7, <3>3
        <3>4. CASE st \in Range(Sending(m))
            BY <1>4, <1>8, <3>4
        <3>. QED
            BY <1>2, <3>1, <3>2, <3>3, <3>4
    <2>. QED
        BY <2>3 DEF AllUsed, Used
<1>10. AllBound(body, m)
    <2>1. ASSUME NEW st \in Range(body) PROVE st.calls \subseteq BindingsOf(m)
        <3>1. CASE st \in Range(res) \cup Range(ret)
            BY <1>5, <1>7, <3>1
        <3>2. CASE st \in Range(Sending(m))
            <4>1. PICK k \in DOMAIN m.params : st = Sending(m)[k]
                BY <1>8, <3>2
            <4>2. m.params[k] \in Range(m.params)
                BY DEF Range
            <4>3. <<"set", accessor(m.params[k]), m.params[k].type[1] \in Fallible>>
                    \in BindingsOf(m)
                BY <4>2, CallBound
            <4>. QED
                BY <1>4, <4>1, <4>3
        <3>3. CASE st \in Range(Receiving(m))
            <4>1. PICK k \in DOMAIN m.results : st = Receiving(m)[k]
                BY <1>8, <3>3
            <4>2. m.results[k] \in Range(m.results)
                BY DEF Range
            <4>3. <<"get", accessor(m.results[k]), m.results[k].type[1] \in Fallible>>
                    \in BindingsOf(m)
                BY <4>2, CallBound
            <4>. QED
                BY <1>6, <4>1, <4>3
        <3>. QED
            BY <1>2, <3>1, <3>2, <3>3
    <2>. QED
        BY <2>1 DEF AllBound
<1>. QED
    BY <1>9, <1>10 DEF body

-----------------------------------------------------------------------------
(* The names of the file.                                                    *)

\* The text of an interface has names for its methods that are still distinct
\* when they are exported: capnp asks for names that begin with a small letter
\* and differ, and pascal raises that letter only (parser.go, pascal).
ExportedDistinct ==
    \A i \in DOMAIN Found :
        IsInjective([k \in DOMAIN Found[i].methods |-> Pascal[Found[i].methods[k].name]])

\* The methods the client gets have exported names of their own.
LEMMA ClientNames ==
    ASSUME NEW ms \in Seq(ReadMethod), NEW I,
           IsInjective([k \in DOMAIN ms |-> Pascal[ms[k].name]])
    PROVE  IsInjective([j \in DOMAIN Picked(ms, I) |-> Pascal[Picked(ms, I)[j].name]])
<1>. DEFINE p == Picked(ms, I)
            T == {ms[k] : k \in DOMAIN ms}
<1>1. \A j, k \in DOMAIN ms : Pascal[ms[j].name] = Pascal[ms[k].name] => j = k
    BY DEF IsInjective
<1>2. IsInjective(ms)
    BY <1>1 DEF IsInjective
<1>3. IsInjective(p)
    BY <1>2, PickedInjective
<1>4. p \in Seq(T)
    <2>1. \A k \in DOMAIN ms : k \in I => ms[k] \in T
        OBVIOUS
    <2>. HIDE DEF T
    <2>. QED
        BY <2>1, PickedWithin
<1>. HIDE DEF p, T
<1>5. ASSUME NEW j \in DOMAIN p, NEW k \in DOMAIN p, Pascal[p[j].name] = Pascal[p[k].name]
      PROVE  j = k
    <2>1. p[j] \in T /\ p[k] \in T
        BY <1>4
    <2>2. PICK a \in DOMAIN ms, b \in DOMAIN ms : p[j] = ms[a] /\ p[k] = ms[b]
        BY <2>1 DEF T
    <2>3. a = b
        BY <1>1, <1>5, <2>2
    <2>. QED
        BY <1>3, <2>2, <2>3 DEF IsInjective
<1>. QED
    BY <1>5 DEF IsInjective, p

\* So the client's methods and Close do not clash, unless one is called close.
LEMMA ClientDistinct ==
    ASSUME NEW in, in.methods \in Seq(ReadMethod),
           IsInjective([k \in DOMAIN in.methods |-> Pascal[in.methods[k].name]]),
           \A m \in Range(in.methods) : Pascal[m.name] # "Close"
    PROVE  IsInjective(ClientMethods(in))
<1>. DEFINE p == [k \in DOMAIN in.methods |-> Pascal[in.methods[k].name]]
            q == <<"Close">>
            S == Range(p) \cup {"Close"}
            n == Len(in.methods)
<1>1. n \in Nat /\ DOMAIN p = 1..n
    OBVIOUS
<1>2. \A j \in DOMAIN p : p[j] # "Close"
    BY DEF Range
<1>3. \A j \in DOMAIN p : p[j] \in S
    BY DEF Range
<1>4. p = [k \in DOMAIN p |-> p[k]] /\ IsInjective(p)
    OBVIOUS
<1>. HIDE DEF p, n
<1>5. p \in Seq(S)
    <2>. HIDE DEF S
    <2>. QED
        BY <1>1, <1>3, <1>4, ListWithin
<1>6. q \in Seq(S) /\ DOMAIN q = 1..1 /\ q[1] = "Close"
    OBVIOUS
<1>. HIDE DEF q, S
<1>7. IsInjective(q)
    BY <1>6 DEF IsInjective
<1>8. \A j \in DOMAIN p : \A k \in DOMAIN q : p[j] # q[k]
    BY <1>2, <1>6
<1>9. IsInjective(p \o q)
    BY <1>4, <1>5, <1>6, <1>7, <1>8, ConcatInjective
<1>. QED
    BY <1>9 DEF ClientMethods, p, q

\* Nor do the names the file declares for an interface.
LEMMA TopLevelDistinct ==
    ASSUME NEW in, in.methods \in Seq(ReadMethod),
           IsInjective([k \in DOMAIN in.methods |-> Pascal[in.methods[k].name]])
    PROVE  IsInjective(TopLevel(in))
<1>. DEFINE n == Len(in.methods)
            name(k) == Pascal[in.methods[k].name]
            pair(k) == <<<<name(k), "Request">>, <<name(k), "Response">>>>
            s == [k \in DOMAIN in.methods |-> pair(k)]
            head == <<<<in.name, "Server">>, <<in.name, "Client">>>>
            ends == {<<name(k), t>> : k \in 1..n, t \in {"Request", "Response"}}
            S == ends \cup {<<in.name, "Server">>, <<in.name, "Client">>}
            F == FlattenSeq(s)
<1>1. n \in Nat /\ DOMAIN in.methods = 1..n /\ DOMAIN s = 1..n
    OBVIOUS
<1>2. \A j, k \in 1..n : name(j) = name(k) => j = k
    BY <1>1 DEF IsInjective
<1>3. head \in Seq(S) /\ DOMAIN head = 1..2
      /\ head[1] = <<in.name, "Server">> /\ head[2] = <<in.name, "Client">>
    OBVIOUS
<1>4. \A k \in 1..n : /\ s[k] = pair(k) /\ Len(pair(k)) = 2
                      /\ pair(k)[1] = <<name(k), "Request">>
                      /\ pair(k)[2] = <<name(k), "Response">>
    BY <1>1
<1>5. s \in Seq(Seq(S))
    <2>1. ASSUME NEW k \in 1..n PROVE pair(k) \in Seq(S)
        <3>1. <<name(k), "Request">> \in S /\ <<name(k), "Response">> \in S
            <4>1. "Request" \in {"Request", "Response"} /\ "Response" \in {"Request", "Response"}
                OBVIOUS
            <4>. HIDE DEF name
            <4>. QED
                BY <4>1
        <3>. HIDE DEF S, name
        <3>2. ASSUME NEW x \in S, NEW y \in S PROVE <<x, y>> \in Seq(S)
            OBVIOUS
        <3>. QED
            BY <3>1, <3>2
    <2>2. s = [k \in 1..n |-> s[k]]
        BY <1>1
    <2>. HIDE DEF S, pair
    <2>3. \A k \in 1..n : s[k] \in Seq(S)
        BY <1>4, <2>1
    <2>. HIDE DEF s, n
    <2>. QED
        BY <1>1, <2>2, <2>3, ListWithin
<1>. HIDE DEF S, ends, head, s, name, n
<1>6. /\ F \in Seq(S) /\ Len(F) = 2 * n
      /\ \A a \in 1..(2 * n) : \E k \in 1..n, b \in 1..2 :
            a = 2 * (k - 1) + b /\ F[a] = s[k][b]
    <2>1. \A k \in DOMAIN s : Len(s[k]) = 2
        <3>. HIDE DEF pair
        <3>. QED
            BY <1>1, <1>4
    <2>2. Len(s) = n
        BY <1>1, <1>5
    <2>3. F \in Seq(S)
        BY <1>5, FlattenType
    <2>4. /\ Len(F) = 2 * Len(s)
          /\ \A a \in 1..(2 * Len(s)) : \E k \in DOMAIN s, b \in 1..2 :
                a = 2 * (k - 1) + b /\ F[a] = s[k][b]
        BY <1>5, <2>1, FlattenPairs
    <2>. HIDE DEF F
    <2>. QED
        BY <1>1, <2>2, <2>3, <2>4
<1>. HIDE DEF F
<1>7. DOMAIN F = 1..(2 * n)
    BY <1>1, <1>6
<1>8. \A a \in DOMAIN F : \E k \in 1..n, b \in 1..2 :
          /\ a = 2 * (k - 1) + b
          /\ F[a] = <<name(k), IF b = 1 THEN "Request" ELSE "Response">>
    <2>1. \A k \in 1..n, b \in 1..2 :
             s[k][b] = <<name(k), IF b = 1 THEN "Request" ELSE "Response">>
        <3>1. \A b \in 1..2 : b = 1 \/ b = 2
            OBVIOUS
        <3>. HIDE DEF pair
        <3>. QED
            BY <1>4, <3>1
    <2>2. ASSUME NEW a \in DOMAIN F
          PROVE  \E k \in 1..n, b \in 1..2 :
                    /\ a = 2 * (k - 1) + b
                    /\ F[a] = <<name(k), IF b = 1 THEN "Request" ELSE "Response">>
        <3>1. PICK k \in 1..n, b \in 1..2 : a = 2 * (k - 1) + b /\ F[a] = s[k][b]
            BY <1>6, <1>7
        <3>2. F[a] = <<name(k), IF b = 1 THEN "Request" ELSE "Response">>
            BY <2>1, <3>1
        <3>. QED
            BY <3>1, <3>2
    <2>. QED
        BY <2>2
<1>9. IsInjective(F)
    <2>1. ASSUME NEW a \in DOMAIN F, NEW c \in DOMAIN F, F[a] = F[c] PROVE a = c
        <3>1. PICK k \in 1..n, b \in 1..2 :
                 /\ a = 2 * (k - 1) + b
                 /\ F[a] = <<name(k), IF b = 1 THEN "Request" ELSE "Response">>
            BY <1>8
        <3>2. PICK l \in 1..n, d \in 1..2 :
                 /\ c = 2 * (l - 1) + d
                 /\ F[c] = <<name(l), IF d = 1 THEN "Request" ELSE "Response">>
            BY <1>8
        <3>3. name(k) = name(l)
            BY <2>1, <3>1, <3>2
        <3>4. (IF b = 1 THEN "Request" ELSE "Response")
                = (IF d = 1 THEN "Request" ELSE "Response")
            BY <2>1, <3>1, <3>2
        <3>5. k = l /\ b = d
            BY <1>2, <3>3, <3>4
        <3>. QED
            BY <3>1, <3>2, <3>5
    <2>. QED
        BY <2>1 DEF IsInjective
<1>10. IsInjective(head)
    <2>1. head[1] # head[2]
        BY <1>3
    <2>. QED
        BY <1>3, <2>1 DEF IsInjective
<1>11. \A j \in DOMAIN head : \A a \in DOMAIN F : head[j] # F[a]
    <2>1. ASSUME NEW j \in DOMAIN head, NEW a \in DOMAIN F PROVE head[j] # F[a]
        <3>1. head[j][2] \in {"Server", "Client"}
            BY <1>3
        <3>2. F[a][2] \in {"Request", "Response"}
            BY <1>8
        <3>. QED
            BY <3>1, <3>2
    <2>. QED
        BY <2>1
<1>12. IsInjective(head \o F)
    BY <1>3, <1>6, <1>9, <1>10, <1>11, ConcatInjective
<1>. QED
    BY <1>12 DEF TopLevel, head, F, s, name

\* A method the client gets is one of the adapter's, and supported.
LEMMA MethodsKept ==
    ASSUME DivideInv, pc = "done", NEW i \in DOMAIN model
    PROVE  /\ \A m \in Range(model[i].all) : m \in CheckedMethod
           /\ \A m \in Range(model[i].all) : ~m.unsupported => m \in Range(model[i].methods)
           /\ \A m \in Range(model[i].methods) : m \in KeptMethod
<1>. DEFINE ms == ifaces[i].methods
            all == model[i].all
<1>1. ifaces \in Seq(ReadInterface) /\ i \in DOMAIN ifaces
    BY DEF DivideInv, ReadOK, ModelOK
<1>2. ms \in Seq(ReadMethod)
    <2>1. ifaces[i] \in ReadInterface
        BY <1>1
    <2>. QED
        BY <2>1 DEF ReadInterface
<1>3. all = ms /\ model[i].methods = Picked(ms, Kept(i))
    <2>1. WholeAt(i) /\ DividedAt(i)
        BY DEF DivideInv
    <2>2. Len(all) = Len(ms)
        BY <2>1 DEF WholeAt
    <2>3. SubSeq(ms, 1, Len(all)) = ms
        BY <1>2, <2>2
    <2>. QED
        BY <2>1, <2>2, <2>3 DEF DividedAt
<1>4. \A k \in DOMAIN ms : ms[k] \in CheckedMethod
    <2>1. \A k \in DOMAIN ms :
             ms[k].unsupported = unsupportedReason(ms[k].params, ms[k].results)
        BY <1>1 DEF DivideInv, ReadOK
    <2>2. \A k \in DOMAIN ms : ms[k] \in ReadMethod
        BY <1>2
    <2>. QED
        BY <2>1, <2>2 DEF CheckedMethod
<1>5. Kept(i) = {k \in DOMAIN ms : ~ms[k].unsupported}
    BY DEF Kept
<1>. HIDE DEF ms, all
<1>6. \A m \in Range(all) : m \in CheckedMethod
    BY <1>3, <1>4 DEF Range
<1>7. ASSUME NEW m \in Range(all), ~m.unsupported
      PROVE  m \in Range(model[i].methods)
    <2>1. PICK k \in DOMAIN ms : m = ms[k]
        BY <1>3 DEF Range
    <2>2. k \in Kept(i)
        BY <1>5, <1>7, <2>1
    <2>3. \E j \in DOMAIN Picked(ms, Kept(i)) : Picked(ms, Kept(i))[j] = ms[k]
        BY <1>2, <2>2, PickedHas
    <2>. QED
        BY <1>3, <2>1, <2>3 DEF Range
<1>8. model[i].methods \in Seq(KeptMethod)
    <2>1. \A k \in DOMAIN ms : k \in Kept(i) => ms[k] \in KeptMethod
        BY <1>4, <1>5 DEF KeptMethod
    <2>. QED
        BY <1>2, <1>3, <2>1, PickedWithin
<1>9. \A m \in Range(model[i].methods) : m \in KeptMethod
    BY <1>8 DEF Range
<1>. QED
    BY <1>6, <1>7, <1>9 DEF all

\* The client's methods of the interface have exported names of their own.
LEMMA ModelNames ==
    ASSUME DivideInv, ParsedAsWritten, ExportedDistinct, pc = "done",
           NEW i \in DOMAIN model
    PROVE  IsInjective([k \in DOMAIN model[i].methods |-> Pascal[model[i].methods[k].name]])
<1>. DEFINE ms == ifaces[i].methods
            ws == Found[i].methods
<1>1. /\ ifaces \in Seq(ReadInterface) /\ model \in Seq(ModelInterface)
      /\ schema \in Schemas /\ Len(model) = Len(ifaces)
    BY DEF DivideInv, ReadOK, ModelOK, Current
<1>2. Found \in Seq(InterfaceDecl) /\ Len(ifaces) = Len(Found)
    BY <1>1, FoundType DEF ParsedAsWritten
<1>3. i \in DOMAIN ifaces /\ i \in DOMAIN Found
    BY <1>1, <1>2
<1>4. ms \in Seq(ReadMethod)
    <2>1. ifaces[i] \in ReadInterface
        BY <1>1, <1>3
    <2>. QED
        BY <2>1 DEF ReadInterface
<1>5. DOMAIN ms = DOMAIN ws /\ \A k \in DOMAIN ms : ms[k].name = ws[k].name
    BY <1>3 DEF ParsedAsWritten
<1>6. IsInjective([k \in DOMAIN ws |-> Pascal[ws[k].name]])
    BY <1>3 DEF ExportedDistinct
<1>7. model[i].methods = Picked(ms, Kept(i))
    <2>1. WholeAt(i) /\ DividedAt(i)
        BY DEF DivideInv
    <2>2. SubSeq(ms, 1, Len(model[i].all)) = ms
        BY <1>4, <2>1 DEF WholeAt
    <2>. QED
        BY <2>1, <2>2 DEF DividedAt
<1>. HIDE DEF ms, ws
<1>8. [k \in DOMAIN ms |-> Pascal[ms[k].name]] = [k \in DOMAIN ws |-> Pascal[ws[k].name]]
    BY <1>5
<1>9. IsInjective([k \in DOMAIN ms |-> Pascal[ms[k].name]])
    BY <1>6, <1>8
<1>. QED
    BY <1>4, <1>7, <1>9, ClientNames

\* The invariant implies that the code compiles.
LEMMA InvCompiles ==
    DivideInv /\ ParsedAsWritten /\ ExportedDistinct => CompilesIfNonEmpty
<1>. SUFFICES ASSUME DivideInv, ParsedAsWritten, ExportedDistinct, pc = "done",
                     Len(model) = 1, Wrappable,
                     \A m \in Range(model[1].methods) : m.params # <<>> /\ m.results # <<>>
              PROVE  Compiles
    BY DEF CompilesIfNonEmpty
<1>. DEFINE in == model[1]
<1>1. model \in Seq(ModelInterface)
    BY DEF DivideInv, ModelOK
<1>2. DOMAIN model = 1..1 /\ 1 \in DOMAIN model /\ Range(model) = {in}
    BY <1>1 DEF Range
<1>3. in.methods \in Seq(ReadMethod)
    <2>1. in \in ModelInterface
        BY <1>1, <1>2
    <2>. QED
        BY <2>1 DEF ModelInterface
<1>4. IsInjective([k \in DOMAIN in.methods |-> Pascal[in.methods[k].name]])
    BY <1>2, ModelNames
<1>5. IsInjective(FlattenSeq([i \in DOMAIN model |-> TopLevel(model[i])]))
    <2>. DEFINE s == [i \in DOMAIN model |-> TopLevel(model[i])]
    <2>1. Len(s) = 1 /\ s[1] = TopLevel(in)
        BY <1>2
    <2>2. FlattenSeq(s) = s[1]
        <3>. HIDE DEF s
        <3>. QED
            BY <2>1, FlattenOne
    <2>. QED
        BY <1>3, <1>4, <2>1, <2>2, TopLevelDistinct
<1>6. IsInjective(ClientMethods(in))
    <2>1. \A m \in Range(in.methods) : Pascal[m.name] # "Close"
        BY <1>2 DEF Wrappable
    <2>. QED
        BY <1>3, <1>4, <2>1, ClientDistinct
<1>7. /\ \A m \in Range(in.all) : m \in CheckedMethod
      /\ \A m \in Range(in.all) : ~m.unsupported => m \in Range(in.methods)
      /\ \A m \in Range(in.methods) : m \in KeptMethod
    BY <1>2, MethodsKept
<1>8. ASSUME NEW m \in Range(in.all)
      PROVE  AllUsed(AdapterBody(m)) /\ AllBound(AdapterBody(m), m)
    <2>1. CASE m.unsupported
        <3>1. AdapterBody(m) = <<>> /\ Range(<<>>) = {}
            BY <2>1 DEF AdapterBody, Range
        <3>. QED
            BY <3>1 DEF AllUsed, AllBound
    <2>2. CASE ~m.unsupported
        <3>1. m \in KeptMethod /\ m.params # <<>> /\ m.results # <<>>
            BY <1>7, <2>2
        <3>. QED
            BY <3>1, HandlerOK
    <2>3. m \in CheckedMethod
        BY <1>7
    <2>. QED
        BY <2>1, <2>2
<1>9. ASSUME NEW m \in Range(in.methods)
      PROVE  AllUsed(ClientBody(m)) /\ AllBound(ClientBody(m), m)
    <2>1. m \in KeptMethod /\ m.results # <<>>
        BY <1>7
    <2>. QED
        BY <2>1, CallerOK
<1>. HIDE DEF in
<1>. QED
    BY <1>2, <1>5, <1>6, <1>8, <1>9 DEF Compiles

-----------------------------------------------------------------------------
(* Texts without comments.                                                   *)

\* The steps of a scan for comments, and what it carries outside of them.
StripSteps == {x \in StripStates \X Token \X StripStates : x[3] = Eat(x[1], x[2])}
Outside(left) == [inside |-> FALSE, left |-> left]
Within(left)  == [inside |-> TRUE, left |-> left]

\* <<t, d>> is one if d is left of t, wherever t stands outside comments.
Cleanings ==
    {p \in Seq(Token) \X Seq(Token) :
        \A left \in Seq(Token) :
            Runs(StripSteps, p[1], Outside(left), Outside(left \o p[2]))}

\* What one word does.
LEMMA EatStep ==
    ASSUME NEW left \in Seq(Token), NEW w \in Token
    PROVE  /\ w = "nl" => /\ <<Outside(left), w, Outside(left)>> \in StripSteps
                          /\ <<Within(left), w, Outside(left)>> \in StripSteps
           /\ w = "#" => <<Outside(left), w, Within(left)>> \in StripSteps
           /\ w \notin {"nl", "#"} =>
                 /\ <<Outside(left), w, Outside(left \o <<w>>)>> \in StripSteps
                 /\ <<Within(left), w, Within(left)>> \in StripSteps
<1>1. Append(left, w) = left \o <<w>> /\ left \o <<w>> \in Seq(Token)
    <2>1. <<w>> \in Seq(Token) /\ Append(left, w) \in Seq(Token)
        OBVIOUS
    <2>. QED
        BY <2>1, AppendIsConcat
<1>2. \A l \in Seq(Token) : Outside(l) \in StripStates /\ Within(l) \in StripStates
    BY DEF Outside, Within, StripStates
<1>3. w = "nl" => Eat(Outside(left), w) = Outside(left) /\ Eat(Within(left), w) = Outside(left)
    BY DEF Eat, Outside, Within
<1>4. w = "#" => Eat(Outside(left), w) = Within(left)
    BY DEF Eat, Outside, Within
<1>5. w \notin {"nl", "#"} => /\ Eat(Outside(left), w) = Outside(Append(left, w))
                              /\ Eat(Within(left), w) = Within(left)
    BY DEF Eat, Outside, Within
<1>6. \A a, b \in StripStates : Eat(a, w) = b => <<a, w, b>> \in StripSteps
    BY DEF StripSteps
<1>. QED
    BY <1>1, <1>2, <1>3, <1>4, <1>5, <1>6

\* Nothing is left of nothing or of a line's end, and a word of a word.
LEMMA CleanShort ==
    /\ <<<<>>, <<>>>> \in Cleanings
    /\ <<<<"nl">>, <<>>>> \in Cleanings
    /\ \A w \in Token : w \notin {"nl", "#"} => <<<<w>>, <<w>>>> \in Cleanings
<1>0. <<>> \in Seq(Token) /\ "nl" \in Token /\ \A w \in Token : <<w>> \in Seq(Token)
    <2>1. "nl" \in Token
        BY DEF Token
    <2>. QED
        BY <2>1, ShortText
<1>1. <<<<>>, <<>>>> \in Cleanings
    <2>1. \A left \in Seq(Token) : Runs(StripSteps, <<>>, Outside(left), Outside(left \o <<>>))
        BY RunsNone, ConcatEmptySeq
    <2>. QED
        BY <1>0, <2>1 DEF Cleanings
<1>2. <<<<"nl">>, <<>>>> \in Cleanings
    <2>1. ASSUME NEW left \in Seq(Token)
          PROVE  Runs(StripSteps, <<"nl">>, Outside(left), Outside(left \o <<>>))
        <3>1. <<Outside(left), "nl", Outside(left)>> \in StripSteps
            BY <1>0, EatStep
        <3>2. left \o <<>> = left
            BY ConcatEmptySeq
        <3>. QED
            BY <3>1, <3>2, RunsWord
    <2>. QED
        BY <1>0, <2>1 DEF Cleanings
<1>3. ASSUME NEW w \in Token, w \notin {"nl", "#"} PROVE <<<<w>>, <<w>>>> \in Cleanings
    <2>1. ASSUME NEW left \in Seq(Token)
          PROVE  Runs(StripSteps, <<w>>, Outside(left), Outside(left \o <<w>>))
        BY <1>3, EatStep, RunsWord
    <2>. QED
        BY <1>0, <2>1 DEF Cleanings
<1>. QED
    BY <1>1, <1>2, <1>3

\* Three texts can be put together from either end.
LEMMA TextsAssociative == \A s, t, u \in Seq(Token) : (s \o t) \o u = s \o (t \o u)
BY Associative

\* Of two texts, what is left of each.
LEMMA CleanConcat ==
    ASSUME NEW a \in Seq(Token), NEW b \in Seq(Token), NEW c \in Seq(Token),
           NEW d \in Seq(Token), <<a, c>> \in Cleanings, <<b, d>> \in Cleanings
    PROVE  <<a \o b, c \o d>> \in Cleanings
<1>1. a \o b \in Seq(Token) /\ c \o d \in Seq(Token)
    BY TextAfter
<1>2. ASSUME NEW left \in Seq(Token)
      PROVE  Runs(StripSteps, a \o b, Outside(left), Outside(left \o (c \o d)))
    <2>1. Runs(StripSteps, a, Outside(left), Outside(left \o c))
        BY DEF Cleanings
    <2>2. left \o c \in Seq(Token) /\ (left \o c) \o d = left \o (c \o d)
        <3>1. left \o c \in Seq(Token)
            BY TextAfter
        <3>2. (left \o c) \o d = left \o (c \o d)
            BY TextsAssociative, Zenon
        <3>. QED
            BY <3>1, <3>2
    <2>3. Runs(StripSteps, b, Outside(left \o c), Outside((left \o c) \o d))
        BY <2>2 DEF Cleanings
    <2>. QED
        BY <2>1, <2>2, <2>3, RunsConcat
<1>. QED
    BY <1>1, <1>2 DEF Cleanings

\* A text without line ends and comments is left as it is.
LEMMA CleanText ==
    ASSUME NEW t \in Seq(Token), \A k \in DOMAIN t : t[k] \notin {"nl", "#"}
    PROVE  <<t, t>> \in Cleanings
<1>. DEFINE P == {s \in Seq(Token) : <<s, s>> \in Cleanings}
<1>1. <<>> \in P
    BY CleanShort
<1>2. ASSUME NEW k \in DOMAIN t PROVE <<t[k]>> \in P
    <2>1. t[k] \in Token
        OBVIOUS
    <2>. QED
        BY <2>1, CleanShort
<1>3. \A a, b \in Seq(Token) : a \in P /\ b \in P => a \o b \in P
    BY CleanConcat, TextAfter
<1>. HIDE DEF P
<1>4. t \in P
    BY <1>1, <1>2, <1>3, TextWithin
<1>. QED
    BY <1>4 DEF P

\* The comment above a method is not, punctuation included.
Remark == <<"#", "(", ";", "interface", "a", "{", "nl">>

\* Nothing is left of it.
LEMMA CleanRemark == <<Remark, <<>>>> \in Cleanings
<1>1. Remark \in Seq(Token) /\ <<>> \in Seq(Token)
    BY DEF Token, Remark
<1>2. ASSUME NEW left \in Seq(Token)
      PROVE  Runs(StripSteps, Remark, Outside(left), Outside(left \o <<>>))
    <2>. DEFINE c == [k \in 0..7 |-> IF k = 0 \/ k = 7 THEN Outside(left) ELSE Within(left)]
    <2>1. left \o <<>> = left
        BY ConcatEmptySeq
    <2>2. Len(Remark) = 7
        BY DEF Remark
    <2>3. /\ Remark[1] = "#" /\ Remark[7] = "nl"
          /\ \A k \in 2..6 : Remark[k] \notin {"nl", "#"}
        BY DEF Remark
    <2>4. \A k \in 1..7 : Remark[k] \in Token
        BY <1>1, <2>2, WordsOf
    <2>5. c[0] = Outside(left) /\ c[7] = Outside(left) /\ c[1] = Within(left)
          /\ c[6] = Within(left) /\ \A k \in 1..6 : c[k] = Within(left)
        OBVIOUS
    <2>. HIDE DEF c
    <2>6. \A k \in 0..6 : <<c[k], Remark[k + 1], c[k + 1]>> \in StripSteps
        <3>1. <<c[0], Remark[1], c[1]>> \in StripSteps
            <4>1. Remark[1] \in Token
                BY <2>4
            <4>. QED
                BY <2>3, <2>5, <4>1, EatStep
        <3>2. <<c[6], Remark[7], c[7]>> \in StripSteps
            <4>1. Remark[7] \in Token
                BY <2>4
            <4>. QED
                BY <2>3, <2>5, <4>1, EatStep
        <3>3. ASSUME NEW k \in 1..5 PROVE <<c[k], Remark[k + 1], c[k + 1]>> \in StripSteps
            <4>1. k \in 1..6 /\ k + 1 \in 1..6 /\ k + 1 \in 2..6 /\ k + 1 \in 1..7
                OBVIOUS
            <4>2. c[k] = Within(left) /\ c[k + 1] = Within(left)
                BY <2>5, <4>1
            <4>3. Remark[k + 1] \in Token /\ Remark[k + 1] \notin {"nl", "#"}
                BY <2>3, <2>4, <4>1
            <4>. QED
                BY <4>2, <4>3, EatStep
        <3>4. \A k \in 0..6 : k = 0 \/ k = 6 \/ k \in 1..5
            OBVIOUS
        <3>5. 0 + 1 = 1 /\ 6 + 1 = 7
            OBVIOUS
        <3>. QED
            BY <3>1, <3>2, <3>3, <3>4, <3>5
    <2>7. 0..(Len(Remark) - 1) = 0..6
        BY <2>2
    <2>. QED
        BY <2>1, <2>2, <2>5, <2>6, <2>7 DEF Runs
<1>. QED
    BY <1>1, <1>2 DEF Cleanings

\* stripComments leaves what is left.
LEMMA StripCleaned ==
    ASSUME NEW t \in Seq(Token), NEW d \in Seq(Token), <<t, d>> \in Cleanings
    PROVE  stripComments(t) = d
<1>1. PICK c : Strips(c, t) /\ stripComments(t) = c[Len(t)].left
    BY StripExists
<1>2. <<>> \in Seq(Token) /\ <<>> \o d = d /\ Unread = Outside(<<>>)
    BY ConcatEmptySeq DEF Unread, Outside
<1>3. Runs(StripSteps, t, Outside(<<>>), Outside(<<>> \o d))
    BY <1>2 DEF Cleanings
<1>4. PICK e : /\ e[0] = Unread /\ e[Len(t)] = Outside(d)
               /\ \A k \in 0..(Len(t) - 1) : <<e[k], t[k + 1], e[k + 1]>> \in StripSteps
    BY <1>2, <1>3 DEF Runs
<1>5. c[Len(t)] = e[Len(t)]
    <2>. DEFINE Done == {k \in Nat : k <= Len(t) => c[k] = e[k]}
    <2>1. 0 \in Done
        BY <1>1, <1>4 DEF Strips
    <2>2. ASSUME NEW k \in Nat, k \in Done PROVE k + 1 \in Done
        <3>1. SUFFICES ASSUME k + 1 <= Len(t) PROVE c[k + 1] = e[k + 1]
            OBVIOUS
        <3>2. k \in 0..(Len(t) - 1) /\ c[k] = e[k]
            BY <2>2, <3>1
        <3>3. c[k + 1] = Eat(c[k], t[k + 1])
            BY <1>1, <3>2 DEF Strips
        <3>4. e[k + 1] = Eat(e[k], t[k + 1])
            BY <1>4, <3>2 DEF StripSteps
        <3>. QED
            BY <3>2, <3>3, <3>4
    <2>. HIDE DEF Done
    <2>3. Len(t) \in Nat /\ Len(t) <= Len(t)
        OBVIOUS
    <2>4. Len(t) \in Done
        BY <2>1, <2>2, <2>3, SetInduction
    <2>. QED
        BY <2>3, <2>4 DEF Done
<1>. QED
    BY <1>1, <1>4, <1>5 DEF Outside

-----------------------------------------------------------------------------
(* Texts that are not cut, and texts that are.                               *)

\* The steps of a cut at sep, and what it carries.
CutSteps(sep) ==
    {x \in CutStates \X Token \X CutStates : x[3] = CutAtTopLevel(x[1], x[2], sep)}
AtDepth(d, ps, q) == [depth |-> d, parts |-> ps, part |-> q]

\* The texts that are not cut where at least e parentheses are open.
Keeping(sep, e) ==
    {t \in Seq(Token) :
        \A d \in Nat, ps \in Seq(Seq(Token)), q \in Seq(Token) : d >= e =>
            Runs(CutSteps(sep), t, AtDepth(d, ps, q), AtDepth(d, ps, q \o t))}

\* What one word does.
LEMMA CutStep ==
    ASSUME NEW d \in Int, NEW ps \in Seq(Seq(Token)), NEW q \in Seq(Token),
           NEW w \in Token, NEW sep
    PROVE  LET now == AtDepth(d, ps, q) IN
           /\ w = sep /\ d = 0 =>
                 <<now, w, AtDepth(0, Append(ps, q), <<>>)>> \in CutSteps(sep)
           /\ ~(w = sep /\ d = 0) /\ w = "(" =>
                 <<now, w, AtDepth(d + 1, ps, q \o <<w>>)>> \in CutSteps(sep)
           /\ ~(w = sep /\ d = 0) /\ w = ")" =>
                 <<now, w, AtDepth(d - 1, ps, q \o <<w>>)>> \in CutSteps(sep)
           /\ ~(w = sep /\ d = 0) /\ w \notin {"(", ")"} =>
                 <<now, w, AtDepth(d, ps, q \o <<w>>)>> \in CutSteps(sep)
<1>. DEFINE now == AtDepth(d, ps, q)
            r == q \o <<w>>
<1>1. /\ Append(q, w) = r /\ r \in Seq(Token) /\ Append(ps, q) \in Seq(Seq(Token))
      /\ <<>> \in Seq(Token) /\ d + 1 \in Int /\ d - 1 \in Int /\ 0 \in Int
    <2>1. <<w>> \in Seq(Token) /\ Append(q, w) \in Seq(Token)
        OBVIOUS
    <2>. QED
        BY <2>1, AppendIsConcat
<1>2. \A e \in Int, p \in Seq(Seq(Token)), t \in Seq(Token) : AtDepth(e, p, t) \in CutStates
    BY DEF AtDepth, CutStates
<1>3. ASSUME NEW b \in CutStates, b = CutAtTopLevel(now, w, sep)
      PROVE  <<now, w, b>> \in CutSteps(sep)
    <2>1. now \in CutStates
        BY <1>2
    <2>. QED
        BY <1>3, <2>1 DEF CutSteps
<1>4. w = sep /\ d = 0 => CutAtTopLevel(now, w, sep) = AtDepth(0, Append(ps, q), <<>>)
    BY DEF CutAtTopLevel, AtDepth
<1>5. ASSUME ~(w = sep /\ d = 0)
      PROVE  /\ w = "(" => CutAtTopLevel(now, w, sep) = AtDepth(d + 1, ps, Append(q, w))
             /\ w = ")" => CutAtTopLevel(now, w, sep) = AtDepth(d - 1, ps, Append(q, w))
             /\ w \notin {"(", ")"} =>
                   CutAtTopLevel(now, w, sep) = AtDepth(d, ps, Append(q, w))
    <2>1. CutAtTopLevel(now, w, sep)
            = [now EXCEPT !.part = Append(@, w),
                          !.depth = @ + (CASE w = "(" -> 1 [] w = ")" -> -1 [] OTHER -> 0)]
        BY <1>5 DEF CutAtTopLevel, AtDepth
    <2>2. now = [depth |-> d, parts |-> ps, part |-> q]
        BY DEF AtDepth
    <2>3. \A e : [now EXCEPT !.part = Append(@, w), !.depth = @ + e]
                    = AtDepth(d + e, ps, Append(q, w))
        <3>1. now.part = q /\ now.depth = d
            BY <2>2
        <3>2. \A x, f : [now EXCEPT !.part = x, !.depth = f] = AtDepth(f, ps, x)
            <4>. SUFFICES ASSUME NEW x, NEW f
                          PROVE  [now EXCEPT !.part = x, !.depth = f] = AtDepth(f, ps, x)
                OBVIOUS
            <4>1. [now EXCEPT !.part = x] = [depth |-> d, parts |-> ps, part |-> x]
                BY DEF AtDepth
            <4>2. [[depth |-> d, parts |-> ps, part |-> x] EXCEPT !.depth = f]
                    = [depth |-> f, parts |-> ps, part |-> x]
                OBVIOUS
            <4>. QED
                BY <4>1, <4>2 DEF AtDepth
        <3>3. ASSUME NEW e
              PROVE  [now EXCEPT !.part = Append(@, w), !.depth = @ + e]
                       = [now EXCEPT !.part = Append(q, w), !.depth = d + e]
            BY <3>1
        <3>. HIDE DEF now
        <3>. QED
            BY <3>2, <3>3
    <2>4. d + (-1) = d - 1 /\ d + 0 = d
        OBVIOUS
    <2>. HIDE DEF now
    <2>5. CASE w = "("
        BY <2>1, <2>3, <2>5
    <2>6. CASE w = ")"
        BY <2>1, <2>3, <2>4, <2>6
    <2>7. CASE w \notin {"(", ")"}
        BY <2>1, <2>3, <2>4, <2>7
    <2>. QED
        BY <2>5, <2>6, <2>7
<1>. HIDE DEF now, r
<1>6. CASE w = sep /\ d = 0
    <2>1. AtDepth(0, Append(ps, q), <<>>) \in CutStates
        BY <1>1, <1>2
    <2>2. <<now, w, AtDepth(0, Append(ps, q), <<>>)>> \in CutSteps(sep)
        BY <1>3, <1>4, <1>6, <2>1
    <2>. QED
        BY <1>6, <2>2 DEF now
<1>7. CASE ~(w = sep /\ d = 0)
    <2>1. \A e \in Int : AtDepth(e, ps, r) \in CutStates
        BY <1>1, <1>2
    <2>2. /\ w = "(" => <<now, w, AtDepth(d + 1, ps, r)>> \in CutSteps(sep)
          /\ w = ")" => <<now, w, AtDepth(d - 1, ps, r)>> \in CutSteps(sep)
          /\ w \notin {"(", ")"} => <<now, w, AtDepth(d, ps, r)>> \in CutSteps(sep)
        BY <1>1, <1>3, <1>5, <1>7, <2>1
    <2>. QED
        BY <1>7, <2>2 DEF now, r
<1>. QED
    BY <1>6, <1>7

\* Nothing is not cut, and no word that is neither a parenthesis nor the separator.
LEMMA KeepShort ==
    ASSUME NEW sep, NEW e \in Nat
    PROVE  /\ <<>> \in Keeping(sep, e)
           /\ \A w \in Token : w \notin {"(", ")"} /\ (w # sep \/ e > 0)
                 => <<w>> \in Keeping(sep, e)
<1>1. \A w \in Token : <<w>> \in Seq(Token)
    BY ShortText
<1>2. <<>> \in Keeping(sep, e)
    <2>1. <<>> \in Seq(Token)
        BY ShortText
    <2>2. \A d \in Nat, ps \in Seq(Seq(Token)), q \in Seq(Token) :
             Runs(CutSteps(sep), <<>>, AtDepth(d, ps, q), AtDepth(d, ps, q \o <<>>))
        BY RunsNone, ConcatEmptySeq
    <2>. QED
        BY <2>1, <2>2 DEF Keeping
<1>3. ASSUME NEW w \in Token, w \notin {"(", ")"}, w # sep \/ e > 0
      PROVE  <<w>> \in Keeping(sep, e)
    <2>1. ASSUME NEW d \in Nat, NEW ps \in Seq(Seq(Token)), NEW q \in Seq(Token), d >= e
          PROVE  Runs(CutSteps(sep), <<w>>, AtDepth(d, ps, q), AtDepth(d, ps, q \o <<w>>))
        <3>1. ~(w = sep /\ d = 0) /\ d \in Int
            BY <1>3, <2>1
        <3>2. <<AtDepth(d, ps, q), w, AtDepth(d, ps, q \o <<w>>)>> \in CutSteps(sep)
            BY <1>3, <3>1, CutStep
        <3>. QED
            BY <3>2, RunsWord
    <2>. QED
        BY <1>1, <2>1 DEF Keeping
<1>. QED
    BY <1>2, <1>3

\* Two that are not cut are not when put together.
LEMMA KeepConcat ==
    ASSUME NEW sep, NEW e \in Nat, NEW s \in Keeping(sep, e), NEW t \in Keeping(sep, e)
    PROVE  s \o t \in Keeping(sep, e)
<1>1. s \in Seq(Token) /\ t \in Seq(Token)
    BY DEF Keeping
<1>2. s \o t \in Seq(Token)
    BY <1>1, TextAfter
<1>3. ASSUME NEW d \in Nat, NEW ps \in Seq(Seq(Token)), NEW q \in Seq(Token), d >= e
      PROVE  Runs(CutSteps(sep), s \o t, AtDepth(d, ps, q), AtDepth(d, ps, q \o (s \o t)))
    <2>1. Runs(CutSteps(sep), s, AtDepth(d, ps, q), AtDepth(d, ps, q \o s))
        BY <1>3 DEF Keeping
    <2>2. q \o s \in Seq(Token)
        BY <1>1, TextAfter
    <2>3. (q \o s) \o t = q \o (s \o t)
        BY <1>1, TextsAssociative, Zenon
    <2>4. Runs(CutSteps(sep), t, AtDepth(d, ps, q \o s), AtDepth(d, ps, (q \o s) \o t))
        BY <1>3, <2>2 DEF Keeping
    <2>. QED
        BY <1>1, <2>1, <2>3, <2>4, RunsConcat
<1>. QED
    BY <1>2, <1>3 DEF Keeping

\* Nor is a text of such words.
LEMMA KeepText ==
    ASSUME NEW sep, NEW e \in Nat, NEW t \in Seq(Token),
           \A k \in DOMAIN t : t[k] \notin {"(", ")"} /\ (t[k] # sep \/ e > 0)
    PROVE  t \in Keeping(sep, e)
<1>1. <<>> \in Keeping(sep, e)
    BY KeepShort
<1>2. ASSUME NEW k \in DOMAIN t PROVE <<t[k]>> \in Keeping(sep, e)
    <2>1. t[k] \in Token
        OBVIOUS
    <2>. QED
        BY <2>1, KeepShort
<1>3. \A a, b \in Seq(Token) : a \in Keeping(sep, e) /\ b \in Keeping(sep, e)
                                 => a \o b \in Keeping(sep, e)
    BY KeepConcat
<1>. QED
    BY <1>1, <1>2, <1>3, TextWithin

\* What is not cut inside a parenthesis is not when it stands between two.
LEMMA KeepGroup ==
    ASSUME NEW sep, sep \notin {"(", ")"}, NEW t \in Keeping(sep, 1)
    PROVE  <<"(">> \o t \o <<")">> \in Keeping(sep, 0)
<1>1. t \in Seq(Token) /\ "(" \in Token /\ ")" \in Token
    BY DEF Keeping, Token
<1>2. <<"(">> \in Seq(Token) /\ <<")">> \in Seq(Token)
    BY <1>1, ShortText
<1>3. <<"(">> \o t \in Seq(Token)
    BY <1>1, <1>2, TextAfter
<1>4. <<"(">> \o t \o <<")">> \in Seq(Token)
    BY <1>2, <1>3, TextAfter
<1>5. ASSUME NEW d \in Nat, NEW ps \in Seq(Seq(Token)), NEW q \in Seq(Token)
      PROVE  Runs(CutSteps(sep), <<"(">> \o t \o <<")">>, AtDepth(d, ps, q),
                  AtDepth(d, ps, q \o (<<"(">> \o t \o <<")">>)))
    <2>. DEFINE q1 == q \o <<"(">>
                q2 == q1 \o t
                q3 == q2 \o <<")">>
    <2>1. q1 \in Seq(Token)
        BY <1>2, TextAfter
    <2>2. q2 \in Seq(Token)
        BY <1>1, <2>1, TextAfter
    <2>3. q3 = q \o (<<"(">> \o t \o <<")">>)
        <3>1. (q \o <<"(">>) \o t = q \o (<<"(">> \o t)
            BY <1>1, <1>2, TextsAssociative, Zenon
        <3>2. (q \o (<<"(">> \o t)) \o <<")">> = q \o ((<<"(">> \o t) \o <<")">>)
            BY <1>2, <1>3, TextsAssociative, Zenon
        <3>. QED
            BY <3>1, <3>2
    <2>4. Runs(CutSteps(sep), <<"(">>, AtDepth(d, ps, q), AtDepth(d + 1, ps, q1))
        <3>1. ~("(" = sep /\ d = 0) /\ d \in Int
            OBVIOUS
        <3>2. <<AtDepth(d, ps, q), "(", AtDepth(d + 1, ps, q1)>> \in CutSteps(sep)
            BY <1>1, <3>1, CutStep
        <3>. QED
            BY <3>2, RunsWord
    <2>5. Runs(CutSteps(sep), t, AtDepth(d + 1, ps, q1), AtDepth(d + 1, ps, q2))
        <3>1. d + 1 \in Nat /\ d + 1 >= 1
            OBVIOUS
        <3>. QED
            BY <2>1, <3>1 DEF Keeping
    <2>6. Runs(CutSteps(sep), <<")">>, AtDepth(d + 1, ps, q2), AtDepth(d, ps, q3))
        <3>1. ~(")" = sep /\ d + 1 = 0) /\ d + 1 \in Int /\ (d + 1) - 1 = d
            OBVIOUS
        <3>2. <<AtDepth(d + 1, ps, q2), ")", AtDepth((d + 1) - 1, ps, q3)>> \in CutSteps(sep)
            BY <1>1, <2>2, <3>1, CutStep
        <3>. QED
            BY <3>1, <3>2, RunsWord
    <2>. HIDE DEF q1, q2, q3
    <2>7. Runs(CutSteps(sep), <<"(">> \o t, AtDepth(d, ps, q), AtDepth(d + 1, ps, q2))
        BY <1>1, <1>2, <2>4, <2>5, RunsConcat
    <2>8. Runs(CutSteps(sep), <<"(">> \o t \o <<")">>, AtDepth(d, ps, q), AtDepth(d, ps, q3))
        BY <1>2, <1>3, <2>6, <2>7, RunsConcat
    <2>. QED
        BY <2>3, <2>8
<1>. QED
    BY <1>4, <1>5 DEF Keeping

\* <<t, ps>> is one if t, where nothing is open and nothing begun, is cut into ps.
Cutting(sep) ==
    {p \in Seq(Token) \X Seq(Seq(Token)) :
        \A ps \in Seq(Seq(Token)) :
            Runs(CutSteps(sep), p[1], AtDepth(0, ps, <<>>), AtDepth(0, ps \o p[2], <<>>))}

\* Nothing is cut into nothing, and before a separator a text that is not cut ends.
LEMMA CutShort ==
    ASSUME NEW sep \in Token
    PROVE  /\ <<<<>>, <<>>>> \in Cutting(sep)
           /\ \A t \in Keeping(sep, 0) : <<t \o <<sep>>, <<t>>>> \in Cutting(sep)
<1>1. <<<<>>, <<>>>> \in Cutting(sep)
    <2>1. <<>> \in Seq(Token) /\ <<>> \in Seq(Seq(Token))
        OBVIOUS
    <2>2. \A ps \in Seq(Seq(Token)) :
             Runs(CutSteps(sep), <<>>, AtDepth(0, ps, <<>>), AtDepth(0, ps \o <<>>, <<>>))
        BY RunsNone, ConcatEmptySeq
    <2>. QED
        BY <2>1, <2>2 DEF Cutting
<1>2. ASSUME NEW t \in Keeping(sep, 0) PROVE <<t \o <<sep>>, <<t>>>> \in Cutting(sep)
    <2>1. t \in Seq(Token)
        BY DEF Keeping
    <2>2. <<sep>> \in Seq(Token) /\ <<t>> \in Seq(Seq(Token)) /\ <<>> \in Seq(Token)
        BY <2>1, ShortText
    <2>3. t \o <<sep>> \in Seq(Token)
        BY <2>1, <2>2, TextAfter
    <2>4. ASSUME NEW ps \in Seq(Seq(Token))
          PROVE  Runs(CutSteps(sep), t \o <<sep>>, AtDepth(0, ps, <<>>),
                      AtDepth(0, ps \o <<t>>, <<>>))
        <3>1. <<>> \o t = t /\ Append(ps, t) = ps \o <<t>>
            BY <2>1, ConcatEmptySeq, AppendIsConcat
        <3>2. 0 \in Nat /\ 0 >= 0 /\ 0 \in Int /\ 0 = 0
            OBVIOUS
        <3>3. Runs(CutSteps(sep), t, AtDepth(0, ps, <<>>), AtDepth(0, ps, <<>> \o t))
            BY <2>2, <3>2 DEF Keeping
        <3>4. <<AtDepth(0, ps, t), sep, AtDepth(0, Append(ps, t), <<>>)>> \in CutSteps(sep)
            BY <2>1, <3>2, CutStep
        <3>5. Runs(CutSteps(sep), <<sep>>, AtDepth(0, ps, t), AtDepth(0, Append(ps, t), <<>>))
            BY <3>4, RunsWord
        <3>. QED
            BY <2>1, <2>2, <3>1, <3>3, <3>5, RunsConcat
    <2>. QED
        BY <2>2, <2>3, <2>4 DEF Cutting
<1>. QED
    BY <1>1, <1>2

\* Three lists of texts can be put together from either end.
LEMMA PartsAssociative ==
    \A s, t, u \in Seq(Seq(Token)) : (s \o t) \o u = s \o (t \o u)
<1>. DEFINE S == Seq(Token)
<1>. HIDE DEF S
<1>1. \A s, t, u \in Seq(S) : (s \o t) \o u = s \o (t \o u)
    BY Associative
<1>. QED
    BY <1>1 DEF S

\* Texts that are cut are cut one after the other.
LEMMA CutConcatenated ==
    ASSUME NEW sep, NEW a \in Seq(Token), NEW b \in Seq(Token),
           NEW c \in Seq(Seq(Token)), NEW d \in Seq(Seq(Token)),
           <<a, c>> \in Cutting(sep), <<b, d>> \in Cutting(sep)
    PROVE  <<a \o b, c \o d>> \in Cutting(sep)
<1>1. a \o b \in Seq(Token) /\ c \o d \in Seq(Seq(Token))
    BY TextAfter
<1>2. ASSUME NEW ps \in Seq(Seq(Token))
      PROVE  Runs(CutSteps(sep), a \o b, AtDepth(0, ps, <<>>),
                  AtDepth(0, ps \o (c \o d), <<>>))
    <2>1. Runs(CutSteps(sep), a, AtDepth(0, ps, <<>>), AtDepth(0, ps \o c, <<>>))
        BY DEF Cutting
    <2>2. ps \o c \in Seq(Seq(Token))
        BY TextAfter
    <2>3. (ps \o c) \o d = ps \o (c \o d)
        BY PartsAssociative, Zenon
    <2>4. Runs(CutSteps(sep), b, AtDepth(0, ps \o c, <<>>), AtDepth(0, (ps \o c) \o d, <<>>))
        BY <2>2 DEF Cutting
    <2>. QED
        BY <2>1, <2>3, <2>4, RunsConcat
<1>. QED
    BY <1>1, <1>2 DEF Cutting

\* splitTopLevel returns the parts that are cut off, and the one that is left.
LEMMA SplitCut ==
    ASSUME NEW sep, NEW t \in Seq(Token), NEW ps \in Seq(Seq(Token)),
           <<t, ps>> \in Cutting(sep), NEW s \in Keeping(sep, 0)
    PROVE  splitTopLevel(t \o s, sep) = Append(ps, s)
<1>. DEFINE r == t \o s
<1>1. s \in Seq(Token) /\ r \in Seq(Token)
    <2>1. s \in Seq(Token)
        BY DEF Keeping
    <2>. QED
        BY <2>1, TextAfter
<1>2. PICK c : Cuts(c, r, sep) /\ splitTopLevel(r, sep) = Append(c[Len(r)].parts, c[Len(r)].part)
    BY <1>1, CutExists
<1>3. Runs(CutSteps(sep), r, Uncut, AtDepth(0, ps, s))
    <2>1. /\ Uncut = AtDepth(0, <<>>, <<>>) /\ <<>> \o ps = ps /\ <<>> \o s = s
          /\ <<>> \in Seq(Seq(Token)) /\ <<>> \in Seq(Token)
        <3>1. <<>> \in Seq(Seq(Token)) /\ <<>> \in Seq(Token) /\ Uncut = AtDepth(0, <<>>, <<>>)
            BY DEF Uncut, AtDepth
        <3>. QED
            BY <1>1, <3>1, ConcatEmptySeq
    <2>2. Runs(CutSteps(sep), t, AtDepth(0, <<>>, <<>>), AtDepth(0, <<>> \o ps, <<>>))
        BY <2>1 DEF Cutting
    <2>3. Runs(CutSteps(sep), s, AtDepth(0, ps, <<>>), AtDepth(0, ps, <<>> \o s))
        <3>1. 0 \in Nat /\ 0 >= 0
            OBVIOUS
        <3>. QED
            BY <2>1, <3>1 DEF Keeping
    <2>. QED
        BY <1>1, <2>1, <2>2, <2>3, RunsConcat
<1>. HIDE DEF r
<1>4. PICK e : /\ e[0] = Uncut /\ e[Len(r)] = AtDepth(0, ps, s)
               /\ \A k \in 0..(Len(r) - 1) : <<e[k], r[k + 1], e[k + 1]>> \in CutSteps(sep)
    BY <1>3 DEF Runs
<1>5. c[Len(r)] = e[Len(r)]
    <2>. DEFINE Done == {k \in Nat : k <= Len(r) => c[k] = e[k]}
    <2>1. 0 \in Done
        BY <1>2, <1>4 DEF Cuts
    <2>2. ASSUME NEW k \in Nat, k \in Done PROVE k + 1 \in Done
        <3>1. SUFFICES ASSUME k + 1 <= Len(r) PROVE c[k + 1] = e[k + 1]
            OBVIOUS
        <3>2. k \in 0..(Len(r) - 1) /\ c[k] = e[k]
            BY <1>1, <2>2, <3>1
        <3>3. c[k + 1] = CutAtTopLevel(c[k], r[k + 1], sep)
            BY <1>2, <3>2 DEF Cuts
        <3>4. e[k + 1] = CutAtTopLevel(e[k], r[k + 1], sep)
            BY <1>4, <3>2 DEF CutSteps
        <3>. QED
            BY <3>2, <3>3, <3>4
    <2>. HIDE DEF Done
    <2>3. Len(r) \in Nat /\ Len(r) <= Len(r)
        BY <1>1
    <2>4. Len(r) \in Done
        BY <2>1, <2>2, <2>3, SetInduction
    <2>. QED
        BY <2>3, <2>4 DEF Done
<1>6. c[Len(r)].parts = ps /\ c[Len(r)].part = s
    BY <1>4, <1>5 DEF AtDepth
<1>. QED
    BY <1>2, <1>6 DEF r

\* Parts that are not empty are all kept, and an empty one behind them is not.
LEMMA NonEmptyParts ==
    ASSUME NEW ps \in Seq(Seq(Token)), \A k \in DOMAIN ps : ps[k] # <<>>
    PROVE  NonEmpty(ps) = ps /\ NonEmpty(Append(ps, <<>>)) = ps
<1>. DEFINE Full(s) == {k \in DOMAIN s : s[k] # <<>>}
            n == Len(ps)
            long == Append(ps, <<>>)
<1>1. \A s : NonEmpty(s) = Picked(s, Full(s))
    BY DEF NonEmpty, SelectAt, Picked, Pieces
<1>2. /\ n \in Nat /\ DOMAIN ps = 1..n /\ DOMAIN long = 1..(n + 1) /\ long[n + 1] = <<>>
      /\ \A k \in 1..n : long[k] = ps[k]
    OBVIOUS
<1>3. Full(ps) = DOMAIN ps /\ Picked(ps, DOMAIN ps) = ps
    BY PickedAll
<1>4. Full(long) = DOMAIN ps
    BY <1>2
<1>5. Picked(long, DOMAIN ps) = ps
    <2>1. <<>> \in Seq(Token) /\ n + 1 \notin DOMAIN ps
        BY <1>2
    <2>2. Picked(long, DOMAIN ps)
            = IF n + 1 \in DOMAIN ps THEN Append(Picked(ps, DOMAIN ps), <<>>)
              ELSE Picked(ps, DOMAIN ps)
        <3>. DEFINE e == <<>>
                    I == DOMAIN ps
        <3>1. e \in Seq(Token)
            BY <2>1
        <3>. HIDE DEF e, I, n
        <3>2. Picked(Append(ps, e), I)
                = IF Len(ps) + 1 \in I THEN Append(Picked(ps, I), e) ELSE Picked(ps, I)
            BY <3>1, PickedAppend
        <3>. QED
            BY <3>2 DEF e, I, n
    <2>. QED
        BY <1>3, <2>1, <2>2
<1>. QED
    BY <1>1, <1>3, <1>4, <1>5

-----------------------------------------------------------------------------
(* What is closed in a text.                                                 *)

\* How a word changes how many are open.
Opens(w, o, c) == CASE w = o -> 1 [] w = c -> -1 [] OTHER -> 0
HeightSteps(o, c) == {x \in Nat \X Token \X Nat : x[3] = x[1] + Opens(x[2], o, c)}

\* The texts that close what they open, and nothing else.
Paired(o, c) == {t \in Seq(Token) : \A d \in Nat : Runs(HeightSteps(o, c), t, d, d)}

\* Texts without either do.
LEMMA PairedShort ==
    ASSUME NEW o, NEW c
    PROVE  /\ <<>> \in Paired(o, c)
           /\ \A w \in Token : w \notin {o, c} => <<w>> \in Paired(o, c)
<1>1. <<>> \in Seq(Token) /\ \A w \in Token : <<w>> \in Seq(Token)
    BY ShortText
<1>2. ASSUME NEW w \in Token, w \notin {o, c}, NEW d \in Nat
      PROVE  Runs(HeightSteps(o, c), <<w>>, d, d)
    <2>1. Opens(w, o, c) = 0
        BY <1>2 DEF Opens
    <2>2. <<d, w, d>> \in HeightSteps(o, c)
        BY <2>1 DEF HeightSteps
    <2>. QED
        BY <2>2, RunsWord
<1>. QED
    BY <1>1, <1>2, RunsNone DEF Paired

\* Two that do, do.
LEMMA PairedConcat ==
    ASSUME NEW o, NEW c, NEW s \in Paired(o, c), NEW t \in Paired(o, c)
    PROVE  s \o t \in Paired(o, c)
<1>1. s \in Seq(Token) /\ t \in Seq(Token)
    BY DEF Paired
<1>2. s \o t \in Seq(Token)
    BY <1>1, TextAfter
<1>3. \A d \in Nat : Runs(HeightSteps(o, c), s, d, d) /\ Runs(HeightSteps(o, c), t, d, d)
    BY DEF Paired
<1>4. \A d \in Nat : Runs(HeightSteps(o, c), s \o t, d, d)
    BY <1>1, <1>3, RunsConcat
<1>. QED
    BY <1>2, <1>4 DEF Paired

\* So is a text without either.
LEMMA PairedText ==
    ASSUME NEW o, NEW c, NEW t \in Seq(Token), \A k \in DOMAIN t : t[k] \notin {o, c}
    PROVE  t \in Paired(o, c)
<1>1. <<>> \in Paired(o, c)
    BY PairedShort
<1>2. ASSUME NEW k \in DOMAIN t PROVE <<t[k]>> \in Paired(o, c)
    <2>1. t[k] \in Token
        OBVIOUS
    <2>. QED
        BY <2>1, PairedShort
<1>3. \A a, b \in Seq(Token) : a \in Paired(o, c) /\ b \in Paired(o, c)
                                 => a \o b \in Paired(o, c)
    BY PairedConcat
<1>. QED
    BY <1>1, <1>2, <1>3, TextWithin

\* So does one that stands between an opening and its closing.
LEMMA PairedGroup ==
    ASSUME NEW o \in Token, NEW c \in Token, o # c, NEW t \in Paired(o, c)
    PROVE  <<o>> \o t \o <<c>> \in Paired(o, c)
<1>1. t \in Seq(Token) /\ <<o>> \in Seq(Token) /\ <<c>> \in Seq(Token)
    BY ShortText DEF Paired
<1>2. <<o>> \o t \in Seq(Token)
    BY <1>1, TextAfter
<1>3. <<o>> \o t \o <<c>> \in Seq(Token)
    BY <1>1, <1>2, TextAfter
<1>4. ASSUME NEW d \in Nat
      PROVE  Runs(HeightSteps(o, c), <<o>> \o t \o <<c>>, d, d)
    <2>1. d + 1 \in Nat /\ Opens(o, o, c) = 1 /\ Opens(c, o, c) = -1 /\ (d + 1) + (-1) = d
        BY DEF Opens
    <2>2. <<d, o, d + 1>> \in HeightSteps(o, c) /\ <<d + 1, c, d>> \in HeightSteps(o, c)
        BY <2>1 DEF HeightSteps
    <2>3. /\ Runs(HeightSteps(o, c), <<o>>, d, d + 1)
          /\ Runs(HeightSteps(o, c), <<c>>, d + 1, d)
        BY <2>2, RunsWord
    <2>4. Runs(HeightSteps(o, c), t, d + 1, d + 1)
        BY <2>1 DEF Paired
    <2>5. Runs(HeightSteps(o, c), <<o>> \o t, d, d + 1)
        BY <1>1, <2>3, <2>4, RunsConcat
    <2>. QED
        BY <1>1, <1>2, <2>3, <2>5, RunsConcat
<1>. QED
    BY <1>3, <1>4 DEF Paired

\* Where w stands in a part of a text.
Places(s, i, j, w) == {k \in i..j : s[k] = w}

\* One more word, or none, is counted.
LEMMA CountStep ==
    ASSUME NEW s, NEW i \in Nat, NEW j \in Nat, i <= j + 1, NEW w
    PROVE  /\ Cardinality(Places(s, i, j, w)) \in Nat
           /\ Cardinality(Places(s, i, j + 1, w)) \in Nat
           /\ Cardinality(Places(s, i, j + 1, w))
                = Cardinality(Places(s, i, j, w)) + (IF s[j + 1] = w THEN 1 ELSE 0)
<1>. USE DEF Places
<1>. DEFINE n == Places(s, i, j, w)
            m == Places(s, i, j + 1, w)
<1>1. IsFiniteSet(n)
    <2>1. IsFiniteSet(i..j) /\ n \subseteq i..j
        BY FS_Interval
    <2>. QED
        BY <2>1, FS_Subset
<1>2. Cardinality(n) \in Nat
    BY <1>1, FS_CardinalityType
<1>3. j + 1 \notin n /\ m = IF s[j + 1] = w THEN n \cup {j + 1} ELSE n
    <2>1. \A k : k \in i..(j + 1) <=> k \in i..j \/ k = j + 1
        OBVIOUS
    <2>. QED
        BY <2>1
<1>. HIDE DEF n, m
<1>4. Cardinality(m) = Cardinality(n) + (IF s[j + 1] = w THEN 1 ELSE 0)
    <2>1. CASE s[j + 1] = w
        BY <1>1, <1>3, <2>1, FS_AddElement
    <2>2. CASE s[j + 1] # w
        BY <1>2, <1>3, <2>2
    <2>. QED
        BY <2>1, <2>2
<1>5. Cardinality(m) \in Nat
    BY <1>2, <1>4
<1>. QED
    BY <1>2, <1>4, <1>5 DEF n, m

\* So the depth of a text goes up and down with its words.
LEMMA DepthStep ==
    ASSUME NEW s, NEW i \in Nat, NEW j \in Nat, i <= j + 1, NEW o, NEW c, o # c
    PROVE  /\ Depth(s, i, j, o, c) \in Int
           /\ Depth(s, i, j + 1, o, c) = Depth(s, i, j, o, c) + Opens(s[j + 1], o, c)
<1>. DEFINE no == Cardinality(Places(s, i, j, o))
            nc == Cardinality(Places(s, i, j, c))
            mo == Cardinality(Places(s, i, j + 1, o))
            mc == Cardinality(Places(s, i, j + 1, c))
<1>1. no \in Nat /\ mo \in Nat /\ mo = no + (IF s[j + 1] = o THEN 1 ELSE 0)
    BY CountStep
<1>2. nc \in Nat /\ mc \in Nat /\ mc = nc + (IF s[j + 1] = c THEN 1 ELSE 0)
    BY CountStep
<1>3. Depth(s, i, j, o, c) = no - nc /\ Depth(s, i, j + 1, o, c) = mo - mc
    BY DEF Depth, Places
<1>. HIDE DEF no, nc, mo, mc
<1>4. CASE s[j + 1] = o
    BY <1>1, <1>2, <1>3, <1>4 DEF Opens
<1>5. CASE s[j + 1] = c
    BY <1>1, <1>2, <1>3, <1>5 DEF Opens
<1>6. CASE s[j + 1] \notin {o, c}
    BY <1>1, <1>2, <1>3, <1>6 DEF Opens
<1>. QED
    BY <1>4, <1>5, <1>6

\* Before the first word, nothing is open.
LEMMA DepthNone ==
    ASSUME NEW s, NEW i \in Nat, i > 0, NEW o, NEW c
    PROVE  Depth(s, i, i - 1, o, c) = 0
<1>1. \A w : {k \in i..(i - 1) : s[k] = w} = {}
    OBVIOUS
<1>2. \A w : Cardinality({k \in i..(i - 1) : s[k] = w}) = 0
    BY <1>1, FS_EmptySet
<1>. QED
    BY <1>2 DEF Depth

\* What is opened before a text that closes what it opens is closed behind it, and
\* nowhere before.
LEMMA ClosedBehind ==
    ASSUME NEW o, NEW c, o # c, NEW src \in Seq(Token), NEW i \in Nat, i > 0,
           NEW t \in Paired(o, c), i + Len(t) + 1 <= Len(src), src[i] = o,
           \A k \in 1..Len(t) : src[i + k] = t[k], src[i + Len(t) + 1] = c
    PROVE  /\ Closings(src, i, o, c) # {}
           /\ Min(Closings(src, i, o, c)) = i + Len(t) + 1
<1>. DEFINE n == Len(t)
            D(j) == Depth(src, i, j, o, c)
<1>1. t \in Seq(Token) /\ n \in Nat /\ Len(src) \in Nat
    BY DEF Paired
<1>2. PICK h : /\ h[0] = 0 /\ h[n] = 0
               /\ \A k \in 0..(n - 1) : <<h[k], t[k + 1], h[k + 1]>> \in HeightSteps(o, c)
    <2>1. 0 \in Nat
        OBVIOUS
    <2>2. Runs(HeightSteps(o, c), t, 0, 0)
        BY <2>1 DEF Paired
    <2>. QED
        BY <2>2 DEF Runs
<1>3. D(i) = 1
    <2>1. i - 1 \in Nat /\ i <= (i - 1) + 1 /\ (i - 1) + 1 = i
        OBVIOUS
    <2>2. D(i - 1) = 0
        BY DepthNone
    <2>3. D((i - 1) + 1) = D(i - 1) + Opens(src[(i - 1) + 1], o, c)
        BY <2>1, DepthStep
    <2>. QED
        BY <2>1, <2>2, <2>3 DEF Opens
<1>. HIDE DEF n
<1>. DEFINE Done == {k \in Nat : k <= n => h[k] \in Nat /\ D(i + k) = 1 + h[k]}
<1>4. 0 \in Done
    BY <1>2, <1>3
<1>5. ASSUME NEW k \in Nat, k \in Done PROVE k + 1 \in Done
    <2>1. SUFFICES ASSUME k + 1 <= n PROVE h[k + 1] \in Nat /\ D(i + (k + 1)) = 1 + h[k + 1]
        OBVIOUS
    <2>2. k \in 0..(n - 1) /\ h[k] \in Nat /\ D(i + k) = 1 + h[k] /\ k + 1 \in 1..n
        BY <1>1, <1>5, <2>1
    <2>3. h[k + 1] \in Nat /\ h[k + 1] = h[k] + Opens(t[k + 1], o, c)
        BY <1>2, <2>2 DEF HeightSteps
    <2>4. src[i + (k + 1)] = t[k + 1]
        BY <2>2 DEF n
    <2>5. i + k \in Nat /\ i <= (i + k) + 1 /\ (i + k) + 1 = i + (k + 1)
        OBVIOUS
    <2>6. D((i + k) + 1) = D(i + k) + Opens(src[(i + k) + 1], o, c)
        BY <2>5, DepthStep
    <2>. HIDE DEF D
    <2>7. D(i + (k + 1)) = (1 + h[k]) + Opens(t[k + 1], o, c)
        BY <2>2, <2>4, <2>5, <2>6
    <2>8. Opens(t[k + 1], o, c) \in Int
        BY DEF Opens
    <2>. QED
        BY <2>2, <2>3, <2>7, <2>8
<1>. HIDE DEF Done
<1>6. \A k \in 0..n : D(i + k) > 0
    <2>1. Nat \subseteq Done
        BY <1>4, <1>5, SetInduction
    <2>. HIDE DEF D
    <2>2. \A k \in 0..n : h[k] \in Nat /\ D(i + k) = 1 + h[k]
        BY <1>1, <2>1 DEF Done
    <2>. QED
        BY <2>2
<1>7. D(i + n + 1) = 0
    <2>1. i + n \in Nat /\ i <= (i + n) + 1 /\ n \in 0..n /\ n <= n
        BY <1>1
    <2>2. D(i + n) = 1
        <3>1. n \in Done
            BY <1>1, <1>4, <1>5, SetInduction
        <3>. HIDE DEF D
        <3>. QED
            BY <1>2, <2>1, <3>1 DEF Done
    <2>3. D((i + n) + 1) = D(i + n) + Opens(src[(i + n) + 1], o, c)
        <3>. DEFINE j == i + n
        <3>1. j \in Nat /\ i <= j + 1
            BY <2>1
        <3>. HIDE DEF j
        <3>2. D(j + 1) = D(j) + Opens(src[j + 1], o, c)
            BY <3>1, DepthStep
        <3>. QED
            BY <3>2 DEF j
    <2>4. src[(i + n) + 1] = c
        BY DEF n
    <2>. HIDE DEF D
    <2>. QED
        BY <2>2, <2>3, <2>4 DEF Opens
<1>. DEFINE C == Closings(src, i, o, c)
            e == i + n + 1
<1>8. e \in C /\ C \subseteq i..Len(src) /\ C \subseteq Nat
    <2>1. e \in i..Len(src)
        BY <1>1 DEF n
    <2>. QED
        BY <1>7, <2>1 DEF Closings
<1>9. \A j \in C : e <= j
    <2>1. ASSUME NEW j \in C, ~(e <= j) PROVE FALSE
        <3>. DEFINE k == j - i
        <3>1. k \in 0..n /\ i + k = j
            <4>1. j \in Int /\ i <= j /\ i \in Nat /\ n \in Nat
                BY <1>1, <1>8
            <4>2. ~(i + n + 1 <= j)
                BY <2>1
            <4>. HIDE DEF n, C, D
            <4>. QED
                BY <4>1, <4>2
        <3>2. D(j) = 0
            BY DEF Closings
        <3>. HIDE DEF D, k
        <3>. QED
            BY <1>6, <3>1, <3>2
    <2>. QED
        BY <2>1
<1>. HIDE DEF C, e
<1>10. Min(C) \in C /\ \A j \in C : Min(C) <= j
    BY <1>8, MinOfNats
<1>11. Min(C) = e
    <2>1. Min(C) \in Nat /\ e \in Nat /\ Min(C) <= e /\ e <= Min(C)
        BY <1>8, <1>9, <1>10
    <2>. QED
        BY <2>1
<1>. QED
    BY <1>8, <1>11 DEF C, e, n

-----------------------------------------------------------------------------
(* Schemas that are written as the schema compiler demands.                  *)

\* What the depth of a type is behind each of its words.
LEMMA TypeDepth ==
    ASSUME NEW t \in Seq(Token), WellTyped(t)
    PROVE  /\ Depth(t, 1, 0, "(", ")") = 0 /\ Depth(t, 1, Len(t), "(", ")") = 0
           /\ \A k \in 0..Len(t) : Depth(t, 1, k, "(", ")") \in Nat
           /\ \A k \in 0..(Len(t) - 1) :
                 Depth(t, 1, k + 1, "(", ")")
                   = Depth(t, 1, k, "(", ")") + Opens(t[k + 1], "(", ")")
<1>. DEFINE D(k) == Depth(t, 1, k, "(", ")")
<1>1. D(0) = 0
    <2>1. 1 \in Nat /\ 1 > 0 /\ 1 - 1 = 0
        OBVIOUS
    <2>2. D(1 - 1) = 0
        BY <2>1, DepthNone
    <2>. QED
        BY <2>1, <2>2
<1>2. \A k \in Nat : D(k) \in Int /\ D(k + 1) = D(k) + Opens(t[k + 1], "(", ")")
    <2>1. ASSUME NEW k \in Nat
          PROVE  D(k) \in Int /\ D(k + 1) = D(k) + Opens(t[k + 1], "(", ")")
        <3>1. 1 \in Nat /\ 1 <= k + 1 /\ "(" # ")"
            OBVIOUS
        <3>. QED
            BY <3>1, DepthStep
    <2>. QED
        BY <2>1
<1>3. \A k \in 1..Len(t) : D(k) >= 0
    <2>1. DOMAIN t = 1..Len(t)
        OBVIOUS
    <2>2. \A k \in DOMAIN t : D(k) >= 0
        BY DEF WellTyped
    <2>. HIDE DEF D
    <2>. QED
        BY <2>1, <2>2
<1>4. D(Len(t)) = 0
    BY DEF WellTyped
<1>5. Len(t) \in Nat
    OBVIOUS
<1>. HIDE DEF D
<1>6. \A k \in 0..Len(t) : D(k) \in Nat
    <2>1. ASSUME NEW k \in 0..Len(t) PROVE D(k) \in Nat
        <3>1. k = 0 \/ k \in 1..Len(t)
            OBVIOUS
        <3>2. D(k) \in Int
            BY <1>2
        <3>. QED
            BY <1>1, <1>3, <3>1, <3>2
    <2>. QED
        BY <2>1
<1>7. \A k \in 0..(Len(t) - 1) : D(k + 1) = D(k) + Opens(t[k + 1], "(", ")")
    BY <1>2
<1>. QED
    BY <1>1, <1>4, <1>6, <1>7 DEF D

\* A type closes what it opens.
LEMMA TypePaired ==
    ASSUME NEW t \in Seq(Token), WellTyped(t)
    PROVE  t \in Paired("(", ")") /\ t \in Paired("{", "}")
<1>1. ASSUME NEW d \in Nat PROVE Runs(HeightSteps("(", ")"), t, d, d)
    <2>. DEFINE c == [k \in 0..Len(t) |-> d + Depth(t, 1, k, "(", ")")]
    <2>1. c[0] = d /\ c[Len(t)] = d
        BY TypeDepth
    <2>2. \A k \in 0..Len(t) : c[k] \in Nat
        BY TypeDepth
    <2>3. \A k \in 0..(Len(t) - 1) : c[k + 1] = c[k] + Opens(t[k + 1], "(", ")")
        <3>1. ASSUME NEW k \in 0..(Len(t) - 1)
              PROVE  c[k + 1] = c[k] + Opens(t[k + 1], "(", ")")
            <4>. DEFINE a == Depth(t, 1, k, "(", ")")
                        b == Depth(t, 1, k + 1, "(", ")")
            <4>1. a \in Nat /\ b = a + Opens(t[k + 1], "(", ")")
                BY TypeDepth
            <4>2. c[k] = d + a /\ c[k + 1] = d + b
                OBVIOUS
            <4>3. Opens(t[k + 1], "(", ")") \in Int
                BY DEF Opens
            <4>. HIDE DEF a, b, c
            <4>. QED
                BY <4>1, <4>2, <4>3
        <3>. QED
            BY <3>1
    <2>4. \A k \in 1..Len(t) : t[k] \in Token
        BY WordsOf
    <2>. HIDE DEF c
    <2>5. \A k \in 0..(Len(t) - 1) : <<c[k], t[k + 1], c[k + 1]>> \in HeightSteps("(", ")")
        <3>1. ASSUME NEW k \in 0..(Len(t) - 1)
              PROVE  <<c[k], t[k + 1], c[k + 1]>> \in HeightSteps("(", ")")
            <4>1. k \in 0..Len(t) /\ k + 1 \in 0..Len(t) /\ k + 1 \in 1..Len(t)
                OBVIOUS
            <4>2. c[k] \in Nat /\ c[k + 1] \in Nat /\ t[k + 1] \in Token
                BY <2>2, <2>4, <4>1
            <4>. QED
                BY <2>3, <4>2 DEF HeightSteps
        <3>. QED
            BY <3>1
    <2>. QED
        BY <2>1, <2>5 DEF Runs
<1>2. t \in Paired("(", ")")
    BY <1>1 DEF Paired
<1>3. \A k \in DOMAIN t : t[k] \notin {"{", "}"}
    BY DEF WellTyped
<1>. QED
    BY <1>2, <1>3, PairedText

\* A type is not cut at what it has inside parentheses only, nor where some are
\* open anyway.
LEMMA TypeKept ==
    ASSUME NEW t \in Seq(Token), WellTyped(t), NEW sep, sep \notin {"(", ")"},
           NEW e \in Nat,
           \A k \in DOMAIN t : t[k] = sep => e > 0 \/ Depth(t, 1, k, "(", ")") > 0
    PROVE  t \in Keeping(sep, e)
<1>1. ASSUME NEW d \in Nat, NEW ps \in Seq(Seq(Token)), NEW q \in Seq(Token), d >= e
      PROVE  Runs(CutSteps(sep), t, AtDepth(d, ps, q), AtDepth(d, ps, q \o t))
    <2>. DEFINE D(k) == Depth(t, 1, k, "(", ")")
                h(k) == d + D(k)
                c == [k \in 0..Len(t) |-> AtDepth(h(k), ps, q \o SubSeq(t, 1, k))]
    <2>1. c[0] = AtDepth(d, ps, q)
        <3>1. SubSeq(t, 1, 0) = <<>> /\ q \o <<>> = q
            BY ConcatEmptySeq
        <3>2. h(0) = d
            BY TypeDepth
        <3>3. c[0] = AtDepth(h(0), ps, q \o SubSeq(t, 1, 0))
            OBVIOUS
        <3>. QED
            BY <3>1, <3>2, <3>3
    <2>2. c[Len(t)] = AtDepth(d, ps, q \o t)
        <3>1. SubSeq(t, 1, Len(t)) = t
            OBVIOUS
        <3>2. h(Len(t)) = d
            BY TypeDepth
        <3>3. c[Len(t)] = AtDepth(h(Len(t)), ps, q \o SubSeq(t, 1, Len(t)))
            OBVIOUS
        <3>. QED
            BY <3>1, <3>2, <3>3
    <2>3. ASSUME NEW k \in 0..(Len(t) - 1)
          PROVE  <<c[k], t[k + 1], c[k + 1]>> \in CutSteps(sep)
        <3>. DEFINE w == t[k + 1]
                    p == q \o SubSeq(t, 1, k)
        <3>1. w \in Token /\ k + 1 \in DOMAIN t /\ k + 1 \in 1..Len(t)
            BY WordsOf
        <3>2. p \in Seq(Token) /\ q \o SubSeq(t, 1, k + 1) = p \o <<w>>
            <4>1. SubSeq(t, 1, k) \in Seq(Token) /\ <<w>> \in Seq(Token)
                BY <3>1, ShortText
            <4>2. SubSeq(t, 1, k + 1) = SubSeq(t, 1, k) \o <<w>>
                OBVIOUS
            <4>3. (q \o SubSeq(t, 1, k)) \o <<w>> = q \o (SubSeq(t, 1, k) \o <<w>>)
                BY <4>1, TextsAssociative, Zenon
            <4>4. p \in Seq(Token)
                BY <4>1, TextAfter
            <4>. QED
                BY <4>2, <4>3, <4>4
        <3>3. D(k) \in Nat /\ D(k + 1) \in Nat /\ D(k + 1) = D(k) + Opens(w, "(", ")")
            BY TypeDepth
        <3>4. c[k] = AtDepth(h(k), ps, p)
            OBVIOUS
        <3>5. c[k + 1] = AtDepth(h(k + 1), ps, p \o <<w>>)
            <4>1. k + 1 \in 0..Len(t)
                OBVIOUS
            <4>2. c[k + 1] = AtDepth(h(k + 1), ps, q \o SubSeq(t, 1, k + 1))
                BY <4>1
            <4>. QED
                BY <3>2, <4>2
        <3>6. w = sep => h(k) # 0
            <4>1. SUFFICES ASSUME w = sep PROVE h(k) # 0
                OBVIOUS
            <4>2. Opens(w, "(", ")") = 0
                BY <4>1 DEF Opens
            <4>3. e > 0 \/ D(k + 1) > 0
                BY <3>1, <4>1
            <4>. DEFINE a == D(k)
                        b == D(k + 1)
            <4>4. a \in Nat /\ b \in Nat /\ b = a + 0
                BY <3>3, <4>2
            <4>5. h(k) = d + a /\ (e > 0 \/ b > 0)
                BY <4>3
            <4>. HIDE DEF a, b, h
            <4>. QED
                BY <1>1, <4>4, <4>5
        <3>7. h(k) \in Int /\ h(k + 1) = h(k) + Opens(w, "(", ")")
            <4>1. Opens(w, "(", ")") \in Int
                BY DEF Opens
            <4>. HIDE DEF D
            <4>. QED
                BY <3>3, <4>1
        <3>. HIDE DEF c, h, w, p, D
        <3>8. CASE w = "("
            <4>1. h(k + 1) = h(k) + 1
                BY <3>7, <3>8 DEF Opens
            <4>2. <<AtDepth(h(k), ps, p), w, AtDepth(h(k) + 1, ps, p \o <<w>>)>> \in CutSteps(sep)
                BY <3>1, <3>2, <3>6, <3>7, <3>8, CutStep
            <4>. QED
                BY <3>4, <3>5, <4>1, <4>2 DEF w
        <3>9. CASE w = ")"
            <4>1. h(k + 1) = h(k) - 1
                BY <3>7, <3>9 DEF Opens
            <4>2. <<AtDepth(h(k), ps, p), w, AtDepth(h(k) - 1, ps, p \o <<w>>)>> \in CutSteps(sep)
                BY <3>1, <3>2, <3>6, <3>7, <3>9, CutStep
            <4>. QED
                BY <3>4, <3>5, <4>1, <4>2 DEF w
        <3>10. CASE w \notin {"(", ")"}
            <4>1. h(k + 1) = h(k)
                BY <3>7, <3>10 DEF Opens
            <4>2. <<AtDepth(h(k), ps, p), w, AtDepth(h(k), ps, p \o <<w>>)>> \in CutSteps(sep)
                BY <3>1, <3>2, <3>6, <3>7, <3>10, CutStep
            <4>. QED
                BY <3>4, <3>5, <4>1, <4>2 DEF w
        <3>. QED
            BY <3>8, <3>9, <3>10
    <2>. HIDE DEF c
    <2>. QED
        BY <2>1, <2>2, <2>3 DEF Runs
<1>. QED
    BY <1>1 DEF Keeping

\* The texts in which no interface is found.
HeadFree ==
    {t \in Seq(Token) :
        \A j \in DOMAIN t :
            t[j] = "{" => j >= 3 /\ (t[j - 2] = "interface" => t[j - 1] \notin Words)}

\* Two of them one after the other are one.
LEMMA HeadFreeConcat ==
    ASSUME NEW s \in HeadFree, NEW t \in HeadFree
    PROVE  s \o t \in HeadFree
<1>1. s \in Seq(Token) /\ t \in Seq(Token)
    BY DEF HeadFree
<1>. DEFINE r == s \o t
            n == Len(s)
<1>2. /\ n \in Nat /\ Len(t) \in Nat /\ Len(r) = n + Len(t) /\ r \in Seq(Token)
      /\ \A k \in 1..n : r[k] = s[k]
      /\ \A k \in 1..Len(t) : r[n + k] = t[k]
    BY <1>1, ConcatAt
<1>3. /\ \A j \in 1..n : s[j] = "{" =>
            j >= 3 /\ (s[j - 2] = "interface" => s[j - 1] \notin Words)
      /\ \A j \in 1..Len(t) : t[j] = "{" =>
            j >= 3 /\ (t[j - 2] = "interface" => t[j - 1] \notin Words)
    <2>1. DOMAIN s = 1..n /\ DOMAIN t = 1..Len(t)
        BY <1>1, ListIs
    <2>2. /\ \A j \in DOMAIN s : s[j] = "{" =>
                j >= 3 /\ (s[j - 2] = "interface" => s[j - 1] \notin Words)
          /\ \A j \in DOMAIN t : t[j] = "{" =>
                j >= 3 /\ (t[j - 2] = "interface" => t[j - 1] \notin Words)
        BY Zenon DEF HeadFree
    <2>. HIDE DEF n
    <2>. QED
        BY <2>1, <2>2
<1>. HIDE DEF r, n
<1>4. ASSUME NEW j \in 1..Len(r), r[j] = "{"
      PROVE  j >= 3 /\ (r[j - 2] = "interface" => r[j - 1] \notin Words)
    <2>1. CASE j \in 1..n
        <3>1. j >= 3 /\ (s[j - 2] = "interface" => s[j - 1] \notin Words)
            BY <1>2, <1>3, <1>4, <2>1
        <3>2. j - 2 \in 1..n /\ j - 1 \in 1..n
            BY <1>2, <2>1, <3>1
        <3>. QED
            BY <1>2, <3>1, <3>2
    <2>2. CASE j \notin 1..n
        <3>. DEFINE k == j - n
        <3>1. k \in 1..Len(t) /\ j = n + k
            BY <1>2, <2>2
        <3>. HIDE DEF k
        <3>2. k >= 3 /\ (t[k - 2] = "interface" => t[k - 1] \notin Words)
            BY <1>2, <1>3, <1>4, <3>1
        <3>3. k - 2 \in 1..Len(t) /\ k - 1 \in 1..Len(t) /\ j - 2 = n + (k - 2)
              /\ j - 1 = n + (k - 1) /\ j >= 3
            BY <1>2, <3>1, <3>2
        <3>4. r[j - 2] = t[k - 2] /\ r[j - 1] = t[k - 1]
            BY <1>2, <3>3
        <3>. QED
            BY <3>2, <3>3, <3>4
    <2>. QED
        BY <2>1, <2>2
<1>5. DOMAIN r = 1..Len(r)
    BY <1>2
<1>6. r \in Seq(Token)
    BY <1>2
<1>7. r \in HeadFree
    BY <1>4, <1>5, <1>6 DEF HeadFree
<1>. QED
    BY <1>7 DEF r

\* Without a brace there is none.
LEMMA BracelessFree ==
    ASSUME NEW t \in Seq(Token), \A k \in DOMAIN t : t[k] # "{"
    PROVE  t \in HeadFree
BY DEF HeadFree

\* A text of one word has that one.
LEMMA OneWord == \A w : DOMAIN <<w>> = 1..1 /\ \A k \in DOMAIN <<w>> : <<w>>[k] = w
<1>1. ASSUME NEW w PROVE DOMAIN <<w>> = 1..1 /\ <<w>>[1] = w
    OBVIOUS
<1>2. \A k \in 1..1 : k = 1
    OBVIOUS
<1>. QED
    BY <1>1, <1>2

\* Nor does one stand in one word, or in none.
LEMMA FreeShort ==
    <<>> \in HeadFree /\ \A w \in Token : w # "{" => <<w>> \in HeadFree
<1>1. <<>> \in Seq(Token) /\ \A w \in Token : <<w>> \in Seq(Token)
    BY ShortText
<1>2. <<>> \in HeadFree
    <2>1. \A k \in DOMAIN <<>> : <<>>[k] # "{"
        <3>1. DOMAIN <<>> = {}
            OBVIOUS
        <3>. QED
            BY <3>1
    <2>. QED
        BY <1>1, <2>1, BracelessFree
<1>3. ASSUME NEW w \in Token, w # "{" PROVE <<w>> \in HeadFree
    <2>. DEFINE t == <<w>>
    <2>1. t \in Seq(Token) /\ \A k \in DOMAIN t : t[k] = w
        BY <1>1, OneWord
    <2>. HIDE DEF t
    <2>2. t \in HeadFree
        BY <1>3, <2>1, BracelessFree
    <2>. QED
        BY <2>2 DEF t
<1>. QED
    BY <1>2, <1>3

-----------------------------------------------------------------------------
(* Fields and groups.                                                        *)

\* A field and a list of fields as they are written.
FieldText(f) == <<f.name, ":">> \o f.type
Texts(fields) == [k \in DOMAIN fields |-> FieldText(fields[k])]

\* The fields whose types are well written.
WellField == {f \in FieldDecl : WellTyped(f.type)}

\* What a field's text is: nothing cuts it at commas, nor at semicolons inside a
\* group, and it has all its parentheses and no comment.
LEMMA FieldWritten ==
    ASSUME PlainNames, NEW f \in WellField
    PROVE  /\ FieldText(f) \in Seq(Token) /\ FieldText(f) # <<>>
           /\ f.name \notin Punctuation /\ f.name \in Token /\ f.type \in Seq(Token)
           /\ FieldText(f) \in Keeping(",", 0) /\ FieldText(f) \in Keeping(";", 1)
           /\ FieldText(f) \in Paired("(", ")") /\ FieldText(f) \in Paired("{", "}")
           /\ <<FieldText(f), FieldText(f)>> \in Cleanings /\ FieldText(f) \in HeadFree
<1>. DEFINE n == <<f.name, ":">>
            t == f.type
<1>1. f \in FieldDecl /\ WellTyped(f.type)
    BY DEF WellField
<1>2. f.name \in Words /\ f.type \in Seq(STRING)
    BY <1>1 DEF FieldDecl
<1>3. f.name \in Token /\ f.name \notin Punctuation
    BY <1>2, GeneratorAssumption DEF Token, PlainNames
<1>4. t \in Seq(Token) /\ ":" \in Token
    <2>1. STRING \subseteq Token /\ ":" \in Token
        BY DEF Token
    <2>. QED
        BY <1>2, <2>1, Widened
<1>5. n \in Seq(Token) /\ \A k \in DOMAIN n : n[k] \notin {"(", ")", "{", "}", ",", ";", "#", "nl"}
    <2>1. n \in Seq(Token)
        <3>1. \A x, y \in Token : <<x, y>> \in Seq(Token)
            BY ShortText
        <3>. QED
            BY <1>3, <1>4, <3>1
    <2>2. f.name \notin {"(", ")", "{", "}", ",", ";", "#", "nl"}
        BY <1>3 DEF Punctuation
    <2>3. DOMAIN n = 1..2 /\ n[1] = f.name /\ n[2] = ":"
        OBVIOUS
    <2>. HIDE DEF n
    <2>4. ASSUME NEW k \in DOMAIN n
          PROVE  n[k] \notin {"(", ")", "{", "}", ",", ";", "#", "nl"}
        <3>1. k = 1 \/ k = 2
            BY <2>3
        <3>2. CASE k = 1
            BY <2>2, <2>3, <3>2
        <3>3. CASE k = 2
            BY <2>3, <3>3
        <3>. QED
            BY <3>1, <3>2, <3>3
    <2>. QED
        BY <2>1, <2>4
<1>6. n \o t \in Seq(Token) /\ n \o t # <<>>
    <2>1. Len(n) = 2
        OBVIOUS
    <2>. HIDE DEF n, t
    <2>2. Len(t) \in Nat /\ Len(n \o t) = Len(n) + Len(t) /\ n \o t \in Seq(Token)
        BY <1>4, <1>5, ConcatAt
    <2>. QED
        BY <2>1, <2>2
<1>7. n \o t \in Keeping(",", 0)
    <2>1. t \in Keeping(",", 0)
        <3>1. 0 \in Nat /\ "," \notin {"(", ")"}
            OBVIOUS
        <3>2. \A k \in DOMAIN t : t[k] = "," => 0 > 0 \/ Depth(t, 1, k, "(", ")") > 0
            BY <1>1 DEF WellTyped
        <3>. QED
            BY <1>1, <1>4, <3>1, <3>2, TypeKept
    <2>2. n \in Keeping(",", 0)
        <3>1. 0 \in Nat /\ \A k \in DOMAIN n : n[k] \notin {"(", ")"} /\ (n[k] # "," \/ 0 > 0)
            BY <1>5
        <3>. QED
            BY <1>5, <3>1, KeepText
    <2>3. 0 \in Nat
        OBVIOUS
    <2>. HIDE DEF n, t
    <2>. QED
        BY <2>1, <2>2, <2>3, KeepConcat
<1>8. n \o t \in Keeping(";", 1)
    <2>1. t \in Keeping(";", 1)
        <3>1. 1 \in Nat /\ ";" \notin {"(", ")"}
            OBVIOUS
        <3>2. 1 > 0
            OBVIOUS
        <3>3. \A k \in DOMAIN t : t[k] = ";" => 1 > 0 \/ Depth(t, 1, k, "(", ")") > 0
            BY <3>2, Zenon
        <3>. QED
            BY <1>1, <1>4, <3>1, <3>3, TypeKept
    <2>2. n \in Keeping(";", 1)
        <3>1. 1 \in Nat /\ \A k \in DOMAIN n : n[k] \notin {"(", ")"} /\ (n[k] # ";" \/ 1 > 0)
            BY <1>5
        <3>. QED
            BY <1>5, <3>1, KeepText
    <2>3. 1 \in Nat
        OBVIOUS
    <2>. HIDE DEF n, t
    <2>. QED
        BY <2>1, <2>2, <2>3, KeepConcat
<1>9. n \o t \in Paired("(", ")") /\ n \o t \in Paired("{", "}")
    <2>1. t \in Paired("(", ")") /\ t \in Paired("{", "}")
        BY <1>1, <1>4, TypePaired
    <2>2. n \in Paired("(", ")") /\ n \in Paired("{", "}")
        BY <1>5, PairedText
    <2>. HIDE DEF n, t
    <2>. QED
        BY <2>1, <2>2, PairedConcat
<1>10. <<n \o t, n \o t>> \in Cleanings
    <2>1. \A k \in DOMAIN t : t[k] \notin {"nl", "#"}
        BY <1>1 DEF WellTyped
    <2>2. <<t, t>> \in Cleanings
        BY <1>4, <2>1, CleanText
    <2>3. <<n, n>> \in Cleanings
        BY <1>5, CleanText
    <2>. HIDE DEF n, t
    <2>. QED
        BY <1>4, <1>5, <2>2, <2>3, CleanConcat
<1>11. n \o t \in HeadFree
    <2>1. \A k \in DOMAIN t : t[k] # "{"
        BY <1>1 DEF WellTyped
    <2>2. t \in HeadFree
        BY <1>4, <2>1, BracelessFree
    <2>3. n \in HeadFree
        BY <1>5, BracelessFree
    <2>. HIDE DEF n, t
    <2>. QED
        BY <2>2, <2>3, HeadFreeConcat
<1>. QED
    BY <1>3, <1>4, <1>6, <1>7, <1>8, <1>9, <1>10, <1>11 DEF FieldText

\* The text a field reads back from.
LEMMA FieldReadBack ==
    ASSUME PlainNames, NEW f \in WellField
    PROVE  LET p == FieldText(f) IN
           /\ Contains(p, ":") /\ FieldName(p) = <<f.name>>
           /\ SubSeq(p, Colon(p) + 1, Len(p)) = f.type
<1>. DEFINE p == FieldText(f)
            n == <<f.name, ":">>
            t == f.type
<1>1. n \in Seq(Token) /\ t \in Seq(Token) /\ Len(n) = 2 /\ f.name # ":"
    <2>1. ":" \in Token
        BY DEF Token
    <2>2. f.name \in Token /\ f.name # ":" /\ t \in Seq(Token)
        BY FieldWritten DEF Punctuation
    <2>. QED
        BY <2>1, <2>2, ShortText
<1>2. p = n \o t
    BY DEF FieldText
<1>3. n[1] = f.name /\ n[2] = ":"
    OBVIOUS
<1>. HIDE DEF n, t, p
<1>4. Len(p) = 2 + Len(t) /\ Len(t) \in Nat /\ p \in Seq(Token)
      /\ \A k \in 1..2 : p[k] = n[k]
    <2>1. /\ Len(t) \in Nat /\ Len(n \o t) = Len(n) + Len(t)
          /\ n \o t \in Seq(Token)
          /\ \A k \in 1..Len(n) : (n \o t)[k] = n[k]
        BY <1>1, ConcatAt
    <2>. QED
        BY <1>1, <1>2, <2>1
<1>5. p[1] = f.name /\ p[2] = ":" /\ DOMAIN p = 1..Len(p)
    BY <1>3, <1>4
<1>6. Contains(p, ":")
    <2>1. 2 \in 1..Len(p)
        BY <1>4
    <2>. QED
        BY <1>5, <2>1 DEF Contains
<1>7. Colon(p) = 2
    <2>. DEFINE I == {i \in 1..Len(p) : p[i] = ":"}
    <2>1. 2 \in I /\ 1 \notin I /\ I \subseteq Nat /\ I # {}
        <3>1. 2 \in 1..Len(p)
            BY <1>4
        <3>2. 2 \in I
            BY <1>5, <3>1
        <3>3. p[1] # ":"
            BY <1>1, <1>5
        <3>4. 1 \notin I
            BY <3>3
        <3>5. I \subseteq Nat
            OBVIOUS
        <3>. HIDE DEF I
        <3>. QED
            BY <3>2, <3>4, <3>5
    <2>2. Colon(p) = Min(I)
        BY <2>1 DEF Colon, First, SelectInSeq
    <2>. HIDE DEF I
    <2>3. Min(I) \in I /\ \A i \in I : Min(I) <= i
        BY <2>1, MinOfNats
    <2>4. Min(I) \in Nat /\ Min(I) <= 2 /\ Min(I) # 1 /\ Min(I) # 0
        <3>1. 0 \notin I
            BY DEF I
        <3>. QED
            BY <2>1, <2>3, <3>1
    <2>. QED
        BY <2>2, <2>4
<1>8. FieldName(p) = <<f.name>>
    <2>1. SubSeq(p, 1, 1) = <<p[1]>>
        <3>1. SubSeq(p, 1, 1) = SubSeq(p, 1, 0) \o <<p[1]>> /\ SubSeq(p, 1, 0) = <<>>
            BY <1>4
        <3>2. <<>> \o <<p[1]>> = <<p[1]>>
            OBVIOUS
        <3>. QED
            BY <3>1, <3>2
    <2>. QED
        BY <1>5, <1>7, <2>1 DEF FieldName
<1>9. SubSeq(p, Colon(p) + 1, Len(p)) = t
    <2>1. SubSeq(n \o t, Len(n) + 1, Len(n \o t)) = t
        BY <1>1, CutConcat
    <2>. QED
        BY <1>1, <1>2, <1>7, <2>1
<1>. QED
    BY <1>6, <1>8, <1>9 DEF p, t

\* A list of texts with commas between them has what the texts and a comma have,
\* and keep when they are put together.
LEMMA SeparatedWithin ==
    ASSUME NEW seqs \in Seq(Seq(Token)), NEW trailing \in BOOLEAN, NEW P,
           <<>> \in P, <<",">> \in P, \A k \in DOMAIN seqs : seqs[k] \in P,
           \A a, b \in Seq(Token) : a \in P /\ b \in P => a \o b \in P
    PROVE  Separated(seqs, trailing) \in P
<1>. DEFINE e(k) == IF k < Len(seqs) \/ trailing THEN <<",">> ELSE <<>>
            r == [k \in DOMAIN seqs |-> seqs[k] \o e(k)]
<1>1. \A k \in DOMAIN seqs : seqs[k] \in Seq(Token)
    BY ListIs
<1>2. <<",">> \in Seq(Token) /\ <<>> \in Seq(Token)
    <2>1. "," \in Token
        BY DEF Token
    <2>. QED
        BY <2>1, ShortText
<1>3. \A k \in DOMAIN seqs : e(k) \in Seq(Token) /\ e(k) \in P
    BY <1>2
<1>4. \A k \in DOMAIN seqs : r[k] \in P /\ r[k] \in Seq(Token)
    <2>. HIDE DEF e
    <2>. QED
        BY <1>1, <1>3, TextAfter
<1>5. DOMAIN r = DOMAIN seqs /\ DOMAIN seqs = 1..Len(seqs) /\ Len(seqs) \in Nat
    BY ListIs
<1>6. r \in Seq(Seq(Token))
    <2>1. r = [k \in 1..Len(seqs) |-> r[k]]
        BY <1>5
    <2>. HIDE DEF r
    <2>. QED
        BY <1>4, <1>5, <2>1, ListWithin
<1>. HIDE DEF r
<1>7. FlattenSeq(r) \in P
    BY <1>4, <1>5, <1>6, FlattenWithin
<1>. QED
    BY <1>7 DEF Separated, r, e

\* What ends with a separator each is cut into all of them.
LEMMA EndedCut ==
    ASSUME NEW sep \in Token, NEW seqs \in Seq(Seq(Token)),
           \A k \in DOMAIN seqs : seqs[k] \in Keeping(sep, 0)
    PROVE  <<FlattenSeq([k \in DOMAIN seqs |-> seqs[k] \o <<sep>>]), seqs>> \in Cutting(sep)
<1>. DEFINE r == [k \in DOMAIN seqs |-> seqs[k] \o <<sep>>]
            u == [k \in DOMAIN seqs |-> <<seqs[k]>>]
<1>1. \A k \in DOMAIN seqs : seqs[k] \in Seq(Token)
    BY ListIs
<1>2. <<sep>> \in Seq(Token)
    BY ShortText
<1>3. DOMAIN seqs = 1..Len(seqs) /\ Len(seqs) \in Nat
    BY ListIs
<1>4. r \in Seq(Seq(Token)) /\ Len(r) = Len(seqs)
    <2>1. \A k \in 1..Len(seqs) : r[k] \in Seq(Token)
        BY <1>1, <1>2, <1>3, TextAfter
    <2>2. r = [k \in 1..Len(seqs) |-> r[k]] /\ Len(r) = Len(seqs)
        BY <1>3
    <2>. HIDE DEF r
    <2>. QED
        BY <1>3, <2>1, <2>2, ListWithin
<1>5. u \in Seq(Seq(Seq(Token))) /\ Len(u) = Len(seqs)
    <2>1. \A k \in 1..Len(seqs) : u[k] \in Seq(Seq(Token))
        BY <1>1, <1>3, ShortText
    <2>2. u = [k \in 1..Len(seqs) |-> u[k]] /\ Len(u) = Len(seqs)
        BY <1>3
    <2>. HIDE DEF u
    <2>. QED
        BY <1>3, <2>1, <2>2, ListWithin
<1>6. \A k \in DOMAIN r : <<r[k], u[k]>> \in Cutting(sep)
    <2>1. \A t \in Keeping(sep, 0) : <<t \o <<sep>>, <<t>>>> \in Cutting(sep)
        BY CutShort
    <2>2. DOMAIN r = DOMAIN seqs
        OBVIOUS
    <2>3. \A k \in DOMAIN seqs : r[k] = seqs[k] \o <<sep>> /\ u[k] = <<seqs[k]>>
        OBVIOUS
    <2>. HIDE DEF r, u
    <2>. QED
        BY <2>1, <2>2, <2>3
<1>7. <<<<>>, <<>>>> \in Cutting(sep)
    BY CutShort
<1>8. \A a, b \in Seq(Token) : \A c, d \in Seq(Seq(Token)) :
         <<a, c>> \in Cutting(sep) /\ <<b, d>> \in Cutting(sep)
            => <<a \o b, c \o d>> \in Cutting(sep)
    BY CutConcatenated
<1>9. FlattenSeq(u) = seqs
    BY FlattenSingles
<1>. HIDE DEF r, u
<1>10. Len(r) = Len(u)
    BY <1>4, <1>5
<1>11. <<FlattenSeq(r), FlattenSeq(u)>> \in Cutting(sep)
    BY <1>4, <1>5, <1>6, <1>7, <1>8, <1>10, FlattenRelated
<1>. QED
    BY <1>9, <1>11 DEF r

\* Lists of texts that commas do not cut, none of them empty.
Listed == {s \in Seq(Seq(Token)) :
             \A k \in DOMAIN s : s[k] \in Keeping(",", 0) /\ s[k] # <<>>}

\* The texts between commas are read back, one by one.
LEMMA SeparatedSplit ==
    ASSUME NEW seqs \in Listed, NEW trailing \in BOOLEAN, trailing => seqs # <<>>
    PROVE  NonEmpty(splitTopLevel(Separated(seqs, trailing), ",")) = seqs
<1>. DEFINE n == Len(seqs)
            Sep == Separated(seqs, trailing)
            g == [k \in DOMAIN seqs |-> seqs[k] \o
                     (IF k < Len(seqs) \/ trailing THEN <<",">> ELSE <<>>)]
            ended(s) == [k \in DOMAIN s |-> s[k] \o <<",">>]
<1>0. /\ "," \in Token /\ <<",">> \in Seq(Token) /\ <<>> \in Seq(Token)
      /\ seqs \in Seq(Seq(Token))
    <2>1. "," \in Token
        BY DEF Token
    <2>. QED
        BY <2>1, ShortText DEF Listed
<1>1. DOMAIN seqs = 1..n /\ n \in Nat /\ \A k \in DOMAIN seqs : seqs[k] \in Seq(Token)
    BY <1>0, ListIs
<1>5. \A k \in DOMAIN seqs : seqs[k] \in Keeping(",", 0) /\ seqs[k] # <<>>
    BY DEF Listed
<1>2. NonEmpty(seqs) = seqs /\ NonEmpty(Append(seqs, <<>>)) = seqs
    BY <1>0, <1>5, NonEmptyParts
<1>3. CASE trailing \/ seqs = <<>>
    <2>1. Sep = FlattenSeq(ended(seqs))
        <3>1. \A k \in DOMAIN seqs : trailing
            <4>1. seqs = <<>> => DOMAIN seqs = {}
                OBVIOUS
            <4>. QED
                BY <1>3, <4>1
        <3>2. g = ended(seqs)
            BY <3>1, Zenon
        <3>. QED
            BY <3>2 DEF Separated
    <2>2. <<Sep, seqs>> \in Cutting(",")
        BY <1>0, <1>5, <2>1, EndedCut
    <2>3. <<>> \in Keeping(",", 0)
        BY KeepShort
    <2>4. Sep \in Seq(Token)
        BY <2>2 DEF Cutting
    <2>. HIDE DEF Sep
    <2>5. splitTopLevel(Sep \o <<>>, ",") = Append(seqs, <<>>)
        BY <1>0, <2>2, <2>3, <2>4, SplitCut
    <2>6. Sep \o <<>> = Sep
        BY <2>4, ConcatEmptySeq
    <2>. QED
        BY <1>2, <2>5, <2>6 DEF Sep
<1>4. CASE ~trailing /\ seqs # <<>>
    <2>. DEFINE f == Front(seqs)
                l == seqs[n]
                m == n - 1
                h == ended(f)
    <2>1. /\ m \in Nat /\ m + 1 = n /\ n \in DOMAIN seqs /\ n \in 1..n
          /\ f \in Seq(Seq(Token)) /\ Len(f) = m
          /\ \A k \in 1..m : f[k] = seqs[k]
          /\ seqs = Append(f, l)
        <3>1. /\ n >= 1 /\ n - 1 \in Nat /\ n \in DOMAIN seqs
              /\ Front(seqs) \in Seq(Seq(Token)) /\ Len(Front(seqs)) = n - 1
              /\ \A k \in 1..(n - 1) : Front(seqs)[k] = seqs[k]
              /\ seqs = Append(Front(seqs), seqs[n])
            BY <1>0, <1>4, FrontLast
        <3>2. m + 1 = n /\ n \in 1..n
            BY <1>1, <3>1
        <3>. QED
            BY <3>1, <3>2
    <2>2. DOMAIN f = 1..m
        <3>. HIDE DEF f, m
        <3>. QED
            BY <2>1, ListIs
    <2>. HIDE DEF f, m, n
    <2>3. l \in Seq(Token) /\ l \in Keeping(",", 0)
        BY <1>1, <1>5, <2>1
    <2>4. DOMAIN h = 1..m /\ \A k \in 1..m : h[k] = f[k] \o <<",">>
        BY <2>2
    <2>5. \A k \in 1..m : k \in DOMAIN seqs /\ k < n
        BY <1>1, <2>1
    <2>6. DOMAIN g = 1..n /\ (\A k \in 1..m : g[k] = h[k]) /\ g[n] = l \o <<>>
        <3>1. DOMAIN g = DOMAIN seqs
            OBVIOUS
        <3>2. ASSUME NEW k \in 1..m PROVE g[k] = seqs[k] \o <<",">>
            BY <2>5 DEF n
        <3>3. g[n] = l \o <<>>
            <4>1. ~(n < n)
                BY <1>1
            <4>. QED
                BY <1>4, <2>1, <4>1 DEF n
        <3>. HIDE DEF g, h
        <3>. QED
            BY <1>1, <2>1, <2>4, <3>1, <3>2, <3>3
    <2>7. g[n] = l
        BY <2>3, <2>6, ConcatEmptySeq
    <2>8. \A k \in 1..m : h[k] \in Seq(Token)
        <3>1. \A k \in 1..m : f[k] \in Seq(Token)
            BY <1>1, <2>1, <2>5
        <3>. HIDE DEF h
        <3>. QED
            BY <1>0, <2>4, <3>1, TextAfter
    <2>9. h \in Seq(Seq(Token)) /\ Len(h) = m
        <3>1. h = [k \in 1..m |-> h[k]]
            BY <2>2
        <3>. HIDE DEF h
        <3>2. h \in Seq(Seq(Token)) /\ DOMAIN h = 1..m
            BY <2>1, <2>8, <3>1, ListWithin
        <3>3. DOMAIN h = 1..Len(h) /\ Len(h) \in Nat
            BY <3>2, ListIs
        <3>. QED
            BY <2>1, <3>2, <3>3
    <2>10. g \in Seq(Seq(Token)) /\ Len(g) = n
        <3>1. g = [k \in 1..n |-> g[k]]
            BY <1>1
        <3>. HIDE DEF g, h
        <3>2. ASSUME NEW k \in 1..n PROVE g[k] \in Seq(Token)
            <4>1. k \in 1..m \/ k = n
                BY <1>1, <2>1
            <4>. QED
                BY <2>3, <2>6, <2>7, <2>8, <4>1
        <3>3. g \in Seq(Seq(Token)) /\ DOMAIN g = 1..n
            BY <1>1, <3>1, <3>2, ListWithin
        <3>4. DOMAIN g = 1..Len(g) /\ Len(g) \in Nat
            BY <3>3, ListIs
        <3>. QED
            BY <1>1, <3>3, <3>4
    <2>11. Sep = FlattenSeq(h) \o l
        <3>1. Sep = FlattenSeq(g)
            BY DEF Separated
        <3>. HIDE DEF g, h, Sep
        <3>2. Len(g) = Len(h) + 1 /\ \A k \in DOMAIN h : g[k] = h[k]
            BY <2>1, <2>4, <2>6, <2>9, <2>10
        <3>3. FlattenSeq(g) = FlattenSeq(h) \o g[Len(g)]
            BY <2>9, <2>10, <3>2, FlattenFront
        <3>. QED
            BY <2>7, <2>10, <3>1, <3>3
    <2>12. <<FlattenSeq(h), f>> \in Cutting(",")
        <3>1. \A k \in DOMAIN f : f[k] \in Keeping(",", 0)
            BY <1>5, <2>1, <2>2, <2>5
        <3>2. f \in Seq(Seq(Token))
            BY <2>1
        <3>. QED
            BY <1>0, <3>1, <3>2, EndedCut
    <2>. DEFINE t == FlattenSeq(h)
    <2>13. t \in Seq(Token) /\ <<t, f>> \in Cutting(",")
        <3>1. t \in Seq(Token)
            BY <2>12 DEF Cutting
        <3>. QED
            BY <2>12, <3>1
    <2>. HIDE DEF t, l, h
    <2>14. splitTopLevel(t \o l, ",") = Append(f, l)
        <3>1. f \in Seq(Seq(Token))
            BY <2>1
        <3>. QED
            BY <2>3, <2>13, <3>1, SplitCut
    <2>15. Sep = t \o l
        BY <2>11 DEF t
    <2>. HIDE DEF Sep
    <2>. QED
        BY <1>2, <2>1, <2>14, <2>15 DEF Sep
<1>. QED
    BY <1>3, <1>4

\* What the group of a list of fields has inside.
Inner(fields, m) == Separated(Texts(fields), m.style = "trailing" /\ fields # <<>>)

\* A comma is a text of every kind that a field's is.
LEMMA CommaWritten ==
    /\ <<",">> \in Seq(Token) /\ <<",">> \in Keeping(";", 1)
    /\ <<",">> \in Paired("(", ")") /\ <<",">> \in Paired("{", "}")
    /\ <<<<",">>, <<",">>>> \in Cleanings /\ <<",">> \in HeadFree
<1>1. "," \in Token
    BY DEF Token
<1>2. <<",">> \in Seq(Token)
    BY <1>1, ShortText
<1>3. <<",">> \in Keeping(";", 1)
    <2>1. 1 \in Nat /\ "," \notin {"(", ")"} /\ "," # ";"
        OBVIOUS
    <2>. QED
        BY <1>1, <2>1, KeepShort
<1>4. "," \notin {"(", ")"} /\ "," \notin {"{", "}"} /\ "," \notin {"nl", "#"}
    OBVIOUS
<1>5. <<",">> \in Paired("(", ")") /\ <<",">> \in Paired("{", "}")
    BY <1>1, <1>4, PairedShort
<1>6. <<<<",">>, <<",">>>> \in Cleanings
    BY <1>1, <1>4, CleanShort
<1>7. <<",">> \in HeadFree
    <2>1. "," # "{"
        OBVIOUS
    <2>. QED
        BY <1>1, <2>1, FreeShort
<1>. QED
    BY <1>2, <1>3, <1>5, <1>6, <1>7

\* The texts of fields, one by one.
LEMMA TextsWritten ==
    ASSUME PlainNames, NEW fields \in Seq(WellField)
    PROVE  /\ Texts(fields) \in Listed /\ Texts(fields) \in Seq(Seq(Token))
           /\ DOMAIN Texts(fields) = DOMAIN fields
           /\ \A k \in DOMAIN fields :
                 fields[k] \in WellField /\ Texts(fields)[k] = FieldText(fields[k])
<1>1. DOMAIN fields = 1..Len(fields) /\ Len(fields) \in Nat
      /\ \A k \in DOMAIN fields : fields[k] \in WellField
    BY ListIs
<1>. DEFINE t == Texts(fields)
<1>2. DOMAIN t = DOMAIN fields /\ t = [k \in 1..Len(fields) |-> t[k]]
      /\ \A k \in DOMAIN fields : t[k] = FieldText(fields[k])
    BY <1>1 DEF Texts
<1>. HIDE DEF t
<1>3. \A k \in 1..Len(fields) : /\ t[k] \in Seq(Token) /\ t[k] # <<>>
                                 /\ t[k] \in Keeping(",", 0)
    BY <1>1, <1>2, FieldWritten
<1>4. t \in Seq(Seq(Token))
    BY <1>1, <1>2, <1>3, ListWithin
<1>5. t \in Listed
    BY <1>1, <1>2, <1>3, <1>4 DEF Listed
<1>. QED
    BY <1>1, <1>2, <1>4, <1>5 DEF t

\* What is inside a group has what its fields have.
LEMMA InnerWritten ==
    ASSUME PlainNames, NEW fields \in Seq(WellField), NEW m
    PROVE  /\ Inner(fields, m) \in Seq(Token) /\ Inner(fields, m) \in Keeping(";", 1)
           /\ Inner(fields, m) \in Paired("(", ")") /\ Inner(fields, m) \in Paired("{", "}")
           /\ <<Inner(fields, m), Inner(fields, m)>> \in Cleanings
           /\ Inner(fields, m) \in HeadFree
<1>. DEFINE t == Texts(fields)
            b == m.style = "trailing" /\ fields # <<>>
            C == {s \in Seq(Token) : <<s, s>> \in Cleanings}
<1>1. t \in Seq(Seq(Token)) /\ b \in BOOLEAN
    BY TextsWritten
<1>2. \A k \in DOMAIN t :
         /\ t[k] \in Seq(Token) /\ t[k] \in Keeping(";", 1)
         /\ t[k] \in Paired("(", ")") /\ t[k] \in Paired("{", "}") /\ t[k] \in C
         /\ t[k] \in HeadFree
    <2>1. ASSUME NEW k \in DOMAIN t
          PROVE  /\ t[k] \in Seq(Token) /\ t[k] \in Keeping(";", 1)
                 /\ t[k] \in Paired("(", ")") /\ t[k] \in Paired("{", "}")
                 /\ <<t[k], t[k]>> \in Cleanings /\ t[k] \in HeadFree
        <3>1. k \in DOMAIN fields /\ fields[k] \in WellField /\ t[k] = FieldText(fields[k])
            BY TextsWritten
        <3>. HIDE DEF t
        <3>. QED
            BY <3>1, FieldWritten
    <2>. HIDE DEF t
    <2>. QED
        BY <2>1
<1>3. <<>> \in Keeping(";", 1)
    <2>1. 1 \in Nat
        OBVIOUS
    <2>. QED
        BY <2>1, KeepShort
<1>4. <<>> \in Seq(Token) /\ <<>> \in Paired("(", ")") /\ <<>> \in Paired("{", "}")
      /\ <<<<>>, <<>>>> \in Cleanings
    BY ShortText, PairedShort, CleanShort
<1>5. <<>> \in C /\ <<",">> \in C
    BY <1>4, CommaWritten
<1>6. \A x, y \in Seq(Token) : x \in C /\ y \in C => x \o y \in C
    BY TextAfter, CleanConcat
<1>7. \A x, y \in Seq(Token) :
         x \in Keeping(";", 1) /\ y \in Keeping(";", 1) => x \o y \in Keeping(";", 1)
    <2>1. 1 \in Nat
        OBVIOUS
    <2>. QED
        BY <2>1, KeepConcat
<1>8. \A o, c : \A x, y \in Seq(Token) :
         x \in Paired(o, c) /\ y \in Paired(o, c) => x \o y \in Paired(o, c)
    BY PairedConcat
<1>. HIDE DEF t, b, C
<1>9. Separated(t, b) \in Keeping(";", 1)
    BY <1>1, <1>2, <1>3, <1>7, CommaWritten, SeparatedWithin
<1>10. Separated(t, b) \in Paired("(", ")")
    BY <1>1, <1>2, <1>4, <1>8, CommaWritten, SeparatedWithin
<1>11. Separated(t, b) \in Paired("{", "}")
    BY <1>1, <1>2, <1>4, <1>8, CommaWritten, SeparatedWithin
<1>12. Separated(t, b) \in C
    BY <1>1, <1>2, <1>5, <1>6, SeparatedWithin
<1>13. Separated(t, b) \in Seq(Token) /\ <<Separated(t, b), Separated(t, b)>> \in Cleanings
    BY <1>12 DEF C
<1>14. <<>> \in HeadFree
    BY FreeShort
<1>15. Separated(t, b) \in HeadFree
    BY <1>1, <1>2, <1>14, HeadFreeConcat, CommaWritten, SeparatedWithin
<1>. QED
    BY <1>9, <1>10, <1>11, <1>13, <1>15 DEF Inner, t, b

\* The fields of a group are read as they are written.
LEMMA InnerRead ==
    ASSUME PlainNames, NEW fields \in Seq(WellField), NEW m
    PROVE  /\ FieldsOK(Inner(fields, m))
           /\ FieldsAre(parseFields(Inner(fields, m)), fields)
<1>. DEFINE t == Texts(fields)
            b == m.style = "trailing" /\ fields # <<>>
            g == Inner(fields, m)
<1>1. t \in Listed /\ b \in BOOLEAN
    BY TextsWritten
<1>2. DOMAIN t = DOMAIN fields /\ \A k \in DOMAIN fields :
         fields[k] \in WellField /\ t[k] = FieldText(fields[k])
    BY TextsWritten
<1>3. b => t # <<>>
    <2>1. DOMAIN fields = 1..Len(fields) /\ Len(fields) \in Nat
        BY ListIs
    <2>2. fields # <<>> => Len(fields) # 0
        OBVIOUS
    <2>3. t = <<>> => DOMAIN t = {}
        OBVIOUS
    <2>4. Len(fields) # 0 => 1 \in DOMAIN fields
        BY <2>1
    <2>. HIDE DEF t
    <2>. QED
        BY <1>2, <2>2, <2>3, <2>4
<1>4. NonEmpty(splitTopLevel(g, ",")) = t
    <2>1. g = Separated(t, b)
        BY DEF Inner
    <2>. HIDE DEF t, b
    <2>. QED
        BY <1>1, <1>3, <2>1, SeparatedSplit
<1>. HIDE DEF t
<1>5. FieldsOK(g)
    <2>1. ASSUME NEW p \in Range(t) PROVE Contains(p, ":")
        <3>1. PICK k \in DOMAIN t : p = t[k]
            BY DEF Range
        <3>. QED
            BY <1>2, <3>1, FieldReadBack
    <2>. QED
        BY <1>4, <2>1 DEF FieldsOK
<1>6. FieldsAre(parseFields(g), fields)
    <2>. DEFINE r == parseFields(g)
    <2>1. r = [k \in DOMAIN t |->
                 [name |-> FieldName(t[k]),
                  type |-> SubSeq(t[k], Colon(t[k]) + 1, Len(t[k]))]]
        BY <1>4 DEF parseFields
    <2>2. DOMAIN r = DOMAIN fields
        BY <1>2, <2>1
    <2>3. ASSUME NEW k \in DOMAIN fields
          PROVE  r[k].name = <<fields[k].name>> /\ r[k].type = fields[k].type
        <3>1. k \in DOMAIN t /\ fields[k] \in WellField /\ t[k] = FieldText(fields[k])
            BY <1>2
        <3>2. FieldName(t[k]) = <<fields[k].name>>
              /\ SubSeq(t[k], Colon(t[k]) + 1, Len(t[k])) = fields[k].type
            BY <3>1, FieldReadBack
        <3>3. r[k] = [name |-> FieldName(t[k]),
                      type |-> SubSeq(t[k], Colon(t[k]) + 1, Len(t[k]))]
            BY <2>1, <3>1
        <3>. HIDE DEF r
        <3>. QED
            BY <3>2, <3>3
    <2>. HIDE DEF r
    <2>4. FieldsAre(r, fields)
        BY <2>2, <2>3 DEF FieldsAre
    <2>. QED
        BY <2>4 DEF r
<1>. QED
    BY <1>5, <1>6 DEF g

\* A group that closes what it opens is read as what it has inside, and what
\* follows it as that.
LEMMA GroupRead ==
    ASSUME NEW t \in Paired("(", ")"), NEW r \in Seq(Token)
    PROVE  LET s == (<<"(">> \o t \o <<")">>) \o r
           IN  IsGroup(s) /\ GroupInner(s) = t /\ GroupRest(s) = r
<1>. DEFINE g == <<"(">> \o t \o <<")">>
            s == g \o r
            n == Len(t)
            C == Closings(s, 1, "(", ")")
<1>1. t \in Seq(Token) /\ "(" \in Token /\ ")" \in Token
    BY DEF Paired, Token
<1>2. /\ g \in Seq(Token) /\ Len(g) = n + 2 /\ n \in Nat
      /\ g[1] = "(" /\ g[n + 2] = ")" /\ \A k \in 1..n : g[1 + k] = t[k]
    BY <1>1, BetweenAt
<1>. HIDE DEF g
<1>9. g \in Seq(Token)
    BY <1>2
<1>3. /\ Len(r) \in Nat /\ Len(s) = Len(g) + Len(r) /\ s \in Seq(Token)
      /\ \A k \in 1..Len(g) : s[k] = g[k]
    BY <1>9, ConcatAt
<1>. HIDE DEF s, n
<1>4. Len(s) = n + 2 + Len(r) /\ s[1] = "(" /\ s[n + 2] = ")"
      /\ \A k \in 1..n : s[1 + k] = t[k]
    BY <1>2, <1>3
<1>5. C # {} /\ Min(C) = n + 2
    <2>1. 1 \in Nat /\ 1 > 0 /\ 1 + n + 1 <= Len(s) /\ "(" # ")" /\ 1 + n + 1 = n + 2
        BY <1>2, <1>3, <1>4
    <2>2. s[1 + n + 1] = ")"
        BY <1>4, <2>1
    <2>3. 1 + Len(t) + 1 <= Len(s) /\ s[1] = "(" /\ s[1 + Len(t) + 1] = ")"
          /\ \A k \in 1..Len(t) : s[1 + k] = t[k]
        BY <1>4, <2>1, <2>2 DEF n
    <2>4. s \in Seq(Token)
        BY <1>3
    <2>5. C # {} /\ Min(C) = 1 + Len(t) + 1
        BY <2>1, <2>3, <2>4, ClosedBehind
    <2>. HIDE DEF C
    <2>. QED
        BY <2>1, <2>5 DEF n
<1>. HIDE DEF C
<1>6. IsGroup(s)
    <2>1. s # <<>>
        <3>1. Len(s) # 0
            BY <1>2, <1>3, <1>4
        <3>. QED
            BY <3>1
    <2>. QED
        BY <1>4, <1>5, <2>1 DEF IsGroup, C
<1>7. GroupInner(s) = t
    <2>1. 1 \in Nat /\ 1 + n <= Len(s) /\ 1 + n = n + 2 - 1 /\ 1 + 1 = 2
        BY <1>2, <1>3, <1>4
    <2>2. SubSeq(s, 1 + 1, 1 + n) = t
        BY <1>1, <1>3, <1>4, <2>1, SliceIs DEF n
    <2>3. SubSeq(s, 2, Min(C) - 1) = t
        <3>1. Min(C) - 1 = 1 + n
            BY <1>2, <1>5, <2>1
        <3>. QED
            BY <2>1, <2>2, <3>1
    <2>. QED
        BY <2>3 DEF GroupInner, C
<1>8. GroupRest(s) = r
    <2>1. SubSeq(s, Len(g) + 1, Len(s)) = r
        BY <1>2, CutConcat DEF s
    <2>. QED
        BY <1>2, <1>5, <2>1 DEF GroupRest, C
<1>. QED
    BY <1>6, <1>7, <1>8 DEF s, g

\* A word that stands nowhere before stands there first.
LEMMA FirstIs ==
    ASSUME NEW s \in Seq(Token), NEW w, NEW i \in 1..Len(s), s[i] = w,
           \A j \in 1..(i - 1) : s[j] # w
    PROVE  First(s, w) = i /\ Contains(s, w)
<1>. DEFINE I == {j \in 1..Len(s) : s[j] = w}
<1>1. i \in I /\ I \subseteq Nat /\ I # {} /\ \A j \in I : i <= j
    <2>1. i \in Nat /\ Len(s) \in Nat
        OBVIOUS
    <2>2. ASSUME NEW j \in I, ~(i <= j) PROVE FALSE
        <3>1. j \in 1..(i - 1)
            BY <2>1, <2>2
        <3>. QED
            BY <3>1
    <2>. QED
        BY <2>1, <2>2
<1>2. First(s, w) = Min(I)
    BY <1>1 DEF First, SelectInSeq
<1>3. Contains(s, w)
    BY DEF Contains
<1>. HIDE DEF I
<1>4. Min(I) \in I /\ \A j \in I : Min(I) <= j
    BY <1>1, MinOfNats
<1>5. Min(I) \in Nat /\ i \in Nat /\ Min(I) <= i /\ i <= Min(I)
    BY <1>1, <1>4
<1>. QED
    BY <1>2, <1>3, <1>5

-----------------------------------------------------------------------------
(* Declarations of methods.                                                  *)

\* The parts of a declaration: what no semicolon cuts, nothing is cut out of, no
\* interface is found in, and has its braces.
Fragment ==
    {t \in Seq(Token) : /\ t \in Keeping(";", 0) /\ t \in Paired("{", "}")
                        /\ <<t, t>> \in Cleanings /\ t \in HeadFree}

\* Two such parts make one,
LEMMA FragmentConcat ==
    ASSUME NEW s \in Fragment, NEW t \in Fragment
    PROVE  s \o t \in Fragment
<1>1. s \in Seq(Token) /\ t \in Seq(Token) /\ s \in Keeping(";", 0) /\ t \in Keeping(";", 0)
      /\ s \in Paired("{", "}") /\ t \in Paired("{", "}") /\ <<s, s>> \in Cleanings
      /\ <<t, t>> \in Cleanings /\ s \in HeadFree /\ t \in HeadFree
    BY DEF Fragment
<1>2. 0 \in Nat
    OBVIOUS
<1>3. s \o t \in Keeping(";", 0)
    BY <1>1, <1>2, KeepConcat
<1>4. s \o t \in Paired("{", "}")
    BY <1>1, PairedConcat
<1>5. <<s \o t, s \o t>> \in Cleanings
    BY <1>1, CleanConcat
<1>6. s \o t \in Seq(Token) /\ s \o t \in HeadFree
    BY <1>1, HeadFreeConcat, TextAfter
<1>. QED
    BY <1>3, <1>4, <1>5, <1>6 DEF Fragment

\* and words without punctuation are one.
LEMMA FragmentText ==
    ASSUME NEW t \in Seq(Token),
           \A k \in DOMAIN t : t[k] \notin {"(", ")", "{", "}", ";", "#", "nl"}
    PROVE  t \in Fragment
<1>1. t \in Keeping(";", 0)
    <2>1. 0 \in Nat /\ \A k \in DOMAIN t : t[k] \notin {"(", ")"} /\ (t[k] # ";" \/ 0 > 0)
        OBVIOUS
    <2>. QED
        BY <2>1, KeepText
<1>2. t \in Paired("{", "}")
    <2>1. \A k \in DOMAIN t : t[k] \notin {"{", "}"}
        OBVIOUS
    <2>. QED
        BY <2>1, PairedText
<1>3. <<t, t>> \in Cleanings
    <2>1. \A k \in DOMAIN t : t[k] \notin {"nl", "#"}
        OBVIOUS
    <2>. QED
        BY <2>1, CleanText
<1>4. t \in HeadFree
    <2>1. \A k \in DOMAIN t : t[k] # "{"
        OBVIOUS
    <2>. QED
        BY <2>1, BracelessFree
<1>. QED
    BY <1>1, <1>2, <1>3, <1>4 DEF Fragment

\* A word, and two.
LEMMA FragmentShort ==
    ASSUME NEW w \in Token, w \notin {"(", ")", "{", "}", ";", "#", "nl"}
    PROVE  <<w>> \in Fragment
<1>1. <<w>> \in Seq(Token)
    BY ShortText
<1>2. \A k \in DOMAIN <<w>> : <<w>>[k] = w
    BY OneWord
<1>. DEFINE t == <<w>>
<1>. HIDE DEF t
<1>3. t \in Seq(Token) /\ \A k \in DOMAIN t : t[k] \notin {"(", ")", "{", "}", ";", "#", "nl"}
    BY <1>1, <1>2 DEF t
<1>4. t \in Fragment
    BY <1>3, FragmentText
<1>. QED
    BY <1>4 DEF t

\* A method whose fields are well written.
WellMethod == {m \in MethodDecl : m.params \in Seq(WellField) /\ m.results \in Seq(WellField)}

\* A group is such a part.
LEMMA GroupFragment ==
    ASSUME PlainNames, NEW fields \in Seq(WellField), NEW m
    PROVE  /\ Group(fields, m) = <<"(">> \o Inner(fields, m) \o <<")">>
           /\ Group(fields, m) \in Fragment
<1>. DEFINE t == Inner(fields, m)
            g == <<"(">> \o t \o <<")">>
<1>1. /\ t \in Seq(Token) /\ t \in Keeping(";", 1) /\ t \in Paired("{", "}")
      /\ <<t, t>> \in Cleanings
    BY InnerWritten
<1>2. Group(fields, m) = g
    BY DEF Group, Inner, Texts, FieldText
<1>. HIDE DEF t
<1>3. "(" \in Token /\ ")" \in Token
    BY DEF Token
<1>4. <<"(">> \in Seq(Token) /\ <<")">> \in Seq(Token)
    BY <1>3, ShortText
<1>5. g \in Keeping(";", 0)
    <2>1. ";" \notin {"(", ")"}
        OBVIOUS
    <2>. QED
        BY <1>1, <2>1, KeepGroup
<1>6. <<"(">> \in Paired("{", "}") /\ <<")">> \in Paired("{", "}")
    <2>1. "(" \notin {"{", "}"} /\ ")" \notin {"{", "}"}
        OBVIOUS
    <2>. QED
        BY <1>3, <2>1, PairedShort
<1>7. g \in Paired("{", "}")
    <2>1. <<"(">> \o t \in Paired("{", "}")
        BY <1>1, <1>6, PairedConcat
    <2>. QED
        BY <1>6, <2>1, PairedConcat
<1>8. <<"(">> \o t \in Seq(Token)
    BY <1>1, <1>4, TextAfter
<1>9. g \in Seq(Token)
    BY <1>4, <1>8, TextAfter
<1>10. <<g, g>> \in Cleanings
    <2>1. "(" \notin {"nl", "#"} /\ ")" \notin {"nl", "#"}
        OBVIOUS
    <2>2. <<<<"(">>, <<"(">>>> \in Cleanings /\ <<<<")">>, <<")">>>> \in Cleanings
        BY <1>3, <2>1, CleanShort
    <2>3. <<<<"(">> \o t, <<"(">> \o t>> \in Cleanings
        BY <1>1, <1>4, <2>2, CleanConcat
    <2>. QED
        BY <1>4, <1>8, <2>2, <2>3, CleanConcat
<1>11. g \in HeadFree
    <2>1. <<"(">> \in HeadFree /\ <<")">> \in HeadFree
        <3>1. "(" # "{" /\ ")" # "{"
            OBVIOUS
        <3>. QED
            BY <1>3, <3>1, FreeShort
    <2>2. t \in HeadFree
        BY InnerWritten DEF t
    <2>3. <<"(">> \o t \in HeadFree
        BY <2>1, <2>2, HeadFreeConcat
    <2>. QED
        BY <2>1, <2>3, HeadFreeConcat
<1>12. g \in Fragment
    BY <1>5, <1>7, <1>9, <1>10, <1>11 DEF Fragment
<1>. QED
    BY <1>2, <1>12 DEF t

\* The parts of a declaration: its name and ordinal, what it takes, what it gives,
\* and an annotation.
Naming(m, k) == <<m.name, Ordinals[k]>>
Taking(m) == IF m.style = "struct" THEN <<"P">> ELSE Group(m.params, m)
Giving(m) == IF m.style = "noResults" THEN <<>> ELSE <<"->">> \o Group(m.results, m)
Noting(m) == IF m.style = "noted" THEN <<"$", "(", "x", ")">> ELSE <<>>
Declared(m, k) == Naming(m, k) \o Taking(m) \o Giving(m) \o Noting(m)

\* All of them are such parts.
LEMMA PartsWritten ==
    ASSUME PlainNames, NEW m \in WellMethod, NEW k \in DOMAIN Ordinals
    PROVE  /\ Naming(m, k) \in Fragment /\ Taking(m) \in Fragment
           /\ Giving(m) \in Fragment /\ Noting(m) \in Fragment
           /\ m.name \notin Punctuation /\ Ordinals[k] \notin Punctuation
           /\ m.name \in Words /\ Ordinals[k] \in Range(Ordinals)
           /\ m.params \in Seq(WellField) /\ m.results \in Seq(WellField)
<1>1. m \in MethodDecl /\ m.params \in Seq(WellField) /\ m.results \in Seq(WellField)
    BY DEF WellMethod
<1>2. m.name \in Words
    BY <1>1 DEF MethodDecl
<1>3. Ordinals[k] \in Range(Ordinals)
    BY DEF Range
<1>4. m.name \notin Punctuation /\ Ordinals[k] \notin Punctuation
    BY <1>2, <1>3 DEF PlainNames
<1>5. STRING \subseteq Token /\ Words \subseteq STRING
    BY GeneratorAssumption DEF Token
<1>6. Ordinals[k] \in STRING
    BY GeneratorAssumption
<1>7. m.name \in Token /\ Ordinals[k] \in Token
    BY <1>2, <1>5, <1>6
<1>8. Naming(m, k) \in Fragment
    <2>. DEFINE t == <<m.name, Ordinals[k]>>
    <2>1. t \in Seq(Token)
        <3>1. \A x, y \in Token : <<x, y>> \in Seq(Token)
            BY ShortText
        <3>. QED
            BY <1>7, <3>1
    <2>2. DOMAIN t = 1..2 /\ t[1] = m.name /\ t[2] = Ordinals[k]
        OBVIOUS
    <2>3. \A w : w \notin Punctuation => w \notin {"(", ")", "{", "}", ";", "#", "nl"}
        BY DEF Punctuation
    <2>4. \A j \in 1..2 : j = 1 \/ j = 2
        OBVIOUS
    <2>. HIDE DEF t
    <2>5. \A j \in DOMAIN t : t[j] \notin {"(", ")", "{", "}", ";", "#", "nl"}
        BY <1>4, <2>2, <2>3, <2>4
    <2>6. t \in Fragment
        BY <2>1, <2>5, FragmentText
    <2>. QED
        BY <2>6 DEF t, Naming
<1>9. <<>> \in Fragment
    <2>1. <<>> \in Seq(Token)
        BY ShortText
    <2>2. DOMAIN <<>> = {}
        OBVIOUS
    <2>3. \A j \in DOMAIN <<>> : <<>>[j] \notin {"(", ")", "{", "}", ";", "#", "nl"}
        BY <2>2
    <2>. QED
        BY <2>1, <2>3, FragmentText
<1>10. Taking(m) \in Fragment
    <2>1. "P" \in Token /\ "P" \notin {"(", ")", "{", "}", ";", "#", "nl"}
        BY DEF Token
    <2>2. <<"P">> \in Fragment
        BY <2>1, FragmentShort
    <2>3. Group(m.params, m) \in Fragment
        BY <1>1, GroupFragment
    <2>. QED
        BY <2>2, <2>3 DEF Taking
<1>11. Giving(m) \in Fragment
    <2>1. "->" \in Token /\ "->" \notin {"(", ")", "{", "}", ";", "#", "nl"}
        BY DEF Token
    <2>2. <<"->">> \in Fragment
        BY <2>1, FragmentShort
    <2>3. Group(m.results, m) \in Fragment
        BY <1>1, GroupFragment
    <2>4. <<"->">> \o Group(m.results, m) \in Fragment
        BY <2>2, <2>3, FragmentConcat
    <2>. QED
        BY <1>9, <2>4 DEF Giving
<1>12. Noting(m) \in Fragment
    <2>. DEFINE t == <<"$", "(", "x", ")">>
    <2>1. "$" \in Token /\ "(" \in Token /\ "x" \in Token /\ ")" \in Token
        BY DEF Token
    <2>2. <<"$">> \in Fragment
        <3>1. "$" \notin {"(", ")", "{", "}", ";", "#", "nl"}
            OBVIOUS
        <3>. QED
            BY <2>1, <3>1, FragmentShort
    <2>3. <<"x">> \in Seq(Token) /\ <<"(">> \in Seq(Token) /\ <<")">> \in Seq(Token)
        BY <2>1, ShortText
    <2>. DEFINE g == <<"(">> \o <<"x">> \o <<")">>
    <2>4. g \in Fragment
        <3>1. <<"x">> \in Keeping(";", 1)
            <4>1. "x" \notin {"(", ")"} /\ "x" # ";" /\ 1 \in Nat
                OBVIOUS
            <4>. QED
                BY <2>1, <4>1, KeepShort
        <3>2. ";" \notin {"(", ")"}
            OBVIOUS
        <3>3. g \in Keeping(";", 0)
            BY <3>1, <3>2, KeepGroup
        <3>4. g \in Seq(Token)
            BY <3>3 DEF Keeping
        <3>5. DOMAIN g = 1..3 /\ g[1] = "(" /\ g[2] = "x" /\ g[3] = ")"
            OBVIOUS
        <3>6. \A j \in DOMAIN g : g[j] \notin {"{", "}", "#", "nl"}
            <4>1. \A j \in 1..3 : j = 1 \/ j = 2 \/ j = 3
                OBVIOUS
            <4>. HIDE DEF g
            <4>. QED
                BY <3>5, <4>1
        <3>. HIDE DEF g
        <3>7. g \in Paired("{", "}")
            <4>1. \A j \in DOMAIN g : g[j] \notin {"{", "}"}
                BY <3>6
            <4>. QED
                BY <3>4, <4>1, PairedText
        <3>8. <<g, g>> \in Cleanings
            <4>1. \A j \in DOMAIN g : g[j] \notin {"nl", "#"}
                BY <3>6
            <4>. QED
                BY <3>4, <4>1, CleanText
        <3>9. g \in HeadFree
            <4>1. \A j \in DOMAIN g : g[j] # "{"
                BY <3>6
            <4>. QED
                BY <3>4, <4>1, BracelessFree
        <3>. QED
            BY <3>3, <3>4, <3>7, <3>8, <3>9 DEF Fragment
    <2>5. t = <<"$">> \o g
        OBVIOUS
    <2>. HIDE DEF g
    <2>6. <<"$">> \o g \in Fragment
        BY <2>2, <2>4, FragmentConcat
    <2>. QED
        BY <1>9, <2>5, <2>6 DEF Noting
<1>. QED
    BY <1>1, <1>2, <1>3, <1>4, <1>8, <1>10, <1>11, <1>12

\* So is a declaration.
LEMMA DeclaredWritten ==
    ASSUME PlainNames, NEW m \in WellMethod, NEW k \in DOMAIN Ordinals
    PROVE  /\ Declared(m, k) \in Fragment /\ Declared(m, k) # <<>>
           /\ Naming(m, k) \in Seq(Token) /\ Taking(m) \in Seq(Token)
           /\ Giving(m) \in Seq(Token) /\ Noting(m) \in Seq(Token)
<1>. DEFINE a == Naming(m, k)
            b == Taking(m)
            c == Giving(m)
            d == Noting(m)
<1>1. a \in Fragment /\ b \in Fragment /\ c \in Fragment /\ d \in Fragment
    BY PartsWritten
<1>2. a[1] = m.name /\ Len(a) = 2
    BY DEF Naming
<1>. HIDE DEF a, b, c, d
<1>3. a \in Seq(Token) /\ b \in Seq(Token) /\ c \in Seq(Token) /\ d \in Seq(Token)
    BY <1>1 DEF Fragment
<1>4. a \o b \in Fragment
    BY <1>1, FragmentConcat
<1>5. a \o b \o c \in Fragment
    BY <1>1, <1>4, FragmentConcat
<1>6. a \o b \o c \o d \in Fragment
    BY <1>1, <1>5, FragmentConcat
<1>7. a \o b \o c \o d # <<>>
    <2>1. a \o b \in Seq(Token) /\ a \o b \o c \in Seq(Token)
        BY <1>4, <1>5 DEF Fragment
    <2>2. Len(b) \in Nat /\ Len(c) \in Nat /\ Len(d) \in Nat
        BY <1>3, ListIs
    <2>3. Len(a \o b) = Len(a) + Len(b)
        BY <1>3, ConcatAt
    <2>4. Len(a \o b \o c) = Len(a \o b) + Len(c)
        BY <1>3, <2>1, ConcatAt
    <2>5. Len(a \o b \o c \o d) = Len(a \o b \o c) + Len(d)
        BY <1>3, <2>1, ConcatAt
    <2>. DEFINE u == a \o b
                v == u \o c
                w == v \o d
    <2>6. Len(w) = Len(v) + Len(d) /\ Len(v) = Len(u) + Len(c) /\ Len(u) = Len(a) + Len(b)
        BY <2>3, <2>4, <2>5
    <2>. HIDE DEF u, v, w
    <2>7. Len(w) # 0
        BY <1>2, <2>2, <2>6
    <2>8. w # <<>>
        BY <2>7
    <2>. QED
        BY <2>8 DEF u, v, w
<1>. QED
    BY <1>3, <1>6, <1>7 DEF Declared, a, b, c, d

\* The styles that the parser does not know.
UnknownStyles == {"noResults", "struct", "nested"}

\* What is not there stands nowhere first, and what stands first is there.
LEMMA FirstThere ==
    ASSUME NEW s \in Seq(Token), NEW w
    PROVE  /\ First(s, w) \in 0..Len(s) /\ First(s, w) # 0 => s[First(s, w)] = w
<1>. DEFINE I == {j \in 1..Len(s) : s[j] = w}
<1>1. I \subseteq Nat
    OBVIOUS
<1>2. First(s, w) = IF I # {} THEN Min(I) ELSE 0
    BY DEF First, SelectInSeq
<1>3. \A j \in I : s[j] = w
    OBVIOUS
<1>. HIDE DEF I
<1>4. I # {} => Min(I) \in I
    BY <1>1, MinOfNats
<1>5. First(s, w) # 0 => s[First(s, w)] = w
    BY <1>2, <1>3, <1>4
<1>. QED
    BY <1>5, FirstAt

\* Where a declaration's parts stand, behind its name.
LEMMA DeclaredParts ==
    ASSUME PlainNames, NEW m \in WellMethod, NEW k \in DOMAIN Ordinals
    PROVE  LET s == Declared(m, k)
               r == Giving(m) \o Noting(m)
               p == Taking(m) \o r
           IN  /\ s = Naming(m, k) \o p /\ s \in Seq(Token) /\ p \in Seq(Token)
               /\ r \in Seq(Token) /\ Len(s) >= 2 /\ Len(p) \in Nat
               /\ Len(s) = 2 + Len(p)
               /\ s[1] = m.name /\ s[2] = Ordinals[k]
               /\ \A j \in 1..Len(p) : s[2 + j] = p[j]
               /\ SubSeq(s, 1, 2) = Naming(m, k) /\ SubSeq(s, 3, Len(s)) = p
<1>. DEFINE a == Naming(m, k)
            b == Taking(m)
            c == Giving(m)
            d == Noting(m)
            r == c \o d
            p == b \o r
            s == Declared(m, k)
<1>1. a \in Seq(Token) /\ b \in Seq(Token) /\ c \in Seq(Token) /\ d \in Seq(Token)
    BY DeclaredWritten
<1>2. a[1] = m.name /\ a[2] = Ordinals[k] /\ Len(a) = 2
    BY DEF Naming
<1>3. s = a \o b \o c \o d
    BY DEF Declared
<1>. HIDE DEF a, b, c, d, s
<1>4. r \in Seq(Token) /\ a \o b \in Seq(Token)
    BY <1>1, TextAfter
<1>5. p \in Seq(Token)
    BY <1>1, <1>4, TextAfter
<1>6. s = a \o p
    <2>. DEFINE u == a \o b
    <2>1. u \in Seq(Token) /\ r \in Seq(Token)
        BY <1>4
    <2>. HIDE DEF u, r, p
    <2>2. (u \o c) \o d = u \o (c \o d)
        <3>1. u \in Seq(Token) /\ c \in Seq(Token) /\ d \in Seq(Token)
            BY <1>1, <2>1
        <3>. QED
            BY <3>1, TextsAssociative, Zenon
    <2>3. (a \o b) \o r = a \o (b \o r)
        <3>1. a \in Seq(Token) /\ b \in Seq(Token) /\ r \in Seq(Token)
            BY <1>1, <2>1
        <3>. QED
            BY <3>1, TextsAssociative, Zenon
    <2>. QED
        BY <1>3, <2>2, <2>3 DEF u, r, p
<1>. HIDE DEF p, r
<1>7. /\ Len(p) \in Nat /\ Len(a \o p) = Len(a) + Len(p) /\ a \o p \in Seq(Token)
      /\ \A j \in 1..Len(a) : (a \o p)[j] = a[j]
      /\ \A j \in 1..Len(p) : (a \o p)[Len(a) + j] = p[j]
    BY <1>1, <1>5, ConcatAt
<1>8. SubSeq(a \o p, 1, Len(a)) = a /\ SubSeq(a \o p, Len(a) + 1, Len(a \o p)) = p
    BY <1>1, <1>5, CutConcat
<1>9. Len(s) = 2 + Len(p) /\ Len(s) >= 2 /\ s \in Seq(Token) /\ Len(p) \in Nat
    BY <1>2, <1>6, <1>7
<1>10. s[1] = m.name /\ s[2] = Ordinals[k]
    BY <1>2, <1>6, <1>7
<1>11. \A j \in 1..Len(p) : s[2 + j] = p[j]
    BY <1>2, <1>6, <1>7
<1>12. SubSeq(s, 1, 2) = a /\ SubSeq(s, 3, Len(s)) = p
    <2>1. Len(a) + 1 = 3
        BY <1>2
    <2>. QED
        BY <1>2, <1>6, <1>8, <2>1
<1>. QED
    BY <1>4, <1>5, <1>6, <1>9, <1>10, <1>11, <1>12 DEF s, p, r, a, b, c, d

\* A declaration with a group of parameters is split behind its ordinal.
LEMMA HeaderRead ==
    ASSUME PlainNames, NEW m \in WellMethod, NEW k \in DOMAIN Ordinals,
           m.style # "struct"
    PROVE  LET s == Declared(m, k)
               r == Giving(m) \o Noting(m)
           IN  /\ Contains(s, "(") /\ Header(s) = Naming(m, k)
               /\ IsGroup(Params(s)) /\ GroupInner(Params(s)) = Inner(m.params, m)
               /\ GroupRest(Params(s)) = r
<1>. DEFINE s == Declared(m, k)
            r == Giving(m) \o Noting(m)
            g == Group(m.params, m)
            t == Inner(m.params, m)
            p == g \o r
            b == Taking(m)
<1>1. b = g
    BY DEF Taking
<1>2. /\ s \in Seq(Token) /\ p \in Seq(Token) /\ r \in Seq(Token) /\ Len(p) \in Nat
      /\ Len(s) = 2 + Len(p) /\ s[1] = m.name /\ s[2] = Ordinals[k]
      /\ \A j \in 1..Len(p) : s[2 + j] = p[j]
      /\ SubSeq(s, 1, 2) = Naming(m, k) /\ SubSeq(s, 3, Len(s)) = p
    <2>. DEFINE u == b \o r
    <2>1. /\ s \in Seq(Token) /\ u \in Seq(Token) /\ r \in Seq(Token) /\ Len(u) \in Nat
          /\ Len(s) = 2 + Len(u) /\ s[1] = m.name /\ s[2] = Ordinals[k]
          /\ \A j \in 1..Len(u) : s[2 + j] = u[j]
          /\ SubSeq(s, 1, 2) = Naming(m, k) /\ SubSeq(s, 3, Len(s)) = u
        BY DeclaredParts
    <2>2. u = p
        BY <1>1
    <2>. HIDE DEF u, p, s, r
    <2>. QED
        BY <2>1, <2>2
<1>3. m.params \in Seq(WellField) /\ m.name # "(" /\ Ordinals[k] # "("
    BY PartsWritten DEF Punctuation
<1>4. g = <<"(">> \o t \o <<")">> /\ t \in Paired("(", ")")
    BY <1>3, GroupFragment, InnerWritten
<1>. HIDE DEF s, r, g, t
<1>5. IsGroup(p) /\ GroupInner(p) = t /\ GroupRest(p) = r
    BY <1>2, <1>4, GroupRead
<1>6. p[1] = "(" /\ Len(p) # 0
    <2>1. p[1] = "(" /\ p # <<>>
        BY <1>5 DEF IsGroup
    <2>. HIDE DEF p
    <2>. QED
        BY <1>2, <2>1
<1>. HIDE DEF p
<1>7. s[3] = "(" /\ 3 \in 1..Len(s)
    <2>1. 1 \in 1..Len(p) /\ 2 + 1 = 3
        BY <1>2, <1>6
    <2>2. s[2 + 1] = "("
        BY <1>2, <1>6, <2>1
    <2>. QED
        BY <1>2, <1>6, <2>1, <2>2
<1>8. \A j \in 1..(3 - 1) : s[j] # "("
    <2>1. \A j \in 1..(3 - 1) : j = 1 \/ j = 2
        OBVIOUS
    <2>. QED
        BY <1>2, <1>3, <2>1
<1>9. First(s, "(") = 3 /\ Contains(s, "(")
    BY <1>2, <1>7, <1>8, FirstIs
<1>10. Header(s) = Naming(m, k)
    <2>1. 3 - 1 = 2
        OBVIOUS
    <2>. QED
        BY <1>2, <1>9, <2>1 DEF Header
<1>11. Params(s) = p
    <2>1. Len(Naming(m, k)) + 1 = 3
        BY DEF Naming
    <2>. QED
        BY <1>2, <1>10, <2>1 DEF Params
<1>. QED
    BY <1>5, <1>9, <1>10, <1>11 DEF s, r, t

\* A method whose style is known is read as it is written.
LEMMA MethodRead ==
    ASSUME PlainNames, NEW m \in WellMethod, NEW k \in DOMAIN Ordinals,
           m.style \notin UnknownStyles
    PROVE  /\ IsMethod(Declared(m, k)) /\ AsMethod(Declared(m, k)).name = m.name
           /\ FieldsAre(AsMethod(Declared(m, k)).params, m.params)
           /\ FieldsAre(AsMethod(Declared(m, k)).results, m.results)
<1>. DEFINE s == Declared(m, k)
            d == Noting(m)
            g == Group(m.results, m)
            t == Inner(m.results, m)
            q == g \o d
            r == Giving(m) \o d
<1>1. m.style # "struct" /\ m.style # "noResults"
    BY DEF UnknownStyles
<1>2. /\ Contains(s, "(") /\ Header(s) = Naming(m, k)
      /\ IsGroup(Params(s)) /\ GroupInner(Params(s)) = Inner(m.params, m)
      /\ GroupRest(Params(s)) = r
    BY <1>1, HeaderRead
<1>3. /\ m.params \in Seq(WellField) /\ m.results \in Seq(WellField)
      /\ m.name \in Words /\ Ordinals[k] \in Range(Ordinals)
    BY PartsWritten
<1>4. Giving(m) = <<"->">> \o g
    BY <1>1 DEF Giving
<1>5. d \in Seq(Token) /\ g \in Seq(Token) /\ s[1] = m.name
    <2>1. g \in Fragment
        BY <1>3, GroupFragment
    <2>2. d \in Seq(Token) /\ s[1] = m.name
        BY DeclaredWritten, DeclaredParts
    <2>. QED
        BY <2>1, <2>2 DEF Fragment
<1>6. g = <<"(">> \o t \o <<")">> /\ t \in Paired("(", ")")
    BY <1>3, GroupFragment, InnerWritten
<1>7. "->" \in Token /\ <<"->">> \in Seq(Token)
    <2>1. "->" \in Token
        BY DEF Token
    <2>. QED
        BY <2>1, ShortText
<1>. HIDE DEF s, d, g, t
<1>8. q \in Seq(Token) /\ r = <<"->">> \o q
    <2>1. (<<"->">> \o g) \o d = <<"->">> \o (g \o d)
        BY <1>5, <1>7, TextsAssociative, Zenon
    <2>2. g \o d \in Seq(Token)
        BY <1>5, TextAfter
    <2>. QED
        BY <1>4, <2>1, <2>2
<1>9. IsGroup(q) /\ GroupInner(q) = t
    BY <1>5, <1>6, GroupRead
<1>. HIDE DEF q, r
<1>10. Contains(r, "->") /\ SubSeq(r, First(r, "->") + 1, Len(r)) = q
    <2>. DEFINE a == <<"->">>
    <2>1. Len(a) = 1 /\ a[1] = "->"
        OBVIOUS
    <2>2. a \in Seq(Token) /\ r = a \o q
        BY <1>7, <1>8
    <2>. HIDE DEF a
    <2>3. /\ Len(q) \in Nat /\ Len(a \o q) = Len(a) + Len(q) /\ a \o q \in Seq(Token)
          /\ \A j \in 1..Len(a) : (a \o q)[j] = a[j]
        BY <1>8, <2>2, ConcatAt
    <2>4. SubSeq(a \o q, Len(a) + 1, Len(a \o q)) = q
        BY <1>8, <2>2, CutConcat
    <2>5. r \in Seq(Token) /\ 1 \in 1..Len(r) /\ r[1] = "->" /\ \A j \in 1..(1 - 1) : r[j] # "->"
        BY <2>1, <2>2, <2>3
    <2>6. First(r, "->") = 1 /\ Contains(r, "->")
        BY <2>5, FirstIs
    <2>. QED
        BY <2>1, <2>2, <2>4, <2>6
<1>11. Results(s) = q
    BY <1>2, <1>10 DEF Results
<1>12. FieldsOK(GroupInner(Params(s))) /\ FieldsOK(GroupInner(Results(s)))
    BY <1>2, <1>3, <1>9, <1>11, InnerRead DEF t
<1>13. FieldsAre(parseFields(GroupInner(Params(s))), m.params)
       /\ FieldsAre(parseFields(GroupInner(Results(s))), m.results)
    BY <1>2, <1>3, <1>9, <1>11, InnerRead DEF t
<1>14. IsMethod(s)
    <2>1. Len(Header(s)) = 2 /\ Header(s)[1] = m.name /\ Header(s)[2] = Ordinals[k]
        BY <1>2 DEF Naming
    <2>2. IsGroup(Results(s)) /\ Contains(GroupRest(Params(s)), "->")
        BY <1>2, <1>9, <1>10, <1>11
    <2>. QED
        BY <1>2, <1>3, <1>12, <2>1, <2>2, Zenon DEF IsMethod
<1>15. /\ AsMethod(s).name = s[1]
       /\ AsMethod(s).params = parseFields(GroupInner(Params(s)))
       /\ AsMethod(s).results = parseFields(GroupInner(Results(s)))
    BY DEF AsMethod
<1>. QED
    BY <1>5, <1>13, <1>14, <1>15 DEF s

\* The struct that a nested declaration stands below, up to its semicolon.
StructText == <<"struct", "P", "{", "a", "@0", ":", "Text">>

\* Word by word.
LEMMA StructWritten ==
    /\ StructText \in Seq(Token) /\ Len(StructText) = 7 /\ DOMAIN StructText = 1..7
    /\ StructText[1] = "struct" /\ StructText[2] = "P" /\ StructText[3] = "{"
    /\ StructText[4] = "a" /\ StructText[5] = "@0" /\ StructText[6] = ":"
    /\ StructText[7] = "Text"
    /\ \A j \in DOMAIN StructText : StructText[j] \notin {"(", ")", ";", "}", "#", "nl"}
<1>1. Len(StructText) = 7 /\ DOMAIN StructText = 1..7
    BY DEF StructText
<1>2. /\ StructText[1] = "struct" /\ StructText[2] = "P" /\ StructText[3] = "{"
      /\ StructText[4] = "a" /\ StructText[5] = "@0" /\ StructText[6] = ":"
      /\ StructText[7] = "Text"
    BY DEF StructText
<1>3. \A j \in 1..7 : j = 1 \/ j = 2 \/ j = 3 \/ j = 4 \/ j = 5 \/ j = 6 \/ j = 7
    OBVIOUS
<1>4. \A j \in DOMAIN StructText : StructText[j] \notin {"(", ")", ";", "}", "#", "nl"}
    BY <1>1, <1>2, <1>3
<1>5. StructText \in Seq(Token)
    <2>1. /\ "struct" \in Token /\ "P" \in Token /\ "{" \in Token /\ "a" \in Token
          /\ "@0" \in Token /\ ":" \in Token /\ "Text" \in Token
        BY DEF Token
    <2>2. \A j \in 1..7 : StructText[j] \in Token
        BY <1>2, <1>3, <2>1
    <2>3. StructText = [j \in 1..7 |-> StructText[j]] /\ 7 \in Nat
        BY DEF StructText
    <2>. QED
        BY <2>2, <2>3, ListWithin
<1>. QED
    BY <1>1, <1>2, <1>4, <1>5

\* It is no method: it has no parentheses.
LEMMA StructUnread == ~IsMethod(StructText)
<1>1. ASSUME Contains(StructText, "(") PROVE FALSE
    <2>1. PICK j \in 1..Len(StructText) : StructText[j] = "("
        BY <1>1 DEF Contains
    <2>2. DOMAIN StructText = 1..Len(StructText)
        BY StructWritten, ListIs
    <2>. QED
        BY <2>1, <2>2, StructWritten
<1>. QED
    BY <1>1 DEF IsMethod

\* Nor is a declaration without results, or with a struct for parameters.
LEMMA DeclaredUnread ==
    ASSUME PlainNames, NEW m \in WellMethod, NEW k \in DOMAIN Ordinals,
           m.style \in {"noResults", "struct"}
    PROVE  ~IsMethod(Declared(m, k))
<1>. DEFINE s == Declared(m, k)
<1>1. CASE m.style = "struct"
    <2>. DEFINE r == Giving(m) \o Noting(m)
                p == Taking(m) \o r
                a == <<"P">>
    <2>1. s \in Seq(Token) /\ r \in Seq(Token) /\ Len(p) \in Nat /\ Len(s) = 2 + Len(p)
          /\ \A j \in 1..Len(p) : s[2 + j] = p[j]
        BY DeclaredParts
    <2>2. a \in Seq(Token) /\ p = a \o r
        <3>1. "P" \in Token
            BY DEF Token
        <3>. QED
            BY <1>1, <3>1, ShortText DEF Taking
    <2>3. Len(a) = 1 /\ a[1] = "P"
        OBVIOUS
    <2>. HIDE DEF a, r, p, s
    <2>4. r \in Seq(Token)
        BY <2>1
    <2>5. /\ Len(r) \in Nat /\ Len(a \o r) = Len(a) + Len(r)
          /\ \A j \in 1..Len(a) : (a \o r)[j] = a[j]
        BY <2>2, <2>4, ConcatAt
    <2>6. s[3] = "P" /\ 3 \in 1..Len(s)
        <3>1. 1 \in 1..Len(a) /\ 1 \in 1..Len(p) /\ 2 + 1 = 3
            BY <2>2, <2>3, <2>5
        <3>2. p[1] = "P" /\ s[2 + 1] = p[1]
            BY <2>1, <2>2, <2>3, <2>5, <3>1
        <3>. QED
            BY <2>1, <3>1, <3>2
    <2>. DEFINE f == First(s, "(")
    <2>7. f \in 0..Len(s) /\ f # 0 => s[f] = "("
        BY <2>1, FirstThere
    <2>8. f \in 0..Len(s)
        BY <2>1, FirstAt
    <2>9. f # 3
        <3>. HIDE DEF f
        <3>. QED
            BY <2>6, <2>7, <2>8
    <2>10. Len(Header(s)) # 2
        <3>. DEFINE n == f - 1
        <3>1. n \in Int /\ 1 \in Int /\ n # 2 /\ n <= Len(s)
            <4>. HIDE DEF f
            <4>. QED
                BY <2>1, <2>8, <2>9
        <3>2. Header(s) = SubSeq(s, 1, n)
            BY DEF Header
        <3>. HIDE DEF n
        <3>3. \A j \in 1..n : s[j] \in Token
            <4>1. \A j \in 1..n : j \in 1..Len(s)
                BY <2>1, <3>1
            <4>. QED
                BY <2>1, <4>1, WordsOf
        <3>4. Len(SubSeq(s, 1, n)) = IF 1 <= n THEN n - 1 + 1 ELSE 0
            BY <3>1, <3>3, SubSeqProperties
        <3>. QED
            BY <3>1, <3>2, <3>4
    <2>. QED
        BY <2>10 DEF IsMethod, s
<1>2. CASE m.style = "noResults"
    <2>1. Giving(m) = <<>> /\ Noting(m) = <<>>
        BY <1>2 DEF Giving, Noting
    <2>2. <<>> \o <<>> = <<>>
        OBVIOUS
    <2>3. GroupRest(Params(s)) = Giving(m) \o Noting(m)
        BY <1>2, HeaderRead
    <2>4. GroupRest(Params(s)) = <<>>
        BY <2>1, <2>2, <2>3
    <2>5. ~Contains(<<>>, "->")
        BY DEF Contains
    <2>. QED
        BY <2>4, <2>5 DEF IsMethod
<1>. QED
    BY <1>1, <1>2

\* What stands above a declaration, and what of it is not a comment.
Above(m) == CASE m.style = "commented" -> Remark
              [] m.style = "nested" -> StructText \o <<";", "}">>
              [] OTHER -> <<>>
LeftAbove(m) == IF m.style = "nested" THEN StructText \o <<";", "}">> ELSE <<>>

\* A method without comments, and the statements it is cut into.
Stripped(m, k) == LeftAbove(m) \o Declared(m, k) \o <<";">>
Lines(m, k) == IF m.style = "nested" THEN <<StructText, <<"}">> \o Declared(m, k)>>
               ELSE <<Declared(m, k)>>

\* What stands above is a text of its own.
LEMMA AboveWritten ==
    ASSUME NEW m
    PROVE  /\ Above(m) \in Seq(Token) /\ LeftAbove(m) \in Seq(Token)
           /\ <<Above(m), LeftAbove(m)>> \in Cleanings
           /\ LeftAbove(m) \in Paired("{", "}") /\ LeftAbove(m) \in HeadFree
<1>. DEFINE e == <<";", "}">>
            t == StructText \o e
<1>1. e \in Seq(Token) /\ Len(e) = 2 /\ e[1] = ";" /\ e[2] = "}"
    <2>1. ";" \in Token /\ "}" \in Token
        BY DEF Token
    <2>2. \A x, y \in Token : <<x, y>> \in Seq(Token)
        BY ShortText
    <2>. QED
        BY <2>1, <2>2
<1>2. /\ StructText \in Seq(Token) /\ Len(StructText) = 7
      /\ \A j \in DOMAIN StructText : StructText[j] \notin {"(", ")", ";", "}", "#", "nl"}
      /\ DOMAIN StructText = 1..7
    <2>. HIDE DEF t, e
    <2>. QED
        BY StructWritten, Zenon
<1>4. t \in Seq(Token)
    <2>. HIDE DEF e
    <2>. QED
        BY <1>1, <1>2, TextAfter
<1>5. Len(t) = 9 /\ DOMAIN t = 1..9 /\ t[1] = "struct" /\ t[2] = "P" /\ t[3] = "{" /\ t[4] = "a"
      /\ t[5] = "@0" /\ t[6] = ":" /\ t[7] = "Text" /\ t[8] = ";" /\ t[9] = "}"
    <2>1. StructText \in Seq(Token) /\ e \in Seq(Token)
        BY <1>1, <1>2
    <2>. HIDE DEF e
    <2>2. /\ Len(StructText \o e) = Len(StructText) + Len(e)
          /\ \A j \in 1..Len(StructText) : (StructText \o e)[j] = StructText[j]
          /\ \A j \in 1..Len(e) : (StructText \o e)[Len(StructText) + j] = e[j]
        BY <2>1, ConcatAt
    <2>3. Len(t) = 9 /\ (\A j \in 1..7 : t[j] = StructText[j]) /\ \A j \in 1..2 : t[7 + j] = e[j]
        <3>1. Len(t) = Len(StructText) + Len(e)
              /\ (\A j \in 1..Len(StructText) : t[j] = StructText[j])
              /\ \A j \in 1..Len(e) : t[Len(StructText) + j] = e[j]
            BY <2>2
        <3>2. Len(StructText) = 7 /\ Len(e) = 2
            BY <1>1, <1>2
        <3>. HIDE DEF t
        <3>. QED
            BY <3>1, <3>2
    <2>4. DOMAIN t = 1..9
        BY <1>4, <2>3, ListIs
    <2>. HIDE DEF t
    <2>5. t[8] = ";" /\ t[9] = "}"
        <3>1. 1 \in 1..2 /\ 2 \in 1..2 /\ 7 + 1 = 8 /\ 7 + 2 = 9
            OBVIOUS
        <3>2. t[7 + 1] = e[1] /\ t[7 + 2] = e[2]
            BY <2>3, <3>1
        <3>. QED
            BY <1>1, <3>1, <3>2
    <2>6. /\ t[1] = StructText[1] /\ t[2] = StructText[2] /\ t[3] = StructText[3]
          /\ t[4] = StructText[4] /\ t[5] = StructText[5] /\ t[6] = StructText[6]
          /\ t[7] = StructText[7]
        BY <2>3
    <2>. QED
        BY <2>3, <2>4, <2>5, <2>6, StructWritten
<1>6. \A j \in 1..9 : j = 1 \/ j = 2 \/ j = 3 \/ j = 4 \/ j = 5 \/ j = 6 \/ j = 7
                        \/ j = 8 \/ j = 9
    OBVIOUS
<1>7. <<t, t>> \in Cleanings
    <2>. HIDE DEF t
    <2>1. \A j \in DOMAIN t : t[j] \notin {"nl", "#"}
        BY <1>5, <1>6
    <2>. QED
        BY <1>4, <2>1, CleanText
<1>8. t \in HeadFree
    <2>. HIDE DEF t
    <2>1. \A j \in DOMAIN t : t[j] = "{" => j = 3
        BY <1>5, <1>6
    <2>2. t[3 - 2] # "interface" /\ 3 >= 3
        <3>1. 3 - 2 = 1 /\ 3 >= 3
            OBVIOUS
        <3>. QED
            BY <1>5, <3>1
    <2>3. \A j \in DOMAIN t : t[j] = "{" =>
             j >= 3 /\ (t[j - 2] = "interface" => t[j - 1] \notin Words)
        BY <2>1, <2>2
    <2>. QED
        BY <1>4, <2>3 DEF HeadFree
<1>9. t \in Paired("{", "}")
    <2>1. ASSUME NEW d \in Nat PROVE Runs(HeightSteps("{", "}"), t, d, d)
        <3>. DEFINE c == [j \in 0..9 |-> IF j \in 3..8 THEN d + 1 ELSE d]
        <3>1. /\ c[0] = d /\ c[1] = d /\ c[2] = d /\ c[3] = d + 1 /\ c[4] = d + 1
              /\ c[5] = d + 1 /\ c[6] = d + 1 /\ c[7] = d + 1 /\ c[8] = d + 1 /\ c[9] = d
            OBVIOUS
        <3>. HIDE DEF c, t
        <3>2. ASSUME NEW x \in Nat, NEW w \in Token, w \notin {"{", "}"}
              PROVE  <<x, w, x>> \in HeightSteps("{", "}")
            <4>1. Opens(w, "{", "}") = 0
                <5>1. w # "{" /\ w # "}"
                    BY <3>2
                <5>. QED
                    BY <5>1 DEF Opens
            <4>2. x = x + 0
                OBVIOUS
            <4>. QED
                BY <4>1, <4>2 DEF HeightSteps
        <3>3. <<d, "{", d + 1>> \in HeightSteps("{", "}")
            <4>1. Opens("{", "{", "}") = 1 /\ d + 1 \in Nat /\ "{" \in Token
                BY DEF Opens, Token
            <4>. QED
                BY <4>1 DEF HeightSteps
        <3>4. <<d + 1, "}", d>> \in HeightSteps("{", "}")
            <4>1. Opens("}", "{", "}") = -1 /\ d + 1 \in Nat /\ "}" \in Token
                BY DEF Opens, Token
            <4>2. d = (d + 1) + (-1)
                OBVIOUS
            <4>. QED
                BY <4>1, <4>2 DEF HeightSteps
        <3>5. \A j \in 1..9 : t[j] \in Token
            BY <1>4, <1>5, WordsOf
        <3>6. d \in Nat /\ d + 1 \in Nat
            OBVIOUS
        <3>7. /\ t[1] \in Token /\ t[2] \in Token /\ t[4] \in Token /\ t[5] \in Token
              /\ t[6] \in Token /\ t[7] \in Token /\ t[8] \in Token
            BY <3>5
        <3>8. /\ t[1] \notin {"{", "}"} /\ t[2] \notin {"{", "}"} /\ t[4] \notin {"{", "}"}
              /\ t[5] \notin {"{", "}"} /\ t[6] \notin {"{", "}"} /\ t[7] \notin {"{", "}"}
              /\ t[8] \notin {"{", "}"}
            BY <1>5
        <3>11. <<c[0], t[1], c[1]>> \in HeightSteps("{", "}")
            BY <3>1, <3>2, <3>6, <3>7, <3>8
        <3>12. <<c[1], t[2], c[2]>> \in HeightSteps("{", "}")
            BY <3>1, <3>2, <3>6, <3>7, <3>8
        <3>13. <<c[2], t[3], c[3]>> \in HeightSteps("{", "}")
            BY <1>5, <3>1, <3>3
        <3>14. <<c[3], t[4], c[4]>> \in HeightSteps("{", "}")
            BY <3>1, <3>2, <3>6, <3>7, <3>8
        <3>15. <<c[4], t[5], c[5]>> \in HeightSteps("{", "}")
            BY <3>1, <3>2, <3>6, <3>7, <3>8
        <3>16. <<c[5], t[6], c[6]>> \in HeightSteps("{", "}")
            BY <3>1, <3>2, <3>6, <3>7, <3>8
        <3>17. <<c[6], t[7], c[7]>> \in HeightSteps("{", "}")
            BY <3>1, <3>2, <3>6, <3>7, <3>8
        <3>18. <<c[7], t[8], c[8]>> \in HeightSteps("{", "}")
            BY <3>1, <3>2, <3>6, <3>7, <3>8
        <3>19. <<c[8], t[9], c[9]>> \in HeightSteps("{", "}")
            BY <1>5, <3>1, <3>4
        <3>9. \A j \in 0..(Len(t) - 1) : <<c[j], t[j + 1], c[j + 1]>> \in HeightSteps("{", "}")
            <4>1. Len(t) - 1 = 8
                <5>1. Len(t) = 9
                    BY <1>5
                <5>. QED
                    BY <5>1
            <4>2. \A j \in 0..8 : \/ j = 0 \/ j = 1 \/ j = 2 \/ j = 3 \/ j = 4
                                  \/ j = 5 \/ j = 6 \/ j = 7 \/ j = 8
                OBVIOUS
            <4>3. /\ 0 + 1 = 1 /\ 1 + 1 = 2 /\ 2 + 1 = 3 /\ 3 + 1 = 4 /\ 4 + 1 = 5
                  /\ 5 + 1 = 6 /\ 6 + 1 = 7 /\ 7 + 1 = 8 /\ 8 + 1 = 9
                OBVIOUS
            <4>4. \A j \in 0..8 : <<c[j], t[j + 1], c[j + 1]>> \in HeightSteps("{", "}")
                <5>. DEFINE P(j) == <<c[j], t[j + 1], c[j + 1]>> \in HeightSteps("{", "}")
                <5>1. P(0) /\ P(1) /\ P(2)
                    BY <3>11, <3>12, <3>13, <4>3
                <5>2. P(3) /\ P(4) /\ P(5)
                    BY <3>14, <3>15, <3>16, <4>3
                <5>3. P(6) /\ P(7) /\ P(8)
                    BY <3>17, <3>18, <3>19, <4>3
                <5>. HIDE DEF P
                <5>4. \A j \in 0..8 : P(j)
                    BY <4>2, <5>1, <5>2, <5>3
                <5>. QED
                    BY <5>4 DEF P
            <4>. QED
                BY <4>1, <4>4
        <3>10. c[Len(t)] = d
            BY <1>5, <3>1
        <3>. QED
            BY <3>1, <3>9, <3>10 DEF Runs
    <2>. HIDE DEF t
    <2>. QED
        BY <1>4, <2>1 DEF Paired
<1>10. /\ <<>> \in Seq(Token) /\ <<<<>>, <<>>>> \in Cleanings /\ <<>> \in Paired("{", "}")
       /\ <<>> \in HeadFree
    BY ShortText, CleanShort, PairedShort, FreeShort
<1>11. Remark \in Seq(Token) /\ <<Remark, <<>>>> \in Cleanings
    BY CleanRemark DEF Cleanings
<1>. HIDE DEF t
<1>12. CASE m.style = "nested"
    <2>1. Above(m) = t /\ LeftAbove(m) = t
        BY <1>12 DEF Above, LeftAbove, t
    <2>. QED
        BY <1>4, <1>7, <1>8, <1>9, <2>1
<1>13. CASE m.style = "commented"
    <2>1. Above(m) = Remark /\ LeftAbove(m) = <<>>
        BY <1>13 DEF Above, LeftAbove
    <2>. QED
        BY <1>10, <1>11, <2>1
<1>14. CASE m.style \notin {"commented", "nested"}
    <2>1. Above(m) = <<>> /\ LeftAbove(m) = <<>>
        BY <1>14 DEF Above, LeftAbove
    <2>. QED
        BY <1>10, <2>1
<1>. QED
    BY <1>12, <1>13, <1>14

\* A method as it is written: what stands above it, and its declaration.
LEMMA WrittenIs ==
    ASSUME PlainNames, NEW m \in WellMethod, NEW k \in DOMAIN Ordinals
    PROVE  Written(m, k) = Above(m) \o Declared(m, k) \o <<";">>
<1>. DEFINE x == Above(m)
            a == Naming(m, k)
            b == Taking(m)
            c == Giving(m)
            d == Noting(m)
<1>1. Written(m, k) = ((((x \o a) \o b) \o c) \o d) \o <<";">>
    BY DEF Written, Above, Naming, Taking, Giving, Noting, Remark, StructText
<1>2. a \in Seq(Token) /\ b \in Seq(Token) /\ c \in Seq(Token) /\ d \in Seq(Token)
      /\ x \in Seq(Token)
    BY DeclaredWritten, AboveWritten
<1>3. Declared(m, k) = ((a \o b) \o c) \o d
    BY DEF Declared
<1>. HIDE DEF x, a, b, c, d
<1>4. (x \o a) \o b = x \o (a \o b)
    <2>1. x \in Seq(Token) /\ a \in Seq(Token) /\ b \in Seq(Token)
        BY <1>2
    <2>. QED
        BY <2>1, TextsAssociative, Zenon
<1>. DEFINE u == a \o b
<1>5. u \in Seq(Token)
    BY <1>2, TextAfter
<1>. HIDE DEF u
<1>6. (x \o u) \o c = x \o (u \o c)
    <2>1. x \in Seq(Token) /\ u \in Seq(Token) /\ c \in Seq(Token)
        BY <1>2, <1>5
    <2>. QED
        BY <2>1, TextsAssociative, Zenon
<1>. DEFINE v == u \o c
<1>7. v \in Seq(Token)
    BY <1>2, <1>5, TextAfter
<1>. HIDE DEF v
<1>8. (x \o v) \o d = x \o (v \o d)
    <2>1. x \in Seq(Token) /\ v \in Seq(Token) /\ d \in Seq(Token)
        BY <1>2, <1>7
    <2>. QED
        BY <2>1, TextsAssociative, Zenon
<1>9. ((((x \o a) \o b) \o c) \o d) = x \o (((a \o b) \o c) \o d)
    BY <1>4, <1>6, <1>8 DEF u, v
<1>. QED
    BY <1>1, <1>3, <1>9 DEF x

\* What is left of it.
LEMMA WrittenStripped ==
    ASSUME PlainNames, NEW m \in WellMethod, NEW k \in DOMAIN Ordinals
    PROVE  /\ <<Written(m, k), Stripped(m, k)>> \in Cleanings
           /\ Written(m, k) \in Seq(Token) /\ Stripped(m, k) \in Seq(Token)
           /\ Stripped(m, k) \in Paired("{", "}") /\ Stripped(m, k) \in HeadFree
<1>. DEFINE x == Above(m)
            y == LeftAbove(m)
            d == Declared(m, k)
            e == <<";">>
<1>1. /\ x \in Seq(Token) /\ y \in Seq(Token) /\ <<x, y>> \in Cleanings
      /\ y \in Paired("{", "}") /\ y \in HeadFree
    BY AboveWritten
<1>2. /\ d \in Seq(Token) /\ <<d, d>> \in Cleanings /\ d \in Paired("{", "}")
      /\ d \in HeadFree
    BY DeclaredWritten DEF Fragment
<1>3. /\ e \in Seq(Token) /\ <<e, e>> \in Cleanings /\ e \in Paired("{", "}")
      /\ e \in HeadFree
    <2>1. ";" \in Token /\ ";" \notin {"nl", "#"} /\ ";" \notin {"{", "}"} /\ ";" # "{"
        BY DEF Token
    <2>. QED
        BY <2>1, ShortText, CleanShort, PairedShort, FreeShort
<1>4. Written(m, k) = x \o d \o e
    BY WrittenIs
<1>5. Stripped(m, k) = y \o d \o e
    BY DEF Stripped
<1>. HIDE DEF x, y, d, e
<1>6. x \o d \in Seq(Token) /\ y \o d \in Seq(Token) /\ <<x \o d, y \o d>> \in Cleanings
    <2>1. x \o d \in Seq(Token) /\ y \o d \in Seq(Token)
        BY <1>1, <1>2, TextAfter
    <2>2. <<x \o d, y \o d>> \in Cleanings
        BY <1>1, <1>2, CleanConcat
    <2>. QED
        BY <2>1, <2>2
<1>7. <<x \o d \o e, y \o d \o e>> \in Cleanings
    BY <1>3, <1>6, CleanConcat
<1>8. x \o d \o e \in Seq(Token) /\ y \o d \o e \in Seq(Token)
    BY <1>3, <1>6, TextAfter
<1>9. y \o d \o e \in Paired("{", "}")
    <2>1. y \o d \in Paired("{", "}")
        BY <1>1, <1>2, PairedConcat
    <2>. QED
        BY <1>3, <2>1, PairedConcat
<1>10. y \o d \o e \in HeadFree
    <2>1. y \o d \in HeadFree
        BY <1>1, <1>2, HeadFreeConcat
    <2>. QED
        BY <1>3, <2>1, HeadFreeConcat
<1>. QED
    BY <1>4, <1>5, <1>7, <1>8, <1>9, <1>10

\* Two words one after the other.
LEMMA TwoWords == ASSUME NEW x, NEW y PROVE <<x>> \o <<y>> = <<x, y>>
<1>. DEFINE S == {x, y}
<1>1. x \in S /\ y \in S
    OBVIOUS
<1>. HIDE DEF S
<1>2. <<x>> \in Seq(S) /\ <<y>> \in Seq(S)
    BY <1>1, ShortText
<1>3. <<x, y>> \in Seq(S)
    <2>1. \A a, b \in S : <<a, b>> \in Seq(S)
        BY ShortText
    <2>. QED
        BY <1>1, <2>1
<1>. DEFINE t == <<x>> \o <<y>>
            u == <<x, y>>
<1>4. /\ t \in Seq(S) /\ Len(t) = Len(<<x>>) + Len(<<y>>)
      /\ (\A k \in 1..Len(<<x>>) : t[k] = <<x>>[k])
      /\ \A k \in 1..Len(<<y>>) : t[Len(<<x>>) + k] = <<y>>[k]
    BY <1>2, ConcatAt
<1>5. Len(<<x>>) = 1 /\ Len(<<y>>) = 1 /\ <<x>>[1] = x /\ <<y>>[1] = y
    OBVIOUS
<1>6. Len(u) = 2 /\ u[1] = x /\ u[2] = y
    OBVIOUS
<1>7. u \in Seq(S)
    BY <1>3
<1>. HIDE DEF t, u
<1>8. Len(t) = 2 /\ t[1] = x /\ t[2] = y
    <2>1. 1 \in 1..1 /\ 1 + 1 = 2
        OBVIOUS
    <2>2. Len(t) = 1 + 1 /\ t[1] = <<x>>[1] /\ t[1 + 1] = <<y>>[1]
        BY <1>4, <1>5, <2>1
    <2>. QED
        BY <1>5, <2>1, <2>2
<1>9. \A k \in 1..2 : t[k] = u[k]
    BY <1>6, <1>8
<1>10. t = u
    BY <1>4, <1>6, <1>7, <1>8, <1>9, SeqEqual
<1>. QED
    BY <1>10 DEF t, u

\* Before a text, nothing is nothing.
LEMMA NothingBefore == ASSUME NEW S, NEW s \in Seq(S) PROVE <<>> \o s = s /\ s \o <<>> = s
BY ConcatEmptySeq

\* A method is cut into its statements.
LEMMA WrittenCut ==
    ASSUME PlainNames, NEW m \in WellMethod, NEW k \in DOMAIN Ordinals
    PROVE  /\ <<Stripped(m, k), Lines(m, k)>> \in Cutting(";")
           /\ Lines(m, k) \in Seq(Seq(Token)) /\ Lines(m, k) # <<>>
           /\ \A j \in DOMAIN Lines(m, k) : Lines(m, k)[j] # <<>>
<1>. DEFINE d == Declared(m, k)
            e == <<";">>
            c == <<"}">>
<1>1. d \in Seq(Token) /\ d # <<>> /\ d \in Keeping(";", 0)
    BY DeclaredWritten DEF Fragment
<1>2. e \in Seq(Token) /\ c \in Seq(Token) /\ ";" \in Token /\ c \in Keeping(";", 0)
    <2>1. ";" \in Token /\ "}" \in Token /\ "}" \notin {"(", ")"} /\ "}" # ";" /\ 0 \in Nat
        BY DEF Token
    <2>. QED
        BY <2>1, ShortText, KeepShort
<1>3. CASE m.style # "nested"
    <2>1. Stripped(m, k) = <<>> \o d \o e /\ Lines(m, k) = <<d>>
        BY <1>3 DEF Stripped, Lines, LeftAbove
    <2>2. <<>> \o d = d
        <3>. HIDE DEF d
        <3>. QED
            BY <1>1, NothingBefore
    <2>3. <<d \o e, <<d>>>> \in Cutting(";")
        BY <1>1, <1>2, CutShort
    <2>4. <<d>> \in Seq(Seq(Token)) /\ <<d>> # <<>> /\ \A j \in DOMAIN <<d>> : <<d>>[j] # <<>>
        <3>. HIDE DEF d
        <3>1. <<d>> \in Seq(Seq(Token))
            BY <1>1, ShortText
        <3>2. \A j \in DOMAIN <<d>> : <<d>>[j] # <<>>
            BY <1>1, OneWord
        <3>. QED
            BY <3>1, <3>2
    <2>. HIDE DEF d, e
    <2>. QED
        BY <2>1, <2>2, <2>3, <2>4
<1>4. CASE m.style = "nested"
    <2>. DEFINE s == StructText
                f == <<";", "}">>
                v == c \o d
    <2>1. s \in Seq(Token) /\ s # <<>> /\ s \in Keeping(";", 0)
        <3>1. \A j \in DOMAIN StructText :
                 StructText[j] \notin {"(", ")"} /\ (StructText[j] # ";" \/ 0 > 0)
            BY StructWritten
        <3>2. 0 \in Nat /\ StructText \in Seq(Token) /\ Len(StructText) = 7
            BY StructWritten
        <3>3. StructText # <<>>
            <4>1. Len(<<>>) = 0 /\ 7 # 0
                OBVIOUS
            <4>. QED
                BY <3>2, <4>1
        <3>4. StructText \in Keeping(";", 0)
            BY <3>1, <3>2, KeepText
        <3>. QED
            BY <3>2, <3>3, <3>4
    <2>2. f \in Seq(Token) /\ f = e \o c
        <3>1. ";" \in Token /\ "}" \in Token
            BY DEF Token
        <3>2. <<";", "}">> \in Seq(Token)
            BY <3>1, ShortText
        <3>3. <<";", "}">> = <<";">> \o <<"}">>
            BY TwoWords
        <3>. QED
            BY <3>2, <3>3
    <2>3. Stripped(m, k) = ((s \o f) \o d) \o e /\ Lines(m, k) = <<s, v>>
        BY <1>4 DEF Stripped, Lines, LeftAbove
    <2>. HIDE DEF d, e, c, s, f
    <2>4. v \in Seq(Token) /\ v \in Keeping(";", 0) /\ v # <<>>
        <3>1. v \in Seq(Token) /\ Len(v) = Len(c) + Len(d)
            BY <1>1, <1>2, ConcatAt
        <3>2. v \in Keeping(";", 0)
            BY <1>1, <1>2, KeepConcat
        <3>3. Len(c) = 1 /\ Len(d) \in Nat
            BY <1>1, ListIs DEF c
        <3>4. v # <<>>
            <4>. HIDE DEF v
            <4>. QED
                BY <3>1, <3>3
        <3>. QED
            BY <3>1, <3>2, <3>4
    <2>5. ((s \o f) \o d) \o e = (s \o e) \o (v \o e)
        <3>1. s \o f = (s \o e) \o c
            <4>1. s \in Seq(Token) /\ e \in Seq(Token) /\ c \in Seq(Token)
                BY <1>2, <2>1
            <4>2. (s \o e) \o c = s \o (e \o c)
                BY <4>1, TextsAssociative, Zenon
            <4>. QED
                BY <2>2, <4>2
        <3>. DEFINE x == s \o e
        <3>2. x \in Seq(Token)
            BY <1>2, <2>1, TextAfter
        <3>. HIDE DEF x
        <3>3. (x \o c) \o d = x \o (c \o d)
            BY <1>1, <1>2, <3>2, TextsAssociative, Zenon
        <3>4. (x \o v) \o e = x \o (v \o e)
            <4>. HIDE DEF v
            <4>. QED
                BY <1>2, <2>4, <3>2, TextsAssociative, Zenon
        <3>. QED
            BY <3>1, <3>3, <3>4 DEF x
    <2>. HIDE DEF v
    <2>6. <<s \o e, <<s>>>> \in Cutting(";") /\ <<v \o e, <<v>>>> \in Cutting(";")
        BY <1>2, <2>1, <2>4, CutShort DEF e
    <2>7. <<s>> \in Seq(Seq(Token)) /\ <<v>> \in Seq(Seq(Token)) /\ <<s, v>> \in Seq(Seq(Token))
          /\ s \o e \in Seq(Token) /\ v \o e \in Seq(Token)
        <3>1. s \o e \in Seq(Token) /\ v \o e \in Seq(Token)
            BY <1>2, <2>1, <2>4, TextAfter
        <3>2. \A x, y \in Seq(Token) : <<x, y>> \in Seq(Seq(Token))
            BY ShortText
        <3>3. \A x \in Seq(Token) : <<x>> \in Seq(Seq(Token))
            BY ShortText
        <3>4. s \in Seq(Token) /\ v \in Seq(Token)
            BY <2>1, <2>4
        <3>. QED
            BY <3>1, <3>2, <3>3, <3>4
    <2>8. <<(s \o e) \o (v \o e), <<s>> \o <<v>>>> \in Cutting(";")
        BY <2>6, <2>7, CutConcatenated
    <2>9. <<s>> \o <<v>> = <<s, v>>
        BY TwoWords
    <2>10. <<s, v>> # <<>> /\ \A j \in DOMAIN <<s, v>> : <<s, v>>[j] # <<>>
        <3>1. DOMAIN <<s, v>> = {1, 2} /\ <<s, v>>[1] = s /\ <<s, v>>[2] = v
            OBVIOUS
        <3>2. <<s, v>> # <<>>
            OBVIOUS
        <3>. QED
            BY <2>1, <2>4, <3>1, <3>2
    <2>. QED
        BY <2>3, <2>5, <2>7, <2>8, <2>9, <2>10
<1>. QED
    BY <1>3, <1>4

\* The statements of a method are one that is read as the method, or have one
\* among them that is not read.
LEMMA LinesRead ==
    ASSUME PlainNames, NEW m \in WellMethod, NEW k \in DOMAIN Ordinals
    PROVE  /\ m.style \notin UnknownStyles =>
                Lines(m, k) = <<Declared(m, k)>> /\ IsMethod(Declared(m, k))
           /\ m.style \in UnknownStyles =>
                \E j \in DOMAIN Lines(m, k) : ~IsMethod(Lines(m, k)[j])
<1>1. CASE m.style \notin UnknownStyles
    <2>1. m.style # "nested"
        BY <1>1 DEF UnknownStyles
    <2>2. Lines(m, k) = <<Declared(m, k)>>
        BY <2>1 DEF Lines
    <2>3. IsMethod(Declared(m, k))
        BY <1>1, MethodRead
    <2>. QED
        BY <1>1, <2>2, <2>3
<1>2. CASE m.style \in {"noResults", "struct"}
    <2>1. m.style # "nested"
        BY <1>2
    <2>2. Lines(m, k) = <<Declared(m, k)>>
        BY <2>1 DEF Lines
    <2>3. ~IsMethod(Declared(m, k))
        BY <1>2, DeclaredUnread
    <2>4. 1 \in DOMAIN <<Declared(m, k)>> /\ <<Declared(m, k)>>[1] = Declared(m, k)
        BY OneWord
    <2>5. ~IsMethod(Lines(m, k)[1]) /\ 1 \in DOMAIN Lines(m, k)
        BY <2>2, <2>3, <2>4
    <2>6. m.style \in UnknownStyles
        BY <1>2 DEF UnknownStyles
    <2>. QED
        BY <2>5, <2>6
<1>3. CASE m.style = "nested"
    <2>. DEFINE v == <<"}">> \o Declared(m, k)
    <2>1. Lines(m, k) = <<StructText, v>>
        BY <1>3 DEF Lines
    <2>. HIDE DEF v
    <2>2. 1 \in DOMAIN <<StructText, v>> /\ <<StructText, v>>[1] = StructText
        OBVIOUS
    <2>3. ~IsMethod(Lines(m, k)[1]) /\ 1 \in DOMAIN Lines(m, k)
        BY <2>1, <2>2, StructUnread
    <2>4. m.style \in UnknownStyles
        BY <1>3 DEF UnknownStyles
    <2>. QED
        BY <2>3, <2>4
<1>. QED
    BY <1>1, <1>2, <1>3 DEF UnknownStyles

-----------------------------------------------------------------------------
(* The body of an interface.                                                 *)

\* An interface whose methods are well written.
WellInterface ==
    {in \in InterfaceDecl : /\ in.methods \in Seq(WellMethod)
                            /\ Len(in.methods) <= Len(Ordinals)}

\* Its body as it is written, without comments, and the statements it is cut into.
BodyText(in) == FlattenSeq([k \in DOMAIN in.methods |-> Written(in.methods[k], k)])
Body(in) == FlattenSeq([k \in DOMAIN in.methods |-> Stripped(in.methods[k], k)])
Stmts(in) == FlattenSeq([k \in DOMAIN in.methods |-> Lines(in.methods[k], k)])

\* The methods of an interface have ordinals.
LEMMA Numbered ==
    ASSUME NEW in \in WellInterface
    PROVE  /\ Len(in.methods) \in Nat /\ DOMAIN in.methods = 1..Len(in.methods)
           /\ \A k \in DOMAIN in.methods :
                 in.methods[k] \in WellMethod /\ k \in DOMAIN Ordinals
<1>1. in.methods \in Seq(WellMethod) /\ Len(in.methods) <= Len(Ordinals)
    BY DEF WellInterface
<1>2. Ordinals \in Seq(STRING)
    BY GeneratorAssumption
<1>3. Len(Ordinals) \in Nat /\ DOMAIN Ordinals = 1..Len(Ordinals)
    BY <1>2, ListIs
<1>. DEFINE ms == in.methods
<1>4. Len(ms) \in Nat /\ DOMAIN ms = 1..Len(ms) /\ \A k \in DOMAIN ms : ms[k] \in WellMethod
    BY <1>1, ListIs
<1>5. Len(ms) <= Len(Ordinals)
    BY <1>1
<1>. HIDE DEF ms
<1>6. \A k \in DOMAIN ms : k \in DOMAIN Ordinals
    BY <1>3, <1>4, <1>5
<1>. QED
    BY <1>4, <1>6 DEF ms

\* What is left of a body, and what that is cut into.
LEMMA BodyWritten ==
    ASSUME PlainNames, NEW in \in WellInterface
    PROVE  /\ <<BodyText(in), Body(in)>> \in Cleanings
           /\ BodyText(in) \in Seq(Token) /\ Body(in) \in Seq(Token)
           /\ Body(in) \in Paired("{", "}") /\ Body(in) \in HeadFree
           /\ <<Body(in), Stmts(in)>> \in Cutting(";")
           /\ Stmts(in) \in Seq(Seq(Token)) /\ \A j \in DOMAIN Stmts(in) : Stmts(in)[j] # <<>>
<1>. DEFINE n == Len(in.methods)
            w == [k \in DOMAIN in.methods |-> Written(in.methods[k], k)]
            s == [k \in DOMAIN in.methods |-> Stripped(in.methods[k], k)]
            l == [k \in DOMAIN in.methods |-> Lines(in.methods[k], k)]
<1>1. n \in Nat /\ DOMAIN in.methods = 1..n /\ DOMAIN w = 1..n /\ DOMAIN s = 1..n
      /\ DOMAIN l = 1..n
    BY Numbered
<1>2. ASSUME NEW k \in 1..n
      PROVE  /\ w[k] = Written(in.methods[k], k) /\ s[k] = Stripped(in.methods[k], k)
             /\ l[k] = Lines(in.methods[k], k)
             /\ in.methods[k] \in WellMethod /\ k \in DOMAIN Ordinals
    BY <1>1, Numbered
<1>. HIDE DEF n, w, s, l
<1>3. ASSUME NEW k \in 1..n
      PROVE  /\ <<w[k], s[k]>> \in Cleanings /\ w[k] \in Seq(Token) /\ s[k] \in Seq(Token)
             /\ s[k] \in Paired("{", "}") /\ s[k] \in HeadFree
    <2>1. in.methods[k] \in WellMethod /\ k \in DOMAIN Ordinals
        BY <1>2
    <2>2. /\ <<Written(in.methods[k], k), Stripped(in.methods[k], k)>> \in Cleanings
          /\ Written(in.methods[k], k) \in Seq(Token)
          /\ Stripped(in.methods[k], k) \in Seq(Token)
          /\ Stripped(in.methods[k], k) \in Paired("{", "}")
          /\ Stripped(in.methods[k], k) \in HeadFree
        BY <2>1, WrittenStripped
    <2>. QED
        BY <1>2, <2>2
<1>4. ASSUME NEW k \in 1..n
      PROVE  /\ <<s[k], l[k]>> \in Cutting(";") /\ l[k] \in Seq(Seq(Token))
             /\ l[k] \in Seq({p \in Seq(Token) : p # <<>>})
    <2>1. in.methods[k] \in WellMethod /\ k \in DOMAIN Ordinals
        BY <1>2
    <2>2. /\ <<Stripped(in.methods[k], k), Lines(in.methods[k], k)>> \in Cutting(";")
          /\ Lines(in.methods[k], k) \in Seq(Seq(Token))
          /\ \A j \in DOMAIN Lines(in.methods[k], k) : Lines(in.methods[k], k)[j] # <<>>
        BY <2>1, WrittenCut
    <2>3. /\ <<s[k], l[k]>> \in Cutting(";") /\ l[k] \in Seq(Seq(Token))
          /\ \A j \in DOMAIN l[k] : l[k][j] # <<>>
        BY <1>2, <2>2
    <2>. DEFINE y == l[k]
    <2>4. y \in Seq(Seq(Token)) /\ \A j \in DOMAIN y : y[j] # <<>>
        BY <2>3
    <2>. HIDE DEF y
    <2>5. y \in Seq({p \in Seq(Token) : p # <<>>})
        <3>1. Len(y) \in Nat /\ DOMAIN y = 1..Len(y) /\ (\A j \in DOMAIN y : y[j] \in Seq(Token))
              /\ y = [j \in 1..Len(y) |-> y[j]]
            BY <2>4
        <3>2. \A j \in 1..Len(y) : y[j] \in {p \in Seq(Token) : p # <<>>}
            BY <2>4, <3>1
        <3>. QED
            BY <3>1, <3>2, ListWithin
    <2>. QED
        BY <2>3, <2>5 DEF y
<1>5. w \in Seq(Seq(Token)) /\ Len(w) = n
    <2>1. w = [k \in 1..n |-> w[k]] /\ \A k \in 1..n : w[k] \in Seq(Token)
        BY <1>1, <1>3 DEF w
    <2>. QED
        BY <1>1, <2>1, ListWithin
<1>6. s \in Seq(Seq(Token)) /\ Len(s) = n
    <2>1. s = [k \in 1..n |-> s[k]] /\ \A k \in 1..n : s[k] \in Seq(Token)
        BY <1>1, <1>3 DEF s
    <2>. QED
        BY <1>1, <2>1, ListWithin
<1>. DEFINE T == {p \in Seq(Token) : p # <<>>}
<1>7. l \in Seq(Seq(T)) /\ l \in Seq(Seq(Seq(Token))) /\ Len(l) = n
    <2>. HIDE DEF T
    <2>1. l = [k \in 1..n |-> l[k]] /\ (\A k \in 1..n : l[k] \in Seq(Seq(Token)))
        BY <1>1, <1>4 DEF l
    <2>2. \A k \in 1..n : l[k] \in Seq(T)
        BY <1>4 DEF T
    <2>. QED
        BY <1>1, <2>1, <2>2, ListWithin
<1>. DEFINE fw == FlattenSeq(w)
            fs == FlattenSeq(s)
            fl == FlattenSeq(l)
<1>8. fw \in Seq(Token) /\ fs \in Seq(Token) /\ fl \in Seq(Seq(Token)) /\ fl \in Seq(T)
    <2>. HIDE DEF T
    <2>. QED
        BY <1>5, <1>6, <1>7, FlattenType
<1>9. <<fw, fs>> \in Cleanings
    <2>1. <<<<>>, <<>>>> \in Cleanings
        BY CleanShort
    <2>2. \A a, b \in Seq(Token) : \A c, d \in Seq(Token) :
             <<a, c>> \in Cleanings /\ <<b, d>> \in Cleanings
                => <<a \o b, c \o d>> \in Cleanings
        BY CleanConcat
    <2>3. \A k \in DOMAIN w : <<w[k], s[k]>> \in Cleanings
        BY <1>1, <1>3
    <2>4. w \in Seq(Seq(Token)) /\ s \in Seq(Seq(Token)) /\ Len(w) = Len(s)
        BY <1>5, <1>6
    <2>. HIDE DEF T
    <2>. QED
        BY <2>1, <2>2, <2>3, <2>4, FlattenRelated
<1>10. fs \in Paired("{", "}")
    <2>1. <<>> \in Paired("{", "}")
        BY PairedShort
    <2>2. \A a, b \in Seq(Token) : a \in Paired("{", "}") /\ b \in Paired("{", "}")
             => a \o b \in Paired("{", "}")
        BY PairedConcat
    <2>3. \A k \in DOMAIN s : s[k] \in Paired("{", "}")
        BY <1>1, <1>3
    <2>. QED
        BY <1>6, <2>1, <2>2, <2>3, FlattenWithin
<1>11. fs \in HeadFree
    <2>1. <<>> \in HeadFree
        BY FreeShort
    <2>2. \A a, b \in Seq(Token) : a \in HeadFree /\ b \in HeadFree => a \o b \in HeadFree
        BY HeadFreeConcat
    <2>3. \A k \in DOMAIN s : s[k] \in HeadFree
        BY <1>1, <1>3
    <2>. QED
        BY <1>6, <2>1, <2>2, <2>3, FlattenWithin
<1>12. <<fs, fl>> \in Cutting(";")
    <2>1. <<<<>>, <<>>>> \in Cutting(";")
        <3>1. ";" \in Token
            BY DEF Token
        <3>. QED
            BY <3>1, CutShort
    <2>2. \A a, b \in Seq(Token) : \A c, d \in Seq(Seq(Token)) :
             <<a, c>> \in Cutting(";") /\ <<b, d>> \in Cutting(";")
                => <<a \o b, c \o d>> \in Cutting(";")
        BY CutConcatenated
    <2>3. \A k \in DOMAIN s : <<s[k], l[k]>> \in Cutting(";")
        BY <1>1, <1>4
    <2>4. l \in Seq(Seq(Seq(Token))) /\ Len(s) = Len(l)
        BY <1>6, <1>7
    <2>. QED
        BY <1>6, <2>1, <2>2, <2>3, <2>4, FlattenRelated
<1>13. \A j \in DOMAIN fl : fl[j] # <<>>
    <2>1. \A j \in DOMAIN fl : fl[j] \in T
        <3>. HIDE DEF T, fl
        <3>. QED
            BY <1>8, ListIs
    <2>. QED
        BY <2>1
<1>14. BodyText(in) = fw /\ Body(in) = fs /\ Stmts(in) = fl
    BY DEF BodyText, Body, Stmts, w, s, l
<1>. QED
    BY <1>8, <1>9, <1>10, <1>11, <1>12, <1>13, <1>14

\* The statements of a body are read back.
LEMMA BodySplit ==
    ASSUME PlainNames, NEW in \in WellInterface
    PROVE  NonEmpty(splitTopLevel(Body(in), ";")) = Stmts(in)
<1>. DEFINE t == Body(in)
            ps == Stmts(in)
<1>1. /\ t \in Seq(Token) /\ ps \in Seq(Seq(Token)) /\ <<t, ps>> \in Cutting(";")
      /\ \A j \in DOMAIN ps : ps[j] # <<>>
    BY BodyWritten
<1>. HIDE DEF t, ps
<1>2. <<>> \in Keeping(";", 0)
    <2>1. 0 \in Nat
        OBVIOUS
    <2>. QED
        BY <2>1, KeepShort
<1>3. splitTopLevel(t \o <<>>, ";") = Append(ps, <<>>)
    BY <1>1, <1>2, SplitCut
<1>4. t \o <<>> = t
    BY <1>1, NothingBefore
<1>5. NonEmpty(Append(ps, <<>>)) = ps
    BY <1>1, NonEmptyParts
<1>. QED
    BY <1>3, <1>4, <1>5 DEF t, ps

\* All of them are methods if the parser knows the style of each, and are read as
\* those; if it does not, one is none.
LEMMA StmtsRead ==
    ASSUME PlainNames, NEW in \in WellInterface
    PROVE  /\ (\A m \in Range(in.methods) : m.style \notin UnknownStyles) =>
                /\ Stmts(in) = [k \in DOMAIN in.methods |-> Declared(in.methods[k], k)]
                /\ \A stmt \in Range(Stmts(in)) : IsMethod(stmt)
           /\ (\E m \in Range(in.methods) : m.style \in UnknownStyles) =>
                \E stmt \in Range(Stmts(in)) : ~IsMethod(stmt)
<1>. DEFINE ms == in.methods
            l == [k \in DOMAIN ms |-> Lines(ms[k], k)]
            d == [k \in DOMAIN ms |-> Declared(ms[k], k)]
<1>1. Len(ms) \in Nat /\ DOMAIN ms = 1..Len(ms)
      /\ \A k \in DOMAIN ms : ms[k] \in WellMethod /\ k \in DOMAIN Ordinals
    BY Numbered
<1>2. Stmts(in) = FlattenSeq(l)
    BY DEF Stmts
<1>. HIDE DEF ms
<1>3. \A k \in DOMAIN ms : l[k] = Lines(ms[k], k) /\ d[k] = Declared(ms[k], k)
    OBVIOUS
<1>4. DOMAIN l = DOMAIN ms /\ DOMAIN d = DOMAIN ms /\ l = [k \in 1..Len(ms) |-> l[k]]
      /\ d = [k \in 1..Len(ms) |-> d[k]]
    BY <1>1
<1>. HIDE DEF l
<1>5. CASE \A m \in Range(ms) : m.style \notin UnknownStyles
    <2>1. ASSUME NEW k \in DOMAIN ms
          PROVE  Lines(ms[k], k) = <<Declared(ms[k], k)>> /\ IsMethod(Declared(ms[k], k))
        <3>1. ms[k] \in WellMethod /\ k \in DOMAIN Ordinals
            BY <1>1
        <3>2. ms[k].style \notin UnknownStyles
            BY <1>5 DEF Range
        <3>. QED
            BY <3>1, <3>2, LinesRead
    <2>2. l = [k \in DOMAIN d |-> <<d[k]>>]
        <3>1. \A k \in DOMAIN ms : l[k] = <<d[k]>>
            BY <1>3, <2>1
        <3>. HIDE DEF d
        <3>. QED
            BY <1>1, <1>4, <3>1
    <2>3. \A k \in DOMAIN ms : IsMethod(d[k])
        BY <1>3, <2>1
    <2>4. d \in Seq(Range(d))
        <3>. HIDE DEF d
        <3>1. \A k \in 1..Len(ms) : d[k] \in Range(d)
            BY <1>1, <1>4 DEF Range
        <3>. QED
            BY <1>1, <1>4, <3>1, ListWithin
    <2>5. FlattenSeq([k \in DOMAIN d |-> <<d[k]>>]) = d
        <3>. HIDE DEF d
        <3>. QED
            BY <2>4, FlattenSingles
    <2>6. Stmts(in) = d
        BY <1>2, <2>2, <2>5
    <2>7. \A stmt \in Range(d) : IsMethod(stmt)
        <3>. HIDE DEF d
        <3>. QED
            BY <1>4, <2>3 DEF Range
    <2>. QED
        BY <1>5, <2>6, <2>7 DEF ms
<1>6. CASE \E m \in Range(ms) : m.style \in UnknownStyles
    <2>1. PICK k \in DOMAIN ms : ms[k].style \in UnknownStyles
        BY <1>6 DEF Range
    <2>2. ms[k] \in WellMethod /\ k \in DOMAIN Ordinals
        BY <1>1
    <2>3. PICK j \in DOMAIN Lines(ms[k], k) : ~IsMethod(Lines(ms[k], k)[j])
        BY <2>1, <2>2, LinesRead
    <2>4. l \in Seq(Seq(Seq(Token)))
        <3>1. \A i \in 1..Len(ms) : l[i] \in Seq(Seq(Token))
            <4>1. ASSUME NEW i \in DOMAIN ms PROVE Lines(ms[i], i) \in Seq(Seq(Token))
                <5>1. ms[i] \in WellMethod /\ i \in DOMAIN Ordinals
                    BY <1>1
                <5>. QED
                    BY <5>1, WrittenCut
            <4>. QED
                BY <1>1, <1>3, <4>1
        <3>. QED
            BY <1>1, <1>4, <3>1, ListWithin
    <2>5. l[k][j] \in Range(l[k]) /\ ~IsMethod(l[k][j]) /\ k \in DOMAIN l
        BY <1>3, <1>4, <2>3 DEF Range
    <2>6. l[k][j] \in Range(FlattenSeq(l))
        BY <2>4, <2>5, FlattenHas
    <2>. QED
        BY <1>2, <1>6, <2>5, <2>6 DEF ms
<1>. QED
    BY <1>5, <1>6 DEF ms

-----------------------------------------------------------------------------
(* Interfaces.                                                               *)

\* An interface without comments: its heading, an opening brace, its body and a
\* closing brace.
Extending(in) == IF in.extends = "" THEN <<>> ELSE <<"extends", "(", in.extends, ")">>
Heading(in) == <<"interface", in.name>> \o Extending(in)
Code(in) == Heading(in) \o <<"{">> \o Body(in) \o <<"}">>

\* The texts in which one interface is found, at their beginning.
Headed ==
    {t \in Seq(Token) :
        /\ Len(t) >= 3 /\ t[1] = "interface" /\ t[2] \in Words /\ t[3] = "{"
        /\ \A j \in DOMAIN t : t[j] = "{" =>
              j = 3 \/ (j >= 3 /\ (t[j - 2] = "interface" => t[j - 1] \notin Words))}

\* What stands where in three words.
LEMMA ThreeWords ==
    ASSUME NEW S, NEW a \in S, NEW b \in S, NEW c \in S
    PROVE  LET t == <<a, b>> \o <<c>>
           IN  t \in Seq(S) /\ Len(t) = 3 /\ t[1] = a /\ t[2] = b /\ t[3] = c
<1>. DEFINE p == <<a, b>>
            q == <<c>>
            t == p \o q
<1>1. p \in Seq(S) /\ q \in Seq(S)
    <2>1. \A x, y \in S : <<x, y>> \in Seq(S)
        BY ShortText
    <2>2. \A x \in S : <<x>> \in Seq(S)
        BY ShortText
    <2>. QED
        BY <2>1, <2>2
<1>2. Len(p) = 2 /\ Len(q) = 1 /\ p[1] = a /\ p[2] = b /\ q[1] = c
    OBVIOUS
<1>. HIDE DEF p, q
<1>3. /\ t \in Seq(S) /\ Len(t) = Len(p) + Len(q)
      /\ (\A k \in 1..Len(p) : t[k] = p[k])
      /\ \A k \in 1..Len(q) : t[Len(p) + k] = q[k]
    BY <1>1, ConcatAt
<1>. HIDE DEF t
<1>4. Len(t) = 3 /\ t[1] = p[1] /\ t[2] = p[2] /\ t[2 + 1] = q[1] /\ 2 + 1 = 3
    BY <1>2, <1>3
<1>5. t \in Seq(S) /\ Len(t) = 3 /\ t[1] = a /\ t[2] = b /\ t[3] = c
    <2>1. t[3] = q[1]
        BY <1>4
    <2>. QED
        BY <1>2, <1>3, <1>4, <2>1
<1>. QED
    BY <1>5 DEF t, p, q

\* The words of an interface's heading.
LEMMA HeadingWords ==
    ASSUME PlainNames, NEW in \in WellInterface
    PROVE  /\ "interface" \in Token /\ in.name \in Token /\ in.name \in Words
           /\ in.name \notin Punctuation /\ "{" \in Token /\ "}" \in Token
           /\ in.extends # "" => in.extends \in Token /\ in.extends \notin Punctuation
           /\ "extends" \in Token /\ "(" \in Token /\ ")" \in Token
           /\ ")" \notin Words
<1>1. in.name \in Words /\ in.extends \in Words \cup {""}
    BY DEF WellInterface, InterfaceDecl
<1>2. \A w \in Words : w \in Token /\ w \notin Punctuation
    <2>1. Words \subseteq STRING
        BY GeneratorAssumption
    <2>2. \A w \in Words : w \in Token
        BY <2>1 DEF Token
    <2>3. \A w \in Words : w \notin Punctuation
        BY DEF PlainNames
    <2>. QED
        BY <2>2, <2>3
<1>3. /\ "interface" \in Token /\ "{" \in Token /\ "}" \in Token /\ "extends" \in Token
      /\ "(" \in Token /\ ")" \in Token
    BY DEF Token
<1>4. ")" \in Punctuation
    BY DEF Punctuation
<1>. QED
    BY <1>1, <1>2, <1>3, <1>4

\* The heading is a text without braces and comments.
LEMMA HeadingWritten ==
    ASSUME PlainNames, NEW in \in WellInterface
    PROVE  /\ Heading(in) \in Seq(Token) /\ <<Heading(in), Heading(in)>> \in Cleanings
           /\ \A j \in DOMAIN Heading(in) : Heading(in)[j] # "{"
           /\ in.extends # "" => Len(Heading(in)) >= 2 /\ Heading(in)[Len(Heading(in))] = ")"
<1>. DEFINE a == <<"interface", in.name>>
            b == Extending(in)
            h == a \o b
            Plain(t) == t \in Seq(Token) /\ \A j \in DOMAIN t : t[j] \notin {"{", "nl", "#"}
<1>1. /\ "interface" \in Token /\ in.name \in Token /\ in.name \notin {"{", "nl", "#"}
      /\ "extends" \in Token /\ "(" \in Token /\ ")" \in Token
      /\ in.extends # "" => in.extends \in Token /\ in.extends \notin {"{", "nl", "#"}
    BY HeadingWords DEF Punctuation
<1>2. Plain(a) /\ Len(a) = 2
    <2>. DEFINE n == in.name
    <2>1. n \in Token /\ n \notin {"{", "nl", "#"}
        BY <1>1
    <2>. HIDE DEF n
    <2>2. <<"interface", n>> \in Seq(Token)
        <3>1. \A x, y \in Token : <<x, y>> \in Seq(Token)
            BY ShortText
        <3>. QED
            BY <1>1, <2>1, <3>1
    <2>3. /\ DOMAIN <<"interface", n>> = {1, 2} /\ Len(<<"interface", n>>) = 2
          /\ <<"interface", n>>[1] = "interface" /\ <<"interface", n>>[2] = n
        OBVIOUS
    <2>4. Plain(<<"interface", n>>)
        BY <2>1, <2>2, <2>3
    <2>. QED
        BY <2>3, <2>4 DEF n
<1>3. Plain(b) /\ (in.extends # "" => Len(b) = 4 /\ b[4] = ")")
    <2>1. CASE in.extends = ""
        <3>1. b = <<>>
            BY <2>1 DEF Extending
        <3>2. Plain(<<>>)
            OBVIOUS
        <3>. QED
            BY <2>1, <3>1, <3>2
    <2>2. CASE in.extends # ""
        <3>. DEFINE e == in.extends
                    f == <<"extends", "(", e, ")">>
        <3>1. b = f
            BY <2>2 DEF Extending
        <3>2. e \in Token /\ e \notin {"{", "nl", "#"}
            BY <1>1, <2>2
        <3>. HIDE DEF e
        <3>3. f \in Seq(Token)
            <4>1. \A x, y, z, v \in Token : <<x, y, z, v>> \in Seq(Token)
                BY ShortText
            <4>. QED
                BY <1>1, <3>2, <4>1
        <3>4. /\ DOMAIN f = {1, 2, 3, 4} /\ Len(f) = 4 /\ f[1] = "extends" /\ f[2] = "("
              /\ f[3] = e /\ f[4] = ")"
            OBVIOUS
        <3>5. Plain(f)
            <4>. HIDE DEF f
            <4>. QED
                BY <3>2, <3>3, <3>4
        <3>. HIDE DEF f
        <3>. QED
            BY <3>1, <3>4, <3>5
    <2>. QED
        BY <2>1, <2>2
<1>. HIDE DEF a, b
<1>4. /\ h \in Seq(Token) /\ Len(h) = Len(a) + Len(b)
      /\ (\A k \in 1..Len(a) : h[k] = a[k])
      /\ \A k \in 1..Len(b) : h[Len(a) + k] = b[k]
    <2>1. a \in Seq(Token) /\ b \in Seq(Token)
        BY <1>2, <1>3
    <2>. QED
        BY <2>1, ConcatAt
<1>. HIDE DEF h
<1>5. /\ Len(a) \in Nat /\ DOMAIN a = 1..Len(a) /\ Len(b) \in Nat /\ DOMAIN b = 1..Len(b)
      /\ DOMAIN h = 1..Len(h)
    <2>1. a \in Seq(Token) /\ b \in Seq(Token) /\ h \in Seq(Token)
        BY <1>2, <1>3, <1>4
    <2>. QED
        BY <2>1, ListIs
<1>6. \A j \in DOMAIN h : h[j] \notin {"{", "nl", "#"}
    <2>1. ASSUME NEW j \in 1..Len(h)
          PROVE  j \in 1..Len(a) \/ (j - Len(a) \in 1..Len(b) /\ j = Len(a) + (j - Len(a)))
        BY <1>4, <1>5
    <2>2. ASSUME NEW j \in 1..Len(a) PROVE h[j] \notin {"{", "nl", "#"}
        <3>1. h[j] = a[j] /\ j \in DOMAIN a
            BY <1>4, <1>5
        <3>. QED
            BY <1>2, <3>1
    <2>3. ASSUME NEW j \in 1..Len(b) PROVE h[Len(a) + j] \notin {"{", "nl", "#"}
        <3>1. h[Len(a) + j] = b[j] /\ j \in DOMAIN b
            BY <1>4, <1>5
        <3>. QED
            BY <1>3, <3>1
    <2>4. ASSUME NEW j \in 1..Len(h) PROVE h[j] \notin {"{", "nl", "#"}
        <3>1. CASE j \in 1..Len(a)
            BY <2>2, <3>1
        <3>2. CASE j - Len(a) \in 1..Len(b) /\ j = Len(a) + (j - Len(a))
            <4>. DEFINE i == j - Len(a)
            <4>1. i \in 1..Len(b) /\ j = Len(a) + i
                BY <3>2
            <4>. HIDE DEF i
            <4>. QED
                BY <2>3, <4>1
        <3>. QED
            BY <2>1, <3>1, <3>2
    <2>. QED
        BY <1>5, <2>4
<1>7. <<h, h>> \in Cleanings
    <2>1. \A j \in DOMAIN h : h[j] \notin {"nl", "#"}
        BY <1>6
    <2>. QED
        BY <1>4, <2>1, CleanText
<1>8. in.extends # "" => Len(h) >= 2 /\ h[Len(h)] = ")"
    <2>1. SUFFICES ASSUME in.extends # "" PROVE Len(h) >= 2 /\ h[Len(h)] = ")"
        OBVIOUS
    <2>2. Len(b) = 4 /\ b[4] = ")"
        BY <1>3, <2>1
    <2>3. Len(h) = 6 /\ Len(a) = 2 /\ 4 \in 1..Len(b) /\ 2 + 4 = 6
        <3>1. Len(h) = Len(a) + Len(b) /\ Len(a) = 2 /\ Len(b) = 4
            BY <1>2, <1>4, <2>2
        <3>. QED
            BY <3>1
    <2>4. h[Len(a) + 4] = b[4]
        BY <1>4, <2>3
    <2>. QED
        BY <2>2, <2>3, <2>4
<1>9. h = Heading(in)
    BY DEF h, a, b, Heading
<1>. QED
    BY <1>4, <1>6, <1>7, <1>8, <1>9

\* What is left of the text of an interface.
LEMMA CodeCleaned ==
    ASSUME PlainNames, NEW ins, NEW i, ins[i] \in WellInterface
    PROVE  /\ <<InterfaceText(ins, i), Code(ins[i])>> \in Cleanings
           /\ InterfaceText(ins, i) \in Seq(Token) /\ Code(ins[i]) \in Seq(Token)
<1>. DEFINE in == ins[i]
            h == Heading(in)
            o == <<"{">>
            p == <<"{", "nl">>
            c == <<"}">>
            q == <<"}", "nl">>
            w == BodyText(in)
            b == Body(in)
<1>1. /\ h \in Seq(Token) /\ <<h, h>> \in Cleanings
    BY HeadingWritten
<1>2. <<w, b>> \in Cleanings /\ w \in Seq(Token) /\ b \in Seq(Token)
    BY BodyWritten
<1>3. ASSUME NEW x \in {"{", "}"}
      PROVE  <<x>> \in Seq(Token) /\ <<x, "nl">> \in Seq(Token) /\ <<<<x, "nl">>, <<x>>>> \in Cleanings
    <2>1. x \in Token /\ "nl" \in Token /\ x \notin {"nl", "#"}
        BY DEF Token
    <2>2. <<x>> \in Seq(Token) /\ <<"nl">> \in Seq(Token) /\ <<>> \in Seq(Token)
        BY <2>1, ShortText
    <2>3. \A y, z \in Token : <<y, z>> \in Seq(Token)
        BY ShortText
    <2>4. <<x, "nl">> \in Seq(Token)
        BY <2>1, <2>3
    <2>5. <<<<x>>, <<x>>>> \in Cleanings /\ <<<<"nl">>, <<>>>> \in Cleanings
        BY <2>1, CleanShort
    <2>6. <<<<x>> \o <<"nl">>, <<x>> \o <<>>>> \in Cleanings
        BY <2>2, <2>5, CleanConcat
    <2>7. <<x>> \o <<"nl">> = <<x, "nl">>
        BY TwoWords
    <2>8. <<x>> \o <<>> = <<x>>
        BY <2>2, NothingBefore
    <2>. QED
        BY <2>2, <2>4, <2>6, <2>7, <2>8
<1>4. /\ o \in Seq(Token) /\ p \in Seq(Token) /\ <<p, o>> \in Cleanings
      /\ c \in Seq(Token) /\ q \in Seq(Token) /\ <<q, c>> \in Cleanings
    BY <1>3
<1>5. InterfaceText(ins, i) = h \o p \o w \o q
    BY DEF InterfaceText, Heading, Extending, BodyText
<1>6. Code(in) = h \o o \o b \o c
    BY DEF Code
<1>. HIDE DEF h, o, p, c, q, w, b
<1>7. <<h \o p, h \o o>> \in Cleanings /\ h \o p \in Seq(Token) /\ h \o o \in Seq(Token)
    <2>1. <<h \o p, h \o o>> \in Cleanings
        BY <1>1, <1>4, CleanConcat
    <2>2. h \o p \in Seq(Token) /\ h \o o \in Seq(Token)
        BY <1>1, <1>4, TextAfter
    <2>. QED
        BY <2>1, <2>2
<1>8. /\ <<h \o p \o w, h \o o \o b>> \in Cleanings
      /\ h \o p \o w \in Seq(Token) /\ h \o o \o b \in Seq(Token)
    <2>1. <<h \o p \o w, h \o o \o b>> \in Cleanings
        BY <1>2, <1>7, CleanConcat
    <2>2. h \o p \o w \in Seq(Token) /\ h \o o \o b \in Seq(Token)
        BY <1>2, <1>7, TextAfter
    <2>. QED
        BY <2>1, <2>2
<1>9. /\ <<h \o p \o w \o q, h \o o \o b \o c>> \in Cleanings
      /\ h \o p \o w \o q \in Seq(Token) /\ h \o o \o b \o c \in Seq(Token)
    <2>1. <<h \o p \o w \o q, h \o o \o b \o c>> \in Cleanings
        BY <1>4, <1>8, CleanConcat
    <2>2. h \o p \o w \o q \in Seq(Token) /\ h \o o \o b \o c \in Seq(Token)
        BY <1>4, <1>8, TextAfter
    <2>. QED
        BY <2>1, <2>2
<1>. QED
    BY <1>5, <1>6, <1>9

\* The interfaces that extend nothing, and those that extend another.
Basic == {in \in WellInterface : in.extends = ""}
Extended == {in \in WellInterface : in.extends # ""}

\* No interface is found in one that extends another.
LEMMA ExtendingFree ==
    ASSUME PlainNames, NEW in \in Extended
    PROVE  Code(in) \in HeadFree
<1>. DEFINE h == Heading(in)
            o == <<"{">>
            x == h \o o
            b == Body(in)
            c == <<"}">>
<1>0. in \in WellInterface
    BY DEF Extended
<1>1. /\ h \in Seq(Token) /\ (\A j \in DOMAIN h : h[j] # "{")
      /\ Len(h) >= 2 /\ h[Len(h)] = ")"
    BY <1>0, HeadingWritten DEF Extended
<1>2. b \in HeadFree
    BY <1>0, BodyWritten
<1>3. o \in Seq(Token) /\ c \in HeadFree /\ Len(o) = 1 /\ o[1] = "{"
    <2>1. "{" \in Token /\ "}" \in Token /\ "}" # "{"
        BY DEF Token
    <2>2. <<"{">> \in Seq(Token) /\ <<"}">> \in HeadFree
        BY <2>1, ShortText, FreeShort
    <2>. QED
        BY <2>2
<1>4. Code(in) = x \o b \o c
    BY DEF Code
<1>5. Len(h) \in Nat /\ DOMAIN h = 1..Len(h)
    BY <1>1, ListIs
<1>. HIDE DEF h, o
<1>6. /\ x \in Seq(Token) /\ Len(x) = Len(h) + Len(o)
      /\ (\A k \in 1..Len(h) : x[k] = h[k])
      /\ \A k \in 1..Len(o) : x[Len(h) + k] = o[k]
    <2>1. h \in Seq(Token) /\ o \in Seq(Token)
        BY <1>1, <1>3
    <2>. QED
        BY <2>1, ConcatAt
<1>. HIDE DEF x, b, c
<1>7. Len(x) = Len(h) + 1 /\ DOMAIN x = 1..Len(x)
    <2>1. Len(x) = Len(h) + 1
        BY <1>3, <1>6
    <2>2. x \in Seq(Token)
        BY <1>6
    <2>. QED
        BY <2>1, <2>2, ListIs
<1>8. x \in HeadFree
    <2>1. ASSUME NEW j \in DOMAIN x, x[j] = "{"
          PROVE  j >= 3 /\ (x[j - 2] = "interface" => x[j - 1] \notin Words)
        <3>1. j \notin 1..Len(h)
            <4>1. ASSUME j \in 1..Len(h) PROVE FALSE
                <5>1. x[j] = h[j] /\ h[j] # "{"
                    BY <1>1, <1>5, <1>6, <4>1
                <5>. QED
                    BY <2>1, <5>1
            <4>. QED
                BY <4>1
        <3>2. j = Len(h) + 1 /\ j >= 3 /\ j - 1 = Len(h) /\ Len(h) \in 1..Len(h)
            <4>1. j \in 1..(Len(h) + 1) /\ Len(h) >= 2
                BY <1>1, <1>7
            <4>. QED
                BY <1>5, <3>1, <4>1
        <3>3. x[Len(h)] = ")"
            BY <1>1, <1>6, <3>2
        <3>4. ")" \notin Words
            BY <1>0, HeadingWords
        <3>5. x[j - 1] = ")"
            BY <3>2, <3>3
        <3>. QED
            BY <3>2, <3>4, <3>5
    <2>. QED
        BY <1>6, <2>1 DEF HeadFree
<1>9. x \o b \in HeadFree
    BY <1>2, <1>8, HeadFreeConcat
<1>10. x \o b \o c \in HeadFree
    BY <1>3, <1>9, HeadFreeConcat DEF c
<1>. QED
    BY <1>4, <1>10

\* What stands where in one that extends nothing.
LEMMA CodeAt ==
    ASSUME PlainNames, NEW in \in Basic
    PROVE  LET t == Code(in)
               b == Body(in)
           IN  /\ t \in Seq(Token) /\ Len(t) = Len(b) + 4 /\ Len(b) \in Nat
               /\ t[1] = "interface" /\ t[2] = in.name /\ t[3] = "{"
               /\ (\A k \in 1..Len(b) : t[3 + k] = b[k])
               /\ t[Len(b) + 4] = "}"
<1>. DEFINE x == <<"interface", in.name>> \o <<"{">>
            b == Body(in)
            c == <<"}">>
            y == x \o b
            t == y \o c
<1>0. in \in WellInterface
    BY DEF Basic
<1>1. "interface" \in Token /\ in.name \in Token /\ "{" \in Token /\ "}" \in Token
    BY <1>0, HeadingWords
<1>2. b \in Seq(Token)
    BY <1>0, BodyWritten
<1>3. c \in Seq(Token) /\ Len(c) = 1 /\ c[1] = "}"
    BY <1>1, ShortText
<1>4. Code(in) = t
    <2>. DEFINE a == <<"interface", in.name>>
    <2>1. a \in Seq(Token)
        <3>1. \A u, v \in Token : <<u, v>> \in Seq(Token)
            BY ShortText
        <3>. QED
            BY <1>1, <3>1
    <2>2. Heading(in) = a \o <<>>
        BY DEF Heading, Extending, Basic
    <2>. HIDE DEF a
    <2>3. a \o <<>> = a
        BY <2>1, NothingBefore
    <2>4. Heading(in) = <<"interface", in.name>>
        BY <2>2, <2>3 DEF a
    <2>. QED
        BY <2>4 DEF Code
<1>5. x \in Seq(Token) /\ Len(x) = 3 /\ x[1] = "interface" /\ x[2] = in.name /\ x[3] = "{"
    <2>. DEFINE u == "interface"
                v == in.name
                w == "{"
    <2>1. u \in Token /\ v \in Token /\ w \in Token
        BY <1>1
    <2>. HIDE DEF u, v, w
    <2>2. LET r == <<u, v>> \o <<w>>
          IN  r \in Seq(Token) /\ Len(r) = 3 /\ r[1] = u /\ r[2] = v /\ r[3] = w
        BY <2>1, ThreeWords
    <2>. QED
        BY <2>2 DEF u, v, w
<1>. HIDE DEF x, b, c
<1>6. /\ y \in Seq(Token) /\ Len(y) = Len(x) + Len(b) /\ Len(b) \in Nat
      /\ (\A k \in 1..Len(x) : y[k] = x[k])
      /\ \A k \in 1..Len(b) : y[Len(x) + k] = b[k]
    <2>1. x \in Seq(Token) /\ b \in Seq(Token)
        BY <1>2, <1>5
    <2>. QED
        BY <2>1, ConcatAt
<1>. HIDE DEF y
<1>7. y \in Seq(Token) /\ c \in Seq(Token)
    BY <1>3, <1>6
<1>8. /\ t \in Seq(Token) /\ Len(t) = Len(y) + Len(c)
      /\ (\A k \in 1..Len(y) : t[k] = y[k])
      /\ \A k \in 1..Len(c) : t[Len(y) + k] = c[k]
    BY <1>7, ConcatAt
<1>. HIDE DEF t
<1>. DEFINE n == Len(b)
<1>9. n \in Nat /\ Len(y) = n + 3
    <2>1. Len(y) = 3 + n /\ n \in Nat
        BY <1>5, <1>6
    <2>. QED
        BY <2>1
<1>10. Len(t) = n + 4
    <2>1. Len(t) = Len(y) + 1
        BY <1>3, <1>8
    <2>. HIDE DEF n
    <2>. QED
        BY <1>9, <2>1
<1>11. t[1] = "interface" /\ t[2] = in.name /\ t[3] = "{"
    <2>1. \A k \in 1..3 : y[k] = x[k]
        BY <1>5, <1>6
    <2>2. \A k \in 1..3 : t[k] = y[k]
        <3>1. \A k \in 1..3 : k \in 1..Len(y)
            <4>. HIDE DEF n
            <4>. QED
                BY <1>9
        <3>. QED
            BY <1>8, <3>1
    <2>3. t[1] = x[1] /\ t[2] = x[2] /\ t[3] = x[3]
        BY <2>1, <2>2
    <2>. QED
        BY <1>5, <2>3
<1>12. ASSUME NEW k \in 1..n PROVE t[3 + k] = b[k]
    <2>1. y[3 + k] = b[k]
        BY <1>5, <1>6
    <2>2. 3 + k \in 1..Len(y)
        <3>. HIDE DEF n
        <3>. QED
            BY <1>9
    <2>. QED
        BY <1>8, <2>1, <2>2
<1>13. t[n + 4] = "}"
    <2>1. t[Len(y) + 1] = c[1]
        <3>1. Len(c) = 1
            BY <1>3
        <3>2. 1 \in 1..1
            OBVIOUS
        <3>3. 1 \in 1..Len(c)
            BY <3>1, <3>2
        <3>. QED
            BY <1>8, <3>3
    <2>2. Len(y) + 1 = n + 4
        <3>. HIDE DEF n
        <3>. QED
            BY <1>9
    <2>. QED
        BY <1>3, <2>1, <2>2
<1>14. t \in Seq(Token)
    BY <1>8
<1>. QED
    BY <1>4, <1>9, <1>10, <1>11, <1>12, <1>13, <1>14 DEF b

\* One is found in it.
LEMMA CodeHeaded ==
    ASSUME PlainNames, NEW in \in Basic
    PROVE  Code(in) \in Headed
<1>. DEFINE t == Code(in)
            b == Body(in)
<1>0. in \in WellInterface
    BY DEF Basic
<1>1. /\ t \in Seq(Token) /\ Len(t) = Len(b) + 4 /\ Len(b) \in Nat
      /\ t[1] = "interface" /\ t[2] = in.name /\ t[3] = "{"
      /\ (\A k \in 1..Len(b) : t[3 + k] = b[k])
      /\ t[Len(b) + 4] = "}"
    BY CodeAt
<1>2. b \in HeadFree
    BY <1>0, BodyWritten
<1>3. in.name \in Words /\ in.name # "{"
    BY <1>0, HeadingWords DEF Punctuation
<1>. HIDE DEF t, b
<1>4. DOMAIN t = 1..Len(t)
    BY <1>1, ListIs
<1>10. Len(t) = Len(b) + 4 /\ Len(b) \in Nat
    BY <1>1
<1>5. b \in Seq(Token)
    BY <1>2 DEF HeadFree
<1>6. DOMAIN b = 1..Len(b)
    BY <1>5, ListIs
<1>7. ASSUME NEW j \in DOMAIN t, t[j] = "{", j # 3
      PROVE  j >= 3 /\ (t[j - 2] = "interface" => t[j - 1] \notin Words)
    <2>1. j # 1 /\ j # 2 /\ j # Len(b) + 4
        <3>1. t[1] # "{" /\ t[2] # "{" /\ t[Len(b) + 4] # "{"
            BY <1>1, <1>3
        <3>. QED
            BY <1>7, <3>1
    <2>. DEFINE k == j - 3
    <2>2. k \in 1..Len(b) /\ j = 3 + k
        <3>1. j \in 1..(Len(b) + 4)
            BY <1>4, <1>10
        <3>2. j # 3
            BY <1>7
        <3>. QED
            BY <1>10, <2>1, <3>1, <3>2
    <2>. HIDE DEF k
    <2>3. b[k] = "{"
        BY <1>1, <1>7, <2>2
    <2>4. k >= 3 /\ (b[k - 2] = "interface" => b[k - 1] \notin Words)
        BY <1>2, <1>6, <2>2, <2>3 DEF HeadFree
    <2>5. k - 2 \in 1..Len(b) /\ k - 1 \in 1..Len(b) /\ j - 2 = 3 + (k - 2) /\ j - 1 = 3 + (k - 1)
          /\ j >= 3
        <3>1. k >= 3
            BY <2>4
        <3>. QED
            BY <1>10, <2>2, <3>1
    <2>6. t[j - 2] = b[k - 2] /\ t[j - 1] = b[k - 1]
        <3>. DEFINE u == k - 2
                    v == k - 1
        <3>1. u \in 1..Len(b) /\ v \in 1..Len(b) /\ j - 2 = 3 + u /\ j - 1 = 3 + v
            BY <2>5
        <3>. HIDE DEF u, v
        <3>2. t[j - 2] = b[u] /\ t[j - 1] = b[v]
            BY <1>1, <3>1
        <3>. QED
            BY <3>2 DEF u, v
    <2>. QED
        BY <2>4, <2>5, <2>6
<1>8. Len(t) >= 3
    BY <1>10
<1>9. t \in Headed
    BY <1>1, <1>3, <1>7, <1>8 DEF Headed
<1>. QED
    BY <1>9 DEF t

\* The first n numbers, and where interfaces are found.
Ident(n) == [i \in 1..n |-> i]
HeadsOf(s) == {i \in DOMAIN s : Heads(s, i)}

\* The numbers are a list, and fewer of them are its front.
LEMMA IdentType ==
    ASSUME NEW n \in Nat
    PROVE  /\ Ident(n) \in Seq(Nat) /\ Len(Ident(n)) = n /\ DOMAIN Ident(n) = 1..n
           /\ \A i \in 1..n : Ident(n)[i] = i
           /\ \A m \in 0..n : SubSeq(Ident(n), 1, m) = Ident(m)
<1>1. ASSUME NEW k \in Nat
      PROVE  /\ Ident(k) \in Seq(Nat) /\ Len(Ident(k)) = k /\ DOMAIN Ident(k) = 1..k
             /\ \A i \in 1..k : Ident(k)[i] = i
    BY DEF Ident
<1>2. ASSUME NEW m \in 0..n PROVE SubSeq(Ident(n), 1, m) = Ident(m)
    <2>1. m \in Nat /\ 0 \in Nat /\ 0 + m <= n /\ 0 + 1 = 1 /\ 0 + m = m
        OBVIOUS
    <2>2. /\ Ident(n) \in Seq(Nat) /\ Ident(m) \in Seq(Nat) /\ Len(Ident(n)) = n
          /\ Len(Ident(m)) = m /\ (\A i \in 1..n : Ident(n)[i] = i)
          /\ \A i \in 1..m : Ident(m)[i] = i
        BY <1>1, <2>1
    <2>3. \A k \in 1..m : Ident(n)[0 + k] = Ident(m)[k]
        <3>1. \A k \in 1..m : k \in 1..n /\ 0 + k = k
            BY <2>1
        <3>. QED
            BY <2>2, <3>1
    <2>4. 0 + Len(Ident(m)) <= Len(Ident(n))
        BY <2>1, <2>2
    <2>5. SubSeq(Ident(n), 0 + 1, 0 + Len(Ident(m))) = Ident(m)
        BY <2>1, <2>2, <2>3, <2>4, SliceIs
    <2>. QED
        BY <2>1, <2>2, <2>5
<1>. QED
    BY <1>1, <1>2

\* The interfaces of a text are those numbers of its words where one is found.
LEMMA InterfacesPicked ==
    ASSUME NEW s \in Seq(Token)
    PROVE  InterfacesOf(s) = Picked(Ident(Len(s)), HeadsOf(s))
<1>. DEFINE ids == [i \in DOMAIN s |-> i]
            I == {i \in DOMAIN ids : Heads(s, i)}
<1>1. InterfacesOf(s) = Picked(ids, I)
    BY DEF InterfacesOf, SelectAt, Picked, Pieces, Heads
<1>2. DOMAIN s = 1..Len(s)
    OBVIOUS
<1>3. ids = Ident(Len(s)) /\ I = HeadsOf(s)
    BY <1>2 DEF Ident, HeadsOf
<1>. HIDE DEF ids, I
<1>. QED
    BY <1>1, <1>3

\* A text behind another leaves the interfaces of that, and may have one itself.
LEMMA HeadsAfter ==
    ASSUME NEW s \in Seq(Token), NEW t \in HeadFree \cup Headed
    PROVE  /\ \A i \in 1..Len(s) : Heads(s \o t, i) <=> Heads(s, i)
           /\ \A j \in 1..Len(t) : Heads(s \o t, Len(s) + j) <=> j = 1 /\ t \in Headed
<1>. DEFINE u == s \o t
            n == Len(s)
            l == Len(t)
<1>1. t \in Seq(Token) /\ \A j \in DOMAIN t : t[j] = "{" => j >= 3
    <2>1. t \in HeadFree => t \in Seq(Token) /\ \A j \in DOMAIN t : t[j] = "{" => j >= 3
        BY DEF HeadFree
    <2>2. t \in Headed => t \in Seq(Token) /\ \A j \in DOMAIN t : t[j] = "{" => j >= 3
        <3>1. 3 >= 3
            OBVIOUS
        <3>. QED
            BY <3>1 DEF Headed
    <2>. QED
        BY <2>1, <2>2
<1>2. /\ n \in Nat /\ l \in Nat /\ Len(u) = n + l
      /\ (\A k \in 1..n : u[k] = s[k]) /\ \A k \in 1..l : u[n + k] = t[k]
    <2>1. t \in Seq(Token)
        BY <1>1
    <2>. QED
        BY <2>1, ConcatAt
<1>3. DOMAIN t = 1..l
    <2>1. t \in Seq(Token)
        BY <1>1
    <2>. QED
        BY <2>1, ListIs
<1>11. n \in Nat /\ l \in Nat /\ Len(u) = n + l
    BY <1>2
<1>. HIDE DEF u, n, l
<1>4. ASSUME NEW i \in 1..n PROVE Heads(u, i) <=> Heads(s, i)
    <2>1. CASE i + 2 <= n
        <3>1. i + 2 <= n + l /\ i \in 1..n /\ i + 1 \in 1..n /\ i + 2 \in 1..n
            BY <1>11, <2>1
        <3>2. u[i] = s[i] /\ u[i + 1] = s[i + 1] /\ u[i + 2] = s[i + 2]
            BY <1>2, <3>1
        <3>3. i + 2 <= Len(u) /\ i + 2 <= Len(s)
            BY <1>11, <2>1, <3>1 DEF n
        <3>. QED
            BY <3>2, <3>3 DEF Heads
    <2>2. CASE ~(i + 2 <= n)
        <3>1. ~Heads(s, i)
            <4>1. ~(i + 2 <= Len(s))
                BY <2>2 DEF n
            <4>. QED
                BY <4>1 DEF Heads
        <3>2. ASSUME Heads(u, i) PROVE FALSE
            <4>. DEFINE j == i + 2 - n
            <4>1. i + 2 <= Len(u) /\ u[i + 2] = "{"
                BY <3>2 DEF Heads
            <4>2. j \in 1..l /\ i + 2 = n + j /\ ~(j >= 3)
                <5>1. i + 2 <= n + l
                    BY <1>11, <4>1
                <5>. QED
                    BY <1>11, <2>2, <5>1
            <4>. HIDE DEF j
            <4>3. u[n + j] = t[j] /\ u[n + j] = "{"
                BY <1>2, <4>1, <4>2
            <4>4. t[j] = "{" /\ j \in DOMAIN t
                BY <1>3, <4>2, <4>3
            <4>. QED
                BY <1>1, <4>2, <4>4
        <3>. QED
            BY <3>1, <3>2
    <2>. QED
        BY <2>1, <2>2
<1>5. ASSUME NEW j \in 1..l
      PROVE  Heads(u, n + j) <=> j + 2 <= l /\ t[j] = "interface" /\ t[j + 1] \in Words
                                   /\ t[j + 2] = "{"
    <2>1. CASE j + 2 <= l
        <3>1. /\ j \in 1..l /\ j + 1 \in 1..l /\ j + 2 \in 1..l /\ n + j + 2 <= n + l
              /\ (n + j) + 1 = n + (j + 1) /\ (n + j) + 2 = n + (j + 2)
            BY <1>11, <2>1
        <3>2. u[n + j] = t[j] /\ u[n + (j + 1)] = t[j + 1] /\ u[n + (j + 2)] = t[j + 2]
            <4>. DEFINE a == j + 1
                        b == j + 2
            <4>1. a \in 1..l /\ b \in 1..l
                BY <3>1
            <4>. HIDE DEF a, b
            <4>2. u[n + j] = t[j] /\ u[n + a] = t[a] /\ u[n + b] = t[b]
                BY <1>2, <4>1
            <4>. QED
                BY <4>2 DEF a, b
        <3>3. u[(n + j) + 1] = t[j + 1] /\ u[(n + j) + 2] = t[j + 2] /\ (n + j) + 2 <= Len(u)
            BY <1>11, <3>1, <3>2
        <3>. QED
            BY <2>1, <3>2, <3>3 DEF Heads
    <2>2. CASE ~(j + 2 <= l)
        <3>1. ~((n + j) + 2 <= Len(u))
            BY <1>11, <2>2
        <3>. QED
            BY <2>2, <3>1 DEF Heads
    <2>. QED
        BY <2>1, <2>2
<1>6. ASSUME NEW j \in 1..l, j + 2 <= l, t[j] = "interface", t[j + 1] \in Words,
             t[j + 2] = "{"
      PROVE  j = 1 /\ t \in Headed
    <2>1. j + 2 \in DOMAIN t /\ (j + 2) - 2 = j /\ (j + 2) - 1 = j + 1 /\ (j + 2 = 3 <=> j = 1)
        <3>1. j + 2 <= l
            BY <1>6
        <3>. QED
            BY <1>3, <1>11, <3>1
    <2>. DEFINE k == j + 2
    <2>2. k \in DOMAIN t /\ t[k] = "{" /\ t[k - 2] = "interface" /\ t[k - 1] \in Words
        BY <1>6, <2>1
    <2>. HIDE DEF k
    <2>3. t \notin HeadFree
        BY <2>2 DEF HeadFree
    <2>4. t \in Headed
        BY <2>3
    <2>5. k = 3
        BY <2>2, <2>4 DEF Headed
    <2>. QED
        BY <2>1, <2>4, <2>5 DEF k
<1>7. t \in Headed => /\ 1 + 2 <= l /\ t[1] = "interface" /\ t[1 + 1] \in Words
                      /\ t[1 + 2] = "{"
    <2>1. 1 + 1 = 2 /\ 1 + 2 = 3
        OBVIOUS
    <2>2. t \in Headed => Len(t) >= 3 /\ t[1] = "interface" /\ t[2] \in Words /\ t[3] = "{"
        BY DEF Headed
    <2>3. Len(t) >= 3 => 1 + 2 <= l
        BY <1>11 DEF l
    <2>. QED
        BY <2>1, <2>2, <2>3
<1>8. ASSUME NEW j \in 1..l PROVE Heads(u, n + j) <=> j = 1 /\ t \in Headed
    BY <1>5, <1>6, <1>7
<1>. QED
    BY <1>4, <1>8 DEF u, n, l

\* So the text behind adds the interface at its beginning, or none.
LEMMA InterfacesAfter ==
    ASSUME NEW s \in Seq(Token), NEW t \in HeadFree \cup Headed, Len(t) # 0
    PROVE  InterfacesOf(s \o t) = IF t \in Headed THEN Append(InterfacesOf(s), Len(s) + 1)
                                  ELSE InterfacesOf(s)
<1>. DEFINE u == s \o t
            n == Len(s)
            l == Len(t)
            I == HeadsOf(u)
            f == Ident(Len(u))
<1>1. t \in Seq(Token)
    <2>1. t \in HeadFree => t \in Seq(Token)
        BY DEF HeadFree
    <2>2. t \in Headed => t \in Seq(Token)
        BY DEF Headed
    <2>. QED
        BY <2>1, <2>2
<1>2. /\ n \in Nat /\ l \in Nat /\ Len(u) = n + l /\ u \in Seq(Token)
    BY <1>1, ConcatAt
<1>3. DOMAIN u = 1..(n + l) /\ DOMAIN s = 1..n
    BY <1>2, ListIs
<1>4. l # 0
    OBVIOUS
<1>5. /\ \A i \in 1..n : Heads(u, i) <=> Heads(s, i)
      /\ \A j \in 1..l : Heads(u, n + j) <=> j = 1 /\ t \in Headed
    BY HeadsAfter
<1>. HIDE DEF u, n, l
<1>6. InterfacesOf(u) = Picked(f, I)
    BY <1>2, InterfacesPicked
<1>7. InterfacesOf(s) = Picked(Ident(n), HeadsOf(s))
    BY InterfacesPicked DEF n
<1>8. Len(u) \in Nat /\ n \in 0..Len(u) /\ n + 1 <= Len(u) /\ n + 1 \in 1..Len(u)
    BY <1>2, <1>4
<1>9. /\ f \in Seq(Nat) /\ Len(f) = Len(u) /\ DOMAIN f = 1..Len(u)
      /\ (\A i \in 1..Len(u) : f[i] = i) /\ SubSeq(f, 1, n) = Ident(n)
    BY <1>8, IdentType
<1>. HIDE DEF f
<1>10. \A i \in DOMAIN f : i \in I => i <= n + 1
    <2>1. SUFFICES ASSUME NEW i \in DOMAIN f, i \in I PROVE i <= n + 1
        OBVIOUS
    <2>2. Heads(u, i)
        BY <2>1 DEF HeadsOf
    <2>3. CASE i <= n
        BY <1>2, <1>8, <1>9, <2>3
    <2>4. CASE ~(i <= n)
        <3>. DEFINE j == i - n
        <3>1. j \in 1..l /\ i = n + j
            <4>1. i \in 1..(n + l)
                BY <1>2, <1>9
            <4>. QED
                BY <1>2, <2>4, <4>1
        <3>. HIDE DEF j
        <3>2. Heads(u, n + j)
            BY <2>2, <3>1
        <3>3. j = 1
            BY <1>5, <3>1, <3>2
        <3>. QED
            BY <1>2, <3>1, <3>3
    <2>. QED
        BY <2>3, <2>4
<1>11. n + 1 \in I <=> t \in Headed
    <2>1. 1 \in 1..l
        BY <1>2, <1>4
    <2>2. Heads(u, n + 1) <=> t \in Headed
        BY <1>5, <2>1
    <2>3. n + 1 \in DOMAIN u
        BY <1>2, <1>3, <1>8
    <2>. QED
        BY <2>2, <2>3 DEF HeadsOf
<1>12. Picked(Ident(n), I) = Picked(Ident(n), HeadsOf(s))
    <2>1. DOMAIN Ident(n) = 1..n
        BY <1>2, IdentType
    <2>2. \A i \in 1..n : i \in I <=> i \in HeadsOf(s)
        <3>1. \A i \in 1..n : i \in DOMAIN u /\ i \in DOMAIN s
            BY <1>2, <1>3
        <3>. QED
            BY <1>5, <3>1 DEF HeadsOf
    <2>. HIDE DEF I
    <2>. QED
        BY <2>1, <2>2, PickedSame
<1>. HIDE DEF I
<1>13. Picked(f, I) = IF n + 1 \in I THEN Append(Picked(SubSeq(f, 1, n), I), f[n + 1])
                      ELSE Picked(SubSeq(f, 1, n), I)
    <2>1. n + 1 <= Len(f) /\ n \in Nat /\ f \in Seq(Nat)
        BY <1>2, <1>8, <1>9
    <2>. QED
        BY <1>10, <2>1, PickedMore
<1>14. f[n + 1] = n + 1
    BY <1>8, <1>9
<1>15. InterfacesOf(u) = IF t \in Headed THEN Append(InterfacesOf(s), n + 1) ELSE InterfacesOf(s)
    BY <1>6, <1>7, <1>9, <1>11, <1>12, <1>13, <1>14
<1>. QED
    BY <1>15 DEF u, n

-----------------------------------------------------------------------------
(* Where the interfaces of a schema stand.                                   *)

\* t stands in src, from i on.
Place(src, i, t) ==
    \E b \in Nat : /\ i = b + 1 /\ b + Len(t) <= Len(src)
                   /\ \A j \in 1..Len(t) : src[b + j] = t[j]

\* What stands in a text stands there in a longer one, and what is put behind it
\* stands behind it.
LEMMA PlaceAfter ==
    ASSUME NEW s \in Seq(Token), NEW t \in Seq(Token)
    PROVE  /\ Place(s \o t, Len(s) + 1, t)
           /\ \A i : \A r \in Seq(Token) : Place(s, i, r) => Place(s \o t, i, r)
<1>. DEFINE u == s \o t
            n == Len(s)
            l == Len(t)
<1>1. /\ n \in Nat /\ l \in Nat /\ Len(u) = n + l
      /\ (\A k \in 1..n : u[k] = s[k]) /\ \A k \in 1..l : u[n + k] = t[k]
    BY ConcatAt
<1>. HIDE DEF u, n, l
<1>2. Place(u, n + 1, t)
    <2>1. n + Len(t) <= Len(u)
        BY <1>1 DEF l
    <2>2. \A j \in 1..Len(t) : u[n + j] = t[j]
        BY <1>1 DEF l
    <2>. QED
        BY <1>1, <2>1, <2>2 DEF Place
<1>3. ASSUME NEW i, NEW r \in Seq(Token), Place(s, i, r) PROVE Place(u, i, r)
    <2>1. PICK b \in Nat : /\ i = b + 1 /\ b + Len(r) <= Len(s)
                           /\ \A j \in 1..Len(r) : s[b + j] = r[j]
        BY <1>3 DEF Place
    <2>2. Len(r) \in Nat /\ b + Len(r) <= n
        BY <2>1 DEF n
    <2>3. b + Len(r) <= Len(u)
        BY <1>1, <2>2
    <2>4. ASSUME NEW j \in 1..Len(r) PROVE u[b + j] = r[j]
        <3>1. b + j \in 1..n
            BY <1>1, <2>2
        <3>2. u[b + j] = s[b + j]
            BY <1>1, <3>1
        <3>. QED
            BY <2>1, <3>2
    <2>. QED
        BY <2>1, <2>3, <2>4 DEF Place
<1>. QED
    BY <1>2, <1>3 DEF u, n

\* An interface is found in the code of one that extends nothing, and in no other.
LEMMA CodeKinds ==
    ASSUME PlainNames, NEW in \in WellInterface
    PROVE  /\ Code(in) \in Seq(Token) /\ Code(in) \in HeadFree \cup Headed
           /\ Len(Code(in)) # 0 /\ (Code(in) \in Headed <=> in.extends = "")
<1>. DEFINE t == Code(in)
<1>1. ASSUME t \in Headed, t \in HeadFree PROVE FALSE
    <2>. HIDE DEF t
    <2>1. t[1] = "interface" /\ t[2] \in Words /\ t[3] = "{" /\ Len(t) >= 3 /\ t \in Seq(Token)
        BY <1>1 DEF Headed
    <2>2. 3 \in DOMAIN t
        <3>1. Len(t) >= 3 /\ t \in Seq(Token)
            BY <2>1
        <3>2. DOMAIN t = 1..Len(t) /\ Len(t) \in Nat
            BY <3>1, ListIs
        <3>. QED
            BY <3>1, <3>2
    <2>3. 3 - 2 = 1 /\ 3 - 1 = 2
        OBVIOUS
    <2>4. t[3 - 2] = "interface" => t[3 - 1] \notin Words
        BY <1>1, <2>1, <2>2 DEF HeadFree
    <2>. QED
        BY <2>1, <2>3, <2>4
<1>2. in \in Basic \/ in \in Extended
    BY DEF Basic, Extended
<1>3. in \in Basic => t \in Headed
    BY CodeHeaded
<1>4. in \in Extended => t \in HeadFree
    BY ExtendingFree
<1>5. in \in Basic <=> in.extends = ""
    BY DEF Basic
<1>6. t \in HeadFree \cup Headed /\ (t \in Headed <=> in.extends = "")
    BY <1>1, <1>2, <1>3, <1>4, <1>5
<1>7. t \in Seq(Token)
    BY <1>6 DEF HeadFree, Headed
<1>8. Len(t) # 0
    <2>. DEFINE c == <<"}">>
                a == Heading(in) \o <<"{">> \o Body(in)
    <2>1. t = a \o c
        BY DEF Code
    <2>2. c \in Seq(Token) /\ Len(c) = 1
        <3>1. "}" \in Token
            BY DEF Token
        <3>2. c \in Seq(Token)
            BY <3>1, ShortText
        <3>3. Len(c) = 1
            OBVIOUS
        <3>. QED
            BY <3>2, <3>3
    <2>3. a \in Seq(Token)
        <3>. DEFINE o == <<"{">>
                    h == Heading(in)
                    b == Body(in)
        <3>1. h \in Seq(Token)
            BY HeadingWritten
        <3>2. b \in Seq(Token)
            BY BodyWritten
        <3>3. o \in Seq(Token)
            <4>1. "{" \in Token
                BY DEF Token
            <4>. QED
                BY <4>1, ShortText
        <3>. HIDE DEF o, h, b
        <3>4. h \o o \in Seq(Token)
            BY <3>1, <3>3, TextAfter
        <3>5. h \o o \o b \in Seq(Token)
            BY <3>2, <3>4, TextAfter
        <3>. QED
            BY <3>5 DEF o, h, b
    <2>. HIDE DEF t, a, c
    <2>4. Len(a \o c) = Len(a) + Len(c) /\ Len(a) \in Nat
        <3>1. a \in Seq(Token) /\ c \in Seq(Token)
            BY <2>2, <2>3
        <3>. QED
            BY <3>1, ConcatAt
    <2>5. Len(a \o c) # 0
        BY <2>2, <2>4
    <2>. QED
        BY <2>1, <2>5
<1>. QED
    BY <1>6, <1>7, <1>8

\* No interface is found in a text without heads.
LEMMA NoneFound ==
    ASSUME NEW p \in HeadFree
    PROVE  InterfacesOf(p) = <<>>
<1>1. p \in Seq(Token)
    BY DEF HeadFree
<1>2. <<>> \in Seq(Token) /\ Len(<<>>) = 0
    OBVIOUS
<1>3. InterfacesOf(<<>>) = <<>>
    <2>1. Ident(0) = <<>>
        BY DEF Ident
    <2>2. InterfacesOf(<<>>) = Picked(Ident(Len(<<>>)), HeadsOf(<<>>))
        BY <1>2, InterfacesPicked
    <2>. QED
        BY <1>2, <2>1, <2>2, PickedEmpty
<1>4. CASE Len(p) = 0
    <2>1. p = <<>>
        BY <1>1, <1>4, EmptySeq
    <2>. QED
        BY <1>3, <2>1
<1>5. CASE Len(p) # 0
    <2>1. p \notin Headed
        <3>1. ASSUME p \in Headed PROVE FALSE
            <4>1. /\ p[1] = "interface" /\ p[2] \in Words /\ p[3] = "{" /\ Len(p) >= 3
                BY <3>1 DEF Headed
            <4>2. 3 \in DOMAIN p
                <5>1. Len(p) >= 3
                    BY <4>1
                <5>2. DOMAIN p = 1..Len(p) /\ Len(p) \in Nat
                    BY <1>1, ListIs
                <5>. QED
                    BY <5>1, <5>2
            <4>3. 3 - 2 = 1 /\ 3 - 1 = 2
                OBVIOUS
            <4>4. p[3 - 2] = "interface" => p[3 - 1] \notin Words
                BY <4>1, <4>2 DEF HeadFree
            <4>. QED
                BY <4>1, <4>3, <4>4
        <3>. QED
            BY <3>1
    <2>2. p \in HeadFree \cup Headed
        OBVIOUS
    <2>3. InterfacesOf(<<>> \o p) = InterfacesOf(<<>>)
        BY <1>2, <1>5, <2>1, <2>2, InterfacesAfter
    <2>4. <<>> \o p = p
        BY <1>1, NothingBefore
    <2>. QED
        BY <1>3, <2>3, <2>4
<1>. QED
    BY <1>4, <1>5

\* The codes of the first n interfaces.
Codes(ins, n) == [i \in 1..n |-> Code(ins[i])]
Bases(ins) == {i \in DOMAIN ins : ins[i].extends = ""}
\* at says where those of some interfaces stand, one by one.
FoundAt(src, at, found) ==
    /\ Len(at) = Len(found)
    /\ \A k \in DOMAIN found : Place(src, at[k], Code(found[k]))

\* They are lists of texts, and one more code is one more text.
LEMMA CodesGrow ==
    ASSUME PlainNames, NEW ins \in Seq(WellInterface), NEW n \in Nat, n <= Len(ins)
    PROVE  /\ FlattenSeq(Codes(ins, n)) \in Seq(Token)
           /\ n + 1 <= Len(ins) =>
                FlattenSeq(Codes(ins, n + 1)) = FlattenSeq(Codes(ins, n)) \o Code(ins[n + 1])
<1>1. DOMAIN ins = 1..Len(ins) /\ Len(ins) \in Nat /\ \A i \in DOMAIN ins : ins[i] \in WellInterface
    BY ListIs
<1>2. \A i \in 1..Len(ins) : Code(ins[i]) \in Seq(Token)
    BY <1>1, CodeKinds
<1>3. ASSUME NEW k \in Nat, k <= Len(ins)
      PROVE  /\ Codes(ins, k) \in Seq(Seq(Token)) /\ Len(Codes(ins, k)) = k
             /\ DOMAIN Codes(ins, k) = 1..k
             /\ \A i \in 1..k : Codes(ins, k)[i] = Code(ins[i])
    <2>. DEFINE c == Codes(ins, k)
    <2>1. DOMAIN c = 1..k /\ (\A i \in 1..k : c[i] = Code(ins[i])) /\ c = [i \in 1..k |-> c[i]]
        BY DEF Codes
    <2>2. \A i \in 1..k : i \in 1..Len(ins)
        BY <1>1, <1>3
    <2>3. \A i \in 1..k : c[i] \in Seq(Token)
        BY <1>2, <2>1, <2>2
    <2>4. c \in Seq(Seq(Token)) /\ Len(c) = k
        <3>. HIDE DEF c
        <3>. QED
            BY <2>1, <2>3, ListWithin
    <2>. QED
        BY <2>1, <2>4
<1>4. FlattenSeq(Codes(ins, n)) \in Seq(Token)
    BY <1>3, FlattenType
<1>5. ASSUME n + 1 <= Len(ins)
      PROVE  FlattenSeq(Codes(ins, n + 1)) = FlattenSeq(Codes(ins, n)) \o Code(ins[n + 1])
    <2>. DEFINE h == Codes(ins, n)
                g == Codes(ins, n + 1)
                m == n + 1
    <2>1. /\ h \in Seq(Seq(Token)) /\ Len(h) = n /\ DOMAIN h = 1..n
          /\ \A i \in 1..n : h[i] = Code(ins[i])
        BY <1>3
    <2>2. m \in Nat /\ m <= Len(ins) /\ m \in 1..m
        BY <1>5
    <2>. HIDE DEF m
    <2>3. /\ g \in Seq(Seq(Token)) /\ Len(g) = m /\ \A i \in 1..m : g[i] = Code(ins[i])
        BY <1>3, <2>2 DEF m
    <2>. HIDE DEF g, h
    <2>4. Len(g) = Len(h) + 1
        BY <2>1, <2>3 DEF m
    <2>5. \A k \in DOMAIN h : g[k] = h[k]
        <3>1. \A k \in 1..n : k \in 1..m
            BY DEF m
        <3>. QED
            BY <2>1, <2>3, <3>1
    <2>6. FlattenSeq(g) = FlattenSeq(h) \o g[Len(g)]
        BY <2>1, <2>3, <2>4, <2>5, FlattenFront
    <2>7. g[Len(g)] = Code(ins[m])
        BY <2>2, <2>3
    <2>. QED
        BY <2>6, <2>7 DEF g, h, m
<1>. QED
    BY <1>4, <1>5

\* The interfaces found in the codes behind a text without heads stand where they
\* are found, in order.
LEMMA AllFound ==
    ASSUME PlainNames, NEW ins \in Seq(WellInterface), NEW p \in HeadFree
    PROVE  FoundAt(p \o FlattenSeq(Codes(ins, Len(ins))),
                   InterfacesOf(p \o FlattenSeq(Codes(ins, Len(ins)))),
                   Picked(ins, Bases(ins)))
<1>. DEFINE E == Bases(ins)
            C(n) == FlattenSeq(Codes(ins, n))
            T(n) == p \o C(n)
            F(n) == Picked(SubSeq(ins, 1, n), E)
            A(n) == InterfacesOf(T(n))
            Done == {n \in Nat : n <= Len(ins) => FoundAt(T(n), A(n), F(n))}
<1>1. p \in Seq(Token)
    BY DEF HeadFree
<1>2. Len(ins) \in Nat /\ DOMAIN ins = 1..Len(ins) /\ \A i \in DOMAIN ins : ins[i] \in WellInterface
    BY ListIs
<1>3. ASSUME NEW n \in Nat, n <= Len(ins)
      PROVE  C(n) \in Seq(Token) /\ T(n) \in Seq(Token)
    <2>1. C(n) \in Seq(Token)
        BY <1>3, CodesGrow
    <2>. HIDE DEF C
    <2>2. p \o C(n) \in Seq(Token)
        BY <1>1, <2>1, TextAfter
    <2>. QED
        BY <2>1, <2>2
<1>4. 0 \in Done
    <2>1. C(0) = <<>>
        <3>1. Codes(ins, 0) = <<>>
            BY DEF Codes
        <3>. QED
            BY <3>1, FlattenEmpty
    <2>2. T(0) = p
        <3>1. p \o <<>> = p
            BY <1>1, NothingBefore
        <3>. QED
            BY <2>1, <3>1
    <2>3. A(0) = <<>>
        BY <2>2, NoneFound
    <2>4. F(0) = <<>>
        <3>1. SubSeq(ins, 1, 0) = <<>>
            BY SubSeqEmpty
        <3>. QED
            BY <3>1, PickedEmpty
    <2>5. FoundAt(T(0), <<>>, <<>>)
        <3>1. DOMAIN <<>> = {} /\ Len(<<>>) = Len(<<>>)
            OBVIOUS
        <3>. HIDE DEF T
        <3>. QED
            BY <3>1 DEF FoundAt
    <2>6. FoundAt(T(0), A(0), F(0))
        BY <2>3, <2>4, <2>5
    <2>. HIDE DEF T, A, F
    <2>. QED
        BY <2>6
<1>5. ASSUME NEW n \in Nat, n \in Done PROVE n + 1 \in Done
    <2>. DEFINE m == n + 1
    <2>1. SUFFICES ASSUME m <= Len(ins) PROVE FoundAt(T(m), A(m), F(m))
        <3>1. m \in Nat
            OBVIOUS
        <3>. HIDE DEF T, A, F
        <3>. QED
            BY <3>1
    <2>2. m \in Nat /\ n <= Len(ins) /\ m \in 1..Len(ins) /\ n \in 0..(Len(ins) - 1)
        BY <1>2, <2>1
    <2>. DEFINE e == ins[m]
                t == Code(e)
                s == T(n)
    <2>3. e \in WellInterface
        BY <1>2, <2>2
    <2>4. /\ t \in Seq(Token) /\ t \in HeadFree \cup Headed
          /\ Len(t) # 0 /\ (t \in Headed <=> e.extends = "")
        BY <2>3, CodeKinds
    <2>5. FoundAt(s, A(n), F(n))
        <3>. HIDE DEF T, A, F
        <3>1. n <= Len(ins) => FoundAt(T(n), A(n), F(n))
            BY <1>5
        <3>. QED
            BY <2>2, <3>1
    <2>6. s \in Seq(Token) /\ C(n) \in Seq(Token)
        BY <1>3, <2>2
    <2>7. T(m) = s \o t
        <3>1. C(m) = C(n) \o t
            BY <2>1, <2>2, CodesGrow
        <3>. HIDE DEF C, t
        <3>2. (p \o C(n)) \o t = p \o (C(n) \o t)
            BY <1>1, <2>4, <2>6, TextsAssociative, Zenon
        <3>. QED
            BY <3>1, <3>2
    <2>8. F(m) = IF m \in E THEN Append(F(n), e) ELSE F(n)
        <3>1. F(n + 1) = IF n + 1 \in E THEN Append(F(n), ins[n + 1]) ELSE F(n)
            BY <2>2, PickedStep
        <3>. QED
            BY <3>1
    <2>9. m \in E <=> t \in Headed
        BY <1>2, <2>2, <2>4 DEF Bases
    <2>10. /\ F(n) \in Seq(WellInterface)
        <3>1. SubSeq(ins, 1, n) \in Seq(WellInterface)
            <4>1. 1 \in Nat /\ n \in Int /\ 1 <= 1
                BY <2>2
            <4>. QED
                BY <2>2, <4>1, PieceType
        <3>. QED
            BY <3>1, PickedType
    <2>. HIDE DEF m, t, e, s, E, C, T, F
    <2>11. A(m) = IF t \in Headed THEN Append(A(n), Len(s) + 1) ELSE A(n)
        <3>1. InterfacesOf(s \o t) = IF t \in Headed THEN Append(InterfacesOf(s), Len(s) + 1)
                                     ELSE InterfacesOf(s)
            BY <2>4, <2>6, InterfacesAfter
        <3>. QED
            BY <2>7, <3>1 DEF s
    <2>12. A(n) \in Seq(Nat)
        <3>1. InterfacesOf(s) \in Seq({i \in DOMAIN s : Heads(s, i)})
            BY <2>6, HeadsType
        <3>2. {i \in DOMAIN s : Heads(s, i)} \subseteq Nat
            <4>1. DOMAIN s = 1..Len(s)
                BY <2>6, ListIs
            <4>. QED
                BY <4>1
        <3>3. InterfacesOf(s) \in Seq(Nat)
            BY <3>1, <3>2, Widened
        <3>. QED
            BY <3>3 DEF s
    <2>. HIDE DEF A
    <2>13. Len(A(n)) = Len(F(n)) /\ \A k \in DOMAIN F(n) : Place(s, A(n)[k], Code(F(n)[k]))
        BY <2>5 DEF FoundAt
    <2>14. /\ Len(F(n)) \in Nat /\ DOMAIN F(n) = 1..Len(F(n))
           /\ \A k \in DOMAIN F(n) : F(n)[k] \in WellInterface
        BY <2>10, ListIs
    <2>15. Place(s \o t, Len(s) + 1, t)
           /\ \A i : \A r \in Seq(Token) : Place(s, i, r) => Place(s \o t, i, r)
        BY <2>4, <2>6, PlaceAfter
    <2>16. \A k \in DOMAIN F(n) : Place(s \o t, A(n)[k], Code(F(n)[k]))
        <3>1. ASSUME NEW k \in DOMAIN F(n) PROVE Place(s \o t, A(n)[k], Code(F(n)[k]))
            <4>1. Code(F(n)[k]) \in Seq(Token)
                BY <2>14, CodeKinds
            <4>2. Place(s, A(n)[k], Code(F(n)[k]))
                BY <2>13
            <4>. QED
                BY <2>15, <4>1, <4>2
        <3>. QED
            BY <3>1
    <2>17. CASE t \notin Headed
        <3>1. A(m) = A(n) /\ F(m) = F(n)
            BY <2>8, <2>9, <2>11, <2>17
        <3>. QED
            BY <2>7, <2>13, <2>16, <3>1 DEF FoundAt
    <2>18. CASE t \in Headed
        <3>. DEFINE a == A(n)
                    f == F(n)
                    l == Len(s) + 1
        <3>1. A(m) = Append(a, l) /\ F(m) = Append(f, e)
            BY <2>8, <2>9, <2>11, <2>18
        <3>2. a \in Seq(Nat) /\ f \in Seq(WellInterface) /\ Len(a) = Len(f)
            BY <2>10, <2>12, <2>13
        <3>3. \A k \in 1..Len(f) : Place(s \o t, a[k], Code(f[k]))
            BY <2>14, <2>16
        <3>4. Place(s \o t, l, Code(e))
            BY <2>15 DEF t
        <3>. HIDE DEF a, f, l
        <3>5. /\ Len(Append(a, l)) = Len(a) + 1 /\ Append(a, l)[Len(a) + 1] = l
              /\ \A k \in 1..Len(a) : Append(a, l)[k] = a[k]
            BY <3>2
        <3>6. /\ Len(Append(f, e)) = Len(f) + 1 /\ Append(f, e)[Len(f) + 1] = e
              /\ (\A k \in 1..Len(f) : Append(f, e)[k] = f[k])
              /\ DOMAIN Append(f, e) = 1..(Len(f) + 1) /\ Len(f) \in Nat
            BY <3>2
        <3>7. ASSUME NEW k \in 1..(Len(f) + 1)
              PROVE  Place(s \o t, Append(a, l)[k], Code(Append(f, e)[k]))
            <4>1. k \in 1..Len(f) \/ k = Len(f) + 1
                BY <3>6
            <4>2. CASE k \in 1..Len(f)
                <5>1. Append(a, l)[k] = a[k] /\ Append(f, e)[k] = f[k]
                    BY <3>2, <3>5, <3>6, <4>2
                <5>. QED
                    BY <3>3, <4>2, <5>1
            <4>3. CASE k = Len(f) + 1
                <5>1. Append(a, l)[k] = l /\ Append(f, e)[k] = e
                    BY <3>2, <3>5, <3>6, <4>3
                <5>. QED
                    BY <3>4, <5>1
            <4>. QED
                BY <4>1, <4>2, <4>3
        <3>8. FoundAt(s \o t, Append(a, l), Append(f, e))
            <4>1. Len(Append(a, l)) = Len(Append(f, e))
                BY <3>2, <3>5, <3>6
            <4>2. DOMAIN Append(f, e) = 1..(Len(f) + 1)
                BY <3>6
            <4>. QED
                BY <3>7, <4>1, <4>2 DEF FoundAt
        <3>. QED
            BY <2>7, <3>1, <3>8
    <2>. QED
        BY <2>17, <2>18
<1>. HIDE DEF Done
<1>6. Nat \subseteq Done
    BY <1>4, <1>5, SetInduction
<1>7. FoundAt(T(Len(ins)), A(Len(ins)), F(Len(ins)))
    <2>. HIDE DEF T, A, F
    <2>1. Len(ins) \in Done /\ Len(ins) <= Len(ins)
        BY <1>2, <1>6
    <2>. QED
        BY <2>1 DEF Done
<1>8. F(Len(ins)) = Picked(ins, E)
    <2>1. SubSeq(ins, 1, Len(ins)) = ins
        <3>1. 0 \in Nat /\ 0 + 1 = 1 /\ 0 + Len(ins) = Len(ins)
              /\ 0 + Len(ins) <= Len(ins) /\ \A k \in 1..Len(ins) : 0 + k = k
            BY <1>2
        <3>2. \A k \in 1..Len(ins) : ins[0 + k] = ins[k]
            BY <3>1
        <3>3. SubSeq(ins, 0 + 1, 0 + Len(ins)) = ins
            BY <3>1, <3>2, SliceIs
        <3>. QED
            BY <3>1, <3>3
    <2>. QED
        BY <2>1
<1>. QED
    BY <1>7, <1>8

\* An interface is read where its code stands.
LEMMA PlaceRead ==
    ASSUME PlainNames, NEW in \in Basic, NEW src \in Seq(Token), NEW i,
           Place(src, i, Code(in))
    PROVE  src[i + 1] = in.name /\ HasBody(src, i + 2) /\ Statements(src, i) = Stmts(in)
<1>0. in \in WellInterface
    BY DEF Basic
<1>. DEFINE t == Code(in)
            b == Body(in)
            n == Len(b)
            m == Len(src)
<1>1. PICK a \in Nat : /\ i = a + 1 /\ a + Len(t) <= m
                       /\ \A j \in 1..Len(t) : src[a + j] = t[j]
    BY DEF Place
<1>2. /\ Len(t) = n + 4 /\ n \in Nat
      /\ t[1] = "interface" /\ t[2] = in.name /\ t[3] = "{"
      /\ (\A k \in 1..n : t[3 + k] = b[k])
      /\ t[n + 4] = "}"
    BY CodeAt
<1>3. b \in Seq(Token) /\ b \in Paired("{", "}")
    BY <1>0, BodyWritten
<1>4. m \in Nat
    OBVIOUS
<1>. HIDE DEF t, b, n, m
<1>5. Len(t) = n + 4 /\ n \in Nat /\ a + (n + 4) <= m
    BY <1>1, <1>2
<1>. DEFINE o == i + 2
<1>6. o \in Nat /\ o = a + 3 /\ o > 0 /\ o + n + 1 <= m /\ o + n + 1 = a + (n + 4)
      /\ i + 1 = a + 2
    <2>1. i = a + 1
        BY <1>1
    <2>. QED
        BY <1>4, <1>5, <2>1
<1>. HIDE DEF o
<1>7. src[a + 2] = t[2] /\ src[a + 3] = t[3] /\ src[a + (n + 4)] = t[n + 4]
    <2>1. 2 \in 1..Len(t) /\ 3 \in 1..Len(t) /\ n + 4 \in 1..Len(t)
        BY <1>5
    <2>. DEFINE l == n + 4
    <2>2. l \in 1..Len(t)
        BY <2>1
    <2>. HIDE DEF l
    <2>3. src[a + l] = t[l]
        BY <1>1, <2>2
    <2>. QED
        BY <1>1, <2>1, <2>3 DEF l
<1>8. src[i + 1] = in.name /\ src[o] = "{" /\ src[o + n + 1] = "}"
    BY <1>2, <1>6, <1>7
<1>9. \A k \in 1..n : src[o + k] = b[k]
    <2>1. SUFFICES ASSUME NEW k \in 1..n PROVE src[o + k] = b[k]
        OBVIOUS
    <2>. DEFINE l == 3 + k
    <2>2. l \in 1..Len(t) /\ o + k = a + l
        BY <1>5, <1>6
    <2>3. t[l] = b[k]
        BY <1>2
    <2>. HIDE DEF l
    <2>4. src[a + l] = t[l]
        BY <1>1, <2>2
    <2>. QED
        BY <2>2, <2>3, <2>4
<1>10. Closings(src, o, "{", "}") # {} /\ Min(Closings(src, o, "{", "}")) = o + n + 1
    <2>. DEFINE u == "{"
                v == "}"
    <2>1. u # v
        OBVIOUS
    <2>2. o + Len(b) + 1 <= Len(src)
        BY <1>6 DEF n, m
    <2>3. \A k \in 1..Len(b) : src[o + k] = b[k]
        BY <1>9 DEF n
    <2>4. src[o + Len(b) + 1] = v
        BY <1>8 DEF n
    <2>5. o \in Nat /\ o > 0
        BY <1>6
    <2>6. b \in Paired(u, v)
        BY <1>3
    <2>7. src[o] = u
        BY <1>8
    <2>. HIDE DEF u, v
    <2>8. Closings(src, o, u, v) # {} /\ Min(Closings(src, o, u, v)) = o + Len(b) + 1
        BY <2>1, <2>2, <2>3, <2>4, <2>5, <2>6, <2>7, ClosedBehind
    <2>. QED
        BY <2>8 DEF n, u, v
<1>11. balancedBody(src, o) = b
    <2>1. o + n + 1 - 1 = o + n /\ o + n <= m
        <3>1. o \in Nat /\ n \in Nat /\ m \in Nat /\ o + n + 1 <= m
            BY <1>4, <1>5, <1>6
        <3>. QED
            BY <3>1
    <2>2. SubSeq(src, o + 1, o + Len(b)) = b
        <3>1. o + Len(b) <= Len(src) /\ \A k \in 1..Len(b) : src[o + k] = b[k]
            BY <1>9, <2>1 DEF n, m
        <3>2. o \in Nat
            BY <1>6
        <3>. QED
            BY <1>3, <3>1, <3>2, SliceIs
    <2>3. balancedBody(src, o) = SubSeq(src, o + 1, o + n)
        <3>. DEFINE e == Min(Closings(src, o, "{", "}"))
        <3>1. balancedBody(src, o) = SubSeq(src, o + 1, e - 1)
            BY DEF balancedBody
        <3>2. e = o + n + 1
            BY <1>10
        <3>. HIDE DEF e
        <3>. DEFINE r == o + n
        <3>3. r \in Nat
            BY <1>5, <1>6
        <3>5. e = r + 1
            BY <3>2
        <3>. HIDE DEF r
        <3>6. e - 1 = r
            BY <3>3, <3>5
        <3>4. e - 1 = o + n
            BY <3>6 DEF r
        <3>. QED
            BY <3>1, <3>4
    <2>. QED
        BY <2>2, <2>3 DEF n
<1>12. NonEmpty(splitTopLevel(b, ";")) = Stmts(in)
    BY <1>0, BodySplit DEF b
<1>13. HasBody(src, o)
    BY <1>10 DEF HasBody
<1>. QED
    BY <1>8, <1>11, <1>12, <1>13 DEF Statements, o

\* The interfaces of a schema that is well written are.
LEMMA SchemaWell ==
    ASSUME NEW s \in Schemas, WellWritten(s)
    PROVE  s.interfaces \in Seq(WellInterface)
<1>. DEFINE ins == s.interfaces
<1>1. /\ ins \in Seq(InterfaceDecl)
      /\ \A i \in DOMAIN ins : Len(ins[i].methods) <= Len(Ordinals)
    BY GeneratorAssumption
<1>2. \A i \in DOMAIN ins : \A k \in DOMAIN ins[i].methods :
         /\ \A j \in DOMAIN ins[i].methods[k].params :
               WellTyped(ins[i].methods[k].params[j].type)
         /\ \A j \in DOMAIN ins[i].methods[k].results :
               WellTyped(ins[i].methods[k].results[j].type)
    <2>1. \A in \in Range(ins) : \A m \in Range(in.methods) :
             \A f \in Range(m.params) \cup Range(m.results) : WellTyped(f.type)
        BY DEF WellWritten
    <2>2. ASSUME NEW i \in DOMAIN ins, NEW k \in DOMAIN ins[i].methods
          PROVE  \A f \in Range(ins[i].methods[k].params)
                          \cup Range(ins[i].methods[k].results) : WellTyped(f.type)
        <3>1. ins[i] \in Range(ins) /\ ins[i].methods[k] \in Range(ins[i].methods)
            BY DEF Range
        <3>. HIDE DEF ins
        <3>. QED
            BY <2>1, <3>1
    <2>. HIDE DEF ins
    <2>. QED
        BY <2>2 DEF Range
<1>. HIDE DEF ins
<1>3. ASSUME NEW f \in Seq(FieldDecl), \A j \in DOMAIN f : WellTyped(f[j].type)
      PROVE  f \in Seq(WellField)
    <2>1. /\ Len(f) \in Nat /\ DOMAIN f = 1..Len(f) /\ f = [j \in 1..Len(f) |-> f[j]]
          /\ \A j \in 1..Len(f) : f[j] \in FieldDecl
        OBVIOUS
    <2>2. \A j \in 1..Len(f) : f[j] \in WellField
        BY <1>3, <2>1 DEF WellField
    <2>. QED
        BY <2>1, <2>2, ListWithin
<1>4. ASSUME NEW i \in DOMAIN ins PROVE ins[i] \in WellInterface
    <2>. DEFINE in == ins[i]
                ms == in.methods
    <2>1. in \in InterfaceDecl
        BY <1>1, ListIs
    <2>2. ms \in Seq(MethodDecl)
        BY <2>1 DEF InterfaceDecl
    <2>3. /\ Len(ms) \in Nat /\ DOMAIN ms = 1..Len(ms) /\ ms = [k \in 1..Len(ms) |-> ms[k]]
          /\ \A k \in 1..Len(ms) : ms[k] \in MethodDecl
        <3>. HIDE DEF ms
        <3>. QED
            BY <2>2
    <2>4. ASSUME NEW k \in 1..Len(ms) PROVE ms[k] \in WellMethod
        <3>. DEFINE m == ms[k]
        <3>1. m \in MethodDecl
            BY <2>3
        <3>2. m.params \in Seq(FieldDecl) /\ m.results \in Seq(FieldDecl)
            BY <3>1 DEF MethodDecl
        <3>3. /\ \A j \in DOMAIN m.params : WellTyped(m.params[j].type)
              /\ \A j \in DOMAIN m.results : WellTyped(m.results[j].type)
            BY <1>2, <2>3
        <3>. HIDE DEF m
        <3>4. m.params \in Seq(WellField) /\ m.results \in Seq(WellField)
            BY <1>3, <3>2, <3>3
        <3>. QED
            BY <3>1, <3>4 DEF WellMethod, m
    <2>5. ms \in Seq(WellMethod)
        <3>. HIDE DEF ms
        <3>. QED
            BY <2>3, <2>4, ListWithin
    <2>6. Len(ms) <= Len(Ordinals)
        BY <1>1
    <2>. QED
        BY <2>1, <2>5, <2>6 DEF WellInterface
<1>5. ins \in Seq(WellInterface)
    <2>1. Len(ins) \in Nat /\ DOMAIN ins = 1..Len(ins) /\ ins = [j \in 1..Len(ins) |-> ins[j]]
        BY <1>1
    <2>2. \A i \in 1..Len(ins) : ins[i] \in WellInterface
        BY <1>4, <2>1
    <2>. QED
        BY <2>1, <2>2, ListWithin
<1>. QED
    BY <1>5 DEF ins

\* Methods that are read as they are written.
ReadAs(ms, ws) ==
    /\ DOMAIN ms = DOMAIN ws
    /\ \A k \in DOMAIN ms : /\ ms[k].name = ws[k].name
                            /\ FieldsAre(ms[k].params, ws[k].params)
                            /\ FieldsAre(ms[k].results, ws[k].results)

\* Where an interface stands, all its statements are methods exactly if the parser
\* knows the style of each, and then they are read as they are written.
LEMMA MethodsReadBack ==
    ASSUME PlainNames, NEW in \in Basic, NEW src \in Seq(Token), NEW i,
           Place(src, i, Code(in))
    PROVE  /\ (\A stmt \in Range(Statements(src, i)) : IsMethod(stmt))
                <=> \A m \in Range(in.methods) : m.style \notin UnknownStyles
           /\ (\A m \in Range(in.methods) : m.style \notin UnknownStyles) =>
                ReadAs([k \in DOMAIN Statements(src, i) |-> AsMethod(Statements(src, i)[k])],
                       in.methods)
<1>1. in \in WellInterface
    BY DEF Basic
<1>2. Statements(src, i) = Stmts(in)
    BY PlaceRead
<1>3. /\ (\A m \in Range(in.methods) : m.style \notin UnknownStyles) =>
            /\ Stmts(in) = [k \in DOMAIN in.methods |-> Declared(in.methods[k], k)]
            /\ \A stmt \in Range(Stmts(in)) : IsMethod(stmt)
      /\ (\E m \in Range(in.methods) : m.style \in UnknownStyles) =>
            \E stmt \in Range(Stmts(in)) : ~IsMethod(stmt)
    BY <1>1, StmtsRead
<1>4. ASSUME \A m \in Range(in.methods) : m.style \notin UnknownStyles
      PROVE  ReadAs([k \in DOMAIN Stmts(in) |-> AsMethod(Stmts(in)[k])], in.methods)
    <2>. DEFINE ws == in.methods
                d == [k \in DOMAIN ws |-> Declared(ws[k], k)]
                ms == [k \in DOMAIN d |-> AsMethod(d[k])]
    <2>1. Stmts(in) = d
        BY <1>3, <1>4
    <2>2. \A k \in DOMAIN ws : ws[k] \in WellMethod /\ k \in DOMAIN Ordinals
        BY <1>1, Numbered
    <2>3. \A k \in DOMAIN ws : ws[k].style \notin UnknownStyles
        BY <1>4 DEF Range
    <2>. HIDE DEF ws
    <2>4. DOMAIN ms = DOMAIN ws /\ \A k \in DOMAIN ws : ms[k] = AsMethod(Declared(ws[k], k))
        OBVIOUS
    <2>. HIDE DEF ms
    <2>5. ASSUME NEW k \in DOMAIN ws
          PROVE  /\ ms[k].name = ws[k].name
                 /\ FieldsAre(ms[k].params, ws[k].params)
                 /\ FieldsAre(ms[k].results, ws[k].results)
        <3>. DEFINE m == ws[k]
        <3>1. m \in WellMethod /\ k \in DOMAIN Ordinals /\ m.style \notin UnknownStyles
            BY <2>2, <2>3
        <3>2. ms[k] = AsMethod(Declared(m, k))
            BY <2>4
        <3>. HIDE DEF m
        <3>3. /\ AsMethod(Declared(m, k)).name = m.name
              /\ FieldsAre(AsMethod(Declared(m, k)).params, m.params)
              /\ FieldsAre(AsMethod(Declared(m, k)).results, m.results)
            BY <3>1, MethodRead
        <3>. QED
            BY <3>2, <3>3 DEF m
    <2>6. ReadAs(ms, ws)
        BY <2>4, <2>5 DEF ReadAs
    <2>. QED
        BY <2>1, <2>6 DEF ms, ws
<1>. QED
    BY <1>2, <1>3, <1>4

\* Four words, two and two.
LEMMA FourWords ==
    ASSUME NEW S, NEW a \in S, NEW b \in S, NEW c \in S, NEW d \in S
    PROVE  <<a, b>> \o <<c, d>> = <<a, b, c, d>>
<1>. DEFINE p == <<a, b>>
            q == <<c, d>>
            t == p \o q
            u == <<a, b, c, d>>
<1>1. p \in Seq(S) /\ q \in Seq(S)
    <2>1. \A x, y \in S : <<x, y>> \in Seq(S)
        BY ShortText
    <2>. QED
        BY <2>1
<1>2. u \in Seq(S)
    <2>1. \A x, y, z, v \in S : <<x, y, z, v>> \in Seq(S)
        BY ShortText
    <2>. QED
        BY <2>1
<1>3. Len(p) = 2 /\ Len(q) = 2 /\ p[1] = a /\ p[2] = b /\ q[1] = c /\ q[2] = d
    OBVIOUS
<1>4. Len(u) = 4 /\ u[1] = a /\ u[2] = b /\ u[3] = c /\ u[4] = d
    OBVIOUS
<1>5. t = p \o q
    OBVIOUS
<1>. HIDE DEF p, q, t, u
<1>6. /\ t \in Seq(S) /\ Len(t) = Len(p) + Len(q)
      /\ (\A k \in 1..Len(p) : t[k] = p[k])
      /\ \A k \in 1..Len(q) : t[Len(p) + k] = q[k]
    BY <1>1, <1>5, ConcatAt
<1>7. /\ Len(t) = 4 /\ t[1] = p[1] /\ t[2] = p[2] /\ t[2 + 1] = q[1] /\ t[2 + 2] = q[2]
      /\ 2 + 1 = 3 /\ 2 + 2 = 4
    BY <1>3, <1>6
<1>8. \A k \in 1..4 : t[k] = u[k]
    <2>1. t[3] = q[1] /\ t[4] = q[2]
        BY <1>7
    <2>2. t[1] = u[1] /\ t[2] = u[2] /\ t[3] = u[3] /\ t[4] = u[4]
        BY <1>3, <1>4, <1>7, <2>1
    <2>. QED
        BY <2>2
<1>9. t = u
    BY <1>2, <1>4, <1>6, <1>7, <1>8, SeqEqual
<1>. QED
    BY <1>9 DEF t, u, p, q

\* Nor is one found in what is left of the package's annotation.
LEMMA PackageWritten ==
    ASSUME PlainNames, NEW s \in Schemas
    PROVE  LET head == IF s.package = "" THEN <<>>
                       ELSE <<"$Go.package", s.package, ";", "nl">>
           IN  head \in Seq(Token) /\ \E p \in HeadFree : <<head, p>> \in Cleanings
<1>. DEFINE w == s.package
            e == "$Go.package"
            a == <<e, w>>
            b == <<";", "nl">>
            c == <<";">>
<1>1. w \in STRING /\ w \notin Punctuation
    BY GeneratorAssumption DEF PlainNames
<1>2. /\ w \in Token /\ e \in Token /\ ";" \in Token /\ "nl" \in Token
      /\ w \notin {"nl", "#", "{"} /\ e \notin {"nl", "#", "{"}
      /\ ";" \notin {"nl", "#", "{"}
    BY <1>1 DEF Token, Punctuation
<1>. HIDE DEF w, e
<1>3. a \in Seq(Token) /\ b \in Seq(Token) /\ c \in Seq(Token)
    <2>1. \A x, y \in Token : <<x, y>> \in Seq(Token)
        BY ShortText
    <2>2. \A x \in Token : <<x>> \in Seq(Token)
        BY ShortText
    <2>. QED
        BY <1>2, <2>1, <2>2
<1>4. DOMAIN a = {1, 2} /\ a[1] = e /\ a[2] = w
    OBVIOUS
<1>5. \A j \in DOMAIN a : a[j] \notin {"nl", "#"} /\ a[j] # "{"
    <2>. HIDE DEF a
    <2>. QED
        BY <1>2, <1>4
<1>6. <<a, a>> \in Cleanings /\ a \in HeadFree
    <2>. HIDE DEF a
    <2>. QED
        BY <1>3, <1>5, CleanText, BracelessFree
<1>7. <<b, c>> \in Cleanings
    <2>1. <<<<";">>, <<";">>>> \in Cleanings /\ <<<<"nl">>, <<>>>> \in Cleanings
        BY <1>2, CleanShort
    <2>2. <<";">> \in Seq(Token) /\ <<"nl">> \in Seq(Token) /\ <<>> \in Seq(Token)
        BY <1>2, ShortText
    <2>3. <<<<";">> \o <<"nl">>, <<";">> \o <<>>>> \in Cleanings
        BY <2>1, <2>2, CleanConcat
    <2>4. <<";">> \o <<"nl">> = <<";", "nl">>
        BY TwoWords
    <2>5. <<";">> \o <<>> = <<";">>
        BY <2>2, NothingBefore
    <2>. QED
        BY <2>3, <2>4, <2>5
<1>8. c \in HeadFree
    BY <1>2, FreeShort
<1>9. a \o b = <<e, w, ";", "nl">>
    <2>. DEFINE x == ";"
                y == "nl"
    <2>1. e \in Token /\ w \in Token /\ x \in Token /\ y \in Token
        BY <1>2
    <2>. HIDE DEF x, y
    <2>2. <<e, w>> \o <<x, y>> = <<e, w, x, y>>
        BY <2>1, FourWords
    <2>. QED
        BY <2>2 DEF x, y
<1>. HIDE DEF a, b, c
<1>10. <<a \o b, a \o c>> \in Cleanings /\ a \o c \in HeadFree /\ a \o b \in Seq(Token)
    <2>1. <<a \o b, a \o c>> \in Cleanings
        BY <1>3, <1>6, <1>7, CleanConcat
    <2>2. a \o c \in HeadFree
        BY <1>6, <1>8, HeadFreeConcat
    <2>3. a \o b \in Seq(Token)
        BY <1>3, TextAfter
    <2>. QED
        BY <2>1, <2>2, <2>3
<1>. DEFINE head == IF w = "" THEN <<>> ELSE <<e, w, ";", "nl">>
<1>11. head \in Seq(Token) /\ \E p \in HeadFree : <<head, p>> \in Cleanings
    <2>1. CASE w = ""
        <3>1. <<>> \in Seq(Token) /\ <<>> \in HeadFree /\ <<<<>>, <<>>>> \in Cleanings
            BY ShortText, FreeShort, CleanShort
        <3>. QED
            BY <2>1, <3>1
    <2>2. CASE w # ""
        <3>1. head = a \o b
            BY <1>9, <2>2
        <3>. HIDE DEF head
        <3>. QED
            BY <1>10, <3>1
    <2>. QED
        BY <2>1, <2>2
<1>. QED
    BY <1>11 DEF w, e

\* What stripComments leaves of a schema: its interfaces without comments, behind
\* a text without heads.
LEMMA SourceStripped ==
    ASSUME PlainNames, NEW s \in Schemas, WellWritten(s)
    PROVE  \E p \in HeadFree :
              stripComments(Source(s))
                = p \o FlattenSeq(Codes(s.interfaces, Len(s.interfaces)))
<1>. DEFINE ins == s.interfaces
            n == Len(ins)
            head == IF s.package = "" THEN <<>> ELSE <<"$Go.package", s.package, ";", "nl">>
            t == [i \in DOMAIN ins |-> InterfaceText(ins, i)]
            c == Codes(ins, n)
<1>1. ins \in Seq(WellInterface)
    BY SchemaWell
<1>2. Source(s) = head \o FlattenSeq(t)
    BY DEF Source, InterfaceText
<1>3. head \in Seq(Token) /\ \E p \in HeadFree : <<head, p>> \in Cleanings
    BY PackageWritten
<1>4. PICK p \in HeadFree : <<head, p>> \in Cleanings
    BY <1>3
<1>. HIDE DEF head, ins
<1>5. /\ n \in Nat /\ DOMAIN ins = 1..n /\ \A i \in DOMAIN ins : ins[i] \in WellInterface
    BY <1>1, ListIs
<1>6. ASSUME NEW i \in 1..n
      PROVE  <<t[i], c[i]>> \in Cleanings /\ t[i] \in Seq(Token) /\ c[i] \in Seq(Token)
    <2>1. t[i] = InterfaceText(ins, i) /\ c[i] = Code(ins[i])
        BY <1>5 DEF Codes
    <2>2. ins[i] \in WellInterface
        BY <1>5
    <2>3. /\ <<InterfaceText(ins, i), Code(ins[i])>> \in Cleanings
          /\ InterfaceText(ins, i) \in Seq(Token) /\ Code(ins[i]) \in Seq(Token)
        BY <2>2, CodeCleaned
    <2>. QED
        BY <2>1, <2>3
<1>7. /\ DOMAIN t = 1..n /\ t = [i \in 1..n |-> t[i]]
      /\ DOMAIN c = 1..n /\ c = [i \in 1..n |-> c[i]]
    BY <1>5 DEF Codes
<1>. HIDE DEF t, c, n
<1>8. t \in Seq(Seq(Token)) /\ Len(t) = n
    <2>1. \A i \in 1..n : t[i] \in Seq(Token)
        BY <1>6
    <2>. QED
        BY <1>5, <1>7, <2>1, ListWithin
<1>9. c \in Seq(Seq(Token)) /\ Len(c) = n
    <2>1. \A i \in 1..n : c[i] \in Seq(Token)
        BY <1>6
    <2>. QED
        BY <1>5, <1>7, <2>1, ListWithin
<1>10. <<FlattenSeq(t), FlattenSeq(c)>> \in Cleanings
    <2>1. <<<<>>, <<>>>> \in Cleanings
        BY CleanShort
    <2>2. \A a, b \in Seq(Token) : \A x, y \in Seq(Token) :
             <<a, x>> \in Cleanings /\ <<b, y>> \in Cleanings
                => <<a \o b, x \o y>> \in Cleanings
        BY CleanConcat
    <2>3. \A k \in DOMAIN t : <<t[k], c[k]>> \in Cleanings
        BY <1>6, <1>7
    <2>4. t \in Seq(Seq(Token)) /\ c \in Seq(Seq(Token)) /\ Len(t) = Len(c)
        BY <1>8, <1>9
    <2>. QED
        BY <2>1, <2>2, <2>3, <2>4, FlattenRelated
<1>11. FlattenSeq(t) \in Seq(Token) /\ FlattenSeq(c) \in Seq(Token)
    BY <1>8, <1>9, FlattenType
<1>. DEFINE ft == FlattenSeq(t)
            fc == FlattenSeq(c)
<1>12. p \in Seq(Token) /\ ft \in Seq(Token) /\ fc \in Seq(Token) /\ head \in Seq(Token)
       /\ <<ft, fc>> \in Cleanings
    BY <1>3, <1>10, <1>11 DEF HeadFree
<1>13. Source(s) = head \o ft
    BY <1>2
<1>. HIDE DEF ft, fc
<1>14. <<head \o ft, p \o fc>> \in Cleanings
    BY <1>4, <1>12, CleanConcat
<1>15. head \o ft \in Seq(Token) /\ p \o fc \in Seq(Token)
    BY <1>12, TextAfter
<1>16. stripComments(head \o ft) = p \o fc
    BY <1>14, <1>15, StripCleaned
<1>17. stripComments(Source(s)) = p \o FlattenSeq(Codes(s.interfaces, Len(s.interfaces)))
    BY <1>13, <1>16 DEF fc, c, n, ins
<1>. QED
    BY <1>17

-----------------------------------------------------------------------------
(* What is read is what is written.                                          *)

\* The interfaces of a schema are found where they stand, one by one.
LEMMA InterfacesRead ==
    ASSUME NEW s \in Schemas
    PROVE  LET src   == stripComments(Source(s))
               found == Picked(s.interfaces, Bases(s.interfaces))
           IN  /\ src \in Seq(Token) /\ found \in Seq(Basic)
               /\ FoundAt(src, InterfacesOf(src), found)
<1>. DEFINE src == stripComments(Source(s))
            ins == s.interfaces
            found == Picked(ins, Bases(ins))
            code == FlattenSeq(Codes(ins, Len(ins)))
<1>1. PlainNames /\ WellWritten(s)
    BY WritingAssumption
<1>2. PICK p \in HeadFree : src = p \o code
    BY <1>1, SourceStripped
<1>3. ins \in Seq(WellInterface)
    BY <1>1, SchemaWell
<1>4. FoundAt(p \o code, InterfacesOf(p \o code), found)
    BY <1>1, <1>3, AllFound
<1>5. src \in Seq(Token)
    BY SourceType, StripType
<1>6. found \in Seq(Basic)
    <2>1. \A i \in DOMAIN ins : ins[i] \in WellInterface
        BY <1>3, ListIs
    <2>2. \A i \in DOMAIN ins : i \in Bases(ins) => ins[i] \in Basic
        BY <2>1 DEF Bases, Basic
    <2>. HIDE DEF ins
    <2>3. Picked(ins, Bases(ins)) \in Seq(Basic)
        BY <1>3, <2>2, PickedWithin
    <2>. QED
        BY <2>3
<1>. HIDE DEF src, found, code
<1>7. FoundAt(src, InterfacesOf(src), found)
    BY <1>2, <1>4
<1>. QED
    BY <1>5, <1>6, <1>7 DEF src, found, ins

\* What the parser knows and what it reads where an interface stands.
KnownAt(src, i) == /\ HasBody(src, i + 2)
                   /\ \A stmt \in Range(Statements(src, i)) : IsMethod(stmt)
MethodsAt(src, i) == [k \in DOMAIN Statements(src, i) |-> AsMethod(Statements(src, i)[k])]

\* Of an interface that stands there, it knows all exactly if it knows the styles
\* of its methods, and then it reads the name and the methods.
LEMMA OneRead ==
    ASSUME NEW in \in Basic, NEW src \in Seq(Token), NEW i, Place(src, i, Code(in))
    PROVE  /\ src[i + 1] = in.name
           /\ KnownAt(src, i) <=> \A m \in Range(in.methods) : m.style \notin UnknownStyles
           /\ KnownAt(src, i) => ReadAs(MethodsAt(src, i), in.methods)
<1>1. PlainNames
    BY WritingAssumption
<1>2. src[i + 1] = in.name /\ HasBody(src, i + 2)
    BY <1>1, PlaceRead
<1>3. /\ (\A stmt \in Range(Statements(src, i)) : IsMethod(stmt))
           <=> \A m \in Range(in.methods) : m.style \notin UnknownStyles
      /\ (\A m \in Range(in.methods) : m.style \notin UnknownStyles) =>
           ReadAs([k \in DOMAIN Statements(src, i) |-> AsMethod(Statements(src, i)[k])],
                  in.methods)
    BY <1>1, MethodsReadBack
<1>4. KnownAt(src, i) <=> \A m \in Range(in.methods) : m.style \notin UnknownStyles
    BY <1>2, <1>3 DEF KnownAt
<1>5. KnownAt(src, i) => ReadAs(MethodsAt(src, i), in.methods)
    BY <1>3, <1>4 DEF MethodsAt
<1>. QED
    BY <1>2, <1>4, <1>5

\* The interfaces read are those found in the schema.
ReadWritten ==
    /\ Len(ifaces) = Len(Found)
    /\ \A i \in DOMAIN ifaces : /\ ifaces[i].name = Found[i].name
                                /\ ReadAs(ifaces[i].methods, Found[i].methods)

\* There is nothing to read, or something that the parser does not know.
Unreadable ==
    \/ Found = <<>>
    \/ \E in \in Range(Found) : \E m \in Range(in.methods) : m.style \in UnknownStyles

\* The interfaces found are the base ones; they are the same in the same schema.
LEMMA FoundKept ==
    /\ Found = Picked(schema.interfaces, Bases(schema.interfaces))
    /\ schema' = schema => Found' = Found
<1>1. Found = Picked(schema.interfaces, Bases(schema.interfaces))
    BY DEF Found, SelectAt, Picked, Pieces, Bases
<1>2. Found' = Picked(schema'.interfaces, Bases(schema'.interfaces))
    BY DEF Found, SelectAt, Picked, Pieces, Bases
<1>. QED
    BY <1>1, <1>2

\* Parse reads the interfaces as they are written, or there is a reason not to.
LEMMA ParseReads ==
    ASSUME DivideInv, Parse
    PROVE  \/ pc' = "build" /\ ReadWritten'
           \/ pc' = "error" /\ ifaces' = <<>> /\ Unreadable'
<1>. DEFINE src == stripComments(Source(schema))
            at == InterfacesOf(src)
            Read(i) == [name |-> src[i + 1], methods |-> MethodsAt(src, i)]
<1>1. schema \in Schemas /\ schema' = schema /\ ifaces = <<>>
    BY DEF DivideInv, Parse
<1>2. IF at # <<>> /\ \A i \in Range(at) : KnownAt(src, i)
      THEN ifaces' = [k \in DOMAIN at |-> Read(at[k])] /\ pc' = "build"
      ELSE pc' = "error" /\ ifaces' = ifaces
    BY DEF Parse, KnownAt, HasBody, MethodsAt
<1>3. Found = Picked(schema.interfaces, Bases(schema.interfaces))
    BY FoundKept
<1>4. Found' = Found
    BY <1>1, FoundKept
<1>5. src \in Seq(Token) /\ Found \in Seq(Basic) /\ FoundAt(src, at, Found)
    BY <1>1, <1>3, InterfacesRead
<1>. HIDE DEF src
<1>6. at \in Seq({i \in DOMAIN src : Heads(src, i)})
    BY <1>5, HeadsType
<1>. HIDE DEF at
<1>7. /\ DOMAIN at = 1..Len(at) /\ DOMAIN Found = 1..Len(Found) /\ Len(at) = Len(Found)
      /\ \A k \in DOMAIN Found : Found[k] \in Basic
    BY <1>5, <1>6, ListIs DEF FoundAt
<1>8. ASSUME NEW k \in DOMAIN Found
      PROVE  /\ src[at[k] + 1] = Found[k].name
             /\ KnownAt(src, at[k])
                  <=> \A m \in Range(Found[k].methods) : m.style \notin UnknownStyles
             /\ KnownAt(src, at[k]) => ReadAs(MethodsAt(src, at[k]), Found[k].methods)
    <2>1. Found[k] \in Basic /\ Place(src, at[k], Code(Found[k]))
        BY <1>5, <1>7 DEF FoundAt
    <2>. QED
        BY <1>5, <2>1, OneRead
<1>9. CASE at # <<>> /\ \A i \in Range(at) : KnownAt(src, i)
    <2>1. ifaces' = [k \in DOMAIN at |-> Read(at[k])] /\ pc' = "build"
        BY <1>2, <1>9
    <2>2. \A k \in DOMAIN at : KnownAt(src, at[k])
        BY <1>9 DEF Range
    <2>3. /\ DOMAIN ifaces' = DOMAIN at
          /\ \A k \in DOMAIN at : /\ ifaces'[k].name = src[at[k] + 1]
                                  /\ ifaces'[k].methods = MethodsAt(src, at[k])
        BY <2>1
    <2>4. Len(ifaces') = Len(Found)
        <3>1. ifaces' = [k \in 1..Len(at) |-> Read(at[k])]
            BY <1>7, <2>1
        <3>2. Len(at) \in Nat
            BY <1>6
        <3>. HIDE DEF Read
        <3>3. Len(ifaces') = Len(at)
            BY <3>1, <3>2
        <3>. QED
            BY <1>7, <3>3
    <2>5. \A k \in DOMAIN ifaces' : /\ ifaces'[k].name = Found[k].name
                                    /\ ReadAs(ifaces'[k].methods, Found[k].methods)
        BY <1>7, <1>8, <2>2, <2>3
    <2>6. ReadWritten'
        BY <1>4, <2>4, <2>5 DEF ReadWritten
    <2>. QED
        BY <2>1, <2>6
<1>10. CASE ~(at # <<>> /\ \A i \in Range(at) : KnownAt(src, i))
    <2>1. pc' = "error" /\ ifaces' = <<>>
        BY <1>1, <1>2, <1>10
    <2>2. ASSUME at = <<>> PROVE Found = <<>>
        <3>1. Len(at) = 0
            BY <2>2
        <3>2. Len(Found) = 0
            BY <1>7, <3>1
        <3>. QED
            BY <1>5, <3>2
    <2>3. ASSUME NEW i \in Range(at), ~KnownAt(src, i)
          PROVE  \E in \in Range(Found) : \E m \in Range(in.methods) :
                    m.style \in UnknownStyles
        <3>1. PICK k \in DOMAIN at : at[k] = i
            BY DEF Range
        <3>2. k \in DOMAIN Found
            BY <1>7
        <3>3. ~KnownAt(src, at[k])
            BY <2>3, <3>1
        <3>4. \E m \in Range(Found[k].methods) : m.style \in UnknownStyles
            BY <1>8, <3>2, <3>3
        <3>. QED
            BY <3>2, <3>4 DEF Range
    <2>4. Unreadable
        BY <1>10, <2>2, <2>3 DEF Unreadable
    <2>5. Unreadable'
        BY <1>4, <2>4 DEF Unreadable
    <2>. QED
        BY <2>1, <2>5
<1>. QED
    BY <1>9, <1>10

\* What has been read stays as it is written, and an error has its reason.
WrittenInv ==
    /\ pc \in {"build", "done"} => ReadWritten
    /\ ifaces = <<>> \/ ReadWritten
    /\ pc = "error" => Unreadable \/ schema.package = ""

\* At first nothing has been read.
LEMMA InitWritten == Init => WrittenInv
BY DEF Init, WrittenInv

\* Every step keeps it: the parser has read the schema before the model is built.
LEMMA StepWritten ==
    ASSUME DivideInv, WrittenInv, [Next]_vars
    PROVE  WrittenInv'
<1>1. CASE Parse
    BY <1>1, ParseReads DEF WrittenInv
<1>2. ASSUME schema' = schema, ifaces' = ifaces,
             pc' = pc \/ (pc = "build" /\ pc' = "done")
               \/ (pc = "build" /\ pc' = "error" /\ schema.package = "")
      PROVE  WrittenInv'
    <2>1. Found' = Found
        BY <1>2, FoundKept
    <2>2. (ReadWritten' <=> ReadWritten) /\ (Unreadable' <=> Unreadable)
        BY <1>2, <2>1 DEF ReadWritten, Unreadable
    <2>. QED
        BY <1>2, <2>2 DEF WrittenInv
<1>3. CASE BuildInterface
    BY <1>2, <1>3 DEF BuildInterface
<1>4. CASE BuildMethod
    BY <1>2, <1>4 DEF BuildMethod
<1>5. CASE Execute
    BY <1>2, <1>5 DEF Execute
<1>6. CASE UNCHANGED vars
    BY <1>2, <1>6 DEF vars
<1>. QED
    BY <1>1, <1>3, <1>4, <1>5, <1>6 DEF Next

\* With that the property the run checks.
LEMMA InvWritten == WrittenInv => ParsedAsWritten
<1>. SUFFICES ASSUME WrittenInv PROVE ParsedAsWritten
    OBVIOUS
<1>1. pc \in {"build", "done"} => Len(ifaces) = Len(Found)
    BY DEF WrittenInv, ReadWritten
<1>2. \A i \in DOMAIN ifaces : /\ ifaces[i].name = Found[i].name
                               /\ ReadAs(ifaces[i].methods, Found[i].methods)
    <2>1. CASE ifaces = <<>>
        <3>1. DOMAIN <<>> = {}
            OBVIOUS
        <3>. QED
            BY <2>1, <3>1
    <2>2. CASE ReadWritten
        BY <2>2 DEF ReadWritten
    <2>. QED
        BY <2>1, <2>2 DEF WrittenInv
<1>3. pc = "error" => \/ Found = <<>> \/ schema.package = ""
                      \/ \E in \in Range(Found) : \E m \in Range(in.methods) :
                            m.style \in {"noResults", "struct", "nested"}
    BY DEF WrittenInv, Unreadable, UnknownStyles
<1>. QED
    BY <1>1, <1>2, <1>3 DEF ParsedAsWritten, ReadAs

\* So it holds in every state, with the invariant of the loops.
LEMMA WrittenAlways == Spec => [](DivideInv /\ WrittenInv)
<1>1. Init => DivideInv /\ WrittenInv
    BY InitDivide, InitWritten
<1>2. DivideInv /\ WrittenInv /\ [Next]_vars => (DivideInv /\ WrittenInv)'
    BY StepDivide, StepWritten
<1>. QED
    BY <1>1, <1>2, PTL DEF Spec

\* Commas and semicolons inside parentheses, braces, comments and annotations
\* never make the parser read another schema than the one written, whatever the
\* schema: it reads the interfaces it finds with all their methods and fields, or,
\* when one has something it does not know, fails (parse, parseMethods).
THEOREM ReadsAsWritten == Spec => []ParsedAsWritten
BY WrittenAlways, InvWritten, PTL

-----------------------------------------------------------------------------
(* Types.                                                                    *)

\* Fields that are read as they are written have words for names.
LEMMA FieldsTyped ==
    ASSUME NEW ps \in Seq(ReadField), NEW fs \in Seq(FieldDecl), FieldsAre(ps, fs)
    PROVE  ps \in Seq(ParsedField)
<1>1. /\ DOMAIN ps = DOMAIN fs
      /\ \A k \in DOMAIN ps : ps[k].name = <<fs[k].name>> /\ ps[k].type = fs[k].type
    BY DEF FieldsAre
<1>2. /\ Len(ps) \in Nat /\ DOMAIN ps = 1..Len(ps) /\ ps = [k \in 1..Len(ps) |-> ps[k]]
      /\ \A k \in DOMAIN ps : ps[k] \in ReadField
    OBVIOUS
<1>3. \A k \in DOMAIN fs : fs[k] \in FieldDecl
    OBVIOUS
<1>4. ASSUME NEW k \in 1..Len(ps) PROVE ps[k] \in ParsedField
    <2>1. fs[k] \in FieldDecl /\ ps[k] \in ReadField
        BY <1>1, <1>2, <1>3
    <2>2. ps[k].name = <<fs[k].name>> /\ ps[k].type = fs[k].type
        BY <1>1, <1>2
    <2>3. fs[k].name \in Words /\ fs[k].type \in Seq(STRING)
        BY <2>1 DEF FieldDecl
    <2>4. <<fs[k].name>> \in Seq(Words)
        BY <2>3
    <2>5. ps[k] = [name |-> ps[k].name, type |-> ps[k].type]
        BY <2>1 DEF ReadField
    <2>. QED
        BY <2>2, <2>3, <2>4, <2>5 DEF ParsedField
<1>. QED
    BY <1>2, <1>4, ListWithin

\* So methods that are read as they are written are typed.
LEMMA MethodsTyped ==
    ASSUME NEW ms \in Seq(ReadMethod), NEW ws \in Seq(MethodDecl), ReadAs(ms, ws)
    PROVE  ms \in Seq(ParsedMethod)
<1>1. /\ DOMAIN ms = DOMAIN ws
      /\ \A k \in DOMAIN ms : /\ FieldsAre(ms[k].params, ws[k].params)
                              /\ FieldsAre(ms[k].results, ws[k].results)
    BY DEF ReadAs
<1>2. /\ Len(ms) \in Nat /\ DOMAIN ms = 1..Len(ms) /\ ms = [k \in 1..Len(ms) |-> ms[k]]
      /\ \A k \in DOMAIN ms : ms[k] \in ReadMethod
    OBVIOUS
<1>3. \A k \in DOMAIN ws : ws[k] \in MethodDecl
    OBVIOUS
<1>4. ASSUME NEW k \in 1..Len(ms) PROVE ms[k] \in ParsedMethod
    <2>1. ws[k] \in MethodDecl /\ ms[k] \in ReadMethod
        BY <1>1, <1>2, <1>3
    <2>2. FieldsAre(ms[k].params, ws[k].params) /\ FieldsAre(ms[k].results, ws[k].results)
        BY <1>1, <1>2
    <2>3. ws[k].params \in Seq(FieldDecl) /\ ws[k].results \in Seq(FieldDecl)
        BY <2>1 DEF MethodDecl
    <2>4. /\ ms[k].params \in Seq(ReadField) /\ ms[k].results \in Seq(ReadField)
          /\ ms[k].name \in Words /\ ms[k].unsupported \in BOOLEAN
          /\ ms[k] = [name |-> ms[k].name, params |-> ms[k].params,
                      results |-> ms[k].results, unsupported |-> ms[k].unsupported]
        BY <2>1 DEF ReadMethod
    <2>5. ms[k].params \in Seq(ParsedField) /\ ms[k].results \in Seq(ParsedField)
        BY <2>2, <2>3, <2>4, FieldsTyped
    <2>. QED
        BY <2>4, <2>5 DEF ParsedMethod
<1>. QED
    BY <1>2, <1>4, ListWithin

\* The type invariant follows: names are words, without the punctuation around
\* them.
LEMMA InvTyped == DivideInv /\ WrittenInv => TypeOK
<1>. SUFFICES ASSUME DivideInv, WrittenInv PROVE TypeOK
    OBVIOUS
<1>1. /\ schema \in Schemas /\ ifaces \in Seq(ReadInterface)
      /\ model \in Seq(ModelInterface) /\ Len(model) <= Len(ifaces)
      /\ skipped \in Seq(Nat \X Words) /\ pc \in {"parse", "build", "done", "error"}
    BY DEF DivideInv, ReadOK, ModelOK
<1>. DEFINE Typed == [name: Words, methods: Seq(ParsedMethod)]
            TypedModel == [name: Words, all: Seq(ParsedMethod), methods: Seq(ParsedMethod)]
<1>2. ASSUME NEW i \in DOMAIN ifaces
      PROVE  ifaces[i].name \in Words /\ ifaces[i].methods \in Seq(ParsedMethod)
    <2>1. ifaces # <<>>
        <3>1. DOMAIN <<>> = {}
            OBVIOUS
        <3>. QED
            BY <3>1
    <2>2. Len(ifaces) = Len(Found) /\ ReadAs(ifaces[i].methods, Found[i].methods)
        BY <2>1 DEF WrittenInv, ReadWritten
    <2>3. ifaces[i] \in ReadInterface
        BY <1>1
    <2>4. Found[i] \in InterfaceDecl
        <3>1. Found \in Seq(InterfaceDecl)
            BY <1>1, FoundType
        <3>2. DOMAIN ifaces = 1..Len(ifaces)
            BY <1>1
        <3>. QED
            BY <2>2, <3>1, <3>2
    <2>5. ifaces[i].methods \in Seq(ReadMethod) /\ ifaces[i].name \in Words
        BY <2>3 DEF ReadInterface
    <2>6. Found[i].methods \in Seq(MethodDecl)
        BY <2>4 DEF InterfaceDecl
    <2>7. ifaces[i].methods \in Seq(ParsedMethod)
        BY <2>2, <2>5, <2>6, MethodsTyped
    <2>. QED
        BY <2>5, <2>7
<1>3. ifaces \in Seq(Typed)
    <2>1. /\ Len(ifaces) \in Nat /\ DOMAIN ifaces = 1..Len(ifaces)
          /\ ifaces = [i \in 1..Len(ifaces) |-> ifaces[i]]
          /\ \A i \in DOMAIN ifaces : ifaces[i] \in ReadInterface
        BY <1>1
    <2>2. ASSUME NEW i \in 1..Len(ifaces) PROVE ifaces[i] \in Typed
        <3>1. ifaces[i] = [name |-> ifaces[i].name, methods |-> ifaces[i].methods]
            BY <2>1 DEF ReadInterface
        <3>. QED
            BY <1>2, <2>1, <3>1
    <2>. HIDE DEF Typed
    <2>. QED
        BY <2>1, <2>2, ListWithin
<1>4. ASSUME NEW i \in DOMAIN model
      PROVE  /\ model[i].all \in Seq(ParsedMethod)
             /\ model[i].methods \in Seq(ParsedMethod)
    <2>. DEFINE ms == ifaces[i].methods
                n == Len(model[i].all)
    <2>1. i \in DOMAIN ifaces
        <3>1. /\ DOMAIN ifaces = 1..Len(ifaces) /\ DOMAIN model = 1..Len(model)
              /\ Len(ifaces) \in Nat /\ Len(model) \in Nat
            BY <1>1
        <3>. QED
            BY <1>1, <3>1
    <2>2. ms \in Seq(ParsedMethod)
        BY <1>2, <2>1
    <2>3. /\ n <= Len(ms) /\ model[i].all = SubSeq(ms, 1, n)
          /\ model[i].methods = Picked(SubSeq(ms, 1, n), Kept(i))
        BY DEF DivideInv, DividedAt
    <2>4. n \in Nat
        <3>1. model[i] \in ModelInterface
            BY <1>1
        <3>. QED
            BY <3>1 DEF ModelInterface
    <2>. HIDE DEF ms, n
    <2>5. SubSeq(ms, 1, n) \in Seq(ParsedMethod)
        BY <2>2, <2>3, <2>4
    <2>6. Picked(SubSeq(ms, 1, n), Kept(i)) \in Seq(ParsedMethod)
        BY <2>5, PickedType
    <2>. QED
        BY <2>3, <2>5, <2>6
<1>5. model \in Seq(TypedModel)
    <2>1. /\ Len(model) \in Nat /\ DOMAIN model = 1..Len(model)
          /\ model = [i \in 1..Len(model) |-> model[i]]
          /\ \A i \in DOMAIN model : model[i] \in ModelInterface
        BY <1>1
    <2>2. ASSUME NEW i \in 1..Len(model) PROVE model[i] \in TypedModel
        <3>1. /\ model[i].name \in Words
              /\ model[i] = [name |-> model[i].name, all |-> model[i].all,
                             methods |-> model[i].methods]
            BY <2>1 DEF ModelInterface
        <3>. QED
            BY <1>4, <2>1, <3>1
    <2>. HIDE DEF TypedModel
    <2>. QED
        BY <2>1, <2>2, ListWithin
<1>. QED
    BY <1>1, <1>3, <1>5 DEF TypeOK

\* What Generate reads, keeps and reports is typed: every name is a word, without
\* the punctuation around it (parseFields, parseMethods).
THEOREM GeneratorTypeCorrect == Spec => []TypeOK
BY WrittenAlways, InvTyped, PTL

\* The methods of an interface of the schema s have names of their own.
MethodsNamed(s) ==
    \A in \in Range(s.interfaces) :
        IsInjective([k \in DOMAIN in.methods |-> in.methods[k].name])

\* So have then those of the interfaces found.
LEMMA NamesDistinct ==
    ASSUME schema \in Schemas, MethodsNamed(schema)
    PROVE  MethodNamesDistinct
<1>. DEFINE ins == schema.interfaces
            NamesOf(in) == [k \in DOMAIN in.methods |-> in.methods[k].name]
            Named == {in \in InterfaceDecl : IsInjective(NamesOf(in))}
<1>1. ins \in Seq(InterfaceDecl)
    BY GeneratorAssumption
<1>2. \A in \in Range(ins) : IsInjective(NamesOf(in))
    BY DEF MethodsNamed
<1>3. Found = Picked(ins, Bases(ins))
    BY FoundKept
<1>. HIDE DEF ins, NamesOf
<1>4. \A i \in DOMAIN ins : i \in Bases(ins) => ins[i] \in Named
    <2>1. \A i \in DOMAIN ins : ins[i] \in InterfaceDecl /\ ins[i] \in Range(ins)
        BY <1>1 DEF Range
    <2>. QED
        BY <1>2, <2>1
<1>. HIDE DEF Named
<1>5. Found \in Seq(Named)
    BY <1>1, <1>3, <1>4, PickedWithin
<1>6. \A i \in DOMAIN Found : IsInjective(NamesOf(Found[i]))
    BY <1>5 DEF Named
<1>. QED
    BY <1>6 DEF MethodNamesDistinct, NamesOf

\* Whatever the schemas, if the methods of an interface have names of their own, as
\* the schema compiler demands, the adapter is complete: it has a stub or a handler
\* for every method (parser.go, lines 24 to 26).
THEOREM Covers ==
    ASSUME \A s \in Schemas : MethodsNamed(s)
    PROVE  Spec => []AdapterCoversInterface
<1>1. DivideInv => MethodNamesDistinct
    BY NamesDistinct DEF DivideInv
<1>. QED
    BY <1>1, WrittenAlways, InvWritten, InvCovers, PTL

\* README.md, lines 137 to 140: the code of a schema compiles, whatever methods of
\* it the wrapper leaves to stubs, if it has one interface and no method the
\* client gets is empty or called close, and their exported names differ.
THEOREM Compiling == Spec => [](ExportedDistinct => CompilesIfNonEmpty)
BY WrittenAlways, InvWritten, InvCompiles, PTL

=============================================================================
